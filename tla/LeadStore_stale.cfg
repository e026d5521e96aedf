SPECIFICATION Spec
CONSTANTS
  p = p
  q = q
  a = a
  b = b
  o = o
  n = n
  Procs <- MCProcs
  Apns <- MCApns
  Owners <- MCOwners
  Phones <- MCPhones
  Files <- MCFiles
  None = None
PROPERTY CheckSeesTheList

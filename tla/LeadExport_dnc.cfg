SPECIFICATION Spec
CONSTANTS
  a = a
  b = b
  e = e
  f = f
  n = n
  m = m
  Apns <- MCApns
  Emails <- MCEmails
  Numbers <- MCNumbers
  Phones <- MCPhones
  Requests <- MCRequests
  MaxOpen = 2
  None = None
INVARIANT ListedIsNotExported

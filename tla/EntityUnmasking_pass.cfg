SPECIFICATION Spec
CONSTANTS
  anthropic = anthropic
  local_ollama = local_ollama
  long = long
  short = short
  Providers <- MCProviders
  Keys <- MCKeys
  Short <- MCShort
  Rank <- MCRank
  Anthropic = anthropic
  Local <- MCLocal
  None = None
  Empty = Empty
INVARIANTS
  IInv
  ConfirmedKeyIsKept
  WholeFileIsRemoved
PROPERTY
  OnlyStoredKeysAreMasked

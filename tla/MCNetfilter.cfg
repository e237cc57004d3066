SPECIFICATION FairNetSpec
CONSTANTS
  a = a
  b = b
  c = c
  d = d
  Mods <- MCMods
  Names = {"kmp", "bm"}
  NameOf <- MCNameOf
  Complete <- MCComplete
  Users = {nf}
  Head = Head
  None = None
  nf = nf
  CPUs = {cpu}
INVARIANTS
  HookSearches
  ConfBacked
  UniqueNames
  ReaderSafe
  LookupComplete
PROPERTIES
  PrepareReturns
  UnloadEnds
\* The hook stops where the outcome of a search is undefined.
CHECK_DEADLOCK FALSE

CONSTANTS
  n1 = n1
  n2 = n2
  nonutf8 = nonutf8
  empty = empty
  bad = bad
  none = none
  None <- none
  NonUtf8 <- nonutf8
  Empty <- empty
  Bad <- bad
  Names <- MCNames
  Values <- MCValues
  HeaderLists <- MCHeaderLists
  MaxMutations <- MCMaxMutations

SPECIFICATION Spec

INVARIANT JarFromFirstSuccess
INVARIANT CookieIsFirstMatch

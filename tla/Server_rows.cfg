SPECIFICATION Spec
CONSTANTS
  a = a
  b = b
  g1 = g1
  long = long
  longer = longer
  spaced = spaced
  r = r
  t1 = t1
  t2 = t2
  Names = {b, long, g1}
  KeptName <- FirstBytes
  Entry <- FirstWords
  Default = g1
  GroupAmount = 3
  Relays = {r}
  Threads = {t1, t2}
  WithPage = 0
  MaxId = 2
  MaxEvents = 1
INVARIANTS TypeOK RowsAreGroups RelaysAgree
SYMMETRY AlikeThreads

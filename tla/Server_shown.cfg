SPECIFICATION FairSpec
CONSTANTS
  a = a
  b = b
  g1 = g1
  long = long
  longer = longer
  r = r
  spaced = spaced
  t1 = t1
  Names = {a, spaced, longer, g1}
  KeptName <- FirstBytes
  Entry <- FirstWords
  Default = g1
  GroupAmount = 2
  Relays = {r}
  Threads = {t1}
  WithPage = 1
  MaxId = 2
  MaxEvents = 1
PROPERTIES StateIsShown

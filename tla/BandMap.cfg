SPECIFICATION FairSpec
CONSTANTS
  cluster = cluster
  mine = mine
  theirs = theirs
  ours = ours
  other = other
  NoLog = NoLog
  Keys = {cluster, mine, theirs}
  Logs = {ours, other}
  LogOf <- LogOfKey
  WindowLog = ours
  Values = {1, 2}
  Writers = {1, 2}
  Buffer = 1
  Direct = 1
  MaxUnsent = 2
  MaxSequence = 3
  Worlds <- MCWorlds
INVARIANTS
  ShowsAPrefix
PROPERTIES
  Settles

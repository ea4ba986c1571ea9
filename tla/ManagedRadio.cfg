SPECIFICATION FairSpec
CONSTANTS
  Texts = {1, 2, 3}
  RitLimit = 1
  DataMode = "USB"
  Worlds <- MCWorlds
INVARIANTS
  ShowsTheRadio
  TextsEndAsTold
  PttFollowsVoice
PROPERTIES
  EveryTextIsAnswered
CHECK_DEADLOCK FALSE

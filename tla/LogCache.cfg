SPECIFICATION FairCacheSpec
CONSTANTS
  LogIds = {1, 2}
  ContactIds = {1, 2}
  Params <- MCParams
  Contacts <- MCEdits
  NoLog = NoLog
  NoRow = NoRow
  Tasks = {t1, t2, t3}
  Setups <- MCSetups
  Buffer = 2
  SerialOf <- MCSerialOf
  NoTask = NoTask
  NoId = NoId
  t1 = t1
  t2 = t2
  t3 = t3
  p1 = p1
  p2 = p2
  None = None
INVARIANTS
  CoherentWhenCurrent
  AnswersAreFresh
PROPERTIES
  EveryRequestEnds

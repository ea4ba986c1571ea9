SPECIFICATION MCFairSpec
CONSTANTS
  Runs = {"a1", "a2", "b1"}
  Uuids = {"a", "b"}
  UuidOf <- MCUuidOf
  MaxId = 3
  Worlds <- MCWorlds
  Heard <- MCHeard
  MaxAge = 1
  DxBuffer = 3
  DxWorlds <- MCDxWorlds
  CacheCapacity = 1
  MaxPending = 1
  AuthPermits = 1
  LoginWorlds <- MCLoginWorlds
  MaxLogs = 2
  MaxContacts = 2
  MaxI64 = 2
  MaxRevision = 4
  Params = {p1}
  b20 = b20
  b40 = b40
  Serials <- MCSerials
  Bands <- MCBands
  Times = {1, 2}
  Payloads <- MCPayloads
  NoSerial = NoSerial
  NoLog = NoLog
  NoRow = NoRow
  NoId = NoId
  NotLoaded = NotLoaded
INVARIANTS
  CacheMatchesDatabase
  SerialsStrictlyIncrease
  OnlineRadiosAreListed
  ClusterIsFollowed
  VerdictsFitTheConfig
  ChangesTakeEffect
PROPERTIES
  ImplementsVersionedLogs
  UrlsFollowTheClients
CHECK_DEADLOCK FALSE

SPECIFICATION MCFairSpec
CONSTANTS
  a = a
  b = b
  Loggers = {a, b}
  NoLogger = NoLogger
  EventSlots = 2
  WsjtXWorlds <- MCWsjtXWorlds
  DigitalWindows = {a, b}
  NoWindow = NoWindow
  DigitalWorlds <- MCDigitalWorlds
INVARIANTS
  ContactsGoToTheTarget
  TargetIsServed
  TextsGoOutForTheirWindow
  InterfaceFollowsTheTarget
PROPERTIES
  DigitalRequestsEnd
CHECK_DEADLOCK FALSE

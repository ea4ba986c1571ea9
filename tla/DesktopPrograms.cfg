SPECIFICATION MCFairSpec
CONSTANTS
  Socks = {s1, s2}
  NoSock = NoSock
  MaxMail = 2
  MaxFaults = 2
  MaxWakes = 2
  Pids = {1, 2}
  Dirs = {"d1", "d2"}
  DefaultDir = "d1"
  LauncherWorlds <- MCLauncherWorlds
  Drivers = {"dummy", "full", "few"}
  DriverModes <- MCDriverModes
  CatKeyed = {"full"}
  Hosts = {1, 2}
  ClientWorlds <- MCClientWorlds
INVARIANTS
  BackendIsHeld
  DownloadsAreAllOrNothing
  HostRunsTheSettings
PROPERTIES
  StaysConnected
  ProgramsClose
CHECK_DEADLOCK FALSE

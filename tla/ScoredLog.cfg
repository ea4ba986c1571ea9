SPECIFICATION MCSpec
CONSTANTS
  Parts <- MCParts
  Kilometers <- MCKilometers
  Shapes <- MCShapes
  BandOf <- MCBandOf
  EntityOf <- MCEntityOf
  MaxId = 4
  NotScored = NotScored
  Worlds <- MCWithNone
  MaxRowId = 5
  Upper <- MCUpper
  LastWindow = 2
  Hour = 4
  NotKept = NotKept
  KeptWorlds <- MCKeptWorlds
  ValueFiles <- MCValueFiles
  FieldTypes <- MCFieldTypes
  Minutes <- MCMinutes
INVARIANTS
  ScoreIsOfTheList
  WindowsShowTheScores
  KeptUpIsAsLoaded
CHECK_DEADLOCK FALSE

SPECIFICATION Spec
CONSTANTS
  w1 = w1
  w2 = w2
  b1 = b1
  b2 = b2
  q1 = q1
  q2 = q2
  Setups <- SafeWorlds
  NoId = NoId
  NoRow = NoRow
  NoWindow = NoWindow
INVARIANTS
  CommitsAreTracked
  DuplicatesNeedACause
  LoggedContactsSurvive
SYMMETRY Names

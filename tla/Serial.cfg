SPECIFICATION FairSpec
CONSTANTS
  w1 = w1
  w2 = w2
  c1 = c1
  c2 = c2
  Windows = {w1, w2}
  Contacts = {c1, c2}
  Setups <- Worlds
INVARIANTS
  SerialsAreNew
PROPERTIES
  SerialComes

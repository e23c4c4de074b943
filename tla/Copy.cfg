SPECIFICATION FairSpec
CONSTANTS
  Whisper = {w1, w2}
  Value = {v1, v2}
  On = On
  Absent = Absent
  Guises = {"whisperer.jeffl.es", "whisperer.jeffl.es/update", "tenant"}
  Events = {"want", "source", "create", "clone", "edit", "remove", "fail"}
  MaxEvents = 2
INVARIANTS TypeOK
PROPERTIES TenantsValuesKept OnlySignedDeleted Settles
CHECK_DEADLOCK FALSE

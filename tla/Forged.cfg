SPECIFICATION Spec
CONSTANTS
  Whisper = {w1}
  Value = {v1}
  On = On
  Absent = Absent
  Guises = {"whisperer.jeffl.es", "tenant"}
  Events = {"want", "clone"}
  MaxEvents = 2
PROPERTY OnlyWrittenDeleted
CHECK_DEADLOCK FALSE

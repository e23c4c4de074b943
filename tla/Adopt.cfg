SPECIFICATION Spec
CONSTANTS
  Whisper = {w1}
  Value = {v1}
  On = On
  Absent = Absent
  Guises = {"tenant"}
  Events = {"create"}
  MaxEvents = 1
PROPERTY NeverAdopts
CHECK_DEADLOCK FALSE

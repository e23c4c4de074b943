SPECIFICATION FairSpec
CONSTANTS
  Whisper = {w1, w2}
  Source = {s1, s2}
  Slots = 1
  Events = {"spec", "source", "consent", "create", "delete", "stepDown", "fail", "crash", "signal"}
  MaxEvents = 3
INVARIANTS TypeOK NoLostChange
PROPERTIES Progress
CHECK_DEADLOCK FALSE

SPECIFICATION Spec
CONSTANTS
  Replica = {r1, r2}
  Namespace = {a}
  Protected = {}
  Requestable = {a}
  Labelled = {a}
  Writable = {a}
  Value = {v1}
  NoValue = NoValue
  NoNamespace = NoNamespace
  MaxUid = 1
  Events = {"delete", "stepDown"}
  MaxEvents = 2
  Exclusive = TRUE
  CaughtUp = TRUE
PROPERTY NoLateWrites
CHECK_DEADLOCK FALSE

SPECIFICATION Spec
CONSTANTS
  Replica = {r1}
  Namespace = {a, b}
  Protected = {}
  Requestable = {a}
  Labelled = {a, b}
  Writable = {a}
  Value = {v1}
  NoValue = NoValue
  NoNamespace = NoNamespace
  MaxUid = 1
  Events = {"delete", "stepDown"}
  MaxEvents = 2
  Exclusive = TRUE
  CaughtUp = TRUE
INVARIANT NoOrphans
CHECK_DEADLOCK FALSE

SPECIFICATION Spec
CONSTANTS
  Replica = {r1, r2}
  Namespace = {a, b}
  Protected = {}
  Requestable = {a, b}
  Labelled = {a, b}
  Writable = {a}
  Value = {v1}
  NoValue = NoValue
  NoNamespace = NoNamespace
  MaxUid = 2
  Events = {"create", "delete", "edit", "plant", "remove", "enrol", "decommission", "retire", "stepDown"}
  MaxEvents = 2
  Exclusive = FALSE
  CaughtUp = FALSE
SYMMETRY Symmetry
PROPERTIES DeletesOnlyOwn
CHECK_DEADLOCK FALSE

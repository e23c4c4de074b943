SPECIFICATION FairSpec
CONSTANTS
  Replica = {r1}
  Namespace = {a, b, k}
  Protected = {k}
  Requestable = {a, b, k}
  Labelled = {a, b, k}
  Writable = {a, b, k}
  Value = {v1, v2}
  NoValue = NoValue
  NoNamespace = NoNamespace
  MaxUid = 2
  Events = {"create", "edit", "delete", "loseStatus", "label", "source", "plant", "remove", "enrol", "decommission", "fail", "crash"}
  MaxEvents = 2
  Exclusive = TRUE
  CaughtUp = FALSE
INVARIANTS TypeOK CopiesConfined NoOrphans
PROPERTIES Converges DeletionCompletes LivesAsPromised
CHECK_DEADLOCK FALSE

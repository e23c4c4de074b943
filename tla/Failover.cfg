SPECIFICATION FairSpec
CONSTANTS
  Replica = {r1, r2}
  Namespace = {a, b}
  Protected = {}
  Requestable = {a, b}
  Labelled = {a, b}
  Writable = {a, b}
  Value = {v1}
  NoValue = NoValue
  NoNamespace = NoNamespace
  MaxUid = 2
  Events = {"create", "delete", "label", "crash"}
  MaxEvents = 3
  Exclusive = TRUE
  CaughtUp = TRUE
INVARIANTS NoOrphans
PROPERTIES Converges LivesAsPromised
CHECK_DEADLOCK FALSE

SPECIFICATION FairSpec
CONSTANTS
  Replica = {r1}
  Namespace = {a, b}
  Protected = {}
  Requestable = {a, b}
  Labelled = {a}
  Writable = {a}
  Value = {v1}
  NoValue = NoValue
  NoNamespace = NoNamespace
  MaxUid = 1
  Events = {"delete"}
  MaxEvents = 1
  Exclusive = TRUE
  CaughtUp = TRUE
PROPERTY DeletionCompletes
CHECK_DEADLOCK FALSE

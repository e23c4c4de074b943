SPECIFICATION FairSpec
CONSTANTS
  Replica = {r1, r2}
  NoOne = NoOne
  Ghost = Ghost
  LeaseTime = 15
  RenewTime = 5
  Grace = 5
  Backoff = 2
  ShortTime = 1
  CallLimit = 1
  MaxSkew = 1
  Timely = TRUE
  Faults = {"error", "crash", "retire", "deleteLease", "clearHolder"}
  MaxFaults = 3
INVARIANTS TypeOK LeaseBacked AtMostOneLeader
PROPERTIES KeepsPromise StableLeader

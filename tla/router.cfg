\* One version, a canary, its promotion; versions come and go, the router restarts once.
SPECIFICATION FairSpec
CONSTANTS
  Versions = {1, 2}
  Splits <- MCSplits
  Requests = {r1}
  Door = Door
  None = None
  MaxRestarts = 1
INVARIANTS TypeOK Attributed
PROPERTIES OneDownIsMasked RecoveredIsServed RequestsEnd

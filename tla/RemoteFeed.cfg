SPECIFICATION FairSpec
CONSTANTS
  s1 = s1
  Subs = {s1}
  MaxSent = 4
  MaxLoops = 4
  MaxQueued = 1
  MaxFrames = 1
INVARIANTS
  TypeOK
  GapOutlastsRegistration
PROPERTIES
  KeepsFeedPromise
  LossIsTold
CHECK_DEADLOCK FALSE

SPECIFICATION FairSpec
CONSTANTS
  a = a
  b = b
  c = c
  g = g
  startB = startB
  startC = startC
  startG = startG
  idleG = idleG
  endA = endA
  None = None
  Sessions <- MCSessions
  ParentOf <- MCParentOf
  Obs <- MCObs
  SubjectOf <- MCSubjectOf
  KindOf <- MCKindOf
  Early <- MCEarly
  Stored <- MCStored
  Capacity = 3
  MaxDeliveries = 5
  MaxFailures = 2
  MaxCrashes = 1
  MaxOthers = 1
INVARIANTS
  TypeOK
  OwnerHoldsCommitted
  AppliedOnce
PROPERTIES
  RoomOnlyFromFinished
  RevisionsRise
  IntakeEnds
CHECK_DEADLOCK FALSE

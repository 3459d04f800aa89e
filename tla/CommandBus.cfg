SPECIFICATION FairSpec
CONSTANTS
  a = a
  b = b
  ra = ra
  rb = rb
  ce = ce
  cb = cb
  ca = ca
  k = k
  m = m
  Edge = Edge
  None = None
  Participants = {a, b}
  Regs = {ra, rb}
  Commands = {ce, cb, ca}
  Keys = {k, m}
  OwnerOf <- MCOwnerOf
  KeysOf <- MCKeysOf
  RequesterOf <- MCRequesterOf
  KeyOf <- MCKeyOf
  MaxQueued = 1
  Prompt = {a}
INVARIANTS
  TypeOK
  PendingIsHeld
PROPERTIES
  RejectedNeverStarts
  KeepsPromise
  CloseCompletes
CHECK_DEADLOCK FALSE

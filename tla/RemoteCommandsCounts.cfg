SPECIFICATION RemoteSpec
CONSTANTS
  p = p
  k = k
  c1 = c1
  c2 = c2
  m1 = m1
  m2 = m2
  q1 = q1
  q2 = q2
  Edge = Edge
  None = None
  Participants = {p}
  Regs = {1, 2}
  Commands = {c1, c2}
  Keys = {k}
  OwnerOf <- MCOwnerOf
  KeysOf <- MCKeysOf
  RequesterOf <- MCRequesterOf
  KeyOf <- MCKeyOf
  MaxQueued = 1
  Prompt = {}
  Messages = {m1, m2}
  Principals = {q1, q2}
  Loads <- MCLoads
  Long = {m1}
  PerPrincipal = 1
  Total = 2
INVARIANTS
  CountsMatch
CHECK_DEADLOCK FALSE

SPECIFICATION Spec
CONSTANTS
  dev = dev
  lab = lab
  first = first
  repeat = repeat
  other = other
  label = label
  dim = dim
  brighten = brighten
  rename = rename
  stranger = stranger
  Core = Core
  Owner = Owner
  NoOne = NoOne
  Absent = Absent
  Sources = {Core, Owner, stranger}
  OutcomeIds = {1, 2, 3}
  Actions = {dim, brighten, rename}
  Requests = {dev}
  CoreOwned = {}
  Calls = {first, repeat, other}
  RequestOf <- MCRequestOf
  ActionOf <- MCActionOf
  Reports <- MCReports
  MaxTrouble = 2
INVARIANTS
  TypeOK
  SentOnce
  RefusedHadNoEffect
  ResultFollowsOutcomes
  AnswersAgree
PROPERTIES
  ResultHardens
CHECK_DEADLOCK FALSE

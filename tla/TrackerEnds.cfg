SPECIFICATION FairSpec
CONSTANTS
  dev = dev
  lab = lab
  first = first
  repeat = repeat
  other = other
  label = label
  dim = dim
  brighten = brighten
  rename = rename
  stranger = stranger
  Core = Core
  Owner = Owner
  NoOne = NoOne
  Absent = Absent
  Sources = {Core, Owner, stranger}
  OutcomeIds = {2}
  Actions = {dim, brighten, rename}
  Requests = {dev, lab}
  CoreOwned = {lab}
  Calls = {first, label}
  RequestOf <- MCRequestOf
  ActionOf <- MCActionOf
  Reports <- FewReports
  MaxTrouble = 1
PROPERTIES
  PendingEnds
  CallersAnswered
CHECK_DEADLOCK FALSE

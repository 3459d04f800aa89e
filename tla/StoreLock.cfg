SPECIFICATION FairSpec
CONSTANTS
  first = first
  second = second
  runtime = runtime
  core = core
  tool = tool
  rival = rival
  path = path
  alias = alias
  i1 = i1
  i2 = i2
  None = None
  Old = i1
  Processes = {first, second}
  Attempts = {runtime, core, tool, rival}
  ProcOf <- MCProcOf
  NameOf <- MCNameOf
  Existing = {runtime}
  Tools = {tool}
  Names = {path, alias}
  Inodes = {i1, i2}
  MaxRenames = 2
INVARIANTS
  TypeOK
  LeaseExcludes
PROPERTIES
  AttemptEnds
CHECK_DEADLOCK FALSE

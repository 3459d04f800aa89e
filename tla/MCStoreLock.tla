----------------------------- MODULE MCStoreLock -----------------------------
\* A runtime that owns its data, a core and a tool in its process, the tool by
\* another name, and a core in a second process.
EXTENDS StoreLock

CONSTANTS first, second, runtime, core, tool, rival, path, alias, i1, i2

MCProcOf == [a \in Attempts |-> IF a = rival THEN second ELSE first]
MCNameOf == [a \in Attempts |-> IF a = tool THEN alias ELSE path]
=============================================================================

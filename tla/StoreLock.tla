------------------------------ MODULE StoreLock ------------------------------
(***************************************************************************)
(* The lease on a store: apps/runtime/src/core/lock.ts, and the ownership  *)
(* a runtime takes of its data before its core starts                      *)
(* (apps/runtime/src/runtime-ownership.ts).                                *)
(*                                                                         *)
(* The lease is an exclusive SQLite transaction on an empty file.  Beneath *)
(* it is a POSIX lock, which a process loses as soon as it closes any      *)
(* descriptor of that file, so an attempt that opened the file of a lease  *)
(* its own process holds would end that lease without a trace.  Each       *)
(* process therefore registers the names and the files of its leases.      *)
(***************************************************************************)
EXTENDS Naturals

CONSTANTS
  Processes,
  Attempts,      \* calls of takeLock and acquireRuntimeOwnership
  ProcOf,        \* [Attempts -> Processes]
  NameOf,        \* [Attempts -> Names]: the lock file's canonical path
  Existing,      \* the calls of acquireRuntimeOwnership: takeExistingLock
  Tools,         \* offline tools: takeLock with a signal aborted already
  Names, Inodes, None,
  Old,           \* the file an earlier run left, if it left one
  MaxRenames     \* bound on the renames of a lock file

ASSUME LockAssumption ==
  /\ ProcOf \in [Attempts -> Processes]
  /\ NameOf \in [Attempts -> Names]
  /\ Existing \subseteq Attempts /\ Tools \subseteq Attempts
  /\ None \notin Processes \union Inodes
  /\ Old \in Inodes
  /\ MaxRenames \in Nat

VARIABLES
  at,          \* [Names]: the file there
  kernel,      \* [Inodes]: the process whose POSIX lock is on it
  held,        \* [Processes]: the names its attempts registered
  heldFiles,   \* [Processes]: the files its attempts registered
  stage,       \* [Attempts]: where it stands
  key,         \* [Attempts]: the file it found at its name
  aborted,     \* the attempts whose deadline has passed
  phase,       \* [Attempts]: the ownership's phase, for the Existing
  renames      \* how many there were

registry  == <<held, heldFiles>>
attempt   == <<stage, key, aborted, phase>>
vars      == <<at, kernel, registry, attempt, renames>>

Stages == {"look", "looked", "open", "opened", "probed", "holding", "over"}
Phases == {"none", "acquired", "bound", "reserved", "admitted", "consumed"}
Kept == {"bound", "reserved", "admitted", "consumed"}

TypeOK ==
  /\ at \in [Names -> Inodes \union {None}]
  /\ kernel \in [Inodes -> Processes \union {None}]
  /\ held \in [Processes -> SUBSET Names]
  /\ heldFiles \in [Processes -> SUBSET Inodes]
  /\ stage \in [Attempts -> Stages]
  /\ key \in [Attempts -> Inodes \union {None}]
  /\ aborted \subseteq Attempts
  /\ phase \in [Attempts -> Phases]
  /\ renames \in 0..MaxRenames
  /\ \A a \in Attempts :
       stage[a] \in {"opened", "probed", "holding"} => key[a] \in Inodes

\* A state directory where the lease was taken before, or a new one.
Init ==
  /\ at \in [Names -> {Old, None}]
  /\ \A m, n \in Names : m # n => at[m] = None \/ at[n] = None
  /\ kernel = [i \in Inodes |-> None]
  /\ held = [p \in Processes |-> {}]
  /\ heldFiles = [p \in Processes |-> {}]
  /\ stage = [a \in Attempts |-> "look"]
  /\ key = [a \in Attempts |-> None]
  /\ aborted = Existing \union Tools
  /\ phase = [a \in Attempts |-> "none"]
  /\ renames = 0

-----------------------------------------------------------------------------
(* An attempt.  Each await of the code ends a step.                        *)

Moves(a, to) == stage' = [stage EXCEPT ![a] = to]

\* It leaves, or goes back to look again: it knows no file any more.
Restarts(a, to) == Moves(a, to) /\ key' = [key EXCEPT ![a] = None]

\* lstat, whose result is judged later.
Look(a) ==
  /\ stage[a] = "look"
  /\ key' = [key EXCEPT ![a] = at[NameOf[a]]]
  /\ Moves(a, "looked")
  /\ UNCHANGED <<at, kernel, registry, aborted, phase, renames>>

\* Mutant: only the name is looked up.
TakenByName(a) == NameOf[a] \in held[ProcOf[a]]

\* This process holds the name, or the file under another name, or tries to.
Taken(a) ==
  \/ NameOf[a] \in held[ProcOf[a]]
  \/ key[a] \in heldFiles[ProcOf[a]]

\* Mutant: an attempt on a lease of its own process never gives up.
AgainAlways(a) == Restarts(a, "look")

\* After a wait it looks again, unless its deadline has passed.
Again(a) == Restarts(a, IF a \in aborted THEN "over" ELSE "look")

Wait(a) ==
  /\ stage[a] = "looked" /\ Taken(a)
  /\ ~(a \in Existing /\ key[a] = None)
  /\ Again(a)
  /\ UNCHANGED <<at, kernel, registry, aborted, phase, renames>>

\* An ownership creates nothing.
Missing(a) ==
  /\ stage[a] = "looked" /\ a \in Existing /\ key[a] = None
  /\ Restarts(a, "over")
  /\ UNCHANGED <<at, kernel, registry, aborted, phase, renames>>

Register(a) ==
  /\ stage[a] = "looked" /\ ~Taken(a)
  /\ ~(a \in Existing /\ key[a] = None)
  /\ held' = [held EXCEPT ![ProcOf[a]] = @ \union {NameOf[a]}]
  /\ Moves(a, "open")
  /\ UNCHANGED <<at, kernel, heldFiles, key, aborted, phase, renames>>

\* Mutant: the file it looked at before is taken for the one it opened.
OpenUnseen(a) ==
  /\ stage[a] = "open" /\ a \notin Existing
  /\ IF at[NameOf[a]] # None
     THEN UNCHANGED at
     ELSE \E i \in Inodes : at' = [at EXCEPT ![NameOf[a]] = i]
  /\ Moves(a, "opened")
  /\ UNCHANGED <<kernel, registry, key, aborted, phase, renames>>

\* takeLock opens the file, which creates it, to see that it is private.
Open(a) ==
  /\ stage[a] = "open" /\ a \notin Existing
  /\ \/ at[NameOf[a]] # None /\ UNCHANGED at
     \/ /\ at[NameOf[a]] = None
        /\ \E i \in Inodes :
             /\ \A n \in Names : at[n] # i
             /\ \A b \in Attempts : key[b] # i
             /\ at' = [at EXCEPT ![NameOf[a]] = i]
  /\ key' = [key EXCEPT ![a] = at'[NameOf[a]]]
  /\ Moves(a, "opened")
  /\ UNCHANGED <<kernel, registry, aborted, phase, renames>>

\* ... and closes it: the kernel drops this process's lock on the file.
CloseProbe(a) ==
  /\ stage[a] = "opened"
  /\ kernel' = [kernel EXCEPT ![key[a]] = IF @ = ProcOf[a] THEN None ELSE @]
  /\ Moves(a, "probed")
  /\ UNCHANGED <<at, registry, key, aborted, phase, renames>>

\* takeExistingLock opens nothing: it looks at the sidecars only.
SkipProbe(a) ==
  /\ stage[a] = "open" /\ a \in Existing
  /\ Moves(a, "probed")
  /\ UNCHANGED <<at, kernel, registry, key, aborted, phase, renames>>

\* The name and the file of attempt a are registered no more.
Unregister(a) ==
  /\ held' = [held EXCEPT ![ProcOf[a]] = @ \ {NameOf[a]}]
  /\ heldFiles' = [heldFiles EXCEPT ![ProcOf[a]] = @ \ {key[a]}]

\* SQLite knows the transactions of its own process, the kernel the others'.
Free(a) ==
  /\ kernel[key[a]] \in {None, ProcOf[a]}
  /\ \A b \in Attempts :
       stage[b] = "holding" /\ ProcOf[b] = ProcOf[a] => key[b] # key[a]

\* The file is registered and the exclusive transaction begins.
Lock(a) ==
  /\ stage[a] = "probed" /\ Free(a)
  /\ heldFiles' = [heldFiles EXCEPT ![ProcOf[a]] = @ \union {key[a]}]
  /\ kernel' = [kernel EXCEPT ![key[a]] = ProcOf[a]]
  /\ Moves(a, "holding")
  /\ UNCHANGED <<at, held, key, aborted, phase, renames>>

\* SQLITE_BUSY: another process holds it.
Busy(a) ==
  /\ stage[a] = "probed" /\ ~Free(a)
  /\ Unregister(a)
  /\ Again(a)
  /\ UNCHANGED <<at, kernel, aborted, phase, renames>>

\* Any other error ends the attempt.  It knows its file once it has probed.
Fail(a) ==
  /\ \/ stage[a] = "looked" /\ UNCHANGED registry
     \/ /\ stage[a] = "open"
        /\ held' = [held EXCEPT ![ProcOf[a]] = @ \ {NameOf[a]}]
        /\ UNCHANGED heldFiles
     \/ stage[a] = "probed" /\ Unregister(a)
  /\ Restarts(a, "over")
  /\ UNCHANGED <<at, kernel, aborted, phase, renames>>

Abort(a) ==
  /\ a \notin aborted
  /\ stage[a] \notin {"holding", "over"}
  /\ aborted' = aborted \union {a}
  /\ UNCHANGED <<at, kernel, registry, stage, key, phase, renames>>

-----------------------------------------------------------------------------
(* The lease and the ownership of the runtime's data.                      *)

LetGo(a) ==
  /\ Unregister(a)
  /\ kernel' = [kernel EXCEPT ![key[a]] = None]
  /\ Restarts(a, "over")
  /\ phase' = [phase EXCEPT ![a] = "none"]
  /\ UNCHANGED <<at, aborted, renames>>

\* A lease ends when its holder wants, an ownership only before it is bound.
Release(a) ==
  /\ stage[a] = "holding"
  /\ a \in Existing => phase[a] = "acquired"
  /\ LetGo(a)

\* The file under the name is still the one the lease is on.
Intact(a) == at[NameOf[a]] = key[a]

Phase(a, from, to) ==
  /\ stage[a] = "holding" /\ phase[a] = from
  /\ phase' = [phase EXCEPT ![a] = to]
  /\ UNCHANGED <<at, kernel, registry, stage, key, aborted, renames>>

Acquired(a) == a \in Existing /\ Intact(a) /\ Phase(a, "none", "acquired")

\* acquireRuntimeOwnership gives the lease back.
Unacquired(a) ==
  /\ stage[a] = "holding" /\ a \in Existing /\ phase[a] = "none" /\ ~Intact(a)
  /\ LetGo(a)

Bind(a)    == Phase(a, "acquired", "bound")
Reserve(a) == Phase(a, "bound", "reserved")

\* A failed admission stays reserved: it cannot be used again.
Admit(a)   == Intact(a) /\ Phase(a, "reserved", "admitted")
Borrow(a)  == Phase(a, "admitted", "consumed")

-----------------------------------------------------------------------------
(* What happens around them.                                               *)

InFlight == {"looked", "open", "opened", "probed"}

\* Somebody renames the lock file, while no attempt is looking at it.
Rename(m, n) ==
  /\ renames < MaxRenames /\ renames' = renames + 1
  /\ at[m] # None /\ at[n] = None
  /\ \A a \in Attempts : stage[a] \notin InFlight
  /\ at' = [at EXCEPT ![m] = None, ![n] = at[m]]
  /\ UNCHANGED <<kernel, registry, attempt>>

\* A process ends, and with it its transactions.
Exit(p) ==
  /\ \E a \in Attempts : ProcOf[a] = p /\ stage[a] # "over"
  /\ kernel' = [i \in Inodes |-> IF kernel[i] = p THEN None ELSE kernel[i]]
  /\ held' = [held EXCEPT ![p] = {}]
  /\ heldFiles' = [heldFiles EXCEPT ![p] = {}]
  /\ stage' = [a \in Attempts |-> IF ProcOf[a] = p THEN "over" ELSE stage[a]]
  /\ key' = [a \in Attempts |-> IF ProcOf[a] = p THEN None ELSE key[a]]
  /\ phase' = [a \in Attempts |-> IF ProcOf[a] = p THEN "none" ELSE phase[a]]
  /\ UNCHANGED <<at, aborted, renames>>

\* What an attempt does without anybody else.
Goes(a) ==
  \/ Look(a) \/ Wait(a) \/ Missing(a) \/ Register(a)
  \/ Open(a) \/ CloseProbe(a) \/ SkipProbe(a) \/ Lock(a) \/ Busy(a)

Uses(a) ==
  \/ Release(a) \/ Acquired(a) \/ Unacquired(a)
  \/ Bind(a) \/ Reserve(a) \/ Admit(a) \/ Borrow(a)

Next ==
  \/ \E a \in Attempts : Goes(a) \/ Fail(a) \/ Abort(a) \/ Uses(a)
  \/ \E m, n \in Names : Rename(m, n)
  \/ \E p \in Processes : Exit(p)

Spec == Init /\ [][Next]_vars

\* Calls of the file system return, and deadlines pass.
FairSpec ==
  /\ Spec
  /\ \A a \in Attempts : WF_vars(Goes(a))
  /\ \A a \in Attempts \ (Existing \union Tools) : WF_vars(Abort(a))

-----------------------------------------------------------------------------
(* Properties.                                                             *)

\* Who holds a lease, and the runtime that bound its core to one, keeps out
\* everybody: the kernel's lock is still its process's and nobody else holds
\* that file, whatever other attempts of its own process did meanwhile.
LeaseExcludes ==
  \A a \in Attempts :
    /\ phase[a] \in Kept => stage[a] = "holding"
    /\ stage[a] = "holding" =>
         /\ kernel[key[a]] = ProcOf[a]
         /\ \A b \in Attempts \ {a} : stage[b] = "holding" => key[b] # key[a]

\* No attempt waits for ever for somebody else's lease.
AttemptEnds ==
  \A a \in Attempts : stage[a] = "look" ~> stage[a] \in {"holding", "over"}
=============================================================================

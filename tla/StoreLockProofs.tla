--------------------------- MODULE StoreLockProofs ---------------------------
(***************************************************************************)
(* A lease excludes, for every number of processes, attempts, names and    *)
(* files, and for every sequence of failures, renames and exits.           *)
(*                                                                         *)
(* LeaseExcludes is not inductive.  What keeps an attempt from closing a   *)
(* descriptor of a file that its own process holds is that its name is its *)
(* own (NamesApart) and that the file there is no other lease's (NoAlias). *)
(***************************************************************************)
EXTENDS StoreLock, TLAPS

Registering == {"open", "opened", "probed", "holding"}

\* One file has one name: it is private, with one link.
FilesApart ==
  \A m, n \in Names : m # n => at[m] = None \/ at[m] # at[n]

\* Whoever is past its registration has its name in its process's registry.
NameHeld ==
  \A a \in Attempts : stage[a] \in Registering => NameOf[a] \in held[ProcOf[a]]

\* Within a process no two of them have one name.
NamesApart ==
  \A a, b \in Attempts :
    a # b /\ ProcOf[a] = ProcOf[b] /\ {stage[a], stage[b]} \subseteq Registering
      => NameOf[a] # NameOf[b]

\* The file an attempt knows is the one at its name, as long as it works.
Found ==
  \A a \in Attempts :
    /\ stage[a] \in InFlight /\ key[a] # None => at[NameOf[a]] = key[a]
    /\ stage[a] = "open" /\ a \in Existing => key[a] # None

\* A lease's file is in its process's registry, and the kernel's lock is held.
FileHeld ==
  \A a \in Attempts :
    stage[a] = "holding" =>
      /\ key[a] \in heldFiles[ProcOf[a]]
      /\ kernel[key[a]] = ProcOf[a]

\* The file at the name an attempt works on is no lease of its own process by
\* another name, unless the attempt has yet to see that it is.
NoAlias ==
  \A a, b \in Attempts :
    /\ stage[a] \in InFlight /\ stage[b] = "holding"
    /\ ProcOf[a] = ProcOf[b] /\ NameOf[a] # NameOf[b]
    /\ at[NameOf[a]] = key[b]
    => stage[a] = "looked" /\ key[a] = key[b]

\* No two leases are on one file.
Apart ==
  \A a, b \in Attempts :
    a # b /\ stage[a] = "holding" /\ stage[b] = "holding" => key[a] # key[b]

\* An ownership has a phase only while it has its lease.
PhaseHeld == \A a \in Attempts : phase[a] # "none" => stage[a] = "holding"

LockInv ==
  /\ TypeOK
  /\ FilesApart /\ NameHeld /\ NamesApart /\ Found
  /\ FileHeld /\ NoAlias /\ Apart /\ PhaseHeld

-----------------------------------------------------------------------------

LEMMA LockInit == Init => LockInv
BY LockAssumption DEF Init, LockInv, TypeOK, FilesApart, NameHeld, NamesApart,
   Found, FileHeld, NoAlias, Apart, PhaseHeld, Stages, Phases, Registering,
   InFlight

\* Every step keeps the invariant.
LEMMA LockStep == LockInv /\ [Next]_vars => LockInv'
<1> SUFFICES ASSUME LockInv, [Next]_vars PROVE LockInv'
  OBVIOUS
<1> USE LockAssumption DEF TypeOK, Stages, Phases, registry, attempt
<1>a. /\ TypeOK /\ FilesApart /\ NameHeld /\ NamesApart /\ Found
      /\ FileHeld /\ NoAlias /\ Apart /\ PhaseHeld
  BY DEF LockInv
<1>1. ASSUME NEW a \in Attempts, Look(a) PROVE LockInv'
  BY <1>a, <1>1 DEF Look, Moves, LockInv, FilesApart, NameHeld, NamesApart, Found,
     FileHeld, NoAlias, Apart, PhaseHeld, Registering, InFlight
\* The name and the file seen were free: it now has a name of its own.
<1>2. ASSUME NEW a \in Attempts, Register(a) PROVE LockInv'
  <2>1. TypeOK' /\ FilesApart' /\ FileHeld' /\ Apart' /\ PhaseHeld'
    BY <1>a, <1>2 DEF Register, Moves, FilesApart, FileHeld, Apart, PhaseHeld
  <2>2. NameHeld'
    BY <1>a, <1>2 DEF Register, Moves, NameHeld, Registering
  <2>3. NamesApart'
    BY <1>a, <1>2 DEF Register, Moves, Taken, NameHeld, NamesApart, Registering
  <2>4. Found'
    BY <1>a, <1>2 DEF Register, Moves, Found, InFlight
  <2>5. NoAlias'
    BY <1>a, <1>2 DEF Register, Moves, Taken, NoAlias, FileHeld, InFlight
  <2> QED  BY <2>1, <2>2, <2>3, <2>4, <2>5 DEF LockInv
\* A file it creates has no other name and no lease.
<1>3. ASSUME NEW a \in Attempts, Open(a) PROVE LockInv'
  <2>1. TypeOK' /\ FilesApart' /\ PhaseHeld'
    BY <1>a, <1>3 DEF Open, Moves, FilesApart, PhaseHeld
  <2>2. NameHeld' /\ NamesApart' /\ FileHeld' /\ Apart'
    BY <1>a, <1>3 DEF Open, Moves, NameHeld, NamesApart, FileHeld, Apart, Registering
  <2>3. Found'
    BY <1>a, <1>3 DEF Open, Moves, Found, InFlight
  <2>4. NoAlias'
    BY <1>a, <1>3 DEF Open, Moves, NoAlias, InFlight
  <2> QED  BY <2>1, <2>2, <2>3, <2>4 DEF LockInv
\* Its descriptor is on no file of its own process's leases.
<1>4. ASSUME NEW a \in Attempts, CloseProbe(a) PROVE LockInv'
  <2>1. ASSUME NEW b \in Attempts, stage[b] = "holding", ProcOf[b] = ProcOf[a]
        PROVE  key[b] # key[a]
    BY <1>a, <1>4, <2>1 DEF CloseProbe, NamesApart, Found, NoAlias, Registering, InFlight
  <2>2. FileHeld'
    BY <1>a, <1>4, <2>1 DEF CloseProbe, Moves, FileHeld
  <2>3. TypeOK' /\ FilesApart' /\ NameHeld' /\ NamesApart' /\ Found'
        /\ NoAlias' /\ Apart' /\ PhaseHeld'
    BY <1>a, <1>4 DEF CloseProbe, Moves, FilesApart, NameHeld, NamesApart, Found,
       NoAlias, Apart, PhaseHeld, Registering, InFlight
  <2> QED  BY <2>2, <2>3 DEF LockInv
<1>5. ASSUME NEW a \in Attempts, SkipProbe(a) PROVE LockInv'
  BY <1>a, <1>5 DEF SkipProbe, Moves, LockInv, FilesApart, NameHeld, NamesApart,
     Found, FileHeld, NoAlias, Apart, PhaseHeld, Registering, InFlight
\* Neither its own process nor another one has a lease on the file.
<1>6. ASSUME NEW a \in Attempts, Lock(a) PROVE LockInv'
  <2>1. \A b \in Attempts \ {a} : stage[b] = "holding" => key[b] # key[a]
    BY <1>a, <1>6 DEF Lock, Free, FileHeld
  <2>2. FileHeld' /\ Apart'
    BY <1>a, <1>6, <2>1 DEF Lock, Moves, FileHeld, Apart
  <2>3. NoAlias'
    BY <1>a, <1>6, <2>1 DEF Lock, Moves, NoAlias, Found, FilesApart, InFlight
  <2>4. TypeOK' /\ FilesApart' /\ NameHeld' /\ NamesApart' /\ Found' /\ PhaseHeld'
    BY <1>a, <1>6 DEF Lock, Moves, FilesApart, NameHeld, NamesApart, Found,
       PhaseHeld, Registering, InFlight
  <2> QED  BY <2>2, <2>3, <2>4 DEF LockInv
\* An attempt that leaves takes its own name and file out, and nobody else's.
<1>7. ASSUME NEW a \in Attempts, stage[a] \in {"probed", "holding"},
             Unregister(a), NEW to \in {"look", "over"}, Restarts(a, to),
             UNCHANGED <<at, renames>>, aborted' \subseteq Attempts,
             \/ UNCHANGED <<kernel, phase>> /\ stage[a] = "probed"
             \/ /\ kernel' = [kernel EXCEPT ![key[a]] = None]
                /\ phase' = [phase EXCEPT ![a] = "none"]
                /\ stage[a] = "holding"
      PROVE  LockInv'
  <2>1. ASSUME NEW b \in Attempts \ {a}, stage[b] = "holding", ProcOf[b] = ProcOf[a]
        PROVE  key[b] # key[a]
    BY <1>a, <1>7, <2>1 DEF NamesApart, Found, NoAlias, Apart, Registering, InFlight
  <2>2. NameHeld' /\ NamesApart'
    BY <1>a, <1>7 DEF Unregister, Restarts, Moves, NameHeld, NamesApart, Registering
  <2>3. FileHeld'
    <3> SUFFICES ASSUME NEW b \in Attempts, stage'[b] = "holding"
                 PROVE  /\ key'[b] \in heldFiles'[ProcOf[b]]
                        /\ kernel'[key'[b]] = ProcOf[b]
      BY DEF FileHeld
    <3>1. b # a /\ stage[b] = "holding" /\ key'[b] = key[b]
      BY <1>a, <1>7 DEF Restarts, Moves
    <3>2. key[b] \in heldFiles[ProcOf[b]] /\ kernel[key[b]] = ProcOf[b]
      BY <1>a, <3>1 DEF FileHeld
    <3>3. key'[b] \in heldFiles'[ProcOf[b]]
      BY <1>a, <1>7, <2>1, <3>1, <3>2 DEF Unregister
    <3>4. kernel'[key'[b]] = ProcOf[b]
      BY <1>a, <1>7, <3>1, <3>2 DEF Apart
    <3> QED  BY <3>3, <3>4
  <2>4. TypeOK' /\ FilesApart' /\ Found' /\ NoAlias' /\ Apart' /\ PhaseHeld'
    BY <1>a, <1>7 DEF Unregister, Restarts, Moves, FilesApart, Found, NoAlias,
       Apart, PhaseHeld, InFlight
  <2> QED  BY <2>2, <2>3, <2>4 DEF LockInv
<1>8. ASSUME NEW a \in Attempts, Busy(a) \/ Release(a) \/ Unacquired(a) PROVE LockInv'
  BY <1>a, <1>7, <1>8 DEF Busy, Again, Release, Unacquired, LetGo
\* One that had registered nothing, or its name only.
<1>9. ASSUME NEW a \in Attempts, Wait(a) \/ Missing(a) PROVE LockInv'
  BY <1>a, <1>9 DEF Wait, Missing, Again, Restarts, Moves, LockInv, FilesApart,
     NameHeld, NamesApart, Found, FileHeld, NoAlias, Apart, PhaseHeld,
     Registering, InFlight
<1>10. ASSUME NEW a \in Attempts, Fail(a) PROVE LockInv'
  <2>1. CASE stage[a] = "probed"
    BY <1>a, <1>7, <1>10, <2>1 DEF Fail
  <2>2. CASE stage[a] = "looked" /\ UNCHANGED registry
    BY <1>a, <1>10, <2>2 DEF Fail, Restarts, Moves, LockInv, FilesApart, NameHeld,
       NamesApart, Found, FileHeld, NoAlias, Apart, PhaseHeld, Registering, InFlight
  <2>3. CASE /\ stage[a] = "open" /\ UNCHANGED heldFiles
             /\ held' = [held EXCEPT ![ProcOf[a]] = @ \ {NameOf[a]}]
    <3>1. NameHeld' /\ NamesApart'
      BY <1>a, <1>10, <2>3 DEF Fail, Restarts, Moves, NameHeld, NamesApart, Registering
    <3>2. TypeOK' /\ FilesApart' /\ Found' /\ PhaseHeld'
      BY <1>a, <1>10, <2>3 DEF Fail, Restarts, Moves, FilesApart, Found, PhaseHeld, InFlight
    <3>3. FileHeld' /\ NoAlias' /\ Apart'
      BY <1>a, <1>10, <2>3 DEF Fail, Restarts, Moves, FileHeld, NoAlias, Apart, InFlight
    <3> QED  BY <3>1, <3>2, <3>3 DEF LockInv
  <2> QED  BY <1>10, <2>1, <2>2, <2>3 DEF Fail
<1>11. ASSUME NEW a \in Attempts, Abort(a) PROVE LockInv'
  BY <1>a, <1>11 DEF Abort, LockInv, FilesApart, NameHeld, NamesApart, Found,
     FileHeld, NoAlias, Apart, PhaseHeld, InFlight
<1>12. ASSUME NEW a \in Attempts, NEW from \in Phases, NEW to \in Phases,
              Phase(a, from, to)
       PROVE  LockInv'
  BY <1>a, <1>12 DEF Phase, LockInv, FilesApart, NameHeld, NamesApart, Found,
     FileHeld, NoAlias, Apart, PhaseHeld, InFlight
<1>13. ASSUME NEW a \in Attempts,
              Acquired(a) \/ Bind(a) \/ Reserve(a) \/ Admit(a) \/ Borrow(a)
       PROVE  LockInv'
  BY <1>12, <1>13 DEF Acquired, Bind, Reserve, Admit, Borrow
<1>14. ASSUME NEW m \in Names, NEW n \in Names, Rename(m, n) PROVE LockInv'
  BY <1>a, <1>14 DEF Rename, LockInv, FilesApart, NameHeld, NamesApart, Found,
     FileHeld, NoAlias, Apart, PhaseHeld, InFlight
\* An exit frees what the process held, which no other process did.
<1>15. ASSUME NEW p \in Processes, Exit(p) PROVE LockInv'
  <2>1. FileHeld'
    BY <1>a, <1>15 DEF Exit, FileHeld
  <2>2. TypeOK' /\ FilesApart' /\ NameHeld' /\ NamesApart' /\ Found'
        /\ NoAlias' /\ Apart' /\ PhaseHeld'
    BY <1>a, <1>15 DEF Exit, FilesApart, NameHeld, NamesApart, Found, NoAlias,
       Apart, PhaseHeld, Registering, InFlight
  <2> QED  BY <2>1, <2>2 DEF LockInv
<1>16. CASE UNCHANGED vars
  BY <1>a, <1>16 DEF vars, LockInv, FilesApart, NameHeld, NamesApart, Found,
     FileHeld, NoAlias, Apart, PhaseHeld, InFlight
<1> HIDE DEF TypeOK
<1> QED
  BY <1>1, <1>2, <1>3, <1>4, <1>5, <1>6, <1>8, <1>9, <1>10, <1>11, <1>13,
     <1>14, <1>15, <1>16 DEF Next, Goes, Uses

\* What an attempt registered, found and holds stays so through every step (takeLock).
THEOREM LockInvariant == Spec => []LockInv
BY LockInit, LockStep, PTL DEF Spec

\* Every reachable state is well formed.
THEOREM LockType == Spec => []TypeOK
BY LockInvariant, PTL DEF LockInv

\* Who holds a lease keeps out everybody else.
THEOREM LockLeaseExcludes == Spec => []LeaseExcludes
<1>1. LockInv => LeaseExcludes
  BY DEF LockInv, FileHeld, Apart, PhaseHeld, LeaseExcludes, Kept
<1> QED  BY LockInvariant, <1>1, PTL
=============================================================================

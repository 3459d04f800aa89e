------------------------------ MODULE AgentStore ------------------------------
(***************************************************************************)
(* How the core takes a lifecycle observation: its intake                  *)
(* (apps/runtime/src/core/core.ts), the agent-state owner                  *)
(* (packages/agent-state/src/index.ts) and the store under it              *)
(* (apps/runtime/src/core/store.ts).                                       *)
(*                                                                         *)
(* There are three copies of the state: the file, the store's memory of    *)
(* it (mirror) and the owner's (data).  A commit may fail in several ways, *)
(* the process may crash between any two steps, and a day may pass, which  *)
(* makes sessions expire and observations too old to admit.  A failed      *)
(* commit faults the owner, and the core opens another on the same store.  *)
(***************************************************************************)
EXTENDS Naturals, FiniteSets, FiniteSetsExt

CONSTANTS
  Sessions,        \* session identities
  ParentOf,        \* [Sessions -> Sessions \union {None}]
  Obs,             \* lifecycle observations, each a (source, id)
  SubjectOf,       \* [Obs -> Sessions]
  KindOf,          \* [Obs -> {"start", "idle", "end"}]
  Early,           \* those observed on the first day; the others on the second
  Stored,          \* what the store may hold at first: sets of act functions
  None,
  Capacity,        \* LIMITS.sessions
  MaxDeliveries, MaxFailures, MaxCrashes, MaxOthers   \* bounds of the model

ASSUME StoreAssumption ==
  /\ ParentOf \in [Sessions -> Sessions \union {None}]
  /\ SubjectOf \in [Obs -> Sessions]
  /\ KindOf \in [Obs -> {"start", "idle", "end"}]
  /\ Early \subseteq Obs
  /\ None \notin Sessions \union Obs
  /\ Capacity \in Nat \ {0}
  /\ IsFiniteSet(Sessions)

VARIABLES
  file,       \* what the database holds: state, core_taken, core_revision
  db,         \* "open", or "closed" under the store
  day,        \* the clock: 0 or 1
  up,         \* the process runs
  opened,     \* the store has its tables: #opened is set
  mirror,     \* its memory of the file: #durable, #commits, #revision
  leased,     \* #leased
  owner,      \* the owner's stage
  data,       \* its memory of the state
  pc,         \* where the core's serialized intake stands
  intake,     \* the observation it takes, or None
  backoff,    \* the last opening failed: #reopen waits
  accepted,   \* observations answered as accepted (history)
  applied,    \* how often each was applied to the file (history)
  deliveries, failures, crashes, others    \* counted against the bounds

memory  == <<up, opened, mirror, leased, owner, data, pc, intake, backoff>>
history == <<accepted, applied>>
bounds  == <<deliveries, failures, crashes, others>>
vars    == <<file, db, day, memory, history, bounds>>

Activity == {"gone", "active", "idle", "retired"}
Pcs == {"starting", "idle", "opening", "calling", "admit", "save", "answer", "drop",
        "reopening"}
Outcomes == {"ok", "throws", "stuck", "closed"}

\* `active' stands for every activity that may still be running or waits for
\* the user, `idle' for the finished ones; `retired' is a guard that remembers
\* a retired session.  A session or guard not in today is of the first day.
States ==
  [rev : Nat, act : [Sessions -> Activity], today : SUBSET Sessions,
   keys : SUBSET Obs]

TypeOK ==
  /\ file \in [state : States, taken : SUBSET Obs, commits : Nat, revision : Nat]
  /\ db \in {"open", "closed"} /\ day \in 0..1
  /\ {up, opened, leased, backoff} \subseteq BOOLEAN
  /\ mirror \in [state : States, commits : Nat, revision : Nat]
  /\ data \in States
  /\ owner \in {"none", "acquired", "loaded", "running", "faulted"}
  /\ leased <=> owner # "none"
  /\ pc \in Pcs
  /\ pc \in {"starting", "idle"} => intake = None
  /\ pc = "opening" => intake \in Obs \union {None}
  /\ pc \notin {"starting", "idle", "opening"} => intake \in Obs
  /\ accepted \subseteq Obs /\ applied \in [Obs -> 0..2]
  /\ Cardinality({x \in Sessions : file.state.act[x] \in {"active", "idle"}}) <= Capacity

\* What the store holds at first is some state within the capacity.
ASSUME StoredAssumption ==
  Stored \subseteq {act \in [Sessions -> Activity] :
    Cardinality({x \in Sessions : act[x] \in {"active", "idle"}}) <= Capacity}

Empty == [rev |-> 0, act |-> [x \in Sessions |-> "gone"], today |-> {}, keys |-> {}]
Blank == [state |-> Empty, commits |-> 0, revision |-> 0]

Init ==
  /\ \E act \in Stored :
       file = [state |-> [Empty EXCEPT !.rev = 1, !.act = act],
               taken |-> {}, commits |-> 1, revision |-> 1]
  /\ db = "open" /\ day = 0
  /\ up = FALSE /\ opened = FALSE /\ mirror = Blank
  /\ leased = FALSE /\ owner = "none" /\ data = Empty
  /\ pc = "idle" /\ intake = None /\ backoff = FALSE
  /\ accepted = {} /\ applied = [o \in Obs |-> 0]
  /\ deliveries = 0 /\ failures = 0 /\ crashes = 0 /\ others = 0

-----------------------------------------------------------------------------
(* What the owner works out from its state.                                *)

Present(s) == {x \in Sessions : s.act[x] \in {"active", "idle"}}

\* A day without evidence, or since the retirement.
Overdue(s) == IF day = 0 THEN {} ELSE {x \in Sessions : s.act[x] # "gone"} \ s.today

\* Observations older than the retention window.
Aged == IF day = 0 THEN {} ELSE Early

\* x and every session below it, each link between present ones: below[n] are
\* those at most n links down.
Subtree(s, x) ==
  LET below[n \in 0..Cardinality(Sessions)] ==
        IF n = 0 THEN {}
        ELSE {y \in Present(s) : ParentOf[y] \in {x} \union below[n - 1]}
  IN  ({x} \union below[Cardinality(Sessions)]) \intersect Present(s)

\* One replacement of the sessions: some are gone, some leave a guard, and the
\* guards that are a day old go.
Replaced(s, gone, retired, keys) ==
  LET old == {x \in Overdue(s) : s.act[x] = "retired"}
      out == (gone \union old) \ retired
  IN  [rev |-> s.rev + 1,
       act |-> [x \in Sessions |-> IF x \in out THEN "gone"
                                   ELSE IF x \in retired THEN "retired" ELSE s.act[x]],
       today |-> (s.today \ out) \union (IF day = 0 THEN {} ELSE retired),
       keys |-> {o \in keys : SubjectOf[o] \notin out}]

Expired(s) == Replaced(s, Present(s) \intersect Overdue(s), {}, s.keys)
Retired(s, x, ended) == Replaced(s, {}, Subtree(s, x), s.keys \union ended)

Reduced(s, o) ==
  LET x == SubjectOf[o] IN
  [rev |-> s.rev + 1,
   act |-> [s.act EXCEPT ![x] = IF KindOf[o] = "start" THEN "active" ELSE "idle"],
   today |-> s.today \union (IF day = 0 THEN {} ELSE {x}),
   keys |-> s.keys \union {o}]

\* Too old, taken before, or about a session that is unknown or retired.
Stale(s, o) ==
  LET x == SubjectOf[o] IN
  \/ o \in Aged \union s.keys
  \/ /\ x \notin Present(s)
     /\ \/ KindOf[o] = "end"
        \/ KindOf[o] # "start" /\ s.act[x] = "retired"
        \/ ParentOf[x] # None /\ s.act[ParentOf[x]] = "retired"

\* A session that is not there finds no place.
Full(s, o) ==
  SubjectOf[o] \notin Present(s) /\ Cardinality(Present(s)) >= Capacity

\* Mutant: what is below the child is not asked.
FinishedAlone(s) == {x \in Present(s) : ParentOf[x] # None /\ s.act[x] = "idle"}

\* The children a new root may displace: all below them is finished, too.
Displaceable(s) ==
  {x \in Present(s) : ParentOf[x] # None /\ \A y \in Subtree(s, x) : s.act[y] = "idle"}

Room(s, o) == IF ParentOf[SubjectOf[o]] # None THEN {} ELSE Displaceable(s)

-----------------------------------------------------------------------------
(* One transaction of the store.                                           *)

\* The commit counter the connection reads afterwards: an open transaction
\* shows its own writes.
CounterRead(how) ==
  IF how \in {"ok", "stuck"} THEN mirror.commits + 1 ELSE file.commits

\* Mutant: the counter alone decides.
ReportedByCounter(how) == how # "closed" /\ CounterRead(how) = mirror.commits + 1

\* A rollback that failed (stuck) leaves the transaction open, so the store
\* asks for that before it trusts the counter.
Reported(how) ==
  how \notin {"closed", "stuck"} /\ CounterRead(how) = mirror.commits + 1

May(how) ==
  IF how = "ok" THEN db = "open" /\ data.rev = mirror.state.rev
                                 /\ data.rev = file.state.rev
  ELSE IF db = "closed" THEN how = "closed" ELSE failures < MaxFailures

\* Mutant: the owner's revision, which the parts' commits do not raise.
OwnerRevision(next) == next.rev

\* Above the store's last revision, and no less than the owner's.
NextRevision(next) == Max({mirror.revision + 1, next.rev})

\* Mutant: a row is kept for a day after its receipt only.
LastingByReceipt == {o \in file.taken : SubjectOf[o] \in file.state.today \/ day = 0}

\* Rows of core_taken that a save keeps: as long as the observation can still
\* be admitted, counted from the later of its own instant and its receipt.
Lasting == file.taken \ Aged

Visible(s) == [x \in Present(s) |-> <<s.act[x], x \in s.today>>]

\* The owner's change to state next, which answers the observations in cause,
\* the one taken or none.
Commit(change, cause, how) ==
  /\ May(how)
  /\ \E next \in {change} :
       LET published == cause # {} \/ Visible(next) # Visible(data)
           revision == IF published THEN NextRevision(next) ELSE mirror.revision
           memo == [state |-> next, commits |-> mirror.commits + 1,
                    revision |-> revision]
       IN  /\ file' = IF how # "ok" THEN file
                      ELSE [state |-> next, commits |-> memo.commits,
                            revision |-> revision,
                            taken |-> IF cause = {} THEN file.taken
                                      ELSE Lasting \union cause]
           /\ mirror' = IF Reported(how) THEN memo ELSE mirror
           /\ data' = IF Reported(how) THEN next ELSE data
  /\ applied' = IF how # "ok" THEN applied
                ELSE [o \in Obs |-> IF o \in cause THEN Min({2, applied[o] + 1})
                                    ELSE applied[o]]
  /\ db' = IF how = "closed" THEN "closed" ELSE db
  /\ failures' = IF how = "ok" \/ db = "closed" THEN failures ELSE failures + 1
  /\ UNCHANGED <<day, up, opened, accepted, deliveries, crashes, others>>

-----------------------------------------------------------------------------
(* Opening the owner, at the start or again.                               *)

\* An observation that opened the store is looked up now, and called if it is
\* new; a call that found no owner goes on.
GoesOn ==
  pc = "calling" \/ (pc = "opening" /\ intake \notin file.taken \union {None})

\* The core goes on with an owner, or with none.
Opened ==
  /\ owner' = "running" /\ backoff' = FALSE
  /\ IF GoesOn THEN pc' = "calling" /\ UNCHANGED intake
     ELSE pc' = "idle" /\ intake' = None

NotOpened ==
  /\ owner' = "none" /\ leased' = FALSE /\ backoff' = TRUE
  /\ pc' = "idle" /\ intake' = None

Opening == up /\ pc \in {"starting", "opening", "calling", "reopening"}

Acquire ==
  /\ Opening /\ owner = "none" /\ ~leased /\ db = "open"
  /\ leased' = TRUE /\ owner' = "acquired" /\ opened' = TRUE
  /\ mirror' = [mirror EXCEPT !.commits = file.commits, !.revision = file.revision]
  /\ UNCHANGED <<file, db, day, up, data, pc, intake, backoff, history, bounds>>

\* The store's memory and the owner's are what the file holds; maintenance
\* that fell due is settled first.
Load ==
  /\ owner = "acquired" /\ db = "open"
  /\ data' = file.state
  /\ mirror' = [mirror EXCEPT !.state = file.state]
  /\ IF Overdue(file.state) = {} THEN Opened
     ELSE owner' = "loaded" /\ UNCHANGED <<pc, intake, backoff>>
  /\ UNCHANGED <<file, db, day, up, opened, leased, history, bounds>>

Settle(how) ==
  /\ owner = "loaded"
  /\ Commit(Expired(data), {}, how)
  /\ IF Reported(how) THEN Opened /\ UNCHANGED leased ELSE NotOpened

\* Mutant: the call that wanted the owner waits on.
OpenFailsUnanswered ==
  /\ Opening /\ owner \in {"none", "acquired"}
  /\ owner' = "none" /\ leased' = FALSE /\ backoff' = TRUE
  /\ failures < MaxFailures /\ failures' = failures + 1
  /\ UNCHANGED <<file, db, day, up, opened, mirror, data, pc, intake, history,
                 deliveries, crashes, others>>

\* Opening failed otherwise: the lock, the tables, the load, or a lease that
\* nobody gave back.  A full disk leaves a starting core up.
OpenFails ==
  /\ Opening /\ owner \in {"none", "acquired"}
  /\ NotOpened
  /\ \/ failures < MaxFailures /\ failures' = failures + 1
     \/ (db = "closed" \/ (leased /\ owner = "none")) /\ UNCHANGED failures
  /\ IF pc = "starting" THEN up' \in {up, FALSE} ELSE UNCHANGED up
  /\ opened' = (opened /\ up')
  /\ mirror' = IF up' THEN mirror ELSE Blank
  /\ data' = IF up' THEN data ELSE Empty
  /\ UNCHANGED <<file, db, day, history, deliveries, crashes, others>>

-----------------------------------------------------------------------------
(* The intake.                                                             *)

\* A store that never opened is opened first, for an observation that is taken
\* already, too.  An open one is asked: what it has taken changes nothing, and
\* neither does what reaches a store that was closed under its owner.
Deliver(o) ==
  /\ up /\ pc = "idle" /\ db = "open"
  /\ deliveries < MaxDeliveries
  /\ opened => o \notin file.taken
  /\ pc' = IF opened THEN "calling" ELSE "opening"
  /\ intake' = o
  /\ deliveries' = deliveries + 1
  /\ UNCHANGED <<file, db, day, up, opened, mirror, leased, owner, data, backoff,
                 history, failures, crashes, others>>

\* A sync that finds the store unopened, or a request for the owner, wants the
\* missing owner, and takes no observation up.
WantOwner ==
  /\ up /\ pc = "idle" /\ owner = "none"
  /\ pc' = "opening"
  /\ UNCHANGED <<file, db, day, up, opened, mirror, leased, owner, data, intake,
                 backoff, history, bounds>>

Done ==
  /\ pc' = "idle" /\ intake' = None
  /\ UNCHANGED <<file, db, day, up, opened, mirror, leased, owner, data, backoff,
                 applied, bounds>>

\* No owner, and it is too soon to open one.
Refuse ==
  /\ pc \in {"opening", "calling", "reopening"} /\ owner = "none" /\ backoff
  /\ Done /\ UNCHANGED accepted

\* What follows an owner's commit: the next step, or a faulted owner.
Then(step, how) ==
  /\ IF Reported(how) THEN pc' = step /\ UNCHANGED owner
     ELSE pc' = "drop" /\ owner' = "faulted"
  /\ UNCHANGED <<leased, intake, backoff>>

Expire(how) ==
  /\ pc = "calling" /\ owner = "running" /\ Overdue(data) # {}
  /\ Commit(Expired(data), {}, how)
  /\ Then("admit", how)

Admitting ==
  \/ pc = "admit"
  \/ pc = "calling" /\ owner = "running" /\ Overdue(data) = {}

TurnAway ==
  /\ Admitting
  /\ Stale(data, intake) \/ (Full(data, intake) /\ Room(data, intake) = {})
  /\ Done /\ UNCHANGED accepted

End(how) ==
  /\ Admitting /\ ~Stale(data, intake) /\ KindOf[intake] = "end"
  /\ Commit(Retired(data, SubjectOf[intake], {intake}), {intake}, how)
  /\ Then("answer", how)

\* A new root at capacity retires a finished child first, in a commit of its
\* own that does not take the observation.
Displace(how) ==
  /\ Admitting /\ ~Stale(data, intake) /\ Full(data, intake)
  /\ \E x \in Room(data, intake) : Commit(Retired(data, x, {}), {}, how)
  /\ Then("save", how)

Save(how) ==
  /\ \/ pc = "save"
     \/ Admitting /\ ~Stale(data, intake) /\ ~Full(data, intake) /\ KindOf[intake] # "end"
  /\ Commit(Reduced(data, intake), {intake}, how)
  /\ Then("answer", how)

Answer ==
  /\ pc = "answer"
  /\ accepted' = accepted \union {intake}
  /\ Done

\* A faulted owner refuses the call that finds it.
FindFaulted ==
  /\ pc = "calling" /\ owner = "faulted"
  /\ pc' = "drop"
  /\ UNCHANGED <<file, db, day, up, opened, mirror, leased, owner, data, intake,
                 backoff, history, bounds>>

\* Mutant: the lease stays with the owner that is gone.
DropKeepingLease ==
  /\ pc = "drop"
  /\ owner' = "none" /\ pc' = "reopening"
  /\ UNCHANGED <<file, db, day, up, opened, mirror, leased, data, intake, backoff,
                 history, bounds>>

\* It gives up its lease, and the core opens another owner before it answers.
Drop ==
  /\ pc = "drop"
  /\ owner' = "none" /\ leased' = FALSE /\ pc' = "reopening"
  /\ UNCHANGED <<file, db, day, up, opened, mirror, data, intake, backoff,
                 history, bounds>>

-----------------------------------------------------------------------------
(* Everything else.                                                        *)

\* The owner's own maintenance waits its turn in the owner's queue.
Maintain(how) ==
  /\ owner = "running" /\ Overdue(data) # {} /\ pc \notin {"admit", "save"}
  /\ Commit(Expired(data), {}, how)
  /\ owner' = IF Reported(how) THEN owner ELSE "faulted"
  /\ UNCHANGED <<leased, pc, intake, backoff>>

\* A part's transaction, or a refresh: a commit of its own.
Other ==
  /\ up /\ opened /\ db = "open" /\ others < MaxOthers
  /\ LET commits == mirror.commits + 1
         revision == mirror.revision + 1
     IN  /\ file' = [file EXCEPT !.commits = commits, !.revision = revision]
         /\ mirror' = [mirror EXCEPT !.commits = commits, !.revision = revision]
  /\ others' = others + 1
  /\ UNCHANGED <<db, day, up, opened, leased, owner, data, pc, intake, backoff,
                 history, deliveries, failures, crashes>>

DayPasses ==
  /\ day = 0 /\ day' = 1
  /\ UNCHANGED <<file, db, memory, history, bounds>>

Start ==
  /\ ~up /\ up' = TRUE /\ pc' = "starting" /\ db' = "open"
  /\ UNCHANGED <<file, day, opened, mirror, leased, owner, data, intake, backoff,
                 history, bounds>>

Crash ==
  /\ up /\ crashes < MaxCrashes /\ crashes' = crashes + 1
  /\ up' = FALSE /\ opened' = FALSE /\ mirror' = Blank /\ leased' = FALSE
  /\ owner' = "none" /\ data' = Empty /\ pc' = "idle" /\ intake' = None
  /\ backoff' = FALSE
  /\ UNCHANGED <<file, db, day, history, deliveries, failures, others>>

-----------------------------------------------------------------------------

\* What the process itself does next.
Step ==
  \/ Acquire \/ Load \/ OpenFails
  \/ Refuse \/ TurnAway \/ Answer \/ FindFaulted \/ Drop
  \/ \E how \in Outcomes :
       Settle(how) \/ Expire(how) \/ End(how) \/ Displace(how) \/ Save(how)

Next ==
  \/ Acquire \/ Load \/ OpenFails
  \/ Refuse \/ TurnAway \/ Answer \/ FindFaulted \/ Drop
  \/ \E how \in Outcomes : Settle(how)
  \/ \E how \in Outcomes : Expire(how)
  \/ \E how \in Outcomes : End(how)
  \/ \E how \in Outcomes : Displace(how)
  \/ \E how \in Outcomes : Save(how)
  \/ \E how \in Outcomes : Maintain(how)
  \/ \E o \in Obs : Deliver(o)
  \/ WantOwner \/ Other \/ DayPasses \/ Start \/ Crash

Spec == Init /\ [][Next]_vars

\* Promises and timers of a process that stays up run.
FairSpec == Spec /\ WF_vars(Step)

-----------------------------------------------------------------------------
(* Properties.                                                             *)

\* While an owner works, its memory, the store's and the file are the same, and
\* the store's counters are the file's, so no failed commit passes for a good
\* one and none is judged against a state that never was.
OwnerHoldsCommitted ==
  /\ owner \in {"loaded", "running"} => data = file.state /\ mirror.state = file.state
  /\ opened => mirror.commits = file.commits /\ mirror.revision = file.revision

\* An observation answered as accepted, or kept as taken, was applied, and none
\* is applied twice, over failures, crashes, redeliveries and expired sessions.
AppliedOnce ==
  \A o \in Obs :
    /\ applied[o] <= 1
    /\ o \in accepted \union file.taken => applied[o] = 1

\* A session that may still be running leaves only with its own end or that of
\* a session above it, or after a day without evidence: never to make room.
RoomOnlyFromFinished ==
  [][\A x \in Sessions :
       file.state.act[x] = "active" /\ x \notin Present(file'.state) =>
         \/ x \in Overdue(file.state)
         \/ /\ intake # None /\ KindOf[intake] = "end"
            /\ x \in Subtree(file.state, SubjectOf[intake])]_vars

\* Whatever changes what consumers see carries a revision above every one they
\* were ever given, across crashes, new owners and the parts' own commits.
RevisionsRise ==
  [][/\ file'.revision >= file.revision
     /\ Visible(file'.state) # Visible(file.state) => file'.revision > file.revision]_vars

\* Every observation the intake took up is done with, whatever fails, also on a
\* store that the start could not open, so the core's queue goes on.
IntakeEnds == intake # None ~> intake = None
=============================================================================

--------------------------- MODULE AgentStoreProofs ---------------------------
(***************************************************************************)
(* What the intake, the owner and the store keep, for every set of         *)
(* sessions and observations, every capacity and every number of failures, *)
(* crashes and commits of the parts.                                       *)
(*                                                                         *)
(* None of the invariants is inductive alone.  That a working owner holds  *)
(* what is committed (Synced) needs the store's counters to be the file's  *)
(* in every opened process; that nothing is applied twice needs what is at *)
(* hand to be unapplied (AtHand), which only holds because whatever was    *)
(* applied is either still remembered or too old to be admitted (in Kept); *)
(* the capacity needs the place that was made to last until it is used.    *)
(***************************************************************************)
EXTENDS AgentStore, FiniteSetTheorems, TLAPS

Files == [state : States, taken : SUBSET Obs, commits : Nat, revision : Nat]
Mirrors == [state : States, commits : Nat, revision : Nat]

Works == owner \in {"loaded", "running"}

\* What holds of the file and the copies of it wherever the control stands.
Kept ==
  /\ file \in Files /\ mirror \in Mirrors /\ data \in States
  /\ db \in {"open", "closed"} /\ day \in 0..1
  /\ up \in BOOLEAN /\ opened \in BOOLEAN
  /\ accepted \subseteq Obs /\ applied \in [Obs -> 0..2]
  /\ Cardinality(Present(file.state)) <= Capacity
  /\ opened => mirror.commits = file.commits /\ mirror.revision = file.revision
  /\ AppliedOnce
  /\ \A o \in Obs : applied[o] = 1 => o \in file.taken \union Aged

\* A process that is down remembers nothing and takes nothing up.
DownIsBlank ==
  ~up => ~opened /\ owner = "none" /\ pc = "idle" /\ intake = None

\* An owner has an opened store; one that has not begun is being opened.
OwnerOpened ==
  /\ owner # "none" => opened
  /\ owner \in {"acquired", "loaded"} => pc \in {"starting", "opening", "calling", "reopening"}
  /\ pc \in {"admit", "save"} => owner = "running"

\* An owner that works and the store under it remember the file.
Synced == data = file.state /\ mirror.state = file.state

\* What is at hand was not applied before, and is answered after it was.
AtHand ==
  /\ pc \in {"calling", "admit", "save"} => intake \notin file.taken
  /\ pc = "save" => applied[intake] = 0
  /\ pc = "answer" => applied[intake] = 1

\* The room that was made is there until it is used.
RoomMade == pc = "save" => Cardinality(Present(data)) < Capacity

Control ==
  /\ leased \in BOOLEAN /\ backoff \in BOOLEAN
  /\ owner \in {"none", "acquired", "loaded", "running", "faulted"}
  /\ leased <=> owner # "none"
  /\ pc \in Pcs
  /\ pc \in {"starting", "idle"} => intake = None
  /\ pc = "opening" => intake \in Obs \union {None}
  /\ pc \notin {"starting", "idle", "opening"} => intake \in Obs
  /\ DownIsBlank /\ OwnerOpened
  /\ Works => Synced
  /\ AtHand /\ RoomMade

StoreInv == Kept /\ Control

-----------------------------------------------------------------------------

LEMMA GreatestOfTwo ==
  ASSUME NEW m \in Nat, NEW n \in Nat
  PROVE  Max({m, n}) \in Nat /\ Max({m, n}) >= m /\ Max({m, n}) >= n
<1>1. \E x \in {m, n} : \A y \in {m, n} : x >= y
  BY SMT
<1>2. Max({m, n}) \in {m, n} /\ \A y \in {m, n} : Max({m, n}) >= y
  BY <1>1 DEF Max
<1> QED BY <1>2

LEMMA LeastOfTwo ==
  ASSUME NEW m \in Nat, NEW n \in Nat, n <= m
  PROVE  Min({m, n}) = n
<1>1. \E x \in {m, n} : \A y \in {m, n} : x <= y
  BY SMT
<1>2. Min({m, n}) \in {m, n} /\ \A y \in {m, n} : Min({m, n}) <= y
  BY <1>1 DEF Min
<1> QED BY <1>2

LEMMA PresentFinite ==
  ASSUME NEW s
  PROVE  IsFiniteSet(Present(s)) /\ Cardinality(Present(s)) \in Nat
BY StoreAssumption, FS_Subset, FS_CardinalityType DEF Present

LEMMA PresentShrinks ==
  ASSUME NEW s, NEW t, Present(t) \subseteq Present(s)
  PROVE  Cardinality(Present(t)) <= Cardinality(Present(s))
BY PresentFinite, FS_Subset

LEMMA ReplacedSound ==
  ASSUME NEW s \in States, NEW gone \in SUBSET Sessions,
         NEW retired \in SUBSET Sessions, NEW keys \in SUBSET Obs
  PROVE  /\ Replaced(s, gone, retired, keys) \in States
         /\ Present(Replaced(s, gone, retired, keys)) \subseteq Present(s) \ retired
         /\ \A x \in Present(s) \ Present(Replaced(s, gone, retired, keys)) :
              x \in gone \union retired
<1> DEFINE old == {x \in Overdue(s) : s.act[x] = "retired"}
           out == (gone \union old) \ retired
           act == [x \in Sessions |-> IF x \in out THEN "gone"
                                      ELSE IF x \in retired THEN "retired" ELSE s.act[x]]
           today == (s.today \ out) \union (IF day = 0 THEN {} ELSE retired)
           left == {o \in keys : SubjectOf[o] \notin out}
<1>1. Replaced(s, gone, retired, keys) = [rev |-> s.rev + 1, act |-> act, today |-> today, keys |-> left]
  BY DEF Replaced
<1>2. /\ s.rev + 1 \in Nat /\ act \in [Sessions -> Activity]
      /\ today \in SUBSET Sessions /\ left \in SUBSET Obs
  BY DEF States, Activity
<1> HIDE DEF today, left
<1>3. /\ Replaced(s, gone, retired, keys) \in States
      /\ Replaced(s, gone, retired, keys).act = act
  BY <1>1, <1>2 DEF States
<1>4. Present(Replaced(s, gone, retired, keys)) = {x \in Sessions : act[x] \in {"active", "idle"}}
  BY <1>3 DEF Present
<1>5. old \intersect Present(s) = {}
  BY DEF Present
<1> QED BY <1>3, <1>4, <1>5 DEF Present

LEMMA ExpiredSound ==
  ASSUME NEW s \in States
  PROVE  /\ Expired(s) \in States
         /\ Present(Expired(s)) \subseteq Present(s)
         /\ Present(s) \ Present(Expired(s)) \subseteq Overdue(s)
<1> DEFINE gone == Present(s) \intersect Overdue(s)
<1>1. gone \in SUBSET Sessions /\ s.keys \in SUBSET Obs
  BY DEF Present, States
<1>2. gone \subseteq Overdue(s)
  OBVIOUS
<1>3. Expired(s) = Replaced(s, gone, {}, s.keys)
  BY DEF Expired
<1> HIDE DEF gone
<1> QED BY <1>1, <1>2, <1>3, ReplacedSound

LEMMA SubtreePresent ==
  ASSUME NEW s, NEW x
  PROVE  /\ Subtree(s, x) \in SUBSET Sessions
         /\ x \in Present(s) => x \in Subtree(s, x)
BY DEF Subtree, Present

LEMMA RetiredSound ==
  ASSUME NEW s \in States, NEW x, NEW ended \in SUBSET Obs
  PROVE  /\ Retired(s, x, ended) \in States
         /\ Present(Retired(s, x, ended)) \subseteq Present(s) \ Subtree(s, x)
         /\ Present(s) \ Present(Retired(s, x, ended)) \subseteq Subtree(s, x)
<1>1. s.keys \union ended \in SUBSET Obs
  BY DEF States
<1>2. Subtree(s, x) \in SUBSET Sessions
  BY SubtreePresent
<1>3. Retired(s, x, ended) = Replaced(s, {}, Subtree(s, x), s.keys \union ended)
  BY DEF Retired
<1> QED BY <1>1, <1>2, <1>3, ReplacedSound

LEMMA ReducedSound ==
  ASSUME NEW s \in States, NEW o \in Obs
  PROVE  /\ Reduced(s, o) \in States
         /\ Present(Reduced(s, o)) = Present(s) \union {SubjectOf[o]}
<1> DEFINE x == SubjectOf[o]
           act == [s.act EXCEPT ![x] = IF KindOf[o] = "start" THEN "active" ELSE "idle"]
           today == s.today \union (IF day = 0 THEN {} ELSE {x})
<1>1. Reduced(s, o) = [rev |-> s.rev + 1, act |-> act, today |-> today,
                       keys |-> s.keys \union {o}]
  BY DEF Reduced
<1>2. x \in Sessions
  BY StoreAssumption
<1>3. /\ s.rev + 1 \in Nat /\ act \in [Sessions -> Activity]
      /\ today \in SUBSET Sessions /\ s.keys \union {o} \in SUBSET Obs
  BY <1>2 DEF States, Activity
<1>4. \A y \in Sessions : act[y] \in {"active", "idle"} <=>
                            s.act[y] \in {"active", "idle"} \/ y = x
  BY <1>2 DEF States
<1> HIDE DEF today, act, x
<1>5. Reduced(s, o) \in States /\ Reduced(s, o).act = act
  BY <1>1, <1>3 DEF States
<1>6. Present(Reduced(s, o)) = Present(s) \union {x}
  BY <1>2, <1>4, <1>5 DEF Present
<1> QED BY <1>5, <1>6 DEF x

-----------------------------------------------------------------------------

\* What a commit leaves alone, whatever becomes of it.
Aside == UNCHANGED <<day, up, opened, accepted>>

LEMMA CommitSucceeds ==
  ASSUME StoreInv, Works,
         NEW change \in States, NEW cause \in SUBSET Obs,
         Commit(change, cause, "ok")
  PROVE  /\ Reported("ok")
         /\ data' = change /\ file'.state = change /\ mirror'.state = change
         /\ file' \in Files /\ mirror' \in Mirrors
         /\ mirror'.commits = file'.commits /\ mirror'.revision = file'.revision
         /\ file'.revision >= file.revision
         /\ Visible(change) # Visible(data) => file'.revision > file.revision
         /\ file'.taken = IF cause = {} THEN file.taken ELSE Lasting \union cause
         /\ applied' = [o \in Obs |-> IF o \in cause THEN Min({2, applied[o] + 1})
                                     ELSE applied[o]]
         /\ db' = db
<1> DEFINE published == cause # {} \/ Visible(change) # Visible(data)
           revision == IF published THEN NextRevision(change) ELSE mirror.revision
           memo == [state |-> change, commits |-> mirror.commits + 1,
                    revision |-> revision]
           taken == IF cause = {} THEN file.taken ELSE Lasting \union cause
<1>1. /\ mirror.commits \in Nat /\ mirror.revision \in Nat
      /\ file.taken \in SUBSET Obs /\ change.rev \in Nat
      /\ mirror.revision = file.revision
  BY DEF StoreInv, Kept, Control, Files, Mirrors, States, Works, OwnerOpened
<1>2. /\ revision \in Nat /\ revision >= mirror.revision
      /\ published => revision > mirror.revision
  <2>1. LET r == NextRevision(change) IN r \in Nat /\ r >= mirror.revision + 1
    BY <1>1, GreatestOfTwo DEF NextRevision
  <2> QED BY <1>1, <2>1
<1>3. taken \in SUBSET Obs
  BY <1>1 DEF Lasting
<1>4. Reported("ok")
  BY DEF Reported, CounterRead
<1>5. /\ file' = [state |-> change, commits |-> mirror.commits + 1,
                  revision |-> revision, taken |-> taken]
      /\ mirror' = memo /\ data' = change
      /\ applied' = [o \in Obs |-> IF o \in cause THEN Min({2, applied[o] + 1})
                                  ELSE applied[o]]
      /\ db' = db
  BY <1>4 DEF Commit
<1> HIDE DEF revision, taken
<1>6. file' \in Files /\ mirror' \in Mirrors
  BY <1>1, <1>2, <1>3, <1>5 DEF Files, Mirrors
<1>7. Visible(change) # Visible(data) => published
  OBVIOUS
<1>8. /\ file'.state = change /\ mirror'.state = change
      /\ mirror'.commits = file'.commits /\ mirror'.revision = file'.revision
      /\ file'.revision = revision /\ file'.taken = taken
  BY <1>5
<1>9. file'.revision >= file.revision /\ (published => file'.revision > file.revision)
  BY <1>1, <1>2, <1>8
<1> HIDE DEF published
<1> QED BY <1>4, <1>5, <1>6, <1>7, <1>8, <1>9 DEF taken

LEMMA CommitFails ==
  ASSUME StoreInv, Works,
         NEW change, NEW cause, NEW how \in Outcomes \ {"ok"},
         Commit(change, cause, how)
  PROVE  /\ ~Reported(how)
         /\ UNCHANGED <<data, file, mirror, applied>>
         /\ db' \in {"open", "closed"}
<1>1. mirror.commits \in Nat /\ mirror.commits = file.commits
  BY DEF StoreInv, Kept, Control, Mirrors, Works, OwnerOpened
<1>2. ~Reported(how)
  BY <1>1 DEF Reported, CounterRead, Outcomes
<1> QED BY <1>2 DEF Commit, StoreInv, Kept

LEMMA CommitAside ==
  ASSUME NEW change, NEW cause, NEW how, Commit(change, cause, how)
  PROVE  Aside
BY DEF Commit, Aside

LEMMA CommitKeeps ==
  ASSUME StoreInv, Works, NEW how \in Outcomes,
         NEW change \in States, NEW cause \in SUBSET Obs,
         Cardinality(Present(change)) <= Capacity,
         \A o \in cause : applied[o] = 0,
         Commit(change, cause, how)
  PROVE  /\ Kept' /\ Synced'
         /\ file'.taken \subseteq file.taken \union cause
         /\ Reported(how) => /\ data' = change
                             /\ \A o \in cause : applied'[o] = 1
                             /\ \A o \in Obs \ cause : applied'[o] = applied[o]
         /\ ~Reported(how) => data' = data /\ applied' = applied
<1>1. Aside /\ Aged' = Aged /\ Synced
  BY CommitAside DEF Aside, Aged, StoreInv, Control
<1>2. CASE how = "ok"
  <2>1. /\ Reported(how)
        /\ data' = change /\ file'.state = change /\ mirror'.state = change
        /\ file' \in Files /\ mirror' \in Mirrors
        /\ mirror'.commits = file'.commits /\ mirror'.revision = file'.revision
        /\ file'.taken = IF cause = {} THEN file.taken ELSE Lasting \union cause
        /\ applied' = [o \in Obs |-> IF o \in cause THEN Min({2, applied[o] + 1})
                                    ELSE applied[o]]
        /\ db' = db
    BY <1>2, CommitSucceeds
  <2>2. \A o \in Obs : applied'[o] = IF o \in cause THEN 1 ELSE applied[o]
    <3> SUFFICES ASSUME NEW o \in cause, o \in Obs PROVE Min({2, applied[o] + 1}) = 1
      BY <2>1
    <3> QED BY LeastOfTwo
  <2>3. applied' \in [Obs -> 0..2]
    BY <2>1, <2>2 DEF StoreInv, Kept
  <2>4. AppliedOnce'
    BY <1>1, <2>1, <2>2 DEF AppliedOnce, Aside, Lasting, StoreInv, Kept
  <2>5. \A o \in Obs : applied'[o] = 1 => o \in file'.taken \union Aged'
    BY <1>1, <2>1, <2>2 DEF Lasting, StoreInv, Kept
  <2>6. Cardinality(Present(file.state))' <= Capacity
    BY <2>1 DEF Present
  <2>7. file'.taken \subseteq file.taken \union cause
    BY <2>1 DEF Lasting
  <2>8. Kept'
    BY <1>1, <2>1, <2>3, <2>4, <2>5, <2>6 DEF StoreInv, Kept, Aside
  <2> QED BY <2>1, <2>2, <2>7, <2>8 DEF Synced
<1>3. CASE how # "ok"
  <2>1. /\ ~Reported(how)
        /\ UNCHANGED <<data, file, mirror, applied>>
        /\ db' \in {"open", "closed"}
    BY <1>3, CommitFails
  <2>2. AppliedOnce' /\ Cardinality(Present(file.state))' <= Capacity
    BY <1>1, <2>1 DEF AppliedOnce, Aside, Present, StoreInv, Kept
  <2>3. Kept'
    BY <1>1, <2>1, <2>2 DEF StoreInv, Kept, Aside
  <2> QED BY <1>1, <2>1, <2>3 DEF Synced
<1> QED BY <1>2, <1>3

-----------------------------------------------------------------------------

LEMMA InitKeeps == Init => StoreInv
<1> SUFFICES ASSUME Init PROVE StoreInv
  OBVIOUS
<1>1. PICK act \in Stored : file = [state |-> [Empty EXCEPT !.rev = 1, !.act = act],
                                   taken |-> {}, commits |-> 1, revision |-> 1]
  BY DEF Init
<1>2. /\ act \in [Sessions -> Activity]
      /\ Cardinality({x \in Sessions : act[x] \in {"active", "idle"}}) <= Capacity
  BY StoredAssumption
<1> DEFINE first == [rev |-> 1, act |-> act, today |-> {}, keys |-> {}]
<1>3. file = [state |-> first, taken |-> {}, commits |-> 1, revision |-> 1]
  BY <1>1 DEF Empty
<1>4. Empty \in States /\ first \in States
  BY <1>2 DEF Empty, States, Activity
<1>5. file.state = first /\ file.taken = {} /\ file \in Files
  BY <1>3, <1>4 DEF Files
<1>6. Blank \in Mirrors
  BY <1>4 DEF Blank, Mirrors
<1>7. Cardinality(Present(file.state)) <= Capacity
  BY <1>2, <1>5 DEF Present
<1> HIDE DEF first
<1>8. Kept
  <2>1. \A o \in Obs : applied[o] = 0
    BY DEF Init
  <2>2. AppliedOnce /\ \A o \in Obs : applied[o] = 1 => o \in file.taken \union Aged
    BY <1>5, <2>1 DEF Init, AppliedOnce
  <2>3. applied \in [Obs -> 0..2] /\ accepted \subseteq Obs /\ day \in 0..1
    BY DEF Init
  <2> QED BY <1>4, <1>5, <1>6, <1>7, <2>2, <2>3 DEF Init, Kept
<1>9. Control
  BY DEF Init, Control, DownIsBlank, OwnerOpened, Works, AtHand, RoomMade, Pcs
<1> QED BY <1>8, <1>9 DEF StoreInv

\* Steps that leave the file and what was answered alone.
LEMMA QuietKeeps ==
  ASSUME StoreInv, UNCHANGED <<file, day, accepted, applied>>,
         mirror' \in Mirrors, data' \in States, db' \in {"open", "closed"},
         up' \in BOOLEAN, opened' \in BOOLEAN,
         opened' => mirror'.commits = file.commits /\ mirror'.revision = file.revision
  PROVE  Kept'
<1>1. AppliedOnce' /\ Cardinality(Present(file.state))' <= Capacity /\ Aged' = Aged
  BY DEF AppliedOnce, Present, Aged, StoreInv, Kept
<1> QED BY <1>1 DEF StoreInv, Kept

LEMMA AcquireKeeps == StoreInv /\ Acquire => StoreInv'
<1> SUFFICES ASSUME StoreInv, Acquire PROVE StoreInv'
  OBVIOUS
<1>1. /\ mirror' \in Mirrors
      /\ mirror'.commits = file.commits /\ mirror'.revision = file.revision
  BY DEF Acquire, StoreInv, Kept, Mirrors, Files
<1>2. Kept'
  BY <1>1, QuietKeeps DEF Acquire, StoreInv, Kept, history
<1>3. Control'
  BY DEF Acquire, Opening, StoreInv, Control, DownIsBlank, OwnerOpened, Works,
         AtHand, RoomMade, history
<1> QED BY <1>2, <1>3 DEF StoreInv

LEMMA LoadKeeps == StoreInv /\ Load => StoreInv'
<1> SUFFICES ASSUME StoreInv, Load PROVE StoreInv'
  OBVIOUS
<1>1. /\ mirror' \in Mirrors /\ data' = file.state /\ file.state \in States
      /\ mirror'.commits = mirror.commits /\ mirror'.revision = mirror.revision
      /\ mirror'.state = file.state
  BY DEF Load, StoreInv, Kept, Mirrors, Files
<1>2. Kept'
  BY <1>1, QuietKeeps DEF Load, StoreInv, Kept, history
<1> SUFFICES Control'
  BY <1>2 DEF StoreInv
<1>3. Synced'
  BY <1>1 DEF Load, Synced
<1>4. CASE Overdue(file.state) = {}
  BY <1>3, <1>4 DEF Load, Opened, GoesOn, StoreInv, Control, DownIsBlank, OwnerOpened,
                    Works, AtHand, RoomMade, Pcs, history
<1>5. CASE Overdue(file.state) # {}
  BY <1>3, <1>5 DEF Load, StoreInv, Control, DownIsBlank, OwnerOpened,
                    Works, AtHand, RoomMade, history
<1> QED BY <1>4, <1>5

LEMMA OpenFailsKeeps == StoreInv /\ OpenFails => StoreInv'
<1> SUFFICES ASSUME StoreInv, OpenFails PROVE StoreInv'
  OBVIOUS
<1>1. Empty \in States /\ Blank \in Mirrors
  BY DEF Empty, States, Activity, Blank, Mirrors
<1>2. up' \in BOOLEAN /\ opened' \in BOOLEAN /\ (opened' => up' /\ opened)
  BY DEF OpenFails, StoreInv, Kept
<1>3. mirror' \in Mirrors /\ data' \in States
  BY <1>1 DEF OpenFails, StoreInv, Kept
<1>4. Kept'
  BY <1>2, <1>3, QuietKeeps DEF OpenFails, StoreInv, Kept, history
<1>5. Control'
  BY <1>2 DEF OpenFails, NotOpened, Opening, StoreInv, Control, DownIsBlank,
              OwnerOpened, Works, AtHand, RoomMade, Pcs
<1> QED BY <1>4, <1>5 DEF StoreInv

\* Steps of the core that touch neither the store nor the owner's memory.
LEMMA IntakeKeeps ==
  ASSUME StoreInv,
         \/ Refuse \/ TurnAway \/ FindFaulted \/ Drop
         \/ WantOwner \/ \E o \in Obs : Deliver(o)
  PROVE  StoreInv'
<1>1. UNCHANGED <<file, db, day, up, opened, mirror, data, accepted, applied>>
  BY DEF Refuse, TurnAway, Done, FindFaulted, Drop, WantOwner, Deliver,
     history
<1>2. Kept'
  BY <1>1, QuietKeeps DEF StoreInv, Kept
<1> SUFFICES Control'
  BY <1>2 DEF StoreInv
<1>3. Present(data)' = Present(data) /\ (Synced => Synced')
  BY <1>1 DEF Present, Synced
<1>4. CASE Refuse
  BY <1>1, <1>3, <1>4 DEF Refuse, Done, StoreInv, Control, DownIsBlank,
                          OwnerOpened, Works, AtHand, RoomMade, Pcs
<1>5. CASE TurnAway
  BY <1>1, <1>3, <1>5 DEF TurnAway, Admitting, Done, StoreInv, Control, DownIsBlank,
                          OwnerOpened, Works, AtHand, RoomMade, Pcs
<1>6. CASE FindFaulted
  BY <1>1, <1>3, <1>6 DEF FindFaulted, StoreInv, Control, DownIsBlank,
                          OwnerOpened, Works, AtHand, RoomMade, Pcs
<1>7. CASE Drop
  <2>1. up /\ intake \in Obs
    BY <1>7 DEF Drop, StoreInv, Control, DownIsBlank
  <2>2. /\ owner' = "none" /\ pc' = "reopening" /\ leased' = FALSE
        /\ intake' = intake /\ backoff' = backoff
    BY <1>7 DEF Drop
  <2>3. up'
    BY <1>1, <2>1
  <2>4. (leased <=> owner # "none")'
    BY <2>2
  <2> QED BY <2>1, <2>2, <2>3, <2>4 DEF StoreInv, Control, DownIsBlank,
                            OwnerOpened, Works, AtHand, RoomMade, Pcs
<1>8. CASE \E o \in Obs : Deliver(o)
  BY <1>1, <1>3, <1>8, StoreAssumption
     DEF Deliver, StoreInv, Control, DownIsBlank,
         OwnerOpened, Works, AtHand, RoomMade, Pcs
<1>9. CASE WantOwner
  BY <1>1, <1>3, <1>9 DEF WantOwner, StoreInv, Control, DownIsBlank,
                          OwnerOpened, Works, AtHand, RoomMade, Pcs
<1> QED BY <1>4, <1>5, <1>6, <1>7, <1>8, <1>9

LEMMA AnswerKeeps == StoreInv /\ Answer => StoreInv'
<1> SUFFICES ASSUME StoreInv, Answer PROVE StoreInv'
  OBVIOUS
<1>1. /\ UNCHANGED <<file, db, day, up, opened, mirror, data, applied, leased, owner,
                      backoff>>
      /\ accepted' = accepted \union {intake} /\ pc = "answer"
      /\ pc' = "idle" /\ intake' = None
  BY DEF Answer, Done
<1>2. intake \in Obs /\ applied[intake] = 1
  BY <1>1 DEF StoreInv, Control, AtHand
<1>3. /\ AppliedOnce' /\ Cardinality(Present(file.state))' <= Capacity
      /\ Aged' = Aged /\ (Synced => Synced')
  BY <1>1, <1>2 DEF AppliedOnce, Present, Aged, Synced, StoreInv, Kept
<1>4. Kept'
  BY <1>1, <1>2, <1>3 DEF StoreInv, Kept
<1>5. Control'
  BY <1>1, <1>2, <1>3 DEF StoreInv, Control, DownIsBlank, OwnerOpened, Works,
                         AtHand, RoomMade, Pcs
<1> QED BY <1>4, <1>5 DEF StoreInv

\* What the file and the owner hold while it works.
LEMMA WorksFits ==
  ASSUME StoreInv, Works
  PROVE  /\ Synced /\ data \in States /\ opened
         /\ Cardinality(Present(data)) <= Capacity /\ Cardinality(Present(data)) \in Nat
         /\ Capacity \in Nat
BY PresentFinite, StoreAssumption
   DEF StoreInv, Kept, Control, Synced, Works, OwnerOpened

LEMMA SmallerFits ==
  ASSUME NEW s, NEW t, Present(t) \subseteq Present(s),
         Cardinality(Present(s)) <= Capacity
  PROVE  Cardinality(Present(t)) <= Capacity
BY PresentFinite, PresentShrinks, StoreAssumption

\* A commit of maintenance.
LEMMA ExpiryKeeps ==
  ASSUME StoreInv, Works, NEW how \in Outcomes, Commit(Expired(data), {}, how)
  PROVE  /\ Kept' /\ Synced' /\ Aside
         /\ file'.taken \subseteq file.taken /\ applied' = applied
         /\ ~Reported(how) => data' = data
<1> DEFINE next == Expired(data)
<1>1. next \in States /\ Present(next) \subseteq Present(data)
  BY WorksFits, ExpiredSound
<1>2. Cardinality(Present(next)) <= Capacity
  BY <1>1, WorksFits, SmallerFits
<1>3. Commit(next, {}, how)
  OBVIOUS
<1> HIDE DEF next
<1>4. /\ Kept' /\ Synced' /\ file'.taken \subseteq file.taken
      /\ Reported(how) => \A o \in Obs : applied'[o] = applied[o]
      /\ ~Reported(how) => data' = data /\ applied' = applied
  BY <1>1, <1>2, <1>3, CommitKeeps
<1>5. applied \in [Obs -> 0..2] /\ applied' \in [Obs -> 0..2]
  BY <1>4 DEF StoreInv, Kept
<1>6. applied' = applied
  BY <1>4, <1>5
<1>7. Aside
  BY <1>3, CommitAside
<1> QED BY <1>4, <1>6, <1>7

LEMMA SettleKeeps ==
  ASSUME StoreInv, NEW how \in Outcomes, Settle(how)
  PROVE  StoreInv'
<1>1. owner = "loaded" /\ Works /\ Commit(Expired(data), {}, how)
  BY DEF Settle, Works
<1>2. /\ Kept' /\ Synced' /\ Aside
      /\ file'.taken \subseteq file.taken /\ applied' = applied
  BY <1>1, ExpiryKeeps
<1> SUFFICES Control'
  BY <1>2 DEF StoreInv
<1>3. up /\ opened /\ up' /\ opened'
  BY <1>1, <1>2 DEF StoreInv, Control, DownIsBlank, OwnerOpened, Aside
<1>4. CASE Reported(how)
  <2>1. Opened /\ UNCHANGED leased
    BY <1>4 DEF Settle
  <2> QED BY <1>1, <1>2, <1>3, <2>1 DEF Opened, GoesOn, StoreInv, Control, DownIsBlank,
             OwnerOpened, Works, AtHand, RoomMade, Pcs
<1>5. CASE ~Reported(how)
  <2>1. /\ owner' = "none" /\ leased' = FALSE /\ backoff' = TRUE
        /\ pc' = "idle" /\ intake' = None
    BY <1>5 DEF Settle, NotOpened
  <2>2. (leased <=> owner # "none")'
    BY <2>1
  <2> QED BY <1>3, <2>1, <2>2 DEF Control, DownIsBlank, OwnerOpened, Works,
                                 AtHand, RoomMade, Pcs
<1> QED BY <1>4, <1>5

LEMMA ExpireKeeps ==
  ASSUME StoreInv, NEW how \in Outcomes, Expire(how)
  PROVE  StoreInv'
<1>1. /\ pc = "calling" /\ owner = "running" /\ Works
      /\ Commit(Expired(data), {}, how) /\ Then("admit", how)
  BY DEF Expire, Works
<1>2. /\ Kept' /\ Synced' /\ Aside
      /\ file'.taken \subseteq file.taken /\ applied' = applied
  BY <1>1, ExpiryKeeps
<1> SUFFICES Control'
  BY <1>2 DEF StoreInv
<1>3. up /\ opened /\ up' /\ opened'
  BY <1>1, <1>2 DEF StoreInv, Control, DownIsBlank, OwnerOpened, Aside
<1> QED BY <1>1, <1>2, <1>3 DEF Then, StoreInv, Control, DownIsBlank,
           OwnerOpened, Works, AtHand, RoomMade, Pcs

LEMMA MaintainKeeps ==
  ASSUME StoreInv, NEW how \in Outcomes, Maintain(how)
  PROVE  StoreInv'
<1>1. /\ owner = "running" /\ Works /\ pc \notin {"admit", "save"}
      /\ Commit(Expired(data), {}, how)
      /\ owner' = IF Reported(how) THEN owner ELSE "faulted"
      /\ UNCHANGED <<leased, pc, intake, backoff>>
  BY DEF Maintain, Works
<1>2. /\ Kept' /\ Synced' /\ Aside
      /\ file'.taken \subseteq file.taken /\ applied' = applied
  BY <1>1, ExpiryKeeps
<1> SUFFICES Control'
  BY <1>2 DEF StoreInv
<1>3. up /\ opened /\ up' /\ opened'
  BY <1>1, <1>2 DEF StoreInv, Control, DownIsBlank, OwnerOpened, Aside
<1> QED BY <1>1, <1>2, <1>3 DEF StoreInv, Control, DownIsBlank,
           OwnerOpened, Works, AtHand, RoomMade, Pcs

-----------------------------------------------------------------------------
(* The commits that answer an observation, or make room for it.            *)

\* An observation that is being admitted was not applied.
LEMMA FreshIsUnapplied ==
  ASSUME StoreInv, Admitting, ~Stale(data, intake)
  PROVE  /\ Works /\ owner = "running" /\ up /\ opened
         /\ intake \in Obs /\ intake \notin file.taken /\ applied[intake] = 0
<1>1. /\ pc \in {"calling", "admit"} /\ owner = "running"
      /\ intake \in Obs /\ intake \notin file.taken
  BY DEF Admitting, StoreInv, Control, OwnerOpened, AtHand
<1>2. intake \notin Aged
  BY DEF Stale
<1>3. applied[intake] \in 0..1 /\ applied[intake] # 1
  BY <1>1, <1>2 DEF StoreInv, Kept, AppliedOnce
<1> QED BY <1>1, <1>3 DEF Works, StoreInv, Control, DownIsBlank, OwnerOpened

\* The control after a commit that answers what is at hand.
LEMMA AnswersKeep ==
  ASSUME StoreInv, NEW how \in Outcomes, Then("answer", how),
         Kept', Synced', Aside, up, opened, owner = "running", intake \in Obs,
         Reported(how) => applied'[intake] = 1
  PROVE  StoreInv'
<1>1. up' /\ opened' /\ intake' = intake /\ UNCHANGED <<leased, backoff>>
  BY DEF Aside, Then
<1> SUFFICES Control'
  BY DEF StoreInv
<1>2. CASE Reported(how)
  BY <1>1, <1>2 DEF Then, StoreInv, Control, DownIsBlank, OwnerOpened, Works,
                    AtHand, RoomMade, Pcs
<1>3. CASE ~Reported(how)
  BY <1>1, <1>3 DEF Then, StoreInv, Control, DownIsBlank, OwnerOpened, Works,
                    AtHand, RoomMade, Pcs
<1> QED BY <1>2, <1>3

LEMMA EndKeeps ==
  ASSUME StoreInv, NEW how \in Outcomes, End(how)
  PROVE  StoreInv'
<1> DEFINE next == Retired(data, SubjectOf[intake], {intake})
<1>1. /\ Admitting /\ ~Stale(data, intake)
      /\ Commit(next, {intake}, how) /\ Then("answer", how)
  BY DEF End
<1>2. /\ Works /\ owner = "running" /\ up /\ opened
      /\ intake \in Obs /\ applied[intake] = 0
  BY <1>1, FreshIsUnapplied
<1>3. next \in States /\ Present(next) \subseteq Present(data)
  <2>1. data \in States /\ {intake} \in SUBSET Obs
    BY <1>2, WorksFits
  <2> QED BY <2>1, RetiredSound
<1>4. Cardinality(Present(next)) <= Capacity
  BY <1>2, <1>3, WorksFits, SmallerFits
<1> HIDE DEF next
<1>5. Kept' /\ Synced' /\ (Reported(how) => applied'[intake] = 1)
  <2>1. {intake} \in SUBSET Obs /\ \A o \in {intake} : applied[o] = 0
    BY <1>2
  <2> QED BY <1>1, <1>2, <1>3, <1>4, <2>1, CommitKeeps
<1>6. Aside
  BY <1>1, CommitAside
<1> QED BY <1>1, <1>2, <1>5, <1>6, AnswersKeep

LEMMA DisplaceKeeps ==
  ASSUME StoreInv, NEW how \in Outcomes, Displace(how)
  PROVE  StoreInv'
<1>1. PICK x \in Room(data, intake) : Commit(Retired(data, x, {}), {}, how)
  BY DEF Displace
<1> DEFINE next == Retired(data, x, {})
<1>2. /\ Admitting /\ ~Stale(data, intake) /\ Then("save", how)
      /\ Commit(next, {}, how)
  BY <1>1 DEF Displace
<1>3. /\ Works /\ owner = "running" /\ up /\ opened
      /\ intake \in Obs /\ intake \notin file.taken /\ applied[intake] = 0
  BY <1>2, FreshIsUnapplied
<1>4. /\ data \in States /\ Cardinality(Present(data)) <= Capacity
      /\ Cardinality(Present(data)) \in Nat /\ Capacity \in Nat
  BY <1>3, WorksFits
<1>5. x \in Present(data)
  BY DEF Room, Displaceable
<1>6. next \in States /\ Present(next) \subseteq Present(data) \ {x}
  BY <1>4, <1>5, RetiredSound, SubtreePresent
<1>7. Cardinality(Present(next)) < Capacity
  <2>1. /\ IsFiniteSet(Present(data) \ {x})
        /\ Cardinality(Present(data) \ {x}) = Cardinality(Present(data)) - 1
    BY <1>5, PresentFinite, FS_RemoveElement
  <2>2. Cardinality(Present(next)) <= Cardinality(Present(data) \ {x})
    BY <1>6, <2>1, FS_Subset
  <2>3. Cardinality(Present(next)) \in Nat
    BY PresentFinite
  <2> QED BY <1>4, <2>1, <2>2, <2>3
<1>8. Cardinality(Present(next)) <= Capacity
  BY <1>4, <1>7, PresentFinite
<1> HIDE DEF next
<1>9. /\ Kept' /\ Synced' /\ file'.taken \subseteq file.taken
      /\ Reported(how) => data' = next /\ applied'[intake] = applied[intake]
  BY <1>2, <1>3, <1>6, <1>8, CommitKeeps
<1>10. up' /\ opened'
  BY <1>2, <1>3, CommitAside DEF Aside
<1>11. intake' = intake /\ UNCHANGED <<leased, backoff>>
  BY <1>2 DEF Then
<1> SUFFICES Control'
  BY <1>9 DEF StoreInv
<1>12. CASE Reported(how)
  <2>1. pc' = "save" /\ owner' = "running"
    BY <1>2, <1>3, <1>12 DEF Then
  <2>2. RoomMade'
    BY <1>7, <1>9, <1>12 DEF RoomMade, Present
  <2>3. AtHand'
    BY <1>3, <1>9, <1>11, <1>12, <2>1 DEF AtHand
  <2> QED BY <1>3, <1>9, <1>10, <1>11, <2>1, <2>2, <2>3
          DEF StoreInv, Control, DownIsBlank, OwnerOpened, Works, Pcs
<1>13. CASE ~Reported(how)
  <2>1. pc' = "drop" /\ owner' = "faulted"
    BY <1>2, <1>13 DEF Then
  <2> QED BY <1>3, <1>9, <1>10, <1>11, <2>1
          DEF StoreInv, Control, DownIsBlank, OwnerOpened, Works, AtHand, RoomMade, Pcs
<1> QED BY <1>12, <1>13

LEMMA SaveKeeps ==
  ASSUME StoreInv, NEW how \in Outcomes, Save(how)
  PROVE  StoreInv'
<1> DEFINE next == Reduced(data, intake)
           x == SubjectOf[intake]
<1>1. /\ Commit(next, {intake}, how) /\ Then("answer", how)
      /\ \/ pc = "save"
         \/ Admitting /\ ~Stale(data, intake) /\ ~Full(data, intake)
  BY DEF Save
<1>2. /\ Works /\ owner = "running" /\ up /\ opened
      /\ intake \in Obs /\ applied[intake] = 0
  <2>1. CASE pc = "save"
    BY <2>1 DEF StoreInv, Control, Works, DownIsBlank, OwnerOpened, AtHand
  <2>2. CASE Admitting /\ ~Stale(data, intake)
    BY <2>2, FreshIsUnapplied
  <2> QED BY <1>1, <2>1, <2>2
<1>3. /\ data \in States /\ Cardinality(Present(data)) <= Capacity
      /\ Cardinality(Present(data)) \in Nat /\ Capacity \in Nat
  BY <1>2, WorksFits
<1>4. next \in States /\ Present(next) = Present(data) \union {x}
  BY <1>2, <1>3, ReducedSound
<1>5. x \in Present(data) \/ Cardinality(Present(data)) < Capacity
  <2>1. CASE pc = "save"
    BY <2>1 DEF StoreInv, Control, RoomMade
  <2>2. CASE ~Full(data, intake)
    BY <1>3, <2>2 DEF Full
  <2> QED BY <1>1, <2>1, <2>2
<1>6. Cardinality(Present(next)) <= Capacity
  <2> DEFINE now == Present(data)
  <2>1. IsFiniteSet(now)
    BY PresentFinite
  <2> HIDE DEF now, x, next
  <2>2. Cardinality(now \union {x}) = IF x \in now THEN Cardinality(now)
                                      ELSE Cardinality(now) + 1
    BY <2>1, FS_AddElement
  <2> QED BY <1>3, <1>4, <1>5, <2>2 DEF now
<1> HIDE DEF next
<1>7. Kept' /\ Synced' /\ (Reported(how) => applied'[intake] = 1)
  <2>1. {intake} \in SUBSET Obs /\ \A o \in {intake} : applied[o] = 0
    BY <1>2
  <2> QED BY <1>1, <1>2, <1>4, <1>6, <2>1, CommitKeeps
<1>8. Aside
  BY <1>1, CommitAside
<1> QED BY <1>1, <1>2, <1>7, <1>8, AnswersKeep

-----------------------------------------------------------------------------

LEMMA OtherKeeps == StoreInv /\ Other => StoreInv'
<1> SUFFICES ASSUME StoreInv, Other PROVE StoreInv'
  OBVIOUS
<1> DEFINE commits == mirror.commits + 1
           revision == mirror.revision + 1
<1>1. /\ up /\ opened
      /\ file' = [file EXCEPT !.commits = commits, !.revision = revision]
      /\ mirror' = [mirror EXCEPT !.commits = commits, !.revision = revision]
      /\ UNCHANGED <<db, day, up, opened, leased, owner, data, pc, intake, backoff,
                     accepted, applied>>
  BY DEF Other, history
<1>2. commits \in Nat /\ revision \in Nat
  BY DEF StoreInv, Kept, Mirrors
<1> HIDE DEF commits, revision
<1>3. /\ file' \in Files /\ file'.state = file.state /\ file'.taken = file.taken
      /\ file'.commits = commits /\ file'.revision = revision
      /\ mirror' \in Mirrors /\ mirror'.state = mirror.state
      /\ mirror'.commits = commits /\ mirror'.revision = revision
  BY <1>1, <1>2 DEF StoreInv, Kept, Files, Mirrors
<1>4. /\ AppliedOnce' /\ Cardinality(Present(file.state))' <= Capacity
      /\ Aged' = Aged /\ (Synced => Synced') /\ Present(data)' = Present(data)
  BY <1>1, <1>3 DEF AppliedOnce, Present, Aged, Synced, StoreInv, Kept
<1>5. Kept'
  BY <1>1, <1>3, <1>4 DEF StoreInv, Kept
<1>6. Control'
  BY <1>1, <1>3, <1>4 DEF StoreInv, Control, DownIsBlank, OwnerOpened, Works,
                         AtHand, RoomMade
<1> QED BY <1>5, <1>6 DEF StoreInv

LEMMA DayPassesKeeps == StoreInv /\ DayPasses => StoreInv'
<1> SUFFICES ASSUME StoreInv, DayPasses PROVE StoreInv'
  OBVIOUS
<1>1. /\ UNCHANGED <<file, db, up, opened, mirror, leased, owner, data, pc, intake,
                     backoff, accepted, applied>>
      /\ day = 0 /\ day' = 1
  BY DEF DayPasses, memory, history
<1>2. /\ AppliedOnce' /\ Cardinality(Present(file.state))' <= Capacity
      /\ Aged \subseteq Aged' /\ (Synced => Synced') /\ Present(data)' = Present(data)
  BY <1>1 DEF AppliedOnce, Present, Aged, Synced, StoreInv, Kept
<1>3. Kept'
  BY <1>1, <1>2 DEF StoreInv, Kept
<1>4. Control'
  BY <1>1, <1>2 DEF StoreInv, Control, DownIsBlank, OwnerOpened, Works,
                   AtHand, RoomMade
<1> QED BY <1>3, <1>4 DEF StoreInv

LEMMA StartKeeps == StoreInv /\ Start => StoreInv'
<1> SUFFICES ASSUME StoreInv, Start PROVE StoreInv'
  OBVIOUS
<1>1. /\ ~up /\ up' = TRUE /\ pc' = "starting" /\ db' = "open"
      /\ UNCHANGED <<file, day, opened, mirror, leased, owner, data, intake, backoff,
                     accepted, applied>>
  BY DEF Start, history
<1>2. ~opened /\ owner = "none" /\ intake = None
  BY <1>1 DEF StoreInv, Control, DownIsBlank
<1>3. Kept'
  BY <1>1, <1>2, QuietKeeps DEF StoreInv, Kept
<1>4. Control'
  BY <1>1, <1>2 DEF StoreInv, Control, DownIsBlank, OwnerOpened, Works,
                   AtHand, RoomMade, Pcs
<1> QED BY <1>3, <1>4 DEF StoreInv

LEMMA CrashKeeps == StoreInv /\ Crash => StoreInv'
<1> SUFFICES ASSUME StoreInv, Crash PROVE StoreInv'
  OBVIOUS
<1>1. /\ up' = FALSE /\ opened' = FALSE /\ mirror' = Blank /\ leased' = FALSE
      /\ owner' = "none" /\ data' = Empty /\ pc' = "idle" /\ intake' = None
      /\ backoff' = FALSE
      /\ UNCHANGED <<file, db, day, accepted, applied>>
  BY DEF Crash, history
<1>2. Empty \in States /\ Blank \in Mirrors
  BY DEF Empty, States, Activity, Blank, Mirrors
<1>3. Kept'
  BY <1>1, <1>2, QuietKeeps DEF StoreInv, Kept
<1>4. (leased <=> owner # "none")'
  BY <1>1
<1>5. Control'
  BY <1>1, <1>4 DEF Control, DownIsBlank, OwnerOpened, Works, AtHand, RoomMade, Pcs
<1> QED BY <1>3, <1>5 DEF StoreInv

LEMMA StutterKeeps == StoreInv /\ UNCHANGED vars => StoreInv'
<1> SUFFICES ASSUME StoreInv, UNCHANGED vars PROVE StoreInv'
  OBVIOUS
<1>1. UNCHANGED <<file, db, day, up, opened, mirror, leased, owner, data, pc, intake,
                  backoff, accepted, applied>>
  BY DEF vars, memory, history
<1>2. Kept'
  BY <1>1, QuietKeeps DEF StoreInv, Kept
<1>3. (Synced => Synced') /\ Present(data)' = Present(data)
  BY <1>1 DEF Synced, Present
<1>4. Control'
  BY <1>1, <1>3 DEF StoreInv, Control, DownIsBlank, OwnerOpened, Works, AtHand, RoomMade
<1> QED BY <1>2, <1>4 DEF StoreInv

-----------------------------------------------------------------------------

\* Every step of the core, of the owner and of the store keeps the invariant,
\* whatever fails and whenever the process crashes.
THEOREM StoreInvariant == Spec => []StoreInv
<1>1. Init => StoreInv
  BY InitKeeps
<1>2. StoreInv /\ [Next]_vars => StoreInv'
  BY AcquireKeeps, LoadKeeps, OpenFailsKeeps, IntakeKeeps, AnswerKeeps, SettleKeeps,
     ExpireKeeps, EndKeeps, DisplaceKeeps, SaveKeeps, MaintainKeeps, OtherKeeps,
     DayPassesKeeps, StartKeeps, CrashKeeps, StutterKeeps DEF Next
<1> QED BY <1>1, <1>2, PTL DEF Spec

\* TypeOK: the types, the lease that belongs to whoever is the owner, and the
\* capacity that no save exceeds.
THEOREM StoreType == Spec => []TypeOK
<1>1. StoreInv => TypeOK
  BY DEF StoreInv, Kept, Control, TypeOK, Files, Mirrors, Present
<1> QED BY <1>1, StoreInvariant, PTL

\* OwnerHoldsCommitted: an owner at work, the store under it and the file agree,
\* however many commits failed before.
THEOREM StoreOwnerHoldsCommitted == Spec => []OwnerHoldsCommitted
<1>1. StoreInv => OwnerHoldsCommitted
  BY DEF StoreInv, Kept, Control, OwnerHoldsCommitted, Synced, Works
<1> QED BY <1>1, StoreInvariant, PTL

\* AppliedOnce: what was answered or is kept as taken was applied, and nothing
\* is applied twice.
THEOREM StoreAppliedOnce == Spec => []AppliedOnce
<1>1. StoreInv => AppliedOnce
  BY DEF StoreInv, Kept
<1> QED BY <1>1, StoreInvariant, PTL

-----------------------------------------------------------------------------
(* What a step may do to the file.                                         *)

\* Only the owner's commits change the state in the file, to the state that the
\* step works out of the one there: maintenance, an end, a place that is made,
\* and a save.
Changes(s, t) ==
  \/ t = s
  \/ t = Expired(s)
  \/ /\ intake \in Obs /\ KindOf[intake] = "end"
     /\ t = Retired(s, SubjectOf[intake], {intake})
  \/ \E x \in Displaceable(s) : t = Retired(s, x, {})
  \/ intake \in Obs /\ t = Reduced(s, intake)

Raises ==
  /\ file'.revision >= file.revision
  /\ Visible(file'.state) # Visible(file.state) => file'.revision > file.revision

\* One commit raises the revision with whatever consumers see of it.
LEMMA CommitRaises ==
  ASSUME StoreInv, Works, NEW how \in Outcomes,
         NEW change \in States, NEW cause \in SUBSET Obs, Commit(change, cause, how)
  PROVE  Raises /\ file'.state \in {file.state, change}
<1>1. data = file.state /\ file.revision \in Nat
  BY DEF StoreInv, Control, Synced, Kept, Files
<1>2. CASE how = "ok"
  <2>1. /\ file'.state = change /\ file'.revision >= file.revision
        /\ Visible(change) # Visible(data) => file'.revision > file.revision
    BY <1>2, CommitSucceeds
  <2> QED BY <1>1, <2>1 DEF Raises
<1>3. CASE how # "ok"
  <2>1. file' = file
    BY <1>3, CommitFails
  <2> QED BY <1>1, <2>1 DEF Raises
<1> QED BY <1>2, <1>3

LEMMA StepChanges ==
  ASSUME StoreInv, [Next]_vars
  PROVE  Raises /\ Changes(file.state, file'.state)
<1>1. file.revision \in Nat
  BY DEF StoreInv, Kept, Files
<1>2. ASSUME file' = file PROVE Raises /\ Changes(file.state, file'.state)
  BY <1>1, <1>2 DEF Raises, Changes
<1>3. ASSUME Works, NEW how \in Outcomes, Commit(Expired(data), {}, how)
      PROVE  Raises /\ Changes(file.state, file'.state)
  <2>1. data = file.state /\ Expired(data) \in States
    BY <1>3, WorksFits, ExpiredSound DEF Synced
  <2>2. Raises /\ file'.state \in {file.state, Expired(data)}
    BY <1>3, <2>1, CommitRaises
  <2> QED BY <2>1, <2>2 DEF Changes
<1>4. ASSUME NEW how \in Outcomes, End(how)
      PROVE  Raises /\ Changes(file.state, file'.state)
  <2> DEFINE next == Retired(data, SubjectOf[intake], {intake})
  <2>1. /\ Admitting /\ ~Stale(data, intake) /\ Commit(next, {intake}, how)
        /\ KindOf[intake] = "end"
    BY <1>4 DEF End
  <2>2. Works /\ intake \in Obs
    BY <2>1, FreshIsUnapplied
  <2>3. data = file.state /\ next \in States /\ {intake} \in SUBSET Obs
    BY <2>2, WorksFits, RetiredSound DEF Synced
  <2>4. next = Retired(file.state, SubjectOf[intake], {intake})
    BY <2>3
  <2> HIDE DEF next
  <2>5. Raises /\ file'.state \in {file.state, next}
    BY <2>1, <2>2, <2>3, CommitRaises
  <2> QED BY <2>1, <2>2, <2>4, <2>5 DEF Changes
<1>5. ASSUME NEW how \in Outcomes, Displace(how)
      PROVE  Raises /\ Changes(file.state, file'.state)
  <2>1. PICK x \in Room(data, intake) : Commit(Retired(data, x, {}), {}, how)
    BY <1>5 DEF Displace
  <2> DEFINE next == Retired(data, x, {})
  <2>2. Works
    BY <1>5, FreshIsUnapplied DEF Displace
  <2>3. data = file.state /\ next \in States
    BY <2>2, WorksFits, RetiredSound DEF Synced
  <2>4. x \in Displaceable(file.state) /\ next = Retired(file.state, x, {})
    BY <2>3 DEF Room
  <2>5. Commit(next, {}, how)
    BY <2>1
  <2> HIDE DEF next
  <2>6. Raises /\ file'.state \in {file.state, next}
    BY <2>2, <2>3, <2>5, CommitRaises
  <2> QED BY <2>4, <2>6 DEF Changes
<1>6. ASSUME NEW how \in Outcomes, Save(how)
      PROVE  Raises /\ Changes(file.state, file'.state)
  <2> DEFINE next == Reduced(data, intake)
  <2>1. Works /\ intake \in Obs
    <3>1. CASE pc = "save"
      BY <3>1 DEF StoreInv, Control, OwnerOpened, Works
    <3>2. CASE Admitting /\ ~Stale(data, intake)
      BY <3>2, FreshIsUnapplied
    <3> QED BY <1>6, <3>1, <3>2 DEF Save
  <2>2. data = file.state /\ next \in States /\ {intake} \in SUBSET Obs
    BY <2>1, WorksFits, ReducedSound DEF Synced
  <2>3. next = Reduced(file.state, intake) /\ Commit(next, {intake}, how)
    BY <1>6, <2>2 DEF Save
  <2> HIDE DEF next
  <2>4. Raises /\ file'.state \in {file.state, next}
    BY <2>1, <2>2, <2>3, CommitRaises
  <2> QED BY <2>1, <2>3, <2>4 DEF Changes
<1>7. ASSUME Other PROVE Raises /\ Changes(file.state, file'.state)
  <2>1. /\ opened /\ mirror.revision \in Nat
        /\ file' = [file EXCEPT !.commits = mirror.commits + 1,
                               !.revision = mirror.revision + 1]
    BY <1>7 DEF Other, StoreInv, Kept, Mirrors
  <2>2. file'.state = file.state /\ file'.revision = mirror.revision + 1
    BY <2>1 DEF StoreInv, Kept, Files
  <2>3. mirror.revision = file.revision
    BY <2>1 DEF StoreInv, Kept
  <2> QED BY <1>1, <2>1, <2>2, <2>3 DEF Raises, Changes
<1>8. ASSUME NEW how \in Outcomes, Settle(how) \/ Expire(how) \/ Maintain(how)
      PROVE  Raises /\ Changes(file.state, file'.state)
  BY <1>3, <1>8 DEF Settle, Expire, Maintain, Works
<1>9. ASSUME \/ Acquire \/ Load \/ OpenFails \/ Refuse \/ TurnAway \/ Answer
             \/ FindFaulted \/ Drop \/ DayPasses \/ Start \/ Crash
             \/ WantOwner \/ (\E o \in Obs : Deliver(o)) \/ UNCHANGED vars
      PROVE  file' = file
  BY <1>9 DEF Acquire, Load, OpenFails, Refuse, TurnAway, Answer, Done, FindFaulted,
     Drop, DayPasses, Start, Crash, WantOwner, Deliver, vars
<1> QED BY <1>2, <1>4, <1>5, <1>6, <1>7, <1>8, <1>9 DEF Next

LEMMA ChangesKeepRoom ==
  ASSUME NEW s \in States, NEW t, Changes(s, t),
         NEW x \in Sessions, s.act[x] = "active", x \notin Present(t),
         None \notin Obs
  PROVE  \/ x \in Overdue(s)
         \/ /\ intake # None /\ KindOf[intake] = "end"
            /\ x \in Subtree(s, SubjectOf[intake])
<1>1. x \in Present(s)
  BY DEF Present
<1>2. CASE t = Expired(s)
  BY <1>1, <1>2, ExpiredSound
<1>3. CASE /\ intake \in Obs /\ KindOf[intake] = "end"
           /\ t = Retired(s, SubjectOf[intake], {intake})
  <2>1. {intake} \in SUBSET Obs
    BY <1>3
  <2>2. x \in Subtree(s, SubjectOf[intake])
    BY <1>1, <1>3, <2>1, RetiredSound
  <2> QED BY <1>3, <2>2
<1>4. ASSUME NEW y \in Displaceable(s), t = Retired(s, y, {}) PROVE FALSE
  <2>1. x \in Subtree(s, y)
    BY <1>1, <1>4, RetiredSound
  <2> QED BY <2>1 DEF Displaceable
<1>5. CASE intake \in Obs /\ t = Reduced(s, intake)
  BY <1>1, <1>5, ReducedSound
<1> QED BY <1>1, <1>2, <1>3, <1>4, <1>5 DEF Changes

\* RevisionsRise: whatever consumers see anew carries a revision above every
\* one before it, although the parts' commits and the owner's share the counter.
THEOREM StoreRevisionsRise == Spec => RevisionsRise
<1>1. StoreInv /\ [Next]_vars =>
        [/\ file'.revision >= file.revision
         /\ Visible(file'.state) # Visible(file.state) =>
              file'.revision > file.revision]_vars
  BY StepChanges DEF Raises
<1> QED BY <1>1, StoreInvariant, PTL DEF Spec, RevisionsRise

\* RoomOnlyFromFinished: a session that may still be running leaves with its own
\* end, that of one above it, or after a day without evidence.
THEOREM StoreRoomOnlyFromFinished == Spec => RoomOnlyFromFinished
<1>1. StoreInv /\ [Next]_vars =>
        [\A x \in Sessions :
           file.state.act[x] = "active" /\ x \notin Present(file'.state) =>
             \/ x \in Overdue(file.state)
             \/ /\ intake # None /\ KindOf[intake] = "end"
                /\ x \in Subtree(file.state, SubjectOf[intake])]_vars
  <2>1. StoreInv => file.state \in States
    BY DEF StoreInv, Kept, Files
  <2> QED BY <2>1, StepChanges, ChangesKeepRoom, StoreAssumption
<1> QED BY <1>1, StoreInvariant, PTL DEF Spec, RoomOnlyFromFinished
=============================================================================

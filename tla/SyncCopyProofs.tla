--------------------------- MODULE SyncCopyProofs ---------------------------
(***************************************************************************)
(* What a copy guarantees for every number of entities, families and       *)
(* changes, and for queues and a buffer of any length: a live copy has     *)
(* missed nothing, it never goes back, and its handler hears all of it.    *)
(*                                                                         *)
(* The heart is that a copy is at every moment the owner's state of some   *)
(* revision, entity by entity (IsStateSeen).                               *)
(***************************************************************************)
EXTENDS SyncCopy, FiniteSetTheorems, TLAPS

USE SyncAssumption

-----------------------------------------------------------------------------
(* The inductive invariant.                                                *)

\* Messages and revisions are the owner's.
Published ==
  /\ Len(log) <= MaxRevision /\ published <= Len(log)
  /\ floor <= Len(log) /\ snapshot <= Len(log)
  /\ \A f \in Families :
       /\ inbox[f] \in Seq(1..Len(log))
       /\ hand[f] \in 0..Len(log)
  /\ pending \in Seq(1..Len(log))

Asking == request # "no" \/ answered # "no"

\* One request at a time, never while live, and what an overflow wants is
\* no answer to an earlier request.
Rounds ==
  /\ asked <= generation
  /\ request # "no" => answered = "no"
  /\ Asking \/ wanted => phase # "live"
  /\ Asking /\ phase = "syncing" => (wanted => asked < generation)
  /\ Asking \/ phase = "live" => subscribed = Families
  /\ phase = "closed" => ~Asking

\* k is the newest change of e up to revision n.
LastChange(e, n, k) == k \in ChangesOf(e, n) /\ \A j \in ChangesOf(e, n) : j <= k

\* The copy of e is the owner's state of e at the revision s the copy has seen,
\* and above the last sync's revision n it remembers the removal that made it so.
IsStateSeen(copy, n, e, s) ==
  /\ s \in n..Len(log)
  /\ copy.held[e] = StateAt(e, s)
  /\ copy.removed[e] # 0 =>
       copy.removed[e] \in ChangesOf(e, s) /\ log[copy.removed[e]].kind = "removal"
  /\ s > n => /\ log[s].entity = e
              /\ log[s].kind = "removal" => copy.removed[e] = s

Seen == \A e \in Entities : IsStateSeen(Now, floor, e, seen[e])

HasAnswer == request = "served" \/ answered = "served"

\* A snapshot is newer than what the copy holds.
Fresh ==
  HasAnswer => floor <= snapshot /\ \A e \in Entities : seen[e] <= snapshot

\* What the copy has not seen above revision s of e is on its way, unless lost.
Comes(e, k) ==
  LET f == FamilyOf[e] IN
  k > published \/ k \in Range(inbox[f]) \/ k = hand[f] \/ k \in Range(pending)

Follows(e, s) ==
  FamilyOf[e] \notin dropped =>
    \A k \in ChangesOf(e, Len(log)) : k <= s \/ Comes(e, k)

Complete ==
  /\ phase = "live" => \A e \in Entities : Follows(e, seen[e])
  /\ HasAnswer /\ asked = generation => \A e \in Entities : Follows(e, snapshot)

\* The last change told of an entity is what the copy holds.
About(changes, i, e) ==
  changes[i].kind \in {"updated", "removed"} /\ changes[i].entity = e

Tells(changes, now, before) ==
  \A e \in Entities :
    /\ (\A i \in 1..Len(changes) : ~About(changes, i, e)) => before[e] = now[e]
    /\ \A i \in 1..Len(changes) :
         About(changes, i, e) /\ (\A j \in (i + 1)..Len(changes) : ~About(changes, j, e))
           => changes[i].revision = now[e]

Telling == phase # "closed" => Tells(telling, held, told)

SyncInv ==
  TypeOK /\ Published /\ Rounds /\ Seen /\ Fresh /\ Complete /\ Telling

-----------------------------------------------------------------------------
(* Numbers, sets and sequences.                                            *)

LEMMA LeastNat ==
  ASSUME NEW S \in SUBSET Nat, S # {}
  PROVE  \E n \in S : \A k \in S : n <= k
<1>1. PICK n \in S : \A k \in S : ~(<<k, n>> \in OpToRel(<, Nat))
  BY WFMin, NatLessThanWellFounded
<1>2. \A k \in S : ~(k < n)
  BY <1>1 DEF OpToRel
<1> QED BY <1>2

\* A set of numbers up to m has a greatest one, and Max finds it.
LEMMA MaxOfBounded ==
  ASSUME NEW m \in Nat, NEW S \in SUBSET (0..m), S # {}
  PROVE  Max(S) \in S /\ \A k \in S : k <= Max(S)
<1> DEFINE U == {b \in Nat : \A k \in S : k <= b}
<1>1. m \in U
  OBVIOUS
<1> HIDE DEF U
<1>2. PICK b \in U : \A c \in U : b <= c
  BY <1>1, LeastNat DEF U
<1>3. b \in Nat /\ \A k \in S : k <= b
  BY DEF U
<1>4. b \in S
  <2>1. SUFFICES ASSUME b \notin S PROVE FALSE
    OBVIOUS
  <2>2. \A k \in S : k <= b - 1
    BY <1>3, <2>1
  <2> PICK k \in S : TRUE
    OBVIOUS
  <2>a. k \in Nat /\ k <= b - 1
    BY <2>2
  <2>3. b - 1 \in Nat
    BY <1>3, <2>a
  <2> QED BY <1>2, <1>3, <2>2, <2>3 DEF U
<1>5. \E x \in S : \A y \in S : x >= y
  BY <1>3, <1>4
<1> QED BY <1>5 DEF Max

LEMMA MaxIs ==
  ASSUME NEW m \in Nat, NEW S \in SUBSET (0..m), NEW x \in S, \A k \in S : k <= x
  PROVE  Max(S) = x
<1>1. Max(S) \in S /\ x <= Max(S)
  BY MaxOfBounded
<1>2. Max(S) <= x
  BY <1>1
<1>3. Max(S) \in 0..m /\ x \in 0..m
  BY <1>1
<1> QED BY <1>1, <1>2, <1>3

\* SetToSeq lists each element of a finite set.
LEMMA SetToSeqLists ==
  ASSUME NEW S, IsFiniteSet(S)
  PROVE  /\ SetToSeq(S) \in Seq(S)
         /\ \A x \in S : \E i \in 1..Len(SetToSeq(S)) : SetToSeq(S)[i] = x
<1> DEFINE n == Cardinality(S)
<1>1. n \in Nat /\ ExistsBijection(1..n, S)
  BY FS_CardinalityType
<1>2. IsFiniteSet(1..n) /\ Cardinality(1..n) = n
  BY <1>1, FS_Interval
<1>3. \E f \in [1..n -> S] : IsInjective(f)
  BY <1>1 DEF ExistsBijection, Bijection, Injection, IsInjective
<1>4. SetToSeq(S) \in [1..n -> S] /\ IsInjective(SetToSeq(S))
  BY <1>3 DEF SetToSeq
<1>5. SetToSeq(S) \in Injection(1..n, S)
  BY <1>4 DEF Injection, IsInjective
<1>6. SetToSeq(S) \in Surjection(1..n, S)
  BY <1>1, <1>2, <1>5, FS_Injection
<1>7. \A x \in S : \E i \in 1..n : SetToSeq(S)[i] = x
  BY <1>6 DEF Surjection
<1> QED BY <1>1, <1>4, <1>7

\* What names entities of a bounded log is finite.
LEMMA NamedIsFinite ==
  ASSUME NEW n \in Nat, NEW g, NEW S, \A x \in S : \E k \in 1..n : x = g[k]
  PROVE  IsFiniteSet(S)
<1> DEFINE T == {g[k] : k \in 1..n}
          f == [k \in 1..n |-> g[k]]
<1>1. IsFiniteSet(1..n)
  BY FS_Interval
<1>2. f \in Surjection(1..n, T)
  BY DEF Surjection
<1>3. IsFiniteSet(T)
  BY <1>1, <1>2, FS_Surjection
<1>4. S \in SUBSET T
  OBVIOUS
<1> QED BY <1>3, <1>4, FS_Subset

-----------------------------------------------------------------------------
(* What the owner's state at a revision is.                                *)

Changes == [kind : {"state", "removal"}, entity : Entities]

LEMMA ChangeIs ==
  ASSUME log \in Seq(Changes), NEW k \in 1..Len(log)
  PROVE  log[k].kind \in {"state", "removal"} /\ log[k].entity \in Entities
<1>1. log[k] \in Changes
  OBVIOUS
<1> QED BY <1>1 DEF Changes

LEMMA ChangesOfIs ==
  ASSUME NEW e, NEW n \in Nat
  PROVE  /\ ChangesOf(e, n) \in SUBSET (0..n)
         /\ \A k : k \in ChangesOf(e, n) <=> k \in 1..n /\ log[k].entity = e
BY DEF ChangesOf

\* The state at revision n is what the last change up to n left.
LEMMA StateAtLast ==
  ASSUME NEW e, NEW n \in Nat, NEW k, LastChange(e, n, k)
  PROVE  StateAt(e, n) = IF log[k].kind = "state" THEN k ELSE 0
<1>1. k \in ChangesOf(e, n) /\ \A j \in ChangesOf(e, n) : j <= k
  BY DEF LastChange
<1>2. Max(ChangesOf(e, n)) = k
  BY <1>1, ChangesOfIs, MaxIs
<1> QED BY <1>1, <1>2 DEF StateAt

LEMMA LastExists ==
  ASSUME NEW e, NEW n \in Nat, ChangesOf(e, n) # {}
  PROVE  \E k : LastChange(e, n, k)
BY MaxOfBounded, ChangesOfIs DEF LastChange

\* A state, where there is one, is the last change.
LEMMA StateAtIsLast ==
  ASSUME NEW e, NEW n \in Nat
  PROVE  /\ StateAt(e, n) \in 0..n
         /\ StateAt(e, n) # 0 =>
              LastChange(e, n, StateAt(e, n)) /\ log[StateAt(e, n)].kind = "state"
<1>1. CASE ChangesOf(e, n) = {}
  BY <1>1 DEF StateAt
<1>2. CASE ChangesOf(e, n) # {}
  <2>1. PICK k : LastChange(e, n, k)
    BY <1>2, LastExists
  <2>2. k \in 1..n
    BY <2>1, ChangesOfIs DEF LastChange
  <2> QED BY <2>1, <2>2, StateAtLast
<1> QED BY <1>1, <1>2

\* No change in between, no other state.
LEMMA SameState ==
  ASSUME NEW e, NEW m \in Nat, NEW n \in Nat, m <= n,
         \A k \in ChangesOf(e, n) : k <= m
  PROVE  StateAt(e, m) = StateAt(e, n)
<1>1. ChangesOf(e, m) = ChangesOf(e, n)
  BY DEF ChangesOf
<1> QED BY <1>1 DEF StateAt

\* A change that appends to the log changes no earlier state.
LEMMA LogGrows ==
  ASSUME log \in Seq(Changes), UNCHANGED log \/ \E x \in Changes : log' = Append(log, x)
  PROVE  /\ log' \in Seq(Changes) /\ Len(log) <= Len(log')
         /\ \A k \in 1..Len(log) : log'[k] = log[k]
         /\ \A e \in Entities, n \in 0..Len(log) :
              ChangesOf(e, n)' = ChangesOf(e, n) /\ StateAt(e, n)' = StateAt(e, n)
<1>1. /\ log' \in Seq(Changes) /\ Len(log) <= Len(log')
      /\ \A k \in 1..Len(log) : log'[k] = log[k]
  OBVIOUS
<1>2. ASSUME NEW e \in Entities, NEW n \in 0..Len(log)
      PROVE  ChangesOf(e, n)' = ChangesOf(e, n) /\ StateAt(e, n)' = StateAt(e, n)
  <2>1. \A k \in 1..n : log'[k] = log[k]
    BY <1>1
  <2>2. ChangesOf(e, n)' = ChangesOf(e, n)
    BY <2>1 DEF ChangesOf
  <2>3. ASSUME ChangesOf(e, n) # {}
        PROVE  log'[Max(ChangesOf(e, n))] = log[Max(ChangesOf(e, n))]
    <3>1. n \in Nat
      OBVIOUS
    <3>2. Max(ChangesOf(e, n)) \in 1..n
      BY <2>3, <3>1, MaxOfBounded, ChangesOfIs
    <3> QED BY <2>1, <3>2
  <2>4. CASE ChangesOf(e, n) = {}
    BY <2>2, <2>4 DEF StateAt
  <2>5. CASE ChangesOf(e, n) # {}
    <3> DEFINE k == Max(ChangesOf(e, n))
    <3>1. StateAt(e, n) = IF log[k].kind = "state" THEN k ELSE 0
      BY <2>5 DEF StateAt
    <3>2. StateAt(e, n)' = IF log'[k].kind = "state" THEN k ELSE 0
      BY <2>2, <2>5 DEF StateAt
    <3> QED BY <2>2, <2>3, <2>5, <3>1, <3>2
  <2> QED BY <2>2, <2>4, <2>5
<1> QED BY <1>1, <1>2

-----------------------------------------------------------------------------
(* What taking a message does to a copy.                                   *)

Told == [kind : {"updated", "removed"}, entity : Entities, revision : Revisions]
          \union [kind : {"synced", "done"}]

Copies == [held : [Entities -> Revisions], removed : [Entities -> Revisions],
           changes : Seq(Told)]

\* The revision of d a copy has seen once it took in a message.
SeenNow(s, rev, d) == IF log[rev].entity = d /\ s < rev THEN rev ELSE s

LEMMA TakeIsCopy ==
  ASSUME log \in Seq(Changes), Len(log) <= MaxRevision,
         NEW copy \in Copies, NEW rev \in 1..Len(log), NEW n \in Nat
  PROVE  TakeLive(copy, rev, n) \in Copies
<1> DEFINE e == log[rev].entity
<1>1. e \in Entities /\ rev \in Revisions /\ 0 \in Revisions
  <2>1. e \in Entities
    BY ChangeIs
  <2>2. rev \in Nat /\ rev <= MaxRevision /\ MaxRevision \in Nat
    OBVIOUS
  <2> QED BY <2>1, <2>2 DEF Revisions
<1>2. Updated(e, rev) \in Told /\ Dropped(e) \in Told
  BY <1>1 DEF Updated, Dropped, Told
<1> HIDE DEF e
<1>3. TakeState(copy, e, rev) \in Copies
  BY <1>1, <1>2 DEF TakeState, Copies
<1>4. TakeRemoval(copy, e, rev) \in Copies
  BY <1>1, <1>2 DEF TakeRemoval, Copies
<1> QED BY <1>3, <1>4 DEF TakeLive, Take, e

\* A message of another entity leaves a copy's record of d alone.
LEMMA TakeOther ==
  ASSUME NEW copy \in Copies, NEW rev, NEW n, NEW d \in Entities, log[rev].entity # d
  PROVE  /\ TakeLive(copy, rev, n).held[d] = copy.held[d]
         /\ TakeLive(copy, rev, n).removed[d] = copy.removed[d]
BY DEF TakeLive, Take, TakeState, TakeRemoval, Copies

\* Above the sync's revision the copy of e takes exactly what it has not seen.
LEMMA TakeOwn ==
  ASSUME log \in Seq(Changes), NEW copy \in Copies, NEW rev \in 1..Len(log), NEW n \in Nat,
         NEW e \in Entities, log[rev].entity = e, NEW s, IsStateSeen(copy, n, e, s)
  PROVE  IsStateSeen(TakeLive(copy, rev, n), n, e, SeenNow(s, rev, e))
<1> DEFINE h == copy.held[e]
          r == copy.removed[e]
<1>1. /\ s \in Nat /\ n <= s /\ s <= Len(log)
      /\ h = StateAt(e, s)
      /\ r # 0 => r \in ChangesOf(e, s) /\ log[r].kind = "removal"
      /\ s > n => log[s].entity = e /\ (log[s].kind = "removal" => r = s)
  BY DEF IsStateSeen
<1>2. h \in 0..s /\ r \in 0..s
  <2>1. h \in 0..s
    BY <1>1, StateAtIsLast
  <2>2. r \in Nat
    BY DEF Copies, Revisions
  <2> QED BY <1>1, <2>1, <2>2, ChangesOfIs
<1>3. log[rev].kind \in {"state", "removal"}
  BY ChangeIs
<1>4. CASE rev <= s
  <2>1. SeenNow(s, rev, e) = s
    BY <1>1, <1>4 DEF SeenNow
  <2>2. TakeLive(copy, rev, n) = copy
    <3>1. SUFFICES ASSUME n < rev PROVE Take(copy, rev) = copy
      BY <1>1 DEF TakeLive
    <3>2. LastChange(e, s, s)
      BY <1>1, <1>4, <3>1, ChangesOfIs DEF LastChange
    <3>3. h = IF log[s].kind = "state" THEN s ELSE 0
      BY <1>1, <3>2, StateAtLast
    <3>4. log[s].kind # "state" => r = s
      <4>1. s \in 1..Len(log)
        BY <1>1, <1>4, <3>1
      <4> QED BY <1>1, <1>4, <3>1, <4>1, ChangeIs
    <3>5. CASE log[rev].kind = "state"
      <4>1. ~Newer(copy, e, rev)
        BY <1>1, <1>4, <3>3, <3>4 DEF Newer
      <4> QED BY <3>5, <4>1 DEF Take, TakeState
    <3>6. CASE log[rev].kind = "removal"
      <4>1. IF h # 0 THEN h > rev ELSE r >= rev
        <5>1. CASE log[s].kind = "state"
          BY <1>1, <1>4, <3>3, <3>6, <5>1
        <5>2. CASE log[s].kind # "state"
          BY <1>1, <1>4, <3>3, <3>4, <5>2
        <5> QED BY <5>1, <5>2
      <4> QED BY <3>6, <4>1 DEF Take, TakeRemoval
    <3> QED BY <1>3, <3>5, <3>6
  <2> QED BY <2>1, <2>2
<1>5. CASE s < rev
  <2> DEFINE c == TakeLive(copy, rev, n)
  <2>1. SeenNow(s, rev, e) = rev /\ c = Take(copy, rev)
    BY <1>1, <1>5 DEF SeenNow, TakeLive
  <2>2. LastChange(e, rev, rev)
    BY ChangesOfIs DEF LastChange
  <2>3. StateAt(e, rev) = IF log[rev].kind = "state" THEN rev ELSE 0
    BY <2>2, StateAtLast
  <2>4. CASE log[rev].kind = "state"
    <3>1. Newer(copy, e, rev)
      BY <1>1, <1>2, <1>5 DEF Newer
    <3>2. c.held[e] = rev /\ c.removed[e] = 0
      BY <2>1, <2>4, <3>1 DEF Take, TakeState, Copies
    <3> QED BY <1>1, <1>5, <2>1, <2>3, <2>4, <3>2 DEF IsStateSeen
  <2>5. CASE log[rev].kind = "removal"
    <3>1. ~(IF h # 0 THEN h > rev ELSE r >= rev)
      BY <1>1, <1>2, <1>5
    <3>2. c.held[e] = 0 /\ c.removed[e] = rev
      BY <2>1, <2>5, <3>1 DEF Take, TakeRemoval, Copies
    <3>3. rev \in ChangesOf(e, rev)
      BY <2>2 DEF LastChange
    <3> QED BY <1>1, <1>5, <2>1, <2>3, <2>5, <3>2, <3>3 DEF IsStateSeen
  <2> QED BY <1>3, <2>4, <2>5
<1> QED BY <1>1, <1>4, <1>5

LEMMA TakeSeen ==
  ASSUME log \in Seq(Changes), NEW copy \in Copies, NEW rev \in 1..Len(log), NEW n \in Nat,
         NEW d \in Entities, NEW s, IsStateSeen(copy, n, d, s)
  PROVE  IsStateSeen(TakeLive(copy, rev, n), n, d, SeenNow(s, rev, d))
<1>1. CASE log[rev].entity = d
  BY <1>1, TakeOwn
<1>2. CASE log[rev].entity # d
  <2>1. SeenNow(s, rev, d) = s
    BY <1>2 DEF SeenNow
  <2>2. /\ TakeLive(copy, rev, n).held[d] = copy.held[d]
        /\ TakeLive(copy, rev, n).removed[d] = copy.removed[d]
    BY <1>2, TakeOther
  <2> QED BY <2>1, <2>2 DEF IsStateSeen
<1> QED BY <1>1, <1>2

-----------------------------------------------------------------------------
(* What is told of a copy's changes.                                       *)

\* More changes, if they say what has become of each entity they change.
LEMMA TellsMore ==
  ASSUME NEW c \in Seq(Told), NEW d \in Seq(Told), NEW now, NEW then, NEW before,
         Tells(c, now, before),
         \A i \in 1..Len(d), e \in Entities : About(d, i, e) => d[i].revision = then[e],
         \A e \in Entities : then[e] = now[e] \/ \E i \in 1..Len(d) : About(d, i, e)
  PROVE  Tells(c \o d, then, before)
<1> DEFINE cd == c \o d
<1>1. /\ Len(cd) = Len(c) + Len(d)
      /\ \A i \in 1..Len(c) : cd[i] = c[i]
      /\ \A i \in 1..Len(d) : Len(c) + i \in 1..Len(cd) /\ cd[Len(c) + i] = d[i]
      /\ Len(c) \in Nat /\ Len(d) \in Nat
  OBVIOUS
<1> HIDE DEF cd
<1> SUFFICES ASSUME NEW e \in Entities
             PROVE  /\ (\A i \in 1..Len(cd) : ~About(cd, i, e)) => before[e] = then[e]
                    /\ \A i \in 1..Len(cd) :
                         About(cd, i, e) /\ (\A j \in (i + 1)..Len(cd) : ~About(cd, j, e))
                           => cd[i].revision = then[e]
  BY DEF Tells, cd
<1>2. /\ \A i \in 1..Len(c) : About(cd, i, e) <=> About(c, i, e)
      /\ \A i \in 1..Len(d) : About(cd, Len(c) + i, e) <=> About(d, i, e)
  BY <1>1 DEF About
<1>3. ASSUME \A i \in 1..Len(cd) : ~About(cd, i, e)
      PROVE  before[e] = then[e]
  <2>1. \A i \in 1..Len(c) : ~About(c, i, e)
    BY <1>1, <1>2, <1>3
  <2>2. \A i \in 1..Len(d) : ~About(d, i, e)
    BY <1>1, <1>2, <1>3
  <2> QED BY <2>1, <2>2 DEF Tells
<1>4. ASSUME NEW i \in 1..Len(cd), About(cd, i, e),
             \A j \in (i + 1)..Len(cd) : ~About(cd, j, e)
      PROVE  cd[i].revision = then[e]
  <2>1. CASE i > Len(c)
    <3>1. PICK k \in 1..Len(d) : i = Len(c) + k
      <4>1. i - Len(c) \in 1..Len(d) /\ i = Len(c) + (i - Len(c))
        BY <1>1, <2>1
      <4> QED BY <4>1
    <3>2. About(d, k, e) /\ cd[i] = d[k]
      BY <1>1, <1>2, <1>4, <3>1
    <3> QED BY <3>2
  <2>2. CASE i <= Len(c)
    <3>1. i \in 1..Len(c) /\ About(c, i, e) /\ cd[i] = c[i]
      BY <1>1, <1>2, <1>4, <2>2
    <3>2. \A j \in (i + 1)..Len(c) : ~About(c, j, e)
      <4> TAKE j \in (i + 1)..Len(c)
      <4>1. j \in 1..Len(c) /\ j \in (i + 1)..Len(cd)
        BY <1>1
      <4> QED BY <1>2, <1>4, <4>1
    <3>3. \A k \in 1..Len(d) : ~About(d, k, e)
      <4> TAKE k \in 1..Len(d)
      <4>1. Len(c) + k \in (i + 1)..Len(cd)
        BY <1>1, <2>2
      <4> QED BY <1>2, <1>4, <4>1
    <3>4. then[e] = now[e]
      BY <3>3
    <3>5. c[i].revision = now[e]
      BY <3>1, <3>2 DEF Tells
    <3> QED BY <3>1, <3>4, <3>5
  <2> QED BY <1>1, <2>1, <2>2
<1> QED BY <1>3, <1>4

LEMMA TellsOne ==
  ASSUME NEW c \in Seq(Told), NEW x \in Told, NEW now, NEW then, NEW before,
         Tells(c, now, before), NEW e \in Entities,
         x.kind \in {"updated", "removed"}, x.entity = e, x.revision = then[e],
         \A d \in Entities \ {e} : then[d] = now[d]
  PROVE  Tells(Append(c, x), then, before)
<1> DEFINE one == <<x>>
<1>1. one \in Seq(Told) /\ Len(one) = 1 /\ one[1] = x
  OBVIOUS
<1>2. \A d \in Entities : About(one, 1, d) <=> d = e
  BY <1>1 DEF About
<1>3. \A i \in 1..Len(one), d \in Entities : About(one, i, d) => one[i].revision = then[d]
  BY <1>1, <1>2
<1>4. \A d \in Entities : then[d] = now[d] \/ \E i \in 1..Len(one) : About(one, i, d)
  BY <1>1, <1>2
<1>5. Append(c, x) = c \o one
  OBVIOUS
<1> HIDE DEF one
<1>6. Tells(c \o one, then, before)
  BY <1>1, <1>3, <1>4, TellsMore
<1> QED BY <1>5, <1>6

LEMMA TellsNothing ==
  ASSUME NEW c \in Seq(Told), NEW x \in [kind : {"synced", "done"}], NEW now, NEW before,
         Tells(c, now, before)
  PROVE  c \o <<x>> \in Seq(Told) /\ Tells(c \o <<x>>, now, before)
<1> DEFINE one == <<x>>
<1>1. one \in Seq(Told) /\ Len(one) = 1 /\ one[1] = x /\ x.kind \in {"synced", "done"}
  BY DEF Told
<1>2. \A i \in 1..Len(one), d \in Entities : ~About(one, i, d)
  BY <1>1 DEF About
<1> HIDE DEF one
<1>3. Tells(c \o one, now, before)
  BY <1>1, <1>2, TellsMore
<1>4. c \o one \in Seq(Told)
  BY <1>1
<1> QED BY <1>3, <1>4 DEF one

LEMMA TakeTells ==
  ASSUME log \in Seq(Changes), Len(log) <= MaxRevision,
         NEW copy \in Copies, NEW rev \in 1..Len(log), NEW n \in Nat,
         NEW before, Tells(copy.changes, copy.held, before)
  PROVE  Tells(TakeLive(copy, rev, n).changes, TakeLive(copy, rev, n).held, before)
<1> DEFINE e == log[rev].entity
          c == TakeLive(copy, rev, n)
<1>1. e \in Entities /\ log[rev].kind \in {"state", "removal"}
  BY ChangeIs
<1>2. rev \in Revisions /\ 0 \in Revisions
  <2>1. rev \in Nat /\ rev <= MaxRevision /\ MaxRevision \in Nat
    OBVIOUS
  <2> QED BY <2>1 DEF Revisions
<1>3. copy.changes \in Seq(Told) /\ copy.held \in [Entities -> Revisions]
  BY DEF Copies
<1>4. CASE c = copy
  BY <1>4
<1>5. CASE log[rev].kind = "state" /\ c # copy
  <2>1. /\ c.held = [copy.held EXCEPT ![e] = rev]
        /\ c.changes = Append(copy.changes, Updated(e, rev))
    BY <1>5 DEF TakeLive, Take, TakeState
  <2>2. Updated(e, rev) \in Told
    BY <1>1, <1>2 DEF Updated, Told
  <2>3. /\ Updated(e, rev).kind = "updated" /\ Updated(e, rev).entity = e
        /\ Updated(e, rev).revision = c.held[e]
    BY <1>1, <1>3, <2>1 DEF Updated
  <2>4. \A d \in Entities \ {e} : c.held[d] = copy.held[d]
    BY <1>3, <2>1
  <2> HIDE DEF e, c
  <2>5. Tells(Append(copy.changes, Updated(e, rev)), c.held, before)
    BY <1>1, <1>3, <2>2, <2>3, <2>4, TellsOne
  <2> QED BY <2>1, <2>5 DEF c
<1>6. CASE log[rev].kind = "removal" /\ c # copy
  <2>1. /\ c.held = [copy.held EXCEPT ![e] = 0]
        /\ c.changes = IF copy.held[e] = 0 THEN copy.changes
                       ELSE Append(copy.changes, Dropped(e))
    BY <1>6 DEF TakeLive, Take, TakeRemoval
  <2>2. CASE copy.held[e] = 0
    <3>1. c.held = copy.held /\ c.changes = copy.changes
      BY <1>1, <1>3, <2>1, <2>2
    <3> QED BY <3>1
  <2>3. CASE copy.held[e] # 0
    <3>2. Dropped(e) \in Told
      BY <1>1, <1>2 DEF Dropped, Told
    <3>3. /\ Dropped(e).kind = "removed" /\ Dropped(e).entity = e
          /\ Dropped(e).revision = c.held[e]
      BY <1>1, <1>3, <2>1 DEF Dropped
    <3>4. \A d \in Entities \ {e} : c.held[d] = copy.held[d]
      BY <1>3, <2>1
    <3> HIDE DEF e, c
    <3>5. Tells(Append(copy.changes, Dropped(e)), c.held, before)
      BY <1>1, <1>3, <3>2, <3>3, <3>4, TellsOne
    <3> QED BY <2>1, <2>3, <3>5 DEF c
  <2> QED BY <2>2, <2>3
<1> QED BY <1>1, <1>4, <1>5, <1>6

-----------------------------------------------------------------------------
(* A snapshot and its membership.                                          *)

LEMMA SnapshotTaken ==
  ASSUME log \in Seq(Changes), Len(log) <= MaxRevision,
         NEW n \in 0..Len(log), NEW copy \in Copies, NEW before,
         Tells(copy.changes, copy.held, before),
         NEW t, t = TakeSnapshot(copy, n)
  PROVE  t \in Copies /\ Tells(t.changes, t.held, before)
<1> DEFINE taken == {e \in Entities : Newer(copy, e, StateAt(e, n))}
          U == {Updated(e, StateAt(e, n)) : e \in taken}
          d == SetToSeq(U)
<1>1. /\ n \in Nat /\ n <= Len(log) /\ copy.changes \in Seq(Told)
      /\ copy.held \in [Entities -> Revisions] /\ copy.removed \in [Entities -> Revisions]
  BY DEF Copies
<1>2. t = [held    |-> [e \in Entities |-> IF e \in taken THEN StateAt(e, n) ELSE copy.held[e]],
           removed |-> [e \in Entities |-> IF e \in taken THEN 0 ELSE copy.removed[e]],
           changes |-> copy.changes \o d]
  BY DEF TakeSnapshot
<1>3. \A e \in Entities : StateAt(e, n) \in Revisions /\ StateAt(e, n) \in 0..n
  <2> TAKE e \in Entities
  <2>1. StateAt(e, n) \in 0..n
    BY <1>1, StateAtIsLast
  <2> QED BY <1>1, <2>1 DEF Revisions
<1>4. \A e \in taken : /\ StateAt(e, n) \in 1..n /\ log[StateAt(e, n)].entity = e
  <2> TAKE e \in taken
  <2>1. copy.held[e] \in Nat /\ copy.held[e] < StateAt(e, n)
    BY <1>1 DEF Newer, Revisions
  <2>2. StateAt(e, n) # 0
    BY <1>3, <2>1
  <2>3. LastChange(e, n, StateAt(e, n))
    BY <1>1, <2>2, StateAtIsLast
  <2> QED BY <1>1, <2>3, ChangesOfIs DEF LastChange
<1>5. IsFiniteSet(U)
  <2> DEFINE g == [k \in 1..n |-> Updated(log[k].entity, k)]
  <2>1. \A x \in U : \E k \in 1..n : x = g[k]
    BY <1>4
  <2> HIDE DEF g, U
  <2> QED BY <1>1, <2>1, NamedIsFinite
<1>6. U \subseteq Told
  BY <1>3 DEF Updated, Told
<1> HIDE DEF U
<1>7. d \in Seq(U) /\ \A x \in U : \E i \in 1..Len(d) : d[i] = x
  BY <1>5, SetToSeqLists
<1> HIDE DEF d
<1>8. d \in Seq(Told)
  BY <1>6, <1>7
<1>9. \A i \in 1..Len(d), e \in Entities :
         About(d, i, e) => e \in taken /\ d[i].revision = StateAt(e, n)
  <2> TAKE i \in 1..Len(d), e \in Entities
  <2>1. d[i] \in U
    BY <1>7
  <2>2. PICK x \in taken : d[i] = Updated(x, StateAt(x, n))
    BY <2>1 DEF U
  <2>3. d[i].entity = x /\ d[i].revision = StateAt(x, n)
    BY <2>2 DEF Updated
  <2> QED BY <2>3 DEF About
<1>10. \A e \in taken : \E i \in 1..Len(d) : About(d, i, e)
  <2> TAKE e \in taken
  <2>1. Updated(e, StateAt(e, n)) \in U
    BY DEF U
  <2>2. PICK i \in 1..Len(d) : d[i] = Updated(e, StateAt(e, n))
    BY <1>7, <2>1
  <2>3. About(d, i, e)
    BY <2>2 DEF About, Updated
  <2> QED BY <2>3
<1>11. /\ t.held \in [Entities -> Revisions] /\ t.removed \in [Entities -> Revisions]
       /\ \A e \in Entities : t.held[e] = IF e \in taken THEN StateAt(e, n) ELSE copy.held[e]
       /\ t.changes = copy.changes \o d
       /\ t = [held |-> t.held, removed |-> t.removed, changes |-> t.changes]
  <2>1. 0 \in Revisions
    BY DEF Revisions
  <2> HIDE DEF taken
  <2> QED BY <1>1, <1>2, <1>3, <2>1
<1>12. t \in Copies
  <2>1. t.changes \in Seq(Told)
    BY <1>1, <1>8, <1>11
  <2> QED BY <1>11, <2>1 DEF Copies
<1>13. \A i \in 1..Len(d), e \in Entities : About(d, i, e) => d[i].revision = t.held[e]
  BY <1>9, <1>11
<1>14. \A e \in Entities : t.held[e] = copy.held[e] \/ \E i \in 1..Len(d) : About(d, i, e)
  BY <1>10, <1>11
<1>15. Tells(copy.changes \o d, t.held, before)
  BY <1>1, <1>8, <1>13, <1>14, TellsMore
<1> QED BY <1>11, <1>12, <1>15

\* A copy that has seen nothing above n.
SeenBelow(copy, m, n, s) ==
  \A e \in Entities : s[e] <= n /\ IsStateSeen(copy, m, e, s[e])

\* After a snapshot newer than what the copy had seen and its membership, the
\* copy is the owner's state at that revision.
LEMMA SnapshotIsState ==
  ASSUME log \in Seq(Changes), Len(log) <= MaxRevision,
         NEW n \in 0..Len(log), NEW m \in Nat, NEW copy \in Copies, NEW before,
         Tells(copy.changes, copy.held, before),
         NEW s, SeenBelow(copy, m, n, s),
         NEW c, c = KeepMembers(TakeSnapshot(copy, n), n)
  PROVE  /\ c \in Copies /\ Tells(c.changes, c.held, before)
         /\ \A e \in Entities : c.held[e] = StateAt(e, n) /\ c.removed[e] = 0
<1>a. \A e \in Entities : s[e] <= n /\ IsStateSeen(copy, m, e, s[e])
  BY DEF SeenBelow
<1> USE <1>a
<1> DEFINE t == TakeSnapshot(copy, n)
          gone == Gone(t, n)
          D == {Dropped(e) : e \in gone}
          d == SetToSeq(D)
          taken == {e \in Entities : Newer(copy, e, StateAt(e, n))}
<1>1. t \in Copies /\ Tells(t.changes, t.held, before)
  BY SnapshotTaken
<1>2. \A e \in Entities :
        /\ t.held[e] = IF e \in taken THEN StateAt(e, n) ELSE copy.held[e]
        /\ t.removed[e] = IF e \in taken THEN 0 ELSE copy.removed[e]
  BY DEF TakeSnapshot
<1>3. /\ n \in Nat /\ n <= Len(log) /\ t.changes \in Seq(Told)
      /\ t.held \in [Entities -> Revisions] /\ t.removed \in [Entities -> Revisions]
  BY <1>1 DEF Copies
<1>4. c = [held    |-> [e \in Entities |-> IF e \in gone THEN 0 ELSE t.held[e]],
           removed |-> [e \in Entities |-> IF t.removed[e] <= n THEN 0 ELSE t.removed[e]],
           changes |-> t.changes \o d \o <<[kind |-> "synced"]>>]
  BY DEF KeepMembers
<1>5. \A e \in Entities : e \in gone <=> t.held[e] # 0 /\ t.held[e] <= n /\ StateAt(e, n) = 0
  BY DEF Gone
<1>6. gone \subseteq Entities
  BY DEF Gone
<1> HIDE DEF t, gone
\* What each entity was before.
<1>7. ASSUME NEW e \in Entities
      PROVE  /\ copy.held[e] \in 0..n /\ copy.removed[e] \in 0..n
             /\ copy.held[e] # 0 => copy.held[e] \in ChangesOf(e, n)
             /\ copy.removed[e] # 0 => /\ copy.removed[e] \in ChangesOf(e, n)
                                       /\ log[copy.removed[e]].kind = "removal"
  <2>1. /\ s[e] \in Nat /\ s[e] <= n /\ copy.held[e] = StateAt(e, s[e])
        /\ copy.removed[e] # 0 => /\ copy.removed[e] \in ChangesOf(e, s[e])
                                  /\ log[copy.removed[e]].kind = "removal"
    BY DEF IsStateSeen
  <2>2. copy.held[e] # 0 => copy.held[e] \in ChangesOf(e, s[e])
    BY <2>1, StateAtIsLast DEF LastChange
  <2>3. \A k \in ChangesOf(e, s[e]) : k \in 1..n /\ k \in ChangesOf(e, n)
    BY <1>3, <2>1, ChangesOfIs
  <2> QED BY <1>3, <2>1, <2>2, <2>3
<1>8. ASSUME NEW e \in Entities
      PROVE  /\ StateAt(e, n) # 0 => t.held[e] = StateAt(e, n)
             /\ StateAt(e, n) = 0 => t.held[e] = copy.held[e]
  <2> DEFINE k == StateAt(e, n)
  <2>1. k \in 0..n /\ (k # 0 => LastChange(e, n, k) /\ log[k].kind = "state")
    BY <1>3, StateAtIsLast
  <2> HIDE DEF k
  <2>2. CASE k # 0 /\ ~Newer(copy, e, k)
    <3>1. k \in ChangesOf(e, n) /\ \A j \in ChangesOf(e, n) : j <= k
      BY <2>1, <2>2 DEF LastChange
    <3>2. copy.held[e] >= k \/ copy.removed[e] >= k
      BY <1>3, <1>7, <2>1, <2>2 DEF Newer
    <3>3. CASE copy.held[e] >= k
      <4>1. copy.held[e] = k
        BY <1>3, <1>7, <2>1, <2>2, <3>1, <3>3
      <4> QED BY <1>2, <2>2, <4>1 DEF k
    <3>4. CASE copy.removed[e] >= k
      <4>1. copy.removed[e] = k
        BY <1>3, <1>7, <2>1, <2>2, <3>1, <3>4
      <4> QED BY <1>7, <2>1, <2>2, <4>1
    <3> QED BY <3>2, <3>3, <3>4
  <2>3. CASE k # 0 /\ Newer(copy, e, k)
    BY <1>2, <2>3 DEF k
  <2>4. CASE k = 0
    <3>1. ~Newer(copy, e, k)
      BY <1>7, <2>4 DEF Newer
    <3> QED BY <1>2, <2>4, <3>1 DEF k
  <2> QED BY <2>2, <2>3, <2>4 DEF k
<1>9. \A e \in Entities : t.removed[e] <= n
  BY <1>2, <1>3, <1>7
<1> HIDE DEF taken
<1>10. \A e \in Entities : c.held[e] = StateAt(e, n) /\ c.removed[e] = 0
  <2> TAKE e \in Entities
  <2>1. c.held[e] = IF e \in gone THEN 0 ELSE t.held[e]
    BY <1>4
  <2>2. c.removed[e] = 0
    BY <1>4, <1>9
  <2> QED BY <1>5, <1>7, <1>8, <2>1, <2>2
<1>11. IsFiniteSet(D)
  <2> DEFINE g == [k \in 1..n |-> Dropped(log[k].entity)]
  <2>1. \A x \in D : \E k \in 1..n : x = g[k]
    <3> TAKE x \in D
    <3>1. PICK e \in gone : x = Dropped(e)
      OBVIOUS
    <3>2. copy.held[e] \in ChangesOf(e, n)
      BY <1>5, <1>6, <1>7, <1>8
    <3>3. copy.held[e] \in 1..n /\ log[copy.held[e]].entity = e
      BY <1>3, <3>2, ChangesOfIs
    <3> QED BY <3>1, <3>3
  <2> HIDE DEF g, D
  <2> QED BY <1>3, <2>1, NamedIsFinite
<1>12. D \subseteq Told
  BY <1>6 DEF Dropped, Told, Revisions
<1> HIDE DEF D
<1>13. d \in Seq(D) /\ \A x \in D : \E i \in 1..Len(d) : d[i] = x
  BY <1>11, SetToSeqLists
<1> HIDE DEF d
<1>14. d \in Seq(Told)
  BY <1>12, <1>13
<1>15. \A i \in 1..Len(d), e \in Entities : About(d, i, e) => d[i].revision = c.held[e]
  <2> TAKE i \in 1..Len(d), e \in Entities
  <2>1. d[i] \in D
    BY <1>13
  <2>2. PICK x \in gone : d[i] = Dropped(x)
    BY <2>1 DEF D
  <2>3. d[i].entity = x /\ d[i].revision = 0
    BY <2>2 DEF Dropped
  <2>4. c.held[x] = 0
    BY <1>5, <1>6, <1>10
  <2> QED BY <2>3, <2>4 DEF About
<1>16. \A e \in Entities : c.held[e] = t.held[e] \/ \E i \in 1..Len(d) : About(d, i, e)
  <2> TAKE e \in Entities
  <2>1. CASE e \notin gone
    BY <1>4, <2>1
  <2>2. CASE e \in gone
    <3>1. Dropped(e) \in D
      BY <2>2 DEF D
    <3>2. PICK i \in 1..Len(d) : d[i] = Dropped(e)
      BY <1>13, <3>1
    <3>3. About(d, i, e)
      BY <3>2 DEF About, Dropped
    <3> QED BY <3>3
  <2> QED BY <2>1, <2>2
<1>17. Tells(t.changes \o d, c.held, before)
  BY <1>1, <1>3, <1>14, <1>15, <1>16, TellsMore
<1>18. t.changes \o d \in Seq(Told)
  BY <1>3, <1>14
<1>19. /\ t.changes \o d \o <<[kind |-> "synced"]>> \in Seq(Told)
       /\ Tells(t.changes \o d \o <<[kind |-> "synced"]>>, c.held, before)
  BY <1>17, <1>18, TellsNothing
<1>20. /\ c.held \in [Entities -> Revisions] /\ c.removed \in [Entities -> Revisions]
       /\ c.changes = t.changes \o d \o <<[kind |-> "synced"]>>
       /\ c = [held |-> c.held, removed |-> c.removed, changes |-> c.changes]
  <2>1. 0 \in Revisions
    BY DEF Revisions
  <2> QED BY <1>3, <1>4, <2>1
<1>21. c \in Copies
  BY <1>19, <1>20 DEF Copies
<1> QED BY <1>10, <1>19, <1>20, <1>21

-----------------------------------------------------------------------------
(* The buffered messages, by their number.                                 *)

\* The copies between one message and the next.
StagesOf(stage, copy, revs, n, i) ==
  stage = [j \in 0..i |-> IF j = 0 THEN copy ELSE TakeLive(stage[j - 1], revs[j], n)]

LEMMA StagesExist ==
  ASSUME NEW copy, NEW revs, NEW n, NEW m \in Nat
  PROVE  \E stage : StagesOf(stage, copy, revs, n, m)
<1> DEFINE T == {i \in Nat : ~ \E stage : StagesOf(stage, copy, revs, n, i)}
<1>1. SUFFICES ASSUME T # {} PROVE FALSE
  OBVIOUS
<1> HIDE DEF T
<1>2. PICK i \in T : \A k \in T : i <= k
  BY <1>1, LeastNat DEF T
<1>3. i \in Nat /\ ~ \E stage : StagesOf(stage, copy, revs, n, i)
  BY DEF T
<1>4. CASE i = 0
  <2> DEFINE g == [j \in 0..i |-> copy]
  <2>1. g = [j \in 0..i |-> IF j = 0 THEN copy ELSE TakeLive(g[j - 1], revs[j], n)]
    BY <1>4
  <2>2. StagesOf(g, copy, revs, n, i)
    BY <2>1 DEF StagesOf
  <2> QED BY <1>3, <2>2
<1>5. CASE i # 0
  <2>1. i - 1 \in Nat /\ i - 1 \notin T
    BY <1>2, <1>3, <1>5
  <2>2. PICK f : StagesOf(f, copy, revs, n, i - 1)
    BY <2>1 DEF T
  <2>3. f = [j \in 0..(i - 1) |-> IF j = 0 THEN copy ELSE TakeLive(f[j - 1], revs[j], n)]
    BY <2>2 DEF StagesOf
  <2> DEFINE g == [j \in 0..i |-> IF j = i THEN TakeLive(f[i - 1], revs[i], n) ELSE f[j]]
  <2>4. \A j \in 0..i : g[j] = IF j = 0 THEN copy ELSE TakeLive(g[j - 1], revs[j], n)
    <3> TAKE j \in 0..i
    <3>1. CASE j = i
      <4>1. i - 1 \in 0..i /\ i - 1 # i
        BY <1>3, <2>1
      <4>2. g[i - 1] = f[i - 1]
        BY <4>1
      <4> QED BY <1>5, <3>1, <4>2
    <3>2. CASE j # i
      <4>1. j \in 0..(i - 1)
        BY <1>3, <3>2
      <4>2. f[j] = IF j = 0 THEN copy ELSE TakeLive(f[j - 1], revs[j], n)
        BY <2>3, <4>1
      <4>3. j # 0 => j - 1 \in 0..i /\ j - 1 # i
        BY <1>3, <4>1
      <4>4. g[j] = f[j] /\ (j # 0 => g[j - 1] = f[j - 1])
        BY <3>2, <4>3
      <4> QED BY <4>2, <4>4
    <3> QED BY <3>1, <3>2
  <2>5. StagesOf(g, copy, revs, n, i)
    BY <2>4 DEF StagesOf
  <2> QED BY <1>3, <2>5
<1> QED BY <1>4, <1>5

\* The stages of TakeAll, one after the other.
Taking(stage, copy, revs, n) ==
  /\ stage[0] = copy
  /\ \A i \in 1..Len(revs) : stage[i] = TakeLive(stage[i - 1], revs[i], n)
  /\ TakeAll(copy, revs, n) = stage[Len(revs)]

LEMMA TakeAllStages ==
  ASSUME NEW copy, NEW revs, Len(revs) \in Nat, NEW n
  PROVE  \E stage : Taking(stage, copy, revs, n)
<1> DEFINE F == CHOOSE stage : stage = [i \in 0..Len(revs) |->
                  IF i = 0 THEN copy ELSE TakeLive(stage[i - 1], revs[i], n)]
<1>1. Len(revs) \in Nat
  OBVIOUS
<1>2. F = [i \in 0..Len(revs) |-> IF i = 0 THEN copy ELSE TakeLive(F[i - 1], revs[i], n)]
  <2>1. \E stage : StagesOf(stage, copy, revs, n, Len(revs))
    BY <1>1, StagesExist
  <2>2. \E stage : stage = [i \in 0..Len(revs) |->
                   IF i = 0 THEN copy ELSE TakeLive(stage[i - 1], revs[i], n)]
    BY <2>1 DEF StagesOf
  <2> QED BY <2>2
<1>3. TakeAll(copy, revs, n) = F[Len(revs)]
  BY DEF TakeAll
<1> HIDE DEF F
<1>4. F[0] = copy
  BY <1>1, <1>2
<1>5. \A i \in 1..Len(revs) : F[i] = TakeLive(F[i - 1], revs[i], n)
  <2> TAKE i \in 1..Len(revs)
  <2>1. i \in 0..Len(revs) /\ i # 0
    BY <1>1
  <2> QED BY <1>2, <2>1
<1>6. Taking(F, copy, revs, n)
  BY <1>3, <1>4, <1>5 DEF Taking
<1> QED BY <1>6

\* What has been seen of d after the first i messages, from s on.
SeenUpTo(s, revs, i, d) == {s} \union {revs[j] : j \in {k \in 1..i : log[revs[k]].entity = d}}

IsNewest(x, S) == x \in S /\ \A y \in S : y <= x

\* One message after the other: the copy stays a state of what it has seen, and
\* the changes to tell stay those of the copy.
GoodStage(copy, revs, i, n, s, before) ==
  /\ copy \in Copies
  /\ Tells(copy.changes, copy.held, before)
  /\ \A d \in Entities : \E x : IsNewest(x, SeenUpTo(s, revs, i, d)) /\ IsStateSeen(copy, n, d, x)

LEMMA NextStage ==
  ASSUME log \in Seq(Changes), Len(log) <= MaxRevision,
         NEW revs \in Seq(1..Len(log)), NEW i \in 1..Len(revs), NEW n \in Nat, NEW s \in Nat,
         NEW before, NEW copy, GoodStage(copy, revs, i - 1, n, s, before)
  PROVE  GoodStage(TakeLive(copy, revs[i], n), revs, i, n, s, before)
<1> DEFINE rev == revs[i]
          c == TakeLive(copy, rev, n)
<1>1. rev \in 1..Len(log) /\ i \in Nat /\ i - 1 \in Nat
  OBVIOUS
<1>2. copy \in Copies /\ Tells(copy.changes, copy.held, before)
  BY DEF GoodStage
<1>3. c \in Copies
  BY <1>1, <1>2, TakeIsCopy
<1>4. Tells(c.changes, c.held, before)
  BY <1>1, <1>2, TakeTells
<1> HIDE DEF c, rev
<1>5. ASSUME NEW d \in Entities
      PROVE  \E x : IsNewest(x, SeenUpTo(s, revs, i, d)) /\ IsStateSeen(c, n, d, x)
  <2>1. PICK x : IsNewest(x, SeenUpTo(s, revs, i - 1, d)) /\ IsStateSeen(copy, n, d, x)
    BY DEF GoodStage
  <2>2. IsStateSeen(c, n, d, SeenNow(x, rev, d))
    BY <1>1, <1>2, <2>1, TakeSeen DEF c
  <2>3. SeenUpTo(s, revs, i, d) = SeenUpTo(s, revs, i - 1, d)
                                    \union {y \in {rev} : log[rev].entity = d}
    <3>1. \A k : k \in 1..i <=> k \in 1..(i - 1) \/ k = i
      BY <1>1
    <3> QED BY <3>1 DEF SeenUpTo, rev
  <2>4. x \in Nat
    <3>1. SeenUpTo(s, revs, i - 1, d) \subseteq Nat
      <4>1. \A j \in 1..(i - 1) : j \in 1..Len(revs) /\ revs[j] \in Nat
        BY <1>1
      <4> QED BY <4>1 DEF SeenUpTo
    <3> QED BY <2>1, <3>1 DEF IsNewest
  <2>5. IsNewest(SeenNow(x, rev, d), SeenUpTo(s, revs, i, d))
    <3>1. \A y \in SeenUpTo(s, revs, i - 1, d) : y <= x /\ y \in Nat
      <4>1. \A j \in 1..(i - 1) : j \in 1..Len(revs) /\ revs[j] \in Nat
        BY <1>1
      <4> QED BY <2>1, <4>1 DEF IsNewest, SeenUpTo
    <3>2. x \in SeenUpTo(s, revs, i - 1, d)
      BY <2>1 DEF IsNewest
    <3>3. CASE log[rev].entity = d /\ x < rev
      BY <1>1, <2>3, <2>4, <3>1, <3>3 DEF IsNewest, SeenNow
    <3>4. CASE ~(log[rev].entity = d /\ x < rev)
      BY <1>1, <2>3, <2>4, <3>1, <3>2, <3>4 DEF IsNewest, SeenNow
    <3> QED BY <3>3, <3>4
  <2> QED BY <2>2, <2>5
<1> QED BY <1>3, <1>4, <1>5 DEF GoodStage, c, rev

LEMMA TakeAllGood ==
  ASSUME log \in Seq(Changes), Len(log) <= MaxRevision,
         NEW revs \in Seq(1..Len(log)), NEW n \in Nat, NEW s \in Nat,
         NEW before, NEW copy, GoodStage(copy, revs, 0, n, s, before)
  PROVE  GoodStage(TakeAll(copy, revs, n), revs, Len(revs), n, s, before)
<1>a. PICK stage : Taking(stage, copy, revs, n)
  <2>1. Len(revs) \in Nat
    OBVIOUS
  <2> QED BY <2>1, TakeAllStages
<1>1. /\ stage[0] = copy
      /\ \A i \in 1..Len(revs) : stage[i] = TakeLive(stage[i - 1], revs[i], n)
      /\ TakeAll(copy, revs, n) = stage[Len(revs)]
  BY <1>a DEF Taking
<1> DEFINE T == {i \in 0..Len(revs) : ~GoodStage(stage[i], revs, i, n, s, before)}
<1>2. SUFFICES ASSUME T # {} PROVE FALSE
  <2>1. Len(revs) \in 0..Len(revs)
    OBVIOUS
  <2> QED BY <1>1, <2>1
<1>3. T \in SUBSET Nat
  OBVIOUS
<1> HIDE DEF T
<1>4. PICK i \in T : \A k \in T : i <= k
  BY <1>2, <1>3, LeastNat
<1>5. i \in 0..Len(revs) /\ ~GoodStage(stage[i], revs, i, n, s, before)
  BY DEF T
<1>6. i # 0
  BY <1>1, <1>5
<1>7. i \in 1..Len(revs) /\ i - 1 \in 0..Len(revs) /\ i - 1 \notin T
  BY <1>3, <1>4, <1>5, <1>6
<1>8. GoodStage(stage[i - 1], revs, i - 1, n, s, before)
  BY <1>7 DEF T
<1>9. GoodStage(stage[i], revs, i, n, s, before)
  BY <1>1, <1>7, <1>8, NextStage
<1> QED BY <1>5, <1>9

-----------------------------------------------------------------------------
(* What a step keeps that leaves a part of the state alone.                *)

LEMMA LogTyped ==
  ASSUME TypeOK
  PROVE  log \in Seq(Changes)
BY DEF TypeOK, Changes

LEMMA SeqWidens ==
  ASSUME NEW m \in Nat, NEW n \in Nat, m <= n, NEW q \in Seq(1..m)
  PROVE  q \in Seq(1..n)
<1>1. \A i \in 1..Len(q) : q[i] \in 1..n
  BY m <= n
<1> QED BY <1>1

LEMMA HeadAndTail ==
  ASSUME NEW S, NEW q \in Seq(S), q # <<>>
  PROVE  Head(q) \in S /\ Tail(q) \in Seq(S) /\ Len(q) \in Nat \ {0}
OBVIOUS

LEMMA HeadOrTail ==
  ASSUME NEW S, NEW q \in Seq(S), NEW k \in Range(q)
  PROVE  k = Head(q) \/ k \in Range(Tail(q))
<1>1. DOMAIN q = 1..Len(q) /\ Len(q) \in Nat
  OBVIOUS
<1>2. PICK i \in 1..Len(q) : k = q[i]
  BY <1>1 DEF Range
<1>3. CASE i = 1
  BY <1>2, <1>3
<1>4. CASE i # 1
  <2>1. Tail(q) \in Seq(S) /\ Len(Tail(q)) = Len(q) - 1
    BY <1>1, <1>2
  <2>2. i - 1 \in 1..Len(Tail(q)) /\ (i - 1) + 1 = i
    BY <1>1, <1>4, <2>1
  <2>3. Tail(q)[i - 1] = k
    BY <1>1, <1>2, <2>1, <2>2
  <2>4. DOMAIN Tail(q) = 1..Len(Tail(q))
    BY <2>1
  <2> QED BY <2>2, <2>3, <2>4 DEF Range
<1> QED BY <1>3, <1>4

LogStep == UNCHANGED log \/ \E x \in Changes : log' = Append(log, x)

LEMMA SeenKept ==
  ASSUME SyncInv, UNCHANGED dataVars, LogStep
  PROVE  Seen'
<1>1. log \in Seq(Changes)
  BY LogTyped DEF SyncInv
<1>2. /\ Len(log) \in Nat /\ Len(log') \in Nat /\ Len(log) <= Len(log')
      /\ \A k \in 1..Len(log) : log'[k] = log[k]
      /\ \A e \in Entities, n \in 0..Len(log) :
           ChangesOf(e, n)' = ChangesOf(e, n) /\ StateAt(e, n)' = StateAt(e, n)
  BY <1>1, LogGrows DEF LogStep
<1>3. ASSUME NEW e \in Entities
      PROVE  IsStateSeen(Now, floor, e, seen[e])'
  <2> DEFINE s == seen[e]
            r == removed[e]
  <2>1. IsStateSeen(Now, floor, e, s)
    BY DEF SyncInv, Seen
  <2>2. floor \in Nat /\ s \in 0..Len(log) /\ s \in Nat
    BY <1>2, <2>1 DEF IsStateSeen, SyncInv, TypeOK, Revisions
  <2>3. /\ s \in floor..Len(log)
        /\ held[e] = StateAt(e, s)
        /\ r # 0 => r \in ChangesOf(e, s) /\ log[r].kind = "removal"
        /\ s > floor => log[s].entity = e /\ (log[s].kind = "removal" => r = s)
    BY <2>1 DEF IsStateSeen, Now
  <2>4. PICK t \in 0..Len(log) : t = s
    BY <2>2
  <2>5. ChangesOf(e, t)' = ChangesOf(e, t) /\ StateAt(e, t)' = StateAt(e, t)
    BY <1>2, <2>4
  <2>6. PICK u : u = r
    OBVIOUS
  <2>7. u # 0 => u \in 1..Len(log) /\ u \in ChangesOf(e, t)
    BY <1>2, <2>3, <2>4, <2>6, ChangesOfIs
  <2>8. t > floor => t \in 1..Len(log)
    BY <2>2, <2>4
  <2>9. seen'[e] = t /\ removed'[e] = u /\ held'[e] = held[e] /\ floor' = floor
    BY <2>4, <2>6 DEF dataVars
  <2>10. /\ t \in floor'..Len(log')
         /\ held'[e] = StateAt(e, t)'
         /\ u # 0 => u \in ChangesOf(e, t)' /\ log'[u].kind = "removal"
         /\ t > floor' => log'[t].entity = e /\ (log'[t].kind = "removal" => u = t)
    BY <1>2, <2>2, <2>3, <2>4, <2>5, <2>6, <2>7, <2>8, <2>9
  <2>11. IsStateSeen(Now, floor, e, t)'
    BY <2>9, <2>10 DEF IsStateSeen, Now
  <2> QED BY <2>9, <2>11
<1> QED BY <1>3 DEF Seen

\* Messages in the copy's families stay on their way, or their loss is known.
ComesOn ==
  \A e \in Entities : FamilyOf[e] \notin dropped' =>
    /\ FamilyOf[e] \notin dropped
    /\ \A k \in 1..Len(log') : log'[k].entity = e =>
         \/ k \in 1..Len(log) /\ log[k].entity = e /\ ~Comes(e, k)
         \/ Comes(e, k)'

LEMMA CompleteKept ==
  ASSUME SyncInv, ComesOn, UNCHANGED seen,
         phase' = "live" => phase = "live",
         HasAnswer' /\ asked' = generation' =>
           HasAnswer /\ asked = generation /\ snapshot' = snapshot
  PROVE  Complete'
<1>1. ASSUME NEW e \in Entities, FamilyOf[e] \notin dropped',
             NEW k \in 1..Len(log'), log'[k].entity = e, NEW s, Follows(e, s)
      PROVE  k <= s \/ Comes(e, k)'
  <2>1. CASE Comes(e, k)'
    BY <2>1
  <2>2. CASE k \in 1..Len(log) /\ log[k].entity = e /\ ~Comes(e, k)
    <3>1. k \in ChangesOf(e, Len(log))
      BY <2>2 DEF ChangesOf
    <3> QED BY <1>1, <2>2, <3>1 DEF Follows, ComesOn
  <2> QED BY <1>1, <2>1, <2>2 DEF ComesOn
<1>2. phase' = "live" => \A e \in Entities : Follows(e, seen[e])'
  <2> SUFFICES ASSUME phase' = "live", NEW e \in Entities, FamilyOf[e] \notin dropped',
                      NEW k \in 1..Len(log'), log'[k].entity = e
               PROVE  k <= seen'[e] \/ Comes(e, k)'
    BY DEF Follows, ChangesOf
  <2>1. Follows(e, seen[e])
    BY DEF SyncInv, Complete
  <2> QED BY <1>1, <2>1
<1>3. HasAnswer' /\ asked' = generation' => \A e \in Entities : Follows(e, snapshot)'
  <2> SUFFICES ASSUME HasAnswer', asked' = generation', NEW e \in Entities,
                      FamilyOf[e] \notin dropped',
                      NEW k \in 1..Len(log'), log'[k].entity = e
               PROVE  k <= snapshot' \/ Comes(e, k)'
    BY DEF Follows, ChangesOf
  <2>1. Follows(e, snapshot) /\ snapshot' = snapshot
    BY DEF SyncInv, Complete
  <2> QED BY <1>1, <2>1
<1> QED BY <1>2, <1>3 DEF Complete

\* Nothing is new, and what was on its way still is.
LEMMA ComesOnQuiet ==
  ASSUME UNCHANGED <<log, feedVars, pending>>, published' <= published,
         published \in Nat, published' \in Nat, Len(log) \in Nat
  PROVE  ComesOn
<1>1. ASSUME NEW e \in Entities, NEW k \in 1..Len(log), Comes(e, k)
      PROVE  Comes(e, k)'
  BY <1>1 DEF Comes, feedVars
<1> QED BY <1>1 DEF ComesOn, feedVars

LEMMA TellingKept ==
  ASSUME SyncInv, UNCHANGED <<telling, held, told>>, phase' # "closed" => phase # "closed"
  PROVE  Telling'
BY DEF SyncInv, Telling, Tells, About

-----------------------------------------------------------------------------
(* The owner and the feed.                                                 *)

LEMMA Facts ==
  ASSUME SyncInv
  PROVE  /\ log \in Seq(Changes) /\ Len(log) \in Nat /\ Len(log) <= MaxRevision
         /\ published \in Nat /\ floor \in Nat /\ snapshot \in Nat /\ generation \in Nat
         /\ \A f \in Families : Len(inbox[f]) \in Nat
BY LogTyped DEF SyncInv, Published, TypeOK, Revisions

LEMMA ChangeInv ==
  ASSUME SyncInv, NEW e \in Entities, NEW kind \in {"state", "removal"}, Change(e, kind)
  PROVE  SyncInv'
<1> DEFINE x == [kind |-> kind, entity |-> e]
<1>1. x \in Changes /\ log' = Append(log, x)
  BY DEF Change, Changes
<1> HIDE DEF x
<1>2. Len(log') = Len(log) + 1 /\ Len(log) < MaxRevision
  BY <1>1, Facts DEF Change
<1>3. LogStep
  BY <1>1 DEF LogStep
<1>4. TypeOK'
  <2>1. log' \in Seq(Changes)
    BY <1>1, Facts
  <2> QED BY <2>1 DEF SyncInv, TypeOK, Change, Changes, feedVars, dataVars, askVars
<1>5. Published'
  <2>1. \A q : q \in Seq(1..Len(log)) => q \in Seq(1..Len(log'))
    BY <1>2, Facts, SeqWidens
  <2>2. \A h : h \in 0..Len(log) => h \in 0..Len(log')
    BY <1>2, Facts
  <2> QED BY <1>2, <2>1, <2>2, Facts
       DEF SyncInv, Published, Change, feedVars, dataVars, askVars
<1>6. Rounds'
  BY DEF SyncInv, Rounds, Asking, Change, askVars
<1>7. Seen'
  BY <1>3, SeenKept DEF Change
<1>8. Fresh'
  BY DEF SyncInv, Fresh, HasAnswer, Change, askVars, dataVars
<1>9. ComesOn
  <2>1. ASSUME NEW k \in 1..Len(log'), k \notin 1..Len(log), NEW d \in Entities
        PROVE  Comes(d, k)'
    BY <1>2, <2>1, Facts DEF Comes, Change, SyncInv, Published
  <2>2. \A k \in 1..Len(log) : log'[k] = log[k]
    BY <1>1, Facts
  <2>3. ASSUME NEW k, NEW d \in Entities, Comes(d, k)
        PROVE  Comes(d, k)'
    BY <2>3 DEF Comes, Change, feedVars
  <2> QED BY <2>1, <2>2, <2>3 DEF ComesOn, Change, feedVars
<1>10. Complete'
  BY <1>9, CompleteKept DEF Change, HasAnswer, askVars, dataVars
<1>11. Telling'
  BY TellingKept DEF Change, dataVars
<1> QED BY <1>4, <1>5, <1>6, <1>7, <1>8, <1>10, <1>11 DEF SyncInv

LEMMA PublishInv ==
  ASSUME SyncInv, Publish
  PROVE  SyncInv'
<1> DEFINE rev == published + 1
          f == FamilyOf[log[rev].entity]
<1>1. rev \in 1..Len(log) /\ published' = rev /\ log' = log
  BY Facts DEF Publish
<1>2. log[rev].entity \in Entities /\ f \in Families
  BY <1>1, Facts, ChangeIs
<1>3. /\ \/ f \notin subscribed /\ UNCHANGED <<inbox, dropped>>
         \/ inbox' = [inbox EXCEPT ![f] = Append(@, rev)] /\ UNCHANGED dropped
            /\ Len(inbox[f]) < MaxQueued
         \/ dropped' = dropped \union {f} /\ UNCHANGED inbox
      /\ UNCHANGED <<log, again, hand, subscribed, phase, dataVars, pending,
                     generation, wanted, askVars, telling, first, told>>
  BY DEF Publish
<1>4. rev \in Revisions
  BY <1>1, Facts DEF Revisions
<1>5. inbox \in [Families -> Seq(Revisions)] /\ \A g \in Families : inbox[g] \in Seq(1..Len(log))
  BY DEF SyncInv, TypeOK, Published
<1> HIDE DEF rev, f
<1>6. /\ inbox' \in [Families -> Seq(Revisions)]
      /\ \A g \in Families : inbox'[g] \in Seq(1..Len(log))
      /\ \A g \in Families : Range(inbox[g]) \subseteq Range(inbox'[g])
      /\ dropped \subseteq dropped' /\ dropped' \subseteq Families
  <2>1. CASE UNCHANGED <<inbox, dropped>>
    BY <1>5, <2>1 DEF SyncInv, TypeOK
  <2>2. CASE dropped' = dropped \union {f} /\ UNCHANGED inbox
    BY <1>2, <1>5, <2>2 DEF SyncInv, TypeOK
  <2>3. CASE inbox' = [inbox EXCEPT ![f] = Append(@, rev)] /\ UNCHANGED dropped
    <3>1. \A g \in Families : inbox'[g] = IF g = f THEN Append(inbox[g], rev) ELSE inbox[g]
      BY <1>5, <2>3
    <3>2. \A g \in Families : Append(inbox[g], rev) \in Seq(1..Len(log))
                              /\ Append(inbox[g], rev) \in Seq(Revisions)
      BY <1>1, <1>4, <1>5
    <3>3. \A g \in Families : Range(inbox[g]) \subseteq Range(Append(inbox[g], rev))
      <4> TAKE g \in Families
      <4>1. \A i \in 1..Len(inbox[g]) : i \in 1..(Len(inbox[g]) + 1)
                                        /\ Append(inbox[g], rev)[i] = inbox[g][i]
        BY <1>5
      <4>2. DOMAIN inbox[g] = 1..Len(inbox[g])
            /\ DOMAIN Append(inbox[g], rev) = 1..(Len(inbox[g]) + 1)
        BY <1>5
      <4> QED BY <4>1, <4>2 DEF Range
    <3>4. inbox' \in [Families -> Seq(Revisions)]
      BY <1>5, <2>3, <3>2
    <3>5. \A g \in Families : /\ inbox'[g] \in Seq(1..Len(log))
                             /\ Range(inbox[g]) \subseteq Range(inbox'[g])
      <4> TAKE g \in Families
      <4>1. CASE g = f
        BY <3>1, <3>2, <3>3, <4>1
      <4>2. CASE g # f
        BY <1>5, <3>1, <4>2
      <4> QED BY <4>1, <4>2
    <3>6. dropped \subseteq dropped' /\ dropped' \subseteq Families
      BY <2>3 DEF SyncInv, TypeOK
    <3> QED BY <3>4, <3>5, <3>6
  <2> QED BY <1>3, <2>1, <2>2, <2>3
<1>7. TypeOK'
  BY <1>1, <1>3, <1>4, <1>6 DEF SyncInv, TypeOK, dataVars, askVars
<1>8. Published'
  BY <1>1, <1>3, <1>6, Facts DEF SyncInv, Published, dataVars, askVars
<1>9. Rounds'
  BY <1>3 DEF SyncInv, Rounds, Asking, askVars
<1>10. Seen'
  BY <1>1, <1>3, SeenKept DEF LogStep
<1>11. Fresh'
  BY <1>3 DEF SyncInv, Fresh, HasAnswer, askVars, dataVars
<1>12. ASSUME phase = "live" \/ HasAnswer
       PROVE  ComesOn
  <2>1. subscribed = Families
    BY <1>12 DEF SyncInv, Rounds, Asking, HasAnswer
  <2>2. ASSUME NEW e \in Entities, FamilyOf[e] \notin dropped',
               NEW k \in 1..Len(log), log[k].entity = e, Comes(e, k)
        PROVE  Comes(e, k)'
    <3>1. CASE k = rev
      <4>1. f = FamilyOf[e]
        BY <2>2, <3>1 DEF f
      <4>2. inbox' = [inbox EXCEPT ![f] = Append(@, rev)]
        BY <1>2, <1>3, <2>1, <2>2, <4>1
      <4>3. inbox'[f] = Append(inbox[f], rev)
        BY <1>2, <1>5, <4>2
      <4>4. Append(inbox[f], rev)[Len(inbox[f]) + 1] = rev
            /\ Len(inbox[f]) + 1 \in DOMAIN Append(inbox[f], rev)
        BY <1>2, <1>5
      <4>5. rev \in Range(inbox'[f])
        BY <4>3, <4>4 DEF Range
      <4> QED BY <3>1, <4>1, <4>5 DEF Comes
    <3>2. CASE k # rev
      <4>1. k > published => k > published'
        BY <1>1, <3>2, Facts DEF rev
      <4> QED BY <1>3, <1>6, <2>2, <4>1 DEF Comes
    <3> QED BY <3>1, <3>2
  <2> QED BY <1>1, <1>6, <2>2 DEF ComesOn
<1>13. Complete'
  <2>1. CASE phase = "live" \/ HasAnswer
    BY <1>3, <1>12, <2>1, CompleteKept DEF HasAnswer, askVars, dataVars
  <2>2. CASE ~(phase = "live" \/ HasAnswer)
    BY <1>3, <2>2 DEF Complete, HasAnswer, askVars
  <2> QED BY <2>1, <2>2
<1>14. Telling'
  BY <1>3, TellingKept DEF dataVars
<1> QED BY <1>7, <1>8, <1>9, <1>10, <1>11, <1>13, <1>14 DEF SyncInv

LEMMA SendAgainInv ==
  ASSUME SyncInv, SendAgain
  PROVE  SyncInv'
<1>1. PICK n \in 0..(published - 1) : published' = n
  BY DEF SendAgain
<1>2. /\ published' \in Nat /\ published' <= published /\ published' <= Len(log)
      /\ published \in Revisions
      /\ UNCHANGED <<log, feedVars, subscribed, phase, dataVars, pending,
                     generation, wanted, askVars, telling, first, told>>
  BY <1>1, Facts DEF SendAgain, SyncInv, Published, TypeOK
<1>3. again' \in 0..MaxAgain /\ published' \in Revisions
  BY <1>2 DEF SendAgain, SyncInv, TypeOK, Revisions
<1>4. TypeOK'
  BY <1>2, <1>3 DEF SyncInv, TypeOK, feedVars, dataVars, askVars
<1>5. Published'
  BY <1>2 DEF SyncInv, Published, feedVars, dataVars, askVars
<1>6. Rounds'
  BY <1>2 DEF SyncInv, Rounds, Asking, askVars
<1>7. Seen'
  BY <1>2, SeenKept DEF LogStep
<1>8. Fresh'
  BY <1>2 DEF SyncInv, Fresh, HasAnswer, askVars, dataVars
<1>9. ComesOn
  BY <1>2, Facts, ComesOnQuiet
<1>10. Complete'
  BY <1>2, <1>9, CompleteKept DEF HasAnswer, askVars, dataVars
<1>11. Telling'
  BY <1>2, TellingKept DEF dataVars
<1> QED BY <1>4, <1>5, <1>6, <1>7, <1>8, <1>10, <1>11 DEF SyncInv

LEMMA SubscribeInv ==
  ASSUME SyncInv, NEW f \in Families, Subscribe(f)
  PROVE  SyncInv'
<1>1. /\ phase # "closed" /\ f \notin subscribed
      /\ subscribed' = subscribed \union {f}
      /\ wanted' \in BOOLEAN
      /\ UNCHANGED <<ownerVars, feedVars, phase, dataVars, pending, generation, askVars,
                     telling, first, told>>
  BY DEF Subscribe
<1>2. subscribed # Families
  BY <1>1
<1>3. TypeOK'
  BY <1>1 DEF SyncInv, TypeOK, ownerVars, feedVars, dataVars, askVars
<1>4. Published'
  BY <1>1 DEF SyncInv, Published, ownerVars, feedVars, dataVars, askVars
<1>5. phase # "live" /\ ~Asking
  BY <1>2 DEF SyncInv, Rounds
<1>6. Rounds'
  BY <1>1, <1>5 DEF SyncInv, Rounds, Asking, askVars
<1>7. Seen'
  BY <1>1, SeenKept DEF LogStep, ownerVars
<1>8. Fresh'
  BY <1>1 DEF SyncInv, Fresh, HasAnswer, askVars, dataVars
<1>9. Complete'
  BY <1>1, <1>5 DEF Complete, HasAnswer, Asking, askVars
<1>10. Telling'
  BY <1>1, TellingKept DEF dataVars
<1> QED BY <1>3, <1>4, <1>6, <1>7, <1>8, <1>9, <1>10 DEF SyncInv

\* An overflow: the copy is not live, and no answer counts any more.
LEMMA OverflowInv ==
  ASSUME SyncInv, Overflow, phase # "closed",
         TypeOK', Published',
         UNCHANGED <<ownerVars, subscribed, dataVars, askVars, telling, first, told>>
  PROVE  SyncInv'
<1>1. /\ phase' = "syncing" /\ wanted' = TRUE /\ generation' = generation + 1
      /\ asked \in Nat /\ generation \in Nat /\ asked <= generation
  BY DEF Overflow, SyncInv, TypeOK, Rounds
<1>2. Rounds'
  BY <1>1 DEF SyncInv, Rounds, Asking, askVars
<1>3. Seen'
  BY SeenKept DEF LogStep, ownerVars
<1>4. Fresh'
  BY DEF SyncInv, Fresh, HasAnswer, askVars, dataVars
<1>5. Complete'
  BY <1>1 DEF Complete, askVars
<1>6. Telling'
  BY TellingKept DEF dataVars
<1> QED BY <1>2, <1>3, <1>4, <1>5, <1>6 DEF SyncInv

LEMMA ShiftInv ==
  ASSUME SyncInv, NEW f \in Families, Shift(f)
  PROVE  SyncInv'
<1> DEFINE q == inbox[f]
<1>1. /\ phase # "closed" /\ inbox[f] # <<>> /\ hand[f] = 0
      /\ hand' = [hand EXCEPT ![f] = Head(inbox[f])]
      /\ inbox' = [inbox EXCEPT ![f] = Tail(@)]
      /\ dropped' = dropped \ {f}
      /\ IF f \in dropped THEN Overflow ELSE NoOverflow
      /\ UNCHANGED <<ownerVars, subscribed, dataVars, askVars, telling, first, told>>
  BY DEF Shift
<1>2. /\ inbox \in [Families -> Seq(Revisions)] /\ hand \in [Families -> Revisions]
      /\ \A g \in Families : inbox[g] \in Seq(1..Len(log)) /\ hand[g] \in 0..Len(log)
      /\ dropped \subseteq Families
  BY DEF SyncInv, TypeOK, Published
<1>3. /\ \A g \in Families : /\ inbox'[g] = IF g = f THEN Tail(inbox[f]) ELSE inbox[g]
                             /\ hand'[g] = IF g = f THEN Head(inbox[f]) ELSE hand[g]
      /\ DOMAIN inbox' = Families /\ DOMAIN hand' = Families
  BY <1>1, <1>2
<1>4. /\ inbox[f] \in Seq(1..Len(log)) /\ inbox[f] \in Seq(Revisions)
      /\ Tail(inbox[f]) \in Seq(1..Len(log)) /\ Tail(inbox[f]) \in Seq(Revisions)
      /\ Head(inbox[f]) \in 1..Len(log) /\ Head(inbox[f]) \in Revisions
  <2>1. inbox[f] \in Seq(1..Len(log)) /\ inbox[f] # <<>>
    BY <1>1, <1>2
  <2>2. inbox[f] \in Seq(Revisions)
    BY <1>2
  <2> QED BY <2>1, <2>2, HeadAndTail
<1>5. /\ inbox' \in [Families -> Seq(Revisions)] /\ hand' \in [Families -> Revisions]
  <2>1. \A g \in Families : inbox'[g] \in Seq(Revisions) /\ hand'[g] \in Revisions
    BY <1>2, <1>3, <1>4
  <2>2. inbox' = [g \in Families |-> inbox'[g]] /\ hand' = [g \in Families |-> hand'[g]]
    BY <1>1, <1>2
  <2> QED BY <2>1, <2>2
<1>6. phase' \in {"syncing", "live", "closed"} /\ generation' \in Nat /\ wanted' \in BOOLEAN
      /\ (pending' = <<>> \/ pending' = pending)
  <2>1. phase \in {"syncing", "live", "closed"} /\ generation \in Nat /\ wanted \in BOOLEAN
    BY DEF SyncInv, TypeOK
  <2>2. CASE Overflow
    BY <2>1, <2>2 DEF Overflow
  <2>3. CASE NoOverflow
    BY <2>1, <2>3 DEF NoOverflow
  <2> QED BY <1>1, <2>2, <2>3
<1>7. pending' \in Seq(Revisions) /\ Len(pending') <= MaxBuffered /\ pending' \in Seq(1..Len(log))
  <2>1. /\ pending \in Seq(Revisions) /\ Len(pending) <= MaxBuffered
        /\ pending \in Seq(1..Len(log)) /\ MaxBuffered \in Nat
    BY DEF SyncInv, TypeOK, Published
  <2>2. CASE pending' = pending
    BY <2>1, <2>2
  <2>3. CASE pending' = <<>>
    BY <2>1, <2>3
  <2> QED BY <1>6, <2>2, <2>3
<1>8. TypeOK'
  <2>1. dropped' \subseteq Families
    BY <1>1, <1>2
  <2> QED BY <1>1, <1>5, <1>6, <1>7, <2>1 DEF SyncInv, TypeOK, ownerVars, dataVars, askVars
<1>9. Published'
  <2>1. \A g \in Families : inbox'[g] \in Seq(1..Len(log)) /\ hand'[g] \in 0..Len(log)
    <3> TAKE g \in Families
    <3>1. Head(inbox[f]) \in 0..Len(log)
      BY <1>4
    <3> QED BY <1>2, <1>3, <1>4, <3>1
  <2> QED BY <1>1, <1>7, <2>1 DEF SyncInv, Published, ownerVars, dataVars, askVars
<1>10. CASE f \in dropped
  BY <1>1, <1>8, <1>9, <1>10, OverflowInv
<1>11. CASE f \notin dropped
  <2>1. NoOverflow /\ dropped' = dropped
    BY <1>1, <1>11
  <2>2. Rounds'
    BY <1>1, <2>1 DEF SyncInv, Rounds, Asking, NoOverflow, askVars
  <2>3. Seen'
    BY <1>1, SeenKept DEF LogStep, ownerVars
  <2>4. Fresh'
    BY <1>1 DEF SyncInv, Fresh, HasAnswer, askVars, dataVars
  <2>5. ASSUME NEW e \in Entities, NEW k \in 1..Len(log), Comes(e, k)
        PROVE  Comes(e, k)'
    <3> DEFINE g == FamilyOf[e]
    <3>1. g \in Families
      OBVIOUS
    <3>2. CASE k \in Range(inbox[g])
      <4>1. CASE g = f
        <5>1. k = Head(inbox[f]) \/ k \in Range(Tail(inbox[f]))
          <6>1. inbox[f] \in Seq(1..Len(log)) /\ k \in Range(inbox[f])
            BY <1>4, <3>2, <4>1
          <6> QED BY <6>1, HeadOrTail
        <5>2. inbox'[g] = Tail(inbox[f]) /\ hand'[g] = Head(inbox[f])
          BY <1>3, <3>1, <4>1
        <5> QED BY <5>1, <5>2 DEF Comes
      <4>2. CASE g # f
        BY <1>3, <3>1, <3>2, <4>2 DEF Comes
      <4> QED BY <4>1, <4>2
    <3>3. CASE k = hand[g]
      <4>1. g # f
        BY <1>1, <3>3
      <4> QED BY <1>3, <3>1, <3>3, <4>1 DEF Comes
    <3>4. CASE k > published \/ k \in Range(pending)
      BY <1>1, <2>1, <3>4 DEF Comes, ownerVars, NoOverflow
    <3> QED BY <2>5, <3>2, <3>3, <3>4 DEF Comes
  <2>6. ComesOn
    BY <1>1, <2>1, <2>5 DEF ComesOn, ownerVars
  <2>7. Complete'
    BY <1>1, <2>1, <2>6, CompleteKept DEF HasAnswer, NoOverflow, askVars, dataVars
  <2>8. Telling'
    BY <1>1, <2>1, TellingKept DEF NoOverflow, dataVars
  <2> QED BY <1>8, <1>9, <2>2, <2>3, <2>4, <2>7, <2>8 DEF SyncInv
<1> QED BY <1>10, <1>11

LEMMA ArriveInv ==
  ASSUME SyncInv, NEW f \in Families, Arrive(f)
  PROVE  SyncInv'
<1>1. /\ phase # "closed" /\ hand[f] # 0
      /\ hand' = [hand EXCEPT ![f] = 0]
      /\ \/ Overflow
         \/ /\ Len(pending) < MaxBuffered
            /\ pending' = Append(pending, hand[f])
            /\ UNCHANGED <<phase, generation, wanted>>
      /\ UNCHANGED <<ownerVars, inbox, dropped, subscribed, dataVars, askVars, telling,
                     first, told>>
  BY DEF Arrive
<1>2. /\ hand \in [Families -> Revisions]
      /\ \A g \in Families : hand[g] \in 0..Len(log)
      /\ pending \in Seq(Revisions) /\ pending \in Seq(1..Len(log)) /\ Len(pending) \in Nat
      /\ Len(pending) <= MaxBuffered
      /\ Len(log) \in Nat /\ 0 \in Revisions
  BY Facts DEF SyncInv, TypeOK, Published, Revisions
<1>3. /\ \A g \in Families : hand'[g] = IF g = f THEN 0 ELSE hand[g]
      /\ hand' \in [Families -> Revisions]
  BY <1>1, <1>2
<1>4. hand[f] \in 1..Len(log) /\ hand[f] \in Revisions
  BY <1>1, <1>2
<1>5. CASE Overflow
  <2>1. TypeOK'
    BY <1>1, <1>3, <1>5, Facts DEF SyncInv, TypeOK, Overflow, ownerVars, dataVars, askVars
  <2>2. Published'
    BY <1>1, <1>2, <1>3, <1>5 DEF SyncInv, Published, Overflow, ownerVars, dataVars, askVars
  <2> QED BY <1>1, <1>5, <2>1, <2>2, OverflowInv
<1>6. CASE /\ Len(pending) < MaxBuffered
           /\ pending' = Append(pending, hand[f])
           /\ UNCHANGED <<phase, generation, wanted>>
  <2>1. /\ pending' \in Seq(Revisions) /\ pending' \in Seq(1..Len(log))
        /\ Len(pending') <= MaxBuffered
    BY <1>2, <1>4, <1>6
  <2>2. TypeOK'
    BY <1>1, <1>3, <1>6, <2>1 DEF SyncInv, TypeOK, ownerVars, dataVars, askVars
  <2>3. Published'
    BY <1>1, <1>2, <1>3, <2>1 DEF SyncInv, Published, ownerVars, dataVars, askVars
  <2>4. Rounds'
    BY <1>1, <1>6 DEF SyncInv, Rounds, Asking, askVars
  <2>5. Seen'
    BY <1>1, SeenKept DEF LogStep, ownerVars
  <2>6. Fresh'
    BY <1>1 DEF SyncInv, Fresh, HasAnswer, askVars, dataVars
  <2>7. ASSUME NEW e \in Entities, NEW k \in 1..Len(log), Comes(e, k)
        PROVE  Comes(e, k)'
    <3> DEFINE g == FamilyOf[e]
    <3>1. g \in Families
      OBVIOUS
    <3>2. /\ \A i \in 1..Len(pending) : /\ i \in DOMAIN Append(pending, hand[f])
                                       /\ Append(pending, hand[f])[i] = pending[i]
          /\ Len(pending) + 1 \in DOMAIN Append(pending, hand[f])
          /\ Append(pending, hand[f])[Len(pending) + 1] = hand[f]
          /\ DOMAIN pending = 1..Len(pending)
      BY <1>2, <1>4
    <3>3. Range(pending) \subseteq Range(pending') /\ hand[f] \in Range(pending')
      BY <1>6, <3>2 DEF Range
    <3>4. CASE k = hand[g] /\ g = f
      BY <3>3, <3>4 DEF Comes
    <3>5. CASE k = hand[g] /\ g # f
      BY <1>3, <3>1, <3>5 DEF Comes
    <3>6. CASE k # hand[g]
      BY <1>1, <2>7, <3>3, <3>6 DEF Comes, ownerVars
    <3> QED BY <3>4, <3>5, <3>6
  <2>8. ComesOn
    BY <1>1, <2>7 DEF ComesOn, ownerVars
  <2>9. Complete'
    BY <1>1, <1>6, <2>8, CompleteKept DEF HasAnswer, askVars, dataVars
  <2>10. Telling'
    BY <1>1, <1>6, TellingKept DEF dataVars
  <2> QED BY <2>2, <2>3, <2>4, <2>5, <2>6, <2>9, <2>10 DEF SyncInv
<1> QED BY <1>1, <1>5, <1>6

-----------------------------------------------------------------------------
(* The request and the worker.                                             *)

LEMMA ServeInv ==
  ASSUME SyncInv, Serve
  PROVE  SyncInv'
<1>1. /\ request = "sent" /\ request' = "served" /\ snapshot' = Len(log)
      /\ UNCHANGED <<ownerVars, feedVars, subscribed, phase, dataVars, pending, generation,
                     wanted, answered, asked, telling, first, told>>
  BY DEF Serve
<1>2. Len(log) \in Revisions /\ Len(log) \in Nat
  BY Facts DEF Revisions
<1>3. TypeOK'
  BY <1>1, <1>2 DEF SyncInv, TypeOK, ownerVars, feedVars, dataVars
<1>4. Published'
  BY <1>1, <1>2 DEF SyncInv, Published, ownerVars, feedVars, dataVars
<1>5. Rounds'
  BY <1>1 DEF SyncInv, Rounds, Asking
<1>6. Seen'
  BY <1>1, SeenKept DEF LogStep, ownerVars
<1>7. Fresh'
  <2>1. floor <= Len(log) /\ \A e \in Entities : seen[e] <= Len(log)
    <3>1. \A e \in Entities : seen[e] \in floor..Len(log)
      BY DEF SyncInv, Seen, IsStateSeen
    <3> QED BY <1>2, <3>1, Facts DEF SyncInv, Published
  <2> QED BY <1>1, <2>1 DEF Fresh, dataVars
<1>8. Complete'
  <2>1. phase # "live"
    BY <1>1 DEF SyncInv, Rounds, Asking
  <2>2. ASSUME NEW e \in Entities PROVE Follows(e, snapshot)'
    BY <1>1, <1>2 DEF Follows, ChangesOf, ownerVars
  <2> QED BY <1>1, <2>1, <2>2 DEF Complete
<1>9. Telling'
  BY <1>1, TellingKept DEF dataVars
<1> QED BY <1>3, <1>4, <1>5, <1>6, <1>7, <1>8, <1>9 DEF SyncInv

LEMMA AnsweredInv ==
  ASSUME SyncInv, NEW how \in {"served", "refused"}, Answered(how)
  PROVE  SyncInv'
<1>1. /\ request # "no" /\ (how = "served" => request = "served")
      /\ request' = "no" /\ answered' = how
      /\ UNCHANGED <<ownerVars, feedVars, subscribed, phase, dataVars, pending, generation,
                     wanted, asked, snapshot, telling, first, told>>
  BY DEF Answered
<1>2. TypeOK'
  BY <1>1 DEF SyncInv, TypeOK, ownerVars, feedVars, dataVars
<1>3. Published'
  BY <1>1 DEF SyncInv, Published, ownerVars, feedVars, dataVars
<1>4. Rounds'
  BY <1>1 DEF SyncInv, Rounds, Asking
<1>5. Seen'
  BY <1>1, SeenKept DEF LogStep, ownerVars
<1>6. Fresh'
  BY <1>1 DEF SyncInv, Fresh, HasAnswer, dataVars
<1>7. ComesOn
  BY <1>1, Facts, ComesOnQuiet DEF ownerVars
<1>8. Complete'
  BY <1>1, <1>7, CompleteKept DEF HasAnswer, dataVars
<1>9. Telling'
  BY <1>1, TellingKept DEF dataVars
<1> QED BY <1>2, <1>3, <1>4, <1>5, <1>6, <1>8, <1>9 DEF SyncInv

\* A request or its refusal begins a round: no answer yet, the buffer empty.
LEMMA SendInv ==
  ASSUME SyncInv, Send \/ SendTooLate
  PROVE  SyncInv'
<1>1. /\ phase # "closed" /\ wanted /\ request = "no" /\ answered = "no"
      /\ subscribed = Families
      /\ wanted' = FALSE /\ pending' = <<>> /\ asked' = generation
      /\ \/ request' = "sent" /\ answered' = "no"
         \/ request' = "no" /\ answered' = "refused"
      /\ first' \in {"waiting", "asked", "synced", "refused", "closed"}
      /\ UNCHANGED <<ownerVars, feedVars, subscribed, phase, dataVars, generation,
                     snapshot, telling, told>>
  BY DEF Send, SendTooLate, Working, MustSend, SyncInv, TypeOK
<1>2. phase = "syncing"
  BY <1>1 DEF SyncInv, Rounds, TypeOK
<1>3. TypeOK'
  <2>1. pending' \in Seq(Revisions) /\ Len(pending') <= MaxBuffered
    BY <1>1
  <2>2. wanted' \in BOOLEAN /\ asked' \in Nat
    BY <1>1, Facts
  <2>3. request' \in {"no", "sent", "served"} /\ answered' \in {"no", "served", "refused"}
    BY <1>1
  <2>4. UNCHANGED <<ownerVars, feedVars, subscribed, phase, dataVars, generation,
                    snapshot, telling, told>>
    BY <1>1
  <2>5. first' \in {"waiting", "asked", "synced", "refused", "closed"}
    BY <1>1
  <2> QED BY <2>1, <2>2, <2>3, <2>4, <2>5 DEF SyncInv, TypeOK, ownerVars, feedVars, dataVars
<1>4. Published'
  BY <1>1 DEF SyncInv, Published, ownerVars, feedVars, dataVars
<1>5. Rounds'
  BY <1>1, <1>2, Facts DEF SyncInv, Rounds, Asking
<1>6. Seen'
  BY <1>1, SeenKept DEF LogStep, ownerVars
<1>7. ~HasAnswer'
  BY <1>1 DEF HasAnswer
<1>8. Fresh' /\ Complete'
  BY <1>1, <1>2, <1>7 DEF Fresh, Complete
<1>9. Telling'
  BY <1>1, TellingKept DEF dataVars
<1> QED BY <1>3, <1>4, <1>5, <1>6, <1>8, <1>9 DEF SyncInv

LEMMA CompleteStaleInv ==
  ASSUME SyncInv, CompleteStale
  PROVE  SyncInv'
<1>1. /\ answered = "served" /\ answered' = "no"
      /\ UNCHANGED <<ownerVars, feedVars, subscribed, phase, dataVars, pending, generation,
                     wanted, request, asked, snapshot, telling, first, told>>
  BY DEF CompleteStale
<1>2. TypeOK'
  BY <1>1 DEF SyncInv, TypeOK, ownerVars, feedVars, dataVars
<1>3. Published'
  BY <1>1 DEF SyncInv, Published, ownerVars, feedVars, dataVars
<1>4. Rounds'
  BY <1>1 DEF SyncInv, Rounds, Asking
<1>5. Seen'
  BY <1>1, SeenKept DEF LogStep, ownerVars
<1>6. Fresh'
  BY <1>1 DEF SyncInv, Fresh, HasAnswer, dataVars
<1>7. ComesOn
  BY <1>1, Facts, ComesOnQuiet DEF ownerVars
<1>8. Complete'
  BY <1>1, <1>7, CompleteKept DEF HasAnswer, dataVars
<1>9. Telling'
  BY <1>1, TellingKept DEF dataVars
<1> QED BY <1>2, <1>3, <1>4, <1>5, <1>6, <1>8, <1>9 DEF SyncInv

\* A copy that stops keeps what it holds and does nothing more.
LEMMA StopInv ==
  ASSUME SyncInv, StopFollowing,
         first' \in {"waiting", "asked", "synced", "refused", "closed"}
  PROVE  SyncInv'
<1>1. /\ phase' = "closed" /\ pending' = <<>> /\ answered' = "no" /\ request' = "no"
      /\ telling' = <<>> /\ subscribed' = {} /\ dropped' = {}
      /\ inbox' = [f \in Families |-> <<>>] /\ hand' = [f \in Families |-> 0]
      /\ UNCHANGED <<ownerVars, dataVars, generation, wanted, asked, snapshot, told>>
  BY DEF StopFollowing
<1>2. 0 \in Revisions
  BY DEF Revisions
<1>3. TypeOK'
  BY <1>1, <1>2 DEF SyncInv, TypeOK, ownerVars, dataVars
<1>4. Published'
  BY <1>1, Facts DEF SyncInv, Published, ownerVars, dataVars
<1>5. Rounds'
  BY <1>1 DEF SyncInv, Rounds, Asking
<1>6. Seen'
  BY <1>1, SeenKept DEF LogStep, ownerVars
<1>7. Fresh' /\ Complete' /\ Telling'
  BY <1>1 DEF Fresh, Complete, Telling, HasAnswer
<1> QED BY <1>3, <1>4, <1>5, <1>6, <1>7 DEF SyncInv

\* The handler took the next change: the ones left still say the rest.
LEMMA NotifyInv ==
  ASSUME SyncInv, Notify
  PROVE  SyncInv'
<1> DEFINE next == Head(telling)
<1>1. /\ phase # "closed" /\ telling # <<>>
      /\ telling' = Tail(telling)
      /\ told' = IF next.kind \in {"updated", "removed"}
                 THEN [told EXCEPT ![next.entity] = next.revision] ELSE told
      /\ first' \in {"waiting", "asked", "synced", "refused", "closed"}
      /\ UNCHANGED <<ownerVars, feedVars, subscribed, phase, dataVars, pending, generation,
                     wanted, askVars>>
  BY DEF Notify, SyncInv, TypeOK
<1>2. telling \in Seq(Told) /\ told \in [Entities -> Revisions]
  BY DEF SyncInv, TypeOK, Told
<1>3. next \in Told /\ Tail(telling) \in Seq(Told) /\ Len(telling) \in Nat \ {0}
      /\ next = telling[1] /\ Len(Tail(telling)) = Len(telling) - 1
      /\ \A i \in 1..Len(Tail(telling)) : Tail(telling)[i] = telling[i + 1]
  BY <1>1, <1>2, HeadAndTail
<1>4. next.kind \in {"updated", "removed"} =>
        next.entity \in Entities /\ next.revision \in Revisions
  BY <1>3 DEF Told
<1> HIDE DEF next
<1>5. told' \in [Entities -> Revisions]
  BY <1>1, <1>2, <1>4
<1>6. TypeOK'
  <2>1. telling' \in Seq(Told)
    BY <1>1, <1>3
  <2> QED BY <1>1, <1>5, <2>1
       DEF SyncInv, TypeOK, Told, ownerVars, feedVars, dataVars, askVars
<1>7. Published'
  BY <1>1 DEF SyncInv, Published, ownerVars, feedVars, dataVars, askVars
<1>8. Rounds'
  BY <1>1 DEF SyncInv, Rounds, Asking, askVars
<1>9. Seen'
  BY <1>1, SeenKept DEF LogStep, ownerVars
<1>10. Fresh'
  BY <1>1 DEF SyncInv, Fresh, HasAnswer, askVars, dataVars
<1>11. ComesOn
  BY <1>1, Facts, ComesOnQuiet DEF ownerVars
<1>12. Complete'
  BY <1>1, <1>11, CompleteKept DEF HasAnswer, askVars, dataVars
<1>13. Tells(telling, held, told)
  BY <1>1 DEF SyncInv, Telling
<1>14. PICK rest : rest = Tail(telling)
  OBVIOUS
<1>15. /\ rest \in Seq(Told) /\ Len(rest) \in Nat /\ Len(telling) = Len(rest) + 1
       /\ \A i \in 1..Len(rest) : rest[i] = telling[i + 1] /\ i + 1 \in 1..Len(telling)
       /\ \A i \in 1..Len(telling) : i = 1 \/ (i - 1 \in 1..Len(rest) /\ rest[i - 1] = telling[i])
  <2>1. /\ rest \in Seq(Told) /\ Len(rest) \in Nat /\ Len(telling) = Len(rest) + 1
        /\ \A i \in 1..Len(rest) : rest[i] = telling[i + 1] /\ i + 1 \in 1..Len(telling)
    BY <1>3, <1>14
  <2>2. ASSUME NEW i \in 1..Len(telling), i # 1
        PROVE  i - 1 \in 1..Len(rest) /\ rest[i - 1] = telling[i]
    <3>1. i - 1 \in 1..Len(rest) /\ (i - 1) + 1 = i
      BY <2>1, <2>2
    <3> QED BY <2>1, <3>1
  <2> QED BY <2>1, <2>2
<1>16. ASSUME NEW e \in Entities
       PROVE  /\ (\A i \in 1..Len(rest) : ~About(rest, i, e)) => told'[e] = held[e]
              /\ \A i \in 1..Len(rest) :
                   About(rest, i, e) /\ (\A j \in (i + 1)..Len(rest) : ~About(rest, j, e))
                     => rest[i].revision = held[e]
  <2>1. \A i \in 1..Len(rest) : About(rest, i, e) <=> About(telling, i + 1, e)
    BY <1>15 DEF About
  <2>2. told'[e] = IF About(telling, 1, e) THEN next.revision ELSE told[e]
    BY <1>1, <1>2, <1>3, <1>4 DEF About
  <2>3. ASSUME \A i \in 1..Len(rest) : ~About(rest, i, e)
        PROVE  told'[e] = held[e]
    <3>1. \A j \in 2..Len(telling) : ~About(telling, j, e)
      <4> TAKE j \in 2..Len(telling)
      <4>1. j - 1 \in 1..Len(rest) /\ (j - 1) + 1 = j
        BY <1>15
      <4> QED BY <2>1, <2>3, <4>1
    <3>2. 1 \in 1..Len(telling) /\ 1 + 1 = 2
      BY <1>3
    <3>3. CASE About(telling, 1, e)
      BY <1>3, <1>13, <2>2, <3>1, <3>2, <3>3 DEF Tells
    <3>4. CASE ~About(telling, 1, e)
      <4>1. \A i \in 1..Len(telling) : ~About(telling, i, e)
        <5> TAKE i \in 1..Len(telling)
        <5>1. i = 1 \/ i \in 2..Len(telling)
          BY <1>3
        <5> QED BY <3>1, <3>4, <5>1
      <4> QED BY <1>13, <2>2, <3>4, <4>1 DEF Tells
    <3> QED BY <3>3, <3>4
  <2>4. ASSUME NEW i \in 1..Len(rest), About(rest, i, e),
               \A j \in (i + 1)..Len(rest) : ~About(rest, j, e)
        PROVE  rest[i].revision = held[e]
    <3>1. i + 1 \in 1..Len(telling) /\ About(telling, i + 1, e) /\ rest[i] = telling[i + 1]
      BY <1>15, <2>1, <2>4
    <3>2. \A j \in (i + 1 + 1)..Len(telling) : ~About(telling, j, e)
      <4> TAKE j \in (i + 1 + 1)..Len(telling)
      <4>1. j - 1 \in (i + 1)..Len(rest) /\ j - 1 \in 1..Len(rest) /\ (j - 1) + 1 = j
        BY <1>15
      <4> QED BY <2>1, <2>4, <4>1
    <3> QED BY <1>13, <3>1, <3>2 DEF Tells
  <2> QED BY <2>3, <2>4
<1>17. Tells(rest, held, told')
  BY <1>16 DEF Tells
<1>18. Telling'
  <2>1. held' = held /\ telling' = rest
    BY <1>1, <1>14 DEF dataVars
  <2> QED BY <1>17, <2>1 DEF Telling, Tells, About
<1> QED BY <1>6, <1>7, <1>8, <1>9, <1>10, <1>12, <1>18 DEF SyncInv

\* The copy as it is, before any message is taken.
LEMMA NowIsCopy ==
  ASSUME SyncInv
  PROVE  /\ Now \in Copies /\ Now.changes = <<>> /\ Now.held = held /\ Now.removed = removed
         /\ phase # "closed" /\ telling = <<>> => Tells(Now.changes, Now.held, told)
<1>1. /\ Now.changes = <<>> /\ Now.held = held /\ Now.removed = removed
      /\ Now = [held |-> held, removed |-> removed, changes |-> <<>>]
  BY DEF Now
<1>2. Now \in Copies
  BY <1>1 DEF Copies, SyncInv, TypeOK
<1> QED BY <1>1, <1>2 DEF SyncInv, Telling

\* Taken in: the copy's record of each entity is the state of what was seen.
LEMMA TakenIn ==
  ASSUME SyncInv, NEW n \in Nat, NEW revs \in Seq(1..Len(log)), NEW c, NEW m \in 0..Len(log),
         TookIn(m, revs), log' = log, floor' = n, n <= Len(log),
         held' = c.held, removed' = c.removed,
         \A e \in Entities : \E t \in 0..Len(log) :
            /\ t = seen[e] \/ t = m
            /\ seen[e] <= t /\ m <= t
            /\ \E x : IsNewest(x, SeenUpTo(t, revs, Len(revs), e)) /\ IsStateSeen(c, n, e, x)
  PROVE  /\ Seen' /\ seen' \in [Entities -> Revisions]
         /\ \A e \in Entities :
              /\ seen[e] <= seen'[e] /\ m <= seen'[e]
              /\ \A k \in Range(revs) : log[k].entity = e => k <= seen'[e]
<1>1. seen' = [e \in Entities |->
                 Newest({seen[e], m} \union {k \in Range(revs) : log[k].entity = e})]
  BY DEF TookIn
<1>2. \A e \in Entities : seen[e] \in 0..Len(log)
  BY Facts DEF SyncInv, Seen, IsStateSeen
<1>3. ASSUME NEW e \in Entities
      PROVE  /\ IsStateSeen(Now, floor, e, seen[e])'
             /\ seen'[e] \in Revisions
             /\ seen[e] <= seen'[e] /\ m <= seen'[e]
             /\ \A k \in Range(revs) : log[k].entity = e => k <= seen'[e]
  <2>a. PICK t \in 0..Len(log) :
          /\ t = seen[e] \/ t = m
          /\ seen[e] <= t /\ m <= t
          /\ \E x : IsNewest(x, SeenUpTo(t, revs, Len(revs), e)) /\ IsStateSeen(c, n, e, x)
    OBVIOUS
  <2>1. PICK x : IsNewest(x, SeenUpTo(t, revs, Len(revs), e)) /\ IsStateSeen(c, n, e, x)
    BY <2>a
  <2>2. Newest({seen[e], m} \union {k \in Range(revs) : log[k].entity = e}) = x
    <3>1. PICK len \in Nat : len = Len(log)
      BY Facts
    <3>2. PICK u \in 0..len : u = seen[e]
      BY <1>2, <3>1
    <3>3. revs \in Seq(1..len) /\ m \in 0..len /\ t \in 0..len
      BY <3>1
    <3>4. (t = u \/ t = m) /\ u <= t /\ m <= t
      BY <2>a, <3>2
    <3>5. IsNewest(x, SeenUpTo(t, revs, Len(revs), e))
      BY <2>1
    <3>6. PICK S : S = {u, m} \union {k \in Range(revs) : log[k].entity = e} \union {0}
      OBVIOUS
    <3>7. DOMAIN revs = 1..Len(revs) /\ \A j \in 1..Len(revs) : revs[j] \in 1..len
      BY <3>3
    <3>8. SeenUpTo(t, revs, Len(revs), e)
            = {t} \union {k \in Range(revs) : log[k].entity = e}
      BY <3>7 DEF SeenUpTo, Range
    <3>9. S \in SUBSET (0..len)
      <4>1. Range(revs) \subseteq 1..len
        BY <3>7 DEF Range
      <4> QED BY <3>3, <3>6, <4>1
    <3>10. x \in S /\ t <= x /\ \A k \in Range(revs) : log[k].entity = e => k <= x
      BY <3>4, <3>5, <3>6, <3>8 DEF IsNewest
    <3>11. \A k \in S : k <= x
      <4>1. x \in 0..len /\ u <= x /\ m <= x /\ 0 <= x
        BY <3>3, <3>4, <3>9, <3>10
      <4> QED BY <3>6, <3>10, <4>1
    <3>12. Max(S) = x
      BY <3>9, <3>10, <3>11, MaxIs
    <3>13. S = {seen[e], m} \union {k \in Range(revs) : log[k].entity = e} \union {0}
      BY <3>2, <3>6
    <3> QED BY <3>12, <3>13 DEF Newest
  <2>3. seen'[e] = x
    BY <1>1, <2>2
  <2>4. /\ x \in n..Len(log)
        /\ c.held[e] = StateAt(e, x)
        /\ c.removed[e] # 0 =>
             c.removed[e] \in ChangesOf(e, x) /\ log[c.removed[e]].kind = "removal"
        /\ x > n => log[x].entity = e /\ (log[x].kind = "removal" => c.removed[e] = x)
    BY <2>1 DEF IsStateSeen
  <2>5. StateAt(e, x)' = StateAt(e, x) /\ ChangesOf(e, x)' = ChangesOf(e, x)
    BY DEF StateAt, ChangesOf
  <2>6. IsStateSeen(Now, floor, e, x)'
    BY <2>4, <2>5 DEF IsStateSeen, Now
  <2>7. x \in Revisions
    BY <2>4, Facts DEF Revisions
  <2>8. t <= x /\ \A k \in Range(revs) : log[k].entity = e => k <= x
    <3>1. DOMAIN revs = 1..Len(revs)
      OBVIOUS
    <3> QED BY <2>1, <3>1 DEF IsNewest, SeenUpTo, Range
  <2>9. seen[e] <= x /\ m <= x
    <3>1. PICK u \in Nat : u = seen[e]
      BY <1>2
    <3>2. u <= t /\ m <= t /\ x \in Nat /\ t \in Nat /\ m \in Nat
      BY <2>a, <2>4, <3>1
    <3> QED BY <2>8, <3>1, <3>2
  <2> QED BY <2>3, <2>6, <2>7, <2>8, <2>9
<1> QED BY <1>1, <1>3 DEF Seen

-----------------------------------------------------------------------------
(* The worker takes an answer or a live message.                           *)

\* A snapshot, its membership and the buffered messages at once.
LEMMA CompletedIs ==
  ASSUME SyncInv, Working, HasAnswer, NEW n, n = snapshot, NEW c, c = Completed(n)
  PROVE  GoodStage(c, pending, Len(pending), n, n, told)
<1>1. /\ log \in Seq(Changes) /\ Len(log) \in Nat /\ Len(log) <= MaxRevision
      /\ floor \in Nat /\ n \in Nat /\ n <= Len(log)
  BY Facts DEF SyncInv, Published
<1>2. Now \in Copies /\ Tells(Now.changes, Now.held, told)
  BY NowIsCopy DEF Working
<1>3. \A e \in Entities : seen[e] <= n /\ IsStateSeen(Now, floor, e, seen[e])
  BY DEF SyncInv, Fresh, Seen
<1>4. PICK base : base = KeepMembers(TakeSnapshot(Now, n), n)
  OBVIOUS
<1>5. /\ base \in Copies /\ Tells(base.changes, base.held, told)
      /\ \A e \in Entities : base.held[e] = StateAt(e, n) /\ base.removed[e] = 0
  <2>1. n \in 0..Len(log)
    BY <1>1
  <2>2. PICK now : now = Now
    OBVIOUS
  <2>3. now \in Copies /\ Tells(now.changes, now.held, told)
    BY <1>2, <2>2
  <2>4. \A e \in Entities : seen[e] <= n /\ IsStateSeen(now, floor, e, seen[e])
    BY <1>3, <2>2
  <2>5. base = KeepMembers(TakeSnapshot(now, n), n)
    BY <1>4, <2>2
  <2>6. PICK m \in Nat : m = floor
    BY <1>1
  <2>7. PICK s : s = seen
    OBVIOUS
  <2>8. SeenBelow(now, m, n, s)
    BY <2>4, <2>6, <2>7 DEF SeenBelow
  <2>9. PICK before : before = told
    OBVIOUS
  <2>10. Tells(now.changes, now.held, before)
    BY <2>3, <2>9
  <2>11. /\ base \in Copies /\ Tells(base.changes, base.held, before)
         /\ \A e \in Entities : base.held[e] = StateAt(e, n) /\ base.removed[e] = 0
    <3>1. log \in Seq(Changes) /\ Len(log) <= MaxRevision
      BY <1>1
    <3>2. now \in Copies
      BY <2>3
    <3> QED BY <2>1, <2>5, <2>8, <2>10, <3>1, <3>2, SnapshotIsState
  <2> QED BY <2>9, <2>11
<1>6. ASSUME NEW d \in Entities
      PROVE  \E x : IsNewest(x, SeenUpTo(n, pending, 0, d)) /\ IsStateSeen(base, n, d, x)
  <2>1. IsNewest(n, SeenUpTo(n, pending, 0, d))
    BY <1>1 DEF IsNewest, SeenUpTo
  <2>2. IsStateSeen(base, n, d, n)
    BY <1>1, <1>5 DEF IsStateSeen
  <2> QED BY <2>1, <2>2
<1>7. GoodStage(base, pending, 0, n, n, told)
  BY <1>5, <1>6 DEF GoodStage
<1>8. pending \in Seq(1..Len(log))
  BY DEF SyncInv, Published
<1>9. c = TakeAll(base, pending, n)
  BY <1>4 DEF Completed
<1> QED BY <1>1, <1>7, <1>8, <1>9, TakeAllGood

\* Live, with what was buffered taken in, a copy follows what is still to come.
LEMMA FollowsOn ==
  ASSUME SyncInv, NEW revs, NEW rest, NEW s \in [Entities -> Nat],
         pending' = rest, Range(pending) \subseteq Range(revs) \union Range(rest),
         UNCHANGED <<ownerVars, feedVars>>,
         \A e \in Entities : Follows(e, s[e]),
         \A e \in Entities :
           /\ s[e] <= seen'[e] /\ seen'[e] \in Nat
           /\ \A k \in Range(revs) : log[k].entity = e => k <= seen'[e]
  PROVE  \A e \in Entities : Follows(e, seen[e])'
<1> SUFFICES ASSUME NEW e \in Entities, FamilyOf[e] \notin dropped,
                    NEW k \in 1..Len(log), log[k].entity = e
             PROVE  k <= seen'[e] \/ Comes(e, k)'
  BY DEF Follows, ChangesOf, ownerVars, feedVars
<1>1. k <= s[e] \/ Comes(e, k)
  BY DEF Follows, ChangesOf
<1>2. CASE k <= s[e]
  <2>1. s[e] \in Nat /\ seen'[e] \in Nat /\ s[e] <= seen'[e] /\ k \in Nat
    OBVIOUS
  <2> QED BY <1>2, <2>1
<1>3. CASE k \in Range(revs)
  BY <1>3
<1>4. CASE Comes(e, k) /\ k \notin Range(revs)
  <2>1. k \in Range(pending) => k \in Range(pending')
    BY <1>4
  <2> QED BY <1>4, <2>1 DEF Comes, ownerVars, feedVars
<1> QED BY <1>1, <1>2, <1>3, <1>4

LEMMA CompleteServedInv ==
  ASSUME SyncInv, CompleteServed
  PROVE  SyncInv'
<1>1. /\ Working /\ answered = "served" /\ asked = generation
      /\ answered' = "no" /\ floor' = snapshot /\ pending' = <<>> /\ phase' = "live"
      /\ TookIn(snapshot, pending)
      /\ UNCHANGED <<ownerVars, feedVars, subscribed, generation, wanted, request, asked,
                     snapshot, first, told>>
  BY DEF CompleteServed
<1>2. PICK c : /\ c = Completed(snapshot)
               /\ held' = c.held /\ removed' = c.removed
               /\ telling' = c.changes \o <<[kind |-> "done"]>>
  BY DEF CompleteServed
<1>3. PICK n \in Nat : n = snapshot
  BY Facts
<1>4. HasAnswer
  BY <1>1 DEF HasAnswer
<1>5. PICK len \in Nat : len = Len(pending)
  BY DEF SyncInv, Published
<1>6. GoodStage(c, pending, Len(pending), n, n, told)
  <2>1. c = Completed(n)
    BY <1>2, <1>3
  <2> QED BY <1>1, <1>3, <1>4, <2>1, CompletedIs
<1>7. c \in Copies /\ Tells(c.changes, c.held, told)
  BY <1>6 DEF GoodStage
<1>8. /\ pending \in Seq(1..Len(log)) /\ n <= Len(log) /\ n \in 0..Len(log)
      /\ log' = log /\ floor' = n
  BY <1>1, <1>3, Facts DEF SyncInv, Published, ownerVars
<1>9. \A e \in Entities : \E t \in 0..Len(log) :
        /\ t = seen[e] \/ t = n
        /\ seen[e] <= t /\ n <= t
        /\ \E x : IsNewest(x, SeenUpTo(t, pending, Len(pending), e)) /\ IsStateSeen(c, n, e, x)
  <2> TAKE e \in Entities
  <2>1. seen[e] <= n /\ n <= n
    BY <1>3, <1>4 DEF SyncInv, Fresh
  <2>2. \E x : IsNewest(x, SeenUpTo(n, pending, Len(pending), e)) /\ IsStateSeen(c, n, e, x)
    BY <1>6 DEF GoodStage
  <2> QED BY <1>8, <2>1, <2>2
<1>10. /\ Seen' /\ seen' \in [Entities -> Revisions]
       /\ \A e \in Entities :
            /\ n <= seen'[e]
            /\ \A k \in Range(pending) : log[k].entity = e => k <= seen'[e]
  <2>1. TookIn(n, pending)
    BY <1>1, <1>3
  <2>2. PICK revs : revs = pending
    OBVIOUS
  <2>3. /\ revs \in Seq(1..Len(log)) /\ TookIn(n, revs)
        /\ \A e \in Entities : \E t \in 0..Len(log) :
             /\ t = seen[e] \/ t = n
             /\ seen[e] <= t /\ n <= t
             /\ \E x : IsNewest(x, SeenUpTo(t, revs, Len(revs), e)) /\ IsStateSeen(c, n, e, x)
    BY <1>8, <1>9, <2>1, <2>2
  <2>4. /\ Seen' /\ seen' \in [Entities -> Revisions]
        /\ \A e \in Entities :
             /\ seen[e] <= seen'[e] /\ n <= seen'[e]
             /\ \A k \in Range(revs) : log[k].entity = e => k <= seen'[e]
    BY <1>2, <1>8, <2>3, TakenIn
  <2> QED BY <2>2, <2>4
<1>11. telling' \in Seq(Told) /\ Tells(telling', held', told)
  <2>1. PICK x \in [kind : {"synced", "done"}] : x = [kind |-> "done"]
    OBVIOUS
  <2>2. PICK before : before = told
    OBVIOUS
  <2>3. c.changes \in Seq(Told) /\ Tells(c.changes, c.held, before)
    BY <1>7, <2>2 DEF Copies
  <2>4. c.changes \o <<x>> \in Seq(Told) /\ Tells(c.changes \o <<x>>, c.held, before)
    BY <2>3, TellsNothing
  <2>5. telling' = c.changes \o <<x>> /\ held' = c.held
    BY <1>2, <2>1
  <2> QED BY <2>2, <2>4, <2>5
<1>12. TypeOK'
  <2>1. held' \in [Entities -> Revisions] /\ removed' \in [Entities -> Revisions]
    BY <1>2, <1>7 DEF Copies
  <2>2. pending' \in Seq(Revisions) /\ Len(pending') <= MaxBuffered
    BY <1>1
  <2>3. floor' \in Revisions
    BY <1>1 DEF SyncInv, TypeOK
  <2> QED BY <1>1, <1>10, <1>11, <2>1, <2>2, <2>3
       DEF SyncInv, TypeOK, Told, ownerVars, feedVars
<1>13. Published'
  BY <1>1 DEF SyncInv, Published, ownerVars, feedVars
<1>14. Rounds'
  <2>1. request = "no" /\ subscribed = Families /\ phase = "syncing"
    BY <1>1 DEF SyncInv, Rounds, Asking, Working, TypeOK
  <2>2. ~wanted
    <3>1. ~(asked < generation)
      BY <1>1, Facts
    <3> QED BY <1>1, <2>1, <3>1 DEF SyncInv, Rounds, Asking
  <2>3. ~Asking' /\ wanted' = wanted
    BY <1>1, <2>1 DEF Asking
  <2>4. asked <= generation
    BY DEF SyncInv, Rounds
  <2> QED BY <1>1, <2>1, <2>2, <2>3, <2>4 DEF Rounds
<1>15. Fresh' /\ ~HasAnswer'
  <2>1. request = "no"
    BY <1>1 DEF SyncInv, Rounds
  <2> QED BY <1>1, <2>1 DEF Fresh, HasAnswer
<1>16. Complete'
  <2>1. PICK s \in [Entities -> Nat] : \A e \in Entities : s[e] = n
    <3> DEFINE s == [e \in Entities |-> n]
    <3>1. s \in [Entities -> Nat] /\ \A e \in Entities : s[e] = n
      OBVIOUS
    <3> QED BY <3>1
  <2>2. \A e \in Entities : Follows(e, s[e])
    BY <1>1, <1>3, <1>4, <2>1 DEF SyncInv, Complete
  <2>3. PICK revs, rest : revs = pending /\ rest = <<>>
    OBVIOUS
  <2>4. \A e \in Entities :
          /\ s[e] <= seen'[e] /\ seen'[e] \in Nat
          /\ \A k \in Range(revs) : log[k].entity = e => k <= seen'[e]
    <3>1. \A e \in Entities : seen'[e] \in Nat
      BY <1>10 DEF Revisions
    <3> QED BY <1>10, <2>1, <2>3, <3>1
  <2>5. Range(pending) \subseteq Range(revs) \union Range(rest)
    BY <2>3
  <2>6. pending' = rest /\ UNCHANGED <<ownerVars, feedVars>>
    BY <1>1, <2>3
  <2>7. \A e \in Entities : Follows(e, seen[e])'
    BY <2>2, <2>4, <2>5, <2>6, FollowsOn
  <2> QED BY <1>15, <2>7 DEF Complete
<1>17. Telling'
  BY <1>1, <1>11 DEF Telling, Tells, About
<1> QED BY <1>10, <1>12, <1>13, <1>14, <1>15, <1>16, <1>17 DEF SyncInv

\* A live message is taken where the copy has not seen it yet.
LEMMA ApplyNextInv ==
  ASSUME SyncInv, ApplyNext
  PROVE  SyncInv'
<1>1. /\ phase # "closed" /\ telling = <<>> /\ answered = "no" /\ phase = "live"
      /\ pending # <<>> /\ pending' = Tail(pending)
      /\ TookIn(0, <<Head(pending)>>)
      /\ UNCHANGED <<ownerVars, feedVars, subscribed, phase, floor, generation, wanted,
                     askVars, first, told>>
  BY DEF ApplyNext, Working
<1>2. PICK rev, rest : rev = Head(pending) /\ rest = Tail(pending)
  OBVIOUS
<1>3. /\ pending \in Seq(1..Len(log)) /\ pending \in Seq(Revisions) /\ Len(pending) <= MaxBuffered
      /\ log \in Seq(Changes) /\ Len(log) \in Nat /\ Len(log) <= MaxRevision
  BY Facts DEF SyncInv, Published, TypeOK
<1>4. /\ rev \in 1..Len(log) /\ rest \in Seq(1..Len(log)) /\ rest \in Seq(Revisions)
      /\ Len(rest) <= MaxBuffered
  <2>1. rev \in 1..Len(log) /\ rest \in Seq(1..Len(log)) /\ rest \in Seq(Revisions)
    BY <1>1, <1>2, <1>3, HeadAndTail
  <2>2. Len(rest) = Len(pending) - 1
    BY <1>1, <1>2, <1>3
  <2> QED BY <1>3, <2>1, <2>2
<1>5. PICK n \in Nat : n = floor
  BY Facts
<1>6. PICK now : now = Now
  OBVIOUS
<1>7. PICK c : /\ c = TakeLive(now, rev, n)
               /\ held' = c.held /\ removed' = c.removed /\ telling' = c.changes
  BY <1>2, <1>5, <1>6 DEF ApplyNext
<1>8. /\ now \in Copies
      /\ Tells(now.changes, now.held, told)
      /\ \A e \in Entities : IsStateSeen(now, n, e, seen[e])
  BY <1>1, <1>5, <1>6, NowIsCopy DEF SyncInv, Seen
<1>9. c \in Copies /\ Tells(c.changes, c.held, told)
  <2>1. PICK before : before = told
    OBVIOUS
  <2>2. Tells(now.changes, now.held, before)
    BY <1>8, <2>1
  <2>3. c \in Copies
    BY <1>3, <1>4, <1>7, <1>8, TakeIsCopy
  <2>4. Tells(c.changes, c.held, before)
    BY <1>3, <1>4, <1>7, <1>8, <2>2, TakeTells
  <2> QED BY <2>1, <2>3, <2>4
<1>10. PICK revs : revs = <<rev>>
  OBVIOUS
<1>11. /\ revs \in Seq(1..Len(log)) /\ Len(revs) = 1 /\ revs[1] = rev /\ Range(revs) = {rev}
  <2>1. revs \in Seq(1..Len(log)) /\ Len(revs) = 1 /\ revs[1] = rev /\ DOMAIN revs = {1}
    BY <1>4, <1>10
  <2> QED BY <2>1 DEF Range
<1>12. \A e \in Entities : seen[e] \in 0..Len(log)
  BY <1>3, <1>5, <1>8 DEF IsStateSeen
<1>13. \A e \in Entities : \E t \in 0..Len(log) :
         /\ t = seen[e] \/ t = 0
         /\ seen[e] <= t /\ 0 <= t
         /\ \E x : IsNewest(x, SeenUpTo(t, revs, Len(revs), e)) /\ IsStateSeen(c, n, e, x)
  <2> TAKE e \in Entities
  <2>1. PICK t \in 0..Len(log) : t = seen[e]
    BY <1>12
  <2>2. IsStateSeen(now, n, e, t)
    BY <1>8, <2>1
  <2>3. IsStateSeen(c, n, e, SeenNow(t, rev, e))
    BY <1>3, <1>4, <1>7, <1>8, <2>2, TakeSeen
  <2>4. SeenUpTo(t, revs, Len(revs), e) = {t} \union {x \in {rev} : log[rev].entity = e}
    <3>1. \A k : k \in 1..1 <=> k = 1
      OBVIOUS
    <3> QED BY <1>11, <3>1 DEF SeenUpTo
  <2>5. IsNewest(SeenNow(t, rev, e), SeenUpTo(t, revs, Len(revs), e))
    <3>1. t \in Nat /\ rev \in Nat
      BY <1>3, <1>4
    <3>2. CASE log[rev].entity = e /\ t < rev
      BY <2>4, <3>1, <3>2 DEF IsNewest, SeenNow
    <3>3. CASE ~(log[rev].entity = e /\ t < rev)
      BY <2>4, <3>1, <3>3 DEF IsNewest, SeenNow
    <3> QED BY <3>2, <3>3
  <2>6. t <= t /\ 0 <= t
    BY <1>3
  <2> QED BY <2>1, <2>3, <2>5, <2>6
<1>14. /\ Seen' /\ seen' \in [Entities -> Revisions]
       /\ \A e \in Entities :
            /\ seen[e] <= seen'[e]
            /\ \A k \in Range(revs) : log[k].entity = e => k <= seen'[e]
  <2>1. TookIn(0, revs) /\ 0 \in 0..Len(log)
    BY <1>1, <1>2, <1>3, <1>10
  <2>2. log' = log /\ floor' = n /\ n <= Len(log) /\ held' = c.held /\ removed' = c.removed
    BY <1>1, <1>5, <1>7 DEF SyncInv, Published, ownerVars
  <2> QED BY <1>11, <1>13, <2>1, <2>2, TakenIn
<1>15. TypeOK'
  <2>1. /\ held' \in [Entities -> Revisions] /\ removed' \in [Entities -> Revisions]
        /\ telling' \in Seq(Told)
    BY <1>7, <1>9 DEF Copies
  <2>2. pending' \in Seq(Revisions) /\ Len(pending') <= MaxBuffered
    BY <1>1, <1>2, <1>4
  <2> QED BY <1>1, <1>14, <2>1, <2>2
       DEF SyncInv, TypeOK, Told, ownerVars, feedVars, askVars
<1>16. Published'
  <2>1. pending' \in Seq(1..Len(log'))
    BY <1>1, <1>2, <1>4 DEF ownerVars
  <2> QED BY <1>1, <2>1 DEF SyncInv, Published, ownerVars, feedVars, askVars
<1>17. Rounds'
  BY <1>1 DEF SyncInv, Rounds, Asking, askVars
<1>18. Fresh' /\ ~HasAnswer'
  <2>1. ~HasAnswer
    BY <1>1 DEF SyncInv, Rounds, Asking, HasAnswer
  <2> QED BY <1>1, <2>1 DEF Fresh, HasAnswer, askVars
<1>19. Complete'
  <2>1. PICK s \in [Entities -> Nat] : \A e \in Entities : s[e] = seen[e]
    <3> DEFINE s == [e \in Entities |-> seen[e]]
    <3>1. \A e \in Entities : seen[e] \in Nat
      BY <1>3, <1>12
    <3>2. s \in [Entities -> Nat] /\ \A e \in Entities : s[e] = seen[e]
      BY <3>1
    <3> QED BY <3>2
  <2>2. \A e \in Entities : Follows(e, s[e])
    BY <1>1, <2>1 DEF SyncInv, Complete
  <2>3. Range(pending) \subseteq Range(revs) \union Range(rest)
    <3> SUFFICES ASSUME NEW k \in Range(pending)
                 PROVE  k \in Range(revs) \union Range(rest)
      OBVIOUS
    <3>1. k = Head(pending) \/ k \in Range(Tail(pending))
      BY <1>3, HeadOrTail
    <3> QED BY <1>2, <1>11, <3>1
  <2>4. \A e \in Entities :
          /\ s[e] <= seen'[e] /\ seen'[e] \in Nat
          /\ \A k \in Range(revs) : log[k].entity = e => k <= seen'[e]
    <3>1. \A e \in Entities : seen'[e] \in Nat
      BY <1>14 DEF Revisions
    <3> QED BY <1>14, <2>1, <3>1
  <2>5. pending' = rest /\ UNCHANGED <<ownerVars, feedVars>>
    BY <1>1, <1>2
  <2>6. \A e \in Entities : Follows(e, seen[e])'
    BY <2>2, <2>3, <2>4, <2>5, FollowsOn
  <2> QED BY <1>18, <2>6 DEF Complete
<1>20. Telling'
  <2>1. Tells(telling', held', told)
    BY <1>7, <1>9
  <2> QED BY <1>1, <2>1 DEF Telling, Tells, About
<1> QED BY <1>14, <1>15, <1>16, <1>17, <1>18, <1>19, <1>20 DEF SyncInv

-----------------------------------------------------------------------------
(* The theorems.                                                           *)

LEMMA InitInv ==
  ASSUME Init
  PROVE  SyncInv
<1>1. 0 \in Revisions /\ 0 \in 0..MaxAgain
  BY DEF Revisions
<1>2. log = <<>> /\ Len(log) = 0
  BY DEF Init
<1>3. TypeOK
  <2>1. /\ log \in Seq([kind : {"state", "removal"}, entity : Entities])
        /\ inbox \in [Families -> Seq(Revisions)] /\ hand \in [Families -> Revisions]
        /\ pending \in Seq(Revisions) /\ Len(pending) <= MaxBuffered
    BY <1>1 DEF Init
  <2>2. telling \in Seq([kind : {"updated", "removed"}, entity : Entities, revision : Revisions]
                           \union [kind : {"synced", "done"}])
    BY DEF Init
  <2>3. /\ published \in Revisions /\ again \in 0..MaxAgain
        /\ dropped \subseteq Families /\ subscribed \subseteq Families
        /\ floor \in Revisions /\ snapshot \in Revisions
        /\ held \in [Entities -> Revisions] /\ removed \in [Entities -> Revisions]
        /\ told \in [Entities -> Revisions] /\ seen \in [Entities -> Revisions]
    BY <1>1 DEF Init
  <2> QED BY <2>1, <2>2, <2>3 DEF Init, TypeOK
<1>4. Published
  BY <1>2 DEF Init, Published
<1>5. Rounds
  BY DEF Init, Rounds, Asking
<1>6. Seen
  <2> SUFFICES ASSUME NEW e \in Entities PROVE IsStateSeen(Now, floor, e, seen[e])
    BY DEF Seen
  <2>1. ChangesOf(e, 0) = {}
    BY DEF ChangesOf
  <2>2. StateAt(e, 0) = 0
    BY <2>1 DEF StateAt
  <2>3. seen[e] = 0 /\ floor = 0 /\ Now.held[e] = 0 /\ Now.removed[e] = 0
    BY DEF Init, Now
  <2> QED BY <1>2, <2>2, <2>3 DEF IsStateSeen
<1>7. Fresh /\ Complete
  BY DEF Init, Fresh, Complete, HasAnswer
<1>8. Telling
  BY DEF Init, Telling, Tells
<1> QED BY <1>3, <1>4, <1>5, <1>6, <1>7, <1>8 DEF SyncInv

LEMMA StepInv ==
  ASSUME SyncInv, [Next]_vars
  PROVE  SyncInv'
<1>1. ASSUME NEW e \in Entities, NEW kind \in {"state", "removal"}, Change(e, kind)
      PROVE  SyncInv'
  BY <1>1, ChangeInv
<1>2. CASE Publish
  BY <1>2, PublishInv
<1>3. CASE SendAgain
  BY <1>3, SendAgainInv
<1>4. ASSUME NEW f \in Families, Subscribe(f) \/ Shift(f) \/ Arrive(f)
      PROVE  SyncInv'
  BY <1>4, SubscribeInv, ShiftInv, ArriveInv
<1>5. CASE Serve
  BY <1>5, ServeInv
<1>6. ASSUME NEW how \in {"served", "refused"}, Answered(how)
      PROVE  SyncInv'
  BY <1>6, AnsweredInv
<1>7. CASE Send \/ SendTooLate
  BY <1>7, SendInv
<1>8. CASE CompleteServed
  BY <1>8, CompleteServedInv
<1>9. CASE CompleteStale
  BY <1>9, CompleteStaleInv
<1>10. CASE CompleteRefused \/ Close
  <2>1. StopFollowing
    BY <1>10 DEF CompleteRefused, Close
  <2>2. first' \in {"waiting", "asked", "synced", "refused", "closed"}
    BY <1>10 DEF CompleteRefused, Close, SyncInv, TypeOK
  <2> QED BY <2>1, <2>2, StopInv
<1>11. CASE ApplyNext
  BY <1>11, ApplyNextInv
<1>12. CASE Notify
  BY <1>12, NotifyInv
<1>13. CASE UNCHANGED vars
  <2>1. /\ TypeOK' = TypeOK /\ Published' = Published /\ Rounds' = Rounds /\ Fresh' = Fresh
    BY <1>13 DEF vars, ownerVars, feedVars, dataVars, askVars, TypeOK, Published, Rounds,
                 Asking, Fresh, HasAnswer
  <2>2. Seen'
    BY <1>13, SeenKept DEF vars, ownerVars, LogStep
  <2>3. ComesOn
    BY <1>13, Facts, ComesOnQuiet DEF vars, ownerVars
  <2>4. Complete'
    BY <1>13, <2>3, CompleteKept DEF vars, dataVars, askVars, HasAnswer
  <2>5. Telling'
    BY <1>13, TellingKept DEF vars, dataVars
  <2> QED BY <2>1, <2>2, <2>4, <2>5 DEF SyncInv
<1> QED BY <1>1, <1>2, <1>3, <1>4, <1>5, <1>6, <1>7, <1>8, <1>9, <1>10, <1>11, <1>12, <1>13
     DEF Next

\* The inductive invariant holds of every behaviour.
THEOREM SyncInvariant == Spec => []SyncInv
BY InitInv, StepInv, PTL DEF Spec

\* Every part of the copy keeps its type, and the buffer of live messages its
\* limit (#arrive).
THEOREM SyncTypeOK == Spec => []TypeOK
<1>1. SyncInv => TypeOK
  BY DEF SyncInv
<1> QED BY <1>1, SyncInvariant, PTL

\* What a copy holds of an entity is the owner's state of it at the newest revision
\* the copy took in, whatever was lost, repeated, buffered or covered by a sync.
THEOREM SyncIsOwnersState == Spec => []Seen
<1>1. SyncInv => Seen
  BY DEF SyncInv
<1> QED BY <1>1, SyncInvariant, PTL

\* A live copy matches its owner in every entity of which nothing is on its way
\* or known to be lost (#complete, #arrive, #overflow).
THEOREM SyncNothingMissed == Spec => []NothingMissed
<1>1. ASSUME SyncInv PROVE NothingMissed
  <2> SUFFICES ASSUME phase = "live", NEW e \in Entities,
                      FamilyOf[e] \notin dropped, ~OnItsWay(e)
               PROVE  held[e] = StateAt(e, Len(log))
    BY DEF NothingMissed
  <2>1. Len(log) \in Nat /\ floor \in Nat
    BY <1>1, Facts
  <2>2. IsStateSeen(Now, floor, e, seen[e])
    BY <1>1 DEF SyncInv, Seen
  <2>3. PICK len, s : len = Len(log) /\ s = seen[e]
    OBVIOUS
  <2>4. len \in Nat /\ s \in 0..len /\ held[e] = StateAt(e, s)
    BY <2>1, <2>2, <2>3 DEF IsStateSeen, Now
  <2>5. \A k \in ChangesOf(e, len) : k <= s
    <3>1. Follows(e, s)
      BY <1>1, <2>3 DEF SyncInv, Complete
    <3> QED BY <2>3, <3>1 DEF Follows, Comes, OnItsWay
  <2>6. StateAt(e, s) = StateAt(e, len)
    BY <2>4, <2>5, SameState
  <2> QED BY <2>3, <2>4, <2>6
<1>2. SyncInv => NothingMissed
  BY <1>1
<1> QED BY <1>2, SyncInvariant, PTL

\* A worker with nothing left to tell has told the handler what the copy holds (#notify).
THEOREM SyncToldIsHeld == Spec => []ToldIsHeld
<1>1. ASSUME SyncInv PROVE ToldIsHeld
  <2> SUFFICES ASSUME phase # "closed", telling = <<>> PROVE told = held
    BY DEF ToldIsHeld
  <2>1. Tells(<<>>, held, told)
    BY <1>1 DEF SyncInv, Telling
  <2>2. \A e \in Entities : told[e] = held[e]
    BY <2>1 DEF Tells
  <2>3. told \in [Entities -> Revisions] /\ held \in [Entities -> Revisions]
    BY <1>1 DEF SyncInv, TypeOK
  <2> QED BY <2>2, <2>3
<1>2. SyncInv => ToldIsHeld
  BY <1>1
<1> QED BY <1>2, SyncInvariant, PTL

\* What was taken in is never forgotten.
LEMMA SeenGrows ==
  ASSUME SyncInv, NEW n \in 0..Len(log), NEW revs \in Seq(1..Len(log)), TookIn(n, revs),
         NEW e \in Entities
  PROVE  seen[e] <= seen'[e]
<1>1. PICK len \in Nat : len = Len(log)
  BY Facts
<1>2. PICK s \in 0..len : s = seen[e]
  BY <1>1, Facts DEF SyncInv, Seen, IsStateSeen
<1>3. PICK S : S = {s, n} \union {k \in Range(revs) : log[k].entity = e} \union {0}
  OBVIOUS
<1>4. Range(revs) \subseteq 1..len
  <2>1. DOMAIN revs = 1..Len(revs) /\ \A j \in 1..Len(revs) : revs[j] \in 1..len
    BY <1>1
  <2> QED BY <2>1 DEF Range
<1>5. S \in SUBSET (0..len) /\ s \in S
  BY <1>1, <1>3, <1>4
<1>6. s <= Max(S)
  BY <1>5, MaxOfBounded
<1>7. seen'[e] = Max(S)
  BY <1>2, <1>3 DEF TookIn, Newest
<1> QED BY <1>2, <1>6, <1>7

\* A later revision of the same log brings back no older state.
LEMMA NoStepBack ==
  ASSUME SyncInv, SyncInv', UNCHANGED log, NEW e \in Entities, seen[e] <= seen'[e],
         held'[e] # held[e], held'[e] # 0
  PROVE  held'[e] > seen[e]
<1>1. PICK len, s : len = Len(log) /\ s = seen[e]
  OBVIOUS
<1>2. len \in Nat /\ s \in 0..len /\ held[e] = StateAt(e, s)
  BY <1>1, Facts DEF SyncInv, Seen, IsStateSeen, Now
<1>3. PICK t : t = seen'[e]
  OBVIOUS
<1>4. /\ t \in floor'..Len(log') /\ held'[e] = StateAt(e, t)' /\ floor' \in Nat
  <2>1. IsStateSeen(Now, floor, e, t)'
    BY <1>3 DEF SyncInv, Seen
  <2> QED BY <2>1 DEF IsStateSeen, Now, SyncInv, TypeOK, Revisions
<1>5. t \in 0..len /\ s <= t /\ StateAt(e, t)' = StateAt(e, t)
  BY <1>1, <1>2, <1>3, <1>4 DEF StateAt, ChangesOf
<1>6. PICK h : h = held'[e]
  OBVIOUS
<1>7. h = StateAt(e, t) /\ h # 0
  BY <1>4, <1>5, <1>6
<1>8. LastChange(e, t, h) /\ h \in 0..t
  BY <1>5, <1>7, StateAtIsLast
<1>9. CASE h <= s
  <2>1. \A k \in ChangesOf(e, t) : k <= s
    BY <1>2, <1>5, <1>8, <1>9, ChangesOfIs DEF LastChange
  <2>2. StateAt(e, s) = StateAt(e, t)
    BY <1>2, <1>5, <2>1, SameState
  <2> QED BY <1>2, <1>6, <1>7, <2>2
<1>10. CASE s < h
  BY <1>1, <1>6, <1>10
<1> QED BY <1>2, <1>5, <1>8, <1>9, <1>10

LEMMA NeverBackStep ==
  ASSUME SyncInv, SyncInv', [Next]_vars, NEW e \in Entities, held'[e] # held[e], held'[e] # 0
  PROVE  held'[e] > seen[e]
<1>1. CompleteServed \/ ApplyNext
  BY DEF Next, vars, dataVars, Change, Publish, SendAgain, Subscribe, Shift, Arrive, Serve,
         Answered, Send, SendTooLate, CompleteStale, CompleteRefused, Close, StopFollowing, Notify
<1>2. pending \in Seq(1..Len(log)) /\ snapshot \in 0..Len(log) /\ 0 \in 0..Len(log)
  BY Facts DEF SyncInv, Published
<1>3. UNCHANGED log /\ seen[e] <= seen'[e]
  <2>1. CASE CompleteServed
    <3>1. TookIn(snapshot, pending) /\ UNCHANGED log
      BY <2>1 DEF CompleteServed, ownerVars
    <3>2. PICK n, revs : n = snapshot /\ revs = pending
      OBVIOUS
    <3>3. n \in 0..Len(log) /\ revs \in Seq(1..Len(log)) /\ TookIn(n, revs)
      BY <1>2, <3>1, <3>2
    <3> QED BY <3>1, <3>3, SeenGrows
  <2>2. CASE ApplyNext
    <3>1. TookIn(0, <<Head(pending)>>) /\ UNCHANGED log /\ pending # <<>>
      BY <2>2 DEF ApplyNext, ownerVars
    <3>2. PICK revs : revs = <<Head(pending)>>
      OBVIOUS
    <3>3. Head(pending) \in 1..Len(log)
      BY <1>2, <3>1, HeadAndTail
    <3>4. revs \in Seq(1..Len(log)) /\ TookIn(0, revs)
      BY <3>1, <3>2, <3>3
    <3> QED BY <1>2, <3>1, <3>4, SeenGrows
  <2> QED BY <1>1, <2>1, <2>2
<1> QED BY <1>3, NoStepBack

\* No message sent again, buffered or late brings back an older record or one that
\* was removed (#apply).
THEOREM SyncNeverBack == Spec => NeverBack
<1>1. SyncInv /\ SyncInv' /\ [Next]_vars =>
        [\A e \in Entities :
           held'[e] # held[e] /\ held'[e] # 0 => held'[e] > seen[e]]_vars
  BY NeverBackStep
<1> QED BY <1>1, SyncInvariant, PTL DEF Spec, NeverBack

=============================================================================

------------------------ MODULE OutcomeDeliveryProofs ------------------------
(***************************************************************************)
(* What the module's outbox and the core's intake keep together, for every *)
(* number of rows, every limit of the intake and any amount of trouble.    *)
(*                                                                         *)
(* That no outcome is lost rests on one fact about everything that travels *)
(* back: an acknowledgment, wherever it is, is of a row history holds.     *)
(* That rows first go out in order rests on two about everything that      *)
(* travels out: a row that left the outbox, or waits in the intake, went   *)
(* out, and before a row of a batch every smaller one did or is in it.     *)
(***************************************************************************)
EXTENDS OutcomeDelivery, SequenceTheorems, WellFoundedInduction, TLAPS

\* The rows are those the module committed, and only they go out.
RowsStored ==
  /\ \A n \in Rows : row[n] = "none" <=> n > stored
  /\ \A n \in todo \union wentOut : n <= stored

\* An acknowledgment, at either side or between them, is of a recorded row.
AcksAreTrue ==
  \A n \in acks \union heard \union ackbox \union ackSent : recorded[n] > 0

\* What the intake holds or history does went out, and so did whatever the
\* outbox no longer has to publish for the first time.
ArrivedWentOut ==
  /\ \A i \in 1..Len(intake) : intake[i] \in wentOut
  /\ sent \subseteq wentOut
  /\ \A n \in Rows : recorded[n] > 0 \/ row[n] \in {"published", "gone"} => n \in wentOut

\* Before a row of the batch every smaller one went out or is in the batch.
BatchInOrder == \A n \in todo : \A k \in 1..n : k \in todo \union wentOut

OutcomeInv ==
  /\ TypeOK
  /\ RowsStored /\ AcksAreTrue /\ ArrivedWentOut /\ BatchInOrder
  /\ OutcomeKept /\ RecordedOnce /\ FirstSentInOrder

-----------------------------------------------------------------------------

LEMMA LeastNumber ==
  ASSUME NEW S \in SUBSET Nat, S # {}
  PROVE  \E n \in S : \A k \in S : n <= k
<1>1. PICK n \in S : \A k \in S : ~(<<k, n>> \in OpToRel(<, Nat))
  BY WFMin, NatLessThanWellFounded
<1>2. \A k \in S : ~(k < n)
  BY <1>1 DEF OpToRel
<1> QED BY <1>2

LEMMA FirstOfBatch ==
  ASSUME NEW S \in SUBSET Rows, S # {}
  PROVE  First(S) \in S /\ \A k \in S : First(S) <= k
<1>1. S \in SUBSET Nat
  BY OutcomeAssumption DEF Rows
<1> QED BY <1>1, LeastNumber DEF First

LEMMA RowsAreNat == Rows \subseteq Nat \ {0} /\ OutcomeRows \subseteq Rows /\ MaxRows \in Nat
BY OutcomeAssumption DEF Rows

LEMMA LossTyped ==
  ASSUME OutcomeInv, Loss
  PROVE  clean' \in BOOLEAN /\ trouble' \in Nat
<1>1. clean' = FALSE /\ trouble' = trouble + 1
  BY DEF Loss, Trouble
<1>2. clean' \in BOOLEAN
  BY <1>1
<1>3. trouble' \in Nat
  BY <1>1 DEF OutcomeInv, TypeOK
<1> QED BY <1>2, <1>3

-----------------------------------------------------------------------------

LEMMA InitKeeps == Init => OutcomeInv
<1> SUFFICES ASSUME Init PROVE OutcomeInv
  OBVIOUS
<1>1. TypeOK
  <2>1. <<>> \in Seq(Rows) /\ Len(<<>>) = 0
    BY EmptySeq
  <2>2. stored \in 0..MaxRows /\ due \in Nat /\ trouble \in Nat /\ 0 <= MaxQueued
    BY OutcomeAssumption DEF Init
  <2> QED BY <2>1, <2>2 DEF Init, TypeOK
<1> QED BY <1>1, RowsAreNat DEF Init, OutcomeInv, RowsStored, AcksAreTrue, ArrivedWentOut,
           BatchInOrder, OutcomeKept, RecordedOnce, FirstSentInOrder

\* Steps that only start, stop or hear something.
LEMMA ControlKeeps ==
  ASSUME OutcomeInv,
         UNCHANGED <<stored, row, recorded, wentOut>>,
         intake' \in {intake, <<>>},
         todo' \in {todo, {}}, sent' \in {sent, {}},
         acks' \union heard' \union ackbox' \union ackSent'
           \subseteq acks \union heard \union ackbox \union ackSent,
         running' \in BOOLEAN, following' \in BOOLEAN, replay' \in BOOLEAN,
         due' \in Nat, sending' \in BOOLEAN, taking' \in BOOLEAN, clean' \in BOOLEAN,
         trouble' \in Nat
  PROVE  OutcomeInv'
<1>1. intake' \in Seq(Rows) /\ Len(intake') <= MaxQueued
      /\ \A i \in 1..Len(intake') : intake'[i] \in wentOut
  <2>1. <<>> \in Seq(Rows) /\ Len(<<>>) = 0 /\ 0 <= MaxQueued
    BY EmptySeq, OutcomeAssumption
  <2>2. CASE intake' = intake
    BY <2>2 DEF OutcomeInv, TypeOK, ArrivedWentOut
  <2>3. CASE intake' = <<>>
    BY <2>1, <2>3
  <2> QED BY <2>2, <2>3
<1>2. TypeOK'
  BY <1>1 DEF OutcomeInv, TypeOK
<1>3. RowsStored' /\ AcksAreTrue' /\ OutcomeKept' /\ RecordedOnce' /\ FirstSentInOrder'
  BY DEF OutcomeInv, RowsStored, AcksAreTrue, OutcomeKept, RecordedOnce, FirstSentInOrder
<1>4. ArrivedWentOut' /\ BatchInOrder'
  BY <1>1 DEF OutcomeInv, ArrivedWentOut, BatchInOrder
<1> QED BY <1>2, <1>3, <1>4 DEF OutcomeInv

LEMMA StartsAndStopsKeep ==
  ASSUME OutcomeInv,
         \/ ModuleStart \/ Follow \/ Refused \/ SettleFails \/ ForgetFails
         \/ ModuleCrash \/ AckSettle \/ CoreCrash \/ CoreStart
         \/ (\E n \in Rows : Hear(n)) \/ UNCHANGED vars
  PROVE  OutcomeInv'
<1>1. /\ UNCHANGED <<stored, row, recorded, wentOut>>
      /\ intake' \in {intake, <<>>}
      /\ todo' \in {todo, {}} /\ sent' \in {sent, {}}
  BY DEF ModuleStart, Follow, Refused, SettleFails, ForgetFails, ModuleCrash,
         AckSettle, CoreCrash, CoreStart, Hear, vars, moduleVars, coreVars
<1>2. acks' \union heard' \union ackbox' \union ackSent'
        \subseteq acks \union heard \union ackbox \union ackSent
  BY DEF ModuleStart, Follow, Refused, SettleFails, ForgetFails, ModuleCrash,
         AckSettle, CoreCrash, CoreStart, Hear, vars, moduleVars, coreVars
<1>3. /\ running' \in BOOLEAN /\ following' \in BOOLEAN /\ replay' \in BOOLEAN
      /\ due' \in Nat /\ sending' \in BOOLEAN /\ taking' \in BOOLEAN
      /\ clean' \in BOOLEAN /\ trouble' \in Nat
  <2> USE DEF OutcomeInv, TypeOK, moduleVars, coreVars
  <2>1. CASE ModuleStart \/ Follow
    BY <2>1 DEF ModuleStart, Follow
  <2>2. CASE Refused \/ ForgetFails
    BY <2>2, LossTyped DEF Refused, ForgetFails
  <2>8. CASE SettleFails
    <3>1. sending' = FALSE /\ trouble' = trouble + 1
      BY <2>8 DEF SettleFails, Trouble
    <3>2. sending' \in BOOLEAN
      BY <3>1
    <3> QED BY <2>8, <3>1, <3>2 DEF SettleFails
  <2>3. CASE ModuleCrash
    <3>1. /\ running' = FALSE /\ following' = FALSE /\ replay' = FALSE
          /\ due' = 0 /\ sending' = FALSE /\ taking' = taking
      BY <2>3 DEF ModuleCrash
    <3>2. running' \in BOOLEAN /\ following' \in BOOLEAN
      BY <3>1
    <3>3. replay' \in BOOLEAN /\ sending' \in BOOLEAN
      BY <3>1
    <3> QED BY <2>3, <3>1, <3>2, <3>3, LossTyped DEF ModuleCrash
  <2>4. CASE AckSettle
    BY <2>4 DEF AckSettle
  <2>5. CASE CoreCrash
    <3>1. taking' \in BOOLEAN
      BY <2>5 DEF CoreCrash
    <3> QED BY <2>5, <3>1, LossTyped DEF CoreCrash
  <2>6. CASE CoreStart
    BY <2>6 DEF CoreStart
  <2>7. CASE (\E n \in Rows : Hear(n)) \/ UNCHANGED vars
    BY <2>7 DEF Hear, vars
  <2> QED BY <2>1, <2>2, <2>3, <2>4, <2>5, <2>6, <2>7, <2>8
<1> QED BY <1>1, <1>2, <1>3, ControlKeeps

LEMMA CommitKeeps == OutcomeInv /\ Commit => OutcomeInv'
<1> SUFFICES ASSUME OutcomeInv, Commit PROVE OutcomeInv'
  OBVIOUS
<1>1. /\ stored \in 0..MaxRows /\ stored < MaxRows /\ stored' = stored + 1
      /\ row \in [Rows -> {"none", "new", "published", "gone"}]
      /\ row' = [row EXCEPT ![stored + 1] = "new"]
      /\ due \in Nat /\ due' = due + 1
      /\ UNCHANGED <<running, following, replay, sending, todo, sent, heard, acks, intake,
                     taking, recorded, ackbox, ackSent, wentOut, clean, trouble>>
  BY DEF Commit, OutcomeInv, TypeOK, coreVars
<1>2. stored + 1 \in Rows /\ stored' \in 0..MaxRows /\ due' \in Nat
  BY <1>1, OutcomeAssumption DEF Rows
<1>3. \A n \in Rows : row'[n] = IF n = stored + 1 THEN "new" ELSE row[n]
  BY <1>1
<1>4. row' \in [Rows -> {"none", "new", "published", "gone"}]
  BY <1>1, <1>2
<1>5. TypeOK'
  BY <1>1, <1>2, <1>4 DEF OutcomeInv, TypeOK
<1>6. RowsStored'
  BY <1>1, <1>3, RowsAreNat DEF TypeOK, OutcomeInv, RowsStored
<1>7. OutcomeKept' /\ AcksAreTrue' /\ RecordedOnce' /\ FirstSentInOrder' /\ BatchInOrder'
  BY <1>1, <1>3, RowsAreNat DEF OutcomeInv, OutcomeKept, AcksAreTrue, RecordedOnce,
     FirstSentInOrder, BatchInOrder
<1>8. ArrivedWentOut'
  BY <1>1, <1>3 DEF OutcomeInv, ArrivedWentOut
<1> QED BY <1>5, <1>6, <1>7, <1>8 DEF OutcomeInv

LEMMA BeginKeeps ==
  ASSUME OutcomeInv, BeginReplay \/ BeginSend
  PROVE  OutcomeInv'
<1>1. PICK states \in {{"new"}, {"new", "published"}} : Begin(states)
  BY DEF BeginReplay, BeginSend
<1>2. /\ sending' = TRUE /\ todo' = Select(states) /\ sent' = {}
      /\ UNCHANGED <<stored, row, running, following, heard, acks, intake, taking,
                     recorded, ackbox, ackSent, wentOut, clean, trouble>>
  BY <1>1 DEF Begin, coreVars
<1>3. todo' \subseteq Rows /\ replay' \in BOOLEAN /\ due' \in Nat
  <2>1. CASE BeginReplay
    BY <1>2, <2>1 DEF Select, BeginReplay, OutcomeInv, TypeOK
  <2>2. CASE BeginSend
    BY <1>2, <2>2 DEF Select, BeginSend, OutcomeInv, TypeOK
  <2> QED BY <2>1, <2>2
<1>4. TypeOK'
  BY <1>2, <1>3 DEF OutcomeInv, TypeOK
<1>5. ASSUME NEW n \in todo', NEW k \in 1..n PROVE k \in todo' \union wentOut
  <2>1. /\ n \in Rows /\ row[n] \in states /\ row[n] # "none"
        /\ k \in Rows /\ k <= n
    BY <1>2, <1>5, OutcomeAssumption DEF Select, Rows
  <2>2. row[k] \in {"new", "published", "gone"}
    BY <2>1, RowsAreNat DEF OutcomeInv, RowsStored, TypeOK
  <2>3. row[k] = "new" => k \in todo'
    BY <1>2, <2>1 DEF Select
  <2> QED BY <2>1, <2>2, <2>3 DEF OutcomeInv, ArrivedWentOut
<1>6. BatchInOrder'
  BY <1>2, <1>5 DEF BatchInOrder
<1>7. RowsStored'
  <2>1. \A n \in todo' : n <= stored
    BY <1>2, RowsAreNat DEF Select, OutcomeInv, RowsStored, TypeOK
  <2> QED BY <1>2, <2>1 DEF OutcomeInv, RowsStored
<1> QED BY <1>2, <1>4, <1>6, <1>7 DEF OutcomeInv, AcksAreTrue, ArrivedWentOut,
           OutcomeKept, RecordedOnce, FirstSentInOrder

LEMMA PublishKeeps == OutcomeInv /\ Publish => OutcomeInv'
<1> SUFFICES ASSUME OutcomeInv, Publish PROVE OutcomeInv'
  OBVIOUS
<1> DEFINE f == First(todo)
<1>1. /\ todo \in SUBSET Rows /\ todo # {}
      /\ todo' = todo \ {f} /\ sent' = sent \union {f} /\ wentOut' = wentOut \union {f}
      /\ UNCHANGED <<stored, row, running, following, replay, due, sending, heard, acks,
                     taking, recorded, ackbox, ackSent>>
  BY DEF Publish, OutcomeInv, TypeOK, coreVars
<1>2. f \in todo /\ f \in Rows /\ \A k \in todo : f <= k
  BY <1>1, FirstOfBatch
<1>3. \/ intake' = Append(intake, f) /\ Len(intake) < MaxQueued
      \/ intake' = intake
  BY DEF Publish
<1>4. clean' \in BOOLEAN /\ trouble' \in Nat
  <2>1. CASE Fine
    BY <2>1 DEF Fine, OutcomeInv, TypeOK
  <2>2. CASE Loss
    BY <2>2, LossTyped
  <2> QED BY <2>1, <2>2 DEF Publish
<1> HIDE DEF f
<1>5. intake \in Seq(Rows) /\ Len(intake) \in Nat /\ Len(intake) <= MaxQueued
  BY LenProperties DEF OutcomeInv, TypeOK
<1>6. /\ intake' \in Seq(Rows) /\ Len(intake') <= MaxQueued
      /\ \A i \in 1..Len(intake') : intake'[i] \in wentOut'
  <2>1. \A i \in 1..Len(intake) : intake[i] \in wentOut
    BY DEF OutcomeInv, ArrivedWentOut
  <2>2. CASE intake' = intake
    BY <1>1, <1>5, <2>1, <2>2
  <2>3. CASE intake' = Append(intake, f) /\ Len(intake) < MaxQueued
    <3>1. /\ intake' \in Seq(Rows) /\ Len(intake') = Len(intake) + 1
          /\ intake'[Len(intake) + 1] = f
          /\ \A i \in 1..Len(intake) : intake'[i] = intake[i]
      BY <1>2, <1>5, <2>3, AppendProperties
    <3> QED BY <1>1, <1>5, <2>1, <2>3, <3>1, OutcomeAssumption
  <2> QED BY <1>3, <2>2, <2>3
<1>7. TypeOK'
  BY <1>1, <1>2, <1>4, <1>6 DEF OutcomeInv, TypeOK
<1>8. BatchInOrder'
  BY <1>1 DEF OutcomeInv, BatchInOrder
<1>9. FirstSentInOrder'
  <2> SUFFICES ASSUME NEW k \in 1..f PROVE k \in wentOut'
    BY <1>1 DEF OutcomeInv, FirstSentInOrder
  <2>1. k \in todo \union wentOut
    BY <1>2 DEF OutcomeInv, BatchInOrder
  <2>2. k \in todo => k = f
    BY <1>2, RowsAreNat
  <2> QED BY <1>1, <2>1, <2>2
<1>10. ArrivedWentOut'
  BY <1>1, <1>6 DEF OutcomeInv, ArrivedWentOut
<1>11. RowsStored'
  BY <1>1, <1>2 DEF OutcomeInv, RowsStored
<1>12. AcksAreTrue' /\ OutcomeKept' /\ RecordedOnce'
  BY <1>1 DEF OutcomeInv, AcksAreTrue, OutcomeKept, RecordedOnce
<1> QED BY <1>7, <1>8, <1>9, <1>10, <1>11, <1>12 DEF OutcomeInv

\* A row leaves when it went out, or when its acknowledgment was heard.
LEMMA RowsLeaveKeep ==
  ASSUME OutcomeInv, Settle \/ Forget
  PROVE  OutcomeInv'
<1>1. /\ row' \in [Rows -> {"none", "new", "published", "gone"}]
      /\ \A n \in Rows :
           \/ row'[n] = row[n]
           \/ /\ n \in sent /\ row'[n] \in {"published", "gone"}
              /\ n \in OutcomeRows => row'[n] = "published"
           \/ n \in heard /\ row'[n] = "gone"
  <2>1. CASE Settle
    BY <2>1 DEF Settle, OutcomeInv, TypeOK
  <2>2. CASE Forget
    BY <2>2 DEF Forget, OutcomeInv, TypeOK
  <2> QED BY <2>1, <2>2
<1>2. /\ UNCHANGED <<stored, running, following, replay, due, todo, acks, intake,
                     taking, recorded, ackbox, ackSent, wentOut, clean, trouble>>
      /\ sending' \in BOOLEAN /\ sent' \in {sent, {}} /\ heard' \in {heard, {}}
  <2>1. CASE Settle
    BY <2>1 DEF Settle, coreVars
  <2>2. CASE Forget
    BY <2>2 DEF Forget, coreVars, OutcomeInv, TypeOK
  <2> QED BY <2>1, <2>2
<1>3. TypeOK'
  BY <1>1, <1>2 DEF OutcomeInv, TypeOK
<1>4. \A n \in heard : n \in Rows /\ recorded[n] > 0 /\ n \in wentOut /\ n <= stored
  BY DEF OutcomeInv, TypeOK, AcksAreTrue, ArrivedWentOut, RowsStored
<1>5. \A n \in sent : n \in Rows /\ n \in wentOut /\ n <= stored
  BY DEF OutcomeInv, TypeOK, ArrivedWentOut, RowsStored
<1>6. RowsStored'
  BY <1>1, <1>2, <1>4, <1>5, RowsAreNat DEF OutcomeInv, TypeOK, RowsStored
<1>7. AcksAreTrue' /\ BatchInOrder' /\ RecordedOnce' /\ FirstSentInOrder'
  BY <1>2 DEF OutcomeInv, AcksAreTrue, BatchInOrder, RecordedOnce, FirstSentInOrder
<1>8. ArrivedWentOut'
  BY <1>1, <1>2, <1>4, <1>5 DEF OutcomeInv, ArrivedWentOut
<1>9. OutcomeKept'
  <2> SUFFICES ASSUME NEW n \in OutcomeRows, n <= stored, recorded[n] = 0
               PROVE  row'[n] \in {"new", "published"}
    BY <1>2 DEF OutcomeKept
  <2>1. row[n] \in {"new", "published"} /\ n \in Rows
    BY RowsAreNat DEF OutcomeInv, OutcomeKept
  <2>2. n \notin heard
    BY <1>4
  <2> QED BY <1>1, <2>1, <2>2
<1> QED BY <1>3, <1>6, <1>7, <1>8, <1>9 DEF OutcomeInv

-----------------------------------------------------------------------------

\* What the core takes from its intake, and what stays.
LEMMA TakenFromIntake ==
  ASSUME OutcomeInv, NEW k \in 1..Len(intake)
  PROVE  /\ Taken(k) \subseteq Rows \intersect wentOut
         /\ SubSeq(intake, k + 1, Len(intake)) \in Seq(Rows)
         /\ Len(SubSeq(intake, k + 1, Len(intake))) <= MaxQueued
         /\ \A i \in 1..Len(SubSeq(intake, k + 1, Len(intake))) :
              SubSeq(intake, k + 1, Len(intake))[i] \in wentOut
<1>1. /\ intake \in Seq(Rows) /\ Len(intake) \in Nat /\ Len(intake) <= MaxQueued
      /\ \A i \in 1..Len(intake) : intake[i] \in Rows /\ intake[i] \in wentOut
  BY LenProperties, ElementOfSeq DEF OutcomeInv, TypeOK, ArrivedWentOut
<1>2. k \in Nat /\ k + 1 \in Int /\ Len(intake) \in Int /\ k >= 1
  BY <1>1
<1>3. \A i \in k + 1..Len(intake) : i \in 1..Len(intake) /\ intake[i] \in Rows
  BY <1>1, <1>2
<1> DEFINE rest == SubSeq(intake, k + 1, Len(intake))
<1>4. /\ rest \in Seq(Rows)
      /\ Len(rest) = IF k + 1 <= Len(intake) THEN Len(intake) - (k + 1) + 1 ELSE 0
      /\ \A i \in 1..Len(intake) - (k + 1) + 1 : rest[i] = intake[(k + 1) + i - 1]
  BY <1>2, <1>3, SubSeqProperties
<1> HIDE DEF rest
<1>5. Len(rest) <= MaxQueued /\ \A i \in 1..Len(rest) : rest[i] \in wentOut
  BY <1>1, <1>2, <1>4, OutcomeAssumption
<1>6. Taken(k) \subseteq Rows \intersect wentOut
  BY <1>1, <1>2 DEF Taken
<1> QED BY <1>4, <1>5, <1>6 DEF rest

LEMMA GroupKeeps ==
  ASSUME OutcomeInv, NEW k \in 1..MaxQueued, Group(k)
  PROVE  OutcomeInv'
<1> DEFINE rest == SubSeq(intake, k + 1, Len(intake))
           new == New(Taken(k))
           again == (Taken(k) \ new) \intersect OutcomeRows
<1>1. /\ k \in 1..Len(intake) /\ intake' = rest
      /\ recorded' = [n \in Rows |-> IF n \in new THEN recorded[n] + 1 ELSE recorded[n]]
      /\ ackbox' = ackbox \union (new \intersect OutcomeRows)
      /\ Deliver(again)
      /\ UNCHANGED <<stored, row, running, following, replay, due, sending, todo, sent,
                     heard, taking, ackSent, wentOut>>
  BY DEF Group, moduleVars
<1>2. /\ Taken(k) \subseteq Rows \intersect wentOut
      /\ rest \in Seq(Rows) /\ Len(rest) <= MaxQueued
      /\ \A i \in 1..Len(rest) : rest[i] \in wentOut
  BY <1>1, TakenFromIntake
<1>3. /\ new \subseteq Taken(k) /\ \A n \in new : recorded[n] = 0
      /\ again \subseteq Rows /\ \A n \in again : recorded[n] > 0
  BY <1>2 DEF New, OutcomeInv, TypeOK
<1> HIDE DEF rest, new, again
<1>4. acks' \subseteq acks \union again
  BY <1>1 DEF Deliver
<1>5. clean' \in BOOLEAN /\ trouble' \in Nat
  <2>1. CASE Fine
    BY <2>1 DEF Fine, OutcomeInv, TypeOK
  <2>2. CASE Loss
    BY <2>2, LossTyped
  <2> QED BY <1>1, <2>1, <2>2 DEF Deliver
<1>6. /\ recorded' \in [Rows -> Nat]
      /\ \A n \in Rows : recorded'[n] = IF n \in new THEN 1 ELSE recorded[n]
  BY <1>1, <1>3 DEF OutcomeInv, TypeOK
<1>7. TypeOK'
  BY <1>1, <1>2, <1>3, <1>4, <1>5, <1>6 DEF OutcomeInv, TypeOK
<1>8. AcksAreTrue'
  BY <1>1, <1>2, <1>3, <1>4, <1>6 DEF OutcomeInv, AcksAreTrue, TypeOK
<1>9. ArrivedWentOut'
  BY <1>1, <1>2, <1>3, <1>6 DEF OutcomeInv, ArrivedWentOut
<1>10. RecordedOnce' /\ OutcomeKept'
  BY <1>1, <1>6, RowsAreNat DEF OutcomeInv, RecordedOnce, OutcomeKept
<1> QED BY <1>1, <1>7, <1>8, <1>9, <1>10
        DEF OutcomeInv, RowsStored, BatchInOrder, FirstSentInOrder

LEMMA GroupRefusedKeeps ==
  ASSUME OutcomeInv, NEW k \in 1..MaxQueued, GroupRefused(k)
  PROVE  OutcomeInv'
<1> DEFINE rest == SubSeq(intake, k + 1, Len(intake))
<1>1. /\ k \in 1..Len(intake) /\ intake' = rest /\ Loss
      /\ UNCHANGED <<stored, row, running, following, replay, due, sending, todo, sent,
                     heard, taking, recorded, ackbox, ackSent, wentOut>>
  BY DEF GroupRefused, moduleVars, coreVars
<1>2. /\ Taken(k) \subseteq Rows \intersect wentOut
      /\ rest \in Seq(Rows) /\ Len(rest) <= MaxQueued
      /\ \A i \in 1..Len(rest) : rest[i] \in wentOut
  BY <1>1, TakenFromIntake
<1>3. \A n \in acks' \ acks : n \in Rows /\ recorded[n] > 0
  BY <1>2 DEF GroupRefused, New, OutcomeInv, TypeOK
<1> HIDE DEF rest
<1>4. clean' \in BOOLEAN /\ trouble' \in Nat
  BY <1>1, LossTyped
<1>5. TypeOK'
  BY <1>1, <1>2, <1>3, <1>4 DEF OutcomeInv, TypeOK
<1>6. AcksAreTrue' /\ ArrivedWentOut'
  BY <1>1, <1>2, <1>3 DEF OutcomeInv, AcksAreTrue, ArrivedWentOut
<1> QED BY <1>1, <1>5, <1>6 DEF OutcomeInv, RowsStored, BatchInOrder,
           OutcomeKept, RecordedOnce, FirstSentInOrder

LEMMA AckSendKeeps ==
  ASSUME OutcomeInv, NEW n \in Rows, AckSend(n)
  PROVE  OutcomeInv'
<1>1. /\ n \in ackbox /\ ackSent' = ackSent \union {n} /\ Deliver({n})
      /\ UNCHANGED <<stored, row, running, following, replay, due, sending, todo, sent,
                     heard, intake, taking, recorded, ackbox, wentOut>>
  BY DEF AckSend, moduleVars
<1>2. acks' \subseteq acks \union {n}
  BY <1>1 DEF Deliver
<1>3. clean' \in BOOLEAN /\ trouble' \in Nat
  <2>1. CASE Fine
    BY <2>1 DEF Fine, OutcomeInv, TypeOK
  <2>2. CASE Loss
    BY <2>2, LossTyped
  <2> QED BY <1>1, <2>1, <2>2 DEF Deliver
<1>4. acks' \union heard' \union ackbox' \union ackSent'
        \subseteq acks \union heard \union ackbox \union ackSent
  BY <1>1, <1>2
<1>5. /\ running' \in BOOLEAN /\ following' \in BOOLEAN /\ replay' \in BOOLEAN
      /\ due' \in Nat /\ sending' \in BOOLEAN /\ taking' \in BOOLEAN
  BY <1>1 DEF OutcomeInv, TypeOK
<1>6. intake' \in {intake, <<>>} /\ todo' \in {todo, {}} /\ sent' \in {sent, {}}
  BY <1>1
<1> QED BY <1>1, <1>3, <1>4, <1>5, <1>6, ControlKeeps

-----------------------------------------------------------------------------

\* Every step of either side keeps the invariant, whatever is lost or refused and
\* whenever one of them crashes.
THEOREM OutcomeInvariant == Spec => []OutcomeInv
<1>1. Init => OutcomeInv
  BY InitKeeps
<1>2. OutcomeInv /\ [Next]_vars => OutcomeInv'
  BY StartsAndStopsKeep, CommitKeeps, BeginKeeps, PublishKeeps, RowsLeaveKeep,
     GroupKeeps, GroupRefusedKeeps, AckSendKeeps DEF Next
<1> QED BY <1>1, <1>2, PTL DEF Spec

\* TypeOK: among the types, an intake that never holds more than its limit.
THEOREM OutcomeType == Spec => []TypeOK
<1>1. OutcomeInv => TypeOK
  BY DEF OutcomeInv
<1> QED BY <1>1, OutcomeInvariant, PTL

\* OutcomeKept: the module's outbox forgets no outcome that history lacks.
THEOREM NoOutcomeLost == Spec => []OutcomeKept
<1>1. OutcomeInv => OutcomeKept
  BY DEF OutcomeInv
<1> QED BY <1>1, OutcomeInvariant, PTL

\* RecordedOnce: history takes no message twice.
THEOREM NoOutcomeTwice == Spec => []RecordedOnce
<1>1. OutcomeInv => RecordedOnce
  BY DEF OutcomeInv
<1> QED BY <1>1, OutcomeInvariant, PTL

\* FirstSentInOrder: rows go out for the first time in the order of their commits.
THEOREM SentInOrder == Spec => []FirstSentInOrder
<1>1. OutcomeInv => FirstSentInOrder
  BY DEF OutcomeInv
<1> QED BY <1>1, OutcomeInvariant, PTL
=============================================================================

------------------------ MODULE RemoteCommandsProofs ------------------------
(***************************************************************************)
(* Proofs about RemoteCommands: for any calls, messages, credentials and   *)
(* streams, a command to a remote responder keeps the promise of the       *)
(* in-process bus, its message runs once, and the edge's memory is bounded.*)
(***************************************************************************)
EXTENDS RemoteCommands, CommandBusProofs, FiniteSetTheorems

\* A command that the client has not run yet, and one that it has or answered.
Fresh(c)       == c \in inbox \/ \E g \in Regs : <<g, c>> \in frames
Replied(c)     == \E res \in Replies : <<c, res>> \in replies
Outstanding(c) == Fresh(c) \/ busy = c \/ Replied(c)

\* A command on its way, with the client or answered is in one place.
OnePlace ==
  /\ \A c \in Commands :
       /\ Fresh(c) => busy # c /\ ~Replied(c)
       /\ busy = c => ~Replied(c)
       /\ c \in inbox => \A g \in Regs : <<g, c>> \notin frames
       /\ \A g, h \in Regs : <<g, c>> \in frames /\ <<h, c>> \in frames => g = h
       /\ \A res, els \in Replies : <<c, res>> \in replies /\ <<c, els>> \in replies => res = els

\* What the client has or had was started once, and nobody called it rejected.
ClientIsUndecided ==
  \A c \in Commands :
    Outstanding(c) => starts[c] = 1 /\ result[c] \in {"pending", "uncertain"}

\* A forward that waits is of a message its responder runs.
ForwardRuns ==
  \A m \in Messages :
    waiting[m] # None =>
      running[waiting[m]] # None /\ MessageOf(running[waiting[m]]) = m

\* The edge's forward waits for just the command the client has, or it went
\* late and no handler of the bus has the command any more.
ForwardIsOwn ==
  \A c \in Commands :
    Outstanding(c) =>
      \/ waiting[MessageOf(c)] # None /\ running[waiting[MessageOf(c)]] = c
      \/ /\ waiting[MessageOf(c)] = None /\ MessageOf(c) \in expired
         /\ \A r \in Regs : running[r] # c

\* A refusal on its way is of a command that had no effect.
RefusalsAreIdle == \A c \in Commands : <<c, "refused">> \in replies => c \notin acted

\* The bus has the commands the edge dispatched and has not answered yet.
DispatchedHere ==
  \A c \in Commands :
    /\ result[c] = "unsent" => call[c] # "dispatched"
    /\ result[c] = "pending" => call[c] = "dispatched"
    /\ call[c] \in {"none", "sent"} => result[c] = "unsent"

\* The edge's handlers wait for nothing but the reply.
EdgeNeverWaits ==
  /\ awaits = [r \in Regs |-> None]
  /\ closer = [q \in Participants |-> None]

\* Where commands may be between the bus and the remote handler.
Delivery ==
  /\ load \in Loads /\ WayTypeOK /\ IsFiniteSet(inbox)
  /\ OnePlace /\ ClientIsUndecided
  /\ ForwardRuns /\ ForwardIsOwn
  /\ RefusalsAreIdle /\ EdgeNeverWaits

\* The edge remembers what it dispatched until the bus settles it.
DispatchedPends ==
  \A c \in Commands : call[c] = "dispatched" => mem[MessageOf(c)] = "pending"

\* One call at a time is dispatched with a message.
DispatchedOnce ==
  \A c, d \in Commands :
    /\ call[c] = "dispatched" /\ call[d] = "dispatched"
    /\ MessageOf(c) = MessageOf(d)
    => c = d

Calls ==
  /\ CallTypeOK
  /\ DispatchedHere /\ DispatchedPends /\ DispatchedOnce

Entered == {m \in Messages : mem[m] # "none"}

\* The memory's entries and what is counted.
Quotas ==
  /\ MemoryTypeOK
  /\ \A m \in Messages : holder[m] = None <=> mem[m] = "none"
  /\ IsFiniteSet(Entered)
  /\ EntriesAreCounted

\* A dispatched command that no client was or will be given ...
Unrun(c) ==
  /\ call[c] = "dispatched"
  /\ \/ Waiting(c)
     \/ result[c] \in Rejected \ {"refused"}
     \/ \E r \in Regs : running[r] = c /\ waiting[MessageOf(c)] # r

\* ... and one that may still run its message.
Candidate(c) == call[c] = "dispatched" \/ Fresh(c)

\* While the edge may not have forgotten a message before its time, at most one
\* call may still run it, the edge remembers it, and it ran only if it left both.
Runs ==
  /\ \A c, d \in Commands :
       /\ Candidate(c) /\ Candidate(d) /\ MessageOf(c) = MessageOf(d)
       /\ MessageOf(c) \notin lapsed
       => c = d
  /\ \A c \in Commands :
       Candidate(c) /\ MessageOf(c) \notin lapsed \union expired => Remembered(MessageOf(c))
  /\ \A m \in Messages :
       runs[m] # 0 /\ m \notin lapsed \union expired => Remembered(m)
  /\ \A c \in Commands :
       MessageOf(c) \notin lapsed /\ (Fresh(c) \/ Unrun(c)) => runs[MessageOf(c)] = 0
  /\ RunsOnce

RemoteInv == BusInv /\ Delivery /\ Calls /\ Quotas /\ Runs

-----------------------------------------------------------------------------
(* Every step is one of the bus, or the remote handler's effect.           *)

LEMMA LoadTyped ==
  ASSUME load \in Loads, NEW c \in Commands
  PROVE  MessageOf(c) \in Messages /\ PrincipalOf(c) \in Principals
BY RemoteAssumption DEF MessageOf, PrincipalOf

\* What the edge, besides its own requests, makes the bus do.
BusMoves ==
  \/ \E r \in Regs : Respond(r) \/ Unrespond(r)
  \/ \E c \in Commands : Deadline(c) \/ Abort(c)
  \/ \E r \in Regs, c \in Commands : Skip(r, c) \/ Start(r, c)
  \/ \E r \in Regs, res \in Results : Answer(r, res)
  \/ UNCHANGED vars

LEMMA StepOfBus ==
  ASSUME load \in Loads, WayTypeOK, RemoteNext, ~HandlerActs,
         ~ \E c \in Commands : DispatchCall(c)
  PROVE  BusMoves
<1> USE DEF BusMoves
<1>1. CASE \E c \in Commands :
             \/ Call(c) \/ RefuseCall(c) \/ EdgeAnswers(c)
             \/ HearAnswer(c) \/ GiveUp(c) \/ CallLost(c)
             \/ ReadFrame(c) \/ Ignore(c) \/ RunHandler(c)
  BY <1>1 DEF Call, RefuseCall, EdgeAnswers, HearAnswer, GiveUp, CallLost,
              ReadFrame, Ignore, RunHandler
<1>2. CASE \E c \in Commands : CallDropped(c) \/ TimesOut(c)
  BY <1>2 DEF CallDropped, TimesOut
<1>3. CASE \E c \in Commands, r \in Regs : Forward(r, c) \/ Expired(r, c)
  BY <1>3 DEF Forward, Expired
<1>4. ASSUME NEW c \in Commands, NEW res \in Replies, ReplyArrives(c, res)
      PROVE  BusMoves
  <2>1. waiting[MessageOf(c)] \in Regs \union {None}
    BY LoadTyped DEF WayTypeOK
  <2>2. res \in Results
    BY DEF Replies, Results, Rejected
  <2> QED BY <1>4, <2>1, <2>2 DEF ReplyArrives, Finish
<1>5. ASSUME NEW m \in Messages, ForwardLate(m) PROVE BusMoves
  <2>1. waiting[m] \in Regs
    BY <1>5 DEF WayTypeOK, ForwardLate
  <2>2. "uncertain" \in Results
    BY DEF Results
  <2> QED BY <1>5, <2>1, <2>2 DEF ForwardLate, Finish
<1>6. CASE \E m \in Messages : Expire(m) \/ LapseEarly(m)
  BY <1>6 DEF Expire, LapseEarly
<1>7. CASE \E k \in Regs : Registers(k) \/ Drop(k) \/ NeverWritten(k)
  BY <1>7 DEF Registers, Drop, NeverWritten, Results, Rejected
<1>8. CASE Reconnect \/ \E res \in Replies : HandlerReplies(res)
  BY <1>8 DEF Reconnect, HandlerReplies
<1> QED BY <1>1, <1>2, <1>3, <1>4, <1>5, <1>6, <1>7, <1>8 DEF RemoteNext

LEMMA StepIsBusStep ==
  ASSUME load \in Loads, WayTypeOK, RemoteNext, ~HandlerActs
  PROVE  [Next]_vars
<1>1. CASE \E c \in Commands : DispatchCall(c)
  BY <1>1 DEF DispatchCall, Next
<1>2. BusMoves => [Next]_vars
  BY DEF BusMoves, Next
<1> QED BY <1>1, <1>2, StepOfBus

\* The remote handler's effect is of a command the bus has not called rejected.
LEMMA EffectInv ==
  ASSUME BusInv, Delivery, HandlerActs
  PROVE  BusInv'
<1>1. busy \in Commands /\ starts[busy] = 1 /\ result[busy] \in {"pending", "uncertain"}
  BY DEF HandlerActs, Delivery, WayTypeOK, ClientIsUndecided, Outstanding
<1>2. acted' = acted \union {busy} /\ UNCHANGED <<reg, queue, running, result, starts>>
  BY DEF HandlerActs
<1>3. TypeOK'
  BY <1>1 DEF HandlerActs, BusInv, TypeOK
<1>4. QueuedIsFresh' /\ RunningIsUndecided' /\ InOnePlace' /\ PendingIsHeld'
  BY <1>2 DEF BusInv, QueuedIsFresh, RunningIsUndecided, InOnePlace, PendingIsHeld
<1>5. StartedOnce'
  BY <1>1, <1>2 DEF BusInv, StartedOnce
<1>6. RejectedHadNoEffect'
  BY <1>1, <1>2 DEF BusInv, RejectedHadNoEffect, Rejected
<1> QED BY <1>3, <1>4, <1>5, <1>6 DEF BusInv

LEMMA BusKept ==
  ASSUME BusInv, Delivery, [RemoteNext]_all
  PROVE  BusInv'
<1>1. CASE HandlerActs
  BY <1>1, EffectInv
<1>2. CASE RemoteNext /\ ~HandlerActs
  <2>1. [Next]_vars
    BY <1>2, StepIsBusStep DEF Delivery
  <2> QED BY <2>1, NextInv
<1>3. CASE UNCHANGED all
  BY <1>3, NextInv DEF all
<1> QED BY <1>1, <1>2, <1>3

-----------------------------------------------------------------------------
(* Steps that leave the way to the remote handler alone.                   *)

\* What has to hold of a step that neither forwards, answers nor runs anything.
Aside ==
  /\ UNCHANGED <<load, frames, inbox, busy, replies, waiting, running, starts, acted,
                 awaits, closer>>
  /\ expired \subseteq expired'
  /\ \A c \in Commands :
       starts[c] = 1 /\ result[c] \in {"pending", "uncertain"} =>
         result'[c] \in {"pending", "uncertain"}

LEMMA AsideKeeps ==
  ASSUME Delivery, Aside, WayTypeOK'
  PROVE  Delivery'
<1> USE DEF Delivery, Aside
<1>1. \A c \in Commands : /\ Fresh(c)' <=> Fresh(c)
                          /\ Replied(c)' <=> Replied(c)
                          /\ Outstanding(c)' <=> Outstanding(c)
                          /\ MessageOf(c)' = MessageOf(c)
  BY DEF Fresh, Replied, Outstanding, MessageOf
<1>2. OnePlace'
  BY <1>1 DEF OnePlace
<1>3. ClientIsUndecided'
  BY <1>1 DEF ClientIsUndecided
<1>4. ForwardRuns'
  BY DEF ForwardRuns, MessageOf
<1>5. ForwardIsOwn'
  BY <1>1 DEF ForwardIsOwn
<1>6. RefusalsAreIdle' /\ EdgeNeverWaits'
  BY DEF RefusalsAreIdle, EdgeNeverWaits
<1> QED BY <1>2, <1>3, <1>4, <1>5, <1>6

\* A step of the client that leaves the bus and the forwards alone, and takes
\* up nothing new.
LEMMA ClientKeeps ==
  ASSUME Delivery, WayTypeOK', IsFiniteSet(inbox'), OnePlace', RefusalsAreIdle',
         UNCHANGED <<load, waiting, expired, running, starts, result, awaits, closer>>,
         \A c \in Commands : Outstanding(c)' => Outstanding(c)
  PROVE  Delivery'
<1> USE DEF Delivery
<1>1. ClientIsUndecided'
  BY DEF ClientIsUndecided
<1>2. ForwardRuns'
  BY DEF ForwardRuns, MessageOf
<1>3. ForwardIsOwn'
  BY DEF ForwardIsOwn, MessageOf
<1>4. EdgeNeverWaits'
  BY DEF EdgeNeverWaits
<1> QED BY <1>1, <1>2, <1>3, <1>4

-----------------------------------------------------------------------------
(* Each step keeps the way in order.                                       *)

LEMMA RequesterKeeps ==
  ASSUME BusInv, Delivery,
         \/ \E c \in Commands :
              \/ Call(c) \/ RefuseCall(c) \/ EdgeAnswers(c)
              \/ HearAnswer(c) \/ GiveUp(c) \/ CallLost(c)
         \/ \E m \in Messages : Expire(m) \/ LapseEarly(m)
  PROVE  Delivery'
<1>1. UNCHANGED <<vars, load, streams, waiting, responder>> /\ expired \subseteq expired'
  BY DEF Call, RefuseCall, EdgeAnswers, HearAnswer, GiveUp, CallLost, Expire, LapseEarly,
         requester
<1>2. WayTypeOK'
  BY <1>1 DEF Delivery, WayTypeOK, responder
<1>3. Aside
  BY <1>1 DEF Aside, vars, responder
<1> QED BY <1>2, <1>3, AsideKeeps

\* What a command in a queue may become is nothing to one that was started.
LEMMA BusEndsKeep ==
  ASSUME BusInv, Delivery,
         \/ \E c \in Commands :
              \/ DispatchCall(c) \/ CallDropped(c) \/ TimesOut(c)
              \/ \E r \in Regs : Expired(r, c)
         \/ \E k \in Regs : Registers(k) \/ Drop(k)
  PROVE  Delivery'
<1>1. /\ UNCHANGED <<load, expired, waiting, responder, running, starts, acted, closer>>
      /\ awaits' = awaits /\ streams' \subseteq streams
  BY DEF DispatchCall, CallDropped, TimesOut, Expired, Registers, Drop, Request, Abort,
         Deadline, End, Skip, Respond, Unrespond, remote, requester, vars
<1>2. WayTypeOK'
  BY <1>1 DEF Delivery, WayTypeOK, responder
<1>3. ASSUME NEW d \in Commands, starts[d] = 1, result[d] \in {"pending", "uncertain"}
      PROVE  result'[d] \in {"pending", "uncertain"}
  <2>1. ~Waiting(d) /\ result[d] # "unsent"
    BY <1>3 DEF BusInv, QueuedIsFresh, Waiting
  <2>2. CASE \E c \in Commands : DispatchCall(c)
    BY <1>3, <2>1, <2>2 DEF DispatchCall, Request, Dispatch, Refuse, BusInv, TypeOK
  <2>3. CASE \E c \in Commands : CallDropped(c) \/ TimesOut(c)
    BY <1>3, <2>1, <2>3 DEF CallDropped, TimesOut, Abort, Deadline, End, BusInv, TypeOK
  <2>4. CASE \E c \in Commands, r \in Regs : Expired(r, c)
    BY <1>3, <2>1, <2>4 DEF Expired, Skip, FirstIn, Waiting, BusInv, TypeOK
  <2>5. CASE \E k \in Regs : Registers(k) \/ Drop(k)
    BY <1>3, <2>1, <2>5 DEF Registers, Drop, Respond, Unrespond, Waiting, BusInv, TypeOK, vars
  <2> QED BY <2>2, <2>3, <2>4, <2>5
<1>4. Aside
  BY <1>1, <1>3 DEF Aside, responder
<1> QED BY <1>2, <1>4, AsideKeeps

LEMMA ReconnectKeeps ==
  ASSUME BusInv, Delivery, Reconnect
  PROVE  Delivery'
<1>1. \A c \in Commands : /\ Fresh(c)' => Fresh(c)
                          /\ Replied(c)' <=> Replied(c)
                          /\ Outstanding(c)' => Outstanding(c)
  BY DEF Reconnect, Fresh, Replied, Outstanding
<1>2. WayTypeOK'
  BY DEF Reconnect, Delivery, WayTypeOK
<1>3. OnePlace'
  BY <1>1 DEF Reconnect, Delivery, OnePlace
<1>4. RefusalsAreIdle'
  BY DEF Reconnect, Delivery, RefusalsAreIdle, vars
<1>5. IsFiniteSet(inbox')
  BY DEF Reconnect, Delivery
<1>6. UNCHANGED <<load, waiting, expired, running, starts, result, awaits, closer>>
  BY DEF Reconnect, vars, requester
<1> QED BY <1>1, <1>2, <1>3, <1>4, <1>5, <1>6, ClientKeeps

LEMMA ReadFrameKeeps ==
  ASSUME BusInv, Delivery, NEW c \in Commands, ReadFrame(c)
  PROVE  Delivery'
<1>1. <<current, c>> \in frames /\ current \in Regs /\ c \notin inbox
  BY DEF ReadFrame, Delivery, WayTypeOK, OnePlace
<1>2. /\ frames' = frames \ {<<current, c>>}
      /\ inbox' \subseteq inbox \union {c}
  BY DEF ReadFrame
<1>3. \A d \in Commands : /\ Fresh(d)' => Fresh(d)
                          /\ Replied(d)' <=> Replied(d)
                          /\ Outstanding(d)' => Outstanding(d)
  BY <1>1, <1>2 DEF ReadFrame, Fresh, Replied, Outstanding
<1>4. IsFiniteSet(inbox') /\ Cardinality(inbox') <= MaxQueued
  <2>1. CASE Cardinality(inbox) < MaxQueued
    <3>1. inbox' = inbox \union {c}
      BY <2>1 DEF ReadFrame
    <3>2. IsFiniteSet(inbox')
      BY <3>1, FS_AddElement DEF Delivery
    <3>3. Cardinality(inbox') = Cardinality(inbox) + 1 /\ Cardinality(inbox) \in Nat
      BY <1>1, <3>1, FS_AddElement, FS_CardinalityType DEF Delivery
    <3> QED BY BusAssumption, <2>1, <3>2, <3>3
  <2>2. CASE ~(Cardinality(inbox) < MaxQueued)
    BY <2>2 DEF ReadFrame, Delivery, WayTypeOK
  <2> QED BY <2>1, <2>2
<1>5. WayTypeOK'
  BY <1>2, <1>4 DEF ReadFrame, Delivery, WayTypeOK
<1>6. OnePlace'
  <2>1. \A d \in Commands : d \in inbox' => \A g \in Regs : <<g, d>> \notin frames'
    BY <1>1, <1>2 DEF Delivery, OnePlace
  <2> QED BY <1>2, <1>3, <2>1 DEF ReadFrame, Delivery, OnePlace
<1>7. RefusalsAreIdle'
  BY DEF ReadFrame, Delivery, RefusalsAreIdle, vars
<1>8. UNCHANGED <<load, waiting, expired, running, starts, result, awaits, closer>>
  BY DEF ReadFrame, vars, requester
<1> QED BY <1>3, <1>4, <1>5, <1>6, <1>7, <1>8, ClientKeeps

LEMMA LeavesInbox ==
  ASSUME BusInv, Delivery, NEW c \in Commands, Ignore(c) \/ RunHandler(c)
  PROVE  Delivery'
<1>1. c \in inbox /\ inbox' = inbox \ {c} /\ UNCHANGED <<frames, replies>>
  BY DEF Ignore, RunHandler
<1>2. busy' = busy \/ (busy = None /\ busy' = c)
  BY DEF Ignore, RunHandler
<1>3. /\ \A d \in Commands : /\ Fresh(d)' <=> Fresh(d) /\ d # c
                             /\ Replied(d)' <=> Replied(d)
                             /\ Outstanding(d)' => Outstanding(d)
      /\ Fresh(c)
  BY <1>1, <1>2 DEF Fresh, Replied, Outstanding, Delivery, OnePlace
<1>4. IsFiniteSet(inbox') /\ Cardinality(inbox') <= MaxQueued
  <2>1. IsFiniteSet(inbox)
    BY DEF Delivery
  <2>2. IsFiniteSet(inbox') /\ Cardinality(inbox') = Cardinality(inbox) - 1
    BY <1>1, <2>1, FS_RemoveElement
  <2>3. Cardinality(inbox) \in Nat /\ Cardinality(inbox) <= MaxQueued
    BY <2>1, FS_CardinalityType DEF Delivery, WayTypeOK
  <2> QED BY BusAssumption, <2>2, <2>3
<1>5. WayTypeOK'
  <2>1. MessageOf(c) \in Messages
    BY LoadTyped DEF Delivery
  <2> QED BY <1>1, <1>2, <1>4, <2>1 DEF Ignore, RunHandler, Delivery, WayTypeOK
<1>6. OnePlace'
  BY <1>1, <1>2, <1>3 DEF Delivery, OnePlace
<1>7. RefusalsAreIdle'
  BY DEF Ignore, RunHandler, Delivery, RefusalsAreIdle, vars
<1>8. UNCHANGED <<load, waiting, expired, running, starts, result, awaits, closer>>
  BY DEF Ignore, RunHandler, vars, requester
<1> QED BY <1>3, <1>4, <1>5, <1>6, <1>7, <1>8, ClientKeeps

LEMMA HandlerKeeps ==
  ASSUME BusInv, Delivery, HandlerActs \/ \E res \in Replies : HandlerReplies(res)
  PROVE  Delivery'
<1>1. CASE HandlerActs
  <2>1. UNCHANGED <<load, waiting, expired, running, starts, result, awaits, closer,
                    streams, responder>>
    BY <1>1 DEF HandlerActs, remote, requester
  <2>2. busy \in Commands /\ ~Replied(busy)
    BY <1>1 DEF HandlerActs, Delivery, WayTypeOK, OnePlace
  <2>3. RefusalsAreIdle'
    BY <1>1, <2>1, <2>2 DEF HandlerActs, Delivery, RefusalsAreIdle, responder, Replied, Replies
  <2>4. WayTypeOK' /\ IsFiniteSet(inbox')
    BY <2>1 DEF Delivery, WayTypeOK, responder
  <2>5. OnePlace' /\ \A c \in Commands : Outstanding(c)' => Outstanding(c)
    BY <2>1 DEF Delivery, OnePlace, Outstanding, Fresh, Replied, responder
  <2> QED BY <2>1, <2>3, <2>4, <2>5, ClientKeeps
<1>2. ASSUME NEW res \in Replies, HandlerReplies(res) PROVE Delivery'
  <2>1. busy \in Commands
    BY <1>2 DEF HandlerReplies, Delivery, WayTypeOK
  <2>2. /\ replies' = replies \union {<<busy, res>>} /\ busy' = None
        /\ UNCHANGED <<frames, inbox>>
    BY <1>2 DEF HandlerReplies
  <2>3. \A c \in Commands : /\ Fresh(c)' <=> Fresh(c)
                            /\ Replied(c)' <=> Replied(c) \/ c = busy
                            /\ Outstanding(c)' => Outstanding(c)
    BY BusAssumption, <2>2 DEF Fresh, Replied, Outstanding
  <2>4. ~Replied(busy) /\ ~Fresh(busy)
    BY <2>1 DEF Delivery, OnePlace
  <2>5. OnePlace'
    <3>1. \A c \in Commands : \A r1, r2 \in Replies :
            <<c, r1>> \in replies' /\ <<c, r2>> \in replies' => r1 = r2
      BY <2>2, <2>4 DEF Delivery, OnePlace, Replied
    <3> QED BY BusAssumption, <2>2, <2>3, <2>4, <3>1 DEF Delivery, OnePlace
  <2>6. RefusalsAreIdle'
    BY <1>2, <2>2 DEF HandlerReplies, Delivery, RefusalsAreIdle, vars
  <2>7. WayTypeOK' /\ IsFiniteSet(inbox')
    BY <1>2, <2>1, <2>2 DEF HandlerReplies, Delivery, WayTypeOK
  <2>8. UNCHANGED <<load, waiting, expired, running, starts, result, awaits, closer>>
    BY <1>2 DEF HandlerReplies, vars, requester
  <2> QED BY <2>3, <2>5, <2>6, <2>7, <2>8, ClientKeeps
<1> QED BY <1>1, <1>2

LEMMA ForwardKeeps ==
  ASSUME BusInv, Delivery, NEW r \in Regs, NEW c \in Commands, Forward(r, c)
  PROVE  Delivery'
<1> DEFINE m == MessageOf(c)
<1>0. m \in Messages
  BY LoadTyped DEF Delivery
<1>1. running[r] = None /\ result[c] = "pending" /\ starts[c] = 0 /\ m \notin expired
  BY DEF Forward, Start, FirstIn, BusInv, QueuedIsFresh
<1>2. /\ running' = [running EXCEPT ![r] = c]
      /\ starts' = [starts EXCEPT ![c] = @ + 1]
      /\ UNCHANGED <<load, result, awaits, closer, acted, expired, streams, current,
                     inbox, busy, replies, runs>>
  BY DEF Forward, Start, requester
<1>3. starts'[c] = 1 /\ \A d \in Commands : d # c => starts'[d] = starts[d]
  BY <1>1, <1>2 DEF BusInv, TypeOK
<1>4. running'[r] = c /\ \A s \in Regs : s # r => running'[s] = running[s]
  BY <1>2 DEF BusInv, TypeOK
<1>5. ~Outstanding(c)
  BY <1>1 DEF Delivery, ClientIsUndecided
<1>6. \A d \in Commands : MessageOf(d)' = MessageOf(d)
  BY <1>2 DEF MessageOf
<1>7. \A d \in Commands : (Replied(d)' <=> Replied(d))
  BY <1>2 DEF Replied
<1>8. RefusalsAreIdle' /\ EdgeNeverWaits' /\ IsFiniteSet(inbox')
  BY <1>2 DEF Delivery, RefusalsAreIdle, EdgeNeverWaits
<1>9. CASE waiting[m] = None /\ r \in streams
  <2>1. waiting' = [waiting EXCEPT ![m] = r] /\ frames' = frames \union {<<r, c>>}
    BY <1>9 DEF Forward
  <2>2. waiting'[m] = r /\ \A n \in Messages : n # m => waiting'[n] = waiting[n]
    BY <1>0, <2>1 DEF Delivery, WayTypeOK
  <2>3. WayTypeOK'
    BY <1>0, <1>2, <2>1 DEF Delivery, WayTypeOK
  <2>4. \A d \in Commands : /\ Fresh(d)' <=> (Fresh(d) \/ d = c)
                            /\ Outstanding(d)' <=> (Outstanding(d) \/ d = c)
    BY <1>2, <1>7, <2>1 DEF Fresh, Outstanding
  <2>5. OnePlace'
    <3>1. \A d \in Commands : d # c => \A g \in Regs : <<g, d>> \in frames' <=> <<g, d>> \in frames
      BY <2>1
    <3>2. \A g \in Regs : <<g, c>> \in frames' <=> g = r
      BY <1>5, <2>1 DEF Outstanding, Fresh
    <3>3. busy # c /\ ~Replied(c) /\ c \notin inbox
      BY <1>5 DEF Outstanding, Fresh
    <3>4. ASSUME NEW d \in Commands, NEW g \in Regs, NEW h \in Regs,
                 <<g, d>> \in frames', <<h, d>> \in frames'
          PROVE  g = h
      BY <3>1, <3>2, <3>4 DEF Delivery, OnePlace
    <3>5. ASSUME NEW d \in Commands, d \in inbox'
          PROVE  \A g \in Regs : <<g, d>> \notin frames'
      BY <1>2, <3>1, <3>2, <3>3, <3>5 DEF Delivery, OnePlace
    <3>6. \A d \in Commands : /\ Fresh(d)' => busy' # d /\ ~Replied(d)'
                              /\ busy' = d => ~Replied(d)'
                              /\ \A r1, r2 \in Replies :
                                   <<d, r1>> \in replies' /\ <<d, r2>> \in replies' => r1 = r2
      BY <1>2, <1>7, <2>4, <3>3 DEF Delivery, OnePlace
    <3> QED BY <3>4, <3>5, <3>6 DEF OnePlace
  <2>6. ClientIsUndecided'
    BY <1>1, <1>2, <1>3, <2>4 DEF Delivery, ClientIsUndecided
  <2>7. ForwardRuns'
    <3> SUFFICES ASSUME NEW n \in Messages, waiting'[n] # None
                 PROVE  running'[waiting'[n]] # None /\ MessageOf(running'[waiting'[n]]) = n
      BY <1>2 DEF ForwardRuns, MessageOf
    <3>1. CASE n = m
      BY BusAssumption, <1>4, <2>2, <3>1
    <3>2. CASE n # m
      <4>1. waiting'[n] = waiting[n] /\ waiting[n] \in Regs
        BY <2>2, <3>2 DEF Delivery, WayTypeOK
      <4>2. running[waiting[n]] # None /\ MessageOf(running[waiting[n]]) = n
        BY <4>1 DEF Delivery, ForwardRuns
      <4> QED BY <1>1, <1>4, <4>1, <4>2
    <3> QED BY <3>1, <3>2
  <2>8. ForwardIsOwn'
    <3> SUFFICES ASSUME NEW d \in Commands, Outstanding(d)'
                 PROVE  \/ waiting'[MessageOf(d)] # None /\ running'[waiting'[MessageOf(d)]] = d
                        \/ /\ waiting'[MessageOf(d)] = None /\ MessageOf(d) \in expired'
                           /\ \A s \in Regs : running'[s] # d
      BY <1>6 DEF ForwardIsOwn
    <3>1. CASE d = c
      BY BusAssumption, <1>4, <2>2, <3>1
    <3>2. CASE d # c
      <4>1. Outstanding(d) /\ MessageOf(d) \in Messages
        BY <2>4, <3>2, LoadTyped DEF Delivery
      <4>2. MessageOf(d) # m
        BY <1>1, <1>9, <4>1 DEF Delivery, ForwardIsOwn
      <4>3. waiting'[MessageOf(d)] = waiting[MessageOf(d)]
        BY <2>2, <4>1, <4>2
      <4>4. waiting[MessageOf(d)] \in Regs \union {None}
        BY <4>1 DEF Delivery, WayTypeOK
      <4> QED BY BusAssumption, <1>1, <1>2, <1>4, <3>2, <4>1, <4>3, <4>4 DEF Delivery, ForwardIsOwn
    <3> QED BY <3>1, <3>2
  <2> QED BY <1>2, <1>8, <2>3, <2>5, <2>6, <2>7, <2>8 DEF Delivery
<1>10. CASE ~(waiting[m] = None /\ r \in streams)
  <2>1. waiting' = waiting /\ frames' = frames
    BY <1>10 DEF Forward
  <2>2. WayTypeOK'
    BY <1>2, <2>1 DEF Delivery, WayTypeOK
  <2>3. \A d \in Commands : (Fresh(d)' <=> Fresh(d)) /\ (Outstanding(d)' <=> Outstanding(d))
    BY <1>2, <1>7, <2>1 DEF Fresh, Outstanding
  <2>4. OnePlace'
    BY <1>2, <1>7, <2>1, <2>3 DEF Delivery, OnePlace
  <2>5. ClientIsUndecided'
    BY <1>2, <1>3, <1>5, <2>3 DEF Delivery, ClientIsUndecided
  <2>6. ForwardRuns'
    BY BusAssumption, <1>1, <1>4, <1>6, <2>1 DEF Delivery, ForwardRuns, WayTypeOK, BusInv, TypeOK
  <2>7. ForwardIsOwn'
    <3> SUFFICES ASSUME NEW d \in Commands, Outstanding(d)
                 PROVE  \/ waiting[MessageOf(d)] # None /\ running'[waiting[MessageOf(d)]] = d
                        \/ /\ waiting[MessageOf(d)] = None /\ MessageOf(d) \in expired
                           /\ \A s \in Regs : running'[s] # d
      BY <1>2, <1>6, <2>1, <2>3 DEF ForwardIsOwn
    <3>1. d # c /\ MessageOf(d) \in Messages
      BY <1>5, LoadTyped DEF Delivery
    <3>2. waiting[MessageOf(d)] \in Regs \union {None}
      BY <3>1 DEF Delivery, WayTypeOK
    <3> QED BY BusAssumption, <1>1, <1>4, <3>1, <3>2 DEF Delivery, ForwardIsOwn
  <2> QED BY <1>2, <1>8, <2>2, <2>4, <2>5, <2>6, <2>7 DEF Delivery
<1> QED BY <1>9, <1>10

LEMMA NeverWrittenKeeps ==
  ASSUME BusInv, Delivery, NEW r \in Regs, NeverWritten(r)
  PROVE  Delivery'
<1> DEFINE c == running[r]
<1>1. c \in Commands /\ waiting[MessageOf(c)] # r
  BY DEF NeverWritten, BusInv, TypeOK
<1>2. ~Outstanding(c)
  BY BusAssumption, <1>1, LoadTyped DEF Delivery, ForwardIsOwn, WayTypeOK, BusInv, InOnePlace
<1>3. /\ running' = [running EXCEPT ![r] = None]
      /\ awaits' = [awaits EXCEPT ![r] = None]
      /\ \A d \in Commands : d # c => result'[d] = result[d]
      /\ UNCHANGED <<load, starts, acted, closer, waiting, expired, streams, responder>>
  BY DEF NeverWritten, Answer, remote, requester, BusInv, TypeOK
<1>4. running'[r] = None /\ \A s \in Regs : s # r => running'[s] = running[s]
  BY <1>3 DEF BusInv, TypeOK
<1> HIDE DEF c
<1>5. \A d \in Commands : /\ Fresh(d)' <=> Fresh(d)
                          /\ Replied(d)' <=> Replied(d)
                          /\ Outstanding(d)' <=> Outstanding(d)
                          /\ MessageOf(d)' = MessageOf(d)
  BY <1>3 DEF Fresh, Replied, Outstanding, MessageOf, responder
<1>6. WayTypeOK' /\ IsFiniteSet(inbox') /\ load' \in Loads
  BY <1>3 DEF Delivery, WayTypeOK, responder
<1>7. OnePlace'
  BY <1>3, <1>5 DEF Delivery, OnePlace, responder
<1>8. ClientIsUndecided'
  BY <1>2, <1>3, <1>5 DEF Delivery, ClientIsUndecided
<1>9. ForwardRuns'
  <2> SUFFICES ASSUME NEW m \in Messages, waiting[m] # None
               PROVE  running'[waiting[m]] # None /\ MessageOf(running'[waiting[m]]) = m
    BY <1>3 DEF ForwardRuns, MessageOf
  <2>1. waiting[m] \in Regs /\ running[waiting[m]] # None /\ MessageOf(running[waiting[m]]) = m
    BY DEF Delivery, ForwardRuns, WayTypeOK
  <2>2. waiting[m] # r
    BY <1>1, <2>1 DEF c
  <2> QED BY <1>4, <2>1, <2>2
<1>10. ForwardIsOwn'
  <2> SUFFICES ASSUME NEW d \in Commands, Outstanding(d)
               PROVE  \/ waiting[MessageOf(d)] # None /\ running'[waiting[MessageOf(d)]] = d
                      \/ /\ waiting[MessageOf(d)] = None /\ MessageOf(d) \in expired
                         /\ \A s \in Regs : running'[s] # d
    BY <1>3, <1>5 DEF ForwardIsOwn
  <2>1. d # c /\ MessageOf(d) \in Messages
    BY <1>2, LoadTyped DEF Delivery
  <2>2. waiting[MessageOf(d)] \in Regs \union {None}
    BY <2>1 DEF Delivery, WayTypeOK
  <2> QED BY BusAssumption, <1>4, <2>1, <2>2 DEF Delivery, ForwardIsOwn, c
<1>11. RefusalsAreIdle' /\ EdgeNeverWaits'
  BY <1>3 DEF Delivery, RefusalsAreIdle, EdgeNeverWaits, responder
<1> QED BY <1>6, <1>7, <1>8, <1>9, <1>10, <1>11 DEF Delivery

\* The end of a forward: of a late one, or by the reply of just this command.
LEMMA FinishKeeps ==
  ASSUME BusInv, Delivery, NEW m \in Messages, NEW res \in Replies, waiting[m] # None,
         Finish(m, res), UNCHANGED <<load, expired, streams, current, frames, inbox, busy, runs>>,
         \/ m \in expired /\ res = "uncertain" /\ replies' = replies
         \/ /\ <<running[waiting[m]], res>> \in replies
            /\ replies' = replies \ {<<running[waiting[m]], res>>}
  PROVE  Delivery'
<1> DEFINE w == waiting[m]
<1>0. w \in Regs /\ running[w] \in Commands /\ MessageOf(running[w]) = m
  BY DEF Delivery, WayTypeOK, ForwardRuns, BusInv, TypeOK
<1> PICK c \in Commands : c = running[w]
  BY <1>0
<1>1. w \in Regs /\ running[w] = c /\ MessageOf(c) = m
  BY <1>0
<1>2. /\ running' = [running EXCEPT ![w] = None]
      /\ awaits' = [awaits EXCEPT ![w] = None]
      /\ result' = [result EXCEPT ![c] = Settled(c, res)]
      /\ waiting' = [waiting EXCEPT ![m] = None]
      /\ UNCHANGED <<starts, acted, closer>>
  BY DEF Finish, Answer
<1>3. running'[w] = None /\ \A s \in Regs : s # w => running'[s] = running[s]
  BY <1>1, <1>2 DEF BusInv, TypeOK
<1>4. waiting'[m] = None /\ \A n \in Messages : n # m => waiting'[n] = waiting[n]
  BY <1>2 DEF Delivery, WayTypeOK
<1>5. /\ result'[c] \in {result[c], res}
      /\ \A d \in Commands : d # c => result'[d] = result[d]
  BY <1>2 DEF Settled, BusInv, TypeOK
<1>6. \/ m \in expired /\ res = "uncertain" /\ replies' = replies
      \/ <<c, res>> \in replies /\ replies' = replies \ {<<c, res>>}
  BY <1>1
<1>7. \A s \in Regs : running'[s] # c
  BY BusAssumption, <1>1, <1>3 DEF BusInv, InOnePlace
<1> HIDE DEF w
<1>8. \A d \in Commands : /\ Fresh(d)' <=> Fresh(d)
                          /\ Replied(d)' => Replied(d)
                          /\ Outstanding(d)' => Outstanding(d)
                          /\ MessageOf(d)' = MessageOf(d)
  BY <1>6 DEF Fresh, Replied, Outstanding, MessageOf
<1>9. Outstanding(c)' => m \in expired /\ res = "uncertain"
  <2>1. CASE <<c, res>> \in replies /\ replies' = replies \ {<<c, res>>}
    <3>1. Replied(c)
      BY <2>1 DEF Replied
    <3>2. ~Fresh(c) /\ busy # c
      BY <3>1 DEF Delivery, OnePlace
    <3>3. \A els \in Replies : <<c, els>> \in replies => els = res
      BY <2>1 DEF Delivery, OnePlace
    <3>4. ~Replied(c)'
      BY <2>1, <3>3 DEF Replied
    <3> QED BY <1>8, <3>2, <3>4 DEF Outstanding
  <2> QED BY <1>6, <2>1
<1>10. WayTypeOK' /\ IsFiniteSet(inbox') /\ load' \in Loads
  BY <1>2, <1>6 DEF Delivery, WayTypeOK
<1>11. OnePlace'
  BY <1>6, <1>8 DEF Delivery, OnePlace
<1>12. ClientIsUndecided'
  <2> SUFFICES ASSUME NEW d \in Commands, Outstanding(d)'
               PROVE  starts'[d] = 1 /\ result'[d] \in {"pending", "uncertain"}
    BY DEF ClientIsUndecided
  <2>1. starts[d] = 1 /\ result[d] \in {"pending", "uncertain"}
    BY <1>8 DEF Delivery, ClientIsUndecided
  <2>2. CASE d = c
    BY <1>2, <1>5, <1>9, <2>1, <2>2
  <2>3. CASE d # c
    BY <1>2, <1>5, <2>1, <2>3
  <2> QED BY <2>2, <2>3
<1>13. ForwardRuns'
  <2> SUFFICES ASSUME NEW n \in Messages, waiting'[n] # None
               PROVE  running'[waiting'[n]] # None /\ MessageOf(running'[waiting'[n]]) = n
    BY DEF ForwardRuns, MessageOf
  <2>1. n # m /\ waiting'[n] = waiting[n] /\ waiting[n] \in Regs
    BY <1>4 DEF Delivery, WayTypeOK
  <2>2. running[waiting[n]] # None /\ MessageOf(running[waiting[n]]) = n
    BY <2>1 DEF Delivery, ForwardRuns
  <2>3. waiting[n] # w
    BY <1>1, <2>1, <2>2
  <2> QED BY <1>3, <2>1, <2>2, <2>3
<1>14. ForwardIsOwn'
  <2> SUFFICES ASSUME NEW d \in Commands, Outstanding(d)'
               PROVE  \/ waiting'[MessageOf(d)] # None /\ running'[waiting'[MessageOf(d)]] = d
                      \/ /\ waiting'[MessageOf(d)] = None /\ MessageOf(d) \in expired
                         /\ \A s \in Regs : running'[s] # d
    BY <1>8 DEF ForwardIsOwn
  <2>1. CASE d = c
    BY <1>1, <1>4, <1>7, <1>9, <2>1
  <2>2. CASE d # c
    <3>1. Outstanding(d) /\ MessageOf(d) \in Messages
      BY <1>8, LoadTyped DEF Delivery
    <3>2. \/ waiting[MessageOf(d)] # None /\ running[waiting[MessageOf(d)]] = d
          \/ /\ waiting[MessageOf(d)] = None /\ MessageOf(d) \in expired
             /\ \A s \in Regs : running[s] # d
      BY <3>1 DEF Delivery, ForwardIsOwn
    <3>3. MessageOf(d) # m
      BY <1>1, <2>2, <3>2 DEF w
    <3>4. waiting'[MessageOf(d)] = waiting[MessageOf(d)]
      BY <1>4, <3>1, <3>3
    <3>5. waiting[MessageOf(d)] \in Regs \union {None} /\ d # None
      BY BusAssumption, <3>1 DEF Delivery, WayTypeOK
    <3>6. waiting[MessageOf(d)] # None => waiting[MessageOf(d)] # w
      BY <1>1, <2>2, <3>2
    <3> QED BY <1>3, <3>2, <3>4, <3>5, <3>6
  <2> QED BY <2>1, <2>2
<1>15. RefusalsAreIdle' /\ EdgeNeverWaits'
  BY <1>2, <1>6 DEF Delivery, RefusalsAreIdle, EdgeNeverWaits
<1> QED BY <1>10, <1>11, <1>12, <1>13, <1>14, <1>15 DEF Delivery

LEMMA ForwardEndsKeep ==
  ASSUME BusInv, Delivery,
         \/ \E m \in Messages : ForwardLate(m)
         \/ \E c \in Commands, res \in Replies : ReplyArrives(c, res)
  PROVE  Delivery'
<1>1. ASSUME NEW m \in Messages, ForwardLate(m) PROVE Delivery'
  BY <1>1, FinishKeeps DEF ForwardLate, Replies, requester, responder
<1>2. ASSUME NEW c \in Commands, NEW res \in Replies, ReplyArrives(c, res)
      PROVE  Delivery'
  <2> DEFINE m == MessageOf(c)
  <2>1. m \in Messages /\ <<c, res>> \in replies /\ replies' = replies \ {<<c, res>>}
    BY <1>2, LoadTyped DEF ReplyArrives, Delivery
  <2>2. UNCHANGED <<load, expired, streams, current, frames, inbox, busy, runs>>
    BY <1>2 DEF ReplyArrives, requester
  <2>3. CASE waiting[m] # None
    <3>1. running[waiting[m]] = c
      BY <2>1, <2>3 DEF Delivery, ForwardIsOwn, Outstanding, Replied
    <3>2. Finish(m, res)
      BY <1>2, <2>3 DEF ReplyArrives
    <3> QED BY <2>1, <2>2, <2>3, <3>1, <3>2, FinishKeeps
  <2>4. CASE waiting[m] = None
    <3>1. UNCHANGED <<vars, waiting>>
      BY <1>2, <2>4 DEF ReplyArrives
    <3>2. \A d \in Commands : /\ Fresh(d)' <=> Fresh(d)
                              /\ Replied(d)' => Replied(d)
                              /\ Outstanding(d)' => Outstanding(d)
      BY <2>1, <2>2 DEF Fresh, Replied, Outstanding
    <3>3. WayTypeOK' /\ IsFiniteSet(inbox')
      BY <2>1, <2>2, <3>1 DEF Delivery, WayTypeOK
    <3>4. OnePlace'
      BY <2>1, <2>2, <3>2 DEF Delivery, OnePlace
    <3>5. RefusalsAreIdle'
      BY <2>1, <3>1 DEF Delivery, RefusalsAreIdle, vars
    <3> QED BY <2>2, <3>1, <3>2, <3>3, <3>4, <3>5, ClientKeeps DEF vars
  <2> QED BY <2>3, <2>4
<1> QED BY <1>1, <1>2

LEMMA DeliveryInit == RemoteInit => Delivery
<1> SUFFICES ASSUME RemoteInit PROVE Delivery
  OBVIOUS
<1>1. \A c \in Commands : ~Outstanding(c) /\ ~Fresh(c) /\ ~Replied(c)
  BY BusAssumption DEF RemoteInit, Outstanding, Fresh, Replied
<1>2. IsFiniteSet(inbox) /\ Cardinality(inbox) = 0
  BY FS_EmptySet DEF RemoteInit
<1>3. WayTypeOK
  BY BusAssumption, RemoteAssumption, <1>2 DEF RemoteInit, WayTypeOK
<1>4. OnePlace /\ ClientIsUndecided /\ ForwardIsOwn
  BY <1>1 DEF RemoteInit, OnePlace, ClientIsUndecided, ForwardIsOwn
<1>5. ForwardRuns /\ RefusalsAreIdle /\ EdgeNeverWaits
  BY DEF RemoteInit, Init, ForwardRuns, RefusalsAreIdle, EdgeNeverWaits
<1> QED BY <1>2, <1>3, <1>4, <1>5 DEF Delivery, RemoteInit

LEMMA DeliveryStep ==
  ASSUME BusInv, Delivery, [RemoteNext]_all
  PROVE  Delivery'
<1>1. CASE UNCHANGED all
  <2>1. Aside /\ WayTypeOK'
    BY <1>1 DEF all, vars, remote, requester, responder, Aside, Delivery, WayTypeOK
  <2> QED BY <2>1, AsideKeeps
<1>2. CASE RemoteNext
  BY <1>2, RequesterKeeps, BusEndsKeep, ReconnectKeeps, ReadFrameKeeps, LeavesInbox,
     HandlerKeeps, ForwardKeeps, NeverWrittenKeeps, ForwardEndsKeep DEF RemoteNext
<1> QED BY <1>1, <1>2

-----------------------------------------------------------------------------
(* The promise, for an effect made on another machine.                     *)

\* The remote handler's effect is a step of its command's life.
LEMMA EffectLives ==
  ASSUME BusInv, Delivery, HandlerActs, NEW c \in Commands
  PROVE  Lives(c)
<1>1. CASE busy = c
  <2>1. starts[c] = 1 /\ result[c] \in {"pending", "uncertain"}
    BY <1>1 DEF Delivery, ClientIsUndecided, Outstanding
  <2>2. result' = result /\ starts' = starts /\ c \in acted'
    BY <1>1 DEF HandlerActs
  <2>3. /\ Bar(c).stage = "started"
        /\ Bar(c).verdict \in {"none", "uncertain"}
    BY <2>1 DEF Bar, Stage, Verdict, Effect, Rejected
  <2>4. Bar(c)' = [Bar(c) EXCEPT !.effect = "made"]
    BY <2>1, <2>2 DEF Bar, Stage, Verdict, Effect
  <2> QED BY <2>3, <2>4 DEF Lives, Promise!LifeStep, Promise!TakeEffect
<1>2. CASE busy # c
  BY <1>2, LifeUnchanged DEF HandlerActs
<1> QED BY <1>1, <1>2

LEMMA RemoteStepLives ==
  ASSUME BusInv, Delivery, [RemoteNext]_all, NEW c \in Commands
  PROVE  Lives(c)
<1>1. CASE HandlerActs
  BY <1>1, EffectLives
<1>2. CASE RemoteNext /\ ~HandlerActs
  <2>1. [Next]_vars
    BY <1>2, StepIsBusStep DEF Delivery
  <2> QED BY <2>1, StepLives
<1>3. CASE UNCHANGED all
  BY <1>3, StepLives DEF all
<1> QED BY <1>1, <1>2, <1>3

\* BusInv and the way to the remote handler, in every reachable state.
THEOREM RemoteDelivery == RemoteSpec => [](BusInv /\ Delivery)
<1>1. RemoteInit => BusInv /\ Delivery
  BY BusInit, DeliveryInit DEF RemoteInit
<1>2. BusInv /\ Delivery /\ [RemoteNext]_all => (BusInv /\ Delivery)'
  BY BusKept, DeliveryStep
<1> QED BY <1>1, <1>2, PTL DEF RemoteSpec

\* KeepsPromise: the remote responder's commands keep what the SDK promises.
THEOREM RemoteKeepsPromise == RemoteSpec => KeepsPromise
<1>1. RemoteInit => Promise!Init
  <2> SUFFICES ASSUME RemoteInit, NEW c \in Commands PROVE lifeBar[c] = Promise!Unsent
    BY DEF Promise!Init, lifeBar
  <2> QED BY DEF RemoteInit, Init, lifeBar, Stage, Verdict, Effect, Promise!Unsent
<1>2. /\ BusInv /\ Delivery /\ BusInv' /\ [RemoteNext]_all
      => [Promise!Next]_lifeBar
  <2> SUFFICES ASSUME BusInv, Delivery, BusInv', [RemoteNext]_all PROVE Promise!Next
    OBVIOUS
  <2>1. lifeBar = [c \in Commands |-> Bar(c)] /\ lifeBar' = [c \in Commands |-> Bar(c)']
    BY DEF lifeBar, Bar
  <2>2. \A c \in Commands : Bar(c)' \in Promise!Life
    BY DEF BusInv, TypeOK, Results, Rejected, Bar, Stage, Verdict, Effect,
           Promise!Life, Promise!Stages, Promise!Verdicts
  <2>3. \A c \in Commands : Lives(c)
    BY RemoteStepLives
  <2> QED BY <2>1, <2>2, <2>3 DEF Promise!Next, Lives
<1> QED BY <1>1, <1>2, RemoteDelivery, PTL DEF RemoteSpec, KeepsPromise, Promise!Spec

-----------------------------------------------------------------------------
(* The edge's memory.                                                      *)

LEMMA OneMore ==
  ASSUME NEW S, NEW x, IsFiniteSet(S)
  PROVE  /\ IsFiniteSet(S \union {x})
         /\ Cardinality(S \union {x}) \in Nat
         /\ Cardinality(S \union {x}) <= Cardinality(S) + 1
<1>1. Cardinality(S) \in Nat
  BY FS_CardinalityType
<1>2. /\ IsFiniteSet(S \union {x})
      /\ Cardinality(S \union {x}) = IF x \in S THEN Cardinality(S) ELSE Cardinality(S) + 1
  BY FS_AddElement
<1> QED BY <1>1, <1>2

\* Forgetting entries takes from the counts just what goes.
LEMMA ForgettingCounts ==
  ASSUME Quotas, NEW S, S \subseteq Entered, Forgetting(S), expired' = expired
  PROVE  Quotas'
<1> DEFINE Gone(q) == {m \in S : holder[m] = q}
<1>1. /\ mem' = [m \in Messages |-> IF m \in S THEN "none" ELSE mem[m]]
      /\ holder' = [m \in Messages |-> IF m \in S THEN None ELSE holder[m]]
      /\ heldBy' = [q \in Principals |-> heldBy[q] - Cardinality(Gone(q))]
      /\ total' = total - Cardinality(S)
      /\ lapsed' = lapsed
  BY DEF Forgetting
<1>2. Entered' = Entered \ S
  BY <1>1 DEF Entered
<1>3. /\ IsFiniteSet(Entered') /\ IsFiniteSet(Entered)
      /\ Cardinality(Entered') = Cardinality(Entered) - Cardinality(S)
  <2>1. S \intersect Entered = S /\ Entered \intersect S = S
    OBVIOUS
  <2> QED BY <1>2, <2>1, FS_Difference DEF Quotas
<1>4. IsFiniteSet(S) /\ Cardinality(S) \in Nat /\ Cardinality(S) <= Cardinality(Entered)
      /\ Cardinality(Entered) \in Nat
  BY <1>3, FS_Subset, FS_CardinalityType
<1>5. total' \in 0..Total /\ Cardinality(Entered') <= total'
  BY <1>1, <1>3, <1>4, RemoteAssumption DEF Quotas, MemoryTypeOK, EntriesAreCounted, Entered
<1>6. ASSUME NEW q \in Principals
      PROVE  heldBy'[q] \in 0..PerPrincipal /\ Cardinality(Entries(q)') <= heldBy'[q]
  <2>1. Entries(q)' = Entries(q) \ Gone(q) /\ Gone(q) \subseteq Entries(q)
    BY <1>1, RemoteAssumption DEF Entries, Entered
  <2>2. IsFiniteSet(Entries(q))
    BY <1>3, FS_Subset DEF Entries, Entered
  <2>3. Cardinality(Entries(q)') = Cardinality(Entries(q)) - Cardinality(Gone(q))
    <3>1. Entries(q) \intersect Gone(q) = Gone(q)
      BY <2>1
    <3> QED BY <2>1, <2>2, <3>1, FS_Difference
  <2>4. /\ Cardinality(Gone(q)) \in Nat /\ Cardinality(Entries(q)) \in Nat
        /\ Cardinality(Gone(q)) <= Cardinality(Entries(q))
    BY <2>1, <2>2, FS_Subset, FS_CardinalityType
  <2>5. heldBy[q] \in 0..PerPrincipal /\ Cardinality(Entries(q)) <= heldBy[q]
    BY DEF Quotas, MemoryTypeOK, EntriesAreCounted
  <2>6. heldBy'[q] = heldBy[q] - Cardinality(Gone(q))
    BY <1>1
  <2> QED BY <2>3, <2>4, <2>5, <2>6, RemoteAssumption
<1>7. MemoryTypeOK'
  <2>1. heldBy' \in [Principals -> 0..PerPrincipal]
    BY <1>1, <1>6
  <2>2. /\ mem' \in [Messages -> {"none", "pending", "kept", "stale"}]
        /\ holder' \in [Messages -> Principals \union {None}]
    BY <1>1 DEF Quotas, MemoryTypeOK
  <2> QED BY <1>1, <1>5, <2>1, <2>2 DEF Quotas, MemoryTypeOK
<1>8. \A m \in Messages : holder'[m] = None <=> mem'[m] = "none"
  BY <1>1 DEF Quotas
<1> QED BY <1>3, <1>5, <1>6, <1>7, <1>8 DEF Quotas, EntriesAreCounted, Entered

\* A new entry, also in the place of a lapsed one, is counted.
LEMMA RememberCounts ==
  ASSUME Quotas, NEW n \in Messages, NEW p \in Principals, Room(p), Remember(n, p),
         expired' = expired
  PROVE  Quotas'
<1> DEFINE S == Swept(p)
           Gone(q) == {m \in S : holder[m] = q}
<1>1. /\ mem' = [m \in Messages |-> IF m = n THEN "pending"
                                    ELSE IF m \in S THEN "none" ELSE mem[m]]
      /\ holder' = [m \in Messages |-> IF m = n THEN p
                                       ELSE IF m \in S THEN None ELSE holder[m]]
      /\ heldBy' = [q \in Principals |-> HeldAfter(p, q) + (IF q = p THEN 1 ELSE 0)]
      /\ total' = TotalAfter(p) + 1
      /\ lapsed' = lapsed
  BY DEF Remember
<1>2. S \subseteq Entered
  BY DEF Swept, Entered
<1>3. /\ \A q : HeldAfter(p, q) = heldBy[q] - Cardinality(Gone(q))
      /\ TotalAfter(p) = total - Cardinality(S)
      /\ HeldAfter(p, p) < PerPrincipal /\ TotalAfter(p) < Total
  BY DEF HeldAfter, TotalAfter, Room
<1> HIDE DEF S
<1>4. Entered' = (Entered \ S) \union {n}
  BY <1>1 DEF Entered
<1>5. /\ IsFiniteSet(Entered) /\ IsFiniteSet(Entered \ S)
      /\ Cardinality(Entered \ S) = Cardinality(Entered) - Cardinality(S)
  <2>1. Entered \intersect S = S
    BY <1>2
  <2> QED BY <2>1, FS_Difference DEF Quotas
<1>6. /\ Cardinality(S) \in Nat /\ Cardinality(S) <= Cardinality(Entered)
      /\ Cardinality(Entered) \in Nat /\ Cardinality(Entered \ S) \in Nat
  BY <1>2, <1>5, FS_Subset, FS_CardinalityType
<1>7. /\ IsFiniteSet(Entered') /\ Cardinality(Entered') \in Nat
      /\ Cardinality(Entered') <= Cardinality(Entered \ S) + 1
  BY <1>4, <1>5, OneMore
<1>8. total' \in 0..Total /\ Cardinality(Entered') <= total'
  <2>1. total \in 0..Total /\ Cardinality(Entered) <= total
    BY DEF Quotas, MemoryTypeOK, EntriesAreCounted, Entered
  <2> QED BY <1>1, <1>3, <1>5, <1>6, <1>7, <2>1, RemoteAssumption
<1>9. ASSUME NEW q \in Principals
      PROVE  heldBy'[q] \in 0..PerPrincipal /\ Cardinality(Entries(q)') <= heldBy'[q]
  <2>1. Gone(q) \subseteq Entries(q)
    BY <1>2 DEF Entries, Entered
  <2>2. IsFiniteSet(Entries(q))
    BY <1>5, FS_Subset DEF Entries, Entered
  <2>3. /\ IsFiniteSet(Entries(q) \ Gone(q))
        /\ Cardinality(Entries(q) \ Gone(q)) = Cardinality(Entries(q)) - Cardinality(Gone(q))
    <3>1. Entries(q) \intersect Gone(q) = Gone(q)
      BY <2>1
    <3> QED BY <2>2, <3>1, FS_Difference
  <2>4. /\ Cardinality(Gone(q)) \in Nat /\ Cardinality(Entries(q)) \in Nat
        /\ Cardinality(Entries(q) \ Gone(q)) \in Nat
    BY <2>1, <2>2, <2>3, FS_Subset, FS_CardinalityType
  <2>5. heldBy[q] \in 0..PerPrincipal /\ Cardinality(Entries(q)) <= heldBy[q]
    BY DEF Quotas, MemoryTypeOK, EntriesAreCounted
  <2>6. heldBy'[q] = heldBy[q] - Cardinality(Gone(q)) + (IF q = p THEN 1 ELSE 0)
    BY <1>1, <1>3
  <2>7. CASE q = p
    <3>1. Entries(q)' \subseteq (Entries(q) \ Gone(q)) \union {n}
      BY <1>1, RemoteAssumption DEF Entries, Entered
    <3>2. /\ IsFiniteSet((Entries(q) \ Gone(q)) \union {n})
          /\ Cardinality((Entries(q) \ Gone(q)) \union {n}) <= Cardinality(Entries(q) \ Gone(q)) + 1
      BY <2>3, OneMore
    <3>3. /\ Cardinality(Entries(q)') <= Cardinality((Entries(q) \ Gone(q)) \union {n})
          /\ Cardinality(Entries(q)') \in Nat
          /\ Cardinality((Entries(q) \ Gone(q)) \union {n}) \in Nat
      BY <3>1, <3>2, FS_Subset, FS_CardinalityType
    <3>4. heldBy[q] - Cardinality(Gone(q)) < PerPrincipal
      BY <1>3, <2>7
    <3> QED BY <2>3, <2>4, <2>5, <2>6, <2>7, <3>2, <3>3, <3>4, RemoteAssumption
  <2>8. CASE q # p
    <3>1. Entries(q)' \subseteq Entries(q) \ Gone(q)
      BY <1>1, <2>8, RemoteAssumption DEF Entries, Entered
    <3>2. /\ Cardinality(Entries(q)') <= Cardinality(Entries(q) \ Gone(q))
          /\ Cardinality(Entries(q)') \in Nat
      BY <2>3, <3>1, FS_Subset, FS_CardinalityType
    <3> QED BY <2>3, <2>4, <2>5, <2>6, <2>8, <3>2, RemoteAssumption
  <2> QED BY <2>7, <2>8
<1>10. MemoryTypeOK'
  <2>1. heldBy' \in [Principals -> 0..PerPrincipal]
    BY <1>1, <1>9
  <2>2. /\ mem' \in [Messages -> {"none", "pending", "kept", "stale"}]
        /\ holder' \in [Messages -> Principals \union {None}]
    BY <1>1 DEF Quotas, MemoryTypeOK
  <2> QED BY <1>1, <1>8, <2>1, <2>2 DEF Quotas, MemoryTypeOK
<1>11. \A m \in Messages : holder'[m] = None <=> mem'[m] = "none"
  BY <1>1, RemoteAssumption DEF Quotas
<1> QED BY <1>7, <1>8, <1>9, <1>10, <1>11 DEF Quotas, EntriesAreCounted, Entered

\* What leaves every entry in its place leaves the counts right.
LEMMA SameEntriesCount ==
  ASSUME Quotas, MemoryTypeOK', UNCHANGED <<holder, heldBy, total>>,
         \A m \in Messages : mem'[m] = "none" <=> mem[m] = "none"
  PROVE  Quotas'
<1>1. Entered' = Entered /\ \A q : Entries(q)' = Entries(q)
  BY DEF Entered, Entries
<1> QED BY <1>1 DEF Quotas, EntriesAreCounted, Entered

LEMMA QuotasInit == RemoteInit => Quotas
<1> SUFFICES ASSUME RemoteInit PROVE Quotas
  OBVIOUS
<1>1. Entered = {} /\ \A q : Entries(q) = {}
  BY DEF RemoteInit, Entered, Entries
<1>2. MemoryTypeOK
  BY RemoteAssumption DEF RemoteInit, MemoryTypeOK
<1>3. EntriesAreCounted /\ IsFiniteSet(Entered)
  <2>1. /\ \A q \in Principals : heldBy[q] = 0 /\ Cardinality(Entries(q)) = 0
        /\ total = 0 /\ Cardinality(Entered) = 0
    BY <1>1, FS_EmptySet DEF RemoteInit
  <2> QED BY <1>1, <2>1, FS_EmptySet DEF EntriesAreCounted, Entered
<1> QED BY <1>2, <1>3 DEF RemoteInit, Quotas

LEMMA QuotasStep ==
  ASSUME Quotas, Calls, [RemoteNext]_all
  PROVE  Quotas'
<1>1. CASE UNCHANGED <<memory, expired>>
  BY <1>1, SameEntriesCount DEF memory, Quotas, MemoryTypeOK
<1>2. ASSUME NEW m \in Messages, Expire(m) \/ LapseEarly(m) PROVE Quotas'
  BY <1>2, SameEntriesCount DEF Expire, LapseEarly, Quotas, MemoryTypeOK
<1>3. ASSUME NEW c \in Commands, RefuseCall(c) PROVE Quotas'
  <2>1. CASE UNCHANGED memory
    BY <1>1, <1>3, <2>1 DEF RefuseCall
  <2>2. CASE ~ UNCHANGED memory
    <3>1. Forgetting(Swept(PrincipalOf(c))) /\ expired' = expired
      BY <1>3, <2>2 DEF RefuseCall
    <3>2. Swept(PrincipalOf(c)) \subseteq Entered
      BY DEF Swept, Entered
    <3> QED BY <3>1, <3>2, ForgettingCounts
  <2> QED BY <2>1, <2>2
<1>4. ASSUME NEW c \in Commands, DispatchCall(c) PROVE Quotas'
  <2>1. MessageOf(c) \in Messages /\ PrincipalOf(c) \in Principals
    BY LoadTyped DEF Calls, CallTypeOK
  <2> QED BY <1>4, <2>1, RememberCounts DEF DispatchCall
<1>5. ASSUME NEW c \in Commands, EdgeAnswers(c) PROVE Quotas'
  <2>1. MessageOf(c) \in Messages
    BY LoadTyped DEF Calls, CallTypeOK
  <2>2. mem[MessageOf(c)] = "pending" /\ expired' = expired
    BY <1>5 DEF EdgeAnswers, Calls, DispatchedPends
  <2>3. CASE Forgetting({MessageOf(c)})
    <3>1. {MessageOf(c)} \subseteq Entered
      BY <2>1, <2>2 DEF Entered
    <3> QED BY <2>2, <2>3, <3>1, ForgettingCounts
  <2>4. CASE Keep(MessageOf(c))
    BY <2>1, <2>2, <2>4, SameEntriesCount DEF Keep, Quotas, MemoryTypeOK
  <2> QED BY <1>5, <2>3, <2>4 DEF EdgeAnswers, MemorySettles
<1>6. CASE UNCHANGED all
  BY <1>1, <1>6 DEF all, remote
<1>7. CASE RemoteNext
  <2>1. CASE \E c \in Commands : RefuseCall(c) \/ DispatchCall(c) \/ EdgeAnswers(c)
    BY <1>3, <1>4, <1>5, <2>1
  <2>2. CASE \E m \in Messages : Expire(m) \/ LapseEarly(m)
    BY <1>2, <2>2
  <2>3. CASE /\ ~ \E c \in Commands : RefuseCall(c) \/ DispatchCall(c) \/ EdgeAnswers(c)
             /\ ~ \E m \in Messages : Expire(m) \/ LapseEarly(m)
    <3>1. UNCHANGED <<memory, expired>>
      BY <1>7, <2>3 DEF RemoteNext, Call, HearAnswer, GiveUp, CallLost, CallDropped, ReadFrame,
         Ignore, RunHandler, TimesOut, Forward, Expired, ReplyArrives, ForwardLate, Registers,
         Drop, NeverWritten, Reconnect, HandlerActs, HandlerReplies, remote
    <3> QED BY <1>1, <3>1
  <2> QED BY <2>1, <2>2, <2>3
<1> QED BY <1>6, <1>7

-----------------------------------------------------------------------------
(* The edge's calls, and what it remembers of them.                        *)

\* A result is no more than what the bus made of a request.
LEMMA ResultsSettle ==
  ASSUME BusInv, BusMoves, NEW d \in Commands
  PROVE  /\ result'[d] = "unsent" <=> result[d] = "unsent"
         /\ result'[d] = "pending" => result[d] = "pending"
<1> USE DEF BusInv, TypeOK, Rejected
<1>1. CASE \E r \in Regs : Respond(r) \/ Unrespond(r)
  BY <1>1 DEF Respond, Unrespond, QueuedIsFresh
<1>2. CASE \E c \in Commands : Deadline(c) \/ Abort(c)
  BY <1>2 DEF Deadline, Abort, End
<1>3. CASE \E r \in Regs, c \in Commands : Skip(r, c) \/ Start(r, c)
  BY <1>3 DEF Skip, Start, Settled
<1>4. CASE \E r \in Regs, res \in Results : Answer(r, res)
  <2>1. PICK r \in Regs, res \in Results : Answer(r, res)
    BY <1>4
  <2>2. res \in {"accepted", "uncertain", "refused", "unavailable"}
    BY <2>1 DEF Answer, Answers
  <2> QED BY <2>1, <2>2 DEF Answer, Settled, Active
<1>5. CASE UNCHANGED vars
  BY <1>5 DEF vars
<1> QED BY <1>1, <1>2, <1>3, <1>4, <1>5 DEF BusMoves

\* The bus's moves and the remote handler's effect leave the calls alone.
LEMMA CallsStay ==
  ASSUME BusInv, Calls, UNCHANGED <<requester, mem>>,
         BusMoves \/ result' = result
  PROVE  Calls'
<1>1. \A d \in Commands : /\ result'[d] = "unsent" <=> result[d] = "unsent"
                          /\ result'[d] = "pending" => result[d] = "pending"
                          /\ MessageOf(d)' = MessageOf(d)
  BY ResultsSettle DEF requester, MessageOf
<1> QED BY <1>1 DEF requester, Calls, CallTypeOK, DispatchedHere, DispatchedPends, DispatchedOnce

LEMMA DispatchCalls ==
  ASSUME BusInv, Calls, NEW c \in Commands, DispatchCall(c)
  PROVE  Calls'
<1> DEFINE m == MessageOf(c)
<1>1. /\ call[c] = "sent" /\ call' = [call EXCEPT ![c] = "dispatched"]
      /\ mem[m] \notin {"pending", "kept"}
      /\ UNCHANGED <<load, verdict, answer>>
      /\ Remember(m, PrincipalOf(c)) /\ Request(c, None)
  BY DEF DispatchCall, Remembered
<1>2. /\ result'[c] # "unsent"
      /\ \A d \in Commands : d # c => result'[d] = result[d]
  BY <1>1 DEF Request, Dispatch, Refuse, BusInv, TypeOK, Rejected
<1>3. call'[c] = "dispatched" /\ \A d \in Commands : d # c => call'[d] = call[d]
  BY <1>1 DEF Calls, CallTypeOK
<1>4. \A d \in Commands : MessageOf(d)' = MessageOf(d) /\ MessageOf(d) \in Messages
  BY <1>1, LoadTyped DEF MessageOf, Calls, CallTypeOK
<1>5. /\ mem'[m] = "pending"
      /\ \A n \in Messages : n # m /\ mem[n] = "pending" => mem'[n] = "pending"
  BY <1>1, <1>4 DEF Remember, Swept
<1>6. \A d \in Commands : call[d] = "dispatched" => MessageOf(d) # m
  BY <1>1 DEF Calls, DispatchedPends
<1>7. CallTypeOK'
  BY <1>1 DEF Calls, CallTypeOK
<1>8. DispatchedHere'
  BY <1>2, <1>3 DEF Calls, DispatchedHere
<1>9. DispatchedPends' /\ DispatchedOnce'
  BY <1>3, <1>4, <1>5, <1>6 DEF Calls, DispatchedPends, DispatchedOnce
<1> QED BY <1>7, <1>8, <1>9 DEF Calls

LEMMA AnswerCalls ==
  ASSUME BusInv, Calls, MemoryTypeOK, NEW c \in Commands, EdgeAnswers(c)
  PROVE  Calls'
<1> DEFINE m == MessageOf(c)
<1>1. /\ call[c] = "dispatched" /\ call' = [call EXCEPT ![c] = "ended"]
      /\ result[c] \in Results \ {"unsent", "pending"}
      /\ UNCHANGED <<load, answer, result>>
      /\ verdict' = [verdict EXCEPT ![c] = IF result[c] \in Rejected THEN "rejected" ELSE result[c]]
  BY DEF EdgeAnswers, vars, Calls, DispatchedHere, BusInv, TypeOK
<1>2. call'[c] = "ended" /\ \A d \in Commands : d # c => call'[d] = call[d]
  BY <1>1 DEF Calls, CallTypeOK
<1>3. \A d \in Commands : MessageOf(d)' = MessageOf(d) /\ MessageOf(d) \in Messages
  BY <1>1, LoadTyped DEF MessageOf, Calls, CallTypeOK
<1>4. \A n \in Messages : n # m /\ mem[n] = "pending" => mem'[n] = "pending"
  BY DEF EdgeAnswers, MemorySettles, Forgetting, Keep, MemoryTypeOK
<1>5. \A d \in Commands : d # c /\ call[d] = "dispatched" => MessageOf(d) # m
  BY <1>1 DEF Calls, DispatchedOnce
<1>6. CallTypeOK'
  BY <1>1 DEF Calls, CallTypeOK, RemoteVerdicts, Results
<1>7. DispatchedHere'
  BY <1>1, <1>2 DEF Calls, DispatchedHere
<1>8. DispatchedPends' /\ DispatchedOnce'
  BY <1>2, <1>3, <1>4, <1>5 DEF Calls, DispatchedPends, DispatchedOnce
<1> QED BY <1>6, <1>7, <1>8 DEF Calls

\* The requester's own steps, refusals of the edge's and time.
LEMMA OtherCalls ==
  ASSUME BusInv, Calls, MemoryTypeOK,
         \/ \E c \in Commands :
              Call(c) \/ RefuseCall(c) \/ HearAnswer(c) \/ GiveUp(c) \/ CallLost(c)
         \/ \E m \in Messages : Expire(m) \/ LapseEarly(m)
  PROVE  Calls'
<1>1. UNCHANGED <<load, result>>
  BY DEF Call, RefuseCall, HearAnswer, GiveUp, CallLost, Expire, LapseEarly, vars, requester
<1>2. \A n \in Messages : mem[n] = "pending" => mem'[n] = "pending"
  <2>1. CASE \E c \in Commands : RefuseCall(c)
    BY <2>1 DEF RefuseCall, memory, Forgetting, Swept
  <2>2. CASE \E c \in Commands : Call(c) \/ HearAnswer(c) \/ GiveUp(c) \/ CallLost(c)
    BY <2>2 DEF Call, HearAnswer, GiveUp, CallLost, memory
  <2>3. CASE \E m \in Messages : Expire(m) \/ LapseEarly(m)
    BY <2>3 DEF Expire, LapseEarly, MemoryTypeOK
  <2> QED BY <2>1, <2>2, <2>3
<1>3. \A d \in Commands : MessageOf(d)' = MessageOf(d) /\ MessageOf(d) \in Messages
  BY <1>1, LoadTyped DEF MessageOf, Calls, CallTypeOK
<1>4. CallTypeOK'
  BY DEF Call, RefuseCall, HearAnswer, GiveUp, CallLost, Expire, LapseEarly, requester,
         Calls, CallTypeOK, RemoteVerdicts
<1>5. \A d \in Commands : call'[d] = "dispatched" <=> call[d] = "dispatched"
  BY DEF Call, RefuseCall, HearAnswer, GiveUp, CallLost, Expire, LapseEarly, requester,
         Calls, CallTypeOK
<1>6. \A d \in Commands : call'[d] \in {"none", "sent"} => call[d] \in {"none", "sent"}
  BY DEF Call, RefuseCall, HearAnswer, GiveUp, CallLost, Expire, LapseEarly, requester,
         Calls, CallTypeOK
<1>7. DispatchedHere'
  BY <1>1, <1>5, <1>6 DEF Calls, DispatchedHere
<1>8. DispatchedPends' /\ DispatchedOnce'
  BY <1>2, <1>3, <1>5 DEF Calls, DispatchedPends, DispatchedOnce
<1> QED BY <1>4, <1>7, <1>8 DEF Calls

\* The steps of the bus, the forwards and the client.
OnTheWay ==
  \/ \E c \in Commands :
       \/ CallDropped(c) \/ ReadFrame(c) \/ Ignore(c) \/ RunHandler(c) \/ TimesOut(c)
       \/ \E r \in Regs : Forward(r, c) \/ Expired(r, c)
       \/ \E res \in Replies : ReplyArrives(c, res)
  \/ \E m \in Messages : ForwardLate(m)
  \/ \E k \in Regs : Registers(k) \/ Drop(k) \/ NeverWritten(k)
  \/ Reconnect \/ HandlerActs
  \/ \E res \in Replies : HandlerReplies(res)

LEMMA OnTheWayStays ==
  ASSUME OnTheWay
  PROVE  UNCHANGED <<requester, memory, expired>>
BY DEF OnTheWay, CallDropped, ReadFrame, Ignore, RunHandler, TimesOut, Forward, Expired,
       ReplyArrives, ForwardLate, Registers, Drop, NeverWritten, Reconnect, HandlerActs,
       HandlerReplies, remote

LEMMA CallsStep ==
  ASSUME BusInv, Delivery, Calls, Quotas, [RemoteNext]_all
  PROVE  Calls'
<1>1. CASE \E c \in Commands : DispatchCall(c)
  BY <1>1, DispatchCalls
<1>2. CASE \E c \in Commands : EdgeAnswers(c)
  BY <1>2, AnswerCalls DEF Quotas
<1>3. CASE \/ \E c \in Commands :
                Call(c) \/ RefuseCall(c) \/ HearAnswer(c) \/ GiveUp(c) \/ CallLost(c)
           \/ \E m \in Messages : Expire(m) \/ LapseEarly(m)
  BY <1>3, OtherCalls DEF Quotas
<1>4. CASE OnTheWay /\ RemoteNext /\ ~ \E c \in Commands : DispatchCall(c)
  <2>1. UNCHANGED <<requester, mem>>
    BY <1>4, OnTheWayStays DEF memory
  <2>2. BusMoves \/ result' = result
    BY <1>4, StepOfBus DEF HandlerActs, Delivery
  <2> QED BY <2>1, <2>2, CallsStay
<1>5. CASE UNCHANGED all
  BY <1>5, CallsStay DEF all, remote, memory, vars
<1> QED BY <1>1, <1>2, <1>3, <1>4, <1>5 DEF RemoteNext, OnTheWay

-----------------------------------------------------------------------------
(* A message runs once.                                                    *)

\* A step that runs nothing, forgets nothing in time and dispatches nothing.
LEMMA RunsStay ==
  ASSUME Runs, UNCHANGED <<load, runs>>, lapsed \subseteq lapsed', expired \subseteq expired',
         \A m \in Messages :
           Remembered(m) /\ m \notin lapsed' \union expired' => Remembered(m)',
         \A c \in Commands : /\ Candidate(c)' => Candidate(c)
                             /\ (Fresh(c) \/ Unrun(c))' => Fresh(c) \/ Unrun(c),
         load \in Loads
  PROVE  Runs'
<1>1. \A c \in Commands : MessageOf(c)' = MessageOf(c) /\ MessageOf(c) \in Messages
  BY LoadTyped DEF MessageOf
<1>2. \A c, d \in Commands :
        /\ Candidate(c)' /\ Candidate(d)' /\ MessageOf(c) = MessageOf(d)
        /\ MessageOf(c) \notin lapsed'
        => c = d
  BY DEF Runs
<1>3. \A c \in Commands :
        Candidate(c)' /\ MessageOf(c) \notin lapsed' \union expired' => Remembered(MessageOf(c))'
  BY <1>1 DEF Runs
<1>4. \A m \in Messages :
        runs'[m] # 0 /\ m \notin lapsed' \union expired' => Remembered(m)'
  BY DEF Runs
<1>5. \A c \in Commands :
        MessageOf(c) \notin lapsed' /\ (Fresh(c)' \/ Unrun(c)') => runs'[MessageOf(c)] = 0
  BY DEF Runs
<1>6. RunsOnce'
  BY DEF Runs, RunsOnce
<1> QED BY <1>1, <1>2, <1>3, <1>4, <1>5, <1>6 DEF Runs, Remembered

\* The requester, time and the edge's refusals.
LEMMA OtherRuns ==
  ASSUME Calls, MemoryTypeOK, Runs,
         \/ \E c \in Commands :
              Call(c) \/ RefuseCall(c) \/ HearAnswer(c) \/ GiveUp(c) \/ CallLost(c)
         \/ \E m \in Messages : Expire(m) \/ LapseEarly(m)
  PROVE  Runs'
<1>1. /\ UNCHANGED <<vars, load, runs, frames, inbox, waiting>>
      /\ lapsed \subseteq lapsed' /\ expired \subseteq expired'
  BY DEF Call, RefuseCall, HearAnswer, GiveUp, CallLost, Expire, LapseEarly, requester,
         responder, memory, Forgetting
<1>2. \A d \in Commands : call'[d] = "dispatched" => call[d] = "dispatched"
  BY DEF Call, RefuseCall, HearAnswer, GiveUp, CallLost, Expire, LapseEarly, requester,
         Calls, CallTypeOK
<1>3. \A n \in Messages :
        mem[n] \in {"pending", "kept"} /\ n \notin lapsed' \union expired'
          => mem'[n] \in {"pending", "kept"}
  <2>1. CASE \E c \in Commands : RefuseCall(c)
    BY <2>1 DEF RefuseCall, memory, Forgetting, Swept
  <2>2. CASE \E c \in Commands : Call(c) \/ HearAnswer(c) \/ GiveUp(c) \/ CallLost(c)
    BY <2>2 DEF Call, HearAnswer, GiveUp, CallLost, memory
  <2>3. CASE \E m \in Messages : Expire(m) \/ LapseEarly(m)
    BY <2>3 DEF Expire, LapseEarly, MemoryTypeOK
  <2> QED BY <2>1, <2>2, <2>3
<1>4. \A c \in Commands : /\ Candidate(c)' => Candidate(c)
                          /\ (Fresh(c) \/ Unrun(c))' => Fresh(c) \/ Unrun(c)
  BY <1>1, <1>2 DEF vars, Candidate, Fresh, Unrun, Waiting, MessageOf
<1>5. \A m \in Messages :
        Remembered(m) /\ m \notin lapsed' \union expired' => Remembered(m)'
  BY <1>3 DEF Remembered
<1>6. load \in Loads
  BY DEF Calls, CallTypeOK
<1> QED BY <1>1, <1>4, <1>5, <1>6, RunsStay

\* A repeat is dispatched only if nothing can still run its message, or ran it.
LEMMA DispatchRuns ==
  ASSUME BusInv, Delivery, Calls, Runs, NEW c \in Commands, DispatchCall(c)
  PROVE  Runs'
<1> DEFINE m == MessageOf(c)
<1>1. /\ call' = [call EXCEPT ![c] = "dispatched"]
      /\ m \notin expired /\ ~Remembered(m)
      /\ UNCHANGED <<load, lapsed, expired, runs, frames, inbox, waiting, running>>
      /\ Remember(m, PrincipalOf(c)) /\ Request(c, None)
  BY DEF DispatchCall, responder, Remember, Request
<1>2. call'[c] = "dispatched" /\ \A d \in Commands : d # c => call'[d] = call[d]
  BY <1>1 DEF Calls, CallTypeOK
<1>3. \A d \in Commands : MessageOf(d)' = MessageOf(d) /\ MessageOf(d) \in Messages
  BY <1>1, LoadTyped DEF MessageOf, Calls, CallTypeOK
<1>4. /\ Remembered(m)'
      /\ \A n \in Messages : Remembered(n) => Remembered(n)'
  BY <1>1, <1>3 DEF Remember, Swept, Remembered
<1>5. \A d \in Commands : (Fresh(d)' <=> Fresh(d)) /\ (d # c /\ Candidate(d)' => Candidate(d))
  BY <1>1, <1>2 DEF Fresh, Candidate
<1>6. m \notin lapsed => runs[m] = 0 /\ \A d \in Commands : Candidate(d) => MessageOf(d) # m
  BY <1>1, <1>3 DEF Runs
<1>7. ASSUME NEW d \in Commands, d # c, Unrun(d)' PROVE Unrun(d)
  <2>1. Waiting(d)' => Waiting(d)
    BY <1>1, <1>7 DEF Request, Dispatch, Refuse, Push, Waiting, BusInv, TypeOK
  <2>2. result'[d] = result[d]
    BY <1>1, <1>7 DEF Request, Dispatch, Refuse, BusInv, TypeOK
  <2> QED BY <1>1, <1>2, <1>3, <1>7, <2>1, <2>2 DEF Unrun
<1>8. ASSUME NEW d \in Commands, NEW e \in Commands, Candidate(d)', Candidate(e)',
             MessageOf(d) = MessageOf(e), MessageOf(d) \notin lapsed
      PROVE  d = e
  BY <1>5, <1>6, <1>8 DEF Runs
<1>9. ASSUME NEW d \in Commands, Candidate(d)', MessageOf(d) \notin lapsed \union expired
      PROVE  Remembered(MessageOf(d))'
  BY <1>3, <1>4, <1>5, <1>9 DEF Runs
<1>10. ASSUME NEW d \in Commands, MessageOf(d) \notin lapsed, Fresh(d)' \/ Unrun(d)'
       PROVE  runs[MessageOf(d)] = 0
  BY <1>5, <1>6, <1>7, <1>10 DEF Runs
<1>11. \A n \in Messages : runs[n] # 0 /\ n \notin lapsed \union expired => Remembered(n)'
  BY <1>4 DEF Runs
<1>12. RunsOnce'
  BY <1>1 DEF Runs, RunsOnce
<1> HIDE DEF m
<1> QED BY <1>1, <1>3, <1>8, <1>9, <1>10, <1>11, <1>12 DEF Runs, Remembered

\* What the edge forgets when the bus refused it was not and will not be run.
LEMMA AnswerRuns ==
  ASSUME Delivery, Calls, MemoryTypeOK, Runs, NEW c \in Commands, EdgeAnswers(c)
  PROVE  Runs'
<1> DEFINE m == MessageOf(c)
<1>1. /\ call[c] = "dispatched" /\ call' = [call EXCEPT ![c] = "ended"]
      /\ UNCHANGED <<vars, load, lapsed, expired, runs, frames, inbox, waiting>>
  BY DEF EdgeAnswers, responder, MemorySettles, Forgetting, Keep
<1>2. call'[c] = "ended" /\ \A d \in Commands : d # c => call'[d] = call[d]
  BY <1>1 DEF Calls, CallTypeOK
<1>3. \A d \in Commands : MessageOf(d)' = MessageOf(d) /\ MessageOf(d) \in Messages
  BY <1>1, LoadTyped DEF MessageOf, Calls, CallTypeOK
<1>4. \A d \in Commands : /\ Candidate(d)' => Candidate(d)
                          /\ Fresh(d)' <=> Fresh(d)
                          /\ Unrun(d)' => Unrun(d)
  BY <1>1, <1>2 DEF vars, Candidate, Fresh, Unrun, Waiting, MessageOf
<1>5. CASE result[c] \notin Rejected \ {"refused"}
  <2>1. \A n \in Messages :
          mem[n] \in {"pending", "kept"} /\ n \notin lapsed' \union expired'
            => mem'[n] \in {"pending", "kept"}
    BY <1>1, <1>3, <1>5 DEF EdgeAnswers, MemorySettles, Keep, MemoryTypeOK
  <2>2. \A n \in Messages :
          Remembered(n) /\ n \notin lapsed' \union expired' => Remembered(n)'
    BY <2>1 DEF Remembered
  <2>3. load \in Loads
    BY DEF Calls, CallTypeOK
  <2> QED BY <1>1, <1>4, <2>2, <2>3, RunsStay
<1>6. CASE result[c] \in Rejected \ {"refused"}
  <2>1. \A n \in Messages : n # m => (Remembered(n)' <=> Remembered(n))
    BY <1>6 DEF EdgeAnswers, MemorySettles, Forgetting, Remembered
  <2>2. ~Fresh(c)
    BY <1>6 DEF Delivery, ClientIsUndecided, Outstanding, Rejected
  <2>3. ~Candidate(c)'
    BY <1>2, <1>4, <2>2 DEF Candidate
  <2>4. m \notin lapsed => runs[m] = 0 /\ \A d \in Commands : Candidate(d)' => MessageOf(d) # m
    BY <1>1, <1>3, <1>4, <1>6, <2>3 DEF Runs, Unrun, Candidate
  <2>5. \A d \in Commands :
          Candidate(d)' /\ MessageOf(d) \notin lapsed \union expired => Remembered(MessageOf(d))'
    BY <1>3, <1>4, <2>1, <2>4 DEF Runs
  <2>6. \A n \in Messages : runs[n] # 0 /\ n \notin lapsed \union expired => Remembered(n)'
    BY <2>1, <2>4 DEF Runs
  <2>7. \A d, e \in Commands :
          /\ Candidate(d)' /\ Candidate(e)' /\ MessageOf(d) = MessageOf(e)
          /\ MessageOf(d) \notin lapsed
          => d = e
    BY <1>4 DEF Runs
  <2>8. \A d \in Commands :
          MessageOf(d) \notin lapsed /\ (Fresh(d)' \/ Unrun(d)') => runs[MessageOf(d)] = 0
    BY <1>4 DEF Runs
  <2>9. RunsOnce'
    BY <1>1 DEF Runs, RunsOnce
  <2> HIDE DEF m
  <2> QED BY <1>1, <1>3, <2>5, <2>6, <2>7, <2>8, <2>9 DEF Runs, Remembered
<1> QED BY <1>5, <1>6

\* A result the bus gives on its own is of a command that waited, or of one
\* whose frame was never written.
LEMMA BusEndsRuns ==
  ASSUME BusInv, Delivery, Calls, Runs,
         \/ \E c \in Commands :
              CallDropped(c) \/ TimesOut(c) \/ \E r \in Regs : Expired(r, c)
         \/ \E k \in Regs : Registers(k) \/ Drop(k) \/ NeverWritten(k)
  PROVE  Runs'
<1>1. UNCHANGED <<load, call, mem, lapsed, expired, runs, frames, inbox, waiting>>
  BY DEF CallDropped, TimesOut, Expired, Registers, Drop, NeverWritten, remote, requester,
         memory, responder
<1>2. ASSUME NEW d \in Commands, Unrun(d)' PROVE Unrun(d)
  <2>1. MessageOf(d)' = MessageOf(d) /\ call[d] = "dispatched"
    BY <1>1, <1>2 DEF MessageOf, Unrun
  <2>2. CASE \E c \in Commands : CallDropped(c) \/ TimesOut(c)
    BY <1>1, <1>2, <2>1, <2>2 DEF CallDropped, TimesOut, Abort, Deadline, End, TakeOut,
       Unrun, Waiting, BusInv, TypeOK, Rejected
  <2>3. CASE \E c \in Commands, r \in Regs : Expired(r, c)
    BY <1>1, <1>2, <2>1, <2>3 DEF Expired, Skip, FirstIn, Settled, TakeOut,
       Unrun, Waiting, BusInv, TypeOK
  <2>4. CASE \E k \in Regs : Registers(k) \/ Drop(k)
    BY <1>1, <1>2, <2>1, <2>4 DEF Registers, Drop, Respond, Unrespond, TakeOut, vars,
       Unrun, Waiting, BusInv, TypeOK
  <2>5. ASSUME NEW k \in Regs, NeverWritten(k) PROVE Unrun(d)
    <3>1. /\ running[k] # None /\ waiting[MessageOf(running[k])] # k
          /\ running' = [running EXCEPT ![k] = None] /\ queue' = queue
          /\ \A e \in Commands : e # running[k] => result'[e] = result[e]
      BY <2>5 DEF NeverWritten, Answer, BusInv, TypeOK
    <3>2. \A r \in Regs : running'[r] = d => running[r] = d
      BY BusAssumption, <3>1 DEF BusInv, TypeOK
    <3> QED BY <1>1, <1>2, <2>1, <3>1, <3>2 DEF Unrun, Waiting
  <2> QED BY <2>2, <2>3, <2>4, <2>5
<1>3. \A c \in Commands : /\ Candidate(c)' => Candidate(c)
                          /\ (Fresh(c) \/ Unrun(c))' => Fresh(c) \/ Unrun(c)
  BY <1>1, <1>2 DEF Candidate, Fresh
<1>4. \A m \in Messages : Remembered(m)' <=> Remembered(m)
  BY <1>1 DEF Remembered
<1>5. load \in Loads
  BY DEF Delivery
<1> QED BY <1>1, <1>3, <1>4, <1>5, RunsStay

\* The end of a forward is nothing the edge may take for `never sent'.
LEMMA ForwardEndsRun ==
  ASSUME BusInv, Delivery, Calls, Runs,
         \/ \E m \in Messages : ForwardLate(m)
         \/ \E c \in Commands, res \in Replies : ReplyArrives(c, res)
  PROVE  Runs'
<1>1. UNCHANGED <<load, call, mem, lapsed, expired, runs, frames, inbox>>
  BY DEF ForwardLate, ReplyArrives, requester, memory, responder
<1>2. \/ UNCHANGED <<vars, waiting>>
      \/ \E m \in Messages, res \in Replies : waiting[m] # None /\ Finish(m, res)
  <2>1. CASE \E m \in Messages : ForwardLate(m)
    BY <2>1 DEF ForwardLate, Replies
  <2>2. CASE \E c \in Commands, res \in Replies : ReplyArrives(c, res)
    BY <2>2, LoadTyped DEF ReplyArrives, Delivery
  <2> QED BY <2>1, <2>2
<1>3. ASSUME NEW d \in Commands, Unrun(d)' PROVE Unrun(d)
  <2>1. MessageOf(d)' = MessageOf(d) /\ MessageOf(d) \in Messages /\ call[d] = "dispatched"
    BY <1>1, <1>3, LoadTyped DEF MessageOf, Unrun, Delivery
  <2>2. CASE UNCHANGED <<vars, waiting>>
    BY <1>1, <1>3, <2>1, <2>2 DEF vars, Unrun, Waiting
  <2>3. ASSUME NEW m \in Messages, NEW res \in Replies, waiting[m] # None, Finish(m, res)
        PROVE  Unrun(d)
    <3>1. waiting[m] \in Regs
      BY <2>3 DEF Delivery, WayTypeOK
    <3>2. /\ running' = [running EXCEPT ![waiting[m]] = None] /\ queue' = queue
          /\ waiting' = [waiting EXCEPT ![m] = None]
          /\ result'[d] = result[d] \/ result'[d] = res
      BY <2>3 DEF Finish, Answer, Settled, BusInv, TypeOK
    <3>3. result'[d] \in Rejected \ {"refused"} => result[d] \in Rejected \ {"refused"}
      BY <3>2 DEF Replies, Rejected
    <3>4. ASSUME NEW r \in Regs, running'[r] = d, waiting'[MessageOf(d)] # r
          PROVE  running[r] = d /\ waiting[MessageOf(d)] # r
      <4>1. r # waiting[m] /\ running[r] = d
        BY BusAssumption, <3>1, <3>2, <3>4 DEF BusInv, TypeOK
      <4>2. waiting[MessageOf(d)] # r
        BY <2>1, <3>2, <3>4, <4>1 DEF Delivery, WayTypeOK
      <4> QED BY <4>1, <4>2
    <3> QED BY <1>3, <2>1, <3>2, <3>3, <3>4 DEF Unrun, Waiting
  <2> QED BY <1>2, <2>2, <2>3
<1>4. \A c \in Commands : /\ Candidate(c)' => Candidate(c)
                          /\ (Fresh(c) \/ Unrun(c))' => Fresh(c) \/ Unrun(c)
  BY <1>1, <1>3 DEF Candidate, Fresh
<1>5. \A m \in Messages : Remembered(m)' <=> Remembered(m)
  BY <1>1 DEF Remembered
<1>6. load \in Loads
  BY DEF Delivery
<1> QED BY <1>1, <1>4, <1>5, <1>6, RunsStay

\* What is forwarded was dispatched, and had not been run.
LEMMA ForwardRunsOnce ==
  ASSUME BusInv, Delivery, Calls, Runs, NEW r \in Regs, NEW c \in Commands, Forward(r, c)
  PROVE  Runs'
<1>1. UNCHANGED <<load, call, mem, lapsed, expired, runs, inbox, result>>
  BY DEF Forward, Start, requester, memory
<1>2. /\ running[r] = None /\ running' = [running EXCEPT ![r] = c]
      /\ Waiting(c) /\ result[c] = "pending"
      /\ \A d \in Commands : Waiting(d)' => Waiting(d)
      /\ frames' \subseteq frames \union {<<r, c>>}
      /\ waiting' = waiting
         \/ (waiting[MessageOf(c)] = None /\ waiting' = [waiting EXCEPT ![MessageOf(c)] = r])
  BY DEF Forward, Start, FirstIn, TakeOut, Waiting, BusInv, QueuedIsFresh
<1>3. Unrun(c)
  BY <1>2 DEF Unrun, Calls, DispatchedHere
<1>4. ASSUME NEW d \in Commands, d # c, Unrun(d)' PROVE Unrun(d)
  <2>1. MessageOf(d)' = MessageOf(d) /\ MessageOf(d) \in Messages
    BY <1>1, LoadTyped DEF MessageOf, Delivery
  <2>2. ASSUME NEW s \in Regs, running'[s] = d, waiting'[MessageOf(d)] # s
        PROVE  running[s] = d /\ waiting[MessageOf(d)] # s
    <3>1. running[s] = d
      BY <1>2, <1>4, <2>2 DEF BusInv, TypeOK
    <3>2. waiting[MessageOf(d)] # s
      BY BusAssumption, <1>2, <2>1, <2>2 DEF Delivery, WayTypeOK
    <3> QED BY <3>1, <3>2
  <2> QED BY <1>1, <1>2, <1>4, <2>1, <2>2 DEF Unrun
<1>5. \A d \in Commands : /\ Candidate(d)' => Candidate(d)
                          /\ (Fresh(d) \/ Unrun(d))' => Fresh(d) \/ Unrun(d)
  BY <1>1, <1>2, <1>3, <1>4 DEF Candidate, Fresh, Unrun
<1>6. \A m \in Messages : Remembered(m)' <=> Remembered(m)
  BY <1>1 DEF Remembered
<1>7. load \in Loads
  BY DEF Delivery
<1> QED BY <1>1, <1>5, <1>6, <1>7, RunsStay

LEMMA HandlerRunsOnce ==
  ASSUME BusInv, Delivery, Calls, Runs, NEW c \in Commands, RunHandler(c)
  PROVE  Runs'
<1> DEFINE m == MessageOf(c)
<1>1. /\ c \in inbox /\ inbox' = inbox \ {c}
      /\ runs' = [runs EXCEPT ![m] = @ + 1]
      /\ UNCHANGED <<vars, load, call, mem, lapsed, expired, waiting, frames>>
  BY DEF RunHandler, requester, memory
<1>2. \A d \in Commands : MessageOf(d)' = MessageOf(d) /\ MessageOf(d) \in Messages
  BY <1>1, LoadTyped DEF MessageOf, Delivery
<1>3. Fresh(c) /\ Candidate(c) /\ Outstanding(c) /\ ~Fresh(c)'
  BY <1>1 DEF Fresh, Candidate, Outstanding, Delivery, OnePlace
<1>4. \A d \in Commands : /\ Candidate(d)' => Candidate(d)
                          /\ Fresh(d)' => Fresh(d)
                          /\ Unrun(d)' <=> Unrun(d)
  BY <1>1 DEF Candidate, Fresh, Unrun, Waiting, MessageOf, vars
<1>5. ~Unrun(c)
  <2>1. starts[c] = 1 /\ result[c] \in {"pending", "uncertain"}
    BY <1>3 DEF Delivery, ClientIsUndecided
  <2>2. ~Waiting(c)
    BY <2>1 DEF BusInv, QueuedIsFresh, Waiting
  <2>3. \A r \in Regs : running[r] = c => waiting[m] = r
    BY BusAssumption, <1>2, <1>3 DEF Delivery, ForwardIsOwn, WayTypeOK, BusInv, InOnePlace
  <2> QED BY <2>1, <2>2, <2>3 DEF Unrun, Rejected
<1>6. m \notin lapsed => runs[m] = 0
  BY <1>3 DEF Runs
<1>7. /\ m \notin lapsed => runs'[m] = 1
      /\ \A n \in Messages : n # m => runs'[n] = runs[n]
  BY <1>1, <1>2, <1>6 DEF Delivery, WayTypeOK
<1>8. \A n : Remembered(n)' <=> Remembered(n)
  BY <1>1 DEF Remembered
<1>9. \A d \in Commands :
        MessageOf(d) \notin lapsed /\ (Fresh(d)' \/ Unrun(d)') => MessageOf(d) # m
  BY <1>3, <1>4, <1>5 DEF Runs, Candidate, Unrun
<1>10. \A d \in Commands :
         MessageOf(d) \notin lapsed /\ (Fresh(d)' \/ Unrun(d)') => runs'[MessageOf(d)] = 0
  BY <1>2, <1>4, <1>7, <1>9 DEF Runs
<1>11. RunsOnce'
  BY <1>1, <1>7 DEF Runs, RunsOnce
<1>12. \A n \in Messages : runs'[n] # 0 /\ n \notin lapsed \union expired => Remembered(n)'
  BY <1>3, <1>7, <1>8 DEF Runs
<1>13. \A d \in Commands :
         Candidate(d)' /\ MessageOf(d) \notin lapsed \union expired => Remembered(MessageOf(d))'
  BY <1>2, <1>4, <1>8 DEF Runs
<1>14. \A d, e \in Commands :
         /\ Candidate(d)' /\ Candidate(e)' /\ MessageOf(d) = MessageOf(e)
         /\ MessageOf(d) \notin lapsed
         => d = e
  BY <1>4 DEF Runs
<1> HIDE DEF m
<1> QED BY <1>1, <1>2, <1>10, <1>11, <1>12, <1>13, <1>14 DEF Runs, Remembered

LEMMA ClientRuns ==
  ASSUME Delivery, Calls, Runs,
         \/ \E c \in Commands : ReadFrame(c) \/ Ignore(c)
         \/ Reconnect \/ HandlerActs \/ \E res \in Replies : HandlerReplies(res)
  PROVE  Runs'
<1>1. UNCHANGED <<load, call, mem, lapsed, expired, runs, waiting, queue, running, result>>
  BY DEF ReadFrame, Ignore, Reconnect, HandlerActs, HandlerReplies, vars, remote, requester,
         memory, responder
<1>2. \A c \in Commands : Fresh(c)' => Fresh(c)
  BY DEF ReadFrame, Ignore, Reconnect, HandlerActs, HandlerReplies, remote, responder, Fresh,
         Delivery, WayTypeOK
<1>3. \A c \in Commands : /\ Candidate(c)' => Candidate(c)
                          /\ (Fresh(c) \/ Unrun(c))' => Fresh(c) \/ Unrun(c)
  BY <1>1, <1>2 DEF Candidate, Unrun, Waiting, MessageOf
<1>4. \A m \in Messages : Remembered(m)' <=> Remembered(m)
  BY <1>1 DEF Remembered
<1>5. load \in Loads
  BY DEF Delivery
<1> QED BY <1>1, <1>3, <1>4, <1>5, RunsStay

LEMMA RunsStep ==
  ASSUME BusInv, Delivery, Calls, Quotas, Runs, [RemoteNext]_all
  PROVE  Runs'
<1>1. CASE UNCHANGED all
  <2>1. /\ UNCHANGED <<load, call, mem, lapsed, expired, runs>> /\ load \in Loads
        /\ \A c \in Commands : (Fresh(c)' <=> Fresh(c)) /\ (Unrun(c)' <=> Unrun(c))
    BY <1>1 DEF all, vars, remote, requester, memory, responder, Delivery, Fresh, Unrun,
       Waiting, MessageOf
  <2> QED BY <2>1, RunsStay DEF Candidate, Remembered
<1>2. CASE RemoteNext
  BY <1>2, OtherRuns, DispatchRuns, AnswerRuns, BusEndsRuns, ForwardEndsRun, ForwardRunsOnce,
     HandlerRunsOnce, ClientRuns DEF RemoteNext, Quotas
<1> QED BY <1>1, <1>2

-----------------------------------------------------------------------------
(* The theorems.                                                           *)

LEMMA RemoteInvInit == RemoteInit => RemoteInv
<1> SUFFICES ASSUME RemoteInit PROVE RemoteInv
  OBVIOUS
<1>1. \A c \in Commands : ~Candidate(c) /\ ~Unrun(c)
  BY DEF RemoteInit, Candidate, Unrun, Fresh
<1>2. Runs
  BY <1>1 DEF RemoteInit, Runs, RunsOnce, Candidate
<1>3. Calls
  BY DEF RemoteInit, Init, Calls, CallTypeOK, RemoteVerdicts, DispatchedHere, DispatchedPends,
         DispatchedOnce
<1>4. BusInv /\ Delivery /\ Quotas
  BY BusInit, DeliveryInit, QuotasInit DEF RemoteInit
<1> QED BY <1>2, <1>3, <1>4 DEF RemoteInv

\* Every step of the requester, the edge, the bus and the remote handler's
\* client keeps the invariant, whatever is sent again, lost or late.
THEOREM RemoteInvariant == RemoteSpec => []RemoteInv
<1>1. RemoteInv /\ [RemoteNext]_all => RemoteInv'
  BY BusKept, DeliveryStep, CallsStep, QuotasStep, RunsStep DEF RemoteInv
<1> QED BY RemoteInvInit, <1>1, PTL DEF RemoteSpec

\* Every reachable state is well formed, the client's queue and the memory
\* within their limits.
THEOREM RemoteType == RemoteSpec => []RemoteTypeOK
<1>1. RemoteInv => RemoteTypeOK
  BY DEF RemoteInv, RemoteTypeOK, BusInv, Delivery, Calls, Quotas
<1> QED BY <1>1, RemoteInvariant, PTL

\* RunsOnce: a message is given to the remote handler once, however often it is
\* sent, unless the edge forgot it before its time.
THEOREM RemoteRunsOnce == RemoteSpec => []RunsOnce
<1>1. RemoteInv => RunsOnce
  BY DEF RemoteInv, Runs
<1> QED BY <1>1, RemoteInvariant, PTL

\* EntriesAreCounted: no entry of the edge's memory escapes its quotas.
THEOREM RemoteMemoryBounded == RemoteSpec => []EntriesAreCounted
<1>1. RemoteInv => EntriesAreCounted
  BY DEF RemoteInv, Quotas
<1> QED BY <1>1, RemoteInvariant, PTL
=============================================================================

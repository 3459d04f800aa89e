--------------------------- MODULE RemoteCommands ---------------------------
(***************************************************************************)
(* Commands from a remote part to a remote part: a requester's HTTP call   *)
(* to the edge, the edge's memory of commands, the in-process bus          *)
(* (CommandBus, whose actions this module composes), the edge's forward    *)
(* down the responder's stream, and the responder's client.                *)
(* packages/sdk/src/remote-edge.ts and packages/sdk/src/remote-client.ts.  *)
(*                                                                         *)
(* A command of CommandBus is one request call here; several calls may     *)
(* carry the same message, as when a raw HTTP client sends it again.  A    *)
(* registration of CommandBus is the responder on one connection: the k-th *)
(* stream registers it as k.                                               *)
(***************************************************************************)
EXTENDS CommandBus

CONSTANTS
  Messages,      \* the command messages
  Principals,    \* credentials and sessions of the requesting source
  Loads,         \* who may call with what, a set of such functions
  Long,          \* messages whose deadline is further away than rememberMs
  PerPrincipal,  \* the memory's bound for one principal
  Total          \* the memory's bound for their source

ASSUME RemoteAssumption ==
  /\ Loads \subseteq [Commands -> [message : Messages, principal : Principals]]
  /\ Long \subseteq Messages
  /\ PerPrincipal \in Nat \ {0} /\ Total \in Nat \ {0}
  /\ Regs \subseteq Nat \ {0} /\ 1 \in Regs
  /\ \A c \in Commands : RequesterOf[c] = Edge
  /\ None \notin Principals

VARIABLES
  \* The requester and its calls.
  load,       \* [Commands]: the message and the principal of a call
  call,       \* [Commands]: none, sent, dispatched (the bus has it), ended
  verdict,    \* [Commands]: what the edge answers, or none
  answer,     \* [Commands]: what request() resolved with, or none
  \* The edge.
  mem,        \* [Messages]: none, pending, kept, stale (its time has passed)
  holder,     \* [Messages]: whose quota the entry counts against, or None
  heldBy,     \* [Principals]: #held
  total,      \* #remembered
  expired,    \* messages past their expiry
  lapsed,     \* messages whose entry went stale before that (history)
  streams,    \* connections the edge has open
  waiting,    \* [Messages]: the registration whose forward waits, or None
  \* The responder's client.
  current,    \* its newest stream
  frames,     \* <<connection, command>> written to a stream, not yet read
  inbox,      \* commands that wait for its handler
  busy,       \* the command its handler has, or None
  replies,    \* <<command, reply>> on their way to the edge: one whose call
              \* fails stays here
  runs        \* [Messages]: how often its handler was given it (history)

requester == <<load, call, verdict, answer>>
memory    == <<mem, holder, heldBy, total, lapsed>>
responder == <<current, frames, inbox, busy, replies, runs>>
remote    == <<requester, memory, expired, streams, waiting, responder>>
all       == <<vars, remote>>

MessageOf(c)   == load[c].message
PrincipalOf(c) == load[c].principal

Replies == {"accepted", "refused", "uncertain"}
RemoteVerdicts == {"none", "accepted", "rejected", "uncertain"}

CallTypeOK ==
  /\ load \in Loads
  /\ call \in [Commands -> {"none", "sent", "dispatched", "ended"}]
  /\ verdict \in [Commands -> RemoteVerdicts]
  /\ answer \in [Commands -> RemoteVerdicts]

MemoryTypeOK ==
  /\ mem \in [Messages -> {"none", "pending", "kept", "stale"}]
  /\ holder \in [Messages -> Principals \union {None}]
  /\ heldBy \in [Principals -> 0..PerPrincipal] /\ total \in 0..Total
  /\ expired \subseteq Messages
  /\ lapsed \subseteq Long

WayTypeOK ==
  /\ streams \subseteq Regs /\ waiting \in [Messages -> Regs \union {None}]
  /\ current \in Regs
  /\ frames \subseteq Regs \X Commands
  /\ inbox \subseteq Commands /\ Cardinality(inbox) <= MaxQueued
  /\ busy \in Commands \union {None}
  /\ replies \subseteq Commands \X Replies
  /\ runs \in [Messages -> Nat]

RemoteTypeOK == TypeOK /\ CallTypeOK /\ MemoryTypeOK /\ WayTypeOK

RemoteInit ==
  /\ Init
  /\ load \in Loads
  /\ call = [c \in Commands |-> "none"]
  /\ verdict = [c \in Commands |-> "none"]
  /\ answer = [c \in Commands |-> "none"]
  /\ mem = [m \in Messages |-> "none"]
  /\ holder = [m \in Messages |-> None]
  /\ heldBy = [p \in Principals |-> 0]
  /\ total = 0
  /\ expired = {} /\ lapsed = {}
  /\ streams = {1}
  /\ waiting = [m \in Messages |-> None]
  /\ current = 1
  /\ frames = {} /\ inbox = {} /\ busy = None /\ replies = {}
  /\ runs = [m \in Messages |-> 0]

-----------------------------------------------------------------------------
(* The edge's memory: #remember, #forget, #unremember.                     *)

\* #unremember for the entries of the messages in S.
Forgetting(S) ==
  /\ mem' = [m \in Messages |-> IF m \in S THEN "none" ELSE mem[m]]
  /\ holder' = [m \in Messages |-> IF m \in S THEN None ELSE holder[m]]
  /\ heldBy' = [p \in Principals |->
                  heldBy[p] - Cardinality({m \in S : holder[m] = p})]
  /\ total' = total - Cardinality(S)
  /\ UNCHANGED lapsed

\* The sweep: only where a bound is reached.
Full(p) == heldBy[p] >= PerPrincipal
Swept(p) == IF Full(p) \/ total >= Total
            THEN {m \in Messages : mem[m] = "stale"} ELSE {}

\* The counts after the sweep, and whether p has room then.
HeldAfter(p, q) == heldBy[q] - Cardinality({m \in Swept(p) : holder[m] = q})
TotalAfter(p)   == total - Cardinality(Swept(p))
Room(p)         == HeldAfter(p, p) < PerPrincipal /\ TotalAfter(p) < Total

\* The new entry takes the place of one for the same message that was not
\* swept; the counts only go up.
Remember(m, p) ==
  /\ mem' = [n \in Messages |-> IF n = m THEN "pending"
                                ELSE IF n \in Swept(p) THEN "none" ELSE mem[n]]
  /\ holder' = [n \in Messages |-> IF n = m THEN p
                                   ELSE IF n \in Swept(p) THEN None ELSE holder[n]]
  /\ heldBy' = [q \in Principals |-> HeldAfter(p, q) + (IF q = p THEN 1 ELSE 0)]
  /\ total' = TotalAfter(p) + 1
  /\ UNCHANGED lapsed

\* A settled entry is kept for as long as the command's time runs.
Keep(m) ==
  /\ mem' = [mem EXCEPT ![m] = IF m \in expired THEN "stale" ELSE "kept"]
  /\ UNCHANGED <<holder, heldBy, total, lapsed>>

\* Mutant: what the bus refused stays remembered, but is no longer counted.
SettleUncounted(m, res) ==
  IF res \in Rejected \ {"refused"}
  THEN /\ mem' = [mem EXCEPT ![m] = "kept"]
       /\ heldBy' = [heldBy EXCEPT ![holder[m]] = @ - 1]
       /\ total' = total - 1
       /\ UNCHANGED <<holder, lapsed>>
  ELSE Keep(m)

\* What #remember returned: a refusal of the bus's own forgets the command.
MemorySettles(m, res) ==
  IF res \in Rejected \ {"refused"} THEN Forgetting({m}) ELSE Keep(m)

\* Time: an entry lapses at the message's expiry, and a Long one also before.
Expire(m) ==
  /\ m \notin expired
  /\ expired' = expired \union {m}
  /\ mem' = [mem EXCEPT ![m] = IF @ = "kept" THEN "stale" ELSE @]
  /\ UNCHANGED <<vars, requester, holder, heldBy, total, lapsed, streams, waiting,
                 responder>>

LapseEarly(m) ==
  /\ m \in Long /\ mem[m] = "kept"
  /\ mem' = [mem EXCEPT ![m] = "stale"]
  /\ lapsed' = lapsed \union {m}
  /\ UNCHANGED <<vars, requester, holder, heldBy, total, expired, streams, waiting,
                 responder>>

-----------------------------------------------------------------------------
(* The requester's call and its answer.                                    *)

Call(c) ==
  /\ call[c] = "none"
  /\ call' = [call EXCEPT ![c] = "sent"]
  /\ UNCHANGED <<vars, load, verdict, answer, memory, expired, streams, waiting,
                 responder>>

\* The client resolved the request itself and drops the call.
GaveUp(c) == answer[c] = "uncertain" /\ verdict[c] = "none"

\* Mutant: a repeat is refused only while the bus still has the command.
KnownWhilePending(m) == mem[m] = "pending"

\* #remember refuses these as duplicate-conflict.
Remembered(m) == mem[m] \in {"pending", "kept"}

\* #inbound and #remember refuse the call: the edge's answer is a refusal.
RefuseCall(c) ==
  LET m == MessageOf(c) IN
  /\ call[c] = "sent"
  /\ m \in expired \/ Remembered(m) \/ ~Room(PrincipalOf(c))
  /\ call' = [call EXCEPT ![c] = "ended"]
  /\ verdict' = [verdict EXCEPT ![c] = "rejected"]
  /\ IF m \in expired \/ Remembered(m)
     THEN UNCHANGED memory ELSE Forgetting(Swept(PrincipalOf(c)))
  /\ UNCHANGED <<vars, load, answer, expired, streams, waiting, responder>>

\* The edge hands the command to its bus, with the signal of the call.
DispatchCall(c) ==
  LET m == MessageOf(c) IN
  /\ call[c] = "sent"
  /\ m \notin expired /\ ~Remembered(m) /\ Room(PrincipalOf(c))
  /\ Remember(m, PrincipalOf(c))
  /\ Request(c, None)
  /\ result'[c] = "cancelled" => GaveUp(c)
  /\ call' = [call EXCEPT ![c] = "dispatched"]
  /\ UNCHANGED <<load, verdict, answer, expired, streams, waiting, responder>>

\* The bus settled: the memory learns it and the edge answers.
EdgeAnswers(c) ==
  /\ call[c] = "dispatched" /\ result[c] # "pending"
  /\ call' = [call EXCEPT ![c] = "ended"]
  /\ verdict' = [verdict EXCEPT ![c] =
                   IF result[c] \in Rejected THEN "rejected" ELSE result[c]]
  /\ MemorySettles(MessageOf(c), result[c])
  /\ UNCHANGED <<vars, load, answer, expired, streams, waiting, responder>>

\* The edge's answer reaches the requester.
HearAnswer(c) ==
  /\ verdict[c] # "none" /\ answer[c] = "none"
  /\ answer' = [answer EXCEPT ![c] = verdict[c]]
  /\ UNCHANGED <<vars, load, call, verdict, memory, expired, streams, waiting, responder>>

\* Nothing is heard: the network failed, the edge was silent past the grace, or
\* the requester closed.  The command's fate is unknown.
GiveUp(c) ==
  /\ call[c] # "none" /\ answer[c] = "none"
  /\ answer' = [answer EXCEPT ![c] = "uncertain"]
  /\ UNCHANGED <<vars, load, call, verdict, memory, expired, streams, waiting, responder>>

\* A call the client dropped may never arrive, or be seen to be dropped.
CallLost(c) ==
  /\ call[c] = "sent" /\ GaveUp(c)
  /\ call' = [call EXCEPT ![c] = "ended"]
  /\ UNCHANGED <<vars, load, verdict, answer, memory, expired, streams, waiting,
                 responder>>

CallDropped(c) == GaveUp(c) /\ Abort(c) /\ UNCHANGED remote

-----------------------------------------------------------------------------
(* The edge's forward to the responder's stream, and the answers to it.    *)

\* #forward: a second live forward of one message is not sent.
Forward(r, c) ==
  LET m == MessageOf(c) IN
  /\ m \notin expired
  /\ Start(r, c)
  /\ IF waiting[m] = None /\ r \in streams
     THEN /\ waiting' = [waiting EXCEPT ![m] = r]
          /\ frames' = frames \union {<<r, c>>}
     ELSE UNCHANGED <<waiting, frames>>
  /\ UNCHANGED <<requester, memory, expired, streams, current, inbox, busy,
                 replies, runs>>

\* The edge's bus waits as long as the command's time runs.
TimesOut(c) ==
  /\ MessageOf(c) \in expired
  /\ Deadline(c)
  /\ UNCHANGED remote

\* The bus answers a command that expired in its queue.
Expired(r, c) ==
  /\ MessageOf(c) \in expired
  /\ Skip(r, c)
  /\ UNCHANGED remote

\* A frame that was not written is `undelivered'.
NeverWritten(r) ==
  /\ running[r] # None /\ waiting[MessageOf(running[r])] # r
  /\ Answer(r, "unavailable")
  /\ UNCHANGED remote

\* finish(): the forward ends and the bus's handler with it.
Finish(m, res) ==
  /\ Answer(waiting[m], res)
  /\ waiting' = [waiting EXCEPT ![m] = None]

\* The forward outlasts the expiry: unanswered, whatever the handler does.
ForwardLate(m) ==
  /\ waiting[m] # None /\ m \in expired
  /\ Finish(m, "uncertain")
  /\ UNCHANGED <<requester, memory, expired, streams, responder>>

\* The reply call arrives, on an open connection; one nobody waits for is received and ignored.
ReplyArrives(c, res) ==
  LET m == MessageOf(c) IN
  /\ <<c, res>> \in replies /\ streams # {}
  /\ replies' = replies \ {<<c, res>>}
  /\ IF waiting[m] # None THEN Finish(m, res) ELSE UNCHANGED <<vars, waiting>>
  /\ UNCHANGED <<requester, memory, expired, streams, current, frames, inbox, busy,
                 runs>>

\* Mutant: a lost stream answers what it had forwarded as unavailable.
DropAnswers(k) ==
  /\ k \in streams
  /\ streams' = streams \ {k}
  /\ IF running[k] # None
     THEN Finish(MessageOf(running[k]), "unavailable")
     ELSE UNCHANGED <<vars, waiting>>
  /\ UNCHANGED <<requester, memory, expired, responder>>

\* #drop: the responder closes; what was forwarded waits on.
Drop(k) ==
  /\ k \in streams
  /\ streams' = streams \ {k}
  /\ IF reg[k] = "open" THEN Unrespond(k) ELSE UNCHANGED vars
  /\ UNCHANGED <<requester, memory, expired, waiting, responder>>

-----------------------------------------------------------------------------
(* The responder's client: #lost and #reconnect, #answer, #reply.          *)

\* The respond call.  While the edge still holds an older stream of this part,
\* the bus refuses it and the client only reports that.
Registers(k) ==
  /\ k = current /\ k \in streams
  /\ Respond(k)
  /\ UNCHANGED remote

\* The stream is lost here, with what it carried, and the next one opens.  The
\* edge may find out about the old one later.
Reconnect ==
  /\ current + 1 \in Regs
  /\ current' = current + 1
  /\ streams' = streams \union {current'}
  /\ frames' = {}
  /\ UNCHANGED <<vars, requester, memory, expired, waiting, inbox, busy, replies,
                 runs>>

\* Mutant: the responder's queue takes every command.
ReadFrameAlways(c) ==
  /\ <<current, c>> \in frames
  /\ frames' = frames \ {<<current, c>>}
  /\ inbox' = inbox \union {c}
  /\ UNCHANGED <<vars, requester, memory, expired, streams, waiting, current, busy,
                 replies, runs>>

\* A command frame; a full queue drops it without a word.
ReadFrame(c) ==
  /\ <<current, c>> \in frames
  /\ frames' = frames \ {<<current, c>>}
  /\ inbox' = IF Cardinality(inbox) < MaxQueued THEN inbox \union {c} ELSE inbox
  /\ UNCHANGED <<vars, requester, memory, expired, streams, waiting, current, busy,
                 replies, runs>>

\* Its turn in the queue: past its expiry it is ignored and never answered.
Ignore(c) ==
  /\ busy = None /\ c \in inbox /\ MessageOf(c) \in expired
  /\ inbox' = inbox \ {c}
  /\ UNCHANGED <<vars, requester, memory, expired, streams, waiting, current,
                 frames, busy, replies, runs>>

\* The handler starts.  Its clock is not the edge's: the edge may think the
\* command expired.
RunHandler(c) ==
  /\ busy = None /\ c \in inbox
  /\ inbox' = inbox \ {c}
  /\ busy' = c
  /\ runs' = [runs EXCEPT ![MessageOf(c)] = @ + 1]
  /\ UNCHANGED <<vars, requester, memory, expired, streams, waiting, current,
                 frames, replies>>

\* External: the handler has an effect, also long after the edge gave up.
HandlerActs ==
  /\ busy # None
  /\ acted' = acted \union {busy}
  /\ UNCHANGED <<member, reg, queue, ahead, running, awaits, closer, result, starts,
                 remote>>

\* A throw is `uncertain'; only a handler that did nothing refuses.
HandlerReplies(res) ==
  /\ busy # None
  /\ res = "refused" => busy \notin acted
  /\ replies' = replies \union {<<busy, res>>}
  /\ busy' = None
  /\ UNCHANGED <<vars, requester, memory, expired, streams, waiting, current,
                 frames, inbox, runs>>

-----------------------------------------------------------------------------
RemoteNext ==
  \/ \E c \in Commands :
       \/ Call(c) \/ RefuseCall(c) \/ DispatchCall(c) \/ EdgeAnswers(c)
       \/ HearAnswer(c) \/ GiveUp(c) \/ CallLost(c) \/ CallDropped(c)
       \/ ReadFrame(c) \/ Ignore(c) \/ RunHandler(c)
       \/ TimesOut(c)
       \/ \E r \in Regs : Forward(r, c) \/ Expired(r, c)
       \/ \E res \in Replies : ReplyArrives(c, res)
  \/ \E m \in Messages : Expire(m) \/ LapseEarly(m) \/ ForwardLate(m)
  \/ \E k \in Regs : Registers(k) \/ Drop(k) \/ NeverWritten(k)
  \/ Reconnect \/ HandlerActs
  \/ \E res \in Replies : HandlerReplies(res)

RemoteSpec == RemoteInit /\ [][RemoteNext]_all

-----------------------------------------------------------------------------
(* Properties.                                                             *)

\* A message reaches the remote handler once, however often it is sent, by
\* whichever principal, over however many streams, unless the edge forgot it
\* before its time was over, as it may with a Long one.
RunsOnce == \A m \in Messages : m \notin lapsed => runs[m] <= 1

Entries(p) == {m \in Messages : mem[m] # "none" /\ holder[m] = p}

\* No entry escapes its principal's or its source's quota, whatever is swept,
\* forgotten, or sent again: the memory is bounded.
EntriesAreCounted ==
  /\ \A p \in Principals : Cardinality(Entries(p)) <= heldBy[p]
  /\ Cardinality({m \in Messages : mem[m] # "none"}) <= total

\* The counts are those of the entries, so no quota is lost.  #unremember says
\* it keeps every count right; RemoteCommandsCounts.cfg shows it does not.
CountsMatch ==
  /\ \A p \in Principals : heldBy[p] = Cardinality(Entries(p))
  /\ total = Cardinality({m \in Messages : mem[m] # "none"})
=============================================================================

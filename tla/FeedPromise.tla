---------------------------- MODULE FeedPromise ----------------------------
(***************************************************************************)
(* What a subscription promises (ADR 0012, "Delivery": a slow consumer     *)
(* lags only itself and hears of every gap; Overflow in                    *)
(* packages/sdk/src/sdk.ts): messages are heard at most once and in the    *)
(* order they were published, and a message is heard only after the        *)
(* handler was told of a gap for every earlier one that was lost.  Nothing *)
(* here says that there is an edge, a stream or a queue; RemoteFeed        *)
(* implements this module.                                                 *)
(***************************************************************************)
EXTENDS Naturals

CONSTANT Subs

VARIABLE feed    \* [Subs]: how far each subscription's delivery is

\* `flying' are the messages on their way, `untold' the ones lost since the
\* handler was last told of a gap.
Idle == [part |-> "out", sent |-> 0, flying |-> {}, untold |-> {}]

-----------------------------------------------------------------------------
(* The steps one subscription may take.                                    *)

\* subscribe() is called, resolves, and the subscription closes or fails.
Join(f, g)   == f.part = "out" /\ g = [f EXCEPT !.part = "joining"]
Joined(f, g) == f.part = "joining" /\ g = [f EXCEPT !.part = "in"]
Leave(f, g)  == /\ f.part \in {"joining", "in"}
                /\ g = [part |-> "left", sent |-> f.sent, flying |-> {}, untold |-> {}]

\* A message is published: it is on its way, or lost at once.  Until
\* subscribe() resolves, and once it closed, it may also be missed.
Publish(f, g) ==
  LET n == f.sent + 1
      h == [f EXCEPT !.sent = n]
  IN \/ f.part \in {"joining", "in"} /\ g = [h EXCEPT !.flying = @ \union {n}]
     \/ f.part \in {"joining", "in"} /\ g = [h EXCEPT !.untold = @ \union {n}]
     \/ f.part # "in" /\ g = h

\* Some of what is on its way is lost.
Lose(f, g) ==
  \E gone \in SUBSET f.flying :
    g = [part |-> f.part, sent |-> f.sent,
         flying |-> f.flying \ gone, untold |-> f.untold \union gone]

\* The handler is told that messages were lost.
Tell(f, g) == f.part \in {"joining", "in"} /\ g = [f EXCEPT !.untold = {}]

\* The handler gets the next message.
Hear(f, g) ==
  \E n \in f.flying :
    /\ \A m \in f.flying \union f.untold : m >= n
    /\ g = [f EXCEPT !.flying = @ \ {n}]

FeedStep(f, g) ==
  Join(f, g) \/ Joined(f, g) \/ Leave(f, g) \/ Publish(f, g) \/ Lose(f, g)
  \/ Tell(f, g) \/ Hear(f, g)

-----------------------------------------------------------------------------
Init == feed = [s \in Subs |-> Idle]

\* A lost stream, or a closing participant, takes a step of many at once.
Next ==
  /\ feed' = [s \in Subs |-> feed'[s]]
  /\ \A s \in Subs : feed'[s] = feed[s] \/ FeedStep(feed[s], feed'[s])

Spec == Init /\ [][Next]_feed
=============================================================================

# Verification of the agent device hub

TLA+ specifications of the hub's runtime, kept beside its code. Paths below are relative to the
repository (`src/` in PROJECT.json). Each module says in its header which files it models, and
PROJECT.json maps every definition to the lines it stands for.

## The system

The hub runs on one Node.js event loop per process. A *core* keeps durable state, *modules* drive devices
and services, and everything speaks over one message bus, the SDK. Parts on other machines join that bus
through a remote edge. The subsystems below carry the guarantees everything else relies on; the modules cover
the bus, local and remote, the sync, the outbox, the tracker, and the store with its owner and its lock.

| Part | Code | State | Operations | Talks to |
| --- | --- | --- | --- | --- |
| In-process bus | `packages/sdk/src/in-process.ts`, `queue.ts` | participants, responders, one bounded queue each, pending requests | connect, publish, subscribe, request, respond, close | every part |
| Sync | `sync.ts`, `in-process-sync.ts` | a consumer's copy, its buffer, its outstanding request | sync, serveSync, close | bus subscriptions, owners' snapshots |
| Outbox | `outbox.ts`, `acknowledgment.ts` | a table in the module's database, one batch under way | transaction, republish, acknowledge | a module's database, the bus, the core's acknowledgments |
| Core tracker | `apps/runtime/src/core/tracker.ts`, `operations.ts` | stored operations, admissions, the intake's waiting messages, one timer | dispatch, intake, sweep, stop, resume | core store, bus, the core's parts |
| Remote transport | `remote-client.ts`, `remote-edge.ts` | a stream per part, registrations, forwards under way, a memory of commands | connect, reconnect, forward, publish | bus on one side, HTTP on the other |
| Core store, history | `core/store.ts`, `history.ts` | one SQLite database and its mirror in memory, one lease | acquire, transaction, republish, save | tracker, parts, outbox, agent state |
| Core lock | `core/lock.ts`, `runtime-ownership.ts`, `lease.ts` | a process's registry of names and files, a lock file | take, release, bind, admit | the core, the runtime, offline tools |
| Core parts | `core/*.ts` (modes, automations, schedules, art, music) | tables in the core store | timers, commands, derivers | tracker, store |
| Agent state | `packages/agent-state` | sessions, journal, retirements | ingest, retire, expire | core store |
| Runtime host | `apps/runtime/src/*.ts` | modules' lifecycles, worker threads, credentials, leases | start, stop, restart, upgrade | everything |
| Modules | `modules/*` | a database and a device each | handlers | bus, outbox, devices |

The rest of the repository (the earlier hub and controllers, the dashboard, edge apps, firmware, contracts
and tools) is listed in PROJECT.json with the reason it is not modelled.

### How the parts interact

A caller asks the tracker for an action under a request ID. The tracker commits an operation, then sends
one command over the bus (a call that ends in a `RequestResult`). The responder, a module or the core
itself, answers it and later reports an *outcome*. The module commits the outcome in its outbox together
with its own state; the outbox publishes it; the core's intake, a subscription, takes it into history and
into the operation in one commit, and an acknowledgment in the same commit lets the module forget it.
Separately, consumers keep *copies* of an owner's entities: subscriptions, one snapshot, then live messages.
A remote part does all this over an edge, which is a participant of the bus in its place: its subscriptions are
subscriptions of the edge that write to an event stream, its responders are responders of the edge that forward
down that stream, and its requests are HTTP calls that the edge turns into requests of its own. A hook's lifecycle
observation goes through the core's intake to the agent-state owner, which commits it through a lease of the core's
store; the store's file belongs to the process that holds the lock.

### What is hard

* Every await is a point where another turn of the event loop runs: a deadline against the start of a
  handler, a reply against a close, an acknowledgment against a batch's bookkeeping, an overflow against
  an answer on its way.
* Either process may stop between any two steps; the databases survive, the bus and its queues do not.
* Queues are bounded, and a full one drops messages or refuses commands.
* Messages are sent again on purpose, so everything is seen twice or out of order sooner or later.
* Commits can be refused while the program goes on, and a failed one may leave a transaction open or the database
  closed.
* A stream may be lost at either end without the other's knowing, and the loops that restore it overlap.
* A POSIX lock belongs to a process, not to a descriptor: closing any descriptor of the file drops it.

PROJECT.json lists these hazards at the lines where they bite, with the properties that cover them.

## The modules

| Module | What it models | Runs |
| --- | --- | --- |
| `CommandPromise` | abstract: what the SDK promises about one request | refined in `bus` and `remote_commands`, used by `Tracker` |
| `CommandBus` | requests and responders on the in-process bus | `bus` |
| `OutcomeDelivery` | a module's outbox, the core's intake, acknowledgments | `outcomes` |
| `OutcomeRuns` | the same with a history of what one run sent | `outcome_runs` |
| `Operations` | `advance`, the state machine of one tracked action, as functions | through `Tracker` |
| `Tracker` | callers, the tracker, the bus's promise, outcomes, deadlines, restarts | `tracker`, `tracker_ends` |
| `SyncCopy` | a copy, its subscriptions, its owner and the owner's snapshots | `sync`, `sync_live` |
| `FeedPromise` | abstract: what a subscription promises about losses and order | refined in `remote_feed` |
| `RemoteFeed` | subscriptions of a remote part: edge, stream, client, reconnects | `remote_feed` |
| `RemoteCommands` | `CommandBus` composed with a remote requester, the edge's memory, forwards and a remote responder | `remote_commands`, `memory_counts` |
| `AgentStore` | the core's intake of observations, the agent-state owner, the store's commits | `agent_store` |
| `StoreLock` | the lease on the store's file, within a process and between two | `store_lock` |
| `CommandBusProofs`, `TrackerProofs`, `SyncCopyProofs`, `OutcomeDeliveryProofs`, `AgentStoreProofs`, `StoreLockProofs`, `RemoteCommandsProofs`, `RemoteFeedProofs` | theorems | |
| `MC...` | small instances for TLC | |

Operators whose comment starts with *Mutant* are not part of a specification: each is the neighbouring
definition with a plausible bug, and PROJECT.json names the property that bug violates, which shows that
the property can fail.

### CommandBus

One action is one turn of the event loop that runs bus code. `Request` is `#request`/`requestMessage` with
all of `#dispatch`: no responder, an aborted signal, a full queue, or a place in the queue (`queue`, with
`ahead` for the order). `Deadline` and `Abort` are `end()`: `TakeOut` says whether the command still waited,
which decides between a refusal and `uncertain`. `Start`, `Skip` and `Answer` are `#drain` calling the
responder: `Skip` is the expiry check before the handler. `Act` and `Answers` stand for module code, which
is external; a handler's refusal is its own claim that nothing happened, so only an idle handler makes
one. `awaits` is what a handler waits for, a request or its participant's close, and such a handler is not
`Active`. `Close` is the first call of `close()`: it does in one turn what `#close` does before its first await, and
`closer` is the handler in whose asynchronous flow it ran, the only one its queue excuses (`queue.ts:73`). `AwaitClose`
is a running handler that awaits the close: its own, one that somebody else began and it called again (the same
promise, `in-process.ts:216`), or one it called outside its flow. `CloseDone` is the `Promise.all` over
`DeliveryQueue.close`, which does not wait for the excused handler nor for the handler of a responder closed
on its own before. A handler that is not excused and awaits its participant's close waits for a close that waits for it
(`AwaitsItself`). `packages/sdk/README.md:107` describes deadlocks of this kind, so this is no finding; `CloseCompletes`
says that nothing else keeps a close from ending, and without its exception TLC finds this deadlock. Only the queue looks at a command's `expiresat`, when
it takes the command, so `Start` and `Skip` are a choice and the clock is not modelled.

`CommandPromise` is what ADR 0012 and the comment on `RequestResult` promise. `KeepsPromise` is the
refinement: `lifeBar` computes a command's stage, verdict and effect from the bus's state.

### OutcomeDelivery

Rows are numbered in the order the module committed them. `Commit` is `transaction`; `BeginSend` and
`BeginReplay` start a batch with the rows its query selects at that moment (`WHERE published = 0`, or all);
`Publish`, `Refused` and `Settle` are the loop and the bookkeeping of `#send`; `Hear` and `Forget` are
`#heard` and `#forgetHeard`. The core's side is `Group` (`#group`, `#verdict` and `#outcome` in one commit),
`GroupRefused`, and its own outbox, which is the same code and is abstracted to a set of stored
acknowledgments sent in any order. `ModuleCrash`, `CoreCrash`, refusals and losses cost one unit of
`MaxTrouble`; `clean` says that nothing was lost since the module's last start.

### Operations and Tracker

`Operations` translates `advance` function by function. `Tracker` splits `#dispatch` at its awaits:
`Record` (the commit before sending), `Decline`, `Again` (the request ID is in use), `Send`, and `Reply`
(the admission's cleanup, the reply's own commit, the answer). The bus is `CommandPromise`, instantiated on
request IDs, so the tracker is checked and proved against what `CommandBus` was shown to implement. A
request in `CoreOwned` goes to a responder of the core itself: `Begin` binds the admission
(`admitOperator`), `CoreComplete` is `completeCore` inside the core's save, `End` is `endOperator`.
`TakeOutcome` is `#outcome` for a message history does not hold; outcomes of strangers and of other
sources occur. `Sweep` is the one transaction over every operation past its deadline. `Stop`, `Halt`,
`Crash` and `Start` are the core's stop, the end of its process and its restart.

### SyncCopy

The owner's n-th change has revision n. `Publish` delivers to a family's bounded queue or drops; `Shift` is
the queue's next delivery, which reports a drop first; `Arrive` is `#arrive`. `Send`, `Serve`, `Answered`,
`CompleteServed`, `CompleteStale` and `CompleteRefused` are a sync's request, the owner's snapshot, the answer and `#complete`.
`telling` is the list of changes the worker still has to tell the handler, one await each (`Notify`), during
which everything else goes on. The states of a snapshot, one for each entity the owner holds, concern different
entities, so `TakeSnapshot` takes them all at once and leaves to `SetToSeq` the order in which the handler hears of
them, which is the provider's own; buffered messages are taken one after the other (`TakeAll`). `SendAgain` lets the owner's outbox repeat what it had not settled.

### RemoteFeed

A message passes three queues: the edge's (`Publish`, `Write`: the in-process subscription whose handler writes a
frame and waits while the socket is full), the stream itself (`wire`, `Receive`) and the client's (`queue`, `Take`,
`Deliver`). Each drops when full and owes a notice. `Lost` is `#lost`, from whatever cause, with everything on the
stream; `Drop` is the edge's own end of the stream, found out later. `Open`, `Register` and `Finish` are one run of
`#reconnect` split at its awaits; `loop` counts these runs, because a stream lost meanwhile leaves the older run
under way, and `ready[s]` is the loop whose promise a gap waits for. `hand` and `awaits` are the delivery under way
and the promise it has read: the code reads `local.ready` again for each await. `subscribe()` and `close()` of a
subscription are split at their calls, and every call may fail. `FeedPromise` knows nothing of all this: messages
are published, flying, lost or heard, and a message is heard only if no earlier loss is untold.

One subscription is enough for a run, because subscriptions share only the stream and its loops, and losing the
stream while another subscription registers is the same step as losing it while this one waits to be registered. The
safety properties are proved for any number of them (`RemoteFeedProofs`).

### RemoteCommands

The module extends `CommandBus`: the edge is its requester (`RequesterOf[c] = Edge`) and, as the remote
responder's stand-in, its responder; a registration of the bus is the responder on one connection. `Call` to
`CallDropped` are the requester's side, `RefuseCall` and `DispatchCall` the edge's `request` call with `#inbound`,
`#remember` and the dispatch, `EdgeAnswers` the return of the bus's result through `#remember`'s closure. `Forward`
is the bus's start of the edge's responder, `ReplyArrives`, `ForwardLate` and `NeverWritten` the three ways it ends.
The client of the responder reads frames, drops what its queue cannot hold, ignores what expired and runs its
handler, whose effect is `acted` of `CommandBus`: so `KeepsPromise` is literally the property of the in-process bus,
now about an effect made on another machine. Clocks are not the same: a command may be expired for one side only.
The reply call is one step at the edge and may never arrive; a message's memory lapses at its expiry, or before it
when the deadline is further away than `rememberMs` (`Long`).

### AgentStore

Three copies of one state (the file, the store's, the owner's) and the intake's serialized turn, `pc`, through
`#observe`, `#call`, `ingest` and `#commit`. `Commit` is one transaction with the code's ways to end: committed
(`ok`), rolled back (`throws`), a rollback that failed (`stuck`; the store's second one is assumed to succeed, as
line 625 of `store.ts` leaves it to the next transaction), and a database closed under the store (`closed`).
`Reported` is what the code then concludes. A commit that failed faults the owner (`Then`), the core drops it and
opens another (`Drop`, `Acquire`, `Load`, `Settle`), or refuses until a backoff has passed (`Refuse`).
Time is two days: with the second, first-day evidence expires and first-day observations are too old. An activity is
`active` for every state that may still be running or holds attention, and `idle` for the finished ones; that is
what displacement tells apart. A first start on a full disk leaves a core that is up with a store that never opened. The next
observation, new or repeated, then opens the owner or is refused before `received` can be asked (`pc = "opening"`, `Deliver`);
once the store is open it is looked up and called, or found taken (`GoesOn`). `WantOwner` is the same attempt for a sync of such a
store or a request for the owner, which take nothing up. Of an open store, a repeated observation that `received`
knows changes nothing and has no action, and neither has one that a store closed under its owner cannot look up. The order of turns, the archive probe, read receipts, metadata, journals and the
limits on retirements are left out.

### StoreLock

One action is what `acquire` does between two awaits. The lock file's inode matters, not only its name: `held` and
`heldFiles` are the process's two registries, `kernel` the POSIX locks, and `CloseProbe` drops the lock that the
process may have on the file it probed. `Free` is SQLite: it knows the transactions of its own process and the
kernel's locks of the others. `Abort` is the deadline of a waiting core; tools and ownerships never wait. An ownership
goes through the phases of `runtime-ownership.ts`, and revalidates the file (`Intact`). A rename of the lock file
while an attempt is between its `lstat` and its lock is excluded (`Rename`): the code does not defend against it, and
says that it guards a *held* inode renamed to another name.

## The runs

| Run | Configuration | Bounds | States | What it shows |
| --- | --- | --- | --- | --- |
| `bus` | `CommandBus.cfg` | 2 participants, a responder each, 3 commands (an edge's, a participant's, one made inside a handler), queues of 1; one participant's handlers may hang | about 408,000 | `CommandPromise`, no stranded request, close() ends unless a handler it waits for awaits it |
| `outcomes` | `OutcomeDelivery.cfg` | 3 rows (2 outcomes, 1 occurrence), intake of 2, 2 troubles | about 428,000 | nothing lost, nothing twice, order, one clean start is enough |
| `outcome_runs` | `OutcomeRuns.cfg` | 1 row, no trouble | violation | the first finding below |
| `tracker` | `Tracker.cfg` | 1 request ID, 3 callers (2 repeat one action, 1 reuses the ID), 4 possible outcomes, 2 troubles | about 240,000 | sent once, results that harden and agree with the outcomes |
| `tracker_ends` | `TrackerEnds.cfg` | a module's and a core-owned request, 1 outcome, 1 trouble | about 68,000 | pending operations and callers end |
| `sync` | `SyncCopy.cfg` | 2 entities in 2 families, 3 changes, queues and buffer of 1, 1 repetition | about 1,400,000 | nothing missed, never back, the handler hears all |
| `sync_live` | `SyncCopyLive.cfg` | the same with 2 changes | about 42,000 | convergence |
| `remote_feed` | `RemoteFeed.cfg` | 1 subscription, 4 messages, 4 streams, queues of 1, a socket of 1 | about 286,000 | `FeedPromise`, gaps outlast registrations, losses are told |
| `remote_commands` | `RemoteCommands.cfg` | 2 calls of 1 or 2 messages under 1 or 2 credentials, 2 streams, quotas of 1 and 2 | about 1,940,000 | `CommandPromise`, one run of each message, a bounded memory |
| `memory_counts` | `RemoteCommandsCounts.cfg` | the same | violation | the second finding below |
| `agent_store` | `AgentStore.cfg` | a root, its child and grandchild and a second root for 3 places; 5 deliveries of 5 observations, 2 failures, 1 crash, 1 other commit | about 525,000 | one state, applied once, room only from finished work, rising revisions, the intake ends |
| `store_lock` | `StoreLock.cfg` | a runtime, its core and a tool in one process, the tool by another name, a core in a second process; 2 files, 2 renames | about 103,000 | a lease excludes, attempts end |

The bounds are small but every hazard occurs in them: a queue of one is full as soon as anything waits and
makes each drop, gap and refusal; three commands give two for one responder and one made by a handler;
two troubles allow a crash after a crash, or a lost acknowledgment after a refused commit; three changes
allow state, removal and state of one entity, or changes in both families around a snapshot; four streams let a
third be lost while the loops of the first two still register; two calls and a quota of one make a repeat, a sweep,
a refusal and a replaced entry; one place fewer than there are sessions makes a displacement with a failure inside
it. The invariants of every run are also proved, so the instance only has to show the rest.
`MaxTrouble`, `MaxRevision`, `MaxAgain`, `MaxSent`, `MaxLoops`, `MaxDeliveries`, `MaxFailures`, `MaxCrashes`,
`MaxOthers` and `MaxRenames` exist only for TLC; `MaxQueued`, `MaxBuffered`, `MaxFrames`, `Capacity`, `PerPrincipal`
and `Total` are the code's own limits.
Deadlock is not checked: in these bounds the system may come to rest with everything done.

### Fairness

Fairness is only on steps the event loop or a timer is sure to run.

* `bus`: `CloseDone`, and an end of each handler of a *prompt* participant when it waits for nothing. Other
  participants' handlers may hang for ever and no timer has to fire.
* `outcomes`: sends, deliveries, groups, acknowledgments, bookkeeping and the core's restart. Nothing
  makes the module start again, and losses are not excluded: the property speaks of a run after whose last start
  nothing is lost.
* `tracker_ends`: the deadline timers, the sweep, and calls that go on. No fairness on handlers, outcomes or restarts.
  That a stop waits for its dispatches is the guard of `Halt` (`Promise.allSettled` over `#working`, `tracker.ts:257`), so `CallersAnswered`
  shows that the calls end, not that the stop waits.
* `sync_live`: deliveries, the worker (its handler returns), and requests that are answered or time out.
  Nothing makes the owner stop changing beyond `MaxRevision`.
* `remote_feed`: calls are answered or fail, streams open again (the backoff is capped and endless), an ended stream
  is found lost (its end, or `idleMs` of silence), the socket drains (or the edge ends the stream, `stallMs`) and
  handlers return. Registrations may fail for ever.
* `agent_store`: what a process that is up does next. Nothing makes it start, take an observation, or be spared a failure.
* `store_lock`: calls of the file system return, and a waiting core's deadline passes. Holders may keep their leases.

### What the code does not keep

`packages/sdk/src/outbox.ts:120` says that sends run one at a time, "so a message never goes out twice in one run
or out of order". Order holds for first publications (`FirstSentInOrder`). The other half does not: an
outcome a transaction publishes before the start's `republish` is selected again by `republish`, because it
is stored until acknowledged. `outcome_runs` finds this without any failure. Intake deduplicates by `(source, id)`, so
`RecordedOnce` holds and the effect is one extra message.

`packages/sdk/src/remote-edge.ts:777` says that `#unremember` keeps every count right. `#remember` puts a new entry
over one whose time has passed when no quota was full and so nothing was swept, and counts it again; the old entry is
never uncounted. `memory_counts` finds it: a command whose deadline is further away than `rememberMs` is sent, lapses, and
is sent again. What stays true is that no entry escapes the quotas (`EntriesAreCounted`, in `remote_commands`): the memory
is bounded, and the edge refuses sooner than it has to, until it restarts.

## The proofs

TLAPS proves the following for every value of the constants that meets the named assumptions `BusAssumption`,
`OperationsAssumption`, `TrackerAssumption`, `OutcomeAssumption`, `SyncAssumption`, `StoreAssumption`, `StoredAssumption`
(a file left by an earlier run keeps within the capacity), `LockAssumption`, `RemoteAssumption` and `FeedAssumption`. TLC evaluates each of
them in the runs.

`CommandBusProofs`. `BusInv` is inductive: what waits in a queue is pending and was never started, the queue
is open (`QueuedIsFresh`); what a handler has was started once and is pending or uncertain
(`RunningIsUndecided`); a command is in one place (`InOnePlace`); without a start there is no effect and no
`accepted` or `uncertain` (`StartedOnce`). `RejectedHadNoEffect` alone is not inductive: that an answer finds its request
undecided or uncertain, never rejected, is `RunningIsUndecided`, and that needs `QueuedIsFresh` for the step that starts a
handler, which needs `InOnePlace` so that no other queue or handler holds the command. From `BusInv` follow the type
invariant, `RejectedHadNoEffect`, `UncertainWasStarted`, `PendingIsHeld`, `RejectedNeverStarts`, `SettledOnce`
and the refinement `KeepsPromise`, whose proof maps each action to one abstract step of each command's life.
`RejectedHadNoEffect`, `UncertainWasStarted` and `SettledOnce` are theorems only: `KeepsPromise` implies them, so no run
checks them again.

`TrackerProofs`. `TrackerInv` adds to the types that an operation has no result exactly while pending, that
what was not sent has no life on the bus (`UnsentIsUntouched`), that one call works on a request ID
(`OneCallWorks`: this is what excludes a second send), that a running handler's command is undecided
(`HandledIsUndecided`) and that a refusal shown is one the bus gave (`RefusalIsTrue`). From it follow the
type invariant, `SentOnce`, `RefusedHadNoEffect` and `ResultHardens`. `AnswerInv`, in the module's second half, adds what
the tracker tells. `ResultFollowsOutcomes` is about stored operations alone, and is preserved by each function of
`Operations` for itself (the lemmas on `Advances`). `AnswersAgree` is not inductive: it follows from `AnswersAreTrue`, which
ties every definite answer and every stored acceptance to the bus's one verdict, and from `ActionsAreOwn`, which
says that a call that works or was answered asked for the stored operation's action. A verdict given stays
(`VerdictsStay`), so the truth of an answer given once stays too.

`SyncCopyProofs`. The heart is `Seen`: entity by entity, the copy holds the owner's state at the newest revision it has
taken in, and above the last sync's revision it remembers the removal that made it so (`IsStateSeen`). Without that memory
a state sent again after its removal would come back; below the sync's revision the floor guards against it, and the
two hand over to each other in `#complete`, which drops the memory up to the revision it sets the floor to. A snapshot must
not be older than what the copy has seen (`Fresh`), which holds because the copy asks only while it is not live
(`Rounds`) and takes nothing in until the answer. `NothingMissed` needs `Complete`: every change above what was seen is still
to come, or its family's loss is known; and the same must already hold of an answer's revision while it waits, as long as no
overflow made it stale. `ToldIsHeld` needs that at each moment the last change waiting to be told of an entity is what
the copy holds of it, and that an entity with none is told (`Tells`), through overflows and completions in the middle
of the telling. `NeverBack` follows from `Seen` before and after the step.
What a copy is after all of its buffered messages is a fact about a recursive function. It is proved with the least
number at which it would fail (`LeastNat`, from the well-foundedness of the naturals): that the function's stages exist
(`StagesExist`), and that each stage is good because the one before is (`NextStage`, `TakeAllGood`). The greatest element
of a bounded set of revisions (`MaxOfBounded`) is found the same way.

`OutcomeDeliveryProofs`. That no outcome is forgotten needs that each acknowledgment in existence, stored, on its way, heard
or waiting to be forgotten, is of a recorded row (`AcksAreTrue`). Order needs that a row before which another is still
missing is not in the batch (`BatchInOrder`): the batch is taken from a query over all rows stored at that moment
(`RowsStored`), and a refused publish ends it. `ArrivedWentOut` says that nothing arrives, is recorded or is marked
published that did not go out.

`AgentStoreProofs`. The heart is what a failed commit leaves. `Kept` holds in every state: an opened store's commit counter and
revision are the file's, whatever was reported; an observation applied is in the file's `taken` or too old to be
admitted. `Control` says what each point of the intake's turn may rely on: an owner that works is in step with store and
file (`Synced`), what a turn has in hand is not applied yet (`AtHand`), and between the two commits of a displacement
the file has room (`RoomMade`). `AppliedOnce` alone is not inductive because a pruned `taken` would let an observation
in again; `RevisionsRise` needs the counters' agreement because the parts raise the file's revision past the owner's.

`StoreLockProofs`. `LeaseExcludes` is not inductive: a process may lose a lease by closing a probe of the same file under
another name. `LockInv` says who may have registered what: an attempt past its registration holds its name
(`NameHeld`) and no other attempt of the process does (`NamesApart`); the inode an attempt found is the one at its
name (`Found`), so two attempts of a process with one inode would share the name (`NoAlias`); a
holder's inode is in the process's registry (`FileHeld`), which is what a probe looks at before it closes anything.

`RemoteCommandsProofs` reuses `BusInv`: each step of the composed system is a step of the bus (`StepOfBus`), except the remote
handler's effect. That this effect breaks nothing needs `Delivery`: a command the client has was started once and its
result is open or `uncertain` (`ClientIsUndecided`), for an unwritten frame is the only thing the edge calls `unavailable`
and a reply ends no forward but its own (`ForwardIsOwn`, where calls with one message are told apart; `OnePlace`). With
that, `KeepsPromise` follows step by step as for the bus. `RunsOnce` is not inductive: `Runs` adds that at most one call may
still run a message, that the edge remembers the message as long as it may or did run, and that what the edge
forgets after a refusal was never run (`Unrun`). `EntriesAreCounted` needs only that counts are taken back for entries
(`Quotas`), which holds although they are not always given back.

`RemoteFeedProofs` proves the three safety properties of `remote_feed` for any number of subscriptions, messages and streams
and for queues of any length. `GapOutlastsRegistration` is not inductive: a delivery under way may tell a gap of an
older reconnect, so `Outlasts` says that some gap is still queued, is next after the item in hand, or is in hand and
waits for just this loop (`GapWaits`). `KeepsFeedPromise` needs that the queues in hand, at the client, on the wire and at the
edge hold messages in the order they were published (`Ordered`), and that each queued message comes before all that is
untold or after a gap, in its queue or in one it has still to follow (`Warned`). A new message after a loss keeps that
only if the gap is already pending (`Noticed`): for a registration during a reconnect this is `Outlasts`, and for a
`subscribe()` of its own, that nothing was promised to it before (`Posted`, `Missed`). The lemmas on queues (`Appended`,
`Removed`, `MoreLost`) say what one item more or less leaves of order and cover.

Every invariant and every safety property that a run checks is proved. Only model-checked is liveness
(`CloseCompletes`, `OneCleanStartIsEnough`, `PendingEnds`, `CallersAnswered`, `Converges`, `LossIsTold`, `IntakeEnds`,
`AttemptEnds`): it rests on fairness and on which actions are enabled, which the prover does not reach.

## The plan

In order; each item is a module, its runs and, where it says so, theorems. What earlier plans called `CoreStore`,
`RemoteLink`, `SessionState` and `Lease` is `AgentStore`, `RemoteFeed` with `RemoteCommands`, and `StoreLock`.

1. `SyncOwners`: several owners of a shared family, one copy; remote syncs, where an owner is behind the edge.
2. `SerialAdmission` and `WorkerCall`: `admission.ts` with mutual exclusion proved, `workers.ts`.
3. `ModuleHost`: a module's start, stop and restart.
4. `TrackerTimer`: the arming of the one timer (`#schedule`, `#sweep`), which `Tracker` takes as fair.
5. Power schedules and modes over the tracker.

## What is not modelled, and why

Message formats, validation, routing-key syntax, tracing and logging: no property here depends on them. Device protocols,
HTTP and authentication: input and output of single requests. A turn of JavaScript is atomic, a SQLite
transaction commits or is refused as a whole, and the stored file survives a crash: these are taken as given, and so are
the semantics of POSIX locks and of SQLite's own locking (`Free`, `CloseProbe`).

Within modelled parts: a responder with a grant of its own (an endpoint) and the syncs of a remote part; the reducer's
ordering of a session's turns and sequences, its notices and attention; the probe of archived conversations, read receipts
and metadata; the upgrade's own lock (`upgrade-lock.ts`). That a first sync started late and an admission of an operator's
command come to an end is not stated. The edge's own `close()` (`remote-edge.ts:433`) is left out: for safety it is
`ForwardLate` for every forward under way and `Lost` for every stream. So is the remote responder's close call
(`remote-client.ts:431`), which acts on the bus as `Unrespond` does. A handler that awaits the close of a subscription
or of another participant is one of those that may hang; that two participants' handlers may await each other's close
is documented (`packages/sdk/README.md:113`).

Without a model: worker calls, serialized admission, the host's handling of modules, and the core's parts. Each is next
to what is modelled but meets it only through calls that the models already take as external.

# A verification project for saltyrtc-server-python

TLA+ models of the SaltyRTC signalling server in `src/saltyrtc`, the TLC
configurations that check them on small instances, and TLAPS proofs of theorems
that hold for every instance. Every definition is translated from the source;
`PROJECT.json` maps each of them to the lines it stands for. Line numbers below
are those of `src/`.

## 1. Inventory

The server is one asyncio process. Initiators and responders connect over
WebSocket to a path named after the initiator's public key, are authenticated by
a handshake, and have messages relayed between them.

| part | code | state | operations | talks to |
|---|---|---|---|---|
| Registry of paths | `server.py` `Paths` 1027-1064 | `paths`, `number` | `get`, `clean` | called when a protocol is created and when its client leaves |
| Path | `protocol.py` `Path` 90-337 | `attached`, pending clients, initiator, responder slots | `add_pending`, `set_initiator`, `add_responder`, `get_*`, `has_client`, `remove_client` | called by the handlers of all clients of the path |
| Client | `protocol.py` `PathClient` 340-880 | state, type, id, keys, cookies, sequence numbers | `authenticate`, `send`, `receive`, `ping`, `drop`, `close` | its connection, its job queue, its tasks |
| Messages | `message.py`, `common.py` | - | `pack`, `unpack` | counters and keys of the client |
| Job queue | `task.py` `JobQueue` 79-333, `util.py` `cancel_awaitable` | queue, state, active job, unfinished counter | `enqueue`, `close`, `cancel`, `join`, `start`, the runner | other clients enqueue and close; the runner cancels the client's tasks |
| Tasks | `task.py` `Tasks` 336-476 | tasks, result future | `start`, `cancel`, `await_result`, done handler | receive and keep-alive loops, runner, `drop` |
| Protocol | `server.py` `ServerProtocol` 311-1024 | path, client, handler task | `handler`, `handle_client`, handshakes, receive loops, `relay_message`, `keep_alive_loop` | everything above |
| Relaying | `server.py` `relay_message` 846-899, the handshakes' announcements 711-780, `handler` 440-490 | messages in the queues of all clients of a path, relay tasks | server-auth, new-initiator, new-responder, disconnected, send-error, relayed messages | paths, queues of other clients |
| Closing of the server | `server.py` `Server` 1067-1320, `websockets/server.py` 600-748 | protocols, closing tasks, connections | `handler`, `register`, `unregister`, `close`, `wait_closed` | drops every client, then closes the connections |
| WebSocket server | `src/saltyrtc/websockets/server.py` | connections, handler tasks | `connection_made`, opening handshake, `handler`, `close` | calls `Server.handler` |
| Events | `events.py` | callbacks | `register`, `notify_*` | the embedding program |
| Splice: synthesis | `splice/synthesis.py`, `constraints.py`, `splice.py` | solver, operands of a constraint | merging, templates of strings, `splice_synthesis`, `SpliceDict.hash` | `Server.handler` when data is to be deleted |
| Splice: flags, taints, deletion | `splice/splice.py`, `splicetypes.py`, `identity.py`, `server.py` 1128-1179 | trusted, synthesized and taints of every object | constructors, methods, conversions, the deletion request | every datum a connection sends |
| Splice: replacement | `splice/replace.py` | the interpreter's heap | `replace` | the deletion |
| Command line, cryptography, encodings, key files | `bin.py`, `util.py`, `common.py` | - | - | - |

### What is hard about it

*Interleaving.* Between two awaits code runs alone, but almost every operation
contains an await, and one client's handler changes another client's state:
it replaces or drops it, cancels its tasks, closes its queue, removes it from the
path. A handler then goes on with state it read before (`path`, `client`,
`initiator`).

*Order.* A queue's jobs are coroutines that run when they are reached, and relay
tasks that run at once; `join` must outlast all of them; the handler must not go
on before the tasks it cancelled have ended, which depends on how many callbacks
asyncio puts in between.

*Partial failure.* Each job may fail, be cancelled, or find the connection closed
while others are queued; cancelling may itself raise.

*Ends.* Connections are lost at any time, joining times out, the server closes in
whatever phase clients are. Counters end at 2^48.

*Splice.* Whose data an object holds is told by bits that must survive any sequence
of computations; a deletion changes many objects in one go; what replaces them
comes from string templates with corners at the ends of the charset.

There is no persistence, hence no crash recovery, and a WebSocket neither loses
nor reorders: what arrives in a wrong order was sent so by the peer.

### What makes each part correct

* Registry and paths: initiator and responder of one key meet on one path; whoever
  is found on a path is alive, on this path, and in the place its id names; a
  path is given up when, and only when, its last client has left.
* Client and messages: no nonce is used twice; numbers are accepted in order;
  nobody is authenticated without the key of its role and the server's cookie.
* Job queue: every accepted job is run, cancelled or closed exactly once and counted
  once; a cancelled queue stops; nothing runs behind the final job.
* Tasks: one result; it reaches the handler; no task runs beside a handler that
  has resumed.
* Protocol: whatever ends a client, it leaves its path, its connection is closed
  and its handler ends; what was queued before a drop is sent before the close.
* Relaying: what clients are told of each other agrees, once their queues are
  empty, with who is there; nothing is relayed to who is leaving.
* Closing: when it ends, every handler has returned by itself, every connection is
  closed and every departure has been announced; it ends unless a peer holds it up.
* Splice: a synthesized string satisfies the constraints of all structures it is in;
  flags and taints tell the truth; a deletion touches nothing but the data it is
  to delete, each object as a whole, and when it says that it is finished, leaves none of
  it. (It leaves what tuples hold: section 5.)

## 2. Modules

Each module's header names the code it models. Code between two awaits that
really suspend is one action. A definition whose name extends the next one's
(`EmptyIgnoresPending` before `Empty`) is that definition with a plausible bug;
the mutants of `PROJECT.json` put it in its place to show that a property would
notice. They are not part of the model.

**SignalingPaths** - registry, paths, and the part of every protocol's life that
touches them. Variables carry the code's names; `room[p]` is a path's `_pending`,
`_initiator` and `_responders`; `phase[c]` says where the handler of `c` stands.
Actions: `Connect` (Server.handler, `Paths.get`, `add_pending`), `AuthInitiator` and
`AuthResponder` (the handshakes from `set_initiator`/`add_responder` on, including the
drop of the previous initiator), `SlotsFull`, `HandshakeDone` (the `has_client`
branch), `DropResponder`, `Leave` (the end of `handle_client`: `remove_client`, then
`clean`), `Unregister`, `Close` and `CloseProtocols`. When a connection is lost or a
handshake fails is left open: it may at any time. Cancelling a job queue succeeds
here; what follows when it raises is in `ServerShutdown`. `Splice` selects the index under
which the registry files a path, which differs between insertion (`str(key)`) and
removal (`key`) when `__splice__` is set.

**InitiatorSeat** - the abstract specification of initiators: one seat per key, a
client takes it once, possibly from its holder, and loses it only by being
replaced, by leaving or by the server's closing. `SignalingPaths` implements it
under `holder <- Holder, former <- Former` (`SeatSpec`).

**JobQueue** - one queue with its asyncio counter (`unfinished`), its runner and the
jobs. A job is a `Coroutine` (runs when reached) or a `RelayTask` (has been running
since before it was enqueued; its source may cancel it). Callbacks (`_job_done`) are
actions of their own, since they run later. `Cancelled(a)` is `_cancel` with
`cancel_awaitable`, including what happens if a job in the queue has already
failed. While the runner is inside a segment (`runner = "step"`) nobody else acts.

**Mailbox** - the abstract specification of a queue: a box of jobs into which each is
put once and from whose front one at a time is taken, until it is shut; then it is
emptied and stays empty, or, when cancelling raises, jobs from its end remain and are
still taken. It knows no final job, counter, runner or callback. `JobQueue` implements
it under `box <- Waiting, hand <- current, put <- accepted` (`QueueOrder`), where
`Waiting` is the queue without its final job.

**ClientTasks** - `Tasks` with the handler waiting in `await_result`. Its correctness
is a matter of the order of callbacks, so the event loop's queue `ready` is part
of the state: done callbacks, the shield's callback and task wake-ups are
scheduled and run first in, first out.

**TaskGroup** - the abstract specification of a client's tasks, without futures and
callbacks: one outcome, which settles once and stops all work, and a handler that
goes on with it when no task runs. An outcome may be pending until the connection is
lost. `ClientTasks` implements it, and so does `ClientLifecycle` with the outline it has
of the tasks (`GroupSpec` in both): what the second takes for granted of the tasks
is what the first provides.

**ClientLifecycle** - one client from connection to unregistering: `handler` and
`handle_client`, `PathClient.drop/send/receive/close`. It EXTENDS `JobQueue`, whose
coroutines are the server's messages and one closing procedure (`CloseJob`); every
step of the queue is a step of the client with its effects on connection, tasks and
result. `Tasks` is used in outline: a result cancels all tasks at once and the handler
resumes after them, which `TaskGroup` allows and `ClientTasks` makes true.
Others enqueue, drop, relay and give up at any time. While the client is off its path the last
client of the path may leave it (`PathCleaned`, `detached`); if that happens during the
greeting, `has_client` raises in `HandshakeDone`, nothing is started, and the handler goes on
in `handler()`, where `join` raises because the queue has no runner.

**ClientMessages** - the messages between the server and one client: nonce, cookie,
sequence number and key checks of `message.py` and `PathClient`, with the flow of the
handshake and the receive loops. The peer is arbitrary: each action takes any
packet of `Packet`. `TakeNonce` is what `_unpack_nonce` stores, which includes the
cookie of a packet that is then refused for its number. `sent`, `accepted`,
`relayed` and `evidence` are history. A counter's sentinel `OverflowSentinel` is
`MaxCsn + 1`. Relayed packets carry the nonce of their sender and are outside
`sent`.

**SignalingRelay** - EXTENDS `SignalingPaths`; every action is a step of a path, or none,
together with what the same segment of code does to the job queues. `outbox[c]` is the
queue of `c` restricted to the server's messages, `gathered` the coroutines a handler
waits for in `gather`, which enqueue one destination at a time (`TellAll`), `relay[c]`
the destination a receive loop waits for. `view[c]` is what the client at the other
end believes when it applies what it is sent, `Believed` what it will believe after
some more messages. `reused` is history: the addresses
that were given away while the server was still busy with their last holder.

**ServerShutdown** - EXTENDS `SignalingPaths` with the layers above the protocols:
`Server.close` and its closing task (`closer`), `WebSocketServer.close` and `_close`
(`wscloser`), and a connection's handler from `connection_made` to `unregister`
(`tcp`). `Gathered` and `GatherRaises` are the two ends of the `gather` over the protocols'
tasks, the second when one of them has died of an exception. `LeaveAborted` and `JoinRaises`
are what happens to a handler when `jobs.cancel` raises (see the job queue).

**SpliceStrings** - the pure part of `StrSynthesizer`: strings over a charset of `Letters`
letters, their order, the templates for lt, le, gt, ge, ne and xeq, and the hash of
`SpliceDict`. A regular expression is the set of its words.

**SpliceSynthesis** - from a request (the constraints of an object's structures, each in
disjunctive normal form) to the string that replaces it: `Merge`, then one disjunct
after the other on one solver. A conjunct is a record of lists of operands, one per
operator; merging concatenates them, as `merge_constraints` does. The templates are of
the members of a list; only with xeq it matters how many there are. Z3 is external: any model may be its answer.

**SpliceDeletion** - the heap: objects with `trusted`, `synthesized` and `taints`; whether
they are `held` by a reference that `replace_single` does not rewrite (in a tuple, or of a
kind it does not know); and, invisible to the program, with whose data they hold. Actions
are the ways an object comes to be (receive, compute, convert, a literal in front, in-place
change, `to_trusted`, `to_untrusted`), is held and released, and the deletion request,
finished or aborted. What is deleted is shut down (a system object), flagged, or replaced:
`Spliced` in each case, for of an object that is only flagged the value counts as made up
from then on. A held object may instead stay as it is, and a new one may appear beside it,
when it has other references as well (`SpliceAll`, `Walk`). The walk over the heap has no
await, so it is one step; `request` and `finished` say in the state after it whose data was
to be deleted and whether "Deletion is finished" is raised, which `Raise` then does.

**SignalingPathsProofs, SignalingRelayProofs, ClientMessagesProofs, ClientTasksProofs,
ClientLifecycleProofs, ServerShutdownProofs, SpliceDeletionProofs,
SpliceSynthesisProofs** - theorems and proofs, each about the module it is named after.
`ClientLifecycleProofs` begins with those about `JobQueue`, which use nothing of the
client and not the assumption about its closing procedure.

**MCSignalingPaths, MCJobQueue, MCSignalingRelay, MCSpliceDeletion** - symmetry sets for TLC.
**MCSpliceSynthesis** - the requests TLC tries.

## 3. Runs

| run | instance | states | shows |
|---|---|---|---|
| paths | 4 clients, 2 keys, 2 path instances, 2 responder slots | 341k | all invariants of the paths, `SlotsFullOnlyWhenFull`, and that they implement `InitiatorSeat` |
| paths_detached | 2 clients, `Splice` | violation | a detached path is handed out again |
| jobs | 2 coroutines, 2 relay tasks | 186k | accounting, join, cancellation, that the queue implements `Mailbox`; the end of runner and join |
| jobs_cancel_raises | 2 coroutines, 1 relay task | violation | a job runs after the queue was cancelled |
| tasks | 3 tasks | 2k | one result, after the tasks, reaching the handler; tasks and handler implement `TaskGroup` |
| lifecycle | 2 messages, 1 relayed, 1 closing procedure | 110k | ordered end of a client in every combination of drop, loss and failure |
| lifecycle_drop | 1 message, 1 relayed | violation | a dropped client stays connected |
| messages | numbers up to 4, 3 cookies, 2 keys | 2k | nonces, order, cookies, roles, server-auth first |
| relay | 3 clients, 1 key, 1 path instance, 2 responder slots, 1 relayed message | 389k | views of initiator and responders, relaying only to who is present |
| shutdown | 2 clients, 1 key, `Splice` on | 42k | what has ended when closing ends, nobody is cut off, and that closing ends |
| synthesis | 3 letters, bounds of up to 2 letters, keys of 2 slots | 107k | every synthesized string satisfies its request, every key its hash |
| deletion | 3 objects, 2 connections, ports 0 to 2, 2 taint bits | 729k | truthful flags and taints; a deletion, finished or aborted, splices nothing but this connection's objects, and if finished leaves only held ones |

### Bounds

* `paths`: four clients are an initiator, one that takes over, one that takes over
  again or responds, and a responder, with the other key for paths that must not
  be mixed up. Two slots fill up. `MaxPaths = 2` lets a path be cleaned and its key
  be used again.
* `jobs`: a job in the runner's hands, one that has failed in the queue, one to be
  cancelled and one to be called back are distinct situations; four jobs hold them
  at once. Coroutines and relay tasks are distinguishable, each pair is there.
* `tasks`: the code has two tasks; three show that no order of two is special.
* `lifecycle`: a message being sent, one waiting, a relay, and the close behind them.
* `messages`: the initial number is 0 or 1 and the counter ends at 4, so that the
  handshake (two numbers), further messages and the end of the counter are all
  reached. A third cookie makes "wrong" differ from "the server's".
* `relay`: three clients are two initiators that take over from each other and a
  responder, or an initiator and two responders that leave and reuse slots. One path
  instance suffices, since nothing is told across paths; `MaxRelays = 1` because
  relay tasks do not touch each other. It is the composition's state that limits it.
* `shutdown`: two connections stand in every pair of phases; with `Splice` on
  the registry's known failure happens during closing, and the queue's does, too. An
  initiator and a responder, or two initiators, suffice to block each other.
* `synthesis`: a smallest, a greatest and an inner letter; a bound may be empty, of one
  letter, a prefix of the other bound, or differ at the last place only. Strings are
  enumerated one letter beyond the longest bound, which a template never needs more of.
* `deletion`: two sources and a result, or an object that stays, the new one beside it and
  what is computed of both. Ports 0 and 2 share a taint bit, 0 and 1 do not.

The run `deletion` checks for deadlock. `CHECK_DEADLOCK FALSE` is set in the others: each
connection, job, task or request is used once, and when all are over the system rests.

### Fairness

Only what the event loop guarantees: what is ready runs (runner, callbacks, a
resumed handler, the delivery of a cancellation, a started closing procedure, which
the WebSocket library bounds by its own timeouts). A send to a peer may block for
ever in `JobQueue`; `ClientLifecycle` assumes that sends end, because keep-alive
closes a connection whose peer does not answer. Nothing is assumed of peers:
nobody must send, close, fail or drop. `JoinTimeout` happens only when nothing is
ready: its ten seconds are long against that. `ServerShutdown` is fair to the closing
task and to the server's part of every connection (`ServerStep`); a peer may stay
in its handshake for ever, or connected without reading, and `ClosingCompletes` states closing with
that exception (`Held`), because the code has no timeout there.

## 4. Proofs

All eight proof modules prove for all values of the constants (any number of clients,
keys, paths, slots, sequence numbers, jobs, tasks, objects, ports), from the named
assumptions of the modules they are about.

`SignalingPathsProofs` proves `PathsInvariant`: `Spec => []IInv`. The properties are
not inductive one by one. That a member is live needs that a departing client is
removed from the path it is on, which needs that the path is attached while a
client of it is in its handshake (`HandshakeIsPending`), which needs that cleaning
sees pending clients, hence that what a phase says of state and id is known
(`ClientSituation`), and that registry and paths agree for both settings of
`Splice` (`RegistryInv`). `IInv` is the conjunction; the proof has a lemma per action,
under it one step per conjunct. It is about
queues whose cancellation succeeds: the code's raising `cancel` breaks the properties. From it follow `TypeCorrect`, `MembersAreLive`,
`InitiatorStaysReachable`, `PathPerKey`, `RegistryIsExact`, `PathsAreCleaned`,
`SlotsFullSound` (an action property) and `SeatRefinement` (every step takes or
vacates a seat or leaves the seats alone).

`ClientMessagesProofs` proves `MessagesInvariant` the same way. The strengthening:
what was sent lies below the outgoing counter (`SentBelow`), the expected number is
one past the last accepted one (`CsnInIsNext`), the cookie taken is not the server's
(`CookieTaken`), and the point of the flow determines what was sent, the key, and
that nobody is authenticated yet (`FlowState`, `FlowSent`). From it follow the six
properties of the run `messages`, at the program's real limits of 2^48 and 2^32 as at
any other. Encryption is ideal in the model, so these are theorems about the
protocol's bookkeeping, not about cryptography.

The first part of `ClientLifecycleProofs` proves `QueueInvariant` (`QInv`), whether or not cancelling raises. The
counter is exact (`Accounting`) because every job has one place: in the queue, in the
runner's hands, called back, or counted (`Traced`), and stands in the queue once
(`Distinct`, which holds until a cancellation has raised). Two lemmas carry the
proof: `_cancel` takes a front part of the queue (`Prefix` and what follows from it), and the
jobs at some places of the queue are not more than these places. That nothing runs
behind the final job needs that the final job is last wherever it is (`FinalLast`) and
how far the runner can have come then (`Progress`); that nothing starts after
`cancel` needs that a cancelled queue that did not raise is empty (`Emptied`). From it
follow `CounterIsExact`, `JoinedIsProcessed`, `FinalIsLast` and the action property
`CancelledStartsNothing`.

`QueueIsMailbox` is the refinement. Each step of the queue is one of the mailbox or
leaves it as it is; that needs, beyond `QInv`, that the active job is the one the
runner waits for and is forgotten by a cancellation (`ActiveInv`, which TLC checks when it
is added to `jobs.cfg`). The work is in the sequences: what taking a front part, the final
job or everything but an end from the code's queue does to `Waiting`. A cancellation
that raises leaves an end of `Waiting`, which is all a mailbox lets it leave.

`ClientTasksProofs` proves `TasksInvariant` (`TasksInv`) for any finite set of tasks. The first
lemmas say what taking the first callback from the event loop's queue and appending others
to it do to the set of scheduled callbacks (`Pending`), given that none is scheduled
twice (`Distinct`). What is scheduled is tied to the states of tasks and futures
(`Scheduling`); once there is a result no task waits and each that is woken is being
cancelled (`Results`). The handler is always scheduled behind the steps of the tasks (`HandlerLast`): it
comes into the queue when the shield's callback runs, after which nothing wakes a task.
From it follow `HandlerComesLast`, `ResultIsSetOnce` and the action property `NothingAfterResult`.

`TasksAreGroup` is the refinement of `TaskGroup`. It needs, beyond `TasksInv`, that a
task is being cancelled only while it is to be resumed and only for a result
(`CancellingInv`): without a result, then, all that has not ended works, and with one nothing
does (`WorkIs`). Every callback but the handler's is a stutter, the end of the last task, or the
settling of the outcome.

The second part of `ClientLifecycleProofs` proves `LifecycleInvariant` (`LInv`) on top of `QInv`: a first
group of lemmas shows that every step of a client is a move of the queue or leaves the
queue alone, so that `QInv` carries over. The rest ties the client to it: nothing is
enqueued once the closing procedure is (`CloseOnce`), it is the last job of a queue
whose cancelling has not raised (`ClosingLast`), and where the handler stands says what
of runner, tasks and connection is over (`Phases`). From it follow
`ClosingComesLast` and `EndedHasNothingLeft`, and the two refinements once more for a client as a
whole: `ClientQueueIsMailbox`, because its moves are the queue's, and
`LifecycleTasksAreGroup`, from `Phases` (TLC checks both as further PROPERTIES of
`lifecycle.cfg`).

`SignalingRelayProofs` proves first that every step of the relay is a step of `SignalingPaths`
(`RelayImplementsPaths`), which gives it `IInv`, and then `RelayInvariant` (`RInv`). Of
a queue only the last message about an address counts; lemmas say what appending to it,
delivering from it and gathering do to what a client believes in the end. The
invariant says this of a client together with the coroutines that other handlers still
have to enqueue for it (`InitiatorInformed`, `ResponderInformed`). An address that two
clients share, one of them leaving, is in `reused` (`SharedIsReused`), which is why the
views can except no more than these addresses. Each step is examined for one path and
one client. From it follow `InitiatorIsInformed`, `ResponderIsInformed` and the action
property `RelayedToPresent`.

`ServerShutdownProofs` proves `ShutdownInvariant` (`ShutdownInv`): how far a connection and its
protocol have come together (`Situation`), that the closing task waits for every
protocol there can still be (`AwaitsAll`), and what each step of the WebSocket server's
closing has left behind (`Stopping`). Of a protocol only its phase matters: the first
lemmas reduce each step of `SignalingPaths` to the move of one phase, so that the
invariant needs nothing of `IInv` and holds although cancelling may raise. From it follow
`ClosedIsClosed` and `NobodyIsCutOff`.

`SpliceDeletionProofs` proves `DeletionInvariant`, and from it `FlagsAlwaysMatch`,
`TaintsAlwaysMatch` and the action property `DeletionsAreExact`. Here the properties are
inductive with the types; the proof reduces them to one record (`Faithful`). `DeletionsAreExact`
rests on what a walk does to one object (`WalkIsExact`: spliced, or untouched and then, if
the walk was done with it, held) and on what the taints tell of its sources (`TaintedIsDataOf`).
It says of a finished deletion no more than the code does: what a tuple holds may stay.

`SpliceSynthesisProofs` proves `SynthesisInvariant`, for any number of letters and slots,
any operands and any requests. The solver is only added to, so that it answers with the first
constraints it is given or never: while disjuncts are tried it is fresh or has no
answer, and what is found is an answer to one merged disjunct alone (`SolverInv`); a key's
only disjunct is tried on a fresh solver (`KeyInv`). Lemmas say that a merged disjunct has one disjunct of every structure and
nothing else, and, per operator, that every word of its template lies where it
should. The templates and the hash are recursive functions; what the proof needs of
them for every length comes from the smallest counterexample, which
has a predecessor that is none (no induction theorem is used). From it follow
`ResultsAreSound` and `KeysAreSynthesized`.

Only model-checked: all liveness (`CancelStopsRunner`, `JoinReturns`, `ClosingCompletes` and the liveness of
tasks and lifecycle), because liveness under fairness is out of the prover's reach. Every safety
property that a run checks has a theorem.

## 5. Where the code does not do what it says

Runs that find a violation; `PROJECT.json` quotes the lines.

* `paths_detached`: with `__splice__`, `clean` deletes under another index than `get`
  used. The detached path stays, and later clients of the key are refused.
* `jobs_cancel_raises`: `cancel_awaitable` logs `task.result()` of a failed task, which
  raises out of `_cancel`; the queue is left half-cancelled.
* `lifecycle_drop`: messages of the server still queued for a client that was dropped
  cannot be encrypted; the failure cancels the closing procedure with the rest.

More are stated in the last section of their modules without a run of their own; each is
violated when it is put into the .cfg of a run of that module:

* `AssignedSlotWasFree` (SignalingPaths): the new id is the number of responders plus
  two, which belongs to somebody after a responder with a smaller id has left.
* `RemovedByItselfOrDropped` (SignalingPaths): a dropped responder removes the next one in
  its slot.
* `HandlerSurvives` (SignalingPaths): `has_client` raises when the path was cleaned during
  the greeting. The connection is closed then, but the handler dies at `join` without
  unregistering: `ClosedConnectionEnds` names this as one of two ways for a handler to die,
  beside a queue that raises when it is cancelled.
* `RemovedWhenLeaving` (ServerShutdown): a client whose queue raises when it
  is cancelled is not removed from its path.
* `ProcessedInOrder` (JobQueue), `SenderIsKnown` (SignalingRelay): a relay task is sent
  before jobs in front of it, hence before the new-responder message that introduces
  its sender.
* `DeletionComplete` (SpliceDeletion): "Deletion is finished" is raised (`server.py` 1179) although
  what a tuple holds is left as it was (`replace.py` 58-69, with a FIXME), as is what an unknown
  relation holds, which is only printed (176-179).
* `ClosingReturns` (ServerShutdown): `Server.wait_closed` does not return when a
  protocol's handler has died, since the closing task ends before it closes the
  WebSocket server (`server.py` 1290-1296).

What the models contain and a reader should know of, though no comment of the code
promises otherwise:

* Addresses: a slot can be given to a responder before the server has announced that its
  last holder left. new-responder and disconnected arrive in the wrong order then, and the
  views of the others are wrong for good. `InitiatorView` and `ResponderView` except
  these addresses (`reused`).
* Synthesis: the solver is not reset between disjuncts, so that a later disjunct is
  tried under the constraints of the earlier ones; eq is ignored once another
  operator has mentioned the string; `ne("")` may yield the empty string; equal
  inclusive bounds are refused; an empty bound counts as no bound; xeq raises when
  all letters of its string are kept. Beside an xeq all other operators are ignored, also those
of other structures, except lt and gt, which are only compared with the string to keep; and when two
structures name the same of xeq, lt and gt, the disjunct is skipped. `ResultSound` says of an answer what holds
  nevertheless. That an answer is found whenever there is one does not hold.
* Deletion: an object that is held stays as it is, beside the one made in its place;
  `DeletionExact` says that nothing else stays. Only objects with exactly this taint are deleted; data mixed from two
  connections stays. Ports with equal remainder modulo `MAX_USERS` are one connection.
  A literal in front of a string loses its taints (`splicetypes.py` 120, `lost` in the
  model). A failing `JobQueue.cancel` aborts the walk over the heap (`DeleteAborted`).

## 6. Abstractions and what is left out

* A cancelled job ends as cancelled: `send` and `close` do not catch the cancellation.
  A cancelled task ends at its next callback.
* A job or task that fails on a closed connection counts as `Disconnected`; both kinds
  have the same effects on a client whose connection is closed.
* Payload fields other than type, key and server cookie are one Boolean (`fine`): a
  client-auth may be refused for sub-protocol, key or ping interval.
* A connection is open or closed; frames, TLS and ping timing are the library's. Of
  keep-alive only a task that waits and fails is modelled.
* In `SignalingPaths` and `SignalingRelay` queues do not raise when they are cancelled; that
  they do, and what happens then, is in `JobQueue` and `ServerShutdown`. A queue of `SignalingRelay` is a sequence
  that is delivered in order, closed or forgotten.
* In `ServerShutdown` a closed connection ends its handler or lets it die in one of two ways,
  which is what `ClientLifecycle` shows of one client (`ClosedConnectionEnds`). Event callbacks are the set of events raised.
* In `SpliceSynthesis` the letters of every string are in the charset (others raise
  ValueError). Keys longer than the slots are flagged by the program, not synthesized.
* In `SpliceDeletion` whether an object is flagged or replaced, which depends on types and
  constraints, and whether a held one stays, which depends on its other references, is left open.
  An object is held or not; by how many references, and whether by a tuple or an unknown relation,
  is not told apart. A container counts as one object with the data put in it; the program
  looks two levels deep.

Not modelled, and why:

* `splice/replace.py` beyond what it leaves of an object: it walks and writes the interpreter's
  memory. A path whose key is replaced in the registry's dictionary (78) may be missed by the
  next client of the key; this needs the dictionary and its keys at the level of object identity.
* The integer, floating-point, bit-vector and datetime synthesizers hand their operands to Z3
  as they are: there is nothing of this program's own in them.
* `HashTable`, `SynthesizableHashTable`, `SynthesizableDict`, `SpliceUserString` and Splice's files,
  sockets and processes: the server does not use them.
* Forced `to_trusted`, `to_synthesized` called by a program: the server does not call them.
* Command line, cryptography, encodings and key files: no protocol state. Header negotiation
  of the WebSocket server: the copied library's.

## 7. Plan

Done, with proofs: paths (and the seat refinement), job queue (and the mailbox), tasks (and the
group), life of a client (and both again), messages, relaying, closing of the server, flags,
taints and deletion, synthesis of strings. What is left, in this order:

1. The relay's `outbox` as a mailbox, one per client, so that the three models of a queue
   share one specification.
2. Replacement of objects at the level of identity, with the registry's dictionary.
3. **KeepAlive** - pings, pongs and their timeout against a peer that answers late.

-------------------------- MODULE ClientLifecycle ---------------------------
(***************************************************************************)
(* One client from its connection to the end of its protocol's handler:    *)
(* `ServerProtocol.handler` and `handle_client` (server.py), `PathClient`  *)
(* (protocol.py), `Tasks` in outline, and its job queue: this module adds  *)
(* the rest of the client to the state of module JobQueue.                 *)
(* The environment is everyone else: the clients that enqueue messages     *)
(* for it and drop it, the closing server, and its own peer.               *)
(*                                                                         *)
(* Tasks and the future of their result are the abstraction of module      *)
(* ClientTasks: a result cancels the tasks in one step and the handler     *)
(* goes on when it is set.                                                 *)
(*                                                                         *)
(* A definition whose name is that of the next one with a suffix           *)
(* (HandlerEndsEarly) is a variant with a bug, used to see that a property *)
(* notices it.                                                             *)
(***************************************************************************)
EXTENDS JobQueue

\* The coroutines of the queue send a message of the server to this client, or
\* are the closing procedure that drop() enqueues.
CONSTANT CloseJob

ASSUME CloseJobAssumption == CloseJob \in Coroutine

Message == Coroutine \ {CloseJob}

VARIABLES
    state,      \* PathClient.state
    attached,   \* the client is on its path
    detached,   \* its path has been given up: not Path.attached
    conn,       \* the WebSocket connection: "open" or "closed"
    handler,    \* where the protocol's handler stands, see below
    result,     \* Tasks._result_future: "unset", "chained" to the closing of the
                \* connection, or the kind of the exception it is set to
    cancelled,  \* Tasks._cancelled
    tasks,      \* the receive and keep-alive loops run
    packed,     \* the messages that are packed and being sent
    prompt      \* when the client was dropped no message of the server for it
                \* was still to be packed (history)

clientVars == <<state, attached, detached, conn, handler, result, cancelled, tasks, packed,
                prompt>>
lvars == <<vars, clientVars>>   \* those of the queue and those of the client

\* "handshake": up to client-auth;  "gather": an initiator between set_initiator
\* and packing server-auth, while new-initiator is enqueued for the responders;
\* "auth": server-auth is being sent;  "waiting": for the result of the tasks;
\* "leaving": off the path, joins the queue and closes the connection;  "ended":
\* unregistered;  "crashed": died of an exception.
Handler == {"handshake", "gather", "auth", "waiting", "leaving", "ended", "crashed"}

Kind == {"disconnected", "other"}

---------------------------------------------------------------------------
(* Tasks                                                                   *)

\* Tasks.cancel(r): the first result counts.
Result(r) == IF result = "unset" THEN r ELSE result

CancelTasks(r) ==
    /\ result' = IF cancelled THEN result ELSE Result(r)
    /\ cancelled' = TRUE
    /\ tasks' = FALSE

\* What ends a job or a task of this client.
KindNow == IF conn = "closed" THEN "disconnected" ELSE "other"

LoseConnectionForgets ==
    /\ conn' = "closed"
    /\ UNCHANGED result

\* The connection is lost: a chained result is Disconnected now.
LoseConnection ==
    /\ conn' = "closed"
    /\ result' = IF result = "chained" THEN "disconnected" ELSE result

---------------------------------------------------------------------------
(* The handshake                                                           *)

LInit ==
    /\ Init
    /\ state = "restricted" /\ attached = TRUE /\ detached = FALSE /\ conn = "open"
    /\ handler = "handshake" /\ result = "unset" /\ cancelled = FALSE
    /\ tasks = FALSE /\ packed = {} /\ prompt = FALSE

\* set_initiator or add_responder.  An initiator that finds responders lets the
\* loop run before it packs server-auth; other clients pack it at once.
Authenticate ==
    /\ Free /\ handler = "handshake" /\ conn = "open"
    /\ state = "restricted" /\ attached
    /\ state' = "authenticated"
    /\ handler' \in {"gather", "auth"}
    /\ UNCHANGED <<vars, attached, detached, conn, result, cancelled, tasks, packed,
                   prompt>>

\* The handshake has raised: handle_client cancels the queue and the tasks,
\* starts both and waits for the result.  If cancelling the queue raises, the
\* handler joins a queue that was not started.
HandshakeFails(r) ==
    /\ Cancelling
    /\ IF raised'
       THEN /\ handler' = "leaving"
            /\ UNCHANGED <<runner, result, cancelled, tasks>>
       ELSE /\ handler' = "waiting"
            /\ runner' = "idle"
            /\ CancelTasks(r)
    /\ UNCHANGED <<current, handed, joiner, accepted, state, attached, detached, conn,
                   packed, prompt>>

\* The peer violates the protocol, is turned away, or is not found on the path
\* after the closing server has removed it.
HandshakeRefused ==
    /\ Free /\ handler = "handshake"
    /\ HandshakeFails("other")

HandshakeDisconnected ==
    /\ Free /\ handler \in {"handshake", "auth"} /\ conn = "closed"
    /\ HandshakeFails("disconnected")

\* server-auth is packed.  That needs an authenticated client: one that was
\* dropped meanwhile fails its handshake with MessageFlowError.
GatherDone ==
    /\ Free /\ handler = "gather"
    /\ IF state = "authenticated"
       THEN /\ handler' = "auth"
            /\ UNCHANGED <<vars, state, attached, detached, conn, result, cancelled, tasks,
                           packed, prompt>>
       ELSE HandshakeFails("other")

HandshakeDoneAttached ==
    /\ handler = "auth" /\ conn = "open"
    /\ IF attached
       THEN Start /\ tasks' = TRUE
       ELSE Free /\ UNCHANGED <<vars, tasks>>
    /\ handler' = IF detached THEN "leaving" ELSE "waiting"
    /\ UNCHANGED <<state, attached, detached, conn, result, cancelled, packed, prompt>>

\* server-auth is sent: the runner starts, and the tasks unless the client is no
\* longer on its path.  If the path itself has been given up, has_client raises
\* ValueError before anything is started.
HandshakeDone ==
    /\ handler = "auth" /\ conn = "open"
    /\ IF detached
       THEN /\ Free /\ handler' = "leaving"
            /\ UNCHANGED <<vars, tasks>>
       ELSE /\ Start /\ handler' = "waiting"
            /\ tasks' = attached
    /\ UNCHANGED <<state, attached, detached, conn, result, cancelled, packed, prompt>>

---------------------------------------------------------------------------
(* Everyone else                                                           *)

\* A message for a client that is on its path.
EnqueueFor(j) ==
    /\ attached /\ state = "authenticated"
    /\ j # CloseJob
    /\ Enqueue(j)
    /\ UNCHANGED clientVars

Unpacked ==
    {j \in Message : status[j] = "queued" \/ (status[j] = "running" /\ j \notin packed)}

\* drop() and remove_client: another initiator, drop-responder or the closing
\* server.  The closing procedure goes to the end of the queue, and the result of
\* the client is to be that of the connection.
Drop ==
    /\ handler # "ended"
    /\ CloseWith(CloseJob)
    /\ CancelTasks(IF conn = "closed" THEN "disconnected" ELSE "chained")
    /\ state' = IF state = "authenticated" THEN "dropped" ELSE state
    /\ attached' = FALSE
    /\ prompt' = (Unpacked = {} /\ handler \in {"auth", "waiting"})
    /\ UNCHANGED <<detached, conn, handler, packed>>

\* The last client of the path leaves it while this one is off it and still busy:
\* the path is given up.
PathCleaned ==
    /\ Free /\ ~attached /\ ~detached
    /\ detached' = TRUE
    /\ UNCHANGED <<vars, state, attached, conn, handler, result, cancelled, tasks, packed,
                   prompt>>

\* The peer closes the connection, or it breaks.
PeerCloses ==
    /\ Free /\ conn = "open"
    /\ LoseConnection
    /\ UNCHANGED <<vars, state, attached, detached, handler, cancelled, tasks, packed,
                   prompt>>

\* A protocol error or a ping timeout.
TaskFails ==
    /\ Free /\ tasks
    /\ result' = Result("other") /\ tasks' = FALSE
    /\ UNCHANGED <<vars, state, attached, detached, conn, handler, cancelled, packed,
                   prompt>>

\* A loop finds the connection closed; receive closes the queue before it raises.
TaskDisconnected ==
    /\ Free /\ tasks /\ conn = "closed"
    /\ Closing(<<>>)
    /\ result' = Result("disconnected") /\ tasks' = FALSE
    /\ UNCHANGED <<active, runner, current, status, callbacks, handed, joiner, accepted,
                   raised, state, attached, detached, conn, handler, cancelled, packed,
                   prompt>>

---------------------------------------------------------------------------
(* The jobs                                                                *)

\* Steps of the runner that call no result handler, and callbacks of tasks.
RunnerSilent ==
    /\ \/ RunnerGet /\ Head(queue) # Final
       \/ RunnerIdle \/ RunnerDone \/ RunnerCancelled
       \/ RunnerFailed /\ runner' = "died"
    /\ UNCHANGED clientVars

\* The result handler is Tasks.cancel.
RunnerReports ==
    /\ \/ RunnerGet /\ Head(queue) = Final
       \/ RunnerFailed /\ runner' # "died"
    /\ CancelTasks(KindNow)
    /\ UNCHANGED <<state, attached, detached, conn, handler, packed, prompt>>

\* A message of the server is encrypted when its coroutine starts, which only an
\* authenticated client's can be.
PackMessage(j) ==
    /\ Free /\ j \in Message /\ status[j] = "running" /\ j \notin packed
    /\ state = "authenticated"
    /\ packed' = packed \cup {j}
    /\ UNCHANGED <<vars, state, attached, detached, conn, handler, result, cancelled, tasks,
                   prompt>>

MessageRefused(j) ==
    /\ j \in Message \ packed /\ state # "authenticated"
    /\ JobFails(j)
    /\ UNCHANGED clientVars

Sent(j) ==
    /\ j \in packed \cup RelayTask /\ conn = "open"
    /\ JobReturns(j)
    /\ UNCHANGED clientVars

SendDisconnected(j) ==
    /\ j \in packed \cup RelayTask /\ conn = "closed"
    /\ JobDisconnected(j)
    /\ UNCHANGED clientVars

RelayOver(j) ==
    /\ RelayGivesUp(j)
    /\ UNCHANGED clientVars

JobOver(j) ==
    /\ JobCancelled(j) \/ JobDone(j)
    /\ UNCHANGED clientVars

\* The closing procedure closes the connection.
ConnectionClosed ==
    /\ JobReturns(CloseJob)
    /\ LoseConnection
    /\ UNCHANGED <<state, attached, detached, handler, cancelled, tasks, packed, prompt>>

---------------------------------------------------------------------------
(* The end                                                                 *)

HandlerResumesKeeps ==
    /\ Free /\ handler = "waiting" /\ result \in Kind
    /\ Cancelling
    /\ handler' = "leaving"
    /\ UNCHANGED <<runner, current, handed, joiner, accepted, state, attached, detached, conn,
                   result, cancelled, tasks, packed, prompt>>

\* The result is there: cancel the queue, remove the client from its path.  If
\* cancelling raises, the client stays on its path.
HandlerResumes ==
    /\ Free /\ handler = "waiting" /\ result \in Kind
    /\ Cancelling
    /\ handler' = "leaving"
    /\ attached' = (attached /\ raised' /\ ~raised)
    /\ UNCHANGED <<runner, current, handed, joiner, accepted, state, detached, conn, result,
                   cancelled, tasks, packed, prompt>>

\* Unless handle_client has raised Disconnected, which it does of closed connections
\* only, a task of the handler closes the connection while the handler joins the
\* queue.
HandlerCloses ==
    /\ Free /\ handler \in {"leaving", "crashed"} /\ conn = "open"
    /\ LoseConnection
    /\ UNCHANGED <<vars, state, attached, detached, handler, cancelled, tasks, packed,
                   prompt>>

HandlerJoins ==
    /\ handler = "leaving"
    /\ Join
    /\ UNCHANGED clientVars

JoinOver ==
    /\ JoinEnds \/ JoinTimeout
    /\ UNCHANGED clientVars

HandlerEndsEarly ==
    /\ Free /\ handler = "leaving"
    /\ \/ joiner \in {"returned", "timeout"} /\ handler' = "ended"
       \/ joiner \in {"raised", "error"} /\ handler' = "crashed"
    /\ UNCHANGED <<vars, state, attached, detached, conn, result, cancelled, tasks, packed,
                   prompt>>

\* After the disconnected messages the handler waits for its closing task.
HandlerEnds ==
    /\ Free /\ handler = "leaving"
    /\ \/ joiner \in {"returned", "timeout"} /\ conn = "closed" /\ handler' = "ended"
       \/ joiner \in {"raised", "error"} /\ handler' = "crashed"
    /\ UNCHANGED <<vars, state, attached, detached, conn, result, cancelled, tasks, packed,
                   prompt>>

HandlerStep ==
    \/ HandshakeDisconnected \/ GatherDone \/ HandshakeDone
    \/ HandlerResumes \/ HandlerJoins \/ HandlerEnds

JobStep(j) ==
    PackMessage(j) \/ MessageRefused(j) \/ Sent(j) \/ SendDisconnected(j) \/ JobOver(j)

LNext ==
    \/ Authenticate \/ HandshakeRefused \/ HandlerStep \/ HandlerCloses
    \/ Drop \/ PathCleaned \/ PeerCloses \/ TaskFails \/ TaskDisconnected
    \/ RunnerSilent \/ RunnerReports \/ ConnectionClosed \/ JoinOver
    \/ \E j \in Job : EnqueueFor(j) \/ JobStep(j) \/ RelayOver(j)

\* The loop runs what is ready, sends to a peer that reads and closing
\* procedures come to an end.  Nothing is assumed of the peer beyond that, nor
\* that anybody enqueues, drops or fails.
LFairness ==
    /\ WF_lvars(HandlerStep) /\ WF_lvars(HandlerCloses) /\ WF_lvars(TaskDisconnected)
    /\ WF_lvars(RunnerSilent) /\ WF_lvars(RunnerReports)
    /\ WF_lvars(ConnectionClosed) /\ WF_lvars(JoinOver)
    /\ \A j \in Job : WF_lvars(JobStep(j))

LSpec == LInit /\ [][LNext]_lvars /\ LFairness

---------------------------------------------------------------------------
(* Properties                                                              *)

LTypeOK ==
    /\ TypeOK
    /\ state \in {"restricted", "authenticated", "dropped"}
    /\ attached \in BOOLEAN /\ detached \in BOOLEAN /\ conn \in {"open", "closed"}
    /\ handler \in Handler
    /\ result \in Kind \cup {"unset", "chained"}
    /\ cancelled \in BOOLEAN /\ tasks \in BOOLEAN
    /\ packed \subseteq Message /\ prompt \in BOOLEAN

\* The closing procedure of a dropped client starts when every job accepted before
\* it is over: what was forwarded to the client before the drop is sent first.
\* Nothing is claimed of a queue whose cancellation has raised.
JobsBeforeClosing ==
    status[CloseJob] = "running" /\ ~raised
    => \A j \in accepted \ {CloseJob} : status[j] \in Ended

\* A protocol unregisters only when its connection is closed and no job of it is
\* left that could still send on it.
EndedIsClosed ==
    handler = "ended" =>
        /\ conn = "closed" /\ ~tasks
        /\ joiner = "returned" => \A j \in accepted : status[j] \in Ended

\* A client that is dropped while no message of the server waits for it is closed:
\* what was queued for it is sent, then its closing procedure runs.
PromptDropCloses == (state = "dropped" /\ prompt) ~> conn = "closed"

\* The handler of a connection that is closed ends, in whatever order the drop,
\* the loss of the connection and the failures of tasks and jobs happen.  It dies
\* instead, and its protocol stays registered, for two reasons only: cancelling the
\* queue has raised, or the path was given up while the client was being greeted, so
\* that its runner was not started.
ClosedConnectionEnds ==
    conn = "closed"
    ~> (\/ handler = "ended"
        \/ handler = "crashed" /\ (raised \/ (detached /\ runner = "none")))

\* A client whose tasks failed is closed, and it is off its path unless cancelling
\* the queue has raised.
FailureCloses ==
    result = "other" ~> (conn = "closed" /\ (attached => raised))

---------------------------------------------------------------------------
(* The tasks of the client are those of module ClientTasks in outline.     *)

Outcome ==
    CASE result = "unset" -> "none"
      [] result = "chained" -> "pending"
      [] OTHER -> "final"

Waiter ==
    CASE handler \in {"handshake", "gather", "auth"} -> "before"
      [] handler = "waiting" -> "waits"
      [] OTHER -> "on"

Group == INSTANCE TaskGroup WITH outcome <- Outcome, waiter <- Waiter,
                                 work <- IF tasks THEN "working" ELSE "none",
                                 lost <- conn = "closed"

\* The result of a client settles once, whoever drops it and whatever fails, and its
\* loops run only before that: module ClientTasks promises the same of the code's
\* tasks and futures.
GroupSpec == Group!Spec

---------------------------------------------------------------------------
(* The inductive invariant.                                                *)

\* Nothing is enqueued once the closing procedure is.
CloseOnce == status[CloseJob] # "new" => qstate # "open"

\* The closing procedure is the last job, and what it follows is over when it runs:
\* a task is called back only when the queue was cancelled or the task is over.
ClosingLast ==
    /\ \A i, k \in DOMAIN queue : queue[i] = CloseJob /\ i < k => queue[k] = Final
    /\ qstate \in {"open", "closed"} => \A j \in callbacks : status[j] \in Ended
    /\ JobsBeforeClosing

\* What the handler has done when it is at a certain point.
Phases ==
    /\ handler \in {"handshake", "gather", "auth"}
           => runner = "none" /\ (attached => result = "unset")
    /\ tasks => handler = "waiting" /\ result = "unset"
    /\ handler = "ended" => conn = "closed"

LInv == /\ QInv /\ JoinedAtZero /\ LTypeOK /\ CloseOnce /\ Phases
        /\ raised \/ ClosingLast

---------------------------------------------------------------------------
(* What the program says of itself and does not keep.                      *)

\* PathClient.drop: "Drop this client. Will enqueue the closing procedure and cancel
\* all tasks of the client", and the closing procedure comes after "all other
\* pending jobs".  A pending message of the server cannot be encrypted for a
\* client that was dropped; the failure cancels the closing procedure, and the
\* client stays connected as long as its peer likes.
DroppedIsClosed == state = "dropped" ~> conn = "closed"

=============================================================================

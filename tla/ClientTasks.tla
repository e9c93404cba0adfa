---------------------------- MODULE ClientTasks -----------------------------
(***************************************************************************)
(* The tasks of one client: `Tasks` (task.py) with the handler that starts *)
(* them and waits for their result (`handle_client`).                      *)
(*                                                                         *)
(* Whether the tasks are over when the handler goes on depends on the      *)
(* order in which asyncio runs callbacks, so the event loop is part of the *)
(* model: `ready` holds the callbacks scheduled for this client, first in, *)
(* first out.  What is scheduled for anyone else runs in between.          *)
(*                                                                         *)
(* A definition whose name is that of the next one with a suffix           *)
(* (ShieldHandlesDirect) is a variant with a bug, used to see that a       *)
(* property notices it.                                                    *)
(***************************************************************************)
EXTENDS Sequences, FiniteSets, SequencesExt

CONSTANTS
    Task,   \* the receive loop and the keep-alive loop
    None    \* no task

ASSUME TasksAssumption == IsFiniteSet(Task)

VARIABLES
    ready,      \* the loop's callbacks that concern this client
    task,       \* the state of each task, see below
    cancelling, \* the tasks that have been cancelled and do not know it yet
    cancelled,  \* Tasks._cancelled
    haveResult, \* Tasks._have_result
    result,     \* Tasks._result_future: "unset", "chained" to the future of the
                \* closed connection, or "set"
    lost,       \* the future of the closed connection is done
    handler     \* handle_client: "handshake", "awaiting" the result, "resumed"

vars == <<ready, task, cancelling, cancelled, haveResult, result, lost, handler>>

\* "waiting": for a message, a pong, a timer, a relay;  "woken": a callback that
\* resumes the task is scheduled;  "cancelled" and "failed": ended.
TaskState == {"none", "waiting", "woken", "cancelled", "failed"}

Started == {t \in Task : task[t] # "none"}
Ended == {t \in Task : task[t] \in {"cancelled", "failed"}}

Handle(kind) == <<kind, None>>
Runs(kind, t) == ready # <<>> /\ Head(ready) = <<kind, t>>

---------------------------------------------------------------------------
(* Tasks                                                                   *)

ShieldHandlesDirect(r) ==
    IF ~haveResult /\ r = "set" /\ handler = "awaiting"
    THEN <<Handle("handler")>> ELSE <<>>

ShieldHandlesAgain(r) ==
    IF r = "set" /\ handler = "awaiting" THEN <<Handle("shield")>> ELSE <<>>

\* _set_result, unless there is a result.  The handler awaits a shield around
\* the result future: setting that future schedules the shield's callback.
ShieldHandles(r) ==
    IF ~haveResult /\ r = "set" /\ handler = "awaiting"
    THEN <<Handle("shield")>> ELSE <<>>

ChainHandlesTooLate(r) == <<>>

\* A future that is done calls the callback that is added to it soon.
ChainHandles(r) ==
    IF ~haveResult /\ r = "chained" /\ lost THEN <<Handle("chain")>> ELSE <<>>

\* _cancel: a waiting task is resumed with CancelledError, a task that is to be
\* resumed anyway gets CancelledError then.  The order of a set is any order.
WakeHandles(order) == [i \in DOMAIN order |-> <<"step", order[i]>>]

SetResultAndCancelWaiting(r, before) ==
    \E order \in SetToSeqs({t \in Task : task[t] = "waiting"}) :
        /\ haveResult' = TRUE
        /\ result' = IF haveResult THEN result ELSE r
        /\ ready' = before \o ShieldHandles(r) \o ChainHandles(r) \o WakeHandles(order)
        /\ task' = [t \in Task |-> IF task[t] = "waiting" THEN "woken" ELSE task[t]]
        /\ cancelling' = cancelling \cup {t \in Task : task[t] = "waiting"}

SetResultAndCancel(r, before) ==
    \E order \in SetToSeqs({t \in Task : task[t] = "waiting"}) :
        /\ haveResult' = TRUE
        /\ result' = IF haveResult THEN result ELSE r
        /\ ready' = before \o ShieldHandles(r) \o ChainHandles(r) \o WakeHandles(order)
        /\ task' = [t \in Task |-> IF task[t] = "waiting" THEN "woken" ELSE task[t]]
        /\ cancelling' = cancelling \cup {t \in Task : task[t] \in {"waiting", "woken"}}

Init ==
    /\ ready = <<>>
    /\ task = [t \in Task |-> "none"]
    /\ cancelling = {} /\ cancelled = FALSE
    /\ haveResult = FALSE /\ result = "unset"
    /\ lost = FALSE
    /\ handler = "handshake"

\* cancel(): with the handshake's exception, by the job queue runner with a
\* job's ("set"), or by drop() with the future of the closed connection.
Cancel(r) ==
    /\ ~cancelled
    /\ SetResultAndCancel(r, ready)
    /\ cancelled' = TRUE
    /\ UNCHANGED <<lost, handler>>

\* start() and await_result().  A client that was dropped during its handshake
\* is no longer on its path and gets no tasks.  A new task is scheduled at once.
\* If the result future is done, waiting for it does not suspend the handler.
Start(T) ==
    /\ handler = "handshake"
    /\ T \in {{}, Task} /\ (cancelled => T = {})
    /\ task' = [t \in Task |-> IF t \in T THEN "woken" ELSE "none"]
    /\ \E order \in SetToSeqs(T) : ready' = ready \o WakeHandles(order)
    /\ handler' = IF result = "set" THEN "resumed" ELSE "awaiting"
    /\ UNCHANGED <<cancelling, cancelled, haveResult, result, lost>>

---------------------------------------------------------------------------
(* Callbacks                                                               *)

\* A task runs until it waits again or raises.  A task that was cancelled ends:
\* relay_message, which catches CancelledError, raises it if there is a result.
TaskStep(t) ==
    /\ Runs("step", t)
    /\ \/ /\ t \notin cancelling
          /\ task' = [task EXCEPT ![t] = "waiting"]
          /\ ready' = Tail(ready)
       \/ /\ t \notin cancelling
          /\ task' = [task EXCEPT ![t] = "failed"]
          /\ ready' = Append(Tail(ready), <<"done", t>>)
       \/ /\ t \in cancelling
          /\ task' = [task EXCEPT ![t] = IF haveResult THEN "cancelled" ELSE "waiting"]
          /\ ready' = IF haveResult THEN Append(Tail(ready), <<"done", t>>)
                                    ELSE Tail(ready)
    /\ cancelling' = cancelling \ {t}
    /\ UNCHANGED <<cancelled, haveResult, result, lost, handler>>

TaskDoneWaitsForAll(t) ==
    /\ Runs("done", t)
    /\ IF task[t] = "failed" /\ Ended = Started
       THEN /\ SetResultAndCancel("set", Tail(ready))
            /\ UNCHANGED cancelled
       ELSE /\ ready' = Tail(ready)
            /\ UNCHANGED <<haveResult, result, cancelled, task, cancelling>>
    /\ UNCHANGED <<lost, handler>>

\* _task_done_handler.  The first exception becomes the result.
TaskDone(t) ==
    /\ Runs("done", t)
    /\ IF task[t] = "failed"
       THEN /\ SetResultAndCancel("set", Tail(ready))
            /\ UNCHANGED cancelled
       ELSE /\ ready' = Tail(ready) \o
                   (IF Ended = Started THEN ShieldHandles("set") ELSE <<>>)
            /\ IF Ended = Started /\ ~haveResult
               THEN haveResult' = TRUE /\ result' = "set" /\ cancelled' = TRUE
               ELSE UNCHANGED <<haveResult, result, cancelled>>
            /\ UNCHANGED <<task, cancelling>>
    /\ UNCHANGED <<lost, handler>>

\* The connection is closed: its future, if chained, will set the result.
ConnectionLost ==
    /\ ~lost
    /\ lost' = TRUE
    /\ ready' = IF result = "chained" THEN Append(ready, Handle("chain")) ELSE ready
    /\ UNCHANGED <<task, cancelling, cancelled, haveResult, result, handler>>

ChainRuns ==
    /\ Runs("chain", None)
    /\ result' = "set"
    /\ ready' = Tail(ready) \o
           (IF handler = "awaiting" THEN <<Handle("shield")>> ELSE <<>>)
    /\ UNCHANGED <<task, cancelling, cancelled, haveResult, lost, handler>>

\* The shield passes the result on and schedules the handler.
ShieldRuns ==
    /\ Runs("shield", None)
    /\ ready' = Append(Tail(ready), Handle("handler"))
    /\ UNCHANGED <<task, cancelling, cancelled, haveResult, result, lost, handler>>

HandlerRuns ==
    /\ Runs("handler", None)
    /\ ready' = Tail(ready)
    /\ handler' = "resumed"
    /\ UNCHANGED <<task, cancelling, cancelled, haveResult, result, lost>>

\* What the task waits for has happened.
Wake(t) ==
    /\ task[t] = "waiting"
    /\ task' = [task EXCEPT ![t] = "woken"]
    /\ ready' = Append(ready, <<"step", t>>)
    /\ UNCHANGED <<cancelling, cancelled, haveResult, result, lost, handler>>

Callback ==
    \/ ChainRuns \/ ShieldRuns \/ HandlerRuns
    \/ \E t \in Task : TaskStep(t) \/ TaskDone(t)

Next ==
    \/ Callback
    \/ ConnectionLost
    \/ \E r \in {"set", "chained"} : Cancel(r)
    \/ \E T \in SUBSET Task : Start(T)
    \/ \E t \in Task : Wake(t)

\* The loop runs every scheduled callback.
Spec == Init /\ [][Next]_vars /\ WF_vars(Callback)

---------------------------------------------------------------------------
(* Properties                                                              *)

\* Callbacks: of a task, of a future or of the handler.
Entry == {"step", "done", "chain", "shield", "handler"} \X (Task \cup {None})

TypeOK ==
    /\ ready \in Seq(Entry)
    /\ task \in [Task -> TaskState]
    /\ cancelling \subseteq Task
    /\ cancelled \in BOOLEAN /\ haveResult \in BOOLEAN /\ lost \in BOOLEAN
    /\ result \in {"unset", "chained", "set"}
    /\ handler \in {"handshake", "awaiting", "resumed"}

\* When handle_client goes on, no task of the client runs any more: it cancels
\* the job queue and leaves the path without a receive loop beside it.  The tasks
\* are over one callback after they are cancelled, the handler goes on two
\* callbacks after the result is set, so the shield is what makes it true.
ResultAfterTasks == handler = "resumed" => Ended = Started

\* Once there is a result no task waits again: a client that was dropped receives
\* and relays nothing more, also when a message has already woken its loop.
NoWorkAfterResult ==
    [][\A t \in Task : haveResult /\ task[t] = "woken" => task'[t] # "waiting"]_vars

\* The result future is set once: nothing that may set it is under way when it is.
SetOnce ==
    LET Handles(kind) == {i \in DOMAIN ready : ready[i] = Handle(kind)} IN
    /\ Cardinality(Handles("chain")) <= (IF result = "chained" THEN 1 ELSE 0)
    /\ Cardinality(Handles("shield")) + Cardinality(Handles("handler")) <=
           (IF result = "set" /\ handler = "awaiting" THEN 1 ELSE 0)

\* A task that ends makes its client's handler go on, unless the client was
\* dropped and its connection is not closed yet.
EndedTaskEndsClient ==
    Ended # {} ~> (handler = "resumed" \/ (result = "chained" /\ ~lost))

\* A result reaches the handler: one that is set, and that of a dropped client
\* when its connection is lost, whichever comes first, the drop or the loss.
ResultArrives ==
    (handler = "awaiting" /\ (result = "set" \/ (result = "chained" /\ lost)))
        ~> handler = "resumed"

---------------------------------------------------------------------------
(* The tasks keep the promises that the rest of the client relies on.      *)

Outcome ==
    CASE result = "unset" -> "none"
      [] result = "chained" -> "pending"
      [] OTHER -> "final"

\* The tasks that have not been told to stop.
AtWork == {t \in Task : task[t] = "waiting" \/ (task[t] = "woken" /\ t \notin cancelling)}

Work == IF AtWork # {} THEN "working" ELSE IF Ended # Started THEN "stopping" ELSE "none"

Waiter ==
    CASE handler = "handshake" -> "before"
      [] handler = "awaiting" -> "waits"
      [] OTHER -> "on"

Group == INSTANCE TaskGroup WITH outcome <- Outcome, work <- Work, waiter <- Waiter

\* Whatever ends a client, and in whatever order asyncio runs the callbacks: the result
\* is set once and never replaced; as soon as it is there each task has been told to
\* stop, a message that has already woken the receive loop notwithstanding, and none
\* is started; the handler goes on with the result and after the last task.
GroupSpec == Group!Spec

---------------------------------------------------------------------------
(* The inductive invariant.                                                *)

Pending == {ready[i] : i \in DOMAIN ready}

\* No callback is scheduled twice.
Distinct == \A i, j \in DOMAIN ready : ready[i] = ready[j] => i = j

\* The handler is scheduled behind the tasks.
HandlerLast ==
    \A i, j \in DOMAIN ready :
        ready[i] = Handle("handler") /\ ready[j][1] = "step" => j < i

\* What is scheduled, and for which tasks and futures.
Scheduling ==
    /\ \A t \in Task : task[t] = "woken" <=> <<"step", t>> \in Pending
    /\ \A t \in Task : <<"done", t>> \in Pending => t \in Ended
    /\ Handle("chain") \in Pending => result = "chained" /\ lost
    /\ Handle("shield") \in Pending \/ Handle("handler") \in Pending
           => result = "set" /\ handler = "awaiting"
    /\ ~(Handle("shield") \in Pending /\ Handle("handler") \in Pending)

\* Once there is a result, a task is over or will be when it runs next.
Results ==
    /\ haveResult <=> result # "unset"
    /\ haveResult => \A t \in Task : /\ task[t] # "waiting"
                                     /\ task[t] = "woken" => t \in cancelling
    /\ handler = "handshake" => Started = {} /\ (haveResult => cancelled)
    /\ handler = "resumed" => result = "set" /\ Ended = Started

\* Only a task that is about to run is being cancelled, and only for a result.
CancellingInv ==
    /\ \A t \in cancelling : task[t] = "woken"
    /\ cancelling # {} => haveResult

TasksInv == TypeOK /\ Distinct /\ HandlerLast /\ Scheduling /\ Results

=============================================================================

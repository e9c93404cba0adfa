------------------------------ MODULE JobQueue ------------------------------
(***************************************************************************)
(* The job queue of one client: `JobQueue` (task.py), the asyncio queue it *)
(* is built on, and `util.cancel_awaitable`.                               *)
(*                                                                         *)
(* A job is a coroutine, which runs when the runner reaches it, or a relay *)
(* task, which has been running since before it was enqueued and which its *)
(* source may cancel.  One action is one segment between two awaits; while *)
(* the runner is in the middle of a segment nobody else runs.              *)
(*                                                                         *)
(* A definition whose name is that of the next one with a suffix           *)
(* (EnqueueAlways) is a variant with a bug, used to see that a property    *)
(* notices it.                                                             *)
(***************************************************************************)
EXTENDS Integers, Sequences, FiniteSets

CONSTANTS
    Coroutine,  \* coroutines: PathClient.send, PathClient.close
    RelayTask,  \* tasks made by relay_message
    Final,      \* the FinalJob
    None        \* no job

Job == Coroutine \cup RelayTask

ASSUME JobsAssumption ==
    /\ Coroutine \cap RelayTask = {}
    /\ Final \notin Job /\ None \notin Job /\ Final # None
    /\ IsFiniteSet(Job)

VARIABLES
    qstate,     \* JobQueue._state
    queue,      \* JobQueue._queue
    unfinished, \* the unfinished tasks of the asyncio queue
    active,     \* JobQueue._active_job
    runner,     \* the runner task, see below
    current,    \* the job the runner is waiting for
    status,     \* of each job, see below
    callbacks,  \* the tasks that have _job_done as done callback to be called
    handed,     \* result_handler has been called
    joiner,     \* the protocol's handler in join
    accepted,   \* the jobs that have been put into the queue (history)
    raised      \* cancel_awaitable has raised out of _cancel (history)

vars == <<qstate, queue, unfinished, active, runner, current, status, callbacks,
          handed, joiner, accepted, raised>>

\* "idle": in queue.get();  "await": waits for the current job;  "step": inside
\* a segment;  "done": returned;  "died": ended by an exception.
Runner == {"none", "idle", "await", "step", "done", "died"}

\* "queued": a coroutine in the queue;  "cancelling": cancel() was called on the
\* task, CancelledError is not delivered yet;  "closed": a coroutine that was
\* closed and never ran.
Ended == {"done", "failed", "cancelled", "closed"}
Status == {"new", "queued", "running", "cancelling"} \cup Ended

Free == runner # "step"

Put(q, e) == Append(q, e)

---------------------------------------------------------------------------
(* JobQueue._cancel.  cancel_awaitable asks a task for its exception; if   *)
(* the task has failed it calls task.result() for the log message, which   *)
(* raises that exception and ends _cancel there.                           *)

Failed(j) == j \in Job /\ status[j] = "failed"

\* _cancel while a is the active job: it takes the active job first, then the
\* queue from its front, up to the first job that makes it raise.
FailedAt == {i \in DOMAIN queue : Failed(queue[i])}

ReachedNothing(a) == {}
Reached(a) == {i \in DOMAIN queue : ~Failed(a) /\ \A f \in FailedAt : i <= f}

Drained(a) == {queue[i] : i \in Reached(a) \ FailedAt}

\* A drained task is marked as done by its done callback, a coroutine is closed
\* and marked as done at once, as is the final job.  The active job is left to
\* the runner.
CallBackActiveToo(a) == (Drained(a) \cap RelayTask) \cup ({a} \ {None})
CallBack(a) == Drained(a) \cap RelayTask
DoneAtOnceAll(a) == Drained(a)
DoneAtOnce(a) == Drained(a) \ RelayTask

Cancelled(a) ==
    [queue  |-> SubSeq(queue, Cardinality(Reached(a)) + 1, Len(queue)),
     active |-> IF Failed(a) THEN a ELSE None,
     raised |-> Failed(a) \/ FailedAt # {},
     status |-> [j \in Job |->
         IF j \in Drained(a) \cap Coroutine THEN "closed"
         ELSE IF j \in Drained(a) \cup {a} /\ status[j] = "running"
         THEN "cancelling" ELSE status[j]],
     callbacks  |-> callbacks \cup CallBack(a),
     unfinished |-> unfinished - Cardinality(DoneAtOnce(a))]

AfterCancel == IF qstate = "completed" THEN qstate ELSE "cancelled"

---------------------------------------------------------------------------
(* The operations                                                          *)

Init ==
    /\ qstate = "open" /\ queue = <<>> /\ unfinished = 0
    /\ active = None /\ runner = "none" /\ current = None
    /\ status = [j \in Job |-> "new"]
    /\ callbacks = {} /\ handed = FALSE /\ joiner = "no"
    /\ accepted = {} /\ raised = FALSE

EnqueueAlways(j) ==
    /\ Free /\ status[j] = "new"
    /\ queue' = Put(queue, j)
    /\ unfinished' = unfinished + 1
    /\ accepted' = accepted \cup {j}
    /\ status' = [status EXCEPT ![j] =
                     IF j \in Coroutine THEN "queued" ELSE "running"]
    /\ UNCHANGED <<qstate, active, runner, current, callbacks, handed, joiner, raised>>

\* enqueue: a relay task is created in the same segment.  A queue that is not
\* open cancels the job.
Enqueue(j) ==
    /\ Free /\ status[j] = "new"
    /\ IF qstate = "open"
       THEN /\ queue' = Put(queue, j)
            /\ unfinished' = unfinished + 1
            /\ accepted' = accepted \cup {j}
            /\ status' = [status EXCEPT ![j] =
                             IF j \in Coroutine THEN "queued" ELSE "running"]
       ELSE /\ status' = [status EXCEPT ![j] =
                             IF j \in Coroutine THEN "closed" ELSE "cancelling"]
            /\ UNCHANGED <<queue, unfinished, accepted>>
    /\ UNCHANGED <<qstate, active, runner, current, callbacks, handed, joiner, raised>>

\* The queue, its counter and its state after close(result, *jobs), where jobs
\* is a sequence of no job or of one coroutine.
Closing(jobs) ==
    IF qstate = "open"
    THEN /\ qstate' = "closed"
         /\ queue' = queue \o jobs \o <<Final>>
         /\ unfinished' = unfinished + Len(jobs) + 1
    ELSE UNCHANGED <<qstate, queue, unfinished>>

\* close() without jobs: PathClient.close, and send, receive, ping and
\* wait_pong when they find the connection closed.
Close ==
    /\ Free /\ qstate = "open"
    /\ Closing(<<>>)
    /\ UNCHANGED <<active, runner, current, status, callbacks, handed, joiner,
                   accepted, raised>>

CloseWithFuture(j) ==
    /\ Free /\ j \in Coroutine /\ status[j] = "new"
    /\ Closing(<<j>>)
    /\ status' = [status EXCEPT ![j] = IF qstate = "open" THEN "running" ELSE "closed"]
    /\ accepted' = IF qstate = "open" THEN accepted \cup {j} ELSE accepted
    /\ UNCHANGED <<active, runner, current, callbacks, handed, joiner, raised>>

\* close() with the closing procedure j as the last job: PathClient.drop.
CloseWith(j) ==
    /\ Free /\ j \in Coroutine /\ status[j] = "new"
    /\ Closing(<<j>>)
    /\ status' = [status EXCEPT ![j] = IF qstate = "open" THEN "queued" ELSE "closed"]
    /\ accepted' = IF qstate = "open" THEN accepted \cup {j} ELSE accepted
    /\ UNCHANGED <<active, runner, current, callbacks, handed, joiner, raised>>

CancellingForgetsFinal ==
    LET o == Cancelled(active) IN
    IF qstate \in {"open", "closed"}
    THEN /\ qstate' = "cancelled"
         /\ active' = o.active /\ status' = o.status /\ callbacks' = o.callbacks
         /\ IF o.raised \/ qstate = "closed"
            THEN queue' = o.queue /\ unfinished' = o.unfinished
            ELSE queue' = Put(o.queue, Final) /\ unfinished' = o.unfinished + 1
         /\ raised' = (raised \/ o.raised)
    ELSE UNCHANGED <<qstate, queue, unfinished, active, status, callbacks, raised>>

\* cancel(): if the final job was in the queue it has been dequeued, so it is
\* enqueued anew.
Cancelling ==
    LET o == Cancelled(active) IN
    IF qstate \in {"open", "closed"}
    THEN /\ qstate' = "cancelled"
         /\ active' = o.active /\ status' = o.status /\ callbacks' = o.callbacks
         /\ IF o.raised
            THEN queue' = o.queue /\ unfinished' = o.unfinished
            ELSE queue' = Put(o.queue, Final) /\ unfinished' = o.unfinished + 1
         /\ raised' = (raised \/ o.raised)
    ELSE UNCHANGED <<qstate, queue, unfinished, active, status, callbacks, raised>>

\* handle_client cancels the queue when it knows the client's result.
Cancel ==
    /\ Free /\ qstate \in {"open", "closed"}
    /\ Cancelling
    /\ UNCHANGED <<runner, current, handed, joiner, accepted>>

Start ==
    /\ Free /\ runner = "none"
    /\ runner' = "idle"
    /\ UNCHANGED <<qstate, queue, unfinished, active, current, status, callbacks,
                   handed, joiner, accepted, raised>>

---------------------------------------------------------------------------
(* The runner                                                              *)

\* queue.get() returns.  Waiting for a relay task that has ended does not
\* suspend the runner.
RunnerGet ==
    LET j == Head(queue) IN
    /\ runner \in {"idle", "step"} /\ current = None /\ queue # <<>>
    /\ queue' = Tail(queue)
    /\ IF j = Final
       THEN /\ qstate' = "completed"
            /\ unfinished' = unfinished - 1
            /\ handed' = TRUE
            /\ runner' = "done"
            /\ UNCHANGED <<active, current, status>>
       ELSE /\ active' = j /\ current' = j
            /\ status' = [status EXCEPT ![j] = IF @ = "queued" THEN "running" ELSE @]
            /\ runner' = IF status[j] \in Ended THEN "step" ELSE "await"
            /\ UNCHANGED <<qstate, unfinished, handed>>
    /\ UNCHANGED <<callbacks, joiner, accepted, raised>>

\* queue.get() suspends.
RunnerIdle ==
    /\ runner = "step" /\ current = None /\ queue = <<>>
    /\ runner' = "idle"
    /\ UNCHANGED <<qstate, queue, unfinished, active, current, status, callbacks,
                   handed, joiner, accepted, raised>>

Resumes == runner \in {"await", "step"} /\ current # None /\ status[current] \in Ended

\* The job has returned.
RunnerDone ==
    /\ Resumes /\ status[current] = "done"
    /\ runner' = "step" /\ current' = None /\ active' = None
    /\ unfinished' = unfinished - 1
    /\ UNCHANGED <<qstate, queue, status, callbacks, handed, joiner, accepted, raised>>

RunnerCancelledForgets ==
    /\ Resumes /\ status[current] = "cancelled"
    /\ runner' = "step" /\ current' = None /\ active' = None
    /\ UNCHANGED <<qstate, queue, unfinished, status, callbacks, handed, joiner,
                   accepted, raised>>

\* The job was cancelled.
RunnerCancelled ==
    /\ Resumes /\ status[current] = "cancelled"
    /\ runner' = "step" /\ current' = None /\ active' = None
    /\ callbacks' = callbacks \cup {current}
    /\ UNCHANGED <<qstate, queue, unfinished, status, handed, joiner, accepted, raised>>

\* The job has raised: the runner cancels the queue and reports the exception.
\* If cancel() raises, the runner dies before it reports.
RunnerFailed ==
    LET o == Cancelled(None)
        first == qstate \in {"open", "closed"} IN
    /\ Resumes /\ status[current] = "failed"
    /\ active' = None /\ current' = None
    /\ IF first
       THEN qstate' = "cancelled" /\ status' = o.status
       ELSE UNCHANGED <<qstate, status>>
    /\ IF first /\ o.raised
       THEN /\ runner' = "died"
            /\ raised' = TRUE
            /\ queue' = o.queue /\ unfinished' = o.unfinished
            /\ callbacks' = o.callbacks
            /\ UNCHANGED handed
       ELSE /\ runner' = "step"
            /\ handed' = TRUE
            /\ callbacks' = (IF first THEN o.callbacks ELSE callbacks) \cup {current}
            /\ queue' = IF first THEN Put(o.queue, Final) ELSE queue
            /\ unfinished' = IF first THEN o.unfinished + 1 ELSE unfinished
            /\ UNCHANGED raised
    /\ UNCHANGED <<joiner, accepted>>

---------------------------------------------------------------------------
(* The jobs                                                                *)

JobEnds(j, s) ==
    /\ Free
    /\ status' = [status EXCEPT ![j] = s]
    /\ UNCHANGED <<active, runner, current, callbacks, handed, joiner, accepted, raised>>

JobReturns(j) ==
    /\ status[j] = "running"
    /\ JobEnds(j, "done")
    /\ UNCHANGED <<qstate, queue, unfinished>>

\* A message of the server cannot be packed; a relayed message is packed already.
JobFails(j) ==
    /\ j \in Coroutine /\ status[j] = "running"
    /\ JobEnds(j, "failed")
    /\ UNCHANGED <<qstate, queue, unfinished>>

\* send() finds the connection closed: it closes the queue and raises.
JobDisconnected(j) ==
    /\ status[j] = "running"
    /\ JobEnds(j, "failed")
    /\ Closing(<<>>)

\* CancelledError reaches the job.
JobCancelled(j) ==
    /\ status[j] = "cancelling"
    /\ JobEnds(j, "cancelled")
    /\ UNCHANGED <<qstate, queue, unfinished>>

\* relay_message gives up after RELAY_TIMEOUT, or its own client is leaving.
RelayGivesUp(j) ==
    /\ j \in RelayTask /\ status[j] = "running"
    /\ JobEnds(j, "cancelling")
    /\ UNCHANGED <<qstate, queue, unfinished>>

\* The done callback _job_done of a task.
JobDone(j) ==
    /\ Free /\ j \in callbacks /\ status[j] \in Ended
    /\ callbacks' = callbacks \ {j}
    /\ unfinished' = unfinished - 1
    /\ UNCHANGED <<qstate, queue, active, runner, current, status, handed, joiner,
                   accepted, raised>>

---------------------------------------------------------------------------
(* join(), called by ServerProtocol.handler with a timeout of 10 seconds   *)
(* once handle_client has cancelled the queue or has failed to start it.   *)

Join ==
    /\ Free /\ joiner = "no"
    /\ qstate \in {"cancelled", "completed"} \/ runner = "none"
    /\ joiner' = IF runner = "none" THEN "error" ELSE "waiting"
    /\ UNCHANGED <<qstate, queue, unfinished, active, runner, current, status,
                   callbacks, handed, accepted, raised>>

\* Both queue.join() and the runner are over; a dead runner makes join raise.
JoinEnds ==
    /\ joiner = "waiting"
    /\ \/ runner = "done" /\ unfinished = 0 /\ joiner' = "returned"
       \/ runner = "died" /\ joiner' = "raised"
    /\ UNCHANGED <<qstate, queue, unfinished, active, runner, current, status,
                   callbacks, handed, accepted, raised>>

\* What is ready to run has run: ten seconds are longer than that.
NothingReady ==
    /\ \A j \in Job : status[j] # "cancelling"
    /\ \A j \in callbacks : status[j] \notin Ended
    /\ runner = "await" => status[current] \notin Ended
    /\ runner = "idle" => queue = <<>>
    /\ runner = "done" => unfinished # 0

\* The timeout cancels queue.join() and the runner, which returns if it is in
\* queue.get() and passes the cancellation on to its job if it awaits one; then
\* join() calls _cancel.
JoinTimeout ==
    LET o == Cancelled(active) IN
    /\ Free /\ joiner = "waiting" /\ runner # "died" /\ NothingReady
    /\ joiner' = "timeout"
    /\ runner' = IF runner = "idle" THEN "done" ELSE runner
    /\ qstate' = AfterCancel
    /\ queue' = o.queue /\ active' = o.active
    /\ status' = [j \in Job |-> IF j = current /\ status[j] = "running"
                                THEN "cancelling" ELSE o.status[j]]
    /\ callbacks' = o.callbacks /\ unfinished' = o.unfinished
    /\ raised' = (raised \/ o.raised)
    /\ UNCHANGED <<current, handed, accepted>>

RunnerStep == RunnerGet \/ RunnerIdle \/ RunnerDone \/ RunnerCancelled \/ RunnerFailed

Next ==
    \/ Close \/ Cancel \/ Start \/ RunnerStep \/ Join \/ JoinEnds \/ JoinTimeout
    \/ \E j \in Job : \/ Enqueue(j) \/ CloseWith(j) \/ JobReturns(j) \/ JobFails(j)
                      \/ JobDisconnected(j) \/ JobCancelled(j) \/ RelayGivesUp(j)
                      \/ JobDone(j)

\* The event loop runs what is ready: the runner, the callbacks, a cancelled
\* job and join.  A job that is not cancelled may block for ever in its send.
Fairness ==
    /\ WF_vars(RunnerStep) /\ WF_vars(JoinEnds)
    /\ \A j \in Job : WF_vars(JobCancelled(j)) /\ WF_vars(JobDone(j))

Spec == Init /\ [][Next]_vars /\ Fairness

---------------------------------------------------------------------------
(* Properties                                                              *)

TypeOK ==
    /\ qstate \in {"open", "closed", "cancelled", "completed"}
    /\ queue \in Seq(Job \cup {Final})
    /\ unfinished \in Nat
    /\ active \in Job \cup {None} /\ current \in Job \cup {None}
    /\ runner \in Runner
    /\ status \in [Job -> Status]
    /\ callbacks \subseteq Job
    /\ handed \in BOOLEAN
    /\ joiner \in {"no", "error", "waiting", "returned", "raised", "timeout"}
    /\ accepted \subseteq Job
    /\ raised \in BOOLEAN

\* The counter that join waits for counts each job that is queued, in the
\* runner's hands or waiting for its callback, and nothing else: _job_done never
\* raises InternalError, and no job is waited for that nobody will mark as done.
\* A cancel that raises loses the job it raised for, and no more is claimed then
\* than that the counter is not too small.
Outstanding == Len(queue) + Cardinality(callbacks) + (IF current = None THEN 0 ELSE 1)
Accounting == /\ unfinished >= Outstanding
              /\ raised \/ unfinished = Outstanding

\* When join returns, every job that was accepted has run to its end, has failed
\* or has handled its cancellation: a disconnected message sent after join
\* comes after the send-error messages the jobs' sources enqueue.
JoinMeansProcessed ==
    joiner = "returned" => /\ queue = <<>>
                           /\ \A j \in accepted : status[j] \in Ended

\* Nothing is enqueued behind the final job, and the runner returns with an
\* empty queue unless the timeout of join ended it: no job is left behind.
NothingAfterFinal ==
    /\ \A i \in DOMAIN queue : queue[i] = Final => i = Len(queue)
    /\ runner = "done" /\ joiner # "timeout" => queue = <<>>

\* Once cancelled the queue starts no coroutine, unless cancel itself raised: no
\* message is sent and no close procedure begun for a client that is done.
NothingStartsAfterCancel ==
    [][\A j \in Coroutine :
           status[j] # "running" /\ status'[j] = "running"
           => qstate \in {"open", "closed"} \/ raised]_vars

\* A cancelled queue's runner stops and reports a result, whatever its jobs do.
CancelStopsRunner ==
    (qstate = "cancelled" /\ runner # "none")
        ~> ((runner = "done" /\ handed) \/ raised)

\* join returns in time.
JoinReturns == joiner = "waiting" ~> (joiner = "returned" \/ raised)

---------------------------------------------------------------------------
(* The queue is a mailbox of its jobs.                                     *)

\* The jobs that wait: the queue without the final job, which is its last one.
Waiting ==
    IF queue # <<>> /\ queue[Len(queue)] = Final
    THEN SubSeq(queue, 1, Len(queue) - 1) ELSE queue

Mode ==
    CASE qstate = "open" -> "open"
      [] qstate = "closed" -> "shut"
      [] OTHER -> IF raised THEN "broken" ELSE "cleared"

Box == INSTANCE Mailbox WITH Item <- Job, mode <- Mode, box <- Waiting,
                             hand <- current, put <- accepted

\* The jobs reach the runner one at a time and in the order in which they were
\* enqueued, each at most once; a closed queue takes none but the closing procedure; a
\* cancelled one gives none to the runner and has none left, unless cancel raised, and
\* even then those that are left come in order.
QueueOrder == Box!Spec

---------------------------------------------------------------------------
(* The inductive invariant.                                                *)

Queued(j) == \E i \in DOMAIN queue : queue[i] = j

\* The final job is the last one, and is there only once the queue has been closed.
FinalLast ==
    \A i \in DOMAIN queue : queue[i] = Final => i = Len(queue) /\ qstate # "open"

\* How far the runner, and with it join, has come.
Progress ==
    /\ runner \in {"none", "idle", "done", "died"} => current = None
    /\ runner = "done" /\ joiner # "timeout" => queue = <<>> /\ qstate = "completed"
    /\ joiner = "returned" => runner = "done"

\* A cancelled queue holds no job, unless cancelling it has raised.
Emptied ==
    qstate \notin {"open", "closed"} /\ ~raised => \A i \in DOMAIN queue : queue[i] = Final

\* A job is somewhere until it has ended, and whoever is somewhere is not new.
Traced ==
    /\ \A j \in accepted :
           Queued(j) \/ j = current \/ j \in callbacks \/ status[j] \in Ended
    /\ \A j \in Job : Queued(j) \/ j = current \/ j \in callbacks => status[j] # "new"

\* A job is in one place.
Distinct ==
    /\ \A i, k \in DOMAIN queue : queue[i] = queue[k] => i = k
    /\ \A i \in DOMAIN queue : queue[i] \notin callbacks /\ queue[i] # current
    /\ current \notin callbacks

\* What join has waited for.
JoinedAtZero == joiner = "returned" => unfinished = 0

\* The active job is the one that the runner waits for, and a cancelled queue has
\* forgotten it.
ActiveInv ==
    /\ active \in {None, current}
    /\ qstate \notin {"open", "closed"} /\ ~raised => active = None

QInv == /\ TypeOK /\ FinalLast /\ Progress /\ Emptied /\ Traced /\ Accounting
        /\ raised \/ Distinct

---------------------------------------------------------------------------
(* What the program says of itself and does not keep.                      *)

\* class JobQueue: "When cancelled, all pending jobs will be cancelled and the
\* runner will be stopped."
CancelledMeansCancelled ==
    [][\A j \in Coroutine :
           status[j] # "running" /\ status'[j] = "running"
           => qstate \in {"open", "closed"}]_vars

\* class JobQueue: "An ordered queue of jobs", processed "one by one".  A relay
\* task is sent while jobs in front of it still wait.
ProcessedInOrder ==
    \A i, k \in DOMAIN queue :
        i < k /\ queue[i] \in Coroutine => queue[k] = Final \/ status[queue[k]] # "done"

=============================================================================

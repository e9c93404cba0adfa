----------------------------- MODULE TaskGroup ------------------------------
(***************************************************************************)
(* What the tasks of a client promise to the handler that waits for them,  *)
(* without futures and callbacks: they have one outcome, which settles     *)
(* once.  They work only as long as there is none, and the handler that    *)
(* has waited for the outcome goes on when it is there and no task runs    *)
(* any more.                                                               *)
(***************************************************************************)

VARIABLES
    outcome,    \* "none", "pending" until the connection is lost, or "final"
    work,       \* "none", "working", or "stopping": told to stop and not over yet
    lost,       \* the connection is lost
    waiter      \* the handler: "before" it waits, "waits", "on"

vars == <<outcome, work, lost, waiter>>

Init ==
    /\ outcome = "none"
    /\ work = "none"
    /\ lost = FALSE
    /\ waiter = "before"

\* The handler starts the tasks, unless there is an outcome, and waits.  The
\* failure of what it has done before may be the outcome.
Begin ==
    /\ waiter = "before"
    /\ \/ UNCHANGED outcome
       \/ outcome = "none" /\ outcome' = "final"
    /\ \/ work' = "none"
       \/ outcome' = "none" /\ work' = "working"
    /\ \/ waiter' = "waits"
       \/ outcome' = "final" /\ waiter' = "on"
    /\ UNCHANGED lost

\* The handler does without the tasks: it fails before it starts them.
Abandon ==
    /\ waiter = "before"
    /\ waiter' = "on"
    /\ UNCHANGED <<outcome, work, lost>>

\* A task has failed, or somebody else ends the client.
Settle ==
    /\ outcome = "none"
    /\ outcome' \in {"pending", "final"}
    /\ work' \in {"none", IF work = "working" THEN "stopping" ELSE work}
    /\ UNCHANGED <<lost, waiter>>

\* The last task is over.
Finish ==
    /\ work # "none"
    /\ work' = "none"
    /\ UNCHANGED <<outcome, lost, waiter>>

\* A pending outcome becomes final, at once or later.
Lose ==
    /\ lost' = TRUE
    /\ outcome' \in {outcome, IF outcome = "pending" THEN "final" ELSE outcome}
    /\ UNCHANGED <<work, waiter>>

Resume ==
    /\ waiter = "waits" /\ outcome = "final" /\ work = "none"
    /\ waiter' = "on"
    /\ UNCHANGED <<outcome, work, lost>>

Next == Begin \/ Abandon \/ Settle \/ Finish \/ Lose \/ Resume

Spec == Init /\ [][Next]_vars

=============================================================================

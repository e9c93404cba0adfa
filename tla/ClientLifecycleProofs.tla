----------------------- MODULE ClientLifecycleProofs ------------------------
(***************************************************************************)
(* Proofs about JobQueue, for any finite number of coroutines and relay    *)
(* tasks, whether or not cancelling raises: the counter that join waits    *)
(* for, what may stand in the queue, and what may start after cancel.      *)
(* Nothing in this part uses the client or the assumption about its        *)
(* closing procedure.                                                      *)
(*                                                                         *)
(* The first lemmas say what _cancel does to the queue and to the counter; *)
(* then one lemma per group of actions shows that QInv is kept.            *)
(*                                                                         *)
(* Then proofs about ClientLifecycle.  Every step of the client is one of  *)
(* its queue, which may be started in the same step, so that the invariant *)
(* of the queue holds for the client; what the client adds is proved of    *)
(* the moves of the queue and of the phases of the handler separately.     *)
(***************************************************************************)
EXTENDS ClientLifecycle, FiniteSetTheorems, SequenceTheorems, TLAPS

Hands == IF current = None THEN 0 ELSE 1

---------------------------------------------------------------------------
(* Counting.                                                               *)

\* A downward closed part of 1 .. n is 1 .. m.
LEMMA Prefix ==
    ASSUME NEW n \in Nat, NEW S \in SUBSET (1 .. n),
           \A i \in S : \A k \in 1 .. i : k \in S
    PROVE  Cardinality(S) \in 0 .. n /\ S = 1 .. Cardinality(S)
  <1> DEFINE m == Cardinality(S)
  <1>1. IsFiniteSet(1 .. n) /\ Cardinality(1 .. n) = n
    BY FS_Interval
  <1>2. m \in Nat /\ m <= n /\ IsFiniteSet(S)
    <2>1. IsFiniteSet(S) /\ Cardinality(S) <= Cardinality(1 .. n)
      BY <1>1, FS_Subset, Zenon
    <2>2. m \in Nat
      BY <2>1, FS_CardinalityType, Zenon
    <2> QED BY <1>1, <2>1, <2>2
  <1>3. ASSUME NEW i \in S PROVE i <= m
    <2>1. 1 .. i \in SUBSET S /\ i \in Nat
      OBVIOUS
    <2>2. Cardinality(1 .. i) = i
      BY <2>1, FS_Interval
    <2>3. Cardinality(1 .. i) <= m
      BY <1>2, <2>1, FS_Subset, Zenon
    <2> QED BY <2>2, <2>3
  <1>4. ASSUME NEW i \in 1 .. m, i \notin S PROVE FALSE
    <2>1. i \in Nat /\ i >= 1
      BY <1>2
    <2>2. ASSUME NEW k \in S PROVE k < i
      <3>1. k \in Nat /\ (k >= i => i \in 1 .. k)
        BY <2>1
      <3> QED BY <1>4, <2>1, <3>1
    <2>3. S \in SUBSET (1 .. (i - 1))
      BY <2>1, <2>2
    <2>4. IsFiniteSet(1 .. (i - 1)) /\ Cardinality(1 .. (i - 1)) = i - 1
      BY <2>1, FS_Interval
    <2>5. m <= Cardinality(1 .. (i - 1))
      BY <2>3, <2>4, FS_Subset, Zenon
    <2> QED BY <1>2, <1>4, <2>4, <2>5
  <1>5. S \subseteq 1 .. m
    BY <1>2, <1>3
  <1>6. 1 .. m \subseteq S
    BY <1>4
  <1>7. m \in 0 .. n
    BY <1>2
  <1>8. S = 1 .. m
    BY <1>5, <1>6, Zenon
  <1> QED BY <1>7, <1>8

\* The jobs at some places of the queue are not more than these places, and as many if
\* none is there twice.
LEMMA Members ==
    ASSUME NEW n \in Nat, NEW S \in SUBSET (1 .. n), NEW T, T = {queue[i] : i \in S}
    PROVE  /\ IsFiniteSet(S) /\ IsFiniteSet(T)
           /\ Cardinality(T) <= Cardinality(S)
           /\ (\A i, k \in S : queue[i] = queue[k] => i = k) => Cardinality(T) = Cardinality(S)
  <1> DEFINE g == [i \in S |-> queue[i]]
  <1>1. IsFiniteSet(S)
    <2>1. IsFiniteSet(1 .. n)
      BY FS_Interval
    <2> QED BY <2>1, FS_Subset, Zenon
  <1>2. g \in Surjection(S, T)
    BY DEF Surjection
  <1>3. (\A i, k \in S : queue[i] = queue[k] => i = k) => g \in Injection(S, T)
    BY DEF Injection, IsInjective
  <1> HIDE DEF g
  <1>4. /\ IsFiniteSet(T)
        /\ Cardinality(T) <= Cardinality(S)
        /\ Cardinality(T) = Cardinality(S) <=> g \in Injection(S, T)
    BY <1>1, <1>2, FS_Surjection, Zenon
  <1> QED BY <1>1, <1>3, <1>4, Zenon

\* A sequence without its first m members.
LEMMA Suffix ==
    ASSUME NEW T, NEW q \in Seq(T), NEW m \in 0 .. Len(q)
    PROVE  LET s == SubSeq(q, m + 1, Len(q)) IN
           /\ s \in Seq(T) /\ Len(s) = Len(q) - m
           /\ \A i \in 1 .. (Len(q) - m) : s[i] = q[i + m]
  <1>1. m + 1 \in 1 .. (Len(q) + 1) /\ Len(q) \in 0 .. Len(q)
    BY LenProperties
  <1> QED BY <1>1, SubSeqProperties

---------------------------------------------------------------------------
(* What _cancel does while a is the active job.                            *)

\* It takes a front part of the queue, the whole of it unless it raises.
LEMMA CancelTakes ==
    ASSUME TypeOK, NEW a
    PROVE  \E m \in 0 .. Len(queue) :
               /\ Reached(a) = 1 .. m
               /\ Cancelled(a).queue \in Seq(Job \cup {Final})
               /\ Len(Cancelled(a).queue) = Len(queue) - m
               /\ \A i \in 1 .. (Len(queue) - m) : Cancelled(a).queue[i] = queue[i + m]
               /\ ~Cancelled(a).raised => m = Len(queue)
  <1> DEFINE n == Len(queue)
             m == Cardinality(Reached(a))
  <1>1. n \in Nat /\ DOMAIN queue = 1 .. n /\ queue \in Seq(Job \cup {Final})
    BY DEF TypeOK
  <1>2. Reached(a) \in SUBSET (1 .. n) /\ FailedAt \in SUBSET (1 .. n)
    BY <1>1 DEF Reached, FailedAt
  <1>3. ASSUME NEW i \in Reached(a), NEW k \in 1 .. i PROVE k \in Reached(a)
    BY <1>1, <1>2 DEF Reached
  <1>4. m \in 0 .. n /\ Reached(a) = 1 .. m
    BY <1>1, <1>2, <1>3, Prefix
  <1>5. Cancelled(a).queue = SubSeq(queue, m + 1, n)
    BY DEF Cancelled
  <1>6. ASSUME ~Cancelled(a).raised PROVE m = n
    <2>1. ~Failed(a) /\ FailedAt = {}
      BY <1>6 DEF Cancelled
    <2>2. Reached(a) = 1 .. n
      BY <1>1, <2>1 DEF Reached
    <2> QED BY <1>1, <1>4, <2>2
  <1> HIDE DEF m
  <1>7. /\ SubSeq(queue, m + 1, n) \in Seq(Job \cup {Final})
        /\ Len(SubSeq(queue, m + 1, n)) = n - m
        /\ \A i \in 1 .. (n - m) : SubSeq(queue, m + 1, n)[i] = queue[i + m]
    BY <1>1, <1>4, Suffix
  <1>8. m \in 0 .. n
    BY <1>4
  <1> WITNESS m \in 0 .. Len(queue)
  <1> QED BY <1>4, <1>5, <1>6, <1>7

\* No job becomes new or begins to run, one that has ended stays so, and what is
\* taken from the queue has ended or will be called back.
LEMMA CancelJobs ==
    ASSUME TypeOK, NEW a, NEW o, o = Cancelled(a)
    PROVE  /\ o.status \in [Job -> Status]
           /\ \A j \in Job : /\ status[j] # "new" => o.status[j] # "new"
                             /\ status[j] \in Ended => o.status[j] \in Ended
                             /\ o.status[j] = "running" => status[j] = "running"
           /\ callbacks \subseteq o.callbacks /\ o.callbacks \subseteq Job
           /\ \A j \in o.callbacks : j \in callbacks \/ Queued(j)
           /\ \A i \in Reached(a) :
                  queue[i] = Final \/ queue[i] \in o.callbacks \/ o.status[queue[i]] \in Ended
           /\ o.raised \in BOOLEAN
  <1> DEFINE st == [j \in Job |->
                       IF j \in Drained(a) \cap Coroutine THEN "closed"
                       ELSE IF j \in Drained(a) \cup {a} /\ status[j] = "running"
                       THEN "cancelling" ELSE status[j]]
  <1>1. o.status = st /\ o.callbacks = callbacks \cup CallBack(a)
        /\ o.raised = (Failed(a) \/ FailedAt # {})
    BY DEF Cancelled
  <1>2. DOMAIN queue = 1 .. Len(queue) /\ \A i \in DOMAIN queue : queue[i] \in Job \cup {Final}
    BY DEF TypeOK
  <1>3. /\ st \in [Job -> Status]
        /\ \A j \in Job : /\ status[j] # "new" => st[j] # "new"
                          /\ status[j] \in Ended => st[j] \in Ended
                          /\ st[j] = "running" => status[j] = "running"
    BY DEF TypeOK, Status, Ended
  <1>4. CallBack(a) \subseteq Job /\ \A j \in CallBack(a) : Queued(j)
    BY DEF CallBack, Drained, Reached, Queued, Job
  <1>5. ASSUME NEW i \in Reached(a), queue[i] # Final
        PROVE  queue[i] \in CallBack(a) \/ st[queue[i]] \in Ended
    <2>1. queue[i] \in Job
      BY <1>2, <1>5 DEF Reached
    <2>2. CASE i \in FailedAt
      BY <1>3, <2>1, <2>2 DEF FailedAt, Failed, Ended
    <2>3. CASE i \notin FailedAt
      BY <1>5, <2>1, <2>3 DEF CallBack, Drained, Job, Ended
    <2> QED BY <2>2, <2>3
  <1> HIDE DEF st
  <1> QED BY <1>1, <1>3, <1>4, <1>5 DEF TypeOK

\* The callbacks can be counted.
LEMMA CallbacksCounted ==
    ASSUME TypeOK
    PROVE  IsFiniteSet(callbacks) /\ Cardinality(callbacks) \in Nat
  <1>1. callbacks \in SUBSET Job /\ IsFiniteSet(Job)
    BY JobsAssumption DEF TypeOK
  <1>2. IsFiniteSet(callbacks)
    BY <1>1, FS_Subset, Zenon
  <1> QED BY <1>2, FS_CardinalityType, Zenon

\* The counter goes down by what is marked as done at once, so that it still counts
\* what is left, and exactly so if cancelling does not raise.
LEMMA CancelCounts ==
    ASSUME TypeOK, FinalLast, Accounting, raised \/ Distinct, NEW a, NEW o, o = Cancelled(a)
    PROVE  /\ o.unfinished \in Int
           /\ IsFiniteSet(o.callbacks)
           /\ o.unfinished >= Len(o.queue) + Cardinality(o.callbacks) + Hands
           /\ raised \/ o.raised
              \/ o.unfinished = Len(o.queue) + Cardinality(o.callbacks) + Hands
  <1>0. PICK m \in 0 .. Len(queue) :
            /\ Reached(a) = 1 .. m
            /\ Len(o.queue) = Len(queue) - m
            /\ ~o.raised => m = Len(queue)
    BY CancelTakes, Zenon
  <1>1. Reached(a) = 1 .. m /\ m \in 0 .. Len(queue) /\ (~o.raised => m = Len(queue))
    BY <1>0, Zenon
  <1>2. Len(queue) \in Nat /\ DOMAIN queue = 1 .. Len(queue) /\ unfinished \in Nat
    BY DEF TypeOK
  <1>3. IsFiniteSet(callbacks) /\ Cardinality(callbacks) \in Nat
    BY CallbacksCounted
  <1>4. /\ (Reached(a) \ FailedAt) \in SUBSET (1 .. Len(queue))
        /\ Drained(a) = {queue[i] : i \in Reached(a) \ FailedAt}
    <2>1. ASSUME NEW i \in Reached(a) \ FailedAt PROVE i \in 1 .. Len(queue)
      BY <1>2 DEF Reached
    <2> QED BY <2>1, Zenon DEF Drained
  <1>5. /\ IsFiniteSet(Reached(a) \ FailedAt)
        /\ IsFiniteSet(Drained(a))
        /\ Cardinality(Drained(a)) <= Cardinality(Reached(a) \ FailedAt)
        /\ (\A i, k \in Reached(a) \ FailedAt : queue[i] = queue[k] => i = k)
           => Cardinality(Drained(a)) = Cardinality(Reached(a) \ FailedAt)
    <2> DEFINE S == Reached(a) \ FailedAt
    <2>1. S \in SUBSET (1 .. Len(queue)) /\ Drained(a) = {queue[i] : i \in S}
      BY <1>4
    <2> HIDE DEF S
    <2>2. /\ IsFiniteSet(S)
          /\ IsFiniteSet(Drained(a))
          /\ Cardinality(Drained(a)) <= Cardinality(S)
          /\ (\A i, k \in S : queue[i] = queue[k] => i = k)
             => Cardinality(Drained(a)) = Cardinality(S)
      BY <1>2, <2>1, Members, Zenon
    <2> QED BY <2>2 DEF S
  <1>6. IsFiniteSet(Reached(a)) /\ Cardinality(Reached(a)) = m
    <2>1. m \in Nat
      BY <1>2
    <2>2. IsFiniteSet(1 .. m) /\ Cardinality(1 .. m) = m
      BY <2>1, FS_Interval
    <2> QED BY <1>1, <2>2, Zenon
  <1>7. Cardinality(Reached(a) \ FailedAt) <= m
    <2>1. (Reached(a) \ FailedAt) \in SUBSET Reached(a)
      OBVIOUS
    <2>2. Cardinality(Reached(a) \ FailedAt) <= Cardinality(Reached(a))
      BY <1>6, <2>1, FS_Subset, Zenon
    <2> QED BY <1>6, <2>2
  <1>8. /\ IsFiniteSet(CallBack(a)) /\ IsFiniteSet(DoneAtOnce(a))
        /\ Cardinality(CallBack(a)) \in Nat /\ Cardinality(DoneAtOnce(a)) \in Nat
    <2>1. CallBack(a) \in SUBSET Drained(a) /\ DoneAtOnce(a) \in SUBSET Drained(a)
      BY DEF CallBack, DoneAtOnce
    <2>2. IsFiniteSet(CallBack(a)) /\ IsFiniteSet(DoneAtOnce(a))
      BY <1>5, <2>1, FS_Subset, Zenon
    <2> QED BY <2>2, FS_CardinalityType, Zenon
  <1>9. Cardinality(Drained(a)) = Cardinality(CallBack(a)) + Cardinality(DoneAtOnce(a))
    <2>1. Drained(a) = CallBack(a) \cup DoneAtOnce(a) /\ CallBack(a) \cap DoneAtOnce(a) = {}
      BY DEF CallBack, DoneAtOnce
    <2>2. Cardinality(CallBack(a) \cap DoneAtOnce(a)) = 0
      BY <2>1, FS_EmptySet
    <2>3. Cardinality(Drained(a)) = Cardinality(CallBack(a)) + Cardinality(DoneAtOnce(a))
              - Cardinality(CallBack(a) \cap DoneAtOnce(a))
      BY <1>8, <2>1, FS_Union, Zenon
    <2> QED BY <1>8, <2>2, <2>3
  <1>10. /\ IsFiniteSet(callbacks \cup CallBack(a))
         /\ Cardinality(callbacks \cup CallBack(a))
               = Cardinality(callbacks) + Cardinality(CallBack(a))
                 - Cardinality(callbacks \cap CallBack(a))
         /\ Cardinality(callbacks \cap CallBack(a)) \in Nat
    <2>1. IsFiniteSet(callbacks \cap CallBack(a))
      BY <1>3, FS_Intersection, Zenon
    <2> QED BY <1>3, <1>8, <2>1, FS_Union, FS_CardinalityType, Zenon
  <1>11. /\ o.callbacks = callbacks \cup CallBack(a)
         /\ o.unfinished = unfinished - Cardinality(DoneAtOnce(a))
         /\ ~o.raised => FailedAt = {}
    BY DEF Cancelled
  <1>12. ASSUME ~raised, ~o.raised
         PROVE  /\ Cardinality(Drained(a)) = m
                /\ Cardinality(callbacks \cap CallBack(a)) = 0
    <2>1. Reached(a) \ FailedAt = Reached(a)
      BY <1>11, <1>12
    <2>2. \A i, k \in Reached(a) : queue[i] = queue[k] => i = k
      BY <1>1, <1>2, <1>12 DEF Distinct
    <2>3. \A i \in Reached(a) : queue[i] \notin callbacks
      BY <1>1, <1>2, <1>12 DEF Distinct
    <2>4. callbacks \cap CallBack(a) = {}
      <3>1. ASSUME NEW j \in callbacks PROVE j \notin Drained(a)
        BY <1>4, <2>3, <3>1
      <3> QED BY <3>1 DEF CallBack
    <2>5. Cardinality(Drained(a)) = Cardinality(Reached(a))
      BY <1>5, <2>1, <2>2, Zenon
    <2> QED BY <1>6, <2>4, <2>5, FS_EmptySet
  <1>13. /\ Hands \in {0, 1}
         /\ unfinished >= Len(queue) + Cardinality(callbacks) + Hands
         /\ raised \/ unfinished = Len(queue) + Cardinality(callbacks) + Hands
    BY DEF Accounting, Outstanding, Hands
  <1>14. Cardinality(Drained(a)) <= m
    <2>1. Cardinality(Drained(a)) \in Nat /\ Cardinality(Reached(a) \ FailedAt) \in Nat
      BY <1>5, FS_CardinalityType, Zenon
    <2>2. Cardinality(Drained(a)) <= Cardinality(Reached(a) \ FailedAt)
      BY <1>5
    <2> QED BY <1>7, <2>1, <2>2
  <1> DEFINE d == Cardinality(DoneAtOnce(a))
             b == Cardinality(CallBack(a))
             e == Cardinality(callbacks \cap CallBack(a))
             k == Cardinality(callbacks)
  <1>15. /\ d \in Nat /\ b \in Nat /\ e \in Nat /\ k \in Nat /\ Len(queue) \in Nat
         /\ unfinished \in Nat /\ m \in Int /\ d + b <= m
    <2>1. d \in Nat /\ b \in Nat /\ e \in Nat /\ k \in Nat /\ Len(queue) \in Nat
          /\ unfinished \in Nat /\ m \in Int
      BY <1>2, <1>3, <1>8, <1>10
    <2> QED BY <1>9, <1>14, <2>1
  <1>16. /\ Cardinality(o.callbacks) = k + b - e /\ IsFiniteSet(o.callbacks)
         /\ o.unfinished = unfinished - d /\ Len(o.queue) = Len(queue) - m
    BY <1>0, <1>10, <1>11, Zenon
  <1>17. raised \/ o.raised \/ (d + b = m /\ e = 0)
    BY <1>9, <1>12, <1>15
  <1>18. /\ unfinished >= Len(queue) + k + Hands
         /\ raised \/ unfinished = Len(queue) + k + Hands
    BY <1>13
  <1> HIDE DEF d, b, e, k
  <1>19. o.unfinished \in Int /\ Hands \in Int
    BY <1>13, <1>15, <1>16
  <1>20. o.unfinished >= Len(o.queue) + Cardinality(o.callbacks) + Hands
    BY <1>15, <1>16, <1>18, <1>19
  <1>21. raised \/ o.raised \/ o.unfinished = Len(o.queue) + Cardinality(o.callbacks) + Hands
    BY <1>15, <1>16, <1>17, <1>18, <1>19
  <1> QED BY <1>16, <1>19, <1>20, <1>21

---------------------------------------------------------------------------
(* The inductive invariant.                                                *)

\* The queue is new.
LEMMA QueueInit == Init => QInv
  <1> SUFFICES ASSUME Init PROVE QInv
    OBVIOUS
  <1>1. TypeOK
    <2>1. queue \in Seq(Job \cup {Final}) /\ unfinished \in Nat
      BY EmptySeq DEF Init
    <2>2. status \in [Job -> Status]
      BY DEF Init, Status
    <2> QED BY <2>1, <2>2 DEF Init, TypeOK, Runner
  <1>2. Accounting
    <2>1. Len(<<>>) = 0 /\ Cardinality({}) = 0
      BY FS_EmptySet
    <2> QED BY <2>1 DEF Init, Accounting, Outstanding
  <1>3. FinalLast /\ Progress /\ Emptied /\ Traced
    <2>1. DOMAIN queue = {}
      BY DEF Init
    <2> QED BY <2>1, JobsAssumption DEF Init, FinalLast, Progress, Emptied, Traced, Queued
  <1>4. Distinct
    BY DEF Init, Distinct
  <1> QED BY <1>1, <1>2, <1>3, <1>4 DEF QInv

\* The counter is a natural number if the rest has its type.
LEMMA CounterType ==
    ASSUME NEW q, NEW cb, NEW h \in {0, 1}, NEW u \in Int,
           q \in Seq(Job \cup {Final}), cb \subseteq Job,
           u >= Len(q) + Cardinality(cb) + h
    PROVE  u \in Nat
  <1>1. cb \in SUBSET Job /\ IsFiniteSet(Job)
    BY JobsAssumption
  <1>2. IsFiniteSet(cb)
    BY <1>1, FS_Subset, Zenon
  <1>3. Cardinality(cb) \in Nat
    BY <1>2, FS_CardinalityType, Zenon
  <1>4. Len(q) \in Nat
    OBVIOUS
  <1> QED BY <1>3, <1>4

\* Steps that leave the queue, its counter and the places of the jobs alone.
LEMMA QuietKeeps ==
    ASSUME QInv,
           \/ Start \/ RunnerIdle \/ Join \/ JoinEnds
           \/ \E j \in Job : JobReturns(j) \/ JobFails(j) \/ JobCancelled(j) \/ RelayGivesUp(j)
    PROVE  QInv'
  <1>1. UNCHANGED <<qstate, queue, unfinished, active, current, callbacks, accepted, raised>>
    BY DEF Start, RunnerIdle, Join, JoinEnds, JobReturns, JobFails, JobCancelled, RelayGivesUp,
           JobEnds
  <1>2. /\ status' \in [Job -> Status]
        /\ \A j \in Job : /\ status[j] # "new" => status'[j] # "new"
                          /\ status[j] \in Ended => status'[j] \in Ended
    BY DEF QInv, TypeOK, Start, RunnerIdle, Join, JoinEnds, JobReturns, JobFails, JobCancelled,
           RelayGivesUp, JobEnds, Status, Ended
  <1>3. runner' \in Runner /\ joiner' \in {"no", "error", "waiting", "returned", "raised", "timeout"}
        /\ handed' \in BOOLEAN /\ Progress'
    BY <1>1 DEF QInv, TypeOK, Progress, Start, RunnerIdle, Join, JoinEnds, JobReturns, JobFails,
                JobCancelled, RelayGivesUp, JobEnds, Runner
  <1>4. TypeOK'
    BY <1>1, <1>2, <1>3 DEF QInv, TypeOK
  <1>5. FinalLast' /\ Emptied' /\ Accounting' /\ (raised \/ Distinct)'
    BY <1>1 DEF QInv, FinalLast, Emptied, Accounting, Outstanding, Distinct
  <1>6. Traced'
    BY <1>1, <1>2 DEF QInv, TypeOK, Traced, Queued
  <1> QED BY <1>3, <1>4, <1>5, <1>6 DEF QInv

\* A job that is new is nowhere.
LEMMA NewIsNowhere ==
    ASSUME QInv, NEW j \in Job, status[j] = "new"
    PROVE  j # Final /\ j # None /\ j # current /\ j \notin callbacks /\ ~Queued(j)
  BY JobsAssumption DEF QInv, Traced

\* One more at the end of the queue.
LEMMA Longer ==
    ASSUME NEW T, NEW q \in Seq(T), NEW e \in T, NEW r, r = Append(q, e)
    PROVE  /\ r \in Seq(T) /\ Len(r) = Len(q) + 1 /\ Len(q) \in Nat
           /\ DOMAIN q = 1 .. Len(q) /\ DOMAIN r = 1 .. Len(q) + 1
           /\ r[Len(q) + 1] = e /\ \A i \in 1 .. Len(q) : r[i] = q[i]
  BY AppendProperties, LenProperties

\* An open queue takes the job, another one gets rid of it.
LEMMA EnqueueKeeps ==
    ASSUME QInv, NEW j \in Job, Enqueue(j)
    PROVE  QInv'
  <1>1. /\ UNCHANGED <<qstate, active, runner, current, callbacks, handed, joiner, raised>>
        /\ status' \in [Job -> Status]
        /\ status[j] = "new" /\ status'[j] # "new"
        /\ \A k \in Job : k # j => status'[k] = status[k]
        /\ qstate # "open" => status'[j] \in {"closed", "cancelling"}
    BY DEF QInv, TypeOK, Enqueue, Status, Ended
  <1>2. j # Final /\ j # None /\ j # current /\ j \notin callbacks /\ ~Queued(j)
    BY <1>1, NewIsNowhere
  <1>3. CASE qstate # "open"
    <2>1. UNCHANGED <<queue, unfinished, accepted>>
      BY <1>3 DEF Enqueue
    <2>2. TypeOK'
      BY <1>1, <2>1 DEF QInv, TypeOK
    <2>3. FinalLast' /\ Progress' /\ Emptied' /\ Accounting' /\ (raised \/ Distinct)'
      BY <1>1, <2>1 DEF QInv, FinalLast, Progress, Emptied, Accounting, Outstanding, Distinct
    <2>4. Traced'
      <3>1. ASSUME NEW k \in accepted
            PROVE  Queued(k) \/ k = current \/ k \in callbacks \/ status'[k] \in Ended
        <4>1. k \in Job
          BY DEF QInv, TypeOK
        <4> QED BY <1>1, <1>2, <4>1 DEF QInv, Traced, Ended
      <3> QED BY <1>1, <2>1, <3>1 DEF QInv, TypeOK, Traced, Queued
    <2> QED BY <2>2, <2>3, <2>4 DEF QInv
  <1>4. CASE qstate = "open"
    <2>1. /\ queue' = Append(queue, j) /\ unfinished' = unfinished + 1
          /\ accepted' = accepted \cup {j}
      BY <1>4 DEF Enqueue, Put
    <2>2. /\ queue' \in Seq(Job \cup {Final}) /\ Len(queue') = Len(queue) + 1
          /\ Len(queue) \in Nat /\ DOMAIN queue = 1 .. Len(queue)
          /\ DOMAIN queue' = 1 .. Len(queue) + 1
          /\ queue'[Len(queue) + 1] = j
          /\ \A i \in 1 .. Len(queue) : queue'[i] = queue[i]
      BY <2>1, Longer DEF QInv, TypeOK
    <2>3. TypeOK'
      BY <1>1, <2>1, <2>2 DEF QInv, TypeOK
    <2>4. FinalLast'
      BY <1>1, <1>2, <1>4, <2>2 DEF QInv, FinalLast
    <2>5. Progress' /\ Emptied'
      BY <1>1, <1>4, <2>2 DEF QInv, Progress, Emptied
    <2>6. Accounting'
      <3>1. Cardinality(callbacks) \in Nat /\ Hands \in {0, 1} /\ unfinished \in Nat
        BY CallbacksCounted DEF QInv, TypeOK, Hands
      <3>2. /\ Outstanding = Len(queue) + Cardinality(callbacks) + Hands
            /\ Outstanding' = Len(queue') + Cardinality(callbacks) + Hands
        BY <1>1 DEF Outstanding, Hands
      <3> QED BY <1>1, <2>1, <2>2, <3>1, <3>2 DEF QInv, Accounting
    <2>7. Traced'
      <3>1. \A k : Queued(k)' <=> Queued(k) \/ k = j
        BY <2>2 DEF Queued
      <3>2. \A k \in Job : Queued(k)' \/ k = current \/ k \in callbacks => status'[k] # "new"
        BY <1>1, <3>1 DEF QInv, Traced
      <3>3. ASSUME NEW k \in accepted'
            PROVE  Queued(k)' \/ k = current \/ k \in callbacks \/ status'[k] \in Ended
        <4>1. k \in Job
          BY <2>3 DEF TypeOK
        <4> QED BY <1>1, <2>1, <3>1, <4>1 DEF QInv, Traced
      <3> QED BY <1>1, <3>2, <3>3 DEF Traced
    <2>8. (raised \/ Distinct)'
      <3> SUFFICES ASSUME Distinct PROVE Distinct'
        BY <1>1 DEF QInv
      <3>1. \A i \in DOMAIN queue : queue[i] # j
        BY <1>2 DEF Queued
      <3> QED BY <1>1, <1>2, <2>2, <3>1 DEF Distinct
    <2> QED BY <2>3, <2>4, <2>5, <2>6, <2>7, <2>8 DEF QInv
  <1> QED BY <1>3, <1>4

\* What close puts into an open queue.
LEMMA ClosingShape ==
    ASSUME TypeOK, qstate = "open"
    PROVE  /\ Closing(<<>>) => /\ qstate' = "closed" /\ unfinished' = unfinished + 1
                              /\ queue' = Append(queue, Final)
           /\ \A j \in Job : Closing(<<j>>) =>
                  /\ qstate' = "closed" /\ unfinished' = unfinished + 2
                  /\ queue' = Append(Append(queue, j), Final)
  <1> DEFINE T == Job \cup {Final}
  <1>1. queue \in Seq(T) /\ Final \in T
    BY DEF TypeOK
  <1>2. queue \o <<>> \o <<Final>> = Append(queue, Final)
    BY <1>1, ConcatEmptySeq, AppendIsConcat
  <1>3. ASSUME NEW j \in Job PROVE queue \o <<j>> \o <<Final>> = Append(Append(queue, j), Final)
    <2>1. Append(queue, j) = queue \o <<j>> /\ Append(queue, j) \in Seq(T)
      BY <1>1, AppendIsConcat, AppendProperties
    <2> QED BY <1>1, <2>1, AppendIsConcat
  <1>4. Len(<<>>) = 0 /\ \A j : Len(<<j>>) = 1
    OBVIOUS
  <1>5. unfinished \in Nat
    BY DEF TypeOK
  <1> QED BY <1>2, <1>3, <1>4, <1>5 DEF Closing

\* The final job is put behind the others, once.
LEMMA CloseKeeps ==
    ASSUME QInv, Close \/ \E j \in Job : JobDisconnected(j)
    PROVE  QInv'
  <1>1. UNCHANGED <<active, runner, current, callbacks, handed, joiner, accepted, raised>>
    BY DEF Close, JobDisconnected, JobEnds
  <1>2. /\ status' \in [Job -> Status]
        /\ \A j \in Job : /\ status[j] # "new" => status'[j] # "new"
                          /\ status[j] \in Ended => status'[j] \in Ended
    BY DEF QInv, TypeOK, Close, JobDisconnected, JobEnds, Status, Ended
  <1>3. Closing(<<>>)
    BY DEF Close, JobDisconnected
  <1>4. CASE qstate # "open"
    <2>1. UNCHANGED <<qstate, queue, unfinished>>
      BY <1>3, <1>4 DEF Closing
    <2>2. TypeOK'
      BY <1>1, <1>2, <2>1 DEF QInv, TypeOK
    <2>3. FinalLast' /\ Progress' /\ Emptied' /\ Accounting' /\ (raised \/ Distinct)'
      BY <1>1, <2>1 DEF QInv, FinalLast, Progress, Emptied, Accounting, Outstanding, Distinct
    <2>4. Traced'
      BY <1>1, <1>2, <2>1 DEF QInv, TypeOK, Traced, Queued
    <2> QED BY <2>2, <2>3, <2>4 DEF QInv
  <1>5. CASE qstate = "open"
    <2>1. /\ qstate' = "closed" /\ unfinished' = unfinished + 1
          /\ queue' = Append(queue, Final)
      BY <1>3, <1>5, ClosingShape DEF QInv
    <2>2. /\ queue' \in Seq(Job \cup {Final}) /\ Len(queue') = Len(queue) + 1
          /\ Len(queue) \in Nat /\ DOMAIN queue = 1 .. Len(queue)
          /\ DOMAIN queue' = 1 .. Len(queue) + 1
          /\ queue'[Len(queue) + 1] = Final
          /\ \A i \in 1 .. Len(queue) : queue'[i] = queue[i]
      BY <2>1, Longer DEF QInv, TypeOK
    <2>3. TypeOK'
      BY <1>1, <1>2, <2>1, <2>2 DEF QInv, TypeOK
    <2>4. FinalLast'
      BY <1>5, <2>1, <2>2 DEF QInv, FinalLast
    <2>5. Progress' /\ Emptied'
      BY <1>1, <1>5, <2>1 DEF QInv, Progress, Emptied
    <2>6. Accounting'
      <3>1. Cardinality(callbacks) \in Nat /\ Hands \in {0, 1} /\ unfinished \in Nat
        BY CallbacksCounted DEF QInv, TypeOK, Hands
      <3>2. /\ Outstanding = Len(queue) + Cardinality(callbacks) + Hands
            /\ Outstanding' = Len(queue') + Cardinality(callbacks) + Hands
        BY <1>1 DEF Outstanding, Hands
      <3> QED BY <1>1, <2>1, <2>2, <3>1, <3>2 DEF QInv, Accounting
    <2>7. Traced'
      <3>1. \A k \in Job : Queued(k)' <=> Queued(k)
        BY <2>2, JobsAssumption DEF Queued
      <3> QED BY <1>1, <1>2, <3>1 DEF QInv, TypeOK, Traced
    <2>8. (raised \/ Distinct)'
      <3> SUFFICES ASSUME Distinct PROVE Distinct'
        BY <1>1 DEF QInv
      <3>1. Final \notin callbacks /\ Final # current
        BY JobsAssumption DEF QInv, TypeOK
      <3>2. \A i \in DOMAIN queue : queue[i] # Final
        BY <1>5 DEF QInv, FinalLast
      <3> QED BY <1>1, <2>2, <3>1, <3>2 DEF Distinct
    <2> QED BY <2>3, <2>4, <2>5, <2>6, <2>7, <2>8 DEF QInv
  <1> QED BY <1>4, <1>5

\* The closing procedure is put behind the others, and the final job behind it.
LEMMA CloseWithKeeps ==
    ASSUME QInv, NEW j \in Job, CloseWith(j)
    PROVE  QInv'
  <1>1. /\ UNCHANGED <<active, runner, current, callbacks, handed, joiner, raised>>
        /\ Closing(<<j>>)
        /\ status' \in [Job -> Status]
        /\ status[j] = "new" /\ status'[j] # "new"
        /\ \A k \in Job : k # j => status'[k] = status[k]
        /\ qstate # "open" => status'[j] = "closed" /\ accepted' = accepted
        /\ qstate = "open" => accepted' = accepted \cup {j}
    BY DEF QInv, TypeOK, CloseWith, Status, Ended
  <1>2. j # Final /\ j # None /\ j # current /\ j \notin callbacks /\ ~Queued(j)
    BY <1>1, NewIsNowhere
  <1>3. CASE qstate # "open"
    <2>1. UNCHANGED <<qstate, queue, unfinished, accepted>>
      BY <1>1, <1>3 DEF Closing
    <2>2. TypeOK'
      BY <1>1, <2>1 DEF QInv, TypeOK
    <2>3. FinalLast' /\ Progress' /\ Emptied' /\ Accounting' /\ (raised \/ Distinct)'
      BY <1>1, <2>1 DEF QInv, FinalLast, Progress, Emptied, Accounting, Outstanding, Distinct
    <2>4. Traced'
      <3>1. ASSUME NEW k \in accepted
            PROVE  Queued(k) \/ k = current \/ k \in callbacks \/ status'[k] \in Ended
        <4>1. k \in Job
          BY DEF QInv, TypeOK
        <4> QED BY <1>1, <1>2, <4>1 DEF QInv, Traced, Ended
      <3> QED BY <1>1, <2>1, <3>1 DEF QInv, TypeOK, Traced, Queued
    <2> QED BY <2>2, <2>3, <2>4 DEF QInv
  <1>4. CASE qstate = "open"
    <2> DEFINE mid == Append(queue, j)
    <2>1. /\ qstate' = "closed" /\ unfinished' = unfinished + 2
          /\ queue' = Append(mid, Final)
      BY <1>1, <1>4, ClosingShape DEF QInv
    <2>2. /\ mid \in Seq(Job \cup {Final}) /\ Len(mid) = Len(queue) + 1
          /\ Len(queue) \in Nat /\ DOMAIN queue = 1 .. Len(queue)
          /\ mid[Len(queue) + 1] = j
          /\ \A i \in 1 .. Len(queue) : mid[i] = queue[i]
      BY Longer DEF QInv, TypeOK
    <2> HIDE DEF mid
    <2>3. /\ queue' \in Seq(Job \cup {Final}) /\ Len(queue') = Len(mid) + 1
          /\ DOMAIN queue' = 1 .. Len(mid) + 1
          /\ queue'[Len(mid) + 1] = Final
          /\ \A i \in 1 .. Len(mid) : queue'[i] = mid[i]
      BY <2>1, <2>2, Longer
    <2>4. /\ Len(queue') = Len(queue) + 2 /\ DOMAIN queue' = 1 .. Len(queue) + 2
          /\ queue'[Len(queue) + 1] = j /\ queue'[Len(queue) + 2] = Final
          /\ \A i \in 1 .. Len(queue) : queue'[i] = queue[i]
      BY <2>2, <2>3
    <2>5. TypeOK'
      BY <1>1, <1>4, <2>1, <2>3 DEF QInv, TypeOK
    <2>6. FinalLast'
      BY <1>2, <1>4, <2>1, <2>2, <2>4 DEF QInv, FinalLast
    <2>7. Progress' /\ Emptied'
      BY <1>1, <1>4, <2>1 DEF QInv, Progress, Emptied
    <2>8. Accounting'
      <3>1. Cardinality(callbacks) \in Nat /\ Hands \in {0, 1} /\ unfinished \in Nat
        BY CallbacksCounted DEF QInv, TypeOK, Hands
      <3>2. /\ Outstanding = Len(queue) + Cardinality(callbacks) + Hands
            /\ Outstanding' = Len(queue') + Cardinality(callbacks) + Hands
        BY <1>1 DEF Outstanding, Hands
      <3>3. raised' = raised /\ unfinished' = unfinished + 2
        BY <1>1, <2>1
      <3>4. Outstanding' = Outstanding + 2 /\ Outstanding \in Nat
        BY <2>2, <2>4, <3>1, <3>2
      <3> QED BY <3>1, <3>3, <3>4 DEF QInv, Accounting
    <2>9. Traced'
      <3>1. \A k \in Job : Queued(k)' <=> Queued(k) \/ k = j
        BY <2>2, <2>4, JobsAssumption DEF Queued
      <3>2. \A k \in Job : Queued(k)' \/ k = current \/ k \in callbacks => status'[k] # "new"
        BY <1>1, <3>1 DEF QInv, Traced
      <3>3. ASSUME NEW k \in accepted'
            PROVE  Queued(k)' \/ k = current \/ k \in callbacks \/ status'[k] \in Ended
        <4>1. k \in Job
          BY <2>5 DEF TypeOK
        <4> QED BY <1>1, <1>4, <3>1, <4>1 DEF QInv, Traced
      <3> QED BY <1>1, <3>2, <3>3 DEF Traced
    <2>10. (raised \/ Distinct)'
      <3> SUFFICES ASSUME Distinct PROVE Distinct'
        BY <1>1 DEF QInv
      <3>1. Final \notin callbacks /\ Final # current
        BY JobsAssumption DEF QInv, TypeOK
      <3>2. \A i \in DOMAIN queue : queue[i] # Final /\ queue[i] # j
        BY <1>2, <1>4 DEF QInv, FinalLast, Queued
      <3> QED BY <1>1, <1>2, <2>2, <2>4, <3>1, <3>2 DEF Distinct
    <2> QED BY <2>5, <2>6, <2>7, <2>8, <2>9, <2>10 DEF QInv
  <1> QED BY <1>3, <1>4

\* The runner takes the first job, or ends with the final one.
LEMMA RunnerGetKeeps ==
    ASSUME QInv, RunnerGet
    PROVE  QInv'
  <1> DEFINE j == Head(queue)
             n == Len(queue)
  <1>1. /\ runner \in {"idle", "step"} /\ current = None /\ queue # <<>> /\ queue' = Tail(queue)
        /\ UNCHANGED <<callbacks, joiner, accepted, raised>>
    BY DEF RunnerGet
  <1>2. /\ n \in Nat \ {0} /\ DOMAIN queue = 1 .. n /\ j = queue[1]
        /\ queue' \in Seq(Job \cup {Final}) /\ Len(queue') = n - 1
        /\ DOMAIN queue' = 1 .. n - 1
        /\ \A i \in 1 .. n - 1 : queue'[i] = queue[i + 1]
    BY <1>1, HeadTailProperties, LenProperties, EmptySeq DEF QInv, TypeOK
  <1>3. Cardinality(callbacks) \in Nat /\ unfinished \in Nat
    BY CallbacksCounted DEF QInv, TypeOK
  <1>4. n \in Nat
    BY <1>2
  <1>5. /\ unfinished >= n + Cardinality(callbacks)
        /\ raised \/ unfinished = n + Cardinality(callbacks)
    BY <1>1, <1>2, <1>3 DEF QInv, Accounting, Outstanding
  <1>6. CASE j = Final
    <2>1. /\ qstate' = "completed" /\ unfinished' = unfinished - 1 /\ handed' = TRUE
          /\ runner' = "done" /\ UNCHANGED <<active, current, status>>
      BY <1>6 DEF RunnerGet
    <2>2. n = 1
      BY <1>2, <1>6 DEF QInv, FinalLast
    <2>3. queue' = <<>> /\ DOMAIN queue' = {}
      BY <1>2, <2>2, EmptySeq
    <2>4. Accounting'
      <3>1. Outstanding' = Len(queue') + Cardinality(callbacks)
        BY <1>1, <1>2, <1>3, <2>1 DEF Outstanding
      <3>2. Outstanding' = n - 1 + Cardinality(callbacks)
        BY <1>2, <3>1
      <3> HIDE DEF n
      <3>3. raised' = raised
        BY <1>1
      <3> QED BY <1>3, <1>4, <1>5, <2>1, <3>2, <3>3 DEF Accounting
    <2>5. TypeOK'
      BY <1>1, <1>2, <1>3, <1>5, <2>1, <2>2 DEF QInv, TypeOK, Runner
    <2>6. FinalLast' /\ Emptied' /\ Progress'
      BY <1>1, <2>1, <2>3 DEF QInv, FinalLast, Emptied, Progress
    <2>7. Traced'
      <3>1. \A k \in Job : ~Queued(k)
        BY <1>2, <1>6, <2>2, JobsAssumption DEF Queued
      <3>2. \A k \in Job : ~Queued(k)'
        BY <2>3 DEF Queued
      <3> QED BY <1>1, <2>1, <3>1, <3>2 DEF QInv, TypeOK, Traced
    <2>8. (raised \/ Distinct)'
      BY <1>1, <2>1, <2>3 DEF QInv, Distinct
    <2> QED BY <2>4, <2>5, <2>6, <2>7, <2>8 DEF QInv
  <1>7. CASE j # Final
    <2>1. /\ active' = j /\ current' = j
          /\ status' = [status EXCEPT ![j] = IF @ = "queued" THEN "running" ELSE @]
          /\ runner' = IF status[j] \in Ended THEN "step" ELSE "await"
          /\ UNCHANGED <<qstate, unfinished, handed>>
      BY <1>7 DEF RunnerGet
    <2>2. j \in Job /\ j # None /\ Queued(j)
      <3>1. queue[1] \in Job \cup {Final} /\ 1 \in DOMAIN queue
        BY <1>2 DEF QInv, TypeOK
      <3> QED BY <1>2, <1>7, <3>1, JobsAssumption DEF Queued
    <2> HIDE DEF j
    <2>3. /\ status' \in [Job -> Status]
          /\ \A k \in Job : /\ status[k] # "new" => status'[k] # "new"
                            /\ status[k] \in Ended => status'[k] \in Ended
      BY <2>1, <2>2 DEF QInv, TypeOK, Status, Ended
    <2>4. TypeOK'
      BY <1>1, <1>2, <2>1, <2>2, <2>3 DEF QInv, TypeOK, Runner
    <2>5. Accounting'
      <3>1. Outstanding' = Len(queue') + Cardinality(callbacks) + 1
        BY <1>1, <2>1, <2>2 DEF Outstanding
      <3>2. Outstanding' = n + Cardinality(callbacks)
        BY <1>2, <1>3, <3>1
      <3> HIDE DEF n
      <3>3. raised' = raised
        BY <1>1
      <3> QED BY <1>3, <1>4, <1>5, <2>1, <3>2, <3>3 DEF Accounting
    <2>6. FinalLast'
      BY <1>2, <2>1 DEF QInv, FinalLast
    <2>7. Emptied'
      BY <1>1, <1>2, <2>1 DEF QInv, Emptied
    <2>8. Progress'
      BY <1>1, <2>1 DEF QInv, Progress
    <2>9. Traced'
      <3>1. \A k \in Job : Queued(k)' => Queued(k)
        BY <1>2 DEF Queued
      <3>2. \A k \in Job : Queued(k) => Queued(k)' \/ k = j
        <4> SUFFICES ASSUME NEW i \in 1 .. n, i # 1
                     PROVE  \E m \in 1 .. n - 1 : queue'[m] = queue[i]
          BY <1>2 DEF Queued
        <4>1. i - 1 \in 1 .. n - 1 /\ queue'[i - 1] = queue[i]
          BY <1>2
        <4> QED BY <4>1
      <3>3. ASSUME NEW k \in accepted
            PROVE  Queued(k)' \/ k = current' \/ k \in callbacks \/ status'[k] \in Ended
        <4>1. k \in Job
          BY DEF QInv, TypeOK
        <4> QED BY <1>1, <2>1, <2>3, <3>2, <4>1, JobsAssumption DEF QInv, Traced
      <3>4. ASSUME NEW k \in Job, Queued(k)' \/ k = current' \/ k \in callbacks
            PROVE  status'[k] # "new"
        BY <2>1, <2>2, <2>3, <3>1, <3>4 DEF QInv, Traced
      <3> QED BY <1>1, <3>3, <3>4 DEF Traced
    <2>10. (raised \/ Distinct)'
      <3> SUFFICES ASSUME Distinct PROVE Distinct'
        BY <1>1 DEF QInv
      <3>1. j \notin callbacks
        BY <1>2 DEF Distinct
      <3>2. \A i \in 1 .. n - 1 : queue'[i] # j
        BY <1>2 DEF Distinct
      <3>3. \A i, k \in 1 .. n - 1 : queue'[i] = queue'[k] => i = k
        BY <1>2 DEF Distinct
      <3> QED BY <1>1, <1>2, <2>1, <3>1, <3>2, <3>3 DEF Distinct
    <2> QED BY <2>4, <2>5, <2>6, <2>7, <2>8, <2>9, <2>10 DEF QInv
  <1> QED BY <1>6, <1>7

\* The runner is through with its job.
LEMMA RunnerResumesKeeps ==
    ASSUME QInv, RunnerDone \/ RunnerCancelled
    PROVE  QInv'
  <1>1. /\ current \in Job /\ current # None /\ status[current] \in Ended
        /\ runner' = "step" /\ current' = None /\ active' = None
        /\ UNCHANGED <<qstate, queue, status, handed, joiner, accepted, raised>>
        /\ \/ unfinished' = unfinished - 1 /\ callbacks' = callbacks
           \/ unfinished' = unfinished /\ callbacks' = callbacks \cup {current}
    BY DEF QInv, TypeOK, RunnerDone, RunnerCancelled, Resumes
  <1>2. /\ IsFiniteSet(callbacks) /\ Cardinality(callbacks) \in Nat /\ unfinished \in Nat
        /\ Len(queue) \in Nat
    BY CallbacksCounted DEF QInv, TypeOK
  <1>3. Cardinality(callbacks \cup {current}) =
            IF current \in callbacks THEN Cardinality(callbacks) ELSE Cardinality(callbacks) + 1
    BY <1>2, FS_AddElement, Zenon
  <1>4. /\ unfinished >= Len(queue) + Cardinality(callbacks) + 1
        /\ raised \/ unfinished = Len(queue) + Cardinality(callbacks) + 1
    BY <1>1 DEF QInv, Accounting, Outstanding
  <1>5. Outstanding' = Len(queue) + Cardinality(callbacks')
    <2>1. Cardinality(callbacks') \in Nat
      <3>1. IsFiniteSet(callbacks \cup {current})
        BY <1>2, FS_AddElement, Zenon
      <3>2. IsFiniteSet(callbacks')
        BY <1>1, <1>2, <3>1
      <3> QED BY <3>2, FS_CardinalityType, Zenon
    <2>2. Outstanding' = Len(queue) + Cardinality(callbacks') + 0
      BY <1>1 DEF Outstanding
    <2> QED BY <1>2, <2>1, <2>2
  <1>6. Accounting'
    <2>1. raised \/ current \notin callbacks
      BY DEF QInv, Distinct
    <2>2. raised' = raised
      BY <1>1
    <2>3. CASE callbacks' = callbacks /\ unfinished' = unfinished - 1
      BY <1>2, <1>4, <1>5, <2>2, <2>3 DEF Accounting
    <2>4. CASE callbacks' = callbacks \cup {current} /\ unfinished' = unfinished
      BY <1>2, <1>3, <1>4, <1>5, <2>1, <2>2, <2>4 DEF Accounting
    <2> QED BY <1>1, <2>3, <2>4
  <1>7. TypeOK'
    BY <1>1, <1>2, <1>4 DEF QInv, TypeOK, Runner
  <1>8. FinalLast' /\ Emptied' /\ Progress'
    BY <1>1 DEF QInv, FinalLast, Emptied, Progress
  <1>9. Traced'
    BY <1>1, JobsAssumption DEF QInv, TypeOK, Traced, Queued
  <1>10. (raised \/ Distinct)'
    <2> SUFFICES ASSUME Distinct PROVE Distinct'
      BY <1>1 DEF QInv
    <2>1. None \notin callbacks /\ \A i \in DOMAIN queue : queue[i] # None
      BY JobsAssumption DEF QInv, TypeOK
    <2> QED BY <1>1, <2>1 DEF Distinct
  <1> QED BY <1>6, <1>7, <1>8, <1>9, <1>10 DEF QInv

\* A cancelled job is marked as done.
LEMMA JobDoneKeeps ==
    ASSUME QInv, NEW j \in Job, JobDone(j)
    PROVE  QInv'
  <1>1. /\ j \in callbacks /\ status[j] \in Ended /\ callbacks' = callbacks \ {j}
        /\ unfinished' = unfinished - 1
        /\ UNCHANGED <<qstate, queue, active, runner, current, status, handed, joiner,
                       accepted, raised>>
    BY DEF JobDone
  <1>2. /\ IsFiniteSet(callbacks) /\ Cardinality(callbacks) \in Nat /\ unfinished \in Nat
        /\ Len(queue) \in Nat /\ Hands \in {0, 1}
    BY CallbacksCounted DEF QInv, TypeOK, Hands
  <1>3. /\ Cardinality(callbacks') = Cardinality(callbacks) - 1
        /\ Cardinality(callbacks) - 1 \in Nat
    <2>1. IsFiniteSet(callbacks')
      BY <1>1, <1>2, FS_RemoveElement
    <2> QED BY <1>1, <1>2, <2>1, FS_RemoveElement, FS_CardinalityType
  <1>4. /\ Outstanding = Len(queue) + Cardinality(callbacks) + Hands
        /\ Outstanding' = Len(queue) + Cardinality(callbacks') + Hands
    BY <1>1 DEF Outstanding, Hands
  <1>5. Accounting'
    BY <1>1, <1>2, <1>3, <1>4 DEF QInv, Accounting
  <1>6. TypeOK'
    <2>1. unfinished' \in Nat
      BY <1>1, <1>2, <1>3, <1>4 DEF QInv, Accounting
    <2> QED BY <1>1, <2>1 DEF QInv, TypeOK
  <1>7. FinalLast' /\ Emptied' /\ Progress'
    BY <1>1 DEF QInv, FinalLast, Emptied, Progress
  <1>8. Traced'
    BY <1>1 DEF QInv, TypeOK, Traced, Queued
  <1>9. (raised \/ Distinct)'
    BY <1>1 DEF QInv, Distinct
  <1> QED BY <1>5, <1>6, <1>7, <1>8, <1>9 DEF QInv

\* What cancelling, with the outcome o, may leave in the queue.
Leaves(o, q) ==
    /\ q \in Seq(Job \cup {Final}) /\ Len(q) \in Nat /\ DOMAIN q = 1 .. Len(q)
    /\ \A i \in DOMAIN q : q[i] = Final => i = Len(q)
    /\ ~o.raised => Len(q) <= 1 /\ \A i \in DOMAIN q : q[i] = Final
    /\ \A i \in DOMAIN q : q[i] # Final => Queued(q[i])
    /\ \A j \in Job : Queued(j) => \/ \E i \in DOMAIN q : q[i] = j
                                   \/ j \in o.callbacks \/ o.status[j] \in Ended

\* The counter u that goes with it.
Counts(o, q, u) ==
    /\ u \in Int
    /\ u >= Len(q) + Cardinality(o.callbacks) + Hands
    /\ raised \/ o.raised \/ u = Len(q) + Cardinality(o.callbacks) + Hands

\* What _cancel, and the final job that may be put behind it, leave in the queue.
LEMMA LeftOver ==
    ASSUME QInv, NEW a, NEW o, o = Cancelled(a), NEW q, NEW u,
           \/ q = o.queue /\ u = o.unfinished
           \/ ~o.raised /\ q = Append(o.queue, Final) /\ u = o.unfinished + 1
    PROVE  Leaves(o, q) /\ Counts(o, q, u)
  <1>1. PICK m \in 0 .. Len(queue) :
            /\ Reached(a) = 1 .. m
            /\ o.queue \in Seq(Job \cup {Final})
            /\ Len(o.queue) = Len(queue) - m
            /\ \A i \in 1 .. (Len(queue) - m) : o.queue[i] = queue[i + m]
            /\ ~o.raised => m = Len(queue)
    BY CancelTakes, Zenon DEF QInv
  <1>2. Len(queue) \in Nat /\ DOMAIN queue = 1 .. Len(queue) /\ m \in 0 .. Len(queue)
    BY DEF QInv, TypeOK
  <1>3. /\ o.unfinished \in Int /\ IsFiniteSet(o.callbacks)
        /\ o.unfinished >= Len(o.queue) + Cardinality(o.callbacks) + Hands
        /\ raised \/ o.raised
           \/ o.unfinished = Len(o.queue) + Cardinality(o.callbacks) + Hands
    BY CancelCounts, Zenon DEF QInv
  <1>4. Cardinality(o.callbacks) \in Nat /\ Hands \in {0, 1}
    BY <1>3, FS_CardinalityType DEF Hands
  <1>5. \A i \in 1 .. m :
            queue[i] = Final \/ queue[i] \in o.callbacks \/ o.status[queue[i]] \in Ended
    BY <1>1, CancelJobs, Zenon DEF QInv
  <1>6. ASSUME NEW j \in Job, Queued(j)
        PROVE  (\E i \in 1 .. (Len(queue) - m) : o.queue[i] = j) \/ j \in o.callbacks \/ o.status[j] \in Ended
    <2>1. PICK i \in 1 .. Len(queue) : queue[i] = j
      BY <1>2, <1>6 DEF Queued
    <2>2. CASE i <= m
      <3>1. i \in 1 .. m /\ j # Final
        BY <1>2, <2>2, JobsAssumption
      <3> QED BY <1>5, <2>1, <3>1
    <2>3. CASE i > m
      <3>1. i - m \in 1 .. (Len(queue) - m) /\ (i - m) + m = i
        BY <1>2, <2>3
      <3>2. o.queue[i - m] = j
        BY <1>1, <2>1, <3>1
      <3> QED BY <3>1, <3>2
    <2> QED BY <1>2, <2>2, <2>3
  <1>7. ASSUME NEW i \in 1 .. (Len(queue) - m)
        PROVE  /\ o.queue[i] = Final => i = Len(queue) - m
               /\ o.queue[i] # Final => Queued(o.queue[i])
    <2>1. i + m \in 1 .. Len(queue)
      BY <1>2
    <2>2. queue[i + m] = Final => i + m = Len(queue)
      BY <1>2, <2>1 DEF QInv, FinalLast
    <2>3. o.queue[i] = queue[i + m]
      BY <1>1, Zenon
    <2> QED BY <1>2, <2>1, <2>2, <2>3 DEF Queued
  <1>8. /\ DOMAIN o.queue = 1 .. (Len(queue) - m) /\ Len(o.queue) = Len(queue) - m /\ Len(queue) - m \in Nat
        /\ ~o.raised => Len(queue) - m = 0
    <2>1. DOMAIN o.queue = 1 .. Len(o.queue)
      BY <1>1, LenProperties, Zenon
    <2>2. Len(o.queue) = Len(queue) - m /\ (~o.raised => m = Len(queue))
      BY <1>1, Zenon
    <2>3. Len(queue) - m \in Nat
      BY <1>2
    <2>4. m = Len(queue) => Len(queue) - m = 0
      BY <1>2
    <2> QED BY <2>1, <2>2, <2>3, <2>4
  <1>9. CASE q = o.queue /\ u = o.unfinished
    <2>1. /\ q \in Seq(Job \cup {Final}) /\ Len(q) \in Nat /\ DOMAIN q = 1 .. Len(q)
          /\ Len(q) = Len(queue) - m
      BY <1>1, <1>8, <1>9
    <2>2. /\ \A i \in DOMAIN q : q[i] = Final => i = Len(q)
          /\ \A i \in DOMAIN q : q[i] # Final => Queued(q[i])
      BY <1>7, <1>8, <1>9
    <2>3. ~o.raised => Len(q) <= 1 /\ \A i \in DOMAIN q : q[i] = Final
      BY <1>8, <2>1
    <2>4. \A j \in Job : Queued(j) => \/ \E i \in DOMAIN q : q[i] = j
                                      \/ j \in o.callbacks \/ o.status[j] \in Ended
      BY <1>6, <1>8, <1>9
    <2> QED BY <1>3, <1>9, <2>1, <2>2, <2>3, <2>4 DEF Leaves, Counts
  <1>10. CASE ~o.raised /\ q = Append(o.queue, Final) /\ u = o.unfinished + 1
    <2>1. o.queue \in Seq(Job \cup {Final}) /\ Final \in Job \cup {Final}
      BY <1>1, Zenon
    <2>2. Len(o.queue) = 0
      <3>1. Len(o.queue) = Len(queue) - m /\ (~o.raised => Len(queue) - m = 0)
        BY <1>8, Zenon
      <3> QED BY <1>10, <3>1
    <2>3. q \in Seq(Job \cup {Final}) /\ Len(q) = Len(o.queue) + 1 /\ DOMAIN q = 1 .. Len(o.queue) + 1
          /\ q[Len(o.queue) + 1] = Final
      <3>1. q = Append(o.queue, Final)
        BY <1>10, Zenon
      <3> DEFINE T == Job \cup {Final}
      <3> HIDE DEF T
      <3>2. o.queue \in Seq(T) /\ Final \in T
        BY <2>1 DEF T
      <3>3. q \in Seq(T) /\ Len(q) = Len(o.queue) + 1 /\ DOMAIN q = 1 .. Len(o.queue) + 1
            /\ q[Len(o.queue) + 1] = Final
        BY <3>1, <3>2, Longer
      <3> QED BY <3>3 DEF T
    <2>4. /\ q \in Seq(Job \cup {Final}) /\ Len(q) = 1 /\ DOMAIN q = 1 .. 1
          /\ q[1] = Final
      <3>1. Len(o.queue) + 1 = 1
        BY <2>2
      <3> QED BY <2>3, <3>1, Zenon
    <2>5. \A i \in DOMAIN q : i = 1
      BY <2>4
    <2>6. \A j \in Job : Queued(j) => j \in o.callbacks \/ o.status[j] \in Ended
      BY <1>6, <1>8, <1>10
    <2>7. /\ u \in Int
          /\ u >= Len(q) + Cardinality(o.callbacks) + Hands
          /\ raised \/ o.raised \/ u = Len(q) + Cardinality(o.callbacks) + Hands
      <3>1. Len(o.queue) = 0 /\ Len(q) = 1 /\ u = o.unfinished + 1
        BY <1>8, <1>10, <2>4
      <3> QED BY <1>3, <1>4, <3>1
    <2> QED BY <2>4, <2>5, <2>6, <2>7 DEF Leaves, Counts
  <1> QED BY <1>9, <1>10

\* Cancelling, with whatever the runner does to its own job in the same step.
LEMMA CancellingKeeps ==
    ASSUME QInv, NEW a, NEW o, o = Cancelled(a), NEW q, NEW u,
           \/ q = o.queue /\ u = o.unfinished
           \/ ~o.raised /\ q = Append(o.queue, Final) /\ u = o.unfinished + 1,
           queue' = q, unfinished' = u,
           raised' = (raised \/ o.raised), accepted' = accepted,
           qstate' \in {"cancelled", "completed"},
           status' \in [Job -> Status],
           \A j \in Job : /\ o.status[j] # "new" => status'[j] # "new"
                          /\ o.status[j] \in Ended => status'[j] \in Ended \/ j = current',
           \/ current' = current /\ callbacks' = o.callbacks
           \/ /\ current \in Job /\ status[current] \in Ended /\ current' = None
              /\ callbacks' = o.callbacks \cup {current} \/ (o.raised /\ callbacks' = o.callbacks)
    PROVE  /\ queue' \in Seq(Job \cup {Final}) /\ unfinished' \in Nat
           /\ callbacks' \subseteq Job /\ current' \in Job \cup {None}
           /\ accepted' \subseteq Job /\ raised' \in BOOLEAN
           /\ FinalLast' /\ Emptied' /\ Traced' /\ Accounting' /\ (raised \/ Distinct)'
  <1>0. Leaves(o, q) /\ Counts(o, q, u)
    BY LeftOver, Zenon
  <1>1. /\ q \in Seq(Job \cup {Final}) /\ Len(q) \in Nat /\ DOMAIN q = 1 .. Len(q)
        /\ \A i \in DOMAIN q : q[i] = Final => i = Len(q)
        /\ ~o.raised => Len(q) <= 1 /\ \A i \in DOMAIN q : q[i] = Final
        /\ \A i \in DOMAIN q : q[i] # Final => Queued(q[i])
        /\ \A j \in Job : Queued(j) => \/ \E i \in DOMAIN q : q[i] = j
                                       \/ j \in o.callbacks \/ o.status[j] \in Ended
    BY <1>0, Zenon DEF Leaves
  <1>2. /\ u \in Int
        /\ u >= Len(q) + Cardinality(o.callbacks) + Hands
        /\ raised \/ o.raised \/ u = Len(q) + Cardinality(o.callbacks) + Hands
    BY <1>0, Zenon DEF Counts
  <1>3. /\ \A j \in Job : /\ status[j] # "new" => status'[j] # "new"
                          /\ status[j] \in Ended => status'[j] \in Ended \/ j = current'
    <2>1. \A j \in Job : /\ status[j] # "new" => o.status[j] # "new"
                         /\ status[j] \in Ended => o.status[j] \in Ended
      BY CancelJobs, Zenon DEF QInv
    <2> QED BY <2>1
  <1>4. /\ o.callbacks \subseteq Job /\ callbacks \subseteq o.callbacks
        /\ \A j \in o.callbacks : j \in callbacks \/ Queued(j)
        /\ o.raised \in BOOLEAN
    BY CancelJobs, Zenon DEF QInv
  <1>5. IsFiniteSet(o.callbacks) /\ Cardinality(o.callbacks) \in Nat
    <2>1. o.callbacks \in SUBSET Job /\ IsFiniteSet(Job)
      BY <1>4, JobsAssumption
    <2>2. IsFiniteSet(o.callbacks)
      BY <2>1, FS_Subset, Zenon
    <2> QED BY <2>2, FS_CardinalityType, Zenon
  <1>6. /\ callbacks' \subseteq Job /\ current' \in Job \cup {None} /\ accepted' \subseteq Job
        /\ raised' \in BOOLEAN
    BY <1>4 DEF QInv, TypeOK
  <1>7. FinalLast'
    BY <1>1 DEF FinalLast
  <1>8. Emptied'
    BY <1>1, <1>4 DEF Emptied
  <1>9. Queued(current) => raised
    BY DEF QInv, Distinct, Queued
  <1>10. current \in o.callbacks => raised
    BY <1>4, <1>9 DEF QInv, Distinct
  <1>11. Accounting' /\ unfinished' \in Nat
    <2>1. /\ unfinished' >= Outstanding' /\ Outstanding' \in Nat
          /\ raised \/ o.raised \/ unfinished' = Outstanding'
      <3>1. CASE current' = current /\ callbacks' = o.callbacks
        <4>1. Outstanding' = Len(q) + Cardinality(o.callbacks) + Hands /\ Hands \in {0, 1}
          BY <3>1 DEF Outstanding, Hands
        <4>2. Len(q) \in Nat
          BY <1>1, Zenon
        <4> QED BY <1>2, <1>5, <4>1, <4>2
      <3>2. CASE /\ current \in Job /\ current' = None
                 /\ callbacks' = o.callbacks \cup {current} \/ (o.raised /\ callbacks' = o.callbacks)
        <4> DEFINE x == Cardinality(o.callbacks)
                   y == Cardinality(callbacks')
                   z == Len(q)
        <4>1. Hands = 1
          BY <3>2, JobsAssumption DEF Hands
        <4>2. Outstanding' = z + y + 0
          BY <3>2 DEF Outstanding
        <4>3. z \in Nat /\ x \in Nat
          BY <1>1, <1>5, Zenon
        <4>4. \/ y = x + 1
              \/ y = x /\ (raised \/ o.raised)
          <5>1. Cardinality(o.callbacks \cup {current}) = IF current \in o.callbacks THEN x ELSE x + 1
            BY <1>5, FS_AddElement, Zenon
          <5> QED BY <1>10, <3>2, <5>1
        <4> HIDE DEF x, y, z
        <4>5. /\ unfinished' \in Int /\ unfinished' >= z + x + 1
              /\ raised \/ o.raised \/ unfinished' = z + x + 1
          BY <1>2, <4>1 DEF x, z
        <4> QED BY <4>2, <4>3, <4>4, <4>5
      <3> QED BY <3>1, <3>2
    <2>2. unfinished' \in Nat
      BY <1>2, <2>1
    <2>3. Accounting'
      BY <2>1, Zenon DEF Accounting
    <2> QED BY <2>2, <2>3
  <1>12. Traced'
    <2>1. \A j \in Job : Queued(j)' => Queued(j)
      <3>1. \A i \in DOMAIN q : q[i] # Final => Queued(q[i])
        BY <1>1, Zenon
      <3> QED BY <3>1, JobsAssumption DEF Queued
    <2>2. \A j \in Job : Queued(j) =>
              Queued(j)' \/ j = current' \/ j \in callbacks' \/ status'[j] \in Ended
      <3>1. o.callbacks \subseteq callbacks'
        OBVIOUS
      <3>2. \A j \in Job : Queued(j) => Queued(j)' \/ j \in o.callbacks \/ o.status[j] \in Ended
        BY <1>1, Zenon DEF Queued
      <3> QED BY <3>1, <3>2
    <2>3. \A j \in Job : /\ j \in callbacks => j \in callbacks'
                         /\ j = current => j = current' \/ status'[j] \in Ended
      BY <1>3, <1>4
    <2>4. ASSUME NEW j \in accepted
          PROVE  Queued(j)' \/ j = current' \/ j \in callbacks' \/ status'[j] \in Ended
      <3>1. j \in Job
        BY DEF QInv, TypeOK
      <3> QED BY <1>3, <2>2, <2>3, <3>1 DEF QInv, Traced
    <2>5. ASSUME NEW j \in Job, Queued(j)' \/ j = current' \/ j \in callbacks'
          PROVE  status'[j] # "new"
      <3>1. Queued(j) \/ j = current \/ j \in callbacks
        BY <1>4, <2>1, <2>5, JobsAssumption
      <3> QED BY <1>3, <3>1 DEF QInv, Traced
    <2> QED BY <2>4, <2>5 DEF Traced
  <1>13. (raised \/ Distinct)'
    <2> SUFFICES ASSUME ~raised' PROVE Distinct'
      OBVIOUS
    <2>1. ~raised /\ ~o.raised
      BY <1>4 DEF QInv, TypeOK
    <2>2. /\ \A i \in DOMAIN q : q[i] = Final
          /\ \A i, k \in DOMAIN q : i = k
      BY <1>1, <2>1
    <2>3. current' \notin callbacks'
      BY <1>6, <1>10, <2>1, JobsAssumption
    <2>4. Final \notin callbacks' /\ Final # current'
      BY <1>6, JobsAssumption
    <2> QED BY <2>2, <2>3, <2>4 DEF Distinct
  <1> QED BY <1>1, <1>6, <1>7, <1>8, <1>11, <1>12, <1>13

\* cancel() while the runner waits, or before it is started.
LEMMA CancelKeeps ==
    ASSUME QInv, Cancelling, UNCHANGED <<current, handed, joiner, accepted>>,
           runner' = runner \/ (runner = "none" /\ runner' = "idle")
    PROVE  QInv'
  <1> DEFINE o == Cancelled(active)
  <1>1. runner' \in Runner
    BY DEF QInv, TypeOK, Runner
  <1>2. CASE qstate \notin {"open", "closed"}
    <2>1. UNCHANGED <<qstate, queue, unfinished, active, status, callbacks, raised>>
      BY <1>2 DEF Cancelling
    <2>2. /\ TypeOK' /\ FinalLast' /\ Emptied' /\ Traced' /\ Accounting' /\ Progress'
          /\ (raised \/ Distinct)'
      BY <1>1, <2>1 DEF QInv, TypeOK, FinalLast, Emptied, Traced, Queued, Accounting,
                       Outstanding, Progress, Distinct
    <2> QED BY <2>2 DEF QInv
  <1>3. CASE qstate \in {"open", "closed"}
    <2>1. /\ qstate' = "cancelled" /\ active' = o.active /\ status' = o.status
          /\ callbacks' = o.callbacks /\ raised' = (raised \/ o.raised)
          /\ \/ queue' = o.queue /\ unfinished' = o.unfinished
             \/ ~o.raised /\ queue' = Append(o.queue, Final) /\ unfinished' = o.unfinished + 1
      BY <1>3 DEF Cancelling, Put
    <2>2. o.status \in [Job -> Status] /\ o.active \in Job \cup {None}
      <3>1. o.status \in [Job -> Status]
        BY CancelJobs, Zenon DEF QInv
      <3>2. o.active \in Job \cup {None}
        BY DEF QInv, TypeOK, Cancelled
      <3> QED BY <3>1, <3>2
    <2> HIDE DEF o
    <2>3. /\ queue' \in Seq(Job \cup {Final}) /\ unfinished' \in Nat
          /\ callbacks' \subseteq Job /\ current' \in Job \cup {None}
          /\ accepted' \subseteq Job /\ raised' \in BOOLEAN
          /\ FinalLast' /\ Emptied' /\ Traced' /\ Accounting' /\ (raised \/ Distinct)'
      BY <2>1, <2>2, CancellingKeeps DEF o
    <2>4. Progress'
      BY <1>3, <2>1 DEF QInv, Progress
    <2>5. TypeOK'
      BY <1>1, <2>1, <2>2, <2>3 DEF QInv, TypeOK
    <2> QED BY <2>3, <2>4, <2>5 DEF QInv
  <1> QED BY <1>2, <1>3

\* join() has waited for ten seconds.
LEMMA JoinTimeoutKeeps ==
    ASSUME QInv, JoinTimeout
    PROVE  QInv'
  <1> DEFINE o == Cancelled(active)
  <1>1. /\ joiner = "waiting" /\ joiner' = "timeout"
        /\ runner' = IF runner = "idle" THEN "done" ELSE runner
        /\ qstate' = AfterCancel /\ queue' = o.queue /\ active' = o.active
        /\ status' = [j \in Job |-> IF j = current /\ status[j] = "running"
                                    THEN "cancelling" ELSE o.status[j]]
        /\ callbacks' = o.callbacks /\ unfinished' = o.unfinished
        /\ raised' = (raised \/ o.raised)
        /\ UNCHANGED <<current, handed, accepted>>
    BY DEF JoinTimeout
  <1>2. o.status \in [Job -> Status] /\ o.active \in Job \cup {None}
    <2>1. o.status \in [Job -> Status]
      BY CancelJobs, Zenon DEF QInv
    <2>2. o.active \in Job \cup {None}
      BY DEF QInv, TypeOK, Cancelled
    <2> QED BY <2>1, <2>2
  <1> HIDE DEF o
  <1>4. status' \in [Job -> Status]
    BY <1>1, <1>2 DEF Status
  <1>5. \A j \in Job : /\ o.status[j] # "new" => status'[j] # "new"
                       /\ o.status[j] \in Ended => status'[j] \in Ended \/ j = current'
    BY <1>1
  <1>6. qstate' \in {"cancelled", "completed"}
    BY <1>1 DEF AfterCancel
  <1>7. /\ queue' \in Seq(Job \cup {Final}) /\ unfinished' \in Nat
        /\ callbacks' \subseteq Job /\ current' \in Job \cup {None}
        /\ accepted' \subseteq Job /\ raised' \in BOOLEAN
        /\ FinalLast' /\ Emptied' /\ Traced' /\ Accounting' /\ (raised \/ Distinct)'
    BY <1>1, <1>4, <1>5, <1>6, CancellingKeeps DEF o
  <1>8. Progress'
    BY <1>1 DEF QInv, Progress
  <1>9. TypeOK'
    BY <1>1, <1>2, <1>4, <1>6, <1>7 DEF QInv, TypeOK, Runner
  <1> QED BY <1>7, <1>8, <1>9 DEF QInv

\* The runner's job has raised: the runner cancels the queue, unless somebody else has.
LEMMA RunnerFailedKeeps ==
    ASSUME QInv, RunnerFailed
    PROVE  QInv'
  <1> DEFINE o == Cancelled(None)
  <1>1. /\ runner \in {"await", "step"} /\ current # None /\ current \in Job
        /\ status[current] \in Ended /\ active' = None /\ current' = None
        /\ UNCHANGED <<joiner, accepted>>
    BY DEF RunnerFailed, Resumes, QInv, TypeOK, Ended
  <1>2. CASE qstate \in {"open", "closed"}
    <2>1. /\ qstate' = "cancelled" /\ status' = o.status
          /\ runner' \in {"step", "died"} /\ handed' \in BOOLEAN
      BY <1>2 DEF RunnerFailed, QInv, TypeOK
    <2>2. \/ /\ o.raised /\ queue' = o.queue /\ unfinished' = o.unfinished
             /\ raised' = TRUE /\ callbacks' = o.callbacks
          \/ /\ ~o.raised /\ queue' = Append(o.queue, Final) /\ unfinished' = o.unfinished + 1
             /\ raised' = raised /\ callbacks' = o.callbacks \cup {current}
      BY <1>2 DEF RunnerFailed, Put
    <2>3. o.status \in [Job -> Status] /\ o.raised \in BOOLEAN
      BY CancelJobs, Zenon DEF QInv
    <2>4. raised' = (raised \/ o.raised)
      BY <2>2, <2>3 DEF QInv, TypeOK
    <2> HIDE DEF o
    <2>5. /\ queue' \in Seq(Job \cup {Final}) /\ unfinished' \in Nat
          /\ callbacks' \subseteq Job /\ current' \in Job \cup {None}
          /\ accepted' \subseteq Job /\ raised' \in BOOLEAN
          /\ FinalLast' /\ Emptied' /\ Traced' /\ Accounting' /\ (raised \/ Distinct)'
      BY <1>1, <2>1, <2>2, <2>3, <2>4, CancellingKeeps DEF o
    <2>6. Progress'
      BY <1>1, <2>1 DEF QInv, Progress
    <2>7. TypeOK'
      BY <1>1, <2>1, <2>3, <2>5 DEF QInv, TypeOK, Runner
    <2> QED BY <2>5, <2>6, <2>7 DEF QInv
  <1>3. CASE qstate \notin {"open", "closed"}
    <2>1. /\ UNCHANGED <<qstate, status, queue, unfinished, raised>>
          /\ runner' = "step" /\ handed' = TRUE /\ callbacks' = callbacks \cup {current}
      BY <1>3 DEF RunnerFailed
    <2>2. /\ IsFiniteSet(callbacks) /\ Cardinality(callbacks) \in Nat /\ Len(queue) \in Nat
          /\ unfinished \in Nat
      BY CallbacksCounted DEF QInv, TypeOK
    <2>3. TypeOK'
      BY <1>1, <2>1 DEF QInv, TypeOK, Runner
    <2>4. FinalLast' /\ Emptied' /\ Progress'
      BY <1>1, <2>1 DEF QInv, FinalLast, Emptied, Progress
    <2>5. Traced'
      BY <1>1, <2>1, JobsAssumption DEF QInv, TypeOK, Traced, Queued
    <2>6. Accounting'
      <3> DEFINE x == Cardinality(callbacks)
                 y == Cardinality(callbacks')
      <3>1. /\ unfinished >= Len(queue) + x + 1
            /\ raised \/ unfinished = Len(queue) + x + 1
        BY <1>1 DEF QInv, Accounting, Outstanding
      <3>2. y = x + 1 \/ (y = x /\ raised)
        <4>1. Cardinality(callbacks \cup {current}) = IF current \in callbacks THEN x ELSE x + 1
          BY <2>2, FS_AddElement, Zenon
        <4>2. current \in callbacks => raised
          BY DEF QInv, Distinct
        <4> QED BY <2>1, <4>1, <4>2
      <3>3. Outstanding' = Len(queue) + y + 0
        BY <1>1, <2>1 DEF Outstanding
      <3> HIDE DEF x, y
      <3>4. x \in Nat /\ Len(queue) \in Nat /\ unfinished \in Nat
        BY <2>2 DEF x
      <3> QED BY <2>1, <3>1, <3>2, <3>3, <3>4 DEF Accounting
    <2>7. (raised \/ Distinct)'
      <3> SUFFICES ASSUME Distinct PROVE Distinct'
        BY <2>1 DEF QInv
      <3>1. None \notin callbacks /\ \A i \in DOMAIN queue : queue[i] # None
        BY JobsAssumption DEF QInv, TypeOK
      <3> QED BY <1>1, <2>1, <3>1 DEF Distinct
    <2> QED BY <2>3, <2>4, <2>5, <2>6, <2>7 DEF QInv
  <1> QED BY <1>2, <1>3

\* Every step of the queue keeps the invariant.
LEMMA QueueStep ==
    ASSUME QInv, [Next]_vars
    PROVE  QInv'
  <1>1. CASE Close
    BY <1>1, CloseKeeps
  <1>2. CASE Cancel
    BY <1>2, CancelKeeps DEF Cancel
  <1>3. CASE Start \/ Join \/ JoinEnds
    BY <1>3, QuietKeeps
  <1>4. CASE RunnerStep
    BY <1>4, RunnerGetKeeps, QuietKeeps, RunnerResumesKeeps, RunnerFailedKeeps DEF RunnerStep
  <1>5. CASE JoinTimeout
    BY <1>5, JoinTimeoutKeeps
  <1>6. ASSUME NEW j \in Job,
               \/ Enqueue(j) \/ CloseWith(j) \/ JobReturns(j) \/ JobFails(j)
               \/ JobDisconnected(j) \/ JobCancelled(j) \/ RelayGivesUp(j) \/ JobDone(j)
        PROVE  QInv'
    BY <1>6, EnqueueKeeps, CloseWithKeeps, QuietKeeps, CloseKeeps, JobDoneKeeps
  <1>7. CASE UNCHANGED vars
    BY <1>7 DEF vars, QInv, TypeOK, FinalLast, Progress, Emptied, Traced, Queued, Accounting,
                Outstanding, Distinct
  <1> QED BY <1>1, <1>2, <1>3, <1>4, <1>5, <1>6, <1>7 DEF Next

---------------------------------------------------------------------------
(* The theorems about the queue.                                           *)

\* The inductive invariant: wherever the operations of the queue, its runner, its jobs
\* and join are interleaved, every accepted job is somewhere until it has ended, the
\* counter counts it, and the final job is the last one.
THEOREM QueueInvariant == Spec => []QInv
  <1>1. Init => QInv
    BY QueueInit
  <1>2. QInv /\ [Next]_vars => QInv'
    BY QueueStep
  <1> QED BY <1>1, <1>2, PTL DEF Spec

\* task_done is called once for every job and never more often: the counter is what is
\* queued, in the runner's hands or waiting for its callback.
THEOREM CounterIsExact == Spec => []Accounting
  <1>1. QInv => Accounting
    BY DEF QInv
  <1> QED BY <1>1, QueueInvariant, PTL

\* Nothing is anywhere when the counter is at zero.
LEMMA NothingLeft ==
    ASSUME QInv, unfinished = 0
    PROVE  queue = <<>> /\ callbacks = {} /\ current = None
  <1>1. /\ IsFiniteSet(callbacks) /\ Cardinality(callbacks) \in Nat /\ Len(queue) \in Nat
        /\ Hands \in {0, 1} /\ queue \in Seq(Job \cup {Final})
    BY CallbacksCounted DEF QInv, TypeOK, Hands
  <1>2. unfinished >= Len(queue) + Cardinality(callbacks) + Hands
    BY DEF QInv, Accounting, Outstanding, Hands
  <1>3. Len(queue) = 0 /\ Cardinality(callbacks) = 0 /\ Hands = 0
    BY <1>1, <1>2
  <1>4. callbacks = {}
    BY <1>1, <1>3, FS_EmptySet
  <1>5. queue = <<>>
    BY <1>1, <1>3, EmptySeq
  <1> QED BY <1>3, <1>4, <1>5 DEF Hands

\* Once join has returned the counter stays at zero.
LEMMA JoinedStep ==
    ASSUME QInv, JoinedAtZero, [Next]_vars
    PROVE  JoinedAtZero'
  <1> SUFFICES ASSUME joiner' = "returned" PROVE unfinished' = 0
    BY DEF JoinedAtZero
  <1>1. CASE joiner # "returned"
    <2>1. CASE JoinEnds
      BY <1>1, <2>1 DEF JoinEnds
    <2>2. CASE ~JoinEnds
      BY <1>1, <2>2 DEF Next, vars, Close, Cancel, Start, RunnerStep, RunnerGet, RunnerIdle,
                        RunnerDone, RunnerCancelled, RunnerFailed, Join, JoinTimeout, Enqueue,
                        CloseWith, JobReturns, JobFails, JobDisconnected, JobCancelled,
                        RelayGivesUp, JobDone, JobEnds
    <2> QED BY <2>1, <2>2
  <1>2. CASE joiner = "returned"
    <2>1. runner = "done" /\ qstate = "completed" /\ unfinished = 0
      BY <1>2 DEF QInv, Progress, JoinedAtZero
    <2>2. callbacks = {} /\ current = None
      BY <2>1, NothingLeft
    <2> QED BY <1>2, <2>1, <2>2
            DEF Next, vars, Close, Cancel, Start, RunnerStep, RunnerGet, RunnerIdle, RunnerDone,
                RunnerCancelled, RunnerFailed, Resumes, Join, JoinEnds, JoinTimeout, Enqueue,
                CloseWith, JobReturns, JobFails, JobDisconnected, JobCancelled, RelayGivesUp,
                JobDone, Closing
  <1> QED BY <1>1, <1>2

LEMMA JoinedMeans ==
    ASSUME QInv, JoinedAtZero
    PROVE  JoinMeansProcessed
  <1> SUFFICES ASSUME QInv, unfinished = 0, NEW j \in accepted
               PROVE  queue = <<>> /\ status[j] \in Ended
    BY NothingLeft DEF JoinMeansProcessed, JoinedAtZero
  <1>1. queue = <<>> /\ callbacks = {} /\ current = None
    BY NothingLeft
  <1>2. j \in Job /\ ~Queued(j)
    BY <1>1 DEF QInv, TypeOK, Queued
  <1> QED BY <1>1, <1>2, JobsAssumption DEF QInv, Traced

\* When join returns, no accepted job is left that has not come to its end.
THEOREM JoinedIsProcessed == Spec => []JoinMeansProcessed
  <1>1. Init => JoinedAtZero
    BY DEF Init, JoinedAtZero
  <1>2. QInv /\ JoinedAtZero /\ [Next]_vars => JoinedAtZero'
    BY JoinedStep
  <1>3. QInv /\ JoinedAtZero => JoinMeansProcessed
    BY JoinedMeans
  <1> QED BY <1>1, <1>2, <1>3, QueueInvariant, PTL DEF Spec

\* Nothing is put behind the final job, and the runner leaves nothing behind.
THEOREM FinalIsLast == Spec => []NothingAfterFinal
  <1>1. QInv => NothingAfterFinal
    BY DEF QInv, FinalLast, Progress, NothingAfterFinal
  <1> QED BY <1>1, QueueInvariant, PTL

\* No coroutine is started by a cancelled queue, unless cancelling has raised.
THEOREM CancelledStartsNothing == Spec => NothingStartsAfterCancel
  <1> DEFINE A == \A j \in Coroutine :
                      status[j] # "running" /\ status'[j] = "running"
                      => qstate \in {"open", "closed"} \/ raised
  <1>1. QInv /\ [Next]_vars => A
    <2> SUFFICES ASSUME QInv, [Next]_vars, NEW j \in Coroutine,
                        status[j] # "running", status'[j] = "running",
                        qstate \notin {"open", "closed"}, ~raised
                 PROVE  FALSE
      OBVIOUS
    <2>1. j \in Job /\ j \notin RelayTask
      BY JobsAssumption DEF Job
    <2>2. CASE RunnerGet
      <3>1. /\ queue # <<>>
            /\ Head(queue) # Final =>
                   status' = [status EXCEPT ![Head(queue)] = IF @ = "queued" THEN "running" ELSE @]
            /\ Head(queue) = Final => status' = status
        BY <2>2 DEF RunnerGet
      <3>2. 1 \in DOMAIN queue /\ Head(queue) = queue[1]
        BY <3>1 DEF QInv, TypeOK
      <3>3. Head(queue) = Final
        BY <3>2 DEF QInv, Emptied
      <3> QED BY <3>1, <3>3
    <2>3. CASE RunnerFailed
      BY <2>3 DEF RunnerFailed
    <2>4. CASE JoinTimeout
      <3>1. \A k \in Job : Cancelled(active).status[k] = "running" => status[k] = "running"
        BY CancelJobs DEF QInv
      <3> QED BY <2>1, <2>4, <3>1 DEF JoinTimeout
    <2>5. CASE \E k \in Job : Enqueue(k) \/ CloseWith(k)
      BY <2>1, <2>5 DEF Enqueue, CloseWith, QInv, TypeOK
    <2>6. CASE \E k \in Job : \/ JobReturns(k) \/ JobFails(k) \/ JobDisconnected(k)
                              \/ JobCancelled(k) \/ RelayGivesUp(k)
      BY <2>1, <2>6 DEF JobReturns, JobFails, JobDisconnected, JobCancelled, RelayGivesUp, JobEnds,
                        QInv, TypeOK
    <2>7. CASE \/ Close \/ Cancel \/ Start \/ RunnerIdle \/ RunnerDone \/ RunnerCancelled
               \/ Join \/ JoinEnds \/ UNCHANGED vars \/ \E k \in Job : JobDone(k)
      BY <2>7 DEF Close, Cancel, Start, RunnerIdle, RunnerDone, RunnerCancelled, Join, JoinEnds,
                  vars, JobDone
    <2> QED BY <2>2, <2>3, <2>4, <2>5, <2>6, <2>7 DEF Next, RunnerStep
  <1> QED BY <1>1, QueueInvariant, PTL DEF Spec, NothingStartsAfterCancel

---------------------------------------------------------------------------
(* The moves of the client.                                                *)

\* What a step of the client can do to its queue.  The closing procedure gets there
\* through drop() only.
Cancels == /\ Cancelling
           /\ UNCHANGED <<current, handed, joiner, accepted>>
           /\ runner' = runner \/ (runner = "none" /\ runner' = "idle")
Joins == Join \/ JoinEnds \/ JoinTimeout
Ends(j) == \/ JobReturns(j) \/ JobFails(j) \/ JobDisconnected(j) \/ JobCancelled(j)
           \/ RelayGivesUp(j) \/ JobDone(j)
Moves == \/ UNCHANGED vars \/ Cancels \/ Close \/ Start \/ RunnerStep \/ Joins
         \/ CloseWith(CloseJob)
         \/ \E j \in Job : (j # CloseJob /\ Enqueue(j)) \/ Ends(j)

---------------------------------------------------------------------------
(* The queue of the client.                                                *)

LEMMA StepMoves ==
    ASSUME QInv, Phases, [LNext]_lvars
    PROVE  Moves
  <1>0. CloseJob \in Job
    BY CloseJobAssumption DEF Job
  <1>1. CASE HandshakeRefused \/ HandshakeDisconnected \/ GatherDone
    <2>1. (\E r \in Kind : HandshakeFails(r)) \/ UNCHANGED vars
      BY <1>1 DEF HandshakeRefused, HandshakeDisconnected, GatherDone, Kind
    <2>2. runner = "none"
      BY <1>1 DEF Phases, HandshakeRefused, HandshakeDisconnected, GatherDone
    <2> QED BY <2>1, <2>2 DEF HandshakeFails, Moves, Cancels
  <1>2. CASE HandlerResumes
    BY <1>2 DEF HandlerResumes, Moves, Cancels
  <1>3. CASE HandshakeDone \/ Drop
    BY <1>3 DEF HandshakeDone, Drop, Moves
  <1>4. CASE HandlerJoins \/ JoinOver
    BY <1>4 DEF HandlerJoins, JoinOver, Moves, Joins
  <1>5. CASE RunnerSilent \/ RunnerReports
    BY <1>5 DEF RunnerSilent, RunnerReports, Moves, RunnerStep
  <1>6. CASE TaskDisconnected
    BY <1>6 DEF TaskDisconnected, Close, Closing, Moves, vars
  <1>7. CASE ConnectionClosed
    BY <1>0, <1>7 DEF ConnectionClosed, Moves, Ends
  <1>8. CASE \/ Authenticate \/ HandlerEnds \/ HandlerCloses \/ PathCleaned \/ PeerCloses
             \/ TaskFails \/ UNCHANGED lvars
    BY <1>8 DEF Authenticate, HandlerEnds, HandlerCloses, PathCleaned, PeerCloses, TaskFails,
                lvars, Moves
  <1>9. CASE \E j \in Job : EnqueueFor(j) \/ JobStep(j) \/ RelayOver(j)
    BY <1>9 DEF EnqueueFor, JobStep, PackMessage, MessageRefused, Sent, SendDisconnected,
                JobOver, RelayOver, Ends, Moves
  <1> QED BY <1>1, <1>2, <1>3, <1>4, <1>5, <1>6, <1>7, <1>8, <1>9 DEF LNext, HandlerStep

\* The invariant of the queue.
LEMMA MovesKeepQueue ==
    ASSUME QInv, JoinedAtZero, Moves
    PROVE  QInv' /\ JoinedAtZero'
  <1>1. CASE Cancels
    <2>1. QInv'
      BY <1>1, CancelKeeps DEF Cancels
    <2>2. joiner = "returned" => qstate = "completed"
      BY DEF QInv, Progress
    <2>3. JoinedAtZero'
      BY <1>1, <2>2 DEF Cancels, Cancelling, JoinedAtZero
    <2> QED BY <2>1, <2>3
  <1>2. CASE ~Cancels
    <2>1. CloseJob \in Job
      BY CloseJobAssumption DEF Job
    <2>2. [Next]_vars
      BY <1>2, <2>1 DEF Moves, Next, Joins, Ends
    <2> QED BY <2>2, QueueStep, JoinedStep
  <1> QED BY <1>1, <1>2

---------------------------------------------------------------------------
(* The queue as a mailbox.                                                 *)

\* A queue without its final job.
Stripped(q) == IF q # <<>> /\ q[Len(q)] = Final THEN SubSeq(q, 1, Len(q) - 1) ELSE q

LEMMA StrippedShape ==
    ASSUME NEW q \in Seq(Job \cup {Final}), \A i \in DOMAIN q : q[i] = Final => i = Len(q)
    PROVE  /\ Stripped(q) \in Seq(Job) /\ Len(Stripped(q)) \in Nat
           /\ \A i \in 1 .. Len(Stripped(q)) : Stripped(q)[i] = q[i]
           /\ \/ Len(Stripped(q)) = Len(q)
              \/ Len(Stripped(q)) = Len(q) - 1 /\ q # <<>> /\ q[Len(q)] = Final
           /\ (\A i \in DOMAIN q : q[i] # Final) => Stripped(q) = q
  <1> DEFINE n == Len(q)
  <1>1. n \in Nat /\ DOMAIN q = 1 .. n /\ \A i \in 1 .. n : q[i] \in Job \cup {Final}
    BY LenProperties
  <1>2. CASE q # <<>> /\ q[n] = Final
    <2>1. n # 0 /\ n - 1 \in Nat /\ n - 1 \in 0 .. n /\ n \in 1 .. n
      BY <1>1, <1>2, EmptySeq
    <2>2. Stripped(q) = SubSeq(q, 1, n - 1)
      BY <1>2 DEF Stripped
    <2>3. /\ Len(SubSeq(q, 1, n - 1)) = n - 1
          /\ \A i \in 1 .. n - 1 : SubSeq(q, 1, n - 1)[i] = q[i]
      BY <1>1, <2>1
    <2>4. \A i \in 1 .. n - 1 : q[i] \in Job
      BY <1>1, <2>1
    <2>5. SubSeq(q, 1, n - 1) \in Seq(Job)
      BY <1>1, <2>1, <2>4
    <2> QED BY <1>1, <1>2, <2>1, <2>2, <2>3, <2>5
  <1>3. CASE ~(q # <<>> /\ q[n] = Final)
    <2>1. Stripped(q) = q
      BY <1>3 DEF Stripped
    <2>2. \A i \in 1 .. n : q[i] \in Job
      <3> SUFFICES ASSUME NEW i \in 1 .. n, q[i] = Final PROVE FALSE
        BY <1>1
      <3>1. i = n
        BY <1>1
      <3>2. n \in 1 .. n
        BY <3>1
      <3>3. q # <<>>
        BY <3>2, EmptySeq
      <3> QED BY <1>3, <3>1, <3>3
    <2>3. q \in Seq(Job)
      BY <1>1, <2>2
    <2> QED BY <1>1, <2>1, <2>3
  <1>4. (\A i \in DOMAIN q : q[i] # Final) => ~(q # <<>> /\ q[n] = Final)
    BY <1>1, EmptySeq
  <1>5. ~(q # <<>> /\ q[n] = Final) => Stripped(q) = q
    BY DEF Stripped
  <1> QED BY <1>2, <1>3, <1>4, <1>5

\* The final job behind others.
LEMMA StrippedFinal ==
    ASSUME NEW q \in Seq(Job \cup {Final})
    PROVE  Stripped(Append(q, Final)) = q
  <1> DEFINE r == Append(q, Final)
             T == Job \cup {Final}
  <1>1. /\ r \in Seq(T) /\ Len(r) = Len(q) + 1 /\ Len(q) \in Nat
        /\ r[Len(q) + 1] = Final /\ \A i \in 1 .. Len(q) : r[i] = q[i]
    BY Longer
  <1>2. r # <<>> /\ Len(r) - 1 = Len(q)
    BY <1>1
  <1>3. Stripped(r) = SubSeq(r, 1, Len(q))
    BY <1>1, <1>2 DEF Stripped
  <1>4. /\ SubSeq(r, 1, Len(q)) \in Seq(T) /\ Len(SubSeq(r, 1, Len(q))) = Len(q)
        /\ \A i \in 1 .. Len(q) : SubSeq(r, 1, Len(q))[i] = q[i]
    BY <1>1
  <1>5. SubSeq(r, 1, Len(q)) = q
    BY <1>1, <1>4
  <1> QED BY <1>3, <1>5

\* A part from the end of a queue, without the final job, is a part from the end of the
\* queue without it.
LEMMA StrippedSuffix ==
    ASSUME NEW q \in Seq(Job \cup {Final}), \A i \in DOMAIN q : q[i] = Final => i = Len(q),
           NEW r \in Seq(Job \cup {Final}), NEW m \in 0 .. Len(q),
           Len(r) = Len(q) - m, \A i \in 1 .. (Len(q) - m) : r[i] = q[i + m]
    PROVE  \E l \in 0 .. Len(Stripped(q)) :
               Stripped(r) = SubSeq(Stripped(q), l + 1, Len(Stripped(q)))
  <1> DEFINE n == Len(q)
             s == Stripped(q)
             t == Stripped(r)
  <1>1. n \in Nat /\ m \in Nat /\ m <= n /\ DOMAIN q = 1 .. n /\ DOMAIN r = 1 .. (n - m)
        /\ n - m \in Nat
    BY LenProperties
  <1>2. ASSUME NEW i \in DOMAIN r, r[i] = Final PROVE i = Len(r)
    <2>1. i + m \in 1 .. n /\ q[i + m] = Final
      BY <1>1, <1>2
    <2>2. i + m = n
      BY <1>1, <2>1
    <2> QED BY <1>1, <2>2
  <1>3. /\ s \in Seq(Job) /\ Len(s) \in Nat
        /\ \A i \in 1 .. Len(s) : s[i] = q[i]
        /\ Len(s) = n \/ (Len(s) = n - 1 /\ n # 0 /\ q[n] = Final)
        /\ (\A i \in DOMAIN q : q[i] # Final) => s = q
    BY <1>1, StrippedShape, EmptySeq
  <1>4. /\ t \in Seq(Job) /\ Len(t) \in Nat
        /\ \A i \in 1 .. Len(t) : t[i] = r[i]
        /\ Len(t) = n - m \/ (Len(t) = n - m - 1 /\ n - m # 0 /\ r[n - m] = Final)
        /\ (\A i \in DOMAIN r : r[i] # Final) => t = r
    BY <1>1, <1>2, StrippedShape, EmptySeq
  <1>5. Len(s) = n /\ n # 0 => q[n] # Final
    <2> SUFFICES ASSUME Len(s) = n, n # 0, q[n] = Final PROVE FALSE
      OBVIOUS
    <2>1. n \in 1 .. Len(s) /\ s[n] = Final
      BY <1>1, <1>3
    <2>2. s[n] \in Job
      BY <1>3, <2>1
    <2> QED BY <2>1, <2>2, JobsAssumption
  <1>6. Len(t) = n - m /\ n - m # 0 => r[n - m] # Final
    <2> SUFFICES ASSUME Len(t) = n - m, n - m # 0, r[n - m] = Final PROVE FALSE
      OBVIOUS
    <2>0. n - m \in 1 .. Len(t)
      BY <1>1
    <2>1. n - m \in 1 .. Len(t) /\ t[n - m] = Final
      BY <1>4, <2>0
    <2>2. t[n - m] \in Job
      BY <1>4, <2>1
    <2> QED BY <2>1, <2>2, JobsAssumption
  <1>7. n - m # 0 => r[n - m] = q[n]
    BY <1>1
  <1> HIDE DEF n, s, t
  <1>8. PICK l \in 0 .. Len(s) : Len(t) = Len(s) - l /\ \A i \in 1 .. Len(t) : t[i] = s[i + l]
    <2> DEFINE Cut(l) == Len(t) = Len(s) - l /\ \A i \in 1 .. Len(t) : t[i] = s[i + l]
    <2> SUFFICES \E l \in 0 .. Len(s) : Cut(l)
      OBVIOUS
    <2>1. CASE m <= Len(s)
      <3>1. m \in 0 .. Len(s) /\ Len(t) = Len(s) - m
        BY <1>1, <1>3, <1>4, <1>5, <1>6, <1>7, <2>1
      <3>2. ASSUME NEW i \in 1 .. Len(t) PROVE t[i] = s[i + m]
        <4>1. i + m \in 1 .. Len(s) /\ i \in 1 .. (n - m)
          <5> DEFINE k == Len(s)
                     j == Len(t)
          <5>1. n \in Nat /\ m \in Nat /\ k \in Nat /\ k <= n /\ i \in 1 .. j /\ j = k - m
            <6>1. n \in Nat /\ m \in Nat
              BY <1>1
            <6>2. k \in Nat /\ (k = n \/ k = n - 1)
              BY <1>3
            <6> QED BY <3>1, <6>1, <6>2
          <5> HIDE DEF k, j
          <5>2. i + m \in 1 .. k /\ i \in 1 .. (n - m)
            BY <5>1
          <5> QED BY <5>2 DEF k
        <4>2. t[i] = r[i] /\ r[i] = q[i + m] /\ s[i + m] = q[i + m]
          BY <1>3, <1>4, <4>1 DEF n
        <4> QED BY <4>2
      <3>3. Cut(m)
        BY <3>1, <3>2
      <3> QED BY <3>1, <3>3
    <2>2. CASE m > Len(s)
      <3>1. m = n /\ Len(t) = 0 /\ Len(s) \in 0 .. Len(s) /\ Len(s) - Len(s) = 0
        BY <1>1, <1>3, <1>4, <2>2
      <3>2. 1 .. Len(t) = {}
        BY <3>1
      <3>3. Cut(Len(s))
        BY <3>1, <3>2
      <3> QED BY <3>1, <3>3
    <2> QED BY <1>1, <1>3, <2>1, <2>2
  <1>9. /\ SubSeq(s, l + 1, Len(s)) \in Seq(Job) /\ Len(SubSeq(s, l + 1, Len(s))) = Len(s) - l
        /\ \A i \in 1 .. (Len(s) - l) : SubSeq(s, l + 1, Len(s))[i] = s[i + l]
    BY <1>3, <1>8, Suffix
  <1>10. t = SubSeq(s, l + 1, Len(s))
    <2> DEFINE u == SubSeq(s, l + 1, Len(s))
    <2>1. u \in Seq(Job) /\ Len(t) = Len(u) /\ \A i \in 1 .. Len(t) : t[i] = u[i]
      BY <1>8, <1>9
    <2> HIDE DEF u
    <2>2. t = u
      BY <1>4, <2>1, SeqEqual
    <2> QED BY <2>2 DEF u
  <1> QED BY <1>8, <1>10 DEF s, t

\* The lengths of a queue and of what waits in it.
LEMMA Lengths ==
    ASSUME NEW n \in Nat, NEW k \in Nat, k = n \/ k = n - 1
    PROVE  /\ k # 0 => 1 \in 1 .. k /\ 1 \in 1 .. n
           /\ k = 0 => n = 0 \/ (n = 1 /\ k # n)
           /\ \A i \in 1 .. k - 1 : i \in 1 .. n - 1 /\ i + 1 \in 1 .. k
  OBVIOUS

\* The queue of the mailbox before and after a step.
LEMMA WaitingIs ==
    ASSUME QInv
    PROVE  /\ queue \in Seq(Job \cup {Final})
           /\ \A i \in DOMAIN queue : queue[i] = Final => i = Len(queue)
           /\ Waiting = Stripped(queue) /\ Waiting' = Stripped(queue')
           /\ Waiting \in Seq(Job) /\ Len(Waiting) \in Nat
           /\ qstate = "open" => Waiting = queue
           /\ qstate \notin {"open", "closed"} /\ ~raised => Waiting = <<>>
  <1>1. /\ queue \in Seq(Job \cup {Final}) /\ DOMAIN queue = 1 .. Len(queue) /\ Len(queue) \in Nat
        /\ \A i \in DOMAIN queue : queue[i] = Final => i = Len(queue)
        /\ qstate = "open" => \A i \in DOMAIN queue : queue[i] # Final
    BY LenProperties DEF QInv, TypeOK, FinalLast
  <1>2. Waiting = Stripped(queue) /\ Waiting' = Stripped(queue')
    BY DEF Waiting, Stripped
  <1>3. /\ Waiting \in Seq(Job) /\ Len(Waiting) \in Nat
        /\ Len(Waiting) = Len(queue) \/ (Len(Waiting) = Len(queue) - 1 /\ queue # <<>>)
        /\ \A i \in 1 .. Len(Waiting) : Waiting[i] = queue[i]
        /\ qstate = "open" => Waiting = queue
    BY <1>1, <1>2, StrippedShape
  <1>4. ASSUME qstate \notin {"open", "closed"}, ~raised PROVE Waiting = <<>>
    <2>1. \A i \in DOMAIN queue : queue[i] = Final
      BY <1>4 DEF QInv, Emptied
    <2>2. Len(Waiting) # 0 => 1 \in 1 .. Len(Waiting) /\ 1 \in DOMAIN queue
      <3>1. /\ Len(Waiting) \in Nat /\ Len(queue) \in Nat
            /\ Len(Waiting) = Len(queue) \/ Len(Waiting) = Len(queue) - 1
        BY <1>1, <1>3
      <3>2. Len(Waiting) # 0 => 1 \in 1 .. Len(Waiting) /\ 1 \in 1 .. Len(queue)
        BY <3>1, Lengths
      <3> QED BY <1>1, <3>2
    <2>3. Len(Waiting) # 0 => Waiting[1] = Final /\ Waiting[1] \in Job
      BY <1>3, <2>1, <2>2
    <2>4. Len(Waiting) = 0
      BY <2>3, JobsAssumption
    <2> QED BY <1>3, <2>4, EmptySeq
  <1> QED BY <1>1, <1>2, <1>3, <1>4

\* Cancelling takes jobs from the front, and all of them unless it raises.
LEMMA CancelStrips ==
    ASSUME QInv, NEW a, NEW o, o = Cancelled(a), NEW q,
           q = o.queue \/ (~o.raised /\ q = Append(o.queue, Final))
    PROVE  /\ \E l \in 0 .. Len(Waiting) : Stripped(q) = SubSeq(Waiting, l + 1, Len(Waiting))
           /\ ~o.raised => Stripped(q) = <<>>
  <1>1. PICK m \in 0 .. Len(queue) :
            /\ o.queue \in Seq(Job \cup {Final})
            /\ Len(o.queue) = Len(queue) - m
            /\ \A i \in 1 .. (Len(queue) - m) : o.queue[i] = queue[i + m]
            /\ ~o.raised => m = Len(queue)
    BY CancelTakes, Zenon DEF QInv
  <1>2. /\ queue \in Seq(Job \cup {Final}) /\ Len(queue) \in Nat
        /\ \A i \in DOMAIN queue : queue[i] = Final => i = Len(queue)
        /\ Waiting = Stripped(queue) /\ Waiting \in Seq(Job) /\ Len(Waiting) \in Nat
    BY WaitingIs, LenProperties
  <1>3. ASSUME ~o.raised PROVE o.queue = <<>>
    <2>1. Len(o.queue) = 0
      BY <1>1, <1>2, <1>3
    <2> QED BY <1>1, <2>1, EmptySeq
  <1>4. ASSUME ~o.raised PROVE Stripped(q) = <<>>
    <2>1. Stripped(<<>>) = <<>>
      BY DEF Stripped
    <2>2. Stripped(Append(o.queue, Final)) = o.queue
      BY <1>1, StrippedFinal
    <2> QED BY <1>3, <1>4, <2>1, <2>2
  <1>5. CASE q = o.queue
    <2>1. \E l \in 0 .. Len(Stripped(queue)) :
              Stripped(o.queue) = SubSeq(Stripped(queue), l + 1, Len(Stripped(queue)))
      BY <1>1, <1>2, StrippedSuffix
    <2> QED BY <1>2, <1>4, <1>5, <2>1
  <1>6. CASE ~o.raised
    <2>1. /\ SubSeq(Waiting, Len(Waiting) + 1, Len(Waiting)) = <<>>
          /\ Len(Waiting) \in 0 .. Len(Waiting)
      BY <1>2, SubSeqEmpty
    <2>2. Stripped(q) = <<>>
      BY <1>4, <1>6
    <2> QED BY <2>1, <2>2
  <1> QED BY <1>5, <1>6

\* A cancellation, with the release of the runner's job that has caused it or without,
\* clears the mailbox or breaks it.
LEMMA CancelClears ==
    ASSUME QInv, NEW a, NEW o, o = Cancelled(a),
           queue' = o.queue \/ (~o.raised /\ queue' = Append(o.queue, Final)),
           raised' = (raised \/ o.raised), accepted' = accepted,
           qstate' \in {"cancelled", "completed"},
           current' \in {current, None},
           qstate \in {"open", "closed"} \/ raised
    PROVE  Box!Clear \/ Box!Break
  <1>1. /\ \E l \in 0 .. Len(Waiting) : Waiting' = SubSeq(Waiting, l + 1, Len(Waiting))
        /\ ~o.raised => Waiting' = <<>>
    BY CancelStrips, WaitingIs
  <1>2. CASE raised'
    <2>1. Mode' = "broken" /\ Mode # "cleared"
      BY <1>2 DEF Mode
    <2> QED BY <1>1, <2>1 DEF Box!Break, Box!Released
  <1>3. CASE ~raised'
    <2>1. ~raised /\ ~o.raised
      BY <1>3 DEF QInv, TypeOK
    <2>2. Mode' = "cleared" /\ Mode \in {"open", "shut"}
      BY <1>3, <2>1 DEF Mode
    <2> QED BY <1>1, <2>1, <2>2 DEF Box!Clear, Box!Released
  <1> QED BY <1>2, <1>3

\* A job that is new has not been put in.
LEMMA NewIsNotPut ==
    ASSUME QInv, NEW j \in Job, status[j] = "new"
    PROVE  j \notin accepted
  BY NewIsNowhere DEF QInv, Traced, Ended

LEMMA MailboxGet ==
    ASSUME QInv, ActiveInv, RunnerGet
    PROVE  Box!Next \/ UNCHANGED Box!vars
  <1> DEFINE n == Len(queue)
  <1>1. /\ current = None /\ queue # <<>> /\ queue' = Tail(queue)
        /\ UNCHANGED <<accepted, raised>>
    BY DEF RunnerGet
  <1>2. /\ queue \in Seq(Job \cup {Final}) /\ DOMAIN queue = 1 .. n /\ n \in Nat \ {0}
        /\ \A i \in DOMAIN queue : queue[i] = Final => i = n
        /\ Waiting = Stripped(queue) /\ Waiting' = Stripped(queue')
        /\ Waiting \in Seq(Job) /\ Len(Waiting) \in Nat
        /\ qstate \notin {"open", "closed"} /\ ~raised => Waiting = <<>>
    BY <1>1, WaitingIs, LenProperties, EmptySeq
  <1>3. /\ Head(queue) = queue[1] /\ queue' \in Seq(Job \cup {Final}) /\ Len(queue') = n - 1
        /\ DOMAIN queue' = 1 .. n - 1 /\ \A i \in 1 .. n - 1 : queue'[i] = queue[i + 1]
    BY <1>1, <1>2, HeadTailProperties, LenProperties
  <1>4. /\ \A i \in 1 .. Len(Waiting) : Waiting[i] = queue[i]
        /\ Len(Waiting) = n \/ (Len(Waiting) = n - 1 /\ queue[n] = Final)
    BY <1>2, StrippedShape
  <1>5. CASE Head(queue) = Final
    <2>1. qstate' = "completed" /\ UNCHANGED current
      BY <1>5 DEF RunnerGet
    <2>2. n = 1 /\ qstate # "open"
      BY <1>2, <1>3, <1>5 DEF QInv, FinalLast
    <2>3. Waiting = <<>>
      <3>1. Len(Waiting) # 0 => Waiting[1] = Final /\ Waiting[1] \in Job
        BY <1>2, <1>3, <1>4, <1>5, <2>2
      <3> QED BY <1>2, <3>1, JobsAssumption, EmptySeq
    <2>4. Waiting' = <<>>
      <3>1. queue' = <<>>
        BY <1>3, <2>2, EmptySeq
      <3> QED BY <1>2, <3>1 DEF Stripped
    <2>5. CASE qstate = "closed" /\ raised
      <3>1. Mode = "shut" /\ Mode' = "broken"
        BY <1>1, <2>1, <2>5 DEF Mode
      <3>2. 0 \in 0 .. Len(Waiting) /\ SubSeq(Waiting, 0 + 1, Len(Waiting)) = <<>>
        BY <2>3
      <3>3. Box!Break
        BY <1>1, <2>1, <2>4, <3>1, <3>2 DEF Box!Break
      <3> QED BY <3>3 DEF Box!Next
    <2>6. CASE qstate = "closed" /\ ~raised
      <3>1. Mode = "shut" /\ Mode' = "cleared"
        BY <1>1, <2>1, <2>6 DEF Mode
      <3>2. Box!Clear
        BY <1>1, <2>1, <2>4, <3>1 DEF Box!Clear
      <3> QED BY <3>2 DEF Box!Next
    <2>7. CASE qstate # "closed"
      <3>1. Mode' = Mode
        BY <1>1, <2>1, <2>2, <2>7 DEF Mode, QInv, TypeOK
      <3> QED BY <1>1, <2>1, <2>3, <2>4, <3>1 DEF Box!vars
    <2> QED BY <2>5, <2>6, <2>7
  <1>6. CASE Head(queue) # Final
    <2>1. current' = Head(queue) /\ UNCHANGED qstate
      BY <1>6 DEF RunnerGet
    <2>2. Len(Waiting) # 0
      <3>1. n = 1 => queue[n] # Final
        BY <1>3, <1>6
      <3> DEFINE k == Len(Waiting)
      <3>2. n \in Nat /\ n # 0 /\ k \in Nat /\ (k = n \/ k = n - 1)
        BY <1>2, <1>4
      <3>3. k = n \/ queue[n] = Final
        BY <1>4
      <3> HIDE DEF n, k
      <3>4. k = 0 => n = 0 \/ (n = 1 /\ k # n)
        BY <3>2, Lengths
      <3>5. k # 0
        BY <3>1, <3>2, <3>3, <3>4
      <3> QED BY <3>5 DEF k
    <2>3. /\ Waiting # <<>> /\ Head(Waiting) = Head(queue)
          /\ Tail(Waiting) \in Seq(Job) /\ Len(Tail(Waiting)) = Len(Waiting) - 1
          /\ \A i \in 1 .. Len(Waiting) - 1 : Tail(Waiting)[i] = Waiting[i + 1]
      <3>1. Waiting # <<>>
        BY <1>2, <2>2, EmptySeq
      <3>2. /\ Tail(Waiting) \in Seq(Job) /\ Len(Tail(Waiting)) = Len(Waiting) - 1
            /\ \A i \in 1 .. Len(Tail(Waiting)) : Tail(Waiting)[i] = Waiting[i + 1]
        BY <1>2, <3>1, HeadTailProperties
      <3>3. 1 \in 1 .. Len(Waiting) /\ Head(Waiting) = Waiting[1]
        BY <1>2, <2>2, <3>1
      <3> QED BY <1>3, <1>4, <3>1, <3>2, <3>3
    <2>4. Waiting' = Tail(Waiting)
      <3>1. ASSUME NEW i \in DOMAIN queue', queue'[i] = Final PROVE i = Len(queue')
        <4>1. i + 1 \in DOMAIN queue /\ queue[i + 1] = Final
          BY <1>2, <1>3, <3>1
        <4> QED BY <1>2, <1>3, <3>1, <4>1
      <3>2. /\ Waiting' \in Seq(Job) /\ Len(Waiting') \in Nat
            /\ \A i \in 1 .. Len(Waiting') : Waiting'[i] = queue'[i]
            /\ \/ Len(Waiting') = n - 1
               \/ Len(Waiting') = n - 1 - 1 /\ n - 1 # 0 /\ queue'[n - 1] = Final
        BY <1>2, <1>3, <3>1, StrippedShape, EmptySeq
      <3>3. n - 1 # 0 => queue'[n - 1] = queue[n]
        BY <1>2, <1>3
      <3>4. Len(Waiting) = n => queue[n] # Final
        BY <1>2, <1>4, JobsAssumption
      <3>5. Len(Waiting') = n - 1 /\ n - 1 # 0 => queue'[n - 1] # Final
        BY <1>2, <3>2, JobsAssumption
      <3>6. Len(Waiting') = Len(Waiting) - 1
        BY <1>2, <1>4, <2>2, <3>2, <3>3, <3>4, <3>5
      <3>7. ASSUME NEW i \in 1 .. Len(Waiting') PROVE Waiting'[i] = Tail(Waiting)[i]
        <4>1. i \in 1 .. n - 1 /\ i \in 1 .. Len(Waiting) - 1 /\ i + 1 \in 1 .. Len(Waiting)
          <5> DEFINE k == Len(Waiting)
          <5>1. n \in Nat /\ k \in Nat /\ (k = n \/ k = n - 1)
            BY <1>2, <1>4
          <5>2. i \in 1 .. k - 1
            BY <3>6
          <5> HIDE DEF n, k
          <5>3. i \in 1 .. n - 1 /\ i + 1 \in 1 .. k
            BY <5>1, <5>2, Lengths
          <5> QED BY <5>2, <5>3 DEF k
        <4>2. Waiting'[i] = queue[i + 1]
          BY <1>3, <3>2, <4>1
        <4> QED BY <1>4, <2>3, <4>1, <4>2
      <3> DEFINE u == Tail(Waiting)
                 w == Waiting'
      <3>8. /\ u \in Seq(Job) /\ w \in Seq(Job) /\ Len(w) = Len(u)
            /\ \A i \in 1 .. Len(w) : w[i] = u[i]
        BY <2>3, <3>2, <3>6, <3>7
      <3> HIDE DEF u, w
      <3>9. w = u
        BY <3>8, SeqEqual
      <3> QED BY <3>9 DEF u, w
    <2>5. Mode # "cleared" /\ Mode' = Mode
      BY <1>1, <1>2, <2>1, <2>3 DEF Mode
    <2>6. Box!Take
      BY <1>1, <2>1, <2>3, <2>4, <2>5 DEF Box!Take
    <2> QED BY <2>6 DEF Box!Next
  <1> QED BY <1>5, <1>6

LEMMA MailboxInit == Init => Box!Init /\ ActiveInv
  BY DEF Init, Box!Init, Waiting, Mode, ActiveInv

\* Every step of the queue is one of the mailbox, or none.
LEMMA MailboxStep ==
    ASSUME QInv, ActiveInv, [Next]_vars \/ Cancels
    PROVE  [Box!Next]_(Box!vars)
  <1> SUFFICES Box!Next \/ UNCHANGED Box!vars
    OBVIOUS
  <1>1. ASSUME UNCHANGED <<qstate, queue, current, accepted, raised>>
        PROVE  UNCHANGED Box!vars
    BY <1>1 DEF Box!vars, Mode, Waiting
  <1>2. CASE \E j \in Job : Enqueue(j)
    <2>1. PICK j \in Job : Enqueue(j)
      BY <1>2
    <2>2. CASE qstate = "open"
      <3>1. /\ queue' = Append(queue, j) /\ accepted' = accepted \cup {j}
            /\ UNCHANGED <<qstate, current, raised>>
        BY <2>1, <2>2 DEF Enqueue, Put
      <3>2. j \notin accepted /\ j # Final
        BY <2>1, NewIsNotPut, JobsAssumption DEF Enqueue
      <3>3. queue \in Seq(Job \cup {Final}) /\ Waiting = queue /\ Waiting' = Stripped(queue')
        BY <2>2, WaitingIs
      <3>4. /\ queue' # <<>> /\ Len(queue') = Len(queue) + 1 /\ queue'[Len(queue) + 1] = j
        BY <3>1, <3>3, Longer
      <3>5. Waiting' = Append(Waiting, j)
        BY <3>1, <3>2, <3>3, <3>4 DEF Stripped
      <3>6. Mode = "open" /\ Mode' = "open"
        BY <2>2, <3>1 DEF Mode
      <3>7. Box!Put(j)
        BY <3>1, <3>2, <3>5, <3>6 DEF Box!Put
      <3> QED BY <3>7 DEF Box!Next
    <2>3. CASE qstate # "open"
      BY <1>1, <2>1, <2>3 DEF Enqueue
    <2> QED BY <2>2, <2>3
  <1>3. CASE Close \/ \E j \in Job : JobDisconnected(j)
    <2>1. Closing(<<>>) /\ UNCHANGED <<current, accepted, raised>>
      BY <1>3 DEF Close, JobDisconnected, JobEnds
    <2>2. CASE qstate = "open"
      <3>1. qstate' = "closed" /\ queue' = Append(queue, Final)
        BY <2>1, <2>2, ClosingShape DEF QInv
      <3>2. queue \in Seq(Job \cup {Final}) /\ Waiting = queue /\ Waiting' = Stripped(queue')
        BY <2>2, WaitingIs
      <3>3. Waiting' = Waiting
        BY <3>1, <3>2, StrippedFinal
      <3>4. Mode = "open" /\ Mode' = "shut"
        BY <2>2, <3>1 DEF Mode
      <3>5. Box!Shut
        BY <2>1, <3>3, <3>4 DEF Box!Shut
      <3> QED BY <3>5 DEF Box!Next
    <2>3. CASE qstate # "open"
      BY <1>1, <2>1, <2>3 DEF Closing
    <2> QED BY <2>2, <2>3
  <1>4. CASE \E j \in Job : CloseWith(j)
    <2>1. PICK j \in Job : CloseWith(j)
      BY <1>4
    <2>2. Closing(<<j>>) /\ UNCHANGED <<current, raised>>
      BY <2>1 DEF CloseWith
    <2>3. CASE qstate = "open"
      <3>1. /\ qstate' = "closed" /\ queue' = Append(Append(queue, j), Final)
            /\ accepted' = accepted \cup {j}
        BY <2>1, <2>2, <2>3, ClosingShape DEF QInv, CloseWith
      <3>2. j \notin accepted
        BY <2>1, NewIsNotPut DEF CloseWith
      <3>3. queue \in Seq(Job \cup {Final}) /\ Waiting = queue /\ Waiting' = Stripped(queue')
        BY <2>3, WaitingIs
      <3>4. Append(queue, j) \in Seq(Job \cup {Final})
        BY <3>3, Longer
      <3>5. Waiting' = Append(Waiting, j)
        BY <3>1, <3>3, <3>4, StrippedFinal
      <3>6. Mode = "open" /\ Mode' = "shut"
        BY <2>3, <3>1 DEF Mode
      <3>7. Box!ShutWith(j)
        BY <2>2, <3>1, <3>2, <3>5, <3>6 DEF Box!ShutWith
      <3> QED BY <3>7 DEF Box!Next
    <2>4. CASE qstate # "open"
      BY <1>1, <2>1, <2>2, <2>4 DEF Closing, CloseWith
    <2> QED BY <2>3, <2>4
  <1>5. CASE RunnerGet
    BY <1>5, MailboxGet
  <1>6. CASE RunnerDone \/ RunnerCancelled
    <2>1. current # None /\ current' = None /\ UNCHANGED <<qstate, queue, accepted, raised>>
      BY <1>6 DEF RunnerDone, RunnerCancelled, Resumes
    <2>2. UNCHANGED <<Mode, Waiting>>
      BY <2>1 DEF Mode, Waiting
    <2>3. Box!Release
      BY <2>1, <2>2 DEF Box!Release, Box!Released
    <2> QED BY <2>3 DEF Box!Next
  <1>7. CASE RunnerFailed
    <2> DEFINE o == Cancelled(None)
    <2>1. current # None /\ current' = None /\ accepted' = accepted
      BY <1>7 DEF RunnerFailed, Resumes
    <2>2. CASE qstate \in {"open", "closed"}
      <3>1. /\ qstate' = "cancelled"
            /\ queue' = o.queue \/ (~o.raised /\ queue' = Append(o.queue, Final))
        BY <1>7, <2>2 DEF RunnerFailed, Put
      <3>2. raised' = (raised \/ o.raised)
        <4>1. o.raised \in BOOLEAN
          BY CancelJobs, Zenon DEF QInv
        <4>2. raised' = IF o.raised THEN TRUE ELSE raised
          BY <1>7, <2>2 DEF RunnerFailed
        <4> QED BY <4>1, <4>2 DEF QInv, TypeOK
      <3> HIDE DEF o
      <3>3. Box!Clear \/ Box!Break
        BY <2>1, <2>2, <3>1, <3>2, CancelClears DEF o
      <3> QED BY <3>3 DEF Box!Next
    <2>3. CASE qstate \notin {"open", "closed"}
      <3>1. UNCHANGED <<qstate, queue, raised>>
        BY <1>7, <2>3 DEF RunnerFailed
      <3>2. UNCHANGED <<Mode, Waiting>>
        BY <3>1 DEF Mode, Waiting
      <3>3. Box!Release
        BY <2>1, <3>2 DEF Box!Release, Box!Released
      <3> QED BY <3>3 DEF Box!Next
    <2> QED BY <2>2, <2>3
  <1>8. CASE Cancels \/ Cancel
    <2> DEFINE o == Cancelled(active)
    <2>1. Cancelling /\ UNCHANGED <<current, accepted>>
      BY <1>8 DEF Cancels, Cancel
    <2>2. CASE qstate \in {"open", "closed"}
      <3>1. /\ qstate' = "cancelled" /\ raised' = (raised \/ o.raised)
            /\ queue' = o.queue \/ (~o.raised /\ queue' = Append(o.queue, Final))
        BY <2>1, <2>2 DEF Cancelling, Put
      <3> HIDE DEF o
      <3>2. Box!Clear \/ Box!Break
        BY <2>1, <2>2, <3>1, CancelClears DEF o
      <3> QED BY <3>2 DEF Box!Next
    <2>3. CASE qstate \notin {"open", "closed"}
      BY <1>1, <2>1, <2>3 DEF Cancelling
    <2> QED BY <2>2, <2>3
  <1>9. CASE JoinTimeout
    <2> DEFINE o == Cancelled(active)
    <2>1. /\ qstate' = AfterCancel /\ queue' = o.queue /\ raised' = (raised \/ o.raised)
          /\ UNCHANGED <<current, accepted>>
      BY <1>9 DEF JoinTimeout
    <2>2. qstate' \in {"cancelled", "completed"}
      BY <2>1 DEF AfterCancel
    <2>3. CASE qstate \in {"open", "closed"} \/ raised
      <3> HIDE DEF o
      <3>1. Box!Clear \/ Box!Break
        BY <2>1, <2>2, <2>3, CancelClears DEF o
      <3> QED BY <3>1 DEF Box!Next
    <2>4. CASE qstate \notin {"open", "closed"} /\ ~raised
      <3>1. active = None /\ Waiting = <<>>
        BY <2>4, WaitingIs DEF ActiveInv
      <3>2. ~o.raised
        <4>1. \A i \in DOMAIN queue : queue[i] = Final
          BY <2>4 DEF QInv, Emptied
        <4>2. FailedAt = {} /\ ~Failed(active)
          BY <3>1, <4>1, JobsAssumption DEF FailedAt, Failed
        <4> QED BY <4>2 DEF Cancelled
      <3>3. raised' = raised
        BY <2>1, <2>4, <3>2 DEF QInv, TypeOK
      <3> HIDE DEF o
      <3>4. Waiting' = <<>>
        BY <2>1, <3>2, CancelStrips, WaitingIs DEF o
      <3>5. Mode' = Mode
        BY <2>2, <2>4, <3>3 DEF Mode
      <3> QED BY <2>1, <3>1, <3>4, <3>5 DEF Box!vars
    <2> QED BY <2>3, <2>4
  <1>10. CASE \/ Start \/ RunnerIdle \/ Join \/ JoinEnds \/ UNCHANGED vars
              \/ \E j \in Job : \/ JobReturns(j) \/ JobFails(j) \/ JobCancelled(j)
                                \/ RelayGivesUp(j) \/ JobDone(j)
    <2>1. UNCHANGED <<qstate, queue, current, accepted, raised>>
      BY <1>10 DEF Start, RunnerIdle, Join, JoinEnds, vars, JobReturns, JobFails, JobCancelled,
                   RelayGivesUp, JobDone, JobEnds
    <2> QED BY <1>1, <2>1
  <1> QED BY <1>2, <1>3, <1>4, <1>5, <1>6, <1>7, <1>8, <1>9, <1>10 DEF Next, RunnerStep

\* Who the active job is.
LEMMA ActiveKept ==
    ASSUME QInv, ActiveInv, [Next]_vars \/ Cancels
    PROVE  ActiveInv'
  <1>1. ASSUME NEW a, NEW o, o = Cancelled(a), a \in {None, current},
               active' = o.active, raised' = (raised \/ o.raised), UNCHANGED current
        PROVE  ActiveInv'
    <2>1. o.active = IF Failed(a) THEN a ELSE None
      BY <1>1 DEF Cancelled
    <2>2. Failed(a) => o.raised
      BY <1>1 DEF Cancelled
    <2> QED BY <1>1, <2>1, <2>2 DEF ActiveInv
  <1>2. CASE RunnerGet
    <2>1. current = None /\ queue # <<>> /\ raised' = raised
      BY <1>2 DEF RunnerGet
    <2>2. active = None
      BY <2>1 DEF ActiveInv
    <2>3. CASE Head(queue) = Final
      BY <1>2, <2>1, <2>2, <2>3 DEF RunnerGet, ActiveInv
    <2>4. CASE Head(queue) # Final
      <3>1. active' = Head(queue) /\ current' = Head(queue) /\ qstate' = qstate
        BY <1>2, <2>4 DEF RunnerGet
      <3>2. 1 \in DOMAIN queue /\ Head(queue) = queue[1]
        BY <2>1 DEF QInv, TypeOK
      <3>3. qstate \in {"open", "closed"} \/ raised
        BY <2>4, <3>2 DEF QInv, Emptied
      <3> QED BY <2>1, <3>1, <3>3 DEF ActiveInv
    <2> QED BY <2>3, <2>4
  <1>3. CASE RunnerDone \/ RunnerCancelled \/ RunnerFailed
    BY <1>3 DEF RunnerDone, RunnerCancelled, RunnerFailed, ActiveInv
  <1>4. CASE Cancels \/ Cancel
    <2>1. Cancelling /\ UNCHANGED current
      BY <1>4 DEF Cancels, Cancel
    <2>2. CASE qstate \in {"open", "closed"}
      <3>1. active' = Cancelled(active).active /\ raised' = (raised \/ Cancelled(active).raised)
        BY <2>1, <2>2 DEF Cancelling
      <3>2. active \in {None, current}
        BY DEF ActiveInv
      <3> QED BY <1>1, <2>1, <3>1, <3>2, Zenon
    <2>3. CASE qstate \notin {"open", "closed"}
      BY <2>1, <2>3 DEF Cancelling, ActiveInv
    <2> QED BY <2>2, <2>3
  <1>5. CASE JoinTimeout
    <2>1. /\ active' = Cancelled(active).active /\ raised' = (raised \/ Cancelled(active).raised)
          /\ UNCHANGED current
      BY <1>5 DEF JoinTimeout
    <2>2. active \in {None, current}
      BY DEF ActiveInv
    <2> QED BY <1>1, <2>1, <2>2, Zenon
  <1>6. CASE Close \/ \E j \in Job : CloseWith(j) \/ JobDisconnected(j)
    <2>1. /\ \E q : Closing(q)
          /\ UNCHANGED <<active, current, raised>>
      BY <1>6 DEF Close, CloseWith, JobDisconnected, JobEnds
    <2>2. qstate' = "closed" \/ qstate' = qstate
      BY <2>1 DEF Closing
    <2> QED BY <2>1, <2>2 DEF ActiveInv
  <1>7. CASE \/ Start \/ RunnerIdle \/ Join \/ JoinEnds \/ UNCHANGED vars
             \/ \E j \in Job : \/ Enqueue(j) \/ JobReturns(j) \/ JobFails(j) \/ JobCancelled(j)
                               \/ RelayGivesUp(j) \/ JobDone(j)
    <2>1. UNCHANGED <<qstate, active, current, raised>>
      BY <1>7 DEF Start, RunnerIdle, Join, JoinEnds, vars, Enqueue, JobReturns, JobFails,
                  JobCancelled, RelayGivesUp, JobDone, JobEnds
    <2> QED BY <2>1 DEF ActiveInv
  <1> QED BY <1>2, <1>3, <1>4, <1>5, <1>6, <1>7 DEF Next, RunnerStep

\* A queue of jobs keeps the promises of a mailbox, however its operations are
\* interleaved and whether or not cancelling raises: its runner is given the jobs one
\* at a time and in order.
THEOREM QueueIsMailbox == Spec => QueueOrder
  <1>1. Init => Box!Init /\ ActiveInv
    BY MailboxInit
  <1>2. QInv /\ ActiveInv /\ [Next]_vars => ActiveInv' /\ [Box!Next]_(Box!vars)
    BY ActiveKept, MailboxStep
  <1> QED BY <1>1, <1>2, QueueInvariant, PTL DEF Spec, QueueOrder, Box!Spec

---------------------------------------------------------------------------
(* The closing procedure.                                                  *)

\* A new job is left alone by _cancel.
LEMMA CancelLeavesNew ==
    ASSUME QInv, NEW a, NEW j \in Job, status[j] = "new"
    PROVE  Cancelled(a).status[j] = "new"
  <1>1. j \notin Drained(a)
    BY NewIsNowhere DEF Drained, Reached, Queued
  <1> QED BY <1>1 DEF Cancelled

\* Only drop() takes the closing procedure, and only the runner starts it.  What is
\* over stays so.
LEMMA MovesOfStatus ==
    ASSUME QInv, Moves
    PROVE  /\ status[CloseJob] = "new" => CloseWith(CloseJob) \/ status'[CloseJob] = "new"
           /\ status[CloseJob] # "running" => RunnerGet \/ status'[CloseJob] # "running"
           /\ \A j \in Job : status[j] \in Ended => status'[j] \in Ended
           /\ qstate # "open" => qstate' # "open"
           /\ raised => raised'
  <1>0. CloseJob \in Job /\ CloseJob \in Coroutine /\ CloseJob # Final /\ status \in [Job -> Status]
    BY CloseJobAssumption, JobsAssumption DEF Job, QInv, TypeOK
  <1>1. ASSUME NEW a
        PROVE  /\ Cancelled(a).status[CloseJob] = "running" => status[CloseJob] = "running"
               /\ status[CloseJob] = "new" => Cancelled(a).status[CloseJob] = "new"
               /\ \A j \in Job : status[j] \in Ended => Cancelled(a).status[j] \in Ended
    BY <1>0, CancelJobs, CancelLeavesNew DEF QInv
  <1>2. CASE Cancels
    BY <1>1, <1>2 DEF Cancels, Cancelling
  <1>3. CASE JoinTimeout
    BY <1>0, <1>1, <1>3 DEF JoinTimeout, AfterCancel, Ended
  <1>4. CASE RunnerFailed
    BY <1>0, <1>1, <1>4 DEF RunnerFailed
  <1>5. CASE RunnerGet
    <2>1. queue # <<>> /\ (Head(queue) # Final => Head(queue) \in Job)
      <3>1. queue # <<>>
        BY <1>5 DEF RunnerGet
      <3>2. 1 \in DOMAIN queue /\ Head(queue) = queue[1]
        BY <3>1 DEF QInv, TypeOK
      <3> QED BY <3>1, <3>2 DEF QInv, TypeOK
    <2> QED BY <1>0, <1>5, <2>1 DEF RunnerGet, Ended
  <1>6. CASE \E j \in Job : j # CloseJob /\ Enqueue(j)
    BY <1>0, <1>6 DEF Enqueue, Ended
  <1>7. CASE CloseWith(CloseJob)
    BY <1>0, <1>7 DEF CloseWith, Closing, Ended
  <1>8. CASE \E j \in Job : Ends(j)
    BY <1>0, <1>8 DEF Ends, JobReturns, JobFails, JobDisconnected, JobCancelled, RelayGivesUp,
                      JobDone, JobEnds, Closing, Ended
  <1>9. CASE \/ UNCHANGED vars \/ Close \/ Start \/ RunnerIdle \/ RunnerDone \/ RunnerCancelled
             \/ Join \/ JoinEnds
    BY <1>9 DEF vars, Close, Closing, Start, RunnerIdle, RunnerDone, RunnerCancelled, Join, JoinEnds
  <1> QED BY <1>2, <1>3, <1>4, <1>5, <1>6, <1>7, <1>8, <1>9 DEF Moves, RunnerStep, Joins

\* drop() closes the queue.
LEMMA MovesKeepOnce ==
    ASSUME QInv, CloseOnce, Moves
    PROVE  CloseOnce'
  <1>1. CloseWith(CloseJob) => qstate' # "open"
    BY DEF CloseWith, Closing
  <1> QED BY <1>1, MovesOfStatus DEF CloseOnce

\* The closing procedure that starts has nothing behind it but the final job, and
\* everything that was accepted before it is over.
LEMMA MovesKeepOrder ==
    ASSUME QInv, CloseOnce, Moves, ~raised', ClosingLast
    PROVE  JobsBeforeClosing'
  <1> SUFFICES ASSUME status'[CloseJob] = "running", NEW j \in accepted' \ {CloseJob}
               PROVE  status'[j] \in Ended
    BY DEF JobsBeforeClosing
  <1>0. CloseJob \in Job /\ CloseJob # Final /\ ~raised
    BY CloseJobAssumption, JobsAssumption, MovesOfStatus DEF Job
  <1>1. CASE status[CloseJob] = "running"
    <2>1. qstate # "open"
      BY <1>1 DEF CloseOnce
    <2>2. accepted' = accepted
      BY <2>1 DEF Moves, vars, Cancels, Close, Start, RunnerStep, RunnerGet, RunnerIdle,
                  RunnerDone, RunnerCancelled, RunnerFailed, Joins, Join, JoinEnds, JoinTimeout,
                  CloseWith, Enqueue, Ends, JobReturns, JobFails, JobDisconnected, JobCancelled,
                  RelayGivesUp, JobDone, JobEnds
    <2>3. j \in Job /\ status[j] \in Ended
      BY <1>0, <1>1, <2>2 DEF ClosingLast, JobsBeforeClosing, QInv, TypeOK
    <2> QED BY <2>3, MovesOfStatus
  <1>2. CASE status[CloseJob] # "running"
    <2>1. RunnerGet
      BY <1>2, MovesOfStatus
    <2>2. queue # <<>> /\ current = None /\ accepted' = accepted
      BY <2>1 DEF RunnerGet
    <2>3. 1 \in DOMAIN queue /\ Head(queue) = queue[1]
      BY <2>2 DEF QInv, TypeOK
    <2>4. queue[1] = CloseJob
      <3>1. queue[1] # Final => status' = [status EXCEPT ![queue[1]] = IF @ = "queued" THEN "running" ELSE @]
        BY <2>1, <2>3 DEF RunnerGet
      <3>2. queue[1] = Final => status' = status
        BY <2>1, <2>3 DEF RunnerGet
      <3> QED BY <1>0, <1>2, <3>1, <3>2 DEF QInv, TypeOK
    <2>5. qstate \in {"open", "closed"}
      BY <1>0, <2>3, <2>4 DEF QInv, Emptied
    <2>6. \A i \in DOMAIN queue : queue[i] # j
      <3> SUFFICES ASSUME NEW i \in DOMAIN queue, queue[i] = j PROVE FALSE
        OBVIOUS
      <3>1. j \in Job /\ j # Final /\ j # CloseJob
        BY <2>2, JobsAssumption DEF QInv, TypeOK
      <3>2. i # 1 /\ i \in Nat /\ i >= 1
        BY <2>4, <3>1 DEF QInv, TypeOK
      <3>3. queue[i] = Final
        BY <2>3, <2>4, <3>2 DEF ClosingLast
      <3> QED BY <3>1, <3>3
    <2>7. j \in Job /\ j # current
      BY <2>2, JobsAssumption DEF QInv, TypeOK
    <2>8. status[j] \in Ended
      BY <2>2, <2>5, <2>6, <2>7 DEF QInv, Traced, Queued, ClosingLast
    <2> QED BY <2>7, <2>8, MovesOfStatus
  <1> QED BY <1>1, <1>2

\* What stands behind the closing procedure.
LEMMA MovesKeepLast ==
    ASSUME QInv, CloseOnce, Moves, ~raised', ClosingLast,
           NEW i \in DOMAIN queue', NEW k \in DOMAIN queue', queue'[i] = CloseJob, i < k
    PROVE  queue'[k] = Final
  <1> DEFINE T == Job \cup {Final}
  <1>0. /\ CloseJob \in Job /\ CloseJob # Final /\ ~raised
        /\ queue \in Seq(T) /\ Len(queue) \in Nat /\ DOMAIN queue = 1 .. Len(queue)
    BY CloseJobAssumption, JobsAssumption, MovesOfStatus DEF Job, QInv, TypeOK
  <1>1. CASE queue' = queue
    BY <1>1 DEF ClosingLast
  <1>2. CASE RunnerGet
    <2>1. queue # <<>> /\ queue' = Tail(queue)
      BY <1>2 DEF RunnerGet
    <2>2. /\ i + 1 \in DOMAIN queue /\ k + 1 \in DOMAIN queue /\ i + 1 < k + 1
          /\ queue'[i] = queue[i + 1] /\ queue'[k] = queue[k + 1]
      BY <1>0, <2>1
    <2> QED BY <2>2 DEF ClosingLast
  <1>3. CASE qstate = "open" /\ \E j \in T \ {CloseJob} : queue' = Append(queue, j)
    <2>1. \A n \in DOMAIN queue : queue[n] # CloseJob
      BY <1>0, <1>3, NewIsNowhere DEF CloseOnce, Queued
    <2> QED BY <1>0, <1>3, <2>1
  <1>4. CASE qstate = "open" /\ CloseWith(CloseJob)
    <2>1. \A n \in DOMAIN queue : queue[n] # CloseJob
      BY <1>0, <1>4, NewIsNowhere DEF CloseOnce, Queued
    <2>2. queue' = Append(Append(queue, CloseJob), Final)
      BY <1>0, <1>4, ClosingShape DEF CloseWith, QInv
    <2>3. /\ Append(queue, CloseJob) \in Seq(T) /\ Len(Append(queue, CloseJob)) = Len(queue) + 1
          /\ \A n \in 1 .. Len(queue) : Append(queue, CloseJob)[n] = queue[n]
      BY <1>0
    <2>4. /\ DOMAIN queue' = 1 .. Len(queue) + 2 /\ queue'[Len(queue) + 2] = Final
          /\ \A n \in 1 .. Len(queue) : queue'[n] = queue[n]
      BY <1>0, <2>2, <2>3
    <2> QED BY <1>0, <2>1, <2>4
  <1>5. ASSUME NEW a, ~Cancelled(a).raised,
               queue' = Cancelled(a).queue \/ queue' = Append(Cancelled(a).queue, Final)
        PROVE  FALSE
    <2>1. Cancelled(a).queue \in Seq(T) /\ Len(Cancelled(a).queue) = 0
      <3>1. PICK m \in 0 .. Len(queue) : /\ Cancelled(a).queue \in Seq(T)
                                         /\ Len(Cancelled(a).queue) = Len(queue) - m
                                         /\ ~Cancelled(a).raised => m = Len(queue)
        BY CancelTakes DEF QInv
      <3>2. m = Len(queue)
        BY <1>5, <3>1, Zenon
      <3> QED BY <1>0, <3>1, <3>2
    <2>2. DOMAIN queue' \subseteq {1} /\ DOMAIN queue' \subseteq Nat
      BY <1>5, <2>1
    <2> QED BY <2>2
  <1>6. CASE Cancels \/ JoinTimeout \/ RunnerFailed
    <2>1. CASE Cancels
      BY <1>1, <1>5, <2>1 DEF Cancels, Cancelling, Put
    <2>2. CASE JoinTimeout
      BY <1>5, <2>2 DEF JoinTimeout
    <2>3. CASE RunnerFailed
      BY <1>1, <1>5, <2>3 DEF RunnerFailed, Put
    <2> QED BY <1>6, <2>1, <2>2, <2>3
  <1>7. CASE \E j \in Job : (j # CloseJob /\ Enqueue(j)) \/ Ends(j)
    <2>1. CASE \E j \in Job : j # CloseJob /\ Enqueue(j)
      BY <1>1, <1>3, <2>1 DEF Enqueue, Put
    <2>2. CASE \E j \in Job : Ends(j)
      <3>1. Closing(<<>>) \/ queue' = queue
        BY <2>2 DEF Ends, JobReturns, JobFails, JobDisconnected, JobCancelled, RelayGivesUp,
                    JobDone, JobEnds
      <3>2. queue' = queue \/ (qstate = "open" /\ queue' = Append(queue, Final))
        BY <3>1, ClosingShape DEF QInv, Closing
      <3> QED BY <1>0, <1>1, <1>3, <3>2
    <2> QED BY <1>7, <2>1, <2>2
  <1>8. CASE Close
    BY <1>0, <1>3, <1>8, ClosingShape DEF Close, QInv
  <1>9. CASE CloseWith(CloseJob) /\ qstate # "open"
    BY <1>1, <1>9 DEF CloseWith, Closing
  <1>10. CASE UNCHANGED vars \/ Start \/ RunnerIdle \/ RunnerDone \/ RunnerCancelled \/ Join \/ JoinEnds
    BY <1>1, <1>10 DEF vars, Start, RunnerIdle, RunnerDone, RunnerCancelled, Join, JoinEnds
  <1> QED BY <1>2, <1>4, <1>6, <1>7, <1>8, <1>9, <1>10 DEF Moves, RunnerStep, Joins

\* A task is called back before it is over only if the queue was cancelled.
LEMMA MovesKeepCallbacks ==
    ASSUME QInv, Moves, ClosingLast, qstate' \in {"open", "closed"}, NEW j \in callbacks'
    PROVE  status'[j] \in Ended
  <1>1. qstate \in {"open", "closed"}
    BY DEF Moves, vars, Cancels, Cancelling, Close, Start, RunnerStep, RunnerGet, RunnerIdle,
           RunnerDone, RunnerCancelled, RunnerFailed, Joins, Join, JoinEnds, JoinTimeout, AfterCancel,
           CloseWith, Closing, Enqueue, Ends, JobReturns, JobFails, JobDisconnected, JobCancelled,
           RelayGivesUp, JobDone, JobEnds
  <1>2. callbacks' \subseteq callbacks \/ RunnerCancelled
    BY <1>1 DEF Moves, vars, Cancels, Cancelling, Close, Start, RunnerStep, RunnerGet, RunnerIdle,
           RunnerDone, RunnerCancelled, RunnerFailed, Joins, Join, JoinEnds, JoinTimeout, AfterCancel,
           CloseWith, Closing, Enqueue, Ends, JobReturns, JobFails, JobDisconnected, JobCancelled,
           RelayGivesUp, JobDone, JobEnds
  <1>3. CASE j \in callbacks
    BY <1>1, <1>3, MovesOfStatus DEF ClosingLast, QInv, TypeOK
  <1>4. CASE j \notin callbacks
    BY <1>2, <1>4 DEF RunnerCancelled, Resumes
  <1> QED BY <1>3, <1>4

LEMMA MovesKeepClosing ==
    ASSUME QInv, CloseOnce, Moves, raised \/ ClosingLast
    PROVE  (raised \/ ClosingLast)'
  <1> SUFFICES ASSUME ~raised' PROVE ClosingLast'
    OBVIOUS
  <1>1. ClosingLast
    BY MovesOfStatus
  <1> QED BY <1>1, MovesKeepLast, MovesKeepCallbacks, MovesKeepOrder DEF ClosingLast

---------------------------------------------------------------------------
(* The client.                                                             *)

\* How far the handler is, and what there is with it.
LEMMA StepKeepsPhases ==
    ASSUME QInv, LTypeOK, Phases, [LNext]_lvars
    PROVE  Phases'
  <1>1. CASE HandshakeRefused \/ HandshakeDisconnected \/ GatherDone
    <2>1. handler \in {"handshake", "gather", "auth"} /\ ~tasks
      BY <1>1 DEF Phases, HandshakeRefused, HandshakeDisconnected, GatherDone
    <2>2. CASE \E r \in Kind : HandshakeFails(r)
      BY <2>1, <2>2 DEF HandshakeFails, CancelTasks, Phases
    <2>3. CASE GatherDone /\ state = "authenticated"
      BY <2>1, <2>3 DEF GatherDone, Phases, vars
    <2> QED BY <1>1, <2>2, <2>3 DEF HandshakeRefused, HandshakeDisconnected, GatherDone, Kind
  <1>2. CASE HandshakeDone \/ HandlerResumes \/ HandlerEnds \/ Authenticate
    BY <1>2 DEF HandshakeDone, HandlerResumes, HandlerEnds, Authenticate, Phases, Kind, vars,
                Start, LTypeOK
  <1>3. CASE HandlerJoins \/ JoinOver
    <2>1. UNCHANGED clientVars /\ (runner' = runner \/ JoinTimeout)
      BY <1>3 DEF HandlerJoins, JoinOver, Join, JoinEnds, JoinTimeout
    <2>2. runner = "none" => runner' = "none"
      BY <2>1 DEF JoinTimeout
    <2> QED BY <2>1, <2>2 DEF Phases, clientVars
  <1>4. CASE RunnerSilent \/ RunnerReports
    <2>1. runner # "none"
      BY <1>4 DEF RunnerSilent, RunnerReports, RunnerGet, RunnerIdle, RunnerDone, RunnerCancelled,
                  RunnerFailed, Resumes
    <2> QED BY <1>4, <2>1 DEF RunnerSilent, RunnerReports, CancelTasks, Phases, clientVars
  <1>5. CASE Drop
    BY <1>5 DEF Drop, CloseWith, CancelTasks, Phases
  <1>6. CASE PeerCloses \/ HandlerCloses \/ ConnectionClosed
    BY <1>6 DEF PeerCloses, HandlerCloses, ConnectionClosed, LoseConnection, JobReturns, JobEnds,
                Phases, vars
  <1>7. CASE TaskFails \/ TaskDisconnected
    BY <1>7 DEF TaskFails, TaskDisconnected, Phases, vars
  <1>8. CASE \E j \in Job : EnqueueFor(j) \/ JobStep(j) \/ RelayOver(j)
    BY <1>8 DEF EnqueueFor, JobStep, PackMessage, MessageRefused, Sent, SendDisconnected, JobOver,
                RelayOver, Enqueue, JobFails, JobReturns, JobDisconnected, JobCancelled, JobDone,
                RelayGivesUp, JobEnds, Phases, clientVars, vars
  <1>9. CASE PathCleaned \/ UNCHANGED lvars
    BY <1>9 DEF PathCleaned, lvars, clientVars, vars, Phases
  <1> QED BY <1>1, <1>2, <1>3, <1>4, <1>5, <1>6, <1>7, <1>8, <1>9 DEF LNext, HandlerStep

LEMMA StepKeepsTypes ==
    ASSUME LTypeOK, TypeOK', [LNext]_lvars
    PROVE  LTypeOK'
  <1>0. CloseJob \in Coroutine
    BY CloseJobAssumption
  <1>1. CASE HandshakeRefused \/ HandshakeDisconnected \/ GatherDone
    <2>1. ASSUME NEW r \in Kind, HandshakeFails(r) PROVE LTypeOK'
      BY <2>1 DEF HandshakeFails, CancelTasks, Result, LTypeOK, Handler, Kind
    <2>2. CASE GatherDone /\ handler' = "auth"
      BY <2>2, <2>1 DEF GatherDone, LTypeOK, Handler, Kind
    <2>3. CASE ~(GatherDone /\ handler' = "auth")
      BY <1>1, <2>1, <2>3 DEF HandshakeRefused, HandshakeDisconnected, GatherDone, Kind
    <2> QED BY <2>2, <2>3
  <1>2. CASE HandshakeDone \/ HandlerResumes \/ HandlerEnds \/ Authenticate
    <2>1. CASE HandshakeDone
      BY <2>1 DEF HandshakeDone, LTypeOK, Handler
    <2>2. CASE HandlerResumes
      BY <2>2 DEF HandlerResumes, LTypeOK, Handler
    <2>3. CASE HandlerEnds \/ Authenticate
      BY <2>3 DEF HandlerEnds, Authenticate, LTypeOK, Handler
    <2> QED BY <1>2, <2>1, <2>2, <2>3
  <1>3. CASE HandlerJoins \/ JoinOver \/ RunnerSilent \/ RunnerReports
    BY <1>3 DEF HandlerJoins, JoinOver, RunnerSilent, RunnerReports, CancelTasks, KindNow, Result,
                LTypeOK, Kind, clientVars
  <1>4. CASE Drop
    BY <1>4 DEF Drop, CancelTasks, Result, LTypeOK, Kind
  <1>5. CASE PeerCloses \/ HandlerCloses \/ ConnectionClosed \/ TaskFails \/ TaskDisconnected
    BY <1>5 DEF PeerCloses, HandlerCloses, ConnectionClosed, TaskFails, TaskDisconnected,
                LoseConnection, Result, LTypeOK, Kind
  <1>6. CASE \E j \in Job : EnqueueFor(j) \/ JobStep(j) \/ RelayOver(j)
    BY <1>6 DEF EnqueueFor, JobStep, PackMessage, MessageRefused, Sent, SendDisconnected, JobOver,
                RelayOver, LTypeOK, clientVars
  <1>7. CASE PathCleaned \/ UNCHANGED lvars
    BY <1>7 DEF PathCleaned, lvars, clientVars, LTypeOK
  <1> QED BY <1>1, <1>2, <1>3, <1>4, <1>5, <1>6, <1>7 DEF LNext, HandlerStep

---------------------------------------------------------------------------
(* The tasks of the client as a group.                                     *)

\* What a step of the client is to its tasks: the outcome is the result, they work as
\* long as they run, and the connection is lost when it is closed.
Still == UNCHANGED <<result, tasks, conn>> /\ Waiter' = Waiter

LEMMA StillStutters == Still => UNCHANGED Group!vars
BY DEF Still, Outcome, Group!vars

\* The tasks are told to stop, by whoever finds a reason: if there is no result yet, it
\* is settled; otherwise they do not run, or are not to.
LEMMA CancelSettles ==
    ASSUME LTypeOK, Phases, NEW r \in Kind \cup {"chained"}, CancelTasks(r),
           UNCHANGED <<conn, handler>>
    PROVE  Group!Next \/ UNCHANGED Group!vars
  <1>1. tasks' = FALSE /\ Waiter' = Waiter /\ conn' = conn
    BY DEF CancelTasks, Waiter
  <1>2. CASE result = "unset" /\ ~cancelled
    <2>1. Outcome = "none" /\ Outcome' \in {"pending", "final"}
      BY <1>2 DEF CancelTasks, Result, Outcome, Kind
    <2>2. Group!Settle
      BY <1>1, <2>1 DEF Group!Settle
    <2> QED BY <2>2 DEF Group!Next
  <1>3. CASE ~(result = "unset" /\ ~cancelled)
    <2>1. Outcome' = Outcome
      BY <1>3 DEF CancelTasks, Result, Outcome
    <2>2. CASE tasks
      <3>1. Group!Finish
        BY <1>1, <2>1, <2>2 DEF Group!Finish
      <3> QED BY <3>1 DEF Group!Next
    <2>3. CASE ~tasks
      BY <1>1, <2>1, <2>3 DEF Group!vars, LTypeOK
    <2> QED BY <2>2, <2>3
  <1> QED BY <1>2, <1>3

\* A connection that is lost makes the result of a dropped client final.
LEMMA LostLoses ==
    ASSUME LoseConnection, UNCHANGED <<handler, tasks>>
    PROVE  Group!Next
  <1>1. conn' = "closed" /\ Waiter' = Waiter /\ tasks' = tasks
    BY DEF LoseConnection, Waiter
  <1>2. Outcome' \in {Outcome, IF Outcome = "pending" THEN "final" ELSE Outcome}
    BY DEF LoseConnection, Outcome
  <1>3. Group!Lose
    BY <1>1, <1>2 DEF Group!Lose
  <1> QED BY <1>3 DEF Group!Next

\* A handshake that has failed starts no tasks; its handler waits for the result it has
\* given them, or goes on at once.
LEMMA FailureBegins ==
    ASSUME LTypeOK, Phases, NEW r \in Kind, HandshakeFails(r),
           handler \in {"handshake", "gather", "auth"}
    PROVE  Group!Next
  <1>1. ~tasks /\ Waiter = "before" /\ conn' = conn
    BY DEF Phases, HandshakeFails, Waiter
  <1>2. CASE raised'
    <2>1. Waiter' = "on" /\ Outcome' = Outcome /\ tasks' = tasks
      BY <1>2 DEF HandshakeFails, Waiter, Outcome
    <2>2. Group!Abandon
      BY <1>1, <2>1 DEF Group!Abandon
    <2> QED BY <2>2 DEF Group!Next
  <1>3. CASE ~raised'
    <2>1. handler' = "waiting" /\ CancelTasks(r)
      BY <1>3 DEF HandshakeFails
    <2>2. Waiter' = "waits" /\ tasks' = FALSE
      BY <2>1 DEF Waiter, CancelTasks
    <2>3. Outcome' = Outcome \/ (Outcome = "none" /\ Outcome' = "final")
      BY <2>1 DEF CancelTasks, Result, Outcome, Kind
    <2>4. Group!Begin
      BY <1>1, <2>2, <2>3 DEF Group!Begin
    <2> QED BY <2>4 DEF Group!Next
  <1> QED BY <1>2, <1>3

\* Tasks start for a client that is still on its path, which has no result; a handler
\* whose path was given up goes on without them.
LEMMA DoneBegins ==
    ASSUME LTypeOK, Phases, HandshakeDone
    PROVE  Group!Next
  <1>1. UNCHANGED <<result, conn>> /\ Waiter = "before" /\ Outcome' = Outcome
    BY DEF HandshakeDone, Waiter, Outcome
  <1>2. CASE detached
    <2>1. Waiter' = "on" /\ tasks' = tasks
      BY <1>2 DEF HandshakeDone, Waiter
    <2>2. Group!Abandon
      BY <1>1, <2>1 DEF Group!Abandon
    <2> QED BY <2>2 DEF Group!Next
  <1>3. CASE ~detached
    <2>1. Waiter' = "waits" /\ tasks' = attached
      BY <1>3 DEF HandshakeDone, Waiter
    <2>2. attached => Outcome' = "none"
      BY <1>1 DEF HandshakeDone, Phases, Outcome
    <2>3. Group!Begin
      BY <1>1, <2>1, <2>2 DEF Group!Begin
    <2> QED BY <2>3 DEF Group!Next
  <1> QED BY <1>2, <1>3

LEMMA ResultResumes ==
    ASSUME LTypeOK, Phases, HandlerResumes
    PROVE  Group!Next
  <1>1. /\ UNCHANGED <<result, tasks, conn>>
        /\ handler = "waiting" /\ handler' = "leaving" /\ result \in Kind
    BY DEF HandlerResumes
  <1>2. Waiter = "waits" /\ Waiter' = "on" /\ ~tasks
    BY <1>1 DEF Waiter, Phases, Kind
  <1>3. Outcome = "final" /\ Outcome' = Outcome
    BY <1>1 DEF Outcome, Kind
  <1>4. Group!Resume
    BY <1>1, <1>2, <1>3 DEF Group!Resume
  <1> QED BY <1>4 DEF Group!Next

LEMMA ClientGroupStep ==
    ASSUME LTypeOK, Phases, [LNext]_lvars
    PROVE  Group!Next \/ UNCHANGED Group!vars
  <1>1. CASE \/ Authenticate \/ (GatherDone /\ state = "authenticated") \/ HandlerEnds
             \/ PathCleaned
    <2>1. Still
      BY <1>1 DEF Authenticate, GatherDone, HandlerEnds, PathCleaned, Still, Waiter
    <2> QED BY <2>1, StillStutters
  <1>2. CASE HandshakeRefused \/ HandshakeDisconnected
             \/ (GatherDone /\ state # "authenticated")
    <2>1. PICK r \in Kind : HandshakeFails(r)
      BY <1>2 DEF HandshakeRefused, HandshakeDisconnected, GatherDone, Kind
    <2>2. handler \in {"handshake", "gather", "auth"}
      BY <1>2 DEF HandshakeRefused, HandshakeDisconnected, GatherDone
    <2> QED BY <2>1, <2>2, FailureBegins
  <1>3. CASE HandshakeDone \/ HandlerResumes
    BY <1>3, DoneBegins, ResultResumes
  <1>4. CASE Drop
    <2> DEFINE r == IF conn = "closed" THEN "disconnected" ELSE "chained"
    <2>1. CancelTasks(r) /\ UNCHANGED <<conn, handler>> /\ r \in Kind \cup {"chained"}
      BY <1>4 DEF Drop, Kind
    <2> HIDE DEF r
    <2> QED BY <2>1, CancelSettles
  <1>5. CASE RunnerReports
    <2>1. CancelTasks(KindNow) /\ UNCHANGED <<conn, handler>> /\ KindNow \in Kind
      BY <1>5 DEF RunnerReports, KindNow, Kind
    <2> QED BY <2>1, CancelSettles
  <1>6. CASE PeerCloses \/ HandlerCloses \/ ConnectionClosed
    <2>1. LoseConnection /\ UNCHANGED <<handler, tasks>>
      BY <1>6 DEF PeerCloses, HandlerCloses, ConnectionClosed
    <2> QED BY <2>1, LostLoses
  <1>7. CASE TaskFails \/ TaskDisconnected
    <2>1. /\ tasks' = FALSE /\ UNCHANGED <<conn, handler>>
          /\ result = "unset" /\ result' \in Kind
      BY <1>7 DEF TaskFails, TaskDisconnected, Phases, Result, Kind
    <2>2. Outcome = "none" /\ Outcome' = "final" /\ Waiter' = Waiter
      BY <2>1 DEF Outcome, Waiter, Kind
    <2>3. Group!Settle
      BY <2>1, <2>2 DEF Group!Settle
    <2> QED BY <2>3 DEF Group!Next
  <1>8. CASE \/ HandlerJoins \/ JoinOver \/ RunnerSilent \/ UNCHANGED lvars
             \/ \E j \in Job : EnqueueFor(j) \/ JobStep(j) \/ RelayOver(j)
    <2>1. UNCHANGED <<result, tasks, conn, handler>>
      BY <1>8 DEF HandlerJoins, JoinOver, RunnerSilent, EnqueueFor, JobStep, PackMessage,
                  MessageRefused, Sent, SendDisconnected, JobOver, RelayOver, clientVars, lvars
    <2> QED BY <2>1, StillStutters DEF Still, Waiter
  <1> QED BY <1>1, <1>2, <1>3, <1>4, <1>5, <1>6, <1>7, <1>8 DEF LNext, HandlerStep

---------------------------------------------------------------------------
(* The theorems.                                                           *)

\* The inductive invariant: that of the queue holds for a client whatever its handler
\* and everyone else do, and the handler's phases tell what runs beside it.
THEOREM LifecycleInvariant == LSpec => []LInv
  <1>1. LInit => LInv
    <2> SUFFICES ASSUME LInit PROVE LInv
      OBVIOUS
    <2>1. QInv /\ CloseJob \in Job
      BY QueueInit, CloseJobAssumption DEF LInit, Job
    <2>2. JoinedAtZero /\ CloseOnce
      BY <2>1 DEF LInit, Init, JoinedAtZero, CloseOnce
    <2>3. LTypeOK /\ Phases
      BY <2>1 DEF LInit, Init, LTypeOK, Phases, QInv, Handler
    <2>4. ClosingLast
      <3>1. DOMAIN queue = {} /\ callbacks = {} /\ accepted = {}
        BY DEF LInit, Init
      <3> QED BY <3>1 DEF ClosingLast, JobsBeforeClosing
    <2> QED BY <2>1, <2>2, <2>3, <2>4 DEF LInv
  <1>2. LInv /\ [LNext]_lvars => LInv'
    <2> SUFFICES ASSUME LInv, [LNext]_lvars PROVE LInv'
      OBVIOUS
    <2>1. Moves
      BY StepMoves DEF LInv
    <2>2. QInv' /\ JoinedAtZero' /\ CloseOnce' /\ (raised \/ ClosingLast)'
      BY <2>1, MovesKeepQueue, MovesKeepOnce, MovesKeepClosing DEF LInv
    <2>3. LTypeOK' /\ Phases'
      BY <2>2, StepKeepsTypes, StepKeepsPhases DEF LInv, QInv
    <2> QED BY <2>2, <2>3 DEF LInv
  <1> QED BY <1>1, <1>2, PTL DEF LSpec

\* The closing procedure of a dropped client starts when all that was accepted for the
\* client before has come to its end.
THEOREM ClosingComesLast == LSpec => []JobsBeforeClosing
  <1>1. LInv => JobsBeforeClosing
    BY DEF LInv, ClosingLast, JobsBeforeClosing
  <1> QED BY <1>1, LifecycleInvariant, PTL

\* A protocol that has unregistered has a closed connection and no work left.
THEOREM EndedHasNothingLeft == LSpec => []EndedIsClosed
  <1>1. LInv => EndedIsClosed
    BY JoinedMeans DEF LInv, Phases, EndedIsClosed, JoinMeansProcessed
  <1> QED BY <1>1, LifecycleInvariant, PTL

\* The queue of a client keeps the promises of a mailbox, too, while the client's
\* handler, its tasks and everyone else use it.
THEOREM ClientQueueIsMailbox == LSpec => QueueOrder
  <1>1. LInit => Box!Init /\ ActiveInv
    BY MailboxInit DEF LInit
  <1>2. LInv /\ ActiveInv /\ [LNext]_lvars => ActiveInv' /\ [Box!Next]_(Box!vars)
    <2> SUFFICES ASSUME LInv, ActiveInv, [LNext]_lvars
                 PROVE  ActiveInv' /\ [Box!Next]_(Box!vars)
      OBVIOUS
    <2>1. CloseJob \in Job
      BY CloseJobAssumption DEF Job
    <2>2. QInv /\ Moves
      BY StepMoves DEF LInv
    <2>3. [Next]_vars \/ Cancels
      BY <2>1, <2>2 DEF Moves, Next, Joins, Ends
    <2> QED BY <2>2, <2>3, ActiveKept, MailboxStep
  <1> QED BY <1>1, <1>2, LifecycleInvariant, PTL DEF LSpec, QueueOrder, Box!Spec

\* The tasks of a client in outline keep the same promises to its handler as those of
\* module ClientTasks, whoever drops the client, fails or loses the connection.
THEOREM LifecycleTasksAreGroup == LSpec => GroupSpec
  <1>1. LInit => Group!Init
    BY DEF LInit, Outcome, Waiter, Group!Init
  <1>2. LInv /\ [LNext]_lvars => [Group!Next]_(Group!vars)
    BY ClientGroupStep DEF LInv
  <1> QED BY <1>1, <1>2, LifecycleInvariant, PTL DEF LSpec, GroupSpec, Group!Spec

=============================================================================

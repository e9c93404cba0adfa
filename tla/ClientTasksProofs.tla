-------------------------- MODULE ClientTasksProofs --------------------------
(***************************************************************************)
(* Proofs about ClientTasks, for any finite number of tasks: the result is *)
(* set once, and the handler goes on after its tasks.                      *)
(*                                                                         *)
(* The order of the loop's callbacks is what the proof is about.  The      *)
(* first lemmas say what adding and taking callbacks does to the queue;    *)
(* after them it is a set, Pending, of which the handler comes last.       *)
(***************************************************************************)
EXTENDS ClientTasks, FiniteSetTheorems, SequenceTheorems, TLAPS

---------------------------------------------------------------------------
(* Queues of callbacks.                                                    *)

Elems(q) == {q[i] : i \in DOMAIN q}

Once(q) == \A i, j \in DOMAIN q : q[i] = q[j] => i = j

StepsFirst(q) ==
    \A i, j \in DOMAIN q : q[i] = Handle("handler") /\ q[j][1] = "step" => j < i

\* The first callback is taken.
LEMMA TailOf ==
    ASSUME NEW q \in Seq(Entry), q # <<>>, Once(q), StepsFirst(q)
    PROVE  /\ Tail(q) \in Seq(Entry) /\ Once(Tail(q)) /\ StepsFirst(Tail(q))
           /\ Elems(Tail(q)) = Elems(q) \ {Head(q)}
           /\ Head(q) \in Elems(q)
           /\ Head(q) = Handle("handler") => \A t \in Task : <<"step", t>> \notin Elems(q)
<1> DEFINE n == Len(q)
<1>1. n \in Nat \ {0} /\ DOMAIN q = 1 .. n
    BY LenProperties, EmptySeq
<1>2. /\ Tail(q) \in Seq(Entry) /\ DOMAIN Tail(q) = 1 .. (n - 1)
      /\ \A i \in 1 .. (n - 1) : Tail(q)[i] = q[i + 1]
    BY <1>1, HeadTailProperties, LenProperties
<1>3. Head(q) = q[1]
    BY <1>1
<1> HIDE DEF n
<1>4. Once(Tail(q))
    <2>1. ASSUME NEW i \in 1 .. (n - 1), NEW j \in 1 .. (n - 1), q[i + 1] = q[j + 1]
          PROVE  i = j
        <3>1. i + 1 \in 1 .. n /\ j + 1 \in 1 .. n
            BY <1>1
        <3>2. i + 1 = j + 1
            BY <1>1, <2>1, <3>1 DEF Once
        <3> QED BY <3>2
    <2> QED BY <1>2, <2>1 DEF Once
<1>5. StepsFirst(Tail(q))
    <2>1. ASSUME NEW i \in 1 .. (n - 1), NEW j \in 1 .. (n - 1),
                 q[i + 1] = Handle("handler"), q[j + 1][1] = "step"
          PROVE  j < i
        <3>1. i + 1 \in 1 .. n /\ j + 1 \in 1 .. n
            BY <1>1
        <3>2. j + 1 < i + 1
            BY <1>1, <2>1, <3>1 DEF StepsFirst
        <3> QED BY <3>2
    <2> QED BY <1>2, <2>1 DEF StepsFirst
<1>6. Elems(Tail(q)) = Elems(q) \ {Head(q)}
    <2>1. ASSUME NEW i \in 1 .. (n - 1)
          PROVE  q[i + 1] \in Elems(q) \ {q[1]}
        <3>1. i + 1 \in 1 .. n /\ 1 \in 1 .. n /\ i + 1 # 1
            BY <1>1
        <3>2. q[i + 1] # q[1]
            BY <1>1, <3>1 DEF Once
        <3> QED BY <1>1, <3>1, <3>2 DEF Elems
    <2>2. ASSUME NEW i \in 1 .. n, q[i] # q[1]
          PROVE  q[i] \in Elems(Tail(q))
        <3>1. i - 1 \in 1 .. (n - 1) /\ (i - 1) + 1 = i
            BY <1>1, <2>2
        <3>2. Tail(q)[i - 1] = q[i]
            BY <1>2, <3>1
        <3> QED BY <1>2, <3>1, <3>2 DEF Elems
    <2>3. \A x \in Elems(Tail(q)) : x \in Elems(q) \ {q[1]}
        <3>1. \A i \in DOMAIN Tail(q) : Tail(q)[i] \in Elems(q) \ {q[1]}
            BY <1>2, <2>1
        <3> QED BY <3>1, Zenon DEF Elems
    <2>4. \A x \in Elems(q) \ {q[1]} : x \in Elems(Tail(q))
        BY <1>1, <2>2 DEF Elems
    <2> QED BY <1>3, <2>3, <2>4
<1>7. Head(q) \in Elems(q)
    <2>1. 1 \in DOMAIN q
        BY <1>1
    <2> QED BY <1>3, <2>1 DEF Elems
<1>8. ASSUME Head(q) = Handle("handler"), NEW t \in Task, <<"step", t>> \in Elems(q)
      PROVE  FALSE
    <2>1. PICK j \in 1 .. n : q[j] = <<"step", t>>
        BY <1>1, <1>8 DEF Elems
    <2>2. 1 \in 1 .. n /\ q[j][1] = "step"
        BY <1>1, <2>1
    <2>3. j < 1
        BY <1>1, <1>3, <1>8, <2>2 DEF StepsFirst
    <2> QED BY <2>3
<1> QED BY <1>2, <1>4, <1>5, <1>6, <1>7, <1>8

\* Callbacks are added behind others.
LEMMA Joined ==
    ASSUME NEW q \in Seq(Entry), NEW r \in Seq(Entry), Once(q), Once(r),
           Elems(q) \cap Elems(r) = {}
    PROVE  /\ q \o r \in Seq(Entry) /\ Once(q \o r)
           /\ Elems(q \o r) = Elems(q) \cup Elems(r)
           /\ Handle("handler") \notin Elems(q) \cup Elems(r) => StepsFirst(q \o r)
           /\ StepsFirst(q) /\ (\A e \in Elems(r) : e[1] # "step") => StepsFirst(q \o r)
<1> DEFINE m == Len(q)
           n == Len(r)
           s == q \o r
<1>1. m \in Nat /\ DOMAIN q = 1 .. m /\ n \in Nat /\ DOMAIN r = 1 .. n
    BY LenProperties
<1>2. /\ s \in Seq(Entry) /\ DOMAIN s = 1 .. (m + n)
      /\ \A i \in 1 .. (m + n) : s[i] = IF i <= m THEN q[i] ELSE r[i - m]
    BY ConcatProperties, LenProperties
<1> HIDE DEF m, n, s
<1>3. ASSUME NEW i \in 1 .. (m + n)
      PROVE  \/ i \in 1 .. m /\ s[i] = q[i] /\ s[i] \in Elems(q)
             \/ i - m \in 1 .. n /\ s[i] = r[i - m] /\ s[i] \in Elems(r)
    <2>1. CASE i <= m
        <3>1. i \in 1 .. m /\ s[i] = q[i]
            BY <1>1, <1>2, <2>1
        <3> QED BY <1>1, <3>1 DEF Elems
    <2>2. CASE ~(i <= m)
        <3>1. i - m \in 1 .. n /\ s[i] = r[i - m]
            BY <1>1, <1>2, <2>2
        <3> QED BY <1>1, <3>1 DEF Elems
    <2> QED BY <2>1, <2>2
<1>4. Once(s)
    <2> SUFFICES ASSUME NEW i \in 1 .. (m + n), NEW j \in 1 .. (m + n), s[i] = s[j]
                 PROVE  i = j
        BY <1>2 DEF Once
    <2>1. CASE i \in 1 .. m /\ s[i] = q[i] /\ s[i] \in Elems(q)
        <3>1. j \in 1 .. m /\ s[j] = q[j]
            BY <1>3, <2>1
        <3> QED BY <1>1, <2>1, <3>1 DEF Once
    <2>2. CASE i - m \in 1 .. n /\ s[i] = r[i - m] /\ s[i] \in Elems(r)
        <3>1. j - m \in 1 .. n /\ s[j] = r[j - m]
            BY <1>3, <2>2
        <3>2. i - m = j - m
            BY <1>1, <2>2, <3>1 DEF Once
        <3> QED BY <1>1, <3>2
    <2> QED BY <1>3, <2>1, <2>2
<1>5. Elems(s) = Elems(q) \cup Elems(r)
    <2>1. \A x \in Elems(s) : x \in Elems(q) \cup Elems(r)
        BY <1>2, <1>3 DEF Elems
    <2>2. ASSUME NEW i \in 1 .. m PROVE q[i] \in Elems(s)
        <3>1. i \in 1 .. (m + n) /\ s[i] = q[i]
            BY <1>1, <1>2
        <3> QED BY <1>2, <3>1 DEF Elems
    <2>3. ASSUME NEW i \in 1 .. n PROVE r[i] \in Elems(s)
        <3>1. i + m \in 1 .. (m + n) /\ ~(i + m <= m) /\ (i + m) - m = i
            BY <1>1
        <3>2. s[i + m] = r[i]
            BY <1>2, <3>1
        <3> QED BY <1>2, <3>1, <3>2 DEF Elems
    <2>4. \A x \in Elems(q) \cup Elems(r) : x \in Elems(s)
        BY <1>1, <2>2, <2>3 DEF Elems
    <2> QED BY <2>1, <2>4
<1>6. ASSUME Handle("handler") \notin Elems(q) \cup Elems(r)
      PROVE  StepsFirst(s)
    BY <1>2, <1>3, <1>6 DEF StepsFirst
<1>7. ASSUME StepsFirst(q), \A e \in Elems(r) : e[1] # "step"
      PROVE  StepsFirst(s)
    <2> SUFFICES ASSUME NEW i \in 1 .. (m + n), NEW j \in 1 .. (m + n),
                        s[i] = Handle("handler"), s[j][1] = "step"
                 PROVE  j < i
        BY <1>2 DEF StepsFirst
    <2>1. j \in 1 .. m /\ s[j] = q[j]
        BY <1>3, <1>7
    <2>2. CASE i \in 1 .. m /\ s[i] = q[i]
        BY <1>1, <1>7, <2>1, <2>2 DEF StepsFirst
    <2>3. CASE i - m \in 1 .. n
        BY <1>1, <2>1, <2>3
    <2> QED BY <1>3, <2>2, <2>3
<1> QED BY <1>2, <1>4, <1>5, <1>6, <1>7 DEF s

\* One callback is added.
LEMMA Added ==
    ASSUME NEW q \in Seq(Entry), NEW e \in Entry, Once(q), e \notin Elems(q)
    PROVE  /\ <<e>> \in Seq(Entry) /\ Once(<<e>>) /\ Elems(<<e>>) = {e}
           /\ Append(q, e) \in Seq(Entry) /\ Once(Append(q, e))
           /\ Elems(Append(q, e)) = Elems(q) \cup {e}
           /\ StepsFirst(q) /\ (e[1] = "step" => Handle("handler") \notin Elems(q))
              => StepsFirst(Append(q, e))
<1>1. <<e>> \in Seq(Entry) /\ DOMAIN <<e>> = {1} /\ <<e>>[1] = e
    OBVIOUS
<1>2. Once(<<e>>) /\ Elems(<<e>>) = {e}
    BY <1>1 DEF Once, Elems
<1>3. Append(q, e) = q \o <<e>>
    BY AppendIsConcat
<1>4. e[1] = "step" => e # Handle("handler")
    BY DEF Handle
<1>5. Elems(q) \cap Elems(<<e>>) = {}
    BY <1>2
<1>6. /\ q \o <<e>> \in Seq(Entry) /\ Once(q \o <<e>>)
      /\ Elems(q \o <<e>>) = Elems(q) \cup Elems(<<e>>)
      /\ Handle("handler") \notin Elems(q) \cup Elems(<<e>>) => StepsFirst(q \o <<e>>)
      /\ StepsFirst(q) /\ (\A x \in Elems(<<e>>) : x[1] # "step") => StepsFirst(q \o <<e>>)
    BY <1>1, <1>2, <1>5, Joined
<1> QED BY <1>1, <1>2, <1>3, <1>4, <1>6

\* Nothing is added.
LEMMA Nothing ==
    <<>> \in Seq(Entry) /\ Once(<<>>) /\ Elems(<<>>) = {} /\ StepsFirst(<<>>)
BY DEF Once, Elems, StepsFirst

\* Tasks are resumed, each once, in any order.
LEMMA Resumed ==
    ASSUME NEW T \in SUBSET Task, NEW order \in SetToSeqs(T)
    PROVE  /\ WakeHandles(order) \in Seq(Entry) /\ Once(WakeHandles(order))
           /\ Elems(WakeHandles(order)) = {<<"step", t>> : t \in T}
<1> DEFINE n == Cardinality(T)
           w == WakeHandles(order)
<1>1. IsFiniteSet(T) /\ n \in Nat
    BY TasksAssumption, FS_Subset, FS_CardinalityType
<1>2. /\ order \in [1 .. n -> T]
      /\ \A i, j \in 1 .. n : i # j => order[i] # order[j]
    BY DEF SetToSeqs
<1>3. order \in Injection(1 .. n, T)
    BY <1>2 DEF Injection, IsInjective
<1>4. Cardinality(1 .. n) = n
    BY <1>1, FS_Interval
<1>5. order \in Surjection(1 .. n, T)
    BY <1>1, <1>3, <1>4, FS_Injection
<1> HIDE DEF n
<1>6. \A t \in T : \E i \in 1 .. n : order[i] = t
    BY <1>5 DEF Surjection
<1>7. w = [i \in 1 .. n |-> <<"step", order[i]>>]
    BY <1>2 DEF WakeHandles
<1> HIDE DEF w
<1>8. w \in [1 .. n -> Entry]
    BY <1>2, <1>7 DEF Entry
<1>9. w \in Seq(Entry)
    BY <1>1, <1>8, SeqDef
<1>10. Once(w)
    BY <1>2, <1>7 DEF Once
<1>11. Elems(w) = {<<"step", t>> : t \in T}
    BY <1>2, <1>6, <1>7 DEF Elems
<1> QED BY <1>9, <1>10, <1>11 DEF w

---------------------------------------------------------------------------
(* What is scheduled when a result is set.                                 *)

Waiting == {t \in Task : task[t] = "waiting"}

\* The callbacks of the futures.
Futures(r) ==
    IF haveResult THEN {}
    ELSE IF r = "set" /\ handler = "awaiting" THEN {Handle("shield")}
    ELSE IF r = "chained" /\ lost THEN {Handle("chain")} ELSE {}

LEMMA Scheduled ==
    ASSUME TypeOK, Results, NEW r \in {"set", "chained"}, NEW before \in Seq(Entry),
           Once(before), StepsFirst(before), SetResultAndCancel(r, before),
           \A t \in Task : <<"step", t>> \in Elems(before) => task[t] = "woken",
           ~haveResult => \A k \in {"chain", "shield", "handler"} : Handle(k) \notin Elems(before)
    PROVE  /\ ready' \in Seq(Entry) /\ Distinct' /\ HandlerLast'
           /\ Pending' = Elems(before) \cup Futures(r) \cup {<<"step", t>> : t \in Waiting}
<1>1. PICK order \in SetToSeqs(Waiting) :
          ready' = before \o ShieldHandles(r) \o ChainHandles(r) \o WakeHandles(order)
    BY DEF SetResultAndCancel, Waiting
<1> DEFINE a == ShieldHandles(r)
           b == ChainHandles(r)
           w == WakeHandles(order)
           A == Elems(a)
           B == Elems(b)
           W == {<<"step", t>> : t \in Waiting}
<1>2. /\ Handle("shield") \in Entry /\ Handle("chain") \in Entry
      /\ Handle("shield") # Handle("chain") /\ Handle("handler") # Handle("shield")
      /\ Handle("handler") # Handle("chain")
      /\ Handle("shield")[1] # "step" /\ Handle("chain")[1] # "step"
      /\ Handle("handler")[1] # "step"
    BY DEF Handle, Entry
<1>3. /\ a \in Seq(Entry) /\ Once(a)
      /\ A = IF ~haveResult /\ r = "set" /\ handler = "awaiting" THEN {Handle("shield")} ELSE {}
    BY <1>2, Nothing, Added DEF ShieldHandles
<1>4. /\ b \in Seq(Entry) /\ Once(b)
      /\ B = IF ~haveResult /\ r = "chained" /\ lost THEN {Handle("chain")} ELSE {}
    BY <1>2, Nothing, Added DEF ChainHandles
<1>5. w \in Seq(Entry) /\ Once(w) /\ Elems(w) = W
    BY <1>1, Resumed DEF Waiting
<1>6. W \cap Elems(before) = {} /\ (haveResult => W = {})
    BY DEF Waiting, Results
<1>7. /\ A \cap Elems(before) = {} /\ B \cap (Elems(before) \cup A) = {}
      /\ A \cup B = Futures(r)
      /\ \A e \in A \cup B : e[1] # "step" /\ e # Handle("handler")
    BY <1>2, <1>3, <1>4 DEF Futures
<1>8. \A e \in W : e[1] = "step" /\ e # Handle("handler")
    BY <1>2
<1>9. W \cap (Elems(before) \cup A \cup B) = {}
    BY <1>6, <1>7, <1>8
<1>10. ready' = ((before \o a) \o b) \o w
    BY <1>1
<1> HIDE DEF a, b, w, A, B, W
<1>11. /\ before \o a \in Seq(Entry) /\ Once(before \o a)
       /\ Elems(before \o a) = Elems(before) \cup A
       /\ StepsFirst(before \o a)
    BY <1>3, <1>7, Joined DEF A
<1>12. /\ (before \o a) \o b \in Seq(Entry) /\ Once((before \o a) \o b)
       /\ Elems((before \o a) \o b) = Elems(before) \cup A \cup B
       /\ StepsFirst((before \o a) \o b)
    BY <1>4, <1>7, <1>11, Joined DEF B
<1>13. /\ ready' \in Seq(Entry) /\ Once(ready')
       /\ Elems(ready') = Elems(before) \cup A \cup B \cup W
       /\ StepsFirst(ready')
    <2> DEFINE q == (before \o a) \o b
    <2>1. q \in Seq(Entry) /\ Once(q) /\ Elems(q) \cap Elems(w) = {} /\ StepsFirst(q)
        BY <1>5, <1>9, <1>12
    <2> HIDE DEF q
    <2>2. /\ q \o w \in Seq(Entry) /\ Once(q \o w)
          /\ Elems(q \o w) = Elems(q) \cup Elems(w)
          /\ Handle("handler") \notin Elems(q) \cup Elems(w) => StepsFirst(q \o w)
          /\ (\A e \in Elems(w) : e[1] # "step") => StepsFirst(q \o w)
        BY <1>5, <2>1, Joined
    <2>3. CASE haveResult
        BY <1>5, <1>6, <1>10, <1>12, <2>2, <2>3 DEF q
    <2>4. CASE ~haveResult
        <3>1. Handle("handler") \notin Elems(q) \cup Elems(w)
            BY <1>5, <1>7, <1>8, <1>12, <2>4 DEF q
        <3> QED BY <1>5, <1>10, <1>12, <2>2, <3>1 DEF q
    <2> QED BY <2>3, <2>4
<1>14. Elems(ready') = Elems(before) \cup Futures(r) \cup W
    BY <1>7, <1>13
<1> QED BY <1>13, <1>14 DEF Distinct, HandlerLast, Pending, Once, StepsFirst, Elems, W

---------------------------------------------------------------------------
(* The invariant.                                                          *)

LEMMA TasksInit == Init => TasksInv
<1> SUFFICES ASSUME Init PROVE TasksInv
    OBVIOUS
<1>1. DOMAIN ready = {} /\ ready \in Seq(Entry)
    BY DEF Init
<1>2. Pending = {} /\ Distinct /\ HandlerLast
    BY <1>1, Zenon DEF Pending, Distinct, HandlerLast
<1>3. TypeOK
    BY <1>1 DEF Init, TypeOK, TaskState
<1>4. Scheduling /\ Results
    BY <1>2 DEF Init, Scheduling, Results, Started, Ended
<1> QED BY <1>2, <1>3, <1>4 DEF TasksInv

\* A result is set: by cancel(), or by a task that has failed.
LEMMA ResultSet ==
    ASSUME TasksInv, NEW r \in {"set", "chained"}, NEW before \in Seq(Entry),
           Once(before), StepsFirst(before), SetResultAndCancel(r, before),
           Elems(before) \subseteq Pending,
           \A e \in Pending : e[1] # "done" => e \in Elems(before),
           cancelled' \in BOOLEAN, cancelled => cancelled',
           handler = "handshake" => cancelled',
           UNCHANGED <<lost, handler>>
    PROVE  TasksInv'
<1> USE DEF TasksInv
<1>1. /\ ready' \in Seq(Entry) /\ Distinct' /\ HandlerLast'
      /\ Pending' = Elems(before) \cup Futures(r) \cup {<<"step", t>> : t \in Waiting}
    <2>1. \A t \in Task : <<"step", t>> \in Elems(before) => task[t] = "woken"
        BY DEF Scheduling
    <2>2. ~haveResult => \A k \in {"chain", "shield", "handler"} : Handle(k) \notin Elems(before)
        BY DEF Scheduling, Results
    <2> QED BY <2>1, <2>2, Scheduled
<1>2. /\ haveResult' = TRUE
      /\ result' = IF haveResult THEN result ELSE r
      /\ task' = [t \in Task |-> IF task[t] = "waiting" THEN "woken" ELSE task[t]]
      /\ cancelling' = cancelling \cup {t \in Task : task[t] \in {"waiting", "woken"}}
    BY DEF SetResultAndCancel
<1>3. TypeOK'
    BY <1>1, <1>2 DEF TypeOK, TaskState
<1>4. Started' = Started /\ Ended' = Ended
    BY <1>2 DEF Started, Ended, TypeOK
<1>5. Results'
    BY <1>2, <1>4 DEF Results, TypeOK, Started, Ended
<1>6. \A t \in Task : task'[t] = "woken" <=> <<"step", t>> \in Pending'
    <2> SUFFICES ASSUME NEW t \in Task
                 PROVE  task'[t] = "woken" <=> <<"step", t>> \in Pending'
        OBVIOUS
    <2>1. task'[t] = "woken" <=> task[t] = "woken" \/ t \in Waiting
        BY <1>2 DEF Waiting
    <2>2. <<"step", t>> \in Elems(before) <=> <<"step", t>> \in Pending
        OBVIOUS
    <2>3. <<"step", t>> \notin Futures(r)
        BY DEF Futures, Handle
    <2> QED BY <1>1, <2>1, <2>2, <2>3 DEF Scheduling
<1>7. \A t \in Task : <<"done", t>> \in Pending' => t \in Ended'
    BY <1>1, <1>4 DEF Scheduling, Futures, Handle
<1>8. \A k \in {"chain", "shield", "handler"} :
          Handle(k) \in Pending' <=> Handle(k) \in Pending \/ Handle(k) \in Futures(r)
    BY <1>1 DEF Handle
<1>9. CASE haveResult
    <2>1. Futures(r) = {} /\ result' = result
        BY <1>2, <1>9 DEF Futures
    <2> QED BY <1>1, <1>3, <1>5, <1>6, <1>7, <1>8, <2>1 DEF Scheduling
<1>10. CASE ~haveResult
    <2>1. result' = r /\ \A k \in {"chain", "shield", "handler"} : Handle(k) \notin Pending
        BY <1>2, <1>10 DEF Scheduling, Results
    <2>2. /\ Handle("handler") \notin Futures(r)
          /\ Handle("shield") \in Futures(r) => r = "set" /\ handler = "awaiting"
          /\ Handle("chain") \in Futures(r) => r = "chained" /\ lost
        BY DEF Futures, Handle
    <2> QED BY <1>1, <1>3, <1>5, <1>6, <1>7, <1>8, <2>1, <2>2 DEF Scheduling
<1> QED BY <1>9, <1>10

\* The queue without the callback that runs.
LEMMA Taken ==
    ASSUME TasksInv, NEW kind, NEW t, Runs(kind, t)
    PROVE  /\ Tail(ready) \in Seq(Entry) /\ Once(Tail(ready)) /\ StepsFirst(Tail(ready))
           /\ Elems(Tail(ready)) = Pending \ {<<kind, t>>}
           /\ <<kind, t>> \in Pending
           /\ <<kind, t>> = Handle("handler") => \A u \in Task : <<"step", u>> \notin Pending
<1>1. ready \in Seq(Entry) /\ ready # <<>> /\ Head(ready) = <<kind, t>>
    BY DEF TasksInv, TypeOK, Runs
<1>2. Once(ready) /\ StepsFirst(ready) /\ Elems(ready) = Pending
    BY DEF TasksInv, Distinct, HandlerLast, Once, StepsFirst, Elems, Pending
<1> QED BY <1>1, <1>2, TailOf

\* A queue with a known set of callbacks takes the place of ready.
LEMMA QueueIs ==
    ASSUME ready' \in Seq(Entry), Once(ready'), StepsFirst(ready')
    PROVE  Distinct' /\ HandlerLast' /\ Pending' = Elems(ready')
BY DEF Distinct, HandlerLast, Pending, Once, StepsFirst, Elems

LEMMA CancelKeeps ==
    ASSUME TasksInv, NEW r \in {"set", "chained"}, Cancel(r)
    PROVE  TasksInv'
<1>1. /\ ready \in Seq(Entry) /\ Once(ready) /\ StepsFirst(ready) /\ Elems(ready) = Pending
    BY DEF TasksInv, TypeOK, Distinct, HandlerLast, Once, StepsFirst, Elems, Pending
<1>2. SetResultAndCancel(r, ready) /\ cancelled' = TRUE /\ UNCHANGED <<lost, handler>>
    BY DEF Cancel
<1> QED BY <1>1, <1>2, ResultSet

\* Tasks start only before there is a result, so that the handler comes last.
LEMMA StartKeeps ==
    ASSUME TasksInv, NEW T \in SUBSET Task, Start(T)
    PROVE  TasksInv'
<1> USE DEF TasksInv
<1>1. PICK order \in SetToSeqs(T) : ready' = ready \o WakeHandles(order)
    BY DEF Start
<1>2. /\ handler = "handshake" /\ (cancelled => T = {})
      /\ task' = [t \in Task |-> IF t \in T THEN "woken" ELSE "none"]
      /\ handler' = IF result = "set" THEN "resumed" ELSE "awaiting"
      /\ UNCHANGED <<cancelling, cancelled, haveResult, result, lost>>
    BY DEF Start
<1> DEFINE w == WakeHandles(order)
           W == {<<"step", t>> : t \in T}
<1>3. w \in Seq(Entry) /\ Once(w) /\ Elems(w) = W
    BY Resumed
<1>4. \A t \in Task : task[t] = "none"
    BY <1>2 DEF Results, Started
<1>5. W \cap Pending = {}
    BY <1>4 DEF Scheduling
<1>6. Handle("handler") \notin Pending /\ Handle("shield") \notin Pending
    BY <1>2 DEF Scheduling
<1>7. Handle("handler") \notin Elems(w)
    BY <1>3 DEF Handle
<1> HIDE DEF w, W
<1>8. ready \in Seq(Entry) /\ Once(ready) /\ StepsFirst(ready) /\ Elems(ready) = Pending
    BY DEF TypeOK, Distinct, HandlerLast, Once, StepsFirst, Elems, Pending
<1>9. /\ ready' \in Seq(Entry) /\ Once(ready') /\ StepsFirst(ready')
      /\ Elems(ready') = Pending \cup W
    BY <1>1, <1>3, <1>5, <1>6, <1>7, <1>8, Joined DEF w
<1>10. Distinct' /\ HandlerLast' /\ Pending' = Pending \cup W
    BY <1>9, QueueIs
<1>11. TypeOK'
    BY <1>2, <1>9 DEF TypeOK, TaskState
<1>12. Scheduling'
    <2>1. \A t \in Task : <<"step", t>> \notin Pending /\ <<"done", t>> \notin Pending
        BY <1>4 DEF Scheduling, Ended
    <2>2. \A t \in Task : <<"step", t>> \in Pending' <=> t \in T
        BY <1>10, <2>1 DEF W
    <2>3. \A t \in Task : <<"done", t>> \notin Pending'
        BY <1>10, <2>1 DEF W
    <2>4. \A k \in {"chain", "shield", "handler"} :
              Handle(k) \in Pending' <=> Handle(k) \in Pending
        BY <1>10 DEF W, Handle
    <2> QED BY <1>2, <1>6, <2>2, <2>3, <2>4 DEF Scheduling
<1>13. Results'
    <2>1. haveResult => T = {}
        BY <1>2 DEF Results
    <2>2. haveResult => Started' = {} /\ Ended' = {}
        BY <1>2, <2>1 DEF Started, Ended
    <2> QED BY <1>2, <2>1, <2>2 DEF Results
<1> QED BY <1>10, <1>11, <1>12, <1>13

LEMMA TaskStepKeeps ==
    ASSUME TasksInv, NEW t \in Task, TaskStep(t)
    PROVE  TasksInv'
<1> USE DEF TasksInv
<1> DEFINE q == Tail(ready)
           e == <<"done", t>>
<1>1. /\ q \in Seq(Entry) /\ Once(q) /\ StepsFirst(q)
      /\ Elems(q) = Pending \ {<<"step", t>>} /\ <<"step", t>> \in Pending
    BY Taken DEF TaskStep
<1>2. task[t] = "woken"
    BY <1>1 DEF Scheduling
<1>3. /\ cancelling' = cancelling \ {t}
      /\ UNCHANGED <<cancelled, haveResult, result, lost, handler>>
    BY DEF TaskStep
<1>4. CASE ready' = q /\ task' = [task EXCEPT ![t] = "waiting"] /\ ~haveResult
    <2>1. Distinct' /\ HandlerLast' /\ Pending' = Pending \ {<<"step", t>>}
        BY <1>1, <1>4, QueueIs
    <2>2. TypeOK'
        BY <1>1, <1>3, <1>4 DEF TypeOK, TaskState
    <2>3. Started' = Started /\ Ended' = Ended
        BY <1>2, <1>4 DEF TypeOK, Started, Ended
    <2>4. Results'
        BY <1>3, <1>4, <2>3 DEF Results
    <2>5. Scheduling'
        BY <1>3, <1>4, <2>1, <2>3 DEF Scheduling, TypeOK, Handle
    <2> QED BY <2>1, <2>2, <2>4, <2>5
<1>5. ASSUME NEW v \in {"failed", "cancelled"}, task' = [task EXCEPT ![t] = v],
             ready' = Append(q, e)
      PROVE  TasksInv'
    <2>1. e \in Entry /\ e[1] # "step"
        BY DEF Entry
    <2>2. e \notin Pending
        BY <1>2 DEF Scheduling, Ended
    <2>3. /\ ready' \in Seq(Entry) /\ Once(ready') /\ StepsFirst(ready')
          /\ Elems(ready') = (Pending \ {<<"step", t>>}) \cup {e}
        BY <1>1, <1>5, <2>1, <2>2, Added
    <2>4. Distinct' /\ HandlerLast' /\ Pending' = (Pending \ {<<"step", t>>}) \cup {e}
        BY <2>3, QueueIs
    <2>5. TypeOK'
        BY <1>3, <1>5, <2>3 DEF TypeOK, TaskState
    <2>6. Started' = Started /\ Ended' = Ended \cup {t}
        BY <1>2, <1>5 DEF TypeOK, Started, Ended
    <2>7. t \in Started /\ t \notin Ended
        BY <1>2 DEF Started, Ended
    <2>8. handler # "handshake" /\ handler # "resumed"
        BY <2>7 DEF Results
    <2>9. Results'
        BY <1>2, <1>3, <1>5, <2>8 DEF Results, TypeOK
    <2>10. Scheduling'
        BY <1>3, <1>5, <2>4, <2>6 DEF Scheduling, TypeOK, Handle
    <2> QED BY <2>4, <2>5, <2>9, <2>10
<1>6. haveResult => t \in cancelling
    BY <1>2 DEF Results
<1> QED BY <1>4, <1>5, <1>6 DEF TaskStep

\* The result that the last task to end leaves, if there is none.
LEMMA TaskDoneKeeps ==
    ASSUME TasksInv, NEW t \in Task, TaskDone(t)
    PROVE  TasksInv'
<1> DEFINE q == Tail(ready)
<1>1. /\ q \in Seq(Entry) /\ Once(q) /\ StepsFirst(q)
      /\ Elems(q) = Pending \ {<<"done", t>>} /\ <<"done", t>> \in Pending
    BY Taken DEF TaskDone
<1>2. UNCHANGED <<lost, handler>> /\ t \in Ended
    BY <1>1 DEF TaskDone, TasksInv, Scheduling
<1>3. t \in Started /\ handler # "handshake"
    BY <1>2 DEF Started, Ended, TasksInv, Results
<1>4. CASE task[t] = "failed"
    <2>1. SetResultAndCancel("set", q) /\ cancelled' = cancelled
        BY <1>4 DEF TaskDone
    <2>2. \A e \in Pending : e[1] # "done" => e \in Elems(q)
        BY <1>1
    <2>3. cancelled' \in BOOLEAN /\ (cancelled => cancelled')
        BY <2>1 DEF TasksInv, TypeOK
    <2> HIDE DEF q
    <2>4. Elems(q) \subseteq Pending
        BY <1>1
    <2> QED BY <1>1, <1>2, <1>3, <2>1, <2>2, <2>3, <2>4, ResultSet
<1> USE DEF TasksInv
<1>5. CASE task[t] # "failed" /\ ~(Ended = Started /\ ~haveResult)
    <2>1. ready' = q \o <<>>
        BY <1>5 DEF TaskDone, ShieldHandles
    <2>2. ready' = q
        BY <1>1, <2>1, ConcatEmptySeq
    <2>3. UNCHANGED <<haveResult, result, cancelled, task, cancelling>>
        BY <1>5 DEF TaskDone
    <2>4. Distinct' /\ HandlerLast' /\ Pending' = Pending \ {<<"done", t>>}
        BY <1>1, <2>2, QueueIs
    <2>5. TypeOK'
        BY <1>1, <1>2, <2>2, <2>3 DEF TypeOK
    <2>6. Started' = Started /\ Ended' = Ended
        BY <2>3 DEF Started, Ended
    <2>7. Results'
        BY <1>2, <2>3, <2>6 DEF Results
    <2>8. Scheduling'
        BY <1>2, <2>3, <2>4, <2>6 DEF Scheduling, Handle
    <2> QED BY <2>4, <2>5, <2>7, <2>8
<1>6. CASE task[t] # "failed" /\ Ended = Started /\ ~haveResult
    <2> DEFINE h == Handle("shield")
    <2>1. /\ ready' = q \o (IF handler = "awaiting" THEN <<h>> ELSE <<>>)
          /\ haveResult' = TRUE /\ result' = "set" /\ cancelled' = TRUE
          /\ UNCHANGED <<task, cancelling>>
        BY <1>6 DEF TaskDone, ShieldHandles
    <2>2. \A k \in {"chain", "shield", "handler"} : Handle(k) \notin Pending
        BY <1>6 DEF Scheduling, Results
    <2>3. handler = "awaiting"
        BY <1>3, <1>6 DEF Results, TypeOK
    <2>4. h \in Entry /\ h[1] # "step"
        BY DEF Handle, Entry
    <2>5. ready' = Append(q, h)
        BY <1>1, <2>1, <2>3, <2>4, AppendIsConcat
    <2>6. /\ ready' \in Seq(Entry) /\ Once(ready') /\ StepsFirst(ready')
          /\ Elems(ready') = (Pending \ {<<"done", t>>}) \cup {h}
        BY <1>1, <2>2, <2>4, <2>5, Added
    <2>7. Distinct' /\ HandlerLast' /\ Pending' = (Pending \ {<<"done", t>>}) \cup {h}
        BY <2>6, QueueIs
    <2>8. TypeOK'
        BY <1>2, <2>1, <2>6 DEF TypeOK
    <2>9. Started' = Started /\ Ended' = Ended
        BY <2>1 DEF Started, Ended
    <2>10. \A u \in Task : task[u] # "waiting" /\ task[u] # "woken"
        BY <1>6 DEF Started, Ended, TypeOK
    <2>11. Results'
        BY <1>2, <1>3, <2>1, <2>3, <2>9, <2>10 DEF Results
    <2>12. Scheduling'
        <3>1. \A u \in Task : /\ <<"step", u>> \in Pending' <=> <<"step", u>> \in Pending
                              /\ <<"done", u>> \in Pending' => <<"done", u>> \in Pending
            BY <2>7 DEF Handle
        <3>2. Handle("chain") \notin Pending' /\ Handle("handler") \notin Pending'
            BY <2>2, <2>7 DEF Handle
        <3> QED BY <1>2, <2>1, <2>3, <2>9, <3>1, <3>2 DEF Scheduling
    <2> QED BY <2>7, <2>8, <2>11, <2>12
<1> QED BY <1>4, <1>5, <1>6

\* The connection is closed, and a chained result gets its callback.
LEMMA ConnectionLostKeeps ==
    ASSUME TasksInv, ConnectionLost
    PROVE  TasksInv'
<1> USE DEF TasksInv
<1> DEFINE h == Handle("chain")
<1>1. /\ ~lost /\ lost' = TRUE
      /\ ready' = IF result = "chained" THEN Append(ready, h) ELSE ready
      /\ UNCHANGED <<task, cancelling, cancelled, haveResult, result, handler>>
    BY DEF ConnectionLost
<1>2. /\ ready \in Seq(Entry) /\ Once(ready) /\ StepsFirst(ready) /\ Elems(ready) = Pending
    BY DEF TypeOK, Distinct, HandlerLast, Once, StepsFirst, Elems, Pending
<1>3. h \in Entry /\ h[1] # "step" /\ h \notin Pending
    BY <1>1 DEF Handle, Entry, Scheduling
<1>4. /\ ready' \in Seq(Entry) /\ Once(ready') /\ StepsFirst(ready')
      /\ Elems(ready') = IF result = "chained" THEN Pending \cup {h} ELSE Pending
    BY <1>1, <1>2, <1>3, Added
<1>5. /\ Distinct' /\ HandlerLast'
      /\ Pending' = IF result = "chained" THEN Pending \cup {h} ELSE Pending
    BY <1>4, QueueIs
<1>6. TypeOK'
    BY <1>1, <1>4 DEF TypeOK
<1>7. Started' = Started /\ Ended' = Ended
    BY <1>1 DEF Started, Ended
<1>8. Results'
    BY <1>1, <1>7 DEF Results
<1>9. Scheduling'
    BY <1>1, <1>5, <1>7 DEF Scheduling, Handle
<1> QED BY <1>5, <1>6, <1>8, <1>9

\* A callback of a future is taken, and another one may follow.
LEMMA FutureKeeps ==
    ASSUME TasksInv, ChainRuns \/ ShieldRuns
    PROVE  TasksInv'
<1> USE DEF TasksInv
<1>1. PICK k \in {"chain", "shield"} :
          /\ Runs(k, None)
          /\ k = "chain" => ChainRuns
          /\ k = "shield" => ShieldRuns
    BY DEF ChainRuns, ShieldRuns
<1> DEFINE q == Tail(ready)
           h == Handle(IF k = "chain" THEN "shield" ELSE "handler")
<1>2. /\ q \in Seq(Entry) /\ Once(q) /\ StepsFirst(q)
      /\ Elems(q) = Pending \ {Handle(k)} /\ Handle(k) \in Pending
    BY <1>1, Taken DEF Handle
<1>3. /\ result' = "set"
      /\ UNCHANGED <<task, cancelling, cancelled, haveResult, lost, handler>>
      /\ ready' = IF k = "shield" \/ handler = "awaiting" THEN Append(q, h) ELSE q
    <2>1. CASE k = "chain"
        <3>1. ready' = q \o (IF handler = "awaiting" THEN <<h>> ELSE <<>>)
            BY <1>1, <2>1 DEF ChainRuns
        <3>2. h \in Entry
            BY DEF Handle, Entry
        <3>3. q \o <<h>> = Append(q, h) /\ q \o <<>> = q
            BY <1>2, <3>2, AppendIsConcat, ConcatEmptySeq
        <3> QED BY <1>1, <2>1, <3>1, <3>3 DEF ChainRuns
    <2>2. CASE k = "shield"
        <3>1. result = "set"
            BY <1>2, <2>2 DEF Scheduling
        <3> QED BY <1>1, <2>2, <3>1 DEF ShieldRuns
    <2> QED BY <2>1, <2>2
<1>4. h \in Entry /\ h[1] # "step" /\ h \notin Pending /\ h # Handle("chain")
    BY <1>2 DEF Handle, Entry, Scheduling
<1>5. result # "unset" /\ (k = "shield" => handler = "awaiting")
    BY <1>2 DEF Scheduling
<1> DEFINE P == IF handler = "awaiting" THEN (Pending \ {Handle(k)}) \cup {h}
                ELSE Pending \ {Handle(k)}
<1>6. h \notin Elems(q)
    BY <1>2, <1>4
<1> HIDE DEF q
<1>7. /\ ready' \in Seq(Entry) /\ Once(ready') /\ StepsFirst(ready')
      /\ Elems(ready') = P
    BY <1>2, <1>3, <1>4, <1>5, <1>6, Added
<1>8. Distinct' /\ HandlerLast' /\ Pending' = P
    BY <1>7, QueueIs
<1>9. TypeOK'
    BY <1>3, <1>7 DEF TypeOK
<1>10. Started' = Started /\ Ended' = Ended
    BY <1>3 DEF Started, Ended
<1>11. Results'
    BY <1>3, <1>5, <1>10 DEF Results
<1>12. Scheduling'
    <2>1. \A t \in Task : /\ <<"step", t>> \in Pending' <=> <<"step", t>> \in Pending
                          /\ <<"done", t>> \in Pending' => <<"done", t>> \in Pending
        BY <1>1, <1>8 DEF Handle
    <2>2. Handle("chain") \notin Pending'
        BY <1>2, <1>4, <1>8 DEF Scheduling
    <2>3. \A x \in {"shield", "handler"} :
              Handle(x) \in Pending' => handler = "awaiting" /\ Handle(x) = h
        BY <1>2, <1>8 DEF Scheduling, Handle
    <2>4. ~(Handle("shield") \in Pending' /\ Handle("handler") \in Pending')
        BY <2>3 DEF Handle
    <2> QED BY <1>3, <1>10, <2>1, <2>2, <2>3, <2>4 DEF Scheduling
<1> QED BY <1>8, <1>9, <1>11, <1>12

\* The handler is the last callback, so that no task is to run any more.
LEMMA HandlerKeeps ==
    ASSUME TasksInv, HandlerRuns
    PROVE  TasksInv'
<1> USE DEF TasksInv
<1> DEFINE q == Tail(ready)
<1>1. /\ ready' = q /\ handler' = "resumed"
      /\ UNCHANGED <<task, cancelling, cancelled, haveResult, result, lost>>
    BY DEF HandlerRuns
<1>2. /\ q \in Seq(Entry) /\ Once(q) /\ StepsFirst(q)
      /\ Elems(q) = Pending \ {Handle("handler")} /\ Handle("handler") \in Pending
      /\ \A t \in Task : <<"step", t>> \notin Pending
    BY Taken DEF HandlerRuns, Handle
<1>3. Distinct' /\ HandlerLast' /\ Pending' = Pending \ {Handle("handler")}
    BY <1>1, <1>2, QueueIs
<1>4. result = "set" /\ haveResult /\ Handle("shield") \notin Pending
    BY <1>2 DEF Scheduling, Results
<1>5. Ended = Started
    <2>1. \A t \in Task : task[t] \notin {"waiting", "woken"}
        BY <1>2, <1>4 DEF Scheduling, Results
    <2> QED BY <2>1 DEF TypeOK, TaskState, Started, Ended
<1>6. Started' = Started /\ Ended' = Ended
    BY <1>1 DEF Started, Ended
<1>7. TypeOK'
    BY <1>1, <1>2 DEF TypeOK
<1>8. Results'
    BY <1>1, <1>4, <1>5, <1>6 DEF Results
<1>9. Scheduling'
    BY <1>1, <1>3, <1>4, <1>6 DEF Scheduling, Handle
<1> QED BY <1>3, <1>7, <1>8, <1>9

LEMMA WakeKeeps ==
    ASSUME TasksInv, NEW t \in Task, Wake(t)
    PROVE  TasksInv'
<1> USE DEF TasksInv
<1> DEFINE e == <<"step", t>>
<1>1. /\ task[t] = "waiting" /\ task' = [task EXCEPT ![t] = "woken"]
      /\ ready' = Append(ready, e)
      /\ UNCHANGED <<cancelling, cancelled, haveResult, result, lost, handler>>
    BY DEF Wake
<1>2. ~haveResult /\ result = "unset"
    BY <1>1 DEF Results
<1>3. /\ ready \in Seq(Entry) /\ Once(ready) /\ StepsFirst(ready) /\ Elems(ready) = Pending
    BY DEF TypeOK, Distinct, HandlerLast, Once, StepsFirst, Elems, Pending
<1>4. e \in Entry /\ e \notin Pending /\ Handle("handler") \notin Pending
    BY <1>1, <1>2 DEF Entry, Scheduling
<1>5. /\ ready' \in Seq(Entry) /\ Once(ready') /\ StepsFirst(ready')
      /\ Elems(ready') = Pending \cup {e}
    BY <1>1, <1>3, <1>4, Added
<1>6. Distinct' /\ HandlerLast' /\ Pending' = Pending \cup {e}
    BY <1>5, QueueIs
<1>7. TypeOK'
    BY <1>1, <1>5 DEF TypeOK, TaskState
<1>8. Started' = Started /\ Ended' = Ended
    BY <1>1 DEF TypeOK, Started, Ended
<1>9. Results'
    BY <1>1, <1>2, <1>8 DEF Results
<1>10. Scheduling'
    BY <1>1, <1>6, <1>8 DEF Scheduling, TypeOK, Handle
<1> QED BY <1>6, <1>7, <1>9, <1>10

LEMMA TasksNext == TasksInv /\ [Next]_vars => TasksInv'
<1> SUFFICES ASSUME TasksInv, [Next]_vars
             PROVE  TasksInv'
    OBVIOUS
<1>1. ASSUME NEW t \in Task, TaskStep(t) \/ TaskDone(t) \/ Wake(t)
      PROVE  TasksInv'
    BY <1>1, TaskStepKeeps, TaskDoneKeeps, WakeKeeps
<1>2. CASE ChainRuns \/ ShieldRuns
    BY <1>2, FutureKeeps
<1>3. CASE HandlerRuns
    BY <1>3, HandlerKeeps
<1>4. CASE ConnectionLost
    BY <1>4, ConnectionLostKeeps
<1>5. ASSUME NEW r \in {"set", "chained"}, Cancel(r)
      PROVE  TasksInv'
    BY <1>5, CancelKeeps
<1>6. ASSUME NEW T \in SUBSET Task, Start(T)
      PROVE  TasksInv'
    BY <1>6, StartKeeps
<1>7. CASE UNCHANGED vars
    BY <1>7 DEF vars, TasksInv, TypeOK, Distinct, HandlerLast, Scheduling, Results, Pending,
                Started, Ended
<1> QED BY <1>1, <1>2, <1>3, <1>4, <1>5, <1>6, <1>7 DEF Next, Callback

---------------------------------------------------------------------------
(* The theorems.                                                           *)

\* Tasks (task.py) and the handler that waits for them: what is scheduled agrees with
\* what tasks and futures are in, for any finite number of tasks.
THEOREM TasksInvariant == Spec => []TasksInv
<1>1. Init => TasksInv
    BY TasksInit
<1>2. TasksInv /\ [Next]_vars => TasksInv'
    BY TasksNext
<1> QED BY <1>1, <1>2, PTL DEF Spec

\* handle_client goes on only when the receive loop, the keep-alive loop and whatever
\* else was started are over.
THEOREM HandlerComesLast == Spec => []ResultAfterTasks
<1>1. TasksInv => ResultAfterTasks
    BY DEF TasksInv, Results, ResultAfterTasks
<1> QED BY <1>1, TasksInvariant, PTL

\* At most one callback is scheduled.
LEMMA AtMostOne ==
    ASSUME Distinct, NEW e
    PROVE  LET S == {i \in DOMAIN ready : ready[i] = e} IN
           /\ Cardinality(S) \in {0, 1}
           /\ e \notin Pending => Cardinality(S) = 0
<1> DEFINE S == {i \in DOMAIN ready : ready[i] = e}
<1>1. CASE S = {}
    BY <1>1, FS_EmptySet
<1>2. CASE S # {}
    <2>1. PICK i \in S : TRUE
        BY <1>2
    <2>2. S = {i}
        BY <2>1 DEF Distinct
    <2>3. Cardinality({i}) = 1
        BY FS_Singleton
    <2>4. e \in Pending
        BY <2>1 DEF Pending
    <2> QED BY <2>2, <2>3, <2>4
<1> QED BY <1>1, <1>2

\* Nothing sets the result future a second time, and the handler is resumed once,
\* whoever cancels the tasks, fails or loses the connection, and in whatever order.
THEOREM ResultIsSetOnce == Spec => []SetOnce
<1>1. TasksInv => SetOnce
    <2> SUFFICES ASSUME TasksInv PROVE SetOnce
        OBVIOUS
    <2> DEFINE N(k) == Cardinality({i \in DOMAIN ready : ready[i] = Handle(k)})
    <2>1. \A k : N(k) \in {0, 1} /\ (Handle(k) \notin Pending => N(k) = 0)
        BY AtMostOne DEF TasksInv
    <2> HIDE DEF N
    <2>2. N("chain") <= IF result = "chained" THEN 1 ELSE 0
        BY <2>1 DEF TasksInv, Scheduling
    <2>3. N("shield") + N("handler") <= IF result = "set" /\ handler = "awaiting" THEN 1 ELSE 0
        BY <2>1 DEF TasksInv, Scheduling
    <2> QED BY <2>2, <2>3 DEF N, SetOnce
<1> QED BY <1>1, TasksInvariant, PTL

\* A task of a client that has a result does not wait for anything again.
THEOREM NothingAfterResult == Spec => NoWorkAfterResult
<1> DEFINE A == \A t \in Task : haveResult /\ task[t] = "woken" => task'[t] # "waiting"
<1>1. TasksInv /\ TasksInv' /\ [Next]_vars => [A]_vars
    <2> SUFFICES ASSUME TasksInv, TasksInv', [Next]_vars, haveResult
                 PROVE  A \/ UNCHANGED vars
        OBVIOUS
    <2>1. CASE UNCHANGED vars
        BY <2>1
    <2>2. CASE Next
        <3>1. haveResult'
            BY <2>2 DEF Next, Callback, ChainRuns, ShieldRuns, HandlerRuns, TaskStep, TaskDone,
                        ConnectionLost, Cancel, Start, Wake, SetResultAndCancel
        <3>2. A
            BY <3>1 DEF TasksInv, Results
        <3> QED BY <3>2
    <2> QED BY <2>1, <2>2
<1> QED BY <1>1, TasksInvariant, PTL DEF Spec, NoWorkAfterResult

---------------------------------------------------------------------------
(* The tasks as a group.                                                   *)

LEMMA CancellingInit == Init => CancellingInv
BY DEF Init, CancellingInv

\* Only tasks that are to be resumed are being cancelled, and a task that is resumed
\* is no longer.
LEMMA CancellingNext == TasksInv /\ CancellingInv /\ [Next]_vars => CancellingInv'
<1> SUFFICES ASSUME TasksInv, CancellingInv, [Next]_vars
             PROVE  CancellingInv'
    OBVIOUS
<1>1. TypeOK
    BY DEF TasksInv
<1>2. ASSUME NEW r, NEW before, SetResultAndCancel(r, before)
      PROVE  CancellingInv'
    BY <1>1, <1>2 DEF SetResultAndCancel, CancellingInv, TypeOK
<1>3. ASSUME NEW t \in Task, TaskStep(t)
      PROVE  CancellingInv'
    BY <1>1, <1>3 DEF TaskStep, CancellingInv, TypeOK
<1>4. ASSUME NEW t \in Task, TaskDone(t)
      PROVE  CancellingInv'
    <2>1. CASE task[t] = "failed"
        BY <1>2, <1>4, <2>1 DEF TaskDone
    <2>2. CASE task[t] # "failed"
        BY <1>4, <2>2 DEF TaskDone, CancellingInv
    <2> QED BY <2>1, <2>2
<1>5. ASSUME NEW r, Cancel(r)
      PROVE  CancellingInv'
    BY <1>2, <1>5 DEF Cancel
<1>6. ASSUME NEW T \in SUBSET Task, Start(T)
      PROVE  CancellingInv'
    <2>1. cancelling = {}
        BY <1>6 DEF Start, TasksInv, TypeOK, Results, Started, CancellingInv
    <2> QED BY <1>6, <2>1 DEF Start, CancellingInv
<1>7. ASSUME NEW t \in Task, Wake(t)
      PROVE  CancellingInv'
    BY <1>1, <1>7 DEF Wake, CancellingInv, TypeOK
<1>8. CASE ChainRuns \/ ShieldRuns \/ HandlerRuns \/ ConnectionLost \/ UNCHANGED vars
    BY <1>8 DEF ChainRuns, ShieldRuns, HandlerRuns, ConnectionLost, vars, CancellingInv
<1> QED BY <1>3, <1>4, <1>5, <1>6, <1>7, <1>8 DEF Next, Callback

\* What a task does that neither sets nor has a result does not change the work.
LEMMA SameTasks ==
    ASSUME UNCHANGED <<task, cancelling>>
    PROVE  Work' = Work
<1>1. AtWork' = AtWork /\ Started' = Started /\ Ended' = Ended
    BY DEF AtWork, Started, Ended
<1> QED BY <1>1 DEF Work

\* As long as there is no result, all that is not over works; once there is one,
\* nothing that is not over does.
WorkIs ==
    /\ TypeOK /\ CancellingInv /\ ~haveResult
           => Work = IF Ended # Started THEN "working" ELSE "none"
    /\ Results /\ haveResult
           => Work = IF Ended # Started THEN "stopping" ELSE "none"

LEMMA WorkNow == WorkIs
<1>1. ASSUME TypeOK, CancellingInv, ~haveResult
      PROVE  Work = IF Ended # Started THEN "working" ELSE "none"
    <2>1. cancelling = {}
        BY <1>1 DEF CancellingInv
    <2>2. AtWork = {t \in Task : task[t] \in {"waiting", "woken"}}
        BY <2>1 DEF AtWork
    <2>3. \A t \in Task : t \in AtWork <=> t \in Started /\ t \notin Ended
        BY <1>1, <2>2 DEF TypeOK, TaskState, Started, Ended
    <2>4. Ended \subseteq Started /\ Started \subseteq Task /\ AtWork \subseteq Task
        BY DEF Ended, Started, AtWork
    <2>5. AtWork # {} <=> Ended # Started
        BY <2>3, <2>4
    <2> QED BY <2>5 DEF Work
<1>2. ASSUME Results, haveResult
      PROVE  Work = IF Ended # Started THEN "stopping" ELSE "none"
    <2>1. AtWork = {}
        BY <1>2 DEF Results, AtWork
    <2> QED BY <2>1 DEF Work
<1> QED BY <1>1, <1>2 DEF WorkIs

LEMMA WorkNext == WorkIs'
BY WorkNow, PTL

\* The first result settles the outcome, a later one changes nothing.
LEMMA SettleStep ==
    ASSUME TasksInv, CancellingInv, TasksInv', NEW r \in {"set", "chained"}, NEW before,
           SetResultAndCancel(r, before), UNCHANGED <<lost, handler>>
    PROVE  Group!Next \/ UNCHANGED Group!vars
<1> USE DEF TasksInv
<1>1. /\ haveResult' = TRUE
      /\ result' = IF haveResult THEN result ELSE r
      /\ task' = [t \in Task |-> IF task[t] = "waiting" THEN "woken" ELSE task[t]]
      /\ cancelling' = cancelling \cup {t \in Task : task[t] \in {"waiting", "woken"}}
    BY DEF SetResultAndCancel
<1>2. Waiter' = Waiter /\ lost' = lost
    BY DEF Waiter
<1>3. Started' = Started /\ Ended' = Ended
    BY <1>1 DEF Started, Ended, TypeOK
<1>4. Work' = IF Ended # Started THEN "stopping" ELSE "none"
    BY <1>1, <1>3, WorkNext DEF WorkIs
<1>5. CASE haveResult
    <2>1. Outcome' = Outcome
        BY <1>1, <1>5 DEF Outcome
    <2>2. Work' = Work
        BY <1>4, <1>5, WorkNow DEF WorkIs
    <2> QED BY <1>2, <2>1, <2>2 DEF Group!vars
<1>6. CASE ~haveResult
    <2>1. Outcome = "none" /\ Outcome' \in {"pending", "final"}
        BY <1>1, <1>6 DEF Outcome, Results
    <2>2. Work = IF Ended # Started THEN "working" ELSE "none"
        BY <1>6, WorkNow DEF WorkIs
    <2>3. Group!Settle
        BY <1>2, <1>4, <2>1, <2>2 DEF Group!Settle
    <2> QED BY <2>3 DEF Group!Next
<1> QED BY <1>5, <1>6

\* Tasks are started only while there is no outcome.
LEMMA GroupStart ==
    ASSUME TasksInv, CancellingInv, TasksInv', CancellingInv', NEW T \in SUBSET Task, Start(T)
    PROVE  Group!Next
<1> USE DEF TasksInv
<1>1. /\ handler = "handshake" /\ (cancelled => T = {})
      /\ task' = [t \in Task |-> IF t \in T THEN "woken" ELSE "none"]
      /\ handler' = IF result = "set" THEN "resumed" ELSE "awaiting"
      /\ UNCHANGED <<cancelling, cancelled, haveResult, result, lost>>
    BY DEF Start
<1>2. Outcome' = Outcome /\ Waiter = "before"
    BY <1>1 DEF Outcome, Waiter
<1>3. Waiter' = "waits" \/ (Outcome' = "final" /\ Waiter' = "on")
    BY <1>1 DEF Outcome, Waiter
<1>4. Ended' = {} /\ Started' = T
    BY <1>1 DEF Started, Ended
<1>5. Work' = "none" \/ (Outcome' = "none" /\ Work' = "working")
    <2>1. CASE haveResult
        <3>1. T = {}
            BY <1>1, <2>1 DEF Results
        <3> QED BY <1>1, <1>4, <2>1, <3>1, WorkNext DEF WorkIs
    <2>2. CASE ~haveResult
        <3>1. Outcome' = "none"
            BY <1>1, <2>2 DEF Results, Outcome
        <3>2. Work' \in {"working", "none"}
            BY <1>1, <2>2, WorkNext DEF WorkIs
        <3> QED BY <3>1, <3>2
    <2> QED BY <2>1, <2>2
<1>6. Group!Begin
    BY <1>1, <1>2, <1>3, <1>5 DEF Group!Begin
<1> QED BY <1>6 DEF Group!Next

\* A task goes on, fails, or ends because it was told to.
LEMMA GroupTaskStep ==
    ASSUME TasksInv, CancellingInv, TasksInv', CancellingInv', NEW t \in Task, TaskStep(t)
    PROVE  Group!Next \/ UNCHANGED Group!vars
<1> USE DEF TasksInv
<1>1. UNCHANGED <<cancelled, haveResult, result, lost, handler>>
    BY DEF TaskStep
<1>2. Outcome' = Outcome /\ Waiter' = Waiter /\ lost' = lost
    BY <1>1 DEF Outcome, Waiter
<1>3. task[t] = "woken"
    BY Taken DEF TaskStep, Scheduling
<1>4. Started' = Started /\ t \in Started /\ t \notin Ended
    BY <1>3 DEF TaskStep, TypeOK, Started, Ended
<1>5. Work' = Work \/ (Work # "none" /\ Work' = "none")
    <2>1. CASE haveResult
        BY <1>1, <1>4, <2>1, WorkNow, WorkNext DEF WorkIs
    <2>2. CASE ~haveResult
        BY <1>1, <1>4, <2>2, WorkNow, WorkNext DEF WorkIs
    <2> QED BY <2>1, <2>2
<1>6. CASE Work' = Work
    BY <1>2, <1>6 DEF Group!vars
<1>7. CASE Work # "none" /\ Work' = "none"
    <2>1. Group!Finish
        BY <1>2, <1>7 DEF Group!Finish
    <2> QED BY <2>1 DEF Group!Next
<1> QED BY <1>5, <1>6, <1>7

\* The outcome of tasks that end without a failure is settled when the last has ended.
LEMMA GroupTaskDone ==
    ASSUME TasksInv, CancellingInv, TasksInv', NEW t \in Task, TaskDone(t)
    PROVE  Group!Next \/ UNCHANGED Group!vars
<1> USE DEF TasksInv
<1>1. UNCHANGED <<lost, handler>>
    BY DEF TaskDone
<1>2. CASE task[t] = "failed"
    <2>1. SetResultAndCancel("set", Tail(ready))
        BY <1>2 DEF TaskDone
    <2> QED BY <1>1, <2>1, SettleStep
<1>3. CASE task[t] # "failed"
    <2>1. UNCHANGED <<task, cancelling>> /\ Waiter' = Waiter
        BY <1>1, <1>3 DEF TaskDone, Waiter
    <2>2. Work' = Work
        BY <2>1, SameTasks
    <2>3. CASE UNCHANGED result
        BY <1>1, <2>1, <2>2, <2>3 DEF Outcome, Group!vars
    <2>4. CASE Ended = Started /\ ~haveResult /\ result' = "set"
        <3>1. Outcome = "none" /\ Outcome' = "final"
            BY <2>4 DEF Outcome, Results
        <3>2. Work = "none"
            BY <2>4, WorkNow DEF WorkIs
        <3>3. Group!Settle
            BY <1>1, <2>1, <2>2, <3>1, <3>2 DEF Group!Settle
        <3> QED BY <3>3 DEF Group!Next
    <2> QED BY <1>3, <2>3, <2>4 DEF TaskDone
<1> QED BY <1>2, <1>3

\* The loss of the connection, and the result that it brings to a dropped client.
LEMMA GroupLose ==
    ASSUME TasksInv, ConnectionLost \/ ChainRuns
    PROVE  Group!Next
<1> USE DEF TasksInv
<1>1. UNCHANGED <<task, cancelling, handler>> /\ lost' = TRUE
    <2>1. CASE ConnectionLost
        BY <2>1 DEF ConnectionLost
    <2>2. CASE ChainRuns
        <3>1. lost
            BY <2>2, Taken DEF ChainRuns, Scheduling, Handle
        <3> QED BY <2>2, <3>1 DEF ChainRuns, TypeOK
    <2> QED BY <2>1, <2>2
<1>2. Work' = Work /\ Waiter' = Waiter
    BY <1>1, SameTasks DEF Waiter
<1>3. Outcome' = Outcome \/ (Outcome = "pending" /\ Outcome' = "final")
    <2>1. CASE ConnectionLost
        BY <2>1 DEF ConnectionLost, Outcome
    <2>2. CASE ChainRuns
        <3>1. result = "chained" /\ result' = "set"
            BY <2>2, Taken DEF ChainRuns, Scheduling, Handle
        <3> QED BY <3>1 DEF Outcome
    <2> QED BY <2>1, <2>2
<1>4. Group!Lose
    BY <1>1, <1>2, <1>3 DEF Group!Lose
<1> QED BY <1>4 DEF Group!Next

\* The handler goes on with the outcome when no task runs any more.
LEMMA GroupResume ==
    ASSUME TasksInv, TasksInv', HandlerRuns
    PROVE  Group!Next
<1> USE DEF TasksInv
<1>1. /\ handler' = "resumed"
      /\ UNCHANGED <<task, cancelling, cancelled, haveResult, result, lost>>
    BY DEF HandlerRuns
<1>2. handler = "awaiting" /\ result = "set"
    BY Taken DEF HandlerRuns, Scheduling, Handle
<1>3. Outcome = "final" /\ Outcome' = Outcome /\ Waiter = "waits" /\ Waiter' = "on"
    BY <1>1, <1>2 DEF Outcome, Waiter
<1>4. Work' = Work
    BY <1>1, SameTasks
<1>5. Work' = "none"
    <2>1. Ended' = Started' /\ haveResult'
        BY <1>1, <1>2 DEF Results
    <2> QED BY <2>1, WorkNext DEF WorkIs
<1>6. Group!Resume
    BY <1>1, <1>3, <1>4, <1>5 DEF Group!Resume
<1> QED BY <1>6 DEF Group!Next

LEMMA GroupInit == Init => Group!Init
<1> SUFFICES ASSUME Init PROVE Group!Init
    OBVIOUS
<1>1. AtWork = {} /\ Ended = Started
    BY DEF Init, AtWork, Started, Ended
<1> QED BY <1>1 DEF Init, Outcome, Work, Waiter, Group!Init

LEMMA GroupStep ==
    ASSUME TasksInv, CancellingInv, TasksInv', CancellingInv', [Next]_vars
    PROVE  Group!Next \/ UNCHANGED Group!vars
<1>1. ASSUME NEW t \in Task, TaskStep(t) \/ TaskDone(t)
      PROVE  Group!Next \/ UNCHANGED Group!vars
    BY <1>1, GroupTaskStep, GroupTaskDone
<1>2. CASE ConnectionLost \/ ChainRuns
    BY <1>2, GroupLose
<1>3. CASE HandlerRuns
    BY <1>3, GroupResume
<1>4. CASE ShieldRuns \/ UNCHANGED vars
    <2>1. UNCHANGED <<task, cancelling, result, lost, handler>>
        BY <1>4 DEF ShieldRuns, vars
    <2> QED BY <2>1, SameTasks DEF Outcome, Waiter, Group!vars
<1>5. ASSUME NEW r \in {"set", "chained"}, Cancel(r)
      PROVE  Group!Next \/ UNCHANGED Group!vars
    <2>1. SetResultAndCancel(r, ready) /\ UNCHANGED <<lost, handler>>
        BY <1>5 DEF Cancel
    <2> QED BY <2>1, SettleStep
<1>6. ASSUME NEW T \in SUBSET Task, Start(T)
      PROVE  Group!Next
    BY <1>6, GroupStart
<1>7. ASSUME NEW t \in Task, Wake(t)
      PROVE  UNCHANGED Group!vars
    <2> USE DEF TasksInv
    <2>1. UNCHANGED <<cancelling, haveResult, result, lost, handler>> /\ ~haveResult
        BY <1>7 DEF Wake, Results
    <2>2. Started' = Started /\ Ended' = Ended
        BY <1>7 DEF Wake, TypeOK, Started, Ended
    <2>3. Work' = Work
        BY <2>1, <2>2, WorkNow, WorkNext DEF WorkIs
    <2> QED BY <2>1, <2>3 DEF Outcome, Waiter, Group!vars
<1> QED BY <1>1, <1>2, <1>3, <1>4, <1>5, <1>6, <1>7 DEF Next, Callback

\* Tasks and handle_client keep the promises of module TaskGroup, for any finite number
\* of tasks and in every order of callbacks: there is one outcome and it is settled
\* once, no task is started or works on when it is there, and the handler goes on with
\* it after the last task.
THEOREM TasksAreGroup == Spec => GroupSpec
<1>1. Init => TasksInv /\ CancellingInv /\ Group!Init
    BY TasksInit, CancellingInit, GroupInit
<1>2. TasksInv /\ CancellingInv /\ [Next]_vars => TasksInv' /\ CancellingInv'
    BY TasksNext, CancellingNext
<1>3. TasksInv /\ CancellingInv /\ TasksInv' /\ CancellingInv' /\ [Next]_vars
          => [Group!Next]_(Group!vars)
    BY GroupStep
<1> QED BY <1>1, <1>2, <1>3, PTL DEF Spec, GroupSpec, Group!Spec

=============================================================================

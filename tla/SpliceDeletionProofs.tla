------------------------ MODULE SpliceDeletionProofs ------------------------
(***************************************************************************)
(* The flags and taints of SpliceDeletion tell the truth, and a deletion   *)
(* splices nothing but what it was asked to and leaves nothing of that but *)
(* what is held, for any number of objects, connections, ports and taint   *)
(* bits.                                                                   *)
(*                                                                         *)
(* FlagsMatch and TaintsMatch together with the types are inductive.  All  *)
(* actions but the deletions put one record into one place of the heap, so *)
(* that it is enough to show that this record is a faithful one            *)
(* (PutPreserves); the deletions change several places in one step         *)
(* (SplicePreserves).                                                      *)
(***************************************************************************)
EXTENDS SpliceDeletion, TLAPS

\* The taints of the connections in D.
TaintsOf(D) == {port[c] % MaxUsers : c \in D}

\* What FlagsMatch and TaintsMatch say of one object.
Faithful(r) ==
    /\ r.synthesized = r.madeUp
    /\ r.madeUp => ~r.trusted
    /\ ~r.lost => r.taints = TaintsOf(r.from)

---------------------------------------------------------------------------
(* Taints and records.                                                     *)

\* The taint of a connection is one of the bits.
LEMMA TaintIsBit ==
    ASSUME TypeOK, NEW c \in Connection
    PROVE  port[c] % MaxUsers \in Bit
<1>1. port[c] \in Port
    BY DEF TypeOK
<1>2. port[c] \in Nat
    BY <1>1, DeletionAssumption
<1>3. MaxUsers \in Nat /\ MaxUsers # 0
    BY DeletionAssumption
<1>4. port[c] % MaxUsers \in 0 .. MaxUsers - 1
    BY <1>2, <1>3
<1>. QED
    BY <1>4 DEF Bit

\* The invariant in terms of records.
LEMMA InvariantByRecords ==
    IInv <=> TypeOK /\ \A o \in Object : Faithful(heap[o])
BY DEF IInv, FlagsMatch, TaintsMatch, Faithful, TaintsOf

\* Free records are faithful.
LEMMA FreeIsFaithful == Free \in Record /\ Faithful(Free)
BY DEF Free, Record, Kind, Faithful, TaintsOf

\* A record with a connection's data and its taint is faithful.
LEMMA OwnIsFaithful ==
    ASSUME TypeOK, NEW c \in Connection, NEW k \in Kind
    PROVE  LET r == [Free EXCEPT !.kind = k, !.taints = TaintOf(c), !.from = {c}]
           IN  r \in Record /\ Faithful(r)
<1>1. TaintOf(c) \subseteq Bit
    BY TaintIsBit DEF TaintOf
<1>2. TaintOf(c) = TaintsOf({c})
    BY DEF TaintOf, TaintsOf
<1>. QED
    BY <1>1, <1>2 DEF Free, Record, Faithful

\* Putting a faithful record into the heap keeps the invariant.
LEMMA PutPreserves ==
    ASSUME IInv, NEW o \in Object, NEW r \in Record, Faithful(r), Put(o, r), Quiet
    PROVE  IInv'
<1>1. heap' \in [Object -> Record] /\ UNCHANGED <<port, request, finished>>
    BY DEF IInv, TypeOK, Put, Quiet
<1>2. TypeOK'
    BY <1>1 DEF IInv, TypeOK
<1>3. ASSUME NEW x \in Object
      PROVE  heap'[x] = IF x = o THEN r ELSE heap[x]
    BY DEF IInv, TypeOK, Put
<1>4. ASSUME NEW x \in Object
      PROVE  Faithful(heap[x])'
    <2>1. Faithful(heap'[x])
        BY <1>3, InvariantByRecords
    <2>. QED
        BY <2>1, <1>1 DEF Faithful, TaintsOf
<1>. QED
    BY <1>2, <1>4 DEF IInv, FlagsMatch, TaintsMatch, Faithful, TaintsOf

\* The union of the taints is the taint of the union of the sources.
LEMMA UnionOfTaints ==
    ASSUME IInv, NEW A \in SUBSET Object, ~Lost(A)
    PROVE  UnionTaints(A) = TaintsOf(Sources(A))
<1>1. \A a \in A : heap[a].taints = TaintsOf(heap[a].from)
    BY InvariantByRecords DEF Faithful, Lost
<1>2. UNION {heap[a].taints : a \in A} = UNION {TaintsOf(heap[a].from) : a \in A}
    BY <1>1
<1>3. ASSUME NEW t
      PROVE  t \in UNION {TaintsOf(heap[a].from) : a \in A} <=> t \in TaintsOf(Sources(A))
    BY DEF TaintsOf, Sources
<1>. QED
    BY <1>2, <1>3 DEF UnionTaints

\* What is computed from objects has types of its own.
LEMMA UnionTypes ==
    ASSUME TypeOK, NEW A \in SUBSET Object
    PROVE  /\ UnionTaints(A) \subseteq Bit
           /\ Sources(A) \subseteq Connection
           /\ MadeUp(A) \in BOOLEAN /\ Lost(A) \in BOOLEAN
           /\ Untrusted(A) \in BOOLEAN /\ SynthesizedArgs(A) \in BOOLEAN
<1>1. \A a \in A : heap[a].taints \subseteq Bit /\ heap[a].from \subseteq Connection
    BY DEF TypeOK, Record
<1>. QED
    BY <1>1 DEF UnionTaints, Sources, MadeUp, Lost, Untrusted, SynthesizedArgs

\* The flags of arguments agree with what has been made up of them.
LEMMA UnionOfFlags ==
    ASSUME IInv, NEW A \in SUBSET Object
    PROVE  SynthesizedArgs(A) = MadeUp(A) /\ (MadeUp(A) => Untrusted(A))
<1>1. \A a \in A : heap[a].synthesized = heap[a].madeUp
    BY DEF IInv, FlagsMatch
<1>. QED
    BY <1>1 DEF SynthesizedArgs, MadeUp, Untrusted

---------------------------------------------------------------------------
(* The actions.                                                            *)

\* The result of a computation is faithful.
LEMMA ComputePreserves ==
    ASSUME IInv, NEW o \in Object, NEW A \in SUBSET Object, Compute(o, A)
    PROVE  IInv'
<1>. DEFINE r == [kind |-> "data", trusted |-> ~Untrusted(A), synthesized |-> SynthesizedArgs(A),
                  taints |-> UnionTaints(A), held |-> FALSE, from |-> Sources(A),
                  madeUp |-> MadeUp(A), lost |-> Lost(A)]
<1>1. r \in Record
    BY UnionTypes DEF Record, Kind, IInv
<1>2. Faithful(r)
    BY UnionOfTaints, UnionOfFlags DEF Faithful
<1>3. Put(o, r) /\ Quiet
    BY DEF Compute
<1>. HIDE DEF r
<1>. QED
    BY <1>1, <1>2, <1>3, PutPreserves

\* An object that is changed in place stays faithful.
LEMMA UpdatePreserves ==
    ASSUME IInv, NEW o \in Object, NEW A \in SUBSET Object, Update(o, A)
    PROVE  IInv'
<1>. DEFINE B == A \cup {o}
            r == [kind |-> "data", trusted |-> heap[o].trusted /\ ~Untrusted(B),
                  synthesized |-> heap[o].synthesized \/ SynthesizedArgs(A),
                  taints |-> heap[o].taints \cup UnionTaints(A), held |-> heap[o].held,
                  from |-> Sources(B), madeUp |-> MadeUp(B), lost |-> Lost(B)]
<1>0. B \in SUBSET Object
    OBVIOUS
<1>a. /\ UnionTaints(B) \subseteq Bit /\ Sources(B) \subseteq Connection
      /\ MadeUp(B) \in BOOLEAN /\ Lost(B) \in BOOLEAN
      /\ Untrusted(B) \in BOOLEAN /\ SynthesizedArgs(B) \in BOOLEAN
    BY <1>0, UnionTypes DEF IInv
<1>b. heap[o].taints \cup UnionTaints(A) = UnionTaints(B)
    BY DEF UnionTaints
<1>c. (heap[o].synthesized \/ SynthesizedArgs(A)) = SynthesizedArgs(B)
    <2>1. heap[o].synthesized \in BOOLEAN
        BY DEF IInv, TypeOK, Record
    <2>. QED
        BY <2>1 DEF SynthesizedArgs
<1>d. (heap[o].trusted /\ ~Untrusted(B)) = ~Untrusted(B)
    <2>1. heap[o].trusted \in BOOLEAN
        BY DEF IInv, TypeOK, Record
    <2>2. ~Untrusted(B) => heap[o].trusted
        BY DEF Untrusted
    <2>. QED
        BY <2>1, <2>2, <1>a
<1>e. r = [kind |-> "data", trusted |-> ~Untrusted(B), synthesized |-> SynthesizedArgs(B),
           taints |-> UnionTaints(B), held |-> heap[o].held, from |-> Sources(B),
           madeUp |-> MadeUp(B), lost |-> Lost(B)]
    BY <1>b, <1>c, <1>d
<1>1. r \in Record
    <2>1. heap[o].held \in BOOLEAN
        BY DEF IInv, TypeOK, Record
    <2>. QED
        BY <2>1, <1>a, <1>e DEF Record, Kind
<1>2. Faithful(r)
    <2>1. SynthesizedArgs(B) = MadeUp(B) /\ (MadeUp(B) => Untrusted(B))
        BY <1>0, UnionOfFlags
    <2>2. ~Lost(B) => UnionTaints(B) = TaintsOf(Sources(B))
        BY <1>0, UnionOfTaints
    <2>. QED
        BY <2>1, <2>2, <1>e DEF Faithful
<1>3. Put(o, r) /\ Quiet
    BY DEF Update
<1>. HIDE DEF r
<1>. QED
    BY <1>1, <1>2, <1>3, PutPreserves

\* Copies of a faithful record with another kind, without taints, or with a flag changed.
LEMMA CopyPreserves ==
    ASSUME IInv, NEW o \in Object, NEW a \in Object,
           Convert(o, a) \/ Prefix(o, a)
    PROVE  IInv'
<1>1. heap[a] \in Record /\ Faithful(heap[a])
    BY InvariantByRecords DEF TypeOK
<1>2. CASE Convert(o, a)
    <2>1. [heap[a] EXCEPT !.kind = "data", !.held = FALSE] \in Record
        BY <1>1 DEF Record, Kind
    <2>2. Faithful([heap[a] EXCEPT !.kind = "data", !.held = FALSE])
        BY <1>1 DEF Faithful, Record
    <2>. QED
        BY <2>1, <2>2, <1>2, PutPreserves DEF Convert
<1>3. CASE Prefix(o, a)
    <2>1. [heap[a] EXCEPT !.taints = {}, !.held = FALSE, !.lost = TRUE] \in Record
        BY <1>1 DEF Record
    <2>2. Faithful([heap[a] EXCEPT !.taints = {}, !.held = FALSE, !.lost = TRUE])
        BY <1>1 DEF Faithful, Record
    <2>. QED
        BY <2>1, <2>2, <1>3, PutPreserves DEF Prefix
<1>. QED
    BY <1>2, <1>3

\* Setting and clearing the trusted flag, holding, releasing and collecting an object.
LEMMA FlagPreserves ==
    ASSUME IInv, NEW o \in Object,
           ToTrusted(o) \/ ToUntrusted(o) \/ Hold(o) \/ Release(o) \/ Collect(o)
    PROVE  IInv'
<1>1. heap[o] \in Record /\ Faithful(heap[o])
    BY InvariantByRecords DEF TypeOK
<1>2. CASE ToTrusted(o)
    <2>1. [heap[o] EXCEPT !.trusted = TRUE] \in Record
        BY <1>1 DEF Record
    <2>2. Faithful([heap[o] EXCEPT !.trusted = TRUE])
        BY <1>1, <1>2 DEF Faithful, Record, ToTrusted
    <2>. QED
        BY <2>1, <2>2, <1>2, PutPreserves DEF ToTrusted
<1>3. CASE ToUntrusted(o)
    <2>1. [heap[o] EXCEPT !.trusted = FALSE] \in Record
        BY <1>1 DEF Record
    <2>2. Faithful([heap[o] EXCEPT !.trusted = FALSE])
        BY <1>1 DEF Faithful, Record
    <2>. QED
        BY <2>1, <2>2, <1>3, PutPreserves DEF ToUntrusted
<1>4. CASE Collect(o)
    BY <1>4, FreeIsFaithful, PutPreserves DEF Collect
<1>5. ASSUME NEW b \in BOOLEAN
      PROVE  LET r == [heap[o] EXCEPT !.held = b]
             IN  r \in Record /\ Faithful(r)
    BY <1>1 DEF Faithful, Record
<1>6. CASE Hold(o) \/ Release(o)
    BY <1>5, <1>6, PutPreserves DEF Hold, Release
<1>. QED
    BY <1>2, <1>3, <1>4, <1>6

\* What is spliced, in place or anew, is faithful.
LEMMA SplicedIsFaithful ==
    ASSUME NEW r \in Record
    PROVE  Spliced(r) \in Record /\ Faithful(Spliced(r)) /\ IsSpliced(Spliced(r))
BY DEF Spliced, Record, Faithful, TaintsOf, IsSpliced

\* The object that replace_single puts beside a held one.
LEMMA NewIsFaithful ==
    LET r == Spliced([Free EXCEPT !.kind = "data"]) IN r \in Record /\ Faithful(r)
<1>1. [Free EXCEPT !.kind = "data"] \in Record
    BY FreeIsFaithful DEF Record, Kind
<1>. QED
    BY <1>1, SplicedIsFaithful

\* Splicing any objects keeps the invariant, whichever of them stay and whatever comes.
LEMMA SplicePreserves ==
    ASSUME IInv, NEW done, NEW kept, NEW new, SpliceAll(done, kept, new), port' = port,
           request' \in Connection \cup {Nobody}, finished' \in BOOLEAN
    PROVE  IInv'
<1>1. ASSUME NEW o \in Object
      PROVE  heap'[o] \in Record /\ Faithful(heap'[o])
    <2>1. heap[o] \in Record /\ Faithful(heap[o])
        BY InvariantByRecords DEF TypeOK
    <2>2. heap'[o] \in {Spliced(heap[o]), Spliced([Free EXCEPT !.kind = "data"]), heap[o]}
        BY DEF SpliceAll
    <2>. QED
        BY <2>1, <2>2, SplicedIsFaithful, NewIsFaithful
<1>2. heap' \in [Object -> Record]
    <2>1. heap' = [o \in Object |-> heap'[o]]
        BY DEF SpliceAll
    <2>. QED
        BY <2>1, <1>1
<1>3. TypeOK'
    BY <1>2 DEF IInv, TypeOK
<1>4. ASSUME NEW o \in Object
      PROVE  Faithful(heap[o])'
    BY <1>1 DEF Faithful, TaintsOf
<1>. QED
    BY <1>3, <1>4 DEF IInv, FlagsMatch, TaintsMatch, Faithful, TaintsOf

\* No step breaks the invariant.
LEMMA NextPreserves ==
    ASSUME IInv, [Next]_vars
    PROVE  IInv'
<1>d. Data \subseteq Object
    BY DEF Data
<1>1. ASSUME NEW c \in Connection, NEW o \in Object, Receive(c, o)
      PROVE  IInv'
    <2>1. "data" \in Kind
        BY DEF Kind
    <2>. QED
        BY <1>1, <2>1, OwnIsFaithful, PutPreserves DEF Receive, IInv
<1>2. ASSUME NEW c \in Connection, NEW o \in Object, CreateJobs(c, o)
      PROVE  IInv'
    <2>1. "jobs" \in Kind
        BY DEF Kind
    <2>. QED
        BY <1>2, <2>1, OwnIsFaithful, PutPreserves DEF CreateJobs, IInv
<1>3. ASSUME NEW o \in Object, NEW A \in SUBSET Data, Compute(o, A)
      PROVE  IInv'
    BY <1>3, <1>d, ComputePreserves
<1>4. ASSUME NEW o \in Object, NEW a \in Data, Convert(o, a) \/ Prefix(o, a)
      PROVE  IInv'
    BY <1>4, <1>d, CopyPreserves
<1>5. ASSUME NEW o \in Data, NEW a \in Data, Update(o, {a})
      PROVE  IInv'
    BY <1>5, <1>d, UpdatePreserves
<1>6. ASSUME NEW o \in Object,
             ToTrusted(o) \/ ToUntrusted(o) \/ Hold(o) \/ Release(o) \/ Collect(o)
      PROVE  IInv'
    BY <1>6, FlagPreserves
<1>7. ASSUME NEW c \in Connection, Delete(c) \/ DeleteAborted(c)
      PROVE  IInv'
    BY <1>7, SplicePreserves DEF Delete, DeleteAborted, Walk
<1>8. CASE Raise \/ UNCHANGED vars
    <2>1. port' = port /\ heap' = heap
        BY <1>8 DEF Raise, vars
    <2>2. request' \in Connection \cup {Nobody} /\ finished' \in BOOLEAN
        BY <1>8 DEF Raise, vars, IInv, TypeOK
    <2>3. TypeOK'
        BY <2>1, <2>2 DEF IInv, TypeOK
    <2>. QED
        BY <2>1, <2>3 DEF IInv, FlagsMatch, TaintsMatch
<1>9. CASE Step
    <2>. USE <1>d, <1>9 DEF Step
    <2>1. CASE \E c \in Connection, o \in Object : Receive(c, o) \/ CreateJobs(c, o)
        BY <2>1, <1>1, <1>2
    <2>2. CASE \E o \in Object, A \in SUBSET Data \ {{}} : Compute(o, A)
        BY <2>2, <1>3
    <2>3. CASE \E o \in Object, a \in Data : Convert(o, a) \/ Prefix(o, a)
        BY <2>3, <1>4
    <2>4. CASE \E o, a \in Data : Update(o, {a})
        BY <2>4, <1>5
    <2>5. CASE \/ \E o \in Data : ToTrusted(o) \/ ToUntrusted(o) \/ Hold(o) \/ Release(o)
               \/ \E o \in Object : Collect(o)
        BY <2>5, <1>6
    <2>6. CASE \E c \in Connection : Delete(c) \/ DeleteAborted(c)
        BY <2>6, <1>7
    <2>. QED
        BY <2>1, <2>2, <2>3, <2>4, <2>5, <2>6
<1>. QED
    BY <1>8, <1>9 DEF Next

---------------------------------------------------------------------------
(* Theorems.                                                               *)

\* Types, flags and taints together are an invariant of objects and deletions, for
\* every heap, every set of connections and ports, and every number of taint bits.
THEOREM DeletionInvariant == Spec => []IInv
<1>1. Init => IInv
    <2>. SUFFICES ASSUME Init
                  PROVE  IInv
        OBVIOUS
    <2>1. TypeOK
        BY FreeIsFaithful DEF Init, TypeOK
    <2>2. \A o \in Object : Faithful(heap[o])
        BY FreeIsFaithful DEF Init
    <2>. QED
        BY <2>1, <2>2, InvariantByRecords
<1>. QED
    BY <1>1, NextPreserves, PTL DEF Spec

\* The flags of every object agree with what has been made up of it: deleted data is
\* never taken for real or trusted.
THEOREM FlagsAlwaysMatch == Spec => []FlagsMatch
<1>1. IInv => FlagsMatch
    BY DEF IInv
<1>. QED
    BY <1>1, DeletionInvariant, PTL

\* The taints of every object are those of the connections whose data it holds.
THEOREM TaintsAlwaysMatch == Spec => []TaintsMatch
<1>1. IInv => TaintsMatch
    BY DEF IInv
<1>. QED
    BY <1>1, DeletionInvariant, PTL

\* What a walk does to an object that is on the heap: if it is among those the walk is
\* done with it is spliced, or stays because it is held; otherwise it is not touched.
LEMMA WalkIsExact ==
    ASSUME IInv, NEW done, NEW failed, Walk(done, failed),
           NEW o \in Object, heap[o].kind # "free"
    PROVE  \/ o \in done /\ IsSpliced(heap'[o])
           \/ heap'[o] = heap[o] /\ (o \in done => heap[o].held)
<1>1. PICK kept \in SUBSET {x \in done \cap Data : heap[x].held},
           new \in SUBSET {x \in Object : Fresh(x)} : SpliceAll(done, kept, new)
    BY DEF Walk
<1>2. o \notin new
    BY DEF Fresh
<1>3. CASE o \in done \ kept
    <2>1. heap'[o] = Spliced(heap[o])
        BY <1>1, <1>2, <1>3 DEF SpliceAll
    <2>. QED
        BY <1>3, <2>1, SplicedIsFaithful DEF IInv, TypeOK
<1>4. CASE o \notin done \ kept
    <2>1. heap'[o] = heap[o]
        BY <1>1, <1>2, <1>4 DEF SpliceAll
    <2>2. o \in kept => heap[o].held
        OBVIOUS
    <2>. QED
        BY <1>4, <2>1, <2>2
<1>. QED
    BY <1>3, <1>4

\* The objects that a walk looks for are those that hold data of the connection alone,
\* as far as their taints have not been lost.
LEMMA TaintedIsDataOf ==
    ASSUME IInv, NEW c \in Connection, NEW o \in Object, heap[o].kind # "free", ~heap[o].lost
    PROVE  o \in TaintedBy(TaintOf(c)) <=> DataOf(c, o)
<1>1. heap[o].taints = TaintsOf(heap[o].from)
    BY InvariantByRecords DEF Faithful
<1>2. TaintsOf(heap[o].from) = {port[c] % MaxUsers}
      <=> /\ heap[o].from # {}
          /\ \A d \in heap[o].from : port[d] % MaxUsers = port[c] % MaxUsers
    BY DEF TaintsOf
<1>. QED
    BY <1>1, <1>2 DEF TaintedBy, TaintOf, DataOf

\* A deletion is exact: it splices only what holds data of this connection alone (or of
\* connections with its taint), and if it finishes, all of that but what is held.
THEOREM DeletionsAreExact == Spec => DeletionExact
<1>. DEFINE Exact(c, o) ==
        request' = c /\ heap[o].kind # "free" /\ ~heap[o].lost =>
            \/ heap'[o] = heap[o] /\ (finished' /\ DataOf(c, o) => heap[o].held)
            \/ IsSpliced(heap'[o]) /\ DataOf(c, o)
<1>1. ASSUME IInv, Next, NEW c \in Connection, NEW o \in Object
      PROVE  Exact(c, o)
    <2>. SUFFICES ASSUME request' = c, heap[o].kind # "free", ~heap[o].lost
                  PROVE  Exact(c, o)
        OBVIOUS
    <2>1. c # Nobody
        BY DeletionAssumption
    <2>2. Delete(c) \/ DeleteAborted(c)
        BY <1>1, <2>1 DEF Next, Step, Raise, Quiet, Receive, CreateJobs, Compute, Convert,
            Prefix, Update, ToTrusted, ToUntrusted, Hold, Release, Collect, Delete,
            DeleteAborted
    <2>3. o \in TaintedBy(TaintOf(c)) <=> DataOf(c, o)
        BY <1>1, TaintedIsDataOf
    <2>4. CASE Delete(c)
        <3>1. Walk(TaintedBy(TaintOf(c)), {})
            BY <2>4 DEF Delete
        <3>. QED
            BY <1>1, <2>3, <3>1, WalkIsExact
    <2>5. CASE DeleteAborted(c)
        <3>1. PICK done \in SUBSET TaintedBy(TaintOf(c)) : \E x : Walk(done, {x})
            BY <2>5 DEF DeleteAborted
        <3>2. ~finished'
            BY <2>5 DEF DeleteAborted
        <3>. QED
            BY <1>1, <2>3, <3>1, <3>2, WalkIsExact
    <2>. QED
        BY <2>2, <2>4, <2>5
<1>2. IInv /\ [Next]_vars => [\A c \in Connection, o \in Object : Exact(c, o)]_vars
    BY <1>1
<1>. QED
    BY <1>2, DeletionInvariant, PTL DEF Spec, DeletionExact

=============================================================================

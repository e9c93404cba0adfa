--------------------------- MODULE SpliceDeletion ---------------------------
(***************************************************************************)
(* The objects that carry a connection's data, the flags and taints that   *)
(* travel with them, and the request that deletes what one taint names:    *)
(* `SpliceMixin` and its metaclass (splice.py), identity.py, the places    *)
(* where the server taints and converts data, and the branch of            *)
(* `Server.handler` (server.py) that walks the heap.                       *)
(*                                                                         *)
(* A taint is a set of bits, one for a connection's port modulo MAX_USERS. *)
(* What an object's value is does not matter here (module SpliceSynthesis  *)
(* has what takes the place of one); from whom it comes does, and is       *)
(* recorded beside the flags, where the program does not see it.           *)
(* Which object refers to which does not matter either, but for the        *)
(* references that cannot be replaced: an object that has one is `held`.   *)
(*                                                                         *)
(* The deletion has no `await` in it: it runs alone, over the objects in   *)
(* an arbitrary order.                                                     *)
(*                                                                         *)
(* A definition whose name is that of the next one with a suffix           *)
(* (UnionTaintsTrusted) is a variant with a bug, used to see that a        *)
(* property notices it.                                                    *)
(***************************************************************************)
EXTENDS Naturals, FiniteSets

CONSTANTS
    Object,         \* bound: the places for objects on the heap
    Connection,     \* connections, and the users whose data may be deleted
    Port,           \* the ports that connections may have
    MaxUsers,       \* MAX_USERS, the number of taint bits
    Nobody          \* no connection

ASSUME DeletionAssumption ==
    /\ Port \subseteq Nat
    /\ MaxUsers \in Nat \ {0}
    /\ Nobody \notin Connection

VARIABLES
    port,       \* WebSocketServerProtocol.remote_address[1]
    heap,       \* the live objects, with trusted, synthesized and taints, whether
                \* they are held, and with whose data they hold, whether part of it
                \* was declared made up by a deletion, and whether they have been
                \* through what drops taints
    request,    \* whose data has just been deleted, or Nobody
    finished    \* the walk over the heap has come to its end

vars == <<port, heap, request, finished>>

Bit == 0 .. MaxUsers - 1

Kind == {"free", "data", "jobs"}

Record == [kind : Kind, trusted : BOOLEAN, synthesized : BOOLEAN, taints : SUBSET Bit,
           held : BOOLEAN, from : SUBSET Connection, madeUp : BOOLEAN, lost : BOOLEAN]

Free == [kind |-> "free", trusted |-> TRUE, synthesized |-> FALSE, taints |-> {},
         held |-> FALSE, from |-> {}, madeUp |-> FALSE, lost |-> FALSE]

\* get_taint_from_id
TaintOf(c) == {port[c] % MaxUsers}

Data == {o \in Object : heap[o].kind = "data"}

---------------------------------------------------------------------------
(* Flags and taints of results.                                            *)

\* contains_untrusted_arguments: what is synthesized is untrusted as well.
Untrusted(A) == \E a \in A : heap[a].synthesized \/ ~heap[a].trusted

SynthesizedArgs(A) == \E a \in A : heap[a].synthesized

UnionTaintsTrusted(A) == UNION {heap[a].taints : a \in {b \in A : heap[b].trusted}}

\* union_argument_taints
UnionTaints(A) == UNION {heap[a].taints : a \in A}

\* Whose data is in a result, whatever the program knows of it.
Sources(A) == UNION {heap[a].from : a \in A}
MadeUp(A) == \E a \in A : heap[a].madeUp
Lost(A) == \E a \in A : heap[a].lost

Put(o, r) == heap' = [heap EXCEPT ![o] = r]

Fresh(o) == heap[o].kind = "free"

Quiet == UNCHANGED <<port, request, finished>>

---------------------------------------------------------------------------
(* Objects of a connection.                                                *)

Init ==
    /\ port \in [Connection -> Port]
    /\ heap = [o \in Object |-> Free]
    /\ request = Nobody /\ finished = FALSE

\* The path of a connection and what is received from it are tainted.
Receive(c, o) ==
    /\ Fresh(o)
    /\ Put(o, [Free EXCEPT !.kind = "data", !.taints = TaintOf(c), !.from = {c}])
    /\ Quiet

\* SpliceJobQueue or SpliceTasks of a new PathClient.
CreateJobs(c, o) ==
    /\ Fresh(o)
    /\ Put(o, [Free EXCEPT !.kind = "jobs", !.taints = TaintOf(c), !.from = {c}])
    /\ Quiet

\* The result of a decorated method or of a constructor.
Compute(o, A) ==
    /\ Fresh(o)
    /\ Put(o, [kind |-> "data", trusted |-> ~Untrusted(A), synthesized |-> SynthesizedArgs(A),
               taints |-> UnionTaints(A), held |-> FALSE, from |-> Sources(A),
               madeUp |-> MadeUp(A), lost |-> Lost(A)])
    /\ Quiet

\* A decorated method that changes its object.
Update(o, A) ==
    /\ Put(o, [kind |-> "data",
               trusted |-> heap[o].trusted /\ ~Untrusted(A \cup {o}),
               synthesized |-> heap[o].synthesized \/ SynthesizedArgs(A),
               taints |-> heap[o].taints \cup UnionTaints(A), held |-> heap[o].held,
               from |-> Sources(A \cup {o}), madeUp |-> MadeUp(A \cup {o}),
               lost |-> Lost(A \cup {o})])
    /\ Quiet

\* Functions of other libraries (struct.unpack, unhexlify, decrypt, unpackb) return
\* plain objects; the server converts them with to_splice and the flags of what
\* they were made from.
Convert(o, a) ==
    /\ Fresh(o)
    /\ Put(o, [heap[a] EXCEPT !.kind = "data", !.held = FALSE])
    /\ Quiet

\* SpliceStr.__radd__: a literal in front of a string keeps the flags, and the taints
\* are dropped.
Prefix(o, a) ==
    /\ Fresh(o)
    /\ Put(o, [heap[a] EXCEPT !.taints = {}, !.held = FALSE, !.lost = TRUE])
    /\ Quiet

\* to_trusted: RuntimeError for what is synthesized.
ToTrusted(o) ==
    /\ ~heap[o].synthesized
    /\ Put(o, [heap[o] EXCEPT !.trusted = TRUE])
    /\ Quiet

\* to_untrusted: what is put into a SpliceDict.
ToUntrusted(o) ==
    /\ Put(o, [heap[o] EXCEPT !.trusted = FALSE])
    /\ Quiet

\* The object is put into a tuple, or into something else that replace_single does not
\* know how to write to.
Hold(o) ==
    /\ Put(o, [heap[o] EXCEPT !.held = TRUE])
    /\ Quiet

Release(o) ==
    /\ heap[o].held
    /\ Put(o, [heap[o] EXCEPT !.held = FALSE])
    /\ Quiet

Collect(o) ==
    /\ heap[o].kind # "free" /\ ~heap[o].held
    /\ Put(o, Free)
    /\ Quiet

---------------------------------------------------------------------------
(* Deletion.                                                               *)

SplicedKeepsTrust(r) ==
    [r EXCEPT !.synthesized = TRUE, !.taints = {}, !.from = {}, !.madeUp = TRUE, !.lost = FALSE]

\* A system object that splice() has shut down, an object that was flagged because
\* nothing was synthesized for it, and the new object that was: made up, and nobody's.
\* One that is only flagged keeps its value, which counts as made up from then on.
Spliced(r) == [r EXCEPT !.trusted = FALSE, !.synthesized = TRUE, !.taints = {},
                        !.from = {}, !.madeUp = TRUE, !.lost = FALSE]

\* Everything that has the taint.
TaintedByToo(t) == {o \in Object : heap[o].kind # "free" /\ t \subseteq heap[o].taints}

\* The objects that have the taint and no other.
TaintedBy(t) == {o \in Object : heap[o].kind # "free" /\ heap[o].taints = t}

\* replace_single lets the references to an object refer to a new one.  The old object
\* itself is not touched: it is gone, with the new one in its place, unless it is held.
\* Then it stays as it is, and if it has other references as well the new one is beside
\* it.  `kept` are the old objects that stay, `new` the objects that come.
SpliceAll(done, kept, new) ==
    heap' = [o \in Object |->
                CASE o \in done \ kept -> Spliced(heap[o])
                  [] o \in new -> Spliced([Free EXCEPT !.kind = "data"])
                  [] OTHER -> heap[o]]

\* The walk over the heap has spliced the objects in `done` when it ends, or when it
\* fails at the objects in `failed`, some references of which it may have replaced.
Walk(done, failed) ==
    \E kept \in SUBSET {o \in done \cap Data : heap[o].held},
       new \in SUBSET {o \in Object : Fresh(o)} :
        /\ Cardinality(new) <= Cardinality(kept \cup (failed \cap Data))
        /\ SpliceAll(done, kept, new)

\* Server.handler, for a request to delete what connection c has sent.
Delete(c) ==
    /\ Walk(TaintedBy(TaintOf(c)), {})
    /\ request' = c /\ finished' = TRUE
    /\ UNCHANGED port

\* An exception ends the walk.  JobQueue.cancel raises that of a failed job, and a queue
\* has no constraints to be synthesized from instead; the synthesizer refuses letters
\* outside its charset; setattr raises AttributeError.
DeleteAborted(c) ==
    /\ \E done \in SUBSET TaintedBy(TaintOf(c)) :
           \E o \in TaintedBy(TaintOf(c)) \ done : Walk(done, {o})
    /\ request' = c /\ finished' = FALSE
    /\ UNCHANGED port

\* The request's handler ends with an exception either way: "Deletion is finished", or
\* the one that has ended the walk.
Raise ==
    /\ request # Nobody
    /\ request' = Nobody /\ finished' = FALSE
    /\ UNCHANGED <<port, heap>>

Step ==
    \/ \E c \in Connection, o \in Object : Receive(c, o) \/ CreateJobs(c, o)
    \/ \E o \in Object, A \in SUBSET Data \ {{}} : Compute(o, A)
    \/ \E o \in Object, a \in Data : Convert(o, a) \/ Prefix(o, a)
    \/ \E o, a \in Data : Update(o, {a})
    \/ \E o \in Data : ToTrusted(o) \/ ToUntrusted(o) \/ Hold(o) \/ Release(o)
    \/ \E o \in Object : Collect(o)
    \/ \E c \in Connection : Delete(c) \/ DeleteAborted(c)

Next == Raise \/ (request = Nobody /\ Step)

Spec == Init /\ [][Next]_vars

---------------------------------------------------------------------------
(* Properties                                                              *)

\* The types of the variables.
TypeOK ==
    /\ port \in [Connection -> Port]
    /\ heap \in [Object -> Record]
    /\ request \in Connection \cup {Nobody} /\ finished \in BOOLEAN

\* The flags tell the truth about what has been made up: nothing that comes from what a
\* deletion has synthesized or flagged, by whatever computations and conversions, is
\* ever taken for real or for trusted.
FlagsMatch ==
    \A o \in Object :
        /\ heap[o].synthesized = heap[o].madeUp
        /\ heap[o].madeUp => ~heap[o].trusted

\* The taints of an object are those of the connections whose data it holds, unless it
\* comes from a string that a literal was put in front of.
TaintsMatch ==
    \A o \in Object :
        ~heap[o].lost => heap[o].taints = {port[c] % MaxUsers : c \in heap[o].from}

\* All the data of the object is that of the connection, as far as the taints can tell:
\* connections whose ports have the same remainder count as one.
DataOf(c, o) ==
    /\ heap[o].kind # "free" /\ ~heap[o].lost /\ heap[o].from # {}
    /\ \A d \in heap[o].from : port[d] % MaxUsers = port[c] % MaxUsers

\* What the object held is gone, or declared made up.
IsSpliced(r) == r.synthesized /\ ~r.trusted /\ r.taints = {} /\ r.from = {}

\* A deletion, whether it finishes or is aborted, touches nothing but the data of this
\* connection alone, and of that leaves every object either as it was or spliced as a
\* whole.  If it says that it is finished, what is left as it was is held.
DeletionExact ==
    [][\A c \in Connection, o \in Object :
           request' = c /\ heap[o].kind # "free" /\ ~heap[o].lost =>
               \/ heap'[o] = heap[o] /\ (finished' /\ DataOf(c, o) => heap[o].held)
               \/ IsSpliced(heap'[o]) /\ DataOf(c, o)]_vars

---------------------------------------------------------------------------
(* The inductive invariant.                                                *)

IInv == TypeOK /\ FlagsMatch /\ TaintsMatch

---------------------------------------------------------------------------
(* What the program says of itself and does not keep.                      *)

\* "Deletion is finished": nothing is left of what the connection alone has sent.
\* Objects in tuples are left, with their taints and unmarked.
DeletionComplete ==
    [][\A c \in Connection, o \in Object :
           request' = c /\ finished' /\ DataOf(c, o) => IsSpliced(heap'[o])]_vars

=============================================================================

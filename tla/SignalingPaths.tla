--------------------------- MODULE SignalingPaths ---------------------------
(***************************************************************************)
(* The paths of the signaling server and the clients attached to them:     *)
(* `Paths` (server.py), `Path` and the state of `PathClient` (protocol.py) *)
(* and the places where `ServerProtocol` and `Server` change them.         *)
(*                                                                         *)
(* The program is one asyncio event loop: code between two `await`s that   *)
(* really suspend runs alone.  One action is one such segment, from the    *)
(* point where a handler resumes to the point where it suspends again.     *)
(* The jobs, the tasks and the messages of a client are in other modules;  *)
(* what they decide here (when a handshake fails, when a connection is     *)
(* lost) is left open: it may happen at any time.  Cancelling a job queue  *)
(* succeeds here; module ServerShutdown adds what follows when it raises.  *)
(*                                                                         *)
(* A definition whose name is that of the next one with a suffix           *)
(* (EmptyIgnoresPending) is a variant with a bug, used to see that a       *)
(* property notices it.                                                    *)
(***************************************************************************)
EXTENDS Integers, FiniteSets

CONSTANTS
    Client,     \* connections, each with its PathClient and ServerProtocol
    Key,        \* public permanent keys of initiators (the WebSocket path)
    None,       \* no client
    MaxPaths,   \* bound: how many Path instances a behaviour may create
    LastSlot,   \* the last responder address (0xff in the program)
    Splice      \* the module constant __splice__ (saltyrtc/server/__init__.py)

ServerAddress    == 0
InitiatorAddress == 1
ResponderAddress == 2 .. LastSlot
PathNumber       == 1 .. MaxPaths

ASSUME PathsAssumption ==
    /\ None \notin Client
    /\ MaxPaths \in Nat
    /\ LastSlot \in Nat /\ LastSlot >= 2
    /\ Splice \in BOOLEAN

VARIABLES
    paths,          \* Paths.paths: a path number per index, 0 for no entry
    number,         \* Paths.number
    initiatorKey,   \* Path.initiator_key
    attached,       \* Path.attached
    room,           \* Path._pending, ._initiator, ._responders
    path,           \* ServerProtocol.path, 0 before it is set
    state,          \* PathClient.state
    id,             \* PathClient.id
    phase,          \* where the protocol's handler stands
    closing         \* Server._close_task: "no", "scheduled" or "swept", when it
                    \* has closed the protocols and waits for their handlers

registry == <<paths, number, initiatorKey, attached>>
vars == <<paths, number, initiatorKey, attached, room,
          path, state, id, phase, closing>>

\* "handshake": until set_initiator or add_responder has authenticated the
\* client;  "greeting": from there to the end of handshake();  "serving": the
\* receive and keep-alive loops run;  "parked": no loop runs, the handler waits
\* for a result;  "leaving" and "full": the client is off the path, the handler
\* joins the job queue and closes the connection, "full" when it was turned
\* away with SlotsFullError;  "gone": unregistered;  "crashed": the handler
\* died of an exception before unregistering;  "refused": the constructor of
\* the protocol raised.
Phase == {"new", "handshake", "greeting", "serving", "parked",
          "leaving", "full", "gone", "crashed", "refused"}

\* The phases in which the client's handler is still inside handle_client.
Live == {"handshake", "greeting", "serving", "parked"}

\* The phases in which the protocol is in Server.protocols.
Registered == Live \cup {"leaving", "full", "crashed"}

---------------------------------------------------------------------------
(* Path: pure operations on the clients of one path.                       *)

NoResponders == [s \in ResponderAddress |-> None]
EmptyRoom == [pending |-> {}, initiator |-> None, responders |-> NoResponders]

Occupied(r) == {s \in ResponderAddress : r.responders[s] # None}

EmptyIgnoresPending(r) == r.initiator = None /\ Occupied(r) = {}

Empty(r) == r.pending = {} /\ r.initiator = None /\ Occupied(r) = {}

HasClient(r, c) ==
    IF id[c] = InitiatorAddress
    THEN r.initiator = c
    ELSE id[c] \in ResponderAddress /\ r.responders[id[c]] = c

AddPending(r, c) == [r EXCEPT !.pending = @ \cup {c}]

SetInitiator(r, c) == [r EXCEPT !.pending = @ \ {c}, !.initiator = c]

NextSlotOffByOne(r) == Cardinality(Occupied(r)) + 3

\* The id given to a responder: the number of responders, not the first
\* address that is free.
NextSlot(r) == Cardinality(Occupied(r)) + 2

\* SlotsFullError
Full(r) == NextSlot(r) > LastSlot

AddResponder(r, c) ==
    [r EXCEPT !.pending = @ \ {c}, !.responders = [@ EXCEPT ![NextSlot(r)] = c]]

RemoveClientKeepsSlot(r, c) ==
    [r EXCEPT !.pending = @ \ {c}, !.initiator = IF @ = c THEN None ELSE @]

RemoveClientAnyInitiator(r, c) ==
    IF id[c] = InitiatorAddress
    THEN [r EXCEPT !.pending = @ \ {c}, !.initiator = None]
    ELSE [r EXCEPT !.pending = @ \ {c},
                   !.responders = [s \in ResponderAddress |->
                                       IF s = id[c] THEN None ELSE @[s]]]

\* The initiator is compared with the client; the occupant of the responder's
\* slot is not.
RemoveClient(r, c) ==
    IF state[c] = "restricted"
    THEN [r EXCEPT !.pending = @ \ {c}]
    ELSE IF id[c] = InitiatorAddress
    THEN [r EXCEPT !.pending = @ \ {c},
                   !.initiator = IF @ = c THEN None ELSE @]
    ELSE [r EXCEPT !.pending = @ \ {c},
                   !.responders = [s \in ResponderAddress |->
                                       IF s = id[c] THEN None ELSE @[s]]]

\* PathClient.drop: only an authenticated client is marked as dropped.
Dropped(s) == IF s = "authenticated" THEN "dropped" ELSE s

---------------------------------------------------------------------------
(* Paths                                                                   *)

\* With __splice__, get() files a path under str(key); clean() removes it
\* under the key itself, which is never an index of the dictionary then.
Index == {"bytes", "str"} \X Key
IndexOnGet(k) == <<IF Splice THEN "str" ELSE "bytes", k>>
IndexOnCleanOther(k) == <<"str", k>>
IndexOnClean(k) == <<"bytes", k>>

Lookup(k) == IF paths[IndexOnGet(k)] = 0 THEN number + 1
                                         ELSE paths[IndexOnGet(k)]

Get(k) ==
    IF paths[IndexOnGet(k)] = 0
    THEN /\ number < MaxPaths
         /\ number' = number + 1
         /\ paths' = [paths EXCEPT ![IndexOnGet(k)] = number + 1]
         /\ initiatorKey' = [initiatorKey EXCEPT ![number + 1] = k]
         /\ attached' = [attached EXCEPT ![number + 1] = TRUE]
    ELSE UNCHANGED registry

CleanAlwaysForgets(p, r) ==
    /\ room' = [room EXCEPT ![p] = r]
    /\ attached' = [attached EXCEPT ![p] = ~Empty(r)]
    /\ paths' = [paths EXCEPT ![IndexOnClean(initiatorKey[p])] = 0]
    /\ UNCHANGED <<number, initiatorKey>>

\* Store r as the clients of path p and clean the path if it is empty then.
Clean(p, r) ==
    /\ room' = [room EXCEPT ![p] = r]
    /\ IF Empty(r)
       THEN /\ attached' = [attached EXCEPT ![p] = FALSE]
            /\ paths' = [paths EXCEPT ![IndexOnClean(initiatorKey[p])] = 0]
            /\ UNCHANGED <<number, initiatorKey>>
       ELSE UNCHANGED registry

---------------------------------------------------------------------------
(* ServerProtocol and Server                                               *)

Init ==
    /\ paths = [i \in Index |-> 0]
    /\ number = 0
    /\ initiatorKey = [p \in PathNumber |-> None]
    /\ attached = [p \in PathNumber |-> FALSE]
    /\ room = [p \in PathNumber |-> EmptyRoom]
    /\ path = [c \in Client |-> 0]
    /\ state = [c \in Client |-> "restricted"]
    /\ id = [c \in Client |-> ServerAddress]
    /\ phase = [c \in Client |-> "new"]
    /\ closing = "no"

\* A connection on the path of key k: Server.handler up to the creation of the
\* handler task.  add_pending raises ValueError if the path is detached, and
\* the constructor catches PathError only.
Connect(c, k) ==
    /\ phase[c] = "new" /\ closing = "no"
    /\ Get(k)
    /\ IF attached'[Lookup(k)]
       THEN /\ room' = [room EXCEPT ![Lookup(k)] = AddPending(@, c)]
            /\ path' = [path EXCEPT ![c] = Lookup(k)]
            /\ phase' = [phase EXCEPT ![c] = "handshake"]
       ELSE /\ phase' = [phase EXCEPT ![c] = "refused"]
            /\ UNCHANGED <<room, path>>
    /\ UNCHANGED <<state, id, closing>>

\* The client may authenticate: set_initiator and add_responder raise ValueError
\* on a detached path, KeyError if the client is not pending.
MayAuthenticate(c) ==
    /\ phase[c] = "handshake"
    /\ attached[path[c]]
    /\ c \in room[path[c]].pending

\* handshake_initiator from set_initiator on: the previous initiator is dropped
\* in the same segment.  (It is no longer the path's initiator, so remove_client
\* leaves the path as it is.)
AuthInitiator(c) ==
    LET p == path[c]
        previous == room[p].initiator IN
    /\ MayAuthenticate(c)
    /\ room' = [room EXCEPT ![p] = SetInitiator(@, c)]
    /\ state' = [x \in Client |-> IF x = c THEN "authenticated"
                                  ELSE IF x = previous THEN Dropped(state[x])
                                  ELSE state[x]]
    /\ id' = [id EXCEPT ![c] = InitiatorAddress]
    /\ phase' = [phase EXCEPT ![c] = "greeting"]
    /\ UNCHANGED <<registry, path, closing>>

\* handshake_responder from add_responder on.
AuthResponder(c) ==
    LET p == path[c] IN
    /\ MayAuthenticate(c)
    /\ ~Full(room[p])
    /\ room' = [room EXCEPT ![p] = AddResponder(@, c)]
    /\ state' = [state EXCEPT ![c] = "authenticated"]
    /\ id' = [id EXCEPT ![c] = NextSlot(room[p])]
    /\ phase' = [phase EXCEPT ![c] = "greeting"]
    /\ UNCHANGED <<registry, path, closing>>

\* The end of handle_client: the client is removed from its path (KeyError and
\* ValueError are ignored) and an attached path is cleaned.
Depart(c, p) ==
    /\ IF attached[path[c]]
       THEN Clean(path[c], RemoveClient(room[path[c]], c))
       ELSE UNCHANGED <<registry, room>>
    /\ phase' = [phase EXCEPT ![c] = p]
    /\ UNCHANGED <<path, state, id, closing>>

\* add_responder raises SlotsFullError: the handshake fails and handle_client
\* runs to its end without suspending.
SlotsFull(c) ==
    /\ phase[c] = "handshake"
    /\ attached[path[c]]
    /\ Full(room[path[c]])
    /\ Depart(c, "full")

\* The handshake failed, a task or a job of the client raised, or the dropped
\* client's connection is closed.
Leave(c) ==
    /\ phase[c] \in Live
    /\ Depart(c, "leaving")

\* handshake() has returned: the has_client branch of handle_client, up to
\* await_result.  has_client raises ValueError on a detached path, which the
\* handler answers by joining a job queue that was never started: InternalError.
HandshakeDone(c) ==
    /\ phase[c] = "greeting"
    /\ phase' = [phase EXCEPT ![c] =
                    IF ~attached[path[c]] THEN "crashed"
                    ELSE IF HasClient(room[path[c]], c) THEN "serving"
                    ELSE "parked"]
    /\ UNCHANGED <<registry, room, path, state, id, closing>>

\* The initiator's receive loop handles drop-responder for slot s.  (Its tasks
\* are cancelled once it is dropped.)
DropResponder(i, s) ==
    LET p == path[i]
        c == room[p].responders[s] IN
    /\ phase[i] = "serving" /\ state[i] = "authenticated"
    /\ id[i] = InitiatorAddress
    /\ attached[p]
    /\ c # None
    /\ room' = [room EXCEPT ![p] = RemoveClient(@, c)]
    /\ state' = [state EXCEPT ![c] = Dropped(@)]
    /\ UNCHANGED <<registry, path, id, phase, closing>>

\* The rest of ServerProtocol.handler, down to Server.unregister.
Unregister(c) ==
    /\ phase[c] \in {"leaving", "full"}
    /\ phase' = [phase EXCEPT ![c] = "gone"]
    /\ UNCHANGED <<registry, room, path, state, id, closing>>

\* Server.close: no connection is accepted from now on.
Close ==
    /\ closing = "no"
    /\ closing' = "scheduled"
    /\ UNCHANGED <<registry, room, path, state, id, phase>>

\* The closing task's first segment: every registered protocol's client is
\* dropped and removed from its path; nobody cleans the paths here.
CloseProtocols ==
    LET closed == {c \in Client : phase[c] \in Registered}
        Left(p) == {c \in closed : path[c] = p /\ attached[p]}
        Auth(p) == {c \in Left(p) : state[c] # "restricted"} IN
    /\ closing = "scheduled"
    /\ closing' = "swept"
    /\ room' = [p \in PathNumber |->
           [pending    |-> room[p].pending \ Left(p),
            initiator  |-> IF room[p].initiator \in Left(p) THEN None
                                                   ELSE room[p].initiator,
            responders |-> [s \in ResponderAddress |->
                               IF \E c \in Auth(p) : id[c] = s THEN None
                               ELSE room[p].responders[s]]]]
    /\ state' = [c \in Client |-> IF c \in closed THEN Dropped(state[c])
                                                  ELSE state[c]]
    /\ UNCHANGED <<registry, path, id, phase>>

Next ==
    \/ \E c \in Client, k \in Key : Connect(c, k)
    \/ \E c \in Client : \/ AuthInitiator(c) \/ AuthResponder(c)
                         \/ SlotsFull(c) \/ HandshakeDone(c)
                         \/ Leave(c) \/ Unregister(c)
    \/ \E i \in Client, s \in ResponderAddress : DropResponder(i, s)
    \/ Close
    \/ CloseProtocols

Spec == Init /\ [][Next]_vars
---------------------------------------------------------------------------
(* Properties                                                              *)

Room == [pending : SUBSET Client,
         initiator : Client \cup {None},
         responders : [ResponderAddress -> Client \cup {None}]]

\* The types of the variables.
TypeOK ==
    /\ paths \in [Index -> {0} \cup PathNumber]
    /\ number \in 0 .. MaxPaths
    /\ initiatorKey \in [PathNumber -> Key \cup {None}]
    /\ attached \in [PathNumber -> BOOLEAN]
    /\ room \in [PathNumber -> Room]
    /\ path \in [Client -> {0} \cup PathNumber]
    /\ state \in [Client -> {"restricted", "authenticated", "dropped"}]
    /\ id \in [Client -> 0 .. LastSlot]
    /\ phase \in [Client -> Phase]
    /\ closing \in {"no", "scheduled", "swept"}

\* A client that is found on a path is a client of this path whose handler is
\* still in handle_client, and the place it is found in is the one its own
\* state and id name.  So no message is enqueued for a client that has left or
\* was dropped, and send-error, disconnected and drop-responder name the client
\* they mean.
MembersMatch ==
    \A p \in PathNumber, c \in Client :
        /\ c \in room[p].pending =>
               path[c] = p /\ phase[c] = "handshake" /\ state[c] = "restricted"
        /\ room[p].initiator = c =>
               /\ path[c] = p /\ phase[c] \in {"greeting", "serving"}
               /\ state[c] = "authenticated" /\ id[c] = InitiatorAddress
        /\ \A s \in ResponderAddress : room[p].responders[s] = c =>
               /\ path[c] = p /\ phase[c] \in {"greeting", "serving"}
               /\ state[c] = "authenticated" /\ id[c] = s

\* An authenticated initiator that has neither left nor been dropped is the
\* initiator of its path, however takeovers, departures and the closing of the
\* server interleave: responders reach it, and nobody shares its role.
InitiatorReachable ==
    \A c \in Client :
        /\ phase[c] \in Live
        /\ state[c] = "authenticated"
        /\ id[c] = InitiatorAddress
        => room[path[c]].initiator = c

\* Until the server closes its protocols, a client in its handshake is pending on an attached
\* path: set_initiator, add_responder and remove_client find it there, and the
\* path is not cleaned away under it.
HandshakeIsPending ==
    \A c \in Client :
        phase[c] = "handshake" /\ closing # "swept"
        => attached[path[c]] /\ c \in room[path[c]].pending

\* A detached path has no clients, so the handler of a client that has left may
\* ask a path that is not empty for its initiator and its responders.
DetachedIsEmpty == \A p \in PathNumber : ~attached[p] => room[p] = EmptyRoom

\* Two attached paths never belong to the same key: an initiator and a responder
\* that name the same key meet.
OnePathPerKey ==
    \A p, q \in PathNumber :
        attached[p] /\ attached[q] /\ initiatorKey[p] = initiatorKey[q] => p = q

\* Without Splice, Paths.paths holds the attached paths and nothing else, each
\* under its own key.
RegistryExact ==
    ~Splice =>
        /\ \A k \in Key :
               LET p == paths[IndexOnGet(k)] IN
               p # 0 => attached[p] /\ initiatorKey[p] = k
        /\ \A p \in PathNumber :
               attached[p] => paths[IndexOnGet(initiatorKey[p])] = p

\* A path stays attached only as long as some client of it is still in
\* handle_client, and so will clean the path when it leaves.
NoPathLeak ==
    \A p \in PathNumber :
        attached[p] => \E c \in Client : path[c] = p /\ phase[c] \in Live

\* A path lives as long as its clients: it is not detached under a client in its
\* handshake, it is detached once its last client has left, and nobody is forgotten on
\* a detached path, whichever of its clients cleans it and whoever connects meanwhile.
PathLifetime == HandshakeIsPending /\ DetachedIsEmpty /\ NoPathLeak

\* A responder is turned away with SlotsFullError only if every responder
\* address of its path is taken.
SlotsFullOnlyWhenFull ==
    [][\A c \in Client :
           phase[c] # "full" /\ phase'[c] = "full"
           => Occupied(room[path[c]]) = ResponderAddress]_vars

---------------------------------------------------------------------------
(* The inductive invariant behind these properties.                        *)

\* Paths.paths in both settings of __splice__.  With Splice an index, once
\* set, stays; without, it goes with the path.
RegistryInv ==
    /\ \A p \in PathNumber :
           /\ p > number => ~attached[p]
           /\ p <= number => initiatorKey[p] \in Key
           /\ p <= number /\ (attached[p] \/ Splice)
              => paths[IndexOnGet(initiatorKey[p])] = p
    /\ \A k \in Key :
           LET p == paths[IndexOnGet(k)] IN
           p # 0 => p <= number /\ initiatorKey[p] = k /\ (attached[p] \/ Splice)

\* What a protocol's phase says about its path and its client.
ClientSituation ==
    \A c \in Client :
        /\ phase[c] \in {"new", "refused"} <=> path[c] = 0
        /\ phase[c] \in {"new", "refused", "handshake"} => state[c] = "restricted"
        /\ phase[c] \in {"greeting", "serving", "parked"} => state[c] # "restricted"
        /\ state[c] = "restricted" <=> id[c] = ServerAddress

\* Type, registry and phases, and the properties that hold each other up: that a
\* member is live needs that its path is attached, that a path is attached needs
\* that a handshake is pending on it, and so on round.
IInv ==
    /\ TypeOK
    /\ RegistryInv
    /\ ClientSituation
    /\ MembersMatch
    /\ DetachedIsEmpty
    /\ InitiatorReachable
    /\ HandshakeIsPending
    /\ NoPathLeak

---------------------------------------------------------------------------
(* The abstract specification of the initiators.                           *)

\* The initiator of the path that a client naming key k would get.
Holder == [k \in Key |-> IF paths[IndexOnGet(k)] = 0 THEN None
                         ELSE room[paths[IndexOnGet(k)]].initiator]

\* The initiators that have been dropped or have left handle_client.
Former == {c \in Client : /\ id[c] = InitiatorAddress
                          /\ phase[c] \notin Live \/ state[c] = "dropped"}

Seat == INSTANCE InitiatorSeat WITH holder <- Holder, former <- Former

\* Paths, slots and handlers implement one seat per key: a takeover replaces
\* exactly the previous initiator, and an initiator loses the seat to nobody
\* else and by nothing but its own departure or the closing of the server.
SeatSpec == Seat!Spec

---------------------------------------------------------------------------
(* What the program says of itself and does not keep.                      *)

\* tests/test_server.py, test_no_reuse_of_detached_paths: a new client never gets a path
\* instance that has been detached.  With Splice, clean() leaves the detached
\* path in the registry and every later client of this key is refused.
DetachedPathNotReused == \A c \in Client : phase[c] # "refused"

\* Path.add_responder: the assigned slot identifier is a free slot.  The id is
\* the number of responders plus two, which may be the id of a responder.
AssignedSlotWasFree ==
    [][\A p \in PathNumber, s \in ResponderAddress :
           room'[p].responders[s] \notin {None, room[p].responders[s]}
           => room[p].responders[s] = None]_vars

\* Path.remove_client: a client leaves its slot through its own protocol, or
\* because another client drops it.  A dropped responder removes whoever has
\* taken its slot since.
RemovedByItselfOrDropped ==
    [][\A p \in PathNumber, s \in ResponderAddress :
           LET c == room[p].responders[s] IN
           c # None /\ room'[p].responders[s] = None
           => phase'[c] # phase[c] \/ state'[c] = "dropped"]_vars

\* ServerProtocol.handle_client: a client that was dropped while running the
\* handshake is recognised by has_client when the handshake is done.
HandlerSurvives == \A c \in Client : phase[c] # "crashed"

=============================================================================

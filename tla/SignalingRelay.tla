--------------------------- MODULE SignalingRelay ---------------------------
(***************************************************************************)
(* What the clients of a path are told of each other: the messages the     *)
(* server enqueues for them (server-auth, new-initiator, new-responder,    *)
(* disconnected, send-error) and the messages they relay to each other.    *)
(*                                                                         *)
(* Every step is a step of module SignalingPaths, or leaves the paths as   *)
(* they are, together with what the same segment of `ServerProtocol`       *)
(* (server.py) does to the job queues.  A job queue is the sequence of the *)
(* server's messages in it; module JobQueue shows that such a queue keeps  *)
(* its order.  A relayed message is a task of its own and waits for nobody.*)
(* `view` stands for the client at the other end, which applies the        *)
(* messages in the order in which it is sent them.                         *)
(*                                                                         *)
(* A definition whose name is that of the next one with a suffix           *)
(* (AnnounceDropped) is a variant with a bug, used to see that a property  *)
(* notices it.                                                             *)
(***************************************************************************)
EXTENDS SignalingPaths, Sequences

CONSTANT MaxRelays      \* bound: how many messages a behaviour may relay

ASSUME RelayAssumption == MaxRelays \in Nat

VARIABLES
    outbox,     \* the server's messages in a client's job queue
    deaf,       \* clients whose job queue is closed or cancelled
    greeted,    \* clients whose server-auth has been sent
    gathered,   \* coroutines given to gather(), in the order in which they will run:
                \* the handler's client, the message and whom it is for
    announced,  \* clients whose handler has come past the disconnected messages
    relay,      \* the destination of the relay task a receive loop waits for
    relays,     \* how many messages have been relayed, for MaxRelays
    view,       \* the addresses a client believes to be present
    reused      \* addresses given away too early (history), see Holders

relayVars == <<outbox, deaf, greeted, gathered, announced, relay, relays, view, reused>>
rvars == <<vars, relayVars>>

Address == {InitiatorAddress} \cup ResponderAddress

NewInitiator == [type |-> "new-initiator", id |-> InitiatorAddress]
NewResponder(s) == [type |-> "new-responder", id |-> s]
Disconnected(a) == [type |-> "disconnected", id |-> a]
SendError == [type |-> "send-error", id |-> ServerAddress]

Message == {NewInitiator, SendError} \cup {NewResponder(s) : s \in ResponderAddress}
           \cup {Disconnected(a) : a \in Address}

---------------------------------------------------------------------------
(* The clients and their queues.                                           *)

\* What a client believes when it has been sent m.
Apply(v, m) == CASE m.type \in {"new-initiator", "new-responder"} -> v \cup {m.id}
                 [] m.type = "disconnected" -> v \ {m.id}
                 [] OTHER -> v

\* What a client that believes v will believe when it has been sent all of q: the
\* last message about an address counts.
Believed(v, q) ==
    {a \in Address :
        \/ a \in v /\ \A n \in DOMAIN q : q[n].id # a
        \/ \E k \in DOMAIN q : /\ q[k].id = a /\ q[k].type # "disconnected"
                               /\ \A n \in DOMAIN q : n > k => q[n].id # a}

FinalView(c) == Believed(view[c], outbox[c])

\* JobQueue.enqueue drops the message if the queue is closed or cancelled.
Enqueued(box, c, m) == IF c \in deaf THEN box ELSE [box EXCEPT ![c] = Append(@, m)]

\* Nothing of the server can be packed for a client that has been dropped, and
\* nothing is sent from a cancelled queue.
Forgotten(box, cs) == [c \in Client |-> IF c \in cs THEN <<>> ELSE box[c]]

\* The relay tasks of dropped and of leaving clients are cancelled.
Stopped(cs) == [c \in Client |-> IF c \in cs THEN None ELSE relay[c]]

\* The clients whose departure is still to be announced.
Departing(p) == {c \in Client : /\ path[c] = p /\ state[c] = "authenticated"
                                /\ phase[c] = "leaving" /\ c \notin announced}

\* Whoever held the address is about to be announced as disconnected.
Leaving(p, a) == \E d \in Departing(p) : id[d] = a

\* Clients that c does not yet know to be gone and that have held the address that
\* is given to it: an initiator that has left but was not dropped, a
\* responder whose handler has not come to its end.
Holders(p, s) ==
    {d \in Client : /\ path[d] = p /\ id[d] = s
                    /\ IF s = InitiatorAddress
                       THEN /\ phase[d] = "leaving" /\ state[d] = "authenticated"
                            /\ d \notin announced
                       ELSE phase[d] \in Live \cup {"leaving"} /\ d \notin announced}

Given(p, s) == IF Holders(p, s) = {} THEN reused ELSE reused \cup {<<p, s>>}

\* Nothing is gathered for nobody.
Gather(c, m, cs) ==
    IF cs = {} THEN gathered
               ELSE Append(gathered, [by |-> c, message |-> m, to |-> cs])

Gathering(c) == \E k \in DOMAIN gathered : gathered[k].by = c

Awaits(c, m) ==
    \E k \in DOMAIN gathered : c \in gathered[k].to /\ gathered[k].message = m

Responders(p) == {room[p].responders[s] : s \in Occupied(room[p])}

---------------------------------------------------------------------------
(* The handshake                                                           *)

RInit ==
    /\ Init
    /\ outbox = [c \in Client |-> <<>>]
    /\ deaf = {} /\ greeted = {} /\ announced = {} /\ reused = {} /\ relays = 0
    /\ gathered = <<>>
    /\ relay = [c \in Client |-> None]
    /\ view = [c \in Client |-> {}]

RConnect(c, k) == Connect(c, k) /\ UNCHANGED relayVars

\* The responders a new initiator is announced to.
Audience(c) == Responders(path[c])

\* handshake_initiator up to gather(), or to the end if there are no responders.
RAuthInitiator(c) ==
    LET previous == room[path[c]].initiator IN
    /\ AuthInitiator(c)
    /\ gathered' = Gather(c, NewInitiator, Audience(c))
    /\ greeted' = IF Audience(c) = {} THEN greeted \cup {c} ELSE greeted
    /\ outbox' = Forgotten(outbox, {previous})
    /\ deaf' = deaf \cup ({previous} \ {None})
    /\ relay' = Stopped({previous})
    /\ reused' = Given(path[c], InitiatorAddress)
    /\ UNCHANGED <<announced, relays, view>>

\* The coroutines given to gather() run one after the other.
TellAll(c) ==
    /\ gathered # <<>> /\ Head(gathered).by = c
    /\ outbox' = [d \in Client |->
                     IF d \in Head(gathered).to \ deaf
                     THEN Append(outbox[d], Head(gathered).message) ELSE outbox[d]]
    /\ gathered' = Tail(gathered)
    /\ UNCHANGED <<vars, deaf, greeted, announced, relay, relays, view, reused>>

ServerAuthIds(c) == Occupied(room[path[c]])

\* After gather(), server-auth names the responders of this moment.
ServerAuth(c) ==
    /\ phase[c] = "greeting" /\ c \notin greeted /\ ~Gathering(c)
    /\ state[c] = "authenticated" /\ attached[path[c]]
    /\ greeted' = greeted \cup {c}
    /\ view' = [view EXCEPT ![c] = ServerAuthIds(c)]
    /\ UNCHANGED <<vars, outbox, deaf, gathered, announced, relay, relays, reused>>

RAuthResponderSilent(c) ==
    LET i == room[path[c]].initiator IN
    /\ AuthResponder(c)
    /\ UNCHANGED outbox
    /\ view' = [view EXCEPT ![c] = IF i = None THEN {} ELSE {InitiatorAddress}]
    /\ greeted' = greeted \cup {c}
    /\ reused' = Given(path[c], NextSlot(room[path[c]]))
    /\ UNCHANGED <<deaf, gathered, announced, relay, relays>>

\* handshake_responder from add_responder on: nothing in it suspends before
\* server-auth is sent.
RAuthResponder(c) ==
    LET i == room[path[c]].initiator
        s == NextSlot(room[path[c]]) IN
    /\ AuthResponder(c)
    /\ outbox' = IF i = None THEN outbox ELSE Enqueued(outbox, i, NewResponder(s))
    /\ view' = [view EXCEPT ![c] = IF i = None THEN {} ELSE {InitiatorAddress}]
    /\ greeted' = greeted \cup {c}
    /\ reused' = Given(path[c], s)
    /\ UNCHANGED <<deaf, gathered, announced, relay, relays>>

\* The job queue's runner starts.
RHandshakeDone(c) == c \in greeted /\ HandshakeDone(c) /\ UNCHANGED relayVars

RSlotsFull(c) ==
    /\ SlotsFull(c)
    /\ deaf' = deaf \cup {c}
    /\ UNCHANGED <<outbox, greeted, gathered, announced, relay, relays, view, reused>>

---------------------------------------------------------------------------
(* Serving                                                                 *)

\* The runner sends the first message of the queue.
Deliver(c) ==
    /\ phase[c] \in {"serving", "parked"} /\ state[c] = "authenticated"
    /\ c \notin deaf /\ outbox[c] # <<>>
    /\ view' = [view EXCEPT ![c] = Apply(@, Head(outbox[c]))]
    /\ outbox' = [outbox EXCEPT ![c] = Tail(@)]
    /\ UNCHANGED <<vars, deaf, greeted, gathered, announced, relay, relays, reused>>

\* receive() or send() finds the connection closed and closes the queue.
ConnectionLost(c) ==
    /\ phase[c] \in {"serving", "parked"} /\ c \notin deaf
    /\ deaf' = deaf \cup {c}
    /\ UNCHANGED <<vars, outbox, greeted, gathered, announced, relay, relays, view, reused>>

MayRelay(c) ==
    /\ phase[c] = "serving" /\ state[c] = "authenticated" /\ relay[c] = None
    /\ attached[path[c]] /\ relays < MaxRelays

\* Whom a message of client c goes to: the initiator chooses a responder.
Peers(c) ==
    IF id[c] = InitiatorAddress
    THEN {room[path[c]].responders[s] : s \in ResponderAddress}
    ELSE {room[path[c]].initiator}

\* relay_message: without a destination, send-error; a destination whose queue
\* does not accept the task cancels it, which the source sees as below.
Relay(c) ==
    /\ MayRelay(c)
    /\ relays' = relays + 1
    /\ \E d \in Peers(c) :
           IF d = None THEN /\ outbox' = Enqueued(outbox, c, SendError)
                            /\ UNCHANGED relay
                       ELSE /\ relay' = [relay EXCEPT ![c] = d]
                            /\ UNCHANGED outbox
    /\ UNCHANGED <<vars, deaf, greeted, gathered, announced, view, reused>>

\* The message has been sent to an open connection.
RelaySent(c) ==
    /\ relay[c] # None
    /\ phase[relay[c]] \in {"greeting", "serving", "parked", "leaving"}
    /\ relay' = [relay EXCEPT ![c] = None]
    /\ UNCHANGED <<vars, outbox, deaf, greeted, gathered, announced, relays, view, reused>>

\* Its task failed, was cancelled by the destination's queue, or timed out.
RelayFailed(c) ==
    /\ relay[c] # None
    /\ relay' = [relay EXCEPT ![c] = None]
    /\ outbox' = Enqueued(outbox, c, SendError)
    /\ UNCHANGED <<vars, deaf, greeted, gathered, announced, relays, view, reused>>

\* drop-responder; the initiator that sent it no longer counts on s.  If it has
\* still to be sent new-responder for s, it meant another responder.
RDropResponder(i, s) ==
    LET c == room[path[i]].responders[s] IN
    /\ relay[i] = None
    /\ DropResponder(i, s)
    /\ outbox' = Forgotten(outbox, {c})
    /\ deaf' = deaf \cup {c}
    /\ relay' = Stopped({c})
    /\ view' = [view EXCEPT ![i] = @ \ {s}]
    /\ reused' = IF \E k \in DOMAIN outbox[i] : outbox[i][k] = NewResponder(s)
                 THEN reused \cup {<<path[i], s>>} ELSE reused
    /\ UNCHANGED <<greeted, gathered, announced, relays>>

---------------------------------------------------------------------------
(* Leaving                                                                 *)

\* A handshake that waits in gather() does not fail before it is over.
RLeave(c) ==
    /\ ~Gathering(c)
    /\ Leave(c)
    /\ outbox' = Forgotten(outbox, {c})
    /\ deaf' = deaf \cup {c}
    /\ relay' = Stopped({c})
    /\ UNCHANGED <<greeted, gathered, announced, relays, view, reused>>

AnnounceDropped(c) ==
    LET r == room[path[c]]
        says == ~Empty(r) IN
    /\ phase[c] \in {"leaving", "full"} /\ c \notin announced
    /\ announced' = announced \cup {c}
    /\ gathered' = IF says /\ id[c] = InitiatorAddress
                   THEN Gather(c, Disconnected(InitiatorAddress), Responders(path[c]))
                   ELSE gathered
    /\ outbox' = IF says /\ id[c] \in ResponderAddress /\ r.initiator # None
                 THEN Enqueued(outbox, r.initiator, Disconnected(id[c])) ELSE outbox
    /\ UNCHANGED <<vars, deaf, greeted, relay, relays, view, reused>>

\* ServerProtocol.handler after joining the job queue: who is told that the
\* client, if it was not dropped, has left.
Announce(c) ==
    LET r == room[path[c]]
        says == ~Empty(r) /\ state[c] = "authenticated" IN
    /\ phase[c] \in {"leaving", "full"} /\ c \notin announced
    /\ announced' = announced \cup {c}
    /\ gathered' = IF says /\ id[c] = InitiatorAddress
                   THEN Gather(c, Disconnected(InitiatorAddress), Responders(path[c]))
                   ELSE gathered
    /\ outbox' = IF says /\ id[c] \in ResponderAddress /\ r.initiator # None
                 THEN Enqueued(outbox, r.initiator, Disconnected(id[c])) ELSE outbox
    /\ UNCHANGED <<vars, deaf, greeted, relay, relays, view, reused>>

RUnregister(c) ==
    /\ c \in announced /\ ~Gathering(c)
    /\ Unregister(c)
    /\ UNCHANGED relayVars

\* The closing server drops every client.
RCloseProtocols ==
    LET closed == {c \in Client : phase[c] \in Registered} IN
    /\ CloseProtocols
    /\ outbox' = Forgotten(outbox, closed)
    /\ deaf' = deaf \cup closed
    /\ relay' = Stopped(closed)
    /\ UNCHANGED <<greeted, gathered, announced, relays, view, reused>>

RClose == Close /\ UNCHANGED relayVars

RNext ==
    \/ \E c \in Client, k \in Key : RConnect(c, k)
    \/ \E c \in Client :
           \/ RAuthInitiator(c) \/ TellAll(c) \/ ServerAuth(c) \/ RAuthResponder(c)
           \/ RHandshakeDone(c) \/ RSlotsFull(c) \/ Deliver(c) \/ ConnectionLost(c)
           \/ Relay(c) \/ RelaySent(c) \/ RelayFailed(c)
           \/ RLeave(c) \/ Announce(c) \/ RUnregister(c)
    \/ \E i \in Client, s \in ResponderAddress : RDropResponder(i, s)
    \/ RClose \/ RCloseProtocols

RSpec == RInit /\ [][RNext]_rvars
---------------------------------------------------------------------------
(* Properties                                                              *)

\* The types of the variables of this module.
RTypeOK ==
    /\ outbox \in [Client -> Seq(Message)]
    /\ deaf \subseteq Client /\ greeted \subseteq Client /\ announced \subseteq Client
    /\ gathered \in Seq([by : Client, message : Message, to : SUBSET Client])
    /\ relay \in [Client -> Client \cup {None}]
    /\ relays \in 0 .. MaxRelays
    /\ view \in [Client -> SUBSET Address]
    /\ reused \subseteq PathNumber \X Address

\* The clients that serve a path and whose queue works.
Attentive(p) == {c \in Client : path[c] = p /\ phase[c] = "serving" /\ c \notin deaf}

\* What is in its queue keeps the initiator's idea of its responders right: every
\* responder of the path is in it, and whoever else is in it has left and is
\* about to be announced as disconnected.  Not for an address that was given to
\* a responder before the server was done with the previous one, or that was
\* dropped while new-responder for it was on its way: new-responder and
\* disconnected may arrive in the wrong order then.
InitiatorView ==
    \A p \in PathNumber, s \in ResponderAddress :
        LET i == room[p].initiator IN
        i \in Attentive(p) /\ <<p, s>> \notin reused =>
            /\ s \in Occupied(room[p]) => s \in FinalView(i)
            /\ s \in FinalView(i) =>
                   s \in Occupied(room[p]) \/ Leaving(p, s)

\* The same for a responder's idea of its initiator: an initiator that is there has
\* been announced to it or is about to be, also if several take over from each
\* other, and one that has left is about to be announced as disconnected.
ResponderView ==
    \A p \in PathNumber : <<p, InitiatorAddress>> \notin reused =>
        \A r \in Responders(p) \cap Attentive(p) :
            LET i == room[p].initiator
                knows == InitiatorAddress \in FinalView(r) IN
            /\ i # None => knows \/ Awaits(r, NewInitiator)
            /\ knows => \/ i # None
                        \/ Leaving(p, InitiatorAddress)
                        \/ Awaits(r, Disconnected(InitiatorAddress))

\* CHANGELOG.rst: the initiator does not relay messages to a responder client which is
\* being dropped, nor does anybody relay to a client that is leaving.
RelayToPresent ==
    [][\A c \in Client : relay'[c] \notin {relay[c], None} =>
           /\ state[relay'[c]] = "authenticated" /\ path[relay'[c]] = path[c]
           /\ phase[relay'[c]] \in {"greeting", "serving"}]_rvars

---------------------------------------------------------------------------
(* The inductive invariant.                                                *)

\* What a phase says about the messages to and from a client.
Contacts ==
    \A c \in Client :
        /\ phase[c] \in {"new", "refused", "handshake"} =>
               /\ outbox[c] = <<>> /\ view[c] = {} /\ relay[c] = None /\ c \notin greeted
               /\ \A k \in DOMAIN gathered : c \notin gathered[k].to
        /\ phase[c] \in {"serving", "parked"} => c \in greeted
        /\ phase[c] = "greeting" /\ id[c] \in ResponderAddress => c \in greeted
        /\ phase[c] \in {"new"} \cup Live => c \notin announced
        /\ phase[c] = "full" => state[c] = "restricted"

\* What is gathered is about initiators.
GatheredTypes ==
    \A k \in DOMAIN gathered :
        gathered[k].message \in {NewInitiator, Disconnected(InitiatorAddress)}

\* An address that two have at once, or that one has whose predecessor is still to
\* be announced, was given away too early.
SharedIsReused ==
    /\ \A c, d \in Client :
           /\ c # d /\ path[c] = path[d] /\ path[c] # 0
           /\ id[c] = id[d] /\ id[c] \in ResponderAddress
           /\ phase[c] \in Live \cup {"leaving"} /\ c \notin announced
           /\ phase[d] \in Live \cup {"leaving"} /\ d \notin announced
           => <<path[c], id[c]>> \in reused
    /\ \A p \in PathNumber :
           room[p].initiator # None /\ Leaving(p, InitiatorAddress)
           => <<p, InitiatorAddress>> \in reused

\* What an initiator knows of the responders, or will from server-auth.
Known(i) == IF i \in greeted THEN view[i] ELSE Occupied(room[path[i]])

\* InitiatorView from the moment in which the initiator is on its path.
InitiatorInformed ==
    \A p \in PathNumber, s \in ResponderAddress :
        LET i == room[p].initiator IN
        i # None /\ i \notin deaf /\ <<p, s>> \notin reused =>
            /\ s \in Occupied(room[p]) => s \in Believed(Known(i), outbox[i])
            /\ s \in Believed(Known(i), outbox[i]) =>
                   s \in Occupied(room[p]) \/ Leaving(p, s)

\* The responder will believe its initiator to be there when also what is gathered
\* has been sent.
WillKnow(r) ==
    \/ /\ \A n \in DOMAIN gathered : r \notin gathered[n].to
       /\ InitiatorAddress \in FinalView(r)
    \/ \E k \in DOMAIN gathered : /\ r \in gathered[k].to /\ gathered[k].message = NewInitiator
                                 /\ \A n \in DOMAIN gathered : n > k => r \notin gathered[n].to

\* ResponderView in the end, from the moment in which the responder is on its path.
ResponderInformed ==
    \A p \in PathNumber : <<p, InitiatorAddress>> \notin reused =>
        \A r \in Responders(p) \ deaf :
            LET i == room[p].initiator IN
            /\ i # None => WillKnow(r)
            /\ WillKnow(r) => i # None \/ Leaving(p, InitiatorAddress)

RInv == /\ RTypeOK /\ Contacts /\ GatheredTypes /\ SharedIsReused
        /\ InitiatorInformed /\ ResponderInformed

---------------------------------------------------------------------------
(* What the program says of itself and does not keep.                      *)

\* class JobQueue: "An ordered queue of jobs".  A relayed message is sent at once,
\* and reaches its destination before the new-responder or new-initiator message
\* that was enqueued in front of it: the destination does not know its sender.
SenderIsKnown ==
    [][\A c \in Client :
           LET d == relay[c] IN
           RelaySent(c) /\ d \in Attentive(path[c]) => id[c] \in view[d]]_rvars

=============================================================================

------------------------ MODULE SignalingRelayProofs ------------------------
(***************************************************************************)
(* Proofs about SignalingRelay.  It implements SignalingPaths, so that the *)
(* invariant of the paths holds while messages are enqueued and relayed.   *)
(* Its own invariant says what each client will believe of the others when *)
(* everything that has been enqueued and gathered is sent; a step is       *)
(* examined for one path and one client at a time.                         *)
(***************************************************************************)
EXTENDS SignalingRelay, SignalingPathsProofs

\* Steps that are about messages only.
LEMMA MessageSteps ==
    ASSUME NEW c, \/ TellAll(c) \/ ServerAuth(c) \/ Deliver(c) \/ ConnectionLost(c)
                  \/ Relay(c) \/ RelaySent(c) \/ RelayFailed(c) \/ Announce(c)
    PROVE  UNCHANGED vars
  BY DEF TellAll, ServerAuth, Deliver, ConnectionLost, Relay, RelaySent, RelayFailed, Announce

\* Every step is a step of the paths or leaves them alone.
LEMMA StepOfPaths ==
    ASSUME [RNext]_rvars
    PROVE  [Next]_vars
  <1>1. CASE \E c \in Client, k \in Key : RConnect(c, k)
    BY <1>1 DEF RConnect, Next
  <1>2. CASE \E c \in Client : \/ RAuthInitiator(c) \/ RAuthResponder(c) \/ RHandshakeDone(c)
                               \/ RSlotsFull(c) \/ RLeave(c) \/ RUnregister(c)
    BY <1>2 DEF RAuthInitiator, RAuthResponder, RHandshakeDone, RSlotsFull, RLeave, RUnregister,
                Next
  <1>3. CASE \E c \in Client : \/ TellAll(c) \/ ServerAuth(c) \/ Deliver(c) \/ ConnectionLost(c)
                               \/ Relay(c) \/ RelaySent(c) \/ RelayFailed(c) \/ Announce(c)
    BY <1>3, MessageSteps
  <1>4. CASE \E i \in Client, s \in ResponderAddress : RDropResponder(i, s)
    BY <1>4 DEF RDropResponder, Next
  <1>5. CASE RClose \/ RCloseProtocols
    BY <1>5 DEF RClose, RCloseProtocols, Next
  <1>6. CASE UNCHANGED rvars
    BY <1>6 DEF rvars
  <1> QED BY <1>1, <1>2, <1>3, <1>4, <1>5, <1>6 DEF RNext

\* Whom a message can go to is a client of the path, or nobody.
LEMMA PeersArePresent ==
    ASSUME IInv, NEW c \in Client, MayRelay(c), NEW d \in Peers(c), d # None
    PROVE  /\ d \in Client /\ path[d] = path[c] /\ state[d] = "authenticated"
           /\ phase[d] \in {"greeting", "serving"}
  <1>1. path[c] \in PathNumber
    BY DEF IInv, TypeOK, ClientSituation, MayRelay
  <1>2. room[path[c]] \in Room
    BY <1>1 DEF IInv, TypeOK
  <1>3. CASE d = room[path[c]].initiator
    BY <1>1, <1>2, <1>3 DEF IInv, MembersMatch, Room
  <1>4. CASE \E s \in ResponderAddress : d = room[path[c]].responders[s]
    BY <1>1, <1>2, <1>4 DEF IInv, MembersMatch, Room
  <1> QED BY <1>3, <1>4 DEF Peers

\* A relay task goes to a client or there is none.
RelayType == relay \in [Client -> Client \cup {None}]

\* The task of a client changes only when it relays a message and when it is over.
LEMMA RelayMoves ==
    ASSUME RelayType, [RNext]_rvars, NEW c \in Client
    PROVE  \/ relay'[c] \in {relay[c], None}
           \/ Relay(c) /\ relay'[c] \in Peers(c)
  <1>1. CASE \E b \in Client : Relay(b)
    BY <1>1 DEF Relay, RelayType
  <1>2. CASE \E b \in Client : \/ RAuthInitiator(b) \/ RLeave(b) \/ RelaySent(b) \/ RelayFailed(b)
    BY <1>2 DEF RAuthInitiator, RLeave, RelaySent, RelayFailed, Stopped, RelayType
  <1>3. CASE RCloseProtocols \/ \E i \in Client, s \in ResponderAddress : RDropResponder(i, s)
    BY <1>3 DEF RCloseProtocols, RDropResponder, Stopped
  <1>4. CASE \/ \E b \in Client, k \in Key : RConnect(b, k)
             \/ \E b \in Client : \/ TellAll(b) \/ ServerAuth(b) \/ RAuthResponder(b)
                                  \/ RHandshakeDone(b) \/ RSlotsFull(b) \/ Deliver(b)
                                  \/ ConnectionLost(b) \/ Announce(b) \/ RUnregister(b)
             \/ RClose \/ UNCHANGED rvars
    BY <1>4 DEF RConnect, TellAll, ServerAuth, RAuthResponder, RHandshakeDone, RSlotsFull, Deliver,
                ConnectionLost, Announce, RUnregister, RClose, rvars, relayVars
  <1> QED BY <1>1, <1>2, <1>3, <1>4 DEF RNext

LEMMA RelayTypeKept ==
    ASSUME IInv, RelayType, [RNext]_rvars
    PROVE  RelayType'
  <1>1. relay' = [c \in Client |-> relay'[c]]
    BY DEF RelayType, RNext, rvars, relayVars, Relay, RAuthInitiator, RLeave, RelaySent,
           RelayFailed, RCloseProtocols, RDropResponder, Stopped, RConnect, TellAll, ServerAuth,
           RAuthResponder, RHandshakeDone, RSlotsFull, Deliver, ConnectionLost, Announce,
           RUnregister, RClose
  <1>2. \A c \in Client : relay'[c] \in Client \cup {None}
    BY RelayMoves, PeersArePresent DEF RelayType, Relay
  <1> QED BY <1>1, <1>2 DEF RelayType

---------------------------------------------------------------------------
(* What a client believes.                                                 *)

\* The message about an address is one of these.
LEMMA MessageIds ==
    /\ NewInitiator \in Message /\ Disconnected(InitiatorAddress) \in Message
    /\ SendError \in Message
    /\ \A s \in ResponderAddress : NewResponder(s) \in Message /\ Disconnected(s) \in Message
    /\ SendError.id \notin Address /\ InitiatorAddress \notin ResponderAddress
    /\ \A m \in Message :
           /\ m.type \in {"new-initiator", "new-responder", "disconnected", "send-error"}
           /\ m.id \in Address <=> m.type # "send-error"
  <1>1. ServerAddress \notin Address /\ InitiatorAddress \notin ResponderAddress
    BY PathsAssumption DEF ServerAddress, InitiatorAddress, ResponderAddress, Address
  <1>2. NewInitiator \in Message /\ Disconnected(InitiatorAddress) \in Message
    BY DEF Message, Address
  <1>3. \A s \in ResponderAddress : NewResponder(s) \in Message /\ Disconnected(s) \in Message
    BY DEF Message, Address
  <1>4. ASSUME NEW m \in Message
        PROVE  /\ m.type \in {"new-initiator", "new-responder", "disconnected", "send-error"}
               /\ m.id \in Address <=> m.type # "send-error"
    BY <1>1 DEF Message, NewInitiator, NewResponder, Disconnected, SendError, Address
  <1>5. SendError \in Message /\ SendError.id \notin Address
    BY <1>1 DEF Message, SendError
  <1> QED BY <1>1, <1>2, <1>3, <1>4, <1>5

\* One more message counts if it is about the address.
LEMMA BelievedAppend ==
    ASSUME NEW q \in Seq(Message), NEW m \in Message, NEW v, NEW a \in Address
    PROVE  a \in Believed(v, Append(q, m)) <=>
               IF m.id = a THEN m.type # "disconnected" ELSE a \in Believed(v, q)
  <1> DEFINE r == Append(q, m)
             l == Len(q)
  <1>1. /\ l \in Nat /\ DOMAIN q = 1 .. l /\ DOMAIN r = 1 .. l + 1
        /\ r[l + 1] = m /\ \A n \in 1 .. l : r[n] = q[n]
    OBVIOUS
  <1>2. CASE m.id = a
    <2>1. a \in Believed(v, r) => m.type # "disconnected"
      <3> SUFFICES ASSUME NEW k \in DOMAIN r, r[k].id = a, r[k].type # "disconnected",
                          \A n \in DOMAIN r : n > k => r[n].id # a
                   PROVE  m.type # "disconnected"
        BY <1>1, <1>2 DEF Believed
      <3>1. k = l + 1
        BY <1>1, <1>2
      <3> QED BY <1>1, <3>1
    <2>2. ASSUME m.type # "disconnected" PROVE a \in Believed(v, r)
      <3>1. /\ l + 1 \in DOMAIN r /\ r[l + 1].id = a /\ r[l + 1].type # "disconnected"
            /\ \A n \in DOMAIN r : n > l + 1 => r[n].id # a
        BY <1>1, <1>2, <2>2
      <3> QED BY <3>1 DEF Believed
    <2> QED BY <1>2, <2>1, <2>2
  <1>3. CASE m.id # a
    <2>1. (\A n \in DOMAIN r : r[n].id # a) <=> (\A n \in DOMAIN q : q[n].id # a)
      BY <1>1, <1>3
    <2>2. ASSUME NEW k \in DOMAIN q
          PROVE  (\A n \in DOMAIN r : n > k => r[n].id # a)
                     <=> (\A n \in DOMAIN q : n > k => q[n].id # a)
      BY <1>1, <1>3
    <2>3. ASSUME NEW k \in DOMAIN r, r[k].id = a
          PROVE  k \in DOMAIN q /\ r[k] = q[k]
      BY <1>1, <1>3, <2>3
    <2>4. ASSUME NEW k \in DOMAIN q
          PROVE  k \in DOMAIN r /\ r[k] = q[k]
      BY <1>1
    <2> QED BY <1>3, <2>1, <2>2, <2>3, <2>4 DEF Believed
  <1> QED BY <1>2, <1>3

\* What is delivered was counted already.
LEMMA BelievedDeliver ==
    ASSUME NEW q \in Seq(Message), q # <<>>, NEW v, NEW a \in Address
    PROVE  a \in Believed(Apply(v, Head(q)), Tail(q)) <=> a \in Believed(v, q)
  <1> DEFINE r == Tail(q)
             l == Len(q)
             m == Head(q)
  <1>1. /\ l \in Nat /\ l >= 1 /\ DOMAIN q = 1 .. l /\ DOMAIN r = 1 .. l - 1
        /\ q[1] = m /\ m \in Message /\ \A n \in 1 .. l - 1 : r[n] = q[n + 1]
    OBVIOUS
  <1>2. a \in Apply(v, m) <=> IF m.id = a THEN m.type # "disconnected" ELSE a \in v
    <2>1. m.type \in {"new-initiator", "new-responder", "disconnected", "send-error"}
      BY <1>1, MessageIds
    <2>2. m.type = "send-error" => m.id # a
      BY <1>1, MessageIds
    <2> QED BY <2>1, <2>2 DEF Apply
  <1>3. ASSUME NEW k \in DOMAIN r
        PROVE  /\ k + 1 \in DOMAIN q /\ q[k + 1] = r[k]
               /\ (\A n \in DOMAIN r : n > k => r[n].id # a)
                      <=> (\A n \in DOMAIN q : n > k + 1 => q[n].id # a)
    <2>1. k + 1 \in DOMAIN q /\ q[k + 1] = r[k] /\ k \in Nat
      BY <1>1
    <2>2. ASSUME \A n \in DOMAIN r : n > k => r[n].id # a, NEW n \in DOMAIN q, n > k + 1
          PROVE  q[n].id # a
      <3>1. n - 1 \in DOMAIN r /\ n - 1 > k /\ r[n - 1] = q[n]
        BY <1>1, <2>1, <2>2
      <3> QED BY <2>2, <3>1
    <2>3. ASSUME \A n \in DOMAIN q : n > k + 1 => q[n].id # a, NEW n \in DOMAIN r, n > k
          PROVE  r[n].id # a
      <3>1. n + 1 \in DOMAIN q /\ n + 1 > k + 1 /\ r[n] = q[n + 1]
        BY <1>1, <2>1, <2>3
      <3> QED BY <2>3, <3>1
    <2> QED BY <2>1, <2>2, <2>3
  <1>4. ASSUME NEW k \in DOMAIN q, k # 1
        PROVE  k - 1 \in DOMAIN r /\ r[k - 1] = q[k] /\ (k - 1) + 1 = k
    BY <1>1, <1>4
  <1>5. (\A n \in DOMAIN q : q[n].id # a)
            <=> m.id # a /\ (\A n \in DOMAIN r : r[n].id # a)
    <2>1. 1 \in DOMAIN q /\ q[1] = m
      BY <1>1
    <2>2. ASSUME \A n \in DOMAIN q : q[n].id # a, NEW n \in DOMAIN r PROVE r[n].id # a
      BY <1>3, <2>2
    <2>3. ASSUME m.id # a, \A n \in DOMAIN r : r[n].id # a, NEW n \in DOMAIN q
          PROVE  q[n].id # a
      <3>1. n # 1 => n - 1 \in DOMAIN r /\ r[n - 1] = q[n]
        BY <1>4
      <3> QED BY <2>1, <2>3, <3>1
    <2> HIDE DEF r, m
    <2> QED BY <2>1, <2>2, <2>3
  <1>6. (\A n \in DOMAIN q : n > 1 => q[n].id # a) <=> (\A n \in DOMAIN r : r[n].id # a)
    <2>1. ASSUME \A n \in DOMAIN q : n > 1 => q[n].id # a, NEW n \in DOMAIN r
          PROVE  r[n].id # a
      <3>1. n + 1 \in DOMAIN q /\ r[n] = q[n + 1] /\ n + 1 > 1
        BY <1>1
      <3> QED BY <2>1, <3>1
    <2>2. ASSUME \A n \in DOMAIN r : r[n].id # a, NEW n \in DOMAIN q, n > 1
          PROVE  q[n].id # a
      <3>1. n - 1 \in DOMAIN r /\ r[n - 1] = q[n]
        BY <1>1, <2>2
      <3> QED BY <2>2, <3>1
    <2> QED BY <2>1, <2>2
  <1> DEFINE Q(k) == /\ q[k].id = a /\ q[k].type # "disconnected"
                     /\ \A n \in DOMAIN q : n > k => q[n].id # a
             R(k) == /\ r[k].id = a /\ r[k].type # "disconnected"
                     /\ \A n \in DOMAIN r : n > k => r[n].id # a
             N == \A n \in DOMAIN r : r[n].id # a
  <1>7. \A k \in DOMAIN r : k + 1 \in DOMAIN q /\ (R(k) <=> Q(k + 1))
    BY <1>3
  <1>8. 1 \in DOMAIN q /\ (Q(1) <=> m.id = a /\ m.type # "disconnected" /\ N)
    BY <1>1, <1>6
  <1>9. a \in Believed(v, q) <=>
            (a \in v /\ \A n \in DOMAIN q : q[n].id # a) \/ \E k \in DOMAIN q : Q(k)
    BY DEF Believed
  <1>10. a \in Believed(Apply(v, m), r) <=> (a \in Apply(v, m) /\ N) \/ \E k \in DOMAIN r : R(k)
    BY DEF Believed
  <1>11. (\E k \in DOMAIN q : Q(k)) <=> Q(1) \/ \E k \in DOMAIN r : R(k)
    <2>1. ASSUME NEW k \in DOMAIN q, Q(k), k # 1 PROVE R(k - 1) /\ k - 1 \in DOMAIN r
      <3>1. k - 1 \in DOMAIN r /\ (k - 1) + 1 = k
        BY <1>4, <2>1
      <3> HIDE DEF Q, R
      <3> QED BY <1>7, <2>1, <3>1
    <2> HIDE DEF Q, R
    <2> QED BY <1>7, <1>8, <2>1
  <1> HIDE DEF Q, R
  <1> QED BY <1>2, <1>5, <1>8, <1>9, <1>10, <1>11

\* A client whose queue is empty believes what it has been sent.
LEMMA BelievedEmpty ==
    ASSUME NEW v, NEW a \in Address
    PROVE  a \in Believed(v, <<>>) <=> a \in v
  BY DEF Believed

\* What is not about an address does not count.
LEMMA BelievedOf ==
    ASSUME NEW v, NEW w, NEW q, NEW a \in Address, a \in v <=> a \in w
    PROVE  a \in Believed(v, q) <=> a \in Believed(w, q)
  BY DEF Believed

---------------------------------------------------------------------------
(* Types.                                                                  *)

Entry == [by : Client, message : Message, to : SUBSET Client]

\* Members of a path are its clients, in the place that they name.
LEMMA Members ==
    ASSUME IInv, NEW p \in PathNumber
    PROVE  /\ room[p] \in Room /\ room[p].initiator \in Client \cup {None}
           /\ room[p].initiator # None =>
                  /\ path[room[p].initiator] = p /\ id[room[p].initiator] = InitiatorAddress
                  /\ phase[room[p].initiator] \in {"greeting", "serving"}
                  /\ state[room[p].initiator] = "authenticated"
           /\ \A s \in ResponderAddress :
                  LET r == room[p].responders[s] IN
                  r # None => /\ r \in Client /\ path[r] = p /\ id[r] = s
                              /\ phase[r] \in {"greeting", "serving"} /\ state[r] = "authenticated"
           /\ Responders(p) \subseteq Client
           /\ \A r \in Responders(p) : /\ id[r] \in ResponderAddress /\ path[r] = p
                                       /\ room[p].responders[id[r]] = r
                                       /\ phase[r] \in {"greeting", "serving"}
           /\ room[p].initiator \notin Responders(p)
  <1>1. room[p] \in Room /\ room[p].initiator \in Client \cup {None}
    BY DEF IInv, TypeOK, Room
  <1>2. room[p].initiator # None =>
            /\ path[room[p].initiator] = p /\ id[room[p].initiator] = InitiatorAddress
            /\ phase[room[p].initiator] \in {"greeting", "serving"}
            /\ state[room[p].initiator] = "authenticated"
    BY <1>1 DEF IInv, MembersMatch
  <1>3. ASSUME NEW s \in ResponderAddress, room[p].responders[s] # None
        PROVE  LET r == room[p].responders[s] IN
               /\ r \in Client /\ path[r] = p /\ id[r] = s
               /\ phase[r] \in {"greeting", "serving"} /\ state[r] = "authenticated"
    BY <1>1, <1>3 DEF IInv, MembersMatch, Room
  <1>4. ASSUME NEW r \in Responders(p)
        PROVE  /\ r \in Client /\ id[r] \in ResponderAddress /\ path[r] = p
               /\ room[p].responders[id[r]] = r /\ phase[r] \in {"greeting", "serving"}
    BY <1>3 DEF Responders, Occupied
  <1>5. room[p].initiator \notin Responders(p)
    BY <1>2, <1>4, PathsAssumption, MessageIds
  <1> QED BY <1>1, <1>2, <1>3, <1>4, <1>5

\* The initiator and the responders that a client finds on its path.
LEMMA PathOf ==
    ASSUME IInv, NEW c \in Client, phase[c] \notin {"new", "refused"}
    PROVE  /\ path[c] \in PathNumber /\ Responders(path[c]) \subseteq Client
           /\ room[path[c]].initiator \in Client \cup {None}
           /\ id[c] \in 0 .. LastSlot
  BY HasPath, Members DEF IInv, TypeOK

LEMMA EnqueuedType ==
    ASSUME NEW box \in [Client -> Seq(Message)], NEW c \in Client, NEW m \in Message
    PROVE  Enqueued(box, c, m) \in [Client -> Seq(Message)]
  <1>1. Append(box[c], m) \in Seq(Message)
    OBVIOUS
  <1> QED BY <1>1 DEF Enqueued

LEMMA SendErrorType ==
    ASSUME NEW box \in [Client -> Seq(Message)], NEW c \in Client
    PROVE  Enqueued(box, c, SendError) \in [Client -> Seq(Message)]
  BY EnqueuedType, MessageIds

LEMMA ForgottenType ==
    ASSUME NEW box \in [Client -> Seq(Message)], NEW S
    PROVE  Forgotten(box, S) \in [Client -> Seq(Message)]
  <1>1. <<>> \in Seq(Message)
    OBVIOUS
  <1> QED BY <1>1 DEF Forgotten

LEMMA GatherType ==
    ASSUME gathered \in Seq(Entry), NEW c \in Client, NEW m \in Message, NEW S \in SUBSET Client
    PROVE  Gather(c, m, S) \in Seq(Entry)
  <1>1. [by |-> c, message |-> m, to |-> S] \in Entry
    BY DEF Entry
  <1> QED BY <1>1 DEF Gather

LEMMA StoppedType ==
    ASSUME relay \in [Client -> Client \cup {None}], NEW S
    PROVE  Stopped(S) \in [Client -> Client \cup {None}]
  BY DEF Stopped

LEMMA GivenType ==
    ASSUME reused \subseteq PathNumber \X Address, NEW p \in PathNumber, NEW s \in Address
    PROVE  Given(p, s) \subseteq PathNumber \X Address
  BY DEF Given

\* The message that a responder is announced with.
LEMMA SlotGiven ==
    ASSUME IInv, NEW c \in Client, AuthResponder(c)
    PROVE  /\ path[c] \in PathNumber /\ NextSlot(room[path[c]]) \in ResponderAddress
           /\ phase[c] = "handshake" /\ attached[path[c]]
  <1>1. phase[c] = "handshake" /\ ~Full(room[path[c]]) /\ attached[path[c]]
    BY DEF AuthResponder, MayAuthenticate
  <1>2. path[c] \in PathNumber
    BY <1>1, PathOf
  <1> QED BY <1>1, <1>2, Members, FullMeansNoAddress

LEMMA TypesKept ==
    ASSUME IInv, RTypeOK, [RNext]_rvars
    PROVE  RTypeOK'
  <1>0. /\ outbox \in [Client -> Seq(Message)] /\ gathered \in Seq(Entry)
        /\ relay \in [Client -> Client \cup {None}] /\ view \in [Client -> SUBSET Address]
        /\ deaf \subseteq Client /\ greeted \subseteq Client /\ announced \subseteq Client
        /\ relays \in 0 .. MaxRelays /\ reused \subseteq PathNumber \X Address
        /\ InitiatorAddress \in Address /\ ResponderAddress \subseteq Address
    BY DEF RTypeOK, Entry, Address
  <1> DEFINE T == /\ outbox' \in [Client -> Seq(Message)] /\ gathered' \in Seq(Entry)
                  /\ relay' \in [Client -> Client \cup {None}]
                  /\ view' \in [Client -> SUBSET Address]
                  /\ deaf' \subseteq Client /\ greeted' \subseteq Client
                  /\ announced' \subseteq Client /\ relays' \in 0 .. MaxRelays
                  /\ reused' \subseteq PathNumber \X Address
  <1> SUFFICES T
    BY DEF RTypeOK, Entry
  <1>1. ASSUME NEW c \in Client, RAuthInitiator(c) PROVE T
    <2>1. phase[c] = "handshake"
      BY <1>1 DEF RAuthInitiator, AuthInitiator, MayAuthenticate
    <2>2. /\ path[c] \in PathNumber /\ Audience(c) \subseteq Client
          /\ room[path[c]].initiator \in Client \cup {None}
      BY <2>1, PathOf DEF Audience
    <2> QED BY <1>0, <1>1, <2>2, GatherType, ForgottenType, StoppedType, GivenType, MessageIds
            DEF RAuthInitiator
  <1>2. ASSUME NEW c \in Client, TellAll(c) PROVE T
    <2>1. Head(gathered) \in Entry /\ Tail(gathered) \in Seq(Entry)
      BY <1>0, <1>2 DEF TellAll
    <2>2. Head(gathered).message \in Message
      BY <2>1 DEF Entry
    <2>3. \A d \in Client : Append(outbox[d], Head(gathered).message) \in Seq(Message)
      BY <1>0, <2>2
    <2> QED BY <1>0, <1>2, <2>1, <2>3 DEF TellAll
  <1>3. ASSUME NEW c \in Client, ServerAuth(c) PROVE T
    BY <1>0, <1>3 DEF ServerAuth, ServerAuthIds, Occupied
  <1>4. ASSUME NEW c \in Client, RAuthResponder(c) PROVE T
    <2>1. /\ path[c] \in PathNumber /\ NextSlot(room[path[c]]) \in ResponderAddress
          /\ room[path[c]].initiator \in Client \cup {None}
      BY <1>4, SlotGiven, Members DEF RAuthResponder
    <2> DEFINE i == room[path[c]].initiator
               s == NextSlot(room[path[c]])
    <2>2. outbox' \in [Client -> Seq(Message)]
      BY <1>0, <1>4, <2>1, EnqueuedType, MessageIds DEF RAuthResponder
    <2>3. reused' \subseteq PathNumber \X Address
      BY <1>0, <1>4, <2>1, GivenType DEF RAuthResponder
    <2> QED BY <1>0, <1>4, <2>2, <2>3 DEF RAuthResponder
  <1>5. ASSUME NEW c \in Client, Deliver(c) PROVE T
    <2>1. Head(outbox[c]) \in Message /\ Tail(outbox[c]) \in Seq(Message)
      BY <1>0, <1>5 DEF Deliver
    <2>2. Apply(view[c], Head(outbox[c])) \in SUBSET Address
      <3> DEFINE m == Head(outbox[c])
      <3>1. m.type \in {"new-initiator", "new-responder", "disconnected", "send-error"}
        BY <2>1, MessageIds
      <3>2. m.type # "send-error" => m.id \in Address
        BY <2>1, MessageIds
      <3>3. view[c] \in SUBSET Address
        BY <1>0
      <3> HIDE DEF m
      <3>4. Apply(view[c], m) \in SUBSET Address
        BY <3>1, <3>2, <3>3 DEF Apply
      <3> QED BY <3>4 DEF m
    <2>3. view' \in [Client -> SUBSET Address]
      BY <1>0, <1>5, <2>2 DEF Deliver
    <2>4. outbox' \in [Client -> Seq(Message)]
      BY <1>0, <1>5, <2>1 DEF Deliver
    <2> QED BY <1>0, <1>5, <2>3, <2>4 DEF Deliver
  <1>6. ASSUME NEW c \in Client, Relay(c) PROVE T
    <2>1. \A d \in Peers(c) : d # None => d \in Client
      BY <1>6, PeersArePresent DEF Relay
    <2>2. relays' = relays + 1 /\ relays < MaxRelays
      BY <1>6 DEF Relay, MayRelay
    <2>3. relays' \in 0 .. MaxRelays
      BY <1>0, <2>2, RelayAssumption
    <2>4. /\ outbox' = outbox \/ outbox' = Enqueued(outbox, c, SendError)
          /\ relay' = relay \/ \E d \in Client : relay' = [relay EXCEPT ![c] = d]
          /\ UNCHANGED <<gathered, view, deaf, greeted, announced, reused>>
      BY <1>6, <2>1 DEF Relay
    <2>5. relay' \in [Client -> Client \cup {None}]
      BY <1>0, <2>4
    <2>6. outbox' \in [Client -> Seq(Message)]
      <3>1. Enqueued(outbox, c, SendError) \in [Client -> Seq(Message)]
        BY <1>0, SendErrorType
      <3> QED BY <1>0, <2>4, <3>1
    <2> QED BY <1>0, <2>3, <2>4, <2>5, <2>6
  <1>7. ASSUME NEW c \in Client, RelaySent(c) \/ RelayFailed(c) PROVE T
    <2>0. Enqueued(outbox, c, SendError) \in [Client -> Seq(Message)]
      BY <1>0, SendErrorType
    <2>1. outbox' \in [Client -> Seq(Message)] /\ relay' \in [Client -> Client \cup {None}]
      BY <1>0, <1>7, <2>0 DEF RelaySent, RelayFailed
    <2>2. UNCHANGED <<gathered, view, deaf, greeted, announced, relays, reused>>
      BY <1>7 DEF RelaySent, RelayFailed
    <2> QED BY <1>0, <2>1, <2>2
  <1>8. ASSUME NEW i \in Client, NEW s \in ResponderAddress, RDropResponder(i, s) PROVE T
    <2>1. /\ path[i] \in PathNumber /\ room[path[i]].responders[s] # None
          /\ room[path[i]].responders[s] \in Client
      <3>1. phase[i] = "serving" /\ room[path[i]].responders[s] # None
        BY <1>8 DEF RDropResponder, DropResponder
      <3>2. path[i] \in PathNumber
        BY <3>1, PathOf
      <3> QED BY <3>1, <3>2, Members
    <2>2. reused' \subseteq PathNumber \X Address
      BY <1>0, <1>8, <2>1 DEF RDropResponder
    <2>3. view' \in [Client -> SUBSET Address]
      BY <1>0, <1>8 DEF RDropResponder
    <2> QED BY <1>0, <1>8, <2>1, <2>2, <2>3, ForgottenType, StoppedType DEF RDropResponder
  <1>9. ASSUME NEW c \in Client, RLeave(c) PROVE T
    BY <1>0, <1>9, ForgottenType, StoppedType DEF RLeave
  <1>10. ASSUME NEW c \in Client, Announce(c) PROVE T
    <2>1. /\ path[c] \in PathNumber /\ Responders(path[c]) \subseteq Client
          /\ room[path[c]].initiator \in Client \cup {None}
      BY <1>10, PathOf DEF Announce
    <2>2. gathered' \in Seq(Entry)
      BY <1>0, <1>10, <2>1, GatherType, MessageIds DEF Announce
    <2>3. outbox' \in [Client -> Seq(Message)]
      BY <1>0, <1>10, <2>1, EnqueuedType, MessageIds DEF Announce
    <2> QED BY <1>0, <1>10, <2>2, <2>3 DEF Announce
  <1>11. ASSUME RCloseProtocols PROVE T
    BY <1>0, <1>11, ForgottenType, StoppedType DEF RCloseProtocols
  <1>12. ASSUME NEW c \in Client, RHandshakeDone(c) \/ RUnregister(c) PROVE T
    BY <1>0, <1>12 DEF RHandshakeDone, RUnregister, relayVars
  <1>13. ASSUME NEW c \in Client, RSlotsFull(c) \/ ConnectionLost(c) PROVE T
    BY <1>0, <1>13 DEF RSlotsFull, ConnectionLost
  <1>14. CASE RClose \/ (\E c \in Client, k \in Key : RConnect(c, k)) \/ UNCHANGED rvars
    BY <1>0, <1>14 DEF RClose, RConnect, rvars, relayVars
  <1> QED BY <1>1, <1>2, <1>3, <1>4, <1>5, <1>6, <1>7, <1>8, <1>9, <1>10, <1>11, <1>12, <1>13,
             <1>14 DEF RNext

---------------------------------------------------------------------------
(* What a step does to the members of a path.                              *)

\* Nobody comes to the path or leaves it.
SameMembers(p) == /\ room'[p].initiator = room[p].initiator
                  /\ \A s \in ResponderAddress :
                         room'[p].responders[s] = room[p].responders[s]

LEMMA SameResponders ==
    ASSUME NEW p, SameMembers(p)
    PROVE  Occupied(room'[p]) = Occupied(room[p]) /\ Responders(p)' = Responders(p)
  BY DEF SameMembers, Occupied, Responders

LEMMA ConnectMembers ==
    ASSUME IInv, NEW c \in Client, NEW k \in Key, Connect(c, k), NEW p \in PathNumber
    PROVE  SameMembers(p)
  <1>1. \/ UNCHANGED room
        \/ room' = [room EXCEPT ![Lookup(k)] = AddPending(@, c)]
    BY DEF Connect
  <1>2. room \in [PathNumber -> Room]
    BY DEF IInv, TypeOK
  <1> QED BY <1>1, <1>2 DEF SameMembers, AddPending, Room

LEMMA InitiatorMembers ==
    ASSUME IInv, NEW c \in Client, AuthInitiator(c), NEW p \in PathNumber
    PROVE  /\ path[c] \in PathNumber
           /\ p # path[c] => SameMembers(p)
           /\ p = path[c] =>
                  /\ room'[p].initiator = c
                  /\ Occupied(room'[p]) = Occupied(room[p])
                  /\ Responders(p)' = Responders(p)
  <1>1. phase[c] = "handshake" /\ room' = [room EXCEPT ![path[c]] = SetInitiator(@, c)]
    BY DEF AuthInitiator, MayAuthenticate
  <1>2. path[c] \in PathNumber
    BY <1>1, PathOf
  <1>3. room \in [PathNumber -> Room]
    BY DEF IInv, TypeOK
  <1>4. p # path[c] => SameMembers(p)
    BY <1>1, <1>2, <1>3 DEF SameMembers
  <1>5. p = path[c] => /\ room'[p].initiator = c
                       /\ room'[p].responders = room[p].responders
    BY <1>1, <1>2, <1>3 DEF SetInitiator, Room
  <1> QED BY <1>2, <1>4, <1>5 DEF Occupied, Responders

LEMMA ResponderMembers ==
    ASSUME IInv, NEW c \in Client, AuthResponder(c), NEW p \in PathNumber
    PROVE  /\ p # path[c] => SameMembers(p)
           /\ p = path[c] =>
                  /\ room'[p].initiator = room[p].initiator
                  /\ Occupied(room'[p]) = Occupied(room[p]) \cup {NextSlot(room[p])}
                  /\ Responders(p)' \subseteq Responders(p) \cup {c}
  <1>1. /\ room' = [room EXCEPT ![path[c]] = AddResponder(@, c)]
        /\ path[c] \in PathNumber /\ NextSlot(room[path[c]]) \in ResponderAddress
    BY SlotGiven DEF AuthResponder
  <1>2. room \in [PathNumber -> Room]
    BY DEF IInv, TypeOK
  <1>3. p # path[c] => SameMembers(p)
    BY <1>1, <1>2 DEF SameMembers
  <1>4. ASSUME p = path[c]
        PROVE  /\ room'[p].initiator = room[p].initiator
               /\ \A s \in ResponderAddress : room'[p].responders[s] =
                      IF s = NextSlot(room[p]) THEN c ELSE room[p].responders[s]
    BY <1>1, <1>2, <1>4 DEF AddResponder, Room
  <1>5. c # None
    BY PathsAssumption
  <1> QED BY <1>1, <1>3, <1>4, <1>5 DEF Occupied, Responders

\* A client that leaves frees its place, or the place that its id names.
LEMMA DepartMembers ==
    ASSUME IInv, NEW c \in Client, phase[c] \in Live, NEW f, Depart(c, f), NEW p \in PathNumber
    PROVE  /\ room'[p].initiator = IF room[p].initiator = c THEN None ELSE room[p].initiator
           /\ \A s \in ResponderAddress : room'[p].responders[s] =
                  IF p = path[c] /\ state[c] # "restricted" /\ id[c] = s
                  THEN None ELSE room[p].responders[s]
  <1>1. /\ room[p] \in Room /\ room \in [PathNumber -> Room] /\ c # None
        /\ \A q \in PathNumber : room[q].initiator = c =>
               path[c] = q /\ state[c] # "restricted" /\ id[c] = InitiatorAddress
    BY PathsAssumption DEF IInv, TypeOK, MembersMatch
  <1>2. path[c] \in PathNumber
    BY PathOf DEF Live
  <1>3. CASE ~attached[path[c]]
    <2>1. room' = room /\ room[path[c]] = EmptyRoom
      BY <1>2, <1>3 DEF Depart, IInv, DetachedIsEmpty
    <2> QED BY <1>1, <2>1 DEF EmptyRoom, NoResponders
  <1>4. CASE attached[path[c]]
    <2>1. room' = [room EXCEPT ![path[c]] = RemoveClient(room[path[c]], c)]
      BY <1>4 DEF Depart, Clean
    <2>2. CASE p # path[c]
      BY <1>1, <1>2, <2>1, <2>2
    <2>3. CASE p = path[c]
      <3>1. room'[p] = RemoveClient(room[p], c)
        BY <1>1, <1>2, <2>1, <2>3
      <3>2. CASE state[c] = "restricted"
        BY <1>1, <2>3, <3>1, <3>2 DEF RemoveClient, Room
      <3>3. CASE state[c] # "restricted" /\ id[c] = InitiatorAddress
        BY <1>1, <2>3, <3>1, <3>3, MessageIds DEF RemoveClient, Room
      <3>4. CASE state[c] # "restricted" /\ id[c] # InitiatorAddress
        BY <1>1, <2>3, <3>1, <3>4 DEF RemoveClient, Room
      <3> QED BY <3>2, <3>3, <3>4
    <2> QED BY <2>2, <2>3
  <1> QED BY <1>3, <1>4

\* The initiator is told apart from the responder it drops.
LEMMA DropMembers ==
    ASSUME IInv, NEW i \in Client, NEW t \in ResponderAddress, DropResponder(i, t),
           NEW p \in PathNumber
    PROVE  LET c == room[path[i]].responders[t] IN
           /\ path[i] \in PathNumber /\ room[path[i]].initiator = i
           /\ c \in Client /\ path[c] = path[i] /\ id[c] = t
           /\ room'[p].initiator = room[p].initiator
           /\ \A s \in ResponderAddress : room'[p].responders[s] =
                  IF p = path[i] /\ s = t THEN None ELSE room[p].responders[s]
  <1> DEFINE c == room[path[i]].responders[t]
  <1>1. /\ phase[i] = "serving" /\ state[i] = "authenticated" /\ id[i] = InitiatorAddress
        /\ c # None /\ room' = [room EXCEPT ![path[i]] = RemoveClient(@, c)]
    BY DEF DropResponder
  <1>2. path[i] \in PathNumber /\ room[path[i]].initiator = i
    BY <1>1, PathOf DEF IInv, InitiatorReachable, Live
  <1>3. c \in Client /\ path[c] = path[i] /\ id[c] = t /\ state[c] = "authenticated"
    BY <1>1, <1>2, Members
  <1>4. room \in [PathNumber -> Room]
    BY DEF IInv, TypeOK
  <1>5. t # InitiatorAddress
    BY MessageIds
  <1>6. CASE p # path[i]
    BY <1>1, <1>2, <1>3, <1>4, <1>6
  <1>7. CASE p = path[i]
    <2>1. room'[p] = RemoveClient(room[p], c) /\ room[p] \in Room
      BY <1>1, <1>2, <1>4, <1>7
    <2> HIDE DEF c
    <2>2. state[c] # "restricted" /\ id[c] # InitiatorAddress
      BY <1>3, <1>5
    <2>3. /\ room'[p].initiator = room[p].initiator
          /\ \A s \in ResponderAddress :
                 room'[p].responders[s] = IF s = t THEN None ELSE room[p].responders[s]
      BY <1>3, <2>1, <2>2, RemoveResponder
    <2> QED BY <1>2, <1>3, <1>7, <2>3 DEF c
  <1> QED BY <1>6, <1>7

---------------------------------------------------------------------------
(* What a step does to the departures that are still to be announced.      *)

SameDepartures(p) ==
    \A d \in Client : /\ (d \in Departing(p))' <=> d \in Departing(p)
                      /\ d \in Departing(p) => id'[d] = id[d]

LEMMA SameLeaving ==
    ASSUME NEW p, NEW a, SameDepartures(p)
    PROVE  Leaving(p, a)' <=> Leaving(p, a)
  <1>1. \A d : d \in Departing(p) => d \in Client
    BY DEF Departing
  <1>2. \A d : (d \in Departing(p))' => d \in Client
    BY DEF Departing
  <1> QED BY <1>1, <1>2 DEF SameDepartures, Leaving

\* Steps of the handshake, of the loops and of the server that nobody on the
\* paths notices.
Quiet == \/ \E c \in Client, k \in Key : RConnect(c, k)
         \/ \E c \in Client : \/ TellAll(c) \/ ServerAuth(c) \/ RHandshakeDone(c)
                              \/ RSlotsFull(c) \/ Deliver(c) \/ ConnectionLost(c) \/ Relay(c)
                              \/ RelaySent(c) \/ RelayFailed(c) \/ RUnregister(c)
         \/ RClose \/ UNCHANGED rvars

LEMMA QuietKeeps ==
    ASSUME IInv, Quiet, NEW p \in PathNumber
    PROVE  SameMembers(p) /\ SameDepartures(p) /\ UNCHANGED <<reused, announced>>
  <1>1. ASSUME NEW c \in Client, NEW k \in Key, RConnect(c, k)
        PROVE  SameMembers(p) /\ SameDepartures(p) /\ UNCHANGED <<reused, announced>>
    <2>1. /\ phase[c] = "new" /\ phase'[c] \in {"handshake", "refused"} /\ Connect(c, k)
          /\ UNCHANGED <<state, id, announced, reused>>
          /\ \A d \in Client : d # c => phase'[d] = phase[d] /\ path'[d] = path[d]
      BY <1>1 DEF RConnect, Connect, relayVars, IInv, TypeOK
    <2>2. SameDepartures(p)
      BY <2>1 DEF SameDepartures, Departing
    <2> QED BY <2>1, <2>2, ConnectMembers
  <1>2. ASSUME NEW c \in Client, RHandshakeDone(c) \/ RUnregister(c)
        PROVE  SameMembers(p) /\ SameDepartures(p) /\ UNCHANGED <<reused, announced>>
    <2>1. /\ UNCHANGED <<room, path, state, id, announced, reused>>
          /\ phase[c] = "greeting" \/ c \in announced
          /\ phase'[c] # "leaving" /\ \A d \in Client : d # c => phase'[d] = phase[d]
      BY <1>2 DEF RHandshakeDone, HandshakeDone, RUnregister, Unregister, relayVars, IInv, TypeOK
    <2>2. SameDepartures(p)
      BY <2>1 DEF SameDepartures, Departing
    <2> QED BY <2>1, <2>2 DEF SameMembers
  <1>3. ASSUME NEW c \in Client, RSlotsFull(c)
        PROVE  SameMembers(p) /\ SameDepartures(p) /\ UNCHANGED <<reused, announced>>
    <2>1. /\ Depart(c, "full") /\ phase[c] = "handshake"
          /\ UNCHANGED <<path, state, id, announced, reused>>
          /\ phase'[c] = "full" /\ \A d \in Client : d # c => phase'[d] = phase[d]
      BY <1>3 DEF RSlotsFull, SlotsFull, Depart, IInv, TypeOK
    <2>2. SameDepartures(p)
      BY <2>1 DEF SameDepartures, Departing
    <2>3. state[c] = "restricted" /\ room[p].initiator # c
      BY <2>1, Members, PathsAssumption DEF IInv, ClientSituation
    <2>4. SameMembers(p)
      BY <2>1, <2>3, DepartMembers DEF SameMembers, Live
    <2> QED BY <2>1, <2>2, <2>4
  <1>4. ASSUME UNCHANGED <<room, path, state, id, phase, announced, reused>>
        PROVE  SameMembers(p) /\ SameDepartures(p) /\ UNCHANGED <<reused, announced>>
    BY <1>4 DEF SameMembers, SameDepartures, Departing
  <1>5. CASE \/ \E c \in Client : \/ TellAll(c) \/ ServerAuth(c) \/ Deliver(c) \/ ConnectionLost(c)
                                  \/ Relay(c) \/ RelaySent(c) \/ RelayFailed(c)
             \/ RClose \/ UNCHANGED rvars
    <2>1. UNCHANGED <<room, path, state, id, phase, announced, reused>>
      BY <1>5 DEF TellAll, ServerAuth, Deliver, ConnectionLost, Relay, RelaySent, RelayFailed,
                  RClose, Close, rvars, vars, relayVars
    <2> QED BY <1>4, <2>1
  <1> QED BY <1>1, <1>2, <1>3, <1>5 DEF Quiet

LEMMA AuthDepartures ==
    ASSUME IInv, NEW p \in PathNumber, NEW c \in Client, AuthInitiator(c) \/ AuthResponder(c),
           announced' = announced
    PROVE  SameDepartures(p)
  <1>1. /\ phase[c] = "handshake" /\ phase'[c] = "greeting" /\ path' = path
        /\ \A d \in Client : d # c => phase'[d] = phase[d] /\ id'[d] = id[d]
    BY DEF AuthInitiator, AuthResponder, MayAuthenticate, IInv, TypeOK
  <1>2. path[c] \in PathNumber
    BY <1>1, PathOf
  <1>3. \A d \in Client : phase[d] = "leaving" => state'[d] = state[d]
    <2>1. \A d \in Client : phase[d] = "leaving" => d # room[path[c]].initiator /\ d # c
      BY <1>1, <1>2, Members, PathsAssumption
    <2> QED BY <1>1, <2>1 DEF AuthInitiator, AuthResponder, IInv, TypeOK
  <1> QED BY <1>1, <1>3 DEF SameDepartures, Departing

LEMMA DropDepartures ==
    ASSUME IInv, NEW p \in PathNumber, NEW i \in Client, NEW t \in ResponderAddress,
           RDropResponder(i, t)
    PROVE  SameDepartures(p)
  <1>1. UNCHANGED <<path, id, phase, announced>>
    BY DEF RDropResponder, DropResponder
  <1>2. path[i] \in PathNumber
    BY DropMembers DEF RDropResponder
  <1>3. \A d \in Client : phase[d] = "leaving" => state'[d] = state[d]
    <2>1. /\ state' = [state EXCEPT ![room[path[i]].responders[t]] = Dropped(@)]
          /\ room[path[i]].responders[t] # None
      BY DEF RDropResponder, DropResponder
    <2>2. \A d \in Client : phase[d] = "leaving" => d # room[path[i]].responders[t]
      BY <1>2, <2>1, Members
    <2> QED BY <2>1, <2>2 DEF IInv, TypeOK
  <1> QED BY <1>1, <1>3 DEF SameDepartures, Departing

LEMMA LeaveDepartures ==
    ASSUME IInv, Contacts, NEW c \in Client, RLeave(c), NEW p \in PathNumber
    PROVE  /\ phase[c] \in Live /\ Depart(c, "leaving") /\ path[c] \in PathNumber
           /\ UNCHANGED <<path, state, id>>
           /\ phase'[c] = "leaving" /\ \A d \in Client : d # c => phase'[d] = phase[d]
           /\ c \notin announced
           /\ \A d \in Client : (d \in Departing(p))' <=>
                  d \in Departing(p) \/ (d = c /\ p = path[c] /\ state[c] = "authenticated")
  <1>1. /\ phase[c] \in Live /\ Depart(c, "leaving") /\ UNCHANGED <<path, state, id>>
        /\ announced' = announced
    BY DEF RLeave, Leave, Depart
  <1>2. phase'[c] = "leaving" /\ \A d \in Client : d # c => phase'[d] = phase[d]
    BY <1>1 DEF Depart, IInv, TypeOK
  <1>3. path[c] \in PathNumber /\ c \notin announced
    BY <1>1, PathOf DEF Live, Contacts
  <1> QED BY <1>1, <1>2, <1>3 DEF Departing, Live

LEMMA AnnounceDepartures ==
    ASSUME NEW c \in Client, Announce(c), NEW p
    PROVE  \A d \in Client : (d \in Departing(p))' <=> d \in Departing(p) /\ d # c
  BY DEF Announce, Departing, vars

---------------------------------------------------------------------------
(* Contacts and what is gathered.                                          *)

LEMMA GatheredMoves ==
    ASSUME IInv, [RNext]_rvars
    PROVE  \/ gathered' = gathered
           \/ gathered # <<>> /\ gathered' = Tail(gathered)
           \/ \E c \in Client, m \in {NewInitiator, Disconnected(InitiatorAddress)} :
                  /\ path[c] \in PathNumber
                  /\ gathered' = Append(gathered, [by |-> c, message |-> m,
                                                   to |-> Responders(path[c])])
  <1>1. ASSUME NEW c \in Client, RAuthInitiator(c)
        PROVE  \/ gathered' = gathered
               \/ /\ path[c] \in PathNumber
                  /\ gathered' = Append(gathered, [by |-> c, message |-> NewInitiator,
                                                   to |-> Responders(path[c])])
    <2>1. phase[c] = "handshake"
      BY <1>1 DEF RAuthInitiator, AuthInitiator, MayAuthenticate
    <2> QED BY <1>1, <2>1, PathOf DEF RAuthInitiator, Gather, Audience
  <1>2. ASSUME NEW c \in Client, Announce(c)
        PROVE  \/ gathered' = gathered
               \/ /\ path[c] \in PathNumber
                  /\ gathered' = Append(gathered,
                                        [by |-> c, message |-> Disconnected(InitiatorAddress),
                                         to |-> Responders(path[c])])
    BY <1>2, PathOf DEF Announce, Gather
  <1>3. ASSUME NEW c \in Client, TellAll(c)
        PROVE  gathered # <<>> /\ gathered' = Tail(gathered)
    BY <1>3 DEF TellAll
  <1>4. CASE \/ \E c \in Client, k \in Key : RConnect(c, k)
             \/ \E c \in Client : \/ ServerAuth(c) \/ RAuthResponder(c) \/ RHandshakeDone(c)
                                  \/ RSlotsFull(c) \/ Deliver(c) \/ ConnectionLost(c) \/ Relay(c)
                                  \/ RelaySent(c) \/ RelayFailed(c) \/ RLeave(c) \/ RUnregister(c)
             \/ \E i \in Client, s \in ResponderAddress : RDropResponder(i, s)
             \/ RClose \/ RCloseProtocols \/ UNCHANGED rvars
    BY <1>4 DEF RConnect, ServerAuth, RAuthResponder, RHandshakeDone, RSlotsFull, Deliver,
                ConnectionLost, Relay, RelaySent, RelayFailed, RLeave, RUnregister, RDropResponder,
                RClose, RCloseProtocols, rvars, relayVars
  <1> QED BY <1>1, <1>2, <1>3, <1>4 DEF RNext

\* What is gathered was gathered before or is for the responders of a path.
LEMMA GatheredBefore ==
    ASSUME IInv, gathered \in Seq(Entry), [RNext]_rvars, NEW k \in DOMAIN gathered'
    PROVE  \/ \E n \in DOMAIN gathered : gathered'[k] = gathered[n]
           \/ /\ gathered'[k].message \in {NewInitiator, Disconnected(InitiatorAddress)}
              /\ \E p \in PathNumber : gathered'[k].to = Responders(p)
  <1>1. CASE gathered' = gathered
    BY <1>1
  <1>2. CASE gathered # <<>> /\ gathered' = Tail(gathered)
    <2>1. k + 1 \in DOMAIN gathered /\ gathered'[k] = gathered[k + 1]
      BY <1>2
    <2> QED BY <2>1
  <1>3. ASSUME NEW c \in Client, NEW m \in {NewInitiator, Disconnected(InitiatorAddress)},
               path[c] \in PathNumber,
               gathered' = Append(gathered, [by |-> c, message |-> m,
                                             to |-> Responders(path[c])])
        PROVE  \/ \E n \in DOMAIN gathered : gathered'[k] = gathered[n]
               \/ /\ gathered'[k].message = m /\ gathered'[k].to = Responders(path[c])
    <2>1. CASE k \in DOMAIN gathered
      BY <1>3, <2>1
    <2>2. CASE k \notin DOMAIN gathered
      <3>1. gathered'[k] = [by |-> c, message |-> m, to |-> Responders(path[c])]
        BY <1>3, <2>2
      <3> QED BY <3>1
    <2> QED BY <2>1, <2>2
  <1> QED BY <1>1, <1>2, <1>3, GatheredMoves

LEMMA GatheredTypesKept ==
    ASSUME IInv, RTypeOK, GatheredTypes, [RNext]_rvars
    PROVE  GatheredTypes'
  <1>1. gathered \in Seq(Entry)
    BY DEF RTypeOK, Entry
  <1> QED BY <1>1, GatheredBefore DEF GatheredTypes

\* The phases of a client whose handshake has not authenticated it.
Early == {"new", "refused", "handshake"}

\* Such a client has not been anything else.
LEMMA EarlyBefore ==
    ASSUME IInv, [RNext]_rvars, NEW b \in Client
    PROVE  /\ phase'[b] \in Early => phase[b] \in Early
           /\ phase'[b] \in {"new"} \cup Live /\ phase[b] \notin Live => phase[b] = "new"
           /\ phase'[b] \in {"serving", "parked"} =>
                  phase[b] \in {"serving", "parked"} \/ RHandshakeDone(b)
           /\ phase'[b] = "greeting" =>
                  \/ phase[b] = "greeting" /\ id'[b] = id[b]
                  \/ RAuthInitiator(b) /\ id'[b] = InitiatorAddress
                  \/ RAuthResponder(b)
           /\ phase'[b] = "full" => phase[b] = "full" \/ phase[b] = "handshake"
           /\ phase'[b] = "leaving" => phase[b] \in Live \cup {"leaving"}
           /\ id'[b] = id[b] \/ phase'[b] = "greeting"
           /\ path'[b] = path[b] \/ phase[b] = "new"
  <1>1. CASE \E c \in Client, k \in Key : RConnect(c, k)
    BY <1>1 DEF RConnect, Connect, IInv, TypeOK, Early, Live
  <1>2. ASSUME NEW c \in Client, RAuthInitiator(c)
        PROVE  /\ phase[c] = "handshake" /\ phase'[c] = "greeting" /\ id'[c] = InitiatorAddress
               /\ path' = path /\ \A d \in Client : d # c => phase'[d] = phase[d] /\ id'[d] = id[d]
    BY <1>2 DEF RAuthInitiator, AuthInitiator, MayAuthenticate, IInv, TypeOK, Early
  <1>3. ASSUME NEW c \in Client, RAuthResponder(c)
        PROVE  /\ phase[c] = "handshake" /\ phase'[c] = "greeting"
               /\ path' = path /\ \A d \in Client : d # c => phase'[d] = phase[d] /\ id'[d] = id[d]
    BY <1>3 DEF RAuthResponder, AuthResponder, MayAuthenticate, IInv, TypeOK, Early
  <1>4. ASSUME NEW c \in Client, RHandshakeDone(c)
        PROVE  /\ phase[c] = "greeting" /\ phase'[c] \in {"crashed", "serving", "parked"}
               /\ UNCHANGED <<id, path>> /\ \A d \in Client : d # c => phase'[d] = phase[d]
    BY <1>4 DEF RHandshakeDone, HandshakeDone, IInv, TypeOK
  <1>5. ASSUME NEW c \in Client, RSlotsFull(c)
        PROVE  /\ phase[c] = "handshake" /\ phase'[c] = "full"
               /\ UNCHANGED <<id, path>> /\ \A d \in Client : d # c => phase'[d] = phase[d]
    BY <1>5 DEF RSlotsFull, SlotsFull, Depart, IInv, TypeOK
  <1>6. ASSUME NEW c \in Client, RLeave(c) \/ RUnregister(c)
        PROVE  /\ phase'[c] = "gone" \/ (phase'[c] = "leaving" /\ phase[c] \in Live)
               /\ UNCHANGED <<id, path>> /\ \A d \in Client : d # c => phase'[d] = phase[d]
    <2>1. phase \in [Client -> Phase]
      BY DEF IInv, TypeOK
    <2>2. CASE RLeave(c)
      BY <2>1, <2>2 DEF RLeave, Leave, Depart
    <2>3. CASE RUnregister(c)
      BY <2>1, <2>3 DEF RUnregister, Unregister
    <2> QED BY <1>6, <2>2, <2>3
  <1>7. CASE \/ \E c \in Client : \/ TellAll(c) \/ ServerAuth(c) \/ Deliver(c) \/ ConnectionLost(c)
                                  \/ Relay(c) \/ RelaySent(c) \/ RelayFailed(c) \/ Announce(c)
             \/ \E i \in Client, s \in ResponderAddress : RDropResponder(i, s)
             \/ RClose \/ RCloseProtocols \/ UNCHANGED rvars
    <2>2. ASSUME NEW i \in Client, NEW s \in ResponderAddress, RDropResponder(i, s)
          PROVE  UNCHANGED <<phase, id, path>>
      BY <2>2 DEF RDropResponder, DropResponder
    <2>3. RClose \/ RCloseProtocols \/ UNCHANGED rvars => UNCHANGED <<phase, id, path>>
      BY DEF RClose, Close, RCloseProtocols, CloseProtocols, rvars, vars
    <2>4. UNCHANGED <<phase, id, path>>
      BY <1>7, <2>2, <2>3, MessageSteps DEF vars
    <2> QED BY <2>4
  <1>8. CASE \E c \in Client : RAuthInitiator(c) \/ RAuthResponder(c)
    BY <1>2, <1>3, <1>8 DEF Early, Live
  <1>9. CASE \E c \in Client : RHandshakeDone(c) \/ RSlotsFull(c)
    BY <1>4, <1>5, <1>9 DEF Early, Live
  <1>10. CASE \E c \in Client : RLeave(c) \/ RUnregister(c)
    BY <1>6, <1>10 DEF Early, Live
  <1> QED BY <1>1, <1>7, <1>8, <1>9, <1>10 DEF RNext

\* Nothing is enqueued for a client or believed by it before it has been authenticated.
LEMMA EarlyQueue ==
    ASSUME IInv, RTypeOK, Contacts, [RNext]_rvars, NEW b \in Client, phase'[b] \in Early
    PROVE  outbox'[b] = <<>> /\ view'[b] = {} /\ relay'[b] = None /\ b \notin greeted'
  <1>1. /\ phase[b] \in Early /\ phase[b] \notin {"greeting", "serving", "parked", "leaving"}
        /\ outbox[b] = <<>> /\ view[b] = {} /\ relay[b] = None /\ b \notin greeted
        /\ \A k \in DOMAIN gathered : b \notin gathered[k].to
    BY EarlyBefore DEF Contacts, Early
  <1>2. \A p \in PathNumber : room[p].initiator # b
    BY <1>1, Members, PathsAssumption
  <1>3. /\ outbox \in [Client -> Seq(Message)] /\ gathered \in Seq(Entry)
        /\ relay \in [Client -> Client \cup {None}] /\ view \in [Client -> SUBSET Address]
    BY DEF RTypeOK, Entry
  <1>4. ASSUME NEW c \in Client, RAuthInitiator(c) PROVE c # b
    BY <1>4, EarlyBefore DEF RAuthInitiator, AuthInitiator, IInv, TypeOK, Early
  <1>5. ASSUME NEW c \in Client, RAuthResponder(c) PROVE c # b
    BY <1>5, EarlyBefore DEF RAuthResponder, AuthResponder, IInv, TypeOK, Early
  <1>6. CASE \E c \in Client : RAuthInitiator(c)
    BY <1>1, <1>3, <1>4, <1>6 DEF RAuthInitiator, Forgotten, Stopped
  <1>7. ASSUME NEW c \in Client, RAuthResponder(c)
        PROVE  outbox'[b] = <<>> /\ view'[b] = {} /\ relay'[b] = None /\ b \notin greeted'
    <2>1. c # b /\ room[path[c]].initiator # b
      BY <1>2, <1>5, <1>7, SlotGiven DEF RAuthResponder
    <2> QED BY <1>1, <1>3, <1>7, <2>1 DEF RAuthResponder, Enqueued
  <1>8. ASSUME NEW c \in Client, TellAll(c)
        PROVE  outbox'[b] = <<>> /\ view'[b] = {} /\ relay'[b] = None /\ b \notin greeted'
    <2>1. b \notin Head(gathered).to
      <3>1. gathered # <<>>
        BY <1>8 DEF TellAll
      <3>2. 1 \in DOMAIN gathered /\ Head(gathered) = gathered[1]
        BY <1>3, <3>1
      <3> QED BY <1>1, <3>2
    <2> QED BY <1>1, <1>3, <1>8, <2>1 DEF TellAll
  <1>9. ASSUME NEW c \in Client, Announce(c)
        PROVE  outbox'[b] = <<>> /\ view'[b] = {} /\ relay'[b] = None /\ b \notin greeted'
    <2>1. path[c] \in PathNumber
      BY <1>9, PathOf DEF Announce
    <2> QED BY <1>1, <1>2, <1>3, <1>9, <2>1 DEF Announce, Enqueued
  <1>10. CASE \E c \in Client : ServerAuth(c) \/ Deliver(c) \/ Relay(c)
    BY <1>1, <1>3, <1>10 DEF ServerAuth, Deliver, Relay, MayRelay, Enqueued
  <1>11. CASE \E c \in Client : RelaySent(c) \/ RelayFailed(c)
    BY <1>1, <1>3, <1>11 DEF RelaySent, RelayFailed, Enqueued
  <1>12. CASE RCloseProtocols \/ \E c \in Client : RLeave(c)
    BY <1>1, <1>3, <1>12 DEF RCloseProtocols, RLeave, Forgotten, Stopped
  <1>13. ASSUME NEW i \in Client, NEW s \in ResponderAddress, RDropResponder(i, s)
         PROVE  outbox'[b] = <<>> /\ view'[b] = {} /\ relay'[b] = None /\ b \notin greeted'
    BY <1>1, <1>3, <1>13 DEF RDropResponder, DropResponder, Forgotten, Stopped
  <1>14. CASE \/ \E c \in Client, k \in Key : RConnect(c, k)
              \/ \E c \in Client : \/ RHandshakeDone(c) \/ RSlotsFull(c) \/ ConnectionLost(c)
                                   \/ RUnregister(c)
              \/ RClose \/ UNCHANGED rvars
    BY <1>1, <1>14 DEF RConnect, RHandshakeDone, RSlotsFull, ConnectionLost, RUnregister, RClose,
                       rvars, relayVars
  <1> QED BY <1>6, <1>7, <1>8, <1>9, <1>10, <1>11, <1>12, <1>13, <1>14 DEF RNext

\* Who has been sent server-auth or has announced its departure, stays so.
LEMMA HistoryGrows ==
    ASSUME [RNext]_rvars
    PROVE  /\ greeted \subseteq greeted' /\ deaf \subseteq deaf' /\ announced \subseteq announced'
           /\ reused \subseteq reused'
           /\ \A b \in Client : b \in announced' => b \in announced \/ Announce(b)
  <1>1. CASE \E c \in Client : \/ RAuthInitiator(c) \/ RAuthResponder(c) \/ RSlotsFull(c)
    BY <1>1 DEF RAuthInitiator, RAuthResponder, RSlotsFull, Given
  <1>2. CASE \E c \in Client : \/ TellAll(c) \/ ServerAuth(c) \/ Deliver(c) \/ ConnectionLost(c)
    BY <1>2 DEF TellAll, ServerAuth, Deliver, ConnectionLost
  <1>3. CASE \E c \in Client : \/ Relay(c) \/ RelaySent(c) \/ RelayFailed(c)
    BY <1>3 DEF Relay, RelaySent, RelayFailed
  <1>4. CASE RCloseProtocols \/ \E i \in Client, s \in ResponderAddress : RDropResponder(i, s)
    BY <1>4 DEF RCloseProtocols, RDropResponder
  <1>5. CASE \E c \in Client : RLeave(c) \/ Announce(c)
    BY <1>5 DEF RLeave, Announce
  <1>6. CASE \/ \E c \in Client, k \in Key : RConnect(c, k)
             \/ \E c \in Client : RHandshakeDone(c) \/ RUnregister(c)
             \/ RClose \/ UNCHANGED rvars
    BY <1>6 DEF RConnect, RHandshakeDone, RUnregister, RClose, rvars, relayVars
  <1> QED BY <1>1, <1>2, <1>3, <1>4, <1>5, <1>6 DEF RNext

LEMMA ContactsKept ==
    ASSUME IInv, IInv', RTypeOK, Contacts, [RNext]_rvars
    PROVE  Contacts'
  <1> SUFFICES ASSUME NEW b \in Client
               PROVE  /\ phase'[b] \in Early =>
                             /\ outbox'[b] = <<>> /\ view'[b] = {} /\ relay'[b] = None
                             /\ b \notin greeted'
                             /\ \A k \in DOMAIN gathered' : b \notin gathered'[k].to
                      /\ phase'[b] \in {"serving", "parked"} => b \in greeted'
                      /\ phase'[b] = "greeting" /\ id'[b] \in ResponderAddress => b \in greeted'
                      /\ phase'[b] \in {"new"} \cup Live => b \notin announced'
                      /\ phase'[b] = "full" => state'[b] = "restricted"
    BY DEF Contacts, Early
  <1>1. ASSUME phase'[b] \in Early, NEW k \in DOMAIN gathered'
        PROVE  b \notin gathered'[k].to
    <2>1. phase[b] \in Early /\ \A n \in DOMAIN gathered : b \notin gathered[n].to
      BY <1>1, EarlyBefore DEF Contacts, Early
    <2>2. \A p \in PathNumber : b \notin Responders(p)
      BY <2>1, Members DEF Early
    <2>3. gathered \in Seq(Entry)
      BY DEF RTypeOK, Entry
    <2> QED BY <2>1, <2>2, <2>3, GatheredBefore
  <1>2. phase'[b] \in {"serving", "parked"} => b \in greeted'
    BY EarlyBefore, HistoryGrows DEF Contacts, RHandshakeDone, relayVars
  <1>3. phase'[b] = "greeting" /\ id'[b] \in ResponderAddress => b \in greeted'
    BY EarlyBefore, HistoryGrows, MessageIds DEF Contacts, RAuthResponder
  <1>4. ASSUME phase'[b] \in {"new"} \cup Live, b \in announced' PROVE FALSE
    <2>1. phase[b] \in {"new"} \cup Live
      BY <1>4, EarlyBefore
    <2>2. Announce(b)
      BY <1>4, <2>1, HistoryGrows DEF Contacts
    <2> QED BY <2>1, <2>2 DEF Announce, Live
  <1>5. phase'[b] = "full" => state'[b] = "restricted"
    <2>1. phase'[b] = "full" => state[b] = "restricted" /\ id'[b] = id[b]
      BY EarlyBefore DEF Contacts, IInv, ClientSituation
    <2> QED BY <2>1 DEF IInv, ClientSituation
  <1> QED BY <1>1, <1>2, <1>3, <1>4, <1>5, EarlyQueue

---------------------------------------------------------------------------
(* An address that is shared was given away too early.                     *)

\* The responder address of b is still in use.
Holding(b) == /\ id[b] \in ResponderAddress
              /\ phase[b] \in Live \cup {"leaving"} /\ b \notin announced

LEMMA HoldingBefore ==
    ASSUME IInv, [RNext]_rvars, NEW b \in Client, Holding(b)'
    PROVE  \/ RAuthResponder(b)
           \/ Holding(b) /\ path'[b] = path[b] /\ id'[b] = id[b]
  <1>1. b \notin announced
    BY HistoryGrows DEF Holding
  <1>2. CASE phase[b] = "new"
    <2>1. id[b] = ServerAddress
      BY <1>2 DEF IInv, ClientSituation
    <2>2. id[b] \notin ResponderAddress
      BY <2>1, PathsAssumption DEF ServerAddress, ResponderAddress
    <2>3. id'[b] # id[b]
      BY <2>2 DEF Holding
    <2> QED BY <1>2, <2>3, EarlyBefore, MessageIds DEF Holding
  <1>3. CASE phase[b] # "new"
    <2>1. path'[b] = path[b] /\ phase[b] \in Live \cup {"leaving"}
      BY <1>3, EarlyBefore DEF Holding
    <2>2. RAuthResponder(b) \/ id'[b] = id[b]
      BY EarlyBefore, MessageIds DEF Holding
    <2> QED BY <1>1, <2>1, <2>2 DEF Holding
  <1> QED BY <1>2, <1>3

LEMMA SharedSlots ==
    ASSUME IInv, SharedIsReused, [RNext]_rvars,
           NEW c \in Client, NEW d \in Client, c # d, path'[c] = path'[d], path'[c] # 0,
           id'[c] = id'[d], Holding(c)', Holding(d)'
    PROVE  <<path'[c], id'[c]>> \in reused'
  <1>1. CASE Holding(c) /\ Holding(d) /\ path'[c] = path[c] /\ path'[d] = path[d]
             /\ id'[c] = id[c] /\ id'[d] = id[d]
    BY <1>1, HistoryGrows DEF SharedIsReused, Holding
  <1>2. ASSUME NEW e \in Client, NEW f \in Client, e # f, RAuthResponder(e),
               Holding(f), path'[f] = path[f], id'[f] = id[f],
               path'[e] = path'[f], id'[e] = id'[f]
        PROVE  <<path'[e], id'[e]>> \in reused'
    <2>1. /\ path' = path /\ id'[e] = NextSlot(room[path[e]])
          /\ id'[e] \in ResponderAddress
      BY <1>2, SlotGiven DEF RAuthResponder, AuthResponder, IInv, TypeOK
    <2>2. f \in Holders(path[e], id'[e])
      BY <1>2, <2>1, MessageIds DEF Holders, Holding
    <2> QED BY <1>2, <2>1, <2>2 DEF RAuthResponder, Given
  <1>3. ~(RAuthResponder(c) /\ RAuthResponder(d))
    <2>1. ASSUME RAuthResponder(c), RAuthResponder(d) PROVE FALSE
      <3>1. phase[d] = "handshake" /\ phase'[d] = "greeting" /\ phase'[d] = phase[d]
        BY <2>1 DEF RAuthResponder, AuthResponder, MayAuthenticate, IInv, TypeOK
      <3> QED BY <3>1
    <2> QED BY <2>1
  <1> QED BY <1>1, <1>2, <1>3, HoldingBefore

\* A departing initiator and the initiator of its path.
LEMMA SharedSeats ==
    ASSUME IInv, IInv', RTypeOK, Contacts, SharedIsReused, [RNext]_rvars, NEW p \in PathNumber,
           room'[p].initiator # None, Leaving(p, InitiatorAddress)'
    PROVE  <<p, InitiatorAddress>> \in reused'
  <1>0. ASSUME room[p].initiator # None, Leaving(p, InitiatorAddress)
        PROVE  <<p, InitiatorAddress>> \in reused'
    BY <1>0, HistoryGrows DEF SharedIsReused
  <1>1. CASE Quiet
    BY <1>0, <1>1, QuietKeeps, SameLeaving DEF SameMembers
  <1>2. ASSUME NEW c \in Client, RAuthInitiator(c)
        PROVE  <<p, InitiatorAddress>> \in reused'
    <2>1. AuthInitiator(c) /\ announced' = announced
      BY <1>2 DEF RAuthInitiator
    <2>2. Leaving(p, InitiatorAddress)
      BY <2>1, AuthDepartures, SameLeaving
    <2>3. CASE p # path[c]
      BY <1>0, <2>1, <2>2, <2>3, InitiatorMembers DEF SameMembers
    <2>4. CASE p = path[c]
      <3>1. Holders(p, InitiatorAddress) # {}
        BY <2>2 DEF Leaving, Departing, Holders
      <3> QED BY <1>2, <2>4, <3>1 DEF RAuthInitiator, Given
    <2> QED BY <2>3, <2>4
  <1>3. ASSUME NEW c \in Client, RAuthResponder(c)
        PROVE  <<p, InitiatorAddress>> \in reused'
    <2>1. AuthResponder(c) /\ announced' = announced
      BY <1>3 DEF RAuthResponder
    <2> QED BY <1>0, <2>1, AuthDepartures, SameLeaving, ResponderMembers DEF SameMembers
  <1>4. ASSUME NEW i \in Client, NEW s \in ResponderAddress, RDropResponder(i, s)
        PROVE  <<p, InitiatorAddress>> \in reused'
    BY <1>0, <1>4, DropMembers, DropDepartures, SameLeaving DEF RDropResponder
  <1>5. ASSUME NEW c \in Client, RLeave(c)
        PROVE  <<p, InitiatorAddress>> \in reused'
    <2>1. room[p].initiator # None /\ room[p].initiator # c
      BY <1>5, LeaveDepartures, DepartMembers
    <2>2. PICK d \in Client : (d \in Departing(p))' /\ id'[d] = InitiatorAddress
      BY DEF Leaving, Departing
    <2>3. id[d] = InitiatorAddress
      BY <1>5, <2>2, LeaveDepartures
    <2>4. d # c \/ p # path[c] \/ state[c] # "authenticated"
      BY <1>5, <2>1, <2>3, LeaveDepartures DEF IInv, InitiatorReachable
    <2>5. d \in Departing(p)
      BY <1>5, <2>2, <2>4, LeaveDepartures
    <2> QED BY <1>0, <2>1, <2>3, <2>5 DEF Leaving
  <1>6. ASSUME NEW c \in Client, Announce(c)
        PROVE  <<p, InitiatorAddress>> \in reused'
    <2>1. UNCHANGED vars
      BY <1>6, MessageSteps
    <2>2. Leaving(p, InitiatorAddress)
      BY <1>6, <2>1, AnnounceDepartures DEF Leaving, Departing, vars
    <2> QED BY <1>0, <2>1, <2>2 DEF vars
  <1>7. ~RCloseProtocols
    BY SweptEmpty DEF RCloseProtocols, EmptyRoom, IInv
  <1> QED BY <1>1, <1>2, <1>3, <1>4, <1>5, <1>6, <1>7 DEF RNext, Quiet

LEMMA SharedKept ==
    ASSUME IInv, IInv', RTypeOK, Contacts, SharedIsReused, [RNext]_rvars
    PROVE  SharedIsReused'
  BY SharedSlots, SharedSeats DEF SharedIsReused, Holding

---------------------------------------------------------------------------
(* What the initiators are told.                                           *)

\* The initiator i will believe that a is there.
Counts(i, a) == a \in Believed(Known(i), outbox[i])

\* InitiatorInformed for one address of one path.
Informed(p, s) ==
    LET i == room[p].initiator IN
    i # None /\ i \notin deaf /\ <<p, s>> \notin reused =>
        /\ s \in Occupied(room[p]) => Counts(i, s)
        /\ Counts(i, s) => s \in Occupied(room[p]) \/ Leaving(p, s)

LEMMA InformedEverywhere ==
    InitiatorInformed <=> \A p \in PathNumber, s \in ResponderAddress : Informed(p, s)
  BY DEF InitiatorInformed, Informed, Counts

LEMMA KnownSame ==
    ASSUME NEW i, view'[i] = view[i], i \in greeted' <=> i \in greeted, path'[i] = path[i],
           Occupied(room'[path[i]]) = Occupied(room[path[i]])
    PROVE  Known(i)' = Known(i)
  BY DEF Known

LEMMA CountsSame ==
    ASSUME NEW i, NEW a \in Address, outbox'[i] = outbox[i], a \in Known(i)' <=> a \in Known(i)
    PROVE  Counts(i, a)' <=> Counts(i, a)
  <1> DEFINE q == outbox[i]
  <1>1. Counts(i, a) <=> a \in Believed(Known(i), q)
    BY DEF Counts
  <1>2. Counts(i, a)' <=> a \in Believed(Known(i)', q)
    BY DEF Counts
  <1> HIDE DEF q
  <1> QED BY <1>1, <1>2, BelievedOf

\* A message about another address changes nothing.
LEMMA CountsAppend ==
    ASSUME NEW i, NEW a \in Address, NEW m \in Message, outbox[i] \in Seq(Message),
           outbox'[i] = Append(outbox[i], m), a \in Known(i)' <=> a \in Known(i)
    PROVE  Counts(i, a)' <=> IF m.id = a THEN m.type # "disconnected" ELSE Counts(i, a)
  <1> DEFINE q == outbox[i]
  <1>1. Counts(i, a) <=> a \in Believed(Known(i), q)
    BY DEF Counts
  <1>2. Counts(i, a)' <=> a \in Believed(Known(i)', Append(q, m))
    BY DEF Counts
  <1>3. q \in Seq(Message)
    OBVIOUS
  <1> HIDE DEF q
  <1> QED BY <1>1, <1>2, <1>3, BelievedAppend, BelievedOf

\* The client i is a member of path p before and after the step.
LEMMA MemberStays ==
    ASSUME IInv, [RNext]_rvars, NEW p \in PathNumber, NEW i \in Client,
           i = room[p].initiator \/ i \in Responders(p)
    PROVE  path[i] = p /\ path'[i] = p /\ phase[i] \in {"greeting", "serving"}
  BY Members, EarlyBefore, PathsAssumption

LEMMA InformedSame ==
    ASSUME IInv, [RNext]_rvars, NEW p \in PathNumber, NEW s \in ResponderAddress, Informed(p, s),
           SameMembers(p), Leaving(p, s) => Leaving(p, s)',
           \A i \in Client : i = room[p].initiator /\ i \notin deaf' =>
               (Counts(i, s)' <=> Counts(i, s))
    PROVE  Informed(p, s)'
  <1>1. room'[p].initiator = room[p].initiator /\ Occupied(room'[p]) = Occupied(room[p])
    BY SameResponders DEF SameMembers
  <1> SUFFICES ASSUME NEW i, i = room[p].initiator, i # None, i \notin deaf', <<p, s>> \notin reused'
               PROVE  /\ s \in Occupied(room[p]) => Counts(i, s)'
                      /\ Counts(i, s)' => s \in Occupied(room[p]) \/ Leaving(p, s)'
    BY <1>1 DEF Informed, Counts, Known
  <1>2. i \in Client
    BY Members
  <1>3. /\ s \in Occupied(room[p]) => Counts(i, s)
        /\ Counts(i, s) => s \in Occupied(room[p]) \/ Leaving(p, s)
    BY HistoryGrows DEF Informed, Counts, Known
  <1> QED BY <1>2, <1>3

LEMMA InformedQuiet ==
    ASSUME IInv, RTypeOK, Contacts, GatheredTypes, [RNext]_rvars, Quiet,
           NEW p \in PathNumber, NEW s \in ResponderAddress, Informed(p, s)
    PROVE  Informed(p, s)'
  <1>1. /\ SameMembers(p) /\ Occupied(room'[p]) = Occupied(room[p])
        /\ Leaving(p, s) <=> Leaving(p, s)'
    BY QuietKeeps, SameResponders, SameLeaving
  <1> SUFFICES ASSUME NEW i \in Client, i = room[p].initiator, i \notin deaf'
               PROVE  Counts(i, s)' <=> Counts(i, s)
    BY <1>1, InformedSame
  <1>2. /\ path[i] = p /\ path'[i] = p /\ phase[i] \in {"greeting", "serving"} /\ i # None
        /\ id[i] = InitiatorAddress
    BY MemberStays, Members, PathsAssumption
  <1>3. /\ outbox \in [Client -> Seq(Message)] /\ gathered \in Seq(Entry)
        /\ view \in [Client -> SUBSET Address] /\ s \in Address
        /\ s # InitiatorAddress /\ s # ServerAddress
    BY MessageIds DEF RTypeOK, Entry, Address, SendError
  <1>4. ASSUME UNCHANGED <<view, outbox, greeted>>
        PROVE  Counts(i, s)' <=> Counts(i, s)
    <2>1. Known(i)' = Known(i)
      BY <1>1, <1>2, <1>4, KnownSame
    <2> QED BY <1>3, <1>4, <2>1, CountsSame
  <1>5. ASSUME NEW m \in Message, m.id # s, outbox'[i] \in {outbox[i], Append(outbox[i], m)},
               UNCHANGED <<view, greeted>>
        PROVE  Counts(i, s)' <=> Counts(i, s)
    <2>1. Known(i)' = Known(i)
      BY <1>1, <1>2, <1>5, KnownSame
    <2>2. outbox[i] \in Seq(Message)
      BY <1>3
    <2>3. CASE outbox'[i] = outbox[i]
      BY <1>3, <2>1, <2>3, CountsSame
    <2>4. CASE outbox'[i] = Append(outbox[i], m)
      BY <1>3, <1>5, <2>1, <2>2, <2>4, CountsAppend
    <2> QED BY <1>5, <2>3, <2>4
  <1>6. CASE \/ \E c \in Client, k \in Key : RConnect(c, k)
             \/ \E c \in Client : \/ RHandshakeDone(c) \/ RSlotsFull(c) \/ ConnectionLost(c)
                                  \/ RelaySent(c) \/ RUnregister(c)
             \/ RClose \/ UNCHANGED rvars
    <2>1. UNCHANGED <<view, outbox, greeted>>
      BY <1>6 DEF RConnect, RHandshakeDone, RSlotsFull, ConnectionLost, RelaySent, RUnregister,
                  RClose, rvars, relayVars
    <2> QED BY <1>4, <2>1
  <1>7. ASSUME NEW c \in Client, TellAll(c)
        PROVE  Counts(i, s)' <=> Counts(i, s)
    <2> DEFINE m == Head(gathered).message
    <2>1. m \in {NewInitiator, Disconnected(InitiatorAddress)}
      <3>1. gathered # <<>>
        BY <1>7 DEF TellAll
      <3>2. 1 \in DOMAIN gathered /\ Head(gathered) = gathered[1]
        BY <1>3, <3>1
      <3> QED BY <3>2 DEF GatheredTypes
    <2>2. m \in Message /\ m.id # s
      BY <1>3, <2>1, MessageIds DEF NewInitiator, Disconnected
    <2>3. outbox'[i] \in {outbox[i], Append(outbox[i], m)} /\ UNCHANGED <<view, greeted>>
      BY <1>7 DEF TellAll
    <2> HIDE DEF m
    <2> QED BY <1>5, <2>2, <2>3
  <1>8. ASSUME NEW c \in Client, Relay(c) \/ RelayFailed(c)
        PROVE  Counts(i, s)' <=> Counts(i, s)
    <2>1. outbox' \in {outbox, Enqueued(outbox, c, SendError)} /\ UNCHANGED <<view, greeted>>
      BY <1>8 DEF Relay, RelayFailed
    <2>2. outbox'[i] \in {outbox[i], Append(outbox[i], SendError)}
      BY <1>3, <2>1 DEF Enqueued
    <2>3. SendError \in Message /\ SendError.id # s
      BY <1>3, MessageIds
    <2> QED BY <1>5, <2>1, <2>2, <2>3
  <1>9. ASSUME NEW c \in Client, ServerAuth(c)
        PROVE  Counts(i, s)' <=> Counts(i, s)
    <2>1. UNCHANGED vars /\ outbox' = outbox
      BY <1>9, MessageSteps DEF ServerAuth
    <2>2. Known(i)' = Known(i)
      <3>1. CASE i = c
        <4>1. /\ i \notin greeted /\ i \in greeted'
              /\ view'[i] = Occupied(room[path[i]])
          BY <1>3, <1>9, <3>1 DEF ServerAuth, ServerAuthIds
        <4> QED BY <4>1 DEF Known
      <3>2. CASE i # c
        BY <1>1, <1>2, <1>3, <1>9, <3>2, KnownSame DEF ServerAuth
      <3> QED BY <3>1, <3>2
    <2> QED BY <1>3, <2>1, <2>2, CountsSame
  <1>10. ASSUME NEW c \in Client, Deliver(c)
         PROVE  Counts(i, s)' <=> Counts(i, s)
    <2>1. CASE i # c
      <3>1. outbox'[i] = outbox[i] /\ view'[i] = view[i] /\ greeted' = greeted
        BY <1>3, <1>10, <2>1 DEF Deliver
      <3>2. Known(i)' = Known(i)
        BY <1>1, <1>2, <3>1, KnownSame
      <3> QED BY <1>3, <3>1, <3>2, CountsSame
    <2>2. CASE i = c
      <3>1. i \in greeted /\ i \in greeted'
        BY <1>10, <2>2 DEF Deliver, Contacts
      <3>2. /\ outbox[i] # <<>> /\ outbox'[i] = Tail(outbox[i])
            /\ view'[i] = Apply(view[i], Head(outbox[i]))
        BY <1>3, <1>10, <2>2 DEF Deliver
      <3> DEFINE q == outbox[i]
                 v == view[i]
      <3>3. Counts(i, s) <=> s \in Believed(v, q)
        BY <3>1 DEF Counts, Known
      <3>4. Counts(i, s)' <=> s \in Believed(Apply(v, Head(q)), Tail(q))
        BY <3>1, <3>2 DEF Counts, Known
      <3>5. q \in Seq(Message) /\ q # <<>>
        BY <1>3, <3>2
      <3> HIDE DEF q, v
      <3> QED BY <1>3, <3>3, <3>4, <3>5, BelievedDeliver
    <2> QED BY <2>1, <2>2
  <1> QED BY <1>6, <1>7, <1>8, <1>9, <1>10 DEF Quiet

\* A path whose initiator and its messages a step has nothing to do with.
LEMMA InformedElsewhere ==
    ASSUME IInv, [RNext]_rvars, NEW p \in PathNumber, NEW s \in ResponderAddress, Informed(p, s),
           SameMembers(p), Leaving(p, s) => Leaving(p, s)',
           \A i \in Client : i = room[p].initiator =>
               outbox'[i] = outbox[i] /\ view'[i] = view[i] /\ (i \in greeted' <=> i \in greeted)
    PROVE  Informed(p, s)'
  <1> SUFFICES ASSUME NEW i \in Client, i = room[p].initiator
               PROVE  Counts(i, s)' <=> Counts(i, s)
    BY InformedSame
  <1>1. path[i] = p /\ path'[i] = p /\ Occupied(room'[p]) = Occupied(room[p]) /\ s \in Address
    BY MemberStays, SameResponders DEF Address
  <1>2. Known(i)' = Known(i)
    BY <1>1, KnownSame
  <1> QED BY <1>1, <1>2, CountsSame

LEMMA InformedAuthInitiator ==
    ASSUME IInv, RTypeOK, Contacts, [RNext]_rvars, NEW c \in Client, RAuthInitiator(c),
           NEW p \in PathNumber, NEW s \in ResponderAddress, Informed(p, s)
    PROVE  Informed(p, s)'
  <1>1. /\ AuthInitiator(c) /\ announced' = announced /\ view' = view
        /\ phase[c] = "handshake" /\ path' = path
    BY DEF RAuthInitiator, AuthInitiator, MayAuthenticate
  <1>2. path[c] \in PathNumber /\ (Leaving(p, s) <=> Leaving(p, s)')
    BY <1>1, AuthDepartures, SameLeaving, InitiatorMembers
  <1>3. /\ outbox \in [Client -> Seq(Message)] /\ s \in Address
        /\ outbox' = Forgotten(outbox, {room[path[c]].initiator})
    BY DEF RTypeOK, Address, RAuthInitiator
  <1>4. CASE p # path[c]
    <2>1. ASSUME NEW i \in Client, i = room[p].initiator
          PROVE  outbox'[i] = outbox[i] /\ view'[i] = view[i] /\ (i \in greeted' <=> i \in greeted)
      <3>1. path[i] = p /\ i # c /\ i # room[path[c]].initiator
        BY <1>1, <1>2, <1>4, <2>1, Members, PathsAssumption
      <3> QED BY <1>1, <1>3, <3>1 DEF RAuthInitiator, Forgotten
    <2> QED BY <1>1, <1>2, <1>4, <2>1, InitiatorMembers, InformedElsewhere
  <1>5. CASE p = path[c]
    <2>1. room'[p].initiator = c /\ Occupied(room'[p]) = Occupied(room[p])
      BY <1>1, <1>5, InitiatorMembers
    <2>2. outbox[c] = <<>> /\ view[c] = {} /\ c \notin greeted
      BY <1>1 DEF Contacts
    <2>3. outbox'[c] = <<>> /\ view'[c] = {}
      BY <1>1, <1>3, <2>2 DEF Forgotten
    <2>4. c \in greeted' => Occupied(room[p]) = {}
      BY <1>5, <2>2 DEF RAuthInitiator, Audience, Responders
    <2>5. Known(c)' = Occupied(room'[p])
      BY <1>1, <1>5, <2>1, <2>3, <2>4 DEF Known
    <2>6. Counts(c, s)' <=> s \in Occupied(room'[p])
      <3> DEFINE o == Occupied(room'[p])
      <3>1. Counts(c, s)' <=> s \in Believed(o, <<>>)
        BY <2>3, <2>5 DEF Counts
      <3> HIDE DEF o
      <3>2. Counts(c, s)' <=> s \in o
        BY <1>3, <3>1, BelievedEmpty
      <3> QED BY <3>2 DEF o
    <2> QED BY <2>1, <2>6 DEF Informed, Counts, Known
  <1> QED BY <1>4, <1>5

LEMMA InformedAuthResponder ==
    ASSUME IInv, RTypeOK, Contacts, [RNext]_rvars, NEW c \in Client, RAuthResponder(c),
           NEW p \in PathNumber, NEW s \in ResponderAddress, Informed(p, s)
    PROVE  Informed(p, s)'
  <1> DEFINE t == NextSlot(room[path[c]])
  <1>1. /\ AuthResponder(c) /\ announced' = announced /\ phase[c] = "handshake" /\ path' = path
        /\ greeted' = greeted \cup {c} /\ deaf' = deaf
        /\ \A i \in Client : i # c => view'[i] = view[i]
    BY DEF RAuthResponder, AuthResponder, MayAuthenticate, RTypeOK
  <1>2. /\ path[c] \in PathNumber /\ t \in ResponderAddress /\ (Leaving(p, s) <=> Leaving(p, s)')
    BY <1>1, AuthDepartures, SameLeaving, SlotGiven
  <1>3. /\ outbox \in [Client -> Seq(Message)] /\ s \in Address
    BY DEF RTypeOK, Address
  <1>4. CASE p # path[c]
    <2>1. ASSUME NEW i \in Client, i = room[p].initiator
          PROVE  outbox'[i] = outbox[i] /\ view'[i] = view[i] /\ (i \in greeted' <=> i \in greeted)
      <3>1. path[i] = p /\ i # c /\ i # room[path[c]].initiator
        BY <1>1, <1>2, <1>4, <2>1, Members, PathsAssumption
      <3> QED BY <1>1, <1>3, <3>1 DEF RAuthResponder, Enqueued
    <2> QED BY <1>1, <1>2, <1>4, <2>1, ResponderMembers, InformedElsewhere
  <1>5. CASE p = path[c]
    <2>1. /\ room'[p].initiator = room[p].initiator
          /\ Occupied(room'[p]) = Occupied(room[p]) \cup {t}
      BY <1>1, <1>5, ResponderMembers
    <2> SUFFICES ASSUME NEW i, i = room[p].initiator, i # None, i \notin deaf,
                        <<p, s>> \notin reused'
                 PROVE  /\ s \in Occupied(room'[p]) => Counts(i, s)'
                        /\ Counts(i, s)' => s \in Occupied(room'[p]) \/ Leaving(p, s)'
      BY <1>1, <2>1 DEF Informed, Counts, Known
    <2>2. i \in Client /\ path[i] = p /\ phase[i] \in {"greeting", "serving"} /\ i # c
      BY <1>1, Members
    <2>3. view'[i] = view[i] /\ (i \in greeted' <=> i \in greeted) /\ path'[i] = p
      BY <1>1, <2>2
    <2>4. outbox'[i] = Append(outbox[i], NewResponder(t))
      BY <1>3, <1>5, <2>2 DEF RAuthResponder, Enqueued
    <2>5. NewResponder(t) \in Message /\ NewResponder(t).id = t
          /\ NewResponder(t).type # "disconnected"
      BY <1>2, MessageIds DEF NewResponder
    <2>6. outbox[i] \in Seq(Message)
      BY <1>3, <2>2
    <2>7. /\ s \in Occupied(room[p]) => Counts(i, s)
          /\ Counts(i, s) => s \in Occupied(room[p]) \/ Leaving(p, s)
      BY HistoryGrows DEF Informed, Counts, Known
    <2> HIDE DEF t
    <2>8. CASE s = t
      <3>1. s \in Occupied(room'[p])
        BY <2>1, <2>8
      <3>2. Counts(i, s)'
        <4> DEFINE k == Known(i)'
                   q == outbox[i]
        <4>1. Counts(i, s)' <=> s \in Believed(k, Append(q, NewResponder(t)))
          BY <2>4 DEF Counts
        <4>2. q \in Seq(Message)
          BY <2>6
        <4> HIDE DEF k, q
        <4> QED BY <1>3, <2>5, <2>8, <4>1, <4>2, BelievedAppend
      <3> QED BY <3>1, <3>2
    <2>9. CASE s # t
      <3>1. s \in Known(i)' <=> s \in Known(i)
        BY <2>1, <2>2, <2>3, <2>9 DEF Known
      <3>2. Counts(i, s)' <=> Counts(i, s)
        BY <1>3, <2>4, <2>5, <2>6, <2>9, <3>1, CountsAppend
      <3> QED BY <1>2, <2>1, <2>7, <2>9, <3>2
    <2> QED BY <2>8, <2>9
  <1> QED BY <1>4, <1>5

LEMMA InformedDrop ==
    ASSUME IInv, RTypeOK, Contacts, [RNext]_rvars,
           NEW j \in Client, NEW t \in ResponderAddress, RDropResponder(j, t),
           NEW p \in PathNumber, NEW s \in ResponderAddress, Informed(p, s)
    PROVE  Informed(p, s)'
  <1> DEFINE c == room[path[j]].responders[t]
  <1>1. /\ DropResponder(j, t) /\ greeted' = greeted /\ path' = path
        /\ outbox' = Forgotten(outbox, {c}) /\ view' = [view EXCEPT ![j] = @ \ {t}]
        /\ phase[j] = "serving"
    BY DEF RDropResponder, DropResponder
  <1>2. /\ path[j] \in PathNumber /\ room[path[j]].initiator = j
        /\ c \in Client /\ path[c] = path[j] /\ id[c] = t
        /\ room'[p].initiator = room[p].initiator
        /\ \A u \in ResponderAddress : room'[p].responders[u] =
               IF p = path[j] /\ u = t THEN None ELSE room[p].responders[u]
    BY <1>1, DropMembers
  <1>3. Leaving(p, s) <=> Leaving(p, s)'
    BY DropDepartures, SameLeaving
  <1>4. /\ outbox \in [Client -> Seq(Message)] /\ s \in Address
        /\ view \in [Client -> SUBSET Address]
    BY DEF RTypeOK, Address
  <1>5. \A i \in Client : i = room[p].initiator => i # c
    BY <1>2, Members, MessageIds, PathsAssumption
  <1> HIDE DEF c
  <1>6. CASE p # path[j]
    <2>1. SameMembers(p)
      BY <1>2, <1>6 DEF SameMembers
    <2>2. ASSUME NEW i \in Client, i = room[p].initiator
          PROVE  outbox'[i] = outbox[i] /\ view'[i] = view[i] /\ (i \in greeted' <=> i \in greeted)
      <3>1. i # j
        BY <1>6, <2>2, MemberStays
      <3> QED BY <1>1, <1>4, <1>5, <2>2, <3>1 DEF Forgotten
    <2> QED BY <1>3, <2>1, <2>2, InformedElsewhere
  <1>7. CASE p = path[j]
    <2>1. j = room[p].initiator /\ j # None /\ room'[p].initiator = j
      BY <1>2, <1>7, PathsAssumption
    <2> SUFFICES ASSUME j \notin deaf', <<p, s>> \notin reused'
                 PROVE  /\ s \in Occupied(room'[p]) => Counts(j, s)'
                        /\ Counts(j, s)' => s \in Occupied(room'[p]) \/ Leaving(p, s)'
      BY <2>1 DEF Informed, Counts, Known
    <2>2. j \in greeted /\ outbox'[j] = outbox[j] /\ view'[j] = view[j] \ {t}
      BY <1>1, <1>4, <1>5, <2>1 DEF Contacts, Forgotten
    <2>3. Known(j)' = view[j] \ {t} /\ Known(j) = view[j]
      BY <1>1, <2>2 DEF Known
    <2>4. \A u \in ResponderAddress : u \in Occupied(room'[p]) <=> u # t /\ u \in Occupied(room[p])
      BY <1>2, <1>7 DEF Occupied
    <2>5. CASE s # t
      <3>1. Counts(j, s)' <=> Counts(j, s)
        BY <1>4, <2>2, <2>3, <2>5, CountsSame
      <3>2. /\ s \in Occupied(room[p]) => Counts(j, s)
            /\ Counts(j, s) => s \in Occupied(room[p]) \/ Leaving(p, s)
        BY <2>1, HistoryGrows DEF Informed, Counts, Known
      <3> QED BY <1>3, <2>4, <2>5, <3>1, <3>2
    <2>6. CASE s = t
      <3>1. \A k \in DOMAIN outbox[j] : outbox[j][k] # NewResponder(t)
        BY <1>7, <2>6 DEF RDropResponder
      <3>2. \A k \in DOMAIN outbox[j] : outbox[j][k] \in Message
        BY <1>4
      <3>3. \A m \in Message : m # NewResponder(t) /\ m.id = t => m.type = "disconnected"
        <4>1. t # InitiatorAddress /\ t # ServerAddress
          BY MessageIds DEF Address, SendError
        <4> QED BY <4>1 DEF Message, NewInitiator, NewResponder, Disconnected, SendError
      <3>4. ~ Counts(j, s)'
        <4>1. Counts(j, s)' <=> s \in Believed(view[j] \ {t}, outbox[j])
          BY <2>2, <2>3 DEF Counts
        <4> QED BY <2>6, <3>1, <3>2, <3>3, <4>1 DEF Believed
      <3> QED BY <2>4, <2>6, <3>4
    <2> QED BY <2>5, <2>6
  <1> QED BY <1>6, <1>7

LEMMA BelievedMonotonic ==
    ASSUME NEW v, NEW w, NEW q, NEW a \in Address, a \in w => a \in v, a \in Believed(w, q)
    PROVE  a \in Believed(v, q)
  BY DEF Believed

LEMMA InformedLeave ==
    ASSUME IInv, RTypeOK, Contacts, SharedIsReused, [RNext]_rvars, NEW c \in Client, RLeave(c),
           NEW p \in PathNumber, NEW s \in ResponderAddress, Informed(p, s)
    PROVE  Informed(p, s)'
  <1>1. /\ phase[c] \in Live /\ path[c] \in PathNumber /\ path' = path /\ id' = id
        /\ c \notin announced /\ greeted' = greeted /\ view' = view
        /\ outbox' = Forgotten(outbox, {c})
    BY LeaveDepartures DEF RLeave
  <1>2. /\ room'[p].initiator = IF room[p].initiator = c THEN None ELSE room[p].initiator
        /\ \A u \in ResponderAddress : room'[p].responders[u] =
               IF p = path[c] /\ state[c] # "restricted" /\ id[c] = u
               THEN None ELSE room[p].responders[u]
    BY LeaveDepartures, DepartMembers
  <1>3. /\ outbox \in [Client -> Seq(Message)] /\ s \in Address
    BY DEF RTypeOK, Address
  <1>4. Leaving(p, s) => Leaving(p, s)'
    BY <1>1, LeaveDepartures DEF Leaving, Departing
  <1> SUFFICES ASSUME NEW i, i = room[p].initiator, i # None, i # c, i \notin deaf',
                      <<p, s>> \notin reused'
               PROVE  /\ s \in Occupied(room'[p]) => Counts(i, s)'
                      /\ Counts(i, s)' => s \in Occupied(room'[p]) \/ Leaving(p, s)'
    BY <1>2 DEF Informed, Counts, Known
  <1>5. i \in Client /\ path[i] = p /\ path'[i] = p
    BY <1>1, Members
  <1>6. outbox'[i] = outbox[i]
    BY <1>1, <1>3, <1>5 DEF Forgotten
  <1>7. /\ s \in Occupied(room[p]) => Counts(i, s)
        /\ Counts(i, s) => s \in Occupied(room[p]) \/ Leaving(p, s)
        /\ <<p, s>> \notin reused
    BY HistoryGrows DEF Informed, Counts, Known
  <1>8. CASE ~(p = path[c] /\ state[c] # "restricted" /\ id[c] = s)
    <2>1. s \in Occupied(room'[p]) <=> s \in Occupied(room[p])
      BY <1>2, <1>8 DEF Occupied
    <2>2. s \in Known(i)' <=> s \in Known(i)
      BY <1>1, <1>5, <2>1 DEF Known
    <2>3. Counts(i, s)' <=> Counts(i, s)
      BY <1>3, <1>6, <2>2, CountsSame
    <2> QED BY <1>4, <1>7, <2>1, <2>3
  <1>9. CASE p = path[c] /\ state[c] # "restricted" /\ id[c] = s
    <2>1. s \notin Occupied(room'[p])
      BY <1>2, <1>9 DEF Occupied
    <2> SUFFICES ASSUME Counts(i, s)' PROVE Leaving(p, s)'
      BY <2>1
    <2>2. s \in Known(i)' => s \in Known(i)
      BY <1>1, <1>5, <2>1 DEF Known
    <2>3. Counts(i, s)
      <3> DEFINE v == Known(i)
                 w == Known(i)'
                 q == outbox[i]
      <3>1. s \in Believed(w, q) /\ (s \in w => s \in v)
        BY <1>6, <2>2 DEF Counts
      <3>2. Counts(i, s) <=> s \in Believed(v, q)
        BY DEF Counts
      <3> HIDE DEF v, w, q
      <3> QED BY <1>3, <3>1, <3>2, BelievedMonotonic
    <2>4. CASE Leaving(p, s)
      BY <1>4, <2>4
    <2>5. CASE state[c] = "authenticated"
      <3>1. (c \in Departing(p))' /\ id'[c] = s
        BY <1>1, <1>9, <2>5, LeaveDepartures
      <3> QED BY <3>1 DEF Leaving
    <2>6. CASE s \in Occupied(room[p]) /\ state[c] # "authenticated"
      <3> DEFINE r == room[p].responders[s]
      <3>1. /\ r \in Client /\ path[r] = p /\ id[r] = s /\ phase[r] \in {"greeting", "serving"}
            /\ state[r] = "authenticated"
        BY <2>6, Members DEF Occupied
      <3>2. r # c /\ r \notin announced /\ phase[r] \in Live
        BY <2>6, <3>1 DEF Contacts, Live
      <3>3. p # 0
        BY DEF PathNumber
      <3> HIDE DEF r
      <3>4. <<p, s>> \in reused
        BY <1>1, <1>9, <3>1, <3>2, <3>3 DEF SharedIsReused
      <3> QED BY <1>7, <3>4
    <2> QED BY <1>7, <2>3, <2>4, <2>5, <2>6
  <1> QED BY <1>8, <1>9

LEMMA InformedAnnounce ==
    ASSUME IInv, RTypeOK, Contacts, SharedIsReused, [RNext]_rvars, NEW c \in Client, Announce(c),
           NEW p \in PathNumber, NEW s \in ResponderAddress, Informed(p, s)
    PROVE  Informed(p, s)'
  <1>1. UNCHANGED <<room, path, id, state, phase>> /\ view' = view /\ greeted' = greeted
    BY MessageSteps DEF Announce, vars
  <1>2. /\ phase[c] \in {"leaving", "full"} /\ c \notin announced /\ path[c] \in PathNumber
    BY PathOf DEF Announce
  <1>3. /\ outbox \in [Client -> Seq(Message)] /\ s \in Address
    BY DEF RTypeOK, Address
  <1> SUFFICES ASSUME NEW i, i = room[p].initiator, i # None, i \notin deaf', <<p, s>> \notin reused'
               PROVE  /\ s \in Occupied(room[p]) => Counts(i, s)'
                      /\ Counts(i, s)' => s \in Occupied(room[p]) \/ Leaving(p, s)'
    BY <1>1 DEF Informed, Counts, Known
  <1>4. i \in Client /\ path[i] = p /\ i \notin deaf /\ outbox[i] \in Seq(Message)
    BY <1>3, Members, HistoryGrows
  <1>5. Known(i)' = Known(i)
    BY <1>1 DEF Known
  <1>6. /\ s \in Occupied(room[p]) => Counts(i, s)
        /\ Counts(i, s) => s \in Occupied(room[p]) \/ Leaving(p, s)
        /\ <<p, s>> \notin reused
    BY HistoryGrows DEF Informed, Counts, Known
  <1>7. CASE c \in Departing(p) /\ id[c] = s
    <2>1. /\ path[c] = p /\ state[c] = "authenticated" /\ phase[c] = "leaving"
      BY <1>7 DEF Departing
    <2>2. ~Empty(room[p])
      BY <1>7 DEF Empty
    <2>3. outbox'[i] = Append(outbox[i], Disconnected(s))
      BY <1>3, <1>4, <1>7, <2>1, <2>2 DEF Announce, Enqueued
    <2>4. ~Counts(i, s)'
      <3>1. /\ Disconnected(s) \in Message /\ Disconnected(s).id = s
            /\ Disconnected(s).type = "disconnected"
        BY MessageIds DEF Disconnected
      <3> QED BY <1>3, <1>4, <1>5, <2>3, <3>1, CountsAppend
    <2>5. s \notin Occupied(room[p])
      <3> SUFFICES ASSUME s \in Occupied(room[p]) PROVE FALSE
        OBVIOUS
      <3> DEFINE r == room[p].responders[s]
      <3>1. /\ r \in Client /\ path[r] = p /\ id[r] = s /\ phase[r] \in {"greeting", "serving"}
        BY Members DEF Occupied
      <3>2. r # c /\ r \notin announced /\ phase[r] \in Live /\ p # 0
        BY <2>1, <3>1 DEF Contacts, Live, PathNumber
      <3> HIDE DEF r
      <3>3. <<p, s>> \in reused
        BY <1>2, <1>7, <2>1, <3>1, <3>2 DEF SharedIsReused
      <3> QED BY <1>6, <3>3
    <2> QED BY <2>4, <2>5
  <1>8. CASE ~(c \in Departing(p) /\ id[c] = s)
    <2>1. Leaving(p, s) => Leaving(p, s)'
      BY <1>1, <1>8, AnnounceDepartures DEF Leaving, Departing
    <2>2. CASE outbox'[i] = outbox[i]
      BY <1>3, <1>5, <1>6, <2>1, <2>2, CountsSame
    <2>3. CASE outbox'[i] # outbox[i]
      <3>1. /\ state[c] = "authenticated" /\ id[c] \in ResponderAddress
            /\ i = room[path[c]].initiator
            /\ outbox'[i] = Append(outbox[i], Disconnected(id[c]))
        BY <1>3, <1>4, <2>3 DEF Announce, Enqueued
      <3>2. path[c] = p
        <4> DEFINE q == path[c]
        <4>1. room[q].initiator # None => path[room[q].initiator] = q
          BY <1>2, Members
        <4> HIDE DEF q
        <4>2. path[c] = q
          BY DEF q
        <4> QED BY <1>4, <3>1, <4>1, <4>2
      <3>3. phase[c] = "leaving"
        BY <1>2, <3>1 DEF Contacts
      <3>4. id[c] # s
        BY <1>2, <1>8, <3>1, <3>2, <3>3 DEF Departing
      <3>5. Disconnected(id[c]) \in Message /\ Disconnected(id[c]).id = id[c]
        BY <3>1, MessageIds DEF Disconnected
      <3>6. Counts(i, s)' <=> Counts(i, s)
        BY <1>3, <1>4, <1>5, <3>1, <3>4, <3>5, CountsAppend
      <3> QED BY <1>6, <2>1, <3>6
    <2> QED BY <2>2, <2>3
  <1> QED BY <1>7, <1>8

LEMMA InformedKept ==
    ASSUME IInv, RTypeOK, Contacts, GatheredTypes, SharedIsReused, InitiatorInformed, [RNext]_rvars
    PROVE  InitiatorInformed'
  <1>1. ASSUME RCloseProtocols, NEW p \in PathNumber, NEW s \in ResponderAddress
        PROVE  Informed(p, s)'
    BY <1>1, SweptEmpty DEF RCloseProtocols, EmptyRoom, IInv, Informed
  <1>2. ASSUME NEW p \in PathNumber, NEW s \in ResponderAddress
        PROVE  Informed(p, s)'
    <2>1. Informed(p, s)
      BY InformedEverywhere
    <2> QED BY <1>1, <2>1, InformedQuiet, InformedAuthInitiator, InformedAuthResponder, InformedDrop,
               InformedLeave, InformedAnnounce DEF RNext, Quiet
  <1> QED BY <1>2 DEF InitiatorInformed, Informed, Counts

---------------------------------------------------------------------------
(* What the responders are told.                                           *)

\* The initiator is the last thing that r is told of in what has been enqueued.
Enlisted(r) == InitiatorAddress \in Believed(view[r], outbox[r])

\* Nothing in g is for r, or g[k] is the last that is.
NotFor(g, r) == \A n \in DOMAIN g : r \notin g[n].to
LastFor(g, r, k) == r \in g[k].to /\ \A n \in DOMAIN g : n > k => r \notin g[n].to

LEMMA WillKnowSplit ==
    ASSUME NEW r
    PROVE  WillKnow(r) <=>
               \/ NotFor(gathered, r) /\ Enlisted(r)
               \/ \E k \in DOMAIN gathered :
                      LastFor(gathered, r, k) /\ gathered[k].message = NewInitiator
  BY DEF WillKnow, NotFor, LastFor, Enlisted, FinalView

LEMMA WillKnowSplitNext ==
    ASSUME NEW r
    PROVE  WillKnow(r)' <=>
               \/ NotFor(gathered', r) /\ Enlisted(r)'
               \/ \E k \in DOMAIN gathered' :
                      LastFor(gathered', r, k) /\ gathered'[k].message = NewInitiator
  BY DEF WillKnow, NotFor, LastFor, Enlisted, FinalView

LEMMA EnlistedSame ==
    ASSUME NEW r, outbox'[r] = outbox[r], view'[r] = view[r]
    PROVE  Enlisted(r)' <=> Enlisted(r)
  BY DEF Enlisted

LEMMA EnlistedAppend ==
    ASSUME NEW r, NEW m \in Message, outbox[r] \in Seq(Message),
           outbox'[r] = Append(outbox[r], m), view'[r] = view[r]
    PROVE  Enlisted(r)' <=> IF m.id = InitiatorAddress THEN m.type # "disconnected" ELSE Enlisted(r)
  <1> DEFINE q == outbox[r]
             v == view[r]
  <1>1. Enlisted(r) <=> InitiatorAddress \in Believed(v, q)
    BY DEF Enlisted
  <1>2. Enlisted(r)' <=> InitiatorAddress \in Believed(v, Append(q, m))
    BY DEF Enlisted
  <1>3. q \in Seq(Message) /\ InitiatorAddress \in Address
    BY DEF Address
  <1> HIDE DEF q, v
  <1> QED BY <1>1, <1>2, <1>3, BelievedAppend

LEMMA WillKnowSame ==
    ASSUME NEW r, gathered' = gathered, Enlisted(r)' <=> Enlisted(r)
    PROVE  WillKnow(r)' <=> WillKnow(r)
  BY WillKnowSplit, WillKnowSplitNext

LEMMA WillKnowAppend ==
    ASSUME NEW r, gathered \in Seq(Entry), NEW e \in Entry, gathered' = Append(gathered, e),
           Enlisted(r)' <=> Enlisted(r)
    PROVE  WillKnow(r)' <=> IF r \in e.to THEN e.message = NewInitiator ELSE WillKnow(r)
  <1> DEFINE g == gathered
             h == gathered'
             l == Len(gathered)
  <1>1. /\ l \in Nat /\ DOMAIN g = 1 .. l /\ DOMAIN h = 1 .. l + 1
        /\ h[l + 1] = e /\ \A n \in 1 .. l : h[n] = g[n]
    OBVIOUS
  <1> HIDE DEF g, h, l
  <1>2. CASE r \in e.to
    <2>1. LastFor(h, r, l + 1)
      BY <1>1, <1>2 DEF LastFor
    <2>2. \A k \in DOMAIN h : LastFor(h, r, k) => k = l + 1
      BY <1>1, <1>2 DEF LastFor
    <2>3. ~NotFor(h, r)
      BY <1>1, <1>2 DEF NotFor
    <2> QED BY <1>1, <1>2, <2>1, <2>2, <2>3, WillKnowSplitNext DEF h
  <1>3. CASE r \notin e.to
    <2>1. NotFor(h, r) <=> NotFor(g, r)
      BY <1>1, <1>3 DEF NotFor
    <2>2. \A k \in DOMAIN g : LastFor(h, r, k) <=> LastFor(g, r, k)
      BY <1>1, <1>3 DEF LastFor
    <2>3. \A k \in DOMAIN h : LastFor(h, r, k) => k \in DOMAIN g
      BY <1>1, <1>3 DEF LastFor
    <2>4. WillKnow(r)' <=> \/ NotFor(h, r) /\ Enlisted(r)'
                           \/ \E k \in DOMAIN h : LastFor(h, r, k) /\ h[k].message = NewInitiator
      BY WillKnowSplitNext DEF h
    <2>5. WillKnow(r) <=> \/ NotFor(g, r) /\ Enlisted(r)
                          \/ \E k \in DOMAIN g : LastFor(g, r, k) /\ g[k].message = NewInitiator
      BY WillKnowSplit DEF g
    <2> QED BY <1>1, <1>3, <2>1, <2>2, <2>3, <2>4, <2>5
  <1> QED BY <1>2, <1>3

\* What is told of what was gathered was counted already.
LEMMA WillKnowTold ==
    ASSUME RTypeOK, GatheredTypes, NEW c, TellAll(c), NEW r \in Client, r \notin deaf
    PROVE  WillKnow(r)' <=> WillKnow(r)
  <1> DEFINE g == gathered
             h == gathered'
             l == Len(gathered)
             m == Head(gathered).message
  <1>1. g \in Seq(Entry) /\ g # <<>> /\ h = Tail(g)
    BY DEF RTypeOK, Entry, TellAll
  <1>2. /\ l \in Nat /\ l >= 1 /\ DOMAIN g = 1 .. l /\ DOMAIN h = 1 .. l - 1
        /\ Head(g) = g[1] /\ \A n \in 1 .. l - 1 : h[n] = g[n + 1]
    BY <1>1
  <1>3. m \in {NewInitiator, Disconnected(InitiatorAddress)} /\ g[1].message = m
    BY <1>2 DEF GatheredTypes
  <1>4. /\ r \in g[1].to => outbox'[r] = Append(outbox[r], m)
        /\ r \notin g[1].to => outbox'[r] = outbox[r]
        /\ view'[r] = view[r] /\ outbox[r] \in Seq(Message)
    BY <1>2 DEF TellAll, RTypeOK
  <1> HIDE DEF g, h, l, m
  <1>5. r \in g[1].to => (Enlisted(r)' <=> m = NewInitiator)
    <2>1. m \in Message /\ m.id = InitiatorAddress /\ (m = NewInitiator <=> m.type # "disconnected")
      BY <1>3, MessageIds DEF NewInitiator, Disconnected
    <2> QED BY <1>4, <2>1, EnlistedAppend
  <1>6. r \notin g[1].to => (Enlisted(r)' <=> Enlisted(r))
    BY <1>4, EnlistedSame
  <1>7. NotFor(g, r) <=> r \notin g[1].to /\ NotFor(h, r)
    <2>1. ASSUME NotFor(g, r), NEW n \in DOMAIN h PROVE r \notin h[n].to
      <3>1. n + 1 \in DOMAIN g /\ h[n] = g[n + 1]
        BY <1>2
      <3> QED BY <2>1, <3>1 DEF NotFor
    <2>2. ASSUME r \notin g[1].to, NotFor(h, r), NEW n \in DOMAIN g PROVE r \notin g[n].to
      <3>1. n # 1 => n - 1 \in DOMAIN h /\ h[n - 1] = g[n]
        BY <1>2
      <3> QED BY <2>2, <3>1 DEF NotFor
    <2>3. 1 \in DOMAIN g
      BY <1>2
    <2> QED BY <2>1, <2>2, <2>3 DEF NotFor
  <1>8. LastFor(g, r, 1) <=> r \in g[1].to /\ NotFor(h, r)
    <2>1. ASSUME LastFor(g, r, 1), NEW n \in DOMAIN h PROVE r \notin h[n].to
      <3>1. n + 1 \in DOMAIN g /\ h[n] = g[n + 1] /\ n + 1 > 1
        BY <1>2
      <3> QED BY <2>1, <3>1 DEF LastFor
    <2>2. ASSUME NotFor(h, r), NEW n \in DOMAIN g, n > 1 PROVE r \notin g[n].to
      <3>1. n - 1 \in DOMAIN h /\ h[n - 1] = g[n]
        BY <1>2, <2>2
      <3> QED BY <2>2, <3>1 DEF NotFor
    <2> QED BY <2>1, <2>2 DEF LastFor, NotFor
  <1>9. ASSUME NEW k \in DOMAIN h
        PROVE  /\ k + 1 \in DOMAIN g /\ g[k + 1] = h[k]
               /\ LastFor(h, r, k) <=> LastFor(g, r, k + 1)
    <2>1. k + 1 \in DOMAIN g /\ h[k] = g[k + 1] /\ k \in Nat
      BY <1>2
    <2>2. ASSUME LastFor(h, r, k), NEW n \in DOMAIN g, n > k + 1 PROVE r \notin g[n].to
      <3>1. n - 1 \in DOMAIN h /\ n - 1 > k /\ h[n - 1] = g[n]
        BY <1>2, <2>1, <2>2
      <3> QED BY <2>2, <3>1 DEF LastFor
    <2>3. ASSUME LastFor(g, r, k + 1), NEW n \in DOMAIN h, n > k PROVE r \notin h[n].to
      <3>1. n + 1 \in DOMAIN g /\ n + 1 > k + 1 /\ h[n] = g[n + 1]
        BY <1>2, <2>1, <2>3
      <3> QED BY <2>3, <3>1 DEF LastFor
    <2> QED BY <2>1, <2>2, <2>3 DEF LastFor
  <1>10. \A k \in DOMAIN g : k = 1 \/ \E n \in DOMAIN h : k = n + 1
    <2>1. ASSUME NEW k \in DOMAIN g, k # 1 PROVE k - 1 \in DOMAIN h /\ k = (k - 1) + 1
      BY <1>2, <2>1
    <2> QED BY <2>1
  <1>11. 1 \in DOMAIN g
    BY <1>2
  <1>12. WillKnow(r)' <=> \/ NotFor(h, r) /\ Enlisted(r)'
                          \/ \E k \in DOMAIN h : LastFor(h, r, k) /\ h[k].message = NewInitiator
    BY WillKnowSplitNext DEF h
  <1>13. WillKnow(r) <=> \/ NotFor(g, r) /\ Enlisted(r)
                         \/ \E k \in DOMAIN g : LastFor(g, r, k) /\ g[k].message = NewInitiator
    BY WillKnowSplit DEF g
  <1>14. (\E k \in DOMAIN g : LastFor(g, r, k) /\ g[k].message = NewInitiator) <=>
             \/ LastFor(g, r, 1) /\ m = NewInitiator
             \/ \E k \in DOMAIN h : LastFor(h, r, k) /\ h[k].message = NewInitiator
    BY <1>3, <1>9, <1>10, <1>11
  <1> QED BY <1>5, <1>6, <1>7, <1>8, <1>12, <1>13, <1>14

\* ResponderInformed for one responder.
Warned(p, r) ==
    <<p, InitiatorAddress>> \notin reused /\ r \in Responders(p) /\ r \notin deaf =>
        /\ room[p].initiator # None => WillKnow(r)
        /\ WillKnow(r) => room[p].initiator # None \/ Leaving(p, InitiatorAddress)

LEMMA WarnedSame ==
    ASSUME [RNext]_rvars, NEW p \in PathNumber, NEW r \in Client, Warned(p, r),
           r \in Responders(p)' => r \in Responders(p),
           r \in Responders(p)' /\ r \notin deaf' => (WillKnow(r)' <=> WillKnow(r)),
           room'[p].initiator = room[p].initiator,
           Leaving(p, InitiatorAddress) => Leaving(p, InitiatorAddress)'
    PROVE  Warned(p, r)'
  BY HistoryGrows DEF Warned

LEMMA WarnedQuiet ==
    ASSUME IInv, RTypeOK, Contacts, GatheredTypes, [RNext]_rvars, Quiet,
           NEW p \in PathNumber, NEW r \in Client, Warned(p, r)
    PROVE  Warned(p, r)'
  <1>1. /\ SameMembers(p) /\ Responders(p)' = Responders(p)
        /\ Leaving(p, InitiatorAddress) <=> Leaving(p, InitiatorAddress)'
    BY QuietKeeps, SameResponders, SameLeaving
  <1> SUFFICES ASSUME r \in Responders(p), r \notin deaf'
               PROVE  WillKnow(r)' <=> WillKnow(r)
    BY <1>1, WarnedSame DEF SameMembers
  <1>2. /\ id[r] \in ResponderAddress /\ phase[r] \in {"greeting", "serving"}
        /\ r \in greeted /\ r \notin deaf
    BY Members, HistoryGrows DEF Contacts
  <1>3. /\ outbox \in [Client -> Seq(Message)] /\ view \in [Client -> SUBSET Address]
        /\ InitiatorAddress \in Address
    BY DEF RTypeOK, Address
  <1>4. CASE \/ \E c \in Client, k \in Key : RConnect(c, k)
             \/ \E c \in Client : \/ RHandshakeDone(c) \/ RSlotsFull(c) \/ ConnectionLost(c)
                                  \/ RelaySent(c) \/ RUnregister(c)
             \/ RClose \/ UNCHANGED rvars
    <2>1. UNCHANGED <<view, outbox, gathered>>
      BY <1>4 DEF RConnect, RHandshakeDone, RSlotsFull, ConnectionLost, RelaySent, RUnregister,
                  RClose, rvars, relayVars
    <2> QED BY <2>1, EnlistedSame, WillKnowSame
  <1>5. ASSUME NEW c \in Client, TellAll(c)
        PROVE  WillKnow(r)' <=> WillKnow(r)
    BY <1>2, <1>5, WillKnowTold
  <1>6. ASSUME NEW c \in Client, Relay(c) \/ RelayFailed(c)
        PROVE  WillKnow(r)' <=> WillKnow(r)
    <2>1. outbox' \in {outbox, Enqueued(outbox, c, SendError)} /\ UNCHANGED <<view, gathered>>
      BY <1>6 DEF Relay, RelayFailed
    <2>2. outbox'[r] \in {outbox[r], Append(outbox[r], SendError)} /\ outbox[r] \in Seq(Message)
      BY <1>3, <2>1 DEF Enqueued
    <2>3. SendError \in Message /\ SendError.id # InitiatorAddress
      BY <1>3, MessageIds
    <2>4. CASE outbox'[r] = outbox[r]
      BY <2>1, <2>4, EnlistedSame, WillKnowSame
    <2>5. CASE outbox'[r] = Append(outbox[r], SendError)
      <3>1. Enlisted(r)' <=> Enlisted(r)
        BY <2>1, <2>2, <2>3, <2>5, EnlistedAppend
      <3> QED BY <2>1, <3>1, WillKnowSame
    <2> QED BY <2>2, <2>4, <2>5
  <1>7. ASSUME NEW c \in Client, ServerAuth(c)
        PROVE  WillKnow(r)' <=> WillKnow(r)
    <2>1. c # r /\ UNCHANGED <<outbox, gathered>> /\ view'[r] = view[r]
      BY <1>2, <1>3, <1>7 DEF ServerAuth
    <2> QED BY <2>1, EnlistedSame, WillKnowSame
  <1>8. ASSUME NEW c \in Client, Deliver(c)
        PROVE  WillKnow(r)' <=> WillKnow(r)
    <2>1. gathered' = gathered
      BY <1>8 DEF Deliver
    <2>2. CASE r # c
      <3>1. outbox'[r] = outbox[r] /\ view'[r] = view[r]
        BY <1>3, <1>8, <2>2 DEF Deliver
      <3> QED BY <2>1, <3>1, EnlistedSame, WillKnowSame
    <2>3. CASE r = c
      <3> DEFINE q == outbox[r]
                 v == view[r]
      <3>1. q \in Seq(Message) /\ q # <<>> /\ outbox'[r] = Tail(q) /\ view'[r] = Apply(v, Head(q))
        BY <1>3, <1>8, <2>3 DEF Deliver
      <3>2. Enlisted(r) <=> InitiatorAddress \in Believed(v, q)
        BY DEF Enlisted
      <3>3. Enlisted(r)' <=> InitiatorAddress \in Believed(Apply(v, Head(q)), Tail(q))
        BY <3>1 DEF Enlisted
      <3> HIDE DEF q, v
      <3> QED BY <1>3, <2>1, <3>1, <3>2, <3>3, BelievedDeliver, WillKnowSame
    <2> QED BY <2>2, <2>3
  <1> QED BY <1>4, <1>5, <1>6, <1>7, <1>8 DEF Quiet

LEMMA WarnedAuthInitiator ==
    ASSUME IInv, RTypeOK, [RNext]_rvars, NEW c \in Client, RAuthInitiator(c),
           NEW p \in PathNumber, NEW r \in Client, Warned(p, r)
    PROVE  Warned(p, r)'
  <1>1. /\ AuthInitiator(c) /\ announced' = announced /\ view' = view
        /\ path[c] \in PathNumber
    BY InitiatorMembers DEF RAuthInitiator
  <1>2. /\ Leaving(p, InitiatorAddress) <=> Leaving(p, InitiatorAddress)'
        /\ Responders(p)' = Responders(p)
    BY <1>1, AuthDepartures, SameLeaving, InitiatorMembers, SameResponders
  <1>3. CASE r \notin Responders(p)
    BY <1>2, <1>3 DEF Warned
  <1>4. CASE r \in Responders(p)
    <2>1. /\ path[r] = p /\ r # room[path[c]].initiator
      BY <1>1, <1>4, Members, MessageIds, PathsAssumption
    <2>2. outbox'[r] = outbox[r]
      BY <2>1 DEF RAuthInitiator, Forgotten, RTypeOK
    <2>3. Enlisted(r)' <=> Enlisted(r)
      BY <1>1, <2>2, EnlistedSame
    <2> DEFINE e == [by |-> c, message |-> NewInitiator, to |-> Responders(path[c])]
    <2>4. Responders(path[c]) = {} \/ gathered' = Append(gathered, e)
      BY DEF RAuthInitiator, Gather, Audience
    <2>5. Responders(path[c]) = {} => gathered' = gathered
      BY DEF RAuthInitiator, Gather, Audience
    <2>6. gathered \in Seq(Entry) /\ e \in Entry
      BY <1>1, Members, MessageIds DEF RTypeOK, Entry
    <2>7. CASE p = path[c]
      <3>1. r \in e.to /\ e.message = NewInitiator /\ gathered' = Append(gathered, e)
        BY <1>4, <2>4, <2>7
      <3> HIDE DEF e
      <3>2. WillKnow(r)'
        BY <2>3, <2>6, <3>1, WillKnowAppend
      <3>3. room'[p].initiator # None
        BY <1>1, <2>7, InitiatorMembers, PathsAssumption
      <3> QED BY <3>2, <3>3 DEF Warned
    <2>8. CASE p # path[c]
      <3>1. r \notin e.to
        BY <1>1, <2>1, <2>8, Members
      <3> HIDE DEF e
      <3>2. WillKnow(r)' <=> WillKnow(r)
        BY <2>3, <2>4, <2>5, <2>6, <3>1, WillKnowAppend, WillKnowSame
      <3> QED BY <1>1, <1>2, <2>8, <3>2, InitiatorMembers, WarnedSame DEF SameMembers
    <2> QED BY <2>7, <2>8
  <1> QED BY <1>3, <1>4

LEMMA WarnedAuthResponder ==
    ASSUME IInv, RTypeOK, Contacts, [RNext]_rvars, NEW c \in Client, RAuthResponder(c),
           NEW p \in PathNumber, NEW r \in Client, Warned(p, r)
    PROVE  Warned(p, r)'
  <1>1. /\ AuthResponder(c) /\ announced' = announced /\ gathered' = gathered
        /\ path[c] \in PathNumber /\ phase[c] = "handshake"
    BY SlotGiven DEF RAuthResponder
  <1>2. /\ Leaving(p, InitiatorAddress) <=> Leaving(p, InitiatorAddress)'
        /\ room'[p].initiator = room[p].initiator
    BY <1>1, AuthDepartures, SameLeaving, ResponderMembers DEF SameMembers
  <1>3. /\ outbox \in [Client -> Seq(Message)] /\ view \in [Client -> SUBSET Address]
        /\ InitiatorAddress \in Address
    BY DEF RTypeOK, Address
  <1>4. Responders(p)' \subseteq Responders(p) \cup {c}
    BY <1>1, ResponderMembers, SameResponders
  <1>5. p # path[c] => Responders(p)' = Responders(p)
    BY <1>1, ResponderMembers, SameResponders
  <1>6. CASE r = c
    <2>1. c \notin Responders(p)
      BY <1>1, Members
    <2>2. CASE p # path[c]
      BY <1>5, <1>6, <2>1, <2>2 DEF Warned
    <2>3. CASE p = path[c]
      <3>1. outbox[c] = <<>> /\ \A k \in DOMAIN gathered : c \notin gathered[k].to
        BY <1>1 DEF Contacts
      <3>2. c # room[path[c]].initiator
        BY <1>1, Members, PathsAssumption
      <3>3. outbox'[c] = <<>>
        BY <1>3, <3>1, <3>2 DEF RAuthResponder, Enqueued
      <3>4. view'[c] = IF room[p].initiator = None THEN {} ELSE {InitiatorAddress}
        BY <1>3, <2>3 DEF RAuthResponder
      <3>5. Enlisted(c)' <=> room[p].initiator # None
        <4> DEFINE v == view'[c]
        <4>1. Enlisted(c)' <=> InitiatorAddress \in Believed(v, <<>>)
          BY <3>3 DEF Enlisted
        <4> HIDE DEF v
        <4>2. Enlisted(c)' <=> InitiatorAddress \in v
          BY <1>3, <4>1, BelievedEmpty
        <4> QED BY <3>4, <4>2 DEF v
      <3>6. WillKnow(c)' <=> Enlisted(c)'
        BY <1>1, <3>1, WillKnowSplitNext DEF NotFor, LastFor
      <3> QED BY <1>2, <1>6, <3>5, <3>6 DEF Warned
    <2> QED BY <2>2, <2>3
  <1>7. CASE r # c
    <2>1. ASSUME r \in Responders(p)
          PROVE  WillKnow(r)' <=> WillKnow(r)
      <3>1. r # room[path[c]].initiator
        BY <1>1, <2>1, Members, MessageIds, PathsAssumption
      <3>2. outbox'[r] = outbox[r] /\ view'[r] = view[r]
        BY <1>3, <1>7, <3>1 DEF RAuthResponder, Enqueued
      <3> QED BY <1>1, <3>2, EnlistedSame, WillKnowSame
    <2> QED BY <1>2, <1>4, <1>7, <2>1, WarnedSame
  <1> QED BY <1>6, <1>7

LEMMA WarnedDrop ==
    ASSUME IInv, RTypeOK, [RNext]_rvars,
           NEW j \in Client, NEW t \in ResponderAddress, RDropResponder(j, t),
           NEW p \in PathNumber, NEW r \in Client, Warned(p, r)
    PROVE  Warned(p, r)'
  <1> DEFINE c == room[path[j]].responders[t]
  <1>1. /\ DropResponder(j, t) /\ gathered' = gathered
        /\ outbox' = Forgotten(outbox, {c}) /\ view' = [view EXCEPT ![j] = @ \ {t}]
    BY DEF RDropResponder
  <1>2. /\ path[j] \in PathNumber /\ room[path[j]].initiator = j
        /\ c \in Client /\ path[c] = path[j] /\ id[c] = t
        /\ room'[p].initiator = room[p].initiator
        /\ \A u \in ResponderAddress : room'[p].responders[u] =
               IF p = path[j] /\ u = t THEN None ELSE room[p].responders[u]
    BY <1>1, DropMembers
  <1>3. Leaving(p, InitiatorAddress) <=> Leaving(p, InitiatorAddress)'
    BY DropDepartures, SameLeaving
  <1>4. outbox \in [Client -> Seq(Message)] /\ view \in [Client -> SUBSET Address]
    BY DEF RTypeOK
  <1> HIDE DEF c
  <1>5. Responders(p)' \subseteq Responders(p)
    BY <1>2 DEF Responders, Occupied
  <1>6. ASSUME r \in Responders(p)'
        PROVE  WillKnow(r)' <=> WillKnow(r)
    <2>1. PICK u \in ResponderAddress : u \in Occupied(room'[p]) /\ r = room'[p].responders[u]
      BY <1>6 DEF Responders, Occupied
    <2>2. r = room[p].responders[u] /\ r # None /\ ~(p = path[j] /\ u = t)
      BY <1>2, <2>1 DEF Occupied
    <2>3. r # c
      BY <1>2, <2>2, Members
    <2>4. r # j
      BY <1>2, <2>2, Members, MessageIds, PathsAssumption
    <2>5. outbox'[r] = outbox[r] /\ view'[r] = view[r]
      BY <1>1, <1>4, <2>3, <2>4 DEF Forgotten
    <2> QED BY <1>1, <2>5, EnlistedSame, WillKnowSame
  <1> QED BY <1>2, <1>3, <1>5, <1>6, WarnedSame

LEMMA WarnedLeave ==
    ASSUME IInv, RTypeOK, Contacts, [RNext]_rvars, NEW c \in Client, RLeave(c),
           NEW p \in PathNumber, NEW r \in Client, Warned(p, r)
    PROVE  Warned(p, r)'
  <1>1. /\ phase[c] \in Live /\ path[c] \in PathNumber /\ path' = path /\ id' = id
        /\ c \notin announced /\ view' = view /\ gathered' = gathered
        /\ outbox' = Forgotten(outbox, {c})
    BY LeaveDepartures DEF RLeave
  <1>2. /\ room'[p].initiator = IF room[p].initiator = c THEN None ELSE room[p].initiator
        /\ \A u \in ResponderAddress : room'[p].responders[u] =
               IF p = path[c] /\ state[c] # "restricted" /\ id[c] = u
               THEN None ELSE room[p].responders[u]
    BY LeaveDepartures, DepartMembers
  <1>3. Leaving(p, InitiatorAddress) => Leaving(p, InitiatorAddress)'
    BY <1>1, LeaveDepartures DEF Leaving, Departing
  <1>4. Responders(p)' \subseteq Responders(p)
    BY <1>2 DEF Responders, Occupied
  <1>5. ASSUME r \in Responders(p)'
        PROVE  WillKnow(r)' <=> WillKnow(r)
    <2>1. PICK u \in ResponderAddress : u \in Occupied(room'[p]) /\ r = room'[p].responders[u]
      BY <1>5 DEF Responders, Occupied
    <2>2. /\ r = room[p].responders[u] /\ r # None
          /\ ~(p = path[c] /\ state[c] # "restricted" /\ id[c] = u)
      BY <1>2, <2>1 DEF Occupied
    <2>3. r # c
      BY <2>2, Members
    <2>4. outbox'[r] = outbox[r] /\ view'[r] = view[r]
      BY <1>1, <2>3 DEF Forgotten, RTypeOK
    <2> QED BY <1>1, <2>4, EnlistedSame, WillKnowSame
  <1>6. CASE room[p].initiator # c
    BY <1>2, <1>3, <1>4, <1>5, <1>6, WarnedSame
  <1>7. CASE room[p].initiator = c
    <2>1. path[c] = p /\ id[c] = InitiatorAddress /\ state[c] = "authenticated"
      BY <1>7, Members, PathsAssumption
    <2>2. (c \in Departing(p))' /\ id'[c] = InitiatorAddress
      BY <1>1, <2>1, LeaveDepartures
    <2>3. Leaving(p, InitiatorAddress)'
      BY <2>2 DEF Leaving
    <2>4. room'[p].initiator = None
      BY <1>2, <1>7
    <2> QED BY <2>3, <2>4 DEF Warned
  <1> QED BY <1>6, <1>7

LEMMA WarnedAnnounce ==
    ASSUME IInv, RTypeOK, Contacts, SharedIsReused, [RNext]_rvars, NEW c \in Client, Announce(c),
           NEW p \in PathNumber, NEW r \in Client, Warned(p, r)
    PROVE  Warned(p, r)'
  <1>1. UNCHANGED <<room, path, id, state, phase>> /\ view' = view
    BY MessageSteps DEF Announce, vars
  <1>2. /\ phase[c] \in {"leaving", "full"} /\ c \notin announced /\ path[c] \in PathNumber
    BY PathOf DEF Announce
  <1>3. CASE r \notin Responders(p)
    BY <1>1, <1>3 DEF Warned, Responders, Occupied
  <1>4. CASE r \in Responders(p)
    <2>1. path[r] = p /\ r # room[path[c]].initiator
      BY <1>2, <1>4, Members, MessageIds, PathsAssumption
    <2>2. outbox'[r] = outbox[r]
      BY <2>1 DEF Announce, Enqueued, RTypeOK
    <2>3. Enlisted(r)' <=> Enlisted(r)
      BY <1>1, <2>2, EnlistedSame
    <2> DEFINE e == [by |-> c, message |-> Disconnected(InitiatorAddress),
                     to |-> Responders(path[c])]
               says == ~Empty(room[path[c]]) /\ state[c] = "authenticated"
    <2>4. gathered \in Seq(Entry) /\ e \in Entry
      BY <1>2, Members, MessageIds DEF RTypeOK, Entry
    <2>5. e.message # NewInitiator
      BY DEF NewInitiator, Disconnected
    <2>6. gathered' = gathered \/ (gathered' = Append(gathered, e) /\ says /\ id[c] = InitiatorAddress)
      BY DEF Announce, Gather
    <2>7. CASE p = path[c] /\ says /\ id[c] = InitiatorAddress
      <3>1. r \in e.to /\ gathered' = Append(gathered, e)
        BY <1>4, <2>7 DEF Announce, Gather
      <3> HIDE DEF e
      <3>2. ~WillKnow(r)'
        BY <2>3, <2>4, <2>5, <3>1, WillKnowAppend
      <3>3. c \in Departing(p)
        BY <1>2, <2>7 DEF Departing, Contacts
      <3>4. room[p].initiator # None => <<p, InitiatorAddress>> \in reused
        BY <2>7, <3>3 DEF SharedIsReused, Leaving
      <3> QED BY <1>1, <3>2, <3>4, HistoryGrows DEF Warned
    <2>8. CASE ~(p = path[c] /\ says /\ id[c] = InitiatorAddress)
      <3>1. WillKnow(r)' <=> WillKnow(r)
        <4>1. CASE gathered' = gathered
          BY <2>3, <4>1, WillKnowSame
        <4>2. CASE gathered' = Append(gathered, e) /\ p # path[c]
          <5>1. r \notin e.to
            BY <1>2, <2>1, <4>2, Members
          <5> HIDE DEF e
          <5> QED BY <2>3, <2>4, <4>2, <5>1, WillKnowAppend
        <4> QED BY <2>6, <2>8, <4>1, <4>2
      <3>2. Leaving(p, InitiatorAddress) => Leaving(p, InitiatorAddress)'
        <4>1. ~(c \in Departing(p) /\ id[c] = InitiatorAddress)
          BY <2>8, <1>4 DEF Departing, Empty, Responders
        <4> QED BY <1>1, <4>1, AnnounceDepartures DEF Leaving, Departing
      <3> QED BY <1>1, <1>4, <3>1, <3>2, WarnedSame
    <2> QED BY <2>7, <2>8
  <1> QED BY <1>3, <1>4

LEMMA WarnedKept ==
    ASSUME IInv, IInv', RTypeOK, Contacts, GatheredTypes, SharedIsReused, ResponderInformed,
           [RNext]_rvars
    PROVE  ResponderInformed'
  <1>1. ASSUME RCloseProtocols, NEW p \in PathNumber, NEW r \in Client
        PROVE  Warned(p, r)'
    <2>1. Responders(p)' = {}
      BY <1>1, SweptEmpty DEF RCloseProtocols, EmptyRoom, NoResponders, IInv, Responders, Occupied
    <2> QED BY <2>1 DEF Warned
  <1>2. ASSUME NEW p \in PathNumber, NEW r \in Client
        PROVE  Warned(p, r)'
    <2>1. Warned(p, r)
      BY DEF ResponderInformed, Warned
    <2> QED BY <1>1, <2>1, WarnedQuiet, WarnedAuthInitiator, WarnedAuthResponder, WarnedDrop,
               WarnedLeave, WarnedAnnounce DEF RNext, Quiet
  <1>3. \A p \in PathNumber : Responders(p)' \subseteq Client
    BY DEF IInv, TypeOK, Room, Responders, Occupied
  <1> QED BY <1>2, <1>3 DEF ResponderInformed, Warned

---------------------------------------------------------------------------
(* The theorems.                                                           *)

\* A non-empty set of positions of a sequence has a last one.
LEMMA LastPosition ==
    ASSUME NEW l \in Nat, NEW T, T \subseteq 1 .. l, T # {}
    PROVE  \E k \in T : \A n \in T : ~(n > k)
  <1> DEFINE U == {l - k : k \in T}
             R == OpToRel(<, Nat)
  <1>1. U \subseteq Nat /\ U # {}
    <2>1. \A k \in T : l - k \in Nat
      OBVIOUS
    <2>2. PICK k \in T : TRUE
      OBVIOUS
    <2>3. l - k \in U
      OBVIOUS
    <2> QED BY <2>1, <2>3
  <1>2. IsWellFoundedOn(R, Nat)
    BY NatLessThanWellFounded
  <1> HIDE DEF R, U
  <1>3. PICK x \in U : \A y \in U : ~(<<y, x>> \in R)
    BY <1>1, <1>2, WFMin
  <1>4. \A y \in U : ~(y < x)
    BY <1>1, <1>3 DEF R, OpToRel
  <1>5. PICK k \in T : x = l - k
    BY DEF U
  <1>6. ASSUME NEW n \in T PROVE ~(n > k)
    <2>1. l - n \in U
      BY DEF U
    <2>2. ~(l - n < l - k)
      BY <1>4, <1>5, <2>1
    <2>3. n \in Int /\ k \in Int
      OBVIOUS
    <2> QED BY <2>2, <2>3
  <1> QED BY <1>6

LEMMA RInvInit == RInit => RInv
  <1> SUFFICES ASSUME RInit PROVE RInv
    OBVIOUS
  <1>1. /\ \A p \in PathNumber : room[p] = EmptyRoom
        /\ \A c \in Client : /\ phase[c] = "new" /\ outbox[c] = <<>> /\ view[c] = {}
                             /\ relay[c] = None
        /\ greeted = {} /\ announced = {} /\ gathered = <<>>
    BY DEF RInit, Init
  <1>2. RTypeOK
    <2>1. <<>> \in Seq(Message) /\ <<>> \in Seq([by : Client, message : Message, to : SUBSET Client])
      OBVIOUS
    <2> QED BY <2>1, RelayAssumption DEF RInit, RTypeOK
  <1>3. Contacts /\ GatheredTypes
    BY <1>1 DEF Contacts, GatheredTypes
  <1>4. SharedIsReused
    BY <1>1 DEF SharedIsReused, EmptyRoom, Live
  <1>5. InitiatorInformed
    BY <1>1 DEF InitiatorInformed, EmptyRoom
  <1>6. ResponderInformed
    BY <1>1 DEF ResponderInformed, Responders, Occupied, EmptyRoom, NoResponders
  <1> QED BY <1>2, <1>3, <1>4, <1>5, <1>6 DEF RInv

LEMMA RInvNext == IInv /\ IInv' /\ RInv /\ [RNext]_rvars => RInv'
  BY TypesKept, ContactsKept, GatheredTypesKept, SharedKept, InformedKept, WarnedKept DEF RInv

\* With their messages the clients do to the paths what SignalingPaths says, so that
\* all that is proved of it holds for the relay too.
THEOREM RelayImplementsPaths == RSpec => Spec
  <1>1. RInit => Init
    BY DEF RInit
  <1>2. [RNext]_rvars => [Next]_vars
    BY StepOfPaths
  <1> QED BY <1>1, <1>2, PTL DEF RSpec, Spec

\* The messages of every path are in order, see RInv.
THEOREM RelayInvariant == RSpec => []RInv
  <1>1. RSpec => []IInv
    BY RelayImplementsPaths, PathsInvariant, PTL
  <1> QED BY <1>1, RInvInit, RInvNext, PTL DEF RSpec

\* An initiator that serves will have been told of exactly the responders of its path, but for
\* addresses that were given away too early, once what is in its queue has been sent.
THEOREM InitiatorIsInformed == RSpec => []InitiatorView
  <1>1. IInv /\ RInv => InitiatorView
    <2> SUFFICES ASSUME IInv, RInv, NEW p \in PathNumber, NEW s \in ResponderAddress,
                        NEW i, i = room[p].initiator, i \in Attentive(p), <<p, s>> \notin reused
                 PROVE  /\ s \in Occupied(room[p]) => s \in FinalView(i)
                        /\ s \in FinalView(i) => s \in Occupied(room[p]) \/ Leaving(p, s)
      BY DEF InitiatorView
    <2>1. i \in Client /\ i # None /\ i \notin deaf /\ i \in greeted
      BY PathsAssumption DEF Attentive, RInv, Contacts
    <2>2. Believed(Known(i), outbox[i]) = FinalView(i)
      BY <2>1 DEF Known, FinalView
    <2> QED BY <2>1, <2>2 DEF RInv, InitiatorInformed
  <1>2. RSpec => []IInv
    BY RelayImplementsPaths, PathsInvariant, PTL
  <1> QED BY <1>1, <1>2, RelayInvariant, PTL

\* A responder knows its initiator or is about to be told of it, and is about to be told when
\* there is none, unless initiators overtook each other's departure.
THEOREM ResponderIsInformed == RSpec => []ResponderView
  <1>1. IInv /\ RInv => ResponderView
    <2> SUFFICES ASSUME IInv, RInv, NEW p \in PathNumber, <<p, InitiatorAddress>> \notin reused,
                        NEW r \in Responders(p), r \in Attentive(p)
                 PROVE  LET i == room[p].initiator
                            knows == InitiatorAddress \in FinalView(r) IN
                        /\ i # None => knows \/ Awaits(r, NewInitiator)
                        /\ knows => \/ i # None \/ Leaving(p, InitiatorAddress)
                                    \/ Awaits(r, Disconnected(InitiatorAddress))
      BY DEF ResponderView
    <2> DEFINE i == room[p].initiator
               knows == InitiatorAddress \in FinalView(r)
               T == {k \in DOMAIN gathered : r \in gathered[k].to}
    <2>1. /\ i # None => WillKnow(r)
          /\ WillKnow(r) => i # None \/ Leaving(p, InitiatorAddress)
      BY DEF RInv, ResponderInformed, Attentive
    <2>2. WillKnow(r) => knows \/ Awaits(r, NewInitiator)
      BY DEF WillKnow, Awaits
    <2>3. ASSUME knows, ~WillKnow(r)
          PROVE  Awaits(r, Disconnected(InitiatorAddress))
      <3>1. T # {}
        BY <2>3 DEF WillKnow
      <3>2. T \subseteq 1 .. Len(gathered) /\ Len(gathered) \in Nat
        BY DEF RInv, RTypeOK
      <3>3. PICK k \in T : \A n \in T : ~(n > k)
        BY <3>1, <3>2, LastPosition
      <3>4. gathered[k].message # NewInitiator
        BY <2>3, <3>3 DEF WillKnow
      <3> QED BY <3>3, <3>4 DEF RInv, GatheredTypes, Awaits
    <2> QED BY <2>1, <2>2, <2>3
  <1>2. RSpec => []IInv
    BY RelayImplementsPaths, PathsInvariant, PTL
  <1> QED BY <1>1, <1>2, RelayInvariant, PTL

\* A message is relayed to an authenticated client of the same path whose handler serves
\* it, never to one that is being dropped or has left.
THEOREM RelayedToPresent == RSpec => RelayToPresent
  <1> DEFINE A == \A c \in Client : relay'[c] \notin {relay[c], None} =>
                      /\ state[relay'[c]] = "authenticated" /\ path[relay'[c]] = path[c]
                      /\ phase[relay'[c]] \in {"greeting", "serving"}
  <1>1. RInit => RelayType
    BY DEF RInit, RelayType
  <1>2. IInv /\ RelayType /\ [RNext]_rvars => RelayType'
    BY RelayTypeKept
  <1>3. IInv /\ RelayType /\ [RNext]_rvars => A
    BY RelayMoves, PeersArePresent DEF Relay
  <1>4. RSpec => []IInv
    BY RelayImplementsPaths, PathsInvariant, PTL
  <1> QED BY <1>1, <1>2, <1>3, <1>4, PTL DEF RSpec, RelayToPresent

=============================================================================

------------------------ MODULE ClientMessagesProofs ------------------------
(***************************************************************************)
(* Proofs about ClientMessages, for every size of the counters and every   *)
(* set of cookies and keys.                                                *)
(***************************************************************************)
EXTENDS ClientMessages, TLAPS

\* What is sent lies below the outgoing counter.
SentBelow == \A i \in DOMAIN sent : sent[i].csn < csnOut

\* The incoming counter is one past the last number accepted.
CsnInIsNext ==
    /\ accepted = <<>> => csnIn = None
    /\ accepted # <<>> => csnIn = accepted[Len(accepted)] + 1

\* A cookie, once there, is the client's own; there is one before a number.
CookieTaken ==
    /\ cookieIn # ServerCookie
    /\ csnIn # None => cookieIn # None

\* What each point of the flow says of the client.
FlowState ==
    /\ flow \in {"new", "hello", "auth"} => state = "restricted" /\ relayed = {}
    /\ flow \in {"new", "hello"} => clientKey = PathKey
    /\ flow = "auth" => type = "responder"
    /\ flow \in {"greeting", "serving"} => state # "restricted"

\* What has been sent at each point of the flow.
FlowSent ==
    /\ flow = "new" => sent = <<>>
    /\ flow \in {"hello", "auth", "greeting"} => Len(sent) = 1
    /\ flow = "serving" => Len(sent) >= 2

IInv == /\ TypeOK /\ SentBelow /\ NoncesFresh /\ CsnInIsNext /\ AcceptedInOrder
        /\ CookieTaken /\ FlowState /\ FlowSent /\ RoleProven /\ ServerAuthFirst

---------------------------------------------------------------------------
(* Operators                                                               *)

\* A counter goes up by one, to the sentinel at the end, and stays there.
LEMMA IncrementNext ==
    ASSUME NEW n \in Csn
    PROVE  Increment(n) = n + 1 /\ Increment(n) \in CsnOrOverflow
BY MessagesAssumption DEF Increment, Csn, CsnOrOverflow, Overflow

LEMMA IncrementType ==
    ASSUME NEW n \in CsnOrOverflow
    PROVE  Increment(n) \in CsnOrOverflow /\ Increment(n) >= n
BY MessagesAssumption DEF Increment, Csn, CsnOrOverflow, Overflow

\* None is no number.
LEMMA NoneIsNoCsn == None \notin CsnOrOverflow
BY MessagesAssumption DEF Csn, CsnOrOverflow, Overflow

\* A number that is valid is the expected one, or the first.
LEMMA ValidIsExpected ==
    ASSUME TypeOK, NEW n \in Csn, ValidCsn(n)
    PROVE  csnIn = None \/ csnIn = n
BY DEF ValidCsn

\* What has been sent is a sequence of numbered messages.
LEMMA SentTyped ==
    ASSUME TypeOK
    PROVE  /\ sent \in Seq(Sent) /\ Len(sent) \in Nat /\ DOMAIN sent = 1 .. Len(sent)
           /\ \A i \in 1 .. Len(sent) : sent[i].csn \in Csn /\ sent[i].csn \in Int
<1>1. sent \in Seq(Sent)
  BY DEF TypeOK
<1>2. Len(sent) \in Nat /\ DOMAIN sent = 1 .. Len(sent)
  BY <1>1
<1>3. \A i \in 1 .. Len(sent) : sent[i] \in Sent
  BY <1>1
<1>4. \A s \in Sent : s.csn \in Csn /\ s.csn \in Int
  BY MessagesAssumption DEF Sent, Csn
<1> QED BY <1>1, <1>2, <1>3, <1>4

---------------------------------------------------------------------------
(* Packing                                                                 *)

\* Packing keeps the numbers fresh and below the counter, whether or not the
\* message can be encrypted.
LEMMA PackFresh ==
    ASSUME TypeOK, SentBelow, NoncesFresh,
           NEW msg \in {"server-hello", "server-auth", "other"},
           NEW enc \in BOOLEAN, Pack(msg, enc)
    PROVE  /\ csnOut' \in CsnOrOverflow /\ sent' \in Seq(Sent)
           /\ SentBelow' /\ NoncesFresh'
<1>1. csnOut' \in CsnOrOverflow /\ csnOut' >= csnOut
  BY IncrementType DEF Pack, TypeOK
<1>2. CASE CanPack(enc)
  <2> DEFINE m == [csn |-> csnOut, to |-> id, message |-> msg,
                   box |-> IF enc THEN clientKey ELSE None]
  <2>1. csnOut \in Csn
    BY <1>2 DEF CanPack, TypeOK, CsnOrOverflow
  <2>2. m \in Sent
    BY <2>1 DEF Sent, TypeOK, Box
  <2>3. sent' = Append(sent, m)
    BY <1>2 DEF Pack
  <2>4. sent \in Seq(Sent)
    BY DEF TypeOK
  <2>5. m.csn = csnOut
    OBVIOUS
  <2> HIDE DEF m
  <2>6. sent' \in Seq(Sent)
    BY <2>2, <2>3, <2>4
  <2>7. /\ DOMAIN sent' = 1 .. Len(sent) + 1
        /\ \A i \in 1 .. Len(sent) : sent'[i] = sent[i]
        /\ sent'[Len(sent) + 1] = m
    BY <2>2, <2>3, <2>4
  <2>8. csnOut' = csnOut + 1 /\ csnOut \in Int
    BY <2>1, IncrementNext DEF Pack, Csn
  <2>9. SentBelow'
    <3>1. ASSUME NEW i \in 1 .. Len(sent) + 1
          PROVE  sent'[i].csn < csnOut'
      <4>1. CASE i = Len(sent) + 1
        BY <4>1, <2>5, <2>7, <2>8
      <4>2. CASE i \in 1 .. Len(sent)
        BY <4>2, <2>7, <2>8, SentTyped DEF SentBelow
      <4> QED BY <4>1, <4>2, SentTyped
    <3> QED BY <3>1, <2>7 DEF SentBelow
  <2>10. NoncesFresh'
    <3> SUFFICES ASSUME NEW i \in 1 .. Len(sent) + 1, NEW k \in 1 .. Len(sent) + 1,
                        i # k
                 PROVE  sent'[i].csn # sent'[k].csn
      BY <2>7 DEF NoncesFresh
    <3>1. CASE i # Len(sent) + 1 /\ k # Len(sent) + 1
      <4>1. i \in 1 .. Len(sent) /\ k \in 1 .. Len(sent)
        BY <3>1, SentTyped
      <4> QED BY <4>1, <2>7, SentTyped DEF NoncesFresh
    <3>2. CASE i = Len(sent) + 1
      <4>1. k \in 1 .. Len(sent)
        BY <3>2, SentTyped
      <4> QED BY <3>2, <4>1, <2>5, <2>7, <2>8, SentTyped DEF SentBelow
    <3>3. CASE k = Len(sent) + 1
      <4>1. i \in 1 .. Len(sent)
        BY <3>3, SentTyped
      <4> QED BY <3>3, <4>1, <2>5, <2>7, <2>8, SentTyped DEF SentBelow
    <3> QED BY <3>1, <3>2, <3>3
  <2> QED BY <1>1, <2>6, <2>9, <2>10
<1>3. CASE ~CanPack(enc)
  <2>1. sent' = sent
    BY <1>3 DEF Pack
  <2>3. csnOut \in Int /\ csnOut' \in Int
    BY <1>1, MessagesAssumption DEF TypeOK, CsnOrOverflow, Csn, Overflow
  <2>4. SentBelow'
    BY <2>1, <2>3, <1>1, SentTyped DEF SentBelow
  <2> QED BY <1>1, <2>1, <2>4 DEF NoncesFresh, TypeOK
<1> QED BY <1>2, <1>3

\* Packing appends the message or leaves what was sent alone.
LEMMA PackAppends ==
    ASSUME TypeOK, NEW msg \in {"server-hello", "server-auth", "other"},
           NEW enc \in BOOLEAN, Pack(msg, enc), ServerAuthFirst,
           msg = "server-hello" <=> ~enc,
           msg = "server-hello" => Len(sent) = 0,
           msg = "server-auth" => Len(sent) = 1,
           msg = "other" => Len(sent) >= 2
    PROVE  /\ ServerAuthFirst'
           /\ CanPack(enc) => Len(sent') = Len(sent) + 1
<1>1. CASE CanPack(enc)
  <2> DEFINE m == [csn |-> csnOut, to |-> id, message |-> msg,
                   box |-> IF enc THEN clientKey ELSE None]
  <2>1. m.message = msg /\ m.box = IF enc THEN clientKey ELSE None
    OBVIOUS
  <2>2. m \in Sent /\ sent \in Seq(Sent)
    BY <1>1 DEF CanPack, TypeOK, CsnOrOverflow, Sent, Box
  <2>3. sent' = Append(sent, m)
    BY <1>1 DEF Pack
  <2> HIDE DEF m
  <2>4. /\ DOMAIN sent' = 1 .. Len(sent) + 1 /\ DOMAIN sent = 1 .. Len(sent)
        /\ \A i \in 1 .. Len(sent) : sent'[i] = sent[i]
        /\ sent'[Len(sent) + 1] = m /\ Len(sent') = Len(sent) + 1 /\ Len(sent) \in Nat
    BY <2>2, <2>3
  <2>5. m.box = None <=> msg = "server-hello"
    BY <2>1, MessagesAssumption DEF TypeOK
  <2>6. /\ Len(sent) + 1 = 1 <=> msg = "server-hello"
        /\ Len(sent) + 1 = 2 <=> msg = "server-auth"
    BY <2>4
  <2>7. ASSUME NEW i \in 1 .. Len(sent) + 1
        PROVE  /\ sent'[i].box = None <=> i = 1
               /\ sent'[i].message = "server-auth" <=> i = 2
    <3>1. CASE i = Len(sent) + 1
      BY <3>1, <2>1, <2>4, <2>5, <2>6
    <3>2. CASE i \in 1 .. Len(sent)
      BY <3>2, <2>4 DEF ServerAuthFirst
    <3> QED BY <3>1, <3>2, <2>4
  <2> QED BY <2>4, <2>7 DEF ServerAuthFirst
<1>2. CASE ~CanPack(enc)
  BY <1>2 DEF Pack, ServerAuthFirst
<1> QED BY <1>1, <1>2

---------------------------------------------------------------------------
(* Unpacking                                                               *)

\* Taking a nonce, of an accepted or of a refused packet, keeps the order and the
\* client's cookie.
LEMMA TakeNonceKeeps ==
    ASSUME TypeOK, CsnInIsNext, AcceptedInOrder, CookieTaken,
           NEW m \in Packet, TakeNonce(m)
    PROVE  /\ cookieIn' \in Cookie \cup {None}
           /\ csnIn' \in CsnOrOverflow \cup {None}
           /\ accepted' \in Seq(Csn)
           /\ CsnInIsNext' /\ AcceptedInOrder' /\ CookieTaken'
<1> DEFINE known == Addressed(m) /\ m.destination = 0 /\ ValidCookie(m.cookie)
           taken == known /\ ValidCsn(m.csn)
<1>1. /\ cookieIn' = IF known THEN m.cookie ELSE cookieIn
      /\ csnIn' = IF taken THEN Increment(m.csn) ELSE csnIn
      /\ accepted' = IF taken THEN Append(accepted, m.csn) ELSE accepted
  BY DEF TakeNonce
<1>2. m.csn \in Csn /\ m.cookie \in Cookie
  BY DEF Packet
<1>3. known => m.cookie # ServerCookie
  BY DEF ValidCookie, CookieTaken
<1>4. taken => known /\ ValidCsn(m.csn)
  OBVIOUS
<1> HIDE DEF known, taken
<1>5. cookieIn' \in Cookie \cup {None} /\ cookieIn' # ServerCookie
  BY <1>1, <1>2, <1>3 DEF TypeOK, CookieTaken
<1>6. None # m.cookie
  BY <1>2, MessagesAssumption
<1>7. CASE taken
  <2>1. csnIn' = m.csn + 1 /\ csnIn' \in CsnOrOverflow
    BY <1>1, <1>2, <1>7, IncrementNext
  <2>2. accepted' = Append(accepted, m.csn) /\ accepted \in Seq(Csn)
    BY <1>1, <1>7 DEF TypeOK
  <2>3. /\ accepted' \in Seq(Csn) /\ Len(accepted') = Len(accepted) + 1
        /\ Len(accepted) \in Nat /\ DOMAIN accepted' = 1 .. Len(accepted) + 1
        /\ \A i \in 1 .. Len(accepted) : accepted'[i] = accepted[i]
        /\ accepted'[Len(accepted) + 1] = m.csn /\ accepted' # <<>>
        /\ DOMAIN accepted = 1 .. Len(accepted)
    BY <1>2, <2>2
  <2>4. CsnInIsNext'
    BY <2>1, <2>3 DEF CsnInIsNext
  <2>5. accepted # <<>> => m.csn = accepted[Len(accepted)] + 1
    <3> SUFFICES ASSUME accepted # <<>>
                 PROVE  m.csn = accepted[Len(accepted)] + 1
      OBVIOUS
    <3>1. csnIn = accepted[Len(accepted)] + 1 /\ accepted[Len(accepted)] \in Csn
      BY <2>2 DEF CsnInIsNext
    <3>2. csnIn # None
      BY <3>1, MessagesAssumption DEF Csn
    <3> QED BY <1>2, <1>4, <1>7, <3>1, <3>2, ValidIsExpected
  <2>6. AcceptedInOrder'
    <3> SUFFICES ASSUME NEW i \in 1 .. Len(accepted) + 1, i > 1
                 PROVE  accepted'[i] = accepted'[i - 1] + 1
      BY <2>3 DEF AcceptedInOrder
    <3>1. CASE i = Len(accepted) + 1
      <4>1. Len(accepted) >= 1 /\ accepted # <<>> /\ i - 1 = Len(accepted)
        BY <3>1, <2>2, <2>3
      <4> QED BY <4>1, <3>1, <2>3, <2>5
    <3>2. CASE i # Len(accepted) + 1
      <4>1. i \in 1 .. Len(accepted) /\ i - 1 \in 1 .. Len(accepted)
        BY <3>2, <2>3
      <4> QED BY <4>1, <2>3 DEF AcceptedInOrder
    <3> QED BY <3>1, <3>2
  <2>7. CookieTaken'
    BY <1>1, <1>4, <1>5, <1>6, <1>7 DEF CookieTaken
  <2> QED BY <1>5, <2>1, <2>3, <2>4, <2>6, <2>7
<1>8. CASE ~taken
  <2>1. csnIn' = csnIn /\ accepted' = accepted
    BY <1>1, <1>8
  <2>2. CookieTaken'
    BY <1>1, <1>5, <1>6, <2>1 DEF CookieTaken
  <2> QED BY <1>5, <2>1, <2>2 DEF CsnInIsNext, AcceptedInOrder, TypeOK
<1> QED BY <1>7, <1>8

\* A client-auth is accepted only under the client's own key.
LEMMA AuthIsEncrypted ==
    ASSUME NEW b \in Body, NEW source, state = "restricted",
           Unpacked(b, source) = "client-auth"
    PROVE  b.box = clientKey /\ b.type = "client-auth"
BY DEF Unpacked

---------------------------------------------------------------------------
(* The invariant                                                           *)

\* The invariant holds when the client has connected.
LEMMA InitInv == Init => IInv
<1> SUFFICES ASSUME Init PROVE IInv
  OBVIOUS
<1>1. TypeOK
  <2>1. csnOut \in CsnOrOverflow
    BY MessagesAssumption DEF Init, CsnOrOverflow, Csn
  <2>2. <<>> \in Seq(Sent) /\ <<>> \in Seq(Csn) /\ 0 \in Address
    BY MessagesAssumption DEF Address
  <2> QED BY <2>1, <2>2 DEF Init, TypeOK, Key, Flow
<1>2. SentBelow /\ NoncesFresh /\ ServerAuthFirst /\ AcceptedInOrder
  BY DEF Init, SentBelow, NoncesFresh, ServerAuthFirst, AcceptedInOrder
<1>3. CsnInIsNext /\ CookieTaken /\ FlowState /\ FlowSent /\ RoleProven
  BY MessagesAssumption
  DEF Init, CsnInIsNext, CookieTaken, FlowState, FlowSent, RoleProven
<1> QED BY <1>1, <1>2, <1>3 DEF IInv

\* Where the flow stands before and after the server has sent a message.
Sends(from, next) == flow = from /\ flow' \in {next, "failed"}

\* Sending a message at its point of the flow keeps the invariant.
LEMMA SendKeeps ==
    ASSUME IInv,
           NEW msg \in {"server-hello", "server-auth", "other"}, NEW enc \in BOOLEAN,
           Pack(msg, enc),
           \/ msg = "server-hello" /\ ~enc /\ Sends("new", "hello")
           \/ msg = "server-auth" /\ enc /\ Sends("greeting", "serving")
           \/ msg = "other" /\ enc /\ Sends("serving", "serving"),
           flow' = "failed" \/ CanPack(enc),
           UNCHANGED <<state, type, id, clientKey, cookieIn, csnIn, accepted, relayed,
                       evidence>>
    PROVE  IInv'
<1>1. TypeOK /\ SentBelow /\ NoncesFresh /\ ServerAuthFirst /\ FlowSent /\ FlowState
  BY DEF IInv
<1>2. /\ msg = "server-hello" <=> ~enc
      /\ msg = "server-hello" => Len(sent) = 0
      /\ msg = "server-auth" => Len(sent) = 1
      /\ msg = "other" => Len(sent) >= 2
  BY <1>1 DEF FlowSent, Sends
<1>3. /\ csnOut' \in CsnOrOverflow /\ sent' \in Seq(Sent)
      /\ SentBelow' /\ NoncesFresh'
  BY <1>1, PackFresh
<1>4. ServerAuthFirst' /\ (CanPack(enc) => Len(sent') = Len(sent) + 1)
  BY <1>1, <1>2, PackAppends
<1>5. TypeOK'
  <2>1. flow' \in {"failed", "hello", "serving"}
    BY DEF Sends
  <2> QED BY <1>1, <1>3, <2>1 DEF TypeOK, Flow
<1>6. FlowSent'
  <2>1. CASE flow' = "failed"
    BY <2>1 DEF FlowSent
  <2>2. CASE flow' # "failed"
    <3>1. Len(sent') = Len(sent) + 1 /\ Len(sent) \in Nat
      BY <2>2, <1>1, <1>4, SentTyped
    <3>2. \/ flow' = "hello" /\ Len(sent) = 0
          \/ flow' = "serving" /\ Len(sent) >= 1
      BY <2>2, <1>2, <3>1 DEF Sends
    <3> QED BY <3>1, <3>2 DEF FlowSent
  <2> QED BY <2>1, <2>2
<1>7. FlowState'
  BY <1>1 DEF FlowState, Sends
<1>8. CsnInIsNext' /\ AcceptedInOrder' /\ CookieTaken' /\ RoleProven'
  BY DEF IInv, CsnInIsNext, AcceptedInOrder, CookieTaken, RoleProven
<1> QED BY <1>3, <1>4, <1>5, <1>6, <1>7, <1>8 DEF IInv

\* What the packets' actions share: nothing is sent.
LEMMA ReceiveKeepsSent ==
    ASSUME IInv, UNCHANGED <<csnOut, sent>>
    PROVE  SentBelow' /\ NoncesFresh' /\ ServerAuthFirst'
BY DEF IInv, SentBelow, NoncesFresh, ServerAuthFirst

\* The invariant's parts about the nonce are kept by taking one.
LEMMA ReceiveKeepsNonces ==
    ASSUME IInv, NEW m \in Packet, TakeNonce(m)
    PROVE  /\ cookieIn' \in Cookie \cup {None} /\ csnIn' \in CsnOrOverflow \cup {None}
           /\ accepted' \in Seq(Csn)
           /\ CsnInIsNext' /\ AcceptedInOrder' /\ CookieTaken'
BY TakeNonceKeeps DEF IInv

\* A refused packet keeps the invariant.
LEMMA RefuseKeeps ==
    ASSUME IInv, NEW m \in Packet, Refuse(m)
    PROVE  IInv'
<1>1. TakeNonce(m) /\ flow' = "failed"
      /\ UNCHANGED <<state, type, id, clientKey, csnOut, sent, relayed, evidence>>
  BY DEF Refuse
<1>2. TypeOK'
  BY <1>1, ReceiveKeepsNonces DEF IInv, TypeOK, Flow
<1>3. FlowState' /\ FlowSent' /\ RoleProven'
  BY <1>1 DEF IInv, FlowState, FlowSent, RoleProven
<1> QED BY <1>1, <1>2, <1>3, ReceiveKeepsNonces, ReceiveKeepsSent DEF IInv

\* A client-hello keeps the invariant: only a client that waits for it takes a key.
LEMMA ClientHelloKeeps ==
    ASSUME IInv, NEW m \in Packet, ClientHello(m)
    PROVE  IInv'
<1>1. /\ flow = "hello" /\ Unpacked(m.body, m.source) = "client-hello" /\ TakeNonce(m)
      /\ type' = "responder" /\ clientKey' = m.body.key /\ flow' = "auth"
      /\ UNCHANGED <<state, id, csnOut, sent, relayed, evidence>>
  BY DEF ClientHello, Arrives
<1>2. state = "restricted" /\ relayed = {}
  BY <1>1 DEF IInv, FlowState
<1>3. m.body \in Body /\ m.body.type = "client-hello"
  BY <1>1, <1>2 DEF Unpacked, Packet
<1>4. m.body.key \in Key
  BY <1>3 DEF Body
<1>5. TypeOK'
  BY <1>1, <1>4, ReceiveKeepsNonces DEF IInv, TypeOK, Flow
<1>6. FlowState' /\ FlowSent' /\ RoleProven'
  BY <1>1, <1>2 DEF IInv, FlowState, FlowSent, RoleProven
<1> QED BY <1>1, <1>5, <1>6, ReceiveKeepsNonces, ReceiveKeepsSent DEF IInv

\* A client-auth keeps the invariant: who is authenticated has shown its key.
LEMMA ClientAuthKeeps ==
    ASSUME IInv, NEW m \in Packet, ClientAuth(m)
    PROVE  IInv'
<1>1. /\ flow \in {"hello", "auth"} /\ Unpacked(m.body, m.source) = "client-auth"
      /\ TakeNonce(m)
      /\ type' = IF flow = "hello" THEN "initiator" ELSE type
      /\ UNCHANGED <<clientKey, csnOut, sent, relayed>>
  BY DEF ClientAuth, Arrives
<1>2. state = "restricted" /\ relayed = {}
  BY <1>1 DEF IInv, FlowState
<1>3. m.body \in Body /\ m.body.box = clientKey
  BY <1>1, <1>2, AuthIsEncrypted DEF Packet
<1>4. type' \in {None, "initiator", "responder"}
  BY <1>1 DEF IInv, TypeOK
<1>5. CASE flow' = "failed" /\ UNCHANGED <<state, id, evidence>>
  <2>1. TypeOK'
    BY <1>1, <1>4, <1>5, ReceiveKeepsNonces DEF IInv, TypeOK, Flow
  <2>2. FlowState' /\ FlowSent' /\ RoleProven'
    BY <1>1, <1>2, <1>5 DEF IInv, FlowState, FlowSent, RoleProven
  <2> QED BY <1>1, <2>1, <2>2, ReceiveKeepsNonces, ReceiveKeepsSent DEF IInv
<1>6. CASE /\ m.body.yourCookie = ServerCookie /\ state' = "authenticated"
           /\ id' \in IF flow = "hello" THEN {1} ELSE 2 .. LastSlot
           /\ flow' = "greeting" /\ evidence' = m.body
  <2>1. id' \in Address
    BY <1>6, MessagesAssumption DEF Address
  <2>2. TypeOK'
    BY <1>1, <1>3, <1>4, <1>6, <2>1, ReceiveKeepsNonces DEF IInv, TypeOK, Flow
  <2>3. FlowState' /\ FlowSent'
    BY <1>1, <1>6 DEF IInv, FlowState, FlowSent
  <2>4. type' = "initiator" => clientKey' = PathKey
    BY <1>1 DEF IInv, FlowState
  <2>5. AddressType(id') = type'
    <3>1. CASE flow = "hello"
      BY <3>1, <1>1, <1>6 DEF AddressType
    <3>2. CASE flow = "auth"
      <4>1. id' \in 2 .. LastSlot /\ type' = "responder"
        BY <3>2, <1>1, <1>6 DEF IInv, FlowState
      <4>2. id' # 0 /\ id' # 1
        BY <4>1, MessagesAssumption
      <4> QED BY <4>1, <4>2 DEF AddressType
    <3> QED BY <3>1, <3>2, <1>1
  <2>6. m.body # None
    BY <1>3, MessagesAssumption
  <2>7. RoleProven'
    BY <1>1, <1>3, <1>6, <2>4, <2>5, <2>6 DEF RoleProven
  <2> QED BY <1>1, <2>2, <2>3, <2>7, ReceiveKeepsNonces, ReceiveKeepsSent DEF IInv
<1> QED BY <1>5, <1>6 DEF ClientAuth

\* Dropping the client keeps the invariant.
LEMMA DropKeeps ==
    ASSUME IInv, Drop
    PROVE  IInv'
<1>1. /\ state = "authenticated" /\ state' = "dropped"
      /\ UNCHANGED <<type, id, clientKey, cookieIn, csnIn, csnOut, flow, sent, accepted,
                     relayed, evidence>>
  BY DEF Drop
<1>2. TypeOK'
  BY <1>1 DEF IInv, TypeOK
<1>3. FlowState' /\ FlowSent' /\ RoleProven'
  BY <1>1 DEF IInv, FlowState, FlowSent, RoleProven
<1>4. CsnInIsNext' /\ AcceptedInOrder' /\ CookieTaken'
  BY <1>1 DEF IInv, CsnInIsNext, AcceptedInOrder, CookieTaken
<1> QED BY <1>1, <1>2, <1>3, <1>4, ReceiveKeepsSent DEF IInv

\* A drop-responder keeps the invariant.
LEMMA DropResponderKeeps ==
    ASSUME IInv, NEW m \in Packet, DropResponder(m)
    PROVE  IInv'
<1>1. TakeNonce(m)
      /\ UNCHANGED <<state, type, id, clientKey, csnOut, flow, sent, relayed, evidence>>
  BY DEF DropResponder, Arrives
<1>2. TypeOK'
  BY <1>1, ReceiveKeepsNonces DEF IInv, TypeOK
<1>3. FlowState' /\ FlowSent' /\ RoleProven'
  BY <1>1 DEF IInv, FlowState, FlowSent, RoleProven
<1> QED BY <1>1, <1>2, <1>3, ReceiveKeepsNonces, ReceiveKeepsSent DEF IInv

\* A relayed packet keeps the invariant.
LEMMA RelayKeeps ==
    ASSUME IInv, NEW m \in Packet, Relay(m)
    PROVE  IInv'
<1>1. /\ flow = "serving" /\ state = "authenticated"
      /\ relayed' = relayed \cup {m.destination}
      /\ UNCHANGED <<state, type, id, clientKey, cookieIn, csnIn, csnOut, flow, sent,
                     accepted, evidence>>
  BY DEF Relay
<1>2. m.destination \in Address
  BY DEF Packet
<1>3. TypeOK'
  BY <1>1, <1>2 DEF IInv, TypeOK
<1>4. FlowState' /\ FlowSent' /\ RoleProven'
  BY <1>1 DEF IInv, FlowState, FlowSent, RoleProven
<1>5. CsnInIsNext' /\ AcceptedInOrder' /\ CookieTaken'
  BY <1>1 DEF IInv, CsnInIsNext, AcceptedInOrder, CookieTaken
<1> QED BY <1>1, <1>3, <1>4, <1>5, ReceiveKeepsSent DEF IInv

\* Every step keeps the invariant.
LEMMA StepInv == IInv /\ [Next]_vars => IInv'
<1> SUFFICES ASSUME IInv, [Next]_vars PROVE IInv'
  OBVIOUS
<1>1. CASE SendServerHello \/ SendServerAuth \/ SendMessage
  <2>1. CASE SendServerHello
    BY <2>1, SendKeeps DEF SendServerHello, Sends
  <2>2. CASE SendServerAuth
    BY <2>2, SendKeeps DEF SendServerAuth, Sends
  <2>3. CASE SendMessage
    BY <2>3, SendKeeps DEF SendMessage, Sends
  <2> QED BY <1>1, <2>1, <2>2, <2>3
<1>2. CASE Drop
  BY <1>2, DropKeeps
<1>3. ASSUME NEW m \in Packet, Refuse(m) PROVE IInv'
  BY <1>3, RefuseKeeps
<1>4. ASSUME NEW m \in Packet, ClientHello(m) PROVE IInv'
  BY <1>4, ClientHelloKeeps
<1>5. ASSUME NEW m \in Packet, ClientAuth(m) PROVE IInv'
  BY <1>5, ClientAuthKeeps
<1>6. ASSUME NEW m \in Packet, DropResponder(m) PROVE IInv'
  BY <1>6, DropResponderKeeps
<1>7. ASSUME NEW m \in Packet, Relay(m) PROVE IInv'
  BY <1>7, RelayKeeps
<1>8. CASE UNCHANGED vars
  <2> USE <1>8 DEF vars
  <2>1. TypeOK' /\ SentBelow' /\ NoncesFresh' /\ ServerAuthFirst'
    BY DEF IInv, TypeOK, SentBelow, NoncesFresh, ServerAuthFirst
  <2>2. CsnInIsNext' /\ AcceptedInOrder' /\ CookieTaken'
    BY DEF IInv, CsnInIsNext, AcceptedInOrder, CookieTaken
  <2>3. FlowState' /\ FlowSent' /\ RoleProven'
    BY DEF IInv, FlowState, FlowSent, RoleProven
  <2> QED BY <2>1, <2>2, <2>3 DEF IInv
<1> QED BY <1>1, <1>2, <1>3, <1>4, <1>5, <1>6, <1>7, <1>8 DEF Next

---------------------------------------------------------------------------
(* Theorems                                                                *)

\* The inductive invariant holds of every connection (server.py's handshake and
\* receive loops with the counters of PathClient).
THEOREM MessagesInvariant == Spec => []IInv
BY InitInv, StepInv, PTL DEF Spec

\* The counters, cookies and histories keep their types: a counter that has come to
\* its end holds the sentinel and never goes on (PathClient._increment_csn).
THEOREM MessagesTypeCorrect == Spec => []TypeOK
<1>1. IInv => TypeOK
  BY DEF IInv
<1> QED BY <1>1, MessagesInvariant, PTL

\* The server never uses a sequence number twice (OutgoingMessage._pack_nonce).
THEOREM NoncesAreFresh == Spec => []NoncesFresh
<1>1. IInv => NoncesFresh
  BY DEF IInv
<1> QED BY <1>1, MessagesInvariant, PTL

\* The client's messages are accepted in order, without gap, repetition or overflow
\* (PathClient.validate_csn_in, IncomingMessage._unpack_nonce).
THEOREM NumbersAcceptedInOrder == Spec => []AcceptedInOrder
<1>1. IInv => AcceptedInOrder
  BY DEF IInv
<1> QED BY <1>1, MessagesInvariant, PTL

\* The client's cookie is never the server's (PathClient.valid_cookie).
THEOREM CookiesAlwaysDiffer == Spec => []CookiesDiffer
<1>1. IInv => CookiesDiffer
  <2> SUFFICES ASSUME IInv, accepted # <<>>
               PROVE  cookieIn \in Cookie \ {ServerCookie}
    BY DEF CookiesDiffer
  <2>1. csnIn = accepted[Len(accepted)] + 1 /\ accepted[Len(accepted)] \in Nat
    BY MessagesAssumption DEF IInv, CsnInIsNext, TypeOK, Csn
  <2>2. csnIn # None
    BY <2>1, MessagesAssumption
  <2> QED BY <2>2 DEF IInv, CookieTaken, TypeOK
<1> QED BY <1>1, MessagesInvariant, PTL

\* Nobody is authenticated, and nothing is relayed, for a client that has not shown
\* the key of its role and the server's cookie (handle_client's handshake).
THEOREM RolesAreProven == Spec => []RoleProven
<1>1. IInv => RoleProven
  BY DEF IInv
<1> QED BY <1>1, MessagesInvariant, PTL

\* The first encrypted message of the server is server-auth (ServerProtocol.handshake).
THEOREM ServerAuthComesFirst == Spec => []ServerAuthFirst
<1>1. IInv => ServerAuthFirst
  BY DEF IInv
<1> QED BY <1>1, MessagesInvariant, PTL

=============================================================================

--------------------------- MODULE ClientMessages ---------------------------
(***************************************************************************)
(* The messages between the server and one client: nonces, cookies,        *)
(* sequence numbers and encryption (`message.py` and the counters of       *)
(* `PathClient`) with the message flow of the handshake (`server.py`).     *)
(*                                                                         *)
(* The peer is arbitrary: it may send any message at any time.  It reads   *)
(* what it is sent, so its messages may contain the server's cookie.       *)
(* Encryption is ideal: what is encrypted for one key decrypts with no     *)
(* other.  Paths and queues are in other modules; what they decide here    *)
(* (whether a slot is free, when the server has something to send) is left *)
(* open.                                                                   *)
(*                                                                         *)
(* A definition whose name is that of the next one with a suffix           *)
(* (IncrementWraps) is a variant with a bug, used to see that a property   *)
(* notices it.                                                             *)
(***************************************************************************)
EXTENDS Integers, Sequences

CONSTANTS
    MaxCsn,         \* the last combined sequence number (2^48 - 1)
    MaxInitial,     \* the last one to begin with (2^32 - 1)
    Cookie,         \* cookies
    ServerCookie,   \* the one of the server
    PathKey,        \* the initiator's public permanent key
    SessionKey,     \* the session keys responders choose
    LastSlot,       \* the last responder address (0xff)
    None            \* no cookie, no key, no type

Csn     == 0 .. MaxCsn
Address == 0 .. LastSlot
Key     == SessionKey \cup {PathKey}

\* _increment_csn's OverflowSentinel.
Overflow == MaxCsn + 1

\* The body of a packet: its type, the key it is encrypted for (None: it is not),
\* the key a client-hello brings, the server cookie a client-auth repeats.  A
\* client-auth may be refused for other reasons: sub-protocols, permanent key.
\* A body of type "other" has an unexpected type or cannot be unpacked at all.
Box  == Key \cup {None}
Body ==
    [type : {"client-hello"}, box : Box, key : Key]
        \cup [type : {"client-auth"}, box : Box, yourCookie : Cookie, fine : BOOLEAN]
        \cup [type : {"drop-responder", "other"}, box : Box]

Packet == [cookie : Cookie, source : Address, destination : Address, csn : Csn,
           body : Body]

ASSUME MessagesAssumption ==
    /\ MaxInitial \in Nat /\ MaxCsn \in Nat /\ MaxInitial <= MaxCsn
    /\ LastSlot \in Nat /\ LastSlot >= 2
    /\ ServerCookie \in Cookie
    /\ None \notin Cookie \cup Key /\ None \notin Nat /\ None \notin Body

VARIABLES
    state,      \* PathClient.state
    type,       \* PathClient.type
    id,         \* PathClient.id
    clientKey,  \* PathClient._client_key
    cookieIn,   \* PathClient._cookie_in
    csnIn,      \* PathClient._csn_in, None before the first message
    csnOut,     \* PathClient._csn_out
    flow,       \* where the client's protocol stands, see below
    sent,       \* the messages packed for the client (history)
    accepted,   \* the sequence numbers accepted from the client (history)
    relayed,    \* the addresses messages of the client went to (history)
    evidence    \* the body that authenticated the client, or None (history)

vars == <<state, type, id, clientKey, cookieIn, csnIn, csnOut, flow, sent,
          accepted, relayed, evidence>>

\* "new": server-hello is to be sent;  "hello": waits for client-hello or client-auth;
\* "auth": waits for client-auth;  "greeting": server-auth is to be sent;  "serving";
\* "failed": a protocol error ended it.
Flow == {"new", "hello", "auth", "greeting", "serving", "failed"}

AddressType(a) == CASE a = 0 -> "server" [] a = 1 -> "initiator" [] OTHER -> "responder"

---------------------------------------------------------------------------
(* Sequence numbers and cookies                                            *)

IncrementWraps(csn) == IF csn = MaxCsn THEN 0 ELSE csn + 1

IncrementPast(csn) == csn + 1

\* _increment_csn
Increment(csn) == IF csn \in {MaxCsn, Overflow} THEN Overflow ELSE csn + 1

ValidCookieAny(c) == cookieIn \in {None, c}

\* The first cookie is taken unless it is the server's own.
ValidCookie(c) == IF cookieIn = None THEN c # ServerCookie ELSE c = cookieIn

ValidCsnLoose(n) == IF csnIn = None THEN n <= MaxInitial
                                    ELSE csnIn # Overflow /\ n >= csnIn

\* validate_csn_in
ValidCsn(n) == IF csnIn = None THEN n <= MaxInitial ELSE csnIn # Overflow /\ n = csnIn

---------------------------------------------------------------------------
(* Unpacking                                                               *)

\* p2p_allowed and the check of the source.
Addressed(m) ==
    /\ m.destination # 0 =>
           state = "authenticated" /\ type # AddressType(m.destination)
    /\ m.source = id

\* Cookie and sequence number are checked only when the server is addressed.
NonceFails(m) ==
    \/ ~Addressed(m)
    \/ m.destination = 0 /\ ~(ValidCookie(m.cookie) /\ ValidCsn(m.csn))

\* The message a body to the server unpacks to.  Before the client is authenticated
\* that is a client-auth encrypted for the client's key or a client-hello in the
\* clear, then a drop-responder of an initiator.
UnpackedAny(b, source) ==
    IF state = "authenticated" /\ type # None
    THEN IF b.box = clientKey /\ b.type = "drop-responder" /\ source = 1
         THEN b.type ELSE "error"
    ELSE IF b.box \in {clientKey, None} /\ b.type \in {"client-auth", "client-hello"}
         THEN b.type ELSE "error"

Unpacked(b, source) ==
    IF state = "authenticated" /\ type # None
    THEN IF b.box = clientKey /\ b.type = "drop-responder" /\ source = 1
         THEN b.type ELSE "error"
    ELSE IF \/ b.box = clientKey /\ b.type = "client-auth"
            \/ b.box = None /\ b.type = "client-hello"
         THEN b.type ELSE "error"

\* What _unpack_nonce stores, also if the packet is refused for its number.
TakeNonce(m) ==
    LET known == Addressed(m) /\ m.destination = 0 /\ ValidCookie(m.cookie)
        taken == known /\ ValidCsn(m.csn) IN
    /\ cookieIn' = IF known THEN m.cookie ELSE cookieIn
    /\ csnIn' = IF taken THEN Increment(m.csn) ELSE csnIn
    /\ accepted' = IF taken THEN Append(accepted, m.csn) ELSE accepted

---------------------------------------------------------------------------
(* Packing                                                                 *)

\* Only for an authenticated client can a message be encrypted.
CanPack(encrypted) == csnOut # Overflow /\ (encrypted => state = "authenticated")

\* The number is used up before it turns out that the payload cannot be encrypted.
Pack(message, encrypted) ==
    /\ csnOut' = Increment(csnOut)
    /\ sent' = IF CanPack(encrypted)
               THEN Append(sent, [csn |-> csnOut, to |-> id, message |-> message,
                                  box |-> IF encrypted THEN clientKey ELSE None])
               ELSE sent

---------------------------------------------------------------------------
(* The protocol                                                            *)

Init ==
    /\ state = "restricted" /\ type = None /\ id = 0
    /\ clientKey = PathKey
    /\ cookieIn = None /\ csnIn = None
    /\ csnOut \in 0 .. MaxInitial
    /\ flow = "new" /\ sent = <<>> /\ accepted = <<>> /\ relayed = {} /\ evidence = None

SendServerHello ==
    /\ flow = "new"
    /\ Pack("server-hello", FALSE)
    /\ flow' = IF CanPack(FALSE) THEN "hello" ELSE "failed"
    /\ UNCHANGED <<state, type, id, clientKey, cookieIn, csnIn, accepted, relayed, evidence>>

\* A packet ends the client with a protocol error.
Refuse(m) ==
    /\ flow \in {"hello", "auth"} \/ (flow = "serving" /\ state = "authenticated")
    /\ \/ NonceFails(m)
       \/ m.destination = 0 /\ Unpacked(m.body, m.source) = "error"
       \/ flow = "auth" /\ Unpacked(m.body, m.source) = "client-hello"
    /\ TakeNonce(m)
    /\ flow' = "failed"
    /\ UNCHANGED <<state, type, id, clientKey, csnOut, sent, relayed, evidence>>

Arrives(m, t) ==
    /\ ~NonceFails(m) /\ m.destination = 0
    /\ Unpacked(m.body, m.source) = t
    /\ TakeNonce(m)

\* A client-hello makes the client a responder and changes its key.
ClientHello(m) ==
    /\ flow = "hello"
    /\ Arrives(m, "client-hello")
    /\ type' = "responder" /\ clientKey' = m.body.key
    /\ flow' = "auth"
    /\ UNCHANGED <<state, id, csnOut, sent, relayed, evidence>>

\* A client-auth instead of a client-hello makes it the initiator.  The path may
\* refuse either: it is full, or the client is no longer on it.
ClientAuth(m) ==
    /\ flow \in {"hello", "auth"}
    /\ Arrives(m, "client-auth")
    /\ type' = IF flow = "hello" THEN "initiator" ELSE type
    /\ \/ /\ m.body.yourCookie = ServerCookie /\ m.body.fine
          /\ state' = "authenticated"
          /\ id' \in IF flow = "hello" THEN {1} ELSE 2 .. LastSlot
          /\ flow' = "greeting" /\ evidence' = m.body
       \/ flow' = "failed" /\ UNCHANGED <<state, id, evidence>>
    /\ UNCHANGED <<clientKey, csnOut, sent, relayed>>

\* server-auth.  An initiator may have been dropped before it is packed.
SendServerAuth ==
    /\ flow = "greeting"
    /\ Pack("server-auth", TRUE)
    /\ flow' = IF CanPack(TRUE) THEN "serving" ELSE "failed"
    /\ UNCHANGED <<state, type, id, clientKey, cookieIn, csnIn, accepted, relayed, evidence>>

SendMessageEarly ==
    /\ flow \in {"greeting", "serving"}
    /\ Pack("other", TRUE)
    /\ flow' = IF CanPack(TRUE) THEN flow ELSE "failed"
    /\ UNCHANGED <<state, type, id, clientKey, cookieIn, csnIn, accepted, relayed, evidence>>

\* The runner packs a message of the queue; an error ends the client.
SendMessage ==
    /\ flow = "serving"
    /\ Pack("other", TRUE)
    /\ flow' = IF CanPack(TRUE) THEN flow ELSE "failed"
    /\ UNCHANGED <<state, type, id, clientKey, cookieIn, csnIn, accepted, relayed, evidence>>

\* Another client or the closing server drops the client: nothing is received any
\* more, but what is queued is still packed.
Drop ==
    /\ state = "authenticated"
    /\ state' = "dropped"
    /\ UNCHANGED <<type, id, clientKey, cookieIn, csnIn, csnOut, flow, sent, accepted,
                   relayed, evidence>>

DropResponder(m) ==
    /\ flow = "serving" /\ state = "authenticated"
    /\ Arrives(m, "drop-responder")
    /\ UNCHANGED <<state, type, id, clientKey, csnOut, flow, sent, relayed, evidence>>

\* A packet for another client is relayed as it is, under its own nonce.
Relay(m) ==
    /\ flow = "serving" /\ state = "authenticated"
    /\ m.destination # 0 /\ Addressed(m)
    /\ relayed' = relayed \cup {m.destination}
    /\ UNCHANGED <<state, type, id, clientKey, cookieIn, csnIn, csnOut, flow, sent,
                   accepted, evidence>>

Next ==
    \/ SendServerHello \/ SendServerAuth \/ SendMessage \/ Drop
    \/ \E m \in Packet : \/ Refuse(m) \/ ClientHello(m) \/ ClientAuth(m)
                         \/ DropResponder(m) \/ Relay(m)

Spec == Init /\ [][Next]_vars

---------------------------------------------------------------------------
(* Properties                                                              *)

CsnOrOverflow == Csn \cup {Overflow}
Sent == [csn : Csn, to : Address, box : Box,
         message : {"server-hello", "server-auth", "other"}]

TypeOK ==
    /\ state \in {"restricted", "authenticated", "dropped"}
    /\ type \in {None, "initiator", "responder"} /\ id \in Address
    /\ clientKey \in Key
    /\ cookieIn \in Cookie \cup {None}
    /\ csnIn \in CsnOrOverflow \cup {None} /\ csnOut \in CsnOrOverflow
    /\ flow \in Flow
    /\ sent \in Seq(Sent) /\ accepted \in Seq(Csn)
    /\ relayed \subseteq Address /\ evidence \in Body \cup {None}

\* No two messages to a client carry the same number, so with its cookie the server
\* encrypts under each nonce once, also when a message could not be encrypted in
\* between and when the counter comes to its end.
NoncesFresh ==
    \A i, k \in DOMAIN sent : i # k => sent[i].csn # sent[k].csn

\* What the client sends to the server is accepted in the order of its numbers,
\* without gap, repetition or overflow.
AcceptedInOrder ==
    \A i \in DOMAIN accepted :
        i > 1 => accepted[i] = accepted[i - 1] + 1

\* The nonces of the client and of the server differ by their cookies.
CookiesDiffer == accepted # <<>> => cookieIn \in Cookie \ {ServerCookie}

\* A client that is authenticated, or whose messages were relayed, has shown in this
\* connection that it holds the key it is known by and has read the server's cookie;
\* an initiator holds the key of the path.  Its address fits its role.
RoleProven ==
    state # "restricted" \/ relayed # {} =>
        /\ evidence # None
        /\ evidence.box = clientKey /\ evidence.yourCookie = ServerCookie
        /\ type = "initiator" => clientKey = PathKey
        /\ AddressType(id) = type

\* Of the server's own messages only server-hello is sent in the clear, and the first
\* encrypted one is server-auth, whatever is enqueued for the client meanwhile.
ServerAuthFirst ==
    \A i \in DOMAIN sent :
        /\ sent[i].box = None <=> i = 1
        /\ sent[i].message = "server-auth" <=> i = 2

=============================================================================

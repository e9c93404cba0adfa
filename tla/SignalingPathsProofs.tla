------------------------ MODULE SignalingPathsProofs ------------------------
(***************************************************************************)
(* Theorems about SignalingPaths, for any set of clients, any set of keys, *)
(* any number of responder addresses and both settings of __splice__.      *)
(***************************************************************************)
EXTENDS SignalingPaths, FiniteSetTheorems, TLAPS

---------------------------------------------------------------------------
(* The operations on the clients of one path.                              *)

LEMMA EmptyRoomType == EmptyRoom \in Room
BY DEF EmptyRoom, NoResponders, Room

LEMMA OccupiedFinite ==
    ASSUME NEW r \in Room
    PROVE  /\ IsFiniteSet(Occupied(r))
           /\ Cardinality(Occupied(r)) \in Nat
<1>1. IsFiniteSet(ResponderAddress)
    BY FS_Interval, PathsAssumption DEF ResponderAddress
<1>2. Occupied(r) \subseteq ResponderAddress
    BY DEF Occupied
<1> QED BY <1>1, <1>2, FS_Subset, FS_CardinalityType

LEMMA NextSlotIsInt ==
    ASSUME NEW r \in Room
    PROVE  NextSlot(r) \in Nat /\ NextSlot(r) >= 2
BY OccupiedFinite DEF NextSlot

LEMMA FullMeansNoAddress ==
    ASSUME NEW r \in Room
    PROVE  Full(r) <=> NextSlot(r) \notin ResponderAddress
BY NextSlotIsInt, PathsAssumption DEF Full, ResponderAddress

\* add_responder finds no id only if no address is free.
LEMMA NoSlotLeft ==
    ASSUME NEW r \in Room, Full(r)
    PROVE  Occupied(r) = ResponderAddress
<1>1. IsFiniteSet(ResponderAddress) /\ Cardinality(ResponderAddress) = LastSlot - 1
    BY FS_Interval, PathsAssumption DEF ResponderAddress
<1>2. Occupied(r) \subseteq ResponderAddress
    BY DEF Occupied
<1>3. Cardinality(Occupied(r)) >= LastSlot - 1
    BY OccupiedFinite, PathsAssumption DEF Full, NextSlot
<1>4. Cardinality(Occupied(r)) <= Cardinality(ResponderAddress)
    BY <1>1, <1>2, FS_Subset
<1>5. Cardinality(ResponderAddress) = Cardinality(Occupied(r))
    BY <1>1, <1>3, <1>4, OccupiedFinite, PathsAssumption
<1> QED BY <1>1, <1>2, <1>5, FS_Subset

LEMMA AddPendingType ==
    ASSUME NEW r \in Room, NEW c \in Client
    PROVE  AddPending(r, c) \in Room
BY DEF AddPending, Room

LEMMA SetInitiatorType ==
    ASSUME NEW r \in Room, NEW c \in Client
    PROVE  SetInitiator(r, c) \in Room
BY DEF SetInitiator, Room

LEMMA AddResponderType ==
    ASSUME NEW r \in Room, NEW c \in Client
    PROVE  AddResponder(r, c) \in Room
BY DEF AddResponder, Room

LEMMA RemoveClientType ==
    ASSUME NEW r \in Room, NEW c \in Client
    PROVE  RemoveClient(r, c) \in Room
BY DEF RemoveClient, Room

\* remove_client adds nobody.
LEMMA RemoveClientShrinks ==
    ASSUME NEW r \in Room, NEW c \in Client
    PROVE  /\ RemoveClient(r, c).pending = r.pending \ {c}
           /\ RemoveClient(r, c).initiator \in {r.initiator, None}
           /\ \A s \in ResponderAddress :
                  RemoveClient(r, c).responders[s] \in {r.responders[s], None}
BY DEF RemoveClient, Room

\* A responder that is removed leaves its slot empty and the rest as it is.
LEMMA RemoveResponder ==
    ASSUME NEW r \in Room, NEW c \in Client,
           state[c] # "restricted", id[c] # InitiatorAddress
    PROVE  /\ RemoveClient(r, c).pending = r.pending \ {c}
           /\ RemoveClient(r, c).initiator = r.initiator
           /\ \A t \in ResponderAddress :
                  RemoveClient(r, c).responders[t] =
                      IF t = id[c] THEN None ELSE r.responders[t]
BY DEF RemoveClient, Room

\* An empty path is the path that clear() leaves.
LEMMA EmptyIsEmptyRoom ==
    ASSUME NEW r \in Room, Empty(r)
    PROVE  r = EmptyRoom
<1>1. r.pending = {} /\ r.initiator = None
    BY DEF Empty
<1>2. r.responders = NoResponders
    BY DEF Empty, Occupied, NoResponders, Room
<1> QED BY <1>1, <1>2 DEF EmptyRoom, Room

---------------------------------------------------------------------------
(* Type correctness.                                                       *)

LEMMA TypeInit == Init => TypeOK
<1> SUFFICES ASSUME Init PROVE TypeOK
    OBVIOUS
<1>1. 0 \in 0 .. MaxPaths /\ 0 \in 0 .. LastSlot
    BY PathsAssumption
<1>2. paths \in [Index -> {0} \cup PathNumber] /\ path \in [Client -> {0} \cup PathNumber]
    BY DEF Init
<1>3. room \in [PathNumber -> Room] /\ phase \in [Client -> Phase]
    BY EmptyRoomType DEF Init, Phase
<1> QED BY <1>1, <1>2, <1>3 DEF Init, TypeOK, ServerAddress

LEMMA GetType ==
    ASSUME TypeOK, NEW k \in Key, Get(k)
    PROVE  /\ paths' \in [Index -> {0} \cup PathNumber]
           /\ number' \in 0 .. MaxPaths
           /\ initiatorKey' \in [PathNumber -> Key \cup {None}]
           /\ attached' \in [PathNumber -> BOOLEAN]
           /\ Lookup(k) \in PathNumber
<1>1. IndexOnGet(k) \in Index
    BY DEF IndexOnGet, Index
<1>2. CASE paths[IndexOnGet(k)] = 0
    <2>1. number + 1 \in PathNumber /\ number + 1 \in 0 .. MaxPaths
        BY <1>2, PathsAssumption DEF Get, TypeOK, PathNumber
    <2>2. /\ number' = number + 1 /\ Lookup(k) = number + 1
          /\ paths' = [paths EXCEPT ![IndexOnGet(k)] = number + 1]
          /\ initiatorKey' = [initiatorKey EXCEPT ![number + 1] = k]
          /\ attached' = [attached EXCEPT ![number + 1] = TRUE]
        BY <1>2 DEF Get, Lookup
    <2>3. paths' \in [Index -> {0} \cup PathNumber]
        BY <1>1, <2>1, <2>2 DEF TypeOK
    <2>4. initiatorKey' \in [PathNumber -> Key \cup {None}]
        BY <2>1, <2>2 DEF TypeOK
    <2>5. attached' \in [PathNumber -> BOOLEAN]
        BY <2>1, <2>2 DEF TypeOK
    <2> QED BY <2>1, <2>2, <2>3, <2>4, <2>5
<1>3. CASE paths[IndexOnGet(k)] # 0
    BY <1>1, <1>3 DEF Get, Lookup, TypeOK, registry
<1> QED BY <1>2, <1>3

LEMMA DepartType ==
    ASSUME TypeOK, NEW c \in Client, path[c] \in PathNumber,
           NEW p \in Phase, Depart(c, p)
    PROVE  TypeOK'
<1>1. CASE attached[path[c]]
    <2> DEFINE r == RemoveClient(room[path[c]], c)
    <2>1. r \in Room
        BY RemoveClientType DEF TypeOK
    <2>2. room' \in [PathNumber -> Room]
        BY <1>1, <2>1 DEF Depart, Clean, TypeOK
    <2>3. /\ paths' \in [Index -> {0} \cup PathNumber]
          /\ attached' \in [PathNumber -> BOOLEAN]
          /\ UNCHANGED <<number, initiatorKey>>
        BY <1>1 DEF Depart, Clean, TypeOK, registry
    <2> QED BY <2>2, <2>3 DEF Depart, TypeOK
<1>2. CASE ~attached[path[c]]
    BY <1>2 DEF Depart, TypeOK, registry
<1> QED BY <1>1, <1>2

\* The type invariant needs ClientSituation: a handler that authenticates or
\* departs has a path.
LEMMA TypeNext ==
    ASSUME TypeOK, ClientSituation, [Next]_vars
    PROVE  TypeOK'
<1>1. ASSUME NEW c \in Client, NEW k \in Key, Connect(c, k)
      PROVE  TypeOK'
    <2>1. Get(k)
        BY <1>1 DEF Connect
    <2>2. AddPending(room[Lookup(k)], c) \in Room /\ Lookup(k) \in PathNumber
        BY <2>1, GetType, AddPendingType DEF TypeOK
    <2>3. CASE attached'[Lookup(k)]
        BY <1>1, <2>1, <2>2, <2>3, GetType DEF Connect, TypeOK, Phase
    <2>4. CASE ~attached'[Lookup(k)]
        BY <1>1, <2>1, <2>4, GetType DEF Connect, TypeOK, Phase
    <2> QED BY <2>3, <2>4
<1>2. ASSUME NEW c \in Client, AuthInitiator(c)
      PROVE  TypeOK'
    <2>1. path[c] \in PathNumber
        BY <1>2 DEF AuthInitiator, MayAuthenticate, ClientSituation, TypeOK
    <2>2. SetInitiator(room[path[c]], c) \in Room
        BY <2>1, SetInitiatorType DEF TypeOK
    <2>3. state' \in [Client -> {"restricted", "authenticated", "dropped"}]
        BY <1>2 DEF AuthInitiator, Dropped, TypeOK
    <2>4. id' \in [Client -> 0 .. LastSlot]
        BY <1>2, PathsAssumption DEF AuthInitiator, InitiatorAddress, TypeOK
    <2> QED BY <1>2, <2>1, <2>2, <2>3, <2>4
            DEF AuthInitiator, TypeOK, Phase, registry
<1>3. ASSUME NEW c \in Client, AuthResponder(c)
      PROVE  TypeOK'
    <2>1. path[c] \in PathNumber
        BY <1>3 DEF AuthResponder, MayAuthenticate, ClientSituation, TypeOK
    <2>2. AddResponder(room[path[c]], c) \in Room
        BY <2>1, AddResponderType DEF TypeOK
    <2>3. NextSlot(room[path[c]]) \in 0 .. LastSlot
        BY <1>3, <2>1, FullMeansNoAddress, PathsAssumption
           DEF AuthResponder, TypeOK, ResponderAddress
    <2> QED BY <1>3, <2>1, <2>2, <2>3 DEF AuthResponder, TypeOK, Phase, registry
<1>4. ASSUME NEW c \in Client, SlotsFull(c)
      PROVE  TypeOK'
    <2>1. path[c] \in PathNumber
        BY <1>4 DEF SlotsFull, ClientSituation, TypeOK
    <2> QED BY <1>4, <2>1, DepartType DEF SlotsFull, Phase
<1>5. ASSUME NEW c \in Client, HandshakeDone(c)
      PROVE  TypeOK'
    BY <1>5 DEF HandshakeDone, TypeOK, Phase, registry
<1>6. ASSUME NEW c \in Client, Leave(c)
      PROVE  TypeOK'
    <2>1. path[c] \in PathNumber
        BY <1>6 DEF Leave, Live, ClientSituation, TypeOK
    <2> QED BY <1>6, <2>1, DepartType DEF Leave, Phase
<1>7. ASSUME NEW c \in Client, Unregister(c)
      PROVE  TypeOK'
    BY <1>7 DEF Unregister, TypeOK, Phase, registry
<1>8. ASSUME NEW i \in Client, NEW s \in ResponderAddress, DropResponder(i, s)
      PROVE  TypeOK'
    <2>1. path[i] \in PathNumber
        BY <1>8 DEF DropResponder, ClientSituation, TypeOK
    <2> DEFINE c == room[path[i]].responders[s]
    <2>2. c \in Client
        BY <1>8, <2>1 DEF DropResponder, TypeOK, Room
    <2>3. RemoveClient(room[path[i]], c) \in Room
        BY <2>1, <2>2, RemoveClientType DEF TypeOK
    <2>4. state' \in [Client -> {"restricted", "authenticated", "dropped"}]
        BY <1>8, <2>2 DEF DropResponder, Dropped, TypeOK
    <2> QED BY <1>8, <2>1, <2>3, <2>4 DEF DropResponder, TypeOK, registry
<1>9. ASSUME CloseProtocols
      PROVE  TypeOK'
    <2>1. room' \in [PathNumber -> Room]
        BY <1>9 DEF CloseProtocols, TypeOK, Room
    <2>2. state' \in [Client -> {"restricted", "authenticated", "dropped"}]
        BY <1>9 DEF CloseProtocols, Dropped, TypeOK
    <2> QED BY <1>9, <2>1, <2>2 DEF CloseProtocols, TypeOK, registry
<1>10. ASSUME Close
       PROVE  TypeOK'
    BY <1>10 DEF Close, TypeOK, registry
<1>11. CASE UNCHANGED vars
    BY <1>11 DEF vars, TypeOK
<1> QED BY <1>1, <1>2, <1>3, <1>4, <1>5, <1>6, <1>7, <1>8, <1>9, <1>10, <1>11
       DEF Next

---------------------------------------------------------------------------
(* The inductive invariant, one action at a time.                          *)

Rest == /\ RegistryInv /\ ClientSituation /\ MembersMatch /\ DetachedIsEmpty
        /\ InitiatorReachable /\ HandshakeIsPending /\ NoPathLeak

LEMMA RestInit == Init => Rest
<1> SUFFICES ASSUME Init PROVE Rest
    OBVIOUS
<1>1. RegistryInv
    <2>1. \A k \in Key : paths[IndexOnGet(k)] = 0
        BY DEF Init, IndexOnGet, Index
    <2> QED BY <2>1 DEF Init, RegistryInv, PathNumber
<1>2. ClientSituation /\ InitiatorReachable /\ HandshakeIsPending
    BY DEF Init, ClientSituation, InitiatorReachable, HandshakeIsPending, Live
<1>3. MembersMatch /\ DetachedIsEmpty /\ NoPathLeak
    BY PathsAssumption
       DEF Init, MembersMatch, DetachedIsEmpty, NoPathLeak, EmptyRoom, NoResponders
<1> QED BY <1>1, <1>2, <1>3 DEF Rest

\* Paths.get returns a path of this key and changes no other attached path.
LEMMA GetRegistry ==
    ASSUME TypeOK, RegistryInv, NEW k \in Key, Get(k)
    PROVE  /\ RegistryInv'
           /\ initiatorKey'[Lookup(k)] = k
           /\ \A p \in PathNumber \ {Lookup(k)} : attached'[p] = attached[p]
           /\ attached[Lookup(k)] => attached'[Lookup(k)]
<1>1. \A j \in Key : IndexOnGet(j) \in Index /\ (IndexOnGet(j) = IndexOnGet(k) => j = k)
    BY DEF IndexOnGet, Index
<1>2. CASE paths[IndexOnGet(k)] = 0
    <2>1. number + 1 \in PathNumber /\ number \in Nat /\ number' = number + 1
        BY <1>2, PathsAssumption DEF Get, TypeOK, PathNumber
    <2>2. \A p \in PathNumber : p <= number' <=> p <= number \/ p = number + 1
        BY <2>1 DEF PathNumber
    <2>3. initiatorKey' = [initiatorKey EXCEPT ![number + 1] = k]
          /\ attached' = [attached EXCEPT ![number + 1] = TRUE]
          /\ paths' = [paths EXCEPT ![IndexOnGet(k)] = number + 1]
        BY <1>2 DEF Get
    <2>4. ASSUME NEW p \in PathNumber
          PROVE  /\ p > number' => ~attached'[p]
                 /\ p <= number' => initiatorKey'[p] \in Key
                 /\ p <= number' /\ (attached'[p] \/ Splice)
                       => paths'[IndexOnGet(initiatorKey'[p])] = p
        <3>1. CASE p = number + 1
            BY <1>1, <2>1, <2>3, <3>1 DEF TypeOK
        <3>2. CASE p # number + 1
            <4>1. attached'[p] = attached[p] /\ initiatorKey'[p] = initiatorKey[p]
                BY <2>1, <2>3, <3>2 DEF TypeOK
            <4>2. /\ p > number => ~attached[p]
                  /\ p <= number => initiatorKey[p] \in Key
                  /\ p <= number /\ (attached[p] \/ Splice)
                       => paths[IndexOnGet(initiatorKey[p])] = p
                BY DEF RegistryInv
            <4>3. p > number' => p > number
                BY <2>1 DEF PathNumber
            <4>4. ASSUME p <= number, paths[IndexOnGet(initiatorKey[p])] = p
                  PROVE  paths'[IndexOnGet(initiatorKey[p])] = p
                <5>1. IndexOnGet(initiatorKey[p]) # IndexOnGet(k)
                    BY <1>2, <4>4 DEF PathNumber
                <5> QED BY <2>3, <4>2, <4>4, <5>1, <1>1 DEF TypeOK
            <4> QED BY <2>2, <3>2, <4>1, <4>2, <4>3, <4>4
        <3> QED BY <3>1, <3>2
    <2>5. ASSUME NEW j \in Key, paths'[IndexOnGet(j)] # 0
          PROVE  LET p == paths'[IndexOnGet(j)] IN
                 p <= number' /\ initiatorKey'[p] = j /\ (attached'[p] \/ Splice)
        <3>1. CASE j = k
            BY <1>1, <2>1, <2>3, <3>1 DEF TypeOK
        <3>2. CASE j # k
            <4> DEFINE q == paths[IndexOnGet(j)]
            <4>1. paths'[IndexOnGet(j)] = q /\ q \in PathNumber
                BY <1>1, <2>3, <2>5, <3>2 DEF TypeOK
            <4>2. q <= number /\ initiatorKey[q] = j /\ (attached[q] \/ Splice)
                BY <2>5, <4>1 DEF RegistryInv, PathNumber
            <4>3. q # number + 1 /\ q <= number'
                BY <2>1, <4>1, <4>2 DEF PathNumber
            <4> QED BY <2>1, <2>3, <4>1, <4>2, <4>3 DEF TypeOK
        <3> QED BY <3>1, <3>2
    <2>6. RegistryInv'
        BY <2>4, <2>5 DEF RegistryInv, IndexOnGet
    <2> QED BY <1>2, <2>1, <2>3, <2>6 DEF Lookup, TypeOK
<1>3. CASE paths[IndexOnGet(k)] # 0
    <2>1. UNCHANGED registry
        BY <1>3 DEF Get
    <2>2. RegistryInv'
        BY <2>1 DEF registry, RegistryInv, IndexOnGet
    <2> QED BY <1>1, <1>3, <2>1, <2>2 DEF Lookup, RegistryInv, registry, TypeOK
<1> QED BY <1>2, <1>3

LEMMA RestConnect ==
    ASSUME TypeOK, RegistryInv, ClientSituation, MembersMatch, DetachedIsEmpty,
           InitiatorReachable, HandshakeIsPending, NoPathLeak, TypeOK',
           NEW c \in Client, NEW k \in Key, Connect(c, k)
    PROVE  Rest'
<1> DEFINE q == Lookup(k)
<1>0. q = Lookup(k)
    OBVIOUS
<1>1. q \in PathNumber /\ RegistryInv' /\ Get(k)
    BY GetType, GetRegistry DEF Connect
<1>2. \A p \in PathNumber \ {q} : attached'[p] = attached[p]
    BY <1>1, GetRegistry
<1>3. attached[q] => attached'[q]
    BY <1>1, GetRegistry
<1>4. path[c] = 0 /\ state[c] = "restricted" /\ phase[c] = "new"
    BY DEF Connect, ClientSituation
<1>5. UNCHANGED <<state, id, closing>>
    BY DEF Connect
<1> HIDE DEF q
<1>6. CASE attached'[q]
    <2>1. /\ room' = [room EXCEPT ![q] = AddPending(room[q], c)]
          /\ path' = [path EXCEPT ![c] = q]
          /\ phase' = [phase EXCEPT ![c] = "handshake"]
        BY <1>0, <1>6 DEF Connect
    <2>2. /\ room'[q].pending = room[q].pending \cup {c}
          /\ room'[q].initiator = room[q].initiator
          /\ room'[q].responders = room[q].responders
          /\ \A p \in PathNumber \ {q} : room'[p] = room[p]
        BY <1>1, <2>1 DEF TypeOK, AddPending, Room
    <2>3. /\ path'[c] = q /\ phase'[c] = "handshake"
          /\ \A x \in Client \ {c} : path'[x] = path[x] /\ phase'[x] = phase[x]
        BY <2>1 DEF TypeOK
    <2>4. ClientSituation'
        BY <1>1, <1>4, <1>5, <2>3 DEF ClientSituation, PathNumber
    <2>5. MembersMatch'
        <3>1. \A p \in PathNumber :
                  /\ c \notin room[p].pending /\ room[p].initiator # c
                  /\ \A s \in ResponderAddress : room[p].responders[s] # c
            BY <1>4 DEF MembersMatch
        <3>2. ASSUME NEW p \in PathNumber, NEW x \in Client \ {c}
              PROVE  /\ x \in room'[p].pending <=> x \in room[p].pending
                     /\ room'[p].initiator = room[p].initiator
                     /\ room'[p].responders = room[p].responders
            BY <2>2
        <3>3. \A p \in PathNumber :
                  /\ c \in room'[p].pending => p = q
                  /\ room'[p].initiator # c
                  /\ \A s \in ResponderAddress : room'[p].responders[s] # c
            BY <2>2, <3>1
        <3> QED BY <1>4, <1>5, <2>3, <3>2, <3>3 DEF MembersMatch
    <2>6. DetachedIsEmpty'
        BY <1>2, <1>6, <2>2 DEF DetachedIsEmpty
    <2>7. InitiatorReachable'
        <3>1. \A p \in PathNumber : room'[p].initiator = room[p].initiator
            BY <2>2
        <3>2. \A x \in Client \ {c} : phase[x] \in Live => path[x] \in PathNumber
            BY DEF ClientSituation, TypeOK, Live
        <3> QED BY <1>4, <1>5, <2>3, <3>1, <3>2 DEF InitiatorReachable
    <2>8. HandshakeIsPending'
        <3>1. ASSUME NEW x \in Client, phase'[x] = "handshake", closing' # "swept"
              PROVE  attached'[path'[x]] /\ x \in room'[path'[x]].pending
            <4>1. CASE x = c
                BY <1>6, <2>2, <2>3, <4>1
            <4>2. CASE x # c
                <5>1. attached[path[x]] /\ x \in room[path[x]].pending
                    BY <1>5, <2>3, <3>1, <4>2 DEF HandshakeIsPending
                <5>2. path'[x] = path[x] /\ path[x] \in PathNumber
                    BY <2>3, <3>1, <4>2 DEF ClientSituation, TypeOK
                <5> QED BY <1>2, <1>6, <2>2, <5>1, <5>2
            <4> QED BY <4>1, <4>2
        <3> QED BY <3>1 DEF HandshakeIsPending
    <2>9. NoPathLeak'
        BY <1>2, <1>4, <1>6, <2>3 DEF NoPathLeak, Live
    <2> QED BY <1>1, <2>4, <2>5, <2>6, <2>7, <2>8, <2>9 DEF Rest
<1>7. CASE ~attached'[q]
    <2>1. phase' = [phase EXCEPT ![c] = "refused"] /\ UNCHANGED <<room, path>>
        BY <1>0, <1>7 DEF Connect
    <2>2. phase'[c] = "refused" /\ \A x \in Client \ {c} : phase'[x] = phase[x]
        BY <2>1 DEF TypeOK
    <2>3. \A p \in PathNumber : attached'[p] = attached[p]
        BY <1>2, <1>3, <1>7 DEF TypeOK
    <2>4. ClientSituation' /\ MembersMatch'
        BY <1>4, <1>5, <2>1, <2>2 DEF ClientSituation, MembersMatch
    <2>5. DetachedIsEmpty' /\ NoPathLeak'
        BY <1>4, <2>1, <2>2, <2>3 DEF DetachedIsEmpty, NoPathLeak, Live
    <2>6. InitiatorReachable'
        BY <1>4, <1>5, <2>1, <2>2 DEF InitiatorReachable, Live
    <2>7. HandshakeIsPending'
        BY <1>4, <1>5, <2>1, <2>2, <2>3
           DEF HandshakeIsPending, ClientSituation, TypeOK
    <2> QED BY <1>1, <2>4, <2>5, <2>6, <2>7 DEF Rest
<1> QED BY <1>6, <1>7

\* A client whose handler has a path has one of PathNumber.
LEMMA HasPath ==
    ASSUME TypeOK, ClientSituation, NEW c \in Client,
           phase[c] \notin {"new", "refused"}
    PROVE  path[c] \in PathNumber
BY DEF TypeOK, ClientSituation

LEMMA RestAuthInitiator ==
    ASSUME TypeOK, RegistryInv, ClientSituation, MembersMatch, DetachedIsEmpty,
           InitiatorReachable, HandshakeIsPending, NoPathLeak, TypeOK',
           NEW c \in Client, AuthInitiator(c)
    PROVE  Rest'
<1> DEFINE q == path[c]
           previous == room[q].initiator
<1>1. phase[c] = "handshake" /\ attached[q] /\ c \in room[q].pending
    BY DEF AuthInitiator, MayAuthenticate
<1>2. q \in PathNumber /\ state[c] = "restricted"
    BY <1>1, HasPath DEF ClientSituation
<1>3. UNCHANGED <<registry, path, closing>>
    BY DEF AuthInitiator
<1>4. /\ room'[q].pending = room[q].pending \ {c}
      /\ room'[q].initiator = c
      /\ room'[q].responders = room[q].responders
      /\ \A p \in PathNumber \ {q} : room'[p] = room[p]
    BY <1>2 DEF AuthInitiator, TypeOK, SetInitiator, Room
<1>5. /\ phase'[c] = "greeting" /\ state'[c] = "authenticated"
      /\ id'[c] = InitiatorAddress
      /\ \A x \in Client \ {c} : phase'[x] = phase[x] /\ id'[x] = id[x]
      /\ \A x \in Client \ {c, previous} : state'[x] = state[x]
    BY DEF AuthInitiator, TypeOK
<1>6. previous \in Client => /\ previous # c /\ state[previous] = "authenticated"
                             /\ state'[previous] = "dropped"
                             /\ phase[previous] \in {"greeting", "serving"}
    BY <1>1, <1>2 DEF AuthInitiator, MembersMatch, Dropped
<1> HIDE DEF q, previous
<1>7. RegistryInv' /\ ClientSituation' /\ NoPathLeak'
    <2>1. RegistryInv'
        BY <1>3 DEF RegistryInv, registry, IndexOnGet
    <2>2. ClientSituation'
        BY <1>1, <1>3, <1>5, <1>6
           DEF ClientSituation, InitiatorAddress, ServerAddress
    <2>3. NoPathLeak'
        BY <1>1, <1>3, <1>5 DEF NoPathLeak, registry, Live
    <2> QED BY <2>1, <2>2, <2>3
<1>8. MembersMatch'
    <2>1. previous \in Client => /\ id[previous] = InitiatorAddress
                                 /\ \A p \in PathNumber : previous \notin room[p].pending
        BY <1>2 DEF MembersMatch, previous
    <2>2. \A p \in PathNumber, x \in Client : room'[p].initiator = x =>
              \/ p = q /\ x = c
              \/ room[p].initiator = x /\ x # c /\ x # previous
        BY <1>1, <1>2, <1>4 DEF MembersMatch, previous
    <2>3. \A p \in PathNumber, s \in ResponderAddress, x \in Client :
              room'[p].responders[s] = x =>
                  room[p].responders[s] = x /\ x # c /\ x # previous
        BY <1>2, <1>4, <2>1 DEF MembersMatch, ResponderAddress, InitiatorAddress
    <2>4. \A p \in PathNumber, x \in Client : x \in room'[p].pending =>
              x \in room[p].pending /\ x # c /\ x # previous
        BY <1>1, <1>4, <2>1 DEF MembersMatch, q
    <2> QED BY <1>3, <1>5, <2>2, <2>3, <2>4 DEF MembersMatch, q
<1>9. DetachedIsEmpty'
    BY <1>1, <1>3, <1>4 DEF DetachedIsEmpty, registry
<1>10. InitiatorReachable'
    <2>1. ASSUME NEW x \in Client, phase'[x] \in Live, state'[x] = "authenticated",
                 id'[x] = InitiatorAddress
          PROVE  room'[path'[x]].initiator = x
        <3>1. CASE x = c
            BY <1>3, <1>4, <3>1 DEF q
        <3>2. CASE x # c
            <4>1. x # previous /\ state[x] = "authenticated" /\ phase[x] \in Live
                BY <1>5, <1>6, <2>1, <3>2
            <4>2. room[path[x]].initiator = x
                BY <1>5, <2>1, <3>2, <4>1 DEF InitiatorReachable
            <4>3. path[x] # q /\ path[x] \in PathNumber
                BY <4>1, <4>2, HasPath DEF previous, Live
            <4> QED BY <1>3, <1>4, <4>2, <4>3
        <3> QED BY <3>1, <3>2
    <2> QED BY <2>1 DEF InitiatorReachable
<1>11. HandshakeIsPending'
    <2>1. ASSUME NEW x \in Client, phase'[x] = "handshake", closing' # "swept"
          PROVE  attached'[path'[x]] /\ x \in room'[path'[x]].pending
        <3>1. x # c /\ phase[x] = "handshake"
            BY <1>5, <2>1
        <3>2. attached[path[x]] /\ x \in room[path[x]].pending /\ path[x] \in PathNumber
            BY <1>3, <2>1, <3>1, HasPath DEF HandshakeIsPending
        <3> QED BY <1>3, <1>4, <3>1, <3>2 DEF registry
    <2> QED BY <2>1 DEF HandshakeIsPending
<1> QED BY <1>7, <1>8, <1>9, <1>10, <1>11 DEF Rest

LEMMA RestAuthResponder ==
    ASSUME TypeOK, RegistryInv, ClientSituation, MembersMatch, DetachedIsEmpty,
           InitiatorReachable, HandshakeIsPending, NoPathLeak, TypeOK',
           NEW c \in Client, AuthResponder(c)
    PROVE  Rest'
<1> DEFINE q == path[c]
           slot == NextSlot(room[q])
<1>1. phase[c] = "handshake" /\ attached[q] /\ c \in room[q].pending
    BY DEF AuthResponder, MayAuthenticate
<1>2. q \in PathNumber /\ state[c] = "restricted" /\ slot \in ResponderAddress
    BY <1>1, HasPath, FullMeansNoAddress DEF ClientSituation, AuthResponder, TypeOK
<1>3. UNCHANGED <<registry, path, closing>>
    BY DEF AuthResponder
<1>4. /\ room'[q].pending = room[q].pending \ {c}
      /\ room'[q].initiator = room[q].initiator
      /\ room'[q].responders = [room[q].responders EXCEPT ![slot] = c]
      /\ \A p \in PathNumber \ {q} : room'[p] = room[p]
    BY <1>2 DEF AuthResponder, TypeOK, AddResponder, Room
<1>5. /\ phase'[c] = "greeting" /\ state'[c] = "authenticated" /\ id'[c] = slot
      /\ \A x \in Client \ {c} :
             phase'[x] = phase[x] /\ id'[x] = id[x] /\ state'[x] = state[x]
    BY DEF AuthResponder, TypeOK
<1>6. slot # InitiatorAddress /\ slot # ServerAddress
    BY <1>2, PathsAssumption DEF ResponderAddress, InitiatorAddress, ServerAddress
<1>7. /\ room'[q].responders[slot] = c
      /\ \A s \in ResponderAddress \ {slot} : room'[q].responders[s] = room[q].responders[s]
    BY <1>2, <1>4 DEF TypeOK, Room
<1> HIDE DEF q, slot
<1>8. RegistryInv' /\ ClientSituation' /\ NoPathLeak'
    <2>1. RegistryInv'
        BY <1>3 DEF RegistryInv, registry, IndexOnGet
    <2>2. ClientSituation'
        BY <1>1, <1>3, <1>5, <1>6 DEF ClientSituation
    <2>3. NoPathLeak'
        BY <1>1, <1>3, <1>5 DEF NoPathLeak, registry, Live
    <2> QED BY <2>1, <2>2, <2>3
<1>9. MembersMatch'
    <2>1. \A p \in PathNumber, x \in Client : room'[p].initiator = x =>
              room[p].initiator = x /\ x # c
        BY <1>1, <1>4 DEF MembersMatch
    <2>2. \A p \in PathNumber, s \in ResponderAddress, x \in Client :
              room'[p].responders[s] = x =>
                  \/ p = q /\ s = slot /\ x = c
                  \/ room[p].responders[s] = x /\ x # c
        <3>1. \A p \in PathNumber, s \in ResponderAddress : room[p].responders[s] # c
            BY <1>1 DEF MembersMatch
        <3>2. \A p \in PathNumber, s \in ResponderAddress :
                  p # q \/ s # slot => room'[p].responders[s] = room[p].responders[s]
            BY <1>4, <1>7
        <3> QED BY <1>7, <3>1, <3>2
    <2>3. \A p \in PathNumber, x \in Client : x \in room'[p].pending =>
              x \in room[p].pending /\ x # c
        BY <1>1, <1>4 DEF MembersMatch, q
    <2> QED BY <1>3, <1>5, <2>1, <2>2, <2>3 DEF MembersMatch, q
<1>10. DetachedIsEmpty'
    BY <1>1, <1>3, <1>4 DEF DetachedIsEmpty, registry
<1>11. InitiatorReachable'
    <2>1. \A p \in PathNumber : room'[p].initiator = room[p].initiator
        BY <1>4
    <2>2. \A x \in Client \ {c} : phase[x] \in Live => path[x] \in PathNumber
        BY HasPath DEF Live
    <2> QED BY <1>3, <1>5, <1>6, <2>1, <2>2 DEF InitiatorReachable
<1>12. HandshakeIsPending'
    <2>1. ASSUME NEW x \in Client, phase'[x] = "handshake", closing' # "swept"
          PROVE  attached'[path'[x]] /\ x \in room'[path'[x]].pending
        <3>1. x # c /\ phase[x] = "handshake"
            BY <1>5, <2>1
        <3>2. attached[path[x]] /\ x \in room[path[x]].pending /\ path[x] \in PathNumber
            BY <1>3, <2>1, <3>1, HasPath DEF HandshakeIsPending
        <3> QED BY <1>3, <1>4, <3>1, <3>2 DEF registry
    <2> QED BY <2>1 DEF HandshakeIsPending
<1> QED BY <1>8, <1>9, <1>10, <1>11, <1>12 DEF Rest

\* A client that departs, in whatever way.  The path is cleaned exactly when
\* nobody is left on it, so a path that stays attached keeps a live client.
LEMMA RestDepart ==
    ASSUME TypeOK, RegistryInv, ClientSituation, MembersMatch, DetachedIsEmpty,
           InitiatorReachable, HandshakeIsPending, NoPathLeak, TypeOK',
           NEW c \in Client, phase[c] \in Live,
           NEW ph \in {"leaving", "full"}, Depart(c, ph)
    PROVE  Rest'
<1> DEFINE q == path[c]
           r == RemoveClient(room[q], c)
<1>1. q \in PathNumber
    BY HasPath DEF Live
<1>2. UNCHANGED <<path, state, id, closing>>
    BY DEF Depart
<1>3. phase'[c] = ph /\ \A x \in Client \ {c} : phase'[x] = phase[x]
    BY DEF Depart, TypeOK
<1>4. \A x \in Client : phase'[x] \in Live \cup {"handshake", "greeting", "serving", "parked"}
          => x # c /\ phase[x] = phase'[x]
    BY <1>3 DEF Live
<1>5. ClientSituation'
    BY <1>1, <1>2, <1>3 DEF ClientSituation, PathNumber
<1>6. CASE ~attached[q]
    <2>1. UNCHANGED <<registry, room>>
        BY <1>6 DEF Depart
    <2>2. room[q] = EmptyRoom
        BY <1>1, <1>6 DEF DetachedIsEmpty
    <2>3. \A p \in PathNumber : /\ c \notin room[p].pending /\ room[p].initiator # c
                              /\ \A s \in ResponderAddress : room[p].responders[s] # c
        BY <2>2, PathsAssumption DEF MembersMatch, EmptyRoom, NoResponders
    <2>4. MembersMatch'
        BY <1>2, <1>3, <2>1, <2>3 DEF MembersMatch
    <2>5. RegistryInv' /\ DetachedIsEmpty'
        BY <2>1 DEF RegistryInv, DetachedIsEmpty, registry, IndexOnGet
    <2>6. InitiatorReachable' /\ HandshakeIsPending'
        BY <1>2, <1>4, <2>1 DEF InitiatorReachable, HandshakeIsPending, registry
    <2>7. NoPathLeak'
        BY <1>2, <1>3, <1>6, <2>1 DEF NoPathLeak, registry
    <2> QED BY <1>5, <2>4, <2>5, <2>6, <2>7 DEF Rest
<1>7. CASE attached[q]
    <2>1. Clean(q, r) /\ r \in Room
        BY <1>1, <1>7, RemoveClientType DEF Depart, TypeOK
    <2>2. room'[q] = r /\ \A p \in PathNumber \ {q} : room'[p] = room[p]
        BY <1>1, <2>1 DEF Clean, TypeOK
    <2>3. /\ r.pending = room[q].pending \ {c}
          /\ r.initiator \in {room[q].initiator, None}
          /\ \A s \in ResponderAddress : r.responders[s] \in {room[q].responders[s], None}
        BY <1>1, RemoveClientShrinks DEF TypeOK
    <2>4. /\ r.initiator # c
          /\ room[q].initiator # c => r.initiator = room[q].initiator
                                       \/ room[q].initiator \notin Client
          /\ \A s \in ResponderAddress : r.responders[s] # c
        BY <1>1, PathsAssumption
           DEF RemoveClient, MembersMatch, TypeOK, Room, ResponderAddress, InitiatorAddress
    <2> HIDE DEF r
    <2>5. MembersMatch'
        <3>1. ASSUME NEW p \in PathNumber, NEW x \in Client
              PROVE  /\ x \in room'[p].pending => x \in room[p].pending /\ x # c
                     /\ room'[p].initiator = x => room[p].initiator = x /\ x # c
                     /\ \A s \in ResponderAddress :
                            room'[p].responders[s] = x
                            => room[p].responders[s] = x /\ x # c
            <4>1. CASE p = q
                BY <2>2, <2>3, <2>4, <4>1, PathsAssumption
            <4>2. CASE p # q
                BY <2>2, <4>2 DEF MembersMatch
            <4> QED BY <4>1, <4>2
        <3> QED BY <1>2, <1>3, <3>1 DEF MembersMatch
    <2>6. InitiatorReachable'
        <3>1. ASSUME NEW x \in Client, phase'[x] \in Live,
                     state'[x] = "authenticated", id'[x] = InitiatorAddress
              PROVE  room'[path'[x]].initiator = x
            <4>1. x # c /\ room[path[x]].initiator = x
                BY <1>2, <1>4, <3>1 DEF InitiatorReachable
            <4>2. path[x] \in PathNumber
                BY <1>4, <3>1, HasPath DEF Live
            <4> QED BY <1>2, <2>2, <2>4, <4>1, <4>2
        <3> QED BY <3>1 DEF InitiatorReachable
    <2>7. CASE Empty(r)
        <3>1. /\ attached' = [attached EXCEPT ![q] = FALSE]
              /\ paths' = [paths EXCEPT ![IndexOnClean(initiatorKey[q])] = 0]
              /\ UNCHANGED <<number, initiatorKey>>
            BY <2>1, <2>7 DEF Clean
        <3>2. RegistryInv'
            <4>1. /\ ~attached'[q]
                  /\ \A p \in PathNumber \ {q} : attached'[p] = attached[p]
                BY <1>1, <3>1 DEF TypeOK
            <4>2. q <= number /\ initiatorKey[q] \in Key /\ number \in Int
                BY <1>1, <1>7, PathsAssumption DEF RegistryInv, TypeOK, PathNumber
            <4>3. CASE Splice
                <5>1. \A k \in Key : paths'[IndexOnGet(k)] = paths[IndexOnGet(k)]
                    BY <3>1, <4>2, <4>3 DEF TypeOK, IndexOnGet, IndexOnClean, Index
                <5> QED BY <3>1, <4>1, <4>3, <5>1 DEF RegistryInv, IndexOnGet
            <4>4. CASE ~Splice
                <5>1. \A k \in Key : paths'[IndexOnGet(k)] =
                          IF k = initiatorKey[q] THEN 0 ELSE paths[IndexOnGet(k)]
                    BY <3>1, <4>2, <4>4 DEF TypeOK, IndexOnGet, IndexOnClean, Index
                <5>2. paths[IndexOnGet(initiatorKey[q])] = q
                    BY <1>1, <1>7, <4>2 DEF RegistryInv
                <5>3. \A k \in Key : paths'[IndexOnGet(k)] # 0 => paths'[IndexOnGet(k)] # q
                    BY <1>1, <4>2, <5>1, <5>2 DEF RegistryInv, TypeOK, PathNumber
                <5>4. \A p \in PathNumber : p <= number => initiatorKey[p] \in Key
                    BY DEF RegistryInv
                <5>5. \A p \in PathNumber \ {q} : p <= number /\ attached[p]
                          => initiatorKey[p] # initiatorKey[q]
                    BY <5>2 DEF RegistryInv
                <5>6. \A k \in Key : IndexOnGet(k) \in Index
                    BY DEF IndexOnGet, Index
                <5>7. \A k \in Key : LET p == paths'[IndexOnGet(k)] IN
                          p # 0 => /\ p \in PathNumber /\ p # q
                                   /\ p <= number /\ initiatorKey[p] = k /\ attached[p]
                    BY <4>4, <5>1, <5>3, <5>6 DEF RegistryInv, TypeOK
                <5> QED BY <3>1, <4>1, <4>4, <5>1, <5>4, <5>5, <5>7
                        DEF RegistryInv, IndexOnGet
            <4> QED BY <4>3, <4>4, PathsAssumption
        <3>3. DetachedIsEmpty'
            BY <1>1, <2>1, <2>2, <2>7, <3>1, EmptyIsEmptyRoom DEF DetachedIsEmpty, TypeOK
        <3>4. HandshakeIsPending'
            <4>1. ASSUME NEW x \in Client, phase'[x] = "handshake", closing' # "swept"
                  PROVE  attached'[path'[x]] /\ x \in room'[path'[x]].pending
                <5>1. x # c /\ attached[path[x]] /\ x \in room[path[x]].pending
                    BY <1>2, <1>4, <4>1 DEF HandshakeIsPending
                <5>2. path[x] \in PathNumber
                    BY <1>4, <4>1, HasPath
                <5>3. path[x] # q
                    BY <2>3, <2>7, <5>1 DEF Empty
                <5> QED BY <1>2, <2>2, <3>1, <5>1, <5>2, <5>3 DEF TypeOK
            <4> QED BY <4>1 DEF HandshakeIsPending
        <3>5. NoPathLeak'
            BY <1>1, <1>2, <1>3, <3>1 DEF NoPathLeak, TypeOK
        <3> QED BY <1>5, <2>5, <2>6, <3>2, <3>3, <3>4, <3>5 DEF Rest
    <2>8. CASE ~Empty(r)
        <3>1. UNCHANGED registry
            BY <2>1, <2>8 DEF Clean
        <3>2. RegistryInv'
            BY <3>1 DEF RegistryInv, registry, IndexOnGet
        <3>3. DetachedIsEmpty'
            BY <1>7, <2>2, <3>1 DEF DetachedIsEmpty, registry
        <3>4. HandshakeIsPending'
            <4>1. ASSUME NEW x \in Client, phase'[x] = "handshake", closing' # "swept"
                  PROVE  attached'[path'[x]] /\ x \in room'[path'[x]].pending
                <5>1. x # c /\ attached[path[x]] /\ x \in room[path[x]].pending
                    BY <1>2, <1>4, <4>1 DEF HandshakeIsPending
                <5>2. path[x] \in PathNumber
                    BY <1>4, <4>1, HasPath
                <5> QED BY <1>2, <2>2, <2>3, <3>1, <5>1, <5>2 DEF registry
            <4> QED BY <4>1 DEF HandshakeIsPending
        <3>5. NoPathLeak'
            <4>1. PICK x \in Client : \/ x \in room'[q].pending
                                     \/ room'[q].initiator = x
                                     \/ \E s \in ResponderAddress : room'[q].responders[s] = x
                BY <2>1, <2>2, <2>8 DEF Empty, Occupied, Room
            <4>2. path'[x] = q /\ phase'[x] \in Live
                BY <1>1, <2>5, <4>1 DEF MembersMatch, Live
            <4> QED BY <1>2, <1>3, <3>1, <4>2 DEF NoPathLeak, registry
        <3> QED BY <1>5, <2>5, <2>6, <3>2, <3>3, <3>4, <3>5 DEF Rest
    <2> QED BY <2>7, <2>8
<1> QED BY <1>6, <1>7

LEMMA RestHandshakeDone ==
    ASSUME TypeOK, RegistryInv, ClientSituation, MembersMatch, DetachedIsEmpty,
           InitiatorReachable, HandshakeIsPending, NoPathLeak, TypeOK',
           NEW c \in Client, HandshakeDone(c)
    PROVE  Rest'
<1> DEFINE q == path[c]
<1>1. phase[c] = "greeting" /\ q \in PathNumber /\ state[c] # "restricted"
    BY HasPath DEF HandshakeDone, ClientSituation
<1>2. UNCHANGED <<registry, room, path, state, id, closing>>
    BY DEF HandshakeDone
<1>3. \A x \in Client \ {c} : phase'[x] = phase[x]
    BY DEF HandshakeDone, TypeOK
<1>4. phase'[c] \in {"crashed", "serving", "parked"}
    BY DEF HandshakeDone, TypeOK
<1>5. attached[q] => phase'[c] \in Live
    BY DEF HandshakeDone, TypeOK, Live
<1>6. RegistryInv' /\ DetachedIsEmpty'
    BY <1>2 DEF RegistryInv, DetachedIsEmpty, registry, IndexOnGet
<1>7. ClientSituation'
    BY <1>1, <1>2, <1>3, <1>4 DEF ClientSituation
<1>8. MembersMatch'
    <2>1. ASSUME NEW p \in PathNumber,
                 \/ room[p].initiator = c
                 \/ \E s \in ResponderAddress : room[p].responders[s] = c
          PROVE  phase'[c] = "serving"
        <3>1. p = q /\ room[q] # EmptyRoom
            BY <2>1, PathsAssumption DEF MembersMatch, EmptyRoom, NoResponders
        <3>2. attached[q]
            BY <1>1, <3>1 DEF DetachedIsEmpty
        <3>3. HasClient(room[q], c)
            BY <2>1, <3>1, PathsAssumption
               DEF HasClient, MembersMatch, InitiatorAddress, ResponderAddress
        <3> QED BY <3>2, <3>3 DEF HandshakeDone, TypeOK
    <2>2. \A p \in PathNumber : c \notin room[p].pending
        BY <1>1 DEF MembersMatch
    <2> QED BY <1>2, <1>3, <2>1, <2>2 DEF MembersMatch
<1>9. InitiatorReachable'
    BY <1>1, <1>2, <1>3 DEF InitiatorReachable, Live
<1>10. HandshakeIsPending'
    BY <1>2, <1>3, <1>4 DEF HandshakeIsPending, registry
<1>11. NoPathLeak'
    <2>1. ASSUME NEW p \in PathNumber, attached'[p]
          PROVE  \E x \in Client : path'[x] = p /\ phase'[x] \in Live
        <3>1. PICK x \in Client : path[x] = p /\ phase[x] \in Live
            BY <1>2, <2>1 DEF NoPathLeak, registry
        <3>2. phase'[x] \in Live
            BY <1>2, <1>3, <1>5, <2>1, <3>1 DEF registry
        <3> QED BY <1>2, <3>1, <3>2
    <2> QED BY <2>1 DEF NoPathLeak
<1> QED BY <1>6, <1>7, <1>8, <1>9, <1>10, <1>11 DEF Rest

LEMMA RestUnregister ==
    ASSUME TypeOK, RegistryInv, ClientSituation, MembersMatch, DetachedIsEmpty,
           InitiatorReachable, HandshakeIsPending, NoPathLeak, TypeOK',
           NEW c \in Client, Unregister(c)
    PROVE  Rest'
<1>1. UNCHANGED <<registry, room, path, state, id, closing>>
    BY DEF Unregister
<1>2. /\ phase[c] \in {"leaving", "full"} /\ phase'[c] = "gone"
      /\ \A x \in Client \ {c} : phase'[x] = phase[x]
    BY DEF Unregister, TypeOK
<1>3. RegistryInv' /\ DetachedIsEmpty' /\ ClientSituation'
    BY <1>1, <1>2
       DEF RegistryInv, DetachedIsEmpty, ClientSituation, registry, IndexOnGet
<1>4. MembersMatch'
    BY <1>1, <1>2 DEF MembersMatch
<1>5. InitiatorReachable' /\ HandshakeIsPending' /\ NoPathLeak'
    BY <1>1, <1>2
       DEF InitiatorReachable, HandshakeIsPending, NoPathLeak, registry, Live
<1> QED BY <1>3, <1>4, <1>5 DEF Rest

LEMMA RestClose ==
    ASSUME TypeOK, RegistryInv, ClientSituation, MembersMatch, DetachedIsEmpty,
           InitiatorReachable, HandshakeIsPending, NoPathLeak, TypeOK', Close
    PROVE  Rest'
<1>1. UNCHANGED <<registry, room, path, state, id, phase>> /\ closing # "swept"
    BY DEF Close
<1>2. RegistryInv' /\ ClientSituation'
    BY <1>1 DEF registry, RegistryInv, ClientSituation, IndexOnGet
<1>3. MembersMatch' /\ DetachedIsEmpty'
    BY <1>1 DEF registry, MembersMatch, DetachedIsEmpty
<1>4. InitiatorReachable' /\ HandshakeIsPending' /\ NoPathLeak'
    BY <1>1 DEF registry, InitiatorReachable, HandshakeIsPending, NoPathLeak
<1> QED BY <1>2, <1>3, <1>4 DEF Rest

LEMMA RestDropResponder ==
    ASSUME TypeOK, RegistryInv, ClientSituation, MembersMatch, DetachedIsEmpty,
           InitiatorReachable, HandshakeIsPending, NoPathLeak, TypeOK',
           NEW i \in Client, NEW s \in ResponderAddress, DropResponder(i, s)
    PROVE  Rest'
<1> DEFINE q == path[i]
           c == room[q].responders[s]
<1>1. phase[i] = "serving" /\ attached[q] /\ c # None /\ q \in PathNumber
    BY HasPath DEF DropResponder
<1>2. c \in Client
    BY <1>1 DEF TypeOK, Room
<1>3. /\ path[c] = q /\ phase[c] \in {"greeting", "serving"}
      /\ state[c] = "authenticated" /\ id[c] = s
    BY <1>1, <1>2 DEF MembersMatch
<1>4. UNCHANGED <<registry, path, id, phase, closing>>
    BY DEF DropResponder
<1>5. state'[c] = "dropped" /\ \A x \in Client \ {c} : state'[x] = state[x]
    BY <1>2, <1>3 DEF DropResponder, TypeOK, Dropped
<1>6. /\ room'[q].pending = room[q].pending \ {c}
      /\ room'[q].initiator = room[q].initiator
      /\ room'[q].responders[s] = None
      /\ \A t \in ResponderAddress \ {s} :
             room'[q].responders[t] = room[q].responders[t]
      /\ \A p \in PathNumber \ {q} : room'[p] = room[p]
    <2>1. s # InitiatorAddress
        BY PathsAssumption DEF ResponderAddress, InitiatorAddress
    <2>2. /\ RemoveClient(room[q], c).pending = room[q].pending \ {c}
          /\ RemoveClient(room[q], c).initiator = room[q].initiator
          /\ \A t \in ResponderAddress :
                 RemoveClient(room[q], c).responders[t] =
                     IF t = s THEN None ELSE room[q].responders[t]
        <3>1. room[q] \in Room /\ state[c] # "restricted" /\ id[c] # InitiatorAddress
            BY <1>1, <1>3, <2>1 DEF TypeOK
        <3> HIDE DEF q, c
        <3> QED BY <1>2, <1>3, <3>1, RemoveResponder
    <2>3. /\ room'[q] = RemoveClient(room[q], c)
          /\ \A p \in PathNumber \ {q} : room'[p] = room[p]
        BY <1>1 DEF DropResponder, TypeOK
    <2> HIDE DEF q, c
    <2> QED BY <2>2, <2>3
<1> HIDE DEF q, c
<1>7. MembersMatch'
    <2>1. ASSUME NEW p \in PathNumber, NEW x \in Client
          PROVE  /\ x \in room'[p].pending => x \in room[p].pending /\ x # c
                 /\ room'[p].initiator = x => room[p].initiator = x /\ x # c
                 /\ \A t \in ResponderAddress : room'[p].responders[t] = x
                        => room[p].responders[t] = x /\ x # c
        <3>1. /\ x \in room'[p].pending => x \in room[p].pending
              /\ room'[p].initiator = room[p].initiator
            BY <1>6
        <3>2. /\ c \notin room[p].pending
              /\ room[p].initiator # c
            <4>1. s # InitiatorAddress
                BY PathsAssumption DEF ResponderAddress, InitiatorAddress
            <4> QED BY <1>2, <1>3, <4>1 DEF MembersMatch
        <3>3. ASSUME NEW t \in ResponderAddress, room'[p].responders[t] = x
              PROVE  room[p].responders[t] = x /\ x # c
            <4>1. ~(p = q /\ t = s)
                BY <1>6, <3>3, PathsAssumption
            <4>2. room[p].responders[t] = x
                BY <1>6, <3>3, <4>1
            <4>3. x = c => p = q /\ t = s
                BY <1>2, <1>3, <4>2 DEF MembersMatch
            <4> QED BY <4>1, <4>2, <4>3
        <3> QED BY <3>1, <3>2, <3>3
    <2> QED BY <1>4, <1>5, <2>1 DEF MembersMatch
<1>8. RegistryInv' /\ NoPathLeak'
    BY <1>4 DEF RegistryInv, NoPathLeak, registry, IndexOnGet
<1>9. ClientSituation'
    BY <1>3, <1>4, <1>5 DEF ClientSituation
<1>10. DetachedIsEmpty'
    BY <1>1, <1>4, <1>6 DEF DetachedIsEmpty, registry
<1>11. InitiatorReachable'
    <2>1. \A p \in PathNumber : room'[p].initiator = room[p].initiator
        BY <1>6
    <2> QED BY <1>4, <1>5, <2>1, HasPath DEF InitiatorReachable, Live
<1>12. HandshakeIsPending'
    <2>1. ASSUME NEW x \in Client, phase[x] = "handshake", closing # "swept"
          PROVE  attached[path[x]] /\ x \in room'[path[x]].pending
        <3>1. attached[path[x]] /\ x \in room[path[x]].pending /\ path[x] \in PathNumber
            BY <2>1, HasPath DEF HandshakeIsPending
        <3> QED BY <1>3, <1>6, <2>1, <3>1
    <2> QED BY <1>4, <2>1 DEF HandshakeIsPending, registry
<1> QED BY <1>7, <1>8, <1>9, <1>10, <1>11, <1>12 DEF Rest

\* Everybody on a path is registered and is found where its state and id say,
\* so closing the server leaves every path empty.
\* Closing the protocols empties every path.
LEMMA SweptEmpty ==
    ASSUME TypeOK, MembersMatch, DetachedIsEmpty, CloseProtocols, NEW p \in PathNumber
    PROVE  room'[p] = EmptyRoom
<1> DEFINE closed == {c \in Client : phase[c] \in Registered}
           Left(q) == {c \in closed : path[c] = q /\ attached[q]}
           Auth(q) == {c \in Left(q) : state[c] # "restricted"}
<1>1. room'[p] = [pending    |-> room[p].pending \ Left(p),
                  initiator  |-> IF room[p].initiator \in Left(p) THEN None
                                                         ELSE room[p].initiator,
                  responders |-> [s \in ResponderAddress |->
                                     IF \E c \in Auth(p) : id[c] = s THEN None
                                     ELSE room[p].responders[s]]]
    BY DEF CloseProtocols
<1>2. CASE ~attached[p]
    <2>1. room[p] = EmptyRoom /\ Left(p) = {}
        BY <1>2 DEF DetachedIsEmpty
    <2> QED BY <1>1, <2>1 DEF EmptyRoom, NoResponders
<1>3. CASE attached[p]
    <2>1. room[p].pending \subseteq Left(p)
        BY <1>3 DEF MembersMatch, Registered, Live, TypeOK, Room
    <2>2. room[p].initiator = None \/ room[p].initiator \in Left(p)
        BY <1>3 DEF MembersMatch, Registered, Live, TypeOK, Room
    <2>3. \A s \in ResponderAddress :
              room[p].responders[s] = None
              \/ /\ room[p].responders[s] \in Auth(p)
                 /\ id[room[p].responders[s]] = s
        BY <1>3 DEF MembersMatch, Registered, Live, TypeOK, Room
    <2>4. /\ room'[p].pending = {} /\ room'[p].initiator = None
          /\ room'[p].responders = NoResponders
        BY <1>1, <2>1, <2>2, <2>3 DEF NoResponders
    <2> QED BY <1>1, <2>4 DEF EmptyRoom
<1> QED BY <1>2, <1>3

LEMMA RestCloseProtocols ==
    ASSUME TypeOK, RegistryInv, ClientSituation, MembersMatch, DetachedIsEmpty,
           InitiatorReachable, HandshakeIsPending, NoPathLeak, TypeOK',
           CloseProtocols
    PROVE  Rest'
<1> DEFINE closed == {c \in Client : phase[c] \in Registered}
<1>1. UNCHANGED <<registry, path, id, phase>> /\ closing' = "swept"
    BY DEF CloseProtocols
<1>2. \A c \in Client : /\ state'[c] = IF c \in closed THEN Dropped(state[c]) ELSE state[c]
    BY DEF CloseProtocols
<1>3. \A c \in Client : c \in closed => state'[c] # "authenticated"
    BY <1>2 DEF Dropped
<1>4. \A c \in Client : state'[c] = "restricted" <=> state[c] = "restricted"
    BY <1>2 DEF Dropped, TypeOK
<1>5. \A p \in PathNumber : room'[p] = EmptyRoom
    BY SweptEmpty
<1> HIDE DEF closed
<1>6. RegistryInv' /\ NoPathLeak'
    BY <1>1 DEF RegistryInv, NoPathLeak, registry, IndexOnGet
<1>7. ClientSituation'
    BY <1>1, <1>4 DEF ClientSituation
<1>8. MembersMatch' /\ DetachedIsEmpty'
    BY <1>5, PathsAssumption DEF MembersMatch, DetachedIsEmpty, EmptyRoom, NoResponders
<1>9. InitiatorReachable'
    BY <1>1, <1>3 DEF InitiatorReachable, Live, Registered, closed
<1>10. HandshakeIsPending'
    BY <1>1 DEF HandshakeIsPending
<1> QED BY <1>6, <1>7, <1>8, <1>9, <1>10 DEF Rest

---------------------------------------------------------------------------
(* The theorems.                                                           *)

LEMMA InvNext == IInv /\ [Next]_vars => IInv'
<1> SUFFICES ASSUME TypeOK, RegistryInv, ClientSituation, MembersMatch,
                    DetachedIsEmpty, InitiatorReachable, HandshakeIsPending,
                    NoPathLeak, [Next]_vars
             PROVE  TypeOK' /\ Rest'
    BY DEF IInv, Rest
<1>1. TypeOK'
    BY TypeNext
<1>2. ASSUME NEW c \in Client, NEW k \in Key, Connect(c, k)
      PROVE  Rest'
    BY <1>1, <1>2, RestConnect
<1>3. ASSUME NEW c \in Client, AuthInitiator(c)
      PROVE  Rest'
    BY <1>1, <1>3, RestAuthInitiator
<1>4. ASSUME NEW c \in Client, AuthResponder(c)
      PROVE  Rest'
    BY <1>1, <1>4, RestAuthResponder
<1>5. ASSUME NEW c \in Client, SlotsFull(c)
      PROVE  Rest'
    <2>1. phase[c] \in Live /\ Depart(c, "full")
        BY <1>5 DEF SlotsFull, Live
    <2> QED BY <1>1, <2>1, RestDepart
<1>6. ASSUME NEW c \in Client, Leave(c)
      PROVE  Rest'
    <2>1. phase[c] \in Live /\ Depart(c, "leaving")
        BY <1>6 DEF Leave
    <2> QED BY <1>1, <2>1, RestDepart
<1>7. ASSUME NEW c \in Client, HandshakeDone(c)
      PROVE  Rest'
    BY <1>1, <1>7, RestHandshakeDone
<1>8. ASSUME NEW c \in Client, Unregister(c)
      PROVE  Rest'
    BY <1>1, <1>8, RestUnregister
<1>9. ASSUME NEW i \in Client, NEW s \in ResponderAddress, DropResponder(i, s)
      PROVE  Rest'
    BY <1>1, <1>9, RestDropResponder
<1>10. CASE CloseProtocols
    BY <1>1, <1>10, RestCloseProtocols
<1>11. CASE UNCHANGED vars
    <2>1. RegistryInv' /\ ClientSituation'
        BY <1>11 DEF vars, RegistryInv, ClientSituation, IndexOnGet
    <2>2. MembersMatch' /\ DetachedIsEmpty'
        BY <1>11 DEF vars, MembersMatch, DetachedIsEmpty
    <2>3. InitiatorReachable' /\ HandshakeIsPending' /\ NoPathLeak'
        BY <1>11 DEF vars, InitiatorReachable, HandshakeIsPending, NoPathLeak
    <2> QED BY <1>1, <2>1, <2>2, <2>3 DEF Rest
<1>12. CASE Close
    BY <1>1, <1>12, RestClose
<1>13. ASSUME Next
       PROVE  Rest'
    BY <1>2, <1>3, <1>4, <1>5, <1>6, <1>7, <1>8, <1>9, <1>10, <1>12, <1>13
       DEF Next
<1> QED BY <1>1, <1>11, <1>13

\* The invariant of the paths holds in every state: the types, the registry,
\* the agreement of paths and clients, whatever __splice__ is.
THEOREM PathsInvariant == Spec => []IInv
<1>1. Init => IInv
    BY TypeInit, RestInit DEF Rest, IInv
<1>2. IInv /\ [Next]_vars => IInv'
    BY InvNext
<1> QED BY <1>1, <1>2, PTL DEF Spec

\* The variables keep their types.
THEOREM TypeCorrect == Spec => []TypeOK
<1>1. IInv => TypeOK
    BY DEF IInv
<1> QED BY <1>1, PathsInvariant, PTL

\* Whoever is found on a path is a live client of it, in its own place.
THEOREM MembersAreLive == Spec => []MembersMatch
<1>1. IInv => MembersMatch
    BY DEF IInv
<1> QED BY <1>1, PathsInvariant, PTL

\* An authenticated initiator is its path's initiator until it leaves or is
\* dropped.
THEOREM InitiatorStaysReachable == Spec => []InitiatorReachable
<1>1. IInv => InitiatorReachable
    BY DEF IInv
<1> QED BY <1>1, PathsInvariant, PTL

\* No two attached paths belong to one key, with and without Splice.
THEOREM PathPerKey == Spec => []OnePathPerKey
<1>1. IInv => OnePathPerKey
    <2>1. IInv => \A p \in PathNumber : attached[p] =>
                      paths[IndexOnGet(initiatorKey[p])] = p
        <3> SUFFICES ASSUME IInv, NEW p \in PathNumber, attached[p]
                     PROVE  paths[IndexOnGet(initiatorKey[p])] = p
            OBVIOUS
        <3>1. p <= number
            BY PathsAssumption DEF IInv, RegistryInv, TypeOK, PathNumber
        <3> QED BY <3>1 DEF IInv, RegistryInv
    <2> QED BY <2>1 DEF OnePathPerKey
<1> QED BY <1>1, PathsInvariant, PTL

\* Without Splice the registry holds exactly the attached paths.
THEOREM RegistryIsExact == Spec => []RegistryExact
<1>1. IInv => RegistryExact
    <2> SUFFICES ASSUME IInv, ~Splice PROVE RegistryExact
        BY DEF RegistryExact
    <2>1. \A p \in PathNumber : attached[p] => paths[IndexOnGet(initiatorKey[p])] = p
        BY PathsAssumption DEF IInv, RegistryInv, TypeOK, PathNumber
    <2> QED BY <2>1 DEF IInv, RegistryInv, RegistryExact
<1> QED BY <1>1, PathsInvariant, PTL

\* A path lives exactly as long as it has clients: no handshake loses its path, no
\* client stays on a detached one, and who is left will clean it.
THEOREM PathsAreCleaned == Spec => []PathLifetime
<1>1. IInv => PathLifetime
    BY DEF IInv, PathLifetime
<1> QED BY <1>1, PathsInvariant, PTL

\* SlotsFullError means that no responder address is free.
THEOREM SlotsFullSound == Spec => SlotsFullOnlyWhenFull
<1> DEFINE A == \A c \in Client :
                   phase[c] # "full" /\ phase'[c] = "full"
                   => Occupied(room[path[c]]) = ResponderAddress
<1>1. ASSUME IInv, [Next]_vars
      PROVE  [A]_vars
    <2> SUFFICES ASSUME Next, NEW c \in Client, phase[c] # "full", phase'[c] = "full"
                 PROVE  Occupied(room[path[c]]) = ResponderAddress
        BY <1>1
    <2> USE <1>1 DEF IInv
    <2>1. SlotsFull(c)
        <3>1. ASSUME NEW d \in Client, NEW k \in Key, Connect(d, k)
              PROVE  FALSE
            BY <3>1 DEF Connect, TypeOK
        <3>2. ASSUME NEW d \in Client,
                     AuthInitiator(d) \/ AuthResponder(d) \/ HandshakeDone(d) \/ Unregister(d)
              PROVE  FALSE
            BY <3>2 DEF AuthInitiator, AuthResponder, HandshakeDone, Unregister, TypeOK
        <3>3. ASSUME NEW d \in Client, Leave(d)
              PROVE  FALSE
            BY <3>3 DEF Leave, Depart, TypeOK
        <3>4. ASSUME NEW d \in Client, SlotsFull(d)
              PROVE  d = c
            BY <3>4 DEF SlotsFull, Depart, TypeOK
        <3>5. ASSUME NEW i \in Client, NEW s \in ResponderAddress, DropResponder(i, s)
              PROVE  FALSE
            BY <3>5 DEF DropResponder
        <3>6. ~Close /\ ~CloseProtocols
            BY DEF Close, CloseProtocols
        <3> QED BY <3>1, <3>2, <3>3, <3>4, <3>5, <3>6 DEF Next
    <2>2. path[c] \in PathNumber
        BY <2>1, HasPath DEF SlotsFull
    <2> QED BY <2>1, <2>2, NoSlotLeft DEF SlotsFull, TypeOK
<1> QED BY <1>1, PathsInvariant, PTL DEF Spec, SlotsFullOnlyWhenFull

---------------------------------------------------------------------------
(* The paths implement the abstract seats of the initiators.               *)

\* c is an initiator of key k that has neither left nor been dropped.
Seated(c, k) == /\ phase[c] \in Live /\ state[c] = "authenticated"
                /\ id[c] = InitiatorAddress
                /\ initiatorKey[path[c]] = k

\* Holder, read off the clients instead of the paths.
SeatsMatch ==
    \A k \in Key : /\ Holder[k] \in Client \cup {None}
                  /\ \A c \in Client : Holder[k] = c <=> Seated(c, k)

LEMMA HolderIsSeated == IInv => SeatsMatch
<1> SUFFICES ASSUME IInv, NEW k \in Key
             PROVE  /\ Holder[k] \in Client \cup {None}
                    /\ \A c \in Client : Holder[k] = c <=> Seated(c, k)
    BY DEF SeatsMatch
<1> DEFINE p == paths[IndexOnGet(k)]
<1> USE DEF IInv
<1>1. Holder[k] = IF p = 0 THEN None ELSE room[p].initiator
    BY DEF Holder
<1>2. IndexOnGet(k) \in Index
    BY DEF IndexOnGet, Index
<1>3. p # 0 => p \in PathNumber /\ initiatorKey[p] = k
    BY <1>2 DEF TypeOK, RegistryInv
<1>4. Holder[k] \in Client \cup {None}
    BY <1>1, <1>3 DEF TypeOK, Room
<1>5. ASSUME NEW c \in Client, Holder[k] = c
      PROVE  Seated(c, k)
    <2>1. p # 0 /\ room[p].initiator = c
        BY <1>1, <1>5, PathsAssumption
    <2> QED BY <1>3, <2>1 DEF MembersMatch, Seated, Live
<1>6. ASSUME NEW c \in Client, Seated(c, k)
      PROVE  Holder[k] = c
    <2>1. path[c] \in PathNumber /\ room[path[c]].initiator = c
        BY <1>6, HasPath DEF Seated, Live, InitiatorReachable
    <2>2. attached[path[c]]
        BY <2>1, PathsAssumption DEF DetachedIsEmpty, EmptyRoom
    <2>3. path[c] <= number
        BY <2>1, <2>2, PathsAssumption DEF RegistryInv, TypeOK, PathNumber
    <2>4. p = path[c]
        BY <1>6, <2>1, <2>2, <2>3 DEF RegistryInv, Seated
    <2>5. p # 0
        BY <2>1, <2>4 DEF PathNumber
    <2> QED BY <1>1, <2>1, <2>4, <2>5
<1> QED BY <1>4, <1>5, <1>6

LEMMA HolderIsSeatedNext == IInv' => SeatsMatch'
BY HolderIsSeated, PTL

\* The path of a seated client belongs to a key.
LEMMA SeatedHasKey ==
    ASSUME IInv, NEW c \in Client, phase[c] \in Live, state[c] = "authenticated",
           id[c] = InitiatorAddress
    PROVE  /\ path[c] \in PathNumber /\ path[c] <= number
           /\ initiatorKey[path[c]] \in Key
           /\ Seated(c, initiatorKey[path[c]])
<1> USE DEF IInv
<1>1. path[c] \in PathNumber /\ room[path[c]].initiator = c
    BY HasPath DEF Live, InitiatorReachable
<1>2. attached[path[c]]
    BY <1>1, PathsAssumption DEF DetachedIsEmpty, EmptyRoom
<1>3. path[c] <= number
    BY <1>1, <1>2, PathsAssumption DEF RegistryInv, TypeOK, PathNumber
<1> QED BY <1>1, <1>3 DEF RegistryInv, Seated

\* A step that seats and unseats nobody is a stutter of the abstract seats.
LEMMA QuietStep ==
    ASSUME IInv, IInv', Former' = Former,
           \A c \in Client, k \in Key : Seated(c, k)' <=> Seated(c, k)
    PROVE  UNCHANGED Seat!vars
<1>1. SeatsMatch /\ SeatsMatch'
    BY HolderIsSeated, HolderIsSeatedNext
<1>2. ASSUME NEW k \in Key
      PROVE  Holder'[k] = Holder[k]
    <2>1. /\ Holder'[k] \in Client \cup {None}
          /\ \A c \in Client : Holder'[k] = c <=> Seated(c, k)'
        BY <1>1 DEF SeatsMatch
    <2>2. /\ Holder[k] \in Client \cup {None}
          /\ \A c \in Client : Holder[k] = c <=> Seated(c, k)
        BY <1>1 DEF SeatsMatch
    <2> QED BY <2>1, <2>2, PathsAssumption
<1> QED BY <1>2 DEF Holder, Seat!vars

LEMMA SeatInit == Init => Seat!Init
<1> SUFFICES ASSUME Init PROVE Seat!Init
    OBVIOUS
<1>1. \A k \in Key : paths[IndexOnGet(k)] = 0
    BY DEF Init, IndexOnGet, Index
<1>2. Holder = [k \in Key |-> None]
    BY <1>1 DEF Holder
<1>3. Former = {}
    BY DEF Init, Former, InitiatorAddress, ServerAddress
<1> QED BY <1>2, <1>3 DEF Seat!Init

\* Connecting, authenticating as a responder, finishing the handshake,
\* unregistering, being dropped as a responder and the request to close concern
\* no seat.
LEMMA SeatQuiet ==
    ASSUME IInv, IInv',
           \/ \E c \in Client, k \in Key : Connect(c, k)
           \/ \E c \in Client : \/ AuthResponder(c) \/ HandshakeDone(c)
                                \/ SlotsFull(c) \/ Unregister(c)
           \/ \E i \in Client, s \in ResponderAddress : DropResponder(i, s)
           \/ Close
    PROVE  UNCHANGED Seat!vars
<1> DEFINE Quiet == /\ Former' = Former
                    /\ \A c \in Client, k \in Key : Seated(c, k)' <=> Seated(c, k)
<1>1. SUFFICES Quiet
    BY QuietStep
<1> USE DEF IInv
<1>2. ASSUME NEW c \in Client, NEW k \in Key, Connect(c, k)
      PROVE  Quiet
    <2>1. phase[c] = "new" /\ state[c] = "restricted" /\ id[c] = ServerAddress
        BY <1>2 DEF Connect, ClientSituation
    <2>2. /\ UNCHANGED <<state, id>>
          /\ \A x \in Client \ {c} : phase'[x] = phase[x] /\ path'[x] = path[x]
        BY <1>2 DEF Connect, TypeOK
    <2>3. \A p \in PathNumber : p <= number => initiatorKey'[p] = initiatorKey[p]
        <3>1. number \in Nat
            BY PathsAssumption DEF TypeOK
        <3> QED BY <1>2, <3>1 DEF Connect, Get, TypeOK, registry, PathNumber
    <2>4. ASSUME NEW x \in Client, NEW j \in Key
          PROVE  Seated(x, j)' <=> Seated(x, j)
        <3>1. CASE x = c
            BY <2>1, <2>2, <3>1 DEF Seated
        <3>2. CASE x # c
            BY <2>2, <2>3, <3>2, SeatedHasKey DEF Seated
        <3> QED BY <3>1, <3>2
    <2>5. Former' = Former
        BY <2>1, <2>2 DEF Former, ServerAddress, InitiatorAddress
    <2> QED BY <2>4, <2>5
<1>3. ASSUME NEW c \in Client, AuthResponder(c)
      PROVE  Quiet
    <2>0. phase[c] = "handshake" /\ path[c] \in PathNumber
        BY <1>3, HasPath DEF AuthResponder, MayAuthenticate, Live
    <2>1. state[c] = "restricted" /\ id[c] = ServerAddress /\ id'[c] # InitiatorAddress
        BY <1>3, <2>0, FullMeansNoAddress, PathsAssumption
           DEF AuthResponder, ClientSituation, TypeOK, ResponderAddress,
               InitiatorAddress
    <2>2. /\ UNCHANGED <<path, initiatorKey>>
          /\ \A x \in Client \ {c} :
                 phase'[x] = phase[x] /\ id'[x] = id[x] /\ state'[x] = state[x]
        BY <1>3 DEF AuthResponder, TypeOK, registry
    <2> QED BY <2>1, <2>2 DEF Seated, Former, ServerAddress, InitiatorAddress
<1>4. ASSUME NEW c \in Client, HandshakeDone(c)
      PROVE  Quiet
    <2>1. /\ UNCHANGED <<path, state, id, initiatorKey>> /\ phase[c] = "greeting"
          /\ \A x \in Client \ {c} : phase'[x] = phase[x]
        BY <1>4 DEF HandshakeDone, TypeOK, registry
    <2>2. CASE phase'[c] \in Live
        BY <2>1, <2>2 DEF Seated, Former, Live
    <2>3. CASE phase'[c] \notin Live
        <3>1. ~attached[path[c]] /\ path[c] \in PathNumber
            BY <1>4, <2>1, <2>3, HasPath DEF HandshakeDone, TypeOK, Live
        <3>2. room[path[c]].initiator # c
            BY <3>1, PathsAssumption DEF DetachedIsEmpty, EmptyRoom
        <3>3. id[c] = InitiatorAddress => state[c] = "dropped"
            BY <2>1, <3>2 DEF InitiatorReachable, ClientSituation, TypeOK, Live
        <3> QED BY <2>1, <2>3, <3>3 DEF Seated, Former
    <2> QED BY <2>2, <2>3
<1>5. ASSUME NEW c \in Client, SlotsFull(c)
      PROVE  Quiet
    <2>1. /\ UNCHANGED <<path, state, id, initiatorKey>> /\ phase[c] = "handshake"
          /\ \A x \in Client \ {c} : phase'[x] = phase[x]
        BY <1>5 DEF SlotsFull, Depart, Clean, TypeOK, registry
    <2>2. id[c] = ServerAddress
        BY <2>1 DEF ClientSituation
    <2> QED BY <2>1, <2>2 DEF Seated, Former, ServerAddress, InitiatorAddress
<1>6. ASSUME NEW c \in Client, Unregister(c)
      PROVE  Quiet
    BY <1>6 DEF Unregister, TypeOK, registry, Seated, Former, Live
<1>7. ASSUME NEW i \in Client, NEW s \in ResponderAddress, DropResponder(i, s)
      PROVE  Quiet
    <2> DEFINE c == room[path[i]].responders[s]
    <2>0. path[i] \in PathNumber /\ c # None
        BY <1>7, HasPath DEF DropResponder, Live
    <2>1. c \in Client /\ id[c] = s /\ s # InitiatorAddress
        <3>1. c \in Client
            BY <2>0 DEF TypeOK, Room
        <3>2. id[c] = s
            BY <2>0, <3>1 DEF MembersMatch
        <3> QED BY <3>1, <3>2, PathsAssumption DEF ResponderAddress, InitiatorAddress
    <2>2. /\ UNCHANGED <<path, id, phase, initiatorKey>>
          /\ \A x \in Client \ {c} : state'[x] = state[x]
        BY <1>7, <2>1 DEF DropResponder, TypeOK, registry
    <2> HIDE DEF c
    <2> QED BY <2>1, <2>2 DEF Seated, Former
<1>8. CASE Close
    BY <1>8 DEF Close, Seated, Former, registry
<1> QED BY <1>2, <1>3, <1>4, <1>5, <1>6, <1>7, <1>8

\* A successful set_initiator takes the seat of the path's key.
LEMMA SeatTaken ==
    ASSUME IInv, IInv', NEW c \in Client, AuthInitiator(c)
    PROVE  Seat!Next
<1> DEFINE p == path[c]
           k == initiatorKey[p]
<1> USE DEF IInv
<1>1. /\ phase[c] = "handshake" /\ attached[p]
      /\ state[c] = "restricted" /\ id[c] = ServerAddress
    BY DEF AuthInitiator, MayAuthenticate, ClientSituation
<1>2. p \in PathNumber
    BY <1>1, HasPath DEF Live
<1>3. k \in Key /\ p = paths[IndexOnGet(k)]
    <2>1. p <= number
        BY <1>1, <1>2, PathsAssumption DEF RegistryInv, TypeOK, PathNumber
    <2> QED BY <1>1, <1>2, <2>1 DEF RegistryInv
<1>4. Holder[k] = room[p].initiator
    BY <1>2, <1>3 DEF Holder, PathNumber
<1>5. SeatsMatch /\ SeatsMatch'
    BY HolderIsSeated, HolderIsSeatedNext
<1>6. /\ UNCHANGED <<initiatorKey, path>>
      /\ id'[c] = InitiatorAddress /\ state'[c] = "authenticated"
      /\ phase'[c] = "greeting"
      /\ \A x \in Client \ {c} :
             /\ phase'[x] = phase[x] /\ id'[x] = id[x]
             /\ state'[x] = IF x = room[p].initiator THEN Dropped(state[x])
                                                     ELSE state[x]
    BY DEF AuthInitiator, TypeOK, registry
<1> HIDE DEF p, k
<1>7. ASSUME NEW x \in Client, NEW j \in Key
      PROVE  Seated(x, j)' <=> IF x = c THEN j = k ELSE Seated(x, j) /\ j # k
    <2>1. CASE x = c
        BY <1>6, <2>1 DEF Seated, Live, p, k
    <2>2. CASE x # c /\ x = room[p].initiator
        <3>1. path[x] = p /\ state[x] = "authenticated"
            BY <1>2, <2>2 DEF MembersMatch
        <3>2. ~Seated(x, j)'
            BY <1>6, <2>2, <3>1 DEF Seated, Dropped
        <3>3. Seated(x, j) => j = k
            BY <3>1 DEF Seated, k
        <3> QED BY <2>2, <3>2, <3>3
    <2>3. CASE x # c /\ x # room[p].initiator
        <3>1. Seated(x, j)' <=> Seated(x, j)
            BY <1>6, <2>3 DEF Seated
        <3>2. ~Seated(x, k)
            BY <1>3, <1>4, <1>5, <2>3 DEF SeatsMatch
        <3> QED BY <2>3, <3>1, <3>2
    <2> QED BY <2>1, <2>2, <2>3
<1>8. c \notin Former /\ \A j \in Key : Holder[j] # c
    <2>1. \A j \in Key : ~Seated(c, j)
        BY <1>1 DEF Seated, ServerAddress, InitiatorAddress
    <2> QED BY <1>1, <1>5, <2>1
            DEF Former, SeatsMatch, ServerAddress, InitiatorAddress
<1>9. Holder' = [Holder EXCEPT ![k] = c]
    <2>1. ASSUME NEW j \in Key
          PROVE  Holder'[j] = IF j = k THEN c ELSE Holder[j]
        <3>1. /\ Holder'[j] \in Client \cup {None}
              /\ \A x \in Client : Holder'[j] = x <=> Seated(x, j)'
            BY <1>5 DEF SeatsMatch
        <3>2. /\ Holder[j] \in Client \cup {None}
              /\ \A x \in Client : Holder[j] = x <=> Seated(x, j)
            BY <1>5 DEF SeatsMatch
        <3>3. CASE j = k
            BY <1>7, <3>1, <3>3
        <3>4. CASE j # k
            <4>1. \A x \in Client : Holder'[j] = x <=> Holder[j] = x
                BY <1>7, <1>8, <3>1, <3>2, <3>4
            <4> QED BY <3>1, <3>2, <3>4, <4>1, PathsAssumption
        <3> QED BY <3>3, <3>4
    <2>2. /\ Holder = [j \in Key |-> Holder[j]]
          /\ Holder' = [j \in Key |-> Holder'[j]]
        BY DEF Holder
    <2> QED BY <1>3, <2>1, <2>2
<1>10. Former' = Former \cup ({Holder[k]} \ {None})
    <2>1. room[p].initiator \in Client \cup {None}
        BY <1>2 DEF TypeOK, Room
    <2>2. ASSUME NEW x \in Client
          PROVE  x \in Former' <=> x \in Former \/ x = room[p].initiator
        <3>1. CASE x = c
            <4>1. x # room[p].initiator
                BY <1>1, <1>2, <3>1 DEF MembersMatch
            <4> QED BY <1>6, <1>8, <3>1, <4>1 DEF Former, Live
        <3>2. CASE x # c /\ x = room[p].initiator
            <4>1. id[x] = InitiatorAddress /\ state[x] = "authenticated"
                BY <1>2, <3>2 DEF MembersMatch
            <4> QED BY <1>6, <3>2, <4>1 DEF Former, Dropped
        <3>3. CASE x # c /\ x # room[p].initiator
            BY <1>6, <3>3 DEF Former
        <3> QED BY <3>1, <3>2, <3>3
    <2>3. Former \subseteq Client /\ Former' \subseteq Client
        BY DEF Former
    <2> QED BY <1>4, <2>1, <2>2, <2>3, PathsAssumption
<1> QED BY <1>3, <1>8, <1>9, <1>10 DEF Seat!Next, Seat!Take

\* Unseating exactly the holders of the keys K is one step of the seats.
LEMMA VacateStep ==
    ASSUME IInv, IInv', NEW K \in SUBSET Key,
           \A k \in K : Holder[k] # None,
           \A c \in Client, k \in Key : Seated(c, k)' <=> Seated(c, k) /\ k \notin K,
           Former' = Former \cup {Holder[k] : k \in K}
    PROVE  Seat!Next
<1>1. SeatsMatch /\ SeatsMatch'
    BY HolderIsSeated, HolderIsSeatedNext
<1>2. ASSUME NEW k \in Key
      PROVE  Holder'[k] = IF k \in K THEN None ELSE Holder[k]
    <2>1. /\ Holder'[k] \in Client \cup {None}
          /\ \A c \in Client : Holder'[k] = c <=> Seated(c, k)'
        BY <1>1 DEF SeatsMatch
    <2>2. /\ Holder[k] \in Client \cup {None}
          /\ \A c \in Client : Holder[k] = c <=> Seated(c, k)
        BY <1>1 DEF SeatsMatch
    <2> QED BY <2>1, <2>2, PathsAssumption
<1>3. Holder' = [k \in Key |-> IF k \in K THEN None ELSE Holder[k]]
    BY <1>2 DEF Holder
<1>4. Seat!Vacate(K)
    BY <1>3 DEF Seat!Vacate
<1> QED BY <1>4 DEF Seat!Next

\* A client that leaves vacates the seat it holds, if any.
LEMMA SeatLeft ==
    ASSUME IInv, IInv', NEW c \in Client, Leave(c)
    PROVE  Seat!Next \/ UNCHANGED Seat!vars
<1> USE DEF IInv
<1>1. /\ UNCHANGED <<path, state, id, initiatorKey>>
      /\ phase[c] \in Live /\ phase'[c] = "leaving"
      /\ \A x \in Client \ {c} : phase'[x] = phase[x]
    BY DEF Leave, Depart, Clean, TypeOK, registry
<1>2. /\ \A x \in Client, j \in Key : Seated(x, j)' <=> Seated(x, j) /\ x # c
      /\ \A x \in Client :
             x \in Former' <=> x \in Former \/ (x = c /\ id[x] = InitiatorAddress)
      /\ Former \subseteq Client /\ Former' \subseteq Client
    BY <1>1 DEF Seated, Former, Live
<1>3. SeatsMatch
    BY HolderIsSeated
<1>4. CASE state[c] = "authenticated" /\ id[c] = InitiatorAddress
    <2> DEFINE k == initiatorKey[path[c]]
    <2>1. k \in Key /\ Seated(c, k)
        BY <1>1, <1>4, SeatedHasKey
    <2>2. Holder[k] = c
        BY <1>3, <2>1 DEF SeatsMatch
    <2> HIDE DEF k
    <2>3. ASSUME NEW x \in Client, NEW j \in Key
          PROVE  Seated(x, j)' <=> Seated(x, j) /\ j \notin {k}
        <3>1. Seated(x, k) <=> x = c
            BY <1>3, <2>1, <2>2 DEF SeatsMatch
        <3>2. Seated(c, j) => j = k
            BY DEF Seated, k
        <3> QED BY <1>2, <3>1, <3>2
    <2>4. Former' = Former \cup {Holder[j] : j \in {k}}
        <3>1. {Holder[j] : j \in {k}} = {c}
            BY <2>2
        <3> QED BY <1>2, <1>4, <3>1
    <2>5. Seat!Next
        <3>1. \A j \in {k} : Holder[j] # None
            BY <2>2, PathsAssumption
        <3> QED BY <2>1, <2>3, <2>4, <3>1, VacateStep
    <2> QED BY <2>5
<1>5. CASE ~(state[c] = "authenticated" /\ id[c] = InitiatorAddress)
    <2>1. id[c] = InitiatorAddress => state[c] = "dropped"
        BY <1>5 DEF ClientSituation, TypeOK, ServerAddress, InitiatorAddress
    <2>2. Former' = Former
        BY <1>2, <2>1 DEF Former
    <2>3. \A x \in Client, j \in Key : Seated(x, j)' <=> Seated(x, j)
        BY <1>2, <1>5 DEF Seated
    <2> QED BY <2>2, <2>3, QuietStep
<1> QED BY <1>4, <1>5

\* The closing server vacates every seat.
LEMMA SeatsClosed ==
    ASSUME IInv, IInv', CloseProtocols
    PROVE  Seat!Next
<1> USE DEF IInv
<1> DEFINE K == {k \in Key : Holder[k] # None}
<1>1. /\ UNCHANGED <<path, id, phase, initiatorKey>>
      /\ \A c \in Client : state'[c] = IF phase[c] \in Registered
                                       THEN Dropped(state[c]) ELSE state[c]
    BY DEF CloseProtocols, registry
<1>2. SeatsMatch
    BY HolderIsSeated
<1>3. ASSUME NEW c \in Client, NEW k \in Key
      PROVE  ~Seated(c, k)'
    BY <1>1 DEF Seated, Registered, Dropped
<1>4. ASSUME NEW c \in Client, NEW k \in Key, Seated(c, k)
      PROVE  k \in K
    BY <1>2, <1>4, PathsAssumption DEF SeatsMatch
<1>5. ASSUME NEW c \in Client
      PROVE  c \in Former' <=> c \in Former \/ \E k \in Key : Seated(c, k)
    <2>1. CASE phase[c] \in Live /\ state[c] = "authenticated"
               /\ id[c] = InitiatorAddress
        <3>1. \E k \in Key : Seated(c, k)
            BY <2>1, SeatedHasKey
        <3>2. c \in Former'
            BY <1>1, <2>1 DEF Former, Dropped, Registered
        <3> QED BY <3>1, <3>2
    <2>2. CASE ~(phase[c] \in Live /\ state[c] = "authenticated"
                 /\ id[c] = InitiatorAddress)
        <3>1. \A k \in Key : ~Seated(c, k)
            BY <2>2 DEF Seated
        <3>2. id[c] = InitiatorAddress =>
                  phase[c] \notin Live \/ state[c] = "dropped"
            BY <2>2 DEF ClientSituation, TypeOK, ServerAddress, InitiatorAddress
        <3>3. state[c] = "dropped" => state'[c] = "dropped"
            BY <1>1 DEF Dropped
        <3> QED BY <1>1, <3>1, <3>2, <3>3 DEF Former
    <2> QED BY <2>1, <2>2
<1>6. Former' = Former \cup {Holder[k] : k \in K}
    <2>1. Former \subseteq Client /\ Former' \subseteq Client
        BY DEF Former
    <2>2. \A k \in K : Holder[k] \in Client
        BY <1>2 DEF SeatsMatch
    <2>3. \A c \in Client : (\E k \in Key : Seated(c, k))
                           <=> c \in {Holder[k] : k \in K}
        BY <1>2, <1>4 DEF SeatsMatch
    <2> QED BY <1>5, <2>1, <2>2, <2>3
<1>7. \A c \in Client, k \in Key : Seated(c, k)' <=> Seated(c, k) /\ k \notin K
    BY <1>3, <1>4
<1>8. K \in SUBSET Key /\ \A k \in K : Holder[k] # None
    OBVIOUS
<1> HIDE DEF K
<1> QED BY <1>6, <1>7, <1>8, VacateStep

\* A step that changes nothing changes no seat.
LEMMA SeatUnchanged ==
    ASSUME UNCHANGED vars
    PROVE  UNCHANGED Seat!vars
BY DEF vars, Seat!vars, Holder, Former, registry

\* Every step of the server is a step of the seats or changes none of them.
LEMMA SeatStep == IInv /\ IInv' /\ [Next]_vars => [Seat!Next]_(Seat!vars)
<1> SUFFICES ASSUME IInv, IInv', [Next]_vars
             PROVE  Seat!Next \/ UNCHANGED Seat!vars
    OBVIOUS
<1>1. CASE \/ \E c \in Client, k \in Key : Connect(c, k)
           \/ \E c \in Client : \/ AuthResponder(c) \/ HandshakeDone(c)
                                \/ SlotsFull(c) \/ Unregister(c)
           \/ \E i \in Client, s \in ResponderAddress : DropResponder(i, s)
           \/ Close
    BY <1>1, SeatQuiet
<1>2. CASE \E c \in Client : AuthInitiator(c)
    BY <1>2, SeatTaken
<1>3. CASE \E c \in Client : Leave(c)
    BY <1>3, SeatLeft
<1>4. CASE CloseProtocols
    BY <1>4, SeatsClosed
<1>5. CASE UNCHANGED vars
    BY <1>5, SeatUnchanged
<1> QED BY <1>1, <1>2, <1>3, <1>4, <1>5 DEF Next

\* Connections, handshakes, drops, departures and the closing of the server, in
\* any order, implement the abstract seats: protocol.py set_initiator and
\* remove_client with server.py handshake_initiator and handle_client.
THEOREM SeatRefinement == Spec => SeatSpec
<1>1. Init => Seat!Init
    BY SeatInit
<1>2. IInv /\ IInv' /\ [Next]_vars => [Seat!Next]_(Seat!vars)
    BY SeatStep
<1> QED BY <1>1, <1>2, PathsInvariant, PTL DEF Spec, SeatSpec, Seat!Spec

=============================================================================

------------------------ MODULE ServerShutdownProofs ------------------------
(***************************************************************************)
(* Proofs about ServerShutdown, for any number of clients, keys, paths and *)
(* slots, with and without Splice and failing queues: what has come to its *)
(* end when the server is closed.                                          *)
(*                                                                         *)
(* Of a protocol only its phase matters here.  The first lemmas say what   *)
(* the steps of SignalingPaths do to it; then one lemma per group of       *)
(* actions shows that ShutdownInv is kept.                                 *)
(***************************************************************************)
EXTENDS ServerShutdown, TLAPS

\* The protocol of client c goes from a phase of S to phase q, and no other moves.
Moves(c, S, q) ==
    phase[c] \in S /\ phase' = [phase EXCEPT ![c] = q] /\ closing' = closing

Stays == phase' = phase /\ closing' = closing

---------------------------------------------------------------------------
(* What the steps of a protocol do to its phase.                           *)

\* Server.handler creates a protocol only while the server is not being closed.
LEMMA OpenMoves ==
    ASSUME NEW c \in Client, NEW k \in Key, Open(c, k)
    PROVE  /\ closing = "no"
           /\ Moves(c, {"new"}, "handshake") \/ Moves(c, {"new"}, "refused")
  BY DEF Open, Connect, Moves

\* Authenticating takes a client from its handshake to the greeting.
LEMMA ProtocolMoves ==
    ASSUME NEW c \in Client, ProtocolStep(c)
    PROVE  Stays \/ Moves(c, {"handshake"}, "greeting")
  BY DEF ProtocolStep, AuthInitiator, AuthResponder, MayAuthenticate, DropResponder,
         Stays, Moves

\* handle_client is left once.
LEMMA LeaveMoves ==
    ASSUME NEW c \in Client, Leave(c) \/ SlotsFull(c)
    PROVE  Moves(c, Live, "leaving") \/ Moves(c, Live, "full")
  BY DEF Leave, SlotsFull, Depart, Moves, Live

\* The other steps of a protocol's handler.
LEMMA HandlerMoves ==
    ASSUME NEW c \in Client
    PROVE  /\ HandshakeDone(c) =>
                  \E q \in {"crashed", "serving", "parked"} : Moves(c, {"greeting"}, q)
           /\ LeaveAborted(c) =>
                  \E q \in {"crashed", "leaving"} : Moves(c, {"greeting", "serving", "parked"}, q)
           /\ JoinRaises(c) => Moves(c, {"leaving"}, "crashed")
           /\ Unregister(c) => Moves(c, {"leaving", "full"}, "gone")
  <1>1. HandshakeDone(c) => \E q \in {"crashed", "serving", "parked"} : Moves(c, {"greeting"}, q)
    BY DEF HandshakeDone, Moves
  <1>2. LeaveAborted(c) =>
            \E q \in {"crashed", "leaving"} : Moves(c, {"greeting", "serving", "parked"}, q)
    BY DEF LeaveAborted, Moves
  <1>3. JoinRaises(c) => Moves(c, {"leaving"}, "crashed")
    BY DEF JoinRaises, Moves
  <1>4. Unregister(c) => Moves(c, {"leaving", "full"}, "gone")
    BY DEF Unregister, Moves
  <1> QED BY <1>1, <1>2, <1>3, <1>4

---------------------------------------------------------------------------
(* The inductive invariant.                                                *)

\* No connection has been accepted, and nothing has been closed.
LEMMA ShutdownInit == EInit => ShutdownInv
  <1> SUFFICES ASSUME EInit PROVE ShutdownInv
    OBVIOUS
  <1>1. ETypeOK
    BY DEF EInit, Init, ETypeOK, Phase, Tcp
  <1>2. \A c \in Client : Situation(c)
    BY DEF EInit, Init, Situation, Registered, Live
  <1>3. AwaitsAll /\ Stopping
    BY DEF EInit, AwaitsAll, Stopping
  <1> QED BY <1>1, <1>2, <1>3 DEF ShutdownInv

\* The steps of a connection that its protocol does not see.
LEMMA ConnectionKeeps ==
    ASSUME ShutdownInv, NEW c \in Client,
           \/ Accept(c) \/ ConnectionMade(c) \/ TurnedAway(c) \/ PeerGone(c)
           \/ HandlerOver(c) \/ Shut(c) \/ ProtocolCloses(c)
    PROVE  ShutdownInv'
  <1>1. phase' = phase /\ closing' = closing /\ awaited' = awaited /\ closer' = closer
        /\ wscloser' = wscloser /\ listening' = listening /\ closedWaiter' = closedWaiter
    BY DEF Accept, ConnectionMade, TurnedAway, PeerGone, HandlerOver, Shut, ProtocolCloses, vars
  <1>2. ETypeOK'
    BY <1>1 DEF ShutdownInv, ETypeOK, Accept, ConnectionMade, TurnedAway, PeerGone, HandlerOver,
                Shut, ProtocolCloses, Tcp
  <1>3. \A d \in Client : Situation(d)'
    BY <1>1 DEF ShutdownInv, ETypeOK, Situation, Accept, ConnectionMade, TurnedAway, PeerGone,
                HandlerOver, Shut, ProtocolCloses, Tcp, Registered, Live
  <1>4. AwaitsAll'
    BY <1>1 DEF ShutdownInv, AwaitsAll
  <1>5. Stopping'
    BY <1>1 DEF ShutdownInv, ETypeOK, Stopping, Websockets, Accept, ConnectionMade, TurnedAway,
                PeerGone, HandlerOver, Shut, ProtocolCloses, Tcp
  <1> QED BY <1>2, <1>3, <1>4, <1>5 DEF ShutdownInv

\* The variables that a connection's own steps leave alone.
LEMMA CloserKept ==
    ASSUME NEW c \in Client,
           \/ ProtocolStep(c) \/ EHandshakeDone(c) \/ ELeave(c) \/ ELeaveAborted(c)
           \/ EJoinRaises(c) \/ EUnregister(c) \/ (\E k \in Key : Open(c, k))
    PROVE  /\ listening' = listening /\ awaited' = awaited /\ closer' = closer
           /\ wscloser' = wscloser /\ closedWaiter' = closedWaiter /\ conn' = conn
  BY DEF ProtocolStep, EHandshakeDone, ELeave, ELeaveAborted, EJoinRaises, EUnregister, Open,
         endVars

\* A new protocol: nothing has been closed yet.
LEMMA OpenKeeps ==
    ASSUME ShutdownInv, NEW c \in Client, NEW k \in Key, Open(c, k)
    PROVE  ShutdownInv'
  <1>1. /\ closing = "no" /\ closing' = closing /\ closer = "none" /\ wscloser = "none"
        /\ ~closedWaiter
    BY OpenMoves DEF Moves, ShutdownInv, AwaitsAll, Stopping
  <1>2. tcp[c] = "opening" /\ conn[c] = "open" /\ events' = events
        /\ tcp' = [tcp EXCEPT ![c] = IF phase'[c] = "refused" THEN "ending" ELSE "handling"]
    BY DEF Open
  <1>3. ETypeOK'
    BY <1>1, <1>2, CloserKept, OpenMoves DEF Moves, ShutdownInv, ETypeOK, Phase, Tcp
  <1>4. \A d \in Client : Situation(d)'
    BY <1>1, <1>2, CloserKept, OpenMoves DEF Moves, ShutdownInv, ETypeOK, Situation, Registered, Live
  <1>5. AwaitsAll' /\ Stopping'
    BY <1>1, CloserKept DEF AwaitsAll, Stopping
  <1> QED BY <1>3, <1>4, <1>5 DEF ShutdownInv

\* The steps of a protocol's handler: whoever is awaited is so until it is gone, and
\* nobody who is gone comes back.
LEMMA HandlerKeeps ==
    ASSUME ShutdownInv, NEW c \in Client,
           \/ ProtocolStep(c) \/ EHandshakeDone(c) \/ ELeave(c) \/ ELeaveAborted(c)
           \/ EJoinRaises(c) \/ EUnregister(c)
    PROVE  ShutdownInv'
  <1>1. Stays \/ \E q \in Phase \ {"new", "refused"} : Moves(c, Registered \ {"crashed"}, q)
    BY ProtocolMoves, LeaveMoves, HandlerMoves
       DEF EHandshakeDone, ELeave, ELeaveAborted, EJoinRaises, EUnregister, Moves, Phase,
           Registered, Live
  <1>2. ETypeOK'
    <2>1. phase' \in [Client -> Phase]
      BY <1>1 DEF Stays, Moves, ShutdownInv, ETypeOK
    <2>2. tcp' \in [Client -> Tcp] /\ events' \in [Client -> SUBSET {"connected", "disconnected"}]
      BY DEF ShutdownInv, ETypeOK, ProtocolStep, EHandshakeDone, ELeave, ELeaveAborted,
             EJoinRaises, EUnregister, Raised, Tcp, endVars
    <2> QED BY <2>1, <2>2, CloserKept DEF ShutdownInv, ETypeOK
  <1>3. \A d \in Client : Situation(d)'
    <2> SUFFICES ASSUME NEW d \in Client PROVE Situation(d)'
      OBVIOUS
    <2>1. CASE ProtocolStep(c)
      BY <2>1, ProtocolMoves, CloserKept
         DEF ProtocolStep, Stays, Moves, ShutdownInv, ETypeOK, Situation, Registered, Live, endVars
    <2>2. CASE EHandshakeDone(c)
      BY <2>2, HandlerMoves, CloserKept
         DEF EHandshakeDone, Raised, Moves, ShutdownInv, ETypeOK, Situation, Registered, Live
    <2>3. CASE ELeave(c)
      BY <2>3, LeaveMoves, CloserKept
         DEF ELeave, Raised, Moves, ShutdownInv, ETypeOK, Situation, Registered, Live
    <2>4. CASE ELeaveAborted(c)
      BY <2>4, HandlerMoves, CloserKept
         DEF ELeaveAborted, Raised, Moves, ShutdownInv, ETypeOK, Situation, Registered, Live
    <2>5. CASE EJoinRaises(c) \/ EUnregister(c)
      BY <2>5, HandlerMoves, CloserKept
         DEF EJoinRaises, EUnregister, Moves, ShutdownInv, ETypeOK, Situation, Registered, Live
    <2> QED BY <2>1, <2>2, <2>3, <2>4, <2>5
  <1>4. AwaitsAll'
    BY <1>1, CloserKept
       DEF Stays, Moves, ShutdownInv, ETypeOK, AwaitsAll, Registered, Live
  <1>5. Stopping'
    <2>1. \A d \in Client : tcp'[d] = tcp[d] \/ (tcp[d] = "handling" /\ tcp'[d] = "ending")
      <3>1. phase[c] \in Registered \ {"crashed"} => tcp[c] = "handling"
        BY DEF ShutdownInv, Situation
      <3> QED
        BY <3>1, LeaveMoves, HandlerMoves
           DEF ShutdownInv, ETypeOK, Moves, ProtocolStep, EHandshakeDone, ELeave, ELeaveAborted,
               EJoinRaises, EUnregister, Registered, Live, endVars
    <2> QED BY <2>1, CloserKept DEF ShutdownInv, Stopping, Websockets
  <1> QED BY <1>2, <1>3, <1>4, <1>5 DEF ShutdownInv

\* Server.close and its closing task.
LEMMA CloseKeeps ==
    ASSUME ShutdownInv, EClose \/ ECloseProtocols \/ Gathered \/ GatherRaises
    PROVE  ShutdownInv'
  <1>1. /\ phase' = phase /\ tcp' = tcp /\ conn' = conn /\ events' = events
        /\ listening' = listening /\ closedWaiter' = closedWaiter
    BY DEF EClose, ECloseProtocols, Gathered, GatherRaises, Close, CloseProtocols, endVars, vars
  <1>2. ETypeOK'
    BY <1>1 DEF ShutdownInv, ETypeOK, EClose, ECloseProtocols, AwaitProtocols, Gathered,
                GatherRaises, endVars
  <1>3. \A c \in Client : Situation(c)'
    BY <1>1 DEF ShutdownInv, Situation
  <1>4. AwaitsAll'
    BY <1>1 DEF ShutdownInv, AwaitsAll, EClose, ECloseProtocols, AwaitProtocols, Gathered,
                GatherRaises, Close, CloseProtocols, endVars, vars
  <1>5. Stopping'
    BY <1>1 DEF ShutdownInv, AwaitsAll, Stopping, EClose, ECloseProtocols, Gathered, GatherRaises,
                Close, CloseProtocols, Websockets, endVars, vars
  <1> QED BY <1>2, <1>3, <1>4, <1>5 DEF ShutdownInv

\* WebSocketServer._close.
LEMMA StoppingKeeps ==
    ASSUME ShutdownInv,
           StopListening \/ CloseConnections \/ ConnectionsClosed \/ HandlersComplete
    PROVE  ShutdownInv'
  <1>1. /\ phase' = phase /\ tcp' = tcp /\ conn' = conn /\ events' = events
        /\ closing' = closing /\ closer' = closer /\ awaited' = awaited
    BY DEF StopListening, CloseConnections, ConnectionsClosed, HandlersComplete, vars
  <1>2. ETypeOK' /\ (\A c \in Client : Situation(c)') /\ AwaitsAll'
    BY <1>1 DEF ShutdownInv, ETypeOK, Situation, AwaitsAll, StopListening, CloseConnections,
                ConnectionsClosed, HandlersComplete
  <1>3. Stopping'
    BY <1>1 DEF ShutdownInv, Stopping, StopListening, CloseConnections, AllRegistered,
                ConnectionsClosed, HandlersComplete, Websockets
  <1> QED BY <1>2, <1>3 DEF ShutdownInv

LEMMA ShutdownStep == ShutdownInv /\ [ENext]_evars => ShutdownInv'
  <1> SUFFICES ASSUME ShutdownInv, [ENext]_evars PROVE ShutdownInv'
    OBVIOUS
  <1>1. CASE UNCHANGED evars
    BY <1>1 DEF evars, vars, endVars, ShutdownInv, ETypeOK, Situation, AwaitsAll, Stopping,
                Websockets
  <1>2. CASE EClose \/ CloserStep
    BY <1>2, CloseKeeps, StoppingKeeps DEF CloserStep
  <1>3. ASSUME NEW c \in Client,
               \/ Accept(c) \/ TurnedAway(c) \/ PeerGone(c) \/ ServerStep(c)
               \/ ProtocolStep(c) \/ EHandshakeDone(c) \/ ELeave(c) \/ ELeaveAborted(c)
               \/ EJoinRaises(c) \/ ProtocolCloses(c)
               \/ \E k \in Key : Open(c, k)
        PROVE  ShutdownInv'
    BY <1>3, ConnectionKeeps, HandlerKeeps, OpenKeeps DEF ServerStep
  <1> QED BY <1>1, <1>2, <1>3 DEF ENext

---------------------------------------------------------------------------
(* Theorems                                                                *)

\* The inductive invariant holds, whatever peers and handlers do.
THEOREM ShutdownInvariant == ESpec => []ShutdownInv
  <1> QED BY ShutdownInit, ShutdownStep, PTL DEF ESpec

\* WebSocketServer.wait_closed returns when every connection is closed, every handler
\* has returned, every protocol is unregistered and every departure was reported.
THEOREM ClosedIsClosed == ESpec => []ClosedMeansClosed
  <1>1. ShutdownInv => ClosedMeansClosed
    <2> SUFFICES ASSUME ShutdownInv, closedWaiter, NEW c \in Client
                 PROVE  /\ tcp[c] \in {"none", "over"} /\ conn[c] \in {"none", "closed"}
                        /\ phase[c] \notin Registered
                        /\ "connected" \in events[c] => "disconnected" \in events[c]
      BY DEF ClosedMeansClosed
    <2>1. tcp[c] \in {"none", "over"}
      BY DEF ShutdownInv, ETypeOK, Stopping, Websockets, Tcp
    <2>2. phase[c] \notin Registered
      BY DEF ShutdownInv, Stopping, AwaitsAll, Registered, Live
    <2> QED BY <2>1, <2>2 DEF ShutdownInv, Situation, Registered, Live
  <1> QED BY <1>1, ShutdownInvariant, PTL

\* The WebSocket server is closed only when all protocols have returned.
THEOREM NobodyIsCutOff == ESpec => []NoHandlerCutOff
  <1>1. ShutdownInv => NoHandlerCutOff
    <2> SUFFICES ASSUME ShutdownInv, wscloser # "none", NEW c \in Client
                 PROVE  phase[c] \notin Registered /\ tcp[c] # "handling"
      BY DEF NoHandlerCutOff
    <2>1. phase[c] \notin Registered
      BY DEF ShutdownInv, Stopping, AwaitsAll, Registered, Live
    <2> QED BY <2>1 DEF ShutdownInv, Situation
  <1> QED BY <1>1, ShutdownInvariant, PTL

=============================================================================

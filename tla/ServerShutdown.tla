--------------------------- MODULE ServerShutdown ---------------------------
(***************************************************************************)
(* The end of the server: `Server.close` with its closing task (server.py) *)
(* above `WebSocketServer.close` and the connection handlers of            *)
(* websockets/server.py, and between them the protocols of module          *)
(* SignalingPaths.  A connection belongs to `WebSocketServer.websockets`   *)
(* from connection_made to the end of its handler task, and to             *)
(* `Server.protocols` from the constructor of its protocol to unregister.  *)
(*                                                                         *)
(* asyncio's server and the closing handshake of a connection, which has   *)
(* timeouts, are external.  The events that the embedding program is told  *)
(* of are in `events`.                                                     *)
(*                                                                         *)
(* A definition whose name is that of the next one with a suffix           *)
(* (AllRegisteredAtOnce) is a variant with a bug, used to see that a       *)
(* property notices it.                                                    *)
(***************************************************************************)
EXTENDS SignalingPaths

VARIABLES
    tcp,        \* where the connection's WebSocketServerProtocol.handler stands
    conn,       \* the connection itself: "none", "open" or "closed"
    listening,  \* the asyncio.Server accepts connections
    awaited,    \* the protocols whose handler tasks the closing task gathers
    closer,     \* Server._close_task: "none", "gather", "failed" or "done"
    wscloser,   \* WebSocketServer.close_task: "none", "scheduled", "stopped",
                \* "closing" the connections, "handlers" or "done"
    closedWaiter, \* WebSocketServer.closed_waiter is done
    events      \* the events raised for a connection

endVars == <<tcp, conn, listening, awaited, closer, wscloser, closedWaiter, events>>
evars == <<vars, endVars>>

\* "accepted": the loop has still to call connection_made;  "opening": the opening
\* handshake;  "handling": Server.handler awaits the protocol's handler task;
\* "ending": the connection is being closed;  "over": unregistered.
Tcp == {"none", "accepted", "opening", "handling", "ending", "over"}

\* WebSocketServer.websockets
Websockets == {c \in Client : tcp[c] \in {"opening", "handling", "ending"}}

---------------------------------------------------------------------------
(* Connections                                                             *)

EInit ==
    /\ Init
    /\ tcp = [c \in Client |-> "none"]
    /\ conn = [c \in Client |-> "none"]
    /\ listening = TRUE /\ awaited = {} /\ closer = "none" /\ wscloser = "none"
    /\ closedWaiter = FALSE
    /\ events = [c \in Client |-> {}]

\* The listening socket accepts a connection.
Accept(c) ==
    /\ listening /\ tcp[c] = "none"
    /\ tcp' = [tcp EXCEPT ![c] = "accepted"]
    /\ conn' = [conn EXCEPT ![c] = "open"]
    /\ UNCHANGED <<vars, listening, awaited, closer, wscloser, closedWaiter, events>>

ConnectionMade(c) ==
    /\ tcp[c] = "accepted"
    /\ tcp' = [tcp EXCEPT ![c] = "opening"]
    /\ UNCHANGED <<vars, conn, listening, awaited, closer, wscloser, closedWaiter, events>>

\* The request is invalid, the server is shutting down (503), no sub-protocol or
\* no path is found in it, the protocols are being closed (Server.handler), or it
\* was a deletion request, which ends in an exception.
TurnedAway(c) ==
    /\ tcp[c] = "opening"
    /\ tcp' = [tcp EXCEPT ![c] = "ending"]
    /\ events' \in {events, [events EXCEPT ![c] = {"disconnected"}]}
    /\ UNCHANGED <<vars, conn, listening, awaited, closer, wscloser, closedWaiter>>

\* The opening handshake succeeds and Server.handler creates the protocol.
Open(c, k) ==
    /\ tcp[c] = "opening" /\ conn[c] = "open" /\ listening
    /\ Connect(c, k)
    /\ tcp' = [tcp EXCEPT ![c] = IF phase'[c] = "refused" THEN "ending" ELSE "handling"]
    /\ UNCHANGED <<conn, listening, awaited, closer, wscloser, closedWaiter, events>>

\* The peer closes the connection, or it breaks.
PeerGone(c) ==
    /\ conn[c] = "open"
    /\ conn' = [conn EXCEPT ![c] = "closed"]
    /\ UNCHANGED <<vars, tcp, listening, awaited, closer, wscloser, closedWaiter, events>>

\* The rest of WebSocketServerProtocol.handler: close() or fail_connection(), which
\* have timeouts, and unregister.
HandlerOver(c) ==
    /\ tcp[c] = "ending"
    /\ tcp' = [tcp EXCEPT ![c] = "over"]
    /\ conn' = [conn EXCEPT ![c] = "closed"]
    /\ UNCHANGED <<vars, listening, awaited, closer, wscloser, closedWaiter, events>>

---------------------------------------------------------------------------
(* Protocols                                                               *)

\* Steps of the protocols that the WebSocket server does not see.
ProtocolStep(c) ==
    /\ \/ AuthInitiator(c) \/ AuthResponder(c)
       \/ \E s \in ResponderAddress : DropResponder(c, s)
    /\ UNCHANGED endVars

Raised(c, e) == [events EXCEPT ![c] = @ \cup {e}]

\* A handler task that dies of an exception ends its connection: Server.handler
\* raises it, too.
EHandshakeDone(c) ==
    /\ HandshakeDone(c)
    /\ tcp' = [tcp EXCEPT ![c] = IF phase'[c] = "crashed" THEN "ending" ELSE @]
    /\ events' = Raised(c, IF phase'[c] = "crashed" THEN "disconnected" ELSE "connected")
    /\ UNCHANGED <<conn, listening, awaited, closer, wscloser, closedWaiter>>

\* handle_client ends and the handler tells the embedding program.
ELeave(c) ==
    /\ Leave(c) \/ SlotsFull(c)
    /\ events' = Raised(c, "disconnected")
    /\ UNCHANGED <<tcp, conn, listening, awaited, closer, wscloser, closedWaiter>>

\* handle_client ends when client.jobs.cancel raises the exception of a failed relay
\* task in the queue (module JobQueue): the client stays on its path.  If the
\* handshake was not over, the queue was not started and joining it raises
\* InternalError.
LeaveAborted(c) ==
    /\ phase[c] \in {"greeting", "serving", "parked"}
    /\ phase' = [phase EXCEPT ![c] =
                    IF @ = "greeting" THEN "crashed" ELSE "leaving"]
    /\ UNCHANGED <<registry, room, path, state, id, closing>>

ELeaveAborted(c) ==
    /\ LeaveAborted(c)
    /\ events' = Raised(c, "disconnected")
    /\ tcp' = [tcp EXCEPT ![c] = IF phase'[c] = "crashed" THEN "ending" ELSE @]
    /\ UNCHANGED <<conn, listening, awaited, closer, wscloser, closedWaiter>>

\* Joining the job queue raises what ended its runner: the exception of a failed
\* relay task, met by JobQueue.cancel in the runner itself.
JoinRaises(c) ==
    /\ phase[c] = "leaving"
    /\ phase' = [phase EXCEPT ![c] = "crashed"]
    /\ UNCHANGED <<registry, room, path, state, id, closing>>

EJoinRaises(c) ==
    /\ JoinRaises(c)
    /\ tcp' = [tcp EXCEPT ![c] = "ending"]
    /\ UNCHANGED <<conn, listening, awaited, closer, wscloser, closedWaiter, events>>

\* A handler that leaves does not close the connection of its client.
ProtocolClosesDropped(c) ==
    /\ conn[c] = "open" /\ phase[c] \in Live /\ state[c] = "dropped"
    /\ conn' = [conn EXCEPT ![c] = "closed"]
    /\ UNCHANGED <<vars, tcp, listening, awaited, closer, wscloser, closedWaiter, events>>

\* The handler's closing task, or the closing procedure of a dropped client.
ProtocolCloses(c) ==
    /\ conn[c] = "open"
    /\ phase[c] \in {"leaving", "full"} \/ (phase[c] \in Live /\ state[c] = "dropped")
    /\ conn' = [conn EXCEPT ![c] = "closed"]
    /\ UNCHANGED <<vars, tcp, listening, awaited, closer, wscloser, closedWaiter, events>>

\* unregister, after which Server.handler returns.
EUnregister(c) ==
    /\ Unregister(c) /\ conn[c] = "closed"
    /\ tcp' = [tcp EXCEPT ![c] = "ending"]
    /\ UNCHANGED <<conn, listening, awaited, closer, wscloser, closedWaiter, events>>

---------------------------------------------------------------------------
(* Server.close                                                            *)

EClose == Close /\ UNCHANGED endVars

AwaitProtocolsAuthenticated ==
    {c \in Client : phase[c] \in Registered /\ state[c] # "restricted"}

AwaitProtocols == {c \in Client : phase[c] \in Registered}

\* The first segment of the closing task.
ECloseProtocols ==
    /\ CloseProtocols
    /\ awaited' = AwaitProtocols
    /\ closer' = "gather"
    /\ UNCHANGED <<tcp, conn, listening, wscloser, closedWaiter, events>>

\* gather() returns when every handler task has, and then the WebSocket server is
\* closed.
Gathered ==
    /\ closer = "gather"
    /\ \A c \in awaited : phase[c] = "gone"
    /\ closer' = "done"
    /\ wscloser' = "scheduled"
    /\ UNCHANGED <<vars, tcp, conn, listening, awaited, closedWaiter, events>>

\* It raises as soon as one of them has; the exception is logged and the WebSocket
\* server is not closed.
GatherRaises ==
    /\ closer = "gather"
    /\ \E c \in awaited : phase[c] = "crashed"
    /\ closer' = "failed"
    /\ UNCHANGED <<vars, tcp, conn, listening, awaited, wscloser, closedWaiter, events>>

---------------------------------------------------------------------------
(* WebSocketServer._close                                                  *)

StopListening ==
    /\ wscloser = "scheduled"
    /\ wscloser' = "stopped"
    /\ listening' = FALSE
    /\ UNCHANGED <<vars, tcp, conn, awaited, closer, closedWaiter, events>>

AllRegisteredAtOnce == TRUE

\* One turn of the loop later connection_made has been called for every connection
\* that was accepted.
AllRegistered == \A c \in Client : tcp[c] # "accepted"

CloseConnections ==
    /\ wscloser = "stopped" /\ AllRegistered
    /\ wscloser' = "closing"
    /\ UNCHANGED <<vars, tcp, conn, listening, awaited, closer, closedWaiter, events>>

\* websocket.close(1001)
Shut(c) ==
    /\ wscloser = "closing" /\ tcp[c] \in {"handling", "ending"}
    /\ conn[c] = "open"
    /\ conn' = [conn EXCEPT ![c] = "closed"]
    /\ UNCHANGED <<vars, tcp, listening, awaited, closer, wscloser, closedWaiter, events>>

ConnectionsClosed ==
    /\ wscloser = "closing"
    /\ \A c \in Websockets : tcp[c] = "opening" \/ conn[c] = "closed"
    /\ wscloser' = "handlers"
    /\ UNCHANGED <<vars, tcp, conn, listening, awaited, closer, closedWaiter, events>>

HandlersComplete ==
    /\ wscloser = "handlers" /\ Websockets = {}
    /\ wscloser' = "done"
    /\ closedWaiter' = TRUE
    /\ UNCHANGED <<vars, tcp, conn, listening, awaited, closer, events>>

---------------------------------------------------------------------------
CloserStep ==
    \/ ECloseProtocols \/ Gathered \/ GatherRaises
    \/ StopListening \/ CloseConnections \/ ConnectionsClosed \/ HandlersComplete

\* What a connection does without its peer.
ServerStep(c) ==
    \/ ConnectionMade(c) \/ HandlerOver(c) \/ EUnregister(c)
    \/ Shut(c)
    \/ /\ conn[c] = "closed"
       /\ (TurnedAway(c) \/ ELeave(c))
    \/ /\ phase[c] \in {"leaving", "full"}
       /\ ProtocolCloses(c)

ENext ==
    \/ EClose \/ CloserStep
    \/ \E c \in Client :
           \/ Accept(c) \/ TurnedAway(c) \/ PeerGone(c) \/ ServerStep(c)
           \/ ProtocolStep(c) \/ EHandshakeDone(c) \/ ELeave(c) \/ ELeaveAborted(c)
           \/ EJoinRaises(c) \/ ProtocolCloses(c)
           \/ \E k \in Key : Open(c, k)

\* The loop runs what is ready, and a closed connection ends its handler (module
\* ClientLifecycle).  Nothing is assumed of the peers: they may keep silent and stay.
EFairness == WF_evars(CloserStep) /\ \A c \in Client : WF_evars(ServerStep(c))

ESpec == EInit /\ [][ENext]_evars /\ EFairness
---------------------------------------------------------------------------
(* Properties                                                              *)

\* WebSocketServer.wait_closed: when it returns, all TCP connections are closed and
\* all connection handlers have returned; also, every protocol is unregistered
\* and the embedding program has been told of every departure.
ClosedMeansClosed ==
    closedWaiter =>
        \A c \in Client :
            /\ tcp[c] \in {"none", "over"} /\ conn[c] \in {"none", "closed"}
            /\ phase[c] \notin Registered
            /\ "connected" \in events[c] => "disconnected" \in events[c]

\* Server.close closes the WebSocket server only when all protocols have returned, so
\* no client is closed with 1001 under a protocol that has still to process its job
\* queue or to send disconnected messages.
NoHandlerCutOff ==
    wscloser # "none" => \A c \in Client : phase[c] \notin Registered /\ tcp[c] # "handling"

\* The handler of client c goes on waiting for its peer.
Held(c) == conn[c] = "open" /\ (tcp[c] = "opening" \/ phase[c] \in Live)

\* A server that is closed comes to its end, unless some peer stays connected in its
\* handshake or without reading, or a protocol's handler died of an exception.
ClosingCompletes ==
    <>(closing # "no") =>
        \/ <>closedWaiter
        \/ \E c \in Client : <>[]Held(c)
        \/ <>(\E c \in Client : phase[c] = "crashed")

---------------------------------------------------------------------------
(* The inductive invariant.                                                *)

ETypeOK ==
    /\ phase \in [Client -> Phase]
    /\ tcp \in [Client -> Tcp]
    /\ conn \in [Client -> {"none", "open", "closed"}]
    /\ listening \in BOOLEAN /\ closedWaiter \in BOOLEAN
    /\ awaited \subseteq Client
    /\ events \in [Client -> SUBSET {"connected", "disconnected"}]

\* How far a connection and its protocol have come.
Situation(c) ==
    /\ conn[c] = "none" <=> tcp[c] = "none"
    /\ tcp[c] = "over" => conn[c] = "closed"
    /\ tcp[c] \in {"none", "accepted", "opening"} => phase[c] = "new"
    /\ tcp[c] = "handling" <=> phase[c] \in Registered \ {"crashed"}
    /\ "connected" \in events[c] =>
           "disconnected" \in events[c] \/ phase[c] \in {"serving", "parked"}

\* Once the protocols have been closed, no other comes to be registered.
AwaitsAll ==
    /\ closer # "none" => closing = "swept"
    /\ closer # "none" => \A c \in Client : phase[c] \in Registered => c \in awaited
    /\ closer = "done" => \A c \in awaited : phase[c] = "gone"

\* How far the WebSocket server's closing has come.
Stopping ==
    /\ wscloser # "none" => closer = "done"
    /\ wscloser \notin {"none", "scheduled"} => ~listening
    /\ wscloser \in {"closing", "handlers", "done"} => \A c \in Client : tcp[c] # "accepted"
    /\ closedWaiter => wscloser = "done" /\ Websockets = {}

ShutdownInv == ETypeOK /\ (\A c \in Client : Situation(c)) /\ AwaitsAll /\ Stopping

---------------------------------------------------------------------------
(* What the program says of itself and does not keep.                      *)

\* Server.wait_closed: "Wait until all connections and the server itself has been
\* closed."  It does not return although all connections are closed when the
\* handler of a protocol has died of an exception.
ClosingReturns ==
    <>(closing # "no") => <>closedWaiter \/ \E c \in Client : <>[]Held(c)

\* ServerProtocol.handle_client: the client is removed from its path before any
\* other task runs.  An exception of jobs.cancel skips the removal: a
\* client that is gone stays where messages are sent to it.
RemovedWhenLeaving ==
    \A c \in Client : phase[c] \in {"leaving", "gone"} =>
        /\ room[path[c]].initiator # c
        /\ \A s \in ResponderAddress : room[path[c]].responders[s] # c

=============================================================================

--------------------------- MODULE InitiatorSeat ----------------------------
(***************************************************************************)
(* What the server promises about initiators, without paths, slots and     *)
(* handlers: for each key there is one seat.  A client may take it once,   *)
(* also from the client that holds it, and a client that has lost its seat *)
(* never gets one again.  Nobody loses the seat except by being replaced   *)
(* or by going itself.                                                     *)
(***************************************************************************)
CONSTANTS Client, Key, None

VARIABLES
    holder,     \* the client on each key's seat, None if it is free
    former      \* the clients that have held a seat and hold it no more

vars == <<holder, former>>

Init ==
    /\ holder = [k \in Key |-> None]
    /\ former = {}

\* c authenticates as the initiator of k; a previous holder goes.
Take(c, k) ==
    /\ c \notin former
    /\ \A j \in Key : holder[j] # c
    /\ holder' = [holder EXCEPT ![k] = c]
    /\ former' = former \cup ({holder[k]} \ {None})

\* The holders of the seats K go: one that leaves, or all of them when the
\* server closes.
Vacate(K) ==
    /\ \A k \in K : holder[k] # None
    /\ holder' = [k \in Key |-> IF k \in K THEN None ELSE holder[k]]
    /\ former' = former \cup {holder[k] : k \in K}

Next ==
    \/ \E c \in Client, k \in Key : Take(c, k)
    \/ \E K \in SUBSET Key : Vacate(K)

Spec == Init /\ [][Next]_vars

=============================================================================

------------------------------ MODULE Mailbox -------------------------------
(***************************************************************************)
(* What the job queue of a client promises to those who put something into *)
(* it, without runner, callbacks and counters: items are handed out one at *)
(* a time and in the order in which they were put in, each at most once.   *)
(* With closing it takes one more item or none and then no other; once it  *)
(* is cleared nothing is handed out any more.                              *)
(*                                                                         *)
(* A mailbox may break while it is cleared.  It has then lost some of its  *)
(* first items and may hand out the others.                                *)
(***************************************************************************)
EXTENDS Naturals, Sequences

CONSTANTS Item, None

VARIABLES
    mode,       \* "open", "shut", "cleared" or "broken"
    box,        \* the items that wait
    hand,       \* the item that has been handed out and is not done with
    put         \* all items that were ever put in

vars == <<mode, box, hand, put>>

Init ==
    /\ mode = "open"
    /\ box = <<>>
    /\ hand = None
    /\ put = {}

Put(i) ==
    /\ mode = "open"
    /\ i \notin put
    /\ box' = Append(box, i)
    /\ put' = put \cup {i}
    /\ UNCHANGED <<mode, hand>>

\* Closing without a last item.
Shut ==
    /\ mode = "open"
    /\ mode' = "shut"
    /\ UNCHANGED <<box, hand, put>>

ShutWith(i) ==
    /\ mode = "open"
    /\ i \notin put
    /\ mode' = "shut"
    /\ box' = Append(box, i)
    /\ put' = put \cup {i}
    /\ UNCHANGED hand

\* The first item is handed out.
Take ==
    /\ hand = None
    /\ box # <<>>
    /\ mode # "cleared"
    /\ hand' = Head(box)
    /\ box' = Tail(box)
    /\ UNCHANGED <<mode, put>>

Released == hand' = None

Release ==
    /\ hand # None
    /\ Released
    /\ UNCHANGED <<mode, box, put>>

\* The item in hand may be released in the same step, if it is its failure that
\* clears the mailbox.
Clear ==
    /\ mode \in {"open", "shut"}
    /\ mode' = "cleared"
    /\ box' = <<>>
    /\ Released \/ UNCHANGED hand
    /\ UNCHANGED put

Break ==
    /\ mode # "cleared"
    /\ mode' = "broken"
    /\ \E lost \in 0 .. Len(box) : box' = SubSeq(box, lost + 1, Len(box))
    /\ Released \/ UNCHANGED hand
    /\ UNCHANGED put

Next ==
    \/ \E i \in Item : Put(i) \/ ShutWith(i)
    \/ Shut \/ Take \/ Release \/ Clear \/ Break

Spec == Init /\ [][Next]_vars

=============================================================================

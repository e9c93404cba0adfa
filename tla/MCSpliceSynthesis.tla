-------------------------- MODULE MCSpliceSynthesis --------------------------
(* Requests for SpliceSynthesis: every pair of bounds with everything that   *)
(* xeq takes, and two structures that ask for little things.                 *)
EXTENDS SpliceSynthesis

Asks(op, T) == [o \in Operators |-> IF o = op THEN T ELSE <<>>]

One(T) == {<<>>} \cup {<<t>> : t \in T}

\* One structure, which names an upper and a lower bound and a string to avoid.
Between ==
    {<<<<Both(Asks(u, U), Asks(l, L))>>>> :
        u \in {"lt", "le"}, l \in {"gt", "ge"}, U \in One(BoundText), L \in One(BoundText)}

AllBounds ==
    {<<<<Both(Both(Asks("lt", A), Asks("le", B)), Both(Asks("gt", C), Asks("ge", D)))>>>> :
        A \in One(Words(1)), B \in One(Words(1)), C \in One(Words(1)), D \in One(Words(1))}

Kept ==
    {<<<<Both(Asks("xeq", <<[value |-> v, length |-> n]>>), Both(Asks("lt", U), Asks("gt", L)))>>>> :
        v \in BoundText, n \in 0 .. BoundLength, U \in One(BoundText), L \in One(BoundText)}

\* Two structures, one of which has two disjuncts.
Small ==
    {Asks(op, <<v>>) : op \in {"lt", "ge", "ne"}, v \in {<<1>>, <<2>>, <<2, 1>>}}
    \cup {Asks("eq", <<h>>) : h \in {1, 5}} \cup {Asks("lt", <<>>)}

TwoStructures == {<<<<c, d>>, <<e>>>> : c \in Small, d \in Small, e \in Small}

\* Two structures one of which keeps letters and the other asks for something, or for
\* the same, and what keeps and bounds nothing behind a disjunct that has no solution.
Kept2 ==
    LET keep(v, n) == Asks("xeq", <<[value |-> v, length |-> n]>>) IN
    {<<<<keep(<<1, 2>>, n)>>, <<keep(<<1, 2>>, m)>>>> : n \in 0 .. 2, m \in 0 .. 2}
    \cup {<<<<keep(<<1, 2>>, n)>>, <<c>>>> : n \in 0 .. 2, c \in Small}
    \cup {<<<<Asks("lt", <<<<>>>>), keep(<<1, 2>>, n)>>>> : n \in 0 .. 1}

\* A key of a SpliceDict, inserted once or twice.
Keys ==
    {<<<<Asks("eq", <<Hash(t)>>)>>>> : t \in Text}
    \cup {<<<<Asks("eq", <<Hash(t)>>)>>, <<Asks("eq", <<Hash(t)>>)>>>> : t \in Text}

MCRequests ==
    Between \cup AllBounds \cup Kept \cup Kept2 \cup TwoStructures \cup Keys \cup {<<>>, <<<<>>>>, <<<<>>, <<>>>>}

=============================================================================

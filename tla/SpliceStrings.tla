---------------------------- MODULE SpliceStrings ----------------------------
(***************************************************************************)
(* Strings as StrSynthesizer (splice/synthesis.py) sees them: the charset  *)
(* is 1 .. Letters in ascending order, a regular expression template is    *)
(* the set of its words, and what Z3 may pick for the string variable is a *)
(* member of the intersection of the templates that were added.            *)
(*                                                                         *)
(* Every word of Text stands for itself.  A template or an intersection of *)
(* templates that has a word at all has one that is no more than one letter*)
(* longer than the longest bound, so that nothing is unsatisfiable only    *)
(* because Text is finite.                                                 *)
(*                                                                         *)
(* A definition whose name is that of the next one with a suffix           *)
(* (LtTemplateInclusive) is a variant with a bug, used to see that a        *)
(* property notices it.                                                    *)
(***************************************************************************)
EXTENDS Naturals, FiniteSets, Sequences

CONSTANTS
    Letters,        \* the size of the charset
    BoundLength     \* bound: the length of the strings that constraints name

ASSUME StringsAssumption == Letters \in Nat \ {0} /\ BoundLength \in Nat \ {0}

Words(n) == UNION {[1 .. k -> 1 .. Letters] : k \in 0 .. n}

\* The strings that a constraint may name, and all strings.
BoundText == Words(BoundLength)
Text == Words(BoundLength + 1)

Start(t, n) == SubSeq(t, 1, n)

\* Python's order of strings.
Less(s, t) ==
    \E i \in 1 .. Len(t) :
        /\ i <= Len(s) + 1
        /\ Start(s, i - 1) = Start(t, i - 1)
        /\ i <= Len(s) => s[i] < t[i]

Least(T) == CHOOSE s \in T : \A t \in T : s = t \/ Less(s, t)
Greatest(T) == CHOOSE s \in T : \A t \in T : s = t \/ Less(t, s)

\* SpliceDict.hash: an element weighs half of what it would weigh one place earlier.
Hash(t) ==
    LET hash[n \in 0 .. Len(t)] == IF n = 0 THEN 0 ELSE 2 * hash[n - 1] + t[n]
    IN  hash[Len(t)]

---------------------------------------------------------------------------
(* The templates of StrSynthesizer.                                        *)

\* The first place behind offset where v does not have the given letter, 0 if there
\* is none.
PlaceWithout(v, offset, letter) ==
    LET places == {i \in offset + 1 .. Len(v) : v[i] # letter} IN
    IF places = {} THEN 0 ELSE CHOOSE i \in places : \A j \in places : i <= j

\* The letter itself counts among the smaller ones.
LtTemplateInclusive(v, offset) ==
    LET i == PlaceWithout(v, offset, 1) IN
    IF i = 0 THEN {Start(v, Len(v) - 1)}
             ELSE {t \in Text : Len(t) >= i /\ Start(t, i - 1) = Start(v, i - 1) /\ t[i] <= v[i]}

\* _lt_constraint: a smaller letter at the first place that has one, or the string
\* without its last letter.
LtTemplate(v, offset) ==
    LET i == PlaceWithout(v, offset, 1) IN
    IF i = 0 THEN {Start(v, Len(v) - 1)}
             ELSE {t \in Text : Len(t) >= i /\ Start(t, i - 1) = Start(v, i - 1) /\ t[i] < v[i]}

\* _gt_constraint: a greater letter, or the string with the smallest letter
\* appended, and anything but the empty string for the empty one.
GtTemplate(v, offset) ==
    LET i == PlaceWithout(v, offset, Letters) IN
    CASE v = <<>> -> Text \ {<<>>}
      [] v # <<>> /\ i = 0 -> {Append(v, 1)}
      [] OTHER -> {t \in Text : Len(t) >= i /\ Start(t, i - 1) = Start(v, i - 1) /\ t[i] > v[i]}

LtConstraint(v, offset) == IF v = <<>> THEN {} ELSE LtTemplate(v, offset)
LeConstraint(v, offset) == LtTemplate(v, offset) \cup {v}
GtConstraint(v, offset) == GtTemplate(v, offset)
GeConstraint(v, offset) == GtTemplate(v, offset) \cup {v}
NeConstraint(v) == LtTemplate(v, 0) \cup GtTemplate(v, 0)

\* How many letters two strings begin with in common.
Common(s, t) ==
    CHOOSE n \in 0 .. Len(s) :
        /\ n <= Len(t) /\ Start(s, n) = Start(t, n)
        /\ n < Len(s) /\ n < Len(t) => s[n + 1] # t[n + 1]

\* The letters at this place leave no letter between them.
Adjacent(lower, upper, i) ==
    i <= Len(lower) /\ i <= Len(upper) /\ lower[i] + 1 = upper[i]

\* bounded_constraints: both templates keep what the bounds have in common.  Equal
\* bounds are refused, also when they are included.
BoundedConstraints(upper, lower, includeUpper, includeLower) ==
    LET offset == Common(upper, lower)
        above(n) == IF includeLower THEN GeConstraint(lower, n) ELSE GtConstraint(lower, n)
        below == IF includeUpper THEN LeConstraint(upper, offset) ELSE LtConstraint(upper, offset)
    IN  CASE upper = lower -> {}
          [] upper # lower /\ Adjacent(lower, upper, offset + 1) -> above(offset + 1)
          [] OTHER -> below \cap above(offset)

=============================================================================

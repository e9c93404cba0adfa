--------------------------- MODULE SpliceSynthesis ---------------------------
(***************************************************************************)
(* From the constraints of the data structures an object is in to a string *)
(* that takes its place: `concretize_and_merge_constraints` and            *)
(* `synthesize_obj` (server.py), `merge_constraints` (constraints.py) and  *)
(* `Synthesizer.splice_synthesis` with StrSynthesizer (synthesis.py).      *)
(*                                                                         *)
(* A structure's constraint is in disjunctive normal form: a sequence of   *)
(* conjuncts, each of which gives a list of operands to every operator.    *)
(* Disjuncts are tried in order on one solver, to which every one adds its *)
(* constraints and from which none is removed.                             *)
(*                                                                         *)
(* Z3 is external: it answers with any model there is.  The integer,       *)
(* floating-point, bit-vector and datetime synthesizers hand the operands  *)
(* to Z3 as they are and are left out.                                     *)
(*                                                                         *)
(* HashWordsFull is HashWords with a bug, used to see that a property      *)
(* notices it.                                                             *)
(***************************************************************************)
EXTENDS SpliceStrings, Functions

CONSTANTS
    None,       \* no string
    Slots,      \* DEFAULT_MAX_CHAR_LENGTH, the number of Z3's integer variables
    Requests    \* what the structures of an object may ask for: sequences of
                \* constraints in disjunctive normal form

Operators == {"lt", "le", "gt", "ge", "ne", "eq", "xeq"}

\* xeq's operands are a string and the number of letters to keep, eq's are hashes.
Operands(op) == CASE op = "eq" -> Nat
                  [] op = "xeq" -> [value : BoundText, length : Nat]
                  [] OTHER -> BoundText

Conjunct(c) == DOMAIN c = Operators /\ \A op \in Operators : c[op] \in Seq(Operands(op))

ASSUME SynthesisAssumption ==
    /\ Slots \in 1 .. BoundLength + 1
    /\ \A r \in Requests :
          /\ r \in Seq(Range(r))
          /\ \A i \in DOMAIN r :
                /\ r[i] \in Seq(Range(r[i]))
                /\ \A j \in DOMAIN r[i] : Conjunct(r[i][j])

VARIABLES
    request,    \* the constraints of the object's structures
    todo,       \* the merged disjuncts that are still to be tried
    solver,     \* words left for the string variable, whether it is mentioned, and
                \* the hashes that the integer variables must have
    status,     \* "asked", "trying", "found", "failed" or "raised"
    answer      \* the synthesized string

vars == <<request, todo, solver, status, answer>>

---------------------------------------------------------------------------
(* Merging.                                                                *)

Both(c, d) == [op \in Operators |-> c[op] \o d[op]]

\* A conjunct that asks for nothing.
Empty(c) == \A op \in Operators : c[op] = <<>>

\* merge_constraints: every disjunct of one with every disjunct of the other.  A
\* constraint that has no disjuncts counts as none.
Merged(a, b) ==
    CASE a = <<>> -> b
      [] a # <<>> /\ b = <<>> -> a
      [] OTHER -> [n \in 1 .. Len(a) * Len(b) |->
                      Both(a[((n - 1) \div Len(b)) + 1], b[((n - 1) % Len(b)) + 1])]

\* concretize_and_merge_constraints
MergedAll(constraints) ==
    LET merged[n \in 0 .. Len(constraints)] ==
            IF n = 0 THEN <<>> ELSE Merged(merged[n - 1], constraints[n])
    IN  merged[Len(constraints)]

---------------------------------------------------------------------------
(* One conjunct, of which c gives the set of operands of every operator.   *)

\* What the lists of a conjunct hold.
Named(conjunct) == [op \in Operators |-> Range(conjunct[op])]

\* The strictest bounds, which are included if only le and ge name them.
Bounded(c) ==
    LET upper == Least(c.lt \cup c.le)
        lower == Greatest(c.gt \cup c.ge)
    IN  BoundedConstraints(upper, lower, upper \notin c.lt, lower \notin c.gt)

\* The bounds of a conjunct that has them on one side only, or none.
OneSided(c) ==
    {t \in Text : /\ c.lt # {} => t \in LtConstraint(Least(c.lt), 0)
                  /\ c.le # {} => t \in LeConstraint(Least(c.le), 0)
                  /\ c.gt # {} => t \in GtConstraint(Greatest(c.gt), 0)
                  /\ c.ge # {} => t \in GeConstraint(Greatest(c.ge), 0)}

\* The words for the string variable: bounds and ne.
WordsFor(c) ==
    LET bounds == IF c.lt \cup c.le # {} /\ c.gt \cup c.ge # {} THEN Bounded(c) ELSE OneSided(c)
    IN  {t \in bounds : \A v \in c.ne : t \in NeConstraint(v)}

Bounds(c) == c.lt \cup c.le \cup c.gt \cup c.ge
Mentions(c) == Bounds(c) \cup c.ne # {}

\* xeq_constraint.  A bound that does not begin with the letters to keep needs no
\* template, and an empty one counts as none.
KeptStart(x) == Start(x.value, IF x.length < Len(x.value) THEN x.length ELSE Len(x.value))

Matching(T, x) == {v \in T : v # <<>> /\ Len(v) >= x.length /\ Start(v, x.length) = KeptStart(x)}

\* Both bounds begin with what is kept, and one of them has nothing after it.
XeqIndexError(c, x) ==
    /\ x.length > 0 /\ Matching(c.lt, x) # {} /\ Matching(c.gt, x) # {}
    /\ \E v \in Matching(c.lt \cup c.gt, x) : Len(v) = x.length

\* There are no letters to keep and no bounds.
XeqIsEmpty(c, x) == x.length = 0 /\ Matching(c.lt \cup c.gt, x) = {}

XeqWords(c, x) ==
    LET n == x.length
        uppers == Matching(c.lt, x)
        lowers == Matching(c.gt, x)
        extended == {t \in Text : Len(t) > Len(KeptStart(x)) /\ Start(t, Len(KeptStart(x))) = KeptStart(x)}
        adjacent == \E u \in uppers, l \in lowers : Adjacent(l, u, n + 1)
    IN  IF n = 0 /\ uppers # {} /\ lowers # {}
        THEN BoundedConstraints(Least(uppers), Greatest(lowers), FALSE, FALSE)
        ELSE {t \in IF n = 0 THEN Text ELSE extended :
                 /\ \A u \in uppers : adjacent \/ t \in LtConstraint(u, n)
                 /\ \A l \in lowers : t \in GtConstraint(l, IF adjacent THEN n + 1 ELSE n)}

---------------------------------------------------------------------------
(* The synthesizer.                                                        *)

Fresh == [words |-> Text, mentioned |-> FALSE, hashes |-> {}]

\* No letter may be missing.
HashWordsFull(s) == {t \in [1 .. Slots -> 1 .. Letters] : \A h \in s.hashes : Hash(t) = h}

\* The integer variables spell a word whose leading letters may be missing.
HashWords(s) == {t \in Words(Slots) : \A h \in s.hashes : Hash(t) = h}

\* StrSynthesizer.value: the string variable if it is mentioned, whatever the integer
\* variables are, and these otherwise.
Answers(s) ==
    CASE s.words = {} \/ HashWords(s) = {} -> {}
      [] s.words # {} /\ HashWords(s) # {} /\ s.mentioned -> s.words
      [] OTHER -> HashWords(s)

\* The model of a solver without constraints holds no variable.
Unconstrained(s) == ~s.mentioned /\ s.hashes = {}

Init ==
    /\ request \in Requests
    /\ todo = <<>>
    /\ solver = Fresh
    /\ status = "asked"
    /\ answer = None

Merge ==
    /\ status = "asked"
    /\ todo' = MergedAll(request)
    /\ status' = IF todo' = <<>> THEN "failed" ELSE "trying"
    /\ UNCHANGED <<request, solver, answer>>

\* The solver says sat and gives a word, or the next disjunct is tried.
Conclude ==
    IF Answers(solver') = {}
    THEN /\ todo' = Tail(todo)
         /\ status' = IF Len(todo) = 1 THEN "failed" ELSE "trying"
         /\ answer' = None
    ELSE /\ answer' \in Answers(solver')
         /\ status' = "found"
         /\ UNCHANGED todo

\* _splice_synthesis without xeq.
Try ==
    /\ status = "trying" /\ Head(todo).xeq = <<>>
    /\ LET c == Named(Head(todo)) IN
       /\ Mentions(c) \/ c.eq # {}
       /\ solver' = [words |-> solver.words \cap WordsFor(c),
                     mentioned |-> solver.mentioned \/ Mentions(c),
                     hashes |-> solver.hashes \cup c.eq]
    /\ Conclude
    /\ UNCHANGED request

\* An empty conjunct, or more than one operand where xeq can do with one only, also
\* when two structures give the same one: no constraint is added.
Skip ==
    /\ status = "trying"
    /\ LET c == Head(todo) IN
       \/ Empty(c)
       \/ c.xeq # <<>> /\ (\E op \in {"xeq", "lt", "gt"} : Len(c[op]) > 1)
    /\ todo' = Tail(todo)
    /\ status' = IF Len(todo) = 1 THEN "failed" ELSE "trying"
    /\ UNCHANGED <<request, solver, answer>>

\* The operators beside xeq, lt and gt are not looked at.
TryXeq ==
    /\ status = "trying" /\ Len(Head(todo).xeq) = 1
    /\ Len(Head(todo).lt) <= 1 /\ Len(Head(todo).gt) <= 1
    /\ LET c == Named(Head(todo))
           x == Head(todo).xeq[1]
           empty == XeqIsEmpty(c, x)
       IN  IF XeqIndexError(c, x) \/ (empty /\ Unconstrained(solver))
           THEN status' = "raised" /\ UNCHANGED <<todo, solver, answer>>
           ELSE /\ solver' = [solver EXCEPT !.words = @ \cap XeqWords(c, x),
                                            !.mentioned = @ \/ ~empty]
                /\ Conclude
    /\ UNCHANGED request

Next == Merge \/ Try \/ Skip \/ TryXeq

Spec == Init /\ [][Next]_vars

---------------------------------------------------------------------------
(* Properties                                                              *)

Conjuncts == UNION {{Named(request[i][j]) : j \in DOMAIN request[i]} : i \in DOMAIN request}

\* xeq_constraint: L <= S <= U and S[:L] == V[:L].
HoldsXeq(c, x, t) ==
    /\ Len(t) >= x.length /\ Start(t, x.length) = KeptStart(x)
    /\ \A v \in c.lt : ~Less(v, t)
    /\ \A v \in c.gt : ~Less(t, v)

\* What a conjunct means.
Holds(c, t) ==
    IF c.xeq # {} THEN \A x \in c.xeq : HoldsXeq(c, x, t)
    ELSE /\ \A v \in c.lt : Less(t, v)
         /\ \A v \in c.le : ~Less(v, t)
         /\ \A v \in c.gt : Less(v, t)
         /\ \A v \in c.ge : ~Less(t, v)
         /\ \A v \in c.ne : t # v
         /\ \A h \in c.eq : Hash(t) = h

\* xeq_constraint: the string to keep lies between the bounds, and has what is kept.
Solvable(c) ==
    \A x \in c.xeq : /\ x.length <= Len(x.value)
                     /\ \A v \in c.lt : ~Less(v, x.value)
                     /\ \A v \in c.gt : ~Less(x.value, v)

\* What the synthesizer can deal with: eq has variables of its own, so that it binds
\* nothing if anything else is asked for; beside xeq only lt and gt of the same
\* structure are looked at; and ne of the empty string is satisfied by it.
Separate ==
    /\ (\E c \in Conjuncts : c.eq # {}) => \A c \in Conjuncts : ~Mentions(c)
    /\ (\E c \in Conjuncts : c.xeq # {}) =>
          \A c \in Conjuncts : \A op \in Operators \ {"xeq"} :
              c[op] # {} => c.xeq # {} /\ op \in {"lt", "gt"}
    /\ \A c \in Conjuncts : <<>> \notin c.ne /\ Solvable(c)

\* splice_synthesis with concretize_and_merge_constraints: the string satisfies the
\* constraint of every structure that the object is in, although the solver still
\* holds the disjuncts that failed before and the templates stand for less than
\* the bounds.
ResultSound ==
    status = "found" /\ Separate =>
        \A i \in DOMAIN request :
            request[i] # <<>> => \E j \in DOMAIN request[i] : Holds(Named(request[i][j]), answer)

\* A string is asked for with the hash of t, once or several times, and nothing else.
AsksForKey(t) ==
    /\ request # <<>>
    /\ \A i \in DOMAIN request :
          /\ Len(request[i]) = 1 /\ request[i][1].eq = <<Hash(t)>>
          /\ \A op \in Operators \ {"eq"} : request[i][1][op] = <<>>

\* The key of a SpliceDict is never left to be flagged only, if it is no longer than
\* the slots, however often it has been inserted: it is a solution itself.
KeySynthesized == \A t \in Words(Slots) : AsksForKey(t) => status # "failed"

---------------------------------------------------------------------------
(* The inductive invariant.                                                *)

\* What a synthesizer that is asked for this conjunct alone may answer.
MayAnswer(conjunct, t) ==
    LET c == Named(conjunct) IN
    IF conjunct.xeq = <<>>
    THEN IF Mentions(c) THEN t \in Text /\ t \in WordsFor(c)
                        ELSE t \in HashWords([Fresh EXCEPT !.hashes = c.eq])
    ELSE /\ Len(conjunct.xeq) = 1 /\ Len(conjunct.lt) <= 1 /\ Len(conjunct.gt) <= 1
         /\ ~XeqIsEmpty(c, conjunct.xeq[1])
         /\ t \in Text /\ t \in XeqWords(c, conjunct.xeq[1])

\* A solver that has failed once has no answer any more: what is found is found with
\* the first constraints that the solver is given.
SolverInv ==
    /\ status \in {"asked", "trying", "found", "failed", "raised"}
    /\ solver \in [words : SUBSET Text, mentioned : BOOLEAN, hashes : SUBSET Nat]
    /\ status = "asked" => solver = Fresh
    /\ status = "trying" => /\ todo \in Seq(Range(MergedAll(request))) /\ todo # <<>>
                            /\ solver = Fresh \/ Answers(solver) = {}
    /\ status = "found" => \E c \in Range(MergedAll(request)) : MayAnswer(c, answer)

\* A key's only disjunct is tried first.
KeyInv ==
    \A t \in Words(Slots) : AsksForKey(t) =>
        /\ status # "failed"
        /\ status = "trying" => todo = MergedAll(request) /\ solver = Fresh

SynthesisInv == request \in Requests /\ SolverInv /\ KeyInv

=============================================================================

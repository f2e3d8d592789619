------------------------------- MODULE Solver -------------------------------
(***************************************************************************)
(* The constraint solver of the resolver                                   *)
(* (pkg/controller/registry/resolver/solver): the translation of the       *)
(* constraints, the search that guesses candidates in order of preference  *)
(* and backtracks, and the minimisation of what the guesses did not need.  *)
(*                                                                         *)
(* The SAT solver (gini) is external.  Test and Untest propagate units     *)
(* through the clauses of the constraints; once a conflict has been met    *)
(* they may also use what was learned from it, so that they answer         *)
(* anything between propagation and the truth.  Solve is complete.         *)
(***************************************************************************)
EXTENDS Integers, Sequences, FiniteSets, Functions

VARIABLES
    inorder,      \* the identifiers of the input variables, in input order
    constraints,  \* the constraints of each variable, in order
    guesses,      \* search.guesses: the stack of guesses
    choices,      \* the deque of choices not yet made (head first)
    assumptions,  \* search.assumptions: the literals guessed
    result,       \* search.result
    learned,      \* external: gini has met a conflict and learned from it
    outcome,      \* where Solve stands, and what it returned
    selected      \* the variables Solve returned

input == <<inorder, constraints>>
vars == <<inorder, constraints, guesses, choices, assumptions, result,
          learned, outcome, selected>>

satisfiable == 1
unsatisfiable == -1
unknown == 0

LitNull == <<>>     \* z.LitNull, in a guess that assumes nothing

\* Sequences: all but the last element, the last one, and the concatenation of
\* a sequence of sequences.  (SequencesExt has them too, but with the theorems
\* about bags and sequences, which slow down every proof.)
Front(s) == SubSeq(s, 1, Len(s) - 1)
Last(s) == s[Len(s)]
FlattenSeq(seqs) ==
    LET upto[i \in 0 .. Len(seqs)] == IF i = 0 THEN <<>> ELSE upto[i - 1] \o seqs[i]
    IN upto[Len(seqs)]

\* The elements of s that are in S, in their order.
Filter(s, S) ==
    LET kept[i \in 0 .. Len(s)] ==
            IF i = 0 THEN <<>>
            ELSE IF s[i] \in S THEN Append(kept[i - 1], s[i]) ELSE kept[i - 1]
    IN kept[Len(s)]
-----------------------------------------------------------------------------
(* Constraints *)

Mandatory == [type |-> "mandatory"]
Prohibited == [type |-> "prohibited"]
Dependency(ids) == [type |-> "dependency", ids |-> ids]
Conflict(id) == [type |-> "conflict", id |-> id]
AtMost(n, ids) == [type |-> "atmost", n |-> n, ids |-> ids]

Ids == DOMAIN constraints
Applied == UNION {{v} \X DOMAIN constraints[v] : v \in Ids}
Of(type) == {a \in Applied : constraints[a[1]][a[2]].type = type}
At(a) == constraints[a[1]][a[2]]

\* Constraint.apply: the formula a constraint stands for, in a solution S.
\* AtMost holds of S whether or not its own variable is selected.
apply(a, S) ==
    LET c == At(a) IN
    /\ c.type = "mandatory"  => a[1] \in S
    /\ c.type = "prohibited" => a[1] \notin S
    /\ c.type = "dependency" => (a[1] \in S => \E m \in Range(c.ids) : m \in S)
    /\ c.type = "conflict"   => ~ {a[1], c.id} \subseteq S
    /\ c.type = "atmost"     => Cardinality(c.ids \cap S) <= c.n

AnchorIdentifiers == Filter(inorder, {a[1] : a \in Of("mandatory")})
Anchors == Range(AnchorIdentifiers)

\* The selections of at least lits that all constraints admit.
ModelsOf(lits) ==
    LET fixed == Anchors \cup lits
        applied == Applied
    IN {S \in {fixed \cup T : T \in SUBSET (Ids \ fixed)} :
           \A a \in applied : apply(a, S)}
Models == ModelsOf({})
Sat(lits) == ModelsOf(lits) # {}
-----------------------------------------------------------------------------
(* External: unit propagation.  A state of it is the set of literals known  *)
(* to hold (yes) and known not to (no).                                     *)

Implied(p) ==
    [yes |-> p.yes \cup UNION {
        LET open == Range(At(a).ids) \ p.no IN
        IF a[1] \in p.yes /\ Cardinality(open) = 1 THEN open ELSE {}
            : a \in Of("dependency")},
     no |-> p.no
        \cup {a[1] : a \in Of("prohibited")}
        \cup {a[1] : a \in {b \in Of("dependency") :
                              Range(At(b).ids) \subseteq p.no}}
        \cup {a[1] : a \in {b \in Of("conflict") : At(b).id \in p.yes}}
        \cup {At(a).id : a \in {b \in Of("conflict") : b[1] \in p.yes}}
        \cup UNION {IF Cardinality(At(a).ids \cap p.yes) >= At(a).n
                    THEN At(a).ids \ p.yes ELSE {} : a \in Of("atmost")}]

\* Every round that changes anything decides one more literal, or decides one
\* both ways: as many rounds as there are literals are enough.
Propagated(lits) ==
    LET round[i \in 0 .. Cardinality(Ids)] ==
            IF i = 0 THEN [yes |-> Anchors \cup lits, no |-> {}]
            ELSE Implied(round[i - 1])
    IN round[Cardinality(Ids)]
Refuted(p) == p.yes \cap p.no # {}
                \/ \E a \in Of("atmost") : Cardinality(At(a).ids \cap p.yes) > At(a).n

\* S.Test: what may be answered under the assumptions lits.
Test(lits) ==
    LET p == Propagated(lits) IN
    IF Refuted(p) THEN {unsatisfiable}
    ELSE IF ~Sat(lits) THEN {unknown} \cup (IF learned THEN {unsatisfiable} ELSE {})
    ELSE IF p.yes \cup p.no = Ids THEN {satisfiable}
    ELSE {unknown}
\* S.Untest answers for the assumptions that are left, never satisfiable.
Untest(lits) ==
    {IF r = satisfiable THEN unknown ELSE r : r \in Test(lits)}
\* S.Value once the search has left its scopes: what holds without a guess.
Value ==
    IF learned
    THEN {T \in SUBSET {v \in Ids : \A S \in Models : v \in S} :
             Propagated({}).yes \subseteq T}
    ELSE {Propagated({}).yes}
-----------------------------------------------------------------------------
(* The search *)

order(c) == IF c.type = "dependency" THEN c.ids ELSE <<>>

\* The choices that guessing m opens: one for each constraint with an order.
Opened(m) ==
    LET orders == [i \in DOMAIN constraints[m] |-> order(constraints[m][i])]
        some == Filter(orders, Range(orders) \ {<<>>})
    IN [i \in DOMAIN some |-> [index |-> 1, candidates |-> some[i]]]

\* The front choice is made.  A choice that an assumption satisfies, or that
\* has run out of candidates, assumes nothing.
PushGuess ==
    /\ outcome = "searching"
    /\ result # unsatisfiable
    /\ choices # <<>>
    /\ LET c == Head(choices)
           m == IF c.index > Len(c.candidates)
                     \/ Range(c.candidates) \cap assumptions # {}
                THEN LitNull ELSE c.candidates[c.index]
           opened == IF m = LitNull THEN <<>> ELSE Opened(m)
       IN /\ guesses' = Append(guesses, [m |-> m, index |-> c.index,
                                         children |-> Len(opened),
                                         candidates |-> c.candidates])
          /\ choices' = Tail(choices) \o opened
          /\ IF m = LitNull
             THEN UNCHANGED <<assumptions, result>>
             ELSE /\ assumptions' = assumptions \cup {m}
                  /\ result' \in Test(assumptions')
    /\ learned' = (learned \/ result' = unsatisfiable)
    /\ UNCHANGED <<input, outcome, selected>>

\* Mutant: the candidate that failed is tried again.
MutReopened(g) == [index |-> g.index, candidates |-> g.candidates]

\* PopGuess: the choice goes back to the front, at its next candidate when
\* one was assumed ...
Reopened(g) == [index |-> IF g.m = LitNull THEN g.index ELSE g.index + 1,
                candidates |-> g.candidates]

\* Mutant: as many choices leave the front.
MutLeft(g) == SubSeq(choices, 1 + g.children, Len(choices))

\* ... and the choices that the guess had opened leave the back.
Left(g) == SubSeq(choices, 1, Len(choices) - g.children)

PopGuess ==
    /\ outcome = "searching"
    /\ result = unsatisfiable
    /\ guesses # <<>>
    /\ LET g == Last(guesses) IN
       /\ guesses' = Front(guesses)
       /\ choices' = <<Reopened(g)>> \o Left(g)
       /\ assumptions' = assumptions \ {g.m}
       /\ IF g.m = LitNull
          THEN result' = result
          ELSE result' \in Untest(assumptions')
    /\ UNCHANGED <<input, learned, outcome, selected>>

\* All choices are made and the result is not known: ask for a definitive one.
SolveLeaf ==
    /\ outcome = "searching"
    /\ result = unknown
    /\ choices = <<>>
    /\ result' = IF Sat(assumptions) THEN satisfiable ELSE unsatisfiable
    /\ learned' = (learned \/ result' = unsatisfiable)
    /\ UNCHANGED <<input, guesses, choices, assumptions, outcome, selected>>
-----------------------------------------------------------------------------
(* Solve *)

\* The least number of extras is selected that the guesses, with everything
\* that is neither guessed nor a value excluded, can do with.
Minimised(fixed, aset, values) ==
    LET extras == values \ aset
        left == {S \in Models : fixed \subseteq S /\ S \subseteq aset \cup values}
        Extra(S) == Cardinality(S \cap extras)
    IN {S \in left : \A R \in left : Extra(S) <= Extra(R)}

Finish(fixed, aset, values) ==
    LET best == Minimised(fixed, aset, values) IN
    IF best = {}
    THEN outcome' = "unexpected internal error" /\ selected' = {}
    ELSE outcome' = "selected" /\ selected' \in best

\* The mandatory variables are assumed and tested before anything is guessed.
Baseline ==
    /\ outcome = "baseline"
    /\ result' \in Test({})
    /\ \/ /\ result' = unknown
          /\ outcome' = "searching"
          /\ choices' = [i \in DOMAIN AnchorIdentifiers |->
                            [index |-> 1, candidates |-> <<AnchorIdentifiers[i]>>]]
          /\ selected' = {}
       \/ /\ result' = satisfiable
          /\ Finish(Anchors, {}, Propagated({}).yes)
          /\ choices' = <<>>
       \/ /\ result' = unsatisfiable
          /\ outcome' = "not satisfiable"
          /\ choices' = <<>>
          /\ selected' = {}
    /\ UNCHANGED <<input, guesses, assumptions, learned>>

\* The search ends satisfiable: its scopes are left, and the rest minimised.
Select ==
    /\ outcome = "searching"
    /\ result = satisfiable
    /\ choices = <<>>
    /\ \E values \in Value : Finish(assumptions, assumptions, values)
    /\ UNCHANGED <<input, guesses, choices, assumptions, result, learned>>

NotSatisfiable ==
    /\ outcome = "searching"
    /\ result = unsatisfiable
    /\ guesses = <<>>
    /\ outcome' = "not satisfiable"
    /\ UNCHANGED <<input, guesses, choices, assumptions, result, learned, selected>>

Next == Baseline \/ PushGuess \/ PopGuess \/ SolveLeaf \/ Select \/ NotSatisfiable

Done == outcome \in {"selected", "not satisfiable", "unexpected internal error", "error"}
-----------------------------------------------------------------------------
(* Properties *)

\* The agenda of the search is kept through backtracking: the choices made and
\* the choices open are, in this order, those of the mandatory variables and
\* those opened by each guess on the stack - none is lost, doubled or left over
\* by PopGuess - and the assumptions are what the stack assumes.
AgendaKept ==
    outcome = "searching" =>
        LET made == [i \in DOMAIN guesses |-> guesses[i].candidates]
            open == [i \in DOMAIN choices |-> choices[i].candidates]
            roots == [i \in DOMAIN AnchorIdentifiers |-> <<AnchorIdentifiers[i]>>]
            by == [i \in DOMAIN guesses |->
                      IF guesses[i].m = LitNull THEN <<>>
                      ELSE LET o == Opened(guesses[i].m) IN
                           [j \in DOMAIN o |-> o[j].candidates]]
        IN /\ made \o open = roots \o FlattenSeq(by)
           /\ assumptions = {guesses[i].m : i \in DOMAIN guesses} \ {LitNull}

\* Dependency's promise, "Identifiers appearing earlier in the argument list
\* have higher preference than those appearing later": at the end of the search
\* a candidate was passed over only because it cannot be selected together with
\* the guesses made before it.
PreferenceKept ==
    outcome = "searching" /\ result = satisfiable /\ choices = <<>> =>
        \A i \in DOMAIN guesses :
            LET before == {guesses[j].m : j \in 1 .. i - 1} \ {LitNull} IN
            guesses[i].m # LitNull =>
                \A k \in 1 .. guesses[i].index - 1 :
                    ~Sat(before \cup {guesses[i].candidates[k]})

\* Solve returns: the search does not go round in circles.
Terminates == <>Done
=============================================================================

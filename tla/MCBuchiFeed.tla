----------------------------- MODULE MCBuchiFeed -----------------------------
(* Every automaton with two states and two atomic propositions, at most    *)
(* one edge between two states, with every label and every order the edges *)
(* of the initial state can have and four labels at the other state; and   *)
(* the automaton of F(a & F(o & G !n)).                                    *)
EXTENDS BuchiFeed, TLC

MCEvent == {"a", "b", "x"}   \* "x" is named by no formula
MCState == {0, 1}

(* The cubes bdd_allsat reports for a function of variable 2, low first.   *)
OneVar(G, pos, neg) ==
    CASE G = {}         -> <<>>
      [] G = {{}, {2}}  -> <<[pos |-> pos, neg |-> neg]>>
      [] G = {{}}       -> <<[pos |-> pos, neg |-> neg \cup {2}]>>
      [] G = {{2}}      -> <<[pos |-> pos \cup {2}, neg |-> neg]>>

(* ... and for a function of variables 1 and 2, the set F of valuations.   *)
LabelOf(F) ==
    LET low  == {v \in F : 1 \notin v}
        high == {v \ {1} : v \in F \ low}
    IN  IF low = high THEN OneVar(low, {}, {})
        ELSE OneVar(low, {}, {1}) \o OneVar(high, {1}, {})

Labels == {LabelOf(F) : F \in SUBSET (SUBSET {1, 2}) \ {{}}}
EdgesTo(d) == {[label |-> l, dst |-> d] : l \in Labels}

OutAnyOrder == {<<>>} \cup {<<x>> : x \in EdgesTo(0) \cup EdgesTo(1)}
               \cup {<<x, y>> : x \in EdgesTo(0), y \in EdgesTo(1)}
               \cup {<<y, x>> : x \in EdgesTo(0), y \in EdgesTo(1)}

(* For the other state: true, !a, a & !b and the two cubes of (a xor b).   *)
FewLabels == {LabelOf(F) : F \in {SUBSET {1, 2}, {{}, {2}}, {{1}}, {{1}, {2}}}}
FewEdgesTo(d) == {[label |-> l, dst |-> d] : l \in FewLabels}
OutSorted   == {<<>>} \cup {<<x>> : x \in FewEdgesTo(0)}
               \cup {<<x, y>> : x \in FewEdgesTo(0), y \in FewEdgesTo(1)}

MCAutomata ==
    {[init |-> 0, acc |-> {1}, ap |-> <<"a", "b">>,
      out |-> [s \in MCState |-> IF s = 0 THEN o0 ELSE o1]]
     : o0 \in OutAnyOrder, o1 \in OutSorted}

-----------------------------------------------------------------------------
(* The property of experiment/CS6215 with its exclusion group a, o, n.     *)
QuotaEvent == {"a", "o", "n"}
QuotaState == {0, 1, 2}
Lit(p, n) == <<[pos |-> p, neg |-> n]>>
QuotaAutomaton ==
    [init |-> 0, acc |-> {2}, ap |-> <<"a", "o", "n">>,
     out |-> (0 :> << [label |-> Lit({}, {1}), dst |-> 0],
                      [label |-> Lit({1}, {}), dst |-> 1] >>
           @@ 1 :> << [label |-> Lit({}, {}), dst |-> 1],
                      [label |-> Lit({2}, {3}), dst |-> 2] >>
           @@ 2 :> << [label |-> Lit({}, {3}), dst |-> 2] >>)]
QuotaAutomata == {QuotaAutomaton}
=============================================================================

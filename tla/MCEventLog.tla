----------------------------- MODULE MCEventLog -----------------------------
(* Inputs around the quota of five requests, and the automaton of the      *)
(* test's property F(a & F(o & G !n)).                                     *)
EXTENDS EventLog, TLC

In(a, r, p) == [activate_quota |-> a, req_time |-> r, problematic |-> p]
SomeInputs == {In(TRUE, 6, FALSE), In(TRUE, 6, TRUE), In(TRUE, 5, TRUE),
               In(FALSE, -1, TRUE)}
TwoInputs  == {In(TRUE, 6, FALSE), In(TRUE, 6, TRUE)}

Lit(p, n) == <<[pos |-> p, neg |-> n]>>
QuotaAutomaton ==
    [init |-> 0, acc |-> {2}, ap |-> <<"a", "o", "n">>,
     out |-> (0 :> << [label |-> Lit({}, {1}), dst |-> 0],
                      [label |-> Lit({1}, {}), dst |-> 1] >>
           @@ 1 :> << [label |-> Lit({}, {}), dst |-> 1],
                      [label |-> Lit({2}, {3}), dst |-> 2] >>
           @@ 2 :> << [label |-> Lit({}, {3}), dst |-> 2] >>)]
=============================================================================

---------------------------- MODULE MCTraceServer ----------------------------
(* Small instances of the trace evaluator.  Fa and Fb number their only    *)
(* proposition alike, Until has a disjunctive label and a dead end; Bad is *)
(* a formula the parser refuses.                                           *)
EXTENDS TraceServer, TLC

Cube(p, n) == [pos |-> p, neg |-> n]
Eventually(e) ==
    [init |-> 0, acc |-> {1}, ap |-> <<e>>,
     out |-> (0 :> << [label |-> <<Cube({}, {1})>>, dst |-> 0],
                      [label |-> <<Cube({1}, {})>>, dst |-> 1] >>
           @@ 1 :> << [label |-> <<Cube({}, {})>>, dst |-> 1] >>)]
(* a U b, staying on (!b & a) and leaving on b; then !a | b forever.       *)
Until ==
    [init |-> 0, acc |-> {1}, ap |-> <<"a", "b">>,
     out |-> (0 :> << [label |-> <<Cube({1}, {2})>>, dst |-> 0],
                      [label |-> <<Cube({2}, {})>>, dst |-> 1] >>
           @@ 1 :> << [label |-> <<Cube({}, {1}), Cube({1, 2}, {})>>,
                       dst |-> 1] >>)]

MCAutomatonOf == "Fa" :> Eventually("a") @@ "Fb" :> Eventually("b")
                 @@ "Until" :> Until
MCState == {0, 1}

TwoFormulas == {<<"Fa">>, <<"Fb">>}
Traces1     == {<<"a">>, <<"b">>}
=============================================================================

----------------------------- MODULE MCCampaign -----------------------------
(* A program with three states and an input without effect in one of them. *)
(* <<1, 2, 2>> and <<2, 2>> take the first automaton along paths whose     *)
(* names, with these prefixes, are the same.                               *)
EXTENDS Campaign

Step3(a, b, c, d, e, f) ==
    (<<0, 1>> :> a @@ <<0, 2>> :> b @@ <<1, 1>> :> c
      @@ <<1, 2>> :> d @@ <<2, 1>> :> e @@ <<2, 2>> :> f)
MCProgram == [init |-> 0, eof |-> <<1>>, seen |-> [s \in 0 .. 2 |-> s],
              next |-> Step3(1, 0, 1, 2, 0, 2),
              out  |-> Step3(3, 4, 0, 3, 3, 4)]

MCEvents == {In(1), In(2), Out(3), Out(4)}
MCLocated == {Out(4)}
Outputs   == {Out(3), Out(4)}
MCTails  == {<<2>>, <<2, 2>>, <<1, 2, 2>>}
MCSeed   == <<1, 1, 1, 1>>

(* Labels over the proposition o4: itself, its negation, true.             *)
Pos  == <<[pos |-> {1}, neg |-> {}]>>
Neg  == <<[pos |-> {}, neg |-> {1}]>>
True == <<[pos |-> {}, neg |-> {}]>>
Edge(l, d) == [label |-> l, dst |-> d]

(* F(o4 & XF o4)                                                           *)
Twice == [init |-> 0, acc |-> {1}, ap |-> <<Out(4)>>,
          out |-> (0 :> <<Edge(Neg, 0), Edge(Pos, 2)>>
                @@ 1 :> <<Edge(True, 1)>>
                @@ 2 :> <<Edge(Neg, 2), Edge(Pos, 1)>>)]
(* F G !o4                                                                 *)
Never == [init |-> 0, acc |-> {1}, ap |-> <<Out(4)>>,
          out |-> (0 :> <<Edge(True, 0), Edge(Neg, 1)>>
                @@ 1 :> <<Edge(Neg, 1)>>)]
(* G(o3 -> X i2), with exclusive events: no self loop at state 1.          *)
Answer == [init |-> 0, acc |-> {0, 1}, ap |-> <<Out(3), In(2)>>,
           out |-> (0 :> <<Edge(Neg, 0), Edge(Pos, 1)>>
                 @@ 1 :> <<Edge(<<[pos |-> {2}, neg |-> {1}]>>, 0)>>)]

Subject(p, k, o, n, A) ==
    [protocol |-> p, kills |-> k, orphans |-> o, reads |-> n, aut |-> A]
MCSubjects ==
    {Subject(FALSE, FALSE, FALSE, 4, A) : A \in {Twice, Never}}
    \cup {Subject(p, TRUE, FALSE, 4, Twice) : p \in BOOLEAN}
    \cup {Subject(TRUE, FALSE, FALSE, 4, Never)}
    \cup {Subject(FALSE, FALSE, TRUE, 2, Twice)}
Answers    == {Subject(FALSE, FALSE, FALSE, 4, Answer)}
Protocols  == {Subject(TRUE, FALSE, FALSE, 4, Twice)}
=============================================================================

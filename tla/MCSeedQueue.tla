---------------------------- MODULE MCSeedQueue -----------------------------
(* Three inputs over three edges.  "b" takes an edge of "a" and one more;  *)
(* "c" takes edges of both, one of them more often, and may time out.      *)
EXTENDS SeedQueue

Run(t, d) == [fault |-> "none", trace |-> t, distance |-> d]
Hang      == [fault |-> "tmout", trace |-> <<1, 0, 0>>, distance |-> -1]

Inputs  == {"a", "b", "c"}
Lengths == [i \in Inputs |-> IF i = "a" THEN 3 ELSE 2]
Steady  == [i \in Inputs |->
              CASE i = "a" -> {Run(<<1, 1, 0>>, 1)}
                [] i = "b" -> {Run(<<0, 1, 1>>, 3)}
                [] i = "c" -> {Run(<<2, 0, 1>>, 0), Hang}]
Flaky   == [Steady EXCEPT !["a"] = @ \cup {Run(<<0, 0, 1>>, 1)}]

Command(p, s, y) == [protocol |-> p, skips |-> s, sync |-> y]
Alone    == {Command(p, {"tmout"}, FALSE) : p \in BOOLEAN}
Commands == Alone \cup {Command(FALSE, {}, TRUE)}
=============================================================================

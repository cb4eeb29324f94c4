------------------------------- MODULE MCTMin -------------------------------
(* Small instances of afl-tmin: six targets, files of up to six bytes over *)
(* '0' and two other symbols, and blocks small enough to be halved.        *)
EXTENDS TMin, TLC

Count(d, c) == Cardinality({k \in DOMAIN d : d[k] = c})
Follows(d, a, b) == \E k \in 1 .. Len(d) - 1 : d[k] = a /\ d[k + 1] = b

Did(how, a, b) == [end |-> how, hits |-> ("a" :> a @@ "b" :> b)]

(* counts  : a loop per 1, a branch for the 2s                             *)
(* overrun : 2 after 1 crashes it, at one of two places                    *)
(* checks  : exits non-zero when an odd number of bytes are not '0'        *)
(* slow    : like counts, but may hang on every longer file                *)
(* flaky   : a tuple is hit or not                                         *)
(* blind   : not instrumented                                              *)
MCOutcomes(target, d) ==
    LET ones == Count(d, 1)
        twos == Min({1, Count(d, 2)})
    IN  CASE target = "counts"  -> {Did("returns", ones + 1, twos)}
          [] target = "overrun" -> {Did(IF Follows(d, 1, 2) THEN "signal"
                                        ELSE "returns",
                                        1, IF ones > 1 THEN 1 ELSE 0)}
          [] target = "checks"  -> {Did(IF (ones + Count(d, 2)) % 2 = 1
                                        THEN "fails" ELSE "returns",
                                        Len(d) + 1, 0)}
          [] target = "slow"    -> {Did("returns", 1, twos)}
                                   \cup (IF Len(d) > 2
                                         THEN {Did("hangs", 1, 0)} ELSE {})
          [] target = "flaky"   -> {Did("returns", 1, twos),
                                    Did("returns", 1, 0)}
          [] target = "blind"   -> {Did("returns", 0, 0)}

Start(target, d) ==
    [target |-> target, in_data |-> d, edges_only |-> FALSE,
     exit_crash |-> FALSE, exact_mode |-> FALSE,
     mask |-> ("a" :> {} @@ "b" :> {})]

Files6 == {<<1, 2, 1, 2, 0, 2>>, <<2, 2, 2, 1, 1, 1>>, <<1, 1, 1, 2, 2>>,
           <<2, 1, 2, 1>>, <<0, 0, 1, 2, 1>>, <<0, 1, 2>>, <<1>>}

MCSubjects ==
    UNION {
      LET counts  == Start("counts", d)
          overrun == Start("overrun", d)
          checks  == Start("checks", d)
      IN  {counts, [counts EXCEPT !.edges_only = TRUE],
           [counts EXCEPT !.mask["a"] = {1, 2}],
           overrun, [overrun EXCEPT !.exact_mode = TRUE],
           checks, [checks EXCEPT !.exit_crash = TRUE],
           [checks EXCEPT !.exit_crash = TRUE, !.exact_mode = TRUE],
           Start("slow", d), Start("flaky", d), Start("blind", d)}
      : d \in Files6}
=============================================================================

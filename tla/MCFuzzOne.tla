------------------------------ MODULE MCFuzzOne ------------------------------
(* Small instances of fuzz_one: four files for the deterministic stages,   *)
(* and two for havoc and splicing.                                         *)
EXTENDS FuzzOne

Score(speed, size, depth, power) ==
    [speed |-> speed, size |-> size, depth |-> depth, power |-> power]
Low  == Score(10, <<1, 4>>, 0, <<1, 32>>)          \* comes out as 0
Mid  == Score(100, <<3, 2>>, 0, <<1, 1>>)
High == Score(300, <<3, 1>>, 14, <<32, 1>>)        \* far above the limit

Base(file, lsb, whole) ==
    [queue |-> <<file>>, current |-> 1, lsb |-> lsb, whole |-> whole,
     extras |-> <<>>, dumb_mode |-> FALSE, no_arith |-> FALSE,
     skip_det |-> FALSE, queue_cycle |-> 1, run_over10m |-> FALSE,
     handicap |-> 0, scores |-> {Low}, calls |-> 1, finds |-> 0,
     find |-> <<0>>]

(* Every byte matters, carries cross bytes; a dictionary with tokens that  *)
(* begin alike.                                                            *)
Numbers == [Base(<<224, 0, 255, 127>>, <<1, 2, 3, 4>>, <<1, 1, 1, 1>>)
            EXCEPT !.extras = <<<<5>>, <<224, 1>>, <<5, 0, 7>>>>]

(* The blocks in the middle do nothing. *)
Sparse == Base(<<0, 31, 128, 7, 255, 1, 100, 0, 9>>,
               <<1, 0, 0, 0, 0, 0, 1, 2, 1>>, <<1, 0, 0, 0, 0, 0, 0, 0, 1>>)

(* Six tokens, two of them twice and one in the dictionary already.        *)
Magic == [Base(<<9, 8, 7, 97, 98, 9, 8, 7, 65, 66, 80, 81, 3, 4, 5, 6, 70, 71>>,
               <<1, 1, 1, 2, 2, 1, 1, 1, 2, 2, 1, 1, 2, 2, 1, 1, 3, 3>>,
               [p \in 1 .. 18 |-> IF p > 3 THEN 0 ELSE 1])
          EXCEPT !.extras = <<<<112, 113>>>>, !.no_arith = TRUE]

Tiny == [Base(<<65>>, <<1>>, <<1>>)
         EXCEPT !.dumb_mode = TRUE, !.extras = <<<<66>>>>]

(* Skipping what is done, havoc has room to grow and others to splice.     *)
Mangle == [Base(<<1, 2, 3>>, <<1, 1, 1>>, <<1, 1, 1>>)
           EXCEPT !.queue = <<<<7>>, <<1, 2, 3>>, <<1, 2, 3>>,
                              <<1, 9, 4, 5>>, <<4, 2, 6>>>>,
                  !.current = 2, !.skip_det = TRUE, !.queue_cycle = 3,
                  !.run_over10m = TRUE, !.handicap = 5, !.extras = <<<<6, 6>>>>,
                  !.scores = {Low, Mid, High}, !.calls = 2, !.finds = 2,
                  !.find = <<2, 2>>]

Alike == [Mangle EXCEPT !.queue = <<<<1, 2, 3>>, <<1, 2, 3>>>>, !.finds = 1,
                        !.find = <<1, 2, 3>>, !.calls = 1]

Inputs == {Numbers, Sparse, Magic, Tiny, Mangle, Alike}
=============================================================================

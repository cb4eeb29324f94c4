----------------------------- MODULE TraceEval ------------------------------
(***************************************************************************)
(* What an instrumented target makes of one execution (CodeBean.cc): the   *)
(* trace it collects, the states of the automaton along the trace, the     *)
(* automaton path and the input prefix that leads there, and the search    *)
(* for an accepting loop.                                                  *)
(*                                                                         *)
(* A program is a record                                                   *)
(*   init : its state before the first input                               *)
(*   next : [state \X input -> state]                                      *)
(*   out  : [state \X input -> output], 0 if no event location is passed   *)
(*   seen : [state -> what state_handler can tell of it]                   *)
(*   eof  : the inputs it reads after the end of its file                  *)
(* flag is TRUE for network protocols, FALSE for RERS programs, as the     *)
(* argument of evaluate_trace is.  A path is the sequence of its states, a *)
(* prefix the sequence of its inputs.                                      *)
(***************************************************************************)
EXTENDS BuchiWalk, SequencesExt

In(x)  == <<"i", x>>       \* event names; event_reverse_map is one-to-one
Out(y) == <<"o", y>>

-----------------------------------------------------------------------------
(* Collection: automata_handler and state_handler are called at every      *)
(* event location, proposition_handler likewise, input_handler wherever a  *)
(* message was read.                                                       *)

(* What state_handler makes of a state: a hash of the first bytes of every *)
(* variable.                                                               *)
StateSeen(P, s) == P.seen[s]

(* One entry for every event location passed: the input, the output, the   *)
(* program's state as seen and as it is, and how many inputs were read.    *)
Entry(P, s, x, n) ==
    [input |-> x, output |-> P.out[<<s, x>>], read |-> n,
     state |-> StateSeen(P, P.next[<<s, x>>]), real |-> P.next[<<s, x>>]]

(* The program's state after each input.                                   *)
StatesOf(P, xs) ==
    LET at[n \in 0 .. Len(xs)] ==
          IF n = 0 THEN P.init ELSE P.next[<<at[n - 1], xs[n]>>]
    IN  at

(* What the vectors hold after each input.                                 *)
EntriesOf(P, xs) ==
    LET at == StatesOf(P, xs)
        col[n \in 0 .. Len(xs)] ==
          IF n = 0 THEN <<>>
          ELSE IF P.out[<<at[n - 1], xs[n]>>] = 0 THEN col[n - 1]
          ELSE Append(col[n - 1], Entry(P, at[n - 1], xs[n], n))
    IN  col

Collected(P, xs) == EntriesOf(P, xs)[Len(xs)]

(* trace_string alternates inputs and outputs, trace_protocol holds only   *)
(* propositions.                                                           *)
normalize_trace(col, flag) ==
    IF flag THEN [k \in DOMAIN col |-> Out(col[k].output)]
    ELSE [j \in 1 .. 2 * Len(col) |->
            IF j % 2 = 1 THEN In(col[(j + 1) \div 2].input)
            ELSE Out(col[j \div 2].output)]

(* The vector of states that model_check_events returns.  It ends at the   *)
(* first dead end; here, dead ends fill it up, and change nothing after it.*)
Moves(A, e) == [s \in Int |-> IF s = Dead THEN Dead ELSE Move(A, s, e)]

StatesAlong(A, trace) ==
    LET after[n \in 0 .. Len(trace)] ==
          IF n = 0 THEN A.init ELSE Moves(A, trace[n])[after[n - 1]]
    IN  after

Visited(A, trace) == [n \in 1 .. Len(trace) |-> StatesAlong(A, trace)[n]]

-----------------------------------------------------------------------------
(* extract_prefix_automata_path.                                           *)

(* The positions at which the automaton has come to another state.         *)
Changes(visited) ==
    {n \in DOMAIN visited :
        visited[n] # Dead /\ (n > 1 => visited[n] # visited[n - 1])}

PathsOf(visited) ==
    LET path[n \in 0 .. Len(visited)] ==
          IF n = 0 THEN <<>>
          ELSE IF n \in Changes(visited) THEN Append(path[n - 1], visited[n])
          ELSE path[n - 1]
    IN  path

PathOf(visited) == PathsOf(visited)[Len(visited)]

(* Up to the last change, RERS programs take an input if the state changed *)
(* at it or if its output is positive; protocols take every input read.    *)
Nth(S, n) == CHOOSE k \in S : Cardinality({j \in S : j <= k}) = n

PrefixOfRers(col, visited) ==
    LET used == {k \in DOMAIN col :
                    /\ 2 * k - 1 <= Max(Changes(visited))
                    /\ \/ (2 * k - 1) \in Changes(visited)
                       \/ col[k].output > 0}
    IN  [n \in 1 .. Cardinality(used) |-> col[Nth(used, n)].input]

PrefixOf(col, visited, xs, flag) ==
    IF flag THEN SubSeq(xs, 1, col[Max(Changes(visited))].read)
    ELSE PrefixOfRers(col, visited)

-----------------------------------------------------------------------------
(* check_acceptance.                                                       *)

Names(A, vars) == {A.ap[v] : v \in vars}

(* Mutant: what a negative literal names is not looked for.                *)
positive_conditions(A, ed, window) ==
    \E k \in DOMAIN ed.label :
        \A e \in Names(A, ed.label[k].pos) : window \subseteq {e}

(* check_conditions: all events of the window are the one a positive       *)
(* literal names, none is one a negative literal names.                    *)
check_conditions(A, ed, window) ==
    \E k \in DOMAIN ed.label :
        /\ \A e \in Names(A, ed.label[k].pos) : window \subseteq {e}
        /\ window \cap Names(A, ed.label[k].neg) = {}

SelfLoops(A, s) == {i \in DOMAIN A.out[s] : A.out[s][i].dst = s}

(* The loop is looked for at every accepting state, but with the self loop *)
(* of the last state; a last state without one is taken for accepting.     *)
IsCounterexample(A, col, trace, visited, path, flag) ==
    LET last == path[Len(path)]
    IN  \E loc \in DOMAIN visited :
          /\ visited[loc] # Dead /\ visited[loc] \in A.acc
          /\ \/ SelfLoops(A, last) = {}
             \/ LET sloc == IF flag THEN loc ELSE (loc + 1) \div 2
                IN \E i \in sloc + 1 .. Len(col) :
                     /\ col[i].state = col[sloc].state
                     /\ check_conditions(A,
                          A.out[last][Max(SelfLoops(A, last))],
                          {trace[n] : n \in
                             loc .. IF flag THEN i ELSE 2 * i})

-----------------------------------------------------------------------------
(* The reference: some run of the automaton accepts the execution that     *)
(* repeats what the program did between two equal states.                  *)

(* The states that some run may be in after each event.                    *)
StatesOver(A, trace) ==
    LET over[n \in 0 .. Len(trace)] ==
          IF n = 0 THEN {A.init} ELSE Successors(A, over[n - 1], trace[n])
    IN  over

ReachOver(A, trace) == StatesOver(A, trace)[Len(trace)]

(* <<s, t, b>>: from s some run may come to t, through acceptance if b.    *)
Passing(A, R, e) ==
    UNION {{<<r[1], t, r[3] \/ t \in A.acc>> :
              t \in Successors(A, {r[2]}, e)} : r \in R}

Unmoved(A) == {<<s, s, FALSE>> : s \in DOMAIN A.out}

PassesOver(A, loop) ==
    LET over[n \in 0 .. Len(loop)] ==
          IF n = 0 THEN Unmoved(A) ELSE Passing(A, over[n - 1], loop[n])
    IN  over

Passes(A, loop) == PassesOver(A, loop)[Len(loop)]

(* What passes lead on to: the least set closed under one more pass.       *)
Joined(Q) == {<<x[1][1], x[2][2], x[1][3] \/ x[2][3]>> :
                 x \in {y \in Q \X Q : y[1][2] = y[2][1]}}

PassesOn(R, n) ==
    LET all[k \in 0 .. n] ==
          IF k = 0 THEN R ELSE LET Q == all[k - 1] IN Q \cup Joined(Q)
    IN  all

Closed(A, R) ==
    LET n == Cardinality(DOMAIN A.out) + 1 IN PassesOn(R, n)[n]

AcceptsLoop(A, stem, loop) ==
    LET all  == Closed(A, Passes(A, loop))
        from == ReachOver(A, stem)
    IN  \E s \in DOMAIN A.out :
          /\ <<s, s, TRUE>> \in all
          /\ s \in from \/ \E f \in from : \E b \in BOOLEAN :
                              <<f, s, b>> \in all

Violates(A, P, xs, flag) ==
    LET col   == Collected(P, xs)
        trace == normalize_trace(col, flag)
        upto(k) == IF flag THEN k ELSE 2 * k
    IN  \E j \in DOMAIN col : \E k \in j + 1 .. Len(col) :
          /\ col[j].real = col[k].real
          /\ AcceptsLoop(A, SubSeq(trace, 1, upto(j)),
                         SubSeq(trace, upto(j) + 1, upto(k)))
=============================================================================

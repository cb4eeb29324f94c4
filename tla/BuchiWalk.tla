------------------------------ MODULE BuchiWalk ------------------------------
(***************************************************************************)
(* How automata.cc walks a trace through a Buchi automaton.                *)
(*                                                                         *)
(* An automaton is a record                                                *)
(*   init : the initial state number                                       *)
(*   acc  : the accepting states (acceptance is state based)               *)
(*   ap   : the atomic propositions, in the order of their BDD variables   *)
(*   out  : for every state the sequence of its edges, in iterator order   *)
(* An edge has a destination dst and a label: the sequence of cubes that   *)
(* bdd_allsat reports for its condition, in reporting order.  A cube says  *)
(* which BDD variables it requires (pos) and which it forbids (neg).       *)
(* Spot and BuDDy, which produce automata and cubes, are external.         *)
(***************************************************************************)
EXTENDS Integers, Sequences, FiniteSetsExt

(* The state number model_check_events records when no edge can be taken.  *)
Dead == -1

IsCube(c, vars) ==
    /\ c = [pos |-> c.pos, neg |-> c.neg]
    /\ c.pos \subseteq vars /\ c.neg \subseteq vars
    /\ c.pos \cap c.neg = {}

IsEdge(ed, S, vars) ==
    /\ ed = [label |-> ed.label, dst |-> ed.dst]
    /\ ed.dst \in S
    /\ Len(ed.label) \in Nat \ {0} /\ DOMAIN ed.label = 1 .. Len(ed.label)
    /\ \A k \in DOMAIN ed.label : IsCube(ed.label[k], vars)

(* A is an automaton with states S that Spot may hand to set_formula.      *)
IsAutomaton(A, S) ==
    /\ S \subseteq Nat
    /\ A.init \in S /\ A.acc \subseteq S
    /\ Len(A.ap) \in Nat /\ DOMAIN A.ap = 1 .. Len(A.ap)
    /\ DOMAIN A.out = S
    /\ \A s \in S :
         /\ Len(A.out[s]) \in Nat /\ DOMAIN A.out[s] = 1 .. Len(A.out[s])
         /\ \A i \in DOMAIN A.out[s] : IsEdge(A.out[s][i], S, DOMAIN A.ap)

-----------------------------------------------------------------------------
(* Conditions, as the callbacks of bdd_allsat decide them.                 *)

(* is_true_cond_helper: a cube without literals.                           *)
CubeTrue(c) == c.pos = {} /\ c.neg = {}

(* check_cond_helper: no event is forbidden, every required one happened.  *)
CubeHolds(c, E) == E \cap c.neg = {} /\ c.pos \subseteq E

(* Every callback overwrites the result, so the last cube decides.         *)
LastCube(ed) == ed.label[Len(ed.label)]

IsTrueCond(ed) == CubeTrue(LastCube(ed))

(* The BDD variables of event e; none when the formula does not name e.    *)
EventIndices(A, e) == {v \in DOMAIN A.ap : A.ap[v] = e}

(* Mutants: forbidden events are overlooked; a label must ask for one.     *)
CheckRequired(A, ed, e) == LastCube(ed).pos \subseteq EventIndices(A, e)
CheckMatch(A, ed, e) ==
    LastCube(ed).pos # {} /\ CubeHolds(LastCube(ed), EventIndices(A, e))

CheckCond(A, ed, e) == CubeHolds(LastCube(ed), EventIndices(A, e))

-----------------------------------------------------------------------------
(* One event of model_check_events: a TRUE edge is only a default, which a *)
(* later TRUE edge replaces; the first other edge that holds ends the scan *)
Defaults(A, s) == {i \in DOMAIN A.out[s] : IsTrueCond(A.out[s][i])}
Hits(A, s, e) ==
    {i \in DOMAIN A.out[s] : /\ ~ IsTrueCond(A.out[s][i])
                             /\ CheckCond(A, A.out[s][i], e)}

Move(A, s, e) ==
    IF Hits(A, s, e) # {} THEN A.out[s][Min(Hits(A, s, e))].dst
    ELSE IF Defaults(A, s) # {} THEN A.out[s][Max(Defaults(A, s))].dst
    ELSE Dead

(* visited is what the vector of states may hold after some of the events  *)
(* of trace: each entry is the greedy move from the one before it, and     *)
(* nothing follows a dead end.                                             *)
IsWalk(A, trace, visited) ==
    /\ Len(visited) <= Len(trace)
    /\ \A n \in 1 .. Len(visited) :
         LET from == IF n = 1 THEN A.init ELSE visited[n - 1]
         IN  from # Dead /\ visited[n] = Move(A, from, trace[n])

(* ... and model_check_events is done with the trace.                      *)
IsWholeWalk(A, trace, visited) ==
    /\ IsWalk(A, trace, visited)
    /\ \/ Len(visited) = Len(trace)
       \/ visited # <<>> /\ visited[Len(visited)] = Dead

(* SubmitTrace: an accepted trace ends in an accepting state (which is     *)
(* then also an accepting state that was seen) and not in a dead end.      *)
Accepts(A, visited) ==
    visited # <<>> /\ visited[Len(visited)] \in A.acc

(* The state the whole trace leads to, and the verdict on it.              *)
WalkTo(A, trace) ==
    LET step(st, e) == IF st = Dead THEN Dead ELSE Move(A, st, e)
        after[n \in 0 .. Len(trace)] ==
          IF n = 0 THEN A.init ELSE step(after[n - 1], trace[n])
    IN  after[Len(trace)]

Verdict(A, trace) == trace # <<>> /\ WalkTo(A, trace) \in A.acc

-----------------------------------------------------------------------------
(* The reference: the runs of a nondeterministic automaton over events.    *)
Enabled(A, s, e) ==
    {i \in DOMAIN A.out[s] :
        \E k \in DOMAIN A.out[s][i].label :
            CubeHolds(A.out[s][i].label[k], EventIndices(A, e))}

Successors(A, S, e) ==
    UNION {{A.out[s][i].dst : i \in Enabled(A, s, e)} : s \in S}

(* At most one edge of a state is enabled by an event.                     *)
Deterministic(A, events) ==
    \A s \in DOMAIN A.out, e \in events :
        \A i, j \in Enabled(A, s, e) : i = j

(* Every label is a single cube: a conjunction of literals.                *)
Conjunctive(A) ==
    \A s \in DOMAIN A.out : \A i \in DOMAIN A.out[s] :
        Len(A.out[s][i].label) = 1
=============================================================================

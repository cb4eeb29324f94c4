------------------------------ MODULE BuchiFeed ------------------------------
(***************************************************************************)
(* model_check_events beside the runs its automaton really has.  The trace *)
(* arrives event by event; cur is the state the greedy loop is in and      *)
(* reach the set of states the nondeterministic automaton may be in.       *)
(***************************************************************************)
EXTENDS BuchiWalk

CONSTANTS Letter,      \* names the events of a trace may have
          FeedState,   \* state numbers
          Automata     \* the automata a formula may be translated to

ASSUME AutomataAssumption == \A A \in Automata : IsAutomaton(A, FeedState)

VARIABLES aut,    \* automata_ of the object model_check_events runs on
          cur,    \* the local s, or Dead after the loop broke off
          reach   \* reference: the states of the runs over the same events
feed == <<aut, cur, reach>>

FeedInit ==
    /\ aut \in Automata
    /\ cur = aut.init
    /\ reach = {aut.init}

(* One iteration of the loop over the events; a dead end leaves the loop.  *)
Feed(e) == /\ cur' = IF cur = Dead THEN Dead ELSE Move(aut, cur, e)
           /\ reach' = Successors(aut, reach, e)
           /\ UNCHANGED aut

FeedNext == \E e \in Letter : Feed(e)
FeedSpec == FeedInit /\ [][FeedNext]_feed

-----------------------------------------------------------------------------
FeedTypeOK ==
    /\ IsAutomaton(aut, FeedState)
    /\ cur \in FeedState \cup {Dead}
    /\ reach \subseteq FeedState

(* The greedy walk never invents behaviour: as long as it is alive it is   *)
(* in a state that some run of the automaton over the same events reaches, *)
(* although it looks at one cube of each label and at one edge at a time.  *)
(* So a trace SubmitTrace reports did drive the automaton to acceptance.   *)
WalkIsSound == cur # Dead => cur \in reach

(* On a deterministic automaton whose labels are conjunctions the greedy   *)
(* walk loses nothing: it is dead exactly when no run is left, and else it *)
(* is in the only state a run can be in.                                   *)
WalkIsExact ==
    (Deterministic(aut, Letter) /\ Conjunctive(aut))
        => reach = (IF cur = Dead THEN {} ELSE {cur})

(* What experiment/CS6215/README.md promises of the evaluator: a trace the *)
(* Buchi automaton accepts is reported as a violation.                     *)
AcceptedIsReported == reach \cap aut.acc # {} => cur \in aut.acc
=============================================================================

-------------------------- MODULE TraceServerRaces --------------------------
(***************************************************************************)
(* TraceServer with a history of its races: the submits in whose walk      *)
(* another walk replaced a result of the callbacks, or the pointer they    *)
(* follow, between the call that set it and the statement that uses it.    *)
(***************************************************************************)
EXTENDS TraceServer

VARIABLE disturbed    \* the threads whose walk lost a race in this request

(* The threads whose statics a step of t overwrites.                       *)
Victims(t) ==
    {x \in Thread \ {t} :
        \/ pc[t] = "allTrue" /\ pc[x] = "ifTrue"
        \/ pc[t] = "setEvents" /\ pc[x] = "allCond"
        \/ pc[t] = "allCond" /\ pc[x] = "ifCond"}

RacesInit == Init /\ disturbed = {}

RacesStep(t) ==
    /\ Step(t)
    /\ disturbed' = IF pc[t] = "replySubmit" THEN disturbed \ {t}
                    ELSE disturbed \cup Victims(t)

RacesNext == (\E t \in Thread : RacesStep(t)) \/ (Rest /\ UNCHANGED disturbed)

RacesSpec ==
    /\ RacesInit /\ [][RacesNext]_<<vars, disturbed>>
    /\ \A t \in Thread : WF_<<vars, disturbed>>(RacesStep(t))

(* The three overlaps of Victims are the only ones that can make a report  *)
(* wrong: whatever else two requests do at the same time, a submit that    *)
(* lost none of these races reports exactly the properties whose automaton *)
(* accepts its trace (SubmitTrace and model_check_events, automata.cc).    *)
OnlyRacesMislead ==
    \A t \in Thread \ disturbed :
        pc[t] = "replySubmit" /\ status[t] = "OK"
            => violations[t] = {i \in DOMAIN list[t] :
                                  Verdict(AutomatonOf[list[t][i]], trace[t])}
=============================================================================

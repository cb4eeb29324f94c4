-------------------------- MODULE TraceServerProofs --------------------------
(***************************************************************************)
(* What the locks of the trace evaluator achieve for any number of threads,*)
(* sessions, formulas and traces; that its greedy walk is sound; and which *)
(* overlaps of two requests can make a report wrong.                       *)
(***************************************************************************)
EXTENDS TraceServerRaces, BuchiFeed, SequenceTheorems, FiniteSetTheorems, TLAPS

-----------------------------------------------------------------------------
(* The inductive invariant.                                                *)

EdgeLabels == {"allTrue", "ifTrue", "setEvents", "allCond", "ifCond"}

(* Where a submitting thread is: an object of its list and, in a walk, a   *)
(* state and an edge of that object's automaton and a cube of that edge.   *)
Control(t) ==
    /\ pc[t] \in WalkLabels \cup {"lock", "judge"} =>
         uuid[t] \in Uuid /\ list[t] \in Seq(Formula)
    /\ pc[t] \in WalkLabels \cup {"judge"} => at[t] \in DOMAIN list[t]
    /\ Walking(t) => s[t] \in State
    /\ pc[t] \in EdgeLabels \cup {"edge", "settle"} =>
         /\ src[t] \in State
         /\ Len(visited[t]) < Len(trace[t])
    /\ pc[t] \in EdgeLabels => edge[t] \in DOMAIN Edges(t)
    /\ pc[t] \in {"allTrue", "allCond"} => cube[t] \in DOMAIN Edge(t).label
    /\ pc[t] = "allCond" => check_cond_events \in Thread

(* A thread inside model_check_events holds its object's mutex, alone.     *)
Holding ==
    \A t \in Thread : Walking(t) => Object(t) \in mtx

(* A session is private to the thread that fills it until the client is    *)
(* told, and whole from then on.                                           *)
Filling(t) ==
    /\ pc[t] \in {"idle", "generate"} => at[t] = 1 /\ status[t] = "OK"
    /\ pc[t] \in {"insert", "inserting"} =>
         uuid[t] \in Uuid \ DOMAIN storage /\ at[t] = 1 /\ status[t] = "OK"
    /\ pc[t] \in {"load", "replyPrepare"} =>
         uuid[t] \in DOMAIN storage \ DOMAIN known
    /\ pc[t] \in PrepareLabels \ {"generate"} =>
         \A x \in Thread \ {t} : uuid[x] # uuid[t]
    /\ pc[t] = "load" =>
         /\ status[t] = "OK"
         /\ at[t] = Len(storage[uuid[t]]) + 1
         /\ at[t] <= Len(list[t]) + 1
         /\ \A i \in 1 .. at[t] - 1 : storage[uuid[t]][i] = list[t][i]
    /\ pc[t] = "replyPrepare" /\ status[t] = "OK" =>
         storage[uuid[t]] = list[t]

Finding(t) ==
    /\ pc[t] = "find" => uuid[t] \in DOMAIN known \cup {Stranger}
    /\ pc[t] = "copy" => uuid[t] \in DOMAIN known

Sessions ==
    /\ \A u \in DOMAIN known : u \in DOMAIN storage /\ storage[u] = known[u]
    /\ \A t \in Thread : Filling(t) /\ Finding(t)

-----------------------------------------------------------------------------
(* The automaton, the edges and the label a walking thread is at.          *)
LEMMA WalkPlace ==
    ASSUME NEW t \in Thread, Control(t),
           pc[t] \in WalkLabels \cup {"judge"}
    PROVE  /\ IsAutomaton(Aut(t), State)
           /\ Aut(t).init \in State
           /\ src[t] \in State =>
                /\ Len(Edges(t)) \in Nat
                /\ DOMAIN Edges(t) = 1 .. Len(Edges(t))
                /\ \A i \in DOMAIN Edges(t) :
                     /\ Edges(t)[i].dst \in State
                     /\ Len(Edges(t)[i].label) \in Nat \ {0}
                     /\ DOMAIN Edges(t)[i].label = 1 .. Len(Edges(t)[i].label)
<1>1. list[t] \in Seq(Formula) /\ at[t] \in DOMAIN list[t]
  BY DEF Control
<1>2. list[t][at[t]] \in Formula
  BY <1>1
<1>3. IsAutomaton(Aut(t), State)
  BY <1>2, ServerAssumption DEF Aut
<1> QED BY <1>3 DEF IsAutomaton, IsEdge, Edges

(* State numbers are naturals.                                             *)
LEMMA StatesAreNat ==
    ASSUME NEW A, IsAutomaton(A, State) PROVE State \subseteq Nat
BY DEF IsAutomaton

(* The walk of a request is its own affair: what it leaves alone.          *)
LEMMA WalkFrame ==
    ASSUME NEW t \in Thread, WalkStep(t)
    PROVE  /\ UNCHANGED <<storage, storage_mutex, world, request, reply>>
           /\ pc[t] \in WalkLabels
           /\ \E l \in WalkLabels \cup {"judge"} : Goto(t, l)
           /\ \/ mtx' = mtx
              \/ mtx' = mtx \ {Object(t)} /\ Goto(t, "judge")
<1> USE DEF WalkLabels
<1>1. CASE NextEvent(t) BY <1>1 DEF NextEvent, locks
<1>2. CASE EndOfTrace(t) BY <1>2 DEF EndOfTrace, locks
<1>3. CASE NextEdge(t) BY <1>3 DEF NextEdge, locks
<1>4. CASE TrueCallback(t) BY <1>4 DEF TrueCallback, locks
<1>5. CASE IfTrue(t) BY <1>5 DEF IfTrue, locks
<1>6. CASE SetEvents(t) BY <1>6 DEF SetEvents, locks
<1>7. CASE CondCallback(t) BY <1>7 DEF CondCallback, locks
<1>8. CASE IfCond(t) BY <1>8 DEF IfCond, locks
<1>9. CASE Settle(t) BY <1>9 DEF Settle, locks
<1>10. CASE DeadEnd(t) BY <1>10 DEF DeadEnd, locks
<1> QED BY <1>1, <1>2, <1>3, <1>4, <1>5, <1>6, <1>7, <1>8, <1>9, <1>10
        DEF WalkStep

-----------------------------------------------------------------------------
(* Every step keeps the types, given that walking threads are somewhere.   *)

LEMMA SessionTypesStep ==
    ASSUME SessionTypes, RequestTypes, Sessions, NEW t \in Thread, Step(t)
    PROVE  SessionTypes'
<1> USE DEF SessionTypes, world, request
<1>1. CASE Prepare(t) \/ Submit(t)
  BY <1>1, ServerAssumption DEF Prepare, Submit
<1>2. CASE InsertSession(t)
  <2>1. uuid[t] \in Uuid
    BY <1>2 DEF InsertSession, Sessions, Filling
  <2> QED BY <1>2, <2>1 DEF InsertSession, Opened
<1>3. CASE LoadProperty(t)
  <2> DEFINE u == uuid[t]  f == list[t][at[t]]
  <2>1. f \in Name \cap Formula
    BY <1>3 DEF LoadProperty, Parses, RequestTypes
  <2>2. u \in DOMAIN storage
    BY <1>3 DEF LoadProperty, Sessions, Filling
  <2>3. Append(storage[u], f) \in Seq(Name \cap Formula)
    BY <2>1, <2>2
  <2> QED BY <1>3, <2>2, <2>3 DEF LoadProperty
<1>4. CASE ReplyPrepare(t)
  <2>1. uuid[t] \in Uuid /\ list[t] \in Seq(Name)
    BY <1>4 DEF ReplyPrepare, RequestTypes, Sessions, Filling
  <2> QED BY <1>4, <2>1 DEF ReplyPrepare
<1>5. CASE WalkStep(t)
  BY <1>5, WalkFrame
<1>6. CASE \/ GenerateUUID(t) \/ LockStorage(t) \/ RejectProperty(t)
           \/ Prepared(t)
  BY <1>6 DEF GenerateUUID, LockStorage, RejectProperty, Prepared
<1>7. CASE \/ Find(t) \/ NotFound(t) \/ CopyList(t) \/ LockAutomaton(t)
           \/ Judge(t) \/ Judged(t) \/ ReplySubmit(t) \/ Crash(t)
  BY <1>7 DEF Find, NotFound, CopyList, LockAutomaton, Judge, Judged,
              ReplySubmit, Crash
<1> QED BY <1>1, <1>2, <1>3, <1>4, <1>5, <1>6, <1>7
        DEF Step, PrepareStep, SubmitStep

LEMMA SharedTypesStep ==
    ASSUME SharedTypes, RequestTypes, NEW t \in Thread, Control(t), Step(t)
    PROVE  SharedTypes'
<1> USE DEF SharedTypes, locks, statics
<1>1. CASE LockStorage(t) \/ InsertSession(t)
  BY <1>1 DEF LockStorage, InsertSession
<1>2. CASE LockAutomaton(t)
  <2>1. Object(t) \in Uuid \X Nat
    BY <1>2 DEF LockAutomaton, Control, Object, RequestTypes
  <2> QED BY <1>2, <2>1 DEF LockAutomaton
<1>3. CASE EndOfTrace(t) \/ DeadEnd(t)
  BY <1>3 DEF EndOfTrace, DeadEnd
<1>4. CASE TrueCallback(t) \/ SetEvents(t)
  BY <1>4 DEF TrueCallback, SetEvents, CubeTrue
<1>5. CASE CondCallback(t)
  BY <1>5 DEF CondCallback, CubeHolds
<1>6. CASE \/ Prepare(t) \/ GenerateUUID(t) \/ LoadProperty(t)
           \/ RejectProperty(t) \/ Prepared(t) \/ ReplyPrepare(t)
  BY <1>6 DEF Prepare, GenerateUUID, LoadProperty, RejectProperty, Prepared,
              ReplyPrepare
<1>7. CASE \/ Submit(t) \/ Find(t) \/ NotFound(t) \/ CopyList(t) \/ Judge(t)
           \/ Judged(t) \/ ReplySubmit(t) \/ Crash(t)
  BY <1>7 DEF Submit, Find, NotFound, CopyList, Judge, Judged, ReplySubmit,
              Crash
<1>8. CASE \/ NextEvent(t) \/ NextEdge(t) \/ IfTrue(t) \/ IfCond(t)
           \/ Settle(t)
  BY <1>8 DEF NextEvent, NextEdge, IfTrue, IfCond, Settle
<1> QED BY <1>1, <1>2, <1>3, <1>4, <1>5, <1>6, <1>7, <1>8
        DEF Step, PrepareStep, SubmitStep, WalkStep

LEMMA RequestTypesStep ==
    ASSUME SessionTypes, RequestTypes, Sessions, NEW t \in Thread, Step(t)
    PROVE  RequestTypes'
<1> USE DEF RequestTypes, request, reply, Goto, PrepareLabels, SubmitLabels
<1>1. CASE Prepare(t)
  BY <1>1, ServerAssumption DEF Prepare
<1>2. CASE GenerateUUID(t)
  BY <1>2 DEF GenerateUUID, Fresh
<1>13. CASE LockStorage(t) \/ InsertSession(t)
  BY <1>13 DEF LockStorage, InsertSession
<1>3. CASE LoadProperty(t)
  BY <1>3 DEF LoadProperty
<1>11. CASE RejectProperty(t)
  BY <1>11 DEF RejectProperty
<1>12. CASE Prepared(t)
  BY <1>12 DEF Prepared
<1>4. CASE ReplyPrepare(t) \/ ReplySubmit(t)
  <2>1. Forget(t)
    BY <1>4 DEF ReplyPrepare, ReplySubmit
  <2>2. <<>> \in Seq(Name) /\ <<>> \in Seq(Word)
    OBVIOUS
  <2>3. 1 \in Nat \ {0} /\ {} \in SUBSET (Nat \ {0})
    OBVIOUS
  <2> QED BY <2>1, <2>2, <2>3 DEF Forget
<1>5. CASE Submit(t)
  BY <1>5, ServerAssumption DEF Submit, SessionTypes
<1>6. CASE Find(t) \/ NotFound(t) \/ Judged(t) \/ Crash(t)
  BY <1>6 DEF Find, NotFound, Judged, Crash
<1>7. CASE CopyList(t)
  <2>1. uuid[t] \in DOMAIN storage
    BY <1>7 DEF CopyList, Sessions, Finding
  <2>2. storage[uuid[t]] \in Seq(Name)
    BY <2>1 DEF SessionTypes
  <2> QED BY <1>7, <2>2 DEF CopyList
<1>8. CASE LockAutomaton(t)
  BY <1>8 DEF LockAutomaton, WalkLabels
<1>9. CASE WalkStep(t)
  <2>1. PICK l \in WalkLabels \cup {"judge"} :
          pc' = [pc EXCEPT ![t] = l] /\ UNCHANGED <<request, reply>>
    BY <1>9, WalkFrame
  <2> QED BY <2>1
<1>10. CASE Judge(t)
  BY <1>10 DEF Judge
<1> QED BY <1>1, <1>2, <1>3, <1>4, <1>5, <1>6, <1>7, <1>8, <1>9, <1>10,
           <1>11, <1>12, <1>13
        DEF Step, PrepareStep, SubmitStep

LEMMA WalkTypesStep ==
    ASSUME WalkTypes, RequestTypes, NEW t \in Thread, Control(t), Step(t)
    PROVE  WalkTypes'
<1> USE DEF WalkTypes, walk
<1>1. CASE PrepareStep(t)
  BY <1>1 DEF PrepareStep, Prepare, GenerateUUID, LockStorage, InsertSession,
              LoadProperty, RejectProperty, Prepared, ReplyPrepare
<1>2. CASE \/ Submit(t) \/ Find(t) \/ NotFound(t) \/ CopyList(t) \/ Judge(t)
           \/ Judged(t) \/ Crash(t) \/ EndOfTrace(t)
  BY <1>2 DEF Submit, Find, NotFound, CopyList, Judge, Judged, Crash,
              EndOfTrace
<1>3. CASE ReplySubmit(t)
  BY <1>3 DEF ReplySubmit
<1>4. CASE LockAutomaton(t)
  <2>1. list[t][at[t]] \in Formula
    BY <1>4 DEF LockAutomaton, Control, RequestTypes
  <2>2. Aut(t).init \in Nat
    BY <2>1, ServerAssumption DEF Aut, IsAutomaton
  <2> QED BY <1>4, <2>2 DEF LockAutomaton
<1>5. CASE NextEvent(t)
  BY <1>5 DEF NextEvent, Reset, FirstEdge
<1>9. CASE NextEdge(t)
  BY <1>9 DEF NextEdge
<1>11. CASE SetEvents(t)
  BY <1>11 DEF SetEvents
<1>10. CASE TrueCallback(t)
  BY <1>10 DEF TrueCallback
<1>6. CASE CondCallback(t)
  BY <1>6 DEF CondCallback
<1>7. CASE IfTrue(t) \/ IfCond(t)
  <2>1. Edge(t).dst \in State /\ State \subseteq Nat
    BY <1>7, WalkPlace, StatesAreNat
       DEF IfTrue, IfCond, Control, EdgeLabels, WalkLabels, Edge
  <2>2. /\ s' = s \/ s' = [s EXCEPT ![t] = Edge(t).dst]
        /\ sat' = sat \/ sat' = [sat EXCEPT ![t] = TRUE]
        /\ edge' = edge \/ edge' = [edge EXCEPT ![t] = @ + 1]
        /\ UNCHANGED <<visited, src, cube>>
    BY <1>7 DEF IfTrue, IfCond, TakeDefault
  <2>3. s' \in [Thread -> Nat]
    BY <2>1, <2>2
  <2>4. sat' \in [Thread -> BOOLEAN]
    BY <2>2
  <2>5. edge' \in [Thread -> Nat \ {0}]
    BY <2>2
  <2> QED BY <2>2, <2>3, <2>4, <2>5
<1>8. CASE Settle(t) \/ DeadEnd(t)
  <2>1. s[t] \in State
    BY <1>8 DEF Settle, DeadEnd, Control, Walking, WalkLabels
  <2>2. PICK x \in State \cup {Dead} :
          /\ visited' = [visited EXCEPT ![t] = Append(@, x)]
          /\ UNCHANGED <<src, s, sat, edge, cube>>
    BY <1>8, <2>1 DEF Settle, DeadEnd, DeadRecorded
  <2> QED BY <2>2
<1> QED BY <1>1, <1>2, <1>3, <1>4, <1>5, <1>6, <1>7, <1>8, <1>9, <1>10,
           <1>11
        DEF Step, SubmitStep, WalkStep

-----------------------------------------------------------------------------
(* A step of one thread leaves the requests of the others where they are,  *)
(* unless it kills the process.                                            *)
Bystander(x) ==
    /\ pc'[x] \in {pc[x], "dead"}
    /\ uuid'[x] = uuid[x] /\ list'[x] = list[x] /\ trace'[x] = trace[x]
    /\ at'[x] = at[x] /\ status'[x] = status[x]
    /\ violations'[x] = violations[x]
    /\ visited'[x] = visited[x] /\ src'[x] = src[x] /\ s'[x] = s[x]
    /\ sat'[x] = sat[x] /\ edge'[x] = edge[x] /\ cube'[x] = cube[x]

LEMMA Bystanders ==
    ASSUME RequestTypes, WalkTypes, NEW t \in Thread, Step(t),
           NEW x \in Thread \ {t}
    PROVE  Bystander(x)
<1> USE DEF RequestTypes, WalkTypes, Bystander, request, reply, walk, Goto
<1>1. CASE Prepare(t) \/ GenerateUUID(t) \/ LockStorage(t)
  BY <1>1 DEF Prepare, GenerateUUID, LockStorage
<1>2. CASE InsertSession(t) \/ LoadProperty(t)
  BY <1>2 DEF InsertSession, LoadProperty
<1>3. CASE RejectProperty(t) \/ Prepared(t)
  BY <1>3 DEF RejectProperty, Prepared
<1>4. CASE ReplyPrepare(t)
  BY <1>4 DEF ReplyPrepare, Forget
<1>5. CASE ReplySubmit(t)
  BY <1>5 DEF ReplySubmit, Forget
<1>6. CASE Submit(t) \/ Find(t)
  BY <1>6 DEF Submit, Find
<1>13. CASE NotFound(t) \/ CopyList(t)
  BY <1>13 DEF NotFound, CopyList
<1>7. CASE LockAutomaton(t) \/ Judged(t)
  BY <1>7 DEF LockAutomaton, Judged
<1>14. CASE Judge(t)
  BY <1>14 DEF Judge
<1>8. CASE NextEvent(t) \/ EndOfTrace(t) \/ NextEdge(t)
  BY <1>8 DEF NextEvent, EndOfTrace, NextEdge, Reset, FirstEdge
<1>9. CASE TrueCallback(t) \/ SetEvents(t) \/ CondCallback(t)
  BY <1>9 DEF TrueCallback, SetEvents, CondCallback
<1>10. CASE IfTrue(t) \/ IfCond(t)
  BY <1>10 DEF IfTrue, IfCond, TakeDefault
<1>11. CASE Settle(t) \/ DeadEnd(t)
  BY <1>11 DEF Settle, DeadEnd, DeadRecorded
<1>12. CASE Crash(t)
  BY <1>12 DEF Crash
<1> QED BY <1>1, <1>2, <1>3, <1>4, <1>5, <1>6, <1>7, <1>8, <1>9, <1>10,
           <1>11, <1>12, <1>13, <1>14
        DEF Step, PrepareStep, SubmitStep, WalkStep

(* Only LockAutomaton and the steps of a walk touch the object mutexes or  *)
(* leave their thread walking.                                             *)
LEMMA OutsideWalks ==
    ASSUME RequestTypes, NEW t \in Thread, Step(t),
           ~ LockAutomaton(t), ~ WalkStep(t)
    PROVE  mtx' = mtx /\ pc'[t] \notin WalkLabels
<1> USE DEF RequestTypes, locks, Goto, WalkLabels
<1>1. CASE PrepareStep(t)
  <2>1. mtx' = mtx
    BY <1>1 DEF PrepareStep, Prepare, GenerateUUID, LockStorage,
                InsertSession, LoadProperty, RejectProperty, Prepared,
                ReplyPrepare
  <2>2. CASE LoadProperty(t)
    BY <2>1, <2>2 DEF LoadProperty
  <2>3. CASE ~ LoadProperty(t)
    BY <1>1, <2>1, <2>3
       DEF PrepareStep, Prepare, GenerateUUID, LockStorage, InsertSession,
           RejectProperty, Prepared, ReplyPrepare, Forget
  <2> QED BY <2>2, <2>3
<1>2. CASE Submit(t) \/ Find(t) \/ NotFound(t) \/ CopyList(t)
  BY <1>2 DEF Submit, Find, NotFound, CopyList
<1>3. CASE Judge(t) \/ Judged(t) \/ Crash(t)
  BY <1>3 DEF Judge, Judged, Crash
<1>4. CASE ReplySubmit(t)
  BY <1>4 DEF ReplySubmit, Forget
<1> QED BY <1>1, <1>2, <1>3, <1>4 DEF Step, SubmitStep

-----------------------------------------------------------------------------
(* The mutex of an object is held by at most one walk.                     *)
LEMMA ExclusionStep ==
    ASSUME RequestTypes, WalkTypes, Holding, ObjectExclusion,
           NEW t \in Thread, Step(t)
    PROVE  Holding' /\ ObjectExclusion'
<1>1. \A x \in Thread \ {t} :
        /\ Object(x)' = Object(x)
        /\ Walking(x)' => Walking(x)
  BY Bystanders DEF Bystander, Object, Walking, WalkLabels
<1>2. CASE LockAutomaton(t)
  <2>1. Object(t)' = Object(t)
    BY <1>2 DEF LockAutomaton, Object, request, reply
  <2>2. mtx' = mtx \cup {Object(t)} /\ Object(t) \notin mtx
    BY <1>2 DEF LockAutomaton, Unlocked
  <2> QED BY <1>1, <2>1, <2>2 DEF Holding, ObjectExclusion
<1>3. CASE WalkStep(t)
  <2>1. Object(t)' = Object(t) /\ Walking(t)
    BY <1>3, WalkFrame DEF Object, request, reply, Walking
  <2>2. \/ mtx' = mtx
        \/ mtx' = mtx \ {Object(t)} /\ ~ Walking(t)'
    BY <1>3, WalkFrame DEF Goto, RequestTypes, Walking, WalkLabels
  <2> QED BY <1>1, <2>1, <2>2 DEF Holding, ObjectExclusion
<1>4. CASE ~ LockAutomaton(t) /\ ~ WalkStep(t)
  <2>1. mtx' = mtx /\ ~ Walking(t)'
    BY <1>4, OutsideWalks DEF Walking
  <2> QED BY <1>1, <2>1 DEF Holding, ObjectExclusion
<1> QED BY <1>2, <1>3, <1>4

-----------------------------------------------------------------------------
(* Once some check_cond set the pointer, it points to some thread's frame. *)
LEMMA PointerStep ==
    ASSUME NEW t \in Thread, Step(t), check_cond_events \in Thread
    PROVE  check_cond_events' \in Thread
<1> USE DEF statics
<1>1. CASE PrepareStep(t)
  BY <1>1 DEF PrepareStep, Prepare, GenerateUUID, LockStorage, InsertSession,
              LoadProperty, RejectProperty, Prepared, ReplyPrepare
<1>2. CASE \/ Submit(t) \/ Find(t) \/ NotFound(t) \/ CopyList(t)
           \/ LockAutomaton(t) \/ Judge(t) \/ Judged(t) \/ ReplySubmit(t)
           \/ Crash(t)
  BY <1>2 DEF Submit, Find, NotFound, CopyList, LockAutomaton, Judge, Judged,
              ReplySubmit, Crash
<1>3. CASE WalkStep(t)
  BY <1>3 DEF WalkStep, NextEvent, EndOfTrace, NextEdge, TrueCallback, IfTrue,
              SetEvents, CondCallback, IfCond, Settle, DeadEnd
<1> QED BY <1>1, <1>2, <1>3 DEF Step, SubmitStep

(* Every step of a walk keeps its thread on an object, a state, an edge    *)
(* and a cube that exist.                                                  *)
LEMMA WalkControl ==
    ASSUME RequestTypes, WalkTypes, NEW t \in Thread, Control(t), WalkStep(t),
           check_cond_events \in Thread =>
                             check_cond_events' \in Thread
    PROVE  Control(t)'
<1> USE DEF RequestTypes, WalkTypes, request, reply, Goto
<1>1. /\ uuid' = uuid /\ list' = list /\ at' = at /\ trace' = trace
      /\ pc[t] \in WalkLabels /\ pc'[t] \in WalkLabels \cup {"judge"}
  BY WalkFrame
<1>2. /\ uuid'[t] \in Uuid /\ list'[t] \in Seq(Formula)
      /\ at'[t] \in DOMAIN list'[t]
  BY <1>1 DEF Control
<1>3. Aut(t)' = Aut(t)
  BY <1>1 DEF Aut
<1>4. Walking(t)' => s'[t] \in State
  <2>1. s[t] \in State
    BY <1>1 DEF Control, Walking
  <2>2. CASE IfTrue(t) \/ IfCond(t)
    <3>1. Edge(t).dst \in State
      BY <2>2, WalkPlace
         DEF IfTrue, IfCond, Control, EdgeLabels, WalkLabels, Edge
    <3> QED BY <2>1, <2>2, <3>1 DEF IfTrue, IfCond, TakeDefault
  <2>3. CASE ~ IfTrue(t) /\ ~ IfCond(t)
    BY <2>1, <2>3
       DEF WalkStep, NextEvent, EndOfTrace, NextEdge, TrueCallback, SetEvents,
           CondCallback, Settle, DeadEnd, walk
  <2> QED BY <2>2, <2>3
<1>5. pc'[t] \in EdgeLabels \cup {"edge", "settle"} =>
        /\ src'[t] \in State
        /\ Len(visited'[t]) < Len(trace'[t])
  <2>1. CASE NextEvent(t)
    <3>1. s[t] \in State
      BY <1>1 DEF Control, Walking
    <3> QED BY <1>1, <2>1, <3>1 DEF NextEvent
  <2>2. CASE EndOfTrace(t) \/ Settle(t) \/ DeadEnd(t)
    BY <2>2 DEF EndOfTrace, Settle, DeadEnd, EdgeLabels
  <2>3. CASE \/ NextEdge(t) \/ TrueCallback(t) \/ IfTrue(t) \/ SetEvents(t)
             \/ CondCallback(t) \/ IfCond(t)
    <3>1. pc[t] \in EdgeLabels \cup {"edge"}
      BY <2>3 DEF NextEdge, TrueCallback, IfTrue, SetEvents, CondCallback,
                  IfCond, EdgeLabels
    <3>2. src' = src /\ visited' = visited
      BY <2>3 DEF NextEdge, TrueCallback, IfTrue, SetEvents, CondCallback,
                  IfCond
    <3> QED BY <1>1, <3>1, <3>2 DEF Control
  <2> QED BY <2>1, <2>2, <2>3 DEF WalkStep
<1>6. /\ pc'[t] \in EdgeLabels => edge'[t] \in DOMAIN Edges(t)'
      /\ pc'[t] \in {"allTrue", "allCond"} =>
           cube'[t] \in DOMAIN Edge(t)'.label
  <2>1. CASE NextEdge(t)
    <3>1. /\ src[t] \in State /\ src' = src /\ edge' = edge
          /\ cube'[t] = 1
      BY <2>1 DEF NextEdge, Control
    <3>2. Edges(t)' = Edges(t) /\ Edge(t)' = Edge(t)
      BY <1>3, <3>1 DEF Edges, Edge
    <3>3. pc'[t] # "settle" => edge[t] <= Len(Edges(t))
      BY <2>1 DEF NextEdge
    <3>4. pc'[t] \in EdgeLabels => edge[t] \in DOMAIN Edges(t)
      BY <1>1, <3>1, <3>3, WalkPlace DEF EdgeLabels
    <3>5. \A i \in DOMAIN Edges(t) : 1 \in DOMAIN Edges(t)[i].label
      BY <1>1, <3>1, WalkPlace
    <3> QED BY <3>1, <3>2, <3>4, <3>5 DEF Edge, EdgeLabels
  <2>2. CASE TrueCallback(t) \/ CondCallback(t)
    <3>1. /\ src[t] \in State /\ src' = src /\ edge' = edge
          /\ edge[t] \in DOMAIN Edges(t)
          /\ cube'[t] = cube[t] + 1
          /\ pc'[t] \in {"allTrue", "allCond"} =>
               cube[t] < Len(Edge(t).label)
      BY <2>2 DEF TrueCallback, CondCallback, Control, EdgeLabels
    <3>2. Edges(t)' = Edges(t) /\ Edge(t)' = Edge(t)
      BY <1>3, <3>1 DEF Edges, Edge
    <3>3. /\ Len(Edge(t).label) \in Nat
          /\ DOMAIN Edge(t).label = 1 .. Len(Edge(t).label)
      BY <1>1, <3>1, WalkPlace DEF Edge
    <3> QED BY <3>1, <3>2, <3>3
  <2>3. CASE SetEvents(t)
    <3>1. /\ src[t] \in State /\ src' = src /\ edge' = edge
          /\ edge[t] \in DOMAIN Edges(t)
          /\ cube'[t] = 1
      BY <2>3 DEF SetEvents, Control, EdgeLabels
    <3>2. Edges(t)' = Edges(t) /\ Edge(t)' = Edge(t)
      BY <1>3, <3>1 DEF Edges, Edge
    <3>3. 1 \in DOMAIN Edge(t).label
      BY <1>1, <3>1, WalkPlace DEF Edge
    <3> QED BY <3>1, <3>2, <3>3
  <2>4. CASE IfTrue(t)
    <3>1. CASE pc'[t] = "setEvents"
      <4>1. src' = src /\ edge' = edge /\ edge[t] \in DOMAIN Edges(t)
        BY <2>4, <3>1 DEF IfTrue, Control, EdgeLabels
      <4> QED BY <1>3, <3>1, <4>1 DEF Edges
    <3>2. CASE pc'[t] # "setEvents"
      BY <2>4, <3>2 DEF IfTrue, EdgeLabels
    <3> QED BY <3>1, <3>2
  <2>5. CASE IfCond(t) \/ NextEvent(t)
    BY <2>5 DEF IfCond, NextEvent, EdgeLabels
  <2>6. CASE EndOfTrace(t) \/ Settle(t) \/ DeadEnd(t)
    BY <2>6 DEF EndOfTrace, Settle, DeadEnd, EdgeLabels
  <2> QED BY <2>1, <2>2, <2>3, <2>4, <2>5, <2>6 DEF WalkStep
<1>7. pc'[t] = "allCond" => check_cond_events' \in Thread
  <2>1. CASE SetEvents(t)
    BY <2>1 DEF SetEvents
  <2>2. CASE CondCallback(t)
    BY <2>2 DEF CondCallback, Control
  <2>3. CASE ~ SetEvents(t) /\ ~ CondCallback(t)
    BY <2>3 DEF WalkStep, NextEvent, EndOfTrace, NextEdge, TrueCallback,
                IfTrue, IfCond, Settle, DeadEnd
  <2> QED BY <2>1, <2>2, <2>3
<1>8. pc'[t] # "lock"
  BY <1>1 DEF WalkLabels
<1> QED BY <1>1, <1>2, <1>4, <1>5, <1>6, <1>7, <1>8
        DEF Control, Walking

LEMMA ControlStep ==
    ASSUME SessionTypes, RequestTypes, WalkTypes, Sessions,
           \A x \in Thread : Control(x),
           NEW t \in Thread, Step(t), NEW x \in Thread
    PROVE  Control(x)'
<1> USE DEF Goto, request, reply
<1>1. CASE x # t
  <2>1. Bystander(x)
    BY <1>1, Bystanders
  <2>2. check_cond_events \in Thread => check_cond_events' \in Thread
    BY PointerStep
  <2>3. /\ Aut(x)' = Aut(x) /\ Edges(x)' = Edges(x) /\ Edge(x)' = Edge(x)
    BY <2>1 DEF Bystander, Aut, Edges, Edge
  <2>4. CASE pc'[x] = "dead"
    BY <2>4 DEF Control, Walking, WalkLabels, EdgeLabels
  <2>5. CASE pc'[x] = pc[x]
    BY <2>1, <2>2, <2>3, <2>5 DEF Control, Walking, Bystander
  <2> QED BY <2>1, <2>4, <2>5 DEF Bystander
<1>2. CASE x = t /\ WalkStep(t)
  BY <1>2, WalkControl, PointerStep
<1>3. CASE x = t /\ CopyList(t)
  <2>1. uuid[t] \in DOMAIN known
    BY <1>3 DEF CopyList, Sessions, Finding
  <2>2. uuid[t] \in Uuid /\ storage[uuid[t]] \in Seq(Formula)
    BY <2>1 DEF Sessions, SessionTypes
  <2>3. uuid'[t] = uuid[t] /\ list'[t] = storage[uuid[t]] /\ pc'[t] = "lock"
    BY <1>3 DEF CopyList, RequestTypes
  <2> QED BY <1>3, <2>2, <2>3 DEF Control, Walking, WalkLabels, EdgeLabels
<1>4. CASE x = t /\ LockAutomaton(t)
  <2>1. /\ uuid'[t] = uuid[t] /\ list'[t] = list[t] /\ at'[t] = at[t]
        /\ pc'[t] = "next" /\ s'[t] = Aut(t).init
    BY <1>4 DEF LockAutomaton, RequestTypes, WalkTypes
  <2>2. /\ uuid[t] \in Uuid /\ list[t] \in Seq(Formula)
        /\ at[t] \in DOMAIN list[t]
    BY <1>4 DEF LockAutomaton, Control, RequestTypes
  <2>3. Aut(t).init \in State
    BY <2>2, ServerAssumption DEF Aut, IsAutomaton
  <2> QED BY <1>4, <2>1, <2>2, <2>3 DEF Control, Walking, EdgeLabels
<1>5. CASE x = t /\ Judge(t)
  <2>1. /\ uuid'[t] = uuid[t] /\ list'[t] = list[t] /\ pc'[t] = "lock"
        /\ uuid[t] \in Uuid /\ list[t] \in Seq(Formula)
    BY <1>5 DEF Judge, Control, RequestTypes
  <2> QED BY <1>5, <2>1 DEF Control, Walking, WalkLabels, EdgeLabels
<1>6. CASE /\ x = t /\ ~ WalkStep(t) /\ ~ CopyList(t) /\ ~ LockAutomaton(t)
           /\ ~ Judge(t)
  <2>1. pc'[t] \notin WalkLabels
    BY <1>6, OutsideWalks
  <2>2. pc'[t] \notin {"lock", "judge"}
    <3> USE DEF RequestTypes
    <3>1. CASE LoadProperty(t)
      BY <3>1 DEF LoadProperty
    <3>2. CASE PrepareStep(t) /\ ~ LoadProperty(t)
      BY <3>2 DEF PrepareStep, Prepare, GenerateUUID, LockStorage,
                  InsertSession, RejectProperty, Prepared, ReplyPrepare,
                  Forget
    <3>3. CASE \/ Submit(t) \/ Find(t) \/ NotFound(t) \/ Judged(t)
               \/ ReplySubmit(t) \/ Crash(t)
      BY <3>3 DEF Submit, Find, NotFound, Judged, ReplySubmit, Crash, Forget
    <3> QED BY <1>6, <3>1, <3>2, <3>3 DEF Step, SubmitStep
  <2> QED BY <1>6, <2>1, <2>2 DEF Control, Walking, WalkLabels, EdgeLabels
<1> QED BY <1>1, <1>2, <1>3, <1>4, <1>5, <1>6

-----------------------------------------------------------------------------
(* A step changes the session map only at its own identifier, never takes  *)
(* back what a client was told, and draws no identifier in use.            *)
LEMMA StoreStep ==
    ASSUME SessionTypes, RequestTypes, Sessions, NEW t \in Thread, Step(t)
    PROVE  /\ \A u \in Uuid \ {uuid[t]} :
                /\ u \in DOMAIN storage' <=> u \in DOMAIN storage
                /\ u \in DOMAIN storage => storage'[u] = storage[u]
                /\ u \in DOMAIN known' <=> u \in DOMAIN known
           /\ \A u \in DOMAIN known :
                u \in DOMAIN known' /\ known'[u] = known[u]
           /\ \A x \in Thread \ {t} :
                pc[x] \in PrepareLabels \ {"generate"} => uuid'[t] # uuid[x]
<1>1. \A x \in Thread \ {t} : pc[x] \in PrepareLabels \ {"generate"} =>
        uuid[x] \in Uuid \ (DOMAIN known \cup {Stranger, uuid[t]})
  BY ServerAssumption DEF Sessions, Filling, PrepareLabels, SessionTypes
<1>2. CASE InsertSession(t)
  BY <1>1, <1>2 DEF InsertSession, Opened, world, request
<1>3. CASE LoadProperty(t)
  BY <1>1, <1>3 DEF LoadProperty, world, request, SessionTypes
<1>4. CASE GenerateUUID(t)
  BY <1>4 DEF GenerateUUID, Fresh, world, RequestTypes
<1>5. CASE ReplyPrepare(t)
  <2>1. uuid[t] \notin DOMAIN known
    BY <1>5 DEF ReplyPrepare, Sessions, Filling
  <2>2. uuid'[t] = Stranger /\ storage' = storage
    BY <1>5 DEF ReplyPrepare, Forget, RequestTypes
  <2>3. \/ known' = known
        \/ known' = [u \in DOMAIN known \cup {uuid[t]} |->
                       IF u = uuid[t] THEN list[t] ELSE known[u]]
    BY <1>5 DEF ReplyPrepare
  <2> QED BY <1>1, <2>1, <2>2, <2>3
<1>6. CASE ReplySubmit(t)
  BY <1>1, <1>6 DEF ReplySubmit, Forget, RequestTypes
<1>7. CASE Submit(t)
  <2>1. uuid'[t] \in DOMAIN known \cup {Stranger}
    BY <1>7 DEF Submit, RequestTypes
  <2>2. storage' = storage /\ known' = known
    BY <1>7 DEF Submit
  <2> QED BY <1>1, <2>1, <2>2
<1>8. CASE \/ Prepare(t) \/ LockStorage(t) \/ RejectProperty(t)
           \/ Prepared(t)
  BY <1>1, <1>8
     DEF Prepare, LockStorage, RejectProperty, Prepared, world, request
<1>9. CASE \/ Find(t) \/ NotFound(t) \/ CopyList(t) \/ LockAutomaton(t)
           \/ Judge(t) \/ Judged(t) \/ Crash(t)
  BY <1>1, <1>9 DEF Find, NotFound, CopyList, LockAutomaton, Judge, Judged,
                    Crash, world, request
<1>10. CASE WalkStep(t)
  BY <1>1, <1>10, WalkFrame DEF world, request
<1> QED BY <1>2, <1>3, <1>4, <1>5, <1>6, <1>7, <1>8, <1>9, <1>10
        DEF Step, PrepareStep, SubmitStep

(* What a client was told stays in the map, unchanged.                     *)
LEMMA KnownStep ==
    ASSUME SessionTypes, RequestTypes, Sessions, NEW t \in Thread, Step(t)
    PROVE  \A u \in DOMAIN known' :
             u \in DOMAIN storage' /\ storage'[u] = known'[u]
<1>1. CASE ReplyPrepare(t)
  <2>1. /\ storage' = storage
        /\ uuid[t] \in DOMAIN storage
        /\ status[t] = "OK" => storage[uuid[t]] = list[t]
    BY <1>1 DEF ReplyPrepare, Sessions, Filling
  <2>2. \/ known' = known
        \/ /\ status[t] = "OK"
           /\ known' = [u \in DOMAIN known \cup {uuid[t]} |->
                          IF u = uuid[t] THEN list[t] ELSE known[u]]
    BY <1>1 DEF ReplyPrepare, Succeeded
  <2> QED BY <2>1, <2>2 DEF Sessions
<1>2. CASE InsertSession(t) \/ LoadProperty(t)
  <2>1. known' = known /\ uuid[t] \notin DOMAIN known
    BY <1>2 DEF InsertSession, LoadProperty, Sessions, Filling, world
  <2> QED BY <2>1, StoreStep DEF Sessions, SessionTypes
<1>3. CASE ~ ReplyPrepare(t) /\ ~ InsertSession(t) /\ ~ LoadProperty(t)
  <2>1. storage' = storage /\ known' = known
    <3>1. CASE WalkStep(t)
      BY <3>1, WalkFrame DEF world
    <3>2. CASE PrepareStep(t)
      BY <1>3, <3>2 DEF PrepareStep, Prepare, GenerateUUID, LockStorage,
                        RejectProperty, Prepared, world
    <3>3. CASE (SubmitStep(t) /\ ~ WalkStep(t)) \/ Crash(t)
      BY <3>3 DEF SubmitStep, Submit, Find, NotFound, CopyList, LockAutomaton,
                  Judge, Judged, ReplySubmit, Crash, world
    <3> QED BY <3>1, <3>2, <3>3 DEF Step
  <2> QED BY <2>1 DEF Sessions
<1> QED BY <1>1, <1>2, <1>3

(* The threads that do not move keep their claims on the map ...           *)
LEMMA BystanderSessions ==
    ASSUME SessionTypes, RequestTypes, WalkTypes, Sessions,
           NEW t \in Thread, Step(t), NEW x \in Thread \ {t}
    PROVE  Filling(x)' /\ Finding(x)'
<1>1. Bystander(x)
  BY Bystanders
<1>2. \A y \in Thread \ {t} : uuid'[y] = uuid[y]
  BY Bystanders DEF Bystander
<1>3. pc[x] \in PrepareLabels \ {"generate"} =>
        /\ uuid[x] \in Uuid \ {uuid[t]}
        /\ uuid'[t] # uuid[x]
  BY StoreStep DEF Sessions, Filling, PrepareLabels, SessionTypes
<1>4. CASE pc'[x] = "dead"
  BY <1>4 DEF Filling, Finding, PrepareLabels
<1>5. CASE pc'[x] = pc[x]
  <2>1. Finding(x)'
    BY <1>1, <1>5, StoreStep DEF Bystander, Finding, Sessions
  <2>2. CASE pc[x] \in PrepareLabels \ {"generate"}
    <3>1. Filling(x)
      BY DEF Sessions
    <3>2. \A y \in Thread \ {x} : uuid'[y] # uuid'[x]
      BY <1>1, <1>2, <1>3, <2>2, <3>1 DEF Bystander, Filling
    <3>3. /\ uuid[x] \in DOMAIN storage' <=> uuid[x] \in DOMAIN storage
          /\ uuid[x] \in DOMAIN storage =>
               storage'[uuid[x]] = storage[uuid[x]]
          /\ uuid[x] \in DOMAIN known' <=> uuid[x] \in DOMAIN known
      BY <1>3, <2>2, StoreStep
    <3> QED BY <1>1, <1>5, <2>1, <2>2, <3>1, <3>2, <3>3
            DEF Bystander, Filling, PrepareLabels
  <2>3. CASE pc[x] \notin PrepareLabels \ {"generate"}
    BY <1>1, <1>5, <2>1, <2>3 DEF Bystander, Filling, PrepareLabels, Sessions
  <2> QED BY <2>2, <2>3
<1> QED BY <1>1, <1>4, <1>5 DEF Bystander

(* ... and the one that moves makes, fills and hands over its own.         *)
LEMMA OwnSession ==
    ASSUME SessionTypes, RequestTypes, Sessions, NEW t \in Thread, Step(t),
           \A y \in Thread \ {t} : uuid'[y] = uuid[y]
    PROVE  Filling(t)' /\ Finding(t)'
<1> USE DEF RequestTypes, request, reply, Goto, Filling, Finding
<1>1. Filling(t) /\ Finding(t)
  BY DEF Sessions
<1>2. CASE Prepare(t)
  BY <1>1, <1>2 DEF Prepare, PrepareLabels
<1>3. CASE GenerateUUID(t)
  BY <1>1, <1>3 DEF GenerateUUID, Fresh, PrepareLabels
<1>4. CASE LockStorage(t)
  BY <1>1, <1>4 DEF LockStorage, PrepareLabels
<1>5. CASE InsertSession(t)
  <2>1. /\ uuid' = uuid /\ list' = list /\ at' = at /\ status' = status
        /\ known' = known /\ pc'[t] = "load"
        /\ uuid[t] \in DOMAIN storage' /\ storage'[uuid[t]] = <<>>
    BY <1>5 DEF InsertSession, Opened, world
  <2>2. /\ uuid[t] \notin DOMAIN known /\ at[t] = 1 /\ status[t] = "OK"
        /\ \A y \in Thread \ {t} : uuid[y] # uuid[t]
    BY <1>1, <1>5 DEF InsertSession, Sessions, PrepareLabels
  <2> QED BY <2>1, <2>2 DEF PrepareLabels
<1>6. CASE LoadProperty(t)
  <2> DEFINE u == uuid[t]  f == list[t][at[t]]
  <2>1. /\ u \in DOMAIN storage \ DOMAIN known /\ status[t] = "OK"
        /\ at[t] = Len(storage[u]) + 1 /\ at[t] <= Len(list[t])
        /\ \A i \in 1 .. at[t] - 1 : storage[u][i] = list[t][i]
        /\ \A y \in Thread \ {t} : uuid[y] # uuid[t]
    BY <1>1, <1>6 DEF LoadProperty, PrepareLabels
  <2>2. /\ uuid' = uuid /\ list' = list /\ known' = known /\ pc' = pc
        /\ status' = status /\ pc[t] = "load"
        /\ at'[t] = at[t] + 1
        /\ DOMAIN storage' = DOMAIN storage
        /\ storage'[u] = Append(storage[u], f)
    BY <1>6, <2>1 DEF LoadProperty, world, SessionTypes
  <2>3. storage[u] \in Seq(Name \cap Formula) /\ f \in Name \cap Formula
    BY <1>6, <2>1 DEF LoadProperty, Parses, SessionTypes
  <2>4. /\ Len(storage'[u]) = at[t]
        /\ \A i \in 1 .. at[t] : storage'[u][i] = list[t][i]
    BY <2>1, <2>2, <2>3
  <2>5. at[t] \in Nat /\ Len(list[t]) \in Nat
    OBVIOUS
  <2> QED BY <2>1, <2>2, <2>4, <2>5 DEF PrepareLabels
<1>7. CASE RejectProperty(t)
  BY <1>1, <1>7 DEF RejectProperty, PrepareLabels, world
<1>8. CASE Prepared(t)
  <2> DEFINE u == uuid[t]
  <2>1. /\ u \in DOMAIN storage /\ at[t] = Len(storage[u]) + 1
        /\ at[t] <= Len(list[t]) + 1 /\ at[t] > Len(list[t])
        /\ \A i \in 1 .. at[t] - 1 : storage[u][i] = list[t][i]
    BY <1>1, <1>8 DEF Prepared, PrepareLabels
  <2>2. storage[u] \in Seq(Name) /\ list[t] \in Seq(Name)
    BY <2>1 DEF SessionTypes
  <2>3. /\ Len(storage[u]) = Len(list[t])
        /\ \A i \in 1 .. Len(storage[u]) : storage[u][i] = list[t][i]
    BY <2>1, <2>2
  <2>4. storage[u] = list[t]
    BY <2>2, <2>3, SeqEqual
  <2> QED BY <1>1, <1>8, <2>4 DEF Prepared, PrepareLabels, world
<1>9. CASE ReplyPrepare(t) \/ ReplySubmit(t)
  BY <1>9 DEF ReplyPrepare, ReplySubmit, Forget, PrepareLabels
<1>10. CASE Submit(t)
  BY <1>10 DEF Submit, PrepareLabels
<1>11. CASE Find(t)
  BY <1>1, <1>11, ServerAssumption DEF Find, PrepareLabels, world, SessionTypes
<1>12. CASE NotFound(t) \/ CopyList(t) \/ LockAutomaton(t)
  BY <1>12 DEF NotFound, CopyList, LockAutomaton, PrepareLabels
<1>13. CASE Judge(t) \/ Judged(t) \/ Crash(t)
  BY <1>13 DEF Judge, Judged, Crash, PrepareLabels
<1>14. CASE WalkStep(t)
  BY <1>14, WalkFrame DEF PrepareLabels, WalkLabels
<1> QED BY <1>2, <1>3, <1>4, <1>5, <1>6, <1>7, <1>8, <1>9, <1>10, <1>11,
           <1>12, <1>13, <1>14
        DEF Step, PrepareStep, SubmitStep

(* A trace is evaluated against the list its client was promised.          *)
LEMMA WholeStep ==
    ASSUME SessionTypes, RequestTypes, WalkTypes, Sessions, SessionIsWhole,
           NEW t \in Thread, Step(t)
    PROVE  SessionIsWhole'
<1> DEFINE Busy == SubmitLabels \ {"find", "copy"}
           Whole(y) == pc[y] \in Busy /\ status[y] = "OK" =>
                         uuid[y] \in DOMAIN known /\ list[y] = known[uuid[y]]
<1> SUFFICES ASSUME NEW x \in Thread PROVE Whole(x)'
  BY DEF SessionIsWhole
<1> USE DEF Goto, request, reply
<1>1. Whole(x)
  BY DEF SessionIsWhole
<1>2. ASSUME uuid'[x] = uuid[x], list'[x] = list[x], status'[x] = status[x],
             pc'[x] \in Busy => pc[x] \in Busy
      PROVE  Whole(x)'
  BY <1>1, <1>2, StoreStep
<1>3. CASE x # t
  BY <1>2, <1>3, Bystanders DEF Bystander, SubmitLabels, WalkLabels
<1>4. CASE x = t /\ CopyList(t)
  <2>1. uuid[t] \in DOMAIN known /\ storage[uuid[t]] = known[uuid[t]]
    BY <1>4 DEF CopyList, Sessions, Finding
  <2>2. /\ uuid'[t] = uuid[t] /\ list'[t] = storage[uuid[t]]
        /\ known' = known
    BY <1>4 DEF CopyList, RequestTypes, world
  <2> QED BY <1>4, <2>1, <2>2
<1>5. CASE x = t /\ NotFound(t)
  BY <1>5 DEF NotFound, RequestTypes
<1>6. CASE x = t /\ WalkStep(t)
  BY <1>2, <1>6, WalkFrame DEF SubmitLabels, WalkLabels
<1>7. CASE x = t /\ (LockAutomaton(t) \/ Judge(t) \/ Judged(t))
  BY <1>2, <1>7 DEF LockAutomaton, Judge, Judged, SubmitLabels
<1>8. CASE x = t /\ (PrepareStep(t) \/ Submit(t) \/ Find(t)
                      \/ ReplySubmit(t) \/ Crash(t))
  <2>1. pc'[t] \notin Busy
    <3> USE DEF RequestTypes, SubmitLabels, WalkLabels
    <3>1. CASE LoadProperty(t)
      BY <3>1 DEF LoadProperty
    <3>2. CASE PrepareStep(t) /\ ~ LoadProperty(t)
      BY <3>2 DEF PrepareStep, Prepare, GenerateUUID, LockStorage,
                  InsertSession, RejectProperty, Prepared, ReplyPrepare,
                  Forget
    <3>3. CASE Submit(t) \/ Find(t) \/ ReplySubmit(t) \/ Crash(t)
      BY <3>3 DEF Submit, Find, ReplySubmit, Crash, Forget
    <3> QED BY <1>8, <3>1, <3>2, <3>3
  <2> QED BY <1>8, <2>1
<1> QED BY <1>3, <1>4, <1>5, <1>6, <1>7, <1>8 DEF Step, SubmitStep

-----------------------------------------------------------------------------
(* The whole invariant.                                                    *)
Inv == /\ SessionTypes /\ SharedTypes /\ RequestTypes /\ WalkTypes
       /\ \A t \in Thread : Control(t)
       /\ Holding /\ ObjectExclusion
       /\ Sessions /\ SessionIsWhole

LEMMA InvInit == Init => Inv
<1> SUFFICES ASSUME Init PROVE Inv
  OBVIOUS
<1> USE DEF Init
<1>1. SessionTypes
  <2>1. DOMAIN storage = {} /\ DOMAIN known = {}
    OBVIOUS
  <2>2. /\ storage \in [DOMAIN storage -> Seq(Name \cap Formula)]
        /\ known \in [DOMAIN known -> Seq(Name)]
    BY <2>1
  <2> QED BY <2>1, <2>2, ServerAssumption DEF SessionTypes
<1>7. SharedTypes
  BY DEF SharedTypes
<1>2. RequestTypes
  <2>1. <<>> \in Seq(Name) /\ <<>> \in Seq(Word)
    OBVIOUS
  <2> QED BY <2>1 DEF RequestTypes
<1>3. WalkTypes
  <2>1. <<>> \in Seq(State \cup {Dead})
    OBVIOUS
  <2> QED BY <2>1 DEF WalkTypes
<1>4. \A t \in Thread : Control(t)
  BY DEF Control, Walking, WalkLabels, EdgeLabels
<1>5. Holding /\ ObjectExclusion /\ SessionIsWhole
  BY DEF Holding, ObjectExclusion, SessionIsWhole, Walking, WalkLabels,
         SubmitLabels
<1>6. Sessions
  BY DEF Sessions, Filling, Finding, PrepareLabels
<1> QED BY <1>1, <1>2, <1>3, <1>4, <1>5, <1>6, <1>7 DEF Inv

LEMMA InvNext == Inv /\ [Next]_vars => Inv'
<1> SUFFICES ASSUME Inv, [Next]_vars PROVE Inv'
  OBVIOUS
<1>1. ASSUME NEW t \in Thread, Step(t) PROVE Inv'
  <2> USE <1>1 DEF Inv
  <2>1. SessionTypes' /\ SharedTypes' /\ RequestTypes' /\ WalkTypes'
    BY SessionTypesStep, SharedTypesStep, RequestTypesStep, WalkTypesStep
  <2>2. \A x \in Thread : Control(x)'
    BY ControlStep
  <2>3. Holding' /\ ObjectExclusion'
    BY ExclusionStep
  <2>4. Sessions'
    <3>1. \A x \in Thread \ {t} : Filling(x)' /\ Finding(x)'
      BY BystanderSessions
    <3>2. Filling(t)' /\ Finding(t)'
      BY OwnSession, Bystanders DEF Bystander
    <3> QED BY <3>1, <3>2, KnownStep DEF Sessions
  <2>5. SessionIsWhole'
    BY WholeStep
  <2> QED BY <2>1, <2>2, <2>3, <2>4, <2>5
<1>2. CASE UNCHANGED vars
  <2> USE <1>2 DEF vars, locks, statics, world, request, reply, walk, Inv
  <2>1. SessionTypes' /\ SharedTypes' /\ RequestTypes' /\ WalkTypes'
    BY DEF SessionTypes, SharedTypes, RequestTypes, WalkTypes
  <2>2. \A x \in Thread : Control(x)'
    BY DEF Control, Walking, Edges, Edge, Aut
  <2>3. Holding' /\ ObjectExclusion'
    BY DEF Holding, ObjectExclusion, Walking, Object
  <2>4. Sessions' /\ SessionIsWhole'
    BY DEF Sessions, Filling, Finding, SessionIsWhole
  <2> QED BY <2>1, <2>2, <2>3, <2>4
<1> QED BY <1>1, <1>2 DEF Next, Rest

LEMMA Invariance == Spec => []Inv
BY InvInit, InvNext, PTL DEF Spec

(* Every variable of the server keeps its type.                            *)
THEOREM TypeCorrect == Spec => []TypeOK
<1>1. Inv => TypeOK
  BY DEF Inv, TypeOK
<1> QED BY <1>1, Invariance, PTL

(* mtx_ keeps the walks of one Automata object apart, however many threads *)
(* and sessions there are.                                                 *)
THEOREM MutualExclusion == Spec => []ObjectExclusion
<1>1. Inv => ObjectExclusion
  BY DEF Inv
<1> QED BY <1>1, Invariance, PTL

(* Although PrepareLTLProperties fills the published list without the      *)
(* map's mutex, no trace is evaluated against less than what was prepared. *)
THEOREM WholeSessions == Spec => []SessionIsWhole
<1>1. Inv => SessionIsWhole
  BY DEF Inv
<1> QED BY <1>1, Invariance, PTL

-----------------------------------------------------------------------------
(* Naturals.                                                               *)

(* A nonempty set of naturals has a least element: the intervals 0..x are  *)
(* finite sets, and strict inclusion is well founded on those.             *)
LEMMA LeastElement ==
    ASSUME NEW T \in SUBSET Nat, T # {}
    PROVE  \E x \in T : \A y \in T : x <= y
<1> DEFINE F == {0 .. x : x \in T}
<1>1. F \subseteq FiniteSubsetsOf(Nat)
  <2> SUFFICES ASSUME NEW x \in T PROVE 0 .. x \in FiniteSubsetsOf(Nat)
    OBVIOUS
  <2>1. IsFiniteSet(0 .. x)
    BY FS_Interval
  <2>2. 0 .. x \in SUBSET Nat
    OBVIOUS
  <2> QED BY <2>1, <2>2 DEF FiniteSubsetsOf
<1>2. F # {}
  OBVIOUS
<1>3. PICK X \in F : \A Y \in F : ~ (<<Y, X>> \in StrictSubsetOrdering(Nat))
  <2> HIDE DEF F
  <2> QED BY <1>1, <1>2, FS_StrictSubsetOrderingWellFounded, WFMin
<1>4. PICK x \in T : X = 0 .. x
  BY <1>3
<1>5. ASSUME NEW y \in T, y < x PROVE FALSE
  <2> DEFINE Y == 0 .. y
  <2>1. Y \in F
    OBVIOUS
  <2>2. Y \subseteq X /\ Y # X
    BY <1>4, <1>5
  <2>3. Y \in SUBSET Nat /\ X \in SUBSET Nat
    BY <1>4
  <2>4. <<Y, X>> \in StrictSubsetOrdering(Nat)
    <3> HIDE DEF Y, F
    <3> QED BY <2>2, <2>3 DEF StrictSubsetOrdering
  <2> HIDE DEF Y, F
  <2> QED BY <1>3, <2>1, <2>4
<1> QED BY <1>5

(* Min of a nonempty set of naturals is its least element.                 *)
LEMMA MinIsLeast ==
    ASSUME NEW T \in SUBSET Nat, T # {}
    PROVE  Min(T) \in T /\ \A y \in T : Min(T) <= y
BY LeastElement DEF Min

(* Max of a nonempty bounded set of naturals is its greatest element.      *)
LEMMA MaxIsGreatest ==
    ASSUME NEW n \in Nat, NEW T \in SUBSET (0 .. n), T # {}
    PROVE  Max(T) \in T /\ \A y \in T : Max(T) >= y
<1> DEFINE U == {n - x : x \in T}
<1>1. U \in SUBSET Nat /\ U # {}
  <2>1. \A x \in T : n - x \in Nat
    OBVIOUS
  <2>2. U \subseteq Nat
    BY <2>1
  <2>3. U # {}
    OBVIOUS
  <2> QED BY <2>2, <2>3
<1>2. PICK u \in U : \A v \in U : u <= v
  <2> HIDE DEF U
  <2> QED BY <1>1, LeastElement
<1>3. PICK x \in T : u = n - x
  OBVIOUS
<1>4. \A y \in T : x >= y
  <2> TAKE y \in T
  <2>1. u <= n - y
    BY <1>2
  <2> QED BY <1>3, <2>1
<1> QED BY <1>4 DEF Max

-----------------------------------------------------------------------------
(* What IsAutomaton says of one edge.                                      *)
LEMMA EdgeFacts ==
    ASSUME NEW S, NEW A, IsAutomaton(A, S), NEW st \in S,
           NEW i \in DOMAIN A.out[st]
    PROVE  /\ A.out[st][i].dst \in S
           /\ Len(A.out[st][i].label) \in Nat \ {0}
           /\ DOMAIN A.out[st][i].label = 1 .. Len(A.out[st][i].label)
BY DEF IsAutomaton, IsEdge

(* A TRUE edge and a hit are enabled: their last cube holds of the event.  *)
LEMMA CandidatesAreEnabled ==
    ASSUME NEW S, NEW A, IsAutomaton(A, S), NEW st \in S, NEW e
    PROVE  Defaults(A, st) \cup Hits(A, st, e) \subseteq Enabled(A, st, e)
<1> SUFFICES ASSUME NEW i \in Defaults(A, st) \cup Hits(A, st, e)
             PROVE  i \in Enabled(A, st, e)
  OBVIOUS
<1>1. i \in DOMAIN A.out[st]
  BY DEF Defaults, Hits
<1> DEFINE label == A.out[st][i].label
<1>2. Len(label) \in DOMAIN label
  BY <1>1, EdgeFacts
<1>3. CubeHolds(label[Len(label)], EventIndices(A, e))
  BY DEF Defaults, Hits, IsTrueCond, CubeTrue, CheckCond, CubeHolds, LastCube
<1> QED BY <1>1, <1>2, <1>3 DEF Enabled

(* The greedy move follows an enabled edge, or none is a candidate.        *)
LEMMA MoveFollowsEdge ==
    ASSUME NEW S, NEW A, IsAutomaton(A, S), NEW st \in S, NEW e
    PROVE  \/ /\ Move(A, st, e) = Dead
              /\ Defaults(A, st) \cup Hits(A, st, e) = {}
           \/ \E i \in Enabled(A, st, e) : Move(A, st, e) = A.out[st][i].dst
<1>1. /\ Hits(A, st, e) \in SUBSET Nat
      /\ Len(A.out[st]) \in Nat
      /\ Defaults(A, st) \in SUBSET (0 .. Len(A.out[st]))
  BY DEF IsAutomaton, Hits, Defaults
<1>2. CASE Hits(A, st, e) # {}
  <2>1. Min(Hits(A, st, e)) \in Hits(A, st, e)
    BY <1>1, <1>2, MinIsLeast
  <2> QED BY <1>2, <2>1, CandidatesAreEnabled DEF Move
<1>3. CASE Hits(A, st, e) = {} /\ Defaults(A, st) # {}
  <2>1. Max(Defaults(A, st)) \in Defaults(A, st)
    BY <1>1, <1>3, MaxIsGreatest
  <2> QED BY <1>3, <2>1, CandidatesAreEnabled DEF Move
<1>4. CASE Hits(A, st, e) = {} /\ Defaults(A, st) = {}
  BY <1>4 DEF Move
<1> QED BY <1>2, <1>3, <1>4

(* Hence it stays among the states, or dies.                               *)
LEMMA MoveType ==
    ASSUME NEW S, NEW A, IsAutomaton(A, S), NEW st \in S, NEW e
    PROVE  /\ Move(A, st, e) \in S \cup {Dead}
           /\ Dead \notin S
<1>1. ASSUME NEW i \in Enabled(A, st, e) PROVE A.out[st][i].dst \in S
  BY EdgeFacts DEF Enabled
<1>2. S \subseteq Nat
  BY DEF IsAutomaton
<1>3. Dead \notin S
  BY <1>2 DEF Dead
<1>4. Move(A, st, e) \in S \cup {Dead}
  BY <1>1, MoveFollowsEdge
<1> QED BY <1>3, <1>4

(* On a deterministic automaton with conjunctive labels it takes the only  *)
(* enabled edge, and dies only where there is none.                        *)
LEMMA MoveIsOnlyMove ==
    ASSUME NEW S, NEW A, IsAutomaton(A, S), NEW st \in S,
           NEW e, \A i, j \in Enabled(A, st, e) : i = j, Conjunctive(A)
    PROVE  Successors(A, {st}, e) =
             IF Move(A, st, e) = Dead THEN {} ELSE {Move(A, st, e)}
<1>1. \A i, j \in Enabled(A, st, e) : i = j
  OBVIOUS
<1>2. Enabled(A, st, e) \subseteq Defaults(A, st) \cup Hits(A, st, e)
  <2> SUFFICES ASSUME NEW i \in Enabled(A, st, e),
                      i \notin Defaults(A, st)
               PROVE  i \in Hits(A, st, e)
    OBVIOUS
  <2>1. i \in DOMAIN A.out[st] /\ ~ IsTrueCond(A.out[st][i])
    BY DEF Enabled, Defaults
  <2>2. DOMAIN A.out[st][i].label = {1} /\ Len(A.out[st][i].label) = 1
    BY <2>1, EdgeFacts DEF Conjunctive, IsAutomaton
  <2>3. CubeHolds(A.out[st][i].label[1], EventIndices(A, e))
    BY <2>2 DEF Enabled
  <2> QED BY <2>1, <2>2, <2>3 DEF Hits, CheckCond, LastCube
<1>3. Successors(A, {st}, e) = {A.out[st][i].dst : i \in Enabled(A, st, e)}
  BY DEF Successors
<1>4. CASE Move(A, st, e) = Dead
  <2>1. ASSUME NEW i \in Enabled(A, st, e) PROVE A.out[st][i].dst # Dead
    BY EdgeFacts, MoveType DEF Enabled
  <2>2. Enabled(A, st, e) = {}
    BY <1>2, <1>4, <2>1, MoveFollowsEdge
  <2> QED BY <1>3, <1>4, <2>2
<1>5. CASE Move(A, st, e) # Dead
  <2>1. PICK i \in Enabled(A, st, e) : Move(A, st, e) = A.out[st][i].dst
    BY <1>5, MoveFollowsEdge
  <2>2. Enabled(A, st, e) = {i}
    BY <1>1, <2>1
  <2> QED BY <1>3, <1>5, <2>1, <2>2
<1> QED BY <1>4, <1>5

-----------------------------------------------------------------------------
(* The walk and the reference stay among the automaton's states.           *)
THEOREM FeedTypeCorrect == FeedSpec => []FeedTypeOK
<1>1. FeedInit => FeedTypeOK
  BY AutomataAssumption DEF FeedInit, FeedTypeOK, IsAutomaton
<1>2. FeedTypeOK /\ [FeedNext]_feed => FeedTypeOK'
  <2> SUFFICES ASSUME FeedTypeOK, [FeedNext]_feed PROVE FeedTypeOK'
    OBVIOUS
  <2>1. ASSUME NEW e \in Letter, Feed(e) PROVE FeedTypeOK'
    <3>1. cur' \in FeedState \cup {Dead}
      BY <2>1, MoveType DEF Feed, FeedTypeOK
    <3>2. Successors(aut, reach, e) \subseteq FeedState
      <4> SUFFICES ASSUME NEW st \in reach, NEW i \in Enabled(aut, st, e)
                   PROVE  aut.out[st][i].dst \in FeedState
        BY DEF Successors
      <4> QED BY EdgeFacts DEF FeedTypeOK, Enabled
    <3> QED BY <2>1, <3>1, <3>2 DEF Feed, FeedTypeOK
  <2>2. CASE UNCHANGED feed
    BY <2>2 DEF feed, FeedTypeOK
  <2> QED BY <2>1, <2>2 DEF FeedNext
<1> QED BY <1>1, <1>2, PTL DEF FeedSpec

(* A trace the server reports did drive its automaton where the server     *)
(* says: soundness of model_check_events, without races.                   *)
THEOREM Soundness == FeedSpec => []WalkIsSound
<1>1. FeedInit => WalkIsSound
  BY DEF FeedInit, WalkIsSound
<1>2. FeedTypeOK /\ WalkIsSound /\ [FeedNext]_feed => WalkIsSound'
  <2> SUFFICES ASSUME FeedTypeOK, WalkIsSound, [FeedNext]_feed, cur' # Dead
               PROVE  cur' \in reach'
    BY DEF WalkIsSound
  <2>1. ASSUME NEW e \in Letter, Feed(e) PROVE cur' \in reach'
    <3>1. cur # Dead /\ cur \in FeedState /\ cur \in reach
      BY <2>1 DEF Feed, FeedTypeOK, WalkIsSound
    <3>2. cur' = Move(aut, cur, e) /\ reach' = Successors(aut, reach, e)
      BY <2>1, <3>1 DEF Feed
    <3>3. PICK i \in Enabled(aut, cur, e) : cur' = aut.out[cur][i].dst
      BY <3>1, <3>2, MoveFollowsEdge DEF FeedTypeOK
    <3> QED BY <3>1, <3>2, <3>3 DEF Successors
  <2>2. CASE UNCHANGED feed
    BY <2>2 DEF feed, WalkIsSound
  <2> QED BY <2>1, <2>2 DEF FeedNext
<1> QED BY <1>1, <1>2, FeedTypeCorrect, PTL DEF FeedSpec

(* On deterministic automata with conjunctive labels it is also complete.  *)
THEOREM Exactness == FeedSpec => []WalkIsExact
<1>1. FeedInit => WalkIsExact
  BY AutomataAssumption DEF FeedInit, WalkIsExact, IsAutomaton, Dead
<1>2. FeedTypeOK /\ WalkIsExact /\ [FeedNext]_feed => WalkIsExact'
  <2> SUFFICES ASSUME FeedTypeOK, WalkIsExact, [FeedNext]_feed,
                      (Deterministic(aut, Letter) /\ Conjunctive(aut))'
               PROVE  reach' = (IF cur' = Dead THEN {} ELSE {cur'})
    BY DEF WalkIsExact
  <2>1. ASSUME NEW e \in Letter, Feed(e)
        PROVE  reach' = (IF cur' = Dead THEN {} ELSE {cur'})
    <3>1. Deterministic(aut, Letter) /\ Conjunctive(aut)
      BY <2>1 DEF Feed
    <3>2. CASE cur = Dead
      BY <2>1, <3>1, <3>2 DEF Feed, WalkIsExact, Successors
    <3>3. CASE cur # Dead
      <4>1. reach = {cur} /\ cur \in FeedState
        BY <3>1, <3>3 DEF WalkIsExact, FeedTypeOK
      <4>2. IsAutomaton(aut, FeedState)
        BY DEF FeedTypeOK
      <4>3. /\ \A i, j \in Enabled(aut, cur, e) : i = j
            /\ Conjunctive(aut)
        BY <3>1, <4>1, <4>2 DEF Deterministic, IsAutomaton
      <4>4. Successors(aut, {cur}, e) =
              IF Move(aut, cur, e) = Dead THEN {} ELSE {Move(aut, cur, e)}
        <5>1. cur \in FeedState
          BY <4>1
        <5> QED BY <4>2, <4>3, <5>1, MoveIsOnlyMove, ZenonT(30)
      <4> QED BY <2>1, <3>3, <4>1, <4>4 DEF Feed
    <3> QED BY <3>2, <3>3
  <2>2. CASE UNCHANGED feed
    BY <2>2 DEF feed, WalkIsExact
  <2> QED BY <2>1, <2>2 DEF FeedNext
<1> QED BY <1>1, <1>2, FeedTypeCorrect, PTL DEF FeedSpec

-----------------------------------------------------------------------------
(* The requests of TraceServerRaces that lost no race.                     *)

(* The state a recorded walk has reached.                                  *)
Reached(A, v) == IF v = <<>> THEN A.init ELSE v[Len(v)]

(* The loop over the edges of q has passed the first n - 1 and met no hit; *)
(* it keeps the destination of the last TRUE edge.                         *)
Scanned(A, q, e, n, found, st) ==
    /\ \A i \in Hits(A, q, e) : i >= n
    /\ \/ ~ found /\ \A i \in Defaults(A, q) : i >= n
       \/ /\ found
          /\ \E d \in Defaults(A, q) :
               /\ d < n /\ st = A.out[q][d].dst
               /\ \A i \in Defaults(A, q) : i < n => i <= d

(* The locals of a walk at label l are those of the walk IsWalk describes. *)
OnCourse(l, A, tr, v, q, st, found, n) ==
    LET e == tr[Len(v) + 1] IN
    /\ l \in WalkLabels \cup {"judge"} => IsWalk(A, tr, v)
    /\ l = "next" => st = Reached(A, v)
    /\ l \in EdgeLabels \cup {"edge", "settle"} => q = Reached(A, v)
    /\ l \in EdgeLabels \cup {"edge"} => Scanned(A, q, e, n, found, st)
    /\ l \in {"setEvents", "allCond", "ifCond"} => ~ IsTrueCond(A.out[q][n])
    /\ l = "settle" => Move(A, q, e) = IF found THEN st ELSE Dead
    /\ l = "judge" => IsWholeWalk(A, tr, v)

(* The statics hold what the thread's own callbacks left there.            *)
StaticsOK(t) ==
    /\ pc[t] = "ifTrue" => is_true_cond_res = IsTrueCond(Edge(t))
    /\ pc[t] = "allCond" => check_cond_events = t
    /\ pc[t] = "ifCond" =>
         check_cond_res = CheckCond(Aut(t), Edge(t), Event(t))

(* The properties of fs before the n-th whose automaton accepts tr.        *)
Violated(fs, n, tr) ==
    {i \in DOMAIN fs : i < n /\ Verdict(AutomatonOf[fs[i]], tr)}

(* A request that lost no race is on course, and right so far.             *)
Clean(t) ==
    /\ pc[t] \in {"idle", "find", "copy"} =>
         violations[t] = {} /\ at[t] = 1
    /\ t \notin disturbed =>
         /\ pc[t] \in WalkLabels \cup {"judge"} =>
              OnCourse(pc[t], Aut(t), trace[t], visited[t], src[t], s[t],
                       sat[t], edge[t])
         /\ StaticsOK(t)
         /\ pc[t] \in WalkLabels \cup {"lock", "judge"} =>
              violations[t] = Violated(list[t], at[t], trace[t])
         /\ pc[t] = "replySubmit" /\ status[t] = "OK" =>
              violations[t] = Violated(list[t], Len(list[t]) + 1, trace[t])

-----------------------------------------------------------------------------
(* The verdict of a walk.                                                  *)

(* A whole walk, continued with Dead, is the sequence of states WalkTo     *)
(* computes.                                                               *)
LEMMA WholeWalkEnds ==
    ASSUME NEW E, NEW tr \in Seq(E), NEW S, NEW v \in Seq(S), NEW A,
           IsWholeWalk(A, tr, v)
    PROVE  WalkTo(A, tr) = IF Len(v) = Len(tr) THEN Reached(A, v) ELSE Dead
<1> DEFINE N == Len(tr)
           m == Len(v)
           step(st, e) == IF st = Dead THEN Dead ELSE Move(A, st, e)
           f == [n \in 0 .. N |-> IF n = 0 THEN A.init
                                  ELSE IF n <= m THEN v[n] ELSE Dead]
           eq(g) == [n \in 0 .. N |-> IF n = 0 THEN A.init
                                      ELSE step(g[n - 1], tr[n])]
<1>1. N \in Nat /\ m \in Nat /\ m <= N
  BY DEF IsWholeWalk, IsWalk
<1>2. m < N => m # 0 /\ v[m] = Dead
  BY <1>1 DEF IsWholeWalk
<1>3. f[0] = A.init /\ \A n \in 1 .. N : f[n] = IF n <= m THEN v[n] ELSE Dead
  BY <1>1
<1>4. ASSUME NEW n \in 1 .. N PROVE f[n] = step(f[n - 1], tr[n])
  <2> HIDE DEF f, step
  <2>1. CASE n <= m
    <3>1. n \in 1 .. m /\ n - 1 \in 0 .. N
      BY <1>1, <2>1
    <3>2. f[n - 1] = IF n = 1 THEN A.init ELSE v[n - 1]
      BY <1>1, <1>3, <2>1
    <3>3. f[n - 1] # Dead /\ v[n] = Move(A, f[n - 1], tr[n])
      BY <3>1, <3>2 DEF IsWholeWalk, IsWalk
    <3> QED BY <1>3, <2>1, <3>3 DEF step
  <2>2. CASE n > m
    <3>1. f[n - 1] = Dead
      BY <1>1, <1>2, <1>3, <2>2
    <3>2. f[n] = Dead
      BY <1>1, <1>3, <2>2
    <3> QED BY <3>1, <3>2 DEF step
  <2> QED BY <1>1, <2>1, <2>2
<1>5. f = eq(f)
  <2>1. ASSUME NEW n \in 0 .. N
        PROVE  f[n] = IF n = 0 THEN A.init ELSE step(f[n - 1], tr[n])
    <3> HIDE DEF f, step
    <3>1. CASE n = 0
      BY <1>3, <3>1
    <3>2. CASE n # 0
      <4>1. n \in 1 .. N
        BY <1>1, <3>2
      <4> QED BY <1>4, <3>2, <4>1
    <3> QED BY <3>1, <3>2
  <2>2. f = [n \in 0 .. N |-> f[n]]
    OBVIOUS
  <2> HIDE DEF f, step
  <2> QED BY <2>1, <2>2
<1> DEFINE after == CHOOSE g : g = eq(g)
<1>6. after = eq(after)
  BY <1>5
<1>7. WalkTo(A, tr) = after[N]
  BY DEF WalkTo
<1> HIDE DEF f, after
<1>8. /\ after[0] = A.init
      /\ \A n \in 1 .. N : after[n] = step(after[n - 1], tr[n])
  <2>1. eq(after)[0] = A.init
    BY <1>1
  <2>2. \A n \in 1 .. N : eq(after)[n] = step(after[n - 1], tr[n])
    BY <1>1
  <2> HIDE DEF eq
  <2> QED BY <1>6, <2>1, <2>2
<1> HIDE DEF step, eq
<1>9. \A n \in 0 .. N : after[n] = f[n]
  <2> DEFINE T == {n \in 0 .. N : after[n] # f[n]}
  <2> SUFFICES ASSUME T # {} PROVE FALSE
    OBVIOUS
  <2>1. T \in SUBSET Nat
    OBVIOUS
  <2>2. PICK n \in T : \A y \in T : n <= y
    <3> HIDE DEF T
    <3> QED BY <2>1, LeastElement
  <2>3. n # 0
    BY <1>3, <1>8
  <2>4. n \in 1 .. N /\ n - 1 \in 0 .. N /\ ~ (n <= n - 1)
    BY <1>1, <2>3
  <2>5. after[n - 1] = f[n - 1]
    BY <2>2, <2>4
  <2> QED BY <1>4, <1>8, <2>4, <2>5
<1>10. WalkTo(A, tr) = f[N]
  BY <1>1, <1>7, <1>9
<1>11. CASE m = N
  <2>1. f[N] = IF N = 0 THEN A.init ELSE v[N]
    BY <1>1, <1>3, <1>11
  <2>2. v = <<>> <=> m = 0
    OBVIOUS
  <2> QED BY <1>10, <1>11, <2>1, <2>2 DEF Reached
<1>12. CASE m # N
  <2>1. f[N] = Dead
    BY <1>1, <1>3, <1>12
  <2> QED BY <1>10, <1>12, <2>1
<1> QED BY <1>11, <1>12

(* SubmitTrace's test of the recorded states is the verdict.               *)
LEMMA AcceptsIsVerdict ==
    ASSUME NEW E, NEW tr \in Seq(E), NEW S, NEW v \in Seq(S \cup {Dead}),
           NEW A, IsAutomaton(A, S), IsWholeWalk(A, tr, v)
    PROVE  Accepts(A, v) <=> Verdict(A, tr)
<1>1. Dead \notin A.acc
  BY DEF IsAutomaton, Dead
<1>2. WalkTo(A, tr) = IF Len(v) = Len(tr) THEN Reached(A, v) ELSE Dead
  BY WholeWalkEnds
<1>3. Len(v) \in Nat /\ Len(tr) \in Nat /\ (v = <<>> <=> Len(v) = 0)
      /\ (tr = <<>> <=> Len(tr) = 0)
  OBVIOUS
<1>4. CASE Len(v) = Len(tr)
  BY <1>2, <1>3, <1>4 DEF Accepts, Verdict, Reached
<1>5. CASE Len(v) # Len(tr)
  <2>1. v # <<>> /\ v[Len(v)] = Dead
    BY <1>5 DEF IsWholeWalk
  <2> QED BY <1>1, <1>2, <1>5, <2>1 DEF Accepts, Verdict
<1> QED BY <1>4, <1>5

(* The next greedy move continues a walk.                                  *)
LEMMA WalkGrows ==
    ASSUME NEW E, NEW tr \in Seq(E), NEW S, NEW v \in Seq(S),
           NEW A, IsWalk(A, tr, v), Len(v) < Len(tr), Reached(A, v) # Dead,
           NEW st \in S, st = Move(A, Reached(A, v), tr[Len(v) + 1])
    PROVE  /\ IsWalk(A, tr, Append(v, st)) /\ Append(v, st) # <<>>
           /\ Reached(A, Append(v, st)) = st
<1> DEFINE m == Len(v)
           w == Append(v, st)
<1>1. m \in Nat /\ Len(tr) \in Nat /\ m + 1 <= Len(tr)
  OBVIOUS
<1>2. Len(w) = m + 1 /\ w[m + 1] = st /\ \A n \in 1 .. m : w[n] = v[n]
  OBVIOUS
<1>3. w # <<>>
  BY <1>1, <1>2
<1>4. Reached(A, v) = IF m = 0 THEN A.init ELSE v[m]
  BY DEF Reached
<1> HIDE DEF w, m
<1>5. ASSUME NEW n \in 1 .. Len(w)
      PROVE  LET from == IF n = 1 THEN A.init ELSE w[n - 1]
             IN  from # Dead /\ w[n] = Move(A, from, tr[n])
  <2>1. CASE n = m + 1
    <3>1. (IF n = 1 THEN A.init ELSE w[n - 1]) = Reached(A, v)
      BY <1>1, <1>2, <1>4, <2>1
    <3> QED BY <1>2, <2>1, <3>1 DEF m
  <2>2. CASE n # m + 1
    <3>1. n \in 1 .. m /\ w[n] = v[n]
      BY <1>1, <1>2, <2>2
    <3>2. (IF n = 1 THEN A.init ELSE w[n - 1])
            = (IF n = 1 THEN A.init ELSE v[n - 1])
      BY <1>1, <1>2, <3>1
    <3> QED BY <3>1, <3>2 DEF IsWalk, m
  <2> QED BY <2>1, <2>2
<1>6. IsWalk(A, tr, w)
  BY <1>1, <1>2, <1>5 DEF IsWalk
<1>7. Reached(A, w) = st
  BY <1>2, <1>3 DEF Reached
<1> QED BY <1>3, <1>6, <1>7 DEF w

-----------------------------------------------------------------------------
(* The loop over the edges of a state.                                     *)

(* A TRUE edge becomes the default.                                        *)
LEMMA TrueEdge ==
    ASSUME NEW A, NEW q, NEW e, NEW n \in Nat, NEW found, NEW st,
           Hits(A, q, e) \subseteq Nat, Defaults(A, q) \subseteq Nat,
           Scanned(A, q, e, n, found, st),
           n \in DOMAIN A.out[q], IsTrueCond(A.out[q][n])
    PROVE  Scanned(A, q, e, n + 1, TRUE, A.out[q][n].dst)
<1>1. n \notin Hits(A, q, e) /\ n \in Defaults(A, q)
  BY DEF Hits, Defaults
<1>2. \A i \in Hits(A, q, e) : i >= n + 1
  <2> TAKE i \in Hits(A, q, e)
  <2>1. i \in Nat /\ i >= n /\ i # n
    BY <1>1 DEF Scanned
  <2> QED BY <2>1
<1>3. \A i \in Defaults(A, q) : i < n + 1 => i <= n
  <2> TAKE i \in Defaults(A, q)
  <2>1. i \in Nat
    OBVIOUS
  <2> QED BY <2>1
<1>4. n < n + 1
  OBVIOUS
<1> QED BY <1>1, <1>2, <1>3, <1>4 DEF Scanned

(* An edge that is neither TRUE nor satisfied is passed over.              *)
LEMMA MissedEdge ==
    ASSUME NEW A, NEW q, NEW e, NEW n \in Nat, NEW found, NEW st,
           Hits(A, q, e) \subseteq Nat, Defaults(A, q) \subseteq Nat,
           Scanned(A, q, e, n, found, st),
           ~ IsTrueCond(A.out[q][n]), ~ CheckCond(A, A.out[q][n], e)
    PROVE  Scanned(A, q, e, n + 1, found, st)
<1>1. n \notin Hits(A, q, e) /\ n \notin Defaults(A, q)
  BY DEF Hits, Defaults
<1>2. \A i \in Nat : i # n => (i >= n => i >= n + 1) /\ (i < n + 1 => i < n)
  OBVIOUS
<1>3. \A i \in Nat : i < n => i < n + 1
  OBVIOUS
<1>4. \A i \in Hits(A, q, e) : i >= n + 1
  BY <1>1, <1>2 DEF Scanned
<1>5. CASE ~ found /\ \A i \in Defaults(A, q) : i >= n
  <2>1. \A i \in Defaults(A, q) : i >= n + 1
    BY <1>1, <1>2, <1>5
  <2> QED BY <1>4, <1>5, <2>1 DEF Scanned
<1>6. ASSUME found, NEW d \in Defaults(A, q), d < n, st = A.out[q][d].dst,
             \A i \in Defaults(A, q) : i < n => i <= d
      PROVE  Scanned(A, q, e, n + 1, found, st)
  <2>1. d < n + 1
    BY <1>3, <1>6
  <2>2. \A i \in Defaults(A, q) : i < n + 1 => i <= d
    BY <1>1, <1>2, <1>6
  <2> QED BY <1>4, <1>6, <2>1, <2>2 DEF Scanned
<1> QED BY <1>5, <1>6 DEF Scanned

(* A satisfied edge ends the scan: it is the first hit.                    *)
LEMMA HitEdge ==
    ASSUME NEW A, NEW q, NEW e, NEW n \in Nat, NEW found, NEW st,
           Hits(A, q, e) \subseteq Nat,
           Scanned(A, q, e, n, found, st), n \in DOMAIN A.out[q],
           ~ IsTrueCond(A.out[q][n]), CheckCond(A, A.out[q][n], e)
    PROVE  Move(A, q, e) = A.out[q][n].dst
<1>1. n \in Hits(A, q, e)
  BY DEF Hits
<1>2. Min(Hits(A, q, e)) \in Hits(A, q, e) /\ Min(Hits(A, q, e)) <= n
  BY <1>1, MinIsLeast
<1>3. Min(Hits(A, q, e)) \in Nat /\ Min(Hits(A, q, e)) >= n
  BY <1>2 DEF Scanned
<1>4. Min(Hits(A, q, e)) = n
  BY <1>2, <1>3
<1> QED BY <1>1, <1>4 DEF Move

(* Without a hit the last TRUE edge is taken, if there is one.             *)
LEMMA LastEdge ==
    ASSUME NEW A, NEW q, NEW e, NEW n \in Nat, NEW found \in BOOLEAN, NEW st,
           Len(A.out[q]) \in Nat, DOMAIN A.out[q] = 1 .. Len(A.out[q]),
           Scanned(A, q, e, n, found, st), n > Len(A.out[q])
    PROVE  Move(A, q, e) = IF found THEN st ELSE Dead
<1>1. \A i \in DOMAIN A.out[q] : i < n /\ ~ (i >= n)
  OBVIOUS
<1>2. Hits(A, q, e) = {}
  BY <1>1 DEF Scanned, Hits
<1>3. CASE ~ found
  <2>1. Defaults(A, q) = {}
    BY <1>1, <1>3 DEF Scanned, Defaults
  <2> QED BY <1>2, <1>3, <2>1 DEF Move
<1>4. CASE found
  <2>1. PICK d \in Defaults(A, q) :
          st = A.out[q][d].dst /\ \A i \in Defaults(A, q) : i < n => i <= d
    BY <1>4 DEF Scanned
  <2>2. Defaults(A, q) \in SUBSET (0 .. Len(A.out[q]))
    BY DEF Defaults
  <2>3. /\ Max(Defaults(A, q)) \in Defaults(A, q)
        /\ Max(Defaults(A, q)) >= d
    BY <2>1, <2>2, MaxIsGreatest
  <2>4. Max(Defaults(A, q)) <= d
    BY <1>1, <2>1, <2>3 DEF Defaults
  <2>5. Max(Defaults(A, q)) = d
    BY <2>2, <2>3, <2>4
  <2> QED BY <1>2, <1>4, <2>1, <2>5 DEF Move
<1> QED BY <1>3, <1>4

-----------------------------------------------------------------------------
(* The submits that lost no race.                                          *)

(* Which statics a step may overwrite, by where its thread is.             *)
LEMMA StaticsFrame ==
    ASSUME NEW t \in Thread, Step(t)
    PROVE  /\ pc[t] # "allTrue" => is_true_cond_res' = is_true_cond_res
           /\ pc[t] # "setEvents" => check_cond_events' = check_cond_events
           /\ pc[t] # "allCond" => check_cond_res' = check_cond_res
<1> USE DEF statics
<1>1. CASE PrepareStep(t)
  BY <1>1 DEF PrepareStep, Prepare, GenerateUUID, LockStorage, InsertSession,
              LoadProperty, RejectProperty, Prepared, ReplyPrepare
<1>2. CASE \/ Submit(t) \/ Find(t) \/ NotFound(t) \/ CopyList(t)
           \/ LockAutomaton(t) \/ Judge(t) \/ Judged(t) \/ ReplySubmit(t)
           \/ Crash(t)
  BY <1>2 DEF Submit, Find, NotFound, CopyList, LockAutomaton, Judge, Judged,
              ReplySubmit, Crash
<1>3. CASE WalkStep(t)
  BY <1>3 DEF WalkStep, NextEvent, EndOfTrace, NextEdge, TrueCallback, IfTrue,
              SetEvents, CondCallback, IfCond, Settle, DeadEnd
<1> QED BY <1>1, <1>2, <1>3 DEF Step, SubmitStep

(* A step of another thread spoils a walk only through the statics, and    *)
(* then it is recorded.                                                    *)
LEMMA BystanderClean ==
    ASSUME RequestTypes, WalkTypes, NEW t \in Thread, RacesStep(t),
           NEW x \in Thread \ {t}, Clean(x)
    PROVE  Clean(x)'
<1>1. Step(t) /\ Bystander(x)
  BY Bystanders DEF RacesStep
<1>2. CASE pc'[x] = "dead"
  BY <1>2 DEF Clean, StaticsOK, WalkLabels
<1>3. CASE pc'[x] = pc[x]
  <2>1. /\ Aut(x)' = Aut(x) /\ Edge(x)' = Edge(x) /\ Event(x)' = Event(x)
    BY <1>1 DEF Bystander, Aut, Edge, Edges, Event
  <2>2. x \notin disturbed' => x \notin disturbed
    BY DEF RacesStep
  <2>3. ASSUME x \notin disturbed', StaticsOK(x) PROVE StaticsOK(x)'
    <3>1. \/ pc[t] = "replySubmit" \/ x \notin Victims(t)
      BY <2>3 DEF RacesStep
    <3>2. pc[x] = "ifTrue" => is_true_cond_res' = is_true_cond_res
      BY <1>1, <3>1, StaticsFrame DEF Victims
    <3>3. pc[x] = "allCond" => check_cond_events' = check_cond_events
      BY <1>1, <3>1, StaticsFrame DEF Victims
    <3>4. pc[x] = "ifCond" => check_cond_res' = check_cond_res
      BY <1>1, <3>1, StaticsFrame DEF Victims
    <3> QED BY <1>3, <2>1, <2>3, <3>2, <3>3, <3>4 DEF StaticsOK
  <2>4. OnCourse(pc[x], Aut(x), trace[x], visited[x], src[x], s[x],
                 sat[x], edge[x])'
          = OnCourse(pc[x], Aut(x), trace[x], visited[x], src[x], s[x],
                     sat[x], edge[x])
    BY <1>1, <1>3, <2>1 DEF Bystander
  <2>5. /\ violations'[x] = violations[x] /\ at'[x] = at[x]
        /\ status'[x] = status[x]
        /\ Violated(list[x], at[x], trace[x])'
             = Violated(list[x], at[x], trace[x])
        /\ Violated(list[x], Len(list[x]) + 1, trace[x])'
             = Violated(list[x], Len(list[x]) + 1, trace[x])
    BY <1>1 DEF Bystander
  <2> QED BY <1>3, <2>2, <2>3, <2>4, <2>5 DEF Clean
<1> QED BY <1>1, <1>2, <1>3 DEF Bystander

(* The edges of the state a walking thread scans.                          *)
LEMMA ScanPlace ==
    ASSUME RequestTypes, WalkTypes, NEW t \in Thread, Control(t),
           pc[t] \in EdgeLabels \cup {"edge", "settle"}
    PROVE  /\ IsAutomaton(Aut(t), State)
           /\ src[t] \in State
           /\ edge[t] \in Nat
           /\ sat[t] \in BOOLEAN
           /\ Len(Aut(t).out[src[t]]) \in Nat
           /\ DOMAIN Aut(t).out[src[t]] = 1 .. Len(Aut(t).out[src[t]])
           /\ Hits(Aut(t), src[t], Event(t)) \subseteq Nat
           /\ Defaults(Aut(t), src[t]) \subseteq Nat
           /\ pc[t] \in EdgeLabels => edge[t] \in DOMAIN Aut(t).out[src[t]]
<1>1. src[t] \in State /\ pc[t] \in WalkLabels
  BY DEF Control, EdgeLabels, WalkLabels
<1>2. /\ IsAutomaton(Aut(t), State)
      /\ Len(Edges(t)) \in Nat
      /\ DOMAIN Edges(t) = 1 .. Len(Edges(t))
  BY <1>1, WalkPlace
<1>3. pc[t] \in EdgeLabels => edge[t] \in DOMAIN Edges(t)
  BY DEF Control
<1>4. edge[t] \in Nat /\ sat[t] \in BOOLEAN
  BY DEF WalkTypes
<1>5. /\ Hits(Aut(t), src[t], Event(t)) \subseteq DOMAIN Edges(t)
      /\ Defaults(Aut(t), src[t]) \subseteq DOMAIN Edges(t)
  BY DEF Hits, Defaults, Edges
<1>6. DOMAIN Edges(t) \subseteq Nat
  BY <1>2
<1> QED BY <1>1, <1>2, <1>3, <1>4, <1>5, <1>6 DEF Edges

(* A walking thread's locals.                                              *)
Here(t) == OnCourse(pc[t], Aut(t), trace[t], visited[t], src[t], s[t],
                    sat[t], edge[t])

(* The steps of the loop over the events.                                  *)
LEMMA EventLoopClean ==
    ASSUME RequestTypes, WalkTypes, NEW t \in Thread, Control(t), Here(t),
           NextEvent(t) \/ EndOfTrace(t) \/ Settle(t) \/ DeadEnd(t)
    PROVE  Here(t)'
<1> USE DEF RequestTypes, WalkTypes, request, reply, Goto
<1>1. /\ list' = list /\ at' = at /\ trace' = trace /\ Aut(t)' = Aut(t)
  BY DEF NextEvent, EndOfTrace, Settle, DeadEnd, Aut
<1> DEFINE A == Aut(t)
           tr == trace[t]
           v == visited[t]
           e == tr[Len(v) + 1]
<1>2. IsWalk(A, tr, v)
  BY DEF Here, OnCourse, NextEvent, EndOfTrace, Settle, DeadEnd, WalkLabels
<1>3. IsAutomaton(A, State)
  BY WalkPlace DEF NextEvent, EndOfTrace, Settle, DeadEnd, WalkLabels
<1>4. tr \in Seq(Word) /\ v \in Seq(State \cup {Dead})
  OBVIOUS
<1>5. CASE NextEvent(t)
  <2>1. s[t] = Reached(A, v) /\ s[t] \in State
    BY <1>5 DEF NextEvent, Here, OnCourse, Control, Walking, WalkLabels
  <2>2. /\ pc'[t] = "edge" /\ src'[t] = s[t] /\ sat'[t] = FALSE
        /\ edge'[t] = 1 /\ s'[t] = s[t] /\ visited'[t] = v
    BY <1>5 DEF NextEvent, Reset, FirstEdge
  <2>3. DOMAIN A.out[s[t]] = 1 .. Len(A.out[s[t]]) /\ Len(A.out[s[t]]) \in Nat
    BY <1>3, <2>1 DEF IsAutomaton
  <2>4. \A i \in DOMAIN A.out[s[t]] : i >= 1
    BY <2>3
  <2>5. Scanned(A, s[t], e, 1, FALSE, s[t])
    BY <2>4 DEF Scanned, Hits, Defaults
  <2>6. OnCourse("edge", A, tr, v, s[t], s[t], FALSE, 1)
    BY <1>2, <2>1, <2>5 DEF OnCourse, EdgeLabels
  <2> QED BY <1>1, <2>2, <2>6 DEF Here
<1>6. CASE EndOfTrace(t)
  <2>1. pc'[t] = "judge" /\ UNCHANGED walk /\ Len(v) >= Len(tr)
    BY <1>6 DEF EndOfTrace
  <2>2. Len(v) = Len(tr)
    BY <1>2, <1>4, <2>1 DEF IsWalk
  <2>3. IsWholeWalk(A, tr, v)
    BY <1>2, <2>2 DEF IsWholeWalk
  <2>4. OnCourse("judge", A, tr, v, src[t], s[t], sat[t], edge[t])
    BY <1>2, <2>3 DEF OnCourse, EdgeLabels
  <2> QED BY <1>1, <2>1, <2>4 DEF Here, walk
<1>7. ASSUME pc[t] = "settle"
      PROVE  /\ Move(A, src[t], e) = (IF sat[t] THEN s[t] ELSE Dead)
             /\ src[t] = Reached(A, v) /\ src[t] # Dead
             /\ Len(v) < Len(tr)
  <2>1. src[t] \in State /\ Len(v) < Len(tr)
    BY <1>7 DEF Control
  <2>2. src[t] # Dead
    BY <1>3, <2>1 DEF IsAutomaton, Dead
  <2> QED BY <1>7, <2>1, <2>2 DEF Here, OnCourse
<1>8. ASSUME pc[t] = "settle", NEW st \in State \cup {Dead},
             st = Move(A, src[t], e)
      PROVE  /\ IsWalk(A, tr, Append(v, st)) /\ Append(v, st) # <<>>
             /\ Reached(A, Append(v, st)) = st
  <2> HIDE DEF A, tr, v, e
  <2>1. src[t] = Reached(A, v) /\ src[t] # Dead /\ Len(v) < Len(tr)
    BY <1>7, <1>8
  <2>2. st = Move(A, Reached(A, v), tr[Len(v) + 1])
    BY <1>8, <2>1 DEF e
  <2>3. Reached(A, v) # Dead
    BY <2>1
  <2> DEFINE R == State \cup {Dead}
  <2>4. tr \in Seq(Word) /\ v \in Seq(R) /\ st \in R
    BY <1>4, <1>8
  <2>5. IsWalk(A, tr, v) /\ Len(v) < Len(tr)
    BY <1>2, <2>1
  <2> HIDE DEF R, RequestTypes, WalkTypes, request, reply, Goto
  <2> QED BY <2>2, <2>3, <2>4, <2>5, WalkGrows
<1>9. CASE Settle(t)
  <2>1. pc[t] = "settle" /\ sat[t] /\ s[t] \in State
    BY <1>9 DEF Settle, Control, Walking, WalkLabels
  <2>2. s[t] = Move(A, src[t], e)
    BY <1>7, <2>1
  <2>3. pc'[t] = "next" /\ visited'[t] = Append(v, s[t])
        /\ s' = s /\ src' = src /\ sat' = sat /\ edge' = edge
    BY <1>9 DEF Settle
  <2>4. /\ IsWalk(A, tr, Append(v, s[t]))
        /\ Reached(A, Append(v, s[t])) = s[t]
    BY <1>8, <2>1, <2>2
  <2>5. OnCourse("next", A, tr, Append(v, s[t]), src[t], s[t], sat[t],
                 edge[t])
    BY <2>4 DEF OnCourse, EdgeLabels
  <2> QED BY <1>1, <2>3, <2>5 DEF Here
<1>10. CASE DeadEnd(t)
  <2>1. pc[t] = "settle" /\ ~ sat[t]
    BY <1>10 DEF DeadEnd
  <2>2. Dead = Move(A, src[t], e)
    BY <1>7, <2>1
  <2>3. pc'[t] = "judge" /\ visited'[t] = Append(v, Dead)
        /\ s' = s /\ src' = src /\ sat' = sat /\ edge' = edge
    BY <1>10 DEF DeadEnd, DeadRecorded
  <2>4. /\ IsWalk(A, tr, Append(v, Dead))
        /\ Reached(A, Append(v, Dead)) = Dead
    BY <1>8, <2>1, <2>2
  <2>5. Append(v, Dead) # <<>>
    BY <1>8, <2>1, <2>2
  <2>6. IsWholeWalk(A, tr, Append(v, Dead))
    BY <2>4, <2>5 DEF IsWholeWalk, Reached
  <2>7. OnCourse("judge", A, tr, Append(v, Dead), src[t], s[t], sat[t],
                 edge[t])
    BY <2>4, <2>6 DEF OnCourse, EdgeLabels
  <2> QED BY <1>1, <2>3, <2>7 DEF Here
<1> QED BY <1>5, <1>6, <1>9, <1>10

(* The steps of the loop over the edges, as long as the statics the walk   *)
(* reads are its own.                                                      *)
LEMMA EdgeLoopClean ==
    ASSUME RequestTypes, WalkTypes, NEW t \in Thread, Control(t), Here(t),
           StaticsOK(t),
           \/ NextEdge(t) \/ TrueCallback(t) \/ IfTrue(t) \/ SetEvents(t)
           \/ CondCallback(t) \/ IfCond(t)
    PROVE  Here(t)'
<1> USE DEF RequestTypes, WalkTypes, request, reply, Goto
<1> DEFINE A == Aut(t)
           tr == trace[t]
           v == visited[t]
           e == tr[Len(v) + 1]
           q == src[t]
           n == edge[t]
<1>1. /\ A' = A /\ tr' = tr /\ v' = v /\ q' = q
  BY DEF NextEdge, TrueCallback, IfTrue, SetEvents, CondCallback, IfCond, Aut
<1>2. /\ IsWalk(A, tr, v) /\ q = Reached(A, v)
      /\ pc[t] \in EdgeLabels \cup {"edge"}
      /\ Scanned(A, q, e, n, sat[t], s[t])
  BY DEF Here, OnCourse, NextEdge, TrueCallback, IfTrue, SetEvents,
         CondCallback, IfCond, EdgeLabels, WalkLabels
<1>3. /\ n \in Nat /\ sat[t] \in BOOLEAN
      /\ Len(A.out[q]) \in Nat /\ DOMAIN A.out[q] = 1 .. Len(A.out[q])
      /\ Hits(A, q, e) \subseteq Nat /\ Defaults(A, q) \subseteq Nat
      /\ pc[t] \in EdgeLabels => n \in DOMAIN A.out[q]
  BY <1>2, ScanPlace DEF Event
<1>4. /\ Edge(t) = A.out[q][n] /\ Edges(t) = A.out[q] /\ Event(t) = e
  BY DEF Edge, Edges, Event
<1>5. ASSUME NEW l \in {"edge", "allTrue", "ifTrue"}, NEW found, NEW st,
             NEW k, Scanned(A, q, e, k, found, st)
      PROVE  OnCourse(l, A, tr, v, q, st, found, k)
  BY <1>2, <1>5 DEF OnCourse, EdgeLabels
<1>6. ASSUME NEW l \in {"setEvents", "allCond", "ifCond"},
             ~ IsTrueCond(A.out[q][n])
      PROVE  OnCourse(l, A, tr, v, q, s[t], sat[t], n)
  BY <1>2, <1>6 DEF OnCourse, EdgeLabels
<1>7. ASSUME NEW found, NEW st, NEW k,
             Move(A, q, e) = (IF found THEN st ELSE Dead)
      PROVE  OnCourse("settle", A, tr, v, q, st, found, k)
  BY <1>2, <1>7 DEF OnCourse, EdgeLabels
<1>8. pc[t] \in {"setEvents", "allCond", "ifCond"} =>
        ~ IsTrueCond(A.out[q][n])
  BY DEF Here, OnCourse
<1>9. CASE NextEdge(t)
  <2>1. UNCHANGED <<s, sat, edge>>
    BY <1>9 DEF NextEdge
  <2>2. CASE n <= Len(A.out[q])
    <3>1. pc'[t] = "allTrue"
      BY <1>4, <1>9, <2>2 DEF NextEdge
    <3>2. OnCourse("allTrue", A, tr, v, q, s[t], sat[t], n)
      BY <1>2, <1>5
    <3> HIDE DEF A, tr, v, q, n
    <3> QED BY <1>1, <2>1, <3>1, <3>2 DEF Here, A, tr, v, q, n
  <2>3. CASE ~ (n <= Len(A.out[q]))
    <3>1. pc'[t] = "settle"
      BY <1>4, <1>9, <2>3 DEF NextEdge
    <3>2. n > Len(A.out[q])
      BY <1>3, <2>3
    <3>3. Move(A, q, e) = IF sat[t] THEN s[t] ELSE Dead
      <4> DEFINE found == sat[t]
                 st == s[t]
      <4>1. /\ n \in Nat /\ found \in BOOLEAN
            /\ Len(A.out[q]) \in Nat
            /\ DOMAIN A.out[q] = 1 .. Len(A.out[q])
            /\ Scanned(A, q, e, n, found, st) /\ n > Len(A.out[q])
        BY <1>2, <1>3, <3>2
      <4> HIDE DEF A, e, q, n, found, st, RequestTypes, WalkTypes
      <4>2. Move(A, q, e) = IF found THEN st ELSE Dead
        BY <4>1, LastEdge, ZenonT(30)
      <4> QED BY <4>2 DEF found, st
    <3>4. OnCourse("settle", A, tr, v, q, s[t], sat[t], n)
      BY <1>7, <3>3
    <3> HIDE DEF A, tr, v, q, n
    <3> QED BY <1>1, <2>1, <3>1, <3>4 DEF Here, A, tr, v, q, n
  <2> QED BY <2>2, <2>3
<1>10. CASE TrueCallback(t)
  <2>1. UNCHANGED <<s, sat, edge>> /\ pc'[t] \in {"allTrue", "ifTrue"}
    BY <1>10 DEF TrueCallback
  <2>2. OnCourse(pc'[t], A, tr, v, q, s[t], sat[t], n)
    BY <1>2, <1>5, <2>1
  <2> HIDE DEF A, tr, v, q, n
  <2> QED BY <1>1, <2>1, <2>2 DEF Here, A, tr, v, q, n
<1>11. CASE IfTrue(t) /\ is_true_cond_res
  <2>1. /\ pc'[t] = "edge" /\ sat'[t] = TRUE /\ s'[t] = A.out[q][n].dst
        /\ edge'[t] = n + 1
    BY <1>4, <1>11 DEF IfTrue, TakeDefault
  <2>2. IsTrueCond(A.out[q][n]) /\ n \in DOMAIN A.out[q]
    BY <1>3, <1>4, <1>11 DEF IfTrue, StaticsOK, EdgeLabels
  <2>3. Scanned(A, q, e, n + 1, TRUE, A.out[q][n].dst)
    <3> HIDE DEF A, e, q, n
    <3> QED BY <1>2, <1>3, <2>2, TrueEdge
  <2>4. OnCourse("edge", A, tr, v, q, A.out[q][n].dst, TRUE, n + 1)
    BY <1>5, <2>3
  <2> HIDE DEF A, tr, v, q, n
  <2> QED BY <1>1, <2>1, <2>4 DEF Here, A, tr, v, q
<1>12. CASE IfTrue(t) /\ ~ is_true_cond_res
  <2>1. UNCHANGED <<s, sat, edge>> /\ pc'[t] = "setEvents"
    BY <1>12 DEF IfTrue
  <2>2. ~ IsTrueCond(A.out[q][n])
    BY <1>4, <1>12 DEF IfTrue, StaticsOK
  <2>3. OnCourse("setEvents", A, tr, v, q, s[t], sat[t], n)
    BY <1>6, <2>2
  <2> HIDE DEF A, tr, v, q, n
  <2> QED BY <1>1, <2>1, <2>3 DEF Here, A, tr, v, q, n
<1>13. CASE SetEvents(t) \/ CondCallback(t)
  <2>1. /\ UNCHANGED <<s, sat, edge>> /\ pc'[t] \in {"allCond", "ifCond"}
        /\ pc[t] \in {"setEvents", "allCond"}
    BY <1>13 DEF SetEvents, CondCallback
  <2>2. OnCourse(pc'[t], A, tr, v, q, s[t], sat[t], n)
    BY <1>6, <1>8, <2>1
  <2> HIDE DEF A, tr, v, q, n
  <2> QED BY <1>1, <2>1, <2>2 DEF Here, A, tr, v, q, n
<1>14. CASE IfCond(t) /\ check_cond_res
  <2>1. /\ pc'[t] = "settle" /\ sat'[t] = TRUE /\ s'[t] = A.out[q][n].dst
        /\ edge'[t] = n
    BY <1>4, <1>14 DEF IfCond, TakeDefault
  <2>2. /\ CheckCond(A, A.out[q][n], e) /\ ~ IsTrueCond(A.out[q][n])
        /\ n \in DOMAIN A.out[q]
    BY <1>3, <1>4, <1>8, <1>14 DEF IfCond, StaticsOK, EdgeLabels
  <2>3. Move(A, q, e) = A.out[q][n].dst
    <3> DEFINE found == sat[t]
               st == s[t]
    <3>1. Scanned(A, q, e, n, found, st)
      BY <1>2
    <3> HIDE DEF A, e, q, n, found, st
    <3> QED BY <1>3, <2>2, <3>1, HitEdge
  <2>4. OnCourse("settle", A, tr, v, q, A.out[q][n].dst, TRUE, n)
    BY <1>7, <2>3
  <2> HIDE DEF A, tr, v, q, n
  <2> QED BY <1>1, <2>1, <2>4 DEF Here, A, tr, v, q
<1>15. CASE IfCond(t) /\ ~ check_cond_res
  <2>1. /\ pc'[t] = "edge" /\ UNCHANGED <<s, sat>> /\ edge'[t] = n + 1
    BY <1>15 DEF IfCond
  <2>2. ~ CheckCond(A, A.out[q][n], e) /\ ~ IsTrueCond(A.out[q][n])
    BY <1>4, <1>8, <1>15 DEF IfCond, StaticsOK
  <2>3. Scanned(A, q, e, n + 1, sat[t], s[t])
    <3> HIDE DEF A, e, q, n
    <3> QED BY <1>2, <1>3, <2>2, MissedEdge
  <2>4. OnCourse("edge", A, tr, v, q, s[t], sat[t], n + 1)
    BY <1>5, <2>3
  <2> HIDE DEF A, tr, v, q, n
  <2> QED BY <1>1, <2>1, <2>4 DEF Here, A, tr, v, q
<1> QED BY <1>9, <1>10, <1>11, <1>12, <1>13, <1>14, <1>15

(* The callbacks of an undisturbed walk leave it the results it expects.   *)
LEMMA OwnStatics ==
    ASSUME RequestTypes, WalkTypes, NEW t \in Thread, Control(t), WalkStep(t),
           StaticsOK(t)
    PROVE  StaticsOK(t)'
<1> USE DEF RequestTypes, WalkTypes, request, reply, Goto
<1> DEFINE last == Len(Edge(t).label)
<1>1. ASSUME pc[t] \in EdgeLabels, UNCHANGED <<list, at, trace, visited, src>>,
             UNCHANGED edge
      PROVE  /\ Aut(t)' = Aut(t) /\ Event(t)' = Event(t)
             /\ Edge(t)' = Edge(t)
  BY <1>1 DEF Aut, Event, Edge, Edges
<1>2. ASSUME pc[t] \in {"allTrue", "allCond"}
      PROVE  last \in Nat /\ cube[t] \in 1 .. last
  <2>1. /\ src[t] \in State /\ pc[t] \in WalkLabels
        /\ edge[t] \in DOMAIN Edges(t) /\ cube[t] \in DOMAIN Edge(t).label
    BY <1>2 DEF Control, EdgeLabels, WalkLabels
  <2> QED BY <2>1, WalkPlace DEF Edge
<1>3. CASE TrueCallback(t)
  <2>1. /\ pc[t] = "allTrue" /\ pc'[t] \in {"allTrue", "ifTrue"}
        /\ pc'[t] = "ifTrue" => ~ (cube[t] < last)
        /\ is_true_cond_res' = CubeTrue(Edge(t).label[cube[t]])
    BY <1>3 DEF TrueCallback
  <2>2. Edge(t)' = Edge(t)
    BY <1>1, <1>3, <2>1 DEF TrueCallback, EdgeLabels
  <2>3. pc'[t] = "ifTrue" => cube[t] = last
    BY <1>2, <2>1
  <2> QED BY <2>1, <2>2, <2>3 DEF StaticsOK, IsTrueCond, LastCube
<1>4. CASE SetEvents(t)
  BY <1>4 DEF SetEvents, StaticsOK
<1>5. CASE CondCallback(t)
  <2>1. /\ pc[t] = "allCond" /\ pc'[t] \in {"allCond", "ifCond"}
        /\ pc'[t] = "ifCond" => ~ (cube[t] < last)
        /\ check_cond_events' = t
    BY <1>5 DEF CondCallback, StaticsOK
  <2>2. check_cond_res' = CubeHolds(Edge(t).label[cube[t]],
                                    EventIndices(Aut(t), Event(t)))
    BY <1>5, <2>1 DEF CondCallback, StaticsOK, FrameLives
  <2>3. /\ Aut(t)' = Aut(t) /\ Event(t)' = Event(t) /\ Edge(t)' = Edge(t)
    BY <1>1, <1>5, <2>1 DEF CondCallback, EdgeLabels
  <2>4. pc'[t] = "ifCond" => cube[t] = last
    BY <1>2, <2>1
  <2> QED BY <2>1, <2>2, <2>3, <2>4 DEF StaticsOK, CheckCond, LastCube
<1>6. CASE NextEvent(t) \/ EndOfTrace(t) \/ Settle(t) \/ DeadEnd(t)
  BY <1>6 DEF NextEvent, EndOfTrace, Settle, DeadEnd, StaticsOK
<1>7. CASE NextEdge(t) \/ IfTrue(t) \/ IfCond(t)
  BY <1>7 DEF NextEdge, IfTrue, IfCond, StaticsOK
<1> QED BY <1>3, <1>4, <1>5, <1>6, <1>7 DEF WalkStep

(* Judging: the recorded states are a whole walk, so their acceptance is   *)
(* the verdict, and the properties before the next one are decided.        *)
LEMMA JudgeClean ==
    ASSUME RequestTypes, WalkTypes, NEW t \in Thread, Control(t), Here(t),
           Judge(t), violations[t] = Violated(list[t], at[t], trace[t])
    PROVE  violations'[t] = Violated(list[t], at[t], trace[t])'
<1> USE DEF RequestTypes, WalkTypes, request
<1> DEFINE fs == list[t]
           n == at[t]
           tr == trace[t]
<1>1. /\ list' = list /\ trace' = trace /\ at'[t] = n + 1
      /\ n \in Nat /\ n \in DOMAIN fs
      /\ violations'[t] = IF Accepts(Aut(t), visited[t])
                            THEN Violated(fs, n, tr) \cup {n}
                            ELSE Violated(fs, n, tr)
  BY DEF Judge, Control
<1>2. Accepts(Aut(t), visited[t]) <=> Verdict(Aut(t), tr)
  <2>1. IsWholeWalk(Aut(t), tr, visited[t])
    BY DEF Judge, Here, OnCourse
  <2>2. IsAutomaton(Aut(t), State)
    BY WalkPlace DEF Judge
  <2>3. tr \in Seq(Word) /\ visited[t] \in Seq(State \cup {Dead})
    OBVIOUS
  <2> QED BY <2>1, <2>2, <2>3, AcceptsIsVerdict
<1>3. \A i \in DOMAIN fs : i < n + 1 <=> i < n \/ i = n
  <2>1. fs \in Seq(Name)
    OBVIOUS
  <2>2. \A i \in DOMAIN fs : i \in Nat
    BY <2>1
  <2> QED BY <1>1, <2>2
<1>4. Aut(t) = AutomatonOf[fs[n]]
  BY DEF Aut
<1>5. Violated(fs, n + 1, tr) = IF Verdict(AutomatonOf[fs[n]], tr)
                                  THEN Violated(fs, n, tr) \cup {n}
                                  ELSE Violated(fs, n, tr)
  <2> HIDE DEF fs, n, tr
  <2> QED BY <1>1, <1>3 DEF Violated
<1> QED BY <1>1, <1>2, <1>4, <1>5

(* A step of the thread itself.                                            *)
LEMMA OwnClean ==
    ASSUME RequestTypes, WalkTypes, Inv', NEW t \in Thread, Control(t),
           RacesStep(t), Clean(t)
    PROVE  Clean(t)'
<1> USE DEF RequestTypes, WalkTypes, Goto
<1>1. Step(t)
  BY DEF RacesStep
<1>2. pc[t] # "replySubmit" /\ t \notin disturbed' => t \notin disturbed
  BY DEF RacesStep
<1>3. CASE WalkStep(t)
  <2>1. /\ UNCHANGED <<uuid, list, trace, at, violations, status>>
        /\ pc[t] \in WalkLabels /\ pc'[t] \in WalkLabels \cup {"judge"}
    BY <1>3, WalkFrame DEF request, reply
  <2> SUFFICES ASSUME t \notin disturbed'
               PROVE  /\ Here(t)' /\ StaticsOK(t)'
                      /\ violations'[t] = Violated(list[t], at[t], trace[t])'
    BY <2>1 DEF Clean, Here, WalkLabels
  <2>2. /\ Here(t) /\ StaticsOK(t)
        /\ violations[t] = Violated(list[t], at[t], trace[t])
    BY <1>2, <2>1 DEF Clean, Here, WalkLabels
  <2>3. Here(t)'
    BY <1>3, <2>2, EventLoopClean, EdgeLoopClean DEF WalkStep
  <2>4. StaticsOK(t)'
    BY <1>3, <2>2, OwnStatics
  <2> QED BY <2>1, <2>2, <2>3, <2>4
<1>4. CASE Judge(t)
  <2>1. pc[t] = "judge" /\ pc'[t] = "lock"
    BY <1>4 DEF Judge
  <2> SUFFICES ASSUME t \notin disturbed'
               PROVE  violations'[t] = Violated(list[t], at[t], trace[t])'
    BY <2>1 DEF Clean, StaticsOK, WalkLabels
  <2>2. Here(t) /\ violations[t] = Violated(list[t], at[t], trace[t])
    BY <1>2, <2>1 DEF Clean, Here
  <2> QED BY <1>4, <2>2, JudgeClean
<1>5. CASE LockAutomaton(t)
  <2>1. /\ pc[t] = "lock" /\ pc'[t] = "next"
        /\ visited'[t] = <<>> /\ s'[t] = Aut(t).init
        /\ UNCHANGED <<list, trace, at, violations, status>>
    BY <1>5 DEF LockAutomaton, request, reply
  <2>2. Aut(t)' = Aut(t)
    BY <2>1 DEF Aut
  <2>3. trace[t] \in Seq(Word)
    OBVIOUS
  <2>4. Len(<<>>) = 0 /\ Len(trace[t]) \in Nat /\ 1 .. 0 = {}
    BY <2>3
  <2>5. IsWalk(Aut(t), trace[t], <<>>)
    BY <2>4 DEF IsWalk
  <2>6. OnCourse("next", Aut(t), trace[t], <<>>, src'[t], Aut(t).init,
                 sat'[t], edge'[t])
    BY <2>5 DEF OnCourse, Reached, EdgeLabels
  <2> SUFFICES ASSUME t \notin disturbed'
               PROVE  violations'[t] = Violated(list[t], at[t], trace[t])'
    BY <2>1, <2>2, <2>6 DEF Clean, StaticsOK
  <2> QED BY <1>2, <2>1 DEF Clean
<1>6. CASE CopyList(t)
  <2>1. /\ pc[t] = "copy" /\ pc'[t] = "lock"
        /\ violations'[t] = {} /\ at'[t] = 1
    BY <1>6 DEF CopyList, reply, Clean
  <2>2. list'[t] \in Seq(Name)
    <3>1. RequestTypes'
      BY DEF Inv
    <3>2. list' \in [Thread -> Seq(Name)]
      BY <3>1
    <3> QED BY <3>2
  <2>3. \A i \in DOMAIN list'[t] : ~ (i < 1)
    BY <2>2
  <2>4. Violated(list'[t], 1, trace'[t]) = {}
    BY <2>3 DEF Violated
  <2> QED BY <2>1, <2>4 DEF Clean, StaticsOK, WalkLabels
<1>7. CASE Judged(t)
  <2>1. /\ pc[t] = "lock" /\ pc'[t] = "replySubmit" /\ at[t] > Len(list[t])
        /\ UNCHANGED <<list, trace, at, violations, status>>
    BY <1>7 DEF Judged, request, reply
  <2> SUFFICES ASSUME t \notin disturbed'
               PROVE  violations'[t] = Violated(list[t], Len(list[t]) + 1,
                                                trace[t])'
    BY <2>1 DEF Clean, StaticsOK, WalkLabels
  <2>2. violations[t] = Violated(list[t], at[t], trace[t])
    BY <1>2, <2>1 DEF Clean
  <2>3. list[t] \in Seq(Name) /\ at[t] \in Nat
    OBVIOUS
  <2>4. \A i \in DOMAIN list[t] : i < at[t] /\ i < Len(list[t]) + 1
    BY <2>1, <2>3
  <2>5. Violated(list[t], at[t], trace[t])
          = Violated(list[t], Len(list[t]) + 1, trace[t])
    BY <2>4 DEF Violated
  <2> QED BY <2>1, <2>2, <2>5
<1>8. CASE NotFound(t)
  BY <1>8 DEF NotFound, Clean, StaticsOK, WalkLabels
<1>9. CASE Submit(t) \/ Find(t)
  <2>1. /\ pc'[t] \in {"find", "copy"}
        /\ violations'[t] = {} /\ at'[t] = 1
    BY <1>9 DEF Submit, Find, Clean, reply
  <2> QED BY <2>1 DEF Clean, StaticsOK, WalkLabels
<1>10. CASE ReplySubmit(t) \/ ReplyPrepare(t)
  <2>1. Forget(t)
    BY <1>10 DEF ReplySubmit, ReplyPrepare
  <2>2. pc'[t] = "idle" /\ violations'[t] = {} /\ at'[t] = 1
    BY <2>1 DEF Forget
  <2> QED BY <2>2 DEF Clean, StaticsOK, WalkLabels
<1>11. CASE PrepareStep(t) /\ ~ ReplyPrepare(t)
  <2>1. pc'[t] \in PrepareLabels
    <3>1. CASE LoadProperty(t)
      BY <3>1 DEF LoadProperty, PrepareLabels
    <3>2. CASE ~ LoadProperty(t)
      BY <1>11, <3>2
         DEF PrepareStep, Prepare, GenerateUUID, LockStorage, InsertSession,
             RejectProperty, Prepared, PrepareLabels
    <3> QED BY <3>1, <3>2
  <2> QED BY <2>1 DEF Clean, StaticsOK, WalkLabels, PrepareLabels
<1>12. CASE Crash(t)
  BY <1>12 DEF Crash, Clean, StaticsOK, WalkLabels
<1> QED BY <1>1, <1>3, <1>4, <1>5, <1>6, <1>7, <1>8, <1>9, <1>10, <1>11,
           <1>12 DEF Step, SubmitStep

-----------------------------------------------------------------------------
(* The races are a history: without them the server is the same.           *)
LEMMA RacesAreHistory == RacesSpec => Spec
<1>1. RacesInit => Init
  BY DEF RacesInit
<1>2. [RacesNext]_<<vars, disturbed>> => [Next]_vars
  BY DEF RacesNext, RacesStep, Next
<1> QED BY <1>1, <1>2, PTL DEF RacesSpec, Spec

(* The requests that lost no race are right at every point.                *)
LEMMA AllClean == RacesSpec => [](\A t \in Thread : Clean(t))
<1> DEFINE C == \A t \in Thread : Clean(t)
<1>1. RacesInit => C
  BY DEF RacesInit, Init, Clean, StaticsOK, WalkLabels
<1>2. Inv /\ Inv' /\ C /\ [RacesNext]_<<vars, disturbed>> => C'
  <2> SUFFICES ASSUME Inv, Inv', C, [RacesNext]_<<vars, disturbed>>,
                      NEW x \in Thread
               PROVE  Clean(x)'
    OBVIOUS
  <2>1. ASSUME NEW t \in Thread, RacesStep(t) PROVE Clean(x)'
    <3>1. CASE x = t
      BY <2>1, <3>1, OwnClean DEF Inv
    <3>2. CASE x # t
      BY <2>1, <3>2, BystanderClean DEF Inv
    <3> QED BY <3>1, <3>2
  <2>2. CASE UNCHANGED <<vars, disturbed>>
    BY <2>2 DEF vars, locks, statics, world, request, reply, walk, Clean,
                StaticsOK, Aut, Edge, Edges, Event
  <2> QED BY <2>1, <2>2 DEF RacesNext, Rest
<1>3. RacesSpec => []Inv
  BY RacesAreHistory, Invariance, PTL
<1> HIDE DEF C
<1>4. RacesSpec => []C
  BY <1>1, <1>2, <1>3, PTL DEF RacesSpec
<1> QED BY <1>4 DEF C

(* Only the three overlaps of Victims can make a report wrong, for any     *)
(* number of threads, sessions, formulas and traces: whatever else happens *)
(* at the same time, a submit that lost none of these races reports the    *)
(* properties whose automaton accepts its trace (SubmitTrace,              *)
(* model_check_events).                                                    *)
THEOREM RacesAlone == RacesSpec => []OnlyRacesMislead
<1> DEFINE C == \A t \in Thread : Clean(t)
<1>1. Inv /\ C => OnlyRacesMislead
  <2> SUFFICES ASSUME Inv, C, NEW t \in Thread \ disturbed,
                      pc[t] = "replySubmit", status[t] = "OK"
               PROVE  violations[t]
                        = {i \in DOMAIN list[t] :
                             Verdict(AutomatonOf[list[t][i]], trace[t])}
    BY DEF OnlyRacesMislead
  <2>1. violations[t] = Violated(list[t], Len(list[t]) + 1, trace[t])
    BY DEF Clean
  <2>2. list[t] \in Seq(Name)
    BY DEF Inv, RequestTypes
  <2>3. \A i \in DOMAIN list[t] : i < Len(list[t]) + 1
    BY <2>2
  <2> QED BY <2>1, <2>3 DEF Violated
<1> HIDE DEF C
<1>2. RacesSpec => []C
  BY AllClean DEF C
<1> QED BY <1>1, <1>2, RacesAreHistory, Invariance, PTL
=============================================================================

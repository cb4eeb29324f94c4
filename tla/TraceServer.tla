----------------------------- MODULE TraceServer -----------------------------
(***************************************************************************)
(* The gRPC trace evaluator (src/src/grpc, src/src/automata).  Every       *)
(* request runs on a thread of the gRPC pool: PrepareLTLProperties opens a *)
(* session with one Automata object per property, SubmitTrace walks a      *)
(* trace through the objects of a session.  An object is protected by its  *)
(* mutex mtx_ and the session map by storage_mutex, which not every reader *)
(* takes; the results of the bdd_allsat callbacks and the events they look *)
(* at are file-static, shared by the walks of all objects.                 *)
(***************************************************************************)
EXTENDS BuchiWalk, FiniteSets

CONSTANTS Thread,        \* threads of the gRPC server
          Uuid,          \* session identifiers generateUUID may return
          Stranger,      \* a session identifier this server never issued
          AutomatonOf,   \* the automaton of every well-formed formula
          State,         \* state numbers of those automata
          Requests,      \* the property lists clients prepare
          Traces,        \* the traces clients submit
          MaxRequests    \* bound: requests served in one behaviour

Formula == DOMAIN AutomatonOf
Name    == UNION {Range(r) : r \in Requests}   \* what clients call formulas
Word    == UNION {Range(tr) : tr \in Traces}   \* the events they submit
NoFrame == "none"        \* check_cond_events before its first assignment

ASSUME ServerAssumption ==
    /\ Stranger \notin Uuid
    /\ NoFrame \notin Thread
    /\ \A f \in Formula : IsAutomaton(AutomatonOf[f], State)
    /\ Requests \subseteq Seq(Name)
    /\ Traces \subseteq Seq(Word)
    /\ MaxRequests \in Nat

VARIABLES
    storage,            \* uuid |-> the formulas of the session's objects
    storage_mutex,      \* the threads that hold it
    mtx,                \* the objects <<uuid, index>> whose mutex is held
    is_true_cond_res, check_cond_res, check_cond_events,   \* file statics
    known,              \* clients: uuid |-> the property list they sent
    served,             \* requests accepted so far
    pc, uuid, list, trace,        \* of each thread: the request it serves
    at, violations, status,       \* ... its place in list, the reply so far
    visited, src, s, sat, edge, cube   \* ... locals of model_check_events

statics == <<is_true_cond_res, check_cond_res, check_cond_events>>
locks   == <<storage_mutex, mtx>>
world   == <<known, served>>
request == <<uuid, list, trace>>
reply   == <<at, violations, status>>
walk    == <<visited, src, s, sat, edge, cube>>
vars    == <<storage, locks, statics, world, pc, request, reply, walk>>

Goto(t, l) == pc' = [pc EXCEPT ![t] = l]

(* The object a submitting thread is at, its automaton, event and edge.    *)
Object(t) == <<uuid[t], at[t]>>
Aut(t)    == AutomatonOf[list[t][at[t]]]
Event(t)  == trace[t][Len(visited[t]) + 1]
Edges(t)  == Aut(t).out[src[t]]
Edge(t)   == Edges(t)[edge[t]]

Init == /\ storage = <<>> /\ known = <<>>
        /\ storage_mutex = {} /\ mtx = {}
        /\ is_true_cond_res = FALSE /\ check_cond_res = FALSE
        /\ check_cond_events = NoFrame
        /\ served = 0
        /\ pc = [t \in Thread |-> "idle"]
        /\ uuid = [t \in Thread |-> Stranger]
        /\ list = [t \in Thread |-> <<>>] /\ trace = [t \in Thread |-> <<>>]
        /\ at = [t \in Thread |-> 1]
        /\ violations = [t \in Thread |-> {}]
        /\ status = [t \in Thread |-> "OK"]
        /\ visited = [t \in Thread |-> <<>>]
        /\ src = [t \in Thread |-> 0] /\ s = [t \in Thread |-> 0]
        /\ sat = [t \in Thread |-> FALSE]
        /\ edge = [t \in Thread |-> 1] /\ cube = [t \in Thread |-> 1]

-----------------------------------------------------------------------------
(* PrepareLTLProperties                                                    *)

(* Bound: no more sessions than the model has identifiers.                 *)
Opening == {x \in Thread : pc[x] \in {"generate", "insert", "inserting"}}

SessionsLeft ==
    Cardinality(DOMAIN storage) + Cardinality(Opening) < Cardinality(Uuid)

Prepare(t) ==
    /\ pc[t] = "idle" /\ served < MaxRequests /\ SessionsLeft
    /\ served' = served + 1
    /\ \E r \in Requests : list' = [list EXCEPT ![t] = r]
    /\ Goto(t, "generate")
    /\ UNCHANGED <<storage, locks, statics, known, uuid, trace,
                   reply, walk>>

(* Mutant: what generateUUID returns may already be another request's.     *)
Unstored(t) == Uuid \ DOMAIN storage

(* The do-while loop leaves with an identifier the map does not hold.      *)
(* random_device returns 128 fresh bits: no other request has drawn them.  *)
Fresh(t) == {u \in Uuid \ DOMAIN storage : \A x \in Thread \ {t} : uuid[x] # u}

GenerateUUID(t) ==
    /\ pc[t] = "generate"
    /\ \E u \in Fresh(t) : uuid' = [uuid EXCEPT ![t] = u]
    /\ Goto(t, "insert")
    /\ UNCHANGED <<storage, locks, statics, world, list, trace, reply, walk>>

LockStorage(t) ==
    /\ pc[t] = "insert" /\ storage_mutex = {}
    /\ storage_mutex' = {t}
    /\ Goto(t, "inserting")
    /\ UNCHANGED <<storage, mtx, statics, world, request, reply, walk>>

Opened(t) == [u \in DOMAIN storage \cup {uuid[t]} |->
                IF u = uuid[t] THEN <<>> ELSE storage[u]]

(* storage[uuid] = a new, still empty list; unlock.                        *)
InsertSession(t) ==
    /\ pc[t] = "inserting"
    /\ storage' = Opened(t)
    /\ storage_mutex' = {}
    /\ Goto(t, "load")
    /\ UNCHANGED <<mtx, statics, world, request, reply, walk>>

(* set_formula finds no error.                                             *)
Parses(f) == f \in Formula

(* A new Automata takes the next formula and joins the published list...   *)
LoadProperty(t) ==
    /\ pc[t] = "load" /\ at[t] <= Len(list[t])
    /\ Parses(list[t][at[t]])
    /\ storage' = [storage EXCEPT ![uuid[t]] = Append(@, list[t][at[t]])]
    /\ at' = [at EXCEPT ![t] = @ + 1]
    /\ UNCHANGED <<locks, statics, world, pc, request, violations, status,
                   walk>>

(* ... or set_formula throws and the session stays behind, half loaded.    *)
RejectProperty(t) ==
    /\ pc[t] = "load" /\ at[t] <= Len(list[t])
    /\ ~ Parses(list[t][at[t]])
    /\ status' = [status EXCEPT ![t] = "INVALID_ARGUMENT"]
    /\ Goto(t, "replyPrepare")
    /\ UNCHANGED <<storage, locks, statics, world, request, at, violations,
                   walk>>

(* All loaded; the debug loop over the map changes nothing.                *)
Prepared(t) ==
    /\ pc[t] = "load" /\ at[t] > Len(list[t])
    /\ Goto(t, "replyPrepare")
    /\ UNCHANGED <<storage, locks, statics, world, request, reply, walk>>

(* Back to the pool: the locals of the request are gone.                   *)
Forget(t) ==
    /\ Goto(t, "idle")
    /\ uuid' = [uuid EXCEPT ![t] = Stranger]
    /\ list' = [list EXCEPT ![t] = <<>>]
    /\ trace' = [trace EXCEPT ![t] = <<>>]
    /\ at' = [at EXCEPT ![t] = 1]
    /\ violations' = [violations EXCEPT ![t] = {}]
    /\ status' = [status EXCEPT ![t] = "OK"]

Succeeded(t) == status[t] = "OK"

(* The client learns the identifier, unless its 3 second deadline passed.  *)
ReplyPrepare(t) ==
    /\ pc[t] = "replyPrepare"
    /\ \/ /\ Succeeded(t)
          /\ known' = [u \in DOMAIN known \cup {uuid[t]} |->
                         IF u = uuid[t] THEN list[t] ELSE known[u]]
       \/ UNCHANGED known
    /\ Forget(t)
    /\ UNCHANGED <<storage, locks, statics, served, walk>>

-----------------------------------------------------------------------------
(* SubmitTrace                                                             *)

Submit(t) ==
    /\ pc[t] = "idle" /\ served < MaxRequests
    /\ served' = served + 1
    /\ \E u \in DOMAIN known \cup {Stranger}, tr \in Traces :
         /\ uuid' = [uuid EXCEPT ![t] = u]
         /\ trace' = [trace EXCEPT ![t] = tr]
    /\ Goto(t, "find")
    /\ UNCHANGED <<storage, locks, statics, known, list, reply, walk>>

(* t reads the map without the mutex while another thread rebalances it.   *)
MapRace(t) == \E x \in Thread \ {t} : pc[x] = "inserting"

Find(t) ==
    /\ pc[t] = "find" /\ uuid[t] \in DOMAIN storage
    /\ Goto(t, "copy")
    /\ UNCHANGED <<storage, locks, statics, world, request, reply, walk>>

(* Not there - or missed, when the tree changes under the unlocked search. *)
NotFound(t) ==
    /\ pc[t] = "find"
    /\ uuid[t] \notin DOMAIN storage \/ MapRace(t)
    /\ status' = [status EXCEPT ![t] = "INVALID_ARGUMENT"]
    /\ Goto(t, "replySubmit")
    /\ UNCHANGED <<storage, locks, statics, world, request, at, violations,
                   walk>>

CopyList(t) ==
    /\ pc[t] = "copy" /\ storage_mutex = {}
    /\ list' = [list EXCEPT ![t] = storage[uuid[t]]]
    /\ Goto(t, "lock")
    /\ UNCHANGED <<storage, locks, statics, world, uuid, trace, reply, walk>>

(* Mutant: model_check_events without its lock_guard.                      *)
Unguarded(t) == TRUE

Unlocked(t) == Object(t) \notin mtx

(* model_check_events of the next object: lock_guard, initial state.       *)
LockAutomaton(t) ==
    /\ pc[t] = "lock" /\ at[t] <= Len(list[t])
    /\ Unlocked(t)
    /\ mtx' = mtx \cup {Object(t)}
    /\ visited' = [visited EXCEPT ![t] = <<>>]
    /\ s' = [s EXCEPT ![t] = Aut(t).init]
    /\ Goto(t, "next")
    /\ UNCHANGED <<storage, storage_mutex, statics, world, request, reply,
                   src, sat, edge, cube>>

(* Mutants: cond_sat is not reset; the edges are numbered from 0.          *)
Unreset(t) == sat
EdgeZero(t) == [edge EXCEPT ![t] = 0]

Reset(t) == [sat EXCEPT ![t] = FALSE]
FirstEdge(t) == [edge EXCEPT ![t] = 1]

(* The loop over the events; its end unlocks the object.                   *)
NextEvent(t) ==
    /\ pc[t] = "next" /\ Len(visited[t]) < Len(trace[t])
    /\ src' = [src EXCEPT ![t] = s[t]]
    /\ sat' = Reset(t)
    /\ edge' = FirstEdge(t)
    /\ Goto(t, "edge")
    /\ UNCHANGED <<storage, locks, statics, world, request, reply,
                   visited, s, cube>>

EndOfTrace(t) ==
    /\ pc[t] = "next" /\ Len(visited[t]) >= Len(trace[t])
    /\ mtx' = mtx \ {Object(t)}
    /\ Goto(t, "judge")
    /\ UNCHANGED <<storage, storage_mutex, statics, world, request, reply,
                   walk>>

(* The loop over the edges of the state the event finds.                   *)
NextEdge(t) ==
    /\ pc[t] = "edge"
    /\ cube' = [cube EXCEPT ![t] = 1]
    /\ Goto(t, IF edge[t] <= Len(Edges(t)) THEN "allTrue" ELSE "settle")
    /\ UNCHANGED <<storage, locks, statics, world, request, reply,
                   visited, src, s, sat, edge>>

(* is_true_cond: one callback per cube, each overwriting the static ...    *)
TrueCallback(t) ==
    /\ pc[t] = "allTrue"
    /\ is_true_cond_res' = CubeTrue(Edge(t).label[cube[t]])
    /\ cube' = [cube EXCEPT ![t] = @ + 1]
    /\ Goto(t, IF cube[t] < Len(Edge(t).label) THEN "allTrue" ELSE "ifTrue")
    /\ UNCHANGED <<storage, locks, check_cond_res, check_cond_events, world,
                   request, reply, visited, src, s, sat, edge>>

TakeDefault(t) ==
    /\ sat' = [sat EXCEPT ![t] = TRUE]
    /\ s' = [s EXCEPT ![t] = Edge(t).dst]

(* ... which is read back: a TRUE edge is taken for now.                   *)
IfTrue(t) ==
    /\ pc[t] = "ifTrue"
    /\ IF is_true_cond_res
         THEN /\ TakeDefault(t)
              /\ edge' = [edge EXCEPT ![t] = @ + 1]
              /\ Goto(t, "edge")
         ELSE /\ Goto(t, "setEvents")
              /\ UNCHANGED <<s, sat, edge>>
    /\ UNCHANGED <<storage, locks, statics, world, request, reply,
                   visited, src, cube>>

(* check_cond: the static points to the set in this call's frame ...       *)
SetEvents(t) ==
    /\ pc[t] = "setEvents"
    /\ check_cond_events' = t
    /\ cube' = [cube EXCEPT ![t] = 1]
    /\ Goto(t, "allCond")
    /\ UNCHANGED <<storage, locks, is_true_cond_res, check_cond_res, world,
                   request, reply, visited, src, s, sat, edge>>

(* ... and the callbacks follow the pointer, whosever frame it is now in.  *)
(* What they read in a frame that is gone is anything.                     *)
FrameLives(x) == pc[x] \in {"allCond", "ifCond"}

CondCallback(t) ==
    /\ pc[t] = "allCond"
    /\ LET x == check_cond_events IN
       \/ /\ FrameLives(x)
          /\ check_cond_res' = CubeHolds(Edge(t).label[cube[t]],
                                         EventIndices(Aut(x), Event(x)))
       \/ /\ ~ FrameLives(x)
          /\ check_cond_res' \in BOOLEAN
    /\ cube' = [cube EXCEPT ![t] = @ + 1]
    /\ Goto(t, IF cube[t] < Len(Edge(t).label) THEN "allCond" ELSE "ifCond")
    /\ UNCHANGED <<storage, locks, is_true_cond_res, check_cond_events, world,
                   request, reply, visited, src, s, sat, edge>>

(* A satisfied edge ends the scan.                                         *)
IfCond(t) ==
    /\ pc[t] = "ifCond"
    /\ IF check_cond_res
         THEN /\ TakeDefault(t)
              /\ Goto(t, "settle")
              /\ UNCHANGED edge
         ELSE /\ edge' = [edge EXCEPT ![t] = @ + 1]
              /\ Goto(t, "edge")
              /\ UNCHANGED <<s, sat>>
    /\ UNCHANGED <<storage, locks, statics, world, request, reply,
                   visited, src, cube>>

(* The event led to a state, or to a dead end that leaves the loop.        *)
Settle(t) ==
    /\ pc[t] = "settle" /\ sat[t]
    /\ visited' = [visited EXCEPT ![t] = Append(@, s[t])]
    /\ Goto(t, "next")
    /\ UNCHANGED <<storage, locks, statics, world, request, reply,
                   src, s, sat, edge, cube>>

DeadRecorded(t) == [visited EXCEPT ![t] = Append(@, Dead)]

DeadEnd(t) ==
    /\ pc[t] = "settle" /\ ~ sat[t]
    /\ visited' = DeadRecorded(t)
    /\ mtx' = mtx \ {Object(t)}
    /\ Goto(t, "judge")
    /\ UNCHANGED <<storage, storage_mutex, statics, world, request, reply,
                   src, s, sat, edge, cube>>

(* Mutant: the loop over the list does not advance.                        *)
JudgeAgain(t) ==
    /\ pc[t] = "judge"
    /\ violations' = IF Accepts(Aut(t), visited[t])
                       THEN [violations EXCEPT ![t] = @ \cup {at[t]}]
                       ELSE violations
    /\ Goto(t, "lock")
    /\ UNCHANGED <<storage, locks, statics, world, request, at, status, walk>>

(* seen_accepting, last_accepting and last_state of the recorded states;   *)
(* back() of an empty vector is undefined, see Crash, or goes unused.      *)
Judge(t) ==
    /\ pc[t] = "judge"
    /\ violations' = IF Accepts(Aut(t), visited[t])
                       THEN [violations EXCEPT ![t] = @ \cup {at[t]}]
                       ELSE violations
    /\ at' = [at EXCEPT ![t] = @ + 1]
    /\ Goto(t, "lock")
    /\ UNCHANGED <<storage, locks, statics, world, request, status, walk>>

Judged(t) ==
    /\ pc[t] = "lock" /\ at[t] > Len(list[t])
    /\ Goto(t, "replySubmit")
    /\ UNCHANGED <<storage, locks, statics, world, request, reply, walk>>

ReplySubmit(t) ==
    /\ pc[t] = "replySubmit"
    /\ Forget(t)
    /\ visited' = [visited EXCEPT ![t] = <<>>]
    /\ src' = [src EXCEPT ![t] = 0] /\ s' = [s EXCEPT ![t] = 0]
    /\ sat' = [sat EXCEPT ![t] = FALSE]
    /\ edge' = [edge EXCEPT ![t] = 1] /\ cube' = [cube EXCEPT ![t] = 1]
    /\ UNCHANGED <<storage, locks, statics, known, served>>

-----------------------------------------------------------------------------
(* Undefined behaviour that can kill the process: an unlocked iteration or *)
(* search of a map in flux, a dangling pointer followed, back() of nothing *)
Crash(t) ==
    /\ \/ pc[t] \in {"generate", "find"} /\ MapRace(t)
       \/ pc[t] = "load" /\ at[t] > Len(list[t]) /\ MapRace(t)
       \/ pc[t] = "allCond" /\ ~ FrameLives(check_cond_events)
       \/ pc[t] = "judge" /\ visited[t] = <<>>
    /\ pc' = [x \in Thread |-> "dead"]
    /\ UNCHANGED <<storage, locks, statics, world, request, reply, walk>>

crashed == \E t \in Thread : pc[t] = "dead"

PrepareStep(t) ==
    \/ Prepare(t) \/ GenerateUUID(t) \/ LockStorage(t) \/ InsertSession(t)
    \/ LoadProperty(t) \/ RejectProperty(t) \/ Prepared(t) \/ ReplyPrepare(t)

WalkStep(t) ==
    \/ NextEvent(t) \/ EndOfTrace(t) \/ NextEdge(t) \/ TrueCallback(t)
    \/ IfTrue(t) \/ SetEvents(t) \/ CondCallback(t) \/ IfCond(t)
    \/ Settle(t) \/ DeadEnd(t)

SubmitStep(t) ==
    \/ Submit(t) \/ Find(t) \/ NotFound(t) \/ CopyList(t) \/ LockAutomaton(t)
    \/ WalkStep(t) \/ Judge(t) \/ Judged(t) \/ ReplySubmit(t)

Step(t) == PrepareStep(t) \/ SubmitStep(t) \/ Crash(t)

(* Bound: the model stops when MaxRequests are served.                     *)
Rest == /\ \/ crashed
           \/ served = MaxRequests /\ \A t \in Thread : pc[t] = "idle"
        /\ UNCHANGED vars

Next == (\E t \in Thread : Step(t)) \/ Rest

Spec == Init /\ [][Next]_vars

(* The operating system runs every thread that can run.                    *)
FairSpec == Spec /\ \A t \in Thread : WF_vars(Step(t))

-----------------------------------------------------------------------------
PrepareLabels == {"generate", "insert", "inserting", "load", "replyPrepare"}
WalkLabels    == {"next", "edge", "allTrue", "ifTrue", "setEvents", "allCond",
                  "ifCond", "settle"}
SubmitLabels  == {"find", "copy", "lock", "judge", "replySubmit"}
                   \cup WalkLabels
Walking(t)    == pc[t] \in WalkLabels

SessionTypes ==
    /\ DOMAIN storage \subseteq Uuid /\ DOMAIN known \subseteq Uuid
    /\ storage \in [DOMAIN storage -> Seq(Name \cap Formula)]
    /\ known \in [DOMAIN known -> Seq(Name)]
    /\ served \in 0 .. MaxRequests

SharedTypes ==
    /\ storage_mutex \subseteq Thread /\ mtx \subseteq (Uuid \X Nat)
    /\ is_true_cond_res \in BOOLEAN /\ check_cond_res \in BOOLEAN
    /\ check_cond_events \in Thread \cup {NoFrame}

RequestTypes ==
    /\ pc \in [Thread -> {"idle", "dead"} \cup PrepareLabels \cup SubmitLabels]
    /\ uuid \in [Thread -> Uuid \cup {Stranger}]
    /\ list \in [Thread -> Seq(Name)] /\ trace \in [Thread -> Seq(Word)]
    /\ at \in [Thread -> Nat \ {0}]
    /\ violations \in [Thread -> SUBSET (Nat \ {0})]
    /\ status \in [Thread -> {"OK", "INVALID_ARGUMENT"}]

WalkTypes ==
    /\ visited \in [Thread -> Seq(State \cup {Dead})]
    /\ src \in [Thread -> Nat] /\ s \in [Thread -> Nat]
    /\ sat \in [Thread -> BOOLEAN]
    /\ edge \in [Thread -> Nat \ {0}] /\ cube \in [Thread -> Nat \ {0}]

TypeOK == SessionTypes /\ SharedTypes /\ RequestTypes /\ WalkTypes

(* The mutex of an object keeps the walks of that object apart, although   *)
(* requests copy the list of objects and go through it on their own.       *)
ObjectExclusion ==
    \A t, x \in Thread :
        t # x /\ Walking(t) /\ Walking(x) => Object(t) # Object(x)

(* A session enters the map empty and is filled without the map's lock; no *)
(* trace is ever evaluated against less than what the client prepared.     *)
SessionIsWhole ==
    \A t \in Thread :
        pc[t] \in SubmitLabels \ {"find", "copy"} /\ status[t] = "OK"
            => uuid[t] \in DOMAIN known /\ list[t] = known[uuid[t]]

(* The report names exactly the properties whose automaton accepts the     *)
(* submitted trace (src/src/grpc/README.md, experiment/CS6215/README.md).  *)
ReportIsRight ==
    \A t \in Thread :
        pc[t] = "replySubmit" /\ status[t] = "OK"
            => violations[t] = {i \in DOMAIN list[t] :
                                  Verdict(AutomatonOf[list[t][i]], trace[t])}

(* A session identifier PrepareLTLProperties handed out is found again     *)
(* (proto/ltlfuzz.proto: uuid is the session's identifier).                *)
PreparedIsFound ==
    \A t \in Thread :
        pc[t] = "replySubmit" /\ status[t] # "OK" => uuid[t] = Stranger

(* The server survives every trace a client can send.                      *)
ServerSurvives == ~ crashed

(* No request waits for a lock forever: each is answered, or the process   *)
(* died.                                                                   *)
EveryRequestIsAnswered ==
    \A t \in Thread : pc[t] # "idle" ~> pc[t] = "idle" \/ crashed
=============================================================================

------------------------------ MODULE Campaign ------------------------------
(***************************************************************************)
(* A campaign of LTL-Fuzzer: the driver selects an automaton path, a       *)
(* prefix and an event, and runs the target on it, directly or through     *)
(* AFLGo; the targets evaluate their executions and store what they found  *)
(* in a table in shared memory (RERS) or in prefix files (protocols).      *)
(***************************************************************************)
EXTENDS TraceEval

CONSTANTS Program,        \* the program under test
          AllEvents,      \* all_events.txt
          Located,        \* the events that targets.txt has a location for
          Input,          \* what a program may read
          Tails,          \* what AFLGo appends to a prefix
          Seed,           \* the one initial seed
          Target,         \* process identifiers of executions
          Subjects,       \* the kinds of subject, with their faults
          Budget          \* bound: total_time_budget, in sessions

(* What all_events.txt and the formula may name.                           *)
Event == ({"i"} \X Input) \cup ({"o"} \X Nat)

InitPath == <<0>>                            \* the string "0,"
(* A subject: its kind, the automaton of the negated property, whose       *)
(* states Spot numbers from 0, whether its runs may be killed or outlive   *)
(* their session, and a bound on what AFLGo runs it on.                    *)
IsSubject(o) ==
    /\ o.protocol \in BOOLEAN /\ o.kills \in BOOLEAN /\ o.orphans \in BOOLEAN
    /\ o.reads \in Nat
    /\ IsAutomaton(o.aut, DOMAIN o.aut.out)
    /\ 0 \in DOMAIN o.aut.out /\ IsFiniteSet(DOMAIN o.aut.out)
    /\ \A v \in DOMAIN o.aut.ap : o.aut.ap[v] \in Event

(* A program reads any input in any of its states; one without an event    *)
(* leaves it alone.                                                        *)
ProgramStates(P) == {s[1] : s \in DOMAIN P.out}
IsProgram(P) ==
    LET S == ProgramStates(P)
    IN  /\ P.init \in S /\ P.eof \in Seq(Input)
        /\ P.next \in [S \X Input -> S] /\ P.out \in [S \X Input -> Nat]
        /\ \A s \in S, x \in Input :
              P.out[<<s, x>>] = 0 => P.next[<<s, x>>] = s


ASSUME CampaignAssumption ==
    /\ \A o \in Subjects : IsSubject(o)
    /\ Budget \in Nat
    /\ Located \subseteq AllEvents /\ AllEvents \subseteq Event
    /\ Seed \in Seq(Input) /\ Tails \subseteq Seq(Input)
    /\ IsProgram(Program)

VARIABLES
    opt,         \* the subject
    pc,          \* the driver's place
    table,       \* path -> prefixes: the shared table, or the files
    names,       \* of the objects constructed in the segment
    mutex,       \* of the segment: its holder, or "free"
    torn,        \* a tree of the table was left half linked
    init_run,
    sel,         \* the driver's selected path, prefix and event
    input,       \* the driver's input, which prefixes overwrite
    clock,
    proc         \* the executions

store  == <<table, names, mutex, torn>>
driver == <<pc, init_run, sel, input>>
vars   == <<opt, driver, store, clock, proc>>

aut        == opt.aut
Goto(l)    == pc' = l
NoPrefix   == <<>>
NoSel      == [path |-> InitPath, prefix |-> NoPrefix, event |-> <<>>]
Gone       == [at |-> "none", reads |-> <<>>, evaluated |-> 0,
               path |-> <<>>, prefix |-> NoPrefix, by |-> "none"]
Ended      == pc \in {"done", "failed", "undefined"}

(* An insertion may be seen half done, or was left so.                     *)
Linking == {"link", "insert"}
Unsettled == torn \/ \E t \in Target : proc[t].at \in Linking

(* insert_init_automata_path, or an empty prefix directory.                *)
Init ==
    /\ opt \in Subjects
    /\ pc = "select"
    /\ table = IF opt.protocol THEN [p \in {} |-> {}]
               ELSE [p \in {InitPath} |-> {NoPrefix}]
    /\ names = IF opt.protocol THEN {} ELSE {InitPath}
    /\ mutex = "free" /\ torn = FALSE
    /\ init_run = TRUE /\ sel = NoSel /\ input = Seed
    /\ clock = 0
    /\ proc = [t \in Target |-> Gone]

-----------------------------------------------------------------------------
(* The driver: LTLFuzzer::fuzz.                                            *)

BudgetUsed ==
    /\ pc = "select" /\ clock = Budget
    /\ Goto("done")
    /\ UNCHANGED <<opt, init_run, sel, input, store, clock,
                   proc>>

Candidates == {p \in DOMAIN table : p # InitPath /\ ~ init_run}

(* select_automata_path; begin() of the table is the initial path.         *)
SelectPath ==
    /\ pc = "select" /\ clock < Budget /\ ~ opt.protocol
    /\ init_run' = IF Candidates = {} THEN FALSE ELSE init_run
    /\ IF Unsettled THEN Goto("undefined") /\ UNCHANGED sel
       ELSE /\ \E p \in IF Candidates = {} THEN {InitPath} ELSE Candidates :
                  sel' = [sel EXCEPT !.path = p]
            /\ Goto("copy")
    /\ UNCHANGED <<opt, input, store, clock, proc>>

(* select_prefix copies the map of the path into the segment, under the    *)
(* segment's mutex, and chooses among its prefixes.                        *)
SelectPrefix ==
    /\ pc = "copy" /\ mutex = "free"
    /\ IF Unsettled THEN Goto("undefined") /\ UNCHANGED sel
       ELSE IF table[sel.path] = {} THEN Goto("failed") /\ UNCHANGED sel
       ELSE /\ \E x \in table[sel.path] : sel' = [sel EXCEPT !.prefix = x]
            /\ Goto("event")
    /\ UNCHANGED <<opt, init_run, input, store, clock, proc>>

(* get_prefix joins directory and path without the separator with which    *)
(* saved_prefix_path made the name of the file.                            *)
SavedAs(p)  == <<"prefix/", p>>
LookedUp(p) == <<"prefix", p>>
PrefixesIn(p) ==
    UNION {table[q] : q \in {r \in DOMAIN table : SavedAs(r) = LookedUp(p)}}

select_automataPath_and_prefix ==
    /\ pc = "select" /\ clock < Budget /\ opt.protocol
    /\ \E p \in IF DOMAIN table = {} THEN {InitPath} ELSE DOMAIN table :
         \E x \in IF PrefixesIn(p) = {} THEN {NoPrefix} ELSE PrefixesIn(p) :
           sel' = [path |-> p, prefix |-> x, event |-> sel.event]
    /\ Goto("event")
    /\ UNCHANGED <<opt, init_run, input, store, clock, proc>>

(* select_tran: an edge to a state that is not on the path, if there is    *)
(* one; then select_proposition: one of its cubes.                         *)
Onward(path) ==
    LET s == path[Len(path)]
        new == {i \in DOMAIN aut.out[s] : aut.out[s][i].dst \notin
                                             {path[n] : n \in DOMAIN path}}
    IN IF new = {} THEN DOMAIN aut.out[s] ELSE new

CubesOnward(path) ==
    UNION {{aut.out[path[Len(path)]][i].label[k] :
              k \in DOMAIN aut.out[path[Len(path)]][i].label} :
           i \in Onward(path)}

(* select_event: a positive event of the cube.  With negative ones only,   *)
(* any event: erase(0) empties the name of what was to be rejected.        *)
EventsFor(c) == IF c.pos # {} THEN Names(aut, c.pos) ELSE AllEvents

SelectEvent ==
    /\ pc = "event"
    /\ IF CubesOnward(sel.path) = {} THEN Goto("failed") /\ UNCHANGED sel
       ELSE \E c \in CubesOnward(sel.path) : \E e \in EventsFor(c) :
              /\ sel' = [sel EXCEPT !.event = e]
              /\ Goto(CASE ~ opt.protocol /\ e[1] = "i" -> "direct"
                        [] (opt.protocol \/ e[1] # "i") /\ e \in Located
                             -> "afl"
                        [] OTHER -> "failed")
    /\ UNCHANGED <<opt, init_run, input, store, clock, proc>>

Started(xs, by) ==
    [Gone EXCEPT !.at = "running", !.by = by,
                 !.reads = xs \o IF opt.protocol THEN <<>> ELSE Program.eof]
Idle == {t \in Target : proc[t].at = "none"}
By(who) == {t \in Target : proc[t].by = who}

Overwritten(xs, ys) ==
    [n \in DOMAIN xs |-> IF n \in DOMAIN ys THEN ys[n] ELSE xs[n]]

(* replace_prefix_run_program: the prefix and the input the event stands   *)
(* for overwrite the front of the input.  No bound is checked.             *)
RunDirectly ==
    /\ pc = "direct"
    /\ LET ys == Append(sel.prefix, sel.event[2])
       IN IF Len(ys) > Len(input)
          THEN Goto("undefined") /\ UNCHANGED <<input, proc>>
          ELSE /\ input' = Overwritten(input, ys)
               /\ \E t \in Idle :
                    proc' = [proc EXCEPT ![t] = Started(input', "driver")]
               /\ Goto("wait")
    /\ UNCHANGED <<opt, init_run, sel, store, clock>>

(* Mutant: the driver also waits for a run that AFLGo left behind.         *)
AllReturn ==
    /\ pc = "wait" /\ By("driver") \cup By("orphan") = {}
    /\ Goto("select") /\ sel' = NoSel
    /\ UNCHANGED <<opt, init_run, input, store, clock, proc>>

(* pclose.  A counterexample is moved to a directory nobody has made.      *)
ProgramReturns ==
    /\ pc = "wait" /\ By("driver") = {}
    /\ Goto("select") /\ sel' = NoSel
    /\ UNCHANGED <<opt, init_run, input, store, clock,
                   proc>>

Given        == sel.prefix                   \* in the prefix segment
Prefixed(xs) == Given \o xs

(* Mutant: a run starts with what AFLGo has mutated.                       *)
AflRunBare ==
    /\ pc = "afl" /\ By("afl") = {}
    /\ \E xs \in Tails : \E t \in Idle :
          proc' = [proc EXCEPT ![t] = Started(xs, "afl")]
    /\ UNCHANGED <<opt, driver, store, clock>>

(* AFLGo puts the prefix, which the driver left for it in shared memory,   *)
(* before everything it has mutated.                                       *)
AflRun ==
    /\ pc = "afl" /\ By("afl") = {}
    /\ \E xs \in Tails : \E t \in Idle :
         /\ Len(Prefixed(xs)) <= opt.reads
         /\ proc' = [proc EXCEPT ![t] = Started(Prefixed(xs), "afl")]
    /\ UNCHANGED <<opt, driver, store, clock>>

(* `timeout' ends the session; the run in progress is killed or, when the  *)
(* signal arrives before afl-fuzz knows its process, left behind (bound:   *)
(* one at a time).                                                         *)
SessionEnds ==
    /\ pc = "afl"
    /\ By("afl") # {} => opt.orphans /\ By("orphan") = {}
    /\ proc' = [t \in Target |-> IF proc[t].by = "afl"
                                 THEN [proc[t] EXCEPT !.by = "orphan"]
                                 ELSE proc[t]]
    /\ Goto("select") /\ sel' = NoSel
    /\ UNCHANGED <<opt, init_run, input, store, clock>>

Tick ==
    /\ clock < Budget /\ ~ Ended
    /\ clock' = clock + 1
    /\ UNCHANGED <<opt, driver, store, proc>>

-----------------------------------------------------------------------------
(* The target: evaluate_trace and write_to_shared_table.                   *)

At(t, l) == proc[t].at = l
Step(t, l) == proc' = [proc EXCEPT ![t].at = l]
Returns(t) == proc' = [proc EXCEPT ![t] = Gone]

(* The trace so far: protocols evaluate it at every proposition, RERS      *)
(* programs when main returns.                                             *)
Columns(t) == Collected(Program, proc[t].reads)
ToEvaluate(t) == IF opt.protocol THEN proc[t].evaluated + 1
                 ELSE Len(Columns(t))
SoFar(t) == SubSeq(Columns(t), 1, ToEvaluate(t))
TraceOf(t) == normalize_trace(SoFar(t), opt.protocol)

Reports(t) ==
    LET vis == Visited(aut, TraceOf(t))
    IN  IsCounterexample(aut, SoFar(t), TraceOf(t), vis, PathOf(vis),
                         opt.protocol)

(* A counterexample ends the process with an exception.                    *)
Evaluate(t) ==
    /\ At(t, "running") /\ ToEvaluate(t) <= Len(Columns(t))
    /\ \E col \in {SoFar(t)} :
       \E tr \in {normalize_trace(col, opt.protocol)} :
       \E vis \in {Visited(aut, tr)} : \E path \in {PathOf(vis)} :
         IF IsCounterexample(aut, col, tr, vis, path, opt.protocol)
         THEN Returns(t)
         ELSE IF path = <<>>
         THEN IF opt.protocol
              THEN proc' = [proc EXCEPT ![t].evaluated = ToEvaluate(t)]
              ELSE Returns(t)
         ELSE proc' = [proc EXCEPT ![t] =
                [@ EXCEPT !.at = IF opt.protocol THEN "open" ELSE "find",
                          !.evaluated = ToEvaluate(t), !.path = path,
                          !.prefix = PrefixOf(col, vis, proc[t].reads,
                                              opt.protocol)]]
    /\ UNCHANGED <<opt, driver, store, clock>>

Exit(t) ==
    /\ At(t, "running") /\ opt.protocol
    /\ proc[t].evaluated = Len(Columns(t))
    /\ Returns(t)
    /\ UNCHANGED <<opt, driver, store, clock>>

(* saved_prefix_path: the file is opened for appending, then written.      *)
With(tab, p, x) ==
    [q \in DOMAIN tab \cup {p} |->
        (IF q \in DOMAIN tab THEN tab[q] ELSE {}) \cup
        (IF q = p THEN x ELSE {})]

OpenFile(t) ==
    /\ At(t, "open")
    /\ table' = With(table, proc[t].path, {})
    /\ Step(t, "append")
    /\ UNCHANGED <<opt, driver, names, mutex, torn, clock>>

AppendPrefix(t) ==
    /\ At(t, "append")
    /\ table' = With(table, proc[t].path, {proc[t].prefix} \ {NoPrefix})
    /\ Step(t, "running")
    /\ UNCHANGED <<opt, driver, names, mutex, torn, clock>>

(* Everything that allocates or looks up names holds the segment's mutex.  *)
Locked == {"find", "construct", "store", "add"}
Lock(t) ==
    /\ proc[t].at \in Locked /\ mutex = "free"
    /\ mutex' = t
    /\ UNCHANGED <<opt, driver, table, names, torn, clock, proc>>

Within(t, l) == At(t, l) /\ mutex = t /\ mutex' = "free"

Find(t) ==
    /\ Within(t, "find")
    /\ IF Unsettled THEN Returns(t) /\ torn' = TRUE
       ELSE /\ Step(t, IF proc[t].path \in DOMAIN table THEN "add"
                       ELSE "construct")
            /\ UNCHANGED torn
    /\ UNCHANGED <<opt, driver, table, names, clock>>

NameOf(t) == proc[t].path \o proc[t].prefix    \* the strings, concatenated

(* A name that is there already makes the target die of an exception.      *)
Construct(t) ==
    /\ Within(t, "construct")
    /\ IF NameOf(t) \in names THEN Returns(t) ELSE Step(t, "store")
    /\ names' = names \cup {NameOf(t)}
    /\ UNCHANGED <<opt, driver, table, torn, clock>>

(* The nodes of the new map and of the table's entry.                      *)
Store(t) ==
    /\ Within(t, "store")
    /\ Step(t, "link")
    /\ UNCHANGED <<opt, driver, table, names, torn, clock>>

Add(t) ==
    /\ Within(t, "add")
    /\ Step(t, "insert")
    /\ UNCHANGED <<opt, driver, table, names, torn, clock>>

(* Mutant: the entry of the path is linked before the prefix is in it.     *)
LinkEmpty(t) ==
    /\ proc[t].at \in Linking
    /\ table' = With(table, proc[t].path,
                     IF At(t, "link") THEN {} ELSE {proc[t].prefix})
    /\ IF At(t, "link") THEN Step(t, "add") ELSE Returns(t)
    /\ UNCHANGED <<opt, driver, names, mutex, torn, clock>>

(* The linking itself holds no lock; an entry that is there is kept.       *)
Link(t) ==
    /\ proc[t].at \in Linking
    /\ table' = IF At(t, "link") /\ proc[t].path \in DOMAIN table THEN table
                ELSE With(table, proc[t].path, {proc[t].prefix})
    /\ torn' = (torn \/ \E u \in Target \ {t} : proc[u].at \in Linking)
    /\ Returns(t)
    /\ UNCHANGED <<opt, driver, names, mutex, clock>>

(* afl-fuzz kills a run for its time limit, or at the end of a session.    *)
Kill(t) ==
    /\ opt.kills /\ proc[t].by = "afl"
    /\ Returns(t)
    /\ mutex' = IF mutex = t THEN "dead" ELSE mutex
    /\ torn' = (torn \/ proc[t].at \in Linking)
    /\ UNCHANGED <<opt, driver, table, names, clock>>

-----------------------------------------------------------------------------
Driver == \/ BudgetUsed \/ SelectPath \/ SelectPrefix
          \/ select_automataPath_and_prefix \/ SelectEvent
          \/ RunDirectly \/ ProgramReturns
Writes(t) == \/ Exit(t) \/ OpenFile(t) \/ AppendPrefix(t) \/ Lock(t)
             \/ Find(t) \/ Construct(t) \/ Store(t) \/ Add(t) \/ Link(t)

Next == \/ Driver \/ AflRun \/ SessionEnds \/ Tick
        \/ \E t \in Target : Evaluate(t) \/ Writes(t) \/ Kill(t)

Spec == Init /\ [][Next]_vars

(* AFLGo's time limit ends every run of its own, and `timeout' the session *)
(* whatever runs; a run that the driver waits for may last forever.        *)
FairSpec ==
    /\ Spec /\ WF_vars(Driver) /\ SF_vars(SessionEnds) /\ WF_vars(Tick)
    /\ \A t \in Target :
         /\ SF_vars(Writes(t))
         /\ WF_vars(proc[t].by = "afl" /\ (Evaluate(t) \/ Kill(t)))

-----------------------------------------------------------------------------
(* Properties.                                                             *)

(* The variables have their types: a path is one of the automaton, so that *)
(* select_tran finds the edges of its last state.                          *)
Path   == Seq(DOMAIN aut.out) \ {<<>>}
Places == {"select", "copy", "event", "direct", "wait", "afl"}
Owners == {"none", "driver", "afl", "orphan"}
Stages == Locked \cup Linking \cup {"none", "running", "open", "append"}
TypeOK ==
    /\ opt \in Subjects
    /\ pc \in Places \cup {"done", "failed", "undefined"}
    /\ DOMAIN table \subseteq Path
    /\ table \in [DOMAIN table -> SUBSET Seq(Input)]
    /\ mutex \in Target \cup {"free", "dead"}
    /\ torn \in BOOLEAN /\ init_run \in BOOLEAN
    /\ sel \in [path : Path, prefix : Seq(Input), event : Event \cup {<<>>}]
    /\ input \in Seq(Input) /\ Len(input) = Len(Seed)
    /\ clock \in 0 .. Budget
    /\ proc \in [Target -> [at : Stages, reads : Seq(Input), evaluated : Nat,
                            path : Path \cup {<<>>}, prefix : Seq(Input),
                            by : Owners]]
    /\ \A t \in Target : proc[t].by = "none" <=> proc[t].at = "none"

(* Wherever a target is killed, a path in the table has a prefix, so that  *)
(* select_prefix never chooses from nothing.                               *)
PathsHavePrefixes ==
    ~ opt.protocol => InitPath \in DOMAIN table
                      /\ \A p \in DOMAIN table : table[p] # {}

(* A stored prefix leads the program along the path it is stored under.    *)
Extends(p, x) ==
    LET xs == x \o IF opt.protocol THEN <<>> ELSE Program.eof
        tr == normalize_trace(Collected(Program, xs), opt.protocol)
    IN  IsPrefix(p, PathOf(Visited(aut, tr)))
PrefixesLeadThere ==
    \A p \in DOMAIN table : \A x \in table[p] :
        <<p, x>> # <<InitPath, NoPrefix>> => Extends(p, x)

(* ... so every execution of a session follows the path selected for it    *)
(* (LTLFuzzer.cc:169, "AFLGo will fetch the prefix").                      *)
Completed(t) ==
    /\ proc[t].by = "afl"
    /\ IF opt.protocol THEN /\ At(t, "running")
                            /\ proc[t].evaluated = Len(Columns(t))
       ELSE At(t, "find")
SessionFollowsPath ==
    \A t \in Target :
        Completed(t) /\ sel.path # InitPath
            => IsPrefix(sel.path, proc[t].path)

(* The same of RERS programs, whose prefixes come from the shared table.   *)
RersFollowsPath == ~ opt.protocol => SessionFollowsPath

(* A target dies of a taken name only if the object is a rival's, or was   *)
(* left by one that was killed, or is of another pair with that name:      *)
(* otherwise an object's name is that of a pair in the table.              *)
Stored(p, x) == p \in DOMAIN table /\ x \in table[p]
NamesAreStored ==
    ~ opt.kills /\ ~ opt.orphans =>
        \A t \in Target :
            At(t, "construct") /\ NameOf(t) \in names
                => \E p \in DOMAIN table : \E x \in table[p] :
                      p # proc[t].path /\ p \o x = NameOf(t)

(* A counterexample that a target reports is one: the execution can be     *)
(* repeated forever from a state the program was in twice, and a run of    *)
(* the automaton accepts that.                                             *)
CounterexampleIsReal ==
    \A t \in Target :
        At(t, "running") /\ ToEvaluate(t) <= Len(Columns(t)) /\ Reports(t)
            => Violates(aut, Program, proc[t].reads, opt.protocol)

(* The campaign ends when its time is used up, unless a program that was   *)
(* run directly never returns, or a target was killed inside the segment's *)
(* mutex, which the driver's copy of a map then waits for.                 *)
Hangs == pc = "wait" /\ \E t \in By("driver") : At(t, "running")
CampaignEnds == <>(Ended \/ mutex = "dead") \/ <>[]Hangs
=============================================================================

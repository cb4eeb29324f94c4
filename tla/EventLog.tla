------------------------------ MODULE EventLog ------------------------------
(***************************************************************************)
(* The Go fuzz test of experiment/CS6215: every worker process of          *)
(* `go test -fuzz' clears the trace directory and then, for one input      *)
(* after the other, runs impl with an EventLogger, loads the trace file    *)
(* and submits it.  An EventLogger is a bounded channel and a goroutine    *)
(* that appends what it receives to the file.  All workers use the same    *)
(* directory, and a file is named after the input.                         *)
(***************************************************************************)
EXTENDS BuchiWalk, Functions

CONSTANTS Worker,     \* processes of the fuzz test
          Input,      \* arguments of impl
          Cap,        \* capacity of e_chan
          Property,   \* the automaton of the test's LTL property
          MaxTests,   \* bound: tests run by one worker
          Again       \* whether workers run an input more than once

QuotaActivate  == "a"
QuotaExceeded  == "o"
ReportExceeded == "n"
Event == {QuotaActivate, QuotaExceeded, ReportExceeded}
quota         == 500
each_req_size == 100

ASSUME EventLogAssumption ==
    /\ \A i \in Input : i.activate_quota \in BOOLEAN /\ i.req_time \in Int
                        /\ i.problematic \in BOOLEAN
    /\ Cap \in Nat \ {0} /\ MaxTests \in Nat /\ Again \in BOOLEAN

VARIABLES
    dir,               \* does savedir exist
    names,             \* its directory entries: file name |-> inode
    content,           \* inode |-> the events in the file
    pc,                \* of each worker's test
    tests,             \* the inputs it ran, the last one being run
    todo,              \* the events impl has yet to log
    inode,             \* e.file
    e_chan, closed,    \* the channel
    writer, hand,      \* the goroutine, and what it received
    trace, outcome     \* what LoadTrace returned, how the test ended

disk   == <<dir, names, content>>
logger == <<inode, e_chan, closed, writer, hand>>
test   == <<tests, todo, trace, outcome>>
vars   == <<disk, logger, test, pc>>

Goto(w, l) == pc' = [pc EXCEPT ![w] = l]
Current(w) == tests[w][Len(tests[w])]

Init ==
    /\ dir \in BOOLEAN /\ names = <<>> /\ content = <<>>
    /\ pc = [w \in Worker |-> "init"] /\ tests = [w \in Worker |-> <<>>]
    /\ todo = [w \in Worker |-> <<>>] /\ inode = [w \in Worker |-> 0]
    /\ e_chan = [w \in Worker |-> <<>>] /\ closed = [w \in Worker |-> TRUE]
    /\ writer = [w \in Worker |-> "done"] /\ hand = [w \in Worker |-> <<>>]
    /\ trace = [w \in Worker |-> <<>>]
    /\ outcome = [w \in Worker |-> "none"]

-----------------------------------------------------------------------------
(* event.Init.  A file that is open lives on without its name.             *)
RemoveAll(w) ==
    /\ pc[w] = "init"
    /\ dir' = FALSE /\ names' = <<>>
    /\ Goto(w, "mkdir")
    /\ UNCHANGED <<content, logger, test>>

MkdirAll(w) ==
    /\ pc[w] = "mkdir"
    /\ dir' = TRUE
    /\ Goto(w, "ready")
    /\ UNCHANGED <<names, content, logger, test>>

Exceeds(i) == i.req_time * each_req_size > quota

(* The events impl logs.                                                   *)
Impl(i) ==
    IF ~ i.activate_quota THEN <<>>
    ELSE <<QuotaActivate>>
         \o (IF Exceeds(i) THEN <<QuotaExceeded>> ELSE <<>>)
         \o (IF Exceeds(i) /\ ~ i.problematic
               THEN <<ReportExceeded>> ELSE <<>>)

(* The next input the engine gives to a worker.                            *)
Given(w, i) ==
    /\ pc[w] = "ready" /\ Len(tests[w]) < MaxTests
    /\ Again \/ \A x \in Worker : i \notin Range(tests[x])
    /\ tests' = [tests EXCEPT ![w] = Append(@, i)]

(* NewEventLogger, Start: the file is created or, if its name is known,    *)
(* opened for appending.                                                   *)
Start(w, i) ==
    /\ Given(w, i) /\ dir
    /\ IF i \in DOMAIN names
         THEN /\ inode' = [inode EXCEPT ![w] = names[i]]
              /\ UNCHANGED <<names, content>>
         ELSE /\ content' = Append(content, <<>>)
              /\ inode' = [inode EXCEPT ![w] = Len(content')]
              /\ names' = [j \in DOMAIN names \cup {i} |->
                             IF j = i THEN Len(content') ELSE names[j]]
    /\ todo' = [todo EXCEPT ![w] = Impl(i)]
    /\ e_chan' = [e_chan EXCEPT ![w] = <<>>]
    /\ closed' = [closed EXCEPT ![w] = FALSE]
    /\ writer' = [writer EXCEPT ![w] = "running"]
    /\ trace' = [trace EXCEPT ![w] = <<>>]
    /\ outcome' = [outcome EXCEPT ![w] = "none"]
    /\ Goto(w, "impl")
    /\ UNCHANGED <<dir, hand>>

(* The directory is gone: logrus.Fatalf ends the process.                  *)
StartFails(w, i) ==
    /\ Given(w, i) /\ ~ dir
    /\ outcome' = [outcome EXCEPT ![w] = "exited"]
    /\ Goto(w, "exited")
    /\ UNCHANGED <<disk, logger, todo, trace>>

HasRoom(w) == Len(e_chan[w]) < Cap

LogEvent(w) ==
    /\ pc[w] = "impl" /\ todo[w] # <<>> /\ HasRoom(w)
    /\ e_chan' = [e_chan EXCEPT ![w] = Append(@, Head(todo[w]))]
    /\ todo' = [todo EXCEPT ![w] = Tail(@)]
    /\ UNCHANGED <<disk, inode, closed, writer, hand,
                   tests, trace, outcome, pc>>

(* Mutant: Stop does not close the channel.                                *)
LeftOpen(w) == closed

Closed(w) == [closed EXCEPT ![w] = TRUE]

(* Stop: close the channel, then wait for the goroutine.                   *)
CloseChannel(w) ==
    /\ pc[w] = "impl" /\ todo[w] = <<>>
    /\ closed' = Closed(w)
    /\ Goto(w, "stop")
    /\ UNCHANGED <<disk, inode, e_chan, writer, hand, test>>

(* Mutant: Stop does not wait.                                             *)
NoWait(w) == TRUE

WriterDone(w) == writer[w] = "done"

Wait(w) ==
    /\ pc[w] = "stop" /\ WriterDone(w)
    /\ Goto(w, "load")
    /\ UNCHANGED <<disk, logger, test>>

LoadTrace(w) ==
    /\ pc[w] = "load" /\ Current(w) \in DOMAIN names
    /\ trace' = [trace EXCEPT ![w] = content[names[Current(w)]]]
    /\ Goto(w, "submit")
    /\ UNCHANGED <<disk, logger, tests, todo, outcome>>

LoadFails(w) ==
    /\ pc[w] = "load" /\ Current(w) \notin DOMAIN names
    /\ outcome' = [outcome EXCEPT ![w] = "unloadable"]
    /\ Goto(w, "ready")
    /\ UNCHANGED <<disk, logger, tests, todo, trace>>

(* An empty trace takes the server down, see TraceServer.                  *)
SubmitTrace(w) ==
    /\ pc[w] = "submit"
    /\ outcome' = [outcome EXCEPT ![w] =
                     IF trace[w] = <<>> THEN "error"
                     ELSE IF Verdict(Property, trace[w]) THEN "INVALID"
                     ELSE "VALID"]
    /\ Goto(w, "ready")
    /\ UNCHANGED <<disk, logger, tests, todo, trace>>

-----------------------------------------------------------------------------
(* The goroutine.                                                          *)
Receive(w) ==
    /\ writer[w] = "running" /\ hand[w] = <<>> /\ e_chan[w] # <<>>
    /\ hand' = [hand EXCEPT ![w] = <<Head(e_chan[w])>>]
    /\ e_chan' = [e_chan EXCEPT ![w] = Tail(@)]
    /\ UNCHANGED <<disk, inode, closed, writer, test, pc>>

(* Mutant: every write starts the file again.                              *)
Truncated(w) == [content EXCEPT ![inode[w]] = hand[w]]

Appended(w) == [content EXCEPT ![inode[w]] = @ \o hand[w]]

WriteString(w) ==
    /\ hand[w] # <<>>
    /\ content' = Appended(w)
    /\ hand' = [hand EXCEPT ![w] = <<>>]
    /\ UNCHANGED <<dir, names, inode, e_chan, closed, writer, test, pc>>

EndOfRange(w) ==
    /\ writer[w] = "running" /\ hand[w] = <<>>
    /\ closed[w] /\ e_chan[w] = <<>>
    /\ writer' = [writer EXCEPT ![w] = "done"]
    /\ UNCHANGED <<disk, inode, e_chan, closed, hand, test, pc>>

Main(w) ==
    \/ RemoveAll(w) \/ MkdirAll(w)
    \/ \E i \in Input : Start(w, i) \/ StartFails(w, i)
    \/ LogEvent(w) \/ CloseChannel(w) \/ Wait(w)
    \/ LoadTrace(w) \/ LoadFails(w) \/ SubmitTrace(w)

Writer(w) == Receive(w) \/ WriteString(w) \/ EndOfRange(w)

Next == \E w \in Worker : Main(w) \/ Writer(w)
Spec == Init /\ [][Next]_vars

(* The Go scheduler runs a goroutine that can run; no test needs to start  *)
(* or to log anything for Stop to return.                                  *)
FairSpec == Spec /\ \A w \in Worker : WF_vars(Wait(w)) /\ WF_vars(Writer(w))

-----------------------------------------------------------------------------
TypeOK ==
    /\ dir \in BOOLEAN /\ DOMAIN names \subseteq Input
    /\ content \in Seq(Seq(Event))
    /\ \A i \in DOMAIN names : names[i] \in DOMAIN content
    /\ pc \in [Worker -> {"init", "mkdir", "ready", "exited", "impl", "stop",
                          "load", "submit"}]
    /\ tests \in [Worker -> Seq(Input)] /\ todo \in [Worker -> Seq(Event)]
    /\ inode \in [Worker -> 0 .. Len(content)]
    /\ e_chan \in [Worker -> Seq(Event)]
    /\ \A w \in Worker : Len(e_chan[w]) <= Cap /\ Len(hand[w]) <= 1
    /\ closed \in [Worker -> BOOLEAN]
    /\ writer \in [Worker -> {"running", "done"}]
    /\ hand \in [Worker -> Seq(Event)] /\ trace \in [Worker -> Seq(Event)]
    /\ outcome \in [Worker -> {"none", "exited", "unloadable", "error",
                               "VALID", "INVALID"}]

(* While a test runs, the file, the goroutine, the channel and impl hold   *)
(* the events of the input between them, each once and in order - if no    *)
(* input is run twice, whatever the workers do to the directory.           *)
NothingIsLost ==
    \A w \in Worker :
        ~ Again /\ pc[w] \in {"impl", "stop", "load"}
            => content[inode[w]] \o hand[w] \o e_chan[w] \o todo[w]
                 = Impl(Current(w))

(* What a test submits is what its own run of impl logged: Stop returns    *)
(* only after the goroutine has written everything.                        *)
LoadedIsLogged ==
    \A w \in Worker :
        ~ Again /\ pc[w] = "submit" => trace[w] = Impl(Current(w))

(* The test calls a trace invalid exactly when impl has the defect it is   *)
(* about: an exceeded quota is not reported (example_test.go:22-31).       *)
VerdictFindsDefect ==
    \A w \in Worker :
        outcome[w] \in {"VALID", "INVALID"} =>
            LET i == Current(w)
                used == i.req_time * each_req_size
            IN  outcome[w] = "INVALID"
                  <=> (i.activate_quota /\ i.problematic /\ used > quota)

(* Stop returns.                                                           *)
StopReturns == \A w \in Worker : pc[w] = "stop" ~> pc[w] = "load"
=============================================================================

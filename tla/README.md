# A verification development for LTL-Fuzzer

LTL-Fuzzer looks for executions of a program that satisfy an (undesired) LTL
property.  The repository holds two systems built around the same automata
code: the *trace evaluation service*, a gRPC server that walks submitted event
traces through Buchi automata, and the *fuzzer*, a driver that steers AFLGo to
executions which follow an automaton.  This directory specifies them in TLA+,
checks the specifications with TLC on small instances and proves what matters
most with TLAPS.

## 1. Inventory

| Part | Source | State | Operations | Interacts with |
|---|---|---|---|---|
| Automata | `src/src/automata/automata.cc` | the automaton, its BDD variable map, `mtx_`; file statics for BDD callbacks | `set_formula`, `model_check_events`, path enumeration | service, runtime, driver |
| Trace service | `src/src/grpc/ltlfuzzServiceImpl.cc` | `storage`: uuid to list of automata; `storage_mutex` | `PrepareLTLProperties`, `SubmitTrace`, one thread per request | Go client |
| Go client, harness | `src/experiment/CS6215/` | session uuid, trace files | log events, load a trace, submit it | service |
| Event logger | `src/experiment/CS6215/cmd/fuzz/event/` | channel, writer goroutine, file | `Start`, `LogEvent`, `Stop`, `LoadTrace` | harness |
| Target runtime | `src/src/instrumentation/CodeBean.cc` | the trace, states, inputs of one execution | collect, `evaluate_trace`, `check_acceptance` | automata, path table |
| Path table | `src/src/instrumentation/pathwriter.cc`, `src/src/PathStore.cc` | automaton path to prefix to metric, in shared memory | write (target), select (driver) | target, driver |
| Driver | `src/src/LTLFuzzer.cc` and helpers | time budget, current input, targets | select path, event, target; run AFLGo | path table, AFLGo |
| Bridge | `src/src/aflgo-extension/aflgo_ext.c` | the prefix of the session, in shared memory | put the prefix before a test case | driver, AFLGo |
| Seed queue of AFLGo | `src/AFLGo/afl-fuzz.c` | queue, best entry per edge, counters, distances | dry run, calibrate, cull, trim, save, abandon | fork server, `fuzz_one` |
| `fuzz_one` | `src/AFLGo/afl-fuzz.c` | buffers, effector map, automatic dictionary, havoc's allocation | deterministic stages, havoc, splicing | queue, messages |
| Messages | `src/AFLGo/protocol.c`, `klist.h`, `afl-fuzz.c` | linked list with memory pool, regions of every seed, `messages_sent` | cut a seed into requests, replace the mutated part, send, save | `fuzz_one`, target |
| Output directory | `src/AFLGo/afl-fuzz.c` | `queue/`, `_resume/`, crashes, `fuzzer_stats`, lock, `.synced/` | lock, clean, resume in place, import, save, trim, sync | other fuzzers |
| afl-tmin | `src/AFLGo/afl-tmin.c` | the smallest file kept, verdict of the dry run | normalise, delete, replace symbols and bytes | target |
| Fork server | `src/AFLGo/llvm_mode/afl-llvm-rt.o.c`, `init_forkserver`, `run_target` | pipes, child process, timer | start, run, time out, kill | AFLGo, target |

What is hard here: requests that interleave on the service's threads with only
part of the shared state under locks; a target that is killed in the middle of
writing to shared memory; a timer that races the answer of the fork server; a
queue whose bookkeeping (favoured entries, pending counters, best inputs for
each edge) is updated by many handlers; a list of messages that every mutation
rewires, with its nodes recycled; a directory that has to survive a kill between
any two system calls while another fuzzer reads it; buffers that several stages
change in place and have to give back; and a greedy walk standing in for the
runs of a nondeterministic automaton.

## 2. How the parts interact, and what makes each correct

* A *client* (the Go harness, one process per fuzz worker) calls the service:
  `PrepareLTLProperties` once, then `SubmitTrace` for every input.  The session
  identifier is all that links the calls.  Correct: a report names exactly the
  properties whose automaton accepts the submitted trace; a session is found
  again, and is whole, whatever else the server does; every request is
  answered; no trace kills the server.
* The service's requests *share* the session map and the `Automata` objects in
  it.  Each object has a mutex; the callbacks of `bdd_allsat` hand their result
  over in file statics that belong to no object.  Correct: a walk reads its own
  results only.
* The *walk* replaces the runs of a nondeterministic automaton by one greedy
  path.  Correct: it is never in a state no run is in, and on deterministic
  automata it is the run.
* The *instrumented Go program* logs events through a channel to a goroutine
  that writes a file, which the test reads back.  Correct: what is loaded is
  what was logged, by this run and no other.
* `afl-fuzz` asks the *fork server* in the target for a child, and learns its
  process id and its status through a pipe; the child writes the coverage map
  in shared memory; an alarm and a stop signal kill it at any moment.  Correct:
  the fault reported is the child's own, the words on the pipe stay in step, no
  child writes the map outside its run, every run returns.
* The *target's runtime* evaluates its trace against the automaton and writes
  promising (path, prefix, distance) triples to a table in shared memory; the
  *driver* selects a path, an event and a prefix from it, starts AFLGo with a
  time budget and passes it the prefix through a second shared segment.
  Correct: only real prefixes enter the table, none is lost when the target is
  killed, a selection exists whenever the table is not empty.
* AFLGo's *queue* keeps for every edge of the map the best entry and fuzzes
  those first.  Correct: the favoured entries cover all edges seen, and the
  pending counters count what they say.
* `fuzz_one` takes an entry from the queue, or the part M2 of its messages, and
  hands mutated buffers to the target.  Correct: each stage leaves the buffer as
  it found it, the mark that makes later sessions skip the deterministic stages
  is earned, the dictionary holds what it is meant to hold.
* For a network target the buffer is cut into messages that replace M2 in the
  list between M1 and M3, and the list is sent.  Correct: M1 and M3 never
  change, no freed node is reached, what is sent is the session, and what is
  saved was sent and can be opened again.
* A session writes its finds to the *output directory*; a later one resumes from
  it, and the fuzzers of a team import from each other's.  Correct: a kill loses
  no find, two sessions never share a directory, a round of synchronisation
  passes over nothing and runs nothing twice.
* *afl-tmin* shrinks a file by trial.  Correct: the result does what the file
  did, no byte of it can go, and the trials end.

## 3. Modules and their correspondence to the code

| Module | What it is | Proofs |
|---|---|---|
| `BuchiWalk` | operators: automata, cubes, the greedy move, the verdict, and the reference semantics | used by the next three |
| `BuchiFeed` | the walk beside the set of states runs reach | `TraceServerProofs` |
| `TraceServer` | the service: threads, locks, statics, sessions | `TraceServerProofs` |
| `TraceServerRaces` | `TraceServer` with a history of the races its walks lose | `TraceServerProofs` |
| `EventLog` | fuzz workers, logger, writer goroutine, files | `EventLogProofs` |
| `ForkServer` | `run_target` and the fork server | `ForkServerProofs` |
| `SeedQueue` | queue, calibration, culling and the life of an entry | `SeedQueueProofs` |
| `TraceEval` | operators: the trace of an execution, its path and prefix, the accepting loop | |
| `Campaign` | driver, targets, shared table, prefix files, AFLGo sessions, over `TraceEval` | `CampaignProofs` |
| `Protocols` | operators: how nine protocols cut a buffer into requests | used by the next but one |
| `MessageList` | abstract: a session is M1, M2, M3, and M2 is replaced | |
| `KlMessages` | list, pool, delivery, saved seeds; implements `MessageList` | `KlMessagesProofs` |
| `Mutations` | operators: what each deterministic stage makes, the tests for duplicates, scores, splice points | |
| `FuzzOne` | `fuzz_one` over `Mutations` | `SeedQueueProofs` |
| `OutDir` | the output directory over many sessions | `OutDirProofs` |
| `SyncFuzzers` | a fuzzer that imports from an `OutDir` | `OutDirProofs` |
| `TMin` | afl-tmin | `TMinProofs` |
| `MC...` | values of the constants for TLC | |

Composition: `TraceServer` and `TraceEval` evaluate traces by `BuchiWalk`;
`Campaign` runs `TraceEval`'s targets beside the driver; `KlMessages` cuts
buffers by `Protocols`; `SyncFuzzers` puts a reader beside the processes of
`OutDir`.  `FuzzOne` meets the others at its borders: the entry it mutates is
`KlMessages`' part M2 or a whole file, its mark `passed_det` is `OutDir`'s mark
of an entry, and what it finds is `SeedQueue`'s `SaveIfInteresting`.

**BuchiWalk / BuchiFeed.**  `CubeTrue` and `CubeHolds` are the two callbacks;
`LastCube` says that every callback overwrites the last one's result.  `Move`
is one iteration of the loop of `model_check_events` over the events: a TRUE
edge is a default that a later TRUE edge replaces, the first other edge that
holds ends the scan, no edge is a dead end (`-1`).  `Accepts` is what
`SubmitTrace` makes of the recorded states.  `Enabled`, `Successors` are the
reference.  `BuchiFeed` feeds events to both at once.

**TraceServer.**  `pc[t]` says where thread `t` is in the request it serves;
`list`, `trace`, `at`, `violations` and the `walk` variables are that request's
locals, back to fixed values when it returns.  One action stands for the code
between two accesses to shared state, so the callbacks (`TrueCallback`,
`CondCallback`), the places that read their result (`IfTrue`, `IfCond`), the
unlocked search (`Find`, `NotFound`) and the insertion under `storage_mutex`
interleave.  `check_cond_events` is a pointer into a frame: it holds the thread
whose frame it is, and what is read after that frame is gone is any value or the
end of the process (`Crash`).  The client appears as `known`, the sessions it
was told of; a reply may be lost to its three second deadline.

**TraceServerRaces.**  `disturbed` collects the threads one of whose statics
another thread overwrote between the call that set it and the statement that
reads it (`Victims`); it decides nothing.  `OnlyRacesMislead` then says that
these three overlaps are the whole of the defect that `server_race` shows.

**EventLog.**  A worker runs `RemoveAll`, `MkdirAll`, then for each test
`Start`, `LogEvent`s, `CloseChannel`, `Wait`, `LoadTrace`, `SubmitTrace`; its
goroutine runs `Receive`, `WriteString`, `EndOfRange`.  `names` and `content`
separate a path from the file it names, so that a file removed from the
directory lives on for whoever has it open.  `Impl` is the whole of the tested
function, from its input to the events it logs.

**ForkServer.**  `pc` is the place of `afl-fuzz` in `init_forkserver`,
`run_target`, `send_over_network` and the end of `main`; `srv` that of
`__afl_start_forkserver`; `ctl` and `st` are the pipes; `proc` is what the
kernel knows of the children.  Signal handlers (`Timeout`, `StopSignal`) are
enabled in every place.  `Complete` is a child that is done with its input:
`raise(SIGSTOP)` in persistent mode, else `exit`.  A child need not ever finish.
`opt` holds the command line and build of this behaviour and never changes.

**SeedQueue.**  `pc` is the place of `afl-fuzz` between `perform_dry_run`,
`calibrate_case` (its locals are in `cal`), the main loop, and the phases of
`fuzz_one`.  An entry is a record with the fields of `struct queue_entry`; a
checksum is the trace it is of, a pointer is an index, NULL is 0 or, for
`trace_mini`, the empty set.  A run of the target is any of the `Outcomes` of
its input, so an input may hang at times or vary its trace.  `Rescored` is the
loop of `update_bitmap_score` over the edges in closed form, with the one case
in which an entry takes its last reference from itself; `Picked` describes the
edges `cull_queue` stops at by what was picked before them.  The mutations of
`fuzz_one` are any input (`SaveIfInteresting`); crashes, hangs and runs without
new coverage leave the queue alone.

**TraceEval / Campaign.**  A program is a small transition table; an execution
is the inputs it reads.  `Collected` is the trace the callbacks append,
`Visited` and `PathOf` the automaton states along it (`Visited` goes on with
dead ends behind the first one, which nothing reads), `Reports` what
`check_acceptance` decides, `Violates` the reference: a loop of the program that
an accepting run of the automaton goes round forever.  In `Campaign`, `pc` is
the driver's place in `LTLFuzzer::fuzz` (`SelectPath`, `SelectPrefix`,
`SelectEvent`, `RunDirectly`, the AFLGo session `AflRun` ... `SessionEnds`), and
`proc[t]` that of each target: `Evaluate`, then `Lock`, `Find`, `Construct`,
`Store`, `Add`, `Link` in `write_to_shared_table`, or `OpenFile`, `AppendPrefix`
for protocols.  `mutex` is the one of the memory segment, `names` its named
objects; `Kill` is possible at each of these places, and a target that outlives
its session goes on as an orphan.  `torn` marks the tree that two writers or a
killed one have left broken: what the driver reads then is anything.

**Protocols / MessageList / KlMessages.**  A parser's byte loop is given by where
the region that begins at a position ends (`EndOf...`), with lengths in 32-bit
two's complement and memory past the buffer as a choice.  `kl` is the heap of
klist.h with its pool; `Push`, `Splice` and `FreeOld` are the steps of
`common_fuzz_stuff`'s rewiring, node by node, `OpenSeed` and
`delete_kl_messages` the ends of a seed's life, `run_target` the delivery that
may fail to connect, break off or go through, `Interesting` and `Crash` what is
saved.  `MessageList` keeps three sequences; `KlMessages` implements it by
reading them from the heap (`ListRefined`), also while the list is rewired.

**Mutations / FuzzOne.**  Buffers of the deterministic stages are bytes, and
`executed` collects every buffer run, so that what was run can be compared with
what the stages promise.  `stage` is the stage, one action one position of it.
`subject` gives the file, the dictionary (sorted by size, as `load_extras` leaves
it) and what the traces hash to when a byte is flipped; effector map (`eff_map`),
collected tokens (`a_collect`, `a_extras`) and the tests that skip duplicates
follow the code.  Havoc keeps lengths only (`temp_len`, `alloc`), one action for
each stacked operation; `Splice` is one attempt.

**OutDir / SyncFuzzers.**  Directories are functions from entry numbers to
cases, with the marks of `.state`; `Cut` is a file created and not yet written.
`pc[p]` is the place of process `p` between `setup_dirs_fds` and the fuzzing
loop; a step is one or a few system calls, files are deleted one at a time, and
`Kill` may come between any two steps.  `found`, `marked`, `crashed`, `torn` and
`stale` are history for the properties.  In `SyncFuzzers` a round may return
(`SyncEntry`) what was in the directory when it began or has come since, and is
broken off by `SyncStop`.

**TMin.**  `pc` is the stage, one action an iteration of its loop with its
execution of the target, `Interrupt` the signal, seen by the next execution
(`Abort`).  `Keep` is the verdict of `run_target`; an execution is how it ends
and how often it hits each tuple, and a target may have several outcomes for one
file.  `tmp_buf` is kept in the character stage only, where it lives from byte to
byte; elsewhere it is rebuilt from `in_data`.

## 4. Runs

| Run | Expected | Question |
|---|---|---|
| `walk_exact` | pass | is the greedy walk sound, and exact on deterministic automata |
| `server_threads` | pass | locks, whole sessions, progress, and what can make a report wrong |
| `server_race` | violation | are reports right with two objects |
| `log_workers` | pass | events kept, loaded whole, Stop returns |
| `fork_runs` | pass | faults, map, pipe and progress in the usual set-ups |
| `seed_queue` | pass | queue bookkeeping, cover, best entries, progress |
| `campaign` | pass | table and prefixes under kills, real counterexamples, the end of a campaign |
| `kl_messages` | pass | list and pool, sessions and buffers, what is saved; implements `MessageList` |
| `fuzz_one` | pass | marks, buffers, dictionary |
| `out_dir` | pass | resume after kills, crashes kept, queue and files agree |
| `sync` | pass | rounds miss nothing and repeat nothing |
| `tmin` | pass | faithful and minimal result, end |

Every run checks one question; the table in `PROJECT.json` lists its properties
and, for each of them, a mutant of the code that breaks it.  The modules hold
further statements that no run checks, since the code does not fulfil them or
another property says more; they are named below where they matter.  Each module
has a type invariant (`TypeOK`, `DirTypeOK`, `SyncTypeOK`, `FuzzTypeOK`), and all
of them are proved.

**Bounds and why they are enough.**

* `walk_exact`: every automaton with two states and two propositions, at most
  one edge between two states, every label and edge order at the initial state
  and four labels at the other one.  A move looks at one state's edges only, so
  more states add nothing to a move.
* `server_threads`: two threads and three requests let a prepare and two submits
  overlap, and two submits of one session; `SessionsLeft` ends preparation when
  the identifiers are used up.  One formula has a disjunctive label and a dead
  end, one is refused, one session is empty; traces have two events.
  `server_race` takes four requests, for two sessions.
* `log_workers`: a conflict about a file name is between two workers.
  `MaxTests` is 2, so a worker reuses its own state once; the channel's capacity
  is 1 (100 in the code) so that it fills up.
* `fork_runs`: `MaxRuns` is 3 and `max_cnt` 2: a persistent child is continued,
  killed while stopped, written off and replaced.  Process identifiers are not
  reused, so a signal never hits a stranger.
* `seed_queue`: three entries on three edges: an entry can hold one edge and
  lose another, and two favored entries leave a third one to be skipped.
  `CAL_CYCLES` and `CAL_CHANCES` are 2 (8 and 3 in the code); `TrimFrom` and
  `SkipAbove` are lowered so that they are passed.
* `campaign`: a program of three states over two inputs, with a loop, a step
  without an event and two paths whose names with their prefixes coincide; two
  processes at a time; a budget of one session.
* `kl_messages`: two seeds of up to three messages (one with a prefix and
  connections that fail), two mutated inputs per seed, one find.  The other
  protocols get every short buffer, or the ones around their length fields:
  zero, one, too long, wrapping.
* `fuzz_one`: four files for the deterministic stages and two for havoc and
  splicing.  The block of the effector map is two bytes (eight in the code), so
  that files have several; `MAX_FILE`, the token lengths and the havoc constants
  are lowered so that each limit is met.
* `out_dir`: two processes, three sessions, three cases: a session is killed, the
  one that repairs the directory is killed too, and a third one reads the rest.
  Four sessions (without trimming) were checked by hand.  `sync`: one process,
  two sessions, two cases, two rounds; three sessions or three cases by hand.
* `tmin`: files of one to six bytes over three symbols, blocks of four, two and
  one byte (the steps of `config.h`, 16 and 128, are lowered to 2 and 4, and the
  smallest block to normalise from 4 to 2), and eleven ways to start.

**Deadlock** is checked for the server, which rests only when its bound is used
up, and for `kl_messages`.  It is not for the others: tests end, afl-fuzz and
afl-tmin end, a campaign ends, and the bounds on sessions and finds stop
`OutDir` and `FuzzOne`.

**Fairness.**  The threads of the server and the goroutines of a worker are
scheduled by the operating system and the Go runtime: weak fairness for each.
In `ForkServer` the fork server, `afl-fuzz` within a run, an armed timer and
the kernel's reaping are fair; the child, the user's signal and the start of
another run are not.  No property assumes that a child finishes.  In `SeedQueue`
afl-fuzz goes on unless it is stopped; which mutation finds something, and
whether an entry that may be skipped is skipped, is left open.  In `Campaign`
the driver and the clock are fair; AFLGo's time limit ends each of its own runs
and `timeout` the session whatever runs (strong fairness: other steps may
disable it in between); a writer gets the segment's mutex when it is free again
and again; a program the driver runs directly may never return, and
`CampaignEnds` allows for that.  In `TMin` the tool runs, and every execution
ends since the timer kills what hangs; no answer of the target is assumed.

**Disagreements found.**  One is a run:

* `server_race`: the lock is per object, the callback results are not.

The others can be reproduced by adding the property named to the cfg of the run
(with the constant given), or were seen while modelling:

* *Service and walk.*  On a nondeterministic automaton, such as that of
  F(a & F(o & G !n)) on a, o, n, o, the walk stays on the first edge that holds
  while another run accepts (`AcceptedIsReported` of `BuchiFeed`).  The unlocked
  search of the session map may miss a session (`NotFound`, `PreparedIsFound`).
  An empty trace makes `SubmitTrace` call `back()` on an empty vector
  (`ServerSurvives`); the runs submit traces with events only.
* *Event logger.*  Files are named after the input: when an input is run again,
  a worker submits what another one has half written, and a correct run is
  called invalid (`VerdictFindsDefect` with `Again = TRUE`).  A worker that
  starts removes the directory another one is about to create its file in
  (`StartFails`, `LoadFails`).
* *Fork server.*  A signal between the fork and the read of the process id kills
  the fork server only; a hanging child survives (`NoOrphan`).  The loop that
  waits for a network target to be gone polls a zombie that only the code after
  the loop can reap, or that the fork server reaps with the next request
  (`RunReturns` with `Options <- Lingering`).
* *Seed queue.*  Every seed is reported as useless, because it has no distance
  yet and the call of `has_new_bits` for its distance uses up its new bits
  (`CalibrationRun`).  With a protocol subject, seeds that the dry run skips,
  and finds whose calibration failed, are mutated all the same, never calibrated
  again and never counted as done (`TakeEntry`).  `cull_queue` counts an entry
  twice in `queued_favored` when its trace varies.
* *Campaign.*  `e.erase(0)` (AutomataHandler.cc:104) empties the name, so REJECT
  sets reject nothing.  Prefix files are written to one directory and read from
  another (LTLFuzzer.cc:102, PathStore.cc:95; CodeBean.cc:170), so that the
  prefix of a protocol is always empty although LTLFuzzer.cc:169 says that
  "AFLGo will fetch the prefix" (`SessionFollowsPath` with `Subjects` of
  protocols).  `check_acceptance` reports whenever an accepting state was
  visited and the last state has no self loop, looks at the last state's loop
  for every accepting location and counts the event that enters it: on the
  automaton `Answer` it reports what is no counterexample
  (`CounterexampleIsReal` with `Answers`).  `save_input` runs the path of the
  folder instead of making it, so the counterexample is not saved.  A target
  killed inside the segment's mutex blocks the driver forever, and a name that
  was left behind, or is that of another pair, makes a run end with an exception
  that AFLGo takes for a crash.  A prefix that is too long overwrites what
  follows `input`, or throws in the driver (utils.cc:157).
* *Messages.*  A single byte behind the last message is never sent, and the last
  dns region may reach three bytes past the buffer.  `messages_sent` counts the
  messages of the prefix: with one, what is saved holds as many messages that
  were not sent, and never the prefix.  A refused connection leaves the old
  count: zero after a failed dry run, an empty entry, and the fuzzer ends at
  "0 region found".  `send_over_network` collects the messages in two
  local arrays that are not initialised and may overflow, and never uses them;
  the list of the prefix is never freed.
* *`fuzz_one`.*  `could_be_bitflip` turns down values whose bits cross a byte
  boundary in little endian order, which no walking flip has run (comment
  afl-fuzz.c:5266; `SkippedAreDupes`).  With AFL_NO_ARITH, interesting numbers
  are skipped as results of the arithmetic that is not run.  An entry that is
  abandoned is marked as fuzzed, so its deterministic stages are not finished in
  that session.  A score of zero disables the limit on the doubling of havoc; a
  splice may be the other file itself; `ext_UI` copies one byte past the buffer
  at its last position.
* *Output directory.*  `WorkIsKept` fails: a kill while `_resume/` is being
  deleted leaves a partial one that the next resume takes for complete, and it
  then deletes `queue/`; and a fresh session leaves `_resume/` behind for a
  later resume to take instead of the new `queue/`.  A kill in `trim_case` loses
  the case.  A kill between the truncation and the writing of `fuzzer_stats`
  makes every later start end with "Malformed data".  Backups of crashes made
  within one second have one name: the second rename fails and the crashes are
  deleted (the model takes resumes to be a second apart).  A resumed session
  measures OUTPUT_GRACE from itself only.  A round of `sync_fuzzers` passes over
  a case that is still empty, or whose file the other fuzzer has just moved.
* *afl-tmin.*  The alphabet and character stages are not repeated after a
  deletion pass without success, so the result need not be minimal in symbols; a
  single late alarm can refuse a change that would do.

## 5. Proofs

All theorems hold for every value of the constants that the modules' `ASSUME`s
admit (`AutomataAssumption`, `ServerAssumption`, `EventLogAssumption`,
`ForkServerAssumption`, `SeedQueueAssumption`, `CampaignAssumption`,
`SubjectAssumption`, `ConfigAssumption`, `OutDirAssumption`, `RoundsAssumption`, `TMinAssumption`):
any automata, any number of threads, sessions, workers, inputs, processes and
cases, any protocol, seeds, mutated buffers and dictionaries, any capacity, any
target.  Most of them give the constants a type.  Three say more, and three theorems have hypotheses
of their own:

* `CampaignAssumption` has `IsProgram(Program)`: an input that passes no event
  location leaves the program where it is.  A RERS program ignores an input its
  state has no rule for.  Prefixes need this, since the runtime builds them from
  the events it saw and so leaves such inputs out.
* `ConfigAssumption` has what `config.h` fulfils and `fuzz_one` relies on: a token
  of the automatic dictionary has at least two bytes; the tokens in use are
  within the half that is never evicted; the blocks of havoc are ordered by size;
  powers of two are positive (induction over a recursive definition, which
  TLAPS lacks; TLC evaluates it).
* `SubjectAssumption` of `FuzzOne` has files that are not empty (the code
  skips empty ones) and a dictionary sorted by size (the `qsort` of
  `load_extras`).  Unsorted, `OutBufRestored` is false.
* `OneTrace` is a hypothesis of `BestStaysBest` and `FavoredSuffice` only: the
  successful runs of one input take one trace.  Without it both are false, and
  TLC finds the counterexamples (`BestIsBest` and `FavoredCover` with
  `Outcomes <- Flaky`): an entry keeps the edges of the trace it had when it was
  calibrated first.
* `AcceptanceStays` and `StatesToldApart` are hypotheses of `ReportsAreReal`
  only.  The first says that no edge leaves an accepting state and that each has
  one.  That is so of an automaton that watches for something forbidden (`Twice`,
  `Never` in `MCCampaign`), and not of one that waits for an answer (`Answers`),
  for which TLC finds a report that is wrong (section 4).  The second says that
  the hash by which the runtime finds a loop differs for different states of the
  program; a RERS target hashes all its variables, and a collision would be a
  loop that is none.

| Theorem | States | Argument |
|---|---|---|
| `TraceServerProofs!FeedTypeCorrect` | `FeedTypeOK` | a move leads to an edge's destination |
| `TraceServerProofs!Soundness` | `WalkIsSound` | inductive with `TypeOK`: the edge a move takes is enabled, since the last cube of its label holds |
| `TraceServerProofs!Exactness` | `WalkIsExact` | inductive with `TypeOK`: with one cube a label, every enabled edge is a candidate, and there is at most one |
| `TraceServerProofs!TypeCorrect` | `TypeOK` | needs that a walking thread is at an existing object, edge and cube |
| `TraceServerProofs!MutualExclusion` | `ObjectExclusion` | a walking thread's object is in `mtx`, and two threads never hold one |
| `TraceServerProofs!WholeSessions` | `SessionIsWhole` | *Sessions* |
| `TraceServerProofs!RacesAlone` | `OnlyRacesMislead` | *Races* |
| `EventLogProofs!TypeCorrect` | `TypeOK` | also that an open file exists and the channel keeps its capacity |
| `EventLogProofs!EventsAreKept` | `NothingIsLost` | *Events* |
| `EventLogProofs!TraceIsWhole` | `LoadedIsLogged` | from `NothingIsLost` and the end of the writer |
| `ForkServerProofs!TypeCorrect` | `TypeOK` | with the rest of *Fork server* |
| `ForkServerProofs!MessagesInTurn` | `PipeInStep` | *Fork server* |
| `ForkServerProofs!OneChildAtATime` | `NoStray` | *Fork server* |
| `ForkServerProofs!FaultsAreReal` | `FaultIsReal` | *Fork server* |
| `SeedQueueProofs!TypeCorrect` | `TypeOK` | with *Seed queue* |
| `SeedQueueProofs!ReferencesAreRight` | `ReferencesCounted` | *Seed queue* |
| `SeedQueueProofs!PendingIsRight` | `PendingCounted` | *Seed queue* |
| `SeedQueueProofs!BestStaysBest` | `OneTrace` implies `BestIsBest` | *Seed queue* |
| `SeedQueueProofs!FavoredSuffice` | `OneTrace` implies `FavoredCover` | *Seed queue* |
| `SeedQueueProofs!FuzzTypeCorrect` | `FuzzTypeOK` | with *Dictionaries* and *Havoc* |
| `SeedQueueProofs!OutBufCorrect` | `OutBufRestored` | *Dictionaries* |
| `SeedQueueProofs!AutoCorrect` | `AutoAreTokens` | *Dictionaries* |
| `SeedQueueProofs!UsefulCorrect` | `UsefulTokensStay` | *Dictionaries* |
| `SeedQueueProofs!BufferFitsCorrect` | `BufferFits` | *Havoc* |
| `SeedQueueProofs!HavocCorrect` | `HavocBounded` | *Havoc* |
| `SeedQueueProofs!SpliceCorrect` | `SpliceDiffers` | *Havoc* |
| `SeedQueueProofs!WalksCorrect` | `WalksAreEarned` | *Stages* |
| `CampaignProofs!TypeCorrect` | `TypeOK` | with *Campaign* |
| `CampaignProofs!NoPathWithoutPrefix` | `PathsHavePrefixes` | *Campaign* |
| `CampaignProofs!RersFollows` | `RersFollowsPath` | *Campaign* |
| `CampaignProofs!RersPrefixesLead` | a prefix in the table leads along its path | *Campaign* |
| `CampaignProofs!ReportsAreReal` | `AcceptanceStays` and `StatesToldApart` imply `CounterexampleIsReal` | *Counterexamples* |
| `KlMessagesProofs!TypeCorrect` | `TypeOK` | with *Messages* |
| `KlMessagesProofs!MemoryCorrect` | `MemoryIsSound` | *Messages* |
| `KlMessagesProofs!BufferCorrect` | `SessionIsBuffer` | *Messages*, *Regions* |
| `KlMessagesProofs!SavedCorrect` | `SavedWasSent` | *Messages* |
| `KlMessagesProofs!OpenableCorrect` | `SavedCanBeOpened` | *Messages*, *Regions* |
| `KlMessagesProofs!Refinement` | `ListRefined` | each step of `KlMessages` is one of `MessageList` or a stutter |
| `OutDirProofs!TypeCorrect` | `DirTypeOK` | entries are numbered below the cases there have been |
| `OutDirProofs!OneSession` | two processes are never both past the lock | who is past it holds it |
| `OutDirProofs!QueueAgrees` | `QueueIsOnDisk` | *Directory* |
| `OutDirProofs!CrashesOutlive` | `CrashesAreKept` | with it: crashes are only deleted by a fresh session, which has given them up |
| `OutDirProofs!WorkSurvives` | `ResumeFindsAll` | *Resume* |
| `OutDirProofs!ReaderIsHarmless` | `SyncSpec` implies `Spec` of `OutDir` | a step of the reader leaves the directory's variables alone |
| `OutDirProofs!SyncTypeCorrect` | `SyncTypeOK` | with *Synchronisation* |
| `OutDirProofs!NothingPassedOver` | `SyncTriesAll` | *Synchronisation* |
| `OutDirProofs!NothingTwice` | `TriedOnce` | *Synchronisation* |
| `TMinProofs!TypeCorrect` | `TypeOK` | blocks never become empty, symbols are left to try in one stage only |
| `TMinProofs!ResultIsFaithful` | `KeptIsFaithful` | *Minimizer* |
| `TMinProofs!NoByteToSpare` | `OneMinimal` | *Minimizer* |

*Sessions.*  `SessionIsWhole` is not inductive.  The invariant (`Inv` of
`TraceServerProofs`) adds that the identifiers of requests in preparation are
distinct and not known to any client, that a stored list is the prefix of the
prepared one up to `at`, and that a known session is stored as it was prepared.
The publication of an empty list is harmless because its name is still secret.

*Races.*  `Clean` says of a thread that no race disturbed that its locals are
those of the walk `BuchiWalk` describes: the recorded states are greedy moves
from the initial state (`IsWalk`), the loop over the edges has passed no hit and
keeps the last TRUE edge (`Scanned`), and each static between the callback and
its reader holds what the thread's own callbacks left (`StaticsOK`).  Another
thread can break only the last, by one of the steps that `Victims` names, and is
recorded then (`BystanderClean`).  At the end of a walk the recorded states,
continued with `Dead`, satisfy the equation of the recursive function of
`WalkTo` (`WholeWalkEnds`), so that `Accepts` of them is the `Verdict`
(`AcceptsIsVerdict`); `violations` holds the verdicts of the properties before
`at`.

*Events.*  `Inv` of `EventLogProofs` adds where each worker and its writer are
(`Phase`), and, when no input is run twice, that names are given to one worker
(`NamesAreGiven`), no two workers have one file open (`NobodyShares`) and a
name in the directory leads to the file its worker writes (`NameIsFile`).  Then
what impl has logged is always file, hand and channel, in this order.

*Fork server.*  `Inv` of `ForkServerProofs` adds to the types what is on the two
pipes in every place of `run_target` (`InStep`), and what becomes of children
(`Children`): unless a stop was asked for, the only one that exists is the one
of this run or the persistent one between two runs (`OnlyCurrent`); its state,
or the status that is told of it on its way through the server and the pipe,
says what really happened in this run (`Fates`); and one that the server holds
stopped was not lost, or has been killed in a way that makes `afl-fuzz` have the
server reap it (`StoppedOne`).  The signal between the fork and the read of the
process id is why `Children` ends with `stop_soon`.

*Seed queue.*  `ReferencesCounted` is inductive with the types and a few facts
about where `afl-fuzz` is (`Typed`).  `PendingCounted` rests on two facts:
an entry holds edges only once its calibration succeeded (`Unrated`), and one
that is not fuzzed yet has the edges it holds in its `trace_mini`, hence is
picked once by `cull_queue` (`UpToDate`); a trim may break this, but only
for the entry whose turn ends with `was_fuzzed`.  With `OneTrace`, an entry's
checksum is the trace of its input (`Traces`) and it holds edges of that trace
only (`Within`); the entries that lose a contest are no better, and since the
last cull the favored entries take every edge somebody holds (`Covered`).

*Dictionaries.*  The invariant of `fuzz_one` is `FuzzShape`.  While the last bits
are flipped, what has been collected is the run of bytes with one hash that ends
before `i` (`RunSoFar`); so what `maybe_add_auto` is given is a whole run, and
every run up to here is known (`CollectStep`, `KnownUpTo`).
Behind the top that is sorted by size each token is used at most as often as any
before it, so the upper half is used as often as what is evicted from the lower
one (`UpperHalf`, `AutoAdds`).  `Overwrite` writes tokens without undoing them
in between: the dictionary in use is sorted by size (`AutoIsSorted`), each token
covers the ones before, and undoing the last one undoes them all
(`OverwriteLoop`, `OverwriteRestored`).

*Havoc.*  A stacked operation leaves a buffer of at least one byte that fits
(`BufferFits` is inductive with the types), since a block to delete is shorter
than the buffer and one to insert has room.  `Scores` bounds the number of
inputs of a stage by the share of the score it began with (`BoundBegins`), which
doubles when the score does (`BoundDoubles`).  A splice point lies
before the last byte in which the files differ, so the part taken from the other
one is not the entry's (`SplitFacts`, `Joined`).

*Stages.*  `WorkDone` says of every stage but the sums that it has settled all
positions below the one it has reached (`Reach`); behind the last position that
is all of them.  It is inductive since a stage is left out only where it has
nothing to try (`Void`, `FollowRank`, `ReachMoves`) and since the effector map is
complete before a stage looks at it (`MapFirst`).  A word whose blocks are not
flagged changes only such blocks (`PutBlocks`).  The tokens are the hard part:
each is compared with what the ones before it have left of the buffer, and is
skipped when it is there already.  A token at least as long as those before it
covers all of them, so what it would write is the input with this token, which
was run when it was written (`TokenCovers`, `OverwriteTries`); this too rests on
the dictionary being sorted by size.

*Campaign.*  The core is about one execution.  `PathFrom(A, P, xs)` is the path
of the execution that reads `xs`, and `Leads(A, P, p, x)` says that `p` is a
prefix of the path of `x` followed by anything.  `PrefixLeads`: the prefix that
the runtime builds leads along the path it reports.  The entries the
callbacks collect form a `Chain` of program steps; the inputs among the first of
them make the program collect the same entries again (`EntriesAgain`), whatever
follows only appends to them (`EntriesStay`); traces that agree have paths that
agree, and a longer trace has a longer path (`PathsAgree`, `PathsStay`).  Over
this, `Inv` says for every pair in the table, in the driver's selection and
in the hands of a writing target that the prefix leads along the path
(`TableOK`, `SelOK`, `Runs`), whoever was killed where.  The definitions over
traces are recursive functions; the lemmas go by the least counterexample
(`LeastElement`, `SetInduction`) and describe a loop as a function with its
equation (`IsLoop`, `LoopExists`, `UpTo`).

*Counterexamples.*  The states that `PathOf` returns are one run of the automaton
for as long as it moves (`GreedyIsRun`, `WalkIsRun`), so the state
`check_acceptance` takes is one the automaton is in after the whole trace
(`PathEndsAlive`, `WalkRemains`), and if an accepting state was visited it is
that state, since none is left (`PathEndsThere`).  `check_conditions` finds that
its self loop is enabled by every event between the last two places with one
hash (`ConditionsEnable`); with injective hashes the program can repeat exactly
these (`TracesBegin`).  Then what `Violates` computes over the product of program
and automaton, the states after any number of rounds of that loop and those from
which a round passes an accepting one, contains the state itself
(`PassesFacts`, `ClosedKeeps`, `LoopAccepted`).

*Messages.*  What the list is like is said by operators on its value, so that
one step after the other can be looked at without the rest of the fuzzer.
`Heap(list, S)`: the nodes of `S` are the ones with an allocated message, the
pool holds none of them, no node twice and not the tail, and `size` counts `S`.
`Way(list, W)`: the nodes of `W`, each once, are linked from the head to the
tail.  `Core` says which messages they carry and between which of them `M2_prev`
and `M2_next` are.  Three shapes of a list occur (`Held`): between two mutations
it is the session (`IsSteady`); while new messages are pushed it is the session
with some of them behind it (`IsPushing`); after the splice the session, with the
rest of the old M2 as a way of its own into it (`IsFreeing`).  A push keeps the
heap (`PushKeeps`), whether the node is new or comes from the pool; the splice
sets two or three links on nodes that differ (`RelinkFacts`), and walking the
places in their new order (`Moved`) gives the links of the result
(`SpliceWay`); freeing takes a node from the heap and leaves every link
(`FreeKeeps`).  `IInv` says which shape the list has at each `pc` (`ListInv`), that the locals
of `common_fuzz_stuff` point into the heap (`PointerInv`), and that every entry
of the queue can be opened and was sent as far as it must have been
(`QueueInv`).

*Regions.*  Every parser's region ends at or behind its beginning, and only that
of dns behind the buffer (`EndOfFacts`); so the chain of beginnings grows until it
passes the end (`ChainRuns`), and the regions follow each other without a gap
(`RegionFacts`).  Concatenated (`FlattenCut`, `BytesJoin`) they are the buffer up
to the end of the last one.

*Directory.*  `QueueIsOnDisk` speaks of the phases after the import.  `Inv` of
`OutDirProofs` says for every phase what of the queue in memory is on disk
already (`OnDisk`): nothing before `queue/` is made, the first `at - 1` entries
during the import, all but the file being written during a find or a trim.  What
makes it inductive is that only the holder of the lock touches the directory
(`LockHeld`): the steps of one process are looked at alone (`OwnInv`), and the
others neither move nor see the directory change under them.

*Resume.*  `Safe` says for every phase where all that was found and marked is: in
`_resume/` from the rename until the last entry has its place in the new
`queue/`, in memory from the import on, in `queue/` as soon as `_resume/` is
being deleted.  A process that is not there needs nothing, so a kill keeps it,
but in the two directories that the property excepts (`Excepted`).  The import
reads the entries by rank and so meets each of them (`Ranked` is onto).

*Synchronisation.*  By `ReaderIsHarmless` what is proved of `OutDir` holds with a
reader beside it.  A round of it stores a number, so what counts is that numbers
keep their meaning while the owner of the directory is killed and resumes, which
gives the entries new numbers by rank.  Files are as many as the cases
(`Sized`); unless a kill has torn a directory, only what is being deleted or
trimmed, or what nobody will read, has gaps (`Dense`), so that the rank of an
entry is its number, and no case ever has two numbers in `queue/`, `_resume/`
and memory together (`OnePlace`).  A case that was whole when a round began and
has not left keeps its content (`ContentStays`), hence is run when its name is
returned (`Seen`); a case whose number is not below the minimum was run in rounds
that were broken off only (`Counted`).

*Minimizer.*  A file is faithful if it is the given one or has an outcome that
would be kept.  The dry run fixes what that means and nothing changes it later
(`VerdictStays`); every stage replaces `in_data` by the very file it ran, the
character stage because `tmp_buf` and `in_data` agree whenever it goes on to the
next byte (`CopyInStep`); and nothing happens after the file is written.  For
`OneMinimal`, `Tried` follows the last pass: as long as it has changed nothing,
its round of single bytes has seen every byte before `pos` refused, or equal to
its predecessor, and then the file without the one is the file without the
other (`WithoutNeighbour`); a pass goes on until that round (`RoundIsWhole`), and
its later stages leave the file alone.  The types need that a block is never
empty, hence that the powers of two exist (`StepFunction`, `DoubledGrows`).

*Only model-checked*: liveness (`EveryRequestIsAnswered`, `StopReturns`,
`RunReturns`, `FavoredGetTheirTurn`, `CampaignEnds`, `MinimizeEnds`) and ENABLED
are beyond TLAPS.  So is one half of `DetDoneIsEarned`: `SumsSettled` compares
what the arithmetic stages run with what they promise, byte by byte with carries;
the provers know no division of products by powers of two, on which
`could_be_bitflip` and its like rest, and the run on four files says it instead.

## 6. What is not modelled

* Spot and BuDDy are external: an automaton and the cubes of its labels are
  inputs, and BuDDy's global tables are taken to be reentrant.
* UUIDs are fresh by 128 random bits.  `os.RemoveAll` is one step.  The tested
  function's failure does not end its worker.  An exclusion list shorter than
  the list of properties (an out-of-range read) is not an input.
* In `ForkServer`: failed `exec`, the MSAN exit code, the memory limit, EINTR;
  the persistent mode's deferred start; QEMU's copy of the same loop.
* In `SeedQueue`: the crash exploration and dumb modes, an uninstrumented target,
  resumed sessions (`seek_to`), `AFL_IMPORT_FIRST`, the 40 calibration runs of a
  varying input (as many as of any other), failing system calls, the maps of
  crashes and hangs.  A command line names either a common or a protocol subject.
* In `Campaign`: parsing of the formula and of the event files, the distances to
  targets (not in the shipped build), a prefix file without a delimiter (a
  division by zero at PathStore.cc:120 that no writer can cause).  AFLGo is what
  it does with the target: runs on the prefix and some tail, killed at will.
* In `KlMessages`: the response parsers (`extract_response_codes_*`), which no
  code calls, `parse_net_config`, timing of the socket.  In `FuzzOne`: loading of
  dictionaries, the annealing schedule (a score is a parameter), and dictionaries
  of more than `MAX_DET_EXTRAS` (200) tokens, of which a random part is tried.
* In `OutDir`: failing system calls other than a kill, the plot, the bitmap and
  the automatic dictionary on disk.  In `TMin`: options, QEMU, the creation of
  the process; the checksum has no collision.
* Components with status `not_modelled` in `PROJECT.json`: code generation that
  runs once per build, distance calculation, and tools that run a target once
  and print what they saw (afl-showmap, afl-analyze, afl-gotcpu) keep no state of
  the running system.

## 7. Plan

1. An abstract evaluator that answers each request in one step; `TraceServer`
   with one object implements it.

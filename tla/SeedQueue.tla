----------------------------- MODULE SeedQueue ------------------------------
(***************************************************************************)
(* The seed queue of afl-fuzz: the dry run of the initial seeds, the       *)
(* calibration of an entry, the contest for the best entry of every edge,  *)
(* culling, and the life of an entry in fuzz_one.                          *)
(***************************************************************************)
EXTENDS Integers, Sequences, FiniteSets, FiniteSetsExt

CONSTANTS NEdges,        \* MAP_SIZE
          Hits,          \* classes of hit counts, without 0
          Input,         \* what entries and mutants hold
          Length,        \* of an input
          Outcomes,      \* what a run of an input may do
          Speeds,        \* execution times that are told apart
          Options,       \* command lines
          CAL_CYCLES, CAL_CHANCES,
          TrimFrom,      \* 5: shorter entries are not trimmed
          SkipAbove,     \* 10: in shorter queues nothing is skipped
          MaxQueue       \* bound: entries

Edge    == 1 .. NEdges
Trace   == [Edge -> Hits \cup {0}]
NoTrace == [e \in Edge |-> 0]                \* also a checksum of 0
Bad     == {"tmout", "crash"}
Outcome == [fault : Bad \cup {"none"}, trace : Trace, distance : Int]
Option  == [protocol : BOOLEAN,              \* -N, a network target
            skips    : SUBSET Bad,           \* -t nn+, AFL_SKIP_CRASHES
            sync     : BOOLEAN]              \* -M or -S, not with -N

ASSUME SeedQueueAssumption ==
    /\ NEdges \in Nat /\ 0 \notin Hits
    /\ Length \in [Input -> Nat \ {0}]
    /\ Outcomes \in [Input -> SUBSET Outcome]
    /\ \A i \in Input : \A r \in Outcomes[i] : r.trace # NoTrace
    /\ Speeds \subseteq Nat /\ Options \subseteq Option
    /\ CAL_CYCLES \in Nat \ {0} /\ CAL_CHANCES \in Nat \ {0}
    /\ TrimFrom \in Nat /\ SkipAbove \in Nat /\ MaxQueue \in Nat

VARIABLES
    opt,                  \* the command line of this behaviour
    pc,
    queue, queue_cur,     \* 0 is NULL
    top_rated, score_changed,
    queued_favored, pending_favored, pending_not_fuzzed,
    virgin_bits,          \* the hit classes not seen yet, for every edge
    max_distance, min_distance,
    cal                   \* what calibrate_case is at

opts   == <<opt>>
place  == <<pc, queue_cur>>
best   == <<top_rated, score_changed>>
counts == <<queued_favored, pending_favored, pending_not_fuzzed>>
range  == <<max_distance, min_distance>>
vars   == <<opt, place, queue, best, counts, virgin_bits, range, cal>>

Goto(l) == pc' = l
Bits(trace) == {e \in Edge : trace[e] # 0}
Ended == pc \in {"fatal", "stopped"}

-----------------------------------------------------------------------------
(* New coverage and new entries.                                           *)

(* 2: an edge never seen, 1: a count never seen, 0: nothing new.           *)
has_new_bits(virgin, trace) ==
    IF \E e \in Bits(trace) : virgin[e] = Hits THEN 2
    ELSE IF \E e \in Bits(trace) : trace[e] \in virgin[e] THEN 1 ELSE 0

Cleared(virgin, trace) == [e \in Edge |-> virgin[e] \ {trace[e]}]

(* Distances of -1 (none) and 0 do not count.                              *)
SeeDistance(d) ==
    IF d <= 0 THEN UNCHANGED range
    ELSE /\ max_distance' = IF max_distance <= 0 \/ d > max_distance
                            THEN d ELSE max_distance
         /\ min_distance' = IF max_distance <= 0 \/ d < min_distance
                            THEN d ELSE min_distance

Entry(i, d) ==
    [input |-> i, len |-> Length[i], exec_us |-> 0, distance |-> d,
     cal_failed |-> 0, exec_cksum |-> NoTrace, has_new_cov |-> FALSE,
     was_fuzzed |-> FALSE, favored |-> FALSE, trim_done |-> FALSE,
     tc_ref |-> 0, trace_mini |-> {}]

Idle == [q |-> 0, caller |-> "none", first_run |-> FALSE, new_bits |-> 0,
         stage_cur |-> 0, trace_bits |-> NoTrace]

(* read_testcases: the seeds have no distance yet.                         *)
Init ==
    /\ opt \in Options
    /\ \E n \in 1 .. MaxQueue : \E s \in [1 .. n -> Input] :
          queue = [k \in 1 .. n |-> Entry(s[k], -1)]
    /\ pc = "dry_run" /\ queue_cur = 1
    /\ top_rated = [e \in Edge |-> 0] /\ score_changed = FALSE
    /\ queued_favored = 0 /\ pending_favored = 0
    /\ pending_not_fuzzed = Len(queue)
    /\ virgin_bits = [e \in Edge |-> Hits]
    /\ max_distance = -1 /\ min_distance = -1
    /\ cal = Idle

-----------------------------------------------------------------------------
(* The best entry of every edge.                                           *)

Factor(x) == x.exec_us * x.len

(* The edges entry q of qs wins, having taken the branches of trace.       *)
Won(qs, q, trace) ==
    {e \in Bits(trace) :
        top_rated[e] = 0 \/ Factor(qs[q]) <= Factor(qs[top_rated[e]])}

(* Mutant: q loses no reference on the edges it defends.                   *)
RescoredTwice(qs, q, trace) ==
    LET won     == Won(qs, q, trace)
        left(k) == qs[k].tc_ref - Cardinality({e \in won : top_rated[e] = k})
    IN [k \in DOMAIN qs |->
          IF k = q
          THEN [qs[k] EXCEPT !.tc_ref = @ + Cardinality(won),
                             !.trace_mini = Bits(trace)]
          ELSE [qs[k] EXCEPT !.tc_ref = left(k),
                             !.trace_mini = IF left(k) = 0 THEN {} ELSE @]]

(* The loop over the edges takes a reference from the loser before it      *)
(* gives one to q: if q defends its only one first, its bits are redone.   *)
Rescored(qs, q, trace) ==
    LET won     == Won(qs, q, trace)
        held(k) == {e \in won : top_rated[e] = k}
        left(k) == qs[k].tc_ref - Cardinality(held(k))
        redo    == won # {} /\ (\/ qs[q].trace_mini = {}
                                \/ qs[q].tc_ref = 1 /\ Min(won) \in held(q))
    IN [k \in DOMAIN qs |->
          IF k = q
          THEN [qs[k] EXCEPT !.tc_ref = left(k) + Cardinality(won),
                             !.trace_mini = IF redo THEN Bits(trace) ELSE @]
          ELSE [qs[k] EXCEPT !.tc_ref = left(k),
                             !.trace_mini = IF left(k) = 0 THEN {} ELSE @]]

(* Mutant: a change of the score is one that displaces a winner.           *)
ScoreDisplaced(qs, q, trace) ==
    LET won == Won(qs, q, trace)
    IN /\ queue' = Rescored(qs, q, trace)
       /\ top_rated' = [e \in Edge |-> IF e \in won THEN q ELSE top_rated[e]]
       /\ score_changed' =
            (score_changed \/ \E e \in won : top_rated[e] # 0)

update_bitmap_score(qs, q, trace) ==
    /\ queue' = Rescored(qs, q, trace)
    /\ top_rated' = [e \in Edge |-> IF e \in Won(qs, q, trace) THEN q
                                    ELSE top_rated[e]]
    /\ score_changed' = (score_changed \/ Won(qs, q, trace) # {})

(* The edges for which the loop of cull_queue favors an entry: those that  *)
(* no entry favored for an earlier edge has taken out of temp_v.           *)
Rated == {e \in Edge : top_rated[e] # 0}
Picked(edges) ==
    edges = {e \in Rated :
               \A d \in edges :
                   d < e => e \notin queue[top_rated[d]].trace_mini}

cull_queue ==
    IF ~ score_changed
    THEN UNCHANGED <<queue, best, counts>>
    ELSE \E edges \in SUBSET Rated :
         /\ Picked(edges)
         /\ score_changed' = FALSE
         /\ queue' = [k \in DOMAIN queue |->
                        [queue[k] EXCEPT !.favored =
                           \E e \in edges : top_rated[e] = k]]
         /\ queued_favored' = Cardinality(edges)
         /\ pending_favored' =
              Cardinality({e \in edges : ~ queue[top_rated[e]].was_fuzzed})
         /\ UNCHANGED <<top_rated, pending_not_fuzzed>>

-----------------------------------------------------------------------------
(* Calibration: CAL_CYCLES runs of entry q, for the caller at place who.   *)

Calibrate(qs, q, who) ==
    /\ queue' = [qs EXCEPT ![q].cal_failed = @ + 1]
    /\ cal' = [Idle EXCEPT !.q = q, !.caller = who,
                           !.first_run = (qs[q].exec_cksum = NoTrace)]
    /\ Goto("calibrate")

WithCov(x) == [x EXCEPT !.has_new_cov = @ \/ cal.new_bits = 2]

AnotherRun == pc = "calibrate" /\ cal.stage_cur < CAL_CYCLES

(* The first has_new_bits, for the distance, leaves none to the second.    *)
CalibrationRun ==
    /\ AnotherRun
    /\ \E r \in Outcomes[queue[cal.q].input] :
         LET x     == queue[cal.q]
             fresh == x.distance <= 0
             hnb   == has_new_bits(virgin_bits, r.trace)
             odd   == x.exec_cksum # r.trace
         IN /\ r.fault = "none"
            /\ queue' = [queue EXCEPT ![cal.q] =
                  [x EXCEPT !.distance = IF fresh THEN r.distance ELSE @,
                            !.exec_cksum = IF @ = NoTrace THEN r.trace
                                           ELSE @]]
            /\ virgin_bits' = IF fresh \/ odd
                              THEN Cleared(virgin_bits, r.trace)
                              ELSE virgin_bits
            /\ IF fresh THEN SeeDistance(r.distance) ELSE UNCHANGED range
            /\ cal' = [cal EXCEPT !.stage_cur = @ + 1,
                  !.trace_bits = r.trace,
                  !.new_bits = IF odd /\ ~ fresh /\ hnb > @
                               THEN hnb ELSE @]
    /\ UNCHANGED <<opts, place, best, counts>>

(* What the caller does with the fault that calibration returns.           *)
Skip(fault) == fault \in opt.skips

AllSkipped ==
    \A k \in DOMAIN queue :
        k < cal.q => queue[k].cal_failed = CAL_CHANCES

Return(fault) ==
    \/ /\ cal.caller = "dry_run" /\ fault \in Bad /\ ~ Skip(fault)
       /\ Goto("fatal") /\ UNCHANGED queue_cur
    \/ /\ cal.caller = "dry_run" /\ (fault \in Bad => Skip(fault))
       /\ IF cal.q < Len(queue)
          THEN Goto("dry_run") /\ queue_cur' = cal.q + 1
          ELSE /\ Goto(IF fault \in Bad /\ AllSkipped
                       THEN "fatal" ELSE "main")
               /\ queue_cur' = 0
    \/ /\ cal.caller = "recalibrate"
       /\ Goto(IF fault \in Bad THEN "abandon" ELSE "trim")
       /\ UNCHANGED queue_cur
    \/ /\ cal.caller \in {"havoc", "sync"}
       /\ Goto(cal.caller) /\ UNCHANGED queue_cur

GivenUp(fault) ==
    IF cal.caller = "dry_run" /\ Skip(fault)
    THEN CAL_CHANCES ELSE queue[cal.q].cal_failed

CalibrationFails ==
    /\ AnotherRun
    /\ \E r \in Outcomes[queue[cal.q].input] :
         /\ r.fault # "none"
         /\ queue' = [queue EXCEPT ![cal.q] =
               [WithCov(@) EXCEPT !.cal_failed = GivenUp(r.fault)]]
         /\ Return(r.fault)
    /\ cal' = Idle
    /\ UNCHANGED <<opts, best, counts, virgin_bits, range>>

CalibrationEnds ==
    /\ pc = "calibrate" /\ cal.stage_cur = CAL_CYCLES
    /\ \E us \in Speeds :
         update_bitmap_score(
            [queue EXCEPT ![cal.q] =
               [WithCov(@) EXCEPT !.exec_us = us, !.cal_failed = 0]],
            cal.q, cal.trace_bits)
    /\ Return(IF cal.first_run /\ cal.new_bits = 0 THEN "nobits"
              ELSE "none")
    /\ cal' = Idle
    /\ UNCHANGED <<opts, counts, virgin_bits, range>>

DryRun ==
    /\ pc = "dry_run"
    /\ Calibrate(queue, queue_cur, "dry_run")
    /\ UNCHANGED <<opts, queue_cur, best, counts, virgin_bits, range>>

-----------------------------------------------------------------------------
(* The main loop and fuzz_one.                                             *)

NextEntry ==
    /\ pc = "main"
    /\ cull_queue
    /\ queue_cur' = IF queue_cur = 0 THEN 1 ELSE queue_cur
    /\ Goto("fuzz_one")
    /\ UNCHANGED <<opts, virgin_bits, range, cal>>

cur == queue[queue_cur]

Advance ==
    /\ queue_cur' = IF queue_cur < Len(queue) THEN queue_cur + 1 ELSE 0
    /\ Goto("main")

(* Mutant: pending favorites let any entry be skipped.                     *)
MaySkipAny == \/ pending_favored > 0
              \/ ~ cur.favored /\ Len(queue) > SkipAbove

MaySkip ==
    IF pending_favored > 0 THEN cur.was_fuzzed \/ ~ cur.favored
    ELSE ~ cur.favored /\ Len(queue) > SkipAbove

SkipEntry ==
    /\ pc = "fuzz_one" /\ MaySkip
    /\ Advance
    /\ UNCHANGED <<opts, queue, best, counts, virgin_bits, range, cal>>

(* A protocol subject goes straight to its mutations.                      *)
TakeEntry ==
    /\ pc = "fuzz_one"
    /\ ~ (~ opt.protocol /\ 0 < cur.cal_failed
                         /\ cur.cal_failed < CAL_CHANCES)
    /\ Goto(IF opt.protocol THEN "havoc"
            ELSE IF cur.cal_failed > 0 THEN "abandon" ELSE "trim")
    /\ UNCHANGED <<opts, queue_cur, queue, best, counts, virgin_bits,
                   range, cal>>

Recalibrate ==
    /\ pc = "fuzz_one" /\ ~ opt.protocol
    /\ 0 < cur.cal_failed /\ cur.cal_failed < CAL_CHANCES
    /\ Calibrate(queue, queue_cur, "recalibrate")
    /\ UNCHANGED <<opts, queue_cur, best, counts, virgin_bits, range>>

(* Mutant: the shorter entry does not contend again.                       *)
TrimOnly ==
    \E l \in 1 .. cur.len :
        /\ cur.len < TrimFrom => l = cur.len
        /\ queue' = [queue EXCEPT ![queue_cur] =
                        [@ EXCEPT !.len = l, !.trim_done = TRUE]]
        /\ UNCHANGED best

(* What is cut off leaves the checksum as it was, so clean_trace is the    *)
(* trace the checksum is of.                                               *)
trim_case ==
    \E l \in 1 .. cur.len :
        /\ cur.len < TrimFrom => l = cur.len
        /\ LET qs == [queue EXCEPT ![queue_cur] =
                        [@ EXCEPT !.len = l, !.trim_done = TRUE]]
           IN IF l < cur.len
              THEN update_bitmap_score(qs, queue_cur, cur.exec_cksum)
              ELSE queue' = qs /\ UNCHANGED best

Trim ==
    /\ pc = "trim"
    /\ IF cur.trim_done THEN UNCHANGED <<queue, best>> ELSE trim_case
    /\ Goto("havoc")
    /\ UNCHANGED <<opts, queue_cur, counts, virgin_bits, range, cal>>

(* common_fuzz_stuff, or sync_fuzzers, ran an input with new coverage.     *)
(* Whatever else such a run does leaves the queue alone.                   *)
SaveIfInteresting ==
    /\ pc \in {"havoc", "sync"}
    /\ Len(queue) < MaxQueue
    /\ \E i \in Input : \E r \in Outcomes[i] :
         LET hnb == has_new_bits(virgin_bits, r.trace)
             new == [Entry(i, r.distance) EXCEPT
                       !.has_new_cov = (hnb = 2), !.exec_cksum = r.trace]
         IN /\ r.fault = "none" /\ hnb > 0
            /\ virgin_bits' = Cleared(virgin_bits, r.trace)
            /\ SeeDistance(r.distance)
            /\ Calibrate(Append(queue, new), Len(queue) + 1, pc)
    /\ pending_not_fuzzed' = pending_not_fuzzed + 1
    /\ UNCHANGED <<opts, queue_cur, best, queued_favored, pending_favored>>

(* Mutant: an entry is counted off every time it is fuzzed.                *)
AbandonAgain ==
    /\ pc \in {"abandon", "havoc"}
    /\ IF cur.cal_failed = 0
       THEN /\ queue' = [queue EXCEPT ![queue_cur].was_fuzzed = TRUE]
            /\ pending_not_fuzzed' = pending_not_fuzzed - 1
            /\ pending_favored' = IF cur.favored THEN pending_favored - 1
                                  ELSE pending_favored
       ELSE UNCHANGED <<queue, pending_not_fuzzed, pending_favored>>
    /\ \/ Advance
       \/ pc = "havoc" /\ opt.sync /\ Goto("sync") /\ UNCHANGED queue_cur
    /\ UNCHANGED <<opts, queued_favored, best, virgin_bits, range, cal>>

(* The end of fuzz_one, also by a skip request or by too many timeouts.    *)
AbandonEntry ==
    /\ pc \in {"abandon", "havoc"}
    /\ IF cur.cal_failed = 0 /\ ~ cur.was_fuzzed
       THEN /\ queue' = [queue EXCEPT ![queue_cur].was_fuzzed = TRUE]
            /\ pending_not_fuzzed' = pending_not_fuzzed - 1
            /\ pending_favored' = IF cur.favored THEN pending_favored - 1
                                  ELSE pending_favored
       ELSE UNCHANGED <<queue, pending_not_fuzzed, pending_favored>>
    /\ \/ Advance
       \/ pc = "havoc" /\ opt.sync /\ Goto("sync") /\ UNCHANGED queue_cur
    /\ UNCHANGED <<opts, queued_favored, best, virgin_bits, range, cal>>

SyncEnds ==
    /\ pc = "sync"
    /\ Advance
    /\ UNCHANGED <<opts, queue, best, counts, virgin_bits, range, cal>>

(* stop_soon, seen after a run of the target: nothing is touched again.    *)
Stop ==
    /\ pc \in {"calibrate", "havoc", "trim", "sync"}
    /\ Goto("stopped")
    /\ UNCHANGED <<opts, queue_cur, queue, best, counts, virgin_bits,
                   range, cal>>

Calibration == CalibrationRun \/ CalibrationFails \/ CalibrationEnds
FuzzOne == SkipEntry \/ TakeEntry \/ Recalibrate \/ Trim
             \/ SaveIfInteresting \/ AbandonEntry
Main == DryRun \/ NextEntry \/ SyncEnds \/ Calibration \/ FuzzOne

Next == Main \/ Stop
Spec == Init /\ [][Next]_vars
FairSpec == Spec /\ WF_vars(Main)

-----------------------------------------------------------------------------
(* Properties.                                                             *)

(* The variables have their types.                                         *)
EntryType ==
    [input : Input, len : Nat \ {0}, exec_us : Speeds \cup {0},
     distance : Int, cal_failed : Nat, exec_cksum : Trace,
     has_new_cov : BOOLEAN, was_fuzzed : BOOLEAN, favored : BOOLEAN,
     trim_done : BOOLEAN, tc_ref : Nat, trace_mini : SUBSET Edge]

TypeOK ==
    /\ opt \in Options
    /\ pc \in {"dry_run", "calibrate", "main", "fuzz_one", "trim", "havoc",
                "abandon", "sync", "fatal", "stopped"}
    /\ queue \in Seq(EntryType) /\ Len(queue) \in 1 .. MaxQueue
    /\ queue_cur \in 0 .. Len(queue)
    /\ top_rated \in [Edge -> 0 .. Len(queue)] /\ score_changed \in BOOLEAN
    /\ queued_favored \in Nat /\ pending_favored \in Int
    /\ pending_not_fuzzed \in Int
    /\ virgin_bits \in [Edge -> SUBSET Hits]
    /\ max_distance \in Int /\ min_distance \in Int
    /\ cal \in [q : 0 .. Len(queue),
                caller : {"none", "dry_run", "recalibrate", "havoc", "sync"},
                first_run : BOOLEAN, new_bits : 0 .. 2,
                stage_cur : 0 .. CAL_CYCLES, trace_bits : Trace]

(* update_bitmap_score counts references right: tc_ref is the number of    *)
(* edges an entry is the best of, and its trace_mini is there exactly as   *)
(* long as it is referred to, so that cull_queue never reads one that was  *)
(* freed.                                                                  *)
Slots(k) == {e \in Edge : top_rated[e] = k}
ReferencesCounted ==
    \A k \in DOMAIN queue :
        /\ queue[k].tc_ref = Cardinality(Slots(k))
        /\ queue[k].trace_mini = {} <=> queue[k].tc_ref = 0

(* pending_favored, which fuzz_one reads to see "if we have any favored,  *)
(* non-fuzzed new arrivals in the queue", and pending_not_fuzzed count     *)
(* just these entries, through culls, finds, trims and skips, and for      *)
(* inputs whose trace varies.                                              *)
Favored == {k \in DOMAIN queue : queue[k].favored}
Fresh   == {k \in DOMAIN queue : ~ queue[k].was_fuzzed}
PendingCounted ==
    /\ pending_not_fuzzed = Cardinality(Fresh)
    /\ pending_favored = Cardinality(Favored \cap Fresh)

(* When fuzz_one chooses, the favored entries take every edge that any     *)
(* calibrated entry takes.                                                 *)
Calibrated == {k \in DOMAIN queue :
                  queue[k].cal_failed = 0 /\ queue[k].exec_us > 0}
FavoredCover ==
    pc = "fuzz_one" =>
        \A k \in Calibrated : \A e \in Bits(queue[k].exec_cksum) :
            \E f \in Favored : e \in Bits(queue[f].exec_cksum)

(* The entry that holds an edge has the lowest product of time and size    *)
(* among the calibrated ones that take it, whatever was trimmed since.     *)
BestIsBest ==
    \A k \in Calibrated : \A e \in Bits(queue[k].exec_cksum) :
        /\ top_rated[e] # 0
        /\ Factor(queue[top_rated[e]]) <= Factor(queue[k])

(* A favored entry that awaits its turn gets it, or stops being favored,   *)
(* although others may be skipped and fuzz_one may give up early.          *)
Waiting(k) == k \in Favored \cap Fresh
FavoredGetTheirTurn ==
    \A k \in 1 .. MaxQueue : Waiting(k) ~> (~ Waiting(k) \/ Ended)
=============================================================================

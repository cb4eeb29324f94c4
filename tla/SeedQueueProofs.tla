-------------------------- MODULE SeedQueueProofs ---------------------------
(***************************************************************************)
(* What the seed queue guarantees for any map, any inputs, any behaviour   *)
(* of the target and any number of entries, and, from the second part on,  *)
(* what fuzz_one guarantees for any file and any dictionary.               *)
(***************************************************************************)
EXTENDS SeedQueue, FuzzOne, FiniteSetTheorems, FunctionTheorems,
        SequenceTheorems, TLAPS

-----------------------------------------------------------------------------
(* Sets of edges and sequences.                                            *)

(* A set of edges is finite and has a number of elements.                  *)
LEMMA EdgesFinite ==
    ASSUME NEW E \in SUBSET Edge
    PROVE  /\ IsFiniteSet(E) /\ Cardinality(E) \in Nat
           /\ Cardinality(E) = 0 <=> E = {}
<1>1. IsFiniteSet(Edge)
  BY FS_Interval, SeedQueueAssumption DEF Edge
<1>2. IsFiniteSet(E)
  BY <1>1, FS_Subset
<1> QED BY <1>2, FS_CardinalityType, FS_EmptySet

(* Taking a part away takes its number of elements away.                   *)
LEMMA EdgesLess ==
    ASSUME NEW E \in SUBSET Edge, NEW F \in SUBSET E
    PROVE  Cardinality(E \ F) = Cardinality(E) - Cardinality(F)
<1>1. /\ IsFiniteSet(E)
      /\ Cardinality(E) \in Nat /\ Cardinality(F) \in Nat
  BY EdgesFinite
<1>2. E \cap F = F
  OBVIOUS
<1>3. Cardinality(E \ F) = Cardinality(E) - Cardinality(E \cap F)
  BY <1>1, FS_Difference
<1> QED BY <1>2, <1>3

LEMMA IntervalSize ==
    ASSUME NEW n \in Nat
    PROVE  /\ IsFiniteSet(1 .. n) /\ Cardinality(1 .. n) = n
           /\ \A S \in SUBSET (1 .. n) : IsFiniteSet(S)
<1>1. 1 \in Int /\ n \in Int
  OBVIOUS
<1>2. /\ IsFiniteSet(1 .. n)
      /\ Cardinality(1 .. n) = IF 1 > n THEN 0 ELSE n - 1 + 1
  BY <1>1, FS_Interval, Zenon
<1>3. Cardinality(1 .. n) = n
  BY <1>2
<1> QED BY <1>2, <1>3, FS_Subset

(* Elements that were not there add theirs.                                *)
LEMMA EdgesMore ==
    ASSUME NEW E \in SUBSET Edge, NEW F \in SUBSET Edge, E \cap F = {}
    PROVE  Cardinality(E \cup F) = Cardinality(E) + Cardinality(F)
<1>1. /\ IsFiniteSet(E) /\ IsFiniteSet(F)
      /\ Cardinality(E) \in Nat /\ Cardinality(F) \in Nat
  BY EdgesFinite
<1>2. Cardinality(E \cap F) = 0
  BY FS_EmptySet
<1>3. Cardinality(E \cup F)
        = Cardinality(E) + Cardinality(F) - Cardinality(E \cap F)
  BY <1>1, FS_Union
<1> QED BY <1>1, <1>2, <1>3

(* A function on 1 .. n is a sequence of length n.                         *)
LEMMA SequenceOf ==
    ASSUME NEW S, NEW n \in Nat, NEW f \in [1 .. n -> S]
    PROVE  f \in Seq(S) /\ Len(f) = n
OBVIOUS

(* The queue is a function on 1 .. Len(queue), with entries for values.    *)
LEMMA QueueIs ==
    ASSUME TypeOK
    PROVE  /\ Len(queue) \in Nat /\ DOMAIN queue = 1 .. Len(queue)
           /\ queue \in [1 .. Len(queue) -> EntryType]
           /\ \A k \in DOMAIN queue : queue[k] \in EntryType
BY DEF TypeOK

-----------------------------------------------------------------------------
(* update_bitmap_score.                                                    *)

(* What update_bitmap_score leaves alone in an entry.                      *)
Scored(x, y) ==
    /\ x.input = y.input /\ x.len = y.len /\ x.exec_us = y.exec_us
    /\ x.distance = y.distance /\ x.cal_failed = y.cal_failed
    /\ x.exec_cksum = y.exec_cksum /\ x.has_new_cov = y.has_new_cov
    /\ x.was_fuzzed = y.was_fuzzed /\ x.favored = y.favored
    /\ x.trim_done = y.trim_done

(* qs is the queue with an entry changed that still has its references.    *)
Referring(qs) ==
    /\ qs \in [DOMAIN queue -> EntryType]
    /\ \A k \in DOMAIN queue : /\ qs[k].tc_ref = queue[k].tc_ref
                               /\ qs[k].trace_mini = queue[k].trace_mini

(* The loop over the edges moves references without losing one, and leaves *)
(* an entry that had none with the edges of its new bitmap.                *)
LEMMA ScoreFacts ==
    ASSUME TypeOK, ReferencesCounted,
           NEW qs, Referring(qs), NEW q \in DOMAIN queue,
           NEW trace \in Trace, update_bitmap_score(qs, q, trace)
    PROVE  /\ queue' \in Seq(EntryType) /\ Len(queue') = Len(queue)
           /\ DOMAIN queue' = DOMAIN queue
           /\ top_rated' \in [Edge -> 0 .. Len(queue)]
           /\ score_changed' \in BOOLEAN
           /\ \A k \in DOMAIN queue : Scored(queue'[k], qs[k])
           /\ Slots(q)' = Slots(q) \cup Won(qs, q, trace)
           /\ \A k \in DOMAIN queue \ {q} :
                 Slots(k)' = Slots(k) \ Won(qs, q, trace)
           /\ queue'[q].trace_mini \in {queue[q].trace_mini, Bits(trace)}
           /\ \A k \in DOMAIN queue \ {q} :
                 queue'[k].trace_mini \in {queue[k].trace_mini, {}}
           /\ \A k \in DOMAIN queue :
                 /\ queue'[k].tc_ref = Cardinality(Slots(k)')
                 /\ queue'[k].trace_mini = {} <=> queue'[k].tc_ref = 0
           /\ Slots(q) = {} => Slots(q)' \subseteq queue'[q].trace_mini
<1> DEFINE won     == Won(qs, q, trace)
           held(k) == {e \in won : top_rated[e] = k}
           kept(k) == qs[k].tc_ref - Cardinality(held(k))
           redo    == won # {} /\ (\/ qs[q].trace_mini = {}
                                   \/ qs[q].tc_ref = 1 /\ Min(won) \in held(q))
<1>1. /\ won \in SUBSET Edge /\ won \subseteq Bits(trace)
      /\ \A k \in DOMAIN queue : held(k) \in SUBSET Slots(k)
      /\ \A k \in DOMAIN queue : held(k) = Slots(k) \cap won
      /\ \A k \in DOMAIN queue : Slots(k) \in SUBSET Edge
      /\ Bits(trace) \in SUBSET Edge
  BY DEF Won, Bits, Slots
<1>2. /\ queue' = [k \in DOMAIN qs |->
             IF k = q
             THEN [qs[k] EXCEPT !.tc_ref = kept(k) + Cardinality(won),
                                !.trace_mini = IF redo THEN Bits(trace) ELSE @]
             ELSE [qs[k] EXCEPT !.tc_ref = kept(k),
                                !.trace_mini = IF kept(k) = 0 THEN {} ELSE @]]
      /\ top_rated' = [e \in Edge |-> IF e \in won THEN q ELSE top_rated[e]]
      /\ score_changed' = (score_changed \/ won # {})
      /\ DOMAIN qs = DOMAIN queue
      /\ \A k \in DOMAIN queue : qs[k] \in EntryType
  BY DEF update_bitmap_score, Rescored, Referring
<1> HIDE DEF won
<1>3. \A k \in DOMAIN queue :
         /\ qs[k].tc_ref = Cardinality(Slots(k))
         /\ qs[k].trace_mini = queue[k].trace_mini
         /\ qs[k].trace_mini = {} <=> Slots(k) = {}
  BY <1>1, EdgesFinite DEF Referring, ReferencesCounted
<1>4. \A k \in DOMAIN queue :
         /\ kept(k) = Cardinality(Slots(k) \ won)
         /\ kept(k) \in Nat
         /\ kept(k) = 0 <=> Slots(k) \ won = {}
  <2> TAKE k \in DOMAIN queue
  <2>1. Slots(k) \ won = Slots(k) \ held(k)
    BY <1>1
  <2>2. kept(k) = Cardinality(Slots(k) \ won)
    BY <1>1, <1>3, <2>1, EdgesLess
  <2>3. Slots(k) \ won \in SUBSET Edge
    BY <1>1
  <2> QED BY <2>2, <2>3, EdgesFinite
<1>5. Cardinality(won) \in Nat /\ (Cardinality(won) = 0 <=> won = {})
  BY <1>1, EdgesFinite
<1>6. kept(q) + Cardinality(won) = Cardinality(Slots(q) \cup won)
  <2>1. (Slots(q) \ won) \cup won = Slots(q) \cup won
    OBVIOUS
  <2>2. /\ Slots(q) \ won \in SUBSET Edge
        /\ (Slots(q) \ won) \cap won = {}
    BY <1>1
  <2> QED BY <1>1, <1>4, <2>1, <2>2, EdgesMore
<1> HIDE DEF kept, redo
<1>7. \A k \in DOMAIN queue :
         /\ queue'[k] \in EntryType /\ Scored(queue'[k], qs[k])
         /\ queue'[k].tc_ref = IF k = q THEN kept(k) + Cardinality(won)
                               ELSE kept(k)
         /\ queue'[k].trace_mini =
              IF k = q THEN IF redo THEN Bits(trace) ELSE qs[k].trace_mini
              ELSE IF kept(k) = 0 THEN {} ELSE qs[k].trace_mini
  <2> DEFINE y(k) == [qs[k] EXCEPT !.tc_ref = kept(k) + Cardinality(won),
                          !.trace_mini = IF redo THEN Bits(trace) ELSE @]
             z(k) == [qs[k] EXCEPT !.tc_ref = kept(k),
                          !.trace_mini = IF kept(k) = 0 THEN {} ELSE @]
  <2> TAKE k \in DOMAIN queue
  <2>1. queue'[k] = IF k = q THEN y(k) ELSE z(k)
    BY <1>2
  <2>2. kept(k) \in Nat /\ kept(k) + Cardinality(won) \in Nat
    <3>1. kept(k) \in Nat
      BY <1>4
    <3> QED BY <3>1, <1>5
  <2> qs[k] \in EntryType /\ Bits(trace) \in SUBSET Edge
    BY <1>1, <1>2
  <2>3. /\ y(k) \in EntryType /\ Scored(y(k), qs[k])
        /\ y(k).tc_ref = kept(k) + Cardinality(won)
        /\ y(k).trace_mini = IF redo THEN Bits(trace) ELSE qs[k].trace_mini
    BY <2>2 DEF EntryType, Scored
  <2>4. /\ z(k) \in EntryType /\ Scored(z(k), qs[k])
        /\ z(k).tc_ref = kept(k)
        /\ z(k).trace_mini = IF kept(k) = 0 THEN {} ELSE qs[k].trace_mini
    BY <2>2 DEF EntryType, Scored
  <2> QED BY <2>1, <2>3, <2>4
<1>8. top_rated \in [Edge -> 0 .. Len(queue)] /\ q \in 1 .. Len(queue)
  BY QueueIs DEF TypeOK
<1>9. /\ queue' \in Seq(EntryType) /\ Len(queue') = Len(queue)
      /\ DOMAIN queue' = DOMAIN queue
  <2>1. queue' \in [1 .. Len(queue) -> EntryType]
    BY <1>2, <1>7, QueueIs
  <2> QED BY <2>1, QueueIs, SequenceOf
<1>10. /\ top_rated' \in [Edge -> 0 .. Len(queue)]
       /\ \A e \in Edge : top_rated'[e] = IF e \in won THEN q
                                          ELSE top_rated[e]
  <2>1. q \in 0 .. Len(queue)
    BY <1>8, QueueIs
  <2> QED BY <1>2, <1>8, <2>1
<1>11. score_changed' \in BOOLEAN
  BY <1>2 DEF TypeOK
<1>12. Slots(q)' = Slots(q) \cup won
  BY <1>1, <1>10 DEF Slots
<1>13. \A k \in DOMAIN queue \ {q} : Slots(k)' = Slots(k) \ won
  BY <1>1, <1>10 DEF Slots
<1>14. redo => won # {} /\ Bits(trace) # {}
  BY <1>1 DEF redo
<1>15. ~ redo /\ won # {} => qs[q].trace_mini # {}
  BY DEF redo
<1>16. \A k \in DOMAIN queue :
         /\ queue'[k].tc_ref = Cardinality(Slots(k)')
         /\ queue'[k].trace_mini = {} <=> queue'[k].tc_ref = 0
  <2>1. /\ queue'[q].tc_ref = Cardinality(Slots(q)')
        /\ queue'[q].tc_ref = 0 <=> Slots(q) \cup won = {}
    BY <1>1, <1>6, <1>7, <1>12, EdgesFinite
  <2>2. queue'[q].trace_mini = {} <=> queue'[q].tc_ref = 0
    BY <2>1, <1>3, <1>7, <1>14, <1>15
  <2>3. ASSUME NEW k \in DOMAIN queue \ {q}
        PROVE  /\ queue'[k].tc_ref = Cardinality(Slots(k)')
               /\ queue'[k].trace_mini = {} <=> queue'[k].tc_ref = 0
    BY <1>3, <1>4, <1>7, <1>13
  <2> QED BY <2>1, <2>2, <2>3
<1>17. Slots(q) = {} => Slots(q)' \subseteq queue'[q].trace_mini
  <2> SUFFICES ASSUME Slots(q) = {}, won # {} PROVE redo
    BY <1>1, <1>7, <1>12
  <2> QED BY <1>3 DEF redo
<1> QED BY <1>3, <1>7, <1>9, <1>10, <1>11, <1>12, <1>13, <1>16, <1>17 DEF won

-----------------------------------------------------------------------------
(* The inductive invariant.                                                *)

InFuzzOne == {"fuzz_one", "trim", "havoc", "abandon", "sync"}

(* Which entries are at work, and in which state.                          *)
Control ==
    /\ pc \in InFuzzOne \cup {"dry_run"} => queue_cur # 0
    /\ pc = "trim" => cur.cal_failed = 0
    /\ pc = "calibrate" =>
         /\ cal.q # 0 /\ cal.caller # "none" /\ queue_cur # 0
         /\ queue[cal.q].cal_failed > 0
         /\ cal.caller \in {"dry_run", "recalibrate"} => cal.q = queue_cur

(* An entry is the best of an edge only once its calibration succeeded.    *)
Unrated ==
    /\ \A k \in DOMAIN queue : queue[k].cal_failed > 0 => Slots(k) = {}
    /\ pc = "dry_run" \/ (pc = "calibrate" /\ cal.caller = "dry_run") =>
         \A k \in DOMAIN queue : k >= queue_cur => Slots(k) = {}

(* Until an entry was fuzzed its bitmap has the edges it is the best of;   *)
(* trimming may break that for the entry in its turn, whose turn ends with *)
(* was_fuzzed.                                                             *)
InHavoc == \/ pc \in {"havoc", "stopped"}
           \/ pc = "calibrate" /\ cal.caller = "havoc"
UpToDate ==
    \A k \in Fresh :
        \/ Slots(k) \subseteq queue[k].trace_mini
        \/ k = queue_cur /\ queue[k].cal_failed = 0 /\ InHavoc

Typed == TypeOK /\ ReferencesCounted /\ Control

-----------------------------------------------------------------------------
(* What the actions do to the queue.                                       *)

(* The queue with x for entry q.                                           *)
Replaced(q, x) ==
    /\ queue' \in Seq(EntryType) /\ Len(queue') = Len(queue)
    /\ DOMAIN queue' = DOMAIN queue
    /\ queue'[q] = x /\ x \in EntryType
    /\ \A k \in DOMAIN queue \ {q} : queue'[k] = queue[k]

LEMMA ReplaceFacts ==
    ASSUME TypeOK, NEW q \in DOMAIN queue, NEW x \in EntryType,
           queue' = [queue EXCEPT ![q] = x]
    PROVE  Replaced(q, x)
<1>1. queue' \in [1 .. Len(queue) -> EntryType]
  BY QueueIs
<1>2. queue' \in Seq(EntryType) /\ Len(queue') = Len(queue)
  BY <1>1, QueueIs, SequenceOf
<1>3. queue'[q] = x /\ \A k \in DOMAIN queue \ {q} : queue'[k] = queue[k]
  BY QueueIs
<1> QED BY <1>1, <1>2, <1>3, QueueIs DEF Replaced

(* References stay counted when none of them is touched.                   *)
LEMMA StillCounted ==
    ASSUME ReferencesCounted, NEW q, NEW x, Replaced(q, x), q \in DOMAIN queue,
           x.tc_ref = queue[q].tc_ref, x.trace_mini = queue[q].trace_mini,
           UNCHANGED top_rated
    PROVE  ReferencesCounted'
<1>1. \A k \in DOMAIN queue' : Slots(k)' = Slots(k)
  BY DEF Slots
<1>2. \A k \in DOMAIN queue' :
         /\ k \in DOMAIN queue
         /\ queue'[k].tc_ref = queue[k].tc_ref
         /\ queue'[k].trace_mini = queue[k].trace_mini
  BY DEF Replaced
<1> HIDE DEF Slots
<1> QED BY <1>1, <1>2 DEF ReferencesCounted

(* The calibration of an entry of the queue starts.                        *)
LEMMA CalibrateFacts ==
    ASSUME TypeOK, NEW q \in DOMAIN queue,
           NEW who \in {"dry_run", "recalibrate", "havoc", "sync"},
           Calibrate(queue, q, who)
    PROVE  /\ Replaced(q, [queue[q] EXCEPT !.cal_failed = @ + 1])
           /\ pc' = "calibrate" /\ cal'.q = q /\ cal'.caller = who
           /\ cal'.stage_cur = 0
           /\ cal' \in [q : {q}, caller : {who}, first_run : BOOLEAN,
                        new_bits : {0}, stage_cur : {0},
                        trace_bits : {NoTrace}]
<1> DEFINE x == [queue[q] EXCEPT !.cal_failed = @ + 1]
<1>1. x \in EntryType /\ queue' = [queue EXCEPT ![q] = x]
  <2>1. queue[q] \in EntryType
    BY QueueIs
  <2>2. x \in EntryType
    BY <2>1 DEF EntryType
  <2> QED BY <2>2 DEF Calibrate
<1>2. Replaced(q, x)
  <2> HIDE DEF x
  <2> QED BY <1>1, ReplaceFacts
<1>3. /\ cal' = [q |-> q, caller |-> who,
                 first_run |-> (queue[q].exec_cksum = NoTrace),
                 new_bits |-> 0, stage_cur |-> 0, trace_bits |-> NoTrace]
      /\ pc' = "calibrate"
  BY DEF Calibrate, Idle, Goto
<1>4. (queue[q].exec_cksum = NoTrace) \in BOOLEAN
  OBVIOUS
<1> QED BY <1>2, <1>3, <1>4

(* What a run of the target yields has its type.                           *)
LEMMA OutcomeType ==
    ASSUME NEW inp \in Input, NEW r \in Outcomes[inp]
    PROVE  /\ r.fault \in Bad \cup {"none"} /\ r.trace \in Trace
           /\ r.distance \in Int /\ r.trace # NoTrace
           /\ r.fault # "none" => r.fault \in Bad
BY SeedQueueAssumption DEF Outcome

LEMMA CoverageType ==
    ASSUME TypeOK, NEW t \in Trace
    PROVE  /\ has_new_bits(virgin_bits, t) \in 0 .. 2
           /\ Cleared(virgin_bits, t) \in [Edge -> SUBSET Hits]
BY DEF TypeOK, has_new_bits, Cleared

LEMMA RangeType ==
    ASSUME TypeOK, NEW d \in Int, SeeDistance(d)
    PROVE  max_distance' \in Int /\ min_distance' \in Int
BY DEF TypeOK, SeeDistance, range

(* The whereabouts after a calibration.                                    *)
LEMMA ReturnFacts ==
    ASSUME TypeOK, Control, pc = "calibrate", NEW f, Return(f)
    PROVE  /\ pc' \in {"fatal", "dry_run", "main", "abandon", "trim",
                       "havoc", "sync"}
           /\ queue_cur' \in 0 .. Len(queue)
           /\ pc' = "dry_run" => /\ cal.caller = "dry_run"
                                 /\ queue_cur' = cal.q + 1
           /\ pc' = "trim" => f \notin Bad /\ cal.q = queue_cur
           /\ pc' \in InFuzzOne => queue_cur' = queue_cur
           /\ pc' = "havoc" <=> cal.caller = "havoc"
<1>1. /\ cal.q \in 1 .. Len(queue) /\ Len(queue) \in Nat
      /\ queue_cur \in 0 .. Len(queue)
      /\ cal.caller \in {"dry_run", "recalibrate", "havoc", "sync"}
      /\ cal.caller = "recalibrate" => cal.q = queue_cur
  BY QueueIs DEF TypeOK, Control
<1>2. CASE /\ cal.caller = "dry_run" /\ f \in Bad /\ ~ Skip(f)
           /\ Goto("fatal") /\ UNCHANGED queue_cur
  BY <1>1, <1>2 DEF Goto, InFuzzOne
<1>3. CASE /\ cal.caller = "dry_run"
           /\ IF cal.q < Len(queue)
              THEN Goto("dry_run") /\ queue_cur' = cal.q + 1
              ELSE /\ Goto(IF f \in Bad /\ AllSkipped
                           THEN "fatal" ELSE "main")
                   /\ queue_cur' = 0
  BY <1>1, <1>3 DEF Goto, InFuzzOne
<1>4. CASE /\ cal.caller = "recalibrate"
           /\ Goto(IF f \in Bad THEN "abandon" ELSE "trim")
           /\ UNCHANGED queue_cur
  BY <1>1, <1>4 DEF Goto, InFuzzOne
<1>5. CASE /\ cal.caller \in {"havoc", "sync"}
           /\ Goto(cal.caller) /\ UNCHANGED queue_cur
  BY <1>1, <1>5 DEF Goto, InFuzzOne
<1> QED BY <1>2, <1>3, <1>4, <1>5 DEF Return

(* One more run, and what it leaves of the entry.                          *)
LEMMA RunFacts ==
    ASSUME Typed, CalibrationRun
    PROVE  \E x : \E r \in Outcomes[queue[cal.q].input] :
           /\ Replaced(cal.q, x) /\ pc = "calibrate" /\ r.fault = "none"
           /\ x = [queue[cal.q] EXCEPT !.distance = x.distance,
                                       !.exec_cksum = x.exec_cksum]
           /\ x.exec_cksum = IF queue[cal.q].exec_cksum = NoTrace THEN r.trace
                             ELSE queue[cal.q].exec_cksum
           /\ cal' = [cal EXCEPT !.stage_cur = @ + 1,
                                 !.trace_bits = r.trace,
                                 !.new_bits = cal'.new_bits]
           /\ cal'.new_bits \in 0 .. 2 /\ cal.stage_cur < CAL_CYCLES
           /\ virgin_bits' \in [Edge -> SUBSET Hits]
           /\ max_distance' \in Int /\ min_distance' \in Int
           /\ UNCHANGED <<opts, place, best, counts>>
<1>1. /\ pc = "calibrate" /\ cal.stage_cur < CAL_CYCLES
      /\ UNCHANGED <<opts, place, best, counts>>
      /\ cal.q \in DOMAIN queue /\ queue[cal.q] \in EntryType
  BY QueueIs DEF Typed, CalibrationRun, AnotherRun, Control, TypeOK
<1> DEFINE x   == queue[cal.q]
           new == x.distance <= 0
<1>2. PICK r \in Outcomes[queue[cal.q].input] :
         LET hnb   == has_new_bits(virgin_bits, r.trace)
             odd   == x.exec_cksum # r.trace
         IN /\ r.fault = "none"
            /\ queue' = [queue EXCEPT ![cal.q] =
                  [x EXCEPT !.distance = IF new THEN r.distance ELSE @,
                            !.exec_cksum = IF @ = NoTrace THEN r.trace
                                           ELSE @]]
            /\ virgin_bits' = IF new \/ odd
                              THEN Cleared(virgin_bits, r.trace)
                              ELSE virgin_bits
            /\ IF new THEN SeeDistance(r.distance) ELSE UNCHANGED range
            /\ cal' = [cal EXCEPT !.stage_cur = @ + 1,
                  !.trace_bits = r.trace,
                  !.new_bits = IF odd /\ ~ new /\ hnb > @
                               THEN hnb ELSE @]
  BY DEF CalibrationRun
<1>3. /\ r.trace \in Trace /\ r.distance \in Int
      /\ has_new_bits(virgin_bits, r.trace) \in 0 .. 2
      /\ Cleared(virgin_bits, r.trace) \in [Edge -> SUBSET Hits]
  BY <1>1, OutcomeType, CoverageType DEF Typed, EntryType
<1> DEFINE y == [x EXCEPT !.distance = IF new THEN r.distance ELSE @,
                          !.exec_cksum = IF @ = NoTrace THEN r.trace ELSE @]
<1>4. /\ y \in EntryType /\ y = [x EXCEPT !.distance = y.distance,
                                          !.exec_cksum = y.exec_cksum]
      /\ y.exec_cksum = IF x.exec_cksum = NoTrace THEN r.trace
                        ELSE x.exec_cksum
  BY <1>1, <1>3 DEF EntryType
<1>5. Replaced(cal.q, y)
  <2>1. queue' = [queue EXCEPT ![cal.q] = y]
    BY <1>2
  <2> HIDE DEF y, x
  <2> QED BY <1>1, <1>4, <2>1, ReplaceFacts DEF Typed
<1>6. /\ cal' = [cal EXCEPT !.stage_cur = @ + 1, !.trace_bits = r.trace,
                            !.new_bits = cal'.new_bits]
      /\ cal'.new_bits \in 0 .. 2
  BY <1>2, <1>3 DEF Typed, TypeOK
<1>7. virgin_bits' \in [Edge -> SUBSET Hits]
  BY <1>2, <1>3 DEF Typed, TypeOK
<1>8. max_distance' \in Int /\ min_distance' \in Int
  BY <1>2, <1>3, RangeType DEF Typed, TypeOK, range
<1> HIDE DEF y, x, new
<1> QED BY <1>1, <1>2, <1>4, <1>5, <1>6, <1>7, <1>8 DEF x

(* A calibration fails: the entry keeps a count of failures.               *)
LEMMA FailFacts ==
    ASSUME Typed, CalibrationFails
    PROVE  \E x : \E f \in Bad :
           /\ Replaced(cal.q, x) /\ Return(f) /\ pc = "calibrate"
           /\ x = [queue[cal.q] EXCEPT !.has_new_cov = x.has_new_cov,
                                       !.cal_failed = x.cal_failed]
           /\ x.cal_failed > 0 /\ x.cal_failed \in Nat
           /\ cal' = Idle
           /\ UNCHANGED <<opts, best, counts, virgin_bits, range>>
<1>1. /\ pc = "calibrate" /\ cal' = Idle
      /\ UNCHANGED <<opts, best, counts, virgin_bits, range>>
      /\ cal.q \in DOMAIN queue /\ queue[cal.q] \in EntryType
      /\ queue[cal.q].cal_failed > 0
  BY QueueIs DEF Typed, CalibrationFails, AnotherRun, Control, TypeOK
<1>2. PICK r \in Outcomes[queue[cal.q].input] :
         /\ r.fault # "none"
         /\ queue' = [queue EXCEPT ![cal.q] =
               [WithCov(@) EXCEPT !.cal_failed = GivenUp(r.fault)]]
         /\ Return(r.fault)
  BY DEF CalibrationFails
<1>3. r.fault \in Bad
  BY <1>1, <1>2, OutcomeType DEF EntryType
<1>4. GivenUp(r.fault) \in Nat /\ GivenUp(r.fault) > 0
  BY <1>1, SeedQueueAssumption DEF GivenUp, EntryType
<1> DEFINE n == GivenUp(r.fault)
           b == (queue[cal.q].has_new_cov \/ cal.new_bits = 2)
           x == [queue[cal.q] EXCEPT !.has_new_cov = b, !.cal_failed = n]
<1>5. queue' = [queue EXCEPT ![cal.q] = x]
  BY <1>1, <1>2 DEF WithCov
<1>6. x \in EntryType /\ x = [queue[cal.q] EXCEPT
                                 !.has_new_cov = x.has_new_cov,
                                 !.cal_failed = x.cal_failed]
      /\ x.cal_failed = n
  <2>1. b \in BOOLEAN /\ n \in Nat
    BY <1>4
  <2> HIDE DEF b, n
  <2> QED BY <1>1, <2>1 DEF EntryType
<1>7. Replaced(cal.q, x)
  <2> HIDE DEF x
  <2> QED BY <1>1, <1>5, <1>6, ReplaceFacts DEF Typed
<1> HIDE DEF x
<1> QED BY <1>1, <1>2, <1>3, <1>4, <1>6, <1>7

(* qs is the queue with x for entry q, and q's references still with it.   *)
Prepared(qs, q, x) ==
    /\ Referring(qs) /\ qs[q] = x /\ x \in EntryType
    /\ \A k \in DOMAIN queue \ {q} : qs[k] = queue[k]

LEMMA PrepareFacts ==
    ASSUME TypeOK, NEW q \in DOMAIN queue, NEW x \in EntryType,
           x.tc_ref = queue[q].tc_ref, x.trace_mini = queue[q].trace_mini
    PROVE  Prepared([queue EXCEPT ![q] = x], q, x)
<1> DEFINE qs == [queue EXCEPT ![q] = x]
<1>1. qs[q] = x /\ \A k \in DOMAIN queue \ {q} : qs[k] = queue[k]
  BY QueueIs
<1>2. qs \in [DOMAIN queue -> EntryType]
  BY QueueIs
<1> HIDE DEF qs
<1>3. Referring(qs)
  BY <1>1, <1>2 DEF Referring
<1>4. Prepared(qs, q, x)
  BY <1>1, <1>3 DEF Prepared
<1> QED BY <1>4 DEF qs

(* A calibration succeeds: the entry is timed and joins the contest.       *)
LEMMA EndFacts ==
    ASSUME Typed, CalibrationEnds
    PROVE  \E qs, x, f :
           /\ Prepared(qs, cal.q, x)
           /\ x = [queue[cal.q] EXCEPT !.has_new_cov = x.has_new_cov,
                                       !.exec_us = x.exec_us, !.cal_failed = 0]
           /\ x.cal_failed = 0
           /\ update_bitmap_score(qs, cal.q, cal.trace_bits)
           /\ cal.trace_bits \in Trace /\ cal.stage_cur = CAL_CYCLES
           /\ Return(f) /\ f \notin Bad /\ pc = "calibrate" /\ cal' = Idle
           /\ UNCHANGED <<opts, counts, virgin_bits, range>>
<1>1. /\ pc = "calibrate" /\ cal' = Idle /\ cal.stage_cur = CAL_CYCLES
      /\ UNCHANGED <<opts, counts, virgin_bits, range>>
      /\ cal.q \in DOMAIN queue /\ queue[cal.q] \in EntryType
      /\ cal.trace_bits \in Trace
  BY QueueIs DEF Typed, CalibrationEnds, Control, TypeOK
<1>2. PICK us \in Speeds :
         update_bitmap_score(
            [queue EXCEPT ![cal.q] =
               [WithCov(@) EXCEPT !.exec_us = us, !.cal_failed = 0]],
            cal.q, cal.trace_bits)
  BY DEF CalibrationEnds
<1>3. \E f : Return(f) /\ f \notin Bad
  BY DEF CalibrationEnds, Bad
<1> DEFINE b  == (queue[cal.q].has_new_cov \/ cal.new_bits = 2)
           x  == [queue[cal.q] EXCEPT !.has_new_cov = b, !.exec_us = us,
                                      !.cal_failed = 0]
           qs == [queue EXCEPT ![cal.q] = x]
<1>4. update_bitmap_score(qs, cal.q, cal.trace_bits)
  <2>1. [queue EXCEPT ![cal.q] =
               [WithCov(@) EXCEPT !.exec_us = us, !.cal_failed = 0]] = qs
    BY <1>1 DEF WithCov
  <2> HIDE DEF qs
  <2> QED BY <1>2, <2>1
<1>5. x \in EntryType /\ x = [queue[cal.q] EXCEPT
                                 !.has_new_cov = x.has_new_cov,
                                 !.exec_us = x.exec_us, !.cal_failed = 0]
      /\ x.cal_failed = 0
      /\ x.tc_ref = queue[cal.q].tc_ref
      /\ x.trace_mini = queue[cal.q].trace_mini
  <2>1. b \in BOOLEAN
    OBVIOUS
  <2> HIDE DEF b
  <2> QED BY <1>1, <2>1 DEF EntryType
<1>6. Prepared(qs, cal.q, x)
  <2> HIDE DEF x
  <2> QED BY <1>1, <1>5, PrepareFacts DEF Typed
<1> HIDE DEF x, qs
<1> QED BY <1>1, <1>3, <1>4, <1>5, <1>6

(* Culling says which entries are favored, and nothing else of them.       *)
LEMMA CullFacts ==
    ASSUME TypeOK, score_changed, cull_queue
    PROVE  \E edges \in SUBSET Rated :
           /\ Picked(edges)
           /\ queue' \in Seq(EntryType) /\ Len(queue') = Len(queue)
           /\ DOMAIN queue' = DOMAIN queue
           /\ \A k \in DOMAIN queue :
                 /\ queue'[k] = [queue[k] EXCEPT !.favored = queue'[k].favored]
                 /\ queue'[k].favored <=> \E e \in edges : top_rated[e] = k
           /\ queued_favored' = Cardinality(edges)
           /\ pending_favored' =
                Cardinality({e \in edges : ~ queue[top_rated[e]].was_fuzzed})
           /\ score_changed' = FALSE
           /\ UNCHANGED <<top_rated, pending_not_fuzzed>>
<1>1. PICK edges \in SUBSET Rated :
         /\ Picked(edges)
         /\ score_changed' = FALSE
         /\ queue' = [k \in DOMAIN queue |->
                        [queue[k] EXCEPT !.favored =
                           \E e \in edges : top_rated[e] = k]]
         /\ queued_favored' = Cardinality(edges)
         /\ pending_favored' =
              Cardinality({e \in edges : ~ queue[top_rated[e]].was_fuzzed})
         /\ UNCHANGED <<top_rated, pending_not_fuzzed>>
  BY DEF cull_queue
<1> DEFINE b(k) == \E e \in edges : top_rated[e] = k
<1>2. \A k \in DOMAIN queue : queue'[k] = [queue[k] EXCEPT !.favored = b(k)]
  BY <1>1
<1>3. ASSUME NEW k \in DOMAIN queue
      PROVE  /\ queue'[k] \in EntryType
             /\ queue'[k] = [queue[k] EXCEPT !.favored = queue'[k].favored]
             /\ queue'[k].favored = b(k)
  <2>1. b(k) \in BOOLEAN /\ queue[k] \in EntryType
    BY QueueIs
  <2> HIDE DEF b
  <2> QED BY <1>2, <2>1 DEF EntryType
<1>4. queue' \in Seq(EntryType) /\ Len(queue') = Len(queue)
      /\ DOMAIN queue' = DOMAIN queue
  <2>1. queue' \in [1 .. Len(queue) -> EntryType]
    <3> HIDE DEF b
    <3> QED BY <1>1, <1>3, QueueIs
  <2> QED BY <2>1, QueueIs, SequenceOf
<1>5. \A k \in DOMAIN queue :
         /\ queue'[k] = [queue[k] EXCEPT !.favored = queue'[k].favored]
         /\ queue'[k].favored <=> \E e \in edges : top_rated[e] = k
  BY <1>3, Zenon
<1> WITNESS edges \in SUBSET Rated
<1> QED BY <1>1, <1>4, <1>5

(* Trimming: the entry may get shorter, and contends again if it did.      *)
LEMMA TrimFacts ==
    ASSUME Typed, Trim
    PROVE  /\ pc = "trim" /\ pc' = "havoc" /\ queue_cur \in DOMAIN queue
           /\ UNCHANGED <<opts, queue_cur, counts, virgin_bits, range, cal>>
           /\ \/ UNCHANGED <<queue, best>>
              \/ \E x :
                   /\ x = [cur EXCEPT !.len = x.len, !.trim_done = TRUE]
                   /\ x.len <= cur.len /\ x.len \in Nat
                   /\ \/ /\ Replaced(queue_cur, x) /\ x.len = cur.len
                         /\ UNCHANGED best
                      \/ \E qs : /\ Prepared(qs, queue_cur, x)
                                 /\ update_bitmap_score(qs, queue_cur,
                                                        cur.exec_cksum)
<1>1. /\ pc = "trim" /\ pc' = "havoc"
      /\ UNCHANGED <<opts, queue_cur, counts, virgin_bits, range, cal>>
      /\ queue_cur \in DOMAIN queue /\ cur \in EntryType
  BY QueueIs DEF Typed, Trim, Goto, Control, InFuzzOne, TypeOK, cur
<1>2. CASE UNCHANGED <<queue, best>>
  BY <1>1, <1>2
<1>3. CASE trim_case
  <2>1. PICK l \in 1 .. cur.len :
          LET qs == [queue EXCEPT ![queue_cur] =
                        [@ EXCEPT !.len = l, !.trim_done = TRUE]]
          IN IF l < cur.len
             THEN update_bitmap_score(qs, queue_cur, cur.exec_cksum)
             ELSE queue' = qs /\ UNCHANGED best
    BY <1>3 DEF trim_case
  <2> DEFINE x  == [cur EXCEPT !.len = l, !.trim_done = TRUE]
             qs == [queue EXCEPT ![queue_cur] = x]
  <2>2. /\ x \in EntryType
        /\ x = [cur EXCEPT !.len = x.len, !.trim_done = TRUE]
        /\ x.len <= cur.len /\ x.len \in Nat /\ x.len = l
        /\ x.tc_ref = cur.tc_ref /\ x.trace_mini = cur.trace_mini
    <3>1. l \in Nat \ {0} /\ l <= cur.len
      BY <1>1 DEF EntryType
    <3> QED BY <1>1, <3>1 DEF EntryType
  <2>3. \/ update_bitmap_score(qs, queue_cur, cur.exec_cksum)
        \/ queue' = qs /\ UNCHANGED best /\ l = cur.len
    <3>1. [queue EXCEPT ![queue_cur] =
             [@ EXCEPT !.len = l, !.trim_done = TRUE]] = qs
      BY <1>1 DEF cur
    <3>2. l < cur.len \/ l = cur.len
      BY <1>1 DEF EntryType
    <3> HIDE DEF qs
    <3> QED BY <2>1, <3>1, <3>2
  <2>4. Prepared(qs, queue_cur, x)
    <3> HIDE DEF x
    <3> QED BY <1>1, <2>2, PrepareFacts DEF Typed, cur
  <2>5. queue' = qs => Replaced(queue_cur, x)
    <3> HIDE DEF x
    <3> QED BY <1>1, <2>2, ReplaceFacts DEF Typed
  <2> HIDE DEF x, qs
  <2> QED BY <1>1, <2>2, <2>3, <2>4, <2>5
<1> QED BY <1>2, <1>3 DEF Trim

(* A find is appended, with one failure until its calibration succeeds.    *)
LEMMA SaveFacts ==
    ASSUME Typed, SaveIfInteresting
    PROVE  \E x \in EntryType : \E inp \in Input : \E r \in Outcomes[inp] :
           /\ x.input = inp /\ x.exec_cksum = r.trace /\ r.fault = "none"
           /\ x.cal_failed = 1 /\ x.exec_us = 0 /\ x.tc_ref = 0
           /\ x.trace_mini = {} /\ x.was_fuzzed = FALSE /\ x.favored = FALSE
           /\ queue' = Append(queue, x) /\ Len(queue) < MaxQueue
           /\ queue' \in Seq(EntryType) /\ Len(queue') = Len(queue) + 1
           /\ DOMAIN queue' = DOMAIN queue \cup {Len(queue) + 1}
           /\ \A k \in DOMAIN queue : queue'[k] = queue[k]
           /\ queue'[Len(queue) + 1] = x
           /\ virgin_bits' \in [Edge -> SUBSET Hits]
           /\ max_distance' \in Int /\ min_distance' \in Int
           /\ pc \in {"havoc", "sync"} /\ pc' = "calibrate"
           /\ pending_not_fuzzed' = pending_not_fuzzed + 1
           /\ UNCHANGED <<opts, queue_cur, best, queued_favored,
                          pending_favored>>
           /\ cal' \in [q : {Len(queue) + 1}, caller : {pc},
                        first_run : BOOLEAN, new_bits : {0},
                        stage_cur : {0}, trace_bits : {NoTrace}]
<1> DEFINE n == Len(queue) + 1
<1>1. /\ Len(queue) < MaxQueue /\ pc \in {"havoc", "sync"}
      /\ pending_not_fuzzed' = pending_not_fuzzed + 1
      /\ UNCHANGED <<opts, queue_cur, best, queued_favored, pending_favored>>
  BY DEF SaveIfInteresting
<1>0. PICK inp \in Input : \E r \in Outcomes[inp] :
         LET hnb == has_new_bits(virgin_bits, r.trace)
             new == [Entry(inp, r.distance) EXCEPT
                       !.has_new_cov = (hnb = 2), !.exec_cksum = r.trace]
         IN /\ r.fault = "none" /\ hnb > 0
            /\ virgin_bits' = Cleared(virgin_bits, r.trace)
            /\ SeeDistance(r.distance)
            /\ Calibrate(Append(queue, new), Len(queue) + 1, pc)
  BY DEF SaveIfInteresting
<1>2. PICK r \in Outcomes[inp] :
         LET hnb == has_new_bits(virgin_bits, r.trace)
             new == [Entry(inp, r.distance) EXCEPT
                       !.has_new_cov = (hnb = 2), !.exec_cksum = r.trace]
         IN /\ r.fault = "none" /\ hnb > 0
            /\ virgin_bits' = Cleared(virgin_bits, r.trace)
            /\ SeeDistance(r.distance)
            /\ Calibrate(Append(queue, new), Len(queue) + 1, pc)
  BY <1>0
<1>3. /\ r.trace \in Trace /\ r.distance \in Int
      /\ virgin_bits' \in [Edge -> SUBSET Hits]
      /\ max_distance' \in Int /\ min_distance' \in Int
  BY <1>2, OutcomeType, CoverageType, RangeType DEF Typed
<1> DEFINE b == (has_new_bits(virgin_bits, r.trace) = 2)
           y == [Entry(inp, r.distance) EXCEPT
                    !.has_new_cov = b, !.exec_cksum = r.trace]
           x == [y EXCEPT !.cal_failed = @ + 1]
<1>4. /\ Calibrate(Append(queue, y), n, pc)
      /\ r.fault = "none"
  BY <1>2
<1>5. /\ y \in EntryType /\ y.cal_failed = 0 /\ y.input = inp
      /\ y.exec_cksum = r.trace /\ y.exec_us = 0 /\ y.tc_ref = 0
      /\ y.trace_mini = {} /\ y.was_fuzzed = FALSE /\ y.favored = FALSE
  <2>1. b \in BOOLEAN /\ Length[inp] \in Nat \ {0}
    BY SeedQueueAssumption
  <2> HIDE DEF b
  <2> QED BY <1>3, <2>1 DEF Entry, EntryType
<1>6. /\ x \in EntryType /\ x.cal_failed = 1 /\ x.input = inp
      /\ x.exec_cksum = r.trace /\ x.exec_us = 0 /\ x.tc_ref = 0
      /\ x.trace_mini = {} /\ x.was_fuzzed = FALSE /\ x.favored = FALSE
  <2> HIDE DEF y
  <2> QED BY <1>5 DEF EntryType
<1>7. /\ pc' = "calibrate"
      /\ cal' \in [q : {n}, caller : {pc}, first_run : BOOLEAN,
                 new_bits : {0}, stage_cur : {0}, trace_bits : {NoTrace}]
      /\ queue' = [Append(queue, y) EXCEPT ![n].cal_failed = @ + 1]
  <2>1. /\ cal' = [q |-> n, caller |-> pc,
                 first_run |-> (Append(queue, y)[n].exec_cksum = NoTrace),
                 new_bits |-> 0, stage_cur |-> 0, trace_bits |-> NoTrace]
        /\ pc' = "calibrate"
        /\ queue' = [Append(queue, y) EXCEPT ![n].cal_failed = @ + 1]
    <3> HIDE DEF y
    <3> QED BY <1>4 DEF Calibrate, Idle, Goto
  <2>2. (Append(queue, y)[n].exec_cksum = NoTrace) \in BOOLEAN
    OBVIOUS
  <2> HIDE DEF y
  <2> QED BY <2>1, <2>2
<1> HIDE DEF y
<1>8. queue' = Append(queue, x)
  <2>1. queue \in Seq(EntryType) /\ y \in EntryType /\ x \in EntryType
    BY <1>5, <1>6 DEF Typed, TypeOK
  <2> DEFINE s == Append(queue, y)
             t == Append(queue, x)
  <2>2. /\ s \in Seq(EntryType) /\ Len(s) = n /\ s[n] = y /\ n \in 1 .. n
        /\ \A k \in 1 .. Len(queue) : s[k] = queue[k]
    BY <2>1
  <2>3. /\ t \in Seq(EntryType) /\ Len(t) = n /\ t[n] = x
        /\ \A k \in 1 .. Len(queue) : t[k] = queue[k]
    <3> HIDE DEF x
    <3> QED BY <2>1
  <2>4. queue' = [s EXCEPT ![n] = x]
    <3>1. DOMAIN s = 1 .. n
      <4> HIDE DEF s
      <4> QED BY <2>2
    <3> QED BY <1>7, <2>2, <3>1
  <2>5. DOMAIN s = 1 .. n /\ DOMAIN t = 1 .. n
        /\ s = [k \in 1 .. n |-> s[k]] /\ t = [k \in 1 .. n |-> t[k]]
        /\ n \in Nat
        /\ \A k \in 1 .. n : k \in 1 .. Len(queue) \/ k = n
    <3> HIDE DEF s, t, x
    <3> QED BY <2>1, <2>2, <2>3
  <2> HIDE DEF s, t, x, n
  <2> QED BY <2>2, <2>3, <2>4, <2>5 DEF t
<1> HIDE DEF x
<1>9. /\ queue' \in Seq(EntryType) /\ Len(queue') = Len(queue) + 1
      /\ DOMAIN queue' = DOMAIN queue \cup {Len(queue) + 1}
      /\ \A k \in DOMAIN queue : queue'[k] = queue[k]
      /\ queue'[Len(queue) + 1] = x
  <2>1. queue \in Seq(EntryType) /\ x \in EntryType
    BY <1>6 DEF Typed, TypeOK
  <2> QED BY <1>8, <2>1
<1> QED BY <1>1, <1>3, <1>4, <1>6, <1>7, <1>8, <1>9

(* The end of fuzz_one.                                                    *)
LEMMA AbandonFacts ==
    ASSUME Typed, AbandonEntry
    PROVE  /\ queue_cur \in DOMAIN queue
           /\ pc \in {"abandon", "havoc"}
           /\ pc' \in {"main", "sync"}
           /\ queue_cur' \in 0 .. Len(queue)
           /\ pc' = "sync" => queue_cur' = queue_cur
           /\ UNCHANGED <<opts, queued_favored, best, virgin_bits, range, cal>>
           /\ \/ /\ cur.cal_failed = 0 /\ ~ cur.was_fuzzed
                 /\ Replaced(queue_cur, [cur EXCEPT !.was_fuzzed = TRUE])
                 /\ pending_not_fuzzed' = pending_not_fuzzed - 1
                 /\ pending_favored' = IF cur.favored THEN pending_favored - 1
                                       ELSE pending_favored
              \/ /\ ~ (cur.cal_failed = 0 /\ ~ cur.was_fuzzed)
                 /\ UNCHANGED <<queue, pending_not_fuzzed, pending_favored>>
<1>1. /\ pc \in {"abandon", "havoc"} /\ queue_cur \in 1 .. Len(queue)
      /\ queue_cur \in DOMAIN queue /\ cur \in EntryType
      /\ UNCHANGED <<opts, queued_favored, best, virgin_bits, range, cal>>
      /\ Len(queue) \in Nat
  BY QueueIs DEF Typed, AbandonEntry, Goto, Control, InFuzzOne, TypeOK, cur
<1>2. /\ pc' \in {"main", "sync"} /\ queue_cur' \in 0 .. Len(queue)
      /\ pc' = "sync" => queue_cur' = queue_cur
  <2>1. Advance \/ (Goto("sync") /\ UNCHANGED queue_cur)
    BY DEF AbandonEntry
  <2> QED BY <1>1, <2>1 DEF Advance, Goto
<1>3. CASE cur.cal_failed = 0 /\ ~ cur.was_fuzzed
  <2> DEFINE x == [cur EXCEPT !.was_fuzzed = TRUE]
  <2>1. x \in EntryType
    BY <1>1 DEF EntryType
  <2>2. /\ queue' = [queue EXCEPT ![queue_cur] = x]
        /\ pending_not_fuzzed' = pending_not_fuzzed - 1
        /\ pending_favored' = IF cur.favored THEN pending_favored - 1
                              ELSE pending_favored
    BY <1>1, <1>3 DEF AbandonEntry, cur
  <2>3. Replaced(queue_cur, x)
    <3> HIDE DEF x
    <3> QED BY <1>1, <2>1, <2>2, ReplaceFacts DEF Typed
  <2> QED BY <1>1, <1>2, <1>3, <2>2, <2>3
<1>4. CASE ~ (cur.cal_failed = 0 /\ ~ cur.was_fuzzed)
  BY <1>1, <1>2, <1>4 DEF AbandonEntry
<1> QED BY <1>3, <1>4

-----------------------------------------------------------------------------
(* Types, references and control.                                          *)

LEMMA TypedInit ==
    ASSUME Init PROVE Typed
<1>1. PICK n \in 1 .. MaxQueue : \E s \in [1 .. n -> Input] :
         queue = [k \in 1 .. n |-> Entry(s[k], -1)]
  BY DEF Init
<1>2. PICK s \in [1 .. n -> Input] :
         queue = [k \in 1 .. n |-> Entry(s[k], -1)]
  BY <1>1
<1>3. n \in Nat /\ n >= 1 /\ NoTrace \in Trace
  BY SeedQueueAssumption DEF NoTrace, Trace
<1>4. ASSUME NEW inp \in Input
      PROVE  /\ Entry(inp, -1) \in EntryType
             /\ Entry(inp, -1).tc_ref = 0 /\ Entry(inp, -1).trace_mini = {}
  <2>1. Length[inp] \in Nat \ {0}
    BY SeedQueueAssumption
  <2> QED BY <1>3, <2>1 DEF Entry, EntryType
<1>5. queue \in Seq(EntryType) /\ Len(queue) = n /\ DOMAIN queue = 1 .. n
  <2>1. queue \in [1 .. n -> EntryType]
    BY <1>2, <1>4
  <2> QED BY <1>3, <2>1, SequenceOf
<1>6. /\ opt \in Options
      /\ pc = "dry_run" /\ queue_cur = 1
      /\ top_rated = [e \in Edge |-> 0] /\ score_changed = FALSE
      /\ queued_favored = 0 /\ pending_favored = 0
      /\ pending_not_fuzzed = Len(queue)
      /\ virgin_bits = [e \in Edge |-> Hits]
      /\ max_distance = -1 /\ min_distance = -1
      /\ cal = Idle
  BY DEF Init
<1>7. cal \in [q : 0 .. n,
               caller : {"none", "dry_run", "recalibrate", "havoc", "sync"},
               first_run : BOOLEAN, new_bits : 0 .. 2,
               stage_cur : 0 .. CAL_CYCLES, trace_bits : Trace]
  <2>1. FALSE \in BOOLEAN /\ CAL_CYCLES \in Nat
    BY SeedQueueAssumption
  <2> QED BY <1>3, <1>6, <2>1 DEF Idle
<1>8. TypeOK
  <2>1. /\ top_rated \in [Edge -> 0 .. n]
        /\ virgin_bits \in [Edge -> SUBSET Hits]
    BY <1>3, <1>6
  <2>2. score_changed \in BOOLEAN
    BY <1>6
  <2>3. queue_cur \in 0 .. n /\ n \in 1 .. MaxQueue
    BY <1>3, <1>6
  <2>4. /\ queued_favored \in Nat /\ pending_favored \in Int
        /\ pending_not_fuzzed \in Int
        /\ max_distance \in Int /\ min_distance \in Int
    BY <1>3, <1>5, <1>6
  <2> QED BY <1>5, <1>6, <1>7, <2>1, <2>2, <2>3, <2>4 DEF TypeOK
<1>9. ReferencesCounted
  <2>1. \A k \in DOMAIN queue : Slots(k) = {}
    BY <1>5, <1>6 DEF Slots
  <2>2. \A k \in DOMAIN queue : /\ queue[k].tc_ref = 0
                                /\ queue[k].trace_mini = {}
    BY <1>2, <1>4, <1>5
  <2> QED BY <2>1, <2>2, FS_EmptySet DEF ReferencesCounted
<1>10. Control
  BY <1>6 DEF Control, InFuzzOne
<1> QED BY <1>8, <1>9, <1>10 DEF Typed

(* The idle calibration and any that starts have their type.               *)
LEMMA CalType ==
    ASSUME NEW n \in Nat
    PROVE  LET C == [q : 0 .. n, caller : {"none", "dry_run", "recalibrate",
                                           "havoc", "sync"},
                     first_run : BOOLEAN, new_bits : 0 .. 2,
                     stage_cur : 0 .. CAL_CYCLES, trace_bits : Trace]
           IN  /\ Idle \in C
               /\ \A q \in 0 .. n :
                    \A who \in {"dry_run", "recalibrate", "havoc", "sync"} :
                      [q : {q}, caller : {who}, first_run : BOOLEAN,
                       new_bits : {0}, stage_cur : {0},
                       trace_bits : {NoTrace}] \subseteq C
<1>1. NoTrace \in Trace /\ FALSE \in BOOLEAN /\ CAL_CYCLES \in Nat
  BY SeedQueueAssumption DEF NoTrace, Trace
<1>2. 0 \in 0 .. n /\ 0 \in 0 .. 2 /\ 0 \in 0 .. CAL_CYCLES
  BY <1>1
<1> QED BY <1>1, <1>2 DEF Idle

LEMMA CalibrateTyped ==
    ASSUME Typed, NEW who \in {"dry_run", "recalibrate"}, queue_cur # 0,
           Calibrate(queue, queue_cur, who),
           UNCHANGED <<opts, queue_cur, best, counts, virgin_bits, range>>
    PROVE  Typed'
<1> DEFINE x == [queue[queue_cur] EXCEPT !.cal_failed = @ + 1]
<1>1. queue_cur \in DOMAIN queue /\ queue[queue_cur] \in EntryType
      /\ queue_cur \in 0 .. Len(queue) /\ Len(queue) \in Nat
  BY QueueIs DEF Typed, TypeOK
<1>2. /\ Replaced(queue_cur, x)
      /\ pc' = "calibrate" /\ cal'.q = queue_cur /\ cal'.caller = who
      /\ cal' \in [q : {queue_cur}, caller : {who}, first_run : BOOLEAN,
                   new_bits : {0}, stage_cur : {0}, trace_bits : {NoTrace}]
  BY <1>1, CalibrateFacts DEF Typed
<1>3. /\ x.tc_ref = queue[queue_cur].tc_ref
      /\ x.trace_mini = queue[queue_cur].trace_mini
      /\ x.cal_failed > 0
  BY <1>1 DEF EntryType
<1> HIDE DEF x
<1>4. cal' \in [q : 0 .. Len(queue),
                caller : {"none", "dry_run", "recalibrate", "havoc", "sync"},
                first_run : BOOLEAN, new_bits : 0 .. 2,
                stage_cur : 0 .. CAL_CYCLES, trace_bits : Trace]
  BY <1>1, <1>2, CalType
<1>5. TypeOK'
  BY <1>1, <1>2, <1>4
     DEF Typed, TypeOK, Replaced, opts, best, counts, range
<1>6. ReferencesCounted'
  BY <1>1, <1>2, <1>3, StillCounted DEF Typed, best
<1>7. Control'
  BY <1>2, <1>3 DEF Control, InFuzzOne, Replaced
<1> QED BY <1>5, <1>6, <1>7 DEF Typed

LEMMA RunTyped ==
    ASSUME Typed, CalibrationRun PROVE Typed'
<1>1. PICK x : \E r \in Outcomes[queue[cal.q].input] :
           /\ Replaced(cal.q, x) /\ pc = "calibrate" /\ r.fault = "none"
           /\ x = [queue[cal.q] EXCEPT !.distance = x.distance,
                                       !.exec_cksum = x.exec_cksum]
           /\ cal' = [cal EXCEPT !.stage_cur = @ + 1,
                                 !.trace_bits = r.trace,
                                 !.new_bits = cal'.new_bits]
           /\ cal'.new_bits \in 0 .. 2 /\ cal.stage_cur < CAL_CYCLES
           /\ virgin_bits' \in [Edge -> SUBSET Hits]
           /\ max_distance' \in Int /\ min_distance' \in Int
           /\ UNCHANGED <<opts, place, best, counts>>
  BY RunFacts
<1>2. PICK r \in Outcomes[queue[cal.q].input] :
           cal' = [cal EXCEPT !.stage_cur = @ + 1, !.trace_bits = r.trace,
                              !.new_bits = cal'.new_bits]
  BY <1>1
<1>3. cal.q \in DOMAIN queue /\ queue[cal.q] \in EntryType
      /\ queue[cal.q].cal_failed > 0 /\ Len(queue) \in Nat
  BY <1>1, QueueIs DEF Typed, TypeOK, Control
<1>4. r.trace \in Trace
  BY <1>3, OutcomeType DEF EntryType
<1>5. /\ cal' \in [q : 0 .. Len(queue),
                caller : {"none", "dry_run", "recalibrate", "havoc", "sync"},
                first_run : BOOLEAN, new_bits : 0 .. 2,
                stage_cur : 0 .. CAL_CYCLES, trace_bits : Trace]
      /\ cal'.q = cal.q /\ cal'.caller = cal.caller
  <2> cal.stage_cur \in 0 .. CAL_CYCLES
    BY DEF Typed, TypeOK
  <2>1. /\ cal.stage_cur + 1 \in 0 .. CAL_CYCLES
        /\ cal'.new_bits \in 0 .. 2
    BY <1>1, SeedQueueAssumption
  <2> QED BY <1>2, <1>4, <2>1 DEF Typed, TypeOK
<1>6. TypeOK'
  BY <1>1, <1>5
     DEF Typed, TypeOK, Replaced, opts, place, best, counts
<1>7. /\ x.tc_ref = queue[cal.q].tc_ref
      /\ x.trace_mini = queue[cal.q].trace_mini
      /\ x.cal_failed = queue[cal.q].cal_failed
  BY <1>1, <1>3 DEF EntryType
<1>8. ReferencesCounted'
  BY <1>1, <1>3, <1>7, StillCounted DEF Typed, best
<1>9. Control'
  BY <1>1, <1>3, <1>5, <1>7 DEF Typed, Control, Replaced, place, InFuzzOne
<1> QED BY <1>6, <1>8, <1>9 DEF Typed

LEMMA FailTyped ==
    ASSUME Typed, CalibrationFails PROVE Typed'
<1>1. PICK x : \E f \in Bad :
           /\ Replaced(cal.q, x) /\ Return(f) /\ pc = "calibrate"
           /\ x = [queue[cal.q] EXCEPT !.has_new_cov = x.has_new_cov,
                                       !.cal_failed = x.cal_failed]
           /\ x.cal_failed > 0 /\ x.cal_failed \in Nat
           /\ cal' = Idle
           /\ UNCHANGED <<opts, best, counts, virgin_bits, range>>
  BY FailFacts
<1>2. PICK f \in Bad : Return(f)
  BY <1>1
<1>3. cal.q \in DOMAIN queue /\ queue[cal.q] \in EntryType
      /\ Len(queue) \in Nat /\ cal.q \in 1 .. Len(queue)
  BY <1>1, QueueIs DEF Typed, TypeOK, Control
<1>4. /\ pc' \in {"fatal", "dry_run", "main", "abandon", "trim",
                       "havoc", "sync"}
      /\ queue_cur' \in 0 .. Len(queue)
      /\ pc' = "dry_run" => queue_cur' = cal.q + 1
      /\ pc' # "trim"
      /\ pc' \in InFuzzOne => queue_cur' = queue_cur
  BY <1>1, <1>2, ReturnFacts DEF Typed
<1>5. cal' \in [q : 0 .. Len(queue),
                caller : {"none", "dry_run", "recalibrate", "havoc", "sync"},
                first_run : BOOLEAN, new_bits : 0 .. 2,
                stage_cur : 0 .. CAL_CYCLES, trace_bits : Trace]
  BY <1>1, <1>3, CalType
<1>6. TypeOK'
  BY <1>1, <1>4, <1>5
     DEF Typed, TypeOK, Replaced, opts, best, counts, range
<1>7. /\ x.tc_ref = queue[cal.q].tc_ref
      /\ x.trace_mini = queue[cal.q].trace_mini
  BY <1>1, <1>3 DEF EntryType
<1>8. ReferencesCounted'
  BY <1>1, <1>3, <1>7, StillCounted DEF Typed, best
<1>9. Control'
  BY <1>1, <1>3, <1>4 DEF Typed, Control, InFuzzOne
<1> QED BY <1>6, <1>8, <1>9 DEF Typed

LEMMA EndTyped ==
    ASSUME Typed, CalibrationEnds PROVE Typed'
<1>1. PICK qs, x, f :
           /\ Prepared(qs, cal.q, x)
           /\ x = [queue[cal.q] EXCEPT !.has_new_cov = x.has_new_cov,
                                       !.exec_us = x.exec_us, !.cal_failed = 0]
           /\ x.cal_failed = 0
           /\ update_bitmap_score(qs, cal.q, cal.trace_bits)
           /\ cal.trace_bits \in Trace /\ cal.stage_cur = CAL_CYCLES
           /\ Return(f) /\ f \notin Bad /\ pc = "calibrate" /\ cal' = Idle
           /\ UNCHANGED <<opts, counts, virgin_bits, range>>
  BY EndFacts
<1>2. cal.q \in DOMAIN queue /\ queue[cal.q] \in EntryType
      /\ Len(queue) \in Nat /\ cal.q \in 1 .. Len(queue)
  BY <1>1, QueueIs DEF Typed, TypeOK, Control
<1>3. /\ queue' \in Seq(EntryType) /\ Len(queue') = Len(queue)
      /\ DOMAIN queue' = DOMAIN queue
      /\ top_rated' \in [Edge -> 0 .. Len(queue)]
      /\ score_changed' \in BOOLEAN
      /\ \A k \in DOMAIN queue : Scored(queue'[k], qs[k])
      /\ \A k \in DOMAIN queue :
            /\ queue'[k].tc_ref = Cardinality(Slots(k)')
            /\ queue'[k].trace_mini = {} <=> queue'[k].tc_ref = 0
  BY <1>1, <1>2, ScoreFacts DEF Typed, Prepared
<1>4. /\ pc' \in {"fatal", "dry_run", "main", "abandon", "trim",
                       "havoc", "sync"}
      /\ queue_cur' \in 0 .. Len(queue)
      /\ pc' = "dry_run" => queue_cur' = cal.q + 1
      /\ pc' = "trim" => cal.q = queue_cur
      /\ pc' \in InFuzzOne => queue_cur' = queue_cur
  BY <1>1, ReturnFacts DEF Typed
<1>5. cal' \in [q : 0 .. Len(queue),
                caller : {"none", "dry_run", "recalibrate", "havoc", "sync"},
                first_run : BOOLEAN, new_bits : 0 .. 2,
                stage_cur : 0 .. CAL_CYCLES, trace_bits : Trace]
  BY <1>1, <1>2, CalType
<1>6. TypeOK'
  BY <1>1, <1>3, <1>4, <1>5 DEF Typed, TypeOK, opts, counts, range
<1>7. ReferencesCounted'
  BY <1>3 DEF ReferencesCounted
<1>8. queue'[cal.q].cal_failed = 0
  BY <1>1, <1>2, <1>3 DEF Scored, Prepared
<1>9. pc = "calibrate" /\ queue_cur # 0
  BY <1>1 DEF Typed, Control
<1>10. Control'
  <2>1. pc' = "trim" => cur'.cal_failed = 0
    BY <1>4, <1>8 DEF cur, InFuzzOne
  <2> QED BY <1>2, <1>4, <1>9, <2>1 DEF Control, InFuzzOne
<1> QED BY <1>6, <1>7, <1>10 DEF Typed

LEMMA NextEntryTyped ==
    ASSUME Typed, NextEntry PROVE Typed'
<1>1. /\ pc = "main" /\ pc' = "fuzz_one"
      /\ queue_cur' = IF queue_cur = 0 THEN 1 ELSE queue_cur
      /\ UNCHANGED <<opts, virgin_bits, range, cal>> /\ cull_queue
  BY DEF NextEntry, Goto
<1>2. queue_cur' \in 0 .. Len(queue) /\ queue_cur' # 0
  BY <1>1 DEF Typed, TypeOK
<1>3. Control'
  BY <1>1, <1>2 DEF Control, InFuzzOne
<1>4. CASE score_changed
  <2>1. PICK edges \in SUBSET Rated :
           /\ Picked(edges)
           /\ queue' \in Seq(EntryType) /\ Len(queue') = Len(queue)
           /\ DOMAIN queue' = DOMAIN queue
           /\ \A k \in DOMAIN queue :
                 /\ queue'[k] = [queue[k] EXCEPT !.favored = queue'[k].favored]
                 /\ queue'[k].favored <=> \E e \in edges : top_rated[e] = k
           /\ queued_favored' = Cardinality(edges)
           /\ pending_favored' =
                Cardinality({e \in edges : ~ queue[top_rated[e]].was_fuzzed})
           /\ score_changed' = FALSE
           /\ UNCHANGED <<top_rated, pending_not_fuzzed>>
    BY <1>1, <1>4, CullFacts DEF Typed
  <2>2. queued_favored' \in Nat /\ pending_favored' \in Int
    <3>1. /\ edges \in SUBSET Edge
          /\ {e \in edges : ~ queue[top_rated[e]].was_fuzzed} \in SUBSET Edge
      BY DEF Rated
    <3>2. /\ Cardinality(edges) \in Nat
          /\ Cardinality({e \in edges : ~ queue[top_rated[e]].was_fuzzed})
               \in Nat
      BY <3>1, EdgesFinite
    <3> QED BY <2>1, <3>2
  <2>3. score_changed' \in BOOLEAN
    BY <2>1
  <2>4. TypeOK'
    BY <1>1, <1>2, <2>1, <2>2, <2>3 DEF Typed, TypeOK, opts, range
  <2>5. ReferencesCounted'
    <3>1. \A k \in DOMAIN queue : Slots(k)' = Slots(k)
      BY <2>1 DEF Slots
    <3>2. \A k \in DOMAIN queue :
             /\ queue'[k].tc_ref = queue[k].tc_ref
             /\ queue'[k].trace_mini = queue[k].trace_mini
      <4> TAKE k \in DOMAIN queue
      <4>1. /\ queue[k] \in EntryType
            /\ queue'[k] = [queue[k] EXCEPT !.favored = queue'[k].favored]
        BY <2>1, QueueIs DEF Typed
      <4> QED BY <4>1 DEF EntryType
    <3> HIDE DEF Slots
    <3> QED BY <2>1, <3>1, <3>2 DEF Typed, ReferencesCounted
  <2> QED BY <1>3, <2>4, <2>5 DEF Typed
<1>5. CASE ~ score_changed
  <2>1. UNCHANGED <<queue, best, counts>>
    BY <1>1, <1>5 DEF cull_queue
  <2>2. TypeOK'
    BY <1>1, <1>2, <2>1 DEF Typed, TypeOK, opts, best, counts, range
  <2>3. ReferencesCounted'
    BY <2>1 DEF Typed, ReferencesCounted, Slots, best
  <2> QED BY <1>3, <2>2, <2>3 DEF Typed
<1> QED BY <1>4, <1>5

LEMMA TrimTyped ==
    ASSUME Typed, Trim PROVE Typed'
<1>1. /\ pc = "trim" /\ pc' = "havoc" /\ queue_cur \in DOMAIN queue
      /\ UNCHANGED <<opts, queue_cur, counts, virgin_bits, range, cal>>
      /\ cur \in EntryType /\ queue_cur # 0
  BY TrimFacts, QueueIs DEF Typed, cur, Control, InFuzzOne
<1>2. Control'
  BY <1>1 DEF Control, InFuzzOne
<1>3. CASE UNCHANGED <<queue, best>>
  <2>1. TypeOK'
    BY <1>1, <1>3 DEF Typed, TypeOK, opts, best, counts, range
  <2>2. ReferencesCounted'
    BY <1>3 DEF Typed, ReferencesCounted, Slots, best
  <2> QED BY <1>2, <2>1, <2>2 DEF Typed
<1>4. ASSUME NEW x,
             x = [cur EXCEPT !.len = x.len, !.trim_done = TRUE],
             Replaced(queue_cur, x), UNCHANGED best
      PROVE  Typed'
  <2>1. TypeOK'
    BY <1>1, <1>4 DEF Typed, TypeOK, Replaced, opts, best, counts, range
  <2>2. x.tc_ref = cur.tc_ref /\ x.trace_mini = cur.trace_mini
    BY <1>1, <1>4 DEF EntryType
  <2>3. ReferencesCounted'
    BY <1>1, <1>4, <2>2, StillCounted DEF Typed, best, cur
  <2> QED BY <1>2, <2>1, <2>3 DEF Typed
<1>5. ASSUME NEW x, NEW qs, Prepared(qs, queue_cur, x),
             update_bitmap_score(qs, queue_cur, cur.exec_cksum)
      PROVE  Typed'
  <2>1. cur.exec_cksum \in Trace
    BY <1>1 DEF EntryType
  <2>2. /\ queue' \in Seq(EntryType) /\ Len(queue') = Len(queue)
        /\ DOMAIN queue' = DOMAIN queue
        /\ top_rated' \in [Edge -> 0 .. Len(queue)]
        /\ score_changed' \in BOOLEAN
        /\ \A k \in DOMAIN queue :
              /\ queue'[k].tc_ref = Cardinality(Slots(k)')
              /\ queue'[k].trace_mini = {} <=> queue'[k].tc_ref = 0
    BY <1>1, <1>5, <2>1, ScoreFacts DEF Typed, Prepared
  <2>3. TypeOK'
    BY <1>1, <2>2 DEF Typed, TypeOK, opts, counts, range
  <2>4. ReferencesCounted'
    BY <2>2 DEF ReferencesCounted
  <2> QED BY <1>2, <2>3, <2>4 DEF Typed
<1> QED BY <1>3, <1>4, <1>5, TrimFacts

LEMMA SaveTyped ==
    ASSUME Typed, SaveIfInteresting PROVE Typed'
<1>1. PICK x \in EntryType :
           /\ x.cal_failed = 1 /\ x.tc_ref = 0 /\ x.trace_mini = {}
           /\ Len(queue) < MaxQueue
           /\ queue' \in Seq(EntryType) /\ Len(queue') = Len(queue) + 1
           /\ DOMAIN queue' = DOMAIN queue \cup {Len(queue) + 1}
           /\ \A k \in DOMAIN queue : queue'[k] = queue[k]
           /\ queue'[Len(queue) + 1] = x
           /\ virgin_bits' \in [Edge -> SUBSET Hits]
           /\ max_distance' \in Int /\ min_distance' \in Int
           /\ pc \in {"havoc", "sync"} /\ pc' = "calibrate"
           /\ pending_not_fuzzed' = pending_not_fuzzed + 1
           /\ UNCHANGED <<opts, queue_cur, best, queued_favored,
                          pending_favored>>
           /\ cal' \in [q : {Len(queue) + 1}, caller : {pc},
                        first_run : BOOLEAN, new_bits : {0},
                        stage_cur : {0}, trace_bits : {NoTrace}]
  BY SaveFacts
<1>2. Len(queue) \in Nat /\ queue_cur \in 0 .. Len(queue) /\ queue_cur # 0
      /\ DOMAIN queue = 1 .. Len(queue) /\ MaxQueue \in Nat
  BY <1>1, QueueIs, SeedQueueAssumption DEF Typed, TypeOK, Control, InFuzzOne
<1>3. /\ queue_cur' \in 0 .. Len(queue') /\ Len(queue') \in 1 .. MaxQueue
      /\ top_rated' \in [Edge -> 0 .. Len(queue')]
  <2>1. 0 .. Len(queue) \subseteq 0 .. Len(queue')
    BY <1>1, <1>2
  <2> QED BY <1>1, <1>2, <2>1 DEF Typed, TypeOK, best
<1>4. cal' \in [q : 0 .. Len(queue'),
                caller : {"none", "dry_run", "recalibrate", "havoc", "sync"},
                first_run : BOOLEAN, new_bits : 0 .. 2,
                stage_cur : 0 .. CAL_CYCLES, trace_bits : Trace]
  <2>1. /\ Len(queue) + 1 \in 0 .. Len(queue') /\ Len(queue') \in Nat
        /\ pc \in {"dry_run", "recalibrate", "havoc", "sync"}
    BY <1>1, <1>2
  <2> QED BY <1>1, <2>1, CalType
<1>5. TypeOK'
  <2>1. pending_not_fuzzed' \in Int
    BY <1>1 DEF Typed, TypeOK
  <2> QED BY <1>1, <1>3, <1>4, <2>1 DEF Typed, TypeOK, opts, best
<1>6. ReferencesCounted'
  <2>1. \A k \in DOMAIN queue : Slots(k)' = Slots(k)
    BY <1>1 DEF Slots, best
  <2> PICK n : n = Len(queue) + 1
    OBVIOUS
  <2>2. Slots(n)' = {}
    BY <1>1, <1>2 DEF Slots, best, Typed, TypeOK
  <2>3. ASSUME NEW k \in DOMAIN queue
        PROVE  /\ queue'[k].tc_ref = Cardinality(Slots(k)')
               /\ queue'[k].trace_mini = {} <=> queue'[k].tc_ref = 0
    <3> HIDE DEF Slots
    <3> QED BY <1>1, <2>1 DEF Typed, ReferencesCounted
  <2>4. Cardinality(Slots(n)') = 0
    BY <2>2, FS_EmptySet
  <2> HIDE DEF Slots
  <2>5. /\ queue'[n].tc_ref = Cardinality(Slots(n)')
        /\ queue'[n].trace_mini = {} <=> queue'[n].tc_ref = 0
    BY <1>1, <2>4
  <2>6. DOMAIN queue' = DOMAIN queue \cup {n}
    BY <1>1
  <2> SUFFICES ASSUME NEW k \in DOMAIN queue'
               PROVE  /\ queue'[k].tc_ref = Cardinality(Slots(k)')
                      /\ queue'[k].trace_mini = {} <=> queue'[k].tc_ref = 0
    BY DEF ReferencesCounted
  <2>7. CASE k = n
    BY <2>5, <2>7
  <2>8. CASE k # n
    BY <2>3, <2>6, <2>8
  <2> QED BY <2>7, <2>8
<1>7. Control'
  <2>1. cal'.q = Len(queue) + 1 /\ cal'.caller = pc
    BY <1>1
  <2> QED BY <1>1, <1>2, <2>1 DEF Control, InFuzzOne
<1> QED BY <1>5, <1>6, <1>7 DEF Typed

LEMMA AbandonTyped ==
    ASSUME Typed, AbandonEntry PROVE Typed'
<1> DEFINE x == [cur EXCEPT !.was_fuzzed = TRUE]
<1>1. /\ queue_cur \in DOMAIN queue /\ cur \in EntryType
      /\ queue_cur' \in 0 .. Len(queue)
      /\ pc \in {"abandon", "havoc"} /\ pc' \in {"main", "sync"}
      /\ pc' = "sync" => queue_cur' = queue_cur
      /\ UNCHANGED <<opts, queued_favored, best, virgin_bits, range, cal>>
      /\ queue_cur # 0
  BY AbandonFacts, QueueIs DEF Typed, cur, Control, InFuzzOne
<1>2. Control'
  BY <1>1 DEF Control, InFuzzOne
<1>3. CASE /\ Replaced(queue_cur, x)
           /\ pending_not_fuzzed' = pending_not_fuzzed - 1
           /\ pending_favored' = IF cur.favored THEN pending_favored - 1
                                 ELSE pending_favored
  <2>1. pending_not_fuzzed' \in Int /\ pending_favored' \in Int
    BY <1>3 DEF Typed, TypeOK
  <2>2. TypeOK'
    BY <1>1, <1>3, <2>1 DEF Typed, TypeOK, Replaced, opts, best, range
  <2>3. x.tc_ref = cur.tc_ref /\ x.trace_mini = cur.trace_mini
    BY <1>1 DEF EntryType
  <2>4. ReferencesCounted'
    <3> HIDE DEF x
    <3> QED BY <1>1, <1>3, <2>3, StillCounted DEF Typed, best, cur
  <2> QED BY <1>2, <2>2, <2>4 DEF Typed
<1>4. CASE UNCHANGED <<queue, pending_not_fuzzed, pending_favored>>
  <2>1. TypeOK'
    BY <1>1, <1>4 DEF Typed, TypeOK, opts, best, range
  <2>2. ReferencesCounted'
    BY <1>1, <1>4 DEF Typed, ReferencesCounted, Slots, best
  <2> QED BY <1>2, <2>1, <2>2 DEF Typed
<1> QED BY <1>3, <1>4, AbandonFacts

(* The other actions leave the queue and what refers to it alone.          *)
LEMMA QuietTyped ==
    ASSUME Typed,
           \/ SkipEntry \/ TakeEntry \/ SyncEnds \/ Stop \/ UNCHANGED vars
    PROVE  /\ Typed'
           /\ UNCHANGED <<opts, queue, best, counts, virgin_bits, range, cal>>
<1>1. UNCHANGED <<opts, queue, best, counts, virgin_bits, range, cal>>
  BY DEF SkipEntry, TakeEntry, SyncEnds, Stop, vars, opts
<1>2. /\ pc' \in {"dry_run", "calibrate", "main", "fuzz_one", "trim", "havoc",
                  "abandon", "sync", "fatal", "stopped"}
      /\ queue_cur' \in 0 .. Len(queue)
  <2> Len(queue) \in Nat /\ queue_cur \in 0 .. Len(queue)
    BY QueueIs DEF Typed, TypeOK
  <2>1. Advance => pc' = "main" /\ queue_cur' \in 0 .. Len(queue)
    BY DEF Advance, Goto
  <2>2. CASE SkipEntry \/ SyncEnds
    BY <2>1, <2>2 DEF SkipEntry, SyncEnds
  <2>3. CASE TakeEntry
    BY <2>3 DEF TakeEntry, Goto
  <2>4. CASE Stop \/ UNCHANGED vars
    BY <2>4 DEF Stop, Goto, vars, place, Typed, TypeOK
  <2> QED BY <2>2, <2>3, <2>4
<1>3. TypeOK'
  BY <1>1, <1>2 DEF Typed, TypeOK, opts, best, counts, range
<1>4. ReferencesCounted'
  BY <1>1 DEF Typed, ReferencesCounted, Slots, best
<1>5. Control'
  <2>1. CASE TakeEntry
    <3>1. /\ pc = "fuzz_one" /\ UNCHANGED queue_cur
          /\ pc' \in {"havoc", "abandon", "trim"}
          /\ pc' = "trim" => ~ (cur.cal_failed > 0)
      BY <2>1 DEF TakeEntry, Goto
    <3>2. cur.cal_failed \in Nat
      <4>1. queue_cur # 0
        BY <3>1 DEF Typed, Control, InFuzzOne
      <4>2. queue_cur \in DOMAIN queue
        BY <4>1, QueueIs DEF Typed, TypeOK
      <4>3. cur \in EntryType
        BY <4>2, QueueIs DEF Typed, cur
      <4> QED BY <4>3 DEF EntryType
    <3> QED BY <1>1, <3>1, <3>2 DEF Typed, Control, InFuzzOne, cur
  <2>2. CASE SkipEntry \/ SyncEnds
    BY <2>2 DEF SkipEntry, SyncEnds, Advance, Goto, Control, InFuzzOne
  <2>3. CASE Stop
    BY <2>3 DEF Stop, Goto, Control, InFuzzOne
  <2>4. CASE UNCHANGED vars
    BY <2>4 DEF vars, place, Typed, Control, InFuzzOne, cur
  <2> QED BY <2>1, <2>2, <2>3, <2>4
<1> QED BY <1>1, <1>3, <1>4, <1>5 DEF Typed

LEMMA TypedNext ==
    ASSUME Typed, [Next]_vars PROVE Typed'
<1>1. CASE DryRun
  BY <1>1, CalibrateTyped DEF DryRun, Typed, Control, InFuzzOne
<1>2. CASE Recalibrate
  BY <1>2, CalibrateTyped DEF Recalibrate, Typed, Control, InFuzzOne
<1>3. CASE \/ SkipEntry \/ TakeEntry \/ SyncEnds \/ Stop \/ UNCHANGED vars
  BY <1>3, QuietTyped
<1> QED BY <1>1, <1>2, <1>3, RunTyped, FailTyped, EndTyped, NextEntryTyped,
           TrimTyped, SaveTyped, AbandonTyped
        DEF Next, Main, Calibration, FuzzOne

(* The variables have their types, for any map and any inputs.             *)
THEOREM TypeCorrect == Spec => []TypeOK
<1>1. Init => Typed
  BY TypedInit
<1>2. Typed /\ [Next]_vars => Typed'
  BY TypedNext
<1>3. Typed => TypeOK
  BY DEF Typed
<1> QED BY <1>1, <1>2, <1>3, PTL DEF Spec

(* update_bitmap_score counts references right: an entry has a bitmap for  *)
(* cull_queue exactly as long as some edge refers to it, in any order of   *)
(* calibrations, trims, finds and culls.                                   *)
THEOREM ReferencesAreRight == Spec => []ReferencesCounted
<1>1. Init => Typed
  BY TypedInit
<1>2. Typed /\ [Next]_vars => Typed'
  BY TypedNext
<1>3. Typed => ReferencesCounted
  BY DEF Typed
<1> QED BY <1>1, <1>2, <1>3, PTL DEF Spec

-----------------------------------------------------------------------------
(* Who is the best of an edge.                                             *)

LEMMA UnratedInit ==
    ASSUME Init, Typed PROVE Unrated /\ UpToDate
<1>1. top_rated = [e \in Edge |-> 0] /\ DOMAIN queue = 1 .. Len(queue)
      /\ Len(queue) \in Nat
  BY QueueIs DEF Init, Typed
<1>2. \A k \in DOMAIN queue : Slots(k) = {}
  BY <1>1 DEF Slots
<1> HIDE DEF Slots
<1> QED BY <1>2 DEF Unrated, UpToDate, Fresh

LEMMA SameSlots ==
    ASSUME UNCHANGED top_rated PROVE \A k : Slots(k)' = Slots(k)
BY DEF Slots

(* The winner of a contest and the others, after it.                       *)
LEMMA ContestFacts ==
    ASSUME Typed, NEW q \in DOMAIN queue, NEW x, NEW qs, Prepared(qs, q, x),
           NEW trace \in Trace, update_bitmap_score(qs, q, trace)
    PROVE  /\ DOMAIN queue' = DOMAIN queue /\ Scored(queue'[q], x)
           /\ \A k \in DOMAIN queue \ {q} :
                 /\ Scored(queue'[k], queue[k])
                 /\ Slots(k)' \subseteq Slots(k)
                 /\ \/ queue'[k].trace_mini = queue[k].trace_mini
                    \/ queue'[k].trace_mini = {} /\ Slots(k)' = {}
           /\ Slots(q) = {} => Slots(q)' \subseteq queue'[q].trace_mini
<1>1. /\ DOMAIN queue' = DOMAIN queue
      /\ \A k \in DOMAIN queue : Scored(queue'[k], qs[k])
      /\ \A k \in DOMAIN queue \ {q} :
            Slots(k)' = Slots(k) \ Won(qs, q, trace)
      /\ \A k \in DOMAIN queue \ {q} :
            queue'[k].trace_mini \in {queue[k].trace_mini, {}}
      /\ \A k \in DOMAIN queue :
            /\ queue'[k].tc_ref = Cardinality(Slots(k)')
            /\ queue'[k].trace_mini = {} <=> queue'[k].tc_ref = 0
      /\ Slots(q) = {} => Slots(q)' \subseteq queue'[q].trace_mini
  BY ScoreFacts DEF Typed, Prepared
<1>2. /\ qs[q] = x
      /\ \A k \in DOMAIN queue \ {q} : qs[k] = queue[k]
  BY DEF Prepared
<1>3. \A k : Slots(k)' \in SUBSET Edge
  BY DEF Slots
<1>4. \A k \in DOMAIN queue : queue'[k].trace_mini = {} => Slots(k)' = {}
  <2> SUFFICES ASSUME NEW k \in DOMAIN queue, Cardinality(Slots(k)') = 0
               PROVE  Slots(k)' = {}
    BY <1>1
  <2> QED BY <1>3, EdgesFinite
<1> HIDE DEF Slots
<1> QED BY <1>1, <1>2, <1>4

LEMMA UnratedNext ==
    ASSUME Typed, Unrated, [Next]_vars PROVE Unrated'
<1> HIDE DEF Slots
<1>0. /\ \A k \in DOMAIN queue : k \in Nat /\ queue[k] \in EntryType
      /\ pc = "calibrate" =>
           /\ cal.q \in DOMAIN queue /\ queue[cal.q].cal_failed > 0
           /\ cal.caller \in {"dry_run", "recalibrate"} => cal.q = queue_cur
      /\ pc \in InFuzzOne \cup {"dry_run"} => queue_cur \in DOMAIN queue
  BY QueueIs DEF Typed, TypeOK, Control
<1>1. ASSUME NEW who \in {"dry_run", "recalibrate"},
             pc \in {"dry_run", "fuzz_one"},
             Calibrate(queue, queue_cur, who), Slots(queue_cur) = {},
             who = "dry_run" => pc = "dry_run",
             UNCHANGED <<queue_cur, best>>
      PROVE  Unrated'
  <2>1. queue_cur \in DOMAIN queue
    BY <1>0, <1>1 DEF InFuzzOne
  <2>2. /\ DOMAIN queue' = DOMAIN queue
        /\ \A k \in DOMAIN queue \ {queue_cur} : queue'[k] = queue[k]
        /\ pc' = "calibrate" /\ cal'.caller = who
    BY <1>1, <2>1, CalibrateFacts DEF Replaced, Typed
  <2>3. \A k : Slots(k)' = Slots(k)
    BY <1>1, SameSlots DEF best
  <2> QED BY <1>1, <2>1, <2>2, <2>3 DEF Unrated
<1>2. CASE DryRun
  <2>1. Slots(queue_cur) = {}
    BY <1>0, <1>2 DEF DryRun, Unrated
  <2> QED BY <1>1, <1>2, <2>1 DEF DryRun
<1>3. CASE Recalibrate
  <2>1. Slots(queue_cur) = {}
    BY <1>0, <1>3 DEF Recalibrate, Unrated, InFuzzOne, cur
  <2> QED BY <1>1, <1>3, <2>1 DEF Recalibrate
<1>4. CASE CalibrationRun
  <2>1. PICK x : /\ Replaced(cal.q, x) /\ pc = "calibrate"
                 /\ x = [queue[cal.q] EXCEPT !.distance = x.distance,
                                             !.exec_cksum = x.exec_cksum]
                 /\ UNCHANGED <<place, best>>
                 /\ cal'.caller = cal.caller
    <3>1. PICK x : \E r \in Outcomes[queue[cal.q].input] :
               /\ Replaced(cal.q, x) /\ pc = "calibrate"
               /\ x = [queue[cal.q] EXCEPT !.distance = x.distance,
                                           !.exec_cksum = x.exec_cksum]
               /\ cal' = [cal EXCEPT !.stage_cur = @ + 1,
                                     !.trace_bits = r.trace,
                                     !.new_bits = cal'.new_bits]
               /\ UNCHANGED <<opts, place, best, counts>>
      BY <1>4, RunFacts
    <3>2. cal'.caller = cal.caller
      BY <3>1 DEF Typed, TypeOK
    <3> QED BY <3>1, <3>2
  <2>2. /\ DOMAIN queue' = DOMAIN queue
        /\ \A k \in DOMAIN queue : queue'[k].cal_failed = queue[k].cal_failed
    <3>1. x.cal_failed = queue[cal.q].cal_failed
      BY <1>0, <2>1 DEF EntryType
    <3> QED BY <1>0, <2>1, <3>1 DEF Replaced
  <2>3. \A k : Slots(k)' = Slots(k)
    BY <2>1, SameSlots DEF best
  <2> QED BY <2>1, <2>2, <2>3 DEF Unrated, place
<1>5. CASE CalibrationFails
  <2>1. PICK x : \E f \in Bad : /\ Replaced(cal.q, x) /\ Return(f)
                                /\ pc = "calibrate" /\ UNCHANGED best
    BY <1>5, FailFacts
  <2>2. \A k : Slots(k)' = Slots(k)
    BY <2>1, SameSlots DEF best
  <2>3. pc' = "dry_run" => cal.caller = "dry_run" /\ queue_cur' = cal.q + 1
    BY <2>1, ReturnFacts DEF Typed
  <2>4. pc' # "calibrate"
    BY <2>1, ReturnFacts DEF Typed
  <2> QED BY <1>0, <2>1, <2>2, <2>3, <2>4 DEF Unrated, Replaced
<1>6. CASE CalibrationEnds
  <2>1. PICK qs, x, f :
           /\ Prepared(qs, cal.q, x) /\ x.cal_failed = 0
           /\ update_bitmap_score(qs, cal.q, cal.trace_bits)
           /\ cal.trace_bits \in Trace
           /\ Return(f) /\ pc = "calibrate"
    BY <1>6, EndFacts
  <2>2. /\ pc' # "calibrate"
        /\ pc' = "dry_run" => cal.caller = "dry_run" /\ queue_cur' = cal.q + 1
    BY <2>1, ReturnFacts DEF Typed
  <2>3. /\ DOMAIN queue' = DOMAIN queue /\ queue'[cal.q].cal_failed = 0
        /\ \A k \in DOMAIN queue \ {cal.q} :
              /\ queue'[k].cal_failed = queue[k].cal_failed
              /\ Slots(k)' \subseteq Slots(k)
    BY <1>0, <2>1, ContestFacts DEF Scored
  <2> QED BY <1>0, <2>1, <2>2, <2>3 DEF Unrated
<1>7. CASE NextEntry
  <2>1. /\ DOMAIN queue' = DOMAIN queue /\ UNCHANGED top_rated
        /\ \A k \in DOMAIN queue : queue'[k].cal_failed = queue[k].cal_failed
    <3>1. CASE ~ score_changed
      BY <1>7, <3>1 DEF NextEntry, cull_queue, best
    <3>2. CASE score_changed
      <4>1. /\ DOMAIN queue' = DOMAIN queue /\ UNCHANGED top_rated
            /\ \A k \in DOMAIN queue : queue'[k] =
                  [queue[k] EXCEPT !.favored = queue'[k].favored]
        BY <1>7, <3>2, CullFacts DEF NextEntry, Typed
      <4> QED BY <1>0, <4>1 DEF EntryType
    <3> QED BY <3>1, <3>2
  <2>2. pc' = "fuzz_one"
    BY <1>7 DEF NextEntry, Goto
  <2> QED BY <2>1, <2>2, SameSlots DEF Unrated
<1>8. CASE Trim
  <2>1. /\ queue_cur \in DOMAIN queue /\ pc = "trim" /\ pc' = "havoc"
        /\ cur.cal_failed = 0 /\ cur \in EntryType
    BY <1>0, <1>8, TrimFacts DEF Typed, Control, cur
  <2> DEFINE Shrunk ==
        /\ DOMAIN queue' = DOMAIN queue
        /\ \A k \in DOMAIN queue :
              queue'[k].cal_failed > 0 =>
                 queue[k].cal_failed > 0 /\ Slots(k)' \subseteq Slots(k)
  <2>2. Shrunk
    <3>1. CASE UNCHANGED <<queue, best>>
      BY <3>1, SameSlots DEF best
    <3>2. ASSUME NEW x, x = [cur EXCEPT !.len = x.len, !.trim_done = TRUE],
                 Replaced(queue_cur, x), UNCHANGED best
          PROVE  Shrunk
      <4>1. x.cal_failed = 0
        BY <2>1, <3>2 DEF EntryType
      <4> QED BY <2>1, <3>2, <4>1, SameSlots DEF Replaced, best
    <3>3. ASSUME NEW x, x = [cur EXCEPT !.len = x.len, !.trim_done = TRUE],
                 NEW qs, Prepared(qs, queue_cur, x),
                 update_bitmap_score(qs, queue_cur, cur.exec_cksum)
          PROVE  Shrunk
      <4>1. x.cal_failed = 0 /\ cur.exec_cksum \in Trace
        BY <2>1, <3>3 DEF EntryType
      <4>2. /\ DOMAIN queue' = DOMAIN queue
            /\ queue'[queue_cur].cal_failed = 0
            /\ \A k \in DOMAIN queue \ {queue_cur} :
                  /\ queue'[k].cal_failed = queue[k].cal_failed
                  /\ Slots(k)' \subseteq Slots(k)
        BY <2>1, <3>3, <4>1, ContestFacts DEF Scored
      <4> QED BY <4>2
    <3> QED BY <1>8, <3>1, <3>2, <3>3, TrimFacts
  <2> QED BY <2>1, <2>2 DEF Unrated
<1>9. CASE SaveIfInteresting
  <2>1. PICK x : /\ DOMAIN queue' = DOMAIN queue \cup {Len(queue) + 1}
                 /\ \A k \in DOMAIN queue : queue'[k] = queue[k]
                 /\ pc \in {"havoc", "sync"} /\ pc' = "calibrate"
                 /\ UNCHANGED best /\ cal'.caller = pc
    BY <1>9, SaveFacts
  <2>2. Slots(Len(queue) + 1) = {}
    BY QueueIs DEF Slots, Typed, TypeOK
  <2>3. \A k : Slots(k)' = Slots(k)
    BY <2>1, SameSlots DEF best
  <2> QED BY <2>1, <2>2, <2>3 DEF Unrated
<1>10. CASE AbandonEntry
  <2>1. /\ queue_cur \in DOMAIN queue /\ pc' \in {"main", "sync"}
        /\ UNCHANGED best
        /\ \/ Replaced(queue_cur, [cur EXCEPT !.was_fuzzed = TRUE])
           \/ UNCHANGED queue
    BY <1>10, AbandonFacts
  <2>2. /\ DOMAIN queue' = DOMAIN queue
        /\ \A k \in DOMAIN queue : queue'[k].cal_failed = queue[k].cal_failed
    <3>1. [cur EXCEPT !.was_fuzzed = TRUE].cal_failed
             = queue[queue_cur].cal_failed
      BY <1>0, <2>1 DEF EntryType, cur
    <3> QED BY <2>1, <3>1 DEF Replaced
  <2>3. \A k : Slots(k)' = Slots(k)
    BY <2>1, SameSlots DEF best
  <2> QED BY <2>1, <2>2, <2>3 DEF Unrated
<1>11. CASE SkipEntry \/ TakeEntry \/ SyncEnds \/ Stop \/ UNCHANGED vars
  <2>1. UNCHANGED <<queue, best, cal>>
    BY <1>11, QuietTyped
  <2>2. \A k : Slots(k)' = Slots(k)
    BY <2>1, SameSlots DEF best
  <2>3. \/ pc' \notin {"dry_run", "calibrate"}
        \/ UNCHANGED <<pc, queue_cur>>
    BY <1>11 DEF SkipEntry, TakeEntry, SyncEnds, Stop, Goto, Advance, vars,
                 place
  <2> QED BY <2>1, <2>2, <2>3 DEF Unrated
<1> QED BY <1>2, <1>3, <1>4, <1>5, <1>6, <1>7, <1>8, <1>9, <1>10, <1>11
        DEF Next, Main, Calibration, FuzzOne

(* No step leaves an entry that was not fuzzed yet with edges its bitmap   *)
(* lacks, but the trim of the entry in its turn.                           *)
LEMMA UpToDateNext ==
    ASSUME Typed, Unrated, UpToDate, [Next]_vars PROVE UpToDate'
<1> HIDE DEF Slots
<1> DEFINE Bare(k) == Slots(k) \subseteq queue[k].trace_mini
           Turn(k) == k = queue_cur /\ queue[k].cal_failed = 0 /\ InHavoc
<1>0. /\ \A k \in DOMAIN queue : k \in Nat /\ queue[k] \in EntryType
      /\ pc = "calibrate" => cal.q \in DOMAIN queue /\ Slots(cal.q) = {}
      /\ pc \in InFuzzOne \cup {"dry_run"} => queue_cur \in DOMAIN queue
      /\ \A k \in DOMAIN queue :
            ~ queue[k].was_fuzzed => Bare(k) \/ Turn(k)
  BY QueueIs DEF Typed, TypeOK, Control, Unrated, UpToDate, Fresh
(* A step that changes neither bitmaps nor edges.                          *)
<1>1. ASSUME UNCHANGED top_rated, DOMAIN queue' = DOMAIN queue,
             \A k \in DOMAIN queue :
                /\ queue'[k].trace_mini = queue[k].trace_mini
                /\ queue[k].was_fuzzed => queue'[k].was_fuzzed
                /\ ~ queue'[k].was_fuzzed /\ Turn(k) => Turn(k)'
      PROVE  UpToDate'
  <2>1. \A k : Slots(k)' = Slots(k)
    BY <1>1, SameSlots
  <2> SUFFICES ASSUME NEW k \in DOMAIN queue, ~ queue'[k].was_fuzzed
               PROVE  Bare(k)' \/ Turn(k)'
    BY <1>1 DEF UpToDate, Fresh
  <2>2. Bare(k) => Bare(k)'
    BY <1>1, <2>1
  <2> HIDE DEF Bare, Turn
  <2> QED BY <1>0, <1>1, <2>2
(* A contest of q, which had no edges or whose turn it is.                 *)
<1>2. ASSUME NEW q \in DOMAIN queue, NEW x, NEW qs, Prepared(qs, q, x),
             NEW trace \in Trace, update_bitmap_score(qs, q, trace),
             Slots(q) = {} \/ Turn(q)',
             \A k \in DOMAIN queue \ {q} :
                Turn(k) /\ queue'[k].cal_failed = queue[k].cal_failed
                   => Turn(k)'
      PROVE  UpToDate'
  <2>1. /\ DOMAIN queue' = DOMAIN queue
        /\ \A k \in DOMAIN queue \ {q} :
              /\ Scored(queue'[k], queue[k])
              /\ Slots(k)' \subseteq Slots(k)
              /\ \/ queue'[k].trace_mini = queue[k].trace_mini
                 \/ queue'[k].trace_mini = {} /\ Slots(k)' = {}
        /\ Slots(q) = {} => Slots(q)' \subseteq queue'[q].trace_mini
    BY <1>2, ContestFacts
  <2> SUFFICES ASSUME NEW k \in DOMAIN queue, ~ queue'[k].was_fuzzed
               PROVE  Bare(k)' \/ Turn(k)'
    BY <2>1 DEF UpToDate, Fresh
  <2>2. CASE k = q
    BY <1>2, <2>1, <2>2
  <2>3. CASE k # q
    <3>1. /\ ~ queue[k].was_fuzzed
          /\ queue'[k].cal_failed = queue[k].cal_failed
      BY <2>1, <2>3 DEF Scored
    <3>2. Bare(k) => Bare(k)'
      BY <2>1, <2>3
    <3>3. Turn(k) => Turn(k)'
      BY <1>2, <2>3, <3>1
    <3> HIDE DEF Bare, Turn
    <3> QED BY <1>0, <3>1, <3>2, <3>3
  <2> QED BY <2>2, <2>3
<1>3. CASE DryRun \/ Recalibrate
  <2>1. PICK who \in {"dry_run", "recalibrate"} :
           Calibrate(queue, queue_cur, who)
    BY <1>3 DEF DryRun, Recalibrate
  <2>2. /\ queue_cur \in DOMAIN queue /\ ~ InHavoc
        /\ UNCHANGED top_rated
    BY <1>0, <1>3 DEF DryRun, Recalibrate, InHavoc, InFuzzOne, best
  <2>3. Replaced(queue_cur, [queue[queue_cur] EXCEPT !.cal_failed = @ + 1])
    BY <2>1, <2>2, CalibrateFacts DEF Typed
  <2>4. /\ [queue[queue_cur] EXCEPT !.cal_failed = @ + 1].trace_mini
             = queue[queue_cur].trace_mini
        /\ [queue[queue_cur] EXCEPT !.cal_failed = @ + 1].was_fuzzed
             = queue[queue_cur].was_fuzzed
    BY <1>0, <2>2 DEF EntryType
  <2> QED BY <1>1, <2>2, <2>3, <2>4 DEF Replaced
<1>4. CASE CalibrationRun
  <2>1. PICK x : \E r \in Outcomes[queue[cal.q].input] :
           /\ Replaced(cal.q, x) /\ pc = "calibrate"
           /\ x = [queue[cal.q] EXCEPT !.distance = x.distance,
                                       !.exec_cksum = x.exec_cksum]
           /\ cal' = [cal EXCEPT !.stage_cur = @ + 1,
                                 !.trace_bits = r.trace,
                                 !.new_bits = cal'.new_bits]
           /\ UNCHANGED <<opts, place, best, counts>>
    BY <1>4, RunFacts
  <2>2. cal'.caller = cal.caller
    BY <2>1 DEF Typed, TypeOK
  <2>3. /\ x.trace_mini = queue[cal.q].trace_mini
        /\ x.was_fuzzed = queue[cal.q].was_fuzzed
        /\ x.cal_failed = queue[cal.q].cal_failed
    BY <1>0, <2>1 DEF EntryType
  <2>4. \A k \in DOMAIN queue : Turn(k) => Turn(k)'
    BY <1>0, <2>1, <2>2, <2>3 DEF Replaced, InHavoc, place
  <2> HIDE DEF Turn, Bare
  <2> QED BY <1>0, <1>1, <2>1, <2>3, <2>4 DEF Replaced, best
<1>5. ASSUME NEW f, Return(f), pc = "calibrate", InHavoc
      PROVE  InHavoc' /\ UNCHANGED queue_cur
  BY <1>5, ReturnFacts DEF InHavoc, Typed, InFuzzOne
<1>6. CASE CalibrationFails
  <2>1. PICK x : \E f \in Bad :
           /\ Replaced(cal.q, x) /\ Return(f) /\ pc = "calibrate"
           /\ x = [queue[cal.q] EXCEPT !.has_new_cov = x.has_new_cov,
                                       !.cal_failed = x.cal_failed]
           /\ x.cal_failed > 0 /\ UNCHANGED best
    BY <1>6, FailFacts
  <2>2. InHavoc => InHavoc' /\ UNCHANGED queue_cur
    BY <1>5, <2>1
  <2>3. /\ x.trace_mini = queue[cal.q].trace_mini
        /\ x.was_fuzzed = queue[cal.q].was_fuzzed
    BY <1>0, <2>1 DEF EntryType
  <2>4. queue[cal.q].cal_failed > 0
    BY <2>1 DEF Typed, Control
  <2>5. \A k \in DOMAIN queue : Turn(k) => Turn(k)'
    BY <1>0, <2>1, <2>2, <2>4 DEF Replaced
  <2> HIDE DEF Turn, Bare
  <2> QED BY <1>0, <1>1, <2>1, <2>3, <2>5 DEF Replaced, best
<1>7. CASE CalibrationEnds
  <2>1. PICK qs, x, f :
           /\ Prepared(qs, cal.q, x)
           /\ update_bitmap_score(qs, cal.q, cal.trace_bits)
           /\ cal.trace_bits \in Trace
           /\ Return(f) /\ pc = "calibrate"
    BY <1>7, EndFacts
  <2>2. InHavoc => InHavoc' /\ UNCHANGED queue_cur
    BY <1>5, <2>1
  <2>3. PICK q \in DOMAIN queue : q = cal.q /\ Slots(q) = {}
    BY <1>0, <2>1
  <2>4. PICK trace \in Trace : trace = cal.trace_bits
    BY <2>1
  <2>5. \A k \in DOMAIN queue \ {q} :
           Turn(k) /\ queue'[k].cal_failed = queue[k].cal_failed => Turn(k)'
    BY <2>2
  <2> HIDE DEF Turn
  <2> QED BY <1>2, <2>1, <2>3, <2>4, <2>5
<1>8. CASE NextEntry
  <2>1. pc = "main"
    BY <1>8 DEF NextEntry
  <2>2. ASSUME score_changed PROVE UpToDate'
    <3>1. /\ DOMAIN queue' = DOMAIN queue /\ UNCHANGED top_rated
          /\ \A k \in DOMAIN queue : queue'[k] =
                [queue[k] EXCEPT !.favored = queue'[k].favored]
      BY <1>8, <2>2, CullFacts DEF NextEntry, Typed
    <3>2. \A k \in DOMAIN queue :
             /\ queue'[k].trace_mini = queue[k].trace_mini
             /\ queue'[k].was_fuzzed = queue[k].was_fuzzed
      BY <1>0, <3>1 DEF EntryType
    <3> QED BY <1>1, <2>1, <3>1, <3>2 DEF InHavoc
  <2>3. ASSUME ~ score_changed PROVE UpToDate'
    BY <1>1, <1>8, <2>1, <2>3 DEF NextEntry, cull_queue, best, InHavoc
  <2> QED BY <2>2, <2>3
<1>9. CASE Trim
  <2>1. /\ queue_cur \in DOMAIN queue /\ pc = "trim" /\ pc' = "havoc"
        /\ UNCHANGED queue_cur /\ cur.cal_failed = 0 /\ cur \in EntryType
    BY <1>0, <1>9, TrimFacts DEF Typed, Control, cur
  <2>2. ~ InHavoc /\ InHavoc'
    BY <2>1 DEF InHavoc
  <2>3. CASE UNCHANGED <<queue, best>>
    BY <1>1, <2>2, <2>3 DEF best
  <2>4. ASSUME NEW x, x = [cur EXCEPT !.len = x.len, !.trim_done = TRUE],
               Replaced(queue_cur, x), UNCHANGED best
        PROVE  UpToDate'
    <3>1. /\ x.trace_mini = cur.trace_mini /\ x.was_fuzzed = cur.was_fuzzed
      BY <2>1, <2>4 DEF EntryType
    <3> QED BY <1>1, <2>1, <2>2, <2>4, <3>1 DEF Replaced, best, cur
  <2>5. ASSUME NEW x, x = [cur EXCEPT !.len = x.len, !.trim_done = TRUE],
               NEW qs, Prepared(qs, queue_cur, x),
               update_bitmap_score(qs, queue_cur, cur.exec_cksum)
        PROVE  UpToDate'
    <3>1. PICK q \in DOMAIN queue : q = queue_cur
      BY <2>1
    <3>2. PICK trace \in Trace : trace = cur.exec_cksum
      BY <2>1 DEF EntryType
    <3>3. queue'[q].cal_failed = 0
      <4>1. x.cal_failed = 0
        BY <2>1, <2>5 DEF EntryType
      <4>2. Scored(queue'[q], x)
        BY <2>5, <3>1, <3>2, ContestFacts
      <4> QED BY <4>1, <4>2 DEF Scored
    <3>4. Turn(q)'
      BY <2>1, <2>2, <3>1, <3>3
    <3>5. \A k : ~ Turn(k)
      BY <2>2
    <3> HIDE DEF Turn
    <3> QED BY <1>2, <2>5, <3>1, <3>2, <3>4, <3>5
  <2> QED BY <1>9, <2>3, <2>4, <2>5, TrimFacts
<1>10. CASE SaveIfInteresting
  <2>1. PICK x : /\ DOMAIN queue' = DOMAIN queue \cup {Len(queue) + 1}
                 /\ \A k \in DOMAIN queue : queue'[k] = queue[k]
                 /\ pc \in {"havoc", "sync"} /\ pc' = "calibrate"
                 /\ UNCHANGED <<queue_cur, best>> /\ cal'.caller = pc
    BY <1>10, SaveFacts
  <2>2. Slots(Len(queue) + 1) = {}
    BY QueueIs DEF Slots, Typed, TypeOK
  <2>3. \A k : Slots(k)' = Slots(k)
    BY <2>1, SameSlots DEF best
  <2>4. InHavoc => InHavoc'
    BY <2>1 DEF InHavoc
  <2> QED BY <1>0, <2>1, <2>2, <2>3, <2>4 DEF UpToDate, Fresh
<1>11. CASE AbandonEntry
  <2>1. /\ queue_cur \in DOMAIN queue /\ UNCHANGED best
        /\ \/ Replaced(queue_cur, [cur EXCEPT !.was_fuzzed = TRUE])
           \/ /\ ~ (cur.cal_failed = 0 /\ ~ cur.was_fuzzed)
              /\ UNCHANGED queue
    BY <1>11, AbandonFacts
  <2>2. ASSUME Replaced(queue_cur, [cur EXCEPT !.was_fuzzed = TRUE])
        PROVE  UpToDate'
    <3>1. /\ [cur EXCEPT !.was_fuzzed = TRUE].trace_mini = cur.trace_mini
          /\ [cur EXCEPT !.was_fuzzed = TRUE].was_fuzzed = TRUE
      BY <1>0, <2>1 DEF EntryType, cur
    <3>2. /\ DOMAIN queue' = DOMAIN queue
          /\ \A k \in DOMAIN queue :
                queue'[k].trace_mini = queue[k].trace_mini
          /\ \A k \in DOMAIN queue \ {queue_cur} : queue'[k] = queue[k]
          /\ queue'[queue_cur].was_fuzzed = TRUE
      BY <2>1, <2>2, <3>1 DEF Replaced, cur
    <3>3. \A k \in DOMAIN queue :
             /\ queue[k].was_fuzzed => queue'[k].was_fuzzed
             /\ ~ queue'[k].was_fuzzed => ~ Turn(k)
      BY <3>2
    <3> HIDE DEF Turn, Bare
    <3> QED BY <1>1, <2>1, <3>2, <3>3 DEF best
  <2>3. ASSUME ~ (cur.cal_failed = 0 /\ ~ cur.was_fuzzed), UNCHANGED queue
        PROVE  UpToDate'
    <3>1. \A k \in DOMAIN queue : ~ queue'[k].was_fuzzed => ~ Turn(k)
      BY <2>3 DEF cur
    <3> HIDE DEF Turn, Bare
    <3> QED BY <1>1, <2>1, <2>3, <3>1 DEF best
  <2> QED BY <2>1, <2>2, <2>3
<1>12. CASE SkipEntry \/ TakeEntry \/ SyncEnds \/ Stop \/ UNCHANGED vars
  <2>1. UNCHANGED <<queue, best, cal>>
    BY <1>12, QuietTyped
  <2>2. InHavoc => InHavoc' /\ UNCHANGED queue_cur
    BY <1>12 DEF SkipEntry, TakeEntry, SyncEnds, Stop, Goto, Advance, vars,
                 place, InHavoc
  <2>3. \A k \in DOMAIN queue : Turn(k) => Turn(k)'
    BY <2>1, <2>2
  <2> HIDE DEF Turn, Bare
  <2> QED BY <1>1, <2>1, <2>3 DEF best
<1> QED BY <1>3, <1>4, <1>6, <1>7, <1>8, <1>9, <1>10, <1>11, <1>12
        DEF Next, Main, Calibration, FuzzOne

-----------------------------------------------------------------------------
(* The counts of what awaits its turn.                                     *)

(* Culling counts an edge for every favored entry that was not fuzzed: of  *)
(* two edges of one such entry, its bitmap takes the second out of temp_v  *)
(* when the first is seen.                                                 *)
LEMMA CullCounts ==
    ASSUME TypeOK, NEW edges \in SUBSET Rated, Picked(edges),
           \A k \in Fresh : Slots(k) \subseteq queue[k].trace_mini
    PROVE  LET E == {e \in edges : ~ queue[top_rated[e]].was_fuzzed}
               F == {k \in Fresh : \E e \in edges : top_rated[e] = k}
           IN Cardinality(E) = Cardinality(F)
<1> DEFINE E == {e \in edges : ~ queue[top_rated[e]].was_fuzzed}
           F == {k \in Fresh : \E e \in edges : top_rated[e] = k}
           f == [e \in E |-> top_rated[e]]
<1>1. /\ \A e \in Rated : top_rated[e] \in DOMAIN queue
      /\ Rated \subseteq Edge
      /\ edges \in SUBSET Edge
  BY QueueIs DEF Rated, TypeOK
<1>2. IsFiniteSet(E)
  <2>1. E \in SUBSET Edge
    BY <1>1
  <2> HIDE DEF E
  <2> QED BY <2>1, EdgesFinite
<1>3. f \in [E -> F]
  BY <1>1 DEF Fresh
<1>4. \A k \in F : \E e \in E : f[e] = k
  BY DEF Fresh
<1>5. ASSUME NEW d \in E, NEW e \in E, f[d] = f[e], d < e PROVE FALSE
  <2>1. top_rated[d] = top_rated[e] /\ top_rated[e] \in Fresh
    BY <1>1, <1>5 DEF Fresh
  <2>2. e \in queue[top_rated[d]].trace_mini
    BY <1>1, <2>1 DEF Slots
  <2>3. \A x \in edges : \A y \in edges :
           y < x => x \notin queue[top_rated[y]].trace_mini
    BY DEF Picked
  <2> QED BY <1>5, <2>2, <2>3
<1>6. \A d, e \in E : f[d] = f[e] => d = e
  <2> TAKE d, e \in E
  <2>1. d \in Int /\ e \in Int
    BY <1>1, SeedQueueAssumption DEF Edge
  <2> HIDE DEF E, f
  <2>2. d < e \/ e < d \/ d = e
    BY <2>1
  <2> QED BY <1>5, <2>2
<1>7. f \in Bijection(E, F)
  <2> HIDE DEF E, F, f
  <2>1. f \in Injection(E, F)
    BY <1>3, <1>6 DEF Injection, IsInjective
  <2>2. f \in Surjection(E, F)
    BY <1>3, <1>4 DEF Surjection
  <2> QED BY <2>1, <2>2 DEF Bijection
<1> HIDE DEF E, F, f
<1>8. ExistsBijection(E, F)
  BY <1>7 DEF ExistsBijection
<1>9. Cardinality(E) = Cardinality(F)
  BY <1>2, <1>8, FS_Bijection
<1> QED BY <1>9 DEF E, F

LEMMA PendingInit ==
    ASSUME Init, Typed PROVE PendingCounted
<1>1. /\ pending_favored = 0 /\ pending_not_fuzzed = Len(queue)
      /\ Len(queue) \in Nat /\ DOMAIN queue = 1 .. Len(queue)
  BY QueueIs DEF Init, Typed
<1>2. PICK n \in 1 .. MaxQueue : \E s \in [1 .. n -> Input] :
         queue = [k \in 1 .. n |-> Entry(s[k], -1)]
  BY DEF Init
<1>3. \A k \in DOMAIN queue : /\ queue[k].was_fuzzed = FALSE
                              /\ queue[k].favored = FALSE
  BY <1>2 DEF Entry
<1>4. Fresh = 1 .. Len(queue)
  BY <1>1, <1>3 DEF Fresh
<1>5. Favored \cap Fresh = {}
  BY <1>3 DEF Favored
<1>6. Cardinality(1 .. Len(queue)) = Len(queue)
  BY <1>1, IntervalSize
<1> QED BY <1>1, <1>4, <1>5, <1>6, FS_EmptySet DEF PendingCounted

(* Marks that stay keep the counts.                                        *)
LEMMA SameMarks ==
    ASSUME PendingCounted, DOMAIN queue' = DOMAIN queue,
           \A k \in DOMAIN queue :
              /\ queue'[k].was_fuzzed = queue[k].was_fuzzed
              /\ queue'[k].favored = queue[k].favored,
           UNCHANGED <<pending_favored, pending_not_fuzzed>>
    PROVE  PendingCounted'
<1>1. Fresh' = Fresh /\ Favored' = Favored
  BY DEF Fresh, Favored
<1> QED BY <1>1 DEF PendingCounted

LEMMA PendingNext ==
    ASSUME Typed, UpToDate, PendingCounted, [Next]_vars PROVE PendingCounted'
<1>0. /\ DOMAIN queue = 1 .. Len(queue) /\ Len(queue) \in Nat
      /\ \A k \in DOMAIN queue : queue[k] \in EntryType
      /\ pc = "calibrate" => cal.q \in DOMAIN queue
      /\ pc \in InFuzzOne \cup {"dry_run"} => queue_cur \in DOMAIN queue
  BY QueueIs DEF Typed, TypeOK, Control
(* A step that replaces an entry by one with the same marks.               *)
<1>1. ASSUME NEW q \in DOMAIN queue, NEW x, Replaced(q, x),
             x.was_fuzzed = queue[q].was_fuzzed, x.favored = queue[q].favored,
             UNCHANGED counts
      PROVE  PendingCounted'
  BY <1>1, SameMarks DEF Replaced, counts
<1>2. ASSUME NEW q \in DOMAIN queue, NEW x, NEW qs, Prepared(qs, q, x),
             NEW trace \in Trace, update_bitmap_score(qs, q, trace),
             x.was_fuzzed = queue[q].was_fuzzed, x.favored = queue[q].favored,
             UNCHANGED counts
      PROVE  PendingCounted'
  <2>1. /\ DOMAIN queue' = DOMAIN queue /\ Scored(queue'[q], x)
        /\ \A k \in DOMAIN queue \ {q} : Scored(queue'[k], queue[k])
    BY <1>2, ContestFacts
  <2> QED BY <1>2, <2>1, SameMarks DEF Scored, counts
<1>3. CASE DryRun \/ Recalibrate
  <2>1. PICK who \in {"dry_run", "recalibrate"} :
           Calibrate(queue, queue_cur, who)
    BY <1>3 DEF DryRun, Recalibrate
  <2>2. queue_cur \in DOMAIN queue /\ UNCHANGED counts
    BY <1>0, <1>3 DEF DryRun, Recalibrate, InFuzzOne
  <2> DEFINE x == [queue[queue_cur] EXCEPT !.cal_failed = @ + 1]
  <2>3. Replaced(queue_cur, x)
    BY <2>1, <2>2, CalibrateFacts DEF Typed
  <2>4. /\ x.was_fuzzed = queue[queue_cur].was_fuzzed
        /\ x.favored = queue[queue_cur].favored
    BY <1>0, <2>2 DEF EntryType
  <2> HIDE DEF x
  <2> QED BY <1>1, <2>2, <2>3, <2>4
<1>4. CASE CalibrationRun
  <2>1. PICK x :
           /\ Replaced(cal.q, x) /\ pc = "calibrate"
           /\ x = [queue[cal.q] EXCEPT !.distance = x.distance,
                                       !.exec_cksum = x.exec_cksum]
           /\ UNCHANGED counts
    BY <1>4, RunFacts
  <2>2. /\ x.was_fuzzed = queue[cal.q].was_fuzzed
        /\ x.favored = queue[cal.q].favored
    BY <1>0, <2>1 DEF EntryType
  <2> QED BY <1>0, <1>1, <2>1, <2>2
<1>5. CASE CalibrationFails
  <2>1. PICK x :
           /\ Replaced(cal.q, x) /\ pc = "calibrate"
           /\ x = [queue[cal.q] EXCEPT !.has_new_cov = x.has_new_cov,
                                       !.cal_failed = x.cal_failed]
           /\ UNCHANGED counts
    BY <1>5, FailFacts
  <2>2. /\ x.was_fuzzed = queue[cal.q].was_fuzzed
        /\ x.favored = queue[cal.q].favored
    BY <1>0, <2>1 DEF EntryType
  <2> QED BY <1>0, <1>1, <2>1, <2>2
<1>6. CASE CalibrationEnds
  <2>1. PICK qs, x :
           /\ Prepared(qs, cal.q, x)
           /\ x = [queue[cal.q] EXCEPT !.has_new_cov = x.has_new_cov,
                                       !.exec_us = x.exec_us, !.cal_failed = 0]
           /\ update_bitmap_score(qs, cal.q, cal.trace_bits)
           /\ cal.trace_bits \in Trace
           /\ pc = "calibrate" /\ UNCHANGED counts
    BY <1>6, EndFacts
  <2>2. /\ x.was_fuzzed = queue[cal.q].was_fuzzed
        /\ x.favored = queue[cal.q].favored
    BY <1>0, <2>1 DEF EntryType
  <2> QED BY <1>0, <1>2, <2>1, <2>2
<1>7. CASE NextEntry
  <2>1. ASSUME ~ score_changed PROVE PendingCounted'
    BY <1>7, <2>1, SameMarks DEF NextEntry, cull_queue, counts
  <2>2. ASSUME score_changed PROVE PendingCounted'
    <3>1. PICK edges \in SUBSET Rated :
             /\ Picked(edges)
             /\ DOMAIN queue' = DOMAIN queue
             /\ \A k \in DOMAIN queue :
                   /\ queue'[k] =
                        [queue[k] EXCEPT !.favored = queue'[k].favored]
                   /\ queue'[k].favored <=> \E e \in edges : top_rated[e] = k
             /\ pending_favored' = Cardinality(
                   {e \in edges : ~ queue[top_rated[e]].was_fuzzed})
             /\ UNCHANGED pending_not_fuzzed
      BY <1>7, <2>2, CullFacts DEF NextEntry, Typed
    <3>2. \A k \in DOMAIN queue : queue'[k].was_fuzzed = queue[k].was_fuzzed
      BY <1>0, <3>1 DEF EntryType
    <3>3. Fresh' = Fresh
      BY <3>1, <3>2 DEF Fresh
    <3>4. Favored' \cap Fresh
            = {k \in Fresh : \E e \in edges : top_rated[e] = k}
      BY <3>1 DEF Favored, Fresh
    <3>5. \A k \in Fresh : Slots(k) \subseteq queue[k].trace_mini
      BY <1>7 DEF NextEntry, UpToDate, InHavoc
    <3>6. Cardinality({e \in edges : ~ queue[top_rated[e]].was_fuzzed})
            = Cardinality({k \in Fresh : \E e \in edges : top_rated[e] = k})
      BY <3>1, <3>5, CullCounts DEF Typed
    <3> QED BY <3>1, <3>3, <3>4, <3>6 DEF PendingCounted
  <2> QED BY <2>1, <2>2
<1>8. CASE Trim
  <2>1. /\ queue_cur \in DOMAIN queue /\ UNCHANGED counts /\ cur \in EntryType
    BY <1>0, <1>8, TrimFacts DEF cur
  <2>2. CASE UNCHANGED <<queue, best>>
    BY <2>1, <2>2, SameMarks DEF counts
  <2>3. ASSUME NEW x, x = [cur EXCEPT !.len = x.len, !.trim_done = TRUE]
        PROVE  x.was_fuzzed = cur.was_fuzzed /\ x.favored = cur.favored
    BY <2>1, <2>3 DEF EntryType
  <2>4. cur.exec_cksum \in Trace
    BY <2>1 DEF EntryType
  <2> QED BY <1>1, <1>2, <1>8, <2>1, <2>2, <2>3, <2>4, TrimFacts DEF cur
<1>9. CASE SaveIfInteresting
  <2>1. PICK x \in EntryType :
           /\ x.was_fuzzed = FALSE /\ x.favored = FALSE
           /\ DOMAIN queue' = DOMAIN queue \cup {Len(queue) + 1}
           /\ \A k \in DOMAIN queue : queue'[k] = queue[k]
           /\ queue'[Len(queue) + 1] = x
           /\ pending_not_fuzzed' = pending_not_fuzzed + 1
           /\ UNCHANGED pending_favored
    BY <1>9, SaveFacts
  <2>2. Fresh' = Fresh \cup {Len(queue) + 1}
    BY <1>0, <2>1 DEF Fresh
  <2>3. Favored' = Favored
    BY <1>0, <2>1 DEF Favored
  <2>4. Favored' \cap Fresh' = Favored \cap Fresh
    BY <1>0, <2>2, <2>3 DEF Favored
  <2>5. IsFiniteSet(Fresh) /\ Len(queue) + 1 \notin Fresh
    <3>1. Fresh \in SUBSET (1 .. Len(queue))
      BY <1>0 DEF Fresh
    <3> QED BY <1>0, <3>1, IntervalSize
  <2>6. Cardinality(Fresh') = Cardinality(Fresh) + 1
    BY <2>2, <2>5, FS_AddElement
  <2> QED BY <2>1, <2>4, <2>6 DEF PendingCounted
<1>10. CASE AbandonEntry
  <2> DEFINE x == [cur EXCEPT !.was_fuzzed = TRUE]
  <2>1. queue_cur \in DOMAIN queue /\ cur \in EntryType
    BY <1>0, <1>10, AbandonFacts DEF cur
  <2>2. CASE UNCHANGED <<queue, pending_not_fuzzed, pending_favored>>
    BY <2>2, SameMarks
  <2>3. CASE /\ ~ cur.was_fuzzed /\ Replaced(queue_cur, x)
             /\ pending_not_fuzzed' = pending_not_fuzzed - 1
             /\ pending_favored' = IF cur.favored THEN pending_favored - 1
                                   ELSE pending_favored
    <3>1. x.was_fuzzed = TRUE /\ x.favored = cur.favored
      BY <2>1 DEF EntryType
    <3>2. /\ DOMAIN queue' = DOMAIN queue
          /\ queue'[queue_cur].was_fuzzed = TRUE
          /\ queue'[queue_cur].favored = queue[queue_cur].favored
          /\ \A k \in DOMAIN queue \ {queue_cur} : queue'[k] = queue[k]
      BY <2>3, <3>1 DEF Replaced, cur
    <3>3. Fresh' = Fresh \ {queue_cur} /\ queue_cur \in Fresh
      BY <2>1, <2>3, <3>2 DEF Fresh, cur
    <3>4. Favored' = Favored /\ (cur.favored <=> queue_cur \in Favored)
      BY <2>1, <3>2 DEF Favored, cur
    <3>5. IsFiniteSet(Fresh) /\ IsFiniteSet(Favored \cap Fresh)
      <4>1. Fresh \in SUBSET (1 .. Len(queue))
        BY <1>0 DEF Fresh
      <4> QED BY <1>0, <4>1, IntervalSize
    <3>6. Cardinality(Fresh') = Cardinality(Fresh) - 1
      BY <3>3, <3>5, FS_RemoveElement
    <3>7. Favored' \cap Fresh' = (Favored \cap Fresh) \ {queue_cur}
      BY <3>3, <3>4
    <3>8. Cardinality(Favored' \cap Fresh')
            = IF cur.favored THEN Cardinality(Favored \cap Fresh) - 1
              ELSE Cardinality(Favored \cap Fresh)
      <4>1. Cardinality((Favored \cap Fresh) \ {queue_cur})
              = IF queue_cur \in Favored \cap Fresh
                THEN Cardinality(Favored \cap Fresh) - 1
                ELSE Cardinality(Favored \cap Fresh)
        BY <3>5, FS_RemoveElement
      <4> QED BY <3>3, <3>4, <3>7, <4>1
    <3> QED BY <2>3, <3>6, <3>8 DEF PendingCounted
  <2> QED BY <1>10, <2>2, <2>3, AbandonFacts
<1>11. CASE SkipEntry \/ TakeEntry \/ SyncEnds \/ Stop \/ UNCHANGED vars
  BY <1>11, QuietTyped, SameMarks DEF counts
<1> QED BY <1>3, <1>4, <1>5, <1>6, <1>7, <1>8, <1>9, <1>10, <1>11
        DEF Next, Main, Calibration, FuzzOne

(* pending_favored and pending_not_fuzzed, by which fuzz_one skips or      *)
(* takes an entry, are the numbers of such entries, through culls, finds,  *)
(* trims, failed calibrations and stops, even when the trace of an input   *)
(* varies from run to run.                                                 *)
THEOREM PendingIsRight == Spec => []PendingCounted
<1> DEFINE I == Typed /\ Unrated /\ UpToDate /\ PendingCounted
<1>1. Init => I
  BY TypedInit, UnratedInit, PendingInit
<1>2. I /\ [Next]_vars => I'
  BY TypedNext, UnratedNext, UpToDateNext, PendingNext
<1>3. I => PendingCounted
  OBVIOUS
<1> QED BY <1>1, <1>2, <1>3, PTL DEF Spec

-----------------------------------------------------------------------------
(* The best entries and the favored ones, for targets that take one path.  *)

(* The runs of an input that end well all take the same trace.             *)
OneTrace ==
    \A inp \in Input : \A r, s \in Outcomes[inp] :
        r.fault = "none" /\ s.fault = "none" => r.trace = s.trace

(* The checksum of an entry is of the trace of its input, and so is what   *)
(* calibration ends with.                                                  *)
Traced(x) ==
    x.exec_cksum # NoTrace =>
        \E r \in Outcomes[x.input] :
            r.fault = "none" /\ r.trace = x.exec_cksum
Traces ==
    /\ \A k \in DOMAIN queue : Traced(queue[k])
    /\ pc = "calibrate" /\ cal.stage_cur > 0 =>
         cal.trace_bits = queue[cal.q].exec_cksum

(* An entry is only the best of edges of its trace.                        *)
Within ==
    \A k \in DOMAIN queue :
        Slots(k) \cup queue[k].trace_mini \subseteq Bits(queue[k].exec_cksum)

(* Since the last cull the favored entries take every edge some entry is   *)
(* the best of.                                                            *)
Covered ==
    /\ pc = "fuzz_one" => ~ score_changed
    /\ ~ score_changed =>
         \A e \in Rated : \E f \in Favored : e \in Bits(queue[f].exec_cksum)

Contested == Within /\ BestIsBest /\ Covered

LEMMA SteadyInit ==
    ASSUME Init, Typed PROVE Traces /\ Contested
<1>1. PICK n \in 1 .. MaxQueue : \E s \in [1 .. n -> Input] :
         queue = [k \in 1 .. n |-> Entry(s[k], -1)]
  BY DEF Init
<1>2. \A k \in DOMAIN queue : /\ queue[k].exec_cksum = NoTrace
                              /\ queue[k].trace_mini = {}
                              /\ queue[k].exec_us = 0
                              /\ k # 0
  BY <1>1 DEF Entry
<1>3. /\ pc = "dry_run" /\ score_changed = FALSE
      /\ top_rated = [e \in Edge |-> 0]
  BY DEF Init
<1>4. \A k \in DOMAIN queue : Slots(k) = {}
  BY <1>2, <1>3 DEF Slots
<1>5. Calibrated = {} /\ Rated = {}
  BY <1>2, <1>3 DEF Calibrated, Rated
<1> HIDE DEF Slots, Rated, Calibrated
<1> QED BY <1>2, <1>3, <1>4, <1>5
        DEF Traces, Traced, Contested, Within, BestIsBest, Covered

(* A shorter input is not slower to fuzz.                                  *)
LEMMA FactorFacts ==
    /\ \A x \in EntryType : Factor(x) \in Nat
    /\ \A x, y \in EntryType :
          /\ x.exec_us = y.exec_us /\ x.len = y.len => Factor(x) = Factor(y)
          /\ x.exec_us = y.exec_us /\ x.len <= y.len
                => Factor(x) <= Factor(y)
<1>1. \A x \in EntryType : x.exec_us \in Nat /\ x.len \in Nat
  <2>1. \A x \in EntryType : x.exec_us \in Speeds \cup {0} /\ x.len \in Nat
    BY DEF EntryType
  <2>2. Speeds \cup {0} \subseteq Nat
    BY SeedQueueAssumption
  <2> QED BY <2>1, <2>2
<1>2. \A a, b \in Nat : a * b \in Nat
  OBVIOUS
<1>3. \A a, b, c \in Nat : b <= c => a * b <= a * c
  <2> SUFFICES ASSUME NEW a \in Nat, NEW b \in Nat, NEW c \in Nat, b <= c
               PROVE  a * b <= a * c
    OBVIOUS
  <2>1. PICK d \in Nat : c = b + d
    <3>1. c - b \in Nat /\ c = b + (c - b)
      OBVIOUS
    <3> QED BY <3>1
  <2>2. a * c = a * b + a * d
    BY <2>1
  <2>3. a * b \in Nat /\ a * d \in Nat
    OBVIOUS
  <2> QED BY <2>2, <2>3
<1> QED BY <1>1, <1>2, <1>3 DEF Factor

(* A step that changes an entry that is not, or stays, calibrated.         *)
LEMMA ReplaceContested ==
    ASSUME Typed, Contested, NEW q \in DOMAIN queue, NEW x, Replaced(q, x),
           x.exec_us = queue[q].exec_us, x.len = queue[q].len,
           x.favored = queue[q].favored,
           x.trace_mini = queue[q].trace_mini,
           \/ x.exec_cksum = queue[q].exec_cksum
           \/ queue[q].exec_cksum = NoTrace,
           \/ x.cal_failed > 0
           \/ /\ x.cal_failed = queue[q].cal_failed
              /\ x.exec_cksum = queue[q].exec_cksum,
           UNCHANGED best, pc' # "fuzz_one"
    PROVE  Contested'
<1>1. /\ \A k \in DOMAIN queue : queue[k] \in EntryType
      /\ DOMAIN queue' = DOMAIN queue /\ queue'[q] = x /\ x \in EntryType
      /\ \A k \in DOMAIN queue \ {q} : queue'[k] = queue[k]
      /\ \A e \in Edge : top_rated[e] # 0 => top_rated[e] \in DOMAIN queue
      /\ UNCHANGED <<top_rated, score_changed>>
  BY QueueIs DEF Typed, Replaced, best, TypeOK
<1>2. Bits(NoTrace) = {}
  BY DEF Bits, NoTrace
<1>3. \A k \in DOMAIN queue :
         /\ Bits(queue[k].exec_cksum) \subseteq Bits(queue'[k].exec_cksum)
         /\ queue'[k].trace_mini = queue[k].trace_mini
         /\ queue'[k].favored = queue[k].favored
         /\ Factor(queue'[k]) = Factor(queue[k])
  <2>1. Factor(x) = Factor(queue[q])
    BY <1>1, FactorFacts
  <2> QED BY <1>1, <1>2, <2>1
<1>4. /\ Calibrated' \subseteq Calibrated
      /\ \A k \in Calibrated' : queue'[k].exec_cksum = queue[k].exec_cksum
  BY <1>1 DEF Calibrated, EntryType
<1>5. Slots(0)' = Slots(0) /\ \A k : Slots(k)' = Slots(k)
  BY <1>1, SameSlots
<1>6. Within'
  <2> HIDE DEF Slots
  <2> QED BY <1>1, <1>3, <1>5 DEF Contested, Within
<1>7. BestIsBest'
  <2> SUFFICES ASSUME NEW k \in Calibrated',
                      NEW e \in Bits(queue'[k].exec_cksum)
               PROVE  /\ top_rated[e] # 0
                      /\ Factor(queue'[top_rated[e]]) <= Factor(queue'[k])
    BY <1>1 DEF BestIsBest
  <2>1. /\ top_rated[e] # 0
        /\ Factor(queue[top_rated[e]]) <= Factor(queue[k])
    BY <1>4 DEF Contested, BestIsBest
  <2>2. k \in DOMAIN queue /\ top_rated[e] \in DOMAIN queue
    BY <1>1, <1>4, <2>1 DEF Calibrated, Bits
  <2> QED BY <1>3, <2>1, <2>2
<1>8. Covered'
  <2>1. Rated' = Rated /\ Favored' = Favored
    BY <1>1, <1>3 DEF Rated, Favored
  <2> QED BY <1>1, <1>3, <2>1 DEF Contested, Covered, Favored
<1> QED BY <1>6, <1>7, <1>8 DEF Contested

(* A contest of an entry that just got calibrated, or got shorter.         *)
LEMMA ContestContested ==
    ASSUME Typed, Contested, NEW q \in DOMAIN queue, NEW x, NEW qs,
           Prepared(qs, q, x), NEW trace \in Trace,
           update_bitmap_score(qs, q, trace),
           x.exec_cksum = trace, queue[q].exec_cksum = trace,
           x.favored = queue[q].favored,
           \/ Slots(q) = {}
           \/ x.exec_us = queue[q].exec_us /\ x.len <= queue[q].len,
           pc' # "fuzz_one"
    PROVE  Contested'
<1> DEFINE won == Won(qs, q, trace)
<1>1. /\ DOMAIN queue' = DOMAIN queue /\ queue' \in Seq(EntryType)
      /\ \A k \in DOMAIN queue : Scored(queue'[k], qs[k])
      /\ Slots(q)' = Slots(q) \cup won
      /\ \A k \in DOMAIN queue \ {q} : Slots(k)' = Slots(k) \ won
      /\ queue'[q].trace_mini \in {queue[q].trace_mini, Bits(trace)}
      /\ \A k \in DOMAIN queue \ {q} :
            queue'[k].trace_mini \in {queue[k].trace_mini, {}}
  BY ScoreFacts DEF Typed, Prepared
<1>2. /\ qs[q] = x /\ x \in EntryType
      /\ \A k \in DOMAIN queue \ {q} : qs[k] = queue[k]
      /\ \A k \in DOMAIN queue : queue[k] \in EntryType
      /\ \A k \in DOMAIN queue : queue'[k] \in EntryType
      /\ \A e \in Edge : top_rated[e] # 0 => top_rated[e] \in DOMAIN queue
      /\ 0 \notin DOMAIN queue
  BY <1>1, QueueIs DEF Typed, Prepared, TypeOK
<1>3. /\ \A e \in Edge : top_rated'[e] = IF e \in won THEN q ELSE top_rated[e]
      /\ \A e \in Bits(trace) :
            e \in won <=> \/ top_rated[e] = 0
                          \/ Factor(x) <= Factor(qs[top_rated[e]])
      /\ won \subseteq Bits(trace) /\ Bits(trace) \subseteq Edge
      /\ score_changed' = (score_changed \/ won # {})
  BY <1>2 DEF update_bitmap_score, Won, Bits
<1>4. Slots(q) \subseteq Bits(trace)
  BY DEF Contested, Within
<1> HIDE DEF won
<1>5. /\ queue'[q].exec_cksum = trace
      /\ queue'[q].favored = queue[q].favored
      /\ Factor(queue'[q]) = Factor(x)
      /\ queue'[q].exec_us = x.exec_us /\ queue'[q].cal_failed = x.cal_failed
  BY <1>1, <1>2, FactorFacts DEF Scored
<1>6. \A k \in DOMAIN queue \ {q} :
         /\ queue'[k].exec_cksum = queue[k].exec_cksum
         /\ queue'[k].favored = queue[k].favored
         /\ Factor(queue'[k]) = Factor(queue[k])
         /\ k \in Calibrated' <=> k \in Calibrated
  <2> SUFFICES ASSUME NEW k \in DOMAIN queue \ {q}
               PROVE  /\ queue'[k].exec_cksum = queue[k].exec_cksum
                      /\ queue'[k].favored = queue[k].favored
                      /\ Factor(queue'[k]) = Factor(queue[k])
                      /\ k \in Calibrated' <=> k \in Calibrated
    OBVIOUS
  <2>1. Scored(queue'[k], queue[k])
    BY <1>1, <1>2
  <2>2. queue[k] \in EntryType /\ queue'[k] \in EntryType
    BY <1>2
  <2>3. Factor(queue'[k]) = Factor(queue[k])
    BY <2>1, <2>2, FactorFacts DEF Scored
  <2>4. /\ queue'[k].exec_cksum = queue[k].exec_cksum
        /\ queue'[k].favored = queue[k].favored
        /\ queue'[k].cal_failed = queue[k].cal_failed
        /\ queue'[k].exec_us = queue[k].exec_us
    BY <2>1 DEF Scored
  <2>5. k \in Calibrated' <=> k \in Calibrated
    BY <1>1, <2>4 DEF Calibrated
  <2> QED BY <2>3, <2>4, <2>5
<1>7. Within'
  <2> SUFFICES ASSUME NEW k \in DOMAIN queue
               PROVE  Slots(k)' \cup queue'[k].trace_mini
                        \subseteq Bits(queue'[k].exec_cksum)
    BY <1>1 DEF Within
  <2>1. Slots(k) \cup queue[k].trace_mini \subseteq Bits(queue[k].exec_cksum)
    BY DEF Contested, Within
  <2> HIDE DEF Slots
  <2>2. CASE k = q
    BY <1>1, <1>3, <1>5, <2>1, <2>2
  <2>3. CASE k # q
    BY <1>1, <1>6, <2>1, <2>3
  <2> QED BY <2>2, <2>3
<1>8. BestIsBest'
  <2> SUFFICES ASSUME NEW k \in Calibrated',
                      NEW e \in Bits(queue'[k].exec_cksum)
               PROVE  /\ top_rated'[e] # 0
                      /\ Factor(queue'[top_rated'[e]]) <= Factor(queue'[k])
    BY DEF BestIsBest
  <2>1. k \in DOMAIN queue /\ e \in Edge
    BY <1>1 DEF Calibrated, Bits
  <2>2. k # q => /\ top_rated[e] \in DOMAIN queue
                 /\ Factor(queue[top_rated[e]]) <= Factor(queue[k])
    BY <1>2, <1>6, <2>1 DEF Contested, BestIsBest
  <2>3. top_rated[e] = q => /\ e \in Bits(trace)
                            /\ Factor(x) <= Factor(queue[q])
    <3>1. top_rated[e] = q => e \in Slots(q)
      BY <2>1 DEF Slots
    <3> QED BY <1>2, <1>4, <3>1, FactorFacts
  <2>4. /\ Factor(x) \in Nat
        /\ \A j \in DOMAIN queue : Factor(queue[j]) \in Nat
    BY <1>2, FactorFacts
  <2> HIDE DEF Slots, Calibrated, BestIsBest, Contested
  <2>5. CASE e \in won
    <3>1. top_rated'[e] = q /\ q # 0 /\ e \in Bits(trace)
      BY <1>2, <1>3, <2>1, <2>5
    <3>2. CASE k = q
      BY <1>5, <2>4, <3>1, <3>2
    <3>3. CASE k # q
      <4>1. Factor(x) <= Factor(queue[top_rated[e]])
        BY <1>2, <1>3, <2>2, <2>3, <2>5, <3>1, <3>3
      <4> QED BY <1>5, <1>6, <2>1, <2>2, <2>4, <3>1, <3>3, <4>1
    <3> QED BY <3>2, <3>3
  <2>6. CASE e \notin won
    <3>1. top_rated'[e] = top_rated[e]
      BY <1>3, <2>1, <2>6
    <3>2. top_rated[e] # q
      BY <1>2, <1>3, <2>3, <2>4, <2>6
    <3>3. CASE k # q
      BY <1>2, <1>6, <2>1, <2>2, <3>1, <3>2, <3>3
    <3>4. CASE k = q
      <4>1. e \in Bits(trace)
        BY <1>5, <3>4
      <4>2. /\ top_rated[e] # 0 /\ top_rated[e] \in DOMAIN queue
            /\ ~ (Factor(x) <= Factor(queue[top_rated[e]]))
        BY <1>2, <1>3, <2>1, <2>6, <3>2, <4>1
      <4> QED BY <1>5, <1>6, <2>4, <3>1, <3>2, <3>4, <4>2
    <3> QED BY <3>3, <3>4
  <2> QED BY <2>5, <2>6
<1>9. Covered'
  <2> SUFFICES ASSUME ~ score_changed'
               PROVE  \A e \in Rated' : \E f \in Favored' :
                         e \in Bits(queue'[f].exec_cksum)
    BY DEF Covered
  <2>1. won = {} /\ ~ score_changed
    BY <1>3
  <2>2. Rated' = Rated
    BY <1>3, <2>1 DEF Rated
  <2>3. \A f \in DOMAIN queue : /\ queue'[f].favored = queue[f].favored
                                /\ queue'[f].exec_cksum = queue[f].exec_cksum
    BY <1>5, <1>6
  <2>4. Favored' = Favored
    BY <1>1, <2>3 DEF Favored
  <2> QED BY <2>1, <2>2, <2>3, <2>4 DEF Contested, Covered, Favored
<1> QED BY <1>7, <1>8, <1>9 DEF Contested

LEMMA TracesNext ==
    ASSUME OneTrace, Typed, Traces, [Next]_vars PROVE Traces'
<1>0. /\ \A k \in DOMAIN queue : queue[k] \in EntryType
      /\ pc = "calibrate" => cal.q \in DOMAIN queue
      /\ pc \in InFuzzOne \cup {"dry_run"} => queue_cur \in DOMAIN queue
  BY QueueIs DEF Typed, TypeOK, Control
<1>00. \A x, y : Traced(x) /\ y.input = x.input
                   /\ y.exec_cksum = x.exec_cksum => Traced(y)
  BY DEF Traced
(* Outside a calibration that has begun only the entries count.            *)
<1>1. ASSUME pc' = "calibrate" => cal'.stage_cur = 0,
             DOMAIN queue' = DOMAIN queue,
             \A k \in DOMAIN queue :
                /\ queue'[k].input = queue[k].input
                /\ queue'[k].exec_cksum = queue[k].exec_cksum
      PROVE  Traces'
  BY <1>1, <1>00 DEF Traces
<1>2. CASE DryRun \/ Recalibrate
  <2>1. PICK who \in {"dry_run", "recalibrate"} :
           Calibrate(queue, queue_cur, who)
    BY <1>2 DEF DryRun, Recalibrate
  <2>2. queue_cur \in DOMAIN queue
    BY <1>0, <1>2 DEF DryRun, Recalibrate, InFuzzOne
  <2> DEFINE x == [queue[queue_cur] EXCEPT !.cal_failed = @ + 1]
  <2>3. Replaced(queue_cur, x) /\ cal'.stage_cur = 0
    BY <2>1, <2>2, CalibrateFacts DEF Typed
  <2>4. /\ x.input = queue[queue_cur].input
        /\ x.exec_cksum = queue[queue_cur].exec_cksum
    BY <1>0, <2>2 DEF EntryType
  <2> HIDE DEF x
  <2> QED BY <1>1, <2>2, <2>3, <2>4 DEF Replaced
<1>3. CASE CalibrationRun
  <2>1. PICK x : \E r \in Outcomes[queue[cal.q].input] :
           /\ Replaced(cal.q, x) /\ pc = "calibrate" /\ r.fault = "none"
           /\ x = [queue[cal.q] EXCEPT !.distance = x.distance,
                                       !.exec_cksum = x.exec_cksum]
           /\ x.exec_cksum = IF queue[cal.q].exec_cksum = NoTrace THEN r.trace
                             ELSE queue[cal.q].exec_cksum
           /\ cal' = [cal EXCEPT !.stage_cur = @ + 1,
                                 !.trace_bits = r.trace,
                                 !.new_bits = cal'.new_bits]
    BY <1>3, RunFacts
  <2>2. PICK r \in Outcomes[queue[cal.q].input] :
           /\ r.fault = "none"
           /\ x.exec_cksum = IF queue[cal.q].exec_cksum = NoTrace THEN r.trace
                             ELSE queue[cal.q].exec_cksum
           /\ cal'.trace_bits = r.trace /\ cal'.q = cal.q
    BY <2>1 DEF Typed, TypeOK
  <2>3. PICK q \in DOMAIN queue : q = cal.q
    BY <1>0, <2>1
  <2>4. queue[q] \in EntryType /\ queue[q].input \in Input
    BY <1>0, <2>3 DEF EntryType
  <2>5. x.exec_cksum = r.trace
    <3>1. CASE queue[q].exec_cksum = NoTrace
      BY <2>2, <2>3, <3>1
    <3>2. CASE queue[q].exec_cksum # NoTrace
      <4>1. PICK s \in Outcomes[queue[q].input] :
               s.fault = "none" /\ s.trace = queue[q].exec_cksum
        BY <2>3, <3>2 DEF Traces, Traced
      <4> QED BY <2>2, <2>3, <2>4, <4>1 DEF OneTrace
    <3> QED BY <3>1, <3>2
  <2>6. x.input = queue[q].input
    BY <2>1, <2>3, <2>4 DEF EntryType
  <2>7. Traced(x)
    BY <2>2, <2>3, <2>5, <2>6 DEF Traced
  <2> QED BY <2>1, <2>2, <2>3, <2>5, <2>7 DEF Traces, Replaced
<1>4. CASE CalibrationFails
  <2>1. PICK x : \E f \in Bad :
           /\ Replaced(cal.q, x) /\ Return(f) /\ pc = "calibrate"
           /\ x = [queue[cal.q] EXCEPT !.has_new_cov = x.has_new_cov,
                                       !.cal_failed = x.cal_failed]
    BY <1>4, FailFacts
  <2>2. pc' # "calibrate"
    BY <2>1, ReturnFacts DEF Typed
  <2>3. /\ x.input = queue[cal.q].input
        /\ x.exec_cksum = queue[cal.q].exec_cksum
    BY <1>0, <2>1 DEF EntryType
  <2> QED BY <1>0, <1>1, <2>1, <2>2, <2>3 DEF Replaced
<1>5. CASE CalibrationEnds
  <2>1. PICK qs, x, f :
           /\ Prepared(qs, cal.q, x)
           /\ x = [queue[cal.q] EXCEPT !.has_new_cov = x.has_new_cov,
                                       !.exec_us = x.exec_us, !.cal_failed = 0]
           /\ update_bitmap_score(qs, cal.q, cal.trace_bits)
           /\ cal.trace_bits \in Trace
           /\ Return(f) /\ pc = "calibrate"
    BY <1>5, EndFacts
  <2>2. pc' # "calibrate"
    BY <2>1, ReturnFacts DEF Typed
  <2>3. /\ x.input = queue[cal.q].input
        /\ x.exec_cksum = queue[cal.q].exec_cksum
    BY <1>0, <2>1 DEF EntryType
  <2>4. /\ DOMAIN queue' = DOMAIN queue /\ Scored(queue'[cal.q], x)
        /\ \A k \in DOMAIN queue \ {cal.q} : Scored(queue'[k], queue[k])
    BY <1>0, <2>1, ContestFacts
  <2> QED BY <1>1, <2>2, <2>3, <2>4 DEF Scored
<1>6. CASE NextEntry
  <2>1. pc' # "calibrate"
    BY <1>6 DEF NextEntry, Goto
  <2>2. CASE ~ score_changed
    BY <1>1, <1>6, <2>1, <2>2 DEF NextEntry, cull_queue
  <2>3. CASE score_changed
    <3>1. /\ DOMAIN queue' = DOMAIN queue
          /\ \A k \in DOMAIN queue : queue'[k] =
                [queue[k] EXCEPT !.favored = queue'[k].favored]
      BY <1>6, <2>3, CullFacts DEF NextEntry, Typed
    <3>2. \A k \in DOMAIN queue :
             /\ queue'[k].input = queue[k].input
             /\ queue'[k].exec_cksum = queue[k].exec_cksum
      BY <1>0, <3>1 DEF EntryType
    <3> QED BY <1>1, <2>1, <3>1, <3>2
  <2> QED BY <2>2, <2>3
<1>7. CASE Trim
  <2>1. /\ queue_cur \in DOMAIN queue /\ pc' = "havoc" /\ cur \in EntryType
        /\ cur.exec_cksum \in Trace
    BY <1>0, <1>7, TrimFacts DEF cur, EntryType
  <2>2. CASE UNCHANGED <<queue, best>>
    BY <1>1, <2>1, <2>2
  <2>3. ASSUME NEW x, x = [cur EXCEPT !.len = x.len, !.trim_done = TRUE]
        PROVE  x.input = cur.input /\ x.exec_cksum = cur.exec_cksum
    BY <2>1, <2>3 DEF EntryType
  <2>4. ASSUME NEW x, x = [cur EXCEPT !.len = x.len, !.trim_done = TRUE],
               Replaced(queue_cur, x)
        PROVE  Traces'
    BY <1>1, <2>1, <2>3, <2>4 DEF Replaced, cur
  <2>5. ASSUME NEW x, x = [cur EXCEPT !.len = x.len, !.trim_done = TRUE],
               NEW qs, Prepared(qs, queue_cur, x),
               update_bitmap_score(qs, queue_cur, cur.exec_cksum)
        PROVE  Traces'
    <3>1. /\ DOMAIN queue' = DOMAIN queue /\ Scored(queue'[queue_cur], x)
          /\ \A k \in DOMAIN queue \ {queue_cur} :
                Scored(queue'[k], queue[k])
      BY <2>1, <2>5, ContestFacts
    <3>2. x.input = cur.input /\ x.exec_cksum = cur.exec_cksum
      BY <2>3, <2>5
    <3>3. \A k \in DOMAIN queue :
             /\ queue'[k].input = queue[k].input
             /\ queue'[k].exec_cksum = queue[k].exec_cksum
      BY <3>1, <3>2 DEF Scored, cur
    <3> QED BY <1>1, <2>1, <3>1, <3>3
  <2> QED BY <1>7, <2>2, <2>4, <2>5, TrimFacts
<1>8. CASE SaveIfInteresting
  <2>1. PICK x \in EntryType : \E inp \in Input : \E r \in Outcomes[inp] :
           /\ x.input = inp /\ x.exec_cksum = r.trace /\ r.fault = "none"
           /\ DOMAIN queue' = DOMAIN queue \cup {Len(queue) + 1}
           /\ \A k \in DOMAIN queue : queue'[k] = queue[k]
           /\ queue'[Len(queue) + 1] = x
           /\ cal' \in [q : {Len(queue) + 1}, caller : {pc},
                        first_run : BOOLEAN, new_bits : {0},
                        stage_cur : {0}, trace_bits : {NoTrace}]
    BY <1>8, SaveFacts
  <2>2. Traced(x) /\ cal'.stage_cur = 0
    BY <2>1 DEF Traced
  <2> QED BY <2>1, <2>2 DEF Traces
<1>9. CASE AbandonEntry
  <2> DEFINE x == [cur EXCEPT !.was_fuzzed = TRUE]
  <2>1. /\ queue_cur \in DOMAIN queue /\ pc' # "calibrate"
        /\ Replaced(queue_cur, x) \/ UNCHANGED queue
    BY <1>9, AbandonFacts
  <2>2. x.input = cur.input /\ x.exec_cksum = cur.exec_cksum
    BY <1>0, <2>1 DEF EntryType, cur
  <2> HIDE DEF x
  <2> QED BY <1>1, <2>1, <2>2 DEF Replaced, cur
<1>10. CASE SkipEntry \/ TakeEntry \/ SyncEnds \/ Stop \/ UNCHANGED vars
  <2>1. UNCHANGED <<queue, cal>>
    BY <1>10, QuietTyped
  <2>2. pc' # "calibrate" \/ UNCHANGED pc
    BY <1>10 DEF SkipEntry, TakeEntry, SyncEnds, Stop, Goto, Advance, vars,
                 place
  <2> QED BY <2>1, <2>2 DEF Traces
<1> QED BY <1>2, <1>3, <1>4, <1>5, <1>6, <1>7, <1>8, <1>9, <1>10
        DEF Next, Main, Calibration, FuzzOne

LEMMA ContestedNext ==
    ASSUME Typed, Unrated, Traces, Contested, [Next]_vars PROVE Contested'
<1>0. /\ \A k \in DOMAIN queue : queue[k] \in EntryType
      /\ pc = "calibrate" =>
           /\ cal.q \in DOMAIN queue /\ queue[cal.q].cal_failed > 0
           /\ Slots(cal.q) = {}
      /\ pc \in InFuzzOne \cup {"dry_run"} => queue_cur \in DOMAIN queue
  BY QueueIs DEF Typed, TypeOK, Control, Unrated
<1>1. CASE DryRun \/ Recalibrate
  <2>1. PICK who \in {"dry_run", "recalibrate"} :
           Calibrate(queue, queue_cur, who)
    BY <1>1 DEF DryRun, Recalibrate
  <2>2. /\ queue_cur \in DOMAIN queue /\ UNCHANGED best
    BY <1>0, <1>1 DEF DryRun, Recalibrate, InFuzzOne
  <2>3. PICK q \in DOMAIN queue : q = queue_cur
    BY <2>2
  <2> DEFINE x == [queue[q] EXCEPT !.cal_failed = @ + 1]
  <2>4. Replaced(q, x) /\ pc' = "calibrate"
    BY <2>1, <2>2, <2>3, CalibrateFacts DEF Typed
  <2>5. /\ x.exec_us = queue[q].exec_us /\ x.len = queue[q].len
        /\ x.favored = queue[q].favored
        /\ x.trace_mini = queue[q].trace_mini
        /\ x.exec_cksum = queue[q].exec_cksum /\ x.cal_failed > 0
    BY <1>0 DEF EntryType
  <2> HIDE DEF x
  <2> QED BY <2>2, <2>4, <2>5, ReplaceContested
<1>2. CASE CalibrationRun
  <2>1. PICK x : \E r \in Outcomes[queue[cal.q].input] :
           /\ Replaced(cal.q, x) /\ pc = "calibrate"
           /\ x = [queue[cal.q] EXCEPT !.distance = x.distance,
                                       !.exec_cksum = x.exec_cksum]
           /\ x.exec_cksum = IF queue[cal.q].exec_cksum = NoTrace THEN r.trace
                             ELSE queue[cal.q].exec_cksum
           /\ UNCHANGED <<place, best>>
    BY <1>2, RunFacts
  <2>2. PICK q \in DOMAIN queue : q = cal.q
    BY <1>0, <2>1
  <2>3. /\ x.exec_us = queue[q].exec_us /\ x.len = queue[q].len
        /\ x.favored = queue[q].favored
        /\ x.trace_mini = queue[q].trace_mini
        /\ x.cal_failed > 0
    BY <1>0, <2>1, <2>2 DEF EntryType
  <2>4. \/ x.exec_cksum = queue[q].exec_cksum
        \/ queue[q].exec_cksum = NoTrace
    BY <2>1, <2>2
  <2>5. pc' # "fuzz_one"
    BY <2>1 DEF place
  <2> QED BY <2>1, <2>2, <2>3, <2>4, <2>5, ReplaceContested
<1>3. CASE CalibrationFails
  <2>1. PICK x : \E f \in Bad :
           /\ Replaced(cal.q, x) /\ Return(f) /\ pc = "calibrate"
           /\ x = [queue[cal.q] EXCEPT !.has_new_cov = x.has_new_cov,
                                       !.cal_failed = x.cal_failed]
           /\ x.cal_failed > 0 /\ UNCHANGED best
    BY <1>3, FailFacts
  <2>2. PICK q \in DOMAIN queue : q = cal.q
    BY <1>0, <2>1
  <2>3. /\ x.exec_us = queue[q].exec_us /\ x.len = queue[q].len
        /\ x.favored = queue[q].favored
        /\ x.trace_mini = queue[q].trace_mini
        /\ x.exec_cksum = queue[q].exec_cksum
    BY <1>0, <2>1, <2>2 DEF EntryType
  <2>4. pc' # "fuzz_one"
    BY <2>1, ReturnFacts DEF Typed
  <2> QED BY <2>1, <2>2, <2>3, <2>4, ReplaceContested
<1>4. CASE CalibrationEnds
  <2>1. PICK qs, x, f :
           /\ Prepared(qs, cal.q, x)
           /\ x = [queue[cal.q] EXCEPT !.has_new_cov = x.has_new_cov,
                                       !.exec_us = x.exec_us, !.cal_failed = 0]
           /\ update_bitmap_score(qs, cal.q, cal.trace_bits)
           /\ cal.trace_bits \in Trace /\ cal.stage_cur = CAL_CYCLES
           /\ Return(f) /\ pc = "calibrate"
    BY <1>4, EndFacts
  <2>2. PICK q \in DOMAIN queue : q = cal.q
    BY <1>0, <2>1
  <2>3. PICK trace \in Trace : trace = cal.trace_bits
    BY <2>1
  <2>4. trace = queue[q].exec_cksum
    <3>1. cal.stage_cur > 0
      BY <2>1, SeedQueueAssumption
    <3> QED BY <2>1, <2>2, <2>3, <3>1 DEF Traces
  <2>5. x.exec_cksum = trace /\ x.favored = queue[q].favored
    BY <1>0, <2>1, <2>2, <2>4 DEF EntryType
  <2>6. Slots(q) = {} /\ pc' # "fuzz_one"
    BY <1>0, <2>1, <2>2, ReturnFacts DEF Typed
  <2> QED BY <2>1, <2>2, <2>3, <2>4, <2>5, <2>6, ContestContested
<1>5. CASE NextEntry
  <2>1. CASE ~ score_changed
    <3>1. UNCHANGED <<queue, best>>
      BY <1>5, <2>1 DEF NextEntry, cull_queue
    <3>2. Within' /\ BestIsBest'
      BY <3>1 DEF best, Contested, Within, Slots, BestIsBest, Calibrated
    <3>3. Covered'
      BY <2>1, <3>1 DEF best, Contested, Covered, Rated, Favored
    <3> QED BY <3>2, <3>3 DEF Contested
  <2>2. CASE score_changed
    <3>1. PICK edges \in SUBSET Rated :
             /\ Picked(edges)
             /\ DOMAIN queue' = DOMAIN queue
             /\ \A k \in DOMAIN queue :
                   /\ queue'[k] =
                        [queue[k] EXCEPT !.favored = queue'[k].favored]
                   /\ queue'[k].favored <=> \E e \in edges : top_rated[e] = k
             /\ score_changed' = FALSE /\ UNCHANGED top_rated
      BY <1>5, <2>2, CullFacts DEF NextEntry, Typed
    <3>2. \A k \in DOMAIN queue :
             /\ queue'[k].exec_cksum = queue[k].exec_cksum
             /\ queue'[k].trace_mini = queue[k].trace_mini
             /\ queue'[k].exec_us = queue[k].exec_us
             /\ queue'[k].len = queue[k].len
             /\ queue'[k].cal_failed = queue[k].cal_failed
      BY <1>0, <3>1 DEF EntryType
    <3>3. \A e \in Edge : top_rated[e] # 0 => top_rated[e] \in DOMAIN queue
      BY QueueIs DEF Typed, TypeOK
    <3>4. \A k \in DOMAIN queue : Factor(queue'[k]) = Factor(queue[k])
      BY <3>2 DEF Factor
    <3>5. Calibrated' = Calibrated
      BY <3>1, <3>2 DEF Calibrated
    <3>6. Within'
      BY <3>1, <3>2, SameSlots DEF Contested, Within
    <3>7. BestIsBest'
      BY <3>1, <3>2, <3>3, <3>4, <3>5
         DEF Contested, BestIsBest, Calibrated, Bits
    <3>8. \A e \in edges : /\ top_rated[e] \in Favored'
                           /\ Slots(top_rated[e]) \cup
                                queue[top_rated[e]].trace_mini
                              \subseteq Bits(queue'[top_rated[e]].exec_cksum)
      BY <3>1, <3>2, <3>3 DEF Favored, Contested, Within, Rated
    <3>9. ASSUME NEW e \in Rated
          PROVE  \E f \in Favored' : e \in Bits(queue'[f].exec_cksum)
      <4>1. CASE e \in edges
        <5>1. e \in Slots(top_rated[e])
          BY DEF Slots, Rated
        <5> QED BY <3>8, <4>1, <5>1
      <4>2. CASE e \notin edges
        <5>1. PICK d \in edges : e \in queue[top_rated[d]].trace_mini
          BY <3>1, <4>2 DEF Picked
        <5> QED BY <3>8, <5>1
      <4> QED BY <4>1, <4>2
    <3>10. Covered'
      BY <3>1, <3>9 DEF Covered, Rated
    <3> QED BY <3>6, <3>7, <3>10 DEF Contested
  <2> QED BY <2>1, <2>2
<1>6. CASE Trim
  <2>1. /\ queue_cur \in DOMAIN queue /\ pc' = "havoc" /\ cur \in EntryType
        /\ cur.exec_cksum \in Trace
    BY <1>0, <1>6, TrimFacts DEF cur, EntryType
  <2>2. PICK q \in DOMAIN queue : q = queue_cur
    BY <2>1
  <2>3. PICK trace \in Trace : trace = cur.exec_cksum
    BY <2>1
  <2>4. ASSUME NEW x, x = [cur EXCEPT !.len = x.len, !.trim_done = TRUE]
        PROVE  /\ x.exec_us = queue[q].exec_us
               /\ x.favored = queue[q].favored
               /\ x.trace_mini = queue[q].trace_mini
               /\ x.exec_cksum = trace /\ queue[q].exec_cksum = trace
               /\ x.cal_failed = queue[q].cal_failed
    BY <2>1, <2>2, <2>3, <2>4 DEF EntryType, cur
  <2>5. CASE UNCHANGED <<queue, best>>
    <3>1. Within' /\ BestIsBest'
      BY <2>5 DEF best, Contested, Within, Slots, BestIsBest, Calibrated
    <3>2. Covered'
      BY <2>1, <2>5 DEF best, Contested, Covered, Rated, Favored
    <3> QED BY <3>1, <3>2 DEF Contested
  <2>6. ASSUME NEW x, x = [cur EXCEPT !.len = x.len, !.trim_done = TRUE],
               Replaced(queue_cur, x), x.len = cur.len, UNCHANGED best
        PROVE  Contested'
    BY <2>1, <2>2, <2>4, <2>6, ReplaceContested DEF cur
  <2>7. ASSUME NEW x, x = [cur EXCEPT !.len = x.len, !.trim_done = TRUE],
               x.len <= cur.len,
               NEW qs, Prepared(qs, queue_cur, x),
               update_bitmap_score(qs, queue_cur, cur.exec_cksum)
        PROVE  Contested'
    BY <2>1, <2>2, <2>3, <2>4, <2>7, ContestContested DEF cur
  <2> QED BY <1>6, <2>5, <2>6, <2>7, TrimFacts
<1>7. CASE SaveIfInteresting
  <2>1. PICK x \in EntryType :
           /\ x.cal_failed = 1 /\ x.trace_mini = {} /\ x.favored = FALSE
           /\ DOMAIN queue' = DOMAIN queue \cup {Len(queue) + 1}
           /\ \A k \in DOMAIN queue : queue'[k] = queue[k]
           /\ queue'[Len(queue) + 1] = x
           /\ pc' = "calibrate" /\ UNCHANGED best
    BY <1>7, SaveFacts
  <2>2. PICK n : n = Len(queue) + 1
    OBVIOUS
  <2>3. Slots(n) = {} /\ n \notin DOMAIN queue
    BY <2>2, QueueIs DEF Slots, Typed, TypeOK
  <2>4. \A k : Slots(k)' = Slots(k)
    BY <2>1, SameSlots DEF best
  <2>5. Within'
    <3> HIDE DEF Slots
    <3> QED BY <2>1, <2>2, <2>3, <2>4 DEF Contested, Within
  <2>6. /\ Calibrated' \subseteq Calibrated /\ Favored' = Favored
        /\ Rated' = Rated
    BY <2>1, <2>2, <2>3 DEF Calibrated, Favored, Rated, best
  <2>7. \A e \in Edge : top_rated[e] # 0 => top_rated[e] \in DOMAIN queue
    BY QueueIs DEF Typed, TypeOK
  <2>8. BestIsBest'
    BY <2>1, <2>6, <2>7 DEF Contested, BestIsBest, Calibrated, Bits, best
  <2>9. Covered'
    BY <2>1, <2>6 DEF Contested, Covered, Favored, best
  <2> QED BY <2>5, <2>8, <2>9 DEF Contested
<1>8. CASE AbandonEntry
  <2> DEFINE x == [cur EXCEPT !.was_fuzzed = TRUE]
  <2>1. /\ queue_cur \in DOMAIN queue /\ pc' # "fuzz_one"
        /\ UNCHANGED best
        /\ Replaced(queue_cur, x) \/ UNCHANGED queue
    BY <1>8, AbandonFacts
  <2>2. PICK q \in DOMAIN queue : q = queue_cur
    BY <2>1
  <2>3. CASE UNCHANGED queue
    <3>1. UNCHANGED best
      BY <1>8, AbandonFacts
    <3>2. Within' /\ BestIsBest'
      BY <2>3, <3>1 DEF best, Contested, Within, Slots, BestIsBest, Calibrated
    <3>3. Covered'
      BY <2>1, <2>3, <3>1 DEF best, Contested, Covered, Rated, Favored
    <3> QED BY <3>2, <3>3 DEF Contested
  <2>4. CASE Replaced(queue_cur, x)
    <3>1. /\ x.exec_us = queue[q].exec_us /\ x.len = queue[q].len
          /\ x.favored = queue[q].favored
          /\ x.trace_mini = queue[q].trace_mini
          /\ x.exec_cksum = queue[q].exec_cksum
          /\ x.cal_failed = queue[q].cal_failed
      BY <1>0, <2>2 DEF EntryType, cur
    <3>2. UNCHANGED best
      BY <1>8, AbandonFacts
    <3> HIDE DEF x
    <3> QED BY <2>1, <2>2, <2>4, <3>1, <3>2, ReplaceContested
  <2> QED BY <1>8, <2>3, <2>4, AbandonFacts
<1>9. CASE SkipEntry \/ TakeEntry \/ SyncEnds \/ Stop \/ UNCHANGED vars
  <2>1. UNCHANGED <<queue, best>>
    BY <1>9, QuietTyped
  <2>2. pc' = "fuzz_one" => pc = "fuzz_one"
    BY <1>9 DEF SkipEntry, TakeEntry, SyncEnds, Stop, Goto, Advance, vars,
                place
  <2>3. Within' /\ BestIsBest'
    BY <2>1 DEF best, Contested, Within, Slots, BestIsBest, Calibrated
  <2>4. Covered'
    BY <2>1, <2>2 DEF best, Contested, Covered, Rated, Favored
  <2> QED BY <2>3, <2>4 DEF Contested
<1> QED BY <1>1, <1>2, <1>3, <1>4, <1>5, <1>6, <1>7, <1>8, <1>9
        DEF Next, Main, Calibration, FuzzOne

(* For a target whose successful runs of one input take one trace: in any  *)
(* order of calibrations, trims and finds the entry that holds an edge has *)
(* the lowest product of time and size among the calibrated ones.          *)
THEOREM BestStaysBest ==
    ASSUME OneTrace PROVE Spec => []BestIsBest
<1> DEFINE I == Typed /\ Unrated /\ Traces /\ Contested
<1>1. Init => I
  BY TypedInit, UnratedInit, SteadyInit
<1>2. I /\ [Next]_vars => I'
  BY TypedNext, UnratedNext, TracesNext, ContestedNext
<1>3. I => BestIsBest
  BY DEF Contested
<1> QED BY <1>1, <1>2, <1>3, PTL DEF Spec

(* For such a target: whenever fuzz_one chooses, the favored entries take  *)
(* every edge a calibrated entry takes, although cull_queue stopped        *)
(* looking at edges that some bitmap of an earlier choice has.             *)
THEOREM FavoredSuffice ==
    ASSUME OneTrace PROVE Spec => []FavoredCover
<1> DEFINE I == Typed /\ Unrated /\ Traces /\ Contested
<1>1. Init => I
  BY TypedInit, UnratedInit, SteadyInit
<1>2. I /\ [Next]_vars => I'
  BY TypedNext, UnratedNext, TracesNext, ContestedNext
<1>3. I => FavoredCover
  BY DEF Contested, Covered, BestIsBest, FavoredCover, Rated, Bits
<1> QED BY <1>1, <1>2, <1>3, PTL DEF Spec

-----------------------------------------------------------------------------
(* The automatic dictionary.                                               *)

(* An order of the elements of a list without repetitions is as long as    *)
(* the list, and has every element of it once.                             *)
LEMMA Permuted ==
    ASSUME NEW S, NEW list \in Seq(S), NEW s \in SetToSeqs(Range(list)),
           \A j, k \in DOMAIN list : j # k => list[j] # list[k]
    PROVE  /\ s \in Seq(S) /\ Len(s) = Len(list)
           /\ \A k \in DOMAIN list : \E j \in DOMAIN s : s[j] = list[k]
           /\ \A j \in DOMAIN s : \E k \in DOMAIN list : s[j] = list[k]
           /\ \A j, k \in DOMAIN s : j # k => s[j] # s[k]
<1> DEFINE n == Len(list)
           T == Range(list)
<1>1. n \in Nat /\ DOMAIN list = 1 .. n /\ T \subseteq S
  BY DEF Range
<1>2. IsFiniteSet(1 .. n) /\ Cardinality(1 .. n) = n
  BY <1>1, FS_Interval
<1>3. list \in Bijection(1 .. n, T)
  BY <1>1 DEF Bijection, Injection, Surjection, Range, IsInjective
<1>4. ExistsBijection(1 .. n, T)
  BY <1>3 DEF ExistsBijection
<1>5. Cardinality(T) = n /\ IsFiniteSet(T)
  BY <1>1, <1>2, <1>4, FS_CountingElements, FS_Bijection
<1>6. /\ s \in [1 .. n -> T]
      /\ \A j, k \in 1 .. n : j # k => s[j] # s[k]
  BY <1>5 DEF SetToSeqs
<1>7. s \in Injection(1 .. n, T)
  BY <1>6 DEF Injection, IsInjective
<1>8. s \in Surjection(1 .. n, T)
  BY <1>2, <1>5, <1>7, FS_Injection
<1>9. \A x \in T : \E j \in 1 .. n : s[j] = x
  BY <1>8 DEF Surjection
<1>10. s \in Seq(S) /\ Len(s) = n /\ DOMAIN s = 1 .. n
  BY <1>1, <1>6
<1>11. ASSUME NEW k \in DOMAIN list
       PROVE  \E j \in DOMAIN s : s[j] = list[k]
  BY <1>9, <1>10, <1>11 DEF Range
<1>12. ASSUME NEW j \in DOMAIN s
       PROVE  \E k \in DOMAIN list : s[j] = list[k]
  BY <1>6, <1>10, <1>12 DEF Range
<1> QED BY <1>6, <1>10, <1>11, <1>12

Entries == [data : Seq(Byte), hit_cnt : Nat]

(* memcmp_nocase is an equivalence of tokens.                              *)
LEMMA NocaseFacts ==
    ASSUME NEW a \in Seq(Byte), NEW b \in Seq(Byte), NEW c \in Seq(Byte)
    PROVE  /\ memcmp_nocase(a, a)
           /\ memcmp_nocase(a, b) => memcmp_nocase(b, a)
           /\ memcmp_nocase(a, b) /\ memcmp_nocase(b, c)
                  => memcmp_nocase(a, c)
  BY DEF memcmp_nocase

(* The entries of a list.                                                  *)
LEMMA EntryTypes ==
    ASSUME NEW list \in Seq(Entries), NEW j \in DOMAIN list
    PROVE  list[j].data \in Seq(Byte) /\ list[j].hit_cnt \in Nat
<1>1. list[j] \in Entries
  OBVIOUS
<1> QED BY <1>1 DEF Entries

(* No two tokens of a list differ in case only.                            *)
Apart(list) ==
    \A j, k \in DOMAIN list :
        memcmp_nocase(list[j].data, list[k].data) => j = k

(* The top of a list is ordered by size, the rest by use, and the top was  *)
(* not used less than the rest.                                            *)
Ordered(list) ==
    \A j, k \in DOMAIN list :
        j < k => IF k <= USE_AUTO_EXTRAS
                 THEN Len(list[j].data) <= Len(list[k].data)
                 ELSE list[j].hit_cnt >= list[k].hit_cnt

IsDictionary(list) ==
    /\ list \in Seq(Entries) /\ Len(list) <= MAX_AUTO_EXTRAS
    /\ Apart(list) /\ Ordered(list)

(* Every token of one list is in the other.                                *)
HeldBy(list, new) ==
    \A j \in DOMAIN list : \E k \in DOMAIN new : new[k].data = list[j].data

(* What a new order of a list leaves.                                      *)
LEMMA Resorted ==
    ASSUME NEW list \in Seq(Entries), Apart(list),
           NEW new \in SortedAuto(list)
    PROVE  /\ new \in Seq(Entries) /\ Len(new) = Len(list)
           /\ Apart(new) /\ Ordered(new)
           /\ HeldBy(list, new) /\ HeldBy(new, list)
<1>1. \A j \in DOMAIN list : list[j].data \in Seq(Byte)
  BY EntryTypes
<1>2. \A j, k \in DOMAIN list : j # k => list[j] # list[k]
  BY <1>1, NocaseFacts DEF Apart
<1>3. new \in SetToSeqs(Range(list)) /\ Ordered(new)
  BY DEF SortedAuto, BySize, Ordered
<1>4. /\ new \in Seq(Entries) /\ Len(new) = Len(list)
      /\ \A k \in DOMAIN list : \E j \in DOMAIN new : new[j] = list[k]
      /\ \A j \in DOMAIN new : \E k \in DOMAIN list : new[j] = list[k]
      /\ \A j, k \in DOMAIN new : j # k => new[j] # new[k]
  BY <1>2, <1>3, Permuted
<1>5. Apart(new)
  <2> SUFFICES ASSUME NEW j \in DOMAIN new, NEW k \in DOMAIN new,
                      memcmp_nocase(new[j].data, new[k].data)
               PROVE  j = k
    BY DEF Apart
  <2>1. PICK p \in DOMAIN list : new[j] = list[p]
    BY <1>4
  <2>2. PICK q \in DOMAIN list : new[k] = list[q]
    BY <1>4
  <2>3. p = q
    BY <2>1, <2>2 DEF Apart
  <2> QED BY <1>4, <2>1, <2>2, <2>3
<1> QED BY <1>3, <1>4, <1>5 DEF HeldBy

TokenLens == MIN_AUTO_EXTRA .. MAX_AUTO_EXTRA

(* What became of a dictionary to which a token was given.                 *)
TakenFrom(list, new, mem) ==
    \A k \in DOMAIN new :
        \/ \E j \in DOMAIN list : new[k].data = list[j].data
        \/ new[k].data = mem /\ Len(mem) \in TokenLens

Known(new, mem) == \E k \in DOMAIN new : memcmp_nocase(new[k].data, mem)

TokenStays(list, new, j) == \E k \in DOMAIN new : new[k].data = list[j].data

AsUseful(list, j) ==
    Cardinality({k \in DOMAIN list \ {j} : list[k].hit_cnt >= list[j].hit_cnt})
        >= MAX_AUTO_EXTRAS \div 2

Unlost(list, new) ==
    \A j \in DOMAIN list : TokenStays(list, new, j) \/ AsUseful(list, j)

Added(list, new, mem) ==
    /\ new \in Seq(Entries) /\ Len(new) <= MAX_AUTO_EXTRAS
    /\ Apart(new)
    /\ TakenFrom(list, new, mem)
    /\ Len(list) <= Len(new)
    /\ Len(new) < MAX_AUTO_EXTRAS => HeldBy(list, new)
    /\ Unlost(list, new)

(* Sorting keeps all that.                                                 *)
LEMMA AddedResorted ==
    ASSUME NEW old \in Seq(Entries), NEW list, NEW mem,
           Added(old, list, mem), NEW new \in SortedAuto(list)
    PROVE  /\ Added(old, new, mem) /\ IsDictionary(new)
           /\ Known(list, mem) => Known(new, mem)
<1>1. /\ list \in Seq(Entries) /\ Apart(list)
  BY DEF Added
<1>2. /\ new \in Seq(Entries) /\ Len(new) = Len(list)
      /\ Apart(new) /\ Ordered(new)
      /\ HeldBy(list, new) /\ HeldBy(new, list)
  BY <1>1, Resorted
<1>3. TakenFrom(old, new, mem)
  BY <1>2 DEF Added, TakenFrom, HeldBy
<1>4. HeldBy(old, list) => HeldBy(old, new)
  BY <1>2 DEF HeldBy
<1>5. Unlost(old, new)
  BY <1>2 DEF Added, Unlost, HeldBy, TokenStays
<1>6. Known(list, mem) => Known(new, mem)
  BY <1>2 DEF Known, HeldBy
<1> QED BY <1>2, <1>3, <1>4, <1>5, <1>6 DEF Added, IsDictionary

(* The half of the dictionary that is never evicted was found at least as  *)
(* often as the other.                                                     *)
LEMMA UpperHalf ==
    ASSUME IsDictionary(a_extras), NEW j \in DOMAIN a_extras,
           j > MAX_AUTO_EXTRAS \div 2
    PROVE  AsUseful(a_extras, j)
<1> DEFINE h == MAX_AUTO_EXTRAS \div 2
           U == {k \in DOMAIN a_extras \ {j} :
                    a_extras[k].hit_cnt >= a_extras[j].hit_cnt}
<1>1. /\ MAX_AUTO_EXTRAS \in Nat /\ USE_AUTO_EXTRAS \in Nat
      /\ USE_AUTO_EXTRAS <= h
  BY ConfigAssumption
<1>2. h \in Nat
  BY <1>1
<1>3. a_extras \in Seq(Entries) /\ Ordered(a_extras)
  BY DEF IsDictionary
<1>4. /\ DOMAIN a_extras = 1 .. Len(a_extras) /\ Len(a_extras) \in Nat
      /\ j \in 1 .. Len(a_extras)
  BY <1>3
<1> HIDE DEF h
<1>5. j > h
  BY DEF h
<1>6. 1 .. h \subseteq U
  <2> SUFFICES ASSUME NEW k \in 1 .. h
               PROVE  k \in U
    OBVIOUS
  <2>1. k \in DOMAIN a_extras /\ k < j /\ ~(j <= USE_AUTO_EXTRAS)
    BY <1>1, <1>2, <1>4, <1>5
  <2>2. a_extras[k].hit_cnt >= a_extras[j].hit_cnt
    BY <1>3, <1>4, <2>1 DEF Ordered
  <2> QED BY <1>4, <2>1, <2>2
<1>7. IsFiniteSet(U)
  <2>1. IsFiniteSet(DOMAIN a_extras)
    BY <1>4, FS_Interval
  <2> QED BY <2>1, FS_Subset
<1>8. Cardinality(1 .. h) = h /\ Cardinality(1 .. h) <= Cardinality(U)
  <2>1. Cardinality(1 .. h) = h
    BY <1>2, FS_Interval
  <2>2. (1 .. h) \in SUBSET U
    BY <1>6
  <2> HIDE DEF U
  <2>3. Cardinality(1 .. h) <= Cardinality(U)
    BY <1>7, <2>2, FS_Subset
  <2> QED BY <2>1, <2>3
<1>9. Cardinality(U) \in Nat
  BY <1>7, FS_CardinalityType
<1> QED BY <1>2, <1>8, <1>9 DEF AsUseful, h

(* The two halves of a dictionary.                                         *)
LEMMA Halves ==
    ASSUME NEW m \in Nat
    PROVE  /\ m \div 2 \in Nat /\ (m + 1) \div 2 \in Nat
           /\ m \div 2 + (m + 1) \div 2 = m
  OBVIOUS

(* What maybe_add_auto does to the dictionary.                             *)
LEMMA AutoAdds ==
    ASSUME IsDictionary(a_extras), NEW mem \in Seq(Byte),
           Len(mem) \in TokenLens, NEW new \in maybe_add_auto(mem)
    PROVE  /\ IsDictionary(new) /\ Added(a_extras, new, mem)
           /\ Len(new) < MAX_AUTO_EXTRAS => Rejected(mem) \/ Known(new, mem)
<1> DEFINE n == Len(a_extras)
           same == {k \in DOMAIN a_extras :
                       memcmp_nocase(a_extras[k].data, mem)}
           fresh == [data |-> mem, hit_cnt |-> 0]
<1>1. /\ a_extras \in Seq(Entries) /\ n \in Nat /\ n <= MAX_AUTO_EXTRAS
      /\ Apart(a_extras) /\ DOMAIN a_extras = 1 .. n
  BY DEF IsDictionary
<1>2. fresh \in Entries
  BY DEF Entries
<1>3. MAX_AUTO_EXTRAS \in Nat
  BY ConfigAssumption
<1>4. ASSUME NEW j \in DOMAIN a_extras
      PROVE  a_extras[j].data \in Seq(Byte) /\ a_extras[j].hit_cnt \in Nat
  BY <1>1, <1>4, EntryTypes
<1>5. CASE Rejected(mem)
  <2>1. new = a_extras
    BY <1>5 DEF maybe_add_auto
  <2>2. Added(a_extras, a_extras, mem)
    BY <1>1 DEF Added, TakenFrom, HeldBy, Unlost, TokenStays
  <2> QED BY <1>5, <2>1, <2>2
<1>6. CASE ~Rejected(mem) /\ same # {}
  <2>1. PICK k \in same :
            new \in SortedAuto([a_extras EXCEPT ![k].hit_cnt = @ + 1])
    <3> DEFINE lists == {[a_extras EXCEPT ![k].hit_cnt = @ + 1] : k \in same}
    <3>1. maybe_add_auto(mem) = UNION {SortedAuto(list) : list \in lists}
      BY <1>6 DEF maybe_add_auto, TokenLens
    <3>2. PICK list \in lists : new \in SortedAuto(list)
      BY <3>1
    <3>3. PICK k \in same : list = [a_extras EXCEPT ![k].hit_cnt = @ + 1]
      BY <3>2
    <3> QED BY <3>2, <3>3
  <2> DEFINE list == [a_extras EXCEPT ![k].hit_cnt = @ + 1]
  <2>2. k \in DOMAIN a_extras /\ memcmp_nocase(a_extras[k].data, mem)
    OBVIOUS
  <2>3. list = [a_extras EXCEPT ![k] = [a_extras[k] EXCEPT
                                            !.hit_cnt = @ + 1]]
    OBVIOUS
  <2>4. [a_extras[k] EXCEPT !.hit_cnt = @ + 1] \in Entries
    <3>1. a_extras[k] \in Entries /\ a_extras[k].hit_cnt + 1 \in Nat
      BY <1>1, <1>4, <2>2
    <3> QED BY <3>1 DEF Entries
  <2>5. list \in Seq(Entries) /\ Len(list) = n /\ DOMAIN list = 1 .. n
    BY <1>1, <2>3, <2>4
  <2>6. \A j \in 1 .. n : list[j].data = a_extras[j].data
    <3> SUFFICES ASSUME NEW j \in 1 .. n
                 PROVE  list[j].data = a_extras[j].data
      OBVIOUS
    <3>1. a_extras[j] \in Entries
      BY <1>1
    <3> QED BY <1>1, <3>1 DEF Entries
  <2> HIDE DEF list
  <2>7. Apart(list)
    BY <1>1, <2>5, <2>6 DEF Apart
  <2>8. /\ TakenFrom(a_extras, list, mem)
        /\ HeldBy(a_extras, list)
        /\ Unlost(a_extras, list)
    BY <1>1, <2>5, <2>6 DEF TakenFrom, HeldBy, Unlost, TokenStays
  <2>9. Added(a_extras, list, mem)
    BY <1>1, <2>5, <2>7, <2>8 DEF Added
  <2>10. Known(list, mem)
    BY <1>1, <2>2, <2>5, <2>6 DEF Known
  <2>11. new \in SortedAuto(list)
    BY <2>1 DEF list
  <2> QED BY <1>1, <2>9, <2>10, <2>11, AddedResorted
<1>7. CASE ~Rejected(mem) /\ same = {} /\ n < MAX_AUTO_EXTRAS
  <2> DEFINE list == Append(a_extras, fresh)
  <2>1. new \in SortedAuto(list)
    BY <1>7 DEF maybe_add_auto, TokenLens
  <2> HIDE DEF fresh
  <2>2. /\ list \in Seq(Entries) /\ Len(list) = n + 1
        /\ DOMAIN list = 1 .. n + 1 /\ list[n + 1] = fresh
        /\ \A j \in 1 .. n : list[j] = a_extras[j]
    BY <1>1, <1>2
  <2> HIDE DEF list
  <2>3. fresh.data = mem
    BY DEF fresh
  <2>4. Apart(list)
    <3> SUFFICES ASSUME NEW j \in 1 .. n + 1, NEW k \in 1 .. n + 1,
                        memcmp_nocase(list[j].data, list[k].data)
                 PROVE  j = k
      BY <2>2 DEF Apart
    <3>1. CASE j \in 1 .. n /\ k \in 1 .. n
      BY <1>1, <2>2, <3>1 DEF Apart
    <3>2. CASE j \in 1 .. n /\ k = n + 1
      BY <1>1, <1>7, <2>2, <2>3, <3>2
    <3>3. CASE j = n + 1 /\ k \in 1 .. n
      <4>1. memcmp_nocase(mem, a_extras[k].data)
        BY <2>2, <2>3, <3>3
      <4>2. a_extras[k].data \in Seq(Byte)
        BY <1>1, <1>4, <3>3
      <4>3. memcmp_nocase(a_extras[k].data, mem)
        BY <4>1, <4>2, NocaseFacts
      <4> QED BY <1>1, <1>7, <3>3, <4>3
    <3> QED BY <1>1, <3>1, <3>2, <3>3
  <2>5. TakenFrom(a_extras, list, mem)
    <3> SUFFICES ASSUME NEW k \in 1 .. n + 1
                 PROVE  \/ \E j \in DOMAIN a_extras :
                               list[k].data = a_extras[j].data
                        \/ list[k].data = mem /\ Len(mem) \in TokenLens
      BY <2>2 DEF TakenFrom
    <3> QED BY <1>1, <2>2, <2>3
  <2>6. HeldBy(a_extras, list)
    BY <1>1, <2>2 DEF HeldBy
  <2>7. Unlost(a_extras, list)
    BY <2>6 DEF HeldBy, Unlost, TokenStays
  <2>8. Added(a_extras, list, mem)
    BY <1>1, <1>3, <1>7, <2>2, <2>4, <2>5, <2>6, <2>7 DEF Added
  <2>9. Known(list, mem)
    <3>1. memcmp_nocase(list[n + 1].data, mem)
      BY <2>2, <2>3, NocaseFacts
    <3> QED BY <1>1, <2>2, <3>1 DEF Known
  <2> QED BY <1>1, <2>1, <2>8, <2>9, AddedResorted
<1>8. CASE ~Rejected(mem) /\ same = {} /\ ~(n < MAX_AUTO_EXTRAS)
  <2> DEFINE h == MAX_AUTO_EXTRAS \div 2
  <2>1. PICK k \in 0 .. (MAX_AUTO_EXTRAS + 1) \div 2 - 1 :
            new \in SortedAuto([a_extras EXCEPT ![h + 1 + k] = fresh])
    BY <1>8 DEF maybe_add_auto, Evict, TokenLens
  <2> DEFINE e == h + 1 + k
             list == [a_extras EXCEPT ![e] = fresh]
  <2>2. e \in 1 .. n /\ e > h /\ h \in Nat /\ n = MAX_AUTO_EXTRAS
    <3>1. n = MAX_AUTO_EXTRAS
      <4>1. n \in Nat /\ n <= MAX_AUTO_EXTRAS /\ ~(n < MAX_AUTO_EXTRAS)
        BY <1>1, <1>8
      <4> HIDE DEF n
      <4> QED BY <1>3, <4>1
    <3>2. h \in Nat /\ h + (MAX_AUTO_EXTRAS + 1) \div 2 = MAX_AUTO_EXTRAS
      BY <1>3, Halves
    <3>3. (MAX_AUTO_EXTRAS + 1) \div 2 \in Nat
      BY <1>3, Halves
    <3> HIDE DEF n, h
    <3> QED BY <1>3, <3>1, <3>2, <3>3
  <2>3. new \in SortedAuto(list)
    BY <2>1
  <2> HIDE DEF fresh, e
  <2>4. /\ list \in Seq(Entries) /\ Len(list) = n
        /\ DOMAIN list = 1 .. n /\ list[e] = fresh
        /\ \A j \in 1 .. n : j # e => list[j] = a_extras[j]
    BY <1>1, <1>2, <2>2
  <2> HIDE DEF list
  <2>5. fresh.data = mem
    BY DEF fresh
  <2>6. Apart(list)
    <3> SUFFICES ASSUME NEW j \in 1 .. n, NEW l \in 1 .. n,
                        memcmp_nocase(list[j].data, list[l].data)
                 PROVE  j = l
      BY <2>4 DEF Apart
    <3>1. CASE j # e /\ l # e
      BY <1>1, <2>4, <3>1 DEF Apart
    <3>2. CASE j # e /\ l = e
      BY <1>1, <1>8, <2>4, <2>5, <3>2
    <3>3. CASE j = e /\ l # e
      <4>1. memcmp_nocase(mem, a_extras[l].data)
        BY <2>4, <2>5, <3>3
      <4>2. a_extras[l].data \in Seq(Byte)
        BY <1>1, <1>4, <3>3
      <4>3. memcmp_nocase(a_extras[l].data, mem)
        BY <4>1, <4>2, NocaseFacts
      <4> QED BY <1>1, <1>8, <3>3, <4>3
    <3> QED BY <3>1, <3>2, <3>3
  <2>7. TakenFrom(a_extras, list, mem)
    <3> SUFFICES ASSUME NEW j \in 1 .. n
                 PROVE  \/ \E l \in DOMAIN a_extras :
                               list[j].data = a_extras[l].data
                        \/ list[j].data = mem /\ Len(mem) \in TokenLens
      BY <2>4 DEF TakenFrom
    <3> QED BY <1>1, <2>4, <2>5
  <2>8. Unlost(a_extras, list)
    <3> SUFFICES ASSUME NEW j \in 1 .. n
                 PROVE  TokenStays(a_extras, list, j) \/ AsUseful(a_extras, j)
      BY <1>1 DEF Unlost
    <3>1. CASE j # e
      BY <2>4, <3>1 DEF TokenStays
    <3>2. CASE j = e
      BY <1>1, <2>2, <3>2, UpperHalf
    <3> QED BY <3>1, <3>2
  <2>9. Added(a_extras, list, mem)
    BY <1>1, <1>3, <2>2, <2>4, <2>6, <2>7, <2>8 DEF Added
  <2>10. Known(list, mem)
    <3>1. memcmp_nocase(list[e].data, mem)
      BY <2>4, <2>5, NocaseFacts
    <3> QED BY <2>2, <2>4, <3>1 DEF Known
  <2> QED BY <1>1, <2>3, <2>9, <2>10, AddedResorted
<1> QED BY <1>5, <1>6, <1>7, <1>8

-----------------------------------------------------------------------------
(* Collecting tokens.                                                      *)

(* The bytes from a to b are a token.                                      *)
TokenAt(a, b) ==
    /\ b - a + 1 \in TokenLens
    /\ \A k \in a .. b :
           subject.lsb[k] = subject.lsb[a] /\ subject.lsb[k] # 0
    /\ a > 1 => subject.lsb[a - 1] # subject.lsb[a]
    /\ b < Len(orig_in) => subject.lsb[b + 1] # subject.lsb[a]

(* Tokens is the set of them.                                              *)
LEMMA TokensAre ==
    /\ \A a, b \in DOMAIN orig_in :
           TokenAt(a, b) => SubSeq(orig_in, a, b) \in Tokens
    /\ \A t \in Tokens : \E a, b \in DOMAIN orig_in :
           TokenAt(a, b) /\ t = SubSeq(orig_in, a, b)
<1> DEFINE D == DOMAIN orig_in
           P == {q \in D \X D : TokenAt(q[1], q[2])}
<1>1. Tokens = {SubSeq(orig_in, p[1], p[2]) : p \in P}
  BY DEF Tokens, TokenAt, TokenLens
<1>2. ASSUME NEW a \in D, NEW b \in D, TokenAt(a, b)
      PROVE  SubSeq(orig_in, a, b) \in Tokens
  <2>1. PICK p \in P : p[1] = a /\ p[2] = b
    <3>1. <<a, b>> \in P
      BY <1>2
    <3> QED BY <3>1
  <2> HIDE DEF P
  <2>2. SubSeq(orig_in, p[1], p[2]) \in Tokens
    BY <1>1
  <2> QED BY <2>1, <2>2
<1>3. ASSUME NEW t \in Tokens
      PROVE  \E a, b \in D : TokenAt(a, b) /\ t = SubSeq(orig_in, a, b)
  <2>1. PICK p \in P : t = SubSeq(orig_in, p[1], p[2])
    BY <1>1
  <2>2. p[1] \in D /\ p[2] \in D /\ TokenAt(p[1], p[2])
    OBVIOUS
  <2> QED BY <2>1, <2>2
<1> QED BY <1>2, <1>3

(* The run of equal hashes that ends with the n-th byte, if they are not   *)
(* those of the unchanged file.                                            *)
RunSoFar(n, run, prev) ==
    /\ prev = IF n = 0 THEN 0 ELSE subject.lsb[n]
    /\ prev = 0 => run = <<>>
    /\ prev # 0 => \E f \in 1 .. n :
           /\ run = SubSeq(orig_in, f, n)
           /\ \A k \in f .. n : subject.lsb[k] = prev
           /\ f > 1 => subject.lsb[f - 1] # prev

(* The dictionary has every useful token that ends by the n-th byte.       *)
KnownUpTo(list, n) ==
    \A a, b \in DOMAIN orig_in :
        TokenAt(a, b) /\ b <= n =>
            \/ Rejected(SubSeq(orig_in, a, b))
            \/ Known(list, SubSeq(orig_in, a, b))

OnlyTokens(list) == \A k \in DOMAIN list : list[k].data \in Tokens

(* A part of a file.                                                       *)
LEMMA PartOfFile ==
    ASSUME NEW f \in Seq(Byte), NEW a \in 1 .. Len(f), NEW b \in a .. Len(f)
    PROVE  /\ SubSeq(f, a, b) \in Seq(Byte)
           /\ Len(SubSeq(f, a, b)) = b - a + 1
           /\ b < Len(f) => Append(SubSeq(f, a, b), f[b + 1])
                                = SubSeq(f, a, b + 1)
           /\ SubSeq(f, b, b) = <<f[b]>>
<1>1. /\ SubSeq(f, a, b) \in Seq(Byte) /\ Len(SubSeq(f, a, b)) = b - a + 1
      /\ \A j \in 1 .. b - a + 1 : SubSeq(f, a, b)[j] = f[a + j - 1]
  BY SubSeqProperties
<1>2. ASSUME b < Len(f)
      PROVE  Append(SubSeq(f, a, b), f[b + 1]) = SubSeq(f, a, b + 1)
  <2> DEFINE s == SubSeq(f, a, b)
             u == SubSeq(f, a, b + 1)
  <2>1. /\ u \in Seq(Byte) /\ Len(u) = b - a + 2
        /\ \A j \in 1 .. b - a + 2 : u[j] = f[a + j - 1]
    BY <1>2, SubSeqProperties
  <2>2. s \in Seq(Byte) /\ Len(s) = b - a + 1
    BY <1>1
  <2>3. \A j \in 1 .. b - a + 1 : s[j] = f[a + j - 1]
    BY <1>1
  <2>4. f[b + 1] \in Byte
    BY <1>2
  <2> HIDE DEF s, u
  <2>5. Append(s, f[b + 1]) \in Seq(Byte) /\ Len(Append(s, f[b + 1])) = Len(u)
    <3>1. /\ Append(s, f[b + 1]) \in Seq(Byte)
          /\ Len(Append(s, f[b + 1])) = Len(s) + 1
      BY <2>2, <2>4
    <3>2. a \in Int /\ b \in Int
      OBVIOUS
    <3> QED BY <2>1, <2>2, <3>1, <3>2
  <2>6. \A j \in 1 .. Len(u) : Append(s, f[b + 1])[j] = u[j]
    BY <2>1, <2>2, <2>3, <2>4
  <2> QED BY <2>1, <2>5, <2>6, SeqEqual DEF s, u
<1>3. SubSeq(f, b, b) = <<f[b]>>
  <2>1. /\ SubSeq(f, b, b) \in Seq(Byte) /\ Len(SubSeq(f, b, b)) = 1
        /\ SubSeq(f, b, b)[1] = f[b]
    BY SubSeqProperties
  <2>2. f[b] \in Byte
    OBVIOUS
  <2>3. /\ <<f[b]>> \in Seq(Byte) /\ Len(<<f[b]>>) = 1
        /\ <<f[b]>>[1] = f[b]
    BY <2>2
  <2>4. \A j \in 1 .. 1 : SubSeq(f, b, b)[j] = <<f[b]>>[j]
    BY <2>1, <2>3
  <2> QED BY <2>1, <2>3, <2>4, SeqEqual
<1> QED BY <1>1, <1>2, <1>3

(* The dictionary after a token was offered to it.                         *)
Offered(list, new, mem) ==
    /\ IsDictionary(new) /\ OnlyTokens(new)
    /\ Unlost(list, new)
    /\ Len(list) <= Len(new)
    /\ Len(new) < MAX_AUTO_EXTRAS =>
           /\ HeldBy(list, new)
           /\ Len(mem) \in TokenLens => Rejected(mem) \/ Known(new, mem)

(* What giving a token to the dictionary does, a run of the file if it is  *)
(* long enough.                                                            *)
LEMMA GiveToken ==
    ASSUME IsDictionary(a_extras), OnlyTokens(a_extras),
           NEW mem \in Seq(Byte), Len(mem) \in TokenLens => mem \in Tokens,
           NEW new \in maybe_add_auto(mem)
    PROVE  Offered(a_extras, new, mem)
<1>1. CASE Len(mem) \notin TokenLens
  <2>1. new = a_extras
    BY <1>1 DEF maybe_add_auto, TokenLens
  <2>2. Len(a_extras) \in Nat
    BY DEF IsDictionary
  <2> QED BY <1>1, <2>1, <2>2 DEF Offered, HeldBy, Unlost, TokenStays
<1>2. CASE Len(mem) \in TokenLens
  <2>1. /\ IsDictionary(new) /\ Added(a_extras, new, mem)
        /\ Len(new) < MAX_AUTO_EXTRAS => Rejected(mem) \/ Known(new, mem)
    BY <1>2, AutoAdds
  <2>2. OnlyTokens(new)
    BY <1>2, <2>1 DEF Added, TakenFrom, OnlyTokens
  <2> QED BY <2>1, <2>2 DEF Offered, Added
<1> QED BY <1>1, <1>2

(* Tokens that were known stay so.                                         *)
LEMMA KnownStays ==
    ASSUME NEW list, NEW new, NEW n, HeldBy(list, new), KnownUpTo(list, n)
    PROVE  KnownUpTo(new, n)
  BY DEF KnownUpTo, Known, HeldBy

(* The run of a token that ends with the n-th byte begins where the token  *)
(* does.                                                                   *)
LEMMA RunIsToken ==
    ASSUME subject \in Subjects, NEW n \in DOMAIN orig_in,
           NEW m \in {n, n + 1}, m \in DOMAIN orig_in,
           NEW run, NEW prev, RunSoFar(n, run, prev),
           NEW a \in DOMAIN orig_in, TokenAt(a, m), a <= n
    PROVE  run = SubSeq(orig_in, a, n) /\ prev # 0 /\ prev = subject.lsb[m]
<1>1. orig_in \in Seq(Byte) /\ DOMAIN orig_in = 1 .. Len(orig_in)
  BY SubjectAssumption DEF orig_in, IsFile
<1>2. n \in Nat /\ n >= 1 /\ a \in 1 .. n
  BY <1>1
<1>3. prev = subject.lsb[n]
  BY <1>2 DEF RunSoFar
<1>4. \A k \in a .. m : subject.lsb[k] = subject.lsb[a] /\ subject.lsb[k] # 0
  BY DEF TokenAt
<1>5. prev # 0 /\ subject.lsb[a] = prev /\ prev = subject.lsb[m]
  <2>1. n \in a .. m /\ m \in a .. m
    BY <1>2
  <2> QED BY <1>3, <1>4, <2>1
<1>6. PICK f \in 1 .. n : /\ run = SubSeq(orig_in, f, n)
                          /\ \A k \in f .. n : subject.lsb[k] = prev
                          /\ f > 1 => subject.lsb[f - 1] # prev
  BY <1>5 DEF RunSoFar
<1>7. a > 1 => subject.lsb[a - 1] # prev
  BY <1>5 DEF TokenAt
<1>8. ~(f < a)
  <2> SUFFICES ASSUME f < a PROVE FALSE
    OBVIOUS
  <2>1. a - 1 \in f .. n /\ a > 1
    BY <1>2
  <2> QED BY <1>6, <1>7, <2>1
<1>9. ~(a < f)
  <2> SUFFICES ASSUME a < f PROVE FALSE
    OBVIOUS
  <2>1. f - 1 \in a .. m /\ f > 1
    BY <1>2
  <2> QED BY <1>4, <1>5, <1>6, <2>1
<1>10. f = a
  BY <1>2, <1>8, <1>9
<1> QED BY <1>5, <1>6, <1>10

(* What the callback of one byte of the first bit flips does.              *)
LEMMA CollectStep ==
    ASSUME subject \in Subjects, in_buf = orig_in,
           i \in 0 .. Len(orig_in) - 1,
           IsDictionary(a_extras), OnlyTokens(a_extras),
           RunSoFar(i, a_collect, prev_cksum),
           Len(a_extras) < MAX_AUTO_EXTRAS => KnownUpTo(a_extras, i - 1),
           Collect(subject.lsb[i + 1], in_buf[i + 1])
    PROVE  /\ IsDictionary(a_extras') /\ OnlyTokens(a_extras')
           /\ Unlost(a_extras, a_extras')
           /\ i + 1 < Len(orig_in) => RunSoFar(i + 1, a_collect', prev_cksum')
           /\ Len(a_extras') < MAX_AUTO_EXTRAS =>
                  IF i + 1 < Len(orig_in) THEN KnownUpTo(a_extras', i)
                  ELSE KnownUpTo(a_extras', Len(orig_in))
<1> DEFINE L == Len(orig_in)
           ck == subject.lsb[i + 1]
           byte == orig_in[i + 1]
           final == i = L - 1 /\ ck = prev_cksum
           mem == IF final THEN Append(a_collect, byte)
                  ELSE IF ck # prev_cksum THEN a_collect ELSE <<>>
<1>1. /\ orig_in \in Seq(Byte) /\ L \in Nat
      /\ DOMAIN orig_in = 1 .. L /\ i \in Nat /\ i + 1 \in 1 .. L
      /\ subject.lsb \in [1 .. L -> Nat]
  <2>1. /\ orig_in \in Seq(Byte)
        /\ subject.lsb \in [DOMAIN orig_in -> Nat]
    BY SubjectAssumption DEF orig_in, IsFile
  <2>2. L \in Nat /\ DOMAIN orig_in = 1 .. L
    BY <2>1
  <2> HIDE DEF L
  <2>3. i \in 0 .. L - 1
    BY DEF L
  <2>4. i \in Nat /\ i + 1 \in 1 .. L
    BY <2>2, <2>3
  <2>5. subject.lsb \in [1 .. L -> Nat]
    BY <2>1, <2>2
  <2> QED BY <2>1, <2>2, <2>4, <2>5
<1>2. ck \in Nat /\ byte \in Byte
  BY <1>1
<1>3. /\ ck = subject.lsb[i + 1] /\ byte = orig_in[i + 1]
      /\ byte = in_buf[i + 1] /\ L = Len(orig_in)
  OBVIOUS
<1>4. final <=> i + 1 = L /\ ck = prev_cksum
  <2> HIDE DEF L, ck
  <2>1. i = L - 1 <=> i + 1 = L
    BY <1>1
  <2> QED BY <2>1
<1>5. mem = IF final THEN Append(a_collect, byte)
            ELSE IF ck # prev_cksum THEN a_collect ELSE <<>>
  OBVIOUS
<1>6. /\ a_extras' \in IF final THEN maybe_add_auto(Append(a_collect, byte))
                       ELSE IF ck # prev_cksum
                       THEN maybe_add_auto(a_collect) ELSE {a_extras}
      /\ prev_cksum' = ck
      /\ ~ final => a_collect' =
             IF ck # 0
             THEN Append(IF ck # prev_cksum THEN <<>> ELSE a_collect, byte)
             ELSE IF ck # prev_cksum THEN <<>> ELSE a_collect
  <2> HIDE DEF mem
  <2>1. Collect(ck, byte)
    OBVIOUS
  <2>2. L = len
    BY DEF len
  <2> HIDE DEF ck, byte
  <2>3. /\ a_extras' \in IF final
                         THEN maybe_add_auto(Append(a_collect, byte))
                         ELSE IF ck # prev_cksum
                         THEN maybe_add_auto(a_collect) ELSE {a_extras}
        /\ prev_cksum' = ck
    BY <2>1, <2>2 DEF Collect
  <2>4. ASSUME ~ final
        PROVE  a_collect' = IF ck # 0
                   THEN Append(IF ck # prev_cksum THEN <<>>
                               ELSE a_collect, byte)
                   ELSE IF ck # prev_cksum THEN <<>> ELSE a_collect
    BY <2>1, <2>2, <2>4 DEF Collect
  <2> QED BY <2>3, <2>4
<1> HIDE DEF L, ck, byte, final, mem
<1>7. MIN_AUTO_EXTRA \in Nat /\ MIN_AUTO_EXTRA >= 2 /\ MAX_AUTO_EXTRA \in Nat
  BY ConfigAssumption
(* The run so far, if there is one.                                        *)
<1>8. ASSUME prev_cksum # 0
      PROVE  \E f \in 1 .. i :
                 /\ a_collect = SubSeq(orig_in, f, i)
                 /\ \A k \in f .. i : subject.lsb[k] = prev_cksum
                 /\ f > 1 => subject.lsb[f - 1] # prev_cksum
  BY <1>8 DEF RunSoFar
<1>9. /\ prev_cksum = 0 => a_collect = <<>>
      /\ prev_cksum = IF i = 0 THEN 0 ELSE subject.lsb[i]
      /\ prev_cksum \in Nat
  <2>1. prev_cksum = IF i = 0 THEN 0 ELSE subject.lsb[i]
    BY DEF RunSoFar
  <2>2. i # 0 => i \in 1 .. L
    BY <1>1
  <2> QED BY <1>1, <2>1, <2>2 DEF RunSoFar
<1>10. a_collect \in Seq(Byte)
  <2>1. CASE prev_cksum = 0
    <3>1. <<>> \in Seq(Byte)
      OBVIOUS
    <3> QED BY <1>9, <2>1, <3>1
  <2>2. CASE prev_cksum # 0
    <3>1. PICK f \in 1 .. i : a_collect = SubSeq(orig_in, f, i)
      BY <1>8, <2>2
    <3>2. f \in 1 .. L /\ i \in f .. L
      BY <1>1
    <3> QED BY <1>1, <3>1, <3>2, PartOfFile
  <2> QED BY <2>1, <2>2
<1>11. mem \in Seq(Byte)
  BY <1>2, <1>10, <1>5
<1>12. a_extras' \in maybe_add_auto(mem)
  <2>2. maybe_add_auto(<<>>) = {a_extras}
    <3>1. Len(<<>>) \notin MIN_AUTO_EXTRA .. MAX_AUTO_EXTRA
      BY <1>7
    <3> QED BY <3>1 DEF maybe_add_auto
  <2>3. CASE final
    BY <1>5, <1>6, <2>3
  <2>4. CASE ~ final /\ ck # prev_cksum
    BY <1>5, <1>6, <2>4
  <2>5. CASE ~ final /\ ck = prev_cksum
    <3>1. mem = <<>> /\ a_extras' \in {a_extras}
      BY <1>5, <1>6, <2>5
    <3>2. maybe_add_auto(mem) = {a_extras}
      BY <2>2, <3>1
    <3> QED BY <3>1, <3>2
  <2> QED BY <2>3, <2>4, <2>5
<1>13. ASSUME Len(mem) \in TokenLens
      PROVE  mem \in Tokens
  <2>1. ~ (Len(mem) = 0 \/ Len(mem) = 1)
    <3>1. Len(mem) >= 2
      BY <1>7, <1>11, <1>13 DEF TokenLens
    <3>2. ~ (0 >= 2) /\ ~ (1 >= 2)
      OBVIOUS
    <3> QED BY <3>1, <3>2
  <2>2. prev_cksum # 0
    <3> SUFFICES ASSUME prev_cksum = 0 PROVE FALSE
      OBVIOUS
    <3>1. a_collect = <<>>
      BY <1>9
    <3>2. mem = <<>> \/ mem = Append(<<>>, byte)
      BY <1>5, <3>1
    <3>3. Len(mem) = 0 \/ Len(mem) = 1
      BY <1>2, <3>2
    <3> QED BY <2>1, <3>3
  <2>3. PICK f \in 1 .. i : /\ a_collect = SubSeq(orig_in, f, i)
                            /\ \A k \in f .. i : subject.lsb[k] = prev_cksum
                            /\ f > 1 => subject.lsb[f - 1] # prev_cksum
    BY <1>8, <2>2
  <2>4. f \in 1 .. L /\ i \in f .. L /\ i < L /\ f \in f .. i
    BY <1>1
  <2>5. /\ subject.lsb[f] = prev_cksum
        /\ f > 1 => subject.lsb[f - 1] # subject.lsb[f]
    BY <2>3, <2>4
  <2>6. /\ Len(a_collect) = i - f + 1
        /\ Append(a_collect, byte) = SubSeq(orig_in, f, i + 1)
    <3>1. f \in 1 .. Len(orig_in) /\ i \in f .. Len(orig_in)
          /\ i < Len(orig_in)
      BY <1>3, <2>4
    <3>2. /\ Len(SubSeq(orig_in, f, i)) = i - f + 1
          /\ Append(SubSeq(orig_in, f, i), orig_in[i + 1])
                 = SubSeq(orig_in, f, i + 1)
      BY <1>1, <3>1, PartOfFile
    <3> QED BY <1>3, <2>3, <3>2
  <2>7. CASE final
    <3>1. mem = SubSeq(orig_in, f, L) /\ i + 1 = L /\ ck = prev_cksum
      BY <1>1, <1>4, <1>5, <2>6, <2>7
    <3>2. Len(mem) = L - f + 1
      <4>1. L \in f .. L
        BY <1>1, <2>4
      <4> QED BY <1>1, <1>3, <2>4, <3>1, <4>1, PartOfFile
    <3>3. \A k \in f .. L : subject.lsb[k] = prev_cksum
      <4>1. \A k \in f .. L : k \in f .. i \/ k = i + 1
        BY <1>1, <2>4, <3>1
      <4> QED BY <1>3, <2>3, <3>1, <4>1
    <3>4. TokenAt(f, L)
      <4>1. \A k \in f .. L : subject.lsb[k] = subject.lsb[f]
                                 /\ subject.lsb[k] # 0
        BY <2>2, <2>5, <3>3
      <4>2. ~ (L < Len(orig_in))
        BY <1>1, <1>3
      <4> QED BY <1>13, <2>5, <3>2, <4>1, <4>2 DEF TokenAt
    <3> QED BY <1>1, <2>4, <3>1, <3>4, TokensAre
  <2>8. CASE ~ final
    <3>1. mem = a_collect /\ ck # prev_cksum
      <4>1. mem # <<>>
        <5>1. Len(<<>>) = 0
          OBVIOUS
        <5> QED BY <2>1, <5>1
      <4> QED BY <1>5, <2>8, <4>1
    <3>2. \A k \in f .. i : subject.lsb[k] = subject.lsb[f]
                              /\ subject.lsb[k] # 0
      BY <2>2, <2>3, <2>5
    <3>3. TokenAt(f, i)
      <4>1. subject.lsb[i + 1] # subject.lsb[f]
        BY <1>3, <2>5, <3>1
      <4> QED BY <1>13, <2>6, <2>5, <3>1, <3>2, <4>1 DEF TokenAt
    <3>4. f \in DOMAIN orig_in /\ i \in DOMAIN orig_in
      BY <1>1, <2>4
    <3>5. SubSeq(orig_in, f, i) \in Tokens
      BY <3>3, <3>4, TokensAre
    <3> QED BY <2>3, <3>1, <3>5
  <2> QED BY <2>7, <2>8
<1>14. Offered(a_extras, a_extras', mem)
  <2> HIDE DEF mem
  <2> QED BY <1>11, <1>12, <1>13, GiveToken
<1>15. ASSUME i + 1 < L
       PROVE  RunSoFar(i + 1, a_collect', prev_cksum')
  <2>1. /\ prev_cksum' = ck /\ ~ final
        /\ a_collect' = IF ck # 0
                        THEN Append(IF ck # prev_cksum THEN <<>>
                                    ELSE a_collect, byte)
                        ELSE IF ck # prev_cksum THEN <<>> ELSE a_collect
    <3>1. ~ (i + 1 = L)
      BY <1>1, <1>15
    <3>2. ~ final
      BY <1>4, <3>1
    <3> QED BY <1>6, <3>2
  <2>2. CASE ck = 0
    <3>1. a_collect' = <<>> /\ i + 1 # 0
      BY <1>1, <1>9, <2>1, <2>2
    <3> QED BY <1>3, <2>1, <2>2, <3>1 DEF RunSoFar
  <2>3. CASE ck # 0 /\ ck # prev_cksum
    <3>1. a_collect' = <<byte>>
      BY <1>2, <2>1, <2>3
    <3>2. SubSeq(orig_in, i + 1, i + 1) = <<byte>>
      BY <1>1, <1>3, PartOfFile
    <3>3. i + 1 > 1 => subject.lsb[(i + 1) - 1] # ck
      BY <1>1, <1>9, <2>3
    <3>4. \A k \in (i + 1) .. (i + 1) : subject.lsb[k] = ck
      BY <1>1, <1>3
    <3>5. i + 1 \in 1 .. i + 1 /\ i + 1 # 0
      BY <1>1
    <3>6. \E f \in 1 .. i + 1 :
              /\ a_collect' = SubSeq(orig_in, f, i + 1)
              /\ \A k \in f .. i + 1 : subject.lsb[k] = ck
              /\ f > 1 => subject.lsb[f - 1] # ck
      BY <3>1, <3>2, <3>3, <3>4, <3>5
    <3> QED BY <1>3, <2>1, <2>3, <3>5, <3>6 DEF RunSoFar
  <2>4. CASE ck # 0 /\ ck = prev_cksum
    <3>1. PICK f \in 1 .. i : /\ a_collect = SubSeq(orig_in, f, i)
                              /\ \A k \in f .. i : subject.lsb[k] = prev_cksum
                              /\ f > 1 => subject.lsb[f - 1] # prev_cksum
      BY <1>8, <2>4
    <3>2. f \in 1 .. L /\ i \in f .. L /\ i < L /\ f \in 1 .. i + 1
      BY <1>1
    <3>3. a_collect' = SubSeq(orig_in, f, i + 1)
      <4>1. Append(SubSeq(orig_in, f, i), orig_in[i + 1])
                = SubSeq(orig_in, f, i + 1)
        BY <1>1, <1>3, <3>2, PartOfFile
      <4>2. a_collect' = Append(a_collect, byte)
        BY <2>1, <2>4
      <4> QED BY <1>3, <3>1, <4>1, <4>2
    <3>4. \A k \in f .. i + 1 : subject.lsb[k] = ck
      <4>1. \A k \in f .. i + 1 : k \in f .. i \/ k = i + 1
        BY <1>1, <3>2
      <4> QED BY <1>3, <2>4, <3>1, <4>1
    <3>5. \E g \in 1 .. i + 1 :
              /\ a_collect' = SubSeq(orig_in, g, i + 1)
              /\ \A k \in g .. i + 1 : subject.lsb[k] = ck
              /\ g > 1 => subject.lsb[g - 1] # ck
      BY <2>4, <3>1, <3>2, <3>3, <3>4
    <3>6. i + 1 # 0
      BY <1>1
    <3> QED BY <1>3, <2>1, <2>4, <3>5, <3>6 DEF RunSoFar
  <2> QED BY <2>2, <2>3, <2>4
(* The tokens that end with the byte before this one.                      *)
<1>16. ASSUME Len(a_extras') < MAX_AUTO_EXTRAS
       PROVE  KnownUpTo(a_extras', i)
  <2>1. KnownUpTo(a_extras, i - 1) /\ HeldBy(a_extras, a_extras')
    <3>1. Len(a_extras) <= Len(a_extras') /\ HeldBy(a_extras, a_extras')
      BY <1>14, <1>16 DEF Offered
    <3>2. Len(a_extras) \in Nat /\ Len(a_extras') \in Nat
      BY <1>14 DEF IsDictionary, Offered
    <3>3. MAX_AUTO_EXTRAS \in Nat
      BY ConfigAssumption
    <3> QED BY <1>16, <3>1, <3>2, <3>3
  <2>2. KnownUpTo(a_extras', i - 1)
    BY <2>1, KnownStays
  <2> SUFFICES ASSUME NEW a \in DOMAIN orig_in, NEW b \in DOMAIN orig_in,
                      TokenAt(a, b), b <= i
               PROVE  \/ Rejected(SubSeq(orig_in, a, b))
                      \/ Known(a_extras', SubSeq(orig_in, a, b))
    BY DEF KnownUpTo
  <2>3. CASE b <= i - 1
    BY <2>2, <2>3 DEF KnownUpTo
  <2>4. CASE b = i
    <3>1. i \in DOMAIN orig_in /\ i < L /\ a <= i
      <4>1. b - a + 1 >= 2
        BY <1>1, <1>7 DEF TokenAt, TokenLens
      <4> QED BY <1>1, <2>4, <4>1
    <3>2. /\ a_collect = SubSeq(orig_in, a, i) /\ prev_cksum # 0
          /\ prev_cksum = subject.lsb[i]
      BY <2>4, <3>1, RunIsToken
    <3>3. ck # prev_cksum
      <4>1. subject.lsb[i] = subject.lsb[a]
        <5>1. i \in a .. b
          BY <1>1, <2>4, <3>1
        <5> QED BY <5>1 DEF TokenAt
      <4>2. ck # subject.lsb[a]
        <5>1. i < Len(orig_in)
          BY <1>3, <3>1
        <5> QED BY <1>3, <2>4, <5>1 DEF TokenAt
      <4> QED BY <3>2, <4>1, <4>2
    <3>4. mem = a_collect
      BY <1>4, <1>5, <3>3
    <3>5. Len(mem) \in TokenLens
      <4>1. Len(a_collect) = i - a + 1
        BY <1>1, <3>1, <3>2, PartOfFile
      <4> QED BY <2>4, <3>4, <4>1 DEF TokenAt
    <3>6. Rejected(mem) \/ Known(a_extras', mem)
      BY <1>14, <1>16, <3>5 DEF Offered
    <3> QED BY <2>4, <3>2, <3>4, <3>6
  <2> QED BY <1>1, <2>3, <2>4
(* The token at the end of the file.                                       *)
<1>17. ASSUME Len(a_extras') < MAX_AUTO_EXTRAS, ~ (i + 1 < L)
       PROVE  KnownUpTo(a_extras', L)
  <2>1. KnownUpTo(a_extras', i) /\ i + 1 = L
    BY <1>1, <1>16, <1>17
  <2> SUFFICES ASSUME NEW a \in DOMAIN orig_in, NEW b \in DOMAIN orig_in,
                      TokenAt(a, b), b <= L
               PROVE  \/ Rejected(SubSeq(orig_in, a, b))
                      \/ Known(a_extras', SubSeq(orig_in, a, b))
    BY DEF KnownUpTo
  <2>2. CASE b <= i
    BY <2>1, <2>2 DEF KnownUpTo
  <2>3. CASE b = L
    <3>1. a <= i
      <4>1. b - a + 1 >= 2
        BY <1>1, <1>7 DEF TokenAt, TokenLens
      <4> QED BY <1>1, <2>1, <2>3, <4>1
    <3>2. i \in DOMAIN orig_in /\ L \in {i, i + 1} /\ L \in DOMAIN orig_in
      BY <1>1, <2>1, <3>1
    <3>3. /\ a_collect = SubSeq(orig_in, a, i) /\ prev_cksum # 0
          /\ prev_cksum = subject.lsb[L]
      BY <2>3, <3>1, <3>2, RunIsToken
    <3>4. final
      BY <1>1, <1>3, <1>4, <2>1, <3>3
    <3>5. mem = SubSeq(orig_in, a, L)
      <4>1. a \in 1 .. L /\ i \in a .. L /\ i < L
        BY <1>1, <2>1, <3>1
      <4>2. Append(a_collect, byte) = SubSeq(orig_in, a, i + 1)
        BY <1>1, <1>3, <3>3, <4>1, PartOfFile
      <4> QED BY <1>5, <2>1, <3>4, <4>2
    <3>6. Len(mem) \in TokenLens
      <4>1. Len(mem) = L - a + 1
        BY <1>1, <3>5, PartOfFile
      <4> QED BY <2>3, <4>1 DEF TokenAt
    <3>7. Rejected(mem) \/ Known(a_extras', mem)
      BY <1>14, <1>17, <3>6 DEF Offered
    <3> QED BY <2>3, <3>5, <3>7
  <2> QED BY <1>1, <2>1, <2>2, <2>3
<1> QED BY <1>14, <1>15, <1>16, <1>17, <1>3 DEF Offered

(* A nonempty set of naturals has a least element: the intervals 0..x are  *)
(* finite sets, and strict inclusion is well founded on those.             *)
LEMMA LeastElement ==
    ASSUME NEW T \in SUBSET Nat, T # {}
    PROVE  \E x \in T : \A y \in T : x <= y
<1> DEFINE F == {0 .. x : x \in T}
<1>1. F \subseteq FiniteSubsetsOf(Nat)
  <2> SUFFICES ASSUME NEW x \in T PROVE 0 .. x \in FiniteSubsetsOf(Nat)
    OBVIOUS
  <2>1. IsFiniteSet(0 .. x)
    BY FS_Interval
  <2>2. 0 .. x \in SUBSET Nat
    OBVIOUS
  <2> QED BY <2>1, <2>2 DEF FiniteSubsetsOf
<1>2. F # {}
  OBVIOUS
<1>3. PICK X \in F : \A Y \in F : ~ (<<Y, X>> \in StrictSubsetOrdering(Nat))
  <2> HIDE DEF F
  <2> QED BY <1>1, <1>2, FS_StrictSubsetOrderingWellFounded, WFMin
<1>4. PICK x \in T : X = 0 .. x
  BY <1>3
<1>5. ASSUME NEW y \in T, y < x PROVE FALSE
  <2> DEFINE Y == 0 .. y
  <2>1. Y \in F
    OBVIOUS
  <2>2. Y \subseteq X /\ Y # X
    BY <1>4, <1>5
  <2>3. Y \in SUBSET Nat /\ X \in SUBSET Nat
    BY <1>4
  <2>4. <<Y, X>> \in StrictSubsetOrdering(Nat)
    <3> HIDE DEF Y, F
    <3> QED BY <2>2, <2>3 DEF StrictSubsetOrdering
  <2> HIDE DEF Y, F
  <2> QED BY <1>3, <2>1, <2>4
<1> QED BY <1>5

(* Induction for a set of naturals.                                        *)
LEMMA SetInduction ==
    ASSUME NEW T \in SUBSET Nat, 0 \in T, \A n \in T : n + 1 \in T
    PROVE  T = Nat
<1> SUFFICES ASSUME Nat \ T # {} PROVE FALSE
  OBVIOUS
<1>1. PICK m \in Nat \ T : \A y \in Nat \ T : m <= y
  BY LeastElement
<1>2. m - 1 \in Nat
  BY <1>1
<1>3. m - 1 \in T
  BY <1>1, <1>2
<1> QED BY <1>1, <1>3

-----------------------------------------------------------------------------
(* Loops.                                                                  *)

(* What holds at first and is kept by every step holds throughout.         *)
LEMMA UpTo ==
    ASSUME NEW N \in Nat, NEW T \in SUBSET (0 .. N), 0 \in T,
           \A n \in 1 .. N : n - 1 \in T => n \in T
    PROVE  T = 0 .. N
<1> DEFINE U == {n \in Nat : n <= N => n \in T}
<1>1. 0 \in U
  OBVIOUS
<1>2. ASSUME NEW n \in U PROVE n + 1 \in U
  <2> SUFFICES ASSUME n + 1 <= N PROVE n + 1 \in T
    OBVIOUS
  <2>1. n + 1 \in 1 .. N /\ (n + 1) - 1 \in T
    OBVIOUS
  <2> QED BY <2>1
<1>3. U = Nat
  <2> HIDE DEF U
  <2>1. U \in SUBSET Nat
    BY DEF U
  <2> QED BY <1>1, <1>2, <2>1, SetInduction
<1>4. ASSUME NEW n \in 0 .. N PROVE n \in T
  <2>1. n \in U
    BY <1>3
  <2> QED BY <2>1
<1> QED BY <1>4

(* f holds the values of N steps from c.                                   *)
IsLoop(f, N, c, step) ==
    /\ f = [n \in 0 .. N |-> f[n]] /\ f[0] = c
    /\ \A n \in 1 .. N : f[n] = step[n][f[n - 1]]

(* They exist, and are of the type that the steps keep.                    *)
LEMMA LoopExists ==
    ASSUME NEW N \in Nat, NEW c, NEW step
    PROVE  \E f : IsLoop(f, N, c, step)
<1> DEFINE T == {m \in Nat : \E f : IsLoop(f, m, c, step)}
<1>1. 0 \in T
  <2> DEFINE f == [n \in 0 .. 0 |-> c]
  <2>1. IsLoop(f, 0, c, step)
    BY DEF IsLoop
  <2> HIDE DEF f
  <2> QED BY <2>1
<1>2. ASSUME NEW m \in T PROVE m + 1 \in T
  <2>1. PICK f : IsLoop(f, m, c, step)
    OBVIOUS
  <2> DEFINE g == [n \in 0 .. m + 1 |->
                     IF n = m + 1 THEN step[n][f[m]] ELSE f[n]]
  <2>2. m \in Nat
    OBVIOUS
  <2>3. \A n \in 0 .. m : g[n] = f[n]
    BY <2>2
  <2>4. g[m + 1] = step[m + 1][f[m]]
    BY <2>2
  <2>5. g = [n \in 0 .. m + 1 |-> g[n]]
    OBVIOUS
  <2> HIDE DEF g
  <2>6. g[0] = c
    BY <2>1, <2>2, <2>3 DEF IsLoop
  <2>7. ASSUME NEW n \in 1 .. m + 1 PROVE g[n] = step[n][g[n - 1]]
    <3>1. CASE n = m + 1
      <4>1. g[m] = f[m] /\ n - 1 = m
        BY <2>2, <2>3, <3>1
      <4> QED BY <2>4, <3>1, <4>1
    <3>2. CASE n # m + 1
      <4>1. n \in 1 .. m /\ n \in 0 .. m /\ n - 1 \in 0 .. m
        BY <2>2, <3>2
      <4>2. f[n] = step[n][f[n - 1]]
        BY <2>1, <4>1 DEF IsLoop
      <4> QED BY <2>3, <4>1, <4>2
    <3> QED BY <3>1, <3>2
  <2>8. IsLoop(g, m + 1, c, step)
    BY <2>5, <2>6, <2>7 DEF IsLoop
  <2> QED BY <2>2, <2>8
<1>3. T = Nat
  <2> HIDE DEF T
  <2>1. T \in SUBSET Nat
    BY DEF T
  <2> QED BY <1>1, <1>2, <2>1, SetInduction
<1> QED BY <1>3

(* A loop stays in a set that its step does not leave.                    *)
LEMMA LoopType ==
    ASSUME NEW N \in Nat, NEW c, NEW step, NEW f, IsLoop(f, N, c, step),
           NEW T, c \in T,
           \A n \in 1 .. N : \A v \in T : step[n][v] \in T
    PROVE  \A n \in 0 .. N : f[n] \in T
<1> DEFINE U == {n \in 0 .. N : f[n] \in T}
<1>1. 0 \in U
  BY DEF IsLoop
<1>2. ASSUME NEW n \in 1 .. N, n - 1 \in U PROVE n \in U
  <2>1. n \in 0 .. N /\ f[n - 1] \in T
    BY <1>2
  <2>2. f[n] = step[n][f[n - 1]]
    BY DEF IsLoop
  <2> QED BY <2>1, <2>2
<1>3. U = 0 .. N
  <2> HIDE DEF U
  <2>1. U \in SUBSET (0 .. N)
    BY DEF U
  <2> QED BY <1>1, <1>2, <2>1, UpTo
<1> QED BY <1>3

-----------------------------------------------------------------------------
(* Tokens written over each other.                                         *)

Marks == [buf : Seq(Byte), last : Nat, runs : SUBSET Seq(Byte)]

(* A word written into a buffer.                                           *)
IsPut(new, buf, p, word) ==
    /\ new \in Seq(Byte) /\ Len(new) = Len(buf)
    /\ \A k \in 1 .. Len(buf) :
           new[k] = IF k - p \in 1 .. Len(word) THEN word[k - p] ELSE buf[k]

(* What Put returns.                                                       *)
LEMMA PutFacts ==
    ASSUME NEW buf \in Seq(Byte), NEW p \in Nat, NEW word \in Seq(Byte)
    PROVE  IsPut(Put(buf, p, word), buf, p, word)
<1>1. \A k \in 1 .. Len(buf) :
          (IF k - p \in 1 .. Len(word) THEN word[k - p] ELSE buf[k]) \in Byte
  OBVIOUS
<1> QED BY <1>1 DEF Put, IsPut

(* Writing a token keeps the types.                                        *)
LEMMA OverType ==
    ASSUME i \in Nat, NEW st \in Marks, NEW token \in Seq(Byte)
    PROVE  Over(st, token) \in Marks
<1>1. st.buf \in Seq(Byte) /\ st.runs \in SUBSET Seq(Byte)
  BY DEF Marks
<1>2. Put(st.buf, i, token) \in Seq(Byte) /\ Len(token) \in Nat
  BY <1>1, PutFacts DEF IsPut
<1> HIDE DEF Marks
<1>3. [buf |-> Put(st.buf, i, token), last |-> Len(token),
       runs |-> st.runs \union {Put(st.buf, i, token)}] \in Marks
  BY <1>1, <1>2 DEF Marks
<1> QED BY <1>3 DEF Over

(* The loop over the tokens.                                               *)
LEMMA OverwriteLoop ==
    ASSUME i \in Nat, out_buf \in Seq(Byte), NEW tokens \in Seq(Seq(Byte))
    PROVE  \E f : /\ Overwrite(tokens) = f[Len(tokens)]
                  /\ f[0] = [buf |-> out_buf, last |-> 0, runs |-> {}]
                  /\ \A k \in 1 .. Len(tokens) :
                         f[k] = Over(f[k - 1], tokens[k])
                  /\ \A k \in 0 .. Len(tokens) : f[k] \in Marks
<1> DEFINE N == Len(tokens)
           c == [buf |-> out_buf, last |-> 0, runs |-> {}]
           eq(f) == [k \in 0 .. N |->
                       IF k = 0 THEN c ELSE Over(f[k - 1], tokens[k])]
           step == [k \in 1 .. N |->
                      [st \in Marks |-> Over(st, tokens[k])]]
<1>0. N \in Nat /\ c \in Marks
  BY DEF Marks
<1>1. \A k \in 1 .. N : \A st \in Marks :
        step[k][st] = Over(st, tokens[k]) /\ step[k][st] \in Marks
  BY OverType
<1> HIDE DEF step, N, c
<1>2. PICK f : IsLoop(f, N, c, step)
  BY <1>0, LoopExists
<1>3. \A k \in 0 .. N : f[k] \in Marks
  BY <1>0, <1>1, <1>2, LoopType
<1>4. ASSUME NEW k \in 1 .. N
      PROVE  f[k] = Over(f[k - 1], tokens[k])
  <2>1. k - 1 \in 0 .. N
    BY <1>0
  <2> QED BY <1>1, <1>2, <1>3, <2>1 DEF IsLoop
<1>5. f = eq(f)
  <2>1. f = [k \in 0 .. N |-> f[k]] /\ f[0] = c
    BY <1>2 DEF IsLoop
  <2>2. \A k \in 0 .. N : k # 0 => k \in 1 .. N
    BY <1>0
  <2>3. \A k \in 0 .. N :
          f[k] = IF k = 0 THEN c ELSE Over(f[k - 1], tokens[k])
    BY <1>4, <2>1, <2>2
  <2> QED BY <2>1, <2>3
<1> DEFINE over == CHOOSE g : g = eq(g)
<1>6. over = eq(over)
  BY <1>5
<1>7. Overwrite(tokens) = over[N]
  BY DEF Overwrite, N, c
<1>8. \A k \in 0 .. N :
        eq(over)[k] = IF k = 0 THEN c ELSE Over(over[k - 1], tokens[k])
  OBVIOUS
<1>9. 0 \in 0 .. N /\ \A k \in 1 .. N : k \in 0 .. N /\ k # 0
  BY <1>0
<1> HIDE DEF over, eq
<1>10. /\ over[0] = c
       /\ \A k \in 1 .. N : over[k] = Over(over[k - 1], tokens[k])
  BY <1>6, <1>8, <1>9
<1>11. \A k \in 0 .. N : over[k] \in Marks
  <2> DEFINE U == {k \in 0 .. N : over[k] \in Marks}
  <2>1. 0 \in U
    BY <1>0, <1>10
  <2>2. ASSUME NEW k \in 1 .. N, k - 1 \in U PROVE k \in U
    <3>1. k \in 0 .. N /\ over[k - 1] \in Marks
      BY <1>0, <2>2
    <3>2. tokens[k] \in Seq(Byte)
      BY DEF N
    <3>3. over[k] \in Marks
      BY <1>10, <3>1, <3>2, OverType
    <3> QED BY <3>1, <3>3
  <2>3. U = 0 .. N
    <3>1. U \in SUBSET (0 .. N)
      OBVIOUS
    <3> HIDE DEF U
    <3> QED BY <1>0, <2>1, <2>2, <3>1, UpTo
  <2> QED BY <2>3
<1> QED BY <1>7, <1>10, <1>11 DEF N, c

(* The tokens of a list are ordered by size.                               *)
BySizes(tokens) ==
    \A j, k \in DOMAIN tokens : j < k => Len(tokens[j]) <= Len(tokens[k])

(* Where the tokens written so far did not reach, the buffer is the input; *)
(* the last one reaches farthest.                                          *)
Reached(st, tokens, k) ==
    /\ st \in Marks /\ Len(st.buf) = len /\ i + st.last <= len
    /\ \A p \in 1 .. len : p - i \in 1 .. st.last \/ st.buf[p] = in_buf[p]
    /\ st.last = 0 \/ \E j \in 1 .. k : st.last = Len(tokens[j])

(* In every round of the loop.                                             *)
LEMMA OverwriteReaches ==
    ASSUME i \in 0 .. len, in_buf \in Seq(Byte), out_buf = in_buf,
           NEW tokens \in Seq(Seq(Byte)), BySizes(tokens)
    PROVE  \E f : /\ Overwrite(tokens) = f[Len(tokens)]
                  /\ f[0] = [buf |-> out_buf, last |-> 0, runs |-> {}]
                  /\ \A k \in 1 .. Len(tokens) :
                         f[k] = Over(f[k - 1], tokens[k])
                  /\ \A k \in 0 .. Len(tokens) : Reached(f[k], tokens, k)
<1> DEFINE N == Len(tokens)
<1>0. len \in Nat /\ i \in Nat /\ i <= len /\ N \in Nat
      /\ DOMAIN tokens = 1 .. N
  BY DEF len
<1>1. PICK f : /\ Overwrite(tokens) = f[N]
               /\ f[0] = [buf |-> out_buf, last |-> 0, runs |-> {}]
               /\ \A k \in 1 .. N : f[k] = Over(f[k - 1], tokens[k])
               /\ \A k \in 0 .. N : f[k] \in Marks
  BY <1>0, OverwriteLoop
<1>2. \A k \in 0 .. N : Reached(f[k], tokens, k)
  <2> DEFINE U == {k \in 0 .. N : Reached(f[k], tokens, k)}
  <2>1. 0 \in U
    <3>1. 0 \in 0 .. N /\ f[0] \in Marks
      BY <1>0, <1>1
    <3>2. f[0].buf = in_buf /\ f[0].last = 0
      BY <1>1
    <3>3. Reached(f[0], tokens, 0)
      BY <1>0, <3>1, <3>2 DEF Reached, len
    <3> QED BY <3>1, <3>3
  <2>2. ASSUME NEW k \in 1 .. N, k - 1 \in U PROVE k \in U
    <3> DEFINE st == f[k - 1]
               new == f[k]
               token == tokens[k]
    <3>1. /\ k \in Nat /\ k \in 0 .. N /\ k \in DOMAIN tokens
          /\ k - 1 \in Nat
      BY <1>0
    <3>2. new = Over(st, token) /\ token \in Seq(Byte) /\ Len(token) \in Nat
      BY <1>1, <3>1
    <3>3. Reached(st, tokens, k - 1) /\ new \in Marks
      BY <1>1, <2>2, <3>1
    <3>4. st.buf \in Seq(Byte) /\ st.last \in Nat /\ Len(st.buf) = len
      BY <3>3 DEF Reached, Marks
    <3> HIDE DEF st, new
    <3>5. CASE new = st
      <4>1. st.last = 0 \/ \E j \in 1 .. k : st.last = Len(tokens[j])
        BY <3>1, <3>3 DEF Reached
      <4>2. Reached(new, tokens, k)
        BY <3>3, <3>5, <4>1 DEF Reached
      <4> QED BY <3>1, <4>2 DEF new
    <3>6. CASE new # st
      <4>1. /\ ~ (Len(token) > len - i)
            /\ new = [buf |-> Put(st.buf, i, token), last |-> Len(token),
                      runs |-> st.runs \union {Put(st.buf, i, token)}]
        BY <3>2, <3>6 DEF Over
      <4>2. new.buf = Put(st.buf, i, token) /\ new.last = Len(token)
        BY <4>1
      <4>3. st.last <= Len(token)
        <5>1. CASE st.last = 0
          BY <3>2, <5>1
        <5>2. CASE st.last # 0
          <6>1. PICK j \in 1 .. k - 1 : st.last = Len(tokens[j])
            BY <3>3, <5>2 DEF Reached
          <6>2. j \in DOMAIN tokens /\ j < k
            BY <1>0, <3>1
          <6> QED BY <3>1, <6>1, <6>2 DEF BySizes
        <5> QED BY <5>1, <5>2
      <4>4. /\ Len(new.buf) = len
            /\ \A p \in 1 .. len :
                   new.buf[p] = IF p - i \in 1 .. Len(token)
                                THEN token[p - i] ELSE st.buf[p]
        <5> HIDE DEF token
        <5>1. IsPut(Put(st.buf, i, token), st.buf, i, token)
          BY <1>0, <3>2, <3>4, PutFacts
        <5> QED BY <3>4, <4>2, <5>1 DEF IsPut
      <4>5. ASSUME NEW p \in 1 .. len, p - i \notin 1 .. Len(token)
            PROVE  new.buf[p] = in_buf[p]
        <5>1. p - i \notin 1 .. st.last
          BY <1>0, <3>2, <3>4, <4>3, <4>5
        <5> QED BY <3>3, <4>4, <4>5, <5>1 DEF Reached
      <4>6. i + Len(token) <= len
        BY <1>0, <3>2, <4>1
      <4>7. Reached(new, tokens, k)
        BY <3>1, <3>3, <4>2, <4>4, <4>5, <4>6 DEF Reached
      <4> QED BY <3>1, <4>7 DEF new
    <3> QED BY <3>5, <3>6
  <2>3. U = 0 .. N
    <3>1. U \in SUBSET (0 .. N)
      OBVIOUS
    <3> HIDE DEF U, N
    <3> QED BY <1>0, <2>1, <2>2, <3>1, UpTo
  <2> QED BY <2>3
<1> QED BY <1>1, <1>2 DEF N

(* A word that begins behind a and has b bytes.                            *)
LEMMA WordEnds ==
    ASSUME NEW a \in Nat, NEW b \in Nat
    PROVE  /\ (a + b) - (a + 1) + 1 = b
           /\ \A q \in 1 .. b : (a + 1) + q - 1 = a + q
           /\ a + 1 <= a + b \/ b = 0
OBVIOUS

(* Restoring as many bytes as the last token has restores the input.       *)
LEMMA OverwriteRestored ==
    ASSUME i \in 0 .. len, in_buf \in Seq(Byte), out_buf = in_buf,
           NEW tokens \in Seq(Seq(Byte)), BySizes(tokens)
    PROVE  Restore(Overwrite(tokens)) = in_buf
<1> DEFINE N == Len(tokens)
<1>0. len \in Nat /\ i \in Nat /\ i <= len /\ N \in Nat
  BY DEF len
<1>1. PICK f : /\ Overwrite(tokens) = f[N]
               /\ \A k \in 0 .. N : Reached(f[k], tokens, k)
  BY OverwriteReaches
<1> DEFINE st == f[N]
           old == WordAt(in_buf, i, st.last)
<1>3. Reached(st, tokens, N)
  BY <1>0, <1>1
<1>4. /\ st.buf \in Seq(Byte) /\ st.last \in Nat /\ Len(st.buf) = len
      /\ i + st.last <= len
  BY <1>3 DEF Reached, Marks
<1> HIDE DEF st
<1>5. /\ old \in Seq(Byte) /\ Len(old) = st.last
      /\ \A q \in 1 .. st.last : old[q] = in_buf[i + q]
  <2>1. \A q \in i + 1 .. i + st.last : in_buf[q] \in Byte
    BY <1>0, <1>4 DEF len
  <2>2. /\ old \in Seq(Byte)
        /\ Len(old) = IF i + 1 <= i + st.last
                      THEN (i + st.last) - (i + 1) + 1 ELSE 0
        /\ \A q \in 1 .. (i + st.last) - (i + 1) + 1 :
               old[q] = in_buf[(i + 1) + q - 1]
    <3>1. i + 1 \in Int /\ i + st.last \in Int
      BY <1>0, <1>4
    <3> QED BY <2>1, <3>1, SubSeqProperties DEF WordAt
  <2> HIDE DEF old
  <2>3. i \in Nat /\ st.last \in Nat
    BY <1>0, <1>4
  <2>4. /\ (i + st.last) - (i + 1) + 1 = st.last
        /\ \A q \in 1 .. st.last : (i + 1) + q - 1 = i + q
        /\ i + 1 <= i + st.last \/ st.last = 0
    BY <2>3, WordEnds
  <2> QED BY <2>2, <2>4
<1> HIDE DEF old
<1>6. /\ Put(st.buf, i, old) \in Seq(Byte)
      /\ Len(Put(st.buf, i, old)) = len
      /\ \A p \in 1 .. len :
             Put(st.buf, i, old)[p] = IF p - i \in 1 .. st.last
                                      THEN old[p - i] ELSE st.buf[p]
  <2>1. IsPut(Put(st.buf, i, old), st.buf, i, old)
    BY <1>0, <1>4, <1>5, PutFacts
  <2> QED BY <1>4, <1>5, <2>1 DEF IsPut
<1>7. \A p \in 1 .. len : Put(st.buf, i, old)[p] = in_buf[p]
  <2> SUFFICES ASSUME NEW p \in 1 .. len
               PROVE  Put(st.buf, i, old)[p] = in_buf[p]
    OBVIOUS
  <2>1. CASE p - i \in 1 .. st.last
    <3>1. old[p - i] = in_buf[i + (p - i)] /\ i + (p - i) = p
      BY <1>0, <1>5, <2>1
    <3> QED BY <1>6, <2>1, <3>1
  <2>2. CASE p - i \notin 1 .. st.last
    BY <1>3, <1>6, <2>2 DEF Reached
  <2> QED BY <2>1, <2>2
<1>8. Put(st.buf, i, old) = in_buf
  BY <1>6, <1>7, SeqEqual DEF len
<1> QED BY <1>1, <1>8 DEF Restore, st, old

-----------------------------------------------------------------------------
(* Numbers.                                                                *)

(* A buffer's last byte is in the last block of the effector map.          *)
LEMMA BlockInMap ==
    ASSUME NEW n \in Nat, NEW p \in Nat, p < n
    PROVE  EFF_APOS(p) \in 0 .. EFF_ALEN(n) - 1 /\ EFF_ALEN(n) \in Nat
<1> DEFINE S == 2^EFF_MAP_SCALE2
<1>1. S \in Int /\ S >= 1
  BY ConfigAssumption
<1> HIDE DEF S
<1>2. S \in Nat /\ n - 1 \in Nat /\ p <= n - 1
  BY <1>1
<1>3. (n - 1) \div S \in Nat /\ p \div S \in Nat
      /\ p \div S <= (n - 1) \div S
  BY <1>1, <1>2
<1>4. ((n - 1) + S) \div S = (n - 1) \div S + 1
  BY <1>1, <1>2
<1>5. (n - 1) + S = n + S - 1
  BY <1>2
<1>6. EFF_ALEN(n) = (n - 1) \div S + 1 /\ EFF_APOS(p) = p \div S
  BY <1>4, <1>5 DEF EFF_ALEN, EFF_APOS, S
<1> QED BY <1>3, <1>6

(* A block is not empty and not longer than its limit or the longest.      *)
LEMMA BlockLensFacts ==
    ASSUME subject \in Subjects, NEW limit \in Nat,
           NEW n \in BlockLens(limit)
    PROVE  n \in Nat /\ n >= 1 /\ n <= limit /\ n <= HAVOC_BLK_XL
<1> DEFINE span(c) == CASE c = 0 -> <<1, HAVOC_BLK_SMALL>>
                         [] c = 1 -> <<HAVOC_BLK_SMALL, HAVOC_BLK_MEDIUM>>
                         [] c = 2 -> <<HAVOC_BLK_MEDIUM, HAVOC_BLK_LARGE>>
                         [] c = 3 -> <<HAVOC_BLK_LARGE, HAVOC_BLK_XL>>
<1>1. /\ {HAVOC_BLK_SMALL, HAVOC_BLK_MEDIUM, HAVOC_BLK_LARGE, HAVOC_BLK_XL}
            \subseteq Nat
      /\ HAVOC_BLK_SMALL >= 1 /\ HAVOC_BLK_SMALL <= HAVOC_BLK_MEDIUM
      /\ HAVOC_BLK_MEDIUM <= HAVOC_BLK_LARGE
      /\ HAVOC_BLK_LARGE <= HAVOC_BLK_XL
  BY ConfigAssumption
<1>2. ASSUME NEW c \in 0 .. 3
      PROVE  /\ span(c)[1] \in Nat /\ span(c)[1] >= 1
             /\ span(c)[2] \in Nat /\ span(c)[2] <= HAVOC_BLK_XL
  <2>1. c = 0 \/ c = 1 \/ c = 2 \/ c = 3
    OBVIOUS
  <2>2. CASE c = 0
    BY <1>1, <2>2
  <2>3. CASE c = 1
    BY <1>1, <2>3
  <2>4. CASE c = 2
    BY <1>1, <2>4
  <2>5. CASE c = 3
    BY <1>1, <2>5
  <2> QED BY <2>1, <2>2, <2>3, <2>4, <2>5
<1> DEFINE rlim == IF subject.run_over10m
                   THEN Smaller(subject.queue_cycle, 3) ELSE 1
           cases == IF rlim = 3 THEN 0 .. 3 ELSE 0 .. rlim - 1
           from(c) == IF span(c)[1] >= limit THEN 1 ELSE span(c)[1]
           of(c) == from(c) .. Smaller(span(c)[2], limit)
<1>3. BlockLens(limit) = UNION {of(c) : c \in cases}
  BY DEF BlockLens, choose_block_len
<1>4. PICK c \in cases : n \in of(c)
  <2> HIDE DEF of, cases
  <2> QED BY <1>3
<1>5. c \in 0 .. 3
  <2>1. subject.queue_cycle \in Nat
    BY SubjectAssumption
  <2>2. rlim \in 0 .. 3
    BY <2>1 DEF Smaller
  <2> HIDE DEF rlim
  <2>3. cases \subseteq 0 .. 3
    BY <2>2
  <2> QED BY <2>3
<1>6. /\ from(c) \in Nat /\ from(c) >= 1
      /\ span(c)[2] \in Nat /\ span(c)[2] <= HAVOC_BLK_XL
  BY <1>2, <1>5
<1> HIDE DEF from, span
<1>7. Smaller(span(c)[2], limit) <= limit
      /\ Smaller(span(c)[2], limit) <= span(c)[2]
      /\ Smaller(span(c)[2], limit) \in Nat
  BY <1>6 DEF Smaller
<1>8. n \in from(c) .. Smaller(span(c)[2], limit)
  BY <1>4
<1>9. n \in Nat /\ n >= from(c) /\ n <= Smaller(span(c)[2], limit)
  BY <1>6, <1>7, <1>8
<1> QED BY <1>1, <1>6, <1>7, <1>9

(* The score of an entry is limited.                                       *)
LEMMA EntryScore ==
    ASSUME NEW o \in Subjects, NEW e \in o.scores, NEW h \in Nat
    PROVE  /\ calculate_score(e, h) \in Nat
           /\ calculate_score(e, h) <= HAVOC_MAX_MULT * 100
           /\ HandicapLeft(h) \in Nat
<1>1. /\ {e.speed, e.depth} \subseteq Nat
      /\ {e.size, e.power} \subseteq Nat \X (Nat \ {0})
  BY SubjectAssumption
<1>2. HAVOC_MAX_MULT * 100 \in Nat
  BY ConfigAssumption
<1> DEFINE sized == (e.speed * e.size[1]) \div e.size[2]
           kept == sized * (IF h >= 4 THEN 4 ELSE IF h > 0 THEN 2 ELSE 1)
           deep == kept * (CASE e.depth \in 0 .. 3   -> 1
                             [] e.depth \in 4 .. 7   -> 2
                             [] e.depth \in 8 .. 13  -> 3
                             [] e.depth \in 14 .. 25 -> 4
                             [] OTHER                -> 5)
           score == (deep * e.power[1]) \div e.power[2]
<1>3. sized \in Nat
  <2>1. /\ e.speed \in Nat /\ e.size[1] \in Nat
        /\ e.size[2] \in Nat /\ e.size[2] >= 1
    BY <1>1
  <2>2. e.speed * e.size[1] \in Nat
    BY <2>1
  <2> QED BY <2>1, <2>2
<1> HIDE DEF sized
<1>4. kept \in Nat
  BY <1>3
<1> HIDE DEF kept
<1>5. deep \in Nat
  <2>1. (CASE e.depth \in 0 .. 3   -> 1
           [] e.depth \in 4 .. 7   -> 2
           [] e.depth \in 8 .. 13  -> 3
           [] e.depth \in 14 .. 25 -> 4
           [] OTHER                -> 5) \in Nat
    OBVIOUS
  <2> QED BY <1>4, <2>1
<1> HIDE DEF deep
<1>6. score \in Nat
  <2>1. e.power[1] \in Nat /\ e.power[2] \in Nat /\ e.power[2] >= 1
    BY <1>1
  <2>2. deep * e.power[1] \in Nat
    BY <1>5, <2>1
  <2> QED BY <2>1, <2>2
<1>7. calculate_score(e, h) = Smaller(score, HAVOC_MAX_MULT * 100)
  BY DEF calculate_score, score, deep, kept, sized
<1> HIDE DEF score
<1>8. HandicapLeft(h) \in Nat
  BY DEF HandicapLeft
<1> QED BY <1>2, <1>6, <1>7, <1>8 DEF Smaller

(* Where a file may be split, both files have a byte before and behind.    *)
LEMMA SplitFacts ==
    ASSUME IsFile(orig_in), NEW target, IsFile(target),
           NEW p \in SplitAt(target)
    PROVE  /\ p \in Nat /\ p < Len(target) /\ p < Len(orig_in)
           /\ \E q \in p + 1 .. Len(orig_in) :
                  q <= Len(target) /\ target[q] # orig_in[q]
<1> DEFINE m == Smaller(Len(orig_in), Len(target))
           diffs == {k \in 0 .. m - 1 : orig_in[k + 1] # target[k + 1]}
           d1 == CHOOSE x \in diffs : \A q \in diffs : x <= q
           d2 == CHOOSE x \in diffs : \A q \in diffs : x >= q
           d == locate_diffs(orig_in, target)
<1>1. /\ Len(orig_in) \in Nat /\ Len(target) \in Nat
      /\ m \in Nat /\ m <= Len(orig_in) /\ m <= Len(target)
  BY DEF IsFile, Smaller
<1>2. diffs # {} /\ d = <<d1, d2>> /\ p \in d1 .. d2 - 1
  <2>1. ~ (d[1] < 0) /\ p \in d[1] .. d[2] - 1
    BY DEF SplitAt
  <2>2. d = IF diffs = {} THEN <<-1, -1>> ELSE <<d1, d2>>
    BY DEF locate_diffs
  <2> HIDE DEF d, d1, d2, diffs
  <2>3. diffs # {}
    <3>1. diffs = {} => d[1] = -1
      BY <2>2
    <3> QED BY <2>1, <3>1
  <2>4. d = <<d1, d2>> /\ d[1] = d1 /\ d[2] = d2
    BY <2>2, <2>3
  <2> QED BY <2>1, <2>3, <2>4
<1>3. d1 \in diffs /\ d2 \in diffs
  <2>1. diffs \in SUBSET Nat /\ IsFiniteSet(diffs)
    <3>1. IsFiniteSet(0 .. m - 1)
      BY <1>1, FS_Interval
    <3>2. diffs \in SUBSET (0 .. m - 1)
      OBVIOUS
    <3> HIDE DEF diffs
    <3>3. IsFiniteSet(diffs)
      BY <3>1, <3>2, FS_Subset
    <3> QED BY <3>2, <3>3
  <2>2. \E x \in diffs : \A q \in diffs : x <= q
    <3> HIDE DEF diffs
    <3> QED BY <1>2, <2>1, LeastElement
  <2>3. \E x \in diffs : \A q \in diffs : x >= q
    <3> DEFINE U == {m - x : x \in diffs}
    <3>1. U \in SUBSET Nat /\ U # {}
      BY <1>1, <1>2
    <3>2. PICK u \in U : \A y \in U : u <= y
      <4> HIDE DEF U
      <4> QED BY <3>1, LeastElement
    <3>3. PICK x \in diffs : u = m - x
      OBVIOUS
    <3>4. ASSUME NEW q \in diffs PROVE x >= q
      <4>1. m - q \in U
        OBVIOUS
      <4>2. m - x <= m - q
        BY <3>2, <3>3, <4>1
      <4> QED BY <1>1, <2>1, <4>2
    <3> QED BY <3>4
  <2> HIDE DEF diffs
  <2> QED BY <2>2, <2>3
<1> HIDE DEF d1, d2
<1>4. /\ d1 \in Nat /\ d2 \in Nat /\ d2 < m
      /\ orig_in[d2 + 1] # target[d2 + 1]
  BY <1>1, <1>3
<1> HIDE DEF m, diffs, d
<1>5. /\ p \in Nat /\ p < d2 /\ d2 + 1 \in p + 1 .. Len(orig_in)
      /\ d2 + 1 <= Len(target)
  BY <1>1, <1>2, <1>4
<1> QED BY <1>1, <1>4, <1>5

-----------------------------------------------------------------------------
(* The inductive invariant.                                                *)

WalkStages ==
    {"flip1", "flip2", "flip4", "flip8", "flip16", "flip32", "arith8",
     "arith16", "arith32", "int8", "int16", "int32", "ext_UO", "ext_UI",
     "ext_AO"}

HavocStages == {"havoc", "stack", "mutate", "splice"}

(* Which positions a stage has.                                            *)
Place ==
    /\ stage \in {"start", "mark"} \union WalkStages \union HavocStages
    /\ i \in 0 .. len
    /\ stage \in WalkStages \ {"ext_UI"} => i < len
    /\ stage \notin WalkStages => i = 0

(* The dictionary, and where its collection is.                            *)
DictionaryFacts ==
    /\ IsDictionary(a_extras) /\ OnlyTokens(a_extras)
    /\ stage = "flip1" /\ ~subject.dumb_mode =>
           /\ RunSoFar(i, a_collect, prev_cksum)
           /\ Len(a_extras) < MAX_AUTO_EXTRAS => KnownUpTo(a_extras, i - 1)
    /\ stage = "flip2" /\ ~subject.dumb_mode
           /\ Len(a_extras) < MAX_AUTO_EXTRAS
           => KnownUpTo(a_extras, Len(orig_in))

Buffers ==
    /\ IsFile(in_buf)
    /\ stage \notin HavocStages => in_buf = orig_in
    /\ \/ out_buf = in_buf
       \/ stage = "mutate" /\ out_buf = Mangled
       \/ stage = "splice" /\ IsFile(out_buf)
    /\ eff_map \in SUBSET (0 .. EFF_ALEN(Len(orig_in)) - 1)

FuzzNumbers ==
    /\ calls \in Nat /\ handicap \in Nat /\ perf_score \in Nat
    /\ orig_perf \in Nat /\ stage_cur \in Nat /\ stage_max \in Nat
    /\ left \in Nat /\ temp_len \in Nat /\ alloc \in Nat
    /\ splice_cycle \in 0 .. SPLICE_CYCLES

FileTypes ==
    files \in Seq(Seq(Byte)) /\ \A t \in DOMAIN files : IsFile(files[t])

FuzzShape ==
    /\ subject \in Subjects
    /\ Place /\ DictionaryFacts /\ Buffers
    /\ FuzzNumbers /\ FileTypes /\ BufferFits

(* The entry.                                                              *)
LEMMA OrigIsFile ==
    ASSUME subject \in Subjects
    PROVE  IsFile(orig_in) /\ Len(orig_in) \in Nat /\ Len(orig_in) >= 1
<1>1. IsFile(orig_in)
  BY SubjectAssumption DEF orig_in
<1> QED BY <1>1 DEF IsFile

(* A stage is followed by a later one.                                     *)
LEMMA FollowType ==
    ASSUME stage \in WalkStages
    PROVE  /\ Follow(stage) \in (WalkStages \ {"flip1"}) \union {"mark"}
           /\ Follow(stage) = "flip2" => stage = "flip1"
<1>1. Dictionary \in {"ext_UO", "ext_AO", "mark"}
  BY DEF Dictionary
<1>2. Arith \in {"int8", "arith8"}
  BY DEF Arith
<1> DEFINE s == stage
<1>3. CASE s \in {"flip1", "flip2", "flip4", "flip32", "arith32", "ext_UO",
                  "ext_AO"}
  BY <1>2, <1>3 DEF Follow, WalkStages
<1>4. CASE s \in {"flip8", "flip16"}
  BY <1>2, <1>4 DEF Follow, WalkStages
<1>5. CASE s \in {"arith8", "arith16"}
  BY <1>5 DEF Follow, WalkStages
<1>6. CASE s \in {"int8", "int16", "int32"}
  BY <1>1, <1>6 DEF Follow, WalkStages
<1>7. CASE s = "ext_UI"
  BY <1>7 DEF Follow, WalkStages
<1> QED BY <1>3, <1>4, <1>5, <1>6, <1>7 DEF WalkStages

(* What a step through the positions of a stage does to them.              *)
LEMMA ToNextType ==
    ASSUME stage \in WalkStages, i \in 0 .. len, len \in Nat, len >= 1,
           NEW last \in Int, ToNext(last), UNCHANGED in_buf,
           IF stage = "ext_UI" THEN last <= len ELSE last < len
    PROVE  Place' /\ stage' \in WalkStages \union {"mark"}
<1>1. len' = len
  BY DEF len
<1>2. CASE i < last
  <2>1. i' = i + 1 /\ stage' = stage
    BY <1>2 DEF ToNext
  <2>2. /\ i' \in 0 .. len /\ (stage # "ext_UI" => i' < len)
    BY <1>2, <2>1
  <2> QED BY <1>1, <2>1, <2>2 DEF Place
<1>3. CASE ~ (i < last)
  <2>1. i' = 0 /\ stage' = Follow(stage)
    BY <1>3 DEF ToNext
  <2>2. stage' \in WalkStages \union {"mark"}
    BY <2>1, FollowType
  <2>3. i' \in 0 .. len /\ i' < len
    BY <2>1
  <2> QED BY <1>1, <2>1, <2>2, <2>3 DEF Place
<1> QED BY <1>2, <1>3

(* What the dictionary is does not depend on when it is asked.             *)
LEMMA SameSubject ==
    ASSUME UNCHANGED subject
    PROVE  /\ orig_in' = orig_in /\ Tokens' = Tokens
           /\ OnlyTokens(a_extras)' <=> OnlyTokens(a_extras')
           /\ RunSoFar(i, a_collect, prev_cksum)'
                  <=> RunSoFar(i', a_collect', prev_cksum')
           /\ KnownUpTo(a_extras, i - 1)' <=> KnownUpTo(a_extras', i' - 1)
           /\ KnownUpTo(a_extras, Len(orig_in))'
                  <=> KnownUpTo(a_extras', Len(orig_in))
<1>1. orig_in' = orig_in
  BY DEF orig_in
<1>2. Tokens' = Tokens
  BY <1>1 DEF Tokens
<1>3. OnlyTokens(a_extras)' <=> OnlyTokens(a_extras')
  BY <1>2 DEF OnlyTokens
<1>4. RunSoFar(i, a_collect, prev_cksum)'
          <=> RunSoFar(i', a_collect', prev_cksum')
  BY <1>1 DEF RunSoFar
<1>5. KnownUpTo(a_extras, i - 1)' <=> KnownUpTo(a_extras', i' - 1)
  BY <1>1 DEF KnownUpTo, TokenAt, Rejected, Known
<1>6. KnownUpTo(a_extras, Len(orig_in))'
          <=> KnownUpTo(a_extras', Len(orig_in))
  BY <1>1 DEF KnownUpTo, TokenAt, Rejected, Known
<1> QED BY <1>1, <1>2, <1>3, <1>4, <1>5, <1>6

-----------------------------------------------------------------------------
(* The deterministic stages.                                               *)

(* What a step of theirs does.                                             *)
WalkStep ==
    /\ stage \in WalkStages
    /\ UNCHANGED <<subject, calls, in_buf, entry, havoc>>
    /\ out_buf' = in_buf
    /\ Place' /\ stage' \in WalkStages \union {"mark"}
    /\ eff_map' \in SUBSET (0 .. EFF_ALEN(Len(orig_in)) - 1)
    /\ DictionaryFacts'
    /\ Unlost(a_extras, a_extras')

(* Such a step keeps the invariant.                                        *)
LEMMA WalkKeeps ==
    ASSUME FuzzShape, WalkStep
    PROVE  FuzzShape'
<1>1. /\ stage \in WalkStages /\ Place' /\ DictionaryFacts'
      /\ UNCHANGED <<subject, calls, in_buf, entry, havoc>>
      /\ out_buf' = in_buf
      /\ eff_map' \in SUBSET (0 .. EFF_ALEN(Len(orig_in)) - 1)
  BY DEF WalkStep
<1>2. /\ subject \in Subjects /\ Buffers /\ FuzzNumbers
      /\ FileTypes /\ BufferFits
  BY DEF FuzzShape
<1>3. stage \notin HavocStages
  BY <1>1 DEF WalkStages, HavocStages
<1>4. orig_in' = orig_in /\ len' = len
  BY <1>1 DEF orig_in, len
<1>5. Buffers'
  <2>1. IsFile(in_buf) /\ in_buf = orig_in
    BY <1>2, <1>3 DEF Buffers
  <2>2. IsFile(in_buf') /\ in_buf' = orig_in' /\ out_buf' = in_buf'
    BY <1>1, <1>4, <2>1
  <2>3. eff_map' \in SUBSET (0 .. EFF_ALEN(Len(orig_in')) - 1)
    BY <1>1, <1>4
  <2> QED BY <2>2, <2>3 DEF Buffers
<1>6. FuzzNumbers' /\ FileTypes'
  BY <1>1, <1>2 DEF FuzzNumbers, FileTypes, entry, havoc
<1>7. BufferFits'
  <2>1. UNCHANGED <<temp_len, alloc>>
    BY <1>1 DEF havoc
  <2>2. temp_len \in 1 .. alloc /\ (temp_len <= len \/ temp_len < MAX_FILE)
        /\ alloc >= len
    BY <1>2, <1>3 DEF BufferFits, HavocStages
  <2> QED BY <1>4, <2>1, <2>2 DEF BufferFits
<1> QED BY <1>1, <1>2, <1>5, <1>6, <1>7 DEF FuzzShape

(* The facts of a step's beginning.                                        *)
LEMMA WalkFacts ==
    ASSUME FuzzShape, stage \in WalkStages
    PROVE  /\ subject \in Subjects /\ in_buf = orig_in /\ out_buf = in_buf
           /\ IsFile(in_buf) /\ len \in Nat /\ len >= 1 /\ len = Len(orig_in)
           /\ i \in Nat /\ i \in 0 .. len
           /\ (stage # "ext_UI" => i < len)
           /\ eff_map \in SUBSET (0 .. EFF_ALEN(len) - 1)
           /\ DictionaryFacts
<1>1. stage \notin HavocStages /\ stage # "mutate" /\ stage # "splice"
  BY DEF WalkStages, HavocStages
<1>2. subject \in Subjects /\ Place /\ Buffers /\ DictionaryFacts
  BY DEF FuzzShape
<1>3. in_buf = orig_in /\ out_buf = in_buf /\ IsFile(in_buf)
      /\ eff_map \in SUBSET (0 .. EFF_ALEN(len) - 1)
  BY <1>1, <1>2 DEF Buffers, len
<1>4. len \in Nat /\ len >= 1 /\ len = Len(orig_in)
  BY <1>2, <1>3, OrigIsFile DEF len
<1> QED BY <1>2, <1>3, <1>4 DEF Place

(* Nothing is lost from a dictionary that stays.                           *)
LEMMA SameUnlost ==
    ASSUME NEW list
    PROVE  Unlost(list, list)
<1> QED BY DEF Unlost, TokenStays

(* A stage that does not collect.                                          *)
LEMMA QuietWalk ==
    ASSUME FuzzShape, stage \in WalkStages \ {"flip1"},
           NEW last \in Int, ToNext(last),
           IF stage = "ext_UI" THEN last <= len ELSE last < len,
           UNCHANGED <<subject, calls, in_buf, a_collect, prev_cksum,
                       a_extras, entry, havoc>>,
           out_buf' = in_buf,
           eff_map' \in SUBSET (0 .. EFF_ALEN(len) - 1)
    PROVE  WalkStep
<1>1. /\ i \in 0 .. len /\ len \in Nat /\ len >= 1 /\ DictionaryFacts
      /\ len = Len(orig_in)
  BY WalkFacts
<1>2. Place' /\ stage' \in WalkStages \union {"mark"}
  BY <1>1, ToNextType
<1>3. stage' # "flip1" /\ (stage' = "flip2" => stage = "flip2")
  <2>1. CASE i < last
    BY <2>1 DEF ToNext
  <2>2. CASE ~ (i < last)
    <3>1. stage' = Follow(stage)
      BY <2>2 DEF ToNext
    <3> QED BY <3>1, FollowType DEF WalkStages
  <2> QED BY <2>1, <2>2
<1>4. DictionaryFacts'
  <2>1. OnlyTokens(a_extras') /\ IsDictionary(a_extras')
    BY <1>1 DEF DictionaryFacts
  <2>2. stage' = "flip2" /\ ~ subject.dumb_mode
            /\ Len(a_extras') < MAX_AUTO_EXTRAS
            => KnownUpTo(a_extras', Len(orig_in))
    BY <1>1, <1>3 DEF DictionaryFacts
  <2> QED BY <1>3, <2>1, <2>2, SameSubject DEF DictionaryFacts
<1>5. Unlost(a_extras, a_extras')
  BY SameUnlost
<1> QED BY <1>1, <1>2, <1>4, <1>5 DEF WalkStep

(* The first bit flips.                                                    *)
LEMMA Flip1Step ==
    ASSUME FuzzShape, Flip1
    PROVE  WalkStep
<1>1. /\ stage = "flip1" /\ stage \in WalkStages /\ ToNext(len - 1)
      /\ UNCHANGED <<subject, calls, in_buf, out_buf, eff_map, entry, havoc>>
  BY DEF Flip1, FlipStage, WalkStages
<1>2. /\ subject \in Subjects /\ in_buf = orig_in /\ out_buf = in_buf
      /\ len \in Nat /\ len >= 1 /\ len = Len(orig_in)
      /\ i \in 0 .. len /\ i < len /\ i \in Nat
      /\ eff_map \in SUBSET (0 .. EFF_ALEN(len) - 1)
      /\ DictionaryFacts
  BY <1>1, WalkFacts
<1>3. Place' /\ stage' \in WalkStages \union {"mark"}
  BY <1>1, <1>2, ToNextType
<1>4. /\ i < len - 1 => i' = i + 1 /\ stage' = "flip1"
      /\ ~ (i < len - 1) => stage' # "flip1"
  BY <1>1, FollowType DEF ToNext
<1>5. DictionaryFacts' /\ Unlost(a_extras, a_extras')
  <2>1. CASE subject.dumb_mode
    <3>1. UNCHANGED <<a_extras, prev_cksum, a_collect>>
      BY <2>1 DEF Flip1
    <3>2. OnlyTokens(a_extras') /\ IsDictionary(a_extras')
          /\ subject'.dumb_mode
      BY <1>1, <1>2, <2>1, <3>1 DEF DictionaryFacts
    <3>3. OnlyTokens(a_extras)'
      BY <1>1, <3>2, SameSubject
    <3> QED BY <3>1, <3>2, <3>3, SameUnlost DEF DictionaryFacts
  <2>2. CASE ~ subject.dumb_mode
    <3>1. Collect(subject.lsb[i + 1], in_buf[i + 1])
      BY <2>2 DEF Flip1
    <3>2. /\ IsDictionary(a_extras) /\ OnlyTokens(a_extras)
          /\ RunSoFar(i, a_collect, prev_cksum)
          /\ Len(a_extras) < MAX_AUTO_EXTRAS => KnownUpTo(a_extras, i - 1)
      BY <1>1, <1>2, <2>2 DEF DictionaryFacts
    <3>3. /\ IsDictionary(a_extras') /\ OnlyTokens(a_extras')
          /\ Unlost(a_extras, a_extras')
          /\ i + 1 < Len(orig_in) => RunSoFar(i + 1, a_collect', prev_cksum')
          /\ Len(a_extras') < MAX_AUTO_EXTRAS =>
                 IF i + 1 < Len(orig_in) THEN KnownUpTo(a_extras', i)
                 ELSE KnownUpTo(a_extras', Len(orig_in))
      <4>1. i \in 0 .. Len(orig_in) - 1
        BY <1>2
      <4> QED BY <1>2, <3>1, <3>2, <4>1, CollectStep
    <3>4. OnlyTokens(a_extras)'
      BY <1>1, <3>3, SameSubject
    <3>5. CASE i < len - 1
      <4>1. i' = i + 1 /\ stage' = "flip1" /\ i + 1 < Len(orig_in)
            /\ i' - 1 = i
        BY <1>2, <1>4, <3>5
      <4>2. /\ RunSoFar(i', a_collect', prev_cksum')
            /\ Len(a_extras') < MAX_AUTO_EXTRAS
                   => KnownUpTo(a_extras', i' - 1)
        BY <3>3, <4>1
      <4>3. /\ RunSoFar(i, a_collect, prev_cksum)'
            /\ Len(a_extras') < MAX_AUTO_EXTRAS
                   => KnownUpTo(a_extras, i - 1)'
        BY <1>1, <4>2, SameSubject
      <4> QED BY <3>3, <3>4, <4>1, <4>3 DEF DictionaryFacts
    <3>6. CASE ~ (i < len - 1)
      <4>1. ~ (i + 1 < Len(orig_in)) /\ stage' # "flip1"
        BY <1>2, <1>4, <3>6
      <4>2. Len(a_extras') < MAX_AUTO_EXTRAS
                => KnownUpTo(a_extras, Len(orig_in))'
        BY <1>1, <3>3, <4>1, SameSubject
      <4> QED BY <3>3, <3>4, <4>1, <4>2 DEF DictionaryFacts
    <3> QED BY <3>5, <3>6
  <2> QED BY <2>1, <2>2
<1> QED BY <1>1, <1>2, <1>3, <1>5 DEF WalkStep

(* The effector map stays within its length.                               *)
LEMMA MapFacts ==
    ASSUME len \in Nat, len >= 1, i \in 0 .. len - 1,
           eff_map \in SUBSET (0 .. EFF_ALEN(len) - 1), NEW now,
           now \in SUBSET (FirstEff \union eff_map \union {EFF_APOS(i)})
    PROVE  Filled(now) \in SUBSET (0 .. EFF_ALEN(len) - 1)
           /\ now \in SUBSET (0 .. EFF_ALEN(len) - 1)
<1>1. EFF_APOS(i) \in 0 .. EFF_ALEN(len) - 1
  BY BlockInMap
<1>2. EFF_APOS(len - 1) \in 0 .. EFF_ALEN(len) - 1
  <2>1. len - 1 \in Nat /\ len - 1 < len
    OBVIOUS
  <2> QED BY <2>1, BlockInMap
<1>3. EFF_ALEN(len) \in Nat
  <2>1. len - 1 \in Nat /\ len - 1 < len
    OBVIOUS
  <2> QED BY <2>1, BlockInMap
<1>4. 0 \in 0 .. EFF_ALEN(len) - 1
  BY <1>2, <1>3
<1>5. now \in SUBSET (0 .. EFF_ALEN(len) - 1)
  BY <1>1, <1>2, <1>4 DEF FirstEff
<1> QED BY <1>5 DEF Filled

(* The tokens in use of the automatic dictionary are ordered by size.      *)
LEMMA AutoIsSorted ==
    ASSUME IsDictionary(a_extras)
    PROVE  InUse \in Seq(Seq(Byte)) /\ BySizes(InUse)
<1> DEFINE n == Smaller(Len(a_extras), USE_AUTO_EXTRAS)
<1>1. a_extras \in Seq(Entries) /\ Ordered(a_extras)
  BY DEF IsDictionary
<1>2. n \in Nat /\ n <= Len(a_extras) /\ n <= USE_AUTO_EXTRAS
      /\ USE_AUTO_EXTRAS \in Nat
  <2>1. USE_AUTO_EXTRAS \in Nat
    BY ConfigAssumption
  <2>2. Len(a_extras) \in Nat
    BY <1>1
  <2> QED BY <2>1, <2>2 DEF Smaller
<1>3. InUse = [k \in 1 .. n |-> a_extras[k].data]
  BY DEF InUse
<1> HIDE DEF n
<1>4. \A k \in 1 .. n : k \in DOMAIN a_extras
  BY <1>1, <1>2
<1>5. \A k \in 1 .. n : a_extras[k].data \in Seq(Byte)
  BY <1>1, <1>4, EntryTypes
<1>6. InUse \in Seq(Seq(Byte)) /\ DOMAIN InUse = 1 .. n
  BY <1>2, <1>3, <1>5
<1>7. ASSUME NEW j \in 1 .. n, NEW k \in 1 .. n, j < k
      PROVE  Len(InUse[j]) <= Len(InUse[k])
  <2>1. k <= USE_AUTO_EXTRAS
    BY <1>2
  <2>2. Len(a_extras[j].data) <= Len(a_extras[k].data)
    BY <1>1, <1>4, <1>7, <2>1 DEF Ordered
  <2> QED BY <1>3, <2>2
<1> QED BY <1>6, <1>7 DEF BySizes

(* The other stages.                                                       *)
LEMMA WalkSteps ==
    ASSUME FuzzShape,
           Flip2And4 \/ Flip8 \/ Bytes \/ Words \/ Dwords \/ ExtrasOver
               \/ ExtrasInsert
    PROVE  WalkStep
<1>1. stage \in WalkStages \ {"flip1"}
  BY DEF Flip2And4, Flip8, Bytes, Words, Dwords, WordStage, ExtrasOver,
         ExtrasInsert, WalkStages
<1>2. /\ subject \in Subjects /\ in_buf = orig_in /\ out_buf = in_buf
      /\ len \in Nat /\ len >= 1 /\ len = Len(orig_in) /\ IsFile(in_buf)
      /\ i \in 0 .. len /\ (stage # "ext_UI" => i < len) /\ i \in Nat
      /\ eff_map \in SUBSET (0 .. EFF_ALEN(len) - 1)
      /\ DictionaryFacts
  BY <1>1, WalkFacts
<1>3. CASE Flip2And4
  <2>1. /\ ToNext(len - 1) /\ stage # "ext_UI"
        /\ UNCHANGED <<subject, calls, in_buf, out_buf, eff_map, a_collect,
                       prev_cksum, a_extras, entry, havoc>>
    BY <1>3 DEF Flip2And4, FlipStage
  <2>2. len - 1 \in Int /\ len - 1 < len
    BY <1>2
  <2> QED BY <1>1, <1>2, <2>1, <2>2, QuietWalk
<1>4. CASE Flip8
  <2>1. /\ ToNext(len - 1) /\ stage # "ext_UI"
        /\ UNCHANGED <<subject, calls, in_buf, out_buf, a_collect,
                       prev_cksum, a_extras, entry, havoc>>
    BY <1>4 DEF Flip8
  <2>2. len - 1 \in Int /\ len - 1 < len /\ i \in 0 .. len - 1
    BY <1>2, <2>1
  <2> DEFINE before == IF i = 0 THEN FirstEff ELSE eff_map
             now == before \union IF Flags THEN {EFF_APOS(i)} ELSE {}
  <2>3. eff_map' = IF i = len - 1 THEN Filled(now) ELSE now
    BY <1>4 DEF Flip8
  <2>4. now \in SUBSET (FirstEff \union eff_map \union {EFF_APOS(i)})
    OBVIOUS
  <2> HIDE DEF now
  <2>5. eff_map' \in SUBSET (0 .. EFF_ALEN(len) - 1)
    BY <1>2, <2>2, <2>3, <2>4, MapFacts
  <2> QED BY <1>1, <1>2, <2>1, <2>2, <2>5, QuietWalk
<1>5. ASSUME NEW stages, NEW w \in {1, 2, 4}, WordStage(stages, w),
             stage # "ext_UI"
      PROVE  WalkStep
  <2>1. /\ ToNext(len - w)
        /\ UNCHANGED <<subject, calls, in_buf, out_buf, eff_map, a_collect,
                       prev_cksum, a_extras, entry, havoc>>
    BY <1>5 DEF WordStage
  <2>2. len - w \in Int /\ len - w < len
    BY <1>2
  <2> QED BY <1>1, <1>2, <1>5, <2>1, <2>2, QuietWalk
<1>6. CASE Bytes
  <2>1. stage # "ext_UI"
    BY <1>6 DEF Bytes, WordStage
  <2> QED BY <1>5, <1>6, <2>1 DEF Bytes
<1>7. CASE Words
  <2>1. stage # "ext_UI"
    BY <1>7 DEF Words, WordStage
  <2> QED BY <1>5, <1>7, <2>1 DEF Words
<1>8. CASE Dwords
  <2>1. stage # "ext_UI"
    BY <1>8 DEF Dwords, WordStage
  <2> QED BY <1>5, <1>8, <2>1 DEF Dwords
<1>9. CASE ExtrasOver
  <2>1. /\ ToNext(len - 1) /\ stage # "ext_UI"
        /\ UNCHANGED <<subject, calls, in_buf, eff_map, a_collect,
                       prev_cksum, a_extras, entry, havoc>>
    BY <1>9 DEF ExtrasOver
  <2>2. len - 1 \in Int /\ len - 1 < len
    BY <1>2
  <2> DEFINE tokens == IF stage = "ext_UO" THEN subject.extras ELSE InUse
  <2>3. out_buf' = Restore(Overwrite(tokens))
    BY <1>9 DEF ExtrasOver
  <2>4. tokens \in Seq(Seq(Byte)) /\ BySizes(tokens)
    <3>1. CASE stage = "ext_UO"
      BY <1>2, <3>1, SubjectAssumption DEF BySizes
    <3>2. CASE stage # "ext_UO"
      BY <1>2, <3>2, AutoIsSorted DEF DictionaryFacts
    <3> QED BY <3>1, <3>2
  <2>5. in_buf \in Seq(Byte)
    BY <1>2 DEF IsFile
  <2> HIDE DEF tokens
  <2>6. out_buf' = in_buf
    BY <1>2, <2>3, <2>4, <2>5, OverwriteRestored
  <2> QED BY <1>1, <1>2, <2>1, <2>2, <2>6, QuietWalk
<1>10. CASE ExtrasInsert
  <2>1. /\ ToNext(len) /\ stage = "ext_UI"
        /\ UNCHANGED <<subject, calls, in_buf, out_buf, eff_map, a_collect,
                       prev_cksum, a_extras, entry, havoc>>
    BY <1>10 DEF ExtrasInsert
  <2>2. len \in Int /\ len <= len
    BY <1>2
  <2> QED BY <1>1, <1>2, <2>1, <2>2, QuietWalk
<1> QED BY <1>3, <1>4, <1>6, <1>7, <1>8, <1>9, <1>10

-----------------------------------------------------------------------------
(* The other stages.                                                       *)

(* What no step but those of the first bit flips changes of a dictionary.  *)
LEMMA DictionaryStays ==
    ASSUME DictionaryFacts, UNCHANGED <<subject, a_extras>>,
           stage' # "flip1", stage' # "flip2"
    PROVE  DictionaryFacts' /\ Unlost(a_extras, a_extras')
<1>1. OnlyTokens(a_extras') /\ IsDictionary(a_extras')
  BY DEF DictionaryFacts
<1>2. OnlyTokens(a_extras)'
  BY <1>1, SameSubject
<1> QED BY <1>1, <1>2, SameUnlost DEF DictionaryFacts

(* The start of an entry.                                                  *)
LEMMA StartStep ==
    ASSUME FuzzShape, Start
    PROVE  FuzzShape' /\ Unlost(a_extras, a_extras')
<1>1. /\ subject \in Subjects /\ Place /\ DictionaryFacts /\ Buffers
      /\ FuzzNumbers /\ FileTypes
  BY DEF FuzzShape
<1>2. /\ UNCHANGED <<subject, a_extras, passed_det, was_fuzzed, stage_cur,
                     stage_max, left, files>>
      /\ stage' \in {"havoc", "flip1"} /\ calls' = calls + 1
      /\ i' = 0 /\ in_buf' = orig_in /\ out_buf' = orig_in
      /\ eff_map' = {} /\ a_collect' = <<>> /\ prev_cksum' = 0
      /\ splice_cycle' = 0 /\ handicap' = HandicapLeft(handicap)
      /\ temp_len' = Len(orig_in) /\ alloc' = Len(orig_in)
  BY DEF Start
<1>3. PICK e \in subject.scores :
          /\ perf_score' = calculate_score(e, handicap)
          /\ orig_perf' = calculate_score(e, handicap)
  BY DEF Start
<1>4. /\ orig_in' = orig_in /\ IsFile(orig_in) /\ Len(orig_in) \in Nat
      /\ Len(orig_in) >= 1 /\ len' = Len(orig_in)
  BY <1>1, <1>2, OrigIsFile DEF orig_in, len
<1>5. Place'
  BY <1>2, <1>4 DEF Place, WalkStages, HavocStages
<1>6. Buffers'
  BY <1>2, <1>4 DEF Buffers
<1>7. FuzzNumbers'
  <2>1. perf_score' \in Nat /\ orig_perf' \in Nat /\ handicap' \in Nat
    BY <1>1, <1>2, <1>3, EntryScore DEF FuzzNumbers
  <2>2. SPLICE_CYCLES \in Nat
    BY ConfigAssumption
  <2> QED BY <1>1, <1>2, <1>4, <2>1, <2>2 DEF FuzzNumbers
<1>8. FileTypes' /\ BufferFits'
  BY <1>1, <1>2, <1>4 DEF FileTypes, BufferFits
<1>9. DictionaryFacts' /\ Unlost(a_extras, a_extras')
  <2>1. OnlyTokens(a_extras') /\ IsDictionary(a_extras')
    BY <1>1, <1>2 DEF DictionaryFacts
  <2>2. RunSoFar(i', a_collect', prev_cksum')
    BY <1>2 DEF RunSoFar
  <2>3. KnownUpTo(a_extras', i' - 1)
    <3>1. i' - 1 = -1
      BY <1>2
    <3>2. \A b \in DOMAIN orig_in : ~ (b <= -1)
      BY <1>4 DEF IsFile
    <3> QED BY <3>1, <3>2 DEF KnownUpTo
  <2>4. stage' # "flip2"
    BY <1>2
  <2> QED BY <1>2, <2>1, <2>2, <2>3, <2>4, SameSubject, SameUnlost
          DEF DictionaryFacts
<1> QED BY <1>1, <1>2, <1>5, <1>6, <1>7, <1>8, <1>9 DEF FuzzShape

(* An entry is left.                                                       *)
LEMMA LeaveStep ==
    ASSUME FuzzShape, Leaves
    PROVE  FuzzShape' /\ Unlost(a_extras, a_extras')
<1>1. /\ subject \in Subjects /\ Place /\ DictionaryFacts /\ Buffers
      /\ FuzzNumbers /\ FileTypes
  BY DEF FuzzShape
<1>2. /\ UNCHANGED <<subject, calls, a_extras, passed_det, handicap,
                     doing_det, perf_score, orig_perf, files>>
      /\ stage' = "start" /\ i' = 0
      /\ in_buf' = orig_in /\ out_buf' = orig_in
      /\ eff_map' = {} /\ stage_cur' = 0 /\ stage_max' = 0 /\ left' = 0
      /\ temp_len' = Len(orig_in) /\ alloc' = Len(orig_in)
      /\ splice_cycle' = 0
  BY DEF Leaves
<1>3. /\ orig_in' = orig_in /\ IsFile(orig_in) /\ Len(orig_in) \in Nat
      /\ Len(orig_in) >= 1 /\ len' = Len(orig_in)
  BY <1>1, <1>2, OrigIsFile DEF orig_in, len
<1>4. Place'
  BY <1>2, <1>3 DEF Place, WalkStages
<1>5. Buffers'
  BY <1>2, <1>3 DEF Buffers
<1>6. FuzzNumbers'
  <2>1. SPLICE_CYCLES \in Nat
    BY ConfigAssumption
  <2> QED BY <1>1, <1>2, <1>3, <2>1 DEF FuzzNumbers
<1>7. FileTypes' /\ BufferFits'
  BY <1>1, <1>2, <1>3 DEF FileTypes, BufferFits
<1>8. DictionaryFacts' /\ Unlost(a_extras, a_extras')
  BY <1>1, <1>2, DictionaryStays
<1> QED BY <1>1, <1>2, <1>4, <1>5, <1>6, <1>7, <1>8 DEF FuzzShape

(* What the steps of havoc have in common.                                 *)
HavocStep ==
    /\ UNCHANGED <<subject, calls, i, a_extras, handicap, orig_perf, eff_map>>
    /\ i = 0
    /\ stage' \in HavocStages
    /\ IsFile(in_buf') /\ Buffers' /\ FuzzNumbers'
    /\ FileTypes' /\ BufferFits'

(* They keep the invariant.                                                *)
LEMMA HavocKeeps ==
    ASSUME FuzzShape, HavocStep
    PROVE  FuzzShape' /\ Unlost(a_extras, a_extras')
<1>1. /\ subject \in Subjects /\ DictionaryFacts
  BY DEF FuzzShape
<1>2. /\ UNCHANGED <<subject, i, a_extras>> /\ i = 0
      /\ stage' \in HavocStages
      /\ IsFile(in_buf') /\ Buffers' /\ FuzzNumbers'
      /\ FileTypes' /\ BufferFits'
  BY DEF HavocStep
<1>3. Place'
  <2>1. len' \in Nat
    BY <1>2 DEF len, IsFile
  <2> QED BY <1>2, <2>1 DEF Place, WalkStages, HavocStages
<1>4. DictionaryFacts' /\ Unlost(a_extras, a_extras')
  <2>1. stage' # "flip1" /\ stage' # "flip2"
    BY <1>2 DEF HavocStages
  <2> QED BY <1>1, <1>2, <2>1, DictionaryStays
<1> QED BY <1>1, <1>2, <1>3, <1>4 DEF FuzzShape

(* The facts of havoc.                                                     *)
LEMMA HavocFacts ==
    ASSUME FuzzShape, stage \in HavocStages
    PROVE  /\ subject \in Subjects /\ i = 0 /\ IsFile(in_buf)
           /\ len \in Nat /\ len >= 1
           /\ eff_map \in SUBSET (0 .. EFF_ALEN(Len(orig_in)) - 1)
           /\ FuzzNumbers /\ FileTypes /\ Buffers
           /\ stage \in {"stack", "mutate"} =>
                  /\ temp_len >= 1 /\ temp_len <= alloc
                  /\ temp_len <= len \/ temp_len < MAX_FILE
           /\ stage \in {"havoc", "stack"} => alloc >= len
           /\ stage \in {"havoc", "stack"} => out_buf = in_buf
<1>1. /\ subject \in Subjects /\ Place /\ Buffers /\ FuzzNumbers /\ FileTypes
      /\ BufferFits
  BY DEF FuzzShape
<1>2. i = 0
  BY <1>1 DEF Place, WalkStages, HavocStages
<1>3. /\ IsFile(in_buf) /\ (stage \in {"havoc", "stack"} => out_buf = in_buf)
      /\ eff_map \in SUBSET (0 .. EFF_ALEN(Len(orig_in)) - 1)
  BY <1>1 DEF Buffers
<1>4. len \in Nat /\ len >= 1
  BY <1>3 DEF len, IsFile
<1>5. /\ stage \in {"stack", "mutate"} =>
             /\ temp_len >= 1 /\ temp_len <= alloc
             /\ temp_len <= len \/ temp_len < MAX_FILE
      /\ stage \in {"havoc", "stack"} => alloc >= len
  BY <1>1 DEF BufferFits, FuzzNumbers
<1> QED BY <1>1, <1>2, <1>3, <1>4, <1>5

(* The mark.                                                               *)
LEMMA MarkStep ==
    ASSUME FuzzShape, mark_as_det_done
    PROVE  FuzzShape' /\ Unlost(a_extras, a_extras')
<1>1. /\ stage = "mark" /\ stage' = "havoc"
      /\ UNCHANGED <<subject, calls, i, in_buf, out_buf, det, was_fuzzed,
                     handicap, havoc>>
  BY DEF mark_as_det_done
<1>2. /\ subject \in Subjects /\ Place /\ DictionaryFacts /\ Buffers
      /\ FuzzNumbers /\ FileTypes /\ BufferFits
  BY DEF FuzzShape
<1>3. /\ orig_in' = orig_in /\ len' = len /\ UNCHANGED <<a_extras, eff_map>>
      /\ UNCHANGED <<perf_score, orig_perf, stage_cur, stage_max, left,
                     temp_len, alloc, splice_cycle, files>>
  BY <1>1 DEF orig_in, len, det, havoc
<1>4. Place'
  BY <1>1, <1>2, <1>3 DEF Place, WalkStages, HavocStages
<1>5. Buffers'
  <2>1. out_buf = in_buf
    BY <1>1, <1>2 DEF Buffers
  <2> QED BY <1>1, <1>2, <1>3, <2>1 DEF Buffers, HavocStages
<1>6. FuzzNumbers' /\ FileTypes'
  BY <1>1, <1>2, <1>3 DEF FuzzNumbers, FileTypes
<1>7. BufferFits'
  BY <1>1, <1>2, <1>3 DEF BufferFits
<1>8. DictionaryFacts' /\ Unlost(a_extras, a_extras')
  BY <1>1, <1>2, <1>3, DictionaryStays
<1> QED BY <1>1, <1>2, <1>4, <1>5, <1>6, <1>7, <1>8 DEF FuzzShape

(* The start of a round.                                                   *)
LEMMA HavocStartStep ==
    ASSUME FuzzShape, HavocStart
    PROVE  HavocStep
<1>1. /\ stage = "havoc" /\ stage' = "stack"
      /\ stage_cur' = 0 /\ temp_len' = len
      /\ UNCHANGED <<subject, calls, i, in_buf, out_buf, eff_map, a_collect,
                     prev_cksum, a_extras, entry, doing_det, orig_perf, left,
                     alloc, splice_cycle, files>>
  BY DEF HavocStart
<1>2. /\ i = 0 /\ IsFile(in_buf) /\ len \in Nat /\ len >= 1
      /\ eff_map \in SUBSET (0 .. EFF_ALEN(Len(orig_in)) - 1)
      /\ FuzzNumbers /\ FileTypes /\ alloc >= len /\ out_buf = in_buf
  BY <1>1, HavocFacts DEF HavocStages
<1>3. len' = len /\ orig_in' = orig_in /\ UNCHANGED handicap
  BY <1>1 DEF len, orig_in, entry
<1>4. perf_score' \in Nat
  BY <1>2 DEF HavocStart, FuzzNumbers
<1> DEFINE cycles == IF splice_cycle > 0 THEN SPLICE_HAVOC
                     ELSE IF doing_det THEN HAVOC_CYCLES_INIT
                     ELSE HAVOC_CYCLES
           wanted == (cycles * perf_score') \div 100
<1>5. stage_max' = IF wanted < HAVOC_MIN THEN HAVOC_MIN ELSE wanted
  BY DEF HavocStart
<1>6. stage_max' \in Nat
  <2>1. cycles \in Nat /\ HAVOC_MIN \in Nat
    BY ConfigAssumption
  <2> HIDE DEF cycles
  <2>2. cycles * perf_score' \in Nat
    <3>1. \A a, b \in Nat : a * b \in Nat
      OBVIOUS
    <3> QED BY <1>4, <2>1, <3>1
  <2>3. wanted \in Nat
    BY <2>2
  <2> HIDE DEF wanted
  <2> QED BY <1>5, <2>1, <2>3
<1>7. Buffers'
  BY <1>1, <1>2, <1>3 DEF Buffers, HavocStages
<1>8. FuzzNumbers'
  BY <1>1, <1>2, <1>3, <1>4, <1>6 DEF FuzzNumbers
<1>9. FileTypes'
  BY <1>1, <1>2 DEF FileTypes
<1>10. BufferFits'
  BY <1>1, <1>2, <1>3 DEF BufferFits, FuzzNumbers
<1> QED BY <1>1, <1>2, <1>3, <1>7, <1>8, <1>9, <1>10 DEF HavocStep, HavocStages

(* The number of operations.                                               *)
LEMMA StackStep ==
    ASSUME FuzzShape, Stack
    PROVE  HavocStep
<1>1. /\ stage = "stack" /\ stage' \in {"mutate", "splice"}
      /\ UNCHANGED <<subject, calls, i, in_buf, out_buf, det, entry,
                     doing_det, perf_score, orig_perf, stage_cur, stage_max,
                     temp_len, alloc, splice_cycle, files>>
  BY DEF Stack
<1>2. /\ i = 0 /\ IsFile(in_buf) /\ len \in Nat /\ len >= 1
      /\ eff_map \in SUBSET (0 .. EFF_ALEN(Len(orig_in)) - 1)
      /\ FuzzNumbers /\ FileTypes /\ alloc >= len /\ out_buf = in_buf
      /\ temp_len >= 1 /\ temp_len <= alloc
      /\ temp_len <= len \/ temp_len < MAX_FILE
  BY <1>1, HavocFacts DEF HavocStages
<1>3. /\ len' = len /\ orig_in' = orig_in /\ UNCHANGED handicap
      /\ UNCHANGED <<eff_map, a_extras>>
  BY <1>1 DEF len, orig_in, entry, det
<1>4. left' \in Nat
  <2>1. left' = 0 \/ \E k \in 1 .. HAVOC_STACK_POW2 : left' = 2^k
    BY DEF Stack
  <2>2. CASE \E k \in 1 .. HAVOC_STACK_POW2 : left' = 2^k
    <3>1. PICK k \in 1 .. HAVOC_STACK_POW2 : left' = 2^k
      BY <2>2
    <3>2. 2^k \in Int /\ 2^k >= 1
      BY ConfigAssumption
    <3> QED BY <3>1, <3>2
  <2> QED BY <2>1, <2>2
<1>5. Buffers'
  BY <1>1, <1>2, <1>3 DEF Buffers, HavocStages
<1>6. FuzzNumbers' /\ FileTypes'
  BY <1>1, <1>2, <1>3, <1>4 DEF FuzzNumbers, FileTypes
<1>7. BufferFits'
  BY <1>1, <1>2, <1>3 DEF BufferFits, FuzzNumbers
<1> QED BY <1>1, <1>2, <1>3, <1>5, <1>6, <1>7 DEF HavocStep, HavocStages

(* An operation leaves a buffer that is neither empty nor too long.        *)
LEMMA MutatedStep ==
    ASSUME FuzzShape, NEW n \in Nat, NEW size \in Nat, Mutated(n, size),
           n >= 1, n <= size, n <= len \/ n < MAX_FILE
    PROVE  HavocStep
<1>1. /\ stage = "mutate" /\ stage' = "mutate" /\ left > 0 /\ left' = left - 1
      /\ temp_len' = n /\ alloc' = size /\ out_buf' = Mangled
      /\ UNCHANGED <<subject, stage, calls, i, in_buf, det, entry, doing_det,
                     perf_score, orig_perf, stage_cur, stage_max,
                     splice_cycle, files>>
  BY DEF Mutated
<1>2. /\ i = 0 /\ IsFile(in_buf)
      /\ eff_map \in SUBSET (0 .. EFF_ALEN(Len(orig_in)) - 1)
      /\ FuzzNumbers /\ FileTypes
  BY <1>1, HavocFacts DEF HavocStages
<1>3. /\ len' = len /\ orig_in' = orig_in /\ UNCHANGED handicap
      /\ UNCHANGED <<eff_map, a_extras>>
  BY <1>1 DEF len, orig_in, entry, det
<1>4. Buffers'
  BY <1>1, <1>2, <1>3 DEF Buffers, HavocStages, Mangled
<1>5. FuzzNumbers' /\ FileTypes'
  BY <1>1, <1>2, <1>3 DEF FuzzNumbers, FileTypes
<1>6. BufferFits'
  BY <1>1, <1>3 DEF BufferFits
<1> QED BY <1>1, <1>2, <1>3, <1>4, <1>5, <1>6 DEF HavocStep, HavocStages

(* A token of either dictionary.                                           *)
LEMMA AnyTokenType ==
    ASSUME FuzzShape, NEW token \in AnyToken
    PROVE  token \in Seq(Byte)
<1>1. subject \in Subjects /\ a_extras \in Seq(Entries)
  BY DEF FuzzShape, DictionaryFacts, IsDictionary
<1>2. CASE token \in Range(subject.extras)
  <2>1. subject.extras \in Seq(Seq(Byte))
    BY <1>1, SubjectAssumption
  <2> QED BY <1>2, <2>1 DEF Range
<1>3. CASE token \in {e.data : e \in Range(a_extras)}
  BY <1>1, <1>3, EntryTypes DEF Range
<1> QED BY <1>2, <1>3 DEF AnyToken

(* The operations.                                                         *)
LEMMA MutateSteps ==
    ASSUME FuzzShape,
           InPlace \/ OverwritePart \/ Delete \/ Clone \/ InsertExtra
    PROVE  HavocStep
<1>1. stage = "mutate"
  BY DEF InPlace, OverwritePart, Delete, Clone, InsertExtra, Mutated
<1>2. /\ subject \in Subjects /\ temp_len \in Nat /\ alloc \in Nat
      /\ temp_len >= 1 /\ temp_len <= alloc
      /\ temp_len <= len \/ temp_len < MAX_FILE
      /\ len \in Nat /\ MAX_FILE \in Nat
  BY <1>1, HavocFacts, ConfigAssumption DEF HavocStages, FuzzNumbers
<1>3. CASE InPlace \/ OverwritePart
  <2>1. Mutated(temp_len, alloc)
    BY <1>3 DEF InPlace, OverwritePart
  <2> QED BY <1>2, <2>1, MutatedStep
<1>4. CASE Delete
  <2>1. temp_len >= 2
    BY <1>4 DEF Delete
  <2>2. PICK n \in BlockLens(temp_len - 1) : Mutated(temp_len - n, alloc)
    BY <1>4 DEF Delete
  <2>3. temp_len - 1 \in Nat
    BY <1>2
  <2>4. n \in Nat /\ n >= 1 /\ n <= temp_len - 1
    BY <1>2, <2>3, BlockLensFacts
  <2>5. /\ temp_len - n \in Nat /\ temp_len - n >= 1 /\ temp_len - n <= alloc
        /\ temp_len - n <= len \/ temp_len - n < MAX_FILE
    BY <1>2, <2>4
  <2> QED BY <1>2, <2>2, <2>5, MutatedStep
<1>5. CASE Clone
  <2>1. temp_len + HAVOC_BLK_XL < MAX_FILE /\ HAVOC_BLK_XL \in Nat
    BY <1>5, ConfigAssumption DEF Clone
  <2>2. PICK n \in BlockLens(temp_len) \union BlockLens(HAVOC_BLK_XL) :
            Mutated(temp_len + n, temp_len + n)
    BY <1>5 DEF Clone
  <2>3. n \in Nat /\ n <= HAVOC_BLK_XL
    BY <1>2, <2>1, BlockLensFacts
  <2>4. temp_len + n \in Nat /\ temp_len + n >= 1 /\ temp_len + n < MAX_FILE
    BY <1>2, <2>1, <2>3
  <2> QED BY <2>2, <2>4, MutatedStep
<1>6. CASE InsertExtra
  <2>1. PICK token \in AnyToken :
            /\ Room(Len(token))
            /\ Mutated(temp_len + Len(token), temp_len + Len(token))
    BY <1>6 DEF InsertExtra
  <2>2. token \in Seq(Byte)
    BY <1>2, AnyTokenType
  <2>3. Len(token) \in Nat /\ temp_len + Len(token) < MAX_FILE
    BY <2>1, <2>2 DEF Room
  <2> DEFINE n == temp_len + Len(token)
  <2>4. n \in Nat /\ n >= 1 /\ n < MAX_FILE /\ n <= n
    BY <1>2, <2>3
  <2> QED BY <2>1, <2>4, MutatedStep
<1> QED BY <1>3, <1>4, <1>5, <1>6

(* The run.                                                                *)
LEMMA HavocRunStep ==
    ASSUME FuzzShape, HavocRun
    PROVE  HavocStep
<1>1. /\ stage = "mutate" /\ stage' = "stack"
      /\ alloc' = Regrown /\ temp_len' = len /\ out_buf' = in_buf
      /\ stage_cur' = stage_cur + 1
      /\ UNCHANGED <<subject, calls, i, in_buf, det, entry, doing_det,
                     orig_perf, left, splice_cycle>>
  BY DEF HavocRun
<1>2. /\ subject \in Subjects /\ i = 0 /\ IsFile(in_buf)
      /\ len \in Nat /\ len >= 1
      /\ eff_map \in SUBSET (0 .. EFF_ALEN(Len(orig_in)) - 1)
      /\ FuzzNumbers /\ FileTypes
      /\ temp_len >= 1 /\ temp_len <= alloc
  BY <1>1, HavocFacts DEF HavocStages
<1>3. /\ len' = len /\ orig_in' = orig_in /\ UNCHANGED handicap
      /\ UNCHANGED <<eff_map, a_extras>>
  BY <1>1 DEF len, orig_in, entry, det
<1>4. /\ stage_max' \in Nat /\ perf_score' \in Nat
  BY <1>2 DEF HavocRun, Longer, FuzzNumbers
<1>5. FileTypes'
  <2>1. CASE UNCHANGED files
    BY <1>2, <2>1 DEF FileTypes
  <2>2. CASE files' = Append(files, subject.find)
    <3>1. /\ IsFile(subject.find) /\ subject.find \in Seq(Byte)
          /\ files \in Seq(Seq(Byte))
      BY <1>2, SubjectAssumption DEF FileTypes, IsFile
    <3>2. /\ files' \in Seq(Seq(Byte)) /\ Len(files') = Len(files) + 1
          /\ \A t \in 1 .. Len(files) : files'[t] = files[t]
          /\ files'[Len(files) + 1] = subject.find
      BY <2>2, <3>1
    <3>3. ASSUME NEW t \in DOMAIN files' PROVE IsFile(files'[t])
      <4>1. t \in 1 .. Len(files) \/ t = Len(files) + 1
        BY <3>1, <3>2
      <4>2. CASE t \in 1 .. Len(files)
        <5>1. t \in DOMAIN files /\ files'[t] = files[t]
          BY <3>1, <3>2, <4>2
        <5>2. IsFile(files[t])
          BY <1>2, <5>1 DEF FileTypes
        <5> QED BY <5>1, <5>2
      <4> QED BY <3>1, <3>2, <4>1, <4>2
    <3> QED BY <3>2, <3>3 DEF FileTypes
  <2> QED BY <2>1, <2>2 DEF HavocRun
<1>6. alloc' \in Nat /\ alloc' >= len
  BY <1>1, <1>2 DEF Regrown, FuzzNumbers
<1>7. Buffers'
  BY <1>1, <1>2, <1>3 DEF Buffers, HavocStages
<1>8. FuzzNumbers'
  BY <1>1, <1>2, <1>3, <1>4, <1>6 DEF FuzzNumbers
<1>9. BufferFits'
  BY <1>1, <1>2, <1>3, <1>6 DEF BufferFits
<1> QED BY <1>1, <1>2, <1>3, <1>5, <1>7, <1>8, <1>9 DEF HavocStep, HavocStages

(* A file that ends as another does behind its p-th byte.                  *)
IsJoined(new, g, p) ==
    /\ IsFile(new) /\ Len(new) = Len(g)
    /\ \A q \in p + 1 .. Len(g) : new[q] = g[q]

(* What the head of one file and the tail of another make.                 *)
LEMMA Joined ==
    ASSUME NEW f, NEW g, IsFile(f), IsFile(g),
           NEW p \in Nat, p < Len(f), p < Len(g)
    PROVE  IsJoined(SubSeq(f, 1, p) \o SubSeq(g, p + 1, Len(g)), g, p)
<1> DEFINE head == SubSeq(f, 1, p)
           tail == SubSeq(g, p + 1, Len(g))
           new == head \o tail
<1>1. /\ f \in Seq(Byte) /\ g \in Seq(Byte)
      /\ Len(f) \in Nat /\ Len(g) \in Nat
  BY DEF IsFile
<1>2. head \in Seq(Byte) /\ Len(head) = p
  <2>1. CASE p = 0
    BY <1>1, <2>1
  <2>2. CASE p # 0
    <3>1. 1 \in 1 .. Len(f) /\ p \in 1 .. Len(f)
      BY <1>1, <2>2
    <3>2. p - 1 + 1 = p
      OBVIOUS
    <3> QED BY <1>1, <3>1, <3>2, PartOfFile
  <2> QED BY <2>1, <2>2
<1>3. /\ tail \in Seq(Byte) /\ Len(tail) = Len(g) - p
      /\ \A q \in 1 .. Len(g) - p : tail[q] = g[q + p]
  <2>1. p + 1 \in Int /\ p + 1 <= Len(g)
    BY <1>1
  <2>2. \A q \in p + 1 .. Len(g) : g[q] \in Byte
    BY <1>1
  <2>3. /\ tail \in Seq(Byte)
        /\ Len(tail) = IF p + 1 <= Len(g) THEN Len(g) - (p + 1) + 1 ELSE 0
        /\ \A q \in 1 .. Len(g) - (p + 1) + 1 : tail[q] = g[(p + 1) + q - 1]
    BY <1>1, <2>1, <2>2, SubSeqProperties
  <2>4. Len(g) - (p + 1) + 1 = Len(g) - p
    BY <1>1
  <2>5. \A q \in 1 .. Len(g) - p : (p + 1) + q - 1 = q + p
    BY <1>1
  <2> HIDE DEF tail
  <2> QED BY <2>1, <2>3, <2>4, <2>5
<1> HIDE DEF head, tail
<1>4. /\ new \in Seq(Byte) /\ Len(new) = Len(head) + Len(tail)
      /\ \A q \in 1 .. Len(head) + Len(tail) :
             new[q] = IF q <= Len(head) THEN head[q] ELSE tail[q - Len(head)]
  BY <1>2, <1>3
<1> HIDE DEF new
<1>5. Len(new) = Len(g)
  BY <1>1, <1>2, <1>3, <1>4
<1>6. ASSUME NEW q \in p + 1 .. Len(g) PROVE new[q] = g[q]
  <2>1. /\ q \in 1 .. Len(head) + Len(tail) /\ ~ (q <= Len(head))
        /\ q - p \in 1 .. Len(g) - p /\ (q - p) + p = q
    BY <1>1, <1>2, <1>3
  <2> QED BY <1>2, <1>3, <1>4, <2>1
<1>7. IsFile(new)
  BY <1>1, <1>4, <1>5 DEF IsFile
<1> QED BY <1>5, <1>6, <1>7 DEF IsJoined, new, head, tail

(* The file that is spliced with is another one.                           *)
LEMMA TargetFacts ==
    ASSUME FileTypes, NEW tid \in DOMAIN files, Target(tid) # 0
    PROVE  /\ Target(tid) \in DOMAIN files \ {subject.current}
           /\ IsFile(files[Target(tid)])
<1> DEFINE fit == {t \in tid .. Len(files) :
                      t # subject.current /\ Len(files[t]) >= 2}
           t == CHOOSE x \in fit : \A u \in fit : x <= u
<1>1. files \in Seq(Seq(Byte)) /\ \A x \in DOMAIN files : IsFile(files[x])
  BY DEF FileTypes
<1>2. fit # {} /\ Target(tid) = t
  BY DEF Target
<1>3. fit \in SUBSET Nat
  BY <1>1
<1>4. t \in fit
  <2> HIDE DEF fit
  <2>1. \E x \in fit : \A u \in fit : x <= u
    BY <1>2, <1>3, LeastElement
  <2> QED BY <2>1
<1> HIDE DEF t
<1>5. t \in DOMAIN files /\ t # subject.current
  BY <1>1, <1>4
<1> QED BY <1>1, <1>2, <1>5

(* What a splice has made.                                                 *)
IsSpliced(new, list) ==
    /\ IsFile(new) /\ new # orig_in
    /\ \E t \in DOMAIN list \ {subject.current} :
           Len(list[t]) = Len(new) /\ Last(list[t]) = Last(new)

(* The attempts to splice.                                                 *)
LEMMA SpliceStep ==
    ASSUME FuzzShape, Splice
    PROVE  HavocStep /\ (stage' = "havoc" => IsSpliced(in_buf', files))
<1>1. /\ stage = "splice" /\ splice_cycle < SPLICE_CYCLES
      /\ UNCHANGED <<subject, calls, i, det, entry, doing_det, perf_score,
                     orig_perf, stage_cur, stage_max, left, temp_len, files>>
  BY DEF Splice, MaySplice
<1>2. PICK tid \in DOMAIN files \ {subject.current} :
          LET t == Target(tid)
              places == IF t = 0 THEN {} ELSE SplitAt(files[t])
          IN  /\ splice_cycle' = splice_cycle + 1
              /\ IF places = {}
                 THEN /\ in_buf' = orig_in
                      /\ UNCHANGED <<stage, out_buf, alloc>>
                 ELSE /\ \E at \in places :
                             in_buf' = SubSeq(orig_in, 1, at) \o
                                 SubSeq(files[t], at + 1, Len(files[t]))
                      /\ out_buf' = in_buf'
                      /\ alloc' = Len(in_buf')
                      /\ stage' = "havoc"
  BY DEF Splice
<1> DEFINE t == Target(tid)
           places == IF t = 0 THEN {} ELSE SplitAt(files[t])
<1>3. /\ subject \in Subjects /\ i = 0 /\ IsFile(in_buf)
      /\ eff_map \in SUBSET (0 .. EFF_ALEN(Len(orig_in)) - 1)
      /\ FuzzNumbers /\ FileTypes /\ Buffers
  BY <1>1, HavocFacts DEF HavocStages
<1>4. /\ orig_in' = orig_in /\ IsFile(orig_in)
      /\ UNCHANGED <<eff_map, a_extras, handicap>>
  BY <1>1, <1>3, OrigIsFile DEF orig_in, det, entry
<1>5. splice_cycle' \in 0 .. SPLICE_CYCLES
  <2>1. SPLICE_CYCLES \in Nat /\ splice_cycle' = splice_cycle + 1
    BY <1>2, ConfigAssumption
  <2> QED BY <1>1, <1>3, <2>1 DEF FuzzNumbers
<1>6. FileTypes'
  BY <1>1, <1>3 DEF FileTypes
<1>7. CASE places = {}
  <2>1. in_buf' = orig_in /\ UNCHANGED <<stage, out_buf, alloc>>
    BY <1>2, <1>7
  <2>2. out_buf = in_buf \/ IsFile(out_buf)
    BY <1>1, <1>3 DEF Buffers
  <2>3. IsFile(out_buf)
    BY <1>3, <2>2
  <2>4. Buffers'
    BY <1>1, <1>3, <1>4, <2>1, <2>3 DEF Buffers, HavocStages
  <2>5. FuzzNumbers'
    BY <1>1, <1>3, <1>4, <1>5, <2>1 DEF FuzzNumbers
  <2>6. BufferFits'
    BY <1>1, <2>1 DEF BufferFits
  <2>7. stage' = "splice"
    BY <1>1, <2>1
  <2> QED BY <1>1, <1>3, <1>4, <1>6, <2>1, <2>4, <2>5, <2>6, <2>7
          DEF HavocStep, HavocStages
<1>8. CASE places # {}
  <2>1. /\ out_buf' = in_buf' /\ alloc' = Len(in_buf') /\ stage' = "havoc"
        /\ t # 0
    BY <1>2, <1>8
  <2>2. PICK at \in SplitAt(files[t]) :
            in_buf' = SubSeq(orig_in, 1, at) \o
                          SubSeq(files[t], at + 1, Len(files[t]))
    BY <1>2, <1>8
  <2> DEFINE f == files[t]
  <2>3. t \in DOMAIN files \ {subject.current} /\ IsFile(f)
    BY <1>3, <2>1, TargetFacts
  <2> HIDE DEF t, places, f
  <2>4. /\ at \in Nat /\ at < Len(f) /\ at < Len(orig_in)
        /\ \E q \in at + 1 .. Len(orig_in) :
               q <= Len(f) /\ f[q] # orig_in[q]
    BY <1>4, <2>2, <2>3, SplitFacts DEF f
  <2>5. /\ IsFile(in_buf') /\ Len(in_buf') = Len(f)
        /\ \A q \in at + 1 .. Len(f) : in_buf'[q] = f[q]
    <3> DEFINE new == SubSeq(orig_in, 1, at) \o SubSeq(f, at + 1, Len(f))
    <3>1. in_buf' = new
      BY <2>2 DEF f
    <3>2. IsJoined(new, f, at)
      BY <1>4, <2>3, <2>4, Joined
    <3> HIDE DEF new
    <3> QED BY <3>1, <3>2 DEF IsJoined
  <2>6. Len(f) \in Nat /\ Len(f) >= 1 /\ Len(orig_in) \in Nat
    BY <1>4, <2>3 DEF IsFile
  <2>7. in_buf' # orig_in
    <3>1. PICK q \in at + 1 .. Len(orig_in) :
              q <= Len(f) /\ f[q] # orig_in[q]
      BY <2>4
    <3>2. q \in at + 1 .. Len(f)
      BY <2>4, <2>6, <3>1
    <3> QED BY <2>5, <3>1, <3>2
  <2>8. Last(f) = Last(in_buf')
    <3>1. Len(f) \in at + 1 .. Len(f)
      BY <2>4, <2>6
    <3> QED BY <2>5, <3>1 DEF Last
  <2>9. IsSpliced(in_buf', files)
    BY <2>3, <2>5, <2>7, <2>8 DEF IsSpliced, f
  <2>10. Buffers'
    BY <1>1, <1>3, <1>4, <2>1, <2>5 DEF Buffers, HavocStages
  <2>11. FuzzNumbers'
    BY <1>1, <1>3, <1>4, <1>5, <2>1, <2>5, <2>6 DEF FuzzNumbers
  <2>12. BufferFits'
    BY <2>1, <2>5, <2>6 DEF BufferFits, len
  <2> QED BY <1>1, <1>3, <1>4, <1>6, <2>1, <2>5, <2>9, <2>10, <2>11, <2>12
          DEF HavocStep, HavocStages
<1> QED BY <1>7, <1>8

(* The steps.                                                              *)
LEMMA FuzzStep ==
    ASSUME FuzzShape, FuzzNext
    PROVE  FuzzShape' /\ Unlost(a_extras, a_extras')
<1>1. CASE Start
  BY <1>1, StartStep
<1>2. CASE Flip1
  <2>1. WalkStep
    BY <1>2, Flip1Step
  <2> QED BY <2>1, WalkKeeps DEF WalkStep
<1>3. CASE Flip2And4 \/ Flip8 \/ Bytes \/ Words \/ Dwords \/ ExtrasOver
               \/ ExtrasInsert
  <2>1. WalkStep
    BY <1>3, WalkSteps
  <2> QED BY <2>1, WalkKeeps DEF WalkStep
<1>4. CASE mark_as_det_done
  BY <1>4, MarkStep
<1>5. CASE HavocStart
  BY <1>5, HavocStartStep, HavocKeeps
<1>6. CASE Stack
  BY <1>6, StackStep, HavocKeeps
<1>7. CASE InPlace \/ OverwritePart \/ Delete \/ Clone \/ InsertExtra
  BY <1>7, MutateSteps, HavocKeeps
<1>8. CASE HavocRun
  BY <1>8, HavocRunStep, HavocKeeps
<1>9. CASE Splice
  BY <1>9, SpliceStep, HavocKeeps
<1>10. CASE Finish \/ Abandon
  BY <1>10, LeaveStep DEF Finish, Abandon
<1> QED BY <1>1, <1>2, <1>3, <1>4, <1>5, <1>6, <1>7, <1>8, <1>9, <1>10
        DEF FuzzNext, Work

(* The beginning.                                                          *)
LEMMA FuzzBegins ==
    ASSUME FuzzInit
    PROVE  FuzzShape
<1>1. /\ subject \in Subjects
      /\ stage = "start" /\ calls = 0 /\ i = 0
      /\ in_buf = orig_in /\ out_buf = orig_in
      /\ eff_map = {} /\ a_extras = <<>>
      /\ handicap = subject.handicap
      /\ perf_score = 100 /\ orig_perf = 100
      /\ stage_cur = 0 /\ stage_max = 0 /\ left = 0
      /\ temp_len = len /\ alloc = len
      /\ splice_cycle = 0 /\ files = subject.queue
  BY DEF FuzzInit
<1>2. /\ IsFile(orig_in) /\ len \in Nat /\ len >= 1
  BY <1>1, OrigIsFile DEF len
<1>3. Place
  BY <1>1, <1>2 DEF Place, WalkStages
<1>4. DictionaryFacts
  <2>1. a_extras \in Seq(Entries) /\ DOMAIN a_extras = {} /\ Len(a_extras) = 0
    BY <1>1
  <2>2. MAX_AUTO_EXTRAS \in Nat
    BY ConfigAssumption
  <2>3. Apart(a_extras) /\ Ordered(a_extras) /\ OnlyTokens(a_extras)
    BY <2>1 DEF Apart, Ordered, OnlyTokens
  <2> QED BY <1>1, <2>1, <2>2, <2>3 DEF DictionaryFacts, IsDictionary
<1>5. Buffers
  BY <1>1, <1>2 DEF Buffers
<1>6. FuzzNumbers
  <2>1. subject.handicap \in Nat /\ SPLICE_CYCLES \in Nat
    BY <1>1, SubjectAssumption, ConfigAssumption
  <2> QED BY <1>1, <1>2, <2>1 DEF FuzzNumbers
<1>7. FileTypes
  BY <1>1, SubjectAssumption DEF FileTypes
<1>8. BufferFits
  BY <1>1, <1>2 DEF BufferFits
<1> QED BY <1>1, <1>3, <1>4, <1>5, <1>6, <1>7, <1>8 DEF FuzzShape

(* Nothing happens.                                                        *)
LEMMA FuzzStutter ==
    ASSUME FuzzShape, UNCHANGED fuzz_vars
    PROVE  FuzzShape' /\ Unlost(a_extras, a_extras')
<1>1. UNCHANGED <<subject, stage, calls, i, in_buf, out_buf, eff_map,
                  a_collect, prev_cksum, a_extras, handicap, perf_score,
                  orig_perf, stage_cur, stage_max, left, temp_len, alloc,
                  splice_cycle, files>>
  BY DEF fuzz_vars, det, entry, havoc
<1>2. /\ subject \in Subjects /\ Place /\ DictionaryFacts /\ Buffers
      /\ FuzzNumbers /\ FileTypes /\ BufferFits
  BY DEF FuzzShape
<1>3. len' = len /\ orig_in' = orig_in
  BY <1>1 DEF len, orig_in
<1>4. Place'
  BY <1>1, <1>2, <1>3 DEF Place
<1>5. Buffers'
  BY <1>1, <1>2, <1>3 DEF Buffers
<1>6. FuzzNumbers' /\ FileTypes'
  BY <1>1, <1>2 DEF FuzzNumbers, FileTypes
<1>7. BufferFits'
  BY <1>1, <1>2, <1>3 DEF BufferFits
<1>8. DictionaryFacts'
  <2>1. /\ RunSoFar(i, a_collect, prev_cksum)'
               <=> RunSoFar(i, a_collect, prev_cksum)
        /\ KnownUpTo(a_extras, i - 1)' <=> KnownUpTo(a_extras, i - 1)
        /\ KnownUpTo(a_extras, Len(orig_in))'
               <=> KnownUpTo(a_extras, Len(orig_in))
        /\ OnlyTokens(a_extras)' <=> OnlyTokens(a_extras)
    BY <1>1, SameSubject
  <2> QED BY <1>1, <1>2, <2>1 DEF DictionaryFacts
<1>9. Unlost(a_extras, a_extras')
  BY <1>1, SameUnlost
<1> QED BY <1>1, <1>2, <1>4, <1>5, <1>6, <1>7, <1>8, <1>9 DEF FuzzShape

(* The shape of the state is kept.                                         *)
LEMMA FuzzShapeCorrect == FuzzSpec => []FuzzShape
<1>1. FuzzInit => FuzzShape
  BY FuzzBegins
<1>2. FuzzShape /\ [FuzzNext]_fuzz_vars => FuzzShape'
  BY FuzzStep, FuzzStutter
<1> QED BY <1>1, <1>2, PTL DEF FuzzSpec

(* What the invariant says of the dictionary.                              *)
LEMMA ShapeDictionary ==
    ASSUME FuzzShape
    PROVE  AutoAreTokens
<1>1. /\ IsDictionary(a_extras) /\ OnlyTokens(a_extras)
      /\ stage = "flip2" /\ ~ subject.dumb_mode
             /\ Len(a_extras) < MAX_AUTO_EXTRAS
             => KnownUpTo(a_extras, Len(orig_in))
      /\ subject \in Subjects
  BY DEF FuzzShape, DictionaryFacts
<1>2. ASSUME stage = "flip2", ~ subject.dumb_mode,
             Len(a_extras) < MAX_AUTO_EXTRAS, NEW t \in Tokens
      PROVE  \/ Rejected(t)
             \/ \E k \in DOMAIN a_extras : memcmp_nocase(a_extras[k].data, t)
  <2>1. PICK a, b \in DOMAIN orig_in :
            TokenAt(a, b) /\ t = SubSeq(orig_in, a, b)
    BY TokensAre
  <2>2. IsFile(orig_in)
    BY <1>1, OrigIsFile
  <2>3. b <= Len(orig_in)
    BY <2>2 DEF IsFile
  <2>4. Rejected(t) \/ Known(a_extras, t)
    BY <1>1, <1>2, <2>1, <2>3 DEF KnownUpTo
  <2> QED BY <2>4 DEF Known
<1> QED BY <1>1, <1>2 DEF AutoAreTokens, IsDictionary, Apart, OnlyTokens

(* Every variable of fuzz_one stays within its type, for every subject and *)
(* every configuration: in particular the positions stay inside of the     *)
(* buffer, no buffer is empty, the effector map is not written beyond its  *)
(* end and the automatic dictionary has its length at most.                *)
THEOREM FuzzTypeCorrect == FuzzSpec => []FuzzTypeOK
<1>1. FuzzShape => FuzzTypeOK
  <2> SUFFICES ASSUME FuzzShape PROVE FuzzTypeOK
    OBVIOUS
  <2>1. /\ Place /\ DictionaryFacts /\ Buffers /\ FuzzNumbers /\ FileTypes
    BY DEF FuzzShape
  <2>2. a_extras \in Seq([data : Seq(Byte), hit_cnt : Nat])
        /\ Len(a_extras) <= MAX_AUTO_EXTRAS
    BY <2>1 DEF DictionaryFacts, IsDictionary, Entries
  <2>3. /\ stage \in {"start", "flip1", "flip2", "flip4", "flip8", "flip16",
                      "flip32", "arith8", "arith16", "arith32", "int8",
                      "int16", "int32", "ext_UO", "ext_UI", "ext_AO", "mark",
                      "havoc", "stack", "mutate", "splice"}
        /\ i \in 0 .. len
    BY <2>1 DEF Place, WalkStages, HavocStages
  <2>4. /\ IsFile(in_buf) /\ (out_buf = Mangled \/ IsFile(out_buf))
        /\ eff_map \subseteq 0 .. EFF_ALEN(Len(orig_in)) - 1
    BY <2>1 DEF Buffers
  <2>5. /\ {calls, handicap, perf_score, orig_perf, stage_cur, stage_max,
            left, temp_len, alloc} \subseteq Nat
        /\ splice_cycle \in 0 .. SPLICE_CYCLES
    BY <2>1 DEF FuzzNumbers
  <2> QED BY <2>1, <2>2, <2>3, <2>4, <2>5 DEF FuzzTypeOK, FileTypes
<1> QED BY <1>1, FuzzShapeCorrect, PTL

(* Whenever a stage goes to its next position, and whenever an input of    *)
(* havoc has been run, out_buf is the input again, although the tokens     *)
(* written over each other are undone for the length of the last only: the *)
(* dictionaries are sorted by size, and each token covers those before it. *)
THEOREM OutBufCorrect == FuzzSpec => []OutBufRestored
<1>1. FuzzShape => OutBufRestored
  BY DEF FuzzShape, Buffers, OutBufRestored
<1> QED BY <1>1, FuzzShapeCorrect, PTL

(* The buffer that havoc mangles is never empty, never longer than its     *)
(* allocation and grows past the input below MAX_FILE only; the allocation *)
(* has room for the restore.                                               *)
THEOREM BufferFitsCorrect == FuzzSpec => []BufferFits
<1>1. FuzzShape => BufferFits
  BY DEF FuzzShape
<1> QED BY <1>1, FuzzShapeCorrect, PTL

(* The automatic dictionary holds whole tokens of the entry only, each     *)
(* once whatever its case, and all useful ones unless it is full.          *)
THEOREM AutoCorrect == FuzzSpec => []AutoAreTokens
<1>1. FuzzShape => AutoAreTokens
  BY ShapeDictionary
<1> QED BY <1>1, FuzzShapeCorrect, PTL

(* A token only leaves the automatic dictionary while half of it was found *)
(* at least as often.                                                      *)
THEOREM UsefulCorrect == FuzzSpec => UsefulTokensStay
<1>1. FuzzShape /\ [FuzzNext]_fuzz_vars =>
          [\A j \in DOMAIN a_extras :
              \/ \E k \in DOMAIN a_extras' :
                     a_extras'[k].data = a_extras[j].data
              \/ Cardinality({k \in DOMAIN a_extras \ {j} :
                     a_extras[k].hit_cnt >= a_extras[j].hit_cnt})
                    >= MAX_AUTO_EXTRAS \div 2]_fuzz_vars
  BY FuzzStep DEF Unlost, TokenStays, AsUseful
<1> QED BY <1>1, FuzzShapeCorrect, PTL DEF FuzzSpec, UsefulTokensStay

(* The rounds that a stage of havoc is to have.                            *)
Wanted == IF splice_cycle > 0 THEN SPLICE_HAVOC
          ELSE IF doing_det THEN HAVOC_CYCLES_INIT ELSE HAVOC_CYCLES

(* A bound of the number of runs.                                          *)
InBound(max, most, perf, orig) ==
    \/ max <= (most * perf) \div 100
    \/ max <= (HAVOC_MIN * perf) \div orig

(* The score while an entry is worked on, and what a splice made.          *)
Scores ==
    /\ stage # "start" => orig_perf <= HAVOC_MAX_MULT * 100
    /\ stage \in WalkStages \union {"mark"}
           => perf_score = orig_perf /\ splice_cycle = 0
    /\ stage = "havoc" /\ splice_cycle = 0 => perf_score = orig_perf
    /\ stage \in {"stack", "mutate"} /\ orig_perf > 0 =>
           /\ perf_score <= 2 * (HAVOC_MAX_MULT * 100)
           /\ InBound(stage_max, Wanted, perf_score, orig_perf)
    /\ stage = "havoc" /\ splice_cycle > 0 => IsSpliced(in_buf, files)

(* Twice a quotient.                                                       *)
LEMMA Doubled ==
    ASSUME NEW a \in Nat, NEW b \in Nat, NEW o \in Nat, o >= 1,
           NEW m \in Nat, m <= (a * b) \div o
    PROVE  m * 2 <= (a * (b * 2)) \div o
<1> DEFINE x == a * b
<1>1. x \in Nat /\ a * (b * 2) = x * 2
  OBVIOUS
<1> HIDE DEF x
<1>2. (x \div o) * 2 <= (x * 2) \div o
  <2> DEFINE q == x \div o
             r == x % o
  <2>1. x = o * q + r /\ r \in 0 .. o - 1 /\ q \in Nat
    BY <1>1
  <2> HIDE DEF q, r
  <2>2. x * 2 = o * (q * 2) + r * 2
    BY <2>1
  <2>3. o * (q * 2) <= x * 2
    BY <2>1, <2>2
  <2>4. \A y, z \in Nat : o * y <= z => y <= z \div o
    OBVIOUS
  <2>5. q * 2 \in Nat /\ x * 2 \in Nat
    BY <1>1, <2>1
  <2>6. q * 2 <= (x * 2) \div o
    BY <2>3, <2>4, <2>5
  <2> QED BY <2>6 DEF q
<1>3. m <= x \div o /\ x \div o \in Nat
  BY <1>1 DEF x
<1>4. m * 2 <= (x \div o) * 2
  BY <1>3
<1>5. (x * 2) \div o \in Nat
  BY <1>1
<1> QED BY <1>1, <1>2, <1>3, <1>4, <1>5

(* The bound doubles with the score.                                       *)
LEMMA BoundDoubles ==
    ASSUME NEW max \in Nat, NEW most \in Nat, NEW perf \in Nat,
           NEW orig \in Nat, orig >= 1, InBound(max, most, perf, orig)
    PROVE  InBound(max * 2, most, perf * 2, orig)
<1>1. HAVOC_MIN \in Nat
  BY ConfigAssumption
<1>2. CASE max <= (most * perf) \div 100
  BY <1>2, Doubled DEF InBound
<1>3. CASE max <= (HAVOC_MIN * perf) \div orig
  BY <1>1, <1>3, Doubled DEF InBound
<1> QED BY <1>2, <1>3 DEF InBound

(* The first number of runs is in the bound.                               *)
LEMMA BoundBegins ==
    ASSUME NEW most \in Nat, NEW perf \in Nat, perf >= 1, NEW max,
           max = IF (most * perf) \div 100 < HAVOC_MIN THEN HAVOC_MIN
                 ELSE (most * perf) \div 100
    PROVE  InBound(max, most, perf, perf)
<1>1. HAVOC_MIN \in Nat
  BY ConfigAssumption
<1>2. most * perf \in Nat
  OBVIOUS
<1>3. (most * perf) \div 100 \in Nat
  BY <1>2
<1>4. HAVOC_MIN <= (HAVOC_MIN * perf) \div perf
  <2>1. \A y, z \in Nat : perf * y <= z => y <= z \div perf
    OBVIOUS
  <2>2. perf * HAVOC_MIN = HAVOC_MIN * perf /\ HAVOC_MIN * perf \in Nat
    BY <1>1
  <2>3. perf * HAVOC_MIN <= HAVOC_MIN * perf
    BY <2>2
  <2> QED BY <1>1, <2>1, <2>2, <2>3
<1> DEFINE w == (most * perf) \div 100
           v == (HAVOC_MIN * perf) \div perf
<1>5. max = IF w < HAVOC_MIN THEN HAVOC_MIN ELSE w
  OBVIOUS
<1>6. w \in Nat /\ HAVOC_MIN <= v
  BY <1>3, <1>4
<1> HIDE DEF w, v
<1>7. max <= w \/ max <= v
  BY <1>1, <1>5, <1>6
<1> QED BY <1>7 DEF InBound, w, v

(* The steps.                                                              *)
LEMMA ScoreStep ==
    ASSUME FuzzShape, Scores, FuzzNext
    PROVE  Scores'
<1>0. HAVOC_MAX_MULT \in Nat
  BY ConfigAssumption
<1>1. CASE Start
  <2>1. /\ stage' \in {"havoc", "flip1"} /\ splice_cycle' = 0
        /\ perf_score' = orig_perf'
    BY <1>1 DEF Start
  <2>2. orig_perf' <= HAVOC_MAX_MULT * 100
    <3>1. subject \in Subjects /\ handicap \in Nat
      BY DEF FuzzShape, FuzzNumbers
    <3>2. PICK e \in subject.scores :
              orig_perf' = calculate_score(e, handicap)
      BY <1>1 DEF Start
    <3> QED BY <3>1, <3>2, EntryScore
  <2> QED BY <2>1, <2>2 DEF Scores
<1>2. CASE WalkStep
  <2>1. /\ stage \in WalkStages
        /\ UNCHANGED <<perf_score, orig_perf, splice_cycle>>
        /\ stage' \in WalkStages \union {"mark"}
    BY <1>2 DEF WalkStep, havoc
  <2>2. stage # "start" /\ stage' \notin {"havoc", "stack", "mutate"}
    BY <2>1 DEF WalkStages
  <2> QED BY <2>1, <2>2 DEF Scores
<1>3. CASE mark_as_det_done
  <2>1. /\ stage = "mark" /\ stage' = "havoc"
        /\ UNCHANGED <<perf_score, orig_perf, splice_cycle>>
    BY <1>3 DEF mark_as_det_done, havoc
  <2> QED BY <2>1 DEF Scores, WalkStages
<1>4. CASE HavocStart
  <2>1. /\ stage = "havoc" /\ stage' = "stack"
        /\ UNCHANGED <<orig_perf, splice_cycle, doing_det>>
        /\ perf_score' = IF splice_cycle = 0 THEN perf_score ELSE orig_perf
    BY <1>4 DEF HavocStart
  <2>2. orig_perf \in Nat /\ orig_perf <= HAVOC_MAX_MULT * 100
        /\ perf_score' = orig_perf
    BY <2>1 DEF Scores, FuzzShape, FuzzNumbers
  <2>3. LET w == (Wanted * orig_perf) \div 100
        IN  stage_max' = IF w < HAVOC_MIN THEN HAVOC_MIN ELSE w
    BY <1>4, <2>2 DEF HavocStart, Wanted
  <2>4. Wanted \in Nat /\ Wanted' = Wanted
    BY <2>1, ConfigAssumption DEF Wanted
  <2>5. ASSUME orig_perf > 0
        PROVE  InBound(stage_max', Wanted, orig_perf, orig_perf)
    <3>1. orig_perf >= 1
      BY <2>2, <2>5
    <3> QED BY <2>2, <2>3, <2>4, <3>1, BoundBegins
  <2>6. perf_score' <= 2 * (HAVOC_MAX_MULT * 100)
    BY <1>0, <2>2
  <2>7. orig_perf' > 0 =>
            InBound(stage_max', Wanted', perf_score', orig_perf')
    BY <2>1, <2>2, <2>4, <2>5
  <2> QED BY <2>1, <2>2, <2>6, <2>7 DEF Scores, WalkStages
<1>5. CASE Stack
  <2>1. /\ stage = "stack" /\ stage' \in {"mutate", "splice"}
        /\ UNCHANGED <<perf_score, orig_perf, splice_cycle, doing_det,
                       stage_max>>
    BY <1>5 DEF Stack
  <2>2. Wanted' = Wanted
    BY <2>1 DEF Wanted
  <2> QED BY <2>1, <2>2 DEF Scores, WalkStages
<1>6. CASE InPlace \/ OverwritePart \/ Delete \/ Clone \/ InsertExtra
  <2>1. /\ stage = "mutate" /\ stage' = "mutate"
        /\ UNCHANGED <<perf_score, orig_perf, splice_cycle, doing_det,
                       stage_max>>
    BY <1>6 DEF InPlace, OverwritePart, Delete, Clone, InsertExtra, Mutated
  <2>2. Wanted' = Wanted
    BY <2>1 DEF Wanted
  <2> QED BY <2>1, <2>2 DEF Scores, WalkStages
<1>7. CASE HavocRun
  <2>1. /\ stage = "mutate" /\ stage' = "stack"
        /\ UNCHANGED <<orig_perf, splice_cycle, doing_det>>
        /\ UNCHANGED <<stage_max, perf_score>> \/ Longer
    BY <1>7 DEF HavocRun
  <2>2. Wanted \in Nat /\ Wanted' = Wanted
    BY <2>1, ConfigAssumption DEF Wanted
  <2>3. perf_score \in Nat /\ orig_perf \in Nat /\ stage_max \in Nat
    BY DEF FuzzShape, FuzzNumbers
  <2>4. CASE UNCHANGED <<stage_max, perf_score>>
    BY <2>1, <2>2, <2>4 DEF Scores, WalkStages
  <2>5. CASE /\ perf_score <= HAVOC_MAX_MULT * 100
             /\ stage_max' = stage_max * 2 /\ perf_score' = perf_score * 2
    <3>1. ASSUME orig_perf > 0
          PROVE  InBound(stage_max * 2, Wanted, perf_score * 2, orig_perf)
      <4>1. InBound(stage_max, Wanted, perf_score, orig_perf)
            /\ orig_perf >= 1
        BY <2>1, <2>3, <3>1 DEF Scores
      <4> QED BY <2>2, <2>3, <4>1, BoundDoubles
    <3>2. perf_score' <= 2 * (HAVOC_MAX_MULT * 100)
      BY <1>0, <2>3, <2>5
    <3>3. orig_perf' > 0 =>
              InBound(stage_max', Wanted', perf_score', orig_perf')
      BY <2>1, <2>2, <2>5, <3>1
    <3>4. orig_perf' <= HAVOC_MAX_MULT * 100
      BY <2>1 DEF Scores
    <3> QED BY <2>1, <3>2, <3>3, <3>4 DEF Scores, WalkStages
  <2> QED BY <2>1, <2>4, <2>5 DEF Longer
<1>8. CASE Splice
  <2>1. /\ stage = "splice" /\ stage' \in {"splice", "havoc"}
        /\ splice_cycle' = splice_cycle + 1
        /\ UNCHANGED <<subject, orig_perf, files>>
    BY <1>8 DEF Splice
  <2>2. stage' = "havoc" => IsSpliced(in_buf', files)
    BY <1>8, SpliceStep
  <2>3. splice_cycle' # 0
    BY <2>1 DEF FuzzShape, FuzzNumbers
  <2>4. IsSpliced(in_buf, files)' <=> IsSpliced(in_buf', files)
    BY <2>1 DEF IsSpliced, orig_in
  <2> QED BY <2>1, <2>2, <2>3, <2>4 DEF Scores, WalkStages
<1>9. CASE Leaves
  BY <1>9 DEF Leaves, Scores, WalkStages
<1>10. Flip1 \/ Flip2And4 \/ Flip8 \/ Bytes \/ Words \/ Dwords \/ ExtrasOver
           \/ ExtrasInsert => WalkStep
  BY Flip1Step, WalkSteps
<1> QED BY <1>1, <1>2, <1>3, <1>4, <1>5, <1>6, <1>7, <1>8, <1>9, <1>10
        DEF FuzzNext, Work, Finish, Abandon

(* The scores are always right.                                            *)
LEMMA ScoresCorrect == FuzzSpec => []Scores
<1>1. FuzzInit => Scores
  BY DEF FuzzInit, Scores, WalkStages
<1>2. FuzzShape /\ Scores /\ [FuzzNext]_fuzz_vars => Scores'
  <2>1. ASSUME Scores, UNCHANGED fuzz_vars PROVE Scores'
    <3>1. UNCHANGED <<subject, stage, in_buf, doing_det, perf_score,
                      orig_perf, stage_max, splice_cycle, files>>
      BY <2>1 DEF fuzz_vars, havoc
    <3> QED BY <2>1, <3>1 DEF Scores, InBound, Wanted, IsSpliced, orig_in
  <2> QED BY <2>1, ScoreStep
<1> QED BY <1>1, <1>2, FuzzShapeCorrect, PTL DEF FuzzSpec

(* A stage of havoc grows with the score only, which stops at twice its    *)
(* largest value: the doubling ends, whatever is found.                    *)
THEOREM HavocCorrect == FuzzSpec => []HavocBounded
<1>1. Scores => HavocBounded
  <2> SUFFICES ASSUME Scores, stage \in {"stack", "mutate"}, orig_perf > 0
               PROVE  /\ perf_score <= 2 * HAVOC_MAX_MULT * 100
                      /\ InBound(stage_max, Wanted, perf_score, orig_perf)
    BY DEF HavocBounded, InBound, Wanted
  <2>1. HAVOC_MAX_MULT \in Nat
    BY ConfigAssumption
  <2>2. 2 * HAVOC_MAX_MULT * 100 = 2 * (HAVOC_MAX_MULT * 100)
    BY <2>1
  <2> QED BY <2>2 DEF Scores
<1> QED BY <1>1, ScoresCorrect, PTL

(* What is spliced is not the entry again, and ends as another file of the *)
(* queue does.                                                             *)
THEOREM SpliceCorrect == FuzzSpec => []SpliceDiffers
<1>1. Scores => SpliceDiffers
  BY DEF Scores, SpliceDiffers, IsSpliced, len
<1> QED BY <1>1, ScoresCorrect, PTL

-----------------------------------------------------------------------------
(* What the deterministic stages have tried.                               *)

(* The order of the stages that are looked at; the sums are between them.  *)
Rank(s) ==
    CASE s = "flip1"  -> 1
      [] s = "flip2"  -> 2
      [] s = "flip4"  -> 3
      [] s = "flip8"  -> 4
      [] s = "flip16" -> 5
      [] s = "flip32" -> 6
      [] s \in {"arith8", "arith16", "arith32", "int8", "int16", "int32"} -> 7
      [] s = "ext_UO" -> 8
      [] s = "ext_UI" -> 9
      [] s = "ext_AO" -> 10
      [] s = "mark"   -> 11
      [] OTHER        -> 0

LookedAt == {"flip1", "flip2", "flip4", "flip8", "flip16", "flip32",
             "ext_UO", "ext_UI"}

(* A stage has been at the positions below this one.                       *)
Reach(t) == IF Rank(stage) > Rank(t) THEN len + 1
            ELSE IF stage = t THEN i ELSE 0

FlipsDone(k, n) ==
    \A b \in 0 .. 8 * len - k :
        b \div 8 < n => FlipBits(in_buf, b, k) \in executed

BytesDone(n) ==
    \A p \in 0 .. len - 1 : p < n => FlipBytes(in_buf, p, 1) \in executed

WordsDone(w, n) ==
    \A p \in 0 .. len - w : p < n => Settled(FlipBytes(in_buf, p, w))

OversDone(n) ==
    \A p \in 0 .. len - 1 : p < n =>
        \A token \in Range(subject.extras) :
            p + Len(token) <= len => Settled(Put(in_buf, p, token))

InsertsDone(n) ==
    \A p \in 0 .. len : p < n =>
        \A token \in Range(subject.extras) :
            len + Len(token) <= MAX_FILE =>
                SubSeq(in_buf, 1, p) \o token \o SubSeq(in_buf, p + 1, len)
                    \in executed

(* Each stage has tried what it is to try at the positions it has been at. *)
WorkDone ==
    /\ FlipsDone(1, Reach("flip1"))
    /\ FlipsDone(2, Reach("flip2"))
    /\ FlipsDone(4, Reach("flip4"))
    /\ BytesDone(Reach("flip8"))
    /\ WordsDone(2, Reach("flip16"))
    /\ WordsDone(4, Reach("flip32"))
    /\ OversDone(Reach("ext_UO"))
    /\ InsertsDone(Reach("ext_UI"))

(* A stage is left out when it has nothing to try.                         *)
Void(t) ==
    \/ t = "flip16" /\ len < 2
    \/ t = "flip32" /\ len < 4
    \/ t \in {"ext_UO", "ext_UI"} /\ subject.extras = <<>>

(* The ranks.                                                              *)
LEMMA Ranks ==
    /\ Rank("flip1") = 1 /\ Rank("flip2") = 2 /\ Rank("flip4") = 3
    /\ Rank("flip8") = 4 /\ Rank("flip16") = 5 /\ Rank("flip32") = 6
    /\ \A s \in {"arith8", "arith16", "arith32", "int8", "int16", "int32"} :
           Rank(s) = 7
    /\ Rank("ext_UO") = 8 /\ Rank("ext_UI") = 9 /\ Rank("ext_AO") = 10
    /\ Rank("mark") = 11 /\ Rank("start") = 0
    /\ \A s \in HavocStages : Rank(s) = 0
<1>1. /\ Rank("flip1") = 1 /\ Rank("flip2") = 2 /\ Rank("flip4") = 3
      /\ Rank("flip8") = 4 /\ Rank("flip16") = 5 /\ Rank("flip32") = 6
  BY DEF Rank
<1>2. \A s \in {"arith8", "arith16", "arith32", "int8", "int16", "int32"} :
          Rank(s) = 7
  BY DEF Rank
<1>3. /\ Rank("ext_UO") = 8 /\ Rank("ext_UI") = 9 /\ Rank("ext_AO") = 10
      /\ Rank("mark") = 11 /\ Rank("start") = 0
  BY DEF Rank
<1>4. \A s \in HavocStages : Rank(s) = 0
  BY DEF Rank, HavocStages
<1> QED BY <1>1, <1>2, <1>3, <1>4

(* The types of ranks.                                                     *)
LEMMA RankType ==
    ASSUME NEW s
    PROVE  Rank(s) \in 0 .. 11
<1> QED BY DEF Rank

(* A stage that is not left out comes in its turn.                         *)
LEMMA FollowRank ==
    ASSUME stage \in WalkStages, len \in Nat
    PROVE  /\ Rank(Follow(stage)) >= Rank(stage)
           /\ stage \in LookedAt => Rank(Follow(stage)) > Rank(stage)
           /\ \A t \in LookedAt : Rank(stage) < Rank(t)
                      /\ Rank(t) < Rank(Follow(stage)) => Void(t)
<1>1. \/ Dictionary = "ext_UO"
      \/ Dictionary \in {"ext_AO", "mark"} /\ subject.extras = <<>>
  BY DEF Dictionary
<1>2. Arith \in {"int8", "arith8"}
  BY DEF Arith
<1>0. \A t : Rank(t) \in 0 .. 11
  BY RankType
<1> DEFINE s == stage
           f == Follow(stage)
<1>3. CASE s \in {"flip1", "flip2", "flip4"}
  <2>1. \/ s = "flip1" /\ f = "flip2"
        \/ s = "flip2" /\ f = "flip4"
        \/ s = "flip4" /\ f = "flip8"
    BY <1>3 DEF Follow
  <2> QED BY <2>1, Ranks DEF LookedAt
<1>4. CASE s = "flip8"
  <2>1. f = IF len < 2 THEN Arith ELSE "flip16"
    BY <1>4 DEF Follow
  <2> QED BY <1>2, <1>4, <2>1, Ranks DEF LookedAt, Void
<1>5. CASE s = "flip16"
  <2>1. f = IF len < 4 THEN Arith ELSE "flip32"
    BY <1>5 DEF Follow
  <2> QED BY <1>2, <1>5, <2>1, Ranks DEF LookedAt, Void
<1>6. CASE s = "flip32"
  <2>1. f = Arith
    BY <1>6 DEF Follow
  <2> QED BY <1>2, <1>6, <2>1, Ranks DEF LookedAt
<1>7. CASE s \in {"arith8", "arith16", "arith32"}
  <2>1. f \in {"arith16", "arith32", "int8"}
    BY <1>7 DEF Follow
  <2>2. Rank(f) = 7 /\ Rank(s) = 7 /\ s \notin LookedAt
    BY <1>7, <2>1, Ranks DEF LookedAt
  <2> HIDE DEF f, s
  <2> QED BY <1>0, <2>2 DEF s, f
<1>8. CASE s \in {"int8", "int16", "int32"}
  <2>1. f \in {"int16", "int32"} \/ f = Dictionary
    BY <1>8 DEF Follow
  <2>2. Rank(s) = 7 /\ s \notin LookedAt
    BY <1>8, Ranks DEF LookedAt
  <2> HIDE DEF f, s
  <2>3. CASE f \in {"int16", "int32"}
    <3>1. Rank(f) = 7
      BY <2>3, Ranks
    <3> QED BY <1>0, <2>2, <3>1 DEF f, s
  <2>4. CASE f = "ext_UO"
    BY <2>2, <2>4, Ranks DEF f, s, LookedAt
  <2>5. CASE f \in {"ext_AO", "mark"} /\ subject.extras = <<>>
    <3>1. Rank(f) \in {10, 11}
      BY <2>5, Ranks
    <3>2. \A t \in LookedAt : Rank(t) <= 7 \/ Void(t)
      BY <2>5, Ranks DEF LookedAt, Void
    <3>3. \A t \in LookedAt : Rank(t) \in 0 .. 11
      BY Ranks DEF LookedAt
    <3> QED BY <2>2, <3>1, <3>2, <3>3 DEF f, s
  <2> QED BY <1>1, <2>1, <2>3, <2>4, <2>5
<1>9. CASE s \in {"ext_UO", "ext_UI", "ext_AO"}
  <2>1. \/ s = "ext_UO" /\ f = "ext_UI"
        \/ s = "ext_UI" /\ f \in {"ext_AO", "mark"}
        \/ s = "ext_AO" /\ f = "mark"
    BY <1>9 DEF Follow
  <2>2. \A t \in LookedAt : Rank(t) \in 0 .. 9
    BY Ranks DEF LookedAt
  <2>3. \/ s = "ext_UO" /\ Rank(s) = 8 /\ Rank(f) = 9
        \/ s = "ext_UI" /\ Rank(s) = 9 /\ Rank(f) \in {10, 11}
        \/ s \notin LookedAt /\ Rank(s) = 10 /\ Rank(f) = 11
    BY <2>1, Ranks DEF LookedAt
  <2> HIDE DEF f, s
  <2>4. /\ Rank(f) > Rank(s)
        /\ \A t \in LookedAt : ~ (Rank(s) < Rank(t) /\ Rank(t) < Rank(f))
    BY <2>2, <2>3
  <2> QED BY <1>0, <2>4 DEF s, f
<1> QED BY <1>3, <1>4, <1>5, <1>6, <1>7, <1>8, <1>9 DEF WalkStages

(* Stages that are looked at have ranks of their own.                      *)
LEMMA RankUnique ==
    ASSUME NEW t \in LookedAt, NEW s, Rank(s) = Rank(t)
    PROVE  s = t
<1> QED BY DEF Rank, LookedAt

(* How far the stages are after a step.                                    *)
LEMMA ReachMoves ==
    ASSUME stage \in WalkStages, len \in Nat, i \in Nat,
           NEW last \in Int, ToNext(last), UNCHANGED <<subject, in_buf>>,
           NEW t \in LookedAt
    PROVE  /\ t # stage => Reach(t)' = Reach(t) \/ Void(t)
           /\ t = stage => \A p \in Nat : p <= last /\ p < Reach(t)' => p <= i
<1>1. len' = len
  BY DEF len
<1>2. /\ Rank(stage) \in Nat /\ Rank(t) \in Nat
      /\ Rank(stage') \in Nat
  BY RankType
<1>3. CASE i < last
  <2>1. i' = i + 1 /\ stage' = stage
    BY <1>3 DEF ToNext
  <2>2. Reach(t)' = IF Rank(stage) > Rank(t) THEN len + 1
                    ELSE IF stage = t THEN i + 1 ELSE 0
    BY <1>1, <2>1 DEF Reach
  <2>3. t = stage => Reach(t)' = i + 1
    BY <1>2, <2>2
  <2>4. t # stage => Reach(t)' = Reach(t)
    BY <2>2 DEF Reach
  <2> QED BY <2>3, <2>4
<1>4. CASE ~ (i < last)
  <2>1. i' = 0 /\ stage' = Follow(stage)
    BY <1>4 DEF ToNext
  <2>2. /\ Rank(stage') >= Rank(stage)
        /\ Rank(stage) < Rank(t) /\ Rank(t) < Rank(stage') => Void(t)
    BY <2>1, FollowRank
  <2>3. Reach(t)' = IF Rank(stage') > Rank(t) THEN len + 1 ELSE 0
    BY <1>1, <2>1 DEF Reach
  <2>4. ASSUME t # stage
        PROVE  Reach(t)' = Reach(t) \/ Void(t)
    <3>1. Reach(t) = IF Rank(stage) > Rank(t) THEN len + 1 ELSE 0
      BY <2>4 DEF Reach
    <3>2. Rank(stage) # Rank(t)
      BY <2>4, RankUnique
    <3> QED BY <1>2, <2>2, <2>3, <3>1, <3>2
  <2>5. \A p \in Nat : p <= last => p <= i
    BY <1>4
  <2> QED BY <2>4, <2>5
<1> QED BY <1>3, <1>4

(* A position that a stage has been at after a step was it before, or is   *)
(* the one of this step.                                                   *)
LEMMA ReachBefore ==
    ASSUME stage \in WalkStages, len \in Nat, i \in Nat,
           NEW last \in Int, ToNext(last), UNCHANGED <<subject, in_buf>>,
           NEW t \in LookedAt, NEW p \in Nat, p < Reach(t)',
           t = stage => p <= last
    PROVE  p < Reach(t) \/ Void(t) \/ (t = stage /\ p = i)
<1>1. CASE t # stage
  BY <1>1, ReachMoves
<1>2. CASE t = stage
  <2>1. p <= i
    BY <1>2, ReachMoves
  <2>2. Reach(t) = i
    <3>1. Rank(t) \in Nat
      BY RankType
    <3> QED BY <1>2, <3>1 DEF Reach
  <2> QED BY <1>2, <2>1, <2>2
<1> QED BY <1>1, <1>2

(* What is settled stays so.                                               *)
LEMMA SettledStays ==
    ASSUME UNCHANGED <<in_buf, eff_map>>, executed \subseteq executed'
    PROVE  \A c : Settled(c) => Settled(c)'
<1>1. len' = len
  BY DEF len
<1>2. \A c : Blocks(c)' = Blocks(c)
  BY <1>1 DEF Blocks
<1> QED BY <1>2 DEF Settled, Tried

(* No stage has been anywhere.                                             *)
LEMMA NothingDone ==
    ASSUME Rank(stage) = 0 \/ (stage = "flip1" /\ i = 0)
    PROVE  WorkDone
<1>1. \A t \in LookedAt : Reach(t) = 0
  <2> SUFFICES ASSUME NEW t \in LookedAt PROVE Reach(t) = 0
    OBVIOUS
  <2>1. Rank(t) \in 1 .. 11
    BY Ranks DEF LookedAt
  <2>2. CASE Rank(stage) = 0
    BY <2>1, <2>2 DEF Reach
  <2>3. CASE stage = "flip1" /\ i = 0
    BY <2>1, <2>3, Ranks DEF Reach
  <2> QED BY <2>2, <2>3
<1>2. /\ Reach("flip1") = 0 /\ Reach("flip2") = 0 /\ Reach("flip4") = 0
      /\ Reach("flip8") = 0 /\ Reach("flip16") = 0 /\ Reach("flip32") = 0
      /\ Reach("ext_UO") = 0 /\ Reach("ext_UI") = 0
  BY <1>1 DEF LookedAt
<1>3. \A k : FlipsDone(k, 0)
  <2>1. \A b \in Nat : ~ (b \div 8 < 0)
    OBVIOUS
  <2> QED BY <2>1 DEF FlipsDone
<1>4. BytesDone(0) /\ OversDone(0) /\ InsertsDone(0)
  BY DEF BytesDone, OversDone, InsertsDone
<1>5. \A w : WordsDone(w, 0)
  BY DEF WordsDone
<1> QED BY <1>2, <1>3, <1>4, <1>5 DEF WorkDone

-----------------------------------------------------------------------------
(* One stage after another.                                                *)

(* The walking bits have settled one more position after a step that       *)
(* settles its own; what was settled stays so.                             *)
LEMMA FlipsNext ==
    ASSUME stage \in WalkStages, len \in Nat, i \in Nat,
           NEW last \in Int, ToNext(last), UNCHANGED <<subject, in_buf>>,
           executed \subseteq executed',
           NEW t \in {"flip1", "flip2", "flip4"}, NEW k \in {1, 2, 4},
           FlipsDone(k, Reach(t)),
           stage = t => /\ last = len - 1
                        /\ \A b \in 0 .. 8 * len - k : b \div 8 = i =>
                               FlipBits(in_buf, b, k) \in executed'
    PROVE  FlipsDone(k, Reach(t))'
<1>1. len' = len
  BY DEF len
<1>2. t \in LookedAt /\ ~ Void(t)
  BY DEF LookedAt, Void
<1>3. ASSUME NEW b \in 0 .. 8 * len - k, b \div 8 < Reach(t)'
      PROVE  FlipBits(in_buf, b, k) \in executed'
  <2> DEFINE p == b \div 8
  <2>1. p \in Nat /\ p <= len - 1
    OBVIOUS
  <2> HIDE DEF p
  <2>2. p < Reach(t)'
    BY <1>3 DEF p
  <2>3. p < Reach(t) \/ (t = stage /\ p = i)
    BY <1>2, <2>1, <2>2, ReachBefore
  <2>4. CASE p < Reach(t)
    BY <2>4 DEF FlipsDone, p
  <2>5. CASE t = stage /\ p = i
    BY <2>5 DEF p
  <2> QED BY <2>3, <2>4, <2>5
<1> QED BY <1>1, <1>3 DEF FlipsDone

(* The same of the walking byte.                                           *)
LEMMA BytesNext ==
    ASSUME stage \in WalkStages, len \in Nat, i \in Nat,
           NEW last \in Int, ToNext(last), UNCHANGED <<subject, in_buf>>,
           executed \subseteq executed',
           BytesDone(Reach("flip8")),
           stage = "flip8" => /\ last = len - 1
                              /\ FlipBytes(in_buf, i, 1) \in executed'
    PROVE  BytesDone(Reach("flip8"))'
<1>1. len' = len
  BY DEF len
<1>2. "flip8" \in LookedAt /\ ~ Void("flip8")
  BY DEF LookedAt, Void
<1>3. ASSUME NEW p \in 0 .. len - 1, p < Reach("flip8")'
      PROVE  FlipBytes(in_buf, p, 1) \in executed'
  <2>1. p \in Nat /\ p <= len - 1
    OBVIOUS
  <2>2. p < Reach("flip8") \/ (stage = "flip8" /\ p = i)
    BY <1>2, <1>3, <2>1, ReachBefore
  <2>3. CASE p < Reach("flip8")
    BY <2>3 DEF BytesDone
  <2>4. CASE stage = "flip8" /\ p = i
    BY <2>4
  <2> QED BY <2>2, <2>3, <2>4
<1> QED BY <1>1, <1>3 DEF BytesDone

(* While the effector map is filled, no stage that looks at it has begun.  *)
LEMMA MapFirst ==
    ASSUME stage = "flip8"
    PROVE  \A t \in {"flip16", "flip32", "ext_UO", "ext_UI"} : Reach(t) = 0
<1> QED BY Ranks DEF Reach

(* The same of the walking words.                                          *)
LEMMA WordsNext ==
    ASSUME stage \in WalkStages, len \in Nat, i \in Nat,
           NEW last \in Int, ToNext(last), UNCHANGED <<subject, in_buf>>,
           executed \subseteq executed', eff_map' = eff_map \/ stage = "flip8",
           NEW t, NEW w, <<t, w>> \in {<<"flip16", 2>>, <<"flip32", 4>>},
           WordsDone(w, Reach(t)),
           stage = t => /\ last = len - w
                        /\ \A p \in 0 .. len - w : p = i =>
                               Settled(FlipBytes(in_buf, p, w))'
    PROVE  WordsDone(w, Reach(t))'
<1>1. len' = len
  BY DEF len
<1>2. /\ t \in LookedAt /\ t \in {"flip16", "flip32"} /\ w \in {2, 4}
      /\ (Void(t) => len < w)
  BY DEF LookedAt, Void
<1>3. ASSUME NEW p \in 0 .. len - w, p < Reach(t)'
      PROVE  Settled(FlipBytes(in_buf, p, w))'
  <2>1. p \in Nat /\ p <= len - w /\ ~ (len < w)
    BY <1>2
  <2>2. p < Reach(t) \/ (t = stage /\ p = i)
    BY <1>2, <1>3, <2>1, ReachBefore
  <2>3. CASE p < Reach(t)
    <3>1. Reach(t) # 0
      BY <2>1, <2>3
    <3>2. stage # "flip8"
      BY <1>2, <3>1, MapFirst
    <3>3. Settled(FlipBytes(in_buf, p, w))
      BY <2>3 DEF WordsDone
    <3>4. eff_map' = eff_map
      BY <3>2
    <3> QED BY <3>3, <3>4, SettledStays
  <2>4. CASE t = stage /\ p = i
    BY <2>4
  <2> QED BY <2>2, <2>3, <2>4
<1> QED BY <1>1, <1>3 DEF WordsDone

(* The same of the tokens written over the input.                          *)
LEMMA OversNext ==
    ASSUME stage \in WalkStages, len \in Nat, i \in Nat,
           NEW last \in Int, ToNext(last), UNCHANGED <<subject, in_buf>>,
           executed \subseteq executed', eff_map' = eff_map \/ stage = "flip8",
           OversDone(Reach("ext_UO")),
           stage = "ext_UO" =>
               /\ last = len - 1
               /\ \A token \in Range(subject.extras), p \in 0 .. len - 1 :
                      p = i /\ p + Len(token) <= len =>
                          Settled(Put(in_buf, p, token))'
    PROVE  OversDone(Reach("ext_UO"))'
<1> DEFINE t == "ext_UO"
<1>1. len' = len
  BY DEF len
<1>2. t \in LookedAt /\ (Void(t) => Range(subject.extras) = {})
  BY DEF LookedAt, Void, Range
<1>3. ASSUME NEW p \in 0 .. len - 1, p < Reach(t)',
             NEW token \in Range(subject.extras), p + Len(token) <= len
      PROVE  Settled(Put(in_buf, p, token))'
  <2>1. p \in Nat /\ p <= len - 1
    OBVIOUS
  <2>2. p < Reach(t) \/ (t = stage /\ p = i)
    BY <1>2, <1>3, <2>1, ReachBefore
  <2>3. CASE p < Reach(t)
    <3>1. Reach(t) # 0
      BY <2>1, <2>3
    <3>2. stage # "flip8"
      BY <3>1, MapFirst
    <3>3. Settled(Put(in_buf, p, token))
      BY <1>3, <2>3 DEF OversDone
    <3>4. eff_map' = eff_map
      BY <3>2
    <3> QED BY <3>3, <3>4, SettledStays
  <2>4. CASE t = stage /\ p = i
    BY <1>3, <2>4
  <2> QED BY <2>2, <2>3, <2>4
<1>4. OversDone(Reach(t))' <=>
          \A p \in 0 .. len - 1 : p < Reach(t)' =>
              \A token \in Range(subject.extras) :
                  p + Len(token) <= len => Settled(Put(in_buf, p, token))'
  BY <1>1 DEF OversDone
<1> QED BY <1>3, <1>4

(* The same of the tokens put into it.                                     *)
LEMMA InsertsNext ==
    ASSUME stage \in WalkStages, len \in Nat, i \in Nat,
           NEW last \in Int, ToNext(last), UNCHANGED <<subject, in_buf>>,
           executed \subseteq executed',
           InsertsDone(Reach("ext_UI")),
           stage = "ext_UI" =>
               /\ last = len
               /\ \A token \in Range(subject.extras) :
                      len + Len(token) <= MAX_FILE =>
                          SubSeq(in_buf, 1, i) \o token
                              \o SubSeq(in_buf, i + 1, len) \in executed'
    PROVE  InsertsDone(Reach("ext_UI"))'
<1> DEFINE t == "ext_UI"
<1>1. len' = len
  BY DEF len
<1>2. t \in LookedAt /\ (Void(t) => Range(subject.extras) = {})
  BY DEF LookedAt, Void, Range
<1>3. ASSUME NEW p \in 0 .. len, p < Reach(t)',
             NEW token \in Range(subject.extras), len + Len(token) <= MAX_FILE
      PROVE  SubSeq(in_buf, 1, p) \o token \o SubSeq(in_buf, p + 1, len)
                 \in executed'
  <2>1. p \in Nat /\ p <= len
    OBVIOUS
  <2>2. p < Reach(t) \/ (t = stage /\ p = i)
    BY <1>2, <1>3, <2>1, ReachBefore
  <2>3. CASE p < Reach(t)
    BY <1>3, <2>3 DEF InsertsDone
  <2>4. CASE t = stage /\ p = i
    BY <1>3, <2>4
  <2> QED BY <2>2, <2>3, <2>4
<1>4. InsertsDone(Reach(t))' <=>
          \A p \in 0 .. len : p < Reach(t)' =>
              \A token \in Range(subject.extras) :
                  len + Len(token) <= MAX_FILE =>
                      SubSeq(in_buf, 1, p) \o token
                          \o SubSeq(in_buf, p + 1, len) \in executed'
  BY <1>1 DEF InsertsDone
<1> QED BY <1>3, <1>4

-----------------------------------------------------------------------------
(* What a stage tries at a position.                                       *)

(* Blocks are in the order of their bytes.                                 *)
LEMMA BlockOrder ==
    ASSUME NEW a \in Nat, NEW b \in Nat, a <= b
    PROVE  EFF_APOS(a) \in Nat /\ EFF_APOS(b) \in Nat
           /\ EFF_APOS(a) <= EFF_APOS(b)
<1> DEFINE S == 2^EFF_MAP_SCALE2
<1>1. S \in Int /\ S >= 1
  BY ConfigAssumption
<1> HIDE DEF S
<1>2. a \div S \in Nat /\ b \div S \in Nat /\ a \div S <= b \div S
  BY <1>1
<1> QED BY <1>2 DEF EFF_APOS, S

(* A word without an effect is in blocks without one.                      *)
LEMMA PutBlocks ==
    ASSUME in_buf \in Seq(Byte), NEW p \in Nat, NEW word \in Seq(Byte),
           Span(p, Len(word)) \cap eff_map = {}
    PROVE  Blocks(Put(in_buf, p, word)) \cap eff_map = {}
<1> DEFINE c == Put(in_buf, p, word)
           w == Len(word)
<1>1. IsPut(c, in_buf, p, word)
  BY PutFacts
<1>2. w \in Nat /\ len \in Nat /\ len = Len(in_buf)
  BY DEF len
<1>3. /\ Len(c) = len
      /\ \A q \in 1 .. len : q - p \in 1 .. w \/ c[q] = in_buf[q]
  BY <1>1, <1>2 DEF IsPut
<1> HIDE DEF c, w
<1>4. Blocks(c) = {EFF_APOS(q - 1) : q \in {q \in 1 .. len : c[q] # in_buf[q]}}
  BY <1>3 DEF Blocks
<1>5. ASSUME NEW q \in 1 .. len, c[q] # in_buf[q]
      PROVE  EFF_APOS(q - 1) \in Span(p, w)
  <2>1. q - p \in 1 .. w
    BY <1>3, <1>5
  <2>2. /\ q - 1 \in Nat /\ p + w - 1 \in Nat
        /\ p <= q - 1 /\ q - 1 <= p + w - 1
    BY <1>2, <2>1
  <2>3. /\ EFF_APOS(p) <= EFF_APOS(q - 1)
        /\ EFF_APOS(q - 1) <= EFF_APOS(p + w - 1)
        /\ EFF_APOS(p) \in Nat /\ EFF_APOS(q - 1) \in Nat
        /\ EFF_APOS(p + w - 1) \in Nat
    BY <2>2, BlockOrder
  <2> QED BY <2>3 DEF Span
<1>6. Span(p, w) \cap eff_map = {}
  BY DEF w
<1> QED BY <1>4, <1>5, <1>6 DEF c

(* The bytes of a flipped word, taken out and put in again.                *)
LEMMA FlippedWord ==
    ASSUME in_buf \in Seq(Byte), NEW p \in Nat, NEW w \in {1, 2, 4},
           p + w <= len
    PROVE  LET c == FlipBytes(in_buf, p, w)
           IN  /\ Put(in_buf, p, WordAt(c, p, w)) = c
               /\ \E word \in Seq(Byte) :
                      Len(word) = w /\ c = Put(in_buf, p, word)
<1> DEFINE word == [k \in 1 .. w |-> 255 - in_buf[p + k]]
           c == Put(in_buf, p, word)
           new == WordAt(c, p, w)
<1>1. len \in Nat /\ len = Len(in_buf) /\ w \in Nat
  BY DEF len
<1>2. word \in Seq(Byte) /\ Len(word) = w
  <2>1. ASSUME NEW k \in 1 .. w PROVE 255 - in_buf[p + k] \in Byte
    <3>1. p + k \in 1 .. Len(in_buf)
      BY <1>1
    <3>2. in_buf[p + k] \in Byte
      BY <3>1
    <3> HIDE DEF word
    <3> DEFINE b == in_buf[p + k]
    <3> HIDE DEF b
    <3>3. b \in 0 .. 255 => 255 - b \in 0 .. 255
      OBVIOUS
    <3> QED BY <3>2, <3>3 DEF Byte, b
  <2>2. word \in [1 .. w -> Byte]
    BY <2>1
  <2> HIDE DEF word
  <2> QED BY <1>1, <2>2
<1>3. FlipBytes(in_buf, p, w) = c
  BY DEF FlipBytes
<1> HIDE DEF word
<1>4. IsPut(c, in_buf, p, word)
  BY <1>2, PutFacts
<1>5. /\ c \in Seq(Byte) /\ Len(c) = len
      /\ \A q \in 1 .. len :
             c[q] = IF q - p \in 1 .. w THEN word[q - p] ELSE in_buf[q]
  BY <1>1, <1>2, <1>4 DEF IsPut
<1> HIDE DEF c
<1>6. /\ new \in Seq(Byte) /\ Len(new) = w
      /\ \A q \in 1 .. w : new[q] = c[p + q]
  <2>1. new = SubSeq(c, p + 1, p + w)
    BY DEF WordAt
  <2>2. \A q \in p + 1 .. p + w : c[q] \in Byte
    BY <1>1, <1>5
  <2>3. /\ new \in Seq(Byte)
        /\ Len(new) = IF p + 1 <= p + w THEN (p + w) - (p + 1) + 1 ELSE 0
        /\ \A q \in 1 .. (p + w) - (p + 1) + 1 :
               new[q] = c[(p + 1) + q - 1]
    <3>1. p + 1 \in Int /\ p + w \in Int
      BY <1>1
    <3> QED BY <2>1, <2>2, <3>1, SubSeqProperties
  <2>4. /\ (p + w) - (p + 1) + 1 = w /\ p + 1 <= p + w
        /\ \A q \in 1 .. w : (p + 1) + q - 1 = p + q
    BY <1>1
  <2> HIDE DEF new
  <2> QED BY <2>3, <2>4
<1> HIDE DEF new
<1>7. IsPut(Put(in_buf, p, new), in_buf, p, new)
  BY <1>6, PutFacts
<1>8. \A q \in 1 .. len : Put(in_buf, p, new)[q] = c[q]
  <2> SUFFICES ASSUME NEW q \in 1 .. len
               PROVE  Put(in_buf, p, new)[q] = c[q]
    OBVIOUS
  <2>1. Put(in_buf, p, new)[q] = IF q - p \in 1 .. w THEN new[q - p]
                                 ELSE in_buf[q]
    BY <1>1, <1>6, <1>7 DEF IsPut
  <2>2. q - p \in 1 .. w => new[q - p] = c[q]
    <3>1. p + (q - p) = q
      OBVIOUS
    <3> QED BY <1>6, <3>1
  <2> QED BY <1>5, <2>1, <2>2
<1>9. Put(in_buf, p, new) = c
  BY <1>1, <1>5, <1>6, <1>7, <1>8, SeqEqual DEF IsPut
<1> QED BY <1>2, <1>3, <1>9 DEF c, new

-----------------------------------------------------------------------------
(* Tokens.                                                                 *)

(* What has been written over position i of the buffer after k tokens.     *)
TriedUpTo(st, tokens, k) ==
    /\ st.buf = in_buf \/ st.buf \in st.runs
    /\ \A j \in 1 .. k : i + Len(tokens[j]) <= len =>
           \/ Put(in_buf, i, tokens[j]) = in_buf
           \/ Put(in_buf, i, tokens[j]) \in st.runs
           \/ ~ Effective(Len(tokens[j]))

(* A token covers what was written before it.                              *)
LEMMA TokenCovers ==
    ASSUME i \in 0 .. len, len \in Nat, NEW tokens \in Seq(Seq(Byte)),
           BySizes(tokens),
           NEW k \in 1 .. Len(tokens), NEW st, Reached(st, tokens, k - 1),
           i + Len(tokens[k]) <= len, in_buf \in Seq(Byte)
    PROVE  /\ Put(st.buf, i, tokens[k]) = Put(in_buf, i, tokens[k])
           /\ WordAt(st.buf, i, Len(tokens[k])) = tokens[k]
                  => Put(in_buf, i, tokens[k]) = st.buf
<1> DEFINE token == tokens[k]
           w == Len(token)
<1>1. /\ k \in Nat /\ k \in DOMAIN tokens /\ k - 1 \in Nat
      /\ DOMAIN tokens = 1 .. Len(tokens) /\ Len(tokens) \in Nat
  OBVIOUS
<1>2. token \in Seq(Byte) /\ w \in Nat
  BY <1>1
<1>3. st.buf \in Seq(Byte) /\ st.last \in Nat /\ Len(st.buf) = len
      /\ Len(in_buf) = len /\ i \in Nat
  BY DEF Reached, Marks, len
<1>4. st.last <= w
  <2>1. CASE st.last = 0
    BY <1>2, <2>1
  <2>2. CASE st.last # 0
    <3>1. PICK j \in 1 .. k - 1 : st.last = Len(tokens[j])
      BY <2>2 DEF Reached
    <3>2. j \in DOMAIN tokens /\ j < k
      BY <1>1
    <3> QED BY <1>1, <3>1, <3>2 DEF BySizes
  <2> QED BY <2>1, <2>2
<1> HIDE DEF w, token
<1>5. \A p \in 1 .. len : p - i \in 1 .. w \/ st.buf[p] = in_buf[p]
  BY <1>2, <1>3, <1>4 DEF Reached
<1>6. /\ IsPut(Put(st.buf, i, token), st.buf, i, token)
      /\ IsPut(Put(in_buf, i, token), in_buf, i, token)
  BY <1>2, <1>3, PutFacts
<1>7. /\ Put(st.buf, i, token) \in Seq(Byte)
      /\ Put(in_buf, i, token) \in Seq(Byte)
      /\ Len(Put(st.buf, i, token)) = len /\ Len(Put(in_buf, i, token)) = len
      /\ \A p \in 1 .. len :
             /\ Put(st.buf, i, token)[p] =
                    IF p - i \in 1 .. w THEN token[p - i] ELSE st.buf[p]
             /\ Put(in_buf, i, token)[p] =
                    IF p - i \in 1 .. w THEN token[p - i] ELSE in_buf[p]
  BY <1>3, <1>6 DEF IsPut, w
<1>8. Put(st.buf, i, token) = Put(in_buf, i, token)
  <2>1. \A p \in 1 .. len :
            Put(st.buf, i, token)[p] = Put(in_buf, i, token)[p]
    BY <1>5, <1>7
  <2> QED BY <1>7, <2>1, SeqEqual
<1>9. ASSUME WordAt(st.buf, i, w) = token
      PROVE  Put(in_buf, i, token) = st.buf
  <2>1. \A q \in 1 .. w : token[q] = st.buf[i + q]
    <3>1. token = SubSeq(st.buf, i + 1, i + w)
      BY <1>9 DEF WordAt
    <3>2. \A q \in i + 1 .. i + w : st.buf[q] \in Byte
      <4>1. i + w <= len
        BY DEF w, token
      <4> QED BY <1>2, <1>3, <4>1
    <3>3. \A q \in 1 .. (i + w) - (i + 1) + 1 :
              token[q] = st.buf[(i + 1) + q - 1]
      <4>1. i + 1 \in Int /\ i + w \in Int
        BY <1>2, <1>3
      <4> QED BY <3>1, <3>2, <4>1, SubSeqProperties
    <3>4. /\ (i + w) - (i + 1) + 1 = w
          /\ \A q \in 1 .. w : (i + 1) + q - 1 = i + q
      BY <1>2, <1>3
    <3> QED BY <3>3, <3>4
  <2>2. \A p \in 1 .. len : Put(in_buf, i, token)[p] = st.buf[p]
    <3> SUFFICES ASSUME NEW p \in 1 .. len
                 PROVE  Put(in_buf, i, token)[p] = st.buf[p]
      OBVIOUS
    <3>1. p - i \in 1 .. w => token[p - i] = st.buf[p]
      <4>1. i + (p - i) = p
        BY <1>3
      <4> QED BY <2>1, <4>1
    <3> QED BY <1>5, <1>7, <3>1
  <2> QED BY <1>3, <1>7, <2>2, SeqEqual
<1> QED BY <1>8, <1>9 DEF w, token

(* Every token that fits is tried, or in the buffer already, or without an *)
(* effect, although each is compared with what the others have left.       *)
LEMMA OverwriteTries ==
    ASSUME i \in 0 .. len, in_buf \in Seq(Byte), out_buf = in_buf,
           NEW tokens \in Seq(Seq(Byte)), BySizes(tokens),
           NEW j \in 1 .. Len(tokens), i + Len(tokens[j]) <= len
    PROVE  \/ Put(in_buf, i, tokens[j]) = in_buf
           \/ Put(in_buf, i, tokens[j]) \in Overwrite(tokens).runs
           \/ ~ Effective(Len(tokens[j]))
<1> DEFINE N == Len(tokens)
<1>1. len \in Nat /\ N \in Nat
  BY DEF len
<1>2. PICK f : /\ Overwrite(tokens) = f[N]
               /\ f[0] = [buf |-> out_buf, last |-> 0, runs |-> {}]
               /\ \A k \in 1 .. N : f[k] = Over(f[k - 1], tokens[k])
               /\ \A k \in 0 .. N : Reached(f[k], tokens, k)
  BY OverwriteReaches
<1> DEFINE U == {k \in 0 .. N : TriedUpTo(f[k], tokens, k)}
<1>3. 0 \in U
  BY <1>1, <1>2 DEF TriedUpTo
<1>4. ASSUME NEW k \in 1 .. N, k - 1 \in U PROVE k \in U
  <2> DEFINE st == f[k - 1]
             new == f[k]
             token == tokens[k]
             c == Put(in_buf, i, token)
  <2>1. k \in 0 .. N /\ k - 1 \in 0 .. N /\ 1 .. k = 1 .. (k - 1) \union {k}
    BY <1>1
  <2>2. /\ new = Over(st, token) /\ Reached(st, tokens, k - 1)
        /\ TriedUpTo(st, tokens, k - 1)
    BY <1>2, <1>4, <2>1
  <2>3. token \in Seq(Byte) /\ Len(token) \in Nat /\ i \in Nat
    BY <1>1
  <2> HIDE DEF st, new
  <2>4. i + Len(token) <= len =>
            /\ Put(st.buf, i, token) = c
            /\ WordAt(st.buf, i, Len(token)) = token => c = st.buf
    BY <1>1, <2>2, TokenCovers
  <2>5. Len(token) > len - i <=> ~ (i + Len(token) <= len)
    BY <1>1, <2>3
  <2> HIDE DEF c, token, N
  <2>6. CASE \/ Len(token) > len - i
             \/ WordAt(st.buf, i, Len(token)) = token
             \/ ~ Effective(Len(token))
    <3>1. new = st
      BY <2>2, <2>6 DEF Over
    <3>2. i + Len(token) <= len =>
              c = in_buf \/ c \in new.runs \/ ~ Effective(Len(token))
      BY <2>2, <2>4, <2>5, <2>6, <3>1 DEF TriedUpTo
    <3>3. TriedUpTo(new, tokens, k)
      BY <2>1, <2>2, <3>1, <3>2 DEF TriedUpTo, c, token
    <3> QED BY <2>1, <3>3 DEF new
  <2>7. CASE ~ (\/ Len(token) > len - i
                \/ WordAt(st.buf, i, Len(token)) = token
                \/ ~ Effective(Len(token)))
    <3>1. new = [buf |-> Put(st.buf, i, token), last |-> Len(token),
                 runs |-> st.runs \union {Put(st.buf, i, token)}]
      BY <2>2, <2>7 DEF Over
    <3>2. Put(st.buf, i, token) = c
      BY <2>4, <2>5, <2>7
    <3>3. new.buf = c /\ new.runs = st.runs \union {c}
      BY <3>1, <3>2
    <3>4. TriedUpTo(new, tokens, k)
      BY <2>1, <2>2, <3>3 DEF TriedUpTo, c, token
    <3> QED BY <2>1, <3>4 DEF new
  <2> QED BY <2>6, <2>7
<1>5. U = 0 .. N
  <2>1. U \in SUBSET (0 .. N)
    OBVIOUS
  <2> HIDE DEF U, N
  <2> QED BY <1>1, <1>3, <1>4, <2>1, UpTo
<1>6. TriedUpTo(f[N], tokens, N)
  <2>1. N \in U
    <3> HIDE DEF U, N
    <3> QED BY <1>1, <1>5
  <2> QED BY <2>1
<1> QED BY <1>2, <1>6 DEF TriedUpTo

-----------------------------------------------------------------------------
(* The steps.                                                              *)

(* A step of a stage, when it tries what it is to try.                     *)
LEMMA WorkNext ==
    ASSUME WorkDone, stage \in WalkStages, len \in Nat, i \in Nat,
           NEW last \in Int, ToNext(last), UNCHANGED <<subject, in_buf>>,
           executed \subseteq executed', eff_map' = eff_map \/ stage = "flip8",
           \A t \in {"flip1", "flip2", "flip4"}, k \in {1, 2, 4} :
               /\ stage = t
               /\ <<t, k>> \in {<<"flip1", 1>>, <<"flip2", 2>>, <<"flip4", 4>>}
               => /\ last = len - 1
                  /\ \A b \in 0 .. 8 * len - k : b \div 8 = i =>
                         FlipBits(in_buf, b, k) \in executed',
           stage = "flip8" => /\ last = len - 1
                              /\ FlipBytes(in_buf, i, 1) \in executed',
           \A t, w : stage = t
               /\ <<t, w>> \in {<<"flip16", 2>>, <<"flip32", 4>>}
               => /\ last = len - w
                  /\ \A p \in 0 .. len - w : p = i =>
                         Settled(FlipBytes(in_buf, p, w))',
           stage = "ext_UO" =>
               /\ last = len - 1
               /\ \A token \in Range(subject.extras), p \in 0 .. len - 1 :
                      p = i /\ p + Len(token) <= len =>
                          Settled(Put(in_buf, p, token))',
           stage = "ext_UI" =>
               /\ last = len
               /\ \A token \in Range(subject.extras) :
                      len + Len(token) <= MAX_FILE =>
                          SubSeq(in_buf, 1, i) \o token
                              \o SubSeq(in_buf, i + 1, len) \in executed'
    PROVE  WorkDone'
<1>1. /\ FlipsDone(1, Reach("flip1")) /\ FlipsDone(2, Reach("flip2"))
      /\ FlipsDone(4, Reach("flip4")) /\ BytesDone(Reach("flip8"))
      /\ WordsDone(2, Reach("flip16")) /\ WordsDone(4, Reach("flip32"))
      /\ OversDone(Reach("ext_UO")) /\ InsertsDone(Reach("ext_UI"))
  BY DEF WorkDone
<1>2. FlipsDone(1, Reach("flip1"))'
  BY <1>1, FlipsNext
<1>3. FlipsDone(2, Reach("flip2"))'
  BY <1>1, FlipsNext
<1>4. FlipsDone(4, Reach("flip4"))'
  BY <1>1, FlipsNext
<1>5. BytesDone(Reach("flip8"))'
  BY <1>1, BytesNext
<1>6. WordsDone(2, Reach("flip16"))'
  BY <1>1, WordsNext
<1>7. WordsDone(4, Reach("flip32"))'
  BY <1>1, WordsNext
<1>8. OversDone(Reach("ext_UO"))'
  BY <1>1, OversNext
<1>9. InsertsDone(Reach("ext_UI"))'
  BY <1>1, InsertsNext
<1> QED BY <1>2, <1>3, <1>4, <1>5, <1>6, <1>7, <1>8, <1>9 DEF WorkDone

(* The walking bits.                                                       *)
LEMMA BitsWork ==
    ASSUME FuzzShape, WorkDone, Flip1 \/ Flip2And4
    PROVE  WorkDone'
<1> DEFINE k == IF stage = "flip1" THEN 1 ELSE IF stage = "flip2" THEN 2 ELSE 4
<1>1. /\ stage \in {"flip1", "flip2", "flip4"} /\ stage \in WalkStages
      /\ FlipStage(k) /\ UNCHANGED <<subject, in_buf, eff_map>>
  BY DEF Flip1, Flip2And4, WalkStages
<1>2. len \in Nat /\ len >= 1 /\ i \in Nat /\ len - 1 \in Int
  BY <1>1, WalkFacts
<1> DEFINE new == {FlipBits(in_buf, b, k) :
                      b \in {b \in 8 * i .. 8 * i + 7 : b + k <= 8 * len}}
<1>3. executed' = executed \union new /\ ToNext(len - 1)
  BY <1>1 DEF FlipStage
<1>4. k \in {1, 2, 4}
  OBVIOUS
<1>5. ASSUME NEW b \in 0 .. 8 * len - k, b \div 8 = i
      PROVE  FlipBits(in_buf, b, k) \in executed'
  <2>1. b \in 8 * i .. 8 * i + 7 /\ b + k <= 8 * len
    <3> HIDE DEF k
    <3>1. k \in Nat /\ b \in Nat /\ b <= 8 * len - k
      BY <1>2, <1>4
    <3> QED BY <1>2, <1>5, <3>1
  <2> HIDE DEF k
  <2> QED BY <1>3, <2>1
<1>6. executed \subseteq executed'
  BY <1>3
<1> HIDE DEF new
<1>7. \A t \in {"flip1", "flip2", "flip4"}, m \in {1, 2, 4} :
          /\ stage = t
          /\ <<t, m>> \in {<<"flip1", 1>>, <<"flip2", 2>>, <<"flip4", 4>>}
          => m = k
  OBVIOUS
<1> HIDE DEF k
<1>8. \A t \in {"flip1", "flip2", "flip4"}, m \in {1, 2, 4} :
          /\ stage = t
          /\ <<t, m>> \in {<<"flip1", 1>>, <<"flip2", 2>>, <<"flip4", 4>>}
          => /\ len - 1 = len - 1
             /\ \A b \in 0 .. 8 * len - m : b \div 8 = i =>
                    FlipBits(in_buf, b, m) \in executed'
  BY <1>5, <1>7
<1>9. /\ stage # "flip8" /\ stage # "flip16" /\ stage # "flip32"
      /\ stage # "ext_UO" /\ stage # "ext_UI"
  BY <1>1
<1> QED BY <1>1, <1>2, <1>3, <1>6, <1>8, <1>9, WorkNext

(* The walking byte.                                                       *)
LEMMA ByteWork ==
    ASSUME FuzzShape, WorkDone, Flip8
    PROVE  WorkDone'
<1>1. /\ stage = "flip8" /\ stage \in WalkStages
      /\ ToNext(len - 1) /\ UNCHANGED <<subject, in_buf>>
      /\ executed' = executed \union {FlipBytes(in_buf, i, 1)}
  BY DEF Flip8, WalkStages
<1>2. len \in Nat /\ i \in Nat /\ len - 1 \in Int
  BY <1>1, WalkFacts
<1> QED BY <1>1, <1>2, WorkNext

(* The walking words.                                                      *)
LEMMA WordWork ==
    ASSUME FuzzShape, WorkDone, Bytes \/ Words \/ Dwords
    PROVE  WorkDone'
<1>1. PICK w \in {1, 2, 4} :
          /\ \/ w = 1 /\ WordStage({"arith8", "int8"}, w)
             \/ w = 2 /\ WordStage({"flip16", "arith16", "int16"}, w)
             \/ w = 4 /\ WordStage({"flip32", "arith32", "int32"}, w)
  BY DEF Bytes, Words, Dwords
<1>2. /\ stage \in WalkStages /\ stage \notin {"ext_UO", "ext_UI", "flip8"}
      /\ stage \notin {"flip1", "flip2", "flip4"}
      /\ ToNext(len - w) /\ UNCHANGED <<subject, in_buf, eff_map>>
      /\ executed' = executed \union
           (IF Effective(w)
            THEN {Put(in_buf, i, word) : word \in Tries(stage, w)} ELSE {})
      /\ stage = "flip16" => w = 2
      /\ stage = "flip32" => w = 4
  BY <1>1 DEF WordStage, WalkStages
<1>3. /\ len \in Nat /\ i \in Nat /\ len - w \in Int /\ IsFile(in_buf)
      /\ in_buf \in Seq(Byte)
  BY <1>2, WalkFacts DEF IsFile
<1>4. executed \subseteq executed'
  BY <1>2
<1>5. ASSUME stage \in {"flip16", "flip32"},
             NEW p \in 0 .. len - w, p = i
      PROVE  Settled(FlipBytes(in_buf, p, w))'
  <2> DEFINE c == FlipBytes(in_buf, p, w)
  <2>1. p \in Nat /\ p + w <= len
    BY <1>3
  <2>2. /\ Put(in_buf, p, WordAt(c, p, w)) = c
        /\ \E word \in Seq(Byte) : Len(word) = w /\ c = Put(in_buf, p, word)
    BY <1>3, <2>1, FlippedWord
  <2>3. CASE Effective(w)
    <3>1. Tries(stage, w) = {WordAt(c, p, w)}
      BY <1>5 DEF Tries
    <3> HIDE DEF c
    <3>2. c \in executed'
      BY <1>2, <1>5, <2>2, <2>3, <3>1
    <3> QED BY <1>2, <3>2 DEF Settled, Tried, c
  <2>4. CASE ~ Effective(w)
    <3>1. PICK word \in Seq(Byte) : Len(word) = w /\ c = Put(in_buf, p, word)
      BY <2>2
    <3>2. Span(p, Len(word)) \cap eff_map = {}
      BY <1>5, <2>4, <3>1 DEF Effective
    <3>3. Blocks(c) \cap eff_map = {}
      BY <1>3, <2>1, <3>1, <3>2, PutBlocks
    <3>4. Settled(c)
      BY <3>3 DEF Settled
    <3> HIDE DEF c
    <3>5. Settled(c) => Settled(FlipBytes(in_buf, p, w))'
      BY <1>2, <1>4, SettledStays DEF c
    <3> QED BY <3>4, <3>5
  <2> QED BY <2>3, <2>4
<1>6. \A t, v : stage = t /\ <<t, v>> \in {<<"flip16", 2>>, <<"flip32", 4>>}
          => /\ len - w = len - v
             /\ \A p \in 0 .. len - v : p = i =>
                    Settled(FlipBytes(in_buf, p, v))'
  BY <1>2, <1>5
<1> QED BY <1>2, <1>3, <1>4, <1>6, WorkNext

(* Tokens written over the buffer.                                         *)
LEMMA OverWork ==
    ASSUME FuzzShape, WorkDone, ExtrasOver
    PROVE  WorkDone'
<1> DEFINE tokens == subject.extras
<1>1. /\ stage \in {"ext_UO", "ext_AO"} /\ stage \in WalkStages
      /\ ToNext(len - 1) /\ UNCHANGED <<subject, in_buf, eff_map>>
      /\ executed \subseteq executed'
      /\ stage = "ext_UO" => executed' = executed \union Overwrite(tokens).runs
  BY DEF ExtrasOver, WalkStages
<1>2. /\ len \in Nat /\ i \in Nat /\ len - 1 \in Int /\ i \in 0 .. len
      /\ in_buf \in Seq(Byte) /\ out_buf = in_buf /\ subject \in Subjects
  BY <1>1, WalkFacts DEF IsFile
<1>3. tokens \in Seq(Seq(Byte)) /\ BySizes(tokens)
  BY <1>2, SubjectAssumption DEF BySizes
<1>4. ASSUME stage = "ext_UO", NEW token \in Range(tokens),
             NEW p \in 0 .. len - 1, p = i, p + Len(token) <= len
      PROVE  Settled(Put(in_buf, p, token))'
  <2>1. PICK j \in DOMAIN tokens : token = tokens[j]
    BY DEF Range
  <2>2. j \in 1 .. Len(tokens) /\ token \in Seq(Byte)
    BY <1>3, <2>1
  <2> DEFINE c == Put(in_buf, p, token)
  <2>3. \/ c = in_buf \/ c \in Overwrite(tokens).runs
        \/ ~ Effective(Len(token))
    <3> HIDE DEF tokens
    <3> QED BY <1>2, <1>3, <1>4, <2>1, <2>2, OverwriteTries
  <2>4. CASE c = in_buf \/ c \in Overwrite(tokens).runs
    <3> HIDE DEF c
    <3>1. c = in_buf' \/ c \in executed'
      BY <1>1, <1>4, <2>4
    <3> QED BY <1>1, <3>1 DEF Settled, Tried, c
  <2>5. CASE ~ Effective(Len(token))
    <3>1. Span(p, Len(token)) \cap eff_map = {}
      BY <1>4, <2>5 DEF Effective
    <3>2. Blocks(c) \cap eff_map = {}
      BY <1>2, <2>2, <3>1, PutBlocks
    <3>3. Settled(c)
      BY <3>2 DEF Settled
    <3> HIDE DEF c
    <3>4. Settled(c) => Settled(Put(in_buf, p, token))'
      BY <1>1, SettledStays DEF c
    <3> QED BY <3>3, <3>4
  <2> QED BY <2>3, <2>4, <2>5
<1>5. /\ stage \notin {"flip1", "flip2", "flip4"}
      /\ stage \notin {"flip8", "flip16", "flip32"} /\ stage # "ext_UI"
  BY <1>1
<1> QED BY <1>1, <1>2, <1>4, <1>5, WorkNext

(* Tokens put between the bytes.                                           *)
LEMMA InsertWork ==
    ASSUME FuzzShape, WorkDone, ExtrasInsert
    PROVE  WorkDone'
<1>1. /\ stage = "ext_UI" /\ stage \in WalkStages
      /\ ToNext(len) /\ UNCHANGED <<subject, in_buf, eff_map>>
      /\ executed' = executed \union
           {Inserted(token) : token \in
               {t \in Range(subject.extras) : len + Len(t) <= MAX_FILE}}
  BY DEF ExtrasInsert, WalkStages
<1>2. len \in Nat /\ i \in Nat /\ len \in Int /\ out_buf = in_buf
  BY <1>1, WalkFacts
<1>3. \A token : Inserted(token) = SubSeq(in_buf, 1, i) \o token
                                       \o SubSeq(in_buf, i + 1, len)
  BY <1>2 DEF Inserted
<1>4. ASSUME NEW token \in Range(subject.extras), len + Len(token) <= MAX_FILE
      PROVE  SubSeq(in_buf, 1, i) \o token \o SubSeq(in_buf, i + 1, len)
                 \in executed'
  <2>1. Inserted(token) \in executed'
    BY <1>1, <1>4
  <2> QED BY <1>3, <2>1
<1>5. executed \subseteq executed'
  BY <1>1
<1> QED BY <1>1, <1>2, <1>4, <1>5, WorkNext

(* Every step of fuzz_one.                                                 *)
LEMMA WorkStep ==
    ASSUME FuzzShape, WorkDone, FuzzNext
    PROVE  WorkDone'
<1>1. CASE Start
  <2>1. /\ stage' \in {"havoc", "flip1"} /\ i' = 0
    BY <1>1 DEF Start
  <2>2. Rank("havoc") = 0
    BY Ranks DEF HavocStages
  <2>3. (Rank(stage) = 0)' \/ (stage = "flip1" /\ i = 0)'
    <3>1. CASE stage' = "havoc"
      BY <2>2, <3>1 DEF Rank
    <3>2. CASE stage' = "flip1"
      BY <2>1, <3>2
    <3> QED BY <2>1, <3>1, <3>2
  <2> QED BY <2>3, NothingDone, PTL
<1>2. CASE Flip1 \/ Flip2And4
  BY <1>2, BitsWork
<1>3. CASE Flip8
  BY <1>3, ByteWork
<1>4. CASE Bytes \/ Words \/ Dwords
  BY <1>4, WordWork
<1>5. CASE ExtrasOver
  BY <1>5, OverWork
<1>6. CASE ExtrasInsert
  BY <1>6, InsertWork
<1>7. CASE stage' \in HavocStages \union {"start"}
  <2>1. (Rank(stage) = 0)'
    BY <1>7, Ranks DEF Rank, HavocStages
  <2> QED BY <2>1, NothingDone, PTL
<1>8. mark_as_det_done \/ HavocStart \/ Stack \/ InPlace \/ OverwritePart
          \/ Delete \/ Clone \/ InsertExtra \/ HavocRun \/ Leaves
          => stage' \in HavocStages \union {"start"}
  BY DEF mark_as_det_done, HavocStart, Stack, InPlace, OverwritePart, Delete,
         Clone, InsertExtra, Mutated, HavocRun, Leaves, HavocStages
<1>9. Splice => stage' \in HavocStages
  BY DEF Splice, HavocStages
<1> QED BY <1>1, <1>2, <1>3, <1>4, <1>5, <1>6, <1>7, <1>8, <1>9
        DEF FuzzNext, Work, Finish, Abandon

(* What the stages have tried is always as far as they are.                *)
LEMMA WorkCorrect == FuzzSpec => []WorkDone
<1>1. FuzzInit => WorkDone
  <2> SUFFICES ASSUME FuzzInit PROVE WorkDone
    OBVIOUS
  <2>1. Rank(stage) = 0
    BY Ranks DEF FuzzInit
  <2> QED BY <2>1, NothingDone
<1>2. FuzzShape /\ WorkDone /\ [FuzzNext]_fuzz_vars => WorkDone'
  <2>1. ASSUME WorkDone, UNCHANGED fuzz_vars PROVE WorkDone'
    <3>1. UNCHANGED <<subject, stage, i, in_buf, eff_map, executed>>
      BY <2>1 DEF fuzz_vars, det
    <3>2. /\ len' = len
          /\ \A t : Reach(t)' = Reach(t)
      BY <3>1 DEF Reach, len
    <3>3. /\ Reach("flip1")' = Reach("flip1")
          /\ Reach("flip2")' = Reach("flip2")
          /\ Reach("flip4")' = Reach("flip4")
          /\ Reach("flip8")' = Reach("flip8")
          /\ Reach("flip16")' = Reach("flip16")
          /\ Reach("flip32")' = Reach("flip32")
          /\ Reach("ext_UO")' = Reach("ext_UO")
          /\ Reach("ext_UI")' = Reach("ext_UI")
      BY <3>2
    <3>4. \A c : Settled(c)' <=> Settled(c)
      BY <3>1, <3>2 DEF Settled, Tried, Blocks
    <3>5. /\ FlipsDone(1, Reach("flip1"))'
          /\ FlipsDone(2, Reach("flip2"))'
          /\ FlipsDone(4, Reach("flip4"))'
      BY <2>1, <3>1, <3>2, <3>3 DEF WorkDone, FlipsDone
    <3>6. BytesDone(Reach("flip8"))'
      BY <2>1, <3>1, <3>2, <3>3 DEF WorkDone, BytesDone
    <3>7. /\ WordsDone(2, Reach("flip16"))'
          /\ WordsDone(4, Reach("flip32"))'
      BY <2>1, <3>1, <3>2, <3>3, <3>4 DEF WorkDone, WordsDone
    <3>8. OversDone(Reach("ext_UO"))'
      BY <2>1, <3>1, <3>2, <3>3, <3>4 DEF WorkDone, OversDone
    <3>9. InsertsDone(Reach("ext_UI"))'
      BY <2>1, <3>1, <3>2, <3>3 DEF WorkDone, InsertsDone
    <3> QED BY <3>5, <3>6, <3>7, <3>8, <3>9 DEF WorkDone
  <2> QED BY <2>1, WorkStep
<1> QED BY <1>1, <1>2, FuzzShapeCorrect, PTL DEF FuzzSpec

(* When all stages are over, everything was tried.                         *)
LEMMA AllSettled ==
    ASSUME FuzzShape, WorkDone, stage = "mark"
    PROVE  \A c \in FlipsOf \union TokensOf : Settled(c)
<1>1. len \in Nat /\ len >= 1
  <2>1. IsFile(in_buf)
    BY DEF FuzzShape, Buffers
  <2> QED BY <2>1 DEF IsFile, len
<1>2. \A t \in LookedAt : Reach(t) = len + 1
  <2>1. \A t \in LookedAt : Rank(t) <= 9 /\ Rank(t) \in Nat
    BY Ranks DEF LookedAt
  <2> QED BY <2>1, Ranks DEF Reach
<1>3. /\ FlipsDone(1, len + 1) /\ FlipsDone(2, len + 1)
      /\ FlipsDone(4, len + 1) /\ BytesDone(len + 1)
      /\ WordsDone(2, len + 1) /\ WordsDone(4, len + 1)
      /\ OversDone(len + 1) /\ InsertsDone(len + 1)
  BY <1>2 DEF WorkDone, LookedAt
<1>4. ASSUME NEW k \in {1, 2, 4}, NEW b \in 0 .. 8 * len - k
      PROVE  Settled(FlipBits(in_buf, b, k))
  <2>1. b \div 8 < len + 1
    BY <1>1
  <2> QED BY <1>3, <2>1 DEF FlipsDone, Settled, Tried
<1>5. ASSUME NEW w \in {1, 2, 4}, NEW p \in 0 .. len - w
      PROVE  Settled(FlipBytes(in_buf, p, w))
  <2>1. p < len + 1
    BY <1>1
  <2>2. CASE w = 1
    BY <1>3, <2>1, <2>2 DEF BytesDone, Settled, Tried
  <2>3. CASE w \in {2, 4}
    BY <1>3, <2>1, <2>3 DEF WordsDone
  <2> QED BY <2>2, <2>3
<1>6. ASSUME NEW p \in 0 .. len - 1, NEW token \in Range(subject.extras),
             p + Len(token) <= len
      PROVE  Settled(Put(in_buf, p, token))
  <2>1. p < len + 1
    BY <1>1
  <2> QED BY <1>3, <1>6, <2>1 DEF OversDone
<1>7. ASSUME NEW p \in 0 .. len, NEW token \in Range(subject.extras),
             len + Len(token) <= MAX_FILE
      PROVE  Settled(SubSeq(in_buf, 1, p) \o token
                         \o SubSeq(in_buf, p + 1, len))
  <2>1. p < len + 1
    BY <1>1
  <2> QED BY <1>3, <1>7, <2>1 DEF InsertsDone, Settled, Tried
<1>8. \A c \in FlipsOf : Settled(c)
  <2> SUFFICES ASSUME NEW c \in FlipsOf PROVE Settled(c)
    OBVIOUS
  <2> DEFINE bits(k) == {FlipBits(in_buf, b, k) : b \in 0 .. 8 * len - k}
             words(w) == {FlipBytes(in_buf, p, w) : p \in 0 .. len - w}
             allbits == UNION {bits(k) : k \in {1, 2, 4}}
             allwords == UNION {words(w) : w \in {1, 2, 4}}
  <2>1. FlipsOf = allbits \union allwords
    BY Zenon DEF FlipsOf
  <2>2. \A k \in {1, 2, 4} : \A f \in bits(k) : Settled(f)
    BY <1>4
  <2>3. \A w \in {1, 2, 4} : \A f \in words(w) : Settled(f)
    BY <1>5
  <2> HIDE DEF bits, words
  <2>4. CASE c \in allbits
    <3>1. c \in bits(1) \/ c \in bits(2) \/ c \in bits(4)
      BY <2>4
    <3> QED BY <2>2, <3>1
  <2>5. CASE c \in allwords
    <3>1. c \in words(1) \/ c \in words(2) \/ c \in words(4)
      BY <2>5
    <3> QED BY <2>3, <3>1
  <2> HIDE DEF allbits, allwords
  <2> QED BY <2>1, <2>4, <2>5
<1>9. \A c \in TokensOf : Settled(c)
  <2> SUFFICES ASSUME NEW c \in TokensOf PROVE Settled(c)
    OBVIOUS
  <2> DEFINE P == {q \in (0 .. len - 1) \X Range(subject.extras) :
                      q[1] + Len(q[2]) <= len}
             Q == {q \in (0 .. len) \X Range(subject.extras) :
                      len + Len(q[2]) <= MAX_FILE}
  <2>1. \/ c \in {Put(in_buf, p[1], p[2]) : p \in P}
        \/ c \in {SubSeq(in_buf, 1, p[1]) \o p[2]
                     \o SubSeq(in_buf, p[1] + 1, len) : p \in Q}
    BY DEF TokensOf
  <2>2. CASE c \in {Put(in_buf, p[1], p[2]) : p \in P}
    <3>1. PICK p \in P : c = Put(in_buf, p[1], p[2])
      BY <2>2
    <3>2. /\ p[1] \in 0 .. len - 1 /\ p[2] \in Range(subject.extras)
          /\ p[1] + Len(p[2]) <= len
      OBVIOUS
    <3> QED BY <1>6, <3>1, <3>2
  <2>3. CASE c \in {SubSeq(in_buf, 1, p[1]) \o p[2]
                      \o SubSeq(in_buf, p[1] + 1, len) : p \in Q}
    <3>1. PICK p \in Q : c = SubSeq(in_buf, 1, p[1]) \o p[2]
                               \o SubSeq(in_buf, p[1] + 1, len)
      BY <2>3
    <3>2. /\ p[1] \in 0 .. len /\ p[2] \in Range(subject.extras)
          /\ len + Len(p[2]) <= MAX_FILE
      OBVIOUS
    <3> QED BY <1>7, <3>1, <3>2
  <2> QED BY <2>1, <2>2, <2>3
<1> QED BY <1>8, <1>9

(* The mark of an entry, which makes every later session skip its          *)
(* deterministic stages, stands for work that was done: every walking bit, *)
(* byte and word was flipped, and every token of the user's dictionary was *)
(* written over every place and put into every place, or would only change *)
(* blocks without an effect.                                               *)
THEOREM WalksCorrect == FuzzSpec => WalksAreEarned
<1>1. FuzzShape /\ WorkDone /\ [FuzzNext]_fuzz_vars =>
          [~passed_det /\ passed_det' => WalksSettled]_fuzz_vars
  <2> SUFFICES ASSUME FuzzShape, WorkDone, FuzzNext,
                      ~passed_det, passed_det'
               PROVE  WalksSettled
    OBVIOUS
  <2>1. UNCHANGED passed_det \/ stage = "mark"
    <3>1. Flip1 \/ Flip2And4 \/ Flip8 \/ Bytes \/ Words \/ Dwords
              \/ ExtrasOver \/ ExtrasInsert => UNCHANGED passed_det
      BY DEF Flip1, Flip2And4, Flip8, Bytes, Words, Dwords, WordStage,
             ExtrasOver, ExtrasInsert, entry
    <3>2. Start \/ HavocStart \/ Stack \/ HavocRun \/ Splice \/ Leaves
              => UNCHANGED passed_det
      BY DEF Start, HavocStart, Stack, HavocRun, Splice, Leaves, entry
    <3>3. InPlace \/ OverwritePart \/ Delete \/ Clone \/ InsertExtra
              => UNCHANGED passed_det
      BY DEF InPlace, OverwritePart, Delete, Clone, InsertExtra, Mutated,
             entry
    <3>4. mark_as_det_done => stage = "mark"
      BY DEF mark_as_det_done
    <3> QED BY <3>1, <3>2, <3>3, <3>4 DEF FuzzNext, Work, Finish, Abandon
  <2> QED BY <2>1, AllSettled DEF WalksSettled
<1> QED BY <1>1, FuzzShapeCorrect, WorkCorrect, PTL
        DEF FuzzSpec, WalksAreEarned

=============================================================================

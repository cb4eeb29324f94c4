------------------------------- MODULE FuzzOne -------------------------------
(***************************************************************************)
(* What AFLGo does with the entry it takes from the queue (fuzz_one,       *)
(* AFLGo/afl-fuzz.c): the deterministic stages with the effector map and   *)
(* the automatic dictionary, havoc and splicing.                           *)
(*                                                                         *)
(* The buffers of the deterministic stages are real bytes, so that what    *)
(* was executed can be compared with what the stages promise.  Havoc keeps *)
(* the lengths of the mangled buffer only.  The entry is the subject's     *)
(* file, or its part M2 for a network target (KlMessages).                 *)
(***************************************************************************)
EXTENDS Mutations

CONSTANTS
    Subjects,   \* what may be fuzzed: records with the fields below
    MAX_FILE, EFF_MIN_LEN, EFF_MAX_PERC, MIN_AUTO_EXTRA, MAX_AUTO_EXTRA,
    USE_AUTO_EXTRAS, MAX_AUTO_EXTRAS, HAVOC_CYCLES, HAVOC_CYCLES_INIT,
    HAVOC_MIN, HAVOC_STACK_POW2, SPLICE_HAVOC, SPLICE_CYCLES    \* config.h

Byte == 0 .. 255

IsFile(f) == f \in Seq(Byte) /\ f # <<>>

(* The values of config.h: a token has two bytes at least, the half of the *)
(* automatic dictionary that is never evicted holds the tokens in use, and *)
(* the blocks of havoc are ordered by size.  Powers of two are positive.   *)
ASSUME ConfigAssumption ==
    /\ {MAX_FILE, MIN_AUTO_EXTRA, MAX_AUTO_EXTRA, USE_AUTO_EXTRAS,
        MAX_AUTO_EXTRAS, HAVOC_CYCLES, HAVOC_CYCLES_INIT, HAVOC_MIN,
        HAVOC_MAX_MULT, HAVOC_STACK_POW2, SPLICE_HAVOC, SPLICE_CYCLES,
        HAVOC_BLK_SMALL, HAVOC_BLK_MEDIUM, HAVOC_BLK_LARGE,
        HAVOC_BLK_XL, EFF_MAP_SCALE2, EFF_MIN_LEN, EFF_MAX_PERC}
           \subseteq Nat
    /\ MIN_AUTO_EXTRA >= 2
    /\ USE_AUTO_EXTRAS >= 1 /\ USE_AUTO_EXTRAS <= MAX_AUTO_EXTRAS \div 2
    /\ HAVOC_BLK_SMALL >= 1 /\ HAVOC_BLK_SMALL <= HAVOC_BLK_MEDIUM
    /\ HAVOC_BLK_MEDIUM <= HAVOC_BLK_LARGE
    /\ HAVOC_BLK_LARGE <= HAVOC_BLK_XL
    /\ 2^EFF_MAP_SCALE2 >= 1
    /\ \A k \in 1 .. HAVOC_STACK_POW2 : 2^k >= 1

(* A subject: queue and current (the files, and which one is taken), what  *)
(* the traces of its runs with the last bit (lsb) or all bits (whole) of a *)
(* byte flipped hash to (0: as the unchanged file), extras (the user's     *)
(* dictionary), dumb_mode, no_arith, skip_det (-d, or another master's     *)
(* entry), queue_cycle and run_over10m, the handicap and the scores of the *)
(* entry, the file that every find is (find), and two bounds: calls of     *)
(* fuzz_one and finds.                                                     *)
ASSUME SubjectAssumption ==
    \A o \in Subjects :
        /\ o.queue \in Seq(Seq(Byte)) /\ o.current \in DOMAIN o.queue
        /\ \A t \in DOMAIN o.queue : IsFile(o.queue[t])
        /\ IsFile(o.find)
        /\ o.lsb \in [DOMAIN o.queue[o.current] -> Nat]
        /\ o.whole \in [DOMAIN o.queue[o.current] -> Nat]
        /\ o.extras \in Seq(Seq(Byte))
        /\ \A j, k \in DOMAIN o.extras :
               j < k => Len(o.extras[j]) <= Len(o.extras[k])
        /\ {o.dumb_mode, o.no_arith, o.skip_det, o.run_over10m}
               \subseteq BOOLEAN
        /\ {o.queue_cycle, o.handicap, o.calls, o.finds} \subseteq Nat
        /\ \A e \in o.scores :
               /\ {e.speed, e.depth} \subseteq Nat
               /\ {e.size, e.power} \subseteq Nat \X (Nat \ {0})

VARIABLES
    subject, stage, calls,
    i,                      \* the position a stage is at
    in_buf, out_buf,
    eff_map,                \* the blocks flagged
    a_collect, prev_cksum, a_extras,
    executed,               \* buffers run by the deterministic stages
    passed_det, was_fuzzed, handicap,       \* of the entry
    doing_det, perf_score, orig_perf,
    stage_cur, stage_max, left,     \* left: operations still to be stacked
    temp_len, alloc,        \* bytes of out_buf in use and allocated
    splice_cycle, files

det   == <<eff_map, a_collect, prev_cksum, a_extras, executed>>
entry == <<passed_det, was_fuzzed, handicap>>
havoc == <<doing_det, perf_score, orig_perf, stage_cur, stage_max, left,
           temp_len, alloc, splice_cycle, files>>
fuzz_vars ==
    <<subject, stage, calls, i, in_buf, out_buf, det, entry, havoc>>

orig_in == subject.queue[subject.current]
len     == Len(in_buf)
Mangled == <<256>>            \* out_buf while havoc is at work

FuzzInit ==
    /\ subject \in Subjects
    /\ stage = "start" /\ calls = 0 /\ i = 0
    /\ in_buf = orig_in /\ out_buf = orig_in
    /\ eff_map = {} /\ a_collect = <<>> /\ prev_cksum = 0 /\ a_extras = <<>>
    /\ executed = {}
    /\ passed_det = FALSE /\ was_fuzzed = FALSE /\ handicap = subject.handicap
    /\ doing_det = FALSE /\ perf_score = 100 /\ orig_perf = 100
    /\ stage_cur = 0 /\ stage_max = 0 /\ left = 0
    /\ temp_len = len /\ alloc = len
    /\ splice_cycle = 0 /\ files = subject.queue

(* The score, and whether the deterministic stages are due. *)
Start ==
    /\ stage = "start" /\ calls < subject.calls
    /\ calls' = calls + 1
    /\ \E e \in subject.scores :
           /\ perf_score' = calculate_score(e, handicap)
           /\ orig_perf' = calculate_score(e, handicap)
    /\ handicap' = HandicapLeft(handicap)
    /\ LET skip == subject.skip_det \/ was_fuzzed \/ passed_det
       IN  /\ doing_det' = ~skip
           /\ stage' = IF skip THEN "havoc" ELSE "flip1"
    /\ i' = 0 /\ in_buf' = orig_in /\ out_buf' = orig_in
    /\ eff_map' = {} /\ a_collect' = <<>> /\ prev_cksum' = 0
    /\ executed' = {} /\ splice_cycle' = 0
    /\ temp_len' = Len(orig_in) /\ alloc' = Len(orig_in)
    /\ UNCHANGED <<subject, a_extras, passed_det, was_fuzzed, stage_cur,
                   stage_max, left, files>>

---------------------------------------------------------------------------
(* The order of the stages. *)
Dictionary ==
    IF subject.extras # <<>> THEN "ext_UO"
    ELSE IF a_extras # <<>> THEN "ext_AO" ELSE "mark"

Arith == IF subject.no_arith THEN "int8" ELSE "arith8"

Follow(s) ==
    CASE s = "flip1"   -> "flip2"
      [] s = "flip2"   -> "flip4"
      [] s = "flip4"   -> "flip8"
      [] s = "flip8"   -> IF len < 2 THEN Arith ELSE "flip16"
      [] s = "flip16"  -> IF len < 4 THEN Arith ELSE "flip32"
      [] s = "flip32"  -> Arith
      [] s = "arith8"  -> IF len < 2 THEN "int8" ELSE "arith16"
      [] s = "arith16" -> IF len < 4 THEN "int8" ELSE "arith32"
      [] s = "arith32" -> "int8"
      [] s = "int8"    -> IF subject.no_arith \/ len < 2 THEN Dictionary
                              ELSE "int16"
      [] s = "int16"   -> IF len < 4 THEN Dictionary ELSE "int32"
      [] s = "int32"   -> Dictionary
      [] s = "ext_UO"  -> "ext_UI"
      [] s = "ext_UI"  -> IF a_extras # <<>> THEN "ext_AO" ELSE "mark"
      [] s = "ext_AO"  -> "mark"

(* To the next of a stage's positions, the last one given. *)
ToNext(last) ==
    IF i < last THEN i' = i + 1 /\ stage' = stage
    ELSE i' = 0 /\ stage' = Follow(stage)

FlipStage(k) ==
    /\ executed' = executed \union
           {FlipBits(in_buf, b, k) :
               b \in {b \in 8 * i .. 8 * i + 7 : b + k <= 8 * len}}
    /\ ToNext(len - 1)

---------------------------------------------------------------------------
(* The automatic dictionary. *)
Lower(c) == IF c \in 65 .. 90 THEN c + 32 ELSE c

memcmp_nocase(a, b) ==
    Len(a) = Len(b) /\ \A k \in DOMAIN a : Lower(a[k]) = Lower(b[k])

(* What maybe_add_auto turns down. *)
Rejected(mem) ==
    \/ \A k \in DOMAIN mem : mem[k] = mem[1]
    \/ Len(mem) \in {2, 4} /\ {mem, Reverse(mem)} \cap Interesting(Len(mem))
                               # {}
    \/ \E k \in DOMAIN subject.extras : memcmp_nocase(subject.extras[k], mem)

(* The lists qsort may make: most used first, the top of it by size. *)
BySize(list) ==
    {s \in SetToSeqs(Range(list)) :
        \A j, k \in DOMAIN s :
            j < k => IF k <= USE_AUTO_EXTRAS
                     THEN Len(s[j].data) <= Len(s[k].data)
                     ELSE s[j].hit_cnt >= s[k].hit_cnt}

(* Mutant: the top of the list stays in the order of use. *)
ByUse(list) ==
    {s \in SetToSeqs(Range(list)) :
        \A j, k \in DOMAIN s : j < k => s[j].hit_cnt >= s[k].hit_cnt}

SortedAuto(list) == BySize(list)

(* Mutant: any token may be evicted. *)
EvictAny(list, mem) ==
    {[list EXCEPT ![k] = [data |-> mem, hit_cnt |-> 0]] : k \in DOMAIN list}

(* One of the bottom half goes. *)
Evict(list, mem) ==
    {[list EXCEPT ![MAX_AUTO_EXTRAS \div 2 + 1 + k] =
         [data |-> mem, hit_cnt |-> 0]] :
        k \in 0 .. (MAX_AUTO_EXTRAS + 1) \div 2 - 1}

maybe_add_auto(mem) ==
    IF \/ Len(mem) \notin MIN_AUTO_EXTRA .. MAX_AUTO_EXTRA
       \/ Rejected(mem)
    THEN {a_extras}
    ELSE LET same == {k \in DOMAIN a_extras :
                         memcmp_nocase(a_extras[k].data, mem)}
             lists ==
                 IF same # {}
                 THEN {[a_extras EXCEPT ![k].hit_cnt = @ + 1] : k \in same}
                 ELSE IF Len(a_extras) < MAX_AUTO_EXTRAS
                 THEN {Append(a_extras, [data |-> mem, hit_cnt |-> 0])}
                 ELSE Evict(a_extras, mem)
         IN  UNION {SortedAuto(list) : list \in lists}

(* Mutant: a token goes on after the trace has changed. *)
CollectOn(cksum, byte) ==
    /\ a_extras' \in maybe_add_auto(a_collect)
    /\ prev_cksum' = cksum
    /\ a_collect' = IF cksum # 0 THEN Append(a_collect, byte) ELSE a_collect

(* The byte at position i after its last bit was flipped with this hash. *)
Collect(cksum, byte) ==
    LET final == i = len - 1 /\ cksum = prev_cksum
        kept  == IF final THEN Append(a_collect, byte)
                 ELSE IF cksum # prev_cksum THEN <<>> ELSE a_collect
    IN  /\ a_extras' \in IF final THEN maybe_add_auto(kept)
                         ELSE IF cksum # prev_cksum
                         THEN maybe_add_auto(a_collect) ELSE {a_extras}
        /\ prev_cksum' = cksum
        /\ a_collect' = IF cksum # 0 THEN Append(kept, byte) ELSE kept

Flip1 ==
    /\ stage = "flip1"
    /\ FlipStage(1)
    /\ IF subject.dumb_mode THEN UNCHANGED <<a_extras, prev_cksum, a_collect>>
       ELSE Collect(subject.lsb[i + 1], in_buf[i + 1])
    /\ UNCHANGED <<subject, calls, in_buf, out_buf, eff_map, entry, havoc>>

Flip2And4 ==
    /\ stage \in {"flip2", "flip4"}
    /\ FlipStage(IF stage = "flip2" THEN 2 ELSE 4)
    /\ UNCHANGED <<subject, calls, in_buf, out_buf, eff_map, a_collect,
                   prev_cksum, a_extras, entry, havoc>>

---------------------------------------------------------------------------
(* The walking byte fills the effector map. *)
FirstEff == {0, EFF_APOS(len - 1)}

(* Whether the run with byte i flipped flags its block. *)
Flags == subject.dumb_mode \/ len < EFF_MIN_LEN \/ subject.whole[i + 1] # 0

(* A dense map is filled up. *)
Filled(eff) ==
    IF (Cardinality(eff) * 100) \div EFF_ALEN(len) > EFF_MAX_PERC
    THEN 0 .. EFF_ALEN(len) - 1 ELSE eff

Flip8 ==
    /\ stage = "flip8"
    /\ executed' = executed \union {FlipBytes(in_buf, i, 1)}
    /\ LET before == IF i = 0 THEN FirstEff ELSE eff_map
           now    == before \union IF Flags THEN {EFF_APOS(i)} ELSE {}
       IN  eff_map' = IF i = len - 1 THEN Filled(now) ELSE now
    /\ ToNext(len - 1)
    /\ UNCHANGED <<subject, calls, in_buf, out_buf, a_collect, prev_cksum,
                   a_extras, entry, havoc>>

(* A stage tries a word if one of its bytes is in a flagged block. *)
Effective(w) == Span(i, w) \cap eff_map # {}

(* The words a stage puts at position i. *)
Tries(s, w) ==
    LET old == WordAt(in_buf, i, w) IN
    CASE s \in {"flip16", "flip32"} ->
             {WordAt(FlipBytes(in_buf, i, w), i, w)}
      [] s \in {"arith8", "arith16", "arith32"} -> ArithWords(old)
      [] s \in {"int8", "int16", "int32"}       -> InterestWords(old)

WordStage(stages, w) ==
    /\ stage \in stages
    /\ executed' = executed \union
           (IF Effective(w)
            THEN {Put(in_buf, i, word) : word \in Tries(stage, w)} ELSE {})
    /\ ToNext(len - w)
    /\ UNCHANGED <<subject, calls, in_buf, out_buf, eff_map, a_collect,
                   prev_cksum, a_extras, entry, havoc>>

Bytes  == WordStage({"arith8", "int8"}, 1)
Words  == WordStage({"flip16", "arith16", "int16"}, 2)
Dwords == WordStage({"flip32", "arith32", "int32"}, 4)

---------------------------------------------------------------------------
(* Dictionaries. *)
InUse == [k \in 1 .. Smaller(Len(a_extras), USE_AUTO_EXTRAS) |->
            a_extras[k].data]

(* A token is written over position i, unless it does not fit, is there    *)
(* already or only covers blocks without an effect.                        *)
Over(st, token) ==
    IF \/ Len(token) > len - i
       \/ WordAt(st.buf, i, Len(token)) = token
       \/ ~Effective(Len(token))
    THEN st
    ELSE [buf |-> Put(st.buf, i, token), last |-> Len(token),
          runs |-> st.runs \union {Put(st.buf, i, token)}]

(* The tokens are written one after the other, without a restore in        *)
(* between: each is compared with the buffer the ones before it have left. *)
Overwrite(tokens) ==
    LET over[k \in 0 .. Len(tokens)] ==
            IF k = 0 THEN [buf |-> out_buf, last |-> 0, runs |-> {}]
            ELSE Over(over[k - 1], tokens[k])
    IN  over[Len(tokens)]

(* Only as many bytes as the last token has are restored. *)
Restore(st) == Put(st.buf, i, WordAt(in_buf, i, st.last))

ExtrasOver ==
    /\ stage \in {"ext_UO", "ext_AO"}
    /\ LET st == Overwrite(IF stage = "ext_UO" THEN subject.extras ELSE InUse)
       IN  /\ executed' = executed \union st.runs
           /\ out_buf' = Restore(st)
    /\ ToNext(len - 1)
    /\ UNCHANGED <<subject, calls, in_buf, eff_map, a_collect, prev_cksum,
                   a_extras, entry, havoc>>

Inserted(token) ==
    SubSeq(out_buf, 1, i) \o token \o SubSeq(out_buf, i + 1, len)

ExtrasInsert ==
    /\ stage = "ext_UI"
    /\ executed' = executed \union
           {Inserted(token) : token \in
               {t \in Range(subject.extras) : len + Len(t) <= MAX_FILE}}
    /\ ToNext(len)
    /\ UNCHANGED <<subject, calls, in_buf, out_buf, eff_map, a_collect,
                   prev_cksum, a_extras, entry, havoc>>

mark_as_det_done ==
    /\ stage = "mark"
    /\ passed_det' = TRUE
    /\ stage' = "havoc"
    /\ UNCHANGED <<subject, calls, i, in_buf, out_buf, det, was_fuzzed,
                   handicap, havoc>>

---------------------------------------------------------------------------
(* Havoc.  The first round comes after the deterministic stages or in      *)
(* their place, the others after a splice.                                 *)
HavocStart ==
    /\ stage = "havoc"
    /\ executed' = {}       \* the properties have looked at it
    /\ perf_score' = IF splice_cycle = 0 THEN perf_score ELSE orig_perf
    /\ LET cycles == IF splice_cycle > 0 THEN SPLICE_HAVOC
                     ELSE IF doing_det THEN HAVOC_CYCLES_INIT
                     ELSE HAVOC_CYCLES
           wanted == (cycles * perf_score') \div 100
       IN  stage_max' = IF wanted < HAVOC_MIN THEN HAVOC_MIN ELSE wanted
    /\ stage_cur' = 0 /\ temp_len' = len
    /\ stage' = "stack"
    /\ UNCHANGED <<subject, calls, i, in_buf, out_buf, eff_map, a_collect,
                   prev_cksum, a_extras, entry, doing_det, orig_perf, left,
                   alloc, splice_cycle, files>>

(* How many operations are stacked on the next input; none is left to try. *)
Stack ==
    /\ stage = "stack"
    /\ IF stage_cur < stage_max
       THEN /\ \E k \in 1 .. HAVOC_STACK_POW2 : left' = 2^k
            /\ stage' = "mutate"
       ELSE left' = 0 /\ stage' = "splice"
    /\ UNCHANGED <<subject, calls, i, in_buf, out_buf, det, entry, doing_det,
                   perf_score, orig_perf, stage_cur, stage_max, temp_len,
                   alloc, splice_cycle, files>>

Mutated(n, size) ==
    /\ stage = "mutate" /\ left > 0
    /\ left' = left - 1
    /\ temp_len' = n /\ alloc' = size
    /\ out_buf' = Mangled
    /\ UNCHANGED <<subject, stage, calls, i, in_buf, det, entry, doing_det,
                   perf_score, orig_perf, stage_cur, stage_max,
                   splice_cycle, files>>

AnyToken == Range(subject.extras) \union {e.data : e \in Range(a_extras)}

(* Flips and numbers; a word that does not fit is not written.             *)
InPlace == Mutated(temp_len, alloc)

(* A chunk of the buffer, a constant or a token is written over a part.    *)
OverwritePart ==
    /\ temp_len >= 2 \/ \E token \in AnyToken : Len(token) <= temp_len
    /\ Mutated(temp_len, alloc)

BlockLens(limit) ==
    choose_block_len(limit, subject.queue_cycle, subject.run_over10m)

Delete ==
    /\ temp_len >= 2
    /\ \E n \in BlockLens(temp_len - 1) : Mutated(temp_len - n, alloc)

(* A block of the buffer, or of a constant, goes into a new buffer. *)
Clone ==
    /\ temp_len + HAVOC_BLK_XL < MAX_FILE
    /\ \E n \in BlockLens(temp_len) \union BlockLens(HAVOC_BLK_XL) :
           Mutated(temp_len + n, temp_len + n)

Room(n) == temp_len + n < MAX_FILE

InsertExtra ==
    \E token \in AnyToken :
        /\ Room(Len(token))
        /\ Mutated(temp_len + Len(token), temp_len + Len(token))

(* Mutant: the buffer keeps the size the mutations gave it. *)
Unshrunk == alloc

(* A buffer that has shrunk is reallocated for the restore. *)
Regrown == IF temp_len < len THEN len ELSE alloc

Longer ==
    IF perf_score <= HAVOC_MAX_MULT * 100
    THEN stage_max' = stage_max * 2 /\ perf_score' = perf_score * 2
    ELSE UNCHANGED <<stage_max, perf_score>>

(* The run; the buffer is restored; a find makes the stage longer. *)
HavocRun ==
    /\ stage = "mutate" /\ left = 0
    /\ \/ UNCHANGED <<files, stage_max, perf_score>>
       \/ /\ Len(files) < Len(subject.queue) + subject.finds        \* bound
          /\ files' = Append(files, subject.find)
          /\ Longer
    /\ alloc' = Regrown
    /\ temp_len' = len
    /\ out_buf' = in_buf
    /\ stage_cur' = stage_cur + 1
    /\ stage' = "stack"
    /\ UNCHANGED <<subject, calls, i, in_buf, det, entry, doing_det, orig_perf,
                   left, splice_cycle>>

---------------------------------------------------------------------------
(* Splicing.  The entry tid, or the first one behind it that is long       *)
(* enough and is not the current one; 0 if there is none.                  *)
Target(tid) ==
    LET fit == {t \in tid .. Len(files) :
                   t # subject.current /\ Len(files[t]) >= 2}
    IN  IF fit = {} THEN 0 ELSE CHOOSE t \in fit : \A u \in fit : t <= u

MaySplice ==
    /\ splice_cycle < SPLICE_CYCLES
    /\ Len(files) > 1 /\ Len(orig_in) > 1

(* Where the target may be split: nowhere if the two files differ in a     *)
(* byte or so.                                                             *)
SplitAt(target) ==
    LET d == locate_diffs(orig_in, target)
    IN  IF d[1] < 0 \/ d[2] < 2 \/ d[1] = d[2] THEN {} ELSE d[1] .. d[2] - 1

(* One attempt: the splice goes to havoc, or another attempt is due. *)
Splice ==
    /\ stage = "splice" /\ MaySplice
    /\ \E tid \in DOMAIN files \ {subject.current} :
           LET t == Target(tid)
               places == IF t = 0 THEN {} ELSE SplitAt(files[t])
           IN  /\ splice_cycle' = splice_cycle + 1
               /\ IF places = {}
                  THEN /\ in_buf' = orig_in
                       /\ UNCHANGED <<stage, out_buf, alloc>>
                  ELSE /\ \E at \in places :
                              in_buf' = SubSeq(orig_in, 1, at) \o
                                  SubSeq(files[t], at + 1, Len(files[t]))
                       /\ out_buf' = in_buf'
                       /\ alloc' = Len(in_buf')
                       /\ stage' = "havoc"
    /\ UNCHANGED <<subject, calls, i, det, entry, doing_det, perf_score,
                   orig_perf, stage_cur, stage_max, left, temp_len, files>>

Leaves ==
    /\ was_fuzzed' = TRUE
    /\ stage' = "start" /\ i' = 0
    /\ in_buf' = orig_in /\ out_buf' = orig_in
    /\ eff_map' = {} /\ a_collect' = <<>> /\ prev_cksum' = 0
    /\ executed' = {}
    /\ stage_cur' = 0 /\ stage_max' = 0 /\ left' = 0
    /\ temp_len' = Len(orig_in) /\ alloc' = Len(orig_in)
    /\ splice_cycle' = 0
    /\ UNCHANGED <<subject, calls, a_extras, passed_det, handicap, doing_det,
                   perf_score, orig_perf, files>>

Finish == stage = "splice" /\ ~MaySplice /\ Leaves

(* common_fuzz_stuff gives up: too many timeouts, or the user skips the    *)
(* entry with SIGUSR1.  The entry counts as fuzzed.                        *)
Abandon ==
    /\ stage \notin {"start", "mark", "havoc", "stack", "splice"}
    /\ stage = "mutate" => left = 0
    /\ Leaves

Work ==
    \/ Start \/ Flip1 \/ Flip2And4 \/ Flip8 \/ Bytes \/ Words \/ Dwords
    \/ ExtrasOver \/ ExtrasInsert \/ mark_as_det_done
    \/ HavocStart \/ Stack \/ InPlace \/ OverwritePart \/ Delete \/ Clone
    \/ InsertExtra \/ HavocRun \/ Splice \/ Finish

FuzzNext == Work \/ Abandon

FuzzSpec == FuzzInit /\ [][FuzzNext]_fuzz_vars

---------------------------------------------------------------------------
(* What the stages promise to have tried when an entry is marked. *)
FlipsOf ==
    (UNION {{FlipBits(in_buf, b, k) : b \in 0 .. 8 * len - k} :
            k \in {1, 2, 4}})
        \union (UNION {{FlipBytes(in_buf, p, w) : p \in 0 .. len - w} :
                       w \in {1, 2, 4}})

WordsOf(old, numbers) ==
    {Plus(old, v) : v \in numbers}
        \union {Reverse(Plus(Reverse(old), v)) : v \in numbers}

ArithOf ==
    UNION {UNION {{Put(in_buf, p, word) :
                       word \in WordsOf(WordAt(in_buf, p, w), Steps)} :
                   p \in 0 .. len - w} : w \in {1, 2, 4}}

InterestOf ==
    UNION {UNION {{Put(in_buf, p, word) :
                       word \in Interesting(w)
                                  \union {Reverse(u) : u \in Interesting(w)}} :
                   p \in 0 .. len - w} : w \in {1, 2, 4}}

TokensOf ==
    {Put(in_buf, p[1], p[2]) : p \in
        {q \in (0 .. len - 1) \X Range(subject.extras) :
            q[1] + Len(q[2]) <= len}}
    \union
    {SubSeq(in_buf, 1, p[1]) \o p[2] \o SubSeq(in_buf, p[1] + 1, len) : p \in
        {q \in (0 .. len) \X Range(subject.extras) :
            len + Len(q[2]) <= MAX_FILE}}

(* The blocks a candidate changes; one of another length changes them all. *)
Blocks(c) ==
    IF Len(c) # len THEN eff_map
    ELSE {EFF_APOS(p - 1) : p \in {p \in 1 .. len : c[p] # in_buf[p]}}

(* Two or four neighbouring bits of the little endian word, in two bytes:  *)
(* no walking bit flips makes them, they walk from the most significant    *)
(* bit of a byte to the least.                                             *)
Crossing(c) ==
    /\ Len(c) = len
    /\ LET bits == Xor(in_buf, c) IN
           /\ \E k \in {2, 4} : RunOf(bits, k)
           /\ \E a, b \in bits : a \div 8 # b \div 8

Tried(c) == c = in_buf \/ c \in executed

(* A candidate was run, itself or as the product of another stage, or it   *)
(* only changes blocks without an effect.                                  *)
Settled(c) == Tried(c) \/ Blocks(c) \cap eff_map = {}

(* Each walking flip, and each token of the user's dictionary over and in  *)
(* each place.                                                             *)
WalksSettled == \A c \in FlipsOf \union TokensOf : Settled(c)

(* Each sum and each interesting number, unless it is of the kind          *)
(* Crossing: the tests that skip duplicates never lose a value otherwise.  *)
SumsSettled ==
    subject.no_arith
    \/ \A c \in ArithOf \union InterestOf : Settled(c) \/ Crossing(c)

(* The mark of an entry (mark_as_det_done), which makes every later        *)
(* session skip its deterministic stages, is earned.                       *)
DetDoneIsEarned ==
    [][~passed_det /\ passed_det' => WalksSettled /\ SumsSettled]_fuzz_vars

(* The part of it that does not hang on the tests for duplicates of sums.  *)
WalksAreEarned ==
    [][~passed_det /\ passed_det' => WalksSettled]_fuzz_vars

(* could_be_bitflip is meant for what the bit flips have made, "with the   *)
(* lengths and stepovers attempted by afl-fuzz", "to avoid dupes": what it *)
(* turns down was run.                                                     *)
SkippedAreDupes ==
    [][~passed_det /\ passed_det' =>
           subject.no_arith \/ \A c \in ArithOf : Settled(c)]_fuzz_vars

(* Whenever a stage goes to its next position, and whenever an input of    *)
(* havoc has been run, out_buf is the input again: the tokens written over *)
(* each other are gone, as only the bytes of the last one are restored.    *)
OutBufRestored == stage \notin {"mutate", "splice"} => out_buf = in_buf

(* The mangled buffer is never empty, never longer than its allocation,    *)
(* and grows past the input only below MAX_FILE; the allocation always has *)
(* room for the restore.  Between two rounds temp_len is not used: after a *)
(* splice it may exceed the new buffer.                                    *)
BufferFits ==
    /\ stage \notin {"havoc", "splice"} =>
           /\ temp_len \in 1 .. alloc
           /\ temp_len <= len \/ temp_len < MAX_FILE
    /\ stage \notin {"mutate", "splice"} => alloc >= len

(* The longest runs of bytes whose flips give one and the same trace,      *)
(* other than that of the unchanged file.                                  *)
Tokens ==
    LET ck == subject.lsb
        file == orig_in
    IN  {SubSeq(file, p[1], p[2]) : p \in
            {q \in (DOMAIN file) \X (DOMAIN file) :
                /\ q[2] - q[1] + 1 \in MIN_AUTO_EXTRA .. MAX_AUTO_EXTRA
                /\ \A k \in q[1] .. q[2] : ck[k] = ck[q[1]] /\ ck[k] # 0
                /\ q[1] > 1 => ck[q[1] - 1] # ck[q[1]]
                /\ q[2] < Len(file) => ck[q[2] + 1] # ck[q[1]]}}

(* The automatic dictionary holds such runs only, in whole and each once   *)
(* whatever its case; and after the first bit flips it holds every one     *)
(* that is of use, unless it is full.                                      *)
AutoAreTokens ==
    /\ \A k \in DOMAIN a_extras : a_extras[k].data \in Tokens
    /\ \A j, k \in DOMAIN a_extras :
           memcmp_nocase(a_extras[j].data, a_extras[k].data) => j = k
    /\ stage = "flip2" /\ ~subject.dumb_mode
           /\ Len(a_extras) < MAX_AUTO_EXTRAS =>
           \A t \in Tokens :
               \/ Rejected(t)
               \/ \E k \in DOMAIN a_extras : memcmp_nocase(a_extras[k].data, t)

(* A token only leaves the dictionary while half of the dictionary was     *)
(* found at least as often: the order by size of the top, made for the     *)
(* overwriting stage, does not mix up the half that may be evicted.        *)
UsefulTokensStay ==
    [][\A j \in DOMAIN a_extras :
           \/ \E k \in DOMAIN a_extras' : a_extras'[k].data = a_extras[j].data
           \/ Cardinality({k \in DOMAIN a_extras \ {j} :
                  a_extras[k].hit_cnt >= a_extras[j].hit_cnt})
                 >= MAX_AUTO_EXTRAS \div 2]_fuzz_vars

(* However much it finds, a round of havoc grows with the score only: at   *)
(* most until the score has passed twice its largest value.  (A score of   *)
(* zero stays zero and does not limit it.)                                 *)
HavocBounded ==
    stage \in {"stack", "mutate"} /\ orig_perf > 0 =>
        /\ perf_score <= 2 * HAVOC_MAX_MULT * 100
        /\ LET most == IF splice_cycle > 0 THEN SPLICE_HAVOC
                       ELSE IF doing_det THEN HAVOC_CYCLES_INIT
                       ELSE HAVOC_CYCLES
           IN  \/ stage_max <= (most * perf_score) \div 100
               \/ stage_max <= (HAVOC_MIN * perf_score) \div orig_perf

(* What is spliced is not the entry again, and ends as another one does.   *)
SpliceDiffers ==
    stage = "havoc" /\ splice_cycle > 0 =>
        /\ in_buf # orig_in
        /\ \E t \in DOMAIN files \ {subject.current} :
               Len(files[t]) = len /\ Last(files[t]) = Last(in_buf)

FuzzTypeOK ==
    /\ stage \in {"start", "flip1", "flip2", "flip4", "flip8", "flip16",
                  "flip32", "arith8", "arith16", "arith32", "int8", "int16",
                  "int32", "ext_UO", "ext_UI", "ext_AO", "mark", "havoc",
                  "stack", "mutate", "splice"}
    /\ IsFile(in_buf) /\ i \in 0 .. len
    /\ out_buf = Mangled \/ IsFile(out_buf)
    /\ eff_map \subseteq 0 .. EFF_ALEN(Len(orig_in)) - 1
    /\ a_extras \in Seq([data : Seq(Byte), hit_cnt : Nat])
    /\ Len(a_extras) <= MAX_AUTO_EXTRAS
    /\ {calls, handicap, perf_score, orig_perf, stage_cur, stage_max, left,
        temp_len, alloc} \subseteq Nat
    /\ splice_cycle \in 0 .. SPLICE_CYCLES
    /\ files \in Seq(Seq(Byte)) /\ \A t \in DOMAIN files : IsFile(files[t])

=============================================================================

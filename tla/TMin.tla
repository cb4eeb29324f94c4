-------------------------------- MODULE TMin --------------------------------
(***************************************************************************)
(* afl-tmin (afl-tmin.c): makes a file smaller and simpler as long as the  *)
(* target does the same with it: crashes, when the file given crashes it,  *)
(* and otherwise (or with AFL_TMIN_EXACT) leaves the same trace.  Every    *)
(* action is one iteration of a loop of minimize, with its execution of    *)
(* the target; the user may interrupt between any two.                     *)
(***************************************************************************)
EXTENDS Integers, Sequences, FiniteSetsExt

CONSTANTS
    Subjects,            \* what afl-tmin is started with: target, options,
                         \* mask of trace bits, input file
    Outcomes(_, _),      \* what a target may do with a file (external)
    Zero,                \* the character '0'
    TRIM_START_STEPS, TMIN_SET_STEPS, TMIN_SET_MIN_SIZE   \* config.h

Symbols(d) == {d[k] : k \in DOMAIN d}

(* read_initial_file refuses an empty file.                                *)
ASSUME TMinAssumption ==
    /\ {TRIM_START_STEPS, TMIN_SET_STEPS, TMIN_SET_MIN_SIZE}
         \subseteq Nat \ {0}
    /\ \A x \in Subjects :
         x.in_data \in Seq(Symbols(x.in_data)) \ {<<>>}

VARIABLES
    subj,           \* the options and the file of this start
    in_data,        \* the smallest file kept so far
    tmp_buf,        \* character stage: the file tried, one byte at a time
    crash_mode, orig_cksum,   \* what the dry run did
    pc,             \* the stage
    pos,            \* set_pos, del_pos, or i of the character stage
    blk,            \* set_len or del_len
    prev_del,       \* the previous block was deleted, or there is none
    cur_pass,       \* 1, or 2 for every later pass: all that is asked of it
    changed_any,    \* this pass changed in_data
    alpha,          \* symbols of alpha_map the loop has still to try
    stop_soon,      \* Ctrl-C was pressed
    out_file        \* what was written to the output file, if anything

dry_run == <<crash_mode, orig_cksum>>
loop    == <<pos, blk, prev_del>>
pass    == <<cur_pass, changed_any>>
vars    == <<subj, in_data, tmp_buf, dry_run, pc, loop, pass, alpha,
             stop_soon, out_file>>

Goto(l) == pc' = l

-----------------------------------------------------------------------------
(* An execution: how it ends and how often it hits every tuple.            *)

Buckets == <<0, 1, 2, 3, 7, 15, 31, 127, 255>>
Classes == <<0, 1, 2, 4, 8, 16, 32, 64, 128>>

count_class_lookup(n) ==
    Classes[Min({k \in DOMAIN Buckets : n <= Buckets[k]})]

classify_counts(hits) ==
    [t \in DOMAIN hits |-> IF subj.edges_only THEN Min({1, hits[t]})
                           ELSE count_class_lookup(hits[t])]

(* A classified count is one bit; the mask names the bits to clear.        *)
apply_mask(mem) ==
    [t \in DOMAIN mem |-> IF mem[t] \in subj.mask[t] THEN 0 ELSE mem[t]]

trace_bits(o)  == apply_mask(classify_counts(o.hits))
anything_set(mem) == \E t \in DOMAIN mem : mem[t] # 0

TimedOut(o) == o.end = "hangs"
Crashed(o)  == o.end = "signal" \/ (o.end = "fails" /\ subj.exit_crash)

(* The verdict of run_target: 1, keep the change (hash32 has no collision).*)
Keep(o) ==
    /\ ~ TimedOut(o)
    /\ Crashed(o) = crash_mode
    /\ \/ (crash_mode /\ ~ subj.exact_mode)
       \/ trace_bits(o) = orig_cksum

(* The dry run gets as far as the checksum.                                *)
Compared(o) == ~ TimedOut(o) /\ (Crashed(o) => subj.exact_mode)

(* The verdicts an execution may give; an interrupted one gives none.      *)
run_target(mem) == {Keep(o) : o \in Outcomes(subj.target, mem)}

-----------------------------------------------------------------------------
Init ==
    /\ subj \in Subjects
    /\ in_data = subj.in_data /\ tmp_buf = <<>>
    /\ crash_mode = FALSE /\ orig_cksum = <<>>
    /\ pc = "dry" /\ pos = 0 /\ blk = 1 /\ prev_del = TRUE
    /\ cur_pass = 1 /\ changed_any = FALSE /\ alpha = {}
    /\ stop_soon = FALSE /\ out_file = {}

(* ret <<= 1, times over.                                                  *)
Doubled[times \in Nat] == IF times = 0 THEN 1 ELSE 2 * Doubled[times - 1]

(* First power of two greater or equal to val.                             *)
next_p2(val) == Min({p \in {Doubled[n] : n \in 0 .. val} : p >= val})

SetLen == Max({TMIN_SET_MIN_SIZE, next_p2(Len(in_data) \div TMIN_SET_STEPS)})
DelLen == next_p2(Len(in_data) \div TRIM_START_STEPS)

(* main: the dry run selects the mode; a hang or an empty trace is fatal.  *)
DryRun ==
    /\ pc = "dry" /\ ~ stop_soon
    /\ \E o \in Outcomes(subj.target, in_data) :
         /\ crash_mode' = (~ TimedOut(o) /\ Crashed(o))
         /\ orig_cksum' = IF Compared(o) THEN trace_bits(o) ELSE orig_cksum
         /\ IF TimedOut(o) \/ ~ (Crashed(o) \/ anything_set(trace_bits(o)))
              THEN Goto("fatal") /\ UNCHANGED <<pos, blk>>
              ELSE Goto("normalize") /\ pos' = 0 /\ blk' = SetLen
    /\ UNCHANGED <<subj, in_data, tmp_buf, prev_del, pass, alpha, stop_soon,
                   out_file>>

-----------------------------------------------------------------------------
(* Block normalisation: one block after the other becomes zeroes.          *)
Blank ==
    [k \in DOMAIN in_data |->
        IF pos < k /\ k <= pos + blk THEN Zero ELSE in_data[k]]

TriesBlank == pc = "normalize" /\ pos < Len(in_data) /\ Blank # in_data

NormalizeBlock ==
    /\ TriesBlank /\ ~ stop_soon
    /\ \E res \in run_target(Blank) :
         in_data' = IF res THEN Blank ELSE in_data
    /\ pos' = pos + blk
    /\ UNCHANGED <<subj, tmp_buf, dry_run, pc, blk, prev_del, pass, alpha,
                   stop_soon, out_file>>

BlankAlready ==
    /\ pc = "normalize" /\ pos < Len(in_data) /\ Blank = in_data
    /\ pos' = pos + blk
    /\ UNCHANGED <<subj, in_data, tmp_buf, dry_run, pc, blk, prev_del, pass,
                   alpha, stop_soon, out_file>>

(* next_pass                                                               *)
StartPass ==
    /\ changed_any' = FALSE
    /\ blk' = DelLen /\ pos' = 0 /\ prev_del' = TRUE
    /\ Goto("delete")

FirstPass ==
    /\ pc = "normalize" /\ pos >= Len(in_data)
    /\ StartPass
    /\ UNCHANGED <<subj, in_data, tmp_buf, dry_run, cur_pass, alpha,
                   stop_soon, out_file>>

-----------------------------------------------------------------------------
(* Block deletion, by blocks of half the size in every round.              *)
Deleted ==
    SubSeq(in_data, 1, pos) \o SubSeq(in_data, pos + blk + 1, Len(in_data))

tail_len == Max({0, Len(in_data) - pos - blk})

(* The block repeats the one before it, which was not deleted.             *)
Repeats ==
    /\ ~ prev_del /\ tail_len > 0
    /\ SubSeq(in_data, pos - blk + 1, pos)
         = SubSeq(in_data, pos + 1, pos + blk)

TriesDeletion == pc = "delete" /\ pos < Len(in_data) /\ ~ Repeats

(* in_data changes only here and below, and only into a file that was run. *)
DeleteBlock ==
    /\ TriesDeletion /\ ~ stop_soon
    /\ \E res \in run_target(Deleted) :
         /\ prev_del' = res
         /\ IF res
              THEN in_data' = Deleted /\ changed_any' = TRUE /\ UNCHANGED pos
              ELSE pos' = pos + blk /\ UNCHANGED <<in_data, changed_any>>
    /\ UNCHANGED <<subj, tmp_buf, dry_run, pc, blk, cur_pass, alpha,
                   stop_soon, out_file>>

SkipRepeat ==
    /\ pc = "delete" /\ pos < Len(in_data) /\ Repeats
    /\ pos' = pos + blk
    /\ UNCHANGED <<subj, in_data, tmp_buf, dry_run, pc, blk, prev_del, pass,
                   alpha, stop_soon, out_file>>

(* Mutants: blocks of two bytes are the smallest; there is no smallest.    *)
StopAtTwo == blk > 2 /\ in_data # <<>>
GoesAlways == in_data # <<>>

GoesOn == blk > 1 /\ in_data # <<>>

HalveBlock ==
    /\ pc = "delete" /\ pos >= Len(in_data) /\ GoesOn
    /\ blk' = blk \div 2 /\ pos' = 0 /\ prev_del' = TRUE
    /\ UNCHANGED <<subj, in_data, tmp_buf, dry_run, pc, pass, alpha,
                   stop_soon, out_file>>

(* From the second pass on, a deletion round without success is the end.   *)
EndDeletion ==
    /\ pc = "delete" /\ pos >= Len(in_data) /\ ~ GoesOn
    /\ IF cur_pass > 1 /\ ~ changed_any
         THEN Goto("write") /\ UNCHANGED alpha
         ELSE Goto("alphabet") /\ alpha' = Symbols(in_data) \ {Zero}
    /\ UNCHANGED <<subj, in_data, tmp_buf, dry_run, loop, pass, stop_soon,
                   out_file>>

-----------------------------------------------------------------------------
(* Alphabet minimisation: a symbol becomes '0' wherever it occurs.         *)
Symbol == Min(alpha)

Replaced ==
    [k \in DOMAIN in_data |->
        IF in_data[k] = Symbol THEN Zero ELSE in_data[k]]

TriesSymbol == pc = "alphabet" /\ alpha # {}

ReplaceSymbol ==
    /\ TriesSymbol /\ ~ stop_soon
    /\ \E res \in run_target(Replaced) :
         IF res THEN in_data' = Replaced /\ changed_any' = TRUE
         ELSE UNCHANGED <<in_data, changed_any>>
    /\ alpha' = alpha \ {Symbol}
    /\ UNCHANGED <<subj, tmp_buf, dry_run, pc, loop, cur_pass, stop_soon,
                   out_file>>

StartCharacters ==
    /\ pc = "alphabet" /\ alpha = {}
    /\ tmp_buf' = in_data /\ pos' = 0
    /\ Goto("character")
    /\ UNCHANGED <<subj, in_data, dry_run, blk, prev_del, pass, alpha,
                   stop_soon, out_file>>

-----------------------------------------------------------------------------
(* Character minimisation.  tmp_buf goes through the whole stage: a byte   *)
(* that must stay is put back, a byte that may go is zeroed in both.       *)
Changed == [tmp_buf EXCEPT ![pos + 1] = Zero]

(* Mutant: the byte is not put back.                                       *)
Left(mem) == mem

PutBack(mem) == tmp_buf
IsOther == tmp_buf[pos + 1] # Zero

TriesCharacter == pc = "character" /\ pos < Len(in_data) /\ IsOther

ReplaceCharacter ==
    /\ TriesCharacter /\ ~ stop_soon
    /\ \E res \in run_target(Changed) :
         IF res THEN /\ in_data' = [in_data EXCEPT ![pos + 1] = Zero]
                     /\ tmp_buf' = Changed /\ changed_any' = TRUE
         ELSE tmp_buf' = PutBack(Changed) /\ UNCHANGED <<in_data, changed_any>>
    /\ pos' = pos + 1
    /\ UNCHANGED <<subj, dry_run, pc, blk, prev_del, cur_pass, alpha,
                   stop_soon, out_file>>

SkipZero ==
    /\ pc = "character" /\ pos < Len(in_data) /\ ~ IsOther
    /\ pos' = pos + 1
    /\ UNCHANGED <<subj, in_data, tmp_buf, dry_run, pc, blk, prev_del, pass,
                   alpha, stop_soon, out_file>>

(* Any change since next_pass asks for another pass.                       *)
EndPass ==
    /\ pc = "character" /\ pos >= Len(in_data)
    /\ IF changed_any THEN StartPass /\ cur_pass' = 2
       ELSE Goto("write") /\ UNCHANGED <<loop, pass>>
    /\ UNCHANGED <<subj, in_data, tmp_buf, dry_run, alpha, stop_soon,
                   out_file>>

-----------------------------------------------------------------------------
write_to_file(d) == out_file' = {d}

WriteOutput ==
    /\ pc = "write"
    /\ write_to_file(in_data)
    /\ Goto("done")
    /\ UNCHANGED <<subj, in_data, tmp_buf, dry_run, loop, pass, alpha,
                   stop_soon>>

(* run_target finds stop_soon after the execution, whatever that gave.     *)
Abort ==
    /\ stop_soon
    /\ \/ pc = "dry" \/ TriesBlank \/ TriesDeletion \/ TriesSymbol
       \/ TriesCharacter
    /\ write_to_file(in_data)
    /\ Goto("aborted")
    /\ UNCHANGED <<subj, in_data, tmp_buf, dry_run, loop, pass, alpha,
                   stop_soon>>

Step == \/ DryRun \/ NormalizeBlock \/ BlankAlready \/ FirstPass
        \/ DeleteBlock \/ SkipRepeat \/ HalveBlock \/ EndDeletion
        \/ ReplaceSymbol \/ StartCharacters
        \/ ReplaceCharacter \/ SkipZero \/ EndPass
        \/ WriteOutput \/ Abort

Ended == pc \in {"fatal", "done", "aborted"}

(* SIGINT, SIGTERM or SIGHUP.                                              *)
Interrupt ==
    /\ ~ Ended /\ ~ stop_soon
    /\ stop_soon' = TRUE
    /\ UNCHANGED <<subj, in_data, tmp_buf, dry_run, pc, loop, pass, alpha,
                   out_file>>

Next == Step \/ Interrupt

(* afl-tmin runs, and an execution ends: the timer kills what hangs.       *)
Spec == Init /\ [][Next]_vars /\ WF_vars(Step)

-----------------------------------------------------------------------------
AnySymbol == {Zero} \cup UNION {Symbols(x.in_data) : x \in Subjects}

TypeOK ==
    /\ subj \in Subjects
    /\ in_data \in Seq(AnySymbol) /\ tmp_buf \in Seq(AnySymbol)
    /\ crash_mode \in BOOLEAN
    /\ pc \in {"dry", "normalize", "delete", "alphabet", "character",
               "write", "fatal", "done", "aborted"}
    /\ pos \in Nat /\ blk \in Nat \ {0} /\ prev_del \in BOOLEAN
    /\ cur_pass \in {1, 2} /\ changed_any \in BOOLEAN
    /\ alpha \subseteq Symbols(in_data) /\ stop_soon \in BOOLEAN
    /\ out_file \subseteq {in_data}

(* Whatever stage was interrupted, the file kept, and the one written, are *)
(* such that the target can do with them what it did with the file given:  *)
(* crash, or leave the same trace ("while ensuring that the changes made   *)
(* to the files have no impact", docs/technical_details.txt:270 ff.).      *)
KeptIsFaithful ==
    pc \notin {"dry", "fatal"} =>
        \A d \in {in_data} \cup out_file :
            \/ d = subj.in_data
            \/ \E o \in Outcomes(subj.target, d) : Keep(o)

Without(d, k) == SubSeq(d, 1, k - 1) \o SubSeq(d, k + 1, Len(d))

(* At the end, no byte of the file can be left out, although repetitions   *)
(* are skipped, blocks shift and later stages change the file again; of a  *)
(* target that does one thing with every file (minimize, next_del_blksize).*)
OneMinimal ==
    pc = "done" =>
        \A k \in DOMAIN in_data :
            LET seen == Outcomes(subj.target, Without(in_data, k)) IN
            \A o \in seen : seen = {o} => ~ Keep(o)

(* Rounds and passes do not go on forever, whatever the target answers,    *)
(* and also when it answers differently every time: a pass that is not the *)
(* last deletes something, but the first, which may only replace.          *)
MinimizeEnds == <>Ended
=============================================================================

------------------------------- MODULE OutDir -------------------------------
(***************************************************************************)
(* The output directory of afl-fuzz over several sessions: the lock, the   *)
(* clean-up or the in-place resume of what an earlier session has left,    *)
(* the import of the seeds, and the files a session writes.  Every step is *)
(* one or a few system calls, and a session may be killed between any two. *)
(*                                                                         *)
(* Files are removed one at a time.  An entry's content is a number, its   *)
(* case; .state holds the marks of the entries whose deterministic stages  *)
(* are done (FuzzOne).                                                     *)
(***************************************************************************)
EXTENDS Integers, Sequences, FiniteSets

CONSTANTS
    Proc,       \* afl-fuzz processes on this directory
    MaxCases,   \* bound: seeds and finds of all sessions
    MaxStarts   \* bound: sessions

Nobody == 0     \* no process
Cut    == 0     \* the case of a file that has no content yet

ASSUME OutDirAssumption ==
    /\ Nobody \notin Proc
    /\ MaxCases \in Nat /\ MaxStarts \in Nat

VARIABLES
    out_dir,            \* whether it exists
    queue, resume,      \* queue/ and _resume/
    crashes, backups,   \* replayable-crashes/ and replayable-hangs/, and
                        \* their renamed copies
    fuzzer_stats,       \* "none", "cut" (created, not written), or whether
                        \* it tells of a "short" or a "long" session
    lock,               \* who holds the flock
    pc, mode,           \* of each process: its place, "resume" or "fresh"
    mem, at,            \* ... its queue, and the entry an import is at
    starts, cases,      \* sessions and cases so far
    found, marked, crashed,     \* what the sessions since the last fresh
                                \* one have saved (for the properties)
    torn,               \* what a killed session has partly removed: queue/
                        \* of an earlier session, or _resume/
    stale               \* a fresh session has left a _resume/ behind

files   == <<out_dir, queue, resume, crashes, backups, fuzzer_stats>>
locals  == <<mode, mem, at>>
counts  == <<starts, cases>>
history == <<found, marked, crashed, torn, stale>>
dirvars == <<files, lock, pc, locals, counts, history>>

NoDir == [exists |-> FALSE, state |-> FALSE, ent |-> <<>>, marks |-> {}]
NewDir == [NoDir EXCEPT !.exists = TRUE]

Empty(d) == DOMAIN d.ent = {} /\ ~d.state

WithFile(d, id, case) ==
    [d EXCEPT !.ent = [k \in DOMAIN d.ent \union {id} |->
                          IF k = id THEN case ELSE d.ent[k]]]

Whole(d) == {k \in DOMAIN d.ent : d.ent[k] # Cut}

Goto(p, l) == pc' = [pc EXCEPT ![p] = l]

(* A process is gone, and its lock with it.                                *)
Gone(p) ==
    /\ Goto(p, "off")
    /\ lock' = IF lock = p THEN Nobody ELSE lock
    /\ mem' = [mem EXCEPT ![p] = <<>>]
    /\ at' = [at EXCEPT ![p] = 1]
    /\ mode' = [mode EXCEPT ![p] = "fresh"]

Init ==
    /\ out_dir = FALSE /\ queue = NoDir /\ resume = NoDir
    /\ crashes = {} /\ backups = {} /\ fuzzer_stats = "none"
    /\ lock = Nobody
    /\ pc = [p \in Proc |-> "off"] /\ mode = [p \in Proc |-> "fresh"]
    /\ mem = [p \in Proc |-> <<>>] /\ at = [p \in Proc |-> 1]
    /\ starts = 0 /\ cases = 0
    /\ found = {} /\ marked = {} /\ crashed = {}
    /\ torn = {} /\ stale = FALSE

---------------------------------------------------------------------------
(* setup_dirs_fds and maybe_delete_out_dir                                 *)

Start(p) ==
    /\ pc[p] = "off" /\ starts < MaxStarts
    /\ starts' = starts + 1
    /\ \E m \in {"fresh", "resume"} : mode' = [mode EXCEPT ![p] = m]
    /\ Goto(p, "mkdir")
    /\ UNCHANGED <<files, lock, mem, at, cases, history>>

(* A resume that had to make the directory gives up, but leaves it there.  *)
MakeOutDir(p) ==
    /\ pc[p] = "mkdir"
    /\ out_dir' = TRUE
    /\ IF ~out_dir /\ mode[p] = "resume" THEN Gone(p)
       ELSE /\ Goto(p, IF out_dir THEN "lock_old" ELSE "lock_new")
            /\ UNCHANGED <<lock, locals>>
    /\ UNCHANGED <<queue, resume, crashes, backups, fuzzer_stats, counts,
                   history>>

(* Mutant: the result of flock is not looked at. *)
LockIgnored(p) == TRUE

LockIsFree(p) == lock = Nobody

Lock(p) ==
    /\ pc[p] \in {"lock_old", "lock_new"}
    /\ IF LockIsFree(p)
       THEN /\ lock' = p
            /\ Goto(p, IF pc[p] = "lock_new" THEN "make" ELSE "check")
            /\ UNCHANGED locals
       ELSE Gone(p)
    /\ UNCHANGED <<files, counts, history>>

(* A statistics file without its two times is fatal, and so is too much    *)
(* work at stake.  What a fresh session goes on to delete is given up.     *)
Check(p) ==
    /\ pc[p] = "check"
    /\ IF \/ fuzzer_stats = "cut"
          \/ mode[p] = "fresh" /\ fuzzer_stats = "long"
       THEN Gone(p) /\ UNCHANGED history
       ELSE /\ Goto(p, "move") /\ UNCHANGED <<lock, locals, torn, stale>>
            /\ IF mode[p] = "fresh"
               THEN found' = {} /\ marked' = {} /\ crashed' = {}
               ELSE UNCHANGED <<found, marked, crashed>>
    /\ UNCHANGED <<files, counts>>

(* Mutant: an old _resume/ makes room for queue/. *)
MovedAlways == queue.exists

(* rename replaces an empty directory only; its failure is ignored.        *)
Movable == queue.exists /\ (~resume.exists \/ Empty(resume))

Move(p) ==
    /\ pc[p] = "move"
    /\ IF mode[p] = "resume" /\ Movable
       THEN resume' = queue /\ queue' = NoDir
       ELSE UNCHANGED <<resume, queue>>
    /\ Goto(p, "clean")
    /\ UNCHANGED <<out_dir, crashes, backups, fuzzer_stats, lock, locals,
                   counts, history>>

(* The next system call that removes a directory with its .state: marks,   *)
(* .state, files in any order, the directory; the results d may have.      *)
Removals(d) ==
    IF d.marks # {} THEN {[d EXCEPT !.marks = @ \ {k}] : k \in d.marks}
    ELSE IF d.state THEN {[d EXCEPT !.state = FALSE]}
    ELSE IF DOMAIN d.ent # {}
    THEN {[d EXCEPT !.ent = [k \in DOMAIN d.ent \ {gone} |-> d.ent[k]]] :
             gone \in DOMAIN d.ent}
    ELSE {NoDir}

Clean(p) ==
    /\ pc[p] = "clean"
    /\ IF queue.exists
       THEN (\E d \in Removals(queue) : queue' = d) /\ UNCHANGED pc
       ELSE Goto(p, "crashes") /\ UNCHANGED queue
    /\ UNCHANGED <<out_dir, resume, crashes, backups, fuzzer_stats, lock,
                   locals, counts, history>>

(* Mutant: crashes are deleted as the queue is. *)
CrashesGone(p) == backups

(* A resume renames the directory unless it is empty. *)
BackedUp(p) == IF mode[p] = "resume" THEN backups \union crashes ELSE backups

CleanCrashes(p) ==
    /\ pc[p] = "crashes"
    /\ crashes' = {} /\ backups' = BackedUp(p)
    /\ Goto(p, "rest")
    /\ UNCHANGED <<out_dir, queue, resume, fuzzer_stats, lock, locals,
                   counts, history>>

CleanRest(p) ==
    /\ pc[p] = "rest"
    /\ fuzzer_stats' = IF mode[p] = "fresh" THEN "none" ELSE fuzzer_stats
    /\ Goto(p, "make")
    /\ UNCHANGED <<out_dir, queue, resume, crashes, backups, lock, locals,
                   counts, history>>

(* mkdir fails if another process was faster to set the new directory up.  *)
MakeQueue(p) ==
    /\ pc[p] = "make"
    /\ IF queue.exists THEN Gone(p) /\ UNCHANGED queue
       ELSE queue' = NewDir /\ Goto(p, "make_state")
            /\ UNCHANGED <<lock, locals>>
    /\ stale' = (stale \/ (mode[p] = "fresh" /\ resume.exists))
    /\ UNCHANGED <<out_dir, resume, crashes, backups, fuzzer_stats, counts,
                   found, marked, crashed, torn>>

MakeState(p) ==
    /\ pc[p] = "make_state"
    /\ queue' = [queue EXCEPT !.state = TRUE]
    /\ Goto(p, "read")
    /\ UNCHANGED <<out_dir, resume, crashes, backups, fuzzer_stats, lock,
                   locals, counts, history>>

---------------------------------------------------------------------------
(* read_testcases and pivot_inputs                                         *)

(* The k-th of a set of numbers.                                           *)
Ranked(S, k) == CHOOSE n \in S : Cardinality({m \in S : m < n}) = k - 1

(* The entries of a directory by name, those without content left out.     *)
Scanned(d) ==
    [k \in 1 .. Cardinality(Whole(d)) |->
        [case |-> d.ent[Ranked(Whole(d), k)],
         det  |-> Ranked(Whole(d), k) \in d.marks]]

(* A fresh session has one seed of its own.                                *)
Read(p) ==
    /\ pc[p] = "read"
    /\ IF mode[p] = "resume"
       THEN /\ UNCHANGED cases
            /\ IF Whole(resume) = {} THEN Gone(p)
               ELSE /\ mem' = [mem EXCEPT ![p] = Scanned(resume)]
                    /\ Goto(p, "pivot") /\ UNCHANGED <<lock, mode, at>>
       ELSE /\ cases < MaxCases /\ cases' = cases + 1
            /\ mem' = [mem EXCEPT ![p] =
                          <<[case |-> cases + 1, det |-> FALSE]>>]
            /\ Goto(p, "pivot") /\ UNCHANGED <<lock, mode, at>>
    /\ UNCHANGED <<files, starts, history>>

Imported(p) == at[p] - 1

(* Entry by entry: link_or_copy to the name that carries its new number,   *)
(* then the mark.                                                          *)
Pivot(p) ==
    /\ pc[p] = "pivot"
    /\ IF at[p] > Len(mem[p])
       THEN /\ Goto(p, IF mode[p] = "resume" THEN "nuke" ELSE "dry")
            /\ UNCHANGED queue
       ELSE \/ /\ queue' = WithFile(queue, Imported(p), mem[p][at[p]].case)
               /\ Goto(p, "pivot_mark")
            \/ /\ queue' = WithFile(queue, Imported(p), Cut)
               /\ Goto(p, "pivot_copy")
    /\ UNCHANGED <<out_dir, resume, crashes, backups, fuzzer_stats, lock,
                   locals, counts, history>>

PivotCopy(p) ==
    /\ pc[p] = "pivot_copy"
    /\ queue' = WithFile(queue, Imported(p), mem[p][at[p]].case)
    /\ Goto(p, "pivot_mark")
    /\ UNCHANGED <<out_dir, resume, crashes, backups, fuzzer_stats, lock,
                   locals, counts, history>>

PivotMark(p) ==
    /\ pc[p] = "pivot_mark"
    /\ queue' = IF mem[p][at[p]].det
                THEN [queue EXCEPT !.marks = @ \union {Imported(p)}]
                ELSE queue
    /\ at' = [at EXCEPT ![p] = @ + 1]
    /\ Goto(p, "pivot")
    /\ UNCHANGED <<out_dir, resume, crashes, backups, fuzzer_stats, lock,
                   mode, mem, counts, history>>

nuke_resume_dir(p) ==
    /\ pc[p] = "nuke"
    /\ IF resume.exists
       THEN (\E d \in Removals(resume) : resume' = d) /\ UNCHANGED pc
       ELSE Goto(p, "dry") /\ UNCHANGED resume
    /\ UNCHANGED <<out_dir, queue, crashes, backups, fuzzer_stats, lock,
                   locals, counts, history>>

---------------------------------------------------------------------------
(* The session                                                             *)

DryRun(p) ==
    /\ pc[p] = "dry"
    /\ Goto(p, "stats")
    /\ UNCHANGED <<files, lock, locals, counts, history>>

(* write_stats_file: the file is truncated, then written.  A session is    *)
(* "long" if it has run for more than OUTPUT_GRACE minutes.                *)
StatsOpen(p) ==
    /\ pc[p] \in {"stats", "last_stats"}
    /\ fuzzer_stats' = "cut"
    /\ Goto(p, IF pc[p] = "stats" THEN "stats_write" ELSE "last_write")
    /\ UNCHANGED <<out_dir, queue, resume, crashes, backups, lock, locals,
                   counts, history>>

StatsWrite(p) ==
    /\ pc[p] \in {"stats_write", "last_write"}
    /\ \E age \in {"short", "long"} : fuzzer_stats' = age
    /\ IF pc[p] = "stats_write"
       THEN Goto(p, "fuzz") /\ UNCHANGED <<lock, locals>> ELSE Gone(p)
    /\ UNCHANGED <<out_dir, queue, resume, crashes, backups, counts,
                   history>>

(* save_if_interesting: the file of a find, numbered by the entries so     *)
(* far, is made and then written.                                          *)
FindOpen(p) ==
    /\ pc[p] = "fuzz" /\ cases < MaxCases
    /\ queue' = WithFile(queue, Len(mem[p]), Cut)
    /\ Goto(p, "find")
    /\ UNCHANGED <<out_dir, resume, crashes, backups, fuzzer_stats, lock,
                   locals, counts, history>>

FindWrite(p) ==
    /\ pc[p] = "find"
    /\ cases' = cases + 1
    /\ queue' = WithFile(queue, Len(mem[p]), cases')
    /\ mem' = [mem EXCEPT ![p] =
                  Append(@, [case |-> cases', det |-> FALSE])]
    /\ found' = found \union {cases'}
    /\ Goto(p, "fuzz")
    /\ UNCHANGED <<out_dir, resume, crashes, backups, fuzzer_stats, lock,
                   mode, at, starts, marked, crashed, torn, stale>>

mark_as_det_done(p) ==
    /\ pc[p] = "fuzz"
    /\ \E k \in DOMAIN mem[p] :
           /\ ~mem[p][k].det
           /\ queue' = [queue EXCEPT !.marks = @ \union {k - 1}]
           /\ mem' = [mem EXCEPT ![p][k] =
                         [case |-> mem[p][k].case, det |-> TRUE]]
           /\ marked' = marked \union {mem[p][k].case}
    /\ UNCHANGED <<out_dir, resume, crashes, backups, fuzzer_stats, lock, pc,
                   mode, at, counts, found, crashed, torn, stale>>

(* trim_case: the shortened entry replaces its file, which is unlinked     *)
(* and made again.                                                         *)
TrimUnlink(p) ==
    /\ pc[p] = "fuzz"
    /\ \E k \in DOMAIN mem[p] :
           /\ at' = [at EXCEPT ![p] = k]
           /\ queue' = [queue EXCEPT !.ent =
                           [id \in DOMAIN @ \ {k - 1} |-> @[id]]]
    /\ Goto(p, "trim")
    /\ UNCHANGED <<out_dir, resume, crashes, backups, fuzzer_stats, lock,
                   mode, mem, counts, history>>

TrimOpen(p) ==
    /\ pc[p] = "trim"
    /\ queue' = WithFile(queue, at[p] - 1, Cut)
    /\ Goto(p, "trim_write")
    /\ UNCHANGED <<out_dir, resume, crashes, backups, fuzzer_stats, lock,
                   locals, counts, history>>

TrimWrite(p) ==
    /\ pc[p] = "trim_write"
    /\ queue' = WithFile(queue, at[p] - 1, mem[p][at[p]].case)
    /\ Goto(p, "fuzz")
    /\ UNCHANGED <<out_dir, resume, crashes, backups, fuzzer_stats, lock,
                   locals, counts, history>>

(* A crash or a hang, named after the session that saved it.               *)
SaveCrash(p) ==
    /\ pc[p] = "fuzz"
    /\ crashes' = crashes \union {starts} /\ crashed' = crashed \union {starts}
    /\ UNCHANGED <<out_dir, queue, resume, backups, fuzzer_stats, lock, pc,
                   locals, counts, found, marked, torn, stale>>

(* Statistics are due, or the session is told to stop.                     *)
ShowStats(p) ==
    /\ pc[p] = "fuzz"
    /\ \E l \in {"stats", "last_stats"} : Goto(p, l)
    /\ UNCHANGED <<files, lock, locals, counts, history>>

(* The case whose file is being replaced, as a set.                        *)
Trimmed(p) ==
    IF pc[p] \in {"trim", "trim_write"} THEN {mem[p][at[p]].case} ELSE {}

(* SIGKILL, a crash of the fuzzer or of the machine.  Killed in trim_case, *)
(* the fuzzer loses that case.                                             *)
Kill(p) ==
    /\ pc[p] # "off"
    /\ Gone(p)
    /\ torn' = torn \union
          (IF pc[p] = "nuke" /\ resume.exists THEN {"resume"} ELSE {}) \union
          (IF \/ pc[p] = "clean" /\ mode[p] = "fresh"
              \/ Trimmed(p) # {}
           THEN {"queue"} ELSE {})
    /\ found' = found \ Trimmed(p) /\ marked' = marked \ Trimmed(p)
    /\ UNCHANGED <<files, counts, crashed, stale>>

Step(p) ==
    \/ MakeOutDir(p) \/ Lock(p) \/ Check(p) \/ Move(p) \/ Clean(p)
    \/ CleanCrashes(p) \/ CleanRest(p) \/ MakeQueue(p) \/ MakeState(p)
    \/ Read(p) \/ Pivot(p) \/ PivotCopy(p) \/ PivotMark(p)
    \/ nuke_resume_dir(p)
    \/ DryRun(p) \/ StatsOpen(p) \/ StatsWrite(p) \/ FindWrite(p)
    \/ TrimOpen(p) \/ TrimWrite(p)

User(p) ==
    \/ Start(p) \/ Kill(p) \/ FindOpen(p) \/ mark_as_det_done(p)
    \/ SaveCrash(p) \/ ShowStats(p) \/ TrimUnlink(p)

DirNext == \E p \in Proc : Step(p) \/ User(p)

Spec == Init /\ [][DirNext]_dirvars

---------------------------------------------------------------------------
(* The directory the next in-place resume reads.                           *)
NextInput == IF resume.exists /\ ~Empty(resume) THEN resume ELSE queue

Trimming == UNION {Trimmed(p) : p \in Proc}

Kept(d)     == {d.ent[k] : k \in Whole(d)}
KeptMark(d) == {d.ent[k] : k \in Whole(d) \cap d.marks}

(* "Any existing output directory can be also used to resume aborted       *)
(* jobs" (README): wherever a session is killed, the directory that the    *)
(* next resume reads holds all that was found but the one case that is     *)
(* being trimmed, with the marks that keep it from being fuzzed            *)
(* deterministically again.  Two kinds of histories are excepted, see      *)
(* WorkIsKept.                                                             *)
ResumeFindsAll ==
    \/ "resume" \in torn \/ stale
    \/ \E p \in Proc : pc[p] = "nuke"
    \/ /\ found \ Trimming \subseteq Kept(NextInput)
       /\ marked \ Trimming \subseteq KeptMark(NextInput)

(* Without the exceptions: what was found since the last fresh session is  *)
(* in queue/ or in _resume/.  The code does not ensure it: a resume takes  *)
(* an existing _resume/ for the complete one and deletes queue/, also when *)
(* a kill has left _resume/ partly deleted behind a complete import, or    *)
(* when a fresh session, which does not remove _resume/, has filled queue/ *)
(* since.                                                                  *)
WorkIsKept == found \ Trimming \subseteq Kept(queue) \union Kept(resume)

(* What crashed the target outlives every resume.                          *)
CrashesAreKept == crashed \subseteq crashes \union backups

(* The queue of a running session and its directory agree: the file of     *)
(* every entry is there under its number, and so is its mark.              *)
QueueIsOnDisk ==
    \A p \in Proc :
        pc[p] \in {"nuke", "dry", "stats", "stats_write", "fuzz"} =>
        /\ DOMAIN queue.ent = 0 .. Len(mem[p]) - 1
        /\ \A k \in DOMAIN mem[p] :
               /\ queue.ent[k - 1] = mem[p][k].case
               /\ mem[p][k].det <=> k - 1 \in queue.marks

DirTypeOK ==
    /\ {out_dir, stale} \subseteq BOOLEAN /\ torn \subseteq {"queue", "resume"}
    /\ \A d \in {queue, resume} :
           /\ {d.exists, d.state} \subseteq BOOLEAN
           /\ DOMAIN d.ent \union d.marks \subseteq 0 .. MaxCases - 1
           /\ Kept(d) \subseteq 1 .. cases
           /\ d.marks # {} => d.state
    /\ crashes \union backups \union crashed \subseteq 1 .. MaxStarts
    /\ fuzzer_stats \in {"none", "cut", "short", "long"}
    /\ lock \in Proc \union {Nobody}
    /\ mode \in [Proc -> {"fresh", "resume"}]

=============================================================================

---------------------------- MODULE OutDirProofs ----------------------------
(***************************************************************************)
(* What a kill between any two system calls leaves of an output directory, *)
(* and what a fuzzer that reads it meanwhile finds there, for any number   *)
(* of processes, sessions, cases and rounds.                               *)
(***************************************************************************)
EXTENDS SyncFuzzers, SequenceTheorems, FiniteSetTheorems, TLAPS

(* Before the lock is taken.                                               *)
Unlocked == {"off", "mkdir", "lock_old", "lock_new"}

(* Before the new queue/ is made, and before the first import.             *)
Before == Unlocked \cup {"check", "move", "clean", "crashes", "rest", "make"}
Bare   == {"make_state", "read"}

(* The phases in which every entry of the session is on disk.              *)
Settled == {"nuke", "dry", "stats", "stats_write", "fuzz"}

IsDir(d) ==
    /\ d \in [exists : BOOLEAN, state : BOOLEAN, ent : {d.ent},
              marks : {d.marks}]
    /\ IsFiniteSet(DOMAIN d.ent)

IsEntry(e) == e = [case |-> e.case, det |-> e.det] /\ e.det \in BOOLEAN

IsQueue(q) ==
    /\ q \in Seq({q[k] : k \in DOMAIN q})
    /\ \A k \in DOMAIN q : IsEntry(q[k])

Locals ==
    /\ DOMAIN pc = Proc
    /\ mode \in [Proc -> {"fresh", "resume"}]
    /\ lock \in Proc \cup {Nobody}
    /\ at \in [Proc -> Int]

Queues == DOMAIN mem = Proc /\ \A p \in Proc : IsQueue(mem[p])

Dirs == IsDir(queue) /\ IsDir(resume)

Types == Locals /\ Queues /\ Dirs

(* Who is past the lock holds it.                                          *)
LockHeld == \A p \in Proc : pc[p] \notin Unlocked => lock = p

(* A fresh session has given up what it is about to delete.                *)
GivenUp ==
    \A p \in Proc :
        pc[p] \in {"move", "clean", "crashes"} /\ mode[p] = "fresh" =>
            crashed = {}

(* The marks are those of the first n entries of p, the files of ids hold  *)
(* what its entries of these numbers are, and no others are there.         *)
Marked(p, n) ==
    /\ queue.marks \subseteq 0 .. n - 1
    /\ \A i \in 0 .. n - 1 : i \in queue.marks <=> mem[p][i + 1].det

Written(p, ids) == \A i \in ids : queue.ent[i] = mem[p][i + 1].case

Files(ids) == DOMAIN queue.ent = ids

(* The import is at entry at[p].                                           *)
Importing(p) ==
    /\ pc[p] \in {"pivot", "pivot_copy", "pivot_mark"} =>
           /\ at[p] \in 1 .. Len(mem[p]) + 1
           /\ Marked(p, at[p] - 1)
    /\ pc[p] \in {"pivot", "pivot_copy"} => Written(p, 0 .. at[p] - 2)
    /\ pc[p] = "pivot" => Files(0 .. at[p] - 2)
    /\ pc[p] \in {"pivot_copy", "pivot_mark"} =>
           at[p] <= Len(mem[p]) /\ Files(0 .. at[p] - 1)
    /\ pc[p] = "pivot_mark" => Written(p, 0 .. at[p] - 1)

(* A find is being written, or a trimmed entry is.                         *)
Saving(p) ==
    /\ pc[p] = "find" =>
           /\ Marked(p, Len(mem[p]))
           /\ Files(0 .. Len(mem[p]))
           /\ Written(p, 0 .. Len(mem[p]) - 1)
    /\ pc[p] \in {"trim", "trim_write"} =>
           /\ at[p] \in 1 .. Len(mem[p])
           /\ Marked(p, Len(mem[p]))
           /\ Written(p, (0 .. Len(mem[p]) - 1) \ {at[p] - 1})
    /\ pc[p] = "trim" => Files((0 .. Len(mem[p]) - 1) \ {at[p] - 1})
    /\ pc[p] = "trim_write" => Files(0 .. Len(mem[p]) - 1)

OnDisk(p) ==
    /\ pc[p] \in Before \cup Bare => at[p] = 1
    /\ pc[p] \in Bare => Files({}) /\ queue.marks = {}
    /\ Importing(p)
    /\ pc[p] \in Settled =>
           /\ Marked(p, Len(mem[p]))
           /\ Files(0 .. Len(mem[p]) - 1)
           /\ Written(p, 0 .. Len(mem[p]) - 1)
    /\ Saving(p)

Inv == Types /\ LockHeld /\ (\A p \in Proc : OnDisk(p))

-----------------------------------------------------------------------------
(* Directories                                                             *)

LEMMA NewDirIsDir ==
    /\ IsDir(NoDir) /\ IsDir(NewDir)
    /\ DOMAIN NewDir.ent = {} /\ NewDir.marks = {}
<1>1. DOMAIN <<>> = {} /\ IsFiniteSet({})
  BY EmptySeq, FS_EmptySet
<1>2. ASSUME NEW e, NEW x, NEW y, NEW z
      PROVE  [[exists |-> x, state |-> y, ent |-> e, marks |-> {}]
                  EXCEPT !.exists = z]
                = [exists |-> z, state |-> y, ent |-> e, marks |-> {}]
  OBVIOUS
<1>3. NewDir = [exists |-> TRUE, state |-> FALSE, ent |-> <<>>, marks |-> {}]
  BY <1>2, Zenon DEF NewDir, NoDir
<1> QED BY <1>1, <1>3 DEF IsDir, NoDir

LEMMA FileAdded ==
    ASSUME NEW d, IsDir(d), NEW id, NEW case
    PROVE  LET e == WithFile(d, id, case)
           IN  /\ IsDir(e)
               /\ DOMAIN e.ent = DOMAIN d.ent \cup {id}
               /\ e.ent[id] = case
               /\ \A k \in DOMAIN d.ent \ {id} : e.ent[k] = d.ent[k]
               /\ e.marks = d.marks
<1>1. IsFiniteSet(DOMAIN d.ent \cup {id})
  BY FS_AddElement DEF IsDir
<1> QED BY <1>1 DEF IsDir, WithFile

LEMMA StateMade ==
    ASSUME NEW d, IsDir(d)
    PROVE  IsDir([d EXCEPT !.state = TRUE])
<1>1. ASSUME NEW b \in BOOLEAN
      PROVE  IsDir([d EXCEPT !.state = b])
  BY DEF IsDir
<1> QED BY <1>1

LEMMA FileRemoved ==
    ASSUME NEW d, IsDir(d), NEW k
    PROVE  IsDir([d EXCEPT !.ent = [id \in DOMAIN @ \ {k} |-> @[id]]])
<1>1. IsFiniteSet(DOMAIN d.ent \ {k})
  BY FS_RemoveElement DEF IsDir
<1> QED BY <1>1 DEF IsDir

LEMMA MarkAdded ==
    ASSUME NEW d, IsDir(d), NEW k
    PROVE  IsDir([d EXCEPT !.marks = @ \cup {k}])
BY DEF IsDir

LEMMA Removed ==
    ASSUME NEW d, IsDir(d), NEW e \in Removals(d)
    PROVE  IsDir(e)
<1>1. ASSUME NEW gone
      PROVE  IsFiniteSet(DOMAIN d.ent \ {gone})
  BY FS_RemoveElement DEF IsDir
<1>2. IsDir(NoDir)
  BY NewDirIsDir
<1>3. CASE d.marks # {}
  <2>1. PICK k \in d.marks : e = [d EXCEPT !.marks = @ \ {k}]
    BY <1>3 DEF Removals
  <2> QED BY <2>1 DEF IsDir
<1>4. CASE d.marks = {} /\ d.state
  <2>1. e = [d EXCEPT !.state = FALSE]
    BY <1>4 DEF Removals
  <2> QED BY <2>1 DEF IsDir
<1>5. CASE d.marks = {} /\ ~d.state /\ DOMAIN d.ent # {}
  <2>1. PICK gone \in DOMAIN d.ent :
            e = [d EXCEPT !.ent = [k \in DOMAIN d.ent \ {gone} |->
                                      d.ent[k]]]
    BY <1>5 DEF Removals
  <2>2. DOMAIN e.ent = DOMAIN d.ent \ {gone}
    BY <2>1 DEF IsDir
  <2> QED BY <1>1, <2>1, <2>2 DEF IsDir
<1>6. CASE d.marks = {} /\ ~d.state /\ DOMAIN d.ent = {}
  BY <1>2, <1>6 DEF Removals
<1> QED BY <1>3, <1>4, <1>5, <1>6 DEF IsDir

-----------------------------------------------------------------------------
(* Queues                                                                  *)

LEMMA EmptyQueue == IsQueue(<<>>) /\ Len(<<>>) = 0
BY EmptySeq DEF IsQueue

LEMMA OwnValues ==
    ASSUME NEW S, NEW q \in Seq(S)
    PROVE  q \in Seq({q[k] : k \in DOMAIN q})
<1>1. Len(q) \in Nat /\ q \in [1 .. Len(q) -> S] /\ DOMAIN q = 1 .. Len(q)
  BY LenProperties
<1>2. q \in [1 .. Len(q) -> {q[k] : k \in DOMAIN q}]
  BY <1>1
<1> QED BY <1>1, <1>2, SeqDef

LEMMA QueueLength ==
    ASSUME NEW q, IsQueue(q)
    PROVE  Len(q) \in Nat /\ DOMAIN q = 1 .. Len(q)
BY LenProperties DEF IsQueue

LEMMA EntryAppended ==
    ASSUME NEW q, IsQueue(q), NEW e, IsEntry(e)
    PROVE  /\ IsQueue(Append(q, e))
           /\ Len(Append(q, e)) = Len(q) + 1
           /\ \A k \in 1 .. Len(q) : Append(q, e)[k] = q[k]
           /\ Append(q, e)[Len(q) + 1] = e
<1> DEFINE S == {q[k] : k \in DOMAIN q} \cup {e}
           r == Append(q, e)
<1>1. Len(q) \in Nat /\ DOMAIN q = 1 .. Len(q) /\ q \in [1 .. Len(q) -> S]
  BY QueueLength, LenProperties DEF IsQueue
<1>2. q \in Seq(S) /\ e \in S
  BY <1>1, SeqDef
<1> HIDE DEF S
<1>3. /\ r \in Seq(S) /\ Len(r) = Len(q) + 1
      /\ \A k \in 1 .. Len(q) : r[k] = q[k]
      /\ r[Len(q) + 1] = e
  BY <1>2, AppendProperties
<1>4. DOMAIN r = 1 .. Len(q) + 1
  BY <1>3, LenProperties
<1>5. r \in Seq({r[k] : k \in DOMAIN r})
  BY <1>3, OwnValues
<1> HIDE DEF r
<1>6. ASSUME NEW k \in DOMAIN r
      PROVE  IsEntry(r[k])
  <2>1. k \in 1 .. Len(q) \/ k = Len(q) + 1
    BY <1>1, <1>4
  <2> QED BY <1>1, <1>3, <2>1 DEF IsQueue
<1>7. IsQueue(r)
  BY <1>5, <1>6 DEF IsQueue
<1> QED BY <1>3, <1>7 DEF r

LEMMA EntryMarked ==
    ASSUME NEW q, IsQueue(q), NEW k \in DOMAIN q,
           NEW e, IsEntry(e), e.case = q[k].case, e.det = TRUE
    PROVE  /\ IsQueue([q EXCEPT ![k] = e])
           /\ Len([q EXCEPT ![k] = e]) = Len(q)
           /\ \A j \in 1 .. Len(q) :
                  /\ [q EXCEPT ![k] = e][j].case = q[j].case
                  /\ [q EXCEPT ![k] = e][j].det <=> (j = k \/ q[j].det)
<1> DEFINE S == {q[j] : j \in DOMAIN q} \cup {e}
           r == [q EXCEPT ![k] = e]
<1>1. Len(q) \in Nat /\ DOMAIN q = 1 .. Len(q) /\ q \in [1 .. Len(q) -> S]
  BY QueueLength, LenProperties DEF IsQueue
<1>2. q \in Seq(S) /\ e \in S
  BY <1>1, SeqDef
<1> HIDE DEF S
<1>3. /\ r \in Seq(S) /\ Len(r) = Len(q)
      /\ \A j \in 1 .. Len(q) : r[j] = IF j = k THEN e ELSE q[j]
  BY <1>1, <1>2, ExceptSeq
<1> HIDE DEF r
<1>4. r \in Seq({r[j] : j \in DOMAIN r}) /\ DOMAIN r = DOMAIN q
  BY <1>1, <1>3, LenProperties, OwnValues
<1>5. \A j \in DOMAIN r : IsEntry(r[j])
  BY <1>1, <1>3, <1>4 DEF IsQueue
<1>6. ASSUME NEW j \in 1 .. Len(q)
      PROVE  r[j].case = q[j].case /\ (r[j].det <=> (j = k \/ q[j].det))
  BY <1>3
<1>7. IsQueue(r)
  BY <1>4, <1>5 DEF IsQueue
<1> QED BY <1>3, <1>6, <1>7 DEF r

LEMMA ScanIsQueue ==
    ASSUME NEW d, IsDir(d)
    PROVE  IsQueue(Scanned(d))
<1> DEFINE n == Cardinality(Whole(d))
           q == Scanned(d)
           S == {q[k] : k \in 1 .. n}
<1>1. n \in Nat
  BY FS_Subset, FS_CardinalityType DEF IsDir, Whole
<1> HIDE DEF n
<1>2. DOMAIN q = 1 .. n /\ q \in [1 .. n -> S]
  BY DEF Scanned, n
<1>3. q \in Seq({q[k] : k \in DOMAIN q})
  BY <1>1, <1>2, SeqDef
<1>4. ASSUME NEW k \in DOMAIN q
      PROVE  IsEntry(q[k])
  <2> DEFINE id == Ranked(Whole(d), k)
  <2>1. q[k] = [case |-> d.ent[id], det |-> id \in d.marks]
    BY <1>2 DEF Scanned, n
  <2> HIDE DEF id
  <2>2. (id \in d.marks) \in BOOLEAN
    OBVIOUS
  <2>3. q[k].case = d.ent[id] /\ q[k].det = (id \in d.marks)
    BY <2>1
  <2> QED BY <2>1, <2>2, <2>3, Zenon DEF IsEntry
<1> QED BY <1>3, <1>4 DEF IsQueue
-----------------------------------------------------------------------------
(* The other processes                                                     *)

LEMMA OthersStay ==
    ASSUME Types, LockHeld, NEW q \in Proc, Step(q) \/ User(q),
           NEW p \in Proc, p # q
    PROVE  /\ pc'[p] = pc[p] /\ mem'[p] = mem[p]
           /\ at'[p] = at[p] /\ mode'[p] = mode[p]
           /\ pc[p] \notin Unlocked => queue' = queue /\ lock' = p
<1> DEFINE Same == /\ pc'[p] = pc[p] /\ mem'[p] = mem[p]
                   /\ at'[p] = at[p] /\ mode'[p] = mode[p]
           Held == pc[p] \notin Unlocked => queue' = queue /\ lock' = p
<1>0. pc[q] \notin Unlocked => pc[p] \in Unlocked
  BY DEF LockHeld
<1> USE DEF Types, Locals, Queues, Goto, Gone, locals
<1>1. CASE Start(q)
  <2>1. Same
    BY <1>1 DEF Start
  <2>2. Held
    BY <1>1 DEF Start, files, LockHeld
  <2> QED BY <2>1, <2>2
<1>2. CASE MakeOutDir(q)
  <2>1. Same
    BY <1>2 DEF MakeOutDir
  <2>2. Held
    BY <1>2 DEF MakeOutDir, files, LockHeld
  <2> QED BY <2>1, <2>2
<1>3. CASE Lock(q)
  <2>1. Same
    BY <1>3 DEF Lock
  <2>2. Held
    BY <1>3, OutDirAssumption DEF Lock, LockIsFree, LockHeld, files
  <2> QED BY <2>1, <2>2
<1>4. CASE Check(q)
  <2>1. Same
    BY <1>4 DEF Check
  <2>2. Held
    BY <1>0, <1>4 DEF Check, Unlocked
  <2> QED BY <2>1, <2>2
<1>5. CASE Move(q)
  <2>1. Same
    BY <1>5 DEF Move
  <2>2. Held
    BY <1>0, <1>5 DEF Move, Unlocked
  <2> QED BY <2>1, <2>2
<1>6. CASE Clean(q)
  <2>1. Same
    BY <1>6 DEF Clean
  <2>2. Held
    BY <1>0, <1>6 DEF Clean, Unlocked
  <2> QED BY <2>1, <2>2
<1>7. CASE CleanCrashes(q)
  <2>1. Same
    BY <1>7 DEF CleanCrashes
  <2>2. Held
    BY <1>0, <1>7 DEF CleanCrashes, Unlocked
  <2> QED BY <2>1, <2>2
<1>8. CASE CleanRest(q)
  <2>1. Same
    BY <1>8 DEF CleanRest
  <2>2. Held
    BY <1>0, <1>8 DEF CleanRest, Unlocked
  <2> QED BY <2>1, <2>2
<1>9. CASE MakeQueue(q)
  <2>1. Same
    BY <1>9 DEF MakeQueue
  <2>2. Held
    BY <1>0, <1>9 DEF MakeQueue, Unlocked
  <2> QED BY <2>1, <2>2
<1>10. CASE MakeState(q)
  <2>1. Same
    BY <1>10 DEF MakeState
  <2>2. Held
    BY <1>0, <1>10 DEF MakeState, Unlocked
  <2> QED BY <2>1, <2>2
<1>11. CASE Read(q)
  <2>1. Same
    BY <1>11 DEF Read
  <2>2. Held
    BY <1>0, <1>11 DEF Read, Unlocked
  <2> QED BY <2>1, <2>2
<1>12. CASE Pivot(q)
  <2>1. Same
    BY <1>12 DEF Pivot
  <2>2. Held
    BY <1>0, <1>12 DEF Pivot, Unlocked
  <2> QED BY <2>1, <2>2
<1>13. CASE PivotCopy(q)
  <2>1. Same
    BY <1>13 DEF PivotCopy
  <2>2. Held
    BY <1>0, <1>13 DEF PivotCopy, Unlocked
  <2> QED BY <2>1, <2>2
<1>14. CASE PivotMark(q)
  <2>1. Same
    BY <1>14 DEF PivotMark
  <2>2. Held
    BY <1>0, <1>14 DEF PivotMark, Unlocked
  <2> QED BY <2>1, <2>2
<1>15. CASE nuke_resume_dir(q)
  <2>1. Same
    BY <1>15 DEF nuke_resume_dir
  <2>2. Held
    BY <1>0, <1>15 DEF nuke_resume_dir, Unlocked
  <2> QED BY <2>1, <2>2
<1>16. CASE DryRun(q)
  <2>1. Same
    BY <1>16 DEF DryRun
  <2>2. Held
    BY <1>0, <1>16 DEF DryRun, Unlocked
  <2> QED BY <2>1, <2>2
<1>17. CASE StatsOpen(q)
  <2>1. Same
    BY <1>17 DEF StatsOpen
  <2>2. Held
    BY <1>0, <1>17 DEF StatsOpen, Unlocked
  <2> QED BY <2>1, <2>2
<1>18. CASE StatsWrite(q)
  <2>1. Same
    BY <1>18 DEF StatsWrite
  <2>2. Held
    BY <1>0, <1>18 DEF StatsWrite, Unlocked
  <2> QED BY <2>1, <2>2
<1>19. CASE FindOpen(q)
  <2>1. Same
    BY <1>19 DEF FindOpen
  <2>2. Held
    BY <1>0, <1>19 DEF FindOpen, Unlocked
  <2> QED BY <2>1, <2>2
<1>20. CASE FindWrite(q)
  <2>1. Same
    BY <1>20 DEF FindWrite
  <2>2. Held
    BY <1>0, <1>20 DEF FindWrite, Unlocked
  <2> QED BY <2>1, <2>2
<1>21. CASE mark_as_det_done(q)
  <2>1. Same
    BY <1>21 DEF mark_as_det_done
  <2>2. Held
    BY <1>0, <1>21 DEF mark_as_det_done, Unlocked
  <2> QED BY <2>1, <2>2
<1>22. CASE TrimUnlink(q)
  <2>1. Same
    BY <1>22 DEF TrimUnlink
  <2>2. Held
    BY <1>0, <1>22 DEF TrimUnlink, Unlocked
  <2> QED BY <2>1, <2>2
<1>23. CASE TrimOpen(q)
  <2>1. Same
    BY <1>23 DEF TrimOpen
  <2>2. Held
    BY <1>0, <1>23 DEF TrimOpen, Unlocked
  <2> QED BY <2>1, <2>2
<1>24. CASE TrimWrite(q)
  <2>1. Same
    BY <1>24 DEF TrimWrite
  <2>2. Held
    BY <1>0, <1>24 DEF TrimWrite, Unlocked
  <2> QED BY <2>1, <2>2
<1>25. CASE SaveCrash(q)
  <2>1. Same
    BY <1>25 DEF SaveCrash
  <2>2. Held
    BY <1>0, <1>25 DEF SaveCrash, Unlocked
  <2> QED BY <2>1, <2>2
<1>26. CASE ShowStats(q)
  <2>1. Same
    BY <1>26 DEF ShowStats
  <2>2. Held
    BY <1>0, <1>26 DEF ShowStats, Unlocked
  <2> QED BY <2>1, <2>2
<1>27. CASE Kill(q)
  <2>1. Same
    BY <1>27 DEF Kill
  <2>2. Held
    BY <1>27 DEF Kill, LockHeld, files
  <2> QED BY <2>1, <2>2
<1> QED BY <1>1, <1>2, <1>3, <1>4, <1>5, <1>6, <1>7, <1>8, <1>9, <1>10, <1>11,
       <1>12, <1>13, <1>14, <1>15, <1>16, <1>17, <1>18, <1>19, <1>20, <1>21,
       <1>22, <1>23, <1>24, <1>25, <1>26, <1>27 DEF Step, User
-----------------------------------------------------------------------------
(* The process that takes the step                                         *)

(* What a step of q has to keep.                                           *)
OwnInv(q) ==
    /\ Types
    /\ pc[q] \notin Unlocked => lock = q
    /\ OnDisk(q)

(* A step to a phase of which nothing is claimed.                          *)
LEMMA NothingClaimed ==
    ASSUME NEW q \in Proc,
           pc'[q] \in Before \cup {"last_stats", "last_write"},
           pc'[q] \in Before => at'[q] = 1
    PROVE  OnDisk(q)'
BY DEF OnDisk, Importing, Saving, Before, Bare, Settled, Unlocked

LEMMA StartOwn ==
    ASSUME NEW q \in Proc, OwnInv(q), Start(q)
    PROVE  OwnInv(q)'
<1> USE DEF OwnInv, Types, Goto, Gone, locals, files
<1>1. Locals'
  BY DEF Start, Locals
<1>2. Queues'
  BY EmptyQueue DEF Start, Queues
<1>3. Dirs'
  BY DEF Start, Dirs
<1>4. pc'[q] \notin Unlocked => lock' = q
  BY DEF Start, Unlocked, Locals
<1>5. OnDisk(q)'
  BY NothingClaimed DEF Start, OnDisk, Before, Bare, Unlocked, Locals
<1> QED BY <1>1, <1>2, <1>3, <1>4, <1>5

LEMMA MakeOutDirOwn ==
    ASSUME NEW q \in Proc, OwnInv(q), MakeOutDir(q)
    PROVE  OwnInv(q)'
<1> USE DEF OwnInv, Types, Goto, Gone, locals, files
<1>1. Locals'
  BY DEF MakeOutDir, Locals
<1>2. Queues'
  BY EmptyQueue DEF MakeOutDir, Queues
<1>3. Dirs'
  BY DEF MakeOutDir, Dirs
<1>4. pc'[q] \notin Unlocked => lock' = q
  BY DEF MakeOutDir, Unlocked, Locals
<1>5. OnDisk(q)'
  BY NothingClaimed DEF MakeOutDir, OnDisk, Before, Bare, Unlocked, Locals
<1> QED BY <1>1, <1>2, <1>3, <1>4, <1>5

LEMMA CheckOwn ==
    ASSUME NEW q \in Proc, OwnInv(q), Check(q)
    PROVE  OwnInv(q)'
<1> USE DEF OwnInv, Types, Goto, Gone, locals, files
<1>1. Locals'
  BY DEF Check, Locals
<1>2. Queues'
  BY EmptyQueue DEF Check, Queues
<1>3. Dirs'
  BY DEF Check, Dirs
<1>4. pc'[q] \notin Unlocked => lock' = q
  BY DEF Check, Unlocked, Locals
<1>5. OnDisk(q)'
  BY NothingClaimed DEF Check, OnDisk, Before, Bare, Unlocked, Locals
<1> QED BY <1>1, <1>2, <1>3, <1>4, <1>5

LEMMA CleanCrashesOwn ==
    ASSUME NEW q \in Proc, OwnInv(q), CleanCrashes(q)
    PROVE  OwnInv(q)'
<1> USE DEF OwnInv, Types, Goto, Gone, locals, files
<1>1. Locals'
  BY DEF CleanCrashes, Locals
<1>2. Queues'
  BY EmptyQueue DEF CleanCrashes, Queues
<1>3. Dirs'
  BY DEF CleanCrashes, Dirs
<1>4. pc'[q] \notin Unlocked => lock' = q
  BY DEF CleanCrashes, Unlocked, Locals
<1>5. OnDisk(q)'
  BY NothingClaimed DEF CleanCrashes, OnDisk, Before, Bare, Unlocked, Locals
<1> QED BY <1>1, <1>2, <1>3, <1>4, <1>5

LEMMA CleanRestOwn ==
    ASSUME NEW q \in Proc, OwnInv(q), CleanRest(q)
    PROVE  OwnInv(q)'
<1> USE DEF OwnInv, Types, Goto, Gone, locals, files
<1>1. Locals'
  BY DEF CleanRest, Locals
<1>2. Queues'
  BY EmptyQueue DEF CleanRest, Queues
<1>3. Dirs'
  BY DEF CleanRest, Dirs
<1>4. pc'[q] \notin Unlocked => lock' = q
  BY DEF CleanRest, Unlocked, Locals
<1>5. OnDisk(q)'
  BY NothingClaimed DEF CleanRest, OnDisk, Before, Bare, Unlocked, Locals
<1> QED BY <1>1, <1>2, <1>3, <1>4, <1>5

LEMMA KillOwn ==
    ASSUME NEW q \in Proc, OwnInv(q), Kill(q)
    PROVE  OwnInv(q)'
<1> USE DEF OwnInv, Types, Goto, Gone, locals, files
<1>1. Locals'
  BY DEF Kill, Locals
<1>2. Queues'
  BY EmptyQueue DEF Kill, Queues
<1>3. Dirs'
  BY DEF Kill, Dirs
<1>4. pc'[q] \notin Unlocked => lock' = q
  BY DEF Kill, Unlocked, Locals
<1>5. OnDisk(q)'
  BY NothingClaimed DEF Kill, OnDisk, Before, Bare, Unlocked, Locals
<1> QED BY <1>1, <1>2, <1>3, <1>4, <1>5

LEMMA LockOwn ==
    ASSUME NEW q \in Proc, OwnInv(q), Lock(q)
    PROVE  OwnInv(q)'
<1> USE DEF OwnInv, Types, Goto, Gone, locals, files
<1>1. Locals'
  BY DEF Lock, LockIsFree, Locals
<1>2. Queues'
  BY EmptyQueue DEF Lock, LockIsFree, Queues
<1>3. Dirs'
  BY DEF Lock, LockIsFree, Dirs
<1>4. pc'[q] \notin Unlocked => lock' = q
  BY DEF Lock, LockIsFree, Unlocked, Locals
<1>5. OnDisk(q)'
  BY NothingClaimed DEF Lock, LockIsFree, OnDisk, Before, Bare, Unlocked,
         Locals
<1> QED BY <1>1, <1>2, <1>3, <1>4, <1>5

LEMMA MoveOwn ==
    ASSUME NEW q \in Proc, OwnInv(q), Move(q)
    PROVE  OwnInv(q)'
<1> USE DEF OwnInv, Types, Goto, Gone, locals, files
<1>1. Locals'
  BY DEF Move, Locals
<1>2. Queues'
  BY EmptyQueue DEF Move, Queues
<1>3. Dirs'
  BY NewDirIsDir DEF Move, Dirs
<1>4. pc'[q] \notin Unlocked => lock' = q
  BY DEF Move, Unlocked, Locals
<1>5. OnDisk(q)'
  BY NothingClaimed DEF Move, OnDisk, Before, Bare, Unlocked, Locals
<1> QED BY <1>1, <1>2, <1>3, <1>4, <1>5

LEMMA CleanOwn ==
    ASSUME NEW q \in Proc, OwnInv(q), Clean(q)
    PROVE  OwnInv(q)'
<1> USE DEF OwnInv, Types, Goto, Gone, locals, files
<1>1. Locals'
  BY DEF Clean, Locals
<1>2. Queues'
  BY EmptyQueue DEF Clean, Queues
<1>3. Dirs'
  BY Removed DEF Clean, Dirs
<1>4. pc'[q] \notin Unlocked => lock' = q
  BY DEF Clean, Unlocked, Locals
<1>5. OnDisk(q)'
  BY NothingClaimed DEF Clean, OnDisk, Before, Bare, Unlocked, Locals
<1> QED BY <1>1, <1>2, <1>3, <1>4, <1>5

(* One seed.                                                               *)
LEMMA SingleIsQueue ==
    ASSUME NEW case
    PROVE  IsQueue(<<[case |-> case, det |-> FALSE]>>)
<1> DEFINE e == [case |-> case, det |-> FALSE]
<1>1. IsEntry(e)
  BY DEF IsEntry
<1> HIDE DEF e
<1>2. Append(<<>>, e) = <<e>>
  OBVIOUS
<1>3. IsQueue(Append(<<>>, e))
  BY <1>1, EmptyQueue, EntryAppended
<1>4. IsQueue(<<e>>)
  BY <1>2, <1>3
<1> QED BY <1>4 DEF e

LEMMA FindIsEntry ==
    ASSUME NEW case
    PROVE  /\ IsEntry([case |-> case, det |-> FALSE])
           /\ [case |-> case, det |-> FALSE].case = case
           /\ ~[case |-> case, det |-> FALSE].det
BY DEF IsEntry

(* The phases of OnDisk one by one.                                        *)
LEMMA BareClaim ==
    ASSUME NEW q \in Proc, pc'[q] \in Bare,
           at'[q] = 1,
           Files({})',
           queue'.marks = {}
    PROVE  OnDisk(q)'
BY DEF OnDisk, Importing, Saving, Before, Bare, Settled, Unlocked

LEMMA PivotClaim ==
    ASSUME NEW q \in Proc, pc'[q] = "pivot",
           (at[q] \in 1 .. Len(mem[q]) + 1)',
           Marked(q, at[q] - 1)',
           Files(0 .. at[q] - 2)',
           Written(q, 0 .. at[q] - 2)'
    PROVE  OnDisk(q)'
BY DEF OnDisk, Importing, Saving, Before, Bare, Settled, Unlocked

LEMMA PivotCopyClaim ==
    ASSUME NEW q \in Proc, pc'[q] = "pivot_copy",
           (at[q] \in 1 .. Len(mem[q]))',
           Marked(q, at[q] - 1)',
           Files(0 .. at[q] - 1)',
           Written(q, 0 .. at[q] - 2)'
    PROVE  OnDisk(q)'
BY DEF OnDisk, Importing, Saving, Before, Bare, Settled, Unlocked

LEMMA PivotMarkClaim ==
    ASSUME NEW q \in Proc, pc'[q] = "pivot_mark",
           (at[q] \in 1 .. Len(mem[q]))',
           Marked(q, at[q] - 1)',
           Files(0 .. at[q] - 1)',
           Written(q, 0 .. at[q] - 1)'
    PROVE  OnDisk(q)'
BY DEF OnDisk, Importing, Saving, Before, Bare, Settled, Unlocked

LEMMA SettledClaim ==
    ASSUME NEW q \in Proc, pc'[q] \in Settled,
           Marked(q, Len(mem[q]))',
           Files(0 .. Len(mem[q]) - 1)',
           Written(q, 0 .. Len(mem[q]) - 1)'
    PROVE  OnDisk(q)'
BY DEF OnDisk, Importing, Saving, Before, Bare, Settled, Unlocked

LEMMA FindClaim ==
    ASSUME NEW q \in Proc, pc'[q] = "find",
           Marked(q, Len(mem[q]))',
           Files(0 .. Len(mem[q]))',
           Written(q, 0 .. Len(mem[q]) - 1)'
    PROVE  OnDisk(q)'
BY DEF OnDisk, Importing, Saving, Before, Bare, Settled, Unlocked

LEMMA TrimClaim ==
    ASSUME NEW q \in Proc, pc'[q] = "trim",
           (at[q] \in 1 .. Len(mem[q]))',
           Marked(q, Len(mem[q]))',
           Files((0 .. Len(mem[q]) - 1) \ {at[q] - 1})',
           Written(q, (0 .. Len(mem[q]) - 1) \ {at[q] - 1})'
    PROVE  OnDisk(q)'
BY DEF OnDisk, Importing, Saving, Before, Bare, Settled, Unlocked

LEMMA TrimWriteClaim ==
    ASSUME NEW q \in Proc, pc'[q] = "trim_write",
           (at[q] \in 1 .. Len(mem[q]))',
           Marked(q, Len(mem[q]))',
           Files(0 .. Len(mem[q]) - 1)',
           Written(q, (0 .. Len(mem[q]) - 1) \ {at[q] - 1})'
    PROVE  OnDisk(q)'
BY DEF OnDisk, Importing, Saving, Before, Bare, Settled, Unlocked

LEMMA DryRunOwn ==
    ASSUME NEW q \in Proc, OwnInv(q), DryRun(q)
    PROVE  OwnInv(q)'
<1> USE DEF OwnInv, Types, Goto, Gone, locals, files
<1>1. Locals'
  BY QueueLength DEF DryRun, Locals, Queues
<1>2. Queues'
  BY EmptyQueue DEF DryRun, Queues
<1>3. Dirs'
  BY DEF DryRun, Dirs
<1>4. pc'[q] \notin Unlocked => lock' = q
  BY DEF DryRun, Unlocked, Locals
<1>5. OnDisk(q)'
  <2>1. /\ Marked(q, Len(mem[q])) /\ Files(0 .. Len(mem[q]) - 1)
        /\ Written(q, 0 .. Len(mem[q]) - 1)
    BY DEF DryRun, OnDisk, Settled
  <2>2. queue' = queue /\ mem'[q] = mem[q]
    BY DEF DryRun
  <2>3. /\ Marked(q, Len(mem[q]))' /\ Files(0 .. Len(mem[q]) - 1)'
        /\ Written(q, 0 .. Len(mem[q]) - 1)'
    BY <2>1, <2>2 DEF Marked, Files, Written
  <2>4. pc'[q] \in Settled \cup {"last_stats", "last_write"}
    BY DEF DryRun, Settled, Locals
  <2> QED BY <2>3, <2>4, SettledClaim, NothingClaimed DEF Before, Unlocked
<1> QED BY <1>1, <1>2, <1>3, <1>4, <1>5

LEMMA SaveCrashOwn ==
    ASSUME NEW q \in Proc, OwnInv(q), SaveCrash(q)
    PROVE  OwnInv(q)'
<1> USE DEF OwnInv, Types, Goto, Gone, locals, files
<1>1. Locals'
  BY QueueLength DEF SaveCrash, Locals, Queues
<1>2. Queues'
  BY EmptyQueue DEF SaveCrash, Queues
<1>3. Dirs'
  BY DEF SaveCrash, Dirs
<1>4. pc'[q] \notin Unlocked => lock' = q
  BY DEF SaveCrash, Unlocked, Locals
<1>5. OnDisk(q)'
  <2>1. /\ Marked(q, Len(mem[q])) /\ Files(0 .. Len(mem[q]) - 1)
        /\ Written(q, 0 .. Len(mem[q]) - 1)
    BY DEF SaveCrash, OnDisk, Settled
  <2>2. queue' = queue /\ mem'[q] = mem[q]
    BY DEF SaveCrash
  <2>3. /\ Marked(q, Len(mem[q]))' /\ Files(0 .. Len(mem[q]) - 1)'
        /\ Written(q, 0 .. Len(mem[q]) - 1)'
    BY <2>1, <2>2 DEF Marked, Files, Written
  <2>4. pc'[q] \in Settled \cup {"last_stats", "last_write"}
    BY DEF SaveCrash, Settled, Locals
  <2> QED BY <2>3, <2>4, SettledClaim, NothingClaimed DEF Before, Unlocked
<1> QED BY <1>1, <1>2, <1>3, <1>4, <1>5

LEMMA ShowStatsOwn ==
    ASSUME NEW q \in Proc, OwnInv(q), ShowStats(q)
    PROVE  OwnInv(q)'
<1> USE DEF OwnInv, Types, Goto, Gone, locals, files
<1>1. Locals'
  BY QueueLength DEF ShowStats, Locals, Queues
<1>2. Queues'
  BY EmptyQueue DEF ShowStats, Queues
<1>3. Dirs'
  BY DEF ShowStats, Dirs
<1>4. pc'[q] \notin Unlocked => lock' = q
  BY DEF ShowStats, Unlocked, Locals
<1>5. OnDisk(q)'
  <2>1. /\ Marked(q, Len(mem[q])) /\ Files(0 .. Len(mem[q]) - 1)
        /\ Written(q, 0 .. Len(mem[q]) - 1)
    BY DEF ShowStats, OnDisk, Settled
  <2>2. queue' = queue /\ mem'[q] = mem[q]
    BY DEF ShowStats
  <2>3. /\ Marked(q, Len(mem[q]))' /\ Files(0 .. Len(mem[q]) - 1)'
        /\ Written(q, 0 .. Len(mem[q]) - 1)'
    BY <2>1, <2>2 DEF Marked, Files, Written
  <2>4. pc'[q] \in Settled \cup {"last_stats", "last_write"}
    BY DEF ShowStats, Settled, Locals
  <2> QED BY <2>3, <2>4, SettledClaim, NothingClaimed DEF Before, Unlocked
<1> QED BY <1>1, <1>2, <1>3, <1>4, <1>5

LEMMA MakeQueueOwn ==
    ASSUME NEW q \in Proc, OwnInv(q), MakeQueue(q)
    PROVE  OwnInv(q)'
<1> USE DEF OwnInv, Types, Goto, Gone, locals, files
<1>1. Locals'
  BY QueueLength DEF MakeQueue, Locals, Queues
<1>2. Queues'
  BY EmptyQueue DEF MakeQueue, Queues
<1>3. Dirs'
  BY NewDirIsDir DEF MakeQueue, Dirs
<1>4. pc'[q] \notin Unlocked => lock' = q
  BY DEF MakeQueue, Unlocked, Locals
<1>5. OnDisk(q)'
  <2>1. CASE queue.exists
    BY <2>1, NothingClaimed DEF MakeQueue, Before, Unlocked, Locals
  <2>2. CASE ~queue.exists
    BY <2>2, NewDirIsDir, BareClaim
       DEF MakeQueue, Bare, Before, OnDisk, Files, Locals
  <2> QED BY <2>1, <2>2
<1> QED BY <1>1, <1>2, <1>3, <1>4, <1>5

LEMMA MakeStateOwn ==
    ASSUME NEW q \in Proc, OwnInv(q), MakeState(q)
    PROVE  OwnInv(q)'
<1> USE DEF OwnInv, Types, Goto, Gone, locals, files
<1>1. Locals'
  BY QueueLength DEF MakeState, Locals, Queues
<1>2. Queues'
  BY EmptyQueue DEF MakeState, Queues
<1>3. Dirs'
  BY StateMade DEF MakeState, Dirs
<1>4. pc'[q] \notin Unlocked => lock' = q
  BY DEF MakeState, Unlocked, Locals
<1>5. OnDisk(q)'
  <2>1. Files({}) /\ queue.marks = {} /\ at[q] = 1
    BY DEF MakeState, OnDisk, Bare
  <2>2. queue'.ent = queue.ent /\ queue'.marks = queue.marks
    BY DEF MakeState, Dirs, IsDir
  <2> QED BY <2>1, <2>2, BareClaim DEF MakeState, Bare, Files, Locals
<1> QED BY <1>1, <1>2, <1>3, <1>4, <1>5

LEMMA ReadOwn ==
    ASSUME NEW q \in Proc, OwnInv(q), Read(q)
    PROVE  OwnInv(q)'
<1> USE DEF OwnInv, Types, Goto, Gone, locals, files
<1>1. Locals'
  BY QueueLength DEF Read, Locals, Queues
<1>2. Queues'
  <2>1. \/ mem'[q] = <<>> \/ mem'[q] = Scanned(resume)
        \/ mem'[q] = <<[case |-> cases + 1, det |-> FALSE]>>
    BY DEF Read, Queues
  <2>2. IsQueue(mem'[q])
    BY <2>1, EmptyQueue, ScanIsQueue, SingleIsQueue DEF Dirs
  <2>3. DOMAIN mem' = Proc /\ \A p \in Proc \ {q} : mem'[p] = mem[p]
    BY DEF Read, Queues
  <2> QED BY <2>2, <2>3 DEF Queues
<1>3. Dirs'
  BY DEF Read, Dirs
<1>4. pc'[q] \notin Unlocked => lock' = q
  BY DEF Read, Unlocked, Locals
<1>5. OnDisk(q)'
  <2>1. Files({}) /\ queue.marks = {} /\ at[q] = 1
    BY DEF Read, OnDisk, Bare
  <2>2. (pc'[q] = "off" /\ at'[q] = 1) \/ (pc'[q] = "pivot" /\ at'[q] = 1)
    BY <2>1 DEF Read, Locals
  <2>3. CASE pc'[q] = "off" /\ at'[q] = 1
    BY <2>3, NothingClaimed DEF Before, Unlocked
  <2>4. CASE pc'[q] = "pivot" /\ at'[q] = 1
    <3>1. Files({})' /\ queue'.marks = {}
      BY <2>1 DEF Read, Files
    <3>2. Len(mem'[q]) \in Nat
      BY <1>2, QueueLength DEF Queues
    <3>3. 0 .. at'[q] - 2 = {} /\ 0 .. (at'[q] - 1) - 1 = {}
      BY <2>4
    <3> QED
      BY <2>4, <3>1, <3>2, <3>3, PivotClaim DEF Files, Marked, Written
  <2> QED BY <2>2, <2>3, <2>4
<1> QED BY <1>1, <1>2, <1>3, <1>4, <1>5

LEMMA nuke_resume_dirOwn ==
    ASSUME NEW q \in Proc, OwnInv(q), nuke_resume_dir(q)
    PROVE  OwnInv(q)'
<1> USE DEF OwnInv, Types, Goto, Gone, locals, files
<1>1. Locals'
  BY QueueLength DEF nuke_resume_dir, Locals, Queues
<1>2. Queues'
  BY EmptyQueue DEF nuke_resume_dir, Queues
<1>3. Dirs'
  BY Removed DEF nuke_resume_dir, Dirs
<1>4. pc'[q] \notin Unlocked => lock' = q
  BY DEF nuke_resume_dir, Unlocked, Locals
<1>5. OnDisk(q)'
  <2>1. /\ Marked(q, Len(mem[q])) /\ Files(0 .. Len(mem[q]) - 1)
        /\ Written(q, 0 .. Len(mem[q]) - 1)
    BY DEF nuke_resume_dir, OnDisk, Settled
  <2>2. queue' = queue /\ mem'[q] = mem[q]
    BY DEF nuke_resume_dir
  <2>3. /\ Marked(q, Len(mem[q]))' /\ Files(0 .. Len(mem[q]) - 1)'
        /\ Written(q, 0 .. Len(mem[q]) - 1)'
    BY <2>1, <2>2 DEF Marked, Files, Written
  <2>4. pc'[q] \in Settled
    BY DEF nuke_resume_dir, Settled, Locals
  <2> QED BY <2>3, <2>4, SettledClaim
<1> QED BY <1>1, <1>2, <1>3, <1>4, <1>5

LEMMA StatsOpenOwn ==
    ASSUME NEW q \in Proc, OwnInv(q), StatsOpen(q)
    PROVE  OwnInv(q)'
<1> USE DEF OwnInv, Types, Goto, Gone, locals, files
<1>1. Locals'
  BY QueueLength DEF StatsOpen, Locals, Queues
<1>2. Queues'
  BY EmptyQueue DEF StatsOpen, Queues
<1>3. Dirs'
  BY DEF StatsOpen, Dirs
<1>4. pc'[q] \notin Unlocked => lock' = q
  BY DEF StatsOpen, Unlocked, Locals
<1>5. OnDisk(q)'
  <2>1. CASE pc[q] \in Settled
    <3>1. /\ Marked(q, Len(mem[q])) /\ Files(0 .. Len(mem[q]) - 1)
          /\ Written(q, 0 .. Len(mem[q]) - 1)
      BY <2>1 DEF OnDisk, Settled
    <3>2. queue' = queue /\ mem'[q] = mem[q]
      BY <2>1 DEF StatsOpen, Settled
    <3>3. /\ Marked(q, Len(mem[q]))' /\ Files(0 .. Len(mem[q]) - 1)'
          /\ Written(q, 0 .. Len(mem[q]) - 1)'
      BY <3>1, <3>2 DEF Marked, Files, Written
    <3>4. pc'[q] \in Settled
      BY <2>1 DEF StatsOpen, Settled, Locals
    <3> QED BY <3>3, <3>4, SettledClaim
  <2>2. CASE pc[q] \notin Settled
    BY <2>2, NothingClaimed DEF StatsOpen, Settled, Before, Unlocked, Locals
  <2> QED BY <2>1, <2>2
<1> QED BY <1>1, <1>2, <1>3, <1>4, <1>5

LEMMA StatsWriteOwn ==
    ASSUME NEW q \in Proc, OwnInv(q), StatsWrite(q)
    PROVE  OwnInv(q)'
<1> USE DEF OwnInv, Types, Goto, Gone, locals, files
<1>1. Locals'
  <2>1. DOMAIN pc' = Proc
    BY DEF StatsWrite, Locals
  <2>2. mode' \in [Proc -> {"fresh", "resume"}]
    BY DEF StatsWrite, Locals
  <2>3. lock' \in Proc \cup {Nobody}
    BY DEF StatsWrite, Locals
  <2>4. at' \in [Proc -> Int]
    BY DEF StatsWrite, Locals
  <2> QED BY <2>1, <2>2, <2>3, <2>4 DEF Locals
<1>2. Queues'
  BY EmptyQueue DEF StatsWrite, Queues
<1>3. Dirs'
  BY DEF StatsWrite, Dirs
<1>4. pc'[q] \notin Unlocked => lock' = q
  BY DEF StatsWrite, Unlocked, Locals
<1>5. OnDisk(q)'
  <2>1. CASE pc[q] \in Settled
    <3>1. /\ Marked(q, Len(mem[q])) /\ Files(0 .. Len(mem[q]) - 1)
          /\ Written(q, 0 .. Len(mem[q]) - 1)
      BY <2>1 DEF OnDisk, Settled
    <3>2. queue' = queue /\ mem'[q] = mem[q]
      BY <2>1 DEF StatsWrite, Settled
    <3>3. /\ Marked(q, Len(mem[q]))' /\ Files(0 .. Len(mem[q]) - 1)'
          /\ Written(q, 0 .. Len(mem[q]) - 1)'
      BY <3>1, <3>2 DEF Marked, Files, Written
    <3>4. pc'[q] \in Settled
      BY <2>1 DEF StatsWrite, Settled, Locals
    <3> QED BY <3>3, <3>4, SettledClaim
  <2>2. CASE pc[q] \notin Settled
    BY <2>2, NothingClaimed DEF StatsWrite, Settled, Before, Unlocked, Locals
  <2> QED BY <2>1, <2>2
<1> QED BY <1>1, <1>2, <1>3, <1>4, <1>5

LEMMA PivotOwn ==
    ASSUME NEW q \in Proc, OwnInv(q), Pivot(q)
    PROVE  OwnInv(q)'
<1> USE DEF OwnInv, Types, Goto, Gone, locals, files
<1>1. Locals'
  BY QueueLength DEF Pivot, Locals, Queues
<1>2. Queues'
  BY EmptyQueue DEF Pivot, Queues
<1>3. Dirs'
  BY FileAdded DEF Pivot, Dirs
<1>4. pc'[q] \notin Unlocked => lock' = q
  BY DEF Pivot, Unlocked, Locals
<1>5. OnDisk(q)'
  <2> DEFINE n == Len(mem[q])
             i == at[q] - 1
  <2>1. /\ at[q] \in 1 .. n + 1 /\ Marked(q, at[q] - 1)
        /\ Files(0 .. at[q] - 2) /\ Written(q, 0 .. at[q] - 2)
    BY DEF Pivot, OnDisk, Importing
  <2>2. n \in Nat /\ at[q] \in Int
    BY QueueLength DEF Queues, Locals
  <2>3. mem'[q] = mem[q] /\ at'[q] = at[q]
    BY DEF Pivot
  <2>4. CASE at[q] > n
    <3>1. queue' = queue /\ pc'[q] \in Settled
      BY <2>4 DEF Pivot, Settled, Locals
    <3>2. at[q] = n + 1
      BY <2>1, <2>2, <2>4
    <3>3. /\ Marked(q, Len(mem[q]))' /\ Files(0 .. Len(mem[q]) - 1)'
          /\ Written(q, 0 .. Len(mem[q]) - 1)'
      BY <2>1, <2>2, <2>3, <3>1, <3>2 DEF Marked, Files, Written
    <3> QED BY <3>1, <3>3, SettledClaim
  <2>5. ASSUME at[q] <= n, NEW case, queue' = WithFile(queue, i, case)
        PROVE  /\ (at[q] \in 1 .. Len(mem[q]))' /\ Marked(q, at[q] - 1)'
               /\ Files(0 .. at[q] - 1)' /\ Written(q, 0 .. at[q] - 2)'
               /\ queue'.ent[i] = case
    <3>1. /\ DOMAIN queue'.ent = DOMAIN queue.ent \cup {i}
          /\ queue'.ent[i] = case
          /\ \A k \in DOMAIN queue.ent \ {i} : queue'.ent[k] = queue.ent[k]
          /\ queue'.marks = queue.marks
      BY <2>5, FileAdded DEF Dirs
    <3>2. 0 .. at[q] - 1 = (0 .. at[q] - 2) \cup {i} /\ i \notin 0 .. at[q] - 2
      BY <2>1, <2>2
    <3>3. Files(0 .. at[q] - 1)'
      BY <2>1, <2>3, <3>1, <3>2 DEF Files
    <3>4. Written(q, 0 .. at[q] - 2)'
      BY <2>1, <2>3, <3>1, <3>2 DEF Files, Written
    <3>5. Marked(q, at[q] - 1)'
      BY <2>1, <2>3, <3>1 DEF Marked
    <3>6. (at[q] \in 1 .. Len(mem[q]))'
      BY <2>1, <2>2, <2>3, <2>5
    <3> QED BY <3>1, <3>3, <3>4, <3>5, <3>6
  <2>6. CASE /\ at[q] <= n /\ pc'[q] = "pivot_mark"
             /\ queue' = WithFile(queue, i, mem[q][at[q]].case)
    <3>1. Written(q, 0 .. at[q] - 1)'
      <4>1. Written(q, 0 .. at[q] - 2)' /\ queue'.ent[i] = mem[q][at[q]].case
        BY <2>5, <2>6
      <4>2. 0 .. at[q] - 1 = (0 .. at[q] - 2) \cup {i} /\ i + 1 = at[q]
        BY <2>1, <2>2
      <4> QED BY <2>3, <4>1, <4>2 DEF Written
    <3> QED BY <2>5, <2>6, <3>1, PivotMarkClaim
  <2>7. CASE /\ at[q] <= n /\ pc'[q] = "pivot_copy"
             /\ queue' = WithFile(queue, i, Cut)
    BY <2>5, <2>7, PivotCopyClaim
  <2>8. \/ at[q] > n
        \/ /\ at[q] <= n /\ pc'[q] = "pivot_mark"
           /\ queue' = WithFile(queue, i, mem[q][at[q]].case)
        \/ /\ at[q] <= n /\ pc'[q] = "pivot_copy"
           /\ queue' = WithFile(queue, i, Cut)
    BY <2>2 DEF Pivot, Imported, Locals
  <2> QED BY <2>4, <2>6, <2>7, <2>8
<1> QED BY <1>1, <1>2, <1>3, <1>4, <1>5

LEMMA PivotCopyOwn ==
    ASSUME NEW q \in Proc, OwnInv(q), PivotCopy(q)
    PROVE  OwnInv(q)'
<1> USE DEF OwnInv, Types, Goto, Gone, locals, files
<1>1. Locals'
  BY QueueLength DEF PivotCopy, Locals, Queues
<1>2. Queues'
  BY EmptyQueue DEF PivotCopy, Queues
<1>3. Dirs'
  BY FileAdded DEF PivotCopy, Dirs
<1>4. pc'[q] \notin Unlocked => lock' = q
  BY DEF PivotCopy, Unlocked, Locals
<1>5. OnDisk(q)'
  <2> DEFINE i == at[q] - 1
  <2>1. /\ at[q] \in 1 .. Len(mem[q]) + 1 /\ at[q] <= Len(mem[q])
        /\ Marked(q, at[q] - 1)
        /\ Files(0 .. at[q] - 1) /\ Written(q, 0 .. at[q] - 2)
    BY DEF PivotCopy, OnDisk, Importing
  <2>2. Len(mem[q]) \in Nat /\ at[q] \in Int
    BY QueueLength DEF Queues, Locals
  <2>3. /\ mem'[q] = mem[q] /\ at'[q] = at[q]
        /\ pc'[q] = "pivot_mark"
        /\ queue' = WithFile(queue, i, mem[q][at[q]].case)
    BY DEF PivotCopy, Imported, Locals
  <2>4. /\ DOMAIN queue'.ent = DOMAIN queue.ent \cup {i}
        /\ queue'.ent[i] = mem[q][at[q]].case
        /\ \A k \in DOMAIN queue.ent \ {i} : queue'.ent[k] = queue.ent[k]
        /\ queue'.marks = queue.marks
    BY <2>3, FileAdded DEF Dirs
  <2>5. /\ 0 .. at[q] - 1 = (0 .. at[q] - 2) \cup {i}
        /\ i \notin 0 .. at[q] - 2 /\ i + 1 = at[q]
    BY <2>1, <2>2
  <2>6. Files(0 .. at[q] - 1)'
    BY <2>1, <2>3, <2>4, <2>5 DEF Files
  <2>7. Written(q, 0 .. at[q] - 1)'
    BY <2>1, <2>3, <2>4, <2>5 DEF Files, Written
  <2>8. Marked(q, at[q] - 1)'
    BY <2>1, <2>3, <2>4 DEF Marked
  <2>9. (at[q] \in 1 .. Len(mem[q]))'
    BY <2>1, <2>2, <2>3
  <2> QED BY <2>3, <2>6, <2>7, <2>8, <2>9, PivotMarkClaim
<1> QED BY <1>1, <1>2, <1>3, <1>4, <1>5

LEMMA PivotMarkOwn ==
    ASSUME NEW q \in Proc, OwnInv(q), PivotMark(q)
    PROVE  OwnInv(q)'
<1> USE DEF OwnInv, Types, Goto, Gone, locals, files
<1>1. Locals'
  BY QueueLength DEF PivotMark, Locals, Queues
<1>2. Queues'
  BY EmptyQueue DEF PivotMark, Queues
<1>3. Dirs'
  BY MarkAdded DEF PivotMark, Dirs
<1>4. pc'[q] \notin Unlocked => lock' = q
  BY DEF PivotMark, Unlocked, Locals
<1>5. OnDisk(q)'
  <2> DEFINE i == at[q] - 1
  <2>1. /\ at[q] \in 1 .. Len(mem[q]) + 1 /\ at[q] <= Len(mem[q])
        /\ Marked(q, at[q] - 1)
        /\ Files(0 .. at[q] - 1) /\ Written(q, 0 .. at[q] - 1)
    BY DEF PivotMark, OnDisk, Importing
  <2>2. Len(mem[q]) \in Nat /\ at[q] \in Int
    BY QueueLength DEF Queues, Locals
  <2>3. /\ mem'[q] = mem[q] /\ at'[q] = at[q] + 1
        /\ pc'[q] = "pivot"
    BY DEF PivotMark, Locals
  <2>4. /\ queue'.ent = queue.ent
        /\ queue'.marks = IF mem[q][at[q]].det THEN queue.marks \cup {i}
                          ELSE queue.marks
    BY DEF PivotMark, Imported, Dirs, IsDir
  <2>5. /\ 0 .. at[q] - 1 = (0 .. at[q] - 2) \cup {i}
        /\ i \notin 0 .. at[q] - 2 /\ i + 1 = at[q]
        /\ at'[q] - 2 = at[q] - 1 /\ at'[q] - 1 = at[q]
        /\ (at[q] - 1) - 1 = at[q] - 2
    BY <2>1, <2>2, <2>3
  <2>6. Files(0 .. at[q] - 2)' /\ Written(q, 0 .. at[q] - 2)'
    BY <2>1, <2>3, <2>4, <2>5 DEF Files, Written
  <2>7. Marked(q, at[q] - 1)'
    <3>1. queue'.marks \subseteq 0 .. at[q] - 1
      BY <2>1, <2>4, <2>5 DEF Marked
    <3>2. ASSUME NEW k \in 0 .. at[q] - 1
          PROVE  k \in queue'.marks <=> mem[q][k + 1].det
      BY <2>1, <2>4, <2>5 DEF Marked
    <3> QED BY <2>3, <2>5, <3>1, <3>2 DEF Marked
  <2>8. (at[q] \in 1 .. Len(mem[q]) + 1)'
    BY <2>1, <2>2, <2>3
  <2> QED BY <2>3, <2>6, <2>7, <2>8, PivotClaim
<1> QED BY <1>1, <1>2, <1>3, <1>4, <1>5

LEMMA FindOpenOwn ==
    ASSUME NEW q \in Proc, OwnInv(q), FindOpen(q)
    PROVE  OwnInv(q)'
<1> USE DEF OwnInv, Types, Goto, Gone, locals, files
<1>1. Locals'
  BY QueueLength DEF FindOpen, Locals, Queues
<1>2. Queues'
  BY EmptyQueue DEF FindOpen, Queues
<1>3. Dirs'
  BY FileAdded DEF FindOpen, Dirs
<1>4. pc'[q] \notin Unlocked => lock' = q
  BY DEF FindOpen, Unlocked, Locals
<1>5. OnDisk(q)'
  <2>1. /\ Marked(q, Len(mem[q])) /\ Files(0 .. Len(mem[q]) - 1)
        /\ Written(q, 0 .. Len(mem[q]) - 1)
    BY DEF FindOpen, OnDisk, Settled
  <2>2. Len(mem[q]) \in Nat
    BY QueueLength DEF Queues
  <2> DEFINE n == Len(mem[q])
  <2>3. mem'[q] = mem[q] /\ pc'[q] = "find" /\ queue' = WithFile(queue, n, Cut)
    BY DEF FindOpen, Locals
  <2>4. /\ DOMAIN queue'.ent = DOMAIN queue.ent \cup {n}
        /\ \A k \in DOMAIN queue.ent \ {n} : queue'.ent[k] = queue.ent[k]
        /\ queue'.marks = queue.marks
    BY <2>3, FileAdded DEF Dirs
  <2>5. 0 .. n = (0 .. n - 1) \cup {n} /\ n \notin 0 .. n - 1
    BY <2>2
  <2>6. Files(0 .. Len(mem[q]))'
    BY <2>1, <2>3, <2>4, <2>5 DEF Files
  <2>7. Written(q, 0 .. Len(mem[q]) - 1)'
    BY <2>1, <2>3, <2>4, <2>5 DEF Files, Written
  <2>8. Marked(q, Len(mem[q]))'
    BY <2>1, <2>3, <2>4 DEF Marked
  <2> QED BY <2>3, <2>6, <2>7, <2>8, FindClaim
<1> QED BY <1>1, <1>2, <1>3, <1>4, <1>5

LEMMA FindWriteOwn ==
    ASSUME NEW q \in Proc, OwnInv(q), FindWrite(q)
    PROVE  OwnInv(q)'
<1> USE DEF OwnInv, Types, Goto, Gone, locals, files
<1>1. Locals'
  BY QueueLength DEF FindWrite, Locals, Queues
<1>2. Queues'
  BY FindIsEntry, EntryAppended DEF FindWrite, Queues
<1>3. Dirs'
  BY FileAdded DEF FindWrite, Dirs
<1>4. pc'[q] \notin Unlocked => lock' = q
  BY DEF FindWrite, Unlocked, Locals
<1>5. OnDisk(q)'
  <2> DEFINE n == Len(mem[q])
  <2>1. /\ Marked(q, n) /\ Files(0 .. n)
        /\ Written(q, 0 .. n - 1)
    BY DEF FindWrite, OnDisk, Saving
  <2>2. n \in Nat
    BY QueueLength DEF Queues
  <2>3. /\ mem'[q] = Append(mem[q], [case |-> cases', det |-> FALSE])
        /\ pc'[q] = "fuzz" /\ queue' = WithFile(queue, n, cases')
    BY DEF FindWrite, Locals, Queues
  <2>4. /\ DOMAIN queue'.ent = DOMAIN queue.ent \cup {n}
        /\ queue'.ent[n] = cases'
        /\ \A k \in DOMAIN queue.ent \ {n} : queue'.ent[k] = queue.ent[k]
        /\ queue'.marks = queue.marks
    BY <2>3, FileAdded DEF Dirs
  <2>5. /\ Len(mem'[q]) = n + 1
        /\ \A k \in 1 .. n : mem'[q][k] = mem[q][k]
        /\ mem'[q][n + 1].case = cases' /\ ~mem'[q][n + 1].det
    BY <2>3, FindIsEntry, EntryAppended DEF Queues
  <2>6. 0 .. n = (0 .. n - 1) \cup {n} /\ n \notin 0 .. n - 1
        /\ (n + 1) - 1 = n /\ \A k \in 0 .. n - 1 : k + 1 \in 1 .. n
    BY <2>2
  <2>7. Files(0 .. Len(mem[q]) - 1)'
    BY <2>1, <2>4, <2>5, <2>6 DEF Files
  <2>8. Written(q, 0 .. Len(mem[q]) - 1)'
    BY <2>1, <2>4, <2>5, <2>6 DEF Files, Written
  <2>9. Marked(q, Len(mem[q]))'
    BY <2>1, <2>4, <2>5, <2>6 DEF Marked
  <2> QED BY <2>3, <2>7, <2>8, <2>9, SettledClaim DEF Settled
<1> QED BY <1>1, <1>2, <1>3, <1>4, <1>5

LEMMA mark_as_det_doneOwn ==
    ASSUME NEW q \in Proc, OwnInv(q), mark_as_det_done(q)
    PROVE  OwnInv(q)'
<1> USE DEF OwnInv, Types, Goto, Gone, locals, files
<1>1. Locals'
  BY QueueLength DEF mark_as_det_done, Locals, Queues
<1>2. Queues'
  <2>1. PICK k \in DOMAIN mem[q] :
            mem' = [mem EXCEPT ![q][k] =
                       [case |-> mem[q][k].case, det |-> TRUE]]
    BY DEF mark_as_det_done
  <2> DEFINE e == [case |-> mem[q][k].case, det |-> TRUE]
  <2>2. mem' = [mem EXCEPT ![q] = [mem[q] EXCEPT ![k] = e]]
    BY <2>1
  <2>3. IsEntry(e) /\ e.case = mem[q][k].case /\ e.det = TRUE
    BY DEF IsEntry
  <2> HIDE DEF e
  <2>4. IsQueue([mem[q] EXCEPT ![k] = e])
    BY <2>3, EntryMarked DEF Queues
  <2> QED BY <2>2, <2>4 DEF Queues
<1>3. Dirs'
  <2>1. PICK k \in DOMAIN mem[q] :
            queue' = [queue EXCEPT !.marks = @ \cup {k - 1}]
    BY DEF mark_as_det_done
  <2>2. IsDir([queue EXCEPT !.marks = @ \cup {k - 1}])
    BY MarkAdded DEF Dirs
  <2> QED BY <2>1, <2>2 DEF mark_as_det_done, Dirs
<1>4. pc'[q] \notin Unlocked => lock' = q
  BY DEF mark_as_det_done, Unlocked, Locals
<1>5. OnDisk(q)'
  <2>1. /\ Marked(q, Len(mem[q])) /\ Files(0 .. Len(mem[q]) - 1)
        /\ Written(q, 0 .. Len(mem[q]) - 1)
    BY DEF mark_as_det_done, OnDisk, Settled
  <2>2. Len(mem[q]) \in Nat
    BY QueueLength DEF Queues
  <2>3. PICK k \in DOMAIN mem[q] :
            /\ queue' = [queue EXCEPT !.marks = @ \cup {k - 1}]
            /\ mem' = [mem EXCEPT ![q][k] =
                          [case |-> mem[q][k].case, det |-> TRUE]]
    BY DEF mark_as_det_done
  <2> DEFINE e == [case |-> mem[q][k].case, det |-> TRUE]
  <2>4. /\ mem'[q] = [mem[q] EXCEPT ![k] = e] /\ pc'[q] = "fuzz"
    BY <2>3 DEF mark_as_det_done, Queues
  <2>5. IsEntry(e) /\ e.case = mem[q][k].case /\ e.det = TRUE
    BY DEF IsEntry
  <2> HIDE DEF e
  <2>6. /\ Len(mem'[q]) = Len(mem[q])
        /\ \A j \in 1 .. Len(mem[q]) :
               /\ mem'[q][j].case = mem[q][j].case
               /\ mem'[q][j].det <=> (j = k \/ mem[q][j].det)
    BY <2>4, <2>5, EntryMarked DEF Queues
  <2>7. queue'.ent = queue.ent /\ queue'.marks = queue.marks \cup {k - 1}
    BY <2>3 DEF Dirs, IsDir
  <2>8. k \in 1 .. Len(mem[q])
    BY QueueLength DEF Queues
  <2>9. \A i \in 0 .. Len(mem[q]) - 1 : i + 1 \in 1 .. Len(mem[q])
    BY <2>2
  <2>10. Files(0 .. Len(mem[q]) - 1)' /\ Written(q, 0 .. Len(mem[q]) - 1)'
    BY <2>1, <2>6, <2>7, <2>9 DEF Files, Written
  <2>11. Marked(q, Len(mem[q]))'
    <3>1. queue'.marks \subseteq 0 .. Len(mem[q]) - 1
      BY <2>1, <2>2, <2>7, <2>8 DEF Marked
    <3>2. ASSUME NEW i \in 0 .. Len(mem[q]) - 1
          PROVE  i \in queue'.marks <=> mem'[q][i + 1].det
      <4>1. i = k - 1 <=> i + 1 = k
        BY <2>2, <2>8
      <4> QED BY <2>1, <2>6, <2>7, <2>9, <4>1 DEF Marked
    <3> QED BY <2>6, <3>1, <3>2 DEF Marked
  <2> QED BY <2>4, <2>10, <2>11, SettledClaim DEF Settled
<1> QED BY <1>1, <1>2, <1>3, <1>4, <1>5

LEMMA TrimUnlinkOwn ==
    ASSUME NEW q \in Proc, OwnInv(q), TrimUnlink(q)
    PROVE  OwnInv(q)'
<1> USE DEF OwnInv, Types, Goto, Gone, locals, files
<1>1. Locals'
  BY QueueLength DEF TrimUnlink, Locals, Queues
<1>2. Queues'
  BY EmptyQueue DEF TrimUnlink, Queues
<1>3. Dirs'
  <2>1. PICK k \in DOMAIN mem[q] :
            queue' = [queue EXCEPT !.ent =
                         [id \in DOMAIN @ \ {k - 1} |-> @[id]]]
    BY DEF TrimUnlink
  <2>2. IsDir([queue EXCEPT !.ent = [id \in DOMAIN @ \ {k - 1} |-> @[id]]])
    BY FileRemoved DEF Dirs
  <2> QED BY <2>1, <2>2 DEF TrimUnlink, Dirs
<1>4. pc'[q] \notin Unlocked => lock' = q
  BY DEF TrimUnlink, Unlocked, Locals
<1>5. OnDisk(q)'
  <2>1. /\ Marked(q, Len(mem[q])) /\ Files(0 .. Len(mem[q]) - 1)
        /\ Written(q, 0 .. Len(mem[q]) - 1)
    BY DEF TrimUnlink, OnDisk, Settled
  <2>2. Len(mem[q]) \in Nat
    BY QueueLength DEF Queues
  <2>3. PICK k \in DOMAIN mem[q] :
            /\ at' = [at EXCEPT ![q] = k]
            /\ queue' = [queue EXCEPT !.ent =
                             [id \in DOMAIN @ \ {k - 1} |-> @[id]]]
    BY DEF TrimUnlink
  <2>4. /\ DOMAIN queue'.ent = DOMAIN queue.ent \ {k - 1}
        /\ \A id \in DOMAIN queue'.ent : queue'.ent[id] = queue.ent[id]
        /\ queue'.marks = queue.marks
    BY <2>3 DEF Dirs, IsDir
  <2>5. at'[q] = k /\ mem'[q] = mem[q] /\ pc'[q] = "trim"
    BY <2>3 DEF TrimUnlink, Locals
  <2>6. k \in 1 .. Len(mem[q])
    BY QueueLength DEF Queues
  <2>7. Files((0 .. Len(mem[q]) - 1) \ {at[q] - 1})'
    BY <2>1, <2>4, <2>5 DEF Files
  <2>8. Written(q, (0 .. Len(mem[q]) - 1) \ {at[q] - 1})'
    BY <2>1, <2>4, <2>5 DEF Files, Written
  <2>9. Marked(q, Len(mem[q]))'
    BY <2>1, <2>4, <2>5 DEF Marked
  <2> QED BY <2>5, <2>6, <2>7, <2>8, <2>9, TrimClaim
<1> QED BY <1>1, <1>2, <1>3, <1>4, <1>5

LEMMA TrimOpenOwn ==
    ASSUME NEW q \in Proc, OwnInv(q), TrimOpen(q)
    PROVE  OwnInv(q)'
<1> USE DEF OwnInv, Types, Goto, Gone, locals, files
<1>1. Locals'
  BY QueueLength DEF TrimOpen, Locals, Queues
<1>2. Queues'
  BY EmptyQueue DEF TrimOpen, Queues
<1>3. Dirs'
  BY FileAdded DEF TrimOpen, Dirs
<1>4. pc'[q] \notin Unlocked => lock' = q
  BY DEF TrimOpen, Unlocked, Locals
<1>5. OnDisk(q)'
  <2> DEFINE n == Len(mem[q])
             i == at[q] - 1
  <2>1. /\ at[q] \in 1 .. n /\ Marked(q, n)
        /\ DOMAIN queue.ent \cup {i} = 0 .. n - 1
        /\ Written(q, (0 .. n - 1) \ {i})
        /\ (0 .. n - 1) \ {i} \subseteq DOMAIN queue.ent
    <3>1. n \in Nat
      BY QueueLength DEF Queues
    <3> QED BY <3>1 DEF TrimOpen, OnDisk, Saving, Files
  <2>2. n \in Nat /\ at[q] \in Int
    BY QueueLength DEF Queues, Locals
  <2>3. /\ mem'[q] = mem[q] /\ at'[q] = at[q] /\ pc'[q] = "trim_write"
        /\ queue' = WithFile(queue, i, Cut)
    BY DEF TrimOpen, Locals
  <2>4. /\ DOMAIN queue'.ent = 0 .. n - 1
        /\ queue'.ent[i] = Cut
        /\ \A k \in (0 .. n - 1) \ {i} : queue'.ent[k] = queue.ent[k]
        /\ queue'.marks = queue.marks
    <3>1. /\ DOMAIN queue'.ent = DOMAIN queue.ent \cup {i}
          /\ queue'.ent[i] = Cut
          /\ \A k \in DOMAIN queue.ent \ {i} :
                 queue'.ent[k] = queue.ent[k]
          /\ queue'.marks = queue.marks
      BY <2>3, FileAdded DEF Dirs
    <3> QED BY <2>1, <3>1
  <2>5. Marked(q, Len(mem[q]))' /\ Files(0 .. Len(mem[q]) - 1)'
    BY <2>1, <2>3, <2>4 DEF Marked, Files
  <2>6. Written(q, (0 .. Len(mem[q]) - 1) \ {at[q] - 1})'
    BY <2>1, <2>3, <2>4 DEF Written
  <2> QED BY <2>1, <2>3, <2>5, <2>6, TrimWriteClaim
<1> QED BY <1>1, <1>2, <1>3, <1>4, <1>5

LEMMA TrimWriteOwn ==
    ASSUME NEW q \in Proc, OwnInv(q), TrimWrite(q)
    PROVE  OwnInv(q)'
<1> USE DEF OwnInv, Types, Goto, Gone, locals, files
<1>1. Locals'
  BY QueueLength DEF TrimWrite, Locals, Queues
<1>2. Queues'
  BY EmptyQueue DEF TrimWrite, Queues
<1>3. Dirs'
  BY FileAdded DEF TrimWrite, Dirs
<1>4. pc'[q] \notin Unlocked => lock' = q
  BY DEF TrimWrite, Unlocked, Locals
<1>5. OnDisk(q)'
  <2> DEFINE n == Len(mem[q])
             i == at[q] - 1
  <2>1. /\ at[q] \in 1 .. n /\ Marked(q, n)
        /\ DOMAIN queue.ent \cup {i} = 0 .. n - 1
        /\ Written(q, (0 .. n - 1) \ {i})
        /\ (0 .. n - 1) \ {i} \subseteq DOMAIN queue.ent
    <3>1. n \in Nat
      BY QueueLength DEF Queues
    <3> QED BY <3>1 DEF TrimWrite, OnDisk, Saving, Files
  <2>2. n \in Nat /\ at[q] \in Int
    BY QueueLength DEF Queues, Locals
  <2>3. /\ mem'[q] = mem[q] /\ at'[q] = at[q] /\ pc'[q] = "fuzz"
        /\ queue' = WithFile(queue, i, mem[q][at[q]].case)
    BY DEF TrimWrite, Locals
  <2>4. /\ DOMAIN queue'.ent = 0 .. n - 1
        /\ queue'.ent[i] = mem[q][at[q]].case
        /\ \A k \in (0 .. n - 1) \ {i} : queue'.ent[k] = queue.ent[k]
        /\ queue'.marks = queue.marks
    <3>1. /\ DOMAIN queue'.ent = DOMAIN queue.ent \cup {i}
          /\ queue'.ent[i] = mem[q][at[q]].case
          /\ \A k \in DOMAIN queue.ent \ {i} :
                 queue'.ent[k] = queue.ent[k]
          /\ queue'.marks = queue.marks
      BY <2>3, FileAdded DEF Dirs
    <3> QED BY <2>1, <3>1
  <2>5. Marked(q, Len(mem[q]))' /\ Files(0 .. Len(mem[q]) - 1)'
    BY <2>1, <2>3, <2>4 DEF Marked, Files
  <2>6. i + 1 = at[q]
    BY <2>2
  <2>7. Written(q, 0 .. Len(mem[q]) - 1)'
    BY <2>1, <2>3, <2>4, <2>6 DEF Written
  <2> QED BY <2>3, <2>5, <2>7, SettledClaim DEF Settled
<1> QED BY <1>1, <1>2, <1>3, <1>4, <1>5

LEMMA OwnStep ==
    ASSUME NEW q \in Proc, OwnInv(q), Step(q) \/ User(q)
    PROVE  OwnInv(q)'
BY StartOwn, MakeOutDirOwn, LockOwn, CheckOwn, MoveOwn, CleanOwn,
       CleanCrashesOwn, CleanRestOwn, MakeQueueOwn, MakeStateOwn, ReadOwn,
       PivotOwn, PivotCopyOwn, PivotMarkOwn, nuke_resume_dirOwn, DryRunOwn,
       StatsOpenOwn, StatsWriteOwn, FindOpenOwn, FindWriteOwn,
       mark_as_det_doneOwn, TrimUnlinkOwn, TrimOpenOwn, TrimWriteOwn,
       SaveCrashOwn, ShowStatsOwn, KillOwn DEF Step, User

-----------------------------------------------------------------------------
LEMMA InvInit == Init => Inv
<1> SUFFICES ASSUME Init PROVE Inv
  OBVIOUS
<1>1. Locals
  BY DEF Init, Locals
<1>2. Queues
  BY EmptyQueue DEF Init, Queues
<1>3. Dirs
  BY NewDirIsDir DEF Init, Dirs
<1>4. \A p \in Proc : pc[p] = "off" /\ at[p] = 1
  BY DEF Init
<1>5. LockHeld
  BY <1>4 DEF LockHeld, Unlocked
<1>6. ASSUME NEW p \in Proc
      PROVE  OnDisk(p)
  BY <1>4 DEF OnDisk, Importing, Saving, Bare, Settled
<1> QED BY <1>1, <1>2, <1>3, <1>5, <1>6 DEF Inv, Types

LEMMA InvStep ==
    ASSUME Inv, NEW q \in Proc, Step(q) \/ User(q)
    PROVE  Inv'
<1>1. OwnInv(q)'
  BY OwnStep DEF Inv, OwnInv, LockHeld
<1>2. ASSUME NEW p \in Proc, p # q
      PROVE  OnDisk(p)' /\ (pc'[p] \notin Unlocked => lock' = p)
  <2>1. /\ pc'[p] = pc[p] /\ mem'[p] = mem[p] /\ at'[p] = at[p]
        /\ pc[p] \notin Unlocked => queue' = queue /\ lock' = p
    BY <1>2, OthersStay DEF Inv
  <2>2. OnDisk(p)
    BY DEF Inv
  <2>3. CASE pc[p] \in Unlocked
    <3>1. at[p] = 1
      BY <2>2, <2>3 DEF OnDisk, Before
    <3> QED
      BY <2>1, <2>3, <3>1
         DEF OnDisk, Importing, Saving, Bare, Settled, Unlocked
  <2>4. CASE pc[p] \notin Unlocked
    BY <2>1, <2>2, <2>4
       DEF OnDisk, Importing, Saving, Marked, Files, Written
  <2> QED BY <2>1, <2>3, <2>4
<1>3. \A p \in Proc : OnDisk(p)'
  BY <1>1, <1>2 DEF OwnInv
<1>4. LockHeld'
  BY <1>1, <1>2 DEF OwnInv, LockHeld
<1> QED BY <1>1, <1>3, <1>4 DEF OwnInv, Inv

LEMMA InvNext == Inv /\ [DirNext]_dirvars => Inv'
<1> SUFFICES ASSUME Inv, [DirNext]_dirvars PROVE Inv'
  OBVIOUS
<1>1. CASE DirNext
  BY <1>1, InvStep DEF DirNext
<1>2. CASE UNCHANGED dirvars
  BY <1>2
     DEF dirvars, files, locals, Inv, Types, Locals, Queues, Dirs, LockHeld,
         OnDisk, Importing, Saving, Marked, Files, Written
<1> QED BY <1>1, <1>2

LEMMA Invariance == Spec => []Inv
BY InvInit, InvNext, PTL DEF Spec

(* flock keeps the sessions apart: from the check of what is at stake to   *)
(* the last statistics one process works in the directory.                 *)
THEOREM OneSession ==
    Spec => [](\A p, q \in Proc :
                  pc[p] \notin Unlocked /\ pc[q] \notin Unlocked => p = q)
<1>1. Inv => \A p, q \in Proc :
                pc[p] \notin Unlocked /\ pc[q] \notin Unlocked => p = q
  BY DEF Inv, LockHeld
<1> QED BY <1>1, Invariance, PTL

(* However many sessions were killed between any two system calls, and     *)
(* however many processes try for the directory: once the import is        *)
(* complete, the queue of the running session and its files agree.         *)
THEOREM QueueAgrees == Spec => []QueueIsOnDisk
<1>1. ASSUME Inv, NEW p \in Proc, pc[p] \in Settled
      PROVE  /\ DOMAIN queue.ent = 0 .. Len(mem[p]) - 1
             /\ \A k \in DOMAIN mem[p] :
                    /\ queue.ent[k - 1] = mem[p][k].case
                    /\ mem[p][k].det <=> k - 1 \in queue.marks
  <2>1. /\ Marked(p, Len(mem[p])) /\ Files(0 .. Len(mem[p]) - 1)
        /\ Written(p, 0 .. Len(mem[p]) - 1)
    BY <1>1 DEF Inv, OnDisk
  <2>2. Len(mem[p]) \in Nat /\ DOMAIN mem[p] = 1 .. Len(mem[p])
    BY <1>1, QueueLength DEF Inv, Types, Queues
  <2>3. ASSUME NEW k \in DOMAIN mem[p]
        PROVE  /\ queue.ent[k - 1] = mem[p][k].case
               /\ mem[p][k].det <=> k - 1 \in queue.marks
    <3>1. k - 1 \in 0 .. Len(mem[p]) - 1 /\ (k - 1) + 1 = k
      BY <2>2
    <3> QED BY <2>1, <3>1 DEF Marked, Written
  <2> QED BY <2>1, <2>3 DEF Files
<1>2. Inv => QueueIsOnDisk
  BY <1>1 DEF QueueIsOnDisk, Settled
<1> QED BY <1>2, Invariance, PTL

-----------------------------------------------------------------------------
(* Crashes                                                                 *)

CrashInv == GivenUp /\ CrashesAreKept

LEMMA CrashStep ==
    ASSUME Inv, CrashInv, NEW q \in Proc, Step(q) \/ User(q)
    PROVE  CrashInv'
<1> USE DEF CrashInv, Goto, Gone, locals, files, counts, history
<1>1. CrashesAreKept'
  <2>1. CASE Check(q)
    BY <2>1 DEF Check, CrashesAreKept
  <2>2. CASE CleanCrashes(q)
    <3>1. CASE mode[q] = "fresh"
      BY <2>2, <3>1 DEF CleanCrashes, CrashesAreKept, GivenUp
    <3>2. CASE mode[q] = "resume"
      BY <2>2, <3>2 DEF CleanCrashes, BackedUp, CrashesAreKept
    <3> QED BY <3>1, <3>2 DEF Inv, Types, Locals
  <2>3. CASE SaveCrash(q)
    BY <2>3 DEF SaveCrash, CrashesAreKept
  <2>4. CASE /\ ~Check(q) /\ ~CleanCrashes(q) /\ ~SaveCrash(q)
    <3>1. UNCHANGED <<crashed, crashes, backups>>
      BY <2>4
         DEF Step, User, Start, MakeOutDir, Lock, Move, Clean, CleanRest,
             MakeQueue, MakeState, Read, Pivot, PivotCopy, PivotMark,
             nuke_resume_dir, DryRun, StatsOpen, StatsWrite, FindOpen,
             FindWrite,
             mark_as_det_done, TrimUnlink, TrimOpen, TrimWrite, ShowStats, Kill
    <3> QED BY <3>1 DEF CrashesAreKept
  <2> QED BY <2>1, <2>2, <2>3, <2>4
<1>2. ASSUME NEW p \in Proc, pc'[p] \in {"move", "clean", "crashes"},
             mode'[p] = "fresh"
      PROVE  crashed' = {}
  <2>1. CASE p # q
    <3>1. pc'[p] = pc[p] /\ mode'[p] = mode[p]
      BY <2>1, OthersStay DEF Inv
    <3>2. crashed = {}
      BY <1>2, <3>1 DEF GivenUp
    <3>3. pc[q] \in Unlocked
      BY <1>2, <2>1, <3>1 DEF Inv, LockHeld, Unlocked
    <3>4. crashed' = crashed \/ crashed' = {}
      BY <3>3 DEF Unlocked, Step, User, Start, MakeOutDir, Lock, Check, Move,
             Clean, CleanCrashes, CleanRest, MakeQueue, MakeState, Read, Pivot,
             PivotCopy, PivotMark, nuke_resume_dir, DryRun, StatsOpen,
             StatsWrite,
             FindOpen, FindWrite, mark_as_det_done, TrimUnlink, TrimOpen,
             TrimWrite,
             SaveCrash, ShowStats, Kill
    <3> QED BY <3>2, <3>4
  <2>2. CASE p = q
    <3>1. CASE Check(q)
      BY <1>2, <2>2, <3>1 DEF Check, Inv, Types, Locals
    <3>2. CASE Move(q) \/ Clean(q)
      BY <1>2, <2>2, <3>2 DEF Move, Clean, GivenUp, Inv, Types, Locals
    <3>3. CASE ~(Check(q) \/ Move(q) \/ Clean(q))
      BY <1>2, <2>2, <3>3 DEF Inv, Types, Locals, Step, User, Start,
             MakeOutDir, Lock, CleanCrashes, CleanRest, MakeQueue, MakeState,
             Read,
             Pivot, PivotCopy, PivotMark, nuke_resume_dir, DryRun, StatsOpen,
             StatsWrite, FindOpen, FindWrite, mark_as_det_done, TrimUnlink,
             TrimOpen, TrimWrite, SaveCrash, ShowStats, Kill
    <3> QED BY <3>1, <3>2, <3>3
  <2> QED BY <2>1, <2>2
<1> QED BY <1>1, <1>2 DEF GivenUp

(* Nothing that crashed the target since the last fresh session is lost,   *)
(* in however many resumes, killed wherever.                               *)
THEOREM CrashesOutlive == Spec => []CrashesAreKept
<1>1. Init => CrashInv
  BY DEF Init, CrashInv, GivenUp, CrashesAreKept
<1>2. Inv /\ CrashInv /\ [DirNext]_dirvars => CrashInv'
  <2> SUFFICES ASSUME Inv, CrashInv, [DirNext]_dirvars PROVE CrashInv'
    OBVIOUS
  <2>1. CASE DirNext
    BY <2>1, CrashStep DEF DirNext
  <2>2. CASE UNCHANGED dirvars
    BY <2>2
       DEF dirvars, files, locals, history, CrashInv, GivenUp, CrashesAreKept
  <2> QED BY <2>1, <2>2
<1>3. CrashInv => CrashesAreKept
  BY DEF CrashInv
<1> QED BY <1>1, <1>2, <1>3, Invariance, PTL DEF Spec

-----------------------------------------------------------------------------
(* What the next resume finds                                              *)

Pivoting == {"pivot", "pivot_copy", "pivot_mark"}
Fuzzing  == {"dry", "stats", "stats_write", "fuzz", "find", "trim",
             "trim_write"}
Leaving  == {"last_stats", "last_write"}
Loaded   == Pivoting \cup {"nuke"} \cup Fuzzing

(* The histories the property excepts; they do not end.                    *)
Excepted == "resume" \in torn \/ stale

All(d)  == found \subseteq Kept(d) /\ marked \subseteq KeptMark(d)
Nothing == found = {} /\ marked = {}

(* Files have numbers, and are in a directory that exists.                 *)
IsTidy(d) == DOMAIN d.ent \subseteq Nat /\ (~d.exists => DOMAIN d.ent = {})

(* A session has made its queue/, and its entries have content.            *)
HasDir(p) ==
    /\ pc[p] \notin Before => queue.exists
    /\ pc[p] \in Loaded => \A k \in DOMAIN mem[p] : mem[p][k].case # Cut

Tidy ==
    /\ cases \in Nat /\ IsTidy(queue) /\ IsTidy(resume)
    /\ \A p \in Proc : HasDir(p)

(* The session has all that was found in memory.                           *)
InMem(p) ==
    /\ \A c \in found : \E k \in DOMAIN mem[p] : mem[p][k].case = c
    /\ \A c \in marked :
           \E k \in DOMAIN mem[p] : mem[p][k].case = c /\ mem[p][k].det

(* Where everything is: in _resume/ as long as queue/ is deleted and made  *)
(* again, then in memory as well, and in queue/ once _resume/ is gone.     *)
Safe(p) ==
    /\ \/ pc[p] \in {"clean", "crashes", "rest"} \cup Bare \cup Pivoting
       \/ pc[p] = "make" /\ mode[p] = "resume"
       => All(resume)
    /\ pc[p] = "lock_new" => mode[p] = "fresh"
    /\ mode[p] = "fresh" =>
           /\ pc[p] \in {"move", "clean", "crashes", "rest"} \cup Bare =>
                  Nothing
           /\ pc[p] \in Bare \cup Pivoting => ~resume.exists
    /\ pc[p] \in Loaded => InMem(p)
    /\ pc[p] \in Fuzzing \cup Leaving => ~resume.exists
    /\ pc[p] \in Leaving => All(queue)

ResumeInv ==
    /\ Tidy /\ ResumeFindsAll
    /\ Excepted \/ \A p \in Proc : Safe(p)

LEMMA NewDirIsTidy == IsTidy(NoDir) /\ IsTidy(NewDir) /\ NewDir.exists
<1>1. NewDir.exists
  BY DEF NewDir, NoDir
<1>2. DOMAIN NoDir.ent = {}
  BY EmptySeq DEF NoDir
<1> QED BY <1>1, <1>2, NewDirIsDir DEF IsTidy

LEMMA FileAddedTidy ==
    ASSUME NEW d, IsDir(d), IsTidy(d), d.exists, NEW id \in Nat, NEW case
    PROVE  IsTidy(WithFile(d, id, case)) /\ WithFile(d, id, case).exists
<1>1. WithFile(d, id, case).exists
  BY DEF WithFile, IsDir
<1> QED BY <1>1, FileAdded DEF IsTidy

LEMMA RemovedTidy ==
    ASSUME NEW d, IsDir(d), IsTidy(d), NEW e \in Removals(d)
    PROVE  IsTidy(e)
<1>1. CASE d.marks # {}
  <2>1. PICK k \in d.marks : e = [d EXCEPT !.marks = @ \ {k}]
    BY <1>1 DEF Removals
  <2> QED BY <2>1 DEF IsDir, IsTidy
<1>2. CASE d.marks = {} /\ d.state
  <2>1. e = [d EXCEPT !.state = FALSE]
    BY <1>2 DEF Removals
  <2> QED BY <2>1 DEF IsDir, IsTidy
<1>3. CASE d.marks = {} /\ ~d.state /\ DOMAIN d.ent # {}
  <2>1. PICK gone \in DOMAIN d.ent :
            e = [d EXCEPT !.ent = [k \in DOMAIN d.ent \ {gone} |->
                                      d.ent[k]]]
    BY <1>3 DEF Removals
  <2>2. DOMAIN e.ent = DOMAIN d.ent \ {gone} /\ e.exists = d.exists
    BY <2>1 DEF IsDir
  <2> QED BY <2>2 DEF IsTidy
<1>4. CASE d.marks = {} /\ ~d.state /\ DOMAIN d.ent = {}
  BY <1>4, NewDirIsTidy DEF Removals
<1> QED BY <1>1, <1>2, <1>3, <1>4 DEF IsDir

(* What a step of q has to keep of it.                                     *)
OwnTidy(q) == cases \in Nat /\ IsTidy(queue) /\ IsTidy(resume) /\ HasDir(q)

LEMMA QuietTidy ==
    ASSUME NEW q \in Proc, OwnTidy(q), UNCHANGED <<queue, resume, cases>>,
           pc'[q] \in Before \/ pc[q] \notin Before,
           pc'[q] \in Loaded => pc[q] \in Loaded /\ mem'[q] = mem[q]
    PROVE  OwnTidy(q)'
BY DEF OwnTidy, HasDir, IsTidy

(* A step that changes queue/ but not the entries in memory.               *)
LEMMA WrittenTidy ==
    ASSUME NEW q \in Proc, OwnTidy(q), UNCHANGED <<resume, cases>>,
           IsTidy(queue'), pc'[q] \in Before \/ queue'.exists,
           pc'[q] \in Loaded => pc[q] \in Loaded /\ mem'[q] = mem[q]
    PROVE  OwnTidy(q)'
BY DEF OwnTidy, HasDir, IsTidy

(* The steps that leave queue/ and _resume/ alone.                         *)
LEMMA OutsideTidy ==
    ASSUME NEW q \in Proc, OwnInv(q), OwnTidy(q),
           \/ Start(q) \/ MakeOutDir(q) \/ Lock(q) \/ Check(q)
           \/ CleanCrashes(q) \/ CleanRest(q) \/ DryRun(q) \/ StatsOpen(q)
           \/ StatsWrite(q) \/ SaveCrash(q) \/ ShowStats(q) \/ Kill(q)
    PROVE  OwnTidy(q)'
<1> USE DEF OwnInv, Types, Locals, Queues, Goto, Gone, locals, files, counts,
            Before, Unlocked, Loaded, Pivoting, Fuzzing
<1>1. CASE Start(q)
  BY <1>1, QuietTidy DEF Start
<1>2. CASE MakeOutDir(q)
  BY <1>2, QuietTidy DEF MakeOutDir
<1>3. CASE Lock(q)
  BY <1>3, QuietTidy DEF Lock
<1>4. CASE Check(q)
  BY <1>4, QuietTidy DEF Check
<1>5. CASE CleanCrashes(q)
  BY <1>5, QuietTidy DEF CleanCrashes
<1>6. CASE CleanRest(q)
  BY <1>6, QuietTidy DEF CleanRest
<1>7. CASE DryRun(q)
  BY <1>7, QuietTidy DEF DryRun
<1>8. CASE StatsOpen(q)
  BY <1>8, QuietTidy DEF StatsOpen
<1>9. CASE StatsWrite(q)
  BY <1>9, QuietTidy DEF StatsWrite
<1>10. CASE SaveCrash(q)
  BY <1>10, QuietTidy DEF SaveCrash
<1>11. CASE ShowStats(q)
  BY <1>11, QuietTidy DEF ShowStats
<1>12. CASE Kill(q)
  BY <1>12, QuietTidy DEF Kill
<1> QED BY <1>1, <1>2, <1>3, <1>4, <1>5, <1>6, <1>7, <1>8, <1>9, <1>10,
           <1>11, <1>12

LEMMA CleanupTidy ==
    ASSUME NEW q \in Proc, OwnInv(q), OwnTidy(q),
           \/ Move(q) \/ Clean(q) \/ MakeQueue(q) \/ MakeState(q)
           \/ nuke_resume_dir(q)
    PROVE  OwnTidy(q)'
<1> USE DEF OwnInv, Types, Locals, Queues, Goto, Gone, locals, files, counts,
            Before, Unlocked, Loaded, Pivoting, Fuzzing
<1>1. CASE Move(q)
  <2>1. IsTidy(queue)' /\ IsTidy(resume)'
    BY <1>1, NewDirIsTidy DEF Move, OwnTidy, IsTidy
  <2> QED BY <1>1, <2>1 DEF Move, OwnTidy, HasDir
<1>2. CASE Clean(q)
  <2>1. IsTidy(queue')
    BY <1>2, RemovedTidy DEF Clean, OwnTidy, Dirs
  <2> QED BY <1>2, <2>1, WrittenTidy DEF Clean
<1>3. CASE MakeQueue(q)
  BY <1>3, QuietTidy, WrittenTidy, NewDirIsTidy DEF MakeQueue
<1>4. CASE MakeState(q)
  <2>1. queue.exists /\ IsTidy(queue)
    BY <1>4 DEF MakeState, OwnTidy, HasDir
  <2>2. IsTidy(queue') /\ queue'.exists
    BY <1>4, <2>1 DEF MakeState, IsTidy, Dirs, IsDir
  <2> QED BY <1>4, <2>2, WrittenTidy DEF MakeState
<1>5. CASE nuke_resume_dir(q)
  <2>1. IsTidy(resume')
    BY <1>5, RemovedTidy DEF nuke_resume_dir, OwnTidy, Dirs
  <2>2. /\ UNCHANGED <<queue, cases>> /\ mem'[q] = mem[q]
        /\ pc[q] = "nuke" /\ pc'[q] \in {"nuke", "dry"}
    BY <1>5 DEF nuke_resume_dir
  <2> QED BY <2>1, <2>2 DEF OwnTidy, HasDir, IsTidy
<1> QED BY <1>1, <1>2, <1>3, <1>4, <1>5

LEMMA ImportTidy ==
    ASSUME NEW q \in Proc, OwnInv(q), OwnTidy(q),
           Pivot(q) \/ PivotCopy(q) \/ PivotMark(q)
    PROVE  OwnTidy(q)'
<1> USE DEF Types, Locals, Queues, Goto, locals, counts, Before, Unlocked,
            Loaded, Pivoting, Fuzzing
<1>1. /\ queue.exists /\ IsTidy(queue) /\ IsDir(queue) /\ Types
      /\ Imported(q) \in Nat
  BY DEF Pivot, PivotCopy, PivotMark, OwnTidy, HasDir, OwnInv, OnDisk,
         Importing, Imported, Dirs
<1>2. ASSUME NEW c
      PROVE  LET d == WithFile(queue, Imported(q), c)
             IN  IsTidy(d) /\ d.exists
  BY <1>1, FileAddedTidy
<1>3. CASE Pivot(q)
  BY <1>1, <1>2, <1>3, WrittenTidy DEF Pivot
<1>4. CASE PivotCopy(q)
  BY <1>1, <1>2, <1>4, WrittenTidy DEF PivotCopy
<1>5. CASE PivotMark(q)
  <2>1. IsTidy(queue') /\ queue'.exists
    BY <1>1, <1>5 DEF PivotMark, IsTidy, IsDir
  <2> QED BY <1>1, <1>5, <2>1, WrittenTidy DEF PivotMark
<1> QED BY <1>3, <1>4, <1>5

LEMMA SaveTidy ==
    ASSUME NEW q \in Proc, OwnInv(q), OwnTidy(q),
           \/ FindOpen(q) \/ TrimUnlink(q) \/ TrimOpen(q) \/ TrimWrite(q)
    PROVE  OwnTidy(q)'
<1> USE DEF Types, Locals, Queues, Goto, locals, counts, Before, Unlocked,
            Loaded, Pivoting, Fuzzing
<1>1. /\ queue.exists /\ IsTidy(queue) /\ IsDir(queue) /\ Types
      /\ Len(mem[q]) \in Nat
  BY QueueLength DEF FindOpen, TrimUnlink, TrimOpen, TrimWrite, OwnTidy,
         HasDir, OwnInv, Dirs
<1>2. CASE FindOpen(q)
  BY <1>1, <1>2, FileAddedTidy, WrittenTidy DEF FindOpen
<1>3. CASE TrimUnlink(q)
  <2>1. IsTidy(queue') /\ queue'.exists
    BY <1>1, <1>3 DEF TrimUnlink, IsTidy, IsDir
  <2> QED BY <1>1, <1>3, <2>1, WrittenTidy DEF TrimUnlink
<1>4. pc[q] \in {"trim", "trim_write"} => at[q] - 1 \in Nat
  BY <1>1 DEF OwnInv, OnDisk, Saving
<1>5. CASE TrimOpen(q)
  BY <1>1, <1>4, <1>5, FileAddedTidy, WrittenTidy DEF TrimOpen
<1>6. CASE TrimWrite(q)
  BY <1>1, <1>4, <1>6, FileAddedTidy, WrittenTidy DEF TrimWrite
<1> QED BY <1>2, <1>3, <1>5, <1>6

(* The k-th of a finite set of numbers is there for every k up to its size *)
(* and every member is the k-th for some k.                                *)
LEMMA RankedIsOnto ==
    ASSUME NEW S \in SUBSET Nat, IsFiniteSet(S)
    PROVE  /\ \A k \in 1 .. Cardinality(S) : Ranked(S, k) \in S
           /\ \A n \in S : \E k \in 1 .. Cardinality(S) : Ranked(S, k) = n
<1> DEFINE below(n) == {m \in S : m < n}
           c == Cardinality(S)
           rank == [n \in S |-> Cardinality(below(n)) + 1]
<1>1. c \in Nat
  BY FS_CardinalityType
<1>2. ASSUME NEW n \in S
      PROVE  /\ IsFiniteSet(below(n)) /\ Cardinality(below(n)) \in Nat
             /\ Cardinality(below(n)) < c
  <2>1. below(n) \in SUBSET S /\ below(n) # S
    OBVIOUS
  <2> HIDE DEF below
  <2> QED BY <2>1, FS_Subset, FS_CardinalityType
<1>3. ASSUME NEW n \in S, NEW m \in S, m < n
      PROVE  Cardinality(below(m)) < Cardinality(below(n))
  <2>1. below(m) \in SUBSET below(n) /\ below(m) # below(n)
    <3>1. m \in below(n) /\ m \notin below(m)
      BY <1>3
    <3>2. ASSUME NEW x \in S, x < m
          PROVE  x < n
      BY <1>3, <3>2
    <3>3. below(m) \subseteq below(n)
      BY <3>2
    <3> QED BY <3>1, <3>3
  <2> HIDE DEF below
  <2> QED BY <1>2, <2>1, FS_Subset, FS_CardinalityType
<1> HIDE DEF below
<1>4. ASSUME NEW n \in S, NEW m \in S,
             Cardinality(below(m)) = Cardinality(below(n))
      PROVE  m = n
  <2>1. m < n \/ n < m \/ m = n
    OBVIOUS
  <2> QED BY <1>2, <1>3, <1>4, <2>1
<1>5. ASSUME NEW k \in 1 .. c
      PROVE  \E n \in S : Cardinality(below(n)) = k - 1
  <2> SUFFICES ASSUME \A n \in S : Cardinality(below(n)) # k - 1
               PROVE  FALSE
    OBVIOUS
  <2> DEFINE R == (1 .. c) \ {k}
  <2>1. IsFiniteSet(1 .. c) /\ Cardinality(1 .. c) = c
    BY <1>1, FS_Interval
  <2>2. IsFiniteSet(R) /\ Cardinality(R) = c - 1
    <3> DEFINE I == 1 .. c
    <3>1. k \in I /\ IsFiniteSet(I) /\ Cardinality(I) = c
      BY <2>1
    <3> HIDE DEF I
    <3>2. IsFiniteSet(I \ {k}) /\ Cardinality(I \ {k}) = c - 1
      BY <3>1, FS_RemoveElement
    <3> QED BY <3>2 DEF I
  <2>3. rank \in [S -> R]
    <3>1. ASSUME NEW n \in S
          PROVE  Cardinality(below(n)) + 1 \in R
      BY <1>1, <1>2
    <3> HIDE DEF R
    <3> QED BY <3>1
  <2>4. PICK n \in S, m \in S : n # m /\ rank[n] = rank[m]
    <3> HIDE DEF R, rank
    <3>1. Cardinality(R) < Cardinality(S)
      BY <1>1, <2>2
    <3> QED BY <2>2, <2>3, <3>1, FS_PigeonHole
  <2>5. Cardinality(below(n)) + 1 = Cardinality(below(m)) + 1
    BY <2>4
  <2>6. Cardinality(below(n)) = Cardinality(below(m))
    BY <1>2, <2>5
  <2> QED BY <1>4, <2>4, <2>6
<1>6. ASSUME NEW k
      PROVE  Ranked(S, k) = CHOOSE n \in S : Cardinality(below(n)) = k - 1
  BY DEF Ranked, below
<1>7. ASSUME NEW k \in 1 .. c
      PROVE  Ranked(S, k) \in S
  BY <1>5, <1>6
<1>8. ASSUME NEW n \in S
      PROVE  \E k \in 1 .. c : Ranked(S, k) = n
  <2> DEFINE k == Cardinality(below(n)) + 1
  <2>1. k \in 1 .. c /\ k - 1 = Cardinality(below(n))
    BY <1>1, <1>2
  <2> HIDE DEF k
  <2>2. /\ Ranked(S, k) \in S
        /\ Cardinality(below(Ranked(S, k))) = Cardinality(below(n))
    BY <1>6, <2>1
  <2>3. Ranked(S, k) = n
    BY <1>4, <2>2
  <2> QED BY <2>1, <2>3
<1> QED BY <1>7, <1>8

(* read_testcases skips nothing but files without content.                 *)
LEMMA ScanIsWhole ==
    ASSUME NEW d, IsDir(d), IsTidy(d)
    PROVE  /\ \A k \in DOMAIN Scanned(d) : Scanned(d)[k].case # Cut
           /\ \A c \in Kept(d) :
                  \E k \in DOMAIN Scanned(d) : Scanned(d)[k].case = c
           /\ \A c \in KeptMark(d) :
                  \E k \in DOMAIN Scanned(d) :
                      Scanned(d)[k].case = c /\ Scanned(d)[k].det
<1> DEFINE S == Whole(d)
           q == Scanned(d)
<1>1. S \in SUBSET Nat /\ IsFiniteSet(S)
  <2>1. S \subseteq DOMAIN d.ent
    BY DEF Whole
  <2> QED BY <2>1, FS_Subset DEF IsDir, IsTidy
<1>2. DOMAIN q = 1 .. Cardinality(S)
  BY DEF Scanned
<1>3. ASSUME NEW k \in DOMAIN q
      PROVE  /\ q[k].case = d.ent[Ranked(S, k)]
             /\ q[k].det <=> Ranked(S, k) \in d.marks
  BY <1>2 DEF Scanned
<1> HIDE DEF q
<1>4. \A k \in DOMAIN q : q[k].case # Cut
  <2>1. ASSUME NEW k \in DOMAIN q
        PROVE  q[k].case # Cut
    <3>1. Ranked(S, k) \in S
      BY <1>1, <1>2, RankedIsOnto
    <3> QED BY <1>3, <3>1 DEF Whole
  <2> QED BY <2>1
<1>5. \A c \in Kept(d) : \E k \in DOMAIN q : q[k].case = c
  <2>1. ASSUME NEW id \in S
        PROVE  \E k \in DOMAIN q : q[k].case = d.ent[id]
    <3>1. PICK k \in DOMAIN q : Ranked(S, k) = id
      BY <1>1, <1>2, RankedIsOnto
    <3> QED BY <1>3, <3>1
  <2> QED BY <2>1 DEF Kept
<1>6. \A c \in KeptMark(d) : \E k \in DOMAIN q : q[k].case = c /\ q[k].det
  <2>1. ASSUME NEW id \in S \cap d.marks
        PROVE  \E k \in DOMAIN q : q[k].case = d.ent[id] /\ q[k].det
    <3>1. PICK k \in DOMAIN q : Ranked(S, k) = id
      BY <1>1, <1>2, RankedIsOnto
    <3> QED BY <1>3, <3>1
  <2> QED BY <2>1 DEF KeptMark
<1> QED BY <1>4, <1>5, <1>6 DEF q

LEMMA ReadTidy ==
    ASSUME NEW q \in Proc, OwnInv(q), OwnTidy(q), Read(q)
    PROVE  OwnTidy(q)'
<1> USE DEF OwnInv, Types, Locals, Queues, Goto, Gone, locals, files,
            Before, Unlocked, Loaded, Pivoting, Fuzzing
<1>1. UNCHANGED <<queue, resume>> /\ cases' \in {cases, cases + 1}
  BY DEF Read
<1>2. cases' \in Nat /\ IsTidy(queue)' /\ IsTidy(resume)' /\ queue.exists
  BY <1>1 DEF OwnTidy, HasDir, IsTidy, Read
<1>3. pc'[q] = "off" \/ \A k \in DOMAIN mem'[q] : mem'[q][k].case # Cut
  <2>1. CASE mode[q] = "resume"
    <3>1. pc'[q] = "off" \/ mem'[q] = Scanned(resume)
      BY <2>1 DEF Read
    <3> QED BY <3>1, ScanIsWhole DEF OwnTidy, Dirs
  <2>2. CASE mode[q] # "resume"
    <3>1. mem'[q] = <<[case |-> cases + 1, det |-> FALSE]>>
      BY <2>2 DEF Read
    <3>2. cases + 1 # Cut
      BY DEF OwnTidy, Cut
    <3> QED BY <3>1, <3>2
  <2> QED BY <2>1, <2>2
<1> QED BY <1>1, <1>2, <1>3 DEF OwnTidy, HasDir

LEMMA FindWriteTidy ==
    ASSUME NEW q \in Proc, OwnInv(q), OwnTidy(q), FindWrite(q)
    PROVE  OwnTidy(q)'
<1> USE DEF OwnInv, Types, Locals, Queues, Goto, Before, Unlocked, Loaded,
            Pivoting, Fuzzing
<1> DEFINE e == [case |-> cases', det |-> FALSE]
<1>1. /\ cases' \in Nat /\ cases' # Cut /\ resume' = resume
      /\ queue.exists /\ IsTidy(queue) /\ IsDir(queue)
      /\ Len(mem[q]) \in Nat /\ DOMAIN mem[q] = 1 .. Len(mem[q])
  BY QueueLength DEF FindWrite, OwnTidy, HasDir, Dirs, Cut
<1>2. mem'[q] = Append(mem[q], e) /\ pc'[q] = "fuzz"
  BY DEF FindWrite
<1>3. IsTidy(queue') /\ queue'.exists
  BY <1>1, FileAddedTidy DEF FindWrite
<1>4. IsEntry(e) /\ e.case # Cut
  BY <1>1 DEF IsEntry
<1> HIDE DEF e
<1>5. /\ DOMAIN mem'[q] = 1 .. Len(mem[q]) + 1
      /\ \A k \in 1 .. Len(mem[q]) : mem'[q][k] = mem[q][k]
      /\ mem'[q][Len(mem[q]) + 1] = e
  BY <1>2, <1>4, EntryAppended, QueueLength
<1>6. ASSUME NEW k \in DOMAIN mem'[q]
      PROVE  mem'[q][k].case # Cut
  <2>1. k \in 1 .. Len(mem[q]) \/ k = Len(mem[q]) + 1
    BY <1>1, <1>5
  <2>2. \A j \in DOMAIN mem[q] : mem[q][j].case # Cut
    BY DEF FindWrite, OwnTidy, HasDir
  <2> QED BY <1>1, <1>4, <1>5, <2>1, <2>2
<1> QED BY <1>1, <1>2, <1>3, <1>6 DEF OwnTidy, HasDir, IsTidy

LEMMA MarkTidy ==
    ASSUME NEW q \in Proc, OwnInv(q), OwnTidy(q), mark_as_det_done(q)
    PROVE  OwnTidy(q)'
<1> USE DEF OwnInv, Types, Locals, Queues, Goto, counts, Before, Unlocked,
            Loaded, Pivoting, Fuzzing
<1>1. PICK k \in DOMAIN mem[q] :
          /\ queue' = [queue EXCEPT !.marks = @ \cup {k - 1}]
          /\ mem' = [mem EXCEPT ![q][k] =
                        [case |-> mem[q][k].case, det |-> TRUE]]
  BY DEF mark_as_det_done
<1>2. /\ queue.exists /\ IsTidy(queue) /\ IsDir(queue)
      /\ UNCHANGED <<resume, cases, pc>> /\ pc[q] = "fuzz"
  BY DEF mark_as_det_done, OwnTidy, HasDir, Dirs
<1>3. IsTidy(queue') /\ queue'.exists
  BY <1>1, <1>2 DEF IsTidy, IsDir
<1>4. \A j \in DOMAIN mem[q] : mem[q][j].case # Cut
  BY <1>2 DEF OwnTidy, HasDir
<1>5. /\ DOMAIN mem'[q] = DOMAIN mem[q]
      /\ \A j \in DOMAIN mem[q] : mem'[q][j].case = mem[q][j].case
  BY <1>1
<1>6. \A j \in DOMAIN mem'[q] : mem'[q][j].case # Cut
  BY <1>4, <1>5
<1> QED BY <1>2, <1>3, <1>6 DEF OwnTidy, HasDir, IsTidy

LEMMA OwnTidyStep ==
    ASSUME NEW q \in Proc, OwnInv(q), OwnTidy(q), Step(q) \/ User(q)
    PROVE  OwnTidy(q)'
BY OutsideTidy, CleanupTidy, ImportTidy, SaveTidy, ReadTidy, FindWriteTidy,
   MarkTidy DEF Step, User

LEMMA TidyStep ==
    ASSUME Inv, Tidy, NEW q \in Proc, Step(q) \/ User(q)
    PROVE  Tidy'
<1>1. OwnTidy(q)'
  BY OwnTidyStep DEF Inv, OwnInv, LockHeld, Tidy, OwnTidy
<1>2. ASSUME NEW p \in Proc, p # q
      PROVE  HasDir(p)'
  <2>1. /\ pc'[p] = pc[p] /\ mem'[p] = mem[p]
        /\ pc[p] \notin Unlocked => queue' = queue
    BY <1>2, OthersStay DEF Inv
  <2>2. pc[p] \in Unlocked => pc[p] \in Before /\ pc[p] \notin Loaded
    BY DEF Unlocked, Before, Loaded, Pivoting, Fuzzing
  <2> QED BY <2>1, <2>2 DEF Tidy, HasDir
<1>3. ASSUME NEW p \in Proc
      PROVE  HasDir(p)'
  BY <1>1, <1>2 DEF OwnTidy
<1> QED BY <1>1, <1>3 DEF OwnTidy, Tidy

-----------------------------------------------------------------------------
(* What a step leaves alone                                                *)

(* Who is not past the lock changes nothing of this.                       *)
LEMMA OutsiderKeeps ==
    ASSUME NEW q \in Proc, pc[q] \in Unlocked, Step(q) \/ User(q)
    PROVE  UNCHANGED <<queue, resume, found, marked, torn, stale>>
<1> USE DEF files, history
<1>1. CASE Start(q) \/ MakeOutDir(q) \/ Lock(q)
  BY <1>1 DEF Start, MakeOutDir, Lock
<1>2. CASE Kill(q)
  <2>1. Trimmed(q) = {} /\ pc[q] # "nuke" /\ pc[q] # "clean"
    BY DEF Trimmed, Unlocked
  <2> QED BY <1>2, <2>1 DEF Kill
<1>3. CASE ~(Start(q) \/ MakeOutDir(q) \/ Lock(q) \/ Kill(q))
  BY <1>3 DEF Unlocked, Step, User, Check, Move, Clean, CleanCrashes,
         CleanRest, MakeQueue, MakeState, Read, Pivot, PivotCopy, PivotMark,
         nuke_resume_dir, DryRun, StatsOpen, StatsWrite, FindOpen, FindWrite,
         mark_as_det_done, TrimUnlink, TrimOpen, TrimWrite, SaveCrash,
         ShowStats
<1> QED BY <1>1, <1>2, <1>3

LEMMA ExceptedStays ==
    ASSUME NEW q \in Proc, Step(q) \/ User(q), Excepted
    PROVE  Excepted'
<1> USE DEF files, history, Excepted
<1>1. CASE Kill(q)
  BY <1>1 DEF Kill
<1>2. CASE MakeQueue(q)
  BY <1>2 DEF MakeQueue
<1>3. CASE ~(Kill(q) \/ MakeQueue(q))
  <2>1. UNCHANGED <<torn, stale>>
    BY <1>3 DEF Step, User, Start, MakeOutDir, Lock, Check, Move, Clean,
           CleanCrashes, CleanRest, MakeState, Read, Pivot, PivotCopy,
           PivotMark, nuke_resume_dir, DryRun, StatsOpen, StatsWrite,
           FindOpen, FindWrite, mark_as_det_done, TrimUnlink, TrimOpen,
           TrimWrite, SaveCrash, ShowStats
  <2> QED BY <2>1
<1> QED BY <1>1, <1>2, <1>3

-----------------------------------------------------------------------------
(* What of memory is on disk                                               *)

LEMMA WrittenIsKept ==
    ASSUME NEW q \in Proc, OwnInv(q), OwnTidy(q), pc[q] \in Loaded,
           NEW ids, ids \subseteq DOMAIN queue.ent,
           ids \subseteq 0 .. Len(mem[q]) - 1,
           Written(q, ids), Marked(q, Len(mem[q])),
           NEW k \in DOMAIN mem[q], k - 1 \in ids
    PROVE  /\ mem[q][k].case \in Kept(queue)
           /\ mem[q][k].det => mem[q][k].case \in KeptMark(queue)
<1>1. Len(mem[q]) \in Nat /\ DOMAIN mem[q] = 1 .. Len(mem[q])
  BY QueueLength DEF OwnInv, Types, Queues
<1>2. (k - 1) + 1 = k /\ k - 1 \in 0 .. Len(mem[q]) - 1
  BY <1>1
<1>3. queue.ent[k - 1] = mem[q][k].case /\ mem[q][k].case # Cut
  BY <1>2 DEF Written, OwnTidy, HasDir
<1>4. k - 1 \in Whole(queue)
  BY <1>3 DEF Whole
<1>5. mem[q][k].det => k - 1 \in queue.marks
  BY <1>2 DEF Marked
<1> QED BY <1>3, <1>4, <1>5 DEF Kept, KeptMark

(* But for the case that is being trimmed, queue/ has what memory has.     *)
LEMMA MemoryIsKept ==
    ASSUME NEW q \in Proc, OwnInv(q), OwnTidy(q), InMem(q),
           pc[q] \in Fuzzing \cup {"nuke"}
    PROVE  /\ found \ Trimmed(q) \subseteq Kept(queue)
           /\ marked \ Trimmed(q) \subseteq KeptMark(queue)
<1> DEFINE n == Len(mem[q])
<1>1. n \in Nat /\ DOMAIN mem[q] = 1 .. n /\ at[q] \in Int
  BY QueueLength DEF OwnInv, Types, Queues, Locals
<1>2. pc[q] \in Loaded
  BY DEF Loaded
<1>3. ASSUME NEW k \in DOMAIN mem[q], mem[q][k].case \notin Trimmed(q)
      PROVE  /\ mem[q][k].case \in Kept(queue)
             /\ mem[q][k].det => mem[q][k].case \in KeptMark(queue)
  <2>1. CASE pc[q] \in Settled \cup {"find"}
    <3>1. /\ 0 .. n - 1 \subseteq DOMAIN queue.ent
          /\ Written(q, 0 .. n - 1) /\ Marked(q, n)
      BY <1>1, <2>1 DEF OwnInv, OnDisk, Saving, Files
    <3>2. k - 1 \in 0 .. n - 1
      BY <1>1
    <3> QED BY <1>2, <3>1, <3>2, WrittenIsKept
  <2>2. CASE pc[q] \in {"trim", "trim_write"}
    <3> DEFINE ids == (0 .. n - 1) \ {at[q] - 1}
    <3>1. ids \subseteq DOMAIN queue.ent /\ Written(q, ids) /\ Marked(q, n)
      BY <1>1, <2>2 DEF OwnInv, OnDisk, Saving, Files
    <3>2. k # at[q]
      BY <1>3, <2>2 DEF Trimmed
    <3>3. k - 1 \in ids /\ ids \subseteq 0 .. n - 1
      BY <1>1, <3>2
    <3> HIDE DEF ids
    <3> QED BY <1>2, <3>1, <3>3, WrittenIsKept
  <2> QED BY <2>1, <2>2 DEF Fuzzing, Settled
<1>4. ASSUME NEW c \in found \ Trimmed(q)
      PROVE  c \in Kept(queue)
  <2>1. PICK k \in DOMAIN mem[q] : mem[q][k].case = c
    BY DEF InMem
  <2> QED BY <1>3, <2>1
<1>5. ASSUME NEW c \in marked \ Trimmed(q)
      PROVE  c \in KeptMark(queue)
  <2>1. PICK k \in DOMAIN mem[q] : mem[q][k].case = c /\ mem[q][k].det
    BY DEF InMem
  <2> QED BY <1>3, <2>1
<1> QED BY <1>4, <1>5

(* With no session that trims or deletes _resume/, nothing is excepted.    *)
LEMMA HolderFinds ==
    ASSUME Inv, ResumeFindsAll, ~Excepted, NEW q \in Proc,
           pc[q] \notin Unlocked \cup {"nuke", "trim", "trim_write"}
    PROVE  All(NextInput)
<1>1. ASSUME NEW p \in Proc
      PROVE  pc[p] # "nuke" /\ Trimmed(p) = {}
  BY DEF Inv, LockHeld, Unlocked, Trimmed
<1>2. Trimming = {}
  BY <1>1 DEF Trimming
<1> QED BY <1>1, <1>2 DEF ResumeFindsAll, Excepted, All

LEMMA NothingIsAll ==
    ASSUME NEW d, Nothing
    PROVE  All(d)
BY DEF Nothing, All

LEMMA NoFiles ==
    ASSUME NEW d, DOMAIN d.ent = {}, All(d)
    PROVE  Nothing
BY DEF All, Kept, KeptMark, Whole, Nothing

-----------------------------------------------------------------------------
(* The steps of a session keep everything safe                             *)

(* Nothing is claimed of these phases.                                     *)
LEMMA Unclaimed ==
    ASSUME NEW q \in Proc,
           \/ pc'[q] \in {"off", "mkdir", "lock_old", "check"}
           \/ pc'[q] \in {"lock_new", "make"} /\ mode'[q] = "fresh"
    PROVE  Safe(q)'
BY DEF Safe, Bare, Pivoting, Fuzzing, Leaving, Loaded

(* A step within a group of phases of which the same is claimed, or less.  *)
LEMMA QuietSafe ==
    ASSUME NEW q \in Proc, Safe(q),
           UNCHANGED <<resume, found, marked>>, mode'[q] = mode[q],
           mem'[q] = mem[q] \/ pc'[q] \notin Loaded,
           \/ /\ pc[q] \in {"clean", "crashes"}
              /\ pc'[q] \in {"clean", "crashes", "rest"}
           \/ /\ pc[q] \in Pivoting /\ pc'[q] \in Pivoting
           \/ /\ pc[q] \in Fuzzing /\ pc'[q] \in Fuzzing
           \/ /\ pc[q] \in Leaving /\ pc'[q] \in Leaving
              /\ queue' = queue
    PROVE  Safe(q)'
BY DEF Safe, Bare, Pivoting, Fuzzing, Leaving, Loaded, InMem, All, Nothing,
       Kept, KeptMark, Whole

LEMMA OutsideSafe ==
    ASSUME NEW q \in Proc, OwnInv(q), Safe(q), ~Excepted',
           \/ Start(q) \/ MakeOutDir(q) \/ Lock(q) \/ Check(q)
           \/ Kill(q)
    PROVE  Safe(q)'
<1> USE DEF OwnInv, Types, Locals, Goto, Gone, locals, history
<1>1. CASE Start(q)
  BY <1>1, Unclaimed DEF Start
<1>2. CASE MakeOutDir(q)
  BY <1>2, Unclaimed DEF MakeOutDir
<1>3. CASE Lock(q)
  <2>1. pc[q] = "lock_new" => mode[q] = "fresh"
    BY DEF Safe
  <2> QED BY <1>3, <2>1, Unclaimed DEF Lock
<1>4. CASE Check(q)
  <2>1. CASE pc'[q] = "off"
    BY <2>1, Unclaimed
  <2>2. CASE pc'[q] # "off"
    <3>1. /\ pc'[q] = "move" /\ mode'[q] = mode[q]
          /\ mode[q] = "fresh" => Nothing'
      BY <1>4, <2>2 DEF Check, Nothing
    <3> QED BY <3>1 DEF Safe, Bare, Pivoting, Fuzzing, Leaving, Loaded
  <2> QED BY <2>1, <2>2
<1>5. CASE Kill(q)
  BY <1>5, Unclaimed DEF Kill
<1> QED BY <1>1, <1>2, <1>3, <1>4, <1>5

(* The rename: what the next resume would have read is in _resume/ now.    *)
LEMMA MoveSafe ==
    ASSUME NEW q \in Proc, Inv, Tidy, ResumeFindsAll, ~Excepted, Safe(q),
           Move(q)
    PROVE  Safe(q)'
<1>1. /\ pc[q] = "move" /\ pc'[q] = "clean"
      /\ UNCHANGED <<mode, found, marked>>
  BY DEF Move, Goto, locals, history, Inv, Types, Locals
<1>2. All(NextInput)
  BY <1>1, HolderFinds DEF Unlocked
<1>3. mode[q] = "fresh" => Nothing'
  BY <1>1 DEF Safe, Nothing
<1>4. All(resume)'
  <2>1. CASE mode[q] = "fresh"
    BY <1>3, <2>1 DEF All, Nothing
  <2>2. CASE mode[q] = "resume" /\ Movable
    <3>1. NextInput = queue /\ resume' = queue
      BY <2>2 DEF Movable, NextInput, Move
    <3> QED BY <1>1, <1>2, <3>1 DEF All, Kept, KeptMark, Whole
  <2>3. CASE mode[q] = "resume" /\ ~Movable
    <3>1. resume' = resume
      BY <2>3 DEF Move
    <3>2. All(resume)
      <4>1. CASE NextInput = resume
        BY <1>2, <4>1
      <4>2. CASE NextInput # resume
        <5>1. NextInput = queue /\ ~queue.exists
          BY <2>3, <4>2 DEF NextInput, Movable
        <5>2. DOMAIN queue.ent = {}
          BY <5>1 DEF Tidy, IsTidy
        <5> QED BY <1>2, <5>1, <5>2, NoFiles, NothingIsAll
      <4> QED BY <4>1, <4>2
    <3> QED BY <1>1, <3>1, <3>2 DEF All, Kept, KeptMark, Whole
  <2> QED BY <2>1, <2>2, <2>3 DEF Inv, Types, Locals
<1> QED BY <1>1, <1>3, <1>4
        DEF Safe, Bare, Pivoting, Fuzzing, Leaving, Loaded

LEMMA CleanSafe ==
    ASSUME NEW q \in Proc, OwnInv(q), Safe(q),
           Clean(q) \/ CleanCrashes(q) \/ CleanRest(q)
    PROVE  Safe(q)'
<1> USE DEF OwnInv, Types, Locals, Goto, locals, history
<1>1. CASE Clean(q)
  BY <1>1, QuietSafe DEF Clean, Loaded, Pivoting, Fuzzing
<1>2. CASE CleanCrashes(q)
  BY <1>2, QuietSafe DEF CleanCrashes, Loaded, Pivoting, Fuzzing
<1>3. CASE CleanRest(q)
  <2>1. /\ pc[q] = "rest" /\ pc'[q] = "make"
        /\ UNCHANGED <<resume, mode, found, marked>>
    BY <1>3 DEF CleanRest
  <2>2. All(resume)'
    BY <2>1 DEF Safe, All, Kept, KeptMark, Whole
  <2> QED BY <2>1, <2>2 DEF Safe, Bare, Pivoting, Fuzzing, Leaving, Loaded
<1> QED BY <1>1, <1>2, <1>3

(* A fresh session that goes on has found no _resume/; and the process     *)
(* that has made the directory found no queue/ of another's.               *)
LEMMA MakeQueueSafe ==
    ASSUME NEW q \in Proc, Inv, Tidy, ResumeFindsAll, ~Excepted, ~Excepted',
           Safe(q), MakeQueue(q)
    PROVE  Safe(q)'
<1> USE DEF Inv, Types, Locals, Goto, Gone, locals
<1>1. CASE queue.exists
  BY <1>1, Unclaimed DEF MakeQueue
<1>2. CASE ~queue.exists
  <2>1. /\ pc[q] = "make" /\ pc'[q] = "make_state"
        /\ UNCHANGED <<resume, mode, found, marked>>
    BY <1>2 DEF MakeQueue
  <2>2. All(NextInput)
    BY <2>1, HolderFinds DEF Unlocked
  <2>3. ASSUME mode[q] = "fresh"
        PROVE  ~resume.exists /\ Nothing
    <3>1. ~resume.exists
      BY <2>3 DEF MakeQueue, Excepted
    <3>2. NextInput = queue /\ DOMAIN queue.ent = {}
      BY <1>2, <3>1 DEF NextInput, Tidy, IsTidy
    <3> QED BY <2>2, <3>1, <3>2, NoFiles
  <2>4. All(resume)
    BY <2>1, <2>3, NothingIsAll DEF Safe
  <2> QED BY <2>1, <2>3, <2>4
          DEF Safe, Bare, Pivoting, Fuzzing, Leaving, Loaded, All, Kept,
              KeptMark, Whole, Nothing
<1> QED BY <1>1, <1>2

LEMMA MakeStateSafe ==
    ASSUME NEW q \in Proc, OwnInv(q), Safe(q), MakeState(q)
    PROVE  Safe(q)'
<1>1. /\ pc[q] = "make_state" /\ pc'[q] = "read"
      /\ UNCHANGED <<resume, mode, found, marked>>
  BY DEF MakeState, OwnInv, Types, Locals, Goto, locals, history
<1> QED BY <1>1 DEF Safe, Bare, Pivoting, Fuzzing, Leaving, Loaded, All, Kept,
           KeptMark, Whole, Nothing

(* read_testcases takes everything into memory.                            *)
LEMMA ReadSafe ==
    ASSUME NEW q \in Proc, OwnInv(q), OwnTidy(q), Safe(q), Read(q)
    PROVE  Safe(q)'
<1> USE DEF OwnInv, Types, Locals, Queues, Goto, Gone, locals, files, history
<1>1. CASE pc'[q] = "off"
  BY <1>1, Unclaimed
<1>2. CASE pc'[q] # "off"
  <2>1. /\ pc[q] = "read" /\ pc'[q] = "pivot"
        /\ UNCHANGED <<resume, mode, found, marked>>
    BY <1>2 DEF Read
  <2>2. All(resume) /\ (mode[q] = "fresh" => Nothing /\ ~resume.exists)
    BY <2>1 DEF Safe, Bare
  <2>3. InMem(q)'
    <3>1. CASE mode[q] = "resume"
      <4>1. mem'[q] = Scanned(resume)
        BY <2>1, <3>1 DEF Read
      <4>2. /\ \A c \in found :
                   \E k \in DOMAIN Scanned(resume) :
                       Scanned(resume)[k].case = c
            /\ \A c \in marked :
                   \E k \in DOMAIN Scanned(resume) :
                       Scanned(resume)[k].case = c /\ Scanned(resume)[k].det
        BY <2>2, ScanIsWhole DEF OwnTidy, Dirs, All
      <4> QED BY <2>1, <4>1, <4>2 DEF InMem
    <3>2. CASE mode[q] = "fresh"
      BY <2>1, <2>2, <3>2 DEF InMem, Nothing
    <3> QED BY <3>1, <3>2
  <2> QED BY <2>1, <2>2, <2>3
          DEF Safe, Bare, Pivoting, Fuzzing, Leaving, Loaded, All, Kept,
              KeptMark, Whole
<1> QED BY <1>1, <1>2

LEMMA ImportSafe ==
    ASSUME NEW q \in Proc, OwnInv(q), Safe(q),
           Pivot(q) \/ PivotCopy(q) \/ PivotMark(q)
    PROVE  Safe(q)'
<1> USE DEF OwnInv, Types, Locals, Goto, locals, history
<1>1. CASE PivotCopy(q)
  BY <1>1, QuietSafe DEF PivotCopy, Pivoting
<1>2. CASE PivotMark(q)
  BY <1>2, QuietSafe DEF PivotMark, Pivoting
<1>3. CASE Pivot(q)
  <2>1. /\ pc[q] = "pivot"
        /\ UNCHANGED <<resume, mode, mem, found, marked>>
    BY <1>3 DEF Pivot
  <2>2. CASE pc'[q] \in Pivoting
    BY <2>1, <2>2, QuietSafe DEF Pivoting
  <2>3. CASE pc'[q] \notin Pivoting
    <3>1. \/ pc'[q] = "nuke" /\ mode[q] = "resume"
          \/ pc'[q] = "dry" /\ mode[q] = "fresh"
      BY <1>3, <2>3 DEF Pivot, Pivoting
    <3>2. InMem(q)'
      BY <2>1 DEF Safe, InMem, Loaded, Pivoting
    <3>3. mode[q] = "fresh" => ~resume'.exists
      BY <2>1 DEF Safe, Pivoting
    <3> QED BY <2>1, <3>1, <3>2, <3>3
            DEF Safe, Bare, Pivoting, Fuzzing, Leaving
  <2> QED BY <2>2, <2>3
<1> QED BY <1>1, <1>2, <1>3

LEMMA NukeSafe ==
    ASSUME NEW q \in Proc, OwnInv(q), Safe(q), nuke_resume_dir(q)
    PROVE  Safe(q)'
<1>1. /\ pc[q] = "nuke" /\ UNCHANGED <<mode, mem, found, marked>>
      /\ \/ pc'[q] = "nuke"
         \/ pc'[q] = "dry" /\ ~resume'.exists
  BY DEF nuke_resume_dir, OwnInv, Types, Locals, Goto, locals, history
<1>2. InMem(q)'
  BY <1>1 DEF Safe, InMem, Loaded
<1> QED BY <1>1, <1>2 DEF Safe, Bare, Pivoting, Fuzzing, Leaving

(* The steps that change neither memory nor what is to be found.           *)
LEMMA WorkSafe ==
    ASSUME NEW q \in Proc, OwnInv(q), OwnTidy(q), Safe(q),
           \/ DryRun(q) \/ StatsOpen(q) \/ StatsWrite(q) \/ FindOpen(q)
           \/ TrimUnlink(q) \/ TrimOpen(q) \/ TrimWrite(q) \/ SaveCrash(q)
           \/ ShowStats(q)
    PROVE  Safe(q)'
<1> USE DEF Types, Locals, Goto, Gone, locals, files, history,
            Fuzzing, Leaving, Loaded, Pivoting
<1>0. Types
  BY DEF OwnInv
<1>1. CASE DryRun(q)
  BY <1>0, <1>1, QuietSafe DEF DryRun
<1>2. CASE StatsOpen(q)
  BY <1>0, <1>2, QuietSafe DEF StatsOpen
<1>3. CASE StatsWrite(q)
  <2>1. CASE pc'[q] = "off"
    BY <2>1, Unclaimed
  <2>2. CASE pc'[q] # "off"
    BY <1>0, <1>3, <2>2, QuietSafe DEF StatsWrite
  <2> QED BY <2>1, <2>2
<1>4. CASE FindOpen(q)
  BY <1>0, <1>4, QuietSafe DEF FindOpen
<1>5. CASE TrimUnlink(q)
  BY <1>0, <1>5, QuietSafe DEF TrimUnlink
<1>6. CASE TrimOpen(q)
  BY <1>0, <1>6, QuietSafe DEF TrimOpen
<1>7. CASE TrimWrite(q)
  BY <1>0, <1>7, QuietSafe DEF TrimWrite
<1>8. CASE SaveCrash(q)
  BY <1>0, <1>8, QuietSafe DEF SaveCrash
<1>9. CASE ShowStats(q)
  <2>1. /\ pc[q] = "fuzz" /\ pc'[q] \in {"stats", "last_stats"}
        /\ UNCHANGED <<queue, resume, mode, mem, found, marked>>
    BY <1>0, <1>9 DEF ShowStats
  <2>2. CASE pc'[q] = "stats"
    BY <2>1, <2>2, QuietSafe
  <2>3. CASE pc'[q] = "last_stats"
    <3>1. Trimmed(q) = {} /\ InMem(q) /\ ~resume.exists
      BY <2>1 DEF Trimmed, Safe
    <3>2. All(queue)
      BY <2>1, <3>1, MemoryIsKept DEF All
    <3>3. All(queue)'
      BY <2>1, <3>2 DEF All, Kept, KeptMark, Whole
    <3> QED BY <2>1, <2>3, <3>1, <3>3 DEF Safe, Bare
  <2> QED BY <2>1, <2>2, <2>3
<1> QED BY <1>1, <1>2, <1>3, <1>4, <1>5, <1>6, <1>7, <1>8, <1>9

(* A find is in memory, too.                                               *)
LEMMA FindSafe ==
    ASSUME NEW q \in Proc, OwnInv(q), Safe(q), FindWrite(q)
    PROVE  Safe(q)'
<1> DEFINE e == [case |-> cases', det |-> FALSE]
<1>1. /\ pc[q] = "find" /\ pc'[q] = "fuzz" /\ mem'[q] = Append(mem[q], e)
      /\ UNCHANGED <<resume, mode, marked>> /\ found' = found \cup {cases'}
  BY DEF FindWrite, OwnInv, Types, Locals, Queues, Goto
<1>2. IsQueue(mem[q]) /\ IsEntry(e) /\ e.case = cases'
  BY DEF OwnInv, Types, Queues, IsEntry
<1> HIDE DEF e
<1>3. Len(mem[q]) \in Nat /\ DOMAIN mem[q] = 1 .. Len(mem[q])
  BY <1>2, QueueLength
<1>4. /\ Len(mem'[q]) = Len(mem[q]) + 1 /\ IsQueue(mem'[q])
      /\ \A k \in 1 .. Len(mem[q]) : mem'[q][k] = mem[q][k]
      /\ mem'[q][Len(mem[q]) + 1] = e
  BY <1>1, <1>2, EntryAppended
<1>5. DOMAIN mem'[q] = 1 .. Len(mem[q]) + 1
  BY <1>4, QueueLength
<1>6. InMem(q)
  BY <1>1 DEF Safe, Loaded, Fuzzing
<1>7. ASSUME NEW c \in found'
      PROVE  \E k \in DOMAIN mem'[q] : mem'[q][k].case = c
  <2>1. CASE c = cases'
    BY <1>2, <1>3, <1>4, <1>5, <2>1
  <2>2. CASE c \in found
    <3>1. PICK k \in DOMAIN mem[q] : mem[q][k].case = c
      BY <1>6, <2>2 DEF InMem
    <3> QED BY <1>3, <1>4, <1>5, <3>1
  <2> QED BY <1>1, <2>1, <2>2
<1>8. ASSUME NEW c \in marked'
      PROVE  \E k \in DOMAIN mem'[q] :
                 mem'[q][k].case = c /\ mem'[q][k].det
  <2>1. PICK k \in DOMAIN mem[q] : mem[q][k].case = c /\ mem[q][k].det
    BY <1>1, <1>6 DEF InMem
  <2> QED BY <1>3, <1>4, <1>5, <2>1
<1>9. InMem(q)'
  BY <1>7, <1>8 DEF InMem
<1> QED BY <1>1, <1>9 DEF Safe, Bare, Pivoting, Fuzzing, Leaving

LEMMA MarkSafe ==
    ASSUME NEW q \in Proc, OwnInv(q), Safe(q), mark_as_det_done(q)
    PROVE  Safe(q)'
<1>1. PICK k \in DOMAIN mem[q] :
          /\ mem' = [mem EXCEPT ![q][k] =
                        [case |-> mem[q][k].case, det |-> TRUE]]
          /\ marked' = marked \cup {mem[q][k].case}
  BY DEF mark_as_det_done
<1>2. /\ pc[q] = "fuzz" /\ pc'[q] = "fuzz"
      /\ UNCHANGED <<resume, mode, found>>
  BY DEF mark_as_det_done
<1> DEFINE e == [case |-> mem[q][k].case, det |-> TRUE]
<1>3. /\ IsQueue(mem[q]) /\ mem'[q] = [mem[q] EXCEPT ![k] = e]
      /\ e.case = mem[q][k].case /\ e.det = TRUE /\ IsEntry(e)
  BY <1>1 DEF OwnInv, Types, Queues, IsEntry
<1> HIDE DEF e
<1>4. /\ DOMAIN mem'[q] = DOMAIN mem[q]
      /\ \A j \in DOMAIN mem[q] :
             /\ mem'[q][j].case = mem[q][j].case
             /\ mem'[q][j].det <=> (j = k \/ mem[q][j].det)
  BY <1>3, EntryMarked, QueueLength
<1>5. InMem(q)
  BY <1>2 DEF Safe, Loaded, Fuzzing
<1>6. ASSUME NEW c \in found'
      PROVE  \E j \in DOMAIN mem'[q] : mem'[q][j].case = c
  BY <1>2, <1>4, <1>5 DEF InMem
<1>7. ASSUME NEW c \in marked'
      PROVE  \E j \in DOMAIN mem'[q] :
                 mem'[q][j].case = c /\ mem'[q][j].det
  <2>1. CASE c = mem[q][k].case
    BY <1>4, <2>1
  <2>2. CASE c \in marked
    <3>1. PICK j \in DOMAIN mem[q] : mem[q][j].case = c /\ mem[q][j].det
      BY <1>5, <2>2 DEF InMem
    <3> QED BY <1>4, <3>1
  <2> QED BY <1>1, <2>1, <2>2
<1>8. InMem(q)'
  BY <1>6, <1>7 DEF InMem
<1> QED BY <1>2, <1>8 DEF Safe, Bare, Pivoting, Fuzzing, Leaving

LEMMA OwnSafeStep ==
    ASSUME Inv, Tidy, ResumeFindsAll, ~Excepted, ~Excepted',
           NEW q \in Proc, Safe(q), Step(q) \/ User(q)
    PROVE  Safe(q)'
<1>1. OwnInv(q) /\ OwnTidy(q)
  BY DEF Inv, OwnInv, LockHeld, Tidy, OwnTidy
<1> QED BY <1>1, OutsideSafe, MoveSafe, CleanSafe, MakeQueueSafe,
           MakeStateSafe, ReadSafe, ImportSafe, NukeSafe, WorkSafe, FindSafe,
           MarkSafe DEF Step, User

LEMMA SafeStep ==
    ASSUME Inv, Tidy, ResumeFindsAll, ~Excepted, ~Excepted',
           \A p \in Proc : Safe(p), NEW q \in Proc, Step(q) \/ User(q)
    PROVE  \A p \in Proc : Safe(p)'
<1>1. Safe(q)'
  BY OwnSafeStep
<1>2. ASSUME NEW p \in Proc, p # q
      PROVE  Safe(p)'
  <2>1. pc'[p] = pc[p] /\ mem'[p] = mem[p] /\ mode'[p] = mode[p]
    BY <1>2, OthersStay DEF Inv
  <2>2. Safe(p)
    OBVIOUS
  <2>3. CASE pc[p] \in Unlocked
    BY <2>1, <2>2, <2>3
       DEF Safe, Bare, Pivoting, Fuzzing, Leaving, Loaded, Unlocked
  <2>4. CASE pc[p] \notin Unlocked
    <3>1. pc[q] \in Unlocked
      BY <1>2, <2>4 DEF Inv, LockHeld
    <3>2. UNCHANGED <<queue, resume, found, marked>>
      BY <3>1, OutsiderKeeps
    <3>3. /\ All(queue)' <=> All(queue)
          /\ All(resume)' <=> All(resume)
          /\ Nothing' <=> Nothing
          /\ InMem(p)' <=> InMem(p)
      BY <2>1, <3>2 DEF All, Nothing, InMem, Kept, KeptMark, Whole
    <3> QED BY <2>1, <2>2, <3>2, <3>3 DEF Safe
  <2> QED BY <2>3, <2>4
<1> QED BY <1>1, <1>2

-----------------------------------------------------------------------------
(* ResumeFindsAll                                                          *)

(* A session is where Safe says where everything is.                       *)
Working ==
    \E p \in Proc :
        pc[p] \in {"clean", "crashes", "rest", "nuke"} \cup Bare
                      \cup Pivoting \cup Fuzzing \cup Leaving

AllSafe == Excepted \/ \A p \in Proc : Safe(p)

LEMMA WorkingFinds ==
    Inv /\ Tidy /\ AllSafe /\ Working => ResumeFindsAll
<1> SUFFICES ASSUME Inv, Tidy, AllSafe, Working, ~Excepted
             PROVE  ResumeFindsAll
  BY DEF ResumeFindsAll, Excepted
<1>1. PICK q \in Proc :
          pc[q] \in {"clean", "crashes", "rest", "nuke"} \cup Bare
                        \cup Pivoting \cup Fuzzing \cup Leaving
  BY DEF Working
<1>2. Safe(q) /\ OwnInv(q) /\ OwnTidy(q)
  BY DEF AllSafe, Inv, OwnInv, LockHeld, Tidy, OwnTidy
<1>3. CASE pc[q] = "nuke"
  BY <1>3 DEF ResumeFindsAll
<1>4. CASE All(NextInput)
  BY <1>4 DEF ResumeFindsAll, All
<1>5. CASE pc[q] \in {"clean", "crashes", "rest"} \cup Bare \cup Pivoting
  <2>1. All(resume)
    BY <1>2, <1>5 DEF Safe
  <2>2. CASE NextInput = resume
    BY <1>4, <2>1, <2>2
  <2>3. CASE NextInput # resume
    <3>1. DOMAIN resume.ent = {}
      BY <2>3 DEF NextInput, Empty, Tidy, IsTidy
    <3> QED BY <1>4, <2>1, <3>1, NoFiles, NothingIsAll
  <2> QED BY <2>2, <2>3
<1>6. CASE pc[q] \in Leaving
  <2>1. NextInput = queue /\ All(queue)
    BY <1>2, <1>6 DEF Safe, NextInput
  <2> QED BY <1>4, <2>1
<1>7. CASE pc[q] \in Fuzzing
  <2>1. NextInput = queue /\ InMem(q)
    BY <1>2, <1>7 DEF Safe, NextInput, Loaded
  <2>2. /\ found \ Trimmed(q) \subseteq Kept(queue)
        /\ marked \ Trimmed(q) \subseteq KeptMark(queue)
    BY <1>2, <1>7, <2>1, MemoryIsKept
  <2>3. Trimmed(q) \subseteq Trimming
    BY DEF Trimming
  <2> QED BY <2>1, <2>2, <2>3 DEF ResumeFindsAll
<1> QED BY <1>1, <1>3, <1>5, <1>6, <1>7

(* The other phases, and the kills that lead to them.                      *)
LEMMA IdleFinds ==
    ASSUME Inv, Tidy, AllSafe, ResumeFindsAll, NEW q \in Proc,
           Step(q) \/ User(q), ~Working', ~Excepted'
    PROVE  ResumeFindsAll'
<1> DEFINE Idle == Unlocked \cup {"check", "move", "make"}
<1>0. ~Excepted /\ Safe(q) /\ OwnInv(q) /\ OwnTidy(q)
  BY ExceptedStays
     DEF AllSafe, Inv, OwnInv, LockHeld, Tidy, OwnTidy
<1>1. pc'[q] \notin {"clean", "crashes", "rest", "nuke"} \cup Bare
                        \cup Pivoting \cup Fuzzing \cup Leaving
  BY DEF Working
<1>2. ASSUME NEW p \in Proc, p # q
      PROVE  pc[p] # "nuke" /\ Trimmed(p) = {} /\ Trimmed(p)' = {}
  <2>1. pc'[p] = pc[p]
    BY <1>2, OthersStay DEF Inv
  <2>2. pc'[p] \notin {"nuke", "trim", "trim_write"}
    BY DEF Working, Fuzzing
  <2> QED BY <2>1, <2>2 DEF Trimmed
<1>3. Trimming = Trimmed(q)
  BY <1>2 DEF Trimming
<1>4. \/ Start(q) \/ MakeOutDir(q) \/ Lock(q) \/ Check(q) \/ CleanRest(q)
      \/ MakeQueue(q) \/ Read(q) \/ StatsWrite(q) \/ Kill(q)
  <2> USE DEF Types, Locals, Goto, locals, Bare, Pivoting, Fuzzing, Leaving
  <2>0. Types
    BY DEF Inv
  <2>1. ~(Move(q) \/ Clean(q) \/ CleanCrashes(q) \/ MakeState(q))
    BY <1>1, <2>0 DEF Move, Clean, CleanCrashes, MakeState
  <2>2. ~(Pivot(q) \/ PivotCopy(q) \/ PivotMark(q) \/ nuke_resume_dir(q))
    BY <1>1, <2>0 DEF Pivot, PivotCopy, PivotMark, nuke_resume_dir
  <2>3. ~(DryRun(q) \/ StatsOpen(q) \/ FindOpen(q) \/ FindWrite(q))
    BY <1>1, <2>0 DEF DryRun, StatsOpen, FindOpen, FindWrite
  <2>4. ~(mark_as_det_done(q) \/ TrimUnlink(q) \/ TrimOpen(q)
            \/ TrimWrite(q) \/ SaveCrash(q) \/ ShowStats(q))
    BY <1>1, <2>0 DEF mark_as_det_done, TrimUnlink, TrimOpen, TrimWrite,
           SaveCrash, ShowStats
  <2> QED BY <2>1, <2>2, <2>3, <2>4 DEF Step, User
<1>5. /\ UNCHANGED <<queue, resume>>
      /\ found' \subseteq found \ Trimmed(q)
      /\ marked' \subseteq marked \ Trimmed(q)
  <2> USE DEF files, history
  <2>1. CASE Kill(q)
    BY <2>1 DEF Kill
  <2>2. ASSUME ~Kill(q) PROVE Trimmed(q) = {}
    BY <1>4, <2>2 DEF Start, MakeOutDir, Lock, Check, CleanRest, MakeQueue,
           Read, StatsWrite, Trimmed
  <2>3. CASE MakeQueue(q)
    <3>1. queue.exists
      BY <1>1, <2>3 DEF MakeQueue, Goto, Bare, Inv, Types, Locals
    <3> QED BY <2>1, <2>2, <2>3, <3>1 DEF MakeQueue
  <2>4. CASE Start(q) \/ MakeOutDir(q) \/ Lock(q) \/ Check(q) \/ CleanRest(q)
               \/ Read(q) \/ StatsWrite(q)
    <3>1. UNCHANGED <<queue, resume>>
      BY <2>4 DEF Start, MakeOutDir, Lock, Check, CleanRest, Read, StatsWrite
    <3>2. found' \subseteq found /\ marked' \subseteq marked
      BY <2>4 DEF Start, MakeOutDir, Lock, Check, CleanRest, Read, StatsWrite
    <3> QED BY <2>1, <2>2, <3>1, <3>2
  <2> QED BY <1>4, <2>1, <2>3, <2>4
<1>6. /\ found \ Trimmed(q) \subseteq Kept(NextInput)
      /\ marked \ Trimmed(q) \subseteq KeptMark(NextInput)
  <2>1. CASE pc[q] # "nuke"
    <3>1. ~\E p \in Proc : pc[p] = "nuke"
      BY <1>2, <2>1
    <3> QED BY <1>0, <1>3, <3>1 DEF ResumeFindsAll, Excepted
  <2>2. CASE pc[q] = "nuke"
    <3>1. Kill(q)
      BY <1>4, <2>2 DEF Start, MakeOutDir, Lock, Check, CleanRest, MakeQueue,
             Read, StatsWrite
    <3>2. ~resume.exists
      BY <2>2, <3>1 DEF Kill, Excepted
    <3>3. NextInput = queue /\ InMem(q)
      BY <1>0, <2>2, <3>2 DEF NextInput, Safe, Loaded
    <3> QED BY <1>0, <2>2, <3>3, MemoryIsKept
  <2> QED BY <2>1, <2>2
<1>7. /\ found' \subseteq Kept(NextInput)'
      /\ marked' \subseteq KeptMark(NextInput)'
  <2>1. /\ Kept(NextInput)' = Kept(NextInput)
        /\ KeptMark(NextInput)' = KeptMark(NextInput)
    BY <1>5 DEF NextInput, Kept, KeptMark, Whole, Empty
  <2> QED BY <1>5, <1>6, <2>1
<1> QED BY <1>7 DEF ResumeFindsAll

LEMMA ResumeStep ==
    ASSUME Inv, Tidy, AllSafe, ResumeFindsAll, NEW q \in Proc,
           Step(q) \/ User(q)
    PROVE  Tidy' /\ AllSafe' /\ (Working' \/ ResumeFindsAll')
<1>1. Tidy'
  BY TidyStep
<1>2. CASE Excepted'
  BY <1>1, <1>2 DEF AllSafe, ResumeFindsAll, Excepted
<1>3. CASE ~Excepted'
  <2>1. ~Excepted /\ \A p \in Proc : Safe(p)
    BY <1>3, ExceptedStays DEF AllSafe
  <2>2. \A p \in Proc : Safe(p)'
    BY <1>3, <2>1, SafeStep
  <2> QED BY <1>1, <1>3, <2>2, IdleFinds DEF AllSafe
<1> QED BY <1>2, <1>3

(* However many sessions were killed between any two system calls: the     *)
(* directory the next resume reads has every case that was found since the *)
(* last fresh session, and every mark, but for the one case that is being  *)
(* trimmed; unless a resume was killed while it deleted _resume/, or a     *)
(* fresh session has left one.                                             *)
THEOREM WorkSurvives == Spec => []ResumeFindsAll
<1> DEFINE J == Inv /\ Tidy /\ AllSafe /\ ResumeFindsAll
<1>1. Init => J
  <2> SUFFICES ASSUME Init PROVE J
    OBVIOUS
  <2>1. \A p \in Proc : pc[p] = "off"
    BY DEF Init
  <2>2. Tidy
    BY <2>1, NewDirIsTidy DEF Init, Tidy, HasDir, Before, Unlocked, Loaded,
           Pivoting, Fuzzing
  <2>3. AllSafe
    BY <2>1 DEF AllSafe, Safe, Bare, Pivoting, Fuzzing, Leaving, Loaded
  <2>4. found = {} /\ marked = {}
    BY DEF Init
  <2>5. ResumeFindsAll
    BY <2>4 DEF ResumeFindsAll
  <2> QED BY <2>2, <2>3, <2>5, InvInit
<1>2. J /\ [DirNext]_dirvars =>
          Inv' /\ Tidy' /\ AllSafe' /\ (Working' \/ ResumeFindsAll')
  <2> SUFFICES ASSUME J, [DirNext]_dirvars
               PROVE  /\ Inv' /\ Tidy' /\ AllSafe'
                      /\ Working' \/ ResumeFindsAll'
    OBVIOUS
  <2>1. CASE DirNext
    BY <2>1, InvNext, ResumeStep DEF DirNext
  <2>2. CASE UNCHANGED dirvars
    <3> USE <2>2 DEF dirvars, files, locals, counts, history
    <3>1. Tidy'
      BY DEF Tidy, HasDir, IsTidy
    <3>2. AllSafe'
      BY DEF AllSafe, Excepted, Safe, All, Nothing, InMem, Kept, KeptMark,
             Whole
    <3>3. ResumeFindsAll'
      BY DEF ResumeFindsAll, Trimming, Trimmed, NextInput, Empty, Kept,
             KeptMark, Whole
    <3> QED BY <3>1, <3>2, <3>3, InvNext
  <2> QED BY <2>1, <2>2
<1>3. Inv /\ Tidy /\ AllSafe /\ Working => ResumeFindsAll
  BY WorkingFinds
<1> QED BY <1>1, <1>2, <1>3, PTL DEF Spec

-----------------------------------------------------------------------------
(* Numbers: of cases, sessions and files                                   *)

(* Entries are numbered below the bound; those with content are as many as *)
(* the cases so far at most, and a mark has its directory.                 *)
DirOK(d, n) ==
    /\ DOMAIN d.ent \cup d.marks \subseteq 0 .. MaxCases - 1
    /\ Whole(d) \subseteq 0 .. n - 1
    /\ Kept(d) \subseteq 1 .. n
    /\ d.marks # {} => d.state

QueueOK(p) ==
    /\ Len(mem[p]) <= cases
    /\ \A k \in DOMAIN mem[p] : mem[p][k].case \in 1 .. cases

(* What a session needs to go on.  A file that is being written has no     *)
(* content yet.                                                            *)
Held(p) ==
    /\ pc[p] # "off" => starts >= 1
    /\ pc[p] \in Loaded \cup {"read"} => queue.state
    /\ pc[p] = "find" =>
           cases < MaxCases /\ queue.ent[Len(mem[p])] = Cut
    /\ pc[p] \in {"pivot_copy", "trim_write"} => queue.ent[at[p] - 1] = Cut

Numbers ==
    /\ cases \in 0 .. MaxCases /\ starts \in 0 .. MaxStarts
    /\ {out_dir, stale} \subseteq BOOLEAN /\ torn \subseteq {"queue", "resume"}
    /\ crashes \cup backups \cup crashed \subseteq 1 .. MaxStarts
    /\ fuzzer_stats \in {"none", "cut", "short", "long"}

Sized ==
    /\ Numbers /\ DirOK(queue, cases) /\ DirOK(resume, cases)
    /\ \A p \in Proc : QueueOK(p) /\ Held(p)

LEMMA DirOKGrows ==
    ASSUME NEW d, NEW n \in Nat, NEW m \in Nat, n <= m, DirOK(d, n)
    PROVE  DirOK(d, m)
BY DEF DirOK

LEMMA NewDirIsOK ==
    ASSUME NEW n \in Nat
    PROVE  DirOK(NoDir, n) /\ DirOK(NewDir, n)
<1>1. DOMAIN NoDir.ent = {} /\ NoDir.marks = {}
  BY EmptySeq DEF NoDir
<1> QED BY <1>1, NewDirIsDir DEF DirOK, Whole, Kept

LEMMA FileAddedOK ==
    ASSUME NEW d, IsDir(d), NEW n \in 0 .. MaxCases, DirOK(d, n), NEW id,
           NEW case,
           \/ id \in 0 .. MaxCases - 1 /\ case = Cut
           \/ id \in 0 .. n - 1 /\ case \in 1 .. n
    PROVE  DirOK(WithFile(d, id, case), n)
<1> DEFINE e == WithFile(d, id, case)
<1>1. /\ DOMAIN e.ent = DOMAIN d.ent \cup {id} /\ e.ent[id] = case
      /\ \A k \in DOMAIN d.ent \ {id} : e.ent[k] = d.ent[k]
      /\ e.marks = d.marks /\ e.state = d.state
  BY FileAdded DEF WithFile, IsDir
<1> HIDE DEF e
<1>2. MaxCases \in Nat /\ id \in 0 .. MaxCases - 1
  BY OutDirAssumption
<1>3. ASSUME NEW k \in Whole(e)
      PROVE  k \in 0 .. n - 1 /\ e.ent[k] \in 1 .. n
  <2>1. CASE k = id
    BY <1>1, <2>1 DEF Whole
  <2>2. CASE k # id
    BY <1>1, <2>2 DEF Whole, DirOK, Kept
  <2> QED BY <2>1, <2>2
<1>4. Whole(e) \subseteq 0 .. n - 1 /\ Kept(e) \subseteq 1 .. n
  BY <1>3 DEF Kept
<1>5. DirOK(e, n)
  BY <1>1, <1>2, <1>4 DEF DirOK
<1> QED BY <1>5 DEF e

(* A directory with fewer files and marks.                                 *)
LEMMA LessIsOK ==
    ASSUME NEW d, NEW n, DirOK(d, n), NEW e,
           DOMAIN e.ent \subseteq DOMAIN d.ent,
           \A k \in DOMAIN e.ent : e.ent[k] = d.ent[k],
           e.marks \subseteq d.marks, e.marks # {} => e.state
    PROVE  DirOK(e, n)
<1>1. Whole(e) \subseteq Whole(d)
  BY DEF Whole
<1>2. Kept(e) \subseteq Kept(d)
  BY <1>1 DEF Kept, Whole
<1> QED BY <1>1, <1>2 DEF DirOK

(* What the next system call leaves of a directory.                        *)
LEMMA RemovalLeaves ==
    ASSUME NEW d, IsDir(d), NEW e \in Removals(d)
    PROVE  /\ DOMAIN e.ent \subseteq DOMAIN d.ent
           /\ \A k \in DOMAIN e.ent : e.ent[k] = d.ent[k]
           /\ e.marks \subseteq d.marks
           /\ e.marks # {} => e.state = d.state
<1>1. CASE d.marks # {}
  <2>1. PICK k \in d.marks : e = [d EXCEPT !.marks = @ \ {k}]
    BY <1>1 DEF Removals
  <2>2. /\ e.exists = d.exists /\ e.state = d.state /\ e.ent = d.ent
        /\ e.marks = d.marks \ {k}
    BY <2>1 DEF IsDir
  <2> QED BY <2>2
<1>2. CASE d.marks = {} /\ d.state
  <2>1. e = [d EXCEPT !.state = FALSE]
    BY <1>2 DEF Removals
  <2>2. e.exists = d.exists /\ e.ent = d.ent /\ e.marks = {}
    BY <1>2, <2>1 DEF IsDir
  <2> QED BY <1>2, <2>2 DEF Empty
<1>3. CASE d.marks = {} /\ ~d.state /\ DOMAIN d.ent # {}
  <2>1. PICK gone \in DOMAIN d.ent :
            e = [d EXCEPT !.ent = [k \in DOMAIN d.ent \ {gone} |->
                                      d.ent[k]]]
    BY <1>3 DEF Removals
  <2>2. /\ e.exists = d.exists /\ e.marks = {}
        /\ e.ent = [k \in DOMAIN d.ent \ {gone} |-> d.ent[k]]
    BY <1>3, <2>1 DEF IsDir
  <2> QED BY <1>3, <2>2 DEF Empty
<1>4. CASE d.marks = {} /\ ~d.state /\ DOMAIN d.ent = {}
  <2>1. e = NoDir
    BY <1>4 DEF Removals
  <2>2. DOMAIN e.ent = {} /\ e.marks = {}
    BY <2>1, EmptySeq DEF NoDir
  <2> QED BY <2>1, <2>2
<1> QED BY <1>1, <1>2, <1>3, <1>4 DEF IsDir

-----------------------------------------------------------------------------
(* The steps keep the numbers                                              *)

OwnSized(q) ==
    /\ Numbers /\ DirOK(queue, cases) /\ DirOK(resume, cases)
    /\ QueueOK(q) /\ Held(q)

(* A step that changes neither files nor memory, or gives memory up.       *)
LEMMA QuietSized ==
    ASSUME NEW q \in Proc, OwnSized(q), Numbers',
           UNCHANGED <<queue, resume, cases>>,
           mem'[q] = mem[q] \/ mem'[q] = <<>>,
           pc'[q] # "off" => starts' >= 1,
           pc'[q] \in Loaded \cup {"read"} => pc[q] \in Loaded,
           pc'[q] \notin {"find", "pivot_copy", "trim_write"}
    PROVE  OwnSized(q)'
<1>1. QueueOK(q)'
  BY EmptyQueue, EmptySeq DEF QueueOK, OwnSized, Numbers
<1>2. Held(q)'
  BY DEF Held, OwnSized
<1> QED BY <1>1, <1>2 DEF OwnSized, DirOK, Whole, Kept

(* A step that changes queue/ only.                                        *)
LEMMA WrittenSized ==
    ASSUME NEW q \in Proc, OwnSized(q), Numbers',
           UNCHANGED <<resume, cases>>, DirOK(queue', cases),
           mem'[q] = mem[q],
           pc'[q] # "off" => starts' >= 1,
           pc'[q] \in Loaded \cup {"read"} => queue'.state,
           pc'[q] \notin {"find", "pivot_copy", "trim_write"}
    PROVE  OwnSized(q)'
BY DEF Held, OwnSized, QueueOK, DirOK, Whole, Kept

LEMMA OutsideSized ==
    ASSUME NEW q \in Proc, OwnInv(q), OwnSized(q),
           \/ Start(q) \/ MakeOutDir(q) \/ Lock(q) \/ Check(q)
           \/ CleanCrashes(q) \/ CleanRest(q) \/ DryRun(q) \/ StatsOpen(q)
           \/ StatsWrite(q) \/ SaveCrash(q) \/ ShowStats(q) \/ Kill(q)
    PROVE  OwnSized(q)'
<1> USE OutDirAssumption
    DEF OwnInv, Types, Locals, Queues, Goto, Gone, locals, files, counts,
        history, Loaded, Pivoting, Fuzzing
<1>0. Numbers /\ (pc[q] # "off" => starts >= 1)
  BY DEF OwnSized, Held
<1>1. CASE Start(q)
  <2>1. Numbers'
    BY <1>0, <1>1 DEF Start, Numbers
  <2> QED BY <1>0, <1>1, <2>1, QuietSized DEF Start, Numbers
<1>2. CASE MakeOutDir(q)
  <2>1. Numbers'
    BY <1>0, <1>2 DEF MakeOutDir, Numbers
  <2> QED BY <1>0, <1>2, <2>1, QuietSized DEF MakeOutDir
<1>3. CASE Lock(q)
  <2>1. Numbers'
    BY <1>0, <1>3 DEF Lock, Numbers
  <2> QED BY <1>0, <1>3, <2>1, QuietSized DEF Lock
<1>4. CASE Check(q)
  <2>1. Numbers'
    BY <1>0, <1>4 DEF Check, Numbers
  <2> QED BY <1>0, <1>4, <2>1, QuietSized DEF Check
<1>5. CASE CleanCrashes(q)
  <2>1. Numbers'
    BY <1>0, <1>5 DEF CleanCrashes, BackedUp, Numbers
  <2> QED BY <1>0, <1>5, <2>1, QuietSized DEF CleanCrashes
<1>6. CASE CleanRest(q)
  <2>1. Numbers'
    BY <1>0, <1>6 DEF CleanRest, Numbers
  <2> QED BY <1>0, <1>6, <2>1, QuietSized DEF CleanRest
<1>7. CASE DryRun(q)
  <2>1. Numbers'
    BY <1>0, <1>7 DEF DryRun, Numbers
  <2> QED BY <1>0, <1>7, <2>1, QuietSized DEF DryRun
<1>8. CASE StatsOpen(q)
  <2>1. Numbers'
    BY <1>0, <1>8 DEF StatsOpen, Numbers
  <2> QED BY <1>0, <1>8, <2>1, QuietSized DEF StatsOpen
<1>9. CASE StatsWrite(q)
  <2>1. Numbers'
    BY <1>0, <1>9 DEF StatsWrite, Numbers
  <2> QED BY <1>0, <1>9, <2>1, QuietSized DEF StatsWrite
<1>10. CASE SaveCrash(q)
  <2>1. Numbers'
    BY <1>0, <1>10 DEF SaveCrash, Numbers
  <2> QED BY <1>0, <1>10, <2>1, QuietSized DEF SaveCrash
<1>11. CASE ShowStats(q)
  <2>1. Numbers'
    BY <1>0, <1>11 DEF ShowStats, Numbers
  <2> QED BY <1>0, <1>11, <2>1, QuietSized DEF ShowStats
<1>12. CASE Kill(q)
  <2>1. Numbers'
    BY <1>0, <1>12 DEF Kill, Numbers
  <2> QED BY <1>0, <1>12, <2>1, QuietSized DEF Kill
<1> QED BY <1>1, <1>2, <1>3, <1>4, <1>5, <1>6, <1>7, <1>8, <1>9, <1>10,
           <1>11, <1>12

LEMMA CleanupSized ==
    ASSUME NEW q \in Proc, OwnInv(q), OwnSized(q),
           \/ Move(q) \/ Clean(q) \/ MakeQueue(q) \/ MakeState(q)
           \/ nuke_resume_dir(q)
    PROVE  OwnSized(q)'
<1> USE DEF OwnInv, Types, Locals, Queues, Goto, Gone, locals, files, counts,
            history, Loaded, Pivoting, Fuzzing
<1>0. /\ Numbers /\ cases \in Nat /\ (pc[q] # "off" => starts >= 1)
      /\ DirOK(queue, cases) /\ DirOK(resume, cases) /\ QueueOK(q)
  BY DEF OwnSized, Held, Numbers
<1>1. CASE Move(q)
  <2>1. DirOK(queue', cases) /\ DirOK(resume', cases)
    BY <1>0, <1>1, NewDirIsOK DEF Move
  <2>2. Numbers' /\ cases' = cases
    BY <1>0, <1>1 DEF Move, Numbers
  <2>3. /\ pc'[q] = "clean" /\ mem'[q] = mem[q] /\ pc[q] # "off"
        /\ starts' = starts
    BY <1>1 DEF Move
  <2> QED BY <1>0, <2>1, <2>2, <2>3 DEF OwnSized, QueueOK, Held
<1>2. CASE Clean(q)
  <2>1. Numbers' /\ UNCHANGED <<resume, cases, starts, mem>>
    BY <1>0, <1>2 DEF Clean, Numbers
  <2>2. DirOK(queue', cases)
    <3>1. CASE queue.exists
      <4>1. queue' \in Removals(queue)
        BY <1>2, <3>1 DEF Clean
      <4>2. /\ DOMAIN queue'.ent \subseteq DOMAIN queue.ent
            /\ \A k \in DOMAIN queue'.ent : queue'.ent[k] = queue.ent[k]
            /\ queue'.marks \subseteq queue.marks
            /\ queue'.marks # {} => queue'.state = queue.state
        BY <4>1, RemovalLeaves DEF Dirs
      <4> QED BY <1>0, <4>2, LessIsOK DEF DirOK
    <3>2. CASE ~queue.exists
      BY <1>0, <1>2, <3>2 DEF Clean
    <3> QED BY <3>1, <3>2
  <2>3. pc[q] = "clean" /\ pc'[q] \in {"clean", "crashes"}
    BY <1>2 DEF Clean
  <2> QED BY <1>0, <2>1, <2>2, <2>3, WrittenSized
<1>3. CASE MakeQueue(q)
  <2>1. Numbers' /\ UNCHANGED <<resume, cases, starts>>
    BY <1>0, <1>3 DEF MakeQueue, Numbers
  <2>2. CASE queue.exists
    BY <1>0, <1>3, <2>1, <2>2, QuietSized DEF MakeQueue
  <2>3. CASE ~queue.exists
    BY <1>0, <1>3, <2>1, <2>3, NewDirIsOK, WrittenSized DEF MakeQueue
  <2> QED BY <2>2, <2>3
<1>4. CASE MakeState(q)
  <2>1. Numbers' /\ UNCHANGED <<resume, cases, starts, mem>>
    BY <1>0, <1>4 DEF MakeState, Numbers
  <2>2. /\ queue'.ent = queue.ent /\ queue'.marks = queue.marks
        /\ queue'.state = TRUE
    BY <1>4 DEF MakeState, Dirs, IsDir
  <2>3. DirOK(queue', cases)
    BY <1>0, <2>2 DEF DirOK, Whole, Kept
  <2>4. pc[q] = "make_state" /\ pc'[q] = "read"
    BY <1>4 DEF MakeState
  <2> QED BY <1>0, <2>1, <2>2, <2>3, <2>4, WrittenSized
<1>5. CASE nuke_resume_dir(q)
  <2>1. Numbers' /\ UNCHANGED <<queue, cases, starts, mem>>
    BY <1>0, <1>5 DEF nuke_resume_dir, Numbers
  <2>2. DirOK(resume', cases)
    <3>1. CASE resume.exists
      <4>1. resume' \in Removals(resume)
        BY <1>5, <3>1 DEF nuke_resume_dir
      <4>2. /\ DOMAIN resume'.ent \subseteq DOMAIN resume.ent
            /\ \A k \in DOMAIN resume'.ent : resume'.ent[k] = resume.ent[k]
            /\ resume'.marks \subseteq resume.marks
            /\ resume'.marks # {} => resume'.state = resume.state
        BY <4>1, RemovalLeaves DEF Dirs
      <4> QED BY <1>0, <4>2, LessIsOK DEF DirOK
    <3>2. CASE ~resume.exists
      BY <1>0, <1>5, <3>2 DEF nuke_resume_dir
    <3> QED BY <3>1, <3>2
  <2>3. pc[q] = "nuke" /\ pc'[q] \in {"nuke", "dry"}
    BY <1>5 DEF nuke_resume_dir
  <2> QED BY <1>0, <2>1, <2>2, <2>3
          DEF OwnSized, QueueOK, Held, DirOK, Whole, Kept
<1> QED BY <1>1, <1>2, <1>3, <1>4, <1>5

(* The steps of the import.                                                *)
LEMMA ImportSized ==
    ASSUME NEW q \in Proc, OwnInv(q), OwnSized(q),
           Pivot(q) \/ PivotCopy(q) \/ PivotMark(q)
    PROVE  OwnSized(q)'
<1> DEFINE i == Imported(q)
<1>0. /\ Numbers /\ cases \in 0 .. MaxCases /\ starts >= 1
      /\ DirOK(queue, cases) /\ DirOK(resume, cases) /\ QueueOK(q)
      /\ IsDir(queue) /\ queue.state /\ MaxCases \in Nat
  BY OutDirAssumption
     DEF OwnSized, Held, Numbers, Pivot, PivotCopy, PivotMark, OwnInv, Types,
         Dirs, Loaded, Pivoting
<1>1. /\ Len(mem[q]) \in Nat /\ DOMAIN mem[q] = 1 .. Len(mem[q])
      /\ at[q] \in 1 .. Len(mem[q]) + 1
      /\ pc[q] \in {"pivot_copy", "pivot_mark"} => at[q] <= Len(mem[q])
  BY QueueLength
     DEF OwnInv, Types, Queues, OnDisk, Importing, Pivot, PivotCopy, PivotMark
<1>2. /\ Numbers' /\ UNCHANGED <<resume, cases, starts>> /\ mem'[q] = mem[q]
      /\ DOMAIN pc = Proc /\ DOMAIN at = Proc
  BY <1>0
     DEF Pivot, PivotCopy, PivotMark, Numbers, locals, counts, history,
         OwnInv, Types, Locals
<1>3. ASSUME at[q] <= Len(mem[q])
      PROVE  i \in 0 .. cases - 1 /\ mem[q][at[q]].case \in 1 .. cases
  BY <1>0, <1>1, <1>3 DEF QueueOK, Imported
<1>4. ASSUME NEW c, at[q] <= Len(mem[q]), c \in {Cut, mem[q][at[q]].case}
      PROVE  /\ DirOK(WithFile(queue, i, c), cases)
             /\ WithFile(queue, i, c).state
             /\ WithFile(queue, i, c).ent[i] = c
  <2>1. DirOK(WithFile(queue, i, c), cases)
    <3>1. i \in 0 .. cases - 1 /\ mem[q][at[q]].case \in 1 .. cases
      BY <1>3, <1>4
    <3>2. i \in 0 .. MaxCases - 1
      BY <1>0, <3>1
    <3> HIDE DEF i
    <3> QED BY <1>0, <1>4, <3>1, <3>2, FileAddedOK
  <2>2. WithFile(queue, i, c).ent[i] = c
    BY <1>0, FileAdded
  <2> QED BY <1>0, <2>1, <2>2 DEF WithFile, IsDir
<1>5. CASE Pivot(q)
  <2>1. CASE at[q] > Len(mem[q])
    <3>1. queue' = queue /\ pc[q] = "pivot" /\ pc'[q] \in {"nuke", "dry"}
      BY <1>2, <1>5, <2>1 DEF Pivot, Goto
    <3> QED BY <1>0, <1>2, <3>1, WrittenSized
  <2>2. CASE /\ at[q] <= Len(mem[q])
             /\ queue' = WithFile(queue, i, mem[q][at[q]].case)
             /\ pc'[q] = "pivot_mark"
    BY <1>0, <1>2, <1>4, <2>2, WrittenSized
  <2>3. CASE /\ at[q] <= Len(mem[q])
             /\ queue' = WithFile(queue, i, Cut)
             /\ pc'[q] = "pivot_copy"
    <3>1. at'[q] = at[q]
      BY <1>5 DEF Pivot, locals
    <3>2. Held(q)'
      BY <1>0, <1>2, <1>4, <2>3, <3>1 DEF Held, Imported
    <3>3. QueueOK(q)' /\ DirOK(queue', cases)
      BY <1>0, <1>2, <1>4, <2>3 DEF QueueOK
    <3> QED BY <1>0, <1>2, <3>2, <3>3 DEF OwnSized, DirOK, Whole, Kept
  <2>4. \/ at[q] > Len(mem[q])
        \/ queue' = WithFile(queue, i, mem[q][at[q]].case)
           /\ pc'[q] = "pivot_mark"
        \/ queue' = WithFile(queue, i, Cut) /\ pc'[q] = "pivot_copy"
    BY <1>2, <1>5 DEF Pivot, Goto
  <2> QED BY <1>1, <2>1, <2>2, <2>3, <2>4
<1>6. CASE PivotCopy(q)
  <2>1. /\ queue' = WithFile(queue, i, mem[q][at[q]].case)
        /\ pc'[q] = "pivot_mark" /\ at[q] <= Len(mem[q])
    BY <1>1, <1>2, <1>6 DEF PivotCopy, Goto
  <2> QED BY <1>0, <1>2, <1>4, <2>1, WrittenSized
<1>7. CASE PivotMark(q)
  <2>1. pc'[q] = "pivot" /\ at[q] <= Len(mem[q])
    BY <1>1, <1>2, <1>7 DEF PivotMark, Goto
  <2>2. /\ queue'.ent = queue.ent /\ queue'.state = queue.state
        /\ queue'.marks \subseteq queue.marks \cup {i}
    BY <1>0, <1>7 DEF PivotMark, IsDir
  <2>3. i \in 0 .. MaxCases - 1
    BY <1>0, <1>3, <2>1
  <2>4. DirOK(queue', cases)
    <3> HIDE DEF i
    <3> QED BY <1>0, <2>2, <2>3 DEF DirOK, Whole, Kept
  <2> QED BY <1>0, <1>2, <2>1, <2>2, <2>4, WrittenSized
<1> QED BY <1>5, <1>6, <1>7

(* The steps of the session but those that change memory.                  *)
LEMMA SaveSized ==
    ASSUME NEW q \in Proc, OwnInv(q), OwnSized(q),
           \/ FindOpen(q) \/ TrimUnlink(q) \/ TrimOpen(q) \/ TrimWrite(q)
    PROVE  OwnSized(q)'
<1>0. /\ Numbers /\ cases \in 0 .. MaxCases /\ starts >= 1
      /\ DirOK(queue, cases) /\ DirOK(resume, cases) /\ QueueOK(q)
      /\ IsDir(queue) /\ queue.state /\ MaxCases \in Nat
  BY OutDirAssumption
     DEF OwnSized, Held, Numbers, FindOpen, TrimUnlink, TrimOpen, TrimWrite,
         OwnInv, Types, Dirs, Loaded, Fuzzing
<1>1. /\ Len(mem[q]) \in Nat /\ DOMAIN mem[q] = 1 .. Len(mem[q])
      /\ Len(mem[q]) <= cases
      /\ pc[q] \in {"trim", "trim_write"} => at[q] \in 1 .. Len(mem[q])
  BY <1>0, QueueLength DEF OwnInv, Types, Queues, OnDisk, Saving, QueueOK
<1>2. /\ Numbers' /\ UNCHANGED <<resume, cases, starts>> /\ mem'[q] = mem[q]
      /\ DOMAIN pc = Proc /\ DOMAIN at = Proc
  BY <1>0
     DEF FindOpen, TrimUnlink, TrimOpen, TrimWrite, Numbers, locals, counts,
         history, OwnInv, Types, Locals
<1>3. ASSUME NEW id, NEW c
      PROVE  /\ WithFile(queue, id, c).state
             /\ WithFile(queue, id, c).ent[id] = c
  BY <1>0, FileAdded DEF WithFile, IsDir
<1>4. CASE FindOpen(q)
  <2>1. /\ queue' = WithFile(queue, Len(mem[q]), Cut) /\ cases < MaxCases
        /\ pc'[q] = "find"
    BY <1>2, <1>4 DEF FindOpen, Goto
  <2>2. Len(mem[q]) \in 0 .. MaxCases - 1
    BY <1>0, <1>1, <2>1
  <2>3. DirOK(queue', cases)
    BY <1>0, <2>1, <2>2, FileAddedOK
  <2>4. Held(q)'
    BY <1>0, <1>2, <1>3, <2>1 DEF Held
  <2> QED BY <1>0, <1>2, <2>3, <2>4
          DEF OwnSized, QueueOK, DirOK, Whole, Kept
<1>5. CASE TrimUnlink(q)
  <2>1. PICK k \in DOMAIN mem[q] :
            queue' = [queue EXCEPT !.ent =
                         [id \in DOMAIN @ \ {k - 1} |-> @[id]]]
    BY <1>5 DEF TrimUnlink
  <2>2. /\ queue'.state = queue.state /\ queue'.marks = queue.marks
        /\ queue'.ent = [id \in DOMAIN queue.ent \ {k - 1} |-> queue.ent[id]]
    BY <1>0, <2>1 DEF IsDir
  <2>3. DirOK(queue', cases)
    BY <1>0, <2>2, LessIsOK
  <2>4. pc'[q] = "trim"
    BY <1>2, <1>5 DEF TrimUnlink, Goto
  <2> QED BY <1>0, <1>2, <2>2, <2>3, <2>4, WrittenSized
<1>6. pc[q] \in {"trim", "trim_write"} =>
          /\ at[q] - 1 \in 0 .. cases - 1 /\ at[q] - 1 \in 0 .. MaxCases - 1
          /\ mem[q][at[q]].case \in 1 .. cases
  BY <1>0, <1>1 DEF QueueOK
<1>7. CASE TrimOpen(q)
  <2>1. /\ queue' = WithFile(queue, at[q] - 1, Cut) /\ at'[q] = at[q]
        /\ pc[q] = "trim" /\ pc'[q] = "trim_write"
    BY <1>2, <1>7 DEF TrimOpen, Goto, locals
  <2>2. DirOK(queue', cases)
    BY <1>0, <1>6, <2>1, FileAddedOK
  <2>3. Held(q)'
    BY <1>0, <1>2, <1>3, <2>1 DEF Held
  <2> QED BY <1>0, <1>2, <2>2, <2>3
          DEF OwnSized, QueueOK, DirOK, Whole, Kept
<1>8. CASE TrimWrite(q)
  <2>1. /\ queue' = WithFile(queue, at[q] - 1, mem[q][at[q]].case)
        /\ pc[q] = "trim_write" /\ pc'[q] = "fuzz"
    BY <1>2, <1>8 DEF TrimWrite, Goto
  <2>2. DirOK(queue', cases)
    BY <1>0, <1>6, <2>1, FileAddedOK
  <2> QED BY <1>0, <1>2, <1>3, <2>1, <2>2, WrittenSized
<1> QED BY <1>4, <1>5, <1>7, <1>8

(* A case with each entry that has content, none twice.                    *)
LEMMA ScanIsOK ==
    ASSUME NEW d, IsDir(d), IsTidy(d), NEW n \in Nat, DirOK(d, n)
    PROVE  /\ Len(Scanned(d)) \in Nat /\ Len(Scanned(d)) <= n
           /\ \A k \in DOMAIN Scanned(d) :
                  /\ Scanned(d)[k].case = d.ent[Ranked(Whole(d), k)]
                  /\ Ranked(Whole(d), k) \in Whole(d)
                  /\ Scanned(d)[k].case \in 1 .. n
<1> DEFINE S == Whole(d)
           q == Scanned(d)
<1>1. S \in SUBSET Nat /\ IsFiniteSet(S) /\ S \subseteq 0 .. n - 1
  <2>1. S \subseteq DOMAIN d.ent
    BY DEF Whole
  <2> QED BY <2>1, FS_Subset DEF IsDir, IsTidy, DirOK
<1>2. Cardinality(S) \in Nat /\ Cardinality(S) <= n
  <2> DEFINE I == 0 .. n - 1
  <2>1. IsFiniteSet(I) /\ Cardinality(I) = n
    <3>1. 0 <= n - 1 \/ n = 0
      OBVIOUS
    <3>2. CASE n = 0
      <4>1. I = {}
        BY <3>2
      <4> QED BY <3>2, <4>1, FS_EmptySet
    <3>3. CASE 0 <= n - 1
      BY <3>3, FS_Interval
    <3> QED BY <3>1, <3>2, <3>3
  <2>2. S \subseteq I
    BY <1>1
  <2> HIDE DEF I, S
  <2> QED BY <1>1, <2>1, <2>2, FS_Subset, FS_CardinalityType
<1>3. DOMAIN q = 1 .. Cardinality(S) /\ Len(q) = Cardinality(S)
  <2>1. DOMAIN q = 1 .. Cardinality(S)
    BY DEF Scanned
  <2>2. Len(q) \in Nat /\ DOMAIN q = 1 .. Len(q)
    BY ScanIsQueue, QueueLength
  <2> HIDE DEF q, S
  <2> QED BY <1>2, <2>1, <2>2
<1>4. ASSUME NEW k \in DOMAIN q
      PROVE  q[k].case = d.ent[Ranked(S, k)] /\ Ranked(S, k) \in S
  <2>1. q[k].case = d.ent[Ranked(S, k)]
    BY <1>3 DEF Scanned
  <2>2. Ranked(S, k) \in S
    <3> HIDE DEF q, S
    <3> QED BY <1>1, <1>3, RankedIsOnto
  <2> QED BY <2>1, <2>2
<1>5. ASSUME NEW k \in DOMAIN q
      PROVE  q[k].case \in 1 .. n
  <2>1. q[k].case \in Kept(d)
    BY <1>4, <1>5 DEF Kept
  <2> QED BY <2>1 DEF DirOK
<1> HIDE DEF q
<1>6. Len(q) \in Nat /\ Len(q) <= n
  BY <1>2, <1>3
<1> QED BY <1>4, <1>5, <1>6 DEF q

LEMMA ReadSized ==
    ASSUME NEW q \in Proc, OwnInv(q), OwnTidy(q), OwnSized(q), Read(q)
    PROVE  OwnSized(q)'
<1> USE DEF OwnInv, Types, Locals, Queues, Goto, Gone, locals, files, history
<1>0. /\ Numbers /\ cases \in Nat /\ starts >= 1 /\ MaxCases \in Nat
      /\ DirOK(queue, cases) /\ DirOK(resume, cases) /\ queue.state
  BY OutDirAssumption DEF OwnSized, Held, Numbers, Read
<1>1. UNCHANGED <<queue, resume, starts>> /\ pc[q] = "read"
  BY DEF Read
<1>2. CASE pc'[q] = "off"
  <2>1. cases' = cases /\ mem'[q] = <<>>
    BY <1>2 DEF Read
  <2>2. Numbers'
    BY <1>0, <1>1, <2>1 DEF Read, Numbers
  <2> QED BY <1>1, <1>2, <2>1, <2>2, QuietSized DEF Loaded, Pivoting, Fuzzing
<1>3. CASE pc'[q] # "off" /\ mode[q] = "resume"
  <2>1. cases' = cases /\ mem'[q] = Scanned(resume) /\ pc'[q] = "pivot"
    BY <1>3 DEF Read
  <2>2. Numbers'
    BY <1>0, <1>1, <2>1 DEF Read, Numbers
  <2>3. QueueOK(q)'
    BY <1>0, <2>1, ScanIsOK DEF QueueOK, OwnTidy, Dirs
  <2> QED
    BY <1>0, <1>1, <2>1, <2>2, <2>3 DEF OwnSized, Held, DirOK, Whole, Kept
<1>4. CASE pc'[q] # "off" /\ mode[q] # "resume"
  <2>1. /\ cases' = cases + 1 /\ cases < MaxCases /\ pc'[q] = "pivot"
        /\ mem'[q] = <<[case |-> cases + 1, det |-> FALSE]>>
    BY <1>4 DEF Read
  <2>2. Numbers'
    BY <1>0, <1>1, <2>1 DEF Read, Numbers
  <2>3. Len(mem'[q]) = 1 /\ DOMAIN mem'[q] = {1} /\ mem'[q][1].case = cases + 1
    BY <2>1
  <2>4. QueueOK(q)'
    BY <1>0, <2>1, <2>3 DEF QueueOK
  <2>5. DirOK(queue', cases') /\ DirOK(resume', cases')
    BY <1>0, <1>1, <2>1, DirOKGrows
  <2> QED BY <1>0, <1>1, <2>1, <2>2, <2>4, <2>5 DEF OwnSized, Held
<1> QED BY <1>2, <1>3, <1>4

LEMMA FindWriteSized ==
    ASSUME NEW q \in Proc, OwnInv(q), OwnSized(q), FindWrite(q)
    PROVE  OwnSized(q)'
<1> DEFINE n == Len(mem[q])
           e == [case |-> cases', det |-> FALSE]
<1>0. /\ Numbers /\ cases \in 0 .. MaxCases /\ starts >= 1
      /\ DirOK(queue, cases) /\ DirOK(resume, cases) /\ QueueOK(q)
      /\ IsDir(queue) /\ queue.state /\ MaxCases \in Nat /\ cases < MaxCases
      /\ n \in Nat /\ DOMAIN mem[q] = 1 .. n /\ n <= cases
      /\ IsQueue(mem[q])
  BY OutDirAssumption, QueueLength
     DEF OwnSized, Held, Numbers, FindWrite, OwnInv, Types, Queues, Dirs,
         Loaded, Fuzzing, QueueOK
<1>1. /\ cases' = cases + 1 /\ queue' = WithFile(queue, n, cases')
      /\ pc'[q] = "fuzz" /\ mem'[q] = Append(mem[q], e)
      /\ UNCHANGED <<resume, starts>>
  BY DEF FindWrite, Goto, OwnInv, Types, Locals, Queues
<1>2. Numbers'
  BY <1>0, <1>1 DEF FindWrite, Numbers
<1>3. cases' \in 0 .. MaxCases /\ DirOK(queue, cases') /\ DirOK(resume, cases')
  BY <1>0, <1>1, DirOKGrows
<1>4. DirOK(queue', cases')
  BY <1>0, <1>1, <1>3, FileAddedOK
<1>5. queue'.state
  BY <1>0, <1>1 DEF WithFile, IsDir
<1>6. IsEntry(e) /\ e.case = cases'
  BY DEF IsEntry
<1> HIDE DEF e
<1>7. /\ Len(mem'[q]) = n + 1 /\ DOMAIN mem'[q] = 1 .. n + 1
      /\ \A k \in 1 .. n : mem'[q][k] = mem[q][k]
      /\ mem'[q][n + 1] = e
  BY <1>0, <1>1, <1>6, EntryAppended, QueueLength
<1>8. ASSUME NEW k \in DOMAIN mem'[q]
      PROVE  mem'[q][k].case \in 1 .. cases'
  <2>1. CASE k = n + 1
    BY <1>0, <1>1, <1>6, <1>7, <2>1
  <2>2. CASE k # n + 1
    <3>1. k \in 1 .. n
      BY <1>0, <1>7, <2>2
    <3>2. mem[q][k].case \in 1 .. cases
      BY <1>0, <3>1 DEF QueueOK
    <3> QED BY <1>0, <1>1, <1>7, <3>1, <3>2
  <2> QED BY <2>1, <2>2
<1>9. QueueOK(q)'
  BY <1>0, <1>1, <1>7, <1>8 DEF QueueOK
<1> QED BY <1>0, <1>1, <1>2, <1>3, <1>4, <1>5, <1>9 DEF OwnSized, Held

LEMMA MarkSized ==
    ASSUME NEW q \in Proc, OwnInv(q), OwnSized(q), mark_as_det_done(q)
    PROVE  OwnSized(q)'
<1>0. /\ Numbers /\ cases \in 0 .. MaxCases /\ starts >= 1
      /\ DirOK(queue, cases) /\ DirOK(resume, cases) /\ QueueOK(q)
      /\ IsDir(queue) /\ queue.state /\ MaxCases \in Nat
      /\ Len(mem[q]) \in Nat /\ DOMAIN mem[q] = 1 .. Len(mem[q])
      /\ IsQueue(mem[q]) /\ Len(mem[q]) <= cases
  BY OutDirAssumption, QueueLength
     DEF OwnSized, Held, Numbers, mark_as_det_done, OwnInv, Types, Queues,
         Dirs, Loaded, Fuzzing, QueueOK
<1>1. PICK k \in DOMAIN mem[q] :
          /\ queue' = [queue EXCEPT !.marks = @ \cup {k - 1}]
          /\ mem' = [mem EXCEPT ![q][k] =
                        [case |-> mem[q][k].case, det |-> TRUE]]
  BY DEF mark_as_det_done
<1>2. /\ UNCHANGED <<resume, cases, starts, pc>> /\ pc[q] = "fuzz"
  BY DEF mark_as_det_done, counts
<1>3. Numbers'
  BY <1>0 DEF mark_as_det_done, Numbers, counts
<1>4. /\ queue'.ent = queue.ent /\ queue'.state = queue.state
      /\ queue'.marks = queue.marks \cup {k - 1}
  BY <1>0, <1>1 DEF IsDir
<1>5. k - 1 \in 0 .. MaxCases - 1
  BY <1>0
<1>6. DirOK(queue', cases)
  BY <1>0, <1>4, <1>5 DEF DirOK, Whole, Kept
<1> DEFINE e == [case |-> mem[q][k].case, det |-> TRUE]
<1>7. /\ mem'[q] = [mem[q] EXCEPT ![k] = e] /\ IsEntry(e)
      /\ e.case = mem[q][k].case /\ e.det = TRUE
  BY <1>1 DEF OwnInv, Types, Queues, IsEntry
<1> HIDE DEF e
<1>8. /\ Len(mem'[q]) = Len(mem[q]) /\ DOMAIN mem'[q] = DOMAIN mem[q]
      /\ \A j \in DOMAIN mem[q] : mem'[q][j].case = mem[q][j].case
  BY <1>0, <1>7, EntryMarked
<1>9. QueueOK(q)'
  BY <1>0, <1>2, <1>8 DEF QueueOK
<1> QED BY <1>0, <1>2, <1>3, <1>4, <1>6, <1>9
        DEF OwnSized, Held, DirOK, Whole, Kept

LEMMA OwnSizedStep ==
    ASSUME NEW q \in Proc, OwnInv(q), OwnTidy(q), OwnSized(q),
           Step(q) \/ User(q)
    PROVE  OwnSized(q)'
BY OutsideSized, CleanupSized, ImportSized, SaveSized, ReadSized,
   FindWriteSized, MarkSized DEF Step, User

LEMMA CountsGrow ==
    ASSUME NEW q \in Proc, cases \in Nat, starts \in Nat, Step(q) \/ User(q)
    PROVE  /\ cases' \in Nat /\ cases <= cases'
           /\ starts' \in Nat /\ starts <= starts'
           /\ pc[q] \in Unlocked => cases' = cases
<1> USE DEF counts, Unlocked
<1>1. CASE Start(q)
  BY <1>1 DEF Start
<1>2. CASE Read(q)
  BY <1>2 DEF Read
<1>3. CASE FindWrite(q)
  BY <1>3 DEF FindWrite
<1>4. CASE ~(Start(q) \/ Read(q) \/ FindWrite(q))
  <2>1. UNCHANGED counts
    BY <1>4 DEF Step, User, MakeOutDir, Lock, Check, Move, Clean,
           CleanCrashes, CleanRest, MakeQueue, MakeState, Pivot, PivotCopy,
           PivotMark, nuke_resume_dir, DryRun, StatsOpen, StatsWrite,
           FindOpen, mark_as_det_done, TrimUnlink, TrimOpen, TrimWrite,
           SaveCrash, ShowStats, Kill
  <2> QED BY <2>1
<1> QED BY <1>1, <1>2, <1>3, <1>4

LEMMA SizedStep ==
    ASSUME Inv, Tidy, Sized, NEW q \in Proc, Step(q) \/ User(q)
    PROVE  Sized'
<1>1. OwnSized(q)'
  BY OwnSizedStep
     DEF Inv, OwnInv, LockHeld, Tidy, OwnTidy, Sized, OwnSized
<1>2. ASSUME NEW p \in Proc, p # q
      PROVE  QueueOK(p)' /\ Held(p)'
  <2>0. QueueOK(p) /\ Held(p) /\ cases \in Nat /\ starts \in Nat
    BY DEF Sized, Numbers
  <2>1. /\ pc'[p] = pc[p] /\ mem'[p] = mem[p] /\ at'[p] = at[p]
        /\ pc[p] \notin Unlocked => queue' = queue
    BY <1>2, OthersStay DEF Inv
  <2>2. pc[p] \notin Unlocked => cases' = cases
    <3>1. pc[p] \notin Unlocked => pc[q] \in Unlocked
      BY <1>2 DEF Inv, LockHeld
    <3> QED BY <2>0, <3>1, CountsGrow
  <2>3. /\ cases' \in Nat /\ cases <= cases'
        /\ starts' \in Nat /\ starts <= starts'
    BY <2>0, CountsGrow
  <2>4. QueueOK(p)'
    <3>1. Len(mem[p]) \in Nat
      BY QueueLength DEF Inv, Types, Queues
    <3> QED BY <2>0, <2>1, <2>3, <3>1 DEF QueueOK
  <2>5. Held(p)'
    BY <2>0, <2>1, <2>2, <2>3
       DEF Held, Loaded, Pivoting, Fuzzing, Unlocked
  <2> QED BY <2>4, <2>5
<1> QED BY <1>1, <1>2 DEF OwnSized, Sized

(* A file with content keeps it while it stays in queue/.                  *)
LEMMA ContentStays ==
    ASSUME Inv, Tidy, Sized, NEW q \in Proc, Step(q) \/ User(q),
           NEW id \in DOMAIN queue.ent, queue.ent[id] # Cut,
           queue'.exists, id \in DOMAIN queue'.ent
    PROVE  queue'.ent[id] = queue.ent[id]
<1>0. /\ IsDir(queue) /\ IsTidy(queue) /\ OnDisk(q) /\ Held(q)
      /\ IsQueue(mem[q]) /\ Len(mem[q]) \in Nat /\ cases \in Nat
      /\ at[q] \in Int
  BY QueueLength
     DEF Inv, Types, Locals, Queues, Dirs, Tidy, Sized, Numbers
<1>1. ASSUME NEW k, NEW c, k # id, queue' = WithFile(queue, k, c)
      PROVE  queue'.ent[id] = queue.ent[id]
  BY <1>0, <1>1, FileAdded
<1>2. CASE queue'.ent = queue.ent
  BY <1>2
<1>3. CASE Move(q)
  <2>1. queue' = queue \/ queue' = NoDir
    BY <1>3 DEF Move
  <2> QED BY <2>1 DEF NoDir
<1>4. CASE Clean(q)
  <2>1. CASE queue.exists
    <3>1. queue' \in Removals(queue)
      BY <1>4, <2>1 DEF Clean
    <3> QED BY <1>0, <3>1, RemovalLeaves
  <2>2. CASE ~queue.exists
    BY <1>4, <2>2 DEF Clean
  <2> QED BY <2>1, <2>2
<1>5. CASE MakeQueue(q)
  <2>1. queue' = queue \/ (~queue.exists)
    BY <1>5 DEF MakeQueue
  <2> QED BY <1>0, <2>1 DEF IsTidy
<1>6. CASE Pivot(q)
  <2>1. /\ pc[q] = "pivot"
        /\ queue' \in {queue, WithFile(queue, Imported(q), Cut),
                      WithFile(queue, Imported(q), mem[q][at[q]].case)}
    BY <1>6 DEF Pivot
  <2>2. pc[q] = "pivot" => DOMAIN queue.ent = 0 .. at[q] - 2
    BY <1>0 DEF OnDisk, Importing, Files
  <2>3. pc[q] = "pivot" => Imported(q) # id
    BY <1>0, <2>2 DEF Imported
  <2> QED BY <1>1, <2>1, <2>3
<1>7. CASE PivotCopy(q)
  <2>1. Imported(q) # id
    BY <1>0, <1>7 DEF PivotCopy, Held, Imported
  <2> QED BY <1>1, <1>7, <2>1 DEF PivotCopy
<1>8. CASE FindOpen(q)
  <2>1. Len(mem[q]) # id
    BY <1>0, <1>8 DEF FindOpen, OnDisk, Files, Settled
  <2> QED BY <1>1, <1>8, <2>1 DEF FindOpen
<1>9. CASE FindWrite(q)
  <2>1. Len(mem[q]) # id
    BY <1>0, <1>9 DEF FindWrite, Held
  <2> QED BY <1>1, <1>9, <2>1 DEF FindWrite
<1>10. CASE TrimUnlink(q)
  <2>1. PICK k \in DOMAIN mem[q] :
            queue' = [queue EXCEPT !.ent =
                         [j \in DOMAIN @ \ {k - 1} |-> @[j]]]
    BY <1>10 DEF TrimUnlink
  <2>2. queue'.ent = [j \in DOMAIN queue.ent \ {k - 1} |-> queue.ent[j]]
    BY <1>0, <2>1 DEF IsDir
  <2> QED BY <2>2
<1>11. CASE TrimOpen(q)
  <2>1. at[q] - 1 # id
    BY <1>0, <1>11 DEF TrimOpen, OnDisk, Saving, Files
  <2> QED BY <1>1, <1>11, <2>1 DEF TrimOpen
<1>12. CASE TrimWrite(q)
  <2>1. at[q] - 1 # id
    BY <1>0, <1>12 DEF TrimWrite, Held
  <2> QED BY <1>1, <1>12, <2>1 DEF TrimWrite
<1>13. CASE MakeState(q) \/ PivotMark(q) \/ mark_as_det_done(q)
  BY <1>0, <1>2, <1>13 DEF MakeState, PivotMark, mark_as_det_done, IsDir
<1>14. CASE ~(\/ Move(q) \/ Clean(q) \/ MakeQueue(q) \/ MakeState(q)
              \/ Pivot(q) \/ PivotCopy(q) \/ PivotMark(q) \/ FindOpen(q)
              \/ FindWrite(q) \/ mark_as_det_done(q) \/ TrimUnlink(q)
              \/ TrimOpen(q) \/ TrimWrite(q))
  <2>1. queue' = queue
    BY <1>14 DEF Step, User, Start, MakeOutDir, Lock, Check, CleanCrashes,
           CleanRest, Read, nuke_resume_dir, DryRun, StatsOpen, StatsWrite,
           SaveCrash, ShowStats, Kill, files
  <2> QED BY <2>1
<1> QED BY <1>3, <1>4, <1>5, <1>6, <1>7, <1>8, <1>9, <1>10, <1>11, <1>12,
           <1>13, <1>14

-----------------------------------------------------------------------------
(* Gaps                                                                    *)

Full(d) == d.exists /\ ~Empty(d)

(* The entries with content are numbered from 0 on.                        *)
Segment(d) == \E n \in Nat : Whole(d) = 0 .. n - 1

Trims == {"trim", "trim_write"}

(* Only what is being deleted or trimmed has gaps, or what nobody will     *)
(* read, since _resume/ will be taken instead.                             *)
Dense ==
    /\ (\A p \in Proc : pc[p] # "nuke") => Segment(resume)
    /\ \/ Full(resume) \/ Segment(queue)
       \/ \E p \in Proc : \/ pc[p] \in Loaded
                          \/ pc[p] = "clean" /\ mode[p] = "fresh"
    /\ \A p \in Proc :
           pc[p] = "clean" /\ mode[p] = "resume" =>
               Full(resume) \/ ~queue.exists

OwnDense(q) ==
    /\ pc[q] # "nuke" => Segment(resume)
    /\ \/ Full(resume) \/ Segment(queue) \/ pc[q] \in Loaded
       \/ pc[q] = "clean" /\ mode[q] = "fresh"
    /\ pc[q] = "clean" /\ mode[q] = "resume" =>
           Full(resume) \/ ~queue.exists

LEMMA NoFilesNoGaps ==
    ASSUME NEW d, DOMAIN d.ent = {}
    PROVE  Segment(d)
<1>1. Whole(d) = 0 .. 0 - 1 /\ 0 \in Nat
  BY DEF Whole
<1> QED BY <1>1 DEF Segment

(* The files of a session have no gaps but for a trimmed one.              *)
LEMMA LoadedHasNoGaps ==
    ASSUME NEW q \in Proc, OwnInv(q), OwnTidy(q), pc[q] \in Loaded \ Trims
    PROVE  Segment(queue)
<1> DEFINE n == Len(mem[q])
<1>1. n \in Nat /\ DOMAIN mem[q] = 1 .. n /\ at[q] \in Int
  BY QueueLength DEF OwnInv, Types, Queues, Locals
<1>2. \A k \in 1 .. n : mem[q][k].case # Cut
  BY <1>1 DEF OwnTidy, HasDir
<1>3. ASSUME NEW m \in 0 .. n, Written(q, 0 .. m - 1),
             DOMAIN queue.ent \in {0 .. m - 1, 0 .. m}
      PROVE  Segment(queue)
  <2>1. ASSUME NEW i \in 0 .. m - 1
        PROVE  i \in Whole(queue)
    <3>1. i + 1 \in 1 .. n /\ queue.ent[i] = mem[q][i + 1].case
      BY <1>1, <1>3 DEF Written
    <3>2. i \in DOMAIN queue.ent
      BY <1>3
    <3> QED BY <1>2, <3>1, <3>2 DEF Whole
  <2>2. Whole(queue) \subseteq 0 .. m
    BY <1>3 DEF Whole
  <2>3. CASE m \in Whole(queue)
    <3>1. /\ m + 1 \in Nat /\ (m + 1) - 1 = m
          /\ \A i \in 0 .. m : i \in 0 .. m - 1 \/ i = m
      BY <1>1
    <3>2. Whole(queue) = 0 .. m
      BY <2>1, <2>2, <2>3, <3>1
    <3> QED BY <3>1, <3>2 DEF Segment
  <2>4. CASE m \notin Whole(queue)
    <3>1. m \in Nat /\ \A i \in 0 .. m : i \in 0 .. m - 1 \/ i = m
      BY <1>1
    <3>2. Whole(queue) = 0 .. m - 1
      BY <2>1, <2>2, <2>4, <3>1
    <3> QED BY <3>1, <3>2 DEF Segment
  <2> QED BY <2>3, <2>4
<1>4. OnDisk(q)
  BY DEF OwnInv
<1>5. CASE pc[q] \in Settled \cup {"find"}
  <2>1. /\ Written(q, 0 .. n - 1)
        /\ DOMAIN queue.ent \in {0 .. n - 1, 0 .. n}
    BY <1>4, <1>5 DEF OnDisk, Saving, Files
  <2> QED BY <1>1, <1>3, <2>1
<1>6. CASE pc[q] \in {"pivot", "pivot_copy"}
  <2> DEFINE m == at[q] - 1
  <2>1. /\ m \in 0 .. n /\ m - 1 = at[q] - 2
        /\ Written(q, 0 .. m - 1)
        /\ DOMAIN queue.ent \in {0 .. m - 1, 0 .. m}
    BY <1>1, <1>4, <1>6 DEF OnDisk, Importing, Files
  <2> HIDE DEF m
  <2> QED BY <1>3, <2>1
<1>7. CASE pc[q] = "pivot_mark"
  <2> DEFINE m == at[q]
  <2>1. /\ m \in 0 .. n /\ Written(q, 0 .. m - 1)
        /\ DOMAIN queue.ent \in {0 .. m - 1, 0 .. m}
    BY <1>1, <1>4, <1>7 DEF OnDisk, Importing, Files
  <2> HIDE DEF m
  <2> QED BY <1>3, <2>1
<1> QED BY <1>5, <1>6, <1>7
        DEF Loaded, Pivoting, Fuzzing, Trims, Settled

LEMMA SameFilesNoGaps ==
    ASSUME NEW d, NEW e, e.ent = d.ent, Segment(d)
    PROVE  Segment(e)
BY DEF Segment, Whole

LEMMA OwnDenseStep ==
    ASSUME NEW q \in Proc, OwnInv(q), OwnTidy(q), OwnDense(q),
           pc[q] \notin Unlocked, torn' = {}, Step(q) \/ User(q)
    PROVE  OwnDense(q)'
<1> USE DEF Goto, Gone, locals, files
<1>0. /\ Locals /\ IsDir(queue) /\ IsTidy(queue) /\ IsTidy(resume)
      /\ DOMAIN pc = Proc
  BY DEF OwnInv, Types, Dirs, OwnTidy, Locals
<1>1. pc[q] \in Loaded \ Trims => Segment(queue)
  BY LoadedHasNoGaps
<1>2. ASSUME UNCHANGED <<queue, resume>>, pc[q] # "clean", pc'[q] # "clean",
             pc[q] # "nuke" \/ Segment(resume), pc[q] \notin Trims
      PROVE  OwnDense(q)'
  BY <1>1, <1>2 DEF OwnDense
<1>3. CASE Move(q)
  <2>1. pc[q] = "move" /\ pc'[q] = "clean" /\ mode' = mode
    BY <1>0, <1>3 DEF Move
  <2>2. Segment(resume) /\ (Full(resume) \/ Segment(queue))
    BY <2>1 DEF OwnDense, Loaded, Pivoting, Fuzzing
  <2>3. CASE mode[q] = "resume" /\ Movable
    <3>1. resume' = queue /\ queue' = NoDir /\ Segment(queue)
      BY <1>3, <2>2, <2>3 DEF Move, Movable, Full
    <3>2. ~queue'.exists /\ Segment(queue')
      BY <3>1, NoFilesNoGaps, EmptySeq DEF NoDir
    <3> QED BY <2>1, <3>1, <3>2 DEF OwnDense
  <2>4. CASE ~(mode[q] = "resume" /\ Movable)
    <3>1. UNCHANGED <<queue, resume>>
      BY <1>3, <2>4 DEF Move
    <3>2. mode[q] = "resume" => Full(resume) \/ ~queue.exists
      BY <2>4 DEF Movable, Full
    <3> QED BY <2>1, <2>2, <3>1, <3>2 DEF OwnDense
  <2> QED BY <2>3, <2>4
<1>4. CASE Clean(q)
  <2>1. /\ pc[q] = "clean" /\ mode' = mode /\ resume' = resume
        /\ mode[q] \in {"fresh", "resume"} /\ Segment(resume)
    BY <1>0, <1>4 DEF Clean, Locals, OwnDense
  <2>2. CASE queue.exists
    BY <1>0, <1>4, <2>1, <2>2 DEF Clean, OwnDense
  <2>3. CASE ~queue.exists
    <3>1. queue' = queue /\ pc'[q] = "crashes" /\ Segment(queue)
      BY <1>0, <1>4, <2>3, NoFilesNoGaps DEF Clean, IsTidy
    <3> QED BY <2>1, <3>1 DEF OwnDense
  <2> QED BY <2>2, <2>3
<1>5. CASE MakeQueue(q)
  <2>1. pc[q] = "make" /\ resume' = resume /\ pc'[q] \in {"off", "make_state"}
    BY <1>0, <1>5 DEF MakeQueue
  <2>2. CASE queue' = queue
    BY <1>2, <2>1, <2>2 DEF Trims
  <2>3. CASE queue' # queue
    <3>1. queue' = NewDir
      BY <1>5, <2>3 DEF MakeQueue
    <3>2. Segment(queue')
      BY <3>1, NewDirIsDir, NoFilesNoGaps
    <3> QED BY <2>1, <3>2 DEF OwnDense
  <2> QED BY <2>2, <2>3
<1>6. CASE MakeState(q)
  <2>1. /\ pc[q] = "make_state" /\ pc'[q] = "read" /\ resume' = resume
        /\ queue'.ent = queue.ent
    BY <1>0, <1>6 DEF MakeState, IsDir
  <2>2. Segment(resume) /\ (Full(resume) \/ Segment(queue))
    BY <2>1 DEF OwnDense, Loaded, Pivoting, Fuzzing
  <2>3. Full(resume') \/ Segment(queue')
    BY <2>1, <2>2, SameFilesNoGaps
  <2> QED BY <2>1, <2>2, <2>3 DEF OwnDense
<1>7. CASE nuke_resume_dir(q)
  <2>1. pc[q] = "nuke" /\ pc'[q] \in {"nuke", "dry"}
    BY <1>0, <1>7 DEF nuke_resume_dir
  <2>2. pc'[q] = "dry" => ~resume.exists /\ resume' = resume
    BY <1>0, <1>7 DEF nuke_resume_dir
  <2>3. ~resume.exists => Segment(resume)
    BY <1>0, NoFilesNoGaps DEF IsTidy
  <2> QED BY <2>1, <2>2, <2>3 DEF OwnDense, Loaded, Fuzzing
<1>8. CASE Kill(q)
  <2>1. /\ pc'[q] = "off" /\ UNCHANGED <<queue, resume>>
        /\ ~(pc[q] = "nuke" /\ resume.exists)
        /\ ~(pc[q] = "clean" /\ mode[q] = "fresh") /\ Trimmed(q) = {}
    BY <1>0, <1>8 DEF Kill
  <2>2. pc[q] \notin Trims
    BY <2>1 DEF Trimmed, Trims
  <2>3. ~resume.exists => Segment(resume)
    BY <1>0, NoFilesNoGaps DEF IsTidy
  <2>4. ~queue.exists => Segment(queue)
    BY <1>0, NoFilesNoGaps DEF IsTidy
  <2>5. mode[q] \in {"fresh", "resume"}
    BY <1>0 DEF Locals
  <2> QED BY <1>1, <2>1, <2>2, <2>3, <2>4, <2>5 DEF OwnDense
<1>9. CASE Check(q) \/ CleanCrashes(q) \/ CleanRest(q) \/ Read(q)
             \/ StatsWrite(q) \/ ShowStats(q) \/ StatsOpen(q)
  <2>1. /\ pc[q] \in {"check", "crashes", "rest", "read", "stats_write",
                      "last_write", "fuzz", "stats", "last_stats"}
        /\ pc'[q] # "clean" /\ UNCHANGED <<queue, resume>>
    BY <1>0, <1>9 DEF Check, CleanCrashes, CleanRest, Read, StatsWrite,
           ShowStats, StatsOpen
  <2> QED BY <1>2, <2>1 DEF Trims
<1>10. CASE \/ Pivot(q) \/ PivotCopy(q) \/ PivotMark(q) \/ DryRun(q)
            \/ FindOpen(q) \/ FindWrite(q) \/ mark_as_det_done(q)
            \/ TrimUnlink(q) \/ TrimOpen(q) \/ TrimWrite(q) \/ SaveCrash(q)
  <2>1. /\ pc[q] # "nuke" /\ pc'[q] \in Loaded /\ resume' = resume
        /\ pc'[q] # "clean"
    BY <1>0, <1>10 DEF Pivot, PivotCopy, PivotMark, DryRun, FindOpen,
           FindWrite, mark_as_det_done, TrimUnlink, TrimOpen, TrimWrite,
           SaveCrash, Loaded, Pivoting, Fuzzing
  <2> QED BY <2>1 DEF OwnDense
<1>11. ~(Start(q) \/ MakeOutDir(q) \/ Lock(q))
  BY DEF Start, MakeOutDir, Lock, Unlocked
<1> QED BY <1>3, <1>4, <1>5, <1>6, <1>7, <1>8, <1>9, <1>10, <1>11
        DEF Step, User

LEMMA DenseStep ==
    ASSUME Inv, Tidy, Dense, NEW q \in Proc, Step(q) \/ User(q), torn' = {}
    PROVE  Dense'
<1>1. ASSUME NEW p \in Proc, p # q
      PROVE  pc'[p] = pc[p] /\ mode'[p] = mode[p]
  BY <1>1, OthersStay DEF Inv
<1>2. CASE pc[q] \notin Unlocked
  <2>1. ASSUME NEW p \in Proc, p # q
        PROVE  pc'[p] \in Unlocked /\ pc[p] \in Unlocked
    BY <1>1, <1>2, <2>1 DEF Inv, LockHeld
  <2>2. ASSUME NEW p \in Proc, pc[p] \in Unlocked \/ pc'[p] \in Unlocked
        PROVE  /\ pc[p] \in Unlocked =>
                      pc[p] \notin Loaded \cup {"nuke", "clean"}
               /\ pc'[p] \in Unlocked =>
                      pc'[p] \notin Loaded \cup {"nuke", "clean"}
    BY DEF Unlocked, Loaded, Pivoting, Fuzzing
  <2>3. OwnDense(q)
    BY <2>1, <2>2 DEF Dense, OwnDense
  <2>4. OwnInv(q) /\ OwnTidy(q)
    BY DEF Inv, OwnInv, LockHeld, Tidy, OwnTidy
  <2>5. OwnDense(q)'
    BY <1>2, <2>3, <2>4, OwnDenseStep
  <2> QED BY <2>1, <2>2, <2>5 DEF Dense, OwnDense
<1>3. CASE pc[q] \in Unlocked
  <2>1. UNCHANGED <<queue, resume>>
    BY <1>3, OutsiderKeeps
  <2>2. /\ pc[q] \notin Loaded \cup {"nuke", "clean"}
        /\ pc'[q] \notin Loaded \cup {"nuke", "clean"}
    <3>1. pc[q] \notin Loaded \cup {"nuke", "clean"}
      BY <1>3 DEF Unlocked, Loaded, Pivoting, Fuzzing
    <3>2. pc'[q] \in Unlocked \cup {"check", "make"}
      <4>1. Start(q) \/ MakeOutDir(q) \/ Lock(q) \/ Kill(q)
        BY <1>3 DEF Unlocked, Step, User, Check, Move, Clean, CleanCrashes,
               CleanRest, MakeQueue, MakeState, Read, Pivot, PivotCopy,
               PivotMark, nuke_resume_dir, DryRun, StatsOpen, StatsWrite,
               FindOpen, FindWrite, mark_as_det_done, TrimUnlink, TrimOpen,
               TrimWrite, SaveCrash, ShowStats
      <4> QED BY <4>1 DEF Start, MakeOutDir, Lock, Kill, Goto, Gone, Unlocked,
                 Inv, Types, Locals
    <3> QED BY <3>1, <3>2 DEF Unlocked, Loaded, Pivoting, Fuzzing
  <2> QED BY <1>1, <2>1, <2>2 DEF Dense
<1> QED BY <1>2, <1>3

-----------------------------------------------------------------------------
(* Places                                                                  *)

InDir(d, k, c) == k \in DOMAIN d.ent /\ d.ent[k] = c

InQueue(m, k, c) == \E i \in DOMAIN m : k = i - 1 /\ m[i].case = c

(* Case c is, or will be, entry k of queue/.                               *)
Place(k, c) ==
    \/ InDir(queue, k, c) \/ InDir(resume, k, c)
    \/ \E p \in Proc : InQueue(mem[p], k, c)

(* No case has two numbers.                                                *)
OnePlace ==
    \A c : c # Cut =>
        \A k, j \in Nat : Place(k, c) /\ Place(j, c) => k = j

LEMMA BelowInSegment ==
    ASSUME NEW n \in Nat, NEW k \in 1 .. n
    PROVE  Ranked(0 .. n - 1, k) = k - 1
<1> DEFINE S == 0 .. n - 1
           below(x) == {m \in S : m < x}
<1>1. ASSUME NEW x \in S
      PROVE  Cardinality(below(x)) = x
  <2>1. below(x) = 0 .. x - 1
    OBVIOUS
  <2>2. CASE x = 0
    <3>1. below(x) = {}
      BY <2>1, <2>2
    <3> HIDE DEF below
    <3> QED BY <2>2, <3>1, FS_EmptySet
  <2>3. CASE x # 0
    <3>1. Cardinality(0 .. x - 1) = (x - 1) - 0 + 1
      <4>1. 0 \in Int /\ x - 1 \in Int /\ 0 <= x - 1
        BY <2>3
      <4> QED BY <4>1, FS_Interval
    <3> HIDE DEF below
    <3> QED BY <2>1, <3>1
  <2> QED BY <2>2, <2>3
<1>2. Ranked(S, k) = CHOOSE x \in S : Cardinality(below(x)) = k - 1
  BY DEF Ranked
<1>3. k - 1 \in S
  OBVIOUS
<1> HIDE DEF below, S
<1>4. Ranked(S, k) \in S /\ Cardinality(below(Ranked(S, k))) = k - 1
  BY <1>1, <1>2, <1>3
<1>5. Ranked(S, k) = k - 1
  BY <1>1, <1>4
<1> QED BY <1>5 DEF S

(* What is in a directory without gaps keeps its numbers when it is read.  *)
LEMMA ScanKeepsPlaces ==
    ASSUME NEW d, IsDir(d), IsTidy(d), Segment(d), NEW i \in DOMAIN Scanned(d)
    PROVE  i - 1 \in DOMAIN d.ent /\ d.ent[i - 1] = Scanned(d)[i].case
<1>1. PICK n \in Nat : Whole(d) = 0 .. n - 1
  BY DEF Segment
<1>2. Cardinality(0 .. n - 1) = n
  <2>1. CASE n = 0
    <3>1. 0 .. n - 1 = {}
      BY <2>1
    <3> QED BY <2>1, <3>1, FS_EmptySet
  <2>2. CASE n # 0
    <3>1. 0 \in Int /\ n - 1 \in Int /\ 0 <= n - 1
      BY <2>2
    <3>2. Cardinality(0 .. n - 1) = (n - 1) - 0 + 1
      BY <3>1, FS_Interval
    <3> QED BY <3>2
  <2> QED BY <2>1, <2>2
<1>3. i \in 1 .. n /\ Scanned(d)[i].case = d.ent[Ranked(Whole(d), i)]
  BY <1>1, <1>2 DEF Scanned
<1>4. Ranked(Whole(d), i) = i - 1 /\ i - 1 \in Whole(d)
  BY <1>1, <1>3, BelowInSegment
<1> QED BY <1>3, <1>4 DEF Whole

OwnPlace(q, k, c) ==
    InDir(queue, k, c) \/ InDir(resume, k, c) \/ InQueue(mem[q], k, c)

(* A new case, and the one number it gets.                                 *)
Fresh(k, c, n) == c = cases + 1 /\ cases' = cases + 1 /\ k = n

NoNewPlace(q) ==
    \A k \in Nat : \A c :
        c # Cut /\ OwnPlace(q, k, c)' => OwnPlace(q, k, c)

LEMMA FileAddedPlace ==
    ASSUME NEW d, IsDir(d), NEW id, NEW case, NEW k, NEW c,
           InDir(WithFile(d, id, case), k, c)
    PROVE  InDir(d, k, c) \/ (k = id /\ c = case)
BY FileAdded DEF InDir

LEMMA FewerPlaces ==
    ASSUME NEW d, NEW e, DOMAIN e.ent \subseteq DOMAIN d.ent,
           \A k \in DOMAIN e.ent : e.ent[k] = d.ent[k], NEW k, NEW c,
           InDir(e, k, c)
    PROVE  InDir(d, k, c)
BY DEF InDir

(* The steps that write no entry, and those that remove some.              *)
LEMMA RemovalPlaces ==
    ASSUME NEW q \in Proc, OwnInv(q),
           \/ Move(q) \/ Clean(q) \/ nuke_resume_dir(q) \/ MakeQueue(q)
           \/ MakeState(q) \/ PivotMark(q) \/ TrimUnlink(q)
    PROVE  NoNewPlace(q)
<1>0. /\ IsDir(queue) /\ IsDir(resume) /\ Locals /\ DOMAIN mem = Proc
      /\ DOMAIN <<>> = {}
  BY EmptySeq DEF OwnInv, Types, Dirs, Queues
<1>1. ASSUME NEW k, NEW c
      PROVE  ~InDir(NoDir, k, c) /\ ~InDir(NewDir, k, c)
                /\ ~InQueue(<<>>, k, c)
  BY <1>0, NewDirIsDir DEF InDir, InQueue, NoDir
<1>2. CASE Move(q)
  BY <1>1, <1>2 DEF Move, locals, NoNewPlace, OwnPlace
<1>3. CASE Clean(q)
  <2>1. /\ UNCHANGED <<resume, mem>>
        /\ queue' = queue \/ queue' \in Removals(queue)
    BY <1>3 DEF Clean, locals
  <2>2. /\ DOMAIN queue'.ent \subseteq DOMAIN queue.ent
        /\ \A k \in DOMAIN queue'.ent : queue'.ent[k] = queue.ent[k]
    BY <1>0, <2>1, RemovalLeaves
  <2>3. ASSUME NEW k, NEW c, InDir(queue', k, c)
        PROVE  InDir(queue, k, c)
    BY <2>2, <2>3, FewerPlaces
  <2> QED BY <2>1, <2>3 DEF NoNewPlace, OwnPlace
<1>4. CASE nuke_resume_dir(q)
  <2>1. /\ UNCHANGED <<queue, mem>>
        /\ resume' = resume \/ resume' \in Removals(resume)
    BY <1>4 DEF nuke_resume_dir, locals
  <2>2. /\ DOMAIN resume'.ent \subseteq DOMAIN resume.ent
        /\ \A k \in DOMAIN resume'.ent : resume'.ent[k] = resume.ent[k]
    BY <1>0, <2>1, RemovalLeaves
  <2>3. ASSUME NEW k, NEW c, InDir(resume', k, c)
        PROVE  InDir(resume, k, c)
    BY <2>2, <2>3, FewerPlaces
  <2> QED BY <2>1, <2>3 DEF NoNewPlace, OwnPlace
<1>5. CASE MakeQueue(q)
  <2>1. /\ resume' = resume /\ queue' \in {queue, NewDir}
        /\ mem'[q] \in {mem[q], <<>>}
    BY <1>0, <1>5 DEF MakeQueue, Gone, locals
  <2> QED BY <1>1, <2>1 DEF NoNewPlace, OwnPlace
<1>6. CASE MakeState(q) \/ PivotMark(q)
  <2>1. queue'.ent = queue.ent /\ UNCHANGED <<resume, mem>>
    BY <1>0, <1>6 DEF MakeState, PivotMark, IsDir, locals
  <2> QED BY <2>1 DEF NoNewPlace, OwnPlace, InDir
<1>7. CASE TrimUnlink(q)
  <2>1. PICK k \in DOMAIN mem[q] :
            queue' = [queue EXCEPT !.ent =
                         [id \in DOMAIN @ \ {k - 1} |-> @[id]]]
    BY <1>7 DEF TrimUnlink
  <2>2. queue'.ent = [id \in DOMAIN queue.ent \ {k - 1} |-> queue.ent[id]]
    BY <1>0, <2>1 DEF IsDir
  <2>3. UNCHANGED <<resume, mem>>
    BY <1>7 DEF TrimUnlink
  <2> QED BY <2>2, <2>3 DEF NoNewPlace, OwnPlace, InDir
<1> QED BY <1>2, <1>3, <1>4, <1>5, <1>6, <1>7

(* The steps that write an entry of memory, or one without content.        *)
LEMMA WritePlaces ==
    ASSUME NEW q \in Proc, OwnInv(q),
           \/ Pivot(q) \/ PivotCopy(q) \/ FindOpen(q) \/ TrimOpen(q)
           \/ TrimWrite(q)
    PROVE  NoNewPlace(q)
<1>1. /\ IsDir(queue) /\ UNCHANGED <<resume, mem>>
      /\ DOMAIN mem[q] = 1 .. Len(mem[q]) /\ Len(mem[q]) \in Nat
  BY QueueLength DEF OwnInv, Types, Dirs, Queues, Pivot, PivotCopy, FindOpen,
     TrimOpen, TrimWrite, locals
<1>2. CASE queue' = queue
  BY <1>1, <1>2 DEF NoNewPlace, OwnPlace
<1>3. ASSUME NEW id, queue' = WithFile(queue, id, Cut)
      PROVE  NoNewPlace(q)
  BY <1>1, <1>3, FileAddedPlace DEF NoNewPlace, OwnPlace
<1>4. ASSUME at[q] \in DOMAIN mem[q],
             queue' = WithFile(queue, at[q] - 1, mem[q][at[q]].case)
      PROVE  NoNewPlace(q)
  <2>1. ASSUME NEW k \in Nat, NEW c, InDir(queue', k, c)
        PROVE  InDir(queue, k, c) \/ InQueue(mem[q], k, c)
    BY <1>1, <1>4, <2>1, FileAddedPlace DEF InQueue
  <2> QED BY <1>1, <2>1 DEF NoNewPlace, OwnPlace
<1>5. CASE Pivot(q)
  <2>1. at[q] \in 1 .. Len(mem[q]) + 1
    BY <1>5 DEF Pivot, OwnInv, OnDisk, Importing
  <2>2. \/ queue' = queue \/ queue' = WithFile(queue, at[q] - 1, Cut)
        \/ at[q] <= Len(mem[q])
           /\ queue' = WithFile(queue, at[q] - 1, mem[q][at[q]].case)
    BY <1>1, <1>5, <2>1 DEF Pivot, Imported
  <2> QED BY <1>1, <1>2, <1>3, <1>4, <2>1, <2>2
<1>6. CASE PivotCopy(q)
  <2>1. at[q] \in DOMAIN mem[q]
    BY <1>1, <1>6 DEF PivotCopy, OwnInv, OnDisk, Importing
  <2> QED BY <1>4, <1>6, <2>1 DEF PivotCopy, Imported
<1>7. CASE TrimWrite(q)
  <2>1. at[q] \in DOMAIN mem[q]
    BY <1>1, <1>7 DEF TrimWrite, OwnInv, OnDisk, Saving
  <2> QED BY <1>4, <1>7, <2>1 DEF TrimWrite
<1> QED BY <1>3, <1>5, <1>6, <1>7 DEF FindOpen, TrimOpen

LEMMA MarkPlaces ==
    ASSUME NEW q \in Proc, OwnInv(q), mark_as_det_done(q)
    PROVE  NoNewPlace(q)
<1>1. PICK k \in DOMAIN mem[q] :
          /\ queue' = [queue EXCEPT !.marks = @ \cup {k - 1}]
          /\ mem' = [mem EXCEPT ![q][k] =
                        [case |-> mem[q][k].case, det |-> TRUE]]
  BY DEF mark_as_det_done
<1>2. resume' = resume /\ IsDir(queue) /\ DOMAIN mem = Proc
  BY DEF mark_as_det_done, OwnInv, Types, Dirs, Queues
<1>3. queue'.ent = queue.ent
  BY <1>1, <1>2 DEF IsDir
<1>4. /\ DOMAIN mem'[q] = DOMAIN mem[q]
      /\ \A j \in DOMAIN mem[q] : mem'[q][j].case = mem[q][j].case
  BY <1>1, <1>2
<1> QED BY <1>2, <1>3, <1>4 DEF NoNewPlace, OwnPlace, InDir, InQueue

LEMMA ReadPlaces ==
    ASSUME NEW q \in Proc, OwnInv(q), OwnTidy(q), Segment(resume), Read(q)
    PROVE  \A k \in Nat : \A c :
               c # Cut /\ OwnPlace(q, k, c)' =>
                   OwnPlace(q, k, c) \/ Fresh(k, c, 0)
<1> USE DEF Gone, Goto
<1>1. /\ UNCHANGED <<queue, resume>> /\ DOMAIN mem = Proc /\ IsDir(resume)
      /\ IsTidy(resume) /\ DOMAIN <<>> = {}
  BY EmptySeq DEF Read, files, OwnInv, Types, Queues, Dirs, OwnTidy
<1>2. CASE mem'[q] = <<>>
  BY <1>1, <1>2 DEF OwnPlace, InQueue
<1>3. CASE mem'[q] = Scanned(resume)
  <2>1. ASSUME NEW k, NEW c, InQueue(mem'[q], k, c)
        PROVE  InDir(resume, k, c)
    BY <1>1, <1>3, <2>1, ScanKeepsPlaces DEF InQueue, InDir
  <2> QED BY <1>1, <2>1 DEF OwnPlace
<1>4. CASE /\ cases' = cases + 1
           /\ mem'[q] = <<[case |-> cases + 1, det |-> FALSE]>>
  <2>1. DOMAIN mem'[q] = {1} /\ mem'[q][1].case = cases + 1
    BY <1>4
  <2>2. ASSUME NEW k, NEW c, InQueue(mem'[q], k, c)
        PROVE  Fresh(k, c, 0)
    BY <1>4, <2>1, <2>2 DEF InQueue, Fresh
  <2> QED BY <1>1, <2>2 DEF OwnPlace
<1>5. CASE mode[q] = "resume"
  BY <1>1, <1>2, <1>3, <1>5 DEF Read
<1>6. CASE mode[q] # "resume"
  BY <1>1, <1>4, <1>6 DEF Read
<1> QED BY <1>5, <1>6

LEMMA FindPlaces ==
    ASSUME NEW q \in Proc, OwnInv(q), cases \in Nat, FindWrite(q)
    PROVE  \A k \in Nat : \A c :
               c # Cut /\ OwnPlace(q, k, c)' =>
                   OwnPlace(q, k, c) \/ Fresh(k, c, Len(mem[q]))
<1> DEFINE n == Len(mem[q])
           e == [case |-> cases', det |-> FALSE]
<1>1. /\ cases' = cases + 1 /\ queue' = WithFile(queue, n, cases')
      /\ mem'[q] = Append(mem[q], e) /\ resume' = resume
      /\ IsDir(queue) /\ IsQueue(mem[q])
      /\ n \in Nat /\ DOMAIN mem[q] = 1 .. n
  BY QueueLength DEF FindWrite, OwnInv, Types, Queues, Dirs
<1>2. IsEntry(e) /\ e.case = cases + 1
  BY <1>1 DEF IsEntry
<1> HIDE DEF e
<1>3. /\ DOMAIN mem'[q] = 1 .. n + 1 /\ mem'[q][n + 1] = e
      /\ \A i \in 1 .. n : mem'[q][i] = mem[q][i]
  BY <1>1, <1>2, EntryAppended, QueueLength
<1>4. ASSUME NEW k \in Nat, NEW c, InQueue(mem'[q], k, c)
      PROVE  InQueue(mem[q], k, c) \/ Fresh(k, c, n)
  <2>1. PICK i \in 1 .. n + 1 : k = i - 1 /\ mem'[q][i].case = c
    BY <1>3, <1>4 DEF InQueue
  <2>2. CASE i = n + 1
    BY <1>1, <1>2, <1>3, <2>1, <2>2 DEF Fresh
  <2>3. CASE i # n + 1
    <3>1. i \in 1 .. n
      BY <1>1, <2>3
    <3> QED BY <1>1, <1>3, <2>1, <3>1 DEF InQueue
  <2> QED BY <2>2, <2>3
<1>5. ASSUME NEW k \in Nat, NEW c, InDir(queue', k, c)
      PROVE  InDir(queue, k, c) \/ Fresh(k, c, n)
  BY <1>1, <1>5, FileAddedPlace DEF Fresh
<1> QED BY <1>1, <1>4, <1>5 DEF OwnPlace

LEMMA OwnPlaceStep ==
    ASSUME NEW q \in Proc, OwnInv(q), OwnTidy(q), OwnSized(q), OwnDense(q),
           Step(q) \/ User(q)
    PROVE  \E n \in Nat : \A k \in Nat : \A c :
               c # Cut /\ OwnPlace(q, k, c)' =>
                   OwnPlace(q, k, c) \/ Fresh(k, c, n)
<1>1. 0 \in Nat /\ Len(mem[q]) \in Nat /\ cases \in Nat /\ DOMAIN mem = Proc
  BY QueueLength DEF OwnInv, Types, Queues, OwnTidy
<1>2. ASSUME NoNewPlace(q)
      PROVE  \E n \in Nat : \A k \in Nat : \A c :
                 c # Cut /\ OwnPlace(q, k, c)' =>
                     OwnPlace(q, k, c) \/ Fresh(k, c, n)
  BY <1>1, <1>2 DEF NoNewPlace
<1>3. CASE Read(q)
  <2>1. Segment(resume)
    BY <1>3 DEF Read, OwnDense
  <2> QED BY <1>1, <1>3, <2>1, ReadPlaces
<1>4. CASE FindWrite(q)
  BY <1>1, <1>4, FindPlaces
<1>5. CASE \/ Start(q) \/ MakeOutDir(q) \/ Lock(q) \/ Check(q)
           \/ CleanCrashes(q) \/ CleanRest(q) \/ DryRun(q) \/ StatsOpen(q)
           \/ StatsWrite(q) \/ SaveCrash(q) \/ ShowStats(q) \/ Kill(q)
  <2>1. UNCHANGED <<queue, resume>> /\ mem'[q] \in {mem[q], <<>>}
    BY <1>1, <1>5 DEF Start, MakeOutDir, Lock, Check, CleanCrashes, CleanRest,
           DryRun, StatsOpen, StatsWrite, SaveCrash, ShowStats, Kill, Gone,
           files, locals
  <2>2. ASSUME NEW k, NEW c
        PROVE  ~InQueue(<<>>, k, c)
    BY EmptySeq DEF InQueue
  <2>3. NoNewPlace(q)
    BY <2>1, <2>2 DEF NoNewPlace, OwnPlace
  <2> QED BY <1>2, <2>3
<1> QED BY <1>2, <1>3, <1>4, <1>5, RemovalPlaces, WritePlaces, MarkPlaces
        DEF Step, User

LEMMA PlaceStep ==
    ASSUME Inv, Tidy, Sized, Dense, NEW q \in Proc, Step(q) \/ User(q)
    PROVE  \E n \in Nat : \A k \in Nat : \A c :
               c # Cut /\ Place(k, c)' => Place(k, c) \/ Fresh(k, c, n)
<1>1. OwnInv(q) /\ OwnTidy(q) /\ OwnSized(q)
  BY DEF Inv, OwnInv, LockHeld, Tidy, OwnTidy, Sized, OwnSized
<1>2. ASSUME NEW p \in Proc, p # q
      PROVE  mem'[p] = mem[p]
  BY <1>2, OthersStay DEF Inv
<1>3. CASE pc[q] \notin Unlocked
  <2>1. ASSUME NEW p \in Proc, p # q
        PROVE  pc[p] \notin Loaded \cup {"nuke", "clean"}
    BY <1>3, <2>1 DEF Inv, LockHeld, Unlocked, Loaded, Pivoting, Fuzzing
  <2>2. OwnDense(q)
    BY <2>1 DEF Dense, OwnDense
  <2>3. PICK n \in Nat : \A k \in Nat : \A c :
            c # Cut /\ OwnPlace(q, k, c)' =>
                OwnPlace(q, k, c) \/ Fresh(k, c, n)
    BY <1>1, <2>2, OwnPlaceStep
  <2>4. ASSUME NEW k \in Nat, NEW c, c # Cut, Place(k, c)'
        PROVE  Place(k, c) \/ Fresh(k, c, n)
    <3>1. CASE OwnPlace(q, k, c)'
      BY <2>3, <2>4, <3>1 DEF Place, OwnPlace
    <3>2. CASE ~OwnPlace(q, k, c)'
      <4>1. PICK p \in Proc : InQueue(mem'[p], k, c)
        BY <2>4, <3>2 DEF Place, OwnPlace
      <4>2. p # q
        BY <3>2, <4>1 DEF OwnPlace
      <4> QED BY <1>2, <4>1, <4>2 DEF Place
    <3> QED BY <3>1, <3>2
  <2> QED BY <2>4
<1>4. CASE pc[q] \in Unlocked
  <2>1. UNCHANGED <<queue, resume>>
    BY <1>4, OutsiderKeeps
  <2>2. mem'[q] \in {mem[q], <<>>}
    <3>1. Start(q) \/ MakeOutDir(q) \/ Lock(q) \/ Kill(q)
      BY <1>4 DEF Unlocked, Step, User, Check, Move, Clean, CleanCrashes,
             CleanRest, MakeQueue, MakeState, Read, Pivot, PivotCopy,
             PivotMark, nuke_resume_dir, DryRun, StatsOpen, StatsWrite,
             FindOpen, FindWrite, mark_as_det_done, TrimUnlink, TrimOpen,
             TrimWrite, SaveCrash, ShowStats
    <3> QED BY <3>1 DEF Start, MakeOutDir, Lock, Kill, Gone, locals, Inv,
               Types, Queues
  <2>3. ASSUME NEW k, NEW c
        PROVE  ~InQueue(<<>>, k, c)
    BY EmptySeq DEF InQueue
  <2>4. ASSUME NEW k \in Nat, NEW c, Place(k, c)'
        PROVE  Place(k, c)
    <3>1. ASSUME NEW p \in Proc, InQueue(mem'[p], k, c)
          PROVE  InQueue(mem[p], k, c)
      BY <1>2, <2>2, <2>3, <3>1
    <3> QED BY <2>1, <2>4, <3>1 DEF Place
  <2>5. 0 \in Nat
    OBVIOUS
  <2> QED BY <2>4, <2>5
<1> QED BY <1>3, <1>4

LEMMA PlacedIsCase ==
    ASSUME Inv, Sized, NEW k, NEW c, c # Cut, Place(k, c)
    PROVE  c \in 1 .. cases
<1>1. ASSUME NEW d, DirOK(d, cases), InDir(d, k, c)
      PROVE  c \in 1 .. cases
  BY <1>1 DEF DirOK, InDir, Kept, Whole
<1> QED BY <1>1 DEF Sized, QueueOK, Place, InQueue

LEMMA OnePlaceStep ==
    ASSUME Inv, Tidy, Sized, Dense, OnePlace, NEW q \in Proc,
           Step(q) \/ User(q)
    PROVE  OnePlace'
<1>1. PICK n \in Nat : \A k \in Nat : \A c :
          c # Cut /\ Place(k, c)' => Place(k, c) \/ Fresh(k, c, n)
  BY PlaceStep
<1>2. cases \in Nat
  BY DEF Tidy
<1>3. ASSUME NEW c, c # Cut, NEW k \in Nat, NEW j \in Nat, Place(k, c)',
             Place(j, c)'
      PROVE  k = j
  <2>1. /\ Place(k, c) \/ Fresh(k, c, n)
        /\ Place(j, c) \/ Fresh(j, c, n)
    BY <1>1, <1>3
  <2>2. Place(k, c) \/ Place(j, c) => c \in 1 .. cases
    BY <1>3, PlacedIsCase
  <2>3. c \in 1 .. cases => ~Fresh(k, c, n) /\ ~Fresh(j, c, n)
    BY <1>2 DEF Fresh
  <2>4. CASE Place(k, c) /\ Place(j, c)
    BY <1>3, <2>4 DEF OnePlace
  <2>5. CASE Fresh(k, c, n) /\ Fresh(j, c, n)
    BY <2>5 DEF Fresh
  <2> QED BY <2>1, <2>2, <2>3, <2>4, <2>5
<1> QED BY <1>3 DEF OnePlace

LEMMA TornStays ==
    ASSUME NEW q \in Proc, Step(q) \/ User(q)
    PROVE  torn \subseteq torn'
<1> USE DEF history
<1>1. CASE Kill(q)
  BY <1>1 DEF Kill
<1>2. CASE ~Kill(q)
  BY <1>2 DEF Step, User, Start, MakeOutDir, Lock, Check, Move, Clean,
         CleanCrashes, CleanRest, MakeQueue, MakeState, Read, Pivot,
         PivotCopy, PivotMark, nuke_resume_dir, DryRun, StatsOpen,
         StatsWrite, FindOpen, FindWrite, mark_as_det_done, TrimUnlink,
         TrimOpen, TrimWrite, SaveCrash, ShowStats
<1> QED BY <1>1, <1>2

-----------------------------------------------------------------------------
(* The directory, whoever reads it                                         *)

(* Unless a kill has torn queue/ or _resume/, nothing is renumbered.       *)
Ordered == torn = {} => Dense /\ OnePlace

DirInv == Inv /\ Tidy /\ Sized /\ Ordered

LEMMA DirInvInit == Init => DirInv
<1> SUFFICES ASSUME Init PROVE DirInv
  OBVIOUS
<1>1. /\ queue = NoDir /\ resume = NoDir /\ cases = 0 /\ starts = 0
      /\ DOMAIN NoDir.ent = {} /\ ~NoDir.exists /\ DOMAIN <<>> = {}
      /\ \A p \in Proc : pc[p] = "off" /\ mem[p] = <<>> /\ Len(mem[p]) = 0
  BY EmptyQueue, EmptySeq DEF Init, NoDir
<1>2. Tidy
  BY <1>1, NewDirIsTidy DEF Tidy, HasDir, Before, Unlocked, Loaded, Pivoting,
     Fuzzing
<1>3. Sized
  <2>1. Numbers
    <3>1. /\ out_dir = FALSE /\ stale = FALSE /\ torn = {} /\ crashes = {}
          /\ backups = {} /\ crashed = {} /\ fuzzer_stats = "none"
      BY DEF Init
    <3>2. {out_dir, stale} \subseteq BOOLEAN
      BY <3>1
    <3> QED BY <1>1, <3>1, <3>2, OutDirAssumption DEF Numbers
  <2>2. DirOK(queue, cases) /\ DirOK(resume, cases)
    BY <1>1, NewDirIsOK
  <2>3. ASSUME NEW p \in Proc
        PROVE  QueueOK(p) /\ Held(p)
    BY <1>1, EmptySeq DEF QueueOK, Held, Loaded, Pivoting, Fuzzing
  <2> QED BY <2>1, <2>2, <2>3 DEF Sized
<1>4. Dense
  BY <1>1, NoFilesNoGaps DEF Dense
<1>5. OnePlace
  BY <1>1 DEF OnePlace, Place, InDir, InQueue
<1> QED BY <1>2, <1>3, <1>4, <1>5, InvInit DEF DirInv, Ordered

LEMMA DirInvNext == DirInv /\ [DirNext]_dirvars => DirInv'
<1> SUFFICES ASSUME DirInv, [DirNext]_dirvars PROVE DirInv'
  OBVIOUS
<1>1. CASE DirNext
  <2>1. PICK q \in Proc : Step(q) \/ User(q)
    BY <1>1 DEF DirNext
  <2>2. Inv' /\ Tidy' /\ Sized'
    BY <2>1, InvStep, TidyStep, SizedStep DEF DirInv
  <2>3. torn' = {} => Dense' /\ OnePlace'
    BY <2>1, TornStays, DenseStep, OnePlaceStep DEF DirInv, Ordered
  <2> QED BY <2>2, <2>3 DEF DirInv, Ordered
<1>2. CASE UNCHANGED dirvars
  <2> USE <1>2 DEF dirvars, files, locals, counts, history
  <2>1. Inv'
    BY InvNext DEF DirInv
  <2>2. Tidy'
    BY DEF DirInv, Tidy, HasDir, IsTidy
  <2>3. Sized'
    BY DEF DirInv, Sized, Numbers, DirOK, QueueOK, Held, Whole, Kept
  <2>4. Ordered'
    BY DEF DirInv, Ordered, Dense, Full, Empty, Segment, Whole, OnePlace,
           Place, InDir, InQueue
  <2> QED BY <2>1, <2>2, <2>3, <2>4 DEF DirInv
<1> QED BY <1>1, <1>2

LEMMA SizedTypes == Inv /\ Sized => DirTypeOK
<1> SUFFICES ASSUME Inv, Sized PROVE DirTypeOK
  OBVIOUS
<1>1. ASSUME NEW d \in {queue, resume}
      PROVE  /\ {d.exists, d.state} \subseteq BOOLEAN
             /\ DOMAIN d.ent \cup d.marks \subseteq 0 .. MaxCases - 1
             /\ Kept(d) \subseteq 1 .. cases
             /\ d.marks # {} => d.state
  <2>1. IsDir(d) /\ DirOK(d, cases)
    BY DEF Inv, Types, Dirs, Sized
  <2>2. d.exists \in BOOLEAN /\ d.state \in BOOLEAN
    BY <2>1 DEF IsDir
  <2> QED BY <2>1, <2>2 DEF DirOK
<1>2. /\ {out_dir, stale} \subseteq BOOLEAN
      /\ torn \subseteq {"queue", "resume"}
      /\ crashes \cup backups \cup crashed \subseteq 1 .. MaxStarts
      /\ fuzzer_stats \in {"none", "cut", "short", "long"}
      /\ lock \in Proc \cup {Nobody}
      /\ mode \in [Proc -> {"fresh", "resume"}]
  BY DEF Sized, Numbers, Inv, Types, Locals
<1> QED BY <1>1, <1>2 DEF DirTypeOK

(* Files, counters, marks and histories of the directory have their types  *)
(* for every number of processes, sessions and cases: no session numbers a *)
(* file beyond the cases there have been, and no mark is left without its  *)
(* directory.                                                              *)
THEOREM TypeCorrect == Spec => []DirTypeOK
<1>1. DirInv => DirTypeOK
  BY SizedTypes DEF DirInv
<1> QED BY <1>1, DirInvInit, DirInvNext, PTL DEF Spec

-----------------------------------------------------------------------------
(* The fuzzer that imports                                                 *)

(* A round of sync_fuzzers leaves the other fuzzer's directory alone: with *)
(* a reader beside it, the directory behaves as OutDir says.               *)
THEOREM ReaderIsHarmless == SyncSpec => Spec
<1>1. SyncInit => Init
  BY DEF SyncInit
<1>2. [Next]_vars => [DirNext]_dirvars
  BY DEF Next, vars, SyncBegin, SyncEntry, SyncStop, SyncStore, OtherStep
<1> QED BY <1>1, <1>2, PTL DEF SyncSpec, Spec

ReaderTypes ==
    /\ min_accept \in 0 .. MaxCases /\ next_min_accept \in 0 .. MaxCases
    /\ syncing \in BOOLEAN /\ left \subseteq 0 .. MaxCases
    /\ returned \subseteq names /\ names \subseteq 0 .. MaxCases - 1
    /\ stopped \in 0 .. rounds /\ rounds \in 0 .. MaxRounds
    /\ syncing => stopped < rounds
    /\ tried \in [1 .. MaxCases -> Nat]
    /\ DOMAIN opened \subseteq 0 .. MaxCases - 1
    /\ ~syncing => returned = {} /\ DOMAIN opened = {}

(* What was whole when the round began and has not left since is still     *)
(* there as it was; if it was returned and asked for, it was run.          *)
Seen ==
    \A id \in DOMAIN opened \ left :
        /\ InDir(queue, id, opened[id]) /\ opened[id] # Cut
        /\ id \in returned /\ id >= min_accept => tried[opened[id]] > 0

(* A case whose number is not below the minimum, and was not returned in   *)
(* this round, was run only in rounds that were broken off.                *)
Counted ==
    /\ \A c \in 1 .. MaxCases : c > cases => tried[c] = 0
    /\ \A id \in returned : id < next_min_accept \/ id < min_accept
    /\ syncing => min_accept <= next_min_accept
    /\ torn = {} =>
           \A c \in 1 .. MaxCases :
               /\ tried[c] <= 1 + stopped
               /\ \A k \in Nat :
                      Place(k, c) /\ k >= min_accept /\ k \notin returned =>
                          tried[c] <= stopped

SyncInv == DirInv /\ ReaderTypes /\ Seen /\ Counted

LEMMA SyncInvInit == SyncInit => SyncInv
<1> SUFFICES ASSUME SyncInit PROVE SyncInv
  OBVIOUS
<1>1. DirInv
  BY DirInvInit DEF SyncInit
<1>2. ReaderTypes /\ Seen /\ Counted
  <2>1. DOMAIN opened = {}
    BY EmptySeq DEF SyncInit
  <2>2. ReaderTypes
    <3>1. /\ min_accept = 0 /\ next_min_accept = 0 /\ syncing = FALSE
          /\ names = {} /\ returned = {} /\ left = {} /\ rounds = 0
          /\ stopped = 0 /\ tried = [c \in 1 .. MaxCases |-> 0]
      BY DEF SyncInit
    <3>2. tried \in [1 .. MaxCases -> Nat]
      BY <3>1
    <3>3. MaxCases \in Nat /\ MaxRounds \in Nat
      BY OutDirAssumption, RoundsAssumption
    <3>4. syncing \in BOOLEAN /\ ~syncing
      BY <3>1
    <3>5. /\ min_accept \in 0 .. MaxCases /\ next_min_accept \in 0 .. MaxCases
          /\ stopped \in 0 .. rounds /\ rounds \in 0 .. MaxRounds
      BY <3>1, <3>3
    <3>6. /\ left \subseteq 0 .. MaxCases /\ names \subseteq 0 .. MaxCases - 1
          /\ returned \subseteq names
          /\ DOMAIN opened \subseteq 0 .. MaxCases - 1
      BY <2>1, <3>1
    <3> QED BY <2>1, <3>1, <3>2, <3>4, <3>5, <3>6, Zenon DEF ReaderTypes
  <2>3. Seen
    BY <2>1 DEF Seen
  <2>4. Counted
    BY DEF SyncInit, Counted
  <2> QED BY <2>2, <2>3, <2>4
<1> QED BY <1>1, <1>2 DEF SyncInv

LEMMA SyncBeginKeeps ==
    ASSUME SyncInv, SyncBegin
    PROVE  ReaderTypes' /\ Seen' /\ Counted'
<1> USE DEF SyncInv
<1>1. DirOK(queue, cases) /\ MaxCases \in Nat /\ cases \in 0 .. MaxCases
  BY OutDirAssumption DEF DirInv, Sized, Numbers
<1>2. DOMAIN opened' = Whole(queue) /\ Whole(queue) \subseteq DOMAIN queue.ent
  BY DEF SyncBegin, Whole
<1>3. ReaderTypes'
  BY <1>1, <1>2, RoundsAssumption DEF SyncBegin, ReaderTypes, DirOK
<1>4. Seen'
  <2>1. queue' = queue /\ returned' = {}
    BY DEF SyncBegin, dirvars, files
  <2>2. ASSUME NEW id \in Whole(queue)
        PROVE  InDir(queue, id, opened'[id]) /\ opened'[id] # Cut
    BY DEF SyncBegin, Whole, InDir
  <2> QED BY <1>2, <2>1, <2>2 DEF Seen
<1>5. Counted'
  <2>1. /\ returned' = {} /\ next_min_accept' = min_accept /\ returned = {}
        /\ UNCHANGED <<min_accept, tried, stopped, torn, cases, queue, resume,
                       mem>>
    BY DEF SyncBegin, ReaderTypes, dirvars, files, locals, counts, history
  <2>2. \A k, c : Place(k, c)' <=> Place(k, c)
    BY <2>1 DEF Place, InDir, InQueue
  <2> QED BY <2>1, <2>2 DEF Counted, ReaderTypes
<1> QED BY <1>3, <1>4, <1>5

LEMMA SyncEndKeeps ==
    ASSUME SyncInv, SyncStop \/ SyncStore
    PROVE  ReaderTypes' /\ Seen' /\ Counted'
<1> USE DEF SyncInv
<1>1. /\ syncing' = FALSE /\ next_min_accept' = 0 /\ names' = {}
      /\ returned' = {} /\ DOMAIN opened' = {} /\ left' = {}
      /\ UNCHANGED <<queue, resume, mem, cases, torn, tried, rounds>>
      /\ syncing
  BY EmptySeq DEF SyncStop, SyncStore, Forget, dirvars, files, locals, counts,
     history
<1>2. \/ min_accept' = min_accept /\ stopped' = stopped + 1
      \/ min_accept' = next_min_accept /\ stopped' = stopped
  BY DEF SyncStop, SyncStore, KeptOnStop
<1>3. Seen'
  BY <1>1 DEF Seen
<1>4. \A k, c : Place(k, c)' <=> Place(k, c)
  BY <1>1 DEF Place, InDir, InQueue
<1>5. /\ stopped \in Nat /\ \A c \in 1 .. MaxCases : tried[c] \in Nat
      /\ \A id \in returned : id \in Nat
      /\ min_accept \in Nat /\ next_min_accept \in Nat
  BY OutDirAssumption DEF ReaderTypes
<1>6. Counted'
  <2>1. ASSUME torn = {}, NEW c \in 1 .. MaxCases
        PROVE  /\ tried[c] <= 1 + stopped'
               /\ \A k \in Nat : Place(k, c) /\ k >= min_accept' =>
                      tried[c] <= stopped'
    <3>1. /\ tried[c] <= 1 + stopped
          /\ \A k \in Nat :
                 Place(k, c) /\ k >= min_accept /\ k \notin returned =>
                     tried[c] <= stopped
      BY <2>1 DEF Counted
    <3>2. CASE stopped' = stopped + 1
      BY <1>5, <3>1, <3>2
    <3>3. CASE min_accept' = next_min_accept /\ stopped' = stopped
      <4>1. ASSUME NEW k \in Nat, k >= next_min_accept
            PROVE  k >= min_accept /\ k \notin returned
        BY <1>1, <1>5, <4>1 DEF Counted
      <4> QED BY <3>1, <3>3, <4>1
    <3> QED BY <1>2, <3>2, <3>3
  <2>2. \A c \in 1 .. MaxCases : c > cases => tried[c] = 0
    BY DEF Counted
  <2> HIDE DEF SyncInv
  <2> QED BY <1>1, <1>4, <2>1, <2>2 DEF Counted
<1>7. ReaderTypes'
  <2>1. stopped' \in 0 .. rounds
    <3>1. CASE SyncStore
      BY <3>1 DEF SyncStore, ReaderTypes
    <3>2. CASE SyncStop
      BY <3>2 DEF SyncStop, ReaderTypes
    <3> QED BY <3>1, <3>2
  <2>2. min_accept' \in 0 .. MaxCases
    BY <1>2 DEF ReaderTypes
  <2>3. syncing' \in BOOLEAN /\ ~syncing'
    BY <1>1, Zenon
  <2>5. next_min_accept' \in 0 .. MaxCases
    <3>1. MaxCases \in Nat
      BY OutDirAssumption
    <3>2. 0 \in 0 .. MaxCases
      BY ONLY <3>1
    <3> QED BY <1>1, <3>2, Zenon
  <2>4. /\ rounds' = rounds /\ rounds \in 0 .. MaxRounds
        /\ tried' \in [1 .. MaxCases -> Nat]
    BY <1>1 DEF ReaderTypes
  <2> QED BY <1>1, <2>1, <2>2, <2>3, <2>4, <2>5 DEF ReaderTypes
<1> QED BY <1>3, <1>6, <1>7

LEMMA SyncEntryKeeps ==
    ASSUME SyncInv, NEW id \in names, SyncEntry(id)
    PROVE  ReaderTypes' /\ Seen' /\ Counted'
<1> USE DEF SyncInv
<1>1. /\ syncing /\ id \notin returned /\ returned' = returned \cup {id}
      /\ UNCHANGED <<queue, resume, mem, cases, torn, min_accept, syncing,
                     names, opened, left, rounds, stopped>>
  BY DEF SyncEntry, dirvars, files, locals, counts, history
<1>2. /\ MaxCases \in Nat /\ id \in 0 .. MaxCases - 1 /\ id \in Nat
      /\ min_accept \in 0 .. MaxCases /\ next_min_accept \in 0 .. MaxCases
      /\ min_accept <= next_min_accept /\ stopped \in Nat
      /\ \A k \in returned : k \in Nat
      /\ tried \in [1 .. MaxCases -> Nat]
  BY <1>1, OutDirAssumption DEF ReaderTypes, Counted
<1>3. /\ next_min_accept' \in 0 .. MaxCases
      /\ next_min_accept <= next_min_accept'
      /\ id >= min_accept => id < next_min_accept'
  BY <1>2 DEF SyncEntry, AsksFor, Beyond
<1> DEFINE case == queue.ent[id]
           asked == id >= min_accept /\ id \in Whole(queue)
<1>4. asked => case \in 1 .. cases /\ case \in 1 .. MaxCases /\ case # Cut
  <2>1. DirOK(queue, cases) /\ cases \in 0 .. MaxCases
    BY DEF DirInv, Sized, Numbers
  <2>2. asked => case \in Kept(queue) /\ case # Cut
    BY DEF Kept, Whole
  <2> HIDE DEF asked, case
  <2> QED BY <1>2, <2>1, <2>2 DEF DirOK
<1>5. tried' = IF asked THEN [tried EXCEPT ![case] = @ + 1] ELSE tried
  BY DEF SyncEntry, AsksFor
<1> HIDE DEF asked, case
<1>6. /\ tried' \in [1 .. MaxCases -> Nat]
      /\ \A c \in 1 .. MaxCases :
             tried'[c] = IF asked /\ c = case THEN tried[c] + 1 ELSE tried[c]
  BY <1>2, <1>4, <1>5
<1>7. ReaderTypes'
  <2>1. returned' \subseteq names
    BY <1>1 DEF ReaderTypes
  <2> QED BY <1>1, <1>2, <1>3, <1>6, <2>1 DEF ReaderTypes
<1>8. Seen'
  <2>1. ASSUME NEW k \in DOMAIN opened \ left
        PROVE  /\ InDir(queue, k, opened[k]) /\ opened[k] # Cut
               /\ k \in returned' /\ k >= min_accept => tried'[opened[k]] > 0
    <3>1. /\ InDir(queue, k, opened[k]) /\ opened[k] # Cut
          /\ k \in returned /\ k >= min_accept => tried[opened[k]] > 0
      BY DEF Seen
    <3>2. opened[k] \in 1 .. MaxCases
      <4>1. DirOK(queue, cases) /\ cases \in 0 .. MaxCases
        BY DEF DirInv, Sized, Numbers
      <4>2. opened[k] \in Kept(queue)
        BY <3>1 DEF InDir, Kept, Whole
      <4> QED BY <1>2, <4>1, <4>2 DEF DirOK
    <3>3. k = id /\ k >= min_accept => asked /\ case = opened[k]
      BY <3>1 DEF asked, case, InDir, Whole
    <3>4. tried[opened[k]] \in Nat
      BY <1>2, <3>2
    <3> QED BY <1>1, <1>6, <3>1, <3>2, <3>3, <3>4
  <2> QED BY <1>1, <2>1 DEF Seen
<1>9. Counted'
  <2>1. ASSUME NEW c \in 1 .. MaxCases, c > cases
        PROVE  tried'[c] = 0
    <3>1. tried[c] = 0
      BY <2>1 DEF Counted
    <3>2. asked => case # c
      BY <1>4, <2>1 DEF DirInv, Tidy
    <3> QED BY <1>6, <3>1, <3>2
  <2>2. ASSUME NEW k \in returned'
        PROVE  k < next_min_accept' \/ k < min_accept
    <3>1. k \in returned => k < next_min_accept \/ k < min_accept
      BY DEF Counted
    <3> QED BY <1>1, <1>2, <1>3, <2>2, <3>1
  <2>3. min_accept <= next_min_accept'
    BY <1>2, <1>3
  <2>4. ASSUME torn = {}, NEW c \in 1 .. MaxCases
        PROVE  /\ tried'[c] <= 1 + stopped
               /\ \A k \in Nat :
                      Place(k, c) /\ k >= min_accept /\ k \notin returned' =>
                          tried'[c] <= stopped
    <3>1. /\ tried[c] <= 1 + stopped
          /\ \A k \in Nat :
                 Place(k, c) /\ k >= min_accept /\ k \notin returned =>
                     tried[c] <= stopped
      BY <2>4 DEF Counted
    <3>2. CASE asked /\ c = case
      <4>1. Place(id, c) /\ id >= min_accept /\ c # Cut
        BY <1>4, <3>2 DEF asked, case, Place, InDir, Whole
      <4>2. tried[c] <= stopped
        BY <1>1, <1>2, <3>1, <4>1
      <4>3. \A k \in Nat : Place(k, c) => k = id
        BY <1>2, <2>4, <4>1 DEF DirInv, Ordered, OnePlace
      <4>4. tried'[c] <= 1 + stopped
        BY <1>2, <1>6, <3>2, <4>2
      <4> QED BY <1>1, <4>3, <4>4
    <3>3. CASE ~(asked /\ c = case)
      <4>1. tried'[c] = tried[c]
        BY <1>6, <3>3
      <4> QED BY <1>1, <3>1, <4>1
    <3> QED BY <3>2, <3>3
  <2>5. \A k, c : Place(k, c)' <=> Place(k, c)
    BY <1>1 DEF Place, InDir, InQueue
  <2> HIDE DEF SyncInv
  <2> QED BY <1>1, <2>1, <2>2, <2>3, <2>4, <2>5 DEF Counted
<1> QED BY <1>7, <1>8, <1>9

LEMMA OtherStepKeeps ==
    ASSUME SyncInv, OtherStep
    PROVE  ReaderTypes' /\ Seen' /\ Counted'
<1> USE DEF SyncInv
<1>1. /\ UNCHANGED <<min_accept, syncing, next_min_accept, returned, opened,
                     tried, rounds, stopped>>
  BY DEF OtherStep
<1>2. PICK q \in Proc : Step(q) \/ User(q)
  BY DEF OtherStep, DirNext
<1>3. DirInv'
  BY DirInvNext DEF OtherStep
<1>4. /\ DOMAIN queue.ent \subseteq 0 .. MaxCases - 1
      /\ DOMAIN queue'.ent \subseteq 0 .. MaxCases - 1
      /\ MaxCases \in Nat /\ cases \in Nat /\ cases' \in Nat
      /\ cases <= cases'
  <2>1. DirOK(queue, cases) /\ DirOK(queue', cases')
    BY <1>3 DEF DirInv, Sized
  <2>2. cases \in Nat /\ starts \in Nat
    BY DEF DirInv, Sized, Numbers
  <2>3. cases' \in Nat /\ cases <= cases'
    BY <1>2, <2>2, CountsGrow
  <2> QED BY <2>1, <2>2, <2>3, OutDirAssumption DEF DirOK
<1>5. /\ left' \subseteq 0 .. MaxCases /\ names' \subseteq 0 .. MaxCases - 1
      /\ names \subseteq names' /\ left \subseteq left'
      /\ syncing => DOMAIN queue.ent \ DOMAIN queue'.ent \subseteq left'
      /\ syncing /\ ~queue'.exists => left' = 0 .. MaxCases
  <2>1. left \subseteq 0 .. MaxCases /\ names \subseteq 0 .. MaxCases - 1
    BY DEF ReaderTypes
  <2>2. CASE ~syncing
    <3>1. UNCHANGED <<left, names>>
      BY <2>2 DEF OtherStep
    <3> QED BY <2>1, <2>2, <3>1
  <2>3. CASE syncing
    <3>1. /\ left' = IF queue'.exists
                     THEN left \cup (DOMAIN queue.ent \ DOMAIN queue'.ent)
                     ELSE 0 .. MaxCases
          /\ names' = IF left' = Everything THEN names
                      ELSE names \cup DOMAIN queue'.ent
      BY <2>3 DEF OtherStep, Everything
    <3>2. DOMAIN queue.ent \subseteq 0 .. MaxCases
      BY <1>4
    <3>3. names' \subseteq 0 .. MaxCases - 1 /\ names \subseteq names'
      BY <1>4, <2>1, <3>1
    <3>4. left' \subseteq 0 .. MaxCases /\ left \subseteq left'
      BY <2>1, <3>1, <3>2
    <3>5. DOMAIN queue.ent \ DOMAIN queue'.ent \subseteq left'
      BY <3>1, <3>2
    <3> QED BY <3>1, <3>3, <3>4, <3>5
  <2> QED BY <2>2, <2>3
<1>6. ReaderTypes'
  <2>1. returned \subseteq names'
    BY <1>5 DEF ReaderTypes
  <2> QED BY <1>1, <1>5, <2>1 DEF ReaderTypes
<1>7. Seen'
  <2>1. ASSUME NEW id \in DOMAIN opened \ left'
        PROVE  /\ InDir(queue', id, opened[id]) /\ opened[id] # Cut
               /\ id \in returned /\ id >= min_accept => tried[opened[id]] > 0
    <3>1. syncing /\ id \in 0 .. MaxCases
      BY <1>4 DEF ReaderTypes
    <3>2. /\ InDir(queue, id, opened[id]) /\ opened[id] # Cut
          /\ id \in returned /\ id >= min_accept => tried[opened[id]] > 0
      BY <1>5 DEF Seen
    <3>3. queue'.exists /\ id \in DOMAIN queue'.ent
      BY <1>5, <3>1, <3>2 DEF InDir
    <3>4. queue'.ent[id] = queue.ent[id]
      BY <1>2, <3>2, <3>3, ContentStays DEF InDir, DirInv
    <3> QED BY <3>2, <3>3, <3>4 DEF InDir
  <2> QED BY <1>1, <2>1 DEF Seen
<1>8. Counted'
  <2>1. \A c \in 1 .. MaxCases : c > cases' => tried[c] = 0
    BY <1>4 DEF Counted
  <2>2. ASSUME torn' = {}, NEW c \in 1 .. MaxCases
        PROVE  /\ tried[c] <= 1 + stopped
               /\ \A k \in Nat :
                      Place(k, c)' /\ k >= min_accept /\ k \notin returned =>
                          tried[c] <= stopped
    <3>1. torn = {}
      BY <1>2, <2>2, TornStays
    <3>2. PICK n \in Nat : \A k \in Nat : \A b :
              b # Cut /\ Place(k, b)' => Place(k, b) \/ Fresh(k, b, n)
      BY <1>2, <3>1, PlaceStep DEF DirInv, Ordered
    <3>3. c # Cut /\ stopped \in Nat
      BY DEF Cut, ReaderTypes
    <3>4. ASSUME NEW k \in Nat, Fresh(k, c, n)
          PROVE  tried[c] <= stopped
      <4>1. tried[c] = 0
        BY <1>4, <3>4 DEF Fresh, Counted
      <4> QED BY <3>3, <4>1
    <3>5. /\ tried[c] <= 1 + stopped
          /\ \A k \in Nat :
                 Place(k, c) /\ k >= min_accept /\ k \notin returned =>
                     tried[c] <= stopped
      BY <3>1 DEF Counted
    <3> QED BY <3>2, <3>3, <3>4, <3>5
  <2>3. /\ \A id \in returned : id < next_min_accept \/ id < min_accept
        /\ syncing => min_accept <= next_min_accept
    BY DEF Counted
  <2> HIDE DEF SyncInv
  <2> QED BY <1>1, <2>1, <2>2, <2>3 DEF Counted
<1> QED BY <1>6, <1>7, <1>8

LEMMA SyncInvNext == SyncInv /\ [Next]_vars => SyncInv'
<1> SUFFICES ASSUME SyncInv, [Next]_vars PROVE SyncInv'
  OBVIOUS
<1>1. DirInv'
  <2>1. [DirNext]_dirvars
    BY DEF Next, vars, SyncBegin, SyncEntry, SyncStop, SyncStore, OtherStep
  <2> QED BY <2>1, DirInvNext DEF SyncInv
<1>2. CASE Next
  BY <1>1, <1>2, SyncBeginKeeps, SyncEndKeeps, SyncEntryKeeps, OtherStepKeeps
     DEF Next, SyncInv
<1>3. CASE UNCHANGED vars
  <2>1. /\ UNCHANGED <<queue, resume, mem, cases, torn, min_accept, syncing,
                       next_min_accept, names, returned, opened, left, tried,
                       rounds, stopped>>
    BY <1>3 DEF vars, dirvars, round, files, locals, counts, history
  <2>2. ReaderTypes' /\ Seen'
    BY <2>1 DEF SyncInv, ReaderTypes, Seen, InDir
  <2>3. \A k, c : Place(k, c)' <=> Place(k, c)
    BY <2>1 DEF Place, InDir, InQueue
  <2>4. Counted'
    BY <2>1, <2>3 DEF SyncInv, Counted
  <2> QED BY <1>1, <2>2, <2>4 DEF SyncInv
<1> QED BY <1>2, <1>3

LEMMA SyncInvariance == SyncSpec => []SyncInv
BY SyncInvInit, SyncInvNext, PTL DEF SyncSpec

(* The types of the importing fuzzer: the minimum it stores never exceeds  *)
(* the numbers a file can have, and fewer rounds are broken off than there *)
(* were.                                                                   *)
THEOREM SyncTypeCorrect == SyncSpec => []SyncTypeOK
<1>1. SyncInv => SyncTypeOK
  BY SizedTypes DEF SyncInv, DirInv, ReaderTypes, SyncTypeOK
<1> QED BY <1>1, SyncInvariance, PTL

(* A round passes over nothing, wherever the other fuzzer is killed,       *)
(* resumes or starts afresh while the directory is read: when the minimum  *)
(* is stored, every case that was whole when the round began, and has      *)
(* stayed, has been run.                                                   *)
THEOREM NothingPassedOver == SyncSpec => SyncTriesAll
<1> DEFINE A == min_accept' # min_accept =>
                    \A id \in DOMAIN opened \ left :
                        id >= min_accept => tried[opened[id]] > 0
<1>1. SyncInv /\ [Next]_vars => [A]_vars
  <2> SUFFICES ASSUME SyncInv, Next, min_accept' # min_accept,
                      NEW id \in DOMAIN opened \ left, id >= min_accept
               PROVE  tried[opened[id]] > 0
    OBVIOUS
  <2>1. SyncStore
    BY DEF Next, SyncBegin, SyncEntry, SyncStop, KeptOnStop, OtherStep
  <2>2. id \in returned
    BY <2>1 DEF SyncStore, AllReturned
  <2> QED BY <2>2 DEF SyncInv, Seen
<1> HIDE DEF A
<1>2. SyncSpec => [][A]_vars
  BY <1>1, SyncInvariance, PTL DEF SyncSpec
<1> QED BY <1>2 DEF SyncTriesAll, A

(* The minimum does its work across the sessions of the other fuzzer: as   *)
(* long as no kill has torn queue/ or _resume/, a case is run a second     *)
(* time only for a round that was broken off.                              *)
THEOREM NothingTwice == SyncSpec => []TriedOnce
<1>1. SyncInv => TriedOnce
  BY DEF SyncInv, Counted, TriedOnce
<1> QED BY <1>1, SyncInvariance, PTL

=============================================================================

----------------------------- MODULE TMinProofs -----------------------------
(***************************************************************************)
(* What afl-tmin keeps still does what the file did, for every target,     *)
(* every file, all options and all block sizes; and nothing of what it     *)
(* writes in the end can be left out.                                      *)
(***************************************************************************)
EXTENDS TMin, FiniteSetTheorems, SequenceTheorems, TLAPS

(* A file that may be kept.                                                *)
Faithful(d) ==
    d = subj.in_data \/ \E o \in Outcomes(subj.target, d) : Keep(o)

(* Nothing is written before the end, which nothing follows.               *)
NotWritten == pc \notin {"done", "aborted"} => out_file = {}

(* The character stage comes back from every byte to the file it keeps.    *)
CopyInStep == pc = "character" => tmp_buf = in_data

Inv ==
    /\ NotWritten /\ CopyInStep
    /\ pc \in {"dry", "fatal"} => in_data = subj.in_data
    /\ \A d \in {in_data} \cup out_file : Faithful(d)

(* After the dry run the verdict on an outcome does not change.            *)
LEMMA VerdictStays ==
    ASSUME UNCHANGED <<subj, dry_run>>, NEW d
    PROVE  Faithful(d)' = Faithful(d)
<1>1. \A o : Keep(o)' = Keep(o)
  BY DEF dry_run, Keep, TimedOut, Crashed, trace_bits, apply_mask,
         classify_counts
<1> QED BY <1>1 DEF Faithful

(* What an execution said to keep may be kept.                             *)
LEMMA KeptIsRun ==
    ASSUME NEW d, TRUE \in run_target(d)
    PROVE  Faithful(d)
BY DEF run_target, Faithful

LEMMA InvInit == Init => Inv
BY DEF Init, Inv, NotWritten, CopyInStep, Faithful

LEMMA DryRunInv == Inv /\ DryRun => Inv'
<1> SUFFICES ASSUME Inv, DryRun PROVE Inv'
  OBVIOUS
<1>1. /\ UNCHANGED <<subj, in_data, out_file>> /\ pc = "dry"
      /\ pc' \in {"fatal", "normalize"}
  BY DEF DryRun, Goto
<1>2. in_data = subj.in_data /\ out_file = {}
  BY <1>1 DEF Inv, NotWritten
<1> QED
  BY <1>1, <1>2 DEF Inv, NotWritten, CopyInStep, Faithful

(* The steps that leave files and verdicts alone.                          *)
LEMMA StutterInv ==
    ASSUME Inv, UNCHANGED <<subj, in_data, dry_run, out_file>>,
           pc \notin {"dry", "fatal", "done", "aborted"},
           pc' \notin {"dry", "fatal", "done", "aborted"},
           pc' = "character" => tmp_buf' = in_data
    PROVE  Inv'
BY VerdictStays DEF Inv, NotWritten, CopyInStep

(* The steps that replace the file by one that was run.                    *)
LEMMA ReplaceInv ==
    ASSUME Inv, UNCHANGED <<subj, dry_run, out_file, pc>>,
           pc \notin {"dry", "fatal", "done", "aborted"},
           NEW d, NEW res \in run_target(d),
           in_data' = IF res THEN d ELSE in_data,
           pc = "character" => tmp_buf' = in_data'
    PROVE  Inv'
<1>1. res \in BOOLEAN
  BY DEF run_target, Keep
<1>2. ASSUME NEW e, e \in {in_data'} \cup out_file'
      PROVE  Faithful(e)'
  <2>1. CASE e = d /\ res
    BY <2>1, KeptIsRun, VerdictStays
  <2>2. CASE e \in {in_data} \cup out_file
    BY <2>2, VerdictStays DEF Inv
  <2> QED BY <1>1, <1>2, <2>1, <2>2
<1> QED BY <1>2 DEF Inv, NotWritten, CopyInStep

(* Writing the file ends the run.                                          *)
LEMMA WrittenInv ==
    ASSUME Inv, UNCHANGED <<subj, in_data, dry_run>>,
           out_file' = {in_data}, pc' \in {"done", "aborted"}
    PROVE  Inv'
BY VerdictStays DEF Inv, NotWritten, CopyInStep

LEMMA InvNext == Inv /\ [Next]_vars => Inv'
<1> SUFFICES ASSUME Inv, [Next]_vars PROVE Inv'
  OBVIOUS
<1>1. CASE DryRun
  BY <1>1, DryRunInv
<1>2. CASE NormalizeBlock
  BY <1>2, ReplaceInv DEF NormalizeBlock, TriesBlank
<1>3. CASE BlankAlready
  BY <1>3, StutterInv DEF BlankAlready
<1>4. CASE FirstPass
  BY <1>4, StutterInv DEF FirstPass, StartPass, Goto
<1>5. CASE DeleteBlock
  BY <1>5, ReplaceInv DEF DeleteBlock, TriesDeletion
<1>6. CASE SkipRepeat
  BY <1>6, StutterInv DEF SkipRepeat
<1>7. CASE HalveBlock
  BY <1>7, StutterInv DEF HalveBlock
<1>8. CASE EndDeletion
  BY <1>8, StutterInv DEF EndDeletion, Goto
<1>9. CASE ReplaceSymbol
  BY <1>9, ReplaceInv DEF ReplaceSymbol, TriesSymbol
<1>10. CASE StartCharacters
  BY <1>10, StutterInv DEF StartCharacters, Goto
<1>11. CASE ReplaceCharacter
  <2>1. PICK res \in run_target(Changed) :
          IF res THEN /\ in_data' = [in_data EXCEPT ![pos + 1] = Zero]
                      /\ tmp_buf' = Changed
          ELSE tmp_buf' = tmp_buf /\ in_data' = in_data
    BY <1>11 DEF ReplaceCharacter, PutBack
  <2>2. tmp_buf = in_data /\ pc = "character"
    BY <1>11 DEF Inv, CopyInStep, ReplaceCharacter, TriesCharacter
  <2>3. in_data' = (IF res THEN Changed ELSE in_data) /\ tmp_buf' = in_data'
    BY <2>1, <2>2 DEF Changed
  <2> QED BY <1>11, <2>2, <2>3, ReplaceInv DEF ReplaceCharacter
<1>12. CASE SkipZero
  BY <1>12, StutterInv DEF SkipZero, Inv, CopyInStep
<1>13. CASE EndPass
  BY <1>13, StutterInv DEF EndPass, StartPass, Goto
<1>14. CASE WriteOutput
  BY <1>14, WrittenInv DEF WriteOutput, write_to_file, Goto
<1>15. CASE Abort
  BY <1>15, WrittenInv DEF Abort, write_to_file, Goto
<1>16. CASE Interrupt
  BY <1>16, VerdictStays DEF Interrupt, Inv, NotWritten, CopyInStep
<1>17. CASE UNCHANGED vars
  BY <1>17, VerdictStays DEF vars, Inv, NotWritten, CopyInStep
<1> QED
  BY <1>1, <1>2, <1>3, <1>4, <1>5, <1>6, <1>7, <1>8, <1>9, <1>10, <1>11,
     <1>12, <1>13, <1>14, <1>15, <1>16, <1>17 DEF Next, Step

(* afl-tmin changes nothing of what the target does with the file: at any  *)
(* moment and in the end it holds, and writes, a file the target crashed   *)
(* on, or left the same trace with, as the one given.                      *)
THEOREM ResultIsFaithful == Spec => []KeptIsFaithful
<1>1. Inv => KeptIsFaithful
  BY DEF Inv, Faithful, KeptIsFaithful
<1> QED BY <1>1, InvInit, InvNext, PTL DEF Spec

-----------------------------------------------------------------------------
(* Naturals.                                                               *)

(* A nonempty set of naturals has a least element: the intervals 0..x are  *)
(* finite sets, and strict inclusion is well founded on those.             *)
LEMMA LeastElement ==
    ASSUME NEW T \in SUBSET Nat, T # {}
    PROVE  \E x \in T : \A y \in T : x <= y
<1> DEFINE F == {0 .. x : x \in T}
<1>1. F \subseteq FiniteSubsetsOf(Nat)
  <2> SUFFICES ASSUME NEW x \in T PROVE 0 .. x \in FiniteSubsetsOf(Nat)
    OBVIOUS
  <2>1. IsFiniteSet(0 .. x)
    BY FS_Interval
  <2>2. 0 .. x \in SUBSET Nat
    OBVIOUS
  <2> QED BY <2>1, <2>2 DEF FiniteSubsetsOf
<1>2. F # {}
  OBVIOUS
<1>3. PICK X \in F : \A Y \in F : ~ (<<Y, X>> \in StrictSubsetOrdering(Nat))
  <2> HIDE DEF F
  <2> QED BY <1>1, <1>2, FS_StrictSubsetOrderingWellFounded, WFMin
<1>4. PICK x \in T : X = 0 .. x
  BY <1>3
<1>5. ASSUME NEW y \in T, y < x PROVE FALSE
  <2> DEFINE Y == 0 .. y
  <2>1. Y \in F
    OBVIOUS
  <2>2. Y \subseteq X /\ Y # X
    BY <1>4, <1>5
  <2>3. Y \in SUBSET Nat /\ X \in SUBSET Nat
    BY <1>4
  <2>4. <<Y, X>> \in StrictSubsetOrdering(Nat)
    <3> HIDE DEF Y, F
    <3> QED BY <2>2, <2>3 DEF StrictSubsetOrdering
  <2> HIDE DEF Y, F
  <2> QED BY <1>3, <2>1, <2>4
<1> QED BY <1>5

(* Min of a nonempty set of naturals is its least element.                 *)
LEMMA MinIsLeast ==
    ASSUME NEW T \in SUBSET Nat, T # {}
    PROVE  Min(T) \in T /\ \A y \in T : Min(T) <= y
BY LeastElement DEF Min

(* Induction for a set of naturals.                                        *)
LEMMA SetInduction ==
    ASSUME NEW T \in SUBSET Nat, 0 \in T, \A n \in T : n + 1 \in T
    PROVE  T = Nat
<1> SUFFICES ASSUME Nat \ T # {} PROVE FALSE
  OBVIOUS
<1>1. PICK m \in Nat \ T : \A y \in Nat \ T : m <= y
  BY LeastElement
<1>2. m - 1 \in Nat
  BY <1>1
<1>3. m - 1 \in T
  BY <1>1, <1>2
<1> QED BY <1>1, <1>3

(* g holds the first n + 1 values that start with c and follow step.       *)
Prefix(c, step, n, g) ==
    /\ g \in [0 .. n -> Nat] /\ g[0] = c
    /\ \A k \in 0 .. n : k # n => g[k + 1] = step[g[k]]

(* There are as many values as one likes, and only these.                  *)
LEMMA PrefixExists ==
    ASSUME NEW c \in Nat, NEW step \in [Nat -> Nat], NEW n \in Nat
    PROVE  \E g : Prefix(c, step, n, g)
<1> DEFINE T == {m \in Nat : \E g : Prefix(c, step, m, g)}
<1>1. 0 \in T
  <2> DEFINE g == [k \in 0 .. 0 |-> c]
  <2>1. Prefix(c, step, 0, g)
    BY DEF Prefix
  <2> QED BY <2>1
<1>2. ASSUME NEW m \in T PROVE m + 1 \in T
  <2>1. PICK g : Prefix(c, step, m, g)
    OBVIOUS
  <2> DEFINE h == [k \in 0 .. m + 1 |->
                     IF k = m + 1 THEN step[g[m]] ELSE g[k]]
  <2>2. g \in [0 .. m -> Nat] /\ m \in Nat /\ m \in 0 .. m
    <3>1. m \in Nat /\ m \in 0 .. m
      OBVIOUS
    <3> QED BY <2>1, <3>1, Zenon DEF Prefix
  <2>3. step[g[m]] \in Nat
    BY <2>2
  <2>4. \A k \in 0 .. m + 1 : k # m + 1 => k \in 0 .. m
    BY <2>2
  <2>5. h \in [0 .. m + 1 -> Nat]
    BY <2>2, <2>3, <2>4
  <2>6. h[0] = c
    BY <2>1, <2>2 DEF Prefix
  <2>7. ASSUME NEW k \in 0 .. m + 1, k # m + 1
        PROVE  h[k + 1] = step[h[k]]
    <3>1. k \in 0 .. m /\ k + 1 \in 0 .. m + 1 /\ h[k] = g[k]
      BY <2>2, <2>7
    <3>2. CASE k = m
      BY <3>1, <3>2
    <3>3. CASE k # m
      <4>1. g[k + 1] = step[g[k]]
        BY <2>1, <3>1, <3>3 DEF Prefix
      <4>2. h[k + 1] = g[k + 1]
        BY <2>2, <3>1, <3>3
      <4> QED BY <3>1, <4>1, <4>2
    <3> QED BY <3>2, <3>3
  <2>8. Prefix(c, step, m + 1, h)
    <3> HIDE DEF h
    <3> QED BY <2>5, <2>6, <2>7 DEF Prefix
  <2> HIDE DEF h
  <2> QED BY <2>2, <2>8
<1>3. T = Nat
  <2> HIDE DEF T
  <2>1. T \in SUBSET Nat
    BY DEF T
  <2> QED BY <1>1, <1>2, <2>1, SetInduction
<1> QED BY <1>3

LEMMA PrefixesAgree ==
    ASSUME NEW c, NEW step, NEW m \in Nat, NEW n \in Nat,
           NEW g, NEW h,
           Prefix(c, step, m, g), Prefix(c, step, n, h),
           NEW k \in 0 .. m, k <= n
    PROVE  g[k] = h[k]
<1> DEFINE T == {j \in Nat : j <= m /\ j <= n => g[j] = h[j]}
<1>1. 0 \in T
  BY DEF Prefix
<1>2. ASSUME NEW j \in T PROVE j + 1 \in T
  <2> SUFFICES ASSUME j + 1 <= m, j + 1 <= n PROVE g[j + 1] = h[j + 1]
    OBVIOUS
  <2>1. j \in 0 .. m /\ j \in 0 .. n /\ j # m /\ j # n /\ g[j] = h[j]
    OBVIOUS
  <2> HIDE DEF T
  <2> QED BY <2>1 DEF Prefix
<1>3. T = Nat
  <2> HIDE DEF T
  <2>1. T \in SUBSET Nat
    BY DEF T
  <2> QED BY <1>1, <1>2, <2>1, SetInduction
<1> QED BY <1>3

(* A first value and a step give a function on the naturals.               *)
LEMMA StepFunction ==
    ASSUME NEW c \in Nat, NEW step \in [Nat -> Nat]
    PROVE  \E f \in [Nat -> Nat] :
             f[0] = c /\ \A n \in Nat : f[n + 1] = step[f[n]]
<1> DEFINE G(n) == CHOOSE g : Prefix(c, step, n, g)
           f == [n \in Nat |-> G(n)[n]]
<1>1. \A n \in Nat : Prefix(c, step, n, G(n))
  BY PrefixExists
<1> HIDE DEF G
<1>2. f \in [Nat -> Nat]
  BY <1>1 DEF Prefix
<1>3. f[0] = c
  BY <1>1 DEF Prefix
<1>4. ASSUME NEW n \in Nat PROVE f[n + 1] = step[f[n]]
  <2>1. Prefix(c, step, n, G(n)) /\ Prefix(c, step, n + 1, G(n + 1))
    BY <1>1
  <2>2. n \in 0 .. n /\ n \in 0 .. n + 1 /\ n # n + 1
    OBVIOUS
  <2>3. G(n)[n] = G(n + 1)[n]
    BY <2>1, <2>2, PrefixesAgree
  <2>4. G(n + 1)[n + 1] = step[G(n + 1)[n]]
    BY <2>1, <2>2 DEF Prefix
  <2> QED BY <2>3, <2>4
<1> HIDE DEF f
<1> QED BY <1>2, <1>3, <1>4

-----------------------------------------------------------------------------
(* The lengths of blocks.                                                  *)

(* Shifting gives the powers of two, of which the n-th is more than n.     *)
LEMMA DoubledGrows ==
    \A n \in Nat : Doubled[n] \in Nat /\ Doubled[n] >= n + 1
<1> DEFINE first(f) ==
             [n \in Nat |-> IF n = 0 THEN 1 ELSE 2 * f[n - 1]]
<1>0. PICK twice \in [Nat -> Nat] : \A x \in Nat : twice[x] = 2 * x
  <2> WITNESS [x \in Nat |-> 2 * x] \in [Nat -> Nat]
  <2> QED OBVIOUS
<1>1. PICK g \in [Nat -> Nat] :
        g[0] = 1 /\ \A n \in Nat : g[n + 1] = twice[g[n]]
  <2> HIDE DEF first
  <2>1. \A c \in Nat : \E g \in [Nat -> Nat] :
          g[0] = c /\ \A n \in Nat : g[n + 1] = twice[g[n]]
    BY StepFunction
  <2> QED BY <2>1
<1>2. g = first(g)
  <2>1. ASSUME NEW n \in Nat \ {0} PROVE g[n] = 2 * g[n - 1]
    <3>1. n - 1 \in Nat /\ g[n - 1] \in Nat /\ (n - 1) + 1 = n
      BY <1>1
    <3>2. g[(n - 1) + 1] = twice[g[n - 1]]
      BY <1>1, <3>1
    <3> QED BY <1>0, <3>1, <3>2
  <2> QED BY <1>1, <2>1
<1>3. Doubled = first(Doubled)
  BY <1>2 DEF Doubled
<1> DEFINE T == {n \in Nat : Doubled[n] \in Nat /\ Doubled[n] >= n + 1}
<1>4. Doubled[0] = 1
  BY <1>3
<1>5. ASSUME NEW n \in Nat PROVE Doubled[n + 1] = 2 * Doubled[n]
  <2>1. first(Doubled)[n + 1] = 2 * Doubled[(n + 1) - 1]
    OBVIOUS
  <2> QED BY <1>3, <2>1
<1>6. 0 \in T
  BY <1>4
<1>7. ASSUME NEW n \in T PROVE n + 1 \in T
  <2> HIDE DEF first
  <2> QED BY <1>5
<1>8. T = Nat
  <2> HIDE DEF T
  <2>1. T \in SUBSET Nat
    BY DEF T
  <2> QED BY <1>6, <1>7, <2>1, SetInduction
<1> QED BY <1>8

LEMMA PowerIsPositive ==
    ASSUME NEW val \in Nat
    PROVE  next_p2(val) \in Nat \ {0}
<1> DEFINE P == {p \in {Doubled[n] : n \in 0 .. val} : p >= val}
<1>1. P \subseteq Nat \ {0}
  BY DoubledGrows
<1>2. Doubled[val] \in P
  BY DoubledGrows
<1>3. Min(P) \in P
  <2> HIDE DEF P
  <2> QED BY <1>1, <1>2, MinIsLeast
<1> QED BY <1>1, <1>3 DEF next_p2

LEMMA QuotientIsNat ==
    ASSUME NEW a \in Nat, NEW b \in Nat \ {0}
    PROVE  a \div b \in Nat
OBVIOUS

LEMMA DelLenIsPositive ==
    ASSUME Len(in_data) \in Nat
    PROVE  DelLen \in Nat \ {0}
<1>1. TRIM_START_STEPS \in Nat \ {0}
  BY TMinAssumption
<1> QED BY <1>1, QuotientIsNat, PowerIsPositive DEF DelLen

LEMMA SetLenIsPositive ==
    ASSUME Len(in_data) \in Nat
    PROVE  SetLen \in Nat \ {0}
<1> DEFINE p == next_p2(Len(in_data) \div TMIN_SET_STEPS)
           m == TMIN_SET_MIN_SIZE
<1>1. TMIN_SET_STEPS \in Nat \ {0} /\ m \in Nat \ {0}
  BY TMinAssumption
<1>2. p \in Nat \ {0}
  BY <1>1, QuotientIsNat, PowerIsPositive
<1> HIDE DEF p, m
<1>3. \E x \in {m, p} : \A y \in {m, p} : x >= y
  BY <1>1, <1>2
<1>4. Max({m, p}) \in {m, p}
  BY <1>3 DEF Max
<1> QED BY <1>1, <1>2, <1>4 DEF SetLen, p, m

-----------------------------------------------------------------------------
(* The files tried are files.                                              *)

LEMMA FunctionIsFile ==
    ASSUME NEW S, NEW n \in Nat, NEW f \in [1 .. n -> S]
    PROVE  f \in Seq(S)
BY SeqDef

LEMMA FileIsFunction ==
    ASSUME NEW S, NEW d \in Seq(S)
    PROVE  /\ Len(d) \in Nat /\ DOMAIN d = 1 .. Len(d)
           /\ \A k \in 1 .. Len(d) : d[k] \in S
BY LenProperties, ElementOfSeq

(* The file with some bytes zeroed, as all stages but one make it.         *)
LEMMA ZeroedIsFile ==
    ASSUME NEW d \in Seq(AnySymbol), NEW e,
           DOMAIN e = DOMAIN d, e = [k \in DOMAIN d |-> e[k]],
           \A k \in DOMAIN d : e[k] \in {Zero, d[k]}
    PROVE  e \in Seq(AnySymbol)
<1>1. Len(d) \in Nat /\ DOMAIN d = 1 .. Len(d)
  BY FileIsFunction
<1>2. Zero \in AnySymbol
  BY DEF AnySymbol
<1>3. \A k \in 1 .. Len(d) : e[k] \in AnySymbol
  BY <1>1, <1>2, FileIsFunction
<1>4. e \in [1 .. Len(d) -> AnySymbol]
  BY <1>1, <1>3, Zenon
<1> QED BY <1>1, <1>4, FunctionIsFile

LEMMA GivenIsFile ==
    ASSUME NEW x \in Subjects
    PROVE  x.in_data \in Seq(AnySymbol)
<1> DEFINE d == x.in_data
<1>1. d \in Seq(Symbols(d))
  BY TMinAssumption
<1>2. Symbols(d) \subseteq AnySymbol
  BY DEF AnySymbol
<1> HIDE DEF d
<1>3. Len(d) \in Nat /\ DOMAIN d = 1 .. Len(d)
  BY <1>1, FileIsFunction
<1>4. \A k \in 1 .. Len(d) : d[k] \in AnySymbol
  BY <1>1, <1>2, FileIsFunction
<1>5. d \in [1 .. Len(d) -> AnySymbol]
  BY <1>1, <1>3, <1>4, LenProperties
<1>6. d \in Seq(AnySymbol)
  BY <1>3, <1>5, FunctionIsFile
<1> QED BY <1>6 DEF d

LEMMA DeletedIsFile ==
    ASSUME in_data \in Seq(AnySymbol), pos \in Nat, blk \in Nat,
           pos < Len(in_data)
    PROVE  Deleted \in Seq(AnySymbol)
<1>1. /\ Len(in_data) \in Nat
      /\ \A k \in 1 .. Len(in_data) : in_data[k] \in AnySymbol
  BY FileIsFunction
<1>2. SubSeq(in_data, 1, pos) \in Seq(AnySymbol)
  <2>1. \A k \in 1 .. pos : in_data[k] \in AnySymbol
    BY <1>1
  <2> QED BY <2>1, SubSeqProperties
<1>3. SubSeq(in_data, pos + blk + 1, Len(in_data)) \in Seq(AnySymbol)
  <2>1. \A k \in pos + blk + 1 .. Len(in_data) : in_data[k] \in AnySymbol
    BY <1>1
  <2>2. pos + blk + 1 \in Int /\ Len(in_data) \in Int
    BY <1>1
  <2> QED BY <2>1, <2>2, SubSeqProperties
<1> QED BY <1>2, <1>3, ConcatProperties DEF Deleted

-----------------------------------------------------------------------------
(* Types.                                                                  *)

(* Symbols are left to try only in the alphabet stage and after a stop.    *)
Shape ==
    /\ TypeOK
    /\ pc \notin {"alphabet", "aborted"} => alpha = {}

LEMMA ShapeInit == Init => Shape
<1> SUFFICES ASSUME Init PROVE Shape
  OBVIOUS
<1>1. in_data \in Seq(AnySymbol)
  BY GivenIsFile DEF Init
<1>2. tmp_buf \in Seq(AnySymbol)
  BY EmptySeq DEF Init
<1>3. /\ subj \in Subjects /\ pos \in Nat /\ blk \in Nat \ {0}
      /\ cur_pass \in {1, 2} /\ pc = "dry"
  BY DEF Init
<1>4. /\ crash_mode \in BOOLEAN /\ prev_del \in BOOLEAN
      /\ changed_any \in BOOLEAN /\ stop_soon \in BOOLEAN
      /\ alpha = {} /\ out_file = {}
  BY DEF Init
<1> QED BY <1>1, <1>2, <1>3, <1>4 DEF Shape, TypeOK

(* The steps that leave the file alone.                                    *)
LEMMA SameFileShape ==
    ASSUME Shape, UNCHANGED <<subj, in_data>>,
           crash_mode' \in BOOLEAN, tmp_buf' \in {tmp_buf, in_data},
           pc' \in {"dry", "normalize", "delete", "alphabet", "character",
                   "write", "fatal", "done", "aborted"},
           pos' \in Nat, blk' \in Nat \ {0}, prev_del' \in BOOLEAN,
           cur_pass' \in {1, 2}, changed_any' \in BOOLEAN,
           alpha' \subseteq Symbols(in_data), stop_soon' \in BOOLEAN,
           out_file' \in {out_file, {in_data}},
           pc' \notin {"alphabet", "aborted"} => alpha' = {}
    PROVE  Shape'
<1>1. tmp_buf' \in Seq(AnySymbol) /\ out_file' \subseteq {in_data}
  BY DEF Shape, TypeOK
<1>2. Symbols(in_data)' = Symbols(in_data) /\ AnySymbol' = AnySymbol
  BY DEF Symbols, AnySymbol
<1> QED BY <1>1, <1>2 DEF Shape, TypeOK

(* The steps that may change it.                                           *)
LEMMA OtherFileShape ==
    ASSUME Shape, UNCHANGED <<subj, crash_mode, pc, blk, cur_pass, stop_soon>>,
           in_data' \in Seq(AnySymbol), tmp_buf' \in Seq(AnySymbol),
           pos' \in Nat, prev_del' \in BOOLEAN, changed_any' \in BOOLEAN,
           out_file = {}, out_file' = {},
           alpha' \subseteq Symbols(in_data'),
           pc \notin {"alphabet", "aborted"} => alpha' = {}
    PROVE  Shape'
<1>1. Symbols(in_data)' = Symbols(in_data') /\ AnySymbol' = AnySymbol
  BY DEF Symbols, AnySymbol
<1> QED BY <1>1 DEF Shape, TypeOK

LEMMA VerdictIsBoolean ==
    ASSUME NEW d, NEW res \in run_target(d) PROVE res \in BOOLEAN
BY DEF run_target, Keep

LEMMA DryRunShape == Shape /\ DryRun => Shape'
<1> SUFFICES ASSUME Shape, DryRun PROVE Shape'
  OBVIOUS
<1>1. Len(in_data) \in Nat
  BY FileIsFunction DEF Shape, TypeOK
<1>2. /\ pos' \in Nat /\ blk' \in Nat \ {0} /\ pc' \in {"fatal", "normalize"}
  BY <1>1, SetLenIsPositive DEF DryRun, Goto, Shape, TypeOK
<1>3. crash_mode' \in BOOLEAN
  BY DEF DryRun, TimedOut, Crashed
<1>4. /\ UNCHANGED <<subj, in_data, tmp_buf, prev_del, cur_pass, changed_any,
                     alpha, stop_soon, out_file>>
      /\ pc = "dry"
  BY DEF DryRun, pass
<1> QED BY <1>2, <1>3, <1>4, SameFileShape DEF Shape, TypeOK

LEMMA NormalizeShape == Inv /\ Shape /\ NormalizeBlock => Shape'
<1> SUFFICES ASSUME Inv, Shape, NormalizeBlock PROVE Shape'
  OBVIOUS
<1>1. PICK res \in run_target(Blank) :
        in_data' = IF res THEN Blank ELSE in_data
  BY DEF NormalizeBlock
<1>2. Blank \in Seq(AnySymbol)
  BY ZeroedIsFile DEF Blank, Shape, TypeOK
<1>3. in_data' \in Seq(AnySymbol)
  BY <1>1, <1>2 DEF Shape, TypeOK
<1>4. /\ UNCHANGED <<subj, tmp_buf, crash_mode, pc, blk, prev_del, cur_pass,
                     changed_any, alpha, stop_soon, out_file>>
      /\ pc = "normalize" /\ pos' = pos + blk
  BY DEF NormalizeBlock, TriesBlank, pass, dry_run
<1>5. alpha = {} /\ out_file = {} /\ pos' \in Nat
  BY <1>4 DEF Shape, TypeOK, Inv, NotWritten
<1> QED BY <1>3, <1>4, <1>5, OtherFileShape DEF Shape, TypeOK

LEMMA StartPassShape ==
    ASSUME Shape, StartPass, cur_pass' \in {1, 2}, alpha = {},
           UNCHANGED <<subj, in_data, tmp_buf, crash_mode, alpha, stop_soon,
                       out_file>>
    PROVE  Shape'
<1>1. Len(in_data) \in Nat
  BY FileIsFunction DEF Shape, TypeOK
<1>2. /\ changed_any' \in BOOLEAN /\ prev_del' \in BOOLEAN
      /\ blk' \in Nat \ {0} /\ pos' \in Nat /\ pc' = "delete"
  BY <1>1, DelLenIsPositive DEF StartPass, Goto
<1> QED BY <1>2, SameFileShape DEF Shape, TypeOK

LEMMA DeleteShape == Inv /\ Shape /\ DeleteBlock => Shape'
<1> SUFFICES ASSUME Inv, Shape, DeleteBlock PROVE Shape'
  OBVIOUS
<1>1. PICK res \in run_target(Deleted) :
        /\ prev_del' = res
        /\ IF res
             THEN in_data' = Deleted /\ changed_any' = TRUE /\ UNCHANGED pos
             ELSE pos' = pos + blk /\ UNCHANGED <<in_data, changed_any>>
  BY DEF DeleteBlock
<1>2. /\ UNCHANGED <<subj, tmp_buf, crash_mode, pc, blk, cur_pass, alpha,
                     stop_soon, out_file>>
      /\ pc = "delete" /\ pos < Len(in_data)
  BY DEF DeleteBlock, TriesDeletion, dry_run
<1>3. Deleted \in Seq(AnySymbol)
  BY <1>2, DeletedIsFile DEF Shape, TypeOK
<1>4. in_data' \in Seq(AnySymbol) /\ pos' \in Nat
  BY <1>1, <1>3 DEF Shape, TypeOK
<1>5. prev_del' \in BOOLEAN /\ changed_any' \in BOOLEAN
  <2>1. res \in BOOLEAN
    BY VerdictIsBoolean
  <2> QED BY <1>1, <2>1 DEF Shape, TypeOK
<1>6. alpha = {} /\ out_file = {}
  BY <1>2 DEF Shape, Inv, NotWritten
<1> QED BY <1>2, <1>4, <1>5, <1>6, OtherFileShape DEF Shape, TypeOK

LEMMA ReplaceSymbolShape == Inv /\ Shape /\ ReplaceSymbol => Shape'
<1> SUFFICES ASSUME Inv, Shape, ReplaceSymbol PROVE Shape'
  OBVIOUS
<1>1. PICK res \in run_target(Replaced) :
        IF res THEN in_data' = Replaced /\ changed_any' = TRUE
        ELSE UNCHANGED <<in_data, changed_any>>
  BY DEF ReplaceSymbol
<1>2. /\ UNCHANGED <<subj, tmp_buf, crash_mode, pc, pos, blk, prev_del,
                     cur_pass, stop_soon, out_file>>
      /\ pc = "alphabet" /\ alpha' = alpha \ {Symbol}
  BY DEF ReplaceSymbol, TriesSymbol, dry_run, loop
<1>3. Replaced \in Seq(AnySymbol)
  BY ZeroedIsFile DEF Replaced, Shape, TypeOK
<1>4. in_data' \in Seq(AnySymbol)
  BY <1>1, <1>3 DEF Shape, TypeOK
<1>5. changed_any' \in BOOLEAN
  BY <1>1 DEF Shape, TypeOK
<1>6. alpha' \subseteq Symbols(Replaced)
  <2> SUFFICES ASSUME NEW c \in alpha, c # Symbol
               PROVE  c \in Symbols(Replaced)
    BY <1>2
  <2>1. PICK k \in DOMAIN in_data : c = in_data[k]
    BY DEF Shape, TypeOK, Symbols
  <2>2. DOMAIN Replaced = DOMAIN in_data /\ Replaced[k] = c
    BY <2>1 DEF Replaced
  <2> QED BY <2>1, <2>2 DEF Symbols
<1>7. alpha' \subseteq Symbols(in_data')
  BY <1>1, <1>2, <1>6 DEF Shape, TypeOK
<1>8. out_file = {}
  BY <1>2 DEF Inv, NotWritten
<1> QED BY <1>2, <1>4, <1>5, <1>7, <1>8, OtherFileShape DEF Shape, TypeOK

LEMMA ReplaceCharacterShape == Inv /\ Shape /\ ReplaceCharacter => Shape'
<1> SUFFICES ASSUME Inv, Shape, ReplaceCharacter PROVE Shape'
  OBVIOUS
<1>1. PICK res \in run_target(Changed) :
        IF res THEN /\ in_data' = [in_data EXCEPT ![pos + 1] = Zero]
                    /\ tmp_buf' = Changed /\ changed_any' = TRUE
        ELSE tmp_buf' = tmp_buf /\ UNCHANGED <<in_data, changed_any>>
  BY DEF ReplaceCharacter, PutBack
<1>2. /\ UNCHANGED <<subj, crash_mode, pc, blk, prev_del, cur_pass, alpha,
                     stop_soon, out_file>>
      /\ pc = "character" /\ pos' = pos + 1
  BY DEF ReplaceCharacter, TriesCharacter, dry_run
<1>3. alpha = {} /\ out_file = {} /\ tmp_buf = in_data /\ pos' \in Nat
  BY <1>2 DEF Shape, TypeOK, Inv, NotWritten, CopyInStep
<1>4. Changed \in Seq(AnySymbol)
  BY <1>3, ZeroedIsFile DEF Changed, Shape, TypeOK
<1>5. in_data' \in Seq(AnySymbol) /\ tmp_buf' \in Seq(AnySymbol)
  BY <1>1, <1>3, <1>4 DEF Changed, Shape, TypeOK
<1>6. changed_any' \in BOOLEAN
  BY <1>1 DEF Shape, TypeOK
<1> QED BY <1>2, <1>3, <1>5, <1>6, OtherFileShape DEF Shape, TypeOK

LEMMA ShapeNext == Inv /\ Shape /\ [Next]_vars => Shape'
<1> SUFFICES ASSUME Inv, Shape, [Next]_vars PROVE Shape'
  OBVIOUS
<1> USE DEF dry_run, loop, pass, Goto
<1>1. CASE BlankAlready \/ SkipRepeat \/ SkipZero
  <2>1. /\ UNCHANGED <<subj, in_data, tmp_buf, crash_mode, pc, blk, prev_del,
                       cur_pass, changed_any, alpha, stop_soon, out_file>>
        /\ pos' \in Nat
    BY <1>1 DEF BlankAlready, SkipRepeat, SkipZero, Shape, TypeOK
  <2> QED BY <2>1, SameFileShape DEF Shape, TypeOK
<1>2. CASE FirstPass
  BY <1>2, StartPassShape DEF FirstPass, Shape, TypeOK
<1>3. CASE HalveBlock
  <2>1. blk' \in Nat \ {0}
    BY <1>3 DEF HalveBlock, GoesOn, Shape, TypeOK
  <2> QED BY <1>3, <2>1, SameFileShape DEF HalveBlock, Shape, TypeOK
<1>4. CASE EndDeletion
  <2>1. /\ alpha' \subseteq Symbols(in_data)
        /\ pc' \in {"write", "alphabet"}
        /\ pc' = "write" => alpha' = {}
    BY <1>4 DEF EndDeletion, Shape, TypeOK
  <2> QED BY <1>4, <2>1, SameFileShape DEF EndDeletion, Shape, TypeOK
<1>5. CASE StartCharacters
  BY <1>5, SameFileShape DEF StartCharacters, Shape, TypeOK
<1>6. CASE EndPass
  <2>1. CASE changed_any
    BY <1>6, <2>1, StartPassShape DEF EndPass, Shape
  <2>2. CASE ~ changed_any
    BY <1>6, <2>2, SameFileShape DEF EndPass, Shape, TypeOK
  <2> QED BY <2>1, <2>2
<1>7. CASE WriteOutput \/ Abort \/ Interrupt
  <2>1. /\ UNCHANGED <<subj, in_data, tmp_buf, crash_mode, pos, blk, prev_del,
                       cur_pass, changed_any, alpha>>
        /\ \/ pc = "write" /\ pc' = "done" /\ out_file' = {in_data}
           \/ pc' = "aborted" /\ out_file' = {in_data}
           \/ UNCHANGED <<pc, out_file>>
    <3>1. CASE WriteOutput
      BY <3>1 DEF WriteOutput, write_to_file
    <3>2. CASE Abort
      BY <3>2 DEF Abort, write_to_file
    <3>3. CASE Interrupt
      BY <3>3 DEF Interrupt
    <3> QED BY <1>7, <3>1, <3>2, <3>3
  <2>2. stop_soon' \in BOOLEAN
    BY <1>7 DEF WriteOutput, Abort, Interrupt, Shape, TypeOK
  <2> QED BY <2>1, <2>2, SameFileShape DEF Shape, TypeOK
<1>8. CASE UNCHANGED vars
  BY <1>8, SameFileShape DEF vars, Shape, TypeOK
<1> QED
  BY <1>1, <1>2, <1>3, <1>4, <1>5, <1>6, <1>7, <1>8, DryRunShape,
     NormalizeShape, DeleteShape, ReplaceSymbolShape, ReplaceCharacterShape
  DEF Next, Step

(* The variables keep their types: files stay sequences of the bytes the   *)
(* given file has and zeroes, blocks have at least one byte, and only the  *)
(* file kept is ever written.                                              *)
THEOREM TypeCorrect == Spec => []TypeOK
<1>1. Init => Inv /\ Shape
  BY InvInit, ShapeInit
<1>2. Inv /\ Shape /\ [Next]_vars => (Inv /\ Shape)'
  BY InvNext, ShapeNext
<1>3. Shape => TypeOK
  BY DEF Shape
<1> QED BY <1>1, <1>2, <1>3, PTL DEF Spec

-----------------------------------------------------------------------------
(* The last round.                                                         *)

(* The target may do something else when the k-th byte is missing.         *)
Refused(k) ==
    \E o \in Outcomes(subj.target, Without(in_data, k)) : ~ Keep(o)

AllRefused == \A k \in DOMAIN in_data : Refused(k)

(* In a pass without a change so far, the round of single bytes has seen   *)
(* every byte before pos refused: it was tried, or it equals the one       *)
(* before.  The later stages of such a pass leave the file alone.          *)
Tried ==
    /\ pc = "delete" /\ ~ prev_del => pos >= blk
    /\ pc = "delete" /\ blk = 1 /\ ~ changed_any =>
         \A k \in DOMAIN in_data : k <= pos => Refused(k)
    /\ pc \in {"alphabet", "character"} /\ ~ changed_any => AllRefused
    /\ pc \in {"write", "done"} => AllRefused

(* What was refused stays refused as long as the file stays.               *)
LEMMA RefusalStays ==
    ASSUME UNCHANGED <<subj, dry_run, in_data>>, NEW k, Refused(k)
    PROVE  Refused(k)'
<1>1. \A o : Keep(o)' = Keep(o)
  BY DEF dry_run, Keep, TimedOut, Crashed, trace_bits, apply_mask,
         classify_counts
<1> QED BY <1>1 DEF Refused, Without

LEMMA AllRefusedStays ==
    ASSUME UNCHANGED <<subj, dry_run, in_data>>, AllRefused
    PROVE  AllRefused'
BY RefusalStays DEF AllRefused

LEMMA ByteIsFile ==
    ASSUME NEW d \in Seq(AnySymbol), NEW k \in 1 .. Len(d)
    PROVE  SubSeq(d, k, k) = <<d[k]>>
<1>1. \A i \in k .. k : d[i] \in AnySymbol
  BY FileIsFunction
<1>2. /\ SubSeq(d, k, k) \in Seq(AnySymbol)
      /\ Len(SubSeq(d, k, k)) = IF k <= k THEN k - k + 1 ELSE 0
      /\ \A i \in 1 .. k - k + 1 : SubSeq(d, k, k)[i] = d[k + i - 1]
  BY <1>1, SubSeqProperties
<1> DEFINE s == SubSeq(d, k, k)
<1>3. s \in Seq(AnySymbol) /\ Len(s) = 1 /\ s[1] = d[k]
  BY <1>2
<1>4. /\ <<d[k]>> \in Seq(AnySymbol) /\ Len(<<d[k]>>) = 1
      /\ <<d[k]>>[1] = d[k]
  BY <1>1
<1> HIDE DEF s
<1>5. \A i \in 1 .. Len(s) : s[i] = <<d[k]>>[i]
  BY <1>3, <1>4
<1> QED BY <1>3, <1>4, <1>5, SeqEqual DEF s

(* Leaving out the k-th byte: those before stay, the others move up.       *)
LEMMA WithoutByte ==
    ASSUME NEW d \in Seq(AnySymbol), NEW k \in 1 .. Len(d)
    PROVE  /\ Without(d, k) \in Seq(AnySymbol)
           /\ Len(Without(d, k)) = Len(d) - 1
           /\ \A i \in 1 .. Len(d) - 1 :
                Without(d, k)[i] = IF i < k THEN d[i] ELSE d[i + 1]
<1> DEFINE n == Len(d)
           a == SubSeq(d, 1, k - 1)
           b == SubSeq(d, k + 1, n)
<1>1. n \in Nat /\ \A i \in 1 .. n : d[i] \in AnySymbol
  BY FileIsFunction
<1>2. /\ a \in Seq(AnySymbol) /\ Len(a) = k - 1
      /\ \A i \in 1 .. k - 1 : a[i] = d[i]
  <2>1. /\ \A i \in 1 .. k - 1 : d[i] \in AnySymbol
        /\ 1 \in Int /\ k - 1 \in Int
    BY <1>1
  <2>2. /\ a \in Seq(AnySymbol)
        /\ Len(a) = IF 1 <= k - 1 THEN (k - 1) - 1 + 1 ELSE 0
        /\ \A i \in 1 .. (k - 1) - 1 + 1 : a[i] = d[1 + i - 1]
    BY <2>1, SubSeqProperties
  <2> HIDE DEF a
  <2> QED BY <2>2
<1>3. /\ b \in Seq(AnySymbol) /\ Len(b) = n - k
      /\ \A i \in 1 .. n - k : b[i] = d[k + i]
  <2>1. /\ \A i \in k + 1 .. n : d[i] \in AnySymbol
        /\ k + 1 \in Int /\ n \in Int
    BY <1>1
  <2>2. /\ b \in Seq(AnySymbol)
        /\ Len(b) = IF k + 1 <= n THEN n - (k + 1) + 1 ELSE 0
        /\ \A i \in 1 .. n - (k + 1) + 1 : b[i] = d[(k + 1) + i - 1]
    BY <2>1, SubSeqProperties
  <2> HIDE DEF b, n
  <2>3. n \in Nat /\ k \in 1 .. n
    BY <1>1 DEF n
  <2>4. \A i \in 1 .. n - k : b[i] = d[k + i]
    <3> SUFFICES ASSUME NEW i \in 1 .. n - k PROVE b[i] = d[k + i]
      OBVIOUS
    <3>1. i \in 1 .. n - (k + 1) + 1 /\ (k + 1) + i - 1 = k + i
      BY <2>3
    <3> QED BY <2>2, <3>1
  <2> QED BY <2>2, <2>3, <2>4
<1>4. Without(d, k) = a \o b
  BY DEF Without
<1> HIDE DEF a, b, n
<1>5. /\ a \o b \in Seq(AnySymbol) /\ Len(a \o b) = (k - 1) + (n - k)
      /\ \A i \in 1 .. (k - 1) + (n - k) :
           (a \o b)[i] = IF i <= k - 1 THEN a[i] ELSE b[i - (k - 1)]
  <2>1. /\ a \o b \in Seq(AnySymbol) /\ Len(a \o b) = Len(a) + Len(b)
        /\ \A i \in 1 .. Len(a) + Len(b) :
             (a \o b)[i] = IF i <= Len(a) THEN a[i] ELSE b[i - Len(a)]
    BY <1>2, <1>3, ConcatProperties
  <2>2. Len(a) = k - 1 /\ Len(b) = n - k
    BY <1>2, <1>3
  <2> QED BY <2>1, <2>2, Zenon
<1>6. k \in 1 .. n
  BY DEF n
<1>7. ASSUME NEW i \in 1 .. n - 1
      PROVE  (a \o b)[i] = IF i < k THEN d[i] ELSE d[i + 1]
  <2>1. (a \o b)[i] = IF i <= k - 1 THEN a[i] ELSE b[i - (k - 1)]
    BY <1>1, <1>5, <1>6
  <2>2. CASE i < k
    BY <1>1, <1>2, <1>6, <2>1, <2>2
  <2>3. CASE ~ (i < k)
    <3>1. i - (k - 1) \in 1 .. n - k /\ k + (i - (k - 1)) = i + 1
      BY <1>1, <1>6, <2>3
    <3>2. b[i - (k - 1)] = d[i + 1]
      BY <1>3, <3>1
    <3> QED BY <1>1, <1>6, <2>1, <2>3, <3>2
  <2> QED BY <2>2, <2>3
<1>8. (k - 1) + (n - k) = n - 1
  BY <1>1, <1>6
<1> QED BY <1>4, <1>5, <1>7, <1>8 DEF n

(* Of two equal neighbours it does not matter which one is left out.       *)
LEMMA WithoutNeighbour ==
    ASSUME NEW d \in Seq(AnySymbol), NEW k \in 1 .. Len(d),
           k + 1 <= Len(d), d[k] = d[k + 1]
    PROVE  Without(d, k + 1) = Without(d, k)
<1>1. Len(d) \in Nat /\ k + 1 \in 1 .. Len(d)
  BY FileIsFunction
<1>2. /\ Without(d, k) \in Seq(AnySymbol)
      /\ Len(Without(d, k)) = Len(d) - 1
      /\ \A i \in 1 .. Len(d) - 1 :
           Without(d, k)[i] = IF i < k THEN d[i] ELSE d[i + 1]
  BY WithoutByte
<1>3. /\ Without(d, k + 1) \in Seq(AnySymbol)
      /\ Len(Without(d, k + 1)) = Len(d) - 1
      /\ \A i \in 1 .. Len(d) - 1 :
           Without(d, k + 1)[i] = IF i < k + 1 THEN d[i] ELSE d[i + 1]
  BY <1>1, WithoutByte
<1>4. ASSUME NEW i \in 1 .. Len(d) - 1
      PROVE  Without(d, k + 1)[i] = Without(d, k)[i]
  <2>1. CASE i = k
    BY <1>1, <1>2, <1>3, <2>1
  <2>2. CASE i # k
    BY <1>1, <1>2, <1>3, <2>2
  <2> QED BY <2>1, <2>2
<1> QED BY <1>2, <1>3, <1>4, SeqEqual

LEMMA DeleteTried == Shape /\ Tried /\ DeleteBlock => Tried'
<1> SUFFICES ASSUME Shape, Tried, DeleteBlock PROVE Tried'
  OBVIOUS
<1>1. PICK res \in run_target(Deleted) :
        /\ prev_del' = res
        /\ IF res THEN changed_any' = TRUE
           ELSE pos' = pos + blk /\ UNCHANGED <<in_data, changed_any>>
  BY DEF DeleteBlock
<1>2. /\ UNCHANGED <<subj, dry_run, blk>> /\ pc = "delete" /\ pc' = "delete"
      /\ pos < Len(in_data)
  BY DEF DeleteBlock, TriesDeletion
<1>3. pos \in Nat /\ blk \in Nat \ {0} /\ in_data \in Seq(AnySymbol)
  BY DEF Shape, TypeOK
<1>4. Len(in_data) \in Nat /\ DOMAIN in_data = 1 .. Len(in_data)
  BY <1>3, FileIsFunction
<1>5. CASE res
  BY <1>1, <1>2, <1>5 DEF Tried
<1>6. CASE ~ res
  <2>1. pos' = pos + blk /\ UNCHANGED <<in_data, changed_any>>
    BY <1>1, <1>6
  <2>2. ASSUME blk = 1, ~ changed_any,
               NEW k \in DOMAIN in_data, k <= pos + 1
        PROVE  Refused(k)
    <3>1. CASE k <= pos
      BY <1>2, <2>2, <3>1 DEF Tried
    <3>2. CASE k = pos + 1
      <4>1. Deleted = Without(in_data, k)
        <5>1. k - 1 = pos /\ pos + blk + 1 = k + 1
          BY <1>3, <2>2, <3>2
        <5> QED BY <5>1 DEF Deleted, Without
      <4>2. \E o \in Outcomes(subj.target, Deleted) : res = Keep(o)
        BY DEF run_target
      <4> QED BY <1>6, <4>1, <4>2 DEF Refused
    <3> QED BY <1>3, <1>4, <2>2, <3>1, <3>2
  <2>3. ASSUME blk' = 1, ~ changed_any',
               NEW k \in DOMAIN in_data', k <= pos'
        PROVE  Refused(k)'
    <3>1. Refused(k)
      BY <1>2, <2>1, <2>2, <2>3
    <3> QED BY <1>2, <2>1, <3>1, RefusalStays
  <2>4. pos' >= blk'
    BY <1>2, <1>3, <2>1
  <2> QED BY <1>2, <2>3, <2>4 DEF Tried
<1> QED BY <1>5, <1>6

(* A repetition: the byte equals the one before, which was refused.        *)
LEMMA SkipRepeatTried == Shape /\ Tried /\ SkipRepeat => Tried'
<1> SUFFICES ASSUME Shape, Tried, SkipRepeat PROVE Tried'
  OBVIOUS
<1>1. /\ UNCHANGED <<subj, dry_run, in_data, blk, prev_del, changed_any>>
      /\ pc = "delete" /\ pc' = "delete" /\ pos' = pos + blk
      /\ pos < Len(in_data) /\ ~ prev_del
      /\ SubSeq(in_data, pos - blk + 1, pos)
           = SubSeq(in_data, pos + 1, pos + blk)
  BY DEF SkipRepeat, Repeats, pass
<1>2. pos \in Nat /\ blk \in Nat \ {0} /\ in_data \in Seq(AnySymbol)
  BY DEF Shape, TypeOK
<1>3. Len(in_data) \in Nat /\ DOMAIN in_data = 1 .. Len(in_data)
  BY <1>2, FileIsFunction
<1>4. pos >= blk
  BY <1>1 DEF Tried
<1>5. ASSUME blk = 1, ~ changed_any,
             NEW k \in DOMAIN in_data, k <= pos + 1
      PROVE  Refused(k)
  <2>1. CASE k <= pos
    BY <1>1, <1>5, <2>1 DEF Tried
  <2>2. CASE k = pos + 1
    <3>1. /\ pos \in 1 .. Len(in_data) /\ pos + 1 \in 1 .. Len(in_data)
          /\ pos - blk + 1 = pos /\ pos + blk = pos + 1
      BY <1>1, <1>2, <1>3, <1>4, <1>5
    <3>2. SubSeq(in_data, pos, pos) = SubSeq(in_data, pos + 1, pos + 1)
      BY <1>1, <3>1
    <3>3. in_data[pos] = in_data[pos + 1]
      <4>1. <<in_data[pos]>> = <<in_data[pos + 1]>>
        BY <1>2, <3>1, <3>2, ByteIsFile
      <4> QED BY <4>1
    <3>4. Without(in_data, pos + 1) = Without(in_data, pos)
      BY <1>2, <1>3, <3>1, <3>3, WithoutNeighbour
    <3>5. Refused(pos)
      BY <1>1, <1>2, <1>3, <1>5, <3>1 DEF Tried
    <3> QED BY <2>2, <3>4, <3>5 DEF Refused
  <2> QED BY <1>2, <1>3, <1>5, <2>1, <2>2
<1>6. ASSUME blk' = 1, ~ changed_any',
             NEW k \in DOMAIN in_data', k <= pos'
      PROVE  Refused(k)'
  <2>1. Refused(k)
    BY <1>1, <1>5, <1>6
  <2> QED BY <1>1, <2>1, RefusalStays
<1>7. pos' >= blk'
  BY <1>1, <1>2
<1> QED BY <1>1, <1>6, <1>7 DEF Tried

(* The end of the last round.                                              *)
LEMMA RoundIsWhole ==
    ASSUME Shape, Tried, pc = "delete", pos >= Len(in_data), ~ GoesOn,
           ~ changed_any
    PROVE  AllRefused
<1>1. pos \in Nat /\ blk \in Nat \ {0} /\ in_data \in Seq(AnySymbol)
  BY DEF Shape, TypeOK
<1>2. Len(in_data) \in Nat /\ DOMAIN in_data = 1 .. Len(in_data)
  BY <1>1, FileIsFunction
<1>3. CASE in_data = <<>>
  BY <1>3 DEF AllRefused
<1>4. CASE blk = 1
  BY <1>1, <1>2, <1>4 DEF AllRefused, Tried
<1> QED BY <1>1, <1>3, <1>4 DEF GoesOn

LEMMA TriedNext == Shape /\ Tried /\ [Next]_vars => Tried'
<1> SUFFICES ASSUME Shape, Tried, [Next]_vars PROVE Tried'
  OBVIOUS
<1> USE DEF loop, pass, Goto
<1>1. CASE DryRun
  BY <1>1 DEF DryRun, Tried
<1>2. CASE NormalizeBlock
  BY <1>2 DEF NormalizeBlock, TriesBlank, Tried
<1>3. CASE BlankAlready
  BY <1>3 DEF BlankAlready, Tried
<1>4. ASSUME StartPass, UNCHANGED <<subj, in_data, dry_run>>
      PROVE  Tried'
  <2>1. /\ pc' = "delete" /\ prev_del' = TRUE /\ pos' = 0
    BY <1>4 DEF StartPass
  <2>2. \A k \in DOMAIN in_data : ~ (k <= 0)
    BY FileIsFunction DEF Shape, TypeOK
  <2> QED BY <1>4, <2>1, <2>2 DEF Tried
<1>5. CASE FirstPass
  BY <1>4, <1>5 DEF FirstPass
<1>6. CASE HalveBlock
  <2>1. /\ pc' = "delete" /\ prev_del' = TRUE /\ pos' = 0
        /\ UNCHANGED in_data
    BY <1>6 DEF HalveBlock
  <2>2. \A k \in DOMAIN in_data : ~ (k <= 0)
    BY FileIsFunction DEF Shape, TypeOK
  <2> QED BY <2>1, <2>2 DEF Tried
<1>7. CASE EndDeletion
  <2>1. /\ UNCHANGED <<subj, dry_run, in_data, changed_any>>
        /\ pc' \in {"write", "alphabet"}
        /\ pc' = "write" => ~ changed_any
    BY <1>7 DEF EndDeletion
  <2>2. ~ changed_any => AllRefused
    BY <1>7, RoundIsWhole DEF EndDeletion
  <2> QED BY <2>1, <2>2, AllRefusedStays DEF Tried
<1>8. CASE ReplaceSymbol
  <2>1. /\ UNCHANGED <<subj, dry_run>> /\ pc = "alphabet" /\ pc' = "alphabet"
        /\ changed_any' = TRUE \/ UNCHANGED <<in_data, changed_any>>
    BY <1>8 DEF ReplaceSymbol, TriesSymbol
  <2> QED BY <2>1, AllRefusedStays DEF Tried
<1>9. CASE StartCharacters
  BY <1>9, AllRefusedStays DEF StartCharacters, Tried
<1>10. CASE ReplaceCharacter
  <2>1. /\ UNCHANGED <<subj, dry_run>> /\ pc = "character"
        /\ pc' = "character"
        /\ changed_any' = TRUE \/ UNCHANGED <<in_data, changed_any>>
    BY <1>10 DEF ReplaceCharacter, TriesCharacter
  <2> QED BY <2>1, AllRefusedStays DEF Tried
<1>11. CASE SkipZero
  BY <1>11, AllRefusedStays DEF SkipZero, Tried
<1>12. CASE EndPass
  <2>1. CASE changed_any
    BY <1>4, <1>12, <2>1 DEF EndPass
  <2>2. CASE ~ changed_any
    BY <1>12, <2>2, AllRefusedStays DEF EndPass, Tried
  <2> QED BY <2>1, <2>2
<1>13. CASE WriteOutput
  BY <1>13, AllRefusedStays DEF WriteOutput, Tried
<1>14. CASE Abort
  BY <1>14 DEF Abort, Tried
<1>15. CASE Interrupt \/ UNCHANGED vars
  <2>1. UNCHANGED <<subj, dry_run, in_data, pc, pos, blk, prev_del,
                    changed_any>>
    BY <1>15 DEF Interrupt, vars
  <2> QED BY <2>1, RefusalStays, AllRefusedStays DEF Tried
<1> QED
  BY <1>1, <1>2, <1>3, <1>5, <1>6, <1>7, <1>8, <1>9, <1>10, <1>11, <1>12,
     <1>13, <1>14, <1>15, DeleteTried, SkipRepeatTried DEF Next, Step

(* At the end every byte of the file was seen to be needed: for a target   *)
(* that does one thing with every file, the file written has no byte that  *)
(* can be left out.                                                        *)
THEOREM NoByteToSpare == Spec => []OneMinimal
<1> DEFINE I == Inv /\ Shape /\ Tried
<1>1. Init => I
  <2>1. Init => Tried
    BY DEF Init, Tried
  <2> QED BY <2>1, InvInit, ShapeInit
<1>2. I /\ [Next]_vars => I'
  BY InvNext, ShapeNext, TriedNext
<1>3. I => OneMinimal
  BY DEF Tried, AllRefused, Refused, OneMinimal
<1> QED BY <1>1, <1>2, <1>3, PTL DEF Spec

=============================================================================

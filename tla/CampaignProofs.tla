--------------------------- MODULE CampaignProofs ---------------------------
(***************************************************************************)
(* A prefix that a target stores leads along the path it is stored under,  *)
(* and AFLGo's executions follow the path selected for them: for every     *)
(* program and automaton, every number of executions, every input.         *)
(***************************************************************************)
EXTENDS Campaign, FiniteSetTheorems, SequenceTheorems, TLAPS

-----------------------------------------------------------------------------
(* Naturals.                                                               *)

(* A nonempty set of naturals has a least element: the intervals 0..x are  *)
(* finite sets, and strict inclusion is well founded on those.             *)
LEMMA LeastElement ==
    ASSUME NEW T \in SUBSET Nat, T # {}
    PROVE  \E x \in T : \A y \in T : x <= y
<1> DEFINE F == {0 .. x : x \in T}
<1>1. F \subseteq FiniteSubsetsOf(Nat)
  <2> SUFFICES ASSUME NEW x \in T PROVE 0 .. x \in FiniteSubsetsOf(Nat)
    OBVIOUS
  <2>1. IsFiniteSet(0 .. x)
    BY FS_Interval
  <2>2. 0 .. x \in SUBSET Nat
    OBVIOUS
  <2> QED BY <2>1, <2>2 DEF FiniteSubsetsOf
<1>2. F # {}
  OBVIOUS
<1>3. PICK X \in F : \A Y \in F : ~ (<<Y, X>> \in StrictSubsetOrdering(Nat))
  <2> HIDE DEF F
  <2> QED BY <1>1, <1>2, FS_StrictSubsetOrderingWellFounded, WFMin
<1>4. PICK x \in T : X = 0 .. x
  BY <1>3
<1>5. ASSUME NEW y \in T, y < x PROVE FALSE
  <2> DEFINE Y == 0 .. y
  <2>1. Y \in F
    OBVIOUS
  <2>2. Y \subseteq X /\ Y # X
    BY <1>4, <1>5
  <2>3. Y \in SUBSET Nat /\ X \in SUBSET Nat
    BY <1>4
  <2>4. <<Y, X>> \in StrictSubsetOrdering(Nat)
    <3> HIDE DEF Y, F
    <3> QED BY <2>2, <2>3 DEF StrictSubsetOrdering
  <2> HIDE DEF Y, F
  <2> QED BY <1>3, <2>1, <2>4
<1> QED BY <1>5

(* Min of a nonempty set of naturals is its least element.                 *)
LEMMA MinIsLeast ==
    ASSUME NEW T \in SUBSET Nat, T # {}
    PROVE  Min(T) \in T /\ \A y \in T : Min(T) <= y
BY LeastElement DEF Min

(* Max of a nonempty bounded set of naturals is its greatest element.      *)
LEMMA MaxIsGreatest ==
    ASSUME NEW n \in Nat, NEW T \in SUBSET (0 .. n), T # {}
    PROVE  Max(T) \in T /\ \A y \in T : Max(T) >= y
<1> DEFINE U == {n - x : x \in T}
<1>1. U \in SUBSET Nat /\ U # {}
  <2>1. \A x \in T : n - x \in Nat
    OBVIOUS
  <2>2. U \subseteq Nat
    BY <2>1
  <2>3. U # {}
    OBVIOUS
  <2> QED BY <2>2, <2>3
<1>2. PICK u \in U : \A v \in U : u <= v
  <2> HIDE DEF U
  <2> QED BY <1>1, LeastElement
<1>3. PICK x \in T : u = n - x
  OBVIOUS
<1>4. \A y \in T : x >= y
  <2> TAKE y \in T
  <2>1. u <= n - y
    BY <1>2
  <2> QED BY <1>3, <2>1
<1> QED BY <1>4 DEF Max

(* Induction for a set of naturals.                                        *)
LEMMA SetInduction ==
    ASSUME NEW T \in SUBSET Nat, 0 \in T, \A n \in T : n + 1 \in T
    PROVE  T = Nat
<1> SUFFICES ASSUME Nat \ T # {} PROVE FALSE
  OBVIOUS
<1>1. PICK m \in Nat \ T : \A y \in Nat \ T : m <= y
  BY LeastElement
<1>2. m - 1 \in Nat
  BY <1>1
<1>3. m - 1 \in T
  BY <1>1, <1>2
<1> QED BY <1>1, <1>3

-----------------------------------------------------------------------------
(* Loops.                                                                  *)

(* What holds at first and is kept by every step holds throughout.         *)
LEMMA UpTo ==
    ASSUME NEW N \in Nat, NEW T \in SUBSET (0 .. N), 0 \in T,
           \A n \in 1 .. N : n - 1 \in T => n \in T
    PROVE  T = 0 .. N
<1> DEFINE U == {n \in Nat : n <= N => n \in T}
<1>1. 0 \in U
  OBVIOUS
<1>2. ASSUME NEW n \in U PROVE n + 1 \in U
  <2> SUFFICES ASSUME n + 1 <= N PROVE n + 1 \in T
    OBVIOUS
  <2>1. n + 1 \in 1 .. N /\ (n + 1) - 1 \in T
    OBVIOUS
  <2> QED BY <2>1
<1>3. U = Nat
  <2> HIDE DEF U
  <2>1. U \in SUBSET Nat
    BY DEF U
  <2> QED BY <1>1, <1>2, <2>1, SetInduction
<1>4. ASSUME NEW n \in 0 .. N PROVE n \in T
  <2>1. n \in U
    BY <1>3
  <2> QED BY <2>1
<1> QED BY <1>4

(* f holds the values of N steps from c.                                   *)
IsLoop(f, N, c, step) ==
    /\ f = [n \in 0 .. N |-> f[n]] /\ f[0] = c
    /\ \A n \in 1 .. N : f[n] = step[n][f[n - 1]]

(* They exist, and are of the type that the steps keep.                    *)
LEMMA LoopExists ==
    ASSUME NEW N \in Nat, NEW c, NEW step
    PROVE  \E f : IsLoop(f, N, c, step)
<1> DEFINE T == {m \in Nat : \E f : IsLoop(f, m, c, step)}
<1>1. 0 \in T
  <2> DEFINE f == [n \in 0 .. 0 |-> c]
  <2>1. IsLoop(f, 0, c, step)
    BY DEF IsLoop
  <2> HIDE DEF f
  <2> QED BY <2>1
<1>2. ASSUME NEW m \in T PROVE m + 1 \in T
  <2>1. PICK f : IsLoop(f, m, c, step)
    OBVIOUS
  <2> DEFINE g == [n \in 0 .. m + 1 |->
                     IF n = m + 1 THEN step[n][f[m]] ELSE f[n]]
  <2>2. m \in Nat
    OBVIOUS
  <2>3. \A n \in 0 .. m : g[n] = f[n]
    BY <2>2
  <2>4. g[m + 1] = step[m + 1][f[m]]
    BY <2>2
  <2>5. g = [n \in 0 .. m + 1 |-> g[n]]
    OBVIOUS
  <2> HIDE DEF g
  <2>6. g[0] = c
    BY <2>1, <2>2, <2>3 DEF IsLoop
  <2>7. ASSUME NEW n \in 1 .. m + 1 PROVE g[n] = step[n][g[n - 1]]
    <3>1. CASE n = m + 1
      <4>1. g[m] = f[m] /\ n - 1 = m
        BY <2>2, <2>3, <3>1
      <4> QED BY <2>4, <3>1, <4>1
    <3>2. CASE n # m + 1
      <4>1. n \in 1 .. m /\ n \in 0 .. m /\ n - 1 \in 0 .. m
        BY <2>2, <3>2
      <4>2. f[n] = step[n][f[n - 1]]
        BY <2>1, <4>1 DEF IsLoop
      <4> QED BY <2>3, <4>1, <4>2
    <3> QED BY <3>1, <3>2
  <2>8. IsLoop(g, m + 1, c, step)
    BY <2>5, <2>6, <2>7 DEF IsLoop
  <2> QED BY <2>2, <2>8
<1>3. T = Nat
  <2> HIDE DEF T
  <2>1. T \in SUBSET Nat
    BY DEF T
  <2> QED BY <1>1, <1>2, <2>1, SetInduction
<1> QED BY <1>3

LEMMA LoopType ==
    ASSUME NEW N \in Nat, NEW c, NEW step, NEW f, IsLoop(f, N, c, step),
           NEW T, c \in T,
           \A n \in 1 .. N : \A v \in T : step[n][v] \in T
    PROVE  \A n \in 0 .. N : f[n] \in T
<1> DEFINE U == {n \in 0 .. N : f[n] \in T}
<1>1. 0 \in U
  BY DEF IsLoop
<1>2. ASSUME NEW n \in 1 .. N, n - 1 \in U PROVE n \in U
  <2>1. n \in 0 .. N /\ f[n - 1] \in T
    BY <1>2
  <2>2. f[n] = step[n][f[n - 1]]
    BY DEF IsLoop
  <2> QED BY <2>1, <2>2
<1>3. U = 0 .. N
  <2> HIDE DEF U
  <2>1. U \in SUBSET (0 .. N)
    BY DEF U
  <2> QED BY <1>1, <1>2, <2>1, UpTo
<1> QED BY <1>3

-----------------------------------------------------------------------------
(* The program.                                                            *)

(* The states of the program while it reads xs.                            *)
LEMMA StatesFacts ==
    ASSUME NEW P, IsProgram(P), NEW xs \in Seq(Input)
    PROVE  /\ StatesOf(P, xs)[0] = P.init
           /\ \A n \in 1 .. Len(xs) :
                StatesOf(P, xs)[n] = P.next[<<StatesOf(P, xs)[n - 1], xs[n]>>]
           /\ \A n \in 0 .. Len(xs) : StatesOf(P, xs)[n] \in ProgramStates(P)
<1> DEFINE S == ProgramStates(P)
           N == Len(xs)
           eq(f) == [n \in 0 .. N |->
                       IF n = 0 THEN P.init ELSE P.next[<<f[n - 1], xs[n]>>]]
           step == [n \in 1 .. N |-> [s \in S |-> P.next[<<s, xs[n]>>]]]
<1>0. /\ N \in Nat /\ P.init \in S
      /\ \A n \in 1 .. N : xs[n] \in Input
      /\ \A s \in S, x \in Input : P.next[<<s, x>>] \in S
  BY DEF IsProgram
<1> HIDE DEF S
<1>1. \A n \in 1 .. N : \A s \in S : /\ step[n][s] = P.next[<<s, xs[n]>>]
                                     /\ step[n][s] \in S
  BY <1>0
<1> HIDE DEF step, N
<1>2. PICK f : IsLoop(f, N, P.init, step)
  BY <1>0, LoopExists
<1>3. \A n \in 0 .. N : f[n] \in S
  BY <1>0, <1>1, <1>2, LoopType
<1>4. ASSUME NEW n \in 1 .. N PROVE f[n] = P.next[<<f[n - 1], xs[n]>>]
  <2>1. n - 1 \in 0 .. N
    BY <1>0
  <2> QED BY <1>1, <1>2, <1>3, <2>1 DEF IsLoop
<1>5. f = eq(f)
  <2>1. f = [n \in 0 .. N |-> f[n]] /\ f[0] = P.init
    BY <1>2 DEF IsLoop
  <2>2. \A n \in 0 .. N : n # 0 => n \in 1 .. N
    BY <1>0
  <2>3. \A n \in 0 .. N :
          f[n] = IF n = 0 THEN P.init ELSE P.next[<<f[n - 1], xs[n]>>]
    BY <1>4, <2>1, <2>2
  <2> QED BY <2>1, <2>3
<1> DEFINE at == StatesOf(P, xs)
<1>6. at = eq(at)
  BY <1>5 DEF StatesOf, N
<1>7. at[0] = P.init /\ \A n \in 1 .. N : at[n] = P.next[<<at[n - 1], xs[n]>>]
  <2>1. \A n \in 0 .. N :
          eq(at)[n] = IF n = 0 THEN P.init ELSE P.next[<<at[n - 1], xs[n]>>]
    OBVIOUS
  <2>2. 0 \in 0 .. N /\ \A n \in 1 .. N : n \in 0 .. N /\ n # 0
    BY <1>0
  <2> HIDE DEF at, eq
  <2> QED BY <1>6, <2>1, <2>2
<1>8. \A n \in 0 .. N : at[n] \in S
  <2> DEFINE T == {n \in 0 .. N : at[n] \in S}
  <2> HIDE DEF at
  <2>1. 0 \in T
    BY <1>0, <1>7
  <2>2. ASSUME NEW n \in 1 .. N, n - 1 \in T PROVE n \in T
    <3>1. n \in 0 .. N /\ at[n - 1] \in S /\ xs[n] \in Input
      BY <1>0, <2>2
    <3>2. at[n] = P.next[<<at[n - 1], xs[n]>>]
      BY <1>7
    <3> QED BY <1>0, <3>1, <3>2
  <2>3. T = 0 .. N
    <3>1. T \in SUBSET (0 .. N)
      OBVIOUS
    <3> HIDE DEF T
    <3> QED BY <1>0, <2>1, <2>2, <3>1, UpTo
  <2> QED BY <2>3
<1> QED BY <1>7, <1>8 DEF N, S

(* What is collected: of a state, what is seen of it.                      *)
EntryType(P) ==
    {e \in [input : Input, output : Nat, read : Nat, real : ProgramStates(P),
            state : {P.seen[s] : s \in ProgramStates(P)}] :
        e.state = P.seen[e.real]}

LEMMA EntriesFacts ==
    ASSUME NEW P, IsProgram(P), NEW xs \in Seq(Input)
    PROVE  /\ EntriesOf(P, xs)[0] = <<>>
           /\ \A n \in 1 .. Len(xs) :
                EntriesOf(P, xs)[n] =
                  IF P.out[<<StatesOf(P, xs)[n - 1], xs[n]>>] = 0
                  THEN EntriesOf(P, xs)[n - 1]
                  ELSE Append(EntriesOf(P, xs)[n - 1],
                              Entry(P, StatesOf(P, xs)[n - 1], xs[n], n))
           /\ \A n \in 0 .. Len(xs) : EntriesOf(P, xs)[n] \in Seq(EntryType(P))
<1> DEFINE N == Len(xs)
           T == Seq(EntryType(P))
           at == StatesOf(P, xs)
           none(n) == P.out[<<at[n - 1], xs[n]>>] = 0
           new(n) == Entry(P, at[n - 1], xs[n], n)
           eq(f) == [n \in 0 .. N |->
                       IF n = 0 THEN <<>>
                       ELSE IF none(n) THEN f[n - 1]
                       ELSE Append(f[n - 1], new(n))]
           step == [n \in 1 .. N |->
                      [v \in T |-> IF none(n) THEN v ELSE Append(v, new(n))]]
<1>0. N \in Nat /\ <<>> \in T
  OBVIOUS
<1>1. ASSUME NEW n \in 1 .. N PROVE new(n) \in EntryType(P)
  <2>1. n - 1 \in 0 .. N /\ n \in Nat /\ xs[n] \in Input
    OBVIOUS
  <2>2. at[n - 1] \in ProgramStates(P)
    BY <2>1, StatesFacts
  <2>3. /\ P.next[<<at[n - 1], xs[n]>>] \in ProgramStates(P)
        /\ P.out[<<at[n - 1], xs[n]>>] \in Nat
    BY <2>1, <2>2 DEF IsProgram
  <2> QED BY <2>1, <2>3 DEF Entry, EntryType, StateSeen
<1> HIDE DEF at
<1>2. \A n \in 1 .. N : \A v \in T :
        /\ step[n][v] = IF none(n) THEN v ELSE Append(v, new(n))
        /\ step[n][v] \in T
  <2> TAKE n \in 1 .. N
  <2> TAKE v \in T
  <2>1. step[n][v] = IF none(n) THEN v ELSE Append(v, new(n))
    OBVIOUS
  <2>2. Append(v, new(n)) \in T
    <3> HIDE DEF new
    <3> QED BY <1>1
  <2> HIDE DEF step, T
  <2> QED BY <2>1, <2>2
<1> HIDE DEF step, N, T, new, none
<1>3. PICK f : IsLoop(f, N, <<>>, step)
  BY <1>0, LoopExists
<1>4. \A n \in 0 .. N : f[n] \in T
  BY <1>0, <1>2, <1>3, LoopType
<1>5. ASSUME NEW n \in 1 .. N
      PROVE  f[n] = IF none(n) THEN f[n - 1] ELSE Append(f[n - 1], new(n))
  <2>1. n - 1 \in 0 .. N
    BY <1>0
  <2> QED BY <1>2, <1>3, <1>4, <2>1 DEF IsLoop
<1>6. f = eq(f)
  <2>1. f = [n \in 0 .. N |-> f[n]] /\ f[0] = <<>>
    BY <1>3 DEF IsLoop
  <2>2. \A n \in 0 .. N : n # 0 => n \in 1 .. N
    BY <1>0
  <2>3. \A n \in 0 .. N :
          f[n] = IF n = 0 THEN <<>>
                 ELSE IF none(n) THEN f[n - 1] ELSE Append(f[n - 1], new(n))
    BY <1>5, <2>1, <2>2
  <2> QED BY <2>1, <2>3
<1> DEFINE col == EntriesOf(P, xs)
<1>7. col = eq(col)
  BY <1>6 DEF EntriesOf, N, at, none, new
<1>8. /\ col[0] = <<>>
      /\ \A n \in 1 .. N :
           col[n] = IF none(n) THEN col[n - 1]
                    ELSE Append(col[n - 1], new(n))
  <2>1. \A n \in 0 .. N :
          eq(col)[n] = IF n = 0 THEN <<>>
                       ELSE IF none(n) THEN col[n - 1]
                       ELSE Append(col[n - 1], new(n))
    OBVIOUS
  <2>2. 0 \in 0 .. N /\ \A n \in 1 .. N : n \in 0 .. N /\ n # 0
    BY <1>0
  <2> HIDE DEF col, eq
  <2> QED BY <1>7, <2>1, <2>2
<1>9. \A n \in 0 .. N : col[n] \in T
  <2> DEFINE U == {n \in 0 .. N : col[n] \in T}
  <2> HIDE DEF col
  <2>1. 0 \in U
    BY <1>0, <1>8
  <2>2. ASSUME NEW n \in 1 .. N, n - 1 \in U PROVE n \in U
    <3>1. n \in 0 .. N /\ col[n - 1] \in T
      BY <1>0, <2>2
    <3>2. col[n] = step[n][col[n - 1]]
      BY <1>2, <1>8, <3>1
    <3> QED BY <1>2, <3>1, <3>2
  <2>3. U = 0 .. N
    <3>1. U \in SUBSET (0 .. N)
      OBVIOUS
    <3> HIDE DEF U
    <3> QED BY <1>0, <2>1, <2>2, <3>1, UpTo
  <2> QED BY <2>3
<1> QED BY <1>8, <1>9 DEF N, T, at, none, new

-----------------------------------------------------------------------------
(* The automaton.                                                          *)

(* One greedy move after the other, whatever the trace.                    *)
LEMMA AlongFacts ==
    ASSUME NEW A, NEW trace, Len(trace) \in Nat
    PROVE  /\ StatesAlong(A, trace)[0] = A.init
           /\ \A n \in 1 .. Len(trace) :
                StatesAlong(A, trace)[n] =
                  Moves(A, trace[n])[StatesAlong(A, trace)[n - 1]]
<1> DEFINE N == Len(trace)
           eq(f) == [n \in 0 .. N |->
                       IF n = 0 THEN A.init ELSE Moves(A, trace[n])[f[n - 1]]]
           step == [n \in 1 .. N |-> Moves(A, trace[n])]
<1>1. \A n \in 1 .. N : step[n] = Moves(A, trace[n])
  OBVIOUS
<1> HIDE DEF step, N
<1>2. PICK f : IsLoop(f, N, A.init, step)
  BY LoopExists DEF N
<1>3. f = eq(f)
  <2>1. f = [n \in 0 .. N |-> f[n]] /\ f[0] = A.init
    BY <1>2 DEF IsLoop
  <2>2. \A n \in 0 .. N : n # 0 => n \in 1 .. N
    BY DEF N
  <2>3. \A n \in 0 .. N :
          f[n] = IF n = 0 THEN A.init ELSE Moves(A, trace[n])[f[n - 1]]
    BY <1>1, <1>2, <2>1, <2>2 DEF IsLoop
  <2> QED BY <2>1, <2>3
<1> DEFINE after == StatesAlong(A, trace)
<1>4. after = eq(after)
  BY <1>3 DEF StatesAlong, N
<1>5. \A n \in 0 .. N :
        eq(after)[n] = IF n = 0 THEN A.init
                       ELSE Moves(A, trace[n])[after[n - 1]]
  OBVIOUS
<1>6. 0 \in 0 .. N /\ \A n \in 1 .. N : n \in 0 .. N /\ n # 0
  BY DEF N
<1> HIDE DEF after, eq
<1>7. /\ after[0] = A.init
      /\ \A n \in 1 .. N : after[n] = Moves(A, trace[n])[after[n - 1]]
  BY <1>4, <1>5, <1>6
<1> QED BY <1>7 DEF N, after

(* The path grows by what has changed.                                     *)
LEMMA PathFacts ==
    ASSUME NEW visited, Len(visited) \in Nat
    PROVE  /\ PathsOf(visited)[0] = <<>>
           /\ \A n \in 1 .. Len(visited) :
                PathsOf(visited)[n] =
                  IF n \in Changes(visited)
                  THEN Append(PathsOf(visited)[n - 1], visited[n])
                  ELSE PathsOf(visited)[n - 1]
           /\ \A n \in 0 .. Len(visited) :
                PathsOf(visited)[n] \in
                  Seq({visited[k] : k \in Changes(visited)})
<1> DEFINE N == Len(visited)
           T == Seq({visited[k] : k \in Changes(visited)})
           turn(n) == n \in Changes(visited)
           eq(f) == [n \in 0 .. N |->
                       IF n = 0 THEN <<>>
                       ELSE IF turn(n) THEN Append(f[n - 1], visited[n])
                       ELSE f[n - 1]]
           step == [n \in 1 .. N |->
                      [v \in T |-> IF turn(n) THEN Append(v, visited[n])
                                   ELSE v]]
<1>0. N \in Nat /\ <<>> \in T
  OBVIOUS
<1>2. \A n \in 1 .. N : \A v \in T :
        /\ step[n][v] = IF turn(n) THEN Append(v, visited[n]) ELSE v
        /\ step[n][v] \in T
  <2> TAKE n \in 1 .. N
  <2> TAKE v \in T
  <2>1. step[n][v] = IF turn(n) THEN Append(v, visited[n]) ELSE v
    <3> HIDE DEF T, turn
    <3> QED OBVIOUS
  <2>2. turn(n) => visited[n] \in {visited[k] : k \in Changes(visited)}
    BY DEF Changes
  <2>3. turn(n) => Append(v, visited[n]) \in T
    <3> DEFINE V == {visited[k] : k \in Changes(visited)}
    <3>1. v \in Seq(V) /\ (turn(n) => visited[n] \in V)
      BY <2>2
    <3> HIDE DEF V, turn
    <3>2. turn(n) => Append(v, visited[n]) \in Seq(V)
      BY <3>1
    <3> QED BY <3>2 DEF V
  <2> HIDE DEF step, T, turn
  <2> QED BY <2>1, <2>3
<1> HIDE DEF step, N, T, turn
<1>3. PICK f : IsLoop(f, N, <<>>, step)
  BY <1>0, LoopExists
<1>4. \A n \in 0 .. N : f[n] \in T
  BY <1>0, <1>2, <1>3, LoopType
<1>5. ASSUME NEW n \in 1 .. N
      PROVE  f[n] = IF turn(n) THEN Append(f[n - 1], visited[n]) ELSE f[n - 1]
  <2>1. n - 1 \in 0 .. N
    BY <1>0
  <2> QED BY <1>2, <1>3, <1>4, <2>1 DEF IsLoop
<1>6. f = eq(f)
  <2>1. f = [n \in 0 .. N |-> f[n]] /\ f[0] = <<>>
    BY <1>3 DEF IsLoop
  <2>2. \A n \in 0 .. N : n # 0 => n \in 1 .. N
    BY <1>0
  <2>3. \A n \in 0 .. N :
          f[n] = IF n = 0 THEN <<>>
                 ELSE IF turn(n) THEN Append(f[n - 1], visited[n])
                 ELSE f[n - 1]
    BY <1>5, <2>1, <2>2
  <2> QED BY <2>1, <2>3
<1> DEFINE path == PathsOf(visited)
<1>7. path = eq(path)
  BY <1>6 DEF PathsOf, N, turn
<1>8. /\ path[0] = <<>>
      /\ \A n \in 1 .. N :
           path[n] = IF turn(n) THEN Append(path[n - 1], visited[n])
                     ELSE path[n - 1]
  <2>1. \A n \in 0 .. N :
          eq(path)[n] = IF n = 0 THEN <<>>
                        ELSE IF turn(n) THEN Append(path[n - 1], visited[n])
                        ELSE path[n - 1]
    OBVIOUS
  <2>2. 0 \in 0 .. N /\ \A n \in 1 .. N : n \in 0 .. N /\ n # 0
    BY <1>0
  <2> HIDE DEF path, eq
  <2> QED BY <1>7, <2>1, <2>2
<1>9. \A n \in 0 .. N : path[n] \in T
  <2> DEFINE U == {n \in 0 .. N : path[n] \in T}
  <2> HIDE DEF path
  <2>1. 0 \in U
    BY <1>0, <1>8
  <2>2. ASSUME NEW n \in 1 .. N, n - 1 \in U PROVE n \in U
    <3>1. n \in 0 .. N /\ path[n - 1] \in T
      BY <1>0, <2>2
    <3>2. path[n] = step[n][path[n - 1]]
      BY <1>2, <1>8, <3>1
    <3> QED BY <1>2, <3>1, <3>2
  <2>3. U = 0 .. N
    <3>1. U \in SUBSET (0 .. N)
      OBVIOUS
    <3> HIDE DEF U
    <3> QED BY <1>0, <2>1, <2>2, <3>1, UpTo
  <2> QED BY <2>3
<1> QED BY <1>8, <1>9 DEF N, T, turn

-----------------------------------------------------------------------------
(* Running a prefix again.                                                 *)

(* The state in which the k-th entry of c was made.                        *)
Before(P, c, k) == IF k = 1 THEN P.init ELSE c[k - 1].real

(* c is what an execution collects in its first n inputs.                  *)
Chain(P, c, n) ==
    /\ c \in Seq(EntryType(P))
    /\ \A k \in 1 .. Len(c) :
         /\ c[k].output = P.out[<<Before(P, c, k), c[k].input>>]
         /\ c[k].output # 0
         /\ c[k].real = P.next[<<Before(P, c, k), c[k].input>>]
         /\ c[k].read \in 1 .. n

LEMMA ChainGrows ==
    ASSUME NEW P, NEW n \in Nat, NEW c, Chain(P, c, n), NEW e \in EntryType(P),
           e.output = P.out[<<Before(P, c, Len(c) + 1), e.input>>],
           e.output # 0,
           e.real = P.next[<<Before(P, c, Len(c) + 1), e.input>>],
           e.read = n + 1
    PROVE  /\ Chain(P, Append(c, e), n + 1)
           /\ Before(P, Append(c, e), Len(Append(c, e)) + 1) = e.real
<1> DEFINE d == Append(c, e)
<1>1. c \in Seq(EntryType(P)) /\ Len(c) \in Nat
  BY DEF Chain
<1>2. /\ d \in Seq(EntryType(P)) /\ Len(d) = Len(c) + 1
      /\ d[Len(c) + 1] = e
      /\ \A k \in 1 .. Len(c) : d[k] = c[k]
  <2> DEFINE E == EntryType(P)
  <2> HIDE DEF E
  <2>1. c \in Seq(E) /\ e \in E
    BY <1>1 DEF E
  <2>2. d \in Seq(E)
    BY <2>1
  <2> QED BY <1>1, <2>1, <2>2 DEF E
<1> HIDE DEF d
<1>3. \A k \in 1 .. Len(c) + 1 : Before(P, d, k) = Before(P, c, k)
  <2> TAKE k \in 1 .. Len(c) + 1
  <2>1. k # 1 => k - 1 \in 1 .. Len(c)
    BY <1>1
  <2> QED BY <1>2, <2>1 DEF Before
<1>4. ASSUME NEW k \in 1 .. Len(d)
      PROVE  /\ d[k].output = P.out[<<Before(P, d, k), d[k].input>>]
             /\ d[k].output # 0
             /\ d[k].real = P.next[<<Before(P, d, k), d[k].input>>]
             /\ d[k].read \in 1 .. n + 1
  <2>1. k \in 1 .. Len(c) + 1 /\ Before(P, d, k) = Before(P, c, k)
    BY <1>2, <1>3
  <2>2. CASE k = Len(c) + 1
    <3>1. d[k] = e /\ e.read \in 1 .. n + 1
      BY <1>2, <2>2
    <3> QED BY <2>1, <2>2, <3>1
  <2>3. CASE k # Len(c) + 1
    <3>1. k \in 1 .. Len(c) /\ d[k] = c[k]
      BY <1>1, <1>2, <2>1, <2>3
    <3>2. c[k].read \in 1 .. n
      BY <3>1 DEF Chain
    <3>3. c[k].read \in 1 .. n + 1
      BY <3>2
    <3> QED BY <2>1, <3>1, <3>3 DEF Chain
  <2> QED BY <2>2, <2>3
<1>5. Before(P, d, Len(d) + 1) = e.real
  <2>1. Len(d) + 1 # 1 /\ (Len(d) + 1) - 1 = Len(c) + 1
    BY <1>1, <1>2
  <2> QED BY <1>2, <2>1 DEF Before
<1> QED BY <1>2, <1>4, <1>5 DEF Chain, d

LEMMA CollectedIsChain ==
    ASSUME NEW P, IsProgram(P), NEW xs \in Seq(Input)
    PROVE  \A n \in 0 .. Len(xs) :
             /\ Chain(P, EntriesOf(P, xs)[n], n)
             /\ Before(P, EntriesOf(P, xs)[n], Len(EntriesOf(P, xs)[n]) + 1)
                  = StatesOf(P, xs)[n]
<1> DEFINE N == Len(xs)
           col == EntriesOf(P, xs)
           at == StatesOf(P, xs)
           T == {n \in 0 .. N : /\ Chain(P, col[n], n)
                                /\ Before(P, col[n], Len(col[n]) + 1) = at[n]}
<1>0. N \in Nat
  OBVIOUS
<1>1. 0 \in T
  <2>1. col[0] = <<>> /\ at[0] = P.init
    BY EntriesFacts, StatesFacts
  <2>2. Chain(P, <<>>, 0) /\ Before(P, <<>>, Len(<<>>) + 1) = P.init
    BY DEF Chain, Before
  <2> HIDE DEF col, at
  <2> QED BY <2>1, <2>2
<1>2. ASSUME NEW n \in 1 .. N, n - 1 \in T PROVE n \in T
  <2> DEFINE s == at[n - 1]
             c == col[n - 1]
  <2>1. /\ n - 1 \in 0 .. N /\ n \in 0 .. N /\ n - 1 \in Nat
        /\ (n - 1) + 1 = n /\ xs[n] \in Input
    OBVIOUS
  <2>2. /\ Chain(P, c, n - 1) /\ Before(P, c, Len(c) + 1) = s
        /\ c \in Seq(EntryType(P)) /\ Len(c) \in Nat
    <3>1. Chain(P, c, n - 1) /\ Before(P, c, Len(c) + 1) = s
      BY <1>2
    <3> HIDE DEF c, s
    <3> QED BY <3>1 DEF Chain
  <2>3. s \in ProgramStates(P) /\ at[n] = P.next[<<s, xs[n]>>]
    BY <2>1, StatesFacts
  <2>4. col[n] = IF P.out[<<s, xs[n]>>] = 0 THEN c
                 ELSE Append(c, Entry(P, s, xs[n], n))
    BY <2>1, EntriesFacts
  <2> HIDE DEF col, at, s, c
  <2>5. CASE P.out[<<s, xs[n]>>] = 0
    <3>1. at[n] = s /\ col[n] = c
      BY <2>1, <2>3, <2>4, <2>5 DEF IsProgram
    <3>2. Chain(P, c, n)
      <4>1. ASSUME NEW k \in 1 .. Len(c) PROVE c[k].read \in 1 .. n
        <5>1. c[k].read \in 1 .. n - 1
          BY <2>2 DEF Chain
        <5> QED BY <5>1
      <4> QED BY <2>2, <4>1 DEF Chain
    <3> QED BY <2>1, <2>2, <3>1, <3>2
  <2>6. CASE P.out[<<s, xs[n]>>] # 0
    <3> DEFINE e == Entry(P, s, xs[n], n)
    <3>1. /\ P.next[<<s, xs[n]>>] \in ProgramStates(P)
          /\ P.out[<<s, xs[n]>>] \in Nat
      BY <2>1, <2>3 DEF IsProgram
    <3>2. /\ e \in EntryType(P) /\ e.input = xs[n] /\ e.read = n
          /\ e.output = P.out[<<s, xs[n]>>]
          /\ e.real = P.next[<<s, xs[n]>>]
      BY <2>1, <3>1, n \in Nat DEF Entry, EntryType, StateSeen
    <3> HIDE DEF e
    <3>3. /\ Chain(P, Append(c, e), (n - 1) + 1)
          /\ Before(P, Append(c, e), Len(Append(c, e)) + 1) = e.real
      BY <2>1, <2>2, <2>6, <3>2, ChainGrows
    <3>4. col[n] = Append(c, e)
      BY <2>4, <2>6 DEF e
    <3> QED BY <2>1, <2>3, <3>2, <3>3, <3>4
  <2> QED BY <2>5, <2>6
<1>3. T = 0 .. N
  <2>1. T \in SUBSET (0 .. N)
    OBVIOUS
  <2> HIDE DEF T, N
  <2> QED BY <1>0, <1>1, <1>2, <2>1, UpTo
<1> QED BY <1>3

(* The first k entries of c and d are about the same events.               *)
Same(c, d, k) ==
    \A j \in 1 .. k : c[j].input = d[j].input /\ c[j].output = d[j].output

(* Given the inputs of the first entries, the program makes them again.    *)
LEMMA EntriesAgain ==
    ASSUME NEW P, IsProgram(P), NEW m, NEW c, Chain(P, c, m),
           NEW K \in 0 .. Len(c), NEW zs \in Seq(Input), K <= Len(zs),
           \A k \in 1 .. K : zs[k] = c[k].input
    PROVE  \A n \in 0 .. K :
             /\ Len(EntriesOf(P, zs)[n]) = n
             /\ Same(c, EntriesOf(P, zs)[n], n)
             /\ StatesOf(P, zs)[n] = Before(P, c, n + 1)
<1> DEFINE col == EntriesOf(P, zs)
           at == StatesOf(P, zs)
           T == {n \in 0 .. K : /\ Len(col[n]) = n /\ Same(c, col[n], n)
                                /\ at[n] = Before(P, c, n + 1)}
<1>0. c \in Seq(EntryType(P)) /\ Len(c) \in Nat /\ K \in Nat
  BY DEF Chain
<1>1. 0 \in T
  <2>1. col[0] = <<>> /\ at[0] = P.init
    BY EntriesFacts, StatesFacts
  <2> HIDE DEF col, at
  <2> QED BY <1>0, <2>1 DEF Same, Before
<1>2. ASSUME NEW n \in 1 .. K, n - 1 \in T PROVE n \in T
  <2>1. /\ n \in 0 .. K /\ n - 1 \in 0 .. Len(zs) /\ n \in 1 .. Len(zs)
        /\ n \in 1 .. Len(c) /\ zs[n] = c[n].input /\ (n - 1) + 1 = n
    BY <1>0
  <2>2. /\ Len(col[n - 1]) = n - 1 /\ Same(c, col[n - 1], n - 1)
        /\ at[n - 1] = Before(P, c, n)
    BY <1>2, <2>1
  <2>3. at[n] = P.next[<<at[n - 1], zs[n]>>]
    BY <2>1, StatesFacts
  <2>4. col[n] = IF P.out[<<at[n - 1], zs[n]>>] = 0 THEN col[n - 1]
                 ELSE Append(col[n - 1], Entry(P, at[n - 1], zs[n], n))
    BY <2>1, EntriesFacts
  <2>5. col[n - 1] \in Seq(EntryType(P))
    BY <2>1, EntriesFacts
  <2> HIDE DEF col, at
  <2>6. /\ P.out[<<at[n - 1], zs[n]>>] = c[n].output /\ c[n].output # 0
        /\ P.next[<<at[n - 1], zs[n]>>] = c[n].real
    BY <2>1, <2>2 DEF Chain
  <2> DEFINE e == Entry(P, at[n - 1], zs[n], n)
  <2>7. e.input = c[n].input /\ e.output = c[n].output
    BY <2>1, <2>6 DEF Entry
  <2>8. col[n] = Append(col[n - 1], e)
    BY <2>4, <2>6
  <2> HIDE DEF e
  <2>9. /\ Len(col[n]) = n /\ col[n][n] = e
        /\ \A j \in 1 .. n - 1 : col[n][j] = col[n - 1][j]
    <3> DEFINE d == col[n - 1]
               E == EntryType(P)
    <3>1. d \in Seq(E) /\ Len(d) = n - 1
      BY <2>2, <2>5
    <3> HIDE DEF d, E
    <3>2. /\ Len(Append(d, e)) = Len(d) + 1 /\ Append(d, e)[Len(d) + 1] = e
          /\ \A j \in 1 .. Len(d) : Append(d, e)[j] = d[j]
      BY <3>1
    <3> QED BY <2>1, <2>8, <3>1, <3>2 DEF d
  <2>10. Same(c, col[n], n)
    <3> SUFFICES ASSUME NEW j \in 1 .. n
                 PROVE  /\ c[j].input = col[n][j].input
                        /\ c[j].output = col[n][j].output
      BY DEF Same
    <3>1. j = n \/ j \in 1 .. n - 1
      OBVIOUS
    <3> QED BY <2>2, <2>7, <2>9, <3>1 DEF Same
  <2>11. at[n] = Before(P, c, n + 1)
    <3>1. n + 1 # 1 /\ (n + 1) - 1 = n
      OBVIOUS
    <3> QED BY <2>3, <2>6, <3>1 DEF Before
  <2> QED BY <2>1, <2>9, <2>10, <2>11
<1>3. T = 0 .. K
  <2>1. T \in SUBSET (0 .. K)
    OBVIOUS
  <2> HIDE DEF T
  <2> QED BY <1>0, <1>1, <1>2, <2>1, UpTo
<1> QED BY <1>3

(* The sequence d begins with c.                                           *)
Begins(c, d) ==
    Len(c) <= Len(d) /\ \A j \in 1 .. Len(c) : c[j] = d[j]

(* It does so however it is extended, ...                                  *)
LEMMA BeginsAppended ==
    ASSUME NEW S, NEW c, Len(c) \in Nat, NEW d \in Seq(S), NEW e, Begins(c, d)
    PROVE  Begins(c, Append(d, e))
<1> DEFINE a == Append(d, e)
<1>1. /\ Len(d) \in Nat /\ Len(a) = Len(d) + 1
      /\ \A j \in 1 .. Len(d) : a[j] = d[j]
  OBVIOUS
<1> HIDE DEF a
<1>2. Len(c) <= Len(a)
  BY <1>1 DEF Begins
<1>3. ASSUME NEW j \in 1 .. Len(c) PROVE c[j] = a[j]
  <2>1. j \in 1 .. Len(d) /\ c[j] = d[j]
    BY <1>1 DEF Begins
  <2> QED BY <1>1, <2>1
<1>4. Begins(c, a)
  BY <1>2, <1>3 DEF Begins
<1> QED BY <1>4 DEF a

(* ... so what was collected stays.                                        *)
LEMMA EntriesStay ==
    ASSUME NEW P, IsProgram(P), NEW xs \in Seq(Input), NEW m \in 0 .. Len(xs)
    PROVE  Begins(EntriesOf(P, xs)[m], Collected(P, xs))
<1> DEFINE N == Len(xs)
           col == EntriesOf(P, xs)
           T == {n \in 0 .. N : m <= n => Begins(col[m], col[n])}
<1>0. N \in Nat /\ m \in 0 .. N
  OBVIOUS
<1>1. \A n \in 0 .. N : col[n] \in Seq(EntryType(P)) /\ Len(col[n]) \in Nat
  BY EntriesFacts
<1>2. 0 \in T
  BY <1>1 DEF Begins
<1>3. ASSUME NEW n \in 1 .. N, n - 1 \in T PROVE n \in T
  <2>1. n \in 0 .. N /\ n - 1 \in 0 .. N
    OBVIOUS
  <2>2. CASE m = n
    BY <1>1, <2>1, <2>2 DEF Begins
  <2>3. CASE m > n
    BY <2>1, <2>3
  <2>4. CASE m < n
    <3>1. Begins(col[m], col[n - 1])
      BY <1>3, <2>4
    <3>2. \/ col[n] = col[n - 1]
          \/ \E e : col[n] = Append(col[n - 1], e)
      BY EntriesFacts
    <3>3. ASSUME NEW e, col[n] = Append(col[n - 1], e)
          PROVE  Begins(col[m], col[n])
      <4>1. col[n - 1] \in Seq(EntryType(P)) /\ Len(col[m]) \in Nat
        BY <1>0, <1>1, <2>1
      <4> HIDE DEF col
      <4>2. Begins(col[m], Append(col[n - 1], e))
        BY <3>1, <4>1, BeginsAppended
      <4> QED BY <3>3, <4>2
    <3> HIDE DEF col
    <3> QED BY <2>1, <3>1, <3>2, <3>3
  <2> QED BY <2>2, <2>3, <2>4
<1>4. T = 0 .. N
  <2>1. T \in SUBSET (0 .. N)
    OBVIOUS
  <2> HIDE DEF T, N
  <2> QED BY <1>0, <1>2, <1>3, <2>1, UpTo
<1>5. N \in T /\ m <= N
  BY <1>0, <1>4
<1> QED BY <1>5 DEF Collected

-----------------------------------------------------------------------------
(* The path of a trace.                                                    *)

IsList(s) == Len(s) \in Nat /\ DOMAIN s = 1 .. Len(s)

LEMMA FunctionIsList ==
    ASSUME NEW n \in Nat, NEW f, f = [k \in 1 .. n |-> f[k]]
    PROVE  Len(f) = n /\ IsList(f)
<1>1. f \in [1 .. n -> {f[k] : k \in 1 .. n}]
  OBVIOUS
<1>2. f \in Seq({f[k] : k \in 1 .. n})
  BY <1>1, SeqDef
<1> DEFINE T == {f[k] : k \in 1 .. n}
<1>3. f \in Seq(T) /\ DOMAIN f = 1 .. n
  BY <1>1, <1>2
<1> HIDE DEF T
<1>4. Len(f) = n
  BY <1>3, LenProperties
<1> QED BY <1>3, <1>4 DEF IsList

LEMMA TraceIsList ==
    ASSUME NEW c, Len(c) \in Nat
    PROVE  /\ IsList(normalize_trace(c, FALSE))
           /\ Len(normalize_trace(c, FALSE)) = 2 * Len(c)
<1>1. normalize_trace(c, FALSE) =
        [j \in 1 .. 2 * Len(c) |-> normalize_trace(c, FALSE)[j]]
  BY DEF normalize_trace
<1>2. 2 * Len(c) \in Nat
  OBVIOUS
<1> DEFINE f == normalize_trace(c, FALSE)
           n == 2 * Len(c)
<1>3. f = [j \in 1 .. n |-> f[j]] /\ n \in Nat
  BY <1>1, <1>2
<1> HIDE DEF f, n
<1>4. Len(f) = n /\ IsList(f)
  BY <1>3, FunctionIsList
<1> QED BY <1>4 DEF f, n

LEMMA VisitedIsList ==
    ASSUME NEW A, NEW trace, Len(trace) \in Nat
    PROVE  /\ IsList(Visited(A, trace))
           /\ Len(Visited(A, trace)) = Len(trace)
           /\ \A n \in 1 .. Len(trace) :
                Visited(A, trace)[n] = StatesAlong(A, trace)[n]
<1>1. Visited(A, trace) = [n \in 1 .. Len(trace) |-> Visited(A, trace)[n]]
  BY DEF Visited
<1>2. \A n \in 1 .. Len(trace) :
        Visited(A, trace)[n] = StatesAlong(A, trace)[n]
  BY DEF Visited
<1> QED BY <1>1, <1>2, FunctionIsList

(* Traces that agree up to k lead through the same states up to k.         *)
LEMMA VisitedAgree ==
    ASSUME NEW A, NEW tr, NEW us, Len(tr) \in Nat, Len(us) \in Nat,
           NEW k \in Nat, k <= Len(tr), k <= Len(us),
           \A n \in 1 .. k : tr[n] = us[n]
    PROVE  \A n \in 1 .. k : Visited(A, tr)[n] = Visited(A, us)[n]
<1> DEFINE f == StatesAlong(A, tr)
           g == StatesAlong(A, us)
           T == {n \in 0 .. k : f[n] = g[n]}
<1>1. 0 \in T
  BY AlongFacts
<1>2. ASSUME NEW n \in 1 .. k, n - 1 \in T PROVE n \in T
  <2>1. f[n - 1] = g[n - 1] /\ tr[n] = us[n]
    BY <1>2
  <2>2. f[n] = Moves(A, tr[n])[f[n - 1]] /\ g[n] = Moves(A, us[n])[g[n - 1]]
    <3>1. n \in 1 .. Len(tr) /\ n \in 1 .. Len(us)
      OBVIOUS
    <3> QED BY <3>1, AlongFacts
  <2> QED BY <2>1, <2>2
<1>3. T = 0 .. k
  <2>1. T \in SUBSET (0 .. k)
    OBVIOUS
  <2> HIDE DEF T
  <2> QED BY <1>1, <1>2, <2>1, UpTo
<1>4. ASSUME NEW n \in 1 .. k
      PROVE  Visited(A, tr)[n] = Visited(A, us)[n]
  <2>1. n \in T /\ n \in 1 .. Len(tr) /\ n \in 1 .. Len(us)
    BY <1>3
  <2>2. Visited(A, tr)[n] = f[n] /\ Visited(A, us)[n] = g[n]
    BY <2>1, VisitedIsList
  <2> QED BY <2>1, <2>2
<1> QED BY <1>4

(* ... and the same states make the same path.                             *)
LEMMA PathsAgree ==
    ASSUME NEW v, NEW w, IsList(v), IsList(w),
           NEW k \in Nat, k <= Len(v), k <= Len(w),
           \A n \in 1 .. k : v[n] = w[n]
    PROVE  PathsOf(v)[k] = PathsOf(w)[k]
<1> DEFINE f == PathsOf(v)
           g == PathsOf(w)
           T == {n \in 0 .. k : f[n] = g[n]}
<1>1. 0 \in T
  BY PathFacts DEF IsList
<1>2. ASSUME NEW n \in 1 .. k, n - 1 \in T PROVE n \in T
  <2>1. f[n - 1] = g[n - 1] /\ v[n] = w[n]
    BY <1>2
  <2>2. n \in 1 .. Len(v) /\ n \in 1 .. Len(w)
    BY DEF IsList
  <2>3. n \in Changes(v) <=> n \in Changes(w)
    <3>1. n > 1 => v[n - 1] = w[n - 1]
      OBVIOUS
    <3> QED BY <2>1, <2>2, <3>1 DEF Changes, IsList
  <2>4. /\ f[n] = IF n \in Changes(v) THEN Append(f[n - 1], v[n])
                  ELSE f[n - 1]
        /\ g[n] = IF n \in Changes(w) THEN Append(g[n - 1], w[n])
                  ELSE g[n - 1]
    BY <2>2, PathFacts DEF IsList
  <2> HIDE DEF f, g
  <2> QED BY <2>1, <2>3, <2>4
<1>3. T = 0 .. k
  <2>1. T \in SUBSET (0 .. k)
    OBVIOUS
  <2> HIDE DEF T
  <2> QED BY <1>1, <1>2, <2>1, UpTo
<1>4. k \in T
  BY <1>3
<1> QED BY <1>4

(* A path is only appended to, ...                                         *)
LEMMA PathsStay ==
    ASSUME NEW v, IsList(v), NEW m \in 0 .. Len(v)
    PROVE  /\ Begins(PathsOf(v)[m], PathOf(v))
           /\ Len(PathsOf(v)[m]) \in Nat
<1> DEFINE N == Len(v)
           f == PathsOf(v)
           V == {v[k] : k \in Changes(v)}
           T == {n \in 0 .. N : m <= n => Begins(f[m], f[n])}
<1>0. N \in Nat /\ m \in 0 .. N
  BY DEF IsList
<1>1. \A n \in 0 .. N : f[n] \in Seq(V)
  BY <1>0, PathFacts
<1> HIDE DEF V
<1>2. \A n \in 0 .. N : Len(f[n]) \in Nat
  BY <1>1
<1>3. 0 \in T
  BY <1>2, <1>0 DEF Begins
<1>4. ASSUME NEW n \in 1 .. N, n - 1 \in T PROVE n \in T
  <2>1. n \in 0 .. N /\ n - 1 \in 0 .. N
    BY <1>0
  <2>2. \/ f[n] = f[n - 1]
        \/ f[n] = Append(f[n - 1], v[n]) /\ v[n] \in V
    BY <1>0, PathFacts DEF Changes, V
  <2> DEFINE d == f[n - 1]
             e == v[n]
  <2>3. d \in Seq(V) /\ Len(d) \in Nat
    BY <1>1, <1>2, <2>1
  <2> HIDE DEF f, d, e
  <2>5. CASE m = n
    BY <1>2, <2>1, <2>5 DEF Begins
  <2>6. CASE m > n
    BY <2>1, <2>6
  <2>7. CASE m < n
    <3>1. Begins(f[m], d) /\ Len(f[m]) \in Nat
      BY <1>0, <1>2, <1>4, <2>7 DEF d
    <3>2. Begins(f[m], Append(d, e))
      BY <2>3, <3>1, BeginsAppended
    <3>3. Begins(f[m], f[n])
      BY <2>2, <3>1, <3>2 DEF d, e
    <3> QED BY <2>1, <3>3
  <2> QED BY <1>0, <2>5, <2>6, <2>7
<1>5. T = 0 .. N
  <2>1. T \in SUBSET (0 .. N)
    OBVIOUS
  <2> HIDE DEF T, N
  <2> QED BY <1>0, <1>3, <1>4, <2>1, UpTo
<1>6. N \in T /\ m <= N
  BY <1>0, <1>5
<1> QED BY <1>0, <1>2, <1>6 DEF PathOf

(* ... and by nothing after the last change.                               *)
LEMMA PathsRest ==
    ASSUME NEW v, IsList(v), NEW m \in 0 .. Len(v),
           \A n \in Changes(v) : n <= m
    PROVE  PathOf(v) = PathsOf(v)[m]
<1> DEFINE N == Len(v)
           f == PathsOf(v)
           T == {n \in 0 .. N : m <= n => f[n] = f[m]}
<1>0. N \in Nat /\ m \in 0 .. N
  BY DEF IsList
<1>1. 0 \in T
  BY <1>0
<1>2. ASSUME NEW n \in 1 .. N, n - 1 \in T PROVE n \in T
  <2>1. CASE m >= n
    BY <1>0, <2>1
  <2>2. CASE m < n
    <3>1. n \notin Changes(v)
      BY <1>0, <2>2
    <3>2. f[n] = f[n - 1]
      BY <1>0, <3>1, PathFacts
    <3>3. f[n - 1] = f[m]
      BY <1>0, <1>2, <2>2
    <3> QED BY <1>0, <3>2, <3>3
  <2> QED BY <1>0, <2>1, <2>2
<1>3. T = 0 .. N
  <2>1. T \in SUBSET (0 .. N)
    OBVIOUS
  <2> HIDE DEF T, N
  <2> QED BY <1>0, <1>1, <1>2, <2>1, UpTo
<1>4. N \in T /\ m <= N
  BY <1>0, <1>3
<1> QED BY <1>4 DEF PathOf

LEMMA PathNeedsChange ==
    ASSUME NEW v, IsList(v), PathOf(v) # <<>>
    PROVE  /\ Changes(v) \in SUBSET (0 .. Len(v))
           /\ Max(Changes(v)) \in Changes(v)
           /\ \A n \in Changes(v) : n <= Max(Changes(v))
<1>1. Changes(v) # {}
  <2> SUFFICES ASSUME Changes(v) = {} PROVE FALSE
    OBVIOUS
  <2>1. 0 \in 0 .. Len(v)
    BY DEF IsList
  <2>2. PathOf(v) = PathsOf(v)[0]
    BY <2>1, PathsRest
  <2>3. PathsOf(v)[0] = <<>>
    BY PathFacts DEF IsList
  <2> QED BY <2>2, <2>3
<1>2. Changes(v) \in SUBSET (0 .. Len(v)) /\ Len(v) \in Nat
  BY DEF Changes, IsList
<1>3. /\ Max(Changes(v)) \in Changes(v)
      /\ \A n \in Changes(v) : Max(Changes(v)) >= n
  BY <1>1, <1>2, MaxIsGreatest
<1> QED BY <1>2, <1>3

(* In a set of the first numbers, the n-th is n.                           *)
LEMMA NthOfFirst ==
    ASSUME NEW K \in Nat, NEW n \in 1 .. K
    PROVE  Nth(1 .. K, n) = n /\ Cardinality(1 .. K) = K
<1>1. \A k \in 1 .. K : Cardinality({j \in 1 .. K : j <= k}) = k
  <2> TAKE k \in 1 .. K
  <2>1. {j \in 1 .. K : j <= k} = 1 .. k
    OBVIOUS
  <2>2. Cardinality(1 .. k) = k
    BY FS_Interval
  <2> QED BY <2>1, <2>2
<1>2. Cardinality(1 .. K) = K
  BY FS_Interval
<1>3. Nth(1 .. K, n) = n
  BY <1>1 DEF Nth
<1> QED BY <1>2, <1>3

(* How many entries there are up to the last change.                       *)
Entries(v) == (Max(Changes(v)) + 1) \div 2

(* Every output of an entry is positive, so that a program's prefix is the *)
(* inputs of all the entries up to the last change.                        *)
LEMMA PrefixIsInputs ==
    ASSUME NEW P, NEW m, NEW c, Chain(P, c, m), NEW v,
           IsList(v), Len(v) = 2 * Len(c), PathOf(v) # <<>>
    PROVE  /\ Entries(v) \in 0 .. Len(c)
           /\ \A n \in Changes(v) : n <= 2 * Entries(v)
           /\ PrefixOfRers(c, v)
                = [n \in 1 .. Entries(v) |-> c[n].input]
<1> DEFINE last == Max(Changes(v))
           K == Entries(v)
           used == {k \in DOMAIN c : /\ 2 * k - 1 <= last
                                     /\ \/ (2 * k - 1) \in Changes(v)
                                        \/ c[k].output > 0}
<1>1. /\ c \in Seq(EntryType(P)) /\ DOMAIN c = 1 .. Len(c) /\ Len(c) \in Nat
  BY DEF Chain
<1>2. \A k \in 1 .. Len(c) : c[k].output > 0
  <2> TAKE k \in 1 .. Len(c)
  <2>1. c[k] \in EntryType(P)
    BY <1>1
  <2>2. c[k].output \in Nat /\ c[k].output # 0
    BY <2>1 DEF EntryType, Chain
  <2> QED BY <2>2
<1>3. /\ last \in 0 .. 2 * Len(c)
      /\ \A n \in Changes(v) : n <= last
      /\ K = (last + 1) \div 2
  <2>1. /\ Changes(v) \in SUBSET (0 .. Len(v)) /\ last \in Changes(v)
        /\ \A n \in Changes(v) : n <= last
    BY PathNeedsChange
  <2> QED BY <2>1 DEF Entries
<1> HIDE DEF last, K
<1>4. /\ K \in 0 .. Len(c) /\ last <= 2 * K
      /\ \A k \in 1 .. Len(c) : 2 * k - 1 <= last <=> k <= K
  BY <1>1, <1>3
<1>5. used = 1 .. K
  BY <1>1, <1>2, <1>4
<1>6. PrefixOfRers(c, v) =
        [n \in 1 .. Cardinality(used) |-> c[Nth(used, n)].input]
  BY DEF PrefixOfRers, last
<1> HIDE DEF used
<1>7. Cardinality(1 .. K) = K /\ \A n \in 1 .. K : Nth(1 .. K, n) = n
  <2>1. K \in Nat
    BY <1>1, <1>4
  <2>2. Cardinality(1 .. K) = K
    BY <2>1, FS_Interval
  <2> QED BY <2>1, <2>2, NthOfFirst
<1>8. PrefixOfRers(c, v) = [n \in 1 .. K |-> c[n].input]
  BY <1>5, <1>6, <1>7
<1>9. \A n \in Changes(v) : n <= 2 * K
  BY <1>1, <1>3, <1>4 DEF Changes, IsList
<1> QED BY <1>4, <1>8, <1>9 DEF K

-----------------------------------------------------------------------------
(* A prefix leads a RERS program along its path.                           *)

(* The path of an execution that reads xs.                                 *)
PathFrom(A, P, xs) ==
    PathOf(Visited(A, normalize_trace(Collected(P, xs), FALSE)))

(* Whatever is read after x, the path begins with p.                       *)
Leads(A, P, p, x) ==
    /\ x \in Seq(Input)
    /\ \A ys \in Seq(Input) : Begins(p, PathFrom(A, P, x \o ys))

LEMMA PrefixLeads ==
    ASSUME NEW A, NEW P, IsProgram(P), NEW xs \in Seq(Input),
           PathFrom(A, P, xs) # <<>>
    PROVE  Leads(A, P, PathFrom(A, P, xs),
                 PrefixOf(Collected(P, xs),
                          Visited(A, normalize_trace(Collected(P, xs), FALSE)),
                          xs, FALSE))
<1> DEFINE c == Collected(P, xs)
           tr == normalize_trace(c, FALSE)
           v == Visited(A, tr)
           x == PrefixOf(c, v, xs, FALSE)
<1>1. Chain(P, c, Len(xs)) /\ c \in Seq(EntryType(P)) /\ Len(c) \in Nat
  <2>1. Chain(P, c, Len(xs))
    BY CollectedIsChain DEF Collected
  <2> QED BY <2>1 DEF Chain
<1>2. IsList(tr) /\ Len(tr) = 2 * Len(c)
  BY <1>1, TraceIsList
<1>3. IsList(v) /\ Len(v) = 2 * Len(c)
  <2>1. Len(tr) \in Nat
    BY <1>2 DEF IsList
  <2> HIDE DEF tr
  <2> QED BY <1>2, <2>1, VisitedIsList
<1>4. PathOf(v) = PathFrom(A, P, xs)
  BY DEF PathFrom
<1> DEFINE K == Entries(v)
<1>5. /\ K \in 0 .. Len(c)
      /\ \A n \in Changes(v) : n <= 2 * K
      /\ x = [n \in 1 .. K |-> c[n].input]
  <2>1. PathOf(v) # <<>>
    BY <1>4
  <2> HIDE DEF c, v
  <2>2. K \in 0 .. Len(c)
    BY <1>1, <1>3, <2>1, PrefixIsInputs
  <2>3. \A n \in Changes(v) : n <= 2 * K
    BY <1>1, <1>3, <2>1, PrefixIsInputs
  <2>4. x = [n \in 1 .. K |-> c[n].input]
    <3>1. x = PrefixOfRers(c, v)
      BY DEF PrefixOf
    <3> HIDE DEF x
    <3> QED BY <1>1, <1>3, <2>1, <3>1, PrefixIsInputs
  <2> QED BY <2>2, <2>3, <2>4
<1> HIDE DEF x, v, tr, c, K
<1>6. x \in Seq(Input) /\ Len(x) = K
  <2>1. \A n \in 1 .. K : c[n].input \in Input
    <3> TAKE n \in 1 .. K
    <3>1. n \in 1 .. Len(c)
      BY <1>1, <1>5
    <3>2. c[n] \in EntryType(P)
      BY <1>1, <3>1
    <3> QED BY <3>2 DEF EntryType
  <2>2. x \in [1 .. K -> Input] /\ K \in Nat
    BY <1>1, <1>5, <2>1
  <2>3. x \in Seq(Input)
    BY <2>2, SeqDef
  <2> QED BY <2>2, <2>3, LenProperties
<1>7. ASSUME NEW ys \in Seq(Input)
      PROVE  Begins(PathOf(v), PathFrom(A, P, x \o ys))
  <2> DEFINE zs == x \o ys
             d == Collected(P, zs)
             us == normalize_trace(d, FALSE)
             w == Visited(A, us)
  <2>1. /\ zs \in Seq(Input) /\ K <= Len(zs)
        /\ \A k \in 1 .. K : zs[k] = c[k].input
    BY <1>5, <1>6
  <2> HIDE DEF zs
  <2>2. Len(d) \in Nat /\ Len(d) >= K /\ Same(c, d, K)
    <3> DEFINE e == EntriesOf(P, zs)[K]
    <3>1. K \in 0 .. Len(zs) /\ K \in 0 .. K /\ K \in 0 .. Len(c)
      BY <1>1, <1>5, <2>1
    <3>2. Len(e) = K /\ Same(c, e, K)
      BY <1>1, <2>1, <3>1, EntriesAgain
    <3>3. Begins(e, d)
      BY <2>1, <3>1, EntriesStay
    <3>4. Len(d) \in Nat
      <4>1. Len(zs) \in 0 .. Len(zs)
        BY <2>1
      <4>2. d \in Seq(EntryType(P))
        BY <2>1, <4>1, EntriesFacts DEF Collected
      <4> QED BY <4>2
    <3> HIDE DEF e, d
    <3> QED BY <3>1, <3>2, <3>3, <3>4 DEF Begins, Same
  <2>3. IsList(us) /\ Len(us) = 2 * Len(d)
    <3> HIDE DEF d
    <3> QED BY <2>2, TraceIsList
  <2>4. IsList(w) /\ Len(w) = Len(us)
    <3>1. Len(us) \in Nat
      BY <2>3 DEF IsList
    <3> HIDE DEF us
    <3> QED BY <3>1, VisitedIsList
  <2>5. \A n \in 1 .. 2 * K : tr[n] = us[n]
    <3> TAKE n \in 1 .. 2 * K
    <3>1. n \in 1 .. 2 * Len(c) /\ n \in 1 .. 2 * Len(d)
      BY <1>1, <1>5, <2>2
    <3> DEFINE i == (n + 1) \div 2
               j == n \div 2
    <3>2. /\ n % 2 = 1 => i \in 1 .. K
          /\ n % 2 # 1 => j \in 1 .. K
      BY <1>1, <1>5
    <3> HIDE DEF d
    <3>3. /\ tr[n] = IF n % 2 = 1 THEN In(c[i].input) ELSE Out(c[j].output)
          /\ us[n] = IF n % 2 = 1 THEN In(d[i].input) ELSE Out(d[j].output)
      BY <3>1 DEF normalize_trace, tr
    <3> HIDE DEF us, i, j
    <3> QED BY <2>2, <3>2, <3>3 DEF Same
  <2> DEFINE k == 2 * K
  <2>6. /\ k \in Nat /\ k <= Len(tr) /\ k <= Len(us)
        /\ Len(tr) \in Nat /\ Len(us) \in Nat
        /\ k \in 0 .. Len(v) /\ k \in 0 .. Len(w)
    <3> HIDE DEF w, us, d
    <3> QED BY <1>1, <1>5, <1>2, <1>3, <2>2, <2>3, <2>4
  <2> HIDE DEF k
  <2>7. \A n \in 1 .. k : v[n] = w[n]
    <3> HIDE DEF us
    <3> QED BY <2>5, <2>6, VisitedAgree DEF v, k
  <2> HIDE DEF w, us, d
  <2>8. PathsOf(v)[k] = PathsOf(w)[k]
    <3>1. k <= Len(v) /\ k <= Len(w)
      BY <1>2, <1>3, <2>4, <2>6
    <3> QED BY <1>3, <2>4, <2>6, <2>7, <3>1, PathsAgree
  <2>9. PathOf(v) = PathsOf(v)[k]
    <3>1. \A n \in Changes(v) : n <= k
      BY <1>5 DEF k
    <3> QED BY <1>3, <2>6, <3>1, PathsRest
  <2>10. Begins(PathsOf(w)[k], PathOf(w))
    BY <2>4, <2>6, PathsStay
  <2>11. PathOf(w) = PathFrom(A, P, x \o ys)
    BY DEF PathFrom, w, us, d, zs
  <2> QED BY <2>8, <2>9, <2>10, <2>11
<1> QED BY <1>4, <1>6, <1>7 DEF Leads, x, v, tr, c

(* A greedy move ends in a state of the automaton or dies.                 *)
LEMMA MoveType ==
    ASSUME NEW S, NEW A, IsAutomaton(A, S), NEW s \in S, NEW e
    PROVE  Move(A, s, e) \in S \cup {Dead}
<1>1. /\ Hits(A, s, e) \in SUBSET Nat
      /\ Len(A.out[s]) \in Nat
      /\ Defaults(A, s) \in SUBSET (0 .. Len(A.out[s]))
  BY DEF IsAutomaton, Hits, Defaults
<1>2. \A i \in DOMAIN A.out[s] : A.out[s][i].dst \in S
  BY DEF IsAutomaton, IsEdge
<1>3. CASE Hits(A, s, e) # {}
  <2>1. Min(Hits(A, s, e)) \in Hits(A, s, e)
    BY <1>1, <1>3, MinIsLeast
  <2>2. Min(Hits(A, s, e)) \in DOMAIN A.out[s]
    BY <2>1 DEF Hits
  <2> QED BY <1>2, <1>3, <2>2 DEF Move
<1>4. CASE Hits(A, s, e) = {} /\ Defaults(A, s) # {}
  <2>1. Max(Defaults(A, s)) \in Defaults(A, s)
    BY <1>1, <1>4, MaxIsGreatest
  <2>2. Max(Defaults(A, s)) \in DOMAIN A.out[s]
    BY <2>1 DEF Defaults
  <2> QED BY <1>2, <1>4, <2>2 DEF Move
<1>5. CASE Hits(A, s, e) = {} /\ Defaults(A, s) = {}
  BY <1>5 DEF Move
<1> QED BY <1>3, <1>4, <1>5

(* The walk of a trace visits states of the automaton until it dies.       *)
LEMMA AlongType ==
    ASSUME NEW S, NEW A, IsAutomaton(A, S), NEW trace, Len(trace) \in Nat
    PROVE  /\ \A n \in 0 .. Len(trace) :
                StatesAlong(A, trace)[n] \in S \cup {Dead}
           /\ \A n \in 1 .. Len(trace) :
                StatesAlong(A, trace)[n] =
                  IF StatesAlong(A, trace)[n - 1] = Dead THEN Dead
                  ELSE Move(A, StatesAlong(A, trace)[n - 1], trace[n])
<1> DEFINE N == Len(trace)
           after == StatesAlong(A, trace)
           T == {n \in 0 .. N : after[n] \in S \cup {Dead}}
<1>0. S \subseteq Nat /\ A.init \in S
  BY DEF IsAutomaton
<1>1. 0 \in T
  BY <1>0, AlongFacts
<1>2. ASSUME NEW n \in 1 .. N, after[n - 1] \in S \cup {Dead}
      PROVE  /\ after[n] = IF after[n - 1] = Dead THEN Dead
                           ELSE Move(A, after[n - 1], trace[n])
             /\ after[n] \in S \cup {Dead}
  <2> DEFINE s == after[n - 1]
  <2>1. after[n] = Moves(A, trace[n])[s]
    BY AlongFacts
  <2>2. s \in S \cup {Dead} /\ s \in Int
    <3>1. s \in S \cup {Dead}
      BY <1>2
    <3> HIDE DEF s
    <3>2. S \subseteq Int /\ Dead \in Int
      BY <1>0 DEF Dead
    <3> QED BY <3>1, <3>2
  <2>3. Moves(A, trace[n])[s] =
          IF s = Dead THEN Dead ELSE Move(A, s, trace[n])
    <3> HIDE DEF s
    <3> QED BY <2>2 DEF Moves
  <2>4. s \in S => Move(A, s, trace[n]) \in S \cup {Dead}
    BY MoveType
  <2> HIDE DEF after, s
  <2>5. after[n] = IF s = Dead THEN Dead ELSE Move(A, s, trace[n])
    BY <2>1, <2>3
  <2>6. after[n] \in S \cup {Dead}
    BY <2>2, <2>4, <2>5
  <2> QED BY <2>5, <2>6 DEF s
<1>3. T = 0 .. N
  <2>1. T \in SUBSET (0 .. N) /\ N \in Nat
    OBVIOUS
  <2>2. ASSUME NEW n \in 1 .. N, n - 1 \in T PROVE n \in T
    <3>1. n \in 0 .. N
      OBVIOUS
    <3> HIDE DEF after
    <3> QED BY <1>2, <2>2, <3>1
  <2> HIDE DEF T, N
  <2> QED BY <1>1, <2>1, <2>2, UpTo
<1>4. \A n \in 0 .. N : after[n] \in S \cup {Dead}
  BY <1>3
<1> HIDE DEF after
<1>5. \A n \in 1 .. N : n - 1 \in 0 .. N
  OBVIOUS
<1> HIDE DEF N
<1>6. \A n \in 1 .. N : after[n] = IF after[n - 1] = Dead THEN Dead
                                   ELSE Move(A, after[n - 1], trace[n])
  BY <1>2, <1>4, <1>5
<1> QED BY <1>4, <1>6 DEF after, N

(* So a path is a sequence of its states.                                  *)
LEMMA PathType ==
    ASSUME NEW S, NEW A, IsAutomaton(A, S), NEW trace, Len(trace) \in Nat
    PROVE  PathOf(Visited(A, trace)) \in Seq(S)
<1> DEFINE N == Len(trace)
           v == Visited(A, trace)
<1>3. \A n \in 0 .. N : StatesAlong(A, trace)[n] \in S \cup {Dead}
  BY AlongType
<1>4. /\ IsList(v) /\ Len(v) = N
      /\ \A n \in 1 .. N : v[n] = StatesAlong(A, trace)[n]
  BY VisitedIsList
<1> HIDE DEF v, N
<1>5. \A k \in Changes(v) : v[k] \in S
  <2> TAKE k \in Changes(v)
  <2>1. k \in 1 .. N /\ v[k] # Dead
    BY <1>4 DEF Changes, IsList
  <2>2. k \in 0 .. N
    BY <2>1 DEF N
  <2> QED BY <1>3, <1>4, <2>1, <2>2
<1>6. PathOf(v) \in Seq({v[k] : k \in Changes(v)})
  <2>1. Len(v) \in 0 .. Len(v)
    BY <1>4 DEF IsList
  <2> QED BY <1>4, <2>1, PathFacts DEF PathOf, IsList
<1>7. {v[k] : k \in Changes(v)} \subseteq S
  BY <1>5
<1> DEFINE V == {v[k] : k \in Changes(v)}
<1>8. PathOf(v) \in Seq(V) /\ V \subseteq S
  BY <1>6, <1>7
<1> HIDE DEF V
<1>9. PathOf(v) \in Seq(S)
  BY <1>8
<1> QED BY <1>9 DEF v

(* What the target writes, after the first entries or all of them, has the *)
(* type of a path and a prefix.                                            *)
LEMMA WrittenType ==
    ASSUME NEW P, IsProgram(P), NEW xs \in Seq(Input),
           NEW A, NEW S, IsAutomaton(A, S), NEW flag \in BOOLEAN,
           NEW k \in Nat, k <= Len(Collected(P, xs)),
           ~ flag => k = Len(Collected(P, xs)),
           NEW col, col = SubSeq(Collected(P, xs), 1, k),
           NEW tr, tr = normalize_trace(col, flag),
           NEW vis, vis = Visited(A, tr), PathOf(vis) # <<>>
    PROVE  /\ PathOf(vis) \in Seq(S)
           /\ PrefixOf(col, vis, xs, flag) \in Seq(Input)
<1> DEFINE c == Collected(P, xs)
<1>1. Chain(P, c, Len(xs)) /\ c \in Seq(EntryType(P)) /\ Len(c) \in Nat
  <2>1. Chain(P, c, Len(xs))
    BY CollectedIsChain DEF Collected
  <2> QED BY <2>1 DEF Chain
<1> DEFINE E == EntryType(P)
<1> HIDE DEF c, E
<1>2. /\ Len(col) = k /\ \A j \in 1 .. k : col[j] = c[j]
      /\ (k = Len(c) => col = c)
  <2>1. c \in Seq(E) /\ Len(c) \in Nat /\ k <= Len(c)
    BY <1>1 DEF E, c
  <2>2. col = SubSeq(c, 1, k)
    BY DEF c
  <2> QED BY <2>1, <2>2
<1>3. IsList(tr) /\ Len(tr) = IF flag THEN k ELSE 2 * k
  <2>1. CASE flag
    <3>1. tr = [j \in DOMAIN col |-> tr[j]] /\ DOMAIN col = 1 .. k
      <4>1. col \in Seq(E)
        BY <1>1, <1>2 DEF c, E
      <4>2. DOMAIN col = 1 .. k
        BY <1>2, <4>1
      <4> QED BY <2>1, <4>2 DEF normalize_trace
    <3>2. tr = [j \in 1 .. k |-> tr[j]]
      BY <3>1
    <3> QED BY <2>1, <3>2, FunctionIsList
  <2>2. CASE ~ flag
    <3>1. tr = normalize_trace(col, FALSE)
      BY <2>2
    <3> QED BY <1>2, <2>2, <3>1, TraceIsList
  <2> QED BY <2>1, <2>2
<1>4. Len(tr) \in Nat
  BY <1>3 DEF IsList
<1>5. PathOf(vis) \in Seq(S)
  BY <1>4, PathType
<1>6. IsList(vis) /\ Len(vis) = Len(tr)
  BY <1>4, VisitedIsList
<1>7. CASE flag
  <2> DEFINE last == Max(Changes(vis))
  <2>1. last \in Changes(vis)
    BY <1>6, PathNeedsChange
  <2>2. last \in 1 .. k
    <3>1. last \in DOMAIN vis
      BY <2>1 DEF Changes
    <3>2. DOMAIN vis = 1 .. k
      BY <1>3, <1>6, <1>7 DEF IsList
    <3> QED BY <3>1, <3>2
  <2> HIDE DEF last
  <2>3. col[last] = c[last] /\ last \in 1 .. Len(c)
    BY <1>1, <1>2, <2>2 DEF c
  <2>4. col[last].read \in 1 .. Len(xs)
    BY <1>1, <2>3 DEF Chain
  <2>5. PrefixOf(col, vis, xs, flag) = SubSeq(xs, 1, col[last].read)
    BY <1>7 DEF PrefixOf, last
  <2> DEFINE r == col[last].read
  <2>6. r \in 1 .. Len(xs)
    BY <2>4
  <2> HIDE DEF r
  <2>7. SubSeq(xs, 1, r) \in Seq(Input)
    <3>1. /\ r \in Int /\ Len(xs) \in Nat /\ 1 \in 1 .. Len(xs) + 1
          /\ r \in 0 .. Len(xs)
      BY <2>6
    <3> QED BY <3>1
  <2> QED BY <1>5, <2>5, <2>7 DEF r
<1>8. CASE ~ flag
  <2>1. col = c
    BY <1>2, <1>8 DEF c
  <2>2. Len(vis) = 2 * Len(c)
    BY <1>2, <1>3, <1>6, <1>8 DEF c
  <2> DEFINE K == Entries(vis)
             x == PrefixOfRers(c, vis)
  <2>4. PrefixOf(col, vis, xs, flag) = x
    BY <1>8, <2>1 DEF PrefixOf
  <2>3. K \in 0 .. Len(c) /\ x = [n \in 1 .. K |-> c[n].input]
    <3>1. Chain(P, c, Len(xs)) /\ IsList(vis) /\ PathOf(vis) # <<>>
      BY <1>1, <1>6
    <3>2. /\ Entries(vis) \in 0 .. Len(c)
          /\ PrefixOfRers(c, vis) = [n \in 1 .. Entries(vis) |-> c[n].input]
      BY ONLY <2>2, <3>1, PrefixIsInputs
    <3> QED BY <3>2
  <2> HIDE DEF K, x
  <2>5. \A n \in 1 .. K : c[n].input \in Input
    <3> TAKE n \in 1 .. K
    <3>1. n \in 1 .. Len(c)
      BY <1>1, <2>3
    <3>2. c[n] \in EntryType(P)
      BY <1>1, <3>1
    <3> QED BY <3>2 DEF EntryType
  <2>6. x \in [1 .. K -> Input] /\ K \in Nat
    BY <1>1, <2>3, <2>5
  <2>7. x \in Seq(Input)
    BY <2>6, SeqDef
  <2> QED BY <1>5, <2>4, <2>7
<1> QED BY <1>5, <1>7, <1>8

-----------------------------------------------------------------------------
(* Reports.                                                                *)

(* What a set of states leads to are states.                               *)
LEMMA SuccessorsType ==
    ASSUME NEW S, NEW A, IsAutomaton(A, S), NEW Q \in SUBSET S, NEW e
    PROVE  Successors(A, Q, e) \in SUBSET S
<1> SUFFICES ASSUME NEW s \in Q, NEW i \in Enabled(A, s, e)
             PROVE  A.out[s][i].dst \in S
  BY DEF Successors
<1>1. s \in S /\ i \in DOMAIN A.out[s]
  BY DEF Enabled
<1> QED BY <1>1 DEF IsAutomaton, IsEdge

(* The sets of states that runs may be in, event after event.              *)
LEMMA OverFacts ==
    ASSUME NEW S, NEW A, IsAutomaton(A, S), NEW trace, Len(trace) \in Nat
    PROVE  /\ StatesOver(A, trace)[0] = {A.init}
           /\ \A n \in 1 .. Len(trace) :
                StatesOver(A, trace)[n] =
                  Successors(A, StatesOver(A, trace)[n - 1], trace[n])
<1> DEFINE N == Len(trace)
           T == SUBSET S
           eq(f) == [n \in 0 .. N |->
                       IF n = 0 THEN {A.init}
                       ELSE Successors(A, f[n - 1], trace[n])]
           step == [n \in 1 .. N |->
                      [Q \in T |-> Successors(A, Q, trace[n])]]
<1>0. N \in Nat /\ {A.init} \in T
  BY DEF IsAutomaton
<1>1. \A n \in 1 .. N : \A Q \in T :
        /\ step[n][Q] = Successors(A, Q, trace[n])
        /\ step[n][Q] \in T
  BY SuccessorsType
<1> HIDE DEF step, N, T
<1>2. PICK f : IsLoop(f, N, {A.init}, step)
  BY <1>0, LoopExists
<1>3. \A n \in 0 .. N : f[n] \in T
  <2> DEFINE c == {A.init}
  <2>1. c \in T /\ IsLoop(f, N, c, step)
    BY <1>0, <1>2
  <2> HIDE DEF c
  <2> QED BY <1>0, <1>1, <2>1, LoopType
<1>4. ASSUME NEW n \in 1 .. N
      PROVE  f[n] = Successors(A, f[n - 1], trace[n])
  <2>1. n - 1 \in 0 .. N
    BY <1>0
  <2> QED BY <1>1, <1>2, <1>3, <2>1 DEF IsLoop
<1>5. f = eq(f)
  <2>1. f = [n \in 0 .. N |-> f[n]] /\ f[0] = {A.init}
    BY <1>2 DEF IsLoop
  <2>2. \A n \in 0 .. N : n # 0 => n \in 1 .. N
    BY <1>0
  <2>3. \A n \in 0 .. N :
          f[n] = IF n = 0 THEN {A.init}
                 ELSE Successors(A, f[n - 1], trace[n])
    BY <1>4, <2>1, <2>2
  <2> QED BY <2>1, <2>3
<1> DEFINE over == StatesOver(A, trace)
<1>6. over = eq(over)
  BY <1>5 DEF StatesOver, N
<1>7. \A n \in 0 .. N :
        eq(over)[n] = IF n = 0 THEN {A.init}
                      ELSE Successors(A, over[n - 1], trace[n])
  OBVIOUS
<1>8. 0 \in 0 .. N /\ \A n \in 1 .. N : n \in 0 .. N /\ n # 0
  BY <1>0
<1> HIDE DEF over, eq
<1>9. /\ over[0] = {A.init}
      /\ \A n \in 1 .. N : over[n] = Successors(A, over[n - 1], trace[n])
  BY <1>6, <1>7, <1>8
<1> QED BY <1>9 DEF N, over

(* A run of the automaton over a trace ends in a state of ReachOver.       *)
LEMMA RunReaches ==
    ASSUME NEW S, NEW A, IsAutomaton(A, S), NEW trace, Len(trace) \in Nat,
           NEW w, w[0] = A.init,
           \A n \in 1 .. Len(trace) :
               w[n] \in Successors(A, {w[n - 1]}, trace[n])
    PROVE  w[Len(trace)] \in ReachOver(A, trace)
<1> DEFINE N == Len(trace)
           over == StatesOver(A, trace)
           T == {n \in 0 .. N : w[n] \in over[n]}
<1>1. /\ over[0] = {A.init}
      /\ \A n \in 1 .. N : over[n] = Successors(A, over[n - 1], trace[n])
  BY OverFacts
<1> HIDE DEF over
<1>2. 0 \in T
  BY <1>1
<1>3. ASSUME NEW n \in 1 .. N, n - 1 \in T PROVE n \in T
  <2>1. n \in 0 .. N /\ w[n - 1] \in over[n - 1]
    BY <1>3
  <2>2. w[n] \in Successors(A, {w[n - 1]}, trace[n])
    OBVIOUS
  <2>3. Successors(A, {w[n - 1]}, trace[n]) \subseteq
          Successors(A, over[n - 1], trace[n])
    BY <2>1 DEF Successors
  <2> QED BY <1>1, <2>1, <2>2, <2>3
<1>4. T = 0 .. N
  <2>1. T \in SUBSET (0 .. N) /\ N \in Nat
    OBVIOUS
  <2> HIDE DEF T, N
  <2> QED BY <1>2, <1>3, <2>1, UpTo
<1>5. N \in T
  BY <1>4
<1> QED BY <1>5 DEF ReachOver, over

(* From, to, and whether through acceptance.                               *)
Triples(S) == S \X S \X BOOLEAN

(* Of passes over more and more of a loop.                                 *)
LEMMA PassingType ==
    ASSUME NEW S, NEW A, IsAutomaton(A, S), NEW R \in SUBSET Triples(S), NEW e
    PROVE  Passing(A, R, e) \in SUBSET Triples(S)
<1> SUFFICES ASSUME NEW r \in R, NEW t \in Successors(A, {r[2]}, e)
             PROVE  <<r[1], t, r[3] \/ t \in A.acc>> \in Triples(S)
  <2> DEFINE new(r, t) == <<r[1], t, r[3] \/ t \in A.acc>>
             to(r) == Successors(A, {r[2]}, e)
  <2>1. Passing(A, R, e) = UNION {{new(r, t) : t \in to(r)} : r \in R}
    BY DEF Passing
  <2>2. \A r \in R : \A t \in to(r) : new(r, t) \in Triples(S)
    OBVIOUS
  <2> HIDE DEF new, to
  <2> QED BY <2>1, <2>2
<1>1. r[1] \in S /\ r[2] \in S
  BY DEF Triples
<1>2. t \in S
  <2>1. {r[2]} \in SUBSET S
    BY <1>1
  <2> QED BY <2>1, SuccessorsType
<1>3. (r[3] \/ t \in A.acc) \in BOOLEAN
  OBVIOUS
<1> DEFINE b == r[3] \/ t \in A.acc
<1> HIDE DEF b
<1>4. b \in BOOLEAN
  BY <1>3 DEF b
<1>5. <<r[1], t, b>> \in Triples(S)
  BY <1>1, <1>2, <1>4 DEF Triples
<1> QED BY <1>5 DEF b

LEMMA PassesFacts ==
    ASSUME NEW S, NEW A, IsAutomaton(A, S), NEW loop, Len(loop) \in Nat
    PROVE  /\ PassesOver(A, loop)[0] = Unmoved(A)
           /\ \A n \in 1 .. Len(loop) :
                PassesOver(A, loop)[n] =
                  Passing(A, PassesOver(A, loop)[n - 1], loop[n])
           /\ \A n \in 0 .. Len(loop) :
                PassesOver(A, loop)[n] \in SUBSET Triples(S)
<1> DEFINE N == Len(loop)
           T == SUBSET Triples(S)
           c == Unmoved(A)
           eq(f) == [n \in 0 .. N |->
                       IF n = 0 THEN c ELSE Passing(A, f[n - 1], loop[n])]
           step == [n \in 1 .. N |->
                      [Q \in T |-> Passing(A, Q, loop[n])]]
<1>0. N \in Nat /\ c \in T
  <2>1. DOMAIN A.out = S
    BY DEF IsAutomaton
  <2>2. \A s \in S : <<s, s, FALSE>> \in Triples(S)
    BY DEF Triples
  <2>3. c \subseteq Triples(S)
    BY <2>1, <2>2 DEF Unmoved
  <2> QED BY <2>3
<1>1. \A n \in 1 .. N : \A Q \in T :
        /\ step[n][Q] = Passing(A, Q, loop[n])
        /\ step[n][Q] \in T
  BY PassingType
<1> HIDE DEF step, N, T, c
<1>2. PICK f : IsLoop(f, N, c, step)
  BY <1>0, LoopExists
<1>3. \A n \in 0 .. N : f[n] \in T
  BY <1>0, <1>1, <1>2, LoopType
<1>4. ASSUME NEW n \in 1 .. N
      PROVE  f[n] = Passing(A, f[n - 1], loop[n])
  <2>1. n - 1 \in 0 .. N
    BY <1>0
  <2> QED BY <1>1, <1>2, <1>3, <2>1 DEF IsLoop
<1>5. f = eq(f)
  <2>1. f = [n \in 0 .. N |-> f[n]] /\ f[0] = c
    BY <1>2 DEF IsLoop
  <2>2. \A n \in 0 .. N : n # 0 => n \in 1 .. N
    BY <1>0
  <2>3. \A n \in 0 .. N :
          f[n] = IF n = 0 THEN c ELSE Passing(A, f[n - 1], loop[n])
    BY <1>4, <2>1, <2>2
  <2> QED BY <2>1, <2>3
<1> DEFINE over == PassesOver(A, loop)
<1>6. over = eq(over)
  BY <1>5 DEF PassesOver, N, c
<1>7. \A n \in 0 .. N :
        eq(over)[n] = IF n = 0 THEN c ELSE Passing(A, over[n - 1], loop[n])
  OBVIOUS
<1>8. 0 \in 0 .. N /\ \A n \in 1 .. N : n \in 0 .. N /\ n # 0
  BY <1>0
<1> HIDE DEF over, eq
<1>9. /\ over[0] = c
      /\ \A n \in 1 .. N : over[n] = Passing(A, over[n - 1], loop[n])
  BY <1>6, <1>7, <1>8
<1>10. \A n \in 0 .. N : over[n] \in T
  <2> DEFINE U == {n \in 0 .. N : over[n] \in T}
  <2>1. 0 \in U
    BY <1>0, <1>9
  <2>2. ASSUME NEW n \in 1 .. N, n - 1 \in U PROVE n \in U
    <3>1. n \in 0 .. N /\ over[n - 1] \in T
      BY <1>0, <2>2
    <3>2. over[n] = step[n][over[n - 1]]
      BY <1>1, <1>9, <3>1
    <3> QED BY <1>1, <3>1, <3>2
  <2>3. U = 0 .. N
    <3>1. U \in SUBSET (0 .. N)
      OBVIOUS
    <3> HIDE DEF U
    <3> QED BY <1>0, <2>1, <2>2, <3>1, UpTo
  <2> QED BY <2>3
<1> QED BY <1>9, <1>10 DEF N, T, c, over

(* An accepting state that every event of a loop may keep is passed.       *)
LEMMA LoopPasses ==
    ASSUME NEW S, NEW A, IsAutomaton(A, S), NEW loop, Len(loop) \in Nat \ {0},
           NEW s \in A.acc,
           \A n \in 1 .. Len(loop) : s \in Successors(A, {s}, loop[n])
    PROVE  <<s, s, TRUE>> \in Passes(A, loop)
<1> DEFINE N == Len(loop)
           over == PassesOver(A, loop)
           T == {n \in 0 .. N : \E r \in over[n] : r[1] = s /\ r[2] = s}
<1>0. N \in Nat /\ N # 0
  OBVIOUS
<1>1. /\ over[0] = Unmoved(A)
      /\ \A n \in 1 .. N : over[n] = Passing(A, over[n - 1], loop[n])
  BY <1>0, PassesFacts
<1>2. s \in DOMAIN A.out
  BY DEF IsAutomaton
<1> HIDE DEF over
<1>3. 0 \in T
  <2>1. <<s, s, FALSE>> \in over[0]
    BY <1>1, <1>2 DEF Unmoved
  <2> QED BY <1>0, <2>1
<1>4. ASSUME NEW n \in 1 .. N, n - 1 \in T
      PROVE  n \in T /\ <<s, s, TRUE>> \in over[n]
  <2>1. PICK r \in over[n - 1] : r[1] = s /\ r[2] = s
    BY <1>4
  <2>2. s \in Successors(A, {r[2]}, loop[n])
    BY <2>1
  <2>3. <<r[1], s, r[3] \/ s \in A.acc>> \in Passing(A, over[n - 1], loop[n])
    <3> DEFINE new(x, t) == <<x[1], t, x[3] \/ t \in A.acc>>
               to(x) == Successors(A, {x[2]}, loop[n])
    <3>1. Passing(A, over[n - 1], loop[n]) =
            UNION {{new(x, t) : t \in to(x)} : x \in over[n - 1]}
      BY DEF Passing
    <3>2. new(r, s) \in Passing(A, over[n - 1], loop[n])
      <4>1. s \in to(r)
        BY <2>2
      <4> HIDE DEF new, to
      <4> QED BY <3>1, <4>1
    <3> QED BY <3>2
  <2>4. (r[3] \/ s \in A.acc) = TRUE
    OBVIOUS
  <2>5. <<s, s, TRUE>> \in over[n]
    BY <1>1, <2>1, <2>3, <2>4
  <2> QED BY <1>0, <2>5
<1>5. T = 0 .. N
  <2>1. T \in SUBSET (0 .. N)
    OBVIOUS
  <2>2. \A n \in 1 .. N : n - 1 \in T => n \in T
    BY <1>4
  <2> HIDE DEF T, N
  <2> QED BY <1>0, <1>3, <2>1, <2>2, UpTo
<1>6. N \in 1 .. N /\ N - 1 \in T
  BY <1>0, <1>5
<1>7. <<s, s, TRUE>> \in over[N]
  BY <1>4, <1>6
<1> QED BY <1>7 DEF Passes, over

(* Joining keeps the type, ...                                             *)
LEMMA JoinedType ==
    ASSUME NEW S, NEW Q \in SUBSET Triples(S)
    PROVE  Q \cup Joined(Q) \in SUBSET Triples(S)
<1> SUFFICES ASSUME NEW y \in Q, NEW z \in Q
             PROVE  <<y[1], z[2], y[3] \/ z[3]>> \in Triples(S)
  BY DEF Joined
<1>1. y[1] \in S /\ z[2] \in S
  BY DEF Triples
<1> DEFINE b == y[3] \/ z[3]
<1>2. b \in BOOLEAN
  OBVIOUS
<1> HIDE DEF b
<1>3. <<y[1], z[2], b>> \in Triples(S)
  BY <1>1, <1>2 DEF Triples
<1> QED BY <1>3 DEF b

(* ... and closing keeps what there was.                                   *)
LEMMA ClosedKeeps ==
    ASSUME NEW S, NEW A, IsAutomaton(A, S), IsFiniteSet(S),
           NEW R \in SUBSET Triples(S)
    PROVE  R \subseteq Closed(A, R)
<1> DEFINE N == Cardinality(S) + 1
           T == SUBSET Triples(S)
           eq(f) == [k \in 0 .. N |->
                       IF k = 0 THEN R ELSE f[k - 1] \cup Joined(f[k - 1])]
           step == [k \in 1 .. N |-> [Q \in T |-> Q \cup Joined(Q)]]
<1>0. N \in Nat /\ R \in T
  BY FS_CardinalityType
<1>1. \A n \in 1 .. N : \A Q \in T : /\ step[n][Q] = Q \cup Joined(Q)
                                     /\ step[n][Q] \in T
  BY JoinedType
<1> HIDE DEF step, N, T
<1>2. PICK f : IsLoop(f, N, R, step)
  BY <1>0, LoopExists
<1>3. \A n \in 0 .. N : f[n] \in T
  BY <1>0, <1>1, <1>2, LoopType
<1>4. ASSUME NEW n \in 1 .. N PROVE f[n] = f[n - 1] \cup Joined(f[n - 1])
  <2>1. n - 1 \in 0 .. N
    BY <1>0
  <2> QED BY <1>1, <1>2, <1>3, <2>1 DEF IsLoop
<1>5. f = eq(f)
  <2>1. f = [n \in 0 .. N |-> f[n]] /\ f[0] = R
    BY <1>2 DEF IsLoop
  <2>2. \A n \in 0 .. N : n # 0 => n \in 1 .. N
    BY <1>0
  <2>3. \A n \in 0 .. N :
          f[n] = IF n = 0 THEN R ELSE f[n - 1] \cup Joined(f[n - 1])
    BY <1>4, <2>1, <2>2
  <2> QED BY <2>1, <2>3
<1> DEFINE all == PassesOn(R, N)
<1>6. all = eq(all)
  BY <1>5 DEF PassesOn
<1>7. \A n \in 0 .. N :
        eq(all)[n] = IF n = 0 THEN R ELSE all[n - 1] \cup Joined(all[n - 1])
  OBVIOUS
<1>8. 0 \in 0 .. N /\ \A n \in 1 .. N : n \in 0 .. N /\ n # 0
  BY <1>0
<1> HIDE DEF all, eq
<1>9. /\ all[0] = R
      /\ \A n \in 1 .. N : all[n] = all[n - 1] \cup Joined(all[n - 1])
  BY <1>6, <1>7, <1>8
<1> DEFINE U == {n \in 0 .. N : R \subseteq all[n]}
<1>10. 0 \in U
  BY <1>0, <1>9
<1>11. ASSUME NEW n \in 1 .. N, n - 1 \in U PROVE n \in U
  <2>1. n \in 0 .. N /\ R \subseteq all[n - 1]
    BY <1>0, <1>11
  <2> QED BY <1>9, <2>1
<1>12. U = 0 .. N
  <2>1. U \in SUBSET (0 .. N)
    OBVIOUS
  <2> HIDE DEF U
  <2> QED BY <1>0, <1>10, <1>11, <2>1, UpTo
<1>13. R \subseteq all[N]
  BY <1>0, <1>12
<1>14. Closed(A, R) = all[N]
  <2>1. DOMAIN A.out = S
    BY DEF IsAutomaton
  <2> QED BY <2>1 DEF Closed, N, all
<1> QED BY <1>13, <1>14

(* A greedy move that does not die is one a run may take.                  *)
LEMMA GreedyIsRun ==
    ASSUME NEW S, NEW A, IsAutomaton(A, S), NEW s \in S, NEW e,
           Move(A, s, e) # Dead
    PROVE  Move(A, s, e) \in Successors(A, {s}, e)
<1>1. /\ Hits(A, s, e) \in SUBSET Nat
      /\ Len(A.out[s]) \in Nat
      /\ Defaults(A, s) \in SUBSET (0 .. Len(A.out[s]))
  <2>1. Len(A.out[s]) \in Nat /\ DOMAIN A.out[s] = 1 .. Len(A.out[s])
    BY DEF IsAutomaton
  <2> QED BY <2>1 DEF Hits, Defaults
<1>2. ASSUME NEW i \in Hits(A, s, e) \cup Defaults(A, s)
      PROVE  i \in Enabled(A, s, e)
  <2>1. i \in DOMAIN A.out[s]
    BY DEF Defaults, Hits
  <2> DEFINE label == A.out[s][i].label
  <2>2. Len(label) \in DOMAIN label
    <3>1. IsEdge(A.out[s][i], S, DOMAIN A.ap)
      BY <2>1 DEF IsAutomaton
    <3>2. Len(label) \in Nat \ {0} /\ DOMAIN label = 1 .. Len(label)
      BY <3>1 DEF IsEdge
    <3> HIDE DEF label
    <3> QED BY <3>2
  <2>3. CubeHolds(label[Len(label)], EventIndices(A, e))
    BY DEF Defaults, Hits, IsTrueCond, CubeTrue, CheckCond, CubeHolds, LastCube
  <2> QED BY <2>1, <2>2, <2>3 DEF Enabled
<1>3. PICK i \in Enabled(A, s, e) : Move(A, s, e) = A.out[s][i].dst
  <2>1. CASE Hits(A, s, e) # {}
    <3>1. Min(Hits(A, s, e)) \in Hits(A, s, e)
      BY <1>1, <2>1, MinIsLeast
    <3> QED BY <1>2, <2>1, <3>1 DEF Move
  <2>2. CASE Hits(A, s, e) = {} /\ Defaults(A, s) # {}
    <3>1. Max(Defaults(A, s)) \in Defaults(A, s)
      BY <1>1, <2>2, MaxIsGreatest
    <3> QED BY <1>2, <2>2, <3>1 DEF Move
  <2>3. CASE Hits(A, s, e) = {} /\ Defaults(A, s) = {}
    BY <2>3 DEF Move
  <2> QED BY <2>1, <2>2, <2>3
<1> QED BY <1>3 DEF Successors

(* So the walk is a run of the automaton as far as it is alive.            *)
LEMMA WalkIsRun ==
    ASSUME NEW S, NEW A, IsAutomaton(A, S), NEW trace, Len(trace) \in Nat,
           NEW loc \in 0 .. Len(trace), StatesAlong(A, trace)[loc] # Dead
    PROVE  /\ \A n \in 0 .. loc : StatesAlong(A, trace)[n] # Dead
           /\ \A n \in 1 .. loc :
                StatesAlong(A, trace)[n] \in
                  Successors(A, {StatesAlong(A, trace)[n - 1]}, trace[n])
<1> DEFINE after == StatesAlong(A, trace)
           T == {m \in 0 .. loc :
                   after[m] # Dead => \A n \in 0 .. m : after[n] # Dead}
<1>0. loc \in Nat /\ loc <= Len(trace)
  OBVIOUS
<1>1. \A n \in 0 .. loc : after[n] \in S \cup {Dead}
  BY AlongType
<1>2. \A n \in 1 .. loc : after[n] = IF after[n - 1] = Dead THEN Dead
                                     ELSE Move(A, after[n - 1], trace[n])
  BY AlongType
<1>3. after[loc] # Dead
  OBVIOUS
<1> HIDE DEF after
<1>4. T = 0 .. loc
  <2>1. T \in SUBSET (0 .. loc)
    OBVIOUS
  <2>2. 0 \in T
    BY <1>0
  <2>3. ASSUME NEW n \in 1 .. loc, n - 1 \in T PROVE n \in T
    <3> SUFFICES ASSUME after[n] # Dead, NEW m \in 0 .. n
                 PROVE  after[m] # Dead
      BY <1>0
    <3>1. after[n - 1] # Dead
      BY <1>2
    <3>2. m = n \/ m \in 0 .. n - 1
      BY <1>0
    <3> QED BY <2>3, <3>1, <3>2
  <2> HIDE DEF T
  <2> QED BY <1>0, <2>1, <2>2, <2>3, UpTo
<1>5. \A n \in 0 .. loc : after[n] # Dead
  <2>1. loc \in T
    BY <1>0, <1>4
  <2> QED BY <1>3, <2>1
<1>6. ASSUME NEW n \in 1 .. loc
      PROVE  after[n] \in Successors(A, {after[n - 1]}, trace[n])
  <2>1. n \in 0 .. loc /\ n - 1 \in 0 .. loc
    BY <1>0
  <2>2. after[n - 1] \in S /\ after[n] = Move(A, after[n - 1], trace[n])
    BY <1>1, <1>2, <1>5, <2>1
  <2>3. Move(A, after[n - 1], trace[n]) # Dead
    BY <1>5, <2>1, <2>2
  <2> QED BY <2>2, <2>3, GreedyIsRun
<1> QED BY <1>5, <1>6 DEF after

(* A state that no edge leaves, and that has an edge.                      *)
Stays(A, s) ==
    DOMAIN A.out[s] # {} /\ \A i \in DOMAIN A.out[s] : A.out[s][i].dst = s

(* There the walk remains, or dies, ...                                    *)
LEMMA WalkRemains ==
    ASSUME NEW S, NEW A, IsAutomaton(A, S), NEW trace, Len(trace) \in Nat,
           NEW loc \in 0 .. Len(trace), NEW s \in S, Stays(A, s),
           StatesAlong(A, trace)[loc] = s
    PROVE  \A n \in loc .. Len(trace) :
             StatesAlong(A, trace)[n] \in {s, Dead}
<1> DEFINE N == Len(trace)
           after == StatesAlong(A, trace)
           T == {n \in 0 .. N : n >= loc => after[n] \in {s, Dead}}
<1>0. N \in Nat /\ loc \in 0 .. N
  OBVIOUS
<1>1. \A n \in 1 .. N : after[n] = IF after[n - 1] = Dead THEN Dead
                                   ELSE Move(A, after[n - 1], trace[n])
  BY AlongType
<1>2. after[loc] = s
  OBVIOUS
<1>3. \A e : Move(A, s, e) \in {s, Dead}
  <2> SUFFICES ASSUME NEW e, Move(A, s, e) # Dead PROVE Move(A, s, e) = s
    OBVIOUS
  <2>1. Move(A, s, e) \in Successors(A, {s}, e)
    BY GreedyIsRun
  <2>2. PICK i \in Enabled(A, s, e) : Move(A, s, e) = A.out[s][i].dst
    BY <2>1 DEF Successors
  <2> QED BY <2>2 DEF Stays, Enabled
<1> HIDE DEF after, N
<1>4. 0 \in T
  BY <1>0, <1>2
<1>5. ASSUME NEW n \in 1 .. N, n - 1 \in T PROVE n \in T
  <2>1. n \in 0 .. N
    BY <1>0
  <2>2. CASE n < loc
    BY <1>0, <2>1, <2>2
  <2>3. CASE n = loc
    BY <1>2, <2>1, <2>3
  <2>4. CASE n > loc
    <3>1. after[n - 1] \in {s, Dead}
      BY <1>0, <1>5, <2>4
    <3>2. after[n] \in {s, Dead}
      BY <1>1, <1>3, <3>1
    <3> QED BY <2>1, <3>2
  <2> QED BY <1>0, <2>2, <2>3, <2>4
<1>6. T = 0 .. N
  <2>1. T \in SUBSET (0 .. N)
    OBVIOUS
  <2> HIDE DEF T
  <2> QED BY <1>0, <1>4, <1>5, <2>1, UpTo
<1>7. ASSUME NEW n \in loc .. N PROVE after[n] \in {s, Dead}
  <2>1. n \in T /\ n >= loc
    BY <1>0, <1>6
  <2> QED BY <2>1
<1> QED BY <1>7 DEF after, N

(* The path of a walk that is alive ends in the state it is in, ...        *)
LEMMA PathEndsAlive ==
    ASSUME NEW v, IsList(v), NEW k \in 1 .. Len(v),
           \A n \in 1 .. k : v[n] # Dead
    PROVE  PathsOf(v)[k][Len(PathsOf(v)[k])] = v[k]
<1> DEFINE f == PathsOf(v)
           V == {v[n] : n \in Changes(v)}
           T == {n \in 0 .. k : n > 0 => f[n][Len(f[n])] = v[n]}
<1>0. Len(v) \in Nat /\ DOMAIN v = 1 .. Len(v) /\ k \in Nat
  BY DEF IsList
<1>1. /\ \A n \in 1 .. k :
           f[n] = IF n \in Changes(v) THEN Append(f[n - 1], v[n])
                  ELSE f[n - 1]
      /\ \A n \in 0 .. k : f[n] \in Seq(V)
  <2>1. \A n \in 1 .. Len(v) :
          f[n] = IF n \in Changes(v) THEN Append(f[n - 1], v[n])
                 ELSE f[n - 1]
    BY <1>0, PathFacts
  <2>2. \A n \in 0 .. Len(v) : f[n] \in Seq(V)
    BY <1>0, PathFacts
  <2>3. \A n \in 1 .. k : n \in 1 .. Len(v)
    BY <1>0
  <2>4. \A n \in 0 .. k : n \in 0 .. Len(v)
    BY <1>0
  <2> HIDE DEF f, V
  <2> QED BY <2>1, <2>2, <2>3, <2>4
<1>2. 0 \in T
  BY <1>0
<1>3. ASSUME NEW n \in 1 .. k, n - 1 \in T PROVE n \in T
  <2>1. n \in 0 .. k /\ n - 1 \in 0 .. k /\ n \in DOMAIN v
    BY <1>0
  <2>2. CASE n \in Changes(v)
    <3> DEFINE d == f[n - 1]
               e == v[n]
    <3>1. d \in Seq(V) /\ e \in V
      BY <1>1, <2>1, <2>2
    <3>2. f[n] = Append(d, e)
      BY <1>1, <2>2
    <3> HIDE DEF f, V, d
    <3>3. Append(d, e)[Len(Append(d, e))] = e
      <4> HIDE DEF e
      <4> QED BY <3>1
    <3> QED BY <2>1, <3>2, <3>3
  <2>3. CASE n \notin Changes(v)
    <3>1. n > 1 /\ v[n] = v[n - 1]
      BY <2>1, <2>3 DEF Changes
    <3>2. f[n] = f[n - 1]
      BY <1>1, <2>3
    <3>3. n - 1 > 0
      BY <3>1
    <3> HIDE DEF f
    <3>4. f[n - 1][Len(f[n - 1])] = v[n - 1]
      BY <1>3, <3>3
    <3> QED BY <2>1, <3>1, <3>2, <3>4
  <2> QED BY <2>2, <2>3
<1>4. T = 0 .. k
  <2>1. T \in SUBSET (0 .. k)
    OBVIOUS
  <2> HIDE DEF T
  <2> QED BY <1>0, <1>2, <1>3, <2>1, UpTo
<1>5. k \in T /\ k > 0
  BY <1>0, <1>4
<1> HIDE DEF f
<1>6. f[k][Len(f[k])] = v[k]
  BY <1>5
<1> QED BY <1>6 DEF f

(* ... and of one that came to a state no edge leaves, in that state.      *)
LEMMA PathEndsThere ==
    ASSUME NEW S, NEW A, IsAutomaton(A, S), NEW trace, Len(trace) \in Nat,
           NEW loc \in 1 .. Len(trace), NEW s \in S, Stays(A, s),
           Visited(A, trace)[loc] = s,
           NEW path, path = PathOf(Visited(A, trace))
    PROVE  path[Len(path)] = s
<1> DEFINE N == Len(trace)
           v == Visited(A, trace)
           after == StatesAlong(A, trace)
<1>0. N \in Nat /\ loc \in 1 .. N /\ loc \in 0 .. N
  OBVIOUS
<1>1. IsList(v) /\ Len(v) = N /\ \A n \in 1 .. N : v[n] = after[n]
  BY VisitedIsList
<1>2. after[loc] = s /\ s # Dead
  <2>1. S \subseteq Nat
    BY DEF IsAutomaton
  <2> QED BY <1>1, <2>1 DEF Dead
<1>3. \A n \in loc .. N : after[n] \in {s, Dead}
  BY <1>2, WalkRemains
<1>4. \A n \in 0 .. loc : after[n] # Dead
  BY <1>2, WalkIsRun
<1>5. \A n \in 1 .. N : after[n] = IF after[n - 1] = Dead THEN Dead
                                   ELSE Move(A, after[n - 1], trace[n])
  BY AlongType
<1>6. v[loc] = s /\ path = PathOf(v)
  OBVIOUS
<1> HIDE DEF v, after, N
<1>7. ASSUME NEW n \in Changes(v), n > loc PROVE FALSE
  <2>1. n \in 1 .. N /\ v[n] # Dead /\ v[n] # v[n - 1]
    BY <1>0, <1>1, <1>7 DEF Changes, IsList
  <2>2. n - 1 \in 1 .. N /\ n \in loc .. N /\ n - 1 \in loc .. N
    BY <1>0, <1>7, <2>1
  <2>3. after[n] = s /\ after[n - 1] = Dead
    BY <1>1, <1>3, <2>1, <2>2
  <2> QED BY <1>2, <1>5, <2>1, <2>3
<1>8. path = PathsOf(v)[loc]
  <2>1. loc \in 0 .. Len(v)
    BY <1>0, <1>1
  <2>2. \A n \in Changes(v) : n <= loc
    <3>1. \A n \in Changes(v) : n \in 1 .. N
      BY <1>1 DEF Changes, IsList
    <3> QED BY <1>0, <1>7, <3>1
  <2> QED BY <1>1, <1>6, <2>1, <2>2, PathsRest
<1>9. PathsOf(v)[loc][Len(PathsOf(v)[loc])] = v[loc]
  <2>1. \A n \in 1 .. loc : v[n] # Dead
    BY <1>0, <1>1, <1>4
  <2>2. loc \in 1 .. Len(v)
    BY <1>0, <1>1
  <2> QED BY <1>1, <2>1, <2>2, PathEndsAlive
<1> QED BY <1>6, <1>8, <1>9

(* An edge whose condition check_conditions grants to a window of events   *)
(* is one that a run may take at any of them.                              *)
LEMMA ConditionsEnable ==
    ASSUME NEW S, NEW A, IsAutomaton(A, S), NEW s \in S,
           NEW i \in DOMAIN A.out[s], NEW window, NEW e \in window,
           check_conditions(A, A.out[s][i], window)
    PROVE  A.out[s][i].dst \in Successors(A, {s}, e)
<1> DEFINE label == A.out[s][i].label
           has == EventIndices(A, e)
<1>1. PICK k \in DOMAIN label :
         /\ \A n \in Names(A, label[k].pos) : window \subseteq {n}
         /\ window \cap Names(A, label[k].neg) = {}
  BY DEF check_conditions
<1>2. label[k].pos \subseteq DOMAIN A.ap /\ label[k].neg \subseteq DOMAIN A.ap
  <2>1. IsEdge(A.out[s][i], S, DOMAIN A.ap)
    BY DEF IsAutomaton
  <2>2. IsCube(label[k], DOMAIN A.ap)
    BY <2>1 DEF IsEdge
  <2> QED BY <2>2 DEF IsCube
<1>3. label[k].pos \subseteq has
  <2> SUFFICES ASSUME NEW v \in label[k].pos PROVE v \in has
    OBVIOUS
  <2>1. A.ap[v] \in Names(A, label[k].pos)
    BY DEF Names
  <2>2. A.ap[v] = e
    BY <1>1, <2>1
  <2> QED BY <1>2, <2>2 DEF EventIndices
<1>4. has \cap label[k].neg = {}
  <2> SUFFICES ASSUME NEW v \in has, v \in label[k].neg PROVE FALSE
    OBVIOUS
  <2>1. A.ap[v] = e /\ A.ap[v] \in Names(A, label[k].neg)
    BY DEF EventIndices, Names
  <2> QED BY <1>1, <2>1
<1>5. CubeHolds(label[k], has)
  BY <1>3, <1>4 DEF CubeHolds
<1>6. i \in Enabled(A, s, e)
  BY <1>1, <1>5 DEF Enabled
<1> QED BY <1>6 DEF Successors

(* How much of a trace the first k entries are.                            *)
Events(k, flag) == IF flag THEN k ELSE 2 * k

(* What is collected first is traced first.                                *)
LEMMA TracesBegin ==
    ASSUME NEW c, IsList(c), NEW d, IsList(d), Begins(d, c),
           NEW flag \in BOOLEAN
    PROVE  /\ IsList(normalize_trace(d, flag))
           /\ Len(normalize_trace(d, flag)) = Events(Len(d), flag)
           /\ \A n \in 1 .. Events(Len(d), flag) :
                normalize_trace(d, flag)[n] = normalize_trace(c, flag)[n]
<1>0. /\ Len(c) \in Nat /\ Len(d) \in Nat /\ Len(d) <= Len(c)
      /\ DOMAIN c = 1 .. Len(c) /\ DOMAIN d = 1 .. Len(d)
      /\ \A j \in 1 .. Len(d) : d[j] = c[j]
  BY DEF IsList, Begins
<1> DEFINE f == normalize_trace(d, flag)
           g == normalize_trace(c, flag)
<1>1. CASE flag
  <2>1. f = [k \in 1 .. Len(d) |-> Out(d[k].output)]
    BY <1>0, <1>1 DEF normalize_trace
  <2>2. g = [k \in 1 .. Len(c) |-> Out(c[k].output)]
    BY <1>0, <1>1 DEF normalize_trace
  <2>3. \A n \in 1 .. Len(d) : f[n] = g[n]
    BY <1>0, <2>1, <2>2
  <2>4. f = [k \in 1 .. Len(d) |-> f[k]]
    BY <2>1
  <2> HIDE DEF f, g
  <2>5. Len(f) = Len(d) /\ IsList(f)
    BY <1>0, <2>4, FunctionIsList
  <2>6. Events(Len(d), flag) = Len(d)
    BY <1>1 DEF Events
  <2> QED BY <2>3, <2>5, <2>6 DEF f, g
<1>2. CASE ~ flag
  <2>1. f = normalize_trace(d, FALSE) /\ g = normalize_trace(c, FALSE)
    BY <1>2
  <2>2. IsList(f) /\ Len(f) = 2 * Len(d)
    BY <1>0, <2>1, TraceIsList
  <2>3. ASSUME NEW n \in 1 .. 2 * Len(d) PROVE f[n] = g[n]
    <3>1. n \in 1 .. 2 * Len(c)
      BY <1>0
    <3>2. /\ f[n] = IF n % 2 = 1 THEN In(d[(n + 1) \div 2].input)
                    ELSE Out(d[n \div 2].output)
          /\ g[n] = IF n % 2 = 1 THEN In(c[(n + 1) \div 2].input)
                    ELSE Out(c[n \div 2].output)
      BY <2>1, <3>1 DEF normalize_trace
    <3> HIDE DEF f, g
    <3>3. CASE n % 2 = 1
      <4>1. (n + 1) \div 2 \in 1 .. Len(d)
        BY <1>0, <3>3
      <4> QED BY <1>0, <3>2, <3>3, <4>1
    <3>4. CASE n % 2 # 1
      <4>1. n \div 2 \in 1 .. Len(d)
        BY <1>0, <3>4
      <4> QED BY <1>0, <3>2, <3>4, <4>1
    <3> QED BY <3>3, <3>4
  <2>4. Events(Len(d), flag) = 2 * Len(d)
    BY <1>2 DEF Events
  <2> HIDE DEF f, g
  <2> QED BY <2>2, <2>3, <2>4 DEF f, g
<1> QED BY <1>1, <1>2

(* The walk of a trace is in state s at place loc, and later events, up to *)
(* the n-th, let it stay there: those up to the m-th are the rest of the   *)
(* stem, the others the loop.                                              *)
IsLasso(A, trace, s, loc, m, n, stem, loop) ==
    /\ loc \in Nat /\ m \in Nat /\ n \in Nat /\ Len(trace) \in Nat
    /\ loc <= m /\ m < n /\ n <= Len(trace)
    /\ StatesAlong(A, trace)[loc] = s
    /\ \A k \in loc + 1 .. n : s \in Successors(A, {s}, trace[k])
    /\ Len(stem) = m /\ \A k \in 1 .. m : stem[k] = trace[k]
    /\ Len(loop) = n - m /\ \A k \in 1 .. n - m : loop[k] = trace[m + k]

(* If s is accepting, the automaton accepts stem and loop.                 *)
LEMMA LoopAccepted ==
    ASSUME NEW S, NEW A, IsAutomaton(A, S), IsFiniteSet(S),
           NEW s \in A.acc, NEW trace, NEW loc, NEW m, NEW n,
           NEW stem, NEW loop,
           IsLasso(A, trace, s, loc, m, n, stem, loop)
    PROVE  AcceptsLoop(A, stem, loop)
<1> USE DEF IsLasso
<1> DEFINE after == StatesAlong(A, trace)
           w == [k \in 0 .. m |-> IF k <= loc THEN after[k] ELSE s]
<1>0. s \in S /\ s # Dead /\ DOMAIN A.out = S
  BY DEF IsAutomaton, Dead
<1>1. \A k \in 1 .. loc :
        after[k] \in Successors(A, {after[k - 1]}, trace[k])
  <2>1. loc \in 0 .. Len(trace)
    OBVIOUS
  <2> QED BY <1>0, <2>1, WalkIsRun
<1>2. after[0] = A.init /\ after[loc] = s
  BY AlongFacts
<1> HIDE DEF after
<1>3. w[0] = A.init /\ w[m] = s
  <2>1. 0 \in 0 .. m /\ m \in 0 .. m /\ 0 <= loc /\ (m <= loc => m = loc)
    OBVIOUS
  <2> QED BY <1>2, <2>1
<1>4. ASSUME NEW k \in 1 .. m
      PROVE  w[k] \in Successors(A, {w[k - 1]}, stem[k])
  <2>1. /\ k \in 0 .. m /\ k - 1 \in 0 .. m /\ stem[k] = trace[k]
        /\ w[k] = IF k <= loc THEN after[k] ELSE s
        /\ w[k - 1] = IF k - 1 <= loc THEN after[k - 1] ELSE s
    OBVIOUS
  <2> HIDE DEF w
  <2>2. CASE k <= loc
    <3>1. k \in 1 .. loc /\ w[k] = after[k] /\ w[k - 1] = after[k - 1]
      BY <2>1, <2>2
    <3> QED BY <1>1, <2>1, <3>1
  <2>3. CASE k > loc
    <3>1. k \in loc + 1 .. n
      BY <2>3
    <3>2. w[k] = s /\ w[k - 1] = s
      <4>1. k - 1 <= loc => k - 1 = loc
        BY <2>3
      <4> QED BY <1>2, <2>1, <2>3, <4>1
    <3> QED BY <2>1, <3>1, <3>2
  <2> QED BY <2>2, <2>3
<1> HIDE DEF w
<1>5. s \in ReachOver(A, stem)
  <2>1. w[Len(stem)] \in ReachOver(A, stem)
    BY <1>3, <1>4, RunReaches
  <2> QED BY <1>3, <2>1
<1>6. <<s, s, TRUE>> \in Passes(A, loop)
  <2>1. Len(loop) \in Nat \ {0}
    OBVIOUS
  <2>2. \A k \in 1 .. Len(loop) : s \in Successors(A, {s}, loop[k])
    <3> TAKE k \in 1 .. Len(loop)
    <3>1. m + k \in loc + 1 .. n /\ loop[k] = trace[m + k]
      OBVIOUS
    <3> QED BY <3>1
  <2> QED BY <2>1, <2>2, LoopPasses
<1>7. <<s, s, TRUE>> \in Closed(A, Passes(A, loop))
  <2>1. Passes(A, loop) \in SUBSET Triples(S)
    <3>1. Len(loop) \in Nat /\ Len(loop) \in 0 .. Len(loop)
      OBVIOUS
    <3> QED BY <3>1, PassesFacts DEF Passes
  <2>2. Passes(A, loop) \subseteq Closed(A, Passes(A, loop))
    BY <2>1, ClosedKeeps
  <2> QED BY <1>6, <2>2
<1> QED BY <1>0, <1>5, <1>7 DEF AcceptsLoop

(* Once the automaton has come to an accepting state that no edge leaves,  *)
(* what IsCounterexample reports is a counterexample.                      *)
LEMMA ReportIsReal ==
    ASSUME NEW P, IsProgram(P), NEW xs \in Seq(Input), NEW flag \in BOOLEAN,
           NEW S, NEW A, IsAutomaton(A, S), IsFiniteSet(S),
           \A s \in A.acc : Stays(A, s),
           \A s, u \in ProgramStates(P) : P.seen[s] = P.seen[u] => s = u,
           NEW N \in Nat, N <= Len(Collected(P, xs)),
           NEW col, col = SubSeq(Collected(P, xs), 1, N),
           NEW tr, tr = normalize_trace(col, flag),
           NEW vis, vis = Visited(A, tr),
           NEW path, path = PathOf(vis),
           IsCounterexample(A, col, tr, vis, path, flag)
    PROVE  Violates(A, P, xs, flag)
<1> DEFINE c == Collected(P, xs)
           full == normalize_trace(c, flag)
           E == EntryType(P)
<1>1. c \in Seq(E) /\ Len(c) \in Nat /\ DOMAIN c = 1 .. Len(c) /\ N <= Len(c)
  <2>1. Chain(P, c, Len(xs))
    BY CollectedIsChain DEF Collected
  <2>2. c \in Seq(E)
    BY <2>1 DEF Chain
  <2> HIDE DEF c, E
  <2> QED BY <2>2 DEF c
<1>2. \A j, k \in 1 .. Len(c) : c[j].state = c[k].state
                                  => c[j].real = c[k].real
  <2>1. \A j \in 1 .. Len(c) : c[j] \in E
    <3> HIDE DEF c, E
    <3> QED BY <1>1
  <2>2. \A e \in E : e.real \in ProgramStates(P) /\ e.state = P.seen[e.real]
    BY DEF EntryType
  <2> HIDE DEF c, E
  <2>3. ASSUME NEW j \in 1 .. Len(c), NEW k \in 1 .. Len(c),
               c[j].state = c[k].state
        PROVE  c[j].real = c[k].real
    <3>1. /\ c[j].real \in ProgramStates(P) /\ c[j].state = P.seen[c[j].real]
          /\ c[k].real \in ProgramStates(P) /\ c[k].state = P.seen[c[k].real]
      BY <2>1, <2>2
    <3>2. P.seen[c[j].real] = P.seen[c[k].real]
      BY <2>3, <3>1
    <3> QED BY <3>1, <3>2
  <2> QED BY <2>3
<1>3. col = SubSeq(c, 1, N)
  OBVIOUS
<1> HIDE DEF c, E
<1>4. /\ IsList(col) /\ Len(col) = N /\ IsList(c) /\ Begins(col, c)
      /\ DOMAIN col = 1 .. N /\ \A j \in 1 .. N : col[j] = c[j]
  <2>1. col \in Seq(E) /\ Len(col) = N /\ \A j \in 1 .. N : col[j] = c[j]
    BY <1>1, <1>3
  <2>2. DOMAIN col = 1 .. N
    BY <2>1
  <2> QED BY <1>1, <2>1, <2>2 DEF IsList, Begins
<1>5. /\ IsList(tr) /\ Len(tr) = Events(N, flag)
      /\ \A n \in 1 .. Events(N, flag) : tr[n] = full[n]
  <2> HIDE DEF full
  <2>1. /\ IsList(normalize_trace(col, flag))
        /\ Len(normalize_trace(col, flag)) = Events(Len(col), flag)
        /\ \A n \in 1 .. Events(Len(col), flag) :
             normalize_trace(col, flag)[n] = normalize_trace(c, flag)[n]
    <3>1. IsList(col) /\ IsList(c) /\ Begins(col, c) /\ flag \in BOOLEAN
      BY <1>4
    <3> QED BY ONLY <3>1, TracesBegin
  <2> QED BY <1>4, <2>1 DEF full
<1>6. Len(tr) \in Nat /\ Events(N, flag) \in Nat
  BY <1>5 DEF IsList
<1>7. /\ IsList(vis) /\ Len(vis) = Len(tr)
      /\ \A n \in 1 .. Len(tr) : vis[n] = StatesAlong(A, tr)[n]
  BY <1>6, VisitedIsList
<1>8. PICK loc \in DOMAIN vis :
         /\ vis[loc] \in A.acc
         /\ \/ SelfLoops(A, path[Len(path)]) = {}
            \/ \E i \in (IF flag THEN loc ELSE (loc + 1) \div 2) + 1
                          .. Len(col) :
                 /\ col[i].state =
                      col[IF flag THEN loc ELSE (loc + 1) \div 2].state
                 /\ check_conditions(A,
                      A.out[path[Len(path)]]
                           [Max(SelfLoops(A, path[Len(path)]))],
                      {tr[n] : n \in loc .. IF flag THEN i ELSE 2 * i})
  BY DEF IsCounterexample
<1> DEFINE s == vis[loc]
           loops == SelfLoops(A, s)
           i0 == Max(loops)
           j == IF flag THEN loc ELSE (loc + 1) \div 2
<1>9. loc \in 1 .. Len(tr) /\ s \in A.acc /\ s \in S /\ Stays(A, s)
  <2>1. A.acc \subseteq S
    BY DEF IsAutomaton
  <2> QED BY <1>7, <1>8, <2>1 DEF IsList
<1>10. path[Len(path)] = s
  <2>1. Visited(A, tr)[loc] = s /\ path = PathOf(Visited(A, tr))
    OBVIOUS
  <2> HIDE DEF s
  <2> QED BY <1>6, <1>9, <2>1, PathEndsThere
<1>11. i0 \in DOMAIN A.out[s] /\ A.out[s][i0].dst = s /\ loops # {}
  <2> HIDE DEF s
  <2>1. Len(A.out[s]) \in Nat /\ DOMAIN A.out[s] = 1 .. Len(A.out[s])
    BY <1>9 DEF IsAutomaton
  <2>2. loops = DOMAIN A.out[s]
    BY <1>9 DEF Stays, SelfLoops
  <2>3. loops # {}
    BY <1>9, <2>2 DEF Stays
  <2>4. loops \in SUBSET (0 .. Len(A.out[s]))
    BY <2>1, <2>2
  <2>5. i0 \in loops
    <3> HIDE DEF loops
    <3> QED BY <2>1, <2>3, <2>4, MaxIsGreatest
  <2> QED BY <2>3, <2>5 DEF SelfLoops
<1> HIDE DEF s, loops, i0
<1>12. PICK i \in j + 1 .. N :
          /\ col[i].state = col[j].state
          /\ check_conditions(A, A.out[s][i0],
                              {tr[n] : n \in loc .. Events(i, flag)})
  <2>1. loops = SelfLoops(A, path[Len(path)])
    BY <1>10 DEF loops
  <2> QED BY <1>4, <1>8, <1>10, <1>11, <2>1 DEF Events, i0
<1> DEFINE m == Events(j, flag)
           n == Events(i, flag)
<1>13. /\ j \in 1 .. N /\ i \in 1 .. N /\ i \in j + 1 .. N
       /\ m \in Nat /\ n \in Nat /\ loc \in Nat
       /\ loc <= m /\ m < n /\ n <= Len(tr)
  <2>1. CASE flag
    <3>1. loc \in 1 .. N /\ j = loc /\ m = j /\ n = i
      BY <1>5, <1>9, <2>1 DEF Events
    <3>2. Len(tr) = N
      BY <1>5, <2>1 DEF Events
    <3> HIDE DEF j, m, n
    <3>3. i \in j + 1 .. N
      OBVIOUS
    <3> QED BY <3>1, <3>2, <3>3
  <2>2. CASE ~ flag
    <3>1. loc \in 1 .. 2 * N
      BY <1>5, <1>9, <2>2 DEF Events
    <3>2. j \in 1 .. N /\ loc <= 2 * j
      BY <2>2, <3>1
    <3> HIDE DEF j
    <3> QED BY <1>5, <2>2, <3>1, <3>2 DEF Events
  <2> QED BY <2>1, <2>2
<1> HIDE DEF j
<1>14. \A k \in loc + 1 .. n : s \in Successors(A, {s}, tr[k])
  <2> TAKE k \in loc + 1 .. n
  <2> DEFINE window == {tr[x] : x \in loc .. n}
  <2>1. tr[k] \in window
    BY <1>13
  <2>2. check_conditions(A, A.out[s][i0], window)
    BY <1>12
  <2> HIDE DEF window
  <2>3. A.out[s][i0].dst \in Successors(A, {s}, tr[k])
    BY <1>9, <1>11, <2>1, <2>2, ConditionsEnable
  <2> QED BY <1>11, <2>3
<1> HIDE DEF m, n
<1> DEFINE stem == SubSeq(full, 1, m)
           loop == SubSeq(full, m + 1, n)
<1>15. Len(full) = Events(Len(c), flag) /\ n <= Len(full) /\ m \in 1 .. n
  <2>1. Len(full) = Events(Len(c), flag)
    <3>1. Begins(c, c)
      BY <1>1 DEF Begins
    <3> QED BY <1>4, <3>1, TracesBegin
  <2>2. Events(N, flag) <= Events(Len(c), flag)
    BY <1>1 DEF Events
  <2>3. m \in 1 .. n
    <3>1. m \in Nat /\ n \in Nat /\ loc \in 1 .. m /\ m < n
      BY <1>9, <1>13
    <3> QED BY <3>1
  <2>4. Events(N, flag) \in Nat /\ Events(Len(c), flag) \in Nat
    BY <1>1 DEF Events
  <2> HIDE DEF full
  <2> QED BY <1>5, <1>13, <2>1, <2>2, <2>3, <2>4
<1> HIDE DEF full
<1>16. /\ Len(stem) = m /\ \A k \in 1 .. m : stem[k] = tr[k]
       /\ Len(loop) = n - m /\ \A k \in 1 .. n - m : loop[k] = tr[m + k]
  <2> DEFINE V == {full[x] : x \in 1 .. n}
  <2>1. \A x \in 1 .. n : full[x] \in V
    OBVIOUS
  <2> HIDE DEF V
  <2>2. /\ Len(stem) = m - 1 + 1
        /\ \A k \in 1 .. m - 1 + 1 : stem[k] = full[1 + k - 1]
    <3>1. \A x \in 1 .. m : full[x] \in V
      BY <1>13, <2>1
    <3>2. 1 \in Int /\ m \in Int /\ 1 <= m
      BY <1>13, <1>15
    <3> QED BY <3>1, <3>2, SubSeqProperties
  <2>3. /\ Len(loop) = n - (m + 1) + 1
        /\ \A k \in 1 .. n - (m + 1) + 1 : loop[k] = full[m + 1 + k - 1]
    <3> DEFINE l == m + 1
    <3>1. \A x \in l .. n : full[x] \in V
      BY <1>13, <2>1
    <3>2. l \in Int /\ n \in Int /\ l <= n
      BY <1>13
    <3> HIDE DEF l
    <3>3. /\ Len(SubSeq(full, l, n)) = n - l + 1
          /\ \A k \in 1 .. n - l + 1 :
               SubSeq(full, l, n)[k] = full[l + k - 1]
      BY <3>1, <3>2, SubSeqProperties
    <3> QED BY <3>3 DEF l
  <2>4. \A x \in 1 .. n : tr[x] = full[x]
    BY <1>5, <1>13
  <2> HIDE DEF stem, loop
  <2>5. m \in Nat /\ n \in Nat /\ m < n
    BY <1>13
  <2>6. ASSUME NEW k \in 1 .. m PROVE stem[k] = tr[k]
    <3>1. k \in 1 .. m - 1 + 1 /\ k \in 1 .. n /\ 1 + k - 1 = k
      BY <2>5
    <3> QED BY <2>2, <2>4, <3>1
  <2>7. ASSUME NEW k \in 1 .. n - m PROVE loop[k] = tr[m + k]
    <3>1. /\ k \in 1 .. n - (m + 1) + 1 /\ m + k \in 1 .. n
          /\ m + 1 + k - 1 = m + k
      BY <2>5
    <3> QED BY <2>3, <2>4, <3>1
  <2>8. Len(stem) = m /\ Len(loop) = n - m
    BY <2>2, <2>3, <2>5
  <2> QED BY <2>6, <2>7, <2>8
<1>17. StatesAlong(A, tr)[loc] = s
  BY <1>7, <1>9 DEF s
<1>18. AcceptsLoop(A, stem, loop)
  <2> HIDE DEF stem, loop
  <2>1. \A k \in 1 .. m : stem[k] = tr[k]
    BY <1>16
  <2>2. \A k \in 1 .. n - m : loop[k] = tr[m + k]
    BY <1>16
  <2>3. Len(stem) = m /\ Len(loop) = n - m
    BY <1>16
  <2>4. m \in Nat /\ n \in Nat /\ loc \in Nat /\ s \in A.acc
    BY <1>9, <1>13
  <2>5. loc <= m /\ m < n /\ n <= Len(tr)
    BY <1>13
  <2>6. IsLasso(A, tr, s, loc, m, n, stem, loop)
    BY <1>6, <1>14, <1>17, <2>1, <2>2, <2>3, <2>4, <2>5 DEF IsLasso
  <2> QED BY <2>4, <2>6, LoopAccepted
<1>19. /\ j \in DOMAIN c /\ i \in j + 1 .. Len(c)
       /\ c[j].real = c[i].real
  <2>1. /\ j \in 1 .. Len(c) /\ i \in 1 .. Len(c)
        /\ col[j] = c[j] /\ col[i] = c[i]
    BY <1>1, <1>4, <1>13
  <2>2. c[j].state = c[i].state
    BY <1>12, <2>1
  <2>3. c[j].real = c[i].real
    BY <1>2, <2>1, <2>2
  <2>4. i \in j + 1 .. Len(c)
    BY <1>1, <1>13
  <2> QED BY <1>1, <2>1, <2>3, <2>4
<1> HIDE DEF stem, loop
<1>20. \E x \in DOMAIN c : \E y \in x + 1 .. Len(c) :
          /\ c[x].real = c[y].real
          /\ AcceptsLoop(A, SubSeq(full, 1, Events(x, flag)),
                 SubSeq(full, Events(x, flag) + 1, Events(y, flag)))
  BY <1>18, <1>19 DEF stem, loop, m, n
<1> QED BY <1>20 DEF Violates, Events, c, full

-----------------------------------------------------------------------------
(* The campaign.  What is said of its variables is said of their values,   *)
(* so that it can be said of those before and after a step.                *)
PathIn(o) == Seq(DOMAIN o.aut.out) \ {<<>>}

(* A path and a prefix that may be stored: of a RERS program, the prefix   *)
(* leads along the path.                                                   *)
PairOK(o, p, x) ==
    /\ x \in Seq(Input)
    /\ ~ o.protocol => \/ p = InitPath /\ x = NoPrefix
                       \/ Leads(o.aut, Program, p, x)

(* The table holds such pairs, and paths of RERS programs have a prefix.   *)
TableOK(o, tab) ==
    /\ tab = [p \in DOMAIN tab |-> tab[p]]
    /\ DOMAIN tab \subseteq PathIn(o)
    /\ \A p \in DOMAIN tab : \A x \in tab[p] : PairOK(o, p, x)
    /\ ~ o.protocol => /\ InitPath \in DOMAIN tab
                       /\ \A p \in DOMAIN tab : tab[p] # {}

SelType(o) ==
    [path : PathIn(o), prefix : Seq(Input), event : Event \cup {<<>>}]

(* What the driver has selected, at its place c.                           *)
SelOK(o, c, s, tab) ==
    /\ s \in SelType(o)
    /\ c = "copy" => ~ o.protocol /\ s.path \in DOMAIN tab
    /\ c = "direct" => s.event \in {"i"} \X Input
    /\ c \in {"event", "direct", "afl"} /\ ~ o.protocol
         => s.path = InitPath \/ Leads(o.aut, Program, s.path, s.prefix)

RunType(o) ==
    [at : Stages, reads : Seq(Input), evaluated : Nat,
     path : PathIn(o) \cup {<<>>}, prefix : Seq(Input), by : Owners]

(* What an execution has found: a RERS program's path is that of its whole *)
(* input, and its prefix leads along that path.                            *)
FoundOK(o, r) ==
    r.at \in Locked \cup Linking =>
        /\ r.path = PathFrom(o.aut, Program, r.reads)
        /\ Leads(o.aut, Program, r.path, r.prefix)

(* One of AFLGo's reads the selected prefix first.                         *)
GivenOK(r, c, s) ==
    r.by = "afl" => /\ c = "afl"
                    /\ \E ys \in Seq(Input) : r.reads = s.prefix \o ys

RunOK(r, o, c, s) ==
    /\ r \in RunType(o)
    /\ r.by = "none" <=> r.at = "none"
    /\ r.at \notin {"none", "running"} => r.path # <<>>
    /\ ~ o.protocol => /\ r.at \notin {"open", "append"}
                       /\ FoundOK(o, r) /\ GivenOK(r, c, s)

Scalars ==
    /\ opt \in Subjects
    /\ pc \in Places \cup {"done", "failed", "undefined"}
    /\ mutex \in Target \cup {"free", "dead"}
    /\ torn \in BOOLEAN /\ init_run \in BOOLEAN
    /\ input \in Seq(Input) /\ Len(input) = Len(Seed)
    /\ clock \in 0 .. Budget

Runs ==
    /\ proc = [t \in Target |-> proc[t]]
    /\ \A t \in Target : RunOK(proc[t], opt, pc, sel)

Inv ==
    /\ Scalars
    /\ TableOK(opt, table)
    /\ SelOK(opt, pc, sel, table)
    /\ Runs

-----------------------------------------------------------------------------
(* What the operations keep.                                               *)

LEMMA InitPathIsPath ==
    ASSUME NEW o \in Subjects
    PROVE  InitPath \in PathIn(o) /\ o.protocol \in BOOLEAN
<1>1. IsSubject(o)
  BY CampaignAssumption
<1>2. 0 \in DOMAIN o.aut.out /\ o.protocol \in BOOLEAN
  BY <1>1 DEF IsSubject
<1> DEFINE D == DOMAIN o.aut.out
<1>3. <<0>> \in Seq(D) /\ <<0>> # <<>>
  <2>1. 0 \in D
    BY <1>2
  <2> HIDE DEF D
  <2> QED BY <2>1
<1> QED BY <1>2, <1>3 DEF InitPath, PathIn

LEMMA WithFacts ==
    ASSUME NEW tab, NEW p, NEW X
    PROVE  /\ With(tab, p, X) = [q \in DOMAIN With(tab, p, X) |->
                                   With(tab, p, X)[q]]
           /\ DOMAIN With(tab, p, X) = DOMAIN tab \cup {p}
           /\ \A q \in DOMAIN tab : q # p => With(tab, p, X)[q] = tab[q]
           /\ p \in DOMAIN tab => With(tab, p, X)[p] = tab[p] \cup X
           /\ p \notin DOMAIN tab => With(tab, p, X)[p] = X
BY DEF With

LEMMA TableGrows ==
    ASSUME NEW o, NEW tab, TableOK(o, tab), NEW p \in PathIn(o), NEW X,
           \A x \in X : PairOK(o, p, x),
           ~ o.protocol => X # {}
    PROVE  /\ TableOK(o, With(tab, p, X))
           /\ DOMAIN tab \subseteq DOMAIN With(tab, p, X)
<1> DEFINE w == With(tab, p, X)
<1>1. /\ w = [q \in DOMAIN w |-> w[q]]
      /\ DOMAIN w = DOMAIN tab \cup {p}
      /\ \A q \in DOMAIN tab : q # p => w[q] = tab[q]
      /\ p \in DOMAIN tab => w[p] = tab[p] \cup X
      /\ p \notin DOMAIN tab => w[p] = X
  BY WithFacts
<1> HIDE DEF w
<1>2. DOMAIN w \subseteq PathIn(o)
  BY <1>1 DEF TableOK
<1>3. \A q \in DOMAIN w : \A x \in w[q] : PairOK(o, q, x)
  <2> SUFFICES ASSUME NEW q \in DOMAIN w, NEW x \in w[q]
               PROVE  PairOK(o, q, x)
    OBVIOUS
  <2>1. q \in DOMAIN tab => \A y \in tab[q] : PairOK(o, q, y)
    BY DEF TableOK
  <2> QED BY <1>1, <2>1
<1>4. ~ o.protocol => /\ InitPath \in DOMAIN w
                      /\ \A q \in DOMAIN w : w[q] # {}
  <2> SUFFICES ASSUME ~ o.protocol
               PROVE  InitPath \in DOMAIN w /\ \A q \in DOMAIN w : w[q] # {}
    OBVIOUS
  <2>1. InitPath \in DOMAIN tab /\ \A q \in DOMAIN tab : tab[q] # {}
    BY DEF TableOK
  <2> QED BY <1>1, <2>1
<1> QED BY <1>1, <1>2, <1>3, <1>4 DEF TableOK, w

(* A table that holds at least the same paths will do for the driver.      *)
LEMMA SelKept ==
    ASSUME NEW o, NEW c, NEW s, NEW tab, SelOK(o, c, s, tab),
           NEW new, DOMAIN tab \subseteq DOMAIN new
    PROVE  SelOK(o, c, s, new)
BY DEF SelOK

(* A run that is not AFLGo's does not depend on the driver, ...            *)
LEMMA RunKept ==
    ASSUME NEW r, NEW o, NEW c, NEW s, RunOK(r, o, c, s),
           r.by = "afl" => c # "afl",
           NEW d, NEW new
    PROVE  RunOK(r, o, d, new)
BY DEF RunOK, GivenOK

(* ... a step changes only its place, ...                                  *)
LEMMA RunSteps ==
    ASSUME NEW o \in Subjects, NEW c, NEW s, NEW r, RunOK(r, o, c, s),
           r.at \notin {"none", "running"},
           NEW l, l \in Stages, l # "none",
           l \in {"open", "append"} => o.protocol,
           ~ o.protocol => r.at \in Locked \cup Linking,
           NEW q, q = [r EXCEPT !.at = l]
    PROVE  RunOK(q, o, c, s)
<1>1. r \in RunType(o) /\ l \in Stages /\ l # "none"
  BY DEF RunOK, Stages
<1>2. /\ q \in RunType(o) /\ q.at = l /\ q.by = r.by /\ q.path = r.path
      /\ q.prefix = r.prefix /\ q.reads = r.reads
  BY <1>1 DEF RunType
<1>3. r.by # "none" /\ r.path # <<>>
  BY DEF RunOK
<1>4. ~ o.protocol => l \notin {"open", "append"} /\ FoundOK(o, q)
                      /\ GivenOK(q, c, s)
  BY <1>2 DEF RunOK, FoundOK, GivenOK
<1> QED BY <1>1, <1>2, <1>3, <1>4 DEF RunOK

(* ... and none is left of one that returns.                               *)
LEMMA GoneIsOK ==
    ASSUME NEW o, NEW c, NEW s
    PROVE  RunOK(Gone, o, c, s)
<1>1. /\ Gone \in RunType(o) /\ Gone.by = "none" /\ Gone.at = "none"
  <2>1. <<>> \in Seq(Input)
    OBVIOUS
  <2> QED BY <2>1 DEF Gone, RunType, Stages, Owners, NoPrefix
<1> QED BY <1>1 DEF RunOK, FoundOK, GivenOK, Locked, Linking

(* The path of what the driver selects has edges.                          *)
LEMMA CubesAreCubes ==
    ASSUME opt \in Subjects, NEW p \in PathIn(opt), NEW c \in CubesOnward(p)
    PROVE  IsCube(c, DOMAIN aut.ap)
<1> DEFINE s == p[Len(p)]
<1>1. IsAutomaton(aut, DOMAIN aut.out)
  BY CampaignAssumption DEF IsSubject, aut
<1>2. s \in DOMAIN aut.out
  <2> DEFINE D == DOMAIN aut.out
  <2>1. p \in Seq(D) /\ p # <<>>
    BY DEF PathIn, aut
  <2> HIDE DEF D
  <2>2. Len(p) \in 1 .. Len(p)
    BY <2>1, EmptySeq
  <2>3. p[Len(p)] \in D
    BY <2>1, <2>2
  <2> QED BY <2>3 DEF D
<1>3. PICK i \in Onward(p) : \E k \in DOMAIN aut.out[s][i].label :
        c = aut.out[s][i].label[k]
  BY DEF CubesOnward
<1>4. i \in DOMAIN aut.out[s]
  BY DEF Onward
<1> HIDE DEF s
<1>5. IsEdge(aut.out[s][i], DOMAIN aut.out, DOMAIN aut.ap)
  BY <1>1, <1>2, <1>4 DEF IsAutomaton
<1> QED BY <1>3, <1>5 DEF IsEdge

LEMMA EventsAreEvents ==
    ASSUME opt \in Subjects, NEW p \in PathIn(opt), NEW c \in CubesOnward(p),
           NEW e \in EventsFor(c)
    PROVE  e \in Event
<1>1. \A v \in DOMAIN aut.ap : aut.ap[v] \in Event
  BY CampaignAssumption DEF IsSubject, aut
<1>2. c.pos \subseteq DOMAIN aut.ap
  BY CubesAreCubes DEF IsCube
<1>3. AllEvents \subseteq Event
  BY CampaignAssumption
<1> QED BY <1>1, <1>2, <1>3 DEF EventsFor, Names

(* An event that the driver runs directly is an input.                     *)
LEMMA InputEvent ==
    ASSUME NEW e \in Event, e[1] = "i"
    PROVE  e \in {"i"} \X Input
BY DEF Event

(* What a prefix overwrites is as long as before.                          *)
LEMMA OverwrittenType ==
    ASSUME NEW xs \in Seq(Input), NEW ys \in Seq(Input)
    PROVE  /\ Overwritten(xs, ys) \in Seq(Input)
           /\ Len(Overwritten(xs, ys)) = Len(xs)
<1> DEFINE f == Overwritten(xs, ys)
<1>1. \A n \in DOMAIN xs : xs[n] \in Input
  OBVIOUS
<1>2. \A n \in DOMAIN ys : ys[n] \in Input
  OBVIOUS
<1>3. f \in [DOMAIN xs -> Input]
  BY <1>1, <1>2 DEF Overwritten
<1>4. DOMAIN xs = 1 .. Len(xs) /\ Len(xs) \in Nat
  OBVIOUS
<1> HIDE DEF f
<1>5. f \in Seq(Input)
  BY <1>3, <1>4, SeqDef
<1>6. Len(f) = Len(xs)
  <2>1. DOMAIN f = 1 .. Len(xs)
    BY <1>3, <1>4
  <2> QED BY <1>4, <1>5, <2>1, LenProperties
<1> QED BY <1>5, <1>6 DEF f

(* A new run reads what it is given, and the end of the file.              *)
LEMMA StartedFacts ==
    ASSUME opt \in Subjects, NEW xs \in Seq(Input),
           NEW by \in {"driver", "afl"}
    PROVE  /\ Started(xs, by) \in RunType(opt)
           /\ Started(xs, by).at = "running" /\ Started(xs, by).by = by
           /\ \E zs \in Seq(Input) : Started(xs, by).reads = xs \o zs
<1> DEFINE zs == IF opt.protocol THEN <<>> ELSE Program.eof
<1>1. zs \in Seq(Input)
  <2>1. Program.eof \in Seq(Input) /\ <<>> \in Seq(Input)
    BY CampaignAssumption DEF IsProgram
  <2> QED BY <2>1
<1>2. Started(xs, by) = [Gone EXCEPT !.at = "running", !.by = by,
                                     !.reads = xs \o zs]
  BY DEF Started
<1> HIDE DEF zs
<1>3. xs \o zs \in Seq(Input)
  BY <1>1
<1>4. <<>> \in Seq(Input)
  OBVIOUS
<1> DEFINE rs == xs \o zs
<1>5. Started(xs, by) = [at |-> "running", reads |-> rs, evaluated |-> 0,
                         path |-> <<>>, prefix |-> <<>>, by |-> by]
  <2> HIDE DEF rs
  <2> QED BY <1>2 DEF Gone, NoPrefix, rs
<1>6. Started(xs, by) \in RunType(opt)
  <2>1. "running" \in Stages /\ by \in Owners /\ 0 \in Nat
    BY DEF Stages, Owners
  <2>2. rs \in Seq(Input)
    BY <1>3
  <2> HIDE DEF rs
  <2> QED BY <1>4, <1>5, <2>1, <2>2 DEF RunType
<1>7. Started(xs, by).reads = xs \o zs
  BY <1>5
<1>8. /\ Started(xs, by).at = "running" /\ Started(xs, by).by = by
  BY <1>5
<1> QED BY <1>1, <1>6, <1>7, <1>8

LEMMA InitInv == Init => Inv
<1> SUFFICES ASSUME Init PROVE Inv
  OBVIOUS
<1>1. opt \in Subjects /\ InitPath \in PathIn(opt) /\ opt.protocol \in BOOLEAN
  BY InitPathIsPath DEF Init
<1>2. Scalars
  <2>1. Seed \in Seq(Input) /\ Budget \in Nat
    BY CampaignAssumption
  <2>2. clock \in 0 .. Budget
    BY <2>1 DEF Init
  <2>3. input \in Seq(Input) /\ Len(input) = Len(Seed)
    BY <2>1 DEF Init
  <2> QED BY <2>2, <2>3 DEF Init, Scalars, Places
<1>3. TableOK(opt, table)
  <2>1. CASE opt.protocol
    <3>1. table = [p \in {} |-> {}]
      BY <2>1 DEF Init
    <3> QED BY <2>1, <3>1 DEF TableOK
  <2>2. CASE ~ opt.protocol
    <3>1. table = [p \in {InitPath} |-> {NoPrefix}]
      BY <2>2 DEF Init
    <3>2. PairOK(opt, InitPath, NoPrefix)
      <4>1. <<>> \in Seq(Input)
        OBVIOUS
      <4> QED BY <4>1 DEF PairOK, NoPrefix
    <3>3. /\ DOMAIN table = {InitPath} /\ table[InitPath] = {NoPrefix}
          /\ table = [p \in DOMAIN table |-> table[p]]
      BY <3>1
    <3> QED BY <1>1, <3>2, <3>3 DEF TableOK
  <2> QED BY <1>1, <2>1, <2>2
<1>4. SelOK(opt, pc, sel, table)
  <2>1. pc = "select" /\ sel = NoSel
    BY DEF Init
  <2>2. NoSel \in SelType(opt)
    <3>1. <<>> \in Seq(Input)
      OBVIOUS
    <3> QED BY <1>1, <3>1 DEF NoSel, SelType, NoPrefix
  <2> QED BY <2>1, <2>2 DEF SelOK
<1>5. Runs
  BY GoneIsOK DEF Init, Runs
<1> QED BY <1>2, <1>3, <1>4, <1>5 DEF Inv

(* The driver's own steps, up to what it selects.                          *)
LEMMA DriverKeeps ==
    ASSUME Inv, pc # "afl",
           UNCHANGED <<opt, init_run, input, store, clock, proc>>,
           pc' \in Places \cup {"done", "failed", "undefined"},
           SelOK(opt, pc', sel', table)
    PROVE  Inv'
<1>1. Scalars'
  BY DEF Inv, Scalars, store
<1>2. TableOK(opt', table') /\ SelOK(opt', pc', sel', table')
  BY DEF Inv, store
<1>3. Runs'
  <2>1. \A t \in Target : RunOK(proc[t], opt, pc', sel')
    BY RunKept DEF Inv, Runs
  <2> QED BY <2>1 DEF Inv, Runs
<1> QED BY <1>1, <1>2, <1>3 DEF Inv

LEMMA NoSelOK ==
    ASSUME opt \in Subjects, NEW tab, NEW c,
           c \in {"select", "done", "failed", "undefined"},
           NEW s, s = NoSel \/ s \in SelType(opt)
    PROVE  SelOK(opt, c, s, tab)
<1>1. InitPath \in PathIn(opt)
  BY InitPathIsPath
<1>2. NoSel \in SelType(opt)
  <2>1. <<>> \in Seq(Input)
    OBVIOUS
  <2> QED BY <1>1, <2>1 DEF NoSel, SelType, NoPrefix
<1> QED BY <1>2 DEF SelOK

LEMMA BudgetUsedInv == Inv /\ BudgetUsed => Inv'
<1> SUFFICES ASSUME Inv, BudgetUsed PROVE Inv'
  OBVIOUS
<1>1. /\ UNCHANGED <<opt, init_run, input, store, clock, proc>>
      /\ sel' = sel /\ pc' = "done" /\ pc # "afl"
  BY DEF BudgetUsed, Goto
<1>2. SelOK(opt, pc', sel', table)
  BY <1>1 DEF Inv, SelOK
<1> QED BY <1>1, <1>2, DriverKeeps

LEMMA SelectPathInv == Inv /\ SelectPath => Inv'
<1> SUFFICES ASSUME Inv, SelectPath PROVE Inv'
  OBVIOUS
<1>1. /\ UNCHANGED <<opt, input, store, clock, proc>> /\ ~ opt.protocol
      /\ pc = "select" /\ init_run' \in BOOLEAN
  BY DEF SelectPath, Inv, Scalars
<1>2. sel \in SelType(opt)
  BY DEF Inv, SelOK
<1>3. SelOK(opt, pc', sel', table) /\ pc' \in {"undefined", "copy"}
  <2>1. CASE pc' = "undefined" /\ sel' = sel
    BY <1>2, <2>1 DEF SelOK
  <2>2. CASE /\ pc' = "copy"
             /\ \E p \in DOMAIN table : sel' = [sel EXCEPT !.path = p]
    <3>1. PICK p \in DOMAIN table : sel' = [sel EXCEPT !.path = p]
      BY <2>2
    <3>2. p \in PathIn(opt)
      BY DEF Inv, TableOK
    <3>3. sel' \in SelType(opt) /\ sel'.path = p
      BY <1>2, <3>1, <3>2 DEF SelType
    <3> QED BY <1>1, <2>2, <3>3 DEF SelOK
  <2>3. \/ pc' = "undefined" /\ sel' = sel
        \/ /\ pc' = "copy"
           /\ \E p \in DOMAIN table : sel' = [sel EXCEPT !.path = p]
    <3>1. InitPath \in DOMAIN table
      BY <1>1 DEF Inv, TableOK
    <3>2. \A p \in Candidates : p \in DOMAIN table
      BY DEF Candidates
    <3> QED BY <3>1, <3>2 DEF SelectPath, Goto
  <2> QED BY <2>1, <2>2, <2>3
<1>4. Scalars'
  BY <1>1, <1>3 DEF Inv, Scalars, store, Places
<1>5. TableOK(opt', table') /\ SelOK(opt', pc', sel', table')
  BY <1>1, <1>3 DEF Inv, store
<1>6. Runs'
  <2>1. \A t \in Target : RunOK(proc[t], opt, pc', sel')
    BY <1>1, RunKept DEF Inv, Runs
  <2> QED BY <1>1, <2>1 DEF Inv, Runs
<1> QED BY <1>4, <1>5, <1>6 DEF Inv

LEMMA SelectPrefixInv == Inv /\ SelectPrefix => Inv'
<1> SUFFICES ASSUME Inv, SelectPrefix PROVE Inv'
  OBVIOUS
<1>1. /\ UNCHANGED <<opt, init_run, input, store, clock, proc>>
      /\ pc = "copy" /\ pc # "afl"
      /\ ~ opt.protocol /\ sel.path \in DOMAIN table /\ sel \in SelType(opt)
  BY DEF SelectPrefix, Inv, SelOK
<1>2. \/ pc' \in {"undefined", "failed"} /\ sel' = sel
      \/ /\ pc' = "event"
         /\ \E x \in table[sel.path] : sel' = [sel EXCEPT !.prefix = x]
  BY DEF SelectPrefix, Goto
<1>3. CASE pc' \in {"undefined", "failed"} /\ sel' = sel
  <2>1. SelOK(opt, pc', sel', table)
    BY <1>1, <1>3 DEF SelOK
  <2> QED BY <1>1, <1>3, <2>1, DriverKeeps DEF Places
<1>4. ASSUME pc' = "event", NEW x \in table[sel.path],
             sel' = [sel EXCEPT !.prefix = x]
      PROVE  Inv'
  <2>1. PairOK(opt, sel.path, x)
    BY <1>1 DEF Inv, TableOK
  <2>2. x \in Seq(Input)
    BY <2>1 DEF PairOK
  <2>3. sel' \in SelType(opt) /\ sel'.path = sel.path /\ sel'.prefix = x
    BY <1>1, <1>4, <2>2 DEF SelType
  <2>4. SelOK(opt, pc', sel', table)
    BY <1>1, <1>4, <2>1, <2>3 DEF SelOK, PairOK
  <2> QED BY <1>1, <1>4, <2>4, DriverKeeps DEF Places
<1> QED BY <1>2, <1>3, <1>4

LEMMA SelectPathAndPrefixInv ==
    Inv /\ select_automataPath_and_prefix => Inv'
<1> SUFFICES ASSUME Inv, select_automataPath_and_prefix PROVE Inv'
  OBVIOUS
<1>1. /\ UNCHANGED <<opt, init_run, input, store, clock, proc>>
      /\ pc = "select" /\ pc # "afl" /\ pc' = "event" /\ opt.protocol
      /\ sel \in SelType(opt)
  BY DEF select_automataPath_and_prefix, Goto, Inv, SelOK
<1> DEFINE Ps == IF DOMAIN table = {} THEN {InitPath} ELSE DOMAIN table
           Xs(p) == IF PrefixesIn(p) = {} THEN {NoPrefix} ELSE PrefixesIn(p)
<1>2. \E p \in Ps : \E x \in Xs(p) :
        sel' = [path |-> p, prefix |-> x, event |-> sel.event]
  BY DEF select_automataPath_and_prefix
<1> PICK p \in Ps : \E x \in Xs(p) :
      sel' = [path |-> p, prefix |-> x, event |-> sel.event]
  <2> HIDE DEF Ps, Xs
  <2> QED BY <1>2
<1> PICK x \in Xs(p) : sel' = [path |-> p, prefix |-> x, event |-> sel.event]
  <2> HIDE DEF Ps, Xs
  <2> QED OBVIOUS
<1>3. p \in PathIn(opt)
  <2>1. DOMAIN table \subseteq PathIn(opt) /\ InitPath \in PathIn(opt)
    BY InitPathIsPath DEF Inv, TableOK, Scalars
  <2> QED BY <2>1
<1>4. x \in Seq(Input)
  <2>1. \A q \in DOMAIN table : \A y \in table[q] : y \in Seq(Input)
    BY DEF Inv, TableOK, PairOK
  <2>2. <<>> \in Seq(Input)
    OBVIOUS
  <2>3. \A y \in PrefixesIn(p) : \E q \in DOMAIN table : y \in table[q]
    BY DEF PrefixesIn
  <2> QED BY <2>1, <2>2, <2>3 DEF NoPrefix
<1>5. sel' \in SelType(opt)
  <2> HIDE DEF Ps, Xs
  <2> QED BY <1>1, <1>3, <1>4 DEF SelType
<1>6. SelOK(opt, pc', sel', table)
  BY <1>1, <1>5 DEF SelOK
<1> QED BY <1>1, <1>6, DriverKeeps DEF Places

LEMMA SelectEventInv == Inv /\ SelectEvent => Inv'
<1> SUFFICES ASSUME Inv, SelectEvent PROVE Inv'
  OBVIOUS
<1>1. /\ UNCHANGED <<opt, init_run, input, store, clock, proc>>
      /\ pc = "event" /\ pc # "afl" /\ opt \in Subjects
      /\ sel \in SelType(opt)
      /\ ~ opt.protocol => \/ sel.path = InitPath
                           \/ Leads(opt.aut, Program, sel.path, sel.prefix)
  BY DEF SelectEvent, Inv, SelOK, Scalars
<1>2. \/ pc' = "failed" /\ sel' = sel
      \/ \E c \in CubesOnward(sel.path) : \E e \in EventsFor(c) :
           /\ sel' = [sel EXCEPT !.event = e]
           /\ \/ pc' = "direct" /\ e[1] = "i"
              \/ pc' \in {"afl", "failed"}
  BY DEF SelectEvent, Goto
<1>3. CASE pc' = "failed" /\ sel' = sel
  <2>1. SelOK(opt, pc', sel', table)
    BY <1>1, <1>3 DEF SelOK
  <2> QED BY <1>1, <1>3, <2>1, DriverKeeps
<1>4. ASSUME NEW c \in CubesOnward(sel.path), NEW e \in EventsFor(c),
             sel' = [sel EXCEPT !.event = e],
             (pc' = "direct" /\ e[1] = "i") \/ pc' \in {"afl", "failed"}
      PROVE  Inv'
  <2>1. sel.path \in PathIn(opt)
    BY <1>1 DEF SelType
  <2>2. e \in Event
    BY <1>1, <2>1, EventsAreEvents
  <2>3. /\ sel' \in SelType(opt) /\ sel'.path = sel.path
        /\ sel'.prefix = sel.prefix /\ sel'.event = e
    BY <1>1, <1>4, <2>2 DEF SelType
  <2>4. pc' = "direct" => e \in {"i"} \X Input
    BY <1>4, <2>2, InputEvent
  <2>5. pc' \in {"direct", "afl", "failed"}
    BY <1>4
  <2>6. SelOK(opt, pc', sel', table)
    BY <1>1, <2>3, <2>4, <2>5 DEF SelOK
  <2> QED BY <1>1, <2>5, <2>6, DriverKeeps DEF Places
<1> QED BY <1>2, <1>3, <1>4

(* A run is started, or changes.                                           *)
LEMMA OneRun ==
    ASSUME Runs, NEW t \in Target, NEW r, RunOK(r, opt, pc', sel'),
           \A u \in Target : RunOK(proc[u], opt, pc', sel'),
           opt' = opt, proc' = [proc EXCEPT ![t] = r]
    PROVE  Runs'
<1>1. /\ proc' = [u \in Target |-> proc'[u]]
      /\ \A u \in Target : proc'[u] = IF u = t THEN r ELSE proc[u]
  BY DEF Runs
<1>2. \A u \in Target : RunOK(proc'[u], opt', pc', sel')
  BY <1>1
<1> QED BY <1>1, <1>2 DEF Runs

LEMMA RunDirectlyInv == Inv /\ RunDirectly => Inv'
<1> SUFFICES ASSUME Inv, RunDirectly PROVE Inv'
  OBVIOUS
<1> DEFINE ys == Append(sel.prefix, sel.event[2])
<1>1. /\ UNCHANGED <<opt, init_run, sel, store, clock>> /\ pc = "direct"
      /\ sel \in SelType(opt) /\ sel.event \in {"i"} \X Input
      /\ opt \in Subjects /\ input \in Seq(Input) /\ Len(input) = Len(Seed)
  BY DEF RunDirectly, Inv, SelOK, Scalars
<1>2. \/ pc' = "undefined" /\ UNCHANGED <<input, proc>>
      \/ /\ input' = Overwritten(input, ys) /\ pc' = "wait"
         /\ \E t \in Idle :
              proc' = [proc EXCEPT ![t] = Started(input', "driver")]
  BY DEF RunDirectly, Goto
<1>3. ys \in Seq(Input)
  <2>1. sel.prefix \in Seq(Input) /\ sel.event[2] \in Input
    BY <1>1 DEF SelType
  <2> QED BY <2>1
<1> HIDE DEF ys
<1>4. TableOK(opt', table') /\ SelOK(opt', pc', sel', table')
  BY <1>1, <1>2 DEF Inv, store, SelOK
<1>5. \A t \in Target : RunOK(proc[t], opt, pc', sel')
  BY <1>1, RunKept DEF Inv, Runs
<1>6. input' \in Seq(Input) /\ Len(input') = Len(Seed)
  BY <1>1, <1>2, <1>3, OverwrittenType
<1>7. Scalars'
  BY <1>1, <1>2, <1>6 DEF Inv, Scalars, store, Places
<1>8. CASE pc' = "undefined" /\ UNCHANGED <<input, proc>>
  <2>1. Runs'
    BY <1>1, <1>5, <1>8 DEF Inv, Runs
  <2> QED BY <1>4, <1>7, <2>1 DEF Inv
<1>9. ASSUME NEW t \in Idle, pc' = "wait",
             proc' = [proc EXCEPT ![t] = Started(input', "driver")]
      PROVE  Inv'
  <2> DEFINE r == Started(input', "driver")
  <2>1. t \in Target
    BY DEF Idle
  <2>2. r \in RunType(opt) /\ r.at = "running" /\ r.by = "driver"
    BY <1>1, <1>6, StartedFacts
  <2> HIDE DEF r
  <2>3. RunOK(r, opt, pc', sel')
    BY <2>2 DEF RunOK, FoundOK, GivenOK, Locked, Linking
  <2>4. Runs'
    <3>1. Runs /\ opt' = opt /\ proc' = [proc EXCEPT ![t] = r]
      BY <1>1, <1>9 DEF Inv, r
    <3> QED BY <1>5, <2>1, <2>3, <3>1, OneRun
  <2> QED BY <1>4, <1>7, <2>4 DEF Inv
<1> QED BY <1>2, <1>8, <1>9

LEMMA ProgramReturnsInv == Inv /\ ProgramReturns => Inv'
<1> SUFFICES ASSUME Inv, ProgramReturns PROVE Inv'
  OBVIOUS
<1>1. /\ UNCHANGED <<opt, init_run, input, store, clock, proc>>
      /\ pc = "wait" /\ pc # "afl" /\ pc' = "select" /\ sel' = NoSel
      /\ opt \in Subjects
  BY DEF ProgramReturns, Goto, Inv, Scalars
<1>2. SelOK(opt, pc', sel', table)
  BY <1>1, NoSelOK
<1> QED BY <1>1, <1>2, DriverKeeps DEF Places

LEMMA AflRunInv == Inv /\ AflRun => Inv'
<1> SUFFICES ASSUME Inv, AflRun PROVE Inv'
  OBVIOUS
<1>1. /\ UNCHANGED <<opt, driver, store, clock>> /\ pc = "afl"
      /\ opt \in Subjects /\ sel \in SelType(opt)
  BY DEF AflRun, Inv, SelOK, Scalars
<1>2. PICK xs \in Tails, t \in Idle :
        proc' = [proc EXCEPT ![t] = Started(Prefixed(xs), "afl")]
  BY DEF AflRun
<1> DEFINE r == Started(Prefixed(xs), "afl")
<1>3. xs \in Seq(Input) /\ sel.prefix \in Seq(Input)
  BY <1>1, CampaignAssumption DEF SelType
<1>4. Prefixed(xs) \in Seq(Input) /\ Prefixed(xs) = sel.prefix \o xs
  BY <1>3 DEF Prefixed, Given
<1>5. /\ r \in RunType(opt) /\ r.at = "running" /\ r.by = "afl"
      /\ \E zs \in Seq(Input) : r.reads = Prefixed(xs) \o zs
  <2> DEFINE z == Prefixed(xs)
  <2>1. z \in Seq(Input)
    BY <1>4
  <2> HIDE DEF z
  <2> QED BY <1>1, <2>1, StartedFacts DEF z
<1> HIDE DEF r
<1>6. \E ys \in Seq(Input) : r.reads = sel.prefix \o ys
  <2>1. PICK zs \in Seq(Input) : r.reads = (sel.prefix \o xs) \o zs
    BY <1>4, <1>5
  <2>2. xs \o zs \in Seq(Input)
    BY <1>3, <2>1
  <2>3. r.reads = sel.prefix \o (xs \o zs)
    <3> DEFINE p == sel.prefix
    <3>1. p \in Seq(Input)
      BY <1>3
    <3>2. r.reads = (p \o xs) \o zs
      BY <2>1
    <3> HIDE DEF p
    <3>3. (p \o xs) \o zs = p \o (xs \o zs)
      BY <1>3, <2>1, <3>1, ConcatAssociative
    <3> QED BY <3>2, <3>3 DEF p
  <2> QED BY <2>2, <2>3
<1>7. RunOK(r, opt, pc', sel')
  BY <1>1, <1>5, <1>6 DEF RunOK, FoundOK, GivenOK, Locked, Linking, driver
<1>8. Runs'
  <2>1. Runs /\ t \in Target
    BY DEF Inv, Idle
  <2>2. \A u \in Target : RunOK(proc[u], opt, pc', sel')
    BY <1>1 DEF Inv, Runs, driver
  <2>3. proc' = [proc EXCEPT ![t] = r]
    BY <1>2 DEF r
  <2> QED BY <1>1, <1>7, <2>1, <2>2, <2>3, OneRun
<1>9. Scalars' /\ TableOK(opt', table') /\ SelOK(opt', pc', sel', table')
  BY <1>1 DEF Inv, Scalars, driver, store
<1> QED BY <1>8, <1>9 DEF Inv

LEMMA SessionEndsInv == Inv /\ SessionEnds => Inv'
<1> SUFFICES ASSUME Inv, SessionEnds PROVE Inv'
  OBVIOUS
<1>1. /\ UNCHANGED <<opt, init_run, input, store, clock>>
      /\ pc' = "select" /\ sel' = NoSel /\ opt \in Subjects
      /\ proc' = [t \in Target |-> IF proc[t].by = "afl"
                                   THEN [proc[t] EXCEPT !.by = "orphan"]
                                   ELSE proc[t]]
  BY DEF SessionEnds, Goto, Inv, Scalars
<1>2. SelOK(opt', pc', sel', table') /\ TableOK(opt', table')
  BY <1>1, NoSelOK DEF Inv, store
<1>3. Scalars'
  BY <1>1 DEF Inv, Scalars, store, Places
<1>4. ASSUME NEW t \in Target PROVE RunOK(proc'[t], opt, pc', sel')
  <2> DEFINE r == proc[t]
             q == proc'[t]
  <2>1. RunOK(r, opt, pc, sel)
    BY DEF Inv, Runs
  <2>2. q = IF r.by = "afl" THEN [r EXCEPT !.by = "orphan"] ELSE r
    BY <1>1
  <2> HIDE DEF r, q
  <2>3. CASE r.by # "afl"
    BY <2>1, <2>2, <2>3, RunKept DEF q
  <2>4. CASE r.by = "afl"
    <3>1. r \in RunType(opt) /\ "orphan" \in Owners
      BY <2>1 DEF RunOK, Owners
    <3>2. /\ q \in RunType(opt) /\ q.by = "orphan" /\ q.at = r.at
          /\ q.path = r.path /\ q.prefix = r.prefix /\ q.reads = r.reads
      BY <2>2, <2>4, <3>1 DEF RunType
    <3>3. RunOK(q, opt, pc', sel')
      BY <2>1, <2>4, <3>2 DEF RunOK, FoundOK, GivenOK
    <3> QED BY <3>3 DEF q
  <2> QED BY <2>3, <2>4
<1>5. Runs'
  <2>1. proc' = [t \in Target |-> proc'[t]]
    BY <1>1
  <2> QED BY <1>1, <1>4, <2>1 DEF Runs
<1> QED BY <1>2, <1>3, <1>5 DEF Inv

LEMMA TickInv == Inv /\ Tick => Inv'
<1> SUFFICES ASSUME Inv, Tick PROVE Inv'
  OBVIOUS
<1>1. /\ UNCHANGED <<opt, driver, store, proc>> /\ clock' \in 0 .. Budget
  <2>1. Budget \in Nat /\ clock \in 0 .. Budget
    BY CampaignAssumption DEF Inv, Scalars
  <2> QED BY <2>1 DEF Tick
<1>2. Scalars'
  BY <1>1 DEF Inv, Scalars, driver, store
<1> QED BY <1>1, <1>2 DEF Inv, Runs, driver, store

-----------------------------------------------------------------------------
(* The target's steps.                                                     *)

LEMMA TargetKeeps ==
    ASSUME Inv, NEW t \in Target, NEW r, RunOK(r, opt, pc, sel),
           UNCHANGED <<opt, driver, clock>>,
           proc' = [proc EXCEPT ![t] = r],
           mutex' \in Target \cup {"free", "dead"}, torn' \in BOOLEAN,
           TableOK(opt, table'), DOMAIN table \subseteq DOMAIN table'
    PROVE  Inv'
<1>1. Scalars'
  BY DEF Inv, Scalars, driver
<1>2. SelOK(opt', pc', sel', table')
  <2>1. SelOK(opt, pc, sel, table)
    BY DEF Inv
  <2>2. SelOK(opt, pc, sel, table')
    BY <2>1, SelKept
  <2> QED BY <2>2 DEF driver
<1>3. Runs'
  <2>1. /\ Runs /\ \A u \in Target : RunOK(proc[u], opt, pc', sel')
        /\ RunOK(r, opt, pc', sel')
    BY DEF Inv, Runs, driver
  <2> QED BY <2>1, OneRun
<1> QED BY <1>1, <1>2, <1>3 DEF Inv

(* A run that returns, and one that goes on.                               *)
LEMMA ReturnsInv ==
    ASSUME Inv, NEW t \in Target, Returns(t),
           UNCHANGED <<opt, driver, clock>>,
           mutex' \in Target \cup {"free", "dead"}, torn' \in BOOLEAN,
           TableOK(opt, table'), DOMAIN table \subseteq DOMAIN table'
    PROVE  Inv'
<1>1. RunOK(Gone, opt, pc, sel)
  BY GoneIsOK
<1>2. proc' = [proc EXCEPT ![t] = Gone]
  BY DEF Returns
<1> HIDE DEF Gone
<1> QED BY <1>1, <1>2, TargetKeeps

LEMMA StepInv ==
    ASSUME Inv, NEW t \in Target, NEW l, Step(t, l),
           proc[t].at \notin {"none", "running"},
           l \in Stages, l # "none",
           l \in {"open", "append"} => opt.protocol,
           ~ opt.protocol => proc[t].at \in Locked \cup Linking,
           UNCHANGED <<opt, driver, clock>>,
           mutex' \in Target \cup {"free", "dead"}, torn' \in BOOLEAN,
           TableOK(opt, table'), DOMAIN table \subseteq DOMAIN table'
    PROVE  Inv'
<1> DEFINE r == proc[t]
           q == [r EXCEPT !.at = l]
<1>1. proc' = [proc EXCEPT ![t] = q]
  BY DEF Step
<1>2. RunOK(r, opt, pc, sel) /\ opt \in Subjects
  BY DEF Inv, Runs, Scalars
<1>3. RunOK(q, opt, pc, sel)
  <2>1. /\ r.at \notin {"none", "running"}
        /\ ~ opt.protocol => r.at \in Locked \cup Linking
    OBVIOUS
  <2> HIDE DEF r
  <2> QED BY <1>2, <2>1, RunSteps
<1> HIDE DEF q
<1> QED BY <1>1, <1>3, TargetKeeps

(* What is known of a run that is about to write.                          *)
LEMMA WriterFacts ==
    ASSUME Inv, NEW t \in Target, proc[t].at \notin {"none", "running"}
    PROVE  /\ proc[t].path \in PathIn(opt) /\ proc[t].prefix \in Seq(Input)
           /\ ~ opt.protocol =>
                /\ proc[t].at \in Locked \cup Linking
                /\ PairOK(opt, proc[t].path, proc[t].prefix)
<1> DEFINE r == proc[t]
<1>1. RunOK(r, opt, pc, sel) /\ r.at \notin {"none", "running"}
  BY DEF Inv, Runs
<1> HIDE DEF r
<1>2. r \in RunType(opt) /\ r.path # <<>>
  BY <1>1 DEF RunOK
<1>3. r.path \in PathIn(opt) /\ r.prefix \in Seq(Input)
  BY <1>2 DEF RunType
<1>4. ~ opt.protocol => r.at \in Locked \cup Linking
  BY <1>1, <1>2 DEF RunOK, RunType, Stages
<1>5. ~ opt.protocol => PairOK(opt, r.path, r.prefix)
  BY <1>1, <1>3, <1>4 DEF RunOK, FoundOK, PairOK
<1> QED BY <1>3, <1>4, <1>5 DEF r

LEMMA ExitInv == ASSUME NEW t \in Target PROVE Inv /\ Exit(t) => Inv'
<1> SUFFICES ASSUME Inv, Exit(t) PROVE Inv'
  OBVIOUS
<1>1. UNCHANGED <<opt, driver, store, clock>> /\ Returns(t)
  BY DEF Exit
<1>2. /\ mutex' \in Target \cup {"free", "dead"} /\ torn' \in BOOLEAN
      /\ TableOK(opt, table') /\ DOMAIN table \subseteq DOMAIN table'
  BY <1>1 DEF Inv, Scalars, store
<1> QED BY <1>1, <1>2, ReturnsInv

LEMMA OpenFileInv == ASSUME NEW t \in Target PROVE Inv /\ OpenFile(t) => Inv'
<1> SUFFICES ASSUME Inv, OpenFile(t) PROVE Inv'
  OBVIOUS
<1>1. /\ UNCHANGED <<opt, driver, names, mutex, torn, clock>>
      /\ Step(t, "append") /\ proc[t].at = "open"
      /\ table' = With(table, proc[t].path, {})
      /\ mutex \in Target \cup {"free", "dead"} /\ torn \in BOOLEAN
      /\ TableOK(opt, table)
  BY DEF OpenFile, At, Inv, Scalars
<1>2. proc[t].path \in PathIn(opt) /\ opt.protocol
  <2>1. /\ proc[t].at \notin {"none", "running"}
        /\ proc[t].at \notin Locked \cup Linking
    BY <1>1 DEF Locked, Linking
  <2> QED BY <2>1, WriterFacts
<1>3. TableOK(opt, table') /\ DOMAIN table \subseteq DOMAIN table'
  <2> DEFINE p == proc[t].path
             X == {}
  <2>1. /\ \A x \in X : PairOK(opt, p, x)
        /\ ~ opt.protocol => X # {}
        /\ table' = With(table, p, X) /\ p \in PathIn(opt)
    BY <1>1, <1>2
  <2> HIDE DEF X, p
  <2> QED BY <1>1, <2>1, TableGrows
<1>4. "append" \in Stages
  BY DEF Stages
<1> QED BY <1>1, <1>2, <1>3, <1>4, StepInv

LEMMA AppendPrefixInv ==
    ASSUME NEW t \in Target PROVE Inv /\ AppendPrefix(t) => Inv'
<1> SUFFICES ASSUME Inv, AppendPrefix(t) PROVE Inv'
  OBVIOUS
<1>1. /\ UNCHANGED <<opt, driver, names, mutex, torn, clock>>
      /\ Step(t, "running") /\ proc[t].at = "append"
      /\ table' = With(table, proc[t].path, {proc[t].prefix} \ {NoPrefix})
      /\ mutex \in Target \cup {"free", "dead"} /\ torn \in BOOLEAN
      /\ TableOK(opt, table)
  BY DEF AppendPrefix, At, Inv, Scalars
<1>2. /\ proc[t].path \in PathIn(opt) /\ proc[t].prefix \in Seq(Input)
      /\ opt.protocol
  <2>1. /\ proc[t].at \notin {"none", "running"}
        /\ proc[t].at \notin Locked \cup Linking
    BY <1>1 DEF Locked, Linking
  <2> QED BY <2>1, WriterFacts
<1>3. TableOK(opt, table') /\ DOMAIN table \subseteq DOMAIN table'
  <2> DEFINE p == proc[t].path
             X == {proc[t].prefix} \ {NoPrefix}
  <2>1. /\ \A x \in X : PairOK(opt, p, x)
        /\ ~ opt.protocol => X # {}
        /\ table' = With(table, p, X) /\ p \in PathIn(opt)
    BY <1>1, <1>2 DEF PairOK
  <2> HIDE DEF X, p
  <2> QED BY <1>1, <2>1, TableGrows
<1>4. "running" \in Stages
  BY DEF Stages
<1> QED BY <1>1, <1>2, <1>3, <1>4, StepInv

LEMMA LockInv == ASSUME NEW t \in Target PROVE Inv /\ Lock(t) => Inv'
<1> SUFFICES ASSUME Inv, Lock(t) PROVE Inv'
  OBVIOUS
<1>1. UNCHANGED <<opt, driver, table, names, torn, clock, proc>> /\ mutex' = t
  BY DEF Lock
<1>2. Scalars'
  BY <1>1 DEF Inv, Scalars, driver
<1> QED BY <1>1, <1>2 DEF Inv, Runs, driver

(* A step under the mutex, which it frees.                                 *)
LEMMA LockedStepInv ==
    ASSUME Inv, NEW t \in Target, NEW l \in Locked \cup Linking, Step(t, l),
           proc[t].at \in Locked, UNCHANGED <<opt, driver, clock>>,
           table' = table, mutex' = "free", torn' = torn
    PROVE  Inv'
<1>1. TableOK(opt, table') /\ DOMAIN table \subseteq DOMAIN table'
  BY DEF Inv
<1>2. mutex' \in Target \cup {"free", "dead"} /\ torn' \in BOOLEAN
  BY DEF Inv, Scalars
<1>3. /\ l \in Stages /\ l # "none"
      /\ l \in {"open", "append"} => opt.protocol
  BY DEF Stages, Locked, Linking
<1>4. /\ proc[t].at \notin {"none", "running"}
      /\ ~ opt.protocol => proc[t].at \in Locked \cup Linking
  BY DEF Locked
<1> QED BY <1>1, <1>2, <1>3, <1>4, StepInv

LEMMA FindInv == ASSUME NEW t \in Target PROVE Inv /\ Find(t) => Inv'
<1> SUFFICES ASSUME Inv, Find(t) PROVE Inv'
  OBVIOUS
<1>1. /\ UNCHANGED <<opt, driver, table, names, clock>> /\ mutex' = "free"
      /\ proc[t].at = "find" /\ TableOK(opt, table)
      /\ torn \in BOOLEAN
  BY DEF Find, Within, At, Inv, Scalars
<1>2. \/ Returns(t) /\ torn' = TRUE
      \/ torn' = torn /\ Step(t, "add")
      \/ torn' = torn /\ Step(t, "construct")
  BY DEF Find
<1>3. TableOK(opt, table') /\ DOMAIN table \subseteq DOMAIN table'
  BY <1>1
<1>4. torn' \in BOOLEAN /\ mutex' \in Target \cup {"free", "dead"}
  BY <1>1, <1>2
<1>5. CASE Returns(t)
  BY <1>1, <1>3, <1>4, <1>5, ReturnsInv
<1>6. ASSUME NEW l \in {"add", "construct"}, Step(t, l), torn' = torn
      PROVE  Inv'
  <2>1. l \in Locked \cup Linking /\ proc[t].at \in Locked
    BY <1>1, <1>6 DEF Locked
  <2> QED BY <1>1, <1>6, <2>1, LockedStepInv
<1> QED BY <1>2, <1>5, <1>6

LEMMA ConstructInv ==
    ASSUME NEW t \in Target PROVE Inv /\ Construct(t) => Inv'
<1> SUFFICES ASSUME Inv, Construct(t) PROVE Inv'
  OBVIOUS
<1>1. /\ UNCHANGED <<opt, driver, clock>> /\ table' = table
      /\ mutex' = "free" /\ torn' = torn
      /\ proc[t].at = "construct" /\ TableOK(opt, table)
      /\ torn \in BOOLEAN
  BY DEF Construct, Within, At, Inv, Scalars
<1>2. Returns(t) \/ Step(t, "store")
  BY DEF Construct
<1>3. TableOK(opt, table') /\ DOMAIN table \subseteq DOMAIN table'
  BY <1>1
<1>4. torn' \in BOOLEAN /\ mutex' \in Target \cup {"free", "dead"}
  BY <1>1
<1>5. CASE Returns(t)
  BY <1>1, <1>3, <1>4, <1>5, ReturnsInv
<1>6. ASSUME NEW l, l = "store", Step(t, l) PROVE Inv'
  <2>1. l \in Locked \cup Linking /\ proc[t].at \in Locked
    BY <1>1, <1>6 DEF Locked
  <2> QED BY <1>1, <1>6, <2>1, LockedStepInv
<1> QED BY <1>2, <1>5, <1>6

(* The steps up to the linking.                                            *)
LEMMA StoreAddInv ==
    ASSUME NEW t \in Target PROVE Inv /\ (Store(t) \/ Add(t)) => Inv'
<1> SUFFICES ASSUME Inv, Store(t) \/ Add(t) PROVE Inv'
  OBVIOUS
<1>1. /\ UNCHANGED <<opt, driver, clock>> /\ table' = table
      /\ mutex' = "free" /\ torn' = torn
      /\ proc[t].at \in {"store", "add"} /\ TableOK(opt, table)
      /\ torn \in BOOLEAN
  BY DEF Store, Add, Within, At, Inv, Scalars
<1>2. Step(t, "link") \/ Step(t, "insert")
  BY DEF Store, Add
<1>3. TableOK(opt, table') /\ DOMAIN table \subseteq DOMAIN table'
  BY <1>1
<1>4. torn' \in BOOLEAN /\ mutex' \in Target \cup {"free", "dead"}
  BY <1>1
<1>5. ASSUME NEW l \in {"link", "insert"}, Step(t, l) PROVE Inv'
  <2>1. l \in Locked \cup Linking /\ proc[t].at \in Locked
    BY <1>1, <1>5 DEF Locked, Linking
  <2> QED BY <1>1, <1>5, <2>1, LockedStepInv
<1> QED BY <1>2, <1>5

LEMMA LinkInv == ASSUME NEW t \in Target PROVE Inv /\ Link(t) => Inv'
<1> SUFFICES ASSUME Inv, Link(t) PROVE Inv'
  OBVIOUS
<1> DEFINE p == proc[t].path
           x == proc[t].prefix
<1>1. /\ UNCHANGED <<opt, driver, names, mutex, clock>> /\ Returns(t)
      /\ proc[t].at \in Linking /\ TableOK(opt, table)
      /\ mutex \in Target \cup {"free", "dead"}
      /\ table' = table \/ table' = With(table, p, {x})
  BY DEF Link, Inv, Scalars
<1>2. torn' \in BOOLEAN
  BY DEF Link, Inv, Scalars
<1>3. proc[t].at \notin {"none", "running"}
  BY <1>1 DEF Linking
<1>4. p \in PathIn(opt) /\ PairOK(opt, p, x)
  <2>1. /\ p \in PathIn(opt) /\ x \in Seq(Input)
        /\ ~ opt.protocol => PairOK(opt, p, x)
    BY <1>3, WriterFacts
  <2> QED BY <2>1 DEF PairOK
<1>5. TableOK(opt, table') /\ DOMAIN table \subseteq DOMAIN table'
  <2>1. CASE table' = table
    BY <1>1, <2>1
  <2>2. CASE table' = With(table, p, {x})
    <3> DEFINE X == {x}
    <3>1. /\ \A y \in X : PairOK(opt, p, y)
          /\ ~ opt.protocol => X # {}
          /\ table' = With(table, p, X)
      BY <1>4, <2>2
    <3> HIDE DEF X, p
    <3> QED BY <1>1, <1>4, <3>1, TableGrows
  <2> QED BY <1>1, <2>1, <2>2
<1> QED BY <1>1, <1>2, <1>5, ReturnsInv

LEMMA KillInv == ASSUME NEW t \in Target PROVE Inv /\ Kill(t) => Inv'
<1> SUFFICES ASSUME Inv, Kill(t) PROVE Inv'
  OBVIOUS
<1>1. /\ UNCHANGED <<opt, driver, table, names, clock>> /\ Returns(t)
      /\ TableOK(opt, table)
  BY DEF Kill, Inv
<1>2. mutex' \in Target \cup {"free", "dead"} /\ torn' \in BOOLEAN
  <2>1. mutex \in Target \cup {"free", "dead"}
    BY DEF Inv, Scalars
  <2>2. mutex' = IF mutex = t THEN "dead" ELSE mutex
    BY DEF Kill
  <2>3. torn' \in BOOLEAN
    BY DEF Kill, Inv, Scalars
  <2> QED BY <2>1, <2>2, <2>3
<1>3. TableOK(opt, table') /\ DOMAIN table \subseteq DOMAIN table'
  BY <1>1
<1> QED BY <1>1, <1>2, <1>3, ReturnsInv

(* What a RERS program finds when it has read everything.                  *)
LEMMA FoundLeads ==
    ASSUME NEW P, IsProgram(P), NEW xs \in Seq(Input), NEW A,
           NEW flag \in BOOLEAN, ~ flag,
           NEW col, col = Collected(P, xs),
           NEW tr, tr = normalize_trace(col, flag),
           NEW vis, vis = Visited(A, tr), PathOf(vis) # <<>>
    PROVE  /\ PathOf(vis) = PathFrom(A, P, xs)
           /\ Leads(A, P, PathOf(vis), PrefixOf(col, vis, xs, flag))
<1>1. flag = FALSE
  OBVIOUS
<1>2. vis = Visited(A, normalize_trace(Collected(P, xs), FALSE))
  BY <1>1
<1>3. PathOf(vis) = PathFrom(A, P, xs)
  BY <1>2 DEF PathFrom
<1>4. PrefixOf(col, vis, xs, flag) =
        PrefixOf(Collected(P, xs),
                 Visited(A, normalize_trace(Collected(P, xs), FALSE)),
                 xs, FALSE)
  BY <1>1, <1>2
<1> QED BY <1>3, <1>4, PrefixLeads

LEMMA EvaluateInv == ASSUME NEW t \in Target PROVE Inv /\ Evaluate(t) => Inv'
<1> SUFFICES ASSUME Inv, Evaluate(t) PROVE Inv'
  OBVIOUS
<1> DEFINE r == proc[t]
           c == Columns(t)
           k == ToEvaluate(t)
           col == SoFar(t)
           tr == normalize_trace(col, opt.protocol)
           vis == Visited(aut, tr)
           path == PathOf(vis)
           x == PrefixOf(col, vis, r.reads, opt.protocol)
           l == IF opt.protocol THEN "open" ELSE "find"
           seen == [r EXCEPT !.evaluated = k]
           found == [r EXCEPT !.at = l, !.evaluated = k, !.path = path,
                              !.prefix = x]
<1>1. /\ UNCHANGED <<opt, driver, store, clock>> /\ r.at = "running"
      /\ RunOK(r, opt, pc, sel) /\ r \in RunType(opt) /\ opt \in Subjects
      /\ k <= Len(c)
  BY DEF Evaluate, At, Inv, Runs, RunOK, Scalars
<1>2. /\ mutex' \in Target \cup {"free", "dead"} /\ torn' \in BOOLEAN
      /\ TableOK(opt, table') /\ DOMAIN table \subseteq DOMAIN table'
  BY <1>1 DEF Inv, Scalars, store
<1>3. \/ Returns(t)
      \/ opt.protocol /\ proc' = [proc EXCEPT ![t].evaluated = k]
      \/ /\ path # <<>>
         /\ proc' = [proc EXCEPT ![t] =
                [@ EXCEPT !.at = l, !.evaluated = k, !.path = path,
                          !.prefix = x]]
  BY DEF Evaluate
<1>4. /\ r.reads \in Seq(Input) /\ IsProgram(Program)
      /\ opt.protocol \in BOOLEAN /\ IsAutomaton(aut, DOMAIN aut.out)
  BY <1>1, CampaignAssumption DEF RunType, IsSubject, aut
<1>5. /\ c = Collected(Program, r.reads) /\ Len(c) \in Nat
      /\ c \in Seq(EntryType(Program))
  <2>1. c = Collected(Program, r.reads)
    BY DEF Columns
  <2>2. Len(r.reads) \in 0 .. Len(r.reads)
    BY <1>4
  <2>3. EntriesOf(Program, r.reads)[Len(r.reads)] \in Seq(EntryType(Program))
    BY <1>4, <2>2, EntriesFacts
  <2>4. c \in Seq(EntryType(Program))
    BY <2>1, <2>3 DEF Collected
  <2> HIDE DEF c
  <2> QED BY <2>1, <2>4
<1>6. k \in Nat /\ (~ opt.protocol => k = Len(c))
  <2>1. r.evaluated \in Nat
    BY <1>1 DEF RunType
  <2> QED BY <1>5, <2>1 DEF ToEvaluate
<1>7. CASE Returns(t)
  BY <1>1, <1>2, <1>7, ReturnsInv
<1>8. CASE opt.protocol /\ proc' = [proc EXCEPT ![t].evaluated = k]
  <2>1. proc' = [proc EXCEPT ![t] = seen]
    BY <1>8
  <2>2. RunOK(seen, opt, pc, sel)
    <3> HIDE DEF r, k, c
    <3>1. /\ seen \in RunType(opt) /\ seen.at = r.at /\ seen.by = r.by
          /\ seen.path = r.path
      BY <1>1, <1>6 DEF RunType
    <3> HIDE DEF seen
    <3> QED BY <1>1, <1>8, <3>1 DEF RunOK
  <2> HIDE DEF seen
  <2> QED BY <1>1, <1>2, <2>1, <2>2, TargetKeeps
<1>9. CASE /\ path # <<>>
           /\ proc' = [proc EXCEPT ![t] =
                [@ EXCEPT !.at = l, !.evaluated = k, !.path = path,
                          !.prefix = x]]
  <2>1. proc' = [proc EXCEPT ![t] = found]
    BY <1>9
  <2>2. path \in PathIn(opt) /\ x \in Seq(Input)
    <3>1. col = SubSeq(Collected(Program, r.reads), 1, k)
      BY DEF SoFar, Columns
    <3>2. k <= Len(Collected(Program, r.reads))
          /\ (~ opt.protocol => k = Len(Collected(Program, r.reads)))
      BY <1>1, <1>5, <1>6
    <3>3. vis = Visited(aut, tr) /\ tr = normalize_trace(col, opt.protocol)
      OBVIOUS
    <3> HIDE DEF r, k, c, col, tr, vis
    <3>4. PathOf(vis) \in Seq(DOMAIN aut.out) /\ x \in Seq(Input)
      BY <1>4, <1>6, <1>9, <3>1, <3>2, <3>3, WrittenType
    <3> QED BY <1>9, <3>4 DEF PathIn, aut
  <2>3. ~ opt.protocol => /\ path = PathFrom(opt.aut, Program, r.reads)
                          /\ Leads(opt.aut, Program, path, x)
    <3> SUFFICES ASSUME ~ opt.protocol
                 PROVE  /\ path = PathFrom(opt.aut, Program, r.reads)
                        /\ Leads(opt.aut, Program, path, x)
      OBVIOUS
    <3>1. col = SubSeq(c, 1, k) /\ k = Len(c)
      BY <1>6 DEF SoFar
    <3>2. vis = Visited(aut, tr) /\ tr = normalize_trace(col, opt.protocol)
      OBVIOUS
    <3> HIDE DEF r, k, c, col, tr, vis
    <3>3. col = c
      <4> DEFINE E == EntryType(Program)
      <4>1. c \in Seq(E)
        BY <1>5
      <4> HIDE DEF E
      <4> QED BY <3>1, <4>1
    <3>4. col = Collected(Program, r.reads)
      BY <1>5, <3>3
    <3>5. /\ PathOf(vis) = PathFrom(aut, Program, r.reads)
          /\ Leads(aut, Program, PathOf(vis),
                   PrefixOf(col, vis, r.reads, opt.protocol))
      BY <1>4, <1>9, <3>2, <3>4, FoundLeads
    <3> QED BY <3>5 DEF aut
  <2>4. RunOK(found, opt, pc, sel)
    <3>1. l \in Stages /\ l # "none" /\ (~ opt.protocol => l = "find")
      BY DEF Stages, Locked
    <3> HIDE DEF r, k, c, col, tr, vis, path, x, l
    <3>2. /\ found \in RunType(opt) /\ found.at = l /\ found.by = r.by
          /\ found.path = path /\ found.prefix = x /\ found.reads = r.reads
      BY <1>1, <1>6, <2>2, <3>1 DEF RunType
    <3> HIDE DEF found
    <3>3. r.by # "none" /\ found.path # <<>>
      BY <1>1, <1>9, <3>2 DEF RunOK
    <3>4. ~ opt.protocol => /\ l \notin {"open", "append"}
                            /\ FoundOK(opt, found) /\ GivenOK(found, pc, sel)
      BY <1>1, <2>3, <3>1, <3>2 DEF RunOK, FoundOK, GivenOK
    <3> QED BY <3>1, <3>2, <3>3, <3>4 DEF RunOK
  <2> HIDE DEF found
  <2> QED BY <1>1, <1>2, <2>1, <2>4, TargetKeeps
<1> QED BY <1>3, <1>7, <1>8, <1>9

LEMMA NextInv == Inv /\ [Next]_vars => Inv'
<1> SUFFICES ASSUME Inv, [Next]_vars PROVE Inv'
  OBVIOUS
<1>1. CASE Driver
  BY <1>1, BudgetUsedInv, SelectPathInv, SelectPrefixInv,
     SelectPathAndPrefixInv, SelectEventInv, RunDirectlyInv,
     ProgramReturnsInv DEF Driver
<1>2. CASE AflRun
  BY <1>2, AflRunInv
<1>3. CASE SessionEnds
  BY <1>3, SessionEndsInv
<1>4. CASE Tick
  BY <1>4, TickInv
<1>5. ASSUME NEW t \in Target, Evaluate(t) PROVE Inv'
  BY <1>5, EvaluateInv
<1>6. ASSUME NEW t \in Target, Writes(t) PROVE Inv'
  <2>1. \/ Exit(t) \/ OpenFile(t) \/ AppendPrefix(t) \/ Lock(t) \/ Find(t)
        \/ Construct(t) \/ Store(t) \/ Add(t) \/ Link(t)
    BY <1>6 DEF Writes
  <2> QED BY <2>1, ExitInv, OpenFileInv, AppendPrefixInv, LockInv, FindInv,
             ConstructInv, StoreAddInv, LinkInv
<1>7. ASSUME NEW t \in Target, Kill(t) PROVE Inv'
  BY <1>7, KillInv
<1>8. CASE UNCHANGED vars
  BY <1>8 DEF vars, Inv, Scalars, Runs, driver, store
<1> QED BY <1>1, <1>2, <1>3, <1>4, <1>5, <1>6, <1>7, <1>8 DEF Next

LEMMA InvAlways == Spec => []Inv
<1>1. Init => Inv
  BY InitInv
<1>2. Inv /\ [Next]_vars => Inv'
  BY NextInv
<1> QED BY <1>1, <1>2, PTL DEF Spec

(* The variables have their types, whatever the program, the automaton and *)
(* the number of executions: a path in the table, in a prefix file or in   *)
(* the driver's hands is a nonempty sequence of states of the automaton.   *)
THEOREM TypeCorrect == Spec => []TypeOK
<1>1. Inv => TypeOK
  <2> SUFFICES ASSUME Inv PROVE TypeOK
    OBVIOUS
  <2>1. Path = PathIn(opt)
    BY DEF Path, PathIn, aut
  <2>2. DOMAIN table \subseteq Path
        /\ table \in [DOMAIN table -> SUBSET Seq(Input)]
    <3>1. /\ table = [p \in DOMAIN table |-> table[p]]
          /\ DOMAIN table \subseteq Path
          /\ \A p \in DOMAIN table : \A x \in table[p] : x \in Seq(Input)
      BY <2>1 DEF Inv, TableOK, PairOK
    <3>2. \A p \in DOMAIN table : table[p] \in SUBSET Seq(Input)
      BY <3>1
    <3> QED BY <3>1, <3>2
  <2>3. sel \in [path : Path, prefix : Seq(Input), event : Event \cup {<<>>}]
    BY <2>1 DEF Inv, SelOK, SelType
  <2>4. /\ proc \in [Target -> [at : Stages, reads : Seq(Input),
                                evaluated : Nat, path : Path \cup {<<>>},
                                prefix : Seq(Input), by : Owners]]
        /\ \A t \in Target : proc[t].by = "none" <=> proc[t].at = "none"
    <3> DEFINE R == RunType(opt)
    <3>1. /\ proc = [t \in Target |-> proc[t]]
          /\ \A t \in Target : proc[t] \in R
          /\ \A t \in Target : proc[t].by = "none" <=> proc[t].at = "none"
      BY DEF Inv, Runs, RunOK
    <3>2. R = [at : Stages, reads : Seq(Input), evaluated : Nat,
               path : Path \cup {<<>>}, prefix : Seq(Input), by : Owners]
      BY <2>1 DEF RunType
    <3> HIDE DEF R
    <3>3. proc \in [Target -> R]
      BY <3>1
    <3> QED BY <3>1, <3>2, <3>3
  <2> QED BY <2>2, <2>3, <2>4 DEF Inv, Scalars, TypeOK
<1> QED BY <1>1, InvAlways, PTL

(* Wherever targets are killed and sessions end, every path in the shared  *)
(* table has a prefix, so that select_prefix never chooses from nothing.   *)
THEOREM NoPathWithoutPrefix == Spec => []PathsHavePrefixes
<1>1. Inv => PathsHavePrefixes
  BY DEF Inv, TableOK, PathsHavePrefixes
<1> QED BY <1>1, InvAlways, PTL

LEMMA BeginsIsPrefix ==
    ASSUME NEW S, NEW c \in Seq(S), NEW T, NEW d \in Seq(T), Begins(c, d)
    PROVE  IsPrefix(c, d)
<1>1. /\ Len(c) \in Nat /\ Len(d) \in Nat /\ Len(c) <= Len(d)
      /\ \A j \in 1 .. Len(c) : c[j] = d[j]
  BY DEF Begins
<1> DEFINE n == Len(c)
           s == SubSeq(c, 1, n)
           t == SubSeq(d, 1, n)
<1>2. s = [j \in 1 .. n |-> c[j]] /\ t = [j \in 1 .. n |-> d[j]]
  OBVIOUS
<1>3. s = t
  BY <1>1, <1>2
<1> QED BY <1>1, <1>3 DEF IsPrefix

LEMMA PathFromIsSeq ==
    ASSUME NEW o \in Subjects, NEW xs \in Seq(Input)
    PROVE  PathFrom(o.aut, Program, xs) \in Seq(DOMAIN o.aut.out)
<1> DEFINE c == Collected(Program, xs)
           tr == normalize_trace(c, FALSE)
<1>1. IsProgram(Program) /\ IsAutomaton(o.aut, DOMAIN o.aut.out)
  BY CampaignAssumption DEF IsSubject
<1>2. Len(c) \in Nat
  <2>1. Len(xs) \in 0 .. Len(xs)
    OBVIOUS
  <2>2. c \in Seq(EntryType(Program))
    BY <1>1, <2>1, EntriesFacts DEF Collected
  <2> QED BY <2>2
<1> HIDE DEF c
<1>3. Len(tr) \in Nat
  BY <1>2, TraceIsList DEF IsList
<1> HIDE DEF tr
<1>4. PathOf(Visited(o.aut, tr)) \in Seq(DOMAIN o.aut.out)
  BY <1>1, <1>3, PathType
<1> QED BY <1>4 DEF PathFrom, tr, c

(* Of a RERS program, every completed execution of a session, whatever     *)
(* AFLGo has put behind the prefix and whoever wrote the table, follows    *)
(* the path that was selected for it.                                      *)
THEOREM RersFollows == Spec => []RersFollowsPath
<1>1. Inv => RersFollowsPath
  <2> SUFFICES ASSUME Inv, ~ opt.protocol, NEW t \in Target, Completed(t),
                      sel.path # InitPath
               PROVE  IsPrefix(sel.path, proc[t].path)
    BY DEF RersFollowsPath, SessionFollowsPath
  <2> DEFINE r == proc[t]
             p == sel.path
  <2>1. RunOK(r, opt, pc, sel) /\ r.by = "afl" /\ r.at \in Locked
    BY DEF Inv, Runs, Completed, At, Locked
  <2>2. /\ r.path = PathFrom(opt.aut, Program, r.reads)
        /\ pc = "afl" /\ \E ys \in Seq(Input) : r.reads = sel.prefix \o ys
    BY <2>1 DEF RunOK, FoundOK, GivenOK
  <2>3. p \in PathIn(opt) /\ Leads(opt.aut, Program, p, sel.prefix)
    BY <2>2 DEF Inv, SelOK, SelType
  <2>4. Begins(p, r.path)
    <3>1. PICK ys \in Seq(Input) : r.reads = sel.prefix \o ys
      BY <2>2
    <3>2. Begins(p, PathFrom(opt.aut, Program, sel.prefix \o ys))
      BY <2>3, <3>1 DEF Leads
    <3> QED BY <2>2, <3>1, <3>2
  <2>5. r.path \in Seq(DOMAIN opt.aut.out)
    <3>1. r.reads \in Seq(Input) /\ opt \in Subjects
      BY <2>1 DEF RunOK, RunType, Inv, Scalars
    <3> QED BY <2>2, <3>1, PathFromIsSeq
  <2>6. p \in Seq(DOMAIN opt.aut.out)
    BY <2>3 DEF PathIn
  <2> HIDE DEF p, r
  <2>7. IsPrefix(p, r.path)
    BY <2>4, <2>5, <2>6, BeginsIsPrefix
  <2> QED BY <2>7 DEF p, r
<1> QED BY <1>1, InvAlways, PTL

(* A prefix in the shared table leads the program along the path it is     *)
(* stored under, also when the input ends after it.                        *)
THEOREM RersPrefixesLead == Spec => [](~ opt.protocol => PrefixesLeadThere)
<1>1. Inv => (~ opt.protocol => PrefixesLeadThere)
  <2> SUFFICES ASSUME Inv, ~ opt.protocol,
                      NEW p \in DOMAIN table, NEW x \in table[p],
                      <<p, x>> # <<InitPath, NoPrefix>>
               PROVE  Extends(p, x)
    BY DEF PrefixesLeadThere
  <2>1. Leads(opt.aut, Program, p, x) /\ p \in PathIn(opt)
    BY DEF Inv, TableOK, PairOK
  <2>2. opt \in Subjects /\ opt.protocol = FALSE
    BY InitPathIsPath DEF Inv, Scalars
  <2>3. Program.eof \in Seq(Input) /\ x \in Seq(Input)
    BY <2>1, CampaignAssumption DEF IsProgram, Leads
  <2> DEFINE xs == x \o Program.eof
  <2>4. xs \in Seq(Input)
    BY <2>3
  <2>5. Begins(p, PathFrom(opt.aut, Program, xs))
    BY <2>1, <2>3 DEF Leads
  <2> HIDE DEF xs
  <2>6. PathFrom(opt.aut, Program, xs) \in Seq(DOMAIN opt.aut.out)
    BY <2>2, <2>4, PathFromIsSeq
  <2>7. p \in Seq(DOMAIN opt.aut.out)
    BY <2>1 DEF PathIn
  <2>8. IsPrefix(p, PathFrom(opt.aut, Program, xs))
    BY <2>5, <2>6, <2>7, BeginsIsPrefix
  <2>9. Extends(p, x) <=> IsPrefix(p, PathFrom(opt.aut, Program, xs))
    BY <2>2 DEF Extends, PathFrom, aut, xs
  <2> QED BY <2>8, <2>9
<1> QED BY <1>1, InvAlways, PTL

(* The automaton stays where it accepts: no edge leaves an accepting       *)
(* state, and each has one.                                                *)
AcceptanceStays == \A o \in Subjects : \A s \in o.aut.acc : Stays(o.aut, s)

(* Different states of the program have different hashes.                  *)
StatesToldApart ==
    \A s, u \in ProgramStates(Program) :
        Program.seen[s] = Program.seen[u] => s = u

(* With such an automaton and such hashes, a counterexample that a target  *)
(* reports is one, whatever the program, the input and how much of a       *)
(* protocol's trace is evaluated: although check_acceptance takes the loop *)
(* of the last state and not of the accepting one, only the last of its    *)
(* self loops, and any state with the same hash for the same state.        *)
THEOREM ReportsAreReal ==
    ASSUME AcceptanceStays, StatesToldApart
    PROVE  Spec => []CounterexampleIsReal
<1>1. Inv => CounterexampleIsReal
  <2> SUFFICES ASSUME Inv, NEW t \in Target,
                      ToEvaluate(t) <= Len(Columns(t)), Reports(t)
               PROVE  Violates(aut, Program, proc[t].reads, opt.protocol)
    BY DEF CounterexampleIsReal
  <2>1. /\ opt \in Subjects /\ IsSubject(opt) /\ IsProgram(Program)
    BY CampaignAssumption DEF Inv, Scalars
  <2> DEFINE S == DOMAIN aut.out
             xs == proc[t].reads
             c == Collected(Program, xs)
             n == ToEvaluate(t)
  <2>2. /\ IsAutomaton(aut, S) /\ IsFiniteSet(S) /\ opt.protocol \in BOOLEAN
        /\ \A s \in aut.acc : Stays(aut, s)
    BY <2>1 DEF IsSubject, aut, AcceptanceStays
  <2>3. xs \in Seq(Input) /\ proc[t].evaluated \in Nat
    BY DEF Inv, Runs, RunOK, RunType
  <2>4. n \in Nat /\ n <= Len(c)
    <3>1. Columns(t) = c
      BY DEF Columns
    <3>2. Len(c) \in Nat
      <4>1. Chain(Program, c, Len(xs))
        BY <2>1, <2>3, CollectedIsChain DEF Collected
      <4>2. c \in Seq(EntryType(Program))
        BY <4>1 DEF Chain
      <4> HIDE DEF c
      <4> QED BY <4>2
    <3> HIDE DEF c
    <3> QED BY <2>3, <3>1, <3>2 DEF ToEvaluate
  <2> DEFINE col == SubSeq(c, 1, n)
             tr == normalize_trace(col, opt.protocol)
             vis == Visited(aut, tr)
             path == PathOf(vis)
  <2>5. IsCounterexample(aut, col, tr, vis, path, opt.protocol)
    BY DEF Reports, TraceOf, SoFar, Columns
  <2> HIDE DEF n, xs, S
  <2>6. Violates(aut, Program, xs, opt.protocol)
    BY <2>1, <2>2, <2>3, <2>4, <2>5, ReportIsReal DEF StatesToldApart
  <2> QED BY <2>6 DEF xs
<1> QED BY <1>1, InvAlways, PTL
=============================================================================

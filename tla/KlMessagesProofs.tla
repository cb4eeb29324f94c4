-------------------------- MODULE KlMessagesProofs --------------------------
(***************************************************************************)
(* The message list of AFLGo for every protocol, every seed, every mutated *)
(* buffer and every answer of the server: what is in the list and in its   *)
(* pool of nodes between any two steps, and that it is the abstract list   *)
(* of MessageList.                                                         *)
(*                                                                         *)
(* The state of the list is described by constant-level operators on its   *)
(* value: Heap (nodes, pool and size), Way (the nodes from head to tail),  *)
(* Core (the session a way holds) and, of the session's three parts,       *)
(* IsSteady, IsPushing and IsFreeing.  IInv says which of them holds where *)
(* the fuzzer is.                                                          *)
(***************************************************************************)
EXTENDS KlMessages, SequenceTheorems, FiniteSetTheorems, TLAPS

-----------------------------------------------------------------------------
(* Naturals.                                                               *)

(* A nonempty set of naturals has a least element: the intervals 0..x are  *)
(* finite sets, and strict inclusion is well founded on those.             *)
LEMMA LeastElement ==
    ASSUME NEW T \in SUBSET Nat, T # {}
    PROVE  \E x \in T : \A y \in T : x <= y
<1> DEFINE F == {0 .. x : x \in T}
<1>1. F \subseteq FiniteSubsetsOf(Nat)
  <2> SUFFICES ASSUME NEW x \in T PROVE 0 .. x \in FiniteSubsetsOf(Nat)
    OBVIOUS
  <2>1. IsFiniteSet(0 .. x)
    BY FS_Interval
  <2>2. 0 .. x \in SUBSET Nat
    OBVIOUS
  <2> QED BY <2>1, <2>2 DEF FiniteSubsetsOf
<1>2. F # {}
  OBVIOUS
<1>3. PICK X \in F : \A Y \in F : ~ (<<Y, X>> \in StrictSubsetOrdering(Nat))
  <2> HIDE DEF F
  <2> QED BY <1>1, <1>2, FS_StrictSubsetOrderingWellFounded, WFMin
<1>4. PICK x \in T : X = 0 .. x
  BY <1>3
<1>5. ASSUME NEW y \in T, y < x PROVE FALSE
  <2> DEFINE Y == 0 .. y
  <2>1. Y \in F
    OBVIOUS
  <2>2. Y \subseteq X /\ Y # X
    BY <1>4, <1>5
  <2>3. Y \in SUBSET Nat /\ X \in SUBSET Nat
    BY <1>4
  <2>4. <<Y, X>> \in StrictSubsetOrdering(Nat)
    <3> HIDE DEF Y, F
    <3> QED BY <2>2, <2>3 DEF StrictSubsetOrdering
  <2> HIDE DEF Y, F
  <2> QED BY <1>3, <2>1, <2>4
<1> QED BY <1>5

(* Induction for a set of naturals.                                        *)
LEMMA SetInduction ==
    ASSUME NEW T \in SUBSET Nat, 0 \in T, \A n \in T : n + 1 \in T
    PROVE  T = Nat
<1> SUFFICES ASSUME Nat \ T # {} PROVE FALSE
  OBVIOUS
<1>1. PICK m \in Nat \ T : \A y \in Nat \ T : m <= y
  BY LeastElement
<1>2. m - 1 \in Nat
  BY <1>1
<1>3. m - 1 \in T
  BY <1>1, <1>2
<1> QED BY <1>1, <1>3

-----------------------------------------------------------------------------
(* Loops.                                                                  *)

(* What holds at first and is kept by every step holds throughout.         *)
LEMMA UpTo ==
    ASSUME NEW N \in Nat, NEW T \in SUBSET (0 .. N), 0 \in T,
           \A n \in 1 .. N : n - 1 \in T => n \in T
    PROVE  T = 0 .. N
<1> DEFINE U == {n \in Nat : n <= N => n \in T}
<1>1. 0 \in U
  OBVIOUS
<1>2. ASSUME NEW n \in U PROVE n + 1 \in U
  <2> SUFFICES ASSUME n + 1 <= N PROVE n + 1 \in T
    OBVIOUS
  <2>1. n + 1 \in 1 .. N /\ (n + 1) - 1 \in T
    OBVIOUS
  <2> QED BY <2>1
<1>3. U = Nat
  <2> HIDE DEF U
  <2>1. U \in SUBSET Nat
    BY DEF U
  <2> QED BY <1>1, <1>2, <2>1, SetInduction
<1>4. ASSUME NEW n \in 0 .. N PROVE n \in T
  <2>1. n \in U
    BY <1>3
  <2> QED BY <2>1
<1> QED BY <1>4

(* f holds the values of N steps from c.                                   *)
IsLoop(f, N, c, step) ==
    /\ f = [n \in 0 .. N |-> f[n]] /\ f[0] = c
    /\ \A n \in 1 .. N : f[n] = step[n][f[n - 1]]

(* They exist, and are of the type that the steps keep.                    *)
LEMMA LoopExists ==
    ASSUME NEW N \in Nat, NEW c, NEW step
    PROVE  \E f : IsLoop(f, N, c, step)
<1> DEFINE T == {m \in Nat : \E f : IsLoop(f, m, c, step)}
<1>1. 0 \in T
  <2> DEFINE f == [n \in 0 .. 0 |-> c]
  <2>1. IsLoop(f, 0, c, step)
    BY DEF IsLoop
  <2> HIDE DEF f
  <2> QED BY <2>1
<1>2. ASSUME NEW m \in T PROVE m + 1 \in T
  <2>1. PICK f : IsLoop(f, m, c, step)
    OBVIOUS
  <2> DEFINE g == [n \in 0 .. m + 1 |->
                     IF n = m + 1 THEN step[n][f[m]] ELSE f[n]]
  <2>2. m \in Nat
    OBVIOUS
  <2>3. \A n \in 0 .. m : g[n] = f[n]
    BY <2>2
  <2>4. g[m + 1] = step[m + 1][f[m]]
    BY <2>2
  <2>5. g = [n \in 0 .. m + 1 |-> g[n]]
    OBVIOUS
  <2> HIDE DEF g
  <2>6. g[0] = c
    BY <2>1, <2>2, <2>3 DEF IsLoop
  <2>7. ASSUME NEW n \in 1 .. m + 1 PROVE g[n] = step[n][g[n - 1]]
    <3>1. CASE n = m + 1
      <4>1. g[m] = f[m] /\ n - 1 = m
        BY <2>2, <2>3, <3>1
      <4> QED BY <2>4, <3>1, <4>1
    <3>2. CASE n # m + 1
      <4>1. n \in 1 .. m /\ n \in 0 .. m /\ n - 1 \in 0 .. m
        BY <2>2, <3>2
      <4>2. f[n] = step[n][f[n - 1]]
        BY <2>1, <4>1 DEF IsLoop
      <4> QED BY <2>3, <4>1, <4>2
    <3> QED BY <3>1, <3>2
  <2>8. IsLoop(g, m + 1, c, step)
    BY <2>5, <2>6, <2>7 DEF IsLoop
  <2> QED BY <2>2, <2>8
<1>3. T = Nat
  <2> HIDE DEF T
  <2>1. T \in SUBSET Nat
    BY DEF T
  <2> QED BY <1>1, <1>2, <2>1, SetInduction
<1> QED BY <1>3

(* What holds at first and is kept by every step holds throughout.         *)
LEMMA LoopType ==
    ASSUME NEW N \in Nat, NEW c, NEW step, NEW f, IsLoop(f, N, c, step),
           NEW T, c \in T,
           \A n \in 1 .. N : \A v \in T : step[n][v] \in T
    PROVE  \A n \in 0 .. N : f[n] \in T
<1> DEFINE U == {n \in 0 .. N : f[n] \in T}
<1>1. 0 \in U
  BY DEF IsLoop
<1>2. ASSUME NEW n \in 1 .. N, n - 1 \in U PROVE n \in U
  BY <1>2, SMTT(30) DEF IsLoop
<1>3. U = 0 .. N
  <2> HIDE DEF U
  <2>1. U \in SUBSET (0 .. N)
    BY DEF U
  <2> QED BY <1>1, <1>2, <2>1, UpTo
<1> QED BY <1>3

-----------------------------------------------------------------------------
(* Where regions end.                                                      *)

(* A byte is a natural, also behind the end of the buffer.                 *)
LEMMA ByteType ==
    ASSUME NEW buf \in Seq(Nat), NEW i \in Nat
    PROVE  Byte(buf, i) \in Nat
BY DEF Byte, Junk

(* The first element of a set, or the default when there is none.          *)
LEMMA FirstOrFacts ==
    ASSUME NEW lo \in Nat, NEW hi \in Int, NEW S \in SUBSET (lo .. hi),
           NEW default
    PROVE  \/ S = {} /\ FirstOr(S, default) = default
           \/ S # {} /\ FirstOr(S, default) \in S
<1>1. CASE S # {}
  <2>1. S \in SUBSET Nat
    OBVIOUS
  <2>2. \E x \in S : \A y \in S : x <= y
    BY <1>1, <2>1, LeastElement
  <2> QED BY <1>1, <2>2 DEF FirstOr, Least
<1> QED BY <1>1 DEF FirstOr

(* The 32 bits may be anything: a skip that leaves the buffer, or that has *)
(* its top bit set, ends at the last byte.                                 *)
LEMMA SkipFacts ==
    ASSUME NEW n \in Nat, NEW p \in Nat, p < n, NEW skip \in Int
    PROVE  EndOfSkip(n, p, skip) \in p - 1 .. n - 1
BY DEF EndOfSkip, ULess

(* The numbers in a buffer: 32 bits with a sign, 16 bits without.          *)
LEMMA NumberTypes ==
    ASSUME NEW buf \in Seq(Nat), NEW i \in Nat
    PROVE  U32(buf, i) \in Int /\ U16(buf, i) \in Nat
<1>1. /\ Byte(buf, i) \in Nat /\ Byte(buf, i + 1) \in Nat
      /\ Byte(buf, i + 2) \in Nat /\ Byte(buf, i + 3) \in Nat
  <2>1. i + 1 \in Nat /\ i + 2 \in Nat /\ i + 3 \in Nat
    OBVIOUS
  <2>2. \A x \in Nat : Byte(buf, x) \in Nat
    BY ByteType
  <2> QED BY <2>1, <2>2
<1> DEFINE top == IF Byte(buf, i) >= 128 THEN Byte(buf, i) - 256
                  ELSE Byte(buf, i)
<1>2. top \in Int
  BY <1>1
<1>3. U32(buf, i) = ((((top * 256 + Byte(buf, i + 1)) * 256
                        + Byte(buf, i + 2)) * 256) + Byte(buf, i + 3))
  BY DEF U32
<1>4. U16(buf, i) = 256 * Byte(buf, i) + Byte(buf, i + 1)
  BY DEF U16
<1>5. PICK a, b, c, d : /\ a = Byte(buf, i) /\ b = Byte(buf, i + 1)
                        /\ c = Byte(buf, i + 2) /\ d = Byte(buf, i + 3)
  OBVIOUS
<1> HIDE DEF top
<1>6. U32(buf, i) \in Int
  <2>1. U32(buf, i) = ((((top * 256 + b) * 256 + c) * 256) + d)
    BY <1>3, <1>5
  <2>2. b \in Int /\ c \in Int /\ d \in Int
    BY <1>1, <1>5
  <2>3. (top * 256 + b) * 256 + c \in Int
    BY <1>2, <2>2
  <2> QED BY <2>1, <2>2, <2>3
<1>7. U16(buf, i) \in Nat
  <2>1. U16(buf, i) = 256 * a + b /\ a \in Nat /\ b \in Nat
    BY <1>1, <1>4, <1>5
  <2> QED BY <2>1
<1> QED BY <1>6, <1>7

(* A region is not empty, and only a dns region reaches behind the buffer. *)
LEMMA EndOfFacts ==
    ASSUME NEW protocol \in Protocol, NEW buf \in Seq(Nat),
           NEW s \in Nat, s < Len(buf)
    PROVE  /\ EndOf(protocol, buf, s) \in s .. Len(buf) + 2
           /\ protocol # "dns" => EndOf(protocol, buf, s) <= Len(buf) - 1
<1> DEFINE n == Len(buf)
<1>0. n \in Nat /\ s \in 0 .. n - 1
  OBVIOUS
<1>1. EndOfLine(buf, s) \in s .. n - 1
  <2> DEFINE S == {e \in s + 2 .. n - 2 : Bytes(buf, e - 1, e) = CRLF}
  <2>1. S \in SUBSET (s + 2 .. n - 2) /\ s + 2 \in Nat /\ n - 2 \in Int
    BY <1>0
  <2>2. EndOfLine(buf, s) = FirstOr(S, n - 1)
    BY DEF EndOfLine
  <2> HIDE DEF S, n
  <2>3. FirstOr(S, n - 1) \in {n - 1} \cup (s + 2 .. n - 2)
    BY <2>1, FirstOrFacts
  <2> QED BY <1>0, <2>2, <2>3
<1>2. EndOfHeader(buf, s) \in s .. n - 1
  <2> DEFINE S == {e \in s + 4 .. n - 2 :
                     Bytes(buf, e - 3, e) = CRLF \o CRLF}
  <2>1. S \in SUBSET (s + 4 .. n - 2) /\ s + 4 \in Nat /\ n - 2 \in Int
    BY <1>0
  <2>2. EndOfHeader(buf, s) = FirstOr(S, n - 1)
    BY DEF EndOfHeader
  <2> HIDE DEF S, n
  <2>3. FirstOr(S, n - 1) \in {n - 1} \cup (s + 4 .. n - 2)
    BY <2>1, FirstOrFacts
  <2> QED BY <1>0, <2>2, <2>3
<1>3. EndOfSsh(buf, s) \in s .. n - 1
  <2> DEFINE S == {e \in s + 6 .. n - 1 : Bytes(buf, e - 1, e) = CRLF}
             rest == U32(buf, s) - 2
                       + (IF Byte(buf, s + 5) \in 20 .. 49 THEN 0 ELSE 8)
  <2>1. EndOfSsh(buf, s) = IF s + 6 > n - 2 THEN n - 1
                           ELSE IF Bytes(buf, s, s + 3) = SshName
                           THEN FirstOr(S, n - 1)
                           ELSE EndOfSkip(n, s + 6, rest)
    BY DEF EndOfSsh
  <2>2. S \in SUBSET (s + 6 .. n - 1) /\ s + 6 \in Nat /\ n - 1 \in Int
    BY <1>0
  <2>3. rest \in Int
    <3>1. U32(buf, s) \in Int
      BY NumberTypes
    <3>2. (IF Byte(buf, s + 5) \in 20 .. 49 THEN 0 ELSE 8) \in Int
      OBVIOUS
    <3> DEFINE x == U32(buf, s)
               y == IF Byte(buf, s + 5) \in 20 .. 49 THEN 0 ELSE 8
    <3> HIDE DEF x, y
    <3>3. x \in Int /\ y \in Int
      BY <3>1, <3>2 DEF x, y
    <3>4. x - 2 + y \in Int
      BY <3>3
    <3> QED BY <3>4 DEF x, y
  <2> HIDE DEF S, n, rest
  <2>4. FirstOr(S, n - 1) \in {n - 1} \cup (s + 6 .. n - 1)
    BY <2>2, FirstOrFacts
  <2>5. s + 6 <= n - 2 => EndOfSkip(n, s + 6, rest) \in s + 6 - 1 .. n - 1
    <3> SUFFICES ASSUME s + 6 <= n - 2
                 PROVE  EndOfSkip(n, s + 6, rest) \in s + 6 - 1 .. n - 1
      OBVIOUS
    <3>1. s + 6 \in Nat /\ s + 6 < n
      BY <1>0
    <3>2. \A p \in Nat, x \in Int : p < n => EndOfSkip(n, p, x) \in p - 1 .. n - 1
      BY <1>0, SkipFacts
    <3>3. PICK p \in Nat : p = s + 6
      BY <3>1
    <3>4. \A x \in Int : EndOfSkip(n, p, x) \in p - 1 .. n - 1
      BY <3>1, <3>2, <3>3
    <3>5. rest \in Int
      BY <2>3 DEF rest
    <3>6. EndOfSkip(n, p, rest) \in p - 1 .. n - 1
      BY <3>4, <3>5
    <3> QED BY <3>3, <3>6
  <2> QED BY <1>0, <2>1, <2>4, <2>5
<1>4. EndOfTls(buf, s) \in s .. n - 1
  <2>1. U16(buf, s + 3) \in Int
    BY NumberTypes
  <2>2. EndOfTls(buf, s) = IF s + 5 > n - 2 THEN n - 1
                           ELSE EndOfSkip(n, s + 5, U16(buf, s + 3))
    BY DEF EndOfTls
  <2> HIDE DEF n
  <2>3. s + 5 <= n - 2 =>
          EndOfSkip(n, s + 5, U16(buf, s + 3)) \in s + 5 - 1 .. n - 1
    <3> SUFFICES ASSUME s + 5 <= n - 2
                 PROVE  EndOfSkip(n, s + 5, U16(buf, s + 3))
                          \in s + 5 - 1 .. n - 1
      OBVIOUS
    <3>1. s + 5 \in Nat /\ s + 5 < n
      BY <1>0
    <3>2. \A p \in Nat, x \in Int : p < n => EndOfSkip(n, p, x) \in p - 1 .. n - 1
      BY <1>0, SkipFacts
    <3> QED BY <2>1, <3>1, <3>2
  <2> QED BY <1>0, <2>2, <2>3
<1>5. EndOfDicom(buf, s) \in s .. n - 1
  <2>1. U32(buf, s + 2) \in Int
    BY NumberTypes
  <2> QED BY <1>0, <2>1, SMTT(30) DEF EndOfDicom, ULess
<1>6. EndOfDns(buf, s) \in s .. n + 2
  <2> DEFINE S == {e \in s + 12 .. n - 2 : Byte(buf, e) = 0}
  <2>1. S \in SUBSET (s + 12 .. n - 2) /\ S \in SUBSET Nat
    BY <1>0
  <2>2. EndOfDns(buf, s) = IF S = {} THEN n - 1 ELSE Least(S) + 4
    BY DEF EndOfDns
  <2> HIDE DEF S, n
  <2>3. S # {} => Least(S) \in S
    BY <2>1, LeastElement DEF Least
  <2>4. CASE S = {}
    BY <1>0, <2>2, <2>4
  <2>5. CASE S # {}
    <3>1. Least(S) \in s + 12 .. n - 2
      BY <2>1, <2>3, <2>5
    <3> QED BY <1>0, <2>2, <2>5, <3>1
  <2> QED BY <2>4, <2>5
<1>7. EndOfDtls(buf, s) \in s .. n - 1
  <2> DEFINE S == {b \in s + 1 .. n - 2 : b > 3 /\ DtlsRecord(buf, b)}
  <2>1. S \in SUBSET (s + 1 .. n - 2) /\ s + 1 \in Nat /\ n - 2 \in Int
    BY <1>0
  <2>2. EndOfDtls(buf, s) = FirstOr(S, n) - 1
    BY DEF EndOfDtls
  <2> HIDE DEF S, n
  <2>3. FirstOr(S, n) \in {n} \cup (s + 1 .. n - 2)
    BY <2>1, FirstOrFacts
  <2> QED BY <1>0, <2>2, <2>3
<1> HIDE DEF n
<1>8. \A e : e \in s .. n - 1 => e \in s .. n + 2 /\ e <= n - 1
  BY <1>0
<1>9. /\ EndOf(protocol, buf, s) \in s .. n + 2
      /\ protocol # "dns" => EndOf(protocol, buf, s) <= n - 1
  <2>1. CASE protocol = "smtp"
    <3>1. EndOf(protocol, buf, s) = EndOfLine(buf, s)
      BY <2>1 DEF EndOf
    <3> QED BY <1>1, <1>8, <2>1, <3>1
  <2>2. CASE protocol = "ftp"
    <3>1. EndOf(protocol, buf, s) = EndOfLine(buf, s)
      BY <2>2 DEF EndOf, EndOfFtp
    <3> QED BY <1>1, <1>8, <2>2, <3>1
  <2>3. CASE protocol = "telnet"
    <3>1. EndOf(protocol, buf, s) = EndOfLine(buf, s)
      BY <2>3 DEF EndOf, EndOfTelnet
    <3> QED BY <1>1, <1>8, <2>3, <3>1
  <2>4. CASE protocol = "rtsp"
    <3>1. EndOf(protocol, buf, s) = EndOfHeader(buf, s)
      BY <2>4 DEF EndOf
    <3> QED BY <1>2, <1>8, <2>4, <3>1
  <2>5. CASE protocol = "ssh"
    <3>1. EndOf(protocol, buf, s) = EndOfSsh(buf, s)
      BY <2>5 DEF EndOf
    <3> QED BY <1>3, <1>8, <2>5, <3>1
  <2>6. CASE protocol = "tls"
    <3>1. EndOf(protocol, buf, s) = EndOfTls(buf, s)
      BY <2>6 DEF EndOf
    <3> QED BY <1>4, <1>8, <2>6, <3>1
  <2>7. CASE protocol = "dicom"
    <3>1. EndOf(protocol, buf, s) = EndOfDicom(buf, s)
      BY <2>7 DEF EndOf
    <3> QED BY <1>5, <1>8, <2>7, <3>1
  <2>8. CASE protocol = "dns"
    <3>1. EndOf(protocol, buf, s) = EndOfDns(buf, s)
      BY <2>8 DEF EndOf
    <3> QED BY <1>6, <1>8, <2>8, <3>1
  <2>9. CASE protocol = "dtls12"
    <3>1. EndOf(protocol, buf, s) = EndOfDtls(buf, s)
      BY <2>9 DEF EndOf
    <3> QED BY <1>7, <1>8, <2>9, <3>1
  <2> QED BY <2>1, <2>2, <2>3, <2>4, <2>5, <2>6, <2>7, <2>8, <2>9
          DEF Protocol
<1> QED BY <1>9 DEF n

-----------------------------------------------------------------------------
(* Chains of links.                                                        *)

(* The links of Chain, as the recursive function says.                     *)
ChainLinks(next, D, n, links) ==
    /\ links \in [0 .. n -> [D -> Seq(D)]]
    /\ \A p \in D : links[0][p] = <<>>
    /\ \A k \in 1 .. n : \A p \in D :
         links[k][p] = IF next[p] = p THEN <<>>
                       ELSE <<p>> \o links[k - 1][next[p]]

(* The recursive function of Chain is defined.                             *)
LEMMA ChainExists ==
    ASSUME NEW D, NEW next \in [D -> D], NEW n \in Nat, NEW a \in D
    PROVE  \E links : /\ ChainLinks(next, D, n, links)
                      /\ Chain(next, a, n) = links[n][a]
<1> DEFINE G == [D -> Seq(D)]
           eq(f) == [k \in 0 .. n |->
                       [p \in DOMAIN next |->
                          IF k = 0 \/ next[p] = p THEN <<>>
                          ELSE <<p>> \o f[k - 1][next[p]]]]
           start == [p \in D |-> <<>>]
           more(g) == [p \in D |-> IF next[p] = p THEN <<>>
                                   ELSE <<p>> \o g[next[p]]]
           step == [k \in 1 .. n |-> [g \in G |-> more(g)]]
<1>1. start \in G
  OBVIOUS
<1>2. ASSUME NEW g \in G PROVE more(g) \in G
  <2>1. ASSUME NEW p \in D
        PROVE  (IF next[p] = p THEN <<>> ELSE <<p>> \o g[next[p]]) \in Seq(D)
    <3>1. g[next[p]] \in Seq(D) /\ <<p>> \in Seq(D)
      OBVIOUS
    <3> QED BY <3>1
  <2> QED BY <2>1
<1>3. \A k \in 1 .. n : \A g \in G : step[k][g] = more(g)
  OBVIOUS
<1> HIDE DEF step
<1>4. PICK f : IsLoop(f, n, start, step)
  BY LoopExists
<1>5. \A k \in 0 .. n : f[k] \in G
  <2> DEFINE U == {k \in 0 .. n : f[k] \in G}
  <2>1. 0 \in U
    <3> HIDE DEF G, start
    <3> QED BY <1>1, <1>4 DEF IsLoop
  <2>2. ASSUME NEW k \in 1 .. n, k - 1 \in U PROVE k \in U
    <3> HIDE DEF G, more
    <3>1. f[k] = step[k][f[k - 1]]
      BY <1>4 DEF IsLoop
    <3>2. f[k] = more(f[k - 1]) /\ f[k - 1] \in G
      BY <1>3, <2>2, <3>1
    <3> QED BY <1>2, <3>2
  <2>3. U \in SUBSET (0 .. n)
    OBVIOUS
  <2> HIDE DEF U
  <2>4. U = 0 .. n
    BY <2>1, <2>2, <2>3, UpTo
  <2> QED BY <2>4 DEF U
<1>6. \A k \in 1 .. n : f[k] = more(f[k - 1])
  <2> TAKE k \in 1 .. n
  <2> HIDE DEF G, more
  <2>1. k - 1 \in 0 .. n
    OBVIOUS
  <2> QED BY <1>3, <1>4, <1>5, <2>1 DEF IsLoop
<1>7. f = eq(f)
  <2>1. f = [k \in 0 .. n |-> f[k]] /\ f[0] = start
    BY <1>4 DEF IsLoop
  <2>2. ASSUME NEW k \in 0 .. n
        PROVE  f[k] = [p \in DOMAIN next |->
                          IF k = 0 \/ next[p] = p THEN <<>>
                          ELSE <<p>> \o f[k - 1][next[p]]]
    <3>1. CASE k = 0
      BY <2>1, <3>1
    <3>2. CASE k # 0
      <4>1. k \in 1 .. n
        BY <3>2
      <4> QED BY <1>6, <3>2, <4>1
    <3> QED BY <3>1, <3>2
  <2> QED BY <2>1, <2>2
<1> DEFINE links == CHOOSE g : g = eq(g)
<1>8. links = eq(links)
  BY <1>7
<1>9. Chain(next, a, n) = links[n][a]
  BY DEF Chain
<1> HIDE DEF links
<1>10. links[0] = start
  <2>1. eq(links)[0] = start
    <3>1. DOMAIN next = D /\ 0 \in 0 .. n
      OBVIOUS
    <3>2. eq(links)[0] = [p \in D |-> IF 0 = 0 \/ next[p] = p THEN <<>>
                                     ELSE <<p>> \o links[0 - 1][next[p]]]
      BY <3>1
    <3>3. \A p \in D : (IF 0 = 0 \/ next[p] = p THEN <<>>
                        ELSE <<p>> \o links[0 - 1][next[p]]) = <<>>
      OBVIOUS
    <3> HIDE DEF eq
    <3> QED BY <3>2, <3>3
  <2> HIDE DEF eq, start
  <2> QED BY <1>8, <2>1
<1>11. ASSUME NEW k \in 1 .. n PROVE links[k] = more(links[k - 1])
  <2>1. eq(links)[k] = more(links[k - 1])
    <3>1. DOMAIN next = D /\ k \in 0 .. n /\ k # 0
      OBVIOUS
    <3>2. eq(links)[k] = [p \in D |-> IF k = 0 \/ next[p] = p THEN <<>>
                                     ELSE <<p>> \o links[k - 1][next[p]]]
      BY <3>1
    <3>3. \A p \in D : (IF k = 0 \/ next[p] = p THEN <<>>
                        ELSE <<p>> \o links[k - 1][next[p]])
                     = (IF next[p] = p THEN <<>>
                        ELSE <<p>> \o links[k - 1][next[p]])
      BY <3>1
    <3> HIDE DEF eq
    <3> QED BY <3>2, <3>3
  <2> HIDE DEF eq, more
  <2> QED BY <1>8, <2>1
<1>12. \A k \in 0 .. n : links[k] \in G
  <2> DEFINE U == {k \in 0 .. n : links[k] \in G}
  <2>1. 0 \in U
    <3> HIDE DEF G, start
    <3> QED BY <1>1, <1>10
  <2>2. ASSUME NEW k \in 1 .. n, k - 1 \in U PROVE k \in U
    <3> HIDE DEF G, more
    <3>2. links[k] = more(links[k - 1]) /\ links[k - 1] \in G
      BY <1>11, <2>2
    <3> QED BY <1>2, <3>2
  <2>3. U \in SUBSET (0 .. n)
    OBVIOUS
  <2> HIDE DEF U
  <2>4. U = 0 .. n
    BY <2>1, <2>2, <2>3, UpTo
  <2> QED BY <2>4 DEF U
<1>13. links \in [0 .. n -> G]
  <2>1. links = [k \in 0 .. n |-> links[k]]
    <3>1. eq(links) = [k \in 0 .. n |-> eq(links)[k]]
      OBVIOUS
    <3> HIDE DEF eq
    <3> QED BY <1>8, <3>1
  <2> HIDE DEF G
  <2> QED BY <1>12, <2>1
<1>14. \A p \in D : links[0][p] = <<>>
  BY <1>10
<1>15. \A k \in 1 .. n : \A p \in D :
         links[k][p] = IF next[p] = p THEN <<>>
                       ELSE <<p>> \o links[k - 1][next[p]]
  <2> TAKE k \in 1 .. n
  <2>1. links[k] = more(links[k - 1])
    BY <1>11
  <2> QED BY <2>1
<1> QED BY <1>9, <1>13, <1>14, <1>15 DEF ChainLinks

(* W is what next leads through, up to the node where it stays.            *)
IsWay(next, W) ==
    /\ \A x \in 1 .. Len(W) - 1 : next[W[x]] = W[x + 1] /\ W[x + 1] # W[x]
    /\ next[W[Len(W)]] = W[Len(W)]

(* Then the chain is that way, without its end.                            *)
LEMMA ChainIsWay ==
    ASSUME NEW D, NEW next \in [D -> D], NEW n \in Nat,
           NEW W \in Seq(D), W # <<>>, Len(W) <= n + 1, IsWay(next, W)
    PROVE  Chain(next, W[1], n) = [z \in 1 .. Len(W) - 1 |-> W[z]]
<1> DEFINE m == Len(W)
<1>0. m \in Nat \ {0} /\ \A x \in 1 .. m : W[x] \in D
  OBVIOUS
<1> HIDE DEF m
<1>1. W[1] \in D
  BY <1>0
<1>2. PICK links : /\ ChainLinks(next, D, n, links)
                   /\ Chain(next, W[1], n) = links[n][W[1]]
  BY <1>1, ChainExists, SMTT(30)
<1> DEFINE rest(x) == [z \in 1 .. m - x |-> W[x + z - 1]]
           T == {k \in 0 .. n : \A x \in 1 .. m :
                   m - x <= k => links[k][W[x]] = rest(x)}
<1>3. rest(m) = <<>>
  BY <1>0
<1>4. \A x \in 1 .. m : m - x <= 0 => x = m
  BY <1>0
<1>5. 0 \in T
  <2> SUFFICES ASSUME NEW x \in 1 .. m, m - x <= 0
               PROVE  links[0][W[x]] = rest(x)
    OBVIOUS
  <2>1. x = m /\ links[0][W[x]] = <<>>
    BY <1>0, <1>2, <1>4 DEF ChainLinks
  <2> HIDE DEF rest
  <2> QED BY <1>3, <2>1
<1>6. ASSUME NEW k \in 1 .. n, k - 1 \in T PROVE k \in T
  <2> SUFFICES ASSUME NEW x \in 1 .. m, m - x <= k
               PROVE  links[k][W[x]] = rest(x)
    OBVIOUS
  <2>1. links[k][W[x]] = IF next[W[x]] = W[x] THEN <<>>
                         ELSE <<W[x]>> \o links[k - 1][next[W[x]]]
    BY <1>0, <1>2 DEF ChainLinks
  <2>2. CASE x = m
    <3>1. next[W[x]] = W[x]
      BY <2>2 DEF IsWay, m
    <3> QED BY <1>3, <2>1, <2>2, <3>1
  <2>3. CASE x # m
    <3>1. x \in 1 .. m - 1 /\ x + 1 \in 1 .. m /\ m - (x + 1) <= k - 1
      BY <1>0, <2>3
    <3>2. next[W[x]] = W[x + 1] /\ W[x + 1] # W[x]
      BY <3>1 DEF IsWay, m
    <3>3. links[k - 1][W[x + 1]] = rest(x + 1)
      <4> HIDE DEF rest
      <4> QED BY <1>6, <3>1
    <3>4. links[k][W[x]] = <<W[x]>> \o rest(x + 1)
      <4> HIDE DEF rest
      <4> QED BY <2>1, <3>2, <3>3
    <3>5. <<W[x]>> \o rest(x + 1) = rest(x)
      <4>1. rest(x + 1) \in Seq(D) /\ Len(rest(x + 1)) = m - (x + 1)
        <5>1. m - (x + 1) \in Nat
          BY <1>0, <3>1
        <5>2. \A z \in 1 .. m - (x + 1) : W[x + 1 + z - 1] \in D
          BY <1>0, <3>1
        <5> QED BY <5>1, <5>2
      <4>2. /\ Len(<<W[x]>> \o rest(x + 1)) = m - x
            /\ <<W[x]>> \o rest(x + 1) \in Seq(D)
        <5> HIDE DEF rest
        <5>1. <<W[x]>> \in Seq(D)
          BY <1>0
        <5> QED BY <1>0, <3>1, <4>1, <5>1
      <4>3. ASSUME NEW z \in 1 .. m - x
            PROVE  (<<W[x]>> \o rest(x + 1))[z] = W[x + z - 1]
        <5>1. CASE z = 1
          <6> HIDE DEF rest
          <6> QED BY <4>1, <5>1
        <5>2. CASE z # 1
          <6>1. z - 1 \in 1 .. m - (x + 1)
            BY <1>0, <5>2
          <6>2. (<<W[x]>> \o rest(x + 1))[z] = rest(x + 1)[z - 1]
            <7> HIDE DEF rest
            <7>1. <<W[x]>> \in Seq(D) /\ Len(<<W[x]>>) = 1
              BY <1>0
            <7>2. z \in 1 .. Len(<<W[x]>>) + Len(rest(x + 1)) /\ ~ (z <= 1)
              BY <1>0, <4>1, <5>2, <7>1
            <7> QED BY <4>1, <7>1, <7>2
          <6>3. rest(x + 1)[z - 1] = W[x + 1 + (z - 1) - 1]
            BY <6>1
          <6>4. x + 1 + (z - 1) - 1 = x + z - 1
            BY <1>0
          <6> QED BY <6>2, <6>3, <6>4
        <5> QED BY <5>1, <5>2
      <4> DEFINE q == <<W[x]>> \o rest(x + 1)
      <4>4. q = [z \in 1 .. m - x |-> q[z]]
        <5> HIDE DEF q
        <5>1. q \in Seq(D) /\ Len(q) = m - x
          BY <4>2 DEF q
        <5> HIDE DEF m
        <5> QED BY <5>1
      <4> HIDE DEF q
      <4> QED BY <4>3, <4>4 DEF q
    <3> QED BY <3>4, <3>5
  <2> QED BY <2>2, <2>3
<1>7. T = 0 .. n
  <2>1. T \in SUBSET (0 .. n)
    OBVIOUS
  <2> HIDE DEF T
  <2> QED BY <1>5, <1>6, <2>1, UpTo
<1>8. links[n][W[1]] = rest(1)
  <2>1. n \in 0 .. n /\ 1 \in 1 .. m /\ m - 1 <= n
    BY <1>0 DEF m
  <2>2. n \in T
    BY <1>7, <2>1
  <2> HIDE DEF rest
  <2> QED BY <2>1, <2>2
<1>9. rest(1) = [z \in 1 .. m - 1 |-> W[z]]
  BY <1>0
<1> QED BY <1>2, <1>8, <1>9 DEF m

-----------------------------------------------------------------------------
(* The list and its pool.                                                  *)

(* A sequence without its last element.                                    *)
LEMMA FrontFacts ==
    ASSUME NEW T, NEW s \in Seq(T), s # <<>>
    PROVE  /\ Front(s) \in Seq(T) /\ Len(Front(s)) = Len(s) - 1
           /\ \A x \in 1 .. Len(s) - 1 : Front(s)[x] = s[x]
<1> DEFINE m == Len(s) - 1
<1>1. m \in Nat /\ m + 1 = Len(s) /\ \A x \in 1 .. m : x \in 1 .. Len(s)
  OBVIOUS
<1>2. Front(s) = SubSeq(s, 1, m)
  BY DEF Front
<1>3. SubSeq(s, 1, m) = [x \in 1 .. m |-> s[x]]
  BY <1>1
<1>4. \A x \in 1 .. m : s[x] \in T
  BY <1>1
<1> HIDE DEF m
<1>5. [x \in 1 .. m |-> s[x]] \in Seq(T) /\ Len([x \in 1 .. m |-> s[x]]) = m
  BY <1>1, <1>4
<1> QED BY <1>2, <1>3, <1>5 DEF m

NodeType == [next : Nat, data : Seq(Nat), live : BOOLEAN]
ListType == [node : Seq(NodeType), head : Nat, tail : Nat, pool : Seq(Nat),
             size : Nat]

(* S are the nodes whose messages are allocated.                           *)
Heap(list, S) ==
    /\ list \in ListType
    /\ list.tail \in 1 .. Len(list.node)
    /\ S \subseteq (1 .. Len(list.node)) \ {list.tail}
    /\ list.size = Cardinality(S)
    /\ \A p \in 1 .. Len(list.node) :
         /\ list.node[p].next \in 0 .. Len(list.node)
         /\ list.node[p].live <=> p \in S
    /\ \A x \in 1 .. Len(list.pool) :
         /\ list.pool[x] \in 1 .. Len(list.node)
         /\ list.pool[x] \notin S /\ list.pool[x] # list.tail
         /\ \A y \in 1 .. Len(list.pool) :
              list.pool[x] = list.pool[y] => x = y

(* The nodes of W, each once, are linked in this order.                    *)
Linked(list, W) ==
    /\ W \in Seq(1 .. Len(list.node)) /\ W # <<>>
    /\ \A x, y \in 1 .. Len(W) : W[x] = W[y] => x = y
    /\ \A x \in 1 .. Len(W) - 1 : list.node[W[x]].next = W[x + 1]

(* W is the list from the head to the tail.                                *)
Way(list, W) ==
    /\ Linked(list, W)
    /\ W[1] = list.head /\ W[Len(W)] = list.tail

(* The nodes of W but for the last one.                                    *)
Inner(W) == {W[x] : x \in 1 .. Len(W) - 1}

(* Records with new fields.                                                *)
LEMMA ListUpdate ==
    ASSUME NEW list \in ListType, NEW a, NEW b, NEW c, NEW d
    PROVE  LET new == [list EXCEPT !.node = a, !.tail = b, !.pool = c,
                                   !.size = d]
           IN  /\ new.node = a /\ new.tail = b /\ new.pool = c /\ new.size = d
               /\ new.head = list.head
BY DEF ListType

(* An update of these fields leaves a list.                                *)
LEMMA ListUpdateType ==
    ASSUME NEW list \in ListType, NEW a \in Seq(NodeType), NEW b \in Nat,
           NEW c \in Seq(Nat), NEW d \in Nat
    PROVE  [list EXCEPT !.node = a, !.tail = b, !.pool = c, !.size = d]
             \in ListType
BY DEF ListType

(* What a push makes of the fields.                                        *)
LEMMA PushFields ==
    ASSUME NEW list \in ListType, NEW m \in Seq(Nat),
           list.tail \in 1 .. Len(list.node)
    PROVE  LET new   == kl_pushp(list, m)
               fresh == list.pool = <<>>
               p     == IF fresh THEN Len(list.node) + 1 ELSE Last(list.pool)
               heap  == IF fresh THEN Append(list.node, Blank) ELSE list.node
           IN  /\ new.head = list.head /\ new.tail = p
               /\ new.size = list.size + 1
               /\ new.pool = IF fresh THEN list.pool ELSE Front(list.pool)
               /\ new.node = [heap EXCEPT
                               ![p].next = Null,
                               ![list.tail] = [next |-> p, data |-> m,
                                               live |-> TRUE]]
               /\ /\ new.node \in Seq(NodeType) /\ new.tail \in Nat
                  /\ new.pool \in Seq(Nat) /\ new.size \in Nat
                  => new \in ListType
<1> DEFINE fresh == list.pool = <<>>
           p     == IF fresh THEN Len(list.node) + 1 ELSE Last(list.pool)
           heap  == IF fresh THEN Append(list.node, Blank) ELSE list.node
           cells == [heap EXCEPT ![p].next = Null,
                                 ![list.tail] = [next |-> p, data |-> m,
                                                 live |-> TRUE]]
           pool  == IF fresh THEN list.pool ELSE Front(list.pool)
           size  == list.size + 1
           new   == [list EXCEPT !.node = cells, !.tail = p, !.pool = pool,
                                 !.size = size]
<1>1. kl_pushp(list, m) = new
  BY DEF kl_pushp
<1> HIDE DEF cells, p, pool, size
<1>2. /\ new.head = list.head /\ new.tail = p /\ new.size = size
      /\ new.pool = pool /\ new.node = cells
  BY ListUpdate
<1>3. (/\ cells \in Seq(NodeType) /\ p \in Nat /\ pool \in Seq(Nat)
       /\ size \in Nat) => new \in ListType
  BY ListUpdateType
<1> HIDE DEF new
<1> QED BY <1>1, <1>2, <1>3 DEF cells, p, pool, size

(* Pushing m to a list whose nodes are W and whose heap holds S.           *)
Pushed(list, S, W, m, new) ==
    /\ Heap(new, S \cup {list.tail})
    /\ Way(new, Append(W, new.tail))
    /\ Inner(Append(W, new.tail)) = Inner(W) \cup {list.tail}
    /\ new.head = list.head
    /\ Len(list.node) <= Len(new.node)
    /\ \A q \in S : new.node[q] = list.node[q]
    /\ new.node[list.tail].data = m
    /\ new.node[list.tail].next = new.tail

(* A message more: the tail becomes a message, and a node that no message  *)
(* is in becomes the tail.                                                 *)
LEMMA PushKeeps ==
    ASSUME NEW list, NEW S, Heap(list, S), NEW m \in Seq(Nat),
           NEW W, Way(list, W), Inner(W) \subseteq S, NEW new,
           new = kl_pushp(list, m)
    PROVE  Pushed(list, S, W, m, new)
<1> DEFINE n == Len(list.node)
           fresh == list.pool = <<>>
           p == IF fresh THEN n + 1 ELSE Last(list.pool)
           heap == IF fresh THEN Append(list.node, Blank) ELSE list.node
           n1 == IF fresh THEN n + 1 ELSE n
<1>1. /\ list \in ListType /\ list.node \in Seq(NodeType) /\ n \in Nat
      /\ list.pool \in Seq(Nat) /\ list.size \in Nat
      /\ list.tail \in 1 .. n
  BY DEF Heap, ListType
<1>2. p \in 1 .. n1 /\ p \notin S /\ p # list.tail /\ n1 \in Nat /\ n <= n1
  <2>1. CASE fresh
    BY <1>1, <2>1 DEF Heap
  <2>2. CASE ~ fresh
    <3>1. Len(list.pool) \in 1 .. Len(list.pool)
      BY <1>1, <2>2
    <3>2. Last(list.pool) = list.pool[Len(list.pool)]
      BY DEF Last
    <3> QED BY <1>1, <2>2, <3>1, <3>2 DEF Heap
  <2> QED BY <2>1, <2>2
<1>3. Blank \in NodeType
  BY DEF Blank, Null, NodeType
<1>4. heap \in Seq(NodeType) /\ Len(heap) = n1
      /\ \A q \in 1 .. n : heap[q] = list.node[q]
  BY <1>1, <1>3
<1>5. fresh => heap[p] = Blank
  BY <1>1
<1>6. /\ new.head = list.head /\ new.tail = p /\ new.size = list.size + 1
      /\ new.pool = IF fresh THEN list.pool ELSE Front(list.pool)
      /\ new.node = [heap EXCEPT ![p].next = Null,
                        ![list.tail] = [next |-> p, data |-> m, live |-> TRUE]]
      /\ /\ new.node \in Seq(NodeType) /\ new.tail \in Nat
         /\ new.pool \in Seq(Nat) /\ new.size \in Nat
         => new \in ListType
  BY <1>1, PushFields
<1> HIDE DEF p, heap
<1>7. /\ DOMAIN new.node = 1 .. n1
      /\ new.node[list.tail] = [next |-> p, data |-> m, live |-> TRUE]
      /\ new.node[p] = [heap[p] EXCEPT !.next = Null]
      /\ \A q \in 1 .. n1 : q # p /\ q # list.tail => new.node[q] = heap[q]
  <2>1. DOMAIN heap = 1 .. n1
    BY <1>4
  <2>2. list.tail \in 1 .. n1
    BY <1>1, <1>2
  <2> HIDE DEF n1
  <2> QED BY <1>2, <1>6, <2>1, <2>2
<1>8. \A q \in 1 .. n1 : heap[q] \in NodeType
  BY <1>4
<1> HIDE DEF n1, n, fresh
<1>9. /\ new.node[list.tail] \in NodeType
      /\ new.node[list.tail].next = p /\ new.node[list.tail].data = m
      /\ new.node[list.tail].live
  BY <1>2, <1>7 DEF NodeType
<1>10. /\ new.node[p] \in NodeType
       /\ new.node[p].next = 0
       /\ new.node[p].live = heap[p].live
  BY <1>2, <1>7, <1>8, SMTT(30) DEF NodeType, Null
<1>11. new.node \in Seq(NodeType) /\ Len(new.node) = n1
  <2>1. \A q \in 1 .. n1 : new.node[q] \in NodeType
    BY <1>7, <1>8, <1>9, <1>10
  <2>2. new.node = [q \in 1 .. n1 |-> new.node[q]]
    <3>1. DOMAIN heap = 1 .. n1
      BY <1>4
    <3> QED BY <1>6, <3>1
  <2> QED BY <1>2, <2>1, <2>2
<1>12. new \in ListType
  <2>1. ~ fresh => Front(list.pool) \in Seq(Nat)
    BY <1>1, FrontFacts DEF fresh
  <2>2. new.tail \in Nat /\ new.size \in Nat /\ new.pool \in Seq(Nat)
    BY <1>1, <1>2, <1>6, <2>1
  <2> QED BY <1>6, <1>11, <2>2
<1>13. \A q \in S : new.node[q] = list.node[q] /\ q \in 1 .. n /\ q \in 1 .. n1
                   /\ q # list.tail /\ q # p
  <2> TAKE q \in S
  <2>1. q \in 1 .. n /\ q \in 1 .. n1 /\ q # list.tail /\ q # p
    BY <1>1, <1>2 DEF Heap, n
  <2> QED BY <1>4, <1>7, <2>1
<1>14. /\ IsFiniteSet(S)
       /\ Cardinality(S \cup {list.tail}) = Cardinality(S) + 1
  <2>1. IsFiniteSet(S)
    <3>1. S \subseteq 1 .. n
      BY DEF Heap, n
    <3>2. IsFiniteSet(1 .. n)
      BY <1>1, FS_Interval
    <3> QED BY <3>1, <3>2, FS_Subset
  <2>2. list.tail \notin S
    BY DEF Heap
  <2> QED BY <2>1, <2>2, FS_AddElement
<1>15. ASSUME NEW q \in 1 .. n1
       PROVE  /\ new.node[q].next \in 0 .. n1
              /\ new.node[q].live <=> q \in S \cup {list.tail}
  <2>1. CASE q = list.tail
    BY <1>2, <1>9, <2>1
  <2>2. CASE q = p
    <3>1. ~ heap[p].live
      <4>1. CASE fresh
        BY <1>5, <4>1 DEF Blank
      <4>2. CASE ~ fresh
        BY <1>2, <1>4, <4>2 DEF Heap, n1, n
      <4> QED BY <4>1, <4>2
    <3> QED BY <1>2, <1>10, <2>2, <3>1
  <2>3. CASE q # p /\ q # list.tail
    <3>1. q \in 1 .. n
      <4>1. CASE fresh
        <5>1. p = n + 1 /\ n1 = n + 1
          BY <4>1 DEF p, n1
        <5> QED BY <1>1, <2>3, <5>1
      <4>2. CASE ~ fresh
        BY <4>2 DEF n1
      <4> QED BY <4>1, <4>2
    <3>2. new.node[q] = list.node[q]
      BY <1>4, <1>7, <2>3, <3>1
    <3>3. list.node[q].next \in 0 .. n /\ (list.node[q].live <=> q \in S)
      BY <3>1 DEF Heap, n
    <3> QED BY <1>1, <1>2, <2>3, <3>2, <3>3
  <2> QED BY <2>1, <2>2, <2>3
<1>16. ASSUME NEW x \in 1 .. Len(new.pool)
       PROVE  /\ new.pool[x] \in 1 .. n1
              /\ new.pool[x] \notin S \cup {list.tail} /\ new.pool[x] # p
              /\ \A y \in 1 .. Len(new.pool) :
                   new.pool[x] = new.pool[y] => x = y
  <2>1. CASE fresh
    <3>1. list.pool = <<>> /\ new.pool = <<>>
      BY <1>6, <2>1 DEF fresh
    <3> QED BY <3>1
  <2>2. CASE ~ fresh
    <3> DEFINE k == Len(list.pool)
    <3>1. list.pool # <<>> /\ p = list.pool[k] /\ new.pool = Front(list.pool)
      BY <1>6, <2>2 DEF fresh, p, Last
    <3>2. k \in Nat /\ Len(new.pool) = k - 1 /\ k \in 1 .. k
          /\ \A y \in 1 .. k - 1 : new.pool[y] = list.pool[y]
      <4>1. k \in Nat \ {0}
        BY <1>1, <3>1
      <4>2. /\ Len(new.pool) = k - 1
            /\ \A y \in 1 .. k - 1 : new.pool[y] = list.pool[y]
        BY <1>1, <3>1, FrontFacts, ZenonT(30)
      <4> HIDE DEF k
      <4> QED BY <4>1, <4>2
    <3>3. x \in 1 .. k - 1 /\ x \in 1 .. k /\ x # k
      BY <3>2
    <3>4. /\ list.pool[x] \in 1 .. n
          /\ list.pool[x] \notin S /\ list.pool[x] # list.tail
          /\ \A y \in 1 .. k : list.pool[x] = list.pool[y] => x = y
      BY <3>3 DEF Heap, n
    <3> HIDE DEF k
    <3>5. \A y \in 1 .. k - 1 : y \in 1 .. k
      BY <3>2
    <3>6. new.pool[x] = list.pool[x] /\ k \in 1 .. k
      BY <3>2, <3>3
    <3>7. new.pool[x] \in 1 .. n1
      BY <1>1, <1>2, <3>4, <3>6
    <3>8. new.pool[x] # p
      BY <3>1, <3>3, <3>4, <3>6
    <3>9. new.pool[x] \notin S \cup {list.tail}
      BY <3>4, <3>6
    <3>10. ASSUME NEW y \in 1 .. Len(new.pool), new.pool[x] = new.pool[y]
           PROVE  x = y
      <4>1. y \in 1 .. k - 1 /\ y \in 1 .. k
        BY <3>2, <3>5
      <4>2. new.pool[y] = list.pool[y]
        BY <3>2, <4>1
      <4> QED BY <3>4, <3>6, <3>10, <4>1, <4>2
    <3> QED BY <3>7, <3>8, <3>9, <3>10
  <2> QED BY <2>1, <2>2
<1>17. Heap(new, S \cup {list.tail})
  <2>1. S \cup {list.tail} \subseteq (1 .. n1) \ {p}
    BY <1>1, <1>2, <1>13
  <2>2. new.size = Cardinality(S \cup {list.tail})
    BY <1>6, <1>14 DEF Heap
  <2> QED BY <1>2, <1>6, <1>11, <1>12, <1>15, <1>16, <2>1, <2>2 DEF Heap
<1> DEFINE l == Len(W)
           V == Append(W, p)
<1>18. /\ W \in Seq(1 .. n) /\ l \in Nat \ {0} /\ W[l] = list.tail
       /\ W[1] = list.head
       /\ \A x \in 1 .. l : W[x] \in 1 .. n /\ W[x] \in S \cup {list.tail}
       /\ \A x \in 1 .. l - 1 : W[x] \in S
  <2>1. /\ W \in Seq(1 .. n) /\ l \in Nat \ {0} /\ W[l] = list.tail
        /\ W[1] = list.head /\ \A x \in 1 .. l : W[x] \in 1 .. n
    BY <1>1 DEF Way, Linked, n
  <2>2. \A x \in 1 .. l - 1 : W[x] \in S
    BY DEF Inner
  <2> HIDE DEF l
  <2>3. \A x \in 1 .. l : x = l \/ x \in 1 .. l - 1
    BY <2>1
  <2> QED BY <2>1, <2>2, <2>3
<1>19. /\ V \in Seq(1 .. n1) /\ Len(V) = l + 1 /\ V[l + 1] = p
       /\ \A x \in 1 .. l : V[x] = W[x]
  <2>1. W \in Seq(1 .. n1)
    BY <1>1, <1>2, <1>18
  <2> QED BY <1>2, <2>1
<1> HIDE DEF V, l
<1>20. ASSUME NEW x \in 1 .. l + 1, NEW y \in 1 .. l + 1, V[x] = V[y]
       PROVE  x = y
  <2>1. \A z \in 1 .. l : V[z] # p
    BY <1>2, <1>18, <1>19
  <2>2. \A z, w \in 1 .. l : W[z] = W[w] => z = w
    BY DEF Way, Linked, l
  <2>3. (x = l + 1 \/ x \in 1 .. l) /\ (y = l + 1 \/ y \in 1 .. l)
    BY <1>18
  <2> QED BY <1>19, <1>20, <2>1, <2>2, <2>3
<1>21. ASSUME NEW x \in 1 .. l PROVE new.node[V[x]].next = V[x + 1]
  <2>1. CASE x = l
    BY <1>9, <1>18, <1>19, <2>1
  <2>2. CASE x # l
    <3>1. x \in 1 .. l - 1 /\ x + 1 \in 1 .. l
      BY <1>18, <2>2
    <3>2. list.node[W[x]].next = W[x + 1]
      BY <3>1 DEF Way, Linked, l
    <3>3. new.node[W[x]] = list.node[W[x]]
      BY <1>13, <1>18, <3>1
    <3> QED BY <1>19, <3>1, <3>2, <3>3
  <2> QED BY <2>1, <2>2
<1>22. Way(new, V)
  <2>1. V # <<>> /\ Len(V) - 1 = l
    BY <1>18, <1>19
  <2>2. V[1] = new.head /\ V[Len(V)] = new.tail
    BY <1>6, <1>18, <1>19
  <2>3. Linked(new, V)
    BY <1>11, <1>19, <1>20, <1>21, <2>1 DEF Linked
  <2> QED BY <2>2, <2>3 DEF Way
<1>23. Inner(V) = Inner(W) \cup {list.tail}
  <2>1. Len(V) - 1 = l /\ Len(W) = l /\ \A x \in 1 .. l - 1 : x \in 1 .. l
    BY <1>18, <1>19 DEF l
  <2>2. \A x \in 1 .. l : x = l \/ x \in 1 .. l - 1
    BY <1>18
  <2>3. l \in 1 .. l
    BY <1>18
  <2>4. Inner(V) = {V[x] : x \in 1 .. l} /\ Inner(W) = {W[x] : x \in 1 .. l - 1}
    BY <2>1 DEF Inner
  <2>5. \A x \in 1 .. l : V[x] = W[x] /\ W[l] = list.tail
    BY <1>18, <1>19
  <2>6. ASSUME NEW e \in Inner(V) PROVE e \in Inner(W) \cup {list.tail}
    <3>1. PICK x \in 1 .. l : e = W[x]
      BY <2>4, <2>5
    <3> QED BY <2>2, <2>4, <2>5, <3>1
  <2>7. ASSUME NEW e \in Inner(W) \cup {list.tail} PROVE e \in Inner(V)
    <3>1. PICK x \in 1 .. l : e = W[x]
      BY <2>1, <2>3, <2>4, <2>5
    <3> QED BY <2>4, <2>5, <3>1
  <2> QED BY <2>6, <2>7
<1> QED BY <1>2, <1>6, <1>9, <1>11, <1>13, <1>17, <1>22, <1>23 DEF V, n, Pushed

(* A message less: its node goes to the pool, the links stay.              *)
LEMMA FreeKeeps ==
    ASSUME NEW list, NEW S, Heap(list, S), NEW p \in S, NEW new,
           new = kmp_free(list, p)
    PROVE  /\ Heap(new, S \ {p})
           /\ new.head = list.head /\ new.tail = list.tail
           /\ Len(new.node) = Len(list.node)
           /\ \A q \in 1 .. Len(list.node) :
                /\ new.node[q].next = list.node[q].next
                /\ new.node[q].data = list.node[q].data
<1> DEFINE n == Len(list.node)
           cells == [list.node EXCEPT ![p].live = FALSE]
           pool  == Append(list.pool, p)
           size  == list.size - 1
<1>1. /\ list \in ListType /\ list.node \in Seq(NodeType) /\ n \in Nat
      /\ list.pool \in Seq(Nat) /\ list.size \in Nat
      /\ list.tail \in 1 .. n /\ p \in 1 .. n /\ p # list.tail
  BY DEF Heap, ListType
<1>2. new = [list EXCEPT !.node = cells, !.pool = pool, !.size = size]
  BY DEF kmp_free
<1>3. /\ DOMAIN cells = 1 .. n
      /\ \A q \in 1 .. n : list.node[q] \in NodeType
      /\ cells[p] = [list.node[p] EXCEPT !.live = FALSE]
      /\ \A q \in 1 .. n : q # p => cells[q] = list.node[q]
  BY <1>1
<1>4. /\ cells[p] \in NodeType /\ ~ cells[p].live
      /\ cells[p].next = list.node[p].next
      /\ cells[p].data = list.node[p].data
  BY <1>1, <1>3 DEF NodeType
<1>5. cells \in Seq(NodeType) /\ Len(cells) = n
  <2>1. \A q \in 1 .. n : cells[q] \in NodeType
    BY <1>3, <1>4
  <2>2. cells = [q \in 1 .. n |-> cells[q]]
    <3>1. DOMAIN list.node = 1 .. n
      BY <1>1
    <3> QED BY <3>1
  <2> HIDE DEF cells, n
  <2> QED BY <1>1, <2>1, <2>2
<1>6. /\ IsFiniteSet(S) /\ S \subseteq 1 .. n
      /\ Cardinality(S \ {p}) = Cardinality(S) - 1
      /\ Cardinality(S) \in Nat /\ Cardinality(S \ {p}) \in Nat
  <2>1. IsFiniteSet(S) /\ S \subseteq 1 .. n
    <3>1. S \subseteq 1 .. n
      BY DEF Heap
    <3>2. IsFiniteSet(1 .. n)
      BY <1>1, FS_Interval
    <3> QED BY <3>1, <3>2, FS_Subset
  <2>2. Cardinality(S \ {p}) = Cardinality(S) - 1 /\ IsFiniteSet(S \ {p})
    BY <2>1, FS_RemoveElement
  <2> QED BY <2>1, <2>2, FS_CardinalityType
<1>7. size = Cardinality(S \ {p}) /\ size \in Nat
  BY <1>6 DEF Heap
<1>8. /\ pool \in Seq(Nat) /\ Len(pool) = Len(list.pool) + 1
      /\ pool[Len(list.pool) + 1] = p
      /\ \A x \in 1 .. Len(list.pool) : pool[x] = list.pool[x]
      /\ Len(list.pool) \in Nat
  BY <1>1
<1> HIDE DEF cells, pool, size
<1>9. /\ new.node = cells /\ new.pool = pool /\ new.size = size
      /\ new.head = list.head /\ new.tail = list.tail
  BY <1>1, <1>2 DEF ListType
<1>10. new \in ListType
  BY <1>1, <1>2, <1>5, <1>7, <1>8 DEF ListType
<1>11. ASSUME NEW q \in 1 .. n
       PROVE  /\ cells[q].next = list.node[q].next
              /\ cells[q].data = list.node[q].data
              /\ cells[q].next \in 0 .. n
              /\ cells[q].live <=> q \in S \ {p}
  <2>1. list.node[q].next \in 0 .. n /\ (list.node[q].live <=> q \in S)
    BY DEF Heap
  <2>2. CASE q = p
    BY <1>4, <2>1, <2>2
  <2>3. CASE q # p
    BY <1>3, <2>1, <2>3
  <2> QED BY <2>2, <2>3
<1>12. ASSUME NEW x \in 1 .. Len(pool)
       PROVE  /\ pool[x] \in 1 .. n
              /\ pool[x] \notin S \ {p} /\ pool[x] # list.tail
              /\ \A y \in 1 .. Len(pool) : pool[x] = pool[y] => x = y
  <2> DEFINE k == Len(list.pool)
  <2>1. \A z \in 1 .. k : /\ list.pool[z] \in 1 .. n
                          /\ list.pool[z] \notin S /\ list.pool[z] # list.tail
                          /\ \A y \in 1 .. k :
                               list.pool[z] = list.pool[y] => z = y
    BY DEF Heap
  <2> HIDE DEF k
  <2>2. /\ Len(pool) = k + 1 /\ pool[k + 1] = p /\ k \in Nat
        /\ \A z \in 1 .. k : pool[z] = list.pool[z] /\ pool[z] # p
    BY <1>8, <2>1 DEF k
  <2>3. \A y \in 1 .. k + 1 : y = k + 1 \/ y \in 1 .. k
    BY <2>2
  <2> HIDE DEF n
  <2>4. pool[x] \in 1 .. n /\ pool[x] \notin S \ {p} /\ pool[x] # list.tail
    BY <1>1, <2>1, <2>2, <2>3
  <2>5. ASSUME NEW y \in 1 .. Len(pool), pool[x] = pool[y] PROVE x = y
    BY <2>1, <2>2, <2>3, <2>5
  <2> QED BY <2>4, <2>5
<1>13. Heap(new, S \ {p})
  <2>1. S \ {p} \subseteq (1 .. n) \ {list.tail}
    BY DEF Heap
  <2> QED BY <1>1, <1>5, <1>7, <1>9, <1>10, <1>11, <1>12, <2>1 DEF Heap
<1> QED BY <1>5, <1>9, <1>11, <1>13

(* Distinct numbers up to n are at most n.                                 *)
LEMMA FewDistinct ==
    ASSUME NEW n \in Nat, NEW W \in Seq(1 .. n),
           \A x, y \in 1 .. Len(W) : W[x] = W[y] => x = y
    PROVE  Len(W) <= n
<1> DEFINE m == Len(W)
<1>1. m \in Nat /\ W \in [1 .. m -> 1 .. n]
  OBVIOUS
<1>2. /\ IsFiniteSet(1 .. m) /\ IsFiniteSet(1 .. n)
      /\ Cardinality(1 .. m) = m /\ Cardinality(1 .. n) = n
  <2>1. ASSUME NEW k \in Nat
        PROVE  IsFiniteSet(1 .. k) /\ Cardinality(1 .. k) = k
    <3>1. Cardinality(1 .. k) = IF 1 > k THEN 0 ELSE k - 1 + 1
      BY FS_Interval
    <3> QED BY <3>1, FS_Interval
  <2> HIDE DEF m
  <2> QED BY <1>1, <2>1
<1>3. W \in Injection(1 .. m, 1 .. n)
  BY <1>1 DEF Injection, IsInjective
<1> HIDE DEF m
<1>4. Cardinality(1 .. m) <= Cardinality(1 .. n)
  BY <1>2, <1>3, FS_Injection DEF ExistsInjection
<1> QED BY <1>1, <1>2, <1>4 DEF m

(* The nodes of W from the x-th to the y-th.                               *)
NodesAre(list, W, x, y) ==
    Nodes(list, W[x], W[y]) = [z \in 1 .. y - x |-> W[x + z - 1]]

(* The nodes from one to another that follows it.                          *)
LEMMA NodesOf ==
    ASSUME NEW list, NEW S, Heap(list, S), NEW W, Linked(list, W),
           NEW x \in 1 .. Len(W), NEW y \in x .. Len(W)
    PROVE  NodesAre(list, W, x, y)
<1> DEFINE n == Len(list.node)
           D == {Null} \union DOMAIN list.node
           next == [p \in D |-> IF p \in {W[y], Null} THEN p
                                ELSE list.node[p].next]
           m == y - x + 1
           V == [z \in 1 .. m |-> W[x + z - 1]]
           l == Len(W)
<1>1. /\ n \in Nat /\ D = 0 .. n /\ l \in Nat /\ x \in 1 .. l /\ y \in x .. l
      /\ \A p \in 1 .. n : list.node[p].next \in 0 .. n
      /\ W \in Seq(1 .. n) /\ \A z \in 1 .. l : W[z] \in 1 .. n
  <2>1. list.node \in Seq(NodeType)
    BY DEF Heap, ListType
  <2> QED BY <2>1, SMTT(30) DEF Heap, Linked, Null
<1>2. next \in [D -> D]
  BY <1>1 DEF Null
<1>3. /\ m \in Nat \ {0} /\ \A z \in 1 .. m : x + z - 1 \in 1 .. l
      /\ m <= l
  BY <1>1
<1>4. V \in Seq(D) /\ V # <<>> /\ Len(V) = m /\ \A z \in 1 .. m : V[z] = W[x + z - 1]
  <2>1. \A z \in 1 .. m : W[x + z - 1] \in D
    BY <1>1, <1>3
  <2> HIDE DEF m
  <2>2. V \in Seq(D) /\ Len(V) = m
    BY <1>3, <2>1
  <2> QED BY <1>3, <2>2
<1>5. m <= n
  <2>1. l <= n
    <3>1. \A z, w \in 1 .. Len(W) : W[z] = W[w] => z = w
      BY DEF Linked
    <3> QED BY <1>1, <3>1, FewDistinct
  <2> QED BY <1>1, <1>3, <2>1
<1>6. ASSUME NEW z \in 1 .. m - 1 PROVE next[V[z]] = V[z + 1] /\ V[z + 1] # V[z]
  <2> DEFINE w == x + z - 1
  <2>1. /\ w \in 1 .. l - 1 /\ w \in 1 .. l /\ w + 1 \in 1 .. l /\ w # y
        /\ V[z] = W[w] /\ V[z + 1] = W[w + 1]
    <3>1. z \in 1 .. m /\ z + 1 \in 1 .. m
      BY <1>3
    <3>2. x + (z + 1) - 1 = w + 1
      BY <1>1
    <3>3. w \in 1 .. l - 1 /\ w \in 1 .. l /\ w + 1 \in 1 .. l /\ w # y
      BY <1>1
    <3> HIDE DEF V, m
    <3> QED BY <1>4, <3>1, <3>2, <3>3
  <2> HIDE DEF V, m, w, l
  <2>2. \A a, b \in 1 .. l : W[a] = W[b] => a = b
    BY DEF Linked, l
  <2>3. list.node[W[w]].next = W[w + 1]
    BY <2>1 DEF Linked, l
  <2>4. W[w] # W[y] /\ W[w] # Null /\ W[w] \in D /\ W[w + 1] # W[w]
    <3>1. y \in 1 .. l /\ w + 1 # w
      BY <1>1, <2>1
    <3>2. W[w] # W[y] /\ W[w + 1] # W[w]
      BY <2>1, <2>2, <3>1
    <3>3. W[w] \in 1 .. n
      BY <1>1, <2>1 DEF l
    <3> HIDE DEF D
    <3>4. W[w] # Null /\ W[w] \in D
      BY <1>1, <3>3 DEF Null
    <3> QED BY <3>2, <3>4
  <2> QED BY <2>1, <2>3, <2>4
<1>7. V[m] = W[y] /\ next[V[m]] = V[m] /\ V[1] = W[x]
  <2>1. x + m - 1 = y /\ m \in 1 .. m /\ 1 \in 1 .. m /\ x + 1 - 1 = x
    BY <1>1
  <2>2. V[m] = W[y] /\ V[1] = W[x]
    <3> HIDE DEF V, m
    <3> QED BY <1>4, <2>1
  <2>3. W[y] \in D
    BY <1>1
  <2> QED BY <2>2, <2>3
<1> HIDE DEF V, next, m
<1>8. IsWay(next, V)
  BY <1>4, <1>6, <1>7 DEF IsWay
<1> HIDE DEF D
<1>9. Chain(next, V[1], n) = [z \in 1 .. m - 1 |-> V[z]]
  <2>1. Len(V) <= n + 1
    BY <1>1, <1>3, <1>4, <1>5
  <2>3. next \in [D -> D] /\ V \in Seq(D) /\ V # <<>> /\ n \in Nat
    BY <1>1, <1>2, <1>4 DEF D
  <2> HIDE DEF n
  <2>2. Chain(next, V[1], n) = [z \in 1 .. Len(V) - 1 |-> V[z]]
    BY <1>8, <2>1, <2>3, ChainIsWay
  <2> QED BY <1>4, <2>2
<1>10. Nodes(list, W[x], W[y]) = Chain(next, W[x], n)
  BY DEF Nodes, next, D, n
<1>11. [z \in 1 .. m - 1 |-> V[z]] = [z \in 1 .. y - x |-> W[x + z - 1]]
  <2>1. m - 1 = y - x
    BY <1>1 DEF m
  <2>2. \A z \in 1 .. y - x : V[z] = W[x + z - 1]
    BY <1>1, <1>4 DEF m
  <2> QED BY <2>1, <2>2
<1> QED BY <1>7, <1>9, <1>10, <1>11 DEF NodesAre

-----------------------------------------------------------------------------
(* Files and their messages.                                               *)

(* Where the messages begin in the file.                                   *)
LEMMA OffsetsFacts ==
    ASSUME NEW sizes \in Seq(Nat)
    PROVE  /\ Offsets(sizes)[0] = 0
           /\ \A i \in 1 .. Len(sizes) :
                Offsets(sizes)[i] = Offsets(sizes)[i - 1] + sizes[i]
           /\ \A i \in 0 .. Len(sizes) : Offsets(sizes)[i] \in Nat
<1> DEFINE N == Len(sizes)
           eq(f) == [i \in 0 .. N |-> IF i = 0 THEN 0 ELSE f[i - 1] + sizes[i]]
           step == [i \in 1 .. N |-> [v \in Nat |-> v + sizes[i]]]
<1>0. N \in Nat /\ \A i \in 1 .. N : sizes[i] \in Nat
  OBVIOUS
<1>1. \A i \in 1 .. N : \A v \in Nat : /\ step[i][v] = v + sizes[i]
                                       /\ step[i][v] \in Nat
  BY <1>0
<1> HIDE DEF step, N
<1>2. PICK f : IsLoop(f, N, 0, step)
  BY <1>0, LoopExists
<1>3. \A i \in 0 .. N : f[i] \in Nat
  BY <1>1, <1>2, <1>0, LoopType, ZenonT(30)
<1>4. ASSUME NEW i \in 1 .. N PROVE f[i] = f[i - 1] + sizes[i]
  <2>1. i - 1 \in 0 .. N
    BY <1>0
  <2> QED BY <1>1, <1>2, <1>3, <2>1 DEF IsLoop
<1>5. f = eq(f)
  <2>1. f = [i \in 0 .. N |-> f[i]] /\ f[0] = 0
    BY <1>2 DEF IsLoop
  <2>2. \A i \in 0 .. N : i # 0 => i \in 1 .. N
    BY <1>0
  <2>3. \A i \in 0 .. N : f[i] = IF i = 0 THEN 0 ELSE f[i - 1] + sizes[i]
    BY <1>4, <2>1, <2>2
  <2> QED BY <2>1, <2>3
<1> DEFINE from == Offsets(sizes)
<1>6. from = eq(from)
  BY <1>5 DEF Offsets, N
<1>7. from[0] = 0 /\ \A i \in 1 .. N : from[i] = from[i - 1] + sizes[i]
  <2>1. \A i \in 0 .. N :
          eq(from)[i] = IF i = 0 THEN 0 ELSE from[i - 1] + sizes[i]
    OBVIOUS
  <2>2. 0 \in 0 .. N /\ \A i \in 1 .. N : i \in 0 .. N /\ i # 0
    BY <1>0
  <2> HIDE DEF from, eq
  <2> QED BY <1>6, <2>1, <2>2
<1>8. \A i \in 0 .. N : from[i] \in Nat
  <2> DEFINE T == {i \in 0 .. N : from[i] \in Nat}
  <2> HIDE DEF from
  <2>1. 0 \in T
    BY <1>0, <1>7
  <2>2. ASSUME NEW i \in 1 .. N, i - 1 \in T PROVE i \in T
    BY <1>0, <1>7, <2>2
  <2>3. T = 0 .. N
    <3>1. T \in SUBSET (0 .. N)
      OBVIOUS
    <3> HIDE DEF T
    <3> QED BY <1>0, <2>1, <2>2, <3>1, UpTo
  <2> QED BY <2>3
<1> QED BY <1>7, <1>8 DEF N

(* A function from 1 .. n is a sequence of n elements.                     *)
LEMMA FunIsSeq ==
    ASSUME NEW n \in Nat, NEW T, NEW f \in [1 .. n -> T]
    PROVE  f \in Seq(T) /\ Len(f) = n
OBVIOUS

(* As many messages as regions, each as long as its region.                *)
IsCut(file, sizes, cut) ==
    /\ cut \in Seq(Seq(Nat)) /\ Len(cut) = Len(sizes)
    /\ \A i \in 1 .. Len(sizes) :
         /\ cut[i] \in Seq(Nat) /\ Len(cut[i]) = sizes[i]
         /\ \A k \in 1 .. sizes[i] :
              LET at == Offsets(sizes)[i - 1] + k - 1
              IN  cut[i][k] = IF at < Len(file) THEN file[at + 1] ELSE 0

(* Cut returns that, whatever the sizes are.                               *)
LEMMA CutFacts ==
    ASSUME NEW file \in Seq(Nat), NEW sizes \in Seq(Nat)
    PROVE  IsCut(file, sizes, Cut(file, sizes))
<1> DEFINE N == Len(sizes)
           read(k) == IF k < Len(file) THEN file[k + 1] ELSE 0
           part(i) == [k \in 1 .. sizes[i] |-> read(Offsets(sizes)[i - 1] + k - 1)]
<1>1. N \in Nat /\ \A i \in 1 .. N : sizes[i] \in Nat
  OBVIOUS
<1>2. \A k \in Nat : read(k) \in Nat
  OBVIOUS
<1>3. Cut(file, sizes) = [i \in 1 .. N |-> part(i)]
  BY DEF Cut
<1> HIDE DEF read, N
<1>4. ASSUME NEW i \in 1 .. N
      PROVE  /\ part(i) \in Seq(Nat) /\ Len(part(i)) = sizes[i]
             /\ \A k \in 1 .. sizes[i] :
                  part(i)[k] = read(Offsets(sizes)[i - 1] + k - 1)
  <2>1. i - 1 \in 0 .. Len(sizes) /\ sizes[i] \in Nat
    BY <1>1 DEF N
  <2>2. Offsets(sizes)[i - 1] \in Nat
    BY <2>1, OffsetsFacts
  <2>3. \A k \in 1 .. sizes[i] : Offsets(sizes)[i - 1] + k - 1 \in Nat
    BY <2>1, <2>2
  <2>4. \A k \in 1 .. sizes[i] : read(Offsets(sizes)[i - 1] + k - 1) \in Nat
    BY <1>2, <2>3
  <2>5. part(i) \in [1 .. sizes[i] -> Nat]
    BY <2>1, <2>4
  <2>6. part(i) \in Seq(Nat) /\ Len(part(i)) = sizes[i]
    <3> HIDE DEF part
    <3> QED BY <2>1, <2>5, FunIsSeq
  <2> QED BY <2>6
<1> HIDE DEF part
<1>5. /\ Cut(file, sizes) \in Seq(Seq(Nat)) /\ Len(Cut(file, sizes)) = N
      /\ \A i \in 1 .. N : Cut(file, sizes)[i] = part(i)
  BY <1>1, <1>3, <1>4
<1>6. ASSUME NEW i \in 1 .. N
      PROVE  /\ Cut(file, sizes)[i] \in Seq(Nat)
             /\ Len(Cut(file, sizes)[i]) = sizes[i]
             /\ \A k \in 1 .. sizes[i] :
                  Cut(file, sizes)[i][k] = read(Offsets(sizes)[i - 1] + k - 1)
  BY <1>4, <1>5
<1> QED BY <1>5, <1>6 DEF N, read, IsCut

(* A list, its nodes from the head to the tail, their messages.            *)
IsListOf(list, W, messages) ==
    /\ Way(list, W) /\ Heap(list, Inner(W)) /\ Len(W) = Len(messages) + 1
    /\ \A x \in 1 .. Len(messages) : list.node[W[x]].data = messages[x]

(* kl_init returns an empty list: its one node is the end.                 *)
LEMMA InitIsList == IsListOf(kl_init, <<1>>, <<>>)
<1>1. Inner(<<1>>) = {} /\ Cardinality({}) = 0
  BY FS_EmptySet DEF Inner
<1>2. /\ kl_init.node = <<Blank>> /\ kl_init.head = 1 /\ kl_init.tail = 1
      /\ kl_init.pool = <<>> /\ kl_init.size = 0
  BY DEF kl_init
<1>3. Blank \in NodeType /\ Blank.next = 0 /\ ~ Blank.live
  BY DEF Blank, Null, NodeType
<1>4. kl_init \in ListType
  BY <1>3 DEF kl_init, ListType
<1>5. Heap(kl_init, {})
  BY <1>1, <1>2, <1>3, <1>4 DEF Heap
<1>6. Way(kl_init, <<1>>)
  BY <1>2 DEF Way, Linked
<1> QED BY <1>1, <1>5, <1>6 DEF IsListOf

(* kl_pushp makes the end node carry the message and adds a new end.       *)
LEMMA PushIsList ==
    ASSUME NEW list, NEW W, NEW messages \in Seq(Seq(Nat)),
           IsListOf(list, W, messages), NEW m \in Seq(Nat)
    PROVE  LET new == kl_pushp(list, m)
           IN  /\ IsListOf(new, Append(W, new.tail), Append(messages, m))
               /\ new.head = list.head
<1>0. PICK new : new = kl_pushp(list, m)
  OBVIOUS
<1> DEFINE l == Len(messages)
           V == Append(W, new.tail)
           n == Len(list.node)
<1>1. /\ Heap(new, Inner(W) \cup {list.tail}) /\ Way(new, V)
      /\ Inner(V) = Inner(W) \cup {list.tail} /\ new.head = list.head
      /\ \A q \in Inner(W) : new.node[q] = list.node[q]
      /\ new.node[list.tail].data = m
  <2>1. Heap(list, Inner(W)) /\ Way(list, W)
    BY DEF IsListOf
  <2>2. Inner(W) \subseteq Inner(W)
    OBVIOUS
  <2>3. PICK S : S = Inner(W)
    OBVIOUS
  <2>4. Heap(list, S) /\ Way(list, W) /\ Inner(W) \subseteq S
    BY <2>1, <2>3
  <2>5. Pushed(list, S, W, m, new)
    BY <1>0, <2>4, PushKeeps
  <2> QED BY <2>3, <2>5 DEF Pushed
<1>2. /\ l \in Nat /\ W \in Seq(1 .. n) /\ Len(W) = l + 1 /\ W[l + 1] = list.tail
      /\ \A x \in 1 .. l : W[x] \in Inner(W) /\ list.node[W[x]].data = messages[x]
  BY DEF IsListOf, Way, Linked, Inner
<1> HIDE DEF n
<1>3. /\ Len(V) = l + 2 /\ \A x \in 1 .. l + 1 : V[x] = W[x]
      /\ Len(Append(messages, m)) = l + 1 /\ Append(messages, m)[l + 1] = m
      /\ \A x \in 1 .. l : Append(messages, m)[x] = messages[x]
  <2> HIDE DEF l
  <2>1. W \in Seq(1 .. n) /\ Len(messages) = l /\ l \in Nat
    BY <1>2 DEF l
  <2>2. Len(V) = l + 2 /\ \A x \in 1 .. l + 1 : V[x] = W[x]
    <3>1. \A a : Len(Append(W, a)) = Len(W) + 1
                 /\ \A x \in 1 .. Len(W) : Append(W, a)[x] = W[x]
      BY <2>1
    <3> QED BY <1>2, <3>1
  <2> QED BY <2>1, <2>2
<1> HIDE DEF V, l
<1>4. ASSUME NEW x \in 1 .. l + 1
      PROVE  new.node[V[x]].data = Append(messages, m)[x]
  <2>1. x = l + 1 \/ x \in 1 .. l
    BY <1>2
  <2>2. CASE x = l + 1
    BY <1>1, <1>2, <1>3, <2>2
  <2>3. CASE x \in 1 .. l
    <3>1. V[x] = W[x] /\ Append(messages, m)[x] = messages[x]
      BY <1>2, <1>3, <2>3
    <3>2. W[x] \in Inner(W) /\ list.node[W[x]].data = messages[x]
      BY <1>2, <2>3
    <3> QED BY <1>1, <3>1, <3>2
  <2> QED BY <2>1, <2>2, <2>3
<1>5. IsListOf(new, V, Append(messages, m))
  BY <1>1, <1>2, <1>3, <1>4 DEF IsListOf
<1> QED BY <1>0, <1>1, <1>5 DEF V

(* Opening an entry makes a list of the messages its file is cut into.     *)
LEMMA ConstructIsList ==
    ASSUME NEW entry, entry.file \in Seq(Nat), entry.sizes \in Seq(Nat)
    PROVE  \E W : IsListOf(construct_kl_messages(entry), W,
                           Cut(entry.file, entry.sizes))
<1> DEFINE messages == Cut(entry.file, entry.sizes)
           N == Len(messages)
           eq(f) == [i \in 0 .. N |->
                       IF i = 0 THEN kl_init ELSE kl_pushp(f[i - 1], messages[i])]
           G(i) == {list \in ListType :
                      \E W : IsListOf(list, W, SubSeq(messages, 1, i))}
           H == {list \in ListType :
                   \E W : \E ms \in Seq(Seq(Nat)) : IsListOf(list, W, ms)}
           step == [i \in 1 .. N |-> [v \in H |-> kl_pushp(v, messages[i])]]
<1>0. /\ messages \in Seq(Seq(Nat)) /\ N \in Nat
      /\ \A i \in 1 .. N : messages[i] \in Seq(Nat)
  <2>1. messages \in Seq(Seq(Nat))
    BY CutFacts DEF IsCut
  <2> HIDE DEF messages
  <2> QED BY <2>1
<1> HIDE DEF messages, N
<1>1. kl_init \in H
  <2>1. kl_init \in ListType
    BY InitIsList DEF IsListOf, Heap
  <2>2. <<>> \in Seq(Seq(Nat))
    OBVIOUS
  <2> QED BY <2>1, <2>2, InitIsList
<1>2. ASSUME NEW list, NEW W, NEW ms \in Seq(Seq(Nat)),
             IsListOf(list, W, ms), NEW m \in Seq(Nat)
      PROVE  /\ kl_pushp(list, m) \in ListType
             /\ \E V : IsListOf(kl_pushp(list, m), V, Append(ms, m))
  <2>1. PICK V : IsListOf(kl_pushp(list, m), V, Append(ms, m))
    BY <1>2, PushIsList
  <2>2. kl_pushp(list, m) \in ListType
    BY <2>1 DEF IsListOf, Heap
  <2> QED BY <2>1, <2>2
<1>3. ASSUME NEW v \in H, NEW m \in Seq(Nat) PROVE kl_pushp(v, m) \in H
  <2>1. PICK W, ms : ms \in Seq(Seq(Nat)) /\ IsListOf(v, W, ms)
    OBVIOUS
  <2>2. Append(ms, m) \in Seq(Seq(Nat))
    BY <2>1
  <2> HIDE DEF H
  <2>3. /\ kl_pushp(v, m) \in ListType
        /\ \E V : IsListOf(kl_pushp(v, m), V, Append(ms, m))
    BY <1>2, <2>1
  <2> QED BY <2>2, <2>3 DEF H
<1> HIDE DEF H
<1>4. \A i \in 1 .. N : \A v \in H : /\ step[i][v] = kl_pushp(v, messages[i])
                                     /\ step[i][v] \in H
  BY <1>0, <1>3
<1> HIDE DEF step
<1>5. PICK f : IsLoop(f, N, kl_init, step)
  BY <1>0, LoopExists
<1>6. \A i \in 0 .. N : f[i] \in H
  BY <1>0, <1>1, <1>4, <1>5, LoopType
<1>7. ASSUME NEW i \in 1 .. N PROVE f[i] = kl_pushp(f[i - 1], messages[i])
  <2>1. i - 1 \in 0 .. N
    BY <1>0
  <2> QED BY <1>4, <1>5, <1>6, <2>1 DEF IsLoop
<1>8. f = eq(f)
  <2>1. f = [i \in 0 .. N |-> f[i]] /\ f[0] = kl_init
    BY <1>5 DEF IsLoop
  <2>2. \A i \in 0 .. N : i # 0 => i \in 1 .. N
    BY <1>0
  <2>3. \A i \in 0 .. N :
          f[i] = IF i = 0 THEN kl_init ELSE kl_pushp(f[i - 1], messages[i])
    BY <1>7, <2>1, <2>2
  <2> QED BY <2>1, <2>3
<1> DEFINE pushed == CHOOSE g : g = eq(g)
<1>9. pushed = eq(pushed)
  BY <1>8
<1>10. construct_kl_messages(entry) = pushed[N]
  BY DEF construct_kl_messages, N, messages
<1> HIDE DEF pushed
<1>11. pushed[0] = kl_init
       /\ \A i \in 1 .. N : pushed[i] = kl_pushp(pushed[i - 1], messages[i])
  <2>1. \A i \in 0 .. N :
          eq(pushed)[i] = IF i = 0 THEN kl_init
                          ELSE kl_pushp(pushed[i - 1], messages[i])
    OBVIOUS
  <2>2. 0 \in 0 .. N /\ \A i \in 1 .. N : i \in 0 .. N /\ i # 0
    BY <1>0
  <2> HIDE DEF eq
  <2> QED BY <1>9, <2>1, <2>2
<1> DEFINE T == {i \in 0 .. N :
                   \E W : IsListOf(pushed[i], W, SubSeq(messages, 1, i))}
<1>12. 0 \in T
  <2>1. SubSeq(messages, 1, 0) = <<>>
    BY <1>0
  <2>2. IsListOf(pushed[0], <<1>>, SubSeq(messages, 1, 0))
    BY <1>11, <2>1, InitIsList
  <2>3. 0 \in 0 .. N
    BY <1>0
  <2> QED BY <2>2, <2>3
<1>13. ASSUME NEW i \in 1 .. N, i - 1 \in T PROVE i \in T
  <2>1. PICK W : IsListOf(pushed[i - 1], W, SubSeq(messages, 1, i - 1))
    BY <1>13
  <2> DEFINE ms == SubSeq(messages, 1, i - 1)
  <2>2. ms \in Seq(Seq(Nat)) /\ messages[i] \in Seq(Nat) /\ i \in 0 .. N
    BY <1>0
  <2>3. Append(ms, messages[i]) = SubSeq(messages, 1, i)
    <3>1. /\ 1 \in 1 .. Len(messages) + 1 /\ i \in 1 .. Len(messages)
          /\ 1 <= i
      BY <1>0 DEF N
    <3> QED BY <1>0, <3>1, SubSeqRecursiveSecond
  <2> HIDE DEF ms
  <2>4. \E V : IsListOf(kl_pushp(pushed[i - 1], messages[i]), V,
                        Append(ms, messages[i]))
    BY <1>2, <2>1, <2>2 DEF ms
  <2> QED BY <1>11, <2>2, <2>3, <2>4
<1>14. T = 0 .. N
  <2>1. T \in SUBSET (0 .. N)
    OBVIOUS
  <2> HIDE DEF T
  <2> QED BY <1>0, <1>12, <1>13, <2>1, UpTo
<1>15. SubSeq(messages, 1, N) = messages
  BY <1>0 DEF N
<1>16. N \in T
  <2>1. N \in 0 .. N
    BY <1>0
  <2> HIDE DEF T
  <2> QED BY <1>14, <2>1
<1>17. \E W : IsListOf(pushed[N], W, SubSeq(messages, 1, N))
  BY <1>16
<1> QED BY <1>10, <1>15, <1>17 DEF messages

-----------------------------------------------------------------------------
(* The list of an opened seed.                                             *)

Message == Seq(Nat) \ {<<>>}

(* W are the nodes from the head to the tail and M their messages: i of    *)
(* M1, up to the j-th M2, up to the k-th M3; what follows is new.          *)
Core(list, prev, next, W, M, i, j, k) ==
    /\ Way(list, W) /\ M \in Seq(Message) /\ Len(W) = Len(M) + 1
    /\ \A x \in 1 .. Len(M) : list.node[W[x]].data = M[x]
    /\ i \in Nat /\ j \in Nat /\ k \in Nat
    /\ i < j /\ j <= k /\ k <= Len(M)
    /\ prev = IF i = 0 THEN Null ELSE W[i]
    /\ next = IF j = k THEN list.tail ELSE W[j + 1]

(* Between two mutations.                                                  *)
Steady(list, prev, next, W, M, i, j) ==
    /\ Core(list, prev, next, W, M, i, j, Len(M))
    /\ Heap(list, Inner(W))

(* While the new messages are pushed: these are pushed and still to do.    *)
Pushing(list, prev, next, last, rest, new, W, M, i, j, k) ==
    /\ Core(list, prev, next, W, M, i, j, k)
    /\ Heap(list, Inner(W))
    /\ last = W[k] /\ rest \in Seq(Message)
    /\ SubSeq(M, k + 1, Len(M)) \o rest = new

(* While the old M2 is freed: R are its nodes that are left, and M2_next.  *)
Freeing(list, prev, next, cur, W, M, i, j, R) ==
    /\ Core(list, prev, next, W, M, i, j, Len(M))
    /\ Heap(list, Inner(W) \cup Inner(R))
    /\ Linked(list, R) /\ Len(R) >= 2
    /\ R[1] = cur /\ R[Len(R)] = next
    /\ Inner(W) \cap Inner(R) = {}

(* What Core says of the m messages and their nodes.                       *)
Known(list, prev, next, W, M, m, i, j, k) ==
    /\ m \in Nat /\ i \in Nat /\ j \in Nat /\ k \in Nat
    /\ i < j /\ j <= k /\ k <= m
    /\ M \in Seq(Message) /\ Len(M) = m
    /\ W \in Seq(1 .. Len(list.node)) /\ Len(W) = m + 1
    /\ W[1] = list.head /\ W[m + 1] = list.tail
    /\ \A x \in 1 .. m + 1 : W[x] \in 1 .. Len(list.node)
    /\ \A x, y \in 1 .. m + 1 : W[x] = W[y] => x = y
    /\ \A x \in 1 .. m : /\ list.node[W[x]].next = W[x + 1]
                         /\ list.node[W[x]].data = M[x]
    /\ Inner(W) = {W[x] : x \in 1 .. m}
    /\ prev = IF i = 0 THEN Null ELSE W[i]
    /\ next = IF j = k THEN list.tail ELSE W[j + 1]
    /\ Linked(list, W) /\ Way(list, W)

(* What Core means, in terms of the places 1 .. m + 1 of the way.          *)
LEMMA CoreFacts ==
    ASSUME NEW list, NEW prev, NEW next, NEW W, NEW M, NEW i, NEW j, NEW k,
           Core(list, prev, next, W, M, i, j, k), NEW m, m = Len(M)
    PROVE  Known(list, prev, next, W, M, m, i, j, k)
<1>1. M \in Seq(Message) /\ W \in Seq(1 .. Len(list.node))
      /\ m \in Nat /\ Len(W) = m + 1 /\ Len(W) - 1 = m
  BY DEF Core, Way, Linked
<1>2. \A x \in 1 .. Len(W) : W[x] \in 1 .. Len(list.node)
  <2> DEFINE n == Len(list.node)
  <2> HIDE DEF n
  <2> QED BY <1>1 DEF n
<1>3. \A x, y \in 1 .. Len(W) : W[x] = W[y] => x = y
  BY DEF Core, Way, Linked
<1>4. \A x \in 1 .. m : list.node[W[x]].next = W[x + 1]
  BY <1>1 DEF Core, Way, Linked
<1>5. \A x \in 1 .. m : list.node[W[x]].data = M[x]
  BY DEF Core
<1>6. Inner(W) = {W[x] : x \in 1 .. m}
  BY <1>1 DEF Inner
<1>7. W[1] = list.head /\ W[m + 1] = list.tail
  BY <1>1 DEF Core, Way
<1>8. Linked(list, W) /\ Way(list, W)
  BY DEF Core, Way
<1>9. /\ i \in Nat /\ j \in Nat /\ k \in Nat
      /\ i < j /\ j <= k /\ k <= m
      /\ prev = IF i = 0 THEN Null ELSE W[i]
      /\ next = IF j = k THEN list.tail ELSE W[j + 1]
  BY DEF Core
<1>10. /\ \A x \in 1 .. m + 1 : W[x] \in 1 .. Len(list.node)
       /\ \A x, y \in 1 .. m + 1 : W[x] = W[y] => x = y
  BY <1>1, <1>2, <1>3
<1> QED BY <1>1, <1>4, <1>5, <1>6, <1>7, <1>8, <1>9, <1>10 DEF Known

(* The other way round.                                                    *)
LEMMA KnownIsCore ==
    ASSUME NEW list, NEW prev, NEW next, NEW W, NEW M, NEW m, NEW i, NEW j,
           NEW k, Way(list, W), m \in Nat, Len(M) = m, Len(W) = m + 1,
           M \in Seq(Message), i \in Nat, j \in Nat, k \in Nat, i < j,
           j <= k, k <= m, \A x \in 1 .. m : list.node[W[x]].data = M[x],
           prev = IF i = 0 THEN Null ELSE W[i],
           next = IF j = k THEN list.tail ELSE W[j + 1]
    PROVE  Core(list, prev, next, W, M, i, j, k)
BY DEF Core

(* The way of a list of m messages.                                        *)
LEMMA LinkedFacts ==
    ASSUME NEW list, NEW W, NEW m \in Nat, W \in Seq(1 .. Len(list.node)),
           Len(W) = m + 1,
           \A x, y \in 1 .. m + 1 : W[x] = W[y] => x = y,
           \A x \in 1 .. m : list.node[W[x]].next = W[x + 1]
    PROVE  Linked(list, W) /\ Inner(W) = {W[x] : x \in 1 .. m}
<1>1. Len(W) - 1 = m /\ W # <<>>
  OBVIOUS
<1> QED BY <1>1 DEF Linked, Inner

(* The messages from the a-th node to the b-th.                            *)
MessagesAre(list, W, M, a, b) ==
    Messages(list, W[a], W[b]) = SubSeq(M, a, b - 1)

(* The nodes from one to another that follows it, and their messages.      *)
LEMMA MessagesOf ==
    ASSUME NEW list, NEW W, NEW M \in Seq(Message), NEW m \in Nat,
           Len(M) = m, Len(W) = m + 1, Linked(list, W),
           NEW S, Heap(list, S),
           \A x \in 1 .. m : list.node[W[x]].data = M[x],
           NEW a \in 1 .. m + 1, NEW b \in 1 .. m + 1, a <= b
    PROVE  NodesAre(list, W, a, b) /\ MessagesAre(list, W, M, a, b)
<1>1. Nodes(list, W[a], W[b]) = [z \in 1 .. b - a |-> W[a + z - 1]]
  <2>1. a \in 1 .. Len(W) /\ b \in a .. Len(W)
    OBVIOUS
  <2>2. Heap(list, S) /\ Linked(list, W)
    OBVIOUS
  <2>3. \A x \in 1 .. Len(W) : \A y \in x .. Len(W) : NodesAre(list, W, x, y)
    BY <2>2, NodesOf
  <2>4. NodesAre(list, W, a, b)
    BY <2>1, <2>3
  <2> QED BY <2>4 DEF NodesAre
<1>2. PICK path : path = Nodes(list, W[a], W[b])
  OBVIOUS
<1>3. Len(path) = b - a /\ \A z \in 1 .. b - a : path[z] = W[a + z - 1]
  <2>1. \A z \in 1 .. b - a : a + z - 1 \in 1 .. Len(W)
    OBVIOUS
  <2>2. b - a \in Nat
    OBVIOUS
  <2> DEFINE T == {W[z] : z \in 1 .. Len(W)}
  <2>3. path \in [1 .. b - a -> T]
    BY <1>1, <1>2, <2>1
  <2>4. Len(path) = b - a
    BY <2>2, <2>3, FunIsSeq
  <2> QED BY <1>1, <1>2, <2>4
<1>4. Messages(list, W[a], W[b]) = [z \in 1 .. Len(path) |-> list.node[path[z]].data]
  BY <1>2 DEF Messages
<1>5. ASSUME NEW z \in 1 .. b - a
      PROVE  list.node[path[z]].data = M[a + z - 1]
  <2>1. a + z - 1 \in 1 .. m
    OBVIOUS
  <2> QED BY <1>3, <2>1
<1>6. Messages(list, W[a], W[b]) = [z \in 1 .. b - a |-> M[a + z - 1]]
  BY <1>3, <1>4, <1>5
<1>7. SubSeq(M, a, b - 1) = [z \in 1 .. b - a |-> M[a + z - 1]]
  <2> DEFINE d == SubSeq(M, a, b - 1)
  <2>1. d \in Seq(Message) /\ Len(d) = b - a
    OBVIOUS
  <2>2. \A z \in 1 .. b - a : d[z] = M[a + z - 1]
    OBVIOUS
  <2>3. d = [z \in 1 .. Len(d) |-> d[z]]
    <3> HIDE DEF d
    <3> QED BY <2>1
  <2> QED BY <2>1, <2>2, <2>3
<1> QED BY <1>1, <1>6, <1>7 DEF NodesAre, MessagesAre

(* The last message of a list that is not empty.                           *)
LEMMA LastOf ==
    ASSUME NEW list, NEW W, NEW m \in Nat \ {0}, Len(W) = m + 1,
           Way(list, W), NEW S, Heap(list, S)
    PROVE  /\ Nodes(list, list.head, list.tail) = [z \in 1 .. m |-> W[z]]
           /\ Last(Nodes(list, list.head, list.tail)) = W[m]
<1>1. PICK path : path = Nodes(list, list.head, list.tail)
  OBVIOUS
<1>2. path = [z \in 1 .. m |-> W[z]]
  <2>1. 1 \in 1 .. Len(W) /\ m + 1 \in 1 .. Len(W) /\ m + 1 \in 1 .. Len(W)
    OBVIOUS
  <2>2. Nodes(list, W[1], W[m + 1]) = [z \in 1 .. m + 1 - 1 |-> W[1 + z - 1]]
    BY <2>1, NodesOf DEF Way, NodesAre
  <2>3. m + 1 - 1 = m /\ \A z \in 1 .. m : 1 + z - 1 = z
    OBVIOUS
  <2>4. W[1] = list.head /\ W[m + 1] = list.tail
    BY DEF Way
  <2> QED BY <1>1, <2>2, <2>3, <2>4
<1>3. Len(path) = m
  <2> DEFINE T == {W[z] : z \in 1 .. m}
  <2>1. path \in [1 .. m -> T]
    BY <1>2
  <2> QED BY <2>1, FunIsSeq
<1>4. path[m] = W[m]
  BY <1>2
<1> QED BY <1>1, <1>2, <1>3, <1>4 DEF Last

(* fuzz_one opens a seed and chooses its M2.                               *)
LEMMA OpenIsSteady ==
    ASSUME NEW list, NEW W, NEW M \in Seq(Message), IsListOf(list, W, M),
           NEW i \in Nat, NEW j \in Nat, i < j, j <= Len(M), NEW path,
           path = Nodes(list, list.head, list.tail)
    PROVE  Steady(list, IF i = 0 THEN Null ELSE path[i],
                  IF j < Len(M) THEN path[j + 1] ELSE list.tail, W, M, i, j)
<1>0. PICK m : m = Len(M)
  OBVIOUS
<1>1. /\ m \in Nat \ {0} /\ Len(W) = m + 1
      /\ Heap(list, Inner(W)) /\ Way(list, W)
      /\ \A x \in 1 .. m : list.node[W[x]].data = M[x]
  BY <1>0 DEF IsListOf
<1>2. path = [z \in 1 .. m |-> W[z]]
  <2>1. PICK S : S = Inner(W)
    OBVIOUS
  <2>2. Heap(list, S)
    BY <1>1, <2>1
  <2> QED BY <1>1, <2>2, LastOf
<1>3. (i # 0 => path[i] = W[i]) /\ (j < m => path[j + 1] = W[j + 1])
  <2>1. (i # 0 => i \in 1 .. m) /\ (j < m => j + 1 \in 1 .. m)
    BY <1>0, <1>1
  <2> QED BY <1>2, <2>1
<1>4. PICK prev, next : /\ prev = IF i = 0 THEN Null ELSE path[i]
                        /\ next = IF j < m THEN path[j + 1] ELSE list.tail
  OBVIOUS
<1>5. Core(list, prev, next, W, M, i, j, m)
  <2>1. prev = IF i = 0 THEN Null ELSE W[i]
    BY <1>3, <1>4
  <2>2. next = IF j = m THEN list.tail ELSE W[j + 1]
    BY <1>0, <1>1, <1>3, <1>4
  <2>3. j <= m /\ m <= m
    BY <1>0, <1>1
  <2> QED BY <1>0, <1>1, <2>1, <2>2, <2>3, KnownIsCore
<1> QED BY <1>0, <1>1, <1>4, <1>5 DEF Steady

(* A mutated buffer is to be pushed behind the last message.               *)
LEMMA MutateIsPushing ==
    ASSUME NEW list, NEW prev, NEW next, NEW W, NEW M, NEW i, NEW j,
           Steady(list, prev, next, W, M, i, j), NEW new \in Seq(Message)
    PROVE  Pushing(list, prev, next, Last(Nodes(list, list.head, list.tail)),
                   new, new, W, M, i, j, Len(M))
<1>0. PICK m : m = Len(M)
  OBVIOUS
<1>1. Core(list, prev, next, W, M, i, j, m) /\ Heap(list, Inner(W))
  BY <1>0 DEF Steady
<1>2. Known(list, prev, next, W, M, m, i, j, m)
  BY <1>0, <1>1, CoreFacts
<1>3. /\ m \in Nat \ {0} /\ Len(W) = m + 1 /\ M \in Seq(Message)
      /\ Way(list, W)
  BY <1>2 DEF Known
<1>4. Last(Nodes(list, list.head, list.tail)) = W[m]
  <2>1. PICK S : S = Inner(W)
    OBVIOUS
  <2>2. Heap(list, S)
    BY <1>1, <2>1
  <2> QED BY <1>3, <2>2, LastOf
<1>5. SubSeq(M, m + 1, m) \o new = new
  <2>1. SubSeq(M, m + 1, m) = <<>>
    BY <1>3
  <2> QED BY <2>1, ConcatEmptySeq
<1> QED BY <1>0, <1>1, <1>4, <1>5 DEF Pushing

(* Append, for a value that need not be of the type of the sequence.       *)
LEMMA AppendFacts ==
    ASSUME NEW T, NEW s \in Seq(T), NEW a
    PROVE  /\ Len(Append(s, a)) = Len(s) + 1
           /\ Append(s, a)[Len(s) + 1] = a
           /\ \A x \in 1 .. Len(s) : Append(s, a)[x] = s[x]
<1> DEFINE U == T \cup {a}
<1>1. s \in Seq(U) /\ a \in U
  OBVIOUS
<1> HIDE DEF U
<1> QED BY <1>1, AppendProperties

(* A part up to the end, of a sequence that is appended to.                *)
LEMMA AppendSubSeq ==
    ASSUME NEW T, NEW s \in Seq(T), NEW a \in T, NEW k \in 0 .. Len(s)
    PROVE  SubSeq(Append(s, a), k + 1, Len(s) + 1)
             = Append(SubSeq(s, k + 1, Len(s)), a)
<1>0. PICK t, p, q, r : /\ t = Append(s, a) /\ p = k + 1
                        /\ q = Len(s) /\ r = q + 1
  OBVIOUS
<1>1. /\ p \in Int /\ q \in Nat /\ r \in Int /\ p \in 1 .. q + 1
      /\ r = q + 1 /\ Len(s) = q
  BY <1>0
<1>2. /\ t \in Seq(T) /\ Len(t) = q + 1 /\ t[q + 1] = a
      /\ \A x \in 1 .. q : t[x] = s[x]
  BY <1>0, AppendProperties
<1>3. /\ \A x \in 1 .. q : s[x] \in T
      /\ \A x \in 1 .. q + 1 : t[x] \in T
  BY <1>1, <1>2
<1>4. /\ \A x \in p .. q : s[x] \in T
      /\ \A x \in p .. r : t[x] \in T
  BY <1>1, <1>3
<1>5. PICK d, e, f : /\ d = SubSeq(s, p, q) /\ e = SubSeq(t, p, r)
                     /\ f = Append(d, a)
  OBVIOUS
<1>6. /\ d \in Seq(T) /\ Len(d) = IF p <= q THEN q - p + 1 ELSE 0
      /\ \A x \in 1 .. q - p + 1 : d[x] = s[p + x - 1]
  BY <1>1, <1>4, <1>5, SubSeqProperties
<1>7. /\ e \in Seq(T) /\ Len(e) = IF p <= r THEN r - p + 1 ELSE 0
      /\ \A x \in 1 .. r - p + 1 : e[x] = t[p + x - 1]
  BY <1>1, <1>4, <1>5, SubSeqProperties
<1>8. /\ f \in Seq(T) /\ Len(f) = Len(d) + 1 /\ f[Len(d) + 1] = a
      /\ \A x \in 1 .. Len(d) : f[x] = d[x]
  BY <1>5, <1>6, AppendProperties
<1>9. Len(d) = q - p + 1 /\ Len(e) = q - p + 2 /\ Len(f) = q - p + 2
  BY <1>1, <1>6, <1>7, <1>8
<1>10. ASSUME NEW x \in 1 .. q - p + 2 PROVE e[x] = f[x]
  <2>1. e[x] = t[p + x - 1]
    BY <1>1, <1>7
  <2>2. CASE x = q - p + 2
    <3>1. p + x - 1 = q + 1 /\ x = Len(d) + 1
      BY <1>1, <1>9, <2>2
    <3> QED BY <1>2, <1>8, <2>1, <3>1
  <2>3. CASE x # q - p + 2
    <3>1. p + x - 1 \in 1 .. q /\ x \in 1 .. Len(d) /\ x \in 1 .. q - p + 1
      BY <1>1, <1>9, <2>3
    <3> QED BY <1>2, <1>6, <1>8, <2>1, <3>1
  <2> QED BY <2>2, <2>3
<1>11. e = f
  <2>1. Len(e) = Len(f) /\ \A x \in 1 .. Len(e) : e[x] = f[x]
    BY <1>9, <1>10
  <2> QED BY <1>7, <1>8, <2>1, SeqEqual
<1> QED BY <1>0, <1>5, <1>11

(* One of them is pushed.                                                  *)
LEMMA PushIsPushing ==
    ASSUME NEW list, NEW prev, NEW next, NEW last, NEW rest, NEW new, NEW W,
           NEW M, NEW i, NEW j, NEW k, rest # <<>>,
           Pushing(list, prev, next, last, rest, new, W, M, i, j, k),
           NEW list1, list1 = kl_pushp(list, Head(rest)),
           NEW next1, next1 = IF list1.node[next].next = list1.tail
                              THEN list1.tail ELSE next
    PROVE  Pushing(list1, prev, next1, last, Tail(rest), new,
                   Append(W, list1.tail), Append(M, Head(rest)), i, j, k)
<1>0. PICK m, msg, S, V, M1 : /\ m = Len(M) /\ msg = Head(rest)
                              /\ S = Inner(W) /\ V = Append(W, list1.tail)
                              /\ M1 = Append(M, msg)
  OBVIOUS
<1>1. /\ Core(list, prev, next, W, M, i, j, k) /\ Way(list, W)
      /\ Heap(list, S) /\ last = W[k] /\ rest \in Seq(Message)
      /\ SubSeq(M, k + 1, m) \o rest = new
  BY <1>0 DEF Pushing, Core
<1>2. msg \in Message /\ msg \in Seq(Nat) /\ Tail(rest) \in Seq(Message)
  <2>1. msg \in Message /\ Tail(rest) \in Seq(Message)
    BY <1>0, <1>1
  <2> QED BY <2>1 DEF Message
<1>3. Known(list, prev, next, W, M, m, i, j, k)
  BY <1>0, <1>1, CoreFacts
<1>4. /\ i \in Nat /\ j \in Nat /\ k \in Nat /\ m \in Nat
      /\ i < j /\ j <= k /\ k <= m
      /\ M \in Seq(Message) /\ Len(M) = m
      /\ W \in Seq(1 .. Len(list.node)) /\ Len(W) = m + 1
      /\ W[m + 1] = list.tail
      /\ \A x \in 1 .. m : /\ list.node[W[x]].data = M[x]
                           /\ W[x] \in S
      /\ prev = IF i = 0 THEN Null ELSE W[i]
      /\ next = IF j = k THEN list.tail ELSE W[j + 1]
  BY <1>0, <1>3 DEF Known
<1>5. Pushed(list, S, W, msg, list1)
  <2>1. Inner(W) \subseteq S
    BY <1>0
  <2>2. list1 = kl_pushp(list, msg)
    BY <1>0
  <2> QED BY <1>1, <1>2, <2>1, <2>2, PushKeeps
<1>6. /\ Heap(list1, Inner(V)) /\ Way(list1, V)
      /\ \A q \in S : list1.node[q] = list.node[q]
      /\ list1.node[list.tail].data = msg
      /\ list1.node[list.tail].next = list1.tail
  BY <1>0, <1>5 DEF Pushed
<1>7. /\ Len(V) = m + 2 /\ V[m + 2] = list1.tail
      /\ \A x \in 1 .. m + 1 : V[x] = W[x]
  <2>1. PICK a : a = list1.tail
    OBVIOUS
  <2>2. PICK n : n = Len(list.node)
    OBVIOUS
  <2>3. W \in Seq(1 .. n)
    BY <1>4, <2>2
  <2>4. /\ Len(Append(W, a)) = Len(W) + 1
        /\ Append(W, a)[Len(W) + 1] = a
        /\ \A x \in 1 .. Len(W) : Append(W, a)[x] = W[x]
    BY <2>3, AppendFacts
  <2>5. Len(W) = m + 1 /\ m + 1 + 1 = m + 2
    BY <1>4
  <2> QED BY <1>0, <2>1, <2>4, <2>5
<1>8. /\ \A x, y \in 1 .. m + 2 : V[x] = V[y] => x = y
      /\ \A x \in 1 .. m + 1 : list1.node[V[x]].next = V[x + 1]
  <2>1. m + 2 - 1 = m + 1
    BY <1>4
  <2>2. \A x, y \in 1 .. Len(V) : V[x] = V[y] => x = y
    BY <1>6 DEF Way, Linked
  <2>3. \A x \in 1 .. Len(V) - 1 : list1.node[V[x]].next = V[x + 1]
    BY <1>6 DEF Way, Linked
  <2>4. Len(V) = m + 2 /\ Len(V) - 1 = m + 1
    BY <1>4, <1>7
  <2>5. 1 .. Len(V) = 1 .. m + 2 /\ 1 .. Len(V) - 1 = 1 .. m + 1
    BY <2>4
  <2>6. \A x, y \in 1 .. m + 2 : V[x] = V[y] => x = y
    BY <2>2, <2>5
  <2>7. \A x \in 1 .. m + 1 : list1.node[V[x]].next = V[x + 1]
    BY <2>3, <2>5
  <2> QED BY <2>6, <2>7
<1>9. /\ M1 \in Seq(Message) /\ Len(M1) = m + 1 /\ M1[m + 1] = msg
      /\ \A x \in 1 .. m : M1[x] = M[x]
  BY <1>0, <1>2, <1>4, AppendProperties
<1>10. ASSUME NEW x \in 1 .. m + 1 PROVE list1.node[V[x]].data = M1[x]
  <2>1. CASE x = m + 1
    <3>1. V[x] = list.tail
      BY <1>4, <1>7, <2>1
    <3> QED BY <1>6, <1>9, <2>1, <3>1
  <2>2. CASE x # m + 1
    <3>1. x \in 1 .. m
      BY <1>4, <2>2
    <3>2. V[x] = W[x] /\ M1[x] = M[x] /\ W[x] \in S
      BY <1>4, <1>7, <1>9, <3>1
    <3> QED BY <1>4, <1>6, <3>1, <3>2
  <2> QED BY <2>1, <2>2
<1>11. next1 = IF j = k THEN list1.tail ELSE V[j + 1]
  <2>2. CASE j = k
    BY <1>4, <1>6, <2>2
  <2>3. CASE j # k
    <3>1. j + 1 \in 1 .. m + 1 /\ j + 2 \in 1 .. m + 2 /\ j + 2 # m + 2
          /\ m + 2 \in 1 .. m + 2 /\ j + 1 + 1 = j + 2
      BY <1>4, <2>3
    <3>2. next = V[j + 1] /\ list1.node[next].next = V[j + 2]
      BY <1>4, <1>7, <1>8, <2>3, <3>1
    <3>3. V[j + 2] # list1.tail
      BY <1>7, <1>8, <3>1
    <3> QED BY <2>3, <3>2, <3>3
  <2> QED BY <2>2, <2>3
<1>12. prev = IF i = 0 THEN Null ELSE V[i]
  <2>1. i # 0 => V[i] = W[i]
    BY <1>4, <1>7
  <2> QED BY <1>4, <2>1
<1>13. last = V[k]
  BY <1>1, <1>4, <1>7
<1>14. SubSeq(M1, k + 1, m + 1) \o Tail(rest) = new
  <2>0. PICK d : d = SubSeq(M, k + 1, m)
    OBVIOUS
  <2>1. d \in Seq(Message)
    <3>1. \A x \in k + 1 .. m : M[x] \in Message
      BY <1>4
    <3>2. k + 1 \in Int /\ m \in Int
      BY <1>4
    <3> QED BY <2>0, <3>1, <3>2, SubSeqProperties
  <2>2. rest = <<msg>> \o Tail(rest)
    BY <1>0, <1>1
  <2>3. SubSeq(M1, k + 1, m + 1) = d \o <<msg>>
    <3>1. k \in 0 .. Len(M)
      BY <1>4
    <3>2. SubSeq(Append(M, msg), k + 1, Len(M) + 1) = Append(SubSeq(M, k + 1, Len(M)), msg)
      BY <1>2, <1>4, <3>1, AppendSubSeq
    <3>3. Append(d, msg) = d \o <<msg>>
      BY <1>2, <2>1, AppendIsConcat
    <3> QED BY <1>0, <2>0, <3>2, <3>3
  <2>4. (d \o <<msg>>) \o Tail(rest) = d \o (<<msg>> \o Tail(rest))
    <3>1. <<msg>> \in Seq(Message)
      BY <1>2
    <3> QED BY <1>2, <2>1, <3>1, ConcatAssociative
  <2>5. d \o rest = new
    BY <1>1, <2>0
  <2> QED BY <2>2, <2>3, <2>4, <2>5
<1>15. Core(list1, prev, next1, V, M1, i, j, k)
  <2>1. k <= m + 1 /\ m + 1 \in Nat /\ Len(V) = (m + 1) + 1
    BY <1>4, <1>7
  <2>2. PICK m1 : m1 = m + 1
    OBVIOUS
  <2>3. /\ Way(list1, V) /\ m1 \in Nat /\ Len(M1) = m1 /\ Len(V) = m1 + 1
        /\ M1 \in Seq(Message) /\ i \in Nat /\ j \in Nat /\ k \in Nat
        /\ i < j /\ j <= k /\ k <= m1
        /\ \A x \in 1 .. m1 : list1.node[V[x]].data = M1[x]
    BY <1>4, <1>6, <1>9, <1>10, <2>1, <2>2
  <2> QED BY <1>11, <1>12, <2>3, KnownIsCore
<1> QED BY <1>0, <1>2, <1>6, <1>9, <1>13, <1>14, <1>15 DEF Pushing

-----------------------------------------------------------------------------
(* The splice.                                                             *)

(* The list with three links set: prev, if there is one, leads to first,   *)
(* last to the tail and back to next.                                      *)
Relink(list, prev, next, last, back, first) ==
    LET linked == [list.node EXCEPT ![back].next = next,
                                    ![last].next = list.tail]
    IN  IF prev = Null
        THEN [list EXCEPT !.head = first, !.node = linked]
        ELSE [list EXCEPT !.node = [linked EXCEPT ![prev].next = first]]

(* What that means.                                                        *)
Relinked(list, prev, next, last, back, first, S, new) ==
    /\ Heap(new, S)
    /\ new.head = IF prev = Null THEN first ELSE list.head
    /\ new.tail = list.tail /\ Len(new.node) = Len(list.node)
    /\ \A q \in 1 .. Len(list.node) :
         /\ new.node[q].next = IF q = last THEN list.tail
                               ELSE IF q = back THEN next
                               ELSE IF q = prev THEN first
                               ELSE list.node[q].next
         /\ new.node[q].data = list.node[q].data

(* One link: the p-th node leads to q.                                     *)
LinkSet(nodes, n, p, q, new) ==
    /\ new \in Seq(NodeType) /\ Len(new) = n
    /\ \A x \in 1 .. n : /\ new[x].next = IF x = p THEN q ELSE nodes[x].next
                         /\ new[x].data = nodes[x].data
                         /\ new[x].live = nodes[x].live

(* An assignment to one next field sets one link.                          *)
LEMMA OneLink ==
    ASSUME NEW n \in Nat, NEW nodes \in Seq(NodeType), Len(nodes) = n,
           NEW p \in 1 .. n, NEW q \in Nat, NEW new,
           new = [nodes EXCEPT ![p].next = q]
    PROVE  LinkSet(nodes, n, p, q, new)
<1>1. nodes[p] \in NodeType /\ DOMAIN nodes = 1 .. n
  OBVIOUS
<1>2. PICK cell : cell = [nodes[p] EXCEPT !.next = q]
  OBVIOUS
<1>3. /\ cell \in NodeType /\ cell.next = q /\ cell.data = nodes[p].data
      /\ cell.live = nodes[p].live
  BY <1>1, <1>2 DEF NodeType
<1>4. new = [nodes EXCEPT ![p] = cell]
  BY <1>2
<1>5. /\ new \in Seq(NodeType) /\ Len(new) = n
      /\ \A x \in 1 .. n : new[x] = IF x = p THEN cell ELSE nodes[x]
  BY <1>3, <1>4, ExceptSeq
<1> QED BY <1>3, <1>5 DEF LinkSet

(* An update of the nodes leaves a list and its other fields.              *)
LEMMA NodeUpdate ==
    ASSUME NEW list \in ListType, NEW b \in Seq(NodeType),
           NEW new, new = [list EXCEPT !.node = b]
    PROVE  /\ new \in ListType
           /\ new.node = b /\ new.head = list.head /\ new.tail = list.tail
           /\ new.pool = list.pool /\ new.size = list.size
BY DEF ListType

(* The two or three links splice_messages sets, on any three nodes.        *)
LEMMA RelinkFacts ==
    ASSUME NEW list, NEW S, Heap(list, S), NEW n \in Nat,
           n = Len(list.node), NEW prev, prev = Null \/ prev \in 1 .. n,
           NEW next \in 1 .. n, NEW last \in 1 .. n, NEW back \in 1 .. n,
           NEW first \in 1 .. n, prev # last, prev # back, last # back,
           NEW new, new = Relink(list, prev, next, last, back, first)
    PROVE  Relinked(list, prev, next, last, back, first, S, new)
<1>1. /\ list \in ListType /\ list.node \in Seq(NodeType)
      /\ list.tail \in 1 .. n /\ list.tail \in Nat /\ list.head \in Nat
      /\ first \in Nat /\ next \in Nat
  BY DEF Heap, ListType
<1>2. PICK n1 : n1 = [list.node EXCEPT ![back].next = next]
  OBVIOUS
<1>3. /\ n1 \in Seq(NodeType) /\ Len(n1) = n
      /\ \A x \in 1 .. n :
           /\ n1[x].next = IF x = back THEN next ELSE list.node[x].next
           /\ n1[x].data = list.node[x].data
           /\ n1[x].live = list.node[x].live
  <2>1. Len(list.node) = n
    OBVIOUS
  <2>2. LinkSet(list.node, n, back, next, n1)
    BY <1>1, <1>2, <2>1, OneLink
  <2> QED BY <2>2 DEF LinkSet
<1>4. PICK n2 : n2 = [n1 EXCEPT ![last].next = list.tail]
  OBVIOUS
<1>5. /\ n2 \in Seq(NodeType) /\ Len(n2) = n
      /\ \A x \in 1 .. n :
           /\ n2[x].next = IF x = last THEN list.tail ELSE n1[x].next
           /\ n2[x].data = n1[x].data
           /\ n2[x].live = n1[x].live
  <2>1. LinkSet(n1, n, last, list.tail, n2)
    BY <1>1, <1>3, <1>4, OneLink
  <2> QED BY <2>1 DEF LinkSet
<1>6. n2 = [list.node EXCEPT ![back].next = next, ![last].next = list.tail]
  BY <1>2, <1>4
<1>7. PICK n3 : n3 = IF prev = Null THEN n2
                     ELSE [n2 EXCEPT ![prev].next = first]
  OBVIOUS
<1>8. /\ n3 \in Seq(NodeType) /\ Len(n3) = n
      /\ \A x \in 1 .. n :
           /\ n3[x].next = IF x = prev THEN first ELSE n2[x].next
           /\ n3[x].data = n2[x].data
           /\ n3[x].live = n2[x].live
  <2>1. CASE prev = Null
    <3>1. \A x \in 1 .. n : x # prev
      BY <2>1 DEF Null
    <3> QED BY <1>5, <1>7, <2>1, <3>1
  <2>2. CASE prev # Null
    <3>1. prev \in 1 .. n /\ n3 = [n2 EXCEPT ![prev].next = first]
      BY <1>7, <2>2
    <3>2. LinkSet(n2, n, prev, first, n3)
      BY <1>1, <1>5, <3>1, OneLink
    <3> QED BY <3>2 DEF LinkSet
  <2> QED BY <2>1, <2>2
<1>9. /\ new \in ListType /\ new.node = n3 /\ new.tail = list.tail
      /\ new.head = IF prev = Null THEN first ELSE list.head
      /\ new.pool = list.pool /\ new.size = list.size
  <2>1. CASE prev = Null
    <3>1. new = [list EXCEPT !.head = first, !.node = n3]
      BY <1>6, <1>7, <2>1 DEF Relink
    <3>2. first \in Nat /\ n3 \in Seq(NodeType) /\ list \in ListType
      BY <1>1, <1>8
    <3>3. /\ new \in ListType
          /\ new.node = n3 /\ new.head = first /\ new.tail = list.tail
          /\ new.pool = list.pool /\ new.size = list.size
      BY <3>1, <3>2 DEF ListType
    <3> QED BY <2>1, <3>3
  <2>2. CASE prev # Null
    <3>1. new = [list EXCEPT !.node = n3]
      BY <1>6, <1>7, <2>2 DEF Relink
    <3> QED BY <1>1, <1>8, <2>2, <3>1, NodeUpdate
  <2> QED BY <2>1, <2>2
<1>10. ASSUME NEW x \in 1 .. n
       PROVE  /\ n3[x].next = IF x = last THEN list.tail
                              ELSE IF x = back THEN next
                              ELSE IF x = prev THEN first
                              ELSE list.node[x].next
              /\ n3[x].data = list.node[x].data
              /\ n3[x].live = list.node[x].live
  BY <1>3, <1>5, <1>8
<1>11. ASSUME NEW x \in 1 .. n
       PROVE  n3[x].next \in 0 .. n /\ (n3[x].live <=> x \in S)
  <2>1. list.node[x].next \in 0 .. n /\ (list.node[x].live <=> x \in S)
    BY DEF Heap
  <2>2. n3[x].next \in 0 .. n
    <3>1. \/ n3[x].next = list.tail \/ n3[x].next = next
          \/ n3[x].next = first \/ n3[x].next = list.node[x].next
      BY <1>10
    <3>2. 1 .. n \subseteq 0 .. n
      OBVIOUS
    <3> QED BY <1>1, <2>1, <3>1, <3>2
  <2>3. n3[x].live = list.node[x].live
    BY <1>10
  <2> QED BY <2>1, <2>2, <2>3
<1>12. Heap(new, S)
  <2>1. /\ S \subseteq (1 .. n) \ {list.tail} /\ list.size = Cardinality(S)
        /\ \A x \in 1 .. Len(list.pool) :
             /\ list.pool[x] \in 1 .. n
             /\ list.pool[x] \notin S /\ list.pool[x] # list.tail
             /\ \A y \in 1 .. Len(list.pool) :
                  list.pool[x] = list.pool[y] => x = y
    BY DEF Heap
  <2>2. Len(new.node) = n
    BY <1>8, <1>9
  <2> QED BY <1>1, <1>9, <1>11, <2>1, <2>2 DEF Heap
<1> QED BY <1>8, <1>9, <1>10, <1>12 DEF Relinked

(* Where the x-th message of the new list was in the old one: the first i, *)
(* the new ones behind k, those behind j, and the tail.                    *)
Moved(i, j, k, m, x) ==
    IF x <= i THEN x
    ELSE IF x <= i + m - k THEN k + x - i
    ELSE IF x <= i + m - j THEN x - (i + m - k) + j
    ELSE m + 1

IsMove(i, j, k, m, m1) ==
    /\ \A x \in 1 .. m1 :
         Moved(i, j, k, m, x) \in (1 .. i) \cup (j + 1 .. m)
    /\ Moved(i, j, k, m, m1 + 1) = m + 1
    /\ \A x \in 1 .. m1 + 1 : Moved(i, j, k, m, x) \in 1 .. m + 1
    /\ \A x, y \in 1 .. m1 + 1 :
         Moved(i, j, k, m, x) = Moved(i, j, k, m, y) => x = y
    /\ \A z \in (1 .. i) \cup (j + 1 .. m) :
         \E x \in 1 .. m1 : Moved(i, j, k, m, x) = z

(* Moved numbers the places that stay: an injection onto them.             *)
LEMMA MovedFacts ==
    ASSUME NEW i \in Nat, NEW j \in Nat, NEW k \in Nat, NEW m \in Nat,
           i < j, j <= k, k < m, NEW m1, m1 = i + m - j
    PROVE  IsMove(i, j, k, m, m1)
<1>1. \A x \in 1 .. i + m - j :
        Moved(i, j, k, m, x) \in (1 .. i) \cup (j + 1 .. m)
  BY DEF Moved
<1>2. Moved(i, j, k, m, i + m - j + 1) = m + 1
  BY DEF Moved
<1>3. \A x \in 1 .. i + m - j + 1 : Moved(i, j, k, m, x) \in 1 .. m + 1
  BY DEF Moved
<1>4. \A x, y \in 1 .. i + m - j + 1 :
        Moved(i, j, k, m, x) = Moved(i, j, k, m, y) => x = y
  BY DEF Moved
<1>5. ASSUME NEW z \in (1 .. i) \cup (j + 1 .. m)
      PROVE  \E x \in 1 .. i + m - j : Moved(i, j, k, m, x) = z
  <2>1. CASE z <= i
    <3>1. z \in 1 .. i + m - j /\ Moved(i, j, k, m, z) = z
      BY <2>1 DEF Moved
    <3> QED BY <3>1
  <2>2. CASE z > k
    <3>1. z - k + i \in 1 .. i + m - j /\ Moved(i, j, k, m, z - k + i) = z
      BY <2>2 DEF Moved
    <3> QED BY <3>1
  <2>3. CASE z > i /\ z <= k
    <3>1. z - j + (i + m - k) \in 1 .. i + m - j
          /\ Moved(i, j, k, m, z - j + (i + m - k)) = z
      BY <2>3 DEF Moved
    <3> QED BY <3>1
  <2> QED BY <2>1, <2>2, <2>3
<1> QED BY <1>1, <1>2, <1>3, <1>4, <1>5 DEF IsMove

(* What the z-th node of the old list leads to after the splice.           *)
After(i, j, k, m, z) ==
    IF z = k THEN m + 1
    ELSE IF z = m THEN (IF j = k THEN m + 1 ELSE j + 1)
    ELSE IF z = i THEN k + 1
    ELSE z + 1

(* After a splice, the next place of x is the next one in the old list.    *)
LEMMA MovedLinks ==
    ASSUME NEW i \in Nat, NEW j \in Nat, NEW k \in Nat, NEW m \in Nat,
           i < j, j <= k, k < m, NEW x \in 1 .. i + m - j
    PROVE  After(i, j, k, m, Moved(i, j, k, m, x)) = Moved(i, j, k, m, x + 1)
<1>1. CASE x < i
  BY <1>1 DEF After, Moved
<1>2. CASE x = i
  BY <1>2 DEF After, Moved
<1>3. CASE x > i /\ x < i + m - k
  BY <1>3 DEF After, Moved
<1>4. CASE x = i + m - k
  BY <1>4 DEF After, Moved
<1>5. CASE x > i + m - k /\ x < i + m - j
  BY <1>5 DEF After, Moved
<1>6. CASE x > i + m - k /\ x = i + m - j
  BY <1>6 DEF After, Moved
<1> QED BY <1>1, <1>2, <1>3, <1>4, <1>5, <1>6

(* What a splice makes of the list: V and M1 are the nodes and messages    *)
(* now, R the nodes of the old M2 and the one behind them.                 *)
Spliced(list1, prev, next, W, M, V, M1, m1, R, i, j, k, m) ==
    /\ m1 = i + m - j /\ m1 \in Nat
    /\ V = [x \in 1 .. m1 + 1 |-> W[Moved(i, j, k, m, x)]]
    /\ M1 = [x \in 1 .. m1 |-> M[Moved(i, j, k, m, x)]]
    /\ R = [x \in 1 .. j - i + 1 |-> IF x <= j - i THEN W[i + x] ELSE next]

LinkedAfter(list1, W, i, j, k, m) ==
    \A z \in 1 .. m : list1.node[W[z]].next = W[After(i, j, k, m, z)]

(* The links Relink leaves are those After describes.                      *)
LEMMA SpliceLinks ==
    ASSUME NEW list, NEW prev, NEW next, NEW W, NEW M, NEW m, NEW i, NEW j,
           NEW k, Known(list, prev, next, W, M, m, i, j, k), k < m,
           NEW S, NEW list1,
           Relinked(list, prev, next, W[k], W[m], W[k + 1], S, list1)
    PROVE  LinkedAfter(list1, W, i, j, k, m)
<1>1. /\ m \in Nat /\ i \in Nat /\ j \in Nat /\ k \in Nat
      /\ i < j /\ j <= k
      /\ W[m + 1] = list.tail
      /\ \A x \in 1 .. m + 1 : W[x] \in 1 .. Len(list.node)
      /\ \A x, y \in 1 .. m + 1 : W[x] = W[y] => x = y
      /\ \A x \in 1 .. m : list.node[W[x]].next = W[x + 1]
      /\ prev = IF i = 0 THEN Null ELSE W[i]
      /\ next = IF j = k THEN list.tail ELSE W[j + 1]
  BY DEF Known
<1> SUFFICES ASSUME NEW z \in 1 .. m
             PROVE  list1.node[W[z]].next = W[After(i, j, k, m, z)]
  BY DEF LinkedAfter
<1>2. list1.node[W[z]].next = IF W[z] = W[k] THEN list.tail
                              ELSE IF W[z] = W[m] THEN next
                              ELSE IF W[z] = prev THEN W[k + 1]
                              ELSE list.node[W[z]].next
  <2>1. z \in 1 .. m + 1
    BY <1>1
  <2>2. W[z] \in 1 .. Len(list.node)
    BY <1>1, <2>1
  <2> QED BY <2>2 DEF Relinked
<1>3. /\ z \in 1 .. m + 1 /\ k \in 1 .. m + 1 /\ m \in 1 .. m + 1
      /\ (i # 0 => i \in 1 .. m + 1)
  BY <1>1
<1>4. /\ W[z] = W[k] <=> z = k
      /\ W[z] = W[m] <=> z = m
  BY <1>1, <1>3
<1>5. W[z] = prev <=> z = i
  <2>1. CASE i = 0
    <3>1. W[z] \in 1 .. Len(list.node)
      BY <1>1, <1>3
    <3>2. W[z] # Null
      BY <3>1 DEF Null
    <3>3. z # 0
      OBVIOUS
    <3> QED BY <1>1, <2>1, <3>2, <3>3
  <2>2. CASE i # 0
    BY <1>1, <1>3, <2>2
  <2> QED BY <2>1, <2>2
<1> QED BY <1>1, <1>2, <1>4, <1>5 DEF After

(* The list then.                                                          *)
SpliceDone(list1, prev, next, W, V, M1, i, j, m, j1, m1) ==
    /\ Core(list1, prev, next, V, M1, i, j1, m1)
    /\ Len(M1) = m1
    /\ Inner(V) = {W[z] : z \in (1 .. i) \cup (j + 1 .. m)}

(* They make a way of the messages before M2, the new ones and those behind.*)
LEMMA SpliceWay ==
    ASSUME NEW list, NEW prev, NEW next, NEW W, NEW M, NEW m, NEW i, NEW j,
           NEW k, Known(list, prev, next, W, M, m, i, j, k), k < m,
           NEW S, NEW list1,
           Relinked(list, prev, next, W[k], W[m], W[k + 1], S, list1),
           NEW V, NEW M1, NEW m1, NEW R,
           Spliced(list1, prev, next, W, M, V, M1, m1, R, i, j, k, m),
           NEW j1, j1 = i + m - k
    PROVE  SpliceDone(list1, prev, next, W, V, M1, i, j, m, j1, m1)
<1>1. /\ m \in Nat /\ i \in Nat /\ j \in Nat /\ k \in Nat
      /\ i < j /\ j <= k
      /\ W[1] = list.head /\ W[m + 1] = list.tail
      /\ \A x \in 1 .. m + 1 : W[x] \in 1 .. Len(list.node)
      /\ \A x, y \in 1 .. m + 1 : W[x] = W[y] => x = y
      /\ \A x \in 1 .. m : list.node[W[x]].data = M[x]
      /\ M \in Seq(Message) /\ Len(M) = m
      /\ prev = IF i = 0 THEN Null ELSE W[i]
      /\ next = IF j = k THEN list.tail ELSE W[j + 1]
  BY DEF Known
<1>2. /\ m1 = i + m - j /\ m1 \in Nat
      /\ V = [x \in 1 .. m1 + 1 |-> W[Moved(i, j, k, m, x)]]
      /\ M1 = [x \in 1 .. m1 |-> M[Moved(i, j, k, m, x)]]
  BY DEF Spliced
<1>3. /\ \A x \in 1 .. m1 :
           Moved(i, j, k, m, x) \in (1 .. i) \cup (j + 1 .. m)
      /\ Moved(i, j, k, m, m1 + 1) = m + 1
      /\ \A x \in 1 .. m1 + 1 : Moved(i, j, k, m, x) \in 1 .. m + 1
      /\ \A x, y \in 1 .. m1 + 1 :
           Moved(i, j, k, m, x) = Moved(i, j, k, m, y) => x = y
      /\ \A z \in (1 .. i) \cup (j + 1 .. m) :
           \E x \in 1 .. m1 : Moved(i, j, k, m, x) = z
  <2>1. IsMove(i, j, k, m, m1)
    BY <1>1, <1>2, MovedFacts
  <2> QED BY <2>1 DEF IsMove
<1>4. \A z \in (1 .. i) \cup (j + 1 .. m) : z \in 1 .. m
  BY <1>1
<1>5. /\ V \in Seq(1 .. Len(list1.node)) /\ Len(V) = m1 + 1
      /\ \A x \in 1 .. m1 + 1 : V[x] = W[Moved(i, j, k, m, x)]
  <2>1. PICK n : n = Len(list.node)
    OBVIOUS
  <2>2. Len(list1.node) = n
    BY <2>1 DEF Relinked
  <2>3. V \in [1 .. m1 + 1 -> 1 .. n]
    BY <1>1, <1>2, <1>3, <2>1
  <2>4. V \in Seq(1 .. n) /\ Len(V) = m1 + 1
    <3>1. PICK l : l = m1 + 1
      OBVIOUS
    <3>2. l \in Nat /\ V \in [1 .. l -> 1 .. n]
      BY <1>2, <2>3, <3>1
    <3> QED BY <3>1, <3>2, FunIsSeq
  <2> QED BY <1>2, <2>2, <2>4
<1>6. \A x, y \in 1 .. m1 + 1 : V[x] = V[y] => x = y
  <2> SUFFICES ASSUME NEW x \in 1 .. m1 + 1, NEW y \in 1 .. m1 + 1,
                      V[x] = V[y]
               PROVE  x = y
    OBVIOUS
  <2>1. PICK a, b : a = Moved(i, j, k, m, x) /\ b = Moved(i, j, k, m, y)
    OBVIOUS
  <2>2. a \in 1 .. m + 1 /\ b \in 1 .. m + 1 /\ (a = b => x = y)
    BY <1>3, <2>1
  <2>3. W[a] = W[b]
    BY <1>5, <2>1
  <2>4. a = b
    BY <1>1, <2>2, <2>3
  <2> QED BY <2>2, <2>4
<1>7. /\ M1 \in Seq(Message) /\ Len(M1) = m1
      /\ \A x \in 1 .. m1 : M1[x] = M[Moved(i, j, k, m, x)]
  <2>1. \A x \in 1 .. m1 : M[Moved(i, j, k, m, x)] \in Message
    BY <1>1, <1>3, <1>4
  <2>2. M1 \in [1 .. m1 -> Message]
    BY <1>2, <2>1
  <2> QED BY <1>2, <2>2, FunIsSeq
<1>8. ASSUME NEW x \in 1 .. m1
      PROVE  /\ list1.node[V[x]].next = V[x + 1]
             /\ list1.node[V[x]].data = M1[x]
  <2>0. PICK z : z = Moved(i, j, k, m, x)
    OBVIOUS
  <2>1. /\ x \in 1 .. m1 + 1 /\ x + 1 \in 1 .. m1 + 1
        /\ z \in 1 .. m /\ V[x] = W[z] /\ M1[x] = M[z]
        /\ V[x + 1] = W[Moved(i, j, k, m, x + 1)]
    BY <1>2, <1>3, <1>4, <1>5, <1>7, <2>0
  <2>2. list1.node[W[z]].next = W[After(i, j, k, m, z)]
    <3>1. LinkedAfter(list1, W, i, j, k, m)
      BY SpliceLinks
    <3> QED BY <2>1, <3>1 DEF LinkedAfter
  <2>3. After(i, j, k, m, z) = Moved(i, j, k, m, x + 1)
    <3>1. x \in 1 .. i + m - j
      BY <1>2
    <3> QED BY <1>1, <2>0, <3>1, MovedLinks, SMTT(30)
  <2>4. list1.node[W[z]].data = list.node[W[z]].data
    <3>1. W[z] \in 1 .. Len(list.node)
      <4>1. z \in 1 .. m + 1
        BY <1>1, <2>1
      <4> QED BY <1>1, <4>1
    <3> QED BY <3>1 DEF Relinked
  <2> QED BY <1>1, <2>1, <2>2, <2>3, <2>4
<1>9. Linked(list1, V) /\ Inner(V) = {V[x] : x \in 1 .. m1}
  <2>1. \A x \in 1 .. m1 : list1.node[V[x]].next = V[x + 1]
    BY <1>8
  <2>2. V \in Seq(1 .. Len(list1.node)) /\ Len(V) = m1 + 1 /\ m1 \in Nat
    BY <1>2, <1>5
  <2>3. Len(V) - 1 = m1 /\ V # <<>>
    BY <2>2
  <2>4. \A x, y \in 1 .. Len(V) : V[x] = V[y] => x = y
    BY <1>6, <2>2
  <2>5. Linked(list1, V)
    BY <2>1, <2>2, <2>3, <2>4 DEF Linked
  <2> QED BY <2>3, <2>5 DEF Inner
<1>10. Inner(V) = {W[z] : z \in (1 .. i) \cup (j + 1 .. m)}
  <2>1. \A x \in 1 .. m1 : x \in 1 .. m1 + 1
    BY <1>2
  <2>2. \A x \in 1 .. m1 : V[x] \in {W[z] : z \in (1 .. i) \cup (j + 1 .. m)}
    BY <1>3, <1>5, <2>1
  <2>3. ASSUME NEW z \in (1 .. i) \cup (j + 1 .. m) PROVE W[z] \in Inner(V)
    <3>1. PICK x \in 1 .. m1 : Moved(i, j, k, m, x) = z
      BY <1>3
    <3>2. V[x] = W[z]
      BY <1>5, <2>1, <3>1
    <3> QED BY <1>9, <3>2
  <2> QED BY <1>9, <2>2, <2>3
<1>11. V[m1 + 1] = list1.tail
  <2>1. m1 + 1 \in 1 .. m1 + 1
    BY <1>2
  <2>2. list1.tail = list.tail
    BY DEF Relinked
  <2> QED BY <1>1, <1>3, <1>5, <2>1, <2>2
<1>12. V[1] = list1.head
  <2>1. 1 \in 1 .. m1 + 1 /\ i + m - k >= 1
    BY <1>2, <1>1
  <2>2. list1.head = IF prev = Null THEN W[k + 1] ELSE list.head
    BY DEF Relinked
  <2>3. Moved(i, j, k, m, 1) = IF i = 0 THEN k + 1 ELSE 1
    BY <1>1, <2>1 DEF Moved
  <2>4. i # 0 => prev # Null
    <3>1. i # 0 => i \in 1 .. m + 1
      BY <1>1
    <3>2. i # 0 => prev \in 1 .. Len(list.node)
      BY <1>1, <3>1
    <3> QED BY <3>2 DEF Null
  <2> QED BY <1>1, <1>5, <2>1, <2>2, <2>3, <2>4
<1>13. Way(list1, V)
  <2>1. V[Len(V)] = list1.tail
    BY <1>5, <1>11
  <2> QED BY <1>9, <1>12, <2>1 DEF Way
<1>14. prev = IF i = 0 THEN Null ELSE V[i]
  <2>1. i # 0 => i \in 1 .. m1 + 1 /\ Moved(i, j, k, m, i) = i
    BY <1>1, <1>2 DEF Moved
  <2> QED BY <1>1, <1>5, <2>1
<1>15. j1 = i + m - k
  OBVIOUS
<1>16. j1 \in Nat /\ i < j1 /\ j1 <= m1 /\ m1 <= m1 /\ (j1 = m1 <=> j = k)
  BY <1>1, <1>2, <1>15
<1>17. next = IF j1 = m1 THEN list1.tail ELSE V[j1 + 1]
  <2>1. CASE j = k
    <3>1. list1.tail = list.tail
      BY DEF Relinked
    <3> QED BY <1>1, <1>16, <2>1, <3>1
  <2>2. CASE j # k
    <3>1. j1 + 1 \in 1 .. m1 + 1 /\ Moved(i, j, k, m, j1 + 1) = j + 1
      <4>1. j < k /\ j1 + 1 > i + m - k /\ j1 + 1 <= i + m - j
        BY <1>1, <1>15, <2>2
      <4>2. j1 + 1 > i /\ (j1 + 1) - (i + m - k) + j = j + 1
        BY <1>1, <1>15
      <4>3. j1 + 1 \in 1 .. m1 + 1
        BY <1>1, <1>2, <1>15, <4>1
      <4>4. ~ (j1 + 1 <= i) /\ ~ (j1 + 1 <= i + m - k)
        <5>1. i \in Nat /\ j1 \in Nat /\ i < j1
          BY <1>1, <1>16
        <5>2. ~ (j1 + 1 <= i) /\ ~ (j1 + 1 <= j1)
          BY <5>1
        <5> QED BY <1>15, <5>2
      <4> QED BY <4>1, <4>2, <4>3, <4>4 DEF Moved
    <3> QED BY <1>1, <1>5, <1>16, <2>2, <3>1
  <2> QED BY <2>1, <2>2
<1>18. Core(list1, prev, next, V, M1, i, j1, m1)
  <2>1. \A x \in 1 .. m1 : list1.node[V[x]].data = M1[x]
    BY <1>8
  <2>2. /\ Way(list1, V) /\ m1 \in Nat /\ Len(M1) = m1 /\ Len(V) = m1 + 1
        /\ M1 \in Seq(Message) /\ i \in Nat /\ j1 \in Nat
        /\ i < j1 /\ j1 <= m1 /\ m1 <= m1
    BY <1>1, <1>2, <1>5, <1>7, <1>13, <1>16
  <2> QED BY <1>14, <1>17, <2>1, <2>2, KnownIsCore
<1> QED BY <1>7, <1>10, <1>18 DEF SpliceDone

(* The l elements of s behind the a-th are those of t behind the b-th.     *)
Agree(s, a, t, b, l) == \A x \in 1 .. l : s[a + x] = t[b + x]

(* These elements are the p-th to the c-th and the q-th to the d-th.       *)
Same(s, a, p, c, t, b, q, d, l) == SubSeq(s, p, c) = SubSeq(t, q, d)

(* Elements that agree make equal parts.                                   *)
LEMMA SameParts ==
    ASSUME NEW T, NEW s \in Seq(T), NEW t \in Seq(T), NEW a \in Nat,
           NEW b \in Nat, NEW l \in Nat, a + l <= Len(s), b + l <= Len(t),
           Agree(s, a, t, b, l), NEW c, NEW d, c = a + l, d = b + l,
           NEW p, NEW q, p = a + 1, q = b + 1
    PROVE  Same(s, a, p, c, t, b, q, d, l)
<1>1. p = a + 1 /\ q = b + 1 /\ c = a + l /\ d = b + l
  OBVIOUS
<1>2. /\ p \in Int /\ q \in Int /\ c \in Int /\ d \in Int
      /\ \A x \in p .. c : x \in 1 .. Len(s)
      /\ \A x \in q .. d : x \in 1 .. Len(t)
  BY <1>1
<1>3. (\A x \in p .. c : s[x] \in T) /\ (\A x \in q .. d : t[x] \in T)
  BY <1>2
<1>4. PICK u, v : u = SubSeq(s, p, c) /\ v = SubSeq(t, q, d)
  OBVIOUS
<1>5. /\ u \in Seq(T) /\ Len(u) = IF p <= c THEN c - p + 1 ELSE 0
      /\ \A x \in 1 .. c - p + 1 : u[x] = s[p + x - 1]
  BY <1>2, <1>3, <1>4, SubSeqProperties
<1>6. /\ v \in Seq(T) /\ Len(v) = IF q <= d THEN d - q + 1 ELSE 0
      /\ \A x \in 1 .. d - q + 1 : v[x] = t[q + x - 1]
  BY <1>2, <1>3, <1>4, SubSeqProperties
<1>7. /\ c - p + 1 = l /\ d - q + 1 = l
      /\ (l # 0 => p <= c /\ q <= d) /\ (l = 0 => ~ (p <= c) /\ ~ (q <= d))
  BY <1>1
<1>8. Len(u) = l /\ Len(v) = l
  BY <1>5, <1>6, <1>7
<1>9. ASSUME NEW x \in 1 .. l PROVE u[x] = v[x]
  <2>1. p + x - 1 = a + x /\ q + x - 1 = b + x
    BY <1>1
  <2> QED BY <1>5, <1>6, <1>7, <2>1 DEF Agree
<1>10. u = v
  BY <1>5, <1>6, <1>8, <1>9, SeqEqual
<1> QED BY <1>4, <1>10 DEF Same

(* The three parts of a session.                                           *)
Parts(M, i, j, k, m1, m2, m3) ==
    /\ m1 = SubSeq(M, 1, i) /\ m2 = SubSeq(M, i + 1, j)
    /\ m3 = SubSeq(M, j + 1, k)

(* The splice replaces the second one by what has been pushed.             *)
LEMMA SpliceParts ==
    ASSUME NEW list1, NEW prev, NEW next, NEW W, NEW M \in Seq(Message),
           NEW V, NEW M1 \in Seq(Message),
           NEW m1, NEW R, NEW i \in Nat, NEW j \in Nat, NEW k \in Nat,
           NEW m \in Nat, m = Len(M), Len(M1) = m1, i < j, j <= k, k < m,
           Spliced(list1, prev, next, W, M, V, M1, m1, R, i, j, k, m)
    PROVE  Parts(M1, i, i + m - k, m1, SubSeq(M, 1, i), SubSeq(M, k + 1, m),
                 SubSeq(M, j + 1, k))
<1>1. /\ m1 = i + m - j /\ m1 \in Nat
      /\ \A x \in 1 .. m1 : M1[x] = M[Moved(i, j, k, m, x)]
  BY DEF Spliced
<1>2. PICK j1 : j1 = i + m - k
  OBVIOUS
<1>3. /\ j1 \in Nat /\ m - k \in Nat /\ k - j \in Nat
      /\ j1 = i + (m - k) /\ m = k + (m - k) /\ k = j + (k - j)
      /\ m1 = j1 + (k - j) /\ i <= m1 /\ i <= m /\ j1 <= m1
  BY <1>1, <1>2
<1>4. SubSeq(M1, 1, i) = SubSeq(M, 1, i)
  <2>1. Agree(M1, 0, M, 0, i)
    <3> SUFFICES ASSUME NEW x \in 1 .. i PROVE M1[0 + x] = M[0 + x]
      BY DEF Agree
    <3>1. x \in 1 .. m1 /\ Moved(i, j, k, m, x) = x /\ 0 + x = x
      BY <1>1 DEF Moved
    <3> QED BY <1>1, <3>1
  <2>2. PICK z : z = 0
    OBVIOUS
  <2>3. /\ z \in Nat /\ z + i <= Len(M1) /\ z + i <= Len(M)
        /\ i = z + i /\ 1 = z + 1 /\ Agree(M1, z, M, z, i)
    BY <1>3, <2>1, <2>2
  <2>4. PICK o : o = 1 /\ o = z + 1
    BY <2>2
  <2>5. Same(M1, z, o, i, M, z, o, i, i)
    BY <2>3, <2>4, SameParts
  <2> QED BY <2>4, <2>5 DEF Same
<1>5. SubSeq(M1, i + 1, j1) = SubSeq(M, k + 1, m)
  <2>0. PICK l : l = m - k
    OBVIOUS
  <2>1. Agree(M1, i, M, k, l)
    <3> SUFFICES ASSUME NEW x \in 1 .. l PROVE M1[i + x] = M[k + x]
      BY DEF Agree
    <3>1. i + x \in 1 .. m1 /\ Moved(i, j, k, m, i + x) = k + x
      BY <1>1, <2>0 DEF Moved
    <3> QED BY <1>1, <3>1
  <2>2. l \in Nat /\ i + l <= Len(M1) /\ k + l <= Len(M) /\ j1 = i + l /\ m = k + l
    BY <1>3, <2>0
  <2>3. PICK p, q : p = i + 1 /\ q = k + 1
    OBVIOUS
  <2>4. Same(M1, i, p, j1, M, k, q, m, l)
    BY <2>1, <2>2, <2>3, SameParts
  <2> QED BY <2>3, <2>4 DEF Same
<1>6. SubSeq(M1, j1 + 1, m1) = SubSeq(M, j + 1, k)
  <2>0. PICK l : l = k - j
    OBVIOUS
  <2>1. Agree(M1, j1, M, j, l)
    <3> SUFFICES ASSUME NEW x \in 1 .. l PROVE M1[j1 + x] = M[j + x]
      BY DEF Agree
    <3>1. PICK y : y = j1 + x
      OBVIOUS
    <3>2. /\ y \in 1 .. m1 /\ ~ (y <= i) /\ ~ (y <= i + m - k)
          /\ y <= i + m - j /\ y - (i + m - k) + j = j + x
      BY <1>1, <1>2, <1>3, <2>0, <3>1
    <3>3. Moved(i, j, k, m, y) = j + x
      BY <3>2 DEF Moved
    <3> QED BY <1>1, <3>1, <3>2, <3>3
  <2>2. l \in Nat /\ j1 + l <= Len(M1) /\ j + l <= Len(M) /\ m1 = j1 + l /\ k = j + l
    BY <1>3, <2>0
  <2>3. PICK p, q : p = j1 + 1 /\ q = j + 1
    OBVIOUS
  <2>4. Same(M1, j1, p, m1, M, j, q, k, l)
    BY <1>3, <2>1, <2>2, <2>3, SameParts
  <2> QED BY <2>3, <2>4 DEF Same
<1> QED BY <1>2, <1>4, <1>5, <1>6 DEF Parts

(* The splice: the new messages are M2, and the old ones are to be freed.  *)
LEMMA SpliceIsFreeing ==
    ASSUME NEW list, NEW prev, NEW next, NEW last, NEW new, NEW W, NEW M,
           NEW i, NEW j, NEW k, new # <<>>,
           Pushing(list, prev, next, last, <<>>, new, W, M, i, j, k),
           NEW back, back = Last(Nodes(list, list.head, list.tail)),
           NEW first, first = list.node[last].next,
           NEW list1, list1 = Relink(list, prev, next, last, back, first),
           NEW cur, cur = IF prev = Null THEN list.head
                          ELSE list.node[prev].next
    PROVE  \E V, M1, R, j1 :
             /\ Freeing(list1, prev, next, cur, V, M1, i, j1, R)
             /\ Parts(M1, i, j1, Len(M1), SubSeq(M, 1, i), new,
                      SubSeq(M, j + 1, k))
<1>0. PICK m, S : m = Len(M) /\ S = Inner(W)
  OBVIOUS
<1>1. /\ Core(list, prev, next, W, M, i, j, k) /\ Heap(list, S)
      /\ last = W[k] /\ SubSeq(M, k + 1, m) \o <<>> = new
  BY <1>0 DEF Pushing
<1>2. Known(list, prev, next, W, M, m, i, j, k)
  BY <1>0, <1>1, CoreFacts
<1>3. /\ m \in Nat /\ i \in Nat /\ j \in Nat /\ k \in Nat
      /\ i < j /\ j <= k /\ k <= m
      /\ M \in Seq(Message) /\ Len(M) = m /\ Len(W) = m + 1
      /\ W[1] = list.head /\ W[m + 1] = list.tail
      /\ \A x \in 1 .. m + 1 : W[x] \in 1 .. Len(list.node)
      /\ \A x, y \in 1 .. m + 1 : W[x] = W[y] => x = y
      /\ \A x \in 1 .. m : list.node[W[x]].next = W[x + 1]
      /\ S = {W[x] : x \in 1 .. m}
      /\ prev = IF i = 0 THEN Null ELSE W[i]
      /\ next = IF j = k THEN list.tail ELSE W[j + 1]
      /\ Way(list, W)
  BY <1>0, <1>2 DEF Known
<1>30. /\ m \in Nat /\ i \in Nat /\ j \in Nat /\ k \in Nat
       /\ i < j /\ j <= k /\ k <= m
  BY <1>3
<1>4. k < m /\ SubSeq(M, k + 1, m) = new
  <2>1. PICK p, q : p = k + 1 /\ q = m /\ p \in Int /\ q \in Int
    BY <1>3, SMTT(30)
  <2>2. \A x \in p .. q : M[x] \in Message
    <3>1. \A x \in p .. q : x \in 1 .. m
      BY <1>3, <2>1
    <3> QED BY <1>3, <3>1
  <2>3. SubSeq(M, p, q) \in Seq(Message)
    BY <2>1, <2>2, SubSeqProperties
  <2>4. SubSeq(M, p, q) = new
    BY <1>1, <2>1, <2>3, ConcatEmptySeq
  <2>5. q < p => SubSeq(M, p, q) = <<>>
    BY <2>1, SubSeqEmpty
  <2>6. ~ (q < p)
    BY <2>4, <2>5
  <2>7. k < m
    BY <1>30, <2>1, <2>6
  <2> QED BY <2>1, <2>4, <2>7
<1>5. back = W[m] /\ first = W[k + 1]
  <2>1. m \in Nat \ {0} /\ k \in 1 .. m
    BY <1>3
  <2>2. back = W[m]
    <3>1. Heap(list, S) /\ Way(list, W) /\ Len(W) = m + 1
      BY <1>1, <1>3
    <3>2. Last(Nodes(list, list.head, list.tail)) = W[m]
      BY <2>1, <3>1, LastOf
    <3> QED BY <3>2
  <2> QED BY <1>1, <1>3, <2>1, <2>2
<1>6. Relinked(list, prev, next, last, back, first, S, list1)
  <2>1. PICK n : n = Len(list.node) /\ n \in Nat
    BY <1>1 DEF Heap, ListType
  <2>2. /\ k \in 1 .. m + 1 /\ m \in 1 .. m + 1 /\ k + 1 \in 1 .. m + 1
        /\ j + 1 \in 1 .. m + 1 /\ m + 1 \in 1 .. m + 1
        /\ (i # 0 => i \in 1 .. m + 1) /\ k # m /\ i # k /\ i # m
    BY <1>3, <1>4
  <2>3. /\ next \in 1 .. n /\ last \in 1 .. n /\ back \in 1 .. n
        /\ first \in 1 .. n
    BY <1>1, <1>3, <1>5, <2>1, <2>2
  <2>4. last # back
    BY <1>1, <1>3, <1>5, <2>2
  <2>5. prev = Null \/ prev \in 1 .. n
    BY <1>3, <2>1, <2>2
  <2>6. prev # last /\ prev # back
    <3>1. CASE i = 0
      <4>1. prev = 0
        BY <1>3, <3>1 DEF Null
      <4> QED BY <2>3, <4>1
    <3>2. CASE i # 0
      BY <1>1, <1>3, <1>5, <2>2, <3>2
    <3> QED BY <3>1, <3>2
  <2> QED BY <1>1, <2>1, <2>3, <2>4, <2>5, <2>6, RelinkFacts
<1>7. PICK m1 : m1 = i + m - j
  OBVIOUS
<1>8. PICK V, M1, R :
        /\ V = [x \in 1 .. m1 + 1 |-> W[Moved(i, j, k, m, x)]]
        /\ M1 = [x \in 1 .. m1 |-> M[Moved(i, j, k, m, x)]]
        /\ R = [x \in 1 .. j - i + 1 |-> IF x <= j - i THEN W[i + x] ELSE next]
  OBVIOUS
<1>9. Spliced(list1, prev, next, W, M, V, M1, m1, R, i, j, k, m)
  <2>1. m1 \in Nat
    BY <1>3, <1>7
  <2> QED BY <1>7, <1>8, <2>1 DEF Spliced
<1>10. Relinked(list, prev, next, W[k], W[m], W[k + 1], S, list1)
  BY <1>1, <1>5, <1>6
<1>11. PICK j1 : j1 = i + m - k
  OBVIOUS
<1>12. /\ Core(list1, prev, next, V, M1, i, j1, m1)
       /\ Len(M1) = m1
       /\ Inner(V) = {W[z] : z \in (1 .. i) \cup (j + 1 .. m)}
  <2>1. SpliceDone(list1, prev, next, W, V, M1, i, j, m, j1, m1)
    BY <1>2, <1>4, <1>9, <1>10, <1>11, SpliceWay
  <2> QED BY <2>1 DEF SpliceDone
<1>13. Parts(M1, i, j1, m1, SubSeq(M, 1, i), new, SubSeq(M, j + 1, k))
  <2>1. M1 \in Seq(Message)
    BY <1>12 DEF Core
  <2> QED BY <1>3, <1>4, <1>9, <1>11, <1>12, <2>1, SpliceParts
<1>14. /\ Linked(list1, R) /\ Len(R) = j - i + 1
       /\ Inner(R) = {W[z] : z \in i + 1 .. j}
       /\ R[1] = cur /\ R[j - i + 1] = next
  <2>0. PICK l : l = j - i
    OBVIOUS
  <2>1. /\ l \in Nat \ {0} /\ i + l = j /\ R = [x \in 1 .. l + 1 |-> IF x <= l THEN W[i + x] ELSE next]
    BY <1>3, <1>8, <2>0
  <2>2. PICK n : n = Len(list.node) /\ n = Len(list1.node)
    BY <1>6 DEF Relinked
  <2>3. /\ \A x \in 1 .. l : i + x \in 1 .. m + 1 /\ i + x \in 1 .. m
        /\ j + 1 \in 1 .. m + 1 /\ m + 1 \in 1 .. m + 1 /\ j + 1 # j
        /\ \A x \in 1 .. l : i + x # j + 1 /\ i + x # m + 1
    <3>1. l \in Nat /\ i + l = j
      BY <2>1
    <3>2. \A x \in 1 .. l : i + x \in Nat /\ 1 <= i + x /\ i + x <= j
      BY <1>30, <3>1
    <3>3. j + 1 \in 1 .. m + 1 /\ m + 1 \in 1 .. m + 1 /\ j + 1 # j
      BY <1>30
    <3>4. \A x \in 1 .. l : i + x \in 1 .. m + 1 /\ i + x \in 1 .. m
      BY <1>30, <3>2
    <3>5. \A x \in 1 .. l : i + x # j + 1 /\ i + x # m + 1
      BY <1>30, <3>2
    <3> QED BY <3>3, <3>4, <3>5
  <2>4. next \in 1 .. n /\ \A x \in 1 .. l : W[i + x] \in 1 .. n /\ W[i + x] # next
    BY <1>3, <2>2, <2>3
  <2>5. R \in Seq(1 .. n) /\ Len(R) = l + 1
    <3>1. PICK l1 : l1 = l + 1
      OBVIOUS
    <3>2. l1 \in Nat /\ R \in [1 .. l1 -> 1 .. n]
      BY <2>1, <2>4, <3>1
    <3> QED BY <3>1, <3>2, FunIsSeq
  <2>6. /\ \A x \in 1 .. l : R[x] = W[i + x]
        /\ R[l + 1] = next
    BY <2>1
  <2>7. ASSUME NEW x \in 1 .. l + 1, NEW y \in 1 .. l + 1, R[x] = R[y]
        PROVE  x = y
    <3>1. (x = l + 1 \/ x \in 1 .. l) /\ (y = l + 1 \/ y \in 1 .. l)
      BY <2>1
    <3>2. CASE x = l + 1 \/ y = l + 1
      BY <2>4, <2>6, <2>7, <3>1, <3>2
    <3>3. CASE x \in 1 .. l /\ y \in 1 .. l
      <4>1. i + x = i + y
        BY <1>3, <2>3, <2>6, <2>7, <3>3
      <4> QED BY <1>3, <4>1
    <3> QED BY <3>1, <3>2, <3>3
  <2>8. ASSUME NEW x \in 1 .. l PROVE list1.node[R[x]].next = R[x + 1]
    <3>1. LinkedAfter(list1, W, i, j, k, m)
      BY <1>2, <1>4, <1>10, SpliceLinks
    <3>2. list1.node[W[i + x]].next = W[After(i, j, k, m, i + x)]
      BY <2>3, <3>1 DEF LinkedAfter
    <3>3. CASE x # l
      <4>1. After(i, j, k, m, i + x) = i + (x + 1) /\ x + 1 \in 1 .. l
        <5>1. PICK z : z = i + x
          OBVIOUS
        <5>2. /\ z # k /\ z # m /\ z # i /\ z + 1 = i + (x + 1)
              /\ x + 1 \in 1 .. l
          <6>1. l \in Nat /\ i + l = j
            BY <2>1
          <6> QED BY <1>30, <1>4, <3>3, <5>1, <6>1
        <5> QED BY <5>1, <5>2 DEF After
      <4> QED BY <2>6, <3>2, <4>1
    <3>4. CASE x = l
      <4>1. After(i, j, k, m, i + x) = IF j = k THEN m + 1 ELSE j + 1
        <5>1. i + x = j
          BY <2>1, <3>4
        <5>2. (j # k => j # m) /\ j # i
          BY <1>30, <1>4
        <5>3. After(i, j, k, m, j) = IF j = k THEN m + 1 ELSE j + 1
          BY <5>2 DEF After
        <5> QED BY <5>1, <5>3
      <4>2. W[After(i, j, k, m, i + x)] = next
        BY <1>3, <4>1
      <4> QED BY <2>6, <3>2, <3>4, <4>2
    <3> QED BY <3>3, <3>4
  <2>9. Linked(list1, R)
    <3>1. Len(R) - 1 = l /\ R # <<>>
      BY <2>1, <2>5
    <3>2. \A x, y \in 1 .. Len(R) : R[x] = R[y] => x = y
      BY <2>5, <2>7
    <3> QED BY <2>2, <2>5, <2>8, <3>1, <3>2 DEF Linked
  <2>10. Inner(R) = {W[z] : z \in i + 1 .. j}
    <3>1. Len(R) - 1 = l
      BY <2>1, <2>5
    <3>2. Inner(R) = {W[i + x] : x \in 1 .. l}
      BY <2>6, <3>1 DEF Inner
    <3>3. l \in Nat /\ i + l = j
      BY <2>1
    <3>5. \A x \in 1 .. l : i + x \in i + 1 .. j
      BY <1>30, <3>3
    <3>4. \A z \in i + 1 .. j : z - i \in 1 .. l /\ i + (z - i) = z
      BY <1>30, <3>3
    <3> QED BY <3>2, <3>4, <3>5
  <2>11. R[1] = cur
    <3>1. R[1] = W[i + 1]
      BY <2>1, <2>6
    <3>2. CASE i = 0
      BY <1>3, <3>1, <3>2
    <3>3. CASE i # 0
      <4>1. i \in 1 .. m /\ i \in 1 .. m + 1
        BY <1>3, <3>3
      <4>2. prev # Null
        <5>1. W[i] # 0
          BY <1>3, <4>1
        <5> QED BY <1>3, <3>3, <5>1 DEF Null
      <4> QED BY <1>3, <3>1, <3>3, <4>1, <4>2
    <3> QED BY <3>2, <3>3
  <2> QED BY <2>0, <2>5, <2>6, <2>9, <2>10, <2>11
<1>15. Heap(list1, Inner(V) \cup Inner(R)) /\ Inner(V) \cap Inner(R) = {}
  <2>1. 1 .. m = ((1 .. i) \cup (j + 1 .. m)) \cup (i + 1 .. j)
    BY <1>30
  <2>2. ((1 .. i) \cup (j + 1 .. m)) \cap (i + 1 .. j) = {}
    BY <1>30
  <2>3. PICK A, B : A = (1 .. i) \cup (j + 1 .. m) /\ B = i + 1 .. j
    OBVIOUS
  <2>4. /\ 1 .. m = A \cup B /\ A \cap B = {}
        /\ Inner(V) = {W[z] : z \in A} /\ Inner(R) = {W[z] : z \in B}
    BY <1>12, <1>14, <2>1, <2>2, <2>3
  <2>5. S = Inner(V) \cup Inner(R)
    <3>1. S = {W[z] : z \in A \cup B}
      BY <1>3, <2>4
    <3> QED BY <2>4, <3>1
  <2>6. \A x \in 1 .. m : x \in 1 .. m + 1
    BY <1>3
  <2>7. \A x, y \in A \cup B : W[x] = W[y] => x = y
    BY <1>3, <2>4, <2>6
  <2>8. Inner(V) \cap Inner(R) = {}
    BY <2>4, <2>7
  <2>9. Heap(list1, S)
    BY <1>6 DEF Relinked
  <2> QED BY <2>5, <2>8, <2>9
<1>16. Freeing(list1, prev, next, cur, V, M1, i, j1, R)
  <2>1. Len(R) >= 2 /\ R[Len(R)] = next
    BY <1>3, <1>14
  <2> QED BY <1>12, <1>14, <1>15, <2>1 DEF Freeing
<1> QED BY <1>12, <1>13, <1>16

-----------------------------------------------------------------------------
(* The nodes of the old M2 are freed one by one.                           *)

(* The same links and messages.                                            *)
SameLinks(list, list1) ==
    /\ list1.head = list.head /\ list1.tail = list.tail
    /\ Len(list1.node) = Len(list.node)
    /\ \A q \in 1 .. Len(list.node) :
         /\ list1.node[q].next = list.node[q].next
         /\ list1.node[q].data = list.node[q].data

(* Then the same nodes are linked ...                                      *)
LEMMA LinkedStays ==
    ASSUME NEW list, NEW list1, SameLinks(list, list1), NEW W,
           Linked(list, W)
    PROVE  Linked(list1, W)
<1>1. PICK n : n = Len(list.node) /\ n = Len(list1.node)
  BY DEF SameLinks
<1>2. W \in Seq(1 .. n) /\ W # <<>>
  BY <1>1 DEF Linked
<1>3. ASSUME NEW x \in 1 .. Len(W) - 1
      PROVE  list1.node[W[x]].next = W[x + 1]
  <2>1. x \in 1 .. Len(W)
    BY <1>2
  <2>2. W[x] \in 1 .. n
    BY <1>2, <2>1, ElementOfSeq
  <2>3. list.node[W[x]].next = W[x + 1]
    BY DEF Linked
  <2>4. list1.node[W[x]].next = list.node[W[x]].next
    BY <1>1, <2>2 DEF SameLinks
  <2> QED BY <2>3, <2>4
<1>4. \A x, y \in 1 .. Len(W) : W[x] = W[y] => x = y
  BY DEF Linked
<1> QED BY <1>1, <1>2, <1>3, <1>4 DEF Linked

(* ... and the session is the same.                                        *)
LEMMA CoreStays ==
    ASSUME NEW list, NEW list1, SameLinks(list, list1), NEW prev, NEW next,
           NEW W, NEW M, NEW i, NEW j, NEW k,
           Core(list, prev, next, W, M, i, j, k)
    PROVE  Core(list1, prev, next, W, M, i, j, k)
<1>1. Linked(list, W) /\ Linked(list1, W)
  <2>1. Linked(list, W)
    BY DEF Core, Way
  <2> QED BY <2>1, LinkedStays
<1>2. Way(list1, W)
  BY <1>1 DEF Core, Way, SameLinks
<1>3. PICK n : n = Len(list.node)
  OBVIOUS
<1>4. W \in Seq(1 .. n) /\ Len(W) = Len(M) + 1 /\ M \in Seq(Message)
  BY <1>1, <1>3 DEF Linked, Core
<1>5. ASSUME NEW x \in 1 .. Len(M) PROVE list1.node[W[x]].data = M[x]
  <2>1. x \in 1 .. Len(W)
    BY <1>4
  <2>2. W[x] \in 1 .. n
    BY <1>4, <2>1, ElementOfSeq
  <2>3. list.node[W[x]].data = M[x]
    BY DEF Core
  <2>4. list1.node[W[x]].data = list.node[W[x]].data
    BY <1>3, <2>2 DEF SameLinks
  <2> QED BY <2>3, <2>4
<1>6. list1.tail = list.tail
  BY DEF SameLinks
<1> QED BY <1>2, <1>5, <1>6 DEF Core

(* What freeing the node cur leaves.                                       *)
Freed(list, list1, prev, next, cur, W, M, i, j, R) ==
    LET behind == list.node[cur].next IN
    /\ behind = next => Steady(list1, prev, next, W, M, i, j)
    /\ behind # next =>
         /\ behind # Null
         /\ Freeing(list1, prev, next, behind, W, M, i, j, Tail(R))

(* Freeing a node leaves one node less of the old M2, or the session.      *)
LEMMA FreeIsFreeing ==
    ASSUME NEW list, NEW prev, NEW next, NEW cur, NEW W, NEW M, NEW i, NEW j,
           NEW R, Freeing(list, prev, next, cur, W, M, i, j, R),
           NEW list1, list1 = kmp_free(list, cur)
    PROVE  Freed(list, list1, prev, next, cur, W, M, i, j, R)
<1>1. PICK n, l, A, B, Q, behind :
        /\ n = Len(list.node) /\ l = Len(R) /\ A = Inner(W) /\ B = Inner(R)
        /\ Q = Tail(R) /\ behind = list.node[cur].next
  OBVIOUS
<1>2. /\ Core(list, prev, next, W, M, i, j, Len(M)) /\ Heap(list, A \cup B)
      /\ Linked(list, R) /\ l \in Nat /\ l >= 2
      /\ R[1] = cur /\ R[l] = next /\ A \cap B = {}
      /\ R \in Seq(1 .. n)
      /\ \A x, y \in 1 .. l : R[x] = R[y] => x = y
      /\ \A x \in 1 .. l - 1 : list.node[R[x]].next = R[x + 1]
      /\ B = {R[x] : x \in 1 .. l - 1}
  <2>1. Linked(list, R)
    BY DEF Freeing
  <2>2. R \in Seq(1 .. n) /\ l \in Nat
    <3>1. R \in Seq(1 .. n)
      BY <1>1, <2>1 DEF Linked
    <3> QED BY <1>1, <3>1
  <2>3. /\ \A x, y \in 1 .. l : R[x] = R[y] => x = y
        /\ \A x \in 1 .. l - 1 : list.node[R[x]].next = R[x + 1]
    BY <1>1, <2>1 DEF Linked
  <2>4. B = {R[x] : x \in 1 .. l - 1}
    BY <1>1 DEF Inner
  <2>5. /\ Core(list, prev, next, W, M, i, j, Len(M)) /\ Heap(list, A \cup B)
        /\ l >= 2 /\ R[1] = cur /\ R[l] = next /\ A \cap B = {}
    BY <1>1 DEF Freeing
  <2> QED BY <2>1, <2>2, <2>3, <2>4, <2>5
<1>3. 1 \in 1 .. l - 1 /\ 1 \in 1 .. l /\ 2 \in 1 .. l /\ 1 + 1 = 2
      /\ l \in 1 .. l
  BY <1>2
<1>4. cur \in B /\ cur \in A \cup B /\ cur \notin A /\ behind = R[2]
      /\ behind \in 1 .. n
  <2>1. cur \in B
    BY <1>2, <1>3
  <2>2. behind = R[2] /\ behind \in 1 .. n
    BY <1>1, <1>2, <1>3
  <2> QED BY <1>2, <2>1, <2>2
<1>5. Heap(list1, (A \cup B) \ {cur}) /\ SameLinks(list, list1)
  <2>1. PICK S : S = A \cup B
    OBVIOUS
  <2>2. Heap(list, S) /\ cur \in S
    BY <1>2, <1>4, <2>1
  <2>3. /\ Heap(list1, S \ {cur})
        /\ list1.head = list.head /\ list1.tail = list.tail
        /\ Len(list1.node) = Len(list.node)
        /\ \A q \in 1 .. Len(list.node) :
             /\ list1.node[q].next = list.node[q].next
             /\ list1.node[q].data = list.node[q].data
    BY <2>2, FreeKeeps
  <2> QED BY <2>1, <2>3 DEF SameLinks
<1>6. Core(list1, prev, next, W, M, i, j, Len(M))
  BY <1>2, <1>5, CoreStays
<1>7. CASE l = 2
  <2>1. behind = next
    BY <1>2, <1>4, <1>7
  <2>2. B = {cur}
    <3>1. 1 .. l - 1 = {1}
      BY <1>7
    <3>2. B = {R[x] : x \in 1 .. l - 1} /\ R[1] = cur
      BY <1>2
    <3> QED BY <3>1, <3>2
  <2>3. (A \cup B) \ {cur} = A
    BY <1>4, <2>2
  <2>4. Steady(list1, prev, next, W, M, i, j)
    BY <1>1, <1>5, <1>6, <2>3 DEF Steady
  <2> QED BY <1>1, <2>1, <2>4 DEF Freed
<1>8. CASE l # 2
  <2>1. behind # next
    <3>1. 2 # l
      BY <1>8
    <3> QED BY <1>2, <1>3, <1>4, <3>1
  <2>2. behind # Null
    BY <1>4 DEF Null
  <2>3. PICK q : q = l - 1
    OBVIOUS
  <2>4. q \in Nat /\ q >= 2 /\ q + 1 = l /\ l - 1 = q
    BY <1>2, <1>8, <2>3
  <2>5. /\ Q \in Seq(1 .. n) /\ Len(Q) = q
        /\ \A x \in 1 .. q : Q[x] = R[x + 1]
    <3>1. R # <<>>
      BY <1>1, <1>2
    <3>2. /\ Tail(R) \in Seq(1 .. n) /\ Len(Tail(R)) = Len(R) - 1
          /\ \A x \in 1 .. Len(Tail(R)) : Tail(R)[x] = R[x + 1]
      BY <1>2, <3>1, HeadTailProperties
    <3> QED BY <1>1, <2>3, <3>2
  <2>6. \A x \in 1 .. q : x + 1 \in 1 .. l
    BY <2>4
  <2>7. \A x, y \in 1 .. q : Q[x] = Q[y] => x = y
    <3> SUFFICES ASSUME NEW x \in 1 .. q, NEW y \in 1 .. q, Q[x] = Q[y]
                 PROVE  x = y
      OBVIOUS
    <3>1. R[x + 1] = R[y + 1] /\ x + 1 \in 1 .. l /\ y + 1 \in 1 .. l
      BY <2>5, <2>6
    <3>2. PICK a, b : a = x + 1 /\ b = y + 1
      OBVIOUS
    <3>3. a = b
      BY <1>2, <3>1, <3>2
    <3> QED BY <3>2, <3>3
  <2>8. \A x \in 1 .. q - 1 : list.node[Q[x]].next = Q[x + 1]
    <3> SUFFICES ASSUME NEW x \in 1 .. q - 1
                 PROVE  list.node[Q[x]].next = Q[x + 1]
      OBVIOUS
    <3>1. x \in 1 .. q /\ x + 1 \in 1 .. q /\ x + 1 \in 1 .. l - 1
      BY <2>4
    <3>2. PICK a : a = x + 1
      OBVIOUS
    <3>3. Q[x] = R[a] /\ Q[a] = R[a + 1] /\ a \in 1 .. l - 1
      BY <2>5, <3>1, <3>2
    <3>4. list.node[R[a]].next = R[a + 1]
      BY <1>2, <3>3
    <3> QED BY <3>2, <3>3, <3>4
  <2>9. Linked(list1, Q)
    <3>1. Q # <<>>
      BY <2>4, <2>5
    <3>2. Linked(list, Q)
      BY <1>1, <2>5, <2>7, <2>8, <3>1 DEF Linked
    <3> QED BY <1>5, <3>2, LinkedStays
  <2>10. Inner(Q) = B \ {cur}
    <3>1. Inner(Q) = {Q[x] : x \in 1 .. q - 1}
      BY <2>5 DEF Inner
    <3>2. ASSUME NEW x \in 1 .. q - 1 PROVE Q[x] \in B \ {cur}
      <4>1. x \in 1 .. q /\ x + 1 \in 1 .. l - 1 /\ x + 1 \in 1 .. l
            /\ x + 1 # 1
        BY <2>4
      <4>2. PICK a : a = x + 1
        OBVIOUS
      <4>3. Q[x] = R[a] /\ a \in 1 .. l - 1 /\ a \in 1 .. l /\ a # 1
        BY <2>5, <4>1, <4>2
      <4>4. R[a] # R[1]
        BY <1>2, <1>3, <4>3
      <4> QED BY <1>2, <4>3, <4>4
    <3>3. ASSUME NEW p \in B \ {cur} PROVE p \in Inner(Q)
      <4>1. PICK a \in 1 .. l - 1 : p = R[a]
        BY <1>2
      <4>2. a # 1
        BY <1>2, <4>1
      <4>3. PICK x : x = a - 1
        OBVIOUS
      <4>4. x \in 1 .. q - 1 /\ x \in 1 .. q /\ x + 1 = a
        BY <2>4, <4>2, <4>3
      <4>5. p = Q[x]
        BY <2>5, <4>1, <4>4
      <4> QED BY <3>1, <4>4, <4>5
    <3> QED BY <3>1, <3>2, <3>3
  <2>11. (A \cup B) \ {cur} = A \cup Inner(Q) /\ A \cap Inner(Q) = {}
    BY <1>2, <1>4, <2>10
  <2>12. Q[1] = behind /\ Q[Len(Q)] = next /\ Len(Q) >= 2
    <3>1. 1 \in 1 .. q /\ q \in 1 .. q
      BY <2>4
    <3> QED BY <1>2, <1>3, <1>4, <2>4, <2>5, <3>1
  <2>13. Freeing(list1, prev, next, behind, W, M, i, j, Q)
    BY <1>1, <1>5, <1>6, <2>9, <2>11, <2>12 DEF Freeing
  <2> QED BY <1>1, <2>1, <2>2, <2>13 DEF Freed
<1> QED BY <1>7, <1>8

-----------------------------------------------------------------------------
(* Reading the list.                                                       *)

(* Messages(from, to) reads what lies between two places of the way.       *)
LEMMA ReadMessages ==
    ASSUME NEW list, NEW prev, NEW next, NEW W, NEW M, NEW i, NEW j, NEW k,
           Core(list, prev, next, W, M, i, j, k), NEW S, Heap(list, S),
           NEW a \in 1 .. Len(M) + 1, NEW b \in 1 .. Len(M) + 1, a <= b
    PROVE  MessagesAre(list, W, M, a, b)
<1>1. PICK m : m = Len(M)
  OBVIOUS
<1>2. Known(list, prev, next, W, M, m, i, j, k)
  BY <1>1, CoreFacts
<1>3. /\ M \in Seq(Message) /\ m \in Nat /\ Len(W) = m + 1 /\ Linked(list, W)
      /\ \A x \in 1 .. m : list.node[W[x]].data = M[x]
      /\ a \in 1 .. m + 1 /\ b \in 1 .. m + 1
  BY <1>1, <1>2 DEF Known
<1>4. /\ Len(M) = m /\ Heap(list, S) /\ a <= b
  BY <1>1
<1> QED BY <1>3, <1>4, MessagesOf

(* The three parts as List reads them, and the list.                       *)
LEMMA ReadParts ==
    ASSUME NEW list, NEW prev, NEW next, NEW W, NEW M, NEW i, NEW j, NEW k,
           Core(list, prev, next, W, M, i, j, k), NEW S, Heap(list, S),
           NEW end, end = W[k + 1],
           NEW start, start = IF prev = Null THEN list.head
                              ELSE list.node[prev].next,
           NEW stop, stop = IF next = list.tail THEN end ELSE next
    PROVE  /\ Parts(M, i, j, k, Messages(list, list.head, start),
                    Messages(list, start, stop),
                    IF next # list.tail THEN Messages(list, next, end)
                    ELSE <<>>)
           /\ start = W[i + 1] /\ stop = W[j + 1]
<1>1. PICK m : m = Len(M)
  OBVIOUS
<1>2. Known(list, prev, next, W, M, m, i, j, k)
  BY <1>1, CoreFacts
<1>3. /\ m \in Nat /\ i \in Nat /\ j \in Nat /\ k \in Nat
      /\ i < j /\ j <= k /\ k <= m
  BY <1>2 DEF Known
<1>4. /\ W[1] = list.head /\ W[m + 1] = list.tail
      /\ \A x \in 1 .. m + 1 : W[x] \in 1 .. Len(list.node)
      /\ \A x, y \in 1 .. m + 1 : W[x] = W[y] => x = y
      /\ \A x \in 1 .. m : list.node[W[x]].next = W[x + 1]
      /\ prev = IF i = 0 THEN Null ELSE W[i]
      /\ next = IF j = k THEN list.tail ELSE W[j + 1]
  BY <1>2 DEF Known
<1>5. PICK a, b, c, o : a = i + 1 /\ b = j + 1 /\ c = k + 1 /\ o = 1
  OBVIOUS
<1>6. /\ a \in 1 .. m + 1 /\ b \in 1 .. m + 1 /\ c \in 1 .. m + 1
      /\ o \in 1 .. m + 1 /\ m + 1 \in 1 .. m + 1
      /\ o <= a /\ a <= b /\ b <= c
      /\ a - 1 = i /\ b - 1 = j /\ c - 1 = k
      /\ (i # 0 => i \in 1 .. m /\ i \in 1 .. m + 1)
  BY <1>3, <1>5
<1>7. start = W[a]
  <2>1. CASE i = 0
    BY <1>4, <1>5, <2>1
  <2>2. CASE i # 0
    <3>1. prev # Null
      <4>1. W[i] # 0
        BY <1>4, <1>6, <2>2
      <4> QED BY <1>4, <2>2, <4>1 DEF Null
    <3> QED BY <1>4, <1>5, <1>6, <2>2, <3>1
  <2> QED BY <2>1, <2>2
<1>8. j # k => next = W[b] /\ next # list.tail
  <2>1. j # k => b # m + 1
    BY <1>3, <1>5
  <2> QED BY <1>4, <1>5, <1>6, <2>1
<1>9. stop = W[b] /\ end = W[c]
  BY <1>4, <1>5, <1>8
<1>10. Messages(list, list.head, start) = SubSeq(M, 1, i)
  <2>1. MessagesAre(list, W, M, o, a)
    BY <1>1, <1>6, ReadMessages
  <2> QED BY <1>4, <1>5, <1>6, <1>7, <2>1 DEF MessagesAre
<1>11. Messages(list, start, stop) = SubSeq(M, i + 1, j)
  <2>1. MessagesAre(list, W, M, a, b)
    BY <1>1, <1>6, ReadMessages
  <2> QED BY <1>5, <1>6, <1>7, <1>9, <2>1 DEF MessagesAre
<1>12. (IF next # list.tail THEN Messages(list, next, end) ELSE <<>>)
          = SubSeq(M, j + 1, k)
  <2>1. CASE j # k
    <3>1. MessagesAre(list, W, M, b, c)
      BY <1>1, <1>6, ReadMessages
    <3> QED BY <1>5, <1>6, <1>8, <1>9, <2>1, <3>1 DEF MessagesAre
  <2>2. CASE j = k
    <3>1. b \in Int /\ k \in Int /\ k < b
      BY <1>3, <1>5, <2>2
    <3>2. SubSeq(M, b, k) = <<>>
      BY <3>1, SubSeqEmpty
    <3> QED BY <1>4, <1>5, <2>2, <3>2
  <2> QED BY <2>1, <2>2
<1> QED BY <1>5, <1>7, <1>9, <1>10, <1>11, <1>12 DEF Parts

(* From the head to the tail it reads the whole session.                   *)
LEMMA ReadAll ==
    ASSUME NEW list, NEW prev, NEW next, NEW W, NEW M, NEW i, NEW j, NEW k,
           Core(list, prev, next, W, M, i, j, k), NEW S, Heap(list, S)
    PROVE  Messages(list, list.head, list.tail) = M
<1>1. PICK m, o, e : m = Len(M) /\ o = 1 /\ e = m + 1
  OBVIOUS
<1>2. Known(list, prev, next, W, M, m, i, j, k)
  BY <1>1, CoreFacts
<1>3. /\ m \in Nat /\ W[1] = list.head /\ W[m + 1] = list.tail
      /\ M \in Seq(Message)
  BY <1>2 DEF Known
<1>4. o \in 1 .. m + 1 /\ e \in 1 .. m + 1 /\ o <= e /\ e - 1 = m
  BY <1>1, <1>3
<1>5. MessagesAre(list, W, M, o, e)
  BY <1>1, <1>4, ReadMessages
<1>6. SubSeq(M, 1, m) = M
  BY <1>1, <1>3, SubSeqFull
<1> QED BY <1>1, <1>3, <1>4, <1>5, <1>6 DEF MessagesAre

-----------------------------------------------------------------------------
(* The regions of a buffer.                                                *)

(* The positions from p on that next leads to, as long as they are below N. *)
IsRun(next, N, p, run) ==
    /\ run \in Seq(Nat)
    /\ p >= N => run = <<>>
    /\ p < N => /\ run # <<>> /\ run[1] = p
                /\ \A x \in 1 .. Len(run) : run[x] < N
                /\ \A x \in 1 .. Len(run) - 1 : run[x + 1] = next[run[x]]
                /\ next[run[Len(run)]] >= N

(* One position more in front.                                             *)
LEMMA LongerRun ==
    ASSUME NEW N \in Int, NEW p \in Nat, p < N, NEW next, next[p] \in Nat,
           NEW run, IsRun(next, N, next[p], run)
    PROVE  IsRun(next, N, p, <<p>> \o run)
<1>1. PICK longer, l, q : longer = <<p>> \o run /\ l = Len(run) /\ q = next[p]
  OBVIOUS
<1>2. /\ longer \in Seq(Nat) /\ longer # <<>> /\ l \in Nat
      /\ Len(longer) = l + 1 /\ longer[1] = p
      /\ \A x \in 1 .. l : longer[x + 1] = run[x]
  <2>1. run \in Seq(Nat) /\ <<p>> \in Seq(Nat) /\ Len(<<p>>) = 1
    BY DEF IsRun
  <2>2. /\ longer \in Seq(Nat) /\ Len(longer) = 1 + l
        /\ \A i \in 1 .. 1 + l : longer[i] = IF i <= 1 THEN <<p>>[i]
                                             ELSE run[i - 1]
    BY <1>1, <2>1, ConcatProperties
  <2>3. l \in Nat
    BY <1>1, <2>1
  <2>4. ASSUME NEW x \in 1 .. l PROVE longer[x + 1] = run[x]
    <3>1. PICK y : y = x + 1
      OBVIOUS
    <3>2. y \in 1 .. 1 + l /\ ~ (y <= 1) /\ y - 1 = x
      BY <2>3, <3>1
    <3> QED BY <2>2, <3>1, <3>2
  <2>5. 1 \in 1 .. 1 + l /\ 1 <= 1
    BY <2>3
  <2> QED BY <2>2, <2>3, <2>4, <2>5
<1>3. CASE q >= N
  <2>1. run = <<>> /\ l = 0
    BY <1>1, <1>3 DEF IsRun
  <2>2. Len(longer) = 1 /\ \A x \in 1 .. Len(longer) : x = 1
    BY <1>2, <2>1
  <2>3. 1 .. Len(longer) - 1 = {}
    BY <2>2
  <2>4. next[longer[Len(longer)]] >= N
    BY <1>1, <1>2, <1>3, <2>2
  <2> QED BY <1>1, <1>2, <2>2, <2>3, <2>4 DEF IsRun
<1>4. CASE q < N
  <2>1. /\ run # <<>> /\ run[1] = q
        /\ \A x \in 1 .. l : run[x] < N
        /\ \A x \in 1 .. l - 1 : run[x + 1] = next[run[x]]
        /\ next[run[l]] >= N
    BY <1>1, <1>4 DEF IsRun
  <2>2. l >= 1
    <3>1. run \in Seq(Nat)
      BY DEF IsRun
    <3> QED BY <1>1, <2>1, <3>1
  <2>3. ASSUME NEW x \in 1 .. l + 1 PROVE longer[x] < N
    <3>1. CASE x = 1
      BY <1>1, <1>2, <3>1
    <3>2. CASE x # 1
      <4>1. x - 1 \in 1 .. l /\ x = (x - 1) + 1
        BY <1>2, <3>2
      <4>2. PICK y \in 1 .. l : x = y + 1
        BY <4>1
      <4>3. longer[y + 1] = run[y]
        BY <1>2
      <4>4. run[y] < N
        BY <2>1
      <4>5. longer[x] = longer[y + 1]
        BY <4>2
      <4> QED BY <4>3, <4>4, <4>5
    <3> QED BY <3>1, <3>2
  <2>4. ASSUME NEW x \in 1 .. l PROVE longer[x + 1] = next[longer[x]]
    <3>1. CASE x = 1
      BY <1>1, <1>2, <2>1, <3>1
    <3>2. CASE x # 1
      <4>1. PICK y : y = x - 1
        OBVIOUS
      <4>2. y \in 1 .. l /\ y \in 1 .. l - 1 /\ y + 1 = x
        BY <1>2, <3>2, <4>1
      <4>3. longer[x + 1] = run[x] /\ longer[x] = run[y] /\ run[x] = next[run[y]]
        BY <1>2, <2>1, <4>2
      <4> QED BY <4>3
    <3> QED BY <3>1, <3>2
  <2>5. longer[l + 1] = run[l]
    BY <1>2, <2>2
  <2>6. Len(longer) - 1 = l
    BY <1>2
  <2> QED BY <1>1, <1>2, <2>1, <2>3, <2>4, <2>5, <2>6, SMTT(30) DEF IsRun
<1> QED
  <2>1. q >= N \/ q < N
    BY <1>1
  <2> QED BY <1>3, <1>4, <2>1

(* The chain of links that increase is a run to the end of the buffer.     *)
LEMMA ChainRuns ==
    ASSUME NEW n \in Nat, NEW N \in Int, N <= n, NEW D, D = 0 .. n + 3,
           NEW next \in [D -> D],
           \A s \in D : s >= N => next[s] = s,
           \A s \in D : s < N => next[s] > s
    PROVE  IsRun(next, N, 0, Chain(next, 0, n))
<1>1. 0 \in D /\ D \subseteq Nat /\ D \subseteq Int
  OBVIOUS
<1>2. PICK links : /\ ChainLinks(next, D, n, links)
                   /\ Chain(next, 0, n) = links[n][0]
  BY <1>1, ChainExists, SMTT(30)
<1>3. /\ \A p \in D : links[0][p] = <<>>
      /\ \A k \in 1 .. n : \A p \in D :
           links[k][p] = IF next[p] = p THEN <<>>
                         ELSE <<p>> \o links[k - 1][next[p]]
  BY <1>2 DEF ChainLinks
<1> DEFINE T == {k \in 0 .. n : \A p \in D : N <= k + p =>
                                   IsRun(next, N, p, links[k][p])}
<1>4. ASSUME NEW p \in D, p >= N PROVE IsRun(next, N, p, <<>>)
  <2>1. ~ (p < N) /\ <<>> \in Seq(Nat)
    BY <1>1, <1>4
  <2> QED BY <2>1 DEF IsRun
<1>5. 0 \in T
  <2>1. \A p \in D : N <= 0 + p => p >= N
    BY <1>1
  <2>2. \A p \in D : N <= 0 + p => IsRun(next, N, p, links[0][p])
    BY <1>3, <1>4, <2>1
  <2> QED BY <2>2
<1>6. ASSUME NEW k \in 1 .. n, k - 1 \in T PROVE k \in T
  <2> SUFFICES ASSUME NEW p \in D, N <= k + p
               PROVE  IsRun(next, N, p, links[k][p])
    OBVIOUS
  <2>1. \A q \in D : N <= (k - 1) + q => IsRun(next, N, q, links[k - 1][q])
    BY <1>6
  <2>2. p \in Nat /\ next[p] \in D /\ next[p] \in Nat /\ k - 1 \in Int
    BY <1>1
  <2> HIDE DEF T
  <2>3. CASE p >= N
    <3>1. links[k][p] = <<>>
      BY <1>3, <2>3
    <3> QED BY <1>4, <2>3, <3>1
  <2>4. CASE p < N
    <3>1. next[p] > p /\ next[p] # p
      BY <2>2, <2>4
    <3>2. N <= (k - 1) + next[p]
      BY <2>2, <3>1
    <3>3. PICK run : run = links[k - 1][next[p]]
      OBVIOUS
    <3>4. IsRun(next, N, next[p], run)
      BY <2>1, <2>2, <3>2, <3>3
    <3>5. links[k][p] = <<p>> \o run
      BY <1>3, <3>1, <3>3
    <3> QED BY <2>2, <2>4, <3>4, <3>5, LongerRun
  <2> QED BY <2>2, <2>3, <2>4
<1>7. T = 0 .. n
  <2>1. T \in SUBSET (0 .. n)
    OBVIOUS
  <2> HIDE DEF T
  <2> QED BY <1>5, <1>6, <2>1, UpTo
<1>8. n \in T
  <2> HIDE DEF T
  <2> QED BY <1>7
<1>9. N <= n + 0
  OBVIOUS
<1> QED BY <1>1, <1>2, <1>8, <1>9

(* The regions of a buffer of n bytes: not empty, one behind the other     *)
(* from the first byte to the last one but rest; a dns region may end      *)
(* behind the buffer.                                                      *)
AreRegions(regions, n, rest, beyond) ==
    /\ regions \in Seq([start : Nat, end : Nat]) /\ regions # <<>>
    /\ regions[1].start = 0
    /\ \A x \in 1 .. Len(regions) : /\ regions[x].start <= regions[x].end
                                    /\ regions[x].start < n
    /\ \A x \in 1 .. Len(regions) - 1 :
         regions[x + 1].start = regions[x].end + 1
    /\ regions[Len(regions)].end \in n - 1 - rest .. n - 1 + beyond

Rest(protocol) == IF protocol \in {"dicom", "dtls12"} THEN 0 ELSE 1

Beyond(protocol) == IF protocol = "dns" THEN 3 ELSE 0

(* Every protocol cuts every buffer that is not empty into such regions.   *)
LEMMA RegionFacts ==
    ASSUME NEW protocol \in Protocol, NEW buf \in Seq(Nat) \ {<<>>}
    PROVE  AreRegions(extract_requests(protocol, buf), Len(buf),
                      Rest(protocol), Beyond(protocol))
<1>1. PICK n, rest, N, D : /\ n = Len(buf) /\ rest = Rest(protocol)
                           /\ N = n - rest /\ D = 0 .. n + 3
  OBVIOUS
<1>2. PICK next : next = [s \in D |-> IF s >= N THEN s
                                      ELSE EndOf(protocol, buf, s) + 1]
  OBVIOUS
<1>3. PICK starts : starts = Chain(next, 0, n)
  OBVIOUS
<1>4. PICK regions : regions = [i \in 1 .. Len(starts) |->
                       [start |-> starts[i], end |-> next[starts[i]] - 1]]
  OBVIOUS
<1>5. RegionsOf(protocol, buf) = regions
  BY <1>1, <1>2, <1>3, <1>4 DEF RegionsOf, Rest
<1>6. n \in Nat \ {0} /\ rest \in {0, 1} /\ N \in Nat /\ N <= n /\ N = n - rest
  <2>1. n \in Nat \ {0}
    BY <1>1
  <2>2. rest \in {0, 1}
    BY <1>1 DEF Rest
  <2> QED BY <1>1, <2>1, <2>2
<1>7. ASSUME NEW s \in D, s < N
      PROVE  /\ EndOf(protocol, buf, s) \in s .. n + 2
             /\ protocol # "dns" => EndOf(protocol, buf, s) <= n - 1
  <2>1. s \in Nat /\ s < Len(buf) /\ buf \in Seq(Nat)
    BY <1>1, <1>6, <1>7
  <2> QED BY <1>1, <2>1, EndOfFacts
<1>8. /\ next \in [D -> D]
      /\ \A s \in D : s >= N => next[s] = s
      /\ \A s \in D : s < N => next[s] > s
      /\ \A s \in D : s < N => next[s] - 1 \in s .. n - 1 + Beyond(protocol)
  <2>1. ASSUME NEW s \in D, s < N
        PROVE  /\ next[s] \in D /\ next[s] > s
               /\ next[s] - 1 \in s .. n - 1 + Beyond(protocol)
    <3>1. PICK e : e = EndOf(protocol, buf, s)
      OBVIOUS
    <3>2. e \in s .. n + 2 /\ (protocol # "dns" => e <= n - 1) /\ s \in Nat
      BY <1>1, <1>7, <2>1, <3>1
    <3>3. next[s] = e + 1
      BY <1>1, <1>2, <1>6, <2>1, <3>1
    <3>4. e + 1 \in D /\ e + 1 > s /\ (e + 1) - 1 = e
      BY <1>1, <1>6, <3>2
    <3>5. e \in s .. n - 1 + Beyond(protocol)
      BY <1>6, <3>2 DEF Beyond
    <3> QED BY <3>3, <3>4, <3>5
  <2>2. \A s \in D : s >= N => next[s] = s
    BY <1>2
  <2>3. \A s \in D : s >= N \/ s < N
    BY <1>1, <1>6
  <2>4. next \in [D -> D]
    BY <1>2, <2>1, <2>2, <2>3
  <2> QED BY <2>1, <2>2, <2>4
<1>9. IsRun(next, N, 0, starts)
  <2>1. /\ next \in [D -> D] /\ D = 0 .. n + 3
        /\ \A s \in D : s >= N => next[s] = s
        /\ \A s \in D : s < N => next[s] > s
    BY <1>1, <1>8
  <2>2. n \in Nat /\ N \in Int /\ N <= n
    BY <1>6
  <2>3. IsRun(next, N, 0, Chain(next, 0, n))
    BY <2>1, <2>2, ChainRuns
  <2> QED BY <1>3, <2>3
<1>10. CASE N = 0
  <2>1. starts = <<>>
    BY <1>9, <1>10 DEF IsRun
  <2>2. regions = <<>>
    BY <1>4, <2>1
  <2>3. PICK one, r : r = [start |-> 0, end |-> n - 1] /\ one = <<r>>
    OBVIOUS
  <2>4. extract_requests(protocol, buf) = one
    BY <1>1, <1>5, <2>2, <2>3 DEF extract_requests
  <2>5. /\ r \in [start : Nat, end : Nat] /\ r.start = 0 /\ r.end = n - 1
        /\ n - 1 \in Nat
    BY <1>6, <2>3
  <2>6. /\ one \in Seq([start : Nat, end : Nat]) /\ one # <<>>
        /\ Len(one) = 1 /\ one[1] = r /\ 1 .. Len(one) - 1 = {}
        /\ \A x \in 1 .. Len(one) : x = 1
    BY <2>3, <2>5
  <2>7. n - 1 \in n - 1 - rest .. n - 1 + Beyond(protocol)
    BY <1>6 DEF Beyond
  <2>8. r.start <= r.end /\ r.start < n
    BY <1>6, <2>5
  <2>9. AreRegions(one, n, rest, Beyond(protocol))
    BY <2>5, <2>6, <2>7, <2>8 DEF AreRegions
  <2> QED BY <1>1, <2>4, <2>9
<1>11. CASE N # 0
  <2>1. /\ starts \in Seq(Nat) /\ starts # <<>> /\ starts[1] = 0
        /\ \A x \in 1 .. Len(starts) : starts[x] < N
        /\ \A x \in 1 .. Len(starts) - 1 : starts[x + 1] = next[starts[x]]
        /\ next[starts[Len(starts)]] >= N
    <3>1. 0 < N
      BY <1>6, <1>11
    <3> QED BY <1>9, <3>1 DEF IsRun
  <2>2. PICK l : l = Len(starts) /\ l \in Nat /\ l >= 1
    <3>1. Len(starts) \in Nat \ {0}
      BY <2>1, EmptySeq
    <3> QED BY <3>1
  <2>3. \A x \in 1 .. l : starts[x] \in Nat /\ starts[x] \in D /\ starts[x] < N
    BY <1>1, <1>6, <2>1, <2>2
  <2>4. ASSUME NEW x \in 1 .. l
        PROVE  /\ next[starts[x]] \in Nat
               /\ next[starts[x]] - 1 \in Nat /\ next[starts[x]] - 1 >= starts[x]
               /\ next[starts[x]] - 1 <= n - 1 + Beyond(protocol)
               /\ starts[x] < n
    <3>1. PICK s : s = starts[x]
      OBVIOUS
    <3>2. s \in Nat /\ s \in D /\ s < N
      BY <2>3, <3>1
    <3>3. next[s] \in D /\ next[s] - 1 \in s .. n - 1 + Beyond(protocol)
      BY <1>8, <3>2
    <3>4. next[s] \in Nat /\ s < n
      BY <1>1, <1>6, <3>2, <3>3
    <3> QED BY <3>1, <3>2, <3>3, <3>4
  <2>5. \A x \in 1 .. l : regions[x] = [start |-> starts[x],
                                        end |-> next[starts[x]] - 1]
    BY <1>4, <2>2
  <2>6. /\ \A x \in 1 .. l : /\ regions[x] \in [start : Nat, end : Nat]
                             /\ regions[x].start = starts[x]
                             /\ regions[x].end = next[starts[x]] - 1
    <3> SUFFICES ASSUME NEW x \in 1 .. l
                 PROVE  /\ regions[x] \in [start : Nat, end : Nat]
                        /\ regions[x].start = starts[x]
                        /\ regions[x].end = next[starts[x]] - 1
      OBVIOUS
    <3>1. PICK a, b : a = starts[x] /\ b = next[starts[x]] - 1
      OBVIOUS
    <3>2. a \in Nat /\ b \in Nat /\ regions[x] = [start |-> a, end |-> b]
      BY <2>3, <2>4, <2>5, <3>1
    <3> QED BY <3>1, <3>2
  <2>7. /\ regions \in Seq([start : Nat, end : Nat])
        /\ Len(regions) = l /\ regions # <<>>
    <3>1. regions \in [1 .. l -> [start : Nat, end : Nat]]
      BY <1>4, <2>2, <2>6
    <3>2. regions \in Seq([start : Nat, end : Nat]) /\ Len(regions) = l
      BY <2>2, <3>1, FunIsSeq
    <3>3. regions # <<>>
      BY <2>2, <3>2
    <3> QED BY <3>2, <3>3
  <2>8. extract_requests(protocol, buf) = regions
    BY <1>5, <2>7 DEF extract_requests
  <2>9. regions[1].start = 0
    BY <2>1, <2>2, <2>6
  <2>10. \A x \in 1 .. l : /\ regions[x].start <= regions[x].end
                           /\ regions[x].start < n
    <3> SUFFICES ASSUME NEW x \in 1 .. l
                 PROVE  /\ regions[x].start <= regions[x].end
                        /\ regions[x].start < n
      OBVIOUS
    <3> QED BY <2>3, <2>4, <2>6
  <2>11. \A x \in 1 .. l - 1 : regions[x + 1].start = regions[x].end + 1
    <3> SUFFICES ASSUME NEW x \in 1 .. l - 1
                 PROVE  regions[x + 1].start = regions[x].end + 1
      OBVIOUS
    <3>1. x \in 1 .. l /\ x + 1 \in 1 .. l
      BY <2>2
    <3>2. regions[x + 1].start = next[starts[x]]
      BY <2>1, <2>2, <2>6, <3>1
    <3>3. regions[x].end = next[starts[x]] - 1 /\ next[starts[x]] \in Nat
      BY <2>4, <2>6, <3>1
    <3> QED BY <3>2, <3>3
  <2>12. regions[l].end \in n - 1 - rest .. n - 1 + Beyond(protocol)
    <3>0. PICK e : e = next[starts[l]]
      OBVIOUS
    <3>1. l \in 1 .. l
      BY <2>2
    <3>2. e >= N /\ e \in Nat /\ e - 1 <= n - 1 + Beyond(protocol)
          /\ regions[l].end = e - 1
      BY <2>1, <2>2, <2>4, <2>6, <3>0, <3>1
    <3>3. e - 1 >= n - 1 - rest
      BY <1>6, <3>2
    <3> QED BY <1>6, <3>2, <3>3 DEF Beyond
  <2>13. AreRegions(regions, n, rest, Beyond(protocol))
    BY <2>7, <2>9, <2>10, <2>11, <2>12 DEF AreRegions
  <2> QED BY <1>1, <2>8, <2>13
<1> QED BY <1>10, <1>11

-----------------------------------------------------------------------------
(* Messages one behind the other.                                          *)

(* FlattenSeq, as its recursive function says.                             *)
Flattens(seqs, N, f) ==
    /\ f[1] = seqs[1]
    /\ \A i \in 2 .. N : f[i] = f[i - 1] \o seqs[i]
    /\ \A i \in 1 .. N : f[i] \in Seq(Nat)
    /\ FlattenSeq(seqs) = f[N]

(* The recursive function of FlattenSeq is defined.                        *)
LEMMA FlattenExists ==
    ASSUME NEW seqs \in Seq(Seq(Nat)), seqs # <<>>, NEW N, N = Len(seqs)
    PROVE  \E f : Flattens(seqs, N, f)
<1>0. N \in Nat /\ N >= 1 /\ \A i \in 1 .. N : seqs[i] \in Seq(Nat)
  BY EmptySeq
<1> DEFINE eq(f) == [i \in 1 .. N |-> IF i = 1 THEN seqs[i]
                                      ELSE f[i - 1] \o seqs[i]]
           step == [i \in 1 .. N |-> [v \in Seq(Nat) |-> v \o seqs[i]]]
<1>1. \A i \in 1 .. N : \A v \in Seq(Nat) : /\ step[i][v] = v \o seqs[i]
                                            /\ step[i][v] \in Seq(Nat)
  BY <1>0, ConcatProperties
<1> HIDE DEF step
<1>2. <<>> \in Seq(Nat)
  OBVIOUS
<1>3. PICK g : IsLoop(g, N, <<>>, step)
  BY <1>0, LoopExists
<1>4. \A i \in 0 .. N : g[i] \in Seq(Nat)
  <2>1. \A i \in 1 .. N : \A v \in Seq(Nat) : step[i][v] \in Seq(Nat)
    BY <1>1
  <2>2. PICK T, c : T = Seq(Nat) /\ c = <<>> /\ c \in T
    BY <1>2
  <2>3. \A i \in 0 .. N : g[i] \in T
    <3>1. \A i \in 1 .. N : \A v \in T : step[i][v] \in T
      BY <2>1, <2>2
    <3>2. IsLoop(g, N, c, step) /\ c \in T /\ N \in Nat
      BY <1>0, <1>3, <2>2
    <3> HIDE DEF step
    <3> QED BY <3>1, <3>2, LoopType
  <2> QED BY <2>2, <2>3
<1>5. ASSUME NEW i \in 1 .. N
      PROVE  g[i] = IF i = 1 THEN seqs[i] ELSE g[i - 1] \o seqs[i]
  <2>1. i - 1 \in 0 .. N
    BY <1>0
  <2>2. g[i] = g[i - 1] \o seqs[i]
    BY <1>1, <1>3, <1>4, <2>1 DEF IsLoop
  <2>3. CASE i = 1
    <3>1. g[i - 1] = <<>>
      BY <1>3, <2>3 DEF IsLoop
    <3>2. <<>> \o seqs[i] = seqs[i]
      BY <1>0, ConcatEmptySeq
    <3> QED BY <2>2, <2>3, <3>1, <3>2
  <2> QED BY <2>2, <2>3
<1>6. PICK f : f = [i \in 1 .. N |-> g[i]]
  OBVIOUS
<1>7. f = eq(f)
  <2>1. ASSUME NEW i \in 1 .. N
        PROVE  f[i] = IF i = 1 THEN seqs[i] ELSE f[i - 1] \o seqs[i]
    <3>1. CASE i = 1
      BY <1>5, <1>6, <3>1
    <3>2. CASE i # 1
      <4>1. i - 1 \in 1 .. N
        BY <1>0, <3>2
      <4>2. f[i - 1] = g[i - 1]
        BY <1>6, <4>1
      <4> QED BY <1>5, <1>6, <3>2, <4>2
    <3> QED BY <3>1, <3>2
  <2> QED BY <1>6, <2>1
<1> DEFINE flatten == CHOOSE h : h = eq(h)
<1>8. flatten = eq(flatten)
  BY <1>7
<1>9. FlattenSeq(seqs) = flatten[N]
  BY <1>0 DEF FlattenSeq
<1> HIDE DEF flatten
<1>10. flatten[1] = seqs[1]
       /\ \A i \in 2 .. N : flatten[i] = flatten[i - 1] \o seqs[i]
  <2>1. \A i \in 1 .. N :
          eq(flatten)[i] = IF i = 1 THEN seqs[i] ELSE flatten[i - 1] \o seqs[i]
    OBVIOUS
  <2>2. 1 \in 1 .. N /\ \A i \in 2 .. N : i \in 1 .. N /\ i # 1
    BY <1>0
  <2> HIDE DEF eq
  <2> QED BY <1>8, <2>1, <2>2
<1>11. \A i \in 1 .. N : flatten[i] \in Seq(Nat)
  <2> DEFINE T == {i \in 0 .. N : i # 0 => flatten[i] \in Seq(Nat)}
  <2>1. 0 \in T
    BY <1>0
  <2>2. ASSUME NEW i \in 1 .. N, i - 1 \in T PROVE i \in T
    <3>1. CASE i = 1
      BY <1>0, <1>10, <3>1
    <3>2. CASE i # 1
      <4>1. i \in 2 .. N /\ i - 1 # 0
        BY <1>0, <3>2
      <4>2. flatten[i - 1] \in Seq(Nat)
        BY <2>2, <4>1
      <4>3. flatten[i] \in Seq(Nat)
        <5>1. seqs[i] \in Seq(Nat) /\ flatten[i] = flatten[i - 1] \o seqs[i]
          BY <1>0, <1>10, <4>1
        <5> QED BY <4>2, <5>1, ConcatProperties
      <4> QED BY <4>3
    <3> QED BY <3>1, <3>2
  <2>3. T = 0 .. N
    <3>1. T \in SUBSET (0 .. N)
      OBVIOUS
    <3> HIDE DEF T
    <3> QED BY <1>0, <2>1, <2>2, <3>1, UpTo
  <2> QED BY <2>3
<1> QED BY <1>9, <1>10, <1>11 DEF Flattens

(* The parts of what they make are they.                                   *)
CutsTo(file, sizes, saved) ==
    /\ file \in Seq(Nat) /\ Len(file) = Offsets(sizes)[Len(sizes)]
    /\ Cut(file, sizes) = saved

(* The first i messages lie in file where off says.                        *)
Placed(file, off, saved, i) ==
    /\ file \in Seq(Nat) /\ Len(file) = off[i]
    /\ \A a \in 1 .. i : \A k \in 1 .. Len(saved[a]) :
         /\ off[a - 1] + k \in 1 .. off[i]
         /\ file[off[a - 1] + k] = saved[a][k]

(* u is s and t.                                                           *)
Joined(s, t, u) ==
    /\ u \in Seq(Nat) /\ Len(u) = Len(s) + Len(t)
    /\ \A x \in 1 .. Len(s) + Len(t) :
         u[x] = IF x <= Len(s) THEN s[x] ELSE t[x - Len(s)]

(* A concatenation is that.                                                *)
LEMMA JoinedFacts ==
    ASSUME NEW s \in Seq(Nat), NEW t \in Seq(Nat), NEW u, u = s \o t
    PROVE  Joined(s, t, u)
BY ConcatProperties DEF Joined

(* One more message behind the ones a file holds.                          *)
LEMMA PlaceOneMore ==
    ASSUME NEW saved, NEW off, NEW file, NEW i \in Nat,
           Placed(file, off, saved, i), saved[i + 1] \in Seq(Nat),
           off[i] \in Nat, NEW i1, i1 = i + 1,
           off[i1] = off[i] + Len(saved[i1])
    PROVE  Placed(file \o saved[i1], off, saved, i1)
<1>1. PICK m, l, new, o : /\ m = saved[i1] /\ l = Len(m) /\ o = off[i]
                          /\ new = file \o m
  OBVIOUS
<1>2. m \in Seq(Nat) /\ file \in Seq(Nat) /\ l \in Nat /\ o \in Nat
      /\ Len(file) = o /\ off[i1] = o + l /\ i1 - 1 = i
  <2>1. m \in Seq(Nat)
    BY <1>1
  <2>2. l \in Nat
    BY <1>1, <2>1
  <2> QED BY <1>1, <2>1, <2>2 DEF Placed
<1>3. /\ new \in Seq(Nat) /\ Len(new) = o + l
      /\ \A x \in 1 .. o + l : new[x] = IF x <= o THEN file[x] ELSE m[x - o]
  <2>1. Joined(file, m, new)
    BY <1>1, <1>2, JoinedFacts
  <2>2. Len(file) = o /\ Len(m) = l
    BY <1>1, <1>2
  <2> QED BY <2>1, <2>2 DEF Joined
<1>4. ASSUME NEW a \in 1 .. i1, NEW k \in 1 .. Len(saved[a])
      PROVE  /\ off[a - 1] + k \in 1 .. o + l
             /\ new[off[a - 1] + k] = saved[a][k]
  <2>1. CASE a = i1
    <3>1. k \in 1 .. l /\ off[a - 1] = o
      BY <1>1, <1>2, <2>1
    <3>2. PICK x : x = o + k
      OBVIOUS
    <3>3. x \in 1 .. o + l /\ ~ (x <= o) /\ x - o = k
      BY <1>2, <3>1, <3>2
    <3>4. new[x] = m[k]
      BY <1>3, <3>3
    <3> QED BY <1>1, <2>1, <3>1, <3>2, <3>3, <3>4
  <2>2. CASE a # i1
    <3>1. a \in 1 .. i
      BY <2>2
    <3>2. PICK x : x = off[a - 1] + k
      OBVIOUS
    <3>3. x \in 1 .. o /\ file[x] = saved[a][k]
      BY <1>1, <3>1, <3>2 DEF Placed
    <3>4. x \in 1 .. o + l /\ x <= o
      BY <1>2, <3>3
    <3> QED BY <1>3, <3>2, <3>3, <3>4
  <2> QED BY <2>1, <2>2
<1> QED BY <1>1, <1>2, <1>3, <1>4 DEF Placed

(* A file of messages cut at their sizes gives the messages.               *)
LEMMA FlattenCut ==
    ASSUME NEW saved \in Seq(Message), NEW sizes,
           sizes = [i \in 1 .. Len(saved) |-> Len(saved[i])]
    PROVE  /\ sizes \in Seq(Nat \ {0}) /\ Len(sizes) = Len(saved)
           /\ CutsTo(FlattenSeq(saved), sizes, saved)
<1>1. PICK N : N = Len(saved) /\ N \in Nat
  OBVIOUS
<1>2. \A i \in 1 .. N : saved[i] \in Seq(Nat) /\ Len(saved[i]) \in Nat \ {0}
  <2> SUFFICES ASSUME NEW i \in 1 .. N
               PROVE  saved[i] \in Seq(Nat) /\ Len(saved[i]) \in Nat \ {0}
    OBVIOUS
  <2>1. saved[i] \in Seq(Nat) /\ saved[i] # <<>>
    BY <1>1 DEF Message
  <2> QED BY <2>1, EmptySeq
<1>3. saved \in Seq(Seq(Nat))
  BY <1>1, <1>2
<1>4. sizes \in Seq(Nat \ {0}) /\ sizes \in Seq(Nat) /\ Len(sizes) = N
      /\ \A i \in 1 .. N : sizes[i] = Len(saved[i]) /\ sizes[i] \in Nat \ {0}
  <2>1. sizes \in [1 .. N -> Nat \ {0}]
    BY <1>1, <1>2
  <2>2. sizes \in [1 .. N -> Nat]
    BY <2>1
  <2> QED BY <1>1, <1>2, <2>1, <2>2, FunIsSeq
<1>5. PICK off, file : off = Offsets(sizes) /\ file = FlattenSeq(saved)
  OBVIOUS
<1>6. /\ off[0] = 0
      /\ \A i \in 1 .. N : off[i] = off[i - 1] + sizes[i]
      /\ \A i \in 0 .. N : off[i] \in Nat
  BY <1>4, <1>5, OffsetsFacts
<1>7. Placed(file, off, saved, N)
  <2>1. Placed(<<>>, off, saved, 0)
    <3>1. <<>> \in Seq(Nat) /\ Len(<<>>) = 0 /\ 1 .. 0 = {}
      BY EmptySeq
    <3> QED BY <1>6, <3>1 DEF Placed
  <2>2. CASE N = 0
    <3>1. saved = <<>>
      BY <1>1, <1>3, <2>2, EmptySeq
    <3>2. file = <<>>
      BY <1>1, <1>5, <2>2, <3>1 DEF FlattenSeq
    <3> QED BY <2>1, <2>2, <3>2
  <2>3. CASE N # 0
    <3>1. PICK f : Flattens(saved, N, f)
      <4>1. saved # <<>>
        BY <1>1, <2>3
      <4> QED BY <1>1, <1>3, <4>1, FlattenExists
    <3> DEFINE T == {i \in 0 .. N : i # 0 => Placed(f[i], off, saved, i)}
    <3>2. 0 \in T
      BY <1>1
    <3>3. ASSUME NEW i \in 1 .. N, i - 1 \in T PROVE i \in T
      <4>1. PICK h : h = i - 1 /\ h \in 0 .. N /\ i = h + 1 /\ h \in Nat
        BY <1>1
      <4>2. /\ saved[h + 1] \in Seq(Nat) /\ off[h] \in Nat
            /\ off[i] = off[h] + Len(saved[i])
        BY <1>2, <1>4, <1>6, <4>1
      <4>3. CASE h = 0
        <5>1. Placed(<<>> \o saved[i], off, saved, i)
          BY <2>1, <4>1, <4>2, <4>3, PlaceOneMore
        <5>2. <<>> \o saved[i] = saved[i]
          BY <4>1, <4>2, ConcatEmptySeq
        <5>3. f[i] = saved[i]
          BY <3>1, <4>1, <4>3 DEF Flattens
        <5> QED BY <5>1, <5>2, <5>3
      <4>4. CASE h # 0
        <5>1. Placed(f[h], off, saved, h)
          BY <3>3, <4>1, <4>4
        <5>2. Placed(f[h] \o saved[i], off, saved, i)
          BY <4>1, <4>2, <5>1, PlaceOneMore
        <5>3. i \in 2 .. N
          BY <1>1, <4>1, <4>4
        <5>4. f[i] = f[h] \o saved[i]
          BY <3>1, <4>1, <5>3 DEF Flattens
        <5>5. Placed(f[i], off, saved, i)
          BY <5>2, <5>4
        <5>6. i \in 0 .. N
          BY <1>1
        <5> QED BY <5>5, <5>6
      <4> QED BY <4>3, <4>4
    <3>4. T = 0 .. N
      <4>1. T \in SUBSET (0 .. N)
        OBVIOUS
      <4> HIDE DEF T
      <4> QED BY <1>1, <3>2, <3>3, <4>1, UpTo
    <3>5. N \in T
      <4> HIDE DEF T
      <4> QED BY <1>1, <3>4
    <3>6. Placed(f[N], off, saved, N)
      BY <2>3, <3>5
    <3>7. f[N] = file
      BY <1>5, <3>1 DEF Flattens
    <3> QED BY <3>6, <3>7
  <2> QED BY <2>2, <2>3
<1>8. file \in Seq(Nat) /\ Len(file) = off[N]
  BY <1>7 DEF Placed
<1>9. PICK cut : cut = Cut(file, sizes)
  OBVIOUS
<1>10. /\ cut \in Seq(Seq(Nat)) /\ Len(cut) = N
       /\ \A i \in 1 .. N :
            /\ cut[i] \in Seq(Nat) /\ Len(cut[i]) = sizes[i]
            /\ \A k \in 1 .. sizes[i] :
                 LET at == off[i - 1] + k - 1
                 IN  cut[i][k] = IF at < Len(file) THEN file[at + 1] ELSE 0
  <2>1. IsCut(file, sizes, cut)
    BY <1>4, <1>8, <1>9, CutFacts
  <2> QED BY <1>4, <1>5, <2>1, ZenonT(30) DEF IsCut
<1>11. ASSUME NEW i \in 1 .. N PROVE cut[i] = saved[i]
  <2>1. ASSUME NEW k \in 1 .. sizes[i] PROVE cut[i][k] = saved[i][k]
    <3>1. k \in 1 .. Len(saved[i]) /\ k \in Nat
      BY <1>4
    <3>2. PICK p : p = off[i - 1]
      OBVIOUS
    <3>3. p \in Nat
      <4>1. i - 1 \in 0 .. N
        BY <1>1
      <4> QED BY <1>6, <3>2, <4>1
    <3>4. p + k \in 1 .. off[N] /\ file[p + k] = saved[i][k]
      BY <1>7, <3>1, <3>2 DEF Placed
    <3>5. PICK at : at = p + k - 1
      OBVIOUS
    <3>6. off[N] \in Nat
      BY <1>1, <1>6
    <3>7. at < Len(file) /\ at + 1 = p + k
      BY <1>8, <3>1, <3>3, <3>4, <3>5, <3>6
    <3>8. cut[i][k] = IF at < Len(file) THEN file[at + 1] ELSE 0
      BY <1>10, <3>2, <3>5
    <3> QED BY <3>4, <3>7, <3>8
  <2>2. Len(cut[i]) = Len(saved[i]) /\ cut[i] \in Seq(Nat) /\ saved[i] \in Seq(Nat)
    BY <1>2, <1>4, <1>10
  <2>3. \A k \in 1 .. Len(cut[i]) : cut[i][k] = saved[i][k]
    BY <1>10, <2>1
  <2> QED BY <2>2, <2>3, SeqEqual
<1>12. cut = saved
  <2>1. Len(cut) = Len(saved) /\ \A i \in 1 .. Len(cut) : cut[i] = saved[i]
    BY <1>1, <1>10, <1>11
  <2> QED BY <1>3, <1>10, <2>1, SeqEqual
<1> QED BY <1>1, <1>4, <1>5, <1>8, <1>9, <1>12 DEF CutsTo

-----------------------------------------------------------------------------
(* The messages of a buffer: what its bytes from a to b are.               *)
AreBytes(buf, a, b, bytes) ==
    /\ bytes \in Seq(Nat) \ {<<>>} /\ Len(bytes) = b - a + 1
    /\ \A x \in 1 .. b - a + 1 : bytes[x] = Byte(buf, a + x - 1)

(* Bytes returns them.                                                     *)
LEMMA BytesFacts ==
    ASSUME NEW buf \in Seq(Nat), NEW a \in Nat, NEW b \in Nat, a <= b,
           NEW bytes, bytes = Bytes(buf, a, b)
    PROVE  AreBytes(buf, a, b, bytes)
<1>1. PICK l : l = b - a + 1 /\ l \in Nat \ {0}
  OBVIOUS
<1>2. ASSUME NEW x \in 1 .. l PROVE Byte(buf, a + x - 1) \in Nat
  <2>1. PICK p : p = a + x - 1 /\ p \in Nat
    BY <1>1
  <2> QED BY <2>1, ByteType
<1>3. bytes = [x \in 1 .. l |-> Byte(buf, a + x - 1)]
  BY <1>1 DEF Bytes
<1>4. bytes \in [1 .. l -> Nat]
  BY <1>2, <1>3
<1>5. bytes \in Seq(Nat) /\ Len(bytes) = l
  BY <1>1, <1>4, FunIsSeq
<1>6. bytes # <<>>
  BY <1>1, <1>5, EmptySeq
<1> QED BY <1>1, <1>3, <1>5, <1>6 DEF AreBytes

(* Bytes behind bytes.                                                     *)
LEMMA BytesJoin ==
    ASSUME NEW buf \in Seq(Nat), NEW b \in Nat, NEW c \in Nat,
           NEW a, a = b + 1, a <= c
    PROVE  Bytes(buf, 0, b) \o Bytes(buf, a, c) = Bytes(buf, 0, c)
<1>1. PICK s, t, u, v : /\ s = Bytes(buf, 0, b) /\ t = Bytes(buf, a, c)
                        /\ u = s \o t /\ v = Bytes(buf, 0, c)
  OBVIOUS
<1>2. PICK z : z = 0 /\ z \in Nat /\ z <= b /\ z <= c /\ a \in Nat
  OBVIOUS
<1>3. /\ s \in Seq(Nat) /\ Len(s) = b - z + 1
      /\ \A x \in 1 .. b - z + 1 : s[x] = Byte(buf, z + x - 1)
  <2>1. s = Bytes(buf, z, b)
    BY <1>1, <1>2
  <2>2. AreBytes(buf, z, b, s)
    BY <1>2, <2>1, BytesFacts
  <2> QED BY <2>2 DEF AreBytes
<1>4. /\ t \in Seq(Nat) /\ Len(t) = c - a + 1
      /\ \A x \in 1 .. c - a + 1 : t[x] = Byte(buf, a + x - 1)
  <2>1. AreBytes(buf, a, c, t)
    BY <1>1, <1>2, BytesFacts
  <2> QED BY <2>1 DEF AreBytes
<1>5. /\ v \in Seq(Nat) /\ Len(v) = c - z + 1
      /\ \A x \in 1 .. c - z + 1 : v[x] = Byte(buf, z + x - 1)
  <2>1. v = Bytes(buf, z, c)
    BY <1>1, <1>2
  <2>2. AreBytes(buf, z, c, v)
    BY <1>2, <2>1, BytesFacts
  <2> QED BY <2>2 DEF AreBytes
<1>6. Joined(s, t, u)
  BY <1>1, <1>3, <1>4, JoinedFacts
<1>7. Len(s) = b + 1 /\ Len(t) = c - b /\ Len(s) + Len(t) = c + 1
      /\ Len(v) = c + 1
  BY <1>2, <1>3, <1>4, <1>5
<1>8. ASSUME NEW x \in 1 .. c + 1 PROVE u[x] = v[x]
  <2>1. v[x] = Byte(buf, z + x - 1)
    <3>1. x \in 1 .. c - z + 1
      BY <1>2
    <3> QED BY <1>5, <3>1
  <2>2. u[x] = IF x <= b + 1 THEN s[x] ELSE t[x - (b + 1)]
    BY <1>6, <1>7 DEF Joined
  <2>3. CASE x <= b + 1
    <3>1. x \in 1 .. b - z + 1
      BY <1>2, <2>3
    <3> QED BY <1>3, <2>1, <2>2, <2>3, <3>1
  <2>4. CASE ~ (x <= b + 1)
    <3>1. PICK y : y = x - (b + 1)
      OBVIOUS
    <3>2. y \in 1 .. c - a + 1 /\ a + y - 1 = z + x - 1
      BY <1>2, <2>4, <3>1
    <3>3. t[y] = Byte(buf, a + y - 1)
      BY <1>4, <3>2
    <3> QED BY <2>1, <2>2, <2>4, <3>1, <3>2, <3>3
  <2> QED BY <2>3, <2>4
<1>9. u = v
  <2>1. Len(u) = Len(v) /\ u \in Seq(Nat)
    BY <1>6, <1>7 DEF Joined
  <2>2. \A x \in 1 .. Len(u) : u[x] = v[x]
    BY <1>7, <1>8, <2>1
  <2> QED BY <1>5, <2>1, <2>2, SeqEqual
<1> QED BY <1>1, <1>9

(* The messages that regions make of a buffer are not empty, and together  *)
(* they are the buffer up to the end of the last region.                   *)
SplitTo(buf, regions, n, rest, beyond, messages) ==
    /\ messages \in Seq(Message) /\ messages # <<>>
    /\ SizesOf(regions) \in Seq(Nat \ {0}) /\ SizesOf(regions) # <<>>
    /\ \E e \in n - 1 - rest .. n - 1 + beyond :
         e >= 0 /\ FlattenSeq(messages) = Bytes(buf, 0, e)

(* Regions that follow each other make such messages.                      *)
LEMMA MessagesFacts ==
    ASSUME NEW buf \in Seq(Nat) \ {<<>>}, NEW regions, NEW n, NEW rest,
           NEW beyond \in Nat, n = Len(buf), rest \in {0, 1},
           AreRegions(regions, n, rest, beyond), NEW messages,
           messages = [i \in 1 .. Len(regions) |->
                         Bytes(buf, regions[i].start, regions[i].end)]
    PROVE  SplitTo(buf, regions, n, rest, beyond, messages)
<1>1. PICK l : l = Len(regions)
  OBVIOUS
<1>2. /\ l \in Nat \ {0} /\ regions[1].start = 0
      /\ \A x \in 1 .. l : /\ regions[x].start <= regions[x].end
                           /\ regions[x].start \in Nat
                           /\ regions[x].end \in Nat
      /\ \A x \in 1 .. l - 1 : regions[x + 1].start = regions[x].end + 1
      /\ regions[l].end \in n - 1 - rest .. n - 1 + beyond
  <2>1. l \in Nat \ {0}
    BY <1>1, EmptySeq DEF AreRegions
  <2>2. \A x \in 1 .. l : regions[x] \in [start : Nat, end : Nat]
    BY <1>1, ElementOfSeq DEF AreRegions
  <2>3. \A x \in 1 .. l : regions[x].start \in Nat /\ regions[x].end \in Nat
    BY <2>2
  <2> QED BY <1>1, <2>1, <2>3 DEF AreRegions
<1>3. ASSUME NEW x \in 1 .. l
      PROVE  /\ messages[x] = Bytes(buf, regions[x].start, regions[x].end)
             /\ messages[x] \in Message
             /\ SizesOf(regions)[x] \in Nat \ {0}
  <2>1. PICK a, b : a = regions[x].start /\ b = regions[x].end
    OBVIOUS
  <2>2. messages[x] = Bytes(buf, a, b)
    BY <1>1, <2>1
  <2>3. a \in Nat /\ b \in Nat /\ a <= b
    BY <1>2, <2>1
  <2>4. messages[x] \in Seq(Nat) \ {<<>>}
    <3>1. buf \in Seq(Nat)
      OBVIOUS
    <3>2. AreBytes(buf, a, b, messages[x])
      BY <2>2, <2>3, <3>1, BytesFacts
    <3> QED BY <3>2 DEF AreBytes
  <2>5. SizesOf(regions)[x] = b - a + 1
    BY <1>1, <2>1 DEF SizesOf
  <2>6. b - a + 1 \in Nat \ {0}
    BY <2>3
  <2> QED BY <2>1, <2>2, <2>4, <2>5, <2>6 DEF Message
<1>4. messages \in Seq(Message) /\ messages # <<>> /\ Len(messages) = l
  <2>1. messages \in [1 .. l -> Message]
    BY <1>1, <1>3
  <2>2. messages \in Seq(Message) /\ Len(messages) = l
    BY <1>2, <2>1, FunIsSeq, ZenonT(30)
  <2> QED BY <1>2, <2>2, EmptySeq
<1>5. SizesOf(regions) \in Seq(Nat \ {0}) /\ SizesOf(regions) # <<>>
  <2>1. PICK sizes : sizes = SizesOf(regions)
    OBVIOUS
  <2>2. sizes \in [1 .. l -> Nat \ {0}]
    <3>1. sizes = [x \in 1 .. l |-> regions[x].end - regions[x].start + 1]
      BY <1>1, <2>1 DEF SizesOf
    <3>2. \A x \in 1 .. l : sizes[x] \in Nat \ {0}
      BY <1>3, <2>1
    <3> QED BY <3>1, <3>2
  <2>3. sizes \in Seq(Nat \ {0}) /\ Len(sizes) = l
    BY <1>2, <2>2, FunIsSeq
  <2> QED BY <1>2, <2>1, <2>3, EmptySeq
<1>6. PICK f : Flattens(messages, l, f)
  <2>1. messages \in Seq(Seq(Nat))
    <3>1. \A x \in 1 .. l : messages[x] \in Seq(Nat)
      BY <1>3 DEF Message
    <3>2. messages \in [1 .. l -> Seq(Nat)]
      BY <1>1, <3>1
    <3> QED BY <1>2, <3>2, FunIsSeq
  <2> QED BY <1>4, <2>1, FlattenExists
<1> DEFINE T == {x \in 0 .. l : x # 0 => f[x] = Bytes(buf, 0, regions[x].end)}
<1>7. 0 \in T
  BY <1>2
<1>8. ASSUME NEW x \in 1 .. l, x - 1 \in T PROVE x \in T
  <2>0. x \in 0 .. l
    BY <1>2
  <2>1. CASE x = 1
    <3>1. f[x] = messages[x]
      BY <1>6, <2>1 DEF Flattens
    <3> QED BY <1>2, <1>3, <2>0, <2>1, <3>1
  <2>2. CASE x # 1
    <3>1. x - 1 \in 1 .. l - 1 /\ x = (x - 1) + 1 /\ x - 1 \in 1 .. l
          /\ x \in 2 .. l
      BY <1>2, <2>2
    <3>2. PICK y : y = x - 1 /\ y \in 1 .. l - 1 /\ y \in 1 .. l /\ x = y + 1
      BY <3>1
    <3>3. f[y] = Bytes(buf, 0, regions[y].end)
      <4>1. y \in T /\ y # 0
        BY <1>8, <3>2
      <4> QED BY <4>1
    <3>4. f[x] = f[y] \o messages[x]
      BY <1>6, <3>1, <3>2 DEF Flattens
    <3>5. PICK a, b, c : /\ a = regions[x].start /\ b = regions[y].end
                         /\ c = regions[x].end
      OBVIOUS
    <3>6. a = b + 1 /\ a <= c /\ b \in Nat /\ c \in Nat
      BY <1>2, <3>2, <3>5
    <3>7. Bytes(buf, 0, b) \o Bytes(buf, a, c) = Bytes(buf, 0, c)
      BY <3>6, BytesJoin
    <3> QED BY <1>3, <2>0, <3>3, <3>4, <3>5, <3>7
  <2> QED BY <2>1, <2>2
<1>9. T = 0 .. l
  <2>1. T \in SUBSET (0 .. l)
    OBVIOUS
  <2> HIDE DEF T
  <2> QED BY <1>2, <1>7, <1>8, <2>1, UpTo
<1>10. FlattenSeq(messages) = Bytes(buf, 0, regions[l].end)
  <2>1. l \in T
    <3> HIDE DEF T
    <3> QED BY <1>2, <1>9
  <2>2. f[l] = Bytes(buf, 0, regions[l].end)
    BY <1>2, <2>1
  <2> QED BY <1>6, <2>2 DEF Flattens
<1>11. PICK e : e = regions[l].end
  OBVIOUS
<1>12. e \in n - 1 - rest .. n - 1 + beyond /\ e >= 0
       /\ FlattenSeq(messages) = Bytes(buf, 0, e)
  <2>1. l \in 1 .. l
    BY <1>2
  <2> QED BY <1>2, <1>10, <1>11, <2>1
<1> QED BY <1>4, <1>5, <1>12 DEF SplitTo

(* Up to an end: the buffer, the buffer without its last byte or, for dns, *)
(* up to three bytes more.                                                 *)
EndsAt(buf, n, e, bytes) ==
    /\ Len(bytes) = e + 1
    /\ e = n - 1 => bytes = buf
    /\ e = n - 2 => bytes = Front(buf)
    /\ e >= n => IsPrefix(buf, bytes)

(* The bytes from 0 to e are the buffer up to that end.                    *)
LEMMA BytesOfBuffer ==
    ASSUME NEW buf \in Seq(Nat) \ {<<>>}, NEW n, n = Len(buf), NEW e \in Nat,
           NEW bytes, bytes = Bytes(buf, 0, e)
    PROVE  EndsAt(buf, n, e, bytes)
<1>1. n \in Nat \ {0} /\ buf \in Seq(Nat)
  BY EmptySeq
<1>2. PICK z : z = 0 /\ z \in Nat /\ z <= e
  OBVIOUS
<1>3. /\ bytes \in Seq(Nat) /\ Len(bytes) = e - z + 1
      /\ \A x \in 1 .. e - z + 1 : bytes[x] = Byte(buf, z + x - 1)
  <2>1. bytes = Bytes(buf, z, e)
    BY <1>2
  <2>2. AreBytes(buf, z, e, bytes)
    BY <1>1, <1>2, <2>1, BytesFacts
  <2> QED BY <2>2 DEF AreBytes
<1>4. Len(bytes) = e + 1
  BY <1>2, <1>3
<1>5. ASSUME NEW x \in 1 .. e + 1, x \in 1 .. n PROVE bytes[x] = buf[x]
  <2>1. PICK p : p = z + x - 1 /\ p < n /\ p + 1 = x /\ x \in 1 .. e - z + 1
    BY <1>1, <1>2, <1>5
  <2>2. bytes[x] = Byte(buf, p)
    BY <1>3, <2>1
  <2> QED BY <2>1, <2>2 DEF Byte
<1>6. ASSUME e = n - 1 PROVE bytes = buf
  <2>1. Len(bytes) = Len(buf) /\ \A x \in 1 .. Len(bytes) : bytes[x] = buf[x]
    BY <1>1, <1>4, <1>5, <1>6
  <2> QED BY <1>1, <1>3, <2>1, SeqEqual
<1>7. ASSUME e = n - 2 PROVE bytes = Front(buf)
  <2>1. /\ Front(buf) \in Seq(Nat) /\ Len(Front(buf)) = n - 1
        /\ \A x \in 1 .. n - 1 : Front(buf)[x] = buf[x]
    BY <1>1, FrontFacts
  <2>2. Len(bytes) = Len(Front(buf))
    BY <1>1, <1>4, <1>7, <2>1
  <2>3. \A x \in 1 .. Len(bytes) : bytes[x] = Front(buf)[x]
    <3> SUFFICES ASSUME NEW x \in 1 .. Len(bytes)
                 PROVE  bytes[x] = Front(buf)[x]
      OBVIOUS
    <3>1. x \in 1 .. e + 1 /\ x \in 1 .. n /\ x \in 1 .. n - 1
      BY <1>1, <1>4, <1>7
    <3> QED BY <1>5, <2>1, <3>1
  <2> QED BY <1>3, <2>1, <2>2, <2>3, SeqEqual
<1>8. ASSUME e >= n PROVE IsPrefix(buf, bytes)
  <2>1. Len(buf) <= Len(bytes)
    BY <1>1, <1>4, <1>8
  <2>2. SubSeq(buf, 1, n) = SubSeq(bytes, 1, n)
    <3>1. Agree(buf, 0, bytes, 0, n)
      <4> SUFFICES ASSUME NEW x \in 1 .. n PROVE buf[0 + x] = bytes[0 + x]
        BY DEF Agree
      <4>1. 0 + x = x /\ x \in 1 .. e + 1
        BY <1>1, <1>8
      <4> QED BY <1>5, <4>1
    <3>2. PICK o : o = 1 /\ o = z + 1
      BY <1>2
    <3>3. /\ z + n <= Len(buf) /\ z + n <= Len(bytes) /\ n = z + n
          /\ Agree(buf, z, bytes, z, n)
      BY <1>1, <1>2, <2>1, <3>1
    <3>4. Same(buf, z, o, n, bytes, z, o, n, n)
      BY <1>1, <1>2, <1>3, <3>2, <3>3, SameParts
    <3> QED BY <3>2, <3>4 DEF Same
  <2> QED BY <2>1, <2>2 DEF IsPrefix
<1> QED BY <1>4, <1>6, <1>7, <1>8 DEF EndsAt

-----------------------------------------------------------------------------
(* The subjects of a session.                                              *)

(* The messages that are made of a mutated buffer.                         *)
NewOf(o, buf) ==
    LET regions == extract_requests(o.protocol, buf) IN
    [i \in 1 .. Len(regions) |->
        Bytes(buf, regions[i].start, regions[i].end)]

(* bytes are the buffer, but for what SessionIsBuffer allows.              *)
Recovers(protocol, buf, bytes) ==
    \/ bytes = buf
    \/ protocol \notin {"dicom", "dtls12"} /\ bytes = Front(buf)
    \/ protocol = "dns" /\ IsPrefix(buf, bytes) /\ Len(bytes) <= Len(buf) + 3

(* Sequences over a larger set.                                            *)
LEMMA SeqOfMore ==
    ASSUME NEW S, NEW T, S \subseteq T, NEW s \in Seq(S)
    PROVE  s \in Seq(T)
<1>1. PICK n : n = Len(s) /\ n \in Nat
  OBVIOUS
<1>2. s \in [1 .. n -> S]
  BY <1>1
<1>3. s \in [1 .. n -> T]
  BY <1>2
<1> QED BY <1>1, <1>3, FunIsSeq

(* The fields of a subject.                                                *)
LEMMA SubjectFacts ==
    ASSUME NEW o \in Subjects
    PROVE  /\ o.protocol \in Protocol /\ IsFiniteSet(o.seeds)
           /\ o.seeds \subseteq Seq(Nat) \ {<<>>}
           /\ o.outputs \subseteq Seq(Nat) \ {<<>>}
           /\ o.prefix \in Nat /\ o.execs \in Nat /\ o.finds \in Nat
           /\ o.flaky \in BOOLEAN
<1>1. /\ o.protocol \in Protocol
      /\ IsFiniteSet(o.seeds)
      /\ o.seeds \union o.outputs \subseteq Seq(0 .. 255) \ {<<>>}
      /\ {o.prefix, o.execs, o.finds} \subseteq Nat
      /\ o.flaky \in BOOLEAN
  BY SubjectAssumption
<1>2. ASSUME NEW buf \in o.seeds \union o.outputs
      PROVE  buf \in Seq(Nat) \ {<<>>}
  <2>1. buf \in Seq(0 .. 255) /\ buf # <<>>
    BY <1>1
  <2>2. 0 .. 255 \subseteq Nat
    OBVIOUS
  <2>3. buf \in Seq(Nat)
    BY <2>1, <2>2, SeqOfMore, ZenonT(30)
  <2> QED BY <2>1, <2>3
<1> QED BY <1>1, <1>2

(* Every mutated buffer makes a message, and the messages are the buffer.  *)
MessagesMade(o, buf, new) ==
    /\ new \in Seq(Message) /\ new # <<>>
    /\ Recovers(o.protocol, buf, FlattenSeq(new))

(* What Rest and Beyond stand for.                                         *)
LEMMA EndFacts ==
    ASSUME NEW protocol \in Protocol, NEW buf \in Seq(Nat) \ {<<>>},
           NEW n, n = Len(buf), NEW e \in Nat,
           e \in n - 1 - Rest(protocol) .. n - 1 + Beyond(protocol),
           NEW bytes, bytes = Bytes(buf, 0, e)
    PROVE  Recovers(protocol, buf, bytes)
<1>1. /\ Len(bytes) = e + 1
      /\ e = n - 1 => bytes = buf
      /\ e = n - 2 => bytes = Front(buf)
      /\ e >= n => IsPrefix(buf, bytes)
  <2>1. EndsAt(buf, n, e, bytes)
    BY BytesOfBuffer
  <2> QED BY <2>1 DEF EndsAt
<1>2. n \in Nat
  OBVIOUS
<1>3. CASE e = n - 1
  BY <1>1, <1>3 DEF Recovers
<1>4. CASE e < n - 1
  <2>1. e >= n - 1 - Rest(protocol)
    OBVIOUS
  <2>2. protocol \notin {"dicom", "dtls12"} /\ e = n - 2
    <3>1. CASE protocol \in {"dicom", "dtls12"}
      <4>1. Rest(protocol) = 0
        BY <3>1 DEF Rest
      <4> QED BY <1>2, <1>4, <2>1, <4>1
    <3>2. CASE protocol \notin {"dicom", "dtls12"}
      <4>1. Rest(protocol) = 1
        BY <3>2 DEF Rest
      <4> QED BY <1>2, <1>4, <2>1, <3>2, <4>1
    <3> QED BY <3>1, <3>2
  <2> QED BY <1>1, <2>2 DEF Recovers
<1>5. CASE e > n - 1
  <2>1. e <= n - 1 + Beyond(protocol)
    OBVIOUS
  <2>2. protocol = "dns" /\ e <= n + 2 /\ e >= n
    <3>1. CASE protocol = "dns"
      <4>1. Beyond(protocol) = 3
        BY <3>1 DEF Beyond
      <4> QED BY <1>2, <1>5, <2>1, <3>1, <4>1
    <3>2. CASE protocol # "dns"
      <4>1. Beyond(protocol) = 0
        BY <3>2 DEF Beyond
      <4> QED BY <1>2, <1>5, <2>1, <4>1
    <3> QED BY <3>1, <3>2
  <2>3. Len(bytes) <= Len(buf) + 3
    BY <1>1, <1>2, <2>2
  <2> QED BY <1>1, <2>2, <2>3 DEF Recovers
<1> QED BY <1>2, <1>3, <1>4, <1>5

(* What the regions of a buffer make of it.                                *)
Extracted(protocol, buf, regions, messages) ==
    /\ messages \in Seq(Message) /\ messages # <<>>
    /\ SizesOf(regions) \in Seq(Nat \ {0}) /\ SizesOf(regions) # <<>>
    /\ Recovers(protocol, buf, FlattenSeq(messages))

(* Every protocol's regions make that of every buffer.                     *)
LEMMA ExtractFacts ==
    ASSUME NEW protocol \in Protocol, NEW buf \in Seq(Nat) \ {<<>>},
           NEW regions, regions = extract_requests(protocol, buf),
           NEW messages,
           messages = [i \in 1 .. Len(regions) |->
                         Bytes(buf, regions[i].start, regions[i].end)]
    PROVE  Extracted(protocol, buf, regions, messages)
<1>1. PICK n, rest, beyond : /\ n = Len(buf) /\ rest = Rest(protocol)
                             /\ beyond = Beyond(protocol)
  OBVIOUS
<1>2. rest \in {0, 1} /\ beyond \in Nat
  BY <1>1 DEF Rest, Beyond
<1>3. AreRegions(regions, n, rest, beyond)
  <2>1. AreRegions(regions, Len(buf), Rest(protocol), Beyond(protocol))
    BY RegionFacts
  <2> QED BY <1>1, <2>1
<1>4. /\ messages \in Seq(Message) /\ messages # <<>>
      /\ SizesOf(regions) \in Seq(Nat \ {0}) /\ SizesOf(regions) # <<>>
      /\ \E e \in n - 1 - rest .. n - 1 + beyond :
           e >= 0 /\ FlattenSeq(messages) = Bytes(buf, 0, e)
  <2>1. SplitTo(buf, regions, n, rest, beyond, messages)
    BY <1>1, <1>2, <1>3, MessagesFacts
  <2> QED BY <2>1 DEF SplitTo
<1>5. PICK e \in n - 1 - rest .. n - 1 + beyond :
        e >= 0 /\ FlattenSeq(messages) = Bytes(buf, 0, e)
  BY <1>4
<1>6. e \in Nat
  BY <1>1, <1>2, <1>5
<1>7. Recovers(protocol, buf, FlattenSeq(messages))
  BY <1>1, <1>5, <1>6, EndFacts
<1> QED BY <1>4, <1>7 DEF Extracted

(* The messages of a mutated buffer, in every session.                     *)
LEMMA NewFacts ==
    ASSUME NEW o \in Subjects, NEW buf \in o.outputs
    PROVE  MessagesMade(o, buf, NewOf(o, buf))
<1>1. o.protocol \in Protocol /\ buf \in Seq(Nat) \ {<<>>}
  BY SubjectFacts
<1>2. PICK regions : regions = extract_requests(o.protocol, buf)
  OBVIOUS
<1>3. NewOf(o, buf) = [i \in 1 .. Len(regions) |->
                         Bytes(buf, regions[i].start, regions[i].end)]
  BY <1>2 DEF NewOf
<1>4. Extracted(o.protocol, buf, regions, NewOf(o, buf))
  BY <1>1, <1>2, <1>3, ExtractFacts
<1> QED BY <1>4 DEF Extracted, MessagesMade

-----------------------------------------------------------------------------
(* The entries of the queue.                                               *)

EntryType == [file : Seq(Nat), sizes : Seq(Nat \ {0}),
              sent : Seq(Message), found : BOOLEAN]

(* What holds of an entry of a session with o.                             *)
IsEntry(o, e) ==
    /\ ~o.flaky => e.sizes # <<>>
    /\ e.found => Len(e.file) = Offsets(e.sizes)[Len(e.sizes)]
    /\ e.found /\ o.prefix = 0 /\ ~o.flaky =>
         LET saved == Cut(e.file, e.sizes)
         IN  IsPrefix(e.sent, saved) /\ Len(saved) <= Len(e.sent) + 1

Entries(o) == {e \in EntryType : IsEntry(o, e)}

(* An initial seed's entry is one of them.                                 *)
LEMMA SeedFacts ==
    ASSUME NEW o \in Subjects, NEW file \in o.seeds
    PROVE  SeedEntry(o.protocol, file) \in Entries(o)
<1>1. o.protocol \in Protocol /\ file \in Seq(Nat) \ {<<>>}
  BY SubjectFacts
<1>2. PICK regions : regions = extract_requests(o.protocol, file)
  OBVIOUS
<1>3. PICK messages : messages = [i \in 1 .. Len(regions) |->
                         Bytes(file, regions[i].start, regions[i].end)]
  OBVIOUS
<1>4. Extracted(o.protocol, file, regions, messages)
  BY <1>1, <1>2, <1>3, ExtractFacts
<1>5. PICK sizes : sizes = SizesOf(regions)
  OBVIOUS
<1>6. sizes \in Seq(Nat \ {0}) /\ sizes # <<>>
  BY <1>4, <1>5 DEF Extracted
<1>7. PICK e : e = [file |-> file, sizes |-> sizes, sent |-> <<>>,
                    found |-> FALSE]
  OBVIOUS
<1>8. e \in EntryType
  <2>1. <<>> \in Seq(Message)
    OBVIOUS
  <2> QED BY <1>1, <1>6, <1>7, <2>1 DEF EntryType
<1>9. e.sizes = sizes /\ e.found = FALSE
  BY <1>7
<1>10. IsEntry(o, e)
  BY <1>6, <1>9 DEF IsEntry
<1> QED BY <1>2, <1>5, <1>7, <1>8, <1>10 DEF SeedEntry, Entries

(* The number of different elements of a sequence without repetitions.     *)
HasElements(s, n) == /\ IsFiniteSet({s[x] : x \in 1 .. n})
                     /\ Cardinality({s[x] : x \in 1 .. n}) = n

(* A sequence without repetitions has as many elements as places.          *)
LEMMA CountDistinct ==
    ASSUME NEW T, NEW s \in Seq(T), NEW n, n = Len(s),
           \A x, y \in 1 .. n : s[x] = s[y] => x = y
    PROVE  HasElements(s, n)
<1>1. n \in Nat /\ s \in [1 .. n -> T]
  OBVIOUS
<1> DEFINE S == {s[x] : x \in 1 .. n}
<1>2. s \in Bijection(1 .. n, S)
  BY <1>1 DEF Bijection, Injection, Surjection, IsInjective
<1>3. ExistsBijection(1 .. n, S)
  BY <1>2 DEF ExistsBijection
<1> HIDE DEF S
<1>4. Cardinality(S) = n
  BY <1>1, <1>3, FS_CountingElements
<1>5. IsFiniteSet(S)
  <2>1. \E x \in Nat : ExistsBijection(1 .. x, S)
    BY <1>1, <1>3
  <2> QED BY <2>1, FS_NatBijection
<1> QED BY <1>4, <1>5 DEF S, HasElements

(* The initial queue.                                                      *)
LEMMA SeedsFacts ==
    ASSUME NEW o \in Subjects, NEW files, files = SetToSeq(o.seeds), NEW q,
           q = [i \in 1 .. Len(files) |-> SeedEntry(o.protocol, files[i])]
    PROVE  q \in Seq(Entries(o)) /\ Len(q) = Cardinality(o.seeds)
<1>1. PICK n : n = Cardinality(o.seeds)
  OBVIOUS
<1>2. IsFiniteSet(o.seeds)
  BY SubjectFacts
<1>3. n \in Nat
  BY <1>1, <1>2, FS_CardinalityType
<1>4. \E f \in [1 .. n -> o.seeds] : IsInjective(f)
  <2>1. ExistsBijection(1 .. n, o.seeds)
    BY <1>1, <1>2, FS_CardinalityType
  <2>2. PICK f : f \in Bijection(1 .. n, o.seeds)
    BY <2>1 DEF ExistsBijection
  <2> QED BY <2>2 DEF Bijection, Injection, IsInjective
<1>5. files \in [1 .. n -> o.seeds]
  <2>1. files = CHOOSE f \in [1 .. n -> o.seeds] : IsInjective(f)
    BY <1>1 DEF SetToSeq
  <2> QED BY <1>4, <2>1
<1>6. Len(files) = n
  BY <1>3, <1>5, FunIsSeq
<1>7. q \in [1 .. n -> Entries(o)]
  <2>1. \A i \in 1 .. n : SeedEntry(o.protocol, files[i]) \in Entries(o)
    BY <1>5, SeedFacts
  <2> QED BY <1>6, <2>1
<1> QED BY <1>1, <1>3, <1>7, FunIsSeq

-----------------------------------------------------------------------------
(* The session that the list holds: its three parts, whatever the nodes.   *)

IsSteady(list, prev, next, p1, p2, p3) ==
    \E W, M, i, j : /\ Steady(list, prev, next, W, M, i, j)
                    /\ Parts(M, i, j, Len(M), p1, p2, p3)

IsPushing(list, prev, next, last, rest, new, p1, p2, p3) ==
    \E W, M, i, j, k :
        /\ Pushing(list, prev, next, last, rest, new, W, M, i, j, k)
        /\ Parts(M, i, j, k, p1, p2, p3)

IsFreeing(list, prev, next, cur, p1, p2, p3) ==
    \E W, M, i, j, R : /\ Freeing(list, prev, next, cur, W, M, i, j, R)
                       /\ Parts(M, i, j, Len(M), p1, p2, p3)

(* The parts as MessageList reads them, up to the node end.                *)
Reads(list, prev, next, end, p1, p2, p3) ==
    LET start == IF prev = Null THEN list.head ELSE list.node[prev].next
        stop  == IF next = list.tail THEN end ELSE next
    IN  /\ p1 = Messages(list, list.head, start)
        /\ p2 = Messages(list, start, stop)
        /\ p3 = IF next # list.tail THEN Messages(list, next, end) ELSE <<>>

(* The nodes that are pointed to, and the parts.                           *)
Sound(list, prev, next, end, p1, p2, p3) ==
    /\ list.head \in 1 .. Len(list.node) /\ list.tail \in 1 .. Len(list.node)
    /\ prev \in 0 .. Len(list.node) /\ next \in 1 .. Len(list.node)
    /\ list.size \in Nat /\ Len(list.node) \in Nat
    /\ p1 \in Seq(Message) /\ p2 \in Seq(Message) \ {<<>>}
    /\ p3 \in Seq(Message)
    /\ Reads(list, prev, next, end, p1, p2, p3)

(* The parts of a session together are its messages.                       *)
PartsJoin(M, k, p1, p2, p3) ==
    /\ p1 \in Seq(Message) /\ p2 \in Seq(Message) \ {<<>>}
    /\ p3 \in Seq(Message)
    /\ k = Len(M) => p1 \o p2 \o p3 = M

(* The three parts of M put together are M.                                *)
LEMMA JoinParts ==
    ASSUME NEW M \in Seq(Message), NEW i \in Nat, NEW j \in Nat,
           NEW k \in Nat, i < j, j <= k, k <= Len(M), NEW p1, NEW p2, NEW p3,
           Parts(M, i, j, k, p1, p2, p3)
    PROVE  PartsJoin(M, k, p1, p2, p3)
<1>1. p1 = SubSeq(M, 1, i) /\ p2 = SubSeq(M, i + 1, j)
      /\ p3 = SubSeq(M, j + 1, k)
  BY DEF Parts
<1>2. PICK n : n = Len(M) /\ n \in Nat
  OBVIOUS
<1>3. \A x \in 1 .. n : M[x] \in Message
  BY <1>2, ElementOfSeq
<1>4. PICK a, b, o : a = i + 1 /\ b = j + 1 /\ o = 1
  OBVIOUS
<1>5. /\ a \in Int /\ b \in Int /\ o \in Int /\ i \in Int /\ j \in Int
      /\ k \in Int
  BY <1>4
<1>6. /\ \A x \in o .. i : M[x] \in Message
      /\ \A x \in a .. j : M[x] \in Message
      /\ \A x \in b .. k : M[x] \in Message
  <2>1. o .. i \subseteq 1 .. n /\ a .. j \subseteq 1 .. n
        /\ b .. k \subseteq 1 .. n
    BY <1>2, <1>4
  <2> QED BY <1>3, <2>1
<1>7. p1 \in Seq(Message) /\ p2 \in Seq(Message) /\ p3 \in Seq(Message)
  <2>1. SubSeq(M, o, i) \in Seq(Message)
    BY <1>5, <1>6, SubSeqProperties
  <2>2. SubSeq(M, a, j) \in Seq(Message)
    BY <1>5, <1>6, SubSeqProperties
  <2>3. SubSeq(M, b, k) \in Seq(Message)
    BY <1>5, <1>6, SubSeqProperties
  <2> QED BY <1>1, <1>4, <2>1, <2>2, <2>3
<1>8. p2 # <<>>
  <2>1. Len(SubSeq(M, a, j)) = IF a <= j THEN j - a + 1 ELSE 0
    BY <1>5, <1>6, SubSeqProperties
  <2>2. Len(p2) # 0
    BY <1>1, <1>4, <2>1
  <2> QED BY <2>2
<1>9. ASSUME k = n PROVE p1 \o p2 \o p3 = M
  <2>1. SubSeq(M, o, i) \o SubSeq(M, i + 1, j) = SubSeq(M, o, j)
    <3>1. o \in 1 .. Len(M) + 1 /\ i \in o - 1 .. Len(M) /\ j \in i .. Len(M)
      BY <1>2, <1>4
    <3> QED BY <3>1, ConcatAdjacentSubSeq
  <2>2. SubSeq(M, o, j) \o SubSeq(M, j + 1, n) = SubSeq(M, o, n)
    <3>1. o \in 1 .. Len(M) + 1 /\ j \in o - 1 .. Len(M) /\ n \in j .. Len(M)
      BY <1>2, <1>4, <1>9
    <3> QED BY <3>1, ConcatAdjacentSubSeq
  <2>3. SubSeq(M, o, n) = M
    BY <1>2, <1>4, SubSeqFull
  <2> QED BY <1>1, <1>4, <1>9, <2>1, <2>2, <2>3
<1> QED BY <1>2, <1>7, <1>8, <1>9 DEF PartsJoin

(* What Core and a heap say of the session.                                *)
CoreSays(list, prev, next, W, M, i, j, k, p1, p2, p3) ==
    /\ Sound(list, prev, next, W[k + 1], p1, p2, p3)
    /\ k = Len(M) => /\ p1 \o p2 \o p3 = M /\ W[k + 1] = list.tail
    /\ Messages(list, list.head, list.tail) = M

(* A session with its heap says that.                                      *)
LEMMA CoreIsSound ==
    ASSUME NEW list, NEW prev, NEW next, NEW W, NEW M, NEW i, NEW j, NEW k,
           Core(list, prev, next, W, M, i, j, k), NEW S, Heap(list, S),
           NEW p1, NEW p2, NEW p3, Parts(M, i, j, k, p1, p2, p3)
    PROVE  CoreSays(list, prev, next, W, M, i, j, k, p1, p2, p3)
<1>0. PICK m : m = Len(M)
  OBVIOUS
<1>1. Known(list, prev, next, W, M, m, i, j, k)
  BY <1>0, CoreFacts
<1>2. /\ m \in Nat /\ i \in Nat /\ j \in Nat /\ k \in Nat
      /\ i < j /\ j <= k /\ k <= m /\ M \in Seq(Message)
  BY <1>1 DEF Known
<1>3. /\ p1 \in Seq(Message) /\ p2 \in Seq(Message) \ {<<>>}
      /\ p3 \in Seq(Message)
      /\ k = Len(M) => p1 \o p2 \o p3 = M
  <2>1. PartsJoin(M, k, p1, p2, p3)
    BY <1>0, <1>2, JoinParts
  <2> QED BY <2>1 DEF PartsJoin
<1>4. Messages(list, list.head, list.tail) = M
  BY ReadAll
<1>5. PICK end, start, stop :
        /\ end = W[k + 1]
        /\ start = IF prev = Null THEN list.head ELSE list.node[prev].next
        /\ stop = IF next = list.tail THEN end ELSE next
  OBVIOUS
<1>6. Parts(M, i, j, k, Messages(list, list.head, start),
            Messages(list, start, stop),
            IF next # list.tail THEN Messages(list, next, end) ELSE <<>>)
  BY <1>5, ReadParts
<1>7. Reads(list, prev, next, end, p1, p2, p3)
  BY <1>5, <1>6 DEF Parts, Reads
<1>8. /\ list.head \in 1 .. Len(list.node) /\ list.tail \in 1 .. Len(list.node)
      /\ prev \in 0 .. Len(list.node) /\ next \in 1 .. Len(list.node)
  <2>1. \A x \in 1 .. m + 1 : W[x] \in 1 .. Len(list.node)
    BY <1>1 DEF Known
  <2>2. /\ W[1] = list.head /\ W[m + 1] = list.tail
        /\ prev = IF i = 0 THEN Null ELSE W[i]
        /\ next = IF j = k THEN list.tail ELSE W[j + 1]
    BY <1>1 DEF Known
  <2>3. /\ 1 \in 1 .. m + 1 /\ m + 1 \in 1 .. m + 1
        /\ i # 0 => i \in 1 .. m + 1
        /\ j + 1 \in 1 .. m + 1
    BY <1>2
  <2>4. W[1] \in 1 .. Len(list.node) /\ W[m + 1] \in 1 .. Len(list.node)
        /\ W[j + 1] \in 1 .. Len(list.node)
    BY <2>1, <2>3
  <2>5. next \in 1 .. Len(list.node)
    BY <2>2, <2>4
  <2>6. prev \in 0 .. Len(list.node)
    <3>1. CASE i = 0
      <4>1. prev = 0 /\ Len(list.node) \in Nat
        BY <2>2, <3>1 DEF Null, Heap, ListType
      <4> QED BY <4>1
    <3>2. CASE i # 0
      <4>1. W[i] \in 1 .. Len(list.node) /\ prev = W[i]
        BY <2>1, <2>2, <2>3, <3>2
      <4> QED BY <4>1
    <3> QED BY <3>1, <3>2
  <2> QED BY <2>2, <2>4, <2>5, <2>6
<1>9. list.size \in Nat /\ Len(list.node) \in Nat
  BY DEF Heap, ListType
<1>10. W[m + 1] = list.tail
  BY <1>1 DEF Known
<1>11. Sound(list, prev, next, W[k + 1], p1, p2, p3)
  BY <1>3, <1>5, <1>7, <1>8, <1>9 DEF Sound
<1> QED BY <1>0, <1>3, <1>4, <1>10, <1>11 DEF CoreSays

(* The list between two mutations is the session.                          *)
IsSession(list, prev, next, p1, p2, p3) ==
    /\ Sound(list, prev, next, list.tail, p1, p2, p3)
    /\ Messages(list, list.head, list.tail) = p1 \o p2 \o p3

(* The list between two mutations holds the session's parts.               *)
LEMMA SteadyIsSession ==
    ASSUME NEW list, NEW prev, NEW next, NEW p1, NEW p2, NEW p3,
           IsSteady(list, prev, next, p1, p2, p3)
    PROVE  IsSession(list, prev, next, p1, p2, p3)
<1>1. PICK W, M, i, j : /\ Steady(list, prev, next, W, M, i, j)
                        /\ Parts(M, i, j, Len(M), p1, p2, p3)
  BY DEF IsSteady
<1>2. PICK k, S : k = Len(M) /\ S = Inner(W)
  OBVIOUS
<1>3. /\ Core(list, prev, next, W, M, i, j, k) /\ Heap(list, S)
      /\ Parts(M, i, j, k, p1, p2, p3)
  BY <1>1, <1>2 DEF Steady
<1>4. CoreSays(list, prev, next, W, M, i, j, k, p1, p2, p3)
  BY <1>3, CoreIsSound
<1> QED BY <1>2, <1>4 DEF CoreSays, IsSession

(* So is the list while the old M2 is freed; the next node to free is one. *)
LEMMA FreeingIsSession ==
    ASSUME NEW list, NEW prev, NEW next, NEW cur, NEW p1, NEW p2, NEW p3,
           IsFreeing(list, prev, next, cur, p1, p2, p3)
    PROVE  /\ IsSession(list, prev, next, p1, p2, p3)
           /\ cur \in 0 .. Len(list.node)
<1>1. PICK W, M, i, j, R : /\ Freeing(list, prev, next, cur, W, M, i, j, R)
                           /\ Parts(M, i, j, Len(M), p1, p2, p3)
  BY DEF IsFreeing
<1>2. PICK k, S : k = Len(M) /\ S = Inner(W) \cup Inner(R)
  OBVIOUS
<1>3. /\ Core(list, prev, next, W, M, i, j, k) /\ Heap(list, S)
      /\ Parts(M, i, j, k, p1, p2, p3)
  BY <1>1, <1>2 DEF Freeing
<1>4. CoreSays(list, prev, next, W, M, i, j, k, p1, p2, p3)
  BY <1>3, CoreIsSound
<1>5. R \in Seq(1 .. Len(list.node)) /\ R # <<>> /\ R[1] = cur
  BY <1>1 DEF Freeing, Linked
<1>6. cur \in 1 .. Len(list.node)
  <2>1. 1 \in 1 .. Len(R)
    BY <1>5, EmptySeq
  <2> QED BY <1>5, <2>1, ElementOfSeq
<1> QED BY <1>2, <1>4, <1>6 DEF CoreSays, IsSession

(* While new messages are pushed the session ends behind the node last.    *)
LEMMA PushingIsSound ==
    ASSUME NEW list, NEW prev, NEW next, NEW last, NEW rest, NEW new,
           NEW p1, NEW p2, NEW p3,
           IsPushing(list, prev, next, last, rest, new, p1, p2, p3)
    PROVE  /\ Sound(list, prev, next, list.node[last].next, p1, p2, p3)
           /\ rest \in Seq(Message) /\ last \in 0 .. Len(list.node)
<1>1. PICK W, M, i, j, k :
        /\ Pushing(list, prev, next, last, rest, new, W, M, i, j, k)
        /\ Parts(M, i, j, k, p1, p2, p3)
  BY DEF IsPushing
<1>2. PICK m, S : m = Len(M) /\ S = Inner(W)
  OBVIOUS
<1>3. /\ Core(list, prev, next, W, M, i, j, k) /\ Heap(list, S)
      /\ last = W[k] /\ rest \in Seq(Message)
  BY <1>1, <1>2 DEF Pushing
<1>4. CoreSays(list, prev, next, W, M, i, j, k, p1, p2, p3)
  BY <1>1, <1>3, CoreIsSound
<1>5. Known(list, prev, next, W, M, m, i, j, k)
  BY <1>2, <1>3, CoreFacts
<1>6. k \in 1 .. m /\ k \in 1 .. m + 1
  BY <1>5 DEF Known
<1>7. W[k] \in 1 .. Len(list.node) /\ list.node[W[k]].next = W[k + 1]
  BY <1>5, <1>6 DEF Known
<1> QED BY <1>3, <1>4, <1>7 DEF CoreSays

-----------------------------------------------------------------------------
(* The steps on the list.                                                  *)

(* fuzz_one opens an entry.                                                *)
LEMMA OpenStep ==
    ASSUME NEW entry, entry.file \in Seq(Nat),
           entry.sizes \in Seq(Nat \ {0}), NEW total,
           total = Len(entry.sizes), NEW list,
           list = construct_kl_messages(entry), NEW path,
           path = Nodes(list, list.head, list.tail),
           NEW start \in 0 .. total - 1,
           NEW count \in {1} \union 1 .. total - start - 1, NEW prev, NEW next,
           prev = IF start = 0 THEN Null ELSE path[start],
           next = IF start + count < total THEN path[start + count + 1]
                  ELSE list.tail
    PROVE  \E p1, p2, p3 : IsSteady(list, prev, next, p1, p2, p3)
<1>1. entry.sizes \in Seq(Nat)
  <2>1. Nat \ {0} \subseteq Nat
    OBVIOUS
  <2> QED BY <2>1, SeqOfMore
<1>2. PICK M, W : /\ M = Cut(entry.file, entry.sizes)
                  /\ IsListOf(list, W, M)
  BY <1>1, ConstructIsList
<1>3. IsCut(entry.file, entry.sizes, M)
  BY <1>1, <1>2, CutFacts
<1>4. M \in Seq(Message) /\ Len(M) = total
  <2>1. M \in Seq(Seq(Nat)) /\ Len(M) = total
    BY <1>3 DEF IsCut
  <2>2. total \in Nat
    BY <2>1
  <2>3. ASSUME NEW x \in 1 .. total PROVE M[x] \in Message
    <3>1. M[x] \in Seq(Nat) /\ Len(M[x]) = entry.sizes[x]
      BY <1>3, <2>3 DEF IsCut
    <3>2. entry.sizes[x] \in Nat \ {0}
      BY ElementOfSeq
    <3>3. M[x] # <<>>
      <4>1. Len(<<>>) = 0
        BY EmptySeq
      <4> QED BY <3>1, <3>2, <4>1
    <3> QED BY <3>1, <3>3 DEF Message
  <2>4. M \in [1 .. total -> Message]
    <3>1. M \in [1 .. total -> Seq(Nat)]
      BY <2>1
    <3> QED BY <2>3, <3>1
  <2> QED BY <2>1, <2>2, <2>4, FunIsSeq
<1>5. PICK i, j : i = start /\ j = start + count
  OBVIOUS
<1>6. /\ total \in Nat /\ i \in Nat /\ j \in Nat /\ i < j /\ j <= Len(M)
      /\ (j < Len(M)) <=> (start + count < total)
  <2>1. total \in Nat
    BY <1>4
  <2>2. count \in Nat /\ count >= 1 /\ start + count <= total
    BY <2>1
  <2> QED BY <1>4, <1>5, <2>1, <2>2
<1>7. Steady(list, IF i = 0 THEN Null ELSE path[i],
             IF j < Len(M) THEN path[j + 1] ELSE list.tail, W, M, i, j)
  BY <1>2, <1>4, <1>6, OpenIsSteady
<1>8. Steady(list, prev, next, W, M, i, j)
  <2>1. prev = IF i = 0 THEN Null ELSE path[i]
    BY <1>5
  <2>2. next = IF j < Len(M) THEN path[j + 1] ELSE list.tail
    BY <1>5, <1>6
  <2> QED BY <1>7, <2>1, <2>2
<1> QED BY <1>8 DEF IsSteady, Parts

(* common_fuzz_stuff begins.                                               *)
LEMMA MutateStep ==
    ASSUME NEW list, NEW prev, NEW next, NEW p1, NEW p2, NEW p3,
           IsSteady(list, prev, next, p1, p2, p3), NEW new \in Seq(Message),
           NEW last, last = Last(Nodes(list, list.head, list.tail))
    PROVE  IsPushing(list, prev, next, last, new, new, p1, p2, p3)
<1>1. PICK W, M, i, j : /\ Steady(list, prev, next, W, M, i, j)
                        /\ Parts(M, i, j, Len(M), p1, p2, p3)
  BY DEF IsSteady
<1>2. Pushing(list, prev, next, last, new, new, W, M, i, j, Len(M))
  BY <1>1, MutateIsPushing
<1> QED BY <1>1, <1>2 DEF IsPushing

(* A message is pushed.                                                    *)
LEMMA PushStep ==
    ASSUME NEW list, NEW prev, NEW next, NEW last, NEW rest, NEW new,
           NEW p1, NEW p2, NEW p3, rest # <<>>,
           IsPushing(list, prev, next, last, rest, new, p1, p2, p3),
           NEW list1, list1 = kl_pushp(list, Head(rest)),
           NEW next1, next1 = IF list1.node[next].next = list1.tail
                              THEN list1.tail ELSE next
    PROVE  IsPushing(list1, prev, next1, last, Tail(rest), new, p1, p2, p3)
<1>1. PICK W, M, i, j, k :
        /\ Pushing(list, prev, next, last, rest, new, W, M, i, j, k)
        /\ Parts(M, i, j, k, p1, p2, p3)
  BY DEF IsPushing
<1>2. Core(list, prev, next, W, M, i, j, k) /\ rest \in Seq(Message)
  BY <1>1 DEF Pushing
<1>3. PICK m : m = Len(M)
  OBVIOUS
<1>4. Known(list, prev, next, W, M, m, i, j, k)
  BY <1>2, <1>3, CoreFacts
<1>5. PICK M1 : M1 = Append(M, Head(rest))
  OBVIOUS
<1>6. Pushing(list1, prev, next1, last, Tail(rest), new,
              Append(W, list1.tail), M1, i, j, k)
  BY <1>1, <1>5, PushIsPushing
<1>7. /\ M \in Seq(Message) /\ m \in Nat /\ Len(M) = m /\ i \in Nat
      /\ j \in Nat /\ k \in Nat /\ i < j /\ j <= k /\ k <= m
  BY <1>4 DEF Known
<1>8. /\ M1 \in Seq(Message) /\ Len(M1) = m + 1
      /\ \A x \in 1 .. m : M1[x] = M[x]
  <2>1. Head(rest) \in Message
    BY <1>2, HeadTailProperties
  <2> QED BY <1>5, <1>7, <2>1, AppendProperties
<1>9. Parts(M1, i, j, k, p1, p2, p3)
  <2>1. ASSUME NEW a \in Nat, NEW b \in Nat, b <= m, NEW c, c = a + 1
        PROVE  SubSeq(M1, c, b) = SubSeq(M, c, b)
    <3>1. CASE b < c
      <4>1. SubSeq(M1, c, b) = <<>> /\ SubSeq(M, c, b) = <<>>
        BY <2>1, <3>1, SubSeqEmpty
      <4> QED BY <4>1
    <3>2. CASE c <= b
      <4>1. PICK l : l = b - a
        OBVIOUS
      <4>2. /\ l \in Nat /\ a + l <= Len(M1) /\ a + l <= Len(M)
            /\ b = a + l
        BY <1>7, <1>8, <2>1, <3>2, <4>1
      <4>3. Agree(M1, a, M, a, l)
        <5> SUFFICES ASSUME NEW x \in 1 .. l PROVE M1[a + x] = M[a + x]
          BY DEF Agree
        <5>1. a + x \in 1 .. m
          BY <1>7, <2>1, <4>1, <4>2
        <5> QED BY <1>8, <5>1
      <4>4. Same(M1, a, c, b, M, a, c, b, l)
        BY <1>7, <1>8, <2>1, <4>2, <4>3, SameParts
      <4> QED BY <4>4 DEF Same
    <3> QED BY <2>1, <3>1, <3>2
  <2>2. PICK z, o, a, b : /\ z = 0 /\ z \in Nat /\ o = 1 /\ o = z + 1
                          /\ a = i + 1 /\ b = j + 1
    OBVIOUS
  <2>3. SubSeq(M1, o, i) = SubSeq(M, o, i)
    <3>1. i <= m
      BY <1>7
    <3> QED BY <1>7, <2>1, <2>2, <3>1
  <2>4. SubSeq(M1, a, j) = SubSeq(M, a, j)
    <3>1. j <= m
      BY <1>7
    <3> QED BY <1>7, <2>1, <2>2, <3>1, ZenonT(30)
  <2>5. SubSeq(M1, b, k) = SubSeq(M, b, k)
    BY <1>7, <2>1, <2>2
  <2> QED BY <1>1, <2>2, <2>3, <2>4, <2>5 DEF Parts
<1> QED BY <1>6, <1>9 DEF IsPushing

(* The splice puts the new messages where the second part was.             *)
LEMMA SpliceStep ==
    ASSUME NEW list, NEW prev, NEW next, NEW last, NEW new, NEW p1, NEW p2,
           NEW p3, new # <<>>,
           IsPushing(list, prev, next, last, <<>>, new, p1, p2, p3),
           NEW back, back = Last(Nodes(list, list.head, list.tail)),
           NEW first, first = list.node[last].next,
           NEW list1, list1 = Relink(list, prev, next, last, back, first),
           NEW cur, cur = IF prev = Null THEN list.head
                          ELSE list.node[prev].next
    PROVE  /\ IsFreeing(list1, prev, next, cur, p1, new, p3)
           /\ Len(list1.node) = Len(list.node)
<1>1. PICK W, M, i, j, k :
        /\ Pushing(list, prev, next, last, <<>>, new, W, M, i, j, k)
        /\ Parts(M, i, j, k, p1, p2, p3)
  BY DEF IsPushing
<1>2. PICK V, M1, R, j1 :
        /\ Freeing(list1, prev, next, cur, V, M1, i, j1, R)
        /\ Parts(M1, i, j1, Len(M1), SubSeq(M, 1, i), new,
                 SubSeq(M, j + 1, k))
  BY <1>1, SpliceIsFreeing
<1>3. Parts(M1, i, j1, Len(M1), p1, new, p3)
  BY <1>1, <1>2 DEF Parts
<1>4. IsFreeing(list1, prev, next, cur, p1, new, p3)
  BY <1>2, <1>3 DEF IsFreeing
<1>5. Len(list1.node) = Len(list.node)
  <2>1. list \in ListType /\ list.node \in Seq(NodeType)
    BY <1>1 DEF Pushing, Heap, ListType
  <2>2. DOMAIN list1.node = DOMAIN list.node
    <3> DEFINE linked == [list.node EXCEPT ![back].next = next,
                                           ![last].next = list.tail]
    <3>1. DOMAIN linked = DOMAIN list.node
      OBVIOUS
    <3>2. DOMAIN [linked EXCEPT ![prev].next = first] = DOMAIN list.node
      BY <3>1
    <3> HIDE DEF linked
    <3>3. ASSUME NEW b PROVE [list EXCEPT !.node = b].node = b
      BY <2>1 DEF ListType
    <3>4. ASSUME NEW a, NEW b
          PROVE  [list EXCEPT !.head = a, !.node = b].node = b
      BY <2>1 DEF ListType
    <3>5. list1 = IF prev = Null
                  THEN [list EXCEPT !.head = first, !.node = linked]
                  ELSE [list EXCEPT !.node = [linked EXCEPT
                                                ![prev].next = first]]
      BY DEF Relink, linked
    <3> QED BY <3>1, <3>2, <3>3, <3>4, <3>5
  <2>3. list1 \in ListType
    BY <1>2 DEF Freeing, Heap
  <2> QED BY <2>1, <2>2, <2>3, LenProperties DEF ListType
<1> QED BY <1>4, <1>5

(* A node is freed.                                                        *)
FreeDone(list, list1, prev, next, cur, p1, p2, p3) ==
    LET behind == list.node[cur].next IN
    /\ behind = next => IsSteady(list1, prev, next, p1, p2, p3)
    /\ behind # next => /\ behind # Null
                        /\ IsFreeing(list1, prev, next, behind, p1, p2, p3)
    /\ Len(list1.node) = Len(list.node)

(* kmp_free of the node at cur does that.                                  *)
LEMMA FreeStep ==
    ASSUME NEW list, NEW prev, NEW next, NEW cur, NEW p1, NEW p2, NEW p3,
           IsFreeing(list, prev, next, cur, p1, p2, p3),
           NEW list1, list1 = kmp_free(list, cur)
    PROVE  FreeDone(list, list1, prev, next, cur, p1, p2, p3)
<1>1. PICK W, M, i, j, R : /\ Freeing(list, prev, next, cur, W, M, i, j, R)
                           /\ Parts(M, i, j, Len(M), p1, p2, p3)
  BY DEF IsFreeing
<1>2. Freed(list, list1, prev, next, cur, W, M, i, j, R)
  BY <1>1, FreeIsFreeing
<1>3. PICK behind : behind = list.node[cur].next
  OBVIOUS
<1>4. ASSUME behind = next PROVE IsSteady(list1, prev, next, p1, p2, p3)
  <2>1. Steady(list1, prev, next, W, M, i, j)
    BY <1>2, <1>3, <1>4 DEF Freed
  <2> QED BY <1>1, <2>1 DEF IsSteady
<1>5. ASSUME behind # next
      PROVE  behind # Null /\ IsFreeing(list1, prev, next, behind, p1, p2, p3)
  <2>1. /\ behind # Null
        /\ Freeing(list1, prev, next, behind, W, M, i, j, Tail(R))
    BY <1>2, <1>3, <1>5 DEF Freed
  <2> QED BY <1>1, <2>1 DEF IsFreeing
<1>6. Len(list1.node) = Len(list.node)
  <2>1. Heap(list, Inner(W) \cup Inner(R))
    BY <1>1 DEF Freeing
  <2>2. cur \in Inner(R)
    <3>1. R[1] = cur /\ Len(R) >= 2 /\ Len(R) \in Nat
      BY <1>1 DEF Freeing, Linked
    <3>2. 1 \in 1 .. Len(R) - 1
      BY <3>1
    <3> QED BY <3>1, <3>2 DEF Inner
  <2>3. cur \in Inner(W) \cup Inner(R)
    BY <2>2
  <2>4. PICK S : S = Inner(W) \cup Inner(R)
    OBVIOUS
  <2>5. Heap(list, S) /\ cur \in S
    BY <2>1, <2>3, <2>4
  <2>6. /\ Heap(list1, S \ {cur})
        /\ list1.head = list.head /\ list1.tail = list.tail
        /\ Len(list1.node) = Len(list.node)
        /\ \A q \in 1 .. Len(list.node) :
             /\ list1.node[q].next = list.node[q].next
             /\ list1.node[q].data = list.node[q].data
    BY <2>5, FreeKeeps, SMTT(30)
  <2> QED BY <2>6
<1> QED BY <1>3, <1>4, <1>5, <1>6 DEF FreeDone

-----------------------------------------------------------------------------
(* Delivery and saving.                                                    *)

(* s is what of the messages all reached the target, and counted what      *)
(* messages_sent is then, when no connection fails.                        *)
Delivered(o, counted, s, all) ==
    ~o.flaky =>
        \E c \in 1 .. Len(all) : \E x \in {c - 1, c} :
            counted = o.prefix + c /\ s = SubSeq(all, 1, x)

(* A prefix of a sequence of messages.                                     *)
LEMMA FirstOnes ==
    ASSUME NEW all \in Seq(Message), NEW x \in 0 .. Len(all)
    PROVE  SubSeq(all, 1, x) \in Seq(Message) /\ Len(SubSeq(all, 1, x)) = x
<1>1. PICK o, n : o = 1 /\ o \in Int /\ n = Len(all) /\ n \in Nat /\ x \in Int
  OBVIOUS
<1>2. \A y \in o .. x : all[y] \in Message
  <2>1. \A y \in 1 .. n : all[y] \in Message
    BY <1>1, ElementOfSeq
  <2>2. o .. x \subseteq 1 .. n
    BY <1>1
  <2> QED BY <2>1, <2>2
<1>3. /\ SubSeq(all, o, x) \in Seq(Message)
      /\ Len(SubSeq(all, o, x)) = IF o <= x THEN x - o + 1 ELSE 0
  BY <1>1, <1>2, SubSeqProperties
<1>4. Len(SubSeq(all, o, x)) = x
  BY <1>1, <1>3
<1> QED BY <1>1, <1>3, <1>4

(* A prefix of a prefix.                                                   *)
LEMMA PrefixOfPrefix ==
    ASSUME NEW all \in Seq(Message), NEW c \in 0 .. Len(all),
           NEW x \in 0 .. c
    PROVE  IsPrefix(SubSeq(all, 1, x), SubSeq(all, 1, c))
<1>1. PICK s, t : s = SubSeq(all, 1, x) /\ t = SubSeq(all, 1, c)
  OBVIOUS
<1>2. x \in 0 .. Len(all) /\ Len(all) \in Nat /\ c \in Nat /\ x \in Nat
      /\ x <= c
  OBVIOUS
<1>3. s \in Seq(Message) /\ Len(s) = x
  BY <1>1, <1>2, FirstOnes
<1>4. t \in Seq(Message) /\ Len(t) = c
  BY <1>1, <1>2, FirstOnes
<1>5. PICK o : o = 1 /\ o \in Int /\ c \in Int /\ x \in Int
  BY <1>2
<1>6. \A y \in o .. c : all[y] \in Message
  <2>1. \A y \in 1 .. Len(all) : all[y] \in Message
    BY ElementOfSeq
  <2>2. o .. c \subseteq 1 .. Len(all)
    BY <1>5
  <2> QED BY <2>1, <2>2
<1>7. \A y \in 1 .. c : t[y] = all[y]
  <2>1. \A y \in 1 .. c - o + 1 : t[y] = all[o + y - 1]
    BY <1>1, <1>5, <1>6, SubSeqProperties
  <2> SUFFICES ASSUME NEW y \in 1 .. c PROVE t[y] = all[y]
    OBVIOUS
  <2>2. y \in 1 .. c - o + 1 /\ o + y - 1 = y
    BY <1>5
  <2> QED BY <2>1, <2>2
<1>8. \A y \in 1 .. x : s[y] = all[y]
  <2>0. \A y \in o .. x : all[y] \in Message
    <3>1. o .. x \subseteq o .. c
      BY <1>2, <1>5
    <3> QED BY <1>6, <3>1
  <2>1. \A y \in 1 .. x - o + 1 : s[y] = all[o + y - 1]
    BY <1>1, <1>5, <2>0, SubSeqProperties
  <2> SUFFICES ASSUME NEW y \in 1 .. x PROVE s[y] = all[y]
    OBVIOUS
  <2>2. y \in 1 .. x - o + 1 /\ o + y - 1 = y
    BY <1>5
  <2> QED BY <2>1, <2>2
<1>9. Agree(s, 0, t, 0, x)
  <2> SUFFICES ASSUME NEW y \in 1 .. x PROVE s[0 + y] = t[0 + y]
    BY DEF Agree
  <2>1. 0 + y = y /\ y \in 1 .. c
    BY <1>2
  <2> QED BY <1>7, <1>8, <2>1
<1>10. PICK z : z = 0 /\ z \in Nat
  OBVIOUS
<1>11. Same(s, z, o, x, t, z, o, x, x)
  <2>1. /\ z + x <= Len(s) /\ z + x <= Len(t) /\ x = z + x /\ o = z + 1
        /\ Agree(s, z, t, z, x)
    BY <1>2, <1>3, <1>4, <1>5, <1>9, <1>10
  <2> QED BY <1>2, <1>3, <1>4, <1>10, <2>1, SameParts
<1>12. SubSeq(s, 1, Len(s)) = SubSeq(t, 1, Len(s)) /\ Len(s) <= Len(t)
  BY <1>2, <1>3, <1>4, <1>5, <1>11 DEF Same
<1> QED BY <1>1, <1>12 DEF IsPrefix

(* What is saved is an entry.                                              *)
LEMMA SavedIsEntry ==
    ASSUME NEW o \in Subjects, NEW all \in Seq(Message), all # <<>>,
           NEW counted \in Nat, NEW s \in Seq(Message),
           Delivered(o, counted, s, all), NEW saved,
           saved = SubSeq(all, 1, IF counted < Len(all) THEN counted
                                  ELSE Len(all)),
           NEW e,
           e = [file |-> FlattenSeq(saved),
                sizes |-> [i \in 1 .. Len(saved) |-> Len(saved[i])],
                sent |-> s, found |-> TRUE]
    PROVE  e \in Entries(o)
<1>0. PICK n : n = Len(all) /\ n \in Nat
  <2>1. Len(all) \in Nat
    BY LenProperties
  <2> QED BY <2>1
<1>1. PICK k : /\ n = Len(all) /\ n \in Nat /\ k \in 0 .. n
               /\ k = IF counted < n THEN counted ELSE n
  BY <1>0
<1>2. saved = SubSeq(all, 1, k) /\ saved \in Seq(Message) /\ Len(saved) = k
  <2>1. saved = SubSeq(all, 1, k)
    BY <1>1
  <2> QED BY <1>1, <2>1, FirstOnes
<1>3. PICK file, sizes : /\ file = FlattenSeq(saved)
                         /\ sizes = [i \in 1 .. Len(saved) |-> Len(saved[i])]
  OBVIOUS
<1>4. /\ sizes \in Seq(Nat \ {0}) /\ Len(sizes) = Len(saved)
      /\ CutsTo(file, sizes, saved)
  BY <1>2, <1>3, FlattenCut
<1>5. /\ file \in Seq(Nat) /\ Len(file) = Offsets(sizes)[Len(sizes)]
      /\ Cut(file, sizes) = saved
  BY <1>4 DEF CutsTo
<1>6. e = [file |-> file, sizes |-> sizes, sent |-> s, found |-> TRUE]
  BY <1>3
<1>7. e \in EntryType
  BY <1>4, <1>5, <1>6 DEF EntryType
<1>8. /\ e.file = file /\ e.sizes = sizes /\ e.sent = s
  BY <1>6
<1>9. ASSUME ~o.flaky
      PROVE  sizes # <<>>
  <2>1. PICK c \in 1 .. n : counted = o.prefix + c
    BY <1>1, <1>9 DEF Delivered
  <2>2. counted >= 1
    BY <2>1, SubjectFacts
  <2>3. k >= 1
    BY <1>1, <2>1, <2>2
  <2>4. Len(sizes) # 0
    BY <1>2, <1>4, <2>3
  <2> QED BY <2>4, EmptySeq
<1>10. ASSUME o.prefix = 0, ~o.flaky
       PROVE  IsPrefix(s, saved) /\ Len(saved) <= Len(s) + 1
  <2>1. PICK c \in 1 .. n : \E x \in {c - 1, c} :
          counted = o.prefix + c /\ s = SubSeq(all, 1, x)
    BY <1>1, <1>10 DEF Delivered
  <2>2. PICK x \in {c - 1, c} : counted = o.prefix + c /\ s = SubSeq(all, 1, x)
    BY <2>1
  <2>3. k = c /\ c \in 0 .. Len(all) /\ x \in 0 .. c /\ x \in 0 .. Len(all)
        /\ k <= x + 1
    BY <1>1, <1>10, <2>2
  <2>4. IsPrefix(s, saved)
    BY <1>2, <2>2, <2>3, PrefixOfPrefix
  <2>5. Len(s) = x
    BY <2>2, <2>3, FirstOnes
  <2> QED BY <1>2, <2>3, <2>4, <2>5
<1>11. IsEntry(o, e)
  BY <1>5, <1>8, <1>9, <1>10 DEF IsEntry
<1> QED BY <1>7, <1>11 DEF Entries

(* What a connection makes of n messages.                                  *)
Answer(o, n, r) ==
    /\ r.arrived \in 0 .. n /\ r.counted \in Nat
    /\ ~o.flaky => \E c \in 1 .. n : /\ r.counted = o.prefix + c
                                     /\ r.arrived \in {c - 1, c}

(* Every answer of the server is such a one.                               *)
LEMMA SendFacts ==
    ASSUME opt \in Subjects, messages_sent \in Nat, NEW msgs, NEW n \in Nat,
           Len(msgs) = n, NEW r \in send_over_network(msgs)
    PROVE  Answer(opt, n, r)
<1>1. opt.prefix \in Nat /\ opt.flaky \in BOOLEAN
  BY SubjectFacts
<1>2. CASE \E c \in 1 .. n : \E k \in {c - 1, c} :
             r = [arrived |-> k, counted |-> opt.prefix + c]
  <2>1. PICK c \in 1 .. n, k \in Int :
          k \in {c - 1, c} /\ r = [arrived |-> k, counted |-> opt.prefix + c]
    BY <1>2
  <2>2. r.arrived = k /\ r.counted = opt.prefix + c
    BY <2>1
  <2>3. k \in 0 .. n /\ opt.prefix + c \in Nat
    BY <1>1, <2>1
  <2> QED BY <2>1, <2>2, <2>3 DEF Answer
<1>3. CASE opt.flaky /\ r = [arrived |-> 0, counted |-> messages_sent]
  <2>1. r.arrived = 0 /\ r.counted = messages_sent
    BY <1>3
  <2> QED BY <1>3, <2>1 DEF Answer
<1> QED
  <2>1. \/ \E c \in 1 .. n :
             r \in {[arrived |-> k, counted |-> opt.prefix + c] :
                      k \in net_send(c)}
        \/ opt.flaky /\ r = [arrived |-> 0, counted |-> messages_sent]
    <3> DEFINE tried(c) == {[arrived |-> k, counted |-> opt.prefix + c] :
                              k \in net_send(c)}
    <3>1. r \in UNION {tried(c) : c \in 1 .. Len(msgs)}
          \/ r \in IF opt.flaky
                   THEN {[arrived |-> 0, counted |-> messages_sent]} ELSE {}
      BY DEF send_over_network, net_recv
    <3>2. ASSUME r \in UNION {tried(c) : c \in 1 .. Len(msgs)}
          PROVE  \E c \in 1 .. n : r \in tried(c)
      <4> HIDE DEF tried
      <4> QED BY <3>2
    <3> QED BY <1>1, <3>1, <3>2
  <2>2. ASSUME NEW c \in 1 .. n,
               r \in {[arrived |-> k, counted |-> opt.prefix + c] :
                        k \in net_send(c)}
        PROVE  \E k \in {c - 1, c} :
                 r = [arrived |-> k, counted |-> opt.prefix + c]
    BY <2>2 DEF net_send
  <2> QED BY <1>2, <1>3, <2>1, <2>2

-----------------------------------------------------------------------------
(* The memory of a list.                                                   *)

(* What NothingFreedIsReached says of the way of a list.                   *)
PoolApart(list) ==
    LET path == Nodes(list, list.head, list.tail) \o <<list.tail>>
        used == {path[i] : i \in 1 .. Len(path)}
        pool == {list.pool[i] : i \in 1 .. Len(list.pool)}
    IN  /\ Cardinality(used) = Len(path)
        /\ used \cap pool = {}
        /\ Cardinality(pool) = Len(list.pool)
        /\ \A i \in 1 .. Len(path) - 1 :
               /\ list.node[path[i]].live
               /\ list.node[path[i]].next = path[i + 1]

(* The nodes of a way are the list.                                        *)
IsWayOf(list, W) ==
    /\ Nodes(list, list.head, list.tail) \o <<list.tail>> = W
    /\ LET path == Nodes(list, list.head, list.tail)
       IN  {path[i] : i \in 1 .. Len(path)} = Inner(W)

(* The nodes from the head to the tail are the way.                        *)
LEMMA WayIsPath ==
    ASSUME NEW list, NEW W, Way(list, W), NEW S, Heap(list, S)
    PROVE  IsWayOf(list, W)
<1>1. PICK N : N = Len(list.node)
  OBVIOUS
<1>2. PICK m : m = Len(W) - 1
  OBVIOUS
<1>3. /\ W \in Seq(1 .. N) /\ m \in Nat /\ Len(W) = m + 1
      /\ W[1] = list.head /\ W[m + 1] = list.tail /\ Linked(list, W)
  <2>1. W \in Seq(1 .. N) /\ W # <<>> /\ Linked(list, W)
    BY <1>1 DEF Way, Linked
  <2>2. Len(W) \in Nat \ {0}
    BY <2>1, EmptySeq
  <2> QED BY <1>2, <2>1, <2>2 DEF Way
<1>4. PICK path : path = Nodes(list, list.head, list.tail)
  OBVIOUS
<1>5. path = [z \in 1 .. m |-> W[z]]
  <2>1. PICK x, y : x = 1 /\ y = m + 1 /\ x \in 1 .. Len(W)
                    /\ y \in x .. Len(W)
    BY <1>3
  <2>2. NodesAre(list, W, x, y)
    BY <1>3, <2>1, NodesOf
  <2>3. Nodes(list, W[x], W[y]) = [z \in 1 .. y - x |-> W[x + z - 1]]
    BY <2>2 DEF NodesAre
  <2>4. y - x = m /\ \A z \in 1 .. m : x + z - 1 = z
    BY <1>3, <2>1
  <2> QED BY <1>3, <1>4, <2>1, <2>3, <2>4
<1>6. path \in Seq(1 .. N) /\ Len(path) = m
  <2>1. \A z \in 1 .. m : W[z] \in 1 .. N
    <3>1. \A z \in 1 .. Len(W) : W[z] \in 1 .. N
      BY <1>3, ElementOfSeq
    <3>2. 1 .. m \subseteq 1 .. Len(W)
      BY <1>3
    <3> QED BY <3>1, <3>2
  <2>2. path \in [1 .. m -> 1 .. N]
    BY <1>5, <2>1
  <2> QED BY <1>3, <2>2, FunIsSeq
<1>7. path \o <<list.tail>> = W
  <2>1. list.tail \in 1 .. N
    BY <1>1 DEF Heap
  <2>2. PICK u, v : v = <<list.tail>> /\ u = path \o v
    OBVIOUS
  <2>3. v \in Seq(1 .. N) /\ Len(v) = 1 /\ v[1] = list.tail
    BY <2>1, <2>2
  <2>4. /\ u \in Seq(1 .. N) /\ Len(u) = m + 1
        /\ \A x \in 1 .. m + 1 : u[x] = IF x <= m THEN path[x] ELSE v[x - m]
    BY <1>6, <2>2, <2>3, ConcatProperties
  <2>5. ASSUME NEW x \in 1 .. m + 1 PROVE u[x] = W[x]
    <3>1. CASE x <= m
      BY <1>3, <1>5, <2>4, <3>1
    <3>2. CASE ~ (x <= m)
      <4>1. x = m + 1 /\ x - m = 1
        BY <1>3, <3>2
      <4> QED BY <1>3, <2>3, <2>4, <3>2, <4>1
    <3> QED BY <3>1, <3>2
  <2>6. u = W
    BY <1>3, <2>4, <2>5, SeqEqual
  <2> QED BY <2>2, <2>6
<1>8. {path[i] : i \in 1 .. Len(path)} = Inner(W)
  <2>1. Len(W) - 1 = m
    BY <1>2
  <2> QED BY <1>3, <1>5, <1>6, <2>1 DEF Inner
<1> QED BY <1>4, <1>7, <1>8 DEF IsWayOf

(* No node of the pool is on the way, nor twice in the pool.               *)
LEMMA PoolIsApart ==
    ASSUME NEW list, NEW W, Way(list, W), NEW S, Heap(list, S),
           Inner(W) \subseteq S
    PROVE  PoolApart(list)
<1>1. PICK N, m : N = Len(list.node) /\ m = Len(W) - 1
  OBVIOUS
<1>2. /\ W \in Seq(1 .. N) /\ m \in Nat /\ Len(W) = m + 1
      /\ W[1] = list.head /\ W[m + 1] = list.tail
      /\ \A x, y \in 1 .. m + 1 : W[x] = W[y] => x = y
      /\ \A x \in 1 .. m : list.node[W[x]].next = W[x + 1]
  <2>1. W \in Seq(1 .. N) /\ W # <<>>
    BY <1>1 DEF Way, Linked
  <2>2. Len(W) \in Nat \ {0}
    BY <2>1, EmptySeq
  <2> QED BY <1>1, <2>1, <2>2 DEF Way, Linked
<1>3. Nodes(list, list.head, list.tail) \o <<list.tail>> = W
  <2>1. IsWayOf(list, W)
    BY WayIsPath
  <2> QED BY <2>1 DEF IsWayOf
<1>4. PICK used : used = {W[x] : x \in 1 .. m + 1}
  OBVIOUS
<1>5. Cardinality(used) = m + 1
  <2>1. PICK n : n = m + 1 /\ n = Len(W)
    BY <1>2
  <2>2. used = {W[x] : x \in 1 .. n}
    BY <1>4, <2>1
  <2>3. \A x, y \in 1 .. n : W[x] = W[y] => x = y
    BY <1>2, <2>1
  <2>4. /\ IsFiniteSet({W[x] : x \in 1 .. n})
        /\ Cardinality({W[x] : x \in 1 .. n}) = n
    <3>1. W \in Seq(Nat) /\ n = Len(W)
      <4>1. 1 .. N \subseteq Nat /\ W \in Seq(1 .. N)
        BY <1>2
      <4>2. W \in Seq(Nat)
        BY <4>1, SeqOfMore
      <4> QED BY <2>1, <4>2
    <3>2. PICK s : s = W
      OBVIOUS
    <3>3. /\ s \in Seq(Nat) /\ n = Len(s)
          /\ \A x, y \in 1 .. n : s[x] = s[y] => x = y
      BY <2>3, <3>1, <3>2
    <3>4. HasElements(s, n)
      BY <3>3, CountDistinct
    <3> QED BY <3>2, <3>4 DEF HasElements
  <2> QED BY <2>1, <2>2, <2>4
<1>6. PICK l : l = Len(list.pool) /\ list.pool \in Seq(Nat)
  BY DEF Heap, ListType
<1>7. PICK pool : pool = {list.pool[x] : x \in 1 .. l}
  OBVIOUS
<1>8. Cardinality(pool) = l
  <2>1. \A x, y \in 1 .. l : list.pool[x] = list.pool[y] => x = y
    BY <1>6 DEF Heap
  <2>2. PICK s : s = list.pool
    OBVIOUS
  <2>3. /\ s \in Seq(Nat) /\ l = Len(s)
        /\ \A x, y \in 1 .. l : s[x] = s[y] => x = y
    BY <1>6, <2>1, <2>2
  <2>4. HasElements(s, l)
    BY <2>3, CountDistinct
  <2> QED BY <1>7, <2>2, <2>4 DEF HasElements
<1>9. ASSUME NEW x \in 1 .. m PROVE W[x] \in S
  <2>1. W[x] \in Inner(W)
    BY <1>1, <1>2 DEF Inner
  <2> QED BY <2>1
<1>10. used \cap pool = {}
  <2> SUFFICES ASSUME NEW x \in 1 .. m + 1, NEW y \in 1 .. l
               PROVE  W[x] # list.pool[y]
    BY <1>4, <1>7
  <2>1. list.pool[y] \notin S /\ list.pool[y] # list.tail
    BY <1>6 DEF Heap
  <2>2. x \in 1 .. m \/ x = m + 1
    BY <1>2
  <2> QED BY <1>2, <1>9, <2>1, <2>2
<1>11. ASSUME NEW x \in 1 .. m
       PROVE  list.node[W[x]].live /\ list.node[W[x]].next = W[x + 1]
  <2>1. W[x] \in S /\ W[x] \in 1 .. Len(list.node)
    BY <1>9 DEF Heap
  <2>2. list.node[W[x]].live <=> W[x] \in S
    BY <2>1 DEF Heap
  <2> QED BY <1>2, <2>1, <2>2
<1>12. Len(W) = m + 1 /\ Len(W) - 1 = m
  BY <1>2
<1> QED BY <1>3, <1>4, <1>5, <1>6, <1>7, <1>8, <1>10, <1>11, <1>12, ZenonT(30)
        DEF PoolApart

-----------------------------------------------------------------------------
(* The inductive invariant.                                                *)

Quiet == {"mutate", "run", "save", "calibrate", "killed"}

Renewed == {"free", "run", "save", "calibrate"}

Closed == {"dry", "idle", "fatal"}

(* The list of an opened seed holds the parts p1, p2 and p3; between the   *)
(* splice and the next mutation the second one is the mutated buffer.      *)
HoldsParts(at, list, prev, next, last, rest, cur, new, p1, p2, p3) ==
    /\ at \in Quiet => IsSteady(list, prev, next, p1, p2, p3)
    /\ at = "push" => IsPushing(list, prev, next, last, rest, new, p1, p2, p3)
    /\ at = "free" => IsFreeing(list, prev, next, cur, p1, p2, p3)
    /\ at \in Renewed => p2 = new

Held(p1, p2, p3) ==
    /\ HoldsParts(pc, kl, M2_prev, M2_next, prev_last, todo, cur_it,
                  NewOf(opt, out_buf), p1, p2, p3)
    /\ pc = "save" => Delivered(opt, messages_sent, sent, p1 \o p2 \o p3)

ListInv ==
    /\ pc \in Closed => kl = kl_init /\ M2_prev = Null /\ M2_next = Null
    /\ pc \notin Closed => \E p1, p2, p3 : Held(p1, p2, p3)

ControlInv ==
    /\ opt \in Subjects
    /\ pc \in Closed \cup Quiet \cup {"push", "free"}
    /\ ~opt.flaky => pc # "fatal"
    /\ pc \in Renewed \cup {"push"} => out_buf \in opt.outputs
    /\ execs \in 0 .. opt.execs

QueueInv ==
    /\ queue \in Seq(Entries(opt))
    /\ Finds \in 0 .. opt.finds
    /\ messages_sent \in Nat /\ sent \in Seq(Message)

PointerInv ==
    /\ Len(kl.node) \in Nat
    /\ prev_last \in 0 .. Len(kl.node)
    /\ pc # "free" => cur_it = Null

IInv == ControlInv /\ QueueInv /\ ListInv /\ PointerInv

(* The node behind the session.                                            *)
EndNode(at, list, last) ==
    IF at = "push" THEN list.node[last].next ELSE list.tail

(* What the parts say of the list.                                         *)
PartsSound(at, list, prev, next, last, cur, p1, p2, p3) ==
    /\ Sound(list, prev, next, EndNode(at, list, last), p1, p2, p3)
    /\ at # "push" =>
         Messages(list, list.head, list.tail) = p1 \o p2 \o p3
    /\ at = "push" => last \in 0 .. Len(list.node)
    /\ at = "free" => cur \in 0 .. Len(list.node)

(* The invariant of the list says that wherever the fuzzer is.             *)
LEMMA HeldIsSound ==
    ASSUME NEW at, at \in Quiet \cup {"push", "free"}, NEW list, NEW prev,
           NEW next, NEW last, NEW rest, NEW cur, NEW new, NEW p1, NEW p2,
           NEW p3,
           HoldsParts(at, list, prev, next, last, rest, cur, new, p1, p2, p3)
    PROVE  PartsSound(at, list, prev, next, last, cur, p1, p2, p3)
<1>1. CASE at \in Quiet
  <2>1. IsSteady(list, prev, next, p1, p2, p3)
    BY <1>1 DEF HoldsParts
  <2>2. IsSession(list, prev, next, p1, p2, p3)
    BY <2>1, SteadyIsSession
  <2>3. at # "push" /\ at # "free"
    BY <1>1 DEF Quiet
  <2> QED BY <2>2, <2>3 DEF IsSession, PartsSound, EndNode
<1>2. CASE at = "free"
  <2>1. IsFreeing(list, prev, next, cur, p1, p2, p3)
    BY <1>2 DEF HoldsParts
  <2>2. /\ IsSession(list, prev, next, p1, p2, p3)
        /\ cur \in 0 .. Len(list.node)
    BY <2>1, FreeingIsSession
  <2>3. at # "push"
    BY <1>2
  <2> QED BY <2>2, <2>3 DEF IsSession, PartsSound, EndNode
<1>3. CASE at = "push"
  <2>1. IsPushing(list, prev, next, last, rest, new, p1, p2, p3)
    BY <1>3 DEF HoldsParts
  <2>2. /\ Sound(list, prev, next, list.node[last].next, p1, p2, p3)
        /\ rest \in Seq(Message) /\ last \in 0 .. Len(list.node)
    BY <2>1, PushingIsSound
  <2> QED BY <1>3, <2>2 DEF PartsSound, EndNode
<1> QED BY <1>1, <1>2, <1>3

(* An empty list.                                                          *)
LEMMA EmptyList ==
    /\ kl_init.node = <<Blank>> /\ kl_init.head = 1 /\ kl_init.tail = 1
    /\ kl_init.pool = <<>> /\ kl_init.size = 0 /\ Len(kl_init.node) = 1
BY DEF kl_init

(* The invariant holds at first.                                           *)
LEMMA InitInv == Init => IInv
<1> SUFFICES ASSUME Init PROVE IInv
  OBVIOUS
<1>1. /\ opt \in Subjects /\ pc = "dry" /\ kl = kl_init /\ M2_prev = Null
      /\ M2_next = Null /\ prev_last = Null /\ cur_it = Null
      /\ messages_sent = 0 /\ sent = <<>> /\ execs = 0
  BY DEF Init
<1>2. queue \in Seq(Entries(opt)) /\ Len(queue) = Cardinality(opt.seeds)
  <2>1. PICK files : files = SetToSeq(opt.seeds)
    OBVIOUS
  <2>2. queue = [i \in 1 .. Len(files) |-> SeedEntry(opt.protocol, files[i])]
    BY <2>1 DEF Init
  <2> QED BY <1>1, <2>1, <2>2, SeedsFacts
<1>3. /\ IsFiniteSet(opt.seeds) /\ opt.execs \in Nat /\ opt.finds \in Nat
  BY <1>1, SubjectFacts
<1>4. Finds \in 0 .. opt.finds
  <2>1. Cardinality(opt.seeds) \in Nat
    BY <1>3, FS_CardinalityType
  <2> QED BY <1>2, <1>3, <2>1 DEF Finds
<1>5. ControlInv
  BY <1>1, <1>3 DEF ControlInv, Closed, Renewed
<1>6. QueueInv
  BY <1>1, <1>2, <1>4 DEF QueueInv
<1>7. ListInv
  BY <1>1 DEF ListInv, Closed
<1>8. PointerInv
  BY <1>1, EmptyList DEF PointerInv, Null
<1> QED BY <1>5, <1>6, <1>7, <1>8 DEF IInv

-----------------------------------------------------------------------------
(* The steps that leave the list alone.                                    *)

(* The dry run does not touch the list.                                    *)
LEMMA DryRunKeeps == IInv /\ perform_dry_run => IInv'
<1> SUFFICES ASSUME IInv, perform_dry_run PROVE IInv'
  OBVIOUS
<1>1. /\ pc = "dry" /\ pc' = "idle"
      /\ UNCHANGED <<opt, queue, kl, M2_prev, M2_next, out_buf, todo,
                     prev_last, cur_it, sent, execs>>
  BY DEF perform_dry_run
<1>2. ControlInv'
  BY <1>1 DEF IInv, ControlInv, Closed, Renewed
<1>3. messages_sent' \in Nat
  <2>1. PICK q \in 1 .. Len(queue) :
          \E r \in send_over_network(Cut(queue[q].file, queue[q].sizes)) :
             messages_sent' = r.counted
    BY DEF perform_dry_run
  <2>2. PICK msgs : msgs = Cut(queue[q].file, queue[q].sizes)
    OBVIOUS
  <2>3. PICK r \in send_over_network(msgs) : messages_sent' = r.counted
    BY <2>1, <2>2
  <2>4. queue[q] \in EntryType
    <3>1. queue \in Seq(Entries(opt))
      BY DEF IInv, QueueInv
    <3>2. queue[q] \in Entries(opt)
      BY <3>1, ElementOfSeq
    <3> QED BY <3>2 DEF Entries
  <2>5. Len(msgs) \in Nat
    <3>1. PICK file, sizes : file = queue[q].file /\ sizes = queue[q].sizes
      OBVIOUS
    <3>2. file \in Seq(Nat) /\ sizes \in Seq(Nat \ {0})
      BY <2>4, <3>1 DEF EntryType
    <3>3. sizes \in Seq(Nat)
      <4>1. Nat \ {0} \subseteq Nat
        OBVIOUS
      <4> QED BY <3>2, <4>1, SeqOfMore
    <3>4. IsCut(file, sizes, msgs)
      BY <2>2, <3>1, <3>2, <3>3, CutFacts
    <3> QED BY <3>3, <3>4 DEF IsCut
  <2>6. opt \in Subjects /\ messages_sent \in Nat
    BY DEF IInv, ControlInv, QueueInv
  <2>7. PICK n \in Nat : n = Len(msgs)
    BY <2>5
  <2>8. Answer(opt, n, r)
    BY <2>3, <2>6, <2>7, SendFacts
  <2> QED BY <2>3, <2>8 DEF Answer
<1>4. QueueInv'
  BY <1>1, <1>3 DEF IInv, QueueInv, Finds
<1>5. ListInv'
  BY <1>1 DEF IInv, ListInv, Closed
<1>6. PointerInv'
  BY <1>1 DEF IInv, PointerInv
<1> QED BY <1>2, <1>4, <1>5, <1>6 DEF IInv

(* The messages reach the target, or some of them.                         *)
LEMMA DeliverKeeps ==
    ASSUME IInv, NEW p1, NEW p2, NEW p3, Held(p1, p2, p3),
           run_target \/ calibrate_case
    PROVE  /\ IInv' /\ Held(p1, p2, p3)'
           /\ \E k \in 0 .. Len(p1 \o p2 \o p3) :
                sent' = SubSeq(p1 \o p2 \o p3, 1, k)
<1>1. /\ \/ pc = "run" /\ pc' = "save"
         \/ pc = "calibrate" /\ pc' = "mutate"
      /\ UNCHANGED <<opt, queue, kl, M2_prev, M2_next, out_buf, todo,
                     prev_last, cur_it, execs>>
  BY DEF run_target, calibrate_case, Deliver
<1>2. PICK all : all = p1 \o p2 \o p3
  OBVIOUS
<1>3. /\ HoldsParts(pc, kl, M2_prev, M2_next, prev_last, todo, cur_it,
                    NewOf(opt, out_buf), p1, p2, p3)
      /\ IsSteady(kl, M2_prev, M2_next, p1, p2, p3)
  BY <1>1 DEF Held, HoldsParts, Quiet
<1>4. kl_messages = all /\ all \in Seq(Message)
  <2>1. IsSession(kl, M2_prev, M2_next, p1, p2, p3)
    BY <1>3, SteadyIsSession
  <2>2. /\ p1 \in Seq(Message) /\ p2 \in Seq(Message) /\ p3 \in Seq(Message)
    BY <2>1 DEF IsSession, Sound
  <2>3. all \in Seq(Message)
    BY <1>2, <2>2, ConcatProperties
  <2> QED BY <1>2, <2>1, <2>3 DEF IsSession, kl_messages
<1>5. PICK n \in Nat : n = Len(all)
  BY <1>4, LenProperties
<1>6. PICK r \in send_over_network(all) :
        messages_sent' = r.counted /\ sent' = SubSeq(all, 1, r.arrived)
  BY <1>4 DEF run_target, calibrate_case, Deliver
<1>7. Answer(opt, n, r)
  BY <1>5, <1>6, SendFacts DEF IInv, ControlInv, QueueInv
<1>8. r.arrived \in 0 .. n /\ messages_sent' \in Nat
  BY <1>6, <1>7 DEF Answer
<1>9. sent' \in Seq(Message)
  <2>1. PICK x \in 0 .. Len(all) : x = r.arrived
    BY <1>5, <1>8
  <2> QED BY <1>4, <1>6, <2>1, FirstOnes
<1>10. Delivered(opt, messages_sent', sent', all)
  BY <1>5, <1>6, <1>7 DEF Answer, Delivered
<1>11. HoldsParts(pc', kl, M2_prev, M2_next, prev_last, todo, cur_it,
                  NewOf(opt, out_buf), p1, p2, p3)
  <2>1. pc' \in Quiet /\ pc' # "push" /\ pc' # "free"
    BY <1>1 DEF Quiet
  <2>2. pc' \in Renewed => p2 = NewOf(opt, out_buf)
    <3>1. pc \in Renewed
      BY <1>1 DEF Renewed
    <3> QED BY <1>3, <3>1 DEF HoldsParts
  <2> QED BY <1>3, <2>1, <2>2 DEF HoldsParts
<1>12. Held(p1, p2, p3)'
  BY <1>1, <1>2, <1>10, <1>11 DEF Held
<1>13. ControlInv'
  BY <1>1 DEF IInv, ControlInv, Closed, Quiet, Renewed
<1>14. QueueInv'
  BY <1>1, <1>8, <1>9 DEF IInv, QueueInv, Finds
<1>15. ListInv'
  <2>1. pc' \notin Closed
    BY <1>1 DEF Closed
  <2> QED BY <1>12, <2>1 DEF ListInv
<1>16. PointerInv'
  BY <1>1 DEF IInv, PointerInv
<1>17. IInv'
  BY <1>13, <1>14, <1>15, <1>16 DEF IInv
<1>18. \E k \in 0 .. Len(p1 \o p2 \o p3) :
         sent' = SubSeq(p1 \o p2 \o p3, 1, k)
  BY <1>2, <1>5, <1>6, <1>8
<1> QED BY <1>12, <1>17, <1>18

(* A save adds an entry.                                                   *)
LEMMA SaveKeeps ==
    ASSUME IInv, NEW p1, NEW p2, NEW p3, Held(p1, p2, p3), pc = "save",
           Finds < opt.finds, queue' = Append(queue, SavedEntry)
    PROVE  queue' \in Seq(Entries(opt))
           /\ Len(queue') - Cardinality(opt.seeds) \in 0 .. opt.finds
<1>1. PICK all : all = p1 \o p2 \o p3
  OBVIOUS
<1>2. IsSteady(kl, M2_prev, M2_next, p1, p2, p3)
  BY DEF Held, HoldsParts, Quiet
<1>3. kl_messages = all /\ all \in Seq(Message) /\ all # <<>>
  <2>1. IsSession(kl, M2_prev, M2_next, p1, p2, p3)
    BY <1>2, SteadyIsSession
  <2>2. /\ p1 \in Seq(Message) /\ p2 \in Seq(Message) /\ p3 \in Seq(Message)
        /\ p2 # <<>>
    BY <2>1 DEF IsSession, Sound
  <2>3. p1 \o p2 \in Seq(Message) /\ p1 \o p2 # <<>>
    BY <2>2, ConcatProperties, ConcatEqualIffEmpty
  <2>4. all \in Seq(Message) /\ all # <<>>
    BY <1>1, <2>2, <2>3, ConcatProperties, ConcatEqualIffEmpty
  <2> QED BY <1>1, <2>1, <2>4 DEF IsSession, kl_messages
<1>4. Delivered(opt, messages_sent, sent, all)
  BY <1>1 DEF Held
<1>5. /\ opt \in Subjects /\ messages_sent \in Nat /\ sent \in Seq(Message)
      /\ queue \in Seq(Entries(opt)) /\ Finds \in 0 .. opt.finds
  BY DEF IInv, ControlInv, QueueInv
<1>6. PICK saved : saved = FirstMessages(messages_sent)
  OBVIOUS
<1>7. saved = SubSeq(all, 1, IF messages_sent < Len(all) THEN messages_sent
                             ELSE Len(all))
  BY <1>3, <1>6 DEF FirstMessages
<1>8. PICK e : e = SavedEntry
  OBVIOUS
<1>9. e = [file |-> FlattenSeq(saved),
           sizes |-> [i \in 1 .. Len(saved) |-> Len(saved[i])],
           sent |-> sent, found |-> TRUE]
  BY <1>6, <1>8 DEF SavedEntry
<1>10. e \in Entries(opt)
  BY <1>3, <1>4, <1>5, <1>7, <1>9, SavedIsEntry
<1>11. queue' = Append(queue, e)
  BY <1>8
<1>12. queue' \in Seq(Entries(opt)) /\ Len(queue') = Len(queue) + 1
  BY <1>5, <1>10, <1>11, AppendProperties
<1>13. Len(queue') - Cardinality(opt.seeds) \in 0 .. opt.finds
  <2>1. IsFiniteSet(opt.seeds) /\ opt.finds \in Nat
    BY <1>5, SubjectFacts
  <2>2. Cardinality(opt.seeds) \in Nat /\ Len(queue) \in Nat
    BY <1>5, <2>1, FS_CardinalityType, LenProperties
  <2>3. Finds = Len(queue) - Cardinality(opt.seeds)
    BY DEF Finds
  <2> QED BY <1>5, <1>12, <2>1, <2>2, <2>3
<1> QED BY <1>12, <1>13

(* Whatever the run was good for, the list stays as it is.                 *)
LEMMA JudgeKeeps ==
    ASSUME IInv, NEW p1, NEW p2, NEW p3, Held(p1, p2, p3),
           NotInteresting \/ Interesting \/ Crash
    PROVE  IInv' /\ Held(p1, p2, p3)' /\ sent' = sent
<1>1. /\ pc = "save" /\ pc' \in {"mutate", "calibrate", "killed"}
      /\ UNCHANGED <<opt, kl, M2_prev, M2_next, out_buf, todo, prev_last,
                     cur_it, messages_sent, sent, execs>>
      /\ \/ queue' = queue
         \/ Finds < opt.finds /\ queue' = Append(queue, SavedEntry)
  BY DEF NotInteresting, Interesting, Crash
<1>2. QueueInv'
  <2>1. queue' \in Seq(Entries(opt))
        /\ Len(queue') - Cardinality(opt.seeds) \in 0 .. opt.finds
    <3>1. CASE queue' = queue
      BY <3>1 DEF IInv, QueueInv, Finds
    <3>2. CASE Finds < opt.finds /\ queue' = Append(queue, SavedEntry)
      BY <1>1, <3>2, SaveKeeps
    <3> QED BY <1>1, <3>1, <3>2
  <2> QED BY <1>1, <2>1 DEF IInv, QueueInv, Finds
<1>3. Held(p1, p2, p3)'
  <2>1. /\ IsSteady(kl, M2_prev, M2_next, p1, p2, p3)
        /\ p2 = NewOf(opt, out_buf)
    BY <1>1 DEF Held, HoldsParts, Quiet, Renewed
  <2>2. pc' \in Quiet /\ pc' # "push" /\ pc' # "free" /\ pc' # "save"
    BY <1>1 DEF Quiet
  <2>3. HoldsParts(pc', kl, M2_prev, M2_next, prev_last, todo, cur_it,
                   NewOf(opt, out_buf), p1, p2, p3)
    BY <2>1, <2>2 DEF HoldsParts
  <2> QED BY <1>1, <2>2, <2>3 DEF Held
<1>4. ListInv'
  <2>1. pc' \notin Closed
    BY <1>1 DEF Closed
  <2> QED BY <1>3, <2>1 DEF ListInv
<1>5. ControlInv'
  BY <1>1 DEF IInv, ControlInv, Closed, Quiet, Renewed
<1>6. PointerInv'
  BY <1>1 DEF IInv, PointerInv
<1> QED BY <1>1, <1>2, <1>3, <1>4, <1>5, <1>6 DEF IInv

-----------------------------------------------------------------------------
(* The steps that change the list.                                         *)

(* A seed is opened, or the fuzzer ends at an entry without a message.     *)
LEMMA OpenKeeps ==
    ASSUME IInv, OpenSeed
    PROVE  /\ IInv' /\ pc = "idle" /\ sent' = <<>>
           /\ \/ pc' = "fatal"
              \/ pc' = "mutate" /\ \E p1, p2, p3 : Held(p1, p2, p3)'
<1>1. /\ pc = "idle" /\ execs' = 0 /\ sent' = <<>>
      /\ UNCHANGED <<opt, queue, out_buf, todo, prev_last, cur_it,
                     messages_sent>>
  BY DEF OpenSeed
<1>2. PICK q \in 1 .. Len(queue) :
        LET total == Len(queue[q].sizes)
            list  == construct_kl_messages(queue[q])
            path  == Nodes(list, list.head, list.tail)
        IN  IF total = 0
            THEN /\ pc' = "fatal"
                 /\ UNCHANGED <<kl, M2_prev, M2_next>>
            ELSE \E start \in 0 .. total - 1 :
                 \E count \in {1} \union 1 .. total - start - 1 :
                     /\ pc' = "mutate"
                     /\ kl' = list
                     /\ M2_prev' = IF start = 0 THEN Null ELSE path[start]
                     /\ M2_next' = IF start + count < total
                                   THEN path[start + count + 1]
                                   ELSE list.tail
  BY DEF OpenSeed
<1>3. queue[q] \in EntryType /\ IsEntry(opt, queue[q])
  <2>1. queue \in Seq(Entries(opt))
    BY DEF IInv, QueueInv
  <2>2. queue[q] \in Entries(opt)
    BY <2>1, ElementOfSeq
  <2> QED BY <2>2 DEF Entries
<1>4. PICK entry, total, list, path :
        /\ entry = queue[q] /\ total = Len(queue[q].sizes)
        /\ list = construct_kl_messages(queue[q])
        /\ path = Nodes(list, list.head, list.tail)
  OBVIOUS
<1>5. /\ entry.file \in Seq(Nat) /\ entry.sizes \in Seq(Nat \ {0})
      /\ total = Len(entry.sizes) /\ list = construct_kl_messages(entry)
      /\ ~opt.flaky => entry.sizes # <<>>
  BY <1>3, <1>4 DEF EntryType, IsEntry
<1>6. QueueInv'
  <2>1. <<>> \in Seq(Message)
    BY EmptySeq
  <2> QED BY <1>1, <2>1 DEF IInv, QueueInv, Finds
<1>7. prev_last \in 0 .. 1 /\ cur_it = Null
  <2>1. kl = kl_init
    BY <1>1 DEF IInv, ListInv, Closed
  <2> QED BY <1>1, <2>1, EmptyList DEF IInv, PointerInv
<1>8. execs' \in 0 .. opt.execs
  <2>1. opt.execs \in Nat
    BY SubjectFacts DEF IInv, ControlInv
  <2> QED BY <1>1, <2>1
<1>9. CASE total = 0
  <2>1. pc' = "fatal" /\ UNCHANGED <<kl, M2_prev, M2_next>>
    BY <1>2, <1>4, <1>9
  <2>2. opt.flaky
    <3>1. entry.sizes = <<>>
      BY <1>5, <1>9, EmptySeq
    <3> QED BY <1>5, <3>1
  <2>3. ControlInv'
    BY <1>1, <1>8, <2>1, <2>2 DEF IInv, ControlInv, Closed, Renewed
  <2>4. ListInv'
    BY <1>1, <2>1 DEF IInv, ListInv, Closed
  <2>5. PointerInv'
    BY <1>1, <1>7, <2>1 DEF IInv, PointerInv
  <2> QED BY <1>1, <1>6, <2>1, <2>3, <2>4, <2>5 DEF IInv
<1>10. CASE total # 0
  <2>1. PICK start \in 0 .. total - 1 :
          \E count \in {1} \union 1 .. total - start - 1 :
             /\ pc' = "mutate"
             /\ kl' = list
             /\ M2_prev' = IF start = 0 THEN Null ELSE path[start]
             /\ M2_next' = IF start + count < total
                           THEN path[start + count + 1] ELSE list.tail
    BY <1>2, <1>4, <1>10
  <2>2. PICK count \in {1} \union 1 .. total - start - 1 :
             /\ pc' = "mutate"
             /\ kl' = list
             /\ M2_prev' = IF start = 0 THEN Null ELSE path[start]
             /\ M2_next' = IF start + count < total
                           THEN path[start + count + 1] ELSE list.tail
    BY <2>1
  <2>3. PICK p1, p2, p3 : IsSteady(list, M2_prev', M2_next', p1, p2, p3)
    BY <1>4, <1>5, <2>2, OpenStep
  <2>4. Held(p1, p2, p3)'
    <3>1. pc' \in Quiet /\ pc' # "push" /\ pc' # "free" /\ pc' # "save"
          /\ pc' \notin Renewed
      BY <2>2 DEF Quiet, Renewed
    <3> QED BY <2>2, <2>3, <3>1 DEF Held, HoldsParts
  <2>5. IsSession(list, M2_prev', M2_next', p1, p2, p3)
    BY <2>3, SteadyIsSession
  <2>6. Len(list.node) \in Nat /\ 1 <= Len(list.node)
    <3>1. list.head \in 1 .. Len(list.node) /\ Len(list.node) \in Nat
      BY <2>5 DEF IsSession, Sound
    <3> QED BY <3>1
  <2>7. PointerInv'
    <3>1. prev_last \in 0 .. Len(list.node)
      BY <1>7, <2>6
    <3> QED BY <1>1, <1>7, <2>2, <2>6, <3>1 DEF PointerInv
  <2>8. ControlInv'
    BY <1>1, <1>8, <2>2 DEF IInv, ControlInv, Closed, Quiet, Renewed
  <2>9. ListInv'
    <3>1. pc' \notin Closed
      BY <2>2 DEF Closed
    <3> QED BY <2>4, <3>1 DEF ListInv
  <2> QED BY <1>1, <1>6, <2>2, <2>4, <2>7, <2>8, <2>9 DEF IInv
<1> QED BY <1>9, <1>10

(* What a step on an opened list has to show.                              *)
LEMMA ListKept ==
    ASSUME ControlInv', QueueInv', PointerInv', NEW p1, NEW p2, NEW p3,
           Held(p1, p2, p3)', pc' \notin Closed
    PROVE  IInv'
<1>1. ListInv'
  BY DEF ListInv
<1> QED BY <1>1 DEF IInv

(* A mutated buffer is chosen: the session is as it was.                   *)
LEMMA MutateKeeps ==
    ASSUME IInv, NEW p1, NEW p2, NEW p3, Held(p1, p2, p3), Mutate
    PROVE  IInv' /\ Held(p1, p2, p3)'
<1>1. /\ pc = "mutate" /\ pc' = "push" /\ execs < opt.execs
      /\ out_buf' \in opt.outputs /\ todo' = NewOf(opt, out_buf')
      /\ prev_last' = Last(Nodes(kl, kl.head, kl.tail))
      /\ execs' = execs + 1
      /\ UNCHANGED <<opt, queue, kl, M2_prev, M2_next, cur_it,
                     messages_sent, sent>>
  BY DEF Mutate, MessagesIn, NewOf, get_last_message
<1>2. IsSteady(kl, M2_prev, M2_next, p1, p2, p3)
  BY <1>1 DEF Held, HoldsParts, Quiet
<1>3. PICK new : new = NewOf(opt, out_buf')
  OBVIOUS
<1>4. new \in Seq(Message)
  BY <1>1, <1>3, NewFacts DEF IInv, ControlInv, MessagesMade
<1>5. IsPushing(kl, M2_prev, M2_next, prev_last', new, new, p1, p2, p3)
  BY <1>1, <1>2, <1>4, MutateStep
<1>6. Held(p1, p2, p3)'
  <2>1. pc' \notin Quiet /\ pc' # "free" /\ pc' # "save" /\ pc' \notin Renewed
    BY <1>1 DEF Quiet, Renewed
  <2> QED BY <1>1, <1>3, <1>5, <2>1 DEF Held, HoldsParts
<1>7. PointerInv'
  <2>1. prev_last' \in 0 .. Len(kl.node)
    BY <1>5, PushingIsSound
  <2> QED BY <1>1, <2>1 DEF IInv, PointerInv
<1>8. ControlInv'
  <2>1. execs + 1 \in 0 .. opt.execs
    <3>1. execs \in 0 .. opt.execs /\ opt.execs \in Nat
      BY SubjectFacts DEF IInv, ControlInv
    <3> QED BY <1>1, <3>1
  <2> QED BY <1>1, <2>1 DEF IInv, ControlInv, Closed, Quiet, Renewed
<1>9. QueueInv'
  BY <1>1 DEF IInv, QueueInv, Finds
<1>10. pc' \notin Closed
  BY <1>1 DEF Closed
<1> QED BY <1>6, <1>7, <1>8, <1>9, <1>10, ListKept

(* A message is pushed behind it.                                          *)
LEMMA PushActionKeeps ==
    ASSUME IInv, NEW p1, NEW p2, NEW p3, Held(p1, p2, p3), Push
    PROVE  IInv' /\ Held(p1, p2, p3)'
<1>1. /\ pc = "push" /\ todo # <<>> /\ kl' = kl_pushp(kl, Head(todo))
      /\ M2_next' = IF kl'.node[M2_next].next = kl'.tail THEN kl'.tail
                    ELSE M2_next
      /\ todo' = Tail(todo)
      /\ UNCHANGED <<opt, pc, queue, M2_prev, out_buf, prev_last, cur_it,
                     messages_sent, sent, execs>>
  BY DEF Push
<1>2. PICK new : new = NewOf(opt, out_buf)
  OBVIOUS
<1>3. IsPushing(kl, M2_prev, M2_next, prev_last, todo, new, p1, p2, p3)
  BY <1>1, <1>2 DEF Held, HoldsParts
<1>4. IsPushing(kl', M2_prev, M2_next', prev_last, Tail(todo), new,
                p1, p2, p3)
  BY <1>1, <1>3, PushStep
<1>5. Held(p1, p2, p3)'
  <2>1. pc \notin Quiet /\ pc # "free" /\ pc # "save" /\ pc \notin Renewed
    BY <1>1 DEF Quiet, Renewed
  <2> QED BY <1>1, <1>2, <1>4, <2>1 DEF Held, HoldsParts
<1>6. PointerInv'
  <2>1. /\ Sound(kl', M2_prev, M2_next', kl'.node[prev_last].next, p1, p2, p3)
        /\ prev_last \in 0 .. Len(kl'.node)
    BY <1>4, PushingIsSound
  <2> QED BY <1>1, <2>1 DEF IInv, PointerInv, Sound
<1>7. ControlInv'
  BY <1>1 DEF IInv, ControlInv
<1>8. QueueInv'
  BY <1>1 DEF IInv, QueueInv, Finds
<1>9. pc' \notin Closed
  BY <1>1 DEF Closed
<1> QED BY <1>5, <1>6, <1>7, <1>8, <1>9, ListKept

(* The splice makes the mutated buffer the second part.                    *)
LEMMA SpliceKeeps ==
    ASSUME IInv, NEW p1, NEW p2, NEW p3, Held(p1, p2, p3), Splice
    PROVE  IInv' /\ Held(p1, NewOf(opt, out_buf), p3)'
<1>1. /\ pc = "push" /\ todo = <<>> /\ pc' = "free"
      /\ UNCHANGED <<opt, queue, M2_prev, M2_next, out_buf, todo, prev_last,
                     messages_sent, sent, execs>>
  BY DEF Splice
<1>2. PICK new, back, first, list1, cur :
        /\ new = NewOf(opt, out_buf)
        /\ back = Last(Nodes(kl, kl.head, kl.tail))
        /\ first = kl.node[prev_last].next
        /\ list1 = Relink(kl, M2_prev, M2_next, prev_last, back, first)
        /\ cur = IF M2_prev = Null THEN kl.head ELSE kl.node[M2_prev].next
  OBVIOUS
<1>3. kl' = list1 /\ cur_it' = cur
  <2>1. CASE M2_prev = Null
    BY <1>2, <2>1 DEF Splice, Relink, get_last_message
  <2>2. CASE M2_prev # Null
    BY <1>2, <2>2 DEF Splice, Relink, get_last_message
  <2> QED BY <2>1, <2>2
<1>4. IsPushing(kl, M2_prev, M2_next, prev_last, <<>>, new, p1, p2, p3)
  BY <1>1, <1>2 DEF Held, HoldsParts
<1>5. new # <<>>
  <2>1. opt \in Subjects /\ out_buf \in opt.outputs
    BY <1>1 DEF IInv, ControlInv
  <2> QED BY <1>2, <2>1, NewFacts DEF MessagesMade
<1>6. /\ IsFreeing(list1, M2_prev, M2_next, cur, p1, new, p3)
      /\ Len(list1.node) = Len(kl.node)
  BY <1>2, <1>4, <1>5, SpliceStep
<1>7. Held(p1, NewOf(opt, out_buf), p3)'
  <2>1. pc' \notin Quiet /\ pc' # "push" /\ pc' # "save"
    BY <1>1 DEF Quiet
  <2> QED BY <1>1, <1>2, <1>3, <1>6, <2>1 DEF Held, HoldsParts
<1>8. PointerInv'
  BY <1>1, <1>3, <1>6 DEF IInv, PointerInv
<1>9. ControlInv'
  BY <1>1 DEF IInv, ControlInv, Closed, Quiet, Renewed
<1>10. QueueInv'
  BY <1>1 DEF IInv, QueueInv, Finds
<1>11. pc' \notin Closed
  BY <1>1 DEF Closed
<1>12. IInv'
  <2>1. PICK n : n = NewOf(opt, out_buf)'
    OBVIOUS
  <2>2. Held(p1, n, p3)'
    BY <1>7, <2>1 DEF Held
  <2> QED BY <1>8, <1>9, <1>10, <1>11, <2>2, ListKept
<1> QED BY <1>7, <1>12

(* A node of the old second part is freed.                                 *)
LEMMA FreeActionKeeps ==
    ASSUME IInv, NEW p1, NEW p2, NEW p3, Held(p1, p2, p3), FreeOld
    PROVE  IInv' /\ Held(p1, p2, p3)' /\ pc' \in {"free", "run"}
<1>1. PICK behind : behind = kl.node[cur_it].next
  OBVIOUS
<1>2. /\ pc = "free" /\ kl' = kmp_free(kl, cur_it)
      /\ cur_it' = IF behind = M2_next THEN Null ELSE behind
      /\ pc' = CASE behind = M2_next -> "run"
                 [] behind = Null    -> "crashed"
                 [] OTHER            -> "free"
      /\ UNCHANGED <<opt, queue, M2_prev, M2_next, out_buf, todo, prev_last,
                     messages_sent, sent, execs>>
  BY <1>1 DEF FreeOld
<1>3. /\ IsFreeing(kl, M2_prev, M2_next, cur_it, p1, p2, p3)
      /\ p2 = NewOf(opt, out_buf)
  BY <1>2 DEF Held, HoldsParts, Renewed
<1>4. FreeDone(kl, kl', M2_prev, M2_next, cur_it, p1, p2, p3)
  BY <1>2, <1>3, FreeStep
<1>5. /\ behind = M2_next => IsSteady(kl', M2_prev, M2_next, p1, p2, p3)
      /\ behind # M2_next =>
           /\ behind # Null
           /\ IsFreeing(kl', M2_prev, M2_next, behind, p1, p2, p3)
      /\ Len(kl'.node) = Len(kl.node)
  BY <1>1, <1>4 DEF FreeDone
<1>6. \/ behind = M2_next /\ pc' = "run" /\ cur_it' = Null
      \/ behind # M2_next /\ pc' = "free" /\ cur_it' = behind
  <2>1. CASE behind = M2_next
    <3>1. M2_next # Null
      <4>1. IsSession(kl, M2_prev, M2_next, p1, p2, p3)
        BY <1>3, FreeingIsSession
      <4>2. M2_next \in 1 .. Len(kl.node)
        BY <4>1 DEF IsSession, Sound
      <4> QED BY <4>2 DEF Null
    <3>2. behind # Null
      BY <2>1, <3>1
    <3>3. cur_it' = Null
      BY <1>2, <2>1
    <3>4. pc' = "run"
      BY <1>2, <2>1, <3>2
    <3> QED BY <2>1, <3>3, <3>4
  <2>2. CASE behind # M2_next
    <3>1. behind # Null
      BY <1>5, <2>2
    <3>2. cur_it' = behind
      BY <1>2, <2>2
    <3>3. pc' = "free"
      BY <1>2, <2>2, <3>1
    <3> QED BY <2>2, <3>2, <3>3
  <2> QED BY <2>1, <2>2
<1>7. Held(p1, p2, p3)'
  <2>1. CASE behind = M2_next /\ pc' = "run" /\ cur_it' = Null
    <3>1. pc' \in Quiet /\ pc' # "push" /\ pc' # "free" /\ pc' # "save"
      BY <2>1 DEF Quiet
    <3>2. IsSteady(kl', M2_prev, M2_next, p1, p2, p3)
      BY <1>5, <2>1
    <3> QED BY <1>2, <1>3, <3>1, <3>2 DEF Held, HoldsParts
  <2>2. CASE behind # M2_next /\ pc' = "free" /\ cur_it' = behind
    <3>1. pc' \notin Quiet /\ pc' # "push" /\ pc' # "save"
      BY <2>2 DEF Quiet
    <3>2. IsFreeing(kl', M2_prev, M2_next, cur_it', p1, p2, p3)
      BY <1>5, <2>2
    <3> QED BY <1>2, <1>3, <3>1, <3>2 DEF Held, HoldsParts
  <2> QED BY <1>6, <2>1, <2>2
<1>8. PointerInv'
  BY <1>2, <1>5, <1>6 DEF IInv, PointerInv
<1>9. ControlInv'
  BY <1>2, <1>6 DEF IInv, ControlInv, Closed, Quiet, Renewed
<1>10. QueueInv'
  BY <1>2 DEF IInv, QueueInv, Finds
<1>11. pc' \notin Closed /\ pc' \in {"free", "run"}
  BY <1>6 DEF Closed
<1>12. IInv'
  BY <1>7, <1>8, <1>9, <1>10, <1>11, ListKept
<1> QED BY <1>7, <1>11, <1>12

(* The end of fuzz_one.                                                    *)
LEMMA CloseKeeps ==
    ASSUME IInv, delete_kl_messages
    PROVE  IInv'
<1>1. /\ pc = "mutate" /\ pc' = "idle" /\ kl' = kl_init /\ M2_prev' = Null
      /\ M2_next' = Null /\ prev_last' = Null /\ sent' = <<>>
      /\ UNCHANGED <<opt, queue, cur_it, messages_sent, execs>>
  BY DEF delete_kl_messages
<1>2. ControlInv'
  BY <1>1 DEF IInv, ControlInv, Closed, Quiet, Renewed
<1>3. QueueInv'
  <2>1. <<>> \in Seq(Message)
    BY EmptySeq
  <2> QED BY <1>1, <2>1 DEF IInv, QueueInv, Finds
<1>4. ListInv'
  BY <1>1 DEF ListInv, Closed
<1>5. PointerInv'
  BY <1>1, EmptyList DEF IInv, PointerInv, Null
<1> QED BY <1>2, <1>3, <1>4, <1>5 DEF IInv

(* The steps of an opened list find its parts.                             *)
LEMMA StepParts ==
    ASSUME IInv, pc \notin Closed
    PROVE  \E p1, p2, p3 : Held(p1, p2, p3)
BY DEF IInv, ListInv

(* Every step keeps the invariant.                                         *)
LEMMA StepInv == IInv /\ [Next]_vars => IInv'
<1> SUFFICES ASSUME IInv, [Next]_vars PROVE IInv'
  OBVIOUS
<1>1. ASSUME Mutate \/ Push \/ Splice \/ FreeOld \/ run_target
             \/ calibrate_case \/ NotInteresting \/ Interesting \/ Crash
      PROVE  IInv'
  <2>1. pc \notin Closed
    BY <1>1 DEF Mutate, Push, Splice, FreeOld, run_target, calibrate_case,
                NotInteresting, Interesting, Crash, Closed
  <2>2. PICK p1, p2, p3 : Held(p1, p2, p3)
    BY <2>1, StepParts
  <2>3. CASE Mutate BY <2>2, <2>3, MutateKeeps
  <2>4. CASE Push BY <2>2, <2>4, PushActionKeeps
  <2>5. CASE Splice BY <2>2, <2>5, SpliceKeeps
  <2>6. CASE FreeOld BY <2>2, <2>6, FreeActionKeeps
  <2>7. CASE run_target \/ calibrate_case BY <2>2, <2>7, DeliverKeeps
  <2>9. CASE NotInteresting \/ Interesting \/ Crash
    BY <2>2, <2>9, JudgeKeeps
  <2> QED BY <1>1, <2>3, <2>4, <2>5, <2>6, <2>7, <2>9
<1>2. CASE perform_dry_run BY <1>2, DryRunKeeps
<1>3. CASE OpenSeed BY <1>3, OpenKeeps
<1>4. CASE delete_kl_messages BY <1>4, CloseKeeps
<1>5. CASE Stopped \/ UNCHANGED vars
  BY <1>5 DEF Stopped, vars, IInv, ControlInv, QueueInv, Finds, ListInv, Held,
              PointerInv
<1> QED BY <1>1, <1>2, <1>3, <1>4, <1>5 DEF Next

-----------------------------------------------------------------------------
(* What the invariant says.                                                *)

(* IInv is an invariant: it holds initially and every step keeps it.       *)
THEOREM Inductive == Spec => []IInv
<1>1. Init => IInv
  BY InitInv
<1>2. IInv /\ [Next]_vars => IInv'
  BY StepInv
<1> QED BY <1>1, <1>2, PTL DEF Spec

(* The variables keep their types: the entries found stay within the       *)
(* bound, and every pointer is null or a node of the heap.                 *)
THEOREM TypeCorrect == Spec => []TypeOK
<1>1. IInv => TypeOK
  <2> SUFFICES ASSUME IInv PROVE TypeOK
    OBVIOUS
  <2>1. /\ opt \in Subjects /\ Finds \in 0 .. opt.finds
        /\ pc \in {"dry", "idle", "mutate", "push", "free", "run", "save",
                   "calibrate", "killed", "fatal", "crashed"}
        /\ messages_sent \in Nat /\ execs \in 0 .. opt.execs
        /\ prev_last \in 0 .. Len(kl.node)
        /\ pc # "free" => cur_it = Null
        /\ Len(kl.node) \in Nat
    BY DEF IInv, ControlInv, QueueInv, PointerInv, Closed, Quiet
  <2>2. /\ kl.size \in Nat
        /\ kl.head \in 1 .. Len(kl.node) /\ kl.tail \in 1 .. Len(kl.node)
        /\ M2_prev \in 0 .. Len(kl.node) /\ M2_next \in 0 .. Len(kl.node)
        /\ cur_it \in 0 .. Len(kl.node)
    <3>1. CASE pc \in Closed
      <4>1. kl = kl_init /\ M2_prev = Null /\ M2_next = Null /\ cur_it = Null
        BY <2>1, <3>1 DEF IInv, ListInv, Closed
      <4> QED BY <4>1, EmptyList DEF Null
    <3>2. CASE pc \notin Closed
      <4>1. PICK p1, p2, p3 : Held(p1, p2, p3)
        BY <3>2, StepParts
      <4>2. PICK new : new = NewOf(opt, out_buf)
        OBVIOUS
      <4>3. HoldsParts(pc, kl, M2_prev, M2_next, prev_last, todo, cur_it,
                       new, p1, p2, p3)
        BY <4>1, <4>2 DEF Held
      <4>4. pc \in Quiet \cup {"push", "free"}
        BY <3>2 DEF IInv, ControlInv
      <4>5. PartsSound(pc, kl, M2_prev, M2_next, prev_last, cur_it,
                       p1, p2, p3)
        BY <4>3, <4>4, HeldIsSound
      <4>6. /\ kl.size \in Nat
            /\ kl.head \in 1 .. Len(kl.node) /\ kl.tail \in 1 .. Len(kl.node)
            /\ M2_prev \in 0 .. Len(kl.node) /\ M2_next \in 1 .. Len(kl.node)
        BY <4>5 DEF PartsSound, Sound
      <4>7. cur_it \in 0 .. Len(kl.node)
        BY <2>1, <4>5 DEF PartsSound, Null
      <4> QED BY <4>6, <4>7
    <3> QED BY <3>1, <3>2
  <2> QED BY <2>1, <2>2 DEF TypeOK
<1> QED BY <1>1, Inductive, PTL

(* The ends of the mutated part are on the way.                            *)
EndsOnWay(list, prev, next) ==
    LET path == Nodes(list, list.head, list.tail) \o <<list.tail>>
        used == {path[i] : i \in 1 .. Len(path)}
    IN  {prev, next} \subseteq used \union {Null}

(* The messages that are allocated are on the way or among old.            *)
NoLeak(list, old) ==
    LET live == {n \in 1 .. Len(list.node) : list.node[n].live}
        path == Nodes(list, list.head, list.tail)
    IN  /\ live = {path[i] : i \in 1 .. Len(path)}
                    \union {old[i] : i \in 1 .. Len(old)}
        /\ list.size = Cardinality(live)

(* The heap of a way and the old nodes has no other message.               *)
LEMMA HeapHasNoLeak ==
    ASSUME NEW list, NEW W, Way(list, W), NEW S, Heap(list, S), NEW old,
           S = Inner(W) \cup {old[x] : x \in 1 .. Len(old)}
    PROVE  NoLeak(list, old)
<1>1. {n \in 1 .. Len(list.node) : list.node[n].live} = S
  <2>1. /\ S \subseteq 1 .. Len(list.node)
        /\ \A p \in 1 .. Len(list.node) : list.node[p].live <=> p \in S
    BY DEF Heap
  <2> QED BY <2>1
<1>2. list.size = Cardinality(S)
  BY DEF Heap
<1>3. IsWayOf(list, W)
  BY WayIsPath
<1> QED BY <1>1, <1>2, <1>3 DEF IsWayOf, NoLeak

(* What the memory of a list is like.                                      *)
MemoryOf(list, prev, next, old) ==
    PoolApart(list) /\ EndsOnWay(list, prev, next) /\ NoLeak(list, old)

(* The memory of a session with its heap.                                  *)
LEMMA CoreMemory ==
    ASSUME NEW list, NEW prev, NEW next, NEW W, NEW M, NEW i, NEW j, NEW k,
           Core(list, prev, next, W, M, i, j, k), NEW S, Heap(list, S),
           NEW old, S = Inner(W) \cup {old[x] : x \in 1 .. Len(old)}
    PROVE  MemoryOf(list, prev, next, old)
<1>1. Way(list, W) /\ Inner(W) \subseteq S
  BY DEF Core
<1>2. PoolApart(list)
  BY <1>1, PoolIsApart
<1>3. NoLeak(list, old)
  BY <1>1, HeapHasNoLeak
<1>4. EndsOnWay(list, prev, next)
  <2>1. IsWayOf(list, W)
    BY <1>1, WayIsPath
  <2>2. PICK m : m = Len(M)
    OBVIOUS
  <2>3. Known(list, prev, next, W, M, m, i, j, k)
    BY <2>2, CoreFacts
  <2>4. /\ m \in Nat /\ i \in Nat /\ j \in Nat /\ i < j /\ j <= m
        /\ Len(W) = m + 1 /\ W[m + 1] = list.tail
        /\ prev = IF i = 0 THEN Null ELSE W[i]
        /\ next = IF j = k THEN list.tail ELSE W[j + 1]
    BY <2>3 DEF Known
  <2>5. prev = Null \/ \E x \in 1 .. Len(W) : prev = W[x]
    <3>1. i # 0 => i \in 1 .. Len(W)
      BY <2>4
    <3> QED BY <2>4, <3>1
  <2>6. \E x \in 1 .. Len(W) : next = W[x]
    <3>1. PICK a, b \in 1 .. Len(W) : a = j + 1 /\ b = m + 1
      BY <2>4
    <3> QED BY <2>4, <3>1
  <2> QED BY <2>1, <2>5, <2>6 DEF IsWayOf, EndsOnWay
<1> QED BY <1>2, <1>3, <1>4 DEF MemoryOf

(* Nothing that was freed is reached, and every message that is allocated  *)
(* is reached or is about to be freed, however many messages were pushed   *)
(* to and freed from the list.                                             *)
THEOREM MemoryCorrect == Spec => []MemoryIsSound
<1>1. IInv => MemoryIsSound
  <2> SUFFICES ASSUME IInv PROVE MemoryIsSound
    OBVIOUS
  <2>1. PICK old : old = IF pc = "free" THEN Nodes(kl, cur_it, M2_next)
                         ELSE <<>>
    OBVIOUS
  <2>2. PoolApart(kl) /\ NoLeak(kl, old)
        /\ (pc \notin Closed => EndsOnWay(kl, M2_prev, M2_next))
    <3>0. pc # "free" => {old[x] : x \in 1 .. Len(old)} = {}
      BY <2>1, EmptySeq
    <3>1. CASE pc \in Closed
      <4>1. kl = kl_init /\ pc # "free"
        BY <3>1 DEF IInv, ListInv, Closed
      <4>2. PICK W : W = <<1>>
        OBVIOUS
      <4>3. Way(kl, W) /\ Heap(kl, Inner(W))
        BY <4>1, <4>2, InitIsList DEF IsListOf
      <4>4. PICK S : S = Inner(W)
        OBVIOUS
      <4>5. Heap(kl, S) /\ Inner(W) \subseteq S
            /\ S = Inner(W) \cup {old[x] : x \in 1 .. Len(old)}
        BY <3>0, <4>1, <4>3, <4>4
      <4>6. PoolApart(kl)
        BY <4>3, <4>5, PoolIsApart
      <4>7. NoLeak(kl, old)
        BY <4>3, <4>5, HeapHasNoLeak
      <4> QED BY <3>1, <4>6, <4>7
    <3>2. CASE pc \notin Closed
      <4>1. PICK p1, p2, p3 : Held(p1, p2, p3)
        BY <3>2, StepParts
      <4>2. PICK new : new = NewOf(opt, out_buf)
        OBVIOUS
      <4>3. HoldsParts(pc, kl, M2_prev, M2_next, prev_last, todo, cur_it,
                       new, p1, p2, p3)
        BY <4>1, <4>2 DEF Held
      <4>4. pc \in Quiet \/ pc = "push" \/ pc = "free"
        BY <3>2 DEF IInv, ControlInv
      <4>5. MemoryOf(kl, M2_prev, M2_next, old)
        <5>1. CASE pc \in Quiet
          <6>1. IsSteady(kl, M2_prev, M2_next, p1, p2, p3) /\ pc # "free"
            BY <4>3, <5>1 DEF HoldsParts, Quiet
          <6>2. PICK W, M, i, j : Steady(kl, M2_prev, M2_next, W, M, i, j)
            BY <6>1 DEF IsSteady
          <6>3. PICK k, S : k = Len(M) /\ S = Inner(W)
            OBVIOUS
          <6>4. /\ Core(kl, M2_prev, M2_next, W, M, i, j, k) /\ Heap(kl, S)
                /\ S = Inner(W) \cup {old[x] : x \in 1 .. Len(old)}
            BY <3>0, <6>1, <6>2, <6>3 DEF Steady
          <6> QED BY <6>4, CoreMemory
        <5>2. CASE pc = "push"
          <6>1. IsPushing(kl, M2_prev, M2_next, prev_last, todo, new,
                          p1, p2, p3)
            BY <4>3, <5>2 DEF HoldsParts
          <6>2. PICK W, M, i, j, k : Pushing(kl, M2_prev, M2_next, prev_last,
                                             todo, new, W, M, i, j, k)
            BY <6>1 DEF IsPushing
          <6>3. PICK S : S = Inner(W)
            OBVIOUS
          <6>4. /\ Core(kl, M2_prev, M2_next, W, M, i, j, k) /\ Heap(kl, S)
                /\ S = Inner(W) \cup {old[x] : x \in 1 .. Len(old)}
            BY <3>0, <5>2, <6>2, <6>3 DEF Pushing
          <6> QED BY <6>4, CoreMemory
        <5>3. CASE pc = "free"
          <6>1. IsFreeing(kl, M2_prev, M2_next, cur_it, p1, p2, p3)
            BY <4>3, <5>3 DEF HoldsParts
          <6>2. PICK W, M, i, j, R : Freeing(kl, M2_prev, M2_next, cur_it,
                                             W, M, i, j, R)
            BY <6>1 DEF IsFreeing
          <6>3. PICK k, S : k = Len(M) /\ S = Inner(W) \cup Inner(R)
            OBVIOUS
          <6>4. /\ Core(kl, M2_prev, M2_next, W, M, i, j, k) /\ Heap(kl, S)
                /\ Linked(kl, R) /\ Len(R) >= 2 /\ R[1] = cur_it
                /\ R[Len(R)] = M2_next
            BY <6>2, <6>3 DEF Freeing
          <6>5. Len(R) \in Nat
            BY <6>4 DEF Linked
          <6>6. PICK l : l = Len(R) - 1 /\ l \in Nat /\ Len(R) = l + 1
            BY <6>4, <6>5
          <6>7. old = [z \in 1 .. l |-> R[z]]
            <7>1. PICK x, y : /\ x = 1 /\ y = Len(R) /\ x \in 1 .. Len(R)
                              /\ y \in x .. Len(R)
              BY <6>4, <6>5
            <7>2. NodesAre(kl, R, x, y)
              BY <6>4, <7>1, NodesOf
            <7>3. Nodes(kl, R[x], R[y]) = [z \in 1 .. y - x |-> R[x + z - 1]]
              BY <7>2 DEF NodesAre
            <7>4. y - x = l /\ \A z \in 1 .. l : x + z - 1 = z
              BY <6>6, <7>1
            <7>5. old = Nodes(kl, R[x], R[y])
              BY <2>1, <5>3, <6>4, <7>1
            <7> QED BY <7>3, <7>4, <7>5
          <6>8. Len(old) = l
            BY <6>6, <6>7
          <6>9. {old[x] : x \in 1 .. Len(old)} = Inner(R)
            BY <6>6, <6>7, <6>8 DEF Inner
          <6>10. S = Inner(W) \cup {old[x] : x \in 1 .. Len(old)}
            BY <6>3, <6>9
          <6> QED BY <6>4, <6>10, CoreMemory
        <5> QED BY <4>4, <5>1, <5>2, <5>3
      <4> QED BY <4>5 DEF MemoryOf
    <3> QED BY <3>1, <3>2
  <2>3. NothingFreedIsReached
    <3>1. pc \in {"mutate", "push", "free", "run", "save", "calibrate"}
            => EndsOnWay(kl, M2_prev, M2_next)
      BY <2>2 DEF Closed
    <3> QED BY <2>2, <3>1 DEF PoolApart, EndsOnWay, NothingFreedIsReached
  <2>4. NoMessageLeaks
    BY <2>1, <2>2 DEF NoLeak, NoMessageLeaks
  <2> QED BY <2>3, <2>4 DEF MemoryIsSound
<1> QED BY <1>1, Inductive, PTL

(* The second part of the session is the mutated buffer, whatever its      *)
(* protocol cuts it into.                                                  *)
THEOREM BufferCorrect == Spec => []SessionIsBuffer
<1>1. IInv => SessionIsBuffer
  <2> SUFFICES ASSUME IInv, pc \in {"free", "run", "save", "calibrate"}
               PROVE  SessionIsBuffer
    BY DEF SessionIsBuffer
  <2>1. PICK p1, p2, p3 : Held(p1, p2, p3)
    BY StepParts DEF Closed
  <2>2. PICK new : new = NewOf(opt, out_buf)
    OBVIOUS
  <2>3. HoldsParts(pc, kl, M2_prev, M2_next, prev_last, todo, cur_it,
                   new, p1, p2, p3)
    BY <2>1, <2>2 DEF Held
  <2>4. PartsSound(pc, kl, M2_prev, M2_next, prev_last, cur_it, p1, p2, p3)
    <3>1. pc \in Quiet \cup {"push", "free"}
      BY DEF Quiet
    <3> QED BY <2>3, <3>1, HeldIsSound
  <2>5. p2 = new
    BY <2>3 DEF HoldsParts, Renewed
  <2>6. Messages(kl, m2Start, M2_next) = new
    <3>1. Reads(kl, M2_prev, M2_next, kl.tail, p1, p2, p3)
      BY <2>4 DEF PartsSound, Sound, EndNode
    <3>2. p2 = Messages(kl, m2Start, M2_next)
      <4>1. CASE M2_next = kl.tail
        BY <3>1, <4>1 DEF Reads, m2Start
      <4>2. CASE M2_next # kl.tail
        BY <3>1, <4>2 DEF Reads, m2Start
      <4> QED BY <4>1, <4>2
    <3> QED BY <2>5, <3>2
  <2>7. opt \in Subjects /\ out_buf \in opt.outputs
    BY DEF IInv, ControlInv, Renewed
  <2>8. Recovers(opt.protocol, out_buf, FlattenSeq(new))
    BY <2>2, <2>7, NewFacts DEF MessagesMade
  <2> QED BY <2>6, <2>8 DEF Recovers, SessionIsBuffer
<1> QED BY <1>1, Inductive, PTL

(* Every entry of the queue, now and later, is one of the subject's.       *)
LEMMA EntriesHold ==
    ASSUME IInv
    PROVE  \A i \in 1 .. Len(queue) :
             queue[i] \in EntryType /\ IsEntry(opt, queue[i])
<1> SUFFICES ASSUME NEW i \in 1 .. Len(queue)
             PROVE  queue[i] \in EntryType /\ IsEntry(opt, queue[i])
  OBVIOUS
<1>1. queue \in Seq(Entries(opt))
  BY DEF IInv, QueueInv
<1>2. queue[i] \in Entries(opt)
  BY <1>1, ElementOfSeq
<1> QED BY <1>2 DEF Entries

(* Without a prefix and with connections that do not fail, a saved session *)
(* is what the target was sent but for one message.                        *)
THEOREM SavedCorrect == Spec => []SavedWasSent
<1>1. IInv => SavedWasSent
  <2> SUFFICES ASSUME IInv PROVE SavedWasSent
    OBVIOUS
  <2>1. \A i \in 1 .. Len(queue) : IsEntry(opt, queue[i])
    BY EntriesHold
  <2> QED BY <2>1 DEF IsEntry, SavedWasSent
<1> QED BY <1>1, Inductive, PTL

(* With connections that do not fail every entry can be opened again, and  *)
(* the fuzzer never ends at one that has no message.                       *)
THEOREM OpenableCorrect == Spec => []SavedCanBeOpened
<1>1. IInv => SavedCanBeOpened
  <2> SUFFICES ASSUME IInv, ~opt.flaky PROVE SavedCanBeOpened
    BY DEF SavedCanBeOpened
  <2>1. pc # "fatal"
    BY DEF IInv, ControlInv
  <2>2. ASSUME NEW i \in 1 .. Len(queue)
        PROVE  /\ queue[i].sizes # <<>>
               /\ \A k \in 1 .. Len(queue[i].sizes) : queue[i].sizes[k] > 0
               /\ queue[i].found =>
                    Len(queue[i].file)
                      = Offsets(queue[i].sizes)[Len(queue[i].sizes)]
    <3>1. queue[i] \in EntryType /\ IsEntry(opt, queue[i])
      BY EntriesHold
    <3>2. PICK sizes : sizes = queue[i].sizes
      OBVIOUS
    <3>3. sizes \in Seq(Nat \ {0})
      BY <3>1, <3>2 DEF EntryType
    <3>4. \A k \in 1 .. Len(sizes) : sizes[k] > 0
      <4>1. \A k \in 1 .. Len(sizes) : sizes[k] \in Nat \ {0}
        BY <3>3, ElementOfSeq
      <4> QED BY <4>1
    <3> QED BY <3>1, <3>2, <3>4 DEF IsEntry
  <2> QED BY <2>1, <2>2 DEF SavedCanBeOpened
<1> QED BY <1>1, Inductive, PTL

-----------------------------------------------------------------------------
(* The list implements MessageList.                                        *)

(* What the abstract variables are: the parts, and what was sent of them.  *)
Bar(at, list, prev, next, last, s, p1, p2, p3, q) ==
    LET open  == at \notin {"dry", "idle", "fatal"}
        end   == IF at = "push" THEN list.node[last].next ELSE list.tail
        start == IF prev = Null THEN list.head ELSE list.node[prev].next
        stop  == IF next = list.tail THEN end ELSE next
    IN  /\ p1 = IF open THEN Messages(list, list.head, start) ELSE <<>>
        /\ p2 = IF open THEN Messages(list, start, stop) ELSE <<>>
        /\ p3 = IF open /\ next # list.tail THEN Messages(list, next, end)
                ELSE <<>>
        /\ q = IF at \in {"save", "calibrate", "killed", "mutate"}
               THEN s ELSE <<>>

Shows(p1, p2, p3, q) ==
    Bar(pc, kl, M2_prev, M2_next, prev_last, sent, p1, p2, p3, q)

(* Without a session the abstract list is closed.                          *)
LEMMA ClosedBar ==
    ASSUME NEW at \in Closed, NEW list, NEW prev, NEW next, NEW last, NEW s
    PROVE  Bar(at, list, prev, next, last, s, <<>>, <<>>, <<>>, <<>>)
BY DEF Bar, Closed

(* With a session the abstract list holds its three parts.                 *)
LEMMA OpenBar ==
    ASSUME NEW at \in Quiet \cup {"push", "free"}, NEW list, NEW prev,
           NEW next, NEW last, NEW cur, NEW p1, NEW p2, NEW p3, NEW s, NEW q,
           PartsSound(at, list, prev, next, last, cur, p1, p2, p3),
           q = IF at \in {"save", "calibrate", "killed", "mutate"}
               THEN s ELSE <<>>
    PROVE  /\ Bar(at, list, prev, next, last, s, p1, p2, p3, q)
           /\ p1 \in Seq(Message) /\ p2 \in Seq(Message) \ {<<>>}
           /\ p3 \in Seq(Message)
<1>1. /\ Reads(list, prev, next, EndNode(at, list, last), p1, p2, p3)
      /\ p1 \in Seq(Message) /\ p2 \in Seq(Message) \ {<<>>}
      /\ p3 \in Seq(Message)
  BY DEF PartsSound, Sound
<1>2. at \notin {"dry", "idle", "fatal"}
  BY DEF Quiet
<1>3. Bar(at, list, prev, next, last, s, p1, p2, p3, q)
  BY <1>1, <1>2 DEF Reads, EndNode, Bar
<1> QED BY <1>1, <1>3

(* What was sent, as MessageList sees it.                                  *)
Seen(at, s) ==
    IF at \in {"save", "calibrate", "killed", "mutate"} THEN s ELSE <<>>

(* An opened list shows its parts, *)
LEMMA HeldShows ==
    ASSUME IInv, NEW p1, NEW p2, NEW p3, Held(p1, p2, p3), pc \notin Closed,
           NEW q, q = Seen(pc, sent)
    PROVE  /\ Shows(p1, p2, p3, q)
           /\ p1 \in Seq(Message) /\ p2 \in Seq(Message) \ {<<>>}
           /\ p3 \in Seq(Message)
<1>1. PICK new : new = NewOf(opt, out_buf)
  OBVIOUS
<1>2. HoldsParts(pc, kl, M2_prev, M2_next, prev_last, todo, cur_it,
                 new, p1, p2, p3)
  BY <1>1 DEF Held
<1>3. pc \in Quiet \cup {"push", "free"}
  BY DEF IInv, ControlInv
<1>4. PartsSound(pc, kl, M2_prev, M2_next, prev_last, cur_it, p1, p2, p3)
  BY <1>2, <1>3, HeldIsSound
<1> QED BY <1>3, <1>4, OpenBar DEF Shows, Seen

(* also in the next state.                                                 *)
LEMMA HeldShowsNext ==
    ASSUME IInv', NEW p1, NEW p2, NEW p3, Held(p1, p2, p3)',
           pc' \notin Closed, NEW q, q = Seen(pc', sent')
    PROVE  /\ Shows(p1, p2, p3, q)'
           /\ p1 \in Seq(Message) /\ p2 \in Seq(Message) \ {<<>>}
           /\ p3 \in Seq(Message)
<1>1. PICK new : new = NewOf(opt', out_buf')
  OBVIOUS
<1>2. HoldsParts(pc', kl', M2_prev', M2_next', prev_last', todo', cur_it',
                 new, p1, p2, p3)
  BY <1>1 DEF Held, NewOf
<1>3. pc' \in Quiet \cup {"push", "free"}
  BY DEF IInv, ControlInv
<1>4. PartsSound(pc', kl', M2_prev', M2_next', prev_last', cur_it',
                 p1, p2, p3)
  BY <1>2, <1>3, HeldIsSound
<1>5. /\ Bar(pc', kl', M2_prev', M2_next', prev_last', sent', p1, p2, p3, q)
      /\ p1 \in Seq(Message) /\ p2 \in Seq(Message) \ {<<>>}
      /\ p3 \in Seq(Message)
  BY <1>3, <1>4, OpenBar DEF Seen
<1> QED BY <1>5 DEF Shows

(* Steps of MessageList.                                                   *)
LEMMA ListStutter ==
    ASSUME NEW p1, NEW p2, NEW p3, NEW q, Shows(p1, p2, p3, q),
           Shows(p1, p2, p3, q)'
    PROVE  UNCHANGED List!vars
BY DEF Shows, Bar, List!vars, opened, m2Start, m2End, listEnd

(* A session begins: the abstract list opens.                              *)
LEMMA ListOpen ==
    ASSUME Shows(<<>>, <<>>, <<>>, <<>>), NEW p1, NEW p2, NEW p3, p2 # <<>>,
           Shows(p1, p2, p3, <<>>)'
    PROVE  List!Open
<1>1. <<>> \o <<>> \o <<>> = <<>>
  <2>1. <<>> \in Seq(Nat)
    BY EmptySeq
  <2> QED BY <2>1, ConcatEmptySeq
<1> QED BY <1>1 DEF Shows, Bar, List!Open, List!session, opened, m2Start,
                    m2End, listEnd

(* New messages in place of M2: the abstract list replaces its middle.     *)
LEMMA ListReplace ==
    ASSUME NEW p1, NEW p2, NEW p3, NEW q, Shows(p1, p2, p3, q), p2 # <<>>,
           NEW new, new # <<>>, Shows(p1, new, p3, <<>>)'
    PROVE  List!Replace
BY DEF Shows, Bar, List!Replace, opened, m2Start, m2End, listEnd

(* Some of the messages are delivered: the abstract list sends them.       *)
LEMMA ListSend ==
    ASSUME NEW p1 \in Seq(Message), NEW p2 \in Seq(Message),
           NEW p3 \in Seq(Message), p2 # <<>>, NEW q, Shows(p1, p2, p3, q),
           NEW k \in 0 .. Len(p1 \o p2 \o p3), NEW r,
           r = SubSeq(p1 \o p2 \o p3, 1, k), Shows(p1, p2, p3, r)'
    PROVE  List!Send
<1>1. p1 \o p2 \o p3 # <<>>
  <2>1. p1 \o p2 \in Seq(Message) /\ p1 \o p2 # <<>>
    BY ConcatProperties, ConcatEqualIffEmpty
  <2> QED BY <2>1, ConcatEqualIffEmpty
<1> QED BY <1>1 DEF Shows, Bar, List!Send, List!session, opened, m2Start,
                    m2End, listEnd

(* The session ends: the abstract list closes.                             *)
LEMMA ListClose ==
    ASSUME Shows(<<>>, <<>>, <<>>, <<>>)'
    PROVE  List!Close
BY DEF Shows, Bar, List!Close, opened, m2Start, m2End, listEnd

(* A list that is not open shows nothing, now and in the next state.       *)
LEMMA ClosedShows ==
    /\ pc \in Closed => Shows(<<>>, <<>>, <<>>, <<>>)
    /\ pc' \in Closed => Shows(<<>>, <<>>, <<>>, <<>>)'
<1>1. pc \in Closed => Shows(<<>>, <<>>, <<>>, <<>>)
  BY ClosedBar DEF Shows
<1>2. ASSUME pc' \in Closed PROVE Shows(<<>>, <<>>, <<>>, <<>>)'
  <2>1. Bar(pc', kl', M2_prev', M2_next', prev_last', sent',
            <<>>, <<>>, <<>>, <<>>)
    BY <1>2, ClosedBar
  <2> QED BY <2>1 DEF Shows
<1> QED BY <1>1, <1>2

(* The steps of fuzz_one on an opened list: what MessageList sees of them. *)
LEMMA OpenedSteps ==
    ASSUME IInv, Mutate \/ Push \/ Splice \/ FreeOld \/ run_target
                 \/ calibrate_case \/ NotInteresting \/ Interesting \/ Crash
    PROVE  List!Next \/ UNCHANGED List!vars
<1>1. pc \notin Closed
  BY DEF Mutate, Push, Splice, FreeOld, run_target, calibrate_case,
         NotInteresting, Interesting, Crash, Closed
<1>2. PICK p1, p2, p3 : Held(p1, p2, p3)
  BY <1>1, StepParts
<1>3. PICK q : q = Seen(pc, sent)
  OBVIOUS
<1>4. /\ Shows(p1, p2, p3, q)
      /\ p1 \in Seq(Message) /\ p2 \in Seq(Message) /\ p3 \in Seq(Message)
      /\ p2 # <<>>
  BY <1>1, <1>2, <1>3, HeldShows
<1>5. PICK r : r = Seen(pc', sent')
  OBVIOUS
<1>6. CASE Mutate
  <2>1. /\ pc' = "push" /\ pc' \notin Closed /\ r = <<>>
    BY <1>5, <1>6 DEF Mutate, Closed, Seen
  <2>2. IInv' /\ Held(p1, p2, p3)'
    BY <1>2, <1>6, MutateKeeps
  <2>3. Shows(p1, p2, p3, r)'
    BY <1>5, <2>1, <2>2, HeldShowsNext
  <2>4. Shows(p1, p2, p3, <<>>)'
    BY <2>1, <2>3 DEF Shows
  <2>5. List!Replace
    BY <1>4, <2>4, ListReplace
  <2> QED BY <2>5 DEF List!Next
<1>7. CASE Push \/ FreeOld
  <2>1. r = <<>> /\ q = <<>> /\ pc' \notin Closed /\ IInv'
        /\ Held(p1, p2, p3)'
    <3>1. CASE Push
      <4>1. pc = "push" /\ pc' = "push"
        BY <3>1 DEF Push
      <4>2. IInv' /\ Held(p1, p2, p3)'
        BY <1>2, <3>1, PushActionKeeps
      <4> QED BY <1>3, <1>5, <4>1, <4>2 DEF Seen, Closed
    <3>2. CASE FreeOld
      <4>1. IInv' /\ Held(p1, p2, p3)' /\ pc' \in {"free", "run"}
        BY <1>2, <3>2, FreeActionKeeps
      <4>2. pc = "free"
        BY <3>2 DEF FreeOld
      <4> QED BY <1>3, <1>5, <4>1, <4>2 DEF Seen, Closed
    <3> QED BY <1>7, <3>1, <3>2
  <2>2. Shows(p1, p2, p3, r)'
    BY <1>5, <2>1, HeldShowsNext
  <2>3. r = q
    BY <2>1
  <2>4. Shows(p1, p2, p3, q)'
    BY <2>2, <2>3 DEF Shows
  <2> QED BY <1>4, <2>4, ListStutter
<1>8. CASE Splice
  <2>1. PICK new : new = NewOf(opt, out_buf)
    OBVIOUS
  <2>2. pc' = "free" /\ pc' \notin Closed /\ r = <<>>
    BY <1>5, <1>8 DEF Splice, Closed, Seen
  <2>3. IInv' /\ Held(p1, NewOf(opt, out_buf), p3)'
    BY <1>2, <1>8, SpliceKeeps
  <2>4. PICK n : n = NewOf(opt, out_buf)'
    OBVIOUS
  <2>5. Held(p1, n, p3)'
    BY <2>3, <2>4 DEF Held
  <2>6. Shows(p1, n, p3, r)' /\ n # <<>>
    BY <1>5, <2>2, <2>3, <2>5, HeldShowsNext
  <2>7. Shows(p1, n, p3, <<>>)'
    BY <2>2, <2>6 DEF Shows
  <2>8. List!Replace
    BY <1>4, <2>6, <2>7, ListReplace
  <2> QED BY <2>8 DEF List!Next
<1>9. CASE run_target \/ calibrate_case
  <2>1. /\ IInv' /\ Held(p1, p2, p3)'
        /\ \E k \in 0 .. Len(p1 \o p2 \o p3) :
             sent' = SubSeq(p1 \o p2 \o p3, 1, k)
    BY <1>2, <1>9, DeliverKeeps
  <2>2. pc' \in {"save", "mutate"}
    BY <1>9 DEF run_target, calibrate_case, Deliver
  <2>3. pc' \notin Closed /\ r = sent'
    BY <1>5, <2>2 DEF Closed, Seen
  <2>4. Shows(p1, p2, p3, r)'
    BY <1>5, <2>1, <2>3, HeldShowsNext
  <2>5. PICK k \in 0 .. Len(p1 \o p2 \o p3) :
          r = SubSeq(p1 \o p2 \o p3, 1, k)
    BY <2>1, <2>3
  <2>6. List!Send
    BY <1>4, <2>4, <2>5, ListSend
  <2> QED BY <2>6 DEF List!Next
<1>10. CASE NotInteresting \/ Interesting \/ Crash
  <2>1. IInv' /\ Held(p1, p2, p3)' /\ sent' = sent
    BY <1>2, <1>10, JudgeKeeps
  <2>2. pc = "save" /\ pc' \in {"mutate", "calibrate", "killed"}
    BY <1>10 DEF NotInteresting, Interesting, Crash
  <2>3. r = q /\ pc' \notin Closed
    BY <1>3, <1>5, <2>1, <2>2 DEF Seen, Closed
  <2>4. Shows(p1, p2, p3, r)'
    BY <1>5, <2>1, <2>3, HeldShowsNext
  <2>5. Shows(p1, p2, p3, q)'
    BY <2>3, <2>4 DEF Shows
  <2> QED BY <1>4, <2>5, ListStutter
<1> QED BY <1>6, <1>7, <1>8, <1>9, <1>10

(* The list implements MessageList: a mutation replaces the middle part    *)
(* of a session and nothing else, and what is sent is the session from its *)
(* first message on, for every protocol, buffer and list.                  *)
THEOREM Refinement == Spec => ListRefined
<1>1. Init => List!Init
  <2> SUFFICES ASSUME Init PROVE List!Init
    OBVIOUS
  <2>1. pc \in Closed
    BY DEF Init, Closed
  <2>2. Shows(<<>>, <<>>, <<>>, <<>>)
    BY <2>1, ClosedShows
  <2> QED BY <2>2 DEF Shows, Bar, List!Init, opened, m2Start, m2End, listEnd
<1>2. IInv /\ [Next]_vars => List!Next \/ UNCHANGED List!vars
  <2> SUFFICES ASSUME IInv, [Next]_vars
               PROVE  List!Next \/ UNCHANGED List!vars
    OBVIOUS
  <2>1. CASE perform_dry_run
    <3>1. pc \in Closed /\ pc' \in Closed
      BY <2>1 DEF perform_dry_run, Closed
    <3>2. Shows(<<>>, <<>>, <<>>, <<>>) /\ Shows(<<>>, <<>>, <<>>, <<>>)'
      BY <3>1, ClosedShows
    <3> QED BY <3>2, ListStutter
  <2>2. CASE OpenSeed
    <3>1. /\ IInv' /\ pc = "idle" /\ sent' = <<>>
          /\ \/ pc' = "fatal"
             \/ pc' = "mutate" /\ \E p1, p2, p3 : Held(p1, p2, p3)'
      BY <2>2, OpenKeeps
    <3>2. Shows(<<>>, <<>>, <<>>, <<>>)
      BY <3>1, ClosedShows DEF Closed
    <3>3. CASE pc' = "fatal"
      <4>1. Shows(<<>>, <<>>, <<>>, <<>>)'
        BY <3>3, ClosedShows DEF Closed
      <4> QED BY <3>2, <4>1, ListStutter
    <3>4. CASE pc' = "mutate" /\ \E p1, p2, p3 : Held(p1, p2, p3)'
      <4>1. PICK p1, p2, p3 : Held(p1, p2, p3)'
        BY <3>4
      <4>2. PICK r : r = Seen(pc', sent')
        OBVIOUS
      <4>3. r = <<>> /\ pc' \notin Closed
        BY <3>1, <3>4, <4>2 DEF Seen, Closed
      <4>4. Shows(p1, p2, p3, r)' /\ p2 # <<>>
        BY <3>1, <4>1, <4>2, <4>3, HeldShowsNext
      <4>5. Shows(p1, p2, p3, <<>>)'
        BY <4>3, <4>4 DEF Shows
      <4>6. List!Open
        BY <3>2, <4>4, <4>5, ListOpen
      <4> QED BY <4>6 DEF List!Next
    <3> QED BY <3>1, <3>3, <3>4
  <2>3. CASE delete_kl_messages
    <3>1. pc' \in Closed
      BY <2>3 DEF delete_kl_messages, Closed
    <3>2. List!Close
      BY <3>1, ClosedShows, ListClose
    <3> QED BY <3>2 DEF List!Next
  <2>4. CASE Stopped \/ UNCHANGED vars
    BY <2>4 DEF Stopped, vars, List!vars, opened, m2Start, m2End, listEnd
  <2>5. CASE Mutate \/ Push \/ Splice \/ FreeOld \/ run_target
             \/ calibrate_case \/ NotInteresting \/ Interesting \/ Crash
    BY <2>5, OpenedSteps
  <2> QED BY <2>1, <2>2, <2>3, <2>4, <2>5 DEF Next
<1> QED BY <1>1, <1>2, Inductive, PTL DEF Spec, ListRefined, List!Spec
=============================================================================

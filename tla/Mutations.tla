------------------------------ MODULE Mutations ------------------------------
(***************************************************************************)
(* The arithmetic of AFLGo's mutations (AFLGo/afl-fuzz.c): what each       *)
(* deterministic stage makes of a buffer, the tests that skip a value as a *)
(* duplicate of an earlier stage, the score of an entry, the length of a   *)
(* random block and the place where two files are spliced.                 *)
(*                                                                         *)
(* A buffer is a sequence of bytes, a word of one, two or four bytes is a  *)
(* sequence too, its least significant byte first (the order of the        *)
(* memory): Reverse makes it big endian (SWAP16, SWAP32).                  *)
(***************************************************************************)
EXTENDS Integers, Sequences, FiniteSets, SequencesExt

CONSTANTS
    ARITH_MAX, EFF_MAP_SCALE2, HAVOC_MAX_MULT,  \* config.h
    HAVOC_BLK_SMALL, HAVOC_BLK_MEDIUM, HAVOC_BLK_LARGE, HAVOC_BLK_XL

Smaller(a, b) == IF a < b THEN a ELSE b

(* The number v as a word of w bytes, two's complement. *)
Word(v, w) == [k \in 1 .. w |-> (v \div 256^(k - 1)) % 256]

(* A word plus a number, which may be negative; carries fall off. *)
Plus(word, v) ==
    LET carry[k \in 0 .. Len(word)] ==
            IF k = 0 THEN v ELSE (word[k] + carry[k - 1]) \div 256
    IN  [k \in 1 .. Len(word) |-> (word[k] + carry[k - 1]) % 256]

WordAt(buf, i, w) == SubSeq(buf, i + 1, i + w)

(* The buffer with a word written at position i. *)
Put(buf, i, word) ==
    [p \in 1 .. Len(buf) |->
        IF p - i \in 1 .. Len(word) THEN word[p - i] ELSE buf[p]]

Bit(byte, k) == (byte \div 2^k) % 2

FlipByte(byte, bits) ==
    byte + FoldSet(LAMBDA k, sum : sum + (1 - 2 * Bit(byte, k)) * 2^k,
                   0, bits)

(* k bits of the buffer flipped from bit b on.  Bits are walked from the   *)
(* most significant one of a byte to the least (FLIP_BIT).                 *)
FlipBits(buf, b, k) ==
    [p \in 1 .. Len(buf) |->
        FlipByte(buf[p], {7 - (c % 8) : c \in {c \in b .. b + k - 1 :
                                                  c \div 8 = p - 1}})]

FlipBytes(buf, i, w) ==
    Put(buf, i, [k \in 1 .. w |-> 255 - buf[i + k]])

interesting_8 == {-128, -1, 0, 1, 16, 32, 64, 100, 127}

interesting_16 ==
    interesting_8 \union
    {-32768, -129, 128, 255, 256, 512, 1000, 1024, 4096, 32767}

(* The least of the 32-bit values is a word of its own here. *)
Interesting(w) ==
    CASE w = 1 -> {Word(v, 1) : v \in interesting_8}
      [] w = 2 -> {Word(v, 2) : v \in interesting_16}
      [] w = 4 -> {Word(v, 4) : v \in interesting_16 \union
                       {-100663046, -32769, 32768, 65535, 65536, 100663045,
                        2147483647}} \union {<<0, 0, 0, 128>>}

---------------------------------------------------------------------------
(* The places of the bits two words differ in, the least significant one   *)
(* of the word is 0.                                                       *)
Xor(old, new) ==
    {8 * (p[1] - 1) + p[2] : p \in
        {q \in (1 .. Len(old)) \X (0 .. 7) :
            Bit(old[q[1]], q[2]) # Bit(new[q[1]], q[2])}}

RunOf(bits, n) ==
    \E sh \in bits : bits = sh .. sh + n - 1

(* Mutant: byte patterns are taken for flips at any shift. *)
FlipAnywhere(bits) ==
    bits = {} \/ \E n \in {1, 2, 4, 5, 8, 16, 32} : RunOf(bits, n)

could_be_bitflip(bits) ==
    \/ bits = {}
    \/ \E n \in {1, 2, 4} : RunOf(bits, n)
    \/ \E n \in {8, 16, 32} :
           RunOf(bits, n) /\ (CHOOSE b \in bits : \A c \in bits : b <= c) % 8 = 0

Near(a, b) ==
    \E j \in 0 .. ARITH_MAX : Plus(a, j) = b \/ Plus(b, j) = a

(* The two words differ in one aligned unit of u bytes only, and there by  *)
(* no more than ARITH_MAX.                                                 *)
NearIn(old, new, u, ends) ==
    LET units == {i \in 0 .. Len(old) \div u - 1 :
                     WordAt(old, i * u, u) # WordAt(new, i * u, u)}
    IN  /\ Cardinality(units) = 1
        /\ \E i \in units :
               LET a == WordAt(old, i * u, u)
                   b == WordAt(new, i * u, u)
               IN  Near(a, b) \/ (ends /\ Near(Reverse(a), Reverse(b)))

could_be_arith(old, new) ==
    \/ old = new
    \/ NearIn(old, new, 1, FALSE)
    \/ Len(old) > 1 /\ NearIn(old, new, 2, TRUE)
    \/ Len(old) = 4 /\ (Near(old, new) \/ Near(Reverse(old), Reverse(new)))

could_be_interest(old, new, check_le) ==
    LET w == Len(old) IN
    \/ old = new
    \/ \E i \in 0 .. w - 1, v \in Interesting(1) : Put(old, i, v) = new
    \/ /\ w > 2 \/ check_le
       /\ \E i \in 0 .. w - 2, v \in Interesting(2) :
              \/ Put(old, i, v) = new
              \/ w > 2 /\ Put(old, i, Reverse(v)) = new
    \/ w = 4 /\ check_le /\ new \in Interesting(4)

---------------------------------------------------------------------------
(* The words the stages execute in place of the word old. *)
Overflows(word, v) ==
    CASE Len(word) = 1 -> TRUE
      [] Len(word) = 2 -> word[1] + v \notin 0 .. 255
      [] Len(word) = 4 -> word[1] + 256 * word[2] + v \notin 0 .. 65535

Steps == {s * j : s \in {-1, 1}, j \in 1 .. ARITH_MAX}

(* arith 8/8, 16/8 and 32/8: an addition that changes more than its lower  *)
(* half, in both byte orders.                                              *)
ArithWords(old) ==
    LET le == {Plus(old, v) : v \in {v \in Steps : Overflows(old, v)}}
        be == {Reverse(Plus(Reverse(old), v)) :
                  v \in {v \in Steps : Overflows(Reverse(old), v)}}
    IN  {new \in le \union (IF Len(old) = 1 THEN {} ELSE be) :
            ~could_be_bitflip(Xor(old, new))}

(* interest 8/8, 16/8 and 32/8. *)
InterestWords(old) ==
    LET w == Len(old)
        fresh(new) == /\ ~could_be_bitflip(Xor(old, new))
                      /\ ~could_be_arith(old, new)
        le == {v \in Interesting(w) :
                  fresh(v) /\ (w = 1 \/ ~could_be_interest(old, v, FALSE))}
        be == {v \in {Reverse(u) : u \in Interesting(w)} :
                  /\ v # Reverse(v) /\ fresh(v)
                  /\ ~could_be_interest(old, v, TRUE)}
    IN  le \union (IF w = 1 THEN {} ELSE be)

---------------------------------------------------------------------------
EFF_APOS(p) == p \div 2^EFF_MAP_SCALE2

EFF_ALEN(n) == EFF_APOS(n + 2^EFF_MAP_SCALE2 - 1)

(* The blocks a word of w bytes at position p touches. *)
Span(p, w) == EFF_APOS(p) .. EFF_APOS(p + w - 1)

(* A block's length for a limit, given the round of the queue and whether  *)
(* the session has run for long.                                           *)
choose_block_len(limit, queue_cycle, run_over10m) ==
    LET rlim == IF run_over10m THEN Smaller(queue_cycle, 3) ELSE 1
        range(c) ==
            CASE c = 0 -> <<1, HAVOC_BLK_SMALL>>
              [] c = 1 -> <<HAVOC_BLK_SMALL, HAVOC_BLK_MEDIUM>>
              [] c = 2 -> <<HAVOC_BLK_MEDIUM, HAVOC_BLK_LARGE>>
              [] c = 3 -> <<HAVOC_BLK_LARGE, HAVOC_BLK_XL>>
        cases == IF rlim = 3 THEN 0 .. 3 ELSE 0 .. rlim - 1
    IN  UNION {LET low == IF range(c)[1] >= limit THEN 1 ELSE range(c)[1]
               IN  low .. Smaller(range(c)[2], limit) : c \in cases}

(* The score of an entry from how it compares with the others: the factors *)
(* of its speed (already a score), the size of its trace and its depth,    *)
(* what is left of its handicap and the factor of its distance, a power of *)
(* two.  Every product is cut to an integer.                               *)
calculate_score(e, handicap) ==
    LET sized == (e.speed * e.size[1]) \div e.size[2]
        kept  == sized * (IF handicap >= 4 THEN 4
                          ELSE IF handicap > 0 THEN 2 ELSE 1)
        deep  == kept * (CASE e.depth \in 0 .. 3   -> 1
                           [] e.depth \in 4 .. 7   -> 2
                           [] e.depth \in 8 .. 13  -> 3
                           [] e.depth \in 14 .. 25 -> 4
                           [] OTHER                -> 5)
    IN  Smaller((deep * e.power[1]) \div e.power[2], HAVOC_MAX_MULT * 100)

HandicapLeft(h) == IF h >= 4 THEN h - 4 ELSE IF h > 0 THEN h - 1 ELSE 0

(* The first and the last position two buffers differ at, or -1. *)
locate_diffs(a, b) ==
    LET diffs == {p \in 0 .. Smaller(Len(a), Len(b)) - 1 :
                     a[p + 1] # b[p + 1]}
    IN  IF diffs = {} THEN <<-1, -1>>
        ELSE <<CHOOSE p \in diffs : \A q \in diffs : p <= q,
               CHOOSE p \in diffs : \A q \in diffs : p >= q>>

=============================================================================

------------------------------ MODULE Protocols ------------------------------
(***************************************************************************)
(* What AFLGo's network protocols make of a buffer (AFLGo/protocol.c): the *)
(* regions (requests) a buffer of messages is cut into.  A buffer is a     *)
(* sequence of bytes; byte positions count from 0 as in the source.  Each  *)
(* loop of the source that copies one byte after the other is given by     *)
(* where the region that begins at a position ends.                        *)
(*                                                                         *)
(* A 32-bit unsigned number is written in two's complement (0xFFFFFFFF is  *)
(* -1), ULess compares two of them as unsigned.                            *)
(***************************************************************************)
EXTENDS Integers, Sequences, FiniteSets, SequencesExt

(* A byte read behind the end of a buffer. *)
Junk == 256

Byte(buf, i) == IF i < Len(buf) THEN buf[i + 1] ELSE Junk

(* Bytes i to j of a buffer, both included. *)
Bytes(buf, i, j) == [k \in 1 .. j - i + 1 |-> Byte(buf, i + k - 1)]

ULess(a, b) == IF (a < 0) <=> (b < 0) THEN a < b ELSE b < 0

U32(buf, i) ==
    LET top == Byte(buf, i) IN
    ((((IF top >= 128 THEN top - 256 ELSE top) * 256 + Byte(buf, i + 1)) * 256
        + Byte(buf, i + 2)) * 256) + Byte(buf, i + 3)

U16(buf, i) == 256 * Byte(buf, i) + Byte(buf, i + 1)

CRLF == <<13, 10>>

(* The text SSH- . *)
SshName == <<83, 83, 72, 45>>

(* What next leads to from a on, until it stays; n links at most. *)
Chain(next, a, n) ==
    LET links[k \in 0 .. n] ==
            [p \in DOMAIN next |->
                IF k = 0 \/ next[p] = p THEN <<>>
                ELSE <<p>> \o links[k - 1][next[p]]]
    IN  links[n][a]

Least(S) == CHOOSE x \in S : \A y \in S : x <= y

FirstOr(S, default) == IF S = {} THEN default ELSE Least(S)

---------------------------------------------------------------------------
(* Requests.  In each operator n is the size of the buffer and s the       *)
(* position where a region begins; the value is where the region ends.  A  *)
(* region that reaches the last byte but one and does not end there takes  *)
(* the last byte too.                                                      *)

(* smtp: a line of at least three bytes, ended by CR LF. *)
EndOfLine(buf, s) ==
    LET n == Len(buf) IN
    FirstOr({e \in s + 2 .. n - 2 : Bytes(buf, e - 1, e) = CRLF}, n - 1)

(* The same for ftp and telnet. *)
EndOfFtp(buf, s) == EndOfLine(buf, s)

EndOfTelnet(buf, s) == EndOfLine(buf, s)

(* rtsp: at least five bytes, ended by an empty line. *)
EndOfHeader(buf, s) ==
    LET n == Len(buf) IN
    FirstOr({e \in s + 4 .. n - 2 : Bytes(buf, e - 3, e) = CRLF \o CRLF},
            n - 1)

(* skip bytes behind position p, the last byte of what has been read; the  *)
(* byte that follows is given back unless the buffer has ended.            *)
EndOfSkip(n, p, skip) ==
    IF ULess(skip, n - p - 1) THEN p - 1 + skip ELSE n - 1

(* ssh: the identification line, or a length and a message code; other     *)
(* messages than those of the key exchange carry a MAC of 8 bytes.         *)
EndOfSsh(buf, s) ==
    LET n == Len(buf)
        keyExchange == Byte(buf, s + 5) \in 20 .. 49
        rest == U32(buf, s) - 2 + (IF keyExchange THEN 0 ELSE 8)
    IN  IF s + 6 > n - 2 THEN n - 1
        ELSE IF Bytes(buf, s, s + 3) = SshName
        THEN FirstOr({e \in s + 6 .. n - 1 : Bytes(buf, e - 1, e) = CRLF},
                     n - 1)
        ELSE EndOfSkip(n, s + 6, rest)

(* tls: a header of five bytes with the length of the record. *)
EndOfTls(buf, s) ==
    LET n == Len(buf) IN
    IF s + 5 > n - 2 THEN n - 1 ELSE EndOfSkip(n, s + 5, U16(buf, s + 3))

(* Mutant: the bounds check is off by one. *)
EndBehind(buf, s) ==
    LET n == Len(buf)
        end == s + U32(buf, s + 2) + 5
    IN  IF s + 5 >= n \/ ULess(end, s) \/ ULess(n, end) THEN n - 1 ELSE end

(* dicom: a header of six bytes with the length of the unit; a length that *)
(* overflows or leaves the buffer makes the rest one region.               *)
EndOfDicom(buf, s) ==
    LET n == Len(buf)
        end == s + U32(buf, s + 2) + 5
    IN  IF s + 5 >= n \/ ULess(end, s) \/ ~ULess(end, n) THEN n - 1 ELSE end

(* dns: a header of twelve bytes, a name that ends with a null byte and    *)
(* four bytes more, which may lie behind the end of the buffer.            *)
EndOfDns(buf, s) ==
    LET n == Len(buf)
        null == {e \in s + 12 .. n - 2 : Byte(buf, e) = 0}
    IN  IF null = {} THEN n - 1 ELSE Least(null) + 4

(* dtls12: a content type and the version begin a record, from the fifth   *)
(* byte of the buffer on.                                                  *)
DtlsRecord(buf, b) ==
    /\ Byte(buf, b) \in 20 .. 24
    /\ Bytes(buf, b + 1, b + 2) = <<254, 253>>

EndOfDtls(buf, s) ==
    LET n == Len(buf)
        next == {b \in s + 1 .. n - 2 : b > 3 /\ DtlsRecord(buf, b)}
    IN  FirstOr(next, n) - 1

Protocol ==
    {"smtp", "ftp", "telnet", "rtsp", "ssh", "tls", "dicom", "dns", "dtls12"}

EndOf(protocol, buf, s) ==
    CASE protocol = "smtp"   -> EndOfLine(buf, s)
      [] protocol = "ftp"    -> EndOfFtp(buf, s)
      [] protocol = "telnet" -> EndOfTelnet(buf, s)
      [] protocol = "rtsp"   -> EndOfHeader(buf, s)
      [] protocol = "ssh"    -> EndOfSsh(buf, s)
      [] protocol = "tls"    -> EndOfTls(buf, s)
      [] protocol = "dicom"  -> EndOfDicom(buf, s)
      [] protocol = "dns"    -> EndOfDns(buf, s)
      [] protocol = "dtls12" -> EndOfDtls(buf, s)

(* The regions of a buffer.  A single byte behind the last message makes   *)
(* no region, except for dicom and dtls12.                                 *)
RegionsOf(protocol, buf) ==
    LET n    == Len(buf)
        rest == IF protocol \in {"dicom", "dtls12"} THEN 0 ELSE 1
        next == [s \in 0 .. n + 3 |->
                    IF s >= n - rest THEN s ELSE EndOf(protocol, buf, s) + 1]
        starts == Chain(next, 0, n)
    IN  [i \in 1 .. Len(starts) |->
            [start |-> starts[i], end |-> next[starts[i]] - 1]]

extract_requests(protocol, buf) ==
    LET regions == RegionsOf(protocol, buf) IN
    IF regions = <<>> /\ buf # <<>>
    THEN <<[start |-> 0, end |-> Len(buf) - 1]>>
    ELSE regions

=============================================================================

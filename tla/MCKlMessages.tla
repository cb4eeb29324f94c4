---------------------------- MODULE MCKlMessages ----------------------------
(* Small instances of KlMessages. *)
EXTENDS KlMessages

Text(n) == [i \in 1 .. n |-> 64 + i]

(* Sequences of at most n elements of S. *)
UpTo(n, S) == UNION {[1 .. k -> S] : k \in 1 .. n}

Line(n) == Text(n) \o CRLF

Subject(protocol, seeds, outputs, prefix, flaky, k, finds) ==
    [protocol |-> protocol, seeds |-> seeds, outputs |-> outputs,
     prefix |-> prefix, flaky |-> flaky, execs |-> k,
     finds |-> finds]

(* One to three lines for one, two or three, with and without a rest: the  *)
(* list is cut at each of its messages, M1 and M3 may be empty.            *)
Lines == {Line(1) \o Line(2) \o Line(1), Line(1)}

LineOutputs == {Line(1), Line(1) \o Line(1) \o Line(2), Line(2) \o <<65>>}

(* Every short buffer over CR, LF and a letter. *)
Short == UpTo(4, {13, 10, 65})

(* Lengths of zero, one, three and ones that overflow 32 or leave 16 bits. *)
SshOutputs ==
    {<<a, a, a, b, 0, c>> \o Text(n) :
        a \in {0, 255}, b \in {0, 1, 3, 252, 255}, c \in {20, 60},
        n \in 1 .. 12}
    \union {SshName \o Text(n) \o CRLF \o <<0, 0, 0, 2, 0, 20>> \o Text(m) :
               n \in 1 .. 2, m \in 0 .. 3}

TlsOutputs ==
    {<<22, 3, 3, 0, b>> \o Text(n) \o <<22, 3, 3, 0, c>> \o Text(m) :
        b \in 0 .. 3, c \in {0, 2}, n \in 0 .. 3, m \in 0 .. 3}

DicomOutputs ==
    {<<1, 0, a, a, a, b>> \o Text(n) \o <<1, 0, a, a, a, c>> \o Text(m) :
        a \in {0, 255}, b \in {0, 2, 249, 250, 251, 255}, c \in {0, 2, 250},
        n \in 0 .. 3, m \in 0 .. 3}

DnsOutputs ==
    {Text(12 + k) \o <<0>> \o Text(n) \o Text(12) \o <<0>> \o Text(m) :
        k \in 0 .. 1, n \in 3 .. 5, m \in 0 .. 5}

Record(n) == <<22, 254, 253>> \o Text(n)

DtlsOutputs ==
    {Record(n) \o Record(m) : n \in 0 .. 4, m \in 0 .. 2}
    \union UpTo(2, {22, 254})
    \union {Record(2) \o <<22, 254>>}

RtspOutputs ==
    {Text(n) \o CRLF \o CRLF \o Text(m) \o CRLF \o CRLF \o Text(k) :
        n \in 0 .. 2, m \in 0 .. 2, k \in 0 .. 2}

MCSubjects ==
    {Subject("ftp", Lines, LineOutputs, 0, FALSE, 2, 1),
     Subject("telnet", {Line(1) \o Line(1)}, LineOutputs, 1, TRUE, 1, 1),
     Subject("smtp", {Line(1)}, Short, 0, FALSE, 1, 0),
     Subject("rtsp", {Line(1)}, RtspOutputs, 0, FALSE, 1, 0),
     Subject("ssh", {Text(2)}, SshOutputs, 0, FALSE, 1, 0),
     Subject("tls", {Text(2)}, TlsOutputs, 0, FALSE, 1, 0),
     Subject("dicom", {Text(2)}, DicomOutputs, 0, FALSE, 1, 0),
     Subject("dns", {Text(2)}, DnsOutputs, 0, FALSE, 1, 0),
     Subject("dtls12", {Text(2)}, DtlsOutputs, 0, FALSE, 1, 0)}

=============================================================================

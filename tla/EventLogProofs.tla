--------------------------- MODULE EventLogProofs ---------------------------
(***************************************************************************)
(* The event logger delivers: for every number of workers, capacity of the *)
(* channel and set of inputs, no event is lost, repeated or reordered      *)
(* between impl and the trace file, as long as no input is run twice.      *)
(***************************************************************************)
EXTENDS EventLog, SequenceTheorems, TLAPS

(* One event moves from the front of one sequence to the end of another.   *)
LEMMA MoveHead ==
    ASSUME NEW S, NEW a \in Seq(S), NEW b \in Seq(S), b # <<>>
    PROVE  /\ Append(a, Head(b)) \in Seq(S) /\ Tail(b) \in Seq(S)
           /\ Append(a, Head(b)) \o Tail(b) = a \o b
<1>1. /\ Head(b) \in S /\ Tail(b) \in Seq(S)
      /\ Len(Tail(b)) = Len(b) - 1
      /\ \A i \in 1 .. Len(Tail(b)) : Tail(b)[i] = b[i + 1]
  BY HeadTailProperties
<1> DEFINE c == Append(a, Head(b))
<1>2. /\ c \in Seq(S) /\ Len(c) = Len(a) + 1 /\ c[Len(a) + 1] = Head(b)
      /\ \A i \in 1 .. Len(a) : c[i] = a[i]
  BY <1>1, AppendProperties
<1>3. Len(b) \in Nat \ {0} /\ Len(a) \in Nat /\ Head(b) = b[1]
  BY EmptySeq, LenProperties
<1> HIDE DEF c
<1>4. /\ c \o Tail(b) \in Seq(S) /\ a \o b \in Seq(S)
      /\ Len(c \o Tail(b)) = Len(a) + Len(b) /\ Len(a \o b) = Len(a) + Len(b)
  <2>1. /\ c \o Tail(b) \in Seq(S)
        /\ Len(c \o Tail(b)) = Len(c) + Len(Tail(b))
    BY <1>1, <1>2, ConcatProperties
  <2>2. a \o b \in Seq(S) /\ Len(a \o b) = Len(a) + Len(b)
    BY ConcatProperties
  <2>3. (Len(a) + 1) + (Len(b) - 1) = Len(a) + Len(b)
    BY <1>3
  <2> QED BY <1>1, <1>2, <2>1, <2>2, <2>3
<1>5. ASSUME NEW i \in 1 .. Len(a) + Len(b)
      PROVE  (c \o Tail(b))[i] = (a \o b)[i]
  <2>0. i \in 1 .. Len(c) + Len(Tail(b)) /\ i \in Int
    BY <1>1, <1>2, <1>3
  <2>1. (c \o Tail(b))[i] =
          IF i <= Len(c) THEN c[i] ELSE Tail(b)[i - Len(c)]
    BY <1>1, <1>2, <2>0, ConcatProperties
  <2>2. (a \o b)[i] = IF i <= Len(a) THEN a[i] ELSE b[i - Len(a)]
    BY ConcatProperties
  <2>3. CASE i <= Len(a)
    BY <1>2, <1>3, <2>1, <2>2, <2>3
  <2>4. CASE i = Len(a) + 1
    BY <1>2, <1>3, <2>1, <2>2, <2>4
  <2>5. CASE i > Len(a) + 1
    BY <1>1, <1>2, <1>3, <2>1, <2>2, <2>5
  <2>6. i <= Len(a) \/ i = Len(a) + 1 \/ i > Len(a) + 1
    BY <1>3, <2>0
  <2> QED BY <2>3, <2>4, <2>5, <2>6
<1>6. c \o Tail(b) = a \o b
  BY <1>4, <1>5, SeqEqual
<1> QED BY <1>1, <1>2, <1>6 DEF c

-----------------------------------------------------------------------------
Busy == {"impl", "stop", "load"}

(* The two goroutines of a test, by phase.                                 *)
Phase(w) ==
    /\ writer[w] = "done" => e_chan[w] = <<>> /\ hand[w] = <<>>
    /\ writer[w] = "running" => pc[w] \in {"impl", "stop"}
    /\ pc[w] = "impl" => ~ closed[w] /\ writer[w] = "running"
    /\ pc[w] \in {"stop", "load"} => todo[w] = <<>>
    /\ pc[w] \in Busy => inode[w] \in 1 .. Len(content)
    /\ pc[w] \in Busy \cup {"submit"} => tests[w] # <<>>

(* When no input is run twice every logger has a file of its own.          *)
NamesAreGiven ==
    \A i \in DOMAIN names : \E w \in Worker : i \in Range(tests[w])

NobodyShares ==
    \A w, x \in Worker : w # x /\ inode[w] = inode[x] => inode[w] = 0

NameIsFile ==
    \A w \in Worker :
        pc[w] \in Busy /\ Current(w) \in DOMAIN names =>
            names[Current(w)] = inode[w]

Owners == NamesAreGiven /\ NobodyShares /\ NameIsFile

Inv == /\ TypeOK
       /\ \A w \in Worker : Phase(w)
       /\ ~ Again => Owners /\ NothingIsLost /\ LoadedIsLogged

-----------------------------------------------------------------------------
(* The type invariant, in three parts.                                     *)
FilesOK ==
    /\ dir \in BOOLEAN /\ DOMAIN names \subseteq Input
    /\ content \in Seq(Seq(Event))
    /\ \A i \in DOMAIN names : names[i] \in DOMAIN content
    /\ inode \in [Worker -> 0 .. Len(content)]

TestOK ==
    /\ pc \in [Worker -> {"init", "mkdir", "ready", "exited", "impl", "stop",
                          "load", "submit"}]
    /\ tests \in [Worker -> Seq(Input)] /\ todo \in [Worker -> Seq(Event)]
    /\ trace \in [Worker -> Seq(Event)]
    /\ outcome \in [Worker -> {"none", "exited", "unloadable", "error",
                               "VALID", "INVALID"}]

ChannelOK ==
    /\ e_chan \in [Worker -> Seq(Event)]
    /\ \A w \in Worker : Len(e_chan[w]) <= Cap /\ Len(hand[w]) <= 1
    /\ closed \in [Worker -> BOOLEAN]
    /\ writer \in [Worker -> {"running", "done"}]
    /\ hand \in [Worker -> Seq(Event)]

LEMMA TypeParts == TypeOK <=> FilesOK /\ TestOK /\ ChannelOK
BY DEF TypeOK, FilesOK, TestOK, ChannelOK

LEMMA ImplType == \A i \in Input : Impl(i) \in Seq(Event)
BY DEF Impl, Event

LEMMA FilesInit == Init => FilesOK
<1>1. Len(<<>>) = 0 /\ <<>> \in Seq(Seq(Event)) /\ DOMAIN <<>> = {}
  BY EmptySeq
<1> QED BY <1>1 DEF Init, FilesOK

LEMMA FilesStep ==
    ASSUME FilesOK, ChannelOK, [Next]_vars PROVE FilesOK'
<1>1. CASE UNCHANGED <<dir, names, content, inode>>
  BY <1>1 DEF FilesOK
<1>2. ASSUME NEW w \in Worker, RemoveAll(w) \/ MkdirAll(w)
      PROVE  FilesOK'
  <2>1. DOMAIN <<>> = {}
    BY EmptySeq
  <2>2. CASE RemoveAll(w)
    <3>1. names' = <<>> /\ dir' = FALSE /\ UNCHANGED <<content, inode>>
      BY <2>2 DEF RemoveAll, logger
    <3>2. DOMAIN names' = {}
      BY <2>1, <3>1
    <3> QED BY <3>1, <3>2 DEF FilesOK
  <2>3. CASE MkdirAll(w)
    BY <2>3 DEF MkdirAll, logger, FilesOK
  <2> QED BY <1>2, <2>2, <2>3
<1>3. ASSUME NEW w \in Worker, NEW i \in Input, Start(w, i)
      PROVE  FilesOK'
  <2>1. CASE i \in DOMAIN names
    <3>1. inode' = [inode EXCEPT ![w] = names[i]]
          /\ UNCHANGED <<dir, names, content>>
      BY <1>3, <2>1 DEF Start
    <3>2. names[i] \in 0 .. Len(content)
      BY <2>1, LenProperties DEF FilesOK
    <3> QED BY <3>1, <3>2 DEF FilesOK
  <2>2. CASE i \notin DOMAIN names
    <3>1. /\ content' = Append(content, <<>>)
          /\ inode' = [inode EXCEPT ![w] = Len(content')]
          /\ names' = [j \in DOMAIN names \cup {i} |->
                         IF j = i THEN Len(content') ELSE names[j]]
          /\ UNCHANGED dir
      BY <1>3, <2>2 DEF Start
    <3>2. /\ content' \in Seq(Seq(Event)) /\ Len(content') = Len(content) + 1
          /\ DOMAIN content' = 1 .. Len(content')
          /\ Len(content) \in Nat /\ DOMAIN content = 1 .. Len(content)
      BY <3>1, EmptySeq, AppendProperties, LenProperties DEF FilesOK
    <3> QED BY <3>1, <3>2 DEF FilesOK
  <2> QED BY <2>1, <2>2
<1>4. ASSUME NEW w \in Worker, WriteString(w)
      PROVE  FilesOK'
  <2>1. ASSUME inode[w] \in DOMAIN content
        PROVE  content[inode[w]] \o hand[w] \in Seq(Event)
    BY <2>1, ConcatProperties, ElementOfSeq, LenProperties
       DEF FilesOK, ChannelOK
  <2>2. content' \in Seq(Seq(Event)) /\ Len(content') = Len(content)
        /\ DOMAIN content' = DOMAIN content
    <3>1. CASE inode[w] \in DOMAIN content
      BY <1>4, <2>1, <3>1, ExceptSeq, LenProperties
         DEF WriteString, Appended, FilesOK
    <3>2. CASE inode[w] \notin DOMAIN content
      <4>1. content \in [1 .. Len(content) -> Seq(Event)]
            /\ DOMAIN content = 1 .. Len(content)
        BY LenProperties DEF FilesOK
      <4>2. content' = [content EXCEPT ![inode[w]] = @ \o hand[w]]
        BY <1>4 DEF WriteString, Appended
      <4>3. content' = content
        BY <3>2, <4>1, <4>2
      <4> QED BY <4>3 DEF FilesOK
    <3> QED BY <3>1, <3>2
  <2> QED BY <1>4, <2>2 DEF WriteString, FilesOK
<1>5. ASSUME NEW w \in Worker, Main(w) \/ Writer(w)
      PROVE  FilesOK'
  BY <1>1, <1>2, <1>3, <1>4, <1>5
     DEF Main, Writer, StartFails, LogEvent, CloseChannel, Wait, LoadTrace,
         LoadFails, SubmitTrace, Receive, EndOfRange, disk, logger
<1> QED BY <1>1, <1>5 DEF Next, vars, disk, logger

LEMMA TestInit == Init => TestOK
<1>1. <<>> \in Seq(Input) /\ <<>> \in Seq(Event)
  BY EmptySeq
<1> QED BY <1>1 DEF Init, TestOK

LEMMA TestStep ==
    ASSUME FilesOK, TestOK, [Next]_vars PROVE TestOK'
<1> USE DEF TestOK, Goto
<1>1. CASE UNCHANGED <<test, pc>>
  BY <1>1 DEF test
<1>2. ASSUME NEW w \in Worker,
             RemoveAll(w) \/ MkdirAll(w) \/ CloseChannel(w) \/ Wait(w)
               \/ LoadFails(w) \/ SubmitTrace(w)
      PROVE  TestOK'
  BY <1>2 DEF RemoveAll, MkdirAll, CloseChannel, Wait, LoadFails, SubmitTrace,
              test
<1>3. ASSUME NEW w \in Worker, NEW i \in Input,
             Start(w, i) \/ StartFails(w, i)
      PROVE  TestOK'
  <2>1. tests' \in [Worker -> Seq(Input)]
    <3>1. tests' = [tests EXCEPT ![w] = Append(@, i)]
      BY <1>3 DEF Start, StartFails, Given
    <3>2. Append(tests[w], i) \in Seq(Input)
      BY AppendProperties
    <3> QED BY <3>1, <3>2
  <2>2. Impl(i) \in Seq(Event) /\ <<>> \in Seq(Event)
    BY ImplType, EmptySeq
  <2>3. CASE Start(w, i)
    BY <2>1, <2>2, <2>3 DEF Start
  <2>4. CASE StartFails(w, i)
    BY <2>1, <2>4 DEF StartFails
  <2> QED BY <1>3, <2>3, <2>4
<1>4. ASSUME NEW w \in Worker, LogEvent(w)
      PROVE  TestOK'
  BY <1>4, HeadTailProperties DEF LogEvent
<1>5. ASSUME NEW w \in Worker, LoadTrace(w)
      PROVE  TestOK'
  <2>1. content[names[Current(w)]] \in Seq(Event)
    BY <1>5, ElementOfSeq, LenProperties DEF LoadTrace, FilesOK
  <2> QED BY <1>5, <2>1 DEF LoadTrace
<1>6. ASSUME NEW w \in Worker, Main(w) \/ Writer(w)
      PROVE  TestOK'
  BY <1>1, <1>2, <1>3, <1>4, <1>5, <1>6
     DEF Main, Writer, Receive, WriteString, EndOfRange, test
<1> QED BY <1>1, <1>6 DEF Next, vars, test

LEMMA ChannelInit == Init => ChannelOK
<1>1. <<>> \in Seq(Event) /\ Len(<<>>) = 0
  BY EmptySeq
<1> QED BY <1>1, EventLogAssumption DEF Init, ChannelOK

LEMMA ChannelStep ==
    ASSUME TestOK, ChannelOK, [Next]_vars PROVE ChannelOK'
<1> USE DEF ChannelOK
<1>1. CASE UNCHANGED <<e_chan, closed, writer, hand>>
  BY <1>1
<1>2. ASSUME NEW w \in Worker, NEW i \in Input, Start(w, i)
      PROVE  ChannelOK'
  <2>1. <<>> \in Seq(Event) /\ Len(<<>>) = 0
    BY EmptySeq
  <2> QED BY <1>2, <2>1, EventLogAssumption DEF Start
<1>3. ASSUME NEW w \in Worker, LogEvent(w)
      PROVE  ChannelOK'
  <2>1. Head(todo[w]) \in Event
    BY <1>3, HeadTailProperties DEF LogEvent, TestOK
  <2>2. /\ Append(e_chan[w], Head(todo[w])) \in Seq(Event)
        /\ Len(Append(e_chan[w], Head(todo[w]))) = Len(e_chan[w]) + 1
        /\ Len(e_chan[w]) \in Nat
    BY <2>1, AppendProperties, LenProperties
  <2> QED BY <1>3, <2>2, EventLogAssumption DEF LogEvent, HasRoom
<1>4. ASSUME NEW w \in Worker, CloseChannel(w) \/ EndOfRange(w)
      PROVE  ChannelOK'
  BY <1>4 DEF CloseChannel, Closed, EndOfRange
<1>5. ASSUME NEW w \in Worker, Receive(w)
      PROVE  ChannelOK'
  <2>1. /\ Head(e_chan[w]) \in Event /\ Tail(e_chan[w]) \in Seq(Event)
        /\ Len(Tail(e_chan[w])) = Len(e_chan[w]) - 1
        /\ Len(e_chan[w]) \in Nat
    BY <1>5, HeadTailProperties, LenProperties DEF Receive
  <2>2. <<Head(e_chan[w])>> \in Seq(Event) /\ Len(<<Head(e_chan[w])>>) = 1
    BY <2>1
  <2> QED BY <1>5, <2>1, <2>2, EventLogAssumption DEF Receive
<1>6. ASSUME NEW w \in Worker, WriteString(w)
      PROVE  ChannelOK'
  <2>1. <<>> \in Seq(Event) /\ Len(<<>>) = 0
    BY EmptySeq
  <2> QED BY <1>6, <2>1 DEF WriteString
<1>7. ASSUME NEW w \in Worker, Main(w) \/ Writer(w)
      PROVE  ChannelOK'
  BY <1>1, <1>2, <1>3, <1>4, <1>5, <1>6, <1>7
     DEF Main, Writer, RemoveAll, MkdirAll, StartFails, Wait, LoadTrace,
         LoadFails, SubmitTrace, logger
<1> QED BY <1>1, <1>7 DEF Next, vars, logger

-----------------------------------------------------------------------------
(* What a step of one worker leaves alone.                                 *)
Step(w) == Main(w) \/ Writer(w)

Local(w) == <<inode[w], e_chan[w], closed[w], writer[w], hand[w], tests[w],
              todo[w], trace[w], outcome[w], pc[w]>>

LEMMA Bystander ==
    ASSUME TypeOK, NEW w \in Worker, NEW x \in Worker, x # w, Step(w)
    PROVE  Local(x)' = Local(x)
<1> USE DEF Local, TypeOK, Goto
<1>1. CASE \/ RemoveAll(w) \/ MkdirAll(w) \/ Wait(w) \/ LoadTrace(w)
           \/ LoadFails(w) \/ SubmitTrace(w)
  BY <1>1 DEF RemoveAll, MkdirAll, Wait, LoadTrace, LoadFails, SubmitTrace,
              disk, logger, test
<1>2. CASE LogEvent(w) \/ CloseChannel(w)
  BY <1>2 DEF LogEvent, CloseChannel, Closed, disk, test
<1>3. CASE Writer(w)
  BY <1>3 DEF Writer, Receive, WriteString, EndOfRange, disk, test
<1>4. ASSUME NEW i \in Input, Start(w, i)
      PROVE  Local(x)' = Local(x)
  BY <1>4 DEF Start, Given
<1>5. ASSUME NEW i \in Input, StartFails(w, i)
      PROVE  Local(x)' = Local(x)
  BY <1>5 DEF StartFails, Given, disk, logger
<1> QED BY <1>1, <1>2, <1>3, <1>4, <1>5 DEF Step, Main

LEMMA FilesStay ==
    ASSUME TypeOK, NEW w \in Worker, Step(w)
    PROVE  /\ Len(content) \in Nat /\ Len(content') \in Nat
           /\ Len(content') >= Len(content)
<1>1. Len(content) \in Nat /\ DOMAIN content = 1 .. Len(content)
  BY LenProperties DEF TypeOK
<1>2. CASE UNCHANGED content
  BY <1>1, <1>2
<1>3. ASSUME NEW i \in Input, Start(w, i), content' # content
      PROVE  Len(content') = Len(content) + 1
  <2>1. content' = Append(content, <<>>)
    BY <1>3 DEF Start
  <2> QED BY <2>1, EmptySeq, AppendProperties DEF TypeOK
<1>4. CASE WriteString(w)
  <2>1. content' = [content EXCEPT ![inode[w]] = @ \o hand[w]]
    BY <1>4 DEF WriteString, Appended
  <2>2. DOMAIN content' = DOMAIN content
    BY <2>1
  <2> QED BY <1>1, <2>1, <2>2
<1> QED BY <1>1, <1>2, <1>3, <1>4
        DEF Step, Main, Writer, RemoveAll, MkdirAll, StartFails, LogEvent,
            CloseChannel, Wait, LoadTrace, LoadFails, SubmitTrace, Receive,
            EndOfRange, disk

LEMMA PhaseStep ==
    ASSUME TypeOK, NEW w \in Worker, Step(w), NEW x \in Worker, Phase(x),
           TypeOK'
    PROVE  Phase(x)'
<1> USE DEF Busy, Phase
<1>1. Len(content) \in Nat /\ Len(content') \in Nat
      /\ Len(content') >= Len(content)
  BY FilesStay
<1>2. CASE x # w
  BY <1>1, <1>2, Bystander DEF Local
<1>3. CASE x = w
  <2> USE <1>3 DEF Goto, TypeOK
  <2>1. CASE \/ RemoveAll(w) \/ MkdirAll(w) \/ Wait(w) \/ LoadTrace(w)
             \/ LoadFails(w) \/ SubmitTrace(w)
    BY <2>1 DEF RemoveAll, MkdirAll, Wait, LoadTrace, LoadFails, SubmitTrace,
                WriterDone, disk, logger, test
  <2>2. CASE LogEvent(w) \/ CloseChannel(w)
    BY <2>2 DEF LogEvent, CloseChannel, Closed, disk, test
  <2>3. CASE Writer(w)
    <3>1. CASE Receive(w)
      BY <3>1 DEF Receive, disk, test
    <3>2. CASE WriteString(w)
      BY <1>1, <3>2 DEF WriteString, test
    <3>3. CASE EndOfRange(w)
      BY <3>3 DEF EndOfRange, disk, test
    <3> QED BY <2>3, <3>1, <3>2, <3>3 DEF Writer
  <2>4. ASSUME NEW i \in Input, Start(w, i)
        PROVE  Phase(x)'
    <3>1. tests'[w] # <<>>
      <4>1. tests'[w] = Append(tests[w], i)
        BY <2>4 DEF Start, Given
      <4>2. Len(tests'[w]) = Len(tests[w]) + 1 /\ Len(tests[w]) \in Nat
        BY <4>1, AppendProperties, LenProperties
      <4> QED BY <4>2, EmptySeq
    <3>2. inode'[w] \in 1 .. Len(content')
      <4>1. DOMAIN content = 1 .. Len(content)
        BY LenProperties
      <4>2. CASE i \in DOMAIN names
        BY <1>1, <2>4, <4>1, <4>2 DEF Start
      <4>3. CASE i \notin DOMAIN names
        <5>1. content' = Append(content, <<>>) /\ inode'[w] = Len(content')
          BY <2>4, <4>3 DEF Start
        <5>2. Len(content') = Len(content) + 1
          BY <5>1, EmptySeq, AppendProperties
        <5> QED BY <1>1, <5>1, <5>2
      <4> QED BY <4>2, <4>3
    <3> QED BY <2>4, <3>1, <3>2 DEF Start
  <2>5. ASSUME NEW i \in Input, StartFails(w, i)
        PROVE  Phase(x)'
    BY <2>5 DEF StartFails, Given, disk, logger
  <2> QED BY <2>1, <2>2, <2>3, <2>4, <2>5 DEF Step, Main
<1> QED BY <1>2, <1>3

-----------------------------------------------------------------------------
(* No input is run twice: a test has a new file.                           *)
LEMMA GivenStays ==
    ASSUME TypeOK, NEW w \in Worker, Step(w), NEW x \in Worker
    PROVE  Range(tests[x]) \subseteq Range(tests'[x])
<1>1. CASE UNCHANGED tests
  BY <1>1
<1>2. ASSUME NEW i \in Input, Given(w, i)
      PROVE  Range(tests[x]) \subseteq Range(tests'[x])
  <2>1. tests' = [tests EXCEPT ![w] = Append(@, i)]
    BY <1>2 DEF Given
  <2>2. CASE x # w
    BY <2>1, <2>2 DEF TypeOK
  <2>3. CASE x = w
    <3>1. tests'[x] = Append(tests[x], i)
      BY <2>1, <2>3 DEF TypeOK
    <3>2. /\ tests'[x] \in Seq(Input) /\ Len(tests[x]) \in Nat
          /\ DOMAIN tests'[x] = 1 .. Len(tests'[x])
          /\ DOMAIN tests[x] = 1 .. Len(tests[x])
          /\ Len(tests'[x]) = Len(tests[x]) + 1
          /\ \A k \in 1 .. Len(tests[x]) : tests'[x][k] = tests[x][k]
      BY <3>1, AppendProperties, LenProperties DEF TypeOK
    <3> QED BY <3>2 DEF Range
  <2> QED BY <2>2, <2>3
<1> QED BY <1>1, <1>2
        DEF Step, Main, Writer, RemoveAll, MkdirAll, Start, StartFails,
            LogEvent, CloseChannel, Wait, LoadTrace, LoadFails, SubmitTrace,
            Receive, WriteString, EndOfRange, test

LEMMA CurrentIsGiven ==
    ASSUME TypeOK, NEW w \in Worker, tests[w] # <<>>
    PROVE  Current(w) \in Range(tests[w])
<1>1. Len(tests[w]) \in Nat \ {0} /\ DOMAIN tests[w] = 1 .. Len(tests[w])
  BY EmptySeq, LenProperties DEF TypeOK
<1> QED BY <1>1 DEF Current, Range

LEMMA NewFile ==
    ASSUME TypeOK, NamesAreGiven, ~ Again,
           NEW w \in Worker, NEW i \in Input, Start(w, i)
    PROVE  /\ Len(content') = Len(content) + 1 /\ Len(content) \in Nat
           /\ \A k \in 1 .. Len(content) : content'[k] = content[k]
           /\ inode' = [inode EXCEPT ![w] = Len(content')]
           /\ content'[Len(content')] = <<>>
           /\ DOMAIN names' = DOMAIN names \cup {i} /\ i \notin DOMAIN names
           /\ names'[i] = Len(content')
           /\ \A j \in DOMAIN names : names'[j] = names[j]
           /\ Current(w)' = i /\ i \in Range(tests'[w])
           /\ \A x \in Worker : i \notin Range(tests[x])
<1>1. \A x \in Worker : i \notin Range(tests[x])
  BY DEF Start, Given
<1>2. i \notin DOMAIN names
  BY <1>1 DEF NamesAreGiven
<1>3. /\ content' = Append(content, <<>>)
      /\ inode' = [inode EXCEPT ![w] = Len(content')]
      /\ names' = [j \in DOMAIN names \cup {i} |->
                     IF j = i THEN Len(content') ELSE names[j]]
  BY <1>2 DEF Start
<1>4. /\ Len(content') = Len(content) + 1 /\ Len(content) \in Nat
      /\ \A k \in 1 .. Len(content) : content'[k] = content[k]
      /\ content'[Len(content) + 1] = <<>>
  BY <1>3, EmptySeq, AppendProperties, LenProperties DEF TypeOK
<1>5. Current(w)' = i /\ i \in Range(tests'[w])
  <2>1. tests'[w] = Append(tests[w], i)
    BY DEF Start, Given, TypeOK
  <2>2. /\ Len(tests'[w]) = Len(tests[w]) + 1 /\ Len(tests[w]) \in Nat
        /\ tests'[w][Len(tests[w]) + 1] = i
        /\ DOMAIN tests'[w] = 1 .. Len(tests'[w])
    BY <2>1, AppendProperties, LenProperties DEF TypeOK
  <2> QED BY <2>2 DEF Current, Range
<1> QED BY <1>1, <1>2, <1>3, <1>4, <1>5

(* Nobody but its own goroutine writes to the file of a test.              *)
LEMMA FileKept ==
    ASSUME TypeOK, Owners, ~ Again, NEW w \in Worker, Step(w), Phase(w),
           NEW x \in Worker, x # w, inode[x] \in 1 .. Len(content)
    PROVE  content'[inode[x]] = content[inode[x]]
<1>1. ASSUME NEW i \in Input, Start(w, i)
      PROVE  content'[inode[x]] = content[inode[x]]
  BY <1>1, NewFile DEF Owners
<1>2. CASE WriteString(w)
  <2>1. inode[w] \in 1 .. Len(content)
    BY <1>2 DEF WriteString, Phase, Busy, TypeOK
  <2>2. inode[x] # inode[w]
    BY <2>1 DEF Owners, NobodyShares
  <2>3. content' = [content EXCEPT ![inode[w]] = @ \o hand[w]]
    BY <1>2 DEF WriteString, Appended
  <2>4. DOMAIN content = 1 .. Len(content)
    BY LenProperties DEF TypeOK
  <2> QED BY <2>2, <2>3, <2>4
<1> QED BY <1>1, <1>2
        DEF Step, Main, Writer, RemoveAll, MkdirAll, StartFails, LogEvent,
            CloseChannel, Wait, LoadTrace, LoadFails, SubmitTrace, Receive,
            EndOfRange, disk

LEMMA NamesAreGivenStep ==
    ASSUME TypeOK, NamesAreGiven, ~ Again, NEW w \in Worker, Step(w)
    PROVE  NamesAreGiven'
<1>1. ASSUME NEW i \in Input, Start(w, i)
      PROVE  NamesAreGiven'
  <2>1. DOMAIN names' = DOMAIN names \cup {i} /\ i \in Range(tests'[w])
    BY <1>1, NewFile
  <2> QED BY <2>1, GivenStays DEF NamesAreGiven
<1>2. CASE RemoveAll(w)
  <2>1. DOMAIN names' = {}
    BY <1>2, EmptySeq DEF RemoveAll
  <2> QED BY <2>1 DEF NamesAreGiven
<1>3. CASE UNCHANGED names
  BY <1>3, GivenStays DEF NamesAreGiven
<1> QED BY <1>1, <1>2, <1>3
        DEF Step, Main, Writer, MkdirAll, StartFails, LogEvent, CloseChannel,
            Wait, LoadTrace, LoadFails, SubmitTrace, Receive, WriteString,
            EndOfRange, disk

LEMMA NobodySharesStep ==
    ASSUME TypeOK, NamesAreGiven, NobodyShares, ~ Again,
           NEW w \in Worker, Step(w)
    PROVE  NobodyShares'
<1>1. ASSUME NEW i \in Input, Start(w, i)
      PROVE  NobodyShares'
  <2>1. /\ Len(content') = Len(content) + 1 /\ Len(content) \in Nat
        /\ inode' = [inode EXCEPT ![w] = Len(content')]
    BY <1>1, NewFile
  <2>2. \A x \in Worker : inode[x] \in 0 .. Len(content)
    BY DEF TypeOK
  <2>3. /\ inode'[w] = Len(content')
        /\ \A x \in Worker \ {w} : inode'[x] = inode[x]
    BY <2>1 DEF TypeOK
  <2>4. \A x \in Worker \ {w} : inode'[x] # inode'[w]
    BY <2>1, <2>2, <2>3
  <2> QED BY <2>3, <2>4 DEF NobodyShares
<1>2. CASE UNCHANGED inode
  BY <1>2 DEF NobodyShares
<1> QED BY <1>1, <1>2
        DEF Step, Main, Writer, RemoveAll, MkdirAll, StartFails, LogEvent,
            CloseChannel, Wait, LoadTrace, LoadFails, SubmitTrace, Receive,
            WriteString, EndOfRange, logger

LEMMA NameIsFileStep ==
    ASSUME TypeOK, \A w \in Worker : Phase(w), Owners, ~ Again,
           NEW w \in Worker, Step(w)
    PROVE  NameIsFile'
<1> SUFFICES ASSUME NEW x \in Worker, pc'[x] \in Busy,
                    Current(x)' \in DOMAIN names'
             PROVE  names'[Current(x)'] = inode'[x]
  BY DEF NameIsFile
<1>1. ASSUME NEW i \in Input, Start(w, i)
      PROVE  names'[Current(x)'] = inode'[x]
  <2>1. CASE x = w
    <3>1. /\ inode' = [inode EXCEPT ![w] = Len(content')]
          /\ names'[i] = Len(content') /\ Current(w)' = i
      BY <1>1, NewFile DEF Owners
    <3> QED BY <2>1, <3>1 DEF TypeOK
  <2>2. CASE x # w
    <3>1. pc[x] \in Busy /\ Current(x)' = Current(x) /\ inode'[x] = inode[x]
      BY <2>2, Bystander DEF Local, Current
    <3>2. Current(x) \in Range(tests[x])
      BY <3>1, CurrentIsGiven DEF Phase
    <3>3. /\ DOMAIN names' = DOMAIN names \cup {i}
          /\ \A j \in DOMAIN names : names'[j] = names[j]
          /\ i \notin Range(tests[x])
      BY <1>1, NewFile DEF Owners
    <3>4. Current(x) \in DOMAIN names'
      BY <3>1
    <3>5. Current(x) \in DOMAIN names /\ names'[Current(x)] = names[Current(x)]
      BY <3>2, <3>3, <3>4
    <3> QED BY <3>1, <3>5 DEF Owners, NameIsFile
  <2> QED BY <2>1, <2>2
<1>2. CASE RemoveAll(w)
  BY <1>2, EmptySeq DEF RemoveAll
<1>3. ASSUME NEW i \in Input, StartFails(w, i)
      PROVE  names'[Current(x)'] = inode'[x]
  <2>1. x # w
    BY <1>3 DEF StartFails, Goto, TypeOK, Busy
  <2>2. pc[x] \in Busy /\ Current(x)' = Current(x) /\ inode'[x] = inode[x]
        /\ names' = names
    BY <1>3, <2>1, Bystander DEF Local, Current, StartFails, disk
  <2> QED BY <2>2 DEF Owners, NameIsFile
<1>4. CASE /\ UNCHANGED <<names, inode, tests>>
           /\ pc'[x] \in Busy => pc[x] \in Busy
  BY <1>4 DEF Owners, NameIsFile, Current
<1>5. CASE MkdirAll(w) \/ LoadTrace(w) \/ LoadFails(w) \/ SubmitTrace(w)
  BY <1>4, <1>5 DEF MkdirAll, LoadTrace, LoadFails, SubmitTrace, Goto, TypeOK,
                    Busy, disk, logger, test
<1>6. CASE LogEvent(w) \/ CloseChannel(w) \/ Wait(w)
  BY <1>4, <1>6 DEF LogEvent, CloseChannel, Wait, Goto, TypeOK, Busy, disk,
                    logger, test
<1>7. CASE Writer(w)
  BY <1>4, <1>7 DEF Writer, Receive, WriteString, EndOfRange, disk, test
<1> QED BY <1>1, <1>2, <1>3, <1>5, <1>6, <1>7 DEF Step, Main

-----------------------------------------------------------------------------
(* The events of a test, from its file back to impl.                       *)
Flow(w) == content[inode[w]] \o hand[w] \o e_chan[w] \o todo[w]

LEMMA FlowType ==
    ASSUME TypeOK, NEW w \in Worker, inode[w] \in 1 .. Len(content)
    PROVE  /\ content[inode[w]] \in Seq(Event) /\ hand[w] \in Seq(Event)
           /\ e_chan[w] \in Seq(Event) /\ todo[w] \in Seq(Event)
BY ElementOfSeq DEF TypeOK

LEMMA EventConcat ==
    \A s, t, u \in Seq(Event) : (s \o t) \o u = s \o (t \o u)
BY ConcatAssociative

LEMMA EventMove ==
    \A a, b \in Seq(Event) :
        b # <<>> => /\ Append(a, Head(b)) \in Seq(Event)
                    /\ Tail(b) \in Seq(Event)
                    /\ Append(a, Head(b)) \o Tail(b) = a \o b
BY MoveHead

LEMMA FlowMoves ==
    ASSUME TypeOK, NEW w \in Worker, inode[w] \in 1 .. Len(content),
           LogEvent(w) \/ Writer(w)
    PROVE  Flow(w)' = Flow(w)
<1> DEFINE f == content[inode[w]]
<1>1. /\ f \in Seq(Event) /\ hand[w] \in Seq(Event)
      /\ e_chan[w] \in Seq(Event) /\ todo[w] \in Seq(Event)
      /\ <<>> \in Seq(Event)
  BY FlowType, EmptySeq
<1> HIDE DEF f
<1>2. CASE LogEvent(w)
  <2>1. /\ todo[w] # <<>> /\ UNCHANGED <<content, inode, hand>>
        /\ e_chan'[w] = Append(e_chan[w], Head(todo[w]))
        /\ todo'[w] = Tail(todo[w])
    BY <1>2 DEF LogEvent, disk, TypeOK
  <2>2. /\ e_chan'[w] \in Seq(Event) /\ todo'[w] \in Seq(Event)
        /\ e_chan'[w] \o todo'[w] = e_chan[w] \o todo[w]
    BY <1>1, <2>1, EventMove
  <2>3. f \o hand[w] \in Seq(Event)
    BY <1>1, ConcatProperties
  <2>4. Flow(w)' = (f \o hand[w]) \o e_chan'[w] \o todo'[w]
    BY <2>1 DEF Flow, f
  <2>5. Flow(w)' = (f \o hand[w]) \o (e_chan'[w] \o todo'[w])
    BY <2>2, <2>3, <2>4, EventConcat
  <2>6. Flow(w) = (f \o hand[w]) \o (e_chan[w] \o todo[w])
    BY <1>1, <2>3, EventConcat DEF Flow, f
  <2> QED BY <2>2, <2>5, <2>6
<1>3. CASE Receive(w)
  <2>1. /\ hand[w] = <<>> /\ e_chan[w] # <<>>
        /\ UNCHANGED <<content, inode, todo>>
        /\ hand'[w] = <<Head(e_chan[w])>> /\ e_chan'[w] = Tail(e_chan[w])
    BY <1>3 DEF Receive, disk, test, TypeOK
  <2>2. hand'[w] = Append(hand[w], Head(e_chan[w]))
    BY <2>1
  <2>3. /\ hand'[w] \in Seq(Event) /\ e_chan'[w] \in Seq(Event)
        /\ hand'[w] \o e_chan'[w] = hand[w] \o e_chan[w]
    <3>1. /\ hand[w] \in Seq(Event) /\ e_chan[w] \in Seq(Event)
          /\ e_chan[w] # <<>>
      BY <1>1, <2>1
    <3> QED BY <2>1, <2>2, <3>1, EventMove
  <2>4. Flow(w)' = ((f \o hand'[w]) \o e_chan'[w]) \o todo[w]
    BY <2>1 DEF Flow, f
  <2>5. (f \o hand'[w]) \o e_chan'[w] = f \o (hand'[w] \o e_chan'[w])
    <3>1. /\ f \in Seq(Event) /\ hand'[w] \in Seq(Event)
          /\ e_chan'[w] \in Seq(Event)
      BY <1>1, <2>3
    <3> QED BY <3>1, EventConcat
  <2>6. (f \o hand[w]) \o e_chan[w] = f \o (hand[w] \o e_chan[w])
    BY <1>1, EventConcat
  <2> QED BY <2>3, <2>4, <2>5, <2>6 DEF Flow, f
<1>4. CASE WriteString(w)
  <2>1. /\ content' = [content EXCEPT ![inode[w]] = @ \o hand[w]]
        /\ hand'[w] = <<>> /\ UNCHANGED <<inode, e_chan, todo>>
    BY <1>4 DEF WriteString, Appended, test, TypeOK
  <2>2. content'[inode[w]] = f \o hand[w]
    <3>1. DOMAIN content = 1 .. Len(content)
      BY LenProperties DEF TypeOK
    <3> QED BY <2>1, <3>1 DEF f
  <2>3. (f \o hand[w]) \o <<>> = f \o hand[w]
    BY <1>1, ConcatProperties, ConcatEmptySeq
  <2>4. Flow(w)' = ((f \o hand[w]) \o <<>>) \o e_chan[w] \o todo[w]
    BY <2>1, <2>2 DEF Flow
  <2> QED BY <2>3, <2>4 DEF Flow, f
<1>5. CASE EndOfRange(w)
  BY <1>5 DEF EndOfRange, Flow, disk, test
<1> QED BY <1>2, <1>3, <1>4, <1>5 DEF Writer

LEMMA FlowStarts ==
    ASSUME TypeOK, NamesAreGiven, ~ Again, \A w \in Worker : Phase(w),
           NEW w \in Worker, NEW i \in Input, Start(w, i)
    PROVE  Flow(w)' = Impl(Current(w)')
<1>1. pc[w] = "ready"
  BY DEF Start, Given
<1>2. writer[w] = "done" /\ hand[w] = <<>>
  BY <1>1 DEF Phase, TypeOK
<1>3. content'[inode'[w]] = <<>> /\ Current(w)' = i
  <2>1. /\ inode' = [inode EXCEPT ![w] = Len(content')]
        /\ content'[Len(content')] = <<>> /\ Current(w)' = i
    BY NewFile
  <2> QED BY <2>1 DEF TypeOK
<1>4. hand'[w] = <<>> /\ e_chan'[w] = <<>> /\ todo'[w] = Impl(i)
  BY <1>2 DEF Start, TypeOK
<1>5. <<>> \o <<>> = <<>> /\ <<>> \o Impl(i) = Impl(i)
  BY ImplType, EmptySeq, ConcatEmptySeq
<1> QED BY <1>3, <1>4, <1>5 DEF Flow

LEMMA NothingIsLostStep ==
    ASSUME TypeOK, \A w \in Worker : Phase(w), Owners, NothingIsLost, ~ Again,
           NEW w \in Worker, Step(w)
    PROVE  NothingIsLost'
<1> SUFFICES ASSUME NEW x \in Worker, pc'[x] \in Busy
             PROVE  Flow(x)' = Impl(Current(x)')
  BY DEF NothingIsLost, Flow, Busy
<1>1. CASE x # w
  <2>1. /\ pc[x] \in Busy /\ Current(x)' = Current(x)
        /\ inode'[x] = inode[x] /\ hand'[x] = hand[x]
        /\ e_chan'[x] = e_chan[x] /\ todo'[x] = todo[x]
    BY <1>1, Bystander DEF Local, Current
  <2>2. content'[inode[x]] = content[inode[x]]
    BY <1>1, <2>1, FileKept DEF Phase
  <2> QED BY <2>1, <2>2 DEF NothingIsLost, Flow, Busy
<1>2. CASE x = w /\ pc[x] \in Busy
  <2>1. Flow(x) = Impl(Current(x)) /\ inode[x] \in 1 .. Len(content)
    BY <1>2 DEF NothingIsLost, Flow, Busy, Phase
  <2>2. CASE LogEvent(w) \/ Writer(w)
    <3>1. Flow(x)' = Flow(x)
      BY <1>2, <2>1, <2>2, FlowMoves
    <3>2. UNCHANGED tests
      BY <2>2 DEF LogEvent, Writer, Receive, WriteString, EndOfRange, test
    <3> QED BY <2>1, <3>1, <3>2 DEF Current
  <2>3. CASE CloseChannel(w) \/ Wait(w)
    BY <2>1, <2>3 DEF CloseChannel, Wait, Flow, Current, disk, logger, test
  <2>4. CASE \/ RemoveAll(w) \/ MkdirAll(w) \/ LoadTrace(w) \/ LoadFails(w)
             \/ SubmitTrace(w)
    BY <1>2, <2>4 DEF RemoveAll, MkdirAll, LoadTrace, LoadFails, SubmitTrace,
                      Goto, TypeOK, Busy
  <2>5. ASSUME NEW i \in Input, Start(w, i) \/ StartFails(w, i)
        PROVE  FALSE
    BY <1>2, <2>5 DEF Start, StartFails, Given, Busy
  <2> QED BY <2>2, <2>3, <2>4, <2>5 DEF Step, Main
<1>3. CASE x = w /\ pc[x] \notin Busy
  <2>1. ASSUME NEW i \in Input, Start(w, i)
        PROVE  Flow(x)' = Impl(Current(x)')
    BY <1>3, <2>1, FlowStarts DEF Owners
  <2>2. ASSUME NEW i \in Input, StartFails(w, i)
        PROVE  FALSE
    BY <1>3, <2>2 DEF StartFails, Goto, TypeOK, Busy
  <2>3. CASE RemoveAll(w) \/ MkdirAll(w) \/ SubmitTrace(w)
    BY <1>3, <2>3 DEF RemoveAll, MkdirAll, SubmitTrace, Goto, TypeOK, Busy
  <2>4. CASE LogEvent(w) \/ CloseChannel(w) \/ Wait(w) \/ LoadTrace(w)
             \/ LoadFails(w)
    BY <1>3, <2>4 DEF LogEvent, CloseChannel, Wait, LoadTrace, LoadFails, Busy
  <2>5. CASE Writer(w)
    BY <1>3, <2>5 DEF Writer, Receive, WriteString, EndOfRange, test
  <2> QED BY <2>1, <2>2, <2>3, <2>4, <2>5 DEF Step, Main
<1> QED BY <1>1, <1>2, <1>3

LEMMA LoadedIsLoggedStep ==
    ASSUME TypeOK, \A w \in Worker : Phase(w), Owners, NothingIsLost,
           LoadedIsLogged, ~ Again, NEW w \in Worker, Step(w)
    PROVE  LoadedIsLogged'
<1> SUFFICES ASSUME NEW x \in Worker, pc'[x] = "submit"
             PROVE  trace'[x] = Impl(Current(x)')
  BY DEF LoadedIsLogged
<1>1. CASE x # w
  BY <1>1, Bystander DEF Local, LoadedIsLogged, Current
<1>2. CASE x = w /\ LoadTrace(w)
  <2>1. /\ pc[w] = "load" /\ Current(w) \in DOMAIN names
        /\ trace'[w] = content[names[Current(w)]] /\ UNCHANGED tests
    BY <1>2 DEF LoadTrace, TypeOK
  <2>2. names[Current(w)] = inode[w]
    BY <2>1 DEF Owners, NameIsFile, Busy
  <2>3. hand[w] = <<>> /\ e_chan[w] = <<>> /\ todo[w] = <<>>
    BY <2>1 DEF Phase, TypeOK
  <2>4. content[inode[w]] \in Seq(Event)
    BY <2>1, FlowType DEF Phase, Busy
  <2>5. Flow(w) = content[inode[w]]
    BY <2>3, <2>4, ConcatEmptySeq DEF Flow
  <2>6. Flow(w) = Impl(Current(w))
    BY <2>1 DEF NothingIsLost, Flow
  <2> QED BY <1>2, <2>1, <2>2, <2>5, <2>6 DEF Current
<1>3. CASE x = w /\ Writer(w)
  BY <1>3 DEF LoadedIsLogged, Writer, Receive, WriteString, EndOfRange, test,
              Current
<1>4. ASSUME x = w, Main(w), ~ LoadTrace(w)
      PROVE  FALSE
  <2>1. CASE \/ RemoveAll(w) \/ MkdirAll(w) \/ CloseChannel(w) \/ Wait(w)
             \/ LoadFails(w) \/ SubmitTrace(w)
    BY <1>4, <2>1 DEF RemoveAll, MkdirAll, CloseChannel, Wait, LoadFails,
                      SubmitTrace, Goto, TypeOK
  <2>2. CASE LogEvent(w)
    BY <1>4, <2>2 DEF LogEvent
  <2>3. ASSUME NEW i \in Input, Start(w, i) \/ StartFails(w, i)
        PROVE  FALSE
    BY <1>4, <2>3 DEF Start, StartFails, Goto, TypeOK
  <2> QED BY <1>4, <2>1, <2>2, <2>3 DEF Main
<1> QED BY <1>1, <1>2, <1>3, <1>4 DEF Step

-----------------------------------------------------------------------------
LEMMA InvInit == Init => Inv
<1> SUFFICES ASSUME Init PROVE Inv
  OBVIOUS
<1>1. TypeOK
  BY FilesInit, TestInit, ChannelInit, TypeParts
<1>2. \A w \in Worker : Phase(w)
  BY DEF Init, Phase, Busy
<1>3. Owners
  BY EmptySeq DEF Init, Owners, NamesAreGiven, NobodyShares, NameIsFile, Busy
<1>4. NothingIsLost /\ LoadedIsLogged
  BY DEF Init, NothingIsLost, LoadedIsLogged
<1> QED BY <1>1, <1>2, <1>3, <1>4 DEF Inv

LEMMA InvNext == Inv /\ [Next]_vars => Inv'
<1> SUFFICES ASSUME Inv, [Next]_vars PROVE Inv'
  OBVIOUS
<1>1. TypeOK /\ TypeOK'
  <2>1. FilesOK /\ TestOK /\ ChannelOK
    BY TypeParts DEF Inv
  <2>2. FilesOK' /\ TestOK' /\ ChannelOK'
    BY <2>1, FilesStep, TestStep, ChannelStep
  <2> QED BY <2>2 DEF Inv, TypeOK, FilesOK, TestOK, ChannelOK
<1>2. CASE UNCHANGED vars
  <2>1. UNCHANGED <<dir, names, content, inode, e_chan, closed, writer, hand,
                    tests, todo, trace, outcome, pc>>
    BY <1>2 DEF vars, disk, logger, test
  <2> QED BY <1>1, <2>1 DEF Inv, Phase, Owners, NamesAreGiven, NobodyShares,
                            NameIsFile, NothingIsLost, LoadedIsLogged, Current
<1>3. ASSUME NEW w \in Worker, Step(w)
      PROVE  Inv'
  <2>1. \A x \in Worker : Phase(x)'
    BY <1>1, <1>3, PhaseStep DEF Inv
  <2>2. ASSUME ~ Again
        PROVE  Owners' /\ NothingIsLost' /\ LoadedIsLogged'
    <3>1. \A x \in Worker : Phase(x)
      BY DEF Inv
    <3>2. Owners /\ NothingIsLost /\ LoadedIsLogged
      BY <2>2 DEF Inv
    <3>3. NamesAreGiven' /\ NobodyShares'
      BY <1>1, <1>3, <2>2, <3>2, NamesAreGivenStep, NobodySharesStep DEF Owners
    <3>4. NameIsFile'
      BY <1>1, <1>3, <2>2, <3>1, <3>2, NameIsFileStep
    <3>5. NothingIsLost'
      BY <1>1, <1>3, <2>2, <3>1, <3>2, NothingIsLostStep
    <3>6. LoadedIsLogged'
      BY <1>1, <1>3, <2>2, <3>1, <3>2, LoadedIsLoggedStep
    <3> QED BY <3>3, <3>4, <3>5, <3>6 DEF Owners
  <2> QED BY <1>1, <2>1, <2>2 DEF Inv
<1> QED BY <1>2, <1>3 DEF Next, Step

(* Every variable of the harness keeps its type; in particular e_chan      *)
(* never holds more than its capacity (log.go:31).                         *)
THEOREM TypeCorrect == Spec => []TypeOK
<1>1. Inv => TypeOK
  BY DEF Inv
<1> QED BY <1>1, InvInit, InvNext, PTL DEF Spec

(* No event is lost, repeated or reordered between impl and the file,      *)
(* whatever the other workers do to the directory (log.go:50-72).          *)
THEOREM EventsAreKept == Spec => []NothingIsLost
<1>1. Inv => NothingIsLost
  BY EventLogAssumption DEF Inv, NothingIsLost
<1> QED BY <1>1, InvInit, InvNext, PTL DEF Spec

(* A test submits the whole trace of its own run (log.go:66-72,            *)
(* load.go:7-23).                                                          *)
THEOREM TraceIsWhole == Spec => []LoadedIsLogged
<1>1. Inv => LoadedIsLogged
  BY EventLogAssumption DEF Inv, LoadedIsLogged
<1> QED BY <1>1, InvInit, InvNext, PTL DEF Spec
=============================================================================

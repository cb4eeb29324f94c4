------------------------------ MODULE KlMessages ------------------------------
(***************************************************************************)
(* The messages of a network target in AFLGo: the seeds with their         *)
(* regions, the linked list kl_messages that a seed is opened into         *)
(* (klist.h, with its memory pool), the part between M2_prev and M2_next   *)
(* that every mutation replaces, the delivery over the socket and the      *)
(* seeds and crashes saved from it (AFLGo/afl-fuzz.c, AFLGo/protocol.c).   *)
(*                                                                         *)
(* One process; the handlers that rewire the list go node by node, so that *)
(* every intermediate list is a state.  What the target does is chosen     *)
(* freely: it refuses the connection, closes it at some message, shows new *)
(* coverage or crashes.                                                    *)
(***************************************************************************)
EXTENDS Protocols

CONSTANTS
    Subjects    \* what may be fuzzed: records with the fields below

(* A subject: its protocol, its seed files, the mutated buffers considered *)
(* (outputs), the number of messages the driver prepends (prefix), whether *)
(* its connections may fail (flaky), and two bounds: mutated inputs per    *)
(* opened seed (execs) and entries found (finds).                          *)
ASSUME SubjectAssumption ==
    \A o \in Subjects :
        /\ o.protocol \in Protocol
        /\ IsFiniteSet(o.seeds)
        /\ o.seeds \union o.outputs \subseteq Seq(0 .. 255) \ {<<>>}
        /\ {o.prefix, o.execs, o.finds} \subseteq Nat
        /\ o.flaky \in BOOLEAN

VARIABLES
    opt,            \* the subject of this session
    pc,             \* where the fuzzer is
    queue,          \* the entries: file, sizes of the regions, and what was
                    \* sent when the entry was found (for the properties)
    kl,             \* kl_messages
    M2_prev, M2_next,
    out_buf,        \* the mutated buffer
    todo,           \* its messages that are not in the list yet
    prev_last,      \* prev_last_message
    cur_it,         \* the next node of the old M2 to free
    messages_sent,  \* the global counter
    sent,           \* the messages of the list that reached the target
    execs           \* mutated inputs since the seed was opened

vars == <<opt, pc, queue, kl, M2_prev, M2_next, out_buf, todo, prev_last,
          cur_it, messages_sent, sent, execs>>

Null == 0

---------------------------------------------------------------------------
(* klist.h: nodes live in a heap; a freed node goes to the pool and is     *)
(* handed out again last in, first out.  live says that the node holds a   *)
(* message that is still allocated.                                        *)
Blank == [next |-> Null, data |-> <<>>, live |-> FALSE]

kl_init == [node |-> <<Blank>>, head |-> 1, tail |-> 1, pool |-> <<>>,
            size |-> 0]

(* The tail is an empty node: pushing fills it and allocates a new one. *)
kl_pushp(list, m) ==
    LET fresh == list.pool = <<>>
        p     == IF fresh THEN Len(list.node) + 1 ELSE Last(list.pool)
        heap  == IF fresh THEN Append(list.node, Blank) ELSE list.node
    IN  [list EXCEPT
            !.node = [heap EXCEPT
                        ![p].next = Null,
                        ![list.tail] = [next |-> p, data |-> m,
                                        live |-> TRUE]],
            !.tail = p,
            !.pool = IF fresh THEN @ ELSE Front(@),
            !.size = @ + 1]

kmp_free(list, p) ==
    [list EXCEPT !.node[p].live = FALSE, !.pool = Append(@, p),
                 !.size = @ - 1]

(* The nodes from a on, up to but without b. *)
Nodes(list, a, b) ==
    LET next == [p \in {Null} \union DOMAIN list.node |->
                    IF p \in {b, Null} THEN p ELSE list.node[p].next]
    IN  Chain(next, a, Len(list.node))

Messages(list, a, b) ==
    LET path == Nodes(list, a, b) IN
    [i \in 1 .. Len(path) |-> list.node[path[i]].data]

kl_messages == Messages(kl, kl.head, kl.tail)

get_last_message == Last(Nodes(kl, kl.head, kl.tail))

---------------------------------------------------------------------------
(* Files and regions. *)
SizesOf(regions) ==
    [i \in 1 .. Len(regions) |-> regions[i].end - regions[i].start + 1]

(* The file is read on from where the last message ended; what lies behind *)
(* its end stays zero.                                                     *)
Offsets(sizes) ==
    LET from[i \in 0 .. Len(sizes)] ==
            IF i = 0 THEN 0 ELSE from[i - 1] + sizes[i]
    IN  from

Cut(file, sizes) ==
    LET read(k) == IF k < Len(file) THEN file[k + 1] ELSE 0
    IN  [i \in 1 .. Len(sizes) |->
            [k \in 1 .. sizes[i] |-> read(Offsets(sizes)[i - 1] + k - 1)]]

construct_kl_messages(entry) ==
    LET messages == Cut(entry.file, entry.sizes)
        pushed[i \in 0 .. Len(messages)] ==
            IF i = 0 THEN kl_init ELSE kl_pushp(pushed[i - 1], messages[i])
    IN  pushed[Len(messages)]

MessagesIn(buf) ==
    LET regions == extract_requests(opt.protocol, buf) IN
    [i \in 1 .. Len(regions) |->
        Bytes(buf, regions[i].start, regions[i].end)]

(* A seed file read from the input directory. *)
SeedEntry(protocol, file) ==
    [file |-> file, sizes |-> SizesOf(extract_requests(protocol, file)),
     sent |-> <<>>, found |-> FALSE]

(* An entry made of the first count messages of the list. *)
FirstMessages(count) ==
    SubSeq(kl_messages, 1, IF count < Len(kl_messages) THEN count
                           ELSE Len(kl_messages))

SavedEntry ==
    LET saved == FirstMessages(messages_sent) IN
    [file |-> FlattenSeq(saved),
     sizes |-> [i \in 1 .. Len(saved) |-> Len(saved[i])],
     sent |-> sent, found |-> TRUE]

---------------------------------------------------------------------------
Init ==
    /\ opt \in Subjects
    /\ pc = "dry"
    /\ queue = [i \in 1 .. Len(SetToSeq(opt.seeds)) |->
                   SeedEntry(opt.protocol, SetToSeq(opt.seeds)[i])]
    /\ kl = kl_init /\ M2_prev = Null /\ M2_next = Null
    /\ out_buf = <<>> /\ todo = <<>> /\ prev_last = Null /\ cur_it = Null
    /\ messages_sent = 0 /\ sent = <<>> /\ execs = 0

(* Mutant: the counter is not set back before a session. *)
SendOn(msgs) ==
    {[arrived |-> k, counted |-> messages_sent + opt.prefix + k] :
        k \in 1 .. Len(msgs)}

(* Mutant: a message is counted only when it has been sent. *)
SendThenCount(msgs) ==
    {[arrived |-> k, counted |-> opt.prefix + k] : k \in 0 .. Len(msgs)}

(* Of c messages that a send was tried for, the last one may not arrive in *)
(* full; the session goes on to the next message only if it did.           *)
net_send(c) == {c - 1, c}

(* After any of n messages the answer may be an error, which ends the      *)
(* session; it ends with the last one anyway.                              *)
net_recv(n) == 1 .. n

(* What a connection makes of the messages of a session: how many reach    *)
(* the target and the new messages_sent.  The message a send breaks off at *)
(* is counted, and so are those of the prefix; a refused connection, or    *)
(* one that fails before the first message, leaves the counter as it is.   *)
send_over_network(msgs) ==
    (UNION {{[arrived |-> k, counted |-> opt.prefix + c] :
                k \in net_send(c)} : c \in net_recv(Len(msgs))})
    \union (IF opt.flaky THEN {[arrived |-> 0, counted |-> messages_sent]}
            ELSE {})

(* The dry run sends every seed; the counter is that of the last one whose *)
(* connection did not fail.                                                *)
perform_dry_run ==
    /\ pc = "dry"
    /\ \E q \in 1 .. Len(queue) :
           /\ q = Len(queue) \/ opt.flaky
           /\ \E r \in send_over_network(Cut(queue[q].file,
                                             queue[q].sizes)) :
                  messages_sent' = r.counted
    /\ pc' = "idle"
    /\ UNCHANGED <<opt, queue, kl, M2_prev, M2_next, out_buf, todo,
                   prev_last, cur_it, sent, execs>>

(* fuzz_one opens an entry and chooses the part to mutate. *)
OpenSeed ==
    /\ pc = "idle"
    /\ \E q \in 1 .. Len(queue) :
       LET total == Len(queue[q].sizes)
           list  == construct_kl_messages(queue[q])
           path  == Nodes(list, list.head, list.tail)
       IN  IF total = 0
           THEN /\ pc' = "fatal"
                /\ UNCHANGED <<kl, M2_prev, M2_next>>
           ELSE \E start \in 0 .. total - 1 :
                \E count \in {1} \union 1 .. total - start - 1 :
                    /\ pc' = "mutate"
                    /\ kl' = list
                    /\ M2_prev' = IF start = 0 THEN Null ELSE path[start]
                    /\ M2_next' = IF start + count < total
                                  THEN path[start + count + 1]
                                  ELSE list.tail
    /\ execs' = 0 /\ sent' = <<>>
    /\ UNCHANGED <<opt, queue, out_buf, todo, prev_last, cur_it,
                   messages_sent>>

(* common_fuzz_stuff begins: the mutated buffer is cut into messages. *)
Mutate ==
    /\ pc = "mutate" /\ execs < opt.execs
    /\ out_buf' \in opt.outputs
    /\ todo' = MessagesIn(out_buf')
    /\ prev_last' = get_last_message
    /\ execs' = execs + 1
    /\ pc' = "push"
    /\ UNCHANGED <<opt, queue, kl, M2_prev, M2_next, cur_it, messages_sent,
                   sent>>

(* Mutant: M2_next is left pointing to what was the tail. *)
PushOnly ==
    /\ pc = "push" /\ todo # <<>>
    /\ kl' = kl_pushp(kl, Head(todo))
    /\ todo' = Tail(todo)
    /\ UNCHANGED <<opt, pc, queue, M2_prev, M2_next, out_buf, prev_last,
                   cur_it, messages_sent, sent, execs>>

(* One message more at the end of the list.  The push turns the tail into  *)
(* a message: an M2_next that points to it moves on to the new tail.       *)
Push ==
    /\ pc = "push" /\ todo # <<>>
    /\ kl' = kl_pushp(kl, Head(todo))
    /\ M2_next' = IF kl'.node[M2_next].next = kl'.tail THEN kl'.tail
                  ELSE M2_next
    /\ todo' = Tail(todo)
    /\ UNCHANGED <<opt, pc, queue, M2_prev, out_buf, prev_last, cur_it,
                   messages_sent, sent, execs>>

(* The new messages are linked in where the old M2 was. *)
Splice ==
    /\ pc = "push" /\ todo = <<>>
    /\ LET cur_last == get_last_message
           first    == kl.node[prev_last].next
           linked   == [kl.node EXCEPT ![cur_last].next = M2_next,
                                       ![prev_last].next = kl.tail]
       IN  IF M2_prev = Null
           THEN /\ kl' = [kl EXCEPT !.head = first, !.node = linked]
                /\ cur_it' = kl.head
           ELSE /\ kl' = [kl EXCEPT !.node = [linked EXCEPT
                                                ![M2_prev].next = first]]
                /\ cur_it' = kl.node[M2_prev].next
    /\ pc' = "free"
    /\ UNCHANGED <<opt, queue, M2_prev, M2_next, out_buf, todo, prev_last,
                   messages_sent, sent, execs>>

(* Mutant: one message of the old M2 is freed, the others are forgotten. *)
FreeOne ==
    /\ pc = "free"
    /\ kl' = kmp_free(kl, cur_it)
    /\ cur_it' = Null /\ pc' = "run"
    /\ UNCHANGED <<opt, queue, M2_prev, M2_next, out_buf, todo, prev_last,
                   messages_sent, sent, execs>>

(* One message of the old M2 is freed, up to M2_next.  A link that leaves  *)
(* the list ends the fuzzer.                                               *)
FreeOld ==
    /\ pc = "free"
    /\ LET next == kl.node[cur_it].next IN
       /\ kl' = kmp_free(kl, cur_it)
       /\ cur_it' = IF next = M2_next THEN Null ELSE next
       /\ pc' = CASE next = M2_next -> "run"
                  [] next = Null    -> "crashed"
                  [] OTHER          -> "free"
    /\ UNCHANGED <<opt, queue, M2_prev, M2_next, out_buf, todo, prev_last,
                   messages_sent, sent, execs>>

Deliver(next) ==
    /\ \E r \in send_over_network(kl_messages) :
           /\ messages_sent' = r.counted
           /\ sent' = SubSeq(kl_messages, 1, r.arrived)
    /\ pc' = next
    /\ UNCHANGED <<opt, queue, kl, M2_prev, M2_next, out_buf, todo,
                   prev_last, cur_it, execs>>

run_target == pc = "run" /\ Deliver("save")

Finds == Len(queue) - Cardinality(opt.seeds)

(* save_if_interesting: nothing new, *)
NotInteresting ==
    /\ pc = "save" /\ pc' = "mutate"
    /\ UNCHANGED <<opt, queue, kl, M2_prev, M2_next, out_buf, todo,
                   prev_last, cur_it, messages_sent, sent, execs>>

(* new coverage: the messages are saved and calibrated, *)
Interesting ==
    /\ pc = "save" /\ Finds < opt.finds
    /\ queue' = Append(queue, SavedEntry)
    /\ pc' = "calibrate"
    /\ UNCHANGED <<opt, kl, M2_prev, M2_next, out_buf, todo, prev_last,
                   cur_it, messages_sent, sent, execs>>

(* The runs of the calibration send the list again; the last one counts. *)
calibrate_case == pc = "calibrate" /\ Deliver("mutate")

(* or a crash, which is saved and ends the session. *)
Crash ==
    /\ pc = "save" /\ Finds < opt.finds
    /\ queue' = Append(queue, SavedEntry)
    /\ pc' = "killed"
    /\ UNCHANGED <<opt, kl, M2_prev, M2_next, out_buf, todo, prev_last,
                   cur_it, messages_sent, sent, execs>>

(* The end of fuzz_one. *)
delete_kl_messages ==
    /\ pc = "mutate"
    /\ pc' = "idle"
    /\ kl' = kl_init /\ M2_prev' = Null /\ M2_next' = Null
    /\ out_buf' = <<>> /\ prev_last' = Null /\ sent' = <<>>
    /\ UNCHANGED <<opt, queue, todo, cur_it, messages_sent, execs>>

Stopped ==
    /\ pc \in {"killed", "fatal", "crashed"}
    /\ UNCHANGED vars

Next ==
    \/ perform_dry_run \/ OpenSeed \/ Mutate \/ Push \/ Splice \/ FreeOld
    \/ run_target \/ NotInteresting \/ Interesting \/ calibrate_case
    \/ Crash \/ delete_kl_messages \/ Stopped

Spec == Init /\ [][Next]_vars

---------------------------------------------------------------------------
(* What the list means: while new messages are pushed they hang behind the *)
(* old list, from the splice on they are the middle of it.                 *)
listEnd == IF pc = "push" THEN kl.node[prev_last].next ELSE kl.tail

m2Start == IF M2_prev = Null THEN kl.head ELSE kl.node[M2_prev].next

m2End == IF M2_next = kl.tail THEN listEnd ELSE M2_next

opened == pc \notin {"dry", "idle", "fatal"}

List == INSTANCE MessageList WITH
    m1 <- IF opened THEN Messages(kl, kl.head, m2Start) ELSE <<>>,
    m2 <- IF opened THEN Messages(kl, m2Start, m2End) ELSE <<>>,
    m3 <- IF opened /\ M2_next # kl.tail
          THEN Messages(kl, M2_next, listEnd) ELSE <<>>,
    sent <- IF pc \in {"save", "calibrate", "killed", "mutate"}
            THEN sent ELSE <<>>

(* A mutation replaces the part between M2_prev and M2_next and nothing    *)
(* else, and what is sent is the session from its first message on: the    *)
(* list implements MessageList (common_fuzz_stuff, send_over_network).     *)
ListRefined == List!Spec

---------------------------------------------------------------------------
TypeOK ==
    /\ opt \in Subjects
    /\ pc \in {"dry", "idle", "mutate", "push", "free", "run", "save",
               "calibrate", "killed", "fatal", "crashed"}
    /\ Finds \in 0 .. opt.finds
    /\ kl.size \in Nat /\ messages_sent \in Nat /\ execs \in 0 .. opt.execs
    /\ {kl.head, kl.tail} \subseteq 1 .. Len(kl.node)
    /\ {M2_prev, M2_next, prev_last, cur_it} \subseteq 0 .. Len(kl.node)

(* The nodes of the list hold messages that are still allocated, no node   *)
(* is met twice, and neither they nor the tail are in the pool, whatever   *)
(* was freed and handed out again; the ends of the mutated part are on the *)
(* way (klist.h, common_fuzz_stuff).                                       *)
NothingFreedIsReached ==
    LET path == Nodes(kl, kl.head, kl.tail) \o <<kl.tail>>
        used == {path[i] : i \in 1 .. Len(path)}
        pool == {kl.pool[i] : i \in 1 .. Len(kl.pool)}
    IN  /\ Cardinality(used) = Len(path)
        /\ used \cap pool = {}
        /\ Cardinality(pool) = Len(kl.pool)
        /\ \A i \in 1 .. Len(path) - 1 :
               /\ kl.node[path[i]].live
               /\ kl.node[path[i]].next = path[i + 1]
        /\ pc \in {"mutate", "push", "free", "run", "save", "calibrate"} =>
               {M2_prev, M2_next} \subseteq used \union {Null}

(* Every message that is still allocated is on the list, or waits for the  *)
(* loop that frees the old middle part; size counts them (the loop at the  *)
(* end of the list update).                                                *)
NoMessageLeaks ==
    LET live == {n \in 1 .. Len(kl.node) : kl.node[n].live}
        path == Nodes(kl, kl.head, kl.tail)
        old  == IF pc = "free" THEN Nodes(kl, cur_it, M2_next) ELSE <<>>
    IN  /\ live = {path[i] : i \in 1 .. Len(path)}
                    \union {old[i] : i \in 1 .. Len(old)}
        /\ kl.size = Cardinality(live)

(* Both: the pool never hands out a message that is reached, and gets back *)
(* all that are not.                                                       *)
MemoryIsSound == NothingFreedIsReached /\ NoMessageLeaks

(* The mutated part is the mutated buffer, byte for byte.  Two things are  *)
(* lost or won at its end: a single byte behind the last message is not    *)
(* sent, and the last message of a dns buffer may reach three bytes        *)
(* further than the buffer (extract_requests).                           *)
SessionIsBuffer ==
    pc \in {"free", "run", "save", "calibrate"} =>
        LET bytes == FlattenSeq(Messages(kl, m2Start, M2_next))
            n     == Len(out_buf)
        IN  \/ bytes = out_buf
            \/ opt.protocol \notin {"dicom", "dtls12"}
               /\ bytes = Front(out_buf)
            \/ opt.protocol = "dns"
               /\ IsPrefix(out_buf, bytes) /\ Len(bytes) <= n + 3

(* A saved session is what the target was sent, but for the one message    *)
(* the connection broke off at.  This needs a subject without a prefix     *)
(* (messages_sent counts the messages of the prefix too) and connections   *)
(* that do not fail (save_kl_messages_to_file, messages_sent).             *)
SavedWasSent ==
    opt.prefix = 0 /\ ~opt.flaky =>
        \A i \in 1 .. Len(queue) :
            queue[i].found =>
                LET saved == Cut(queue[i].file, queue[i].sizes) IN
                /\ IsPrefix(queue[i].sent, saved)
                /\ Len(saved) <= Len(queue[i].sent) + 1

(* An entry can be opened again: it has a message, none of them is empty   *)
(* and its regions are its file.  A connection that fails before the first *)
(* message leaves a count of zero and an entry the fuzzer ends at, so this *)
(* is about connections that do not fail (convert_kl_messages_to_regions,  *)
(* fuzz_one).                                                              *)
SavedCanBeOpened ==
    ~opt.flaky =>
        /\ pc # "fatal"
        /\ \A i \in 1 .. Len(queue) :
               LET e == queue[i] IN
               /\ e.sizes # <<>>
               /\ \A k \in 1 .. Len(e.sizes) : e.sizes[k] > 0
               /\ e.found => Len(e.file) = Offsets(e.sizes)[Len(e.sizes)]

=============================================================================

---------------------------- MODULE SyncFuzzers ----------------------------
(***************************************************************************)
(* A fuzzer that imports from the queue/ of another one (-M, -S): the      *)
(* directory of module OutDir, and the rounds of sync_fuzzers that scan it *)
(* while its owner fuzzes, is killed, resumes in place or starts afresh.   *)
(*                                                                         *)
(* readdir returns what was there when the directory was opened and has    *)
(* not been removed; what was made or removed later it may return or not.  *)
(* It stays with the directory it has opened when that is renamed, while   *)
(* the path of an entry leads to what is queue/ by then.                   *)
(***************************************************************************)
EXTENDS OutDir

CONSTANT MaxRounds  \* bound: rounds of sync_fuzzers

ASSUME RoundsAssumption == MaxRounds \in Nat

VARIABLES
    min_accept,         \* what .synced/<id> holds
    next_min_accept,    \* what the end of the round will store there
    syncing,            \* a round is under way
    names,              \* the ids readdir may return in it
    returned,           \* ... and those it has returned
    opened,             \* what was whole when it began: id -> case
    left,               \* the ids that have left that queue/ since
    tried,              \* how often each case was run and judged
    rounds, stopped     \* rounds so far, and those that were broken off

round == <<next_min_accept, names, returned, opened, left>>
vars  == <<dirvars, min_accept, syncing, round, tried, rounds, stopped>>

SyncInit ==
    /\ Init
    /\ min_accept = 0 /\ next_min_accept = 0 /\ syncing = FALSE
    /\ names = {} /\ returned = {} /\ opened = <<>> /\ left = {}
    /\ tried = [c \in 1 .. MaxCases |-> 0]
    /\ rounds = 0 /\ stopped = 0

SyncBegin ==
    /\ ~syncing /\ rounds < MaxRounds /\ queue.exists
    /\ syncing' = TRUE /\ rounds' = rounds + 1
    /\ next_min_accept' = min_accept
    /\ names' = DOMAIN queue.ent /\ returned' = {} /\ left' = {}
    /\ opened' = [id \in Whole(queue) |-> queue.ent[id]]
    /\ UNCHANGED <<dirvars, min_accept, tried, stopped>>

(* What a round knows ends with it.                                        *)
Forget ==
    /\ syncing' = FALSE
    /\ next_min_accept' = 0 /\ names' = {} /\ returned' = {}
    /\ opened' = <<>> /\ left' = {}

AsksFor(id) == id >= min_accept

(* Mutant: the id itself is stored, not the one after it. *)
LastSeen(id) == IF id >= next_min_accept THEN id ELSE next_min_accept

Beyond(id) == IF id >= next_min_accept THEN id + 1 ELSE next_min_accept

(* One name: what its path leads to now is run and judged, unless it is    *)
(* missing or has no content yet.                                          *)
SyncEntry(id) ==
    /\ syncing /\ id \in names \ returned
    /\ returned' = returned \union {id}
    /\ next_min_accept' = IF AsksFor(id) THEN Beyond(id) ELSE next_min_accept
    /\ tried' = IF AsksFor(id) /\ id \in Whole(queue)
                THEN [tried EXCEPT ![queue.ent[id]] = @ + 1] ELSE tried
    /\ UNCHANGED <<dirvars, min_accept, syncing, names, opened, left, rounds,
                   stopped>>

(* Mutant: the round's minimum is stored on the way out. *)
StoredAnyway == next_min_accept

KeptOnStop == min_accept

(* The fuzzer is stopped while it runs a case, or killed.                  *)
SyncStop ==
    /\ syncing
    /\ Forget /\ stopped' = stopped + 1
    /\ min_accept' = KeptOnStop
    /\ UNCHANGED <<dirvars, tried, rounds>>

(* All that readdir must return was returned.                              *)
AllReturned == DOMAIN opened \ left \subseteq returned

SyncStore ==
    /\ syncing /\ AllReturned
    /\ Forget
    /\ min_accept' = next_min_accept
    /\ UNCHANGED <<dirvars, tried, rounds, stopped>>

(* All ids have left once the directory is renamed or removed.             *)
Everything == 0 .. MaxCases

(* The other fuzzer goes on.                                               *)
OtherStep ==
    /\ DirNext
    /\ IF syncing
       THEN /\ left' = IF queue'.exists
                       THEN left \union (DOMAIN queue.ent \ DOMAIN queue'.ent)
                       ELSE Everything
            /\ names' = IF left' = Everything THEN names
                        ELSE names \union DOMAIN queue'.ent
       ELSE UNCHANGED <<left, names>>
    /\ UNCHANGED <<min_accept, syncing, next_min_accept, returned, opened,
                   tried, rounds, stopped>>

Next ==
    \/ SyncBegin \/ SyncStop \/ SyncStore
    \/ \E id \in names : SyncEntry(id)
    \/ OtherStep

SyncSpec == SyncInit /\ [][Next]_vars

---------------------------------------------------------------------------
SyncTypeOK ==
    /\ DirTypeOK
    /\ {min_accept, next_min_accept} \subseteq 0 .. MaxCases
    /\ syncing \in BOOLEAN /\ left \subseteq 0 .. MaxCases
    /\ returned \subseteq names /\ names \subseteq 0 .. MaxCases - 1
    /\ stopped \in 0 .. rounds /\ rounds \in 0 .. MaxRounds
    /\ tried \in [1 .. MaxCases -> Nat]

(* No round passes over a case: when it stores its minimum, every case     *)
(* that was whole in the other's queue/ when the round began, was not      *)
(* below the old minimum, and has stayed there since, has been run.        *)
SyncTriesAll ==
    [][min_accept' # min_accept =>
          \A id \in DOMAIN opened \ left :
              id >= min_accept => tried[opened[id]] > 0]_vars

(* The stored minimum does its work across the other's resumes, which      *)
(* number the cases again: a case is run a second time only if a round was *)
(* broken off.  A session that was killed while it deleted entries makes   *)
(* the next resume give the others new numbers, and is excepted.           *)
TriedOnce == torn = {} => \A c \in 1 .. MaxCases : tried[c] <= 1 + stopped

=============================================================================

----------------------------- MODULE MessageList -----------------------------
(***************************************************************************)
(* What the list of messages promises to the rest of AFLGo when a network  *)
(* target is fuzzed: a session is a prefix m1, the part m2 that is mutated *)
(* and a suffix m3.  Mutation replaces m2 and nothing else, and the target *)
(* is sent the messages of the session in their order from the first one   *)
(* on.  KlMessages implements it with a linked list and a memory pool.     *)
(***************************************************************************)
EXTENDS Naturals, Sequences

VARIABLES m1, m2, m3, sent

vars == <<m1, m2, m3, sent>>

session == m1 \o m2 \o m3

Init == m1 = <<>> /\ m2 = <<>> /\ m3 = <<>> /\ sent = <<>>

(* A seed is opened: some part of it, not empty, is chosen for mutation. *)
Open ==
    /\ session = <<>>
    /\ m2' # <<>>
    /\ sent' = <<>>

(* The mutated part is replaced; what was sent before is forgotten. *)
Replace ==
    /\ m2 # <<>> /\ m2' # <<>>
    /\ sent' = <<>>
    /\ UNCHANGED <<m1, m3>>

(* The first messages of the session reach the target. *)
Send ==
    /\ session # <<>>
    /\ \E k \in 0 .. Len(session) : sent' = SubSeq(session, 1, k)
    /\ UNCHANGED <<m1, m2, m3>>

Close == m1' = <<>> /\ m2' = <<>> /\ m3' = <<>> /\ sent' = <<>>

Next == Open \/ Replace \/ Send \/ Close

Spec == Init /\ [][Next]_vars

=============================================================================

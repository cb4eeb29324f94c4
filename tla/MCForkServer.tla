---------------------------- MODULE MCForkServer ----------------------------
(* A run forks at most one child, so there are as many identifiers as runs. *)
EXTENDS ForkServer

Pids == 1 .. MaxRuns

With(per, no, net, kill) ==
    [persistent |-> per, no_forkserver |-> no, use_net |-> net,
     terminate_child |-> kill]

(* In these a network target that was killed stays a zombie while          *)
(* send_over_network polls it, see fork_linger.                            *)
Lingering ==
    {With(FALSE, TRUE, TRUE, kill) : kill \in BOOLEAN}
      \cup {With(TRUE, FALSE, TRUE, kill) : kill \in BOOLEAN}

(* -K is about network targets, persistent mode about the fork server.     *)
Usual == {With(FALSE, TRUE, FALSE, FALSE), With(TRUE, FALSE, FALSE, FALSE)}
           \cup {With(FALSE, FALSE, net, kill) : net, kill \in BOOLEAN}
Plain == {With(FALSE, FALSE, FALSE, FALSE)}
=============================================================================

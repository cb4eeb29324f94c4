----------------------------- MODULE ForkServer -----------------------------
(***************************************************************************)
(* One run of the target: run_target of afl-fuzz asks the fork server, a   *)
(* loop that the instrumentation runs inside the target, for a child, and  *)
(* reads back its process id and its status through a pipe.  A timer and a *)
(* user's signal kill the child at any moment.  In persistent mode a child *)
(* stops itself after an input and is continued for the next one.          *)
(***************************************************************************)
EXTENDS Integers, Sequences

CONSTANTS Pid,              \* process identifiers of children
          Options,          \* how afl-fuzz may be started, see Option
          max_cnt,          \* argument of __AFL_LOOP
          MaxRuns           \* bound: calls of run_target

Option ==
    [persistent      : BOOLEAN,    \* target built with __AFL_LOOP
     no_forkserver   : BOOLEAN,    \* AFL_NO_FORKSRV, or dumb mode
     use_net         : BOOLEAN,    \* the target is a server, -N
     terminate_child : BOOLEAN]    \* -K

ASSUME ForkServerAssumption ==
    /\ Pid \subseteq Nat \ {0} /\ Options \subseteq Option
    /\ max_cnt \in Nat \ {0} /\ MaxRuns \in Nat

VARIABLES
    opt,                              \* the option of this behaviour
    pc,                               \* of run_target and its callers
    child_pid, child_timed_out, prev_timed_out, stop_soon,
    timer,                            \* is ITIMER_REAL armed
    status, fault,                    \* of the last run
    runs,                             \* number of calls so far
    ctl, st,                          \* the two pipes
    srv,                              \* the fork server's place in its loop
    srv_pid, child_stopped,           \* its child_pid, and is that stopped
    srv_status,
    proc,                             \* the children, as the kernel sees them
    cycle_cnt,                        \* of each child
    term,                             \* children with a pending SIGTERM
    really                            \* ghost: what the child did in this run

afl    == <<child_pid, prev_timed_out, status, fault, runs>>
flags  == <<child_timed_out, stop_soon, timer>>
pipes  == <<ctl, st>>
server == <<srv, srv_pid, child_stopped, srv_status>>
kernel == <<proc, cycle_cnt, term, really>>
vars   == <<opt, pc, afl, flags, pipes, server, kernel>>

persistent      == opt.persistent
no_forkserver   == opt.no_forkserver
use_net         == opt.use_net
terminate_child == opt.terminate_child

Death    == {"exit", "SEGV", "TERM", "KILL"}
Status   == Death \cup {"stopped"}
Alive(p)  == proc[p] \in {"running", "stopped"}
Exists(p) == proc[p] \notin {"none", "gone"}     \* kill(p, 0) succeeds
Gone == pc \in {"fatal", "exited"}               \* afl-fuzz has ended
Msg(t, v) == [tag |-> t, val |-> v]
Goto(l)   == pc' = l

Init ==
    /\ opt \in Options
    /\ pc = IF no_forkserver THEN "idle" ELSE "init"
    /\ srv = IF no_forkserver THEN "dead" ELSE "hello"
    /\ timer = ~ no_forkserver
    /\ child_pid = -1 /\ child_timed_out = FALSE /\ prev_timed_out = FALSE
    /\ stop_soon = FALSE /\ status = "exit" /\ fault = "none" /\ runs = 0
    /\ ctl = <<>> /\ st = <<>>
    /\ srv_pid = 0 /\ child_stopped = FALSE /\ srv_status = "exit"
    /\ proc = [p \in Pid |-> "none"] /\ cycle_cnt = [p \in Pid |-> 0]
    /\ term = {} /\ really = "nothing"

-----------------------------------------------------------------------------
(* Children.  Nothing makes a child finish.                                *)
NewChild(p) ==
    /\ proc[p] = "none"
    /\ proc' = [proc EXCEPT ![p] = "running"]
    /\ cycle_cnt' = [cycle_cnt EXCEPT ![p] = max_cnt]
    /\ UNCHANGED <<term, really>>

(* The input is done: __afl_persistent_loop, or the end of main.           *)
Complete(p) ==
    /\ proc[p] = "running"
    /\ IF persistent /\ cycle_cnt[p] > 1
         THEN proc' = [proc EXCEPT ![p] = "stopped"]
         ELSE proc' = [proc EXCEPT ![p] = "exit"]
    /\ cycle_cnt' = [cycle_cnt EXCEPT ![p] = @ - 1]
    /\ really' = "done"
    /\ UNCHANGED <<pc, afl, flags, pipes, server, term>>

Crash(p) ==
    /\ proc[p] = "running"
    /\ proc' = [proc EXCEPT ![p] = "SEGV"]
    /\ really' = "crashed"
    /\ UNCHANGED <<pc, afl, flags, pipes, server, cycle_cnt, term>>

Terminate(p) ==
    /\ proc[p] = "running" /\ p \in term
    /\ proc' = [proc EXCEPT ![p] = "TERM"]
    /\ really' = "terminated"
    /\ UNCHANGED <<pc, afl, flags, pipes, server, cycle_cnt, term>>

(* The children of a dead fork server are init's.                          *)
InitReaps(p) ==
    /\ ~ no_forkserver /\ srv = "dead" /\ proc[p] \in Death
    /\ proc' = [proc EXCEPT ![p] = "gone"]
    /\ UNCHANGED <<pc, afl, flags, pipes, server, cycle_cnt, term, really>>

Killed(p) == [q \in Pid |-> IF q = p /\ Alive(q) THEN "KILL" ELSE proc[q]]

-----------------------------------------------------------------------------
(* __afl_start_forkserver.                                                 *)
Hello ==
    /\ srv = "hello" /\ ~ Gone
    /\ st' = Append(st, Msg("hello", 0)) /\ srv' = "wait"
    /\ UNCHANGED <<pc, afl, flags, ctl, srv_pid, child_stopped, srv_status,
                   kernel>>

(* Mutant: a stopped child is always taken to be alive.                    *)
NeverKilled(was_killed) == FALSE

MustReap(was_killed) == child_stopped /\ was_killed

ReadRequest ==
    /\ srv = "wait" /\ ctl # <<>>
    /\ ctl' = Tail(ctl)
    /\ srv' = IF MustReap(Head(ctl)) THEN "reap" ELSE "fork"
    /\ UNCHANGED <<pc, afl, flags, st, srv_pid, child_stopped, srv_status,
                   kernel>>

(* Mutant: the status of the process written off is relayed as well.       *)
ReapTells ==
    /\ srv = "reap" /\ proc[srv_pid] \in Death
    /\ proc' = [proc EXCEPT ![srv_pid] = "gone"]
    /\ st' = Append(st, Msg("status", proc[srv_pid]))
    /\ child_stopped' = FALSE /\ srv' = "fork"
    /\ UNCHANGED <<pc, afl, flags, ctl, srv_pid, srv_status,
                   cycle_cnt, term, really>>

ReapKilled ==
    /\ srv = "reap" /\ proc[srv_pid] \in Death
    /\ proc' = [proc EXCEPT ![srv_pid] = "gone"]
    /\ child_stopped' = FALSE /\ srv' = "fork"
    /\ UNCHANGED <<pc, afl, flags, pipes, srv_pid, srv_status,
                   cycle_cnt, term, really>>

(* Mutant: the server forgets that it has a stopped child.                 *)
AlwaysFork == TRUE

MustFork == ~ child_stopped

Fork(p) ==
    /\ srv = "fork" /\ MustFork
    /\ NewChild(p)
    /\ srv_pid' = p /\ srv' = "tell"
    /\ UNCHANGED <<pc, afl, flags, pipes, child_stopped, srv_status>>

Continue ==
    /\ srv = "fork" /\ ~ MustFork
    /\ proc' = [p \in Pid |-> IF p = srv_pid /\ proc[p] = "stopped"
                                THEN "running" ELSE proc[p]]
    /\ child_stopped' = FALSE /\ srv' = "tell"
    /\ UNCHANGED <<pc, afl, flags, pipes, srv_pid, srv_status,
                   cycle_cnt, term, really>>

TellPid ==
    /\ srv = "tell" /\ ~ Gone
    /\ st' = Append(st, Msg("pid", srv_pid)) /\ srv' = "waitpid"
    /\ UNCHANGED <<pc, afl, flags, ctl, srv_pid, child_stopped, srv_status,
                   kernel>>

ReportsStop == persistent /\ proc[srv_pid] = "stopped"

WaitChild ==
    /\ srv = "waitpid" /\ srv' = "relay"
    /\ srv_status' = proc[srv_pid]
    /\ \/ /\ proc[srv_pid] \in Death
          /\ proc' = [proc EXCEPT ![srv_pid] = "gone"]
          /\ UNCHANGED child_stopped
       \/ /\ ReportsStop
          /\ child_stopped' = TRUE
          /\ UNCHANGED proc
    /\ UNCHANGED <<pc, afl, flags, pipes, srv_pid, cycle_cnt, term, really>>

RelayStatus ==
    /\ srv = "relay" /\ ~ Gone
    /\ st' = Append(st, Msg("status", srv_status)) /\ srv' = "wait"
    /\ UNCHANGED <<pc, afl, flags, ctl, srv_pid, child_stopped, srv_status,
                   kernel>>

(* _exit(1): the pipes are closed, or there are no more processes.         *)
ServerExits ==
    /\ \/ Gone /\ srv \in {"tell", "relay"}
       \/ Gone /\ srv = "wait" /\ ctl = <<>>
       \/ srv = "fork" /\ MustFork
    /\ srv' = "dead"
    /\ UNCHANGED <<pc, afl, flags, pipes, srv_pid, child_stopped, srv_status,
                   kernel>>

-----------------------------------------------------------------------------
(* init_forkserver.                                                        *)
ReadHello ==
    /\ pc = "init" /\ st # <<>>
    /\ st' = Tail(st)
    /\ Goto("up")
    /\ UNCHANGED <<afl, flags, ctl, server, kernel>>

HandshakeFails ==
    /\ pc = "init" /\ st = <<>> /\ srv = "dead"
    /\ Goto("fatal")
    /\ UNCHANGED <<afl, flags, pipes, server, kernel>>

ServerIsUp ==
    /\ pc = "up"
    /\ timer' = FALSE
    /\ Goto("idle")
    /\ UNCHANGED <<afl, child_timed_out, stop_soon, pipes, server, kernel>>

(* run_target.                                                             *)
RunTarget ==
    /\ pc = "idle" /\ runs < MaxRuns
    /\ runs' = runs + 1 /\ child_timed_out' = FALSE /\ really' = "nothing"
    /\ Goto("request")
    /\ UNCHANGED <<child_pid, prev_timed_out, status, fault, stop_soon, timer,
                   pipes, server, proc, cycle_cnt, term>>

ForkDirectly(p) ==
    /\ pc = "request" /\ no_forkserver
    /\ NewChild(p)
    /\ child_pid' = p
    /\ Goto("arm")
    /\ UNCHANGED <<prev_timed_out, status, fault, runs, flags, pipes, server>>

WriteRequest ==
    /\ pc = "request" /\ ~ no_forkserver /\ srv # "dead"
    /\ ctl' = Append(ctl, prev_timed_out)
    /\ Goto("pid")
    /\ UNCHANGED <<afl, flags, st, server, kernel>>

(* A write or read fails: stop_soon explains it, or it is fatal.           *)
NoServer ==
    /\ ~ no_forkserver /\ srv = "dead"
    /\ \/ pc = "request"
       \/ pc \in {"pid", "wait"} /\ st = <<>>
    /\ Goto(IF stop_soon THEN "leaving" ELSE "fatal")
    /\ UNCHANGED <<afl, flags, pipes, server, kernel>>

ReadPid ==
    /\ pc = "pid" /\ st # <<>>
    /\ child_pid' = Head(st).val /\ st' = Tail(st)
    /\ Goto("arm")
    /\ UNCHANGED <<prev_timed_out, status, fault, runs, flags, ctl, server,
                   kernel>>

(* Mutant: no timer.                                                       *)
NoTimer ==
    /\ pc = "arm"
    /\ Goto(IF use_net THEN "net" ELSE "wait")
    /\ UNCHANGED <<afl, flags, pipes, server, kernel>>

ArmTimer ==
    /\ pc = "arm"
    /\ timer' = TRUE
    /\ Goto(IF use_net THEN "net" ELSE "wait")
    /\ UNCHANGED <<afl, child_timed_out, stop_soon, pipes, server, kernel>>

(* send_over_network: cannot connect, or does not wait (-F).               *)
SendReturns ==
    /\ pc = "net"
    /\ Goto("wait")
    /\ UNCHANGED <<afl, flags, pipes, server, kernel>>

SendDone ==
    /\ pc = "net"
    /\ term' = IF terminate_child /\ Alive(child_pid)
                 THEN term \cup {child_pid} ELSE term
    /\ Goto("linger")
    /\ UNCHANGED <<afl, flags, pipes, server, proc, cycle_cnt, really>>

(* ... and then polls until there is no such process.                      *)
LingerEnds ==
    /\ pc = "linger" /\ ~ Exists(child_pid)
    /\ Goto("wait")
    /\ UNCHANGED <<afl, flags, pipes, server, kernel>>

WaitDirectly ==
    /\ pc = "wait" /\ no_forkserver /\ proc[child_pid] \in Death
    /\ status' = proc[child_pid]
    /\ proc' = [proc EXCEPT ![child_pid] = "gone"]
    /\ Goto("clear")
    /\ UNCHANGED <<child_pid, prev_timed_out, fault, runs, flags, pipes,
                   server, cycle_cnt, term, really>>

ReadStatus ==
    /\ pc = "wait" /\ ~ no_forkserver /\ st # <<>>
    /\ status' = Head(st).val /\ st' = Tail(st)
    /\ Goto("clear")
    /\ UNCHANGED <<child_pid, prev_timed_out, fault, runs, flags, ctl, server,
                   kernel>>

ClearPid ==
    /\ pc = "clear"
    /\ child_pid' = IF status = "stopped" THEN child_pid ELSE 0
    /\ Goto("disarm")
    /\ UNCHANGED <<prev_timed_out, status, fault, runs, flags, pipes, server,
                   kernel>>

DisarmTimer ==
    /\ pc = "disarm"
    /\ timer' = FALSE
    /\ Goto("report")
    /\ UNCHANGED <<afl, child_timed_out, stop_soon, pipes, server, kernel>>

TimedOut == child_timed_out

Fault ==
    IF status \notin {"SEGV", "KILL"} \/ stop_soon THEN "none"
    ELSE IF child_timed_out /\ status = "KILL" THEN "timeout"
    ELSE "crash"

Report ==
    /\ pc = "report"
    /\ prev_timed_out' = TimedOut /\ fault' = Fault
    /\ Goto(IF stop_soon THEN "leaving" ELSE "idle")
    /\ UNCHANGED <<child_pid, status, runs, flags, pipes, server, kernel>>

-----------------------------------------------------------------------------
(* handle_timeout.                                                         *)
Timeout ==
    /\ timer /\ ~ Gone
    /\ timer' = FALSE
    /\ \/ /\ child_pid > 0
          /\ child_timed_out' = TRUE /\ proc' = Killed(child_pid)
          /\ UNCHANGED srv
       \/ /\ child_pid = -1 /\ ~ no_forkserver
          /\ child_timed_out' = TRUE /\ srv' = "dead"
          /\ UNCHANGED proc
       \/ /\ child_pid = 0 \/ (child_pid = -1 /\ no_forkserver)
          /\ UNCHANGED <<child_timed_out, srv, proc>>
    /\ UNCHANGED <<pc, afl, stop_soon, pipes, srv_pid, child_stopped,
                   srv_status, cycle_cnt, term, really>>

KillBoth ==
    /\ proc' = IF child_pid > 0 THEN Killed(child_pid) ELSE proc
    /\ srv' = "dead"
    /\ UNCHANGED <<srv_pid, child_stopped, srv_status, cycle_cnt, term,
                   really>>

(* handle_stop_sig.                                                        *)
StopSignal ==
    /\ ~ stop_soon /\ ~ Gone
    /\ stop_soon' = TRUE
    /\ KillBoth
    /\ UNCHANGED <<pc, afl, child_timed_out, timer, pipes>>

(* The end of main, after a signal or because of exit_1 (stop_soon = 2).   *)
Leave ==
    /\ \/ pc = "leaving"
       \/ pc = "idle" /\ stop_soon
    /\ timer' = FALSE
    /\ Goto("exited")
    /\ UNCHANGED <<afl, child_timed_out, stop_soon, pipes, server, kernel>>

LeaveByItself ==
    /\ pc = "idle" /\ ~ stop_soon
    /\ KillBoth
    /\ Goto("exited")
    /\ UNCHANGED <<afl, flags, pipes>>

Server ==
    /\ UNCHANGED opt
    /\ \/ Hello \/ ReadRequest \/ ReapKilled \/ \E p \in Pid : Fork(p)
       \/ Continue \/ TellPid \/ WaitChild \/ RelayStatus

Run ==
    /\ UNCHANGED opt
    /\ \/ WriteRequest \/ NoServer \/ ReadPid \/ ArmTimer
       \/ SendReturns \/ SendDone \/ LingerEnds \/ WaitDirectly
       \/ ReadStatus \/ ClearPid \/ DisarmTimer \/ Report
       \/ \E p \in Pid : ForkDirectly(p)

Kernel ==
    /\ UNCHANGED opt
    /\ \/ Timeout
       \/ \E p \in Pid : InitReaps(p)

Child ==
    /\ UNCHANGED opt
    /\ \E p \in Pid : Complete(p) \/ Crash(p) \/ Terminate(p)

Rest ==
    /\ UNCHANGED opt
    /\ \/ ServerExits \/ ReadHello \/ HandshakeFails \/ ServerIsUp
       \/ RunTarget \/ StopSignal \/ Leave \/ LeaveByItself

Next == Child \/ Server \/ Run \/ Kernel \/ Rest

Spec == Init /\ [][Next]_vars

(* Processes that can take a step do, an armed timer goes off, init reaps. *)
FairSpec ==
    Spec /\ WF_vars(Server) /\ WF_vars(Run) /\ WF_vars(Kernel)

-----------------------------------------------------------------------------
Running == {"request", "pid", "arm", "net", "linger", "wait", "clear",
            "disarm", "report"}

Message == [tag : {"hello"}, val : {0}] \cup [tag : {"pid"}, val : Pid]
             \cup [tag : {"status"}, val : Status]

TypeOK ==
    /\ opt \in Option
    /\ pc \in Running \cup {"init", "up", "idle", "leaving", "exited", "fatal"}
    /\ child_pid \in Pid \cup {-1, 0} /\ child_timed_out \in BOOLEAN
    /\ prev_timed_out \in BOOLEAN /\ stop_soon \in BOOLEAN
    /\ timer \in BOOLEAN /\ status \in Status
    /\ fault \in {"none", "timeout", "crash"} /\ runs \in Nat
    /\ ctl \in Seq(BOOLEAN) /\ st \in Seq(Message)
    /\ srv \in {"hello", "wait", "reap", "fork", "tell", "waitpid", "relay",
                "dead"}
    /\ srv_pid \in Pid \cup {0} /\ child_stopped \in BOOLEAN
    /\ srv_status \in Status
    /\ proc \in [Pid -> Death \cup {"none", "running", "stopped", "gone"}]
    /\ cycle_cnt \in [Pid -> Int] /\ term \subseteq Pid
    /\ really \in {"nothing", "done", "crashed", "terminated"}

(* What run_target returns is what happened to this run's child: a crash   *)
(* is its own, a run without fault finished its input (or was asked to     *)
(* end), and a child that crashed is never taken for one that was slow.    *)
FaultIsReal ==
    pc = "idle" /\ ~ stop_soon /\ runs > 0 =>
        \/ fault = "crash" /\ really = "crashed"
        \/ fault = "timeout" /\ really \in {"nothing", "done"}
        \/ fault = "none" /\ really = "done"
        \/ fault = "none" /\ really = "terminated" /\ terminate_child

(* A child runs only while run_target waits for it: nothing writes to      *)
(* trace_bits once the run is reported and until the next one has cleared  *)
(* it (afl-fuzz.c:2586-2590, 2776-2780).                                   *)
NoStray ==
    \A p \in Pid :
        proc[p] = "running" /\ ~ stop_soon =>
            /\ pc \in {"pid", "arm", "net", "linger", "wait"}
            /\ \A q \in Pid \ {p} : proc[q] \in {"none", "gone"}

(* The pipe carries a process id and a status in turn, and afl-fuzz never  *)
(* takes one for the other.                                                *)
PipeInStep ==
    /\ pc = "init" /\ st # <<>> => Head(st).tag = "hello"
    /\ pc = "pid" /\ st # <<>> => Head(st).tag = "pid"
    /\ pc \in {"arm", "net", "linger", "wait"} /\ st # <<>> =>
         Head(st).tag = "status"
    /\ pc \in {"up", "idle", "request", "clear", "disarm", "report"} =>
         st = <<>>

(* Nothing of the target runs on when afl-fuzz has ended: the signal       *)
(* handler kills the current runner (afl-fuzz.c:8915-8916).                *)
NoOrphan == pc = "exited" => \A p \in Pid : proc[p] # "running"

(* A run ends, whatever the child does.                                    *)
RunReturns == pc \in Running ~> pc \notin Running
=============================================================================

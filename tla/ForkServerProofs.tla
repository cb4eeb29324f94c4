-------------------------- MODULE ForkServerProofs --------------------------
(***************************************************************************)
(* One child at a time, the pipe in step and faults that are real, for     *)
(* every set of process ids, all options, any number of runs and of inputs *)
(* for one persistent child.                                               *)
(***************************************************************************)
EXTENDS ForkServer, TLAPS

Waiting == {"arm", "net", "linger", "wait"}
Between == {"up", "idle", "request", "clear", "disarm", "report"}

(* The number of elements, as bounds: the provers read Len(s) = 1 as an    *)
(* equation of domains.                                                    *)
Size(s, n) == n <= Len(s) /\ Len(s) <= n

(* Where the fork server and the pipes are at each place of afl-fuzz.      *)
Handshake ==
    /\ Size(ctl, 0) /\ Len(st) <= 1 /\ srv \in {"hello", "wait", "dead"}
    /\ srv = "hello" => Size(st, 0)
    /\ srv = "wait" => Size(st, 1)
    /\ Size(st, 1) => st[1].tag = "hello"
    /\ ~ child_stopped

Silent ==
    /\ Size(st, 0) /\ srv \in {"wait", "dead"}
    /\ srv = "wait" => Size(ctl, 0)

AwaitsPid ==
    /\ Len(st) <= 2
    /\ Len(st) >= 1 => st[1].tag = "pid"
    /\ Size(st, 2) => st[2].tag = "status"
    /\ srv # "hello"
    /\ srv = "wait" => \/ Size(ctl, 1) /\ Size(st, 0)
                       \/ Size(ctl, 0) /\ Size(st, 2)
    /\ srv \in {"reap", "fork", "tell"} => Size(ctl, 0) /\ Size(st, 0)
    /\ srv \in {"waitpid", "relay"} => Size(ctl, 0) /\ Size(st, 1)

AwaitsStatus ==
    /\ Len(st) <= 1
    /\ Size(st, 1) => st[1].tag = "status"
    /\ srv \in {"wait", "waitpid", "relay", "dead"}
    /\ srv = "wait" => Size(ctl, 0) /\ Size(st, 1)
    /\ srv \in {"waitpid", "relay"} => Size(ctl, 0) /\ Size(st, 0)
    /\ child_pid \in Pid

InStep ==
    /\ no_forkserver => /\ srv = "dead" /\ Size(st, 0)
                        /\ pc \notin {"init", "up", "pid"} /\ ~ child_stopped
    /\ pc = "init" => Handshake
    /\ pc = "up" => ~ child_stopped
    /\ pc \in {"init", "up"} => runs = 0
    /\ stop_soon => srv = "dead"
    /\ pc \in Between => Silent
    /\ pc = "pid" => AwaitsPid
    /\ pc \in Waiting => AwaitsStatus
    /\ pc \in {"clear", "disarm"} => child_pid # -1
    /\ pc \in {"report", "idle", "request", "pid"} => ~ timer
    /\ pc \in {"leaving", "fatal", "exited"} => srv = "dead"
    /\ pc = "leaving" => stop_soon
    /\ srv = "reap" => child_stopped
    /\ srv \in {"tell", "waitpid"} => ~ child_stopped
    /\ srv \in {"tell", "waitpid"} \/ child_stopped => srv_pid \in Pid

(* What s, a child's state or the status told of it, says of this run.     *)
Fate(s) ==
    /\ s = "running" => really = "nothing"
    /\ s \in {"stopped", "exit"} => really = "done"
    /\ s = "SEGV" => really = "crashed"
    /\ s = "TERM" => really = "terminated" /\ terminate_child
    /\ s = "KILL" => child_timed_out /\ really \in {"nothing", "done"}

(* The child of the run, and whether there is one.                         *)
Current == IF no_forkserver THEN child_pid ELSE srv_pid
HasChild ==
    \/ no_forkserver /\ pc \in Waiting
    \/ ~ no_forkserver /\ (srv \in {"tell", "waitpid"} \/ child_stopped)

OnlyCurrent == \A p \in Pid : Exists(p) => p = Current /\ HasChild

(* No child has run yet since RunTarget.                                   *)
NotStarted ==
    \/ pc = "request"
    \/ pc = "pid" /\ (srv \in {"reap", "fork"} \/ Size(ctl, 1))

(* afl-fuzz will have the server reap the process.                         *)
WillReap ==
    \/ pc \in Waiting \cup {"clear", "disarm", "report"} /\ child_timed_out
    \/ pc \in {"idle", "request"} /\ prev_timed_out
    \/ pc = "pid" /\ srv = "wait" /\ Size(ctl, 1) /\ ctl[1] = TRUE
    \/ srv = "reap"

Fates ==
    /\ NotStarted => really = "nothing"
    /\ no_forkserver /\ pc \in Waiting => Fate(proc[child_pid])
    /\ srv \in {"tell", "waitpid"} => Fate(proc[srv_pid])
    /\ srv = "relay" => Fate(srv_status)
    /\ \A i \in {1, 2} :
         i <= Len(st) /\ st[i].tag = "status" => Fate(st[i].val)
    /\ pc \in {"clear", "disarm", "report"} => Fate(status)

StoppedOne ==
    child_stopped =>
        /\ proc[srv_pid] # "running"
        /\ srv # "dead" => \/ proc[srv_pid] = "stopped"
                           \/ proc[srv_pid] = "KILL" /\ WillReap

Children ==
    /\ term # {} => terminate_child
    /\ ~ stop_soon => OnlyCurrent /\ Fates /\ StoppedOne

Inv == TypeOK /\ InStep /\ Children /\ FaultIsReal

-----------------------------------------------------------------------------
USE ForkServerAssumption
USE DEF Size, Goto, Msg, afl, flags, pipes, server, kernel, persistent,
        no_forkserver, use_net, terminate_child

(* The two pipes as sequences.                                            *)
LEMMA TailFacts ==
    ASSUME NEW S, NEW s \in Seq(S), s # <<>>
    PROVE  /\ Tail(s) \in Seq(S) /\ Len(Tail(s)) = Len(s) - 1
           /\ Len(s) \in Nat \ {0} /\ Head(s) = s[1] /\ s[1] \in S
           /\ Size(s, 2) => Tail(s)[1] = s[2]
OBVIOUS

LEMMA AppendFacts ==
    ASSUME NEW S, NEW s \in Seq(S), NEW e \in S
    PROVE  /\ Append(s, e) \in Seq(S) /\ Len(Append(s, e)) = Len(s) + 1
           /\ Len(s) \in Nat
           /\ Size(s, 0) => Append(s, e)[1] = e
           /\ Size(s, 1) => Append(s, e)[1] = s[1] /\ Append(s, e)[2] = e
OBVIOUS

(* What the server does with a request, the flag apart from the rest: a    *)
(* Boolean element of a sequence suits Zenon only.                         *)
LEMMA ReadRequestFacts ==
    ASSUME TypeOK, ReadRequest
    PROVE  /\ ctl' \in Seq(BOOLEAN) /\ Len(ctl') = Len(ctl) - 1
           /\ Len(ctl) \in Nat \ {0}
           /\ \/ srv' = "reap" /\ child_stopped /\ ctl[1] = TRUE
              \/ srv' = "fork" /\ ~ (child_stopped /\ ctl[1] = TRUE)
           /\ srv = "wait"
           /\ UNCHANGED <<pc, afl, flags, st, srv_pid, child_stopped,
                          srv_status, kernel>>
<1>1. /\ ctl' \in Seq(BOOLEAN) /\ Len(ctl') = Len(ctl) - 1
      /\ Len(ctl) \in Nat \ {0} /\ Head(ctl) = ctl[1] /\ ctl[1] \in BOOLEAN
  BY TailFacts DEF ReadRequest, TypeOK
<1>2. /\ srv = "wait"
      /\ srv' = IF child_stopped /\ ctl[1] THEN "reap" ELSE "fork"
      /\ UNCHANGED <<pc, afl, flags, st, srv_pid, child_stopped,
                     srv_status, kernel>>
  BY <1>1, Zenon DEF ReadRequest, MustReap
<1>3. \/ srv' = "reap" /\ child_stopped /\ ctl[1] = TRUE
      \/ srv' = "fork" /\ ~ (child_stopped /\ ctl[1] = TRUE)
  BY <1>1, <1>2, Zenon
<1> QED BY <1>1, <1>2, <1>3

(* A read from st, and a write to it.                                      *)
LEMMA ReadFacts ==
    ASSUME TypeOK, st # <<>>, st' = Tail(st)
    PROVE  /\ st' \in Seq(Message) /\ Len(st') = Len(st) - 1
           /\ Len(st) \in Nat \ {0} /\ Head(st) = st[1] /\ st[1] \in Message
           /\ Size(st, 2) => st'[1] = st[2]
BY TailFacts DEF TypeOK

LEMMA WriteFacts ==
    ASSUME TypeOK, NEW m \in Message, st' = Append(st, m)
    PROVE  /\ st' \in Seq(Message) /\ Len(st') = Len(st) + 1
           /\ Len(st) \in Nat
           /\ Size(st, 0) => st'[1] = m
           /\ Size(st, 1) => st'[1] = st[1] /\ st'[2] = m
BY AppendFacts DEF TypeOK

LEMMA HelloFacts ==
    ASSUME TypeOK, Hello
    PROVE  /\ st' \in Seq(Message) /\ Len(st') = Len(st) + 1
           /\ Size(st, 0) => st'[1].tag = "hello"
BY WriteFacts DEF Hello, Message

LEMMA TellPidFacts ==
    ASSUME TypeOK, InStep, TellPid
    PROVE  /\ st' \in Seq(Message) /\ Len(st') = Len(st) + 1
           /\ Size(st, 0) => st'[1] = Msg("pid", srv_pid)
<1>1. Msg("pid", srv_pid) \in Message
  BY DEF TellPid, InStep, Message
<1> QED BY <1>1, WriteFacts DEF TellPid

LEMMA RelayStatusFacts ==
    ASSUME TypeOK, RelayStatus
    PROVE  /\ st' \in Seq(Message) /\ Len(st') = Len(st) + 1
           /\ Size(st, 0) => st'[1] = Msg("status", srv_status)
           /\ Size(st, 1) => /\ st'[1] = st[1]
                             /\ st'[2] = Msg("status", srv_status)
<1>1. Msg("status", srv_status) \in Message
  BY DEF RelayStatus, TypeOK, Message
<1> QED BY <1>1, WriteFacts DEF RelayStatus

LEMMA WriteRequestFacts ==
    ASSUME TypeOK, InStep, WriteRequest
    PROVE  /\ Len(ctl) \in Nat /\ ctl' \in Seq(BOOLEAN)
           /\ Len(ctl') = Len(ctl) + 1
           /\ Size(ctl, 0) => ctl'[1] = prev_timed_out
           /\ Size(ctl, 1) => ctl'[1] = ctl[1] /\ ctl'[2] = prev_timed_out
<1>1. prev_timed_out \in BOOLEAN
  BY DEF WriteRequest, TypeOK, InStep, Message
<1> QED BY <1>1, AppendFacts DEF WriteRequest, TypeOK

(* Whatever afl-fuzz reads is of the kind it waits for.                    *)
LEMMA HeadIsRight ==
    ASSUME TypeOK, InStep
    PROVE  /\ PipeInStep
           /\ st # <<>> /\ pc = "pid" => Head(st).val \in Pid
           /\ st # <<>> /\ pc = "wait" => Head(st).val \in Status
           /\ pc \in Waiting => child_pid \in Pid
<1>1. CASE st = <<>>
  BY <1>1 DEF PipeInStep, InStep, AwaitsStatus
<1>2. CASE st # <<>>
  <2>1. Len(st) \in Nat \ {0} /\ Head(st) = st[1] /\ st[1] \in Message
    BY <1>2, TailFacts DEF TypeOK
  <2>2. pc = "init" => st[1].tag = "hello"
    BY <2>1 DEF InStep, Handshake
  <2>3. pc = "pid" => st[1].tag = "pid"
    BY <2>1 DEF InStep, AwaitsPid
  <2>4. pc \in Waiting => st[1].tag = "status"
    BY <2>1 DEF InStep, AwaitsStatus
  <2>5. pc \notin Between
    BY <2>1 DEF InStep, Silent
  <2> QED
    BY <1>2, <2>1, <2>2, <2>3, <2>4, <2>5
    DEF Message, PipeInStep, Waiting, Between, InStep, AwaitsStatus
<1> QED BY <1>1, <1>2

-----------------------------------------------------------------------------
(* Types: what is read from a pipe is what InStep says.                    *)
LEMMA TypeOKNext ==
    ASSUME TypeOK, InStep, [Next]_vars PROVE TypeOK'
<1> USE DEF TypeOK, Running, Status, Death, Message
<1>1. ASSUME UNCHANGED opt, Hello PROVE TypeOK'
  BY <1>1, HelloFacts DEF Hello, Gone
<1>2. ASSUME UNCHANGED opt, ReadRequest PROVE TypeOK'
  <2>1. /\ srv' \in {"reap", "fork"} /\ ctl' \in Seq(BOOLEAN)
        /\ UNCHANGED <<pc, afl, flags, st, srv_pid, child_stopped,
                       srv_status, kernel>>
    BY <1>2, ReadRequestFacts
  <2> QED BY <1>2, <2>1
<1>3. ASSUME UNCHANGED opt, ReapKilled PROVE TypeOK'
  <2>1. child_stopped' \in BOOLEAN
    BY <1>3, Zenon DEF ReapKilled, TypeOK
  <2>2. proc' \in [Pid -> Death \cup {"none", "running", "stopped", "gone"}]
    BY <1>3 DEF ReapKilled
  <2> QED BY <1>3, <2>1, <2>2 DEF ReapKilled
<1>4. ASSUME NEW p \in Pid, UNCHANGED opt, Fork(p) PROVE TypeOK'
  BY <1>4 DEF Fork, NewChild, MustFork
<1>5. ASSUME UNCHANGED opt, Continue PROVE TypeOK'
  <2>1. child_stopped' \in BOOLEAN
    BY <1>5, Zenon DEF Continue, TypeOK
  <2> QED BY <1>5, <2>1 DEF Continue, MustFork
<1>6. ASSUME UNCHANGED opt, TellPid PROVE TypeOK'
  BY <1>6, TellPidFacts DEF TellPid, Gone
<1>7. ASSUME UNCHANGED opt, WaitChild PROVE TypeOK'
  <2>1. child_stopped' \in BOOLEAN
    BY <1>7, Zenon DEF WaitChild, TypeOK
  <2> QED BY <1>7, <2>1 DEF WaitChild, ReportsStop
<1>8. ASSUME UNCHANGED opt, RelayStatus PROVE TypeOK'
  BY <1>8, RelayStatusFacts DEF RelayStatus, Gone
<1>9. ASSUME UNCHANGED opt, WriteRequest PROVE TypeOK'
  BY <1>9, WriteRequestFacts DEF WriteRequest
<1>10. ASSUME UNCHANGED opt, NoServer PROVE TypeOK'
  BY <1>10 DEF NoServer
<1>11. ASSUME UNCHANGED opt, ReadPid PROVE TypeOK'
  BY <1>11, ReadFacts, HeadIsRight DEF ReadPid
<1>12. ASSUME UNCHANGED opt, ArmTimer PROVE TypeOK'
  BY <1>12 DEF ArmTimer
<1>13. ASSUME UNCHANGED opt, SendReturns PROVE TypeOK'
  BY <1>13 DEF SendReturns
<1>14. ASSUME UNCHANGED opt, SendDone PROVE TypeOK'
  <2>1. child_pid \in Pid
    BY <1>14, HeadIsRight DEF SendDone, Waiting
  <2>2. term' \subseteq Pid
    BY <1>14, <2>1 DEF SendDone, Alive
  <2> QED BY <1>14, <2>2 DEF SendDone
<1>15. ASSUME UNCHANGED opt, LingerEnds PROVE TypeOK'
  BY <1>15 DEF LingerEnds, Exists
<1>16. ASSUME UNCHANGED opt, WaitDirectly PROVE TypeOK'
  <2>2. proc' \in [Pid -> Death \cup {"none", "running", "stopped", "gone"}]
    BY <1>16 DEF WaitDirectly
  <2> QED BY <1>16, <2>2 DEF WaitDirectly
<1>17. ASSUME UNCHANGED opt, ReadStatus PROVE TypeOK'
  BY <1>17, ReadFacts, HeadIsRight DEF ReadStatus
<1>18. ASSUME UNCHANGED opt, ClearPid PROVE TypeOK'
  BY <1>18 DEF ClearPid
<1>19. ASSUME UNCHANGED opt, DisarmTimer PROVE TypeOK'
  <2>1. timer' \in BOOLEAN
    BY <1>19, Zenon DEF DisarmTimer, TypeOK
  <2> QED BY <1>19, <2>1 DEF DisarmTimer
<1>20. ASSUME UNCHANGED opt, Report PROVE TypeOK'
  BY <1>20 DEF Report, TimedOut, Fault
<1>21. ASSUME NEW p \in Pid, UNCHANGED opt, ForkDirectly(p) PROVE TypeOK'
  BY <1>21 DEF ForkDirectly, NewChild
<1>22. ASSUME UNCHANGED opt, Timeout PROVE TypeOK'
  <2>1. timer' \in BOOLEAN /\ child_timed_out' \in BOOLEAN
    BY <1>22, Zenon DEF Timeout, TypeOK
  <2> QED BY <1>22, <2>1 DEF Timeout, Killed, Gone, Alive
<1>23. ASSUME NEW p \in Pid, UNCHANGED opt, InitReaps(p) PROVE TypeOK'
  BY <1>23 DEF InitReaps
<1>24. ASSUME NEW p \in Pid, UNCHANGED opt, Complete(p) PROVE TypeOK'
  BY <1>24 DEF Complete
<1>25. ASSUME NEW p \in Pid, UNCHANGED opt, Crash(p) PROVE TypeOK'
  BY <1>25 DEF Crash
<1>26. ASSUME NEW p \in Pid, UNCHANGED opt, Terminate(p) PROVE TypeOK'
  BY <1>26 DEF Terminate
<1>27. ASSUME UNCHANGED opt, ServerExits PROVE TypeOK'
  BY <1>27 DEF ServerExits, MustFork, Gone
<1>28. ASSUME UNCHANGED opt, ReadHello PROVE TypeOK'
  BY <1>28, ReadFacts DEF ReadHello
<1>29. ASSUME UNCHANGED opt, HandshakeFails PROVE TypeOK'
  BY <1>29 DEF HandshakeFails
<1>30. ASSUME UNCHANGED opt, ServerIsUp PROVE TypeOK'
  <2>1. timer' \in BOOLEAN
    BY <1>30, Zenon DEF ServerIsUp, TypeOK
  <2> QED BY <1>30, <2>1 DEF ServerIsUp
<1>31. ASSUME UNCHANGED opt, RunTarget PROVE TypeOK'
  <2>1. child_timed_out' \in BOOLEAN
    BY <1>31, Zenon DEF RunTarget, TypeOK
  <2> QED BY <1>31, <2>1 DEF RunTarget
<1>32. ASSUME UNCHANGED opt, StopSignal PROVE TypeOK'
  BY <1>32 DEF StopSignal, KillBoth, Gone, Killed, Alive
<1>33. ASSUME UNCHANGED opt, Leave PROVE TypeOK'
  <2>1. timer' \in BOOLEAN
    BY <1>33, Zenon DEF Leave, TypeOK
  <2> QED BY <1>33, <2>1 DEF Leave
<1>34. ASSUME UNCHANGED opt, LeaveByItself PROVE TypeOK'
  BY <1>34 DEF LeaveByItself, KillBoth, Killed, Alive
<1>35. CASE UNCHANGED vars
  BY <1>35 DEF vars
<1> HIDE DEF TypeOK, Running, Status, Death, Message
<1> QED
  BY <1>1, <1>2, <1>3, <1>4, <1>5, <1>6, <1>7, <1>8, <1>9, <1>10, <1>11, <1>12,
     <1>13, <1>14, <1>15, <1>16, <1>17, <1>18, <1>19, <1>20, <1>21, <1>22,
     <1>23, <1>24, <1>25, <1>26, <1>27, <1>28, <1>29, <1>30, <1>31, <1>32,
     <1>33, <1>34, <1>35
  DEF Next, Server, Run, Kernel, Child, Rest

(* The handshake: every write and read moves both sides on, or the server  *)
(* is dead and what is left in st is read or given up.                     *)
LEMMA InStepNext ==
    ASSUME TypeOK, InStep, [Next]_vars PROVE InStep'
<1>0. /\ Len(st) \in Nat /\ Len(ctl) \in Nat
      /\ pc \in Running \cup {"init", "up", "idle", "leaving", "exited",
                             "fatal"}
      /\ srv \in {"hello", "wait", "reap", "fork", "tell", "waitpid", "relay",
                  "dead"}
      /\ stop_soon \in BOOLEAN /\ timer \in BOOLEAN
      /\ child_stopped \in BOOLEAN /\ no_forkserver \in BOOLEAN
      /\ child_pid \in Pid \cup {-1, 0} /\ -1 \notin Pid /\ 0 \notin Pid
  BY DEF TypeOK, Option
<1> USE <1>0 DEF Running, InStep, Handshake, Silent, AwaitsPid, AwaitsStatus,
        Waiting, Between
<1>1. ASSUME UNCHANGED opt, Hello PROVE InStep'
  BY <1>1, HelloFacts DEF Hello, Gone
<1>2. ASSUME UNCHANGED opt, ReadRequest PROVE InStep'
  <2>1. pc = "pid" /\ srv = "wait" /\ Size(ctl, 1) /\ Size(st, 0)
    BY <1>2, ReadRequestFacts
  <2>2. Size(ctl', 0) /\ UNCHANGED <<opt, pc, afl, flags, st>>
    BY <1>2, <2>1, ReadRequestFacts
  <2>3. /\ srv' \in {"reap", "fork"}
        /\ srv' = "reap" => child_stopped
        /\ UNCHANGED <<srv_pid, child_stopped>>
    BY <1>2, ReadRequestFacts
  <2> QED BY <2>1, <2>2, <2>3
<1>3. ASSUME UNCHANGED opt, ReapKilled PROVE InStep'
  BY <1>3 DEF ReapKilled
<1>4. ASSUME NEW p \in Pid, UNCHANGED opt, Fork(p) PROVE InStep'
  BY <1>4 DEF Fork, NewChild, MustFork
<1>5. ASSUME UNCHANGED opt, Continue PROVE InStep'
  BY <1>5 DEF Continue, MustFork
<1>6. ASSUME UNCHANGED opt, TellPid PROVE InStep'
  BY <1>6, TellPidFacts DEF TellPid, Gone
<1>7. ASSUME UNCHANGED opt, WaitChild PROVE InStep'
  <2>1. srv_pid \in Pid
    BY <1>7 DEF WaitChild
  <2>2. /\ srv = "waitpid" /\ srv' = "relay"
        /\ UNCHANGED <<opt, pc, afl, flags, pipes, srv_pid>>
    BY <1>7 DEF WaitChild
  <2> QED BY <2>1, <2>2
<1>8. ASSUME UNCHANGED opt, RelayStatus PROVE InStep'
  <2>1. /\ srv = "relay" /\ srv' = "wait" /\ pc \in Waiting \cup {"pid"}
        /\ UNCHANGED <<opt, pc, afl, flags, ctl, srv_pid, child_stopped>>
    BY <1>8 DEF RelayStatus, Gone
  <2>2. CASE pc = "pid"
    <3>1. Size(st, 1) /\ st[1].tag = "pid"
      BY <2>1, <2>2
    <3>2. Size(st', 2) /\ st'[1].tag = "pid" /\ st'[2].tag = "status"
      BY <1>8, <3>1, RelayStatusFacts
    <3> QED BY <2>1, <2>2, <3>2
  <2>3. CASE pc \in Waiting
    <3>1. Size(st, 0)
      BY <2>1, <2>3
    <3>2. Size(st', 1) /\ st'[1].tag = "status"
      BY <1>8, <3>1, RelayStatusFacts
    <3> QED BY <2>1, <2>3, <3>2
  <2> QED BY <2>1, <2>2, <2>3
<1>9. ASSUME UNCHANGED opt, WriteRequest PROVE InStep'
  BY <1>9, WriteRequestFacts DEF WriteRequest
<1>10. ASSUME UNCHANGED opt, NoServer PROVE InStep'
  BY <1>10 DEF NoServer
<1>11. ASSUME UNCHANGED opt, ReadPid PROVE InStep'
  <2>1. /\ pc = "pid" /\ pc' = "arm" /\ child_pid' = Head(st).val
        /\ UNCHANGED <<opt, prev_timed_out, flags, ctl, server, runs>>
    BY <1>11 DEF ReadPid
  <2>2. child_pid' \in Pid
    BY <1>11, <2>1, HeadIsRight DEF ReadPid
  <2>3. Len(st') = Len(st) - 1 /\ Len(st) \in {1, 2}
    BY <1>11, <2>1, ReadFacts DEF ReadPid
  <2>4. Size(st', 1) => st'[1].tag = "status"
    BY <1>11, <2>1, <2>3, ReadFacts DEF ReadPid
  <2> QED BY <2>1, <2>2, <2>3, <2>4
<1>12. ASSUME UNCHANGED opt, ArmTimer PROVE InStep'
  BY <1>12 DEF ArmTimer
<1>13. ASSUME UNCHANGED opt, SendReturns PROVE InStep'
  BY <1>13 DEF SendReturns
<1>14. ASSUME UNCHANGED opt, SendDone PROVE InStep'
  BY <1>14 DEF SendDone, Alive
<1>15. ASSUME UNCHANGED opt, LingerEnds PROVE InStep'
  BY <1>15 DEF LingerEnds, Exists
<1>16. ASSUME UNCHANGED opt, WaitDirectly PROVE InStep'
  BY <1>16 DEF WaitDirectly
<1>17. ASSUME UNCHANGED opt, ReadStatus PROVE InStep'
  <2>1. /\ pc = "wait" /\ pc' = "clear" /\ child_pid' = child_pid
        /\ UNCHANGED <<opt, prev_timed_out, flags, ctl, server, runs>>
    BY <1>17 DEF ReadStatus
  <2>2. Size(st, 1) /\ Size(st', 0)
    BY <1>17, <2>1, ReadFacts DEF ReadStatus
  <2> QED BY <2>1, <2>2
<1>18. ASSUME UNCHANGED opt, ClearPid PROVE InStep'
  BY <1>18 DEF ClearPid
<1>19. ASSUME UNCHANGED opt, DisarmTimer PROVE InStep'
  BY <1>19 DEF DisarmTimer
<1>20. ASSUME UNCHANGED opt, Report PROVE InStep'
  <2>1. /\ pc = "report" /\ pc' = IF stop_soon THEN "leaving" ELSE "idle"
        /\ UNCHANGED <<opt, child_pid, runs, flags, pipes, server>>
    BY <1>20 DEF Report
  <2>2. ~ timer
    BY <2>1
  <2> QED BY <2>1, <2>2
<1>21. ASSUME NEW p \in Pid, UNCHANGED opt, ForkDirectly(p) PROVE InStep'
  BY <1>21 DEF ForkDirectly, NewChild
<1>22. ASSUME UNCHANGED opt, Timeout PROVE InStep'
  BY <1>22 DEF Timeout, Killed, Gone, Alive
<1>23. ASSUME NEW p \in Pid, UNCHANGED opt, InitReaps(p) PROVE InStep'
  BY <1>23 DEF InitReaps
<1>24. ASSUME NEW p \in Pid, UNCHANGED opt, Complete(p) PROVE InStep'
  BY <1>24 DEF Complete
<1>25. ASSUME NEW p \in Pid, UNCHANGED opt, Crash(p) PROVE InStep'
  BY <1>25 DEF Crash
<1>26. ASSUME NEW p \in Pid, UNCHANGED opt, Terminate(p) PROVE InStep'
  BY <1>26 DEF Terminate
<1>27. ASSUME UNCHANGED opt, ServerExits PROVE InStep'
  BY <1>27 DEF ServerExits, MustFork, Gone
<1>28. ASSUME UNCHANGED opt, ReadHello PROVE InStep'
  <2>1. /\ pc = "init" /\ pc' = "up"
        /\ UNCHANGED <<opt, runs, child_pid, flags, ctl, server>>
    BY <1>28 DEF ReadHello
  <2>2. Size(st, 1) /\ Size(st', 0)
    BY <1>28, <2>1, ReadFacts DEF ReadHello
  <2> QED BY <2>1, <2>2
<1>29. ASSUME UNCHANGED opt, HandshakeFails PROVE InStep'
  BY <1>29 DEF HandshakeFails
<1>30. ASSUME UNCHANGED opt, ServerIsUp PROVE InStep'
  BY <1>30 DEF ServerIsUp
<1>31. ASSUME UNCHANGED opt, RunTarget PROVE InStep'
  BY <1>31 DEF RunTarget
<1>32. ASSUME UNCHANGED opt, StopSignal PROVE InStep'
  BY <1>32 DEF StopSignal, KillBoth, Gone, Killed, Alive
<1>33. ASSUME UNCHANGED opt, Leave PROVE InStep'
  BY <1>33 DEF Leave
<1>34. ASSUME UNCHANGED opt, LeaveByItself PROVE InStep'
  BY <1>34 DEF LeaveByItself, KillBoth, Killed, Alive
<1>35. CASE UNCHANGED vars
  BY <1>35 DEF vars
<1> HIDE DEF Running, InStep, Handshake, Silent, AwaitsPid, AwaitsStatus,
             Waiting, Between
<1> QED
  BY <1>1, <1>2, <1>3, <1>4, <1>5, <1>6, <1>7, <1>8, <1>9, <1>10, <1>11, <1>12,
     <1>13, <1>14, <1>15, <1>16, <1>17, <1>18, <1>19, <1>20, <1>21, <1>22,
     <1>23, <1>24, <1>25, <1>26, <1>27, <1>28, <1>29, <1>30, <1>31, <1>32,
     <1>33, <1>34, <1>35
  DEF Next, Server, Run, Kernel, Child, Rest

-----------------------------------------------------------------------------
(* While the server serves a request afl-fuzz waits for the process id.    *)
LEMMA ReadsWhenAsked ==
    ASSUME TypeOK, InStep
    PROVE  /\ srv \in {"reap", "fork", "tell"} =>
                /\ pc = "pid" /\ ~ no_forkserver
                /\ Size(st, 0) /\ Size(ctl, 0)
           /\ srv = "wait" /\ Len(ctl) > 0 =>
                pc = "pid" /\ Size(ctl, 1) /\ Size(st, 0)
BY DEF TypeOK, Running, InStep, Handshake, Silent, AwaitsPid, AwaitsStatus,
       Waiting, Between

(* A server that has a child running has not told of its end yet.          *)
LEMMA ReachedPid ==
    ASSUME TypeOK, InStep, srv \in {"tell", "waitpid"}
    PROVE  /\ pc \in Waiting \cup {"pid"} /\ Len(st) <= 1
           /\ Size(st, 1) => st[1].tag # "status"
           /\ ~ NotStarted
<1>1. pc \in Waiting \cup {"pid"}
  BY DEF TypeOK, Running, InStep, Handshake, Silent, Waiting, Between
<1>2. CASE pc = "pid"
  BY <1>2 DEF InStep, AwaitsPid, TypeOK, NotStarted
<1>3. CASE pc \in Waiting
  BY <1>3 DEF InStep, AwaitsStatus, TypeOK, NotStarted, Waiting
<1> QED BY <1>1, <1>2, <1>3

(* A running child is the one of this run, and nothing has happened yet.   *)
LEMMA RunnerFacts ==
    ASSUME TypeOK, InStep, Children, ~ stop_soon,
           NEW p \in Pid, proc[p] = "running"
    PROVE  /\ OnlyCurrent /\ p = Current /\ HasChild /\ ~ child_stopped
           /\ really = "nothing" /\ ~ NotStarted
           /\ no_forkserver => pc \in Waiting
           /\ ~ no_forkserver => srv \in {"tell", "waitpid"}
           /\ pc \in Waiting \cup {"pid"}
           /\ Len(st) <= 1 /\ (Size(st, 1) => st[1].tag # "status")
<1>1. OnlyCurrent /\ Fates /\ StoppedOne
  BY DEF Children
<1>2. p = Current /\ HasChild
  BY <1>1 DEF OnlyCurrent, Exists
<1>3. CASE no_forkserver
  <2>1. pc \in Waiting /\ p = child_pid /\ ~ child_stopped /\ Size(st, 0)
    BY <1>2, <1>3 DEF HasChild, Current, InStep, TypeOK
  <2>2. ~ NotStarted
    BY <2>1 DEF NotStarted, Waiting
  <2>3. Fate(proc[child_pid])
    BY <1>1, <1>3, <2>1 DEF Fates
  <2> QED BY <1>1, <1>2, <1>3, <2>1, <2>2, <2>3 DEF Fate, TypeOK
<1>4. CASE ~ no_forkserver
  <2>1. p = srv_pid /\ ~ child_stopped /\ srv \in {"tell", "waitpid"}
    BY <1>1, <1>2, <1>4 DEF HasChild, Current, StoppedOne
  <2>2. /\ pc \in Waiting \cup {"pid"} /\ Len(st) <= 1
        /\ Size(st, 1) => st[1].tag # "status"
        /\ ~ NotStarted
    BY <2>1, ReachedPid
  <2>3. Fate(proc[srv_pid])
    BY <1>1, <2>1 DEF Fates
  <2> QED BY <1>1, <1>2, <1>4, <2>1, <2>2, <2>3 DEF Fate
<1> QED BY <1>3, <1>4

(* Whatever becomes of the running child is what really says.              *)
LEMMA ChildStep ==
    ASSUME TypeOK, InStep, Children,
           NEW p \in Pid, proc[p] = "running",
           NEW s \in Death \cup {"stopped"}, proc' = [proc EXCEPT ![p] = s],
           Fate(s)', UNCHANGED <<opt, pc, afl, flags, pipes, server, term>>
    PROVE  Children'
<1> SUFFICES ASSUME ~ stop_soon PROVE (OnlyCurrent /\ Fates /\ StoppedOne)'
  BY DEF Children
<1>1. /\ OnlyCurrent /\ p = Current /\ HasChild /\ ~ child_stopped
      /\ ~ NotStarted
      /\ no_forkserver => pc \in Waiting
      /\ ~ no_forkserver => srv \in {"tell", "waitpid"}
      /\ pc \in Waiting \cup {"pid"}
      /\ Len(st) <= 1 /\ (Size(st, 1) => st[1].tag # "status")
  BY RunnerFacts
<1>2. proc'[p] = s /\ \A q \in Pid \ {p} : proc'[q] = proc[q]
  BY DEF TypeOK
<1>3. OnlyCurrent'
  BY <1>1, <1>2 DEF OnlyCurrent, Exists, Current, HasChild
<1>4. Fates'
  <2>1. ~ NotStarted'
    BY <1>1 DEF NotStarted
  <2>2. no_forkserver /\ pc \in Waiting => Fate(proc[child_pid])'
    BY <1>1, <1>2 DEF Current
  <2>3. srv \in {"tell", "waitpid"} => Fate(proc[srv_pid])'
    BY <1>1, <1>2 DEF Current, InStep
  <2>4. srv # "relay" /\ pc \notin {"clear", "disarm", "report"}
    BY <1>1 DEF InStep, Waiting
  <2>5. \A i \in {1, 2} : ~ (i <= Len(st) /\ st[i].tag = "status")
    BY <1>1 DEF TypeOK
  <2> QED BY <2>1, <2>2, <2>3, <2>4, <2>5 DEF Fates
<1>5. StoppedOne'
  BY <1>1 DEF StoppedOne
<1> QED BY <1>3, <1>4, <1>5

(* A stopped child that was killed is never taken for one to go on with.   *)
LEMMA ReadRequestChildren ==
    ASSUME TypeOK, InStep, Children, UNCHANGED opt, ReadRequest
    PROVE  Children'
<1> SUFFICES ASSUME ~ stop_soon PROVE (OnlyCurrent /\ Fates /\ StoppedOne)'
  BY ReadRequestFacts DEF Children
<1>1. OnlyCurrent /\ Fates /\ StoppedOne
  BY ReadRequestFacts DEF Children
<1>2. pc = "pid" /\ srv = "wait" /\ Size(ctl, 1) /\ Size(st, 0)
  BY ReadRequestFacts, ReadsWhenAsked
<1>3. /\ srv' \in {"reap", "fork"}
      /\ UNCHANGED <<opt, pc, afl, flags, st, srv_pid, child_stopped,
                     srv_status, kernel>>
  BY ReadRequestFacts
<1>4. srv' = "fork" /\ child_stopped => ~ (ctl[1] = TRUE)
  BY ReadRequestFacts
<1>5. OnlyCurrent'
  BY <1>1, <1>2, <1>3 DEF OnlyCurrent, Exists, Current, HasChild
<1>6. Fates'
  BY <1>1, <1>2, <1>3 DEF Fates, Fate, NotStarted, Waiting
<1>7. StoppedOne'
  BY <1>1, <1>2, <1>3, <1>4 DEF StoppedOne, WillReap, Waiting
<1> QED BY <1>5, <1>6, <1>7

(* A new child is alone: the one before it has been reaped.                *)
LEMMA ForkChildren ==
    ASSUME TypeOK, InStep, Children, UNCHANGED opt, NEW p \in Pid, Fork(p)
    PROVE  Children'
<1> SUFFICES ASSUME ~ stop_soon PROVE (OnlyCurrent /\ Fates /\ StoppedOne)'
  BY DEF Fork, NewChild, Children
<1>1. OnlyCurrent /\ Fates /\ StoppedOne
  BY DEF Fork, NewChild, Children
<1>2. /\ srv = "fork" /\ srv' = "tell" /\ srv_pid' = p /\ ~ child_stopped
      /\ proc' = [proc EXCEPT ![p] = "running"]
      /\ UNCHANGED <<pc, afl, flags, pipes, child_stopped, srv_status, term,
                     really>>
  BY DEF Fork, NewChild, MustFork
<1>3. pc = "pid" /\ ~ no_forkserver /\ Size(st, 0) /\ Size(ctl, 0)
  BY <1>2, ReadsWhenAsked
<1>4. OnlyCurrent'
  BY <1>1, <1>2, <1>3 DEF OnlyCurrent, Exists, Current, HasChild, TypeOK
<1>5. really' = "nothing" /\ proc'[p] = "running"
  BY <1>1, <1>2, <1>3 DEF Fates, NotStarted, TypeOK
<1>6. Fates'
  BY <1>2, <1>3, <1>5 DEF Fates, Fate, NotStarted, Waiting
<1>7. StoppedOne'
  BY <1>2 DEF StoppedOne
<1> QED BY <1>4, <1>6, <1>7

(* The child that goes on is stopped, not killed.                          *)
LEMMA ContinueChildren ==
    ASSUME TypeOK, InStep, Children, UNCHANGED opt, Continue
    PROVE  Children'
<1> SUFFICES ASSUME ~ stop_soon PROVE (OnlyCurrent /\ Fates /\ StoppedOne)'
  BY DEF Continue, Children
<1>1. OnlyCurrent /\ Fates /\ StoppedOne
  BY DEF Continue, Children
<1>2. /\ srv = "fork" /\ srv' = "tell" /\ child_stopped /\ ~ child_stopped'
      /\ proc' = [p \in Pid |-> IF p = srv_pid /\ proc[p] = "stopped"
                                  THEN "running" ELSE proc[p]]
      /\ UNCHANGED <<pc, afl, flags, pipes, srv_pid, srv_status, term, really>>
  BY DEF Continue, MustFork
<1>3. pc = "pid" /\ ~ no_forkserver /\ Size(st, 0) /\ Size(ctl, 0)
  BY <1>2, ReadsWhenAsked
<1>4. srv_pid \in Pid /\ proc[srv_pid] = "stopped"
  BY <1>1, <1>2, <1>3 DEF StoppedOne, WillReap, Waiting, InStep
<1>5. really' = "nothing" /\ proc'[srv_pid] = "running"
  BY <1>1, <1>2, <1>3, <1>4 DEF Fates, NotStarted
<1>6. OnlyCurrent'
  BY <1>1, <1>2, <1>3, <1>4 DEF OnlyCurrent, Exists, Current, HasChild
<1>7. Fates'
  BY <1>2, <1>3, <1>5 DEF Fates, Fate, NotStarted, Waiting
<1>8. StoppedOne'
  BY <1>2 DEF StoppedOne
<1> QED BY <1>6, <1>7, <1>8

(* The timer kills only a child that has not ended, and leaves a mark.     *)
LEMMA TimeoutChildren ==
    ASSUME TypeOK, InStep, Children, UNCHANGED opt, Timeout
    PROVE  Children'
<1> SUFFICES ASSUME ~ stop_soon PROVE (OnlyCurrent /\ Fates /\ StoppedOne)'
  BY DEF Timeout, Children
<1>1. OnlyCurrent /\ Fates /\ StoppedOne
  BY DEF Timeout, Children
<1>2. /\ timer /\ pc \notin {"fatal", "exited"}
      /\ UNCHANGED <<opt, pc, afl, stop_soon, pipes, srv_pid, child_stopped,
                     srv_status, cycle_cnt, term, really>>
  BY DEF Timeout, Gone
<1>3. pc \in Waiting \cup {"init", "up", "clear", "disarm"}
  BY <1>2 DEF InStep, TypeOK, Running, Waiting
<1>4. CASE child_pid > 0 /\ child_timed_out' /\ proc' = Killed(child_pid)
           /\ srv' = srv
  <2>1. \A q \in Pid : proc'[q] = IF q = child_pid /\ Alive(q) THEN "KILL"
                                  ELSE proc[q]
    BY <1>4 DEF Killed
  <2>2. \A q : Fate(q) => Fate(q)'
    BY <1>2, <1>4 DEF Fate
  <2>3. \A q \in Pid : Fate(proc[q]) => Fate(proc[q])'
    <3> TAKE q \in Pid
    <3>1. CASE q = child_pid /\ Alive(q)
      BY <1>2, <1>4, <2>1, <3>1 DEF Fate, Alive
    <3>2. CASE ~ (q = child_pid /\ Alive(q))
      BY <1>2, <1>4, <2>1, <3>2 DEF Fate
    <3> QED BY <3>1, <3>2
  <2>4. OnlyCurrent'
    BY <1>1, <1>2, <1>4, <2>1 DEF OnlyCurrent, Exists, Current, HasChild, Alive
  <2>5. Fates'
    <3>1. no_forkserver /\ pc \in Waiting => Fate(proc[child_pid])'
      BY <1>1, <1>2, <2>3, HeadIsRight DEF Fates
    <3>2. srv \in {"tell", "waitpid"} => Fate(proc[srv_pid])'
      BY <1>1, <1>2, <2>3 DEF Fates, InStep
    <3> QED BY <1>1, <1>2, <1>4, <2>2, <3>1, <3>2 DEF Fates, NotStarted
  <2>6. StoppedOne'
    <3>1. CASE child_stopped
      <4>1. srv_pid \in Pid /\ pc \notin {"init", "up"}
        BY <3>1 DEF InStep, Handshake
      <4> QED BY <1>1, <1>2, <1>3, <1>4, <2>1, <4>1 DEF StoppedOne, WillReap
    <3> QED BY <3>1, <1>2 DEF StoppedOne
  <2> QED BY <2>4, <2>5, <2>6
<1>5. CASE child_pid = -1 /\ ~ no_forkserver /\ child_timed_out'
           /\ srv' = "dead" /\ proc' = proc
  <2>1. pc \in {"init", "up"} /\ ~ child_stopped
    BY <1>3, <1>5, HeadIsRight DEF InStep, Handshake
  <2>2. srv \notin {"tell", "waitpid"}
    BY <2>1 DEF InStep, Handshake, Silent, Between
  <2>3. \A i \in {1, 2} : ~ (i <= Len(st) /\ st[i].tag = "status")
    BY <2>1 DEF InStep, Handshake, Silent, Between, TypeOK
  <2> QED
    BY <1>1, <1>2, <1>5, <2>1, <2>2, <2>3
    DEF OnlyCurrent, Exists, Current, HasChild, Fates, NotStarted, StoppedOne,
        Waiting
<1>6. CASE UNCHANGED <<child_timed_out, srv, proc>>
  BY <1>1, <1>2, <1>6
  DEF OnlyCurrent, Exists, Current, HasChild, Fates, Fate, NotStarted,
      StoppedOne, WillReap
<1> QED BY <1>4, <1>5, <1>6 DEF Timeout

LEMMA ChildrenNext ==
    ASSUME TypeOK, InStep, Children, [Next]_vars PROVE Children'
<1> USE DEF TypeOK, Option, Death, InStep, Handshake, Silent, AwaitsPid,
            AwaitsStatus, Waiting, Between, Children, Fate, Fates, OnlyCurrent,
            HasChild, Current, StoppedOne, WillReap, NotStarted, Exists
<1>1. ASSUME UNCHANGED opt, Hello PROVE Children'
  BY <1>1, HelloFacts DEF Hello, Gone
<1>2. ASSUME UNCHANGED opt, ReadRequest PROVE Children'
  <2> HIDE DEF TypeOK, InStep, Children
  <2> QED BY <1>2, ReadRequestChildren
<1>3. ASSUME UNCHANGED opt, ReapKilled PROVE Children'
  BY <1>3 DEF ReapKilled
<1>4. ASSUME NEW p \in Pid, UNCHANGED opt, Fork(p) PROVE Children'
  <2> HIDE DEF TypeOK, InStep, Children
  <2> QED BY <1>4, ForkChildren
<1>5. ASSUME UNCHANGED opt, Continue PROVE Children'
  <2> HIDE DEF TypeOK, InStep, Children
  <2> QED BY <1>5, ContinueChildren
<1>6. ASSUME UNCHANGED opt, TellPid PROVE Children'
  BY <1>6, TellPidFacts DEF TellPid, Gone
<1>7. ASSUME UNCHANGED opt, WaitChild PROVE Children'
  BY <1>7 DEF WaitChild, ReportsStop
<1>8. ASSUME UNCHANGED opt, RelayStatus PROVE Children'
  BY <1>8, RelayStatusFacts DEF RelayStatus, Gone
<1>9. ASSUME UNCHANGED opt, WriteRequest PROVE Children'
  BY <1>9, WriteRequestFacts DEF WriteRequest
<1>10. ASSUME UNCHANGED opt, NoServer PROVE Children'
  BY <1>10 DEF NoServer
<1>11. ASSUME UNCHANGED opt, ReadPid PROVE Children'
  BY <1>11, ReadFacts DEF ReadPid
<1>12. ASSUME UNCHANGED opt, ArmTimer PROVE Children'
  BY <1>12 DEF ArmTimer
<1>13. ASSUME UNCHANGED opt, SendReturns PROVE Children'
  BY <1>13 DEF SendReturns
<1>14. ASSUME UNCHANGED opt, SendDone PROVE Children'
  BY <1>14 DEF SendDone, Alive
<1>15. ASSUME UNCHANGED opt, LingerEnds PROVE Children'
  BY <1>15 DEF LingerEnds
<1>16. ASSUME UNCHANGED opt, WaitDirectly PROVE Children'
  BY <1>16 DEF WaitDirectly
<1>17. ASSUME UNCHANGED opt, ReadStatus PROVE Children'
  BY <1>17, ReadFacts DEF ReadStatus
<1>18. ASSUME UNCHANGED opt, ClearPid PROVE Children'
  BY <1>18 DEF ClearPid
<1>19. ASSUME UNCHANGED opt, DisarmTimer PROVE Children'
  BY <1>19 DEF DisarmTimer
<1>20. ASSUME UNCHANGED opt, Report PROVE Children'
  BY <1>20 DEF Report, TimedOut, Fault
<1>21. ASSUME NEW p \in Pid, UNCHANGED opt, ForkDirectly(p) PROVE Children'
  BY <1>21 DEF ForkDirectly, NewChild
<1>22. ASSUME UNCHANGED opt, Timeout PROVE Children'
  <2> HIDE DEF TypeOK, InStep, Children
  <2> QED BY <1>22, TimeoutChildren
<1>23. ASSUME NEW p \in Pid, UNCHANGED opt, InitReaps(p) PROVE Children'
  BY <1>23 DEF InitReaps
<1>24. ASSUME NEW p \in Pid, UNCHANGED opt, Complete(p) PROVE Children'
  <2>1. Fate("exit")' /\ Fate("stopped")'
    BY <1>24 DEF Complete
  <2> HIDE DEF TypeOK, InStep, Children, Fate
  <2>2. CASE proc' = [proc EXCEPT ![p] = "exit"]
    BY <1>24, <2>1, <2>2, ChildStep DEF Complete
  <2>3. CASE proc' = [proc EXCEPT ![p] = "stopped"]
    BY <1>24, <2>1, <2>3, ChildStep DEF Complete
  <2> QED BY <1>24, <2>2, <2>3 DEF Complete
<1>25. ASSUME NEW p \in Pid, UNCHANGED opt, Crash(p) PROVE Children'
  <2>1. Fate("SEGV")'
    BY <1>25 DEF Crash
  <2> HIDE DEF TypeOK, InStep, Children, Fate
  <2> QED BY <1>25, <2>1, ChildStep DEF Crash
<1>26. ASSUME NEW p \in Pid, UNCHANGED opt, Terminate(p) PROVE Children'
  <2>1. Fate("TERM")'
    BY <1>26 DEF Terminate
  <2> HIDE DEF TypeOK, InStep, Children, Fate
  <2> QED BY <1>26, <2>1, ChildStep DEF Terminate
<1>27. ASSUME UNCHANGED opt, ServerExits PROVE Children'
  BY <1>27 DEF ServerExits, MustFork, Gone
<1>28. ASSUME UNCHANGED opt, ReadHello PROVE Children'
  BY <1>28, ReadFacts DEF ReadHello
<1>29. ASSUME UNCHANGED opt, HandshakeFails PROVE Children'
  BY <1>29 DEF HandshakeFails
<1>30. ASSUME UNCHANGED opt, ServerIsUp PROVE Children'
  BY <1>30 DEF ServerIsUp
<1>31. ASSUME UNCHANGED opt, RunTarget PROVE Children'
  BY <1>31 DEF RunTarget
<1>32. ASSUME UNCHANGED opt, StopSignal PROVE Children'
  BY <1>32 DEF StopSignal, KillBoth, Gone, Killed, Alive
<1>33. ASSUME UNCHANGED opt, Leave PROVE Children'
  BY <1>33 DEF Leave
<1>34. ASSUME UNCHANGED opt, LeaveByItself PROVE Children'
  BY <1>34 DEF LeaveByItself, KillBoth, Killed, Alive
<1>35. CASE UNCHANGED vars
  BY <1>35 DEF vars
<1> HIDE DEF TypeOK, Option, Death, InStep, Handshake, Silent, AwaitsPid,
             AwaitsStatus, Waiting, Between, Children, Fate, Fates,
             OnlyCurrent, HasChild, Current, StoppedOne, WillReap, NotStarted,
             Exists
<1> QED
  BY <1>1, <1>2, <1>3, <1>4, <1>5, <1>6, <1>7, <1>8, <1>9, <1>10, <1>11, <1>12,
     <1>13, <1>14, <1>15, <1>16, <1>17, <1>18, <1>19, <1>20, <1>21, <1>22,
     <1>23, <1>24, <1>25, <1>26, <1>27, <1>28, <1>29, <1>30, <1>31, <1>32,
     <1>33, <1>34, <1>35
  DEF Next, Server, Run, Kernel, Child, Rest
-----------------------------------------------------------------------------
(* A fault is set by Report, from the status of the child and the mark.    *)
LEMMA FaultNext ==
    ASSUME TypeOK, InStep, Children, FaultIsReal, [Next]_vars
    PROVE  FaultIsReal'
<1> SUFFICES ASSUME pc' = "idle", ~ stop_soon', runs' > 0
             PROVE  FaultIsReal'
  BY DEF FaultIsReal
<1>1. CASE Report /\ UNCHANGED opt
  <2>1. /\ pc = "report" /\ ~ stop_soon /\ fault' = Fault
        /\ UNCHANGED <<status, really, child_timed_out>>
    BY <1>1 DEF Report
  <2>2. Fate(status) /\ status \in Status
    BY <2>1 DEF Children, Fates, TypeOK
  <2>3. \/ status \in {"SEGV", "KILL", "TERM"}
        \/ status \in {"exit", "stopped"}
    BY <2>2 DEF Status, Death
  <2>4. \/ Fault = "crash" /\ really = "crashed"
        \/ Fault = "timeout" /\ really \in {"nothing", "done"}
        \/ Fault = "none" /\ really = "done"
        \/ Fault = "none" /\ really = "terminated" /\ terminate_child
    BY <2>1, <2>2, <2>3 DEF Fault, Fate
  <2> QED BY <1>1, <2>1, <2>4 DEF FaultIsReal
<1>2. CASE ServerIsUp /\ UNCHANGED opt
  BY <1>2 DEF ServerIsUp, InStep
<1>3. CASE UNCHANGED <<opt, pc, fault, runs, stop_soon, really>>
  BY <1>3 DEF FaultIsReal
<1>4. CASE Server
  BY <1>3, <1>4
  DEF Server, Hello, ReadRequest, ReapKilled, Fork, NewChild, Continue,
      TellPid, WaitChild, RelayStatus
<1>5. CASE Run
  BY <1>1, <1>5
  DEF Run, WriteRequest, NoServer, ReadPid, ArmTimer, SendReturns, SendDone,
      LingerEnds, WaitDirectly, ReadStatus, ClearPid, DisarmTimer,
      ForkDirectly
<1>6. CASE Kernel
  BY <1>3, <1>6 DEF Kernel, Timeout, InitReaps
<1>7. CASE Child
  <2>1. PICK p \in Pid : /\ proc[p] = "running"
                         /\ UNCHANGED <<pc, stop_soon>>
    BY <1>7 DEF Child, Complete, Crash, Terminate
  <2> QED BY <2>1, RunnerFacts DEF Waiting
<1>8. CASE Rest
  BY <1>2, <1>3, <1>8
  DEF Rest, ServerExits, ReadHello, HandshakeFails, RunTarget, StopSignal,
      Leave, LeaveByItself
<1>9. CASE UNCHANGED vars
  BY <1>3, <1>9 DEF vars
<1> QED BY <1>4, <1>5, <1>6, <1>7, <1>8, <1>9 DEF Next

LEMMA InvInit == Init => Inv
<1> SUFFICES ASSUME Init PROVE Inv
  OBVIOUS
<1>0. opt \in Option /\ no_forkserver \in BOOLEAN
  BY DEF Init, Option
<1>1. TypeOK
  <2>1. timer \in BOOLEAN
    BY <1>0, Zenon DEF Init
  <2>2. ctl \in Seq(BOOLEAN) /\ st \in Seq(Message)
    BY DEF Init
  <2>3. pc \in {"idle", "init"} /\ srv \in {"dead", "hello"}
    BY <1>0 DEF Init
  <2>4. /\ child_timed_out \in BOOLEAN /\ prev_timed_out \in BOOLEAN
        /\ stop_soon \in BOOLEAN /\ child_stopped \in BOOLEAN
        /\ child_pid = -1 /\ status = "exit" /\ fault = "none" /\ runs = 0
        /\ srv_pid = 0 /\ srv_status = "exit" /\ term = {}
        /\ really = "nothing"
    BY DEF Init
  <2>5. /\ proc \in [Pid -> Death \cup {"none", "running", "stopped", "gone"}]
        /\ cycle_cnt \in [Pid -> Int]
    BY DEF Init
  <2> QED
    BY <1>0, <2>1, <2>2, <2>3, <2>4, <2>5 DEF TypeOK, Running, Status, Death
<1>2. InStep
  <2>1. st = <<>> /\ ctl = <<>> /\ Len(st) = 0 /\ Len(ctl) = 0
    BY DEF Init
  <2>2. CASE no_forkserver
    <3>1. ~ timer
      BY <2>2, Zenon DEF Init
    <3>2. pc = "idle" /\ srv = "dead" /\ ~ child_stopped /\ ~ stop_soon
      BY <2>2 DEF Init
    <3> QED BY <2>1, <2>2, <3>1, <3>2 DEF InStep, Silent, Waiting, Between
  <2>3. CASE ~ no_forkserver
    BY <2>1, <2>3 DEF Init, InStep, Handshake, Waiting, Between
  <2> QED BY <2>2, <2>3
<1>3. Children
  BY DEF Init, Children, OnlyCurrent, Exists, Fates, NotStarted, StoppedOne,
         Waiting
<1>4. FaultIsReal
  BY DEF Init, FaultIsReal
<1> QED BY <1>1, <1>2, <1>3, <1>4 DEF Inv

LEMMA InvNext == Inv /\ [Next]_vars => Inv'
BY TypeOKNext, InStepNext, ChildrenNext, FaultNext DEF Inv

LEMMA InvHolds == Spec => []Inv
BY InvInit, InvNext, PTL DEF Spec

(* The variables of afl-fuzz, of the fork server and of the kernel keep    *)
(* their types; what comes out of the pipe is what was put in.             *)
THEOREM TypeCorrect == Spec => []TypeOK
<1>1. Inv => TypeOK
  BY DEF Inv
<1> QED BY <1>1, InvHolds, PTL

(* The pipe carries a process id and a status in turn, and run_target      *)
(* never reads one for the other, also when the fork server dies between   *)
(* the two (afl-fuzz.c:2689, 2717).                                        *)
THEOREM MessagesInTurn == Spec => []PipeInStep
<1>1. Inv => PipeInStep
  BY HeadIsRight DEF Inv
<1> QED BY <1>1, InvHolds, PTL

(* A child runs only while run_target waits for it, and alone: nothing     *)
(* else writes to trace_bits.                                              *)
THEOREM OneChildAtATime == Spec => []NoStray
<1>1. ASSUME Inv PROVE NoStray
  <2> SUFFICES ASSUME NEW p \in Pid, proc[p] = "running", ~ stop_soon
               PROVE  /\ pc \in {"pid", "arm", "net", "linger", "wait"}
                      /\ \A q \in Pid \ {p} : proc[q] \in {"none", "gone"}
    BY DEF NoStray
  <2>1. pc \in Waiting \cup {"pid"} /\ OnlyCurrent /\ p = Current
    BY <1>1, RunnerFacts DEF Inv
  <2> QED BY <2>1 DEF Waiting, OnlyCurrent, Exists
<1> QED BY <1>1, InvHolds, PTL

(* The fault that run_target returns is what happened to this run's child: *)
(* no crash of another run, no crash reported as a timeout, no run that    *)
(* was cut short reported as done.                                         *)
THEOREM FaultsAreReal == Spec => []FaultIsReal
<1>1. Inv => FaultIsReal
  BY DEF Inv
<1> QED BY <1>1, InvHolds, PTL
=============================================================================

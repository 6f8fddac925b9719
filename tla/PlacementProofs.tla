-------------------------- MODULE PlacementProofs ---------------------------
(***************************************************************************)
(* Proofs about Placement: type correctness; that a command wins over the  *)
(* two ways in which the daemon places processes by itself; and that, when *)
(* the daemon has nothing left to do, every process of a listed program is *)
(* where its list puts it.                                                 *)
(***************************************************************************)
EXTENDS Placement, TLAPS

(* No client acts for a process other than itself, no process becomes a    *)
(* client once it is another program, and no number is used twice.         *)
OwnClients == Disturbances \cap {"pid_option", "wrap", "reuse"} = {}

(* A process that is not a client, and will not be one. *)
Sealed(p) == proc[p].st # "unused" /\ (Live(p) => proc[p].exe # Cgproxy)

SelfActing == {"main", "execsnoop"}

(* What the threads that act by themselves have in hand is sealed; once    *)
(* they have seen that it is in no preserved cgroup, no command stands.    *)
Hand(t) ==
  LET p == job[t].pid IN
  /\ pc[t] = "match" /\ job[t].path # Cgproxy => Sealed(p)
  /\ pc[t] \in {"cgroup", "belong"} \cup AttachLabel => Sealed(p)
  /\ pc[t] \in {"belong"} \cup AttachLabel =>
       ~(Live(p) /\ granted[p] \in Dir)

HandInv == \A t \in SelfActing : Hand(t)

ScanInv == \A p \in scan.pids : Sealed(p)

(* The process that socketserver has in hand is a client that waits. *)
ClientInv ==
  LET p == job["socketserver"].pid IN
  pc["socketserver"] \in AttachLabel =>
    /\ proc[p].st # "unused"
    /\ Live(p) => proc[p].exe = Cgproxy /\ granted[p] = "none"

CommandInv == TypeOK /\ CommandWins /\ HandInv /\ ScanInv /\ ClientInv

-----------------------------------------------------------------------------
(* There is a job, so the one that idle threads are said to have is one. *)
LEMMA NoJobType == NoJob \in Job
<1>1. PICK p \in Pid : TRUE
  BY PlacementAssumption
<1>2. "proxy" \in Dir /\ Preserved["proxy"] \in Cgroup /\ Cgproxy \in Program
  BY PlacementAssumption DEF Dir
<1>3. [pid |-> p, dir |-> "proxy", path |-> Cgproxy, cg |-> Preserved["proxy"]]
        \in Job
  BY <1>1, <1>2 DEF Job
<1> QED
  BY <1>3 DEF NoJob

(* No configuration lists the client. *)
LEMMA ListedPrograms ==
  ASSUME NEW c \in Config, NEW d \in Dir
  PROVE  c.program[d] \subseteq Program \ {Cgproxy}
BY PlacementAssumption

(* Nor has any list that main may go astray in. *)
LEMMA EverListedPrograms == EverListed \subseteq Program \ {Cgproxy}
BY ListedPrograms DEF EverListed

(* The records of the two kinds that the daemon makes up. *)
LEMMA NoProcessType ==
  ASSUME NEW st \in {"unused", "dead"}
  PROVE  NoProcess(st) \in Process
BY PlacementAssumption DEF NoProcess, Process, Dir

(* What a call and a return leave in pc, job and granted is of their type. *)
LEMMA ControlType ==
  ASSUME TypeOK, NEW t \in Thread
  PROVE  /\ \A l \in Label : Goto(t, l) => pc' \in [Thread -> Label]
         /\ \A p \in Pid, d \in Dir : CallAttach(t, p, d) =>
              pc' \in [Thread -> Label] /\ job' \in [Thread -> Job]
         /\ \A st \in {"success", "error", "ignored"} : Return(t, st) =>
              /\ pc' \in [Thread -> Label] /\ job' \in [Thread -> Job]
              /\ granted' \in [Pid -> Command]
<1>1. \A l \in Label : Goto(t, l) => pc' \in [Thread -> Label]
  BY DEF Goto, TypeOK
<1>2. \A p \in Pid, d \in Dir : CallAttach(t, p, d) =>
        pc' \in [Thread -> Label] /\ job' \in [Thread -> Job]
  <2> TAKE p \in Pid, d \in Dir
  <2>1. [NoJob EXCEPT !.pid = p, !.dir = d] \in Job
    BY NoJobType DEF Job
  <2>2. "dir" \in Label
    BY DEF Label, AttachLabel
  <2> QED
    BY <1>1, <2>1, <2>2 DEF CallAttach, TypeOK
<1>3. Loop[t] \in Label
  BY DEF Loop, Thread, Label
<1>4. job[t].pid \in Pid /\ job[t].dir \in Dir
  BY DEF TypeOK, Job
<1>5. \A st \in {"success", "error", "ignored"} : Return(t, st) =>
        /\ pc' \in [Thread -> Label] /\ job' \in [Thread -> Job]
        /\ granted' \in [Pid -> Command]
  BY <1>1, <1>3, <1>4, NoJobType DEF Return, TypeOK, Command
<1> QED
  BY <1>1, <1>2, <1>5

(* A write to cgroup.procs leaves a process where processes can be. *)
LEMMA WriteType ==
  ASSUME TypeOK, NEW p \in Pid, NEW d \in Dir, NEW st, Write2procs(p, d, st)
  PROVE  proc' \in [Pid -> Process]
<1>1. Preserved[d] \in Cgroup
  BY PlacementAssumption
<1>2. proc[p] \in Process
  BY DEF TypeOK
<1>3. [proc[p] EXCEPT !.cg = Preserved[d]] \in Process
  BY <1>1, <1>2 DEF Process
<1>4. proc' = proc \/ proc' = [proc EXCEPT ![p] = [@ EXCEPT !.cg = Preserved[d]]]
  BY DEF Write2procs
<1> QED
  BY <1>3, <1>4 DEF TypeOK

(* Every step of the processes and of the daemon keeps the types. *)
LEMMA TypeStep == TypeOK /\ [Next]_vars => TypeOK'
<1> SUFFICES ASSUME TypeOK, [Next]_vars PROVE TypeOK'
  OBVIOUS
<1> USE DEF env, snoop, conf
<1>1. ASSUME NEW p \in Pid, SysExitExecve(p)
      PROVE  /\ events' \in [Pid -> 0..MaxEvents]
             /\ entered' \subseteq Pid /\ missed' \subseteq Pid
  <2>1. events' \in [Pid -> 0..MaxEvents]
    BY <1>1, PlacementAssumption DEF SysExitExecve, TypeOK
  <2>2. entered' \subseteq Pid /\ missed' \subseteq Pid
    BY <1>1 DEF SysExitExecve, TypeOK
  <2> QED
    BY <2>1, <2>2
<1>2. ASSUME NEW p \in Pid, NEW prog \in Program, NEW cg \in Cgroup,
             Launch(p, prog, cg)
      PROVE  TypeOK'
  <2>1. proc' \in [Pid -> Process]
    BY <1>2 DEF Launch, TypeOK, Process
  <2> QED
    BY <1>1, <1>2, <2>1 DEF Launch, TypeOK, Command
<1>3. ASSUME NEW p \in Pid, NEW prog \in Program, Exec(p, prog)
      PROVE  TypeOK'
  <2>1. [proc[p] EXCEPT !.exe = prog] \in Process
    BY DEF TypeOK, Process
  <2>2. proc' \in [Pid -> Process]
    BY <1>3, <2>1 DEF Exec, TypeOK
  <2> QED
    BY <1>1, <1>3, <2>2 DEF Exec, TypeOK, Command
<1>4. ASSUME NEW p \in Pid, NEW child \in Pid, Fork(p, child)
      PROVE  TypeOK'
  BY <1>4 DEF Fork, TypeOK
<1>5. ASSUME NEW p \in Pid, Exit(p) PROVE TypeOK'
  BY <1>5, NoProcessType DEF Exit, TypeOK, Command
<1>6. ASSUME NEW p \in Pid, NEW cg \in Cgroup, Move(p, cg) PROVE TypeOK'
  <2>1. [proc[p] EXCEPT !.cg = cg] \in Process
    BY DEF TypeOK, Process
  <2> QED
    BY <1>6, <2>1 DEF Move, TypeOK, Command
<1>7. ASSUME NEW t \in Thread, Attach(t) PROVE TypeOK'
  <2>1. job[t].pid \in Pid /\ job[t].dir \in Dir
    BY DEF TypeOK, Job
  <2>2. {"where", "write", "recheck", "rewrite"} \subseteq Label
    BY DEF Label, AttachLabel
  <2>3. CASE AttachDir(t)
    <3>1. pc' \in [Thread -> Label] /\ job' \in [Thread -> Job]
            /\ granted' \in [Pid -> Command]
      BY <2>3, <2>2, ControlType DEF AttachDir, TypeOK
    <3> QED
      BY <2>3, <3>1 DEF AttachDir, TypeOK
  <2>4. CASE AttachWhere(t)
    <3>1. pc' \in [Thread -> Label] /\ job' \in [Thread -> Job]
            /\ granted' \in [Pid -> Command]
      BY <2>4, <2>2, ControlType DEF AttachWhere, TypeOK
    <3> QED
      BY <2>4, <3>1 DEF AttachWhere, TypeOK
  <2>5. CASE AttachWrite(t)
    <3>1. proc' \in [Pid -> Process]
      BY <2>5, <2>1, WriteType DEF AttachWrite
    <3>2. pc' \in [Thread -> Label] /\ job' \in [Thread -> Job]
            /\ granted' \in [Pid -> Command]
      BY <2>5, <2>2, ControlType DEF AttachWrite, TypeOK
    <3> QED
      BY <2>5, <3>1, <3>2 DEF AttachWrite, TypeOK
  <2>6. CASE AttachRecheck(t)
    <3>1. pc' \in [Thread -> Label] /\ job' \in [Thread -> Job]
            /\ granted' \in [Pid -> Command]
      BY <2>6, <2>2, ControlType DEF AttachRecheck, TypeOK
    <3> QED
      BY <2>6, <3>1 DEF AttachRecheck, TypeOK
  <2>7. CASE AttachRewrite(t)
    <3>1. proc' \in [Pid -> Process]
      BY <2>7, <2>1, WriteType DEF AttachRewrite, AfterRewrite
    <3>2. pc' \in [Thread -> Label] /\ job' \in [Thread -> Job]
            /\ granted' \in [Pid -> Command]
      BY <2>7, ControlType DEF AttachRewrite, AfterRewrite
    <3> QED
      BY <2>7, <3>1, <3>2 DEF AttachRewrite, AfterRewrite, TypeOK
  <2> QED
    BY <1>7, <2>3, <2>4, <2>5, <2>6, <2>7 DEF Attach
<1>8. ASSUME NEW t \in Thread, Classify(t) PROVE TypeOK'
  <2>1. job[t].pid \in Pid /\ job[t].dir \in Dir /\ job[t] \in Job
    BY DEF TypeOK, Job
  <2>2. {"belong", "match"} \subseteq Label
    BY DEF Label
  <2>3. CASE GetCgroup(t)
    <3>1. proc[job[t].pid].cg \in Cgroup
      BY <2>1 DEF TypeOK, Process
    <3>2. [job[t] EXCEPT !.cg = proc[job[t].pid].cg] \in Job
      BY <2>1, <3>1 DEF Job
    <3>3. pc' \in [Thread -> Label] /\ job' \in [Thread -> Job]
            /\ granted' \in [Pid -> Command]
      BY <2>3, <2>2, <3>2, ControlType DEF GetCgroup, LeaveAlone, TypeOK
    <3> QED
      BY <2>3, <3>3 DEF GetCgroup, LeaveAlone, TypeOK
  <2>4. CASE CheckBelong(t)
    <3>1. [job[t] EXCEPT !.dir = "proxy"] \in Job
      BY <2>1 DEF Job, Dir
    <3>2. pc' \in [Thread -> Label] /\ job' \in [Thread -> Job]
            /\ granted' \in [Pid -> Command]
      BY <2>4, <2>1, <2>2, <3>1, ControlType DEF CheckBelong, TypeOK
    <3> QED
      BY <2>4, <3>2 DEF CheckBelong, TypeOK
  <2> QED
    BY <1>8, <2>3, <2>4 DEF Classify
<1>9. ASSUME Execsnoop PROVE TypeOK'
  <2> "execsnoop" \in Thread /\ {"poll", "off", "match", "cgroup"} \subseteq Label
    BY DEF Thread, Label
  <2>1. CASE OpenBuffer
    <3>1. MayBeInside \subseteq Pid
      BY DEF MayBeInside
    <3> QED
      BY <2>1, <3>1, ControlType DEF OpenBuffer, TypeOK
  <2>2. CASE PollInterrupted
    <3>1. events' \in [Pid -> 0..MaxEvents]
      BY <2>2, PlacementAssumption DEF PollInterrupted
    <3>2. pc' \in [Thread -> Label]
      BY <2>2, ControlType DEF PollInterrupted
    <3> QED
      BY <2>2, <3>1, <3>2 DEF PollInterrupted, TypeOK
  <2>3. ASSUME NEW p \in Pid, HandleEvent(p) PROVE TypeOK'
    <3>1. [job["execsnoop"] EXCEPT !.pid = p, !.dir = "noproxy",
                                   !.path = proc[p].exe] \in Job
      <4>1. proc[p].exe \in Program
        BY DEF TypeOK, Process
      <4>2. job["execsnoop"] \in Job /\ "noproxy" \in Dir
        BY DEF TypeOK, Dir
      <4> QED
        BY <4>1, <4>2 DEF Job
    <3>2. events' \in [Pid -> 0..MaxEvents]
      BY <2>3, PlacementAssumption DEF HandleEvent, Pending, TypeOK
    <3>3. pc' \in [Thread -> Label] /\ job' \in [Thread -> Job]
      BY <2>3, <3>1, ControlType DEF HandleEvent, Pending, TypeOK
    <3> QED
      BY <2>3, <3>2, <3>3 DEF HandleEvent, Pending, TypeOK
  <2>4. CASE MatchProgram
    <3>1. [job["execsnoop"] EXCEPT !.dir = "proxy"] \in Job
      BY DEF TypeOK, Job, Dir
    <3>2. pc' \in [Thread -> Label] /\ job' \in [Thread -> Job]
            /\ granted' \in [Pid -> Command]
      BY <2>4, <3>1, ControlType DEF MatchProgram, NextList, TypeOK
    <3> QED
      BY <2>4, <3>2 DEF MatchProgram, NextList, TypeOK
  <2> QED
    BY <1>7, <1>8, <1>9, <2>1, <2>2, <2>3, <2>4 DEF Execsnoop
<1>10. ASSUME Main PROVE TypeOK'
  <2> "main" \in Thread /\ {"next", "done", "cgroup"} \subseteq Label
    BY DEF Thread, Label
  <2>1. \A d \in Dir : config.program[d] \subseteq Program \ {Cgproxy}
                       /\ incoming.program[d] \subseteq Program \ {Cgproxy}
    BY ListedPrograms DEF TypeOK
  <2>2. CASE StartScan
    BY <2>1, <2>2, ControlType DEF StartScan, TypeOK, Dir
  <2>3. CASE GiveUp
    BY <2>3, ControlType DEF GiveUp, TypeOK
  <2>4. ASSUME NEW p \in Pid, ScanPid(p) PROVE TypeOK'
    <3>1. [job["main"] EXCEPT !.pid = p, !.dir = scan.dir] \in Job
      BY DEF TypeOK, Job
    <3>2. job' \in [Thread -> Job]
      BY <2>4, <3>1 DEF ScanPid, TypeOK
    <3>3. pc' \in [Thread -> Label]
      BY <2>4, ControlType DEF ScanPid
    <3> QED
      BY <2>4, <3>2, <3>3 DEF ScanPid, TypeOK
  <2>5. ASSUME NEW path \in Program, ScanPath(path) PROVE TypeOK'
    BY <2>5 DEF ScanPath, TypeOK
  <2>6. CASE ScanNextList
    BY <2>1, <2>6, ControlType DEF ScanNextList, TypeOK, Dir
  <2>7. CASE ScanAstray
    BY <2>7, EverListedPrograms DEF ScanAstray, TypeOK
  <2> QED
    BY <1>7, <1>8, <1>10, <2>2, <2>3, <2>4, <2>5, <2>6, <2>7 DEF Main
<1>11. ASSUME Socketserver PROVE TypeOK'
  <2> /\ "socketserver" \in Thread
      /\ {"accept", "load", "clean", "start"} \subseteq Label
    BY DEF Thread, Label
  <2>1. ASSUME NEW p \in Pid, NEW d \in Dir, PidMessage(p, d) PROVE TypeOK'
    <3>1. granted' \in [Pid -> Command]
      BY <2>1 DEF PidMessage, TypeOK, Command
    <3> QED
      BY <2>1, <3>1, ControlType DEF PidMessage, TypeOK
  <2>2. ASSUME NEW c \in Config, ConfigMessage(c) PROVE TypeOK'
    BY <2>2, ControlType DEF ConfigMessage, TypeOK
  <2>3. CASE LoadConfig
    BY <2>3, ControlType DEF LoadConfig, TypeOK
  <2>4. CASE ApplyClean
    BY <2>4, ControlType DEF ApplyClean, TypeOK
  <2>5. CASE ApplyStart
    BY <2>5, ControlType DEF ApplyStart, TypeOK
  <2> QED
    BY <1>7, <1>11, <2>1, <2>2, <2>3, <2>4, <2>5 DEF Socketserver
<1>12. CASE UNCHANGED vars
  BY <1>12 DEF vars, TypeOK
<1> QED
  BY <1>2, <1>3, <1>4, <1>5, <1>6, <1>9, <1>10, <1>11, <1>12
     DEF Next, Environment

(* The daemon comes up with variables of the right types. *)
LEMMA TypeInit == Init => TypeOK
<1> SUFFICES ASSUME Init PROVE TypeOK
  OBVIOUS
<1>1. events \in [Pid -> 0..MaxEvents] /\ granted \in [Pid -> Command]
  BY PlacementAssumption DEF Init, Command
<1>2. pc \in [Thread -> Label]
  BY DEF Init, Thread, Label
<1>3. job \in [Thread -> Job]
  BY NoJobType DEF Init
<1>4. scan \in [dir : Dir, paths : SUBSET (Program \ {Cgproxy}),
               pids : SUBSET Pid, astray : BOOLEAN]
  BY DEF Init, Dir
<1> QED
  BY <1>1, <1>2, <1>3, <1>4 DEF Init, TypeOK

(* The variables of the model keep their types: no thread is ever at a     *)
(* statement, or has in hand a process or a path, that does not exist.     *)
THEOREM TypeCorrect == Spec => []TypeOK
BY TypeInit, TypeStep, PTL DEF Spec

-----------------------------------------------------------------------------
(* A process that was put in a preserved cgroup is recognised there. *)
LEMMA PreservedRecognised == \A d \in Dir : InPreserved(Preserved[d])
BY DEF InPreserved, BelongToCgroup, IsPrefix, Preserved, Dir

(* Without the three excluded steps, a process that is not a client stays  *)
(* what it is, and its number is not given away.                           *)
LEMMA SealedStays ==
  ASSUME OwnClients, TypeOK, [Next]_vars, NEW p \in Pid, Sealed(p)
  PROVE  Sealed(p)'
<1> USE DEF env, snoop, conf, Sealed, Live
<1>1. ASSUME NEW q \in Pid, NEW prog \in Program, NEW cg \in Cgroup,
             Launch(q, prog, cg)
      PROVE  Sealed(p)'
  BY <1>1 DEF Launch, Fresh, OwnClients, TypeOK
<1>2. ASSUME NEW q \in Pid, NEW prog \in Program, Exec(q, prog)
      PROVE  Sealed(p)'
  BY <1>2 DEF Exec, OwnClients, TypeOK, Process
<1>3. ASSUME NEW q \in Pid, NEW child \in Pid, Fork(q, child)
      PROVE  Sealed(p)'
  BY <1>3 DEF Fork, Fresh, OwnClients, TypeOK
<1>4. ASSUME NEW q \in Pid, Exit(q) PROVE Sealed(p)'
  BY <1>4 DEF Exit, NoProcess, TypeOK
<1>5. ASSUME NEW q \in Pid, NEW cg \in Cgroup, Move(q, cg) PROVE Sealed(p)'
  BY <1>5 DEF Move, TypeOK, Process
<1>6. ASSUME NEW q \in Pid, NEW d, NEW st, Write2procs(q, d, st)
      PROVE  Sealed(p)'
  BY <1>6 DEF Write2procs, TypeOK, Process
<1>7. ASSUME NEW t \in Thread, Attach(t) PROVE Sealed(p)'
  <2>1. job[t].pid \in Pid
    BY DEF TypeOK, Job
  <2>2. proc' = proc \/ \E d, st : Write2procs(job[t].pid, d, st)
    BY <1>7 DEF Attach, AttachDir, AttachWhere, AttachWrite, AttachRecheck,
                AttachRewrite, AfterRewrite
  <2> QED
    BY <1>6, <2>1, <2>2
<1>8. ASSUME proc' = proc PROVE Sealed(p)'
  BY <1>8
<1>9. CASE Execsnoop
  BY <1>7, <1>8, <1>9 DEF Execsnoop, OpenBuffer, PollInterrupted, HandleEvent, Pending,
     MatchProgram, NextList, Classify, GetCgroup, LeaveAlone, CheckBelong, Thread
<1>10. CASE Main
  BY <1>7, <1>8, <1>10 DEF Main, StartScan, GiveUp, ScanPid, ScanPath,
     ScanNextList, ScanAstray, Classify, GetCgroup, LeaveAlone, CheckBelong, Thread
<1>11. CASE Socketserver
  BY <1>7, <1>8, <1>11 DEF Socketserver, PidMessage, ConfigMessage, LoadConfig,
     ApplyClean, ApplyStart, Thread
<1> QED
  BY <1>1, <1>2, <1>3, <1>4, <1>5, <1>8, <1>9, <1>10, <1>11
     DEF Next, Environment, vars

(* A process that is not a client, and for which no command stands, gets   *)
(* no command.                                                             *)
LEMMA UngrantedStays ==
  ASSUME OwnClients, TypeOK, ClientInv, [Next]_vars, NEW p \in Pid,
         Sealed(p), ~(Live(p) /\ granted[p] \in Dir)
  PROVE  ~(Live(p) /\ granted[p] \in Dir)'
<1> USE DEF env, snoop, conf, Sealed, Live
<1>1. ASSUME NEW q \in Pid, NEW prog \in Program, NEW cg \in Cgroup,
             Launch(q, prog, cg)
      PROVE  ~(Live(p) /\ granted[p] \in Dir)'
  BY <1>1 DEF Launch, Fresh, OwnClients, TypeOK
<1>2. ASSUME NEW q \in Pid, NEW prog \in Program, Exec(q, prog)
      PROVE  ~(Live(p) /\ granted[p] \in Dir)'
  BY <1>2 DEF Exec, OwnClients, TypeOK, Process, Dir
<1>3. ASSUME NEW q \in Pid, NEW child \in Pid, Fork(q, child)
      PROVE  ~(Live(p) /\ granted[p] \in Dir)'
  BY <1>3 DEF Fork, Fresh, OwnClients, TypeOK
<1>4. ASSUME NEW q \in Pid, Exit(q) PROVE ~(Live(p) /\ granted[p] \in Dir)'
  BY <1>4 DEF Exit, NoProcess, TypeOK
<1>5. ASSUME NEW q \in Pid, NEW cg \in Cgroup, Move(q, cg)
      PROVE  ~(Live(p) /\ granted[p] \in Dir)'
  BY <1>5 DEF Move, TypeOK, Process, Dir
<1>6. ASSUME NEW t \in Thread, Attach(t)
      PROVE  ~(Live(p) /\ granted[p] \in Dir)'
  <2>1. job[t].pid \in Pid /\ job[t].dir \in Dir
    BY DEF TypeOK, Job
  <2>2. proc'[p].st = proc[p].st
    BY <1>6, <2>1 DEF Attach, AttachDir, AttachWhere, AttachWrite,
       AttachRecheck, AttachRewrite, AfterRewrite, Write2procs, TypeOK, Process
  <2>3. \/ granted' = granted
        \/ /\ t = "socketserver" /\ pc[t] \in AttachLabel
           /\ \E c \in Command :
                granted' = [granted EXCEPT ![job[t].pid] = c]
    BY <1>6, <2>1 DEF Attach, AttachDir, AttachWhere, AttachWrite, AttachRecheck,
       AttachRewrite, AfterRewrite, Return, AttachLabel, Command
  <2>4. CASE granted' = granted
    BY <2>2, <2>4
  <2>5. CASE /\ t = "socketserver" /\ pc[t] \in AttachLabel
             /\ \E c \in Command :
                  granted' = [granted EXCEPT ![job[t].pid] = c]
    BY <2>1, <2>2, <2>5 DEF ClientInv, TypeOK
  <2> QED
    BY <2>3, <2>4, <2>5
<1>7. ASSUME proc' = proc, granted' = granted
      PROVE  ~(Live(p) /\ granted[p] \in Dir)'
  BY <1>7
<1>8. CASE Execsnoop
  BY <1>6, <1>7, <1>8 DEF Execsnoop, OpenBuffer, PollInterrupted, HandleEvent, Pending,
     MatchProgram, NextList, Classify, GetCgroup, LeaveAlone, CheckBelong, Return, Thread
<1>9. CASE Main
  BY <1>6, <1>7, <1>9 DEF Main, StartScan, GiveUp, ScanPid, ScanPath,
     ScanNextList, ScanAstray, Classify, GetCgroup, LeaveAlone, CheckBelong, Return, Thread
<1>10. ASSUME NEW q \in Pid, NEW d \in Dir, PidMessage(q, d)
       PROVE  ~(Live(p) /\ granted[p] \in Dir)'
  BY <1>10 DEF PidMessage, TypeOK, Dir
<1>11. CASE Socketserver
  BY <1>6, <1>7, <1>10, <1>11 DEF Socketserver, ConfigMessage, LoadConfig,
     ApplyClean, ApplyStart, Thread
<1> QED
  BY <1>1, <1>2, <1>3, <1>4, <1>5, <1>7, <1>8, <1>9, <1>11
     DEF Next, Environment, vars

(* A thread that does not move keeps its claim on what it has in hand,     *)
(* whatever the others do.                                                 *)
LEMMA HandStays ==
  ASSUME OwnClients, TypeOK, ClientInv, [Next]_vars, NEW t \in SelfActing,
         Hand(t), pc'[t] = pc[t], job'[t] = job[t]
  PROVE  Hand(t)'
<1>1. PICK p \in Pid : p = job[t].pid
  BY DEF SelfActing, Thread, TypeOK, Job
<1>2. Sealed(p) => Sealed(p)'
  BY SealedStays
<1>3. Sealed(p) /\ ~(Live(p) /\ granted[p] \in Dir)
        => ~(Live(p) /\ granted[p] \in Dir)'
  BY UngrantedStays
<1> QED
  BY <1>1, <1>2, <1>3 DEF Hand, Sealed, Live, AttachLabel

(* A thread moves only its own program counter and its own variables. *)
LEMMA OtherThreads ==
  ASSUME TypeOK, NEW t \in Thread, NEW u \in Thread, t # u,
         Attach(u) \/ Classify(u)
  PROVE  pc'[t] = pc[t] /\ job'[t] = job[t]
<1>1. ASSUME NEW l, Goto(u, l) PROVE pc'[t] = pc[t]
  BY <1>1 DEF Goto, TypeOK
<1>2. ASSUME NEW st, Return(u, st) PROVE pc'[t] = pc[t] /\ job'[t] = job[t]
  BY <1>1, <1>2 DEF Return, TypeOK
<1>3. CASE Attach(u)
  BY <1>1, <1>2, <1>3 DEF Attach, AttachDir, AttachWhere, AttachWrite,
     AttachRecheck, AttachRewrite, AfterRewrite
<1>4. CASE GetCgroup(u)
  BY <1>1, <1>2, <1>4 DEF GetCgroup, LeaveAlone, TypeOK
<1>5. CASE CheckBelong(u)
  BY <1>1, <1>2, <1>5 DEF CheckBelong, CallAttach, TypeOK
<1> QED
  BY <1>3, <1>4, <1>5 DEF Classify

(* Every process that a thread of the daemon has in hand for its own ends, *)
(* and not for a client, is no client and has no command to its name.      *)
LEMMA HandStep ==
  ASSUME OwnClients, CommandInv, [Next]_vars
  PROVE  HandInv'
<1> USE DEF env, snoop, conf
<1> SUFFICES ASSUME NEW t \in SelfActing PROVE Hand(t)'
  BY DEF HandInv
<1>a. TypeOK /\ CommandWins /\ Hand(t) /\ ScanInv /\ ClientInv
  BY DEF CommandInv, HandInv
<1>b. t \in Thread /\ Loop[t] \in {"next", "poll"}
  BY DEF SelfActing, Thread, Loop
<1>c. PICK p \in Pid : p = job[t].pid
  BY <1>a, <1>b DEF TypeOK, Job
<1>d. Sealed(p) => Sealed(p)'
  BY <1>a, SealedStays
<1>e. Sealed(p) /\ ~(Live(p) /\ granted[p] \in Dir)
        => ~(Live(p) /\ granted[p] \in Dir)'
  BY <1>a, UngrantedStays
<1>f. ASSUME NEW l \in Label \ ({"match", "cgroup", "belong"} \cup AttachLabel),
             pc'[t] = l
      PROVE  Hand(t)'
  BY <1>f DEF Hand, Label
<1>g. ASSUME NEW l \in Label, Goto(t, l) PROVE pc'[t] = l
  BY <1>a, <1>b, <1>g DEF Goto, TypeOK
<1>h. ASSUME NEW st, Return(t, st) PROVE Hand(t)'
  BY <1>a, <1>b, <1>f, <1>g, <1>h DEF Return, Label, AttachLabel
<1>1. ASSUME pc'[t] = pc[t], job'[t] = job[t] PROVE Hand(t)'
  BY <1>a, <1>1, HandStays
<1>2. CASE Attach(t)
  <2>1. pc[t] \in AttachLabel
    BY <1>2 DEF Attach, AttachDir, AttachWhere, AttachWrite, AttachRecheck,
       AttachRewrite, AfterRewrite, AttachLabel
  <2>2. \/ \E st : Return(t, st)
        \/ job' = job /\ \E l \in AttachLabel : Goto(t, l)
    BY <1>2 DEF Attach, AttachDir, AttachWhere, AttachWrite, AttachRecheck,
       AttachRewrite, AfterRewrite, AttachLabel
  <2>3. CASE job' = job /\ \E l \in AttachLabel : Goto(t, l)
    <3>1. pc'[t] \in AttachLabel
      BY <1>g, <2>3 DEF Label
    <3>2. Sealed(p)' /\ ~(Live(p) /\ granted[p] \in Dir)'
      BY <1>a, <1>c, <1>d, <1>e, <2>1 DEF Hand
    <3> QED
      BY <1>c, <2>3, <3>1, <3>2 DEF Hand, Sealed, Live
  <2> QED
    BY <1>h, <2>2, <2>3
<1>3. CASE GetCgroup(t)
  <2>1. Sealed(p) /\ Sealed(p)'
    BY <1>3, <1>a, <1>c, <1>d DEF GetCgroup, LeaveAlone, Hand
  <2>2. CASE ~Live(p) \/ InPreserved(proc[p].cg)
    BY <1>3, <1>c, <1>h, <2>2 DEF GetCgroup, LeaveAlone
  <2>3. CASE ~(~Live(p) \/ InPreserved(proc[p].cg))
    <3>1. ~(Live(p) /\ granted[p] \in Dir)
      BY <1>a, <2>3, PreservedRecognised DEF CommandWins
    <3>2. ~(Live(p) /\ granted[p] \in Dir)'
      BY <1>e, <2>1, <3>1
    <3>3. job'[t].pid = p
      BY <1>3, <1>a, <1>b, <1>c, <2>3 DEF GetCgroup, LeaveAlone, TypeOK, Job
    <3>4. pc'[t] = "belong"
      BY <1>3, <1>c, <1>g, <2>3 DEF GetCgroup, LeaveAlone, Label
    <3> QED
      BY <2>1, <3>2, <3>3, <3>4 DEF Hand, Sealed, Live, AttachLabel
  <2> QED
    BY <2>2, <2>3
<1>4. CASE CheckBelong(t)
  <2>1. Sealed(p)' /\ ~(Live(p) /\ granted[p] \in Dir)'
    BY <1>4, <1>a, <1>c, <1>d, <1>e DEF CheckBelong, Hand
  <2>2. \/ \E st : Return(t, st)
        \/ CallAttach(t, p, job[t].dir)
        \/ Goto(t, "match") /\ job' = [job EXCEPT ![t].dir = "proxy"]
    BY <1>4, <1>c DEF CheckBelong
  <2>3. CASE CallAttach(t, p, job[t].dir)
             \/ (Goto(t, "match") /\ job' = [job EXCEPT ![t].dir = "proxy"])
    <3>1. job'[t].pid = p
      <4>1. CASE CallAttach(t, p, job[t].dir)
        BY <1>a, <1>b, <4>1, NoJobType DEF CallAttach, TypeOK, Job
      <4>2. CASE job' = [job EXCEPT ![t].dir = "proxy"]
        BY <1>a, <1>b, <1>c, <4>2 DEF TypeOK, Job
      <4> QED
        BY <2>3, <4>1, <4>2
    <3> QED
      BY <2>1, <3>1 DEF Hand, Sealed, Live
  <2> QED
    BY <1>h, <2>2, <2>3
<1>5. CASE t = "execsnoop" /\ Execsnoop
  <2>1. CASE OpenBuffer \/ PollInterrupted
    BY <1>5, <1>f, <1>g, <2>1 DEF OpenBuffer, PollInterrupted, Label, AttachLabel
  <2>2. ASSUME NEW q \in Pid, HandleEvent(q) PROVE Hand(t)'
    <3>1. CASE Live(q)
      <4>1. job'[t].pid = q /\ job'[t].path = proc[q].exe
        <5>1. job' = [job EXCEPT ![t] = [@ EXCEPT !.pid = q, !.dir = "noproxy",
                                                  !.path = proc[q].exe]]
          BY <1>5, <2>2, <3>1 DEF HandleEvent
        <5>2. job \in [Thread -> Job]
          BY <1>a DEF TypeOK
        <5> QED
          BY <1>b, <5>1, <5>2 DEF Job
      <4>2. pc'[t] = "match"
        BY <1>5, <1>g, <2>2, <3>1 DEF HandleEvent, Pending, Label
      <4>3. proc' = proc
        BY <2>2 DEF HandleEvent, Pending
      <4> QED
        BY <3>1, <4>1, <4>2, <4>3 DEF Hand, Sealed, Live, AttachLabel
    <3>2. CASE ~Live(q)
      BY <1>1, <2>2, <3>2 DEF HandleEvent, Pending
    <3> QED
      BY <3>1, <3>2
  <2>3. CASE MatchProgram
    <3>1. PICK found \in Finds(job[t].path, job[t].dir) :
            \/ found /\ Goto(t, "cgroup") /\ job' = job
            \/ pc' = pc /\ job' = [job EXCEPT ![t].dir = "proxy"]
            \/ Return(t, "ignored")
      BY <1>5, <2>3 DEF MatchProgram, NextList
    <3>2. CASE found /\ Goto(t, "cgroup") /\ job' = job
      <4>1. job[t].path # Cgproxy
        <5>1. job[t].dir \in Dir /\ config \in Config /\ incoming \in Config
          BY <1>a, <1>b DEF TypeOK, Job
        <5> QED
          BY <5>1, <3>1, <3>2, ListedPrograms DEF Finds
      <4>2. Sealed(p)'
        BY <1>5, <1>a, <1>c, <1>d, <2>3, <4>1 DEF MatchProgram, NextList, Hand
      <4>3. pc'[t] = "cgroup"
        BY <1>g, <3>2 DEF Label
      <4> QED
        BY <1>c, <3>2, <4>2, <4>3 DEF Hand, Sealed, Live, AttachLabel
    <3>3. CASE pc' = pc /\ job' = [job EXCEPT ![t].dir = "proxy"]
      <4>1. job'[t].pid = p /\ job'[t].path = job[t].path /\ pc'[t] = "match"
        BY <1>5, <1>a, <1>b, <1>c, <2>3, <3>3 DEF MatchProgram, NextList, TypeOK, Job
      <4>2. pc[t] = "match"
        BY <1>5, <2>3 DEF MatchProgram, NextList
      <4> QED
        BY <1>a, <1>c, <1>d, <4>1, <4>2 DEF Hand, Sealed, Live, AttachLabel
    <3> QED
      BY <1>h, <3>1, <3>2, <3>3
  <2> QED
    BY <1>2, <1>3, <1>4, <1>5, <2>1, <2>2, <2>3 DEF Execsnoop, Classify
<1>6. CASE t = "main" /\ Main
  <2>1. CASE StartScan \/ GiveUp
    BY <1>6, <1>f, <1>g, <2>1 DEF StartScan, GiveUp, Label, AttachLabel
  <2>2. ASSUME NEW q \in Pid, ScanPid(q) PROVE Hand(t)'
    <3>1. Sealed(q) /\ proc' = proc
      BY <1>a, <2>2 DEF ScanPid, ScanInv
    <3>2. job'[t].pid = q
      BY <1>6, <1>a, <1>b, <2>2 DEF ScanPid, TypeOK, Job
    <3>3. pc'[t] = "cgroup"
      BY <1>6, <1>g, <2>2 DEF ScanPid, Label
    <3> QED
      BY <3>1, <3>2, <3>3 DEF Hand, Sealed, Live, AttachLabel
  <2>3. CASE (\E path \in Program : ScanPath(path)) \/ ScanAstray
    BY <1>1, <2>3 DEF ScanPath, ScanAstray
  <2>4. CASE ScanNextList
    BY <1>1, <1>6, <1>f, <1>g, <2>4 DEF ScanNextList, Label, AttachLabel
  <2> QED
    BY <1>2, <1>3, <1>4, <1>6, <2>1, <2>2, <2>3, <2>4 DEF Main, Classify
<1>7. CASE t # "execsnoop" /\ Execsnoop
  <2>1. "execsnoop" \in Thread
    BY DEF Thread
  <2>2. CASE Attach("execsnoop") \/ Classify("execsnoop")
    BY <1>1, <1>7, <1>a, <1>b, <2>1, <2>2, OtherThreads
  <2>3. (pc'[t] = pc[t] /\ job'[t] = job[t])
        \/ Attach("execsnoop") \/ Classify("execsnoop")
    BY <1>7, <1>a, <1>b DEF Execsnoop, OpenBuffer, PollInterrupted,
       HandleEvent, Pending, MatchProgram, NextList, Goto, Return, TypeOK
  <2> QED
    BY <1>1, <2>2, <2>3
<1>8. CASE t # "main" /\ Main
  <2>1. "main" \in Thread
    BY DEF Thread
  <2>2. CASE Attach("main") \/ Classify("main")
    BY <1>1, <1>8, <1>a, <1>b, <2>1, <2>2, OtherThreads
  <2>3. (pc'[t] = pc[t] /\ job'[t] = job[t])
        \/ Attach("main") \/ Classify("main")
    BY <1>8, <1>a, <1>b DEF Main, StartScan, GiveUp, ScanPid, ScanPath,
       ScanNextList, ScanAstray, Goto, TypeOK
  <2> QED
    BY <1>1, <2>2, <2>3
<1>9. CASE Socketserver
  <2>1. "socketserver" \in Thread /\ t # "socketserver"
    BY DEF Thread, SelfActing
  <2>2. CASE Attach("socketserver")
    BY <1>1, <1>a, <1>b, <2>1, <2>2, OtherThreads
  <2>3. (pc'[t] = pc[t] /\ job'[t] = job[t]) \/ Attach("socketserver")
    BY <1>9, <1>a, <1>b, <2>1 DEF Socketserver, PidMessage, ConfigMessage,
       LoadConfig, ApplyClean, ApplyStart, Goto, CallAttach, TypeOK
  <2> QED
    BY <1>1, <2>2, <2>3
<1>10. CASE Environment \/ UNCHANGED vars
  BY <1>1, <1>10 DEF Environment, Launch, Exec, Fork, Exit, Move, vars
<1> QED
  BY <1>5, <1>6, <1>7, <1>8, <1>9, <1>10 DEF Next

(* What pidof reports for a listed program is no client. *)
LEMMA ScanStep ==
  ASSUME OwnClients, CommandInv, [Next]_vars
  PROVE  ScanInv'
<1> USE DEF env, snoop, conf
<1>a. TypeOK /\ ScanInv
  BY DEF CommandInv
<1>1. ASSUME scan'.pids \subseteq scan.pids PROVE ScanInv'
  <2>1. \A p \in scan.pids : p \in Pid
    BY <1>a DEF TypeOK
  <2>2. \A p \in Pid : Sealed(p) => Sealed(p)'
    BY <1>a, SealedStays
  <2> QED
    BY <1>1, <1>a, <2>1, <2>2 DEF ScanInv
<1>2. ASSUME NEW path \in Program, ScanPath(path) PROVE ScanInv'
  <2>1. path # Cgproxy /\ proc' = proc
    BY <1>2, <1>a DEF ScanPath, TypeOK
  <2>2. scan'.pids = {p \in Pid : Live(p) /\ proc[p].exe = path}
    BY <1>2, <1>a DEF ScanPath, TypeOK
  <2> QED
    BY <2>1, <2>2 DEF ScanInv, Sealed, Live
<1>3. CASE Main
  <2>1. CASE StartScan \/ ScanNextList \/ ScanAstray
    BY <1>1, <1>a, <2>1 DEF StartScan, ScanNextList, ScanAstray, TypeOK
  <2>2. ASSUME NEW p \in Pid, ScanPid(p) PROVE ScanInv'
    BY <1>1, <1>a, <2>2 DEF ScanPid, TypeOK
  <2>3. CASE GiveUp \/ Classify("main") \/ Attach("main")
    BY <1>1, <2>3 DEF GiveUp, Classify, GetCgroup, LeaveAlone, CheckBelong, Attach,
       AttachDir, AttachWhere, AttachWrite, AttachRecheck, AttachRewrite, AfterRewrite
  <2> QED
    BY <1>2, <1>3, <2>1, <2>2, <2>3 DEF Main
<1>4. CASE Execsnoop
  BY <1>1, <1>4 DEF Execsnoop, OpenBuffer, PollInterrupted, HandleEvent, Pending,
     MatchProgram, NextList, Classify, GetCgroup, LeaveAlone, CheckBelong, Attach, AttachDir,
     AttachWhere, AttachWrite, AttachRecheck, AttachRewrite, AfterRewrite
<1>5. CASE Socketserver
  <2>1. CASE LoadConfig
    BY <1>1, <1>a, <2>1 DEF LoadConfig, TypeOK
  <2>2. CASE ~LoadConfig
    BY <1>1, <1>5, <2>2 DEF Socketserver, PidMessage, ConfigMessage,
       ApplyClean, ApplyStart, Attach, AttachDir, AttachWhere, AttachWrite,
       AttachRecheck, AttachRewrite, AfterRewrite
  <2> QED
    BY <2>1, <2>2
<1>6. CASE Environment \/ UNCHANGED vars
  BY <1>1, <1>6 DEF Environment, Launch, Exec, Fork, Exit, Move, vars
<1> QED
  BY <1>3, <1>4, <1>5, <1>6 DEF Next

(* A client that waits for its answer is left as it is.                    *)
LEMMA ClientStep ==
  ASSUME OwnClients, CommandInv, [Next]_vars
  PROVE  ClientInv'
<1> USE DEF env, snoop, conf
<1> DEFINE s == "socketserver"
<1>a. TypeOK /\ ClientInv /\ s \in Thread
  BY DEF CommandInv, Thread
<1>b. PICK p \in Pid : p = job[s].pid
  BY <1>a DEF TypeOK, Job
<1>c. ASSUME NEW l \in Label, Goto(s, l) PROVE pc'[s] = l
  BY <1>a, <1>c DEF Goto, TypeOK

(* No process changes but in its cgroup, and only socketserver grants. *)
<1>1. ASSUME pc'[s] = pc[s], job'[s] = job[s],
             proc'[p].st = proc[p].st, proc'[p].exe = proc[p].exe,
             granted'[p] = granted[p]
      PROVE  ClientInv'
  BY <1>1, <1>a, <1>b DEF ClientInv, Live
<1>2. CASE Environment
  <2>1. pc' = pc /\ job' = job
    BY <1>2 DEF Environment, Launch, Exec, Fork, Exit, Move
  <2>3. SUFFICES ASSUME pc[s] \in AttachLabel
                 PROVE  /\ proc'[p].st # "unused"
                        /\ proc'[p].st = "live" =>
                             proc'[p].exe = Cgproxy /\ granted'[p] = "none"
    BY <1>b, <2>1 DEF ClientInv, Live
  <2>4. /\ proc[p].st # "unused"
        /\ proc[p].st = "live" => proc[p].exe = Cgproxy /\ granted[p] = "none"
    BY <1>a, <1>b, <2>3 DEF ClientInv, Live
  <2>5. ASSUME NEW q \in Pid, NEW prog \in Program, NEW cg \in Cgroup,
               Launch(q, prog, cg)
        PROVE  proc'[p] = proc[p] /\ granted'[p] = granted[p]
    BY <1>a, <2>4, <2>5 DEF Launch, Fresh, OwnClients, TypeOK
  <2>6. ASSUME NEW q \in Pid, NEW prog \in Program, Exec(q, prog)
        PROVE  proc'[p] = proc[p] /\ granted'[p] = granted[p]
    BY <1>a, <2>4, <2>6 DEF Exec, Free, Live, OwnClients, TypeOK
  <2>7. ASSUME NEW q \in Pid, NEW child \in Pid, Fork(q, child)
        PROVE  proc'[p] = proc[p] /\ granted'[p] = granted[p]
    BY <1>a, <2>4, <2>7 DEF Fork, Fresh, OwnClients, TypeOK
  <2>8. ASSUME NEW q \in Pid, Exit(q)
        PROVE  \/ proc'[p] = proc[p] /\ granted'[p] = granted[p]
               \/ proc'[p].st = "dead"
    BY <1>a, <2>8 DEF Exit, NoProcess, TypeOK
  <2>9. ASSUME NEW q \in Pid, NEW cg \in Cgroup, Move(q, cg)
        PROVE  /\ proc'[p].st = proc[p].st /\ proc'[p].exe = proc[p].exe
               /\ granted[p] = "none" => granted'[p] = "none"
    BY <1>a, <2>9 DEF Move, TypeOK, Process
  <2> QED
    BY <1>2, <2>4, <2>5, <2>6, <2>7, <2>8, <2>9 DEF Environment
<1>3. ASSUME NEW t \in SelfActing, Attach(t)
      PROVE  ClientInv'
  <2>1. t \in Thread /\ t # s /\ job[t].pid \in Pid
    BY <1>a DEF SelfActing, Thread, TypeOK, Job
  <2>2. proc'[p].st = proc[p].st /\ proc'[p].exe = proc[p].exe
    BY <1>3, <1>a, <2>1 DEF Attach, AttachDir, AttachWhere, AttachWrite,
       AttachRecheck, AttachRewrite, AfterRewrite, Write2procs, TypeOK, Process
  <2>3. granted' = granted
    BY <1>3, <2>1 DEF Attach, AttachDir, AttachWhere, AttachWrite,
       AttachRecheck, AttachRewrite, AfterRewrite, Return
  <2>4. pc'[s] = pc[s] /\ job'[s] = job[s]
    BY <1>3, <1>a, <2>1, OtherThreads
  <2> QED
    BY <1>1, <2>2, <2>3, <2>4
<1>4. ASSUME NEW t \in SelfActing, Classify(t)
      PROVE  ClientInv'
  <2>1. t \in Thread /\ t # s
    BY DEF SelfActing, Thread
  <2>2. granted' = granted /\ proc' = proc
    BY <1>4, <2>1 DEF Classify, GetCgroup, LeaveAlone, CheckBelong, Return
  <2>3. pc'[s] = pc[s] /\ job'[s] = job[s]
    BY <1>4, <1>a, <2>1, OtherThreads
  <2> QED
    BY <1>1, <2>2, <2>3
<1>5. CASE Execsnoop
  <2>1. \/ Attach("execsnoop") \/ Classify("execsnoop")
        \/ /\ pc'[s] = pc[s] /\ job'[s] = job[s]
           /\ proc' = proc /\ granted' = granted
    BY <1>5, <1>a DEF Execsnoop, OpenBuffer, PollInterrupted, HandleEvent, Pending,
       MatchProgram, NextList, Goto, Return, TypeOK
  <2> QED
    BY <1>1, <1>3, <1>4, <2>1 DEF SelfActing
<1>6. CASE Main
  <2>1. \/ Attach("main") \/ Classify("main")
        \/ /\ pc'[s] = pc[s] /\ job'[s] = job[s]
           /\ proc' = proc /\ granted' = granted
    BY <1>6, <1>a DEF Main, StartScan, GiveUp, ScanPid, ScanPath,
       ScanNextList, ScanAstray, Goto, TypeOK
  <2> QED
    BY <1>1, <1>3, <1>4, <2>1 DEF SelfActing
<1>7. ASSUME NEW q \in Pid, NEW d \in Dir, PidMessage(q, d)
      PROVE  ClientInv'
  <2>1. job'[s].pid = q /\ proc' = proc
    BY <1>7, <1>a, NoJobType DEF PidMessage, CallAttach, TypeOK, Job
  <2>2. pc'[s] = "dir" /\ pc[s] = "accept"
    BY <1>7, <1>c DEF PidMessage, CallAttach, Label, AttachLabel
  <2>3. Live(q) /\ proc[q].exe = Cgproxy /\ granted'[q] = "none"
    BY <1>7, <1>a DEF PidMessage, OwnClients, TypeOK
  <2> QED
    BY <1>a, <2>1, <2>2, <2>3 DEF ClientInv, Live
<1>8. CASE (\E c \in Config : ConfigMessage(c)) \/ LoadConfig \/ ApplyClean
             \/ ApplyStart
  BY <1>8, <1>a, <1>c DEF ConfigMessage, LoadConfig, ApplyClean, ApplyStart,
     ClientInv, Label, AttachLabel
<1>9. CASE Attach(s)
  <2>1. proc'[p].st = proc[p].st /\ proc'[p].exe = proc[p].exe
    BY <1>9, <1>a, <1>b DEF Attach, AttachDir, AttachWhere, AttachWrite,
       AttachRecheck, AttachRewrite, AfterRewrite, Write2procs, TypeOK, Process
  <2>2. pc[s] \in AttachLabel
    BY <1>9 DEF Attach, AttachDir, AttachWhere, AttachWrite, AttachRecheck,
       AttachRewrite, AfterRewrite, AttachLabel
  <2>3. \/ \E st : Return(s, st)
        \/ /\ job' = job /\ granted' = granted
           /\ \E l \in AttachLabel : Goto(s, l)
    BY <1>9 DEF Attach, AttachDir, AttachWhere, AttachWrite, AttachRecheck,
       AttachRewrite, AfterRewrite, AttachLabel
  <2>4. CASE \E st : Return(s, st)
    <3>1. pc'[s] = "accept"
      BY <1>c, <2>4 DEF Return, Loop, Label
    <3> QED
      BY <1>a, <2>2, <3>1 DEF ClientInv, AttachLabel
  <2>5. CASE /\ job' = job /\ granted' = granted
             /\ \E l \in AttachLabel : Goto(s, l)
    <3>1. pc'[s] \in AttachLabel
      BY <1>c, <2>5 DEF Label
    <3> QED
      BY <1>a, <1>b, <2>1, <2>2, <2>5, <3>1
         DEF ClientInv, Live, AttachLabel
  <2> QED
    BY <2>3, <2>4, <2>5
<1>10. CASE UNCHANGED vars
  BY <1>1, <1>10 DEF vars
<1> QED
  BY <1>2, <1>5, <1>6, <1>7, <1>8, <1>9, <1>10 DEF Next, Socketserver

(* Each way in which a process gets into a cgroup, or a command is         *)
(* reported done, keeps the promise of the commands that stand.            *)
LEMMA WinsStep ==
  ASSUME OwnClients, CommandInv, [Next]_vars
  PROVE  CommandWins'
<1> USE DEF env, snoop, conf
<1>a. TypeOK /\ CommandWins /\ HandInv /\ ClientInv
  BY DEF CommandInv
<1>1. ASSUME \A p \in Pid : /\ proc'[p].st = proc[p].st
                            /\ proc'[p].cg = proc[p].cg
                            /\ granted'[p] \in {granted[p], "none", "void"}
      PROVE  CommandWins'
  BY <1>1, <1>a DEF CommandWins, Live, Dir
<1>2. CASE Environment
  <2>1. ASSUME NEW q \in Pid, NEW prog \in Program, NEW cg \in Cgroup,
               Launch(q, prog, cg)
        PROVE  CommandWins'
    BY <1>a, <2>1 DEF Launch, CommandWins, Live, TypeOK, Dir
  <2>2. ASSUME NEW q \in Pid, NEW prog \in Program, Exec(q, prog)
        PROVE  CommandWins'
    BY <1>1, <1>a, <2>2 DEF Exec, TypeOK, Process
  <2>3. ASSUME NEW q \in Pid, NEW child \in Pid, Fork(q, child)
        PROVE  CommandWins'
    BY <1>a, <2>3 DEF Fork, Free, CommandWins, Live, TypeOK
  <2>4. ASSUME NEW q \in Pid, Exit(q) PROVE CommandWins'
    BY <1>a, <2>4 DEF Exit, NoProcess, CommandWins, Live, TypeOK
  <2>5. ASSUME NEW q \in Pid, NEW cg \in Cgroup, Move(q, cg)
        PROVE  CommandWins'
    BY <1>a, <2>5 DEF Move, CommandWins, Live, TypeOK, Process, Dir
  <2> QED
    BY <1>2, <2>1, <2>2, <2>3, <2>4, <2>5 DEF Environment

(* A thread that acts by itself writes, but never over a command. *)
<1>3. ASSUME NEW t \in SelfActing, Attach(t) PROVE CommandWins'
  <2>1. t \in Thread /\ t # "socketserver"
    BY DEF SelfActing, Thread
  <2>2. PICK p \in Pid : p = job[t].pid
    BY <1>a, <2>1 DEF TypeOK, Job
  <2>3. granted' = granted
    BY <1>3, <2>1 DEF Attach, AttachDir, AttachWhere, AttachWrite,
       AttachRecheck, AttachRewrite, AfterRewrite, Return
  <2>4. ~(Live(p) /\ granted[p] \in Dir)
    BY <1>3, <1>a, <2>2 DEF HandInv, Hand, Attach, AttachDir, AttachWhere,
       AttachWrite, AttachRecheck, AttachRewrite, AfterRewrite, AttachLabel
  <2>5. proc'[p].st = proc[p].st /\ \A q \in Pid \ {p} : proc'[q] = proc[q]
    BY <1>3, <1>a, <2>2 DEF Attach, AttachDir, AttachWhere, AttachWrite,
       AttachRecheck, AttachRewrite, AfterRewrite, Write2procs, TypeOK, Process
  <2> QED
    BY <1>a, <2>3, <2>4, <2>5 DEF CommandWins, Live

(* socketserver reports success only when the process is there, or gone. *)
<1>4. CASE Attach("socketserver")
  <2> DEFINE s == "socketserver"
  <2>1. s \in Thread /\ pc[s] \in AttachLabel
    BY <1>4 DEF Thread, Attach, AttachDir, AttachWhere, AttachWrite,
       AttachRecheck, AttachRewrite, AfterRewrite, AttachLabel
  <2>2. PICK p \in Pid : p = job[s].pid
    BY <1>a, <2>1 DEF TypeOK, Job
  <2>3. job[s].dir \in Dir
    BY <1>a, <2>1 DEF TypeOK, Job
  <2>4. Live(p) => granted[p] = "none"
    BY <1>a, <2>1, <2>2 DEF ClientInv
  <2>5. \A q \in Pid \ {p} : proc'[q] = proc[q] /\ granted'[q] = granted[q]
    BY <1>4, <1>a, <2>2 DEF Attach, AttachDir, AttachWhere, AttachWrite,
       AttachRecheck, AttachRewrite, AfterRewrite, Write2procs, Return, TypeOK
  <2>6. proc'[p].st = proc[p].st
    BY <1>4, <1>a, <2>2 DEF Attach, AttachDir, AttachWhere, AttachWrite,
       AttachRecheck, AttachRewrite, AfterRewrite, Write2procs, TypeOK, Process
  <2>7. CASE granted'[p] = granted[p]
    BY <1>a, <2>4, <2>5, <2>6, <2>7 DEF CommandWins, Live, Dir
  <2>8. CASE granted'[p] # granted[p] /\ ~mounted
    <3>1. granted'[p] = "lost"
      BY <1>4, <1>a, <2>2, <2>8 DEF Attach, AttachDir, AttachWhere,
         AttachWrite, AttachRecheck, AttachRewrite, AfterRewrite, Return, TypeOK
    <3> QED
      BY <1>a, <2>5, <3>1 DEF CommandWins, Live, Dir
  <2>9. CASE granted'[p] # granted[p] /\ mounted
    <3>1. Return(s, "success")
          /\ (AttachWhere(s) \/ AttachRecheck(s) \/ AttachRewrite(s))
      BY <1>4, <1>a, <2>2, <2>9 DEF Attach, AttachDir, AttachWhere,
         AttachWrite, AttachRecheck, AttachRewrite, AfterRewrite, Return
    <3>2. granted'[p] = job[s].dir
      BY <1>a, <2>2, <2>9, <3>1 DEF Return, TypeOK
    <3>3. Live(p) => proc'[p].cg = Preserved[job[s].dir]
      <4>1. CASE AttachWhere(s)
        BY <2>2, <2>9, <4>1 DEF AttachWhere
      <4>2. CASE AttachRecheck(s)
        BY <2>2, <2>9, <4>2 DEF AttachRecheck
      <4>3. CASE AttachRewrite(s)
        <5>1. PICK st \in {"success", "error"} :
                Write2procs(p, job[s].dir, st) /\ Return(s, st)
          BY <2>2, <4>3 DEF AttachRewrite, AfterRewrite
        <5>2. st = "success"
          BY <2>9, <5>1 DEF Return
        <5> QED
          BY <1>a, <2>3, <2>9, <5>1, <5>2 DEF Write2procs, TypeOK, Process
      <4> QED
        BY <3>1, <4>1, <4>2, <4>3
    <3> QED
      BY <1>a, <2>5, <2>6, <3>2, <3>3 DEF CommandWins, Live
  <2> QED
    BY <2>7, <2>8, <2>9
<1>5. ASSUME NEW q \in Pid, NEW d \in Dir, PidMessage(q, d)
      PROVE  CommandWins'
  BY <1>1, <1>5, <1>a DEF PidMessage, TypeOK
<1>6. ASSUME proc' = proc, granted' = granted PROVE CommandWins'
  BY <1>1, <1>6
<1>7. CASE Execsnoop
  BY <1>3, <1>6, <1>7 DEF Execsnoop, OpenBuffer, PollInterrupted, HandleEvent, Pending,
     MatchProgram, NextList, Classify, GetCgroup, LeaveAlone, CheckBelong, Return, SelfActing
<1>8. CASE Main
  BY <1>3, <1>6, <1>8 DEF Main, StartScan, GiveUp, ScanPid, ScanPath,
     ScanNextList, ScanAstray, Classify, GetCgroup, LeaveAlone, CheckBelong, Return,
     SelfActing
<1>9. CASE Socketserver
  BY <1>4, <1>5, <1>6, <1>9 DEF Socketserver, ConfigMessage, LoadConfig,
     ApplyClean, ApplyStart
<1>10. CASE UNCHANGED vars
  BY <1>6, <1>10 DEF vars
<1> QED
  BY <1>2, <1>7, <1>8, <1>9, <1>10 DEF Next

(* When clients act only for themselves, no process execs the client in    *)
(* place and no number is reused, what cgproxy or cgnoproxy was told to be *)
(* done while cgroup2 was mounted is never undone by handle_pid() or       *)
(* processRunningProgram(): not when events are lost or late, writes fail, *)
(* mounts fail, processes are moved and fork early, or configurations are  *)
(* loaded while the threads are at work.                                   *)
THEOREM CommandAlwaysWins ==
  ASSUME OwnClients
  PROVE  Spec => []CommandWins
<1>1. Init => CommandInv
  <2> SUFFICES ASSUME Init PROVE CommandInv
    OBVIOUS
  <2>1. TypeOK
    BY TypeInit
  <2>2. CommandWins
    BY DEF Init, CommandWins, Dir
  <2>3. HandInv
    BY DEF Init, HandInv, Hand, SelfActing, AttachLabel
  <2>4. ScanInv /\ ClientInv
    BY DEF Init, ScanInv, ClientInv, AttachLabel
  <2> QED
    BY <2>1, <2>2, <2>3, <2>4 DEF CommandInv
<1>2. CommandInv /\ [Next]_vars => CommandInv'
  BY TypeStep, WinsStep, HandStep, ScanStep, ClientStep DEF CommandInv
<1>3. CommandInv => CommandWins
  BY DEF CommandInv
<1> QED
  BY <1>1, <1>2, <1>3, PTL DEF Spec

-----------------------------------------------------------------------------
(* When the daemon has nothing left to do, every process of a listed       *)
(* program is where its list puts it.                                      *)

(* Nothing takes away what the daemon counts on: events arrive, execsnoop  *)
(* comes up and stays up, writes succeed, no configuration replaces the    *)
(* one that is being applied, and nobody else moves processes or forks     *)
(* ones that are out of place.  Numbers may be reused, clients may act for *)
(* any process and at any time, processes may be inside an execve when     *)
(* execsnoop comes up, and the mount may have failed.                      *)
Undisturbed ==
  Disturbances \cap {"lost", "eintr", "timeout", "io", "reload", "move",
                     "early_fork"} = {}

(* A process that one of the lists claims, that is not yet in place, and   *)
(* that one of the threads can see.                                        *)
Needs(p, d) ==
  /\ p \notin missed
  /\ Live(p) /\ proc[p].exe \in config.program[d]
  /\ ~InPreserved(proc[p].cg) /\ ~BelongToAny(proc[p].cg, config.cgroup[d])

(* A thread is about to put p into a preserved cgroup. *)
Attaching(t, p) == pc[t] \in {"dir", "where", "write"} /\ job[t].pid = p

(* A thread has come to p on account of the list that claims it. *)
Classifying(t, p, d) ==
  /\ pc[t] \in {"cgroup", "belong"} /\ job[t].pid = p /\ job[t].dir = d
  /\ pc[t] = "belong" => job[t].cg = proc[p].cg

(* execsnoop has read the program that p runs, and looks it up in the list *)
(* of d or, before that, in the list that comes first.                     *)
LookingUp(p, d) ==
  LET j == job["execsnoop"] IN
  /\ pc["execsnoop"] \in {"match", "cgroup", "belong"}
  /\ j.pid = p /\ j.path = proc[p].exe
  /\ j.dir \in {d, "noproxy"}
  /\ pc["execsnoop"] = "belong" => j.cg = proc[p].cg

ByEvent(p, d) ==
  \/ events[p] > 0
  \/ LookingUp(p, d)
  \/ Attaching("execsnoop", p)

(* processRunningProgram() has the list, the path or the number of p still *)
(* before it.                                                              *)
ByScan(p, d) ==
  \/ pc["main"] = "wait"
  \/ pc["main"] # "done" /\ scan.dir = "noproxy" /\ d = "proxy"
  \/ pc["main"] # "done" /\ scan.dir = d
       /\ (proc[p].exe \in scan.paths \/ p \in scan.pids)
  \/ Classifying("main", p, d)
  \/ Attaching("main", p)

(* What is out of place is still before one of the two. *)
Covered ==
  mounted => \A p \in Pid, d \in Dir :
               Needs(p, d) => ByEvent(p, d) \/ ByScan(p, d)

(* The scan starts with the list of noproxy, and only when every exec has  *)
(* an event.                                                               *)
ScanAfterReady ==
  /\ pc["main"] = "wait" => scan.dir = "noproxy" /\ scan.pids = {}
  /\ pc["main"] # "wait" => buffer
  /\ ready => buffer

(* Only clients are served. *)
NoReload ==
  pc["socketserver"] \notin {"load", "clean", "start"} /\ ~scan.astray

SettledInv == TypeOK /\ NoReload /\ ScanAfterReady /\ Covered

-----------------------------------------------------------------------------
(* If no client sends configurations, the first one stays in force, and    *)
(* cgroup2 stays mounted, or not mounted.                                  *)
LEMMA NoReloadStep ==
  ASSUME "reload" \notin Disturbances, TypeOK, NoReload, [Next]_vars
  PROVE  NoReload' /\ config' = config /\ mounted' = mounted
<1> USE DEF env, snoop, conf, NoReload
<1> DEFINE Kept == NoReload' /\ config' = config /\ mounted' = mounted
<1>1. ASSUME NEW t \in Thread, Attach(t) \/ Classify(t)
      PROVE  Kept
  <2>1. mounted' = mounted /\ config' = config /\ scan' = scan
    BY <1>1 DEF Attach, AttachDir, AttachWhere, AttachWrite, AttachRecheck,
       AttachRewrite, AfterRewrite, Classify, GetCgroup, LeaveAlone, CheckBelong
  <2>2. CASE t # "socketserver"
    BY <1>1, <2>1, <2>2, OtherThreads DEF Thread
  <2>3. CASE t = "socketserver"
    <3>1. \E l \in AttachLabel \cup {"belong", "match", "accept"} : Goto(t, l)
      BY <1>1, <2>3 DEF Attach, AttachDir, AttachWhere, AttachWrite,
         AttachRecheck, AttachRewrite, AfterRewrite, Classify, GetCgroup,
         LeaveAlone, CheckBelong, CallAttach, Return, Loop, AttachLabel
    <3> QED
      BY <2>1, <2>3, <3>1 DEF Goto, TypeOK, AttachLabel
  <2> QED
    BY <2>2, <2>3
<1>2. CASE Environment
  BY <1>2 DEF Environment, Launch, Exec, Fork, Exit, Move
<1>3. CASE Execsnoop
  BY <1>1, <1>3 DEF Execsnoop, OpenBuffer, PollInterrupted, HandleEvent,
     MatchProgram, Goto, Return, Thread, TypeOK
<1>4. CASE Main
  <2>1. CASE Attach("main") \/ Classify("main")
    BY <1>1, <2>1 DEF Thread
  <2>2. CASE ~(Attach("main") \/ Classify("main"))
    <3>1. /\ config' = config /\ mounted' = mounted
          /\ pc' = pc \/ \E l : Goto("main", l)
      BY <1>4, <2>2 DEF Main, StartScan, GiveUp, ScanPid, ScanPath,
         ScanNextList, ScanAstray
    <3>2. pc'["socketserver"] = pc["socketserver"]
      BY <3>1 DEF Goto, Thread, TypeOK
    <3>3. scan'.astray \in {scan.astray, FALSE}
      BY <1>4, <2>2 DEF Main, StartScan, GiveUp, ScanPid, ScanPath,
         ScanNextList, ScanAstray, TypeOK
    <3> QED
      BY <3>1, <3>2, <3>3
  <2> QED
    BY <2>1, <2>2
<1>5. CASE Socketserver
  BY <1>1, <1>5 DEF Socketserver, PidMessage, ConfigMessage, LoadConfig,
     ApplyClean, ApplyStart, CallAttach, Goto, Thread, TypeOK
<1> QED
  BY <1>2, <1>3, <1>4, <1>5 DEF Next, vars

(* The scan starts when the buffer is open, and the buffer stays open. *)
LEMMA ScanAfterReadyStep ==
  ASSUME Undisturbed, SettledInv, [Next]_vars
  PROVE  ScanAfterReady'
<1> USE DEF env, snoop, conf, SettledInv, ScanAfterReady
<1>1. ASSUME NEW t \in Thread, Attach(t) \/ Classify(t)
      PROVE  ScanAfterReady'
  <2>1. UNCHANGED <<buffer, ready, scan>>
    BY <1>1 DEF Attach, AttachDir, AttachWhere, AttachWrite, AttachRecheck,
       AttachRewrite, AfterRewrite, Classify, GetCgroup, LeaveAlone, CheckBelong
  <2>2. CASE t # "main"
    BY <1>1, <2>1, <2>2, OtherThreads DEF Thread
  <2>3. CASE t = "main"
    <3>1. /\ pc[t] \in AttachLabel \cup {"cgroup", "belong"}
          /\ \E l \in AttachLabel \cup {"belong", "match", "next"} : Goto(t, l)
      BY <1>1, <2>3 DEF Attach, AttachDir, AttachWhere, AttachWrite,
         AttachRecheck, AttachRewrite, AfterRewrite, Classify, GetCgroup,
         LeaveAlone, CheckBelong, CallAttach, Return, Loop, AttachLabel
    <3> QED
      BY <2>1, <2>3, <3>1 DEF Goto, TypeOK, AttachLabel
  <2> QED
    BY <2>2, <2>3
<1>2. CASE Environment
  BY <1>2 DEF Environment, Launch, Exec, Fork, Exit, Move
<1>3. ASSUME pc'["main"] = pc["main"], UNCHANGED <<buffer, ready, scan>>
      PROVE  ScanAfterReady'
  BY <1>3
<1>4. CASE Execsnoop
  <2>1. CASE OpenBuffer
    BY <2>1 DEF OpenBuffer, Goto, TypeOK
  <2>g. ASSUME NEW l, Goto("execsnoop", l) PROVE pc'["main"] = pc["main"]
    BY <2>g DEF Goto, TypeOK
  <2>2. ASSUME NEW q \in Pid, HandleEvent(q) PROVE ScanAfterReady'
    <3>1. pc'["main"] = pc["main"]
      BY <2>2, <2>g DEF HandleEvent
    <3> QED
      BY <1>3, <2>2, <3>1 DEF HandleEvent
  <2>3. CASE MatchProgram
    <3>1. pc'["main"] = pc["main"]
      BY <2>3, <2>g DEF MatchProgram, Return
    <3> QED
      BY <1>3, <2>3, <3>1 DEF MatchProgram
  <2> QED
    BY <1>1, <1>4, <2>1, <2>2, <2>3
       DEF Execsnoop, PollInterrupted, Thread, Undisturbed
<1>5. CASE Main
  <2>1. CASE StartScan
    BY <2>1 DEF StartScan, MayScan, Goto, TypeOK
  <2>2. ASSUME NEW q \in Pid, ScanPid(q) PROVE ScanAfterReady'
    BY <2>2 DEF ScanPid, Goto, TypeOK
  <2>3. ASSUME NEW path \in Program, ScanPath(path) PROVE ScanAfterReady'
    BY <2>3 DEF ScanPath
  <2>4. CASE ScanNextList
    BY <2>4 DEF ScanNextList, Goto, TypeOK
  <2>5. CASE ScanAstray
    BY <2>5 DEF ScanAstray
  <2> QED
    BY <1>1, <1>5, <2>1, <2>2, <2>3, <2>4, <2>5
       DEF Main, GiveUp, Thread, Undisturbed
<1>6. CASE Socketserver
  <2>1. ASSUME NEW l, Goto("socketserver", l) PROVE pc'["main"] = pc["main"]
    BY <2>1 DEF Goto, TypeOK
  <2>2. ASSUME NEW q \in Pid, NEW e \in Dir, PidMessage(q, e)
        PROVE  ScanAfterReady'
    BY <1>3, <2>1, <2>2 DEF PidMessage, CallAttach
  <2>3. ASSUME NEW c \in Config, ConfigMessage(c) PROVE ScanAfterReady'
    BY <1>3, <2>1, <2>3 DEF ConfigMessage
  <2>4. ~(LoadConfig \/ ApplyClean \/ ApplyStart)
    BY DEF LoadConfig, ApplyClean, ApplyStart, NoReload
  <2> QED
    BY <1>1, <1>6, <2>2, <2>3, <2>4 DEF Socketserver, Thread
<1> QED
  BY <1>2, <1>3, <1>4, <1>5, <1>6 DEF Next, vars

(* No thread of the daemon changes which processes have been missed. *)
LEMMA MissedKept == Execsnoop \/ Main \/ Socketserver => missed' = missed
<1> USE DEF env, snoop
<1>1. ASSUME NEW t, Attach(t) \/ Classify(t) PROVE missed' = missed
  BY <1>1 DEF Attach, AttachDir, AttachWhere, AttachWrite, AttachRecheck,
     AttachRewrite, Classify, GetCgroup, CheckBelong
<1>2. CASE Execsnoop
  BY <1>1, <1>2 DEF Execsnoop, OpenBuffer, PollInterrupted, HandleEvent,
     MatchProgram
<1>3. CASE Main
  BY <1>1, <1>3 DEF Main, StartScan, GiveUp, ScanPid, ScanPath, ScanNextList,
     ScanAstray
<1>4. CASE Socketserver
  BY <1>1, <1>4 DEF Socketserver, PidMessage, ConfigMessage, LoadConfig,
     ApplyClean, ApplyStart
<1> QED
  BY <1>2, <1>3, <1>4

(* A process that comes to be out of place has just called execve: either  *)
(* the event of that call waits, or the scan has not begun.                *)
LEMMA NeedsOrigin ==
  ASSUME Undisturbed, SettledInv, [Next]_vars, NEW p \in Pid, NEW d \in Dir,
         Needs(p, d)'
  PROVE  \/ Needs(p, d) /\ proc'[p] = proc[p]
         \/ events'[p] > 0
         \/ pc'["main"] = "wait"
<1> USE DEF env, snoop, conf, SettledInv, Live
<1>1. config' = config /\ p \notin missed'
  BY NoReloadStep DEF Undisturbed, Needs
<1>2. ASSUME proc'[p] = proc[p], p \notin missed PROVE Needs(p, d)
  BY <1>1, <1>2 DEF Needs
<1>3. ASSUME SysExitExecve(p), pc' = pc
      PROVE  events'[p] > 0 \/ pc'["main"] = "wait"
  BY <1>1, <1>3 DEF SysExitExecve, ScanAfterReady, TypeOK, Undisturbed
<1>m. ASSUME NEW q \in Pid, q # p, SysExitExecve(q) PROVE p \notin missed
  BY <1>1, <1>m DEF SysExitExecve
<1>4. ASSUME NEW q \in Pid, NEW prog \in Program, NEW cg \in Cgroup,
             Launch(q, prog, cg), q = p
      PROVE  events'[p] > 0 \/ pc'["main"] = "wait"
  BY <1>3, <1>4 DEF Launch
<1>5. ASSUME NEW q \in Pid, NEW prog \in Program, Exec(q, prog), q = p
      PROVE  events'[p] > 0 \/ pc'["main"] = "wait"
  BY <1>3, <1>5 DEF Exec
<1>6. ASSUME NEW q \in Pid, NEW child \in Pid, Fork(q, child), child = p
      PROVE  FALSE
  BY <1>1, <1>6 DEF Fork, Needs, WellPlaced, TypeOK, Undisturbed
<1>7. ASSUME Exit(p) PROVE FALSE
  BY <1>7 DEF Exit, NoProcess, Needs, TypeOK
<1>8. ASSUME NEW q \in Pid, NEW e \in Dir, NEW st, Write2procs(q, e, st), q = p
      PROVE  proc'[p] = proc[p]
  <2>1. CASE proc' = [proc EXCEPT ![p].cg = Preserved[e]]
    <3>1. proc'[p].cg = Preserved[e]
      BY <2>1 DEF TypeOK, Process
    <3> QED
      BY <3>1, PreservedRecognised DEF Needs
  <2> QED
    BY <1>8, <2>1 DEF Write2procs
<1>9. ASSUME NEW t \in Thread, Attach(t) PROVE proc'[p] = proc[p]
  <2>1. job[t].pid \in Pid /\ job[t].dir \in Dir
    BY DEF TypeOK, Job
  <2>2. proc' = proc \/ \E st : Write2procs(job[t].pid, job[t].dir, st)
    BY <1>9 DEF Attach, AttachDir, AttachWhere, AttachWrite, AttachRecheck,
                AttachRewrite, AfterRewrite
  <2> QED
    BY <1>8, <2>1, <2>2 DEF Write2procs, TypeOK
<1>10. CASE Environment
  <2>1. ASSUME NEW q \in Pid, NEW prog \in Program, NEW cg \in Cgroup,
               Launch(q, prog, cg), q # p
        PROVE  proc'[p] = proc[p] /\ p \notin missed
    BY <1>m, <2>1 DEF Launch, TypeOK
  <2>2. ASSUME NEW q \in Pid, NEW prog \in Program, Exec(q, prog), q # p
        PROVE  proc'[p] = proc[p] /\ p \notin missed
    BY <1>m, <2>2 DEF Exec, TypeOK
  <2>3. ASSUME NEW q \in Pid, NEW child \in Pid, Fork(q, child), child # p
        PROVE  proc'[p] = proc[p] /\ p \notin missed
    BY <1>1, <2>3 DEF Fork, TypeOK
  <2>4. ASSUME NEW q \in Pid, Exit(q), q # p
        PROVE  proc'[p] = proc[p] /\ p \notin missed
    BY <1>1, <2>4 DEF Exit, TypeOK
  <2> QED
    BY <1>2, <1>4, <1>5, <1>6, <1>7, <1>10, <2>1, <2>2, <2>3, <2>4
       DEF Environment, Move, Undisturbed
<1>11. CASE Execsnoop \/ Main \/ Socketserver
  <2>1. proc' = proc \/ \E t \in Thread : Attach(t)
    BY <1>11 DEF Execsnoop, OpenBuffer, PollInterrupted, HandleEvent,
       MatchProgram, Main, StartScan, GiveUp, ScanPid, ScanPath, ScanNextList,
       ScanAstray, Classify, GetCgroup, LeaveAlone, CheckBelong, Socketserver,
       PidMessage, ConfigMessage, LoadConfig, ApplyClean, ApplyStart, Thread
  <2>2. missed' = missed
    BY <1>11, MissedKept
  <2> QED
    BY <1>1, <1>2, <1>9, <2>1, <2>2
<1> QED
  BY <1>1, <1>2, <1>10, <1>11 DEF Next, vars

-----------------------------------------------------------------------------
(* A thread that has set out to attach a process that is out of place goes *)
(* on until it has written: the process is alive and not there yet, and    *)
(* writes succeed, so the process would be in place afterwards.            *)
LEMMA AttachingStays ==
  ASSUME Undisturbed, SettledInv, NEW t \in Thread, NEW p \in Pid,
         NEW d \in Dir, Needs(p, d), Needs(p, d)', Attaching(t, p), Attach(t),
         mounted
  PROVE  Attaching(t, p)'
<1> USE DEF env, snoop, conf, SettledInv
<1>1. job[t].dir \in Dir /\ job[t].pid = p
  BY DEF TypeOK, Job, Attaching
<1>2. Live(p) /\ proc[p].cg # Preserved[job[t].dir]
  BY <1>1, PreservedRecognised DEF Needs
<1>3. CASE AttachDir(t)
  BY <1>3 DEF AttachDir, Goto, Attaching, TypeOK
<1>4. CASE AttachWhere(t)
  BY <1>1, <1>2, <1>4 DEF AttachWhere, Goto, Attaching, TypeOK
<1>5. ~AttachWrite(t)
  <2> SUFFICES ASSUME AttachWrite(t) PROVE FALSE
    OBVIOUS
  <2>1. PICK st \in {"success", "error"} : Write2procs(p, job[t].dir, st)
    BY <1>1 DEF AttachWrite
  <2>2. proc' = [proc EXCEPT ![p].cg = Preserved[job[t].dir]]
    BY <1>2, <2>1 DEF Write2procs, Undisturbed
  <2>3. proc'[p].cg = Preserved[job[t].dir]
    BY <2>2 DEF TypeOK, Process
  <2> QED
    BY <1>1, <2>3, PreservedRecognised DEF Needs
<1> QED
  BY <1>3, <1>4, <1>5 DEF Attaching, Attach, AttachRecheck, AttachRewrite

(* execsnoop does not lose a process that is out of place: it finds the    *)
(* program in the list, sees that the process is in none of the cgroups    *)
(* that the list names, and attaches it.                                   *)
LEMMA ByEventStep ==
  ASSUME Undisturbed, SettledInv, [Next]_vars, NEW p \in Pid, NEW d \in Dir,
         Needs(p, d), Needs(p, d)', proc'[p] = proc[p], mounted, ByEvent(p, d)
  PROVE  ByEvent(p, d)'
<1> USE DEF env, snoop, conf, SettledInv
<1>j. "execsnoop" \in Thread /\ job["execsnoop"] \in Job
  BY DEF Thread, TypeOK
<1>1. ASSUME events'[p] >= events[p], pc'["execsnoop"] = pc["execsnoop"],
             job'["execsnoop"] = job["execsnoop"]
      PROVE  ByEvent(p, d)'
  <2>1. events[p] > 0 => events'[p] > 0
    BY <1>1, TypeStep DEF TypeOK
  <2>2. LookingUp(p, d) => LookingUp(p, d)'
    BY <1>1 DEF LookingUp
  <2>3. Attaching("execsnoop", p) => Attaching("execsnoop", p)'
    BY <1>1 DEF Attaching
  <2> QED
    BY <2>1, <2>2, <2>3 DEF ByEvent
<1>2. ASSUME NEW q \in Pid, SysExitExecve(q) PROVE events'[p] >= events[p]
  BY <1>2 DEF SysExitExecve, TypeOK
<1>3. CASE Environment
  <2>1. pc' = pc /\ job' = job
    BY <1>3 DEF Environment, Launch, Exec, Fork, Exit, Move
  <2>2. events' = events \/ \E q \in Pid : SysExitExecve(q)
    BY <1>3 DEF Environment, Launch, Exec, Fork, Exit, Move
  <2>3. events'[p] >= events[p]
    BY <1>2, <2>2 DEF TypeOK
  <2> QED
    BY <1>1, <2>1, <2>3
<1>4. ASSUME NEW t \in Thread \ {"execsnoop"}, Attach(t) \/ Classify(t)
      PROVE  ByEvent(p, d)'
  <2>1. events' = events
    BY <1>4 DEF Attach, AttachDir, AttachWhere, AttachWrite, AttachRecheck,
       AttachRewrite, AfterRewrite, Classify, GetCgroup, LeaveAlone, CheckBelong
  <2> QED
    BY <1>1, <1>4, <1>j, <2>1, OtherThreads DEF TypeOK
<1>5. CASE Main
  <2>1. CASE Attach("main") \/ Classify("main")
    BY <1>4, <2>1 DEF Thread
  <2>2. CASE ~(Attach("main") \/ Classify("main"))
    <3>1. events' = events /\ (pc' = pc \/ \E l : Goto("main", l))
      BY <1>5, <2>2 DEF Main, StartScan, GiveUp, ScanPid, ScanPath,
         ScanNextList, ScanAstray
    <3>2. job'["execsnoop"] = job["execsnoop"]
      BY <1>5, <1>j, <2>2 DEF Main, StartScan, GiveUp, ScanPid, ScanPath,
         ScanNextList, ScanAstray, TypeOK
    <3>3. pc'["execsnoop"] = pc["execsnoop"]
      BY <1>j, <3>1 DEF Goto, TypeOK
    <3> QED
      BY <1>1, <3>1, <3>2, <3>3 DEF TypeOK
  <2> QED
    BY <2>1, <2>2
<1>6. CASE Socketserver
  <2>1. ASSUME NEW q \in Pid, NEW e \in Dir, PidMessage(q, e)
        PROVE  ByEvent(p, d)'
    BY <1>1, <2>1 DEF PidMessage, CallAttach, Goto, TypeOK
  <2>2. ASSUME NEW c \in Config, ConfigMessage(c) PROVE ByEvent(p, d)'
    BY <2>2 DEF ConfigMessage, Undisturbed
  <2> QED
    BY <1>4, <1>6, <2>1, <2>2 DEF Socketserver, LoadConfig, ApplyClean,
       ApplyStart, NoReload, Thread
<1>7. ASSUME pc["execsnoop"] \notin {"match", "cgroup", "belong", "dir",
                                    "where", "write"},
             events'[p] >= events[p]
      PROVE  ByEvent(p, d)'
  <2>1. events[p] > 0
    BY <1>7 DEF ByEvent, LookingUp, Attaching
  <2>2. events'[p] > 0
    BY <1>7, <2>1, TypeStep DEF TypeOK
  <2> QED
    BY <2>2 DEF ByEvent
<1>8. ASSUME NEW q \in Pid, HandleEvent(q) PROVE ByEvent(p, d)'
  <2>1. CASE q = p
    <3>1. Live(p)
      BY DEF Needs
    <3>2. pc'["execsnoop"] = "match"
      BY <1>8, <2>1, <3>1 DEF HandleEvent, Goto, TypeOK, Thread
    <3>3. job'["execsnoop"] = [job["execsnoop"] EXCEPT
                 !.pid = p, !.dir = "noproxy", !.path = proc[p].exe]
      BY <1>8, <1>j, <2>1, <3>1 DEF HandleEvent, TypeOK
    <3>4. /\ job'["execsnoop"].pid = p /\ job'["execsnoop"].dir = "noproxy"
          /\ job'["execsnoop"].path = proc[p].exe
      BY <1>j, <3>3 DEF Job
    <3> QED
      BY <3>2, <3>4 DEF ByEvent, LookingUp
  <2>2. CASE q # p
    <3>1. pc["execsnoop"] = "poll" /\ events'[p] = events[p]
      BY <1>8, <2>2 DEF HandleEvent, TypeOK
    <3> QED
      BY <1>7, <3>1 DEF TypeOK
  <2> QED
    BY <2>1, <2>2
<1>9. CASE MatchProgram \/ Classify("execsnoop") \/ Attach("execsnoop")
  <2>e. events' = events
    BY <1>9 DEF MatchProgram, Attach, AttachDir, AttachWhere, AttachWrite,
       AttachRecheck, AttachRewrite, AfterRewrite, Classify, GetCgroup,
       LeaveAlone, CheckBelong
  <2>1. CASE events[p] > 0
    BY <2>1, <2>e DEF ByEvent
  <2> DEFINE j == job["execsnoop"]
  <2>2. CASE LookingUp(p, d)
    <3>j. j.pid = p /\ j.path = proc[p].exe /\ j.dir \in {d, "noproxy"}
      BY <2>2 DEF LookingUp
    <3>1. CASE MatchProgram
      <4>1. Finds(j.path, j.dir) = {(j.path \in config.program[j.dir])}
        BY DEF Finds, NoReload
      <4>2. CASE j.path \in config.program[j.dir]
        <5>1. pc'["execsnoop"] = "cgroup" /\ job' = job
          BY <1>j, <3>1, <4>1, <4>2 DEF MatchProgram, Goto, TypeOK
        <5> QED
          BY <3>j, <5>1 DEF ByEvent, LookingUp
      <4>3. CASE j.path \notin config.program[j.dir]
        <5>1. j.dir = "noproxy" /\ d = "proxy"
          BY <3>j, <4>3 DEF Needs, Dir
        <5>2. pc' = pc /\ job' = [job EXCEPT !["execsnoop"].dir = "proxy"]
          BY <3>1, <4>1, <4>3, <5>1 DEF MatchProgram, NextList
        <5>3. /\ job'["execsnoop"].dir = "proxy"
              /\ job'["execsnoop"].pid = p
              /\ job'["execsnoop"].path = proc[p].exe
          BY <1>j, <3>j, <5>2 DEF TypeOK, Job
        <5>4. pc["execsnoop"] = "match"
          BY <3>1 DEF MatchProgram
        <5> QED
          BY <5>1, <5>2, <5>3, <5>4 DEF ByEvent, LookingUp
      <4> QED
        BY <4>2, <4>3
    <3>2. CASE GetCgroup("execsnoop")
      <4>1. /\ pc'["execsnoop"] = "belong"
            /\ job' = [job EXCEPT !["execsnoop"].cg = proc[p].cg]
        BY <1>j, <3>2, <3>j DEF GetCgroup, LeaveAlone, Needs, Goto, TypeOK
      <4>2. /\ job'["execsnoop"].dir = j.dir /\ job'["execsnoop"].pid = p
            /\ job'["execsnoop"].path = proc[p].exe
            /\ job'["execsnoop"].cg = proc[p].cg
        BY <1>j, <3>j, <4>1 DEF TypeOK, Job
      <4> QED
        BY <3>j, <4>1, <4>2 DEF ByEvent, LookingUp
    <3>3. CASE CheckBelong("execsnoop")
      <4>1. Belongs(j.cg, j.dir) = {BelongToAny(j.cg, config.cgroup[j.dir])}
        BY DEF Belongs, NoReload
      <4>2. j.cg = proc[p].cg
        BY <2>2, <3>3 DEF LookingUp, CheckBelong
      <4>3. CASE ~BelongToAny(j.cg, config.cgroup[j.dir])
        <5>1. CallAttach("execsnoop", p, j.dir)
          BY <3>3, <3>j, <4>1, <4>3 DEF CheckBelong
        <5>2. pc'["execsnoop"] = "dir" /\ job'["execsnoop"].pid = p
          BY <1>j, <5>1, NoJobType DEF CallAttach, Goto, TypeOK, Job
        <5> QED
          BY <5>2 DEF ByEvent, Attaching
      <4>4. CASE BelongToAny(j.cg, config.cgroup[j.dir])
        <5>1. j.dir = "noproxy" /\ d = "proxy"
          BY <3>j, <4>2, <4>4 DEF Needs, Dir
        <5>2. /\ pc'["execsnoop"] = "match"
              /\ job' = [job EXCEPT !["execsnoop"].dir = "proxy"]
          BY <1>j, <3>3, <4>1, <4>4, <5>1 DEF CheckBelong, Goto, TypeOK
        <5>3. /\ job'["execsnoop"].dir = "proxy"
              /\ job'["execsnoop"].pid = p
              /\ job'["execsnoop"].path = proc[p].exe
          BY <1>j, <3>j, <5>2 DEF TypeOK, Job
        <5> QED
          BY <5>1, <5>2, <5>3 DEF ByEvent, LookingUp
      <4> QED
        BY <4>3, <4>4
    <3>4. ~Attach("execsnoop")
      BY <2>2 DEF LookingUp, Attach, AttachDir, AttachWhere, AttachWrite,
         AttachRecheck, AttachRewrite
    <3> QED
      BY <1>9, <3>1, <3>2, <3>3, <3>4 DEF Classify
  <2>3. CASE Attaching("execsnoop", p)
    <3>1. Attach("execsnoop")
      BY <1>9, <2>3 DEF Attaching, MatchProgram, Classify, GetCgroup,
         CheckBelong
    <3>2. Attaching("execsnoop", p)'
      BY <1>j, <2>3, <3>1, AttachingStays
    <3> QED
      BY <3>2 DEF ByEvent
  <2> QED
    BY <2>1, <2>2, <2>3 DEF ByEvent
<1>10. CASE Execsnoop
  <2>1. CASE OpenBuffer
    <3>1. pc["execsnoop"] = "off" /\ events' = events
      BY <2>1 DEF OpenBuffer
    <3> QED
      BY <1>7, <3>1 DEF TypeOK
  <2>2. ~PollInterrupted
    BY DEF PollInterrupted, Undisturbed
  <2> QED
    BY <1>8, <1>9, <1>10, <2>1, <2>2 DEF Execsnoop
<1>11. CASE UNCHANGED vars
  BY <1>1, <1>11 DEF vars, TypeOK
<1> QED
  BY <1>3, <1>5, <1>6, <1>10, <1>11 DEF Next

(* processRunningProgram() does not lose a process that is out of place:   *)
(* its path, and then its number, is listed, and it is attached.           *)
LEMMA ByScanStep ==
  ASSUME Undisturbed, SettledInv, [Next]_vars, NEW p \in Pid, NEW d \in Dir,
         Needs(p, d), Needs(p, d)', proc'[p] = proc[p], mounted, ByScan(p, d)
  PROVE  ByScan(p, d)'
<1> USE DEF env, snoop, conf, SettledInv
<1>j. "main" \in Thread /\ job["main"] \in Job
  BY DEF Thread, TypeOK
<1>1. ASSUME scan' = scan, pc'["main"] = pc["main"], job'["main"] = job["main"]
      PROVE  ByScan(p, d)'
  BY <1>1 DEF ByScan, Classifying, Attaching
<1>2. CASE Environment
  BY <1>1, <1>2 DEF Environment, Launch, Exec, Fork, Exit, Move
<1>3. ASSUME NEW t \in Thread \ {"main"}, Attach(t) \/ Classify(t)
      PROVE  ByScan(p, d)'
  <2>1. scan' = scan
    BY <1>3 DEF Attach, AttachDir, AttachWhere, AttachWrite, AttachRecheck,
       AttachRewrite, AfterRewrite, Classify, GetCgroup, LeaveAlone, CheckBelong
  <2> QED
    BY <1>1, <1>3, <1>j, <2>1, OtherThreads
<1>4. ASSUME NEW t \in Thread \ {"main"}, NEW l, Goto(t, l)
      PROVE  pc'["main"] = pc["main"]
  BY <1>4, <1>j DEF Goto, TypeOK
<1>5. CASE Execsnoop
  <2>1. CASE Attach("execsnoop") \/ Classify("execsnoop")
    BY <1>3, <2>1 DEF Thread
  <2>2. CASE ~(Attach("execsnoop") \/ Classify("execsnoop"))
    <3>1. scan' = scan /\ (pc' = pc \/ \E l : Goto("execsnoop", l))
      BY <1>5, <2>2 DEF Execsnoop, OpenBuffer, PollInterrupted, HandleEvent,
         MatchProgram, Return
    <3>2. job'["main"] = job["main"]
      BY <1>5, <1>j, <2>2 DEF Execsnoop, OpenBuffer, PollInterrupted,
         HandleEvent, MatchProgram, Return, TypeOK
    <3> QED
      BY <1>1, <1>4, <3>1, <3>2 DEF Thread
  <2> QED
    BY <2>1, <2>2
<1>6. CASE Socketserver
  <2>1. ASSUME NEW q \in Pid, NEW e \in Dir, PidMessage(q, e)
        PROVE  ByScan(p, d)'
    BY <1>1, <1>4, <1>j, <2>1 DEF PidMessage, CallAttach, TypeOK, Thread
  <2>2. ASSUME NEW c \in Config, ConfigMessage(c) PROVE ByScan(p, d)'
    BY <2>2 DEF ConfigMessage, Undisturbed
  <2> QED
    BY <1>3, <1>6, <2>1, <2>2 DEF Socketserver, LoadConfig, ApplyClean,
       ApplyStart, NoReload, Thread
<1>7. CASE StartScan
  <2>1. /\ pc'["main"] = "next" /\ scan'.dir = "noproxy"
        /\ scan'.paths = config.program["noproxy"]
    BY <1>7, <1>j DEF StartScan, ScanAfterReady, Goto, TypeOK
  <2> QED
    BY <2>1 DEF ByScan, Needs, Dir
<1>8. ASSUME NEW q \in Pid, ScanPid(q) PROVE ByScan(p, d)'
  <2>1. /\ pc["main"] = "next" /\ pc'["main"] = "cgroup"
        /\ scan'.dir = scan.dir /\ scan'.paths = scan.paths
        /\ scan'.pids = scan.pids \ {q}
    BY <1>8, <1>j DEF ScanPid, Goto, TypeOK
  <2>2. job'["main"].pid = q /\ job'["main"].dir = scan.dir
    BY <1>8, <1>j DEF ScanPid, TypeOK, Job
  <2> QED
    BY <2>1, <2>2 DEF ByScan, Classifying, Attaching
<1>9. ASSUME NEW path \in Program, ScanPath(path) PROVE ByScan(p, d)'
  <2>1. /\ pc["main"] = "next" /\ pc'["main"] = "next" /\ scan.pids = {}
        /\ scan'.dir = scan.dir /\ scan'.paths = scan.paths \ {path}
        /\ scan'.pids = {q \in Pid : Live(q) /\ proc[q].exe = path}
    BY <1>9 DEF ScanPath, TypeOK
  <2> QED
    BY <2>1 DEF ByScan, Classifying, Attaching, Needs
<1>10. CASE ScanNextList
  <2>1. pc["main"] = "next" /\ scan.pids = {} /\ scan.paths = {}
    BY <1>10 DEF ScanNextList
  <2>2. scan.dir = "noproxy" /\ d = "proxy"
    BY <2>1 DEF ByScan, Classifying, Attaching
  <2>3. /\ pc' = pc /\ scan'.dir = "proxy"
        /\ scan'.paths = config.program["proxy"]
    BY <1>10, <2>2 DEF ScanNextList, TypeOK
  <2> QED
    BY <2>1, <2>2, <2>3 DEF ByScan, Needs
<1>11. CASE Attach("main") \/ Classify("main")
  <2>1. scan' = scan /\ proc'[p].exe = proc[p].exe
    BY <1>11 DEF Attach, AttachDir, AttachWhere, AttachWrite, AttachRecheck,
       AttachRewrite, AfterRewrite, Classify, GetCgroup, LeaveAlone, CheckBelong
  <2>2. pc["main"] \in AttachLabel \cup {"cgroup", "belong"}
    BY <1>11 DEF Attach, AttachDir, AttachWhere, AttachWrite, AttachRecheck,
       AttachRewrite, Classify, GetCgroup, CheckBelong, AttachLabel
  <2>3. pc'["main"] # "done"
    <3>1. \E l \in AttachLabel \cup {"belong", "match", "next"} : Goto("main", l)
      BY <1>11 DEF Attach, AttachDir, AttachWhere, AttachWrite,
         AttachRecheck, AttachRewrite, AfterRewrite, Classify, GetCgroup,
         LeaveAlone, CheckBelong, CallAttach, Return, Loop, AttachLabel
    <3> QED
      BY <1>j, <3>1 DEF Goto, TypeOK, AttachLabel
  <2>4. CASE ~Classifying("main", p, d) /\ ~Attaching("main", p)
    BY <2>1, <2>2, <2>3, <2>4 DEF ByScan, AttachLabel
  <2>5. CASE Attaching("main", p)
    <3>1. Attach("main")
      BY <1>11, <2>5 DEF Attaching, Classify, GetCgroup, CheckBelong
    <3> QED
      BY <1>j, <2>5, <3>1, AttachingStays DEF ByScan
  <2>6. CASE Classifying("main", p, d)
    <3> DEFINE j == job["main"]
    <3>j. j.pid = p /\ j.dir = d
      BY <2>6 DEF Classifying
    <3>1. CASE GetCgroup("main")
      <4>1. /\ pc'["main"] = "belong"
            /\ job' = [job EXCEPT !["main"].cg = proc[p].cg]
        BY <1>j, <3>1, <3>j DEF GetCgroup, LeaveAlone, Needs, Goto, TypeOK
      <4>2. /\ job'["main"].dir = d /\ job'["main"].pid = p
            /\ job'["main"].cg = proc[p].cg
        BY <1>j, <3>j, <4>1 DEF TypeOK, Job
      <4> QED
        BY <4>1, <4>2 DEF ByScan, Classifying
    <3>2. CASE CheckBelong("main")
      <4>1. Belongs(j.cg, j.dir) = {BelongToAny(j.cg, config.cgroup[j.dir])}
        BY DEF Belongs, NoReload
      <4>2. j.cg = proc[p].cg
        BY <2>6, <3>2 DEF Classifying, CheckBelong
      <4>3. ~BelongToAny(j.cg, config.cgroup[j.dir])
        BY <3>j, <4>2 DEF Needs
      <4>4. CallAttach("main", p, d)
        BY <3>2, <3>j, <4>1, <4>3 DEF CheckBelong
      <4>5. pc'["main"] = "dir" /\ job'["main"].pid = p
        BY <1>j, <4>4, NoJobType DEF CallAttach, Goto, TypeOK, Job
      <4> QED
        BY <4>5 DEF ByScan, Attaching
    <3>3. ~Attach("main")
      BY <2>6 DEF Classifying, Attach, AttachDir, AttachWhere, AttachWrite,
         AttachRecheck, AttachRewrite
    <3> QED
      BY <1>11, <3>1, <3>2, <3>3 DEF Classify
  <2> QED
    BY <2>4, <2>5, <2>6
<1>12. CASE Main
  BY <1>7, <1>8, <1>9, <1>10, <1>11, <1>12 DEF Main, GiveUp, ScanAstray,
     NoReload, Undisturbed
<1>13. CASE UNCHANGED vars
  BY <1>1, <1>13 DEF vars
<1> QED
  BY <1>2, <1>5, <1>6, <1>12, <1>13 DEF Next

-----------------------------------------------------------------------------
(* Nothing that is out of place is lost by both threads.                   *)
LEMMA CoveredStep ==
  ASSUME Undisturbed, SettledInv, [Next]_vars
  PROVE  Covered'
<1>m. mounted' = mounted
  BY NoReloadStep DEF SettledInv, Undisturbed
<1> SUFFICES ASSUME mounted, NEW p \in Pid, NEW d \in Dir, Needs(p, d)'
             PROVE  ByEvent(p, d)' \/ ByScan(p, d)'
  BY <1>m DEF Covered
<1>1. CASE events'[p] > 0 \/ pc'["main"] = "wait"
  BY <1>1 DEF ByEvent, ByScan
<1>2. CASE Needs(p, d) /\ proc'[p] = proc[p]
  <2>1. ByEvent(p, d) \/ ByScan(p, d)
    BY <1>2 DEF SettledInv, Covered
  <2> QED
    BY <1>2, <2>1, ByEventStep, ByScanStep
<1> QED
  BY <1>1, <1>2, NeedsOrigin

(* Whenever the daemon has nothing left to do, every live process of a     *)
(* listed program is in place, for any number of processes, programs,      *)
(* cgroups, configurations and events: handle_pid(), for the programs that *)
(* start, and processRunningProgram(), for those that run already, leave   *)
(* no gap between them but the execve that was under way when the programs *)
(* were attached.                                                          *)
THEOREM NothingMissed ==
  ASSUME Undisturbed
  PROVE  Spec => []SettledPlaced
<1>1. Init => SettledInv
  <2> SUFFICES ASSUME Init PROVE SettledInv
    OBVIOUS
  <2>1. NoReload /\ ScanAfterReady
    BY DEF Init, NoReload, ScanAfterReady
  <2>2. Covered
    BY DEF Init, Covered, ByScan
  <2> QED
    BY <2>1, <2>2, TypeInit DEF SettledInv
<1>2. SettledInv /\ [Next]_vars => SettledInv'
  <2> SUFFICES ASSUME SettledInv, [Next]_vars PROVE SettledInv'
    OBVIOUS
  <2>1. TypeOK'
    BY TypeStep DEF SettledInv
  <2> QED
    BY <2>1, NoReloadStep, ScanAfterReadyStep, CoveredStep
       DEF SettledInv, Undisturbed
<1>3. SettledInv => SettledPlaced
  <2> SUFFICES ASSUME SettledInv, Settled, mounted, NEW p \in Pid,
                      NEW d \in Dir, Needs(p, d)
               PROVE  FALSE
    BY DEF SettledPlaced, WellPlaced, Needs
  <2>1. ~ByEvent(p, d)
    BY DEF Settled, ByEvent, LookingUp, Attaching, SettledInv, TypeOK
  <2>2. ~ByScan(p, d)
    BY DEF Settled, ByScan, Classifying, Attaching
  <2> QED
    BY <2>1, <2>2 DEF SettledInv, Covered
<1> QED
  BY <1>1, <1>2, <1>3, PTL DEF Spec

-----------------------------------------------------------------------------
(* The statements of a thread other than the first write of attach() do    *)
(* not lead from that write to the check that follows it.                  *)
LEMMA OnlyWriteLeadsToRecheck ==
  ASSUME TypeOK, Next, NEW t \in Thread, pc[t] = "write", pc'[t] = "recheck"
  PROVE  AttachWrite(t)
<1> USE DEF env, snoop, conf
<1>1. ASSUME pc'[t] = pc[t] PROVE FALSE
  BY <1>1
<1>2. ASSUME NEW u \in Thread, NEW l, Goto(u, l), u # t PROVE FALSE
  BY <1>2 DEF Goto, TypeOK
<1>3. ASSUME NEW u \in Thread, Attach(u) \/ Classify(u) PROVE AttachWrite(t)
  <2>1. CASE u # t
    BY <1>1, <1>3, <2>1, OtherThreads
  <2>2. CASE u = t
    BY <1>3, <2>2 DEF Attach, AttachDir, AttachWhere, AttachRecheck,
       AttachRewrite, Classify, GetCgroup, CheckBelong
  <2> QED
    BY <2>1, <2>2
<1>4. CASE Environment
  BY <1>1, <1>4 DEF Environment, Launch, Exec, Fork, Exit, Move
<1>5. CASE Execsnoop
  <2>1. CASE t = "execsnoop"
    BY <1>3, <1>5, <2>1 DEF Execsnoop, OpenBuffer, PollInterrupted,
       HandleEvent, MatchProgram, Thread
  <2>2. CASE t # "execsnoop"
    BY <1>1, <1>2, <1>3, <1>5, <2>2 DEF Execsnoop, OpenBuffer,
       PollInterrupted, HandleEvent, MatchProgram, Return, Thread
  <2> QED
    BY <2>1, <2>2
<1>6. CASE Main
  <2>1. CASE t = "main"
    BY <1>3, <1>6, <2>1 DEF Main, StartScan, GiveUp, ScanPid, ScanPath,
       ScanNextList, ScanAstray, Thread
  <2>2. CASE t # "main"
    BY <1>1, <1>2, <1>3, <1>6, <2>2 DEF Main, StartScan, GiveUp, ScanPid,
       ScanPath, ScanNextList, ScanAstray, Thread
  <2> QED
    BY <2>1, <2>2
<1>7. CASE Socketserver
  <2>1. CASE t = "socketserver"
    BY <1>3, <1>7, <2>1 DEF Socketserver, PidMessage, ConfigMessage,
       LoadConfig, ApplyClean, ApplyStart, Thread
  <2>2. CASE t # "socketserver"
    BY <1>2, <1>3, <1>7, <2>2 DEF Socketserver, PidMessage, ConfigMessage,
       LoadConfig, ApplyClean, ApplyStart, CallAttach, Thread
  <2> QED
    BY <2>1, <2>2
<1> QED
  BY <1>4, <1>5, <1>6, <1>7 DEF Next

(* A write that attach() takes for done has moved the process, as long as  *)
(* no mount fails and no configuration is loaded, whichever other          *)
(* interferences there are: it is the unmounting, of which PlacementReload *)
(* shows a case, that makes the success of write2procs() hollow.           *)
THEOREM WritesMove ==
  ASSUME {"reload", "mount_fails"} \cap Disturbances = {}
  PROVE  Spec => WriteMoves
<1> DEFINE Moves == \A t \in Thread : pc[t] = "write" /\ pc'[t] = "recheck" =>
                       proc'[job[t].pid].cg = Preserved[job[t].dir]
           Inv == TypeOK /\ NoReload /\ mounted
<1>1. Init => Inv
  BY TypeInit DEF Init, NoReload
<1>2. Inv /\ [Next]_vars => Inv'
  BY TypeStep, NoReloadStep
<1>3. Inv /\ [Next]_vars => [Moves]_vars
  <2> SUFFICES ASSUME TypeOK, mounted, Next, NEW t \in Thread,
                      pc[t] = "write", pc'[t] = "recheck"
               PROVE  proc'[job[t].pid].cg = Preserved[job[t].dir]
    OBVIOUS
  <2> DEFINE p == job[t].pid
             d == job[t].dir
  <2>1. p \in Pid
    BY DEF TypeOK, Job
  <2>2. AttachWrite(t)
    BY OnlyWriteLeadsToRecheck
  <2>3. PICK st \in {"success", "error"} :
          /\ Write2procs(p, d, st)
          /\ st = "error" => Return(t, "error")
    BY <2>2 DEF AttachWrite
  <2>4. ~Return(t, "error")
    BY DEF Return, Goto, Loop, Thread, TypeOK
  <2>5. proc' = [proc EXCEPT ![p].cg = Preserved[d]]
    BY <2>3, <2>4 DEF Write2procs
  <2> QED
    BY <2>1, <2>5 DEF TypeOK, Process
<1> QED
  BY <1>1, <1>2, <1>3, PTL DEF Spec, WriteMoves
=============================================================================

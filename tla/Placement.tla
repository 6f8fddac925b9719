----------------------------- MODULE Placement ------------------------------
(***************************************************************************)
(* How cgproxyd places processes in cgroups.                               *)
(*                                                                         *)
(* Three threads of the daemon move processes into the two preserved       *)
(* cgroups, all through attach() of src/cgroup_attach.cpp:                 *)
(*   - execsnoop runs handle_pid() for each exec event of the kernel;      *)
(*   - main runs processRunningProgram() once, at start-up;                *)
(*   - socketserver obeys the clients cgproxy and cgnoproxy, and also      *)
(*     loads new configurations, which unmounts and mounts again the       *)
(*     cgroup2 file system that attach() writes to.                        *)
(* They share the configuration, the mount and the processes with no lock, *)
(* while the processes fork, exec, exit and are moved by others.  A step   *)
(* of a thread is one access to that shared state.                         *)
(***************************************************************************)
EXTENDS Naturals, CgroupPath

CONSTANTS
  Pid,           \* process numbers
  Program,       \* real paths of executables
  Cgproxy,       \* the path of the client, run as cgproxy or as cgnoproxy
  Cgroup,        \* the cgroups that processes are in
  Config,        \* the configurations that the daemon may load
  MaxEvents,     \* bound: exec events of one process waiting in the buffer
  Disturbances   \* what the environment does beyond fork, exec and exit

(* The interferences that a run can switch on.                             *)
(*   reuse       the kernel gives the number of a dead process to another  *)
(*   early_fork  a program forks before the daemon has placed it           *)
(*   wrap        a process execs the client in place, without a fork       *)
(*   move        someone else (systemd, a shell) moves a process           *)
(*   pid_option  clients are started with --pid, for any process           *)
(*   reload      clients send configurations                               *)
(*   lost        the perf buffer overflows and events are dropped          *)
(*   eintr       polling the perf buffer is interrupted                    *)
(*   timeout     execsnoop is not ready within THREAD_TIMEOUT              *)
(*   io          a write to cgroup.procs fails                             *)
(*   mount_fails the script cannot mount cgroup2, and ends there           *)
(*   in_flight   processes are inside an execve when execsnoop comes up    *)
AllDisturbances == {"reuse", "early_fork", "wrap", "move", "pid_option",
                    "reload", "lost", "eintr", "timeout", "io",
                    "mount_fails", "in_flight"}

ASSUME PlacementAssumption ==
  /\ Pid # {}
  /\ Cgproxy \in Program
  /\ \A d \in Dir : Preserved[d] \in Cgroup
  /\ Config # {}
  /\ Config \subseteq [program : [Dir -> SUBSET (Program \ {Cgproxy})],
                       cgroup  : [Dir -> SUBSET Seq(STRING)]]
  /\ MaxEvents \in Nat
  /\ Disturbances \subseteq AllDisturbances

VARIABLES
  proc,      \* the kernel's processes
  granted,   \* what the daemon last told a client to have done, per process
  events,    \* exec events in the perf buffer, per process
  buffer,    \* whether the perf buffer is open
  ready,     \* whether execsnoop has fulfilled its promise
  entered,   \* numbers whose execve is older than the BPF programs
  missed,    \* history: processes that came too late by such an execve
  config,    \* cgproxyd::config
  incoming,  \* the configuration that is being loaded into it
  mounted,   \* whether cgroup2 is mounted at CGROUP2_MOUNT_POINT
  pc,        \* where each thread is
  job,       \* the local variables of handle_pid() and attach()
  scan       \* the loops of processRunningProgram()

env   == <<proc, granted, events>>
snoop == <<buffer, ready, entered, missed>>
conf  == <<config, incoming, mounted>>
vars  == <<proc, granted, events, buffer, ready, entered, missed, config,
           incoming, mounted, pc, job, scan>>

Thread == {"main", "socketserver", "execsnoop"}

(* Where a thread waits for its next piece of work. *)
Loop == [main |-> "next", socketserver |-> "accept", execsnoop |-> "poll"]

(* The statements of attach(), and those that lead to a call of it. *)
AttachLabel == {"dir", "where", "write", "recheck", "rewrite"}
Label == AttachLabel \cup {"cgroup", "belong", "match", "poll", "off",
                           "accept", "load", "clean", "start",
                           "wait", "next", "done"}

(* A command stands until somebody else moves the process ("void").  The   *)
(* client is told "done" too when nothing was mounted ("lost").            *)
Command == Dir \cup {"none", "void", "lost"}

Process == [st : {"unused", "live", "dead"}, exe : Program, cg : Cgroup]
NoProcess(st) == [st |-> st, exe |-> Cgproxy, cg |-> Preserved["proxy"]]
Job     == [pid : Pid, dir : Dir, path : Program, cg : Cgroup]
NoJob   == CHOOSE j \in Job : TRUE

Live(p) == proc[p].st = "live"

(* A thread that reads the program list while socketserver assigns it and  *)
(* replaces its names by real paths races with the writes: it may see the  *)
(* old list, the new one, or one whose names are not resolved yet.         *)
Finds(path, d) ==
  {(path \in config.program[d])} \cup
    (IF pc["socketserver"] = "load"
     THEN {(path \in incoming.program[d]), FALSE} ELSE {})

(* The same for the cgroup list, which is replaced and then completed.     *)
Belongs(cg, d) ==
  {BelongToAny(cg, config.cgroup[d])} \cup
    (IF pc["socketserver"] = "load"
     THEN {BelongToAny(cg, incoming.cgroup[d]), FALSE} ELSE {})

(* A process that needs nothing more from handle_pid(). *)
WellPlaced(p) ==
  Live(p) => \A d \in Dir :
     proc[p].exe \in config.program[d] =>
        InPreserved(proc[p].cg) \/ BelongToAny(proc[p].cg, config.cgroup[d])

TypeOK ==
  /\ proc \in [Pid -> Process]
  /\ granted \in [Pid -> Command]
  /\ events \in [Pid -> 0..MaxEvents]
  /\ buffer \in BOOLEAN /\ ready \in BOOLEAN /\ mounted \in BOOLEAN
  /\ entered \subseteq Pid /\ missed \subseteq Pid
  /\ config \in Config /\ incoming \in Config
  /\ pc \in [Thread -> Label]
  /\ job \in [Thread -> Job]
  /\ scan \in [dir : Dir, paths : SUBSET (Program \ {Cgproxy}),
               pids : SUBSET Pid, astray : BOOLEAN]

(* start() has applied the first configuration, and goes on whether or not *)
(* the script could mount cgroup2.  Processes run, some of them in a       *)
(* preserved cgroup since an earlier daemon.                               *)
Init ==
  /\ proc \in [Pid -> Process]
  /\ \A p \in Pid : Live(p) \/ proc[p] = NoProcess("unused")
  /\ granted = [p \in Pid |-> "none"]
  /\ events = [p \in Pid |-> 0]
  /\ buffer = FALSE /\ ready = FALSE /\ entered = {} /\ missed = {}
  /\ config \in Config /\ incoming = config
  /\ mounted \in BOOLEAN /\ (mounted \/ "mount_fails" \in Disturbances)
  /\ pc = [main |-> "wait", socketserver |-> "accept", execsnoop |-> "off"]
  /\ job = [t \in Thread |-> NoJob]
  /\ scan = [dir |-> "noproxy", paths |-> {}, pids |-> {}, astray |-> FALSE]

-----------------------------------------------------------------------------
(* The environment: processes. *)

(* A return from execve puts an event in the buffer, if one is open and    *)
(* the call has a record: if it began when the programs were attached.  An *)
(* older call that returns after the scan has begun is missed by both.     *)
SysExitExecve(p) ==
  /\ entered' = entered \ {p}
  /\ missed' = IF p \in entered /\ pc["main"] # "wait"
               THEN missed \cup {p} ELSE missed \ {p}
  /\ \/ /\ ~buffer \/ p \in entered \/ "lost" \in Disturbances
        /\ UNCHANGED events
     \/ /\ buffer /\ p \notin entered /\ events[p] < MaxEvents
        /\ events' = [events EXCEPT ![p] = @ + 1]

Fresh(p) ==
  proc[p].st = "unused" \/ (proc[p].st = "dead" /\ "reuse" \in Disturbances)

(* The client runs its command, with system(), only when the daemon has    *)
(* answered.  One that execs the command in place stands for the child.    *)
Free(p) == Live(p) /\ (proc[p].exe = Cgproxy => granted[p] # "none")

(* A shell or systemd, which no configuration lists, starts a program. *)
Launch(p, prog, cg) ==
  /\ Fresh(p) /\ ~InPreserved(cg)
  /\ proc' = [proc EXCEPT ![p] = [st |-> "live", exe |-> prog, cg |-> cg]]
  /\ granted' = [granted EXCEPT ![p] = "none"]
  /\ SysExitExecve(p)
  /\ UNCHANGED <<buffer, ready, conf, pc, job, scan>>

Exec(p, prog) ==
  /\ Free(p) /\ (prog = Cgproxy => "wrap" \in Disturbances)
  /\ proc' = [proc EXCEPT ![p].exe = prog]
  /\ granted' = IF prog = Cgproxy THEN [granted EXCEPT ![p] = "none"]
                                  ELSE granted
  /\ SysExitExecve(p)
  /\ UNCHANGED <<buffer, ready, conf, pc, job, scan>>

(* A child has its parent's cgroup and program; execve is not called. *)
Fork(p, child) ==
  /\ Free(p) /\ Fresh(child) /\ {p, child} \cap entered = {}
  /\ WellPlaced(p) \/ "early_fork" \in Disturbances
  /\ proc' = [proc EXCEPT ![child] = proc[p]]
  /\ granted' = [granted EXCEPT ![child] = granted[p]]
  /\ missed' = missed \cup {c \in {child} : p \in missed}
  /\ UNCHANGED <<events, buffer, ready, entered, conf, pc, job, scan>>

Exit(p) ==
  /\ Live(p)
  /\ proc' = [proc EXCEPT ![p] = NoProcess("dead")]
  /\ granted' = [granted EXCEPT ![p] = "none"]
  /\ entered' = entered \ {p} /\ missed' = missed \ {p}
  /\ UNCHANGED <<events, buffer, ready, conf, pc, job, scan>>

Move(p, cg) ==
  /\ "move" \in Disturbances /\ Live(p)
  /\ proc' = [proc EXCEPT ![p].cg = cg]
  /\ granted' = [granted EXCEPT ![p] = IF @ = "none" THEN "none" ELSE "void"]
  /\ UNCHANGED <<events, snoop, conf, pc, job, scan>>

-----------------------------------------------------------------------------
(* attach(), called by every thread for job[t].pid and the preserved       *)
(* cgroup of job[t].dir.                                                   *)

Goto(t, label) == pc' = [pc EXCEPT ![t] = label]

CallAttach(t, p, d) ==
  /\ Goto(t, "dir")
  /\ job' = [job EXCEPT ![t] = [NoJob EXCEPT !.pid = p, !.dir = d]]

(* Control is back in the thread's loop.  socketserver sends the status,   *)
(* and the client takes 0 for done, whether or not cgroup2 is mounted.     *)
Return(t, status) ==
  /\ Goto(t, Loop[t])
  /\ job' = [job EXCEPT ![t] = NoJob]
  /\ granted' = IF t = "socketserver" /\ status = "success"
                THEN [granted EXCEPT ![job[t].pid] =
                        IF mounted THEN job[t].dir ELSE "lost"]
                ELSE granted

(* write2procs.  Where nothing is mounted, a regular file is written, if   *)
(* there is a plain directory for it.  Which of these there are, since an  *)
(* earlier daemon or an earlier call, is left open.                        *)
Write2procs(p, d, status) ==
  \/ /\ mounted /\ Live(p) /\ status = "success"
     /\ proc' = [proc EXCEPT ![p].cg = Preserved[d]]
  \/ /\ mounted /\ (~Live(p) \/ "io" \in Disturbances) /\ status = "error"
     /\ UNCHANGED proc
  \/ ~mounted /\ UNCHANGED proc

(* dirExist() or else mkdir().  START has made the real directories; in    *)
(* the bare mount point, mkdir() makes a plain one or fails.               *)
AttachDir(t) ==
  /\ pc[t] = "dir"
  /\ \/ Goto(t, "where") /\ UNCHANGED <<job, granted>>
     \/ ~mounted /\ Return(t, "error")
  /\ UNCHANGED <<proc, events, snoop, conf, scan>>

(* No cgroup means that the process is gone; both early returns are 0. *)
AttachWhere(t) ==
  LET p == job[t].pid IN
  /\ pc[t] = "where"
  /\ IF Live(p) /\ proc[p].cg # Preserved[job[t].dir]
     THEN Goto(t, "write") /\ UNCHANGED <<job, granted>>
     ELSE Return(t, "success")
  /\ UNCHANGED <<proc, events, snoop, conf, scan>>

AttachWrite(t) ==
  /\ pc[t] = "write"
  /\ \E status \in {"success", "error"} :
       /\ Write2procs(job[t].pid, job[t].dir, status)
       /\ IF status = "success"
          THEN Goto(t, "recheck") /\ UNCHANGED <<job, granted>>
          ELSE Return(t, "error")
  /\ UNCHANGED <<events, snoop, conf, scan>>

(* "wait for small period and check again" *)
AttachRecheck(t) ==
  LET p == job[t].pid IN
  /\ pc[t] = "recheck"
  /\ IF Live(p) /\ proc[p].cg # Preserved[job[t].dir]
     THEN Goto(t, "rewrite") /\ UNCHANGED <<job, granted>>
     ELSE Return(t, "success")
  /\ UNCHANGED <<proc, events, snoop, conf, scan>>

(* What it gives is returned.  A mutation: look again, until it stays. *)
AfterRewriteAgain(t, status) == Goto(t, "recheck") /\ UNCHANGED <<job, granted>>
AfterRewrite(t, status) == Return(t, status)

AttachRewrite(t) ==
  /\ pc[t] = "rewrite"
  /\ \E status \in {"success", "error"} :
       Write2procs(job[t].pid, job[t].dir, status) /\ AfterRewrite(t, status)
  /\ UNCHANGED <<events, snoop, conf, scan>>

Attach(t) == AttachDir(t) \/ AttachWhere(t) \/ AttachWrite(t)
               \/ AttachRecheck(t) \/ AttachRewrite(t)

-----------------------------------------------------------------------------
(* The part that handle_pid() and processRunningProgram() share: look at   *)
(* the cgroup of a process whose program is listed.                        *)

(* A process in a preserved cgroup is.  A mutation: none is. *)
LeaveAloneNot(cg) == FALSE
LeaveAlone(cg) == InPreserved(cg)

GetCgroup(t) ==
  LET p == job[t].pid IN
  /\ pc[t] = "cgroup"
  /\ IF ~Live(p) \/ LeaveAlone(proc[p].cg)
     THEN Return(t, "ignored")
     ELSE /\ Goto(t, "belong")
          /\ job' = [job EXCEPT ![t].cg = proc[p].cg]
          /\ UNCHANGED granted
  /\ UNCHANGED <<proc, events, snoop, conf, scan>>

(* handle_pid() falls through from program_noproxy to program_proxy when   *)
(* the process is in one of the cgroups of cgroup_noproxy already.         *)
CheckBelong(t) ==
  /\ pc[t] = "belong"
  /\ \E belongs \in Belongs(job[t].cg, job[t].dir) :
       \/ /\ ~belongs
          /\ CallAttach(t, job[t].pid, job[t].dir)
          /\ UNCHANGED granted
       \/ /\ belongs /\ t = "execsnoop" /\ job[t].dir = "noproxy"
          /\ Goto(t, "match")
          /\ job' = [job EXCEPT ![t].dir = "proxy"]
          /\ UNCHANGED granted
       \/ /\ belongs /\ ~(t = "execsnoop" /\ job[t].dir = "noproxy")
          /\ Return(t, "ignored")
  /\ UNCHANGED <<proc, events, snoop, conf, scan>>

-----------------------------------------------------------------------------
(* Thread execsnoop. *)

(* The perf buffer is opened; the first time round, the BPF programs have  *)
(* just been attached, and the promise is fulfilled.  Any processes but    *)
(* clients that wait may be inside an execve, that will succeed, by then.  *)
MayBeInside == {p \in Pid : Free(p) \/ Fresh(p)}

OpenBuffer ==
  /\ pc["execsnoop"] = "off" /\ Goto("execsnoop", "poll")
  /\ buffer' = TRUE /\ ready' = TRUE
  /\ \/ UNCHANGED entered
     \/ /\ ~ready /\ "in_flight" \in Disturbances
        /\ entered' \in SUBSET MayBeInside
  /\ UNCHANGED <<env, missed, conf, job, scan>>

(* An interrupted poll frees the buffer, with what is in it, and the       *)
(* thread goes back to open another.                                       *)
PollInterrupted ==
  /\ "eintr" \in Disturbances
  /\ pc["execsnoop"] = "poll" /\ Goto("execsnoop", "off")
  /\ buffer' = FALSE
  /\ events' = [p \in Pid |-> 0]
  /\ UNCHANGED <<proc, granted, ready, entered, missed, conf, job, scan>>

(* A mutation: an event is handled that nobody sent. *)
PendingAlways(p) == TRUE
Pending(p) == events[p] > 0

(* handle_pid(p) begins with realpath("/proc/<pid>/exe"). *)
HandleEvent(p) ==
  /\ pc["execsnoop"] = "poll" /\ Pending(p)
  /\ events' = [events EXCEPT ![p] = @ - 1]
  /\ \/ /\ Live(p) /\ Goto("execsnoop", "match")
        /\ job' = [job EXCEPT !["execsnoop"] =
                     [@ EXCEPT !.pid = p, !.dir = "noproxy",
                               !.path = proc[p].exe]]
     \/ ~Live(p) /\ UNCHANGED <<pc, job>>
  /\ UNCHANGED <<proc, granted, snoop, conf, scan>>

(* The list to look into next.  A mutation: the same one, for ever. *)
NextListSame(d) == d
NextList(d) == "proxy"

MatchProgram ==
  LET j == job["execsnoop"] IN
  /\ pc["execsnoop"] = "match"
  /\ \E found \in Finds(j.path, j.dir) :
       \/ /\ found
          /\ Goto("execsnoop", "cgroup") /\ UNCHANGED <<job, granted>>
       \/ /\ ~found /\ j.dir = "noproxy"
          /\ job' = [job EXCEPT !["execsnoop"].dir = NextList(j.dir)]
          /\ UNCHANGED <<pc, granted>>
       \/ /\ ~found /\ j.dir = "proxy"
          /\ Return("execsnoop", "ignored")
  /\ UNCHANGED <<proc, events, snoop, conf, scan>>

-----------------------------------------------------------------------------
(* Thread main: startExecsnoopThread() and processRunningProgram(). *)

(* A mutation: the scan does not wait for execsnoop. *)
MayScanEarly == TRUE
MayScan == ready

StartScan ==
  /\ pc["main"] = "wait" /\ MayScan /\ Goto("main", "next")
  /\ scan' = [scan EXCEPT !.paths = config.program["noproxy"]]
  /\ UNCHANGED <<env, snoop, conf, job>>

GiveUp ==
  /\ "timeout" \in Disturbances
  /\ pc["main"] = "wait" /\ ~ready /\ Goto("main", "done")
  /\ UNCHANGED <<env, snoop, conf, job, scan>>

ScanPid(p) ==
  /\ pc["main"] = "next" /\ p \in scan.pids /\ Goto("main", "cgroup")
  /\ scan' = [scan EXCEPT !.pids = @ \ {p}]
  /\ job' = [job EXCEPT !["main"].pid = p, !["main"].dir = scan.dir]
  /\ UNCHANGED <<env, snoop, conf>>

(* bash_pidof(path) *)
ScanPath(path) ==
  /\ pc["main"] = "next" /\ scan.pids = {} /\ path \in scan.paths
  /\ scan' = [scan EXCEPT !.paths = @ \ {path},
                !.pids = {p \in Pid : Live(p) /\ proc[p].exe = path}]
  /\ UNCHANGED <<env, snoop, conf, pc, job>>

ScanNextList ==
  /\ pc["main"] = "next" /\ scan.pids = {} /\ scan.paths = {}
  /\ \/ /\ scan.dir = "noproxy"
        /\ scan' = [scan EXCEPT !.dir = "proxy", !.astray = FALSE,
                                !.paths = config.program["proxy"]]
        /\ UNCHANGED pc
     \/ scan.dir = "proxy" /\ Goto("main", "done") /\ UNCHANGED scan
  /\ UNCHANGED <<env, snoop, conf, job>>

(* The loop holds iterators into a list that socketserver is replacing, or *)
(* has replaced while main was inside the loop: it may go on with whatever *)
(* entries a list has had.                                                 *)
EverListed == {prog \in Program : \E c \in Config, d \in Dir :
                                 prog \in c.program[d]}

ScanAstray ==
  /\ pc["main"] = "next" /\ (scan.astray \/ pc["socketserver"] = "load")
  /\ \E paths \in SUBSET EverListed :
       scan' = [scan EXCEPT !.paths = paths]
  /\ UNCHANGED <<env, snoop, conf, pc, job>>

-----------------------------------------------------------------------------
(* Thread socketserver: handle_msg(). *)

(* MSG_TYPE_PROXY_PID, MSG_TYPE_NOPROXY_PID.  A client sends its own pid,  *)
(* or with --pid that of any process.  A client that is refused exits; one *)
(* that asks again here stands for its next try.                           *)
PidMessage(p, d) ==
  /\ pc["socketserver"] = "accept" /\ CallAttach("socketserver", p, d)
  /\ \/ Live(p) /\ proc[p].exe = Cgproxy /\ granted[p] = "none"
     \/ "pid_option" \in Disturbances
  /\ granted' = [granted EXCEPT ![p] = IF @ = "none" THEN "none" ELSE "void"]
  /\ UNCHANGED <<proc, events, snoop, conf, scan>>

(* MSG_TYPE_CONFIG_JSON, MSG_TYPE_CONFIG_PATH with a valid configuration. *)
ConfigMessage(c) ==
  /\ "reload" \in Disturbances
  /\ pc["socketserver"] = "accept" /\ Goto("socketserver", "load")
  /\ incoming' = c
  /\ UNCHANGED <<env, snoop, config, mounted, job, scan>>

LoadConfig ==
  /\ pc["socketserver"] = "load" /\ Goto("socketserver", "clean")
  /\ config' = incoming
  /\ scan' = [scan EXCEPT !.astray = @ \/ pc["main"] \notin {"wait", "done"}]
  /\ UNCHANGED <<env, snoop, incoming, mounted, job>>

(* applyConfig(): the script unmounts cgroup2, unless it is busy, and then *)
(* mounts it again.  The status of the script is not looked at.            *)
ApplyClean ==
  /\ pc["socketserver"] = "clean" /\ Goto("socketserver", "start")
  /\ mounted' \in {mounted, FALSE}
  /\ UNCHANGED <<env, snoop, config, incoming, job, scan>>

ApplyStart ==
  /\ pc["socketserver"] = "start" /\ Goto("socketserver", "accept")
  /\ \/ mounted' = TRUE
     \/ "mount_fails" \in Disturbances /\ UNCHANGED mounted
  /\ UNCHANGED <<env, snoop, config, incoming, job, scan>>

-----------------------------------------------------------------------------
Environment ==
  \E p \in Pid :
    \/ \E prog \in Program, cg \in Cgroup : Launch(p, prog, cg)
    \/ \E prog \in Program : Exec(p, prog)
    \/ \E child \in Pid : Fork(p, child)
    \/ Exit(p)
    \/ \E cg \in Cgroup : Move(p, cg)

Classify(t) == GetCgroup(t) \/ CheckBelong(t)

Execsnoop ==
  \/ OpenBuffer \/ PollInterrupted
  \/ \E p \in Pid : HandleEvent(p)
  \/ MatchProgram \/ Classify("execsnoop") \/ Attach("execsnoop")

Main ==
  \/ StartScan \/ GiveUp
  \/ \E p \in Pid : ScanPid(p)
  \/ \E path \in Program : ScanPath(path)
  \/ ScanNextList \/ ScanAstray \/ Classify("main") \/ Attach("main")

Socketserver ==
  \/ \E p \in Pid, d \in Dir : PidMessage(p, d)
  \/ \E c \in Config : ConfigMessage(c)
  \/ LoadConfig \/ ApplyClean \/ ApplyStart \/ Attach("socketserver")

Next == Environment \/ Execsnoop \/ Main \/ Socketserver

Spec == Init /\ [][Next]_vars

(* The threads run whenever they can: none of them waits for another, but  *)
(* for main, which waits for the promise.  Every ring of the perf buffer   *)
(* is polled, so no event waits for ever while others are handled.  The    *)
(* environment, and so the clients, need not do anything.                  *)
Fairness ==
  /\ WF_vars(Main)
  /\ WF_vars(LoadConfig \/ ApplyClean \/ ApplyStart \/ Attach("socketserver"))
  /\ WF_vars(OpenBuffer \/ MatchProgram \/ Classify("execsnoop")
               \/ Attach("execsnoop"))
  /\ \A p \in Pid : SF_vars(HandleEvent(p))

FairSpec == Spec /\ Fairness

-----------------------------------------------------------------------------
(* Nothing is left to do: the start-up scan is over, no event waits and no *)
(* thread is at work.                                                      *)
Settled ==
  /\ pc = [main |-> "done", socketserver |-> "accept", execsnoop |-> "poll"]
  /\ \A p \in Pid : events[p] = 0

(* Whenever the daemon has nothing left to do, every live process of a     *)
(* listed program is in a preserved cgroup or in a cgroup of its list: the *)
(* scan of processRunningProgram() and the exec events cover each other,   *)
(* whatever was started, forked or replaced while the daemon came up.  The *)
(* one gap is an execve that began before the BPF programs were attached   *)
(* and returned after the scan had begun; and there is nowhere to place    *)
(* anything while cgroup2 is not mounted.                                  *)
SettledPlaced ==
  Settled /\ mounted => \A p \in Pid : WellPlaced(p) \/ p \in missed

(* A process whose client was told "done" stays in the cgroup that it      *)
(* asked for, through fork and exec: neither handle_pid() nor              *)
(* processRunningProgram() moves it again, however late they come to it.   *)
(* A client that was told so while nothing was mounted is not meant: its   *)
(* command was never carried out.                                          *)
CommandWins ==
  \A p \in Pid : Live(p) /\ granted[p] \in Dir =>
                    proc[p].cg = Preserved[granted[p]]

(* attach() writes "to put pid to target cgroup": when write2procs()       *)
(* reports success for the first write, the process is in that cgroup.     *)
WriteMoves ==
  [][\A t \in Thread : pc[t] = "write" /\ pc'[t] = "recheck" =>
        proc'[job[t].pid].cg = Preserved[job[t].dir]]_vars

(* No process of a listed program stays out of place for ever, when        *)
(* cgroup2 is mounted: it is attached by handle_pid() or by                *)
(* processRunningProgram(), or it ends, or it becomes another program, or  *)
(* its execve is one that neither of them can see.                         *)
EventuallyPlaced ==
  \A p \in Pid : mounted /\ ~WellPlaced(p) ~> WellPlaced(p) \/ p \in missed

(* Each request is answered: attach() looks twice at the cgroup and then   *)
(* gives up, however often the process is moved away, and a reload ends,   *)
(* so handle_msg() returns and the next client is served.                  *)
Answered == pc["socketserver"] # "accept" ~> pc["socketserver"] = "accept"
=============================================================================

----------------------------- MODULE Lifecycle ------------------------------
(***************************************************************************)
(* The life of cgproxyd: how daemons keep each other out, come up, reload, *)
(* stop and are killed.                                                    *)
(*                                                                         *)
(* A daemon opens PID_LOCK_FILE and takes a flock on it; one that is       *)
(* refused exits.  To stop, it cleans up, closes the file and unlinks its  *)
(* name.  system() hands the open file on to the script, which keeps the   *)
(* flock when the daemon is killed.  What a script does to the kernel is   *)
(* the subject of Tproxy; here it is done when the script ends.            *)
(***************************************************************************)
CONSTANTS
  Daemon,         \* processes that run cgproxyd, one after the other
  NoDaemon,
  File,           \* files that PID_LOCK_FILE has named
  NoFile,
  Disturbances    \* what happens beyond starts, reloads, stops and kills

(*   overlap    a daemon opens the lock file while another one stops       *)
(*   interrupt  a signal arrives while applyConfig() runs, applyConfig()   *)
(*              is called while a signal is handled, or a second signal    *)
(*              arrives when the handler of the first has given the lock   *)
(*              back                                                       *)
AllDisturbances == {"overlap", "interrupt"}

ASSUME LifecycleAssumption ==
  /\ NoDaemon \notin Daemon
  /\ NoFile \notin File
  /\ Disturbances \subseteq AllDisturbances

VARIABLES
  path,     \* the file that PID_LOCK_FILE names
  fd,       \* cgproxyd::lock_fd, as the file it refers to
  flock,    \* the file that a daemon, or a script of it, has locked
  pc,       \* where the main thread of a daemon is
  apply,    \* the script that its applyConfig() waits for
  scripts,  \* its scripts that are running
  rules     \* the daemon whose rules are set up

lvars == <<path, fd, flock>>
vars  == <<path, fd, flock, pc, apply, scripts, rules>>

Gone     == {"off", "refused", "killed"}
Stopping == {"stop", "close", "unlink", "exit"}
Label    == Gone \cup Stopping \cup {"flock", "pid", "load", "apply", "up"}

TypeOK ==
  /\ path \in File \cup {NoFile}
  /\ fd \in [Daemon -> File \cup {NoFile}]
  /\ flock \in [Daemon -> File \cup {NoFile}]
  /\ pc \in [Daemon -> Label]
  /\ apply \in [Daemon -> {"idle", "clean", "start"}]
  /\ scripts \in [Daemon -> SUBSET {"clean", "start", "stop"}]
  /\ rules \in Daemon \cup {NoDaemon}

Init ==
  /\ path = NoFile
  /\ fd = [d \in Daemon |-> NoFile]
  /\ flock = [d \in Daemon |-> NoFile]
  /\ pc = [d \in Daemon |-> "off"]
  /\ apply = [d \in Daemon |-> "idle"]
  /\ scripts = [d \in Daemon |-> {}]
  /\ rules = NoDaemon

(* A file that nothing refers to. *)
Fresh(f) == f # path /\ \A d \in Daemon : fd[d] # f /\ flock[d] # f

Goto(d, label) == pc' = [pc EXCEPT ![d] = label]
Begin(d, s) == scripts' = [scripts EXCEPT ![d] = @ \cup {s}]

(* The first open(), or that of ofstream, creates what is not there. *)
Creat == IF path = NoFile THEN \E f \in File : Fresh(f) /\ path' = f
                          ELSE UNCHANGED path

(* system() hands lock_fd on to the script, so the flock outlives the      *)
(* daemon while one runs.  Two mutations: O_CLOEXEC; a lock that stays.    *)
ScriptHoldsNot(running) == FALSE
ScriptHoldsAlways(running) == TRUE
ScriptHolds(running) == running # {}

LetGo(d, running) ==
  flock' = IF ScriptHolds(running) THEN flock ELSE [flock EXCEPT ![d] = NoFile]

-----------------------------------------------------------------------------
(* lock() *)

Open(d) ==
  /\ pc[d] \in Gone /\ scripts[d] = {}
  /\ "overlap" \in Disturbances \/ \A e \in Daemon : pc[e] \notin Stopping
  /\ Creat
  /\ fd' = [fd EXCEPT ![d] = path']
  /\ Goto(d, "flock")
  /\ UNCHANGED <<flock, apply, scripts, rules>>

(* exit() runs no destructor, so a daemon that is refused does no harm. *)
Flock(d) ==
  /\ pc[d] = "flock"
  /\ IF \E e \in Daemon : e # d /\ flock[e] = fd[d]
     THEN /\ Goto(d, "refused")
          /\ fd' = [fd EXCEPT ![d] = NoFile]
          /\ UNCHANGED flock
     ELSE /\ Goto(d, "pid")
          /\ flock' = [flock EXCEPT ![d] = fd[d]]
          /\ UNCHANGED fd
  /\ UNCHANGED <<path, apply, scripts, rules>>

(* The process number is written through the name.  Then the handlers are  *)
(* set; a signal before that is like a kill.                               *)
WritePid(d) ==
  /\ pc[d] = "pid" /\ Goto(d, "load")
  /\ Creat
  /\ UNCHANGED <<fd, flock, apply, scripts, rules>>

-----------------------------------------------------------------------------
(* start(), applyConfig() and stop() *)

CallApply(d) ==
  apply' = [apply EXCEPT ![d] = "clean"] /\ Begin(d, "clean")

(* A mutation: nothing is cleaned up. *)
CallStopOnly(d) == Goto(d, "stop") /\ UNCHANGED scripts

CallStop(d) == Goto(d, "stop") /\ Begin(d, "stop")

LoadConfig(d) ==
  /\ pc[d] = "load" /\ Goto(d, "apply")
  /\ CallApply(d)
  /\ UNCHANGED <<lvars, rules>>

(* start() returns, because the file is no configuration or because both   *)
(* threads have failed, and the destructor calls stop().                   *)
StartReturns(d) ==
  /\ pc[d] = "load" \/ (pc[d] = "up" /\ apply[d] = "idle")
  /\ CallStop(d)
  /\ UNCHANGED <<lvars, apply, rules>>

(* handle_msg(), in the thread socketserver. *)
Reload(d) ==
  /\ pc[d] = "up" \/ (pc[d] \in Stopping /\ "interrupt" \in Disturbances)
  /\ apply[d] = "idle" /\ CallApply(d)
  /\ UNCHANGED <<lvars, pc, rules>>

(* system() returns when the script has ended.  A mutation: at once. *)
AwaitedNot(d, s) == apply[d] = s
Awaited(d, s) == apply[d] = s /\ s \notin scripts[d]

Cleaned(d) ==
  /\ pc[d] \notin Gone /\ Awaited(d, "clean")
  /\ apply' = [apply EXCEPT ![d] = "start"] /\ Begin(d, "start")
  /\ UNCHANGED <<lvars, pc, rules>>

Started(d) ==
  /\ pc[d] \notin Gone /\ Awaited(d, "start")
  /\ apply' = [apply EXCEPT ![d] = "idle"]
  /\ IF pc[d] = "apply" THEN Goto(d, "up") ELSE UNCHANGED pc
  /\ UNCHANGED <<lvars, scripts, rules>>

-----------------------------------------------------------------------------
(* signalHandler() and stop() *)

(* A signal in applyConfig() of the main thread never returns to it.  A    *)
(* second, other signal runs stop() once more.                             *)
Signal(d) ==
  /\ pc[d] \in {"load", "apply", "up"} \cup Stopping
  /\ apply[d] # "idle" \/ fd[d] = NoFile => "interrupt" \in Disturbances
  /\ CallStop(d)
  /\ apply' = IF pc[d] = "apply" THEN [apply EXCEPT ![d] = "idle"] ELSE apply
  /\ UNCHANGED <<lvars, rules>>

StopCleaned(d) ==
  /\ pc[d] = "stop" /\ "stop" \notin scripts[d] /\ Goto(d, "close")
  /\ UNCHANGED <<lvars, apply, scripts, rules>>

Close(d) ==
  /\ pc[d] = "close" /\ Goto(d, "unlink")
  /\ "overlap" \in Disturbances \/ \A e \in Daemon : pc[e] # "flock"
  /\ fd' = [fd EXCEPT ![d] = NoFile]
  /\ LetGo(d, scripts[d])
  /\ UNCHANGED <<path, apply, scripts, rules>>

Unlink(d) ==
  /\ pc[d] = "unlink" /\ Goto(d, "exit")
  /\ path' = NoFile
  /\ UNCHANGED <<fd, flock, apply, scripts, rules>>

Exit(d) ==
  /\ pc[d] = "exit" /\ Goto(d, "off")
  /\ apply' = [apply EXCEPT ![d] = "idle"]
  /\ UNCHANGED <<lvars, scripts, rules>>

-----------------------------------------------------------------------------
(* The kernel and the scripts. *)

(* The daemon alone is killed, or its scripts with it. *)
Kill(d) ==
  /\ pc[d] \notin Gone /\ Goto(d, "killed")
  /\ fd' = [fd EXCEPT ![d] = NoFile]
  /\ apply' = [apply EXCEPT ![d] = "idle"]
  /\ \E rest \in {scripts[d], {}} :
       /\ scripts' = [scripts EXCEPT ![d] = rest]
       /\ LetGo(d, rest)
  /\ UNCHANGED <<path, rules>>

(* The last one that has the file open gives the flock back. *)
ScriptEnds(d, s) ==
  /\ s \in scripts[d]
  /\ scripts' = [scripts EXCEPT ![d] = @ \ {s}]
  /\ rules' = IF s = "start" THEN d ELSE NoDaemon
  /\ IF fd[d] = NoFile THEN LetGo(d, scripts'[d]) ELSE UNCHANGED flock
  /\ UNCHANGED <<path, fd, pc, apply>>

Next ==
  \E d \in Daemon :
    \/ Open(d) \/ Flock(d) \/ WritePid(d)
    \/ LoadConfig(d) \/ StartReturns(d) \/ Reload(d) \/ Cleaned(d) \/ Started(d)
    \/ Signal(d) \/ StopCleaned(d) \/ Close(d) \/ Unlink(d) \/ Exit(d)
    \/ Kill(d)
    \/ \E s \in {"clean", "start", "stop"} : ScriptEnds(d, s)

Spec == Init /\ [][Next]_vars

-----------------------------------------------------------------------------
(* A daemon that has passed lock() and not unlocked, or a script of one. *)
Active(d) ==
  pc[d] \in {"pid", "load", "apply", "up", "stop", "close"} \/ scripts[d] # {}

(* "single process instance": at no time are two daemons, or a daemon and  *)
(* the script that another has left, at work on the kernel's rules.        *)
MutualExclusion == \A d, e \in Daemon : Active(d) /\ Active(e) => d = e

(* While a daemon is up and applies nothing, the rules are those that it   *)
(* set up, whoever was refused, stopped or killed in the meantime.         *)
RulesKept ==
  \A d \in Daemon : pc[d] = "up" /\ apply[d] = "idle" => rules = d

(* "maybe another cgproxyd is running": a daemon is refused only when      *)
(* another one, or its script, is at work; a lock file that a killed       *)
(* daemon has left does not keep others out.                               *)
RefusedRightly ==
  [][\A d \in Daemon : pc[d] = "flock" /\ pc'[d] = "refused" =>
        \E e \in Daemon : e # d /\ Active(e)]_vars

-----------------------------------------------------------------------------
State(d) == IF Active(d) THEN "owner"
            ELSE IF pc[d] = "killed" THEN "killed" ELSE "out"

Promise == INSTANCE SingleInstance
             WITH state <- [d \in Daemon |-> State(d)]

(* The lock file, the order of stop() and what scripts inherit make good   *)
(* the promise of SingleInstance.                                          *)
KeepsPromise == Promise!SSpec
=============================================================================

-------------------------- MODULE LifecycleProofs ---------------------------
(***************************************************************************)
(* The properties of Lifecycle, for any number of daemons and files, when  *)
(* no daemon starts while another one stops and no signal arrives while a  *)
(* configuration is applied (Disturbances = {}).                           *)
(*                                                                         *)
(* The flock alone does not keep two daemons apart, for unlock() gives it  *)
(* back before it removes the name: they are apart because whoever has     *)
(* locked a file has locked the one that PID_LOCK_FILE names, and because  *)
(* everybody else is gone while a daemon is about to unlink it.            *)
(***************************************************************************)
EXTENDS Lifecycle, TLAPS

Scripts == {"clean", "start", "stop"}
Leaving == {"unlink", "exit"}

(* Who is at work, or about to ask for the lock, has the file of the name. *)
Locked ==
  \A d \in Daemon :
    /\ Active(d) <=> flock[d] # NoFile
    /\ flock[d] # NoFile => flock[d] = path
    /\ pc[d] = "flock" => fd[d] = path /\ path # NoFile

(* One file is locked once. *)
Unique == \A d, e \in Daemon : flock[d] # NoFile /\ flock[e] # NoFile => d = e

(* A daemon that is about to unlink the name has nobody beside it. *)
Alone ==
  \A d, e \in Daemon :
    pc[d] \in Leaving /\ e # d => pc[e] \in Gone /\ scripts[e] = {}

(* lock_fd is open from lock() to unlock(). *)
Opened == \A d \in Daemon : fd[d] = NoFile <=> pc[d] \in Gone \cup Leaving

(* The script that each call of system() waits for. *)
Scripted ==
  \A d \in Daemon :
    /\ pc[d] \notin {"apply", "up"} => apply[d] = "idle"
    /\ pc[d] \notin {"apply", "up", "stop", "killed"} => scripts[d] = {}
    /\ pc[d] = "apply" => apply[d] # "idle"
    /\ pc[d] = "stop" => scripts[d] \subseteq {"stop"}
    /\ pc[d] \in {"apply", "up"} => scripts[d] \subseteq {apply[d]} \ {"idle"}

(* What the last script has left behind. *)
Ruled ==
  \A d \in Daemon :
    /\ pc[d] \in {"apply", "up"} /\ scripts[d] = {} /\ apply[d] # "clean" => rules = d
    /\ pc[d] \in {"stop", "close"} /\ scripts[d] = {} => rules = NoDaemon

IInv ==
  TypeOK /\ Locked /\ Unique /\ Alone /\ Opened /\ Scripted /\ Ruled

-----------------------------------------------------------------------------
(* What lock() does: the file stays, and flock() refuses the second. *)
LEMMA Locking ==
  ASSUME Disturbances = {}, IInv, NEW d \in Daemon,
         Open(d) \/ Flock(d) \/ WritePid(d)
  PROVE  IInv'
<1> USE LifecycleAssumption DEF IInv, TypeOK, Gone, Stopping, Label, Leaving,
                                Active, Scripts, lvars
<1>1. CASE Open(d)
  <2> USE <1>1 DEF Open, Goto, Creat
  <2>1. TypeOK' /\ Opened' /\ Scripted'
    BY DEF Opened, Scripted
  <2>2. Locked' /\ Unique' /\ Alone' /\ Ruled'
    BY DEF Locked, Unique, Alone, Ruled
  <2>3. QED
    BY <2>1, <2>2
<1>2. CASE Flock(d)
  <2> USE <1>2 DEF Flock, Goto
  <2>1. TypeOK' /\ Opened' /\ Scripted'
    BY DEF Opened, Scripted
  <2>2. Locked' /\ Alone' /\ Ruled'
    BY DEF Locked, Alone, Ruled
  <2>3. Unique'
    BY DEF Locked, Unique
  <2>4. QED
    BY <2>1, <2>2, <2>3
<1>3. CASE WritePid(d)
  <2> USE <1>3 DEF WritePid, Goto, Creat
  <2>1. TypeOK' /\ Opened' /\ Scripted'
    BY DEF Opened, Scripted
  <2>2. Locked' /\ Unique' /\ Alone' /\ Ruled'
    BY DEF Locked, Unique, Alone, Ruled
  <2>3. QED
    BY <2>1, <2>2
<1>4. QED
  BY <1>1, <1>2, <1>3

(* What applyConfig() does: one script after the other, under the lock. *)
LEMMA Applying ==
  ASSUME Disturbances = {}, IInv, NEW d \in Daemon,
         LoadConfig(d) \/ StartReturns(d) \/ Reload(d) \/ Cleaned(d) \/ Started(d)
  PROVE  IInv'
<1> USE LifecycleAssumption DEF IInv, TypeOK, Gone, Stopping, Label, Leaving,
                                Active, Scripts, lvars
<1>1. CASE LoadConfig(d)
  <2> USE <1>1 DEF LoadConfig, Goto, CallApply, Begin
  <2>1. TypeOK' /\ Opened' /\ Scripted'
    BY DEF Opened, Scripted
  <2>2. Locked' /\ Unique' /\ Alone' /\ Ruled'
    BY DEF Locked, Unique, Alone, Ruled
  <2>3. QED
    BY <2>1, <2>2
<1>2. CASE StartReturns(d)
  <2> USE <1>2 DEF StartReturns, Goto, CallStop, Begin
  <2>1. TypeOK' /\ Opened' /\ Scripted'
    BY DEF Opened, Scripted
  <2>2. Locked' /\ Unique' /\ Alone' /\ Ruled'
    BY DEF Locked, Unique, Alone, Ruled
  <2>3. QED
    BY <2>1, <2>2
<1>3. CASE Reload(d)
  <2> USE <1>3 DEF Reload, Goto, CallApply, Begin
  <2>1. TypeOK' /\ Opened' /\ Scripted'
    BY DEF Opened, Scripted
  <2>2. Locked' /\ Unique' /\ Alone' /\ Ruled'
    BY DEF Locked, Unique, Alone, Ruled
  <2>3. QED
    BY <2>1, <2>2
<1>4. CASE Cleaned(d)
  <2> USE <1>4 DEF Cleaned, Goto, Awaited, Begin
  <2>1. TypeOK' /\ Opened' /\ Scripted'
    BY DEF Opened, Scripted
  <2>2. Unique' /\ Alone' /\ Ruled'
    BY DEF Unique, Alone, Ruled
  <2>3. Locked'
    BY DEF Locked, Scripted
  <2>4. QED
    BY <2>1, <2>2, <2>3
<1>5. CASE Started(d)
  <2> USE <1>5 DEF Started, Goto, Awaited
  <2>1. TypeOK' /\ Opened' /\ Scripted'
    BY DEF Opened, Scripted
  <2>2. Locked' /\ Unique' /\ Alone' /\ Ruled'
    BY DEF Locked, Unique, Alone, Ruled
  <2>3. QED
    BY <2>1, <2>2
<1>6. QED
  BY <1>1, <1>2, <1>3, <1>4, <1>5

(* What stop() does: the rules go first, then the lock, then the name. *)
LEMMA Leavings ==
  ASSUME Disturbances = {}, IInv, NEW d \in Daemon,
         Signal(d) \/ StopCleaned(d) \/ Close(d) \/ Unlink(d) \/ Exit(d)
  PROVE  IInv'
<1> USE LifecycleAssumption DEF IInv, TypeOK, Gone, Stopping, Label, Leaving,
                                Active, Scripts, lvars
<1>1. CASE Signal(d)
  <2> USE <1>1 DEF Signal, Goto, CallStop, Begin
  <2>1. TypeOK' /\ Opened' /\ Scripted'
    BY DEF Opened, Scripted
  <2>2. Unique' /\ Alone' /\ Ruled'
    BY DEF Unique, Alone, Ruled
  <2>3. Locked'
    BY DEF Locked, Opened
  <2>4. QED
    BY <2>1, <2>2, <2>3
<1>2. CASE StopCleaned(d)
  <2> USE <1>2 DEF StopCleaned, Goto
  <2>1. TypeOK' /\ Opened' /\ Scripted'
    BY DEF Opened, Scripted
  <2>2. Locked' /\ Unique' /\ Alone' /\ Ruled'
    BY DEF Locked, Unique, Alone, Ruled
  <2>3. QED
    BY <2>1, <2>2
<1>3. CASE Close(d)
  <2> USE <1>3 DEF Close, Goto, LetGo, ScriptHolds
  <2>1. TypeOK' /\ Opened' /\ Scripted'
    BY DEF Opened, Scripted
  <2>2. Locked' /\ Unique' /\ Ruled'
    BY DEF Locked, Unique, Ruled
  <2>3. Alone'
    BY DEF Locked, Unique, Alone, Opened, Scripted, Ruled
  <2>4. QED
    BY <2>1, <2>2, <2>3
<1>4. CASE Unlink(d)
  <2> USE <1>4 DEF Unlink, Goto
  <2>1. TypeOK' /\ Opened' /\ Scripted'
    BY DEF Opened, Scripted
  <2>2. Unique' /\ Alone' /\ Ruled'
    BY DEF Unique, Alone, Ruled
  <2>3. Locked'
    BY DEF Locked, Unique, Alone, Opened, Scripted, Ruled
  <2>4. QED
    BY <2>1, <2>2, <2>3
<1>5. CASE Exit(d)
  <2> USE <1>5 DEF Exit, Goto
  <2>1. TypeOK' /\ Opened' /\ Scripted'
    BY DEF Opened, Scripted
  <2>2. Locked' /\ Unique' /\ Alone' /\ Ruled'
    BY DEF Locked, Unique, Alone, Ruled
  <2>3. QED
    BY <2>1, <2>2
<1>6. QED
  BY <1>1, <1>2, <1>3, <1>4, <1>5

(* A kill leaves the lock to the script, and its end gives it back.        *)
LEMMA Outside ==
  ASSUME Disturbances = {}, IInv, NEW d \in Daemon,
         Kill(d) \/ \E s \in Scripts : ScriptEnds(d, s)
  PROVE  IInv'
<1> USE LifecycleAssumption DEF IInv, TypeOK, Gone, Stopping, Label, Leaving,
                                Active, Scripts, lvars
<1>1. CASE Kill(d)
  <2> USE <1>1 DEF Kill, Goto, LetGo, ScriptHolds
  <2>1. TypeOK' /\ Opened' /\ Scripted'
    BY DEF Opened, Scripted
  <2>2. Unique' /\ Alone' /\ Ruled'
    BY DEF Unique, Alone, Ruled
  <2>3. Locked'
    BY DEF Locked
  <2>4. QED
    BY <2>1, <2>2, <2>3
<1>2. ASSUME NEW s \in Scripts, ScriptEnds(d, s) PROVE IInv'
  <2> USE <1>2 DEF ScriptEnds, Goto, LetGo, ScriptHolds
  <2>1. TypeOK' /\ Opened' /\ Scripted'
    BY DEF Opened, Scripted
  <2>2. Unique' /\ Alone'
    BY DEF Unique, Alone
  <2>3. Locked'
    BY DEF Locked, Opened, Scripted
  <2>4. Ruled'
    BY DEF Locked, Unique, Alone, Opened, Scripted, Ruled
  <2>5. QED
    BY <2>1, <2>2, <2>3, <2>4
<1>3. QED
  BY <1>1, <1>2

(* The parts of the invariant hold in every state of Spec. *)
LEMMA Inductive == ASSUME Disturbances = {} PROVE Spec => []IInv
<1>1. Init => IInv
  BY LifecycleAssumption DEF Init, IInv, TypeOK, Gone, Label, Leaving, Active, Locked,
                             Unique, Alone, Opened, Scripted, Ruled
<1>2. IInv /\ UNCHANGED vars => IInv'
  BY DEF vars, IInv, TypeOK, Active, Locked, Unique, Alone, Opened, Scripted, Ruled
<1>3. IInv /\ [Next]_vars => IInv'
  BY <1>2, Locking, Applying, Leavings, Outside DEF Next, Scripts
<1>4. QED
  BY <1>1, <1>3, PTL DEF Spec

-----------------------------------------------------------------------------
(* Two daemons, or a daemon and the script of another, are never at work   *)
(* on the rules together: lock() and unlock() exclude them.                *)
THEOREM OneAtATime == ASSUME Disturbances = {} PROVE Spec => []MutualExclusion
<1>1. IInv => MutualExclusion
  BY DEF IInv, Locked, Unique, MutualExclusion
<1>2. QED
  BY <1>1, Inductive, PTL

(* The rules of a daemon that is up are the ones its last applyConfig()    *)
(* has set.                                                                *)
THEOREM RulesStay == ASSUME Disturbances = {} PROVE Spec => []RulesKept
<1>1. IInv => RulesKept
  BY DEF IInv, Scripted, Ruled, RulesKept
<1>2. QED
  BY <1>1, Inductive, PTL

(* lock() gives up only on account of a daemon or a script that is there. *)
THEOREM NoWrongRefusal == ASSUME Disturbances = {} PROVE Spec => RefusedRightly
<1> DEFINE Right == \A d \in Daemon : pc[d] = "flock" /\ pc'[d] = "refused" =>
                      \E e \in Daemon : e # d /\ Active(e)
<1>1. IInv /\ [Next]_vars => [Right]_vars
  <2> SUFFICES ASSUME IInv, Next, NEW d \in Daemon, pc[d] = "flock", pc'[d] = "refused"
               PROVE  \E e \in Daemon : e # d /\ Active(e)
    OBVIOUS
  <2>1. Flock(d)
    BY DEF Next, IInv, TypeOK, Open, Flock, WritePid, LoadConfig, StartReturns, Reload,
           Cleaned, Started, Signal, StopCleaned, Close, Unlink, Exit, Kill, ScriptEnds,
           Goto, CallStop, Gone, Stopping
  <2>2. PICK e \in Daemon : e # d /\ flock[e] = fd[d]
    BY <2>1 DEF Flock, Goto, IInv, TypeOK
  <2>3. QED
    BY <2>2 DEF IInv, Locked
<1>2. QED
  BY <1>1, Inductive, PTL DEF Spec, RefusedRightly

-----------------------------------------------------------------------------
St == [d \in Daemon |-> State(d)]

(* What a step does to one daemon, it does to the promised state. *)
LEMMA Becomes ==
  ASSUME NEW d \in Daemon, NEW x, State(d)' = x,
         \A e \in Daemon : e # d => State(e)' = State(e)
  PROVE  St' = [St EXCEPT ![d] = x]
BY DEF St

(* A step that changes neither what a daemon is nor the rules is none of   *)
(* the promise.                                                            *)
LEMMA Stutters ==
  ASSUME \A e \in Daemon : State(e)' = State(e), UNCHANGED rules
  PROVE  UNCHANGED Promise!svars
BY DEF St, Promise!svars

(* Every step of a daemon, of the kernel or of a script is a step that     *)
(* SingleInstance allows.                                                  *)
LEMMA PromisedStep ==
  ASSUME Disturbances = {}, IInv, IInv', Next
  PROVE  [Promise!SNext]_(Promise!svars)
<1> PICK d \in Daemon :
      \/ Open(d) \/ Flock(d) \/ WritePid(d)
      \/ LoadConfig(d) \/ StartReturns(d) \/ Reload(d) \/ Cleaned(d) \/ Started(d)
      \/ Signal(d) \/ StopCleaned(d) \/ Close(d) \/ Unlink(d) \/ Exit(d)
      \/ Kill(d)
      \/ \E s \in {"clean", "start", "stop"} : ScriptEnds(d, s)
  BY DEF Next
<1> USE DEF IInv, TypeOK, State, Active, Gone, Stopping, Label, Leaving, Goto, lvars
<1>1. CASE Open(d)
  <2>1. State(d) # "owner" /\ State(d)' = "out"
    BY <1>1 DEF Open
  <2>2. \A e \in Daemon : e # d => State(e)' = State(e)
    BY <1>1 DEF Open
  <2>3. Promise!Forget(d)
    BY <1>1, <2>1, <2>2, Becomes DEF Promise!Forget, Promise!Become, St, Open
  <2>4. QED
    BY <2>3 DEF Promise!SNext
<1>2. CASE Flock(d) /\ pc'[d] = "refused"
  BY <1>2, Stutters DEF Flock, Scripted
<1>3. CASE Flock(d) /\ pc'[d] = "pid"
  <2>1. \A e \in Daemon : State(e) # "owner"
    BY <1>3 DEF Flock, Locked, Unique, Scripted
  <2>2. State(d)' = "owner" /\ \A e \in Daemon : e # d => State(e)' = State(e)
    BY <1>3 DEF Flock
  <2>3. Promise!Acquire(d)
    BY <1>3, <2>1, <2>2, Becomes DEF Promise!Acquire, Promise!Become, St, Flock
  <2>4. QED
    BY <2>3 DEF Promise!SNext
<1>4. CASE WritePid(d) \/ LoadConfig(d) \/ StartReturns(d) \/ StopCleaned(d)
  BY <1>4, Stutters DEF WritePid, LoadConfig, StartReturns, StopCleaned, CallApply, CallStop, Begin
<1>5. CASE Reload(d) \/ Cleaned(d) \/ Started(d) \/ Signal(d)
  BY <1>5, Stutters DEF Reload, Cleaned, Started, Signal, CallApply, CallStop, Begin, Awaited,
                        Scripted, Opened
<1>6. CASE Close(d)
  <2>1. State(d) = "owner" /\ State(d)' = "out" /\ rules = NoDaemon
    BY <1>6 DEF Close, Scripted, Ruled
  <2>2. \A e \in Daemon : e # d => State(e)' = State(e)
    BY <1>6 DEF Close
  <2>3. Promise!Release(d)
    BY <1>6, <2>1, <2>2, Becomes DEF Promise!Release, Promise!Become, St, Close
  <2>4. QED
    BY <2>3 DEF Promise!SNext
<1>7. CASE Unlink(d) \/ Exit(d)
  BY <1>7, Stutters DEF Unlink, Exit, Scripted
<1>8. CASE Kill(d)
  <2>1. \A e \in Daemon : e # d => State(e)' = State(e)
    BY <1>8 DEF Kill
  <2>2. CASE scripts'[d] # {}
    <3> PICK rest \in {scripts[d], {}} : scripts' = [scripts EXCEPT ![d] = rest]
      BY <1>8 DEF Kill
    <3>1. scripts[d] # {} /\ UNCHANGED rules
      BY <1>8, <2>2 DEF Kill
    <3>2. State(d)' = State(d)
      BY <2>2, <3>1
    <3>3. QED
      BY <2>1, <3>1, <3>2, Stutters
  <2>3. CASE scripts'[d] = {}
    <3>1. State(d)' = "killed"
      BY <1>8, <2>3 DEF Kill
    <3>2. State(d) = "owner" => Promise!Lose(d)
      BY <1>8, <2>1, <3>1, Becomes DEF Promise!Lose, Promise!Become, St, Kill
    <3>3. State(d) # "owner" => Promise!Forget(d)
      BY <1>8, <2>1, <3>1, Becomes DEF Promise!Forget, Promise!Become, St, Kill
    <3>4. QED
      BY <3>2, <3>3 DEF Promise!SNext
  <2>4. QED
    BY <2>2, <2>3
<1>9. ASSUME NEW s \in {"clean", "start", "stop"}, ScriptEnds(d, s)
      PROVE  [Promise!SNext]_(Promise!svars)
  <2>1. /\ State(d) = "owner" /\ rules' \in {d, NoDaemon}
        /\ \A e \in Daemon : e # d => State(e)' = State(e)
    BY <1>9 DEF ScriptEnds
  <2>2. State(d)' = "owner" \/ State(d)' = "killed"
    BY <1>9 DEF ScriptEnds, Scripted
  <2>3. CASE State(d)' = "owner"
    <3>1. St' = St
      BY <2>1, <2>3 DEF St
    <3>2. Promise!SetRules(d)
      BY <2>1, <3>1 DEF Promise!SetRules, St
    <3>3. QED
      BY <3>2 DEF Promise!SNext
  <2>4. CASE State(d)' = "killed"
    <3>1. Promise!Lose(d)
      BY <2>1, <2>4, Becomes DEF Promise!Lose, Promise!Become, St
    <3>2. QED
      BY <3>1 DEF Promise!SNext
  <2>5. QED
    BY <2>2, <2>3, <2>4
<1>10. Flock(d) => pc'[d] \in {"refused", "pid"}
  BY DEF Flock
<1>11. QED
  BY <1>1, <1>2, <1>3, <1>4, <1>5, <1>6, <1>7, <1>8, <1>9, <1>10

(* cgproxyd keeps what SingleInstance promises of it. *)
THEOREM Refinement == ASSUME Disturbances = {} PROVE Spec => KeepsPromise
<1>1. Init => Promise!SInit
  BY DEF Init, Promise!SInit, State, Active, Gone
<1>2. UNCHANGED vars => UNCHANGED Promise!svars
  BY Stutters DEF vars, State, Active
<1>3. IInv /\ IInv' /\ [Next]_vars => [Promise!SNext]_(Promise!svars)
  BY <1>2, PromisedStep
<1>4. QED
  BY <1>1, <1>3, Inductive, PTL DEF Spec, KeepsPromise, Promise!SSpec
=============================================================================

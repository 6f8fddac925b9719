---------------------------- MODULE SnoopProofs -----------------------------
(***************************************************************************)
(* Reported and LeaksOnlyThreads, for any number of threads and any size   *)
(* of the map.                                                             *)
(*                                                                         *)
(* Both rest on who may take a record away: the exit program runs under    *)
(* the number of a thread that is in execve, or under that of a process    *)
(* whose first thread is a zombie and so is not in execve itself.          *)
(***************************************************************************)
EXTENDS Snoop, TLAPS

(* A thread in execve is recorded, unless it entered too early or found    *)
(* the map full; bcc has no records.  Nothing is missed before the         *)
(* programs are attached.                                                  *)
Recorded ==
  /\ variant = "libbpf" => \A t \in Task : InExecve(t) => t \in records \cup unseen
  /\ variant = "bcc" => records = {}
  /\ attached # "both" => missed = {}

(* A thread that is there belongs to a process, whose number is kept by    *)
(* its first thread.                                                       *)
Belongs ==
  \A t \in Task :
    /\ pc[t] # "none" => process[t] \in Task
    /\ process[t] \in Task => process[process[t]] = process[t]

IInv == TypeOK /\ Belongs /\ Recorded /\ Reported /\ LeaksOnlyThreads

-----------------------------------------------------------------------------
(* No step of a thread breaks a part of the invariant: what becomes of the *)
(* records and of the reports.                                             *)
LEMMA Step == IInv /\ [Next]_vars => IInv'
<1> SUFFICES ASSUME IInv, [Next]_vars PROVE IInv'
  OBVIOUS
<1> USE DEF IInv, TypeOK, Label
<1>1. ASSUME NEW t \in Task, Fork(t) PROVE IInv'
  BY <1>1, SnoopAssumption DEF Fork, history, Belongs, Recorded, Reported, LeaksOnlyThreads, InExecve
<1>2. ASSUME NEW t \in Task, NEW u \in Task, Clone(t, u) PROVE IInv'
  BY <1>2, SnoopAssumption DEF Clone, history, Belongs, Recorded, Reported, LeaksOnlyThreads, InExecve
<1>3. ASSUME NEW t \in Task, EnterExecve(t) PROVE IInv'
  <2> USE <1>3 DEF EnterExecve, SyscallEnterExecve, Seen
  <2>1. TypeOK' /\ Belongs'
    BY DEF Belongs
  <2>2. Recorded'
    BY DEF Recorded, InExecve
  <2>3. Reported'
    BY DEF Reported
  <2>4. LeaksOnlyThreads'
    BY DEF LeaksOnlyThreads, InExecve
  <2>5. QED
    BY <2>1, <2>2, <2>3, <2>4
<1>4. ASSUME NEW t \in Task, ExecveFails(t) PROVE IInv'
  BY <1>4 DEF ExecveFails, Cleanup, history, Belongs, Recorded, Reported,
              LeaksOnlyThreads, InExecve
<1>5. ASSUME NEW t \in Task, KillOthers(t) PROVE IInv'
  BY <1>5 DEF KillOthers, history, Belongs, Recorded, Reported,
              LeaksOnlyThreads, InExecve
<1>6. ASSUME NEW t \in Task, ExecveReturns(t) PROVE IInv'
  <2> DEFINE p == process[t]
  <2> USE <1>6 DEF ExecveReturns, SyscallExitExecve, RetSyscallExecve, Cleanup, Sends
  <2>1. p \in Task
    BY DEF Belongs
  <2>2. p = t \/ ~InExecve(p)
    BY <2>1 DEF Others, InExecve, Belongs
  <2>3. pc' = [u \in Task |-> IF u = p THEN "user"
                              ELSE IF u = t THEN "none" ELSE pc[u]]
    BY <2>1
  <2>4. process' = [u \in Task |-> IF u = p THEN p
                              ELSE IF u = t THEN NoTask ELSE process[u]]
    BY <2>1
  <2>5. TypeOK'
    BY <2>1, <2>3, <2>4
  <2>6. Belongs'
    <3> SUFFICES ASSUME NEW u \in Task
                 PROVE  /\ pc'[u] # "none" => process'[u] \in Task
                        /\ process'[u] \in Task => process'[process'[u]] = process'[u]
      BY DEF Belongs
    <3>1. CASE u = p \/ u = t
      BY <3>1, <2>1, <2>3, <2>4, SnoopAssumption
    <3>2. CASE u # p /\ u # t
      <4>1. process[u] = t => t = p
        BY DEF Belongs
      <4>2. QED
        BY <3>2, <4>1, <2>1, <2>3, <2>4 DEF Belongs
    <3>3. QED
      BY <3>1, <3>2
  <2>7. Recorded'
    BY <2>1, <2>2, <2>3 DEF Recorded, InExecve
  <2>8. Reported'
    <3>1. CASE attached # "both"
      BY <3>1 DEF Recorded, Reported
    <3>2. CASE attached = "both" /\ variant = "bcc"
      BY <3>2, <2>1 DEF Reported
    <3>3. CASE attached = "both" /\ variant = "libbpf" /\ p \in records
      BY <3>3, <2>1 DEF Reported
    <3>4. CASE attached = "both" /\ variant = "libbpf" /\ p \notin records
      <4>1. t # p \/ t \in unseen
        BY <3>4 DEF Recorded, InExecve
      <4>2. QED
        BY <3>4, <4>1, <2>1 DEF Reported
    <3>5. QED
      BY <3>1, <3>2, <3>3, <3>4
  <2>9. LeaksOnlyThreads'
    <3>1. CASE attached = "both"
      <4>1. records' \subseteq records \ {p}
        BY <3>1 DEF Recorded
      <4>2. QED
        BY <2>1, <2>3, <4>1 DEF LeaksOnlyThreads, InExecve
    <3>2. CASE attached # "both"
      <4>1. records' = records /\ stale' = stale \cup {t}
        BY <3>2
      <4>2. p \in records => p \in stale \cup {t}
        BY <2>2 DEF LeaksOnlyThreads
      <4>3. QED
        BY <2>1, <2>3, <4>1, <4>2 DEF LeaksOnlyThreads, InExecve
    <3>3. QED
      BY <3>1, <3>2
  <2>10. QED
    BY <2>5, <2>6, <2>7, <2>8, <2>9
<1>7. ASSUME NEW t \in Task, ThreadExits(t) PROVE IInv'
  <2>1. \A u \in Ending(t) : u \in Task /\ ~InExecve(u)
    BY <1>7 DEF ThreadExits, Ending, Others, InExecve
  <2>2. TypeOK'
    BY <1>7 DEF ThreadExits
  <2>3. Belongs'
    <3>1. CASE UNCHANGED process /\ pc' = [pc EXCEPT ![t] = "zombie"]
      BY <1>7, <3>1 DEF ThreadExits, Belongs
    <3>2. CASE /\ t # process[t] \/ Others(t) = {}
               /\ process' = [u \in Task |-> IF u \in Ending(t) THEN NoTask
                                                              ELSE process[u]]
               /\ pc' = [u \in Task |-> IF u \in Ending(t) THEN "none" ELSE pc[u]]
      <4> SUFFICES ASSUME NEW u \in Task
                   PROVE  /\ pc'[u] # "none" => process'[u] \in Task
                          /\ process'[u] \in Task => process'[process'[u]] = process'[u]
        BY DEF Belongs
      <4>1. CASE u \in Ending(t)
        BY <3>2, <4>1, SnoopAssumption
      <4>2. CASE u \notin Ending(t) /\ process[u] \in Task
        <5>1. process[u] \notin Ending(t)
          BY <3>2, <4>2 DEF Belongs, Ending, Others
        <5>2. QED
          BY <3>2, <4>2, <5>1 DEF Belongs
      <4>3. CASE u \notin Ending(t) /\ process[u] \notin Task
        BY <3>2, <4>3 DEF Belongs
      <4>4. QED
        BY <4>1, <4>2, <4>3
    <3>3. QED
      BY <1>7, <3>1, <3>2 DEF ThreadExits
  <2>4. \A u \in Task : InExecve(u)' <=> InExecve(u)
    BY <1>7, <2>1 DEF ThreadExits, InExecve
  <2>5. Recorded'
    BY <1>7, <2>4 DEF ThreadExits, Recorded
  <2>6. Reported'
    BY <1>7 DEF ThreadExits, Reported
  <2>7. LeaksOnlyThreads'
    BY <1>7, <2>4 DEF ThreadExits, LeaksOnlyThreads
  <2>8. QED
    BY <2>2, <2>3, <2>5, <2>6, <2>7
<1>8. CASE Attach
  BY <1>8 DEF Attach, history, Belongs, Recorded, Reported, LeaksOnlyThreads, InExecve
<1>9. CASE UNCHANGED vars
  BY <1>9 DEF vars, Belongs, Recorded, Reported, LeaksOnlyThreads, InExecve
<1>10. QED
  BY <1>1, <1>2, <1>3, <1>4, <1>5, <1>6, <1>7, <1>8, <1>9 DEF Next

-----------------------------------------------------------------------------
(* The parts of the invariant hold in every state of Spec. *)
LEMMA Inductive == Spec => []IInv
<1>1. Init => IInv
  BY DEF Init, IInv, TypeOK, Label, Belongs, Recorded, Reported,
         LeaksOnlyThreads, InExecve
<1>2. QED
  BY <1>1, Step, PTL DEF Spec

(* Every execve that succeeds makes an event of execsnoop, but for those   *)
(* of other threads than the first, those that found the map full and      *)
(* those that were entered before the programs were attached.              *)
THEOREM AllReported == Spec => []Reported
<1>1. IInv => Reported
  BY DEF IInv
<1>2. QED
  BY <1>1, Inductive, PTL

(* syscall_exit_execve deletes what syscall_enter_execve records, but for  *)
(* the execve of another thread than the first, and those that ended       *)
(* before it was attached.                                                 *)
THEOREM NoOtherLeaks == Spec => []LeaksOnlyThreads
<1>1. IInv => LeaksOnlyThreads
  BY DEF IInv
<1>2. QED
  BY <1>1, Inductive, PTL
=============================================================================

------------------------------- MODULE Snoop --------------------------------
(***************************************************************************)
(* How the kernel part of execsnoop makes exec events.                     *)
(*                                                                         *)
(* With libbpf, a program at the entry of execve records the thread by its *)
(* number, and one at the exit looks for a record of the number that it    *)
(* runs under: on success it sends an event, and the record is deleted.    *)
(* With bcc there is only a probe at the return.  The hard part is the     *)
(* kernel's: an execve that succeeds ends the other threads of its         *)
(* process, and returns under the number of the process, whichever thread  *)
(* called it.  The programs are attached while processes run, one after    *)
(* the other, and what is in execve then has no record.                    *)
(***************************************************************************)
EXTENDS Naturals, FiniteSets

CONSTANTS
  Task,         \* numbers of threads; a process has that of its first one
  NoTask,
  MaxRecords    \* max_entries of the map records

ASSUME SnoopAssumption ==
  /\ IsFiniteSet(Task) /\ NoTask \notin Task
  /\ MaxRecords \in Nat

VARIABLES
  variant,   \* the execsnoop that was built
  attached,  \* the programs that are attached
  process,   \* the process that each thread belongs to
  pc,        \* what each thread is doing
  records,   \* the keys of the map records
  missed,    \* processes whose last execve, of those that ended with the
             \* programs attached, made no event
  unseen,    \* threads that entered execve before the programs were attached,
             \* or that found the map full
  excused,   \* processes whose last execve was called by such a thread, or
             \* by another thread than the first
  stale      \* numbers of which an execve may have left the record

history == <<missed, unseen, excused, stale>>
vars    == <<variant, attached, process, pc, records,
             missed, unseen, excused, stale>>

(*   user     runs its program                                             *)
(*   execve   is in execve, which may still fail                           *)
(*   alone    is in execve, and waits for the other threads to end         *)
(*   zombie   was the first thread, and has ended before the others        *)
Label == {"none", "user", "execve", "alone", "zombie"}

TypeOK ==
  /\ variant \in {"libbpf", "bcc"}
  /\ attached \in {"none", "enter", "both"}
  /\ process \in [Task -> Task \cup {NoTask}]
  /\ pc \in [Task -> Label]
  /\ records \subseteq Task
  /\ missed \subseteq Task /\ unseen \subseteq Task
  /\ excused \subseteq Task /\ stale \subseteq Task

Init ==
  /\ variant \in {"libbpf", "bcc"}
  /\ attached = "none"
  /\ process = [t \in Task |-> NoTask]
  /\ pc = [t \in Task |-> "none"]
  /\ records = {} /\ missed = {} /\ unseen = {} /\ excused = {} /\ stale = {}

InExecve(t) == pc[t] \in {"execve", "alone"}
Others(t) == {u \in Task \ {t} : process[u] = process[t]}

(* An execve of another thread is ending this one. *)
Doomed(t) == \E u \in Others(t) : pc[u] = "alone"

-----------------------------------------------------------------------------
(* The programs. *)

(* execsnoop_bpf__attach() attaches the program at the entry first; the    *)
(* one probe of bcc sees what enters execve from then on.                  *)
Attach ==
  /\ \/ attached = "none" /\ variant = "libbpf" /\ attached' = "enter"
     \/ attached = "enter" /\ attached' = "both"
     \/ attached = "none" /\ variant = "bcc" /\ attached' = "both"
  /\ UNCHANGED <<variant, process, pc, records, history>>

(* syscall_enter_execve: no record is made over another one, which serves  *)
(* as well, nor in a map that is full.                                     *)
Room(t) == t \in records \/ Cardinality(records) < MaxRecords

Seen(t) == attached # "none" /\ (variant = "bcc" \/ Room(t))

SyscallEnterExecve(t) ==
  records' = IF variant = "libbpf" /\ Seen(t) THEN records \cup {t} ELSE records

(* syscall_exit_execve with an error.  A mutation: the record stays. *)
CleanupNot(t) == UNCHANGED records
Cleanup(t) == records' = IF attached = "both" THEN records \ {t} ELSE records

(* syscall_exit_execve with success, under number t.  A mutation: 0 is     *)
(* taken for an error.                                                     *)
SendsNot(t) == FALSE
Sends(t) == t \in records

SyscallExitExecve(t) ==
  /\ Cleanup(t)
  /\ missed' = IF attached # "both" THEN missed
               ELSE IF Sends(t) THEN missed \ {t} ELSE missed \cup {t}

(* The probe of bcc, with success: it has no records to look at, but sees  *)
(* only the return of what it saw enter.                                   *)
RetSyscallExecve(t, seen) ==
  /\ missed' = IF attached # "both" THEN missed
               ELSE IF seen THEN missed \ {t} ELSE missed \cup {t}
  /\ UNCHANGED records

-----------------------------------------------------------------------------
(* The kernel's threads. *)

Fork(t) ==
  /\ process[t] = NoTask
  /\ process' = [process EXCEPT ![t] = t]
  /\ pc' = [pc EXCEPT ![t] = "user"]
  /\ UNCHANGED <<variant, attached, records, history>>

Clone(t, u) ==
  /\ pc[t] = "user" /\ ~Doomed(t) /\ process[u] = NoTask
  /\ process' = [process EXCEPT ![u] = process[t]]
  /\ pc' = [pc EXCEPT ![u] = "user"]
  /\ UNCHANGED <<variant, attached, records, history>>

EnterExecve(t) ==
  /\ pc[t] = "user" /\ ~Doomed(t)
  /\ pc' = [pc EXCEPT ![t] = "execve"]
  /\ SyscallEnterExecve(t)
  /\ unseen' = IF Seen(t) THEN unseen \ {t} ELSE unseen \cup {t}
  /\ stale' = stale \ {t}
  /\ UNCHANGED <<variant, attached, process, missed, excused>>

ExecveFails(t) ==
  /\ pc[t] = "execve"
  /\ pc' = [pc EXCEPT ![t] = "user"]
  /\ Cleanup(t)
  /\ stale' = IF attached = "both" THEN stale ELSE stale \cup {t}
  /\ UNCHANGED <<variant, attached, process, missed, unseen, excused>>

(* One thread of a process at most gets this far. *)
KillOthers(t) ==
  /\ pc[t] = "execve" /\ ~Doomed(t)
  /\ pc' = [pc EXCEPT ![t] = "alone"]
  /\ UNCHANGED <<variant, attached, process, records, history>>

(* The thread takes the number of the process; its own is free again. *)
ExecveReturns(t) ==
  LET p == process[t] IN
  /\ pc[t] = "alone" /\ \A u \in Others(t) : u = p /\ pc[u] = "zombie"
  /\ process' = [[process EXCEPT ![t] = NoTask] EXCEPT ![p] = p]
  /\ pc' = [[pc EXCEPT ![t] = "none"] EXCEPT ![p] = "user"]
  /\ IF variant = "bcc" THEN RetSyscallExecve(p, t \notin unseen)
                        ELSE SyscallExitExecve(p)
  /\ excused' = IF t \notin unseen /\ (variant = "bcc" \/ t = p)
                THEN excused \ {p} ELSE excused \cup {p}
  /\ stale' = IF t = p /\ attached = "both" THEN stale ELSE stale \cup {t}
  /\ UNCHANGED <<variant, attached, unseen>>

(* The number of a process is kept until its last thread has ended. *)
Ending(t) ==
  IF t = process[t] THEN {t}
  ELSE {t} \cup {u \in Others(t) : pc[u] = "zombie" /\ Others(t) = {u}}

ThreadExits(t) ==
  /\ pc[t] = "user"
  /\ \/ /\ t = process[t] /\ Others(t) # {}
        /\ pc' = [pc EXCEPT ![t] = "zombie"]
        /\ UNCHANGED <<process, missed>>
     \/ /\ t # process[t] \/ Others(t) = {}
        /\ process' = [u \in Task |-> IF u \in Ending(t) THEN NoTask
                                                       ELSE process[u]]
        /\ pc' = [u \in Task |-> IF u \in Ending(t) THEN "none" ELSE pc[u]]
        /\ missed' = missed \ Ending(t)
  /\ UNCHANGED <<variant, attached, records, unseen, excused, stale>>

Next ==
  \/ Attach
  \/ \E t \in Task :
       \/ Fork(t) \/ EnterExecve(t) \/ ExecveFails(t) \/ KillOthers(t)
       \/ ExecveReturns(t) \/ ThreadExits(t)
       \/ \E u \in Task : Clone(t, u)

Spec == Init /\ [][Next]_vars

-----------------------------------------------------------------------------
(* From when the programs are attached, handle_pid() is told of every      *)
(* execve that succeeds, if it is entered then, by the first thread of the *)
(* process, and the map has room: no other thread, and no other process,   *)
(* takes its record away.  With bcc, of all that are entered then.         *)
Reported == missed \subseteq excused

(* A record outlives its execve only if another thread than the first had  *)
(* called it, which returns under another number than it was recorded by,  *)
(* or if it ended before the program at the exit was attached, and only    *)
(* until that number calls execve again: an execve that fails, or whose    *)
(* thread is ended in it, takes no room in the map for good.               *)
LeaksOnlyThreads == records \subseteq {t \in Task : InExecve(t)} \cup stale
=============================================================================

--------------------------- MODULE SingleInstance ---------------------------
(***************************************************************************)
(* What cgproxyd promises of its instances: whoever owns the kernel's      *)
(* rules is alone, only the owner changes them, and it leaves none behind  *)
(* unless it is killed.                                                    *)
(***************************************************************************)
CONSTANTS
  Daemon,     \* the daemons
  NoDaemon    \* the rules are nobody's: there are none

VARIABLES
  state,      \* what each daemon is
  rules       \* the daemon whose rules are set up

svars == <<state, rules>>

SInit ==
  /\ state = [d \in Daemon |-> "out"]
  /\ rules = NoDaemon

Become(d, s) == state' = [state EXCEPT ![d] = s]

Acquire(d) ==
  /\ \A e \in Daemon : state[e] # "owner"
  /\ Become(d, "owner") /\ UNCHANGED rules

SetRules(d) ==
  /\ state[d] = "owner"
  /\ rules' \in {d, NoDaemon} /\ UNCHANGED state

Release(d) ==
  /\ state[d] = "owner" /\ rules = NoDaemon
  /\ Become(d, "out") /\ UNCHANGED rules

(* Its last script may still have its effect. *)
Lose(d) ==
  /\ state[d] = "owner"
  /\ Become(d, "killed")
  /\ rules' \in {rules, d, NoDaemon}

(* A daemon that was killed, or that is none, is tried again in vain. *)
Forget(d) ==
  /\ state[d] # "owner"
  /\ \E s \in {"out", "killed"} : Become(d, s)
  /\ UNCHANGED rules

SNext == \E d \in Daemon : Acquire(d) \/ SetRules(d) \/ Release(d) \/ Lose(d)
                             \/ Forget(d)

SSpec == SInit /\ [][SNext]_svars
=============================================================================

----------------------------- MODULE CgroupPath -----------------------------
(***************************************************************************)
(* Cgroup paths, as src/common.cpp and the kernel compare them.            *)
(*                                                                         *)
(* A path is the sequence of the names that follow each of its slashes:    *)
(* "/a/b" is <<"a", "b">>, "/" is <<"">> and "/a/" is <<"a", "">>.  The    *)
(* representation keeps empty names because the code compares the strings  *)
(* and the kernel compares the cgroups that they name.                     *)
(***************************************************************************)
EXTENDS Sequences, SequencesExt, Lists

(* The direction in which a process can be placed. *)
Dir == {"noproxy", "proxy"}

(* CGROUP_NOPROXY_PRESVERED and CGROUP_PROXY_PRESVERED. *)
Preserved == [noproxy |-> <<"noproxy.slice">>, proxy |-> <<"proxy.slice">>]

(* startWith(cg1 + '/', cg2 + '/'): both strings end in a slash, so one is *)
(* a prefix of the other exactly when the sequences of names are.          *)
BelongToCgroup(cg1, cg2) == IsPrefix(cg2, cg1)

BelongToAny(cg1, cgs) == \E cg2 \in cgs : BelongToCgroup(cg1, cg2)

InPreserved(cg) == \E d \in Dir : BelongToCgroup(cg, Preserved[d])

(* External: `-m cgroup --path' resolves the path to a cgroup, skipping    *)
(* empty names, and matches the sockets of that cgroup's descendants.      *)
PathMatch(cg, path) == IsPrefix(Without(path, {""}), Without(cg, {""}))
=============================================================================

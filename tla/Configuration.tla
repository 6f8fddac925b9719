---------------------------- MODULE Configuration ---------------------------
(***************************************************************************)
(* How cgproxyd loads a configuration and exports it to its script.        *)
(*                                                                         *)
(* A document is checked key by key, what has the right type is taken over *)
(* and the rest is kept from the configuration before; the programs are    *)
(* replaced by the files that they name, and the preserved cgroups put in  *)
(* front.  The lists are then joined into variables of the environment,    *)
(* which the script splits again.                                          *)
(***************************************************************************)
EXTENDS Naturals, Sequences, SequencesExt, CgroupPath

CONSTANTS
  Document,    \* the JSON objects that are sent, or found in a file
  Part,        \* the names that the paths of cgroups are made of
  Name,        \* the names that programs are listed by
  Disk,        \* which file each name of a program leads to
  Absolute     \* the names that begin with a slash

CgroupKey  == {"cgroup_proxy", "cgroup_noproxy"}
ProgramKey == {"program_proxy", "program_noproxy"}
BoolKey    == {"enable_gateway", "enable_dns", "enable_tcp", "enable_udp",
               "enable_ipv4", "enable_ipv6"}
NumberKey  == {"table", "fwmark", "mark_newin"}
Key        == CgroupKey \cup ProgramKey \cup BoolKey \cup NumberKey \cup {"port"}

(* What JSON values are told apart.                                        *)
(*   list     an array of strings, for cgroups of valid ones               *)
(*   invalid  an array with a string that is not a cgroup                  *)
(*   text     a string, for cgroups a valid one                            *)
(*   mixed    an array with something else than strings                    *)
(*   number   a number; of one with a fraction, its whole part             *)
Kind == {"list", "invalid", "text", "mixed", "number", "boolean", "other"}

Missing == "missing"

(* Lists are lists of cgroups, or of names. *)
ASSUME DocumentAssumption ==
  /\ {"proxy.slice", "noproxy.slice"} \subseteq Part
  /\ \A doc \in Document : \A k \in DOMAIN doc :
       /\ doc[k].kind \in Kind
       /\ doc[k].kind = "list" =>
            /\ k \in CgroupKey => doc[k].v \in Seq(Seq(Part))
            /\ k \in ProgramKey => doc[k].v \in Seq(Name)

(* `which' and realpath() lead to files, by their full and real names. *)
ASSUME DiskAssumption ==
  /\ {"/proxy.slice", "/noproxy.slice"} \subseteq Name /\ Missing \notin Name
  /\ Disk \subseteq [Name -> Name \cup {Missing}]
  /\ \A files \in Disk : \A n \in Name :
       files[n] # Missing => files[n] \in Absolute /\ files[files[n]] = files[n]

VARIABLES
  config,   \* cgproxyd::config
  env,      \* the lists of cgroups as the script reads them
  disk,     \* the files that there are
  status    \* what the last load returned

vars == <<config, env, disk, status>>

-----------------------------------------------------------------------------
(* What a key takes from a value: as an int, a switch that is on is 1. *)
Converted(k, x) ==
  IF x.kind # "boolean" THEN x.v
  ELSE IF k \in BoolKey THEN x.on
  ELSE IF x.on THEN 1 ELSE 0

(* validateJsonStr(): a value that cannot be converted to what the check   *)
(* is about throws, which ends the load as well.                           *)
ValidValue(k, x) ==
  \/ k \in CgroupKey /\ x.kind \in {"list", "text"}
  \/ k = "port" /\ x.kind \in {"number", "boolean"} /\ Converted(k, x) > 0
  \/ k \in BoolKey /\ x.kind = "boolean"
  \/ k \in ProgramKey \cup NumberKey \cup {"comment"}

ValidateJsonStr(doc) == \A k \in DOMAIN doc : ValidValue(k, doc[k])

(* tryassign(): a value of the wrong type is passed over. *)
Assignable(k, x) ==
  \/ k \in CgroupKey \cup ProgramKey /\ x.kind = "list"
  \/ k \in NumberKey \cup {"port"} /\ x.kind \in {"number", "boolean"}
  \/ k \in BoolKey /\ x.kind = "boolean"

TryAssign(c, doc) ==
  [k \in Key |-> IF k \in DOMAIN doc /\ Assignable(k, doc[k])
                 THEN Converted(k, doc[k]) ELSE c[k]]

(* getRealExistPath(): a path that is given in full is taken as it is; a   *)
(* name is looked up by `which', and its links are followed.               *)
GetRealExistPath(name) ==
  IF name \in Absolute /\ disk[name] # Missing THEN name ELSE disk[name]

ToRealProgramPath(list) ==
  Without([i \in DOMAIN list |-> GetRealExistPath(list[i])], {Missing})

(* The preserved cgroup that belongs to a key. *)
PreservedOf(k) ==
  IF k = "cgroup_proxy" THEN Preserved["proxy"] ELSE Preserved["noproxy"]

(* A mutation: the preserved cgroup is put in front, and stays elsewhere. *)
MergeKeeping(list, p) == <<p>> \o list

(* A mutation: the preserved cgroup is put last. *)
MergeBack(list, p) == Without(list, {p}) \o <<p>>

Merge(list, p) == <<p>> \o Without(list, {p})

LoadFromJsonStr(c, doc) ==
  LET assigned == TryAssign(c, doc)
  IN  [k \in Key |->
        IF k \in ProgramKey THEN ToRealProgramPath(assigned[k])
        ELSE IF k \in CgroupKey THEN Merge(assigned[k], PreservedOf(k))
        ELSE assigned[k]]

(* A mutation: the colon before the last string is left out. *)
JoinedShort(list) ==
  LET n == Len(list)
  IN  IF n > 2 THEN SubSeq(list, 1, n - 2) \o <<list[n - 1] \o list[n]>>
      ELSE list

(* join2str(list, ':') sets a colon after each string that differs from    *)
(* the last one, and the script splits at the colons: a string without one *)
(* runs on into the next.                                                  *)
JoinedUpTo(list) ==
  LET J[n \in 0..Len(list)] ==
        IF n = 0 THEN [fields |-> <<>>, open |-> FALSE]
        ELSE [fields |-> IF J[n - 1].open
                         THEN [J[n - 1].fields EXCEPT
                                 ![Len(J[n - 1].fields)] = @ \o list[n]]
                         ELSE Append(J[n - 1].fields, list[n]),
              open   |-> list[n] = Last(list)]
  IN  J

Joined(list) == JoinedUpTo(list)[Len(list)].fields

ToEnv(c) == [k \in CgroupKey |-> Joined(c[k])]

-----------------------------------------------------------------------------
(* A new Config: the program lists hold the names of the cgroups. *)
Defaults ==
  [k \in Key |->
    CASE k \in CgroupKey -> <<>>
      [] k = "program_proxy" -> <<"/proxy.slice">>
      [] k = "program_noproxy" -> <<"/noproxy.slice">>
      [] k = "enable_gateway" -> FALSE
      [] k \in BoolKey \ {"enable_gateway"} -> TRUE
      [] k = "port" -> 12345
      [] k = "table" -> 10007
      [] k = "fwmark" -> 39283
      [] k = "mark_newin" -> 39271]

Init ==
  /\ config = Defaults
  /\ env = [k \in CgroupKey |-> <<PreservedOf(k)>>]
  /\ disk \in Disk
  /\ status = "none"

(* start(), MSG_TYPE_CONFIG_JSON and MSG_TYPE_CONFIG_PATH: what was loaded *)
(* is applied at once, and what was refused changes nothing.               *)
Load(doc) ==
  /\ IF ValidateJsonStr(doc)
     THEN /\ config' = LoadFromJsonStr(config, doc)
          /\ env' = ToEnv(config')
          /\ status' = "success"
     ELSE status' = "refused" /\ UNCHANGED <<config, env>>
  /\ UNCHANGED disk

(* loadFromFile() of a file that cannot be opened. *)
LoadNoFile ==
  /\ status' = "refused"
  /\ UNCHANGED <<config, env, disk>>

(* Programs are installed and removed. *)
ChangeDisk ==
  /\ disk' \in Disk
  /\ UNCHANGED <<config, env, status>>

Next == (\E doc \in Document : Load(doc)) \/ LoadNoFile \/ ChangeDisk

Spec == Init /\ [][Next]_vars

-----------------------------------------------------------------------------
(* The script makes the first cgroup of each list, and no other, so that   *)
(* one has to be the preserved cgroup to which attach() moves processes,   *)
(* whatever was loaded in whatever order.                                  *)
PreservedMade == \A k \in CgroupKey : Head(env[k]) = PreservedOf(k)

(* A list in which the last cgroup stands only once comes out of the       *)
(* environment as it went in.                                              *)
ExportedAsGiven ==
  config # Defaults =>
    \A k \in CgroupKey :
      (\A i \in DOMAIN config[k] :
          config[k][i] = Last(config[k]) => i = Len(config[k]))
        => env[k] = config[k]

(* To load a document again changes nothing, from any configuration that   *)
(* earlier loads have left.                                                *)
LoadIdempotent ==
  \A doc \in Document :
    LET once == LoadFromJsonStr(config, doc)
    IN  ValidateJsonStr(doc) => LoadFromJsonStr(once, doc) = once

(* "v2ray -> /usr/bin/v2ray -> /usr/lib/v2ray/v2ray": what is listed after *)
(* a load is where the links end, so it can be what /proc/<pid>/exe leads  *)
(* to, with which handle_pid() compares it.                                *)
RealPaths ==
  status = "success" =>
    \A k \in ProgramKey : \A p \in Range(config[k]) : disk[p] \in {p, Missing}
=============================================================================

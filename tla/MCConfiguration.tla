--------------------------- MODULE MCConfiguration --------------------------
(***************************************************************************)
(* Small instances of Configuration for TLC.                               *)
(***************************************************************************)
EXTENDS Configuration, TLC

Real == "/usr/lib/v2ray/v2ray"
Link == "/usr/bin/v2ray"

FullPaths == {Real, Link, "/proxy.slice", "/noproxy.slice"}

Installed ==
  ("v2ray" :> Real) @@ (Link :> Real) @@ (Real :> Real) @@
  ("/proxy.slice" :> Missing) @@ ("/noproxy.slice" :> Missing)
Removed == [n \in DOMAIN Installed |-> Missing]

Disks == {Installed, Removed}

Names == DOMAIN Installed

List(v) == [kind |-> "list", v |-> v]
Of(kind) == [kind |-> kind]
Number(n) == [kind |-> "number", v |-> n]
Flag(b) == [kind |-> "boolean", on |-> b]

App  == <<"app.slice">>
Root == <<"">>

Parts == {"", "app.slice", "proxy.slice", "noproxy.slice"}

(* Lists with and without repetitions and preserved cgroups. *)
CgroupLists ==
  {<<>>, <<App>>, <<Root, App>>, <<App, Preserved["proxy"]>>,
   <<Preserved["proxy"], App, Preserved["proxy"]>>, <<App, App>>}

Programs == {<<>>, <<"v2ray">>, <<Link>>, <<"v2ray", Real>>}

Lists ==
  {("cgroup_proxy" :> List(c)) @@ ("program_noproxy" :> List(p)) :
     c \in CgroupLists, p \in Programs}

(* Documents with one key, of the right type and of a wrong one. *)
Singles ==
  {"port" :> Number(0), "port" :> Number(1), "port" :> Of("text"),
   "port" :> Flag(FALSE), "port" :> Flag(TRUE), "table" :> Flag(TRUE),
   "enable_dns" :> Flag(FALSE), "enable_dns" :> Of("text"),
   "table" :> Number(1), "table" :> Of("text"),
   "comment" :> Of("text"), "unknown" :> Of("other"),
   "cgroup_noproxy" :> List(<<App, Root>>), "cgroup_noproxy" :> Of("text"),
   "cgroup_noproxy" :> Of("invalid"), "cgroup_noproxy" :> Of("mixed"),
   "program_proxy" :> List(<<"v2ray">>), "program_proxy" :> Of("mixed")}

AllDocuments == Lists \cup Singles
=============================================================================

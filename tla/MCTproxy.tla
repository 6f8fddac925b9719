------------------------------ MODULE MCTproxy ------------------------------
(***************************************************************************)
(* Small instances of Tproxy for TLC.                                      *)
(***************************************************************************)
EXTENDS Tproxy

Root    == <<"">>
Service == <<"system.slice", "v2ray.service">>
Session == <<"user.slice">>
Gone    == <<"gone.slice">>

MCExisting == {Root, Service, Session, Preserved["noproxy"], Preserved["proxy"]}

(* The options of a configuration that gives none. *)
Defaults ==
  [fwmark |-> 39283, table |-> 10007,
   enable_gateway |-> FALSE, enable_dns |-> TRUE, enable_udp |-> TRUE,
   enable_tcp |-> TRUE, enable_ip |-> [f \in Family |-> TRUE],
   cgroup_noproxy |-> <<Preserved["noproxy"]>>,
   cgroup_proxy |-> <<Preserved["proxy"]>>,
   cgroup_mount_point |-> "cgproxy"]

(* A new daemon has exported nothing. *)
Unset == [Defaults EXCEPT !.cgroup_mount_point = "host"]

(* Everything is proxied but for the proxy, with other marks and tables. *)
Global ==
  [Defaults EXCEPT !.fwmark = 1, !.table = 100,
     !.cgroup_noproxy = <<Preserved["noproxy"], Service, Gone>>,
     !.cgroup_proxy = <<Preserved["proxy"], Root>>]

Gateway == [Global EXCEPT !.enable_gateway = TRUE, !.enable_ip["v4"] = FALSE]

NoDns == [Defaults EXCEPT !.enable_dns = FALSE, !.enable_ip["v6"] = FALSE]

OnlyDns == [Defaults EXCEPT !.enable_udp = FALSE, !.enable_tcp = FALSE,
                            !.cgroup_proxy = <<Preserved["proxy"], Session>>]

AllConfigs == {Defaults, Global, Gateway, NoDns, OnlyDns}
=============================================================================

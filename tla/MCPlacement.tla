---------------------------- MODULE MCPlacement -----------------------------
(***************************************************************************)
(* Small instances of Placement for TLC.                                   *)
(***************************************************************************)
EXTENDS Placement

(* Processes start in a user session or in the service of v2ray. *)
Session == <<"user.slice">>
Service == <<"system.slice", "v2ray.service">>

ThreeCgroups == {Session, Preserved["noproxy"], Preserved["proxy"]}
FourCgroups == ThreeCgroups \cup {Service}

(* v2ray must not be proxied and curl must; v2ray is listed both ways, and *)
(* system.slice is left alone.                                             *)
Listed ==
  [program |-> [noproxy |-> {"v2ray"}, proxy |-> {"curl", "v2ray"}],
   cgroup  |-> [noproxy |-> {Preserved["noproxy"], <<"system.slice">>},
                proxy   |-> {Preserved["proxy"]}]]

(* The two lists are exchanged. *)
Exchanged ==
  [program |-> [noproxy |-> {"curl"}, proxy |-> {"v2ray"}],
   cgroup  |-> [noproxy |-> {Preserved["noproxy"]},
                proxy   |-> {Preserved["proxy"], <<"system.slice">>}]]

(* Only v2ray is listed. *)
Single == [Listed EXCEPT !.program["proxy"] = {}]

SingleConfig == {Single}
TwoConfigs == {Listed, Exchanged}
=============================================================================

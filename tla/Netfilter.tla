------------------------------ MODULE Netfilter -----------------------------
(***************************************************************************)
(* External: the parts of Linux that cgroup-tproxy.sh configures, as far   *)
(* as the script uses them.  The mangle tables of iptables and ip6tables,  *)
(* policy routing, the nat rule for gateways, and the cgroup2 mount.       *)
(*                                                                         *)
(* A command is a record whose field op names it.  Effect() is what it     *)
(* does to the kernel's state; a command that fails does nothing, and the  *)
(* script goes on after it.                                                *)
(***************************************************************************)
EXTENDS Naturals, Sequences, SequencesExt, CgroupPath

Family == {"v4", "v6"}
Chain  == {"TPROXY_ENT", "TPROXY_PRE", "TPROXY_MARK", "TPROXY_OUT"}

(* The built-in chains, and the chain that the script hooks into each. *)
HookOf == [PREROUTING |-> "TPROXY_PRE", OUTPUT |-> "TPROXY_OUT"]
Hook   == DOMAIN HookOf

(* The chains that exist, and the rules of each, none if it does not. *)
CleanNet ==
  [exists  |-> [f \in Family |-> {}],
   chain   |-> [f \in Family |-> [ch \in Chain |-> <<>>]],
   hook    |-> [f \in Family |-> [h \in Hook |-> 0]],
   rule    |-> [f \in Family |-> {}],
   route   |-> [f \in Family |-> {}],
   nat     |-> [f \in Family |-> 0],
   mounted |-> FALSE,
   forward |-> FALSE]

Exists(net, f, ch) == ch \in net.exists[f]

(* A chain is in use while something jumps to it. *)
Referenced(net, f, ch) ==
  \/ \E h \in Hook : HookOf[h] = ch /\ net.hook[f][h] > 0
  \/ \E ch2 \in Chain : \E r \in Range(net.chain[f][ch2]) : r.j = ch

Effect(net, c) ==
  LET f == c.fam IN
  CASE c.op = "-N" -> [net EXCEPT !.exists[f] = @ \cup {c.chain}]
    [] /\ c.op = "-A" /\ Exists(net, f, c.chain)
       /\ c.rule.j \in Chain => Exists(net, f, c.rule.j) ->
         [net EXCEPT !.chain[f][c.chain] = Append(@, c.rule)]
    [] c.op = "-F" -> [net EXCEPT !.chain[f][c.chain] = <<>>]
    [] /\ c.op = "-X" /\ net.chain[f][c.chain] = <<>>
       /\ ~Referenced(net, f, c.chain) ->
         [net EXCEPT !.exists[f] = @ \ {c.chain}]
    [] c.op = "hook" /\ Exists(net, f, HookOf[c.hook]) ->
         [net EXCEPT !.hook[f][c.hook] = @ + 1]
    [] c.op = "unhook" /\ net.hook[f][c.hook] > 0 ->
         [net EXCEPT !.hook[f][c.hook] = @ - 1]
    [] c.op = "rule add" -> [net EXCEPT !.rule[f] = @ \cup {c.arg}]
    [] c.op = "rule delete" -> [net EXCEPT !.rule[f] = @ \ {c.arg}]
    [] c.op = "route add" -> [net EXCEPT !.route[f] = @ \cup {c.arg}]
    [] c.op = "route flush" -> [net EXCEPT !.route[f] = @ \ {c.arg}]
    [] c.op = "masquerade" -> [net EXCEPT !.nat[f] = @ + 1]
    [] c.op = "unmasquerade" /\ net.nat[f] > 0 ->
         [net EXCEPT !.nat[f] = @ - 1]
    [] c.op = "sysctl" -> [net EXCEPT !.forward = TRUE]
    [] c.op = "mount" -> [net EXCEPT !.mounted = TRUE]
    [] c.op = "umount" -> [net EXCEPT !.mounted = FALSE]
    [] OTHER -> net

-----------------------------------------------------------------------------
(* How a packet goes through the chains.                                   *)
(*   local   it comes from this host, else another device sends it through *)
(*   cg      the cgroup of the socket that sends it                        *)
(*   dst     the type of its destination address                           *)
(*   socket  a transparent socket of the proxy has its addresses already   *)

Facts(pkt) ==
  [any        |-> TRUE,
   socket     |-> pkt.socket,
   tcp        |-> pkt.proto = "tcp",
   udp        |-> pkt.proto \in {"udp", "dns"},
   dns        |-> pkt.proto = "dns",
   reply      |-> pkt.reply,
   dstlocal   |-> pkt.dst = "local",
   notunicast |-> pkt.dst # "unicast",
   srcremote  |-> ~pkt.local]

Matches(r, pkt) ==
  IF r.m = "cgroup" THEN PathMatch(pkt.cg, r.path) ELSE Facts(pkt)[r.m]

(* MARK goes on with the next rule; the other targets end the walk. *)
Apply(r, pkt, s) ==
  IF s.end # "no" \/ ~Matches(r, pkt) THEN s
  ELSE IF r.j = "MARK" THEN [s EXCEPT !.mark = r.mark]
  ELSE IF r.j = "TPROXY" THEN [mark |-> r.mark, end |-> "TPROXY"]
  ELSE [s EXCEPT !.end = r.j]

(* A chain of the script that jumps to no other. *)
WalkInner(net, f, ch, pkt, s) ==
  LET rules == net.chain[f][ch]
      W[n \in 0..Len(rules)] ==
        IF n = 0 THEN s ELSE Apply(rules[n], pkt, W[n - 1])
      t == W[Len(rules)]
  IN  [t EXCEPT !.end = IF @ = "RETURN" THEN "no" ELSE @]

(* A rule of a chain that may jump to another. *)
WalkRule(net, f, r, pkt, s) ==
  IF r.j \notin Chain THEN Apply(r, pkt, s)
  ELSE IF s.end # "no" \/ ~Matches(r, pkt) THEN s
  ELSE WalkInner(net, f, r.j, pkt, s)

(* The chain that is hooked into a built-in one. *)
Walk(net, f, h, pkt, s) ==
  LET rules == net.chain[f][HookOf[h]]
      W[n \in 0..Len(rules)] ==
        IF n = 0 THEN s ELSE WalkRule(net, f, rules[n], pkt, W[n - 1])
  IN  IF net.hook[f][h] = 0 THEN s ELSE W[Len(rules)]

Unmarked == [mark |-> 0, end |-> "no"]

(* The mark that a packet of this host has when OUTPUT is done with it. *)
OutputMark(net, pkt) == Walk(net, pkt.fam, "OUTPUT", pkt, Unmarked).mark

(* A mark sends a packet to this host if a rule maps it to such a route. *)
Rerouted(net, f, mark) ==
  \E r \in net.rule[f] : r[1] = mark /\ r[2] \in net.route[f]

(* PREROUTING hands the packet to the proxy, and it stays on this host. *)
Served(net, pkt, mark) ==
  LET s == Walk(net, pkt.fam, "PREROUTING", pkt, [Unmarked EXCEPT !.mark = mark])
  IN  s.end \in {"TPROXY", "ACCEPT"} /\ Rerouted(net, pkt.fam, s.mark)

(* The proxy gets the packet.  One of this host has to be rerouted first. *)
Proxied(net, pkt) ==
  IF pkt.local
  THEN LET mark == OutputMark(net, pkt)
       IN  Rerouted(net, pkt.fam, mark) /\ Served(net, pkt, mark)
  ELSE Served(net, pkt, 0)
=============================================================================

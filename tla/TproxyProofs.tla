---------------------------- MODULE TproxyProofs ----------------------------
(***************************************************************************)
(* Proofs about Tproxy, for any configurations, cgroups and number of      *)
(* kills: the packets of the proxy are never marked, and a stop leaves     *)
(* nothing behind.                                                         *)
(***************************************************************************)
EXTENDS Tproxy, ListProofs

-----------------------------------------------------------------------------
(* The types of the kernel's state and of the commands. *)

Match == {"any", "socket", "tcp", "udp", "dns", "reply", "dstlocal",
          "notunicast", "srcremote", "cgroup"}
Target == Chain \cup {"RETURN", "MARK", "ACCEPT", "TPROXY"}

RuleOf(matches, paths, targets) ==
  [m : matches, path : paths, j : targets, mark : Nat]

Path == Seq(STRING)
Rule == RuleOf(Match, Path, Target)

(* Rules that jump to the marking, that end the walk, and that end it for  *)
(* what /noproxy.slice sends.                                              *)
Marking   == RuleOf(Match, Path, {"TPROXY_MARK"})
Returning == RuleOf(Match, Path, {"RETURN"})
Sparing   == RuleOf({"cgroup"}, {Preserved["noproxy"]}, {"RETURN"})

Lookups == SUBSET (Nat \X Nat)
Tables  == SUBSET Nat

Net ==
  [exists : [Family -> SUBSET Chain], chain : [Family -> [Chain -> Seq(Rule)]],
   hook : [Family -> [Hook -> Nat]], rule : [Family -> Lookups],
   route : [Family -> Tables], nat : [Family -> Nat],
   mounted : BOOLEAN, forward : BOOLEAN]

AppendTo(f, chains, rules) ==
  [op : {"-A"}, fam : {f}, chain : chains, rule : rules]

AppendOut(f, rules) == AppendTo(f, {"TPROXY_OUT"}, rules)

(* What a start runs for a family, apart from hooks and TPROXY_OUT. *)
Calm(f, e) ==
  {IpTables(f, "-N", ch) : ch \in Chain}
    \cup AppendTo(f, Chain \ {"TPROXY_OUT"}, Rule)
    \cup {IpRule(f, "rule add", e), IpRoute(f, "route add", e)}

StartOf(f, e) ==
  Calm(f, e) \cup AppendOut(f, Marking \cup Returning)
    \cup {HookCmd(f, "hook", h) : h \in Hook}

Mount == Plain("mount", "v4")

StartCmd(e) ==
  StartOf("v4", e) \cup StartOf("v6", e)
    \cup {Plain("masquerade", f) : f \in Family}
    \cup {Mount, Plain("sysctl", "v4")}

(* What a stop runs for a family. *)
Deletes(f) == {IpTables(f, "-X", ch) : ch \in Chain}

UndoOf(f, e) ==
  {HookCmd(f, "unhook", h) : h \in Hook}
    \cup {IpTables(f, "-F", ch) : ch \in Chain} \cup Deletes(f)
    \cup {IpRule(f, "rule delete", e), IpRoute(f, "route flush", e),
          Plain("unmasquerade", f)}

Undo(e) == UndoOf("v4", e) \cup UndoOf("v6", e) \cup {Plain("umount", "v4")}

Guard == Plain("guard", "v4")

-----------------------------------------------------------------------------
(* What each command does: c takes n to m. *)
Does(n, c, m) == m = Effect(n, c)

(* All but one part of the state stays. *)
Same(n, m, part) ==
  /\ part # "exists" => m.exists = n.exists
  /\ part # "chain" => m.chain = n.chain
  /\ part # "hook" => m.hook = n.hook
  /\ part # "rule" => m.rule = n.rule
  /\ part # "route" => m.route = n.route
  /\ part # "nat" => m.nat = n.nat
  /\ part # "mounted" => m.mounted = n.mounted

(* The parts of the state have their types. *)
LEMMA Parts ==
  ASSUME NEW n \in Net
  PROVE  /\ n.exists \in [Family -> SUBSET Chain]
         /\ n.chain \in [Family -> [Chain -> Seq(Rule)]]
         /\ n.hook \in [Family -> [Hook -> Nat]]
         /\ n.rule \in [Family -> Lookups]
         /\ n.route \in [Family -> Tables] /\ n.nat \in [Family -> Nat]
         /\ n.mounted \in BOOLEAN
BY DEF Net

(* iptables -N *)
LEMMA DoNew ==
  ASSUME NEW n \in Net, NEW f \in Family, NEW ch \in Chain,
         NEW c, c = IpTables(f, "-N", ch), NEW m, Does(n, c, m)
  PROVE  /\ m \in Net /\ Same(n, m, "exists")
         /\ m.exists = [n.exists EXCEPT ![f] = @ \cup {ch}]
<1> DEFINE v == n.exists[f] \cup {ch}
<1>1. m = [n EXCEPT !.exists[f] = v]
  BY DEF Does, Effect, IpTables
<1>2. v \in SUBSET Chain
  BY Parts
<1> HIDE DEF v
<1>3. m \in Net /\ Same(n, m, "exists") /\ m.exists = [n.exists EXCEPT ![f] = v]
  BY <1>1, <1>2 DEF Net, Same
<1> QED
  BY <1>3 DEF v

(* iptables -A *)
LEMMA DoAppend ==
  ASSUME NEW n \in Net, NEW f \in Family, NEW ch \in Chain, NEW r \in Rule,
         NEW c, c = [op |-> "-A", fam |-> f, chain |-> ch, rule |-> r],
         NEW m, Does(n, c, m)
  PROVE  /\ m \in Net /\ Same(n, m, "chain")
         /\ m.chain =
              IF Exists(n, f, ch) /\ (r.j \in Chain => Exists(n, f, r.j))
              THEN [n.chain EXCEPT ![f][ch] = Append(@, r)] ELSE n.chain
<1> DEFINE v == Append(n.chain[f][ch], r)
           ok == Exists(n, f, ch) /\ (r.j \in Chain => Exists(n, f, r.j))
<1>1. m = IF ok THEN [n EXCEPT !.chain[f][ch] = v] ELSE n
  BY DEF Does, Effect
<1>2. v \in Seq(Rule)
  <2>1. n.chain[f][ch] \in Seq(Rule)
    BY Parts
  <2> QED
    BY <2>1
<1> HIDE DEF v, ok
<1>3. CASE ok
  <2>1. m = [n EXCEPT !.chain[f][ch] = v]
    BY <1>1, <1>3
  <2>2. m \in Net /\ Same(n, m, "chain") /\ m.chain = [n.chain EXCEPT ![f][ch] = v]
    BY <1>2, <2>1 DEF Net, Same
  <2> QED
    BY <1>3, <2>2 DEF v, ok
<1>4. CASE ~ok
  <2>1. m = n
    BY <1>1, <1>4
  <2> QED
    BY <1>4, <2>1 DEF ok, Same
<1> QED
  BY <1>3, <1>4

(* iptables -A PREROUTING, -A OUTPUT *)
LEMMA DoHook ==
  ASSUME NEW n \in Net, NEW f \in Family, NEW h \in Hook,
         NEW c, c = HookCmd(f, "hook", h), NEW m, Does(n, c, m)
  PROVE  /\ m \in Net /\ Same(n, m, "hook")
         /\ m.hook = n.hook \/ m.hook = [n.hook EXCEPT ![f][h] = @ + 1]
         /\ Exists(n, f, HookOf[h]) => m.hook = [n.hook EXCEPT ![f][h] = @ + 1]
<1> DEFINE v == n.hook[f][h] + 1
           ok == Exists(n, f, HookOf[h])
<1>1. m = IF ok THEN [n EXCEPT !.hook[f][h] = v] ELSE n
  BY DEF Does, Effect, HookCmd
<1>2. v \in Nat
  <2>1. n.hook[f][h] \in Nat
    BY Parts
  <2> QED
    BY <2>1
<1> HIDE DEF v, ok
<1>3. CASE ok
  <2>1. m \in Net /\ Same(n, m, "hook") /\ m.hook = [n.hook EXCEPT ![f][h] = v]
    BY <1>1, <1>2, <1>3 DEF Net, Same
  <2> QED
    BY <2>1 DEF v
<1>4. CASE ~ok
  <2>1. m = n
    BY <1>1, <1>4
  <2> QED
    BY <1>4, <2>1 DEF Same, ok
<1> QED
  BY <1>3, <1>4

(* What is looked up for a family, and no other, afterwards. *)
Ruled(n, m, f, e) ==
  /\ <<e.fwmark, e.table>> \in m.rule[f]
  /\ \A g \in Family : g # f => m.rule[g] = n.rule[g]

Routed(n, m, f, e) ==
  /\ e.table \in m.route[f]
  /\ \A g \in Family : g # f => m.route[g] = n.route[g]

(* ip rule add *)
LEMMA DoRule ==
  ASSUME NEW n \in Net, NEW f \in Family, NEW e \in Environment,
         NEW c, c = IpRule(f, "rule add", e), NEW m, Does(n, c, m)
  PROVE  /\ m \in Net /\ Same(n, m, "rule")
         /\ \A g \in Family : m.rule[g] \subseteq n.rule[g] \cup {<<e.fwmark, e.table>>}
         /\ Ruled(n, m, f, e)
<1> DEFINE v == n.rule[f] \cup {<<e.fwmark, e.table>>}
<1>1. m = [n EXCEPT !.rule[f] = v]
  BY DEF Does, Effect, IpRule
<1>2. v \in Lookups
  <2>1. n.rule[f] \in Lookups
    BY Parts
  <2>2. <<e.fwmark, e.table>> \in Nat \X Nat
    BY DEF Environment
  <2> QED
    BY <2>1, <2>2 DEF Lookups
<1> HIDE DEF v
<1>3. m \in Net /\ Same(n, m, "rule") /\ m.rule = [n.rule EXCEPT ![f] = v]
  BY <1>1, <1>2 DEF Net, Same
<1>4. m.rule[f] = v /\ \A g \in Family \ {f} : m.rule[g] = n.rule[g]
  BY <1>3, Parts
<1> QED
  BY <1>3, <1>4 DEF v, Ruled

(* ip route add *)
LEMMA DoRoute ==
  ASSUME NEW n \in Net, NEW f \in Family, NEW e \in Environment,
         NEW c, c = IpRoute(f, "route add", e), NEW m, Does(n, c, m)
  PROVE  /\ m \in Net /\ Same(n, m, "route")
         /\ \A g \in Family : m.route[g] \subseteq n.route[g] \cup {e.table}
         /\ Routed(n, m, f, e)
<1> DEFINE v == n.route[f] \cup {e.table}
<1>1. m = [n EXCEPT !.route[f] = v]
  BY DEF Does, Effect, IpRoute
<1>2. v \in Tables
  <2>1. n.route[f] \in Tables
    BY Parts
  <2>2. e.table \in Nat
    BY DEF Environment
  <2> QED
    BY <2>1, <2>2 DEF Tables
<1> HIDE DEF v
<1>3. m \in Net /\ Same(n, m, "route") /\ m.route = [n.route EXCEPT ![f] = v]
  BY <1>1, <1>2 DEF Net, Same
<1>4. m.route[f] = v /\ \A g \in Family \ {f} : m.route[g] = n.route[g]
  BY <1>3, Parts
<1> QED
  BY <1>3, <1>4 DEF v, Routed

(* MASQUERADE *)
LEMMA DoMasquerade ==
  ASSUME NEW n \in Net, NEW f \in Family,
         NEW c, c = Plain("masquerade", f), NEW m, Does(n, c, m)
  PROVE  m \in Net /\ Same(n, m, "nat") /\ m.nat = [n.nat EXCEPT ![f] = @ + 1]
<1> DEFINE v == n.nat[f] + 1
<1>1. m = [n EXCEPT !.nat[f] = v]
  BY DEF Does, Effect, Plain
<1>2. v \in Nat
  <2>1. n.nat[f] \in Nat
    BY Parts
  <2> QED
    BY <2>1
<1> HIDE DEF v
<1>3. m \in Net /\ Same(n, m, "nat") /\ m.nat = [n.nat EXCEPT ![f] = v]
  BY <1>1, <1>2 DEF Net, Same
<1> QED
  BY <1>3 DEF v

(* mount, sysctl *)
LEMMA DoMount ==
  ASSUME NEW n \in Net, NEW c, c \in {Mount, Plain("sysctl", "v4")},
         NEW m, Does(n, c, m)
  PROVE  /\ m \in Net /\ (Same(n, m, "mounted") \/ Same(n, m, "forward"))
         /\ n.mounted \/ c = Mount => m.mounted
<1>1. CASE c = Mount
  <2>1. m = [n EXCEPT !.mounted = TRUE]
    BY <1>1 DEF Does, Effect, Plain, Mount
  <2> QED
    BY <2>1 DEF Net, Same
<1>2. CASE c = Plain("sysctl", "v4")
  <2>1. m = [n EXCEPT !.forward = TRUE]
    BY <1>2 DEF Does, Effect, Plain
  <2>2. c # Mount
    BY <1>2 DEF Plain, Mount
  <2> QED
    BY <2>1, <2>2 DEF Net, Same
<1> QED
  BY <1>1, <1>2

(* What a command of a start may change for a family: it adds to the       *)
(* chains, and to what is in use.                                          *)
AddsOut(n, m, c, f) ==
  /\ n.exists[f] \subseteq m.exists[f]
  /\ \A ch \in Chain : c = IpTables(f, "-N", ch) => ch \in m.exists[f]
  /\ \/ m.chain[f]["TPROXY_OUT"] = n.chain[f]["TPROXY_OUT"]
     \/ /\ c \in AppendOut(f, Marking \cup Returning)
        /\ m.chain[f]["TPROXY_OUT"] = Append(n.chain[f]["TPROXY_OUT"], c.rule)
  /\ c \in AppendOut(f, Sparing) /\ Exists(n, f, "TPROXY_OUT") =>
       m.chain[f]["TPROXY_OUT"] = Append(n.chain[f]["TPROXY_OUT"], c.rule)

AddsUse(n, m, c, e, f) ==
  /\ \A h \in Hook :
       \/ m.hook[f][h] = n.hook[f][h]
       \/ c = HookCmd(f, "hook", h) /\ m.hook[f][h] = n.hook[f][h] + 1
  /\ \/ m.nat[f] = n.nat[f]
     \/ c = Plain("masquerade", f) /\ m.nat[f] = n.nat[f] + 1
  /\ m.rule[f] \subseteq n.rule[f] \cup {<<e.fwmark, e.table>>}
  /\ m.route[f] \subseteq n.route[f] \cup {e.table}

Adds(n, m, c, e) ==
  m \in Net /\ \A f \in Family : AddsOut(n, m, c, f) /\ AddsUse(n, m, c, e, f)

(* Where the chains stay, nothing is added to them. *)
LEMMA ChainsStay ==
  ASSUME NEW n \in Net, NEW m, NEW c, NEW f \in Family,
         c.op \notin {"-N", "-A"}, m.exists = n.exists, m.chain = n.chain
  PROVE  AddsOut(n, m, c, f)
BY DEF AddsOut, IpTables, AppendOut, AppendTo

(* Where the hooks, the nat rule and the routes stay, no use is added. *)
LEMMA UseStays ==
  ASSUME NEW n \in Net, NEW m, NEW c, NEW e, NEW f \in Family,
         m.hook = n.hook, m.nat = n.nat, m.rule = n.rule, m.route = n.route
  PROVE  AddsUse(n, m, c, e, f)
BY DEF AddsUse

(* And so it does. *)
LEMMA StartAdds ==
  ASSUME NEW n \in Net, NEW e \in Environment, NEW c \in StartCmd(e),
         NEW m, Does(n, c, m)
  PROVE  Adds(n, m, c, e)
<1>1. ASSUME NEW g \in Family, NEW ch \in Chain, c = IpTables(g, "-N", ch)
      PROVE  Adds(n, m, c, e)
  <2>1. /\ m \in Net /\ Same(n, m, "exists")
        /\ m.exists = [n.exists EXCEPT ![g] = @ \cup {ch}]
    BY <1>1, DoNew
  <2>2. c.op = "-N" /\ c.fam = g /\ c.chain = ch
    BY <1>1 DEF IpTables
  <2>3. \A f \in Family :
          /\ n.exists[f] \subseteq m.exists[f]
          /\ \A x \in Chain : c = IpTables(f, "-N", x) => x \in m.exists[f]
    <3>1. ASSUME NEW f \in Family, NEW x \in Chain, c = IpTables(f, "-N", x)
          PROVE  f = g /\ x = ch
      BY <2>2, <3>1 DEF IpTables
    <3> QED
      BY <1>1, <2>1, <3>1, Parts
  <2>4. \A f \in Family : AddsOut(n, m, c, f)
    BY <2>1, <2>2, <2>3 DEF AddsOut, Same, AppendOut, AppendTo
  <2>5. \A f \in Family : AddsUse(n, m, c, e, f)
    BY <2>1, UseStays DEF Same
  <2> QED
    BY <2>1, <2>4, <2>5 DEF Adds
<1>2. ASSUME NEW g \in Family, NEW ch \in Chain, NEW r \in Rule,
             c = [op |-> "-A", fam |-> g, chain |-> ch, rule |-> r],
             ch = "TPROXY_OUT" => r \in Marking \cup Returning
      PROVE  Adds(n, m, c, e)
  <2> DEFINE ok == Exists(n, g, ch) /\ (r.j \in Chain => Exists(n, g, r.j))
  <2>1. /\ m \in Net /\ Same(n, m, "chain")
        /\ m.chain = IF ok THEN [n.chain EXCEPT ![g][ch] = Append(@, r)]
                     ELSE n.chain
    BY <1>2, DoAppend
  <2>2. c.op = "-A" /\ c.fam = g /\ c.chain = ch /\ c.rule = r
    BY <1>2
  <2>3. "TPROXY_OUT" \in Chain /\ "RETURN" \notin Chain
    BY DEF Chain
  <2>4. ASSUME NEW f \in Family
        PROVE  \/ m.chain[f]["TPROXY_OUT"] = n.chain[f]["TPROXY_OUT"]
               \/ /\ c \in AppendOut(f, Marking \cup Returning)
                  /\ m.chain[f]["TPROXY_OUT"] = Append(n.chain[f]["TPROXY_OUT"], c.rule)
    <3>1. CASE f = g /\ ch = "TPROXY_OUT" /\ ok
      <4>1. c \in AppendOut(f, Marking \cup Returning)
        BY <1>2, <3>1 DEF AppendOut, AppendTo
      <4>2. m.chain[f]["TPROXY_OUT"] = Append(n.chain[f]["TPROXY_OUT"], c.rule)
        BY <1>2, <2>1, <2>2, <2>3, <3>1, Parts
      <4> QED
        BY <4>1, <4>2
    <3>2. CASE ~(f = g /\ ch = "TPROXY_OUT" /\ ok)
      <4> HIDE DEF ok
      <4>1. m.chain[f]["TPROXY_OUT"] = n.chain[f]["TPROXY_OUT"]
        BY <1>2, <2>1, <2>3, <3>2, Parts
      <4> QED
        BY <4>1
    <3> QED
      BY <3>1, <3>2
  <2>5. ASSUME NEW f \in Family, c \in AppendOut(f, Sparing),
               Exists(n, f, "TPROXY_OUT")
        PROVE  m.chain[f]["TPROXY_OUT"] = Append(n.chain[f]["TPROXY_OUT"], c.rule)
    <3>1. f = g /\ ch = "TPROXY_OUT" /\ r.j = "RETURN"
      BY <2>2, <2>5 DEF AppendOut, AppendTo, Sparing, RuleOf
    <3>2. ok
      BY <2>3, <2>5, <3>1
    <3> QED
      BY <1>2, <2>1, <2>2, <2>3, <3>1, <3>2, Parts
  <2> HIDE DEF ok
  <2>6. \A f \in Family : AddsOut(n, m, c, f)
    <3>1. ASSUME NEW f \in Family, NEW x \in Chain, c = IpTables(f, "-N", x)
          PROVE  FALSE
      BY <2>2, <3>1 DEF IpTables
    <3>2. m.exists = n.exists
      BY <2>1 DEF Same
    <3> QED
      BY <2>4, <2>5, <3>1, <3>2 DEF AddsOut
  <2>7. \A f \in Family : AddsUse(n, m, c, e, f)
    BY <2>1, UseStays DEF Same
  <2> QED
    BY <2>1, <2>6, <2>7 DEF Adds
<1>3. ASSUME NEW g \in Family, NEW h \in Hook, c = HookCmd(g, "hook", h)
      PROVE  Adds(n, m, c, e)
  <2>1. /\ m \in Net /\ Same(n, m, "hook")
        /\ m.hook = n.hook \/ m.hook = [n.hook EXCEPT ![g][h] = @ + 1]
    BY <1>3, DoHook
  <2>2. c.op = "hook"
    BY <1>3 DEF HookCmd
  <2>3. ASSUME NEW f \in Family, NEW k \in Hook
        PROVE  \/ m.hook[f][k] = n.hook[f][k]
               \/ c = HookCmd(f, "hook", k) /\ m.hook[f][k] = n.hook[f][k] + 1
    <3>1. CASE f = g /\ k = h
      BY <1>3, <2>1, <3>1, Parts
    <3>2. CASE f = g /\ k # h
      BY <1>3, <2>1, <3>2, Parts
    <3>3. CASE f # g
      BY <1>3, <2>1, <3>3, Parts
    <3> QED
      BY <3>1, <3>2, <3>3
  <2>4. \A f \in Family : AddsOut(n, m, c, f)
    BY <2>1, <2>2, ChainsStay DEF Same
  <2>5. \A f \in Family : AddsUse(n, m, c, e, f)
    BY <2>1, <2>3 DEF AddsUse, Same
  <2> QED
    BY <2>1, <2>4, <2>5 DEF Adds
<1>4a. ASSUME NEW g \in Family, c = IpRule(g, "rule add", e)
       PROVE  Adds(n, m, c, e)
  <2>1. /\ m \in Net /\ Same(n, m, "rule")
        /\ \A f \in Family : m.rule[f] \subseteq n.rule[f] \cup {<<e.fwmark, e.table>>}
    BY <1>4a, DoRule
  <2>2. c.op = "rule add"
    BY <1>4a DEF IpRule
  <2>4. \A f \in Family : AddsOut(n, m, c, f)
    BY <2>1, <2>2, ChainsStay DEF Same
  <2>5. \A f \in Family : AddsUse(n, m, c, e, f)
    BY <2>1 DEF AddsUse, Same
  <2> QED
    BY <2>1, <2>4, <2>5 DEF Adds
<1>4b. ASSUME NEW g \in Family, c = IpRoute(g, "route add", e)
       PROVE  Adds(n, m, c, e)
  <2>1. /\ m \in Net /\ Same(n, m, "route")
        /\ \A f \in Family : m.route[f] \subseteq n.route[f] \cup {e.table}
    BY <1>4b, DoRoute
  <2>2. c.op = "route add"
    BY <1>4b DEF IpRoute
  <2>4. \A f \in Family : AddsOut(n, m, c, f)
    BY <2>1, <2>2, ChainsStay DEF Same
  <2>5. \A f \in Family : AddsUse(n, m, c, e, f)
    BY <2>1 DEF AddsUse, Same
  <2> QED
    BY <2>1, <2>4, <2>5 DEF Adds
<1>5. ASSUME NEW g \in Family, c = Plain("masquerade", g)
      PROVE  Adds(n, m, c, e)
  <2>1. m \in Net /\ Same(n, m, "nat") /\ m.nat = [n.nat EXCEPT ![g] = @ + 1]
    BY <1>5, DoMasquerade
  <2>2. c.op = "masquerade"
    BY <1>5 DEF Plain
  <2>3. ASSUME NEW f \in Family
        PROVE  \/ m.nat[f] = n.nat[f]
               \/ c = Plain("masquerade", f) /\ m.nat[f] = n.nat[f] + 1
    BY <1>5, <2>1, Parts
  <2>4. \A f \in Family : AddsOut(n, m, c, f)
    BY <2>1, <2>2, ChainsStay DEF Same
  <2>5. \A f \in Family : AddsUse(n, m, c, e, f)
    BY <2>1, <2>3 DEF AddsUse, Same
  <2> QED
    BY <2>1, <2>4, <2>5 DEF Adds
<1>6. CASE c \in {Mount, Plain("sysctl", "v4")}
  <2>1. m \in Net /\ (Same(n, m, "mounted") \/ Same(n, m, "forward"))
    BY <1>6, DoMount
  <2>2. c.op \in {"mount", "sysctl"}
    BY <1>6 DEF Plain, Mount
  <2>4. \A f \in Family : AddsOut(n, m, c, f)
    BY <2>1, <2>2, ChainsStay DEF Same
  <2>5. \A f \in Family : AddsUse(n, m, c, e, f)
    BY <2>1, UseStays DEF Same
  <2> QED
    BY <2>1, <2>4, <2>5 DEF Adds
<1>7. ASSUME NEW g \in Family, c \in AppendTo(g, Chain \ {"TPROXY_OUT"}, Rule)
      PROVE  Adds(n, m, c, e)
  <2>1. /\ c.chain \in Chain /\ c.chain # "TPROXY_OUT" /\ c.rule \in Rule
        /\ c = [op |-> "-A", fam |-> g, chain |-> c.chain, rule |-> c.rule]
    BY <1>7 DEF AppendTo
  <2> QED
    BY <1>2, <1>7, <2>1
<1>8. ASSUME NEW g \in Family, c \in AppendOut(g, Marking \cup Returning)
      PROVE  Adds(n, m, c, e)
  <2>1. /\ c.rule \in Marking \cup Returning
        /\ c = [op |-> "-A", fam |-> g, chain |-> "TPROXY_OUT", rule |-> c.rule]
    BY <1>8 DEF AppendOut, AppendTo
  <2>2. c.rule \in Rule /\ "TPROXY_OUT" \in Chain
    BY <2>1 DEF Marking, Returning, Rule, RuleOf, Target, Chain
  <2> QED
    BY <1>2, <1>8, <2>1, <2>2
<1>9. PICK g \in Family : \/ c \in StartOf(g, e)
                          \/ c = Plain("masquerade", g)
                          \/ c \in {Mount, Plain("sysctl", "v4")}
  BY DEF StartCmd, Family
<1> QED
  BY <1>1, <1>3, <1>4a, <1>4b, <1>5, <1>6, <1>7, <1>8, <1>9 DEF StartOf, Calm

-----------------------------------------------------------------------------
(* iptables -D PREROUTING, -D OUTPUT *)
LEMMA DoUnhook ==
  ASSUME NEW n \in Net, NEW f \in Family, NEW h \in Hook,
         NEW c, c = HookCmd(f, "unhook", h), NEW m, Does(n, c, m)
  PROVE  /\ m \in Net /\ Same(n, m, "hook")
         /\ m.hook = IF n.hook[f][h] > 0
                     THEN [n.hook EXCEPT ![f][h] = @ - 1] ELSE n.hook
<1> DEFINE v == n.hook[f][h] - 1
           ok == n.hook[f][h] > 0
<1>1. m = IF ok THEN [n EXCEPT !.hook[f][h] = v] ELSE n
  BY DEF Does, Effect, HookCmd
<1>2. CASE ok
  <2>1. v \in Nat
    <3>1. n.hook[f][h] \in Nat
      BY Parts
    <3> QED
      BY <1>2, <3>1
  <2>2. m = [n EXCEPT !.hook[f][h] = v]
    BY <1>1, <1>2
  <2> HIDE DEF v, ok
  <2>3. m \in Net /\ Same(n, m, "hook") /\ m.hook = [n.hook EXCEPT ![f][h] = v]
    BY <2>1, <2>2 DEF Net, Same
  <2> QED
    BY <1>2, <2>3 DEF v, ok
<1>3. CASE ~ok
  <2>1. m = n
    BY <1>1, <1>3
  <2> QED
    BY <1>3, <2>1 DEF Same
<1> QED
  BY <1>2, <1>3

(* iptables -F *)
LEMMA DoFlush ==
  ASSUME NEW n \in Net, NEW f \in Family, NEW ch \in Chain,
         NEW c, c = IpTables(f, "-F", ch), NEW m, Does(n, c, m)
  PROVE  /\ m \in Net /\ Same(n, m, "chain")
         /\ m.chain = [n.chain EXCEPT ![f][ch] = <<>>]
<1> DEFINE v == <<>>
<1>1. m = [n EXCEPT !.chain[f][ch] = v]
  BY DEF Does, Effect, IpTables
<1>2. v \in Seq(Rule)
  OBVIOUS
<1> HIDE DEF v
<1>3. m \in Net /\ Same(n, m, "chain") /\ m.chain = [n.chain EXCEPT ![f][ch] = v]
  BY <1>1, <1>2 DEF Net, Same
<1> QED
  BY <1>3 DEF v

(* iptables -X *)
LEMMA DoDelete ==
  ASSUME NEW n \in Net, NEW f \in Family, NEW ch \in Chain,
         NEW c, c = IpTables(f, "-X", ch), NEW m, Does(n, c, m)
  PROVE  /\ m \in Net /\ Same(n, m, "exists")
         /\ m.exists =
              IF n.chain[f][ch] = <<>> /\ ~Referenced(n, f, ch)
              THEN [n.exists EXCEPT ![f] = @ \ {ch}] ELSE n.exists
<1> DEFINE v == n.exists[f] \ {ch}
           ok == n.chain[f][ch] = <<>> /\ ~Referenced(n, f, ch)
<1>1. m = IF ok THEN [n EXCEPT !.exists[f] = v] ELSE n
  BY DEF Does, Effect, IpTables
<1>2. v \in SUBSET Chain
  BY Parts
<1> HIDE DEF v, ok
<1>3. CASE ok
  <2>1. m = [n EXCEPT !.exists[f] = v]
    BY <1>1, <1>3
  <2>2. m \in Net /\ Same(n, m, "exists") /\ m.exists = [n.exists EXCEPT ![f] = v]
    BY <1>2, <2>1 DEF Net, Same
  <2> QED
    BY <1>3, <2>2 DEF v, ok
<1>4. CASE ~ok
  <2>1. m = n
    BY <1>1, <1>4
  <2> QED
    BY <1>4, <2>1 DEF ok, Same
<1> QED
  BY <1>3, <1>4

(* The lookups and routes of the other family stay. *)
Aside(n, m, f) ==
  \A g \in Family \ {f} : m.rule[g] = n.rule[g] /\ m.route[g] = n.route[g]

(* ip rule delete *)
LEMMA DoRuleDelete ==
  ASSUME NEW n \in Net, NEW f \in Family, NEW e,
         NEW c, c = IpRule(f, "rule delete", e), NEW m, Does(n, c, m)
  PROVE  /\ m \in Net /\ Same(n, m, "rule")
         /\ \A g \in Family : m.rule[g] \subseteq n.rule[g]
         /\ Aside(n, m, f)
         /\ <<e.fwmark, e.table>> \notin m.rule[f]
<1> DEFINE v == n.rule[f] \ {<<e.fwmark, e.table>>}
<1>1. m = [n EXCEPT !.rule[f] = v]
  BY DEF Does, Effect, IpRule
<1>2. v \in Lookups
  <2>1. n.rule[f] \in Lookups
    BY Parts
  <2> QED
    BY <2>1 DEF Lookups
<1> HIDE DEF v
<1>3. m \in Net /\ Same(n, m, "rule") /\ m.rule = [n.rule EXCEPT ![f] = v]
  BY <1>1, <1>2 DEF Net, Same
<1>4. m.rule[f] = v /\ \A g \in Family \ {f} : m.rule[g] = n.rule[g]
  BY <1>3, Parts
<1>5. Aside(n, m, f)
  BY <1>3, <1>4 DEF Aside, Same
<1> QED
  BY <1>3, <1>4, <1>5 DEF v

(* ip route flush *)
LEMMA DoRouteFlush ==
  ASSUME NEW n \in Net, NEW f \in Family, NEW e,
         NEW c, c = IpRoute(f, "route flush", e), NEW m, Does(n, c, m)
  PROVE  /\ m \in Net /\ Same(n, m, "route")
         /\ \A g \in Family : m.route[g] \subseteq n.route[g]
         /\ Aside(n, m, f)
         /\ e.table \notin m.route[f]
<1> DEFINE v == n.route[f] \ {e.table}
<1>1. m = [n EXCEPT !.route[f] = v]
  BY DEF Does, Effect, IpRoute
<1>2. v \in Tables
  <2>1. n.route[f] \in Tables
    BY Parts
  <2> QED
    BY <2>1 DEF Tables
<1> HIDE DEF v
<1>3. m \in Net /\ Same(n, m, "route") /\ m.route = [n.route EXCEPT ![f] = v]
  BY <1>1, <1>2 DEF Net, Same
<1>4. m.route[f] = v /\ \A g \in Family \ {f} : m.route[g] = n.route[g]
  BY <1>3, Parts
<1>5. Aside(n, m, f)
  BY <1>3, <1>4 DEF Aside, Same
<1> QED
  BY <1>3, <1>4, <1>5 DEF v

(* iptables -t nat -D POSTROUTING *)
LEMMA DoUnmasquerade ==
  ASSUME NEW n \in Net, NEW f \in Family,
         NEW c, c = Plain("unmasquerade", f), NEW m, Does(n, c, m)
  PROVE  /\ m \in Net /\ Same(n, m, "nat")
         /\ m.nat = IF n.nat[f] > 0 THEN [n.nat EXCEPT ![f] = @ - 1] ELSE n.nat
<1> DEFINE v == n.nat[f] - 1
           ok == n.nat[f] > 0
<1>1. m = IF ok THEN [n EXCEPT !.nat[f] = v] ELSE n
  BY DEF Does, Effect, Plain
<1>2. CASE ok
  <2>1. v \in Nat
    <3>1. n.nat[f] \in Nat
      BY Parts
    <3> QED
      BY <1>2, <3>1
  <2>2. m = [n EXCEPT !.nat[f] = v]
    BY <1>1, <1>2
  <2> HIDE DEF v, ok
  <2>3. m \in Net /\ Same(n, m, "nat") /\ m.nat = [n.nat EXCEPT ![f] = v]
    BY <2>1, <2>2 DEF Net, Same
  <2> QED
    BY <1>2, <2>3 DEF v, ok
<1>3. CASE ~ok
  <2>1. m = n
    BY <1>1, <1>3
  <2> QED
    BY <1>3, <2>1 DEF Same
<1> QED
  BY <1>2, <1>3

(* umount *)
LEMMA DoUmount ==
  ASSUME NEW n \in Net, NEW c, c = Plain("umount", "v4"),
         NEW m, Does(n, c, m)
  PROVE  m \in Net /\ Same(n, m, "mounted") /\ m.mounted = FALSE
<1>1. m = [n EXCEPT !.mounted = FALSE]
  BY DEF Does, Effect, Plain
<1> QED
  BY <1>1 DEF Net, Same

(* What a command of a stop may change for a family: it takes away. *)
Removes(n, m, c, f) ==
  /\ m.exists[f] \subseteq n.exists[f]
  /\ \A ch \in n.exists[f] \ m.exists[f] : c = IpTables(f, "-X", ch)
  /\ \A ch \in Chain : m.chain[f][ch] = n.chain[f][ch] \/ m.chain[f][ch] = <<>>
  /\ \A h \in Hook : m.hook[f][h] <= n.hook[f][h]
  /\ m.nat[f] <= n.nat[f]
  /\ m.rule[f] \subseteq n.rule[f] /\ m.route[f] \subseteq n.route[f]

(* Where nothing of a family changes, nothing is added. *)
LEMMA StaysRemoves ==
  ASSUME NEW n \in Net, NEW m, NEW c, NEW f \in Family,
         m.exists[f] = n.exists[f], m.chain[f] = n.chain[f],
         m.hook[f] = n.hook[f], m.nat[f] = n.nat[f],
         m.rule[f] = n.rule[f], m.route[f] = n.route[f]
  PROVE  Removes(n, m, c, f)
<1>1. n.nat[f] \in Nat /\ \A h \in Hook : n.hook[f][h] \in Nat
  BY Parts
<1>2. /\ \A h \in Hook : m.hook[f][h] <= n.hook[f][h]
      /\ m.nat[f] <= n.nat[f]
  BY <1>1
<1> QED
  BY <1>2 DEF Removes

(* And so it does. *)
LEMMA StopRemoves ==
  ASSUME NEW n \in Net, NEW e, NEW c \in Undo(e), NEW m, Does(n, c, m)
  PROVE  /\ m \in Net /\ (m.mounted => n.mounted)
         /\ \A f \in Family : Removes(n, m, c, f)
<1>0. /\ \A f \in Family : n.nat[f] \in Nat /\ \A h \in Hook : n.hook[f][h] \in Nat
      /\ n.chain \in [Family -> [Chain -> Seq(Rule)]]
      /\ n.exists \in [Family -> SUBSET Chain]
      /\ n.hook \in [Family -> [Hook -> Nat]] /\ n.nat \in [Family -> Nat]
  BY Parts
<1>1. ASSUME NEW g \in Family, NEW h \in Hook, c = HookCmd(g, "unhook", h)
      PROVE  /\ m \in Net /\ (m.mounted => n.mounted)
             /\ \A f \in Family : Removes(n, m, c, f)
  <2>1. /\ m \in Net /\ Same(n, m, "hook")
        /\ m.hook = IF n.hook[g][h] > 0
                    THEN [n.hook EXCEPT ![g][h] = @ - 1] ELSE n.hook
    BY <1>1, DoUnhook
  <2>2. \A f \in Family : \A k \in Hook : m.hook[f][k] <= n.hook[f][k]
    <3>1. CASE n.hook[g][h] > 0
      <4>1. m.hook = [n.hook EXCEPT ![g][h] = @ - 1]
        BY <2>1, <3>1
      <4> QED
        BY <1>0, <1>1, <4>1
    <3>2. CASE ~(n.hook[g][h] > 0)
      BY <1>0, <2>1, <3>2
    <3> QED
      BY <3>1, <3>2
  <2>3. \A f \in Family : m.nat[f] <= n.nat[f]
    BY <1>0, <2>1 DEF Same
  <2> QED
    BY <2>1, <2>2, <2>3 DEF Removes, Same
<1>2. ASSUME NEW g \in Family, NEW ch \in Chain, c = IpTables(g, "-F", ch)
      PROVE  /\ m \in Net /\ (m.mounted => n.mounted)
             /\ \A f \in Family : Removes(n, m, c, f)
  <2>1. /\ m \in Net /\ Same(n, m, "chain")
        /\ m.chain = [n.chain EXCEPT ![g][ch] = <<>>]
    BY <1>2, DoFlush
  <2>2. \A f \in Family, x \in Chain :
          m.chain[f][x] = n.chain[f][x] \/ m.chain[f][x] = <<>>
    BY <1>0, <1>2, <2>1
  <2>3. \A f \in Family : /\ m.nat[f] <= n.nat[f]
                           /\ \A h \in Hook : m.hook[f][h] <= n.hook[f][h]
    BY <1>0, <2>1 DEF Same
  <2> QED
    BY <2>1, <2>2, <2>3 DEF Removes, Same
<1>3. ASSUME NEW g \in Family, NEW ch \in Chain, c = IpTables(g, "-X", ch)
      PROVE  /\ m \in Net /\ (m.mounted => n.mounted)
             /\ \A f \in Family : Removes(n, m, c, f)
  <2> DEFINE ok == n.chain[g][ch] = <<>> /\ ~Referenced(n, g, ch)
  <2>1. /\ m \in Net /\ Same(n, m, "exists")
        /\ m.exists = IF ok THEN [n.exists EXCEPT ![g] = @ \ {ch}] ELSE n.exists
    BY <1>3, DoDelete
  <2> HIDE DEF ok
  <2>2. \A f \in Family : /\ m.exists[f] \subseteq n.exists[f]
                           /\ \A x \in n.exists[f] \ m.exists[f] : f = g /\ x = ch
    BY <1>0, <1>3, <2>1
  <2>3. \A f \in Family : /\ m.nat[f] <= n.nat[f]
                           /\ \A h \in Hook : m.hook[f][h] <= n.hook[f][h]
    BY <1>0, <2>1 DEF Same
  <2> QED
    BY <1>3, <2>1, <2>2, <2>3 DEF Removes, Same
<1>4. ASSUME NEW g \in Family, c = IpRule(g, "rule delete", e)
      PROVE  /\ m \in Net /\ (m.mounted => n.mounted)
             /\ \A f \in Family : Removes(n, m, c, f)
  <2>1. /\ m \in Net /\ Same(n, m, "rule")
        /\ \A f \in Family : m.rule[f] \subseteq n.rule[f]
    BY <1>4, DoRuleDelete
  <2>2. \A f \in Family : /\ m.nat[f] <= n.nat[f]
                           /\ \A h \in Hook : m.hook[f][h] <= n.hook[f][h]
    BY <1>0, <2>1 DEF Same
  <2> QED
    BY <2>1, <2>2 DEF Removes, Same
<1>5. ASSUME NEW g \in Family, c = IpRoute(g, "route flush", e)
      PROVE  /\ m \in Net /\ (m.mounted => n.mounted)
             /\ \A f \in Family : Removes(n, m, c, f)
  <2>1. /\ m \in Net /\ Same(n, m, "route")
        /\ \A f \in Family : m.route[f] \subseteq n.route[f]
    BY <1>5, DoRouteFlush
  <2>2. \A f \in Family : /\ m.nat[f] <= n.nat[f]
                           /\ \A h \in Hook : m.hook[f][h] <= n.hook[f][h]
    BY <1>0, <2>1 DEF Same
  <2> QED
    BY <2>1, <2>2 DEF Removes, Same
<1>6. ASSUME NEW g \in Family, c = Plain("unmasquerade", g)
      PROVE  /\ m \in Net /\ (m.mounted => n.mounted)
             /\ \A f \in Family : Removes(n, m, c, f)
  <2>1. /\ m \in Net /\ Same(n, m, "nat")
        /\ m.nat = IF n.nat[g] > 0 THEN [n.nat EXCEPT ![g] = @ - 1] ELSE n.nat
    BY <1>6, DoUnmasquerade
  <2>2. \A f \in Family : m.nat[f] <= n.nat[f]
    BY <1>0, <1>6, <2>1
  <2>3. \A f \in Family : \A h \in Hook : m.hook[f][h] <= n.hook[f][h]
    BY <1>0, <2>1 DEF Same
  <2> QED
    BY <2>1, <2>2, <2>3 DEF Removes, Same
<1>7. CASE c = Plain("umount", "v4")
  <2>1. m \in Net /\ Same(n, m, "mounted") /\ m.mounted = FALSE
    BY <1>7, DoUmount
  <2> QED
    BY <2>1, StaysRemoves DEF Same
<1>8. \/ \E f \in Family : \E h \in Hook : c = HookCmd(f, "unhook", h)
      \/ \E f \in Family : \E ch \in Chain : c = IpTables(f, "-F", ch)
      \/ \E f \in Family : \E ch \in Chain : c = IpTables(f, "-X", ch)
      \/ \E f \in Family : c = IpRule(f, "rule delete", e)
      \/ \E f \in Family : c = IpRoute(f, "route flush", e)
      \/ \E f \in Family : c = Plain("unmasquerade", f)
      \/ c = Plain("umount", "v4")
  <2>1. CASE c \in UndoOf("v4", e)
    BY <2>1 DEF UndoOf, Deletes, Family
  <2>2. CASE c \in UndoOf("v6", e)
    BY <2>2 DEF UndoOf, Deletes, Family
  <2> QED
    BY <2>1, <2>2 DEF Undo
<1> QED
  BY <1>1, <1>2, <1>3, <1>4, <1>5, <1>6, <1>7, <1>8

-----------------------------------------------------------------------------
(* The script without arguments, piece by piece. *)

(* A list of one command. *)
LEMMA Single ==
  ASSUME NEW S, NEW x \in S
  PROVE  /\ <<x>> \in Seq(S) /\ Entries(<<x>>) = {x}
         /\ \A c : Once(<<x>>, c)
<1>1. <<x>> \in Seq(S) /\ Len(<<x>>) = 1 /\ <<x>>[1] = x
  OBVIOUS
<1>2. 1..1 = {1}
  OBVIOUS
<1> QED
  BY <1>1, <1>2 DEF Entries, Once

(* What is in one of two lists that follow each other, or in neither. *)
LEMMA InConcat ==
  ASSUME NEW S, NEW s \in Seq(S), NEW t \in Seq(S)
  PROVE  \A x : x \in Entries(s \o t) <=> x \in Entries(s) \/ x \in Entries(t)
<1>1. Entries(s \o t) = Entries(s) \cup Entries(t)
  BY EntriesConcat
<1> QED
  BY <1>1

(* A list that may be left out. *)
LEMMA WhenIn ==
  ASSUME NEW S, NEW s \in Seq(S), NEW b
  PROVE  When(b, s) \in Seq(S)
BY DEF When

(* A list of commands of some kind is one of any wider kind. *)
LEMMA Widen ==
  ASSUME NEW S, NEW T, S \subseteq T, NEW s \in Seq(S)
  PROVE  s \in Seq(T) /\ Entries(s) \subseteq S
BY DEF Entries

(* A rule of another chain than TPROXY_OUT is calm. *)
LEMMA ACalm ==
  ASSUME NEW f \in Family, NEW e \in Environment,
         NEW ch \in Chain \ {"TPROXY_OUT"}, NEW m \in Match, NEW j \in Target
  PROVE  A(f, e, ch, m, j) \in Seq(Calm(f, e))
<1> DEFINE r == [m |-> m, path |-> <<>>, j |-> j, mark |-> e.fwmark]
           c == [op |-> "-A", fam |-> f, chain |-> ch, rule |-> r]
<1>1. e.fwmark \in Nat /\ <<>> \in Path
  BY DEF Environment, Path
<1>2. r \in Rule
  BY <1>1 DEF Rule, RuleOf
<1> HIDE DEF r
<1>3. c \in AppendTo(f, Chain \ {"TPROXY_OUT"}, Rule)
  BY <1>2 DEF AppendTo
<1> HIDE DEF c
<1>4. c \in Calm(f, e)
  BY <1>3 DEF Calm
<1>5. A(f, e, ch, m, j) = <<c>>
  BY DEF A, c, r
<1> QED
  BY <1>4, <1>5, Single

(* So is a new chain, and so are the lookup and the route. *)
LEMMA NewCalm ==
  ASSUME NEW f \in Family, NEW e \in Environment, NEW ch \in Chain
  PROVE  /\ <<IpTables(f, "-N", ch)>> \in Seq(Calm(f, e))
         /\ <<IpRule(f, "rule add", e), IpRoute(f, "route add", e)>>
              \in Seq(Calm(f, e))
<1>1. IpTables(f, "-N", ch) \in Calm(f, e)
  BY DEF Calm
<1>2. IpRule(f, "rule add", e) \in Calm(f, e) /\ IpRoute(f, "route add", e) \in Calm(f, e)
  BY DEF Calm
<1>3. \A S : \A x, y \in S : <<x>> \in Seq(S) /\ <<x, y>> \in Seq(S)
  OBVIOUS
<1> QED
  BY <1>1, <1>2, <1>3

(* What is calm hooks nothing, adds nothing to TPROXY_OUT, and is neither  *)
(* the mount, nor about a gateway, nor the check of a stop.                *)
LEMMA CalmApart ==
  ASSUME NEW f \in Family, NEW e \in Environment, NEW c \in Calm(f, e)
  PROVE  /\ \A g : c \notin AppendOut(g, Rule)
         /\ c.op \notin {"hook", "masquerade", "mount", "sysctl", "guard"} /\ c.fam = f
<1>1. CASE c \in AppendTo(f, Chain \ {"TPROXY_OUT"}, Rule)
  BY <1>1 DEF AppendOut, AppendTo
<1>2. ASSUME NEW ch \in Chain, c = IpTables(f, "-N", ch)
      PROVE  c.op = "-N" /\ c.fam = f
  BY <1>2 DEF IpTables
<1>3. CASE c = IpRule(f, "rule add", e)
  BY <1>3 DEF AppendOut, AppendTo, IpRule
<1>4. CASE c = IpRoute(f, "route add", e)
  BY <1>4 DEF AppendOut, AppendTo, IpRoute
<1>5. CASE \E ch \in Chain : c = IpTables(f, "-N", ch)
  <2>1. c.op = "-N" /\ c.fam = f
    BY <1>2, <1>5
  <2> QED
    BY <2>1 DEF AppendOut, AppendTo
<1> QED
  BY <1>1, <1>3, <1>4, <1>5 DEF Calm

(* TPROXY_ENT is set up calmly, and made first. *)
LEMMA EntCalm ==
  ASSUME NEW f \in Family, NEW e \in Environment
  PROVE  /\ StartEnt(f, e) \in Seq(Calm(f, e))
         /\ IpTables(f, "-N", "TPROXY_ENT") \in Entries(StartEnt(f, e))
<1> DEFINE S == Calm(f, e)
           x == IpTables(f, "-N", "TPROXY_ENT")
           y == <<x>>
           a == A(f, e, "TPROXY_ENT", "socket", "MARK")
           b == A(f, e, "TPROXY_ENT", "socket", "ACCEPT")
           c == A(f, e, "TPROXY_ENT", "tcp", "TPROXY")
           d == A(f, e, "TPROXY_ENT", "udp", "TPROXY")
           p == y \o a
           q == p \o b
           r == q \o c
<1>1. a \in Seq(S) /\ b \in Seq(S) /\ c \in Seq(S) /\ d \in Seq(S)
  <2>1. "TPROXY_ENT" \in Chain \ {"TPROXY_OUT"} /\ {"socket", "tcp", "udp"} \subseteq Match
        /\ {"MARK", "ACCEPT", "TPROXY"} \subseteq Target
    BY DEF Chain, Match, Target
  <2> QED
    BY <2>1, ACalm
<1>2. y \in Seq(S) /\ x \in Entries(y)
  <2>1. x \in S
    BY DEF Calm, Chain
  <2> QED
    BY <2>1, Single
<1>3. StartEnt(f, e) = r \o d
  BY DEF StartEnt
<1> HIDE DEF S, x, y, a, b, c, d, p, q, r
<1>4. p \in Seq(S) /\ x \in Entries(p)
  BY <1>1, <1>2, InConcat DEF p
<1>5. q \in Seq(S) /\ x \in Entries(q)
  BY <1>1, <1>4, InConcat DEF q
<1>6. r \in Seq(S) /\ x \in Entries(r)
  BY <1>1, <1>5, InConcat DEF r
<1>7. StartEnt(f, e) \in Seq(S) /\ x \in Entries(StartEnt(f, e))
  BY <1>1, <1>3, <1>6, InConcat
<1> QED
  BY <1>7 DEF S, x

(* TPROXY_MARK is set up calmly. *)
LEMMA MarkCalm ==
  ASSUME NEW f \in Family, NEW e \in Environment
  PROVE  StartMark(f, e) \in Seq(Calm(f, e))
<1> DEFINE S == Calm(f, e)
           x == <<IpTables(f, "-N", "TPROXY_MARK")>>
           a == A(f, e, "TPROXY_MARK", "notunicast", "RETURN")
           b == When(e.enable_dns, A(f, e, "TPROXY_MARK", "dns", "MARK"))
           c == When(e.enable_udp, A(f, e, "TPROXY_MARK", "udp", "MARK"))
           d == When(e.enable_tcp, A(f, e, "TPROXY_MARK", "tcp", "MARK"))
<1>1. a \in Seq(S) /\ b \in Seq(S) /\ c \in Seq(S) /\ d \in Seq(S)
  <2>1. "TPROXY_MARK" \in Chain \ {"TPROXY_OUT"} /\ {"notunicast", "dns", "tcp", "udp"} \subseteq Match
        /\ {"MARK", "RETURN"} \subseteq Target
    BY DEF Chain, Match, Target
  <2> QED
    BY <2>1, ACalm, WhenIn
<1>2. x \in Seq(S)
  BY NewCalm DEF Chain
<1>3. StartMark(f, e) = (((x \o a) \o b) \o c) \o d
  BY DEF StartMark
<1> HIDE DEF S, x, a, b, c, d
<1> QED
  BY <1>1, <1>2, <1>3 DEF S

(* TPROXY_PRE is set up calmly, and then hooked, once. *)
LEMMA PreFacts ==
  ASSUME NEW f \in Family, NEW e \in Environment, NEW hook,
         hook = HookCmd(f, "hook", "PREROUTING")
  PROVE  \E q \in Seq(Calm(f, e)) : StartPre(f, e) = q \o <<hook>>
<1> DEFINE S == Calm(f, e)
           x == <<IpTables(f, "-N", "TPROXY_PRE")>>
           a == A(f, e, "TPROXY_PRE", "dstlocal", "RETURN")
           b == A(f, e, "TPROXY_PRE", "notunicast", "RETURN")
           t == When(TurnsAway(e), A(f, e, "TPROXY_PRE", "srcremote", "RETURN"))
           c == When(e.enable_dns, A(f, e, "TPROXY_PRE", "dns", "TPROXY_ENT"))
           d == When(e.enable_udp, A(f, e, "TPROXY_PRE", "udp", "TPROXY_ENT"))
           u == When(e.enable_tcp, A(f, e, "TPROXY_PRE", "tcp", "TPROXY_ENT"))
           q == (((((x \o a) \o b) \o t) \o c) \o d) \o u
<1>1. /\ a \in Seq(S) /\ b \in Seq(S) /\ t \in Seq(S)
      /\ c \in Seq(S) /\ d \in Seq(S) /\ u \in Seq(S)
  <2>1. /\ "TPROXY_PRE" \in Chain \ {"TPROXY_OUT"}
        /\ {"dstlocal", "notunicast", "srcremote", "dns", "tcp", "udp"} \subseteq Match
        /\ {"RETURN", "TPROXY_ENT"} \subseteq Target
    BY DEF Chain, Match, Target
  <2>2. \A m \in Match, j \in Target : A(f, e, "TPROXY_PRE", m, j) \in Seq(S)
    BY <2>1, ACalm
  <2> HIDE DEF S
  <2> QED
    BY <2>1, <2>2, WhenIn
<1>2. x \in Seq(S)
  BY NewCalm DEF Chain
<1>3. StartPre(f, e) = q \o <<hook>>
  BY DEF StartPre
<1> HIDE DEF S, x, a, b, t, c, d, u
<1>4. q \in Seq(S)
  BY <1>1, <1>2
<1> QED
  BY <1>3, <1>4 DEF S

(* The rules for cgroups, of which one is for each that exists. *)
LEMMA CgroupRules ==
  ASSUME NEW f \in Family, NEW e \in Environment, NEW cgs \in Seq(Path),
         NEW j \in {"RETURN", "TPROXY_MARK"}, NEW l, l = ACgroups(f, e, cgs, j)
  PROVE  /\ l \in Seq(AppendOut(f, RuleOf({"cgroup"}, Path, {j})))
         /\ \A cg \in Range(cgs) \cap Existing :
              Entries(l) \cap AppendOut(f, RuleOf({"cgroup"}, {cg}, {j})) # {}
<1> DEFINE X == Range(cgs) \ Existing
           kept == Without(cgs, X)
           cmd(cg) == [op |-> "-A", fam |-> f, chain |-> "TPROXY_OUT",
                       rule |-> [m |-> "cgroup", path |-> cg, j |-> j,
                                 mark |-> e.fwmark]]
<1>1. l = [i \in DOMAIN kept |-> cmd(kept[i])]
  BY DEF ACgroups
<1>2. kept \in Seq(Path \ X)
  BY WithoutClean
<1>3. \A paths : \A cg \in paths : cmd(cg) \in AppendOut(f, RuleOf({"cgroup"}, paths, {j}))
  <2>1. e.fwmark \in Nat
    BY DEF Environment
  <2> QED
    BY <2>1 DEF AppendOut, AppendTo, RuleOf
<1>4. ASSUME NEW cg \in Range(cgs) \cap Existing
      PROVE  \E k \in 1..Len(kept) : kept[k] = cg
  <2>1. PICK i \in 1..Len(cgs) : cgs[i] = cg
    BY DEF Range
  <2>2. cgs[i] \notin X
    BY <2>1
  <2> HIDE DEF X
  <2> QED
    BY <2>1, <2>2, WithoutKeeps
<1> HIDE DEF X, kept, cmd
<1>5. DOMAIN kept = 1..Len(kept) /\ Len(kept) \in Nat /\ \A i \in 1..Len(kept) : kept[i] \in Path
  BY <1>2
<1>6. l = [i \in 1..Len(kept) |-> cmd(kept[i])]
  BY <1>1, <1>5
<1> DEFINE S == AppendOut(f, RuleOf({"cgroup"}, Path, {j}))
<1>7. \A i \in 1..Len(kept) : cmd(kept[i]) \in S
  BY <1>3, <1>5
<1> HIDE DEF S
<1>8. l \in Seq(S) /\ Len(l) = Len(kept)
  BY <1>5, <1>6, <1>7
<1>9. ASSUME NEW cg \in Range(cgs) \cap Existing
      PROVE  Entries(l) \cap AppendOut(f, RuleOf({"cgroup"}, {cg}, {j})) # {}
  <2>1. PICK k \in 1..Len(kept) : kept[k] = cg
    BY <1>4
  <2>2. l[k] = cmd(cg) /\ k \in 1..Len(l)
    BY <1>6, <1>8, <2>1
  <2>3. l[k] \in Entries(l)
    BY <2>2 DEF Entries
  <2>4. l[k] \in AppendOut(f, RuleOf({"cgroup"}, {cg}, {j}))
    BY <1>3, <2>2
  <2> QED
    BY <2>3, <2>4
<1> QED
  BY <1>8, <1>9 DEF S

(* How TPROXY_OUT is set up: it is made first, and the rule for            *)
(* /noproxy.slice comes before any that jumps to the marking.              *)
OutOrder(s, f) ==
  /\ Before(s, AppendOut(f, Sparing), AppendOut(f, Marking))
  /\ Before(s, {IpTables(f, "-N", "TPROXY_OUT")}, AppendOut(f, Sparing))

(* Commands that add to TPROXY_OUT. *)
LEMMA OutKinds ==
  ASSUME NEW f \in Family, NEW c
  PROVE  /\ c \in AppendOut(f, Returning) => c \notin AppendOut(f, Marking)
         /\ c \in AppendOut(f, Sparing) => c \in AppendOut(f, Returning)
         /\ \A rules : c \in AppendOut(f, rules) => c.op = "-A" /\ c.fam = f
         /\ c \in AppendOut(f, Marking \cup Returning) => c \in AppendOut(f, Rule)
<1>1. Returning \cap Marking = {}
  BY DEF Returning, Marking, RuleOf
<1>2. Sparing \subseteq Returning
  <2>1. Preserved["noproxy"] \in Path
    <3>1. PICK e \in Config : TRUE
      BY TproxyAssumption
    <3>2. e.cgroup_noproxy \in Seq(Path)
      BY TproxyAssumption DEF Environment, Path
    <3>3. PICK i \in 1..Len(e.cgroup_noproxy) : e.cgroup_noproxy[i] = Preserved["noproxy"]
      BY <3>2, TproxyAssumption DEF Range
    <3> QED
      BY <3>2, <3>3
  <2>2. "cgroup" \in Match
    BY DEF Match
  <2> QED
    BY <2>1, <2>2 DEF Sparing, Returning, RuleOf
<1>3. Marking \cup Returning \subseteq Rule
  BY DEF Marking, Returning, Rule, RuleOf, Target, Chain
<1>4. \A rules : c \in AppendOut(f, rules) => c.op = "-A" /\ c.fam = f /\ c.rule \in rules
  BY DEF AppendOut, AppendTo
<1>5. \A R, T : R \subseteq T /\ c \in AppendOut(f, R) => c \in AppendOut(f, T)
  BY DEF AppendOut, AppendTo
<1> QED
  BY <1>1, <1>2, <1>3, <1>4, <1>5

(* A hook is no rule and makes no chain. *)
LEMMA HookApart ==
  ASSUME NEW f, NEW g, NEW h, NEW c, c = HookCmd(f, "hook", h)
  PROVE  /\ \A rules : c \notin AppendOut(g, rules)
         /\ \A ch : c # IpTables(g, "-N", ch)
         /\ c.op = "hook" /\ c.fam = f /\ c.hook = h
BY DEF HookCmd, AppendOut, AppendTo, IpTables

(* So TPROXY_OUT is set up, and hooked after that. *)
LEMMA OutFacts ==
  ASSUME NEW f \in Family, NEW e \in Config
  PROVE  /\ StartOut(f, e) \in Seq(StartOf(f, e))
         /\ OutOrder(StartOut(f, e), f)
         /\ Once(StartOut(f, e), HookCmd(f, "hook", "OUTPUT"))
         /\ HookCmd(f, "hook", "PREROUTING") \notin Entries(StartOut(f, e))
<1> DEFINE S == StartOf(f, e)
           Sp == AppendOut(f, Sparing)
           Mk == AppendOut(f, Marking)
           Rt == AppendOut(f, Returning)
           x == IpTables(f, "-N", "TPROXY_OUT")
           pre == HookCmd(f, "hook", "PREROUTING")
           out == HookCmd(f, "hook", "OUTPUT")
           y == <<x>>
           a == A(f, e, "TPROXY_OUT", "reply", "RETURN")
           b == ACgroups(f, e, e.cgroup_noproxy, "RETURN")
           c == ACgroups(f, e, e.cgroup_proxy, "TPROXY_MARK")
           z == <<out>>
           d == When(e.enable_ip[f], z)
           p == y \o a
           q == b \o c
           r == p \o q
<1>1. e \in Environment
  BY TproxyAssumption
<1>2. StartOut(f, e) = r \o d
  BY DEF StartOut, OutCgroups
<1>3. x \in S /\ out \in S /\ Rt \subseteq S /\ Mk \subseteq S
  <2>1. x \in Calm(f, e) /\ out \in {HookCmd(f, "hook", h) : h \in Hook}
    BY DEF Calm, Chain, Hook, HookOf
  <2>2. Rt \subseteq AppendOut(f, Marking \cup Returning)
    BY DEF AppendOut, AppendTo
  <2>3. Mk \subseteq AppendOut(f, Marking \cup Returning)
    BY DEF AppendOut, AppendTo
  <2> HIDE DEF x, out, Rt, Mk
  <2> QED
    BY <2>1, <2>2, <2>3 DEF StartOf
<1>4. a \in Seq(Rt)
  <2> DEFINE k == [m |-> "reply", path |-> <<>>, j |-> "RETURN", mark |-> e.fwmark]
             w == [op |-> "-A", fam |-> f, chain |-> "TPROXY_OUT", rule |-> k]
  <2>1. k \in Returning
    BY <1>1 DEF Returning, RuleOf, Environment, Path, Match
  <2>2. a = <<w>>
    BY DEF A
  <2> HIDE DEF k
  <2>3. w \in Rt
    BY <2>1 DEF AppendOut, AppendTo
  <2> HIDE DEF w, a, Rt
  <2> QED
    BY <2>2, <2>3, Single
<1>5. b \in Seq(Rt) /\ Entries(b) \cap Sp # {}
  <2>1. e.cgroup_noproxy \in Seq(Path)
    BY <1>1 DEF Environment, Path
  <2>2. Preserved["noproxy"] \in Range(e.cgroup_noproxy) \cap Existing
    BY TproxyAssumption DEF Dir
  <2>3. /\ b \in Seq(AppendOut(f, RuleOf({"cgroup"}, Path, {"RETURN"})))
        /\ Entries(b) \cap AppendOut(f, RuleOf({"cgroup"}, {Preserved["noproxy"]}, {"RETURN"})) # {}
    BY <1>1, <2>1, <2>2, CgroupRules
  <2>4. AppendOut(f, RuleOf({"cgroup"}, Path, {"RETURN"})) \subseteq Rt
    BY DEF AppendOut, AppendTo, RuleOf, Returning, Match
  <2>5. Entries(b) \cap Sp # {}
    BY <2>3 DEF Sparing
  <2> HIDE DEF b, Rt, Sp
  <2> QED
    BY <2>3, <2>4, <2>5, Widen
<1>6. c \in Seq(Mk)
  <2>1. e.cgroup_proxy \in Seq(Path)
    BY <1>1 DEF Environment, Path
  <2>2. c \in Seq(AppendOut(f, RuleOf({"cgroup"}, Path, {"TPROXY_MARK"})))
    BY <1>1, <2>1, CgroupRules
  <2>3. AppendOut(f, RuleOf({"cgroup"}, Path, {"TPROXY_MARK"})) \subseteq Mk
    BY DEF AppendOut, AppendTo, RuleOf, Marking, Match
  <2> HIDE DEF c, Mk
  <2> QED
    BY <2>2, <2>3, Widen
<1>7. /\ \A w \in Rt : w \notin Mk /\ w # out /\ w # pre
      /\ \A w \in Mk : w \notin Sp /\ w # out /\ w # pre
      /\ x \notin Sp /\ x \notin Mk /\ x # out /\ x # pre
      /\ out \notin Sp /\ out \notin Mk /\ out # pre
  <2>1. \A w : (w \in Rt => w \notin Mk) /\ (w \in Sp => w \in Rt)
    BY OutKinds
  <2>2. out \notin Sp /\ out \notin Mk /\ out \notin Rt /\ out # x /\ out.hook = "OUTPUT"
    BY HookApart
  <2>3. pre \notin Sp /\ pre \notin Mk /\ pre \notin Rt /\ pre # x /\ pre.hook = "PREROUTING"
    BY HookApart
  <2>4. x \notin Sp /\ x \notin Mk
    BY DEF IpTables, AppendOut, AppendTo
  <2> HIDE DEF x, out, pre, Sp, Mk, Rt
  <2> QED
    BY <2>1, <2>2, <2>3, <2>4
<1> HIDE DEF S, Sp, Mk, Rt, x, pre, out, y, a, b, c, d, p, q, r, z
<1>8. y \in Seq(S) /\ Entries(y) = {x}
  BY <1>3, Single DEF y
<1>9. a \in Seq(S) /\ Entries(a) \subseteq Rt
  BY <1>3, <1>4, Widen
<1>10. b \in Seq(S) /\ Entries(b) \subseteq Rt
  BY <1>3, <1>5, Widen
<1>11. c \in Seq(S) /\ Entries(c) \subseteq Mk
  BY <1>3, <1>6, Widen
<1>12. d \in Seq(S) /\ Entries(d) \subseteq {out} /\ Once(d, out)
  <2>1. z \in Seq(S) /\ Entries(z) = {out} /\ Once(z, out)
    BY <1>3, Single DEF z
  <2>2. <<>> \in Seq(S) /\ Entries(<<>>) = {} /\ Once(<<>>, out)
    BY DEF Entries, Once
  <2> QED
    BY <2>1, <2>2 DEF d, When
<1>13. p \in Seq(S) /\ \A w : w \in Entries(p) <=> w \in Entries(y) \/ w \in Entries(a)
  BY <1>8, <1>9, InConcat DEF p
<1>14. q \in Seq(S) /\ \A w : w \in Entries(q) <=> w \in Entries(b) \/ w \in Entries(c)
  BY <1>10, <1>11, InConcat DEF q
<1>15. r \in Seq(S) /\ \A w : w \in Entries(r) <=> w \in Entries(p) \/ w \in Entries(q)
  BY <1>13, <1>14, InConcat DEF r
<1>16. /\ r \o d \in Seq(S)
       /\ \A w : w \in Entries(r \o d) <=> w \in Entries(r) \/ w \in Entries(d)
  BY <1>12, <1>15, InConcat
<1>17. Before(r \o d, Sp, Mk)
  <2>1. Before(p, Sp, Mk)
    BY <1>7, <1>8, <1>9, <1>13, BeforeNone
  <2>2. Before(b, Sp, Mk)
    BY <1>7, <1>10, BeforeNone
  <2>3. Before(q, Sp, Mk)
    BY <1>5, <1>10, <1>11, <2>2, BeforeConcat DEF q
  <2>4. Before(r, Sp, Mk)
    BY <1>13, <1>14, <2>1, <2>3, BeforeConcat DEF r
  <2>5. Before(d, Sp, Mk)
    BY <1>7, <1>12, BeforeNone
  <2> QED
    BY <1>12, <1>15, <2>4, <2>5, BeforeConcat
<1>18. Before(r \o d, {x}, Sp)
  <2>1. Before(y, {x}, Sp) /\ Entries(y) \cap {x} # {}
    BY <1>7, <1>8, BeforeNone
  <2>2. Before(p, {x}, Sp) /\ Entries(p) \cap {x} # {}
    BY <1>8, <1>9, <1>13, <2>1, BeforeConcat DEF p
  <2>3. Before(r, {x}, Sp) /\ Entries(r) \cap {x} # {}
    BY <1>13, <1>14, <1>15, <2>2, BeforeConcat DEF r
  <2> QED
    BY <1>12, <1>15, <2>3, BeforeConcat
<1>19. out \notin Entries(r)
  BY <1>7, <1>8, <1>9, <1>10, <1>11, <1>13, <1>14, <1>15
<1>20. Once(r \o d, out)
  BY <1>12, <1>15, <1>19, OnceConcat
<1>21. pre \notin Entries(r \o d)
  BY <1>7, <1>8, <1>9, <1>10, <1>11, <1>12, <1>13, <1>14, <1>15, <1>16
<1> QED
  BY <1>2, <1>16, <1>17, <1>18, <1>20, <1>21 DEF OutOrder, S, Sp, Mk, x, out, pre

(* What a family is set up with: TPROXY_ENT comes before the hooks, and    *)
(* each hook is set once.                                                  *)
HookOrder(s, f) ==
  \A h \in Hook : /\ Once(s, HookCmd(f, "hook", h))
                  /\ Before(s, {IpTables(f, "-N", "TPROXY_ENT")},
                               {HookCmd(f, "hook", h)})

(* How StartFamily() sets it up. *)
LEMMA FamilyFacts ==
  ASSUME NEW f \in Family, NEW e \in Config
  PROVE  /\ StartFamily(f, e) \in Seq(StartOf(f, e))
         /\ OutOrder(StartFamily(f, e), f) /\ HookOrder(StartFamily(f, e), f)
         /\ IpTables(f, "-N", "TPROXY_ENT") \in Entries(StartFamily(f, e))
<1> DEFINE S == StartOf(f, e)
           C == Calm(f, e)
           Sp == AppendOut(f, Sparing)
           Mk == AppendOut(f, Marking)
           x == IpTables(f, "-N", "TPROXY_ENT")
           n == IpTables(f, "-N", "TPROXY_OUT")
           hp == HookCmd(f, "hook", "PREROUTING")
           ho == HookCmd(f, "hook", "OUTPUT")
           k == <<IpRule(f, "rule add", e), IpRoute(f, "route add", e)>>
           a == StartEnt(f, e)
           b == StartPre(f, e)
           c == StartMark(f, e)
           d == StartOut(f, e)
           z == <<hp>>
           p == k \o a
           q == p \o b
           r == q \o c
<1>1. e \in Environment
  BY TproxyAssumption
<1>2. StartFamily(f, e) = r \o d
  BY DEF StartFamily
<1>3. C \subseteq S /\ hp \in S
  <2>1. hp \in {HookCmd(f, "hook", h) : h \in Hook}
    BY DEF Hook, HookOf
  <2> HIDE DEF hp
  <2> QED
    BY <2>1 DEF StartOf
<1>4. \A w \in C : w \notin Sp /\ w \notin Mk /\ w # hp /\ w # ho
  <2>1. \A w \in C : w \notin AppendOut(f, Rule) /\ w.op # "hook"
    BY <1>1, CalmApart
  <2>2. hp.op = "hook" /\ ho.op = "hook"
    BY HookApart
  <2>3. \A w : w \in Sp \/ w \in Mk => w \in AppendOut(f, Rule)
    <3>1. \A w : w \in Sp => w \in AppendOut(f, Returning)
      BY OutKinds
    <3>2. \A w : w \in AppendOut(f, Returning) \/ w \in Mk => w \in AppendOut(f, Marking \cup Returning)
      BY DEF AppendOut, AppendTo
    <3>3. \A w : w \in AppendOut(f, Marking \cup Returning) => w \in AppendOut(f, Rule)
      BY OutKinds
    <3> QED
      BY <3>1, <3>2, <3>3
  <2> HIDE DEF C, hp, ho, Sp, Mk
  <2> QED
    BY <2>1, <2>2, <2>3
<1>5. hp \notin Sp /\ hp \notin Mk /\ hp # ho
  <2>1. hp \notin Sp /\ hp \notin Mk /\ hp.hook = "PREROUTING"
    BY HookApart
  <2>2. ho.hook = "OUTPUT"
    BY HookApart
  <2> HIDE DEF hp, ho
  <2> QED
    BY <2>1, <2>2
<1>6. k \in Seq(C) /\ a \in Seq(C) /\ c \in Seq(C) /\ x \in Entries(a)
  <2>1. k \in Seq(C)
    BY <1>1, NewCalm DEF Chain
  <2> QED
    BY <1>1, <2>1, EntCalm, MarkCalm
<1>7. PICK l \in Seq(C) : b = l \o z
  BY <1>1, PreFacts
<1>8. /\ d \in Seq(S) /\ OutOrder(d, f) /\ Once(d, ho) /\ hp \notin Entries(d)
  BY OutFacts
<1>9. \A s : OutOrder(s, f) <=> Before(s, Sp, Mk) /\ Before(s, {n}, Sp)
  BY DEF OutOrder
<1>10. \A s : HookOrder(s, f) <=> /\ Once(s, hp) /\ Once(s, ho)
                                /\ Before(s, {x}, {hp}) /\ Before(s, {x}, {ho})
  BY DEF HookOrder, Hook, HookOf
<1> HIDE DEF S, C, Sp, Mk, x, n, hp, ho, k, a, b, c, d, z, p, q, r
<1>11. p \in Seq(C) /\ x \in Entries(p)
  BY <1>6, InConcat DEF p
<1>12. p \in Seq(S) /\ Entries(p) \subseteq C
  BY <1>3, <1>11, Widen
<1>13. z \in Seq(S) /\ Entries(z) = {hp} /\ Once(z, hp)
  BY <1>3, Single DEF z
<1>14. l \in Seq(S) /\ Entries(l) \subseteq C
  BY <1>3, <1>7, Widen
<1>15. b \in Seq(S) /\ \A w \in Entries(b) : w \in C \/ w = hp
  BY <1>7, <1>13, <1>14, InConcat
<1>16. Once(b, hp)
  <2>1. hp \notin Entries(l)
    BY <1>4, <1>14
  <2> QED
    BY <1>7, <1>13, <1>14, <2>1, OnceConcat
<1>17. q \in Seq(S) /\ x \in Entries(q) /\ \A w \in Entries(q) : w \in C \/ w = hp
  BY <1>11, <1>12, <1>15, InConcat DEF q
<1>18. Once(q, hp)
  <2>1. hp \notin Entries(p)
    BY <1>4, <1>12
  <2> QED
    BY <1>12, <1>15, <1>16, <2>1, OnceConcat DEF q
<1>19. c \in Seq(S) /\ Entries(c) \subseteq C
  BY <1>3, <1>6, Widen
<1>20. r \in Seq(S) /\ x \in Entries(r) /\ \A w \in Entries(r) : w \in C \/ w = hp
  BY <1>17, <1>19, InConcat DEF r
<1>21. Once(r, hp)
  <2>1. hp \notin Entries(c)
    BY <1>4, <1>19
  <2> QED
    BY <1>17, <1>18, <1>19, <2>1, OnceConcat DEF r
<1>22. r \o d \in Seq(S) /\ x \in Entries(r \o d)
  BY <1>8, <1>20, InConcat
<1>23. Once(r \o d, hp)
  BY <1>8, <1>20, <1>21, OnceConcat
<1>24. Once(r \o d, ho)
  <2>1. ho \notin Entries(r)
    BY <1>4, <1>5, <1>20
  <2> QED
    BY <1>8, <1>20, <2>1, OnceConcat
<1>25. Before(r \o d, Sp, Mk)
  <2>1. Before(r, Sp, Mk)
    BY <1>4, <1>5, <1>20, BeforeNone
  <2> QED
    BY <1>8, <1>9, <1>20, <2>1, BeforeConcat
<1>26. Before(r \o d, {n}, Sp)
  <2>1. Before(r, {n}, Sp)
    BY <1>4, <1>5, <1>20, BeforeNone
  <2> QED
    BY <1>8, <1>9, <1>20, <2>1, BeforeConcat
<1>27. ASSUME NEW h, h = hp \/ h = ho
       PROVE  Before(r \o d, {x}, {h})
  <2>1. Before(p, {x}, {h}) /\ Entries(p) \cap {x} # {}
    BY <1>4, <1>11, <1>12, <1>27, BeforeNone
  <2>2. Before(q, {x}, {h}) /\ Entries(q) \cap {x} # {}
    BY <1>12, <1>15, <1>17, <2>1, BeforeConcat DEF q
  <2>3. Before(r, {x}, {h}) /\ Entries(r) \cap {x} # {}
    BY <1>17, <1>19, <1>20, <2>2, BeforeConcat DEF r
  <2> QED
    BY <1>8, <1>20, <2>3, BeforeConcat
<1> QED
  BY <1>2, <1>9, <1>10, <1>22, <1>23, <1>24, <1>25, <1>26, <1>27 DEF S, x

(* The commands for a family are about that family. *)
LEMMA StartOfKind ==
  ASSUME NEW f \in Family, NEW e \in Environment, NEW c \in StartOf(f, e)
  PROVE  c.fam = f /\ c.op \notin {"masquerade", "mount", "sysctl"}
<1>1. CASE c \in Calm(f, e)
  BY <1>1, CalmApart
<1>2. CASE c \in AppendOut(f, Marking \cup Returning)
  BY <1>2, OutKinds
<1>3. ASSUME NEW h \in Hook, c = HookCmd(f, "hook", h)
      PROVE  c.fam = f /\ c.op \notin {"masquerade", "mount", "sysctl"}
  BY <1>3, HookApart
<1> QED
  BY <1>1, <1>2, <1>3 DEF StartOf

(* No command of s hooks a chain of f or adds a rule to one. *)
Neutral(s, f) == \A c \in Entries(s) : c.fam # f \/ c.op \notin {"-A", "hook"}

(* What is neutral is in order. *)
LEMMA NeutralOrder ==
  ASSUME NEW f \in Family, NEW s, Neutral(s, f)
  PROVE  OutOrder(s, f) /\ HookOrder(s, f)
<1>1. ASSUME NEW rules PROVE Entries(s) \cap AppendOut(f, rules) = {}
  BY DEF Neutral, AppendOut, AppendTo
<1>2. ASSUME NEW h \in Hook PROVE HookCmd(f, "hook", h) \notin Entries(s)
  BY DEF Neutral, HookCmd
<1>3. OutOrder(s, f)
  BY <1>1, BeforeNone DEF OutOrder
<1>4. ASSUME NEW h \in Hook
      PROVE  /\ Once(s, HookCmd(f, "hook", h))
             /\ Before(s, {IpTables(f, "-N", "TPROXY_ENT")}, {HookCmd(f, "hook", h)})
  BY <1>2, BeforeNone, OnceNone
<1> QED
  BY <1>3, <1>4 DEF HookOrder

(* And it can come before or after what is in order. *)
LEMMA OrderConcat ==
  ASSUME NEW f \in Family, NEW S, NEW s \in Seq(S), NEW t \in Seq(S),
         OutOrder(s, f), HookOrder(s, f), OutOrder(t, f), HookOrder(t, f),
         Neutral(s, f) \/ Neutral(t, f)
  PROVE  OutOrder(s \o t, f) /\ HookOrder(s \o t, f)
<1>1. OutOrder(s \o t, f)
  BY BeforeConcat DEF OutOrder
<1>2. ASSUME NEW h \in Hook
      PROVE  /\ Once(s \o t, HookCmd(f, "hook", h))
             /\ Before(s \o t, {IpTables(f, "-N", "TPROXY_ENT")}, {HookCmd(f, "hook", h)})
  <2> DEFINE c == HookCmd(f, "hook", h)
             x == IpTables(f, "-N", "TPROXY_ENT")
  <2>1. c.op = "hook" /\ c.fam = f
    BY HookApart
  <2>2. Once(s, c) /\ Once(t, c) /\ Before(s, {x}, {c}) /\ Before(t, {x}, {c})
    BY <1>2 DEF HookOrder
  <2> HIDE DEF c, x
  <2>3. c \notin Entries(s) \/ c \notin Entries(t)
    BY <2>1 DEF Neutral
  <2>4. Once(s \o t, c)
    BY <2>2, <2>3, OnceConcat
  <2>5. Before(s \o t, {x}, {c})
    BY <2>2, BeforeConcat
  <2> QED
    BY <2>4, <2>5 DEF c, x
<1> QED
  BY <1>1, <1>2 DEF HookOrder

(* The commands that come once. *)
Solo == {Mount} \cup {Plain("masquerade", f) : f \in Family}

(* If c is still to come, it is next, and only then. *)
First(s, c) == Once(s, c) /\ (c \in Entries(s) => Head(s) = c)

(* The first command of two lists that follow each other. *)
LEMMA HeadConcat ==
  ASSUME NEW S, NEW x \in Seq(S), NEW y \in Seq(S), Len(x) > 0
  PROVE  Len(x \o y) > 0 /\ (x \o y)[1] = x[1]
OBVIOUS

(* The whole script. *)
LEMMA StartFacts ==
  ASSUME NEW e \in Config
  PROVE  /\ Start(e) \in Seq(StartCmd(e))
         /\ \A f \in Family : OutOrder(Start(e), f) /\ HookOrder(Start(e), f)
         /\ IpTables("v4", "-N", "TPROXY_ENT") \in Entries(Start(e))
         /\ \A c \in Solo : Once(Start(e), c)
         /\ First(Start(e), Mount)
<1> DEFINE S == StartCmd(e)
           x == IpTables("v4", "-N", "TPROXY_ENT")
           a == <<Mount>>
           b == StartFamily("v4", e)
           c == StartFamily("v6", e)
           m4 == Plain("masquerade", "v4")
           m6 == Plain("masquerade", "v6")
           y == Plain("sysctl", "v4")
           z == <<m4, m6, y>>
           d == When(e.enable_gateway, z)
           p == a \o b
           q == p \o c
<1>1. e \in Environment /\ "v4" \in Family /\ "v6" \in Family
      /\ \A f \in Family : f = "v4" \/ f = "v6"
  BY TproxyAssumption DEF Family
<1>2. Start(e) = q \o d
  BY DEF Start, Mount
<1>3. /\ Mount.op = "mount" /\ m4.op = "masquerade" /\ m6.op = "masquerade"
      /\ y.op = "sysctl" /\ m4.fam = "v4" /\ m6.fam = "v6"
  BY DEF Mount, Plain
<1>4. /\ Mount \in S /\ m4 \in S /\ m6 \in S /\ y \in S
      /\ StartOf("v4", e) \subseteq S /\ StartOf("v6", e) \subseteq S
  BY <1>1 DEF StartCmd
<1>5. /\ b \in Seq(StartOf("v4", e)) /\ OutOrder(b, "v4") /\ HookOrder(b, "v4")
      /\ x \in Entries(b)
      /\ c \in Seq(StartOf("v6", e)) /\ OutOrder(c, "v6") /\ HookOrder(c, "v6")
  BY <1>1, FamilyFacts
<1>6. \A w \in StartOf("v4", e) : w.fam = "v4" /\ w.op \notin {"masquerade", "mount", "sysctl"}
  BY <1>1, StartOfKind
<1>7. \A w \in StartOf("v6", e) : w.fam = "v6" /\ w.op \notin {"masquerade", "mount", "sysctl"}
  BY <1>1, StartOfKind
<1>8. Solo = {Mount, m4, m6}
  BY DEF Solo, Family
<1> HIDE DEF S, x, a, b, c, d, m4, m6, y, z, p, q
<1>9. a \in Seq(S) /\ Entries(a) = {Mount} /\ \A w : Once(a, w)
  BY <1>4, Single DEF a
<1>10. b \in Seq(S) /\ \A w \in Entries(b) : w.fam = "v4" /\ w.op \notin {"masquerade", "mount", "sysctl"}
  BY <1>4, <1>5, <1>6, Widen
<1>11. c \in Seq(S) /\ \A w \in Entries(c) : w.fam = "v6" /\ w.op \notin {"masquerade", "mount", "sysctl"}
  BY <1>4, <1>5, <1>7, Widen
<1>12. /\ d \in Seq(S) /\ \A w \in Entries(d) : w.op \in {"masquerade", "sysctl"}
       /\ Once(d, m4) /\ Once(d, m6)
  <2>1. /\ z \in Seq(S) /\ Len(z) = 3 /\ z[1] = m4 /\ z[2] = m6 /\ z[3] = y
    BY <1>4 DEF z
  <2>2. 1..3 = {1, 2, 3}
    OBVIOUS
  <2>3. (\A w \in Entries(z) : w.op \in {"masquerade", "sysctl"}) /\ Once(z, m4) /\ Once(z, m6)
    BY <1>3, <2>1, <2>2 DEF Entries, Once
  <2>4. <<>> \in Seq(S) /\ Entries(<<>>) = {} /\ Once(<<>>, m4) /\ Once(<<>>, m6)
    BY DEF Entries, Once
  <2> QED
    BY <2>1, <2>3, <2>4 DEF d, When
<1>13. p \in Seq(S) /\ \A w : w \in Entries(p) <=> w \in Entries(a) \/ w \in Entries(b)
  BY <1>9, <1>10, InConcat DEF p
<1>14. q \in Seq(S) /\ \A w : w \in Entries(q) <=> w \in Entries(p) \/ w \in Entries(c)
  BY <1>11, <1>13, InConcat DEF q
<1>15. q \o d \in Seq(S) /\ \A w : w \in Entries(q \o d) <=> w \in Entries(q) \/ w \in Entries(d)
  BY <1>12, <1>14, InConcat
<1>16. OutOrder(q \o d, "v4") /\ HookOrder(q \o d, "v4")
  <2>1. Neutral(a, "v4") /\ Neutral(c, "v4") /\ Neutral(d, "v4")
    BY <1>3, <1>9, <1>11, <1>12 DEF Neutral
  <2>2. /\ OutOrder(a, "v4") /\ HookOrder(a, "v4") /\ OutOrder(c, "v4")
        /\ HookOrder(c, "v4") /\ OutOrder(d, "v4") /\ HookOrder(d, "v4")
    BY <1>1, <2>1, NeutralOrder
  <2>3. OutOrder(p, "v4") /\ HookOrder(p, "v4")
    BY <1>1, <1>5, <1>9, <1>10, <2>1, <2>2, OrderConcat DEF p
  <2>4. OutOrder(q, "v4") /\ HookOrder(q, "v4")
    BY <1>1, <1>11, <1>13, <2>1, <2>2, <2>3, OrderConcat DEF q
  <2> QED
    BY <1>1, <1>12, <1>14, <2>1, <2>2, <2>4, OrderConcat
<1>17. OutOrder(q \o d, "v6") /\ HookOrder(q \o d, "v6")
  <2>1. Neutral(p, "v6") /\ Neutral(d, "v6")
    BY <1>3, <1>9, <1>10, <1>12, <1>13 DEF Neutral
  <2>2. /\ OutOrder(p, "v6") /\ HookOrder(p, "v6")
        /\ OutOrder(d, "v6") /\ HookOrder(d, "v6")
    BY <1>1, <2>1, NeutralOrder
  <2>3. OutOrder(q, "v6") /\ HookOrder(q, "v6")
    BY <1>1, <1>5, <1>11, <1>13, <2>1, <2>2, OrderConcat DEF q
  <2> QED
    BY <1>1, <1>12, <1>14, <2>1, <2>2, <2>3, OrderConcat
<1>18. x \in Entries(q \o d)
  BY <1>5, <1>13, <1>14, <1>15
<1>19. Once(q \o d, Mount)
  <2>1. Mount \notin Entries(b) /\ Mount \notin Entries(c) /\ Mount \notin Entries(d)
    BY <1>3, <1>10, <1>11, <1>12
  <2>2. Once(p, Mount)
    BY <1>9, <1>10, <2>1, OnceConcat DEF p
  <2>3. Once(q, Mount)
    BY <1>11, <1>13, <2>1, <2>2, OnceConcat DEF q
  <2> QED
    BY <1>12, <1>14, <2>1, <2>3, OnceConcat
<1>20. ASSUME NEW w, w = m4 \/ w = m6
       PROVE  Once(q \o d, w)
  <2>1. w \notin Entries(q) /\ Once(d, w)
    BY <1>3, <1>9, <1>10, <1>11, <1>12, <1>13, <1>14, <1>20
  <2> QED
    BY <1>12, <1>14, <2>1, OnceConcat
<1>21. \A w \in Solo : Once(q \o d, w)
  BY <1>8, <1>19, <1>20
<1>22. Head(q \o d) = Mount
  <2>1. Len(a) > 0 /\ a[1] = Mount
    BY DEF a
  <2>2. Len(p) > 0 /\ p[1] = Mount
    BY <1>9, <1>10, <2>1, HeadConcat DEF p
  <2>3. Len(q) > 0 /\ q[1] = Mount
    BY <1>11, <1>13, <2>2, HeadConcat DEF q
  <2>4. Len(q \o d) > 0 /\ (q \o d)[1] = Mount
    BY <1>12, <1>14, <2>3, HeadConcat
  <2> QED
    BY <1>15, <2>4
<1> QED
  BY <1>1, <1>2, <1>15, <1>16, <1>17, <1>18, <1>19, <1>21, <1>22 DEF S, x, First

-----------------------------------------------------------------------------
(* The script with "stop", piece by piece. *)

(* c is still to come in s, and what is in use or has rules is freed       *)
(* before the chains of its family are deleted.                            *)
Comes(s, c) ==
  /\ c \in Entries(s)
  /\ c.op \in {"unhook", "-F"} => Before(s, {c}, Deletes(c.fam))

(* It comes if it comes in the first of two lists, or in the second and    *)
(* nothing of its family is deleted in the first.                          *)
LEMMA ComesConcat ==
  ASSUME NEW S, NEW s \in Seq(S), NEW t \in Seq(S), NEW c,
         \/ Comes(s, c)
         \/ Comes(t, c) /\ Entries(s) \cap Deletes(c.fam) = {}
  PROVE  Comes(s \o t, c)
<1>1. c \in Entries(s \o t)
  BY InConcat DEF Comes
<1>2. CASE Comes(s, c)
  <2>1. Entries(s) \cap {c} # {}
    BY <1>2 DEF Comes
  <2> QED
    BY <1>1, <1>2, <2>1, BeforeConcat DEF Comes
<1>3. CASE Comes(t, c) /\ Entries(s) \cap Deletes(c.fam) = {}
  <2>1. Before(s, {c}, Deletes(c.fam))
    BY <1>3, BeforeNone
  <2> QED
    BY <1>1, <1>3, <2>1, BeforeConcat DEF Comes
<1> QED
  BY <1>2, <1>3

(* A command for each chain. *)
LEMMA EachChain ==
  ASSUME NEW f \in Family, NEW op, NEW chains \in Seq(Chain),
         \A ch \in Chain : ch \in Entries(chains), NEW s, s = Each(f, op, chains)
  PROVE  /\ s \in Seq({IpTables(f, op, ch) : ch \in Chain})
         /\ \A ch \in Chain : IpTables(f, op, ch) \in Entries(s)
<1> DEFINE T == {IpTables(f, op, ch) : ch \in Chain}
<1>1. DOMAIN chains = 1..Len(chains) /\ Len(chains) \in Nat
      /\ \A i \in 1..Len(chains) : chains[i] \in Chain
  OBVIOUS
<1>2. s = [i \in 1..Len(chains) |-> IpTables(f, op, chains[i])]
  BY <1>1 DEF Each
<1>3. \A i \in 1..Len(chains) : IpTables(f, op, chains[i]) \in T
  BY <1>1
<1> HIDE DEF T
<1>4. s \in Seq(T) /\ Len(s) = Len(chains)
  BY <1>1, <1>2, <1>3
<1>5. ASSUME NEW ch \in Chain PROVE IpTables(f, op, ch) \in Entries(s)
  <2>1. PICK i \in 1..Len(chains) : chains[i] = ch
    BY <1>5 DEF Entries
  <2>2. s[i] = IpTables(f, op, ch) /\ i \in 1..Len(s)
    BY <1>2, <1>4, <2>1
  <2> QED
    BY <2>2 DEF Entries
<1> QED
  BY <1>4, <1>5 DEF T

(* A list of two commands. *)
LEMMA Pair ==
  ASSUME NEW S, NEW x \in S, NEW y \in S, NEW s, s = <<x, y>>
  PROVE  /\ s \in Seq(S) /\ x \in Entries(s) /\ y \in Entries(s)
         /\ \A c \in Entries(s) : c = x \/ c = y
<1>1. s \in Seq(S) /\ Len(s) = 2 /\ s[1] = x /\ s[2] = y
  OBVIOUS
<1>2. 1..2 = {1, 2}
  OBVIOUS
<1> QED
  BY <1>1, <1>2 DEF Entries

(* What a stop does with a family. *)
LEMMA StopFamilyFacts ==
  ASSUME NEW f \in Family, NEW e, NEW chains \in Seq(Chain),
         \A ch \in Chain : ch \in Entries(chains),
         NEW s, s = StopFamily(f, e, chains)
  PROVE  /\ s \in Seq(UndoOf(f, e))
         /\ \A c \in UndoOf(f, e) : c.op # "unmasquerade" => Comes(s, c)
<1> DEFINE S == UndoOf(f, e)
           D == Deletes(f)
           u1 == HookCmd(f, "unhook", "PREROUTING")
           u2 == HookCmd(f, "unhook", "OUTPUT")
           r1 == IpRule(f, "rule delete", e)
           r2 == IpRoute(f, "route flush", e)
           u == <<u1, u2>>
           F == Each(f, "-F", chains)
           X == Each(f, "-X", chains)
           r == <<r1, r2>>
           Fl == {IpTables(f, "-F", ch) : ch \in Chain}
           p == u \o F
           q == p \o X
<1>1. s = q \o r
  BY DEF StopFamily
<1>2. /\ u1 \in S /\ u2 \in S /\ r1 \in S /\ r2 \in S /\ D \subseteq S /\ Fl \subseteq S
      /\ \A c \in S : \/ c \in D \/ c \in Fl \/ c = u1 \/ c = u2 \/ c = r1 \/ c = r2
                     \/ c = Plain("unmasquerade", f)
  <2>1. {HookCmd(f, "unhook", h) : h \in Hook} = {u1, u2}
    BY DEF Hook, HookOf
  <2> HIDE DEF u1, u2, r1, r2, D, Fl
  <2> QED
    BY <2>1 DEF UndoOf, D, Fl, r1, r2
<1>3. /\ u1.op = "unhook" /\ u2.op = "unhook" /\ r1.op = "rule delete" /\ r2.op = "route flush"
      /\ u1.fam = f /\ u2.fam = f /\ Plain("unmasquerade", f).op = "unmasquerade"
  BY DEF HookCmd, IpRule, IpRoute, Plain
<1>4. (\A c \in D : c.op = "-X") /\ (\A c \in Fl : c.op = "-F" /\ c.fam = f)
  <2>1. \A op, ch : IpTables(f, op, ch).op = op /\ IpTables(f, op, ch).fam = f
    BY DEF IpTables
  <2> QED
    BY <2>1 DEF Deletes
<1>5. /\ F \in Seq(Fl) /\ \A c \in Fl : c \in Entries(F)
  BY EachChain
<1>6. /\ X \in Seq(D) /\ \A c \in D : c \in Entries(X)
  BY EachChain DEF Deletes
<1> HIDE DEF S, D, u1, u2, r1, r2, u, F, X, r, p, q, Fl
<1>7. /\ u \in Seq(S) /\ u1 \in Entries(u) /\ u2 \in Entries(u)
      /\ \A c \in Entries(u) : c.op = "unhook"
  <2>1. /\ u \in Seq(S) /\ u1 \in Entries(u) /\ u2 \in Entries(u)
        /\ \A c \in Entries(u) : c = u1 \/ c = u2
    BY <1>2, Pair DEF u
  <2> QED
    BY <1>3, <2>1
<1>8. r \in Seq(S) /\ r1 \in Entries(r) /\ r2 \in Entries(r)
  BY <1>2, Pair DEF r
<1>9. F \in Seq(S) /\ Entries(F) \subseteq Fl
  BY <1>2, <1>5, Widen
<1>10. X \in Seq(S) /\ Entries(X) \subseteq D
  BY <1>2, <1>6, Widen
<1>11. p \in Seq(S) /\ \A c : c \in Entries(p) <=> c \in Entries(u) \/ c \in Entries(F)
  BY <1>7, <1>9, InConcat DEF p
<1>12. q \in Seq(S) /\ \A c : c \in Entries(q) <=> c \in Entries(p) \/ c \in Entries(X)
  BY <1>10, <1>11, InConcat DEF q
<1>13. ASSUME NEW c, c \in Fl \/ c = u1 \/ c = u2
       PROVE  Comes(s, c)
  <2>1. Entries(p) \cap D = {} /\ c \in Entries(p) /\ c.fam = f
    BY <1>3, <1>4, <1>5, <1>7, <1>9, <1>11, <1>13
  <2>2. Comes(p, c)
    BY <2>1, BeforeNone DEF Comes, D
  <2>3. Comes(q, c)
    BY <1>10, <1>11, <2>2, ComesConcat DEF q
  <2> QED
    BY <1>1, <1>8, <1>12, <2>3, ComesConcat
<1>14. ASSUME NEW c, c \in D \/ c = r1 \/ c = r2
       PROVE  Comes(s, c)
  <2>1. c \in Entries(q) \/ c \in Entries(r)
    BY <1>6, <1>8, <1>12, <1>14
  <2>2. c \in Entries(s)
    BY <1>1, <1>8, <1>12, <2>1, InConcat
  <2>3. c.op \notin {"unhook", "-F"}
    BY <1>3, <1>4, <1>14
  <2> QED
    BY <2>2, <2>3 DEF Comes
<1>15. s \in Seq(S)
  BY <1>1, <1>8, <1>12
<1> QED
  BY <1>2, <1>3, <1>13, <1>14, <1>15 DEF S

(* The commands for a family are about that family. *)
LEMMA UndoOfKind ==
  ASSUME NEW f \in Family, NEW e, NEW c \in UndoOf(f, e)
  PROVE  c.fam = f /\ c.op \notin {"guard", "umount"}
<1>1. \A op, ch : IpTables(f, op, ch).op = op /\ IpTables(f, op, ch).fam = f
  BY DEF IpTables
<1>2. \A h : HookCmd(f, "unhook", h).op = "unhook" /\ HookCmd(f, "unhook", h).fam = f
  BY DEF HookCmd
<1>3. CASE \E ch \in Chain : c = IpTables(f, "-F", ch) \/ c = IpTables(f, "-X", ch)
  BY <1>1, <1>3
<1>4. CASE \E h \in Hook : c = HookCmd(f, "unhook", h)
  BY <1>2, <1>4
<1>5. CASE c = IpRule(f, "rule delete", e)
  BY <1>5 DEF IpRule
<1>6. CASE c = IpRoute(f, "route flush", e)
  BY <1>6 DEF IpRoute
<1>7. CASE c = Plain("unmasquerade", f)
  BY <1>7 DEF Plain
<1> QED
  BY <1>3, <1>4, <1>5, <1>6, <1>7 DEF UndoOf, Deletes

(* The whole script. *)
LEMMA StopFacts ==
  ASSUME NEW e, NEW s, s = Stop(e)
  PROVE  /\ s \in Seq(Undo(e) \cup {Guard}) /\ First(s, Guard)
         /\ \A c \in Undo(e) :
              (c.op = "umount" => e.cgroup_mount_point = "cgproxy") => Comes(s, c)
<1> DEFINE T == Undo(e) \cup {Guard}
           U4 == UndoOf("v4", e)
           U6 == UndoOf("v6", e)
           m4 == Plain("unmasquerade", "v4")
           m6 == Plain("unmasquerade", "v6")
           mt == Plain("umount", "v4")
           c4 == <<"TPROXY_PRE", "TPROXY_ENT", "TPROXY_OUT", "TPROXY_MARK">>
           c6 == <<"TPROXY_PRE", "TPROXY_OUT", "TPROXY_ENT", "TPROXY_MARK">>
           g == <<Guard>>
           a == StopFamily("v4", e, c4)
           b == StopFamily("v6", e, c6)
           m == <<m4, m6>>
           z == <<mt>>
           w == When(e.cgroup_mount_point = "cgproxy", z)
           p == g \o a
           q == p \o b
           r == q \o m
<1>1. s = r \o w
  BY DEF Stop, Guard
<1>2. /\ c4 \in Seq(Chain) /\ \A ch \in Chain : ch \in Entries(c4)
      /\ c6 \in Seq(Chain) /\ \A ch \in Chain : ch \in Entries(c6)
  <2>1. c4 \in Seq(Chain) /\ c6 \in Seq(Chain)
    BY DEF Chain
  <2>2. /\ Len(c4) = 4 /\ c4[1] = "TPROXY_PRE" /\ c4[2] = "TPROXY_ENT"
        /\ c4[3] = "TPROXY_OUT" /\ c4[4] = "TPROXY_MARK"
    OBVIOUS
  <2>3. /\ Len(c6) = 4 /\ c6[1] = "TPROXY_PRE" /\ c6[2] = "TPROXY_OUT"
        /\ c6[3] = "TPROXY_ENT" /\ c6[4] = "TPROXY_MARK"
    OBVIOUS
  <2> HIDE DEF c4, c6
  <2>4. 1..4 = {1, 2, 3, 4}
    OBVIOUS
  <2>5. \A ch \in Chain : ch \in Entries(c4)
    BY <2>2, <2>4 DEF Entries, Chain
  <2>6. \A ch \in Chain : ch \in Entries(c6)
    BY <2>3, <2>4 DEF Entries, Chain
  <2> QED
    BY <2>1, <2>5, <2>6
<1>3. "v4" \in Family /\ "v6" \in Family
  BY DEF Family
<1> HIDE DEF c4, c6
<1>4. a \in Seq(U4) /\ \A c \in U4 : c.op # "unmasquerade" => Comes(a, c)
  BY <1>2, <1>3, StopFamilyFacts
<1>5. b \in Seq(U6) /\ \A c \in U6 : c.op # "unmasquerade" => Comes(b, c)
  BY <1>2, <1>3, StopFamilyFacts
<1>6. \A c \in U4 : c.fam = "v4" /\ c.op \notin {"guard", "umount"}
  BY <1>3, UndoOfKind
<1>7. \A c \in U6 : c.fam = "v6" /\ c.op \notin {"guard", "umount"}
  BY <1>3, UndoOfKind
<1>8. /\ Guard.op = "guard" /\ m4.op = "unmasquerade" /\ m6.op = "unmasquerade"
      /\ m4.fam = "v4" /\ m6.fam = "v6" /\ mt.op = "umount"
  BY DEF Guard, Plain
<1>9. /\ \A c \in U4 : c.op = "unmasquerade" => c = m4
      /\ \A c \in U6 : c.op = "unmasquerade" => c = m6
  <2>1. \A f, op, ch : IpTables(f, op, ch).op = op
    BY DEF IpTables
  <2>2. \A f, h : HookCmd(f, "unhook", h).op = "unhook"
    BY DEF HookCmd
  <2>3. \A f : IpRule(f, "rule delete", e).op = "rule delete" /\ IpRoute(f, "route flush", e).op = "route flush"
    BY DEF IpRule, IpRoute
  <2>4. ASSUME NEW f \in Family, NEW c \in UndoOf(f, e), c.op = "unmasquerade"
        PROVE  c = Plain("unmasquerade", f)
    <3>1. ~\E h \in Hook : c = HookCmd(f, "unhook", h)
      BY <2>2, <2>4
    <3>2. ~\E ch \in Chain : c = IpTables(f, "-F", ch) \/ c = IpTables(f, "-X", ch)
      BY <2>1, <2>4
    <3>3. c # IpRule(f, "rule delete", e) /\ c # IpRoute(f, "route flush", e)
      BY <2>3, <2>4
    <3> QED
      BY <2>4, <3>1, <3>2, <3>3 DEF UndoOf, Deletes
  <2> QED
    BY <1>3, <2>4
<1>10. /\ U4 \subseteq T /\ U6 \subseteq T /\ Guard \in T /\ m4 \in T /\ m6 \in T /\ mt \in T
       /\ \A c \in Undo(e) : c \in U4 \/ c \in U6 \/ c = mt
  <2>1. m4 \in U4 /\ m6 \in U6
    BY DEF UndoOf
  <2> QED
    BY <2>1 DEF Undo
<1>11. \A f, c : c \in Deletes(f) => c.fam = f /\ c.op = "-X"
  BY DEF Deletes, IpTables
<1> HIDE DEF T, U4, U6, m4, m6, mt, g, a, b, m, w, p, q, r, z
<1>12. g \in Seq(T) /\ Entries(g) = {Guard} /\ Once(g, Guard) /\ Len(g) = 1 /\ g[1] = Guard
  BY <1>10, Single DEF g
<1>13. a \in Seq(T) /\ Entries(a) \subseteq U4
  BY <1>4, <1>10, Widen
<1>14. b \in Seq(T) /\ Entries(b) \subseteq U6
  BY <1>5, <1>10, Widen
<1>15. m \in Seq(T) /\ m4 \in Entries(m) /\ m6 \in Entries(m) /\ \A c \in Entries(m) : c = m4 \/ c = m6
  BY <1>10, Pair DEF m
<1>16. w \in Seq(T) /\ Entries(w) \subseteq {mt}
       /\ (e.cgroup_mount_point = "cgproxy" => mt \in Entries(w))
  <2>1. z \in Seq(T) /\ Entries(z) = {mt}
    BY <1>10, Single DEF z
  <2>2. <<>> \in Seq(T) /\ Entries(<<>>) = {}
    BY DEF Entries
  <2> QED
    BY <2>1, <2>2 DEF w, When
<1>17. p \in Seq(T) /\ \A c : c \in Entries(p) <=> c \in Entries(g) \/ c \in Entries(a)
  BY <1>12, <1>13, InConcat DEF p
<1>18. q \in Seq(T) /\ \A c : c \in Entries(q) <=> c \in Entries(p) \/ c \in Entries(b)
  BY <1>14, <1>17, InConcat DEF q
<1>19. r \in Seq(T) /\ \A c : c \in Entries(r) <=> c \in Entries(q) \/ c \in Entries(m)
  BY <1>15, <1>18, InConcat DEF r
<1>20. s \in Seq(T) /\ \A c : c \in Entries(s) <=> c \in Entries(r) \/ c \in Entries(w)
  BY <1>1, <1>16, <1>19, InConcat
<1>21. Once(s, Guard)
  <2>1. /\ Guard \notin Entries(a) /\ Guard \notin Entries(b)
        /\ Guard \notin Entries(m) /\ Guard \notin Entries(w)
    BY <1>6, <1>7, <1>8, <1>13, <1>14, <1>15, <1>16
  <2>2. Once(p, Guard)
    BY <1>12, <1>13, <2>1, OnceConcat DEF p
  <2>3. Once(q, Guard)
    BY <1>14, <1>17, <2>1, <2>2, OnceConcat DEF q
  <2>4. Once(r, Guard)
    BY <1>15, <1>18, <2>1, <2>3, OnceConcat DEF r
  <2> QED
    BY <1>1, <1>16, <1>19, <2>1, <2>4, OnceConcat
<1>22. Head(s) = Guard
  <2>2. Len(p) > 0 /\ p[1] = Guard
    <3>1. Len(g) > 0
      BY <1>12
    <3> QED
      BY <1>12, <1>13, HeadConcat, <3>1 DEF p
  <2>3. Len(q) > 0 /\ q[1] = Guard
    BY <1>14, <1>17, HeadConcat, <2>2 DEF q
  <2>4. Len(r) > 0 /\ r[1] = Guard
    BY <1>15, <1>18, HeadConcat, <2>3 DEF r
  <2>5. Len(s) > 0 /\ s[1] = Guard
    BY <1>1, <1>16, <1>19, HeadConcat, <2>4
  <2> QED
    BY <1>20, <2>5
<1>23. ASSUME NEW c \in U4 PROVE Comes(s, c)
  <2>1. CASE c.op = "unmasquerade"
    <3>1. c \in Entries(s)
      BY <1>9, <1>15, <1>19, <1>20, <1>23, <2>1
    <3> QED
      BY <2>1, <3>1 DEF Comes
  <2>2. CASE c.op # "unmasquerade"
    <3>1. Comes(a, c)
      BY <1>4, <1>23, <2>2
    <3>2. Entries(g) \cap Deletes(c.fam) = {}
      BY <1>8, <1>11, <1>12
    <3>3. Comes(p, c)
      BY <1>12, <1>13, <3>1, <3>2, ComesConcat DEF p
    <3>4. Comes(q, c)
      BY <1>14, <1>17, <3>3, ComesConcat DEF q
    <3>5. Comes(r, c)
      BY <1>15, <1>18, <3>4, ComesConcat DEF r
    <3> QED
      BY <1>1, <1>16, <1>19, <3>5, ComesConcat
  <2> QED
    BY <2>1, <2>2
<1>24. ASSUME NEW c \in U6 PROVE Comes(s, c)
  <2>1. CASE c.op = "unmasquerade"
    <3>1. c \in Entries(s)
      BY <1>9, <1>15, <1>19, <1>20, <1>24, <2>1
    <3> QED
      BY <2>1, <3>1 DEF Comes
  <2>2. CASE c.op # "unmasquerade"
    <3>1. Comes(b, c)
      BY <1>5, <1>24, <2>2
    <3>2. Entries(p) \cap Deletes(c.fam) = {}
      BY <1>6, <1>7, <1>8, <1>11, <1>12, <1>13, <1>17, <1>24
    <3>4. Comes(q, c)
      BY <1>14, <1>17, <3>1, <3>2, ComesConcat DEF q
    <3>5. Comes(r, c)
      BY <1>15, <1>18, <3>4, ComesConcat DEF r
    <3> QED
      BY <1>1, <1>16, <1>19, <3>5, ComesConcat
  <2> QED
    BY <2>1, <2>2
<1>25. ASSUME e.cgroup_mount_point = "cgproxy" PROVE Comes(s, mt)
  <2>1. mt \in Entries(s)
    BY <1>16, <1>20, <1>25
  <2> QED
    BY <1>8, <2>1 DEF Comes
<1> QED
  BY <1>8, <1>10, <1>20, <1>21, <1>22, <1>23, <1>24, <1>25 DEF First, T

-----------------------------------------------------------------------------
(* A packet of /noproxy.slice on its way through TPROXY_OUT. *)

(* The rules that TPROXY_OUT may have at any moment. *)
OutOk(rules) ==
  \A i \in 1..Len(rules) :
    \/ rules[i] \in Returning
    \/ rules[i] \in Marking /\ \E k \in 1..Len(rules) : k < i /\ rules[k] \in Sparing

(* The walk has ended, without a mark. *)
Ended == [mark |-> 0, end |-> "RETURN"]
Spared == {Unmarked, Ended}

(* The packets of this host from /noproxy.slice. *)
OwnPacket == {pkt \in Packet({Preserved["noproxy"]}) : pkt.local}

(* The kernel finds that /noproxy.slice is in /noproxy.slice. *)
LEMMA NoproxyMatches == PathMatch(Preserved["noproxy"], Preserved["noproxy"])
<1> DEFINE w == Without(Preserved["noproxy"], {""})
           S == {"noproxy.slice"} \ {""}
<1>1. Preserved["noproxy"] \in Seq({"noproxy.slice"})
  BY DEF Preserved
<1>2. w \in Seq(S)
  BY <1>1, WithoutClean
<1> HIDE DEF w, S
<1>3. Len(w) \in Nat
  BY <1>2
<1>4. Len(w) <= Len(w)
  BY <1>3
<1> QED
  BY <1>4 DEF PathMatch, IsPrefix, w

(* What a rule of TPROXY_OUT does to such a packet. *)
LEMMA OneRule ==
  ASSUME NEW n, NEW f, NEW pkt \in OwnPacket, NEW r
  PROVE  /\ r \in Returning \cup Marking => WalkRule(n, f, r, pkt, Ended) = Ended
         /\ r \in Returning => WalkRule(n, f, r, pkt, Unmarked) \in Spared
         /\ r \in Sparing => WalkRule(n, f, r, pkt, Unmarked) = Ended
<1>1. Ended.end = "RETURN" /\ Unmarked.end = "no" /\ [Unmarked EXCEPT !.end = "RETURN"] = Ended
  BY DEF Ended, Unmarked
<1>2. "RETURN" \notin Chain
  BY DEF Chain
<1>3. WalkRule(n, f, r, pkt, Ended) = Ended
  BY <1>1 DEF WalkRule, Apply
<1>4. ASSUME r.j = "RETURN"
      PROVE  WalkRule(n, f, r, pkt, Unmarked) = IF Matches(r, pkt) THEN Ended ELSE Unmarked
  BY <1>1, <1>2, <1>4 DEF WalkRule, Apply
<1>5. ASSUME r \in Sparing PROVE r.j = "RETURN" /\ Matches(r, pkt)
  <2>1. r.m = "cgroup" /\ r.path = Preserved["noproxy"] /\ r.j = "RETURN"
    BY <1>5 DEF Sparing, RuleOf
  <2>2. pkt.cg = Preserved["noproxy"]
    BY DEF OwnPacket, Packet
  <2> QED
    BY <2>1, <2>2, NoproxyMatches DEF Matches
<1>6. ASSUME r \in Returning PROVE r.j = "RETURN"
  BY <1>6 DEF Returning, RuleOf
<1> QED
  BY <1>3, <1>4, <1>5, <1>6 DEF Spared

(* So a walk of which each step follows a rule, at least where the packet  *)
(* is spared, never marks it.                                              *)
LEMMA WalkSpares ==
  ASSUME NEW n, NEW f, NEW pkt \in OwnPacket, NEW rules \in Seq(Rule), OutOk(rules),
         NEW w, w[0] = Unmarked,
         \A i \in 1..Len(rules) :
           WalkRule(n, f, rules[i], pkt, w[i - 1]) \in Spared =>
             w[i] = WalkRule(n, f, rules[i], pkt, w[i - 1])
  PROVE  /\ \A i \in 0..Len(rules) : w[i] \in Spared
         /\ \A i \in 1..Len(rules) : WalkRule(n, f, rules[i], pkt, w[i - 1]) \in Spared
<1> DEFINE N == Len(rules)
           R(i, v) == WalkRule(n, f, rules[i], pkt, v)
           Past(i) == \E k \in 1..N : k <= i /\ rules[k] \in Sparing
           G == {i \in 0..N : w[i] \in Spared /\ (Past(i) => w[i] = Ended)}
<1>1. N \in Nat
  OBVIOUS
<1>2. Unmarked \in Spared /\ Ended \in Spared
  BY DEF Spared
<1>3. ASSUME NEW i \in 1..N, i - 1 \in G
      PROVE  /\ R(i, w[i - 1]) \in Spared
             /\ Past(i) => R(i, w[i - 1]) = Ended
  <2>1. w[i - 1] = Unmarked \/ w[i - 1] = Ended
    BY <1>3 DEF Spared
  <2>2. \/ rules[i] \in Returning
        \/ rules[i] \in Marking /\ Past(i - 1)
    BY <1>3 DEF OutOk
  <2>3. CASE w[i - 1] = Ended
    <3>1. R(i, w[i - 1]) = Ended
      BY <2>2, <2>3, OneRule
    <3> QED
      BY <1>2, <3>1
  <2>4. CASE w[i - 1] = Unmarked /\ w[i - 1] # Ended
    <3>1. ~Past(i - 1) /\ rules[i] \in Returning
      BY <1>3, <2>2, <2>4
    <3>2. R(i, w[i - 1]) \in Spared
      BY <2>4, <3>1, OneRule
    <3>3. Past(i) => rules[i] \in Sparing
      BY <1>1, <3>1
    <3>4. rules[i] \in Sparing => R(i, w[i - 1]) = Ended
      BY <2>4, OneRule
    <3> QED
      BY <3>2, <3>3, <3>4
  <2> QED
    BY <2>1, <2>3, <2>4
<1>4. 0 \in G
  BY <1>1, <1>2
<1>5. \A i \in 1..N : i - 1 \in G => i \in G
  <2>1. ASSUME NEW i \in 1..N, i - 1 \in G PROVE i \in G
    <3>1. w[i] = R(i, w[i - 1]) /\ i \in 0..N
      BY <1>1, <1>3, <2>1
    <3> QED
      BY <1>3, <2>1, <3>1
  <2> QED
    BY <2>1
<1>6. \A i \in 0..N : i \in G
  <2> HIDE DEF G
  <2> QED
    BY <1>1, <1>4, <1>5, BoundedInduction
<1>7. \A i \in 0..N : w[i] \in Spared
  BY <1>6
<1>8. ASSUME NEW i \in 1..N PROVE R(i, w[i - 1]) \in Spared
  <2>1. i - 1 \in G
    <3>1. i - 1 \in 0..N
      BY <1>1
    <3> QED
      BY <1>6, <3>1
  <2> HIDE DEF G
  <2> QED
    BY <1>3, <2>1
<1> QED
  BY <1>7, <1>8

(* There is such a walk, and so none of them marks the packet. *)
LEMMA NoMark ==
  ASSUME NEW n \in Net, NEW pkt \in OwnPacket, OutOk(n.chain[pkt.fam]["TPROXY_OUT"])
  PROVE  OutputMark(n, pkt) = 0
<1> DEFINE f == pkt.fam
           rules == n.chain[f]["TPROXY_OUT"]
           N == Len(rules)
           R(i, v) == WalkRule(n, f, rules[i], pkt, v)
           Body(w) == [i \in 0..N |-> IF i = 0 THEN Unmarked ELSE R(i, w[i - 1])]
           W == CHOOSE w : w = Body(w)
           step == [v \in Spared \X (1..N) |->
                      IF R(v[2], v[1]) \in Spared THEN R(v[2], v[1]) ELSE v[1]]
<1>1. f \in Family /\ "TPROXY_OUT" \in Chain
  BY DEF OwnPacket, Packet, Chain
<1>2. rules \in Seq(Rule)
  BY <1>1, Parts
<1>3. N \in Nat
  BY <1>2
<1>4. Walk(n, f, "OUTPUT", pkt, Unmarked) = IF n.hook[f]["OUTPUT"] = 0 THEN Unmarked ELSE W[N]
  BY DEF Walk, HookOf
<1>5. OutOk(rules)
  OBVIOUS
<1> HIDE DEF N, rules, f, R
<1>6. W = Body(W)
  <2>1. step \in [Spared \X (1..N) -> Spared] /\ Unmarked \in Spared
    BY DEF Spared
  <2>2. PICK w : Iterates(N, Spared, Unmarked, step, w)
    <3> HIDE DEF step
    <3> QED
      BY <1>3, <2>1, BoundedRecursion
  <2>3. w \in [0..N -> Spared] /\ w[0] = Unmarked
    BY <2>2 DEF Iterates
  <2>4. ASSUME NEW i \in 1..N, R(i, w[i - 1]) \in Spared
        PROVE  w[i] = R(i, w[i - 1])
    <3>1. w[i] = step[<<w[i - 1], i>>]
      BY <2>2, <2>4 DEF Iterates
    <3>2. w[i - 1] \in Spared
      <4>1. i - 1 \in 0..N
        BY <1>3, <2>4
      <4> QED
        BY <2>3, <4>1
    <3> QED
      BY <2>4, <3>1, <3>2
  <2>5. \A i \in 1..N : R(i, w[i - 1]) \in Spared
    BY <1>2, <1>5, <2>3, <2>4, WalkSpares DEF R, N
  <2>6. w = Body(w)
    <3>1. ASSUME NEW i \in 0..N PROVE w[i] = Body(w)[i]
      <4>1. CASE i = 0
        BY <2>3, <4>1
      <4>2. CASE i # 0
        <5>1. i \in 1..N
          BY <1>3, <4>2
        <5> QED
          BY <2>4, <2>5, <4>2, <5>1
      <4> QED
        BY <4>1, <4>2
    <3>2. w = [i \in 0..N |-> w[i]]
      BY <2>3
    <3> QED
      BY <3>1, <3>2
  <2> QED
    BY <2>6
<1>7. W[0] = Unmarked /\ \A i \in 1..N : W[i] = R(i, W[i - 1])
  <2>1. ASSUME NEW i \in 0..N PROVE W[i] = Body(W)[i]
    BY <1>6
  <2>2. W[0] = Unmarked
    BY <1>3, <2>1
  <2>3. ASSUME NEW i \in 1..N PROVE W[i] = R(i, W[i - 1])
    <3>1. i \in 0..N /\ i # 0
      BY <1>3
    <3> QED
      BY <2>1, <3>1
  <2> QED
    BY <2>2, <2>3
<1> HIDE DEF W
<1>8. W[N] \in Spared
  <2>1. \A i \in 0..N : W[i] \in Spared
    BY <1>2, <1>5, <1>7, WalkSpares DEF R, N
  <2>2. N \in 0..N
    BY <1>3
  <2> QED
    BY <2>1, <2>2
<1>9. Walk(n, f, "OUTPUT", pkt, Unmarked) \in Spared
  BY <1>4, <1>8 DEF Spared
<1>10. \A v \in Spared : v.mark = 0
  BY DEF Spared, Unmarked, Ended
<1> QED
  BY <1>9, <1>10 DEF OutputMark, f

-----------------------------------------------------------------------------
(* TPROXY_OUT has a rule for /noproxy.slice. *)
Spares(rules) == \E k \in 1..Len(rules) : rules[k] \in Sparing

(* What is left of a start will make the chain before that rule, and that  *)
(* rule before any that jumps to the marking, unless they are there.       *)
InOrder(n, s, f) ==
  /\ \/ Spares(n.chain[f]["TPROXY_OUT"])
     \/ Before(s, AppendOut(f, Sparing), AppendOut(f, Marking))
  /\ \/ Exists(n, f, "TPROXY_OUT")
     \/ Before(s, {IpTables(f, "-N", "TPROXY_OUT")}, AppendOut(f, Sparing))

(* A rule that may be added to TPROXY_OUT. *)
LEMMA OutAppend ==
  ASSUME NEW rules \in Seq(Rule), OutOk(rules), NEW r \in Rule,
         r \in Returning \/ (r \in Marking /\ Spares(rules))
  PROVE  /\ OutOk(Append(rules, r))
         /\ Spares(rules) \/ r \in Sparing => Spares(Append(rules, r))
<1> DEFINE N == Len(rules)
           new == Append(rules, r)
<1>1. N \in Nat /\ Len(new) = N + 1 /\ new[N + 1] = r /\ \A i \in 1..N : new[i] = rules[i]
  OBVIOUS
<1> HIDE DEF N, new
<1>2. \A k \in 1..N : k \in 1..Len(new) /\ k < N + 1
  BY <1>1
<1>3. \A k \in 1..Len(new) : k \in 1..N \/ k = N + 1
  BY <1>1
<1>4. ASSUME NEW i \in 1..Len(new)
      PROVE  \/ new[i] \in Returning
             \/ new[i] \in Marking /\ \E k \in 1..Len(new) : k < i /\ new[k] \in Sparing
  <2>1. CASE i \in 1..N
    <3>1. \/ rules[i] \in Returning
          \/ rules[i] \in Marking /\ \E k \in 1..N : k < i /\ rules[k] \in Sparing
      BY <2>1 DEF OutOk, N
    <3> QED
      BY <1>1, <1>2, <2>1, <3>1
  <2>2. CASE i = N + 1
    <3>1. CASE r \in Returning
      BY <1>1, <2>2, <3>1
    <3>2. CASE r \in Marking /\ Spares(rules)
      <4>1. PICK k \in 1..N : rules[k] \in Sparing
        BY <3>2 DEF Spares, N
      <4> QED
        BY <1>1, <1>2, <2>2, <3>2, <4>1
    <3> QED
      BY <3>1, <3>2
  <2> QED
    BY <1>3, <2>1, <2>2
<1>5. ASSUME Spares(rules) PROVE Spares(new)
  <2>1. PICK k \in 1..N : rules[k] \in Sparing
    BY <1>5 DEF Spares, N
  <2> QED
    BY <1>1, <1>2, <2>1 DEF Spares
<1>6. ASSUME r \in Sparing PROVE Spares(new)
  <2>1. N + 1 \in 1..Len(new)
    BY <1>1
  <2> QED
    BY <1>1, <1>6, <2>1 DEF Spares
<1> QED
  BY <1>4, <1>5, <1>6 DEF OutOk, new

(* A command of a start keeps this order, and the rules as they may be. *)
LEMMA StartSpares ==
  ASSUME NEW n \in Net, NEW e \in Environment, NEW s \in Seq(StartCmd(e)), s # <<>>,
         NEW f \in Family, OutOk(n.chain[f]["TPROXY_OUT"]), InOrder(n, s, f),
         NEW m, Does(n, Head(s), m)
  PROVE  OutOk(m.chain[f]["TPROXY_OUT"]) /\ InOrder(m, Tail(s), f)
<1> DEFINE c == Head(s)
           t == Tail(s)
           S == StartCmd(e)
           old == n.chain[f]["TPROXY_OUT"]
           new == m.chain[f]["TPROXY_OUT"]
           Sp == AppendOut(f, Sparing)
           Mk == AppendOut(f, Marking)
           x == IpTables(f, "-N", "TPROXY_OUT")
<1>0. "TPROXY_OUT" \in Chain
  BY DEF Chain
<1>1. /\ c \in S
      /\ \A B, C : Before(s, B, C) => c \notin C /\ (c \in B \/ Before(t, B, C))
  BY AfterHead
<1>2. Adds(n, m, c, e)
  BY <1>1, StartAdds
<1>3. /\ n.exists[f] \subseteq m.exists[f]
      /\ c = x => "TPROXY_OUT" \in m.exists[f]
      /\ \/ new = old
         \/ c \in AppendOut(f, Marking \cup Returning) /\ new = Append(old, c.rule)
      /\ c \in Sp /\ Exists(n, f, "TPROXY_OUT") => new = Append(old, c.rule)
  BY <1>0, <1>2 DEF Adds, AddsOut
<1>4. old \in Seq(Rule)
  BY <1>0, Parts
<1>5. (Spares(old) \/ Before(s, Sp, Mk)) /\ (Exists(n, f, "TPROXY_OUT") \/ Before(s, {x}, Sp))
  BY DEF InOrder
<1>6. /\ c \in AppendOut(f, Marking \cup Returning) => c.rule \in Returning \/ (c.rule \in Marking /\ c \in Mk)
      /\ c \in AppendOut(f, Marking \cup Returning) => c.rule \in Rule
      /\ c \in Sp => c.rule \in Sparing
  <2>1. Marking \cup Returning \subseteq Rule
    BY DEF Marking, Returning, Rule, RuleOf, Target, Chain
  <2> QED
    BY <2>1 DEF AppendOut, AppendTo
<1>7. c \in Sp => c \in AppendOut(f, Marking \cup Returning)
  <2>1. c \in Sp => c \in AppendOut(f, Returning)
    BY OutKinds
  <2> QED
    BY <2>1 DEF AppendOut, AppendTo
<1> HIDE DEF c, t, S, old, new, Sp, Mk, x
<1>8. /\ OutOk(new) /\ (Spares(old) => Spares(new))
      /\ c \in Sp /\ Exists(n, f, "TPROXY_OUT") => Spares(new)
  <2>1. CASE c \in AppendOut(f, Marking \cup Returning) /\ new = Append(old, c.rule)
    <3>1. c.rule \in Rule /\ (c.rule \in Returning \/ (c.rule \in Marking /\ Spares(old)))
      BY <1>1, <1>5, <1>6, <2>1
    <3>2. OutOk(new) /\ (Spares(old) \/ c.rule \in Sparing => Spares(new))
      BY <1>4, <2>1, <3>1, OutAppend DEF old
    <3> QED
      BY <1>6, <3>2
  <2>2. CASE new = old /\ ~(c \in Sp /\ Exists(n, f, "TPROXY_OUT"))
    BY <2>2 DEF old
  <2> QED
    BY <1>3, <1>7, <2>1, <2>2
<1>9. Spares(new) \/ Before(t, Sp, Mk)
  BY <1>1, <1>5, <1>8
<1>10. Exists(m, f, "TPROXY_OUT") \/ Before(t, {x}, Sp)
  BY <1>1, <1>3, <1>5 DEF Exists
<1> QED
  BY <1>8, <1>9, <1>10 DEF InOrder, new, t, Sp, Mk, x

-----------------------------------------------------------------------------
(* A script with "stop" runs, or is to be followed by the start; and the   *)
(* script that runs, of which there is never another at the same time as   *)
(* long as no signal arrives while a configuration is applied.             *)
Cleaning == phase = "clean" \/ stopping
Running  == IF stopping THEN script["stop"] ELSE script["apply"]

Control ==
  /\ config \in Config /\ env \in Config \cup {DefaultEnv} /\ crashes \in Nat
  /\ phase \in Phase /\ stopping \in BOOLEAN /\ DOMAIN script = Slot
  /\ stopping => script["apply"] = <<>>
  /\ ~stopping => script["stop"] = <<>>
  /\ phase \in {"off", "killed", "up"} => script["apply"] = <<>>
  /\ stopping => phase = "up" \/ (phase = "clean" /\ runner = "main")
  /\ phase = "start" \/ (phase = "up" /\ ~stopping) => env = config
  /\ phase = "killed" => crashes > 0

(* The daemon starts with nothing to do. *)
LEMMA ControlInit == Init => Control /\ Running = <<>> /\ phase = "off" /\ ~stopping
<1> SUFFICES ASSUME Init PROVE Control /\ Running = <<>> /\ phase = "off" /\ ~stopping
  OBVIOUS
<1>1. /\ phase = "off" /\ stopping = FALSE /\ crashes = 0
      /\ config \in Config /\ env = DefaultEnv
  BY DEF Init
<1>2. DOMAIN script = Slot /\ script["apply"] = <<>> /\ script["stop"] = <<>>
  BY DEF Init, Slot
<1>3. Running = <<>>
  BY <1>1, <1>2 DEF Running
<1> QED
  BY <1>1, <1>2, <1>3 DEF Control, Phase

(* A script gives up, or goes on to its next command; the rest stays. *)
LEMMA OneScript ==
  ASSUME Control, NEW x \in Slot, RunCommand(x)
  PROVE  /\ Control' /\ Running # <<>> /\ (phase = "start" \/ Cleaning)
         /\ UNCHANGED <<config, env, phase, runner, stopping, crashes>>
         /\ \/ /\ UNCHANGED net /\ Running' = <<>>
               /\ \/ Head(Running).op = "guard" /\ ~Exists(net, "v4", "TPROXY_ENT")
                  \/ Head(Running).op = "mount"
            \/ /\ Does(net, Head(Running), net') /\ Running' = Tail(Running)
               /\ Head(Running).op = "guard" => Exists(net, "v4", "TPROXY_ENT")
<1>1. /\ script[x] # <<>>
      /\ UNCHANGED <<config, env, phase, runner, stopping, crashes>>
      /\ \/ /\ UNCHANGED net /\ script' = [script EXCEPT ![x] = <<>>]
            /\ \/ Head(script[x]).op = "guard" /\ ~Exists(net, "v4", "TPROXY_ENT")
               \/ Head(script[x]).op = "mount"
         \/ /\ Does(net, Head(script[x]), net') /\ script' = [script EXCEPT ![x] = Tail(@)]
            /\ Head(script[x]).op = "guard" => Exists(net, "v4", "TPROXY_ENT")
  <2> DEFINE c == Head(script[x])
  <2>1. script[x] # <<>> /\ UNCHANGED <<config, env, phase, runner, stopping, crashes>>
    BY DEF RunCommand
  <2>2. \/ /\ UNCHANGED net /\ script' = [script EXCEPT ![x] = <<>>]
           /\ \/ c.op = "guard" /\ ~Exists(net, "v4", "TPROXY_ENT")
              \/ c.op = "mount"
        \/ /\ net' = Effect(net, c) /\ script' = [script EXCEPT ![x] = Tail(@)]
           /\ c.op = "guard" => Exists(net, "v4", "TPROXY_ENT")
    BY Zenon DEF RunCommand
  <2> QED
    BY <2>1, <2>2 DEF Does
<1>2. (stopping => x = "stop") /\ (~stopping => x = "apply")
  <2>1. script[x] # <<>> /\ (x = "apply" \/ x = "stop")
    BY <1>1 DEF Slot
  <2> QED
    BY <2>1 DEF Control
<1>3. Running = script[x] /\ DOMAIN script = Slot /\ "apply" \in Slot /\ "stop" \in Slot
  BY <1>2 DEF Running, Control, Slot
<1>4. phase = "start" \/ Cleaning
  BY <1>1, <1>2 DEF Control, Cleaning, Phase
<1>5. \A v : script' = [script EXCEPT ![x] = v] => Running' = v /\ Control'
  <2>1. ASSUME NEW v, script' = [script EXCEPT ![x] = v]
        PROVE  /\ script'[x] = v /\ DOMAIN script' = Slot
               /\ \A y \in Slot : y # x => script'[y] = script[y]
    BY <1>3, <2>1
  <2>2. ASSUME NEW v, script' = [script EXCEPT ![x] = v]
        PROVE  Running' = v
    BY <1>1, <1>2, <2>1, <2>2 DEF Running
  <2>3. ASSUME NEW v, script' = [script EXCEPT ![x] = v]
        PROVE  Control'
    BY <1>1, <1>2, <1>3, <2>1, <2>3 DEF Control
  <2> QED
    BY <2>2, <2>3
<1> QED
  BY <1>1, <1>3, <1>4, <1>5

(* The daemon runs the script with "stop"; after that, without; and it is  *)
(* done with a script, stops or is killed.                                 *)
Begins ==
  /\ \/ phase \in {"off", "killed"} /\ env' = DefaultEnv
     \/ phase = "up" /\ ~stopping /\ UNCHANGED env
  /\ Cleaning' /\ phase' # "start" /\ Running' = Stop(env')
  /\ UNCHANGED <<net, crashes>>

Sets ==
  /\ phase = "clean" /\ ~stopping /\ Running = <<>>
  /\ phase' = "start" /\ ~stopping' /\ env' \in Config /\ Running' = Start(env')
  /\ UNCHANGED <<net, crashes>>

Ends ==
  /\ \/ phase = "start" /\ Running = <<>> /\ phase' = "up" /\ UNCHANGED crashes
     \/ stopping /\ Running = <<>> /\ phase' = "off" /\ UNCHANGED crashes
     \/ phase' = "killed" /\ crashes' = crashes + 1
  /\ ~Cleaning' /\ UNCHANGED <<net, env>>

(* A step of the daemon that is none of its scripts. *)
LEMMA Steps ==
  ASSUME Control, "signal" \notin Disturbances,
         \/ \E c \in Config : Boot(c) \/ Reload(c)
         \/ BootRejected \/ ToEnv \/ Applied \/ Signal \/ Exit \/ Crash
  PROVE  Control' /\ (Begins \/ Sets \/ Ends)
<1>0. DOMAIN script = Slot /\ "apply" \in Slot /\ "stop" \in Slot
  BY DEF Control, Slot
<1>1. ASSUME NEW c \in Config, Boot(c) PROVE Control' /\ Begins
  <2>1. script'["apply"] = Stop(DefaultEnv) /\ script'["stop"] = script["stop"] /\ DOMAIN script' = Slot
    BY <1>0, <1>1 DEF Boot
  <2>2. ~stopping
    BY <1>1 DEF Boot, Control
  <2>3. ~stopping' /\ phase' = "clean" /\ env' = DefaultEnv
    BY <1>1, <2>2 DEF Boot
  <2>4. Control'
    BY <1>1, <2>1, <2>2, <2>3 DEF Control, Boot, Phase
  <2>5. Running' = Stop(env')
    BY <2>1, <2>3 DEF Running
  <2> QED
    BY <1>1, <2>3, <2>4, <2>5 DEF Begins, Boot, Cleaning
<1>2. ASSUME BootRejected PROVE Control' /\ Begins
  <2>1. script'["stop"] = Stop(DefaultEnv) /\ script'["apply"] = script["apply"] /\ DOMAIN script' = Slot
    BY <1>0, <1>2 DEF BootRejected
  <2>2. script["apply"] = <<>>
    BY <1>2 DEF BootRejected, Control
  <2>3. stopping' /\ phase' = "clean" /\ env' = DefaultEnv /\ runner' = "main"
    BY <1>2 DEF BootRejected
  <2>4. Control'
    BY <1>2, <2>1, <2>2, <2>3 DEF Control, BootRejected, Phase
  <2>5. Running' = Stop(env')
    BY <2>1, <2>3 DEF Running
  <2> QED
    BY <1>2, <2>3, <2>4, <2>5 DEF Begins, BootRejected, Cleaning
<1>3. ASSUME NEW c \in Config, Reload(c) PROVE Control' /\ Begins
  <2>1. script'["apply"] = Stop(env) /\ script'["stop"] = script["stop"] /\ DOMAIN script' = Slot
    BY <1>0, <1>3 DEF Reload, CleanEnv
  <2>2. ~stopping
    BY <1>3 DEF Reload
  <2>3. ~stopping' /\ phase' = "clean" /\ env' = env
    BY <1>3, <2>2 DEF Reload
  <2>4. Control'
    BY <1>3, <2>1, <2>2, <2>3 DEF Control, Reload, Phase
  <2>5. Running' = Stop(env')
    BY <2>1, <2>3 DEF Running
  <2> QED
    BY <1>3, <2>2, <2>3, <2>4, <2>5 DEF Begins, Reload, Cleaning
<1>4. ASSUME ToEnv PROVE Control' /\ Sets
  <2>1. script'["apply"] = Start(config) /\ script'["stop"] = script["stop"] /\ DOMAIN script' = Slot
    BY <1>0, <1>4 DEF ToEnv
  <2>2. ~stopping
    BY <1>4 DEF ToEnv, Interrupted, Control
  <2>3. ~stopping' /\ phase' = "start" /\ env' = config /\ config' = config
    BY <1>4, <2>2 DEF ToEnv
  <2>4. Control'
    BY <1>4, <2>1, <2>2, <2>3 DEF Control, ToEnv, Phase
  <2>5. Running' = Start(env') /\ Running = <<>>
    BY <1>4, <2>1, <2>2, <2>3 DEF Running, ToEnv
  <2> QED
    BY <1>4, <2>2, <2>3, <2>4, <2>5 DEF Sets, ToEnv, Control
<1>5. ASSUME Applied PROVE Control' /\ Ends
  <2>1. ~stopping
    BY <1>5 DEF Applied, Control
  <2>2. ~stopping' /\ phase' = "up" /\ Running = <<>>
    BY <1>5, <2>1 DEF Applied, Running
  <2>3. Control'
    BY <1>5, <2>1, <2>2 DEF Control, Applied, Phase
  <2> QED
    BY <1>5, <2>2, <2>3 DEF Ends, Applied, Cleaning
<1>6. ASSUME Signal PROVE Control' /\ Begins
  <2>1. phase = "up" /\ ~stopping /\ stopping' /\ phase' = "up" /\ env' = env
    BY <1>6 DEF Signal
  <2>2. script["apply"] = <<>>
    BY <2>1 DEF Control
  <2>3. script' = [apply |-> <<>>, stop |-> Stop(env)]
    BY <1>6, <2>2 DEF Signal
  <2>4. DOMAIN script' = Slot /\ script'["apply"] = <<>> /\ script'["stop"] = Stop(env)
    BY <2>3 DEF Slot
  <2>5. Control'
    BY <1>6, <2>1, <2>4 DEF Control, Signal, Phase
  <2>6. Running' = Stop(env')
    BY <2>1, <2>4 DEF Running
  <2> QED
    BY <1>6, <2>1, <2>5, <2>6 DEF Begins, Signal, Cleaning
<1>7. ASSUME Exit PROVE Control' /\ Ends
  <2>1. stopping /\ ~stopping' /\ phase' = "off" /\ script["stop"] = <<>> /\ script["apply"] = <<>>
    BY <1>7 DEF Exit, Control
  <2>2. Running = <<>>
    BY <2>1 DEF Running
  <2>3. Control'
    BY <1>7, <2>1 DEF Control, Exit, Phase
  <2> QED
    BY <1>7, <2>1, <2>2, <2>3 DEF Ends, Exit, Cleaning
<1>8. ASSUME Crash PROVE Control' /\ Ends
  <2>1. /\ ~stopping' /\ phase' = "killed" /\ crashes' = crashes + 1
        /\ UNCHANGED <<net, config, env, runner>>
    BY <1>8 DEF Crash
  <2>2. DOMAIN script' = Slot /\ script'["apply"] = <<>> /\ script'["stop"] = <<>>
    BY <1>8 DEF Crash, Slot
  <2>3. crashes' \in Nat /\ crashes' > 0
    BY <2>1 DEF Control
  <2>4. Control'
    <3>1. stopping' = FALSE
      BY <1>8 DEF Crash
    <3>2. config' \in Config /\ env' \in Config \cup {DefaultEnv}
      BY <2>1 DEF Control
    <3> QED
      BY <2>1, <2>2, <2>3, <3>1, <3>2 DEF Control, Phase
  <2> QED
    BY <2>1, <2>4 DEF Ends, Cleaning
<1> QED
  BY <1>1, <1>2, <1>3, <1>4, <1>5, <1>6, <1>7, <1>8

(* The chain TPROXY_OUT spares /noproxy.slice, and a start goes about it   *)
(* in the right order.                                                     *)
SpareInv ==
  /\ Control /\ net \in Net
  /\ \A f \in Family : OutOk(net.chain[f]["TPROXY_OUT"])
  /\ phase = "start" => /\ Running \in Seq(StartCmd(env))
                        /\ \A f \in Family : InOrder(net, Running, f)
  /\ Cleaning => Running \in Seq(Undo(env) \cup {Guard})

(* An empty chain may be, and an empty script is in order. *)
LEMMA NothingLeft ==
  /\ \A S : <<>> \in Seq(S) /\ Entries(<<>>) = {} /\ OutOk(<<>>)
  /\ \A n, f : InOrder(n, <<>>, f)
<1>1. Entries(<<>>) = {} /\ OutOk(<<>>)
  BY DEF Entries, OutOk
<1>2. \A B, C : Before(<<>>, B, C)
  BY DEF Before
<1> QED
  BY <1>1, <1>2 DEF InOrder

(* The clean state of the kernel is one, and has no rules. *)
LEMMA CleanIsNet ==
  /\ CleanNet \in Net
  /\ \A f \in Family : CleanNet.chain[f]["TPROXY_OUT"] = <<>>
<1>1. /\ CleanNet.exists = [f \in Family |-> {}]
      /\ CleanNet.chain = [f \in Family |-> [ch \in Chain |-> <<>>]]
      /\ CleanNet.hook = [f \in Family |-> [h \in Hook |-> 0]]
      /\ CleanNet.rule = [f \in Family |-> {}]
      /\ CleanNet.route = [f \in Family |-> {}]
      /\ CleanNet.nat = [f \in Family |-> 0]
  BY DEF CleanNet
<1>2. [f \in Family |-> {}] \in [Family -> SUBSET Chain]
  OBVIOUS
<1>3. [f \in Family |-> [ch \in Chain |-> <<>>]] \in [Family -> [Chain -> Seq(Rule)]]
  <2>1. <<>> \in Seq(Rule)
    OBVIOUS
  <2> QED
    BY <2>1
<1>4. [f \in Family |-> [h \in Hook |-> 0]] \in [Family -> [Hook -> Nat]]
  OBVIOUS
<1>5. [f \in Family |-> {}] \in [Family -> Lookups] /\ [f \in Family |-> {}] \in [Family -> Tables]
  BY DEF Lookups, Tables
<1>6. [f \in Family |-> 0] \in [Family -> Nat]
  OBVIOUS
<1>7. "TPROXY_OUT" \in Chain
  BY DEF Chain
<1>8. CleanNet \in Net
  BY <1>2, <1>3, <1>4, <1>5, <1>6 DEF CleanNet, Net
<1> QED
  BY <1>1, <1>7, <1>8

(* At first there are no rules and no script. *)
LEMMA SpareInit == Init => SpareInv
<1> SUFFICES ASSUME Init PROVE SpareInv
  OBVIOUS
<1>1. Control /\ phase = "off" /\ ~stopping
  BY ControlInit
<1>2. net \in Net /\ \A f \in Family : OutOk(net.chain[f]["TPROXY_OUT"])
  BY CleanIsNet, NothingLeft DEF Init
<1> QED
  BY <1>1, <1>2 DEF SpareInv, Cleaning

(* The listing of a chain changes nothing. *)
LEMMA DoGuard ==
  ASSUME NEW n, NEW m, Does(n, Guard, m)
  PROVE  m = n
BY DEF Does, Effect, Guard, Plain

(* Every step keeps the inductive invariant. *)
LEMMA SpareStep ==
  ASSUME "signal" \notin Disturbances, SpareInv, [Next]_vars
  PROVE  SpareInv'
<1>0. Control /\ net \in Net /\ \A f \in Family : OutOk(net.chain[f]["TPROXY_OUT"])
  BY DEF SpareInv
<1>1. CASE UNCHANGED vars
  BY <1>1 DEF vars, SpareInv, Control, Running, Cleaning
<1>2. ASSUME NEW x \in Slot, RunCommand(x) PROVE SpareInv'
  <2> DEFINE c == Head(Running)
  <2>1. /\ Control' /\ Running # <<>> /\ (phase = "start" \/ Cleaning)
        /\ UNCHANGED <<config, env, phase, runner, stopping, crashes>>
    BY <1>0, <1>2, OneScript
  <2>2. \/ UNCHANGED net /\ Running' = <<>>
        \/ Does(net, c, net') /\ Running' = Tail(Running)
    BY <1>0, <1>2, OneScript
  <2>3. Cleaning' = Cleaning
    BY <2>1 DEF Cleaning
  <2> HIDE DEF c
  <2>4. CASE UNCHANGED net /\ Running' = <<>>
    BY <1>0, <2>1, <2>4, NothingLeft DEF SpareInv
  <2>5. CASE Does(net, c, net') /\ Running' = Tail(Running) /\ Cleaning
    <3> DEFINE T == Undo(env) \cup {Guard}
    <3>1. Running \in Seq(T)
      BY <2>5 DEF SpareInv
    <3>2. Tail(Running) \in Seq(T) /\ c \in T
      BY <2>1, <3>1, AfterHead DEF c
    <3>3. net' \in Net /\ \A f \in Family : OutOk(net'.chain[f]["TPROXY_OUT"])
      <4>1. CASE c = Guard
        <5>1. net' = net
          BY <2>5, <4>1, DoGuard
        <5> QED
          BY <1>0, <5>1
      <4>2. CASE c \in Undo(env)
        <5>1. net' \in Net /\ \A f \in Family : Removes(net, net', c, f)
          BY <1>0, <2>5, <4>2, StopRemoves
        <5>2. "TPROXY_OUT" \in Chain
          BY DEF Chain
        <5>3. \A f \in Family : \/ net'.chain[f]["TPROXY_OUT"] = net.chain[f]["TPROXY_OUT"]
                                \/ net'.chain[f]["TPROXY_OUT"] = <<>>
          BY <5>1, <5>2 DEF Removes
        <5> QED
          BY <1>0, <5>1, <5>3, NothingLeft
      <4> QED
        BY <3>2, <4>1, <4>2
    <3>4. phase' # "start"
      BY <1>0, <2>1, <2>5 DEF Control, Cleaning
    <3> QED
      BY <2>1, <2>5, <3>2, <3>3, <3>4 DEF SpareInv
  <2>6. CASE Does(net, c, net') /\ Running' = Tail(Running) /\ phase = "start" /\ ~Cleaning
    <3>1. env \in Environment
      BY <1>0, TproxyAssumption DEF Control
    <3>2. Running \in Seq(StartCmd(env)) /\ \A f \in Family : InOrder(net, Running, f)
      BY <2>6 DEF SpareInv
    <3>3. Tail(Running) \in Seq(StartCmd(env)) /\ c \in StartCmd(env)
      BY <2>1, <3>2, AfterHead DEF c
    <3>4. net' \in Net
      BY <1>0, <2>6, <3>1, <3>3, StartAdds DEF Adds
    <3>5. \A f \in Family : OutOk(net'.chain[f]["TPROXY_OUT"]) /\ InOrder(net', Tail(Running), f)
      BY <1>0, <2>1, <2>6, <3>1, <3>2, StartSpares DEF c
    <3> QED
      BY <2>1, <2>3, <2>6, <3>3, <3>4, <3>5 DEF SpareInv
  <2> QED
    BY <2>1, <2>2, <2>4, <2>5, <2>6
<1>3. ASSUME Control', Begins PROVE SpareInv'
  <2>1. Running' \in Seq(Undo(env') \cup {Guard})
    BY <1>3, StopFacts DEF Begins
  <2> QED
    BY <1>0, <1>3, <2>1 DEF SpareInv, Begins
<1>4. ASSUME Control', Sets PROVE SpareInv'
  <2>1. /\ Running' \in Seq(StartCmd(env'))
        /\ \A f \in Family : OutOrder(Running', f)
    BY <1>4, StartFacts DEF Sets
  <2>2. \A f \in Family : InOrder(net', Running', f)
    BY <2>1 DEF OutOrder, InOrder
  <2>3. ~Cleaning'
    BY <1>4 DEF Sets, Cleaning
  <2> QED
    BY <1>0, <1>4, <2>1, <2>2, <2>3 DEF SpareInv, Sets
<1>5. ASSUME Control', Ends PROVE SpareInv'
  <2>1. phase' # "start" /\ ~Cleaning' /\ net' = net
    BY <1>5 DEF Ends
  <2> QED
    BY <1>0, <1>5, <2>1 DEF SpareInv
<1>6. CASE \/ \E c \in Config : Boot(c) \/ Reload(c)
           \/ BootRejected \/ ToEnv \/ Applied \/ Signal \/ Exit \/ Crash
  BY <1>0, <1>3, <1>4, <1>5, <1>6, Steps
<1> QED
  BY <1>1, <1>2, <1>6 DEF Next

(* No packet of /noproxy.slice is ever marked, whatever the configurations *)
(* are and however often the daemon is killed, as long as no signal runs a *)
(* stop on top of a start: what is left of the script, and of an earlier   *)
(* one that was killed, never has a rule that jumps to TPROXY_MARK before  *)
(* the rule that returns for /noproxy.slice.                               *)
THEOREM ProxySpared ==
  ASSUME "signal" \notin Disturbances
  PROVE  Spec => []NoproxyNeverMarked
<1>1. Init => SpareInv
  BY SpareInit
<1>2. SpareInv /\ [Next]_vars => SpareInv'
  BY SpareStep
<1>3. SpareInv => NoproxyNeverMarked
  <2> SUFFICES ASSUME SpareInv, NEW pkt \in Packet({Preserved["noproxy"]}), pkt.local
               PROVE  OutputMark(net, pkt) = 0
    BY DEF NoproxyNeverMarked
  <2>1. pkt \in OwnPacket
    BY DEF OwnPacket
  <2>2. pkt.fam \in Family
    BY DEF Packet
  <2> QED
    BY <2>1, <2>2, NoMark DEF SpareInv
<1> QED
  BY <1>1, <1>2, <1>3, PTL DEF Spec

-----------------------------------------------------------------------------
(* c has something to undo. *)
Left(n, c) ==
  \/ c.op = "unhook" /\ n.hook[c.fam][c.hook] > 0
  \/ c.op = "-F" /\ n.chain[c.fam][c.chain] # <<>>
  \/ c.op = "-X" /\ Exists(n, c.fam, c.chain)
  \/ c.op = "rule delete" /\ n.rule[c.fam] # {}
  \/ c.op = "route flush" /\ n.route[c.fam] # {}
  \/ c.op = "unmasquerade" /\ n.nat[c.fam] > 0
  \/ c.op = "umount" /\ n.mounted

(* Nothing has. *)
CleanOf(n, f) ==
  /\ n.exists[f] = {} /\ \A ch \in Chain : n.chain[f][ch] = <<>>
  /\ \A h \in Hook : n.hook[f][h] = 0
  /\ n.rule[f] = {} /\ n.route[f] = {} /\ n.nat[f] = 0

Clean(n) == ~n.mounted /\ \A f \in Family : CleanOf(n, f)

(* A stop in the environment e can undo it all. *)
FitsOf(n, e, f) ==
  /\ \A h \in Hook : n.hook[f][h] <= 1
  /\ n.nat[f] <= 1
  /\ n.rule[f] \subseteq {<<e.fwmark, e.table>>} /\ n.route[f] \subseteq {e.table}

Fits(n, e) ==
  /\ \A f \in Family : FitsOf(n, e, f)
  /\ n.mounted => e.cgroup_mount_point = "cgproxy"

(* What a command has to undo, by its kind. *)
LEMMA LeftKinds ==
  ASSUME NEW n, NEW e, NEW f \in Family
  PROVE  /\ \A h : Left(n, HookCmd(f, "unhook", h)) <=> n.hook[f][h] > 0
         /\ \A ch : Left(n, IpTables(f, "-F", ch)) <=> n.chain[f][ch] # <<>>
         /\ \A ch : Left(n, IpTables(f, "-X", ch)) <=> ch \in n.exists[f]
         /\ Left(n, IpRule(f, "rule delete", e)) <=> n.rule[f] # {}
         /\ Left(n, IpRoute(f, "route flush", e)) <=> n.route[f] # {}
         /\ Left(n, Plain("unmasquerade", f)) <=> n.nat[f] > 0
         /\ Left(n, Plain("umount", "v4")) <=> n.mounted
<1>1. \A h : Left(n, HookCmd(f, "unhook", h)) <=> n.hook[f][h] > 0
  BY DEF Left, HookCmd
<1>2. \A ch : Left(n, IpTables(f, "-F", ch)) <=> n.chain[f][ch] # <<>>
  BY DEF Left, IpTables
<1>3. \A ch : Left(n, IpTables(f, "-X", ch)) <=> ch \in n.exists[f]
  BY DEF Left, IpTables, Exists
<1>4. Left(n, IpRule(f, "rule delete", e)) <=> n.rule[f] # {}
  BY DEF Left, IpRule
<1>5. Left(n, IpRoute(f, "route flush", e)) <=> n.route[f] # {}
  BY DEF Left, IpRoute
<1>6. Left(n, Plain("unmasquerade", f)) <=> n.nat[f] > 0
  BY DEF Left, Plain
<1>7. Left(n, Plain("umount", "v4")) <=> n.mounted
  BY DEF Left, Plain
<1> QED
  BY <1>1, <1>2, <1>3, <1>4, <1>5, <1>6, <1>7

(* A command of a stop, by its kind. *)
LEMMA UndoKinds ==
  ASSUME NEW e, NEW c \in Undo(e)
  PROVE  \/ \E f \in Family : \E h \in Hook : c = HookCmd(f, "unhook", h)
         \/ \E f \in Family : \E ch \in Chain : c = IpTables(f, "-F", ch)
         \/ \E f \in Family : \E ch \in Chain : c = IpTables(f, "-X", ch)
         \/ \E f \in Family : c = IpRule(f, "rule delete", e)
         \/ \E f \in Family : c = IpRoute(f, "route flush", e)
         \/ \E f \in Family : c = Plain("unmasquerade", f)
         \/ c = Plain("umount", "v4")
<1>1. CASE c \in UndoOf("v4", e)
  BY <1>1 DEF UndoOf, Deletes, Family
<1>2. CASE c \in UndoOf("v6", e)
  BY <1>2 DEF UndoOf, Deletes, Family
<1> QED
  BY <1>1, <1>2 DEF Undo

(* The kinds are all there. *)
LEMMA UndoHas ==
  ASSUME NEW e, NEW f \in Family
  PROVE  /\ \A h \in Hook : HookCmd(f, "unhook", h) \in Undo(e)
         /\ \A ch \in Chain : IpTables(f, "-F", ch) \in Undo(e) /\ IpTables(f, "-X", ch) \in Undo(e)
         /\ IpRule(f, "rule delete", e) \in Undo(e) /\ IpRoute(f, "route flush", e) \in Undo(e)
         /\ Plain("unmasquerade", f) \in Undo(e) /\ Plain("umount", "v4") \in Undo(e)
<1>1. UndoOf(f, e) \subseteq Undo(e) /\ Plain("umount", "v4") \in Undo(e)
  BY DEF Undo, Family
<1>2. /\ \A h \in Hook : HookCmd(f, "unhook", h) \in UndoOf(f, e)
      /\ \A ch \in Chain : IpTables(f, "-F", ch) \in UndoOf(f, e) /\ IpTables(f, "-X", ch) \in UndoOf(f, e)
      /\ IpRule(f, "rule delete", e) \in UndoOf(f, e) /\ IpRoute(f, "route flush", e) \in UndoOf(f, e)
      /\ Plain("unmasquerade", f) \in UndoOf(f, e)
  BY DEF UndoOf, Deletes
<1> QED
  BY <1>1, <1>2

(* What a command of a stop is, by its name. *)
LEMMA UndoKind ==
  ASSUME NEW e, NEW c \in Undo(e)
  PROVE  /\ c.op = "unhook" => \E f \in Family : \E h \in Hook : c = HookCmd(f, "unhook", h)
         /\ c.op = "-X" => \E f \in Family : c \in Deletes(f) /\ c.fam = f
         /\ c.op # "mount" /\ c.op # "guard"
<1>1. CASE \E f \in Family : \E h \in Hook : c = HookCmd(f, "unhook", h)
  <2>1. c.op = "unhook"
    BY <1>1 DEF HookCmd
  <2> QED
    BY <1>1, <2>1
<1>2. CASE \E f \in Family : \E ch \in Chain : c = IpTables(f, "-F", ch)
  <2>1. c.op = "-F"
    BY <1>2 DEF IpTables
  <2> QED
    BY <2>1
<1>3. CASE \E f \in Family : \E ch \in Chain : c = IpTables(f, "-X", ch)
  <2>1. PICK f \in Family : \E ch \in Chain : c = IpTables(f, "-X", ch)
    BY <1>3
  <2>2. c.op = "-X" /\ c.fam = f
    BY <2>1 DEF IpTables
  <2>3. c \in Deletes(f)
    BY <2>1 DEF Deletes
  <2> QED
    BY <2>2, <2>3
<1>4. CASE \E f \in Family : c = IpRule(f, "rule delete", e)
  <2>0. PICK f \in Family : c = IpRule(f, "rule delete", e)
    BY <1>4
  <2>1. c.op = "rule delete"
    BY <2>0 DEF IpRule
  <2> QED
    BY <2>1
<1>5. CASE \E f \in Family : c = IpRoute(f, "route flush", e)
  <2>0. PICK f \in Family : c = IpRoute(f, "route flush", e)
    BY <1>5
  <2>1. c.op = "route flush"
    BY <2>0 DEF IpRoute
  <2> QED
    BY <2>1
<1>6. CASE \E f \in Family : c = Plain("unmasquerade", f)
  <2>1. c.op = "unmasquerade"
    BY <1>6 DEF Plain
  <2> QED
    BY <2>1
<1>7. CASE c = Plain("umount", "v4")
  <2>1. c.op = "umount"
    BY <1>7 DEF Plain
  <2> QED
    BY <2>1
<1> QED
  BY <1>1, <1>2, <1>3, <1>4, <1>5, <1>6, <1>7, UndoKinds

(* What has nothing to undo is clean, and the other way round. *)
LEMMA NoneLeft ==
  ASSUME NEW n \in Net, NEW e
  PROVE  (\A c \in Undo(e) : ~Left(n, c)) <=> Clean(n)
<1>1. ASSUME \A c \in Undo(e) : ~Left(n, c) PROVE Clean(n)
  <2>1. ASSUME NEW f \in Family PROVE CleanOf(n, f)
    <3>1. \A h \in Hook : ~(n.hook[f][h] > 0)
      <4>1. \A h \in Hook : HookCmd(f, "unhook", h) \in Undo(e)
        BY UndoHas
      <4>2. \A h \in Hook : ~Left(n, HookCmd(f, "unhook", h))
        BY <1>1, <4>1
      <4> QED
        BY <4>2, LeftKinds
    <3>2. \A ch \in Chain : n.chain[f][ch] = <<>> /\ ch \notin n.exists[f]
      <4>1. \A ch \in Chain : IpTables(f, "-F", ch) \in Undo(e) /\ IpTables(f, "-X", ch) \in Undo(e)
        BY UndoHas
      <4>2. \A ch \in Chain : ~Left(n, IpTables(f, "-F", ch)) /\ ~Left(n, IpTables(f, "-X", ch))
        BY <1>1, <4>1
      <4> QED
        BY <4>2, LeftKinds
    <3>3. n.rule[f] = {} /\ n.route[f] = {} /\ ~(n.nat[f] > 0)
      <4>1. /\ IpRule(f, "rule delete", e) \in Undo(e) /\ IpRoute(f, "route flush", e) \in Undo(e)
            /\ Plain("unmasquerade", f) \in Undo(e)
        BY UndoHas
      <4>2. /\ ~Left(n, IpRule(f, "rule delete", e)) /\ ~Left(n, IpRoute(f, "route flush", e))
            /\ ~Left(n, Plain("unmasquerade", f))
        BY <1>1, <4>1
      <4> QED
        BY <4>2, LeftKinds
    <3>4. n.nat[f] \in Nat /\ (\A h \in Hook : n.hook[f][h] \in Nat) /\ n.exists[f] \subseteq Chain
      BY Parts
    <3>5. n.exists[f] = {}
      BY <3>2, <3>4
    <3>6. n.nat[f] = 0 /\ \A h \in Hook : n.hook[f][h] = 0
      BY <3>1, <3>3, <3>4
    <3> QED
      BY <3>2, <3>3, <3>5, <3>6 DEF CleanOf
  <2>2. ~n.mounted
    <3>1. "v4" \in Family
      BY DEF Family
    <3>2. Plain("umount", "v4") \in Undo(e)
      BY <3>1, UndoHas
    <3>3. ~Left(n, Plain("umount", "v4"))
      BY <1>1, <3>2
    <3> QED
      BY <3>1, <3>3, LeftKinds
  <2> QED
    BY <2>1, <2>2 DEF Clean
<1>2. ASSUME Clean(n), NEW c \in Undo(e) PROVE ~Left(n, c)
  <2>1. /\ "v4" \in Family /\ ~n.mounted
        /\ \A f \in Family : /\ \A h \in Hook : ~(n.hook[f][h] > 0)
                             /\ \A ch \in Chain : n.chain[f][ch] = <<>> /\ ch \notin n.exists[f]
                             /\ n.rule[f] = {} /\ n.route[f] = {} /\ ~(n.nat[f] > 0)
    BY <1>2 DEF Clean, CleanOf, Family
  <2>2. ASSUME NEW f \in Family, NEW h \in Hook, c = HookCmd(f, "unhook", h)
        PROVE  ~Left(n, c)
    BY <2>1, <2>2, LeftKinds
  <2>3. ASSUME NEW f \in Family, NEW ch \in Chain, c = IpTables(f, "-F", ch)
        PROVE  ~Left(n, c)
    <3>1. Left(n, IpTables(f, "-F", ch)) <=> n.chain[f][ch] # <<>>
      BY LeftKinds
    <3>2. n.chain[f][ch] = <<>>
      BY <2>1, <2>3
    <3> QED
      BY <2>3, <3>1, <3>2
  <2>8. ASSUME NEW f \in Family, NEW ch \in Chain, c = IpTables(f, "-X", ch)
        PROVE  ~Left(n, c)
    <3>1. Left(n, IpTables(f, "-X", ch)) <=> ch \in n.exists[f]
      BY LeftKinds
    <3>2. ch \notin n.exists[f]
      BY <2>1, <2>8
    <3> QED
      BY <2>8, <3>1, <3>2
  <2>4. ASSUME NEW f \in Family, c = IpRule(f, "rule delete", e)
        PROVE  ~Left(n, c)
    BY <2>1, <2>4, LeftKinds
  <2>5. ASSUME NEW f \in Family, c = IpRoute(f, "route flush", e)
        PROVE  ~Left(n, c)
    BY <2>1, <2>5, LeftKinds
  <2>6. ASSUME NEW f \in Family, c = Plain("unmasquerade", f)
        PROVE  ~Left(n, c)
    BY <2>1, <2>6, LeftKinds
  <2>7. CASE c = Plain("umount", "v4")
    BY <2>1, <2>7, LeftKinds
  <2> QED
    BY <1>2, <2>2, <2>3, <2>4, <2>5, <2>6, <2>7, <2>8, UndoKinds
<1> QED
  BY <1>1, <1>2

(* Nothing that a stop undoes comes to be left by taking away. *)
LEMMA LeftMono ==
  ASSUME NEW n \in Net, NEW m \in Net, NEW e, NEW c, NEW d \in Undo(e),
         m.mounted => n.mounted, \A f \in Family : Removes(n, m, c, f),
         Left(m, d)
  PROVE  Left(n, d)
<1>1. ASSUME NEW f \in Family, NEW h \in Hook, d = HookCmd(f, "unhook", h)
      PROVE  Left(n, d)
  <2>1. m.hook[f][h] > 0
    BY <1>1, LeftKinds
  <2>2. m.hook[f][h] \in Nat /\ n.hook[f][h] \in Nat /\ m.hook[f][h] <= n.hook[f][h]
    BY Parts DEF Removes
  <2>3. n.hook[f][h] > 0
    BY <2>1, <2>2
  <2> QED
    BY <1>1, <2>3, LeftKinds
<1>2. ASSUME NEW f \in Family, NEW ch \in Chain, d = IpTables(f, "-F", ch)
      PROVE  Left(n, d)
  <2>1. Left(m, IpTables(f, "-F", ch)) <=> m.chain[f][ch] # <<>>
    BY LeftKinds
  <2>2. Left(n, IpTables(f, "-F", ch)) <=> n.chain[f][ch] # <<>>
    BY LeftKinds
  <2>3. m.chain[f][ch] = n.chain[f][ch] \/ m.chain[f][ch] = <<>>
    BY DEF Removes
  <2> QED
    BY <1>2, <2>1, <2>2, <2>3
<1>3. ASSUME NEW f \in Family, NEW ch \in Chain, d = IpTables(f, "-X", ch)
      PROVE  Left(n, d)
  <2>1. Left(m, IpTables(f, "-X", ch)) <=> ch \in m.exists[f]
    BY LeftKinds
  <2>2. Left(n, IpTables(f, "-X", ch)) <=> ch \in n.exists[f]
    BY LeftKinds
  <2>3. m.exists[f] \subseteq n.exists[f]
    BY DEF Removes
  <2> QED
    BY <1>3, <2>1, <2>2, <2>3
<1>4. ASSUME NEW f \in Family, d = IpRule(f, "rule delete", e)
      PROVE  Left(n, d)
  <2>1. m.rule[f] # {}
    BY <1>4, LeftKinds
  <2>2. n.rule[f] # {}
    BY <2>1 DEF Removes
  <2> QED
    BY <1>4, <2>2, LeftKinds
<1>5. ASSUME NEW f \in Family, d = IpRoute(f, "route flush", e)
      PROVE  Left(n, d)
  <2>1. m.route[f] # {}
    BY <1>5, LeftKinds
  <2>2. n.route[f] # {}
    BY <2>1 DEF Removes
  <2> QED
    BY <1>5, <2>2, LeftKinds
<1>6. ASSUME NEW f \in Family, d = Plain("unmasquerade", f)
      PROVE  Left(n, d)
  <2>1. m.nat[f] > 0
    BY <1>6, LeftKinds
  <2>2. m.nat[f] \in Nat /\ n.nat[f] \in Nat /\ m.nat[f] <= n.nat[f]
    BY Parts DEF Removes
  <2>3. n.nat[f] > 0
    BY <2>1, <2>2
  <2> QED
    BY <1>6, <2>3, LeftKinds
<1>7. CASE d = Plain("umount", "v4")
  <2>1. "v4" \in Family
    BY DEF Family
  <2> QED
    BY <1>7, <2>1, LeftKinds
<1> QED
  BY <1>1, <1>2, <1>3, <1>4, <1>5, <1>6, <1>7, UndoKinds

(* What c has been done for is no longer left: a hook or a nat rule that   *)
(* was there once, the only lookup or route, or a chain of a family that   *)
(* has no rules and no hooks.                                              *)
LEMMA UndoDone ==
  ASSUME NEW n \in Net, NEW e, NEW c \in Undo(e), NEW m, Does(n, c, m),
         c.op = "unhook" => n.hook[c.fam][c.hook] <= 1,
         c.op # "unhook" => Fits(n, e),
         c.op = "-X" => /\ \A h \in Hook : n.hook[c.fam][h] = 0
                        /\ \A ch \in Chain : n.chain[c.fam][ch] = <<>>
  PROVE  ~Left(m, c)
<1>1. ASSUME NEW f \in Family, NEW h \in Hook, c = HookCmd(f, "unhook", h)
      PROVE  ~Left(m, c)
  <2>1. c.op = "unhook" /\ c.fam = f /\ c.hook = h
    BY <1>1 DEF HookCmd
  <2>2. m.hook = IF n.hook[f][h] > 0
                 THEN [n.hook EXCEPT ![f][h] = @ - 1] ELSE n.hook
    BY <1>1, DoUnhook
  <2>3. n.hook \in [Family -> [Hook -> Nat]] /\ n.hook[f][h] \in Nat /\ n.hook[f][h] <= 1
    BY <2>1, Parts
  <2>4. ~(m.hook[f][h] > 0)
    BY <2>2, <2>3
  <2> QED
    BY <1>1, <2>4, LeftKinds
<1>2. ASSUME NEW f \in Family, NEW ch \in Chain, c = IpTables(f, "-F", ch)
      PROVE  ~Left(m, c)
  <2>1. m.chain = [n.chain EXCEPT ![f][ch] = <<>>]
    BY <1>2, DoFlush
  <2>2. n.chain \in [Family -> [Chain -> Seq(Rule)]]
    BY Parts
  <2>3. m.chain[f][ch] = <<>>
    BY <2>1, <2>2
  <2>4. Left(m, IpTables(f, "-F", ch)) <=> m.chain[f][ch] # <<>>
    BY LeftKinds
  <2> QED
    BY <1>2, <2>3, <2>4
<1>3. ASSUME NEW f \in Family, NEW ch \in Chain, c = IpTables(f, "-X", ch)
      PROVE  ~Left(m, c)
  <2>1. c.op = "-X" /\ c.fam = f
    BY <1>3 DEF IpTables
  <2>2. m.exists = IF n.chain[f][ch] = <<>> /\ ~Referenced(n, f, ch)
                   THEN [n.exists EXCEPT ![f] = @ \ {ch}] ELSE n.exists
    BY <1>3, DoDelete
  <2>3. n.chain[f][ch] = <<>> /\ ~Referenced(n, f, ch)
    <3>1. /\ \A h \in Hook : ~(n.hook[f][h] > 0)
          /\ \A k \in Chain : n.chain[f][k] = <<>>
      BY <2>1
    <3>2. Range(<<>>) = {}
      BY DEF Range
    <3> QED
      BY <3>1, <3>2 DEF Referenced
  <2>4. n.exists \in [Family -> SUBSET Chain]
    BY Parts
  <2>5. ch \notin m.exists[f]
    BY <2>2, <2>3, <2>4
  <2>6. Left(m, IpTables(f, "-X", ch)) <=> ch \in m.exists[f]
    BY LeftKinds
  <2> QED
    BY <1>3, <2>5, <2>6
<1>4. ASSUME NEW f \in Family, c = IpRule(f, "rule delete", e)
      PROVE  ~Left(m, c)
  <2>1. c.op = "rule delete"
    BY <1>4 DEF IpRule
  <2>2. n.rule[f] \subseteq {<<e.fwmark, e.table>>}
    BY <2>1 DEF Fits, FitsOf
  <2>3. m.rule[f] \subseteq n.rule[f] /\ <<e.fwmark, e.table>> \notin m.rule[f]
    BY <1>4, DoRuleDelete
  <2>4. m.rule[f] = {}
    BY <2>2, <2>3
  <2> QED
    BY <1>4, <2>4, LeftKinds
<1>5. ASSUME NEW f \in Family, c = IpRoute(f, "route flush", e)
      PROVE  ~Left(m, c)
  <2>1. c.op = "route flush"
    BY <1>5 DEF IpRoute
  <2>2. n.route[f] \subseteq {e.table}
    BY <2>1 DEF Fits, FitsOf
  <2>3. m.route[f] \subseteq n.route[f] /\ e.table \notin m.route[f]
    BY <1>5, DoRouteFlush
  <2>4. m.route[f] = {}
    BY <2>2, <2>3
  <2> QED
    BY <1>5, <2>4, LeftKinds
<1>6. ASSUME NEW f \in Family, c = Plain("unmasquerade", f)
      PROVE  ~Left(m, c)
  <2>1. c.op = "unmasquerade"
    BY <1>6 DEF Plain
  <2>2. n.nat \in [Family -> Nat] /\ n.nat[f] \in Nat /\ n.nat[f] <= 1
    BY <2>1, Parts DEF Fits, FitsOf
  <2>3. m.nat = IF n.nat[f] > 0 THEN [n.nat EXCEPT ![f] = @ - 1] ELSE n.nat
    BY <1>6, DoUnmasquerade
  <2>4. ~(m.nat[f] > 0)
    BY <2>2, <2>3
  <2> QED
    BY <1>6, <2>4, LeftKinds
<1>7. CASE c = Plain("umount", "v4")
  <2>1. "v4" \in Family
    BY DEF Family
  <2>2. ~m.mounted
    BY <1>7, DoUmount
  <2> QED
    BY <1>7, <2>1, <2>2, LeftKinds
<1> QED
  BY <1>1, <1>2, <1>3, <1>4, <1>5, <1>6, <1>7, UndoKinds

(* What comes, still comes after another command. *)
LEMMA ComesTail ==
  ASSUME NEW S, NEW s \in Seq(S), s # <<>>, NEW d, Comes(s, d), d # Head(s)
  PROVE  Comes(Tail(s), d)
<1>1. d \in Entries(Tail(s))
  BY AfterHead DEF Comes
<1>2. d.op \in {"unhook", "-F"} => Before(Tail(s), {d}, Deletes(d.fam))
  BY AfterHead DEF Comes
<1> QED
  BY <1>1, <1>2 DEF Comes

-----------------------------------------------------------------------------
(* What is hooked once is not hooked again by what is left of a start, and *)
(* so it is with the nat rule.                                             *)
HookLeft(n, s, f) ==
  \A h \in Hook : /\ Once(s, HookCmd(f, "hook", h))
                  /\ n.hook[f][h] > 0 => HookCmd(f, "hook", h) \notin Entries(s)

NatLeft(n, s, f) ==
  /\ Once(s, Plain("masquerade", f))
  /\ n.nat[f] > 0 => Plain("masquerade", f) \notin Entries(s)

(* Nothing comes to be hooked twice. *)
LEMMA HookAdds ==
  ASSUME NEW n \in Net, NEW m \in Net, NEW f \in Family, NEW e,
         NEW S, NEW s \in Seq(S), s # <<>>, NEW c, c = Head(s),
         AddsUse(n, m, c, e, f), HookLeft(n, s, f),
         \A h \in Hook : n.hook[f][h] <= 1
  PROVE  /\ HookLeft(m, Tail(s), f)
         /\ \A h \in Hook : /\ m.hook[f][h] <= 1
                            /\ m.hook[f][h] > 0 =>
                                 n.hook[f][h] > 0 \/ c = HookCmd(f, "hook", h)
<1> SUFFICES ASSUME NEW h \in Hook
             PROVE  /\ Once(Tail(s), HookCmd(f, "hook", h))
                    /\ m.hook[f][h] > 0 => HookCmd(f, "hook", h) \notin Entries(Tail(s))
                    /\ m.hook[f][h] <= 1
                    /\ m.hook[f][h] > 0 =>
                         n.hook[f][h] > 0 \/ c = HookCmd(f, "hook", h)
  BY DEF HookLeft
<1> DEFINE x == HookCmd(f, "hook", h)
           i == n.hook[f][h]
           j == m.hook[f][h]
<1>1. i \in Nat /\ j \in Nat /\ i <= 1
  BY Parts
<1>2. j = i \/ (c = x /\ j = i + 1)
  BY DEF AddsUse
<1>3. Once(s, x) /\ (i > 0 => x \notin Entries(s))
  BY DEF HookLeft
<1> HIDE DEF x, i, j
<1>4. /\ Once(Tail(s), x) /\ (c = x => x \notin Entries(Tail(s)))
      /\ c \in Entries(s) /\ (x \notin Entries(s) => x \notin Entries(Tail(s)))
  BY <1>3, AfterHead
<1>5. CASE j = i
  BY <1>1, <1>3, <1>4, <1>5 DEF x, i, j
<1>6. CASE c = x /\ j = i + 1
  <2>1. ~(i > 0)
    BY <1>3, <1>4, <1>6
  <2>2. j <= 1
    BY <1>1, <1>6, <2>1
  <2> QED
    BY <1>4, <1>6, <2>2 DEF x, i, j
<1> QED
  BY <1>2, <1>5, <1>6

(* Nor the nat rule. *)
LEMMA NatAdds ==
  ASSUME NEW n \in Net, NEW m \in Net, NEW f \in Family, NEW e,
         NEW S, NEW s \in Seq(S), s # <<>>, NEW c, c = Head(s),
         AddsUse(n, m, c, e, f), NatLeft(n, s, f), n.nat[f] <= 1
  PROVE  NatLeft(m, Tail(s), f) /\ m.nat[f] <= 1
<1> DEFINE x == Plain("masquerade", f)
           i == n.nat[f]
           j == m.nat[f]
<1>1. i \in Nat /\ j \in Nat /\ i <= 1
  BY Parts
<1>2. j = i \/ (c = x /\ j = i + 1)
  BY DEF AddsUse
<1>3. Once(s, x) /\ (i > 0 => x \notin Entries(s))
  BY DEF NatLeft
<1> HIDE DEF x, i, j
<1>4. /\ Once(Tail(s), x) /\ (c = x => x \notin Entries(Tail(s)))
      /\ c \in Entries(s) /\ (x \notin Entries(s) => x \notin Entries(Tail(s)))
  BY <1>3, AfterHead
<1>5. CASE j = i
  BY <1>1, <1>3, <1>4, <1>5 DEF x, i, j, NatLeft
<1>6. CASE c = x /\ j = i + 1
  <2>1. ~(i > 0)
    BY <1>3, <1>4, <1>6
  <2>2. j <= 1
    BY <1>1, <1>6, <2>1
  <2> QED
    BY <1>4, <1>6, <2>2 DEF x, i, j, NatLeft
<1> QED
  BY <1>2, <1>5, <1>6

(* The command that makes TPROXY_ENT, for which stop() looks. *)
MakesEnt == IpTables("v4", "-N", "TPROXY_ENT")
HasEnt(n) == Exists(n, "v4", "TPROXY_ENT")

(* IPv4 is hooked at most once, and only while stop() would find out. *)
HookedOnce(n) ==
  \A h \in Hook : n.hook["v4"][h] <= 1 /\ (n.hook["v4"][h] > 0 => HasEnt(n))

Unhooked(n) == \A h \in Hook : n.hook["v4"][h] = 0

(* A start on the way: as long as nobody was killed, it began with a clean *)
(* state, and until it has made TPROXY_ENT it will.                        *)
StartLeft(n, s, first) ==
  /\ HookLeft(n, s, "v4")
  /\ HasEnt(n) \/ \A h \in Hook : Before(s, {MakesEnt}, {HookCmd("v4", "hook", h)})
  /\ First(s, Mount)
  /\ first => /\ \A f \in Family : HookLeft(n, s, f) /\ NatLeft(n, s, f)
              /\ Mount \in Entries(s) => Clean(n)
              /\ (s = <<>> /\ Clean(n)) \/ HasEnt(n) \/ MakesEnt \in Entries(s)

(* A stop on the way: what is left, it will undo. *)
StopLeft(n, s, e, first) ==
  /\ First(s, Guard)
  /\ \A h \in Hook : Left(n, HookCmd("v4", "unhook", h)) =>
                       Comes(s, HookCmd("v4", "unhook", h))
  /\ first => /\ Guard \in Entries(s) /\ ~HasEnt(n) => Clean(n)
              /\ \A c \in Undo(e) : Left(n, c) => Comes(s, c)

(* If c comes first at the head of a list, it does not come again; and if  *)
(* another command is at the head, it does not come at all.                *)
LEMMA FirstTail ==
  ASSUME NEW S, NEW s \in Seq(S), s # <<>>, NEW c, First(s, c)
  PROVE  First(Tail(s), c) /\ c \notin Entries(Tail(s))
<1>1. c \notin Entries(Tail(s))
  BY AfterHead DEF First
<1>2. Once(Tail(s), c)
  BY AfterHead DEF First
<1> QED
  BY <1>1, <1>2 DEF First

(* The commands of the scripts by their name. *)
LEMMA StartOps ==
  ASSUME NEW e \in Environment, NEW c \in StartCmd(e)
  PROVE  c.op # "guard" /\ (c.op = "mount" => c = Mount)
<1>1. ASSUME NEW f \in Family, c \in StartOf(f, e)
      PROVE  c.op # "guard" /\ c.op # "mount"
  <2>1. CASE c \in Calm(f, e)
    BY <2>1, CalmApart
  <2>2. CASE c \in AppendOut(f, Marking \cup Returning)
    BY <2>2, OutKinds
  <2>3. ASSUME NEW h \in Hook, c = HookCmd(f, "hook", h)
        PROVE  c.op # "guard" /\ c.op # "mount"
    BY <2>3, HookApart
  <2> QED
    BY <1>1, <2>1, <2>2, <2>3 DEF StartOf
<1>2. ASSUME NEW f \in Family, c = Plain("masquerade", f)
      PROVE  c.op # "guard" /\ c.op # "mount"
  BY <1>2 DEF Plain
<1>3. CASE c = Plain("sysctl", "v4")
  BY <1>3 DEF Plain
<1>4. CASE c = Mount
  BY <1>4 DEF Mount, Plain
<1> QED
  BY <1>1, <1>2, <1>3, <1>4 DEF StartCmd, Family

(* Neither mounts the script with "stop" anything. *)
LEMMA StopOps ==
  ASSUME NEW e, NEW c \in Undo(e) \cup {Guard}
  PROVE  c.op # "mount" /\ (c \in Undo(e) => c # Guard)
<1>1. Guard.op = "guard"
  BY DEF Guard, Plain
<1> QED
  BY <1>1, UndoKind

(* A command of a start keeps it so. *)
LEMMA StartGoesOn ==
  ASSUME NEW n \in Net, NEW e \in Config, NEW s \in Seq(StartCmd(e)), s # <<>>,
         NEW m, Does(n, Head(s), m), NEW first \in BOOLEAN,
         StartLeft(n, s, first), HookedOnce(n), first => Fits(n, e)
  PROVE  /\ StartLeft(m, Tail(s), first) /\ HookedOnce(m)
         /\ first => Fits(m, e)
<1> DEFINE c == Head(s)
           t == Tail(s)
           S == StartCmd(e)
           hook(h) == HookCmd("v4", "hook", h)
<1>1. e \in Environment /\ c \in S /\ t \in Seq(S) /\ "v4" \in Family
  BY TproxyAssumption, AfterHead DEF Family
<1>2. /\ Adds(n, m, c, e) /\ m \in Net
      /\ \A f \in Family : AddsOut(n, m, c, f) /\ AddsUse(n, m, c, e, f)
  BY <1>1, StartAdds DEF Adds
<1>3. c \in Entries(s) /\ Entries(s) = {c} \cup Entries(t)
  BY AfterHead
<1>4. First(t, Mount) /\ Mount \notin Entries(t)
  BY FirstTail DEF StartLeft
<1>5. HasEnt(n) \/ c = MakesEnt => HasEnt(m)
  <2>1. "TPROXY_ENT" \in Chain
    BY DEF Chain
  <2> QED
    BY <1>1, <1>2, <2>1 DEF AddsOut, HasEnt, Exists, MakesEnt
<1>6. /\ HookLeft(m, t, "v4")
      /\ \A h \in Hook : /\ m.hook["v4"][h] <= 1
                         /\ m.hook["v4"][h] > 0 =>
                              n.hook["v4"][h] > 0 \/ c = HookCmd("v4", "hook", h)
  BY <1>1, <1>2, HookAdds DEF StartLeft, HookedOnce
<1>7. HasEnt(n) \/ \A h \in Hook : Before(s, {MakesEnt}, {hook(h)})
  BY DEF StartLeft
<1> HIDE DEF hook
<1>8. \A h \in Hook : Before(s, {MakesEnt}, {hook(h)}) =>
        c # hook(h) /\ (c = MakesEnt \/ Before(t, {MakesEnt}, {hook(h)}))
  BY AfterHead
<1>9. HasEnt(m) \/ \A h \in Hook : Before(t, {MakesEnt}, {hook(h)})
  BY <1>5, <1>7, <1>8
<1>10. HookedOnce(m)
  <2>1. ASSUME NEW h \in Hook, c = hook(h) PROVE HasEnt(n)
    BY <1>7, <1>8, <2>1
  <2> QED
    BY <1>5, <1>6, <2>1 DEF HookedOnce, hook
<1> HIDE DEF c, t, S
<1>11. ASSUME first
       PROVE  /\ \A f \in Family : HookLeft(m, t, f) /\ NatLeft(m, t, f)
              /\ HasEnt(m) \/ MakesEnt \in Entries(t)
              /\ Fits(m, e)
  <2>1. ASSUME NEW f \in Family
        PROVE  HookLeft(m, t, f) /\ NatLeft(m, t, f) /\ FitsOf(m, e, f)
    <3>1. HookLeft(n, s, f) /\ NatLeft(n, s, f)
      BY <1>11 DEF StartLeft
    <3>2. FitsOf(n, e, f)
      BY <1>11 DEF Fits
    <3>3. AddsUse(n, m, c, e, f)
      BY <1>2
    <3>4. HookLeft(m, t, f) /\ \A h \in Hook : m.hook[f][h] <= 1
      BY <1>2, <3>1, <3>2, <3>3, HookAdds DEF FitsOf, c, t
    <3>5. NatLeft(m, t, f) /\ m.nat[f] <= 1
      BY <1>2, <3>1, <3>2, <3>3, NatAdds DEF FitsOf, c, t
    <3>6. m.rule[f] \subseteq {<<e.fwmark, e.table>>} /\ m.route[f] \subseteq {e.table}
      BY <3>2, <3>3 DEF FitsOf, AddsUse
    <3> QED
      BY <3>4, <3>5, <3>6 DEF FitsOf
  <2>2. HasEnt(m) \/ MakesEnt \in Entries(t)
    BY <1>3, <1>5, <1>11 DEF StartLeft
  <2>3. e.cgroup_mount_point = "cgproxy"
    BY TproxyAssumption
  <2> QED
    BY <2>1, <2>2, <2>3 DEF Fits
<1> QED
  BY <1>4, <1>6, <1>9, <1>10, <1>11 DEF StartLeft, hook, t

(* A command of a stop keeps it so. *)
LEMMA StopGoesOn ==
  ASSUME NEW n \in Net, NEW e, NEW s \in Seq(Undo(e) \cup {Guard}), s # <<>>,
         NEW m, Does(n, Head(s), m), NEW first \in BOOLEAN,
         StopLeft(n, s, e, first), HookedOnce(n), first => Fits(n, e)
  PROVE  /\ StopLeft(m, Tail(s), e, first) /\ HookedOnce(m)
         /\ first => Fits(m, e)
<1> DEFINE c == Head(s)
           t == Tail(s)
           S == Undo(e) \cup {Guard}
           un(h) == HookCmd("v4", "unhook", h)
<1>1. c \in S /\ t \in Seq(S) /\ "v4" \in Family
  BY AfterHead DEF Family
<1>2. First(t, Guard) /\ Guard \notin Entries(t)
  BY FirstTail DEF StopLeft
<1>3. \A h \in Hook : un(h) \in Undo(e) /\ (Left(n, un(h)) => Comes(s, un(h)))
  BY <1>1, UndoHas DEF StopLeft
<1>4. \A d : Comes(s, d) /\ d # c => Comes(t, d)
  BY ComesTail
<1>5. \A d : Comes(s, d) /\ d.op \in {"unhook", "-F"} => c \notin Deletes(d.fam)
  BY AfterHead DEF Comes
<1>6. \A d \in Undo(e) : d # Guard
  BY StopOps
<1> HIDE DEF c, t, S, un
<1>7. CASE c = Guard
  <2>1. m = n
    BY <1>7, DoGuard DEF c
  <2>2. \A h \in Hook : Left(m, un(h)) => Comes(t, un(h))
    BY <1>3, <1>4, <1>6, <1>7, <2>1
  <2>3. first => \A d \in Undo(e) : Left(m, d) => Comes(t, d)
    BY <1>4, <1>6, <1>7, <2>1 DEF StopLeft
  <2> QED
    BY <1>2, <2>1, <2>2, <2>3 DEF StopLeft, un, t
<1>8. CASE c \in Undo(e)
  <2>1. m \in Net /\ (m.mounted => n.mounted) /\ \A f \in Family : Removes(n, m, c, f)
    BY <1>8, StopRemoves DEF c
  <2>2. \A d \in Undo(e) : Left(m, d) => Left(n, d)
    BY <2>1, LeftMono
  <2>3. \A h \in Hook : Left(n, un(h)) => c \notin Deletes("v4")
    <3>1. \A h : un(h).op = "unhook" /\ un(h).fam = "v4"
      BY DEF un, HookCmd
    <3> QED
      BY <1>3, <1>5, <3>1
  <2>4. \A h \in Hook : n.hook["v4"][h] \in Nat /\ m.hook["v4"][h] \in Nat
    BY <1>1, <2>1, Parts
  <2>5. HookedOnce(m)
    <3> SUFFICES ASSUME NEW h \in Hook
                 PROVE  m.hook["v4"][h] <= 1 /\ (m.hook["v4"][h] > 0 => HasEnt(m))
      BY DEF HookedOnce
    <3>1. m.hook["v4"][h] <= n.hook["v4"][h] /\ n.hook["v4"][h] <= 1
      BY <1>1, <2>1 DEF Removes, HookedOnce
    <3>2. m.hook["v4"][h] <= 1
      BY <2>4, <3>1
    <3>3. ASSUME m.hook["v4"][h] > 0 PROVE HasEnt(m)
      <4>1. n.hook["v4"][h] > 0
        BY <2>4, <3>1, <3>3
      <4>2. HasEnt(n) /\ Left(n, un(h))
        BY <1>1, <4>1, LeftKinds DEF HookedOnce, un
      <4>3. c \notin Deletes("v4")
        BY <2>3, <4>2
      <4>4. c # IpTables("v4", "-X", "TPROXY_ENT")
        BY <4>3 DEF Deletes, Chain
      <4> QED
        BY <1>1, <2>1, <4>2, <4>4 DEF Removes, HasEnt, Exists
    <3> QED
      BY <3>2, <3>3
  <2>6. ASSUME NEW h \in Hook, Left(m, un(h)) PROVE Comes(t, un(h))
    <3>1. Left(n, un(h))
      BY <1>3, <2>2, <2>6
    <3>2. CASE c = un(h)
      <4>1. c.op = "unhook" /\ c.fam = "v4" /\ c.hook = h
        BY <3>2 DEF un, HookCmd
      <4>2. n.hook[c.fam][c.hook] <= 1
        BY <4>1 DEF HookedOnce
      <4>3. ~Left(m, c)
        BY <1>8, <4>1, <4>2, UndoDone DEF c
      <4> QED
        BY <2>6, <3>2, <4>3
    <3> QED
      BY <1>3, <1>4, <3>1, <3>2
  <2>7. ASSUME first
        PROVE  Fits(m, e) /\ \A d \in Undo(e) : Left(m, d) => Comes(t, d)
    <3>1. Fits(n, e) /\ \A d \in Undo(e) : Left(n, d) => Comes(s, d)
      BY <2>7 DEF StopLeft
    <3>2. Fits(m, e)
      <4>1. ASSUME NEW f \in Family PROVE FitsOf(m, e, f)
        <5>1. FitsOf(n, e, f) /\ Removes(n, m, c, f)
          BY <2>1, <3>1 DEF Fits
        <5>2. /\ n.nat[f] \in Nat /\ m.nat[f] \in Nat
              /\ \A h \in Hook : n.hook[f][h] \in Nat /\ m.hook[f][h] \in Nat
          BY <2>1, Parts
        <5>3. m.nat[f] <= 1 /\ \A h \in Hook : m.hook[f][h] <= 1
          BY <5>1, <5>2 DEF FitsOf, Removes
        <5>4. m.rule[f] \subseteq {<<e.fwmark, e.table>>} /\ m.route[f] \subseteq {e.table}
          BY <5>1 DEF FitsOf, Removes
        <5> QED
          BY <5>3, <5>4 DEF FitsOf
      <4> QED
        BY <2>1, <3>1, <4>1 DEF Fits
    <3>3. ~Left(m, c)
      <4>1. c.op = "unhook" => n.hook[c.fam][c.hook] <= 1
        <5>1. ASSUME NEW f \in Family, NEW h \in Hook, c = HookCmd(f, "unhook", h)
              PROVE  n.hook[c.fam][c.hook] <= 1
          <6>1. c.fam = f /\ c.hook = h
            BY <5>1 DEF HookCmd
          <6> QED
            BY <3>1, <6>1 DEF Fits, FitsOf
        <5>2. c.op = "unhook" => \E f \in Family : \E h \in Hook : c = HookCmd(f, "unhook", h)
          BY <1>8, UndoKind
        <5> QED
          BY <5>1, <5>2
      <4>2. ASSUME c.op = "-X"
            PROVE  /\ \A h \in Hook : n.hook[c.fam][h] = 0
                   /\ \A ch \in Chain : n.chain[c.fam][ch] = <<>>
        <5>1. PICK f \in Family : c \in Deletes(f) /\ c.fam = f
          BY <1>8, <4>2, UndoKind
        <5>2. ASSUME NEW h \in Hook PROVE n.hook[f][h] = 0
          <6> DEFINE d == HookCmd(f, "unhook", h)
          <6>1. d \in Undo(e) /\ d.op = "unhook" /\ d.fam = f
            BY <5>1, UndoHas DEF HookCmd
          <6> HIDE DEF d
          <6>2. ~Left(n, d)
            BY <1>5, <3>1, <5>1, <6>1
          <6>3. ~(n.hook[f][h] > 0)
            BY <5>1, <6>2, LeftKinds DEF d
          <6>4. n.hook[f][h] \in Nat
            BY <5>1, Parts
          <6> QED
            BY <6>3, <6>4
        <5>3. ASSUME NEW ch \in Chain PROVE n.chain[f][ch] = <<>>
          <6> DEFINE d == IpTables(f, "-F", ch)
          <6>1. d \in Undo(e) /\ d.op = "-F" /\ d.fam = f
            BY <5>1, UndoHas DEF IpTables
          <6> HIDE DEF d
          <6>2. ~Left(n, d)
            BY <1>5, <3>1, <5>1, <6>1
          <6>3. Left(n, d) <=> n.chain[f][ch] # <<>>
            BY <5>1, LeftKinds DEF d
          <6> QED
            BY <6>2, <6>3
        <5> QED
          BY <5>1, <5>2, <5>3
      <4> QED
        BY <1>8, <3>1, <4>1, <4>2, UndoDone DEF c
    <3> QED
      BY <1>4, <2>2, <3>1, <3>2, <3>3
  <2> QED
    BY <1>2, <2>5, <2>6, <2>7 DEF StopLeft, un, t
<1> QED
  BY <1>1, <1>7, <1>8 DEF S

(* A clean state is no obstacle to any stop. *)
LEMMA CleanFits ==
  ASSUME NEW n, NEW e, Clean(n)
  PROVE  Fits(n, e)
BY DEF Clean, CleanOf, Fits, FitsOf

(* A stop begins: what is left, it will undo. *)
LEMMA StopBegins ==
  ASSUME NEW n \in Net, NEW e, NEW first \in BOOLEAN,
         first => Fits(n, e) /\ (Clean(n) \/ HasEnt(n))
  PROVE  StopLeft(n, Stop(e), e, first)
<1> DEFINE s == Stop(e)
<1> HIDE DEF s
<1>1. First(s, Guard)
  BY StopFacts DEF s
<1>2. \A c \in Undo(e) :
        (c.op = "umount" => e.cgroup_mount_point = "cgproxy") => Comes(s, c)
  BY StopFacts DEF s
<1>3. ASSUME NEW h \in Hook PROVE Comes(s, HookCmd("v4", "unhook", h))
  <2>1. "v4" \in Family
    BY DEF Family
  <2>2. HookCmd("v4", "unhook", h) \in Undo(e)
    BY <2>1, UndoHas
  <2>3. HookCmd("v4", "unhook", h).op = "unhook"
    BY DEF HookCmd
  <2> QED
    BY <1>2, <2>2, <2>3
<1>4. ASSUME first, NEW c \in Undo(e), Left(n, c) PROVE Comes(s, c)
  <2>1. c.op = "umount" => n.mounted
    BY <1>4 DEF Left
  <2>2. n.mounted => e.cgroup_mount_point = "cgproxy"
    BY <1>4 DEF Fits
  <2> QED
    BY <1>2, <2>1, <2>2
<1> QED
  BY <1>1, <1>3, <1>4 DEF StopLeft, s

(* A stop that finds no TPROXY_ENT has nothing to undo. *)
LEMMA StopGivesUp ==
  ASSUME NEW n \in Net, NEW e, NEW first \in BOOLEAN, NEW s,
         StopLeft(n, s, e, first), Guard \in Entries(s),
         HookedOnce(n), ~HasEnt(n)
  PROVE  StopLeft(n, <<>>, e, first)
<1>1. First(<<>>, Guard) /\ Guard \notin Entries(<<>>)
  BY NothingLeft DEF First, Once
<1>2. ASSUME NEW h \in Hook PROVE ~Left(n, HookCmd("v4", "unhook", h))
  <2>1. "v4" \in Family
    BY DEF Family
  <2>2. ~(n.hook["v4"][h] > 0)
    BY DEF HookedOnce
  <2> QED
    BY <2>1, <2>2, LeftKinds
<1>3. first => \A c \in Undo(e) : ~Left(n, c)
  BY NoneLeft DEF StopLeft
<1> QED
  BY <1>1, <1>2, <1>3 DEF StopLeft

(* A stop has run to its end: nothing of IPv4 is hooked, and nothing at    *)
(* all is left if nobody was killed.                                       *)
LEMMA StopDone ==
  ASSUME NEW n \in Net, NEW e, NEW first \in BOOLEAN,
         StopLeft(n, <<>>, e, first)
  PROVE  Unhooked(n) /\ (first => Clean(n))
<1>1. \A c : ~Comes(<<>>, c)
  BY NothingLeft DEF Comes
<1>2. ASSUME NEW h \in Hook PROVE n.hook["v4"][h] = 0
  <2>1. "v4" \in Family
    BY DEF Family
  <2>2. ~Left(n, HookCmd("v4", "unhook", h))
    BY <1>1 DEF StopLeft
  <2>3. ~(n.hook["v4"][h] > 0)
    BY <2>1, <2>2, LeftKinds
  <2>4. n.hook["v4"][h] \in Nat
    BY <2>1, Parts
  <2> QED
    BY <2>3, <2>4
<1>3. ASSUME first PROVE Clean(n)
  <2>1. \A c \in Undo(e) : ~Left(n, c)
    BY <1>1, <1>3 DEF StopLeft
  <2> QED
    BY <2>1, NoneLeft
<1> QED
  BY <1>2, <1>3 DEF Unhooked

(* A start begins where a stop has ended. *)
LEMMA StartBegins ==
  ASSUME NEW n \in Net, NEW e \in Config, NEW first \in BOOLEAN,
         Unhooked(n), first => Clean(n)
  PROVE  StartLeft(n, Start(e), first)
<1> DEFINE s == Start(e)
<1> HIDE DEF s
<1>1. /\ \A f \in Family : HookOrder(s, f)
      /\ MakesEnt \in Entries(s) /\ First(s, Mount)
      /\ \A c \in Solo : Once(s, c)
  BY StartFacts DEF s, MakesEnt
<1>2. "v4" \in Family
  BY DEF Family
<1>3. \A f \in Family : \A h \in Hook : Once(s, HookCmd(f, "hook", h))
  BY <1>1 DEF HookOrder
<1>4. \A h \in Hook : Before(s, {MakesEnt}, {HookCmd("v4", "hook", h)})
  BY <1>1, <1>2 DEF HookOrder, MakesEnt
<1>5. \A f \in Family : Once(s, Plain("masquerade", f))
  BY <1>1 DEF Solo
<1>6. HookLeft(n, s, "v4")
  BY <1>2, <1>3 DEF HookLeft, Unhooked
<1>7. ASSUME first, NEW f \in Family PROVE HookLeft(n, s, f) /\ NatLeft(n, s, f)
  <2>1. CleanOf(n, f)
    BY <1>7 DEF Clean
  <2> QED
    BY <1>3, <1>5, <2>1 DEF HookLeft, NatLeft, CleanOf
<1> QED
  BY <1>1, <1>4, <1>6, <1>7 DEF StartLeft, s

(* A start gives up before it has done anything. *)
LEMMA StartGivesUp ==
  ASSUME NEW n \in Net, NEW s, NEW first \in BOOLEAN,
         StartLeft(n, s, first), Mount \in Entries(s)
  PROVE  StartLeft(n, <<>>, first)
<1>1. /\ Entries(<<>>) = {} /\ (\A c : Once(<<>>, c)) /\ \A B, C : Before(<<>>, B, C)
  BY NothingLeft DEF Once, Before
<1>2. \A f : HookLeft(n, <<>>, f) /\ NatLeft(n, <<>>, f)
  BY <1>1 DEF HookLeft, NatLeft
<1>3. First(<<>>, Mount)
  BY <1>1 DEF First
<1>4. first => Clean(n)
  BY DEF StartLeft
<1> QED
  BY <1>1, <1>2, <1>3, <1>4 DEF StartLeft

(* What is left of a stop and of a start, in each phase of the daemon. *)
CleanInv ==
  /\ SpareInv /\ HookedOnce(net)
  /\ crashes = 0 => Fits(net, env)
  /\ phase = "start" => StartLeft(net, Running, crashes = 0)
  /\ Cleaning => StopLeft(net, Running, env, crashes = 0)
  /\ phase = "off" => Unhooked(net) /\ (crashes = 0 => Clean(net))
  /\ phase = "up" /\ ~stopping /\ crashes = 0 => Clean(net) \/ HasEnt(net)

(* At first nothing is there. *)
LEMMA CleanInit == Init => CleanInv
<1> SUFFICES ASSUME Init PROVE CleanInv
  OBVIOUS
<1>1. SpareInv /\ phase = "off" /\ ~stopping
  BY SpareInit, ControlInit
<1>2. net = CleanNet
  BY DEF Init
<1>3. Clean(net)
  <2>1. /\ CleanNet.exists = [f \in Family |-> {}]
        /\ CleanNet.chain = [f \in Family |-> [ch \in Chain |-> <<>>]]
        /\ CleanNet.hook = [f \in Family |-> [h \in Hook |-> 0]]
        /\ CleanNet.rule = [f \in Family |-> {}]
        /\ CleanNet.route = [f \in Family |-> {}]
        /\ CleanNet.nat = [f \in Family |-> 0] /\ CleanNet.mounted = FALSE
    BY DEF CleanNet
  <2> QED
    BY <1>2, <2>1 DEF Clean, CleanOf
<1>4. Unhooked(net)
  BY <1>3 DEF Clean, CleanOf, Unhooked, Family
<1>5. HookedOnce(net)
  BY <1>4 DEF Unhooked, HookedOnce
<1> QED
  BY <1>1, <1>3, <1>4, <1>5, CleanFits DEF CleanInv, Cleaning

(* Every step keeps it. *)
LEMMA CleanStep ==
  ASSUME "signal" \notin Disturbances, CleanInv, [Next]_vars
  PROVE  CleanInv'
<1> DEFINE first == crashes = 0
<1>0. /\ SpareInv' /\ SpareInv /\ Control /\ net \in Net /\ HookedOnce(net)
      /\ first \in BOOLEAN
  BY SpareStep DEF CleanInv, SpareInv
<1>1. CASE UNCHANGED vars
  BY <1>0, <1>1 DEF vars, CleanInv, Running, Cleaning
<1>2. ASSUME NEW x \in Slot, RunCommand(x) PROVE CleanInv'
  <2> DEFINE c == Head(Running)
             s == Running
  <2>1. /\ Running # <<>> /\ (phase = "start" \/ Cleaning)
        /\ UNCHANGED <<config, env, phase, runner, stopping, crashes>>
        /\ \/ /\ UNCHANGED net /\ Running' = <<>>
              /\ (c.op = "guard" /\ ~HasEnt(net)) \/ c.op = "mount"
           \/ Does(net, c, net') /\ Running' = Tail(Running)
    BY <1>0, <1>2, OneScript DEF HasEnt
  <2>2. Cleaning' = Cleaning /\ phase # "off" /\ (phase = "start" => ~Cleaning)
    BY <1>0, <2>1 DEF Cleaning, Control
  <2>3. ~(phase' = "up" /\ ~stopping')
    BY <2>1 DEF Cleaning
  <2> HIDE DEF first
  <2>4. CASE Cleaning
    <3>1. s \in Seq(Undo(env) \cup {Guard}) /\ StopLeft(net, s, env, first)
      BY <1>0, <2>4 DEF SpareInv, CleanInv, first
    <3>2. first => Fits(net, env)
      BY DEF CleanInv, first
    <3>3. c \in Undo(env) \cup {Guard} /\ c \in Entries(s)
      BY <2>1, <3>1, AfterHead
    <3> HIDE DEF c, s
    <3>4. /\ StopLeft(net', Running', env, first) /\ HookedOnce(net')
          /\ first => Fits(net', env)
      <4>1. CASE /\ UNCHANGED net /\ Running' = <<>>
                 /\ (c.op = "guard" /\ ~HasEnt(net)) \/ c.op = "mount"
        <5>1. c = Guard /\ ~HasEnt(net)
          BY <3>3, <4>1, UndoKind, StopOps
        <5>2. StopLeft(net, <<>>, env, first)
          BY <1>0, <3>1, <3>3, <5>1, StopGivesUp DEF first
        <5> QED
          BY <1>0, <3>2, <4>1, <5>2
      <4>2. CASE Does(net, c, net') /\ Running' = Tail(Running)
        <5>1. s # <<>> /\ Does(net, Head(s), net') /\ Running' = Tail(s)
          BY <2>1, <4>2 DEF s, c
        <5> QED
          BY <1>0, <3>1, <3>2, <5>1, StopGoesOn DEF first
      <4> QED
        BY <2>1, <4>1, <4>2
    <3>5. phase' # "start" /\ phase' # "off"
      BY <2>1, <2>2, <2>4
    <3> QED
      BY <1>0, <2>1, <2>3, <3>4, <3>5 DEF CleanInv, first
  <2>5. CASE phase = "start"
    <3>1. s \in Seq(StartCmd(env)) /\ StartLeft(net, s, first)
      BY <1>0, <2>5 DEF SpareInv, CleanInv, first
    <3>2. first => Fits(net, env)
      BY DEF CleanInv, first
    <3>3. c \in StartCmd(env) /\ c \in Entries(s)
      BY <2>1, <3>1, AfterHead
    <3>4. env \in Config /\ env \in Environment
      BY <1>0, <2>5, TproxyAssumption DEF Control
    <3> HIDE DEF c, s
    <3>5. /\ StartLeft(net', Running', first) /\ HookedOnce(net')
          /\ first => Fits(net', env)
      <4>1. CASE /\ UNCHANGED net /\ Running' = <<>>
                 /\ (c.op = "guard" /\ ~HasEnt(net)) \/ c.op = "mount"
        <5>1. c = Mount
          BY <3>3, <3>4, <4>1, StartOps
        <5>2. StartLeft(net, <<>>, first)
          BY <1>0, <3>1, <3>3, <5>1, StartGivesUp DEF first
        <5> QED
          BY <1>0, <3>2, <4>1, <5>2
      <4>2. CASE Does(net, c, net') /\ Running' = Tail(Running)
        <5>1. s # <<>> /\ Does(net, Head(s), net') /\ Running' = Tail(s)
          BY <2>1, <4>2 DEF s, c
        <5> QED
          BY <1>0, <3>1, <3>2, <3>4, <5>1, StartGoesOn DEF first
      <4> QED
        BY <2>1, <4>1, <4>2
    <3>6. ~Cleaning' /\ phase' # "off"
      BY <2>1, <2>2, <2>5
    <3> QED
      BY <1>0, <2>1, <2>3, <3>5, <3>6 DEF CleanInv, first
  <2> QED
    BY <2>1, <2>4, <2>5
<1>3. ASSUME Control', Begins PROVE CleanInv'
  <2>1. /\ net' = net /\ crashes' = crashes /\ phase' # "start" /\ Cleaning'
        /\ Running' = Stop(env')
    BY <1>3 DEF Begins
  <2>2. first => Fits(net, env') /\ (Clean(net) \/ HasEnt(net))
    <3>1. CASE phase \in {"off", "killed"} /\ env' = DefaultEnv
      <4>1. first => phase = "off"
        BY <1>0, <3>1 DEF Control
      <4>2. first => Clean(net)
        BY <4>1 DEF CleanInv
      <4> QED
        BY <4>2, CleanFits
    <3>2. CASE phase = "up" /\ ~stopping /\ UNCHANGED env
      BY <3>2 DEF CleanInv
    <3> QED
      BY <1>3, <3>1, <3>2 DEF Begins
  <2> HIDE DEF first
  <2>3. StopLeft(net, Running', env', first)
    BY <1>0, <2>1, <2>2, StopBegins
  <2>4. phase' # "off" /\ ~(phase' = "up" /\ ~stopping')
    <3>1. phase' = "clean" \/ stopping'
      BY <2>1 DEF Cleaning
    <3>2. stopping' => phase' = "up" \/ phase' = "clean"
      BY <1>3 DEF Control
    <3> QED
      BY <3>1, <3>2
  <2> QED
    BY <1>0, <2>1, <2>2, <2>3, <2>4 DEF CleanInv, first
<1>4. ASSUME Control', Sets PROVE CleanInv'
  <2>1. /\ phase = "clean" /\ Running = <<>> /\ net' = net /\ crashes' = crashes
        /\ phase' = "start" /\ ~stopping' /\ env' \in Config /\ Running' = Start(env')
    BY <1>4 DEF Sets
  <2>2. StopLeft(net, <<>>, env, first)
    BY <2>1 DEF CleanInv, Cleaning
  <2> HIDE DEF first
  <2>3. Unhooked(net) /\ (first => Clean(net))
    BY <1>0, <2>2, StopDone
  <2>4. StartLeft(net, Running', first) /\ (first => Fits(net, env'))
    BY <1>0, <2>1, <2>3, StartBegins, CleanFits
  <2>5. ~Cleaning'
    BY <2>1 DEF Cleaning
  <2> QED
    BY <1>0, <2>1, <2>4, <2>5 DEF CleanInv, first
<1>5. ASSUME Control', Ends PROVE CleanInv'
  <2>1. ~Cleaning' /\ net' = net /\ env' = env
    BY <1>5 DEF Ends
  <2>2. CASE phase = "start" /\ Running = <<>> /\ phase' = "up" /\ UNCHANGED crashes
    <3>1. first => Clean(net) \/ HasEnt(net)
      BY <2>2, NothingLeft DEF CleanInv, StartLeft
    <3> QED
      BY <1>0, <2>1, <2>2, <3>1 DEF CleanInv
  <2>3. CASE stopping /\ Running = <<>> /\ phase' = "off" /\ UNCHANGED crashes
    <3>1. StopLeft(net, <<>>, env, first)
      BY <2>3 DEF CleanInv, Cleaning
    <3> HIDE DEF first
    <3>2. Unhooked(net) /\ (first => Clean(net))
      BY <1>0, <3>1, StopDone
    <3> QED
      BY <1>0, <2>1, <2>3, <3>2 DEF CleanInv, first
  <2>4. CASE phase' = "killed" /\ crashes' = crashes + 1
    <3>1. crashes' # 0
      BY <1>0, <2>4 DEF Control
    <3> QED
      BY <1>0, <2>1, <2>4, <3>1 DEF CleanInv
  <2> QED
    BY <1>5, <2>2, <2>3, <2>4 DEF Ends
<1>6. CASE \/ \E c \in Config : Boot(c) \/ Reload(c)
           \/ BootRejected \/ ToEnv \/ Applied \/ Signal \/ Exit \/ Crash
  BY <1>0, <1>3, <1>4, <1>5, <1>6, Steps
<1> QED
  BY <1>1, <1>2, <1>6 DEF Next

(* When the daemon has stopped and no script runs, the kernel is as it was *)
(* before the daemon was ever started (but for the forwarding switches) if *)
(* the daemon was never killed, whatever configurations were loaded and    *)
(* whatever environment each stop ran in; and after kills nothing of IPv4  *)
(* is hooked.                                                              *)
THEOREM NothingStays ==
  ASSUME "signal" \notin Disturbances
  PROVE  Spec => []StoppedClean
<1>1. Init => CleanInv
  BY CleanInit
<1>2. CleanInv /\ [Next]_vars => CleanInv'
  BY CleanStep
<1>3. CleanInv => StoppedClean
  <2> SUFFICES ASSUME CleanInv, phase = "off"
               PROVE  /\ net.hook["v4"] = CleanNet.hook["v4"]
                      /\ crashes = 0 => [net EXCEPT !.forward = FALSE] = CleanNet
    BY DEF StoppedClean
  <2>1. net \in Net /\ Unhooked(net) /\ (crashes = 0 => Clean(net))
    BY DEF CleanInv, SpareInv
  <2>2. /\ net.exists \in [Family -> SUBSET Chain]
        /\ net.chain \in [Family -> [Chain -> Seq(Rule)]]
        /\ net.hook \in [Family -> [Hook -> Nat]]
        /\ net.rule \in [Family -> Lookups]
        /\ net.route \in [Family -> Tables] /\ net.nat \in [Family -> Nat]
        /\ net.mounted \in BOOLEAN
    BY <2>1, Parts
  <2>3. net.hook["v4"] = CleanNet.hook["v4"]
    <3>1. CleanNet.hook["v4"] = [h \in Hook |-> 0] /\ "v4" \in Family
      BY DEF CleanNet, Family
    <3>2. net.hook["v4"] = [h \in Hook |-> 0]
      BY <2>1, <2>2, <3>1 DEF Unhooked
    <3> QED
      BY <3>1, <3>2
  <2>4. ASSUME Clean(net) PROVE [net EXCEPT !.forward = FALSE] = CleanNet
    <3>1. net.exists = [f \in Family |-> {}]
      BY <2>2, <2>4 DEF Clean, CleanOf
    <3>2. net.chain = [f \in Family |-> [ch \in Chain |-> <<>>]]
      <4>1. ASSUME NEW f \in Family PROVE net.chain[f] = [ch \in Chain |-> <<>>]
        BY <2>2, <2>4 DEF Clean, CleanOf
      <4> QED
        BY <2>2, <4>1
    <3>3. net.hook = [f \in Family |-> [h \in Hook |-> 0]]
      <4>1. ASSUME NEW f \in Family PROVE net.hook[f] = [h \in Hook |-> 0]
        BY <2>2, <2>4 DEF Clean, CleanOf
      <4> QED
        BY <2>2, <4>1
    <3>4. net.rule = [f \in Family |-> {}] /\ net.route = [f \in Family |-> {}]
      BY <2>2, <2>4 DEF Clean, CleanOf
    <3>5. net.nat = [f \in Family |-> 0]
      BY <2>2, <2>4 DEF Clean, CleanOf
    <3>6. net.mounted = FALSE
      BY <2>2, <2>4 DEF Clean
    <3> DEFINE m == [net EXCEPT !.forward = FALSE]
               k == CleanNet
    <3>7. /\ m \in Net /\ m.forward = FALSE
          /\ m.exists = net.exists /\ m.chain = net.chain /\ m.hook = net.hook
          /\ m.rule = net.rule /\ m.route = net.route /\ m.nat = net.nat
          /\ m.mounted = net.mounted
      BY <2>1 DEF Net
    <3>8. /\ k \in Net /\ k.forward = FALSE
          /\ m.exists = k.exists /\ m.chain = k.chain /\ m.hook = k.hook
          /\ m.rule = k.rule /\ m.route = k.route /\ m.nat = k.nat
          /\ m.mounted = k.mounted
      BY <3>1, <3>2, <3>3, <3>4, <3>5, <3>6, <3>7, CleanIsNet DEF CleanNet
    <3> HIDE DEF m, k
    <3>9. m = k
      BY <3>7, <3>8 DEF Net
    <3> QED
      BY <3>9 DEF m, k
  <2> QED
    BY <2>1, <2>3, <2>4
<1> QED
  BY <1>1, <1>2, <1>3, PTL DEF Spec
=============================================================================

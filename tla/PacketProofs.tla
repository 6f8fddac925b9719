---------------------------- MODULE PacketProofs ----------------------------
(***************************************************************************)
(* Proofs about Tproxy, for any configurations and cgroups and as long as  *)
(* no daemon is killed: the proxy gets exactly the packets that the        *)
(* options ask for, and no packet is marked that PREROUTING does not       *)
(* serve.                                                                  *)
(***************************************************************************)
EXTENDS TproxyProofs, SequenceTheorems

-----------------------------------------------------------------------------
(* The chains that a start builds, rule by rule. *)
RuleFor(e, m, j) == [m |-> m, path |-> <<>>, j |-> j, mark |-> e.fwmark]
One(e, m, j) == <<RuleFor(e, m, j)>>

Kept(cgs) == Without(cgs, Range(cgs) \ Existing)
CgroupRule(e, cg, j) == [m |-> "cgroup", path |-> cg, j |-> j, mark |-> e.fwmark]
ForCgroups(e, cgs, j) == [i \in DOMAIN Kept(cgs) |-> CgroupRule(e, Kept(cgs)[i], j)]

EntRules(e) ==
  One(e, "socket", "MARK") \o One(e, "socket", "ACCEPT")
    \o One(e, "tcp", "TPROXY") \o One(e, "udp", "TPROXY")

PreRules(e) ==
  One(e, "dstlocal", "RETURN") \o One(e, "notunicast", "RETURN")
    \o When(TurnsAway(e), One(e, "srcremote", "RETURN"))
    \o When(e.enable_dns, One(e, "dns", "TPROXY_ENT"))
    \o When(e.enable_udp, One(e, "udp", "TPROXY_ENT"))
    \o When(e.enable_tcp, One(e, "tcp", "TPROXY_ENT"))

MarkRules(e) ==
  One(e, "notunicast", "RETURN") \o When(e.enable_dns, One(e, "dns", "MARK"))
    \o When(e.enable_udp, One(e, "udp", "MARK"))
    \o When(e.enable_tcp, One(e, "tcp", "MARK"))

OutRules(e) ==
  One(e, "reply", "RETURN")
    \o (ForCgroups(e, e.cgroup_noproxy, "RETURN")
          \o ForCgroups(e, e.cgroup_proxy, "TPROXY_MARK"))

(* What a start builds for a family before it hooks OUTPUT. *)
Built(n, f, e) ==
  /\ n.chain[f]["TPROXY_ENT"] = EntRules(e)
  /\ n.chain[f]["TPROXY_PRE"] = PreRules(e)
  /\ n.chain[f]["TPROXY_MARK"] = MarkRules(e)
  /\ n.chain[f]["TPROXY_OUT"] = OutRules(e)
  /\ <<e.fwmark, e.table>> \in n.rule[f] /\ e.table \in n.route[f]
  /\ n.hook[f]["PREROUTING"] > 0

Hooked(n, f) == n.hook[f]["OUTPUT"] > 0

(* What it has built when it is through. *)
SetUp(n, e) ==
  n.mounted /\ \A f \in Family : Built(n, f, e) /\ (Hooked(n, f) <=> e.enable_ip[f])

(* Where the commands of s take the kernel's state. *)
Runs(e) == [x \in StartCmd(e) \X Net |-> Effect(x[2], x[1])]
Result(e, s, n) == Fold(Runs(e), s, n)

(* After x, nothing of T follows. *)
Over(s, x, T) ==
  \A i, k \in 1..Len(s) : s[i] = x /\ i < k => s[k] \notin T

HooksOut(f) == HookCmd(f, "hook", "OUTPUT")

(* What is left of a start sets it all up, and OUTPUT is hooked last. *)
StartServes(n, s, e) ==
  \/ s = <<>> /\ Clean(n)
  \/ /\ SetUp(Result(e, s, n), e)
     /\ \A f \in Family : /\ Over(s, HooksOut(f), StartOf(f, e))
                          /\ Hooked(n, f) => Entries(s) \cap StartOf(f, e) = {}

(* y comes right after x, and nothing of T before. *)
PairIn(s, x, y, T) ==
  \E i \in 1..Len(s) : /\ i + 1 \in 1..Len(s) /\ s[i] = x /\ s[i + 1] = y
                       /\ \A k \in 1..Len(s) : k < i => s[k] \notin T

(* OUTPUT is unhooked right after PREROUTING, and first of all. *)
PairAhead(s, f, e) ==
  PairIn(s, HookCmd(f, "unhook", "PREROUTING"), HookCmd(f, "unhook", "OUTPUT"),
         UndoOf(f, e))

StopServes(n, s, f, e) ==
  \/ ~Hooked(n, f)
  \/ s # <<>> /\ Head(s) = HookCmd(f, "unhook", "OUTPUT")
  \/ Built(n, f, e) /\ PairAhead(s, f, e)

ServeInv ==
  /\ CleanInv
  /\ crashes = 0 =>
       /\ phase = "start" => StartServes(net, Running, env)
       /\ Cleaning => \A f \in Family : StopServes(net, Running, f, env)
       /\ phase = "up" /\ ~stopping => Clean(net) \/ SetUp(net, env)

-----------------------------------------------------------------------------
(* What the commands of a start do, one after the other. *)

(* A command takes the kernel from one state to another. *)
LEMMA RunsDoes ==
  ASSUME NEW e \in Environment
  PROVE  /\ Runs(e) \in Stepping(StartCmd(e), Net)
         /\ \A c \in StartCmd(e), n \in Net :
              /\ Runs(e)[<<c, n>>] \in Net
              /\ Does(n, c, Runs(e)[<<c, n>>])
<1>1. ASSUME NEW c \in StartCmd(e), NEW n \in Net PROVE Effect(n, c) \in Net
  <2>1. Does(n, c, Effect(n, c))
    BY DEF Does
  <2> QED
    BY <2>1, StartAdds DEF Adds
<1>2. \A c \in StartCmd(e), n \in Net : Runs(e)[<<c, n>>] = Effect(n, c)
  BY DEF Runs
<1>3. Runs(e) \in [StartCmd(e) \X Net -> Net]
  BY <1>1 DEF Runs
<1> QED
  BY <1>1, <1>2, <1>3 DEF Stepping, Does

(* Nothing of a family changes, but for its nat rule. *)
SameOf(n, m, f) ==
  /\ m.exists[f] = n.exists[f] /\ m.chain[f] = n.chain[f]
  /\ m.hook[f] = n.hook[f] /\ m.rule[f] = n.rule[f] /\ m.route[f] = n.route[f]

(* A command of a start that is not for a family leaves it alone. *)
LEMMA StartApart ==
  ASSUME NEW n \in Net, NEW e \in Environment, NEW f \in Family,
         NEW c \in StartCmd(e) \ StartOf(f, e), NEW m, Does(n, c, m)
  PROVE  SameOf(n, m, f) /\ (n.mounted => m.mounted)
<1>0. /\ n.exists \in [Family -> SUBSET Chain]
      /\ n.chain \in [Family -> [Chain -> Seq(Rule)]]
      /\ n.hook \in [Family -> [Hook -> Nat]]
  BY Parts
<1>1. ASSUME NEW g \in Family, NEW ch \in Chain, c = IpTables(g, "-N", ch), g # f
      PROVE  SameOf(n, m, f) /\ (n.mounted => m.mounted)
  <2>1. Same(n, m, "exists") /\ m.exists = [n.exists EXCEPT ![g] = @ \cup {ch}]
    BY <1>1, DoNew
  <2> QED
    BY <1>0, <1>1, <2>1 DEF Same, SameOf
<1>2. ASSUME NEW g \in Family, NEW ch \in Chain, NEW r \in Rule,
             c = [op |-> "-A", fam |-> g, chain |-> ch, rule |-> r], g # f
      PROVE  SameOf(n, m, f) /\ (n.mounted => m.mounted)
  <2> DEFINE ok == Exists(n, g, ch) /\ (r.j \in Chain => Exists(n, g, r.j))
  <2>1. /\ Same(n, m, "chain")
        /\ m.chain = IF ok THEN [n.chain EXCEPT ![g][ch] = Append(@, r)] ELSE n.chain
    BY <1>2, DoAppend
  <2> HIDE DEF ok
  <2>2. m.chain[f] = n.chain[f]
    BY <1>0, <1>2, <2>1
  <2> QED
    BY <2>1, <2>2 DEF Same, SameOf
<1>3. ASSUME NEW g \in Family, NEW h \in Hook, c = HookCmd(g, "hook", h), g # f
      PROVE  SameOf(n, m, f) /\ (n.mounted => m.mounted)
  <2>1. Same(n, m, "hook") /\ (m.hook = n.hook \/ m.hook = [n.hook EXCEPT ![g][h] = @ + 1])
    BY <1>3, DoHook
  <2>2. m.hook[f] = n.hook[f]
    BY <1>0, <1>3, <2>1
  <2> QED
    BY <2>1, <2>2 DEF Same, SameOf
<1>4. ASSUME NEW g \in Family, c = IpRule(g, "rule add", e), g # f
      PROVE  SameOf(n, m, f) /\ (n.mounted => m.mounted)
  <2>1. Same(n, m, "rule") /\ Ruled(n, m, g, e)
    BY <1>4, DoRule
  <2>2. m.rule[f] = n.rule[f]
    BY <1>4, <2>1 DEF Ruled
  <2> QED
    BY <2>1, <2>2 DEF Same, SameOf
<1>5. ASSUME NEW g \in Family, c = IpRoute(g, "route add", e), g # f
      PROVE  SameOf(n, m, f) /\ (n.mounted => m.mounted)
  <2>1. Same(n, m, "route") /\ Routed(n, m, g, e)
    BY <1>5, DoRoute
  <2>2. m.route[f] = n.route[f]
    BY <1>5, <2>1 DEF Routed
  <2> QED
    BY <2>1, <2>2 DEF Same, SameOf
<1>6. ASSUME NEW g \in Family, c = Plain("masquerade", g)
      PROVE  SameOf(n, m, f) /\ (n.mounted => m.mounted)
  <2>1. Same(n, m, "nat")
    BY <1>6, DoMasquerade
  <2> QED
    BY <2>1 DEF Same, SameOf
<1>7. CASE c \in {Mount, Plain("sysctl", "v4")}
  <2>1. /\ Same(n, m, "mounted") \/ Same(n, m, "forward")
        /\ n.mounted => m.mounted
    BY <1>7, DoMount
  <2> QED
    BY <2>1 DEF Same, SameOf
<1>8. ASSUME NEW g \in Family, c \in StartOf(g, e)
      PROVE  SameOf(n, m, f) /\ (n.mounted => m.mounted)
  <2>0. g # f
    BY <1>8
  <2>1. CASE c \in AppendTo(g, Chain \ {"TPROXY_OUT"}, Rule)
    <3>1. /\ c.chain \in Chain /\ c.rule \in Rule
          /\ c = [op |-> "-A", fam |-> g, chain |-> c.chain, rule |-> c.rule]
      BY <2>1 DEF AppendTo
    <3> QED
      BY <1>2, <2>0, <3>1
  <2>2. CASE c \in AppendOut(g, Marking \cup Returning)
    <3>1. /\ c.rule \in Marking \cup Returning
          /\ c = [op |-> "-A", fam |-> g, chain |-> "TPROXY_OUT", rule |-> c.rule]
      BY <2>2 DEF AppendOut, AppendTo
    <3>2. c.rule \in Rule /\ "TPROXY_OUT" \in Chain
      BY <3>1 DEF Marking, Returning, Rule, RuleOf, Target, Chain
    <3> QED
      BY <1>2, <2>0, <3>1, <3>2
  <2> QED
    BY <1>1, <1>3, <1>4, <1>5, <1>8, <2>0, <2>1, <2>2 DEF StartOf, Calm
<1>9. PICK g \in Family : \/ c \in StartOf(g, e)
                          \/ c = Plain("masquerade", g)
                          \/ c \in {Mount, Plain("sysctl", "v4")}
  BY DEF StartCmd, Family
<1> QED
  BY <1>6, <1>7, <1>8, <1>9

(* So is a family at the end as it was, if nothing is for it. *)
LEMMA ResultStays ==
  ASSUME NEW n \in Net, NEW e \in Environment, NEW f \in Family,
         NEW s \in Seq(StartCmd(e)), Entries(s) \cap StartOf(f, e) = {}
  PROVE  /\ Result(e, s, n) \in Net /\ SameOf(n, Result(e, s, n), f)
         /\ n.mounted => Result(e, s, n).mounted
<1> DEFINE T == {m \in Net : SameOf(n, m, f) /\ (n.mounted => m.mounted)}
           step == Runs(e)
<1>1. step \in Stepping(StartCmd(e), Net)
  BY RunsDoes
<1>2. n \in T
  BY DEF SameOf
<1>3. ASSUME NEW c \in Entries(s), NEW m \in T PROVE step[<<c, m>>] \in T
  <2>1. c \in StartCmd(e) \ StartOf(f, e)
    BY DEF Entries
  <2>2. step[<<c, m>>] \in Net /\ Does(m, c, step[<<c, m>>])
    BY <2>1, RunsDoes
  <2> HIDE DEF step
  <2>3. SameOf(m, step[<<c, m>>], f) /\ (m.mounted => step[<<c, m>>].mounted)
    BY <2>1, <2>2, StartApart
  <2> QED
    BY <1>3, <2>2, <2>3 DEF SameOf
<1>4. T \in SUBSET Net
  OBVIOUS
<1> HIDE DEF T, step
<1>5. Fold(step, s, n) \in T
  BY <1>1, <1>2, <1>3, <1>4, FoldStays
<1> QED
  BY <1>5 DEF T, step, Result

(* What follows, goes on where the first list has ended. *)
LEMMA ResultConcat ==
  ASSUME NEW n \in Net, NEW e \in Environment,
         NEW s \in Seq(StartCmd(e)), NEW t \in Seq(StartCmd(e))
  PROVE  /\ s \o t \in Seq(StartCmd(e)) /\ Result(e, s, n) \in Net
         /\ Result(e, s \o t, n) = Result(e, t, Result(e, s, n))
<1> DEFINE step == Runs(e)
<1>1. step \in Stepping(StartCmd(e), Net)
  BY RunsDoes
<1> HIDE DEF step
<1>2. /\ s \o t \in Seq(StartCmd(e)) /\ Fold(step, s, n) \in Net
      /\ Fold(step, s \o t, n) = Fold(step, t, Fold(step, s, n))
  BY <1>1, FoldConcat
<1> QED
  BY <1>2 DEF Result, step

(* One command does what it does, and no command does nothing. *)
LEMMA ResultOne ==
  ASSUME NEW n \in Net, NEW e \in Environment
  PROVE  /\ Result(e, <<>>, n) = n
         /\ \A c \in StartCmd(e) : /\ Result(e, <<c>>, n) \in Net
                                   /\ Does(n, c, Result(e, <<c>>, n))
<1> DEFINE step == Runs(e)
<1>1. step \in Stepping(StartCmd(e), Net)
  BY RunsDoes
<1>2. \A c \in StartCmd(e) : step[<<c, n>>] \in Net /\ Does(n, c, step[<<c, n>>])
  BY RunsDoes
<1> HIDE DEF step
<1>3. /\ Fold(step, <<>>, n) = n
      /\ \A c \in StartCmd(e) : Fold(step, <<c>>, n) = step[<<c, n>>]
  BY <1>1, FoldOne
<1> QED
  BY <1>2, <1>3 DEF Result, step

(* The states that the commands go through. *)
Goes(e, s, n, W) ==
  W[0] = n /\ \A i \in 1..Len(s) : W[i] = Runs(e)[<<s[i], W[i - 1]>>]

(* They begin with n, and each is made by a command. *)
LEMMA ResultSteps ==
  ASSUME NEW n \in Net, NEW e \in Environment, NEW s \in Seq(StartCmd(e))
  PROVE  Goes(e, s, n, FoldUpTo(Runs(e), s, n))
<1> DEFINE step == Runs(e)
<1>1. step \in Stepping(StartCmd(e), Net)
  BY RunsDoes
<1> HIDE DEF step
<1>2. LET W == FoldUpTo(step, s, n)
      IN  W[0] = n /\ \A i \in 1..Len(s) : W[i] = step[<<s[i], W[i - 1]>>]
  BY <1>1, FoldDef
<1> QED
  BY <1>2 DEF step, Goes

-----------------------------------------------------------------------------
(* How a chain of a family is built: s makes the chains in X, which is ch  *)
(* or none, and adds the rules to ch, where it can.                        *)
Ready(n, f, ch) ==
  /\ ch = "TPROXY_PRE" => Exists(n, f, "TPROXY_ENT")
  /\ ch = "TPROXY_OUT" => Exists(n, f, "TPROXY_MARK")

Grown(n, m, f, X, ch, rules) ==
  /\ m \in Net
  /\ m.exists[f] = n.exists[f] \cup X
  /\ m.chain[f][ch] = n.chain[f][ch] \o rules
  /\ \A x \in Chain \ {ch} : m.chain[f][x] = n.chain[f][x]
  /\ m.hook[f] = n.hook[f] /\ m.rule[f] = n.rule[f] /\ m.route[f] = n.route[f]

Builds(e, f, X, ch, s, rules) ==
  /\ s \in Seq(StartCmd(e)) /\ rules \in Seq(Rule)
  /\ \A c \in Entries(s) : c.op \in {"-N", "-A"}
  /\ \A n \in Net : Ready(n, f, ch) /\ (ch \in X \/ Exists(n, f, ch)) =>
                      Grown(n, Result(e, s, n), f, X, ch, rules)

(* What has grown may grow on. *)
LEMMA GrownOn ==
  ASSUME NEW n \in Net, NEW f \in Family, NEW ch \in Chain, NEW X,
         NEW p \in Seq(Rule), NEW q \in Seq(Rule), NEW m, NEW k,
         Grown(n, m, f, X, ch, p), Grown(m, k, f, {}, ch, q)
  PROVE  Grown(n, k, f, X, ch, p \o q)
<1>1. n.chain[f][ch] \in Seq(Rule)
  BY Parts
<1>2. \A c \in Seq(Rule) : (c \o p) \o q = c \o (p \o q)
  OBVIOUS
<1>3. k.chain[f][ch] = n.chain[f][ch] \o (p \o q)
  BY <1>1, <1>2 DEF Grown
<1> QED
  BY <1>3 DEF Grown

(* A chain is built on. *)
LEMMA BuildsOn ==
  ASSUME NEW e \in Environment, NEW f \in Family, NEW ch \in Chain, NEW X,
         NEW s, NEW p, Builds(e, f, X, ch, s, p),
         NEW t, NEW q, Builds(e, f, {}, ch, t, q)
  PROVE  Builds(e, f, X, ch, s \o t, p \o q)
<1>1. /\ s \in Seq(StartCmd(e)) /\ t \in Seq(StartCmd(e))
      /\ p \in Seq(Rule) /\ q \in Seq(Rule)
  BY DEF Builds
<1>2. s \o t \in Seq(StartCmd(e)) /\ p \o q \in Seq(Rule)
  BY <1>1
<1>3. \A c \in Entries(s \o t) : c.op \in {"-N", "-A"}
  BY <1>1, InConcat DEF Builds
<1>4. ASSUME NEW n \in Net, Ready(n, f, ch), ch \in X \/ Exists(n, f, ch)
      PROVE  Grown(n, Result(e, s \o t, n), f, X, ch, p \o q)
  <2> DEFINE m == Result(e, s, n)
             k == Result(e, t, m)
  <2>1. Grown(n, m, f, X, ch, p)
    BY <1>4 DEF Builds
  <2>2. m \in Net /\ Ready(m, f, ch) /\ Exists(m, f, ch)
    BY <1>4, <2>1 DEF Grown, Ready, Exists
  <2> HIDE DEF m
  <2>3. Grown(m, k, f, {}, ch, q)
    BY <2>2 DEF Builds
  <2>4. Result(e, s \o t, n) = k
    BY <1>1, <1>4, ResultConcat DEF m
  <2> HIDE DEF k
  <2>5. Grown(n, k, f, X, ch, p \o q)
    BY <1>1, <1>4, <2>1, <2>3, GrownOn
  <2> QED
    BY <2>4, <2>5
<1> QED
  BY <1>2, <1>3, <1>4 DEF Builds

(* Nothing builds nothing, so a piece may be left out. *)
LEMMA BuildsWhen ==
  ASSUME NEW e \in Environment, NEW f \in Family, NEW ch \in Chain,
         NEW s, NEW p, Builds(e, f, {}, ch, s, p), NEW b
  PROVE  Builds(e, f, {}, ch, When(b, s), When(b, p))
<1> DEFINE s0 == <<>>
           p0 == <<>>
<1>1. s0 \in Seq(StartCmd(e)) /\ p0 \in Seq(Rule) /\ Entries(s0) = {}
  BY DEF Entries
<1>2. ASSUME NEW n \in Net PROVE Grown(n, Result(e, s0, n), f, {}, ch, p0)
  <2>1. Result(e, s0, n) = n
    BY ResultOne
  <2>2. n.chain[f][ch] \in Seq(Rule)
    BY Parts
  <2>3. n.chain[f][ch] \o p0 = n.chain[f][ch]
    BY <2>2
  <2> HIDE DEF s0, p0
  <2> QED
    BY <2>1, <2>3 DEF Grown
<1>3. Builds(e, f, {}, ch, s0, p0)
  <2> HIDE DEF s0, p0
  <2> QED
    BY <1>1, <1>2 DEF Builds
<1> QED
  BY <1>3 DEF When

(* What it takes for a chain to be jumped to. *)
Jumps(ch, j) ==
  j \in Chain => \/ ch = "TPROXY_PRE" /\ j = "TPROXY_ENT"
                 \/ ch = "TPROXY_OUT" /\ j = "TPROXY_MARK"

(* A rule is added. *)
LEMMA AppendGrows ==
  ASSUME NEW n \in Net, NEW f \in Family, NEW ch \in Chain, NEW r \in Rule,
         Jumps(ch, r.j), Ready(n, f, ch), Exists(n, f, ch),
         NEW c, c = [op |-> "-A", fam |-> f, chain |-> ch, rule |-> r],
         NEW m, Does(n, c, m)
  PROVE  Grown(n, m, f, {}, ch, <<r>>)
<1>1. r.j \in Chain => Exists(n, f, r.j)
  BY DEF Jumps, Ready
<1>2. /\ m \in Net /\ Same(n, m, "chain")
      /\ m.chain = [n.chain EXCEPT ![f][ch] = Append(@, r)]
  BY <1>1, DoAppend
<1>3. n.chain \in [Family -> [Chain -> Seq(Rule)]]
  BY Parts
<1>4. n.chain[f][ch] \in Seq(Rule)
  BY <1>3
<1>5. Append(n.chain[f][ch], r) = n.chain[f][ch] \o <<r>>
  BY <1>4, AppendIsConcat
<1>6. /\ m.chain[f][ch] = Append(n.chain[f][ch], r)
      /\ \A x \in Chain \ {ch} : m.chain[f][x] = n.chain[f][x]
  BY <1>2, <1>3
<1> QED
  BY <1>2, <1>5, <1>6 DEF Grown, Same

(* So a rule builds on the chain that it is for. *)
LEMMA BuildsRule ==
  ASSUME NEW e \in Environment, NEW f \in Family, NEW ch \in Chain,
         NEW m \in Match, NEW j \in Target, Jumps(ch, j),
         ch = "TPROXY_OUT" => j = "RETURN"
  PROVE  Builds(e, f, {}, ch, A(f, e, ch, m, j), One(e, m, j))
<1> DEFINE r == RuleFor(e, m, j)
           c == [op |-> "-A", fam |-> f, chain |-> ch, rule |-> r]
           s == <<c>>
<1>1. r \in Rule /\ r.j = j
  BY DEF RuleFor, Rule, RuleOf, Path, Environment
<1>2. A(f, e, ch, m, j) = s /\ One(e, m, j) = <<r>>
  BY DEF A, One, RuleFor
<1>3. ch = "TPROXY_OUT" => r \in Marking \cup Returning
  BY <1>1 DEF RuleFor, Rule, RuleOf, Returning
<1> HIDE DEF r
<1>4. c \in StartOf(f, e)
  <2>1. CASE ch = "TPROXY_OUT"
    BY <1>3, <2>1 DEF StartOf, AppendOut, AppendTo
  <2>2. CASE ch # "TPROXY_OUT"
    BY <1>1, <2>2 DEF StartOf, Calm, AppendTo
  <2> QED
    BY <2>1, <2>2
<1>5. c \in StartCmd(e) /\ c.op = "-A"
  BY <1>4 DEF StartCmd, Family
<1>6. ASSUME NEW n \in Net, Ready(n, f, ch), Exists(n, f, ch)
      PROVE  Grown(n, Result(e, s, n), f, {}, ch, <<r>>)
  <2> HIDE DEF c
  <2>1. Does(n, c, Result(e, s, n))
    BY <1>5, ResultOne
  <2>2. c = [op |-> "-A", fam |-> f, chain |-> ch, rule |-> r]
    BY DEF c
  <2> HIDE DEF s
  <2> QED
    BY <1>1, <1>6, <2>1, <2>2, AppendGrows
<1> HIDE DEF c
<1>7. s \in Seq(StartCmd(e)) /\ Entries(s) = {c} /\ <<r>> \in Seq(Rule)
  BY <1>1, <1>5, Single
<1> HIDE DEF s
<1> QED
  BY <1>2, <1>5, <1>6, <1>7 DEF Builds

(* And a chain is made. *)
LEMMA BuildsNew ==
  ASSUME NEW e \in Environment, NEW f \in Family, NEW ch \in Chain
  PROVE  Builds(e, f, {ch}, ch, <<IpTables(f, "-N", ch)>>, <<>>)
<1> DEFINE c == IpTables(f, "-N", ch)
           s == <<c>>
           p == <<>>
<1>1. c \in StartCmd(e) /\ c.op = "-N"
  BY DEF StartCmd, StartOf, Calm, Family, IpTables
<1>2. ASSUME NEW n \in Net PROVE Grown(n, Result(e, s, n), f, {ch}, ch, p)
  <2> HIDE DEF c
  <2>1. Does(n, c, Result(e, s, n)) /\ c = IpTables(f, "-N", ch)
    BY <1>1, ResultOne DEF c
  <2> HIDE DEF s
  <2> DEFINE m == Result(e, s, n)
  <2> HIDE DEF m
  <2>2. /\ m \in Net /\ Same(n, m, "exists")
        /\ m.exists = [n.exists EXCEPT ![f] = @ \cup {ch}]
    BY <2>1, DoNew DEF m
  <2>3. m.exists[f] = n.exists[f] \cup {ch}
    BY <2>2, Parts
  <2>4. n.chain[f][ch] \in Seq(Rule)
    BY Parts
  <2>5. n.chain[f][ch] \o p = n.chain[f][ch]
    BY <2>4
  <2> HIDE DEF p
  <2> QED
    BY <2>2, <2>3, <2>5 DEF Grown, Same, m
<1> HIDE DEF c
<1>3. s \in Seq(StartCmd(e)) /\ Entries(s) = {c} /\ p \in Seq(Rule)
  BY <1>1, Single
<1> HIDE DEF s, p
<1>4. Builds(e, f, {ch}, ch, s, p)
  BY <1>1, <1>2, <1>3 DEF Builds
<1> QED
  BY <1>4 DEF c, s, p

(* And a list of rules for cgroups is added. *)
LEMMA BuildsList ==
  ASSUME NEW e \in Environment, NEW f \in Family,
         NEW rules \in Seq(Marking \cup Returning), NEW s,
         s = [i \in DOMAIN rules |-> [op |-> "-A", fam |-> f, chain |-> "TPROXY_OUT",
                                      rule |-> rules[i]]]
  PROVE  Builds(e, f, {}, "TPROXY_OUT", s, rules)
<1> DEFINE N == Len(rules)
           ch == "TPROXY_OUT"
           C == AppendOut(f, Marking \cup Returning)
<1>1. Marking \cup Returning \subseteq Rule /\ \A r \in Marking \cup Returning : Jumps(ch, r.j)
  BY DEF Marking, Returning, Rule, RuleOf, Target, Chain, Jumps
<1>2. C \subseteq StartCmd(e) /\ \A c \in C : c.op = "-A"
  BY DEF StartCmd, StartOf, Family, AppendOut, AppendTo
<1>3. N \in Nat /\ DOMAIN rules = 1..N /\ \A i \in 1..N : rules[i] \in Marking \cup Returning
  OBVIOUS
<1>4. /\ DOMAIN s = 1..N
      /\ \A i \in 1..N : s[i] = [op |-> "-A", fam |-> f, chain |-> ch, rule |-> rules[i]]
  BY <1>3
<1>5. \A i \in 1..N : s[i] \in C
  BY <1>3, <1>4 DEF AppendOut, AppendTo
<1>6. s \in Seq(C) /\ Len(s) = N
  <2> HIDE DEF C, N
  <2> QED
    BY <1>3, <1>4, <1>5
<1> HIDE DEF C
<1>7. s \in Seq(StartCmd(e)) /\ \A c \in Entries(s) : c.op \in {"-N", "-A"}
  BY <1>2, <1>6, Widen
<1>8. rules \in Seq(Rule)
  BY <1>1
<1>9. ch \in Chain
  BY DEF Chain
<1> HIDE DEF ch
<1>10. ASSUME NEW n \in Net, Ready(n, f, ch), Exists(n, f, ch)
       PROVE  Grown(n, Result(e, s, n), f, {}, ch, rules)
  <2> DEFINE W == FoldUpTo(Runs(e), s, n)
             G == {i \in 0..N : Grown(n, W[i], f, {}, ch, SubSeq(rules, 1, i))}
  <2>1. Runs(e) \in Stepping(StartCmd(e), Net)
    BY RunsDoes
  <2>1a. Goes(e, s, n, W)
    BY <1>7, ResultSteps
  <2>2. W[0] = n /\ \A i \in 1..Len(s) : W[i] = Runs(e)[<<s[i], W[i - 1]>>]
    BY <2>1a DEF Goes
  <2> HIDE DEF W, N
  <2>3. 0 \in G
    <3> DEFINE none == SubSeq(rules, 1, 0)
    <3>1. none = <<>>
      BY SubSeqEmpty
    <3>2. n.chain[f][ch] \in Seq(Rule)
      BY <1>9, Parts
    <3>3. n.chain[f][ch] \o none = n.chain[f][ch]
      BY <3>1, <3>2
    <3> HIDE DEF none
    <3>4. Grown(n, n, f, {}, ch, none)
      BY <3>3 DEF Grown
    <3> QED
      BY <1>3, <2>2, <3>4 DEF none
  <2>4. ASSUME NEW i \in 1..N, i - 1 \in G PROVE i \in G
    <3> DEFINE c == s[i]
               r == rules[i]
               m == W[i - 1]
               p == SubSeq(rules, 1, i - 1)
               q == <<r>>
    <3>1. Grown(n, m, f, {}, ch, p)
      BY <2>4
    <3>2. m \in Net /\ Ready(m, f, ch) /\ Exists(m, f, ch)
      BY <1>10, <3>1 DEF Grown, Ready, Exists
    <3>3. c \in StartCmd(e) /\ r \in Rule /\ Jumps(ch, r.j)
      BY <1>1, <1>2, <1>3, <1>5
    <3>4. Does(m, c, W[i])
      BY <1>6, <2>2, <3>2, <3>3, RunsDoes
    <3>5. c = [op |-> "-A", fam |-> f, chain |-> ch, rule |-> r]
      BY <1>4
    <3>6. p \in Seq(Rule) /\ q \in Seq(Rule)
      <4>1. 1 \in Int /\ i - 1 \in Int /\ \A k \in 1..(i - 1) : rules[k] \in Rule
        BY <1>1, <1>3
      <4> QED
        BY <3>3, <4>1, SubSeqProperties
    <3>7. SubSeq(rules, 1, i) = p \o q
      <4>1. 1 \in 1..Len(rules) /\ i \in 1..Len(rules)
        BY <1>3 DEF N
      <4> QED
        BY <1>8, <4>1, SubSeqRecursiveSecond
    <3> HIDE DEF c, r, m, p
    <3>8. Grown(m, W[i], f, {}, ch, q)
      BY <1>9, <3>2, <3>3, <3>4, <3>5, AppendGrows
    <3> HIDE DEF q
    <3>9. Grown(n, W[i], f, {}, ch, p \o q)
      BY <1>9, <1>10, <3>1, <3>6, <3>8, GrownOn
    <3>10. i \in 0..N
      BY <1>3
    <3>11. Grown(n, W[i], f, {}, ch, SubSeq(rules, 1, i))
      BY <3>7, <3>9
    <3> QED
      BY <3>10, <3>11
  <2>5. \A i \in 0..N : i \in G
    <3> HIDE DEF G
    <3> QED
      BY <1>3, <2>3, <2>4, BoundedInduction
  <2>6. Grown(n, W[N], f, {}, ch, SubSeq(rules, 1, N))
    BY <1>3, <2>5
  <2>7. SubSeq(rules, 1, N) = rules
    BY <1>8, SubSeqFull DEF N
  <2> QED
    BY <1>6, <2>6, <2>7 DEF Result, Fold, W
<1> QED
  BY <1>7, <1>8, <1>10 DEF Builds, ch

(* The cgroups that exist each get their rule. *)
LEMMA BuildsCgroups ==
  ASSUME NEW e \in Environment, NEW f \in Family, NEW cgs \in Seq(Path),
         NEW j \in {"RETURN", "TPROXY_MARK"}
  PROVE  Builds(e, f, {}, "TPROXY_OUT", ACgroups(f, e, cgs, j), ForCgroups(e, cgs, j))
<1> DEFINE kept == Kept(cgs)
           rules == ForCgroups(e, cgs, j)
           s == ACgroups(f, e, cgs, j)
<1>1. kept \in Seq(Path)
  <2>1. kept \in Seq(Path \ (Range(cgs) \ Existing))
    BY WithoutClean DEF Kept
  <2> HIDE DEF kept
  <2> QED
    BY <2>1
<1>2. s = [i \in DOMAIN kept |-> [op |-> "-A", fam |-> f, chain |-> "TPROXY_OUT",
                                  rule |-> CgroupRule(e, kept[i], j)]]
  BY DEF ACgroups, Kept, CgroupRule
<1>3. rules = [i \in DOMAIN kept |-> CgroupRule(e, kept[i], j)]
  BY DEF ForCgroups
<1>4. \A cg \in Path : CgroupRule(e, cg, j) \in Marking \cup Returning
  BY DEF CgroupRule, Marking, Returning, RuleOf, Match, Environment
<1> HIDE DEF kept, rules, s
<1>5. DOMAIN kept = 1..Len(kept) /\ Len(kept) \in Nat /\ \A i \in DOMAIN kept : kept[i] \in Path
  BY <1>1
<1>6. rules \in Seq(Marking \cup Returning) /\ DOMAIN rules = DOMAIN kept
  <2> DEFINE S == Marking \cup Returning
  <2>1. \A i \in 1..Len(kept) : CgroupRule(e, kept[i], j) \in S
    BY <1>4, <1>5
  <2> HIDE DEF S
  <2>2. rules \in Seq(S)
    BY <1>3, <1>5, <2>1
  <2> QED
    BY <1>3, <2>2 DEF S
<1>7. s = [i \in DOMAIN rules |-> [op |-> "-A", fam |-> f, chain |-> "TPROXY_OUT",
                                   rule |-> rules[i]]]
  BY <1>2, <1>3, <1>6
<1> QED
  BY <1>6, <1>7, BuildsList DEF rules, s
-----------------------------------------------------------------------------
(* How each chain is built. *)

(* A chain is made, and its first rule added. *)
LEMMA BuildsFirst ==
  ASSUME NEW e \in Environment, NEW f \in Family, NEW ch \in Chain,
         NEW m \in Match, NEW j \in Target, Jumps(ch, j),
         ch = "TPROXY_OUT" => j = "RETURN"
  PROVE  Builds(e, f, {ch}, ch, <<IpTables(f, "-N", ch)>> \o A(f, e, ch, m, j), One(e, m, j))
<1> DEFINE p == <<>>
           q == One(e, m, j)
           a == A(f, e, ch, m, j)
           s == <<IpTables(f, "-N", ch)>>
<1>1. Builds(e, f, {ch}, ch, s, p)
  BY BuildsNew
<1>2. Builds(e, f, {}, ch, a, q)
  BY BuildsRule
<1>3. q \in Seq(Rule)
  BY <1>2 DEF Builds
<1> HIDE DEF q, a, s
<1>4. p \o q = q
  BY <1>3
<1> HIDE DEF p
<1>5. Builds(e, f, {ch}, ch, s \o a, p \o q)
  BY <1>1, <1>2, BuildsOn
<1> QED
  BY <1>4, <1>5 DEF q, a, s

(* TPROXY_ENT *)
LEMMA EntBuilds ==
  ASSUME NEW e \in Environment, NEW f \in Family
  PROVE  Builds(e, f, {"TPROXY_ENT"}, "TPROXY_ENT", StartEnt(f, e), EntRules(e))
<1> DEFINE ch == "TPROXY_ENT"
           s == <<IpTables(f, "-N", ch)>>
           a1 == A(f, e, ch, "socket", "MARK")
           a2 == A(f, e, ch, "socket", "ACCEPT")
           a3 == A(f, e, ch, "tcp", "TPROXY")
           a4 == A(f, e, ch, "udp", "TPROXY")
           r1 == One(e, "socket", "MARK")
           r2 == One(e, "socket", "ACCEPT")
           r3 == One(e, "tcp", "TPROXY")
           r4 == One(e, "udp", "TPROXY")
<1>1. /\ ch \in Chain /\ ch # "TPROXY_OUT"
      /\ {"socket", "tcp", "udp"} \subseteq Match
      /\ {"MARK", "ACCEPT", "TPROXY"} \subseteq Target \ Chain
  BY DEF Chain, Match, Target
<1>2. Builds(e, f, {ch}, ch, s \o a1, r1)
  BY <1>1, BuildsFirst DEF Jumps
<1>3. /\ Builds(e, f, {}, ch, a2, r2) /\ Builds(e, f, {}, ch, a3, r3)
      /\ Builds(e, f, {}, ch, a4, r4)
  BY <1>1, BuildsRule DEF Jumps
<1>4. /\ StartEnt(f, e) = (((s \o a1) \o a2) \o a3) \o a4
      /\ EntRules(e) = ((r1 \o r2) \o r3) \o r4
  BY DEF StartEnt, EntRules
<1> HIDE DEF ch, s, a1, a2, a3, a4, r1, r2, r3, r4
<1>5. Builds(e, f, {ch}, ch, (s \o a1) \o a2, r1 \o r2)
  BY <1>1, <1>2, <1>3, BuildsOn
<1>6. Builds(e, f, {ch}, ch, ((s \o a1) \o a2) \o a3, (r1 \o r2) \o r3)
  BY <1>1, <1>3, <1>5, BuildsOn
<1>7. Builds(e, f, {ch}, ch, (((s \o a1) \o a2) \o a3) \o a4, ((r1 \o r2) \o r3) \o r4)
  BY <1>1, <1>3, <1>6, BuildsOn
<1> QED
  BY <1>4, <1>7 DEF ch

(* TPROXY_MARK *)
LEMMA MarkBuilds ==
  ASSUME NEW e \in Environment, NEW f \in Family
  PROVE  Builds(e, f, {"TPROXY_MARK"}, "TPROXY_MARK", StartMark(f, e), MarkRules(e))
<1> DEFINE ch == "TPROXY_MARK"
           s == <<IpTables(f, "-N", ch)>>
           a1 == A(f, e, ch, "notunicast", "RETURN")
           a2 == When(e.enable_dns, A(f, e, ch, "dns", "MARK"))
           a3 == When(e.enable_udp, A(f, e, ch, "udp", "MARK"))
           a4 == When(e.enable_tcp, A(f, e, ch, "tcp", "MARK"))
           r1 == One(e, "notunicast", "RETURN")
           r2 == When(e.enable_dns, One(e, "dns", "MARK"))
           r3 == When(e.enable_udp, One(e, "udp", "MARK"))
           r4 == When(e.enable_tcp, One(e, "tcp", "MARK"))
<1>1. /\ ch \in Chain /\ ch # "TPROXY_OUT"
      /\ {"notunicast", "dns", "tcp", "udp"} \subseteq Match
      /\ {"MARK", "RETURN"} \subseteq Target \ Chain
  BY DEF Chain, Match, Target
<1>2. Builds(e, f, {ch}, ch, s \o a1, r1)
  BY <1>1, BuildsFirst DEF Jumps
<1>3. ASSUME NEW m \in {"dns", "tcp", "udp"}, NEW b
      PROVE  Builds(e, f, {}, ch, When(b, A(f, e, ch, m, "MARK")), When(b, One(e, m, "MARK")))
  <2>1. Builds(e, f, {}, ch, A(f, e, ch, m, "MARK"), One(e, m, "MARK"))
    BY <1>1, BuildsRule DEF Jumps
  <2> QED
    BY <1>1, <2>1, BuildsWhen
<1>4. /\ StartMark(f, e) = (((s \o a1) \o a2) \o a3) \o a4
      /\ MarkRules(e) = ((r1 \o r2) \o r3) \o r4
  BY DEF StartMark, MarkRules
<1>5. /\ Builds(e, f, {}, ch, a2, r2) /\ Builds(e, f, {}, ch, a3, r3)
      /\ Builds(e, f, {}, ch, a4, r4)
  BY <1>3
<1> HIDE DEF ch, s, a1, a2, a3, a4, r1, r2, r3, r4
<1>6. Builds(e, f, {ch}, ch, (s \o a1) \o a2, r1 \o r2)
  BY <1>1, <1>2, <1>5, BuildsOn
<1>7. Builds(e, f, {ch}, ch, ((s \o a1) \o a2) \o a3, (r1 \o r2) \o r3)
  BY <1>1, <1>5, <1>6, BuildsOn
<1>8. Builds(e, f, {ch}, ch, (((s \o a1) \o a2) \o a3) \o a4, ((r1 \o r2) \o r3) \o r4)
  BY <1>1, <1>5, <1>7, BuildsOn
<1> QED
  BY <1>4, <1>8 DEF ch

(* TPROXY_PRE, which is then hooked *)
LEMMA PreBuilds ==
  ASSUME NEW e \in Environment, NEW f \in Family
  PROVE  \E q : /\ StartPre(f, e) = q \o <<HookCmd(f, "hook", "PREROUTING")>>
                /\ Builds(e, f, {"TPROXY_PRE"}, "TPROXY_PRE", q, PreRules(e))
<1> DEFINE ch == "TPROXY_PRE"
           s == <<IpTables(f, "-N", ch)>>
           a1 == A(f, e, ch, "dstlocal", "RETURN")
           a2 == A(f, e, ch, "notunicast", "RETURN")
           a3 == When(TurnsAway(e), A(f, e, ch, "srcremote", "RETURN"))
           a4 == When(e.enable_dns, A(f, e, ch, "dns", "TPROXY_ENT"))
           a5 == When(e.enable_udp, A(f, e, ch, "udp", "TPROXY_ENT"))
           a6 == When(e.enable_tcp, A(f, e, ch, "tcp", "TPROXY_ENT"))
           r1 == One(e, "dstlocal", "RETURN")
           r2 == One(e, "notunicast", "RETURN")
           r3 == When(TurnsAway(e), One(e, "srcremote", "RETURN"))
           r4 == When(e.enable_dns, One(e, "dns", "TPROXY_ENT"))
           r5 == When(e.enable_udp, One(e, "udp", "TPROXY_ENT"))
           r6 == When(e.enable_tcp, One(e, "tcp", "TPROXY_ENT"))
           hook == <<HookCmd(f, "hook", "PREROUTING")>>
<1>1. /\ ch \in Chain /\ ch # "TPROXY_OUT"
      /\ {"dstlocal", "notunicast", "srcremote", "dns", "tcp", "udp"} \subseteq Match
      /\ {"RETURN", "TPROXY_ENT"} \subseteq Target
      /\ Jumps(ch, "RETURN") /\ Jumps(ch, "TPROXY_ENT")
  BY DEF Chain, Match, Target, Jumps
<1>2. Builds(e, f, {ch}, ch, s \o a1, r1) /\ Builds(e, f, {}, ch, a2, r2)
  BY <1>1, BuildsFirst, BuildsRule
<1>3. ASSUME NEW m \in Match, NEW j \in {"RETURN", "TPROXY_ENT"}, NEW b
      PROVE  Builds(e, f, {}, ch, When(b, A(f, e, ch, m, j)), When(b, One(e, m, j)))
  <2>1. Builds(e, f, {}, ch, A(f, e, ch, m, j), One(e, m, j))
    BY <1>1, BuildsRule
  <2> QED
    BY <1>1, <2>1, BuildsWhen
<1>4. /\ StartPre(f, e) = ((((((s \o a1) \o a2) \o a3) \o a4) \o a5) \o a6) \o hook
      /\ PreRules(e) = ((((r1 \o r2) \o r3) \o r4) \o r5) \o r6
  BY DEF StartPre, PreRules
<1>5. /\ Builds(e, f, {}, ch, a3, r3) /\ Builds(e, f, {}, ch, a4, r4)
      /\ Builds(e, f, {}, ch, a5, r5) /\ Builds(e, f, {}, ch, a6, r6)
  BY <1>1, <1>3
<1> HIDE DEF ch, s, a1, a2, a3, a4, a5, a6, r1, r2, r3, r4, r5, r6, hook
<1>6. Builds(e, f, {ch}, ch, (s \o a1) \o a2, r1 \o r2)
  BY <1>1, <1>2, BuildsOn
<1>7. Builds(e, f, {ch}, ch, ((s \o a1) \o a2) \o a3, (r1 \o r2) \o r3)
  BY <1>1, <1>5, <1>6, BuildsOn
<1>8. Builds(e, f, {ch}, ch, (((s \o a1) \o a2) \o a3) \o a4, ((r1 \o r2) \o r3) \o r4)
  BY <1>1, <1>5, <1>7, BuildsOn
<1>9. Builds(e, f, {ch}, ch, ((((s \o a1) \o a2) \o a3) \o a4) \o a5,
             (((r1 \o r2) \o r3) \o r4) \o r5)
  BY <1>1, <1>5, <1>8, BuildsOn
<1>10. Builds(e, f, {ch}, ch, (((((s \o a1) \o a2) \o a3) \o a4) \o a5) \o a6,
              ((((r1 \o r2) \o r3) \o r4) \o r5) \o r6)
  BY <1>1, <1>5, <1>9, BuildsOn
<1> QED
  BY <1>4, <1>10 DEF ch, hook

(* TPROXY_OUT, which is then hooked if the family is enabled *)
LEMMA OutBuilds ==
  ASSUME NEW e \in Environment, NEW f \in Family
  PROVE  \E q : /\ StartOut(f, e) = q \o When(e.enable_ip[f], <<HooksOut(f)>>)
                /\ Builds(e, f, {"TPROXY_OUT"}, "TPROXY_OUT", q, OutRules(e))
<1> DEFINE ch == "TPROXY_OUT"
           s == <<IpTables(f, "-N", ch)>>
           a1 == A(f, e, ch, "reply", "RETURN")
           a2 == ACgroups(f, e, e.cgroup_noproxy, "RETURN")
           a3 == ACgroups(f, e, e.cgroup_proxy, "TPROXY_MARK")
           r1 == One(e, "reply", "RETURN")
           r2 == ForCgroups(e, e.cgroup_noproxy, "RETURN")
           r3 == ForCgroups(e, e.cgroup_proxy, "TPROXY_MARK")
           hook == When(e.enable_ip[f], <<HooksOut(f)>>)
<1>1. /\ ch \in Chain /\ "reply" \in Match /\ "RETURN" \in Target \ Chain
      /\ e.cgroup_noproxy \in Seq(Path) /\ e.cgroup_proxy \in Seq(Path)
  BY DEF Chain, Match, Target, Environment, Path
<1>2. Builds(e, f, {ch}, ch, s \o a1, r1)
  BY <1>1, BuildsFirst DEF Jumps
<1>3. Builds(e, f, {}, ch, a2, r2) /\ Builds(e, f, {}, ch, a3, r3)
  BY <1>1, BuildsCgroups
<1>4. /\ StartOut(f, e) = ((s \o a1) \o (a2 \o a3)) \o hook
      /\ OutRules(e) = r1 \o (r2 \o r3)
  BY DEF StartOut, OutCgroups, OutRules, HooksOut
<1> HIDE DEF ch, s, a1, a2, a3, r1, r2, r3, hook
<1>5. Builds(e, f, {}, ch, a2 \o a3, r2 \o r3)
  BY <1>1, <1>3, BuildsOn
<1>6. Builds(e, f, {ch}, ch, (s \o a1) \o (a2 \o a3), r1 \o (r2 \o r3))
  BY <1>1, <1>2, <1>5, BuildsOn
<1> QED
  BY <1>4, <1>6 DEF ch, hook
-----------------------------------------------------------------------------
(* How a family is set up. *)

(* OUTPUT is hooked after all that comes in the first of two lists, or     *)
(* nothing of T comes in the second.                                       *)
LEMMA OverConcat ==
  ASSUME NEW S, NEW s \in Seq(S), NEW t \in Seq(S), NEW x, NEW T,
         Over(s, x, T), Over(t, x, T),
         x \notin Entries(s) \/ Entries(t) \cap T = {}
  PROVE  Over(s \o t, x, T)
<1> DEFINE u == s \o t
           M == Len(s)
           N == Len(t)
<1>1. /\ Len(u) = M + N /\ M \in Nat /\ N \in Nat
      /\ \A i \in 1..M : u[i] = s[i]
      /\ \A i \in 1..N : u[M + i] = t[i]
  OBVIOUS
<1> HIDE DEF u
<1> SUFFICES ASSUME NEW i \in 1..Len(u), NEW k \in 1..Len(u), u[i] = x, i < k, u[k] \in T
             PROVE  FALSE
  BY DEF Over, u
<1>2. ASSUME NEW j \in 1..Len(u), j \notin 1..M
      PROVE  \E a \in 1..N : j = M + a /\ u[j] = t[a]
  <2>1. j - M \in 1..N /\ M + (j - M) = j
    BY <1>1, <1>2
  <2>2. u[M + (j - M)] = t[j - M]
    BY <1>1, <2>1
  <2> QED
    BY <2>1, <2>2
<1>3. \A j \in 1..N : t[j] \in Entries(t)
  BY DEF Entries
<1>4. \A j \in 1..M : s[j] \in Entries(s)
  BY DEF Entries
<1>5. CASE k \in 1..M
  <2>1. i \in 1..M
    BY <1>1, <1>5
  <2>2. s[i] = x /\ s[k] \in T
    BY <1>1, <1>5, <2>1
  <2> QED
    BY <1>5, <2>1, <2>2 DEF Over
<1>6. CASE k \notin 1..M
  <2>1. PICK b \in 1..N : k = M + b /\ t[b] \in T
    BY <1>2, <1>6
  <2>2. CASE i \in 1..M
    <3>1. s[i] = x
      BY <1>1, <2>2
    <3>2. x \in Entries(s) /\ t[b] \in Entries(t)
      BY <1>3, <1>4, <2>2, <3>1
    <3> QED
      BY <2>1, <3>2
  <2>3. CASE i \notin 1..M
    <3>1. PICK a \in 1..N : i = M + a /\ t[a] = x
      BY <1>2, <2>3
    <3>2. a < b
      BY <1>1, <2>1, <3>1
    <3> QED
      BY <2>1, <3>1, <3>2 DEF Over
  <2> QED
    BY <2>2, <2>3
<1> QED
  BY <1>5, <1>6

(* Nothing comes after x where x does not come, or alone. *)
LEMMA OverNone ==
  ASSUME NEW S, NEW s \in Seq(S), NEW x, NEW T,
         x \notin Entries(s) \/ Len(s) = 0 \/ Len(s) = 1
  PROVE  Over(s, x, T)
<1>1. Len(s) \in Nat
  OBVIOUS
<1> QED
  BY <1>1 DEF Over, Entries

(* And nothing comes to be after it as the list is run. *)
LEMMA OverTail ==
  ASSUME NEW S, NEW s \in Seq(S), s # <<>>, NEW x, NEW T, Over(s, x, T)
  PROVE  /\ Over(Tail(s), x, T)
         /\ Head(s) = x => Entries(Tail(s)) \cap T = {}
<1> DEFINE t == Tail(s)
<1>1. /\ Len(t) = Len(s) - 1 /\ Len(s) \in Nat /\ Len(s) > 0 /\ Head(s) = s[1]
      /\ \A i \in 1..Len(t) : t[i] = s[i + 1] /\ i + 1 \in 1..Len(s)
  OBVIOUS
<1> HIDE DEF t
<1>2. Over(t, x, T)
  <2> SUFFICES ASSUME NEW i \in 1..Len(t), NEW k \in 1..Len(t), t[i] = x, i < k
               PROVE  t[k] \notin T
    BY DEF Over
  <2>1. /\ s[i + 1] = x /\ i + 1 < k + 1 /\ t[k] = s[k + 1]
        /\ i + 1 \in 1..Len(s) /\ k + 1 \in 1..Len(s)
    BY <1>1
  <2> QED
    BY <2>1 DEF Over
<1>3. ASSUME Head(s) = x, NEW k \in 1..Len(t) PROVE t[k] \notin T
  <2>1. s[1] = x /\ 1 < k + 1 /\ t[k] = s[k + 1] /\ 1 \in 1..Len(s) /\ k + 1 \in 1..Len(s)
    BY <1>1, <1>3
  <2> QED
    BY <2>1 DEF Over
<1> QED
  BY <1>2, <1>3 DEF Entries, t

(* What a family has on the way: the chains with their rules, the lookup   *)
(* and the route, and hooks.                                               *)
Stage(n, f, e, X, ent, pre, mark, out, hooks) ==
  /\ n \in Net /\ n.exists[f] = X
  /\ n.chain[f]["TPROXY_ENT"] = ent /\ n.chain[f]["TPROXY_PRE"] = pre
  /\ n.chain[f]["TPROXY_MARK"] = mark /\ n.chain[f]["TPROXY_OUT"] = out
  /\ <<e.fwmark, e.table>> \in n.rule[f] /\ e.table \in n.route[f]
  /\ \A h \in Hook : n.hook[f][h] > 0 <=> h \in hooks

(* A start adds the lookup and the route first. *)
RuleAdd(f, e)  == IpRule(f, "rule add", e)
RouteAdd(f, e) == IpRoute(f, "route add", e)
Looks(f, e) == <<RuleAdd(f, e), RouteAdd(f, e)>>

(* They are two commands. *)
LEMMA TwoCommands ==
  ASSUME NEW S, NEW x \in S, NEW y \in S
  PROVE  <<x, y>> = <<x>> \o <<y>>
<1>1. <<x, y>> = Append(<<x>>, y)
  OBVIOUS
<1>2. <<x>> \in Seq(S)
  OBVIOUS
<1> DEFINE s == <<x>>
<1> HIDE DEF s
<1>3. Append(s, y) = s \o <<y>>
  BY <1>2, AppendIsConcat DEF s
<1> QED
  BY <1>1, <1>3 DEF s

(* Nothing of a family is there, but perhaps its nat rule. *)
Bare(n, f) ==
  /\ n.exists[f] = {} /\ \A ch \in Chain : n.chain[f][ch] = <<>>
  /\ \A h \in Hook : n.hook[f][h] = 0
  /\ n.rule[f] = {} /\ n.route[f] = {}

(* What a family has afterwards. *)
LEMMA LooksFirst ==
  ASSUME NEW n \in Net, NEW e \in Environment, NEW f \in Family, Bare(n, f),
         NEW k, k = Looks(f, e)
  PROVE  /\ k \in Seq(StartCmd(e)) /\ \A c \in Entries(k) : c.op # "hook"
         /\ Stage(Result(e, k, n), f, e, {}, <<>>, <<>>, <<>>, <<>>, {})
<1> DEFINE c == RuleAdd(f, e)
           d == RouteAdd(f, e)
           s == <<c>>
           t == <<d>>
           m == Result(e, s, n)
           l == Result(e, t, m)
<1>1. c \in Calm(f, e) /\ d \in Calm(f, e)
  BY DEF Calm, RuleAdd, RouteAdd
<1>2. Calm(f, e) \subseteq StartCmd(e) /\ \A x \in Calm(f, e) : x.op # "hook"
  <2>1. Calm(f, e) \subseteq StartCmd(e)
    BY DEF StartCmd, StartOf, Family
  <2> QED
    BY <2>1, CalmApart
<1>3. c \in StartCmd(e) /\ d \in StartCmd(e) /\ c.op # "hook" /\ d.op # "hook"
  BY <1>1, <1>2
<1>4. k = <<c, d>>
  BY DEF Looks
<1>5. Does(n, c, m)
  BY <1>3, ResultOne
<1>6. m \in Net /\ Same(n, m, "rule") /\ Ruled(n, m, f, e)
  <2> HIDE DEF m
  <2>1. c = IpRule(f, "rule add", e)
    BY DEF RuleAdd
  <2> HIDE DEF c
  <2> QED
    BY <1>5, <2>1, DoRule
<1> HIDE DEF m
<1>7. Does(m, d, l)
  BY <1>3, <1>6, ResultOne
<1>8. l \in Net /\ Same(m, l, "route") /\ Routed(m, l, f, e)
  <2> HIDE DEF l
  <2>1. d = IpRoute(f, "route add", e)
    BY DEF RouteAdd
  <2> HIDE DEF d
  <2> QED
    BY <1>6, <1>7, <2>1, DoRoute
<1> HIDE DEF l, c, d
<1>9. s \in Seq(StartCmd(e)) /\ t \in Seq(StartCmd(e))
  BY <1>3, Single
<1>9a. k = s \o t
  BY <1>3, <1>4, TwoCommands
<1>10. \A x \in Entries(k) : x.op # "hook"
  BY <1>3, <1>4, Pair
<1> HIDE DEF s, t
<1>11. k \in Seq(StartCmd(e)) /\ Result(e, k, n) = l
  BY <1>9, <1>9a, ResultConcat DEF m, l
<1>12. Stage(l, f, e, {}, <<>>, <<>>, <<>>, <<>>, {})
  <2>1. <<e.fwmark, e.table>> \in l.rule[f] /\ e.table \in l.route[f]
    BY <1>6, <1>8 DEF Same, Ruled, Routed
  <2>2. l.exists = n.exists /\ l.chain = n.chain /\ l.hook = n.hook
    BY <1>6, <1>8 DEF Same
  <2>3. \A h \in Hook : ~(n.hook[f][h] > 0)
    BY DEF Bare
  <2> QED
    BY <1>8, <2>1, <2>2, <2>3 DEF Stage, Bare, Chain
<1> QED
  BY <1>10, <1>11, <1>12

(* A chain of the family is hooked. *)
LEMMA StageHook ==
  ASSUME NEW n, NEW e \in Environment, NEW f \in Family, NEW h \in Hook, NEW X,
         NEW ent, NEW pre, NEW mark, NEW out, NEW hooks,
         Stage(n, f, e, X, ent, pre, mark, out, hooks), HookOf[h] \in X,
         NEW s, s = <<HookCmd(f, "hook", h)>>
  PROVE  /\ s \in Seq(StartCmd(e))
         /\ Stage(Result(e, s, n), f, e, X, ent, pre, mark, out, hooks \cup {h})
<1> DEFINE c == HookCmd(f, "hook", h)
           m == Result(e, s, n)
<1>1. c \in StartCmd(e) /\ n \in Net
  BY DEF StartCmd, StartOf, Family, Stage
<1>2. Does(n, c, m)
  BY <1>1, ResultOne
<1>3. Exists(n, f, HookOf[h])
  BY DEF Stage, Exists
<1> HIDE DEF m
<1>4. /\ m \in Net /\ Same(n, m, "hook")
      /\ m.hook = [n.hook EXCEPT ![f][h] = @ + 1]
  BY <1>1, <1>2, <1>3, DoHook
<1>5. \A g \in Hook : n.hook[f][g] \in Nat
  BY <1>1, Parts
<1>6. \A g \in Hook : m.hook[f][g] > 0 <=> g = h \/ n.hook[f][g] > 0
  <2>1. m.hook[f][h] = n.hook[f][h] + 1 /\ \A g \in Hook \ {h} : m.hook[f][g] = n.hook[f][g]
    BY <1>1, <1>4, Parts
  <2>2. m.hook[f][h] > 0
    BY <1>5, <2>1
  <2> QED
    BY <2>1, <2>2
<1>7. Stage(m, f, e, X, ent, pre, mark, out, hooks \cup {h})
  BY <1>4, <1>6 DEF Stage, Same
<1>8. s \in Seq(StartCmd(e))
  <2> HIDE DEF c
  <2>1. s = <<c>>
    BY DEF c
  <2> QED
    BY <1>1, <2>1, Single
<1> QED
  BY <1>7, <1>8 DEF m

(* A chain has its rules, and the other things of a family are as before. *)
Made(n, m, f, ch, rules) ==
  /\ m \in Net /\ m.exists[f] = n.exists[f] \cup {ch} /\ m.chain[f][ch] = rules
  /\ \A x \in Chain \ {ch} : m.chain[f][x] = n.chain[f][x]
  /\ m.hook[f] = n.hook[f] /\ m.rule[f] = n.rule[f] /\ m.route[f] = n.route[f]

(* A chain that is made has the rules that are added. *)
LEMMA GrownNew ==
  ASSUME NEW n \in Net, NEW e \in Environment, NEW f \in Family, NEW ch \in Chain,
         NEW s, NEW rules, Builds(e, f, {ch}, ch, s, rules),
         Ready(n, f, ch), n.chain[f][ch] = <<>>,
         NEW m, m = Result(e, s, n)
  PROVE  Made(n, m, f, ch, rules)
<1>1. rules \in Seq(Rule)
  BY DEF Builds
<1>2. Grown(n, m, f, {ch}, ch, rules)
  BY DEF Builds
<1> DEFINE p == <<>>
<1>3. p \o rules = rules
  BY <1>1
<1> HIDE DEF p
<1>4. n.chain[f][ch] = p
  BY DEF p
<1> QED
  BY <1>2, <1>3, <1>4 DEF Grown, Made

(* Each chain is built in its turn. *)
LEMMA FamilyBuilds ==
  ASSUME NEW n \in Net, NEW e \in Environment, NEW f \in Family, Bare(n, f),
         NEW m, m = Result(e, StartFamily(f, e), n)
  PROVE  /\ StartFamily(f, e) \in Seq(StartCmd(e))
         /\ \A T : Over(StartFamily(f, e), HooksOut(f), T)
         /\ m \in Net /\ Built(m, f, e) /\ (Hooked(m, f) <=> e.enable_ip[f])
<1> DEFINE S == StartCmd(e)
           x == HooksOut(f)
           k == Looks(f, e)
           a == StartEnt(f, e)
           h == <<HookCmd(f, "hook", "PREROUTING")>>
           c == StartMark(f, e)
           g == <<x>>
           z == When(e.enable_ip[f], g)
           en == EntRules(e)
           pr == PreRules(e)
           ma == MarkRules(e)
           ou == OutRules(e)
<1>0. /\ {"TPROXY_ENT", "TPROXY_PRE", "TPROXY_MARK", "TPROXY_OUT"} = Chain
      /\ {"PREROUTING", "OUTPUT"} \subseteq Hook
      /\ HookOf["PREROUTING"] = "TPROXY_PRE" /\ HookOf["OUTPUT"] = "TPROXY_OUT"
  BY DEF Chain, Hook, HookOf
<1>1. PICK b : StartPre(f, e) = b \o h /\ Builds(e, f, {"TPROXY_PRE"}, "TPROXY_PRE", b, pr)
  BY PreBuilds
<1>2. PICK d : StartOut(f, e) = d \o z /\ Builds(e, f, {"TPROXY_OUT"}, "TPROXY_OUT", d, ou)
  BY OutBuilds
<1>3. /\ Builds(e, f, {"TPROXY_ENT"}, "TPROXY_ENT", a, en)
      /\ Builds(e, f, {"TPROXY_MARK"}, "TPROXY_MARK", c, ma)
  BY EntBuilds, MarkBuilds
<1>4. StartFamily(f, e) = (((k \o a) \o (b \o h)) \o c) \o (d \o z)
  BY <1>1, <1>2 DEF StartFamily, Looks, RuleAdd, RouteAdd
<1> DEFINE n1 == Result(e, k, n)
           n2 == Result(e, a, n1)
           n3 == Result(e, b, n2)
           n4 == Result(e, h, n3)
           n5 == Result(e, c, n4)
           n6 == Result(e, d, n5)
           n7 == Result(e, z, n6)
           E == <<>>
<1> HIDE DEF en, pr, ma, ou, S, k, a, c, z, h, g, x
<1>5. /\ k \in Seq(S) /\ (\A w \in Entries(k) : w.op # "hook")
      /\ Stage(n1, f, e, {}, E, E, E, E, {})
  BY LooksFirst DEF k, S, E
<1> HIDE DEF n1, E
<1>6. Stage(n2, f, e, {"TPROXY_ENT"}, en, E, E, E, {})
  <2>1. n1 \in Net /\ n1.chain[f]["TPROXY_ENT"] = E /\ Ready(n1, f, "TPROXY_ENT")
    BY <1>5 DEF Stage, Ready
  <2>1a. "TPROXY_ENT" \in Chain
    BY <1>0
  <2>1b. Made(n1, n2, f, "TPROXY_ENT", en)
    BY <1>3, <2>1, <2>1a, GrownNew DEF E
  <2> HIDE DEF n2
  <2>2. /\ n2 \in Net /\ n2.exists[f] = n1.exists[f] \cup {"TPROXY_ENT"}
        /\ n2.chain[f]["TPROXY_ENT"] = en
        /\ \A ch \in Chain \ {"TPROXY_ENT"} : n2.chain[f][ch] = n1.chain[f][ch]
        /\ n2.hook[f] = n1.hook[f] /\ n2.rule[f] = n1.rule[f] /\ n2.route[f] = n1.route[f]
    BY <2>1b DEF Made
  <2>3. n2.exists[f] = {"TPROXY_ENT"}
    BY <1>0, <1>5, <2>2 DEF Stage
  <2>4. "TPROXY_PRE" \in Chain \ {"TPROXY_ENT"} /\ "TPROXY_MARK" \in Chain \ {"TPROXY_ENT"}
        /\ "TPROXY_OUT" \in Chain \ {"TPROXY_ENT"}
    BY <1>0
  <2>5. /\ n2.chain[f]["TPROXY_PRE"] = n1.chain[f]["TPROXY_PRE"]
        /\ n2.chain[f]["TPROXY_MARK"] = n1.chain[f]["TPROXY_MARK"]
        /\ n2.chain[f]["TPROXY_OUT"] = n1.chain[f]["TPROXY_OUT"]
    BY <2>2, <2>4
  <2>6. /\ n2.chain[f]["TPROXY_ENT"] = en
        /\ n2.chain[f]["TPROXY_PRE"] = E
        /\ n2.chain[f]["TPROXY_MARK"] = E
        /\ n2.chain[f]["TPROXY_OUT"] = E
    BY <1>5, <2>2, <2>5 DEF Stage
  <2>7. /\ <<e.fwmark, e.table>> \in n2.rule[f] /\ e.table \in n2.route[f]
        /\ \A w \in Hook : n2.hook[f][w] > 0 <=> w \in {}
    BY <1>5, <2>2 DEF Stage
  <2> QED
    BY <2>2, <2>3, <2>6, <2>7 DEF Stage
<1> HIDE DEF n2
<1>7. Stage(n3, f, e, {"TPROXY_ENT", "TPROXY_PRE"}, en, pr, E, E, {})
  <2>1. n2 \in Net /\ n2.chain[f]["TPROXY_PRE"] = E /\ Ready(n2, f, "TPROXY_PRE")
    BY <1>6 DEF Stage, Ready, Exists
  <2>1a. "TPROXY_PRE" \in Chain
    BY <1>0
  <2>1b. Made(n2, n3, f, "TPROXY_PRE", pr)
    BY <1>1, <2>1, <2>1a, GrownNew DEF E
  <2> HIDE DEF n3
  <2>2. /\ n3 \in Net /\ n3.exists[f] = n2.exists[f] \cup {"TPROXY_PRE"}
        /\ n3.chain[f]["TPROXY_PRE"] = pr
        /\ \A ch \in Chain \ {"TPROXY_PRE"} : n3.chain[f][ch] = n2.chain[f][ch]
        /\ n3.hook[f] = n2.hook[f] /\ n3.rule[f] = n2.rule[f] /\ n3.route[f] = n2.route[f]
    BY <2>1b DEF Made
  <2>3. n3.exists[f] = {"TPROXY_ENT", "TPROXY_PRE"}
    BY <1>0, <1>6, <2>2 DEF Stage
  <2>4. "TPROXY_ENT" \in Chain \ {"TPROXY_PRE"} /\ "TPROXY_MARK" \in Chain \ {"TPROXY_PRE"}
        /\ "TPROXY_OUT" \in Chain \ {"TPROXY_PRE"}
    BY <1>0
  <2>5. /\ n3.chain[f]["TPROXY_ENT"] = n2.chain[f]["TPROXY_ENT"]
        /\ n3.chain[f]["TPROXY_MARK"] = n2.chain[f]["TPROXY_MARK"]
        /\ n3.chain[f]["TPROXY_OUT"] = n2.chain[f]["TPROXY_OUT"]
    BY <2>2, <2>4
  <2>6. /\ n3.chain[f]["TPROXY_ENT"] = en
        /\ n3.chain[f]["TPROXY_PRE"] = pr
        /\ n3.chain[f]["TPROXY_MARK"] = E
        /\ n3.chain[f]["TPROXY_OUT"] = E
    BY <1>6, <2>2, <2>5 DEF Stage
  <2>7. /\ <<e.fwmark, e.table>> \in n3.rule[f] /\ e.table \in n3.route[f]
        /\ \A w \in Hook : n3.hook[f][w] > 0 <=> w \in {}
    BY <1>6, <2>2 DEF Stage
  <2> QED
    BY <2>2, <2>3, <2>6, <2>7 DEF Stage
<1> HIDE DEF n3
<1>8. /\ h \in Seq(S)
      /\ Stage(n4, f, e, {"TPROXY_ENT", "TPROXY_PRE"}, en, pr, E, E, {"PREROUTING"})
  <2>1. HookOf["PREROUTING"] \in {"TPROXY_ENT", "TPROXY_PRE"} /\ "PREROUTING" \in Hook
    BY <1>0
  <2>2. h = <<HookCmd(f, "hook", "PREROUTING")>>
    BY DEF h
  <2>3. {} \cup {"PREROUTING"} = {"PREROUTING"}
    OBVIOUS
  <2>4. /\ h \in Seq(S)
        /\ Stage(n4, f, e, {"TPROXY_ENT", "TPROXY_PRE"}, en, pr, E, E, {} \cup {"PREROUTING"})
    BY <1>7, <2>1, <2>2, StageHook DEF S
  <2> QED
    BY <2>3, <2>4
<1> HIDE DEF n4
<1>9. Stage(n5, f, e, {"TPROXY_ENT", "TPROXY_PRE", "TPROXY_MARK"}, en, pr, ma, E, {"PREROUTING"})
  <2>1. n4 \in Net /\ n4.chain[f]["TPROXY_MARK"] = E /\ Ready(n4, f, "TPROXY_MARK")
    BY <1>8 DEF Stage, Ready
  <2>1a. "TPROXY_MARK" \in Chain
    BY <1>0
  <2>1b. Made(n4, n5, f, "TPROXY_MARK", ma)
    BY <1>3, <2>1, <2>1a, GrownNew DEF E
  <2> HIDE DEF n5
  <2>2. /\ n5 \in Net /\ n5.exists[f] = n4.exists[f] \cup {"TPROXY_MARK"}
        /\ n5.chain[f]["TPROXY_MARK"] = ma
        /\ \A ch \in Chain \ {"TPROXY_MARK"} : n5.chain[f][ch] = n4.chain[f][ch]
        /\ n5.hook[f] = n4.hook[f] /\ n5.rule[f] = n4.rule[f] /\ n5.route[f] = n4.route[f]
    BY <2>1b DEF Made
  <2>3. n5.exists[f] = {"TPROXY_ENT", "TPROXY_PRE", "TPROXY_MARK"}
    BY <1>0, <1>8, <2>2 DEF Stage
  <2>4. "TPROXY_ENT" \in Chain \ {"TPROXY_MARK"} /\ "TPROXY_PRE" \in Chain \ {"TPROXY_MARK"}
        /\ "TPROXY_OUT" \in Chain \ {"TPROXY_MARK"}
    BY <1>0
  <2>5. /\ n5.chain[f]["TPROXY_ENT"] = n4.chain[f]["TPROXY_ENT"]
        /\ n5.chain[f]["TPROXY_PRE"] = n4.chain[f]["TPROXY_PRE"]
        /\ n5.chain[f]["TPROXY_OUT"] = n4.chain[f]["TPROXY_OUT"]
    BY <2>2, <2>4
  <2>6. /\ n5.chain[f]["TPROXY_ENT"] = en
        /\ n5.chain[f]["TPROXY_PRE"] = pr
        /\ n5.chain[f]["TPROXY_MARK"] = ma
        /\ n5.chain[f]["TPROXY_OUT"] = E
    BY <1>8, <2>2, <2>5 DEF Stage
  <2>7. /\ <<e.fwmark, e.table>> \in n5.rule[f] /\ e.table \in n5.route[f]
        /\ \A w \in Hook : n5.hook[f][w] > 0 <=> w \in {"PREROUTING"}
    BY <1>8, <2>2 DEF Stage
  <2> QED
    BY <2>2, <2>3, <2>6, <2>7 DEF Stage
<1> HIDE DEF n5
<1>10. Stage(n6, f, e, Chain, en, pr, ma, ou, {"PREROUTING"})
  <2>1. n5 \in Net /\ n5.chain[f]["TPROXY_OUT"] = E /\ Ready(n5, f, "TPROXY_OUT")
    BY <1>9 DEF Stage, Ready, Exists
  <2>1a. "TPROXY_OUT" \in Chain
    BY <1>0
  <2>1b. Made(n5, n6, f, "TPROXY_OUT", ou)
    BY <1>2, <2>1, <2>1a, GrownNew DEF E
  <2> HIDE DEF n6
  <2>2. /\ n6 \in Net /\ n6.exists[f] = n5.exists[f] \cup {"TPROXY_OUT"}
        /\ n6.chain[f]["TPROXY_OUT"] = ou
        /\ \A ch \in Chain \ {"TPROXY_OUT"} : n6.chain[f][ch] = n5.chain[f][ch]
        /\ n6.hook[f] = n5.hook[f] /\ n6.rule[f] = n5.rule[f] /\ n6.route[f] = n5.route[f]
    BY <2>1b DEF Made
  <2>3. n6.exists[f] = Chain
    BY <1>0, <1>9, <2>2 DEF Stage
  <2>4. "TPROXY_ENT" \in Chain \ {"TPROXY_OUT"} /\ "TPROXY_PRE" \in Chain \ {"TPROXY_OUT"}
        /\ "TPROXY_MARK" \in Chain \ {"TPROXY_OUT"}
    BY <1>0
  <2>5. /\ n6.chain[f]["TPROXY_ENT"] = n5.chain[f]["TPROXY_ENT"]
        /\ n6.chain[f]["TPROXY_PRE"] = n5.chain[f]["TPROXY_PRE"]
        /\ n6.chain[f]["TPROXY_MARK"] = n5.chain[f]["TPROXY_MARK"]
    BY <2>2, <2>4
  <2>6. /\ n6.chain[f]["TPROXY_ENT"] = en
        /\ n6.chain[f]["TPROXY_PRE"] = pr
        /\ n6.chain[f]["TPROXY_MARK"] = ma
        /\ n6.chain[f]["TPROXY_OUT"] = ou
    BY <1>9, <2>2, <2>5 DEF Stage
  <2>7. /\ <<e.fwmark, e.table>> \in n6.rule[f] /\ e.table \in n6.route[f]
        /\ \A w \in Hook : n6.hook[f][w] > 0 <=> w \in {"PREROUTING"}
    BY <1>9, <2>2 DEF Stage
  <2> QED
    BY <2>2, <2>3, <2>6, <2>7 DEF Stage
<1> HIDE DEF n6
<1>11. /\ g \in Seq(S) /\ Len(g) = 1
       /\ Stage(Result(e, g, n6), f, e, Chain, en, pr, ma, ou, {"PREROUTING"} \cup {"OUTPUT"})
  <2>1. HookOf["OUTPUT"] \in Chain /\ "OUTPUT" \in Hook
    BY <1>0
  <2>2. g = <<HookCmd(f, "hook", "OUTPUT")>> /\ Len(g) = 1
    BY DEF g, x, HooksOut
  <2>4. /\ g \in Seq(S)
        /\ Stage(Result(e, g, n6), f, e, Chain, en, pr, ma, ou, {"PREROUTING"} \cup {"OUTPUT"})
    BY <1>10, <2>1, <2>2, StageHook DEF S
  <2> QED
    BY <2>2, <2>4
<1>12. z \in Seq(S) /\ (Len(z) = 0 \/ Len(z) = 1)
  <2>1. E \in Seq(S) /\ Len(E) = 0
    BY DEF E
  <2>2. g \in Seq(S) /\ Len(g) = 1
    BY <1>11
  <2>3. z = g \/ z = E
    BY DEF z, When, E
  <2>4. z \in Seq(S) /\ (Len(z) = 0 \/ Len(z) = 1)
    BY <2>1, <2>2, <2>3, Zenon
  <2> QED
    BY <2>4
<1>13. /\ n7 \in Net /\ Built(n7, f, e) /\ (Hooked(n7, f) <=> e.enable_ip[f])
  <2>0. ASSUME NEW w, Stage(n7, f, e, Chain, en, pr, ma, ou, w), "PREROUTING" \in w
        PROVE  Built(n7, f, e)
    <3> HIDE DEF n7
    <3>1. n7.hook[f]["PREROUTING"] > 0
      BY <1>0, <2>0 DEF Stage
    <3> QED
      BY <2>0, <3>1 DEF Stage, Built, en, pr, ma, ou
  <2>1. CASE e.enable_ip[f]
    <3>1. n7 = Result(e, g, n6)
      BY <2>1 DEF z, When
    <3> HIDE DEF n7
    <3> QED
      BY <1>0, <1>11, <2>0, <2>1, <3>1 DEF Stage, Hooked
  <2>2. CASE ~e.enable_ip[f]
    <3>1. z = <<>> /\ n6 \in Net
      BY <1>10, <2>2 DEF z, When, Stage
    <3>2. n7 = n6
      BY <3>1, ResultOne
    <3> HIDE DEF n7
    <3> QED
      BY <1>0, <1>10, <2>0, <2>2, <3>2 DEF Stage, Hooked
  <2> QED
    BY <2>1, <2>2
<1>14. /\ a \in Seq(S) /\ b \in Seq(S) /\ c \in Seq(S) /\ d \in Seq(S)
       /\ \A s \in {a, b, c, d} : \A w \in Entries(s) : w.op \in {"-N", "-A"}
  BY <1>1, <1>2, <1>3 DEF Builds, S
<1> DEFINE p1 == k \o a
           p2 == b \o h
           p3 == p1 \o p2
           p4 == p3 \o c
           p5 == d \o z
           all == p4 \o p5
<1>15. /\ p1 \in Seq(S) /\ p2 \in Seq(S) /\ p3 \in Seq(S)
       /\ p4 \in Seq(S) /\ p5 \in Seq(S) /\ all \in Seq(S)
  BY <1>5, <1>8, <1>12, <1>14
<1>16. Result(e, all, n) = n7
  <2>1. Result(e, p1, n) = n2
    BY <1>5, <1>14, ResultConcat DEF n1, n2, S
  <2>2. Result(e, p2, n2) = n4
    BY <1>6, <1>8, <1>14, ResultConcat DEF n3, n4, S, Stage
  <2>3. Result(e, p5, n5) = n7
    BY <1>9, <1>12, <1>14, ResultConcat DEF n6, S, Stage
  <2> HIDE DEF p1, p2, p5, n7
  <2>4. Result(e, p3, n) = n4
    BY <1>15, <2>1, <2>2, ResultConcat DEF S
  <2> HIDE DEF p3
  <2>5. Result(e, p4, n) = n5
    BY <1>14, <1>15, <2>4, ResultConcat DEF n5, S
  <2> HIDE DEF p4
  <2> QED
    BY <1>15, <2>3, <2>5, ResultConcat DEF S
<1>17. ASSUME NEW T PROVE Over(all, x, T)
  <2>1. x.op = "hook" /\ x.hook = "OUTPUT"
    BY DEF x, HooksOut, HookCmd
  <2>2. x \notin Entries(k) /\ x \notin Entries(a) /\ x \notin Entries(b)
        /\ x \notin Entries(c) /\ x \notin Entries(d)
    BY <1>5, <1>14, <2>1
  <2>3. x \notin Entries(h)
    <3> DEFINE y == HookCmd(f, "hook", "PREROUTING")
    <3>1. y.hook = "PREROUTING"
      BY DEF HookCmd
    <3> HIDE DEF y
    <3>2. h = <<y>>
      BY DEF h, y
    <3>3. Entries(h) = {y}
      BY <3>2, Single
    <3> QED
      BY <2>1, <3>1, <3>3
  <2> HIDE DEF p1, p2, p3, p4, p5
  <2>4. x \notin Entries(p1)
    BY <1>5, <1>14, <2>2, InConcat DEF p1
  <2>5. x \notin Entries(p2)
    BY <1>8, <1>14, <2>2, <2>3, InConcat DEF p2
  <2>6. x \notin Entries(p3)
    BY <1>15, <2>4, <2>5, InConcat DEF p3
  <2>7. x \notin Entries(p4)
    BY <1>14, <1>15, <2>2, <2>6, InConcat DEF p4
  <2>8. Over(p4, x, T) /\ Over(d, x, T) /\ Over(z, x, T)
    BY <1>12, <1>14, <1>15, <2>2, <2>7, OverNone
  <2>9. Over(p5, x, T)
    BY <1>12, <1>14, <2>2, <2>8, OverConcat DEF p5
  <2> QED
    BY <1>15, <2>7, <2>8, <2>9, OverConcat
<1>18. StartFamily(f, e) = all
  BY <1>4
<1> HIDE DEF all, n7
<1> QED
  BY <1>13, <1>15, <1>16, <1>17, <1>18 DEF S, x

(* The forwarding is no family's. *)
LEMMA ForwardApart ==
  ASSUME NEW e \in Environment, NEW b \in BOOLEAN, NEW z,
         z = When(b, <<Plain("masquerade", "v4"), Plain("masquerade", "v6"),
                       Plain("sysctl", "v4")>>)
  PROVE  /\ z \in Seq(StartCmd(e))
         /\ \A f \in Family : Entries(z) \cap StartOf(f, e) = {}
<1> DEFINE S == StartCmd(e)
           x == Plain("masquerade", "v4")
           y == Plain("masquerade", "v6")
           w == Plain("sysctl", "v4")
           o == <<>>
<1>1. x \in S /\ y \in S /\ w \in S
  BY DEF StartCmd, Family
<1>2. \A c \in {x, y, w} : c.op \in {"masquerade", "sysctl"}
  BY DEF Plain
<1>3. z = <<x, y, w>> \/ z = o
  BY DEF When
<1> HIDE DEF x, y, w, S
<1>4. <<x, y, w>> \in Seq(S) /\ \A c \in Entries(<<x, y, w>>) : c \in {x, y, w}
  BY <1>1 DEF Entries
<1>5. o \in Seq(S) /\ Entries(o) = {}
  BY DEF Entries
<1> HIDE DEF o
<1>6. z \in Seq(S) /\ \A c \in Entries(z) : c \in {x, y, w}
  BY <1>3, <1>4, <1>5
<1>7. ASSUME NEW f \in Family, NEW c \in Entries(z), c \in StartOf(f, e) PROVE FALSE
  BY <1>2, <1>6, <1>7, StartOfKind
<1> QED
  BY <1>6, <1>7 DEF S

(* OUTPUT is a hook. *)
LEMMA OutputHook == "OUTPUT" \in Hook
BY DEF Hook, HookOf

(* What a family has, it has where the family is the same. *)
LEMMA SameBuilt ==
  ASSUME NEW n, NEW m, NEW e, NEW f \in Family, SameOf(n, m, f)
  PROVE  (Built(m, f, e) <=> Built(n, f, e)) /\ (Hooked(m, f) <=> Hooked(n, f))
BY DEF SameOf, Built, Hooked

(* A start sets up both families, and one leaves the other alone. *)
LEMMA StartSetsUp ==
  ASSUME NEW n \in Net, NEW e \in Config, Clean(n)
  PROVE  StartServes(n, Start(e), e)
<1> DEFINE S == StartCmd(e)
           u == "v4"
           v == "v6"
           p == <<Mount>>
           a == StartFamily(u, e)
           b == StartFamily(v, e)
           z == When(e.enable_gateway,
                     <<Plain("masquerade", "v4"), Plain("masquerade", "v6"),
                       Plain("sysctl", "v4")>>)
           n1 == Result(e, p, n)
           n2 == Result(e, a, n1)
           n3 == Result(e, b, n2)
           n4 == Result(e, z, n3)
<1>0. /\ e \in Environment /\ e.enable_gateway \in BOOLEAN
      /\ u \in Family /\ v \in Family /\ u # v /\ \A f \in Family : f = u \/ f = v
  BY TproxyAssumption DEF Environment, Family
<1>1. Start(e) = ((p \o a) \o b) \o z
  BY DEF Start, Mount
<1>2. z \in Seq(S) /\ \A f \in Family : Entries(z) \cap StartOf(f, e) = {}
  BY <1>0, ForwardApart
<1> HIDE DEF u, v, a, b, z
<1>3. \A f \in Family : CleanOf(n, f)
  BY DEF Clean
<1>4. Mount \in S /\ \A f \in Family : Mount \notin StartOf(f, e)
  <2>1. Mount.op = "mount" /\ Mount \in S
    BY DEF Mount, Plain, StartCmd
  <2> QED
    BY <1>0, <2>1, StartOfKind
<1> HIDE DEF S
<1>5. p \in Seq(S) /\ Entries(p) = {Mount}
  BY <1>4, Single
<1>6. /\ n1 \in Net /\ n1.mounted
      /\ \A f \in Family : Bare(n1, f)
  <2>1. n1 \in Net /\ Does(n, Mount, n1)
    BY <1>0, <1>4, ResultOne DEF S
  <2> DEFINE c == Mount
  <2>2. c \in {Mount, Plain("sysctl", "v4")} /\ c = Mount
    OBVIOUS
  <2> HIDE DEF n1, c
  <2>3. Does(n, c, n1)
    BY <2>1, <2>2
  <2>4. n1.mounted /\ (Same(n, n1, "mounted") \/ Same(n, n1, "forward"))
    BY <2>2, <2>3, DoMount
  <2>5. /\ n1.exists = n.exists /\ n1.chain = n.chain /\ n1.hook = n.hook
        /\ n1.rule = n.rule /\ n1.route = n.route
    BY <2>4 DEF Same
  <2> QED
    BY <1>3, <2>1, <2>4, <2>5 DEF CleanOf, Bare
<1> HIDE DEF n1, p
<1>7. ASSUME NEW f \in Family, NEW g \in Family, f # g
      PROVE  StartOf(f, e) \cap StartOf(g, e) = {}
  BY <1>0, <1>7, StartOfKind
<1>8. /\ a \in Seq(S) /\ \A T : Over(a, HooksOut(u), T)
      /\ n2 \in Net /\ Built(n2, u, e) /\ (Hooked(n2, u) <=> e.enable_ip[u])
  BY <1>0, <1>6, FamilyBuilds DEF a, S
<1>9. Entries(a) \cap StartOf(v, e) = {} /\ Entries(b) \cap StartOf(u, e) = {}
  <2>1. a \in Seq(StartOf(u, e)) /\ b \in Seq(StartOf(v, e))
    BY <1>0, FamilyFacts DEF a, b
  <2>2. Entries(a) \subseteq StartOf(u, e) /\ Entries(b) \subseteq StartOf(v, e)
    BY <2>1 DEF Entries
  <2> QED
    BY <1>0, <1>7, <2>2
<1>10. SameOf(n1, n2, v) /\ n2.mounted
  BY <1>0, <1>6, <1>8, <1>9, ResultStays DEF S
<1> HIDE DEF n2
<1>11. Bare(n2, v)
  <2>1. Bare(n1, v)
    BY <1>0, <1>6
  <2> QED
    BY <1>10, <2>1 DEF Bare, SameOf
<1>12. /\ b \in Seq(S) /\ \A T : Over(b, HooksOut(v), T)
       /\ n3 \in Net /\ Built(n3, v, e) /\ (Hooked(n3, v) <=> e.enable_ip[v])
  BY <1>0, <1>8, <1>11, FamilyBuilds DEF b, S
<1>13. SameOf(n2, n3, u) /\ n3.mounted
  BY <1>0, <1>8, <1>9, <1>10, <1>12, ResultStays DEF S
<1> HIDE DEF n3
<1>14. Built(n3, u, e) /\ (Hooked(n3, u) <=> e.enable_ip[u])
  BY <1>0, <1>8, <1>13, SameBuilt
<1>15. n4.mounted /\ \A f \in Family : SameOf(n3, n4, f)
  BY <1>0, <1>2, <1>12, <1>13, ResultStays DEF S
<1> HIDE DEF n4
<1>16. SetUp(n4, e)
  <2>1. \A f \in Family : Built(n3, f, e) /\ (Hooked(n3, f) <=> e.enable_ip[f])
    BY <1>0, <1>12, <1>14
  <2> QED
    BY <1>15, <2>1, SameBuilt DEF SetUp
<1> DEFINE q == p \o a
           r == q \o b
           s == r \o z
<1>17. q \in Seq(S) /\ r \in Seq(S) /\ s \in Seq(S)
  BY <1>2, <1>5, <1>8, <1>12
<1>18. Result(e, s, n) = n4
  <2>1. Result(e, q, n) = n2
    BY <1>0, <1>5, <1>8, ResultConcat DEF n1, n2, S
  <2> HIDE DEF q
  <2>2. Result(e, r, n) = n3
    BY <1>0, <1>12, <1>17, <2>1, ResultConcat DEF n3, S
  <2> HIDE DEF r
  <2> QED
    BY <1>0, <1>2, <1>17, <2>2, ResultConcat DEF n4, S
<1>19. ASSUME NEW f \in Family PROVE Over(s, HooksOut(f), StartOf(f, e))
  <2> DEFINE x == HooksOut(f)
             T == StartOf(f, e)
  <2>1. x \in T
    BY OutputHook DEF StartOf, HooksOut
  <2>2. x # Mount
    BY <1>4, <2>1
  <2> HIDE DEF x, T, q, r, s
  <2>3. x \notin Entries(p) /\ Over(p, x, T)
    BY <1>5, <2>2, OverNone
  <2>4. Entries(z) \cap T = {} /\ Over(z, x, T)
    BY <1>2, <2>1, OverNone DEF T
  <2>5. Over(a, x, T) /\ Over(b, x, T)
    <3>1. CASE f = u
      <4>1. Over(a, x, T)
        BY <1>8, <3>1 DEF x
      <4>2. x \notin Entries(b)
        BY <1>9, <2>1, <3>1 DEF T
      <4> QED
        BY <1>12, <4>1, <4>2, OverNone
    <3>2. CASE f = v
      <4>1. Over(b, x, T)
        BY <1>12, <3>2 DEF x
      <4>2. x \notin Entries(a)
        BY <1>9, <2>1, <3>2 DEF T
      <4> QED
        BY <1>8, <4>1, <4>2, OverNone
    <3> QED
      BY <1>0, <3>1, <3>2
  <2>6. Over(q, x, T)
    BY <1>5, <1>8, <2>3, <2>5, OverConcat DEF q
  <2>7. x \notin Entries(q) \/ Entries(b) \cap T = {}
    <3>1. CASE f = u
      BY <1>9, <3>1 DEF T
    <3>2. CASE f = v
      <4>1. x \notin Entries(a)
        BY <1>9, <2>1, <3>2 DEF T
      <4> QED
        BY <1>5, <1>8, <2>3, <4>1, InConcat DEF q
    <3> QED
      BY <1>0, <3>1, <3>2
  <2>8. Over(r, x, T)
    BY <1>12, <1>17, <2>5, <2>6, <2>7, OverConcat DEF r
  <2>9. Over(s, x, T)
    BY <1>2, <1>17, <2>4, <2>8, OverConcat DEF s
  <2> QED
    BY <2>9 DEF x, T
<1>20. s = Start(e)
  BY <1>1
<1>21. \A f \in Family : ~Hooked(n, f)
  BY <1>3, OutputHook DEF CleanOf, Hooked
<1> HIDE DEF s
<1> QED
  BY <1>16, <1>18, <1>19, <1>20, <1>21 DEF StartServes

(* A start on the way: what is left sets up what the whole would have, and *)
(* OUTPUT is hooked when nothing of the family is left.                    *)
LEMMA StartServesOn ==
  ASSUME NEW n \in Net, NEW e \in Environment, NEW s \in Seq(StartCmd(e)), s # <<>>,
         NEW m, Does(n, Head(s), m), StartServes(n, s, e)
  PROVE  StartServes(m, Tail(s), e)
<1> DEFINE c == Head(s)
           t == Tail(s)
           step == Runs(e)
<1>1. c \in StartCmd(e) /\ t \in Seq(StartCmd(e)) /\ Entries(t) \subseteq Entries(s)
  BY AfterHead DEF Entries
<1>2. Does(n, c, m) /\ Does(n, c, step[<<c, n>>])
  BY <1>1, RunsDoes
<1>3. m = step[<<c, n>>]
  BY <1>2 DEF Does
<1>4. step \in Stepping(StartCmd(e), Net)
  BY RunsDoes
<1> HIDE DEF step
<1>5. Fold(step, s, n) = Fold(step, t, m)
  BY <1>3, <1>4, FoldHead
<1>6. Result(e, s, n) = Result(e, t, m)
  BY <1>5 DEF Result, step
<1>7. ASSUME NEW f \in Family
      PROVE  /\ Over(t, HooksOut(f), StartOf(f, e))
             /\ Hooked(m, f) => Entries(t) \cap StartOf(f, e) = {}
  <2>1. /\ Over(s, HooksOut(f), StartOf(f, e))
        /\ Hooked(n, f) => Entries(s) \cap StartOf(f, e) = {}
    BY DEF StartServes
  <2>2. /\ Over(t, HooksOut(f), StartOf(f, e))
        /\ c = HooksOut(f) => Entries(t) \cap StartOf(f, e) = {}
    BY <2>1, OverTail
  <2>3. Hooked(m, f) => Hooked(n, f) \/ c = HooksOut(f)
    <3> HIDE DEF c
    <3>1. AddsUse(n, m, c, e, f)
      BY <1>1, <1>2, StartAdds DEF Adds
    <3>2. m.hook[f]["OUTPUT"] = n.hook[f]["OUTPUT"] \/ c = HookCmd(f, "hook", "OUTPUT")
      BY <3>1, OutputHook DEF AddsUse
    <3> QED
      BY <3>2 DEF Hooked, HooksOut
  <2> QED
    BY <1>1, <2>1, <2>2, <2>3
<1>8. SetUp(Result(e, t, m), e)
  BY <1>6 DEF StartServes
<1> QED
  BY <1>7, <1>8 DEF StartServes

(* A start that is through has set up all, or given up. *)
LEMMA StartServesDone ==
  ASSUME NEW n \in Net, NEW e \in Environment, StartServes(n, <<>>, e)
  PROVE  Clean(n) \/ SetUp(n, e)
BY ResultOne DEF StartServes

(* While a start hooks OUTPUT, the family is built. *)
LEMMA HookedBuilt ==
  ASSUME NEW n \in Net, NEW e \in Environment, NEW s \in Seq(StartCmd(e)),
         StartServes(n, s, e), NEW f \in Family, Hooked(n, f)
  PROVE  Built(n, f, e)
<1>1. ~Clean(n)
  BY OutputHook DEF Clean, CleanOf, Hooked
<1>2. /\ Entries(s) \cap StartOf(f, e) = {}
      /\ Built(Result(e, s, n), f, e)
  BY <1>1 DEF StartServes, SetUp
<1>3. SameOf(n, Result(e, s, n), f)
  BY <1>2, ResultStays
<1> QED
  BY <1>2, <1>3, SameBuilt

-----------------------------------------------------------------------------
(* A stop unhooks OUTPUT right after PREROUTING.                           *)

(* A pair that comes in the second list, comes first if nothing of T is in *)
(* the first.                                                              *)
LEMMA PairConcat ==
  ASSUME NEW S, NEW s \in Seq(S), NEW t \in Seq(S), NEW x, NEW y, NEW T,
         PairIn(s, x, y, T) \/ (PairIn(t, x, y, T) /\ Entries(s) \cap T = {})
  PROVE  PairIn(s \o t, x, y, T)
<1> DEFINE u == s \o t
           M == Len(s)
           N == Len(t)
<1>1. /\ M \in Nat /\ N \in Nat /\ Len(u) = M + N
      /\ \A i \in 1..M : u[i] = s[i]
      /\ \A i \in 1..N : u[M + i] = t[i]
  OBVIOUS
<1> SUFFICES PairIn(u, x, y, T)
  OBVIOUS
<1> HIDE DEF u
<1>2. CASE PairIn(s, x, y, T)
  <2>1. PICK i \in 1..M : /\ i + 1 \in 1..M /\ s[i] = x /\ s[i + 1] = y
                          /\ \A k \in 1..M : k < i => s[k] \notin T
    BY <1>2 DEF PairIn
  <2> HIDE DEF M, N
  <2>2. i \in 1..M + N /\ i + 1 \in 1..M + N /\ u[i] = x /\ u[i + 1] = y
    BY <1>1, <2>1
  <2>3. ASSUME NEW k \in 1..M + N, k < i PROVE u[k] \notin T
    <3>1. k \in 1..M
      BY <1>1, <2>1, <2>3
    <3> QED
      BY <1>1, <2>1, <2>3, <3>1
  <2> QED
    BY <1>1, <2>2, <2>3 DEF PairIn
<1>3. CASE PairIn(t, x, y, T) /\ Entries(s) \cap T = {}
  <2>1. PICK i \in 1..N : /\ i + 1 \in 1..N /\ t[i] = x /\ t[i + 1] = y
                          /\ \A k \in 1..N : k < i => t[k] \notin T
    BY <1>3 DEF PairIn
  <2>2. \A k \in 1..M : s[k] \notin T
    BY <1>3 DEF Entries
  <2> DEFINE j == M + i
  <2> HIDE DEF M, N
  <2>3. j \in 1..M + N /\ j + 1 \in 1..M + N /\ j + 1 = M + (i + 1)
    BY <1>1, <2>1
  <2>4. u[j] = x /\ u[j + 1] = y
    BY <1>1, <2>1, <2>3
  <2>5. ASSUME NEW k \in 1..M + N, k < j PROVE u[k] \notin T
    <3>1. k \in 1..M \/ \E a \in 1..N : k = M + a /\ a < i
      <4>1. CASE k > M
        <5>1. k - M \in 1..N /\ k = M + (k - M) /\ k - M < i
          BY <1>1, <2>1, <2>5, <4>1
        <5> QED
          BY <5>1
      <4> QED
        BY <1>1, <4>1
    <3> QED
      BY <1>1, <2>1, <2>2, <3>1
  <2> HIDE DEF j
  <2> QED
    BY <1>1, <2>3, <2>4, <2>5 DEF PairIn
<1> QED
  BY <1>2, <1>3

(* The pair is next, or something that is not of T. *)
LEMMA PairTail ==
  ASSUME NEW S, NEW s \in Seq(S), s # <<>>, NEW x, NEW y, NEW T, x \in T,
         PairIn(s, x, y, T)
  PROVE  \/ Head(s) = x /\ Tail(s) # <<>> /\ Head(Tail(s)) = y
         \/ Head(s) \notin T /\ PairIn(Tail(s), x, y, T)
<1> DEFINE t == Tail(s)
           N == Len(t)
<1>1. /\ N \in Nat /\ Len(s) = N + 1 /\ t \in Seq(S) /\ s[1] = Head(s)
      /\ \A i \in 1..N : t[i] = s[i + 1]
  OBVIOUS
<1>2. PICK i \in 1..Len(s) : /\ i + 1 \in 1..Len(s) /\ s[i] = x /\ s[i + 1] = y
                             /\ \A k \in 1..Len(s) : k < i => s[k] \notin T
  BY DEF PairIn
<1> HIDE DEF t, N
<1>3. CASE i = 1
  <2>1. 1 \in 1..N /\ t[1] = y /\ Head(s) = x
    BY <1>1, <1>2, <1>3
  <2>2. t # <<>> /\ Head(t) = y
    BY <1>1, <2>1 DEF N
  <2> QED
    BY <2>1, <2>2 DEF t
<1>4. CASE i > 1
  <2>1. 1 \in 1..Len(s) /\ Head(s) \notin T
    BY <1>1, <1>2, <1>4
  <2> DEFINE j == i - 1
  <2>2. j \in 1..N /\ j + 1 \in 1..N /\ t[j] = x /\ t[j + 1] = y
    BY <1>1, <1>2, <1>4
  <2>3. ASSUME NEW k \in 1..N, k < j PROVE t[k] \notin T
    <3>1. k + 1 \in 1..Len(s) /\ k + 1 < i /\ t[k] = s[k + 1]
      BY <1>1, <1>2, <2>3
    <3> QED
      BY <1>2, <3>1
  <2> HIDE DEF j
  <2>4. PairIn(t, x, y, T)
    BY <2>2, <2>3 DEF PairIn, N
  <2> QED
    BY <2>1, <2>4 DEF t
<1> QED
  BY <1>2, <1>3, <1>4

(* A command of a stop that is not for a family leaves it alone. *)
LEMMA StopApart ==
  ASSUME NEW n \in Net, NEW e, NEW f \in Family,
         NEW c \in (Undo(e) \cup {Guard}) \ UndoOf(f, e), NEW m, Does(n, c, m)
  PROVE  SameOf(n, m, f)
<1>0. /\ n.exists \in [Family -> SUBSET Chain]
      /\ n.chain \in [Family -> [Chain -> Seq(Rule)]]
      /\ n.hook \in [Family -> [Hook -> Nat]]
  BY Parts
<1>1. ASSUME NEW g \in Family, NEW h \in Hook, c = HookCmd(g, "unhook", h), g # f
      PROVE  SameOf(n, m, f)
  <2>1. Same(n, m, "hook") /\ (m.hook = n.hook \/ m.hook = [n.hook EXCEPT ![g][h] = @ - 1])
    BY <1>1, DoUnhook
  <2>2. m.hook[f] = n.hook[f]
    BY <1>0, <1>1, <2>1
  <2> QED
    BY <2>1, <2>2 DEF Same, SameOf
<1>2. ASSUME NEW g \in Family, NEW ch \in Chain, c = IpTables(g, "-F", ch), g # f
      PROVE  SameOf(n, m, f)
  <2>1. Same(n, m, "chain") /\ m.chain = [n.chain EXCEPT ![g][ch] = <<>>]
    BY <1>2, DoFlush
  <2>2. m.chain[f] = n.chain[f]
    BY <1>0, <1>2, <2>1
  <2> QED
    BY <2>1, <2>2 DEF Same, SameOf
<1>3. ASSUME NEW g \in Family, NEW ch \in Chain, c = IpTables(g, "-X", ch), g # f
      PROVE  SameOf(n, m, f)
  <2>1. /\ Same(n, m, "exists")
        /\ m.exists = n.exists \/ m.exists = [n.exists EXCEPT ![g] = @ \ {ch}]
    BY <1>3, DoDelete
  <2>2. m.exists[f] = n.exists[f]
    BY <1>0, <1>3, <2>1
  <2> QED
    BY <2>1, <2>2 DEF Same, SameOf
<1>4. ASSUME NEW g \in Family, c = IpRule(g, "rule delete", e), g # f
      PROVE  SameOf(n, m, f)
  <2>1. Same(n, m, "rule") /\ Aside(n, m, g)
    BY <1>4, DoRuleDelete
  <2>2. m.rule[f] = n.rule[f]
    BY <1>4, <2>1 DEF Aside
  <2> QED
    BY <2>1, <2>2 DEF Same, SameOf
<1>5. ASSUME NEW g \in Family, c = IpRoute(g, "route flush", e), g # f
      PROVE  SameOf(n, m, f)
  <2>1. Same(n, m, "route") /\ Aside(n, m, g)
    BY <1>5, DoRouteFlush
  <2>2. m.route[f] = n.route[f]
    BY <1>5, <2>1 DEF Aside
  <2> QED
    BY <2>1, <2>2 DEF Same, SameOf
<1>6. ASSUME NEW g \in Family, c = Plain("unmasquerade", g)
      PROVE  SameOf(n, m, f)
  <2>1. Same(n, m, "nat")
    BY <1>6, DoUnmasquerade
  <2> QED
    BY <2>1 DEF Same, SameOf
<1>7. CASE c = Plain("umount", "v4")
  <2>1. Same(n, m, "mounted")
    BY <1>7, DoUmount
  <2> QED
    BY <2>1 DEF Same, SameOf
<1>8. CASE c = Guard
  <2>1. m = n
    BY <1>8, DoGuard
  <2> QED
    BY <2>1 DEF SameOf
<1>9. ASSUME NEW g \in Family, c \in UndoOf(g, e), g # f
      PROVE  SameOf(n, m, f)
  BY <1>1, <1>2, <1>3, <1>4, <1>5, <1>6, <1>9 DEF UndoOf, Deletes
<1>10. \/ \E g \in Family : c \in UndoOf(g, e)
       \/ c = Plain("umount", "v4") \/ c = Guard
  BY DEF Undo, Family
<1> QED
  BY <1>7, <1>8, <1>9, <1>10

(* So the family is the same, or the pair is done. *)
LEMMA StopServesOn ==
  ASSUME NEW n \in Net, NEW e, NEW f \in Family, n.hook[f]["OUTPUT"] <= 1,
         NEW s \in Seq(Undo(e) \cup {Guard}), s # <<>>,
         NEW m, Does(n, Head(s), m), StopServes(n, s, f, e)
  PROVE  StopServes(m, Tail(s), f, e)
<1> DEFINE c == Head(s)
           t == Tail(s)
           x == HookCmd(f, "unhook", "PREROUTING")
           y == HookCmd(f, "unhook", "OUTPUT")
<1>1. c \in Undo(e) \cup {Guard} /\ n.hook[f]["OUTPUT"] \in Nat
  BY AfterHead, Parts, OutputHook
<1>2. CASE ~Hooked(n, f)
  <2>1. ~Hooked(m, f)
    <3>1. CASE c \in Undo(e)
      <4>1. m \in Net /\ m.hook[f]["OUTPUT"] <= n.hook[f]["OUTPUT"]
        BY <3>1, StopRemoves, OutputHook DEF Removes
      <4>2. m.hook[f]["OUTPUT"] \in Nat
        BY <4>1, Parts, OutputHook
      <4> QED
        BY <1>1, <1>2, <4>1, <4>2 DEF Hooked
    <3>2. CASE c = Guard
      BY <1>2, <3>2, DoGuard
    <3> QED
      BY <1>1, <3>1, <3>2
  <2> QED
    BY <2>1 DEF StopServes
<1>3. CASE c = y
  <2>1. m.hook = IF n.hook[f]["OUTPUT"] > 0
                 THEN [n.hook EXCEPT ![f]["OUTPUT"] = @ - 1] ELSE n.hook
    BY <1>3, DoUnhook, OutputHook
  <2>2. m.hook[f]["OUTPUT"] = 0
    BY <1>1, <2>1, Parts, OutputHook
  <2> QED
    BY <2>2 DEF StopServes, Hooked
<1>4. CASE Built(n, f, e) /\ PairAhead(s, f, e)
  <2>1. x \in UndoOf(f, e)
    BY DEF UndoOf, Hook, HookOf
  <2> DEFINE T == UndoOf(f, e)
  <2>2. PairIn(s, x, y, T)
    BY <1>4 DEF PairAhead
  <2> HIDE DEF x, y, T
  <2>3. \/ t # <<>> /\ Head(t) = y
        \/ c \notin T /\ PairIn(t, x, y, T)
    BY <2>1, <2>2, PairTail DEF T
  <2>4. CASE t # <<>> /\ Head(t) = y
    BY <2>4 DEF StopServes, y
  <2>5. CASE c \notin T /\ PairIn(t, x, y, T)
    <3>1. SameOf(n, m, f)
      BY <1>1, <2>5, StopApart DEF T
    <3>2. Built(m, f, e) /\ PairAhead(t, f, e)
      BY <1>4, <2>5, <3>1, SameBuilt DEF PairAhead, x, y, T
    <3> QED
      BY <3>2 DEF StopServes
  <2> QED
    BY <2>3, <2>4, <2>5
<1> QED
  BY <1>2, <1>3, <1>4 DEF StopServes

(* The pair is what a stop does first with a family. *)
LEMMA FamilyPair ==
  ASSUME NEW f \in Family, NEW e, NEW chains \in Seq(Chain),
         \A ch \in Chain : ch \in Entries(chains),
         NEW s, s = StopFamily(f, e, chains)
  PROVE  PairAhead(s, f, e)
<1> DEFINE S == UndoOf(f, e)
           x == HookCmd(f, "unhook", "PREROUTING")
           y == HookCmd(f, "unhook", "OUTPUT")
           r1 == IpRule(f, "rule delete", e)
           r2 == IpRoute(f, "route flush", e)
           u == <<x, y>>
           F == Each(f, "-F", chains)
           X == Each(f, "-X", chains)
           Fl == {IpTables(f, "-F", ch) : ch \in Chain}
           Xs == {IpTables(f, "-X", ch) : ch \in Chain}
           r == <<r1, r2>>
           p == u \o F
           q == p \o X
<1>1. s = q \o r
  BY DEF StopFamily
<1>2. F \in Seq(Fl) /\ X \in Seq(Xs)
  BY EachChain
<1>3. x \in S /\ y \in S /\ r1 \in S /\ r2 \in S /\ Fl \subseteq S /\ Xs \subseteq S
  BY DEF UndoOf, Deletes, Hook, HookOf
<1> HIDE DEF S, x, y, r1, r2, u, F, X, Fl, Xs, r, p, q
<1>4. F \in Seq(S) /\ X \in Seq(S)
  BY <1>2, <1>3, Widen
<1>5. u \in Seq(S) /\ r \in Seq(S)
  BY <1>3, Pair DEF u, r
<1>6. PairIn(u, x, y, S)
  <2>1. /\ 1 \in 1..Len(u) /\ 1 + 1 \in 1..Len(u) /\ u[1] = x /\ u[1 + 1] = y
        /\ \A k \in 1..Len(u) : ~(k < 1)
    BY DEF u
  <2> QED
    BY <2>1 DEF PairIn
<1>7. p \in Seq(S) /\ PairIn(p, x, y, S)
  BY <1>4, <1>5, <1>6, PairConcat DEF p
<1>8. q \in Seq(S) /\ PairIn(q, x, y, S)
  BY <1>4, <1>7, PairConcat DEF q
<1>9. PairIn(s, x, y, S)
  BY <1>1, <1>5, <1>8, PairConcat
<1> QED
  BY <1>9 DEF PairAhead, S, x, y

(* Each family has its turn. *)
LEMMA StopPairs ==
  ASSUME NEW e, NEW f \in Family
  PROVE  PairAhead(Stop(e), f, e)
<1> DEFINE T == Undo(e) \cup {Guard}
           U4 == UndoOf("v4", e)
           U6 == UndoOf("v6", e)
           m4 == Plain("unmasquerade", "v4")
           m6 == Plain("unmasquerade", "v6")
           mt == Plain("umount", "v4")
           c4 == <<"TPROXY_PRE", "TPROXY_ENT", "TPROXY_OUT", "TPROXY_MARK">>
           c6 == <<"TPROXY_PRE", "TPROXY_OUT", "TPROXY_ENT", "TPROXY_MARK">>
           g == <<Guard>>
           a == StopFamily("v4", e, c4)
           b == StopFamily("v6", e, c6)
           m == <<m4, m6>>
           z == <<mt>>
           w == When(e.cgroup_mount_point = "cgproxy", z)
           p == g \o a
           q == p \o b
           r == q \o m
           x == HookCmd(f, "unhook", "PREROUTING")
           y == HookCmd(f, "unhook", "OUTPUT")
           U == UndoOf(f, e)
<1>1. Stop(e) = r \o w
  BY DEF Stop, Guard
<1>2. /\ c4 \in Seq(Chain) /\ \A ch \in Chain : ch \in Entries(c4)
      /\ c6 \in Seq(Chain) /\ \A ch \in Chain : ch \in Entries(c6)
  <2>1. c4 \in Seq(Chain) /\ c6 \in Seq(Chain)
    BY DEF Chain
  <2>2. /\ Len(c4) = 4 /\ c4[1] = "TPROXY_PRE" /\ c4[2] = "TPROXY_ENT"
        /\ c4[3] = "TPROXY_OUT" /\ c4[4] = "TPROXY_MARK"
    OBVIOUS
  <2>3. /\ Len(c6) = 4 /\ c6[1] = "TPROXY_PRE" /\ c6[2] = "TPROXY_OUT"
        /\ c6[3] = "TPROXY_ENT" /\ c6[4] = "TPROXY_MARK"
    OBVIOUS
  <2> HIDE DEF c4, c6
  <2>4. 1..4 = {1, 2, 3, 4}
    OBVIOUS
  <2>5. \A ch \in Chain : ch \in Entries(c4)
    BY <2>2, <2>4 DEF Entries, Chain
  <2>6. \A ch \in Chain : ch \in Entries(c6)
    BY <2>3, <2>4 DEF Entries, Chain
  <2> QED
    BY <2>1, <2>5, <2>6
<1>3. "v4" \in Family /\ "v6" \in Family /\ (f = "v4" \/ f = "v6")
  BY DEF Family
<1> HIDE DEF c4, c6
<1>4. a \in Seq(U4) /\ PairAhead(a, "v4", e)
  BY <1>2, <1>3, StopFamilyFacts, FamilyPair
<1>5. b \in Seq(U6) /\ PairAhead(b, "v6", e)
  BY <1>2, <1>3, StopFamilyFacts, FamilyPair
<1>6. /\ Guard \in T /\ m4 \in T /\ m6 \in T /\ mt \in T
      /\ U4 \subseteq T /\ U6 \subseteq T
  BY DEF Undo, UndoOf
<1>7. Guard \notin U
  BY UndoOfKind DEF Guard, Plain
<1>8. f = "v6" => U4 \cap U = {}
  BY <1>3, UndoOfKind
<1> HIDE DEF T, U4, U6, m4, m6, mt, g, a, b, m, w, p, q, r, z, U
<1>9. g \in Seq(T) /\ Entries(g) = {Guard}
  BY <1>6, Single DEF g
<1>10. a \in Seq(T) /\ Entries(a) \subseteq U4
  BY <1>4, <1>6, Widen
<1>11. b \in Seq(T)
  BY <1>5, <1>6, Widen
<1>12. m \in Seq(T)
  BY <1>6, Pair DEF m
<1>13. w \in Seq(T)
  <2>1. z \in Seq(T)
    BY <1>6, Single DEF z
  <2> QED
    BY <2>1, WhenIn DEF w
<1>14. p \in Seq(T) /\ q \in Seq(T) /\ r \in Seq(T)
  BY <1>9, <1>10, <1>11, <1>12 DEF p, q, r
<1>15. PairIn(q, x, y, U)
  <2>1. CASE f = "v4"
    <3>1. PairIn(a, x, y, U)
      BY <1>4, <2>1 DEF PairAhead, U
    <3> HIDE DEF x, y
    <3>2. PairIn(p, x, y, U)
      BY <1>7, <1>9, <1>10, <3>1, PairConcat DEF p
    <3> QED
      BY <1>11, <1>14, <3>2, PairConcat DEF q
  <2>2. CASE f = "v6"
    <3>1. PairIn(b, x, y, U)
      BY <1>5, <2>2 DEF PairAhead, U
    <3>2. Entries(p) \cap U = {}
      <4>1. \A c : c \in Entries(p) <=> c \in Entries(g) \/ c \in Entries(a)
        BY <1>9, <1>10, InConcat DEF p
      <4> QED
        BY <1>7, <1>8, <1>9, <1>10, <2>2, <4>1
    <3> HIDE DEF x, y
    <3> QED
      BY <1>11, <1>14, <3>1, <3>2, PairConcat DEF q
  <2> QED
    BY <1>3, <2>1, <2>2
<1> HIDE DEF x, y
<1>16. PairIn(r, x, y, U)
  BY <1>12, <1>14, <1>15, PairConcat DEF r
<1>17. PairIn(Stop(e), x, y, U)
  BY <1>1, <1>13, <1>14, <1>16, PairConcat
<1> QED
  BY <1>17 DEF PairAhead, x, y, U

-----------------------------------------------------------------------------
(* Where nothing is, OUTPUT is not hooked. *)
LEMMA CleanUnhooked ==
  ASSUME NEW n, Clean(n), NEW f \in Family
  PROVE  ~Hooked(n, f)
BY OutputHook DEF Clean, CleanOf, Hooked

(* At first nothing runs. *)
LEMMA ServeInit == Init => ServeInv
<1> SUFFICES ASSUME Init PROVE ServeInv
  OBVIOUS
<1>1. CleanInv /\ phase = "off" /\ ~stopping
  BY CleanInit, ControlInit
<1> QED
  BY <1>1 DEF ServeInv, Cleaning

(* Every step keeps it. *)
LEMMA ServeStep ==
  ASSUME "signal" \notin Disturbances, ServeInv, [Next]_vars
  PROVE  ServeInv'
<1> DEFINE first == crashes = 0
<1>0. /\ CleanInv' /\ CleanInv /\ SpareInv /\ Control /\ net \in Net
      /\ crashes \in Nat
  BY CleanStep DEF ServeInv, CleanInv, SpareInv, Control
<1>1. CASE UNCHANGED vars
  BY <1>0, <1>1 DEF vars, ServeInv, Running, Cleaning
<1>2. ASSUME NEW x \in Slot, RunCommand(x) PROVE ServeInv'
  <2> DEFINE c == Head(Running)
             s == Running
  <2>1. /\ Running # <<>> /\ (phase = "start" \/ Cleaning)
        /\ UNCHANGED <<config, env, phase, runner, stopping, crashes>>
        /\ \/ /\ UNCHANGED net /\ Running' = <<>>
              /\ (c.op = "guard" /\ ~HasEnt(net)) \/ c.op = "mount"
           \/ Does(net, c, net') /\ Running' = Tail(Running)
    BY <1>0, <1>2, OneScript DEF HasEnt
  <2>2. Cleaning' = Cleaning /\ (phase = "start" => ~Cleaning)
    BY <1>0, <2>1 DEF Cleaning, Control
  <2>3. ~(phase' = "up" /\ ~stopping')
    BY <2>1 DEF Cleaning
  <2>4. ASSUME first, Cleaning PROVE \A f \in Family : StopServes(net', Running', f, env)
    <3>1. /\ s \in Seq(Undo(env) \cup {Guard}) /\ StopLeft(net, s, env, first)
          /\ \A f \in Family : StopServes(net, s, f, env)
      BY <1>0, <2>4 DEF SpareInv, CleanInv, ServeInv
    <3>2. Fits(net, env)
      BY <1>0, <2>4 DEF CleanInv
    <3>3. c \in Undo(env) \cup {Guard} /\ c \in Entries(s)
      BY <2>1, <3>1, AfterHead
    <3> HIDE DEF c, s
    <3>4. CASE /\ UNCHANGED net /\ Running' = <<>>
               /\ (c.op = "guard" /\ ~HasEnt(net)) \/ c.op = "mount"
      <4>1. c = Guard /\ ~HasEnt(net)
        BY <3>3, <3>4, UndoKind, StopOps
      <4>2. Clean(net)
        BY <2>4, <3>1, <3>3, <4>1 DEF StopLeft
      <4> QED
        BY <3>4, <4>2, CleanUnhooked DEF StopServes
    <3>5. CASE Does(net, c, net') /\ Running' = Tail(Running)
      <4>1. s # <<>> /\ Does(net, Head(s), net') /\ Running' = Tail(s)
        BY <2>1, <3>5 DEF s, c
      <4>2. \A f \in Family : net.hook[f]["OUTPUT"] <= 1
        BY <3>2, OutputHook DEF Fits, FitsOf
      <4> QED
        BY <1>0, <3>1, <4>1, <4>2, StopServesOn
    <3> QED
      BY <2>1, <3>4, <3>5
  <2>5. ASSUME first, phase = "start" PROVE StartServes(net', Running', env)
    <3>1. /\ s \in Seq(StartCmd(env)) /\ StartLeft(net, s, first)
          /\ StartServes(net, s, env)
      BY <1>0, <2>5 DEF SpareInv, CleanInv, ServeInv
    <3>2. env \in Environment
      BY <1>0, <2>5, TproxyAssumption DEF Control
    <3>3. c \in StartCmd(env) /\ c \in Entries(s)
      BY <2>1, <3>1, AfterHead
    <3> HIDE DEF c, s
    <3>4. CASE /\ UNCHANGED net /\ Running' = <<>>
               /\ (c.op = "guard" /\ ~HasEnt(net)) \/ c.op = "mount"
      <4>1. c = Mount
        BY <3>2, <3>3, <3>4, StartOps
      <4>2. Clean(net)
        BY <2>5, <3>1, <3>3, <4>1 DEF StartLeft
      <4> QED
        BY <3>4, <4>2 DEF StartServes
    <3>5. CASE Does(net, c, net') /\ Running' = Tail(Running)
      <4>1. s # <<>> /\ Does(net, Head(s), net') /\ Running' = Tail(s)
        BY <2>1, <3>5 DEF s, c
      <4> QED
        BY <1>0, <3>1, <3>2, <4>1, StartServesOn
    <3> QED
      BY <2>1, <3>4, <3>5
  <2> HIDE DEF c, s
  <2> QED
    BY <1>0, <2>1, <2>2, <2>3, <2>4, <2>5 DEF ServeInv
<1>3. ASSUME Control', Begins PROVE ServeInv'
  <2>1. /\ net' = net /\ crashes' = crashes /\ phase' # "start" /\ Cleaning'
        /\ Running' = Stop(env')
    BY <1>3 DEF Begins
  <2>2. ~(phase' = "up" /\ ~stopping')
    <3>1. phase' = "clean" \/ stopping'
      BY <2>1 DEF Cleaning
    <3> QED
      BY <3>1
  <2>3. ASSUME first, NEW f \in Family PROVE StopServes(net, Stop(env'), f, env')
    <3>1. CASE phase \in {"off", "killed"} /\ env' = DefaultEnv
      <4>1. Clean(net)
        BY <1>0, <2>3, <3>1 DEF Control, CleanInv
      <4> QED
        BY <4>1, CleanUnhooked DEF StopServes
    <3>2. CASE phase = "up" /\ ~stopping /\ UNCHANGED env
      <4>1. Clean(net) \/ Built(net, f, env)
        BY <2>3, <3>2 DEF ServeInv, SetUp
      <4> QED
        BY <3>2, <4>1, CleanUnhooked, StopPairs DEF StopServes
    <3> QED
      BY <1>3, <3>1, <3>2 DEF Begins
  <2> QED
    BY <1>0, <2>1, <2>2, <2>3 DEF ServeInv
<1>4. ASSUME Control', Sets PROVE ServeInv'
  <2>1. /\ phase = "clean" /\ Running = <<>> /\ net' = net /\ crashes' = crashes
        /\ phase' = "start" /\ ~stopping' /\ env' \in Config /\ Running' = Start(env')
    BY <1>4 DEF Sets
  <2>2. StopLeft(net, <<>>, env, first)
    BY <1>0, <2>1 DEF CleanInv, Cleaning
  <2> HIDE DEF first
  <2>3. first => Clean(net)
    BY <1>0, <2>2, StopDone DEF first
  <2>4. first => StartServes(net, Running', env')
    BY <1>0, <2>1, <2>3, StartSetsUp
  <2>5. ~Cleaning'
    BY <2>1 DEF Cleaning
  <2> QED
    BY <1>0, <2>1, <2>4, <2>5 DEF ServeInv, first
<1>5. ASSUME Control', Ends PROVE ServeInv'
  <2>1. ~Cleaning' /\ net' = net /\ env' = env
    BY <1>5 DEF Ends
  <2>2. CASE phase = "start" /\ Running = <<>> /\ phase' = "up" /\ UNCHANGED crashes
    <3>1. env \in Environment
      BY <1>0, <2>2, TproxyAssumption DEF Control
    <3>2. first => Clean(net) \/ SetUp(net, env)
      BY <1>0, <2>2, <3>1, StartServesDone DEF ServeInv
    <3> QED
      BY <1>0, <2>1, <2>2, <3>2 DEF ServeInv
  <2>3. CASE stopping /\ Running = <<>> /\ phase' = "off" /\ UNCHANGED crashes
    BY <1>0, <2>1, <2>3 DEF ServeInv
  <2>4. CASE phase' = "killed" /\ crashes' = crashes + 1
    <3>1. crashes' # 0
      BY <1>0, <2>4
    <3> QED
      BY <1>0, <2>1, <2>4, <3>1 DEF ServeInv
  <2> QED
    BY <1>5, <2>2, <2>3, <2>4 DEF Ends
<1>6. CASE \/ \E c \in Config : Boot(c) \/ Reload(c)
           \/ BootRejected \/ ToEnv \/ Applied \/ Signal \/ Exit \/ Crash
  BY <1>0, <1>3, <1>4, <1>5, <1>6, Steps
<1> QED
  BY <1>1, <1>2, <1>6 DEF Next

-----------------------------------------------------------------------------
(* What a packet meets: a chain is a fold of its rules.                    *)
State == [mark : Nat, end : {"no"} \cup Target]
St(k, d) == [mark |-> k, end |-> d]

Applies(pkt)    == [x \in Rule \X State |-> Apply(x[1], pkt, x[2])]
Hops(n, f, pkt) == [x \in Rule \X State |-> WalkRule(n, f, x[1], pkt, x[2])]

(* A chain that is called comes back. *)
Back(s) == [s EXCEPT !.end = IF @ = "RETURN" THEN "no" ELSE @]

(* A state has a mark and an end. *)
LEMMA States ==
  /\ \A k \in Nat, d \in {"no"} \cup Target :
       St(k, d) \in State /\ St(k, d).mark = k /\ St(k, d).end = d
  /\ \A s \in State : /\ s.mark \in Nat /\ s.end \in {"no"} \cup Target
                       /\ s = St(s.mark, s.end)
  /\ Unmarked = St(0, "no")
BY DEF State, St, Unmarked

(* What a rule does that jumps to no other chain. *)
LEMMA ApplyIs ==
  ASSUME NEW pkt, NEW r \in Rule, NEW k \in Nat, NEW d \in {"no"} \cup Target
  PROVE  /\ d # "no" \/ ~Matches(r, pkt) => Apply(r, pkt, St(k, d)) = St(k, d)
         /\ d = "no" /\ Matches(r, pkt) =>
              /\ r.j = "MARK" => Apply(r, pkt, St(k, d)) = St(r.mark, d)
              /\ r.j = "TPROXY" => Apply(r, pkt, St(k, d)) = St(r.mark, "TPROXY")
              /\ r.j \notin {"MARK", "TPROXY"} => Apply(r, pkt, St(k, d)) = St(k, r.j)
         /\ Apply(r, pkt, St(k, d)) \in State
<1> DEFINE s == St(k, d)
           M == Matches(r, pkt)
<1>1. s = [mark |-> k, end |-> d] /\ s.end = d
  BY DEF St
<1>2. /\ Apply(r, pkt, s) =
           IF d # "no" \/ ~M THEN s
           ELSE IF r.j = "MARK" THEN [s EXCEPT !.mark = r.mark]
           ELSE IF r.j = "TPROXY" THEN [mark |-> r.mark, end |-> "TPROXY"]
           ELSE [s EXCEPT !.end = r.j]
  BY <1>1 DEF Apply
<1> HIDE DEF M
<1>3. /\ [s EXCEPT !.mark = r.mark] = St(r.mark, d)
      /\ [s EXCEPT !.end = r.j] = St(k, r.j)
      /\ [mark |-> r.mark, end |-> "TPROXY"] = St(r.mark, "TPROXY")
  BY DEF St
<1>4. r.mark \in Nat /\ r.j \in Target /\ "TPROXY" \in Target
  BY DEF Rule, RuleOf, Target
<1>5. /\ s \in State /\ St(r.mark, d) \in State /\ St(k, r.j) \in State
      /\ St(r.mark, "TPROXY") \in State
  BY <1>4, States
<1> HIDE DEF s
<1> QED
  BY <1>2, <1>3, <1>5 DEF s, M

(* So a chain that jumps to no other is a fold. *)
LEMMA AppliesSteps ==
  ASSUME NEW pkt
  PROVE  /\ Applies(pkt) \in Stepping(Rule, State)
         /\ \A r \in Rule, s \in State : Applies(pkt)[<<r, s>>] = Apply(r, pkt, s)
<1>1. ASSUME NEW r \in Rule, NEW s \in State PROVE Apply(r, pkt, s) \in State
  <2>1. s.mark \in Nat /\ s.end \in {"no"} \cup Target /\ s = St(s.mark, s.end)
    BY States
  <2>2. Apply(r, pkt, St(s.mark, s.end)) \in State
    BY <2>1, ApplyIs
  <2> QED
    BY <2>1, <2>2
<1>2. \A r \in Rule, s \in State : Applies(pkt)[<<r, s>>] = Apply(r, pkt, s)
  BY DEF Applies
<1>3. Applies(pkt) \in [Rule \X State -> State]
  BY <1>1 DEF Applies
<1> QED
  BY <1>2, <1>3 DEF Stepping

(* The recursion of WalkInner() is that fold. *)
LEMMA InnerIs ==
  ASSUME NEW n \in Net, NEW f \in Family, NEW ch \in Chain, NEW pkt, NEW s \in State
  PROVE  /\ Fold(Applies(pkt), n.chain[f][ch], s) \in State
         /\ WalkInner(n, f, ch, pkt, s) = Back(Fold(Applies(pkt), n.chain[f][ch], s))
<1> DEFINE rules == n.chain[f][ch]
           N == Len(rules)
           step == Applies(pkt)
           R(i, v) == Apply(rules[i], pkt, v)
           Body(w) == [i \in 0..N |-> IF i = 0 THEN s ELSE R(i, w[i - 1])]
           W == CHOOSE w : w = Body(w)
           w0 == FoldUpTo(step, rules, s)
<1>1. rules \in Seq(Rule)
  BY Parts
<1>2. N \in Nat
  BY <1>1
<1>3. WalkInner(n, f, ch, pkt, s) = Back(W[N])
  BY DEF WalkInner, Back
<1>4. /\ step \in Stepping(Rule, State)
      /\ \A r \in Rule, v \in State : step[<<r, v>>] = Apply(r, pkt, v)
  BY AppliesSteps
<1> HIDE DEF N, rules, step
<1>5. \A i \in 1..N : rules[i] \in Rule
  BY <1>1 DEF N
<1>6. ASSUME NEW i \in 1..N, NEW v \in State PROVE R(i, v) = step[<<rules[i], v>>]
  BY <1>4, <1>5
<1> HIDE DEF R
<1>7. W = Body(W)
  <2>1. /\ w0 \in [0..N -> State] /\ w0[0] = s
        /\ \A i \in 1..N : w0[i] = step[<<rules[i], w0[i - 1]>>]
    BY <1>1, <1>4, FoldDef DEF N
  <2> HIDE DEF w0
  <2>2. w0 = Body(w0)
    <3>1. ASSUME NEW i \in 0..N PROVE w0[i] = Body(w0)[i]
      <4>1. CASE i = 0
        BY <2>1, <4>1
      <4>2. CASE i # 0
        <5>1. i \in 1..N /\ i - 1 \in 0..N
          BY <1>2, <4>2
        <5>2. w0[i - 1] \in State
          BY <2>1, <5>1
        <5>3. w0[i] = R(i, w0[i - 1])
          BY <1>6, <2>1, <5>1, <5>2
        <5> QED
          BY <4>2, <5>3
      <4> QED
        BY <4>1, <4>2
    <3>2. w0 = [i \in 0..N |-> w0[i]]
      BY <2>1
    <3> QED
      BY <3>1, <3>2
  <2> QED
    BY <2>2
<1>8. W[0] = s /\ \A i \in 1..N : W[i] = R(i, W[i - 1])
  <2>1. ASSUME NEW i \in 0..N PROVE W[i] = Body(W)[i]
    BY <1>7
  <2>2. W[0] = s
    BY <1>2, <2>1
  <2>3. ASSUME NEW i \in 1..N PROVE W[i] = R(i, W[i - 1])
    <3>1. i \in 0..N /\ i # 0
      BY <1>2
    <3> QED
      BY <2>1, <3>1
  <2> QED
    BY <2>2, <2>3
<1> HIDE DEF W
<1>9. /\ W[0] = s
      /\ \A i \in 1..Len(rules) : W[i - 1] \in State => W[i] = step[<<rules[i], W[i - 1]>>]
  BY <1>6, <1>8 DEF N
<1>10. step \in Stepping(Rule, State)
  BY <1>4
<1>11. Fold(step, rules, s) \in State /\ W[N] = Fold(step, rules, s)
  BY <1>1, <1>9, <1>10, FoldIs DEF N
<1> QED
  BY <1>3, <1>11 DEF rules, step

(* What comes back from a chain goes on. *)
LEMMA BackIs ==
  ASSUME NEW k \in Nat, NEW d \in {"no"} \cup Target
  PROVE  /\ Back(St(k, d)) = St(k, IF d = "RETURN" THEN "no" ELSE d)
         /\ Back(St(k, d)) \in State
<1> DEFINE c == IF d = "RETURN" THEN "no" ELSE d
<1>1. Back(St(k, d)) = St(k, c)
  BY DEF Back, St
<1>2. c \in {"no"} \cup Target
  OBVIOUS
<1> HIDE DEF c
<1>3. St(k, c) \in State
  BY <1>2, States
<1> QED
  BY <1>1, <1>3 DEF c

(* What a rule does that may jump. *)
LEMMA HopIs ==
  ASSUME NEW n \in Net, NEW f \in Family, NEW pkt, NEW r \in Rule, NEW s \in State
  PROVE  /\ s.end # "no" \/ ~Matches(r, pkt) => WalkRule(n, f, r, pkt, s) = s
         /\ r.j \notin Chain => WalkRule(n, f, r, pkt, s) = Apply(r, pkt, s)
         /\ r.j \in Chain /\ s.end = "no" /\ Matches(r, pkt) =>
              WalkRule(n, f, r, pkt, s) = Back(Fold(Applies(pkt), n.chain[f][r.j], s))
         /\ WalkRule(n, f, r, pkt, s) \in State
<1> DEFINE M == Matches(r, pkt)
           a == Apply(r, pkt, s)
           t == Fold(Applies(pkt), n.chain[f][r.j], s)
<1>1. s.mark \in Nat /\ s.end \in {"no"} \cup Target /\ s = St(s.mark, s.end)
  BY States
<1>2. a \in State /\ (s.end # "no" \/ ~M => a = s)
  <2> DEFINE k == s.mark
             d == s.end
  <2> HIDE DEF k, d
  <2>1. k \in Nat /\ d \in {"no"} \cup Target /\ s = St(k, d)
    BY <1>1 DEF k, d
  <2>2. /\ Apply(r, pkt, St(k, d)) \in State
        /\ d # "no" \/ ~M => Apply(r, pkt, St(k, d)) = St(k, d)
    BY <2>1, ApplyIs
  <2> HIDE DEF M
  <2> QED
    BY <2>1, <2>2 DEF d
<1>3. r.j \in Chain => t \in State /\ WalkInner(n, f, r.j, pkt, s) = Back(t)
  BY InnerIs
<1>4. r.j \in Chain => Back(t) \in State
  <2> HIDE DEF t
  <2>1. ASSUME r.j \in Chain PROVE Back(t) \in State
    <3>1. t.mark \in Nat /\ t.end \in {"no"} \cup Target /\ t = St(t.mark, t.end)
      BY <1>3, <2>1, States
    <3>2. Back(St(t.mark, t.end)) \in State
      BY <3>1, BackIs
    <3> QED
      BY <3>1, <3>2
  <2> QED
    BY <2>1
<1>5. WalkRule(n, f, r, pkt, s) = IF r.j \notin Chain THEN a
                                  ELSE IF s.end # "no" \/ ~M THEN s
                                  ELSE WalkInner(n, f, r.j, pkt, s)
  BY DEF WalkRule
<1> HIDE DEF M, a, t
<1>6. /\ s.end # "no" \/ ~M => WalkRule(n, f, r, pkt, s) = s
      /\ r.j \notin Chain => WalkRule(n, f, r, pkt, s) = a
      /\ r.j \in Chain /\ s.end = "no" /\ M => WalkRule(n, f, r, pkt, s) = Back(t)
      /\ WalkRule(n, f, r, pkt, s) \in State
  BY <1>2, <1>3, <1>4, <1>5
<1> QED
  BY <1>6 DEF M, a, t

(* So a chain that is hooked is a fold. *)
LEMMA HopsSteps ==
  ASSUME NEW n \in Net, NEW f \in Family, NEW pkt
  PROVE  /\ Hops(n, f, pkt) \in Stepping(Rule, State)
         /\ \A r \in Rule, s \in State :
              Hops(n, f, pkt)[<<r, s>>] = WalkRule(n, f, r, pkt, s)
<1>1. \A r \in Rule, s \in State : WalkRule(n, f, r, pkt, s) \in State
  BY HopIs
<1>2. \A r \in Rule, s \in State : Hops(n, f, pkt)[<<r, s>>] = WalkRule(n, f, r, pkt, s)
  BY DEF Hops
<1>3. Hops(n, f, pkt) \in [Rule \X State -> State]
  BY <1>1 DEF Hops
<1> QED
  BY <1>2, <1>3 DEF Stepping

(* The recursion of Walk() is that fold. *)
LEMMA WalkIs ==
  ASSUME NEW n \in Net, NEW f \in Family, NEW h \in Hook, NEW pkt, NEW s \in State,
         n.hook[f][h] # 0
  PROVE  /\ Fold(Hops(n, f, pkt), n.chain[f][HookOf[h]], s) \in State
         /\ Walk(n, f, h, pkt, s) = Fold(Hops(n, f, pkt), n.chain[f][HookOf[h]], s)
<1> DEFINE rules == n.chain[f][HookOf[h]]
           N == Len(rules)
           step == Hops(n, f, pkt)
           R(i, v) == WalkRule(n, f, rules[i], pkt, v)
           Body(w) == [i \in 0..N |-> IF i = 0 THEN s ELSE R(i, w[i - 1])]
           W == CHOOSE w : w = Body(w)
           w0 == FoldUpTo(step, rules, s)
<1>1. rules \in Seq(Rule)
  <2>1. HookOf[h] \in Chain
    BY DEF Chain, Hook, HookOf
  <2> QED
    BY <2>1, Parts
<1>2. N \in Nat
  BY <1>1
<1>3. Walk(n, f, h, pkt, s) = W[N]
  BY DEF Walk
<1>4. /\ step \in Stepping(Rule, State)
      /\ \A r \in Rule, v \in State : step[<<r, v>>] = WalkRule(n, f, r, pkt, v)
  BY HopsSteps
<1> HIDE DEF N, rules, step
<1>5. \A i \in 1..N : rules[i] \in Rule
  BY <1>1 DEF N
<1>6. ASSUME NEW i \in 1..N, NEW v \in State PROVE R(i, v) = step[<<rules[i], v>>]
  BY <1>4, <1>5
<1> HIDE DEF R
<1>7. W = Body(W)
  <2>1. /\ w0 \in [0..N -> State] /\ w0[0] = s
        /\ \A i \in 1..N : w0[i] = step[<<rules[i], w0[i - 1]>>]
    BY <1>1, <1>4, FoldDef DEF N
  <2> HIDE DEF w0
  <2>2. w0 = Body(w0)
    <3>1. ASSUME NEW i \in 0..N PROVE w0[i] = Body(w0)[i]
      <4>1. CASE i = 0
        BY <2>1, <4>1
      <4>2. CASE i # 0
        <5>1. i \in 1..N /\ i - 1 \in 0..N
          BY <1>2, <4>2
        <5>2. w0[i - 1] \in State
          BY <2>1, <5>1
        <5>3. w0[i] = R(i, w0[i - 1])
          BY <1>6, <2>1, <5>1, <5>2
        <5> QED
          BY <4>2, <5>3
      <4> QED
        BY <4>1, <4>2
    <3>2. w0 = [i \in 0..N |-> w0[i]]
      BY <2>1
    <3> QED
      BY <3>1, <3>2
  <2> QED
    BY <2>2
<1>8. W[0] = s /\ \A i \in 1..N : W[i] = R(i, W[i - 1])
  <2>1. ASSUME NEW i \in 0..N PROVE W[i] = Body(W)[i]
    BY <1>7
  <2>2. W[0] = s
    BY <1>2, <2>1
  <2>3. ASSUME NEW i \in 1..N PROVE W[i] = R(i, W[i - 1])
    <3>1. i \in 0..N /\ i # 0
      BY <1>2
    <3> QED
      BY <2>1, <3>1
  <2> QED
    BY <2>2, <2>3
<1> HIDE DEF W
<1>9. /\ W[0] = s
      /\ \A i \in 1..Len(rules) : W[i - 1] \in State => W[i] = step[<<rules[i], W[i - 1]>>]
  BY <1>6, <1>8 DEF N
<1>10. step \in Stepping(Rule, State)
  BY <1>4
<1>11. Fold(step, rules, s) \in State /\ W[N] = Fold(step, rules, s)
  BY <1>1, <1>9, <1>10, FoldIs DEF N
<1> QED
  BY <1>3, <1>11 DEF rules, step

-----------------------------------------------------------------------------
(* What a single rule does, or none.                                       *)
Met(m, pkt) == Facts(pkt)[m]
Maybe(b, e, m, j) == When(b, One(e, m, j))

(* What the matches say of a packet. *)
LEMMA MetIs ==
  ASSUME NEW pkt \in Packet(Existing)
  PROVE  /\ Met("socket", pkt) <=> pkt.socket
         /\ Met("tcp", pkt) <=> pkt.proto = "tcp"
         /\ Met("udp", pkt) <=> pkt.proto \in {"udp", "dns"}
         /\ Met("dns", pkt) <=> pkt.proto = "dns"
         /\ Met("reply", pkt) <=> pkt.reply
         /\ Met("dstlocal", pkt) <=> pkt.dst = "local"
         /\ Met("notunicast", pkt) <=> pkt.dst # "unicast"
         /\ Met("srcremote", pkt) <=> ~pkt.local
BY DEF Met, Facts

(* Its rule is one. *)
LEMMA RuleForIs ==
  ASSUME NEW e \in Environment, NEW m \in Match \ {"cgroup"}, NEW j \in Target
  PROVE  /\ RuleFor(e, m, j) \in Rule
         /\ RuleFor(e, m, j).j = j /\ RuleFor(e, m, j).mark = e.fwmark
         /\ \A pkt : Matches(RuleFor(e, m, j), pkt) <=> Met(m, pkt)
<1> DEFINE r == RuleFor(e, m, j)
           o == <<>>
<1>1. r.m = m /\ r.j = j /\ r.mark = e.fwmark
  BY DEF RuleFor
<1>2. e.fwmark \in Nat /\ o \in Path
  BY DEF Environment, Path
<1> HIDE DEF o
<1>3. [m |-> m, path |-> o, j |-> j, mark |-> e.fwmark] \in Rule
  BY <1>2 DEF Rule, RuleOf
<1>4. r \in Rule
  BY <1>3 DEF RuleFor, o
<1> HIDE DEF r
<1>5. ASSUME NEW pkt PROVE Matches(r, pkt) <=> Met(m, pkt)
  BY <1>1 DEF Matches, Met
<1> QED
  BY <1>1, <1>4, <1>5 DEF r

(* A rule that may be there takes a packet on. *)
LEMMA MaybeFold ==
  ASSUME NEW step \in Stepping(Rule, State), NEW e \in Environment, NEW b \in BOOLEAN,
         NEW m \in Match \ {"cgroup"}, NEW j \in Target, NEW s \in State
  PROVE  /\ Maybe(b, e, m, j) \in Seq(Rule)
         /\ b => Fold(step, Maybe(b, e, m, j), s) = step[<<RuleFor(e, m, j), s>>]
         /\ ~b => Fold(step, Maybe(b, e, m, j), s) = s
<1> DEFINE r == RuleFor(e, m, j)
           q == <<r>>
           o == <<>>
<1>1. r \in Rule
  BY RuleForIs
<1>2. (b => Maybe(b, e, m, j) = q) /\ (~b => Maybe(b, e, m, j) = o)
  BY DEF Maybe, When, One
<1> HIDE DEF r
<1>3. q \in Seq(Rule) /\ o \in Seq(Rule)
  BY <1>1
<1>4. Fold(step, q, s) = step[<<r, s>>] /\ Fold(step, o, s) = s
  BY <1>1, FoldOne
<1> HIDE DEF q, o
<1> QED
  BY <1>2, <1>3, <1>4 DEF r

(* The targets that end a walk and set no mark. *)
Ending == Target \ {"MARK", "TPROXY"}

(* In a chain that jumps to no other. *)
LEMMA Passes ==
  ASSUME NEW pkt, NEW e \in Environment, NEW b \in BOOLEAN,
         NEW m \in Match \ {"cgroup"}, NEW j \in Target,
         NEW k \in Nat, NEW d \in {"no"} \cup Target
  PROVE  LET t == Fold(Applies(pkt), Maybe(b, e, m, j), St(k, d))
         IN  /\ d # "no" \/ ~b \/ ~Met(m, pkt) => t = St(k, d)
             /\ d = "no" /\ b /\ Met(m, pkt) =>
                  /\ j = "MARK" => t = St(e.fwmark, "no")
                  /\ j = "TPROXY" => t = St(e.fwmark, "TPROXY")
                  /\ j \in Ending => t = St(k, j)
<1> DEFINE r == RuleFor(e, m, j)
           s == St(k, d)
           a == Apply(r, pkt, s)
           t == Fold(Applies(pkt), Maybe(b, e, m, j), s)
           M == Met(m, pkt)
<1>1. r \in Rule /\ r.j = j /\ r.mark = e.fwmark /\ (Matches(r, pkt) <=> M)
  BY RuleForIs
<1>2. s \in State
  BY States
<1>3. (b => t = a) /\ (~b => t = s)
  <2>1. Applies(pkt) \in Stepping(Rule, State) /\ Applies(pkt)[<<r, s>>] = a
    BY <1>1, <1>2, AppliesSteps
  <2> HIDE DEF s, a
  <2> QED
    BY <1>2, <2>1, MaybeFold
<1> HIDE DEF r
<1>4. /\ d # "no" \/ ~M => a = s
      /\ d = "no" /\ M =>
              /\ j = "MARK" => a = St(e.fwmark, "no")
              /\ j = "TPROXY" => a = St(e.fwmark, "TPROXY")
              /\ j \in Ending => a = St(k, j)
  <2>1. /\ d # "no" \/ ~Matches(r, pkt) => a = s
        /\ d = "no" /\ Matches(r, pkt) =>
              /\ r.j = "MARK" => a = St(r.mark, d)
              /\ r.j = "TPROXY" => a = St(r.mark, "TPROXY")
              /\ r.j \in Ending => a = St(k, r.j)
    BY <1>1, ApplyIs DEF Ending
  <2> HIDE DEF a, s, M
  <2> QED
    BY <1>1, <2>1
<1> HIDE DEF a, t, M
<1>5. /\ d # "no" \/ ~b \/ ~M => t = s
      /\ d = "no" /\ b /\ M =>
              /\ j = "MARK" => t = St(e.fwmark, "no")
              /\ j = "TPROXY" => t = St(e.fwmark, "TPROXY")
              /\ j \in Ending => t = St(k, j)
  BY <1>3, <1>4
<1> QED
  BY <1>5 DEF t, M

(* q takes a packet from s to t if it meets m. *)
Takes(pkt, q, m, s, t) ==
  /\ ~Met(m, pkt) => Fold(Applies(pkt), q, s) = s
  /\ Met(m, pkt) => Fold(Applies(pkt), q, s) = t

(* A first rule, and one that is there. *)
LEMMA PassesFirst ==
  ASSUME NEW pkt, NEW e \in Environment, NEW m \in Match \ {"cgroup"}, NEW j \in Target,
         NEW k \in Nat
  PROVE  LET T(t) == Takes(pkt, Maybe(TRUE, e, m, j), m, St(k, "no"), t)
         IN  /\ j = "MARK" => T(St(e.fwmark, "no"))
             /\ j = "TPROXY" => T(St(e.fwmark, "TPROXY"))
             /\ j \in Ending => T(St(k, j))
<1> DEFINE r == RuleFor(e, m, j)
           no == "no"
           s == St(k, no)
           a == Apply(r, pkt, s)
           q == Maybe(TRUE, e, m, j)
           t == Fold(Applies(pkt), q, s)
           M == Met(m, pkt)
<1>1. r \in Rule /\ r.j = j /\ r.mark = e.fwmark /\ (Matches(r, pkt) <=> M)
  BY RuleForIs
<1>2. s \in State
  BY States
<1>3. q = <<r>>
  BY DEF Maybe, When, One
<1>4. Applies(pkt) \in Stepping(Rule, State) /\ Applies(pkt)[<<r, s>>] = a
  BY <1>1, <1>2, AppliesSteps
<1>5. no = "no" /\ no \in {"no"} \cup Target
  OBVIOUS
<1> HIDE DEF r, no, q
<1>6. t = a
  <2> HIDE DEF s, a
  <2> QED
    BY <1>1, <1>2, <1>3, <1>4, FoldOne
<1>7. /\ ~M => a = s
      /\ M => /\ j = "MARK" => a = St(e.fwmark, no)
              /\ j = "TPROXY" => a = St(e.fwmark, "TPROXY")
              /\ j \in Ending => a = St(k, j)
  <2>1. /\ ~Matches(r, pkt) => a = s
        /\ Matches(r, pkt) =>
              /\ r.j = "MARK" => a = St(r.mark, no)
              /\ r.j = "TPROXY" => a = St(r.mark, "TPROXY")
              /\ r.j \in Ending => a = St(k, r.j)
    BY <1>1, <1>5, ApplyIs DEF Ending
  <2> HIDE DEF a, s, M
  <2> QED
    BY <1>1, <2>1
<1> HIDE DEF a, t, M
<1>8. /\ ~M => t = s
      /\ M => /\ j = "MARK" => t = St(e.fwmark, no)
              /\ j = "TPROXY" => t = St(e.fwmark, "TPROXY")
              /\ j \in Ending => t = St(k, j)
  BY <1>6, <1>7
<1> QED
  BY <1>8 DEF t, M, q, no, Takes

(* Rules that mark, that hand over to the proxy, and that end the walk. *)
LEMMA RuleTakes ==
  ASSUME NEW pkt, NEW e \in Environment, NEW m \in Match \ {"cgroup"}, NEW k \in Nat
  PROVE  /\ Takes(pkt, Maybe(TRUE, e, m, "MARK"), m, St(k, "no"), St(e.fwmark, "no"))
         /\ Takes(pkt, Maybe(TRUE, e, m, "TPROXY"), m, St(k, "no"), St(e.fwmark, "TPROXY"))
         /\ \A j \in Ending :
              Takes(pkt, Maybe(TRUE, e, m, j), m, St(k, "no"), St(k, j))
<1>1. "MARK" \in Target /\ "TPROXY" \in Target /\ Ending \subseteq Target
  BY DEF Target, Ending
<1>2. Takes(pkt, Maybe(TRUE, e, m, "MARK"), m, St(k, "no"), St(e.fwmark, "no"))
  BY <1>1, PassesFirst
<1>3. Takes(pkt, Maybe(TRUE, e, m, "TPROXY"), m, St(k, "no"), St(e.fwmark, "TPROXY"))
  BY <1>1, PassesFirst
<1>4. ASSUME NEW j \in Ending
      PROVE  Takes(pkt, Maybe(TRUE, e, m, j), m, St(k, "no"), St(k, j))
  BY <1>1, <1>4, PassesFirst
<1> QED
  BY <1>2, <1>3, <1>4

(* Such a rule is a list. *)
LEMMA RuleLists ==
  ASSUME NEW e \in Environment, NEW m \in Match \ {"cgroup"}, NEW j \in Target
  PROVE  Maybe(TRUE, e, m, j) \in Seq(Rule)
<1> DEFINE r == RuleFor(e, m, j)
           q == Maybe(TRUE, e, m, j)
<1>1. r \in Rule
  BY RuleForIs
<1>2. q = <<r>>
  BY DEF Maybe, When, One
<1> HIDE DEF r, q
<1>3. q \in Seq(Rule)
  BY <1>1, <1>2
<1> QED
  BY <1>3 DEF q

(* Where a walk has ended, nothing more happens. *)
LEMMA EndedStays ==
  ASSUME NEW pkt, NEW s \in State, s.end # "no", NEW list \in Seq(Rule)
  PROVE  Fold(Applies(pkt), list, s) = s
<1> DEFINE step == Applies(pkt)
           T == {s}
<1>1. step \in Stepping(Rule, State) /\ \A r \in Rule : step[<<r, s>>] = Apply(r, pkt, s)
  BY AppliesSteps
<1>2. \A r \in Rule : Apply(r, pkt, s) = s
  BY DEF Apply
<1>3. Entries(list) \subseteq Rule
  BY DEF Entries
<1>4. T \in SUBSET State /\ s \in T
  OBVIOUS
<1>5. \A x \in Entries(list), v \in T : step[<<x, v>>] \in T
  BY <1>1, <1>2, <1>3
<1> HIDE DEF step, T
<1>6. Fold(step, list, s) \in T
  BY <1>1, <1>4, <1>5, FoldStays
<1> QED
  BY <1>6 DEF step, T

(* If it is there and the packet meets m, q takes it from s to t. *)
Brings(step, pkt, q, b, m, s, t) ==
  /\ ~b \/ ~Met(m, pkt) => Fold(step, q, s) = s
  /\ b /\ Met(m, pkt) => Fold(step, q, s) = t

(* In a chain that may jump to another. *)
LEMMA HopBrings ==
  ASSUME NEW n \in Net, NEW f \in Family, NEW pkt, NEW e \in Environment, NEW b \in BOOLEAN,
         NEW m \in Match \ {"cgroup"}, NEW j \in Target, NEW k \in Nat
  PROVE  LET B(t) == Brings(Hops(n, f, pkt), pkt, Maybe(b, e, m, j), b, m, St(k, "no"), t)
         IN  /\ j \in Ending \ Chain => B(St(k, j))
             /\ j \in Chain => B(Back(Fold(Applies(pkt), n.chain[f][j], St(k, "no"))))
<1> DEFINE r == RuleFor(e, m, j)
           no == "no"
           s == St(k, no)
           a == WalkRule(n, f, r, pkt, s)
           q == Maybe(b, e, m, j)
           t == Fold(Hops(n, f, pkt), q, s)
           c == Back(Fold(Applies(pkt), n.chain[f][j], s))
           M == Met(m, pkt)
<1>1. r \in Rule /\ r.j = j /\ (Matches(r, pkt) <=> M)
  BY RuleForIs
<1>2. s \in State /\ s.end = "no"
  BY States
<1>3. (b => t = a) /\ (~b => t = s)
  <2>1. Hops(n, f, pkt) \in Stepping(Rule, State) /\ Hops(n, f, pkt)[<<r, s>>] = a
    BY <1>1, <1>2, HopsSteps
  <2> HIDE DEF s, a
  <2> QED
    BY <1>2, <2>1, MaybeFold
<1>4. no = "no" /\ no \in {"no"} \cup Target
  OBVIOUS
<1> HIDE DEF r, no, q
<1>5. /\ ~M => a = s
      /\ M /\ j \in Chain => a = c
      /\ M /\ j \in Ending \ Chain => a = St(k, j)
  <2>1. /\ ~Matches(r, pkt) => a = s
        /\ r.j \notin Chain => a = Apply(r, pkt, s)
        /\ r.j \in Chain /\ Matches(r, pkt) => a = Back(Fold(Applies(pkt), n.chain[f][r.j], s))
    BY <1>1, <1>2, HopIs
  <2>2. Matches(r, pkt) /\ r.j \in Ending => Apply(r, pkt, s) = St(k, r.j)
    BY <1>1, <1>4, ApplyIs DEF Ending
  <2>3. Back(Fold(Applies(pkt), n.chain[f][r.j], s)) = c
    BY <1>1
  <2> HIDE DEF a, s, c, M
  <2> QED
    BY <1>1, <2>1, <2>2, <2>3
<1> HIDE DEF a, t, c, M
<1>6. /\ ~b \/ ~M => t = s
      /\ b /\ M /\ j \in Chain => t = c
      /\ b /\ M /\ j \in Ending \ Chain => t = St(k, j)
  BY <1>3, <1>5
<1> QED
  BY <1>6 DEF t, c, M, q, no, Brings

(* There too, nothing more happens where a walk has ended. *)
LEMMA HopEnded ==
  ASSUME NEW n \in Net, NEW f \in Family, NEW pkt, NEW s \in State, s.end # "no",
         NEW list \in Seq(Rule)
  PROVE  Fold(Hops(n, f, pkt), list, s) = s
<1> DEFINE step == Hops(n, f, pkt)
           T == {s}
<1>1. step \in Stepping(Rule, State) /\ \A r \in Rule : step[<<r, s>>] = WalkRule(n, f, r, pkt, s)
  BY HopsSteps
<1>2. \A r \in Rule : WalkRule(n, f, r, pkt, s) = s
  BY DEF WalkRule, Apply
<1>3. Entries(list) \subseteq Rule
  BY DEF Entries
<1>4. T \in SUBSET State /\ s \in T
  OBVIOUS
<1>5. \A x \in Entries(list), v \in T : step[<<x, v>>] \in T
  BY <1>1, <1>2, <1>3
<1> HIDE DEF step, T
<1>6. Fold(step, list, s) \in T
  BY <1>1, <1>4, <1>5, FoldStays
<1> QED
  BY <1>6 DEF step, T

(* What follows, takes the packet on from where it has come. *)
LEMMA FoldOn ==
  ASSUME NEW step \in Stepping(Rule, State), NEW s \in Seq(Rule), NEW t \in Seq(Rule),
         NEW a \in State, NEW b \in State, NEW c, Fold(step, s, a) = b, Fold(step, t, b) = c
  PROVE  s \o t \in Seq(Rule) /\ Fold(step, s \o t, a) = c
BY FoldConcat

-----------------------------------------------------------------------------
(* What the chains of a start do to a packet.                              *)

(* The rules of the script pick the packet: those for UDP take lookups. *)
Picked(e, proto) == \/ proto = "tcp" /\ e.enable_tcp
                    \/ proto \in {"udp", "dns"} /\ e.enable_udp
                    \/ proto = "dns" /\ e.enable_dns

(* The packet is one for the proxy, if it comes from where it should. *)
Chosen(e, pkt) == pkt.dst = "unicast" /\ Picked(e, pkt.proto)

(* The options are switches. *)
LEMMA Options ==
  ASSUME NEW e \in Environment
  PROVE  /\ e.enable_dns \in BOOLEAN /\ e.enable_udp \in BOOLEAN
         /\ e.enable_tcp \in BOOLEAN /\ e.enable_gateway \in BOOLEAN
         /\ TurnsAway(e) \in BOOLEAN /\ (TurnsAway(e) <=> ~e.enable_gateway)
         /\ e.fwmark \in Nat /\ e.fwmark # 0 /\ e.table \in Nat
BY DEF Environment, TurnsAway

(* TPROXY_MARK marks the packets that are. *)
LEMMA MarkChain ==
  ASSUME NEW pkt \in Packet(Existing), NEW e \in Environment, NEW k \in Nat
  PROVE  Back(Fold(Applies(pkt), MarkRules(e), St(k, "no"))) =
           St(IF Chosen(e, pkt) THEN e.fwmark ELSE k, "no")
<1> DEFINE step == Applies(pkt)
           fw == e.fwmark
           uni == pkt.dst = "unicast"
           q1 == Maybe(TRUE, e, "notunicast", "RETURN")
           q2 == Maybe(e.enable_dns, e, "dns", "MARK")
           q3 == Maybe(e.enable_udp, e, "udp", "MARK")
           q4 == Maybe(e.enable_tcp, e, "tcp", "MARK")
           p2 == q1 \o q2
           p3 == p2 \o q3
           p4 == p3 \o q4
           d == IF uni THEN "no" ELSE "RETURN"
           k2 == IF uni /\ e.enable_dns /\ pkt.proto = "dns" THEN fw ELSE k
           k3 == IF uni /\ e.enable_udp /\ pkt.proto \in {"udp", "dns"} THEN fw ELSE k2
           k4 == IF uni /\ e.enable_tcp /\ pkt.proto = "tcp" THEN fw ELSE k3
<1>1. MarkRules(e) = p4
  BY DEF MarkRules, Maybe, When
<1>2. step \in Stepping(Rule, State)
  BY AppliesSteps
<1>3. /\ {"notunicast", "dns", "udp", "tcp"} \subseteq Match \ {"cgroup"}
      /\ {"MARK", "RETURN"} \subseteq Target /\ "RETURN" \in Ending
  BY DEF Match, Target, Ending
<1>4. fw \in Nat /\ k2 \in Nat /\ k3 \in Nat /\ k4 \in Nat /\ d \in {"no"} \cup Target
  BY <1>3, Options
<1>5. q1 \in Seq(Rule) /\ Fold(step, q1, St(k, "no")) = St(k, d)
  <2>1. q1 \in Seq(Rule)
    BY <1>3, RuleLists
  <2>2. Takes(pkt, q1, "notunicast", St(k, "no"), St(k, "RETURN"))
    BY <1>3, RuleTakes
  <2>3. Met("notunicast", pkt) <=> ~uni
    BY MetIs
  <2> HIDE DEF q1, uni
  <2> QED
    BY <2>1, <2>2, <2>3 DEF Takes
<1>6. q2 \in Seq(Rule) /\ Fold(step, q2, St(k, d)) = St(k2, d)
  <2>1. q2 \in Seq(Rule)
    BY <1>2, <1>3, <1>4, States, Options, MaybeFold
  <2> HIDE DEF d
  <2>2. LET t == Fold(step, q2, St(k, d))
        IN  /\ d # "no" \/ ~e.enable_dns \/ ~Met("dns", pkt) => t = St(k, d)
            /\ d = "no" /\ e.enable_dns /\ Met("dns", pkt) => t = St(fw, "no")
    BY <1>3, <1>4, Options, Passes
  <2> QED
    BY <2>1, <2>2, MetIs DEF d
<1>7. q3 \in Seq(Rule) /\ Fold(step, q3, St(k2, d)) = St(k3, d)
  <2>1. q3 \in Seq(Rule)
    BY <1>2, <1>3, <1>4, States, Options, MaybeFold
  <2> HIDE DEF d, k2
  <2>2. LET t == Fold(step, q3, St(k2, d))
        IN  /\ d # "no" \/ ~e.enable_udp \/ ~Met("udp", pkt) => t = St(k2, d)
            /\ d = "no" /\ e.enable_udp /\ Met("udp", pkt) => t = St(fw, "no")
    BY <1>3, <1>4, Options, Passes
  <2> QED
    BY <2>1, <2>2, MetIs DEF d
<1>8. q4 \in Seq(Rule) /\ Fold(step, q4, St(k3, d)) = St(k4, d)
  <2>1. q4 \in Seq(Rule)
    BY <1>2, <1>3, <1>4, States, Options, MaybeFold
  <2> HIDE DEF d, k3
  <2>2. LET t == Fold(step, q4, St(k3, d))
        IN  /\ d # "no" \/ ~e.enable_tcp \/ ~Met("tcp", pkt) => t = St(k3, d)
            /\ d = "no" /\ e.enable_tcp /\ Met("tcp", pkt) => t = St(fw, "no")
    BY <1>3, <1>4, Options, Passes
  <2> QED
    BY <2>1, <2>2, MetIs DEF d
<1>9. Back(St(k4, d)) = St(k4, "no")
  BY <1>4, BackIs
<1>10. k4 = IF Chosen(e, pkt) THEN fw ELSE k
  BY Options DEF Chosen, Picked
<1> DEFINE s1 == St(k, "no")
           s2 == St(k, d)
           s3 == St(k2, d)
           s4 == St(k3, d)
           s5 == St(k4, d)
<1>11. s1 \in State /\ s2 \in State /\ s3 \in State /\ s4 \in State /\ s5 \in State
  BY <1>4, States
<1> HIDE DEF step, q1, q2, q3, q4, s1, s2, s3, s4, s5, d, k2, k3, k4, fw
<1>12. p2 \in Seq(Rule) /\ Fold(step, p2, s1) = s3
  BY <1>2, <1>5, <1>6, <1>11, FoldOn DEF s1, s2, s3
<1> HIDE DEF p2
<1>13. p3 \in Seq(Rule) /\ Fold(step, p3, s1) = s4
  BY <1>2, <1>7, <1>11, <1>12, FoldOn DEF s3, s4
<1> HIDE DEF p3
<1>14. Fold(step, p4, s1) = s5
  BY <1>2, <1>8, <1>11, <1>13, FoldOn DEF s4, s5
<1> HIDE DEF p4
<1> QED
  BY <1>1, <1>9, <1>10, <1>14 DEF step, fw, s1, s5

(* TPROXY_ENT gives all that comes to it to the proxy, with the mark. *)
LEMMA EntChain ==
  ASSUME NEW pkt \in Packet(Existing), NEW e \in Environment, NEW k \in Nat,
         pkt.proto \in {"tcp", "udp", "dns"}
  PROVE  Back(Fold(Applies(pkt), EntRules(e), St(k, "no"))) =
           St(e.fwmark, IF pkt.socket THEN "ACCEPT" ELSE "TPROXY")
<1> DEFINE step == Applies(pkt)
           fw == e.fwmark
           q1 == Maybe(TRUE, e, "socket", "MARK")
           q2 == Maybe(TRUE, e, "socket", "ACCEPT")
           q3 == Maybe(TRUE, e, "tcp", "TPROXY")
           q4 == Maybe(TRUE, e, "udp", "TPROXY")
           p2 == q1 \o q2
           p3 == p2 \o q3
           p4 == p3 \o q4
           s1 == St(k, "no")
           s2 == St(fw, "no")
           s3 == St(fw, "ACCEPT")
           s4 == St(fw, "TPROXY")
<1>1. EntRules(e) = p4
  BY DEF EntRules, Maybe, When
<1>2. step \in Stepping(Rule, State)
  BY AppliesSteps
<1>3. /\ {"socket", "tcp", "udp"} \subseteq Match \ {"cgroup"}
      /\ {"MARK", "ACCEPT", "TPROXY"} \subseteq Target /\ "ACCEPT" \in Ending
  BY DEF Match, Target, Ending
<1>4. fw \in Nat
  BY Options
<1>5. /\ q1 \in Seq(Rule) /\ q2 \in Seq(Rule)
      /\ q3 \in Seq(Rule) /\ q4 \in Seq(Rule)
  BY <1>3, RuleLists
<1>6. /\ s1 \in State /\ s2 \in State /\ s3 \in State /\ s4 \in State
      /\ s3.end = "ACCEPT" /\ s4.end = "TPROXY"
  BY <1>3, <1>4, States
<1>7. /\ ~pkt.socket => Fold(step, q1, s1) = s1 /\ Fold(step, q2, s1) = s1
      /\ pkt.socket => Fold(step, q1, s1) = s2 /\ Fold(step, q2, s2) = s3
  <2>1. Met("socket", pkt) <=> pkt.socket
    BY MetIs
  <2>2. Takes(pkt, q1, "socket", s1, s2)
    BY <1>3, RuleTakes
  <2>3. Takes(pkt, q2, "socket", s1, St(k, "ACCEPT"))
    BY <1>3, RuleTakes
  <2>4. Takes(pkt, q2, "socket", s2, s3)
    BY <1>3, <1>4, RuleTakes
  <2> HIDE DEF q1, q2, s1, s2, s3
  <2> QED
    BY <2>1, <2>2, <2>3, <2>4 DEF Takes
<1>8. /\ pkt.proto # "tcp" => Fold(step, q3, s1) = s1
      /\ pkt.proto = "tcp" => Fold(step, q3, s1) = s4
  <2>1. Met("tcp", pkt) <=> pkt.proto = "tcp"
    BY MetIs
  <2>2. Takes(pkt, q3, "tcp", s1, s4)
    BY <1>3, RuleTakes
  <2> HIDE DEF q3, s1, s4
  <2> QED
    BY <2>1, <2>2 DEF Takes
<1>9. pkt.proto # "tcp" => Fold(step, q4, s1) = s4
  <2>1. Met("udp", pkt) <=> pkt.proto \in {"udp", "dns"}
    BY MetIs
  <2>2. Takes(pkt, q4, "udp", s1, s4)
    BY <1>3, RuleTakes
  <2> HIDE DEF q4, s1, s4
  <2> QED
    BY <2>1, <2>2 DEF Takes
<1>10. \A q \in Seq(Rule) : Fold(step, q, s3) = s3 /\ Fold(step, q, s4) = s4
  <2> HIDE DEF s3, s4
  <2> QED
    BY <1>6, EndedStays
<1>11. Back(s3) = s3 /\ Back(s4) = s4
  BY <1>3, <1>4, BackIs
<1> HIDE DEF step, q1, q2, q3, q4, s1, s2, s3, s4
<1>12. p2 \in Seq(Rule) /\ Fold(step, p2, s1) = IF pkt.socket THEN s3 ELSE s1
  <2>1. CASE pkt.socket
    BY <1>2, <1>5, <1>6, <1>7, <2>1, FoldOn
  <2>2. CASE ~pkt.socket
    BY <1>2, <1>5, <1>6, <1>7, <2>2, FoldOn
  <2> QED
    BY <2>1, <2>2
<1> HIDE DEF p2
<1> DEFINE t == IF pkt.socket THEN s3 ELSE IF pkt.proto = "tcp" THEN s4 ELSE s1
<1>13. p3 \in Seq(Rule) /\ Fold(step, p3, s1) = t
  <2>1. t \in State /\ Fold(step, q3, IF pkt.socket THEN s3 ELSE s1) = t
    BY <1>5, <1>6, <1>8, <1>10
  <2> HIDE DEF t
  <2> QED
    BY <1>2, <1>5, <1>6, <1>12, <2>1, FoldOn
<1> HIDE DEF p3
<1>14. Fold(step, p4, s1) = IF pkt.socket THEN s3 ELSE s4
  <2>1. Fold(step, q4, t) = IF pkt.socket THEN s3 ELSE s4
    BY <1>5, <1>9, <1>10
  <2>2. t \in State
    BY <1>6
  <2> HIDE DEF t
  <2> QED
    BY <1>2, <1>5, <1>6, <1>13, <2>1, <2>2, FoldOn
<1> HIDE DEF p4
<1> QED
  BY <1>1, <1>11, <1>14 DEF step, fw, s1, s3, s4

(* TPROXY_PRE turns a packet away, gives it to the proxy, or lets it go.   *)
LEMMA PreChain ==
  ASSUME NEW n \in Net, NEW f \in Family, NEW pkt \in Packet(Existing), NEW e \in Environment,
         NEW k \in Nat, n.chain[f]["TPROXY_ENT"] = EntRules(e)
  PROVE  Fold(Hops(n, f, pkt), PreRules(e), St(k, "no")) =
           IF pkt.dst # "unicast" \/ (~e.enable_gateway /\ ~pkt.local) THEN St(k, "RETURN")
           ELSE IF Picked(e, pkt.proto)
           THEN St(e.fwmark, IF pkt.socket THEN "ACCEPT" ELSE "TPROXY")
           ELSE St(k, "no")
<1> DEFINE step == Hops(n, f, pkt)
           q1 == Maybe(TRUE, e, "dstlocal", "RETURN")
           q2 == Maybe(TRUE, e, "notunicast", "RETURN")
           q3 == Maybe(TurnsAway(e), e, "srcremote", "RETURN")
           q4 == Maybe(e.enable_dns, e, "dns", "TPROXY_ENT")
           q5 == Maybe(e.enable_udp, e, "udp", "TPROXY_ENT")
           q6 == Maybe(e.enable_tcp, e, "tcp", "TPROXY_ENT")
           p2 == q1 \o q2
           p3 == p2 \o q3
           p4 == p3 \o q4
           p5 == p4 \o q5
           p6 == p5 \o q6
           go == St(k, "no")
           ret == St(k, "RETURN")
           got == St(e.fwmark, IF pkt.socket THEN "ACCEPT" ELSE "TPROXY")
           ent == Back(Fold(Applies(pkt), n.chain[f]["TPROXY_ENT"], go))
           away == pkt.dst # "unicast" \/ (~e.enable_gateway /\ ~pkt.local)
           dns == e.enable_dns /\ pkt.proto = "dns"
           udp == e.enable_udp /\ pkt.proto \in {"udp", "dns"}
           tcp == e.enable_tcp /\ pkt.proto = "tcp"
<1>1. PreRules(e) = p6
  BY DEF PreRules, Maybe, When
<1>2. step \in Stepping(Rule, State)
  BY HopsSteps
<1>3. /\ {"dstlocal", "notunicast", "srcremote", "dns", "udp", "tcp"} \subseteq Match \ {"cgroup"}
      /\ {"RETURN", "ACCEPT", "TPROXY", "TPROXY_ENT"} \subseteq Target
      /\ "RETURN" \in Ending \ Chain /\ "TPROXY_ENT" \in Chain
  BY DEF Match, Target, Ending, Chain
<1>4. go \in State /\ ret \in State /\ got \in State /\ ret.end # "no" /\ got.end # "no"
  <2>1. e.fwmark \in Nat
    BY Options
  <2>2. (IF pkt.socket THEN "ACCEPT" ELSE "TPROXY") \in {"ACCEPT", "TPROXY"}
    OBVIOUS
  <2> QED
    BY <1>3, <2>1, <2>2, States
<1>5. pkt.proto \in {"tcp", "udp", "dns"} => ent = got
  BY EntChain
<1>6. q1 \in Seq(Rule) /\ q2 \in Seq(Rule)
  BY <1>3, RuleLists
<1>7. q3 \in Seq(Rule) /\ q4 \in Seq(Rule) /\ q5 \in Seq(Rule) /\ q6 \in Seq(Rule)
  BY <1>2, <1>3, <1>4, Options, MaybeFold
<1>8. \A q \in Seq(Rule) : Fold(step, q, ret) = ret /\ Fold(step, q, got) = got
  <2> HIDE DEF ret, got
  <2> QED
    BY <1>4, HopEnded
<1>9. /\ Brings(step, pkt, q1, TRUE, "dstlocal", go, ret)
      /\ Brings(step, pkt, q2, TRUE, "notunicast", go, ret)
  BY <1>3, HopBrings
<1>10. Brings(step, pkt, q3, TurnsAway(e), "srcremote", go, ret)
  BY <1>3, Options, HopBrings
<1>11. /\ Brings(step, pkt, q4, e.enable_dns, "dns", go, ent)
       /\ Brings(step, pkt, q5, e.enable_udp, "udp", go, ent)
       /\ Brings(step, pkt, q6, e.enable_tcp, "tcp", go, ent)
  BY <1>3, Options, HopBrings
<1> DEFINE u1 == IF pkt.dst = "local" THEN ret ELSE go
           u2 == IF pkt.dst # "unicast" THEN ret ELSE go
           u3 == IF away THEN ret ELSE go
           u4 == IF away THEN ret ELSE IF dns THEN got ELSE go
           u5 == IF away THEN ret ELSE IF dns \/ udp THEN got ELSE go
           u6 == IF away THEN ret ELSE IF dns \/ udp \/ tcp THEN got ELSE go
<1>12. dns \/ udp \/ tcp <=> Picked(e, pkt.proto)
  BY DEF Picked
<1>13. /\ Met("dstlocal", pkt) <=> pkt.dst = "local"
       /\ Met("notunicast", pkt) <=> pkt.dst # "unicast"
       /\ Met("srcremote", pkt) <=> ~pkt.local
       /\ Met("dns", pkt) <=> pkt.proto = "dns"
       /\ Met("udp", pkt) <=> pkt.proto \in {"udp", "dns"}
       /\ Met("tcp", pkt) <=> pkt.proto = "tcp"
  BY MetIs
<1> HIDE DEF step, q1, q2, q3, q4, q5, q6, go, ret, got, ent
<1>14. Fold(step, q1, go) = u1
  BY <1>9, <1>13 DEF Brings
<1>15. Fold(step, q2, u1) = u2
  BY <1>6, <1>8, <1>9, <1>13 DEF Brings
<1>16. Fold(step, q3, u2) = u3
  BY <1>7, <1>8, <1>10, <1>13, Options DEF Brings
<1> HIDE DEF away
<1>17. Fold(step, q4, u3) = u4
  BY <1>5, <1>7, <1>8, <1>11, <1>13 DEF Brings
<1>18. Fold(step, q5, u4) = u5
  BY <1>5, <1>7, <1>8, <1>11, <1>13 DEF Brings
<1>19. Fold(step, q6, u5) = u6
  BY <1>5, <1>7, <1>8, <1>11, <1>13 DEF Brings
<1>20. /\ u1 \in State /\ u2 \in State /\ u3 \in State
       /\ u4 \in State /\ u5 \in State /\ u6 \in State
  BY <1>4
<1> HIDE DEF u1, u2, u3, u4, u5, u6
<1>21. p2 \in Seq(Rule) /\ Fold(step, p2, go) = u2
  BY <1>2, <1>4, <1>6, <1>14, <1>15, <1>20, FoldOn
<1> HIDE DEF p2
<1>22. p3 \in Seq(Rule) /\ Fold(step, p3, go) = u3
  BY <1>2, <1>4, <1>7, <1>16, <1>20, <1>21, FoldOn
<1> HIDE DEF p3
<1>23. p4 \in Seq(Rule) /\ Fold(step, p4, go) = u4
  BY <1>2, <1>4, <1>7, <1>17, <1>20, <1>22, FoldOn
<1> HIDE DEF p4
<1>24. p5 \in Seq(Rule) /\ Fold(step, p5, go) = u5
  BY <1>2, <1>4, <1>7, <1>18, <1>20, <1>23, FoldOn
<1> HIDE DEF p5
<1>25. Fold(step, p6, go) = u6
  BY <1>2, <1>4, <1>7, <1>19, <1>20, <1>24, FoldOn
<1> HIDE DEF p6, dns, udp, tcp
<1>26. u6 = IF away THEN ret ELSE IF Picked(e, pkt.proto) THEN got ELSE go
  BY <1>12 DEF u6
<1>27. Fold(step, PreRules(e), go) =
         IF away THEN ret ELSE IF Picked(e, pkt.proto) THEN got ELSE go
  BY <1>1, <1>25, <1>26
<1> QED
  BY <1>27 DEF step, go, ret, got, away

(* The cgroups that a list names and that exist. *)
LEMMA KeptIs ==
  ASSUME NEW cgs \in Seq(Path), NEW cg
  PROVE  /\ Kept(cgs) \in Seq(Path)
         /\ InList(cg, cgs) <=> \E i \in DOMAIN Kept(cgs) : PathMatch(cg, Kept(cgs)[i])
<1> DEFINE S == Range(cgs)
           X == S \ Existing
           kept == Kept(cgs)
           N == Len(kept)
<1>1. DOMAIN cgs = 1..Len(cgs) /\ Len(cgs) \in Nat
  OBVIOUS
<1>2. cgs \in Seq(S)
  BY <1>1 DEF Range
<1>3. S \subseteq Path
  BY DEF Range
<1>4. kept \in Seq(S \ X)
  BY <1>2, WithoutClean DEF Kept
<1>5. \A i \in 1..Len(cgs) : cgs[i] \in Existing => \E k \in 1..N : kept[k] = cgs[i]
  <2>1. ASSUME NEW i \in 1..Len(cgs), cgs[i] \in Existing
        PROVE  \E k \in 1..N : kept[k] = cgs[i]
    <3>1. cgs[i] \notin X
      BY <2>1
    <3> HIDE DEF X, S
    <3> QED
      BY <1>2, <3>1, WithoutKeeps DEF Kept, X, S
  <2> QED
    BY <2>1
<1>6. kept \in Seq(Path)
  <2>1. kept \in Seq(Path \ X)
    BY WithoutClean DEF Kept
  <2> HIDE DEF kept, X
  <2> QED
    BY <2>1
<1> HIDE DEF kept
<1>7. /\ DOMAIN kept = 1..N /\ N \in Nat
      /\ \A k \in 1..N : kept[k] \in S /\ kept[k] \in Existing
  BY <1>4
<1>8. \A k \in 1..N : \E i \in DOMAIN cgs : cgs[i] = kept[k]
  BY <1>7 DEF Range
<1>9. InList(cg, cgs) <=> \E i \in 1..Len(cgs) : cgs[i] \in Existing /\ PathMatch(cg, cgs[i])
  BY <1>1 DEF InList
<1> HIDE DEF S, X, N
<1>10. (\E i \in 1..Len(cgs) : cgs[i] \in Existing /\ PathMatch(cg, cgs[i]))
         <=> \E k \in 1..N : PathMatch(cg, kept[k])
  BY <1>1, <1>5, <1>7, <1>8
<1> QED
  BY <1>7, <1>6, <1>9, <1>10 DEF kept

(* Where the rule of a cgroup takes a packet from s. *)
After(n, f, pkt, j, s) ==
  IF j = "RETURN" THEN St(s.mark, "RETURN")
  ELSE Back(Fold(Applies(pkt), n.chain[f]["TPROXY_MARK"], s))

(* It takes it there under the condition c, and from s to t. *)
Moves(step, r, c, s, t) ==
  /\ s.end # "no" \/ ~c => step[<<r, s>>] = s
  /\ s.end = "no" /\ c => step[<<r, s>>] = t

(* What the rule of a cgroup does. *)
LEMMA CgroupHop ==
  ASSUME NEW n \in Net, NEW f \in Family, NEW pkt, NEW e \in Environment, NEW cg \in Path,
         NEW j \in {"RETURN", "TPROXY_MARK"}, NEW s \in State
  PROVE  /\ CgroupRule(e, cg, j) \in Rule
         /\ Moves(Hops(n, f, pkt), CgroupRule(e, cg, j), PathMatch(pkt.cg, cg),
                  s, After(n, f, pkt, j, s))
<1> DEFINE r == CgroupRule(e, cg, j)
           t == Hops(n, f, pkt)[<<r, s>>]
           M == PathMatch(pkt.cg, cg)
           c == Back(Fold(Applies(pkt), n.chain[f]["TPROXY_MARK"], s))
<1>1. r.m = "cgroup" /\ r.path = cg /\ r.j = j /\ r.mark = e.fwmark
  BY DEF CgroupRule
<1>2. r \in Rule
  BY DEF CgroupRule, Rule, RuleOf, Match, Target, Chain, Environment
<1> HIDE DEF r
<1>3. Matches(r, pkt) <=> M
  BY <1>1 DEF Matches
<1>4. t = WalkRule(n, f, r, pkt, s)
  BY <1>2, HopsSteps
<1>5. j = "RETURN" => r.j \notin Chain
  BY <1>1 DEF Chain
<1>6. j # "RETURN" => r.j \in Chain /\ r.j = "TPROXY_MARK"
  BY <1>1 DEF Chain
<1>7. s.mark \in Nat /\ s.end \in {"no"} \cup Target /\ s = St(s.mark, s.end)
  BY States
<1>8. s.end = "no" /\ M /\ j = "RETURN" => t = St(s.mark, "RETURN")
  <2>1. r.j \notin Chain => WalkRule(n, f, r, pkt, s) = Apply(r, pkt, s)
    BY DEF WalkRule
  <2>2. s.end = "no" /\ Matches(r, pkt) /\ r.j = "RETURN" => Apply(r, pkt, s) = St(s.mark, "RETURN")
    BY <1>7 DEF Apply, St
  <2> QED
    BY <1>1, <1>3, <1>4, <1>5, <2>1, <2>2
<1>9. s.end = "no" /\ M /\ j # "RETURN" => t = c
  <2>1. r.j \in Chain /\ s.end = "no" /\ Matches(r, pkt) =>
          WalkRule(n, f, r, pkt, s) = Back(Fold(Applies(pkt), n.chain[f][r.j], s))
    BY <1>2, HopIs
  <2> HIDE DEF t, M
  <2> QED
    BY <1>3, <1>4, <1>6, <2>1
<1>10. s.end # "no" \/ ~M => t = s
  <2>1. s.end # "no" \/ ~Matches(r, pkt) => WalkRule(n, f, r, pkt, s) = s
    BY <1>2, HopIs
  <2> HIDE DEF t, M
  <2> QED
    BY <1>3, <1>4, <2>1
<1> HIDE DEF t, M, c
<1>11. s.end = "no" /\ M => t = IF j = "RETURN" THEN St(s.mark, "RETURN") ELSE c
  BY <1>8, <1>9
<1> QED
  BY <1>2, <1>10, <1>11 DEF r, t, M, c, Moves, After

(* What the rules of all cgroups of a list do. *)
LEMMA CgroupsFold ==
  ASSUME NEW n \in Net, NEW f \in Family, NEW pkt, NEW e \in Environment,
         NEW cgs \in Seq(Path), NEW j \in {"RETURN", "TPROXY_MARK"},
         NEW a \in State, NEW b \in State, a.end = "no",
         b = After(n, f, pkt, j, a), b.end = "no" => b = After(n, f, pkt, j, b)
  PROVE  /\ ForCgroups(e, cgs, j) \in Seq(Rule)
         /\ Fold(Hops(n, f, pkt), ForCgroups(e, cgs, j), a) =
              IF InList(pkt.cg, cgs) THEN b ELSE a
<1> DEFINE kept == Kept(cgs)
           R(i) == CgroupRule(e, kept[i], j)
           rules == ForCgroups(e, cgs, j)
           step == Hops(n, f, pkt)
           H == {CgroupRule(e, cg, j) : cg \in {p \in Path : PathMatch(pkt.cg, p)}}
           N == Len(kept)
<1>1. /\ kept \in Seq(Path)
      /\ InList(pkt.cg, cgs) <=> \E i \in DOMAIN kept : PathMatch(pkt.cg, kept[i])
  BY KeptIs
<1>2. rules = [i \in DOMAIN kept |-> R(i)]
  BY DEF ForCgroups
<1>3. ASSUME NEW cg \in Path
      PROVE  LET r == CgroupRule(e, cg, j)
             IN  /\ r \in Rule /\ (r \in H <=> PathMatch(pkt.cg, cg))
                 /\ step[<<r, a>>] = (IF r \in H THEN b ELSE a) /\ step[<<r, b>>] = b
  <2> DEFINE r == CgroupRule(e, cg, j)
             M == PathMatch(pkt.cg, cg)
  <2>1. \A p \in Path : CgroupRule(e, p, j) = r => p = cg
    BY DEF CgroupRule
  <2>2. r \in H <=> M
    BY <2>1
  <2>3. r \in Rule /\ Moves(step, r, M, a, b) /\ Moves(step, r, M, b, After(n, f, pkt, j, b))
    BY CgroupHop
  <2> HIDE DEF r, M, H, step
  <2>4. /\ step[<<r, a>>] = (IF r \in H THEN b ELSE a)
        /\ step[<<r, b>>] = b
    BY <2>2, <2>3 DEF Moves
  <2> QED
    BY <2>2, <2>3, <2>4 DEF r, M
<1> HIDE DEF kept, step, H, rules
<1>4. DOMAIN kept = 1..N /\ N \in Nat /\ \A i \in 1..N : kept[i] \in Path
  BY <1>1
<1>5. \A i \in 1..N : R(i) \in Rule /\ (R(i) \in H <=> PathMatch(pkt.cg, kept[i]))
  BY <1>3, <1>4
<1>6. rules \in Seq(Rule) /\ Len(rules) = N /\ \A i \in 1..N : rules[i] = R(i)
  <2> HIDE DEF R, N
  <2> QED
    BY <1>2, <1>4, <1>5
<1>7. ASSUME NEW x \in Entries(rules)
      PROVE  step[<<x, a>>] = (IF x \in H THEN b ELSE a) /\ step[<<x, b>>] = b
  <2>1. PICK i \in 1..N : x = R(i)
    BY <1>6 DEF Entries
  <2> QED
    BY <1>3, <1>4, <2>1
<1>8. Entries(rules) \cap H # {} <=> InList(pkt.cg, cgs)
  <2>1. Entries(rules) \cap H # {} <=> \E i \in 1..N : R(i) \in H
    <3> HIDE DEF R, N
    <3> QED
      BY <1>6 DEF Entries
  <2> HIDE DEF N
  <2> QED
    BY <1>1, <1>4, <1>5, <2>1
<1>9. step \in Stepping(Rule, State)
  BY HopsSteps DEF step
<1>10. rules \in Seq(Rule)
  BY <1>6
<1>11. Hitting(step, rules, a, b, H)
  BY <1>7 DEF Hitting
<1>12. Fold(step, rules, a) = IF Entries(rules) \cap H # {} THEN b ELSE a
  BY <1>9, <1>10, <1>11, FoldHits
<1> QED
  BY <1>8, <1>10, <1>12 DEF rules, step

(* TPROXY_OUT ends the walk of a packet that is not to be proxied, and     *)
(* marks one of a cgroup that is.                                          *)
LEMMA OutChain ==
  ASSUME NEW n \in Net, NEW f \in Family, NEW pkt \in Packet(Existing), NEW e \in Environment,
         n.chain[f]["TPROXY_MARK"] = MarkRules(e)
  PROVE  Fold(Hops(n, f, pkt), OutRules(e), St(0, "no")) =
           IF pkt.reply \/ InList(pkt.cg, e.cgroup_noproxy) THEN St(0, "RETURN")
           ELSE IF InList(pkt.cg, e.cgroup_proxy)
           THEN St(IF Chosen(e, pkt) THEN e.fwmark ELSE 0, "no")
           ELSE St(0, "no")
<1> DEFINE step == Hops(n, f, pkt)
           q1 == Maybe(TRUE, e, "reply", "RETURN")
           q2 == ForCgroups(e, e.cgroup_noproxy, "RETURN")
           q3 == ForCgroups(e, e.cgroup_proxy, "TPROXY_MARK")
           p2 == q2 \o q3
           p3 == q1 \o p2
           go == St(0, "no")
           ret == St(0, "RETURN")
           k == IF Chosen(e, pkt) THEN e.fwmark ELSE 0
           mk == St(k, "no")
           no == InList(pkt.cg, e.cgroup_noproxy)
           yes == InList(pkt.cg, e.cgroup_proxy)
<1>1. OutRules(e) = p3
  BY DEF OutRules, Maybe, When
<1>2. step \in Stepping(Rule, State)
  BY HopsSteps
<1>3. /\ "reply" \in Match \ {"cgroup"} /\ "RETURN" \in Target
      /\ "RETURN" \in Ending \ Chain
  BY DEF Match, Target, Ending, Chain
<1>4. k \in Nat
  BY Options
<1>5. /\ go \in State /\ ret \in State /\ mk \in State
      /\ go.end = "no" /\ ret.end = "RETURN" /\ mk.end = "no" /\ go.mark = 0
  BY <1>3, <1>4, States
<1>6. e.cgroup_noproxy \in Seq(Path) /\ e.cgroup_proxy \in Seq(Path)
  BY DEF Environment, Path
<1>7. q1 \in Seq(Rule) /\ Brings(step, pkt, q1, TRUE, "reply", go, ret)
  <2>1. q1 \in Seq(Rule)
    BY <1>3, RuleLists
  <2>2. Brings(step, pkt, q1, TRUE, "reply", go, ret)
    BY <1>3, HopBrings
  <2> QED
    BY <2>1, <2>2
<1>8. Met("reply", pkt) <=> pkt.reply
  BY MetIs
<1>9. ret = After(n, f, pkt, "RETURN", go)
  BY <1>5 DEF After
<1>10. mk = After(n, f, pkt, "TPROXY_MARK", go)
  <2>1. Back(Fold(Applies(pkt), MarkRules(e), St(0, "no"))) = mk
    BY MarkChain
  <2> QED
    BY <2>1 DEF After
<1>11. mk = After(n, f, pkt, "TPROXY_MARK", mk)
  <2>1. Back(Fold(Applies(pkt), MarkRules(e), St(k, "no"))) =
          St(IF Chosen(e, pkt) THEN e.fwmark ELSE k, "no")
    BY <1>4, MarkChain
  <2>2. k = IF Chosen(e, pkt) THEN e.fwmark ELSE k
    OBVIOUS
  <2> HIDE DEF k
  <2> QED
    BY <2>1, <2>2 DEF After
<1> HIDE DEF step, q1, q2, q3, go, ret, mk, k, no, yes
<1>12. ret.end # "no"
  BY <1>5
<1>13. q2 \in Seq(Rule) /\ Fold(step, q2, go) = IF no THEN ret ELSE go
  <2>1. ret.end = "no" => ret = After(n, f, pkt, "RETURN", ret)
    BY <1>12
  <2>2. ret \in State /\ go \in State /\ go.end = "no"
    BY <1>5
  <2> DEFINE j == "RETURN"
             cgs == e.cgroup_noproxy
  <2>3. j \in {"RETURN", "TPROXY_MARK"} /\ cgs \in Seq(Path)
    BY <1>6
  <2>4. ret = After(n, f, pkt, j, go) /\ (ret.end = "no" => ret = After(n, f, pkt, j, ret))
    BY <1>9, <2>1
  <2> HIDE DEF j, cgs
  <2>5. /\ ForCgroups(e, cgs, j) \in Seq(Rule)
        /\ Fold(Hops(n, f, pkt), ForCgroups(e, cgs, j), go) =
             IF InList(pkt.cg, cgs) THEN ret ELSE go
    BY <2>2, <2>3, <2>4, CgroupsFold
  <2> QED
    BY <2>5 DEF step, q2, no, j, cgs
<1>14. q3 \in Seq(Rule) /\ Fold(step, q3, go) = IF yes THEN mk ELSE go
  BY <1>5, <1>6, <1>10, <1>11, CgroupsFold DEF step, q3, yes
<1>15. Fold(step, q1, go) = IF pkt.reply THEN ret ELSE go
  BY <1>7, <1>8 DEF Brings
<1>16. \A q \in Seq(Rule) : Fold(step, q, ret) = ret
  BY <1>5, <1>12, HopEnded DEF step
<1> DEFINE u == IF no THEN ret ELSE IF yes THEN mk ELSE go
           v == IF pkt.reply THEN ret ELSE u
           w == IF pkt.reply THEN ret ELSE go
           x == IF no THEN ret ELSE go
<1>17. u \in State /\ v \in State /\ w \in State /\ x \in State
  BY <1>5
<1>18. Fold(step, q3, x) = u
  BY <1>14, <1>16
<1>19. p2 \in Seq(Rule) /\ Fold(step, p2, go) = u
  <2>1. Fold(step, q2, go) = x
    BY <1>13
  <2> HIDE DEF u, x
  <2> QED
    BY <1>2, <1>5, <1>13, <1>14, <1>17, <1>18, <2>1, FoldOn
<1> HIDE DEF p2
<1>20. Fold(step, p2, w) = v
  BY <1>16, <1>19
<1>21. Fold(step, p3, go) = v
  <2>1. Fold(step, q1, go) = w
    BY <1>15
  <2> HIDE DEF v, w
  <2> QED
    BY <1>2, <1>5, <1>7, <1>17, <1>19, <1>20, <2>1, FoldOn
<1> HIDE DEF p3
<1>22. Fold(step, OutRules(e), go) =
         IF pkt.reply \/ no THEN ret ELSE IF yes THEN mk ELSE go
  BY <1>1, <1>21
<1> QED
  BY <1>22 DEF step, go, ret, mk, k, no, yes

-----------------------------------------------------------------------------
(* What becomes of a packet of a family that is set up.                    *)

(* A packet is of a family. *)
LEMMA PacketFamily ==
  ASSUME NEW pkt \in Packet(Existing)
  PROVE  pkt.fam \in Family
BY DEF Packet

(* Its mark, when OUTPUT is done with it. *)
LEMMA OutputMarkIs ==
  ASSUME NEW n \in Net, NEW e \in Environment, NEW pkt \in Packet(Existing),
         Built(n, pkt.fam, e)
  PROVE  OutputMark(n, pkt) =
           IF /\ Hooked(n, pkt.fam) /\ Chosen(e, pkt) /\ ~pkt.reply
              /\ InList(pkt.cg, e.cgroup_proxy) /\ ~InList(pkt.cg, e.cgroup_noproxy)
           THEN e.fwmark ELSE 0
<1> DEFINE f == pkt.fam
           W == Walk(n, f, "OUTPUT", pkt, Unmarked)
           F == Fold(Hops(n, f, pkt), OutRules(e), St(0, "no"))
           no == InList(pkt.cg, e.cgroup_noproxy)
           yes == InList(pkt.cg, e.cgroup_proxy)
           ch == Chosen(e, pkt)
<1>1. f \in Family
  BY PacketFamily
<1>2. n.hook[f]["OUTPUT"] \in Nat
  BY <1>1, OutputHook, Parts
<1>3. OutputMark(n, pkt) = W.mark
  BY DEF OutputMark
<1>4. /\ n.chain[f]["TPROXY_OUT"] = OutRules(e)
      /\ n.chain[f]["TPROXY_MARK"] = MarkRules(e)
  BY DEF Built
<1>5. Unmarked = St(0, "no") /\ Unmarked \in State /\ HookOf["OUTPUT"] = "TPROXY_OUT"
  BY States DEF HookOf
<1>6. Hooked(n, f) => n.hook[f]["OUTPUT"] # 0
  BY <1>2 DEF Hooked
<1>7. ~Hooked(n, f) => n.hook[f]["OUTPUT"] = 0
  BY <1>2 DEF Hooked
<1>8. Hooked(n, f) => W = F
  <2>1. ASSUME Hooked(n, f) PROVE W = Fold(Hops(n, f, pkt), n.chain[f][HookOf["OUTPUT"]], Unmarked)
    BY <1>1, <1>5, <1>6, <2>1, OutputHook, WalkIs
  <2> QED
    BY <1>4, <1>5, <2>1
<1>9. ~Hooked(n, f) => W = Unmarked
  BY <1>7 DEF Walk
<1>10. F = IF pkt.reply \/ no THEN St(0, "RETURN")
           ELSE IF yes THEN St(IF ch THEN e.fwmark ELSE 0, "no") ELSE St(0, "no")
  BY <1>1, <1>4, OutChain
<1>11. \A k, d : St(k, d).mark = k
  BY DEF St
<1> HIDE DEF f, W, F, no, yes, ch
<1>12. W.mark = IF Hooked(n, f) /\ ch /\ ~pkt.reply /\ yes /\ ~no THEN e.fwmark ELSE 0
  BY <1>5, <1>8, <1>9, <1>10, <1>11
<1> QED
  BY <1>3, <1>12 DEF f, no, yes, ch

(* Whether PREROUTING then serves it. *)
LEMMA ServedIs ==
  ASSUME NEW n \in Net, NEW e \in Environment, NEW pkt \in Packet(Existing),
         Built(n, pkt.fam, e), NEW k \in Nat
  PROVE  /\ Served(n, pkt, k) <=> Chosen(e, pkt) /\ (pkt.local \/ e.enable_gateway)
         /\ Rerouted(n, pkt.fam, e.fwmark)
<1> DEFINE f == pkt.fam
           s == [Unmarked EXCEPT !.mark = k]
           W == Walk(n, f, "PREROUTING", pkt, s)
           got == St(e.fwmark, IF pkt.socket THEN "ACCEPT" ELSE "TPROXY")
<1>1. f \in Family
  BY PacketFamily
<1>2. /\ n.chain[f]["TPROXY_PRE"] = PreRules(e)
      /\ n.chain[f]["TPROXY_ENT"] = EntRules(e)
      /\ <<e.fwmark, e.table>> \in n.rule[f] /\ e.table \in n.route[f]
      /\ n.hook[f]["PREROUTING"] > 0
  BY DEF Built
<1>3. "PREROUTING" \in Hook /\ HookOf["PREROUTING"] = "TPROXY_PRE"
  BY DEF Hook, HookOf
<1>4. n.hook[f]["PREROUTING"] # 0
  <2>1. n.hook[f]["PREROUTING"] \in Nat
    BY <1>1, <1>3, Parts
  <2> QED
    BY <1>2, <2>1
<1>5. Rerouted(n, f, e.fwmark)
  BY <1>2 DEF Rerouted
<1>6. s = St(k, "no") /\ s \in State
  BY States DEF Unmarked, St
<1>7. W = Fold(Hops(n, f, pkt), PreRules(e), St(k, "no"))
  <2>1. W = Fold(Hops(n, f, pkt), n.chain[f][HookOf["PREROUTING"]], s)
    BY <1>1, <1>3, <1>4, <1>6, WalkIs
  <2> QED
    BY <1>2, <1>3, <1>6, <2>1
<1>8. W = IF pkt.dst # "unicast" \/ (~e.enable_gateway /\ ~pkt.local) THEN St(k, "RETURN")
          ELSE IF Picked(e, pkt.proto) THEN got ELSE St(k, "no")
  BY <1>1, <1>2, <1>7, PreChain
<1>9. got.mark = e.fwmark /\ got.end \in {"ACCEPT", "TPROXY"}
  BY DEF St
<1>10. St(k, "RETURN").end = "RETURN" /\ St(k, "no").end = "no"
  BY DEF St
<1>11. Served(n, pkt, k) <=> W.end \in {"TPROXY", "ACCEPT"} /\ Rerouted(n, f, W.mark)
  BY DEF Served
<1> HIDE DEF W, got, f
<1>12. CASE Chosen(e, pkt) /\ (pkt.local \/ e.enable_gateway)
  <2>1. W = got
    BY <1>8, <1>12 DEF Chosen
  <2> QED
    BY <1>5, <1>9, <1>11, <1>12, <2>1 DEF f
<1>13. CASE ~(Chosen(e, pkt) /\ (pkt.local \/ e.enable_gateway))
  <2>1. W = St(k, "RETURN") \/ W = St(k, "no")
    BY <1>8, <1>13 DEF Chosen
  <2>2. W.end \notin {"TPROXY", "ACCEPT"}
    BY <1>10, <2>1
  <2> QED
    BY <1>5, <1>11, <1>13, <2>2 DEF f
<1> QED
  BY <1>12, <1>13

-----------------------------------------------------------------------------
(* The environment is that of a configuration, or none. *)
LEMMA EnvironmentIs ==
  ASSUME Control
  PROVE  env \in Environment
BY TproxyAssumption DEF Control

(* Without the hook, nothing is marked. *)
LEMMA UnhookedUnmarked ==
  ASSUME NEW n \in Net, NEW pkt \in Packet(Existing), ~Hooked(n, pkt.fam)
  PROVE  OutputMark(n, pkt) = 0
<1>1. n.hook[pkt.fam]["OUTPUT"] \in Nat
  BY PacketFamily, OutputHook, Parts
<1>2. n.hook[pkt.fam]["OUTPUT"] = 0
  BY <1>1 DEF Hooked
<1> QED
  BY <1>2 DEF OutputMark, Walk, Unmarked

(* Before any kill, a family whose OUTPUT is hooked is built, unless       *)
(* OUTPUT is to be unhooked next.                                          *)
LEMMA HookedServes ==
  ASSUME ServeInv, crashes = 0, NEW f \in Family, Hooked(net, f)
  PROVE  \/ Built(net, f, env)
         \/ Running # <<>> /\ Head(Running) = HookCmd(f, "unhook", "OUTPUT")
<1>1. /\ CleanInv /\ SpareInv /\ Control /\ net \in Net /\ env \in Environment
  BY EnvironmentIs DEF ServeInv, CleanInv, SpareInv
<1>2. ~Clean(net)
  BY CleanUnhooked
<1>3. phase \notin {"off", "killed"} /\ phase \in Phase
  BY <1>1, <1>2 DEF CleanInv, Control
<1>4. CASE Cleaning
  <2>1. StopServes(net, Running, f, env)
    BY <1>4 DEF ServeInv
  <2> QED
    BY <2>1 DEF StopServes
<1>5. CASE phase = "start"
  <2>1. Running \in Seq(StartCmd(env)) /\ StartServes(net, Running, env)
    BY <1>1, <1>5 DEF SpareInv, ServeInv
  <2> QED
    BY <1>1, <2>1, HookedBuilt
<1>6. CASE phase = "up" /\ ~stopping
  <2>1. SetUp(net, env)
    BY <1>2, <1>6 DEF ServeInv
  <2> QED
    BY <2>1 DEF SetUp
<1> QED
  BY <1>3, <1>4, <1>5, <1>6 DEF Phase, Cleaning

(* So what is marked is served. *)
LEMMA ServesMarked == ServeInv => MarkedServed
<1> SUFFICES ASSUME ServeInv, crashes = 0, NEW pkt \in Packet(Existing),
                    pkt.local, OutputMark(net, pkt) # 0
             PROVE  LET mark == OutputMark(net, pkt)
                    IN  \/ Rerouted(net, pkt.fam, mark) /\ Served(net, pkt, mark)
                        \/ \E s \in Slot :
                             /\ script[s] # <<>>
                             /\ Head(script[s]) = HookCmd(pkt.fam, "unhook", "OUTPUT")
  BY DEF MarkedServed
<1>1. net \in Net /\ env \in Environment /\ pkt.fam \in Family
  BY EnvironmentIs, PacketFamily DEF ServeInv, CleanInv, SpareInv
<1>2. Hooked(net, pkt.fam)
  BY <1>1, UnhookedUnmarked
<1>3. CASE Built(net, pkt.fam, env)
  <2> DEFINE mark == OutputMark(net, pkt)
  <2>1. mark = env.fwmark /\ Chosen(env, pkt)
    BY <1>1, <1>3, OutputMarkIs
  <2>2. env.fwmark \in Nat
    BY <1>1, Options
  <2> HIDE DEF mark
  <2>3. Served(net, pkt, mark) /\ Rerouted(net, pkt.fam, mark)
    BY <1>1, <1>3, <2>1, <2>2, ServedIs
  <2> QED
    BY <2>3 DEF mark
<1>4. CASE Running # <<>> /\ Head(Running) = HookCmd(pkt.fam, "unhook", "OUTPUT")
  <2>1. \E s \in Slot : Running = script[s]
    BY DEF Running, Slot
  <2> QED
    BY <1>4, <2>1
<1> QED
  BY <1>1, <1>2, <1>3, <1>4, HookedServes

(* MarkedServed: in every state of a start, a stop or a reload, no packet  *)
(* of this host is marked that PREROUTING does not give to the proxy, but  *)
(* for the one command of a stop between the two hooks.                    *)
THEOREM EveryMarkServed ==
  ASSUME "signal" \notin Disturbances
  PROVE  Spec => []MarkedServed
<1>1. Init => ServeInv
  BY ServeInit
<1>2. ServeInv /\ [Next]_vars => ServeInv'
  BY ServeStep
<1>3. ServeInv => MarkedServed
  BY ServesMarked
<1> QED
  BY <1>1, <1>2, <1>3, PTL DEF Spec

(* Where nothing is, the proxy gets nothing. *)
LEMMA CleanProxiesNone ==
  ASSUME NEW n, Clean(n), NEW pkt \in Packet(Existing)
  PROVE  ~Proxied(n, pkt)
<1>1. n.rule[pkt.fam] = {}
  BY PacketFamily DEF Clean, CleanOf
<1>2. \A mark : ~Rerouted(n, pkt.fam, mark)
  BY <1>1 DEF Rerouted
<1>3. \A mark : ~Served(n, pkt, mark)
  BY <1>2 DEF Served
<1> QED
  BY <1>2, <1>3 DEF Proxied

(* Where all is set up, it gets what the options ask for. *)
LEMMA SetUpProxies ==
  ASSUME NEW n \in Net, NEW e \in Environment, SetUp(n, e), Fits(n, e),
         NEW pkt \in Packet(Existing), ~Overruled(e, pkt)
  PROVE  Proxied(n, pkt) <=> Wanted(e, pkt)
<1> DEFINE f == pkt.fam
           mark == OutputMark(n, pkt)
           fw == e.fwmark
<1>1. f \in Family /\ Built(n, f, e) /\ (Hooked(n, f) <=> e.enable_ip[f])
  BY PacketFamily DEF SetUp
<1>2. fw \in Nat /\ fw # 0
  BY Options
<1>3. ~Rerouted(n, f, 0)
  <2>1. n.rule[f] \subseteq {<<fw, e.table>>}
    BY <1>1 DEF Fits, FitsOf
  <2>2. \A r \in n.rule[f] : r[1] = fw
    BY <2>1
  <2> HIDE DEF fw
  <2> QED
    BY <1>2, <2>2 DEF Rerouted
<1>4. Wanted(e, pkt) <=>
        /\ Chosen(e, pkt)
        /\ pkt.local => /\ e.enable_ip[f] /\ ~pkt.reply
                        /\ InList(pkt.cg, e.cgroup_proxy) /\ ~InList(pkt.cg, e.cgroup_noproxy)
        /\ ~pkt.local => e.enable_gateway
  <2>1. ProtocolOn(e, pkt.proto) <=> Picked(e, pkt.proto)
    BY Options DEF Overruled, ProtocolOn, Picked
  <2>2. pkt.local \/ e.enable_ip[f]
    BY DEF Overruled
  <2> QED
    BY <2>1, <2>2 DEF Wanted, Chosen
<1>5. /\ mark = fw => Wanted(e, pkt) \/ ~pkt.local
      /\ Wanted(e, pkt) /\ pkt.local => mark = fw
      /\ mark = fw \/ mark = 0
  <2>1. mark = IF /\ Hooked(n, f) /\ Chosen(e, pkt) /\ ~pkt.reply
                  /\ InList(pkt.cg, e.cgroup_proxy) /\ ~InList(pkt.cg, e.cgroup_noproxy)
               THEN fw ELSE 0
    BY <1>1, OutputMarkIs
  <2> HIDE DEF mark, fw, f
  <2> QED
    BY <1>1, <1>2, <1>4, <2>1
<1>6. \A k \in Nat : /\ Served(n, pkt, k) <=> Chosen(e, pkt) /\ (pkt.local \/ e.enable_gateway)
                     /\ Rerouted(n, f, fw)
  BY <1>1, ServedIs
<1>7. CASE pkt.local
  <2>1. Proxied(n, pkt) <=> Rerouted(n, f, mark) /\ Served(n, pkt, mark)
    BY <1>7 DEF Proxied
  <2> HIDE DEF mark, fw, f
  <2>2. CASE mark = fw
    BY <1>2, <1>4, <1>5, <1>6, <1>7, <2>1, <2>2
  <2>3. CASE mark = 0
    BY <1>2, <1>3, <1>5, <1>7, <2>1, <2>3
  <2> QED
    BY <1>5, <2>2, <2>3
<1>8. CASE ~pkt.local
  <2>1. Proxied(n, pkt) <=> Served(n, pkt, 0)
    BY <1>8 DEF Proxied
  <2> QED
    BY <1>4, <1>6, <1>8, <2>1
<1> QED
  BY <1>7, <1>8

(* So they decide, before any kill. *)
LEMMA ServesDecided == ServeInv => (crashes = 0 => Decided)
<1> SUFFICES ASSUME ServeInv, crashes = 0, Up, NEW pkt \in Packet(Existing),
                    ~Overruled(config, pkt)
             PROVE  Proxied(net, pkt) = (net.mounted /\ Wanted(config, pkt))
  BY DEF Decided
<1>1. /\ net \in Net /\ env \in Environment /\ CleanInv /\ Control
      /\ phase = "up" /\ ~stopping
  BY EnvironmentIs DEF ServeInv, CleanInv, SpareInv, Up
<1>2. env = config
  BY <1>1 DEF Control
<1>3. Clean(net) \/ SetUp(net, env)
  BY <1>1 DEF ServeInv
<1>4. Fits(net, env)
  BY <1>1 DEF CleanInv
<1>5. Proxied(net, pkt) <=> net.mounted /\ Wanted(config, pkt)
  <2>1. CASE Clean(net)
    <3>1. ~net.mounted
      BY <2>1 DEF Clean
    <3> QED
      BY <2>1, <3>1, CleanProxiesNone
  <2>2. CASE SetUp(net, env)
    <3>1. net.mounted
      BY <2>2 DEF SetUp
    <3> QED
      BY <1>1, <1>2, <1>4, <2>2, <3>1, SetUpProxies
  <2> QED
    BY <1>3, <2>1, <2>2
<1>6. Proxied(net, pkt) \in BOOLEAN
  BY DEF Proxied, Served, Rerouted
<1> QED
  BY <1>5, <1>6

(* Decided, before any kill: whatever configurations were applied and      *)
(* reloaded, and whether or not cgroup2 could be mounted, the proxy gets   *)
(* exactly the packets that the options in force ask for once              *)
(* applyConfig() has returned, but for those packets for which the script  *)
(* does not rank the options as the readme does.                           *)
THEOREM OptionsDecide ==
  ASSUME "signal" \notin Disturbances
  PROVE  Spec => [](crashes = 0 => Decided)
<1>1. Init => ServeInv
  BY ServeInit
<1>2. ServeInv /\ [Next]_vars => ServeInv'
  BY ServeStep
<1>3. ServeInv => (crashes = 0 => Decided)
  BY ServesDecided
<1> QED
  BY <1>1, <1>2, <1>3, PTL DEF Spec
=============================================================================

------------------------------- MODULE Tproxy -------------------------------
(***************************************************************************)
(* cgroup-tproxy.sh, and how cgproxyd runs it.                             *)
(*                                                                         *)
(* The daemon configures the kernel only through the script: "stop" undoes *)
(* what the script did, in the environment that is left from the last      *)
(* start; without arguments it sets up the chains and routes of the        *)
(* environment.  Each command of the script is a step, and the script goes *)
(* on when one fails.  A signal runs stop() on top of the other threads,   *)
(* so two scripts may run at once, and the daemon may be killed at any     *)
(* point and be started again.                                             *)
(***************************************************************************)
EXTENDS Netfilter

CONSTANTS
  Config,        \* the configurations that the daemon may load
  DefaultEnv,    \* what the script takes for variables that are not set
  Existing,      \* the cgroups that exist
  MaxCrashes,    \* bound: how often the daemon is killed
  Disturbances   \* what happens beyond start, reload and stop

(*   crash        the daemon and its script are killed                     *)
(*   signal       SIGTERM arrives while a configuration is being applied   *)
(*   mount_fails  cgroup2 cannot be mounted                                *)
(*   bad_config   the daemon is started with a configuration it rejects    *)
(*   new_config   a kill comes between two configurations: the daemon is   *)
(*                killed while it cleans up for another one, or started    *)
(*                with another one after a kill                            *)
AllDisturbances == {"crash", "signal", "mount_fails", "bad_config",
                    "new_config"}

Environment ==
  [fwmark : Nat \ {0}, table : Nat,
   enable_gateway : BOOLEAN, enable_dns : BOOLEAN, enable_udp : BOOLEAN,
   enable_tcp : BOOLEAN, enable_ip : [Family -> BOOLEAN],
   cgroup_noproxy : Seq(Seq(STRING)), cgroup_proxy : Seq(Seq(STRING)),
   cgroup_mount_point : {"cgproxy", "host"}]

ASSUME TproxyAssumption ==
  /\ Config # {} /\ Config \subseteq Environment
  /\ \A c \in Config : /\ c.cgroup_mount_point = "cgproxy"
                        /\ Preserved["noproxy"] \in Range(c.cgroup_noproxy)
  /\ DefaultEnv \in Environment /\ DefaultEnv.cgroup_mount_point = "host"
  /\ \A d \in Dir : Preserved[d] \in Existing
  /\ MaxCrashes \in Nat
  /\ Disturbances \subseteq AllDisturbances

VARIABLES
  net,       \* the kernel's state
  config,    \* cgproxyd::config
  env,       \* the daemon's environment, which its scripts inherit
  phase,     \* what the daemon is doing
  runner,    \* the thread that runs applyConfig()
  stopping,  \* whether the signal handler runs stop()
  script,    \* the commands that each running script has left
  crashes    \* how often the daemon has been killed

vars == <<net, config, env, phase, runner, stopping, script, crashes>>

(* The script of applyConfig(), and that of the signal handler. *)
Slot == {"apply", "stop"}

(*   off      never started, or stopped                                    *)
(*   clean    applyConfig() runs the script with "stop"                    *)
(*   start    applyConfig() runs the script without                        *)
(*   up       applyConfig() has returned                                   *)
(*   killed   gone without stop()                                          *)
Phase == {"off", "clean", "start", "up", "killed"}

-----------------------------------------------------------------------------
(* The script, as the list of commands that it runs in an environment.     *)
(* table_tproxy and table_reroute are both $table, and fwmark_tproxy and   *)
(* fwmark_reroute both $fwmark: nobody sets them.                          *)

When(b, cmds) == IF b THEN cmds ELSE <<>>

IpTables(f, op, ch) == [op |-> op, fam |-> f, chain |-> ch]
Each(f, op, chains) == [i \in DOMAIN chains |-> IpTables(f, op, chains[i])]
HookCmd(f, op, h) == [op |-> op, fam |-> f, hook |-> h]
IpRule(f, op, e) == [op |-> op, fam |-> f, arg |-> <<e.fwmark, e.table>>]
IpRoute(f, op, e) == [op |-> op, fam |-> f, arg |-> e.table]
Plain(op, f) == [op |-> op, fam |-> f]

(* iptables -A ch -m m -j j, with the mark that MARK and TPROXY set. *)
A(f, e, ch, m, j) ==
  <<[op |-> "-A", fam |-> f, chain |-> ch,
     rule |-> [m |-> m, path |-> <<>>, j |-> j, mark |-> e.fwmark]]>>

(* for cg in ...: iptables -A TPROXY_OUT -m cgroup --path $cg -j j         *)
(* Cgroups that do not exist were filtered out.                            *)
ACgroups(f, e, cgs, j) ==
  LET kept == Without(cgs, Range(cgs) \ Existing)
  IN  [i \in DOMAIN kept |->
        [op |-> "-A", fam |-> f, chain |-> "TPROXY_OUT",
         rule |-> [m |-> "cgroup", path |-> kept[i], j |-> j,
                   mark |-> e.fwmark]]]

StopFamily(f, e, chains) ==
  <<HookCmd(f, "unhook", "PREROUTING"), HookCmd(f, "unhook", "OUTPUT")>>
    \o Each(f, "-F", chains)
    \o Each(f, "-X", chains)
    \o <<IpRule(f, "rule delete", e), IpRoute(f, "route flush", e)>>

(* If it is not set, the mount point is the first one of the host, which   *)
(* is not the daemon's and is too busy to be unmounted.                    *)
Stop(e) ==
  <<Plain("guard", "v4")>>
    \o StopFamily("v4", e, <<"TPROXY_PRE", "TPROXY_ENT", "TPROXY_OUT",
                             "TPROXY_MARK">>)
    \o StopFamily("v6", e, <<"TPROXY_PRE", "TPROXY_OUT", "TPROXY_ENT",
                             "TPROXY_MARK">>)
    \o <<Plain("unmasquerade", "v4"), Plain("unmasquerade", "v6")>>
    \o When(e.cgroup_mount_point = "cgproxy", <<Plain("umount", "v4")>>)

StartEnt(f, e) ==
  <<IpTables(f, "-N", "TPROXY_ENT")>>
    \o A(f, e, "TPROXY_ENT", "socket", "MARK")
    \o A(f, e, "TPROXY_ENT", "socket", "ACCEPT")
    \o A(f, e, "TPROXY_ENT", "tcp", "TPROXY")
    \o A(f, e, "TPROXY_ENT", "udp", "TPROXY")

(* Packets of other devices are turned away unless this is a gateway.      *)
(* A mutation: if it is one.                                               *)
TurnsAwayInverted(e) == e.enable_gateway
TurnsAway(e) == ~e.enable_gateway

StartPre(f, e) ==
  <<IpTables(f, "-N", "TPROXY_PRE")>>
    \o A(f, e, "TPROXY_PRE", "dstlocal", "RETURN")
    \o A(f, e, "TPROXY_PRE", "notunicast", "RETURN")
    \o When(TurnsAway(e), A(f, e, "TPROXY_PRE", "srcremote", "RETURN"))
    \o When(e.enable_dns, A(f, e, "TPROXY_PRE", "dns", "TPROXY_ENT"))
    \o When(e.enable_udp, A(f, e, "TPROXY_PRE", "udp", "TPROXY_ENT"))
    \o When(e.enable_tcp, A(f, e, "TPROXY_PRE", "tcp", "TPROXY_ENT"))
    \o <<HookCmd(f, "hook", "PREROUTING")>>

StartMark(f, e) ==
  <<IpTables(f, "-N", "TPROXY_MARK")>>
    \o A(f, e, "TPROXY_MARK", "notunicast", "RETURN")
    \o When(e.enable_dns, A(f, e, "TPROXY_MARK", "dns", "MARK"))
    \o When(e.enable_udp, A(f, e, "TPROXY_MARK", "udp", "MARK"))
    \o When(e.enable_tcp, A(f, e, "TPROXY_MARK", "tcp", "MARK"))

(* A mutation: the cgroups to proxy come before the ones not to. *)
OutCgroupsSwapped(f, e) == ACgroups(f, e, e.cgroup_proxy, "TPROXY_MARK")
                             \o ACgroups(f, e, e.cgroup_noproxy, "RETURN")

OutCgroups(f, e) == ACgroups(f, e, e.cgroup_noproxy, "RETURN")
                      \o ACgroups(f, e, e.cgroup_proxy, "TPROXY_MARK")

StartOut(f, e) ==
  <<IpTables(f, "-N", "TPROXY_OUT")>>
    \o A(f, e, "TPROXY_OUT", "reply", "RETURN")
    \o OutCgroups(f, e)
    \o When(e.enable_ip[f], <<HookCmd(f, "hook", "OUTPUT")>>)

(* A mutation: OUTPUT is hooked before PREROUTING. *)
StartFamilyOutFirst(f, e) ==
  <<IpRule(f, "rule add", e), IpRoute(f, "route add", e)>>
    \o StartEnt(f, e) \o StartMark(f, e) \o StartOut(f, e) \o StartPre(f, e)

StartFamily(f, e) ==
  <<IpRule(f, "rule add", e), IpRoute(f, "route add", e)>>
    \o StartEnt(f, e) \o StartPre(f, e) \o StartMark(f, e) \o StartOut(f, e)

Start(e) ==
  <<Plain("mount", "v4")>>
    \o StartFamily("v4", e) \o StartFamily("v6", e)
    \o When(e.enable_gateway,
            <<Plain("masquerade", "v4"), Plain("masquerade", "v6"),
              Plain("sysctl", "v4")>>)

-----------------------------------------------------------------------------
Init ==
  /\ net = CleanNet
  /\ config \in Config /\ env = DefaultEnv
  /\ phase = "off" /\ runner = "main" /\ stopping = FALSE
  /\ script = [s \in Slot |-> <<>>]
  /\ crashes = 0

Idle == script = [s \in Slot |-> <<>>]

(* The next command of a script.  stop() returns at once when TPROXY_ENT   *)
(* is not listed, and a start exits when cgroup2 is not mounted.           *)
RunCommand(s) ==
  /\ script[s] # <<>>
  /\ LET c == Head(script[s])
         GivesUp == \/ c.op = "guard" /\ ~Exists(net, "v4", "TPROXY_ENT")
                    \/ /\ c.op = "mount" /\ ~net.mounted
                       /\ "mount_fails" \in Disturbances
     IN  \/ GivesUp /\ script' = [script EXCEPT ![s] = <<>>] /\ UNCHANGED net
         \/ /\ c.op = "guard" => Exists(net, "v4", "TPROXY_ENT")
            /\ net' = Effect(net, c)
            /\ script' = [script EXCEPT ![s] = Tail(@)]
  /\ UNCHANGED <<config, env, phase, runner, stopping, crashes>>

Offered(c) == crashes > 0 => c = config \/ "new_config" \in Disturbances

(* cgproxyd::start(): the environment of a new daemon has no variables. *)
Boot(c) ==
  /\ phase \in {"off", "killed"} /\ Idle /\ Offered(c)
  /\ phase' = "clean" /\ runner' = "main"
  /\ config' = c /\ env' = DefaultEnv
  /\ script' = [script EXCEPT !["apply"] = Stop(DefaultEnv)]
  /\ UNCHANGED <<net, stopping, crashes>>

(* start() returns when it cannot load its configuration, and so main()    *)
(* destroys the daemon, which calls stop().                                *)
BootRejected ==
  /\ "bad_config" \in Disturbances
  /\ phase \in {"off", "killed"} /\ Idle
  /\ phase' = "clean" /\ runner' = "main" /\ stopping' = TRUE
  /\ env' = DefaultEnv
  /\ script' = [script EXCEPT !["stop"] = Stop(DefaultEnv)]
  /\ UNCHANGED <<net, config, crashes>>

(* A script is run in the daemon's environment.  A mutation: the new       *)
(* variables are exported before the old ones are used to clean up.        *)
CleanEnvNew(c) == c
CleanEnv(c) == env

(* handle_msg() loads a configuration and calls applyConfig(). *)
Reload(c) ==
  /\ phase = "up" /\ (stopping => "signal" \in Disturbances) /\ Offered(c)
  /\ phase' = "clean" /\ runner' = "socketserver"
  /\ config' = c
  /\ script' = [script EXCEPT !["apply"] = Stop(CleanEnv(c))]
  /\ UNCHANGED <<net, env, stopping, crashes>>

(* Signals are handled by the main thread, which then does nothing else;   *)
(* neither does it start anything when start() has failed.                 *)
Interrupted == stopping /\ runner = "main"

(* config.toEnv(), between the two scripts of applyConfig(). *)
ToEnv ==
  /\ phase = "clean" /\ script["apply"] = <<>> /\ ~Interrupted
  /\ phase' = "start"
  /\ env' = config
  /\ script' = [script EXCEPT !["apply"] = Start(config)]
  /\ UNCHANGED <<net, config, runner, stopping, crashes>>

Applied ==
  /\ phase = "start" /\ script["apply"] = <<>> /\ ~Interrupted
  /\ phase' = "up"
  /\ UNCHANGED <<net, config, env, runner, stopping, script, crashes>>

(* signalHandler() calls stop().  A service manager signals the scripts    *)
(* as well, and they end; a user who signals the daemon leaves them alone. *)
Signal ==
  /\ ~stopping /\ stopping' = TRUE
  /\ phase = "up" \/ (phase \in {"clean", "start"} /\ "signal" \in Disturbances)
  /\ \E rest \in {script["apply"], <<>>} :
       script' = [apply |-> rest, stop |-> Stop(env)]
  /\ UNCHANGED <<net, config, env, phase, runner, crashes>>

(* stop() has returned and the handler calls exit().  What applyConfig()   *)
(* has started goes on without the daemon.                                 *)
Exit ==
  /\ stopping /\ script["stop"] = <<>>
  /\ stopping' = FALSE /\ phase' = "off"
  /\ UNCHANGED <<net, config, env, runner, script, crashes>>

Crash ==
  /\ "crash" \in Disturbances /\ crashes < MaxCrashes
  /\ phase \notin {"off", "killed"}
  /\ env \in {DefaultEnv, config} \/ "new_config" \in Disturbances
  /\ phase' = "killed" /\ stopping' = FALSE /\ crashes' = crashes + 1
  /\ script' = [s \in Slot |-> <<>>]
  /\ UNCHANGED <<net, config, env, runner>>

Next ==
  \/ \E s \in Slot : RunCommand(s)
  \/ \E c \in Config : Boot(c) \/ Reload(c)
  \/ BootRejected \/ ToEnv \/ Applied \/ Signal \/ Exit \/ Crash

Spec == Init /\ [][Next]_vars

-----------------------------------------------------------------------------
(* What the options ask for. *)

Protocol == {"tcp", "udp", "dns", "icmp"}

(* Packets of this host, and packets that other devices send through it. *)
Packet(cgs) ==
  [fam : Family, proto : Protocol, dst : {"unicast", "local", "multicast"},
   reply : BOOLEAN, socket : BOOLEAN, local : {TRUE}, cg : cgs]
  \cup
  [fam : Family, proto : Protocol, dst : {"unicast", "local", "multicast"},
   reply : {FALSE}, socket : BOOLEAN, local : {FALSE}, cg : {<<>>}]

InList(cg, list) == \E i \in DOMAIN list :
                      list[i] \in Existing /\ PathMatch(cg, list[i])

ProtocolOn(c, proto) == \/ proto = "tcp" /\ c.enable_tcp
                        \/ proto = "udp" /\ c.enable_udp
                        \/ proto = "dns" /\ c.enable_dns

(* The readme ranks the options: a family that is off rules out all its    *)
(* packets, and enable_dns, before enable_udp, decides for name lookups.   *)
Wanted(c, pkt) ==
  /\ pkt.dst = "unicast" /\ c.enable_ip[pkt.fam] /\ ProtocolOn(c, pkt.proto)
  /\ IF pkt.local
     THEN /\ ~pkt.reply
          /\ InList(pkt.cg, c.cgroup_proxy)
          /\ ~InList(pkt.cg, c.cgroup_noproxy)
     ELSE c.enable_gateway

(* Where the script does not follow the ranks: its rules for UDP take      *)
(* lookups too, and PREROUTING is hooked for a family that is off.         *)
Overruled(c, pkt) == \/ pkt.proto = "dns" /\ c.enable_udp /\ ~c.enable_dns
                     \/ ~pkt.local /\ ~c.enable_ip[pkt.fam]

Up == phase = "up" /\ ~stopping

(* Once applyConfig() has returned, the proxy gets exactly the packets     *)
(* that the options in force ask for, whichever configurations the chains  *)
(* were built for before and whatever became of earlier daemons; it gets   *)
(* none if cgroup2 could not be mounted.  Packets for which the script     *)
(* does not follow the ranks of the options are excepted.                  *)
Decided ==
  Up => \A pkt \in Packet(Existing) :
           ~Overruled(config, pkt) =>
             Proxied(net, pkt) = (net.mounted /\ Wanted(config, pkt))

(* What readme.md says of the options, for all packets: "enable_ipv6 =     *)
(* enable_ipv4 > enable_dns > enable_tcp = enable_udp".                    *)
OptionRanks ==
  Up => \A pkt \in Packet(Existing) :
           Proxied(net, pkt) = (net.mounted /\ Wanted(config, pkt))

(* No packet is marked, and so taken off its way, that PREROUTING does not *)
(* serve: a start hooks OUTPUT after all that a marked packet meets.  A    *)
(* stop unhooks PREROUTING first, and OUTPUT with the very next command.   *)
(* (What a killed script has left may be hooked in another order.)         *)
MarkedServed ==
  crashes = 0 =>
    \A pkt \in Packet(Existing) :
      LET mark == OutputMark(net, pkt)
      IN  pkt.local /\ mark # 0 =>
            \/ Rerouted(net, pkt.fam, mark) /\ Served(net, pkt, mark)
            \/ \E s \in Slot :
                 /\ script[s] # <<>>
                 /\ Head(script[s]) = HookCmd(pkt.fam, "unhook", "OUTPUT")

(* At no moment of a start, a stop or a reload is a packet of the cgroup   *)
(* /noproxy.slice marked: the proxy itself runs there, and its own packets *)
(* would come back to it.                                                  *)
NoproxyNeverMarked ==
  \A pkt \in Packet({Preserved["noproxy"]}) :
    pkt.local => OutputMark(net, pkt) = 0

(* When the daemon has stopped and no script runs, nothing of what the     *)
(* script set up is left (but for the kernel's forwarding switches): each  *)
(* stop has the marks and tables of the start that it undoes.  After kills *)
(* no packet of IPv4 is touched; a clean-up that was killed half-way may   *)
(* leave chains, and those of IPv6 in use.                                 *)
StoppedClean ==
  phase = "off" /\ Idle =>
    /\ net.hook["v4"] = CleanNet.hook["v4"]
    /\ crashes = 0 => [net EXCEPT !.forward = FALSE] = CleanNet
=============================================================================

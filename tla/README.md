# A TLA+ specification of cgproxy

cgproxy decides per program and per cgroup which packets of a Linux host go to
a transparent proxy. This directory holds TLA+ models of its daemon, its script
and its clients, TLC configurations that check them on small instances, and
proofs that TLAPS checks for every instance. Paths below are those of the
repository; line numbers are those of the commit the models were made from, and
`PROJECT.json` lists the lines each definition stands for.

## The system

| part | state | operations | interacts with |
|---|---|---|---|
| `src/cgproxyd.hpp` daemon | configuration, lock file, two threads | `start`, `applyConfig`, `stop`, `signalHandler` | runs the script, starts the threads |
| `handle_pid`, `processRunningProgram` | none of their own; loop variables | place a process whose program is listed | read the configuration and `/proc`, call `attach` |
| `src/cgroup_attach.cpp` | none | `attach`, `write2procs` | cgroup2 file system |
| `execsnoop-libbpf` | records map, perf buffer, promise | tracepoints, poll loop, callback | kernel, `handle_pid` |
| `src/socket_server.cpp`, `socket_client.cpp` | one connection | accept, read, answer | clients, `handle_msg` |
| `handle_msg` | none | load a configuration, attach a process | `applyConfig`, `attach` |
| `src/config.cpp` | lists and switches | load, validate, merge, resolve, export | everybody reads it, without a lock |
| `src/cgproxy.hpp` clients | none | send a process number, run a command | socket |
| `cgroup-tproxy.sh` | the kernel's chains, rules, routes, mount | start, stop | environment exported by the daemon |

Three threads of the daemon share the configuration, the cgroup2 mount and the
processes: *main* scans the running programs once, *execsnoop* handles exec
events, *socketserver* handles messages. None of them takes a lock. A signal
runs `stop()` on top of them. The script is a list of commands, goes on when one
fails, and is run by `system()`; nobody looks at its result.

What is hard, and what each part has to get right:

* **Placement.** The scan and the events have to cover each other; a process may
  exec, fork, exit or be moved between any two reads, and its number may be
  used again. When all is quiet, listed programs have to be placed. The command
  of a client must stand, however late the other threads come to the process.
* **attach.** It checks, writes, waits, checks and writes again, while a reload
  unmounts the file system. A success should mean that the process moved, and
  the retry has to end.
* **Script.** At each command packets go through half-built chains: no packet
  may be marked that nothing serves, and none of the proxy's own packets may be
  marked at all. After a start the options decide every packet; after a stop
  nothing is left, whatever was configured before, and also after a kill.
* **Daemon.** One instance at a time is at work, whoever is refused, stopped or
  killed, and whatever script a killed one leaves; clean-up in the environment
  of the last start.
* **Socket.** Every client gets the answer to its own message, or an error, and
  one that is killed half-way does not block others.
* **Kernel part of execsnoop.** Each execve that succeeds makes an event, though
  threads call it and the map of records is limited.
* **Configuration.** What is exported and what the threads see is what was given.

`PROJECT.json` lists the places in the code where these can go wrong under
`hazards`, with the properties that watch them.

## Modules

| module | models |
|---|---|
| `Lists` | lists from which some entries are left out (`merge`, `toRealProgramPath`, the script's filter) |
| `CgroupPath` | `belongToCgroup` of `common.cpp`, the preserved cgroups, and the kernel's `--path` match |
| `Placement` | the three threads, `attach`, clients, and the processes around them |
| `MCPlacement` | instances of it |
| `PlacementProofs` | theorems about it: types, commands of clients, no listed program is missed, writes move processes |
| `Netfilter` | external: what iptables, `ip rule`, `ip route` and mount do, and how a packet passes |
| `Tproxy` | the script as lists of commands; start, reload, stop, signal, kill of the daemon |
| `MCTproxy` | instances of it |
| `TproxyProofs` | theorems about it: the proxy's own packets, and what a stop leaves |
| `PacketProofs` | theorems about it: what is marked is served, and the options decide |
| `Configuration` | `config.cpp`: check, take over, resolve, merge, export, and the script's splitting |
| `MCConfiguration` | instances of it |
| `ConfigurationProofs` | theorems about it |
| `ListProofs` | lemmas on lists, and the forms of induction that the proofs use |
| `SingleInstance` | abstract: what cgproxyd promises of its instances |
| `Lifecycle` | `lock`, `unlock`, `start`, `applyConfig`, `stop`, signals, kills and running scripts of several daemons |
| `LifecycleProofs` | theorems about it, among them that it implements `SingleInstance` |
| `SocketServer` | `socketListening` and `send`, over connections that break |
| `SocketServerProofs` | a theorem about it |
| `Snoop` | the programs of `execsnoop.bpf.c` (and the probe of the bcc variant) and the threads that call execve |
| `SnoopProofs` | theorems about it |

The modules share no variables; where one leaves a thing to another it says so.
`Lifecycle` has a script done in one step, which `Tproxy` runs command by command.
`SocketServer` takes from `Placement` that `handle_msg` returns (`Answered`) and gives
it clients that believe only their own answers (`granted`). `Snoop` says which
execs become the events of `Placement` (`SysExitExecve`).

### Placement

A step is one access to shared state: reading `/proc/<pid>/exe`, finding the
program in a list, reading the cgroup, comparing it with a list, looking for the
directory, writing `cgroup.procs`. `pc` says where a thread is, `job` holds the
local variables of `handle_pid` and `attach`, `scan` the loops of
`processRunningProgram`. `HandleEvent`, `MatchProgram`, `GetCgroup` and
`CheckBelong` are `handle_pid`; the last two serve the scan as well, whose body
is the same. `AttachDir` to `AttachRewrite` are `attach`, called by any thread.

The data race on the configuration is a choice: while socketserver is in
`loadFromJsonStr`, a reader of a list finds what the old list, the new one or an
unfinished one gives (`Finds`, `Belongs`), and the scan may go on with any
entries of any list (`ScanAstray`). Its iterators dangle until the end of that
loop, also if the whole load took place while main was inside `attach`
(`scan.astray`). Crashes that such a race may also end in are not modelled.

`mounted` may be false from the start, and after a reload: the script exits when
it cannot mount cgroup2, and nobody looks at its result. `attach` then finds
or makes a plain directory and writes a plain file, and reports success; which
plain directories there are, since whenever, is left open. `entered` has the
processes that were inside an execve when the BPF programs were attached, and
which therefore make no event; `missed` remembers those of them that came back
from it after the scan had begun.

`granted` is a history variable: what the daemon last told a client to have
done for a process. It passes to forked children, it is void once somebody
else moves the process or asks for something new, and it is "lost" when the
client was told so while nothing was mounted.

The environment starts programs, execs, forks, exits. Clients are processes
that run the program `Cgproxy`; they wait for the answer before they run
anything. The constant `Disturbances` switches on what the code cannot rule out:
reuse of numbers, a fork before the parent is placed, a process that execs the
client in place, moves by others, `--pid`, reloads, lost events, interrupted
polls, a late execsnoop, failing writes, a failing mount, calls of execve that are
older than the BPF programs. Each run names the ones it has, so
what a property depends on can be read from its configuration.

### Tproxy and Netfilter

`Stop(e)` and `Start(e)` are the commands that the script runs in environment
`e`; `RunCommand` executes one of them with `Netfilter!Effect`, in which a
command that cannot be done (a chain that exists, or is still referred to) does
nothing. `env` is the daemon's environment: unset at first (`DefaultEnv`), then
that of the last `toEnv()`. Two scripts may be active, that of `applyConfig` and
that of the signal handler. `Proxied` sends a packet through OUTPUT, the policy
routing and PREROUTING; `Wanted` says from the options alone, as readme.md:163
ranks them, whether it should reach the proxy, and `Overruled` names the packets
for which the script does not follow that rank. Packets are described by what the rules look at: family,
protocol, type of destination, reply or not, cgroup, an existing socket, this
host or another device. `exists` has the chains of each family; `chain` has the
rules of every chain, none if it does not exist. That a configuration has
`/noproxy.slice` in `cgroup_noproxy` is an assumption here (`TproxyAssumption`),
and what `ConfigurationProofs!FirstIsPreserved` proves there.

Abstractions: the proxy's port and addresses are left out; `table_reroute` and
`fwmark_reroute`, which nobody sets, equal `table` and `fwmark`; only one mount
point of cgroup2 is the daemon's, and unmounting that of the host fails because
it is busy; the mark is not zero; the preserved cgroups exist once cgroup2 is
mounted; a new daemon is not started while an orphaned script still runs. In
Placement the unmounting and mounting of a reload are two steps, the other
commands of the script being of no concern there.

### Configuration

`Load(doc)` is `loadFromJsonStr` with the `applyConfig` that follows a success.
A document is a function from its keys to values of which only the type, and
for lists, numbers and switches the content, is told apart; a switch that is
given for a number counts as 0 or 1 (`Converted`), as the JSON library has it. Cgroup paths are sequences of
names as in `CgroupPath`, so that joining two strings without a separator, as
`join2str` does after every string equal to the last one, is concatenation, and
`Joined` gives the fields that the script reads. `Part` and `Name` are the names
that paths are made of and that programs are listed by; TLC has the few that the
documents use. `disk` says where the links of
a name end; programs are installed and removed between loads. That a load throws
rather than returns an error is not told apart: either way nothing is changed.

### Lifecycle and SingleInstance

A file is an inode: `path` is the one that `PID_LOCK_FILE` names, `fd` the one a
daemon has open, `flock` the one that it, or a script that inherited the
descriptor from `system()`, has locked. `Open`, `Flock` and `WritePid` are `lock()`;
`Close` and `Unlink` are `unlock()`, which is where they part: the lock is given
back first and the name removed then. `apply` is the script that `applyConfig()`
waits for, in the main thread or in socketserver; `scripts` are those that run,
also after the daemon has been killed. `ScriptEnds` is where a script has its
effect, and where the last owner of the descriptor gives the lock back.

Without `overlap` no daemon opens the file while another one is in `stop()`, as a
service manager sees to it; without `interrupt` no signal arrives while a
configuration is applied or after the lock has been given back. The properties
need both; the run LifecycleOverlap shows what happens without the first.

`SingleInstance` knows daemons that are out, owner or killed. Only the owner
changes the rules, nobody acquires while there is an owner, and an owner leaves
no rules behind unless it is killed. `Lifecycle!State` is the refinement mapping:
the owner is whoever has passed `lock()` and not given the lock back, or has a
script running.

### SocketServer

A step is one system call of `send()` or of the thread socketserver. `queue` is
the backlog, `written` counts the two writes of a client, `answer` is what lies in
its socket. `read()` returns 0 at the end of a connection, which the code does
not take for an error: a length that was never sent is whatever was on the
stack, so that `malloc`, `read` and the terminating zero may fail, do nothing or
end the daemon, and a message that was never sent is what `malloc` found, maybe
the message handled before (`Uninitialized`). A write to a client that is gone
raises SIGPIPE: with it ignored, as service managers start daemons, the thread
goes on, otherwise the daemon dies. `handled` is a history variable: what
`handle_msg` has returned for the message of a client.

### Snoop

Threads are numbers, `process` gives the number of the process. `SyscallEnterExecve`
and `SyscallExitExecve` are the two programs of the libbpf variant,
`RetSyscallExecve` the probe of the bcc variant; `variant` chooses. The kernel's
part is what makes it hard: `KillOthers` is the point in execve from which the
other threads end, and `ExecveReturns` gives the thread the number of its
process, under which the program at the exit looks for a record. `Attach` attaches
the two programs one after the other while all this goes on. `unseen` and
`stale` remember why an event may be missed or a record be left. `Placement` has
execve as one step, of the first thread, that finds room.

## Runs

Each with `tlc -config <run>.cfg <module>`.

| run | module | checks | instance | shows |
|---|---|---|---|---|
| PlacementSettled | MCPlacement | `TypeOK`, `SettledPlaced`, `EventuallyPlaced` | 1 process number, 3 programs, 4 cgroups, 2 configurations, fair threads; reuse, wrap, `--pid`, execve under way at the attach | quiet means placed, and nobody is out of place for ever |
| PlacementCommand | MCPlacement | `CommandWins` | 2 numbers, 2 programs; early forks, moves, losses, interruptions, timeout, failing writes, failing mount | commands stand, also for children |
| PlacementAnswered | MCPlacement | `CommandWins`, `Answered` | 1 number, fair threads; moves, reloads, losses, interruptions, timeout, failing writes, failing mounts | commands stand through reloads, and every message is answered |
| Tproxy | MCTproxy | `Decided`, `MarkedServed`, `NoproxyNeverMarked`, `StoppedClean` | 5 configurations, refused starts, failing mounts, 2 kills at any command | any series of starts, reloads, stops, kills and restarts |
| ConfigurationLoad | MCConfiguration | `PreservedMade`, `ExportedAsGiven`, `LoadIdempotent` | 24 documents with lists, 18 with one key; 2 states of the disk | any series of loads |
| Lifecycle | Lifecycle | `MutualExclusion`, `RulesKept`, `RefusedRightly`, `KeepsPromise` | 3 daemons, 5 files | one at a time, and the refinement of `SingleInstance` |
| SocketServer | SocketServer | `OwnAnswer`, `Returned` | 3 clients, backlog 0, 1 stop of the daemon and any number of deaths by a client, fair threads | answers belong to their messages, and every `send()` returns |
| Snoop | Snoop | `Reported`, `LeaksOnlyThreads` | 3 threads, 2 records, both variants | which execs are missed, and which records stay |
| PlacementReload | MCPlacement | `WriteMoves` fails | reloads | see Findings |
| TproxyRanks | MCTproxy | `OptionRanks` fails | as Tproxy, without kills and failures | see Findings |
| ConfigurationRealPath | MCConfiguration | `RealPaths` fails | as ConfigurationLoad | see Findings |
| LifecycleOverlap | Lifecycle | `MutualExclusion` fails | 3 daemons, `overlap` | see Findings |

**Bounds.** One process number is enough for the interplay of three threads over
one process, which is where `handle_pid`, the scan and a client meet; `reuse`
makes it stand for a series of processes. Two are needed for a fork; with them,
reloads and a second listed program are left to PlacementAnswered, to
PlacementSettled and to the theorem. One event per process may wait (`MaxEvents`): with it there are an event in hand and one
waiting, so a process can exec behind the back of the thread that handles it;
more events only repeat the handling. An exec waits while the buffer is full
unless `lost` is on. The programs are the client, one to be proxied and one not
to be (and, in one configuration, listed both ways); the cgroups are the two
preserved ones, one that no list names and one below a listed one. For Tproxy
the configurations differ in mark and table, in gateway, DNS, protocols and
families, have the root in `cgroup_proxy`, a cgroup that does not exist, and
one below another; two kills let a start, a clean-up and a restart each be cut.
For Configuration the lists have the preserved cgroup
first, last and not at all, repetitions, and the root; programs are given by
name, by a link and in full. For Lifecycle three daemons are one that stops or
was killed, one that waits at the old file and one that makes a new file; a
daemon may start again, so each stands for a series. A new file is one that
nothing refers to, so five are never used up by three daemons. For SocketServer
three clients are one that is served, one in the backlog (a backlog of 0 holds
one connection) and one for which there is no room. For Snoop three threads make
a process with two others, or a process of two beside another one, and two
records are exceeded by the third.

**Deadlock** is checked in every run in which something can always happen. It
is not in the runs in which numbers are not reused, nor in that of SocketServer,
whose clients send one message each: when all processes have ended and all
threads wait, nothing is left to happen.

**Fairness** (`FairSpec`): each thread runs when it can, which is what the
scheduler gives, for no thread waits for another but main for the promise of
execsnoop. Events are taken from the rings of all processors in turn, so each
that waits is handled if the thread keeps coming back to its poll (strong
fairness). Nothing is assumed of processes and clients: they may stop for good.
In `SocketServer` a client that has called `send()` and is not killed runs through
it, which is a series of system calls with nothing in between, and so does the
thread of the server. A client that is stopped (SIGSTOP) between its writes
would keep all others waiting: `Returned` does not hold without its fairness. The
daemon need not come back after it went down.

## Findings

* **TproxyRanks.** readme.md:163, "enable_ipv6 = enable_ipv4 > enable_dns > enable_tcp
  = enable_udp". The rule for UDP takes name lookups too, so `enable_dns` decides
  nothing while `enable_udp` is on; and PREROUTING is hooked for both families,
  so forwarded packets of a family that is off are proxied.
* **PlacementReload.** cgroup_attach.cpp:64, "put pid to target cgroup". During a
  reload `attach` writes a plain file, in a directory that it or an earlier call
  has made, and reports success.
* **ConfigurationRealPath.** config.cpp:103, "v2ray -> /usr/bin/v2ray ->
  /usr/lib/v2ray/v2ray". The full path of a link is not resolved, and
  `handle_pid` compares with resolved paths.
* **LifecycleOverlap.** cgproxyd.hpp:154, "single process instance". A daemon opens
  the lock file before another one unlinks it and locks it after the other has
  closed it; it then has a lock on a file without a name, and a third daemon
  makes and locks a new one.

### Known limits

What the properties leave out because it does not hold in the code. Each can be
seen by a change of a configuration file:

* A mount that fails (cgroup-tproxy.sh:151, ignored at cgproxyd.hpp:331): the daemon
  goes on, `attach` writes plain files and answers 0, so nothing is placed and no
  command is carried out, though clients are told that theirs was.
  `SettledPlaced` and `EventuallyPlaced` speak of times when cgroup2 is mounted,
  `CommandWins` of commands that were answered then.
* An execve that is under way when the BPF programs are attached has no record
  and makes no event (execsnoop.bpf.c:80); if it returns after `pidof` has
  looked, its process is never placed. `SettledPlaced` and `EventuallyPlaced`
  except it (`missed`), and so does `Reported`.
* readme.md:162 ranks "program_noproxy > program_proxy". A program listed both ways
  that runs in a cgroup of `cgroup_noproxy` is moved to `/proxy.slice` and
  proxied: `handle_pid` falls through from line 107 to line 118, and the scan
  meets the process again in its second loop.
* `CommandWins` with `pid_option`: `handle_pid` checks the cgroup, a client started
  with `--pid` is told that the process is moved, and `handle_pid` moves it back,
  although readme.md:164 gives commands the highest priority. The same happens
  with `wrap` and `reuse`: a process that execs the client in place, or a client
  that gets the number of a process, while `handle_pid` has it in hand.
* `StoppedClean` after a kill: `stop` looks at one chain of IPv4, which a clean-up
  removes early; if it is killed then, chains and hooks of IPv6 stay.
* `NoproxyNeverMarked` with `signal`: the handler's clean-up takes away rules that
  a running start has added, and the start then hooks chains without them, so
  that packets of the proxy are marked. The same hazard is `interrupt` in
  `Lifecycle`.
* `Decided` after kills with `new_config`: hooks and rules with the old mark stay
  beside the new ones.
* `SettledPlaced` needs programs that do not fork before they are placed (only
  execve makes events, so such a child is overlooked), no lost events, no
  interrupted poll, no late execsnoop and writes that succeed.
* `ExportedAsGiven` needs a list whose last entry is not repeated, for `join2str`
  runs repeated ones into each other.
* `Decided` excepts the packets of TproxyRanks (`Overruled`).
* `MarkedServed` excepts one command of each stop: PREROUTING is unhooked before
  OUTPUT.
* `Reported` excepts an execve by another thread than the first: its record has
  another number, and the exit program finds none.

## Proofs

`PlacementProofs` is checked by `tlapm PlacementProofs.tla`. Constants are as
`PlacementAssumption` says: any non-empty set of processes, any programs among
which the client, any cgroups among which the preserved ones, any configurations
that do not list the client, any bound on events, any disturbances.

* `TypeCorrect`: `Spec => []TypeOK`, by one step per action.
* `CommandAlwaysWins`: `Spec => []CommandWins`, if clients act for themselves only,
  no process becomes a client in place, and no number is reused
  (`OwnClients`: no `pid_option`, `wrap` or `reuse`). All three are necessary (see
  Known limits). Reloads, failing mounts, losses, interruptions, moves, early
  forks and failing writes are all allowed. The commands are those answered while
  cgroup2 is mounted; the others were never carried out.

`CommandWins` is not inductive: that a thread writes a process into a cgroup says
nothing of whether a command stands for it. `CommandInv` adds that

* what main and execsnoop have in hand is no client, and no command stands for
  it once they have seen that it is in no preserved cgroup (`HandInv`): a command
  needs a client, and its process is in a preserved cgroup when they look;
* the scan has only such processes ahead (`ScanInv`);
* the process that socketserver has in hand is a client that waits
  (`ClientInv`), so nobody else moves it or acts for it, and when cgroup2 is
  mounted as the answer is given it was so at the writes: only socketserver
  unmounts, and a message is handled to its end. This is why a command is not
  lost in the window that PlacementReload shows.

TLC confirmed `CommandInv` before it was proved, on an instance with one process
and all disturbances but those of `OwnClients`, and on one with two processes and
early forks.

`LifecycleProofs` holds for any daemons and files, if `Disturbances = {}`:
`OneAtATime`, `RulesStay`, `NoWrongRefusal` and `Refinement` for the four properties of
the run. `MutualExclusion` is not inductive: two daemons with locks on two files
exclude each other no more. `IInv` adds that who is at work has locked the file
that `PID_LOCK_FILE` names, and that who is about to lock has that file open
(`Locked`); that there is one such daemon (`Unique`); that nobody else is there
while a daemon is about to unlink the name (`Alone`), which is what keeps `Locked`
true; which scripts may run at each point (`Scripted`) and what they have left
(`Ruled`). `Refinement` maps each step to a step of `SingleInstance` or to none.

`SocketServerProofs`: `AnswersAreOwn`, that is `OwnAnswer` for any clients, backlog and
number of stops. `IInv` says that when the client behind `cfd` lives, the message
in hand is its own and so is the status (`Served`): whatever is left in memory is
handled only on the connection of a client that is gone.

`SnoopProofs`: `AllReported` and `NoOtherLeaks`, for any finite set of threads and any
size of the map. `IInv` says that a thread in execve has its record unless it
entered before the programs were attached or the map was full (`Recorded`), which needs that a process keeps its number
(`Belongs`): the exit program runs under the number of the caller or of a zombie,
so it never takes the record of a thread that is still in execve.

TLC confirmed the three invariants on the instances of the runs.

### Nothing is missed

The second part of `PlacementProofs` has the other promise of the placement.

* `NothingMissed`: `Spec => []SettledPlaced`, for any number of processes, programs,
  cgroups, configurations and waiting events, if `Undisturbed`: no event is lost, the poll
  is not interrupted, execsnoop does not come too late, writes succeed, no
  configuration is loaded, and nobody else moves processes or forks them before
  they are placed. Reuse of numbers, `--pid`, clients at any time, a failing mount
  and calls of execve older than the BPF programs are allowed; the last two
  are what `SettledPlaced` excepts. Each of the seven exclusions is necessary: with any
  one of them allowed TLC finds a process that stays out of place.
* `WritesMove`: `Spec => WriteMoves`, if no configuration is loaded and the mount does
  not fail. `WriteMoves` is what the run PlacementReload refutes; the theorem says that
  an unmounted cgroup2 is the only way in which a write that succeeds has moved
  nothing, and a reload or a failed mount the only way to that.

`SettledPlaced` speaks of quiet states only, so its invariant has to say what is
going to happen. `Covered`: a process that is out of place is still before
execsnoop (an event waits for it, or the thread has it in hand with the program
and cgroup that it has now) or before the scan (its list, its program or its number is
still to come, or main has it in hand). `ScanAfterReady` says that the scan
starts when every exec has an event, which is where the two meet. The proof
takes a process that is out of place after a step: either it was so
before, and the step keeps its cover, or it came to be so by an exec,
which has an event, unless the execve is older than the programs. A process that is
missed stays so until its next execve. TLC confirmed `SettledInv` on the instance of
the run (418 158 states).

### Configuration

`ConfigurationProofs` holds for any documents with lists of any length, any names
and any disks as `DocumentAssumption` and `DiskAssumption` say (the names found by
`which` and `realpath()` are full paths without links).

* `FirstIsPreserved`: `Spec => []PreservedMade`.
* `ExportExact`: `Spec => []ExportedAsGiven`.
* `SecondLoadSame`: `Spec => []LoadIdempotent`. It rests on two facts about lists:
  a program that was resolved is resolved to itself, so that
  `toRealProgramPath()` neither drops nor changes it, and `merge()` takes away
  what it has put in front before it puts it there again.

`ConfigurationInv` has the types of the lists, and that `env` is what `Joined` makes of
`config` once something has been loaded. What a list joined and split again is,
is shown by induction on its length (`JoinedExact`).

### The script

`TproxyProofs` holds for any configurations, existing cgroups and number of kills as
`TproxyAssumption` says, and for any disturbances but `signal`. With a signal
while a configuration is applied two scripts run at once, and both properties fail (Known
limits).

* `ProxySpared`: `Spec => []NoproxyNeverMarked`.
* `NothingStays`: `Spec => []StoppedClean`.

Both rest on what `Start(e)` and `Stop(e)` are as lists, for lists of
cgroups of any length (`StartFacts`, `StopFacts`): `Before(s, B, C)` says that each
command of `C` comes after one of `B`, `Once(s, c)` that `c` comes at most once.
These are found piece by piece (`BeforeConcat`, `OnceConcat`) and survive the
head of the list being taken away (`AfterHead`). `StartAdds` and `StopRemoves`
say what any one command can change for a family.

`SpareInv`, for the first theorem: in TPROXY_OUT no rule jumps to TPROXY_MARK before
one that returns for `/noproxy.slice` (`OutOk`), and in what is left of a start the
rule that spares comes before those that mark, unless it is there already, and
after the chain is made (`InOrder`). A packet of `/noproxy.slice` then leaves
the chain unmarked at the sparing rule or before (`NoMark`, by induction on the
rules that it has passed). A stop only takes rules away by
flushing a whole chain, and a start that finds the chain of a killed script
appends behind rules that are in order.

`CleanInv`, for the second, says in each phase what is left:

* a stop on its way has ahead of it each command that has something to undo
  (`StopLeft`), and comes to unhook and flush before it deletes a chain of that
  family, since a chain in use is not deleted;
* what a stop undoes fits the environment it runs in (`Fits`): hooks and nat rules
  at most once, only its own mark and table;
* a start on its way does not hook twice (`StartLeft`), and makes TPROXY_ENT before
  it hooks anything, so that the next stop, which looks for that chain of IPv4,
  does not give up;
* after a kill only the part about the hooks of IPv4 remains (`HookedOnce`).

TLC confirmed `CleanInv`, of which `SpareInv` is a part, on the instance of the run
(282 205 states) and on one with `new_config` and one kill (155 581 states).

`PacketProofs`, under the same assumptions, has the two properties that need the
whole content of the chains and not only their order.

* `EveryMarkServed`: `Spec => []MarkedServed`.
* `OptionsDecide`: `Spec => [](crashes = 0 => Decided)`, which excepts the packets of
  TproxyRanks.

`EntRules`, `PreRules`, `MarkRules` and `OutRules` are the chains as functions of the
configuration. `SetUp(n, e)` says that the kernel's state `n` has them for both
families, with lookup, route and hooks. `ServeInv` is `CleanInv` and, as long as nobody was
killed,

* what is left of a start, run to its end, makes `SetUp`, and hooks OUTPUT after all else
  of that family (`StartServes`); a start whose mount failed has left nothing;
* in a stop OUTPUT is not hooked any more, or is unhooked by the next
  command, or the family is complete and the two commands that unhook it come before
  any other that takes something from it (`StopServes`);
* a daemon that is up has nothing or `SetUp` in the kernel.

The state where a start is going is a `Fold` of its commands over the kernel's
state (`Result`), so that the step of a script keeps it by the definition of a fold;
what must be shown is that the fold over a whole `Start(e)`, from a clean kernel, is
`SetUp`. Each chain is built rule by rule (`EntBuilds` to `OutBuilds`), the rules of a
list of cgroups by induction on its steps (`BuildsList`). For the packets, a chain is
a fold of its rules (`WalkIs`), and what the rules of a list of cgroups do together
is found by induction again (`FoldHits`, `CgroupsFold`): `OutputMarkIs` says which packets are marked, `ServedIs` which
ones PREROUTING gives to the proxy. `MarkedServed` and `Decided` then follow from
`SetUp`: what the rules pick (`Picked`) is what `Wanted` asks for, where it is not
`Overruled`.

TLC confirmed `ServeInv` on the instance of the run (282 205 states).
`MarkedServed` is about daemons that were not killed by its own words.
`Decided` is not: the run checks it after kills too, in one and the same
configuration, where leftovers of a killed script are rules and hooks that the
next start adds once more. The theorem leaves that case to TLC; with
`new_config` as well it does not hold (Known limits).

The library's induction theorems take an operator as a parameter; `ListProofs`
proves the least number principle for sets of numbers (`LeastNumber`) and from it the
induction over a set (`SetInduction`, `BoundedInduction`), with which
recursive functions over lists are unfolded (`BoundedRecursion`, `RecursionStays`).

### Only model-checked

`Decided` after kills; the liveness properties `EventuallyPlaced`, `Answered` and `Returned`
(fairness and ENABLED are out of the prover's reach); what the violation runs show.

## Not modelled

* `execsnoop.skel.h` and the other skeletons: generated, and by far most of the
  repository's lines (about 32 000 of 34 000); they embed the compiled program
  and have no logic of their own. The models stand for the code that is written
  by hand.
* The variant of execsnoop for kernel headers: statement by statement the
  program of the libbpf variant, with another loader; it is not built.
* Of the bcc variant, the compilation and the poll loop.
* Loading `libexecsnoop.so`: a failure is like a late execsnoop (`GiveUp`).
* A socket thread that cannot unlink the old socket ends at once, and since its
  promise is destroyed unfulfilled the log says that it was started; nothing but
  the log depends on it.
* Crashes that the data race on the configuration may end in.
* `tools/cgattach`, which calls `attach` once; v2ray configurations, packaging and
  service file; wording, logging and arguments; the option `--config` of the
  script, which the daemon does not use.

## Plan

Modelled: all parts listed above. Left for proofs: `Decided` after kills, for which
each chain would have to be a series of beginnings of the one in `SetUp`.

Left for models: placement and packets together against the documented order of
the options, from the program of a process to the decision about its packets.

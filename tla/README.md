# A verification project for uplinkmgr

uplinkmgr runs a host with several internet uplinks. dhcpcd obtains the leases,
an exit hook writes what dhcpcd learnt into state files, a daemon probes the
uplinks and turns leases and health into routes, policy rules, radvd
configurations and events, and a setup tool generates the static configuration
of all of them. This directory holds TLA+ models of that system, configurations
that check them with TLC, and proofs checked by TLAPS.

Paths below are relative to the repository; `daemon.py` is
`src/uplinkmgr/daemon.py`, and so on for the other Python files. SPEC.md is the
repository's own design document. Where it and the code disagree, the models
follow the code (see *Findings*).

## 1. Inventory

### Components

| component | source | state it keeps | operations |
|---|---|---|---|
| daemon | `daemon.py` | signal flags, `_states`, `_installed`, policy-rule flags, primaries, probe and SIGHUP timers | start, reload, SIGUSR2, reconcile on SIGUSR1, probe cycle, cleanup |
| link health | `statemachine.py` | per uplink and family: state and two counters | `update`, `_update_link`; `_force_link_down` in the daemon |
| routes and rules | `routing.py` and the `_reconcile_*`, `_setup_*`, `_teardown_*` methods of `daemon.py` | the kernel's routes and rules; what the daemon remembers of them | replace and delete a route, add and delete a rule |
| dhcpcd exit hook | `hooks/dhcpcd-hook` | none of its own; writes the state files | one run per dhcpcd reason, ending in `kill -USR1` |
| state files | `state.py` | `<uplink>.ipv4`, `.ipv6ra`, `.ipv6pd`, `.ipv6na` | atomic write, separate reads |
| radvd configuration | `radvd.py`, `generator.py` | one file per uplink with prefix delegation; what radvd loaded of it | `regenerate_all` with action write or sighup |
| event hooks | `hooks.py` | a queue and one worker thread | `fire`, `shutdown`, running scripts with a timeout |
| probes | `monitor.py` | none | ping with retries, concurrently for all uplinks |
| configuration | `config.py` | none | `load`, which returns, exits or raises |
| rule priorities | `priority.py` | none | arithmetic on the indices of uplinks and networks |
| names and numbers | `naming.py` | none | derived interface names, MAC addresses, IAIDs, table numbers |
| setup tool | `bin/uplinkmgr-setup`, `generator.py` | generated files of systemd, dhcpcd and radvd | generate, remove stale files |
| hook link maintenance | `hooks/dhcpcd-hook-link`, `debian/postinst`, `prerm`, `postrm` | a symbolic link | install, remove |

### Interactions

* **dhcpcd hook and daemon** share the state files and one signal. Hook: write
  or remove files one at a time, then SIGUSR1. Daemon: clear the flag, then read
  the files. Neither waits for the other and there is no lock.
* **Administrator and daemon**: SIGTERM, SIGHUP and SIGUSR2 only set a flag; the
  main loop tests the flags at fixed places.
* **Daemon and kernel**: `ip` commands. The daemon never reads routes or rules
  back: what it believes is installed is `_installed`. The kernel on its own
  drops an IPv6 route whose lifetime ends.
* **Daemon and radvd**: a file and SIGHUP.
* **Daemon and event hooks**: `fire` enqueues, a worker thread runs the scripts.

### What is hard, and what makes each component correct

* **Signals against passes.** A lease event may come at any point of a pass, of
  a start or of a reload. Correct if no event is lost (`NoLostUpdate4`,
  `NoLostUpdate6`), if a stop is obeyed (`StopsWhenAsked`) and if neither probes
  nor signals starve each other (`DeadLinkGoesDown`, `LostLeaseWithdrawn`).
* **Three reads that are not one.** The IPv6 files are read one after the other
  while a hook rewrites them.
* **Bookkeeping instead of reading back.** Everything rests on `_installed`
  agreeing with the kernel (`KernelTracked`, `CleanExit`, `ForwardingKept`).
* **Health from two sources.** Probes count towards a threshold, a lost lease
  forces a link down at once, a reload resets both (`HealthByHysteresis`).
* **Derived state.** The primaries (`PrimaryIsBest`), the events
  (`HooksInformed`) and the radvd tiers of *all* uplinks (`CycleReachesRadvd`)
  must follow a health that changes in several places.
* **Failures of routing.** An `ip` command that fails is logged and taken for
  done; a killed daemon starts again with an empty `_installed` on top of what
  it left; a flapping interface loses its routes. What survives these is stated
  in `RouteSyncProps` (`RememberedRulesPresent`, `RestartRepairs4`,
  `Route6Heals`, `LeftoversBounded`).
* **Numbers from places.** Priorities, tables, macvlan names and MAC addresses
  are computed from the place of an uplink and a network in the configuration,
  state and health go by name. A reload changes the first and not the second
  (`ClientsUseTheirUplink`, `TeardownRemovesAll`, `SlotsDistinct`).
* **Time.** radvd is signalled at most once in an interval, unless a router has
  expired; a hook script is killed at its limit; the shutdown waits one limit
  for all that is queued (`ChangeReachesRadvd`, `ExpiredRouterWithdrawn`,
  `DrainedInTime`, `ShutdownEnds`).
* **Several radvd instances.** A change of the primary is a sequence of SIGHUPs,
  each of which clients see (`NoGap`).
* **One directory for many names.** Env files of uplinks and links for
  interfaces and macvlans are side by side, rewritten one at a time by a setup
  that may be killed (`HookFindsUplink`, `HookNeverMisled`, `NothingStale`).

The hazards are listed at their lines in `PROJECT.json`, each with the
properties that cover it.

## 2. The modules

```
Hysteresis <--implemented by-- UplinkState --extends--> StateMachine
                                                             ^
Daemon --extends--> StateMachine, Routing, Radvd             |
DaemonProps --extends--> Daemon    (properties; the instances of Hysteresis)
MCDaemon --extends--> DaemonProps  (values for TLC)

RouteSyncProps --extends--> RouteSync --extends--> Routing
MCRouteSync --extends--> RouteSyncProps
TopologyProps --extends--> Topology --extends--> Routing, Priority, Naming, Config
MCTopology --extends--> TopologyProps
SetupProps --extends--> Setup --extends--> Generator --extends--> Naming, Config
HookLink             the maintainer scripts, with their property
MCInstallation --extends--> SetupProps, HookLink
MCRadvdTimer --extends--> RadvdTimerProps --extends--> RadvdTimer
MCHooks --extends--> HookProps --extends--> HookRunner --implements--> EventLog

StateMachineProofs   lemmas about one link
UplinkStateProofs    theorems of UplinkState
DaemonProofs         theorems of Daemon
RouteSyncProofs      theorems of RouteSync
HookProofs           theorems of HookRunner
RadvdTimerProofs     theorems of RadvdTimer
TopologyProofs       theorems of Topology, Priority and Naming
InstallationProofs   theorems of Setup and HookLink
```

**StateMachine** is `_update_link` as an operator on a record of state and two
counters, and the record `_force_link_down` assigns. The counters of the code
are unbounded; here they saturate at `CountCap`. `CountersBelowThreshold` shows
that the counter a decision reads never gets there (the other one, for instance
`successes` of a link that is up, is only reset).

**Hysteresis** is the promise: a state and the length of the current run of
probes against it. **UplinkState** is class `UplinkState`, both links probed in
one `update`, refined to two instances of `Hysteresis`.

**Routing** says what one pass over one uplink does. `inst` is `_UplinkRouting`,
`kern` is the kernel: a gateway for each route, and for each rule priority a
*sequence* of selectors, because `ip rule add` refuses only an identical rule
and `ip rule del priority P` removes the oldest. A leftover or a doubled rule is
thus representable, which is what `KernelTracked` is about. `Follow4` and
`Follow6` are the code's `if wanted != installed` blocks, `WantX` its
computations of what is wanted, `KernRoute6` the route that is replaced
unconditionally. All networks of an uplink are handled by the same loop body
with the same conditions, so one slot stands for the slots of all of them.

**Radvd** is the derivation of one uplink's configuration: tier, kind of
lifetimes, whether it makes radvd a default router, prefix. `router` is whether
`AdvDefaultLifetime` is not 0, which live lifetimes alone do not give: the code
writes what remains of the upstream router's lifetime, 0 when it has run out or
was stored as 0.

**Daemon** is the composed system. The thread of the daemon has a program
counter `pc` and the work it does, `task`:

| `pc` | code | next |
|---|---|---|
| `off` | no process | `Start` (`run` up to the PID file) |
| `setup` | policy rules, forwarding rules | `v4` of the first uplink |
| `loop` | `while self._running`, reload flag | `Stop`, `NoReload`, `ReloadOk`, `ReloadRejected`, `ReloadRaises` |
| `hup`, `recon`, `probe` | the tests of the other flags and of the interval | `TestSighup`, `TestReconcile`, `TestProbe` |
| `update` | an uplink of a cycle: `update` and what changed | `UpdateState` |
| `v4` | `_reconcile_uplink_ipv4` | `ReconcileUplinkIpv4` |
| `ra`, `pd`, `na` | the three reads of `_reconcile_uplink_ipv6`, and the rest of it | `ReadRa`, `ReadPd`, `ReconcileUplinkIpv6` |
| `primary` | `_update_primary_uplinks` | `UpdatePrimaryUplinks` |
| `regen` | an uplink of `regenerate_all` | `RegenerateUplink` |
| `sleep` | `_sleep` | `Wake` |

An action ends where another process can be observed or can observe: at a read
of a state file, at a test of a flag, at a radvd file. The commands of one
reconcile touch nothing another modelled process writes and form one action
together with their bookkeeping. The hook is three actions: `HookStart` chooses
a reason and the operations it will make, `HookWrite` makes the next one,
`HookSignal` signals whoever has a PID file. Signals, the interval and expiring
IPv6 routes are environment actions.

**RouteSync** takes the pass of `Routing` apart into what the code does one
after the other: `ip` commands, assignments to `_installed` and fired events, as
a sequence `todo` computed where the code decides and worked off item by item. A
command may fail (and is booked all the same), raise (the `OSError` of a missing
`ip`, which ends the daemon through its cleanup once it is in the loop and
without it before), the process may be killed, an interface may lose its routes.
When a pass or a
teardown is decided, the history variable `goal` takes what `ReconcileIpv4/6` or
`Teardown` of `Routing` give as one step from the bookkeeping and the kernel of
that moment, leftovers of earlier faults included; a fault in its course clears
it. `PassAsOneStep` says that the commands, worked off one by one, come to
exactly that. The boot has no goal: its set-up makes the policy rules, which
`Daemon` keeps apart. A state file that cannot be parsed reads as absent. The
uplink itself is a variable that is chosen at the start and never changes, so
that one run explores several kinds of uplinks.

**Priority**, **Naming**, **Config** are `priority.py`, `naming.py` and the
checks of `config.py` as operators. The shortening of interface names in
`macvlan_name` is the constant function `Short`, which a run may give a
collision.

**Topology** is the whole rule table of a daemon: every rule of every uplink and
network at its number, the bookkeeping by the names the code uses, and reloads
between configurations. A pass is one step here, and a state file is reduced to
whether the uplink has it. The step is given point by point: what a set-up, a
pass or a teardown makes of the books of each uplink (`SetupBooks`,
`ReconcileBooks`, `TeardownBooks`), which rule the books have at each priority
(`At4`, `At6`), and what the kernel's rules at a priority become when that rule
changes (`Turn`, `Exchange`). The loops of the code over uplinks and networks
touch each priority at most once, so their order does not show; where two
networks share a macvlan name the code does only the first (`Slots6Done`). `Way`
in **TopologyProps** is what the kernel makes of
a packet, so that the properties are about packets and not about rules.

**Generator** and **Setup** are what `uplinkmgr-setup` writes and in which order:
`Plan` is the set of the steps of `main`, each a place in it (stage, uplink, file
or link, call), and `Before` their order; a run takes the `First` of those it has
left, a kill drops them all, a failing `systemctl` goes on. `stale` is the list
of units `_disable_stale_radvd_units` works through, made when it is asked for.
The disk is a function from paths to contents, with links. `Identify` is how the
dhcpcd hook finds its uplink through them. All the files are under `/etc`, so a
reboot finds what the last run left. systemd starts dhcpcd on its own account
with whatever `dhcpcd.conf` is there: when it fails (`DhcpcdRestarts`, at any
moment, also in the middle of a run; the radvds that run are restarted with it)
and at boot (`Booted`, with the radvds that are enabled or wanted). A loss of power
during a run is `Killed` followed by `Booted`.

**RadvdTimer** is the rate limit in discrete time, with one uplink: remaining
lifetimes, clamping, `_last_radvd_sighup` next to `hup`, the time of the last
SIGHUP in truth. That `regenerate_all` writes and signals one radvd after the
other is part of `Daemon` (`pc = "regen"`), and what clients see of it is
`NoGap`.

**EventLog** promises that events are begun in the order they were fired, each
at most once. **HookRunner** is `hooks.py`: the queue, the worker between the
events and between the scripts, the two calls of `communicate`, the main thread
in `shutdown`, and an administrator who edits the directories at any moment.
Time passes in ticks while the worker waits. The sorting of the scripts is the
sequence in which they stand in order (`Sorted`); `SortedWorks` proves that there
is one.

**HookLink** is `dhcpcd-hook-link` as dpkg runs it, with a dhcpcd-base that
moves its directory and runs that are interrupted or fail.

**MCInstallation** holds `SetupProps` and `HookLink`, and a variable that chooses
one of the two at the start and never changes: one run of TLC then explores them
side by side.

### Abstractions

* Addresses, gateways and prefixes are members of `Sources`. The lifetime in a
  router advertisement is kept as whether it ends (`expires`). In `Daemon` there is
  no clock: each time an instance is written, an advertisement that expires may
  have lifetime left or not (`LifetimeLeft`), and one that does not (stored with
  lifetime 0) has none. That time runs one way only is in `RadvdTimer`.
* A probe's outcome is any member of `Reach`.
* The rate limit of radvd SIGHUPs and the lifetimes that decide about it are a
  choice between `sighup` and `write`; radvd loads its file when it is signalled.
* `wan` holds the last two wan events per link since the daemon started or
  reloaded, "none" before the first. Both make every link UP in `_init_states`
  without firing a wan event, so what was announced before is forgotten at that
  point and nothing takes its place.
* In `Daemon` a reload loads a configuration with the same uplinks and options
  and can succeed, exit or raise (`LoadOutcomes`); other configurations are the
  subject of `Topology`.
* In `Daemon` the process ends only by its own cleanup, and `ip` commands
  succeed; kills and failures are the subject of `RouteSync`.
* In `Topology` a step ends with the pass it causes; that nothing is lost when a
  signal comes in between is the subject of `Daemon`.
* In `RadvdTimer` the daemon answers a signal before the clock goes on.
* The texts of generated files are reduced to what another part of the system
  reads of them.
* In `Topology` an uplink has IPv6 or has not, and has it by prefix delegation:
  one with `ipv6_na` and without `ipv6_pd` (`daemon.py:522`, 563-572) is not
  represented. A single uplink of that kind is in `Daemon` and `RouteSync`.
* `Way` takes the kernel's own rule for the main table as the last. That is so
  as long as the rules stay below priority 32766; `rule_priority_start` is not
  checked for it (`config.py:96`), and with a start close to that number or
  above it packets go by the main table first.
* `macvlan_name` shortens an interface's name by a function of that name alone.
  The code leaves what room the suffix does not take, and raises `ValueError` if
  there is none (`naming.py:30`); neither the length nor the error is modelled.
* Of the checks of `uplinkmgr-setup` before it writes, that on the names of
  routing tables (lines 76-81) is left out; `Setup` runs with some configurations
  the tool would refuse.
* dhcpcd offers no prefix or address to an uplink it is not configured to
  request them for.

### Assumptions

`DaemonAssumption` is what `config.py` enforces (distinct metrics, at least one
uplink) and that the kinds of values are distinct. `ThresholdAssumption` asks
only that the cap is at least each threshold: the code does not check that
thresholds are positive, and the theorems do not need it. `UplinkAssumption` of
`RouteSync` says that a lease that can be read has a gateway, as
`read_ipv4_state` demands. `HookAssumption` says of file names that two entries
of one directory have different ones and that equal names have equal stems.
`CandidateAssumption` of `HookLink` says that no directory is `Nowhere`.
`FilesAssumption` of `Topology` and of `Setup` says that the uplinks and networks
of a configuration are lists; `NoFromAssumption` that the absence of a selector
is neither an address nor an interface.

Some theorems have a hypothesis besides, because the code relies on it without
seeing to it. The configurations of the runs satisfy all three, and where one of
the first two fails the property can fail too (*Further disagreements*):

* `NamesValidated` (Topology): no two networks of an uplink have macvlans of one
  name. `uplinkmgr-setup` refuses such a configuration, and the daemon is meant to
  run with one that was set up, but it does not look itself.
* `NamesApart` (Setup): no uplink is named like an interface, and no interface
  like a macvlan. Their files share a directory; nothing checks this.
* `FewNetworks` (Setup, only for `FilesFit`): at most 256 networks, whose number
  is one octet of a MAC address and of an IAID; nothing checks this.

## 3. The runs

| run | instance | distinct states | what it shows |
|---|---|---|---|
| UplinkState | thresholds 3 and 2 | 169 | both links implement the hysteresis |
| Ipv4 | 2 IPv4 uplinks, a lease that comes and goes, any probe result, SIGTERM, SIGHUP, every outcome of a reload, restarts | 1,743,683 | no lease event is lost, nothing is orphaned, a stop leaves nothing, the primaries are right and the wan events tell which links are down |
| Ipv6 | 1 uplink with IA_NA, two advertisements, one of them with a lifetime, all IPv6 reasons, SIGTERM, SIGHUP | 720,246 | torn reads of the three files are always repaired |
| Prefix | 1 uplink with two possible prefixes, `reject_wrong_pd_src`, all signals, reloads that succeed or raise, restarts | 6,112,990 | forwarding and prohibit rules keep in step with the prefix; a stop leaves no radvd with a withdrawn configuration |
| Radvd | 2 uplinks with prefix delegation, `exclusive_preferred_pd`, an advertisement that comes and may run out, SIGTERM | 1,566,650 | the tier change of one uplink reaches the radvd of the other, and clients lose their last working router only to a primary uplink that has no router lifetime left |
| Live | 2 IPv4 uplinks, the first dead, endless lease events, SIGTERM | 171,119 | stops, lost leases and dead lines are acted on |
| Sync | 3 uplinks, one of them at a time: one with IPv4 alone and three leases, one with two prefixes, one with IA_NA, both with a router advertisement; `reject_wrong_pd_src`, two faults of any kind | 1,917,710 | a pass is the step `Daemon` takes it for; what is remembered stays in the kernel; a restart repairs IPv4 routes, the next pass IPv6 routes; leftovers do not multiply |
| Hooks | 2 events, three scripts of which two shadow each other, one that may leave a process behind, edits at any time, limits 1 and 2 | 526,491 | the event log is implemented; order and shadowing of scripts; what is queued is handled in time if the worst case fits; the daemon ends |
| Reload | 3 names, 2 uplinks, 2 networks, configurations that are reordered, renumbered, replaced and rejected | 1,344 | packets take the uplink they should, before and after each reload; nothing is left of an old configuration |
| Installation | setup: five configurations that move, add and remove uplinks and networks, one of them refused, two kills or failing calls, reboots and restarts of dhcpcd by systemd; maintainer scripts: the two directories of dhcpcd | 416,643 | after a run that came to its end the hook finds each uplink and nothing stale is left; at no time is one uplink taken for another, and once a run is past its files every start of dhcpcd finds the hook ready; the link follows dhcpcd-base and goes with the package |
| Timer | interval 3, router lifetimes 5 and infinite, 10 ticks | 1,105,529 | no change waits longer than the interval and one advertisement; an expired router is withdrawn |
| BadReload | 1 IPv4 uplink, SIGHUP | - | the finding below |

**Bounds.** No state constraint is used: every run explores all reachable states
of its instance. Two uplinks are the least for which "the other uplink",
"preferred" and "later in the pass" mean something, and the code treats uplinks
only through their index, metric and options; in `Metric2` the order of the
configuration and of the metrics differ on purpose. Two values per kind suffice
where the code compares old and new; a run gets two where replacement is the
question (prefixes in Prefix, advertisements in Ipv6) and one where presence is. A
failure threshold of 2 distinguishes one failure from a run of them; thresholds
of 1 are used where the counters are not the question. The hook writes at most
four files a run, and runs are unlimited. IPv4 and IPv6 are in separate runs
because a pass handles them one after the other on separate state; every safety
property of these runs is moreover proved for all combinations.

In Sync two faults let a fault meet the leftovers of another one, and
`MaxFaults` is a bound on faults only, passes and restarts are unlimited; the
properties are proved for any number of faults and any contents of the files. In
Radvd an uplink gets an advertisement, no prefix, and does not lose it again, and
health changes by probes; prefixes and lost leases with radvd are in Prefix, and `NoGap` and `CycleReachesRadvd` are proved with them. The
configurations of Reload and Installation are chosen so that each kind of change
happens between some two of them: another order, other numbers, an uplink gone,
new, on the other's interface, without prefix, and for Reload one that is
rejected by name and one by table, for Installation one that setup refuses
because two macvlans would have one name. `MaxTrouble` counts kills and failures,
runs of setup are unlimited. In Timer the interval is longer than the gap between
advertisements and shorter than the lifetime, the clock covers two lifetimes and
three intervals, and both properties are proved for all values. In Hooks each
event is fired at most once, which bounds the queue; two of the three scripts
have one stem, in either directory, and two limits let a reload change
`hook_timeout` under a running event; the safety properties are proved for any
events, scripts and limits.

The `TypeOK` of `RouteSyncProps`, `HookProps`, `TopologyProps`, `SetupProps` and
`RadvdTimerProps` describes the values of the variables for the reader and holds
in the instances above; the runs keep to the properties that say something about
the code. Those of `RouteSyncProps`, `TopologyProps` (`TopologyTypes`) and
`SetupProps` (`SetupTypesOK`) are proved, as is `TypeOK` of `UplinkState`.

**Deadlock** is checked in every run but Installation and Timer: setup is not run
for ever, and the clock ends at `MaxClock`.

**Fairness.** Run Live (`Daemon!FairSpec`): The daemon's thread keeps running (weak
fairness of `Thread`: `_sleep` looks at the flags every half second, each ping is
limited by `-W 2` and the number of pings by the configuration; `ip` and
`systemctl` are run without a timeout and assumed to return), a hook that started comes to its end (it is a straight
shell script), and time passes. Nothing obliges dhcpcd to report, the
administrator to signal or a start to happen. `DeadLinkGoesDown` is checked
without SIGHUP: each reload resets the counters, so reloads repeated faster than
the failure threshold keep a dead link up for ever, which is what the code says.

Run Hooks (`HookRunner!FairSpec`): the worker thread goes on
whenever it can, time passes, and the main thread leaves `join` when the worker
is gone or the limit is reached. Nothing obliges a script to finish, a process
that escaped to end, or anybody to fire, reload or stop; `EveryEventHandled` is
therefore about behaviours in which no escaped process holds stderr for ever.

### Findings

* **BadReload** (`StopsOnlyWhenAsked`). A reload that fails keeps the existing
  configuration, says the log message (`daemon.py:204`). Only `SystemExit` is
  caught; a malformed number raises `ValueError`, and the daemon tears everything
  down and ends.

**Further disagreements.** The following statements of SPEC.md and of comments are
written down at the end of the property modules, each as a definition of its own.
No run checks them; TLC refutes each when it is added to a configuration of its
module, for some with the value of a constant given here.

* In `DaemonProps`:
  `OncePerTransition` (SPEC.md 5.4.4, an event once per transition: a link that
  recovers by probes while it has no lease is forced down in the same cycle, and
  `wan-down` follows `wan-down`);
  `NoDeprovisionAtStart` (16.1: the first pass forces down each uplink without
  state files);
  `ForcedDownReachesRadvd` (5.3.5: inside the rate limit a forced transition is
  written and not signalled);
  `ReloadReconcilesRadvd` (5.4.4: a reload resets every link to up and leaves the
  radvd files of the links that were down as they were);
  `FlipsAreTold` (the repository's README.md, *Event hooks*: wan-up and wan-down
  tell of reachability flipping; a reload makes a link that was announced as down
  UP again and fires `reload`, never `wan-up`, so a listener that keeps what it
  was told per link is wrong until that link changes again);
  `PrimaryIsRouter` (9.6: under `exclusive_preferred_pd` the first uplink that is
  up is the clients' router; when its upstream lifetime is 0 it is none, and the
  others are deprecated all the same).
* In `RouteSyncProps`:
  `StopRemovesAll` (13.3: the rules of a killed predecessor are in nobody's books
  and stay);
  `DeadUplinkHasNoRoute` (8.4: if the daemon was killed and the lease is gone when
  it comes back, the route stays in the shared table);
  `WrongSourceRejected` (9.4: after a kill, the rule narrowed to an earlier prefix
  remains next to the new one);
  `RoutesInSync` (a comment, the two IPv4 default routes are always in sync: not
  if one of two commands fails, until the gateway changes);
  `FwdNeverDeleted` (7.5, the forwarding rule is updated in place: it is deleted
  and added again);
  `EventAfterRoutes` (5.4.4: a forced `wan-down` is fired before the routing
  follows).
* In `HookProps`:
  `StopHookRuns` (5.4.2: one slow script can use up the time of all, and
  `daemon-stop` does not get to run);
  `TimeLimited` (5.4.2: a descendant in a session of its own holds stderr open,
  and the second `communicate` waits for it).
* In `TopologyProps`:
  `RulesAsCounted` (4.3 counts one IPv6 rule per uplink too few);
  `TeardownRemovesAll` with a `Short` that gives two networks one name: they share
  an entry of the books, and of two rules one stays. Setup refuses such a
  configuration, the daemon loads it.
* In `SetupProps`:
  `RadvdOnlyForPd` when a file drops `ipv6_pd` (4.3: the unit is enabled for every
  uplink, and the radvd file of an uplink that had prefix delegation stays);
  `HookFindsUplink` with an uplink that is named like its interface (6.7: the link
  replaces the env file and points to itself);
  `EveryStartKnown` (what the order of `main`, env files before services, is for:
  whenever dhcpcd comes to run with a new configuration the hook knows its WAN
  interfaces. `dhcpcd.conf` is written before the env files, so a failure of dhcpcd
  in between, or a reboot after a run that was cut short there, starts dhcpcd with
  interfaces the hook does not know, and their leases are dropped, `dhcpcd-hook`
  lines 31 and 35, until setup is run again);
  `TablesFree` with the shared table in `Foreign` (4.3, 6.6: setup does not look at
  the shared IPv4 table).
* In `RadvdTimerProps`:
  `RateLimited` (5.3.5: the SIGHUPs of the probe cycle are not counted);
  `FirstSignalReaches` (16.3: a daemon started soon after boot holds the first
  signal back, for the time of the last SIGHUP starts at 0).

SPEC.md 17 (item 20) already knows that a router advertisement with an infinite lifetime is
taken for an expired one by `regenerate_all`; `RadvdTimer` and `Daemon` model it so.
It is one way in which the exception in `NoGap` comes about. Without that
exception (no SIGHUP takes the last router whose uplink is up) the property is
false: under `exclusive_preferred_pd` an uplink of higher rank that comes back
with a router lifetime of 0 is no router, and the SIGHUP to the other one's radvd
takes the only router away. A stop does the same, for it takes every uplink for UP: the
first uplink in the configuration is then the primary one, its link up or not. `StopsAdvertising`
says of a stop what the code sees to, that no configuration is left withdrawn or
with the lowest preference; it does not say that a router lifetime is left.

## 4. The proofs

All theorems hold for every value of the constants within the assumptions: any
number of uplinks, any subset of them with IPv6, any configurations and reloads
between them, any contents of the state files, any thresholds, any number of
faults, any scripts, any sequence of environment actions. Every invariant, every
action property and every refinement that a passing run checks is also proved;
what is left is liveness (*Only model-checked*).

| theorem | establishes |
|---|---|
| `UplinkStateProofs!TypeCorrect`, `BelowThresholdAlways` | `[]TypeOK`, `[]CountersBelowThreshold` |
| `UplinkStateProofs!Ipv4Implements`, `Ipv6Implements` | `UplinkState` implements `Hysteresis`, both links |
| `DaemonProofs!DaemonTypeCorrect` | `[]TypeOK` |
| `DaemonProofs!NothingOrphaned` | `[]KernelTracked` |
| `DaemonProofs!LeavesNothingBehind` | `[]CleanExit` |
| `DaemonProofs!HealthFollowsProbes` | `HealthByHysteresis` (an action property) |
| `DaemonProofs!PrimariesAreBest` | `[]PrimaryIsBest` |
| `DaemonProofs!HooksAreInformed` | `[]HooksInformed` |
| `DaemonProofs!NoIpv4UpdateIsLost`, `NoIpv6UpdateIsLost` | `[]NoLostUpdate4`, `[]NoLostUpdate6` |
| `DaemonProofs!TrafficIsForwarded` | `[]ForwardingKept` |
| `DaemonProofs!CyclesReachRadvd` | `[]CycleReachesRadvd` |
| `DaemonProofs!StopsWithRadvdAdvertising`, `NeverWithoutRouter` | `StopsAdvertising`, `NoGap` (action properties) |
| `RouteSyncProofs!RoutingTyped` | `[]TypeOK` |
| `RouteSyncProofs!PassesAsOneStep` | `[]PassAsOneStep` |
| `RouteSyncProofs!RulesSurvive` | `[]RememberedRulesPresent` |
| `RouteSyncProofs!LeftoversStayFew` | `[]LeftoversBounded` |
| `RouteSyncProofs!RestartRepairs`, `RouteHeals` | `[]RestartRepairs4`, `[]Route6Heals` |
| `HookProofs!EventsInOrder` | `HookRunner` implements `EventLog` |
| `HookProofs!ScriptsInOrder`, `PlaceholdersDisable` | `[]InNameOrder`, `[]DisabledStaysOff` |
| `HookProofs!DrainsInTime` | `[]DrainedInTime` |
| `RadvdTimerProofs!ChangesAreMadeUpFor` | `[]ChangeReachesRadvd` |
| `RadvdTimerProofs!ExpiryIsNotHeldBack` | `[]ExpiredRouterWithdrawn` |
| `TopologyProofs!RulesNeverClash` | `[]SlotsDistinct` |
| `TopologyProofs!PriorityRange` | how many priorities the IPv6 rules take |
| `TopologyProofs!TablesDistinct`, `IaidsDistinct` | table numbers of accepted configurations, IAIDs |
| `TopologyProofs!NothingIsLeft` | `[]TeardownRemovesAll` |
| `TopologyProofs!ClientsAreServed` | `[]ClientsUseTheirUplink` |
| `TopologyProofs!OthersTakeTheirWay` | `[]OtherTrafficTakesItsWay` |
| `InstallationProofs!UplinksAreFound` | `[]HookFindsUplink` |
| `InstallationProofs!NothingStaleIsLeft` | `[]NothingStale` |
| `InstallationProofs!FilesFitTogether` | `[]FilesFit` |
| `InstallationProofs!HookIsNeverMisled` | `HookNeverMisled` (an action property) |
| `InstallationProofs!LinkIsInPlace` | `[]LinkInPlace` |

**Daemon.** None of the properties is inductive alone. `IInv` is the conjunction
of nine parts, each proved to be kept by every action, with a step per action:

* `ControlInv`: types of the control variables, and which `task` goes with which
  `pc`. Without it "task is stop" could meet a pass, and the IPv6 part of a pass
  an uplink without IPv6.
* `FileInv`: every file, every operation a hook still has to make and every
  value already read is of its kind. The induction goes through `hookOps`,
  because a file's content is decided when the hook starts.
* `KernelInv`: per uplink, the kernel mirrors the bookkeeping (`Tracked`), and
  where nothing may be installed (`off`, `setup`, cleanup) the bookkeeping is
  empty and the policy rules are gone. `CleanExit` follows: empty bookkeeping
  that is mirrored means an empty kernel. One more fact is needed for teardown:
  an uplink without IPv6 never has IPv6 bookkeeping, for `_teardown_all` skips
  that half. The operators of `Routing` are handled once, at the head of the
  module: each pass turns a mirror of the old bookkeeping into a mirror of the
  new.
* `LinksInv`: each link is well-formed and below its threshold, so that a step
  of the counters is a step of `Hysteresis`. `NextLinkSteps` classifies what a
  step of the daemon does to a link: nothing, a probe, a forced transition or a
  reset.
* `PrimaryInv`: the primaries are current wherever no pass is under way. That
  the `CHOOSE` in them picks something rests on the least-number principle,
  taken from the library's well-foundedness of `<` on the naturals.
* `WanInv`: each link is announced (`Told`: the last wan event since the start or
  reload is `wan-down` exactly if it is down), or it is one the running cycle has
  changed and not yet announced (`ToldLater`); with it goes that IPv6 changes
  only where there is IPv6, otherwise such an announcement would never come.
* `ForwardInv`: outside of start and cleanup, an uplink with prefix delegation
  has a forwarding rule in the books, and a prohibit rule only next to one that
  is narrowed to a prefix. With `KernelInv` that is `ForwardingKept`.
* `UpdateInv`: for each uplink and family, the routing agrees with the files and
  the health (`Agrees4`, `Agrees6`), or a difference is in somebody's hands
  (`InHand`: a start, a stop, a hook that has yet to signal, a pending flag), or
  the pass under way has yet to come to it (`Ahead4`, `Ahead6`). The three reads
  of IPv6 need `SawInv` besides: a value that was read is still that of the file,
  or somebody has changed it whose signal makes good for it. When the daemon
  sleeps and nothing is pending only the first is left, which is `NoLostUpdate4`
  and `NoLostUpdate6`.
* `RadvdInv`: while `regenerate_all` signals, the radvds it has passed advertise
  by the present health. A change of health happens in a pass, and after a pass
  of a cycle the walk starts at the first uplink, so that none is left out.

`StopsAdvertising` and `NoGap` are action properties that follow from `IInv`:
only `RegenerateUplink` changes what a radvd has loaded (`OnlyTurnsLoad`), the
one uplink whose turn it is. If it takes the last router from the clients although
that uplink is up, then the first uplink that is up, or the first of all at a
stop, had its turn before or has it now, and was given live lifetimes. It is not
a router afterwards, so it has no router lifetime left.

**RouteSync.** The invariants are about `todo`, the list of commands and
assignments still to be made. It is made in one piece and cut off at the front, so
they are stated of any list that was, and shown of the lists a pass, a boot and a
teardown make:

* `ListInv`: a list is a `Chain`: next to each other are only such items as the
  code puts there (`Link`), so a deletion is followed by the addition or the
  assignment that belongs to it, and an addition by its assignment, of the same
  slot and value. Later additions are `Fresh`: into a slot that the books have as
  empty or that a deletion in front of them empties.
* `RuleInv`: as long as nothing failed, a rule in the books is in the kernel, or
  an assignment to its slot is still to come; and when that assignment is next,
  its rule is already there. A deletion that hits a leftover instead of its own
  rule is harmless because an addition of a rule that exists is refused by the
  kernel, and one that does not exist appends.
* `CountInv`: a slot holds at most one rule for each fault and `Cap`: 1 if the
  books have a rule, 0 if not, and where an addition or an assignment to the slot is
  next, what that one says. Every fault pays
  for the rule it leaves behind; `StopInv` (a teardown forgets everything) is
  what makes the cap 0 when the process is gone.
* `GatewayInv`, `Route6Inv`: what the books and the kernel have of the routes, or
  the command that is still to come for them.
* `Only4Inv`: an uplink without IPv6 has no IPv6 bookkeeping and no command for
  it.
* `GoalInv`: `todo` *leads* from the present state to the goal: there is a
  sequence of states from the one to the other in which each item makes the next
  (`Leads`). A step takes the first state off. That a new list leads to what
  `Routing` gives as one step is proved list by list, each with its states
  written down, and lists that follow each other compose (`LeadsOn`).

**HookRunner.** `QueueInv` says that what was fired is what was begun followed by
the queue, with nothing but the sentinel behind `daemon-stop`; a `Begin` then
begins the next fired event, and everything else leaves the log alone. `ScriptInv`
says that the scripts started and the scripts still to be tried are each in
filename order, the first all before the second, and that none of them is
disabled by an entry that was there all the time. `DrainInv` is an account of
time: what the worker may still need for the queue, in the worst case (`Left` for
the script under way, `Each` for each event), is within what is `owed` less the
ticks that were waited (`Budget`); if that is less than the limit of the join,
the join cannot end before the queue is empty.

**Topology.** Of the five kinds of IPv6 rules each has a band of numbers (`Bands`);
within the bands of pairs, `u * M + n` is injective (`PairApart`), by comparing
rows. That gives `RulesNeverClash`, and with it that each slot has a priority to
itself, so that the rule a priority holds is that of its slot (`OneRule4`,
`OneRule6`). `InvTopology` says that the books are what the files and the health
call for (`UpToDate`) and that the kernel holds the rule the books have at each
priority and nothing else (`InStep`). A pass that changes the books from one to
another takes the kernel along (`TurnMirrors`, because exchanging the one rule of
a priority leaves the one rule, `ExchangeSwaps`), and a teardown leads to books
that have no rule anywhere (`NothingInstalled`). `NamesValidated` enters at one
place: a network that the code skips because of its name has no rule
(`SkippedSlots`). The reload is then the three steps in a row, the first under
the old configuration. For the ways of packets, `WayBySlot6` and `NoWayBySlot6`
turn the search through priorities into one through slots: the first rule that
matches is that of the slot with the least number among those that match, and
which of two slots has it is again the order of the bands (`FwdBeforeReject`).

**Setup.** `SetupInv` goes by the steps a run has done, which are those of its plan
that it no longer has to do, and none of which comes after one it has still to do
(`InOrder`). Each of them has an effect (`Effect`, `UnitEffect`): a file with its
content, a link to the file of its uplink, a sweep with nothing to remove, a unit
enabled or, if it is stale, listed with its calls pending (`Pending`). The point is
that no later step undoes it, and this is where the order counts: a file is never
written to the name of a link (`NamesApart`) nor twice with different contents
(`PathsDiffer`), a sweep spares what the run has written (`SweepSpares`), and what a
sweep has cleared stays clear (`SweptStays`). A killed run has no steps left and
is not `clean`, so nothing is claimed of its units; of the directory of env files
`EnvOk` still holds, that under an uplink's name there is a file and under an
interface's or macvlan's a link to one. When a run has finished, all effects hold
at once, and the three properties are read off. `HookNeverMisled` goes by the
calls: what the hook finds for an interface changes only with a call on its link
or on the file behind it, and the run's own restart of dhcpcd comes after all of
them. From there on (`PastFiles`) `dhcpcd.conf` is that of the configuration the
hook knows (`KnownOnRestart`), so it does not matter who starts dhcpcd. Nothing is claimed of a
start before that, or after a run cut short.

**The others.**

* `RadvdTimerProofs`: `TimerInv` has, besides types, that a prefix radvd does not
  have yet (`HeldBack`) is younger than the interval plus the time since the
  last advertisement, because the signal that comes with each advertisement is
  held back only inside the interval; and that an expired router whose signal
  has been answered is withdrawn (`Withdrawn`): after the expiry remaining
  lifetimes are 0, so no later step can raise what was written.
* `HookLink` (in `InstallationProofs`): a run keeps to the target it started with,
  because dpkg moves nothing meanwhile, and of what it has looked at nothing is
  uplinkmgr's (`LinkRunInv`).

**Only model-checked:** `StopsWhenAsked`, `LostLeaseWithdrawn`, `DeadLinkGoesDown` of
`Daemon`, `EveryEventHandled` and `ShutdownEnds` of `HookRunner`. They are liveness
under fairness, for which the installed provers have no support (it needs
`ENABLED`).

## 5. Not modelled, and what could follow

Not modelled, and why:

* the command line, logging, and the debug flag file that changes the log level:
  no state that anything else depends on;
* unit files and packaging beyond the maintainer scripts: declarations, of which
  the restart policies and the start at boot appear as environment actions (of
  `RouteSync` for the daemon, of `Setup` for dhcpcd and radvd);
* the ping processes of `monitor.py`: I/O, of which the outcome is a choice;
* parsing of YAML and the defaults of scalar options in `config.py`;
* that two runs of the dhcpcd hook can fall within the three reads of
  `_reconcile_uplink_ipv6` and make all files look absent: `Daemon` has these
  behaviours and shows that the routing is right afterwards (`NoLostUpdate6`);
  that the link is forced down for the time being is not excluded by anything
  the documents say, so no property does.

What could be added next:

1. The two branches of `config.py` that are left out: the defaults and ranges of
   scalar options, as a function from what a file says to what the daemon gets.
2. A composition of `Topology` and `RouteSync`, that is reloads to another
   configuration with failing commands and kills. Both directions are covered
   alone (leftovers within one configuration, changes of configuration without
   faults), and the bound of `LeftoversBounded` would become one for each
   configuration that was in use.
3. Liveness, once a prover for it is at hand; the fairness is stated and the
   lemmas that such a proof would rest on (`UpdateInv`, `QueueInv`, `DrainInv`)
   are there.

------------------------------- MODULE Daemon -------------------------------
(***************************************************************************)
(* The uplinkmgr daemon (src/uplinkmgr/daemon.py) with what it interacts   *)
(* with: the dhcpcd exit hook (hooks/dhcpcd-hook) that writes the state    *)
(* files and signals it, the administrator's signals, the kernel's routes  *)
(* and rules, and the radvd instances.                                     *)
(*                                                                         *)
(* The daemon is one thread.  Its program counter moves between the points *)
(* where another process can be observed: each read of a state file, each  *)
(* test of a signal flag, each uplink of a pass.  The commands of one      *)
(* uplink's reconcile touch nothing another process writes and are one     *)
(* step.  The daemon stops only by its own cleanup here; kill -9 and       *)
(* failing ip commands are not modelled in this module.                    *)
(***************************************************************************)
EXTENDS StateMachine, Routing, Radvd

CONSTANTS
    N,              \* number of uplinks; 0 .. N-1 in configuration order
    NaUplinks,      \* the uplinks with ia_na: true
    Metric,         \* the uplinks' IPv4 metrics
    Leases,         \* contents of an ipv4.state file
    Adverts,        \* contents of an ipv6ra.state file
    PdPrefixes,     \* contents of an ipv6pd.state file
    NaAddrs,        \* contents of an ipv6na.state file
    Sources,        \* selectors of lo_to_uplink rules
    Reach,          \* outcomes a link's probe can have
    Reasons,        \* bound: the reasons dhcpcd runs its hook for
    AdminSignals,   \* bound: the signals the administrator sends
    LoadOutcomes    \* how loading the configuration at a reload can end

Uplinks    == 0 .. N-1
V6Uplinks  == PdUplinks \cup NaUplinks
Families   == {"ipv4", "ipv6"}
Links      == Uplinks \X Families

ASSUME DaemonAssumption ==
    /\ N \in Nat \ {0}
    /\ PdUplinks \subseteq Uplinks
    /\ NaUplinks \subseteq Uplinks
    /\ None \notin Uplinks
    /\ Metric \in [Uplinks -> Nat]
    /\ \A u, v \in Uplinks : Metric[u] = Metric[v] => u = v
    /\ Leases \subseteq
         [gateway : Sources, address : Sources \cup {None}]
    /\ Adverts \subseteq
         [gateway : Sources, expires : BOOLEAN, source : Sources \cup {None}]
    /\ PdPrefixes \subseteq Sources
    /\ NaAddrs \subseteq Sources
    /\ None \notin Leases \cup Adverts \cup Sources
    /\ None \notin [gateway : Sources, expires : BOOLEAN]
    /\ NoFrom \notin Sources
    /\ Reach \in [Links -> SUBSET BOOLEAN]
    /\ Reasons \subseteq {"BOUND", "EXPIRE", "ROUTERADVERT", "BOUND6",
                           "EXPIRE6", "RECONFIGURE"}
    /\ AdminSignals \subseteq {"TERM", "HUP", "USR2"}
    /\ LoadOutcomes \subseteq {"ok", "exit", "raise"}

VARIABLES
    file,       \* the state files of each uplink
    hookUplink, \* the uplink whose exit hook is running, or None
    hookOps,    \* what that hook still does to the files before it signals
    running,    \* _running
    pending,    \* the signal flags that are set
    pc,         \* where the daemon's thread is
    task,       \* the work it is doing
    cur,        \* the uplink the pass is at
    changed,    \* the families of cur whose health this cycle changed
    anyIpv6,    \* any_ipv6_change of the cycle
    action,     \* the action regenerate_all was called with
    saw,        \* state files already read for cur
    link,       \* _states
    inst,       \* _installed
    kern,       \* the kernel's routes and rules
    policy,     \* the global policy rules, and the flags that track them
    primary,    \* _primary_ipv4, _primary_ipv6
    conf,       \* the radvd configuration files
    loaded,     \* what each radvd instance has loaded
    due,        \* monitor.interval has passed since the last cycle began
    wan         \* per link, the last two wan events since its state was
                \* reset to UP, or "none"

filesVars  == << file, hookUplink, hookOps >>
signalVars == << running, pending >>
cycleVars  == << changed, anyIpv6 >>
kernelVars == << inst, kern, policy >>
radvdVars  == << conf, loaded >>
vars == << file, hookUplink, hookOps, running, pending, pc, task, cur,
           changed, anyIpv6, action, saw, link, inst, kern, policy, primary,
           conf, loaded, due, wan >>

FileKinds == {"v4", "ra", "pd", "na"}
NoSaw == [ra |-> None, pd |-> None]

IsUp(u, f) == link[<< u, f >>].state = "up"
UpLinks(l, f) == {u \in Uplinks : l[<< u, f >>].state = "up"}
Routes(u) == [inst |-> inst[u], kern |-> kern[u]]

-----------------------------------------------------------------------------
\* wan-up and wan-down events.

Fire(w, u, f, state) ==
    [w EXCEPT ![<< u, f >>] =
        << @[2], IF state = "up" THEN "wan-up" ELSE "wan-down" >>]

\* Mutant: a forced transition is not announced.
MutForced(w, u, f, gone) == w

\* _force_link_down announces the transition itself.
Forced(w, u, f, gone) == IF gone THEN Fire(w, u, f, "down") ELSE w

\* A start and a reload reset every link to UP and fire no wan event for it.
NoWan == [l \in Links |-> << "none", "none" >>]

-----------------------------------------------------------------------------
\* The dhcpcd exit hook.  dhcpcd runs one at a time.

Write(k, c) == [kind |-> k, content |-> c]
Remove(k)   == [kind |-> k, content |-> None]

\* One of S, then one of T.
Joined(S, T) == {s \o t : s \in S, t \in T}

\* The writes of each handler; an absent variable group writes nothing.
Ipv4BoundOps == {<< >>} \cup {<< Write("v4", l) >> : l \in Leases}

RouterAdvertOps(u) ==
    {<< >>} \cup {<< Write("ra", a) >> : a \in IF u \in V6Uplinks
                                              THEN Adverts ELSE {}}

PdOps(u) ==
    {<< >>} \cup {<< Write("pd", p) >> : p \in IF u \in PdUplinks
                                              THEN PdPrefixes ELSE {}}

NaOps(u) == {<< Write("na", a) >> : a \in IF u \in NaUplinks
                                         THEN NaAddrs ELSE {}}

\* A missing IA_NA address removes the file, except in a reconfigure.
NoNaOps(reconfigure) ==
    IF reconfigure THEN << >> ELSE << Remove("na") >>

Ipv6BoundOps(u, reconfigure) ==
    IF u \notin V6Uplinks THEN {<< >>}
    ELSE Joined(PdOps(u), NaOps(u) \cup {NoNaOps(reconfigure)})

ReconfigureOps(u) ==
    Joined(Joined(Ipv4BoundOps, RouterAdvertOps(u)), Ipv6BoundOps(u, TRUE))

Expire4Ops == << Remove("v4") >>
Expire6Ops == << Remove("ra"), Remove("pd"), Remove("na") >>

\* The file operations a hook run for each reason of dhcpcd can make.
HookOps(u, reason) ==
    CASE reason = "BOUND"        -> Ipv4BoundOps
      [] reason = "EXPIRE"       -> {Expire4Ops}
      [] reason = "ROUTERADVERT" -> RouterAdvertOps(u)
      [] reason = "BOUND6"       -> Ipv6BoundOps(u, FALSE)
      [] reason = "EXPIRE6"      -> {Expire6Ops}
      [] reason = "RECONFIGURE"  -> ReconfigureOps(u)

\* EXPIRE6 of an uplink without IPv6 returns at once, without a signal.
HookStart(u) ==
    /\ hookUplink = None
    /\ \E reason \in Reasons :
         /\ reason = "EXPIRE6" => u \in V6Uplinks
         /\ hookOps' \in HookOps(u, reason)
    /\ hookUplink' = u
    /\ UNCHANGED << file, signalVars, pc, task, cur, cycleVars, action, saw,
                    link, kernelVars, primary, radvdVars, due, wan >>

HookWrite ==
    /\ hookUplink # None
    /\ hookOps # << >>
    /\ LET op == Head(hookOps)
       IN  file' = [file EXCEPT ![hookUplink][op.kind] = op.content]
    /\ hookOps' = Tail(hookOps)
    /\ UNCHANGED << hookUplink, signalVars, pc, task, cur, cycleVars, action,
                    saw, link, kernelVars, primary, radvdVars, due, wan >>

\* Mutant: the PID file appears only after the first pass.
MutListening == pc # "off" /\ task # "boot"

\* _signal_daemon: without a PID file nobody is signalled.
Listening == pc # "off"

HookSignal ==
    /\ hookUplink # None
    /\ hookOps = << >>
    /\ hookUplink' = None
    /\ pending' = IF Listening THEN pending \cup {"reconcile"} ELSE pending
    /\ UNCHANGED << file, hookOps, running, pc, task, cur, cycleVars, action,
                    saw, link, kernelVars, primary, radvdVars, due, wan >>

-----------------------------------------------------------------------------
\* The administrator's signals, time, and the kernel.

HandleTerm ==
    /\ "TERM" \in AdminSignals
    /\ pc # "off"
    /\ running' = FALSE
    /\ UNCHANGED << filesVars, pending, pc, task, cur, cycleVars, action, saw,
                    link, kernelVars, primary, radvdVars, due, wan >>

HandleSignal(signal, flag) ==
    /\ signal \in AdminSignals
    /\ pc # "off"
    /\ pending' = pending \cup {flag}
    /\ UNCHANGED << filesVars, running, pc, task, cur, cycleVars, action, saw,
                    link, kernelVars, primary, radvdVars, due, wan >>

HandleHup  == HandleSignal("HUP", "reload")
HandleUsr2 == HandleSignal("USR2", "sighup")

IntervalPasses ==
    /\ pc # "off"
    /\ ~due
    /\ due' = TRUE
    /\ UNCHANGED << filesVars, signalVars, pc, task, cur, cycleVars, action,
                    saw, link, kernelVars, primary, radvdVars, wan >>

\* A route installed with a lifetime goes when the kernel's timer runs out.
RouteExpires(u) ==
    /\ kern[u].route6 # None
    /\ kern[u].route6.expires
    /\ kern' = [kern EXCEPT ![u].route6 = None]
    /\ UNCHANGED << filesVars, signalVars, pc, task, cur, cycleVars, action,
                    saw, link, inst, policy, primary, radvdVars, due, wan >>

-----------------------------------------------------------------------------
\* Start.  The PID file is written before any state file is read.

Start ==
    /\ pc = "off"
    /\ running' = TRUE
    /\ pending' = {}
    /\ link' = [l \in Links |-> NewLink]
    /\ inst' = [u \in Uplinks |-> NoInst]
    /\ primary' = [ipv4 |-> None, ipv6 |-> None]
    /\ due' = TRUE
    /\ wan' = NoWan
    /\ pc' = "setup"
    /\ task' = "boot"
    /\ UNCHANGED << filesVars, cur, cycleVars, action, saw, kern, policy,
                    conf, loaded >>

SetupRules(r) ==
    [u \in Uplinks |-> IF u \in PdUplinks THEN SetupMacvlanRules(r[u])
                                          ELSE r[u]]

SetRoutes(r) ==
    /\ inst' = [u \in Uplinks |-> r[u].inst]
    /\ kern' = [u \in Uplinks |-> r[u].kern]

AllRoutes == [u \in Uplinks |-> Routes(u)]

TornDown == [u \in Uplinks |-> Teardown(Routes(u), u \in V6Uplinks)]

\* After _teardown_all and _init_states nothing is remembered as installed.
Forgotten(r) == [u \in Uplinks |-> [inst |-> NoInst, kern |-> r[u].kern]]

Setup ==
    /\ pc = "setup"
    /\ policy' = TRUE
    /\ SetRoutes(SetupRules(AllRoutes))
    /\ pc' = "v4"
    /\ cur' = 0
    /\ UNCHANGED << filesVars, signalVars, task, cycleVars, action, saw,
                    link, primary, radvdVars, due, wan >>

-----------------------------------------------------------------------------
\* The main loop.

\* _cleanup, up to the radvd configurations.
CleanUp ==
    /\ SetRoutes(TornDown)
    /\ policy' = FALSE
    /\ pc' = "regen"
    /\ task' = "stop"
    /\ cur' = 0
    /\ action' = "sighup"
    /\ UNCHANGED << filesVars, running, cycleVars, saw, link, primary,
                    radvdVars, due, wan >>

Stop ==
    /\ pc = "loop"
    /\ ~running
    /\ CleanUp
    /\ UNCHANGED pending

\* Mutant: _running is not looked at before the loop goes on.
MutNoReload ==
    /\ pc = "loop"
    /\ "reload" \notin pending
    /\ pc' = "hup"
    /\ UNCHANGED << filesVars, signalVars, task, cur, cycleVars, action, saw,
                    link, kernelVars, primary, radvdVars, due, wan >>

NoReload ==
    /\ pc = "loop"
    /\ running
    /\ "reload" \notin pending
    /\ pc' = "hup"
    /\ UNCHANGED << filesVars, signalVars, task, cur, cycleVars, action, saw,
                    link, kernelVars, primary, radvdVars, due, wan >>

ReloadBegins(outcome) ==
    /\ pc = "loop"
    /\ running
    /\ "reload" \in pending
    /\ outcome \in LoadOutcomes
    /\ pending' = pending \ {"reload"}

\* The new configuration has the same uplinks and options.
ReloadOk ==
    /\ ReloadBegins("ok")
    /\ SetRoutes(SetupRules(Forgotten(TornDown)))
    /\ policy' = TRUE
    /\ link' = [l \in Links |-> NewLink]
    /\ wan' = NoWan
    /\ pc' = "v4"
    /\ task' = "reload"
    /\ cur' = 0
    /\ UNCHANGED << filesVars, running, cycleVars, action, saw, primary,
                    radvdVars, due >>

\* load_config calls sys.exit: the old configuration stays.
ReloadRejected ==
    /\ ReloadBegins("exit")
    /\ pc' = "hup"
    /\ UNCHANGED << filesVars, running, task, cur, cycleVars, action, saw,
                    link, kernelVars, primary, radvdVars, due, wan >>

\* load_config raises (int() of a malformed number): nothing catches it.
ReloadRaises ==
    /\ ReloadBegins("raise")
    /\ CleanUp

TestSighup ==
    /\ pc = "hup"
    /\ IF "sighup" \in pending
       THEN /\ pending' = pending \ {"sighup"}
            /\ pc' = "regen"
            /\ task' = "hup"
            /\ cur' = 0
            /\ action' = "sighup"
       ELSE /\ pc' = "recon"
            /\ UNCHANGED << pending, task, cur, action >>
    /\ UNCHANGED << filesVars, running, cycleVars, saw, link, kernelVars,
                    primary, radvdVars, due, wan >>

\* The flag is cleared before anything is read.
TestReconcile ==
    /\ pc = "recon"
    /\ IF "reconcile" \in pending
       THEN /\ pending' = pending \ {"reconcile"}
            /\ pc' = "v4"
            /\ task' = "reconcile"
            /\ cur' = 0
       ELSE /\ pc' = "probe"
            /\ UNCHANGED << pending, task, cur >>
    /\ UNCHANGED << filesVars, running, cycleVars, action, saw, link,
                    kernelVars, primary, radvdVars, due, wan >>

TestProbe ==
    /\ pc = "probe"
    /\ IF due
       THEN /\ due' = FALSE
            /\ pc' = "update"
            /\ task' = "cycle"
            /\ cur' = 0
       ELSE /\ pc' = "sleep"
            /\ UNCHANGED << due, task, cur >>
    /\ UNCHANGED << filesVars, signalVars, cycleVars, action, saw, link,
                    kernelVars, primary, radvdVars, wan >>

\* Mutant: a signal that wakes the daemon restarts the probe timer.
MutWake ==
    /\ pc = "sleep"
    /\ ~running \/ pending # {} \/ due
    /\ pc' = "loop"
    /\ due' = (due /\ pending = {})
    /\ UNCHANGED << filesVars, signalVars, task, cur, cycleVars, action, saw,
                    link, kernelVars, primary, radvdVars, wan >>

Wake ==
    /\ pc = "sleep"
    /\ ~running \/ pending # {} \/ due
    /\ pc' = "loop"
    /\ UNCHANGED << filesVars, signalVars, task, cur, cycleVars, action, saw,
                    link, kernelVars, primary, radvdVars, due, wan >>

-----------------------------------------------------------------------------
\* One uplink of a pass.  A cycle visits every uplink with "update" and
\* reconciles the families that changed; any other pass reconciles both.

\* Mutant: one uplink too many.
MutNextUplink(any) ==
    IF cur + 1 =< N
    THEN /\ pc' = IF task = "cycle" THEN "update" ELSE "v4"
         /\ cur' = cur + 1
    ELSE /\ pc' = IF task = "cycle" /\ any THEN "regen" ELSE "primary"
         /\ cur' = 0

\* The next uplink, or what follows the last one.
NextUplink(any) ==
    IF cur + 1 < N
    THEN /\ pc' = IF task = "cycle" THEN "update" ELSE "v4"
         /\ cur' = cur + 1
    ELSE /\ pc' = IF task = "cycle" /\ any THEN "regen" ELSE "primary"
         /\ cur' = 0

WantsIpv6(c) == cur \in V6Uplinks /\ (task = "cycle" => "ipv6" \in c)

UpdatedLinks(ok4, ok6) ==
    [l \in Links |->
        IF l = << cur, "ipv4" >> THEN UpdateLink(link[l], ok4)
        ELSE IF l = << cur, "ipv6" >> /\ cur \in V6Uplinks
             THEN UpdateLink(link[l], ok6)
        ELSE link[l]]

UpdateState ==
    /\ pc = "update"
    /\ \E ok4 \in Reach[<< cur, "ipv4" >>], ok6 \in Reach[<< cur, "ipv6" >>] :
         LET new == UpdatedLinks(ok4, ok6)
             chg == {f \in Families :
                       new[<< cur, f >>].state # link[<< cur, f >>].state}
             any == anyIpv6 \/ "ipv6" \in chg
         IN  /\ link' = new
             /\ changed' = chg
             /\ anyIpv6' = any
             /\ CASE "ipv4" \in chg -> pc' = "v4" /\ UNCHANGED cur
                  [] chg = {"ipv6"} -> pc' = "ra" /\ UNCHANGED cur
                  [] chg = {}       -> NextUplink(any)
    /\ action' = IF pc' = "regen" THEN "sighup" ELSE action
    /\ UNCHANGED << filesVars, signalVars, task, saw, kernelVars, primary,
                    radvdVars, due, wan >>

\* The lease is gone while the link was up.
Ipv4Gone(u) == file[u]["v4"] = None /\ IsUp(u, "ipv4")

ReconcileUplinkIpv4 ==
    /\ pc = "v4"
    /\ LET l    == << cur, "ipv4" >>
           gone == Ipv4Gone(cur)
           new  == IF gone THEN [link EXCEPT ![l] = ForceDown(@)] ELSE link
           r    == ReconcileIpv4(Routes(cur), file[cur]["v4"],
                                 new[l].state = "up")
           told == Forced(wan, cur, "ipv4", gone)
       IN  /\ link' = new
           /\ inst' = [inst EXCEPT ![cur] = r.inst]
           /\ kern' = [kern EXCEPT ![cur] = r.kern]
           /\ wan' = IF task = "cycle"
                     THEN Fire(told, cur, "ipv4", new[l].state) ELSE told
    /\ IF WantsIpv6(changed) THEN pc' = "ra" /\ UNCHANGED cur
                             ELSE NextUplink(anyIpv6)
    /\ action' = IF pc' = "regen" THEN "sighup" ELSE action
    /\ UNCHANGED << filesVars, signalVars, task, cycleVars, saw, policy,
                    primary, radvdVars, due >>

\* The three IPv6 state files are read one after the other.
ReadRa ==
    /\ pc = "ra"
    /\ saw' = [saw EXCEPT !.ra = file[cur]["ra"]]
    /\ pc' = "pd"
    /\ UNCHANGED << filesVars, signalVars, task, cur, cycleVars, action, link,
                    kernelVars, primary, radvdVars, due, wan >>

ReadPd ==
    /\ pc = "pd"
    /\ saw' = [saw EXCEPT !.pd = file[cur]["pd"]]
    /\ pc' = "na"
    /\ UNCHANGED << filesVars, signalVars, task, cur, cycleVars, action, link,
                    kernelVars, primary, radvdVars, due, wan >>

\* Every file was absent when it was read, while the link was up.
Ipv6Gone(ra, pd, na) ==
    /\ ra = None /\ pd = None /\ na = None
    /\ IsUp(cur, "ipv6")

ReconcileUplinkIpv6 ==
    /\ pc = "na"
    /\ LET l    == << cur, "ipv6" >>
           na   == file[cur]["na"]
           gone == Ipv6Gone(saw.ra, saw.pd, na)
           new  == IF gone THEN [link EXCEPT ![l] = ForceDown(@)] ELSE link
           r    == ReconcileIpv6(Routes(cur), saw.ra, saw.pd, na,
                                 new[l].state = "up")
           told == Forced(wan, cur, "ipv6", gone)
       IN  /\ link' = new
           /\ inst' = [inst EXCEPT ![cur] = r.inst]
           /\ kern' = [kern EXCEPT ![cur] = r.kern]
           /\ wan' = IF task = "cycle"
                     THEN Fire(told, cur, "ipv6", new[l].state) ELSE told
    /\ saw' = NoSaw
    /\ NextUplink(anyIpv6)
    /\ action' = IF pc' = "regen" THEN "sighup" ELSE action
    /\ UNCHANGED << filesVars, signalVars, task, cycleVars, policy, primary,
                    radvdVars, due >>

-----------------------------------------------------------------------------
\* After the last uplink.

\* Mutant: the IPv4 primary by the order of the configuration.
MutPrimaryIpv4Of(up) ==
    IF up = {} THEN None ELSE CHOOSE u \in up : \A v \in up : u =< v

PrimaryIpv4Of(up) ==
    IF up = {} THEN None
    ELSE CHOOSE u \in up : \A v \in up : Metric[u] =< Metric[v]

PrimaryIpv6Of(up) ==
    IF PdUplinks \cap up = {} THEN None
    ELSE CHOOSE u \in PdUplinks : IsPrimaryIpv6(u, up)

\* _do_reconcile signals radvd or only writes, by the time since the last
\* SIGHUP and the lifetimes left; both can be anything.
RadvdAction == IF task = "reconcile" THEN {"sighup", "write"} ELSE {"none"}

UpdatePrimaryUplinks ==
    /\ pc = "primary"
    /\ primary' = [ipv4 |-> PrimaryIpv4Of(UpLinks(link, "ipv4")),
                   ipv6 |-> PrimaryIpv6Of(UpLinks(link, "ipv6"))]
    /\ pc' = CASE task = "boot"      -> "loop"
               [] task = "reload"    -> "hup"
               [] task = "reconcile" -> "regen"
               [] task = "cycle"     -> "sleep"
    /\ task' = IF task = "reconcile" THEN task ELSE "idle"
    /\ action' \in RadvdAction
    /\ due' = (due \/ task = "reload")
    /\ changed' = {}
    /\ anyIpv6' = FALSE
    /\ UNCHANGED << filesVars, signalVars, cur, saw, link, kernelVars,
                    radvdVars, wan >>

\* Mutant: cleanup passes the current health.
MutAdvertised == UpLinks(link, "ipv6")

\* Mutant: the radvd of an uplink that is down is not signalled.
MutLoadedAfter(c) ==
    IF action = "sighup" /\ IsUp(cur, "ipv6")
    THEN [loaded EXCEPT ![cur] = c] ELSE loaded

\* A radvd instance loads its file when it is sent SIGHUP.
LoadedAfter(c) ==
    IF action = "sighup" THEN [loaded EXCEPT ![cur] = c] ELSE loaded

\* regenerate_all: the uplinks regarded as up.  Cleanup passes all of them.
Advertised ==
    IF task = "stop" THEN Uplinks ELSE UpLinks(link, "ipv6")

RegenerateUplink ==
    /\ pc = "regen"
    /\ IF cur \in PdUplinks
       THEN \E left \in LifetimeLeft(file[cur]["ra"], None) :
              LET c == ConfFor(cur, Advertised, file[cur]["pd"], left)
              IN  /\ conf' = [conf EXCEPT ![cur] = c]
                  /\ loaded' = LoadedAfter(c)
       ELSE UNCHANGED << conf, loaded >>
    /\ IF cur + 1 < N
       THEN /\ cur' = cur + 1
            /\ UNCHANGED << running, pending, pc, task, action >>
       ELSE /\ cur' = 0
            /\ pc' = CASE task = "hup"       -> "recon"
                       [] task = "reconcile" -> "probe"
                       [] task = "cycle"     -> "primary"
                       [] task = "stop"      -> "off"
            /\ task' = IF task = "cycle" THEN task ELSE "idle"
            /\ action' = "none"
            /\ running' = (running /\ task # "stop")
            /\ pending' = IF task = "stop" THEN {} ELSE pending
    /\ UNCHANGED << filesVars, cycleVars, saw, link, kernelVars, primary,
                    due, wan >>

-----------------------------------------------------------------------------
Init ==
    /\ file = [u \in Uplinks |-> [k \in FileKinds |-> None]]
    /\ hookUplink = None
    /\ hookOps = << >>
    /\ running = FALSE
    /\ pending = {}
    /\ pc = "off"
    /\ task = "idle"
    /\ cur = 0
    /\ changed = {}
    /\ anyIpv6 = FALSE
    /\ action = "none"
    /\ saw = NoSaw
    /\ link = [l \in Links |-> NewLink]
    /\ inst = [u \in Uplinks |-> NoInst]
    /\ kern = [u \in Uplinks |-> NoKern]
    /\ policy = FALSE
    /\ primary = [ipv4 |-> None, ipv6 |-> None]
    /\ conf = [u \in PdUplinks |-> InitialConf(None)]
    /\ loaded = [u \in PdUplinks |-> InitialConf(None)]
    /\ due = TRUE
    /\ wan = NoWan

Hook == (\E u \in Uplinks : HookStart(u)) \/ HookWrite \/ HookSignal

Environment ==
    \/ HandleTerm \/ HandleHup \/ HandleUsr2
    \/ IntervalPasses
    \/ \E u \in Uplinks : RouteExpires(u)

\* One step of the daemon's thread.
Thread ==
    \/ Setup
    \/ Stop \/ NoReload \/ ReloadOk \/ ReloadRejected \/ ReloadRaises
    \/ TestSighup \/ TestReconcile \/ TestProbe \/ Wake
    \/ UpdateState \/ ReconcileUplinkIpv4
    \/ ReadRa \/ ReadPd \/ ReconcileUplinkIpv6
    \/ UpdatePrimaryUplinks \/ RegenerateUplink

Next == Hook \/ Environment \/ Start \/ Thread

Spec == Init /\ [][Next]_vars

(***************************************************************************)
(* The thread keeps running, a hook once started finishes, and time passes.*)
(* Nothing obliges dhcpcd or the administrator to act.                     *)
(***************************************************************************)
Fairness ==
    /\ WF_vars(Thread)
    /\ WF_vars(HookWrite \/ HookSignal)
    /\ WF_vars(IntervalPasses)

FairSpec == Spec /\ Fairness
=============================================================================

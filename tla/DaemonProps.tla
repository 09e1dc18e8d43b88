---------------------------- MODULE DaemonProps -----------------------------
(***************************************************************************)
(* What the daemon promises, as properties of module Daemon.               *)
(***************************************************************************)
EXTENDS Daemon

FileOK(u) ==
    /\ file[u]["v4"] \in Leases \cup {None}
    /\ file[u]["ra"] \in Adverts \cup {None}
    /\ file[u]["pd"] \in PdPrefixes \cup {None}
    /\ file[u]["na"] \in NaAddrs \cup {None}

InstOK(i) ==
    /\ i.gateway \in Sources \cup {None}
    /\ i.addr \in Sources \cup {None}
    /\ i.route6 \in BOOLEAN
    /\ i.lo \in Sources \cup {None}
    /\ i.pdLo \in Sources \cup {None}
    /\ i.fwd \in Sources \cup {NoFrom, None}
    /\ i.prohibit \in BOOLEAN

\* Every variable holds a value of its kind.
TypeOK ==
    /\ \A u \in Uplinks : FileOK(u) /\ InstOK(inst[u])
    /\ hookUplink \in Uplinks \cup {None}
    /\ running \in BOOLEAN
    /\ pending \subseteq {"reload", "sighup", "reconcile"}
    /\ pc \in {"off", "setup", "loop", "hup", "recon", "probe", "update",
               "v4", "ra", "pd", "na", "primary", "regen", "sleep"}
    /\ task \in {"idle", "boot", "reload", "hup", "reconcile", "cycle",
                 "stop"}
    /\ cur \in Uplinks
    /\ changed \subseteq Families
    /\ anyIpv6 \in BOOLEAN
    /\ action \in {"none", "sighup", "write"}
    /\ saw.ra \in Adverts \cup {None}
    /\ saw.pd \in PdPrefixes \cup {None}
    /\ link \in [Links -> Link]
    /\ policy \in BOOLEAN
    /\ primary.ipv4 \in Uplinks \cup {None}
    /\ primary.ipv6 \in PdUplinks \cup {None}
    /\ due \in BOOLEAN

-----------------------------------------------------------------------------
\* The bookkeeping and the kernel.

\* No route or rule is ever orphaned or installed twice: after any sequence
\* of passes, reloads, stops and starts the kernel holds exactly what
\* _installed says, so the next pass or teardown can find and remove it
\* (_reconcile_uplink_ipv4/6, _reconcile_macvlan_rules, _teardown_all).
KernelTracked == \A u \in Uplinks : Tracked(inst[u], kern[u])

\* A daemon that stopped by itself left no route and no rule behind
\* (_cleanup, _teardown_all).
CleanExit ==
    pc = "off" => ~policy /\ \A u \in Uplinks : kern[u] = NoKern

\* Traffic of a client network always has its forwarding rule while the
\* daemon works, and a prohibit rule never stands without a forwarding rule
\* narrowed to a prefix in front of it: it would reject all of that traffic
\* (_setup_ipv6_macvlan_rules, _reconcile_macvlan_rules).
ForwardingKept ==
    /\ pc \notin {"off", "setup"} /\ task # "stop" =>
         \A u \in PdUplinks : Len(kern[u].fwd) = 1
    /\ \A u \in Uplinks : kern[u].prohibit # << >> =>
         \E x \in PdPrefixes : kern[u].fwd = << x >>

-----------------------------------------------------------------------------
\* Quiescent states.  The daemon sleeps, no flag is set, no hook is under way.

Idle == pc = "sleep" /\ pending = {} /\ hookUplink = None

Settled4(u) ==
    LET lease == file[u]["v4"]
        up    == IsUp(u, "ipv4")
    IN  /\ lease = None => ~up
        /\ kern[u].shared = WantGateway(lease, up)
        /\ kern[u].own = WantGateway(lease, up)
        /\ kern[u].addr = Slot(WantAddr(lease, up))

RouteFollows(k, ra) ==
    \/ ra = None /\ k.route6 = None
    \/ ra # None /\ k.route6 = Route6(ra)
    \/ ra # None /\ ra.expires /\ k.route6 = None

Settled6(u) ==
    LET f  == file[u]
        up == IsUp(u, "ipv6")
    IN  /\ f["ra"] = None /\ f["pd"] = None /\ f["na"] = None => ~up
        /\ RouteFollows(kern[u], f["ra"])
        /\ kern[u].lo = Slot(WantSource(f["ra"], f["na"], up))
        /\ kern[u].pdLo = Slot(WantPdSource(f["pd"], up))
        /\ f["pd"] # None => kern[u].fwd = << WantFwd(f["pd"]) >>
        /\ kern[u].prohibit =
             IF f["pd"] # None /\ RejectWrongPdSrc THEN << NoFrom >> ELSE << >>

\* No lease event is lost, whenever it came: once the daemon sleeps with
\* nothing signalled, the IPv4 routes and rules are those of the state files
\* and the health, and an uplink without lease is down (the flag is cleared
\* before the files are read; the hook writes before it signals).
NoLostUpdate4 == Idle => \A u \in Uplinks : Settled4(u)

\* The same for IPv6, whose three files are read at three moments.
NoLostUpdate6 == Idle => \A u \in V6Uplinks : Settled6(u)

\* Whoever listens to the event hooks from a start or a reload on, which make
\* every link UP and fire no wan event for it, knows the health of every
\* link: a link that is down was announced last by wan-down, forced or
\* probed, and one that is up by wan-up or not at all since.  What was
\* announced before the reload counts for nothing: a listener that was told
\* wan-down then is not told that the link is up again (_fire_wan_event,
\* _force_link_down, _do_reload).
HooksInformed ==
    Idle => \A l \in Links :
              link[l].state = "down" <=> wan[l][2] = "wan-down"

\* The primary uplinks announced are the preferred ones among those up, by
\* metric for IPv4 and by configuration order for IPv6, also after a link
\* was forced down (_update_primary_uplinks).
PrimaryIsBest ==
    Idle =>
      /\ IF UpLinks(link, "ipv4") = {} THEN primary.ipv4 = None
         ELSE /\ primary.ipv4 \in UpLinks(link, "ipv4")
              /\ \A v \in UpLinks(link, "ipv4") :
                   Metric[primary.ipv4] =< Metric[v]
      /\ IF UpLinks(link, "ipv6") \cap PdUplinks = {}
         THEN primary.ipv6 = None
         ELSE IsPrimaryIpv6(primary.ipv6, UpLinks(link, "ipv6"))

-----------------------------------------------------------------------------
\* Health.

H(l) == INSTANCE Hysteresis WITH health <- link[l].state,
                                 against <- Against(link[l])

Restarts == pc \in {"off", "loop"} /\ pc' \in {"setup", "v4"}

HealthStep ==
    \A l \in Links : \/ [H(l)!Next]_(link[l])
                     \/ Restarts /\ link'[l] = NewLink

\* Whatever the daemon does between two cycles, each link's health follows
\* its hysteresis: only a start or a reload makes it up at once, and a fresh
\* lease never does (sm_update, _force_link_down, _init_states).
HealthByHysteresis == [][HealthStep]_vars

-----------------------------------------------------------------------------
\* radvd.

Matches(c) ==
    \A u \in PdUplinks :
      /\ c[u].preference = PreferenceFor(u, UpLinks(link, "ipv6"))
      /\ c[u].lifetimes = LifetimesFor(u, UpLinks(link, "ipv6"))

\* When a cycle changed an IPv6 health, every radvd instance has loaded the
\* tiers of the new one before the cycle ends, also those of the uplinks
\* whose own health did not change (_run_cycle, regenerate_all).
CycleReachesRadvd ==
    pc = "primary" /\ task = "cycle" /\ anyIpv6 => Matches(loaded)

\* The uplinks whose radvd is a default router for the clients, and those
\* that would be one if the lifetime of their upstream router were not 0.
Routers(c) == {u \in PdUplinks : c[u].router}
RanOut(c) == {u \in PdUplinks : c[u].lifetimes = "live" /\ ~c[u].router}

\* The instances are signalled one after the other, and a SIGHUP takes from
\* the clients the last router whose uplink is up only if the primary uplink
\* (of all uplinks, for a stopping daemon, which takes each for UP) has no
\* router lifetime left to offer and its radvd has been told so.  So, under
\* exclusive_preferred_pd, when an uplink of higher rank is back, its router
\* comes before the old one goes, unless the upstream advertisement of that
\* uplink has run out or is stored with lifetime 0: then the old one goes for
\* nothing (the order of regenerate_all).
NoGap ==
    [][Routers(loaded) # {} /\ Routers(loaded') = {} =>
         \A u \in Routers(loaded) :
           IsUp(u, "ipv6") =>
             \E v \in RanOut(loaded') : IsPrimaryIpv6(v, Advertised)]_vars

LeavesAdvertising ==
    pc # "off" /\ pc' = "off" =>
      \A u \in PdUplinks : /\ loaded'[u] = conf'[u]
                           /\ loaded'[u].preference # "low"
                           /\ loaded'[u].lifetimes # "withdrawn"

\* A stopping daemon leaves every radvd instance advertising, whatever the
\* health was: not by the lowest preference and not with every lifetime
\* zeroed, although an upstream lifetime that has run out stays 0 (_cleanup).
StopsAdvertising == [][LeavesAdvertising]_vars

-----------------------------------------------------------------------------
\* What the documents say and the code does not do.

\* SPEC.md 5.4.4: a wan event is fired once per transition, so two in a row
\* are never the same (_run_cycle, _force_link_down).
OncePerTransition ==
    \A l \in Links : wan[l][1] = wan[l][2] => wan[l][2] = "none"

\* README.md, "Event hooks": wan-up and wan-down tell of an uplink's
\* reachability flipping.  A reload flips it back to UP without wan-up; when
\* "reload" is fired, behind the forced wan-downs of the reload's own pass, it
\* does not tell which links that leaves down (_do_reload, _init_states).
FlipsAreTold ==
    [][\A l \in Links : link'[l].state # link[l].state =>
                          pc \in {"off", "update", "v4", "na"}]_vars

\* SPEC.md 16.1: the daemon does not deprovision uplinks at startup
\* (run, _reconcile_all).
NoDeprovisionAtStart == [][task = "boot" => link' = link]_vars

\* SPEC.md 5.3.5: radvd gets SIGHUP when an uplink's state changes.  After
\* the pass that forced a link down, radvd advertises it as down
\* (_do_reconcile).
ForcedDownReachesRadvd ==
    [][pc = "regen" /\ task = "reconcile" /\ pc' = "probe" =>
         \A u \in PdUplinks :
           ~IsUp(u, "ipv6") => loaded'[u].preference = "low"]_vars

\* SPEC.md 9.6: under exclusive_preferred_pd the first UP uplink is visible to
\* clients as a default router, alone.  If the lifetime of its upstream router
\* is 0 there is none, for the others are withdrawn all the same
\* (regenerate_all).
PrimaryIsRouter ==
    pc = "primary" /\ task = "cycle" /\ anyIpv6 =>
      \A u \in PdUplinks :
        IsPrimaryIpv6(u, UpLinks(link, "ipv6")) => u \in Routers(loaded)

\* SPEC.md 5.4.4: when a reload finishes, the radvd configurations are
\* reconciled (_do_reload).
ReloadReconcilesRadvd ==
    [][pc = "primary" /\ task = "reload" => Matches(conf')]_vars

\* daemon.py:204: a reload that fails keeps the existing configuration; the
\* daemon goes away only when it is asked to (_do_reload, config.load).
StopsOnlyWhenAsked == [][pc # "off" /\ pc' = "off" => ~running]_vars

-----------------------------------------------------------------------------
\* Liveness, under FairSpec.

\* A stop request ends the daemon, wherever it arrives (_handle_term).
StopsWhenAsked == (pc # "off" /\ ~running) ~> pc = "off"

\* An uplink that lost its lease loses its route, or gets a new lease, or
\* the daemon goes away.
LostLeaseWithdrawn ==
    \A u \in Uplinks :
      (file[u]["v4"] = None /\ pc # "off") ~>
        (kern[u].shared = None \/ file[u]["v4"] # None)

\* IPv6 is probed only where it is configured (_probe_uplink).
ProbedLinks == Uplinks \X {"ipv4"} \cup V6Uplinks \X {"ipv6"}

\* A link no probe of which succeeds is taken down although dhcpcd keeps
\* its lease (failure_threshold).
DeadLinkGoesDown ==
    \A l \in ProbedLinks :
      (Reach[l] = {FALSE} /\ pc # "off") ~>
        (link[l].state = "down" \/ pc = "off")
=============================================================================

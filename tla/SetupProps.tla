----------------------------- MODULE SetupProps -----------------------------
(***************************************************************************)
(* What uplinkmgr-setup promises, whatever earlier runs left behind.       *)
(***************************************************************************)
EXTENDS Setup

\* The last run finished and nothing in it failed.
Settled == cfg # None /\ todo = {} /\ clean

Names == UNION {Configured(c) : c \in Files}
Interfaces == UNION {{c.uplinks[i].interface : i \in DOMAIN c.uplinks} : c \in Files}
AllMacvlans ==
    UNION {UNION {Macvlans(c, u) : u \in 0 .. Len(c.uplinks) - 1} : c \in Files}

\* The uplink a configuration has on an interface.
OnInterface(c, i) ==
    LET owners == {k \in DOMAIN c.uplinks : c.uplinks[k].interface = i}
    IN  IF owners = {} THEN None ELSE c.uplinks[CHOOSE k \in owners : TRUE].name

TypeOK ==
    /\ \A p \in EnvPaths(disk) :
         /\ p[2] \in Names \cup Interfaces \cup AllMacvlans
         /\ IF IsLink(disk, p) THEN disk[p].to \in {Env(n) : n \in Names}
            ELSE disk[p].uplink \in Names /\ disk[p].wan \in Interfaces
    /\ enabled \subseteq Names /\ wants \subseteq Names
    /\ running \subseteq Names
    /\ cfg \in {c \in Files : Accepts(c)} \cup {None}
    /\ trouble \in 0 .. MaxTrouble

\* After a run that finished, and whatever runs were cut short before it, the
\* hook takes the events of every WAN interface for the uplink on it and
\* ignores those of every other interface, the macvlans included, whose files
\* it still finds.  (write_symlink, _remove_stale; dhcpcd-hook)
HookFindsUplink ==
    Settled =>
      /\ \A i \in Interfaces \cup AllMacvlans :
           Identify(disk, i) = OnInterface(cfg, i)
      /\ \A u \in PdIndices(cfg) :
           \A mv \in Macvlans(cfg, u) : Exists(disk, Env(mv))

\* After such a run nothing of an uplink that is no longer configured is left:
\* no env file, no dangling link, no radvd file, no unit.  (_remove_stale,
\* _disable_stale_radvd_units)
NothingStale ==
    Settled =>
      /\ {p[2] : p \in {q \in EnvPaths(disk) : ~IsLink(disk, q)}} =
           Configured(cfg)
      /\ \A p \in EnvPaths(disk) : Exists(disk, p)
      /\ \A p \in DOMAIN disk : p[1] = "radvd" => p[2] \in Configured(cfg)
      /\ enabled = Configured(cfg) /\ wants = Configured(cfg)
      /\ running \subseteq Configured(cfg)

\* The files of a finished run fit together: radvd advertises on macvlans that
\* ifupdown creates and dhcpcd gives a subnet to, and the prefix the daemon
\* derives for a macvlan is that subnet, whatever the length of the delegated
\* prefix; dhcpcd runs with them, no macvlan has the MAC address or the IAID
\* of another, and the tables are registered.  (generator.py, naming.py,
\* radvd.py _derive_prefixes)
FilesFit ==
    Settled =>
      LET ifaces == disk[InterfacesConf]
          delegated == disk[DhcpcdConf].macvlans
          distinct(S, F(_)) == \A a, b \in S : F(a) = F(b) => a = b
      IN  /\ dhcpcd = disk[DhcpcdConf]
          /\ distinct(ifaces, LAMBDA a : a.mac)
          /\ distinct(delegated, LAMBDA a : a.iaid)
          /\ \A u \in PdIndices(cfg) :
               /\ disk[RadvdConf(Uplink(cfg, u).name)] \subseteq
                    {a.name : a \in ifaces} \cap {a.name : a \in delegated}
               /\ \A length \in {48, 56, 62, 63, 64, 65} :
                    \A d \in derive_prefixes(cfg, u, length) :
                      \E a \in delegated :
                        /\ a.name = d.name /\ a.uplink = u /\ a.sla = d.sla
                        /\ \A b \in delegated :
                             b.uplink = u /\ b.sla = d.sla => b = a
          /\ {t.uplink : t \in disk[TablesConf]} = Configured(cfg) \cup {Unset}

\* Of the last run, or the one under way, no file and no link is still to come:
\* it has got as far as its restart of dhcpcd, and was not cut short.
PastFiles ==
    /\ todo # {} \/ clean
    /\ \A p \in todo : Order[p[1]] >= Order["restart"]

WansKnown(d, conf) ==
    \A w \in conf.wans : Identify(d, w.interface) = OnInterface(cfg, w.interface)

NotMisled ==
    /\ \A i \in Interfaces \cup AllMacvlans :
         Identify(disk', i) # Identify(disk, i) =>
           Identify(disk', i) \in {None, OnInterface(cfg', i)}
    /\ dhcpcd' # dhcpcd /\ PastFiles => WansKnown(disk, dhcpcd')

\* While a run is under way, and after one that was cut short, the hook never
\* comes to take an interface for an uplink that the configuration has on
\* another: it goes from the old uplink to the new one, or to none.  And when
\* dhcpcd comes to run with a new configuration once a run has got to its
\* restart of dhcpcd, be it by that restart, by systemd after a failure of
\* dhcpcd or by a reboot, the hook already knows every WAN interface dhcpcd
\* manages, so the leases it then brings are not ignored.  Before that, and
\* after a run cut short, it need not: see EveryStartKnown.
\* (dhcpcd-hook line 36; main: env files before services)
HookNeverMisled == [][NotMisled]_vars

\* SPEC.md 4.3: for an ipv6_pd: false uplink "no radvd config is generated and
\* no radvd instance is enabled".
RadvdOnlyForPd ==
    Settled =>
      \A k \in DOMAIN cfg.uplinks :
        ~cfg.uplinks[k].pd =>
          /\ RadvdConf(cfg.uplinks[k].name) \notin DOMAIN disk
          /\ cfg.uplinks[k].name \notin running

\* SPEC.md 4.3: the tables, "1 IPv4 table + one per uplink for IPv6", must not
\* overlap with numbers that others have registered; setup detects it.
TablesFree ==
    TablesConf \in DOMAIN disk =>
      {t.number : t \in disk[TablesConf]} \cap Foreign = {}

\* What one would like of main's order, env files before services: whenever
\* dhcpcd comes to run with a new configuration the hook knows its interfaces.
\* dhcpcd.conf is written before the env files, so it does not hold when
\* systemd starts dhcpcd in between, after a failure or, a run having been cut
\* short there, at a reboot; the hook ignores the leases it then gets
\* (dhcpcd-hook lines 31 and 35) until the next run.
EveryStartKnown == [][dhcpcd' # dhcpcd => WansKnown(disk, dhcpcd')]_vars
=============================================================================

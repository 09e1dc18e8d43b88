------------------------------- MODULE Setup --------------------------------
(***************************************************************************)
(* uplinkmgr-setup: the files it writes, links and removes and the units   *)
(* it touches, one system call at a time.  A run may be killed between any *)
(* two calls and any systemctl may fail; the next run, with the same or    *)
(* another configuration, works on what it finds.                          *)
(***************************************************************************)
EXTENDS Generator, FiniteSets, Functions

CONSTANTS
    Files,          \* the configurations setup is run with
    Foreign,        \* table numbers registered by somebody else
    None,           \* no uplink
    MaxTrouble      \* bound: kills and failing calls

VARIABLES
    disk,           \* path -> content; a link is [to |-> path]
    enabled, wants, \* radvd instances enabled, and wanted by the daemon
    running,        \* radvd instances that run
    dhcpcd,         \* the dhcpcd.conf dhcpcd runs with
    cfg,            \* the configuration of the last run
    todo,           \* the steps the run has left
    stale,          \* the list of units it has to stop and disable
    clean,          \* no call of the last run failed
    trouble         \* kills and failures so far

vars == << disk, enabled, wants, running, dhcpcd, cfg, todo, stale, clean,
           trouble >>

ASSUME FilesAssumption ==
    \A f \in Files :
        /\ Len(f.uplinks) \in Nat /\ Len(f.networks) \in Nat
        /\ DOMAIN f.uplinks = 1 .. Len(f.uplinks)

ASSUME MaxTroubleAssumption == MaxTrouble \in Nat

-----------------------------------------------------------------------------
\* Paths.  Uplinks, interfaces and macvlans share one directory.
Env(name) == << "env", name >>
RadvdConf(name) == << "radvd", name >>
InterfacesConf == << "interfaces" >>
DhcpcdConf == << "dhcpcd" >>
TablesConf == << "tables" >>

Uplink(c, u) == c.uplinks[u + 1]
Configured(c) == {c.uplinks[i].name : i \in DOMAIN c.uplinks}

EnvPaths(d) == {p \in DOMAIN d : p[1] = "env"}
IsLink(d, p) == "to" \in DOMAIN d[p]

Follow(d, p) == IF p \in EnvPaths(d) /\ IsLink(d, p) THEN d[p].to ELSE p

\* Where a chain of links ends; it is a link only if it goes round.  A chain
\* has a link for every uplink whose name is an interface's, and one more.
Resolve(d, p) == Follow(d, Follow(d, Follow(d, p)))

Exists(d, p) == Resolve(d, p) \in EnvPaths(d) /\ ~IsLink(d, Resolve(d, p))

\* The uplink the hook takes an event on interface i for: it sources i's file
\* and goes on if that names i.
Identify(d, i) ==
    LET file == Resolve(d, Env(i))
    IN  IF Exists(d, Env(i)) /\ d[file].wan = i THEN d[file].uplink ELSE None

-----------------------------------------------------------------------------
\* The steps of a run: the stage, the uplink or unit, and of those of an
\* uplink the file, link or call, and of a link the call.

\* Mutant: the services are restarted before the env files are there.
MutOrder ==
    [interfaces |-> 1, dhcpcd |-> 2, radvd |-> 3, tables |-> 4, env |-> 14,
     radvdSweep |-> 15, envSweep |-> 16, linkSweep |-> 17, enable |-> 9,
     restart |-> 10, start |-> 11, list |-> 12, stop |-> 13]

Order ==
    [interfaces |-> 1, dhcpcd |-> 2, radvd |-> 3, tables |-> 4, env |-> 5,
     radvdSweep |-> 6, envSweep |-> 7, linkSweep |-> 8, enable |-> 9,
     restart |-> 10, start |-> 11, list |-> 12, stop |-> 13]

Before(p, q) ==
    \/ Order[p[1]] < Order[q[1]]
    \/ /\ Order[p[1]] = Order[q[1]]
       /\ \/ p[2] < q[2]
          \/ p[2] = q[2] /\ p[3] < q[3]
          \/ p[2] = q[2] /\ p[3] = q[3] /\ p[4] < q[4]

\* The links to an uplink's env file: 1 from its interface, 2 and on from its
\* macvlans.
Links(c, u) ==
    {m \in 1 .. Len(c.networks) + 1 : m > 1 => Uplink(c, u).pd}

LinkName(c, u, m) ==
    IF m = 1 THEN Uplink(c, u).interface ELSE macvlan_name(c, m - 2, u)

\* The calls on uplinkmgr.service and daemon-reload change nothing here.
Plan(c) ==
    LET all == 0 .. Len(c.uplinks) - 1
    IN  {<< stage, 0, 0, 0 >> :
           stage \in {"interfaces", "dhcpcd", "tables", "radvdSweep",
                      "envSweep", "linkSweep", "restart", "list"}}
        \cup {<< "radvd", u, 0, 0 >> : u \in PdIndices(c)}
        \cup {<< stage, u, 0, 0 >> : stage \in {"env", "enable", "start"}, u \in all}
        \cup {<< "enable", u, 1, 0 >> : u \in all}
        \cup UNION {{<< "env", u, m, j >> : m \in Links(c, u), j \in {0, 1}} :
                      u \in all}

\* The step that comes first.
First == {p \in todo : \A q \in todo : ~Before(q, p)}

-----------------------------------------------------------------------------
\* The shared IPv4 table is not looked at.
check_rt_conflicts(c) ==
    {ipv6_table_num(c.tables, i - 1) : i \in DOMAIN c.uplinks} \cap Foreign = {}

Start ==
    /\ todo = {}
    /\ \E c \in Files :
         /\ Accepts(c)
         /\ validate_macvlan_names(c)
         /\ check_rt_conflicts(c)
         /\ cfg' = c
         /\ todo' = Plan(c)
    /\ stale' = << >>
    /\ clean' = TRUE
    /\ UNCHANGED << disk, enabled, wants, running, dhcpcd, trouble >>

Units == << enabled, wants, running, dhcpcd >>

Put(d, p, content) ==
    [q \in DOMAIN d \cup {p} |-> IF q = p THEN content ELSE d[q]]

Drop(d, p) == [q \in DOMAIN d \ {p} |-> d[q]]

\* The file a step writes, and what it writes there.
Path(c, p) ==
    CASE p[1] = "radvd" -> RadvdConf(Uplink(c, p[2]).name)
      [] p[1] = "env"   -> Env(Uplink(c, p[2]).name)
      [] OTHER          -> << p[1] >>

Content(c, p) ==
    CASE p[1] = "interfaces" -> interfaces_file(c)
      [] p[1] = "dhcpcd"     -> dhcpcd_conf(c)
      [] p[1] = "radvd"      -> radvd_conf(c, p[2])
      [] p[1] = "tables"     -> rt_tables(c)
      [] p[1] = "env"        -> env_file(Uplink(c, p[2]))

\* write_file: a rename, which replaces a link as it replaces a file.
WriteFile(p) ==
    /\ p[1] \in {"interfaces", "dhcpcd", "radvd", "tables", "env"}
    /\ p[3] = 0
    /\ disk' = Put(disk, Path(cfg, p), Content(cfg, p))
    /\ todo' = todo \ {p}
    /\ UNCHANGED << Units, stale >>

\* Mutant: a name that is taken is left as it is.
MutLinkTo(d, path, target, call) ==
    IF call = 0 \/ path \in DOMAIN d THEN d ELSE Put(d, path, [to |-> target])

\* write_symlink, in two calls: whatever has the name goes first.
LinkTo(d, path, target, call) ==
    IF call = 0 THEN Drop(d, path) ELSE Put(d, path, [to |-> target])

WriteLink(p) ==
    /\ p[1] = "env" /\ p[3] # 0
    /\ disk' = LinkTo(disk, Env(LinkName(cfg, p[2], p[3])),
                      Env(Uplink(cfg, p[2]).name), p[4])
    /\ todo' = todo \ {p}
    /\ UNCHANGED << Units, stale >>

\* What remove_stale_files and the two loops of _remove_stale remove.
Stale(d, c, sweep) ==
    CASE sweep = "radvdSweep" ->
           {p \in DOMAIN d : p[1] = "radvd" /\ p[2] \notin Configured(c)}
      [] sweep = "envSweep"   ->
           {p \in EnvPaths(d) : ~IsLink(d, p) /\ p[2] \notin Configured(c)}
      [] sweep = "linkSweep"  ->
           {p \in EnvPaths(d) : IsLink(d, p) /\ ~Exists(d, p)}

Sweep(p) ==
    /\ p[1] \in {"radvdSweep", "envSweep", "linkSweep"}
    /\ \/ /\ \E path \in Stale(disk, cfg, p[1]) : disk' = Drop(disk, path)
          /\ UNCHANGED todo
       \/ /\ Stale(disk, cfg, p[1]) = {}
          /\ todo' = todo \ {p}
          /\ UNCHANGED disk
    /\ UNCHANGED << Units, stale >>

\* A start of dhcpcd, whoever asks for it, is with the dhcpcd.conf on disk.
\* radvd's unit Requires= dhcpcd, so that it is restarted with it, and has
\* ConditionPathExists= on its configuration.
RestartDhcpcd ==
    /\ dhcpcd' = disk[DhcpcdConf]
    /\ running' = {n \in running : RadvdConf(n) \in DOMAIN disk}

\* Starting a radvd that runs does nothing.
Systemctl(p) ==
    /\ \/ /\ p[1] = "enable" /\ p[3] = 0
          /\ enabled' = enabled \cup {Uplink(cfg, p[2]).name}
          /\ UNCHANGED << wants, running, dhcpcd >>
       \/ /\ p[1] = "enable" /\ p[3] = 1
          /\ wants' = wants \cup {Uplink(cfg, p[2]).name}
          /\ UNCHANGED << enabled, running, dhcpcd >>
       \/ /\ p[1] = "restart"
          /\ RestartDhcpcd
          /\ UNCHANGED << enabled, wants >>
       \/ /\ p[1] = "start"
          /\ running' = running \cup {n \in {Uplink(cfg, p[2]).name} :
                                        RadvdConf(n) \in DOMAIN disk}
          /\ UNCHANGED << enabled, wants, dhcpcd >>
       \/ /\ p[1] = "stop" /\ p[3] = 0
          /\ running' = running \ {stale[p[2]]}
          /\ UNCHANGED << enabled, wants, dhcpcd >>
       \/ /\ p[1] = "stop" /\ p[3] = 1
          /\ enabled' = enabled \ {stale[p[2]]}
          /\ UNCHANGED << wants, running, dhcpcd >>
       \/ /\ p[1] = "stop" /\ p[3] = 2   \* no systemctl: an unlink
          /\ wants' = wants \ {stale[p[2]]}
          /\ UNCHANGED << enabled, running, dhcpcd >>
    /\ todo' = todo \ {p}
    /\ UNCHANGED << disk, stale >>

\* Mutant: list-units without --all.
MutKnown == running

\* _list_radvd_units.
Known == enabled \cup wants \cup running

\* _disable_stale_radvd_units, in an order of the names.
ListUnits(p) ==
    /\ p[1] = "list"
    /\ LET names == Known \ Configured(cfg)
           places == 1 .. Cardinality(names)
       IN  /\ stale' \in Surjection(places, names)
           /\ todo' = (todo \ {p}) \cup
                      {<< "stop", i, call, 0 >> : i \in places, call \in 0 .. 2}
    /\ UNCHANGED << disk, Units >>

Run ==
    /\ \E p \in First :
         WriteFile(p) \/ WriteLink(p) \/ Sweep(p) \/ Systemctl(p) \/ ListUnits(p)
    /\ UNCHANGED << cfg, clean, trouble >>

Trouble ==
    /\ todo # {}
    /\ trouble < MaxTrouble
    /\ trouble' = trouble + 1
    /\ clean' = FALSE
    /\ UNCHANGED << disk, Units, cfg, stale >>

\* A systemctl that fails is reported and forgotten.
SystemctlFails ==
    /\ Trouble
    /\ \E p \in First :
         /\ p[1] \in {"enable", "restart", "start", "stop"}
         /\ p[1] = "stop" => p[3] # 2
         /\ todo' = todo \ {p}

\* Killed, out of space, power lost.
Killed == Trouble /\ todo' = {}

\* systemd starts dhcpcd again when it fails, a run under way or not.
DhcpcdRestarts ==
    /\ dhcpcd # None
    /\ RestartDhcpcd
    /\ UNCHANGED << disk, enabled, wants, cfg, todo, stale, clean, trouble >>

\* A reboot; one that cuts a run short is Killed and this.  dhcpcd's unit and
\* uplinkmgr.service, which wants radvds, are part of multi-user.target.
Booted ==
    /\ todo = {}
    /\ dhcpcd' = IF DhcpcdConf \in DOMAIN disk THEN disk[DhcpcdConf] ELSE None
    /\ running' = {n \in enabled \cup wants : RadvdConf(n) \in DOMAIN disk}
    /\ UNCHANGED << disk, enabled, wants, cfg, todo, stale, clean, trouble >>

Init ==
    /\ disk = << >>
    /\ enabled = {} /\ wants = {} /\ running = {}
    /\ dhcpcd = None
    /\ cfg = None
    /\ todo = {} /\ stale = << >>
    /\ clean = FALSE
    /\ trouble = 0

Next == Start \/ Run \/ SystemctlFails \/ Killed \/ DhcpcdRestarts \/ Booted

Spec == Init /\ [][Next]_vars
=============================================================================

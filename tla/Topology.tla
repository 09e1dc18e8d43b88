------------------------------ MODULE Topology ------------------------------
(***************************************************************************)
(* The policy rules of all uplinks and networks at their priorities, and   *)
(* what a reload with another configuration makes of them.  A pass is one  *)
(* step here (module RouteSync takes it apart) and the contents of the     *)
(* state files are reduced to the uplink they come from: names of state    *)
(* files and of health go by the uplink's name, tables, priorities and     *)
(* macvlan names by its place in the configuration.  A step ends with the  *)
(* pass it causes.                                                         *)
(***************************************************************************)
EXTENDS Routing, Priority, Naming, Config, FiniteSetsExt

CONSTANTS
    Names,          \* names of uplinks
    Files           \* the configuration files that are loaded

VARIABLES
    cfg,            \* the configuration, Unset before the first load
    wan, pd,        \* uplinks with a lease and a router, with a prefix
    up,             \* uplinks that are up
    inst,           \* _installed and the two flags beside it
    k4, k6          \* the kernel's rules, by priority

vars == << cfg, wan, pd, up, inst, k4, k6 >>

-----------------------------------------------------------------------------
Layout(c) == [start |-> c.start, uplinks |-> Len(c.uplinks),
              networks |-> Len(c.networks)]

Index(c, name) == (CHOOSE i \in DOMAIN c.uplinks : c.uplinks[i].name = name) - 1
Uplink(c, u) == c.uplinks[u + 1]
Configured(c) == {c.uplinks[i].name : i \in DOMAIN c.uplinks}

Table(c, u) == ipv6_table_num(c.tables, u)

Rule(from, iif, act) == [from |-> from, iif |-> iif, act |-> act]

\* A main-table route for the destination, except the default route.
InternalTraffic == Rule(NoFrom, NoFrom, << "suppress", 0 >>)
Lookup(table) == << "lookup", table >>
Prohibit == << "prohibit", 0 >>
Lo == << "lo" >>

ASSUME FilesAssumption ==
    \A f \in Files :
        /\ f # Unset
        /\ f.start \in Nat /\ f.reject \in BOOLEAN
        /\ Len(f.uplinks) \in Nat /\ Len(f.networks) \in Nat
        /\ DOMAIN f.uplinks = 1 .. Len(f.uplinks)
        /\ \A i \in DOMAIN f.uplinks :
             f.uplinks[i].name \in Names /\ f.uplinks[i].pd \in BOOLEAN

\* `No constraint' is neither a source nor an interface.
ASSUME NoFromAssumption ==
    /\ NoFrom \notin {"wan", "pd"} \X Names
    /\ NoFrom # Lo
    /\ \A f \in Files : \A m \in MacvlanPairs(f) :
         macvlan_name(f, m[1], m[2]) # NoFrom

-----------------------------------------------------------------------------
\* The bookkeeping: whether the rules of all uplinks are installed, and which
\* rules of each uplink are, by its name.  A rule is remembered with the
\* uplink it is for, and the networks of an uplink are treated alike, so that
\* `installed or not' is all there is to remember; `narrow' is the
\* from-constraint of the fwd_to_uplink rules.

Empty == [lo4 |-> FALSE, lo6 |-> FALSE, pdLo |-> FALSE, fwd |-> FALSE,
          narrow |-> FALSE, prohibit |-> FALSE]

Books(policy, links) == [policy |-> policy, links |-> links]

Fresh(c) == Books(FALSE, [name \in Configured(c) |-> Empty])

\* _setup_ipv4_rules, _setup_ipv6_rules, _setup_ipv6_macvlan_rules.
SetupBooks(c) ==
    Books(TRUE, [name \in Configured(c) |->
                   [Empty EXCEPT !.fwd = Uplink(c, Index(c, name)).pd]])

\* Mutant: a prefix is used whatever the health.
MutOwnPrefix(e, name) == name \in e.pd

OwnPrefix(e, name) == name \in e.pd \cap e.up

\* Mutant: the constraint stays as it is once the rule exists.
MutNarrow(c, known, narrow) == narrow

\* The from-constraint changes only while a prefix is known.
Narrow(c, known, narrow) == IF known THEN c.reject ELSE narrow

\* _reconcile_uplink_ipv4 and _reconcile_uplink_ipv6 of every uplink, with e
\* the state files and the health.
ReconcileBooks(c, e, i) ==
    LET book(name) ==
          LET b == i.links[name]
              v6 == Uplink(c, Index(c, name)).pd
              known == v6 /\ name \in e.pd
              usable == name \in e.wan \cap e.up
          IN  [lo4 |-> usable,
               lo6 |-> v6 /\ usable,
               pdLo |-> v6 /\ OwnPrefix(e, name),
               fwd |-> b.fwd,
               narrow |-> Narrow(c, known, b.narrow),
               prohibit |-> known /\ (b.prohibit \/ c.reject)]
    IN  [i EXCEPT !.links = [name \in Configured(c) |-> book(name)]]

TeardownBooks(c, i) ==
    Books(FALSE, [name \in Configured(c) |->
                    IF Uplink(c, Index(c, name)).pd THEN Empty
                    ELSE [i.links[name] EXCEPT !.lo4 = FALSE]])

-----------------------------------------------------------------------------
\* The rule of a slot (module Priority) by the bookkeeping: one or none.

If(cond, rule) == IF cond THEN << rule >> ELSE << >>

Rules4(c, i, slot) ==
    LET u == slot[2]
        name == Uplink(c, u).name
    IN  CASE slot[1] = "internal" -> If(i.policy, InternalTraffic)
          [] slot[1] = "fwd_to_wan" ->
               If(i.policy,
                  Rule(NoFrom, NoFrom, Lookup(ipv4_table_num(c.tables))))
          [] slot[1] = "lo" ->
               If(i.links[name].lo4,
                  Rule(<< "wan", name >>, Lo, Lookup(Table(c, u))))

Rules6(c, i, slot) ==
    LET u == slot[2]
        name == Uplink(c, u).name
        book == i.links[name]
        mv == macvlan_name(c, slot[3], u)
        table == Lookup(Table(c, u))
    IN  CASE slot[1] = "internal" -> If(i.policy, InternalTraffic)
          [] slot[1] = "fwd" ->
               If(book.fwd,
                  Rule(IF book.narrow THEN << "pd", name >> ELSE NoFrom,
                       mv, table))
          [] slot[1] = "lo" ->
               If(book.lo6, Rule(<< "wan", name >>, Lo, table))
          [] slot[1] = "reject" ->
               If(book.prohibit, Rule(NoFrom, mv, Prohibit))
          [] slot[1] = "pd_lo" ->
               If(book.pdLo, Rule(<< "pd", name >>, Lo, table))

\* The rule at a priority, by the bookkeeping.

SlotsAt4(c, p) == {s \in Slots4(Layout(c)) : Priority4(Layout(c), s) = p}
SlotsAt6(c, p) == {s \in Slots6(Layout(c)) : Priority6(Layout(c), s) = p}

At4(c, i, p) == IF SlotsAt4(c, p) = {} THEN << >>
                ELSE Rules4(c, i, CHOOSE s \in SlotsAt4(c, p) : TRUE)
At6(c, i, p) == IF SlotsAt6(c, p) = {} THEN << >>
                ELSE Rules6(c, i, CHOOSE s \in SlotsAt6(c, p) : TRUE)

-----------------------------------------------------------------------------
\* What a pass makes of the kernel's rules at one priority: the old rule is
\* deleted and the new one added, where they differ.
Exchange(rules, old, new) ==
    LET rest == IF old = << >> THEN rules ELSE DelRule(rules)
    IN  IF old = new THEN rules
        ELSE IF new = << >> THEN rest
        ELSE AddRule(rest, new[1])

\* The rules of the networks go by the names of the macvlans.  A network whose
\* macvlan has the name of an earlier one's finds its work done.
Slots6Done(c) ==
    {s \in Slots6(Layout(c)) :
       s[1] \in {"fwd", "reject"} =>
         \A n \in 0 .. s[3] - 1 :
           macvlan_name(c, n, s[2]) # macvlan_name(c, s[3], s[2])}

\* The step from one bookkeeping to another, in the slots S of IPv6: s is
\* [inst |-> ..., k4 |-> ..., k6 |-> ...].
Turn(c, S, s, j) ==
    [inst |-> j,
     k4 |-> [p \in DOMAIN s.k4 |->
               Exchange(s.k4[p], At4(c, s.inst, p), At4(c, j, p))],
     k6 |-> [p \in DOMAIN s.k6 |->
               IF SlotsAt6(c, p) \cap S = {} THEN s.k6[p]
               ELSE Exchange(s.k6[p], At6(c, s.inst, p), At6(c, j, p))]]

\* The set-up starts from new bookkeeping and leaves no network out.
SetupAll(c, s) ==
    Turn(c, Slots6(Layout(c)), [s EXCEPT !.inst = Fresh(c)], SetupBooks(c))

ReconcileAll(c, e, s) == Turn(c, Slots6Done(c), s, ReconcileBooks(c, e, s.inst))

TeardownAll(c, s) == Turn(c, Slots6Done(c), s, TeardownBooks(c, s.inst))

Now == [inst |-> inst, k4 |-> k4, k6 |-> k6]

Become(s) == inst' = s.inst /\ k4' = s.k4 /\ k6' = s.k6

-----------------------------------------------------------------------------
\* Before the first load, after it, and after a reload, every link is up.
Optimistic(c) == [wan |-> wan, pd |-> pd, up |-> Configured(c)]

Load(f) == Accepts(f) /\ cfg' = f /\ up' = Configured(f)

\* run: load dies on a file that is not accepted.
Start ==
    /\ cfg = Unset
    /\ UNCHANGED << wan, pd >>
    /\ \E f \in Files :
         /\ Load(f)
         /\ Become(ReconcileAll(f, Optimistic(f), SetupAll(f, Now)))

\* A lease, a prefix or the health of an uplink changes; a lease event may
\* concern an uplink that is no longer, or not yet, configured.
Change ==
    /\ \E n \in Names :
         \/ wan' = SymDiff(wan, {n}) /\ UNCHANGED << pd, up >>
         \/ pd' = SymDiff(pd, {n}) /\ UNCHANGED << wan, up >>
         \/ /\ cfg # Unset
            /\ n \in Configured(cfg)
            /\ up' = SymDiff(up, {n})
            /\ UNCHANGED << wan, pd >>
    /\ UNCHANGED cfg
    /\ IF cfg = Unset THEN UNCHANGED << inst, k4, k6 >>
       ELSE Become(ReconcileAll(cfg, [wan |-> wan', pd |-> pd', up |-> up'], Now))

\* Mutant: the new configuration is taken over before the teardown.
MutUndoAll(old, new) ==
    LET known == [n \in Configured(new) |->
                    IF n \in Configured(old) THEN inst.links[n] ELSE Empty]
    IN  TeardownAll(new, [Now EXCEPT !.inst.links = known])

\* Everything is undone under the old configuration.
UndoAll(old, new) == TeardownAll(old, Now)

\* _do_reload.
Reload ==
    /\ cfg # Unset
    /\ UNCHANGED << wan, pd >>
    /\ \E f \in Files :
         /\ Load(f)
         /\ Become(ReconcileAll(f, Optimistic(f), SetupAll(f, UndoAll(cfg, f))))

\* _cleanup.
Stop ==
    /\ cfg # Unset
    /\ cfg' = Unset
    /\ up' = {}
    /\ UNCHANGED << wan, pd >>
    /\ LET s == TeardownAll(cfg, Now)
       IN  inst' = Books(FALSE, << >>) /\ k4' = s.k4 /\ k6' = s.k6

-----------------------------------------------------------------------------
\* All priorities the configurations can lead to.
Priorities ==
    UNION {{Priority4(Layout(f), s) : s \in Slots4(Layout(f))} \cup
           {Priority6(Layout(f), s) : s \in Slots6(Layout(f))} : f \in Files}

Init ==
    /\ cfg = Unset
    /\ wan = {} /\ pd = {} /\ up = {}
    /\ inst = Books(FALSE, << >>)
    /\ k4 = [p \in Priorities |-> << >>]
    /\ k6 = [p \in Priorities |-> << >>]

Next == Start \/ Change \/ Reload \/ Stop

Spec == Init /\ [][Next]_vars
=============================================================================

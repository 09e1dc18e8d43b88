--------------------------- MODULE TopologyProps ----------------------------
(***************************************************************************)
(* Which way packets go under the rules of module Topology.                *)
(***************************************************************************)
EXTENDS Topology

MainTable == 254

Packet(from, iif) == [from |-> from, iif |-> iif]

\* A suppress rule matches only what the main table knows a way for.
Matches(rule, packet) ==
    /\ rule.from \in {NoFrom, packet.from}
    /\ rule.iif \in {NoFrom, packet.iif}
    /\ rule # InternalTraffic

\* What the kernel does with a packet to the outside: the action of the first
\* matching rule, else the default route of dhcpcd.
Way(k, packet) ==
    LET Hits(p) == {i \in DOMAIN k[p] : Matches(k[p][i], packet)}
        places == {p \in DOMAIN k : Hits(p) # {}}
        first == Min(places)
    IN  IF places = {} THEN Lookup(MainTable)
        ELSE k[first][Min(Hits(first))].act

Running == cfg # Unset

UplinkIndices == Uplinks(Layout(cfg))

\* The macvlans that exist: the networks of the uplinks with prefix
\* delegation.
Macvlans == {m \in Networks(Layout(cfg)) \X UplinkIndices :
               Uplink(cfg, m[2]).pd}

-----------------------------------------------------------------------------
\* The bookkeeping is about the uplinks of the configuration, tables are
\* distinct from those of the system, and no priority holds two rules.
TypeOK ==
    /\ DOMAIN inst.links = (IF Running THEN Configured(cfg) ELSE {})
    /\ wan \cup pd \subseteq Names
    /\ Running =>
         /\ up \subseteq Configured(cfg)
         /\ \A u \in UplinkIndices : Table(cfg, u) \in 1 .. MaxTable
    /\ \A p \in Priorities : Len(k4[p]) =< 1 /\ Len(k6[p]) =< 1

\* A client reaches the internet through the router it chose: what comes in
\* on a macvlan leaves by the uplink of that macvlan.  With
\* reject_wrong_pd_src it does so only with an address of that uplink, and is
\* refused otherwise, while the prefix is known; when it is not known the last
\* constraint stays and other sources take the main table.
ClientsUseTheirUplink ==
    Running =>
      \A m \in Macvlans, v \in Names :
        LET u == m[2]
            own == Uplink(cfg, u).name
            way == Way(k6, Packet(<< "pd", v >>, macvlan_name(cfg, m[1], u)))
        IN  IF cfg.reject /\ own \in pd /\ v # own THEN way = Prohibit
            ELSE \/ way = Lookup(Table(cfg, u))
                 \/ cfg.reject /\ v # own /\ way = Lookup(MainTable)

\* The host's own packets leave by the uplink whose address they carry, if it
\* is up, and by the main table otherwise.  All other IPv4 traffic takes the
\* shared table while the daemon runs, and no traffic meets a rule of uplinkmgr
\* when it does not.
OtherTrafficTakesItsWay ==
    \A v \in Names :
      LET configured == Running /\ v \in Configured(cfg)
          v6 == configured /\ Uplink(cfg, Index(cfg, v)).pd
          Expected(yes) == IF yes THEN Lookup(Table(cfg, Index(cfg, v)))
                           ELSE Lookup(MainTable)
          Own(kind) == Packet(<< kind, v >>, Lo)
      IN  /\ Way(k6, Own("pd")) = Expected(v6 /\ v \in pd \cap up)
          /\ Way(k6, Own("wan")) = Expected(v6 /\ v \in wan \cap up)
          /\ configured /\ v \in wan \cap up =>
               Way(k4, Own("wan")) = Expected(TRUE)
          /\ Way(k4, Packet(<< "lan", v >>, << "lan" >>)) =
               IF Running THEN Lookup(ipv4_table_num(cfg.tables))
               ELSE Lookup(MainTable)

\* No two rules share a priority.
SlotsDistinct ==
    Running =>
      LET l == Layout(cfg)
      IN  /\ \A s, t \in Slots4(l) : Priority4(l, s) = Priority4(l, t) => s = t
          /\ \A s, t \in Slots6(l) : Priority6(l, s) = Priority6(l, t) => s = t

-----------------------------------------------------------------------------
\* What the documents say and the code does not do.

\* SPEC.md 4.3: with reject_wrong_pd_src there are 1 + 2N + len(uplinks)
\* IPv6 rules.
RulesAsCounted ==
    Running =>
      LET l == Layout(cfg)
      IN  \A p \in Priorities :
            k6[p] # << >> => p < l.start + 1 + 2 * PairCount(l) + l.uplinks

\* daemon.py:664: _teardown_all removes all routing elements installed by
\* this daemon.
TeardownRemovesAll ==
    ~Running => \A p \in Priorities : k4[p] = << >> /\ k6[p] = << >>
=============================================================================

----------------------------- MODULE Generator ------------------------------
(***************************************************************************)
(* What uplinkmgr-setup generates from a configuration c, as the readers   *)
(* of the files take it (src/uplinkmgr/generator.py), and the prefixes the *)
(* daemon derives for radvd (src/uplinkmgr/radvd.py).                      *)
(***************************************************************************)
EXTENDS Naming, Config

Macvlans(c, u) == {macvlan_name(c, n, u) : n \in 0 .. Len(c.networks) - 1}

\* One stanza for every macvlan.
interfaces_file(c) ==
    {[name |-> macvlan_name(c, p[1], p[2]), parent |-> c.networks[p[1] + 1],
      mac |-> mac_address(p[2], p[1]), address |-> link_local(p[2])] :
       p \in MacvlanPairs(c)}

\* Mutant: the subnets are counted across all uplinks.
MutSlaId(c, n, u) == u * Len(c.networks) + n

SlaId(c, n, u) == n

dhcpcd_conf(c) ==
    [wans |-> {[interface |-> c.uplinks[i].interface, metric |-> Metric(c, i)] :
                 i \in DOMAIN c.uplinks},
     macvlans |-> {[name |-> macvlan_name(c, p[1], p[2]), uplink |-> p[2],
                    sla |-> SlaId(c, p[1], p[2]),
                    iaid |-> macvlan_iaid(p[2], p[1])] :
                     p \in MacvlanPairs(c)}]

\* radvd_conf: an interface block for every network.
radvd_conf(c, u) == Macvlans(c, u)

\* _derive_prefixes: the subnet of a prefix of the length for each macvlan.
derive_prefixes(c, u, length) ==
    IF length > 64 \/ Len(c.networks) > 2 ^ (64 - length) THEN {}
    ELSE {[name |-> macvlan_name(c, n, u), sla |-> n] :
            n \in 0 .. Len(c.networks) - 1}

rt_tables(c) ==
    {[number |-> ipv4_table_num(c.tables), uplink |-> Unset]}
    \cup {[number |-> ipv6_table_num(c.tables, i - 1),
           uplink |-> c.uplinks[i].name] : i \in DOMAIN c.uplinks}

env_file(uplink) ==
    [uplink |-> uplink.name, wan |-> uplink.interface, pd |-> uplink.pd]
=============================================================================

------------------------------- MODULE Naming -------------------------------
(***************************************************************************)
(* Names and numbers derived from a place in the configuration             *)
(* (src/uplinkmgr/naming.py).  c is a configuration as in module Config; u *)
(* and n are the indices of an uplink and of a network, from 0.            *)
(***************************************************************************)
EXTENDS Naturals, Sequences

CONSTANT Short      \* an interface's name, sanitized and truncated

macvlan_name(c, n, u) == << Short[c.networks[n + 1]], u >>

\* The three octets that are not zero.
mac_address(u, n) == << 82, u, n >>

macvlan_iaid(u, n) == 4096 + u * 256 + n

\* The last group of fe80::1:<group>.
link_local(u) == u + 1

ipv4_table_num(tables) == tables

ipv6_table_num(tables, u) == tables + 1 + u

\* The macvlans of a configuration, by network and uplink.
PdIndices(c) == {u \in 0 .. Len(c.uplinks) - 1 : c.uplinks[u + 1].pd}
MacvlanPairs(c) == (0 .. Len(c.networks) - 1) \X PdIndices(c)

\* Only uplinkmgr-setup asks for this.
validate_macvlan_names(c) ==
    \A p, q \in MacvlanPairs(c) :
        macvlan_name(c, p[1], p[2]) = macvlan_name(c, q[1], q[2]) => p = q
=============================================================================

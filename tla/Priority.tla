------------------------------ MODULE Priority ------------------------------
(***************************************************************************)
(* Rule priorities (src/uplinkmgr/priority.py).  c is [start |->           *)
(* rule_priority_start, uplinks |-> len(uplinks), networks |->             *)
(* len(networks)]; indices count from 0.                                   *)
(***************************************************************************)
EXTENDS Naturals

ipv4_internal_traffic_priority(c) == c.start
ipv4_lo_to_uplink_priority(c, u) == c.start + 1 + u
ipv4_fwd_to_wan_priority(c) == c.start + 1 + c.uplinks

PairCount(c) == c.uplinks * c.networks

ipv6_internal_traffic_priority(c) == c.start

ipv6_fwd_to_uplink_priority(c, u, n) == c.start + 1 + u * c.networks + n

ipv6_lo_to_uplink_priority(c, u) == c.start + 1 + PairCount(c) + u

\* Mutant: the lo_to_uplink rules are not skipped.
MutRejectPriority(c, u, n) ==
    c.start + 1 + PairCount(c) + u * c.networks + n

ipv6_reject_wrong_pd_src_priority(c, u, n) ==
    c.start + 1 + PairCount(c) + c.uplinks + u * c.networks + n

ipv6_pd_lo_to_uplink_priority(c, u) ==
    c.start + 1 + PairCount(c) + c.uplinks + PairCount(c) + u

-----------------------------------------------------------------------------
\* The IPv6 rules an uplink may have, and the priority of each.

Uplinks(c) == 0 .. c.uplinks - 1
Networks(c) == 0 .. c.networks - 1

Slots6(c) ==
    {<< "internal", 0, 0 >>}
    \cup {"fwd", "reject"} \X Uplinks(c) \X Networks(c)
    \cup {"lo", "pd_lo"} \X Uplinks(c) \X {0}

Priority6(c, s) ==
    CASE s[1] = "internal" -> ipv6_internal_traffic_priority(c)
      [] s[1] = "fwd"      -> ipv6_fwd_to_uplink_priority(c, s[2], s[3])
      [] s[1] = "lo"       -> ipv6_lo_to_uplink_priority(c, s[2])
      [] s[1] = "reject"   -> ipv6_reject_wrong_pd_src_priority(c, s[2], s[3])
      [] s[1] = "pd_lo"    -> ipv6_pd_lo_to_uplink_priority(c, s[2])

Slots4(c) ==
    {<< "internal", 0 >>, << "fwd_to_wan", 0 >>} \cup {"lo"} \X Uplinks(c)

Priority4(c, s) ==
    CASE s[1] = "internal"   -> ipv4_internal_traffic_priority(c)
      [] s[1] = "fwd_to_wan" -> ipv4_fwd_to_wan_priority(c)
      [] s[1] = "lo"         -> ipv4_lo_to_uplink_priority(c, s[2])
=============================================================================

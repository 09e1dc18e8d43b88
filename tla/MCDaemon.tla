------------------------------ MODULE MCDaemon ------------------------------
(***************************************************************************)
(* Small instances of the daemon for TLC.                                  *)
(***************************************************************************)
EXTENDS DaemonProps

CONSTANTS a, b, p, q    \* addresses, gateways and prefixes

McSources == {a, b, p, q}
OneLease == {[gateway |-> a, address |-> a]}

McAdverts == {[gateway |-> a, expires |-> FALSE, source |-> p],
              [gateway |-> b, expires |-> TRUE, source |-> None]}

OneAdvert == {[gateway |-> a, expires |-> TRUE, source |-> None]}

Metric1 == [u \in {0} |-> 100]
\* The second uplink of the configuration is preferred for IPv4.
Metric2 == [u \in {0, 1} |-> 200 - 100 * u]

AnyReach1 == [l \in {0} \X {"ipv4", "ipv6"} |-> BOOLEAN]

AnyReach2 == [l \in {0, 1} \X {"ipv4", "ipv6"} |-> BOOLEAN]

\* The IPv4 probes always fail.
Ipv6Reach(S) == [l \in S \X {"ipv4", "ipv6"} |->
                   IF l[2] = "ipv6" THEN BOOLEAN ELSE {FALSE}]
Ipv6Reach1 == Ipv6Reach({0})
Ipv6Reach2 == Ipv6Reach({0, 1})
\* IPv4 alone: the first uplink's line is dead, the second's comes and goes.
DeadFirst == [l \in {0, 1} \X {"ipv4", "ipv6"} |->
                IF l[1] = 0 THEN {FALSE} ELSE BOOLEAN]
=============================================================================

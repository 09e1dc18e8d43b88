----------------------------- MODULE MCRouteSync ----------------------------
(***************************************************************************)
(* Three uplinks for TLC, one of which is chosen at the start: one with    *)
(* IPv4 alone, one with prefix delegation and one with IA_NA, both without *)
(* an IPv4 lease.                                                          *)
(***************************************************************************)
EXTENDS RouteSyncProps

CONSTANTS a, b, p, q        \* addresses, gateways and prefixes

\* Leases that share the gateway and differ in the address, and one without
\* address.
Leases == {[gateway |-> a, address |-> a], [gateway |-> a, address |-> b],
           [gateway |-> b, address |-> None]}

Adverts == {[gateway |-> a, expires |-> FALSE, source |-> a]}

\* What a malformed file does is explored with the IPv4 lease.
McUplinks ==
    {[pd |-> FALSE, na |-> FALSE,
      contents |-> [f \in FileNames |->
                      IF f = "v4" THEN Leases \cup {Malformed} ELSE {}]],
     [pd |-> TRUE, na |-> FALSE,
      contents |-> [f \in FileNames |->
                      CASE f = "ra" -> Adverts
                        [] f = "pd" -> {p, q}
                        [] OTHER    -> {}]],
     [pd |-> FALSE, na |-> TRUE,
      contents |-> [f \in FileNames |->
                      CASE f = "ra" -> Adverts
                        [] f = "na" -> {b}
                        [] OTHER    -> {}]]}
=============================================================================

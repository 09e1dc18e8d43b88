---------------------------- MODULE UplinkState -----------------------------
(***************************************************************************)
(* The health of one uplink (class UplinkState of statemachine.py): both   *)
(* families are probed in one cycle and tracked independently.             *)
(***************************************************************************)
EXTENDS StateMachine

CONSTANT Ipv6Enabled    \* ipv6_pd or ia_na is configured

ASSUME Ipv6EnabledAssumption == Ipv6Enabled \in BOOLEAN

VARIABLES ipv4, ipv6    \* the two links

svars == << ipv4, ipv6 >>

Init == ipv4 = NewLink /\ ipv6 = NewLink

\* One probe cycle (update).
Update(ok4, ok6) ==
    /\ ipv4' = UpdateLink(ipv4, ok4)
    /\ ipv6' = IF Ipv6Enabled THEN UpdateLink(ipv6, ok6) ELSE ipv6

\* _force_link_down, which its callers reach only for a link that is up.
ForceIpv4Down ==
    /\ ipv4.state = "up"
    /\ ipv4' = ForceDown(ipv4)
    /\ UNCHANGED ipv6

ForceIpv6Down ==
    /\ Ipv6Enabled
    /\ ipv6.state = "up"
    /\ ipv6' = ForceDown(ipv6)
    /\ UNCHANGED ipv4

Next ==
    \/ \E ok4, ok6 \in BOOLEAN : Update(ok4, ok6)
    \/ ForceIpv4Down
    \/ ForceIpv6Down

Spec == Init /\ [][Next]_svars

-----------------------------------------------------------------------------
\* Both links stay well-formed.
TypeOK == ipv4 \in Link /\ ipv6 \in Link

\* Neither link keeps its health once a full run of probes spoke against it
\* (_update_link).
CountersBelowThreshold == BelowThreshold(ipv4) /\ BelowThreshold(ipv6)

H4 == INSTANCE Hysteresis WITH health <- ipv4.state, against <- Against(ipv4)
H6 == INSTANCE Hysteresis WITH health <- ipv6.state, against <- Against(ipv6)

\* Each family implements the hysteresis it is documented to have, however
\* the results of the two are interleaved (_update_link).
Ipv4Hysteresis == H4!Spec
Ipv6Hysteresis == H6!Spec
=============================================================================

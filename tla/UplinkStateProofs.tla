------------------------- MODULE UplinkStateProofs --------------------------
(***************************************************************************)
(* For all thresholds, probes and forced transitions of one uplink keep    *)
(* its links well-formed and implement the abstract hysteresis.            *)
(***************************************************************************)
EXTENDS UplinkState, StateMachineProofs

Inv == LinkInv(ipv4) /\ LinkInv(ipv6)

\* Both links start up with no contrary probe counted.
LEMMA InitInv == Init => Inv
BY ResetLinkInv DEF Init, Inv

\* Every probe cycle and every forced transition keeps the invariant.
LEMMA NextInv == Inv /\ [Next]_svars => Inv'
<1>. SUFFICES ASSUME Inv, [Next]_svars
              PROVE  Inv'
  OBVIOUS
<1>. USE Ipv6EnabledAssumption
<1>1. ASSUME NEW ok4 \in BOOLEAN, NEW ok6 \in BOOLEAN, Update(ok4, ok6)
      PROVE  Inv'
  BY <1>1, UpdateLinkInv DEF Inv, Update
<1>2. CASE ForceIpv4Down
  BY <1>2, ResetLinkInv DEF Inv, ForceIpv4Down
<1>3. CASE ForceIpv6Down
  BY <1>3, ResetLinkInv DEF Inv, ForceIpv6Down
<1>4. CASE UNCHANGED svars
  BY <1>4 DEF Inv, svars
<1>. QED
  BY <1>1, <1>2, <1>3, <1>4 DEF Next

\* Hence it always holds.
LEMMA SpecInv == Spec => []Inv
<1>. QED
  BY InitInv, NextInv, PTL DEF Spec

\* The health and the counters of both links stay in their ranges.
THEOREM TypeCorrect == Spec => []TypeOK
<1>1. Inv => TypeOK
  BY DEF Inv, LinkInv, TypeOK
<1>. QED
  BY SpecInv, <1>1, PTL

\* No link keeps its health once a full run of probes spoke against it, for
\* every pair of thresholds (_update_link).
THEOREM BelowThresholdAlways == Spec => []CountersBelowThreshold
<1>1. Inv => CountersBelowThreshold
  BY DEF Inv, LinkInv, CountersBelowThreshold
<1>. QED
  BY SpecInv, <1>1, PTL

-----------------------------------------------------------------------------
\* The IPv4 link implements the hysteresis: it flips only on the last of a
\* full run of contrary probes or on a lost lease, whatever happens to the
\* IPv6 link meanwhile (update, _update_link, _force_link_down).
THEOREM Ipv4Implements == Spec => Ipv4Hysteresis
<1>1. Init => H4!Init
  BY DEF Init, H4!Init, NewLink, Against
<1>2. Inv /\ [Next]_svars => [H4!Next]_(H4!hvars)
  <2>. SUFFICES ASSUME Inv, [Next]_svars
                PROVE  [H4!Next]_(H4!hvars)
    OBVIOUS
  <2>1. ASSUME NEW ok4 \in BOOLEAN, NEW ok6 \in BOOLEAN, Update(ok4, ok6)
        PROVE  H4!Next
    <3>1. \/ Confirms(ipv4, ipv4')
          \/ Doubts(ipv4, ipv4')
          \/ TurnsOver(ipv4, ipv4')
      BY <2>1, UpdateLinkSteps DEF Inv, Update
    <3>2. CASE Confirms(ipv4, ipv4')
      BY <3>2 DEF Confirms, H4!Next, H4!Confirm
    <3>3. CASE Doubts(ipv4, ipv4')
      BY <3>3 DEF Doubts, H4!Next, H4!Doubt, H4!Threshold
    <3>4. CASE TurnsOver(ipv4, ipv4')
      BY <3>4 DEF TurnsOver, H4!Next, H4!TurnOver, H4!Threshold, H4!Opposite
    <3>. QED
      BY <3>1, <3>2, <3>3, <3>4
  <2>2. CASE ForceIpv4Down
    BY <2>2 DEF ForceIpv4Down, ForceDown, Against, H4!Next, H4!LeaseGone
  <2>3. CASE ForceIpv6Down
    BY <2>3 DEF ForceIpv6Down, Against, H4!hvars
  <2>4. CASE UNCHANGED svars
    BY <2>4 DEF svars, Against, H4!hvars
  <2>. QED
    BY <2>1, <2>2, <2>3, <2>4 DEF Next
<1>. QED
  BY <1>1, <1>2, SpecInv, PTL DEF Spec, Ipv4Hysteresis, H4!Spec

\* So does the IPv6 link, which stands still where IPv6 is not configured.
THEOREM Ipv6Implements == Spec => Ipv6Hysteresis
<1>1. Init => H6!Init
  BY DEF Init, H6!Init, NewLink, Against
<1>2. Inv /\ [Next]_svars => [H6!Next]_(H6!hvars)
  <2>. SUFFICES ASSUME Inv, [Next]_svars
                PROVE  [H6!Next]_(H6!hvars)
    OBVIOUS
  <2>1. ASSUME NEW ok4 \in BOOLEAN, NEW ok6 \in BOOLEAN, Update(ok4, ok6)
        PROVE  [H6!Next]_(H6!hvars)
    <3>1. CASE Ipv6Enabled
      <4>1. \/ Confirms(ipv6, ipv6')
            \/ Doubts(ipv6, ipv6')
            \/ TurnsOver(ipv6, ipv6')
        BY <2>1, <3>1, UpdateLinkSteps DEF Inv, Update
      <4>2. CASE Confirms(ipv6, ipv6')
        BY <4>2 DEF Confirms, H6!Next, H6!Confirm
      <4>3. CASE Doubts(ipv6, ipv6')
        BY <4>3 DEF Doubts, H6!Next, H6!Doubt, H6!Threshold
      <4>4. CASE TurnsOver(ipv6, ipv6')
        BY <4>4 DEF TurnsOver, H6!Next, H6!TurnOver, H6!Threshold, H6!Opposite
      <4>. QED
        BY <4>1, <4>2, <4>3, <4>4
    <3>2. CASE ~Ipv6Enabled
      BY <2>1, <3>2 DEF Update, Against, H6!hvars
    <3>. QED
      BY <3>1, <3>2
  <2>2. CASE ForceIpv4Down
    BY <2>2 DEF ForceIpv4Down, Against, H6!hvars
  <2>3. CASE ForceIpv6Down
    BY <2>3 DEF ForceIpv6Down, ForceDown, Against, H6!Next, H6!LeaseGone
  <2>4. CASE UNCHANGED svars
    BY <2>4 DEF svars, Against, H6!hvars
  <2>. QED
    BY <2>1, <2>2, <2>3, <2>4 DEF Next
<1>. QED
  BY <1>1, <1>2, SpecInv, PTL DEF Spec, Ipv6Hysteresis, H6!Spec
=============================================================================

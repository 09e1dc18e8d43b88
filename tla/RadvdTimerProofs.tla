-------------------------- MODULE RadvdTimerProofs --------------------------
(***************************************************************************)
(* For every rate limit, every gap between advertisements and every set of *)
(* lifetimes and prefixes: what the limit holds back is made up for in     *)
(* time, and an expired router is never held back.                         *)
(***************************************************************************)
EXTENDS RadvdTimerProps, TLAPS

\* What the steps rely on of the shape of the state.
Shape ==
    /\ clock \in Nat /\ last \in 0 .. clock
    /\ quiet \in 0 .. Gap
    /\ waiting \in 0 .. clock - last
    /\ ra = None
       \/ ra \in [lifetime : RouterLifetimes, timestamp : 0 .. clock]

\* A prefix that is held back was held back by a limit that had not run out at
\* the last signal, quiet ticks ago or less.
HeldBack ==
    /\ ~running => waiting = 0
    /\ running /\ alive /\ ~signal /\ (waiting > 0 \/ loaded.prefix # pd) =>
         waiting + 1 =< MinInterval + quiet

\* Once told, always gone, until the next advertisement; and withdrawn.
Withdrawn ==
    /\ expired => Gone
    /\ running /\ ~signal /\ expired => loaded.default = 0

TimerInv == Shape /\ HeldBack /\ Withdrawn

-----------------------------------------------------------------------------
LEMMA InitTimer == Init => TimerInv
<1> SUFFICES ASSUME Init PROVE TimerInv
    OBVIOUS
<1>1. Shape
      BY TimerAssumption DEF Init, Shape
<1>2. HeldBack
      BY DEF Init, HeldBack
<1>3. Withdrawn
      BY DEF Init, Withdrawn
<1> QED BY <1>1, <1>2, <1>3 DEF TimerInv

\* The shape of the state survives every step.
LEMMA ShapeStep ==
    ASSUME Shape, [Next]_vars
    PROVE  Shape'
<1> USE TimerAssumption DEF Shape
<1>1. CASE Reconcile
  <2>1. \/ waiting' = 0 /\ last' = clock
        \/ waiting' = waiting /\ last' = last
        BY <1>1 DEF Reconcile, Sighup, Write
  <2>2. UNCHANGED << clock, router >>
        BY <1>1 DEF Reconcile
  <2>3. waiting' \in 0 .. clock' - last' /\ last' \in 0 .. clock'
        BY <2>1, <2>2
  <2> QED BY <2>2, <2>3 DEF router
<1>2. CASE Usr2
      BY <1>2 DEF Usr2, Sighup, router
<1>3. CASE CycleChange
      BY <1>3 DEF CycleChange, Sighup, router
<1>4. CASE Start
      BY <1>4 DEF Start, router
<1>5. CASE Stop
  <2>1. waiting' = 0
        BY <1>5 DEF Stop, Sighup
  <2>2. /\ running' = FALSE /\ signal' = FALSE
        /\ UNCHANGED << clock, router, last >>
        BY <1>5 DEF Stop
  <2> QED BY <2>1, <2>2 DEF router
<1>6. CASE Advertisement
      BY <1>6 DEF Advertisement, Hook
<1>7. CASE Delegation
      BY <1>7 DEF Delegation, Hook
<1>8. CASE Expire
      BY <1>8 DEF Expire, Hook
<1>9. CASE RouterDies
      BY <1>9 DEF RouterDies
<1>10. CASE Tick
      BY <1>10 DEF Tick
<1>11. CASE UNCHANGED vars
      BY <1>11 DEF vars, router
<1> QED BY <1>1, <1>2, <1>3, <1>4, <1>5, <1>6, <1>7, <1>8, <1>9, <1>10,
           <1>11 DEF Next

\* So does the account of what is held back: a signal inside the limit finds
\* less than the limit waiting, and the clock adds to waiting only as long as
\* it adds to quiet.
LEMMA HeldBackStep ==
    ASSUME Shape, HeldBack, [Next]_vars
    PROVE  HeldBack'
<1> USE TimerAssumption DEF Shape, HeldBack
<1>1. CASE Reconcile
  <2>1. CASE MayHup
        BY <1>1, <2>1 DEF Reconcile, Sighup, Regenerated, router
  <2>2. CASE ~MayHup
    <3>1. clock - last < MinInterval
          BY <2>2 DEF MayHup
    <3> QED BY <1>1, <2>2, <3>1 DEF Reconcile, Write, router
  <2> QED BY <2>1, <2>2
<1>2. CASE Usr2
      BY <1>2 DEF Usr2, Sighup, Regenerated, router
<1>3. CASE CycleChange
      BY <1>3 DEF CycleChange, Sighup, Regenerated, router
<1>4. CASE Start
      BY <1>4 DEF Start, router
<1>5. CASE Stop
      BY <1>5 DEF Stop, Sighup, router
<1>6. CASE Advertisement
      BY <1>6 DEF Advertisement, Hook
<1>7. CASE Delegation
      BY <1>7 DEF Delegation, Hook
<1>8. CASE Expire
      BY <1>8 DEF Expire, Hook
<1>9. CASE RouterDies
      BY <1>9 DEF RouterDies
<1>10. CASE Tick
      BY <1>10 DEF Tick
<1>11. CASE UNCHANGED vars
      BY <1>11 DEF vars, router
<1> QED BY <1>1, <1>2, <1>3, <1>4, <1>5, <1>6, <1>7, <1>8, <1>9, <1>10,
           <1>11 DEF Next

\* A file written while the advertisement is gone has no router lifetime.
LEMMA GoneMeansZero ==
    ASSUME Shape, Gone, NEW health
    PROVE  Regenerated(health).default = 0
BY TimerAssumption DEF Shape, Gone, Regenerated, DefaultLifetime,
   remaining_lifetime, Monus, clamp_default_lifetime

\* An advertisement that is gone is urgent.
LEMMA GoneIsUrgent ==
    ASSUME Shape, Gone
    PROVE  MayHup
BY TimerAssumption DEF Shape, Gone, MayHup, Urgent

LEMMA WithdrawnStep ==
    ASSUME Shape, Withdrawn, [Next]_vars
    PROVE  Withdrawn'
<1> USE TimerAssumption DEF Shape, Withdrawn
<1>1. CASE Reconcile
  <2>1. Gone' <=> Gone
        BY <1>1 DEF Reconcile, router, Gone, remaining_lifetime
  <2>2. CASE expired
    <3>1. loaded' = Regenerated(up)
          BY <1>1, <2>2, GoneIsUrgent DEF Reconcile, Sighup
    <3>2. Regenerated(up).default = 0
          BY <2>2, GoneMeansZero
    <3> QED BY <1>1, <2>1, <2>2, <3>1, <3>2 DEF Reconcile, router
  <2>3. CASE ~expired
        BY <1>1, <2>3 DEF Reconcile, router
  <2> QED BY <2>2, <2>3
<1>2. ASSUME NEW health, conf' = Regenerated(health), loaded' = conf',
             UNCHANGED << clock, router >>
      PROVE  Withdrawn'
  <2>1. Gone' <=> Gone
        BY <1>2 DEF router, Gone, remaining_lifetime
  <2>2. expired => Regenerated(health).default = 0
        BY GoneMeansZero
  <2> QED BY <1>2, <2>1, <2>2 DEF router
<1>3. CASE Usr2
      BY <1>2, <1>3 DEF Usr2, Sighup
<1>4. CASE CycleChange
      BY <1>2, <1>4 DEF CycleChange, Sighup
<1>5. CASE Stop
      BY <1>2, <1>5 DEF Stop, Sighup
<1>6. CASE Start
      BY <1>6 DEF Start, router, Gone, remaining_lifetime
<1>7. CASE Advertisement
      BY <1>7 DEF Advertisement, Hook
<1>8. CASE Delegation
      BY <1>8 DEF Delegation, Hook, Gone, remaining_lifetime
<1>9. CASE Expire
      BY <1>9 DEF Expire, Hook, Gone, remaining_lifetime
<1>10. CASE RouterDies
      BY <1>10 DEF RouterDies, Gone, remaining_lifetime
<1>11. CASE Tick
  <2>1. expired' = expired /\ ra' = ra /\ clock' = clock + 1
        BY <1>11 DEF Tick
  <2>2. ASSUME Gone PROVE Gone'
    <3>1. ra.lifetime \in Nat /\ ra.timestamp \in 0 .. clock
          BY <2>2 DEF Gone
    <3>2. remaining_lifetime(clock) = 0 => remaining_lifetime(clock + 1) = 0
          BY <3>1 DEF remaining_lifetime, Monus
    <3> QED BY <2>1, <2>2, <3>2 DEF Gone, remaining_lifetime
  <2>3. UNCHANGED << running, signal, loaded >>
        BY <1>11 DEF Tick
  <2> QED BY <2>1, <2>2, <2>3
<1>12. CASE UNCHANGED vars
      BY <1>12 DEF vars, router, Gone, remaining_lifetime
<1> QED BY <1>1, <1>3, <1>4, <1>5, <1>6, <1>7, <1>8, <1>9, <1>10, <1>11,
           <1>12 DEF Next

\* The three parts together are inductive.
THEOREM TimerInvariant == Spec => []TimerInv
<1>1. TimerInv /\ [Next]_vars => TimerInv'
      BY ShapeStep, HeldBackStep, WithdrawnStep DEF TimerInv
<1> QED BY InitTimer, <1>1, PTL DEF Spec

\* While the router advertises, a new prefix reaches radvd within the rate
\* limit and one gap, for every limit and gap.  (_do_reconcile)
THEOREM ChangesAreMadeUpFor == Spec => []ChangeReachesRadvd
<1>1. TimerInv => ChangeReachesRadvd
      BY TimerAssumption
      DEF TimerInv, Shape, HeldBack, ChangeReachesRadvd
<1> QED BY TimerInvariant, <1>1, PTL

\* An expired router is withdrawn at once, for every limit.  (_min_gw_remaining)
THEOREM ExpiryIsNotHeldBack == Spec => []ExpiredRouterWithdrawn
<1>1. TimerInv => ExpiredRouterWithdrawn
      BY DEF TimerInv, Withdrawn, ExpiredRouterWithdrawn
<1> QED BY TimerInvariant, <1>1, PTL
=============================================================================

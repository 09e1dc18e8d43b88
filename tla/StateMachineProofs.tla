------------------------- MODULE StateMachineProofs -------------------------
(***************************************************************************)
(* Facts about one link that hold for all thresholds: probes keep it well- *)
(* formed, and each probe is one step of the abstract hysteresis.          *)
(***************************************************************************)
EXTENDS StateMachine, TLAPS

LinkInv(l) == l \in Link /\ BelowThreshold(l)

\* The cap is never felt: the counter that matters grows by one.
LEMMA BumpBelow ==
    ASSUME NEW n \in 0..CountCap
    PROVE  /\ Bump(n) \in 0..CountCap
           /\ n < CountCap => Bump(n) = n + 1
BY ThresholdAssumption DEF Bump

\* A successful probe keeps a link well-formed and its run below the threshold.
LEMMA SuccessInv ==
    ASSUME NEW l, LinkInv(l)
    PROVE  LinkInv(Success(l))
<1>. DEFINE n == Bump(l.successes)
<1>1. /\ l.state \in LinkState
      /\ l.failures \in 0..CountCap
      /\ l.successes \in 0..CountCap
      /\ BelowThreshold(l)
  BY DEF LinkInv, Link
<1>2. n \in 0..CountCap
  BY <1>1, BumpBelow
<1>3. CASE l.state = "down" /\ SuccessesReached(n)
  BY <1>3, ThresholdAssumption
     DEF Success, LinkInv, Link, LinkState, BelowThreshold
<1>4. CASE ~(l.state = "down" /\ SuccessesReached(n))
  <2>1. Success(l) = [l EXCEPT !.failures = 0, !.successes = n]
    BY <1>4 DEF Success
  <2>2. Success(l) \in Link
    <3>1. Success(l) = [state |-> l.state, failures |-> 0, successes |-> n]
      BY <2>1 DEF LinkInv, Link
    <3>2. 0 \in 0..CountCap
      BY ThresholdAssumption
    <3>. HIDE DEF n
    <3>. QED
      BY <1>1, <1>2, <3>1, <3>2 DEF Link
  <2>3. /\ Success(l).state = l.state
        /\ Success(l).failures = 0
        /\ Success(l).successes = n
    BY <2>1, LinkInv(l) DEF LinkInv, Link
  <2>4. BelowThreshold(Success(l))
    BY <1>1, <1>2, <1>4, <2>3, ThresholdAssumption
       DEF BelowThreshold, SuccessesReached, LinkState
  <2>. QED
    BY <2>2, <2>4 DEF LinkInv
<1>. QED
  BY <1>3, <1>4

\* So does a failed probe.
LEMMA FailureInv ==
    ASSUME NEW l, LinkInv(l)
    PROVE  LinkInv(Failure(l))
<1>. DEFINE n == Bump(l.failures)
<1>1. /\ l.state \in LinkState
      /\ l.failures \in 0..CountCap
      /\ l.successes \in 0..CountCap
      /\ BelowThreshold(l)
  BY DEF LinkInv, Link
<1>2. n \in 0..CountCap
  BY <1>1, BumpBelow
<1>3. CASE l.state = "up" /\ FailuresReached(n)
  BY <1>3, ThresholdAssumption
     DEF Failure, LinkInv, Link, LinkState, BelowThreshold
<1>4. CASE ~(l.state = "up" /\ FailuresReached(n))
  <2>1. Failure(l) = [l EXCEPT !.failures = n, !.successes = 0]
    BY <1>4 DEF Failure
  <2>2. Failure(l) \in Link
    <3>1. Failure(l) = [state |-> l.state, failures |-> n, successes |-> 0]
      BY <2>1 DEF LinkInv, Link
    <3>2. 0 \in 0..CountCap
      BY ThresholdAssumption
    <3>. HIDE DEF n
    <3>. QED
      BY <1>1, <1>2, <3>1, <3>2 DEF Link
  <2>3. /\ Failure(l).state = l.state
        /\ Failure(l).failures = n
        /\ Failure(l).successes = 0
    BY <2>1, LinkInv(l) DEF LinkInv, Link
  <2>4. BelowThreshold(Failure(l))
    BY <1>1, <1>2, <1>4, <2>3, ThresholdAssumption
       DEF BelowThreshold, FailuresReached, LinkState
  <2>. QED
    BY <2>2, <2>4 DEF LinkInv
<1>. QED
  BY <1>3, <1>4

\* A probe keeps a link's invariant.
LEMMA UpdateLinkInv ==
    ASSUME NEW l, LinkInv(l), NEW ok \in BOOLEAN
    PROVE  LinkInv(UpdateLink(l, ok))
BY SuccessInv, FailureInv DEF UpdateLink

\* A new link and one that was forced down have nothing held against them.
LEMMA ResetLinkInv ==
    /\ LinkInv(NewLink)
    /\ \A l : LinkInv(ForceDown(l))
BY ThresholdAssumption
   DEF LinkInv, Link, LinkState, BelowThreshold, NewLink, ForceDown

-----------------------------------------------------------------------------
\* One probe is a step of the abstract hysteresis.

\* The abstract steps between two values of a link.
Confirms(l, m) ==
    m.state = l.state /\ Against(m) = 0

Doubts(l, m) ==
    /\ m.state = l.state
    /\ Against(m) = Against(l) + 1
    /\ Against(l) + 1 < IF l.state = "up" THEN FailureThreshold
                                           ELSE RecoveryThreshold

TurnsOver(l, m) ==
    /\ Against(l) + 1 >= IF l.state = "up" THEN FailureThreshold
                                            ELSE RecoveryThreshold
    /\ m.state = IF l.state = "up" THEN "down" ELSE "up"
    /\ Against(m) = 0

\* The counter that runs against the health has not reached the cap.
LEMMA AgainstBelowCap ==
    ASSUME NEW l, LinkInv(l)
    PROVE  /\ l.state = "up"   => l.failures \in 0..CountCap
                                  /\ l.failures < CountCap
           /\ l.state = "down" => l.successes \in 0..CountCap
                                  /\ l.successes < CountCap
BY ThresholdAssumption DEF LinkInv, Link, BelowThreshold

\* A successful probe confirms a link that is up and speaks against one that
\* is down.
LEMMA SuccessSteps ==
    ASSUME NEW l, LinkInv(l)
    PROVE  \/ Confirms(l, Success(l))
           \/ Doubts(l, Success(l))
           \/ TurnsOver(l, Success(l))
<1>. DEFINE n == Bump(l.successes)
<1>1. /\ l \in Link
      /\ l.state \in LinkState
      /\ l.successes \in 0..CountCap
  BY DEF LinkInv, Link
<1>2. l.state = "down" => n = l.successes + 1
  BY <1>1, AgainstBelowCap, BumpBelow
<1>3. CASE l.state = "down" /\ SuccessesReached(n)
  <2>1. Success(l) = [state |-> "up", failures |-> 0, successes |-> 0]
    BY <1>3 DEF Success
  <2>. QED
    BY <1>2, <1>3, <2>1, ThresholdAssumption
       DEF TurnsOver, Against, SuccessesReached
<1>4. CASE ~(l.state = "down" /\ SuccessesReached(n))
  <2>1. Success(l) = [l EXCEPT !.failures = 0, !.successes = n]
    BY <1>4 DEF Success
  <2>2. /\ Success(l).state = l.state
        /\ Success(l).failures = 0
        /\ Success(l).successes = n
    BY <1>1, <2>1 DEF Link
  <2>3. CASE l.state = "up"
    BY <2>2, <2>3 DEF Confirms, Against
  <2>4. CASE l.state = "down"
    <3>1. l.successes + 1 < RecoveryThreshold
      BY <1>1, <1>2, <1>4, <2>4, ThresholdAssumption DEF SuccessesReached
    <3>. QED
      BY <1>2, <2>2, <2>4, <3>1 DEF Doubts, Against
  <2>. QED
    BY <1>1, <2>3, <2>4 DEF LinkState
<1>. QED
  BY <1>3, <1>4

\* A failed probe confirms a link that is down and speaks against one that
\* is up.
LEMMA FailureSteps ==
    ASSUME NEW l, LinkInv(l)
    PROVE  \/ Confirms(l, Failure(l))
           \/ Doubts(l, Failure(l))
           \/ TurnsOver(l, Failure(l))
<1>. DEFINE n == Bump(l.failures)
<1>1. /\ l \in Link
      /\ l.state \in LinkState
      /\ l.failures \in 0..CountCap
  BY DEF LinkInv, Link
<1>2. l.state = "up" => n = l.failures + 1
  BY <1>1, AgainstBelowCap, BumpBelow
<1>3. CASE l.state = "up" /\ FailuresReached(n)
  <2>1. Failure(l) = [state |-> "down", failures |-> 0, successes |-> 0]
    BY <1>3 DEF Failure
  <2>. QED
    BY <1>2, <1>3, <2>1, ThresholdAssumption
       DEF TurnsOver, Against, FailuresReached
<1>4. CASE ~(l.state = "up" /\ FailuresReached(n))
  <2>1. Failure(l) = [l EXCEPT !.failures = n, !.successes = 0]
    BY <1>4 DEF Failure
  <2>2. /\ Failure(l).state = l.state
        /\ Failure(l).failures = n
        /\ Failure(l).successes = 0
    BY <1>1, <2>1 DEF Link
  <2>3. CASE l.state = "down"
    BY <2>2, <2>3 DEF Confirms, Against
  <2>4. CASE l.state = "up"
    <3>1. l.failures + 1 < FailureThreshold
      BY <1>1, <1>2, <1>4, <2>4, ThresholdAssumption DEF FailuresReached
    <3>. QED
      BY <1>2, <2>2, <2>4, <3>1 DEF Doubts, Against
  <2>. QED
    BY <1>1, <2>3, <2>4 DEF LinkState
<1>. QED
  BY <1>3, <1>4

\* One probe is one abstract step.
LEMMA UpdateLinkSteps ==
    ASSUME NEW l, LinkInv(l), NEW ok \in BOOLEAN
    PROVE  \/ Confirms(l, UpdateLink(l, ok))
           \/ Doubts(l, UpdateLink(l, ok))
           \/ TurnsOver(l, UpdateLink(l, ok))
BY SuccessSteps, FailureSteps DEF UpdateLink
=============================================================================

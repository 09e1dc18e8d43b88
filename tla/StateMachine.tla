---------------------------- MODULE StateMachine ----------------------------
(***************************************************************************)
(* The per-link hysteresis of src/uplinkmgr/statemachine.py.  A link is    *)
(* one address family of one uplink; it carries a health and two counters  *)
(* of consecutive probe results.                                           *)
(***************************************************************************)
EXTENDS Integers

CONSTANTS
    FailureThreshold,   \* monitor.failure_threshold
    RecoveryThreshold,  \* monitor.recovery_threshold
    CountCap            \* bound: the counters saturate here

(***************************************************************************)
(* config.py accepts any integer as a threshold.  Saturating at a cap that *)
(* is no smaller than either threshold changes no comparison with them.    *)
(***************************************************************************)
ASSUME ThresholdAssumption ==
    /\ FailureThreshold \in Int
    /\ RecoveryThreshold \in Int
    /\ CountCap \in Nat \ {0}
    /\ FailureThreshold =< CountCap
    /\ RecoveryThreshold =< CountCap

LinkState == {"up", "down"}

Link == [state : LinkState, failures : 0..CountCap, successes : 0..CountCap]

NewLink == [state |-> "up", failures |-> 0, successes |-> 0]

Bump(n) == IF n < CountCap THEN n + 1 ELSE n

\* Mutants: a comparison that is off by one.
MutFailuresReached(n) == n > FailureThreshold
MutSuccessesReached(n) == n > RecoveryThreshold

FailuresReached(n) == n >= FailureThreshold
SuccessesReached(n) == n >= RecoveryThreshold

\* Mutant: a success does not end the run of failures.
MutSuccess(l) ==
    LET n == Bump(l.successes)
    IN  IF l.state = "down" /\ SuccessesReached(n)
        THEN [l EXCEPT !.state = "up", !.successes = 0]
        ELSE [l EXCEPT !.successes = n]

\* One successful probe of link l.
Success(l) ==
    LET n == Bump(l.successes)
    IN  IF l.state = "down" /\ SuccessesReached(n)
        THEN [state |-> "up", failures |-> 0, successes |-> 0]
        ELSE [l EXCEPT !.failures = 0, !.successes = n]

\* One failed probe of link l.
Failure(l) ==
    LET n == Bump(l.failures)
    IN  IF l.state = "up" /\ FailuresReached(n)
        THEN [state |-> "down", failures |-> 0, successes |-> 0]
        ELSE [l EXCEPT !.failures = n, !.successes = 0]

UpdateLink(l, ok) == IF ok THEN Success(l) ELSE Failure(l)

\* Mutant: the counters survive a forced transition.
MutForceDown(l) == [l EXCEPT !.state = "down"]

\* The daemon marks a link down at once when its lease is gone.
ForceDown(l) == [state |-> "down", failures |-> 0, successes |-> 0]

\* The run of probes against the health, read off the two counters.
Against(l) == IF l.state = "up" THEN l.failures ELSE l.successes

(***************************************************************************)
(* A link that is up has not yet seen a full run of failures, one that is  *)
(* down no full run of successes: the counter that matters can always be   *)
(* raised by one, so the cap on it is never felt.                          *)
(***************************************************************************)
BelowThreshold(l) ==
    IF l.state = "up"
    THEN l.failures = 0 \/ l.failures < FailureThreshold
    ELSE l.successes = 0 \/ l.successes < RecoveryThreshold
=============================================================================

----------------------------- MODULE Hysteresis -----------------------------
(***************************************************************************)
(* What the health of one link promises, whatever counters implement it: a *)
(* probe turns the health over only when it is the last of a full run of   *)
(* results against it; the loss of the lease takes the link down at once,  *)
(* and nothing but probes brings it back.                                  *)
(***************************************************************************)
EXTENDS Integers

CONSTANTS
    FailureThreshold,   \* failed probes in a row that take a link down
    RecoveryThreshold   \* successful probes in a row that bring it back

VARIABLES
    health,     \* "up" or "down"
    against     \* length of the current run of probes against the health

hvars == << health, against >>

Threshold == IF health = "up" THEN FailureThreshold ELSE RecoveryThreshold
Opposite  == IF health = "up" THEN "down" ELSE "up"

Init == health = "up" /\ against = 0

\* A probe that confirms the health ends the run against it.
Confirm ==
    /\ against' = 0
    /\ UNCHANGED health

\* A probe against the health, not yet enough of them.
Doubt ==
    /\ against + 1 < Threshold
    /\ against' = against + 1
    /\ UNCHANGED health

\* The probe that completes the run.
TurnOver ==
    /\ against + 1 >= Threshold
    /\ health' = Opposite
    /\ against' = 0

LeaseGone ==
    /\ health = "up"
    /\ health' = "down"
    /\ against' = 0

Next == Confirm \/ Doubt \/ TurnOver \/ LeaseGone

Spec == Init /\ [][Next]_hvars
=============================================================================

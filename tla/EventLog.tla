------------------------------ MODULE EventLog ------------------------------
(***************************************************************************)
(* What HookRunner promises about events: each one that is fired is        *)
(* handled at most once, one at a time, in the order of firing             *)
(* (src/uplinkmgr/hooks.py, class HookRunner).                             *)
(***************************************************************************)
EXTENDS Naturals, Sequences

CONSTANT Events

VARIABLES
    fired,      \* the events, in the order they were fired
    begun       \* the events whose scripts were started, in that order

vars == << fired, begun >>

Init == fired = << >> /\ begun = << >>

Fire ==
    /\ \E e \in Events : fired' = Append(fired, e)
    /\ UNCHANGED begun

Begin ==
    /\ Len(begun) < Len(fired)
    /\ begun' = Append(begun, fired[Len(begun) + 1])
    /\ UNCHANGED fired

Next == Fire \/ Begin

Spec == Init /\ [][Next]_vars
=============================================================================

------------------------------ MODULE MCHooks -------------------------------
(***************************************************************************)
(* Small instances of HookRunner for TLC.                                  *)
(***************************************************************************)
EXTENDS HookProps

CONSTANTS s10, s20, u15, u25    \* entries, named for place and directory

\* The administrator's 15-b and 25-a shadow the system's 20-b and 10-a.
McStem == [s \in Entries |-> IF s \in {s10, u25} THEN "a" ELSE "b"]
McRank == [s \in Entries |-> CASE s = s10 -> 10 [] s = u15 -> 15
                               [] s = s20 -> 20 [] s = u25 -> 25]
=============================================================================

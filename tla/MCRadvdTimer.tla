---------------------------- MODULE MCRadvdTimer ----------------------------
(***************************************************************************)
(* Small instances of RadvdTimer for TLC.                                  *)
(***************************************************************************)
EXTENDS RadvdTimerProps

CONSTANTS p, q

McPrefixes == {p, q}

\* Infinite, and longer than the rate limit.
McLifetimes == {0, 5}
=============================================================================

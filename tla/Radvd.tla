------------------------------- MODULE Radvd --------------------------------
(***************************************************************************)
(* The radvd configuration regenerate_all (src/uplinkmgr/radvd.py) writes  *)
(* for one uplink: preference tier, whether the lifetimes are the live     *)
(* ones or zeroed, whether it is a default router, and the prefix it is    *)
(* derived from.  Uplinks are numbered in configuration order.             *)
(***************************************************************************)
EXTENDS Integers

CONSTANTS
    PdUplinks,              \* the uplinks with ipv6_pd: true
    ExclusivePreferredPd    \* exclusive_preferred_pd

ASSUME RadvdAssumption ==
    /\ PdUplinks \subseteq Nat
    /\ ExclusivePreferredPd \in BOOLEAN

Preferences == {"high", "medium", "low"}

\* "live": lifetimes count down from the lease and may have run out.
\* "deprecated": a secondary uplink under exclusive_preferred_pd, no default
\* router, not preferred.
\* "withdrawn": a DOWN uplink, every lifetime zero.
Lifetimes == {"live", "deprecated", "withdrawn"}

\* Mutant: the last uplink of the configuration is preferred.
MutIsPrimaryIpv6(u, up) ==
    /\ u \in PdUplinks \cap up
    /\ \A v \in PdUplinks \cap up : u >= v

\* up: the uplinks whose IPv6 health is UP.
IsPrimaryIpv6(u, up) ==
    /\ u \in PdUplinks \cap up
    /\ \A v \in PdUplinks \cap up : u =< v

PreferenceFor(u, up) ==
    IF u \notin up THEN "low"
    ELSE IF IsPrimaryIpv6(u, up) THEN "high"
    ELSE "medium"

IsSecondary(u, up) ==
    ExclusivePreferredPd /\ u \in up /\ ~IsPrimaryIpv6(u, up)

LifetimesFor(u, up) ==
    IF u \notin up THEN "withdrawn"
    ELSE IF IsSecondary(u, up) THEN "deprecated"
    ELSE "live"

\* Whether any of the upstream router's lifetime can be left: the fallback
\* without an advertisement, 0 of one stored with lifetime 0.
LifetimeLeft(ra, none) ==
    IF ra = none THEN {TRUE} ELSE IF ra.expires THEN BOOLEAN ELSE {FALSE}

\* router: AdvDefaultLifetime is not 0.
ConfFor(u, up, pd, left) ==
    [preference |-> PreferenceFor(u, up),
     lifetimes  |-> LifetimesFor(u, up),
     router     |-> left /\ LifetimesFor(u, up) = "live",
     prefix     |-> pd]

\* What uplinkmgr-setup writes before the daemon ever ran (generator.py).
InitialConf(none) ==
    [preference |-> "high", lifetimes |-> "live", router |-> TRUE,
     prefix |-> none]
=============================================================================

----------------------------- MODULE RadvdTimer -----------------------------
(***************************************************************************)
(* When radvd gets to see what the daemon writes for it: the rate limit of *)
(* _do_reconcile, its two exceptions, and the other paths that signal      *)
(* radvd, in discrete time since boot; one uplink with prefix delegation.  *)
(* The daemon answers a signal before the clock goes on.                   *)
(***************************************************************************)
EXTENDS Integers

CONSTANTS
    MinInterval,        \* radvd_min_restart_interval
    MaxRtrAdvInterval,  \* the least AdvDefaultLifetime radvd takes
    DefaultLifetimeMax, \* and the greatest
    Fallback,           \* INITIAL_DEFAULT_LIFETIME
    RouterLifetimes,    \* of router advertisements, 0 for infinite
    Prefixes,           \* delegated prefixes
    None,               \* no advertisement, or the ::/64 of uplinkmgr-setup
    Gap,                \* a living router advertises that often
    MaxClock            \* bound: the clock

ASSUME TimerAssumption ==
    /\ MinInterval \in Nat /\ Gap \in Nat \ {0}
    /\ RouterLifetimes \subseteq Nat
    /\ MaxRtrAdvInterval \in 1 .. DefaultLifetimeMax
    /\ Fallback \in MaxRtrAdvInterval .. DefaultLifetimeMax

VARIABLES
    clock,      \* time.monotonic, and time.time
    ra,         \* ipv6ra.state, [lifetime, timestamp] or None
    pd,         \* the prefix in ipv6pd.state
    alive,      \* the upstream router advertises
    quiet,      \* time since its last advertisement
    expired,    \* dhcpcd has told that the advertisement expired
    running,    \* the daemon runs
    signal,     \* _reconcile_requested
    up,         \* health of IPv6
    last,       \* _last_radvd_sighup
    conf,       \* the file of the radvd instance
    loaded,     \* what radvd read of it at the last SIGHUP
    hup,        \* when that was; not known to the daemon
    waiting     \* for how long radvd has had an old prefix

router == << ra, pd, alive, quiet, expired >>
vars == << clock, router, running, signal, up, last, conf, loaded, hup, waiting >>

-----------------------------------------------------------------------------
Monus(a, b) == IF a > b THEN a - b ELSE 0

\* IPv6RaState.remaining_lifetime, of a lifetime that is not infinite.
remaining_lifetime(t) == Monus(ra.lifetime, t - ra.timestamp)

clamp_default_lifetime(seconds) ==
    IF seconds = 0 THEN 0
    ELSE IF seconds < MaxRtrAdvInterval THEN MaxRtrAdvInterval
    ELSE IF seconds > DefaultLifetimeMax THEN DefaultLifetimeMax
    ELSE seconds

\* regenerate_all: the router lifetime; 0 for an infinite one.
DefaultLifetime(t, health) ==
    IF ~health THEN 0
    ELSE IF ra = None THEN Fallback
    ELSE IF ra.lifetime = 0 THEN 0
    ELSE clamp_default_lifetime(remaining_lifetime(t))

Regenerated(health) ==
    [default |-> DefaultLifetime(clock, health), prefix |-> pd]

\* _min_gw_remaining =< radvd_min_restart_interval.
Urgent ==
    /\ ra # None
    /\ ra.lifetime # 0
    /\ remaining_lifetime(clock) =< MinInterval

\* Mutant: the lifetime is not looked at.
MutMayHup == clock - last >= MinInterval

MayHup == clock - last >= MinInterval \/ Urgent

-----------------------------------------------------------------------------
\* regenerate_all with action "sighup", and with "write".
Sighup(health) ==
    /\ conf' = Regenerated(health)
    /\ loaded' = conf'
    /\ hup' = clock
    /\ waiting' = 0

Write ==
    /\ conf' = Regenerated(up)
    /\ UNCHANGED << loaded, hup, waiting >>

\* Mutant: the time is noted whether or not radvd was signalled.
MutReconcile ==
    /\ signal
    /\ signal' = FALSE
    /\ last' = clock
    /\ IF MayHup THEN Sighup(up) ELSE Write
    /\ UNCHANGED << clock, router, running, up >>

\* _do_reconcile.
Reconcile ==
    /\ signal
    /\ signal' = FALSE
    /\ IF MayHup
       THEN Sighup(up) /\ last' = clock
       ELSE Write /\ UNCHANGED last
    /\ UNCHANGED << clock, router, running, up >>

\* _do_radvd_sighup.
Usr2 ==
    /\ running
    /\ Sighup(up)
    /\ last' = clock
    /\ UNCHANGED << clock, router, running, signal, up >>

\* A probe cycle that changes the health; it does not touch last.
CycleChange ==
    /\ running
    /\ up' = ~up
    /\ Sighup(up')
    /\ UNCHANGED << clock, router, running, signal, last >>

\* dhcpcd -g makes the hook signal; a dhcpcd that does not answer is left out.
Start ==
    /\ ~running
    /\ running' = TRUE
    /\ up' = TRUE
    /\ last' = 0
    /\ signal' = TRUE
    /\ UNCHANGED << clock, router, conf, loaded, hup, waiting >>

\* _cleanup leaves radvd as if every uplink were up.
Stop ==
    /\ running
    /\ running' = FALSE
    /\ signal' = FALSE
    /\ Sighup(TRUE)
    /\ UNCHANGED << clock, router, up, last >>

-----------------------------------------------------------------------------
\* The hook on an advertisement of the router, or on a lease with a prefix;
\* the signal is for a daemon that runs.
Hook ==
    /\ signal' = running
    /\ UNCHANGED << clock, running, up, last, conf, loaded, hup, waiting >>

Advertisement ==
    /\ \E lifetime \in RouterLifetimes :
         ra' = [lifetime |-> lifetime, timestamp |-> clock]
    /\ alive' = TRUE
    /\ quiet' = 0
    /\ expired' = FALSE
    /\ UNCHANGED pd
    /\ Hook

Delegation ==
    /\ \E p \in Prefixes \ {pd} : pd' = p
    /\ UNCHANGED << ra, alive, quiet, expired >>
    /\ Hook

Gone ==
    ra # None /\ ra.lifetime # 0 /\ remaining_lifetime(clock) = 0

\* dhcpcd runs the hook when an advertisement expires; the state file stays.
Expire ==
    /\ Gone
    /\ ~expired
    /\ expired' = TRUE
    /\ UNCHANGED << ra, pd, alive, quiet >>
    /\ Hook

RouterDies ==
    /\ alive
    /\ alive' = FALSE
    /\ UNCHANGED << clock, ra, pd, quiet, expired, running, signal, up, last,
                    conf, loaded, hup, waiting >>

Tick ==
    /\ clock < MaxClock
    /\ ~signal
    /\ Gone => expired
    /\ alive => quiet < Gap
    /\ clock' = clock + 1
    /\ quiet' = IF alive THEN quiet + 1 ELSE quiet
    /\ waiting' = IF running /\ loaded.prefix # pd THEN waiting + 1 ELSE 0
    /\ UNCHANGED << ra, pd, alive, expired, running, signal, up, last, conf,
                    loaded, hup >>

Init ==
    /\ clock = 0
    /\ ra = None /\ pd = None
    /\ alive = FALSE /\ quiet = 0 /\ expired = FALSE
    /\ running = FALSE /\ signal = FALSE
    /\ up = TRUE
    /\ last = 0
    /\ conf = [default |-> Fallback, prefix |-> None]
    /\ loaded = conf
    /\ hup = 0
    /\ waiting = 0

Next ==
    \/ Reconcile \/ Usr2 \/ CycleChange \/ Start \/ Stop
    \/ Advertisement \/ Delegation \/ Expire \/ RouterDies
    \/ Tick

Spec == Init /\ [][Next]_vars
=============================================================================

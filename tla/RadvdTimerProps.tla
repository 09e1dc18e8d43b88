-------------------------- MODULE RadvdTimerProps ---------------------------
(***************************************************************************)
(* What the rate limit of radvd's SIGHUPs must keep up.                    *)
(***************************************************************************)
EXTENDS RadvdTimer

\* radvd takes AdvDefaultLifetime 0 or a value between its bounds, and
\* refuses a file with any other.
Accepted == {0} \cup MaxRtrAdvInterval .. DefaultLifetimeMax

TypeOK ==
    /\ clock \in 0 .. MaxClock
    /\ last \in 0 .. clock /\ hup \in 0 .. clock
    /\ ra = None \/ (ra.lifetime \in RouterLifetimes /\ ra.timestamp \in 0 .. clock)
    /\ pd \in Prefixes \cup {None}
    /\ quiet \in 0 .. Gap
    /\ waiting \in 0 .. MaxClock
    /\ \A c \in {conf, loaded} :
         c.default \in Accepted /\ c.prefix \in Prefixes \cup {None}

\* While the router advertises, a new prefix reaches radvd before the rate
\* limit and one gap between advertisements have passed, though the daemon
\* starts no timer for what it held back: the next signal makes up for it.
\* (_do_reconcile)
ChangeReachesRadvd == alive /\ ~signal => waiting < MinInterval + Gap

\* Once an advertisement of finite lifetime has expired and dhcpcd has said
\* so, the clients no longer have this router, rate limit or not.  No later
\* signal would make up for one that is skipped.  (_min_gw_remaining)
ExpiredRouterWithdrawn ==
    running /\ ~signal /\ Gone /\ expired => loaded.default = 0

\* SPEC.md 5.3.5: a SIGUSR1 makes for a SIGHUP only when the "seconds since
\* the last radvd SIGHUP" have reached the interval, or when it is urgent.
RateLimited ==
    [][signal /\ ~signal' /\ running' /\ hup' # hup =>
         clock - hup >= MinInterval \/ Urgent]_vars

\* SPEC.md 16.3: clients are without a useful prefix only "until the daemon
\* regenerates the config after the first SIGUSR1".
FirstSignalReaches == conf.prefix # None => loaded.prefix # None
=============================================================================

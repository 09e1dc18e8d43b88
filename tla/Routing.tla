------------------------------ MODULE Routing -------------------------------
(***************************************************************************)
(* What the daemon installs in the kernel for one uplink, and how one      *)
(* reconcile pass changes it: src/uplinkmgr/routing.py and the             *)
(* _reconcile_* and _teardown_* methods of src/uplinkmgr/daemon.py.        *)
(*                                                                         *)
(* `inst' is what the daemon remembers it installed (_UplinkRouting),      *)
(* `kern' what the kernel holds.  A route entry holds its gateway; a rule  *)
(* slot (one priority of `ip rule') holds the selectors of its rules,      *)
(* oldest first.  All networks of an uplink are treated alike by the code, *)
(* so one fwd slot and one prohibit slot stand for the slots of them all.  *)
(***************************************************************************)
EXTENDS Sequences

CONSTANTS
    None,               \* no value: Python's None, an absent file
    NoFrom,             \* the selector of a rule with no `from'
    RejectWrongPdSrc    \* reject_wrong_pd_src

ASSUME RoutingAssumption ==
    /\ RejectWrongPdSrc \in BOOLEAN
    /\ NoFrom # None

-----------------------------------------------------------------------------
\* The ip(8) commands.

\* `ip rule add': the kernel refuses a rule it already has.
AddRule(slot, sel) ==
    IF \E i \in DOMAIN slot : slot[i] = sel THEN slot ELSE Append(slot, sel)

\* `ip rule del priority P': removes the oldest rule of that priority.
DelRule(slot) == IF slot = << >> THEN slot ELSE Tail(slot)

\* Mutant: the new rule is added, the old one is left behind.
MutReplaceRule(slot, old, new) ==
    IF new = None THEN slot ELSE AddRule(slot, new)

\* Delete the rule remembered as `old', if any, then add `new', if any.
ReplaceRule(slot, old, new) ==
    LET rest == IF old = None THEN slot ELSE DelRule(slot)
    IN  IF new = None THEN rest ELSE AddRule(rest, new)

-----------------------------------------------------------------------------
NoInst == [gateway |-> None, addr |-> None, route6 |-> FALSE, lo |-> None,
           pdLo |-> None, fwd |-> None, prohibit |-> FALSE]

NoKern == [shared |-> None, own |-> None, addr |-> << >>, route6 |-> None,
           lo |-> << >>, pdLo |-> << >>, fwd |-> << >>, prohibit |-> << >>]

-----------------------------------------------------------------------------
\* What the state files and the health call for.

WantGateway(lease, up) == IF lease # None /\ up THEN lease.gateway ELSE None
WantAddr(lease, up)    == IF lease # None /\ up THEN lease.address ELSE None

\* The source an uplink's own IPv6 traffic is recognised by: the IA_NA
\* address, else what the router advertisement offers (prefix or address).
WantSource(ra, na, up) ==
    IF ~up THEN None
    ELSE IF na # None THEN na
    ELSE IF ra # None THEN ra.source
    ELSE None

WantPdSource(pd, up) == IF pd # None /\ up THEN pd ELSE None

\* Mutant: the option is not consulted.
MutWantFwd(pd) == NoFrom

\* The from-constraint of the forwarding rule once a prefix is known.
WantFwd(pd) == IF RejectWrongPdSrc THEN pd ELSE NoFrom

Route6(ra) == [gateway |-> ra.gateway, expires |-> ra.expires]

-----------------------------------------------------------------------------
\* The kernel k after the pass that turns the bookkeeping i into j.  Routes
\* and rules are touched only where i and j differ.

Follow4(k, i, j) ==
    LET same == j.gateway = i.gateway
    IN  [k EXCEPT !.shared = IF same THEN @ ELSE j.gateway,
                  !.own    = IF same THEN @ ELSE j.gateway,
                  !.addr   = IF j.addr = i.addr THEN @
                             ELSE ReplaceRule(@, i.addr, j.addr)]

\* x: the IPv6 default route, which is handled on every pass.
Follow6(k, i, j, x) ==
    [k EXCEPT !.route6 = x,
              !.lo   = IF j.lo = i.lo THEN @
                       ELSE ReplaceRule(@, i.lo, j.lo),
              !.pdLo = IF j.pdLo = i.pdLo THEN @
                       ELSE ReplaceRule(@, i.pdLo, j.pdLo),
              !.fwd  = IF j.fwd = i.fwd THEN @
                       ELSE AddRule(DelRule(@), j.fwd),
              !.prohibit = IF j.prohibit = i.prohibit THEN @
                           ELSE IF j.prohibit THEN AddRule(@, NoFrom)
                           ELSE DelRule(@)]

-----------------------------------------------------------------------------
\* r is [inst |-> ..., kern |-> ...], before the pass and after it.

ReconcileIpv4(r, lease, up) ==
    LET j == [r.inst EXCEPT !.gateway = WantGateway(lease, up),
                            !.addr    = WantAddr(lease, up)]
    IN  [inst |-> j, kern |-> Follow4(r.kern, r.inst, j)]

\* Mutant: a route that is already installed is not replaced.
MutKernRoute6(r, ra) ==
    IF ra # None THEN IF r.inst.route6 THEN r.kern.route6 ELSE Route6(ra)
    ELSE IF r.inst.route6 THEN None
    ELSE r.kern.route6

\* The IPv6 default route is replaced on every pass, to refresh its expiry.
\* It follows the router advertisement alone, whatever the health.
KernRoute6(r, ra) ==
    IF ra # None THEN Route6(ra)
    ELSE IF r.inst.route6 THEN None
    ELSE r.kern.route6

\* The forwarding rule is static: a pass may narrow it, never remove it.
\* An entry that is missing and one without constraint compare alike
\* (dict.get).
NextFwd(r, pd) ==
    LET have == IF r.inst.fwd = None THEN NoFrom ELSE r.inst.fwd
    IN  IF pd # None /\ have # WantFwd(pd) THEN WantFwd(pd) ELSE r.inst.fwd

NextProhibit(r, pd) == pd # None /\ (r.inst.prohibit \/ RejectWrongPdSrc)

ReconcileIpv6(r, ra, pd, na, up) ==
    LET j == [r.inst EXCEPT !.route6   = (ra # None),
                            !.lo       = WantSource(ra, na, up),
                            !.pdLo     = WantPdSource(pd, up),
                            !.fwd      = NextFwd(r, pd),
                            !.prohibit = NextProhibit(r, pd)]
    IN  [inst |-> j,
         kern |-> Follow6(r.kern, r.inst, j, KernRoute6(r, ra))]

\* The forwarding rules are installed unconditionally, before any prefix
\* is known.
SetupMacvlanRules(r) ==
    [inst |-> [r.inst EXCEPT !.fwd = NoFrom],
     kern |-> [r.kern EXCEPT !.fwd = AddRule(@, NoFrom)]]

\* Mutant: teardown forgets a rule without deleting it.
MutUndo(slot, installed) == slot

\* Remove what is remembered as installed.
Undo(slot, installed) == IF installed THEN DelRule(slot) ELSE slot

TeardownIpv4(k, i) ==
    [k EXCEPT !.shared = IF i.gateway # None THEN None ELSE @,
              !.own    = IF i.gateway # None THEN None ELSE @,
              !.addr   = Undo(@, i.addr # None)]

TeardownIpv6(k, i) ==
    [k EXCEPT !.route6   = IF i.route6 THEN None ELSE @,
              !.lo       = Undo(@, i.lo # None),
              !.pdLo     = Undo(@, i.pdLo # None),
              !.fwd      = Undo(@, i.fwd # None),
              !.prohibit = Undo(@, i.prohibit)]

\* v6 says whether the uplink has IPv6 configured.
Teardown(r, v6) ==
    LET i  == r.inst
        k4 == TeardownIpv4(r.kern, i)
    IN  IF v6 THEN [inst |-> NoInst, kern |-> TeardownIpv6(k4, i)]
        ELSE [inst |-> [i EXCEPT !.gateway = None, !.addr = None],
              kern |-> k4]

-----------------------------------------------------------------------------
\* A slot of the bookkeeping, as the kernel holds it.
Slot(x) == IF x = None THEN << >> ELSE << x >>

\* The kernel state that agrees with the bookkeeping i, rule for rule, with
\* the IPv6 route x.
Mirror(i, x) ==
    [shared |-> i.gateway, own |-> i.gateway, addr |-> Slot(i.addr),
     route6 |-> x, lo |-> Slot(i.lo), pdLo |-> Slot(i.pdLo),
     fwd |-> Slot(i.fwd),
     prohibit |-> IF i.prohibit THEN << NoFrom >> ELSE << >>]

\* The kernel holds what is remembered; only an IPv6 route may be missing,
\* when its lifetime ran out.
Tracked(i, k) ==
    /\ k = Mirror(i, k.route6)
    /\ k.route6 # None => i.route6
=============================================================================

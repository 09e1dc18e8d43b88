---------------------------- MODULE DaemonProofs ----------------------------
(***************************************************************************)
(* What holds of the daemon for every number of uplinks, every             *)
(* configuration and every content of the state files: first the operators *)
(* of a pass, then the inductive invariant, one part after the other, and  *)
(* at the end the theorems.                                                *)
(***************************************************************************)
EXTENDS DaemonProps, StateMachineProofs, WellFoundedInduction

-----------------------------------------------------------------------------
\* The operators of module Routing: whatever the state files hold, a pass or
\* a teardown of one uplink leaves the kernel with exactly what the daemon
\* remembers.

\* The bookkeeping has the fields of _UplinkRouting.
IsInst(i) ==
    /\ i = [gateway |-> i.gateway, addr |-> i.addr, route6 |-> i.route6,
            lo |-> i.lo, pdLo |-> i.pdLo, fwd |-> i.fwd,
            prohibit |-> i.prohibit]
    /\ i.route6 \in BOOLEAN
    /\ i.prohibit \in BOOLEAN

\* Deleting the one rule of a slot empties it.
LEMMA DelOnly == \A x : DelRule(Slot(x)) = << >>
<1>. TAKE x
<1>1. Tail(<< x >>) = << >>
  OBVIOUS
<1>. QED
  BY <1>1 DEF DelRule, Slot

\* Adding a rule to an empty slot makes it the only one.
LEMMA AddFirst ==
    ASSUME NEW y, y # None
    PROVE  AddRule(<< >>, y) = Slot(y)
<1>1. Append(<< >>, y) = << y >>
  OBVIOUS
<1>2. ~ \E i \in DOMAIN << >> : << >>[i] = y
  OBVIOUS
<1>. QED
  BY <1>1, <1>2 DEF AddRule, Slot

\* Replacing what is remembered by what is wanted.
LEMMA ReplaceOnly ==
    \A x, y : ReplaceRule(Slot(x), x, y) = Slot(y)
<1>. TAKE x, y
<1>1. (IF x = None THEN Slot(x) ELSE DelRule(Slot(x))) = << >>
  BY DelOnly DEF Slot
<1>2. CASE y = None
  BY <1>1, <1>2 DEF ReplaceRule, Slot
<1>3. CASE y # None
  BY <1>1, <1>3, AddFirst DEF ReplaceRule
<1>. QED
  BY <1>2, <1>3

\* The prohibit slot, likewise.
LEMMA ProhibitOnly ==
    /\ AddRule(<< >>, NoFrom) = << NoFrom >>
    /\ DelRule(<< NoFrom >>) = << >>
BY AddFirst, DelOnly, RoutingAssumption DEF Slot

\* The kernel follows the bookkeeping from i to j: IPv4.
LEMMA Follow4Mirrors ==
    ASSUME NEW i, NEW x, NEW j,
           j.lo = i.lo, j.pdLo = i.pdLo, j.fwd = i.fwd,
           j.prohibit = i.prohibit
    PROVE  Follow4(Mirror(i, x), i, j) = Mirror(j, x)
<1>. DEFINE k == Follow4(Mirror(i, x), i, j)
<1>1. k = Follow4(Mirror(i, x), i, j)
  OBVIOUS
<1>. HIDE DEF k
<1>2. k = [shared |-> IF j.gateway = i.gateway THEN i.gateway ELSE j.gateway,
           own |-> IF j.gateway = i.gateway THEN i.gateway ELSE j.gateway,
           addr |-> IF j.addr = i.addr THEN Slot(i.addr)
                    ELSE ReplaceRule(Slot(i.addr), i.addr, j.addr),
           route6 |-> x, lo |-> Slot(i.lo), pdLo |-> Slot(i.pdLo),
           fwd |-> Slot(i.fwd),
           prohibit |-> IF i.prohibit THEN << NoFrom >> ELSE << >>]
  BY <1>1 DEF Follow4, Mirror
<1>3. k = Mirror(j, x)
  BY <1>2, ReplaceOnly DEF Mirror
<1>. QED
  BY <1>1, <1>3

\* The kernel follows the bookkeeping from i to j: IPv6.
LEMMA Follow6Mirrors ==
    ASSUME NEW i, NEW x, NEW j, NEW y,
           j.gateway = i.gateway, j.addr = i.addr,
           j.fwd # i.fwd => j.fwd # None,
           i.prohibit \in BOOLEAN, j.prohibit \in BOOLEAN
    PROVE  Follow6(Mirror(i, x), i, j, y) = Mirror(j, y)
<1>. DEFINE p == IF i.prohibit THEN << NoFrom >> ELSE << >>
<1>. DEFINE k == Follow6(Mirror(i, x), i, j, y)
<1>0. k = Follow6(Mirror(i, x), i, j, y)
  OBVIOUS
<1>. HIDE DEF k
<1>1. k = [shared |-> i.gateway, own |-> i.gateway, addr |-> Slot(i.addr),
           route6 |-> y,
           lo |-> IF j.lo = i.lo THEN Slot(i.lo)
                  ELSE ReplaceRule(Slot(i.lo), i.lo, j.lo),
           pdLo |-> IF j.pdLo = i.pdLo THEN Slot(i.pdLo)
                    ELSE ReplaceRule(Slot(i.pdLo), i.pdLo, j.pdLo),
           fwd |-> IF j.fwd = i.fwd THEN Slot(i.fwd)
                   ELSE AddRule(DelRule(Slot(i.fwd)), j.fwd),
           prohibit |-> IF j.prohibit = i.prohibit THEN p
                        ELSE IF j.prohibit THEN AddRule(p, NoFrom)
                        ELSE DelRule(p)]
  BY <1>0 DEF Follow6, Mirror
<1>2. (IF j.fwd = i.fwd THEN Slot(i.fwd)
       ELSE AddRule(DelRule(Slot(i.fwd)), j.fwd)) = Slot(j.fwd)
  BY DelOnly, AddFirst
<1>3. (IF j.prohibit = i.prohibit THEN p
       ELSE IF j.prohibit THEN AddRule(p, NoFrom) ELSE DelRule(p))
        = IF j.prohibit THEN << NoFrom >> ELSE << >>
  BY ProhibitOnly
<1>. HIDE DEF p
<1>4. k = Mirror(j, y)
  BY <1>1, <1>2, <1>3, ReplaceOnly DEF Mirror
<1>. QED
  BY <1>0, <1>4

\* The IPv4 pass (_reconcile_uplink_ipv4).
LEMMA ReconcileIpv4Mirrors ==
    ASSUME NEW i, IsInst(i), NEW x, NEW lease, NEW up
    PROVE  LET R == ReconcileIpv4([inst |-> i, kern |-> Mirror(i, x)],
                                  lease, up)
           IN  /\ R.inst = [gateway |-> WantGateway(lease, up),
                            addr |-> WantAddr(lease, up),
                            route6 |-> i.route6, lo |-> i.lo,
                            pdLo |-> i.pdLo, fwd |-> i.fwd,
                            prohibit |-> i.prohibit]
               /\ R.kern = Mirror(R.inst, x)
<1>. DEFINE gw == WantGateway(lease, up)
            ad == WantAddr(lease, up)
            j  == [i EXCEPT !.gateway = gw, !.addr = ad]
<1>1. j = [gateway |-> gw, addr |-> ad, route6 |-> i.route6,
           lo |-> i.lo, pdLo |-> i.pdLo, fwd |-> i.fwd,
           prohibit |-> i.prohibit]
  <2>1. j = [i EXCEPT !.gateway = gw, !.addr = ad]
    OBVIOUS
  <2>. HIDE DEF j, gw, ad
  <2>. QED
    BY <2>1 DEF IsInst
<1>2. ReconcileIpv4([inst |-> i, kern |-> Mirror(i, x)], lease, up)
        = [inst |-> j, kern |-> Follow4(Mirror(i, x), i, j)]
  BY DEF ReconcileIpv4
<1>. HIDE DEF gw, ad, j
<1>3. Follow4(Mirror(i, x), i, j) = Mirror(j, x)
  BY <1>1, Follow4Mirrors
<1>. QED
  BY <1>1, <1>2, <1>3 DEF gw, ad

\* The IPv6 pass (_reconcile_uplink_ipv6, _reconcile_macvlan_rules).
LEMMA ReconcileIpv6Mirrors ==
    ASSUME NEW i, IsInst(i), NEW x, x # None => i.route6,
           NEW ra, NEW pd, NEW na, NEW up
    PROVE  LET r == [inst |-> i, kern |-> Mirror(i, x)]
               R == ReconcileIpv6(r, ra, pd, na, up)
               y == KernRoute6(r, ra)
           IN  /\ R.inst = [gateway |-> i.gateway, addr |-> i.addr,
                            route6 |-> ra # None,
                            lo |-> WantSource(ra, na, up),
                            pdLo |-> WantPdSource(pd, up),
                            fwd |-> NextFwd(r, pd),
                            prohibit |-> NextProhibit(r, pd)]
               /\ R.inst.prohibit \in BOOLEAN
               /\ R.kern = Mirror(R.inst, y)
               /\ y # None => ra # None
<1>. DEFINE r == [inst |-> i, kern |-> Mirror(i, x)]
            r6 == ra # None
            lo == WantSource(ra, na, up)
            pdLo == WantPdSource(pd, up)
            fwd  == NextFwd(r, pd)
            proh == NextProhibit(r, pd)
            j == [i EXCEPT !.route6 = r6, !.lo = lo, !.pdLo = pdLo,
                           !.fwd = fwd, !.prohibit = proh]
            y == KernRoute6(r, ra)
<1>1. fwd # i.fwd => fwd # None
  BY RoutingAssumption DEF NextFwd, WantFwd
<1>2. i.prohibit \in BOOLEAN /\ proh \in BOOLEAN
  BY RoutingAssumption DEF IsInst, NextProhibit
<1>3. y # None => ra # None
  BY DEF KernRoute6, Mirror
<1>4. ReconcileIpv6(r, ra, pd, na, up)
        = [inst |-> j, kern |-> Follow6(Mirror(i, x), i, j, y)]
  BY DEF ReconcileIpv6
<1>. HIDE DEF r, r6, lo, pdLo, fwd, proh, y
<1>5. j = [gateway |-> i.gateway, addr |-> i.addr, route6 |-> r6,
           lo |-> lo, pdLo |-> pdLo, fwd |-> fwd, prohibit |-> proh]
  <2>1. j = [i EXCEPT !.route6 = r6, !.lo = lo, !.pdLo = pdLo,
                      !.fwd = fwd, !.prohibit = proh]
    OBVIOUS
  <2>. HIDE DEF j
  <2>. QED
    BY <2>1 DEF IsInst
<1>. HIDE DEF j
<1>6. Follow6(Mirror(i, x), i, j, y) = Mirror(j, y)
  BY <1>1, <1>2, <1>5, Follow6Mirrors
<1>7. LET R == ReconcileIpv6(r, ra, pd, na, up)
      IN  /\ R.inst = [gateway |-> i.gateway, addr |-> i.addr,
                       route6 |-> r6, lo |-> lo, pdLo |-> pdLo,
                       fwd |-> fwd, prohibit |-> proh]
          /\ R.inst.prohibit \in BOOLEAN
          /\ R.kern = Mirror(R.inst, y)
          /\ y # None => ra # None
  BY <1>2, <1>3, <1>4, <1>5, <1>6
<1>. QED
  BY <1>7, Zenon DEF r, r6, lo, pdLo, fwd, proh, y

\* The forwarding rule installed before any prefix is known, where there is
\* none yet (_setup_ipv6_macvlan_rules).
LEMMA SetupMirrors ==
    ASSUME NEW i, IsInst(i), i.fwd = None, NEW x
    PROVE  LET R == SetupMacvlanRules([inst |-> i, kern |-> Mirror(i, x)])
           IN  /\ R.inst = [gateway |-> i.gateway, addr |-> i.addr,
                            route6 |-> i.route6, lo |-> i.lo,
                            pdLo |-> i.pdLo, fwd |-> NoFrom,
                            prohibit |-> i.prohibit]
               /\ R.kern = Mirror(R.inst, x)
<1>. DEFINE R == SetupMacvlanRules([inst |-> i, kern |-> Mirror(i, x)])
<1>1. R.inst = [i EXCEPT !.fwd = NoFrom]
  BY DEF SetupMacvlanRules
<1>2. R.inst = [gateway |-> i.gateway, addr |-> i.addr,
                route6 |-> i.route6, lo |-> i.lo, pdLo |-> i.pdLo,
                fwd |-> NoFrom, prohibit |-> i.prohibit]
  <2>. HIDE DEF R
  <2>. QED
    BY <1>1 DEF IsInst
<1>3. R.kern = [shared |-> i.gateway, own |-> i.gateway,
                addr |-> Slot(i.addr), route6 |-> x, lo |-> Slot(i.lo),
                pdLo |-> Slot(i.pdLo), fwd |-> AddRule(Slot(i.fwd), NoFrom),
                prohibit |-> IF i.prohibit THEN << NoFrom >> ELSE << >>]
  BY DEF SetupMacvlanRules, Mirror
<1>4. AddRule(Slot(i.fwd), NoFrom) = Slot(NoFrom)
  BY AddFirst, RoutingAssumption DEF Slot
<1>. HIDE DEF R
<1>5. R.kern = Mirror(R.inst, x)
  BY <1>2, <1>3, <1>4 DEF Mirror
<1>. QED
  BY <1>2, <1>5 DEF R

\* An uplink without IPv6 never had anything of it installed.
V4Only(i) ==
    /\ i.route6 = FALSE
    /\ i.lo = None
    /\ i.pdLo = None
    /\ i.fwd = None
    /\ i.prohibit = FALSE

\* Teardown forgets everything and leaves nothing behind (_teardown_all).
LEMMA TeardownClears ==
    ASSUME NEW i, IsInst(i), NEW x, x # None => i.route6,
           NEW v6 \in BOOLEAN, ~v6 => V4Only(i)
    PROVE  LET R == Teardown([inst |-> i, kern |-> Mirror(i, x)], v6)
           IN  R.inst = NoInst /\ R.kern = NoKern
<1>. DEFINE p  == IF i.prohibit THEN << NoFrom >> ELSE << >>
            k4 == TeardownIpv4(Mirror(i, x), i)
            k6 == TeardownIpv6(k4, i)
            j4 == [i EXCEPT !.gateway = None, !.addr = None]
<1>1. \A z : Undo(Slot(z), z # None) = << >>
  BY DelOnly DEF Undo, Slot
<1>2. Undo(p, i.prohibit) = << >>
  BY ProhibitOnly DEF Undo
<1>3. k4 = [shared |-> None, own |-> None, addr |-> << >>, route6 |-> x,
            lo |-> Slot(i.lo), pdLo |-> Slot(i.pdLo), fwd |-> Slot(i.fwd),
            prohibit |-> p]
  <2>1. k4 = TeardownIpv4(Mirror(i, x), i)
    OBVIOUS
  <2>. HIDE DEF k4
  <2>2. k4 = [shared |-> IF i.gateway # None THEN None ELSE i.gateway,
              own    |-> IF i.gateway # None THEN None ELSE i.gateway,
              addr   |-> Undo(Slot(i.addr), i.addr # None),
              route6 |-> x, lo |-> Slot(i.lo), pdLo |-> Slot(i.pdLo),
              fwd |-> Slot(i.fwd), prohibit |-> p]
    BY <2>1 DEF TeardownIpv4, Mirror
  <2>. QED
    BY <1>1, <2>2
<1>. HIDE DEF p
<1>4. k6 = NoKern
  <2>1. k6 = TeardownIpv6(k4, i)
    OBVIOUS
  <2>. HIDE DEF k6, k4
  <2>2. k6 = [shared |-> None, own |-> None, addr |-> << >>,
              route6   |-> IF i.route6 THEN None ELSE x,
              lo       |-> Undo(Slot(i.lo), i.lo # None),
              pdLo     |-> Undo(Slot(i.pdLo), i.pdLo # None),
              fwd      |-> Undo(Slot(i.fwd), i.fwd # None),
              prohibit |-> Undo(p, i.prohibit)]
    BY <1>3, <2>1 DEF TeardownIpv6
  <2>. QED
    BY <1>1, <1>2, <2>2 DEF NoKern
<1>5. CASE v6
  <2>. HIDE DEF k6
  <2>1. Teardown([inst |-> i, kern |-> Mirror(i, x)], v6)
          = [inst |-> NoInst, kern |-> k6]
    BY <1>5 DEF Teardown, k6
  <2>. QED
    BY <1>4, <2>1
<1>6. CASE ~v6
  <2>1. V4Only(i)
    BY <1>6
  <2>2. j4 = NoInst
    <3>1. j4 = [i EXCEPT !.gateway = None, !.addr = None]
      OBVIOUS
    <3>. HIDE DEF j4
    <3>2. j4 = [gateway |-> None, addr |-> None, route6 |-> i.route6,
                lo |-> i.lo, pdLo |-> i.pdLo, fwd |-> i.fwd,
                prohibit |-> i.prohibit]
      BY <3>1 DEF IsInst
    <3>. QED
      BY <2>1, <3>2 DEF V4Only, NoInst
  <2>3. k4 = NoKern
    <3>1. x = None /\ p = << >>
      BY <2>1 DEF V4Only, p
    <3>. HIDE DEF k4
    <3>. QED
      BY <1>3, <2>1, <3>1 DEF V4Only, Slot, NoKern
  <2>4. Teardown([inst |-> i, kern |-> Mirror(i, x)], v6)
          = [inst |-> j4, kern |-> k4]
    BY <1>6 DEF Teardown
  <2>. HIDE DEF j4, k4
  <2>. QED
    BY <2>2, <2>3, <2>4
<1>. QED
  BY <1>5, <1>6

-----------------------------------------------------------------------------
\* The control state.

Passes == {"boot", "reload", "reconcile", "cycle"}

\* Which work can be under way where.
Control ==
    /\ pc \in {"ra", "pd", "na"} => cur \in V6Uplinks
    /\ pc \in {"v4", "ra", "pd", "na", "primary"} => task \in Passes
    /\ pc = "update" => task = "cycle"
    /\ pc = "regen" => task \in {"hup", "reconcile", "cycle", "stop"}
    /\ pc = "setup" => task = "boot"
    /\ task = "stop" => pc = "regen"

ControlTypes ==
    /\ running \in BOOLEAN
    /\ pending \subseteq {"reload", "sighup", "reconcile"}
    /\ pc \in {"off", "setup", "loop", "hup", "recon", "probe", "update",
               "v4", "ra", "pd", "na", "primary", "regen", "sleep"}
    /\ task \in {"idle", "boot", "reload", "hup", "reconcile", "cycle",
                 "stop"}
    /\ cur \in Uplinks
    /\ changed \subseteq Families
    /\ anyIpv6 \in BOOLEAN
    /\ action \in {"none", "sighup", "write"}
    /\ due \in BOOLEAN

ControlInv == Control /\ ControlTypes

\* The numbering of the uplinks.
LEMMA Numbering ==
    /\ N \in Nat \ {0}
    /\ 0 \in Uplinks
    /\ \A u \in Uplinks : u \in Nat /\ (u + 1 < N => u + 1 \in Uplinks)
    /\ PdUplinks \subseteq V6Uplinks
    /\ V6Uplinks \subseteq Uplinks
    /\ None \notin Uplinks
<1>1. /\ N \in Nat \ {0}
      /\ PdUplinks \subseteq Uplinks
      /\ NaUplinks \subseteq Uplinks
      /\ None \notin Uplinks
  BY DaemonAssumption
<1>. QED
  BY <1>1 DEF Uplinks, V6Uplinks

\* The daemon starts stopped, with no work under way.
LEMMA InitControl == Init => ControlInv
<1>. SUFFICES ASSUME Init
              PROVE  ControlInv
  OBVIOUS
<1>1. /\ running = FALSE /\ pending = {} /\ pc = "off" /\ task = "idle"
      /\ cur = 0 /\ changed = {} /\ anyIpv6 = FALSE /\ action = "none"
      /\ due = TRUE
  BY DEF Init
<1>. QED
  BY <1>1, Numbering DEF ControlInv, Control, ControlTypes, Passes

\* The next uplink is one of the configured ones, and what follows the last
\* one fits the pass.
LEMMA NextUplinkControl ==
    ASSUME ControlInv, NEW any \in BOOLEAN, NextUplink(any),
           pc \in {"update", "v4", "na"}, UNCHANGED task
    PROVE  /\ cur' \in Uplinks
           /\ pc' \in {"update", "v4", "primary", "regen"}
           /\ pc' = "update" => task' = "cycle"
           /\ pc' = "regen" => task' = "cycle"
           /\ task' \in Passes
BY Numbering DEF ControlInv, Control, ControlTypes, Passes, NextUplink

\* After a probe comes a reconcile of what changed, or the next uplink.
LEMMA UpdateStateMoves ==
    ASSUME ControlInv, UpdateState
    PROVE  /\ changed' \subseteq Families
           /\ anyIpv6' \in BOOLEAN
           /\ \/ pc' = "v4" /\ UNCHANGED cur
              \/ pc' = "ra" /\ UNCHANGED cur /\ cur \in V6Uplinks
              \/ \E any \in BOOLEAN : NextUplink(any)
<1>1. PICK ok4 \in Reach[<< cur, "ipv4" >>], ok6 \in Reach[<< cur, "ipv6" >>] :
        LET new == UpdatedLinks(ok4, ok6)
            chg == {f \in Families :
                      new[<< cur, f >>].state # link[<< cur, f >>].state}
            any == anyIpv6 \/ "ipv6" \in chg
        IN  /\ changed' = chg
            /\ anyIpv6' = any
            /\ CASE "ipv4" \in chg -> pc' = "v4" /\ UNCHANGED cur
                 [] chg = {"ipv6"} -> pc' = "ra" /\ UNCHANGED cur
                 [] chg = {}       -> NextUplink(any)
  BY DEF UpdateState
<1>. DEFINE new == UpdatedLinks(ok4, ok6)
            chg == {f \in Families :
                      new[<< cur, f >>].state # link[<< cur, f >>].state}
            any == anyIpv6 \/ "ipv6" \in chg
<1>2. "ipv6" \in chg => cur \in V6Uplinks
  BY DEF ControlInv, ControlTypes, UpdatedLinks, Links, Families
<1>3. /\ chg \subseteq Families /\ changed' \subseteq Families
      /\ any \in BOOLEAN /\ anyIpv6' \in BOOLEAN
  BY <1>1 DEF ControlInv, ControlTypes
<1>4. (CASE "ipv4" \in chg -> pc' = "v4" /\ UNCHANGED cur
         [] chg = {"ipv6"} -> pc' = "ra" /\ UNCHANGED cur
         [] chg = {}       -> NextUplink(any))
  BY <1>1
<1>. HIDE DEF chg, any
<1>5. CASE "ipv4" \in chg
  <2>1. chg # {} /\ chg # {"ipv6"}
    BY <1>5
  <2>. QED
    BY <1>3, <1>4, <1>5, <2>1
<1>6. CASE chg = {"ipv6"}
  BY <1>2, <1>3, <1>4, <1>6
<1>7. CASE chg = {}
  BY <1>3, <1>4, <1>7
<1>8. chg \in {{}, {"ipv4"}, {"ipv6"}, {"ipv4", "ipv6"}}
  BY <1>3 DEF Families
<1>. QED
  BY <1>5, <1>6, <1>7, <1>8

\* Every step keeps the control state.
LEMMA NextControl == ControlInv /\ [Next]_vars => ControlInv'
<1>. SUFFICES ASSUME ControlInv, [Next]_vars
              PROVE  ControlInv'
  OBVIOUS
<1>. USE DEF ControlInv, filesVars, signalVars, cycleVars, kernelVars,
             radvdVars
<1>1. 0 \in Uplinks
  BY Numbering
<1>2. CASE UNCHANGED << running, pending, pc, task, cur, changed, anyIpv6,
                        action, due >>
  BY <1>2 DEF Control, ControlTypes
<1>3. ASSUME NEW u \in Uplinks, HookStart(u) \/ RouteExpires(u)
      PROVE  ControlInv'
  BY <1>2, <1>3 DEF HookStart, RouteExpires
<1>4. CASE HookWrite
  BY <1>2, <1>4 DEF HookWrite
<1>5. CASE HookSignal
  BY <1>5 DEF HookSignal, Control, ControlTypes
<1>6. CASE HandleTerm
  BY <1>6 DEF HandleTerm, Control, ControlTypes
<1>7. CASE HandleHup \/ HandleUsr2
  <2>1. PICK flag \in {"reload", "sighup"} :
          /\ pending' = pending \cup {flag}
          /\ UNCHANGED << running, pc, task, cur, changed, anyIpv6, action,
                          due >>
    BY <1>7 DEF HandleHup, HandleUsr2, HandleSignal
  <2>. QED
    BY <2>1 DEF Control, ControlTypes
<1>8. CASE IntervalPasses
  BY <1>8 DEF IntervalPasses, Control, ControlTypes
<1>9. CASE Start
  BY <1>9 DEF Start, Control, ControlTypes
<1>10. CASE Setup
  BY <1>1, <1>10 DEF Setup, Control, ControlTypes, Passes
<1>11. CASE Stop \/ ReloadRaises
  BY <1>1, <1>11
     DEF Stop, ReloadRaises, ReloadBegins, CleanUp, Control, ControlTypes
<1>12. CASE NoReload
  BY <1>12 DEF NoReload, Control, ControlTypes
<1>13. CASE ReloadOk \/ ReloadRejected
  BY <1>1, <1>13
     DEF ReloadOk, ReloadRejected, ReloadBegins, Control, ControlTypes, Passes
<1>14. CASE TestSighup
  BY <1>1, <1>14 DEF TestSighup, Control, ControlTypes
<1>15. CASE TestReconcile
  BY <1>1, <1>15 DEF TestReconcile, Control, ControlTypes, Passes
<1>16. CASE TestProbe
  BY <1>1, <1>16 DEF TestProbe, Control, ControlTypes
<1>17. CASE Wake
  BY <1>17 DEF Wake, Control, ControlTypes
<1>18. CASE UpdateState
  <2>1. /\ pc = "update"
        /\ UNCHANGED << running, pending, task, due >>
        /\ action' \in {"sighup", action}
    BY <1>18 DEF UpdateState
  <2>2. /\ changed' \subseteq Families
        /\ anyIpv6' \in BOOLEAN
        /\ \/ pc' = "v4" /\ UNCHANGED cur
           \/ pc' = "ra" /\ UNCHANGED cur /\ cur \in V6Uplinks
           \/ \E any \in BOOLEAN : NextUplink(any)
    BY <1>18, UpdateStateMoves
  <2>3. CASE pc' = "v4" /\ UNCHANGED cur
    BY <2>1, <2>2, <2>3 DEF Control, ControlTypes, Passes
  <2>4. CASE pc' = "ra" /\ UNCHANGED cur /\ cur \in V6Uplinks
    BY <2>1, <2>2, <2>4 DEF Control, ControlTypes, Passes
  <2>5. ASSUME NEW any \in BOOLEAN, NextUplink(any)
        PROVE  ControlInv'
    BY <2>1, <2>2, <2>5, NextUplinkControl DEF Control, ControlTypes, Passes
  <2>. QED
    BY <2>2, <2>3, <2>4, <2>5
<1>19. CASE ReconcileUplinkIpv4
  <2>1. /\ pc = "v4"
        /\ UNCHANGED << running, pending, task, changed, anyIpv6, due >>
        /\ action' \in {"sighup", action}
        /\ IF WantsIpv6(changed) THEN pc' = "ra" /\ UNCHANGED cur
                                 ELSE NextUplink(anyIpv6)
    BY <1>19 DEF ReconcileUplinkIpv4
  <2>2. CASE WantsIpv6(changed)
    BY <2>1, <2>2 DEF WantsIpv6, Control, ControlTypes, Passes
  <2>3. CASE ~WantsIpv6(changed)
    BY <2>1, <2>3, NextUplinkControl DEF Control, ControlTypes, Passes
  <2>. QED
    BY <2>2, <2>3
<1>20. CASE ReadRa \/ ReadPd
  BY <1>20 DEF ReadRa, ReadPd, Control, ControlTypes, Passes
<1>21. CASE ReconcileUplinkIpv6
  <2>1. /\ pc = "na"
        /\ UNCHANGED << running, pending, task, changed, anyIpv6, due >>
        /\ action' \in {"sighup", action}
        /\ NextUplink(anyIpv6)
    BY <1>21 DEF ReconcileUplinkIpv6
  <2>. QED
    BY <2>1, NextUplinkControl DEF Control, ControlTypes, Passes
<1>22. CASE UpdatePrimaryUplinks
  BY <1>22 DEF UpdatePrimaryUplinks, RadvdAction, Control, ControlTypes, Passes
<1>23. CASE RegenerateUplink
  <2>1. /\ pc = "regen"
        /\ UNCHANGED << changed, anyIpv6, due >>
    BY <1>23 DEF RegenerateUplink
  <2>2. CASE cur + 1 < N
    BY <1>23, <2>1, <2>2, Numbering
       DEF RegenerateUplink, Control, ControlTypes
  <2>3. CASE ~(cur + 1 < N)
    BY <1>1, <1>23, <2>1, <2>3
       DEF RegenerateUplink, Control, ControlTypes, Passes
  <2>. QED
    BY <2>2, <2>3
<1>24. CASE UNCHANGED vars
  BY <1>2, <1>24 DEF vars
<1>. QED
  BY <1>3, <1>4, <1>5, <1>6, <1>7, <1>8, <1>9, <1>10, <1>11, <1>12, <1>13,
     <1>14, <1>15, <1>16, <1>17, <1>18, <1>19, <1>20, <1>21, <1>22, <1>23,
     <1>24
     DEF Next, Hook, Environment, Thread

-----------------------------------------------------------------------------
\* The state files and the hook that writes them.

\* A prefix is only delegated where one is requested.
PdContents(u) == {None} \cup (IF u \in PdUplinks THEN PdPrefixes ELSE {})

\* One operation of a hook on a file of uplink u, with a content that the
\* file can have.
OpsFor(u) == [kind : {"v4"}, content : Leases \cup {None}]
               \cup [kind : {"ra"}, content : Adverts \cup {None}]
               \cup [kind : {"pd"}, content : PdContents(u)]
               \cup [kind : {"na"}, content : NaAddrs \cup {None}]

FileInv ==
    /\ file = [u \in Uplinks |-> [k \in FileKinds |-> file[u][k]]]
    /\ \A u \in Uplinks : FileOK(u) /\ file[u]["pd"] \in PdContents(u)
    /\ hookUplink \in Uplinks \cup {None}
    /\ hookOps \in Seq(OpsFor(hookUplink))
    /\ saw \in [ra : Adverts \cup {None}, pd : PdPrefixes \cup {None}]

\* At the start there is no state file and no hook is running.
LEMMA InitFile == Init => FileInv
BY DEF Init, FileInv, FileOK, FileKinds, NoSaw, PdContents

\* Joining two lists of operations gives a list of operations.
LEMMA JoinedTypes ==
    ASSUME NEW O, NEW S, NEW T,
           \A s \in S : s \in Seq(O),
           \A t \in T : t \in Seq(O)
    PROVE  \A r \in Joined(S, T) : r \in Seq(O)
<1>. SUFFICES ASSUME NEW r \in Joined(S, T)
              PROVE  r \in Seq(O)
  OBVIOUS
<1>1. PICK s \in S, t \in T : r = s \o t
  BY DEF Joined
<1>. QED
  BY <1>1

\* Every run of the hook writes to each file what belongs there.
LEMMA HookOpsTypes ==
    ASSUME NEW u \in Uplinks, NEW reason \in Reasons
    PROVE  HookOps(u, reason) \subseteq Seq(OpsFor(u))
<1>. DEFINE Ops == OpsFor(u)
<1>1. /\ << >> \in Seq(Ops)
      /\ \A o \in Ops : << o >> \in Seq(Ops)
      /\ \A o1, o2, o3 \in Ops : << o1, o2, o3 >> \in Seq(Ops)
  <2>. HIDE DEF Ops
  <2>. QED
    OBVIOUS
<1>2. /\ \A l \in Leases : Write("v4", l) \in Ops
      /\ \A l \in Adverts : Write("ra", l) \in Ops
      /\ u \in PdUplinks =>
           \A l \in PdPrefixes : Write("pd", l) \in Ops
      /\ \A l \in NaAddrs : Write("na", l) \in Ops
  BY DEF OpsFor, PdContents, Write
<1>3. \A k \in FileKinds : Remove(k) \in Ops
  BY DEF OpsFor, PdContents, Remove, FileKinds
<1>. SUFFICES HookOps(u, reason) \subseteq Seq(Ops)
  OBVIOUS
<1>. HIDE DEF Ops
<1>4. \A s \in Ipv4BoundOps : s \in Seq(Ops)
  BY <1>1, <1>2 DEF Ipv4BoundOps
<1>5. \A s \in RouterAdvertOps(u) : s \in Seq(Ops)
  BY <1>1, <1>2 DEF RouterAdvertOps
<1>6. \A s \in PdOps(u) : s \in Seq(Ops)
  BY <1>1, <1>2 DEF PdOps
<1>7. ASSUME NEW reconfigure \in BOOLEAN,
             NEW s \in NaOps(u) \cup {NoNaOps(reconfigure)}
      PROVE  s \in Seq(Ops)
  BY <1>1, <1>2, <1>3, <1>7 DEF NaOps, NoNaOps, FileKinds
<1>8. ASSUME NEW reconfigure \in BOOLEAN,
             NEW s \in Ipv6BoundOps(u, reconfigure)
      PROVE  s \in Seq(Ops)
  <2>1. CASE u \notin V6Uplinks
    BY <1>1, <1>8, <2>1 DEF Ipv6BoundOps
  <2>2. CASE u \in V6Uplinks
    <3>1. s \in Joined(PdOps(u), NaOps(u) \cup {NoNaOps(reconfigure)})
      BY <1>8, <2>2 DEF Ipv6BoundOps
    <3>2. \A t \in NaOps(u) \cup {NoNaOps(reconfigure)} : t \in Seq(Ops)
      BY <1>7
    <3>. QED
      BY <1>6, <3>1, <3>2, JoinedTypes
  <2>. QED
    BY <2>1, <2>2
<1>9. \A s \in ReconfigureOps(u) : s \in Seq(Ops)
  <2>. DEFINE late == Ipv6BoundOps(u, TRUE)
              early == Joined(Ipv4BoundOps, RouterAdvertOps(u))
  <2>1. \A s \in late : s \in Seq(Ops)
    BY <1>8
  <2>2. \A s \in early : s \in Seq(Ops)
    BY <1>4, <1>5, JoinedTypes
  <2>3. ReconfigureOps(u) = Joined(early, late)
    BY DEF ReconfigureOps
  <2>. HIDE DEF early, late
  <2>. QED
    BY <2>1, <2>2, <2>3, JoinedTypes
<1>10. Expire4Ops \in Seq(Ops) /\ Expire6Ops \in Seq(Ops)
  BY <1>1, <1>3 DEF Expire4Ops, Expire6Ops, FileKinds
<1>11. reason \in {"BOUND", "EXPIRE", "ROUTERADVERT", "BOUND6", "EXPIRE6",
                   "RECONFIGURE"}
  BY DaemonAssumption
<1>12. CASE reason = "BOUND"
  BY <1>4, <1>12 DEF HookOps
<1>13. CASE reason = "EXPIRE"
  BY <1>10, <1>13 DEF HookOps
<1>14. CASE reason = "ROUTERADVERT"
  BY <1>5, <1>14 DEF HookOps
<1>15. CASE reason = "BOUND6"
  <2>1. HookOps(u, reason) = Ipv6BoundOps(u, FALSE)
    BY <1>15 DEF HookOps
  <2>2. \A s \in Ipv6BoundOps(u, FALSE) : s \in Seq(Ops)
    BY <1>8
  <2>. QED
    BY <2>1, <2>2
<1>16. CASE reason = "EXPIRE6"
  BY <1>10, <1>16 DEF HookOps
<1>17. CASE reason = "RECONFIGURE"
  BY <1>9, <1>17 DEF HookOps
<1>. QED
  BY <1>11, <1>12, <1>13, <1>14, <1>15, <1>16, <1>17

\* Every step keeps the files well-formed.
LEMMA NextFile == ControlInv /\ FileInv /\ [Next]_vars => FileInv'
<1>. SUFFICES ASSUME ControlInv, FileInv, [Next]_vars
              PROVE  FileInv'
  OBVIOUS
<1>. USE DEF FileInv, filesVars
<1>1. CASE UNCHANGED << file, hookUplink, hookOps, saw >>
  BY <1>1 DEF FileOK
<1>2. ASSUME NEW u \in Uplinks, HookStart(u)
      PROVE  FileInv'
  <2>1. PICK reason \in Reasons : hookOps' \in HookOps(u, reason)
    BY <1>2 DEF HookStart
  <2>2. hookOps' \in Seq(OpsFor(u))
    BY <2>1, HookOpsTypes
  <2>. QED
    BY <1>2, <2>2 DEF HookStart, FileOK
<1>3. CASE HookWrite
  <2>. DEFINE op == Head(hookOps)
  <2>1. op \in OpsFor(hookUplink)
        /\ Tail(hookOps) \in Seq(OpsFor(hookUplink))
    BY <1>3 DEF HookWrite
  <2>2. /\ file' = [file EXCEPT ![hookUplink][op.kind] = op.content]
        /\ hookOps' = Tail(hookOps)
        /\ UNCHANGED << hookUplink, saw >>
        /\ hookUplink \in Uplinks
    BY <1>3 DEF HookWrite
  <2>. HIDE DEF op
  <2>3. \A u \in Uplinks : \A k \in FileKinds :
          file'[u][k] = IF u = hookUplink /\ k = op.kind
                        THEN op.content ELSE file[u][k]
    BY <2>2
  <2>4. file' = [u \in Uplinks |-> [k \in FileKinds |-> file'[u][k]]]
    BY <2>2
  <2>5. ASSUME NEW u \in Uplinks
        PROVE  FileOK(u)' /\ file'[u]["pd"] \in PdContents(u)
    BY <2>1, <2>3 DEF FileOK, FileKinds, OpsFor, PdContents
  <2>. QED
    BY <2>1, <2>2, <2>4, <2>5
<1>4. CASE HookSignal
  <2>1. << >> \in Seq(OpsFor(None))
    OBVIOUS
  <2>. QED
    BY <1>4, <2>1 DEF HookSignal, FileOK
<1>5. CASE ReadRa
  <2>1. /\ cur \in Uplinks
        /\ UNCHANGED << file, hookUplink, hookOps >>
        /\ saw' = [saw EXCEPT !.ra = file[cur]["ra"]]
    BY <1>5 DEF ReadRa, ControlInv, ControlTypes
  <2>2. file[cur]["ra"] \in Adverts \cup {None}
    BY <2>1 DEF FileOK
  <2>3. saw' \in [ra : Adverts \cup {None}, pd : PdPrefixes \cup {None}]
    BY <2>1, <2>2
  <2>. QED
    BY <2>1, <2>3 DEF FileOK
<1>6. CASE ReadPd
  <2>1. /\ cur \in Uplinks
        /\ UNCHANGED << file, hookUplink, hookOps >>
        /\ saw' = [saw EXCEPT !.pd = file[cur]["pd"]]
    BY <1>6 DEF ReadPd, ControlInv, ControlTypes
  <2>2. file[cur]["pd"] \in PdPrefixes \cup {None}
    BY <2>1 DEF FileOK
  <2>3. saw' \in [ra : Adverts \cup {None}, pd : PdPrefixes \cup {None}]
    BY <2>1, <2>2
  <2>. QED
    BY <2>1, <2>3 DEF FileOK
<1>7. CASE ReconcileUplinkIpv6
  BY <1>7 DEF ReconcileUplinkIpv6, NoSaw, FileOK
<1>8. CASE Start \/ HandleTerm \/ HandleHup \/ HandleUsr2 \/ IntervalPasses
  BY <1>1, <1>8 DEF Start, HandleTerm, HandleHup, HandleUsr2, HandleSignal,
                    IntervalPasses
<1>9. ASSUME NEW u \in Uplinks, RouteExpires(u)
      PROVE  FileInv'
  BY <1>1, <1>9 DEF RouteExpires
<1>10. CASE Setup \/ Stop \/ NoReload \/ ReloadOk \/ ReloadRejected
              \/ ReloadRaises
  BY <1>1, <1>10 DEF Setup, Stop, CleanUp, NoReload, ReloadOk, ReloadRejected,
                     ReloadRaises
<1>11. CASE TestSighup \/ TestReconcile \/ TestProbe \/ Wake
  BY <1>1, <1>11 DEF TestSighup, TestReconcile, TestProbe, Wake
<1>12. CASE UpdateState \/ ReconcileUplinkIpv4 \/ UpdatePrimaryUplinks
              \/ RegenerateUplink
  BY <1>1, <1>12 DEF UpdateState, ReconcileUplinkIpv4, UpdatePrimaryUplinks,
                     RegenerateUplink
<1>13. CASE UNCHANGED vars
  BY <1>1, <1>13 DEF vars
<1>. QED
  BY <1>2, <1>3, <1>4, <1>5, <1>6, <1>7, <1>8, <1>9, <1>10, <1>11, <1>12,
     <1>13
     DEF Next, Hook, Environment, Thread

-----------------------------------------------------------------------------
\* The bookkeeping and the kernel, one uplink at a time.

Insts == [gateway : Sources \cup {None}, addr : Sources \cup {None},
          route6 : BOOLEAN, lo : Sources \cup {None},
          pdLo : Sources \cup {None}, fwd : Sources \cup {NoFrom, None},
          prohibit : BOOLEAN]

UplinkInv(u, i, k) ==
    /\ i \in Insts
    /\ Tracked(i, k)
    /\ u \notin V6Uplinks => V4Only(i)

\* What is remembered as installed has the fields of _UplinkRouting.
LEMMA InstShape == \A i \in Insts : IsInst(i)
BY DEF Insts, IsInst

\* An uplink with nothing installed.
LEMMA EmptyUplink ==
    /\ NoInst \in Insts
    /\ V4Only(NoInst)
    /\ \A k : Tracked(NoInst, k) <=> k = NoKern
<1>1. NoInst \in Insts /\ V4Only(NoInst)
  BY DEF NoInst, Insts, V4Only
<1>2. Mirror(NoInst, None) = NoKern
  BY DEF Mirror, NoInst, NoKern, Slot
<1>3. NoKern.route6 = None /\ NoInst.route6 = FALSE
  BY DEF NoKern, NoInst
<1>. QED
  BY <1>1, <1>2, <1>3 DEF Tracked

\* A pass over the IPv4 side keeps bookkeeping and kernel in agreement.
LEMMA ReconcileIpv4Inv ==
    ASSUME NEW u, NEW i, NEW k, UplinkInv(u, i, k),
           NEW lease \in Leases \cup {None}, NEW up
    PROVE  LET R == ReconcileIpv4([inst |-> i, kern |-> k], lease, up)
           IN  UplinkInv(u, R.inst, R.kern)
<1>. DEFINE x == k.route6
            R == ReconcileIpv4([inst |-> i, kern |-> k], lease, up)
            gw == WantGateway(lease, up)
            ad == WantAddr(lease, up)
<1>1. i \in Insts /\ IsInst(i) /\ k = Mirror(i, x) /\ (x # None => i.route6)
  BY InstShape DEF UplinkInv, Tracked
<1>. HIDE DEF x
<1>2. /\ R.inst = [gateway |-> gw, addr |-> ad, route6 |-> i.route6,
                   lo |-> i.lo, pdLo |-> i.pdLo, fwd |-> i.fwd,
                   prohibit |-> i.prohibit]
      /\ R.kern = Mirror(R.inst, x)
  BY <1>1, ReconcileIpv4Mirrors
<1>3. gw \in Sources \cup {None} /\ ad \in Sources \cup {None}
  <2>1. Leases \subseteq [gateway : Sources, address : Sources \cup {None}]
    BY DaemonAssumption
  <2>. QED
    BY <2>1 DEF WantGateway, WantAddr
<1>. HIDE DEF R, gw, ad
<1>4. R.inst \in Insts
  BY <1>1, <1>2, <1>3 DEF Insts
<1>5. Tracked(R.inst, R.kern)
  <2>1. R.kern.route6 = x
    BY <1>2 DEF Mirror
  <2>2. R.inst.route6 = i.route6
    BY <1>2
  <2>. QED
    BY <1>1, <1>2, <2>1, <2>2 DEF Tracked
<1>6. u \notin V6Uplinks => V4Only(R.inst)
  BY <1>2 DEF UplinkInv, V4Only
<1>7. UplinkInv(u, R.inst, R.kern)
  BY <1>4, <1>5, <1>6 DEF UplinkInv
<1>. QED
  BY <1>7 DEF R

\* So does a pass over the IPv6 side.
LEMMA ReconcileIpv6Inv ==
    ASSUME NEW u \in V6Uplinks, NEW i, NEW k, UplinkInv(u, i, k),
           NEW ra \in Adverts \cup {None}, NEW pd \in PdPrefixes \cup {None},
           NEW na \in NaAddrs \cup {None}, NEW up
    PROVE  LET R == ReconcileIpv6([inst |-> i, kern |-> k], ra, pd, na, up)
           IN  UplinkInv(u, R.inst, R.kern)
<1>. DEFINE x == k.route6
            r == [inst |-> i, kern |-> Mirror(i, x)]
            R == ReconcileIpv6(r, ra, pd, na, up)
            y == KernRoute6(r, ra)
            lo == WantSource(ra, na, up)
            pdLo == WantPdSource(pd, up)
            fwd == NextFwd(r, pd)
            proh == NextProhibit(r, pd)
            r6 == ra # None
<1>1. i \in Insts /\ IsInst(i) /\ k = Mirror(i, x) /\ (x # None => i.route6)
  BY InstShape DEF UplinkInv, Tracked
<1>. HIDE DEF x
<1>2. /\ R.inst = [gateway |-> i.gateway, addr |-> i.addr,
                   route6 |-> r6, lo |-> lo, pdLo |-> pdLo,
                   fwd |-> fwd, prohibit |-> proh]
      /\ R.inst.prohibit \in BOOLEAN
      /\ R.kern = Mirror(R.inst, y)
      /\ y # None => r6
      /\ r6 \in BOOLEAN
  BY <1>1, ReconcileIpv6Mirrors
<1>3. /\ lo \in Sources \cup {None}
      /\ pdLo \in Sources \cup {None}
      /\ fwd \in Sources \cup {NoFrom, None}
  <2>1. /\ Adverts \subseteq [gateway : Sources, expires : BOOLEAN,
                              source : Sources \cup {None}]
        /\ PdPrefixes \subseteq Sources
        /\ NaAddrs \subseteq Sources
    BY DaemonAssumption
  <2>2. lo \in Sources \cup {None} /\ pdLo \in Sources \cup {None}
    BY <2>1 DEF WantSource, WantPdSource
  <2>3. fwd \in Sources \cup {NoFrom, None}
    <3>1. i.fwd \in Sources \cup {NoFrom, None}
      BY <1>1 DEF Insts
    <3>. QED
      BY <2>1, <3>1 DEF NextFwd, WantFwd
  <2>. QED
    BY <2>2, <2>3
<1>. HIDE DEF R, y, lo, pdLo, fwd, proh, r, r6
<1>4. R.inst.route6 = r6
  BY <1>2
<1>5. R.inst \in Insts
  BY <1>1, <1>2, <1>3, <1>4 DEF Insts
<1>6. Tracked(R.inst, R.kern)
  <2>1. R.kern.route6 = y
    BY <1>2 DEF Mirror
  <2>. QED
    BY <1>2, <1>4, <2>1 DEF Tracked
<1>7. UplinkInv(u, R.inst, R.kern)
  BY <1>5, <1>6 DEF UplinkInv
<1>. QED
  BY <1>1, <1>7 DEF R, r

\* So does the installation of the forwarding rules in an empty kernel.
LEMMA SetupInv ==
    ASSUME NEW u \in V6Uplinks
    PROVE  LET R == SetupMacvlanRules([inst |-> NoInst, kern |-> NoKern])
           IN  UplinkInv(u, R.inst, R.kern)
<1>. DEFINE R == SetupMacvlanRules([inst |-> NoInst, kern |-> NoKern])
<1>1. NoKern = Mirror(NoInst, None)
  BY DEF Mirror, NoInst, NoKern, Slot
<1>2. IsInst(NoInst) /\ NoInst.fwd = None
  BY DEF IsInst, NoInst
<1>3. /\ R.inst = [gateway |-> NoInst.gateway, addr |-> NoInst.addr,
                   route6 |-> NoInst.route6, lo |-> NoInst.lo,
                   pdLo |-> NoInst.pdLo, fwd |-> NoFrom,
                   prohibit |-> NoInst.prohibit]
      /\ R.kern = Mirror(R.inst, None)
  BY <1>1, <1>2, SetupMirrors
<1>. HIDE DEF R
<1>4. R.inst \in Insts
  BY <1>3 DEF Insts, NoInst
<1>5. Tracked(R.inst, R.kern)
  BY <1>3 DEF Tracked, Mirror
<1>6. UplinkInv(u, R.inst, R.kern)
  BY <1>4, <1>5 DEF UplinkInv
<1>. QED
  BY <1>6 DEF R

\* Teardown of what is tracked leaves nothing, neither installed nor
\* remembered.
LEMMA TeardownInv ==
    ASSUME NEW u, NEW i, NEW k, UplinkInv(u, i, k)
    PROVE  LET R == Teardown([inst |-> i, kern |-> k], u \in V6Uplinks)
           IN  R.inst = NoInst /\ R.kern = NoKern
<1>. DEFINE x == k.route6
            v6 == u \in V6Uplinks
<1>1. /\ IsInst(i) /\ k = Mirror(i, x) /\ (x # None => i.route6)
      /\ v6 \in BOOLEAN
      /\ ~v6 => V4Only(i)
  BY InstShape DEF UplinkInv, Tracked
<1>. HIDE DEF x, v6
<1>2. LET R == Teardown([inst |-> i, kern |-> k], v6)
      IN  R.inst = NoInst /\ R.kern = NoKern
  BY <1>1, TeardownClears
<1>. QED
  BY <1>2 DEF v6

-----------------------------------------------------------------------------
\* The bookkeeping and the kernel under every step.

\* Before the rules are set up and while the daemon stops nothing is there.
Bare == pc \in {"off", "setup"} \/ task = "stop"

KernelInv ==
    /\ inst = [u \in Uplinks |-> inst[u]]
    /\ kern = [u \in Uplinks |-> kern[u]]
    /\ \A u \in Uplinks : UplinkInv(u, inst[u], kern[u])
    /\ policy \in BOOLEAN
    /\ Bare => ~policy /\ \A u \in Uplinks : inst[u] = NoInst

\* At the start nothing is installed and nothing remembered.
LEMMA InitKernel == Init => KernelInv
<1>. SUFFICES ASSUME Init
              PROVE  KernelInv
  OBVIOUS
<1>1. /\ inst = [u \in Uplinks |-> NoInst]
      /\ kern = [u \in Uplinks |-> NoKern]
      /\ policy = FALSE
  BY DEF Init
<1>. QED
  BY <1>1, EmptyUplink DEF KernelInv, UplinkInv

\* What TornDown and SetupRules make of all uplinks.
LEMMA TornDownAll ==
    ASSUME KernelInv
    PROVE  \A u \in Uplinks : /\ TornDown[u].inst = NoInst
                              /\ TornDown[u].kern = NoKern
BY TeardownInv DEF KernelInv, TornDown, Routes

\* Setup of every uplink, when none has anything installed.
LEMMA SetupAll ==
    ASSUME NEW r, \A u \in Uplinks : r[u] = [inst |-> NoInst, kern |-> NoKern]
    PROVE  \A u \in Uplinks :
             UplinkInv(u, SetupRules(r)[u].inst, SetupRules(r)[u].kern)
<1>. SUFFICES ASSUME NEW u \in Uplinks
              PROVE  UplinkInv(u, SetupRules(r)[u].inst,
                                  SetupRules(r)[u].kern)
  OBVIOUS
<1>1. CASE u \in PdUplinks
  <2>1. SetupRules(r)[u] = SetupMacvlanRules([inst |-> NoInst,
                                              kern |-> NoKern])
    BY <1>1 DEF SetupRules
  <2>2. u \in V6Uplinks
    BY <1>1, Numbering
  <2>. QED
    BY <2>1, <2>2, SetupInv
<1>2. CASE u \notin PdUplinks
  <2>1. SetupRules(r)[u] = [inst |-> NoInst, kern |-> NoKern]
    BY <1>2 DEF SetupRules
  <2>. QED
    BY <2>1, EmptyUplink DEF UplinkInv
<1>. QED
  BY <1>1, <1>2

\* SetRoutes(r) installs what r says, uplink by uplink.
LEMMA SetRoutesInv ==
    ASSUME NEW r, SetRoutes(r),
           \A u \in Uplinks : UplinkInv(u, r[u].inst, r[u].kern)
    PROVE  /\ inst' = [u \in Uplinks |-> inst'[u]]
           /\ kern' = [u \in Uplinks |-> kern'[u]]
           /\ \A u \in Uplinks : /\ inst'[u] = r[u].inst
                                 /\ UplinkInv(u, inst'[u], kern'[u])
BY DEF SetRoutes

\* A pass over the uplinks is not a stop, and does not end in one.
LEMMA PassesAreNotBare ==
    ASSUME ControlInv,
           UpdateState \/ ReconcileUplinkIpv4 \/ ReconcileUplinkIpv6
    PROVE  ~Bare /\ ~Bare'
<1>1. /\ pc \in {"update", "v4", "na"}
      /\ task \in Passes
      /\ UNCHANGED task
  BY DEF UpdateState, ReconcileUplinkIpv4, ReconcileUplinkIpv6, ControlInv,
         Control, Passes
<1>2. ASSUME NEW any, NextUplink(any)
      PROVE  pc' \in {"update", "v4", "regen", "primary"}
  BY <1>2 DEF NextUplink
<1>3. CASE UpdateState
  <2>1. pc' \in {"v4", "ra"} \/ \E any \in BOOLEAN : NextUplink(any)
    BY <1>3, UpdateStateMoves
  <2>. QED
    BY <1>1, <1>2, <2>1 DEF Bare, Passes
<1>4. CASE ReconcileUplinkIpv4 \/ ReconcileUplinkIpv6
  <2>1. pc' = "ra" \/ NextUplink(anyIpv6)
    BY <1>4 DEF ReconcileUplinkIpv4, ReconcileUplinkIpv6
  <2>. QED
    BY <1>1, <1>2, <2>1 DEF Bare, Passes
<1>. QED
  BY <1>3, <1>4

\* Every step keeps the kernel in agreement with the bookkeeping.
LEMMA NextKernel ==
    ControlInv /\ FileInv /\ KernelInv /\ [Next]_vars => KernelInv'
<1>. SUFFICES ASSUME ControlInv, FileInv, KernelInv, [Next]_vars
              PROVE  KernelInv'
  OBVIOUS
<1>. USE DEF filesVars, signalVars, cycleVars, kernelVars, radvdVars
<1>1. ASSUME UNCHANGED kernelVars, Bare' => Bare
      PROVE  KernelInv'
  BY <1>1 DEF KernelInv
<1>2. ASSUME UNCHANGED << inst, policy >>, Bare' => Bare,
             kern' = [u \in Uplinks |-> kern'[u]],
             \A u \in Uplinks : UplinkInv(u, inst[u], kern'[u])
      PROVE  KernelInv'
  BY <1>2 DEF KernelInv
<1>3. ASSUME NEW u \in Uplinks, HookStart(u)
      PROVE  KernelInv'
  BY <1>1, <1>3 DEF HookStart, Bare
<1>4. CASE HookWrite \/ HookSignal
  BY <1>1, <1>4 DEF HookWrite, HookSignal, Bare
<1>5. CASE HandleTerm \/ HandleHup \/ HandleUsr2 \/ IntervalPasses
  BY <1>1, <1>5 DEF HandleTerm, HandleHup, HandleUsr2, HandleSignal,
                    IntervalPasses, Bare
<1>6. ASSUME NEW u \in Uplinks, RouteExpires(u)
      PROVE  KernelInv'
  <2>1. /\ kern' = [kern EXCEPT ![u].route6 = None]
        /\ UNCHANGED << inst, policy, pc, task >>
    BY <1>6 DEF RouteExpires
  <2>2. kern' = [v \in Uplinks |-> kern'[v]]
    BY <2>1 DEF KernelInv
  <2>3. ASSUME NEW v \in Uplinks
        PROVE  UplinkInv(v, inst[v], kern'[v])
    <3>1. CASE v = u
      <4>. DEFINE i == inst[u]
                  k == kern'[u]
      <4>1. kern[u] = Mirror(i, kern[u].route6)
        BY DEF KernelInv, UplinkInv, Tracked
      <4>2. k = [kern[u] EXCEPT !.route6 = None]
        BY <2>1 DEF KernelInv
      <4>. HIDE DEF i, k
      <4>3. k = Mirror(i, None)
        BY <4>1, <4>2 DEF Mirror
      <4>4. Tracked(i, k)
        BY <4>3 DEF Tracked, Mirror
      <4>. QED
        BY <3>1, <4>4 DEF KernelInv, UplinkInv, i, k
    <3>2. CASE v # u
      BY <2>1, <3>2 DEF KernelInv
    <3>. QED
      BY <3>1, <3>2
  <2>. QED
    BY <1>2, <2>1, <2>2, <2>3 DEF Bare
<1>7. CASE Start
  <2>1. /\ inst' = [u \in Uplinks |-> NoInst]
        /\ UNCHANGED << kern, policy >>
        /\ Bare
    BY <1>7 DEF Start, Bare
  <2>2. \A u \in Uplinks : inst[u] = NoInst /\ inst'[u] = NoInst
    BY <2>1 DEF KernelInv
  <2>. QED
    BY <2>1, <2>2 DEF KernelInv
<1>8. CASE Setup
  <2>1. /\ SetRoutes(SetupRules(AllRoutes))
        /\ policy' = TRUE
        /\ ~Bare'
        /\ Bare
    BY <1>8 DEF Setup, Bare, ControlInv, Control
  <2>2. \A u \in Uplinks :
          AllRoutes[u] = [inst |-> NoInst, kern |-> NoKern]
    BY <2>1, EmptyUplink DEF AllRoutes, Routes, KernelInv, UplinkInv
  <2>. QED
    BY <2>1, <2>2, SetupAll, SetRoutesInv DEF KernelInv
<1>9. CASE Stop \/ ReloadRaises
  <2>1. SetRoutes(TornDown) /\ policy' = FALSE
    BY <1>9 DEF Stop, ReloadRaises, CleanUp
  <2>2. \A u \in Uplinks :
          /\ TornDown[u].inst = NoInst
          /\ UplinkInv(u, TornDown[u].inst, TornDown[u].kern)
    BY TornDownAll, EmptyUplink DEF UplinkInv
  <2>. QED
    BY <2>1, <2>2, SetRoutesInv DEF KernelInv
<1>10. CASE ReloadOk
  <2>1. /\ SetRoutes(SetupRules(Forgotten(TornDown)))
        /\ policy' = TRUE
        /\ ~Bare'
    BY <1>10 DEF ReloadOk, Bare
  <2>2. \A u \in Uplinks :
          Forgotten(TornDown)[u] = [inst |-> NoInst, kern |-> NoKern]
    BY TornDownAll DEF Forgotten
  <2>. QED
    BY <2>1, <2>2, SetupAll, SetRoutesInv DEF KernelInv
<1>11. CASE NoReload \/ ReloadRejected
  BY <1>1, <1>11 DEF NoReload, ReloadRejected, ReloadBegins, Bare
<1>12. CASE TestSighup \/ TestReconcile \/ TestProbe \/ Wake
  BY <1>1, <1>12 DEF TestSighup, TestReconcile, TestProbe, Wake, Bare
<1>13. CASE UpdateState
  BY <1>1, <1>13, PassesAreNotBare DEF UpdateState
<1>14. CASE ReconcileUplinkIpv4
  <2>. DEFINE lease == file[cur]["v4"]
              R(up) == ReconcileIpv4(Routes(cur), lease, up)
  <2>1. PICK up : /\ inst' = [inst EXCEPT ![cur] = R(up).inst]
                  /\ kern' = [kern EXCEPT ![cur] = R(up).kern]
    BY <1>14 DEF ReconcileUplinkIpv4
  <2>2. /\ cur \in Uplinks
        /\ UNCHANGED policy
        /\ ~Bare'
    BY <1>14, PassesAreNotBare
       DEF ReconcileUplinkIpv4, ControlInv, ControlTypes
  <2>3. lease \in Leases \cup {None}
    BY <2>2 DEF FileInv, FileOK
  <2>. HIDE DEF lease
  <2>4. UplinkInv(cur, R(up).inst, R(up).kern)
    BY <2>2, <2>3, ReconcileIpv4Inv DEF KernelInv, Routes
  <2>. QED
    BY <2>1, <2>2, <2>4 DEF KernelInv
<1>15. CASE ReadRa \/ ReadPd
  BY <1>1, <1>15 DEF ReadRa, ReadPd, Bare
<1>16. CASE ReconcileUplinkIpv6
  <2>. DEFINE na == file[cur]["na"]
              R(up) == ReconcileIpv6(Routes(cur), saw.ra, saw.pd, na, up)
  <2>1. PICK up : /\ inst' = [inst EXCEPT ![cur] = R(up).inst]
                  /\ kern' = [kern EXCEPT ![cur] = R(up).kern]
    BY <1>16 DEF ReconcileUplinkIpv6
  <2>2. /\ cur \in V6Uplinks
        /\ cur \in Uplinks
        /\ UNCHANGED policy
        /\ ~Bare'
    BY <1>16, PassesAreNotBare
       DEF ReconcileUplinkIpv6, ControlInv, Control, ControlTypes
  <2>3. /\ na \in NaAddrs \cup {None}
        /\ saw.ra \in Adverts \cup {None}
        /\ saw.pd \in PdPrefixes \cup {None}
    BY <2>2 DEF FileInv, FileOK
  <2>. HIDE DEF na
  <2>4. UplinkInv(cur, R(up).inst, R(up).kern)
    BY <2>2, <2>3, ReconcileIpv6Inv DEF KernelInv, Routes
  <2>. QED
    BY <2>1, <2>2, <2>4 DEF KernelInv
<1>17. CASE UpdatePrimaryUplinks
  BY <1>1, <1>17 DEF UpdatePrimaryUplinks, ControlInv, Control, Passes, Bare
<1>18. CASE RegenerateUplink
  BY <1>1, <1>18 DEF RegenerateUplink, ControlInv, Control, Bare
<1>19. CASE UNCHANGED vars
  BY <1>1, <1>19 DEF vars, Bare
<1>. QED
  BY <1>3, <1>4, <1>5, <1>6, <1>7, <1>8, <1>9, <1>10, <1>11, <1>12, <1>13,
     <1>14, <1>15, <1>16, <1>17, <1>18, <1>19
     DEF Next, Hook, Environment, Thread

-----------------------------------------------------------------------------
\* The health of the links.

LinksInv ==
    /\ link = [l \in Links |-> link[l]]
    /\ \A l \in Links : LinkInv(link[l])

\* What one step can do to one link.
LinkStep(l) ==
    \/ UNCHANGED link[l]
    \/ \E ok \in BOOLEAN : link'[l] = UpdateLink(link[l], ok)
    \/ link[l].state = "up" /\ link'[l] = ForceDown(link[l])
    \/ Restarts /\ link'[l] = NewLink

\* At the start every link is up with its counters at zero.
LEMMA InitLinks == Init => LinksInv
BY ResetLinkInv DEF Init, LinksInv

\* A step of the daemon does to each link nothing, one probe, a forced
\* transition, or a reset by a start or a reload.
LEMMA NextLinkSteps ==
    ASSUME ControlInv, LinksInv, [Next]_vars
    PROVE  /\ link' = [l \in Links |-> link'[l]]
           /\ \A l \in Links : LinkStep(l)
<1>. DEFINE P == /\ link' = [l \in Links |-> link'[l]]
                 /\ \A l \in Links : LinkStep(l)
<1>. USE DEF filesVars, signalVars, cycleVars, kernelVars, radvdVars
<1>1. ASSUME UNCHANGED link
      PROVE  P
  BY <1>1 DEF LinksInv, LinkStep
<1>2. ASSUME NEW u \in Uplinks, HookStart(u) \/ RouteExpires(u)
      PROVE  P
  BY <1>1, <1>2 DEF HookStart, RouteExpires
<1>3. CASE HookWrite \/ HookSignal
  BY <1>1, <1>3 DEF HookWrite, HookSignal
<1>4. CASE HandleTerm \/ HandleHup \/ HandleUsr2 \/ IntervalPasses
  BY <1>1, <1>4 DEF HandleTerm, HandleHup, HandleUsr2, HandleSignal,
                    IntervalPasses
<1>5. CASE Start
  BY <1>5 DEF Start, LinkStep, Restarts
<1>6. CASE ReloadOk
  BY <1>6 DEF ReloadOk, ReloadBegins, LinkStep, Restarts
<1>7. CASE Setup \/ Stop \/ NoReload \/ ReloadRejected \/ ReloadRaises
  BY <1>1, <1>7 DEF Setup, Stop, CleanUp, NoReload, ReloadRejected,
                    ReloadRaises
<1>8. CASE TestSighup \/ TestReconcile \/ TestProbe \/ Wake
  BY <1>1, <1>8 DEF TestSighup, TestReconcile, TestProbe, Wake
<1>9. CASE UpdateState
  <2>1. PICK ok4 \in Reach[<< cur, "ipv4" >>],
             ok6 \in Reach[<< cur, "ipv6" >>] :
               link' = UpdatedLinks(ok4, ok6)
    BY <1>9 DEF UpdateState
  <2>2. Reach[<< cur, "ipv4" >>] \subseteq BOOLEAN
        /\ Reach[<< cur, "ipv6" >>] \subseteq BOOLEAN
    <3>1. Reach \in [Links -> SUBSET BOOLEAN]
      BY DaemonAssumption
    <3>2. << cur, "ipv4" >> \in Links /\ << cur, "ipv6" >> \in Links
      BY DEF ControlInv, ControlTypes, Links, Families
    <3>. QED
      BY <3>1, <3>2
  <2>3. ok4 \in BOOLEAN /\ ok6 \in BOOLEAN
    BY <2>2
  <2>4. link' = [l \in Links |-> link'[l]]
    BY <2>1 DEF UpdatedLinks
  <2>5. ASSUME NEW l \in Links
        PROVE  LinkStep(l)
    <3>1. \/ link'[l] = UpdateLink(link[l], ok4)
          \/ link'[l] = UpdateLink(link[l], ok6)
          \/ link'[l] = link[l]
      BY <2>1 DEF UpdatedLinks
    <3>. QED
      BY <2>3, <3>1 DEF LinkStep
  <2>. QED
    BY <2>4, <2>5
<1>10. CASE ReconcileUplinkIpv4 \/ ReconcileUplinkIpv6
  <2>1. PICK f \in Families :
          link' \in {link, [link EXCEPT ![<< cur, f >>] = ForceDown(@)]}
          /\ (link' # link => IsUp(cur, f))
    BY <1>10 DEF ReconcileUplinkIpv4, ReconcileUplinkIpv6, Ipv4Gone, Ipv6Gone,
                 Families
  <2>2. << cur, f >> \in Links
    BY DEF ControlInv, ControlTypes, Links
  <2>3. CASE link' = link
    BY <1>1, <2>3
  <2>4. CASE link' # link
    BY <2>1, <2>2, <2>4 DEF LinksInv, LinkStep, IsUp
  <2>. QED
    BY <2>3, <2>4
<1>11. CASE ReadRa \/ ReadPd \/ UpdatePrimaryUplinks \/ RegenerateUplink
  BY <1>1, <1>11 DEF ReadRa, ReadPd, UpdatePrimaryUplinks, RegenerateUplink
<1>12. CASE UNCHANGED vars
  BY <1>1, <1>12 DEF vars
<1>. QED
  BY <1>2, <1>3, <1>4, <1>5, <1>6, <1>7, <1>8, <1>9, <1>10, <1>11, <1>12
     DEF Next, Hook, Environment, Thread

\* Every step keeps each link well-formed and its counter below the threshold.
LEMMA NextLinks ==
    ControlInv /\ LinksInv /\ [Next]_vars => LinksInv'
<1>. SUFFICES ASSUME ControlInv, LinksInv, [Next]_vars
              PROVE  LinksInv'
  OBVIOUS
<1>1. ASSUME NEW l \in Links
      PROVE  LinkInv(link'[l])
  <2>1. LinkInv(link[l]) /\ LinkStep(l)
    BY NextLinkSteps DEF LinksInv
  <2>2. CASE UNCHANGED link[l]
    BY <2>1, <2>2
  <2>3. CASE \E ok \in BOOLEAN : link'[l] = UpdateLink(link[l], ok)
    BY <2>1, <2>3, UpdateLinkInv
  <2>4. CASE link'[l] = ForceDown(link[l]) \/ link'[l] = NewLink
    BY <2>4, ResetLinkInv
  <2>. QED
    BY <2>1, <2>2, <2>3, <2>4 DEF LinkStep
<1>. QED
  BY <1>1, NextLinkSteps DEF LinksInv

\* One step of a link is one step of its hysteresis.
LEMMA LinkStepHysteresis ==
    ASSUME NEW l \in Links, LinkInv(link[l]), LinkStep(l)
    PROVE  \/ [H(l)!Next]_(link[l])
           \/ Restarts /\ link'[l] = NewLink
<1>1. ASSUME NEW ok \in BOOLEAN, link'[l] = UpdateLink(link[l], ok)
      PROVE  H(l)!Next
  <2>1. \/ Confirms(link[l], link'[l])
        \/ Doubts(link[l], link'[l])
        \/ TurnsOver(link[l], link'[l])
    BY <1>1, UpdateLinkSteps
  <2>2. CASE Confirms(link[l], link'[l])
    BY <2>2 DEF Confirms, Against, H!Next, H!Confirm
  <2>3. CASE Doubts(link[l], link'[l])
    BY <2>3 DEF Doubts, Against, H!Next, H!Doubt, H!Threshold
  <2>4. CASE TurnsOver(link[l], link'[l])
    BY <2>4 DEF TurnsOver, Against, H!Next, H!TurnOver, H!Threshold,
                H!Opposite
  <2>. QED
    BY <2>1, <2>2, <2>3, <2>4
<1>2. CASE link[l].state = "up" /\ link'[l] = ForceDown(link[l])
  BY <1>2 DEF ForceDown, Against, H!Next, H!LeaseGone
<1>. QED
  BY <1>1, <1>2 DEF LinkStep

-----------------------------------------------------------------------------
\* What one reconcile makes of the bookkeeping and of the health.

\* The IPv4 reconcile follows the lease it reads and the health it leaves,
\* and touches no other uplink and no other link (_reconcile_uplink_ipv4).
LEMMA Ipv4Pass ==
    ASSUME KernelInv, LinksInv, NEW c \in Uplinks, c = cur,
           ReconcileUplinkIpv4
    PROVE  LET lease == file[c]["v4"]
               up    == IsUp(c, "ipv4")'
           IN  /\ inst'[c].gateway = WantGateway(lease, up)
               /\ inst'[c].addr = WantAddr(lease, up)
               /\ inst'[c].lo = inst[c].lo
               /\ inst'[c].pdLo = inst[c].pdLo
               /\ inst'[c].fwd = inst[c].fwd
               /\ inst'[c].prohibit = inst[c].prohibit
               /\ kern'[c].route6 = kern[c].route6
               /\ lease = None => ~up
               /\ \A u \in Uplinks \ {c} : /\ inst'[u] = inst[u]
                                           /\ kern'[u] = kern[u]
               /\ \A l \in Links : l # << c, "ipv4" >> => link'[l] = link[l]
<1>. DEFINE l     == << c, "ipv4" >>
            lease == file[c]["v4"]
            gone  == Ipv4Gone(c)
            new   == IF gone THEN [link EXCEPT ![l] = ForceDown(@)] ELSE link
            up    == new[l].state = "up"
            R     == ReconcileIpv4(Routes(c), lease, up)
<1>1. /\ link' = new
      /\ inst' = [inst EXCEPT ![c] = R.inst]
      /\ kern' = [kern EXCEPT ![c] = R.kern]
  BY DEF ReconcileUplinkIpv4
<1>2. l \in Links
  BY DEF Links, Families
<1>3. /\ \A m \in Links : m # l => new[m] = link[m]
      /\ lease = None => ~up
  <2>1. gone => new[l].state = "down"
    BY <1>2 DEF LinksInv, ForceDown
  <2>2. lease = None /\ ~gone => ~up
    BY DEF Ipv4Gone, IsUp
  <2>. QED
    BY <2>1, <2>2
<1>4. up = IsUp(c, "ipv4")'
  BY <1>1 DEF IsUp
<1>. HIDE DEF l, new, up, lease
<1>5. IsInst(inst[c]) /\ kern[c] = Mirror(inst[c], kern[c].route6)
  BY InstShape DEF KernelInv, UplinkInv, Tracked
<1>6. /\ R.inst = [gateway |-> WantGateway(lease, up),
                   addr |-> WantAddr(lease, up), route6 |-> inst[c].route6,
                   lo |-> inst[c].lo, pdLo |-> inst[c].pdLo,
                   fwd |-> inst[c].fwd, prohibit |-> inst[c].prohibit]
      /\ R.kern = Mirror(R.inst, kern[c].route6)
  BY <1>5, ReconcileIpv4Mirrors DEF Routes
<1>7. R.kern.route6 = kern[c].route6
  BY <1>6 DEF Mirror
<1>. HIDE DEF R
<1>8. /\ inst'[c] = R.inst
      /\ kern'[c] = R.kern
      /\ \A u \in Uplinks \ {c} : inst'[u] = inst[u] /\ kern'[u] = kern[u]
  BY <1>1 DEF KernelInv
<1>. QED
  BY <1>1, <1>3, <1>4, <1>6, <1>7, <1>8 DEF l, lease

\* The IPv6 reconcile follows the files as they were read, one after the
\* other (_reconcile_uplink_ipv6).
LEMMA Ipv6Pass ==
    ASSUME KernelInv, LinksInv, NEW c \in Uplinks, c = cur,
           ReconcileUplinkIpv6
    PROVE  LET na == file[c]["na"]
               up == IsUp(c, "ipv6")'
           IN  /\ inst'[c].gateway = inst[c].gateway
               /\ inst'[c].addr = inst[c].addr
               /\ inst'[c].lo = WantSource(saw.ra, na, up)
               /\ inst'[c].pdLo = WantPdSource(saw.pd, up)
               /\ inst'[c].fwd = NextFwd(Routes(c), saw.pd)
               /\ inst'[c].prohibit = NextProhibit(Routes(c), saw.pd)
               /\ kern'[c].route6 = KernRoute6(Routes(c), saw.ra)
               /\ saw.ra = None /\ saw.pd = None /\ na = None => ~up
               /\ \A u \in Uplinks \ {c} : /\ inst'[u] = inst[u]
                                           /\ kern'[u] = kern[u]
               /\ \A l \in Links : l # << c, "ipv6" >> => link'[l] = link[l]
<1>. DEFINE l    == << c, "ipv6" >>
            ra   == saw.ra
            pd   == saw.pd
            na   == file[c]["na"]
            gone == Ipv6Gone(ra, pd, na)
            new  == IF gone THEN [link EXCEPT ![l] = ForceDown(@)] ELSE link
            up   == new[l].state = "up"
            R    == ReconcileIpv6(Routes(c), ra, pd, na, up)
<1>1. /\ link' = new
      /\ inst' = [inst EXCEPT ![c] = R.inst]
      /\ kern' = [kern EXCEPT ![c] = R.kern]
  BY DEF ReconcileUplinkIpv6
<1>2. l \in Links
  BY DEF Links, Families
<1>3. /\ \A m \in Links : m # l => new[m] = link[m]
      /\ ra = None /\ pd = None /\ na = None => ~up
  <2>1. gone => new[l].state = "down"
    BY <1>2 DEF LinksInv, ForceDown
  <2>2. ra = None /\ pd = None /\ na = None /\ ~gone => ~up
    BY DEF Ipv6Gone, IsUp
  <2>. QED
    BY <2>1, <2>2
<1>4. up = IsUp(c, "ipv6")'
  BY <1>1 DEF IsUp
<1>. HIDE DEF l, new, up, ra, pd, na
<1>5. /\ IsInst(inst[c]) /\ kern[c] = Mirror(inst[c], kern[c].route6)
      /\ kern[c].route6 # None => inst[c].route6
      /\ Routes(c) = [inst |-> inst[c],
                      kern |-> Mirror(inst[c], kern[c].route6)]
  BY InstShape DEF KernelInv, UplinkInv, Tracked, Routes
<1>6. /\ R.inst = [gateway |-> inst[c].gateway, addr |-> inst[c].addr,
                   route6 |-> ra # None, lo |-> WantSource(ra, na, up),
                   pdLo |-> WantPdSource(pd, up),
                   fwd |-> NextFwd(Routes(c), pd),
                   prohibit |-> NextProhibit(Routes(c), pd)]
      /\ R.kern = Mirror(R.inst, KernRoute6(Routes(c), ra))
  BY <1>5, ReconcileIpv6Mirrors
<1>7. R.kern.route6 = KernRoute6(Routes(c), ra)
  BY <1>6 DEF Mirror
<1>. HIDE DEF R
<1>8. /\ inst'[c] = R.inst
      /\ kern'[c] = R.kern
      /\ \A u \in Uplinks \ {c} : inst'[u] = inst[u] /\ kern'[u] = kern[u]
  BY <1>1 DEF KernelInv
<1>. QED
  BY <1>1, <1>3, <1>4, <1>6, <1>7, <1>8 DEF l, ra, pd, na

-----------------------------------------------------------------------------
\* The primary uplinks.

\* Every nonempty set of natural numbers has a least element.
LEMMA LeastNatural ==
    ASSUME NEW T \in SUBSET Nat, T # {}
    PROVE  \E m \in T : \A n \in T : m =< n
<1>. DEFINE R == OpToRel(<, Nat)
<1>1. IsWellFoundedOn(R, Nat)
  BY NatLessThanWellFounded
<1>2. \A m, n \in Nat : m < n => << m, n >> \in R
  BY DEF OpToRel
<1>. HIDE DEF R
<1>3. PICK m \in T : \A n \in T : << n, m >> \notin R
  BY <1>1, WFMin
<1>4. ASSUME NEW n \in T
      PROVE  m =< n
  <2>1. m \in Nat /\ n \in Nat /\ ~(n < m)
    BY <1>2, <1>3
  <2>. QED
    BY <2>1
<1>. QED
  BY <1>4

\* The IPv4 primary is the uplink of least metric among those up, if any is.
LEMMA PrimaryIpv4Best ==
    ASSUME NEW up \in SUBSET Uplinks
    PROVE  IF up = {} THEN PrimaryIpv4Of(up) = None
           ELSE /\ PrimaryIpv4Of(up) \in up
                /\ \A v \in up : Metric[PrimaryIpv4Of(up)] =< Metric[v]
<1>1. CASE up = {}
  BY <1>1 DEF PrimaryIpv4Of
<1>2. CASE up # {}
  <2>1. Metric \in [Uplinks -> Nat]
    BY DaemonAssumption
  <2>. DEFINE T == {Metric[u] : u \in up}
  <2>2. T \in SUBSET Nat /\ T # {}
    BY <1>2, <2>1
  <2>3. PICK m \in T : \A n \in T : m =< n
    BY <2>2, LeastNatural
  <2>4. \E u \in up : \A v \in up : Metric[u] =< Metric[v]
    BY <2>3
  <2>5. PrimaryIpv4Of(up) =
          CHOOSE u \in up : \A v \in up : Metric[u] =< Metric[v]
    BY <1>2 DEF PrimaryIpv4Of
  <2>. QED
    BY <1>2, <2>4, <2>5
<1>. QED
  BY <1>1, <1>2

\* The IPv6 primary is the first configured one among those up, if any is.
LEMMA PrimaryIpv6Best ==
    ASSUME NEW up \in SUBSET Uplinks
    PROVE  IF PdUplinks \cap up = {} THEN PrimaryIpv6Of(up) = None
           ELSE /\ PrimaryIpv6Of(up) \in PdUplinks
                /\ IsPrimaryIpv6(PrimaryIpv6Of(up), up)
<1>1. CASE PdUplinks \cap up = {}
  BY <1>1 DEF PrimaryIpv6Of
<1>2. CASE PdUplinks \cap up # {}
  <2>1. PdUplinks \cap up \in SUBSET Nat
    BY RadvdAssumption
  <2>2. PICK u \in PdUplinks \cap up : \A v \in PdUplinks \cap up : u =< v
    BY <1>2, <2>1, LeastNatural
  <2>3. IsPrimaryIpv6(u, up)
    BY <2>2 DEF IsPrimaryIpv6
  <2>4. PrimaryIpv6Of(up) = CHOOSE v \in PdUplinks : IsPrimaryIpv6(v, up)
    BY <1>2 DEF PrimaryIpv6Of
  <2>. QED
    BY <1>2, <2>2, <2>3, <2>4
<1>. QED
  BY <1>1, <1>2

Primaries == [ipv4 |-> PrimaryIpv4Of(UpLinks(link, "ipv4")),
              ipv6 |-> PrimaryIpv6Of(UpLinks(link, "ipv6"))]

\* Where no pass or cycle is under way that has yet to choose the primaries.
Chosen ==
    \/ pc \in {"loop", "hup", "recon", "probe", "sleep"}
    \/ pc = "regen" /\ task \in {"hup", "reconcile"}

PrimaryInv ==
    /\ primary.ipv4 \in Uplinks \cup {None}
    /\ primary.ipv6 \in PdUplinks \cup {None}
    /\ Chosen => primary = Primaries

\* The primaries chosen are uplinks, or none.
LEMMA PrimariesTypes ==
    /\ Primaries.ipv4 \in Uplinks \cup {None}
    /\ Primaries.ipv6 \in PdUplinks \cup {None}
<1>1. \A f : UpLinks(link, f) \in SUBSET Uplinks
  BY DEF UpLinks
<1>2. PrimaryIpv4Of(UpLinks(link, "ipv4")) \in Uplinks \cup {None}
  BY <1>1, PrimaryIpv4Best
<1>3. PrimaryIpv6Of(UpLinks(link, "ipv6")) \in PdUplinks \cup {None}
  BY <1>1, PrimaryIpv6Best
<1>. QED
  BY <1>2, <1>3 DEF Primaries

\* At the start there is no primary.
LEMMA InitPrimary == Init => PrimaryInv
BY DEF Init, PrimaryInv, Chosen

\* No step but a start and the choice itself touches the primaries, and none
\* leads to a point where they are chosen while it changes a health.
LEMMA PrimarySteps ==
    ASSUME ControlInv, [Next]_vars
    PROVE  \/ Start
           \/ UpdatePrimaryUplinks
           \/ UNCHANGED primary /\ (Chosen' => Chosen /\ UNCHANGED link)
<1>. DEFINE P == UNCHANGED primary /\ (Chosen' => Chosen /\ UNCHANGED link)
<1>. USE DEF Chosen, filesVars, signalVars, cycleVars, kernelVars, radvdVars
<1>1. ASSUME UNCHANGED << pc, task, link, primary >>
      PROVE  P
  BY <1>1
<1>2. ASSUME NEW u \in Uplinks, HookStart(u) \/ RouteExpires(u)
      PROVE  P
  BY <1>2 DEF HookStart, RouteExpires
<1>3. CASE HookWrite \/ HookSignal
  BY <1>3 DEF HookWrite, HookSignal
<1>4. CASE HandleTerm \/ HandleHup \/ HandleUsr2 \/ IntervalPasses
  BY <1>4 DEF HandleTerm, HandleHup, HandleUsr2, HandleSignal, IntervalPasses
<1>5. CASE Setup \/ ReloadOk \/ Stop \/ ReloadRaises
  BY <1>5 DEF Setup, ReloadOk, ReloadBegins, Stop, ReloadRaises, CleanUp
<1>6. CASE NoReload \/ ReloadRejected
  BY <1>6 DEF NoReload, ReloadRejected, ReloadBegins
<1>7. CASE TestSighup \/ TestReconcile \/ TestProbe \/ Wake
  BY <1>7 DEF TestSighup, TestReconcile, TestProbe, Wake
<1>8. CASE UpdateState
  <2>1. UNCHANGED << primary, task >>
    BY <1>8 DEF UpdateState
  <2>2. pc' \in {"v4", "ra", "update", "primary", "regen"}
        /\ (pc' = "regen" => task' = "cycle")
    BY <1>8, <2>1, UpdateStateMoves, NextUplinkControl DEF UpdateState
  <2>. QED
    BY <2>1, <2>2
<1>9. CASE ReconcileUplinkIpv4
  <2>1. /\ pc = "v4"
        /\ UNCHANGED << primary, task, anyIpv6 >>
        /\ pc' = "ra" \/ NextUplink(anyIpv6)
    BY <1>9 DEF ReconcileUplinkIpv4
  <2>2. pc' \in {"ra", "update", "v4", "primary", "regen"}
        /\ (pc' = "regen" => task' = "cycle")
    BY <2>1, NextUplinkControl DEF ControlInv, ControlTypes
  <2>. QED
    BY <2>1, <2>2
<1>10. CASE ReadRa \/ ReadPd
  BY <1>10 DEF ReadRa, ReadPd
<1>11. CASE ReconcileUplinkIpv6
  <2>1. /\ pc = "na"
        /\ UNCHANGED << primary, task, anyIpv6 >>
        /\ NextUplink(anyIpv6)
    BY <1>11 DEF ReconcileUplinkIpv6
  <2>2. pc' \in {"update", "v4", "primary", "regen"}
        /\ (pc' = "regen" => task' = "cycle")
    BY <2>1, NextUplinkControl DEF ControlInv, ControlTypes
  <2>. QED
    BY <2>1, <2>2
<1>12. CASE RegenerateUplink
  BY <1>12 DEF RegenerateUplink, ControlInv, Control
<1>13. CASE UNCHANGED vars
  BY <1>1, <1>13 DEF vars
<1>. QED
  BY <1>2, <1>3, <1>4, <1>5, <1>6, <1>7, <1>8, <1>9, <1>10, <1>11, <1>12,
     <1>13
     DEF Next, Hook, Environment, Thread

\* Every step keeps the primaries in order.
LEMMA NextPrimary == ControlInv /\ PrimaryInv /\ [Next]_vars => PrimaryInv'
<1>. SUFFICES ASSUME ControlInv, PrimaryInv, [Next]_vars
              PROVE  PrimaryInv'
  OBVIOUS
<1>1. CASE Start
  BY <1>1 DEF Start, PrimaryInv, Chosen
<1>2. CASE UpdatePrimaryUplinks
  <2>1. primary' = Primaries /\ Primaries' = Primaries
    BY <1>2 DEF UpdatePrimaryUplinks, Primaries
  <2>. QED
    BY <2>1, PrimariesTypes DEF PrimaryInv
<1>3. CASE UNCHANGED primary /\ (Chosen' => Chosen /\ UNCHANGED link)
  <2>1. Chosen' => Primaries' = Primaries
    BY <1>3 DEF Primaries
  <2>. QED
    BY <1>3, <2>1 DEF PrimaryInv
<1>. QED
  BY <1>1, <1>2, <1>3, PrimarySteps

-----------------------------------------------------------------------------
\* What the event hooks were told.

Event(state) == IF state = "up" THEN "wan-up" ELSE "wan-down"

\* Since the last reset, which makes the link up and announces nothing.
Told(u, f) ==
    wan[<< u, f >>][2] = "wan-down" <=> link[<< u, f >>].state # "up"

\* The cycle has changed this health and announces it when it has reconciled
\* the family.
ToldLater(u, f) ==
    /\ task = "cycle" /\ u = cur /\ f \in changed
    /\ pc = "v4" \/ (f = "ipv6" /\ pc \in {"ra", "pd", "na"})

WanInv ==
    /\ wan = [l \in Links |-> wan[l]]
    /\ \A u \in Uplinks, f \in Families : Told(u, f) \/ ToldLater(u, f)
    /\ pc = "v4" /\ task = "cycle" /\ "ipv6" \in changed => cur \in V6Uplinks

\* At the start every link is up, and nothing is announced.
LEMMA InitWan == Init => WanInv
BY DEF Init, WanInv, NoWan, NewLink, Told, Links

\* A link that is announced as it becomes.
LEMMA FireTells ==
    ASSUME NEW w, w = [l \in Links |-> w[l]], NEW u \in Uplinks,
           NEW f \in Families, NEW state
    PROVE  LET x == Fire(w, u, f, state)
           IN  /\ x = [l \in Links |-> x[l]]
               /\ x[<< u, f >>][2] =
                    IF state = "up" THEN "wan-up" ELSE "wan-down"
               /\ \A l \in Links : l # << u, f >> => x[l] = w[l]
<1>1. << u, f >> \in Links
  BY DEF Links
<1>. QED
  BY <1>1 DEF Fire

\* What the reconcile of family f of uplink u does to the health and to the
\* events: it announces a forced transition, and in a cycle the outcome.
Reconciles(u, f, told) ==
    /\ \/ link' = link /\ told = wan
       \/ /\ link' = [link EXCEPT ![<< u, f >>] = ForceDown(@)]
          /\ told = Fire(wan, u, f, "down")
    /\ wan' = IF task = "cycle" THEN Fire(told, u, f, link'[<< u, f >>].state)
                                ELSE told

\* _reconcile_uplink_ipv4, and what _run_cycle does after it, is such a
\* reconcile of the IPv4 family.
LEMMA Ipv4Reconciles ==
    ASSUME NEW u, u = cur, ReconcileUplinkIpv4
    PROVE  \E told : Reconciles(u, "ipv4", told)
<1>1. CASE Ipv4Gone(u)
  <2>1. /\ link' = [link EXCEPT ![<< u, "ipv4" >>] = ForceDown(@)]
        /\ wan' = IF task = "cycle"
                  THEN Fire(Fire(wan, u, "ipv4", "down"), u, "ipv4",
                            link'[<< u, "ipv4" >>].state)
                  ELSE Fire(wan, u, "ipv4", "down")
    BY <1>1 DEF ReconcileUplinkIpv4, Forced
  <2>. QED
    BY <2>1 DEF Reconciles
<1>2. CASE ~Ipv4Gone(u)
  <2>1. /\ link' = link
        /\ wan' = IF task = "cycle"
                  THEN Fire(wan, u, "ipv4", link'[<< u, "ipv4" >>].state)
                  ELSE wan
    BY <1>2 DEF ReconcileUplinkIpv4, Forced
  <2>. QED
    BY <2>1 DEF Reconciles
<1>. QED
  BY <1>1, <1>2

\* _reconcile_uplink_ipv6, and what _run_cycle does after it, is one of the
\* IPv6 family.
LEMMA Ipv6Reconciles ==
    ASSUME NEW u, u = cur, ReconcileUplinkIpv6
    PROVE  \E told : Reconciles(u, "ipv6", told)
<1>. DEFINE gone == Ipv6Gone(saw.ra, saw.pd, file[u]["na"])
<1>1. CASE gone
  <2>1. /\ link' = [link EXCEPT ![<< u, "ipv6" >>] = ForceDown(@)]
        /\ wan' = IF task = "cycle"
                  THEN Fire(Fire(wan, u, "ipv6", "down"), u, "ipv6",
                            link'[<< u, "ipv6" >>].state)
                  ELSE Fire(wan, u, "ipv6", "down")
    BY <1>1 DEF ReconcileUplinkIpv6, Forced
  <2>. QED
    BY <2>1 DEF Reconciles
<1>2. CASE ~gone
  <2>1. /\ link' = link
        /\ wan' = IF task = "cycle"
                  THEN Fire(wan, u, "ipv6", link'[<< u, "ipv6" >>].state)
                  ELSE wan
    BY <1>2 DEF ReconcileUplinkIpv6, Forced
  <2>. QED
    BY <2>1 DEF Reconciles
<1>. QED
  BY <1>1, <1>2

\* A reconcile leaves the health of its family announced, and no other less
\* announced than it was.
LEMMA ReconcileTells ==
    ASSUME LinksInv, WanInv, NEW u \in Uplinks, NEW f \in Families, NEW told,
           Reconciles(u, f, told),
           task = "cycle" \/ Told(u, f)
    PROVE  /\ wan' = [l \in Links |-> wan'[l]]
           /\ Told(u, f)'
           /\ \A v \in Uplinks, g \in Families :
                << v, g >> # << u, f >> /\ Told(v, g) => Told(v, g)'
<1>. DEFINE l == << u, f >>
<1>1. l \in Links
  BY DEF Links
<1>2. /\ wan = [m \in Links |-> wan[m]]
      /\ link = [m \in Links |-> link[m]]
  BY DEF WanInv, LinksInv
<1>3. CASE link' = link /\ told = wan
  <2>1. CASE task = "cycle"
    <3>1. wan' = Fire(wan, u, f, link'[l].state)
      BY <1>3, <2>1 DEF Reconciles
    <3>2. /\ wan' = [m \in Links |-> wan'[m]]
          /\ wan'[l][2] = Event(link'[l].state)
          /\ \A m \in Links : m # l => wan'[m] = wan[m]
      BY <1>2, <3>1, FireTells DEF Event
    <3>. QED
      BY <1>3, <3>2 DEF Told, Event, Links
  <2>2. CASE task # "cycle"
    BY <1>2, <1>3, <2>2 DEF Reconciles, Told
  <2>. QED
    BY <2>1, <2>2
<1>4. CASE /\ link' = [link EXCEPT ![l] = ForceDown(@)]
           /\ told = Fire(wan, u, f, "down")
  <2>1. /\ link'[l].state = "down"
        /\ \A m \in Links : m # l => link'[m] = link[m]
    BY <1>1, <1>2, <1>4 DEF ForceDown
  <2>2. /\ told = [m \in Links |-> told[m]]
        /\ told[l][2] = "wan-down"
        /\ \A m \in Links : m # l => told[m] = wan[m]
    BY <1>2, <1>4, FireTells
  <2>3. wan' = IF task = "cycle" THEN Fire(told, u, f, "down") ELSE told
    BY <2>1 DEF Reconciles
  <2>4. /\ wan' = [m \in Links |-> wan'[m]]
        /\ wan'[l][2] = "wan-down"
        /\ \A m \in Links : m # l => wan'[m] = wan[m]
    BY <2>2, <2>3, FireTells
  <2>. QED
    BY <2>1, <2>4 DEF Told, Links
<1>. QED
  BY <1>3, <1>4 DEF Reconciles

\* The families of the current uplink whose health the probes change.
ChangedBy(ok4, ok6) ==
    {f \in Families : UpdatedLinks(ok4, ok6)[<< cur, f >>].state
                        # link[<< cur, f >>].state}

\* What changed is reconciled next, IPv4 first.
LEMMA UpdateStateCases ==
    ASSUME UpdateState
    PROVE  \E ok4 \in Reach[<< cur, "ipv4" >>],
              ok6 \in Reach[<< cur, "ipv6" >>] :
             /\ link' = UpdatedLinks(ok4, ok6)
             /\ changed' = ChangedBy(ok4, ok6)
             /\ "ipv4" \in changed' => pc' = "v4" /\ UNCHANGED cur
             /\ changed' = {"ipv6"} => pc' = "ra" /\ UNCHANGED cur
<1>1. PICK ok4 \in Reach[<< cur, "ipv4" >>], ok6 \in Reach[<< cur, "ipv6" >>] :
        /\ link' = UpdatedLinks(ok4, ok6)
        /\ changed' = ChangedBy(ok4, ok6)
        /\ (CASE "ipv4" \in ChangedBy(ok4, ok6) -> pc' = "v4" /\ UNCHANGED cur
              [] ChangedBy(ok4, ok6) = {"ipv6"} -> pc' = "ra" /\ UNCHANGED cur
              [] ChangedBy(ok4, ok6) = {} ->
                   NextUplink(anyIpv6 \/ "ipv6" \in ChangedBy(ok4, ok6)))
  BY DEF UpdateState, ChangedBy
<1>. DEFINE chg == ChangedBy(ok4, ok6)
<1>. HIDE DEF chg
<1>2. "ipv4" \in chg => chg # {} /\ chg # {"ipv6"}
  OBVIOUS
<1>3. chg = {"ipv6"} => chg # {} /\ "ipv4" \notin chg
  OBVIOUS
<1>. QED
  BY <1>1, <1>2, <1>3 DEF chg

\* Every step keeps the event hooks informed, or about to be.
LEMMA NextWan ==
    ControlInv /\ LinksInv /\ WanInv /\ [Next]_vars => WanInv'
<1>. SUFFICES ASSUME ControlInv, LinksInv, WanInv, [Next]_vars
              PROVE  WanInv'
  OBVIOUS
<1>. USE DEF filesVars, signalVars, cycleVars, kernelVars, radvdVars
<1>1. CASE UNCHANGED << link, wan, pc, task, cur, changed >>
  BY <1>1 DEF WanInv, Told, ToldLater
<1>2. ASSUME UNCHANGED << link, wan >>,
             pc \notin {"v4", "ra", "pd", "na"} \/ task # "cycle",
             pc' # "v4" \/ task' # "cycle"
      PROVE  WanInv'
  <2>1. \A u \in Uplinks, f \in Families : ~ToldLater(u, f)
    BY <1>2 DEF ToldLater
  <2>2. \A u \in Uplinks, f \in Families : Told(u, f) <=> Told(u, f)'
    BY <1>2 DEF Told
  <2>. QED
    BY <1>2, <2>1, <2>2 DEF WanInv
<1>3. ASSUME NEW u \in Uplinks, HookStart(u) \/ RouteExpires(u)
      PROVE  WanInv'
  BY <1>1, <1>3 DEF HookStart, RouteExpires
<1>4. CASE HookWrite \/ HookSignal
  BY <1>1, <1>4 DEF HookWrite, HookSignal
<1>5. CASE HandleTerm \/ HandleHup \/ HandleUsr2 \/ IntervalPasses
  BY <1>1, <1>5 DEF HandleTerm, HandleHup, HandleUsr2, HandleSignal,
                    IntervalPasses
<1>6. CASE Start \/ ReloadOk
  <2>1. /\ link' = [l \in Links |-> NewLink]
        /\ wan' = NoWan
        /\ task' # "cycle"
    BY <1>6 DEF Start, ReloadOk
  <2>2. \A u \in Uplinks, f \in Families : Told(u, f)'
    BY <2>1 DEF Told, NewLink, NoWan, Links
  <2>. QED
    BY <2>1, <2>2 DEF WanInv, NoWan
<1>7. CASE Setup \/ Stop \/ NoReload \/ ReloadRejected \/ ReloadRaises
  BY <1>2, <1>7 DEF Setup, Stop, CleanUp, NoReload, ReloadBegins,
                    ReloadRejected, ReloadRaises, ControlInv, Control
<1>8. CASE TestSighup \/ TestReconcile \/ TestProbe \/ Wake
  BY <1>2, <1>8 DEF TestSighup, TestReconcile, TestProbe, Wake
<1>9. CASE UpdateState
  <2>1. PICK ok4 \in Reach[<< cur, "ipv4" >>], ok6 \in Reach[<< cur, "ipv6" >>] :
          /\ link' = UpdatedLinks(ok4, ok6)
          /\ changed' = ChangedBy(ok4, ok6)
          /\ "ipv4" \in changed' => pc' = "v4" /\ UNCHANGED cur
          /\ changed' = {"ipv6"} => pc' = "ra" /\ UNCHANGED cur
    BY <1>9, UpdateStateCases
  <2>2. /\ pc = "update" /\ task = "cycle"
        /\ UNCHANGED << task, wan >>
        /\ cur \in Uplinks
    BY <1>9 DEF UpdateState, ControlInv, Control, ControlTypes
  <2>3. ASSUME NEW u \in Uplinks, NEW f \in Families
        PROVE  Told(u, f)' \/ ToldLater(u, f)'
    <3>1. Told(u, f)
      BY <2>2 DEF WanInv, ToldLater
    <3>2. << u, f >> \in Links /\ << cur, f >> \in Links
      BY <2>2 DEF Links
    <3>3. CASE link'[<< u, f >>].state = link[<< u, f >>].state
      BY <2>2, <3>1, <3>3 DEF Told
    <3>4. CASE link'[<< u, f >>].state # link[<< u, f >>].state
      <4>1. u = cur
        BY <2>1, <3>2, <3>4 DEF UpdatedLinks
      <4>2. f \in changed'
        BY <2>1, <3>4, <4>1 DEF ChangedBy
      <4>3. "ipv4" \in changed' \/ changed' = {"ipv6"}
        BY <2>1, <4>2 DEF ChangedBy, Families
      <4>. QED
        BY <2>1, <2>2, <4>1, <4>2, <4>3 DEF ToldLater, Families
    <3>. QED
      BY <3>3, <3>4
  <2>4. "ipv6" \in changed' => cur \in V6Uplinks
    BY <2>1, <2>2 DEF ChangedBy, UpdatedLinks, Links, Families
  <2>5. pc' = "v4" => UNCHANGED cur
    <3>1. CASE changed' = {}
      <4>1. \/ pc' = "v4" /\ UNCHANGED cur
            \/ pc' = "ra"
            \/ \E any \in BOOLEAN : NextUplink(any)
        BY <1>9, UpdateStateMoves
      <4>. QED
        BY <2>2, <4>1 DEF NextUplink
    <3>2. CASE changed' # {}
      BY <2>1, <3>2 DEF ChangedBy, Families
    <3>. QED
      BY <3>1, <3>2
  <2>6. wan' = [l \in Links |-> wan'[l]]
    BY <2>2 DEF WanInv
  <2>. QED
    BY <2>3, <2>4, <2>5, <2>6 DEF WanInv
<1>10. CASE ReconcileUplinkIpv4
  <2>1. PICK c \in Uplinks : c = cur
    BY DEF ControlInv, ControlTypes
  <2>2. PICK told : Reconciles(c, "ipv4", told)
    BY <1>10, <2>1, Ipv4Reconciles
  <2>3. /\ pc = "v4"
        /\ UNCHANGED << task, changed >>
        /\ IF WantsIpv6(changed) THEN pc' = "ra" /\ UNCHANGED cur
                                 ELSE NextUplink(anyIpv6)
    BY <1>10 DEF ReconcileUplinkIpv4
  <2>4. task = "cycle" \/ Told(c, "ipv4")
    BY <2>1, <2>3 DEF WanInv, ToldLater, Families
  <2>5. /\ wan' = [l \in Links |-> wan'[l]]
        /\ Told(c, "ipv4")'
        /\ \A u \in Uplinks, g \in Families :
             << u, g >> # << c, "ipv4" >> /\ Told(u, g) => Told(u, g)'
    BY <2>2, <2>4, ReconcileTells DEF Families
  <2>6. ASSUME NEW u \in Uplinks, NEW f \in Families
        PROVE  Told(u, f)' \/ ToldLater(u, f)'
    <3>1. CASE u = c /\ f = "ipv4"
      BY <2>5, <3>1
    <3>2. CASE ~(u = c /\ f = "ipv4") /\ Told(u, f)
      BY <2>5, <3>2
    <3>3. CASE ~(u = c /\ f = "ipv4") /\ ~Told(u, f)
      <4>1. ToldLater(u, f) /\ f = "ipv6"
        BY <2>1, <3>3 DEF WanInv, ToldLater, Families
      <4>2. WantsIpv6(changed)
        BY <2>3, <4>1 DEF WanInv, ToldLater, WantsIpv6
      <4>. QED
        BY <2>3, <4>1, <4>2 DEF ToldLater
    <3>. QED
      BY <3>1, <3>2, <3>3
  <2>7. pc' # "v4" \/ task' # "cycle"
    BY <2>3 DEF NextUplink
  <2>. QED
    BY <2>5, <2>6, <2>7 DEF WanInv
<1>11. CASE ReadRa \/ ReadPd
  <2>1. /\ UNCHANGED << link, wan, task, cur, changed >>
        /\ pc \in {"ra", "pd"} /\ pc' \in {"pd", "na"}
    BY <1>11 DEF ReadRa, ReadPd
  <2>. QED
    BY <2>1 DEF WanInv, Told, ToldLater
<1>12. CASE ReconcileUplinkIpv6
  <2>1. PICK c \in Uplinks : c = cur
    BY DEF ControlInv, ControlTypes
  <2>2. PICK told : Reconciles(c, "ipv6", told)
    BY <1>12, <2>1, Ipv6Reconciles
  <2>3. /\ pc = "na"
        /\ UNCHANGED task
        /\ NextUplink(anyIpv6)
    BY <1>12 DEF ReconcileUplinkIpv6
  <2>4. task = "cycle" \/ Told(c, "ipv6")
    BY <2>1, <2>3 DEF WanInv, ToldLater, Families
  <2>5. /\ wan' = [l \in Links |-> wan'[l]]
        /\ Told(c, "ipv6")'
        /\ \A u \in Uplinks, g \in Families :
             << u, g >> # << c, "ipv6" >> /\ Told(u, g) => Told(u, g)'
    BY <2>2, <2>4, ReconcileTells DEF Families
  <2>6. ASSUME NEW u \in Uplinks, NEW f \in Families
        PROVE  Told(u, f)'
    <3>1. CASE u = c /\ f = "ipv6"
      BY <2>5, <3>1
    <3>2. CASE ~(u = c /\ f = "ipv6")
      <4>1. Told(u, f)
        BY <2>1, <2>3, <3>2 DEF WanInv, ToldLater
      <4>. QED
        BY <2>5, <3>2, <4>1
    <3>. QED
      BY <3>1, <3>2
  <2>7. pc' # "v4" \/ task' # "cycle"
    BY <2>3 DEF NextUplink
  <2>. QED
    BY <2>5, <2>6, <2>7 DEF WanInv
<1>13. CASE UpdatePrimaryUplinks
  BY <1>2, <1>13 DEF UpdatePrimaryUplinks, ControlInv, Control, Passes
<1>14. CASE RegenerateUplink
  BY <1>2, <1>14 DEF RegenerateUplink, ControlInv, Control
<1>15. CASE UNCHANGED vars
  BY <1>1, <1>15 DEF vars
<1>. QED
  BY <1>3, <1>4, <1>5, <1>6, <1>7, <1>8, <1>9, <1>10, <1>11, <1>12, <1>13,
     <1>14, <1>15
     DEF Next, Hook, Environment, Thread

-----------------------------------------------------------------------------
\* The forwarding rules of the client networks.

ForwardInv ==
    /\ ~Bare => \A u \in PdUplinks : inst[u].fwd # None
    /\ \A u \in Uplinks :
         inst[u].prohibit => RejectWrongPdSrc /\ inst[u].fwd \in PdPrefixes

\* At the start there is no rule.
LEMMA InitForward == Init => ForwardInv
BY DEF Init, ForwardInv, Bare, NoInst

\* A start and a reload install the forwarding rules of every uplink with a
\* delegated prefix, and nothing else (_setup_ipv6_macvlan_rules).
LEMMA FreshRules ==
    ASSUME ControlInv, KernelInv, Setup \/ ReloadOk
    PROVE  \A u \in Uplinks : /\ inst'[u].prohibit = FALSE
                              /\ u \in PdUplinks => inst'[u].fwd # None
<1>1. PICK r : /\ SetRoutes(SetupRules(r))
               /\ \A u \in Uplinks : r[u] = [inst |-> NoInst, kern |-> NoKern]
  <2>1. CASE Setup
    <3>1. Bare
      BY <2>1 DEF Setup, Bare
    <3>2. \A u \in Uplinks : AllRoutes[u] = [inst |-> NoInst, kern |-> NoKern]
      BY <3>1, EmptyUplink DEF AllRoutes, Routes, KernelInv, UplinkInv
    <3>. QED
      BY <2>1, <3>2 DEF Setup
  <2>2. CASE ReloadOk
    <3>1. \A u \in Uplinks :
            Forgotten(TornDown)[u] = [inst |-> NoInst, kern |-> NoKern]
      BY TornDownAll DEF Forgotten
    <3>. QED
      BY <2>2, <3>1 DEF ReloadOk
  <2>. QED
    BY <2>1, <2>2
<1>2. ASSUME NEW u \in Uplinks
      PROVE  /\ inst'[u].prohibit = FALSE
             /\ u \in PdUplinks => inst'[u].fwd # None
  <2>1. inst'[u] = SetupRules(r)[u].inst
    BY <1>1 DEF SetRoutes
  <2>2. CASE u \in PdUplinks
    <3>1. SetupRules(r)[u].inst = [NoInst EXCEPT !.fwd = NoFrom]
      BY <1>1, <2>2 DEF SetupRules, SetupMacvlanRules
    <3>. QED
      BY <2>1, <3>1, RoutingAssumption DEF NoInst
  <2>3. CASE u \notin PdUplinks
    <3>1. SetupRules(r)[u].inst = NoInst
      BY <1>1, <2>3 DEF SetupRules
    <3>. QED
      BY <2>1, <2>3, <3>1 DEF NoInst
  <2>. QED
    BY <2>2, <2>3
<1>. QED
  BY <1>2

\* A pass never gives a forwarding rule up, and narrows it before it adds a
\* prohibit rule (_reconcile_macvlan_rules).
LEMMA ForwardKept ==
    ASSUME NEW r, NEW pd \in PdPrefixes \cup {None},
           r.inst.prohibit =>
             RejectWrongPdSrc /\ r.inst.fwd \in PdPrefixes
    PROVE  /\ r.inst.fwd # None => NextFwd(r, pd) # None
           /\ NextProhibit(r, pd) =>
                RejectWrongPdSrc /\ NextFwd(r, pd) \in PdPrefixes
<1>1. None \notin PdPrefixes /\ NoFrom \notin PdPrefixes /\ NoFrom # None
  BY DaemonAssumption, RoutingAssumption
<1>2. r.inst.fwd # None => NextFwd(r, pd) # None
  BY <1>1 DEF NextFwd, WantFwd
<1>3. ASSUME NextProhibit(r, pd)
      PROVE  RejectWrongPdSrc /\ NextFwd(r, pd) \in PdPrefixes
  <2>1. pd \in PdPrefixes /\ RejectWrongPdSrc /\ WantFwd(pd) = pd
    BY <1>3 DEF NextProhibit, WantFwd
  <2>2. NextFwd(r, pd) = pd
    BY <1>1, <2>1 DEF NextFwd
  <2>. QED
    BY <2>1, <2>2
<1>. QED
  BY <1>2, <1>3

\* Every step keeps the forwarding rules.
LEMMA NextForward ==
    ASSUME ControlInv, FileInv, KernelInv, LinksInv, ForwardInv, KernelInv',
           [Next]_vars
    PROVE  ForwardInv'
<1>. USE DEF filesVars, signalVars, cycleVars, kernelVars, radvdVars
<1>1. CASE Bare'
  BY <1>1 DEF KernelInv, ForwardInv, NoInst
<1>2. ASSUME UNCHANGED inst, Bare => Bare'
      PROVE  ForwardInv'
  BY <1>2 DEF ForwardInv
<1>3. ASSUME NEW u \in Uplinks, HookStart(u) \/ RouteExpires(u)
      PROVE  ForwardInv'
  BY <1>2, <1>3 DEF HookStart, RouteExpires, Bare
<1>4. CASE HookWrite \/ HookSignal
  BY <1>2, <1>4 DEF HookWrite, HookSignal, Bare
<1>5. CASE HandleTerm \/ HandleHup \/ HandleUsr2 \/ IntervalPasses
  BY <1>2, <1>5 DEF HandleTerm, HandleHup, HandleUsr2, HandleSignal,
                    IntervalPasses, Bare
<1>6. CASE Start \/ Stop \/ ReloadRaises
  BY <1>1, <1>6 DEF Start, Stop, ReloadRaises, CleanUp, Bare
<1>7. CASE Setup \/ ReloadOk
  <2>1. \A u \in PdUplinks : u \in Uplinks
    BY Numbering
  <2>. QED
    BY <1>7, <2>1, FreshRules DEF ForwardInv
<1>8. CASE NoReload \/ ReloadRejected
  BY <1>2, <1>8 DEF NoReload, ReloadRejected, ReloadBegins, ControlInv,
                    Control, Bare
<1>9. CASE TestSighup \/ TestReconcile \/ TestProbe \/ Wake
  BY <1>2, <1>9 DEF TestSighup, TestReconcile, TestProbe, Wake, ControlInv,
                    Control, Bare
<1>10. CASE UpdateState
  BY <1>2, <1>10, PassesAreNotBare DEF UpdateState
<1>11. CASE ReconcileUplinkIpv4
  <2>1. PICK c \in Uplinks : c = cur
    BY DEF ControlInv, ControlTypes
  <2>2. /\ inst'[c].fwd = inst[c].fwd
        /\ inst'[c].prohibit = inst[c].prohibit
        /\ \A u \in Uplinks \ {c} : inst'[u] = inst[u]
    BY <1>11, <2>1, Ipv4Pass
  <2>. QED
    BY <1>11, <2>1, <2>2, PassesAreNotBare, Numbering DEF ForwardInv
<1>12. CASE ReadRa \/ ReadPd
  BY <1>2, <1>12 DEF ReadRa, ReadPd, ControlInv, Control, Passes, Bare
<1>13. CASE ReconcileUplinkIpv6
  <2>1. PICK c \in Uplinks : c = cur
    BY DEF ControlInv, ControlTypes
  <2>2. /\ inst'[c].fwd = NextFwd(Routes(c), saw.pd)
        /\ inst'[c].prohibit = NextProhibit(Routes(c), saw.pd)
        /\ \A u \in Uplinks \ {c} : inst'[u] = inst[u]
    BY <1>13, <2>1, Ipv6Pass
  <2>3. Routes(c).inst = inst[c] /\ saw.pd \in PdPrefixes \cup {None}
    BY DEF Routes, FileInv
  <2>4. /\ inst[c].fwd # None => inst'[c].fwd # None
        /\ inst'[c].prohibit =>
             RejectWrongPdSrc /\ inst'[c].fwd \in PdPrefixes
    BY <2>2, <2>3, ForwardKept DEF ForwardInv
  <2>. QED
    BY <1>13, <2>2, <2>4, PassesAreNotBare, Numbering DEF ForwardInv
<1>14. CASE UpdatePrimaryUplinks
  BY <1>2, <1>14 DEF UpdatePrimaryUplinks, ControlInv, Control, Passes, Bare
<1>15. CASE RegenerateUplink
  BY <1>2, <1>15 DEF RegenerateUplink, ControlInv, Control, Bare
<1>16. CASE UNCHANGED vars
  BY <1>2, <1>16 DEF vars, Bare
<1>. QED
  BY <1>3, <1>4, <1>5, <1>6, <1>7, <1>8, <1>9, <1>10, <1>11, <1>12, <1>13,
     <1>14, <1>15, <1>16
     DEF Next, Hook, Environment, Thread

-----------------------------------------------------------------------------
\* Lease events are not lost: every difference between the state files and
\* what is installed is about to be reconciled.

Passing == task \in {"boot", "reload", "reconcile"}

\* A hook is at work on uplink u, or a reconcile of all uplinks is to come.
InHand(u) ==
    \/ pc \in {"off", "setup"}
    \/ task = "stop"
    \/ hookUplink = u
    \/ "reconcile" \in pending

\* The pass under way has yet to come to uplink u.
Beyond(u) == Passing /\ pc \in {"v4", "ra", "pd", "na"} /\ u > cur

Ahead4(u) == Beyond(u) \/ (u = cur /\ pc = "v4")

Ahead6(u) ==
    \/ Beyond(u)
    \/ /\ u = cur
       /\ \/ pc = "v4" /\ WantsIpv6(changed)
          \/ pc \in {"ra", "pd", "na"}

Agrees4(u) ==
    LET lease == file[u]["v4"]
        up    == IsUp(u, "ipv4")
    IN  /\ lease = None => ~up
        /\ inst[u].gateway = WantGateway(lease, up)
        /\ inst[u].addr = WantAddr(lease, up)

Agrees6(u) ==
    LET f  == file[u]
        up == IsUp(u, "ipv6")
    IN  /\ f["ra"] = None /\ f["pd"] = None /\ f["na"] = None => ~up
        /\ RouteFollows(kern[u], f["ra"])
        /\ inst[u].lo = WantSource(f["ra"], f["na"], up)
        /\ inst[u].pdLo = WantPdSource(f["pd"], up)
        /\ f["pd"] # None => inst[u].fwd = WantFwd(f["pd"])
        /\ inst[u].prohibit = (f["pd"] # None /\ RejectWrongPdSrc)

\* A file that was read and has changed since is in the hands of a hook.
SawInv ==
    pc \in {"pd", "na"} =>
      \/ InHand(cur)
      \/ /\ saw.ra = file[cur]["ra"]
         /\ pc = "na" => saw.pd = file[cur]["pd"]

UpdateInv ==
    /\ \A u \in Uplinks : Agrees4(u) \/ InHand(u) \/ Ahead4(u)
    /\ \A u \in V6Uplinks : Agrees6(u) \/ InHand(u) \/ Ahead6(u)
    /\ SawInv

\* At the start the daemon is off.
LEMMA InitUpdate == Init => UpdateInv
BY DEF Init, UpdateInv, InHand, SawInv

\* A pass over all uplinks begins.
PassBegins == pc' = "v4" /\ cur' = 0 /\ Passing'

\* It has yet to come to every one of them.
LEMMA PassCoversAll ==
    ASSUME PassBegins
    PROVE  /\ \A u \in Uplinks : Ahead4(u)'
           /\ \A u \in V6Uplinks : Ahead6(u)'
<1>1. \A u \in Uplinks : u = 0 \/ u > 0
  BY Numbering DEF Uplinks
<1>2. V6Uplinks \subseteq Uplinks
  BY Numbering
<1>3. \A u \in Uplinks : Ahead4(u)'
  BY <1>1 DEF PassBegins, Ahead4, Beyond
<1>4. ASSUME NEW u \in V6Uplinks
      PROVE  Ahead6(u)'
  <2>1. CASE u > 0
    BY <2>1 DEF PassBegins, Ahead6, Beyond
  <2>2. CASE u = 0
    <3>1. WantsIpv6(changed)'
      BY <2>2 DEF PassBegins, Passing, WantsIpv6
    <3>. QED
      BY <2>2, <3>1 DEF PassBegins, Ahead6
  <2>. QED
    BY <1>1, <1>2, <2>1, <2>2
<1>. QED
  BY <1>3, <1>4

\* Uplink u stays in hand until a pass over all uplinks begins.
LEMMA InHandStays ==
    ASSUME ControlInv, [Next]_vars, NEW u \in Uplinks, InHand(u)
    PROVE  InHand(u)' \/ PassBegins
<1>. USE DEF filesVars, signalVars, cycleVars, kernelVars, radvdVars
<1>1. ASSUME UNCHANGED << hookUplink, pending, task >>,
             pc' = pc \/ pc \notin {"off", "setup"} \/ pc' = "off"
      PROVE  InHand(u)'
  BY <1>1 DEF InHand
<1>2. ASSUME NEW v \in Uplinks, HookStart(v)
      PROVE  InHand(u)'
  BY <1>2, Numbering DEF HookStart, InHand
<1>3. ASSUME NEW v \in Uplinks, RouteExpires(v)
      PROVE  InHand(u)'
  BY <1>1, <1>3 DEF RouteExpires
<1>4. CASE HookWrite
  BY <1>1, <1>4 DEF HookWrite
<1>5. CASE HookSignal
  BY <1>5 DEF HookSignal, Listening, InHand
<1>6. CASE HandleTerm \/ HandleHup \/ HandleUsr2 \/ IntervalPasses
  BY <1>6 DEF HandleTerm, HandleHup, HandleUsr2, HandleSignal,
              IntervalPasses, InHand
<1>7. CASE Start \/ Stop \/ ReloadRaises
  BY <1>7 DEF Start, Stop, ReloadRaises, CleanUp, InHand
<1>8. CASE Setup
  BY <1>8 DEF Setup, PassBegins, Passing, ControlInv, Control
<1>9. CASE ReloadOk
  BY <1>9 DEF ReloadOk, PassBegins, Passing
<1>10. CASE NoReload
  BY <1>1, <1>10 DEF NoReload
<1>11. CASE ReloadRejected \/ TestSighup \/ TestProbe \/ Wake
  BY <1>11 DEF ReloadRejected, ReloadBegins, TestSighup, TestProbe, Wake,
               InHand, ControlInv, Control
<1>12. CASE TestReconcile
  BY <1>12 DEF TestReconcile, PassBegins, Passing, InHand, ControlInv,
               Control
<1>13. CASE UpdateState \/ ReconcileUplinkIpv4 \/ ReconcileUplinkIpv6
  BY <1>1, <1>13 DEF UpdateState, ReconcileUplinkIpv4, ReconcileUplinkIpv6
<1>14. CASE ReadRa \/ ReadPd
  BY <1>1, <1>14 DEF ReadRa, ReadPd
<1>15. CASE UpdatePrimaryUplinks
  BY <1>15 DEF UpdatePrimaryUplinks, InHand, ControlInv, Control, Passes
<1>16. CASE RegenerateUplink
  BY <1>16 DEF RegenerateUplink, InHand
<1>17. CASE UNCHANGED vars
  BY <1>1, <1>17 DEF vars
<1>. QED
  BY <1>2, <1>3, <1>4, <1>5, <1>6, <1>7, <1>8, <1>9, <1>10, <1>11, <1>12,
     <1>13, <1>14, <1>15, <1>16, <1>17
     DEF Next, Hook, Environment, Thread

\* What the pass does next: the IPv6 side of the current uplink, the next
\* uplink, or, after the last one, the end of the pass.
LEMMA PassGoesOn ==
    ASSUME ControlInv, NEW u \in Uplinks, Beyond(u), UNCHANGED task,
           \/ pc' \in {"ra", "pd", "na"} /\ UNCHANGED cur
           \/ NextUplink(anyIpv6)
    PROVE  Beyond(u)' \/ (u = cur' /\ pc' = "v4")
<1>1. /\ cur \in 0 .. N-1 /\ u \in 0 .. N-1 /\ N \in Nat
      /\ u > cur /\ task # "cycle"
  BY Numbering DEF ControlInv, ControlTypes, Uplinks, Beyond, Passing
<1>2. CASE NextUplink(anyIpv6)
  <2>1. pc' = "v4" /\ cur' = cur + 1
    BY <1>1, <1>2 DEF NextUplink
  <2>. QED
    BY <1>1, <2>1 DEF Beyond, Passing
<1>3. CASE pc' \in {"ra", "pd", "na"} /\ UNCHANGED cur
  BY <1>3 DEF Beyond, Passing
<1>. QED
  BY <1>2, <1>3

\* The steps between two uplinks of a pass.
LEMMA AheadStays ==
    ASSUME ControlInv, [Next]_vars, NEW u \in Uplinks
    PROVE  /\ Ahead4(u) => Ahead4(u)' \/ (u = cur /\ ReconcileUplinkIpv4)
           /\ u \in V6Uplinks /\ Ahead6(u) =>
                Ahead6(u)' \/ (u = cur /\ ReconcileUplinkIpv6)
<1>. DEFINE P == /\ Ahead4(u) => Ahead4(u)'
                 /\ u \in V6Uplinks /\ Ahead6(u) => Ahead6(u)'
            At == pc \in {"v4", "ra", "pd", "na"}
<1>. USE DEF filesVars, signalVars, cycleVars, kernelVars, radvdVars
<1>1. ASSUME UNCHANGED << pc, task, cur, changed >>
      PROVE  P
  BY <1>1 DEF Ahead4, Ahead6, Beyond, Passing, WantsIpv6
<1>2. ~At => P
  BY DEF Ahead4, Ahead6, Beyond
<1>3. ASSUME NEW v \in Uplinks, HookStart(v) \/ RouteExpires(v)
      PROVE  P
  BY <1>1, <1>3 DEF HookStart, RouteExpires
<1>4. CASE HookWrite \/ HookSignal
  BY <1>1, <1>4 DEF HookWrite, HookSignal
<1>5. CASE HandleTerm \/ HandleHup \/ HandleUsr2 \/ IntervalPasses
  BY <1>1, <1>5 DEF HandleTerm, HandleHup, HandleUsr2, HandleSignal,
                    IntervalPasses
<1>6. CASE Start \/ Setup \/ Stop \/ NoReload \/ ReloadOk \/ ReloadRejected
              \/ ReloadRaises
  <2>1. ~At
    BY <1>6 DEF Start, Setup, Stop, NoReload, ReloadOk, ReloadRejected,
                ReloadRaises, ReloadBegins
  <2>. QED
    BY <1>2, <2>1
<1>7. CASE TestSighup \/ TestReconcile \/ TestProbe \/ Wake \/ UpdateState
              \/ UpdatePrimaryUplinks \/ RegenerateUplink
  <2>1. ~At
    BY <1>7 DEF TestSighup, TestReconcile, TestProbe, Wake, UpdateState,
                UpdatePrimaryUplinks, RegenerateUplink
  <2>. QED
    BY <1>2, <2>1
<1>8. CASE ReconcileUplinkIpv4
  <2>1. /\ pc = "v4"
        /\ UNCHANGED << task, changed >>
        /\ IF WantsIpv6(changed) THEN pc' = "ra" /\ UNCHANGED cur
                                 ELSE NextUplink(anyIpv6)
    BY <1>8 DEF ReconcileUplinkIpv4
  <2>2. Beyond(u) => Beyond(u)' \/ (u = cur' /\ pc' = "v4")
    BY <2>1, PassGoesOn
  <2>3. Beyond(u) /\ u \in V6Uplinks /\ u = cur' /\ pc' = "v4" =>
          WantsIpv6(changed)'
    BY <2>1 DEF Beyond, Passing, WantsIpv6
  <2>4. Ahead4(u) => Beyond(u) \/ u = cur
    BY DEF Ahead4
  <2>5. Ahead6(u) => Beyond(u) \/ (u = cur /\ WantsIpv6(changed))
    BY <2>1 DEF Ahead6
  <2>. QED
    BY <1>8, <2>1, <2>2, <2>3, <2>4, <2>5 DEF Ahead4, Ahead6
<1>9. CASE ReadRa \/ ReadPd
  BY <1>9 DEF ReadRa, ReadPd, Ahead4, Ahead6, Beyond, Passing
<1>10. CASE ReconcileUplinkIpv6
  <2>1. /\ pc = "na"
        /\ UNCHANGED << task, changed >>
        /\ NextUplink(anyIpv6)
    BY <1>10 DEF ReconcileUplinkIpv6
  <2>2. Beyond(u) => Beyond(u)' \/ (u = cur' /\ pc' = "v4")
    BY <2>1, PassGoesOn
  <2>3. Beyond(u) /\ u \in V6Uplinks /\ u = cur' /\ pc' = "v4" =>
          WantsIpv6(changed)'
    BY <2>1 DEF Beyond, Passing, WantsIpv6
  <2>. QED
    BY <1>10, <2>1, <2>2, <2>3 DEF Ahead4, Ahead6
<1>11. CASE UNCHANGED vars
  BY <1>1, <1>11 DEF vars
<1>. QED
  BY <1>3, <1>4, <1>5, <1>6, <1>7, <1>8, <1>9, <1>10, <1>11
     DEF Next, Hook, Environment, Thread

\* What a step leaves alone of uplink u.
Untouched(u) ==
    /\ file'[u] = file[u]
    /\ inst'[u] = inst[u]
    /\ kern'[u] = kern[u]
    /\ \A f \in Families : IsUp(u, f)' = IsUp(u, f)

\* While no hook is at work on uplink u only the thread touches it, and then
\* in the pass that is at it, or in a step that puts it in hand or begins a
\* pass over all uplinks; a route can run out on its own.
LEMMA UplinkSteps ==
    ASSUME ControlInv, FileInv, KernelInv, LinksInv, [Next]_vars,
           NEW u \in Uplinks, hookUplink # u
    PROVE  \/ Untouched(u)
           \/ InHand(u)' \/ PassBegins
           \/ RouteExpires(u)
           \/ u = cur /\ (UpdateState \/ ReconcileUplinkIpv4
                            \/ ReconcileUplinkIpv6)
<1>. USE DEF filesVars, signalVars, cycleVars, kernelVars, radvdVars
<1>1. ASSUME UNCHANGED << file, inst, kern, link >>
      PROVE  Untouched(u)
  BY <1>1 DEF Untouched, IsUp
<1>2. ASSUME NEW v \in Uplinks, HookStart(v)
      PROVE  Untouched(u)
  BY <1>1, <1>2 DEF HookStart
<1>3. CASE HookWrite
  <2>1. file'[u] = file[u] /\ UNCHANGED << inst, kern, link >>
    BY <1>3 DEF HookWrite, FileInv
  <2>. QED
    BY <2>1 DEF Untouched, IsUp
<1>4. CASE HookSignal \/ HandleTerm \/ HandleHup \/ HandleUsr2
              \/ IntervalPasses
  BY <1>1, <1>4 DEF HookSignal, HandleTerm, HandleHup, HandleUsr2,
                    HandleSignal, IntervalPasses
<1>5. ASSUME NEW v \in Uplinks, RouteExpires(v)
      PROVE  Untouched(u) \/ RouteExpires(u)
  <2>1. CASE v = u
    BY <1>5, <2>1
  <2>2. CASE v # u
    <3>1. kern'[u] = kern[u] /\ UNCHANGED << file, inst, link >>
      BY <1>5, <2>2 DEF RouteExpires, KernelInv
    <3>. QED
      BY <3>1 DEF Untouched, IsUp
  <2>. QED
    BY <2>1, <2>2
<1>6. CASE Start \/ Stop \/ ReloadRaises
  BY <1>6 DEF Start, Stop, ReloadRaises, CleanUp, InHand
<1>7. CASE Setup \/ ReloadOk
  BY <1>7 DEF Setup, ReloadOk, PassBegins, Passing, ControlInv, Control
<1>8. CASE NoReload \/ ReloadRejected \/ TestSighup \/ TestReconcile
              \/ TestProbe \/ Wake
  BY <1>1, <1>8 DEF NoReload, ReloadRejected, TestSighup, TestReconcile,
                    TestProbe, Wake
<1>9. CASE UpdateState
  <2>1. CASE u = cur
    BY <1>9, <2>1
  <2>2. CASE u # cur
    <3>1. PICK ok4, ok6 : link' = UpdatedLinks(ok4, ok6)
      BY <1>9 DEF UpdateState
    <3>2. \A f \in Families : link'[<< u, f >>] = link[<< u, f >>]
      BY <2>2, <3>1 DEF UpdatedLinks, Links
    <3>. QED
      BY <1>9, <3>2 DEF UpdateState, Untouched, IsUp
  <2>. QED
    BY <2>1, <2>2
<1>10. CASE ReconcileUplinkIpv4 \/ ReconcileUplinkIpv6
  <2>1. CASE u = cur
    BY <1>10, <2>1
  <2>2. CASE u # cur
    <3>1. PICK c \in Uplinks : c = cur
      BY DEF ControlInv, ControlTypes
    <3>2. /\ inst'[u] = inst[u]
          /\ kern'[u] = kern[u]
          /\ \A f \in Families : link'[<< u, f >>] = link[<< u, f >>]
      BY <1>10, <2>2, <3>1, Ipv4Pass, Ipv6Pass DEF Links
    <3>3. UNCHANGED file
      BY <1>10 DEF ReconcileUplinkIpv4, ReconcileUplinkIpv6
    <3>. QED
      BY <3>2, <3>3 DEF Untouched, IsUp
  <2>. QED
    BY <2>1, <2>2
<1>11. CASE ReadRa \/ ReadPd \/ UpdatePrimaryUplinks \/ RegenerateUplink
  BY <1>1, <1>11 DEF ReadRa, ReadPd, UpdatePrimaryUplinks, RegenerateUplink
<1>12. CASE UNCHANGED vars
  BY <1>1, <1>12 DEF vars
<1>. QED
  BY <1>2, <1>3, <1>4, <1>5, <1>6, <1>7, <1>8, <1>9, <1>10, <1>11, <1>12
     DEF Next, Hook, Environment, Thread

\* A probe leaves the bookkeeping alone; a health it changes is reconciled
\* next.
LEMMA ProbeAhead ==
    ASSUME ControlInv, LinksInv, NEW u \in Uplinks, u = cur, UpdateState
    PROVE  /\ UNCHANGED << file, inst, kern >>
           /\ IsUp(u, "ipv4")' = IsUp(u, "ipv4") \/ Ahead4(u)'
           /\ IsUp(u, "ipv6")' = IsUp(u, "ipv6") \/ Ahead6(u)'
<1>1. PICK ok4, ok6 :
        /\ link' = UpdatedLinks(ok4, ok6)
        /\ changed' = ChangedBy(ok4, ok6)
        /\ "ipv4" \in changed' => pc' = "v4" /\ UNCHANGED cur
        /\ changed' = {"ipv6"} => pc' = "ra" /\ UNCHANGED cur
  BY UpdateStateCases
<1>2. UNCHANGED << file, inst, kern, task >>
  BY DEF UpdateState, filesVars, kernelVars
<1>3. ASSUME NEW f \in Families, f \notin changed'
      PROVE  IsUp(u, f)' = IsUp(u, f)
  BY <1>1, <1>3 DEF ChangedBy, IsUp
<1>4. "ipv4" \in changed' => Ahead4(u)'
  BY <1>1 DEF Ahead4
<1>5. "ipv6" \in changed' => Ahead6(u)'
  <2>1. "ipv6" \in changed' => u \in V6Uplinks
    BY <1>1 DEF ChangedBy, UpdatedLinks, Links, Families
  <2>2. "ipv6" \in changed' => "ipv4" \in changed' \/ changed' = {"ipv6"}
    BY <1>1 DEF ChangedBy, Families
  <2>3. ASSUME "ipv6" \in changed', "ipv4" \in changed'
        PROVE  Ahead6(u)'
    <3>1. WantsIpv6(changed)'
      BY <1>1, <2>1, <2>3 DEF WantsIpv6
    <3>. QED
      BY <1>1, <2>3, <3>1 DEF Ahead6
  <2>4. changed' = {"ipv6"} => Ahead6(u)'
    BY <1>1 DEF Ahead6
  <2>. QED
    BY <2>2, <2>3, <2>4
<1>. QED
  BY <1>2, <1>3, <1>4, <1>5 DEF Families

\* IPv4: what agrees stays in agreement, or is put in hand, or is ahead.
LEMMA Agrees4Stays ==
    ASSUME ControlInv, FileInv, KernelInv, LinksInv, [Next]_vars,
           NEW u \in Uplinks, hookUplink # u, Agrees4(u)
    PROVE  Agrees4(u)' \/ InHand(u)' \/ Ahead4(u)'
<1>1. ASSUME file'[u] = file[u], IsUp(u, "ipv4")' = IsUp(u, "ipv4"),
             inst'[u].gateway = inst[u].gateway,
             inst'[u].addr = inst[u].addr
      PROVE  Agrees4(u)'
  BY <1>1 DEF Agrees4
<1>2. CASE Untouched(u)
  BY <1>1, <1>2 DEF Untouched, Families
<1>3. CASE PassBegins
  BY <1>3, PassCoversAll
<1>4. CASE RouteExpires(u)
  BY <1>1, <1>4 DEF RouteExpires, filesVars, IsUp
<1>5. CASE u = cur /\ UpdateState
  BY <1>1, <1>5, ProbeAhead
<1>6. CASE u = cur /\ ReconcileUplinkIpv4
  <2>1. UNCHANGED file
    BY <1>6 DEF ReconcileUplinkIpv4, filesVars
  <2>. QED
    BY <1>6, <2>1, Ipv4Pass DEF Agrees4
<1>7. CASE u = cur /\ ReconcileUplinkIpv6
  <2>1. UNCHANGED file
    BY <1>7 DEF ReconcileUplinkIpv6, filesVars
  <2>2. link'[<< u, "ipv4" >>] = link[<< u, "ipv4" >>]
    BY <1>7, Ipv6Pass DEF Links, Families
  <2>. QED
    BY <1>1, <1>7, <2>1, <2>2, Ipv6Pass DEF IsUp
<1>. QED
  BY <1>2, <1>3, <1>4, <1>5, <1>6, <1>7, UplinkSteps

\* The IPv6 reconcile of files that have not changed since they were read
\* leaves the uplink in agreement with them.
LEMMA Agrees6Reached ==
    ASSUME FileInv, KernelInv, LinksInv, ControlInv, ForwardInv,
           NEW u \in Uplinks, u = cur, ReconcileUplinkIpv6,
           saw.ra = file[u]["ra"], saw.pd = file[u]["pd"]
    PROVE  Agrees6(u)'
<1>. DEFINE ra == saw.ra
            pd == saw.pd
            i  == inst[u]
            x  == kern[u].route6
<1>1. UNCHANGED file
  BY DEF ReconcileUplinkIpv6, filesVars
<1>2. /\ inst'[u].lo = WantSource(ra, file[u]["na"], IsUp(u, "ipv6")')
      /\ inst'[u].pdLo = WantPdSource(pd, IsUp(u, "ipv6")')
      /\ inst'[u].fwd = NextFwd(Routes(u), pd)
      /\ inst'[u].prohibit = NextProhibit(Routes(u), pd)
      /\ kern'[u].route6 = KernRoute6(Routes(u), ra)
      /\ ra = None /\ pd = None /\ file[u]["na"] = None =>
           ~IsUp(u, "ipv6")'
  BY Ipv6Pass
<1>3. /\ Routes(u).inst = i
      /\ Routes(u).kern.route6 = x
      /\ x # None => i.route6
      /\ i.prohibit => RejectWrongPdSrc
      /\ i.prohibit \in BOOLEAN
  BY DEF Routes, KernelInv, UplinkInv, Tracked, ForwardInv, Insts
<1>4. RouteFollows(kern'[u], ra)
  BY <1>2, <1>3 DEF KernRoute6, RouteFollows
<1>5. pd # None => inst'[u].fwd = WantFwd(pd)
  <2>. SUFFICES ASSUME pd # None
                PROVE  inst'[u].fwd = WantFwd(pd)
    OBVIOUS
  <2>1. u \in PdUplinks
    BY DEF FileInv, PdContents
  <2>2. ~Bare
    BY PassesAreNotBare
  <2>3. i.fwd # None
    BY <2>1, <2>2 DEF ForwardInv
  <2>. QED
    BY <1>2, <1>3, <2>3 DEF NextFwd
<1>6. inst'[u].prohibit = (pd # None /\ RejectWrongPdSrc)
  BY <1>2, <1>3, RoutingAssumption DEF NextProhibit
<1>. QED
  BY <1>1, <1>2, <1>4, <1>5, <1>6 DEF Agrees6

\* IPv6: what agrees stays in agreement, or is put in hand, or is ahead.
LEMMA Agrees6Stays ==
    ASSUME ControlInv, FileInv, KernelInv, LinksInv, ForwardInv, SawInv,
           [Next]_vars,
           NEW u \in V6Uplinks, hookUplink # u, Agrees6(u), ~InHand(u)
    PROVE  Agrees6(u)' \/ InHand(u)' \/ Ahead6(u)'
<1>0. u \in Uplinks
  BY Numbering
<1>1. ASSUME file'[u] = file[u], IsUp(u, "ipv6")' = IsUp(u, "ipv6"),
             RouteFollows(kern'[u], file[u]["ra"]),
             inst'[u].lo = inst[u].lo, inst'[u].pdLo = inst[u].pdLo,
             inst'[u].fwd = inst[u].fwd,
             inst'[u].prohibit = inst[u].prohibit
      PROVE  Agrees6(u)'
  BY <1>1 DEF Agrees6
<1>2. RouteFollows(kern[u], file[u]["ra"])
  BY DEF Agrees6
<1>3. CASE Untouched(u)
  BY <1>1, <1>2, <1>3 DEF Untouched, Families
<1>4. CASE PassBegins
  BY <1>4, PassCoversAll
<1>5. CASE RouteExpires(u)
  <2>1. /\ kern[u].route6 # None /\ kern[u].route6.expires
        /\ kern' = [kern EXCEPT ![u].route6 = None]
        /\ UNCHANGED << file, inst, link >>
    BY <1>5 DEF RouteExpires, filesVars
  <2>2. kern'[u].route6 = None
    BY <1>0, <2>1 DEF KernelInv, UplinkInv, Tracked, Mirror
  <2>3. RouteFollows(kern'[u], file[u]["ra"])
    BY <1>2, <2>1, <2>2 DEF RouteFollows, Route6
  <2>. QED
    BY <1>1, <2>1, <2>3 DEF IsUp
<1>6. CASE u = cur /\ UpdateState
  BY <1>0, <1>1, <1>2, <1>6, ProbeAhead
<1>7. CASE u = cur /\ ReconcileUplinkIpv4
  <2>1. UNCHANGED file
    BY <1>7 DEF ReconcileUplinkIpv4, filesVars
  <2>2. link'[<< u, "ipv6" >>] = link[<< u, "ipv6" >>]
    BY <1>0, <1>7, Ipv4Pass DEF Links, Families
  <2>3. RouteFollows(kern'[u], file[u]["ra"])
    BY <1>0, <1>2, <1>7, Ipv4Pass DEF RouteFollows
  <2>. QED
    BY <1>0, <1>1, <1>7, <2>1, <2>2, <2>3, Ipv4Pass DEF IsUp
<1>8. CASE u = cur /\ ReconcileUplinkIpv6
  <2>1. saw.ra = file[u]["ra"] /\ saw.pd = file[u]["pd"]
    BY <1>8 DEF SawInv, ReconcileUplinkIpv6
  <2>. QED
    BY <1>0, <1>8, <2>1, Agrees6Reached
<1>. QED
  BY <1>0, <1>3, <1>4, <1>5, <1>6, <1>7, <1>8, UplinkSteps

\* What was read stays as it was read, or a hook has it in hand.
LEMMA SawStays ==
    ASSUME ControlInv, FileInv, SawInv, [Next]_vars
    PROVE  SawInv'
<1>. USE DEF filesVars, signalVars, cycleVars, kernelVars, radvdVars
<1>1. PICK c \in Uplinks : c = cur
  BY DEF ControlInv, ControlTypes
<1>2. CASE UNCHANGED << pc, cur, saw, file >>
  <2>1. pc \in {"pd", "na"} /\ InHand(c) => InHand(c)'
    BY <1>1, <1>2, InHandStays DEF PassBegins
  <2>. QED
    BY <1>1, <1>2, <2>1 DEF SawInv
<1>3. ASSUME NEW v \in Uplinks, HookStart(v) \/ RouteExpires(v)
      PROVE  SawInv'
  BY <1>2, <1>3 DEF HookStart, RouteExpires
<1>4. CASE HookWrite
  <2>1. UNCHANGED << pc, cur, saw, hookUplink, pending, task >>
    BY <1>4 DEF HookWrite
  <2>2. CASE hookUplink = c
    BY <1>1, <2>1, <2>2 DEF SawInv, InHand
  <2>3. CASE hookUplink # c
    <3>1. file'[c] = file[c]
      BY <1>4, <2>3 DEF HookWrite, FileInv
    <3>. QED
      BY <1>1, <2>1, <3>1 DEF SawInv, InHand
  <2>. QED
    BY <2>2, <2>3
<1>5. CASE HookSignal \/ HandleTerm \/ HandleHup \/ HandleUsr2
              \/ IntervalPasses
  BY <1>2, <1>5 DEF HookSignal, HandleTerm, HandleHup, HandleUsr2,
                    HandleSignal, IntervalPasses
<1>6. ASSUME pc' \notin {"pd", "na"}
      PROVE  SawInv'
  BY <1>6 DEF SawInv
<1>7. CASE Start \/ Setup \/ Stop \/ NoReload \/ ReloadOk \/ ReloadRejected
              \/ ReloadRaises
  BY <1>6, <1>7 DEF Start, Setup, Stop, CleanUp, NoReload, ReloadOk,
                    ReloadRejected, ReloadRaises
<1>8. CASE TestSighup \/ TestReconcile \/ TestProbe \/ Wake
              \/ UpdatePrimaryUplinks
  BY <1>6, <1>8 DEF TestSighup, TestReconcile, TestProbe, Wake,
                    UpdatePrimaryUplinks, ControlInv, Control, Passes
<1>9. CASE UpdateState
  <2>1. pc' \in {"v4", "ra"} \/ \E any \in BOOLEAN : NextUplink(any)
    BY <1>9, UpdateStateMoves
  <2>. QED
    BY <1>6, <2>1 DEF NextUplink
<1>10. CASE ReconcileUplinkIpv4 \/ ReconcileUplinkIpv6
  <2>1. pc' = "ra" \/ NextUplink(anyIpv6)
    BY <1>10 DEF ReconcileUplinkIpv4, ReconcileUplinkIpv6
  <2>. QED
    BY <1>6, <2>1 DEF NextUplink
<1>11. CASE ReadRa
  <2>1. saw'.ra = file[c]["ra"] /\ pc' = "pd" /\ UNCHANGED << file, cur >>
    BY <1>1, <1>11 DEF ReadRa, FileInv
  <2>. QED
    BY <1>1, <2>1 DEF SawInv
<1>12. CASE ReadPd
  <2>1. /\ saw'.pd = file[c]["pd"] /\ saw'.ra = saw.ra
        /\ pc = "pd" /\ pc' = "na"
        /\ UNCHANGED << file, cur, hookUplink, pending, task >>
    BY <1>1, <1>12 DEF ReadPd, FileInv
  <2>. QED
    BY <1>1, <2>1 DEF SawInv, InHand
<1>13. CASE RegenerateUplink
  BY <1>6, <1>13 DEF RegenerateUplink, ControlInv, Control
<1>14. CASE UNCHANGED vars
  BY <1>2, <1>14 DEF vars
<1>. QED
  BY <1>3, <1>4, <1>5, <1>7, <1>8, <1>9, <1>10, <1>11, <1>12, <1>13, <1>14
     DEF Next, Hook, Environment, Thread

\* Every step keeps every difference about to be reconciled.
LEMMA NextUpdate ==
    ASSUME ControlInv, FileInv, KernelInv, LinksInv, ForwardInv, UpdateInv,
           [Next]_vars
    PROVE  UpdateInv'
<1>1. ASSUME NEW u \in Uplinks
      PROVE  Agrees4(u)' \/ InHand(u)' \/ Ahead4(u)'
  <2>1. CASE InHand(u)
    BY <2>1, InHandStays, PassCoversAll
  <2>2. CASE ~InHand(u) /\ Ahead4(u) /\ u = cur /\ ReconcileUplinkIpv4
    <3>1. UNCHANGED file
      BY <2>2 DEF ReconcileUplinkIpv4, filesVars
    <3>. QED
      BY <2>2, <3>1, Ipv4Pass DEF Agrees4
  <2>3. CASE Ahead4(u) /\ ~(u = cur /\ ReconcileUplinkIpv4)
    BY <2>3, AheadStays
  <2>4. CASE ~InHand(u) /\ Agrees4(u)
    BY <2>4, Agrees4Stays DEF InHand
  <2>. QED
    BY <2>1, <2>2, <2>3, <2>4 DEF UpdateInv
<1>2. ASSUME NEW u \in V6Uplinks
      PROVE  Agrees6(u)' \/ InHand(u)' \/ Ahead6(u)'
  <2>0. u \in Uplinks
    BY Numbering
  <2>1. CASE InHand(u)
    BY <1>2, <2>0, <2>1, InHandStays, PassCoversAll
  <2>2. CASE ~InHand(u) /\ Ahead6(u) /\ u = cur /\ ReconcileUplinkIpv6
    <3>1. saw.ra = file[u]["ra"] /\ saw.pd = file[u]["pd"]
      BY <2>2 DEF UpdateInv, SawInv, ReconcileUplinkIpv6
    <3>. QED
      BY <2>0, <2>2, <3>1, Agrees6Reached
  <2>3. CASE Ahead6(u) /\ ~(u = cur /\ ReconcileUplinkIpv6)
    BY <1>2, <2>0, <2>3, AheadStays
  <2>4. CASE ~InHand(u) /\ Agrees6(u)
    BY <1>2, <2>4, Agrees6Stays DEF InHand, UpdateInv
  <2>. QED
    BY <1>2, <2>1, <2>2, <2>3, <2>4 DEF UpdateInv
<1>. QED
  BY <1>1, <1>2, SawStays DEF UpdateInv

-----------------------------------------------------------------------------
\* The radvd instances.

\* Instance u has loaded what was written for it, for the uplinks regarded
\* as up.
Advertises(u) ==
    /\ loaded[u] = conf[u]
    /\ loaded[u].preference = PreferenceFor(u, Advertised)
    /\ loaded[u].lifetimes = LifetimesFor(u, Advertised)

RadvdInv ==
    /\ conf = [u \in PdUplinks |-> conf[u]]
    /\ loaded = [u \in PdUplinks |-> loaded[u]]
    /\ pc = "primary" => cur = 0
    /\ pc = "regen" => action = "sighup" \/ task = "reconcile"
    /\ pc = "regen" /\ action = "sighup" =>
         \A u \in PdUplinks : u < cur => Advertises(u)
    /\ CycleReachesRadvd

\* At the start nothing is regenerated.
LEMMA InitRadvd == Init => RadvdInv
BY DEF Init, RadvdInv, CycleReachesRadvd

\* One turn of regenerate_all: the instance of the current uplink joins
\* those that advertise what they should, and no other changes.
LEMMA RegenerateTurn ==
    ASSUME ControlInv, RadvdInv, NEW c \in Uplinks, c = cur,
           RegenerateUplink
    PROVE  /\ conf' = [u \in PdUplinks |-> conf'[u]]
           /\ loaded' = [u \in PdUplinks |-> loaded'[u]]
           /\ \A u \in PdUplinks \ {c} : /\ conf'[u] = conf[u]
                                         /\ loaded'[u] = loaded[u]
           /\ action # "sighup" => loaded' = loaded
           /\ action = "sighup" =>
                \A u \in PdUplinks : u =< c =>
                  /\ loaded'[u] = conf'[u]
                  /\ loaded'[u].preference = PreferenceFor(u, Advertised)
                  /\ loaded'[u].lifetimes = LifetimesFor(u, Advertised)
<1>1. PICK left :
        LET new == ConfFor(c, Advertised, file[c]["pd"], left)
        IN  IF c \in PdUplinks
            THEN conf' = [conf EXCEPT ![c] = new] /\ loaded' = LoadedAfter(new)
            ELSE UNCHANGED << conf, loaded >>
  BY DEF RegenerateUplink
<1>. DEFINE new == ConfFor(c, Advertised, file[c]["pd"], left)
<1>2. IF c \in PdUplinks
      THEN conf' = [conf EXCEPT ![c] = new] /\ loaded' = LoadedAfter(new)
      ELSE UNCHANGED << conf, loaded >>
  BY <1>1
<1>3. new.preference = PreferenceFor(c, Advertised)
      /\ new.lifetimes = LifetimesFor(c, Advertised)
  BY DEF ConfFor
<1>. HIDE DEF new
<1>4. /\ conf' = [u \in PdUplinks |-> conf'[u]]
      /\ loaded' = [u \in PdUplinks |-> loaded'[u]]
      /\ \A u \in PdUplinks \ {c} : /\ conf'[u] = conf[u]
                                    /\ loaded'[u] = loaded[u]
      /\ action # "sighup" => loaded' = loaded
  BY <1>2 DEF RadvdInv, LoadedAfter
<1>5. action = "sighup" /\ c \in PdUplinks =>
        conf'[c] = new /\ loaded'[c] = new
  BY <1>2 DEF RadvdInv, LoadedAfter
<1>6. ASSUME action = "sighup", NEW u \in PdUplinks, u =< c
      PROVE  /\ loaded'[u] = conf'[u]
             /\ loaded'[u].preference = PreferenceFor(u, Advertised)
             /\ loaded'[u].lifetimes = LifetimesFor(u, Advertised)
  <2>1. CASE u = c
    BY <1>3, <1>5, <1>6, <2>1
  <2>2. CASE u # c
    <3>1. u \in Uplinks /\ u \in Nat /\ c \in Nat
      BY Numbering
    <3>2. u < c
      BY <1>6, <2>2, <3>1
    <3>3. Advertises(u)
      BY <1>6, <3>2 DEF RadvdInv, RegenerateUplink
    <3>. QED
      BY <1>4, <2>2, <3>3 DEF Advertises
  <2>. QED
    BY <2>1, <2>2
<1>. QED
  BY <1>4, <1>6

\* A step that regenerates nothing, and neither leads on within
\* regenerate_all nor past it, begins it at the first uplink or stays where
\* it is.
LEMMA RadvdFrame ==
    ASSUME RadvdInv, UNCHANGED << conf, loaded >>,
           pc' = "regen" =>
             cur' = 0 /\ (action' = "sighup" \/ task' = "reconcile"),
           pc' = "primary" => cur' = 0 /\ (task' = "cycle" => ~anyIpv6')
    PROVE  RadvdInv'
<1>1. \A u \in PdUplinks : u \in Nat
  BY RadvdAssumption
<1>. QED
  BY <1>1 DEF RadvdInv, CycleReachesRadvd

\* After the last uplink of a cycle the radvd configurations are regenerated
\* if an IPv6 health changed.
LEMMA CycleMoves ==
    ASSUME ControlInv,
           UpdateState \/ ReconcileUplinkIpv4 \/ ReconcileUplinkIpv6
    PROVE  /\ UNCHANGED << conf, loaded >>
           /\ pc' = "regen" => cur' = 0 /\ action' = "sighup"
           /\ pc' = "primary" => cur' = 0 /\ (task' = "cycle" => ~anyIpv6')
<1>1. /\ UNCHANGED << conf, loaded, task >>
      /\ action' = IF pc' = "regen" THEN "sighup" ELSE action
  BY DEF UpdateState, ReconcileUplinkIpv4, ReconcileUplinkIpv6, radvdVars
<1>2. ASSUME NEW any, NextUplink(any), anyIpv6' = any
      PROVE  /\ pc' = "regen" => cur' = 0
             /\ pc' = "primary" => cur' = 0 /\ (task' = "cycle" => ~anyIpv6')
  BY <1>1, <1>2 DEF NextUplink
<1>3. CASE UpdateState
  <2>1. PICK any, chg :
          /\ anyIpv6' = any
          /\ chg \subseteq Families
          /\ CASE "ipv4" \in chg -> pc' = "v4" /\ UNCHANGED cur
               [] chg = {"ipv6"} -> pc' = "ra" /\ UNCHANGED cur
               [] chg = {}       -> NextUplink(any)
    BY <1>3 DEF UpdateState
  <2>2. pc' \in {"v4", "ra"} \/ NextUplink(any)
    <3>1. chg \in {{}, {"ipv4"}, {"ipv6"}, {"ipv4", "ipv6"}}
      BY <2>1 DEF Families
    <3>. QED
      BY <2>1, <3>1
  <2>. QED
    BY <1>1, <1>2, <2>1, <2>2
<1>4. CASE ReconcileUplinkIpv4 \/ ReconcileUplinkIpv6
  <2>1. /\ pc' = "ra" \/ NextUplink(anyIpv6)
        /\ UNCHANGED anyIpv6
    BY <1>4 DEF ReconcileUplinkIpv4, ReconcileUplinkIpv6, cycleVars
  <2>. QED
    BY <1>1, <1>2, <2>1
<1>. QED
  BY <1>3, <1>4

\* Every step keeps the radvd instances in order.
LEMMA NextRadvd ==
    ASSUME ControlInv, RadvdInv, [Next]_vars
    PROVE  RadvdInv'
<1>. USE DEF filesVars, signalVars, cycleVars, kernelVars, radvdVars
<1>1. CASE UNCHANGED << pc, task, cur, anyIpv6, action, link, conf, loaded >>
  BY <1>1 DEF RadvdInv, CycleReachesRadvd, Advertises, Advertised, Matches,
              UpLinks
<1>2. ASSUME NEW v \in Uplinks, HookStart(v) \/ RouteExpires(v)
      PROVE  RadvdInv'
  BY <1>1, <1>2 DEF HookStart, RouteExpires
<1>3. CASE HookWrite \/ HookSignal \/ HandleTerm \/ HandleHup \/ HandleUsr2
              \/ IntervalPasses
  BY <1>1, <1>3 DEF HookWrite, HookSignal, HandleTerm, HandleHup, HandleUsr2,
                    HandleSignal, IntervalPasses
<1>4. CASE Start \/ Setup \/ NoReload \/ ReloadOk \/ ReloadRejected
  BY <1>4, RadvdFrame DEF Start, Setup, NoReload, ReloadOk, ReloadRejected
<1>5. CASE Stop \/ ReloadRaises
  BY <1>5, RadvdFrame DEF Stop, ReloadRaises, CleanUp
<1>6. CASE TestSighup
  BY <1>6, RadvdFrame DEF TestSighup
<1>7. CASE TestReconcile \/ TestProbe \/ Wake \/ ReadRa \/ ReadPd
  BY <1>7, RadvdFrame DEF TestReconcile, TestProbe, Wake, ReadRa, ReadPd
<1>8. CASE UpdateState \/ ReconcileUplinkIpv4 \/ ReconcileUplinkIpv6
  BY <1>8, CycleMoves, RadvdFrame
<1>9. CASE UpdatePrimaryUplinks
  <2>1. /\ UNCHANGED << conf, loaded, cur >>
        /\ pc = "primary" /\ task \in Passes
    BY <1>9 DEF UpdatePrimaryUplinks, ControlInv, Control
  <2>2. /\ pc' # "primary"
        /\ pc' = "regen" => task' = "reconcile"
    BY <1>9, <2>1 DEF UpdatePrimaryUplinks, Passes
  <2>3. cur = 0
    BY <2>1 DEF RadvdInv
  <2>. QED
    BY <2>1, <2>2, <2>3, RadvdFrame
<1>10. CASE RegenerateUplink
  <2>1. PICK c \in Uplinks : c = cur
    BY DEF ControlInv, ControlTypes
  <2>2. /\ pc = "regen"
        /\ UNCHANGED << link, anyIpv6 >>
    BY <1>10 DEF RegenerateUplink
  <2>3. /\ conf' = [u \in PdUplinks |-> conf'[u]]
        /\ loaded' = [u \in PdUplinks |-> loaded'[u]]
        /\ action = "sighup" =>
             \A u \in PdUplinks : u =< c =>
               /\ loaded'[u] = conf'[u]
               /\ loaded'[u].preference = PreferenceFor(u, Advertised)
               /\ loaded'[u].lifetimes = LifetimesFor(u, Advertised)
    BY <1>10, <2>1, RegenerateTurn
  <2>4. \A u \in PdUplinks : u \in 0 .. N-1
    BY Numbering DEF Uplinks
  <2>5. c \in 0 .. N-1 /\ N \in Nat
    BY Numbering DEF Uplinks
  <2>6. CASE cur + 1 < N
    <3>1. cur' = c + 1 /\ UNCHANGED << pc, task, action >>
      BY <1>10, <2>1, <2>6 DEF RegenerateUplink
    <3>2. Advertised' = Advertised
      BY <2>2, <3>1 DEF Advertised, UpLinks
    <3>3. action = "sighup" =>
            \A u \in PdUplinks : u < cur' => Advertises(u)'
      BY <2>3, <2>4, <2>5, <3>1, <3>2 DEF Advertises
    <3>. QED
      BY <2>2, <2>3, <3>1, <3>3 DEF RadvdInv, CycleReachesRadvd
  <2>7. CASE ~(cur + 1 < N)
    <3>1. /\ cur' = 0
          /\ pc' = CASE task = "hup"       -> "recon"
                     [] task = "reconcile" -> "probe"
                     [] task = "cycle"     -> "primary"
                     [] task = "stop"      -> "off"
          /\ task' = IF task = "cycle" THEN task ELSE "idle"
      BY <1>10, <2>7 DEF RegenerateUplink
    <3>2. task \in {"hup", "reconcile", "cycle", "stop"}
      BY <2>2 DEF ControlInv, Control
    <3>3. pc' # "regen"
      BY <3>1, <3>2
    <3>4. task' = "cycle" => Matches(loaded)'
      <4>. SUFFICES ASSUME task' = "cycle", NEW u \in PdUplinks
                    PROVE  /\ loaded'[u].preference =
                                PreferenceFor(u, UpLinks(link', "ipv6"))
                           /\ loaded'[u].lifetimes =
                                LifetimesFor(u, UpLinks(link', "ipv6"))
        BY DEF Matches
      <4>1. task = "cycle" /\ action = "sighup"
        BY <2>2, <3>1, <3>2 DEF RadvdInv
      <4>2. Advertised = UpLinks(link', "ipv6")
        BY <2>2, <4>1 DEF Advertised
      <4>3. u =< c
        BY <2>1, <2>4, <2>5, <2>7
      <4>. QED
        BY <2>3, <4>1, <4>2, <4>3
    <3>. QED
      BY <2>3, <3>1, <3>3, <3>4 DEF RadvdInv, CycleReachesRadvd
  <2>. QED
    BY <2>6, <2>7
<1>11. CASE UNCHANGED vars
  BY <1>1, <1>11 DEF vars
<1>. QED
  BY <1>2, <1>3, <1>4, <1>5, <1>6, <1>7, <1>8, <1>9, <1>10, <1>11
     DEF Next, Hook, Environment, Thread

-----------------------------------------------------------------------------
\* The inductive invariant and what follows from it.

IInv ==
    /\ ControlInv
    /\ FileInv
    /\ KernelInv
    /\ LinksInv
    /\ PrimaryInv
    /\ WanInv
    /\ ForwardInv
    /\ UpdateInv
    /\ RadvdInv

\* The invariant holds at the start and every step keeps it.
LEMMA SpecIInv == Spec => []IInv
<1>1. Init => IInv
  BY InitControl, InitFile, InitKernel, InitLinks, InitPrimary, InitWan,
     InitForward, InitUpdate, InitRadvd
     DEF IInv
<1>2. IInv /\ [Next]_vars => IInv'
  <2>. SUFFICES ASSUME IInv, [Next]_vars
                PROVE  IInv'
    OBVIOUS
  <2>1. ControlInv' /\ FileInv'
    BY NextControl, NextFile DEF IInv
  <2>2. KernelInv'
    BY NextKernel DEF IInv
  <2>3. LinksInv' /\ PrimaryInv' /\ WanInv'
    BY NextLinks, NextPrimary, NextWan DEF IInv
  <2>4. ForwardInv'
    BY <2>2, NextForward DEF IInv
  <2>5. UpdateInv' /\ RadvdInv'
    BY NextUpdate, NextRadvd DEF IInv
  <2>. QED
    BY <2>1, <2>2, <2>3, <2>4, <2>5 DEF IInv
<1>. QED
  BY <1>1, <1>2, PTL DEF Spec

\* Every variable of the daemon always holds a value of its kind.
THEOREM DaemonTypeCorrect == Spec => []TypeOK
<1>1. IInv => TypeOK
  <2>. SUFFICES ASSUME IInv
                PROVE  TypeOK
    OBVIOUS
  <2>1. \A u \in Uplinks : FileOK(u) /\ InstOK(inst[u])
    BY DEF IInv, FileInv, KernelInv, UplinkInv, Insts, InstOK
  <2>2. saw.ra \in Adverts \cup {None} /\ saw.pd \in PdPrefixes \cup {None}
    BY DEF IInv, FileInv
  <2>3. link \in [Links -> Link]
    BY DEF IInv, LinksInv, LinkInv
  <2>. QED
    BY <2>1, <2>2, <2>3
       DEF IInv, ControlInv, ControlTypes, FileInv, KernelInv, PrimaryInv,
           TypeOK
<1>. QED
  BY <1>1, SpecIInv, PTL

\* The kernel always holds exactly the routes and rules that _installed
\* remembers, through every pass, reload, stop and start.
THEOREM NothingOrphaned == Spec => []KernelTracked
<1>1. IInv => KernelTracked
  BY DEF IInv, KernelInv, UplinkInv, KernelTracked
<1>. QED
  BY <1>1, SpecIInv, PTL

\* A daemon that is not running has left no route and no rule behind.
THEOREM LeavesNothingBehind == Spec => []CleanExit
<1>1. IInv => CleanExit
  <2>. SUFFICES ASSUME IInv, pc = "off"
                PROVE  ~policy /\ \A u \in Uplinks : kern[u] = NoKern
    BY DEF CleanExit
  <2>1. ~policy /\ \A u \in Uplinks : inst[u] = NoInst
    BY DEF IInv, KernelInv, Bare
  <2>2. \A u \in Uplinks : Tracked(inst[u], kern[u])
    BY DEF IInv, KernelInv, UplinkInv
  <2>. QED
    BY <2>1, <2>2, EmptyUplink
<1>. QED
  BY <1>1, SpecIInv, PTL

\* Each link's health follows its hysteresis whatever the daemon does:
\* _run_cycle, _force_link_down, _do_reload and run are all its steps.
THEOREM HealthFollowsProbes == Spec => HealthByHysteresis
<1>1. IInv /\ [Next]_vars => HealthStep
  BY NextLinkSteps, LinkStepHysteresis DEF IInv, LinksInv, HealthStep
<1>. QED
  BY <1>1, SpecIInv, PTL DEF Spec, HealthByHysteresis

\* While the daemon sleeps, the primaries announced are the preferred uplinks
\* among those up.
THEOREM PrimariesAreBest == Spec => []PrimaryIsBest
<1>1. IInv => PrimaryIsBest
  <2>. SUFFICES ASSUME IInv, Idle
                PROVE  PrimaryIsBest
    BY DEF PrimaryIsBest
  <2>. DEFINE up4 == UpLinks(link, "ipv4")
              up6 == UpLinks(link, "ipv6")
  <2>1. /\ primary.ipv4 = PrimaryIpv4Of(up4)
        /\ primary.ipv6 = PrimaryIpv6Of(up6)
    BY DEF IInv, PrimaryInv, Chosen, Idle, Primaries
  <2>2. up4 \in SUBSET Uplinks /\ up6 \in SUBSET Uplinks
    BY DEF UpLinks
  <2>. HIDE DEF up4, up6
  <2>3. IF up4 = {} THEN primary.ipv4 = None
        ELSE /\ primary.ipv4 \in up4
             /\ \A v \in up4 : Metric[primary.ipv4] =< Metric[v]
    BY <2>1, <2>2, PrimaryIpv4Best
  <2>4. IF up6 \cap PdUplinks = {} THEN primary.ipv6 = None
        ELSE IsPrimaryIpv6(primary.ipv6, up6)
    BY <2>1, <2>2, PrimaryIpv6Best
  <2>. QED
    BY <2>3, <2>4 DEF PrimaryIsBest, up4, up6
<1>. QED
  BY <1>1, SpecIInv, PTL

\* While the daemon sleeps, wan-down is the last wan event since the reset of
\* exactly the links that are down, however the forced and the probed
\* transitions interleaved.
THEOREM HooksAreInformed == Spec => []HooksInformed
<1>1. IInv => HooksInformed
  <2>. SUFFICES ASSUME IInv, Idle, NEW l \in Links
                PROVE  link[l].state = "down" <=> wan[l][2] = "wan-down"
    BY DEF HooksInformed
  <2>1. PICK u \in Uplinks, f \in Families : l = << u, f >>
    BY DEF Links
  <2>2. Told(u, f)
    BY <2>1 DEF IInv, WanInv, ToldLater, Idle
  <2>3. link[l].state \in {"up", "down"}
    BY DEF IInv, LinksInv, LinkInv, Link, LinkState
  <2>. QED
    BY <2>1, <2>2, <2>3 DEF Told
<1>. QED
  BY <1>1, SpecIInv, PTL

\* While the daemon works every client network has its forwarding rule, and
\* no prohibit rule stands without one narrowed to a prefix in front of it.
THEOREM TrafficIsForwarded == Spec => []ForwardingKept
<1>1. IInv => ForwardingKept
  <2>. SUFFICES ASSUME IInv
                PROVE  ForwardingKept
    OBVIOUS
  <2>1. ASSUME NEW u \in Uplinks
        PROVE  /\ kern[u].fwd = Slot(inst[u].fwd)
               /\ kern[u].prohibit # << >> => inst[u].prohibit
    BY DEF IInv, KernelInv, UplinkInv, Tracked, Mirror
  <2>2. ASSUME ~Bare, NEW u \in PdUplinks
        PROVE  Len(kern[u].fwd) = 1
    <3>1. inst[u].fwd # None /\ u \in Uplinks
      BY <2>2, Numbering DEF IInv, ForwardInv
    <3>2. kern[u].fwd = << inst[u].fwd >>
      BY <2>1, <3>1 DEF Slot
    <3>. QED
      BY <3>2
  <2>3. ASSUME NEW u \in Uplinks, kern[u].prohibit # << >>
        PROVE  \E x \in PdPrefixes : kern[u].fwd = << x >>
    <3>1. inst[u].fwd \in PdPrefixes
      BY <2>1, <2>3 DEF IInv, ForwardInv
    <3>2. inst[u].fwd # None
      BY <3>1, DaemonAssumption
    <3>3. kern[u].fwd = << inst[u].fwd >>
      BY <2>1, <3>2 DEF Slot
    <3>. QED
      BY <3>1, <3>3
  <2>. QED
    BY <2>2, <2>3 DEF ForwardingKept, Bare
<1>. QED
  BY <1>1, SpecIInv, PTL

\* No IPv4 lease event is lost, whenever the hook runs: once the daemon
\* sleeps with nothing signalled, routes and rules are those of the files.
THEOREM NoIpv4UpdateIsLost == Spec => []NoLostUpdate4
<1>1. IInv => NoLostUpdate4
  <2>. SUFFICES ASSUME IInv, Idle, NEW u \in Uplinks
                PROVE  Settled4(u)
    BY DEF NoLostUpdate4
  <2>1. ~InHand(u) /\ ~Ahead4(u)
    BY Numbering DEF Idle, InHand, Ahead4, Beyond, IInv, ControlInv, Control
  <2>2. Agrees4(u)
    BY <2>1 DEF IInv, UpdateInv
  <2>3. /\ kern[u].shared = inst[u].gateway
        /\ kern[u].own = inst[u].gateway
        /\ kern[u].addr = Slot(inst[u].addr)
    BY DEF IInv, KernelInv, UplinkInv, Tracked, Mirror
  <2>. QED
    BY <2>2, <2>3 DEF Agrees4, Settled4
<1>. QED
  BY <1>1, SpecIInv, PTL

\* Nor is an IPv6 one, although the three files are read at three moments.
THEOREM NoIpv6UpdateIsLost == Spec => []NoLostUpdate6
<1>1. IInv => NoLostUpdate6
  <2>. SUFFICES ASSUME IInv, Idle, NEW u \in V6Uplinks
                PROVE  Settled6(u)
    BY DEF NoLostUpdate6
  <2>0. u \in Uplinks
    BY Numbering
  <2>1. ~InHand(u) /\ ~Ahead6(u)
    BY <2>0, Numbering
       DEF Idle, InHand, Ahead6, Beyond, IInv, ControlInv, Control
  <2>2. Agrees6(u)
    BY <2>1 DEF IInv, UpdateInv
  <2>3. /\ kern[u].lo = Slot(inst[u].lo)
        /\ kern[u].pdLo = Slot(inst[u].pdLo)
        /\ kern[u].fwd = Slot(inst[u].fwd)
        /\ kern[u].prohibit =
             IF inst[u].prohibit THEN << NoFrom >> ELSE << >>
    BY <2>0 DEF IInv, KernelInv, UplinkInv, Tracked, Mirror
  <2>4. file[u]["pd"] # None => WantFwd(file[u]["pd"]) # None
    BY RoutingAssumption DEF WantFwd
  <2>. QED
    BY <2>2, <2>3, <2>4 DEF Agrees6, Settled6, Slot
<1>. QED
  BY <1>1, SpecIInv, PTL

\* A cycle that changed an IPv6 health ends with every radvd instance
\* advertising by the new one.
THEOREM CyclesReachRadvd == Spec => []CycleReachesRadvd
<1>1. IInv => CycleReachesRadvd
  BY DEF IInv, RadvdInv
<1>. QED
  BY <1>1, SpecIInv, PTL

\* Only a turn of regenerate_all makes a radvd instance load a file.
LEMMA OnlyTurnsLoad ==
    ASSUME [Next]_vars
    PROVE  RegenerateUplink \/ UNCHANGED << conf, loaded >>
<1>. USE DEF filesVars, signalVars, cycleVars, kernelVars, radvdVars
<1>1. ASSUME Hook \/ Environment
      PROVE  UNCHANGED << conf, loaded >>
  BY <1>1 DEF Hook, HookStart, HookWrite, HookSignal, Environment,
              HandleTerm, HandleHup, HandleUsr2, HandleSignal,
              IntervalPasses, RouteExpires
<1>2. CASE Start \/ Setup \/ Stop \/ NoReload \/ ReloadOk \/ ReloadRejected
              \/ ReloadRaises
  BY <1>2 DEF Start, Setup, Stop, CleanUp, NoReload, ReloadOk,
              ReloadRejected, ReloadRaises
<1>3. CASE TestSighup \/ TestReconcile \/ TestProbe \/ Wake \/ ReadRa
              \/ ReadPd \/ UpdatePrimaryUplinks
  BY <1>3 DEF TestSighup, TestReconcile, TestProbe, Wake, ReadRa, ReadPd,
              UpdatePrimaryUplinks
<1>4. CASE UpdateState \/ ReconcileUplinkIpv4 \/ ReconcileUplinkIpv6
  BY <1>4 DEF UpdateState, ReconcileUplinkIpv4, ReconcileUplinkIpv6
<1>5. CASE UNCHANGED vars
  BY <1>5 DEF vars
<1>. QED
  BY <1>1, <1>2, <1>3, <1>4, <1>5 DEF Next, Thread

\* When the daemon stops, every radvd instance has loaded its file and
\* advertises, whatever the health was.
THEOREM StopsWithRadvdAdvertising == Spec => StopsAdvertising
<1>1. IInv /\ [Next]_vars => LeavesAdvertising
  <2>. SUFFICES ASSUME IInv, [Next]_vars, pc # "off", pc' = "off",
                       NEW u \in PdUplinks
                PROVE  /\ loaded'[u] = conf'[u]
                       /\ loaded'[u].preference # "low"
                       /\ loaded'[u].lifetimes # "withdrawn"
    BY DEF LeavesAdvertising
  <2>1. RegenerateUplink /\ task = "stop" /\ ~(cur + 1 < N)
    <3>. USE DEF filesVars, signalVars, cycleVars, kernelVars, radvdVars
    <3>1. CASE RegenerateUplink
      BY <3>1 DEF RegenerateUplink, IInv, ControlInv, Control
    <3>2. ASSUME NEW v \in Uplinks, HookStart(v) \/ RouteExpires(v)
          PROVE  FALSE
      BY <3>2 DEF HookStart, RouteExpires
    <3>3. ~(HookWrite \/ HookSignal \/ HandleTerm \/ HandleHup \/ HandleUsr2
              \/ IntervalPasses \/ Start)
      BY DEF HookWrite, HookSignal, HandleTerm, HandleHup, HandleUsr2,
             HandleSignal, IntervalPasses, Start
    <3>4. ~(Setup \/ Stop \/ NoReload \/ ReloadOk \/ ReloadRejected
              \/ ReloadRaises \/ TestSighup \/ TestReconcile \/ TestProbe
              \/ Wake \/ ReadRa \/ ReadPd)
      BY DEF Setup, Stop, CleanUp, NoReload, ReloadOk, ReloadRejected,
             ReloadRaises, TestSighup, TestReconcile, TestProbe, Wake,
             ReadRa, ReadPd
    <3>5. ~UpdatePrimaryUplinks
      BY DEF UpdatePrimaryUplinks, IInv, ControlInv, Control, Passes
    <3>6. ~(UpdateState \/ ReconcileUplinkIpv4 \/ ReconcileUplinkIpv6)
      BY PassesAreNotBare DEF IInv, Bare
    <3>7. ~UNCHANGED vars
      BY DEF vars
    <3>. QED
      BY <3>1, <3>2, <3>3, <3>4, <3>5, <3>6, <3>7
         DEF Next, Hook, Environment, Thread
  <2>2. PICK c \in Uplinks : c = cur
    BY DEF IInv, ControlInv, ControlTypes
  <2>3. /\ action = "sighup"
        /\ Advertised = Uplinks
    BY <2>1 DEF RegenerateUplink, IInv, RadvdInv, Advertised
  <2>4. u \in Uplinks /\ u =< c
    BY <2>1, <2>2, Numbering DEF Uplinks
  <2>5. /\ loaded'[u] = conf'[u]
        /\ loaded'[u].preference = PreferenceFor(u, Uplinks)
        /\ loaded'[u].lifetimes = LifetimesFor(u, Uplinks)
    BY <2>1, <2>2, <2>3, <2>4, RegenerateTurn DEF IInv
  <2>. QED
    BY <2>4, <2>5 DEF PreferenceFor, LifetimesFor
<1>. QED
  BY <1>1, SpecIInv, PTL DEF Spec, StopsAdvertising

\* When a SIGHUP takes from the clients the last router whose uplink is up, the
\* instance of the primary has loaded its file before, or with it, and is no
\* router only because it has no lifetime left.
THEOREM NeverWithoutRouter == Spec => NoGap
<1>. DEFINE Step ==
       Routers(loaded) # {} /\ Routers(loaded') = {} =>
         \A u \in Routers(loaded) :
           IsUp(u, "ipv6") =>
             \E v \in RanOut(loaded') : IsPrimaryIpv6(v, Advertised)
<1>1. IInv /\ [Next]_vars => Step
  <2>. SUFFICES ASSUME IInv, [Next]_vars, Routers(loaded') = {},
                       NEW u \in Routers(loaded), IsUp(u, "ipv6")
                PROVE  \E v \in RanOut(loaded') : IsPrimaryIpv6(v, Advertised)
    OBVIOUS
  <2>1. u \in PdUplinks /\ u \in Uplinks /\ loaded[u].router
    BY Numbering DEF Routers
  <2>2. \A v \in PdUplinks : ~loaded'[v].router
    BY DEF Routers
  <2>3. RegenerateUplink /\ loaded' # loaded
    BY <2>1, <2>2, OnlyTurnsLoad
  <2>4. PICK c \in Uplinks : c = cur
    BY DEF IInv, ControlInv, ControlTypes
  <2>5. /\ \A v \in PdUplinks \ {c} : loaded'[v] = loaded[v]
        /\ action = "sighup"
        /\ \A v \in PdUplinks : v =< c =>
             loaded'[v].lifetimes = LifetimesFor(v, Advertised)
    BY <2>3, <2>4, RegenerateTurn DEF IInv
  <2>6. u = c
    BY <2>1, <2>2, <2>5
  <2>. DEFINE up == PdUplinks \cap Advertised
  <2>7. u \in up /\ u \in Nat /\ up \subseteq Nat
    BY <2>1, RadvdAssumption DEF Advertised, UpLinks, IsUp
  <2>8. PICK v \in up : \A w \in up : v =< w
    BY <2>7, LeastNatural
  <2>9. v =< c /\ v \in PdUplinks
    BY <2>6, <2>7, <2>8
  <2>10. LifetimesFor(v, Advertised) = "live" /\ IsPrimaryIpv6(v, Advertised)
    BY <2>8 DEF LifetimesFor, IsSecondary, IsPrimaryIpv6
  <2>. QED
    BY <2>2, <2>5, <2>9, <2>10 DEF RanOut
<1>2. IInv /\ [Next]_vars => [Step]_vars
  BY <1>1
<1>. QED
  BY <1>2, SpecIInv, PTL DEF Spec, NoGap
=============================================================================

--------------------------- MODULE RouteSyncProps ---------------------------
(***************************************************************************)
(* What survives the faults of module RouteSync, and what does not.        *)
(***************************************************************************)
EXTENDS RouteSync

\* Every variable holds a value of its kind.
TypeOK ==
    /\ uplink \in Uplinks
    /\ \A f \in FileNames : file[f] \in uplink.contents[f] \cup {None}
    /\ phase \in {"off", "boot", "idle", "pass", "stop"}
    /\ pending \in BOOLEAN /\ sound \in BOOLEAN /\ fresh6 \in BOOLEAN
    /\ faults \in 0 .. MaxFaults
    /\ \A s \in {"route6", "prohibit", "policy"} : inst[s] \in BOOLEAN
    /\ \A c \in ToSet(todo) :
         c.slot \in (CASE c.op = "book"  -> DOMAIN inst
                       [] c.op = "fire"  -> DOMAIN up
                       [] c.op = "route" -> RouteSlots
                       [] OTHER          -> RuleSlots)

Idle == phase = "idle" /\ ~pending

-----------------------------------------------------------------------------
\* A pass or a teardown in which nothing failed comes, command by command and
\* whatever leftovers of earlier faults the kernel held, to what module Routing
\* gives as one step (_reconcile_uplink_ipv4, _reconcile_uplink_ipv6,
\* _teardown_all).
PassAsOneStep == goal # None /\ todo = << >> => Now = goal

-----------------------------------------------------------------------------
\* What survives.

\* A rule the daemon remembers is in the kernel, whatever rules earlier
\* processes left in its slot: a deletion may hit a leftover instead of the
\* rule it means, but never costs a rule that is wanted.
RememberedRulesPresent ==
    sound /\ phase = "idle" =>
      /\ \A s \in {"addr", "lo", "pdLo", "fwd"} :
           inst[s] # None => Contains(kern[s], inst[s])
      /\ inst.prohibit => Contains(kern.prohibit, NoFrom)
      /\ inst.policy => Contains(kern.policy, NoFrom)

\* A restart repairs what is wanted: a process that saw no fault has both
\* IPv4 routes of an uplink that is up, whatever its predecessors left.
RestartRepairs4 ==
    sound /\ Idle /\ up.ipv4 =>
      /\ kern.shared = ReadState("v4").gateway
      /\ kern.own = ReadState("v4").gateway

\* The IPv6 route heals at the next pass: a flushed route or a failed
\* command is made good, for the route is replaced unconditionally.
Route6Heals ==
    fresh6 /\ Idle /\ Ipv6 /\ ReadState("ra") # None =>
      kern.route6 = Route6(ReadState("ra"))

\* Each fault costs at most one leftover rule per slot; no sequence of
\* passes, stops and starts multiplies them.
LeftoversBounded == \A s \in RuleSlots : Len(kern[s]) =< 1 + faults

-----------------------------------------------------------------------------
\* What the documents say and the code does not do.

\* SPEC.md 13.3: on daemon stop all policy routing rules are removed.
StopRemovesAll ==
    [][phase = "stop" /\ phase' = "off" /\ faults' = faults /\ sound =>
         \A s \in RuleSlots : kern'[s] = << >>]_vars

\* SPEC.md 8.4: dead uplinks have their default routes removed from the
\* uplinkmgr table.  Here: unless a command failed.
DeadUplinkHasNoRoute == sound /\ Idle /\ ~up.ipv4 => kern.shared = None

\* SPEC.md 9.4: with reject_wrong_pd_src, traffic from another prefix than
\* the delegated one matches no forwarding rule.  Here: unless a command
\* failed.
WrongSourceRejected ==
    sound /\ Idle /\ RejectWrongPdSrc /\ ReadState("pd") # None =>
      ToSet(kern.fwd) = {ReadState("pd")}

\* daemon.py:492: the shared and the per-uplink default route are always in
\* sync.  Here: when the daemon is idle.
RoutesInSync == Idle => kern.shared = kern.own

\* SPEC.md 5.4.4: an event is fired immediately after the corresponding
\* routing reconcile has applied.  Here: an uplink that is reported down has
\* lost its default route.
EventAfterRoutes ==
    [][(todo # << >> /\ Head(todo) = Fire("ipv4") /\ ~up.ipv4 /\ sound
          /\ todo' = Tail(todo))
         => kern.shared = None]_vars

\* SPEC.md 7.5: the forwarding rule is updated in place and never deleted
\* while the daemon runs.
FwdNeverDeleted ==
    [][phase = "pass" /\ phase' = "pass" /\ kern.fwd # << >> =>
         kern'.fwd # << >>]_vars
=============================================================================

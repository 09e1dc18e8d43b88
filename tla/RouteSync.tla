----------------------------- MODULE RouteSync ------------------------------
(***************************************************************************)
(* The routing of one uplink, one ip(8) command at a time, in a world      *)
(* where commands fail, the daemon is killed and restarted by systemd      *)
(* (Restart=on-failure) and interfaces flap.  Module Daemon takes a pass   *)
(* of _reconcile_uplink_ipv4/6 as one step that succeeds; here it is the   *)
(* sequence of commands the code runs, and of assignments to _installed.   *)
(* `goal' keeps what the one step would give, to be compared at the end    *)
(* (PassAsOneStep).                                                        *)
(*                                                                         *)
(* State files survive the daemon (RuntimeDirectoryPreserve); a file the   *)
(* reader cannot parse counts as absent (_read_kv_state).                  *)
(***************************************************************************)
EXTENDS Routing, SequencesExt, Naturals

CONSTANTS
    Uplinks,        \* [pd |-> ipv6_pd, na |-> ia_na, contents |-> by file]
    Malformed,      \* a file with a missing key or an unreadable number
    MaxFaults       \* bound: faults in one behaviour

FileNames == {"v4", "ra", "pd", "na"}

\* A lease that can be read has a gateway (state.py read_ipv4_state).
ASSUME UplinkAssumption ==
    /\ MaxFaults \in Nat
    /\ \A w \in Uplinks :
         /\ w.pd \in BOOLEAN /\ w.na \in BOOLEAN
         /\ \A l \in w.contents["v4"] \ {Malformed} : l.gateway # None

VARIABLES
    uplink,     \* the uplink
    file,       \* the state files
    pending,    \* _reconcile_requested
    phase,      \* off, boot (before the try of run), idle, pass, stop
    todo,       \* commands and assignments still to be made
    inst,       \* _installed, and the flags of the policy rules
    kern,       \* the kernel's routes and rules
    up,         \* health per family
    faults,     \* number of faults so far
    sound,      \* no fault since the daemon started
    fresh6,     \* no fault since the last IPv6 pass began
    goal        \* what the pass comes to as one step, None after a fault

vars == << uplink, file, pending, phase, todo, inst, kern, up, faults, sound,
           fresh6, goal >>

Ipv6 == uplink.pd \/ uplink.na

-----------------------------------------------------------------------------
\* The kernel and the bookkeeping with the policy rules, which are installed
\* and removed together and stand in one slot.

EmptyKern == [s \in DOMAIN NoKern \cup {"policy"} |->
                IF s = "policy" THEN << >> ELSE NoKern[s]]
EmptyInst == [s \in DOMAIN NoInst \cup {"policy"} |->
                IF s = "policy" THEN FALSE ELSE NoInst[s]]

RuleSlots == {"policy", "addr", "lo", "pdLo", "fwd", "prohibit"}
RouteSlots == {"shared", "own", "route6"}

Item(op, slot, value) == [op |-> op, slot |-> slot, value |-> value]
ReplaceRoute(slot, gateway) == Item("route", slot, gateway)
DelRoute(slot) == Item("route", slot, None)
Add(slot, selector) == Item("add", slot, selector)
Del(slot) == Item("del", slot, None)
Book(field, value) == Item("book", field, value)
Fire(family) == Item("fire", family, None)      \* wan-up or wan-down

\* Mutant: `ip route add', which the kernel refuses when there is a route.
MutRun(k, c) ==
    CASE c.op = "route" ->
           IF c.value # None /\ k[c.slot] # None THEN k
           ELSE [k EXCEPT ![c.slot] = c.value]
      [] c.op = "add"   -> [k EXCEPT ![c.slot] = AddRule(@, c.value)]
      [] c.op = "del"   -> [k EXCEPT ![c.slot] = DelRule(@)]
      [] c.op \in {"book", "fire"} -> k

\* What a command that succeeds does to the kernel.
Run(k, c) ==
    CASE c.op = "route" -> [k EXCEPT ![c.slot] = c.value]
      [] c.op = "add"   -> [k EXCEPT ![c.slot] = AddRule(@, c.value)]
      [] c.op = "del"   -> [k EXCEPT ![c.slot] = DelRule(@)]
      [] c.op \in {"book", "fire"} -> k

Booked(i, c) == IF c.op = "book" THEN [i EXCEPT ![c.slot] = c.value] ELSE i

-----------------------------------------------------------------------------
\* The commands of a pass, in the order of the code.

\* Mutant: the new rule is added before the old one is deleted.
MutRuleItems(slot, old, new) ==
    IF old = new THEN << >>
    ELSE (IF new = None THEN << >> ELSE << Add(slot, new) >>)
         \o (IF old = None THEN << >> ELSE << Del(slot) >>)
         \o << Book(slot, new) >>

RuleItems(slot, old, new) ==
    IF old = new THEN << >>
    ELSE (IF old = None THEN << >> ELSE << Del(slot) >>)
         \o (IF new = None THEN << >> ELSE << Add(slot, new) >>)
         \o << Book(slot, new) >>

Items4(i, lease, isUp) ==
    LET gw == WantGateway(lease, isUp)
    IN  (IF gw = i.gateway THEN << >>
         ELSE << ReplaceRoute("shared", gw), ReplaceRoute("own", gw),
                 Book("gateway", gw) >>)
        \o RuleItems("addr", i.addr, WantAddr(lease, isUp))

\* Mutant: a route that was installed once is not installed again.
MutRoute6Items(i, ra) ==
    IF ra # None
    THEN IF i.route6 THEN << >>
         ELSE << ReplaceRoute("route6", Route6(ra)), Book("route6", TRUE) >>
    ELSE IF i.route6 THEN << DelRoute("route6"), Book("route6", FALSE) >>
    ELSE << >>

Route6Items(i, ra) ==
    IF ra # None
    THEN << ReplaceRoute("route6", Route6(ra)), Book("route6", TRUE) >>
    ELSE IF i.route6 THEN << DelRoute("route6"), Book("route6", FALSE) >>
    ELSE << >>

FwdItems(i, pd) ==
    LET new == NextFwd([inst |-> i], pd)
    IN  IF new = i.fwd THEN << >>
        ELSE << Del("fwd"), Add("fwd", new), Book("fwd", new) >>

ProhibitItems(i, pd) ==
    LET new == NextProhibit([inst |-> i], pd)
    IN  IF new = i.prohibit THEN << >>
        ELSE << IF new THEN Add("prohibit", NoFrom) ELSE Del("prohibit"),
                Book("prohibit", new) >>

Items6(i, ra, pd, na, isUp) ==
    IF ~Ipv6 THEN << >>
    ELSE Route6Items(i, ra)
         \o RuleItems("lo", i.lo, WantSource(ra, na, isUp))
         \o RuleItems("pdLo", i.pdLo, WantPdSource(pd, isUp))
         \o FwdItems(i, pd)
         \o ProhibitItems(i, pd)

SetupItems ==
    << Add("policy", NoFrom), Book("policy", TRUE) >>
    \o (IF uplink.pd THEN << Add("fwd", NoFrom), Book("fwd", NoFrom) >>
        ELSE << >>)

\* The bookkeeping once the set-up is done.
SetUp == [EmptyInst EXCEPT !.policy = TRUE,
                           !.fwd = IF uplink.pd THEN NoFrom ELSE None]

\* Mutant: a rule is forgotten without being deleted.
MutForget(slot, installed, none) ==
    IF installed THEN << Book(slot, none) >> ELSE << >>

Forget(slot, installed, none) ==
    IF installed THEN << Del(slot), Book(slot, none) >> ELSE << >>

Teardown6Items(i) ==
    (IF i.route6 THEN << DelRoute("route6"), Book("route6", FALSE) >>
     ELSE << >>)
    \o Forget("lo", i.lo # None, None)
    \o Forget("pdLo", i.pdLo # None, None)
    \o Forget("fwd", i.fwd # None, None)
    \o Forget("prohibit", i.prohibit, FALSE)

TeardownItems(i) ==
    (IF i.gateway = None THEN << >>
     ELSE << DelRoute("shared"), DelRoute("own"), Book("gateway", None) >>)
    \o Forget("addr", i.addr # None, None)
    \o (IF Ipv6 THEN Teardown6Items(i) ELSE << >>)
    \o Forget("policy", i.policy, FALSE)

-----------------------------------------------------------------------------
\* What the readers make of a file.
ReadState(f) == IF file[f] = Malformed THEN None ELSE file[f]

AnyIpv6 == \E f \in {"ra", "pd", "na"} : ReadState(f) # None

\* A link without state files is forced down by the pass.
Forced(u) == [ipv4 |-> u.ipv4 /\ ReadState("v4") # None,
              ipv6 |-> u.ipv6 /\ (Ipv6 => AnyIpv6)]

\* _force_link_down announces the change before the routes follow.
ForceDown(family, was, is) == IF was /\ ~is THEN << Fire(family) >> ELSE << >>

Pass4(i, was, is) ==
    ForceDown("ipv4", was, is) \o Items4(i, ReadState("v4"), is)
Pass6(i, was, is) ==
    ForceDown("ipv6", was, is)
    \o Items6(i, ReadState("ra"), ReadState("pd"), ReadState("na"), is)

-----------------------------------------------------------------------------
\* The same as one step (module Routing), with the policy rules.

Now == [inst |-> inst, kern |-> kern]

Passed4(r, is) == ReconcileIpv4(r, ReadState("v4"), is)
Passed6(r, is) ==
    IF Ipv6
    THEN ReconcileIpv6(r, ReadState("ra"), ReadState("pd"), ReadState("na"), is)
    ELSE r

Torn(r) ==
    LET t == Teardown(r, Ipv6)
    IN  [inst |-> [f \in DOMAIN r.inst |->
                     IF f = "policy" THEN FALSE ELSE t.inst[f]],
         kern |-> [t.kern EXCEPT !.policy = Undo(@, r.inst.policy)]]

-----------------------------------------------------------------------------
\* The exit hook replaces or removes a file and signals who listens.
FileChanges ==
    /\ \E f \in FileNames :
         \E c \in (uplink.contents[f] \cup {None}) \ {file[f]} :
              file' = [file EXCEPT ![f] = c]
    /\ pending' = (pending \/ phase # "off")
    /\ UNCHANGED << phase, todo, inst, kern, up, faults, sound, fresh6, goal >>

\* run: empty bookkeeping, every link up, the rules, the first pass.
Start ==
    /\ phase = "off"
    /\ phase' = "boot"
    /\ inst' = EmptyInst
    /\ up' = Forced([ipv4 |-> TRUE, ipv6 |-> TRUE])
    /\ todo' = SetupItems \o Pass4(SetUp, TRUE, up'.ipv4)
               \o Pass6(SetUp, TRUE, up'.ipv6)
    /\ pending' = FALSE
    /\ sound' = TRUE
    /\ fresh6' = TRUE
    /\ goal' = None
    /\ UNCHANGED << file, kern, faults >>

\* The next command or assignment succeeds.
Step ==
    /\ todo # << >>
    /\ kern' = Run(kern, Head(todo))
    /\ inst' = Booked(inst, Head(todo))
    /\ todo' = Tail(todo)
    /\ UNCHANGED << file, pending, phase, up, faults, sound, fresh6, goal >>

\* The boot or the pass is over: the main loop.
ToLoop ==
    /\ todo = << >>
    /\ phase \in {"boot", "pass"}
    /\ phase' = "idle"
    /\ goal' = None
    /\ UNCHANGED << file, pending, todo, inst, kern, up, faults, sound,
                    fresh6 >>

\* The process is gone, and its memory with it.
Gone ==
    /\ phase' = "off"
    /\ inst' = EmptyInst
    /\ todo' = << >>
    /\ pending' = FALSE
    /\ goal' = None

Exit ==
    /\ todo = << >>
    /\ phase = "stop"
    /\ Gone
    /\ UNCHANGED << file, kern, up, faults, sound, fresh6 >>

\* _do_reconcile.
Reconcile ==
    /\ phase = "idle"
    /\ pending
    /\ pending' = FALSE
    /\ phase' = "pass"
    /\ up' = Forced(up)
    /\ todo' = Pass4(inst, up.ipv4, up'.ipv4) \o Pass6(inst, up.ipv6, up'.ipv6)
    /\ goal' = Passed6(Passed4(Now, up'.ipv4), up'.ipv6)
    /\ fresh6' = TRUE
    /\ UNCHANGED << file, inst, kern, faults, sound >>

\* A cycle changed the health of one family, whose part of the pass runs and
\* is announced.
Probe4 ==
    /\ phase = "idle"
    /\ phase' = "pass"
    /\ up' = [up EXCEPT !.ipv4 = ~up.ipv4 /\ ReadState("v4") # None]
    /\ todo' = Pass4(inst, ~up.ipv4, up'.ipv4) \o << Fire("ipv4") >>
    /\ goal' = Passed4(Now, up'.ipv4)
    /\ UNCHANGED << file, pending, inst, kern, faults, sound, fresh6 >>

Probe6 ==
    /\ Ipv6
    /\ phase = "idle"
    /\ phase' = "pass"
    /\ up' = [up EXCEPT !.ipv6 = ~up.ipv6 /\ AnyIpv6]
    /\ todo' = Pass6(inst, ~up.ipv6, up'.ipv6) \o << Fire("ipv6") >>
    /\ goal' = Passed6(Now, up'.ipv6)
    /\ fresh6' = TRUE
    /\ UNCHANGED << file, pending, inst, kern, faults, sound >>

\* SIGTERM, seen by the main loop.
Terminate ==
    /\ phase = "idle"
    /\ phase' = "stop"
    /\ todo' = TeardownItems(inst)
    /\ goal' = Torn(Now)
    /\ UNCHANGED << file, pending, inst, kern, up, faults, sound, fresh6 >>

-----------------------------------------------------------------------------
\* Faults.

Fault ==
    /\ faults < MaxFaults
    /\ faults' = faults + 1
    /\ UNCHANGED << file, up >>

\* _run and _run_del log a command that fails, and go on.
CommandFails ==
    /\ Fault
    /\ todo # << >>
    /\ Head(todo).op \in {"route", "add", "del"}
    /\ todo' = Tail(todo)
    /\ sound' = FALSE
    /\ fresh6' = FALSE
    /\ goal' = None
    /\ UNCHANGED << pending, phase, inst, kern >>

\* subprocess.run cannot start a command and raises: the loop is left and
\* _cleanup undoes what is remembered so far.
CommandRaises ==
    /\ Fault
    /\ phase = "pass"
    /\ todo # << >>
    /\ Head(todo).op \in {"route", "add", "del"}
    /\ phase' = "stop"
    /\ todo' = TeardownItems(inst)
    /\ sound' = FALSE
    /\ fresh6' = FALSE
    /\ goal' = None
    /\ UNCHANGED << pending, inst, kern >>

\* kill -9, or an exception outside the try of run.
Killed ==
    /\ Fault
    /\ phase # "off"
    /\ Gone
    /\ UNCHANGED << kern, sound, fresh6 >>

\* The interface goes down and up: the kernel flushes its routes, and
\* nothing tells the daemon.
InterfaceFlaps ==
    /\ Fault
    /\ \E s \in RouteSlots : kern[s] # None
    /\ kern' = [s \in DOMAIN kern |->
                  IF s \in RouteSlots THEN None ELSE kern[s]]
    /\ sound' = FALSE
    /\ fresh6' = FALSE
    /\ goal' = None
    /\ UNCHANGED << pending, phase, todo, inst >>

-----------------------------------------------------------------------------
Init ==
    /\ uplink \in Uplinks
    /\ file = [f \in FileNames |-> None]
    /\ pending = FALSE
    /\ phase = "off"
    /\ todo = << >>
    /\ inst = EmptyInst
    /\ kern = EmptyKern
    /\ up = [ipv4 |-> TRUE, ipv6 |-> TRUE]
    /\ faults = 0
    /\ sound = TRUE
    /\ fresh6 = TRUE
    /\ goal = None

Next ==
    /\ UNCHANGED uplink
    /\ \/ FileChanges
       \/ Start \/ Step \/ ToLoop \/ Exit
       \/ Reconcile \/ Probe4 \/ Probe6 \/ Terminate
       \/ CommandFails \/ CommandRaises \/ Killed \/ InterfaceFlaps

Spec == Init /\ [][Next]_vars
=============================================================================

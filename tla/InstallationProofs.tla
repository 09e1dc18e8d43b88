------------------------- MODULE InstallationProofs -------------------------
(***************************************************************************)
(* uplinkmgr-setup leaves what it promises, for any configurations and     *)
(* whatever was cut short or failed before; and the link by which dhcpcd   *)
(* finds the hook is in its place, for any candidate directories.          *)
(***************************************************************************)
EXTENDS SetupProps, HookLink, WellFoundedInduction, TLAPS

-----------------------------------------------------------------------------
\* dhcpcd-hook-link.

\* The elements of a nonempty sequence are its head and those of its tail.
LEMMA HeadAndTail ==
    ASSUME NEW s \in Seq(Dirs), s # << >>
    PROVE  /\ Head(s) \in Dirs /\ Tail(s) \in Seq(Dirs)
           /\ ToSet(s) = {Head(s)} \cup ToSet(Tail(s))
<1>1. Head(s) \in Dirs /\ Tail(s) \in Seq(Dirs)
  OBVIOUS
<1>2. ASSUME NEW d, d \in ToSet(s), d # Head(s)
      PROVE  d \in ToSet(Tail(s))
  <2>1. PICK i \in 1 .. Len(s) : s[i] = d
    BY <1>2 DEF ToSet
  <2>2. i # 1
    BY <1>2, <2>1
  <2>3. /\ i - 1 \in 1 .. Len(Tail(s))
        /\ Tail(s)[i - 1] = d
    BY <2>1, <2>2
  <2>4. i - 1 \in DOMAIN Tail(s)
    BY <1>1, <2>3
  <2>. QED
    BY <2>3, <2>4 DEF ToSet
<1>3. ToSet(Tail(s)) \subseteq ToSet(s)
  <2>. SUFFICES ASSUME NEW i \in 1 .. Len(Tail(s))
                PROVE  Tail(s)[i] \in ToSet(s)
    BY <1>1 DEF ToSet
  <2>1. i + 1 \in 1 .. Len(s) /\ Tail(s)[i] = s[i + 1]
    OBVIOUS
  <2>. QED
    BY <2>1 DEF ToSet
<1>4. Head(s) \in ToSet(s)
  <2>1. 1 \in 1 .. Len(s) /\ Head(s) = s[1]
    OBVIOUS
  <2>. QED
    BY <2>1 DEF ToSet
<1>. QED
  BY <1>1, <1>2, <1>3, <1>4

\* The candidates are the directories.
LEMMA Candidates ==
    /\ CandidateDirs \in Seq(Dirs)
    /\ ToSet(CandidateDirs) = Dirs
    /\ Nowhere \notin Dirs
BY CandidateAssumption DEF Dirs

\* The target is a directory, and nowhere only if dhcpcd-base owns none.
LEMMA TargetOwned ==
    ASSUME owned \in SUBSET Dirs
    PROVE  IF owned = {} THEN Target = Nowhere ELSE Target \in owned
<1>. DEFINE hits == {i \in DOMAIN CandidateDirs : CandidateDirs[i] \in owned}
<1>1. hits \in SUBSET Nat /\ (hits = {} <=> owned = {})
  <2>1. hits \in SUBSET Nat
    BY Candidates
  <2>2. hits = {} <=> owned = {}
    BY Candidates DEF ToSet
  <2>. QED
    BY <2>1, <2>2
<1>2. CASE hits = {}
  BY <1>1, <1>2 DEF Target
<1>3. CASE hits # {}
  <2>. DEFINE R == OpToRel(<, Nat)
  <2>1. IsWellFoundedOn(R, Nat)
    BY NatLessThanWellFounded
  <2>2. \A m, n \in Nat : m < n => << m, n >> \in R
    BY DEF OpToRel
  <2>. HIDE DEF R
  <2>3. PICK m \in hits : \A n \in hits : << n, m >> \notin R
    BY <1>1, <1>3, <2>1, WFMin
  <2>4. ASSUME NEW n \in hits
        PROVE  m =< n
    <3>1. m \in Nat /\ n \in Nat
      BY <1>1
    <3>2. ~(n < m)
      BY <2>2, <2>3, <3>1
    <3>. QED
      BY <3>1, <3>2
  <2>5. (CHOOSE i \in hits : \A j \in hits : i =< j) \in hits
    BY <2>4
  <2>. QED
    BY <1>1, <1>3, <2>5 DEF Target
<1>. QED
  BY <1>2, <1>3

-----------------------------------------------------------------------------
\* The invariant.  A run keeps to the target it started with, for nothing else
\* changes meanwhile, and what it has looked at is not uplinkmgr's any more; a
\* package that is not installed has no run.

LinkTypeInv ==
    /\ owned \in SUBSET Dirs /\ present \in SUBSET Dirs
    /\ at \in [Dirs -> {"none", "ours", "foreign"}]
    /\ installed \in BOOLEAN /\ failed \in BOOLEAN
    /\ due \in {"none", "link", "remove"}
    /\ run \in {"idle", "link", "remove"}
    /\ left \in Seq(Dirs)
    /\ target \in Dirs \cup {Nowhere}

LinkRunInv ==
    /\ run # "idle" => due = run /\ ~failed
    /\ run = "link" => target = Target /\ owned # {}
    /\ run # "idle" =>
         \A d \in Dirs : d \in ToSet(left) \/ Skipped(d) \/ at[d] # "ours"
    /\ ~installed => due = "none" /\ run = "idle"

LinkIInv == LinkTypeInv /\ LinkRunInv /\ LinkInPlace

LEMMA LinkInitIInv == LinkInit => LinkIInv
<1>. SUFFICES ASSUME LinkInit PROVE LinkIInv
  OBVIOUS
<1>1. LinkTypeInv
  <2>1. at \in [Dirs -> {"none", "ours", "foreign"}]
    BY DEF LinkInit
  <2>2. left \in Seq(Dirs)
    BY DEF LinkInit
  <2>. QED
    BY <2>1, <2>2 DEF LinkInit, LinkTypeInv
<1>. QED
  BY <1>1 DEF LinkInit, LinkIInv, LinkRunInv, LinkInPlace

\* What is there once a directory has been looked at.
LEMMA Unlinked ==
    ASSUME LinkTypeInv, NEW d \in Dirs
    PROVE  /\ UnlinkIfOurs(d) \in [Dirs -> {"none", "ours", "foreign"}]
           /\ UnlinkIfOurs(d)[d] # "ours"
           /\ \A e \in Dirs \ {d} : UnlinkIfOurs(d)[e] = at[e]
BY DEF LinkTypeInv, UnlinkIfOurs

\* The target depends on nothing but what dhcpcd-base owns.
LEMMA TargetStays ==
    ASSUME owned' = owned
    PROVE  Target' = Target
BY DEF Target

LEMMA LinkNextIInv == LinkIInv /\ [LinkNext]_linkVars => LinkIInv'
<1>. SUFFICES ASSUME LinkIInv, [LinkNext]_linkVars PROVE LinkIInv'
  OBVIOUS
<1>. USE DEF LinkIInv
<1>1. CASE StartLink
  <2>1. LinkTypeInv'
    BY <1>1, Candidates, TargetOwned DEF LinkTypeInv, StartLink
  <2>2. LinkRunInv'
    BY <1>1, Candidates, TargetOwned, TargetStays
    DEF StartLink, LinkTypeInv, LinkRunInv, Skipped
  <2>3. LinkInPlace'
    BY <1>1, Candidates, TargetOwned, TargetStays
    DEF StartLink, LinkTypeInv, LinkRunInv, LinkInPlace
  <2>. QED
    BY <2>1, <2>2, <2>3
<1>2. CASE StartRemove
  BY <1>2, Candidates, TargetStays
  DEF StartRemove, LinkTypeInv, LinkRunInv, LinkInPlace, Skipped
<1>3. CASE Clean
  <2>1. /\ Head(left) \in Dirs /\ Tail(left) \in Seq(Dirs)
        /\ ToSet(left) = {Head(left)} \cup ToSet(Tail(left))
    BY <1>3, HeadAndTail DEF Clean, LinkTypeInv
  <2>2. LinkTypeInv'
    BY <1>3, <2>1, Unlinked DEF Clean, LinkTypeInv
  <2>3. LinkRunInv'
    BY <1>3, <2>1, TargetStays, Unlinked
    DEF Clean, LinkTypeInv, LinkRunInv, Skipped
  <2>4. LinkInPlace'
    BY <1>3, TargetStays DEF Clean, LinkTypeInv, LinkRunInv, LinkInPlace
  <2>. QED
    BY <2>2, <2>3, <2>4
<1>4. CASE FinishLink
  <2>1. ToSet(left) = {}
    BY <1>4 DEF FinishLink, ToSet
  <2>2. target \in Dirs /\ target = Target
    BY <1>4, TargetOwned DEF FinishLink, LinkTypeInv, LinkRunInv
  <2>3. LinkTypeInv'
    BY <1>4 DEF FinishLink, LinkTypeInv
  <2>4. LinkRunInv'
    BY <1>4 DEF FinishLink, LinkTypeInv, LinkRunInv
  <2>5. LinkInPlace'
    BY <1>4, <2>1, <2>2, TargetStays
    DEF FinishLink, LinkTypeInv, LinkRunInv, LinkInPlace, Skipped
  <2>. QED
    BY <2>3, <2>4, <2>5
<1>5. CASE FinishRemove
  <2>1. ToSet(left) = {}
    BY <1>5 DEF FinishRemove, ToSet
  <2>. QED
    BY <1>5, <2>1
    DEF FinishRemove, LinkTypeInv, LinkRunInv, LinkInPlace, Skipped
<1>6. CASE Fails
  BY <1>6, TargetStays DEF Fails, LinkTypeInv, LinkRunInv, LinkInPlace
<1>7. CASE Interrupted
  BY <1>7, TargetStays DEF Interrupted, LinkTypeInv, LinkRunInv, LinkInPlace
<1>8. CASE DhcpcdBaseChanges
  BY <1>8 DEF DhcpcdBaseChanges, LinkTypeInv, LinkRunInv, LinkInPlace
<1>9. CASE Install
  BY <1>9 DEF Install, LinkTypeInv, LinkRunInv, LinkInPlace
<1>10. CASE Removal
  BY <1>10 DEF Removal, LinkTypeInv, LinkRunInv, LinkInPlace
<1>11. CASE Administrator
  <2>. PICK d \in present :
         /\ at[d] = "none"
         /\ \/ at' = [at EXCEPT ![d] = "foreign"] /\ UNCHANGED present
            \/ present' = present \ {d} /\ UNCHANGED at
    BY <1>11 DEF Administrator
  <2>1. LinkTypeInv'
    BY <1>11 DEF Administrator, LinkTypeInv
  <2>2. LinkRunInv'
    BY <1>11, <2>1 DEF Administrator, LinkTypeInv, LinkRunInv
  <2>3. LinkInPlace'
    BY <1>11, <2>1, TargetStays, TargetOwned
    DEF Administrator, LinkTypeInv, LinkRunInv, LinkInPlace
  <2>. QED
    BY <2>1, <2>2, <2>3
<1>12. CASE UNCHANGED linkVars
  BY <1>12, TargetStays DEF linkVars, LinkTypeInv, LinkRunInv, LinkInPlace, Skipped
<1>. QED
  BY <1>1, <1>2, <1>3, <1>4, <1>5, <1>6, <1>7, <1>8, <1>9, <1>10, <1>11,
     <1>12 DEF LinkNext

\* For any candidate directories, the link is where dhcpcd looks for it,
\* through moves of that directory, kills and failures, and it goes with the
\* package (dhcpcd-hook-link, postinst, prerm).
THEOREM LinkIsInPlace == LinkSpec => []LinkInPlace
<1>1. LinkSpec => []LinkIInv
  BY LinkInitIInv, LinkNextIInv, PTL DEF LinkSpec
<1>. QED
  BY <1>1, PTL DEF LinkIInv

-----------------------------------------------------------------------------
\* uplinkmgr-setup.  The theorems about it hold for configurations in which no
\* uplink is named like an interface and no interface like a macvlan: setup
\* does not ask for that.

NamesApart ==
    /\ Names \cap (Interfaces \cup AllMacvlans) = {}
    /\ Interfaces \cap AllMacvlans = {}

\* What Start lets through.
Good(c) == c \in Files /\ Accepts(c) /\ validate_macvlan_names(c)

All(c) == 0 .. Len(c.uplinks) - 1

\* Paths of different kinds differ, and those of one kind by their names.
LEMMA Paths ==
    ASSUME NEW n, NEW m
    PROVE  /\ Env(n)[1] = "env" /\ Env(n)[2] = n
           /\ RadvdConf(n)[1] = "radvd" /\ RadvdConf(n)[2] = n
           /\ InterfacesConf[1] = "interfaces" /\ DhcpcdConf[1] = "dhcpcd"
           /\ TablesConf[1] = "tables"
           /\ Env(n) = Env(m) => n = m
           /\ RadvdConf(n) = RadvdConf(m) => n = m
BY DEF Env, RadvdConf, InterfacesConf, DhcpcdConf, TablesConf

\* The uplinks of a configuration have names and interfaces of their own.
LEMMA UplinkFacts ==
    ASSUME NEW c, Good(c), NEW u \in All(c)
    PROVE  /\ u \in Int /\ u + 1 \in DOMAIN c.uplinks
           /\ Uplink(c, u).name \in Configured(c)
           /\ Configured(c) \subseteq Names
           /\ Uplink(c, u).interface \in Interfaces
           /\ \A v \in All(c) :
                /\ Uplink(c, u).name = Uplink(c, v).name => u = v
                /\ Uplink(c, u).interface = Uplink(c, v).interface => u = v
<1>1. /\ c \in Files /\ Len(c.uplinks) \in Nat
      /\ DOMAIN c.uplinks = 1 .. Len(c.uplinks)
  BY FilesAssumption DEF Good
<1>2. \A v \in All(c) : v \in Int /\ v + 1 \in DOMAIN c.uplinks
  BY <1>1 DEF All
<1>3. /\ Configured(c) \subseteq Names
      /\ {c.uplinks[i].interface : i \in DOMAIN c.uplinks} \subseteq Interfaces
  BY <1>1 DEF Names, Interfaces
<1>4. /\ \A i, j \in DOMAIN c.uplinks :
           c.uplinks[i].name = c.uplinks[j].name => i = j
      /\ \A i, j \in DOMAIN c.uplinks :
           c.uplinks[i].interface = c.uplinks[j].interface => i = j
  BY DEF Good, Accepts, UplinksOk, Distinct
<1>5. \A v \in All(c) :
         /\ Uplink(c, u).name = Uplink(c, v).name => u = v
         /\ Uplink(c, u).interface = Uplink(c, v).interface => u = v
  BY <1>2, <1>4 DEF Uplink
<1>. QED
  BY <1>2, <1>3, <1>5 DEF Uplink, Configured

\* Every configured name is that of an uplink of the configuration.
LEMMA NameOf ==
    ASSUME NEW c, Good(c), NEW n \in Configured(c)
    PROVE  \E u \in All(c) : n = Uplink(c, u).name
<1>1. PICK i \in DOMAIN c.uplinks : n = c.uplinks[i].name
  BY DEF Configured
<1>2. Len(c.uplinks) \in Nat /\ DOMAIN c.uplinks = 1 .. Len(c.uplinks)
  BY FilesAssumption DEF Good
<1>3. i - 1 \in All(c) /\ (i - 1) + 1 = i
  BY <1>1, <1>2 DEF All
<1>. QED
  BY <1>1, <1>3 DEF Uplink

\* No name gets two links.
LEMMA LinkFacts ==
    ASSUME NamesApart, NEW c, Good(c), NEW u \in All(c), NEW m \in Links(c, u)
    PROVE  /\ m \in Nat \ {0}
           /\ LinkName(c, u, m) \in Interfaces \cup AllMacvlans
           /\ \A v \in All(c) : \A k \in Links(c, v) :
                LinkName(c, u, m) = LinkName(c, v, k) => u = v /\ m = k
<1>1. /\ c \in Files /\ Len(c.uplinks) \in Nat /\ Len(c.networks) \in Nat
  BY FilesAssumption DEF Good
<1>2. ASSUME NEW v \in All(c), NEW k \in Links(c, v)
      PROVE  /\ k \in 1 .. Len(c.networks) + 1
             /\ k = 1 => LinkName(c, v, k) = Uplink(c, v).interface
             /\ k # 1 =>
                  /\ << k - 2, v >> \in MacvlanPairs(c)
                  /\ LinkName(c, v, k) = macvlan_name(c, k - 2, v)
                  /\ LinkName(c, v, k) \in AllMacvlans
             /\ k = 1 => LinkName(c, v, k) \in Interfaces
  <2>1. k \in 1 .. Len(c.networks) + 1 /\ (k > 1 => Uplink(c, v).pd)
    BY <1>2 DEF Links
  <2>2. ASSUME k # 1 PROVE << k - 2, v >> \in MacvlanPairs(c)
    <3>1. k - 2 \in 0 .. Len(c.networks) - 1 /\ k > 1
      BY <1>1, <2>1, <2>2
    <3>2. v \in PdIndices(c)
      BY <2>1, <3>1 DEF PdIndices, Uplink, All
    <3>. QED
      BY <3>1, <3>2 DEF MacvlanPairs
  <2>3. ASSUME k # 1 PROVE LinkName(c, v, k) \in AllMacvlans
    <3>1. k - 2 \in 0 .. Len(c.networks) - 1
      BY <1>1, <2>1, <2>3
    <3>2. macvlan_name(c, k - 2, v) \in Macvlans(c, v)
      BY <3>1 DEF Macvlans
    <3>. QED
      BY <1>1, <2>3, <3>2 DEF AllMacvlans, LinkName, All
  <2>. QED
    BY <2>1, <2>2, <2>3, UplinkFacts DEF LinkName
<1>3. ASSUME NEW v \in All(c), NEW k \in Links(c, v),
             LinkName(c, u, m) = LinkName(c, v, k)
      PROVE  u = v /\ m = k
  <2>1. CASE m = 1 /\ k = 1
    BY <1>2, <1>3, <2>1, UplinkFacts
  <2>2. CASE m # 1 /\ k # 1
    <3>. DEFINE p == << m - 2, u >>
                q == << k - 2, v >>
    <3>1. p \in MacvlanPairs(c) /\ q \in MacvlanPairs(c)
      BY <1>2, <2>2
    <3>2. /\ p[1] = m - 2 /\ p[2] = u
          /\ q[1] = k - 2 /\ q[2] = v
      OBVIOUS
    <3>3. macvlan_name(c, p[1], p[2]) = macvlan_name(c, q[1], q[2])
      BY <1>2, <1>3, <2>2, <3>2
    <3>4. p = q
      BY <3>1, <3>3 DEF Good, validate_macvlan_names
    <3>5. m - 2 = k - 2 /\ u = v
      BY <3>2, <3>4
    <3>6. m \in Int /\ k \in Int
      BY <1>1 DEF Links
    <3>. QED
      BY <3>5, <3>6
  <2>3. CASE (m = 1) # (k = 1)
    BY <1>2, <1>3, <2>3 DEF NamesApart
  <2>. QED
    BY <2>1, <2>2, <2>3
<1>4. m \in Nat \ {0}
  BY <1>1 DEF Links
<1>. QED
  BY <1>2, <1>3, <1>4

-----------------------------------------------------------------------------
\* The steps of a run and their order.

OnceStages == {"interfaces", "dhcpcd", "tables", "radvdSweep", "envSweep",
               "linkSweep", "restart", "list"}
FileStages == {"interfaces", "dhcpcd", "radvd", "tables", "env"}
SweepStages == {"radvdSweep", "envSweep", "linkSweep"}

Once(stage) == << stage, 0, 0, 0 >>
IsFile(p) == p[1] \in FileStages /\ p[3] = 0

LEMMA Orders ==
    /\ Order["interfaces"] = 1 /\ Order["dhcpcd"] = 2 /\ Order["radvd"] = 3
    /\ Order["tables"] = 4 /\ Order["env"] = 5 /\ Order["radvdSweep"] = 6
    /\ Order["envSweep"] = 7 /\ Order["linkSweep"] = 8 /\ Order["enable"] = 9
    /\ Order["restart"] = 10 /\ Order["start"] = 11 /\ Order["list"] = 12
    /\ Order["stop"] = 13
BY DEF Order

LEMMA PlanCases ==
    ASSUME NEW c, NEW p \in Plan(c)
    PROVE  \/ \E s \in OnceStages : p = Once(s)
           \/ \E u \in PdIndices(c) : p = << "radvd", u, 0, 0 >>
           \/ \E u \in All(c) : p = << "env", u, 0, 0 >>
           \/ \E u \in All(c) : p = << "enable", u, 0, 0 >>
           \/ \E u \in All(c) : p = << "start", u, 0, 0 >>
           \/ \E u \in All(c) : p = << "enable", u, 1, 0 >>
           \/ \E u \in All(c) : \E m \in Links(c, u) :
                p = << "env", u, m, 0 >> \/ p = << "env", u, m, 1 >>
<1>. DEFINE steps(u) == {<< "env", u, m, j >> : m \in Links(c, u), j \in {0, 1}}
<1>1. ASSUME NEW u \in All(c), p \in steps(u)
      PROVE  \E m \in Links(c, u) :
               p = << "env", u, m, 0 >> \/ p = << "env", u, m, 1 >>
  <2>1. PICK m \in Links(c, u), j \in {0, 1} : p = << "env", u, m, j >>
    BY <1>1
  <2>. QED
    BY <2>1
<1>. DEFINE once == {<< stage, 0, 0, 0 >> : stage \in OnceStages}
            radvd == {<< "radvd", u, 0, 0 >> : u \in PdIndices(c)}
            calls == {<< stage, u, 0, 0 >> :
                        stage \in {"env", "enable", "start"}, u \in All(c)}
            adds == {<< "enable", u, 1, 0 >> : u \in All(c)}
            links == UNION {steps(u) : u \in All(c)}
<1>2. Plan(c) = once \cup radvd \cup calls \cup adds \cup links
  BY DEF Plan, All, OnceStages
<1>3. p \in once => \E s \in OnceStages : p = Once(s)
  BY DEF Once
<1>4. p \in calls => \/ \E u \in All(c) : p = << "env", u, 0, 0 >>
                     \/ \E u \in All(c) : p = << "enable", u, 0, 0 >>
                     \/ \E u \in All(c) : p = << "start", u, 0, 0 >>
  OBVIOUS
<1>5. p \in radvd => \E u \in PdIndices(c) : p = << "radvd", u, 0, 0 >>
  OBVIOUS
<1>6. p \in adds => \E u \in All(c) : p = << "enable", u, 1, 0 >>
  OBVIOUS
<1>. HIDE DEF steps
<1>7. p \in links => \E u \in All(c) : p \in steps(u)
  OBVIOUS
<1>. HIDE DEF once, radvd, calls, adds, links
<1>. QED
  BY <1>1, <1>2, <1>3, <1>4, <1>5, <1>6, <1>7

LEMMA PlanHas ==
    ASSUME NEW c
    PROVE  /\ \A s \in OnceStages : Once(s) \in Plan(c)
           /\ \A u \in PdIndices(c) : << "radvd", u, 0, 0 >> \in Plan(c)
           /\ \A u \in All(c) :
                /\ << "env", u, 0, 0 >> \in Plan(c)
                /\ << "enable", u, 0, 0 >> \in Plan(c)
                /\ << "enable", u, 1, 0 >> \in Plan(c)
                /\ << "start", u, 0, 0 >> \in Plan(c)
                /\ \A m \in Links(c, u) :
                     /\ << "env", u, m, 0 >> \in Plan(c)
                     /\ << "env", u, m, 1 >> \in Plan(c)
<1>1. \A s \in OnceStages : Once(s) \in Plan(c)
  BY DEF Plan, OnceStages, Once
<1>2. \A u \in PdIndices(c) : << "radvd", u, 0, 0 >> \in Plan(c)
  BY DEF Plan
<1>3. ASSUME NEW u \in All(c)
      PROVE  /\ << "env", u, 0, 0 >> \in Plan(c)
             /\ << "enable", u, 0, 0 >> \in Plan(c)
             /\ << "enable", u, 1, 0 >> \in Plan(c)
             /\ << "start", u, 0, 0 >> \in Plan(c)
  BY DEF Plan, All
<1>4. ASSUME NEW u \in All(c), NEW m \in Links(c, u)
      PROVE  /\ << "env", u, m, 0 >> \in Plan(c)
             /\ << "env", u, m, 1 >> \in Plan(c)
  <2>. DEFINE steps(v) ==
           {<< "env", v, k, j >> : k \in Links(c, v), j \in {0, 1}}
  <2>1. << "env", u, m, 0 >> \in steps(u) /\ << "env", u, m, 1 >> \in steps(u)
    OBVIOUS
  <2>2. UNION {steps(v) : v \in All(c)} \subseteq Plan(c)
    BY DEF Plan, All
  <2>. HIDE DEF steps
  <2>. QED
    BY <2>1, <2>2
<1>. QED
  BY <1>1, <1>2, <1>3, <1>4

\* The numbers of a step of the plan.
LEMMA PlanNumbers ==
    ASSUME NEW c, Good(c), NEW p \in Plan(c)
    PROVE  /\ p = << p[1], p[2], p[3], p[4] >>
           /\ p[2] \in Nat /\ p[3] \in Nat /\ p[4] \in {0, 1}
           /\ p[1] \in OnceStages \cup FileStages \cup {"enable", "start"}
           /\ p[1] \in OnceStages => p = Once(p[1])
           /\ p[1] \notin OnceStages => p[2] \in All(c)
           /\ p[1] = "radvd" => p[2] \in PdIndices(c)
           /\ p[1] = "env" /\ p[3] # 0 => p[3] \in Links(c, p[2])
           /\ IsFile(p) => p[4] = 0
<1>1. Len(c.uplinks) \in Nat /\ Len(c.networks) \in Nat
  BY FilesAssumption DEF Good
<1>2. /\ \A u \in All(c) : u \in Nat
      /\ PdIndices(c) \subseteq All(c)
      /\ \A u \in All(c) : \A m \in Links(c, u) : m \in Nat \ {0}
  BY <1>1 DEF All, PdIndices, Links
<1>3. CASE \E s \in OnceStages : p = Once(s)
  BY <1>3 DEF Once, OnceStages, FileStages, IsFile
<1>4. CASE \E u \in PdIndices(c) : p = << "radvd", u, 0, 0 >>
  BY <1>2, <1>4 DEF OnceStages, FileStages, IsFile
<1>5. CASE \E u \in All(c) : p = << "env", u, 0, 0 >>
  BY <1>2, <1>5 DEF OnceStages, FileStages, IsFile
<1>6. CASE \E u \in All(c) : p = << "enable", u, 0, 0 >>
  BY <1>2, <1>6 DEF OnceStages, FileStages, IsFile
<1>7. CASE \E u \in All(c) : p = << "start", u, 0, 0 >>
  BY <1>2, <1>7 DEF OnceStages, FileStages, IsFile
<1>8. CASE \E u \in All(c) : p = << "enable", u, 1, 0 >>
  BY <1>2, <1>8 DEF OnceStages, FileStages, IsFile
<1>9. CASE \E u \in All(c) : \E m \in Links(c, u) :
             p = << "env", u, m, 0 >> \/ p = << "env", u, m, 1 >>
  BY <1>2, <1>9 DEF OnceStages, FileStages, IsFile
<1>. QED
  BY <1>3, <1>4, <1>5, <1>6, <1>7, <1>8, <1>9, PlanCases

\* Every file is written under a name of its own, which is no link's.
LEMMA PathFacts ==
    ASSUME NamesApart, NEW c, Good(c), NEW p \in Plan(c), IsFile(p)
    PROVE  /\ Path(c, p)[1] = p[1]
           /\ p[1] = "radvd" => Path(c, p) = RadvdConf(Uplink(c, p[2]).name)
           /\ p[1] = "env"   => Path(c, p) = Env(Uplink(c, p[2]).name)
           /\ p[1] \in {"radvd", "env"} => Path(c, p)[2] \in Configured(c)
           /\ \A u \in All(c) : \A m \in Links(c, u) :
                Path(c, p) # Env(LinkName(c, u, m))
<1>1. p[1] \in {"radvd", "env"} => p[2] \in All(c)
  BY PlanNumbers DEF OnceStages
<1>2. /\ p[1] = "radvd" => Path(c, p) = RadvdConf(Uplink(c, p[2]).name)
      /\ p[1] = "env"   => Path(c, p) = Env(Uplink(c, p[2]).name)
      /\ p[1] \notin {"radvd", "env"} => Path(c, p) = << p[1] >>
  BY DEF Path
<1>3. Path(c, p)[1] = p[1]
  BY <1>2, Paths
<1>4. p[1] \in {"radvd", "env"} =>
        /\ Path(c, p)[2] = Uplink(c, p[2]).name
        /\ Uplink(c, p[2]).name \in Configured(c)
        /\ Uplink(c, p[2]).name \in Names
  BY <1>1, <1>2, Paths, UplinkFacts
<1>5. ASSUME NEW u \in All(c), NEW m \in Links(c, u),
             Path(c, p) = Env(LinkName(c, u, m))
      PROVE  FALSE
  <2>1. p[1] = "env"
    BY <1>3, <1>5, Paths
  <2>2. Uplink(c, p[2]).name = LinkName(c, u, m)
    BY <1>2, <1>5, <2>1, Paths
  <2>. QED
    BY <1>4, <2>1, <2>2, LinkFacts DEF NamesApart
<1>. QED
  BY <1>2, <1>3, <1>4, <1>5

LEMMA PathsDiffer ==
    ASSUME NamesApart, NEW c, Good(c), NEW p \in Plan(c), NEW q \in Plan(c),
           IsFile(p), IsFile(q), Path(c, p) = Path(c, q)
    PROVE  p = q
<1>1. p[1] = q[1]
  BY PathFacts
<1>2. CASE p[1] \in OnceStages
  BY <1>1, <1>2, PlanNumbers
<1>3. CASE p[1] \notin OnceStages
  <2>1. p[1] \in {"radvd", "env"}
    BY <1>3 DEF IsFile, FileStages, OnceStages
  <2>2. Uplink(c, p[2]).name = Uplink(c, q[2]).name
    BY <1>1, <2>1, PathFacts, Paths
  <2>3. p[2] = q[2]
    BY <1>1, <1>3, <2>2, PlanNumbers, UplinkFacts
  <2>4. /\ p = << p[1], p[2], 0, 0 >>
        /\ q = << q[1], q[2], 0, 0 >>
    BY PlanNumbers DEF IsFile
  <2>. QED
    BY <1>1, <2>3, <2>4
<1>. QED
  BY <1>2, <1>3

-----------------------------------------------------------------------------
\* The directory of the env files: under an uplink's name there is a file, and
\* under an interface's or a macvlan's a link to one.

EnvFile(d, p) ==
    \E n \in Names :
      /\ p = Env(n) /\ ~IsLink(d, p)
      /\ d[p].uplink = n /\ d[p].wan \in Interfaces

EnvLink(d, p) ==
    \E l \in Interfaces \cup AllMacvlans : \E n \in Names :
      p = Env(l) /\ IsLink(d, p) /\ d[p].to = Env(n)

EnvOk(d) == \A p \in EnvPaths(d) : EnvFile(d, p) \/ EnvLink(d, p)

LEMMA InEnv ==
    ASSUME NEW d, NEW n
    PROVE  Env(n) \in EnvPaths(d) <=> Env(n) \in DOMAIN d
BY Paths DEF EnvPaths

LEMMA EnvShape ==
    ASSUME NamesApart, NEW d, EnvOk(d)
    PROVE  /\ \A n \in Names : Env(n) \in DOMAIN d =>
                /\ ~IsLink(d, Env(n))
                /\ d[Env(n)].uplink = n /\ d[Env(n)].wan \in Interfaces
           /\ \A l \in Interfaces \cup AllMacvlans : Env(l) \in DOMAIN d =>
                /\ IsLink(d, Env(l))
                /\ \E n \in Names : d[Env(l)].to = Env(n)
BY InEnv, Paths DEF NamesApart, EnvOk, EnvFile, EnvLink

\* A link leads to the file it names.
LEMMA Leads ==
    ASSUME NamesApart, NEW d, EnvOk(d), NEW l \in Interfaces \cup AllMacvlans,
           NEW n \in Names, Env(l) \in DOMAIN d, d[Env(l)].to = Env(n)
    PROVE  /\ Exists(d, Env(l)) <=> Env(n) \in DOMAIN d
           /\ Identify(d, l) = IF Env(n) \in DOMAIN d /\ d[Env(n)].wan = l
                               THEN n ELSE None
<1>1. Follow(d, Env(l)) = Env(n)
  BY EnvShape, InEnv DEF Follow
<1>2. Follow(d, Env(n)) = Env(n)
  BY EnvShape, InEnv DEF Follow
<1>3. Resolve(d, Env(l)) = Env(n)
  BY <1>1, <1>2 DEF Resolve
<1>4. Exists(d, Env(l)) <=> Env(n) \in DOMAIN d
  BY <1>3, EnvShape, InEnv DEF Exists
<1>. QED
  BY <1>3, <1>4, EnvShape DEF Identify

LEMMA NoFile ==
    ASSUME NEW d, NEW l, Env(l) \notin DOMAIN d
    PROVE  ~Exists(d, Env(l)) /\ Identify(d, l) = None
<1>1. Resolve(d, Env(l)) = Env(l)
  BY InEnv DEF Resolve, Follow
<1>. QED
  BY <1>1, InEnv DEF Exists, Identify

LEMMA FileExists ==
    ASSUME NamesApart, NEW d, EnvOk(d), NEW n \in Names, Env(n) \in DOMAIN d
    PROVE  Exists(d, Env(n))
<1>1. Resolve(d, Env(n)) = Env(n)
  BY EnvShape, InEnv DEF Resolve, Follow
<1>. QED
  BY <1>1, EnvShape, InEnv DEF Exists

\* The hook takes an interface for an uplink only by a link to a file.
LEMMA KnownByLink ==
    ASSUME NamesApart, NEW d, EnvOk(d), NEW l \in Interfaces \cup AllMacvlans,
           Identify(d, l) # None
    PROVE  \E n \in Names :
             /\ Env(l) \in DOMAIN d /\ d[Env(l)].to = Env(n)
             /\ Env(n) \in DOMAIN d /\ d[Env(n)].wan = l
             /\ Identify(d, l) = n
<1>1. Env(l) \in DOMAIN d
  BY NoFile
<1>2. PICK n \in Names : d[Env(l)].to = Env(n)
  BY <1>1, EnvShape
<1>. QED
  BY <1>1, <1>2, Leads

-----------------------------------------------------------------------------
\* What a step leaves on the disk.

Linked(d, c, u, m) ==
    LET link == Env(LinkName(c, u, m))
    IN  link \in DOMAIN d /\ d[link] = [to |-> Env(Uplink(c, u).name)]

Effect(d, c, p) ==
    /\ IsFile(p) =>
         Path(c, p) \in DOMAIN d /\ d[Path(c, p)] = Content(c, p)
    /\ p[1] = "env" /\ p[3] # 0 /\ p[4] = 1 => Linked(d, c, p[2], p[3])
    /\ p[1] \in SweepStages => Stale(d, c, p[1]) = {}

\* A disk on which every env path is as it was, or all right.
LEMMA EnvOkStays ==
    ASSUME NEW d, NEW e, EnvOk(d),
           \A p \in EnvPaths(e) :
             \/ p \in DOMAIN d /\ e[p] = d[p]
             \/ EnvFile(e, p) \/ EnvLink(e, p)
    PROVE  EnvOk(e)
<1>. SUFFICES ASSUME NEW p \in EnvPaths(e), p \in DOMAIN d, e[p] = d[p]
              PROVE  EnvFile(e, p) \/ EnvLink(e, p)
  BY DEF EnvOk
<1>1. p \in EnvPaths(d)
  BY DEF EnvPaths
<1>2. CASE EnvFile(d, p)
  BY <1>2 DEF EnvFile, IsLink
<1>3. CASE EnvLink(d, p)
  BY <1>3 DEF EnvLink, IsLink
<1>. QED
  BY <1>1, <1>2, <1>3 DEF EnvOk

\* An env file is no link, and names its uplink and the interface.
LEMMA EnvContent ==
    ASSUME NEW uplink
    PROVE  /\ "to" \notin DOMAIN env_file(uplink)
           /\ env_file(uplink).uplink = uplink.name
           /\ env_file(uplink).wan = uplink.interface
BY DEF env_file

LEMMA LinkContent ==
    ASSUME NEW envPath
    PROVE  "to" \in DOMAIN [to |-> envPath] /\ [to |-> envPath].to = envPath
OBVIOUS

\* Writing a file.
LEMMA WriteFileOk ==
    ASSUME NamesApart, NEW c, Good(c), NEW p \in Plan(c), IsFile(p),
           NEW d, EnvOk(d)
    PROVE  EnvOk(Put(d, Path(c, p), Content(c, p)))
<1>. DEFINE e == Put(d, Path(c, p), Content(c, p))
<1>1. DOMAIN e = DOMAIN d \cup {Path(c, p)}
      /\ e[Path(c, p)] = Content(c, p)
      /\ \A q \in DOMAIN d : q # Path(c, p) => e[q] = d[q]
  BY DEF Put
<1>. HIDE DEF e
<1>2. CASE p[1] = "env"
  <2>. DEFINE uplink == Uplink(c, p[2])
  <2>1. p[2] \in All(c)
    BY <1>2, PlanNumbers DEF OnceStages
  <2>2. Path(c, p) = Env(uplink.name) /\ Content(c, p) = env_file(uplink)
    BY <1>2 DEF Path, Content
  <2>3. uplink.name \in Names /\ uplink.interface \in Interfaces
    BY <2>1, UplinkFacts
  <2>. HIDE DEF uplink
  <2>4. EnvFile(e, Path(c, p))
    BY <1>1, <2>2, <2>3, EnvContent DEF EnvFile, IsLink
  <2>. QED
    BY <1>1, <2>4, EnvOkStays DEF e, EnvPaths
<1>3. CASE p[1] # "env"
  BY <1>1, <1>3, PathFacts, EnvOkStays DEF e, EnvPaths
<1>. QED
  BY <1>2, <1>3 DEF e

LEMMA WriteFileKeeps ==
    ASSUME NamesApart, NEW c, Good(c), NEW p \in Plan(c), IsFile(p), NEW d,
           NEW q \in Plan(c), q[1] \notin SweepStages,
           q = p \/ Effect(d, c, q)
    PROVE  Effect(Put(d, Path(c, p), Content(c, p)), c, q)
<1>. DEFINE e == Put(d, Path(c, p), Content(c, p))
<1>1. DOMAIN e = DOMAIN d \cup {Path(c, p)}
      /\ e[Path(c, p)] = Content(c, p)
      /\ \A r \in DOMAIN d : r # Path(c, p) => e[r] = d[r]
  BY DEF Put
<1>. HIDE DEF e
<1>2. ASSUME IsFile(q)
      PROVE  Path(c, q) \in DOMAIN e /\ e[Path(c, q)] = Content(c, q)
  <2>1. CASE q = p
    BY <1>1, <2>1
  <2>2. CASE q # p
    BY <1>1, <1>2, <2>2, PathsDiffer DEF Effect
  <2>. QED
    BY <2>1, <2>2
<1>3. ASSUME q[1] = "env", q[3] # 0, q[4] = 1
      PROVE  Linked(e, c, q[2], q[3])
  <2>1. q # p
    BY <1>3 DEF IsFile
  <2>2. q[2] \in All(c) /\ q[3] \in Links(c, q[2])
    BY <1>3, PlanNumbers DEF OnceStages
  <2>. QED
    BY <1>1, <1>3, <2>1, <2>2, PathFacts DEF Effect, Linked
<1>. QED
  BY <1>2, <1>3 DEF e, Effect

\* Removing a path.
LEMMA DropOk ==
    ASSUME NEW d, EnvOk(d), NEW path
    PROVE  EnvOk(Drop(d, path))
<1>1. /\ DOMAIN Drop(d, path) \subseteq DOMAIN d
      /\ \A q \in DOMAIN Drop(d, path) : Drop(d, path)[q] = d[q]
  BY DEF Drop
<1>. QED
  BY <1>1, EnvOkStays DEF EnvPaths

\* Setting a link.
LinkStep(p) == p[1] = "env" /\ p[3] # 0

After(d, c, p) ==
    LinkTo(d, Env(LinkName(c, p[2], p[3])), Env(Uplink(c, p[2]).name), p[4])

LEMMA WriteLinkOk ==
    ASSUME NamesApart, NEW c, Good(c), NEW p \in Plan(c), LinkStep(p),
           NEW d, EnvOk(d)
    PROVE  EnvOk(After(d, c, p))
<1>. DEFINE link == Env(LinkName(c, p[2], p[3]))
            envPath == Env(Uplink(c, p[2]).name)
            e == Put(d, link, [to |-> envPath])
<1>1. CASE p[4] = 0
  BY <1>1, DropOk DEF After, LinkTo
<1>2. CASE p[4] # 0
  <2>1. p[2] \in All(c) /\ p[3] \in Links(c, p[2])
    BY PlanNumbers DEF OnceStages, LinkStep
  <2>2. /\ LinkName(c, p[2], p[3]) \in Interfaces \cup AllMacvlans
        /\ Uplink(c, p[2]).name \in Names
    BY <2>1, LinkFacts, UplinkFacts
  <2>3. e[link] = [to |-> envPath] /\ DOMAIN e = DOMAIN d \cup {link}
        /\ \A q \in DOMAIN d : q # link => e[q] = d[q]
    BY DEF Put
  <2>. HIDE DEF e
  <2>4. IsLink(e, link) /\ e[link].to = envPath
    BY <2>3, LinkContent DEF IsLink
  <2>5. EnvLink(e, link)
    BY <2>2, <2>4 DEF EnvLink
  <2>6. EnvOk(e)
    BY <2>3, <2>5, EnvOkStays DEF EnvPaths
  <2>. QED
    BY <1>2, <2>6 DEF After, LinkTo, e
<1>. QED
  BY <1>1, <1>2

LEMMA WriteLinkKeeps ==
    ASSUME NamesApart, NEW c, Good(c), NEW p \in Plan(c), LinkStep(p), NEW d,
           NEW q \in Plan(c), q[1] \notin SweepStages,
           p[4] = 0 => q # << p[1], p[2], p[3], 1 >>,
           q = p \/ Effect(d, c, q)
    PROVE  Effect(After(d, c, p), c, q)
<1>. DEFINE link == Env(LinkName(c, p[2], p[3]))
            envPath == Env(Uplink(c, p[2]).name)
            e == After(d, c, p)
<1>1. /\ \A r \in DOMAIN d : r # link => r \in DOMAIN e /\ e[r] = d[r]
      /\ p[4] # 0 => link \in DOMAIN e /\ e[link] = [to |-> envPath]
  BY DEF After, LinkTo, Put, Drop
<1>2. p[2] \in All(c) /\ p[3] \in Links(c, p[2])
  BY PlanNumbers DEF OnceStages, LinkStep
<1>. HIDE DEF e
<1>3. ASSUME IsFile(q)
      PROVE  Path(c, q) \in DOMAIN e /\ e[Path(c, q)] = Content(c, q)
  <2>1. q # p
    BY <1>3 DEF IsFile, LinkStep
  <2>2. Path(c, q) # link
    BY <1>2, <1>3, PathFacts
  <2>. QED
    BY <1>1, <1>3, <2>1, <2>2 DEF Effect
<1>4. ASSUME q[1] = "env", q[3] # 0, q[4] = 1
      PROVE  Linked(e, c, q[2], q[3])
  <2>1. q[2] \in All(c) /\ q[3] \in Links(c, q[2])
    BY <1>4, PlanNumbers DEF OnceStages
  <2>2. CASE LinkName(c, q[2], q[3]) = LinkName(c, p[2], p[3])
    <3>1. q[2] = p[2] /\ q[3] = p[3]
      BY <1>2, <2>1, <2>2, LinkFacts
    <3>2. /\ p = << p[1], p[2], p[3], p[4] >> /\ p[4] \in {0, 1}
          /\ q = << q[1], q[2], q[3], q[4] >>
      BY PlanNumbers
    <3>3. q = << p[1], p[2], p[3], 1 >>
      BY <1>4, <3>1, <3>2 DEF LinkStep
    <3>4. p[4] # 0
      BY <3>3
    <3>. QED
      BY <1>1, <3>1, <3>4 DEF Linked
  <2>3. CASE LinkName(c, q[2], q[3]) # LinkName(c, p[2], p[3])
    <3>1. Env(LinkName(c, q[2], q[3])) # link
      BY <2>3, Paths
    <3>2. q # p
      BY <2>3
    <3>. QED
      BY <1>1, <1>4, <3>1, <3>2 DEF Effect, Linked
  <2>. QED
    BY <2>2, <2>3
<1>. QED
  BY <1>3, <1>4 DEF e, Effect

\* Removing what is stale.  Before the dangling links are removed all env
\* files are there.
EnvWritten(d, c) ==
    \A u \in All(c) :
      /\ Env(Uplink(c, u).name) \in DOMAIN d
      /\ d[Env(Uplink(c, u).name)] = env_file(Uplink(c, u))

LEMMA SweepSpares ==
    ASSUME NamesApart, NEW c, Good(c), NEW d, EnvOk(d),
           NEW stage \in SweepStages,
           stage = "linkSweep" => EnvWritten(d, c),
           NEW path \in Stale(d, c, stage),
           NEW q \in Plan(c), q[1] \notin SweepStages, Effect(d, c, q)
    PROVE  Effect(Drop(d, path), c, q)
<1>1. /\ DOMAIN Drop(d, path) = DOMAIN d \ {path}
      /\ \A r \in DOMAIN d : r # path => Drop(d, path)[r] = d[r]
  BY DEF Drop
<1>2. /\ stage = "radvdSweep" =>
           path[1] = "radvd" /\ path[2] \notin Configured(c)
      /\ stage = "envSweep" =>
           path[1] = "env" /\ ~IsLink(d, path) /\ path[2] \notin Configured(c)
      /\ stage = "linkSweep" =>
           path[1] = "env" /\ IsLink(d, path) /\ ~Exists(d, path)
  BY DEF Stale, EnvPaths
<1>3. ASSUME IsFile(q)
      PROVE  Path(c, q) # path
  <2>. SUFFICES ASSUME Path(c, q) = path PROVE FALSE
    OBVIOUS
  <2>1. path[1] = q[1]
    BY <1>3, PathFacts
  <2>2. CASE stage \in {"radvdSweep", "envSweep"}
    BY <1>2, <1>3, <2>1, <2>2, PathFacts
  <2>3. CASE stage = "linkSweep"
    <3>1. q[1] = "env" /\ q[2] \in All(c)
      BY <1>2, <2>1, <2>3, PlanNumbers DEF OnceStages
    <3>2. path = Env(Uplink(c, q[2]).name)
      BY <1>3, <3>1, PathFacts
    <3>. QED
      BY <1>2, <2>3, <3>1, <3>2, EnvContent DEF EnvWritten, IsLink
  <2>. QED
    BY <2>2, <2>3 DEF SweepStages
<1>4. ASSUME q[1] = "env", q[3] # 0, q[4] = 1
      PROVE  Env(LinkName(c, q[2], q[3])) # path
  <2>. DEFINE link == Env(LinkName(c, q[2], q[3]))
              uplink == Uplink(c, q[2])
  <2>. SUFFICES ASSUME link = path PROVE FALSE
    OBVIOUS
  <2>1. link \in DOMAIN d /\ d[link] = [to |-> Env(uplink.name)]
    BY <1>4 DEF Effect, Linked
  <2>2. IsLink(d, link) /\ d[link].to = Env(uplink.name)
    BY <2>1, LinkContent DEF IsLink
  <2>3. q[2] \in All(c) /\ q[3] \in Links(c, q[2])
    BY <1>4, PlanNumbers DEF OnceStages
  <2>4. CASE stage \in {"radvdSweep", "envSweep"}
    BY <1>2, <2>2, <2>4, Paths
  <2>5. CASE stage = "linkSweep"
    <3>1. Env(uplink.name) \in DOMAIN d
      BY <2>3, <2>5 DEF EnvWritten
    <3>2. /\ LinkName(c, q[2], q[3]) \in Interfaces \cup AllMacvlans
          /\ uplink.name \in Names
      BY <2>3, LinkFacts, UplinkFacts
    <3>3. Exists(d, link)
      BY <2>1, <2>2, <3>1, <3>2, Leads
    <3>. QED
      BY <1>2, <2>5, <3>3
  <2>. QED
    BY <2>4, <2>5 DEF SweepStages
<1>. QED
  BY <1>1, <1>3, <1>4 DEF Effect, Linked

\* What has been swept stays swept.
LEMMA SweptStays ==
    ASSUME NEW c, NEW d, NEW path, NEW stage \in {"radvdSweep", "envSweep"},
           Stale(d, c, stage) = {}
    PROVE  Stale(Drop(d, path), c, stage) = {}
<1>1. /\ DOMAIN Drop(d, path) = DOMAIN d \ {path}
      /\ \A r \in DOMAIN d : r # path => Drop(d, path)[r] = d[r]
  BY DEF Drop
<1>2. \A r \in DOMAIN d : r # path =>
        (IsLink(Drop(d, path), r) <=> IsLink(d, r))
  BY <1>1 DEF IsLink
<1>3. CASE stage = "radvdSweep"
  BY <1>1, <1>3 DEF Stale
<1>4. CASE stage = "envSweep"
  BY <1>1, <1>2, <1>4 DEF Stale, EnvPaths
<1>. QED
  BY <1>3, <1>4

-----------------------------------------------------------------------------
\* The invariant.  A run that has not been cut short has done the steps it no
\* longer has to do, in order, and nothing it did after one of them has undone
\* it; when no call has failed, that goes for the units too, but for those it
\* has listed and has still to stop.

SetupTypes ==
    /\ cfg = None \/ Good(cfg)
    /\ todo # {} \/ clean => Good(cfg)
    /\ \A p \in todo :
         \/ p \in Plan(cfg)
         \/ /\ Once("list") \notin todo
            /\ \E i \in DOMAIN stale : \E call \in {0, 1, 2} :
                 p = << "stop", i, call, 0 >>
    /\ \A i \in DOMAIN stale : stale[i] \notin Configured(cfg)
    /\ enabled \subseteq Names /\ wants \subseteq Names
    /\ running \subseteq Names
    /\ clean \in BOOLEAN /\ trouble \in 0 .. MaxTrouble

InOrder == \A q \in todo : \A p \in Plan(cfg) \ todo : ~Before(q, p)

FilesDone ==
    todo # {} \/ clean => \A p \in Plan(cfg) \ todo : Effect(disk, cfg, p)

Pending(n, call) ==
    \E i \in DOMAIN stale : stale[i] = n /\ << "stop", i, call, 0 >> \in todo

UnitEffect(p) ==
    /\ p[1] = "enable" /\ p[3] = 0 => Uplink(cfg, p[2]).name \in enabled
    /\ p[1] = "enable" /\ p[3] = 1 => Uplink(cfg, p[2]).name \in wants
    /\ p[1] = "restart" => dhcpcd = disk[DhcpcdConf]
    /\ p[1] = "list" =>
         \A n \in Names \ Configured(cfg) :
           /\ n \in running => Pending(n, 0)
           /\ n \in enabled => Pending(n, 1)
           /\ n \in wants => Pending(n, 2)

UnitsDone == clean => \A p \in Plan(cfg) \ todo : UnitEffect(p)

SetupInv ==
    SetupTypes /\ InOrder /\ EnvOk(disk) /\ FilesDone /\ UnitsDone

UnitStages == {"enable", "restart", "list"}

LEMMA SetupInitInv == Init => SetupInv
<1>. SUFFICES ASSUME Init PROVE SetupInv
  OBVIOUS
<1>1. DOMAIN disk = {} /\ DOMAIN stale = {}
  BY DEF Init
<1>2. EnvOk(disk)
  BY <1>1 DEF EnvOk, EnvPaths
<1>3. trouble \in 0 .. MaxTrouble
  BY MaxTroubleAssumption DEF Init
<1>4. SetupTypes
  BY <1>1, <1>3 DEF Init, SetupTypes
<1>. QED
  BY <1>2, <1>4 DEF Init, SetupInv, InOrder, FilesDone, UnitsDone

\* What is done is not of a later stage than what is left.
LEMMA NotYet ==
    ASSUME SetupInv, NEW p \in todo, NEW q \in Plan(cfg) \ todo
    PROVE  ~(Order[p[1]] < Order[q[1]])
BY DEF SetupInv, InOrder, Before

\* A step of the plan.
LEMMA ToDo ==
    ASSUME SetupInv, NEW p \in First, p[1] # "stop"
    PROVE  p \in todo /\ p \in Plan(cfg) /\ Good(cfg)
<1>1. p \in todo
  BY DEF First
<1>. QED
  BY <1>1 DEF SetupInv, SetupTypes

\* A step that is done leaves the order as it is.
LEMMA InOrderStays ==
    ASSUME SetupInv, NEW p \in First, todo' = todo \ {p}, cfg' = cfg
    PROVE  InOrder'
BY DEF SetupInv, InOrder, First

\* The types, while a run works on the disk.
LEMMA TypesStay ==
    ASSUME SetupInv, NEW p \in todo, todo' = todo \ {p} \/ todo' = todo,
           UNCHANGED << Units, cfg, stale, clean, trouble >>
    PROVE  SetupTypes'
BY DEF SetupInv, SetupTypes, Units

\* What a step on the files does to the units: they are not yet touched.
LEMMA FilesFirst ==
    ASSUME SetupInv, NEW p \in todo, p \in Plan(cfg),
           p[1] \in FileStages \cup SweepStages,
           todo' = todo \ {p} \/ todo' = todo,
           UNCHANGED << Units, cfg, stale, clean, trouble >>
    PROVE  UnitsDone'
<1>. SUFFICES ASSUME NEW q \in Plan(cfg), q \notin todo'
              PROVE  UnitEffect(q)'
  BY DEF UnitsDone
<1>1. q = p \/ q \notin todo
  OBVIOUS
<1>2. Order[p[1]] =< 8 /\ Order[p[1]] \in Nat
  BY Orders DEF FileStages, SweepStages
<1>3. q[1] \notin UnitStages
  <2>1. CASE q = p
    BY <2>1 DEF UnitStages, FileStages, SweepStages
  <2>2. CASE q \notin todo
    BY <1>2, <2>2, NotYet, Orders DEF UnitStages
  <2>. QED
    BY <1>1, <2>1, <2>2
<1>. QED
  BY <1>3 DEF UnitEffect, UnitStages

LEMMA WriteFileInv ==
    ASSUME NamesApart, SetupInv, NEW p \in First, WriteFile(p),
           UNCHANGED << cfg, clean, trouble >>
    PROVE  SetupInv'
<1>1. /\ IsFile(p) /\ p[1] # "stop" /\ p[1] \in FileStages
      /\ disk' = Put(disk, Path(cfg, p), Content(cfg, p))
      /\ todo' = todo \ {p} /\ UNCHANGED << Units, stale >>
  BY DEF WriteFile, IsFile, FileStages
<1>2. p \in todo /\ p \in Plan(cfg) /\ Good(cfg)
  BY <1>1, ToDo
<1>3. SetupTypes' /\ InOrder' /\ UnitsDone'
  BY <1>1, <1>2, TypesStay, InOrderStays, FilesFirst
<1>4. EnvOk(disk')
  BY <1>1, <1>2, WriteFileOk DEF SetupInv
<1>5. FilesDone'
  <2>. SUFFICES ASSUME NEW q \in Plan(cfg), q \notin todo'
                PROVE  Effect(disk', cfg, q)
    BY DEF FilesDone
  <2>1. q = p \/ Effect(disk, cfg, q)
    BY <1>1, <1>2 DEF SetupInv, FilesDone
  <2>2. q[1] \notin SweepStages
    <3>1. CASE q = p
      BY <1>1, <3>1 DEF FileStages, SweepStages
    <3>2. CASE q # p
      <4>1. Order[p[1]] =< 5 /\ Order[p[1]] \in Nat
        BY <1>1, Orders DEF FileStages
      <4>. QED
        BY <1>1, <1>2, <3>2, <4>1, NotYet, Orders DEF SweepStages
    <3>. QED
      BY <3>1, <3>2
  <2>. QED
    BY <1>1, <1>2, <2>1, <2>2, WriteFileKeeps
<1>. QED
  BY <1>3, <1>4, <1>5 DEF SetupInv

LEMMA WriteLinkInv ==
    ASSUME NamesApart, SetupInv, NEW p \in First, WriteLink(p),
           UNCHANGED << cfg, clean, trouble >>
    PROVE  SetupInv'
<1>1. /\ LinkStep(p) /\ p[1] # "stop" /\ p[1] \in FileStages
      /\ disk' = After(disk, cfg, p)
      /\ todo' = todo \ {p} /\ UNCHANGED << Units, stale >>
  BY DEF WriteLink, LinkStep, FileStages, After
<1>2. p \in todo /\ p \in Plan(cfg) /\ Good(cfg)
  BY <1>1, ToDo
<1>3. SetupTypes' /\ InOrder' /\ UnitsDone'
  BY <1>1, <1>2, TypesStay, InOrderStays, FilesFirst
<1>4. EnvOk(disk')
  BY <1>1, <1>2, WriteLinkOk DEF SetupInv
<1>5. FilesDone'
  <2>. SUFFICES ASSUME NEW q \in Plan(cfg), q \notin todo'
                PROVE  Effect(disk', cfg, q)
    BY DEF FilesDone
  <2>1. q = p \/ (q \notin todo /\ Effect(disk, cfg, q))
    BY <1>1, <1>2 DEF SetupInv, FilesDone
  <2>2. q[1] \notin SweepStages
    <3>1. CASE q = p
      BY <1>1, <3>1 DEF FileStages, SweepStages
    <3>2. CASE q # p
      <4>1. Order[p[1]] =< 5 /\ Order[p[1]] \in Nat
        BY <1>1, Orders DEF FileStages
      <4>. QED
        BY <1>1, <1>2, <3>2, <4>1, NotYet, Orders DEF SweepStages
    <3>. QED
      BY <3>1, <3>2
  <2>3. ASSUME p[4] = 0, q = << p[1], p[2], p[3], 1 >>
        PROVE  FALSE
    <3>1. /\ q[1] = p[1] /\ q[2] = p[2] /\ q[3] = p[3] /\ q[4] = 1
      BY <2>3
    <3>2. q \notin todo
      BY <2>1, <2>3, <3>1
    <3>3. Before(p, q)
      BY <2>3, <3>1 DEF Before
    <3>. QED
      BY <1>2, <3>2, <3>3 DEF SetupInv, InOrder
  <2>. QED
    BY <1>1, <1>2, <2>1, <2>2, <2>3, WriteLinkKeeps
<1>. QED
  BY <1>3, <1>4, <1>5 DEF SetupInv

\* Before the dangling links are looked for all env files are written.
LEMMA AllWritten ==
    ASSUME SetupInv, Good(cfg),
           \A p \in Plan(cfg) : Order[p[1]] =< 5 => p \notin todo,
           todo # {} \/ clean
    PROVE  EnvWritten(disk, cfg)
<1>. SUFFICES ASSUME NEW u \in All(cfg)
              PROVE  /\ Env(Uplink(cfg, u).name) \in DOMAIN disk
                     /\ disk[Env(Uplink(cfg, u).name)] = env_file(Uplink(cfg, u))
  BY DEF EnvWritten
<1>. DEFINE p == << "env", u, 0, 0 >>
<1>1. /\ p \in Plan(cfg) /\ p[1] = "env" /\ p[2] = u /\ p[3] = 0
  BY PlanHas
<1>. HIDE DEF p
<1>2. p \notin todo /\ IsFile(p)
  BY <1>1, Orders DEF IsFile, FileStages
<1>3. Path(cfg, p) \in DOMAIN disk /\ disk[Path(cfg, p)] = Content(cfg, p)
  BY <1>1, <1>2 DEF SetupInv, FilesDone, Effect
<1>4. Path(cfg, p) = Env(Uplink(cfg, u).name)
      /\ Content(cfg, p) = env_file(Uplink(cfg, u))
  BY <1>1 DEF Path, Content
<1>. QED
  BY <1>3, <1>4

LEMMA SweepInv ==
    ASSUME NamesApart, SetupInv, NEW p \in First, Sweep(p),
           UNCHANGED << cfg, clean, trouble >>
    PROVE  SetupInv'
<1>1. /\ p[1] \in SweepStages /\ p[1] # "stop"
      /\ UNCHANGED << Units, stale >>
      /\ \/ /\ \E path \in Stale(disk, cfg, p[1]) : disk' = Drop(disk, path)
            /\ todo' = todo
         \/ /\ Stale(disk, cfg, p[1]) = {}
            /\ todo' = todo \ {p} /\ disk' = disk
  BY DEF Sweep, SweepStages
<1>2. p \in todo /\ p \in Plan(cfg) /\ Good(cfg)
  BY <1>1, ToDo
<1>3. InOrder'
  BY <1>1, InOrderStays DEF SetupInv, InOrder
<1>4. SetupTypes' /\ UnitsDone'
  BY <1>1, <1>2, TypesStay, FilesFirst
<1>5. EnvOk(disk')
  BY <1>1, DropOk DEF SetupInv
<1>6. FilesDone'
  <2>. SUFFICES ASSUME NEW q \in Plan(cfg), q \notin todo'
                PROVE  Effect(disk', cfg, q)
    BY DEF FilesDone
  <2>1. CASE Stale(disk, cfg, p[1]) = {} /\ todo' = todo \ {p} /\ disk' = disk
    <3>1. CASE q = p
      <4>1. ~IsFile(p) /\ p[1] # "env"
        BY <1>1 DEF IsFile, FileStages, SweepStages
      <4>. QED
        BY <2>1, <3>1, <4>1 DEF Effect
    <3>2. CASE q # p
      BY <1>2, <2>1, <3>2 DEF SetupInv, FilesDone
    <3>. QED
      BY <3>1, <3>2
  <2>2. ASSUME NEW path \in Stale(disk, cfg, p[1]),
               disk' = Drop(disk, path), todo' = todo
        PROVE  Effect(disk', cfg, q)
    <3>1. q \notin todo /\ Effect(disk, cfg, q)
      BY <1>2, <2>2 DEF SetupInv, FilesDone
    <3>2. ~(Order[p[1]] < Order[q[1]])
      BY <1>2, <3>1, NotYet
    <3>3. CASE q[1] \in SweepStages
      <4>1. q[1] # p[1]
        <5>1. p[1] \in OnceStages /\ q[1] \in OnceStages
          BY <1>1, <3>3 DEF SweepStages, OnceStages
        <5>2. p = Once(p[1]) /\ q = Once(q[1])
          BY <1>2, <5>1, PlanNumbers
        <5>. QED
          BY <1>2, <3>1, <5>2
      <4>2. q[1] # "linkSweep"
        BY <1>1, <3>2, <4>1, Orders DEF SweepStages
      <4>3. Stale(Drop(disk, path), cfg, q[1]) = {}
        BY <3>1, <3>3, <4>2, SweptStays DEF Effect, SweepStages
      <4>4. ~IsFile(q) /\ q[1] # "env"
        BY <3>3 DEF IsFile, FileStages, SweepStages
      <4>. QED
        BY <2>2, <4>3, <4>4 DEF Effect
    <3>4. CASE q[1] \notin SweepStages
      <4>1. ASSUME p[1] = "linkSweep"
            PROVE  EnvWritten(disk, cfg)
        <5>1. ASSUME NEW r \in Plan(cfg), Order[r[1]] =< 5, r \in todo
              PROVE  FALSE
          <6>1. Order[p[1]] = 8 /\ Order[r[1]] \in Int
            <7>1. r[1] \in OnceStages \cup FileStages \cup {"enable", "start"}
              BY <1>2, PlanNumbers
            <7>. QED
              BY <4>1, <7>1, Orders DEF OnceStages, FileStages
          <6>2. Before(r, p)
            BY <5>1, <6>1 DEF Before
          <6>. QED
            BY <5>1, <6>2 DEF First
        <5>. QED
          BY <1>2, <5>1, AllWritten
      <4>. QED
        BY <1>1, <1>2, <2>2, <3>1, <3>4, <4>1, SweepSpares DEF SetupInv
    <3>. QED
      BY <3>3, <3>4
  <2>. QED
    BY <1>1, <2>1, <2>2
<1>. QED
  BY <1>3, <1>4, <1>5, <1>6 DEF SetupInv

\* A step on the units leaves what was done on the disk.
LEMMA FilesStay ==
    ASSUME SetupInv, NEW p \in First,
           p[1] \notin FileStages \cup SweepStages,
           todo' \cup {p} = todo \cup {p} \/ todo \subseteq todo' \cup {p},
           UNCHANGED << disk, cfg >>, clean' => clean
    PROVE  FilesDone'
<1>. SUFFICES ASSUME NEW q \in Plan(cfg), q \notin todo'
              PROVE  Effect(disk, cfg, q)
  BY DEF FilesDone
<1>1. CASE q = p
  BY <1>1 DEF Effect, IsFile, FileStages, SweepStages
<1>2. CASE q # p
  BY <1>2 DEF SetupInv, FilesDone, First
<1>. QED
  BY <1>1, <1>2

LEMMA ListUnitsInv ==
    ASSUME SetupInv, NEW p \in First, ListUnits(p),
           UNCHANGED << cfg, clean, trouble >>
    PROVE  SetupInv'
<1>. DEFINE names == Known \ Configured(cfg)
            places == 1 .. Cardinality(names)
            stops == {<< "stop", i, call, 0 >> : i \in places, call \in 0 .. 2}
<1>1. /\ p[1] = "list" /\ stale' \in Surjection(places, names)
      /\ todo' = (todo \ {p}) \cup stops /\ UNCHANGED << disk, Units >>
  BY DEF ListUnits
<1>2. p \in todo /\ p \in Plan(cfg) /\ Good(cfg)
  BY <1>1, ToDo
<1>3. /\ DOMAIN stale' = places
      /\ \A i \in places : stale'[i] \in names
      /\ \A n \in names : \E i \in places : stale'[i] = n
  BY <1>1 DEF Surjection
<1>4. \A s \in stops : \E i \in places : \E call \in {0, 1, 2} :
        s = << "stop", i, call, 0 >>
  OBVIOUS
<1>5. \A i \in places : \A call \in {0, 1, 2} : << "stop", i, call, 0 >> \in stops
  OBVIOUS
<1>. HIDE DEF names, places, stops
<1>6. SetupTypes'
  <2>1. p = Once("list")
    BY <1>1, <1>2, PlanNumbers DEF OnceStages
  <2>2. \A q \in todo : q \in Plan(cfg)
    BY <1>2, <2>1 DEF SetupInv, SetupTypes
  <2>3. Once("list") \notin todo'
    <3>1. Once("list")[1] = "list" /\ \A s \in stops : s[1] = "stop"
      BY <1>4 DEF Once
    <3>. QED
      BY <1>1, <2>1, <3>1
  <2>. QED
    BY <1>1, <1>2, <1>3, <1>4, <2>2, <2>3
    DEF SetupInv, SetupTypes, Units, names
<1>7. InOrder'
  <2>1. ASSUME NEW s \in stops, NEW r \in Plan(cfg)
        PROVE  ~Before(s, r)
    <3>1. s[1] = "stop"
      BY <1>4
    <3>2. r[1] \in OnceStages \cup FileStages \cup {"enable", "start"}
      BY <1>2, PlanNumbers
    <3>3. Order[r[1]] \in Int /\ Order[r[1]] =< 12
      BY <3>2, Orders DEF OnceStages, FileStages
    <3>. QED
      BY <3>1, <3>3, Orders DEF Before
  <2>. QED
    BY <1>1, <2>1 DEF SetupInv, InOrder, First
<1>8. FilesDone'
  BY <1>1, FilesStay DEF FileStages, SweepStages
<1>9. UnitsDone'
  <2>. SUFFICES ASSUME clean, NEW q \in Plan(cfg), q \notin todo'
                PROVE  UnitEffect(q)'
    BY DEF UnitsDone
  <2>1. CASE q = p
    <3>1. ASSUME NEW n \in names, NEW call \in {0, 1, 2}
          PROVE  Pending(n, call)'
      BY <1>1, <1>3, <1>5 DEF Pending
    <3>2. \A n \in Names \ Configured(cfg) :
            n \in running \cup enabled \cup wants => n \in names
      BY DEF names, Known
    <3>. QED
      BY <1>1, <2>1, <3>1, <3>2 DEF UnitEffect, Units
  <2>2. CASE q # p
    <3>1. q \notin todo /\ UnitEffect(q)
      BY <1>1, <2>2 DEF SetupInv, UnitsDone
    <3>2. q[1] # "list"
      <4>1. ASSUME q[1] = "list" PROVE FALSE
        <5>1. q = Once("list") /\ p = Once("list")
          BY <1>1, <1>2, <4>1, PlanNumbers DEF OnceStages
        <5>. QED
          BY <2>2, <5>1
      <4>. QED
        BY <4>1
    <3>. QED
      BY <1>1, <3>1, <3>2 DEF UnitEffect, Units
  <2>. QED
    BY <2>1, <2>2
<1>. QED
  BY <1>1, <1>6, <1>7, <1>8, <1>9 DEF SetupInv

\* A step on the units and the types: the units are those of uplinks.
LEMMA SystemctlTypes ==
    ASSUME SetupInv, NEW p \in First, Systemctl(p),
           UNCHANGED << cfg, clean, trouble >>
    PROVE  SetupTypes'
<1>1. p \in todo /\ todo' = todo \ {p} /\ UNCHANGED stale
  BY DEF RestartDhcpcd, Systemctl, First
<1>2. ASSUME p[1] \in {"enable", "start"}
      PROVE  Uplink(cfg, p[2]).name \in Names
  <2>1. p \in Plan(cfg) /\ Good(cfg)
    BY <1>2, ToDo
  <2>2. p[2] \in All(cfg)
    BY <1>2, <2>1, PlanNumbers DEF OnceStages
  <2>. QED
    BY <2>1, <2>2, UplinkFacts
<1>3. enabled' \subseteq Names /\ wants' \subseteq Names /\ running' \subseteq Names
  BY <1>2 DEF RestartDhcpcd, Systemctl, SetupInv, SetupTypes
<1>. QED
  BY <1>1, <1>3 DEF SetupInv, SetupTypes

LEMMA SystemctlInv ==
    ASSUME SetupInv, NEW p \in First, Systemctl(p),
           UNCHANGED << cfg, clean, trouble >>
    PROVE  SetupInv'
<1>1. /\ p[1] \in {"enable", "restart", "start", "stop"}
      /\ todo' = todo \ {p} /\ UNCHANGED << disk, stale >>
      /\ p \in todo /\ Good(cfg)
  BY DEF RestartDhcpcd, Systemctl, First, SetupInv, SetupTypes
<1>2. InOrder' /\ EnvOk(disk')
  BY <1>1, InOrderStays DEF SetupInv
<1>3. FilesDone'
  BY <1>1, FilesStay DEF FileStages, SweepStages
<1>4. UnitsDone'
  <2>. SUFFICES ASSUME clean, NEW q \in Plan(cfg), q \notin todo'
                PROVE  UnitEffect(q)'
    BY DEF UnitsDone
  <2>1. q = p \/ (q \notin todo /\ UnitEffect(q))
    BY <1>1 DEF SetupInv, UnitsDone
  <2>2. q[1] \notin {"radvd", "env", "enable", "start"} \/ q[2] \in All(cfg)
    BY <1>1, PlanNumbers DEF OnceStages
  <2>3. q[1] = "enable" =>
          /\ Uplink(cfg, q[2]).name \in Configured(cfg)
    BY <1>1, <2>2, UplinkFacts
  <2>4. CASE p[1] = "stop"
    <3>1. PICK i \in DOMAIN stale, call \in {0, 1, 2} :
            p = << "stop", i, call, 0 >>
      <4>1. p \notin Plan(cfg)
        BY <1>1, <2>4, PlanNumbers DEF OnceStages, FileStages
      <4>. QED
        BY <1>1, <4>1 DEF SetupInv, SetupTypes
    <3>2. p[2] = i /\ p[3] = call /\ stale[i] \notin Configured(cfg)
      BY <3>1 DEF SetupInv, SetupTypes
    <3>3. q # p
      <4>1. q[1] # "stop"
        BY <1>1, PlanNumbers DEF OnceStages, FileStages
      <4>. QED
        BY <2>4, <4>1
    <3>4. /\ running' = IF call = 0 THEN running \ {stale[i]} ELSE running
          /\ enabled' = IF call = 1 THEN enabled \ {stale[i]} ELSE enabled
          /\ wants' = IF call = 2 THEN wants \ {stale[i]} ELSE wants
          /\ dhcpcd' = dhcpcd
      BY <2>4, <3>2 DEF RestartDhcpcd, Systemctl
    <3>5. ASSUME NEW n, NEW k \in {0, 1, 2}, Pending(n, k),
                 k = call => n # stale[i]
          PROVE  Pending(n, k)'
      <4>1. PICK j \in DOMAIN stale :
              stale[j] = n /\ << "stop", j, k, 0 >> \in todo
        BY <3>5 DEF Pending
      <4>2. << "stop", j, k, 0 >> # p
        <5>1. << "stop", j, k, 0 >>[2] = j /\ << "stop", j, k, 0 >>[3] = k
          OBVIOUS
        <5>. QED
          BY <3>2, <3>5, <4>1, <5>1
      <4>. QED
        BY <1>1, <4>1, <4>2 DEF Pending
    <3>. QED
      BY <1>1, <2>1, <2>3, <3>2, <3>3, <3>4, <3>5 DEF UnitEffect
  <2>5. CASE p[1] # "stop"
    <3>1. p \in Plan(cfg)
      BY <2>5, ToDo
    <3>2. ASSUME q[1] = "list" PROVE FALSE
      <4>1. q # p
        BY <1>1, <3>2
      <4>2. Order[p[1]] < Order[q[1]]
        BY <1>1, <2>5, <3>2, Orders
      <4>. QED
        BY <1>1, <2>1, <4>1, <4>2, NotYet
    <3>3. ASSUME q[1] = "restart", p[1] = "restart" PROVE q = p
      BY <1>1, <3>1, <3>3, PlanNumbers DEF OnceStages
    <3>4. enabled \subseteq enabled' /\ wants \subseteq wants'
      BY <2>5 DEF RestartDhcpcd, Systemctl
    <3>5. CASE q = p
      BY <1>1, <3>2, <3>5 DEF RestartDhcpcd, Systemctl, UnitEffect
    <3>6. CASE q # p
      <4>1. p[1] # "restart" => dhcpcd' = dhcpcd
        BY DEF RestartDhcpcd, Systemctl
      <4>. QED
        BY <1>1, <2>1, <3>2, <3>3, <3>4, <3>6, <4>1 DEF UnitEffect
    <3>. QED
      BY <3>5, <3>6
  <2>. QED
    BY <2>4, <2>5
<1>. QED
  BY <1>2, <1>3, <1>4, SystemctlTypes DEF SetupInv

\* A run that came to its end has written dhcpcd.conf.
LEMMA ConfOnDisk ==
    ASSUME SetupInv, todo = {}, clean
    PROVE  DhcpcdConf \in DOMAIN disk
<1>. DEFINE p == Once("dhcpcd")
<1>1. p \in Plan(cfg) /\ p[1] = "dhcpcd" /\ p[3] = 0
  BY PlanHas DEF OnceStages, Once
<1>. HIDE DEF p
<1>2. IsFile(p)
  BY <1>1 DEF IsFile, FileStages
<1>3. Effect(disk, cfg, p)
  BY <1>1 DEF SetupInv, FilesDone
<1>4. Path(cfg, p) = << "dhcpcd" >>
  BY <1>1 DEF Path
<1>. QED
  BY <1>2, <1>3, <1>4 DEF Effect, DhcpcdConf

\* systemd starts dhcpcd with what is on disk, and no radvd of an uplink that is neither enabled, wanted nor
\* running: when a run has listed the units, none but those it has to stop.
LEMMA SystemdInv ==
    ASSUME SetupInv, DhcpcdRestarts \/ Booted
    PROVE  SetupInv'
<1>1. UNCHANGED << disk, enabled, wants, cfg, todo, stale, clean, trouble >>
  BY DEF DhcpcdRestarts, Booted
<1>2. \/ running' \subseteq running
      \/ todo = {} /\ running' \subseteq enabled \cup wants
  BY DEF DhcpcdRestarts, RestartDhcpcd, Booted
<1>3. SetupTypes'
  BY <1>1, <1>2 DEF SetupInv, SetupTypes
<1>4. InOrder' /\ EnvOk(disk)' /\ FilesDone'
  BY <1>1 DEF SetupInv, InOrder, FilesDone
<1>5. UnitsDone'
  <2>. SUFFICES ASSUME clean, NEW p \in Plan(cfg), p \notin todo
                PROVE  UnitEffect(p)'
    BY <1>1 DEF UnitsDone
  <2>1. UnitEffect(p)
    BY DEF SetupInv, UnitsDone
  <2>2. \A n, call : Pending(n, call)' <=> Pending(n, call)
    BY <1>1 DEF Pending
  <2>3. todo = {} => \A n, call : ~Pending(n, call)
    BY DEF Pending
  <2>4. ASSUME p[1] = "restart"
        PROVE  dhcpcd' = disk[DhcpcdConf]
    BY <2>4, ConfOnDisk DEF DhcpcdRestarts, RestartDhcpcd, Booted
  <2>5. ASSUME p[1] = "list", NEW n \in Names \ Configured(cfg), n \in running'
        PROVE  Pending(n, 0)
    BY <1>2, <2>1, <2>3, <2>5 DEF UnitEffect
  <2>. QED
    BY <1>1, <2>1, <2>2, <2>4, <2>5 DEF UnitEffect
<1>. QED
  BY <1>1, <1>3, <1>4, <1>5 DEF SetupInv

LEMMA SetupNextInv ==
    ASSUME NamesApart, SetupInv, [Next]_vars
    PROVE  SetupInv'
<1>1. CASE Start
  <2>1. PICK c \in Files :
          /\ Good(c) /\ cfg' = c /\ todo' = Plan(c)
    BY <1>1 DEF Start, Good
  <2>2. stale' = << >> /\ clean' = TRUE
        /\ UNCHANGED << disk, enabled, wants, running, dhcpcd, trouble >>
    BY <1>1 DEF Start
  <2>3. DOMAIN stale' = {}
    BY <2>2
  <2>. QED
    BY <2>1, <2>2, <2>3
    DEF SetupInv, SetupTypes, InOrder, FilesDone, UnitsDone
<1>2. CASE Run
  BY <1>2, WriteFileInv, WriteLinkInv, SweepInv, SystemctlInv, ListUnitsInv
  DEF Run
<1>3. CASE SystemctlFails
  <2>1. PICK p \in First :
          p[1] \in {"enable", "restart", "start", "stop"} /\ todo' = todo \ {p}
    BY <1>3 DEF RestartDhcpcd, SystemctlFails
  <2>2. /\ clean' = FALSE /\ trouble' = trouble + 1 /\ trouble < MaxTrouble
        /\ UNCHANGED << disk, Units, cfg, stale >>
    BY <1>3 DEF RestartDhcpcd, SystemctlFails, Trouble
  <2>3. FilesDone'
    BY <2>1, <2>2, FilesStay DEF FileStages, SweepStages
  <2>4. InOrder'
    BY <2>1, <2>2, InOrderStays
  <2>5. trouble' \in 0 .. MaxTrouble
    BY <2>2, MaxTroubleAssumption DEF SetupInv, SetupTypes
  <2>6. SetupTypes'
    BY <2>1, <2>2, <2>5 DEF SetupInv, SetupTypes, Units
  <2>. QED
    BY <2>2, <2>3, <2>4, <2>6 DEF SetupInv, UnitsDone
<1>4. CASE Killed
  <2>1. /\ clean' = FALSE /\ trouble' = trouble + 1 /\ trouble < MaxTrouble
        /\ UNCHANGED << disk, Units, cfg, stale >> /\ todo' = {}
    BY <1>4 DEF Killed, Trouble
  <2>2. trouble' \in 0 .. MaxTrouble
    BY <2>1, MaxTroubleAssumption DEF SetupInv, SetupTypes
  <2>. QED
    BY <2>1, <2>2
    DEF SetupInv, SetupTypes, InOrder, FilesDone, UnitsDone, Units
<1>5. CASE DhcpcdRestarts \/ Booted
  BY <1>5, SystemdInv
<1>6. CASE UNCHANGED vars
  BY <1>6
  DEF vars, SetupInv, SetupTypes, InOrder, FilesDone, UnitsDone, UnitEffect,
      Pending
<1>. QED
  BY <1>1, <1>2, <1>3, <1>4, <1>5, <1>6 DEF Next

-----------------------------------------------------------------------------
\* What setup promises.

LEMMA OnInterfaceIs ==
    ASSUME NEW c, Good(c), NEW i
    PROVE  /\ \A u \in All(c) : Uplink(c, u).interface = i =>
                OnInterface(c, i) = Uplink(c, u).name
           /\ (\A u \in All(c) : Uplink(c, u).interface # i) =>
                OnInterface(c, i) = None
<1>. DEFINE owners == {k \in DOMAIN c.uplinks : c.uplinks[k].interface = i}
<1>1. ASSUME NEW k \in owners
      PROVE  /\ k - 1 \in All(c) /\ Uplink(c, k - 1) = c.uplinks[k]
             /\ Uplink(c, k - 1).interface = i
  <2>1. Len(c.uplinks) \in Nat /\ DOMAIN c.uplinks = 1 .. Len(c.uplinks)
    BY FilesAssumption DEF Good
  <2>2. k - 1 \in All(c) /\ (k - 1) + 1 = k
    BY <2>1 DEF All
  <2>. QED
    BY <2>2 DEF Uplink
<1>2. ASSUME NEW u \in All(c), Uplink(c, u).interface = i
      PROVE  OnInterface(c, i) = Uplink(c, u).name
  <2>1. u + 1 \in owners /\ u \in Int
    BY <1>2, UplinkFacts DEF Uplink
  <2>. DEFINE k == CHOOSE k \in owners : TRUE
  <2>2. k \in owners /\ k \in Int
    BY <2>1, FilesAssumption DEF Good
  <2>3. OnInterface(c, i) = c.uplinks[k].name
    BY <2>1 DEF OnInterface
  <2>. HIDE DEF k
  <2>4. k - 1 = u
    BY <1>1, <1>2, <2>2, UplinkFacts
  <2>. QED
    BY <1>1, <2>2, <2>3, <2>4
<1>3. ASSUME \A u \in All(c) : Uplink(c, u).interface # i
      PROVE  OnInterface(c, i) = None
  <2>1. owners = {}
    BY <1>1, <1>3
  <2>. QED
    BY <2>1 DEF OnInterface
<1>. QED
  BY <1>2, <1>3

\* The run is past the files and the links.
FilesWritten ==
    /\ Good(cfg) /\ (todo # {} \/ clean)
    /\ \A p \in Plan(cfg) : Order[p[1]] =< 8 => p \notin todo

LEMMA WrittenFacts ==
    ASSUME NamesApart, SetupInv, FilesWritten
    PROVE  /\ EnvWritten(disk, cfg)
           /\ \A u \in All(cfg) : \A m \in Links(cfg, u) : Linked(disk, cfg, u, m)
           /\ \A stage \in SweepStages : Stale(disk, cfg, stage) = {}
           /\ \A p \in Plan(cfg) : IsFile(p) =>
                Path(cfg, p) \in DOMAIN disk
                /\ disk[Path(cfg, p)] = Content(cfg, p)
<1>1. ASSUME NEW p \in Plan(cfg), Order[p[1]] =< 8
      PROVE  Effect(disk, cfg, p)
  BY <1>1 DEF FilesWritten, SetupInv, FilesDone
<1>2. EnvWritten(disk, cfg)
  <2>1. \A p \in Plan(cfg) : Order[p[1]] \in Int
    <3>. TAKE p \in Plan(cfg)
    <3>1. p[1] \in OnceStages \cup FileStages \cup {"enable", "start"}
      BY PlanNumbers DEF FilesWritten
    <3>. QED
      BY <3>1, Orders DEF OnceStages, FileStages
  <2>. QED
    BY <2>1, AllWritten DEF FilesWritten
<1>3. ASSUME NEW u \in All(cfg), NEW m \in Links(cfg, u)
      PROVE  Linked(disk, cfg, u, m)
  <2>. DEFINE p == << "env", u, m, 1 >>
  <2>1. p \in Plan(cfg) /\ p[1] = "env" /\ p[2] = u /\ p[3] = m /\ p[4] = 1
    BY PlanHas
  <2>2. m # 0
    BY LinkFacts DEF FilesWritten
  <2>. HIDE DEF p
  <2>3. Effect(disk, cfg, p)
    BY <1>1, <2>1, Orders
  <2>. QED
    BY <2>1, <2>2, <2>3 DEF Effect
<1>4. ASSUME NEW stage \in SweepStages
      PROVE  Stale(disk, cfg, stage) = {}
  <2>1. Once(stage) \in Plan(cfg) /\ Once(stage)[1] = stage
    BY PlanHas DEF SweepStages, OnceStages, Once
  <2>2. Effect(disk, cfg, Once(stage))
    BY <1>1, <2>1, Orders DEF SweepStages
  <2>. QED
    BY <2>1, <2>2 DEF Effect
<1>5. ASSUME NEW p \in Plan(cfg), IsFile(p)
      PROVE  Path(cfg, p) \in DOMAIN disk
             /\ disk[Path(cfg, p)] = Content(cfg, p)
  <2>1. Effect(disk, cfg, p)
    BY <1>1, <1>5, Orders DEF IsFile, FileStages
  <2>. QED
    BY <1>5, <2>1 DEF Effect
<1>. QED
  BY <1>2, <1>3, <1>4, <1>5

\* Then the hook knows every interface.
LEMMA HookKnows ==
    ASSUME NamesApart, SetupInv, FilesWritten,
           NEW i \in Interfaces \cup AllMacvlans
    PROVE  Identify(disk, i) = OnInterface(cfg, i)
<1>1. EnvOk(disk) /\ Good(cfg)
  BY DEF SetupInv, FilesWritten
<1>2. ASSUME NEW u \in All(cfg), Uplink(cfg, u).interface = i
      PROVE  Identify(disk, i) = Uplink(cfg, u).name
  <2>1. 1 \in Links(cfg, u) /\ LinkName(cfg, u, 1) = i
    BY <1>1, <1>2, FilesAssumption DEF Links, LinkName, Good
  <2>2. /\ Env(i) \in DOMAIN disk
        /\ disk[Env(i)] = [to |-> Env(Uplink(cfg, u).name)]
    BY <2>1, WrittenFacts DEF Linked
  <2>3. disk[Env(i)].to = Env(Uplink(cfg, u).name)
    BY <2>2, LinkContent
  <2>4. /\ Env(Uplink(cfg, u).name) \in DOMAIN disk
        /\ disk[Env(Uplink(cfg, u).name)].wan = i
    BY <1>2, WrittenFacts, EnvContent DEF EnvWritten
  <2>5. Uplink(cfg, u).name \in Names
    BY <1>1, UplinkFacts
  <2>. QED
    BY <1>1, <2>2, <2>3, <2>4, <2>5, Leads
<1>3. ASSUME \A u \in All(cfg) : Uplink(cfg, u).interface # i,
             Identify(disk, i) # None
      PROVE  FALSE
  <2>1. PICK n \in Names :
          Env(n) \in DOMAIN disk /\ disk[Env(n)].wan = i
    BY <1>1, <1>3, KnownByLink
  <2>2. ~IsLink(disk, Env(n))
    BY <1>1, <2>1, EnvShape
  <2>3. n \in Configured(cfg)
    <3>1. Stale(disk, cfg, "envSweep") = {}
      BY WrittenFacts DEF SweepStages
    <3>2. Env(n) \in EnvPaths(disk) /\ Env(n)[2] = n
      BY <2>1, InEnv, Paths
    <3>. QED
      BY <2>2, <3>1, <3>2 DEF Stale
  <2>4. PICK u \in All(cfg) : n = Uplink(cfg, u).name
    BY <1>1, <2>3, NameOf
  <2>5. disk[Env(n)].wan = Uplink(cfg, u).interface
    BY <2>4, WrittenFacts, EnvContent DEF EnvWritten
  <2>. QED
    BY <1>3, <2>1, <2>5
<1>. QED
  BY <1>1, <1>2, <1>3, OnInterfaceIs

LEMMA SettledWritten ==
    ASSUME SetupInv, Settled
    PROVE  FilesWritten
BY DEF Settled, SetupInv, SetupTypes, FilesWritten

LEMMA FindsUplink ==
    ASSUME NamesApart, SetupInv
    PROVE  HookFindsUplink
<1>. SUFFICES ASSUME Settled
              PROVE  /\ \A i \in Interfaces \cup AllMacvlans :
                          Identify(disk, i) = OnInterface(cfg, i)
                     /\ \A u \in PdIndices(cfg) :
                          \A mv \in Macvlans(cfg, u) : Exists(disk, Env(mv))
  BY DEF HookFindsUplink
<1>1. FilesWritten /\ Good(cfg) /\ EnvOk(disk)
  BY SettledWritten DEF FilesWritten, SetupInv
<1>2. ASSUME NEW u \in PdIndices(cfg), NEW mv \in Macvlans(cfg, u)
      PROVE  Exists(disk, Env(mv))
  <2>1. u \in All(cfg) /\ Uplink(cfg, u).pd
    BY DEF PdIndices, All, Uplink
  <2>2. PICK n \in 0 .. Len(cfg.networks) - 1 : mv = macvlan_name(cfg, n, u)
    BY DEF Macvlans
  <2>3. Len(cfg.networks) \in Nat
    BY <1>1, FilesAssumption DEF Good
  <2>4. /\ n + 2 \in Links(cfg, u)
        /\ LinkName(cfg, u, n + 2) = macvlan_name(cfg, n, u)
    <3>1. n + 2 \in 1 .. Len(cfg.networks) + 1 /\ n + 2 # 1 /\ (n + 2) - 2 = n
      BY <2>3
    <3>. QED
      BY <2>1, <3>1 DEF Links, LinkName
  <2>5. mv \in Interfaces \cup AllMacvlans /\ Uplink(cfg, u).name \in Names
    BY <1>1, <2>1, <2>2, <2>4, LinkFacts, UplinkFacts
  <2>6. /\ Env(mv) \in DOMAIN disk
        /\ disk[Env(mv)].to = Env(Uplink(cfg, u).name)
        /\ Env(Uplink(cfg, u).name) \in DOMAIN disk
    BY <1>1, <2>1, <2>2, <2>4, WrittenFacts, LinkContent DEF Linked, EnvWritten
  <2>. QED
    BY <1>1, <2>5, <2>6, Leads
<1>. QED
  BY <1>1, <1>2, HookKnows

\* No step of the plan is left, so what the steps on the units did is there.
LEMMA SettledUnits ==
    ASSUME SetupInv, Settled
    PROVE  /\ Good(cfg)
           /\ enabled = Configured(cfg) /\ wants = Configured(cfg)
           /\ running \subseteq Configured(cfg)
           /\ dhcpcd = disk[DhcpcdConf]
<1>1. /\ Good(cfg) /\ \A p \in Plan(cfg) : UnitEffect(p)
      /\ \A n, call : ~Pending(n, call)
  BY DEF Settled, SetupInv, SetupTypes, UnitsDone, Pending
<1>2. dhcpcd = disk[DhcpcdConf]
  <2>1. Once("restart") \in Plan(cfg) /\ Once("restart")[1] = "restart"
    BY PlanHas DEF OnceStages, Once
  <2>. QED
    BY <1>1, <2>1 DEF UnitEffect
<1>3. \A n \in Names \ Configured(cfg) :
        n \notin running /\ n \notin enabled /\ n \notin wants
  <2>1. Once("list") \in Plan(cfg) /\ Once("list")[1] = "list"
    BY PlanHas DEF OnceStages, Once
  <2>. QED
    BY <1>1, <2>1 DEF UnitEffect
<1>4. ASSUME NEW n \in Configured(cfg)
      PROVE  n \in enabled /\ n \in wants
  <2>1. PICK u \in All(cfg) : n = Uplink(cfg, u).name
    BY <1>1, NameOf
  <2>. DEFINE p == << "enable", u, 0, 0 >>
              q == << "enable", u, 1, 0 >>
  <2>2. /\ p \in Plan(cfg) /\ p[1] = "enable" /\ p[2] = u /\ p[3] = 0
        /\ q \in Plan(cfg) /\ q[1] = "enable" /\ q[2] = u /\ q[3] = 1
    BY PlanHas
  <2>. HIDE DEF p, q
  <2>. QED
    BY <1>1, <2>1, <2>2 DEF UnitEffect
<1>. QED
  BY <1>1, <1>2, <1>3, <1>4 DEF SetupInv, SetupTypes

LEMMA NothingIsStale ==
    ASSUME NamesApart, SetupInv
    PROVE  NothingStale
<1>. SUFFICES ASSUME Settled
              PROVE  /\ {p[2] : p \in {q \in EnvPaths(disk) : ~IsLink(disk, q)}} =
                          Configured(cfg)
                     /\ \A p \in EnvPaths(disk) : Exists(disk, p)
                     /\ \A p \in DOMAIN disk :
                          p[1] = "radvd" => p[2] \in Configured(cfg)
                     /\ enabled = Configured(cfg) /\ wants = Configured(cfg)
                     /\ running \subseteq Configured(cfg)
  BY DEF NothingStale
<1>1. FilesWritten /\ Good(cfg) /\ EnvOk(disk)
  BY SettledWritten DEF FilesWritten, SetupInv
<1>2. /\ Stale(disk, cfg, "radvdSweep") = {}
      /\ Stale(disk, cfg, "envSweep") = {}
      /\ Stale(disk, cfg, "linkSweep") = {}
  BY <1>1, WrittenFacts DEF SweepStages
<1>3. ASSUME NEW n \in Configured(cfg)
      PROVE  \E p \in EnvPaths(disk) : ~IsLink(disk, p) /\ p[2] = n
  <2>1. PICK u \in All(cfg) : n = Uplink(cfg, u).name
    BY <1>1, <1>3, NameOf
  <2>2. Env(n) \in DOMAIN disk /\ disk[Env(n)] = env_file(Uplink(cfg, u))
    BY <1>1, <2>1, WrittenFacts DEF EnvWritten
  <2>3. ~IsLink(disk, Env(n))
    BY <2>2, EnvContent DEF IsLink
  <2>4. Env(n) \in EnvPaths(disk) /\ Env(n)[2] = n
    BY <2>2, InEnv, Paths
  <2>. QED
    BY <2>3, <2>4
<1>4. \A p \in EnvPaths(disk) : ~IsLink(disk, p) => p[2] \in Configured(cfg)
  BY <1>2 DEF Stale
<1>5. ASSUME NEW p \in EnvPaths(disk)
      PROVE  Exists(disk, p)
  <2>1. CASE IsLink(disk, p)
    BY <1>2, <2>1 DEF Stale
  <2>2. CASE ~IsLink(disk, p)
    <3>1. PICK n \in Names : p = Env(n)
      BY <1>1, <2>2 DEF EnvOk, EnvFile, EnvLink
    <3>. QED
      BY <1>1, <3>1, FileExists DEF EnvPaths
  <2>. QED
    BY <2>1, <2>2
<1>6. \A p \in DOMAIN disk : p[1] = "radvd" => p[2] \in Configured(cfg)
  BY <1>2 DEF Stale
<1>7. {p[2] : p \in {q \in EnvPaths(disk) : ~IsLink(disk, q)}} = Configured(cfg)
  BY <1>3, <1>4
<1>. QED
  BY <1>5, <1>6, <1>7, SettledUnits

\* The octet of the network is one octet.
FewNetworks == \A c \in Files : Len(c.networks) =< 256

\* The generated files of one configuration.
LEMMA MacvlansDistinct ==
    ASSUME NEW c, Good(c), FewNetworks
    PROVE  /\ \A a, b \in interfaces_file(c) : a.mac = b.mac => a = b
           /\ \A a, b \in dhcpcd_conf(c).macvlans : a.iaid = b.iaid => a = b
<1>1. /\ Len(c.networks) \in Nat /\ Len(c.networks) =< 256
      /\ Len(c.uplinks) \in Nat
  BY FilesAssumption DEF Good, FewNetworks
<1>2. ASSUME NEW p \in MacvlanPairs(c)
      PROVE  /\ p = << p[1], p[2] >>
             /\ p[1] \in 0 .. 255 /\ p[2] \in Nat
  <2>1. /\ p = << p[1], p[2] >>
        /\ p[1] \in 0 .. Len(c.networks) - 1 /\ p[2] \in PdIndices(c)
    BY DEF MacvlanPairs
  <2>2. \A n \in 0 .. Len(c.networks) - 1 : n \in 0 .. 255
    BY <1>1
  <2>3. \A u \in PdIndices(c) : u \in Nat
    BY <1>1 DEF PdIndices
  <2>. QED
    BY <2>1, <2>2, <2>3
<1>3. ASSUME NEW a \in interfaces_file(c), NEW b \in interfaces_file(c),
             a.mac = b.mac
      PROVE  a = b
  <2>1. PICK p \in MacvlanPairs(c) :
          a = [name |-> macvlan_name(c, p[1], p[2]),
               parent |-> c.networks[p[1] + 1],
               mac |-> mac_address(p[2], p[1]), address |-> link_local(p[2])]
    BY DEF interfaces_file
  <2>2. PICK q \in MacvlanPairs(c) :
          b = [name |-> macvlan_name(c, q[1], q[2]),
               parent |-> c.networks[q[1] + 1],
               mac |-> mac_address(q[2], q[1]), address |-> link_local(q[2])]
    BY DEF interfaces_file
  <2>3. mac_address(p[2], p[1]) = mac_address(q[2], q[1])
    BY <1>3, <2>1, <2>2
  <2>4. p[1] = q[1] /\ p[2] = q[2]
    BY <2>3 DEF mac_address
  <2>. QED
    BY <2>1, <2>2, <2>4
<1>4. ASSUME NEW a \in dhcpcd_conf(c).macvlans, NEW b \in dhcpcd_conf(c).macvlans,
             a.iaid = b.iaid
      PROVE  a = b
  <2>1. PICK p \in MacvlanPairs(c) :
          a = [name |-> macvlan_name(c, p[1], p[2]), uplink |-> p[2],
               sla |-> SlaId(c, p[1], p[2]), iaid |-> macvlan_iaid(p[2], p[1])]
    BY DEF dhcpcd_conf
  <2>2. PICK q \in MacvlanPairs(c) :
          b = [name |-> macvlan_name(c, q[1], q[2]), uplink |-> q[2],
               sla |-> SlaId(c, q[1], q[2]), iaid |-> macvlan_iaid(q[2], q[1])]
    BY DEF dhcpcd_conf
  <2>3. macvlan_iaid(p[2], p[1]) = macvlan_iaid(q[2], q[1])
    BY <1>4, <2>1, <2>2
  <2>4. p[1] = q[1] /\ p[2] = q[2]
    <3>. DEFINE n == p[1]
                m == q[1]
                u == p[2]
                v == q[2]
    <3>1. n \in 0 .. 255 /\ m \in 0 .. 255 /\ u \in Nat /\ v \in Nat
      BY <1>2
    <3>2. macvlan_iaid(u, n) = macvlan_iaid(v, m)
      BY <2>3
    <3>. HIDE DEF n, m, u, v
    <3>3. n = m /\ u = v
      BY <3>1, <3>2 DEF macvlan_iaid
    <3>. QED
      BY <3>3 DEF n, m, u, v
  <2>. QED
    BY <2>1, <2>2, <2>4
<1>. QED
  BY <1>3, <1>4

\* What radvd advertises on, and the prefixes for it.
LEMMA RadvdFits ==
    ASSUME NEW c, Good(c), NEW u \in PdIndices(c)
    PROVE  /\ radvd_conf(c, u) \subseteq
                {a.name : a \in interfaces_file(c)}
                \cap {a.name : a \in dhcpcd_conf(c).macvlans}
           /\ \A length : \A d \in derive_prefixes(c, u, length) :
                \E a \in dhcpcd_conf(c).macvlans :
                  /\ a.name = d.name /\ a.uplink = u /\ a.sla = d.sla
                  /\ \A b \in dhcpcd_conf(c).macvlans :
                       b.uplink = u /\ b.sla = d.sla => b = a
<1>. DEFINE iface(n) ==
              [name |-> macvlan_name(c, n, u), parent |-> c.networks[n + 1],
               mac |-> mac_address(u, n), address |-> link_local(u)]
            macvlan(n, v) ==
              [name |-> macvlan_name(c, n, v), uplink |-> v,
               sla |-> SlaId(c, n, v), iaid |-> macvlan_iaid(v, n)]
<1>1. ASSUME NEW n \in 0 .. Len(c.networks) - 1
      PROVE  /\ iface(n) \in interfaces_file(c)
             /\ macvlan(n, u) \in dhcpcd_conf(c).macvlans
  <2>. DEFINE p == << n, u >>
  <2>1. p \in MacvlanPairs(c) /\ p[1] = n /\ p[2] = u
    BY DEF MacvlanPairs
  <2>. HIDE DEF p
  <2>2. iface(n) \in interfaces_file(c)
    BY <2>1 DEF interfaces_file
  <2>3. macvlan(n, u) \in dhcpcd_conf(c).macvlans
    BY <2>1 DEF dhcpcd_conf
  <2>. QED
    BY <2>2, <2>3
<1>2. \A b \in dhcpcd_conf(c).macvlans :
        \E n, v : b = macvlan(n, v)
  BY DEF dhcpcd_conf
<1>3. \A n : iface(n).name = macvlan_name(c, n, u)
  OBVIOUS
<1>4. \A n, v : /\ macvlan(n, v).name = macvlan_name(c, n, v)
                /\ macvlan(n, v).uplink = v /\ macvlan(n, v).sla = n
  BY DEF SlaId
<1>. HIDE DEF iface, macvlan
<1>5. radvd_conf(c, u) \subseteq
        {a.name : a \in interfaces_file(c)}
        \cap {a.name : a \in dhcpcd_conf(c).macvlans}
  <2>. SUFFICES ASSUME NEW n \in 0 .. Len(c.networks) - 1
                PROVE  macvlan_name(c, n, u) \in
                         {a.name : a \in interfaces_file(c)}
                         \cap {a.name : a \in dhcpcd_conf(c).macvlans}
    BY DEF radvd_conf, Macvlans
  <2>. QED
    BY <1>1, <1>3, <1>4
<1>6. ASSUME NEW length, NEW d \in derive_prefixes(c, u, length)
      PROVE  \E a \in dhcpcd_conf(c).macvlans :
               /\ a.name = d.name /\ a.uplink = u /\ a.sla = d.sla
               /\ \A b \in dhcpcd_conf(c).macvlans :
                    b.uplink = u /\ b.sla = d.sla => b = a
  <2>1. PICK n \in 0 .. Len(c.networks) - 1 :
          d.name = macvlan_name(c, n, u) /\ d.sla = n
    <3>1. d \in {[name |-> macvlan_name(c, n, u), sla |-> n] :
                   n \in 0 .. Len(c.networks) - 1}
      <4>1. derive_prefixes(c, u, length) \in
              {{}, {[name |-> macvlan_name(c, n, u), sla |-> n] :
                      n \in 0 .. Len(c.networks) - 1}}
        BY Zenon DEF derive_prefixes
      <4>. QED
        BY <4>1
    <3>. QED
      BY <3>1
  <2>2. \A b \in dhcpcd_conf(c).macvlans :
          b.uplink = u /\ b.sla = d.sla => b = macvlan(n, u)
    BY <1>2, <1>4, <2>1
  <2>. QED
    BY <1>1, <1>4, <2>1, <2>2
<1>. QED
  BY <1>5, <1>6

\* The tables are registered under the names of the uplinks.
LEMMA TablesNamed ==
    ASSUME NEW c
    PROVE  {t.uplink : t \in rt_tables(c)} = Configured(c) \cup {Unset}
<1>1. \A t \in rt_tables(c) : t.uplink \in Configured(c) \cup {Unset}
  BY DEF rt_tables, Configured
<1>2. \E t \in rt_tables(c) : t.uplink = Unset
  <2>. DEFINE t == [number |-> ipv4_table_num(c.tables), uplink |-> Unset]
  <2>1. t \in rt_tables(c) /\ t.uplink = Unset
    BY DEF rt_tables
  <2>. QED
    BY <2>1
<1>3. ASSUME NEW i \in DOMAIN c.uplinks
      PROVE  \E t \in rt_tables(c) : t.uplink = c.uplinks[i].name
  <2>. DEFINE t == [number |-> ipv6_table_num(c.tables, i - 1),
                    uplink |-> c.uplinks[i].name]
  <2>1. t \in rt_tables(c) /\ t.uplink = c.uplinks[i].name
    BY DEF rt_tables
  <2>. QED
    BY <2>1
<1>. QED
  BY <1>1, <1>2, <1>3 DEF Configured

\* What the files hold when all is written.
LEMMA Contents ==
    ASSUME NamesApart, SetupInv, FilesWritten
    PROVE  /\ disk[InterfacesConf] = interfaces_file(cfg)
           /\ disk[DhcpcdConf] = dhcpcd_conf(cfg)
           /\ disk[TablesConf] = rt_tables(cfg)
           /\ \A u \in PdIndices(cfg) :
                disk[RadvdConf(Uplink(cfg, u).name)] = radvd_conf(cfg, u)
<1>1. /\ \A p \in Plan(cfg) : IsFile(p) => disk[Path(cfg, p)] = Content(cfg, p)
      /\ Good(cfg)
  BY WrittenFacts DEF FilesWritten
<1>2. ASSUME NEW stage \in {"interfaces", "dhcpcd", "tables"}
      PROVE  disk[<< stage >>] = Content(cfg, Once(stage))
  <2>1. /\ Once(stage) \in Plan(cfg) /\ Once(stage)[1] = stage
        /\ IsFile(Once(stage))
    BY PlanHas DEF OnceStages, Once, IsFile, FileStages
  <2>2. Path(cfg, Once(stage)) = << stage >>
    BY <2>1 DEF Path
  <2>. QED
    BY <1>1, <2>1, <2>2
<1>3. /\ Content(cfg, Once("interfaces")) = interfaces_file(cfg)
      /\ Content(cfg, Once("dhcpcd")) = dhcpcd_conf(cfg)
      /\ Content(cfg, Once("tables")) = rt_tables(cfg)
  BY DEF Content, Once
<1>4. ASSUME NEW u \in PdIndices(cfg)
      PROVE  disk[RadvdConf(Uplink(cfg, u).name)] = radvd_conf(cfg, u)
  <2>. DEFINE p == << "radvd", u, 0, 0 >>
  <2>1. p \in Plan(cfg) /\ p[1] = "radvd" /\ p[2] = u /\ p[3] = 0
    BY PlanHas
  <2>. HIDE DEF p
  <2>2. /\ Path(cfg, p) = RadvdConf(Uplink(cfg, u).name)
        /\ Content(cfg, p) = radvd_conf(cfg, u)
    BY <2>1 DEF Path, Content
  <2>. QED
    BY <1>1, <2>1, <2>2 DEF IsFile, FileStages
<1>. QED
  BY <1>2, <1>3, <1>4 DEF InterfacesConf, DhcpcdConf, TablesConf

LEMMA Fits ==
    ASSUME NamesApart, FewNetworks, SetupInv
    PROVE  FilesFit
<1>. SUFFICES ASSUME Settled
              PROVE  FilesFit
  BY DEF FilesFit
<1>1. FilesWritten /\ Good(cfg)
  BY SettledWritten DEF FilesWritten
<1>2. /\ disk[InterfacesConf] = interfaces_file(cfg)
      /\ disk[DhcpcdConf] = dhcpcd_conf(cfg)
      /\ disk[TablesConf] = rt_tables(cfg)
      /\ \A u \in PdIndices(cfg) :
           disk[RadvdConf(Uplink(cfg, u).name)] = radvd_conf(cfg, u)
  BY <1>1, Contents
<1>3. dhcpcd = disk[DhcpcdConf]
  BY SettledUnits
<1>4. /\ \A a, b \in interfaces_file(cfg) : a.mac = b.mac => a = b
      /\ \A a, b \in dhcpcd_conf(cfg).macvlans : a.iaid = b.iaid => a = b
  BY <1>1, MacvlansDistinct
<1>5. {t.uplink : t \in disk[TablesConf]} = Configured(cfg) \cup {Unset}
  BY <1>2, TablesNamed
<1>6. ASSUME NEW u \in PdIndices(cfg)
      PROVE  /\ disk[RadvdConf(Uplink(cfg, u).name)] \subseteq
                  {a.name : a \in disk[InterfacesConf]}
                  \cap {a.name : a \in disk[DhcpcdConf].macvlans}
             /\ \A length \in {48, 56, 62, 63, 64, 65} :
                  \A d \in derive_prefixes(cfg, u, length) :
                    \E a \in disk[DhcpcdConf].macvlans :
                      /\ a.name = d.name /\ a.uplink = u /\ a.sla = d.sla
                      /\ \A b \in disk[DhcpcdConf].macvlans :
                           b.uplink = u /\ b.sla = d.sla => b = a
  BY <1>1, <1>2, RadvdFits
<1>. QED
  BY <1>2, <1>3, <1>4, <1>5, <1>6 DEF FilesFit

-----------------------------------------------------------------------------
\* What no step does.

\* A disk on which the hook takes i for somebody else than before.
LEMMA Mistaken ==
    ASSUME NamesApart, NEW d, NEW e, EnvOk(d), EnvOk(e),
           NEW i \in Interfaces \cup AllMacvlans,
           Identify(e, i) # None, Identify(e, i) # Identify(d, i)
    PROVE  \E n \in Names :
             /\ Identify(e, i) = n
             /\ Env(i) \in DOMAIN e /\ e[Env(i)].to = Env(n)
             /\ Env(n) \in DOMAIN e /\ e[Env(n)].wan = i
             /\ \/ Env(i) \notin DOMAIN d \/ e[Env(i)] # d[Env(i)]
                \/ Env(n) \notin DOMAIN d \/ e[Env(n)] # d[Env(n)]
<1>1. PICK n \in Names :
        /\ Env(i) \in DOMAIN e /\ e[Env(i)].to = Env(n)
        /\ Env(n) \in DOMAIN e /\ e[Env(n)].wan = i
        /\ Identify(e, i) = n
  BY KnownByLink
<1>2. ASSUME Env(i) \in DOMAIN d, e[Env(i)] = d[Env(i)],
             Env(n) \in DOMAIN d, e[Env(n)] = d[Env(n)]
      PROVE  FALSE
  BY <1>1, <1>2, Leads
<1>. QED
  BY <1>1, <1>2

LEMMA DropMisleadsNobody ==
    ASSUME NamesApart, NEW d, EnvOk(d), NEW path,
           NEW i \in Interfaces \cup AllMacvlans
    PROVE  Identify(Drop(d, path), i) \in {None, Identify(d, i)}
<1>. DEFINE e == Drop(d, path)
<1>1. DOMAIN e \subseteq DOMAIN d /\ \A p \in DOMAIN e : e[p] = d[p]
  BY DEF Drop
<1>2. EnvOk(e)
  BY DropOk
<1>. HIDE DEF e
<1>3. Identify(e, i) \in {None, Identify(d, i)}
  BY <1>1, <1>2, Mistaken
<1>. QED
  BY <1>3 DEF e

\* When an env file is written the hook comes to know its uplink, and when a
\* link is set the uplink whose file is already this run's.
LEMMA WriteMisleadsNobody ==
    ASSUME NamesApart, NEW c, Good(c), NEW p \in Plan(c), IsFile(p),
           NEW d, EnvOk(d), NEW i \in Interfaces \cup AllMacvlans
    PROVE  LET e == Put(d, Path(c, p), Content(c, p))
           IN  Identify(e, i) \in {None, Identify(d, i), OnInterface(c, i)}
<1>. DEFINE e == Put(d, Path(c, p), Content(c, p))
<1>1. /\ e[Path(c, p)] = Content(c, p) /\ DOMAIN e = DOMAIN d \cup {Path(c, p)}
      /\ \A q \in DOMAIN d : q # Path(c, p) => e[q] = d[q]
  BY DEF Put
<1>2. EnvOk(e)
  BY WriteFileOk
<1>. HIDE DEF e
<1>3. ASSUME Identify(e, i) # None, Identify(e, i) # Identify(d, i)
      PROVE  Identify(e, i) = OnInterface(c, i)
  <2>1. PICK n \in Names :
          /\ Identify(e, i) = n
          /\ Env(i) \in DOMAIN e /\ e[Env(i)].to = Env(n)
          /\ Env(n) \in DOMAIN e /\ e[Env(n)].wan = i
          /\ \/ Env(i) \notin DOMAIN d \/ e[Env(i)] # d[Env(i)]
             \/ Env(n) \notin DOMAIN d \/ e[Env(n)] # d[Env(n)]
    BY <1>2, <1>3, Mistaken
  <2>2. Path(c, p) \in {Env(i), Env(n)}
    BY <1>1, <2>1
  <2>3. p[1] = "env"
    BY <2>2, PathFacts, Paths
  <2>. DEFINE uplink == Uplink(c, p[2])
  <2>4. /\ Path(c, p) = Env(uplink.name) /\ Content(c, p) = env_file(uplink)
        /\ p[2] \in All(c)
    BY <2>3, PlanNumbers DEF Path, Content, OnceStages
  <2>5. uplink.name \in Names
    BY <2>4, UplinkFacts
  <2>6. n = uplink.name
    <3>1. uplink.name # i
      BY <2>5 DEF NamesApart
    <3>. QED
      BY <2>2, <2>4, <3>1, Paths
  <2>7. i = uplink.interface
    BY <1>1, <2>1, <2>4, <2>6, EnvContent
  <2>. QED
    BY <2>1, <2>4, <2>6, <2>7, OnInterfaceIs
<1>. QED
  BY <1>3 DEF e

LEMMA LinkMisleadsNobody ==
    ASSUME NamesApart, NEW c, Good(c), NEW p \in Plan(c), LinkStep(p),
           NEW d, EnvOk(d), NEW i \in Interfaces \cup AllMacvlans,
           Effect(d, c, << "env", p[2], 0, 0 >>)
    PROVE  Identify(After(d, c, p), i) \in
             {None, Identify(d, i), OnInterface(c, i)}
<1>. DEFINE e == After(d, c, p)
            uplink == Uplink(c, p[2])
            link == Env(LinkName(c, p[2], p[3]))
            file == << "env", p[2], 0, 0 >>
<1>1. /\ \A q \in DOMAIN e : q # link => q \in DOMAIN d /\ e[q] = d[q]
      /\ link \in DOMAIN e => e[link] = [to |-> Env(uplink.name)]
  BY DEF After, LinkTo, Put, Drop
<1>2. EnvOk(e)
  BY WriteLinkOk
<1>3. p[2] \in All(c) /\ p[3] \in Links(c, p[2])
  BY PlanNumbers DEF OnceStages, LinkStep
<1>4. d[Env(uplink.name)] = env_file(uplink)
  <2>1. file[1] = "env" /\ file[2] = p[2] /\ file[3] = 0
    OBVIOUS
  <2>. HIDE DEF file
  <2>2. IsFile(file)
    BY <2>1 DEF IsFile, FileStages
  <2>3. Path(c, file) = Env(uplink.name) /\ Content(c, file) = env_file(uplink)
    BY <2>1 DEF Path, Content
  <2>. QED
    BY <2>2, <2>3 DEF Effect, file
<1>. HIDE DEF e
<1>5. ASSUME Identify(e, i) # None, Identify(e, i) # Identify(d, i)
      PROVE  Identify(e, i) = OnInterface(c, i)
  <2>1. PICK n \in Names :
          /\ Identify(e, i) = n
          /\ Env(i) \in DOMAIN e /\ e[Env(i)].to = Env(n)
          /\ Env(n) \in DOMAIN e /\ e[Env(n)].wan = i
          /\ \/ Env(i) \notin DOMAIN d \/ e[Env(i)] # d[Env(i)]
             \/ Env(n) \notin DOMAIN d \/ e[Env(n)] # d[Env(n)]
    BY <1>2, <1>5, Mistaken
  <2>2. LinkName(c, p[2], p[3]) \in Interfaces \cup AllMacvlans
    BY <1>3, LinkFacts
  <2>3. Env(n) # link
    BY <2>2, Paths DEF NamesApart
  <2>4. Env(i) = link
    BY <1>1, <2>1, <2>3
  <2>5. n = uplink.name
    <3>1. e[Env(i)].to = Env(uplink.name)
      BY <1>1, <2>1, <2>4, LinkContent
    <3>2. Env(n) = Env(uplink.name)
      BY <2>1, <3>1
    <3>. QED
      BY <3>2 DEF Env
  <2>6. i = uplink.interface
    BY <1>1, <1>4, <2>1, <2>3, <2>5, EnvContent
  <2>. QED
    BY <1>3, <2>1, <2>5, <2>6, OnInterfaceIs
<1>. QED
  BY <1>5 DEF e

\* Past the files, the hook knows every interface of the dhcpcd.conf on disk.
LEMMA KnownOnRestart ==
    ASSUME NamesApart, SetupInv, PastFiles
    PROVE  WansKnown(disk, disk[DhcpcdConf])
<1>1. Good(cfg)
  BY DEF PastFiles, SetupInv, SetupTypes
<1>2. ASSUME NEW p \in Plan(cfg), Order[p[1]] =< 8, p \in todo
      PROVE  FALSE
  <2>1. p[1] \in OnceStages \cup FileStages \cup {"enable", "start"}
    BY <1>1, PlanNumbers
  <2>2. Order[p[1]] >= 10
    BY <1>2, Orders DEF PastFiles
  <2>. QED
    BY <1>2, <2>1, <2>2, Orders DEF OnceStages, FileStages
<1>3. FilesWritten
  BY <1>1, <1>2 DEF FilesWritten, PastFiles
<1>4. disk[DhcpcdConf] = dhcpcd_conf(cfg)
  BY <1>3, Contents
<1>5. ASSUME NEW w \in dhcpcd_conf(cfg).wans
      PROVE  w.interface \in Interfaces
  <2>1. PICK k \in DOMAIN cfg.uplinks :
          w = [interface |-> cfg.uplinks[k].interface,
               metric |-> Metric(cfg, k)]
    BY DEF dhcpcd_conf
  <2>. QED
    BY <1>1, <2>1 DEF Interfaces, Good
<1>. QED
  BY <1>3, <1>4, <1>5, HookKnows DEF WansKnown

LEMMA NobodyMisled ==
    ASSUME NamesApart, SetupInv, [Next]_vars
    PROVE  [NotMisled]_vars
<1>1. CASE ~Run
  <2>1. disk' = disk
    BY <1>1
    DEF Next, Start, SystemctlFails, Killed, Trouble, DhcpcdRestarts, Booted,
        Units, vars
  <2>2. ASSUME dhcpcd' # dhcpcd, PastFiles
        PROVE  WansKnown(disk, dhcpcd')
    <3>1. DhcpcdRestarts \/ Booted
      BY <1>1, <2>2
      DEF Next, Start, SystemctlFails, Killed, Trouble, Units, vars
    <3>2. CASE DhcpcdRestarts
      BY <2>2, <3>2, KnownOnRestart DEF DhcpcdRestarts, RestartDhcpcd
    <3>3. CASE Booted
      BY <2>2, <3>3, ConfOnDisk, KnownOnRestart DEF Booted, PastFiles
    <3>. QED
      BY <3>1, <3>2, <3>3
  <2>. QED
    BY <2>1, <2>2 DEF NotMisled
<1>2. CASE Run
  <2>1. PICK p \in First :
          WriteFile(p) \/ WriteLink(p) \/ Sweep(p) \/ Systemctl(p) \/ ListUnits(p)
    BY <1>2 DEF Run
  <2>2. cfg' = cfg /\ p \in todo /\ Good(cfg) /\ EnvOk(disk)
    BY <1>2 DEF Run, First, SetupInv, SetupTypes
  <2>3. ASSUME WriteFile(p) PROVE NotMisled
    <3>1. /\ IsFile(p) /\ p[1] # "stop" /\ dhcpcd' = dhcpcd
          /\ disk' = Put(disk, Path(cfg, p), Content(cfg, p))
      BY <2>3 DEF WriteFile, IsFile, FileStages, Units
    <3>2. p \in Plan(cfg)
      BY <3>1, ToDo
    <3>3. \A i \in Interfaces \cup AllMacvlans :
            Identify(disk', i) \in {None, Identify(disk, i), OnInterface(cfg, i)}
      BY <2>2, <3>1, <3>2, WriteMisleadsNobody
    <3>. QED
      BY <2>2, <3>1, <3>3 DEF NotMisled
  <2>4. ASSUME WriteLink(p) PROVE NotMisled
    <3>1. /\ LinkStep(p) /\ p[1] # "stop" /\ dhcpcd' = dhcpcd
          /\ disk' = After(disk, cfg, p)
      BY <2>4 DEF WriteLink, LinkStep, After, Units
    <3>2. p \in Plan(cfg)
      BY <3>1, ToDo
    <3>. DEFINE file == << "env", p[2], 0, 0 >>
    <3>3. /\ file \in Plan(cfg) /\ file[1] = "env" /\ file[2] = p[2]
          /\ file[3] = 0
      BY <2>2, <3>1, <3>2, PlanNumbers, PlanHas DEF LinkStep, OnceStages
    <3>. HIDE DEF file
    <3>4. file \notin todo
      <4>1. p[3] \in Nat /\ p[3] # 0
        BY <2>2, <3>1, <3>2, PlanNumbers DEF LinkStep
      <4>2. Before(file, p)
        BY <3>1, <3>3, <4>1 DEF Before, LinkStep
      <4>. QED
        BY <4>2 DEF First
    <3>5. Effect(disk, cfg, file)
      BY <2>2, <3>3, <3>4 DEF SetupInv, FilesDone
    <3>6. \A i \in Interfaces \cup AllMacvlans :
            Identify(disk', i) \in {None, Identify(disk, i), OnInterface(cfg, i)}
      BY <2>2, <3>1, <3>2, <3>5, LinkMisleadsNobody DEF file
    <3>. QED
      BY <2>2, <3>1, <3>6 DEF NotMisled
  <2>5. ASSUME Sweep(p) PROVE NotMisled
    <3>1. /\ dhcpcd' = dhcpcd
          /\ disk' = disk \/ \E path : disk' = Drop(disk, path)
      BY <2>5 DEF Sweep, Units
    <3>2. \A i \in Interfaces \cup AllMacvlans :
            Identify(disk', i) \in {None, Identify(disk, i)}
      BY <2>2, <3>1, DropMisleadsNobody
    <3>. QED
      BY <3>1, <3>2 DEF NotMisled
  <2>6. ASSUME Systemctl(p) PROVE NotMisled
    <3>1. disk' = disk /\ (p[1] # "restart" => dhcpcd' = dhcpcd)
      BY <2>6 DEF RestartDhcpcd, Systemctl
    <3>2. CASE p[1] # "restart"
      BY <3>1, <3>2 DEF NotMisled
    <3>3. CASE p[1] = "restart"
      <4>1. dhcpcd' = disk[DhcpcdConf]
        BY <2>6, <3>3 DEF RestartDhcpcd, Systemctl
      <4>. QED
        BY <3>1, <4>1, KnownOnRestart DEF NotMisled
    <3>. QED
      BY <3>2, <3>3
  <2>7. ASSUME ListUnits(p) PROVE NotMisled
    BY <2>7 DEF ListUnits, Units, NotMisled
  <2>. QED
    BY <2>1, <2>3, <2>4, <2>5, <2>6, <2>7
<1>. QED
  BY <1>1, <1>2

LEMMA Types ==
    ASSUME NamesApart, SetupInv
    PROVE  TypeOK
<1>1. ASSUME NEW p \in EnvPaths(disk)
      PROVE  /\ p[2] \in Names \cup Interfaces \cup AllMacvlans
             /\ IF IsLink(disk, p) THEN disk[p].to \in {Env(n) : n \in Names}
                ELSE disk[p].uplink \in Names /\ disk[p].wan \in Interfaces
  <2>1. CASE EnvFile(disk, p)
    BY <2>1, Paths DEF EnvFile
  <2>2. CASE EnvLink(disk, p)
    BY <2>2, Paths DEF EnvLink
  <2>. QED
    BY <2>1, <2>2 DEF SetupInv, EnvOk
<1>. QED
  BY <1>1 DEF TypeOK, SetupInv, SetupTypes, Good

\* What is there at any moment is accounted for: the steps a run has behind it
\* have left what they are for.  (main of uplinkmgr-setup)
THEOREM SetupInductive ==
    ASSUME NamesApart
    PROVE  Spec => []SetupInv
<1>1. SetupInv /\ [Next]_vars => SetupInv'
  BY SetupNextInv
<1>. QED
  BY <1>1, SetupInitInv, PTL DEF Spec

\* The types of uplinkmgr-setup's state.
THEOREM SetupTypesOK ==
    ASSUME NamesApart
    PROVE  Spec => []TypeOK
<1>1. SetupInv => TypeOK
  BY Types
<1>. QED
  BY <1>1, SetupInductive, PTL

\* After a run that finished, whatever was cut short before it, the hook takes
\* the events of every WAN interface for the uplink on it, and those of no
\* other.  (write_symlink, _remove_stale; dhcpcd-hook)
THEOREM UplinksAreFound ==
    ASSUME NamesApart
    PROVE  Spec => []HookFindsUplink
<1>1. SetupInv => HookFindsUplink
  BY FindsUplink
<1>. QED
  BY <1>1, SetupInductive, PTL

\* After such a run nothing of an uplink that is no longer configured is left.
\* (_remove_stale, _disable_stale_radvd_units)
THEOREM NothingStaleIsLeft ==
    ASSUME NamesApart
    PROVE  Spec => []NothingStale
<1>1. SetupInv => NothingStale
  BY NothingIsStale
<1>. QED
  BY <1>1, SetupInductive, PTL

\* The files of such a run fit together, with up to 256 networks.
\* (generator.py, naming.py, radvd.py _derive_prefixes)
THEOREM FilesFitTogether ==
    ASSUME NamesApart, FewNetworks
    PROVE  Spec => []FilesFit
<1>1. SetupInv => FilesFit
  BY Fits
<1>. QED
  BY <1>1, SetupInductive, PTL

\* No step, of a run or of systemd, makes the hook take an interface for another
\* uplink than the configuration's; and once a run has got past its files, no
\* start of dhcpcd, by that run, after a failure of dhcpcd or at a reboot, hands
\* it an interface the hook does not know.  (main of uplinkmgr-setup;
\* dhcpcd-uplinkmgr.service; dhcpcd-hook line 36)
THEOREM HookIsNeverMisled ==
    ASSUME NamesApart
    PROVE  Spec => HookNeverMisled
<1>1. SetupInv /\ [Next]_vars => [NotMisled]_vars
  BY NobodyMisled
<1>. QED
  BY <1>1, SetupInductive, PTL DEF Spec, HookNeverMisled
=============================================================================

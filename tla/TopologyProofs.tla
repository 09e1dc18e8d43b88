--------------------------- MODULE TopologyProofs ---------------------------
(***************************************************************************)
(* For any number of uplinks and networks: the numbers the daemon computes *)
(* never clash, the rules in the kernel are those of the bookkeeping, and  *)
(* packets go the way they should.                                         *)
(***************************************************************************)
EXTENDS TopologyProps, TLAPS

IsLayout(c) ==
    c.start \in Nat /\ c.uplinks \in Nat /\ c.networks \in Nat

\* The place of a pair in a table of U rows and M columns is inside it.
LEMMA PairInside ==
    ASSUME NEW U \in Nat, NEW M \in Nat, NEW u \in 0 .. U - 1,
           NEW n \in 0 .. M - 1
    PROVE  u * M + n \in 0 .. U * M - 1
<1>1. u + 1 \in Nat /\ u + 1 =< U
      OBVIOUS
<1>2. (u + 1) * M =< U * M
      BY <1>1
<1>3. (u + 1) * M = u * M + M
      OBVIOUS
<1>4. u * M \in Nat /\ U * M \in Nat
      OBVIOUS
<1> QED BY <1>2, <1>3, <1>4

LEMMA RowsApart ==
    ASSUME NEW M \in Nat, NEW u \in Nat, NEW v \in Nat, u < v,
           NEW n \in 0 .. M - 1, NEW m \in 0 .. M - 1
    PROVE  u * M + n < v * M + m
<1>1. u + 1 \in Nat /\ u + 1 =< v
      OBVIOUS
<1>2. (u + 1) * M =< v * M
      BY <1>1
<1>3. (u + 1) * M = u * M + M
      OBVIOUS
<1>4. u * M \in Nat /\ v * M \in Nat
      OBVIOUS
<1> QED BY <1>2, <1>3, <1>4

\* No two pairs have the same place.
LEMMA PairApart ==
    ASSUME NEW M \in Nat, NEW u \in Nat, NEW v \in Nat,
           NEW n \in 0 .. M - 1, NEW m \in 0 .. M - 1,
           u * M + n = v * M + m
    PROVE  u = v /\ n = m
<1>1. ~(u < v)
      BY RowsApart
<1>2. ~(v < u)
      BY RowsApart
<1>3. u = v
      BY <1>1, <1>2
<1>4. u * M \in Nat
      OBVIOUS
<1> QED BY <1>3, <1>4

-----------------------------------------------------------------------------
\* The five kinds of IPv6 rules have a band of priorities each.
LEMMA Bands ==
    ASSUME NEW c, IsLayout(c), NEW s \in Slots6(c)
    PROVE  LET N == PairCount(c)
               p == Priority6(c, s) - c.start
           IN  \/ s = << "internal", 0, 0 >> /\ p = 0
               \/ \E u \in Uplinks(c), n \in Networks(c) :
                    /\ s = << "fwd", u, n >>
                    /\ p = 1 + (u * c.networks + n)
                    /\ p \in 1 .. N
               \/ \E u \in Uplinks(c) :
                    /\ s = << "lo", u, 0 >>
                    /\ p = 1 + N + u
                    /\ p \in N + 1 .. N + c.uplinks
               \/ \E u \in Uplinks(c), n \in Networks(c) :
                    /\ s = << "reject", u, n >>
                    /\ p = 1 + N + c.uplinks + (u * c.networks + n)
                    /\ p \in N + c.uplinks + 1 .. 2 * N + c.uplinks
               \/ \E u \in Uplinks(c) :
                    /\ s = << "pd_lo", u, 0 >>
                    /\ p = 1 + 2 * N + c.uplinks + u
                    /\ p \in 2 * N + c.uplinks + 1 .. 2 * N + 2 * c.uplinks
<1> DEFINE N == PairCount(c)
           p == Priority6(c, s) - c.start
<1>1. N \in Nat /\ N = c.uplinks * c.networks
      BY DEF PairCount, IsLayout
<1>2. CASE s = << "internal", 0, 0 >>
      BY <1>2 DEF Priority6, ipv6_internal_traffic_priority, IsLayout
<1>3. ASSUME NEW u \in Uplinks(c), NEW n \in Networks(c), s = << "fwd", u, n >>
      PROVE  p = 1 + (u * c.networks + n) /\ p \in 1 .. N
  <2>1. u * c.networks + n \in 0 .. N - 1
        BY <1>1, PairInside DEF Uplinks, Networks, IsLayout
  <2>2. Priority6(c, s) = c.start + 1 + u * c.networks + n
        BY <1>3 DEF Priority6, ipv6_fwd_to_uplink_priority
  <2>3. u * c.networks \in Nat /\ n \in Nat
        BY DEF Uplinks, Networks, IsLayout
  <2> QED BY <1>1, <2>1, <2>2, <2>3 DEF IsLayout
<1>4. ASSUME NEW u \in Uplinks(c), NEW n \in Networks(c),
             s = << "reject", u, n >>
      PROVE  /\ p = 1 + N + c.uplinks + (u * c.networks + n)
             /\ p \in N + c.uplinks + 1 .. 2 * N + c.uplinks
  <2>1. u * c.networks + n \in 0 .. N - 1
        BY <1>1, PairInside DEF Uplinks, Networks, IsLayout
  <2>2. Priority6(c, s) = c.start + 1 + N + c.uplinks + u * c.networks + n
        BY <1>4 DEF Priority6, ipv6_reject_wrong_pd_src_priority
  <2>3. u * c.networks \in Nat /\ n \in Nat
        BY DEF Uplinks, Networks, IsLayout
  <2> QED BY <1>1, <2>1, <2>2, <2>3 DEF IsLayout
<1>5. ASSUME NEW u \in Uplinks(c), s = << "lo", u, 0 >>
      PROVE  p = 1 + N + u /\ p \in N + 1 .. N + c.uplinks
  <2>1. Priority6(c, s) = c.start + 1 + N + u
        BY <1>5 DEF Priority6, ipv6_lo_to_uplink_priority
  <2> QED BY <1>1, <2>1 DEF Uplinks, IsLayout
<1>6. ASSUME NEW u \in Uplinks(c), s = << "pd_lo", u, 0 >>
      PROVE  /\ p = 1 + 2 * N + c.uplinks + u
             /\ p \in 2 * N + c.uplinks + 1 .. 2 * N + 2 * c.uplinks
  <2>1. Priority6(c, s) = c.start + 1 + N + c.uplinks + N + u
        BY <1>6 DEF Priority6, ipv6_pd_lo_to_uplink_priority
  <2> QED BY <1>1, <2>1 DEF Uplinks, IsLayout
<1>7. \/ s = << "internal", 0, 0 >>
      \/ \E u \in Uplinks(c), n \in Networks(c) : s = << "fwd", u, n >>
      \/ \E u \in Uplinks(c), n \in Networks(c) : s = << "reject", u, n >>
      \/ \E u \in Uplinks(c) : s = << "lo", u, 0 >>
      \/ \E u \in Uplinks(c) : s = << "pd_lo", u, 0 >>
      BY DEF Slots6
<1> QED BY <1>2, <1>3, <1>4, <1>5, <1>6, <1>7

\* No two IPv6 rules share a priority.
LEMMA Priorities6Distinct ==
    ASSUME NEW c, IsLayout(c), NEW s \in Slots6(c), NEW t \in Slots6(c),
           Priority6(c, s) = Priority6(c, t)
    PROVE  s = t
<1> DEFINE N == PairCount(c)
           p == Priority6(c, s) - c.start
<1>1. N \in Nat /\ c.uplinks \in Nat /\ c.networks \in Nat
      BY DEF PairCount, IsLayout
<1>2. \/ s = << "internal", 0, 0 >> /\ p = 0
      \/ \E u \in Uplinks(c), n \in Networks(c) :
           s = << "fwd", u, n >> /\ p = 1 + (u * c.networks + n) /\ p \in 1 .. N
      \/ \E u \in Uplinks(c) :
           s = << "lo", u, 0 >> /\ p = 1 + N + u /\ p \in N + 1 .. N + c.uplinks
      \/ \E u \in Uplinks(c), n \in Networks(c) :
           /\ s = << "reject", u, n >>
           /\ p = 1 + N + c.uplinks + (u * c.networks + n)
           /\ p \in N + c.uplinks + 1 .. 2 * N + c.uplinks
      \/ \E u \in Uplinks(c) :
           /\ s = << "pd_lo", u, 0 >> /\ p = 1 + 2 * N + c.uplinks + u
           /\ p \in 2 * N + c.uplinks + 1 .. 2 * N + 2 * c.uplinks
      BY Bands
<1>3. \/ t = << "internal", 0, 0 >> /\ p = 0
      \/ \E u \in Uplinks(c), n \in Networks(c) :
           t = << "fwd", u, n >> /\ p = 1 + (u * c.networks + n) /\ p \in 1 .. N
      \/ \E u \in Uplinks(c) :
           t = << "lo", u, 0 >> /\ p = 1 + N + u /\ p \in N + 1 .. N + c.uplinks
      \/ \E u \in Uplinks(c), n \in Networks(c) :
           /\ t = << "reject", u, n >>
           /\ p = 1 + N + c.uplinks + (u * c.networks + n)
           /\ p \in N + c.uplinks + 1 .. 2 * N + c.uplinks
      \/ \E u \in Uplinks(c) :
           /\ t = << "pd_lo", u, 0 >> /\ p = 1 + 2 * N + c.uplinks + u
           /\ p \in 2 * N + c.uplinks + 1 .. 2 * N + 2 * c.uplinks
      BY Bands
<1> HIDE DEF N, p
<1>4. CASE p = 0
      BY <1>1, <1>2, <1>3, <1>4
<1>5. CASE p \in 1 .. N
  <2>1. PICK u \in Uplinks(c), n \in Networks(c) :
          s = << "fwd", u, n >> /\ p = 1 + (u * c.networks + n)
        BY <1>1, <1>2, <1>5
  <2>2. PICK v \in Uplinks(c), m \in Networks(c) :
          t = << "fwd", v, m >> /\ p = 1 + (v * c.networks + m)
        BY <1>1, <1>3, <1>5
  <2>3. u * c.networks + n = v * c.networks + m
        BY <1>1, <2>1, <2>2 DEF Uplinks, Networks
  <2> QED BY <1>1, <2>1, <2>2, <2>3, PairApart DEF Uplinks, Networks
<1>6. CASE p \in N + 1 .. N + c.uplinks
  <2>1. PICK u \in Uplinks(c) : s = << "lo", u, 0 >> /\ p = 1 + N + u
        BY <1>1, <1>2, <1>6
  <2>2. PICK v \in Uplinks(c) : t = << "lo", v, 0 >> /\ p = 1 + N + v
        BY <1>1, <1>3, <1>6
  <2> QED BY <1>1, <2>1, <2>2 DEF Uplinks
<1>7. CASE p \in N + c.uplinks + 1 .. 2 * N + c.uplinks
  <2>1. PICK u \in Uplinks(c), n \in Networks(c) :
          /\ s = << "reject", u, n >>
          /\ p = 1 + N + c.uplinks + (u * c.networks + n)
        BY <1>1, <1>2, <1>7
  <2>2. PICK v \in Uplinks(c), m \in Networks(c) :
          /\ t = << "reject", v, m >>
          /\ p = 1 + N + c.uplinks + (v * c.networks + m)
        BY <1>1, <1>3, <1>7
  <2>3. u * c.networks + n = v * c.networks + m
        BY <1>1, <2>1, <2>2 DEF Uplinks, Networks
  <2> QED BY <1>1, <2>1, <2>2, <2>3, PairApart DEF Uplinks, Networks
<1>8. CASE p \in 2 * N + c.uplinks + 1 .. 2 * N + 2 * c.uplinks
  <2>1. PICK u \in Uplinks(c) :
          s = << "pd_lo", u, 0 >> /\ p = 1 + 2 * N + c.uplinks + u
        BY <1>1, <1>2, <1>8
  <2>2. PICK v \in Uplinks(c) :
          t = << "pd_lo", v, 0 >> /\ p = 1 + 2 * N + c.uplinks + v
        BY <1>1, <1>3, <1>8
  <2> QED BY <1>1, <2>1, <2>2 DEF Uplinks
<1> QED BY <1>2, <1>4, <1>5, <1>6, <1>7, <1>8

\* No two IPv4 rules share a priority.
LEMMA Priorities4Distinct ==
    ASSUME NEW c, IsLayout(c), NEW s \in Slots4(c), NEW t \in Slots4(c),
           Priority4(c, s) = Priority4(c, t)
    PROVE  s = t
<1>1. ASSUME NEW r \in Slots4(c)
      PROVE  \/ r = << "internal", 0 >> /\ Priority4(c, r) = c.start
             \/ /\ r = << "fwd_to_wan", 0 >>
                /\ Priority4(c, r) = c.start + 1 + c.uplinks
             \/ \E u \in Uplinks(c) :
                  r = << "lo", u >> /\ Priority4(c, r) = c.start + 1 + u
      BY DEF Slots4, Priority4, ipv4_internal_traffic_priority,
         ipv4_lo_to_uplink_priority, ipv4_fwd_to_wan_priority
<1> QED BY <1>1 DEF IsLayout, Uplinks

-----------------------------------------------------------------------------
LEMMA ConfigurationIsLoaded == Spec => [](cfg \in Files \cup {Unset})
<1>1. Init => cfg \in Files \cup {Unset}
      BY DEF Init
<1>2. ASSUME cfg \in Files \cup {Unset}, [Next]_vars
      PROVE  (cfg \in Files \cup {Unset})'
      BY <1>2 DEF Next, Start, Change, Reload, Stop, Load, vars
<1> QED BY <1>1, <1>2, PTL DEF Spec

\* Whatever configurations are loaded, no two rules of the daemon have the
\* same priority, so that `ip rule del priority` removes the rule it is meant
\* to.  (priority.py)
THEOREM RulesNeverClash == Spec => []SlotsDistinct
<1>1. cfg \in Files \cup {Unset} => SlotsDistinct
  <2> SUFFICES ASSUME cfg \in Files PROVE SlotsDistinct
      BY DEF SlotsDistinct, Running
  <2>1. IsLayout(Layout(cfg))
        BY FilesAssumption DEF IsLayout, Layout
  <2> HIDE DEF Layout
  <2> QED BY <2>1, Priorities4Distinct, Priorities6Distinct DEF SlotsDistinct
<1> QED BY ConfigurationIsLoaded, <1>1, PTL

\* The IPv6 rules take the rule_priority_start-th priority and at most
\* 2 * (uplinks * networks + uplinks) after it.  (priority.py)
THEOREM PriorityRange ==
    ASSUME NEW c, IsLayout(c), NEW s \in Slots6(c)
    PROVE  Priority6(c, s) - c.start \in
             0 .. 2 * PairCount(c) + 2 * c.uplinks
<1> DEFINE N == PairCount(c)
           p == Priority6(c, s) - c.start
           L == c.uplinks
<1>1. N \in Nat /\ L \in Nat
      BY DEF PairCount, IsLayout
<1>2. \/ p = 0
      \/ p \in 1 .. N
      \/ p \in N + 1 .. N + L
      \/ p \in N + L + 1 .. 2 * N + L
      \/ p \in 2 * N + L + 1 .. 2 * N + 2 * L
      BY Bands
<1> HIDE DEF N, p, L
<1>3. p \in 0 .. 2 * N + 2 * L
      BY <1>1, <1>2
<1> QED BY <1>3 DEF N, p, L

\* Macvlans have IAIDs of their own as long as there are no more than 256
\* networks.  (naming.py macvlan_iaid)
THEOREM IaidsDistinct ==
    ASSUME NEW u \in Nat, NEW v \in Nat, NEW n \in 0 .. 255, NEW m \in 0 .. 255,
           macvlan_iaid(u, n) = macvlan_iaid(v, m)
    PROVE  u = v /\ n = m
BY DEF macvlan_iaid

\* The tables of an accepted configuration are none of the system's and no
\* two uplinks have the same one.  (config.py load, naming.py)
THEOREM TablesDistinct ==
    ASSUME NEW f, Accepts(f), Len(f.uplinks) \in Nat,
           NEW u \in 0 .. Len(f.uplinks) - 1, NEW v \in 0 .. Len(f.uplinks) - 1
    PROVE  /\ Table(f, u) \in 1 .. MaxTable
           /\ Table(f, u) # ipv4_table_num(f.tables)
           /\ Table(f, u) = Table(f, v) => u = v
<1> DEFINE t == f.tables
           L == Len(f.uplinks)
<1>1. t \in 1 .. 252 /\ t + L =< 252
      BY DEF Accepts, TablesOk, MaxTable
<1>2. L \in Nat /\ u \in 0 .. L - 1 /\ v \in 0 .. L - 1
      OBVIOUS
<1>3. Table(f, u) = t + 1 + u /\ Table(f, v) = t + 1 + v
      BY DEF Table, ipv6_table_num
<1>4. ipv4_table_num(f.tables) = t
      BY DEF ipv4_table_num
<1> HIDE DEF t, L
<1> QED BY <1>1, <1>2, <1>3, <1>4 DEF MaxTable

-----------------------------------------------------------------------------
(***************************************************************************)
(* The kernel holds the rules of the bookkeeping.                          *)
(***************************************************************************)

LEMMA Forms4 ==
    ASSUME NEW c, NEW s \in Slots4(Layout(c))
    PROVE  \/ s = << "internal", 0 >>
           \/ s = << "fwd_to_wan", 0 >>
           \/ \E u \in Uplinks(Layout(c)) : s = << "lo", u >>
BY DEF Slots4

LEMMA Forms6 ==
    ASSUME NEW c, NEW s \in Slots6(Layout(c))
    PROVE  \/ s = << "internal", 0, 0 >>
           \/ \E u \in Uplinks(Layout(c)), n \in Networks(Layout(c)) :
                s = << "fwd", u, n >> \/ s = << "reject", u, n >>
           \/ \E u \in Uplinks(Layout(c)) :
                s = << "lo", u, 0 >> \/ s = << "pd_lo", u, 0 >>
BY DEF Slots6

\* No rule or one.
LEMMA OneRule4 ==
    ASSUME NEW c, NEW i, NEW p
    PROVE  At4(c, i, p) = << >> \/ \E r : At4(c, i, p) = << r >>
<1>1. CASE SlotsAt4(c, p) = {}
      BY <1>1 DEF At4
<1>2. CASE SlotsAt4(c, p) # {}
  <2> DEFINE s == CHOOSE t \in SlotsAt4(c, p) : TRUE
  <2>1. s \in Slots4(Layout(c))
        BY <1>2 DEF SlotsAt4
  <2>2. s[1] \in {"internal", "fwd_to_wan", "lo"}
        BY <2>1, Forms4
  <2>3. At4(c, i, p) = Rules4(c, i, s)
        BY <1>2 DEF At4
  <2> HIDE DEF s
  <2>4. Rules4(c, i, s) = << >> \/ \E r : Rules4(c, i, s) = << r >>
        BY <2>2 DEF Rules4, If
  <2> QED BY <2>3, <2>4
<1> QED BY <1>1, <1>2

LEMMA OneRule6 ==
    ASSUME NEW c, NEW i, NEW p
    PROVE  At6(c, i, p) = << >> \/ \E r : At6(c, i, p) = << r >>
<1>1. CASE SlotsAt6(c, p) = {}
      BY <1>1 DEF At6
<1>2. CASE SlotsAt6(c, p) # {}
  <2> DEFINE s == CHOOSE t \in SlotsAt6(c, p) : TRUE
  <2>1. s \in Slots6(Layout(c))
        BY <1>2 DEF SlotsAt6
  <2>2. s[1] \in {"internal", "fwd", "lo", "reject", "pd_lo"}
        BY <2>1, Forms6
  <2>3. At6(c, i, p) = Rules6(c, i, s)
        BY <1>2 DEF At6
  <2> HIDE DEF s
  <2>4. Rules6(c, i, s) = << >> \/ \E r : Rules6(c, i, s) = << r >>
        BY <2>2 DEF Rules6, If
  <2> QED BY <2>3, <2>4
<1> QED BY <1>1, <1>2

\* A slot that holds the old rule holds the new one after the exchange.
LEMMA ExchangeSwaps ==
    ASSUME NEW old, NEW new,
           old = << >> \/ \E r : old = << r >>,
           new = << >> \/ \E r : new = << r >>
    PROVE  Exchange(old, old, new) = new
<1>1. CASE old = new
      BY <1>1 DEF Exchange
<1>2. CASE old # new
  <2> DEFINE rest == IF old = << >> THEN old ELSE DelRule(old)
  <2>1. rest = << >>
    <3>1. ASSUME NEW x PROVE Tail(<< x >>) = << >>
          OBVIOUS
    <3> QED BY <3>1 DEF DelRule
  <2>2. CASE new = << >>
        BY <1>2, <2>1, <2>2 DEF Exchange
  <2>3. ASSUME NEW r, new = << r >> PROVE Exchange(old, old, new) = new
    <3>1. new # << >> /\ new[1] = r
          BY <2>3
    <3>2. AddRule(<< >>, r) = << r >>
          BY DEF AddRule
    <3> QED BY <1>2, <2>1, <2>3, <3>1, <3>2 DEF Exchange
  <2> QED BY <2>2, <2>3
<1> QED BY <1>1, <1>2

Mirror4(c, i) == [p \in Priorities |-> At4(c, i, p)]
Mirror6(c, i) == [p \in Priorities |-> At6(c, i, p)]

\* The step from one bookkeeping to another, if it leaves out only slots that
\* are empty before and after.
LEMMA TurnMirrors ==
    ASSUME NEW c, NEW S, NEW s, NEW j,
           s.k4 = Mirror4(c, s.inst), s.k6 = Mirror6(c, s.inst),
           \A t \in Slots6(Layout(c)) \ S :
               Rules6(c, s.inst, t) = << >> /\ Rules6(c, j, t) = << >>
    PROVE  LET r == Turn(c, S, s, j)
           IN  r.inst = j /\ r.k4 = Mirror4(c, j) /\ r.k6 = Mirror6(c, j)
<1> DEFINE r == Turn(c, S, s, j)
<1>1. r.inst = j
      BY DEF Turn
<1>2. r.k4 = [p \in DOMAIN s.k4 |->
                Exchange(s.k4[p], At4(c, s.inst, p), At4(c, j, p))]
      BY DEF Turn
<1>3. r.k6 = [p \in DOMAIN s.k6 |->
                IF SlotsAt6(c, p) \cap S = {} THEN s.k6[p]
                ELSE Exchange(s.k6[p], At6(c, s.inst, p), At6(c, j, p))]
      BY DEF Turn
<1>4. r.k4 = Mirror4(c, j)
  <2>1. ASSUME NEW p \in Priorities
        PROVE  Exchange(s.k4[p], At4(c, s.inst, p), At4(c, j, p)) = At4(c, j, p)
    <3>1. s.k4[p] = At4(c, s.inst, p)
          BY DEF Mirror4
    <3> QED BY <3>1, OneRule4, ExchangeSwaps
  <2>2. DOMAIN s.k4 = Priorities
        BY DEF Mirror4
  <2> QED BY <1>2, <2>1, <2>2 DEF Mirror4
<1>5. r.k6 = Mirror6(c, j)
  <2>1. ASSUME NEW p \in Priorities
        PROVE  (IF SlotsAt6(c, p) \cap S = {} THEN s.k6[p]
                ELSE Exchange(s.k6[p], At6(c, s.inst, p), At6(c, j, p)))
               = At6(c, j, p)
    <3>1. s.k6[p] = At6(c, s.inst, p)
          BY DEF Mirror6
    <3>2. CASE SlotsAt6(c, p) \cap S # {}
          BY <3>1, <3>2, OneRule6, ExchangeSwaps
    <3>3. CASE SlotsAt6(c, p) \cap S = {} /\ SlotsAt6(c, p) = {}
          BY <3>1, <3>3 DEF At6
    <3>4. CASE SlotsAt6(c, p) \cap S = {} /\ SlotsAt6(c, p) # {}
      <4>1. PICK t : t = (CHOOSE x \in SlotsAt6(c, p) : TRUE)
            OBVIOUS
      <4>2. t \in Slots6(Layout(c)) \ S
            BY <3>4, <4>1 DEF SlotsAt6
      <4>3. At6(c, s.inst, p) = << >> /\ At6(c, j, p) = << >>
            BY <3>4, <4>1, <4>2 DEF At6
      <4> QED BY <3>1, <3>4, <4>3
    <3> QED BY <3>2, <3>3, <3>4
  <2>2. DOMAIN s.k6 = Priorities
        BY DEF Mirror6
  <2> QED BY <1>3, <2>1, <2>2 DEF Mirror6
<1> QED BY <1>1, <1>4, <1>5

-----------------------------------------------------------------------------
(***************************************************************************)
(* The bookkeeping.                                                        *)
(***************************************************************************)

\* uplinkmgr-setup refuses other configurations.
NamesValidated == \A f \in Files : validate_macvlan_names(f)

Book == [lo4 : BOOLEAN, lo6 : BOOLEAN, pdLo : BOOLEAN, fwd : BOOLEAN,
         narrow : BOOLEAN, prohibit : BOOLEAN]

IsBooks(c, i) == i \in [policy : BOOLEAN, links : [Configured(c) -> Book]]

HasPd(c, name) == Uplink(c, Index(c, name)).pd

\* Only an uplink with prefix delegation has IPv6 rules, and only
\* reject_wrong_pd_src has constraints.
WithinConfig(c, i) ==
    \A name \in Configured(c) :
        LET b == i.links[name]
        IN  /\ b.lo6 \/ b.pdLo \/ b.fwd \/ b.narrow \/ b.prohibit =>
                 HasPd(c, name)
            /\ b.narrow \/ b.prohibit => c.reject

Ready(c, i) ==
    /\ IsBooks(c, i) /\ i.policy /\ WithinConfig(c, i)
    /\ \A name \in Configured(c) : i.links[name].fwd = HasPd(c, name)

\* The bookkeeping after a pass, with e the state files and the health.
UpToDate(c, e, i) ==
    \A name \in Configured(c) :
        LET b == i.links[name]
            known == HasPd(c, name) /\ name \in e.pd
        IN  /\ b.lo4 = (name \in e.wan \cap e.up)
            /\ b.lo6 = (HasPd(c, name) /\ name \in e.wan \cap e.up)
            /\ b.pdLo = (HasPd(c, name) /\ name \in e.pd \cap e.up)
            /\ b.prohibit = (known /\ c.reject)
            /\ known => b.narrow = c.reject

\* Names of uplinks and their indices.
LEMMA IndexOfName ==
    ASSUME NEW c \in Files, Accepts(c), NEW u \in Uplinks(Layout(c))
    PROVE  Uplink(c, u).name \in Configured(c) /\ Index(c, Uplink(c, u).name) = u
<1>1. u + 1 \in DOMAIN c.uplinks /\ u \in Nat
      BY FilesAssumption DEF Uplinks, Layout
<1>2. \A i, j \in DOMAIN c.uplinks :
        c.uplinks[i].name = c.uplinks[j].name => i = j
      BY DEF Accepts, UplinksOk, Distinct
<1>3. Uplink(c, u).name = c.uplinks[u + 1].name
      BY DEF Uplink
<1> DEFINE k == CHOOSE i \in DOMAIN c.uplinks :
                   c.uplinks[i].name = Uplink(c, u).name
<1>4. k \in DOMAIN c.uplinks /\ c.uplinks[k].name = Uplink(c, u).name
      BY <1>1, <1>3
<1>5. Index(c, Uplink(c, u).name) = k - 1
      BY DEF Index
<1> HIDE DEF k
<1>6. k = u + 1
      BY <1>1, <1>2, <1>3, <1>4
<1> QED BY <1>1, <1>3, <1>5, <1>6 DEF Configured

LEMMA NameOfIndex ==
    ASSUME NEW c \in Files, Accepts(c), NEW name \in Configured(c)
    PROVE  /\ Index(c, name) \in Uplinks(Layout(c))
           /\ Uplink(c, Index(c, name)).name = name
           /\ HasPd(c, name) \in BOOLEAN /\ name \in Names
<1>1. PICK i \in DOMAIN c.uplinks : c.uplinks[i].name = name
      BY DEF Configured
<1>2. i \in 1 .. Len(c.uplinks) /\ Len(c.uplinks) \in Nat
      BY FilesAssumption
<1>3. i - 1 \in Uplinks(Layout(c)) /\ Uplink(c, i - 1).name = name
      BY <1>1, <1>2 DEF Uplinks, Layout, Uplink
<1>4. Index(c, name) = i - 1
      BY <1>3, IndexOfName
<1> QED BY <1>1, <1>2, <1>3, <1>4, FilesAssumption DEF HasPd, Uplink

\* A network whose macvlan has another's name has none of its own.
LEMMA SkippedSlots ==
    ASSUME NEW c \in Files, Accepts(c), NamesValidated,
           NEW i, WithinConfig(c, i), NEW t \in Slots6(Layout(c)) \ Slots6Done(c)
    PROVE  Rules6(c, i, t) = << >>
<1>1. /\ t[1] \in {"fwd", "reject"}
      /\ \E m \in 0 .. t[3] - 1 :
           macvlan_name(c, m, t[2]) = macvlan_name(c, t[3], t[2])
      BY DEF Slots6Done
<1>2. PICK u \in Uplinks(Layout(c)), n \in Networks(Layout(c)) :
        t = << "fwd", u, n >> \/ t = << "reject", u, n >>
      BY <1>1, Forms6
<1>3. PICK m \in 0 .. n - 1 : macvlan_name(c, m, u) = macvlan_name(c, n, u)
      BY <1>1, <1>2
<1>4. ~Uplink(c, u).pd
  <2> SUFFICES ASSUME Uplink(c, u).pd PROVE FALSE
      OBVIOUS
  <2>1. u \in 0 .. Len(c.uplinks) - 1 /\ n \in 0 .. Len(c.networks) - 1
        BY DEF Uplinks, Networks, Layout
  <2>2. Len(c.networks) \in Nat /\ m \in 0 .. Len(c.networks) - 1 /\ m # n
        BY <2>1, FilesAssumption
  <2>3. << m, u >> \in MacvlanPairs(c) /\ << n, u >> \in MacvlanPairs(c)
        BY <2>1, <2>2 DEF MacvlanPairs, PdIndices, Uplink
  <2>4. << m, u >> = << n, u >>
        BY <1>3, <2>3 DEF NamesValidated, validate_macvlan_names
  <2> QED BY <2>2, <2>4
<1>5. /\ Uplink(c, u).name \in Configured(c)
      /\ ~HasPd(c, Uplink(c, u).name)
      BY <1>4, IndexOfName DEF HasPd
<1>6. ~i.links[Uplink(c, u).name].fwd /\ ~i.links[Uplink(c, u).name].prohibit
      BY <1>5 DEF WithinConfig
<1> QED BY <1>2, <1>6 DEF Rules6, If

LEMMA SetupIsReady ==
    ASSUME NEW c \in Files, Accepts(c)
    PROVE  /\ IsBooks(c, Fresh(c)) /\ ~Fresh(c).policy
           /\ \A name \in Configured(c) : Fresh(c).links[name] = Empty
           /\ Ready(c, SetupBooks(c))
<1>1. Empty \in Book
      BY DEF Empty, Book
<1>2. \A name \in Configured(c) : HasPd(c, name) \in BOOLEAN
      BY NameOfIndex
<1>3. \A name \in Configured(c) :
        [Empty EXCEPT !.fwd = HasPd(c, name)] \in Book
      BY <1>1, <1>2 DEF Book
<1>4. IsBooks(c, Fresh(c)) /\ IsBooks(c, SetupBooks(c))
      BY <1>1, <1>3 DEF IsBooks, Fresh, SetupBooks, Books, HasPd
<1>5. /\ SetupBooks(c).policy
      /\ \A name \in Configured(c) : SetupBooks(c).links[name] =
           [Empty EXCEPT !.fwd = HasPd(c, name)]
      BY DEF SetupBooks, Books, HasPd
<1>6. /\ ~Fresh(c).policy
      /\ \A name \in Configured(c) : Fresh(c).links[name] = Empty
      BY DEF Fresh, Books
<1> QED BY <1>4, <1>5, <1>6 DEF Ready, WithinConfig, Empty

\* A book without an entry is the empty one.
LEMMA EmptyBook ==
    ASSUME NEW b \in Book, ~b.lo4, ~b.lo6, ~b.pdLo, ~b.fwd, ~b.narrow,
           ~b.prohibit
    PROVE  b = Empty
BY DEF Book, Empty

LEMMA ReconcileIsUpToDate ==
    ASSUME NEW c \in Files, Accepts(c), NEW e, NEW i, Ready(c, i)
    PROVE  LET j == ReconcileBooks(c, e, i)
           IN  Ready(c, j) /\ UpToDate(c, e, j)
<1> DEFINE j == ReconcileBooks(c, e, i)
<1>1. \A name \in Configured(c) :
        i.links[name] \in Book /\ HasPd(c, name) \in BOOLEAN
      BY NameOfIndex DEF Ready, IsBooks
<1>2. c.reject \in BOOLEAN
      BY FilesAssumption
<1>3. /\ j = [i EXCEPT !.links = j.links]
      /\ j.links = [name \in Configured(c) |-> j.links[name]]
      BY DEF ReconcileBooks, Ready, IsBooks
<1>4. ASSUME NEW name \in Configured(c)
      PROVE  LET known == HasPd(c, name) /\ name \in e.pd
                 b == i.links[name]
             IN  j.links[name] =
                   [lo4 |-> name \in e.wan \cap e.up,
                    lo6 |-> HasPd(c, name) /\ name \in e.wan \cap e.up,
                    pdLo |-> HasPd(c, name) /\ name \in e.pd \cap e.up,
                    fwd |-> b.fwd,
                    narrow |-> IF known THEN c.reject ELSE b.narrow,
                    prohibit |-> known /\ (b.prohibit \/ c.reject)]
      BY DEF ReconcileBooks, HasPd, Narrow, OwnPrefix, Ready, IsBooks
<1> HIDE DEF j
<1>5. ASSUME NEW name \in Configured(c)
      PROVE  LET b == i.links[name]
                 d == j.links[name]
                 known == HasPd(c, name) /\ name \in e.pd
             IN  /\ d \in Book
                 /\ d.lo4 = (name \in e.wan \cap e.up)
                 /\ d.lo6 = (HasPd(c, name) /\ name \in e.wan \cap e.up)
                 /\ d.pdLo = (HasPd(c, name) /\ name \in e.pd \cap e.up)
                 /\ d.fwd = b.fwd
                 /\ d.narrow = (IF known THEN c.reject ELSE b.narrow)
                 /\ d.prohibit = (known /\ (b.prohibit \/ c.reject))
  <2> DEFINE b == i.links[name]
             known == HasPd(c, name) /\ name \in e.pd
             w4 == name \in e.wan \cap e.up
             w6 == HasPd(c, name) /\ name \in e.wan \cap e.up
             wp == HasPd(c, name) /\ name \in e.pd \cap e.up
             wn == IF known THEN c.reject ELSE b.narrow
             wr == known /\ (b.prohibit \/ c.reject)
             d == j.links[name]
  <2>1. b.fwd \in BOOLEAN /\ b.narrow \in BOOLEAN /\ b.prohibit \in BOOLEAN
        BY <1>1 DEF Book
  <2>2. wn \in BOOLEAN /\ wr \in BOOLEAN
        BY <1>2, <2>1
  <2>3. w4 \in BOOLEAN /\ w6 \in BOOLEAN /\ wp \in BOOLEAN
        BY <1>1
  <2>4. d = [lo4 |-> w4, lo6 |-> w6, pdLo |-> wp, fwd |-> b.fwd,
             narrow |-> wn, prohibit |-> wr]
        BY <1>4
  <2> HIDE DEF b, w4, w6, wp, wn, wr, d
  <2>5. d \in Book
        BY <2>1, <2>2, <2>3, <2>4 DEF Book
  <2>6. /\ d.lo4 = w4 /\ d.lo6 = w6 /\ d.pdLo = wp /\ d.fwd = b.fwd
        /\ d.narrow = wn /\ d.prohibit = wr
        BY <2>4
  <2> QED BY <2>5, <2>6 DEF b, d, w4, w6, wp, wn, wr
<1>6. IsBooks(c, j) /\ j.policy
      BY <1>3, <1>5 DEF Ready, IsBooks
<1>7. WithinConfig(c, j)
      BY <1>1, <1>2, <1>5 DEF Ready, WithinConfig
<1>8. UpToDate(c, e, j)
      BY <1>1, <1>2, <1>5 DEF Ready, WithinConfig, UpToDate
<1> QED BY <1>5, <1>6, <1>7, <1>8 DEF Ready, j

\* Bookkeeping without an entry goes with a kernel without a rule.
LEMMA NothingInstalled ==
    ASSUME NEW c \in Files, Accepts(c), NEW i, ~i.policy,
           \A name \in Configured(c) : i.links[name] = Empty
    PROVE  /\ Mirror4(c, i) = [p \in Priorities |-> << >>]
           /\ Mirror6(c, i) = [p \in Priorities |-> << >>]
<1>1. ASSUME NEW s \in Slots4(Layout(c)) PROVE Rules4(c, i, s) = << >>
  <2>1. CASE s = << "internal", 0 >> \/ s = << "fwd_to_wan", 0 >>
        BY <2>1 DEF Rules4, If
  <2>2. ASSUME NEW u \in Uplinks(Layout(c)), s = << "lo", u >>
        PROVE  Rules4(c, i, s) = << >>
        BY <2>2, IndexOfName DEF Rules4, If, Empty
  <2> QED BY <2>1, <2>2, Forms4
<1>2. ASSUME NEW s \in Slots6(Layout(c)) PROVE Rules6(c, i, s) = << >>
  <2>1. CASE s = << "internal", 0, 0 >>
        BY <2>1 DEF Rules6, If
  <2>2. ASSUME NEW u \in Uplinks(Layout(c)), s[2] = u,
               s[1] \in {"fwd", "reject", "lo", "pd_lo"}
        PROVE  Rules6(c, i, s) = << >>
        BY <2>2, IndexOfName DEF Rules6, If, Empty
  <2> QED BY <2>1, <2>2, Forms6
<1>3. \A p : At4(c, i, p) = << >>
      BY <1>1 DEF At4, SlotsAt4
<1>4. \A p : At6(c, i, p) = << >>
      BY <1>2 DEF At6, SlotsAt6
<1> QED BY <1>3, <1>4 DEF Mirror4, Mirror6

LEMMA TeardownEmpties ==
    ASSUME NEW c \in Files, Accepts(c), NEW i, Ready(c, i)
    PROVE  LET j == TeardownBooks(c, i)
           IN  ~j.policy /\ \A name \in Configured(c) : j.links[name] = Empty
<1>1. ASSUME NEW name \in Configured(c), ~HasPd(c, name)
      PROVE  [i.links[name] EXCEPT !.lo4 = FALSE] = Empty
  <2> DEFINE b == i.links[name]
  <2>1. b \in Book
        BY DEF Ready, IsBooks
  <2>2. ~b.lo6 /\ ~b.pdLo /\ ~b.fwd /\ ~b.narrow /\ ~b.prohibit
        BY <1>1 DEF Ready, WithinConfig
  <2> HIDE DEF b
  <2>3. [b EXCEPT !.lo4 = FALSE] \in Book
        BY <2>1 DEF Book
  <2> DEFINE d == [b EXCEPT !.lo4 = FALSE]
  <2>4. ~d.lo4 /\ ~d.lo6 /\ ~d.pdLo /\ ~d.fwd /\ ~d.narrow /\ ~d.prohibit
        BY <2>1, <2>2 DEF Book
  <2>5. d = Empty
    <3> HIDE DEF d
    <3> QED BY <2>3, <2>4, EmptyBook DEF d
  <2> QED BY <2>5 DEF b
<1> QED BY <1>1 DEF TeardownBooks, Books, HasPd

-----------------------------------------------------------------------------
(***************************************************************************)
(* The passes keep the kernel in step with the bookkeeping.                *)
(***************************************************************************)

NoRules == [p \in Priorities |-> << >>]

InStep(c, s) == s.k4 = Mirror4(c, s.inst) /\ s.k6 = Mirror6(c, s.inst)

LEMMA ReconcileKeepsStep ==
    ASSUME NEW c \in Files, Accepts(c), NamesValidated, NEW e, NEW s,
           Ready(c, s.inst), InStep(c, s)
    PROVE  LET r == ReconcileAll(c, e, s)
           IN  Ready(c, r.inst) /\ UpToDate(c, e, r.inst) /\ InStep(c, r)
<1> DEFINE j == ReconcileBooks(c, e, s.inst)
<1>1. Ready(c, j) /\ UpToDate(c, e, j)
      BY ReconcileIsUpToDate
<1>2. WithinConfig(c, s.inst) /\ WithinConfig(c, j)
      BY <1>1 DEF Ready
<1>3. \A t \in Slots6(Layout(c)) \ Slots6Done(c) :
        Rules6(c, s.inst, t) = << >> /\ Rules6(c, j, t) = << >>
      BY <1>2, SkippedSlots
<1> HIDE DEF j
<1>4. LET r == Turn(c, Slots6Done(c), s, j)
      IN  r.inst = j /\ InStep(c, r)
      BY <1>3, TurnMirrors DEF InStep
<1> QED BY <1>1, <1>4 DEF ReconcileAll, j

LEMMA SetupKeepsStep ==
    ASSUME NEW c \in Files, Accepts(c), NEW s, s.k4 = NoRules, s.k6 = NoRules,
           s = [inst |-> s.inst, k4 |-> s.k4, k6 |-> s.k6]
    PROVE  LET r == SetupAll(c, s) IN Ready(c, r.inst) /\ InStep(c, r)
<1> DEFINE t == [s EXCEPT !.inst = Fresh(c)]
<1>1. t.inst = Fresh(c) /\ t.k4 = s.k4 /\ t.k6 = s.k6
  <2>1. t = [inst |-> Fresh(c), k4 |-> s.k4, k6 |-> s.k6]
        OBVIOUS
  <2> QED BY <2>1
<1>2. Mirror4(c, Fresh(c)) = NoRules /\ Mirror6(c, Fresh(c)) = NoRules
      BY SetupIsReady, NothingInstalled DEF NoRules
<1> HIDE DEF t
<1>3. LET r == Turn(c, Slots6(Layout(c)), t, SetupBooks(c))
      IN  r.inst = SetupBooks(c) /\ InStep(c, r)
      BY <1>1, <1>2, TurnMirrors DEF InStep
<1> QED BY <1>3, SetupIsReady DEF SetupAll, t

LEMMA TeardownLeavesNothing ==
    ASSUME NEW c \in Files, Accepts(c), NamesValidated, NEW s,
           Ready(c, s.inst), InStep(c, s)
    PROVE  LET r == TeardownAll(c, s) IN r.k4 = NoRules /\ r.k6 = NoRules
<1> DEFINE j == TeardownBooks(c, s.inst)
<1>1. ~j.policy /\ \A name \in Configured(c) : j.links[name] = Empty
      BY TeardownEmpties
<1>2. WithinConfig(c, s.inst) /\ WithinConfig(c, j)
      BY <1>1 DEF Ready, WithinConfig, Empty
<1>3. \A t \in Slots6(Layout(c)) \ Slots6Done(c) :
        Rules6(c, s.inst, t) = << >> /\ Rules6(c, j, t) = << >>
      BY <1>2, SkippedSlots
<1>4. Mirror4(c, j) = NoRules /\ Mirror6(c, j) = NoRules
      BY <1>1, NothingInstalled DEF NoRules
<1> HIDE DEF j
<1>5. LET r == Turn(c, Slots6Done(c), s, j)
      IN  r.k4 = NoRules /\ r.k6 = NoRules
      BY <1>3, <1>4, TurnMirrors DEF InStep
<1> QED BY <1>5 DEF TeardownAll, j

Here == [wan |-> wan, pd |-> pd, up |-> up]

\* The inductive invariant: the bookkeeping is what the state files and the
\* health call for, and the kernel holds exactly its rules, at their
\* priorities.
InvTopology ==
    /\ cfg \in Files \cup {Unset}
    /\ cfg # Unset => /\ Accepts(cfg)
                      /\ Ready(cfg, inst)
                      /\ UpToDate(cfg, Here, inst)
                      /\ InStep(cfg, Now)
    /\ cfg = Unset => k4 = NoRules /\ k6 = NoRules

LEMMA TopologyInit == Init => InvTopology
BY DEF Init, InvTopology, NoRules

\* What a load makes of a kernel without rules.
LEMMA LoadInv ==
    ASSUME NEW f \in Files, Accepts(f), NamesValidated, NEW s,
           s.k4 = NoRules, s.k6 = NoRules,
           s = [inst |-> s.inst, k4 |-> s.k4, k6 |-> s.k6],
           UNCHANGED << wan, pd >>, Load(f),
           Become(ReconcileAll(f, Optimistic(f), SetupAll(f, s)))
    PROVE  InvTopology'
<1> DEFINE r == ReconcileAll(f, Optimistic(f), SetupAll(f, s))
<1>1. Ready(f, SetupAll(f, s).inst) /\ InStep(f, SetupAll(f, s))
      BY SetupKeepsStep
<1>2. /\ Ready(f, r.inst) /\ UpToDate(f, Optimistic(f), r.inst)
      /\ InStep(f, r)
      BY <1>1, ReconcileKeepsStep
<1> HIDE DEF r
<1>3. inst' = r.inst /\ k4' = r.k4 /\ k6' = r.k6
      BY DEF Become, r
<1>4. cfg' = f /\ f # Unset /\ up' = Configured(f)
      BY FilesAssumption DEF Load
<1>5. Here' = Optimistic(f)
      BY <1>4 DEF Here, Optimistic
<1>6. InStep(f, Now')
      BY <1>2, <1>3 DEF Now, InStep, Mirror4, Mirror6
<1> QED BY <1>2, <1>3, <1>4, <1>5, <1>6 DEF InvTopology

LEMMA StartKeeps ==
    ASSUME NamesValidated, InvTopology, Start
    PROVE  InvTopology'
<1>1. PICK f \in Files :
        /\ Load(f)
        /\ Become(ReconcileAll(f, Optimistic(f), SetupAll(f, Now)))
      BY DEF Start
<1>2. Now = [inst |-> Now.inst, k4 |-> Now.k4, k6 |-> Now.k6]
      BY DEF Now
<1>3. Now.k4 = NoRules /\ Now.k6 = NoRules
      BY DEF Start, InvTopology, Now
<1> QED BY <1>1, <1>2, <1>3, LoadInv DEF Start, Load

LEMMA ChangeKeeps ==
    ASSUME NamesValidated, InvTopology, Change
    PROVE  InvTopology'
<1>1. CASE cfg = Unset
      BY <1>1 DEF Change, InvTopology
<1>2. CASE cfg # Unset
  <2> DEFINE r == ReconcileAll(cfg, [wan |-> wan', pd |-> pd', up |-> up'], Now)
  <2>1. Become(r) /\ cfg' = cfg
        BY <1>2 DEF Change
  <2>2. cfg \in Files /\ Accepts(cfg) /\ Ready(cfg, Now.inst) /\ InStep(cfg, Now)
        BY <1>2 DEF InvTopology, Now
  <2>3. /\ Ready(cfg, r.inst)
        /\ UpToDate(cfg, [wan |-> wan', pd |-> pd', up |-> up'], r.inst)
        /\ InStep(cfg, r)
        BY <2>2, ReconcileKeepsStep
  <2> HIDE DEF r
  <2>4. inst' = r.inst /\ k4' = r.k4 /\ k6' = r.k6
        BY <2>1 DEF Become
  <2>5. InStep(cfg, Now')
        BY <2>3, <2>4 DEF Now, InStep, Mirror4, Mirror6
  <2> QED BY <1>2, <2>1, <2>2, <2>3, <2>4, <2>5 DEF InvTopology, Here
<1> QED BY <1>1, <1>2

LEMMA ReloadKeeps ==
    ASSUME NamesValidated, InvTopology, Reload
    PROVE  InvTopology'
<1>1. PICK f \in Files :
        /\ Load(f)
        /\ Become(ReconcileAll(f, Optimistic(f), SetupAll(f, UndoAll(cfg, f))))
      BY DEF Reload
<1>2. cfg \in Files /\ Accepts(cfg) /\ Ready(cfg, Now.inst) /\ InStep(cfg, Now)
      BY DEF Reload, InvTopology, Now
<1>3. UndoAll(cfg, f) = TeardownAll(cfg, Now)
      BY DEF UndoAll
<1> DEFINE s == UndoAll(cfg, f)
<1>4. s.k4 = NoRules /\ s.k6 = NoRules
      BY <1>2, <1>3, TeardownLeavesNothing
<1>5. s = [inst |-> s.inst, k4 |-> s.k4, k6 |-> s.k6]
      BY <1>3 DEF TeardownAll, Turn
<1> HIDE DEF s
<1> QED BY <1>1, <1>4, <1>5, LoadInv DEF Reload, Load, s

LEMMA StopKeeps ==
    ASSUME NamesValidated, InvTopology, Stop
    PROVE  InvTopology'
<1>1. cfg \in Files /\ Accepts(cfg) /\ Ready(cfg, Now.inst) /\ InStep(cfg, Now)
      BY DEF Stop, InvTopology, Now
<1>2. TeardownAll(cfg, Now).k4 = NoRules /\ TeardownAll(cfg, Now).k6 = NoRules
      BY <1>1, TeardownLeavesNothing
<1> QED BY <1>2 DEF Stop, InvTopology, NoRules

THEOREM TopologyInductive ==
    ASSUME NamesValidated
    PROVE  Spec => []InvTopology
<1>1. ASSUME InvTopology, [Next]_vars PROVE InvTopology'
  <2>1. CASE Next
        BY <1>1, <2>1, StartKeeps, ChangeKeeps, ReloadKeeps, StopKeeps DEF Next
  <2>2. CASE UNCHANGED vars
        BY <1>1, <2>2 DEF vars, InvTopology, Here, Now, InStep, NoRules, Mirror4,
           Mirror6
  <2> QED BY <1>1, <2>1, <2>2
<1> QED BY <1>1, TopologyInit, PTL DEF Spec

\* daemon.py:664: after _teardown_all no rule is left, under whatever sequence
\* of configurations, leases, prefixes and health.
THEOREM NothingIsLeft ==
    ASSUME NamesValidated
    PROVE  Spec => []TeardownRemovesAll
<1>1. InvTopology => TeardownRemovesAll
      BY DEF InvTopology, TeardownRemovesAll, Running, NoRules
<1> QED BY <1>1, TopologyInductive, PTL

-----------------------------------------------------------------------------
(***************************************************************************)
(* Which way packets go.                                                   *)
(***************************************************************************)

LEMMA LeastIs ==
    ASSUME NEW S \in SUBSET Nat, NEW x \in S, \A y \in S : x =< y
    PROVE  Min(S) = x
<1> DEFINE z == CHOOSE w \in S : \A y \in S : w =< y
<1>1. z \in S /\ \A y \in S : z =< y
      OBVIOUS
<1>2. Min(S) = z
      BY DEF Min
<1> HIDE DEF z
<1>3. z =< x /\ x =< z /\ z \in Nat /\ x \in Nat
      BY <1>1
<1> QED BY <1>2, <1>3

\* The first rule that matches decides.
LEMMA FirstRuleDecides ==
    ASSUME NEW k, DOMAIN k \subseteq Nat, NEW packet, NEW p \in DOMAIN k, NEW r,
           k[p] = << r >>, Matches(r, packet),
           \A q \in DOMAIN k : \A i \in DOMAIN k[q] :
               Matches(k[q][i], packet) => p =< q
    PROVE  Way(k, packet) = r.act
<1> DEFINE Hits(q) == {i \in DOMAIN k[q] : Matches(k[q][i], packet)}
           places == {q \in DOMAIN k : Hits(q) # {}}
<1>1. p \in places /\ places \subseteq Nat
      OBVIOUS
<1>2. \A q \in places : p =< q
      OBVIOUS
<1>3. Hits(p) = {1}
  <2>1. DOMAIN k[p] = {1} /\ k[p][1] = r
        OBVIOUS
  <2> QED BY <2>1
<1>4. Way(k, packet) = IF places = {} THEN Lookup(MainTable)
                       ELSE k[Min(places)][Min(Hits(Min(places)))].act
      BY DEF Way
<1> HIDE DEF Hits, places
<1>5. Min(places) = p
      BY <1>1, <1>2, LeastIs
<1>6. Min(Hits(p)) = 1
      BY <1>3, LeastIs
<1>7. k[p][1] = r
      OBVIOUS
<1> QED BY <1>1, <1>4, <1>5, <1>6, <1>7

LEMMA NoRuleDecides ==
    ASSUME NEW k, NEW packet,
           \A q \in DOMAIN k : \A i \in DOMAIN k[q] : ~Matches(k[q][i], packet)
    PROVE  Way(k, packet) = Lookup(MainTable)
BY DEF Way

\* Every slot has its priority to itself.
LEMMA SlotHasRule6 ==
    ASSUME NEW c \in Files, NEW i, NEW s \in Slots6(Layout(c))
    PROVE  /\ Priority6(Layout(c), s) \in Priorities
           /\ At6(c, i, Priority6(Layout(c), s)) = Rules6(c, i, s)
<1>1. IsLayout(Layout(c))
      BY FilesAssumption DEF IsLayout, Layout
<1>2. SlotsAt6(c, Priority6(Layout(c), s)) = {s}
  <2>1. \A t \in Slots6(Layout(c)) :
          Priority6(Layout(c), t) = Priority6(Layout(c), s) => t = s
        BY <1>1, Priorities6Distinct
  <2> QED BY <2>1 DEF SlotsAt6
<1> QED BY <1>2 DEF At6, Priorities

LEMMA SlotHasRule4 ==
    ASSUME NEW c \in Files, NEW i, NEW s \in Slots4(Layout(c))
    PROVE  /\ Priority4(Layout(c), s) \in Priorities
           /\ At4(c, i, Priority4(Layout(c), s)) = Rules4(c, i, s)
<1>1. IsLayout(Layout(c))
      BY FilesAssumption DEF IsLayout, Layout
<1>2. SlotsAt4(c, Priority4(Layout(c), s)) = {s}
  <2>1. \A t \in Slots4(Layout(c)) :
          Priority4(Layout(c), t) = Priority4(Layout(c), s) => t = s
        BY <1>1, Priorities4Distinct
  <2> QED BY <2>1 DEF SlotsAt4
<1> QED BY <1>2 DEF At4, Priorities

LEMMA PrioritiesAreNumbers == Priorities \subseteq Nat
<1> SUFFICES ASSUME NEW f \in Files
             PROVE  /\ \A s \in Slots4(Layout(f)) : Priority4(Layout(f), s) \in Nat
                    /\ \A s \in Slots6(Layout(f)) : Priority6(Layout(f), s) \in Nat
    BY DEF Priorities
<1> DEFINE l == Layout(f)
<1>1. IsLayout(l)
      BY FilesAssumption DEF IsLayout, Layout
<1> HIDE DEF l
<1>2. ASSUME NEW s \in Slots6(l) PROVE Priority6(l, s) \in Nat
  <2>1. \/ s = << "internal", 0, 0 >>
        \/ \E u \in Uplinks(l), n \in Networks(l) :
             s = << "fwd", u, n >> \/ s = << "reject", u, n >>
        \/ \E u \in Uplinks(l) : s = << "lo", u, 0 >> \/ s = << "pd_lo", u, 0 >>
        BY Forms6 DEF l
  <2>2. /\ \A u \in Uplinks(l), n \in Networks(l) :
             u \in Nat /\ n \in Nat /\ u * l.networks \in Nat
        /\ l.uplinks * l.networks \in Nat
        BY <1>1 DEF Uplinks, Networks, IsLayout
  <2>3. \A u \in Uplinks(l) : u \in Nat
        BY <1>1 DEF Uplinks, IsLayout
  <2>4. CASE s = << "internal", 0, 0 >>
        BY <1>1, <2>4 DEF Priority6, ipv6_internal_traffic_priority, IsLayout
  <2>5. ASSUME NEW u \in Uplinks(l), NEW n \in Networks(l),
               s = << "fwd", u, n >> \/ s = << "reject", u, n >>
        PROVE  Priority6(l, s) \in Nat
        BY <1>1, <2>2, <2>5 DEF Priority6, ipv6_fwd_to_uplink_priority,
           ipv6_reject_wrong_pd_src_priority, PairCount, IsLayout
  <2>6. ASSUME NEW u \in Uplinks(l),
               s = << "lo", u, 0 >> \/ s = << "pd_lo", u, 0 >>
        PROVE  Priority6(l, s) \in Nat
        BY <1>1, <2>2, <2>3, <2>6 DEF Priority6, ipv6_lo_to_uplink_priority,
           ipv6_pd_lo_to_uplink_priority, PairCount, IsLayout
  <2> QED BY <2>1, <2>4, <2>5, <2>6
<1>3. ASSUME NEW s \in Slots4(l) PROVE Priority4(l, s) \in Nat
  <2>1. \/ s = << "internal", 0 >> \/ s = << "fwd_to_wan", 0 >>
        \/ \E u \in Uplinks(l) : s = << "lo", u >> /\ u \in Nat
        BY <1>1, Forms4 DEF l, Uplinks, IsLayout
  <2> QED BY <1>1, <2>1 DEF Priority4, ipv4_internal_traffic_priority,
             ipv4_fwd_to_wan_priority, ipv4_lo_to_uplink_priority, IsLayout
<1> QED BY <1>2, <1>3 DEF l

\* The way of a packet, by the slots whose rules match it.
LEMMA WayBySlot6 ==
    ASSUME NEW c \in Files, NEW i, NEW packet, NEW s \in Slots6(Layout(c)),
           NEW r, Rules6(c, i, s) = << r >>, Matches(r, packet),
           \A t \in Slots6(Layout(c)) : \A x :
               Rules6(c, i, t) = << x >> /\ Matches(x, packet) =>
                 Priority6(Layout(c), s) =< Priority6(Layout(c), t)
    PROVE  Way(Mirror6(c, i), packet) = r.act
<1> DEFINE k == Mirror6(c, i)
           p == Priority6(Layout(c), s)
<1>1. DOMAIN k = Priorities /\ \A q \in Priorities : k[q] = At6(c, i, q)
      BY DEF Mirror6
<1>2. p \in DOMAIN k /\ k[p] = << r >>
      BY <1>1, SlotHasRule6
<1>3. ASSUME NEW q \in DOMAIN k, NEW n \in DOMAIN k[q], Matches(k[q][n], packet)
      PROVE  p =< q
  <2>1. PICK x : k[q] = << x >>
        BY <1>1, OneRule6
  <2>2. Matches(x, packet)
        BY <1>3, <2>1
  <2>3. SlotsAt6(c, q) # {}
        BY <1>1, <2>1 DEF At6
  <2>4. PICK t \in Slots6(Layout(c)) : Priority6(Layout(c), t) = q
        BY <2>3 DEF SlotsAt6
  <2>5. Rules6(c, i, t) = << x >>
        BY <1>1, <2>1, <2>4, SlotHasRule6
  <2> QED BY <2>2, <2>4, <2>5
<1> HIDE DEF k, p
<1>4. DOMAIN k \subseteq Nat
      BY <1>1, PrioritiesAreNumbers
<1>5. Way(k, packet) = r.act
      BY <1>2, <1>3, <1>4, FirstRuleDecides
<1> QED BY <1>5 DEF k

LEMMA NoWayBySlot6 ==
    ASSUME NEW c \in Files, NEW i, NEW packet,
           \A t \in Slots6(Layout(c)) : \A x :
               Rules6(c, i, t) = << x >> => ~Matches(x, packet)
    PROVE  Way(Mirror6(c, i), packet) = Lookup(MainTable)
<1> DEFINE k == Mirror6(c, i)
<1>1. DOMAIN k = Priorities /\ \A q \in Priorities : k[q] = At6(c, i, q)
      BY DEF Mirror6
<1>2. ASSUME NEW q \in DOMAIN k, NEW n \in DOMAIN k[q]
      PROVE  ~Matches(k[q][n], packet)
  <2>1. PICK x : k[q] = << x >>
        BY <1>1, OneRule6
  <2>2. SlotsAt6(c, q) # {}
        BY <1>1, <2>1 DEF At6
  <2>3. PICK t \in Slots6(Layout(c)) : Priority6(Layout(c), t) = q
        BY <2>2 DEF SlotsAt6
  <2>4. Rules6(c, i, t) = << x >>
        BY <1>1, <2>1, <2>3, SlotHasRule6
  <2>5. k[q][n] = x
        BY <2>1
  <2> QED BY <2>4, <2>5
<1> HIDE DEF k
<1>3. Way(k, packet) = Lookup(MainTable)
      BY <1>2, NoRuleDecides
<1> QED BY <1>3 DEF k

LEMMA WayBySlot4 ==
    ASSUME NEW c \in Files, NEW i, NEW packet, NEW s \in Slots4(Layout(c)),
           NEW r, Rules4(c, i, s) = << r >>, Matches(r, packet),
           \A t \in Slots4(Layout(c)) : \A x :
               Rules4(c, i, t) = << x >> /\ Matches(x, packet) =>
                 Priority4(Layout(c), s) =< Priority4(Layout(c), t)
    PROVE  Way(Mirror4(c, i), packet) = r.act
<1> DEFINE k == Mirror4(c, i)
           p == Priority4(Layout(c), s)
<1>1. DOMAIN k = Priorities /\ \A q \in Priorities : k[q] = At4(c, i, q)
      BY DEF Mirror4
<1>2. p \in DOMAIN k /\ k[p] = << r >>
      BY <1>1, SlotHasRule4
<1>3. ASSUME NEW q \in DOMAIN k, NEW n \in DOMAIN k[q], Matches(k[q][n], packet)
      PROVE  p =< q
  <2>1. PICK x : k[q] = << x >>
        BY <1>1, OneRule4
  <2>2. Matches(x, packet)
        BY <1>3, <2>1
  <2>3. SlotsAt4(c, q) # {}
        BY <1>1, <2>1 DEF At4
  <2>4. PICK t \in Slots4(Layout(c)) : Priority4(Layout(c), t) = q
        BY <2>3 DEF SlotsAt4
  <2>5. Rules4(c, i, t) = << x >>
        BY <1>1, <2>1, <2>4, SlotHasRule4
  <2> QED BY <2>2, <2>4, <2>5
<1> HIDE DEF k, p
<1>4. DOMAIN k \subseteq Nat
      BY <1>1, PrioritiesAreNumbers
<1>5. Way(k, packet) = r.act
      BY <1>2, <1>3, <1>4, FirstRuleDecides
<1> QED BY <1>5 DEF k

\* Two strings, a string and an index, and a name alone are not alike.
LEMMA SourcesApart ==
    /\ \A a, b : << "pd", a >> # << "wan", b >>
    /\ \A a, b : Lo # << a, b >>
    /\ Lo # << "lan" >>
    /\ \A a : Lookup(a) # << "suppress", 0 >>
    /\ Prohibit # << "suppress", 0 >>
<1>1. ASSUME NEW a, NEW b PROVE Lo # << a, b >>
  <2>1. Len(Lo) = 1 /\ Len(<< a, b >>) = 2
        BY DEF Lo
  <2> QED BY <2>1
<1> QED BY <1>1 DEF Lo, Lookup, Prohibit

\* The rules an uplink's own slots hold, and what they match.
LEMMA MacvlanRules ==
    ASSUME NEW c \in Files, Accepts(c), NamesValidated, NEW i, Ready(c, i),
           NEW m \in MacvlanPairs(c), NEW v \in Names,
           NEW t \in Slots6(Layout(c)), NEW x, Rules6(c, i, t) = << x >>,
           Matches(x, Packet(<< "pd", v >>, macvlan_name(c, m[1], m[2])))
    PROVE  t \in {<< "fwd", m[2], m[1] >>, << "reject", m[2], m[1] >>}
<1> DEFINE mv == macvlan_name(c, m[1], m[2])
<1>1. /\ x.from \in {NoFrom, << "pd", v >>} /\ x.iif \in {NoFrom, mv}
      /\ x # InternalTraffic
      BY DEF Matches, Packet
<1>2. Lo # mv /\ Lo # NoFrom
      BY NoFromAssumption, SourcesApart DEF macvlan_name
<1>3. CASE t = << "internal", 0, 0 >>
  <2>1. << x >> = If(i.policy, InternalTraffic)
        BY <1>3 DEF Rules6
  <2> QED BY <1>1, <2>1 DEF If
<1>4. ASSUME NEW u \in Uplinks(Layout(c)),
             t = << "lo", u, 0 >> \/ t = << "pd_lo", u, 0 >>
      PROVE  FALSE
  <2>1. x.iif = Lo
        BY <1>4 DEF Rules6, If, Rule
  <2> QED BY <1>1, <1>2, <2>1
<1>5. ASSUME NEW u \in Uplinks(Layout(c)), NEW n \in Networks(Layout(c)),
             t = << "fwd", u, n >> \/ t = << "reject", u, n >>
      PROVE  u = m[2] /\ n = m[1]
  <2> DEFINE name == Uplink(c, u).name
  <2>1. x.iif = macvlan_name(c, n, u)
        BY <1>5 DEF Rules6, If, Rule
  <2>2. i.links[name].fwd \/ i.links[name].prohibit
        BY <1>5 DEF Rules6, If
  <2>3. name \in Configured(c) /\ Index(c, name) = u
        BY IndexOfName
  <2>4. Uplink(c, u).pd
        BY <2>2, <2>3 DEF Ready, WithinConfig, HasPd
  <2>5. << n, u >> \in MacvlanPairs(c)
        BY <2>4 DEF MacvlanPairs, PdIndices, Uplink, Uplinks, Networks, Layout
  <2>6. macvlan_name(c, n, u) # NoFrom
        BY <2>5, NoFromAssumption
  <2>7. macvlan_name(c, n, u) = mv
        BY <1>1, <2>1, <2>6
  <2>8. << n, u >> = m
        BY <2>5, <2>7 DEF NamesValidated, validate_macvlan_names
  <2> QED BY <2>8
<1> QED BY <1>3, <1>4, <1>5, Forms6

\* The forwarding rule of a macvlan comes before the one that rejects.
LEMMA FwdBeforeReject ==
    ASSUME NEW c \in Files, NEW u \in Uplinks(Layout(c)),
           NEW n \in Networks(Layout(c))
    PROVE  LET l == Layout(c)
           IN  /\ << "fwd", u, n >> \in Slots6(l) /\ << "reject", u, n >> \in Slots6(l)
               /\ Priority6(l, << "fwd", u, n >>) \in Nat
               /\ Priority6(l, << "reject", u, n >>) \in Nat
               /\ Priority6(l, << "fwd", u, n >>) =<
                    Priority6(l, << "reject", u, n >>)
<1> DEFINE l == Layout(c)
           a == << "fwd", u, n >>
           b == << "reject", u, n >>
<1>1. IsLayout(l) /\ u \in Uplinks(l) /\ n \in Networks(l)
      BY FilesAssumption DEF IsLayout, Layout
<1>2. a \in Slots6(l) /\ b \in Slots6(l)
      BY DEF Slots6
<1>3. Priority6(l, a) \in Nat /\ Priority6(l, b) \in Nat
      BY <1>2, SlotHasRule6, PrioritiesAreNumbers
<1> HIDE DEF l
<1>4. /\ u \in Nat /\ n \in Nat /\ l.networks \in Nat /\ l.uplinks \in Nat
      /\ l.start \in Nat
      BY <1>1 DEF Uplinks, Networks, IsLayout
<1>5. u * l.networks \in Nat /\ PairCount(l) \in Nat
      BY <1>4 DEF PairCount
<1>6. Priority6(l, a) = l.start + 1 + u * l.networks + n
      BY DEF Priority6, ipv6_fwd_to_uplink_priority
<1>7. Priority6(l, b) =
        l.start + 1 + PairCount(l) + l.uplinks + u * l.networks + n
      BY DEF Priority6, ipv6_reject_wrong_pd_src_priority
<1>8. Priority6(l, a) =< Priority6(l, b)
      BY <1>4, <1>5, <1>6, <1>7
<1> QED BY <1>2, <1>3, <1>8 DEF l

LEMMA ClientsWay ==
    ASSUME NEW c \in Files, Accepts(c), NamesValidated, NEW i, Ready(c, i),
           NEW e, UpToDate(c, e, i), NEW m \in MacvlanPairs(c), NEW v \in Names
    PROVE  LET u == m[2]
               own == Uplink(c, u).name
               way == Way(Mirror6(c, i),
                          Packet(<< "pd", v >>, macvlan_name(c, m[1], u)))
           IN  IF c.reject /\ own \in e.pd /\ v # own THEN way = Prohibit
               ELSE \/ way = Lookup(Table(c, u))
                    \/ c.reject /\ v # own /\ way = Lookup(MainTable)
<1> DEFINE u == m[2]
           n == m[1]
           own == Uplink(c, u).name
           mv == macvlan_name(c, n, u)
           packet == Packet(<< "pd", v >>, mv)
           b == i.links[own]
           l == Layout(c)
           fwd == Rule(IF b.narrow THEN << "pd", own >> ELSE NoFrom, mv,
                       Lookup(Table(c, u)))
           reject == Rule(NoFrom, mv, Prohibit)
<1>1. /\ u \in Uplinks(l) /\ n \in Networks(l) /\ m = << n, u >>
      /\ Uplink(c, u).pd
      BY DEF MacvlanPairs, PdIndices, Uplinks, Networks, Layout, Uplink
<1>2. own \in Configured(c) /\ Index(c, own) = u /\ own \in Names
      BY <1>1, IndexOfName, NameOfIndex
<1>3. HasPd(c, own)
      BY <1>1, <1>2 DEF HasPd
<1>4. /\ b \in Book /\ b.fwd /\ (b.narrow => c.reject)
      /\ b.prohibit = (own \in e.pd /\ c.reject)
      /\ own \in e.pd => b.narrow = c.reject
      BY <1>2, <1>3 DEF Ready, IsBooks, WithinConfig, UpToDate
<1>5. /\ Rules6(c, i, << "fwd", u, n >>) = << fwd >>
      /\ Rules6(c, i, << "reject", u, n >>) = If(b.prohibit, reject)
      BY <1>4 DEF Rules6, If
<1>6. /\ fwd.act = Lookup(Table(c, u)) /\ reject.act = Prohibit
      /\ Matches(reject, packet)
      /\ Matches(fwd, packet) <=> (~b.narrow \/ v = own)
  <2>1. fwd # InternalTraffic /\ reject # InternalTraffic
        BY SourcesApart DEF Rule, InternalTraffic
  <2>2. << "pd", own >> # NoFrom
        BY <1>2, NoFromAssumption
  <2>3. << "pd", own >> = << "pd", v >> <=> v = own
        OBVIOUS
  <2>4. fwd.iif = mv /\ fwd.from = (IF b.narrow THEN << "pd", own >> ELSE NoFrom)
        BY DEF Rule
  <2> HIDE DEF fwd
  <2>5. Matches(fwd, packet) <=> (~b.narrow \/ v = own)
        BY <2>1, <2>2, <2>3, <2>4 DEF Matches, Packet
  <2> QED BY <2>1, <2>5 DEF Rule, Matches, Packet, fwd
<1>7. \A t \in Slots6(l) : \A x : Rules6(c, i, t) = << x >> /\ Matches(x, packet) =>
        t \in {<< "fwd", u, n >>, << "reject", u, n >>}
      BY MacvlanRules
<1>8. /\ << "fwd", u, n >> \in Slots6(l) /\ << "reject", u, n >> \in Slots6(l)
      /\ Priority6(l, << "fwd", u, n >>) \in Nat
      /\ Priority6(l, << "reject", u, n >>) \in Nat
      /\ Priority6(l, << "fwd", u, n >>) =< Priority6(l, << "reject", u, n >>)
      BY <1>1, FwdBeforeReject
<1> HIDE DEF fwd, reject, packet, b, own, u, n
<1>9. CASE ~b.narrow \/ v = own
  <2>1. \A t \in Slots6(l) : \A x :
          Rules6(c, i, t) = << x >> /\ Matches(x, packet) =>
            Priority6(l, << "fwd", u, n >>) =< Priority6(l, t)
        BY <1>7, <1>8
  <2>2. Way(Mirror6(c, i), packet) = Lookup(Table(c, u))
        BY <1>5, <1>6, <1>8, <1>9, <2>1, WayBySlot6
  <2>3. ~(c.reject /\ own \in e.pd /\ v # own)
        BY <1>4, <1>9
  <2> QED BY <2>2, <2>3 DEF packet, own, u, n
<1>10. CASE b.narrow /\ v # own /\ own \in e.pd
  <2>1. Rules6(c, i, << "reject", u, n >>) = << reject >>
        BY <1>4, <1>5, <1>10 DEF If
  <2>2. \A t \in Slots6(l) : \A x :
          Rules6(c, i, t) = << x >> /\ Matches(x, packet) =>
            t = << "reject", u, n >>
    <3> SUFFICES ASSUME NEW t \in Slots6(l), NEW x, Rules6(c, i, t) = << x >>,
                        Matches(x, packet), t = << "fwd", u, n >>
                 PROVE  FALSE
        BY <1>7
    <3>1. x = fwd
          BY <1>5
    <3> QED BY <1>6, <1>10, <3>1
  <2>3. Way(Mirror6(c, i), packet) = Prohibit
        BY <1>6, <1>8, <2>1, <2>2, WayBySlot6
  <2> QED BY <1>4, <1>10, <2>3 DEF packet, own, u, n
<1>11. CASE b.narrow /\ v # own /\ own \notin e.pd
  <2>1. \A t \in Slots6(l) : \A x :
          Rules6(c, i, t) = << x >> => ~Matches(x, packet)
    <3> SUFFICES ASSUME NEW t \in Slots6(l), NEW x, Rules6(c, i, t) = << x >>,
                        Matches(x, packet)
                 PROVE  FALSE
        OBVIOUS
    <3>1. CASE t = << "fwd", u, n >>
      <4>1. x = fwd
            BY <1>5, <3>1
      <4> QED BY <1>6, <1>11, <4>1
    <3>2. CASE t = << "reject", u, n >>
      <4>1. ~b.prohibit
            BY <1>4, <1>11
      <4>2. Rules6(c, i, t) = << >>
            BY <1>5, <3>2, <4>1 DEF If
      <4> QED BY <4>2
    <3> QED BY <1>7, <3>1, <3>2
  <2>2. Way(Mirror6(c, i), packet) = Lookup(MainTable)
        BY <2>1, NoWayBySlot6
  <2> QED BY <1>4, <1>11, <2>2 DEF packet, own, u, n
<1> QED BY <1>9, <1>10, <1>11

\* What comes in on a macvlan leaves by the uplink of that macvlan, or is
\* refused, for any number of uplinks and networks and after any sequence of
\* reloads.  (daemon.py _reconcile_macvlan_rules, priority.py)
THEOREM ClientsAreServed ==
    ASSUME NamesValidated
    PROVE  Spec => []ClientsUseTheirUplink
<1>1. InvTopology => ClientsUseTheirUplink
  <2> SUFFICES ASSUME InvTopology, Running PROVE ClientsUseTheirUplink
      BY DEF ClientsUseTheirUplink
  <2>1. /\ cfg \in Files /\ Accepts(cfg) /\ Ready(cfg, inst)
        /\ UpToDate(cfg, Here, inst) /\ k6 = Mirror6(cfg, inst)
        BY DEF InvTopology, Running, InStep, Now
  <2>2. Macvlans \subseteq MacvlanPairs(cfg)
        BY DEF Macvlans, UplinkIndices, MacvlanPairs, PdIndices, Uplinks,
           Networks, Layout, Uplink
  <2>3. Here.pd = pd
        BY DEF Here
  <2> HIDE DEF Here
  <2>4. ASSUME NEW m \in Macvlans, NEW v \in Names
        PROVE  LET u == m[2]
                   own == Uplink(cfg, u).name
                   way == Way(k6, Packet(<< "pd", v >>,
                                         macvlan_name(cfg, m[1], u)))
               IN  IF cfg.reject /\ own \in pd /\ v # own THEN way = Prohibit
                   ELSE \/ way = Lookup(Table(cfg, u))
                        \/ cfg.reject /\ v # own /\ way = Lookup(MainTable)
        BY <2>1, <2>2, <2>3, ClientsWay
  <2> QED BY <2>4 DEF ClientsUseTheirUplink
<1> QED BY <1>1, TopologyInductive, PTL

\* The slot for what the host sends from an address of an uplink.
Kinds == {"wan", "pd"}
OwnSlot(kind, u) == IF kind = "wan" THEN << "lo", u, 0 >> ELSE << "pd_lo", u, 0 >>

\* What matches a packet of the host itself.
LEMMA OwnRules6 ==
    ASSUME NEW c \in Files, Accepts(c), NEW i, Ready(c, i),
           NEW v \in Names, NEW kind \in Kinds,
           NEW t \in Slots6(Layout(c)), NEW x, Rules6(c, i, t) = << x >>,
           Matches(x, Packet(<< kind, v >>, Lo))
    PROVE  \E u \in Uplinks(Layout(c)) :
             Uplink(c, u).name = v /\ t = OwnSlot(kind, u)
<1>1. /\ x.from \in {NoFrom, << kind, v >>} /\ x.iif \in {NoFrom, Lo}
      /\ x # InternalTraffic
      BY DEF Matches, Packet
<1>2. CASE t = << "internal", 0, 0 >>
  <2>1. << x >> = If(i.policy, InternalTraffic)
        BY <1>2 DEF Rules6
  <2> QED BY <1>1, <2>1 DEF If
<1>3. ASSUME NEW u \in Uplinks(Layout(c)), NEW n \in Networks(Layout(c)),
             t = << "fwd", u, n >> \/ t = << "reject", u, n >>
      PROVE  FALSE
  <2> DEFINE name == Uplink(c, u).name
  <2>1. x.iif = macvlan_name(c, n, u)
        BY <1>3 DEF Rules6, If, Rule
  <2>2. i.links[name].fwd \/ i.links[name].prohibit
        BY <1>3 DEF Rules6, If
  <2>3. name \in Configured(c) /\ Index(c, name) = u
        BY IndexOfName
  <2>4. Uplink(c, u).pd
        BY <2>2, <2>3 DEF Ready, WithinConfig, HasPd
  <2>5. << n, u >> \in MacvlanPairs(c)
        BY <2>4 DEF MacvlanPairs, PdIndices, Uplink, Uplinks, Networks, Layout
  <2>6. macvlan_name(c, n, u) # NoFrom
        BY <2>5, NoFromAssumption
  <2>7. macvlan_name(c, n, u) # Lo
        BY SourcesApart DEF macvlan_name
  <2> QED BY <1>1, <2>1, <2>6, <2>7
<1>4. ASSUME NEW u \in Uplinks(Layout(c)), t = << "lo", u, 0 >>
      PROVE  Uplink(c, u).name = v /\ kind = "wan"
  <2>1. x.from = << "wan", Uplink(c, u).name >>
        BY <1>4 DEF Rules6, If, Rule
  <2>2. x.from # NoFrom
        BY <2>1, IndexOfName, NameOfIndex, NoFromAssumption
  <2>3. << "wan", Uplink(c, u).name >> = << kind, v >>
        BY <1>1, <2>1, <2>2
  <2> QED BY <2>3
<1>5. ASSUME NEW u \in Uplinks(Layout(c)), t = << "pd_lo", u, 0 >>
      PROVE  Uplink(c, u).name = v /\ kind = "pd"
  <2>1. x.from = << "pd", Uplink(c, u).name >>
        BY <1>5 DEF Rules6, If, Rule
  <2>2. x.from # NoFrom
        BY <2>1, IndexOfName, NameOfIndex, NoFromAssumption
  <2>3. << "pd", Uplink(c, u).name >> = << kind, v >>
        BY <1>1, <2>1, <2>2
  <2> QED BY <2>3
<1> QED BY <1>2, <1>3, <1>4, <1>5, Forms6 DEF OwnSlot, Kinds

LEMMA OwnWay6 ==
    ASSUME NEW c \in Files, Accepts(c), NEW i, Ready(c, i), NEW e,
           UpToDate(c, e, i), NEW v \in Names, NEW kind \in Kinds
    PROVE  Way(Mirror6(c, i), Packet(<< kind, v >>, Lo)) =
             IF v \in Configured(c) /\ HasPd(c, v)
                /\ v \in (IF kind = "wan" THEN e.wan ELSE e.pd) \cap e.up
             THEN Lookup(Table(c, Index(c, v))) ELSE Lookup(MainTable)
<1> DEFINE u == Index(c, v)
           b == i.links[v]
           on == IF kind = "wan" THEN b.lo6 ELSE b.pdLo
           rule == Rule(<< kind, v >>, Lo, Lookup(Table(c, u)))
           packet == Packet(<< kind, v >>, Lo)
           l == Layout(c)
           usable == v \in (IF kind = "wan" THEN e.wan ELSE e.pd) \cap e.up
<1>1. \A t \in Slots6(l) : \A x : Rules6(c, i, t) = << x >> /\ Matches(x, packet) =>
        v \in Configured(c) /\ t = OwnSlot(kind, u)
  <2> SUFFICES ASSUME NEW t \in Slots6(l), NEW x, Rules6(c, i, t) = << x >>,
                      Matches(x, packet)
               PROVE  v \in Configured(c) /\ t = OwnSlot(kind, u)
      OBVIOUS
  <2>1. PICK w \in Uplinks(l) : Uplink(c, w).name = v /\ t = OwnSlot(kind, w)
        BY OwnRules6
  <2>2. v \in Configured(c) /\ u = w
        BY <2>1, IndexOfName
  <2> QED BY <2>1, <2>2
<1>2. ASSUME v \in Configured(c)
      PROVE  /\ u \in Uplinks(l) /\ OwnSlot(kind, u) \in Slots6(l)
             /\ Rules6(c, i, OwnSlot(kind, u)) = If(on, rule)
             /\ on <=> HasPd(c, v) /\ usable
  <2>1. u \in Uplinks(l) /\ Uplink(c, u).name = v
        BY <1>2, NameOfIndex
  <2>2. OwnSlot(kind, u) \in Slots6(l)
        BY <2>1 DEF Slots6, OwnSlot, Kinds
  <2>3. Rules6(c, i, OwnSlot(kind, u)) = If(on, rule)
        BY <2>1 DEF Rules6, OwnSlot, Kinds
  <2>4. on <=> HasPd(c, v) /\ usable
        BY <1>2 DEF UpToDate
  <2> QED BY <2>1, <2>2, <2>3, <2>4
<1>3. Matches(rule, packet) /\ rule.act = Lookup(Table(c, u))
      BY SourcesApart DEF Matches, Packet, Rule, InternalTraffic
<1> HIDE DEF u, b, on, rule, packet, usable
<1>4. CASE v \in Configured(c) /\ HasPd(c, v) /\ usable
  <2>1. Rules6(c, i, OwnSlot(kind, u)) = << rule >>
        BY <1>2, <1>4 DEF If
  <2>2. Priority6(l, OwnSlot(kind, u)) \in Nat
        BY <1>2, <1>4, SlotHasRule6, PrioritiesAreNumbers
  <2>3. Way(Mirror6(c, i), packet) = Lookup(Table(c, u))
        BY <1>1, <1>2, <1>3, <1>4, <2>1, <2>2, WayBySlot6
  <2> QED BY <1>4, <2>3 DEF packet, u, usable
<1>5. CASE ~(v \in Configured(c) /\ HasPd(c, v) /\ usable)
  <2>1. \A t \in Slots6(l) : \A x :
          Rules6(c, i, t) = << x >> => ~Matches(x, packet)
    <3> SUFFICES ASSUME NEW t \in Slots6(l), NEW x, Rules6(c, i, t) = << x >>,
                        Matches(x, packet)
                 PROVE  FALSE
        OBVIOUS
    <3>1. v \in Configured(c) /\ t = OwnSlot(kind, u)
          BY <1>1
    <3>2. Rules6(c, i, t) = << >>
          BY <1>2, <1>5, <3>1 DEF If
    <3> QED BY <3>2
  <2>2. Way(Mirror6(c, i), packet) = Lookup(MainTable)
        BY <2>1, NoWayBySlot6
  <2> QED BY <1>5, <2>2 DEF packet, usable
<1> QED BY <1>4, <1>5

\* What matches an IPv4 packet that comes from lo or from a client.
LEMMA Rules4Match ==
    ASSUME NEW c \in Files, Accepts(c), NEW i, NEW packet,
           NEW t \in Slots4(Layout(c)), NEW x, Rules4(c, i, t) = << x >>,
           Matches(x, packet)
    PROVE  \/ t = << "fwd_to_wan", 0 >>
           \/ \E u \in Uplinks(Layout(c)) :
                /\ t = << "lo", u >> /\ packet.iif = Lo
                /\ packet.from = << "wan", Uplink(c, u).name >>
<1>1. /\ x.from \in {NoFrom, packet.from} /\ x.iif \in {NoFrom, packet.iif}
      /\ x # InternalTraffic
      BY DEF Matches
<1>2. CASE t = << "internal", 0 >>
  <2>1. << x >> = If(i.policy, InternalTraffic)
        BY <1>2 DEF Rules4
  <2> QED BY <1>1, <2>1 DEF If
<1>3. ASSUME NEW u \in Uplinks(Layout(c)), t = << "lo", u >>
      PROVE  packet.iif = Lo /\ packet.from = << "wan", Uplink(c, u).name >>
  <2>1. x.from = << "wan", Uplink(c, u).name >> /\ x.iif = Lo
        BY <1>3 DEF Rules4, If, Rule
  <2>2. x.from # NoFrom /\ x.iif # NoFrom
        BY <2>1, IndexOfName, NameOfIndex, NoFromAssumption
  <2> QED BY <1>1, <2>1, <2>2
<1> QED BY <1>2, <1>3, Forms4

\* The shared table comes last, and takes what no other rule takes.
LEMMA SharedTableRule ==
    ASSUME NEW c \in Files, NEW i, i.policy
    PROVE  LET s == << "fwd_to_wan", 0 >>
               x == Rule(NoFrom, NoFrom, Lookup(ipv4_table_num(c.tables)))
           IN  /\ s \in Slots4(Layout(c)) /\ Rules4(c, i, s) = << x >>
               /\ \A packet : Matches(x, packet)
               /\ x.act = Lookup(ipv4_table_num(c.tables))
<1>1. << "fwd_to_wan", 0 >> \in Slots4(Layout(c))
      BY DEF Slots4
<1> QED BY <1>1, SourcesApart DEF Rules4, If, Matches, Rule, InternalTraffic

LEMMA OwnWay4 ==
    ASSUME NEW c \in Files, Accepts(c), NEW i, Ready(c, i), NEW e,
           UpToDate(c, e, i), NEW v \in Configured(c), v \in e.wan \cap e.up
    PROVE  Way(Mirror4(c, i), Packet(<< "wan", v >>, Lo)) =
             Lookup(Table(c, Index(c, v)))
<1> DEFINE u == Index(c, v)
           l == Layout(c)
           s == << "lo", u >>
           packet == Packet(<< "wan", v >>, Lo)
           rule == Rule(<< "wan", v >>, Lo, Lookup(Table(c, u)))
<1>1. u \in Uplinks(l) /\ Uplink(c, u).name = v
      BY NameOfIndex
<1>2. s \in Slots4(l) /\ << "fwd_to_wan", 0 >> \in Slots4(l)
      BY <1>1 DEF Slots4
<1>3. i.links[v].lo4
      BY DEF UpToDate
<1>4. Rules4(c, i, s) = << rule >>
      BY <1>1, <1>3 DEF Rules4, If
<1>5. Matches(rule, packet) /\ rule.act = Lookup(Table(c, u))
      BY SourcesApart DEF Matches, Packet, Rule, InternalTraffic
<1>6. packet.from = << "wan", v >>
      BY DEF Packet
<1>7. /\ Priority4(l, s) \in Nat
      /\ Priority4(l, s) =< Priority4(l, << "fwd_to_wan", 0 >>)
  <2>1. IsLayout(l)
        BY FilesAssumption DEF IsLayout, Layout
  <2>2. Priority4(l, s) = l.start + 1 + u
        BY DEF Priority4, ipv4_lo_to_uplink_priority
  <2>3. Priority4(l, << "fwd_to_wan", 0 >>) = l.start + 1 + l.uplinks
        BY DEF Priority4, ipv4_fwd_to_wan_priority
  <2> HIDE DEF l, s
  <2> QED BY <1>1, <2>1, <2>2, <2>3 DEF IsLayout, Uplinks
<1> HIDE DEF rule, packet
<1>8. ASSUME NEW t \in Slots4(l), NEW x, Rules4(c, i, t) = << x >>,
             Matches(x, packet)
      PROVE  Priority4(l, s) =< Priority4(l, t)
  <2>1. CASE t = << "fwd_to_wan", 0 >>
        BY <1>7, <2>1
  <2>2. ASSUME NEW w \in Uplinks(l), t = << "lo", w >>,
               packet.from = << "wan", Uplink(c, w).name >>
        PROVE  Priority4(l, s) =< Priority4(l, t)
    <3>1. Uplink(c, w).name = v
          BY <1>6, <2>2
    <3>2. w = u
          BY <3>1, IndexOfName
    <3> QED BY <1>7, <2>2, <3>2
  <2> QED BY <1>8, <2>1, <2>2, Rules4Match
<1> QED BY <1>2, <1>4, <1>5, <1>8, WayBySlot4 DEF packet

LEMMA ClientsWay4 ==
    ASSUME NEW c \in Files, Accepts(c), NEW i, Ready(c, i), NEW v
    PROVE  Way(Mirror4(c, i), Packet(<< "lan", v >>, << "lan" >>)) =
             Lookup(ipv4_table_num(c.tables))
<1> DEFINE s == << "fwd_to_wan", 0 >>
           rule == Rule(NoFrom, NoFrom, Lookup(ipv4_table_num(c.tables)))
           packet == Packet(<< "lan", v >>, << "lan" >>)
<1>1. /\ s \in Slots4(Layout(c)) /\ Rules4(c, i, s) = << rule >>
      /\ Matches(rule, packet) /\ rule.act = Lookup(ipv4_table_num(c.tables))
      BY SharedTableRule DEF Ready
<1>2. packet.iif # Lo
      BY SourcesApart DEF Packet
<1>3. Priority4(Layout(c), s) \in Nat
      BY <1>1, SlotHasRule4, PrioritiesAreNumbers
<1> HIDE DEF rule, packet
<1>4. ASSUME NEW t \in Slots4(Layout(c)), NEW x, Rules4(c, i, t) = << x >>,
             Matches(x, packet)
      PROVE  Priority4(Layout(c), s) =< Priority4(Layout(c), t)
  <2>1. t = s
        BY <1>2, <1>4, Rules4Match
  <2> QED BY <1>3, <2>1
<1> QED BY <1>1, <1>4, WayBySlot4 DEF packet

LEMMA EmptyKernelWay ==
    \A packet : Way(NoRules, packet) = Lookup(MainTable)
BY NoRuleDecides DEF NoRules

\* The host's own packets leave by the uplink whose address they carry, if it
\* is up; other IPv4 traffic takes the shared table; nothing of uplinkmgr's is
\* met when the daemon does not run.  (daemon.py _reconcile_uplink_ipv4,
\* _reconcile_uplink_ipv6, _teardown_all, priority.py)
THEOREM OthersTakeTheirWay ==
    ASSUME NamesValidated
    PROVE  Spec => []OtherTrafficTakesItsWay
<1>1. InvTopology => OtherTrafficTakesItsWay
  <2> SUFFICES ASSUME InvTopology PROVE OtherTrafficTakesItsWay
      OBVIOUS
  <2>1. CASE ~Running
    <3>1. k4 = NoRules /\ k6 = NoRules
          BY <2>1 DEF InvTopology, Running
    <3> QED BY <2>1, <3>1, EmptyKernelWay DEF OtherTrafficTakesItsWay
  <2>2. CASE Running
    <3>1. /\ cfg \in Files /\ Accepts(cfg) /\ Ready(cfg, inst)
          /\ UpToDate(cfg, Here, inst)
          /\ k4 = Mirror4(cfg, inst) /\ k6 = Mirror6(cfg, inst)
          BY <2>2 DEF InvTopology, Running, InStep, Now
    <3>2. Here.wan = wan /\ Here.pd = pd /\ Here.up = up
          BY DEF Here
    <3>3. "wan" \in Kinds /\ "pd" \in Kinds
          BY DEF Kinds
    <3> HIDE DEF Here
    <3>4. ASSUME NEW v \in Names
          PROVE  /\ Way(k6, Packet(<< "pd", v >>, Lo)) =
                      IF v \in Configured(cfg) /\ HasPd(cfg, v) /\ v \in pd \cap up
                      THEN Lookup(Table(cfg, Index(cfg, v)))
                      ELSE Lookup(MainTable)
                 /\ Way(k6, Packet(<< "wan", v >>, Lo)) =
                      IF v \in Configured(cfg) /\ HasPd(cfg, v) /\ v \in wan \cap up
                      THEN Lookup(Table(cfg, Index(cfg, v)))
                      ELSE Lookup(MainTable)
      <4>1. Way(k6, Packet(<< "pd", v >>, Lo)) =
              IF v \in Configured(cfg) /\ HasPd(cfg, v)
                 /\ v \in (IF "pd" = "wan" THEN Here.wan ELSE Here.pd) \cap Here.up
              THEN Lookup(Table(cfg, Index(cfg, v))) ELSE Lookup(MainTable)
            BY <3>1, <3>3, OwnWay6
      <4>2. Way(k6, Packet(<< "wan", v >>, Lo)) =
              IF v \in Configured(cfg) /\ HasPd(cfg, v)
                 /\ v \in (IF "wan" = "wan" THEN Here.wan ELSE Here.pd) \cap Here.up
              THEN Lookup(Table(cfg, Index(cfg, v))) ELSE Lookup(MainTable)
            BY <3>1, <3>3, OwnWay6
      <4> QED BY <3>2, <4>1, <4>2
    <3>5. ASSUME NEW v \in Configured(cfg), v \in wan \cap up
          PROVE  Way(k4, Packet(<< "wan", v >>, Lo)) =
                   Lookup(Table(cfg, Index(cfg, v)))
          BY <3>1, <3>2, <3>5, OwnWay4
    <3>6. \A v : Way(k4, Packet(<< "lan", v >>, << "lan" >>)) =
                   Lookup(ipv4_table_num(cfg.tables))
          BY <3>1, ClientsWay4
    <3> QED BY <2>2, <3>4, <3>5, <3>6 DEF OtherTrafficTakesItsWay, HasPd
  <2> QED BY <2>1, <2>2
<1> QED BY <1>1, TopologyInductive, PTL

-----------------------------------------------------------------------------
InvTypes ==
    /\ wan \subseteq Names /\ pd \subseteq Names
    /\ cfg = Unset => inst = Books(FALSE, << >>) /\ up = {}
    /\ cfg # Unset => up \subseteq Configured(cfg)

LEMMA TypesInductive == Spec => []InvTypes
<1>1. Init => InvTypes
      BY DEF Init, InvTypes
<1>2. ASSUME InvTypes, [Next]_vars PROVE InvTypes'
  <2>1. ASSUME NEW f \in Files, Load(f), UNCHANGED << wan, pd >>
        PROVE  InvTypes'
        BY <1>2, <2>1, FilesAssumption DEF InvTypes, Load
  <2>2. CASE Start \/ Reload
        BY <2>1, <2>2 DEF Start, Reload, Load
  <2>3. CASE Change
        BY <1>2, <2>3 DEF InvTypes, Change, SymDiff
  <2>4. CASE Stop
        BY <1>2, <2>4 DEF InvTypes, Stop
  <2>5. CASE UNCHANGED vars
        BY <1>2, <2>5 DEF InvTypes, vars
  <2> QED BY <1>2, <2>2, <2>3, <2>4, <2>5 DEF Next
<1> QED BY <1>1, <1>2, PTL DEF Spec

\* The bookkeeping is about the uplinks of the configuration, tables are in
\* range and no priority holds two rules.  (daemon.py, config.py)
THEOREM TopologyTypes ==
    ASSUME NamesValidated
    PROVE  Spec => []TypeOK
<1>1. InvTopology /\ InvTypes => TypeOK
  <2> SUFFICES ASSUME InvTopology, InvTypes PROVE TypeOK
      OBVIOUS
  <2>1. DOMAIN inst.links = IF Running THEN Configured(cfg) ELSE {}
        BY DEF InvTopology, InvTypes, Running, Ready, IsBooks, Books
  <2>2. ASSUME Running, NEW u \in UplinkIndices
        PROVE  Table(cfg, u) \in 1 .. MaxTable
    <3>1. cfg \in Files /\ Accepts(cfg)
          BY <2>2 DEF InvTopology, Running
    <3>2. Len(cfg.uplinks) \in Nat /\ u \in 0 .. Len(cfg.uplinks) - 1
          BY <3>1, FilesAssumption DEF UplinkIndices, Uplinks, Layout
    <3> QED BY <3>1, <3>2, TablesDistinct
  <2>3. ASSUME NEW p \in Priorities PROVE Len(k4[p]) =< 1 /\ Len(k6[p]) =< 1
    <3>1. CASE Running
      <4>1. k4[p] = At4(cfg, inst, p) /\ k6[p] = At6(cfg, inst, p)
            BY <3>1 DEF InvTopology, Running, InStep, Now, Mirror4, Mirror6
      <4>2. ASSUME NEW s, s = << >> \/ \E r : s = << r >> PROVE Len(s) =< 1
        <5>1. CASE s = << >>
              BY <5>1
        <5>2. ASSUME NEW r, s = << r >> PROVE Len(s) =< 1
          <6>1. Len(<< r >>) = 1
                OBVIOUS
          <6> QED BY <5>2, <6>1
        <5> QED BY <4>2, <5>1, <5>2
      <4> QED BY <4>1, <4>2, OneRule4, OneRule6
    <3>2. CASE ~Running
          BY <3>2 DEF InvTopology, Running, NoRules
    <3> QED BY <3>1, <3>2
  <2> QED BY <2>1, <2>2, <2>3 DEF TypeOK, InvTypes, Running
<1> QED BY <1>1, TopologyInductive, TypesInductive, PTL
=============================================================================

-------------------------- MODULE RouteSyncProofs ---------------------------
(***************************************************************************)
(* Whatever fails and however often the daemon is killed: for every uplink *)
(* and any number of faults, no rule is lost to a leftover of an earlier   *)
(* process, leftovers do not multiply, and the next start or pass repairs  *)
(* the routes.  And a pass in which nothing fails comes to the one step    *)
(* that module Daemon takes it for.                                        *)
(*                                                                         *)
(* The argument is about the list of commands still to be made: it is cut  *)
(* off at the front, one command at a time, and whatever is left of it is  *)
(* still a chain in which a deletion is followed by the addition or the    *)
(* assignment it is for, and still leads where the whole list did.         *)
(***************************************************************************)
EXTENDS RouteSyncProps, SequenceTheorems, TLAPS

-----------------------------------------------------------------------------
\* Values and commands.

Written(f) == UNION {w.contents[f] \ {Malformed} : w \in Uplinks}

Selectors ==
    {None, NoFrom} \cup {l.address : l \in Written("v4")}
    \cup {r.source : r \in Written("ra")} \cup Written("pd") \cup Written("na")

Values ==
    {None} \cup {l.gateway : l \in Written("v4")}
    \cup {Route6(r) : r \in Written("ra")}

Flags == {"prohibit", "policy"}

Command ==
    [op : {"route"}, slot : RouteSlots, value : Values]
    \cup [op : {"add"}, slot : RuleSlots, value : Selectors]
    \cup [op : {"del"}, slot : RuleSlots, value : {None}]
    \cup [op : {"book"}, slot : {"gateway"}, value : Values]
    \cup [op : {"book"}, slot : RuleSlots \ Flags, value : Selectors]
    \cup [op : {"book"}, slot : Flags \cup {"route6"}, value : BOOLEAN]
    \cup [op : {"fire"}, slot : {"ipv4", "ipv6"}, value : {None}]

\* A value of the bookkeeping stands for a rule, and for which.
Means(s, v) == IF s \in Flags THEN v = TRUE ELSE v # None
Selector(s, v) == IF s \in Flags THEN NoFrom ELSE v

-----------------------------------------------------------------------------
\* Lists of commands.

\* Commands after which the list cannot end, and before which it cannot begin.
Begins(c) ==
    /\ c.op = "book" => c.slot = "route6"
    /\ c.op = "route" => c.slot # "own"
Ends(c) ==
    /\ c.op \in {"route", "book", "fire"}
    /\ c.op = "route" => c.slot = "route6"

\* d may come next after c.
Link(c, d) ==
    /\ c.op = "del" =>
         /\ d.slot = c.slot
         /\ d.op = "add" \/ (d.op = "book" /\ ~Means(d.slot, d.value))
    /\ c.op = "add" =>
         /\ d.op = "book" /\ d.slot = c.slot
         /\ Means(d.slot, d.value) /\ Selector(d.slot, d.value) = c.value
    /\ c.op = "route" /\ c.slot = "shared" =>
         d = ReplaceRoute("own", c.value)
    /\ c.op = "route" /\ c.slot = "own" =>
         d = Book("gateway", c.value)
    /\ d.op = "book" /\ d.slot \in RuleSlots =>
         /\ c.slot = d.slot
         /\ c.op = IF Means(d.slot, d.value) THEN "add" ELSE "del"
    /\ d.op = "book" /\ d.slot = "gateway" =>
         c = ReplaceRoute("own", d.value)
    /\ d.op = "route" /\ d.slot = "own" =>
         c = ReplaceRoute("shared", d.value)

\* What may be left of a list.
Chain(q) ==
    /\ q \in Seq(Command)
    /\ \A n \in 1 .. Len(q) - 1 : Link(q[n], q[n + 1])
    /\ q # << >> => Ends(q[Len(q)])

\* A rule is added where there is none: right after a deletion, or because
\* none is remembered and nothing before it is about that slot.
Fresh(q, i, n) ==
    \/ n > 1 /\ q[n - 1].op = "del"
    \/ /\ ~Means(q[n].slot, i[q[n].slot])
       /\ \A m \in 1 .. n - 1 : q[m].slot # q[n].slot

Has(q, c) == \E n \in 1 .. Len(q) : q[n] = c

\* A whole list, made when i was remembered: it is about the slots S, and
\* adds rules without a deletion only in the slots F.
Block(q, i, S, F) ==
    /\ Chain(q)
    /\ q # << >> => Begins(q[1])
    /\ \A n \in 1 .. Len(q) : q[n].slot \in S
    /\ \A n \in 1 .. Len(q) : q[n].op = "add" =>
         /\ Fresh(q, i, n)
         /\ (n > 1 /\ q[n - 1].op = "del") \/ q[n].slot \in F

-----------------------------------------------------------------------------
\* The invariant.

KernSlots == RouteSlots \cup RuleSlots
InstFields == {"gateway", "route6"} \cup RuleSlots

Types ==
    /\ uplink \in Uplinks
    /\ DOMAIN file = FileNames
    /\ \A f \in FileNames : file[f] \in uplink.contents[f] \cup {None}
    /\ phase \in {"off", "boot", "idle", "pass", "stop"}
    /\ pending \in BOOLEAN /\ sound \in BOOLEAN /\ fresh6 \in BOOLEAN
    /\ faults \in 0 .. MaxFaults
    /\ DOMAIN kern = KernSlots
    /\ \A s \in RuleSlots : kern[s] \in Seq(Selectors)
    /\ DOMAIN inst = InstFields
    /\ \A s \in RuleSlots \ Flags : inst[s] \in Selectors
    /\ \A s \in Flags \cup {"route6"} : inst[s] \in BOOLEAN
    /\ DOMAIN up = {"ipv4", "ipv6"}

\* The list is a chain, adds where nothing is remembered, and is used up when
\* the daemon sleeps or is gone.
ListInv ==
    /\ Chain(todo)
    /\ \A n \in 2 .. Len(todo) :
         todo[n].op = "add" => Fresh(todo, inst, n)
    /\ phase \in {"off", "idle"} => todo = << >>
    /\ phase = "off" => inst = EmptyInst

\* The rules that only an uplink with IPv6 has.
Rules6 == {"lo", "pdLo", "fwd", "prohibit"}

\* Without IPv6 none of its rules is remembered or about to be.
Only4Inv ==
    ~Ipv6 =>
      \A s \in Rules6 :
        /\ ~Means(s, inst[s])
        /\ \A n \in 1 .. Len(todo) :
             todo[n].op = "book" /\ todo[n].slot = s =>
               ~Means(s, todo[n].value)

\* While stopping, everything remembered is going to be forgotten.
StopInv ==
    phase = "stop" =>
      \A s \in RuleSlots :
        /\ Means(s, inst[s]) => \E n \in 1 .. Len(todo) :
             /\ todo[n].op = "book" /\ todo[n].slot = s
        /\ \A n \in 1 .. Len(todo) :
             todo[n].op = "book" /\ todo[n].slot = s =>
               ~Means(s, todo[n].value)

\* How many rules a slot holds without a leftover.
Cap(s) ==
    IF todo # << >> /\ todo[1].slot = s /\ todo[1].op \in {"add", "book"}
    THEN IF todo[1].op = "book" /\ Means(s, todo[1].value) THEN 1 ELSE 0
    ELSE IF Means(s, inst[s]) THEN 1 ELSE 0

CountInv == \A s \in RuleSlots : Len(kern[s]) =< faults + Cap(s)

\* A rule is in the kernel when it is remembered, and when it is about to be,
\* unless its slot is still to be worked on.
RuleInv ==
    sound =>
      \A s \in RuleSlots :
        /\ Means(s, inst[s]) =>
             \/ Contains(kern[s], Selector(s, inst[s]))
             \/ \E n \in 1 .. Len(todo) :
                  todo[n].op = "book" /\ todo[n].slot = s
        /\ (todo # << >> /\ todo[1].op = "book" /\ todo[1].slot = s
              /\ Means(s, todo[1].value)) =>
             Contains(kern[s], Selector(s, todo[1].value))

Serving == phase \in {"boot", "pass", "idle"} /\ ~pending

\* The gateway wanted, given the file and the health.
Wanted4 == WantGateway(ReadState("v4"), up.ipv4)

GatewayInv ==
    /\ Serving =>
         /\ up.ipv4 => ReadState("v4") # None
         /\ \A n \in 1 .. Len(todo) :
              todo[n].op = "book" /\ todo[n].slot = "gateway" =>
                todo[n].value = Wanted4
         /\ inst.gateway = Wanted4 \/ Has(todo, Book("gateway", Wanted4))
    /\ sound =>
         /\ inst.gateway # None =>
              \/ kern.shared = inst.gateway /\ kern.own = inst.gateway
              \/ \E n \in 1 .. Len(todo) :
                   todo[n].op = "book" /\ todo[n].slot = "gateway"
         /\ todo # << >> =>
              /\ todo[1].op = "book" /\ todo[1].slot = "gateway" =>
                   kern.shared = todo[1].value /\ kern.own = todo[1].value
              /\ todo[1].op = "route" /\ todo[1].slot = "own" =>
                   kern.shared = todo[1].value

Route6Inv ==
    Serving /\ fresh6 /\ Ipv6 /\ ReadState("ra") # None =>
      LET x == Route6(ReadState("ra"))
      IN  /\ kern.route6 = x \/ Has(todo, ReplaceRoute("route6", x))
          /\ \A n \in 1 .. Len(todo) :
               todo[n].op = "route" /\ todo[n].slot = "route6" =>
                 todo[n].value = x

Inv ==
    /\ Types /\ ListInv /\ Only4Inv /\ StopInv /\ CountInv /\ RuleInv
    /\ GatewayInv /\ Route6Inv

-----------------------------------------------------------------------------
\* Building lists.

LEMMA EmptyBlock == ASSUME NEW i, NEW S, NEW F PROVE Block(<< >>, i, S, F)
BY DEF Block, Chain

\* One whole list may follow another that does not concern the slots in which
\* it adds rules without a deletion.
LEMMA ConcatBlock ==
    ASSUME NEW a, NEW b, NEW i, NEW S, NEW F, NEW T, NEW G,
           Block(a, i, S, F), Block(b, i, T, G), G \cap S = {}
    PROVE  Block(a \o b, i, S \cup T, F \cup G)
<1>. DEFINE q == a \o b
<1>1. /\ a \in Seq(Command) /\ b \in Seq(Command)
      /\ Len(a) \in Nat /\ Len(b) \in Nat
  BY DEF Block, Chain
<1>2. /\ q \in Seq(Command) /\ Len(q) = Len(a) + Len(b)
      /\ \A n \in 1 .. Len(a) + Len(b) :
           q[n] = IF n =< Len(a) THEN a[n] ELSE b[n - Len(a)]
  BY <1>1, ConcatProperties
<1>. HIDE DEF q
<1>3. \A n \in 1 .. Len(a) : n \in 1 .. Len(q) /\ q[n] = a[n]
  BY <1>1, <1>2
<1>4. \A n \in 1 .. Len(b) :
        Len(a) + n \in 1 .. Len(q) /\ q[Len(a) + n] = b[n]
  <2>. TAKE n \in 1 .. Len(b)
  <2>1. /\ Len(a) + n \in 1 .. Len(a) + Len(b) /\ ~(Len(a) + n =< Len(a))
        /\ Len(a) + n - Len(a) = n
    BY <1>1
  <2>. QED
    BY <1>2, <2>1
<1>5. \A n \in 1 .. Len(q) :
        n \in 1 .. Len(a) \/ \E m \in 1 .. Len(b) : n = Len(a) + m
  <2>. SUFFICES ASSUME NEW n \in 1 .. Len(q), n \notin 1 .. Len(a)
                PROVE  \E m \in 1 .. Len(b) : n = Len(a) + m
    OBVIOUS
  <2>1. n - Len(a) \in 1 .. Len(b) /\ n = Len(a) + (n - Len(a))
    BY <1>1, <1>2
  <2>. QED
    BY <2>1
<1>6. ASSUME NEW n \in 1 .. Len(q) - 1
      PROVE  Link(q[n], q[n + 1])
  <2>1. CASE n \in 1 .. Len(a) - 1
    <3>1. q[n] = a[n] /\ q[n + 1] = a[n + 1]
      BY <1>1, <1>3, <2>1
    <3>. QED
      BY <1>1, <2>1, <3>1 DEF Block, Chain
  <2>2. CASE n = Len(a) /\ Len(a) > 0
    <3>1. Len(b) > 0 /\ q[n] = a[Len(a)] /\ q[n + 1] = b[1]
      BY <1>1, <1>2, <2>2
    <3>2. Ends(a[Len(a)]) /\ Begins(b[1])
      BY <1>1, <2>2, <3>1 DEF Block, Chain
    <3>3. \A c, d : Ends(c) /\ Begins(d) => Link(c, d)
      BY DEF Ends, Begins, Link, RuleSlots
    <3>. QED
      BY <3>1, <3>2, <3>3
  <2>3. CASE n > Len(a)
    <3>1. /\ n - Len(a) \in 1 .. Len(b) - 1
          /\ n - Len(a) + 1 = n + 1 - Len(a)
      BY <1>1, <1>2, <2>3
    <3>2. q[n] = b[n - Len(a)] /\ q[n + 1] = b[n - Len(a) + 1]
      BY <1>1, <1>2, <2>3, <3>1
    <3>. QED
      BY <1>1, <3>1, <3>2 DEF Block, Chain
  <2>. QED
    BY <1>1, <1>2, <2>1, <2>2, <2>3
<1>7. q # << >> => Ends(q[Len(q)])
  <2>1. CASE Len(b) > 0
    <3>1. q[Len(q)] = b[Len(b)]
      BY <1>1, <1>2, <2>1
    <3>. QED
      BY <2>1, <3>1 DEF Block, Chain
  <2>2. CASE Len(b) = 0 /\ Len(a) > 0
    <3>1. q[Len(q)] = a[Len(a)]
      BY <1>1, <1>2, <2>2
    <3>. QED
      BY <2>2, <3>1 DEF Block, Chain
  <2>3. CASE Len(b) = 0 /\ Len(a) = 0
    BY <1>2, <2>3
  <2>. QED
    BY <1>1, <2>1, <2>2, <2>3
<1>8. q # << >> => Begins(q[1])
  <2>1. CASE Len(a) > 0
    BY <1>1, <1>3, <2>1 DEF Block
  <2>2. CASE Len(a) = 0 /\ Len(b) > 0
    <3>1. q[1] = b[1]
      BY <1>1, <1>2, <2>2
    <3>. QED
      BY <2>2, <3>1 DEF Block
  <2>3. CASE Len(b) = 0 /\ Len(a) = 0
    BY <1>2, <2>3
  <2>. QED
    BY <1>1, <2>1, <2>2, <2>3
<1>9. \A n \in 1 .. Len(q) : q[n].slot \in S \cup T
  BY <1>3, <1>4, <1>5 DEF Block
<1>10. ASSUME NEW n \in 1 .. Len(q), q[n].op = "add"
       PROVE  /\ Fresh(q, i, n)
              /\ (n > 1 /\ q[n - 1].op = "del") \/ q[n].slot \in F \cup G
  <2>1. CASE n \in 1 .. Len(a)
    <3>1. /\ \A m \in 1 .. n : q[m] = a[m]
          /\ n > 1 => q[n - 1] = a[n - 1]
      BY <1>1, <1>3, <2>1
    <3>2. /\ Fresh(a, i, n)
          /\ (n > 1 /\ a[n - 1].op = "del") \/ a[n].slot \in F
      BY <1>3, <1>10, <2>1 DEF Block
    <3>. QED
      BY <2>1, <3>1, <3>2 DEF Fresh
  <2>2. ASSUME NEW m \in 1 .. Len(b), n = Len(a) + m
        PROVE  /\ Fresh(q, i, n)
               /\ (n > 1 /\ q[n - 1].op = "del") \/ q[n].slot \in F \cup G
    <3>1. q[n] = b[m] /\ b[m].op = "add"
      BY <1>4, <1>10, <2>2
    <3>2. /\ Fresh(b, i, m)
          /\ (m > 1 /\ b[m - 1].op = "del") \/ b[m].slot \in G
      BY <3>1 DEF Block
    <3>3. CASE m > 1 /\ b[m - 1].op = "del"
      <4>1. n > 1 /\ m - 1 \in 1 .. Len(b) /\ n - 1 = Len(a) + (m - 1)
        BY <1>1, <2>2, <3>3
      <4>2. q[n - 1] = b[m - 1]
        BY <1>4, <4>1
      <4>. QED
        BY <3>3, <4>1, <4>2 DEF Fresh
    <3>4. CASE ~(m > 1 /\ b[m - 1].op = "del")
      <4>1. /\ b[m].slot \in G /\ b[m].slot \notin S
            /\ ~Means(b[m].slot, i[b[m].slot])
            /\ \A k \in 1 .. m - 1 : b[k].slot # b[m].slot
        BY <3>2, <3>4 DEF Fresh
      <4>2. ASSUME NEW k \in 1 .. n - 1
            PROVE  q[k].slot # q[n].slot
        <5>1. CASE k \in 1 .. Len(a)
          BY <1>3, <3>1, <4>1, <5>1 DEF Block
        <5>2. ASSUME NEW j \in 1 .. Len(b), k = Len(a) + j
              PROVE  q[k].slot # q[n].slot
          <6>1. j \in 1 .. m - 1 /\ q[k] = b[j]
            BY <1>1, <1>4, <2>2, <5>2
          <6>. QED
            BY <3>1, <4>1, <6>1
        <5>3. k \in 1 .. Len(q)
          BY <1>1, <1>2
        <5>. QED
          BY <1>5, <5>1, <5>2, <5>3
      <4>. QED
        BY <3>1, <4>1, <4>2 DEF Fresh
    <3>. QED
      BY <3>3, <3>4
  <2>. QED
    BY <1>5, <2>1, <2>2
<1>11. Block(q, i, S \cup T, F \cup G)
  BY <1>2, <1>6, <1>7, <1>8, <1>9, <1>10 DEF Block, Chain
<1>. QED
  BY <1>11 DEF q

\* A list made for one bookkeeping may be used with another that remembers
\* nothing where the list adds without a deletion.
LEMMA BlockFor ==
    ASSUME NEW q, NEW i, NEW j, NEW S, NEW F, Block(q, i, S, F),
           \A s \in F : ~Means(s, j[s])
    PROVE  Block(q, j, S, F)
<1>1. ASSUME NEW n \in 1 .. Len(q), q[n].op = "add"
      PROVE  Fresh(q, j, n)
  BY <1>1 DEF Block, Fresh
<1>. QED
  BY <1>1 DEF Block

LEMMA WiderBlock ==
    ASSUME NEW q, NEW i, NEW S, NEW F, NEW T, NEW G, Block(q, i, S, F),
           S \subseteq T, F \subseteq G
    PROVE  Block(q, i, T, G)
BY DEF Block

LEMMA BlockHas ==
    ASSUME NEW q, NEW i, NEW S, NEW F, Block(q, i, S, F), NEW c, Has(q, c)
    PROVE  c \in Command /\ c.slot \in S
<1>1. PICK n \in 1 .. Len(q) : q[n] = c
  BY DEF Has
<1>2. q \in Seq(Command) /\ q[n].slot \in S
  BY DEF Block, Chain
<1>. QED
  BY <1>1, <1>2

LEMMA HasConcat ==
    ASSUME NEW a \in Seq(Command), NEW b \in Seq(Command), NEW c
    PROVE  Has(a \o b, c) <=> Has(a, c) \/ Has(b, c)
<1>1. /\ Len(a \o b) = Len(a) + Len(b)
      /\ Len(a) \in Nat /\ Len(b) \in Nat
      /\ \A n \in 1 .. Len(a) + Len(b) :
           (a \o b)[n] = IF n =< Len(a) THEN a[n] ELSE b[n - Len(a)]
  BY ConcatProperties
<1>2. ASSUME NEW n \in 1 .. Len(a \o b), (a \o b)[n] = c
      PROVE  Has(a, c) \/ Has(b, c)
  <2>1. CASE n =< Len(a)
    BY <1>1, <1>2, <2>1 DEF Has
  <2>2. CASE n > Len(a)
    <3>1. n - Len(a) \in 1 .. Len(b) /\ b[n - Len(a)] = c
      BY <1>1, <1>2, <2>2
    <3>. QED
      BY <3>1 DEF Has
  <2>. QED
    BY <1>1, <2>1, <2>2
<1>3. ASSUME NEW n \in 1 .. Len(a), a[n] = c
      PROVE  Has(a \o b, c)
  BY <1>1, <1>3 DEF Has
<1>4. ASSUME NEW n \in 1 .. Len(b), b[n] = c
      PROVE  Has(a \o b, c)
  <2>1. Len(a) + n \in 1 .. Len(a \o b) /\ (a \o b)[Len(a) + n] = c
    BY <1>1, <1>4
  <2>. QED
    BY <2>1 DEF Has
<1>. QED
  BY <1>2, <1>3, <1>4 DEF Has

-----------------------------------------------------------------------------
\* The lists of the code.

\* Two assignments and what they need: one command, two, or three of them.
LEMMA Tuples ==
    /\ \A x \in Command :
         /\ << x >> \in Seq(Command) /\ Len(<< x >>) = 1 /\ << x >>[1] = x
    /\ \A x, y \in Command :
         /\ << x, y >> \in Seq(Command) /\ Len(<< x, y >>) = 2
         /\ << x, y >>[1] = x /\ << x, y >>[2] = y
    /\ \A x, y, z \in Command :
         /\ << x, y, z >> \in Seq(Command) /\ Len(<< x, y, z >>) = 3
         /\ << x, y, z >>[1] = x /\ << x, y, z >>[2] = y
         /\ << x, y, z >>[3] = z
<1>. DEFINE C == Command
<1>. HIDE DEF C
<1>1. /\ \A x \in C :
           /\ << x >> \in Seq(C) /\ Len(<< x >>) = 1 /\ << x >>[1] = x
      /\ \A x, y \in C :
           /\ << x, y >> \in Seq(C) /\ Len(<< x, y >>) = 2
           /\ << x, y >>[1] = x /\ << x, y >>[2] = y
      /\ \A x, y, z \in C :
           /\ << x, y, z >> \in Seq(C) /\ Len(<< x, y, z >>) = 3
           /\ << x, y, z >>[1] = x /\ << x, y, z >>[2] = y
           /\ << x, y, z >>[3] = z
  OBVIOUS
<1>. QED
  BY <1>1 DEF C

LEMMA OneBlock ==
    ASSUME NEW x \in Command, NEW i, NEW S, NEW F,
           Begins(x), Ends(x), x.slot \in S, x.op # "add"
    PROVE  Block(<< x >>, i, S, F)
<1>. DEFINE q == << x >>
<1>1. q \in Seq(Command) /\ Len(q) = 1 /\ q[1] = x
  BY Tuples
<1>. HIDE DEF q
<1>2. Block(q, i, S, F)
  BY <1>1 DEF Block, Chain
<1>. QED
  BY <1>2 DEF q

LEMMA TwoBlock ==
    ASSUME NEW x \in Command, NEW y \in Command, NEW i, NEW S, NEW F,
           Begins(x), Link(x, y), Ends(y), x.slot \in S, y.slot \in S,
           y.op # "add",
           x.op = "add" => x.slot \in F /\ ~Means(x.slot, i[x.slot])
    PROVE  Block(<< x, y >>, i, S, F)
<1>. DEFINE q == << x, y >>
<1>1. q \in Seq(Command) /\ Len(q) = 2 /\ q[1] = x /\ q[2] = y
  BY Tuples
<1>. HIDE DEF q
<1>2. Block(q, i, S, F)
  BY <1>1 DEF Block, Chain, Fresh
<1>. QED
  BY <1>2 DEF q

LEMMA ThreeBlock ==
    ASSUME NEW x \in Command, NEW y \in Command, NEW z \in Command,
           NEW i, NEW S, NEW F,
           Begins(x), Link(x, y), Link(y, z), Ends(z),
           x.slot \in S, y.slot \in S, z.slot \in S,
           x.op # "add", z.op # "add", y.op = "add" => x.op = "del"
    PROVE  Block(<< x, y, z >>, i, S, F)
<1>. DEFINE q == << x, y, z >>
<1>1. q \in Seq(Command) /\ Len(q) = 3 /\ q[1] = x /\ q[2] = y /\ q[3] = z
  BY Tuples
<1>. HIDE DEF q
<1>2. Block(q, i, S, F)
  BY <1>1 DEF Block, Chain, Fresh
<1>. QED
  BY <1>2 DEF q

LEMMA GatewayBlock ==
    ASSUME NEW g \in Values, NEW i
    PROVE  Block(<< ReplaceRoute("shared", g), ReplaceRoute("own", g),
                    Book("gateway", g) >>, i, {"shared", "own", "gateway"}, {})
<1>1. /\ ReplaceRoute("shared", g) \in Command
      /\ ReplaceRoute("own", g) \in Command
      /\ Book("gateway", g) \in Command
  BY DEF Command, ReplaceRoute, Book, Item, RouteSlots
<1>2. /\ Begins(ReplaceRoute("shared", g)) /\ Ends(Book("gateway", g))
      /\ Link(ReplaceRoute("shared", g), ReplaceRoute("own", g))
      /\ Link(ReplaceRoute("own", g), Book("gateway", g))
  BY DEF Begins, Ends, Link, ReplaceRoute, Book, Item, RuleSlots
<1>3. /\ ReplaceRoute("shared", g).slot = "shared"
      /\ ReplaceRoute("shared", g).op = "route"
      /\ ReplaceRoute("own", g).slot = "own"
      /\ ReplaceRoute("own", g).op = "route"
      /\ Book("gateway", g).slot = "gateway" /\ Book("gateway", g).op = "book"
  BY DEF ReplaceRoute, Book, Item
<1>. HIDE DEF ReplaceRoute, Book
<1>. QED
  BY <1>1, <1>2, <1>3, ThreeBlock

\* The commands about one rule and how they fit together.
LEMMA RuleCommands ==
    ASSUME NEW s \in RuleSlots, NEW v,
           v \in (IF s \in Flags THEN BOOLEAN ELSE Selectors)
    PROVE  /\ Del(s) \in Command /\ Book(s, v) \in Command
           /\ Selector(s, v) \in Selectors
           /\ Add(s, Selector(s, v)) \in Command
           /\ Begins(Del(s)) /\ Begins(Add(s, Selector(s, v)))
           /\ Ends(Book(s, v))
           /\ Link(Del(s), Add(s, Selector(s, v)))
           /\ Means(s, v) => Link(Add(s, Selector(s, v)), Book(s, v))
           /\ ~Means(s, v) => Link(Del(s), Book(s, v))
<1>1. /\ Del(s) = [op |-> "del", slot |-> s, value |-> None]
      /\ Book(s, v) = [op |-> "book", slot |-> s, value |-> v]
      /\ Add(s, Selector(s, v)) =
           [op |-> "add", slot |-> s, value |-> Selector(s, v)]
  BY DEF Del, Book, Add, Item
<1>2. Selector(s, v) \in Selectors
  BY DEF Selector, Selectors
<1>3. Del(s) \in Command /\ Add(s, Selector(s, v)) \in Command
  BY <1>1, <1>2 DEF Command
<1>4. Book(s, v) \in Command
  BY <1>1 DEF Command
<1>5. s \notin {"gateway", "route6", "own", "shared"}
  BY DEF RuleSlots
<1>. QED
  BY <1>1, <1>2, <1>3, <1>4, <1>5 DEF Begins, Ends, Link

LEMMA Concats ==
    ASSUME NEW C, NEW x \in C, NEW y \in C
    PROVE  /\ << >> \o << y >> = << y >> /\ << x >> \o << >> = << x >>
           /\ << x >> \o << y >> = << x, y >>
<1>1. /\ << >> \in Seq(C) /\ << x >> \in Seq(C) /\ << y >> \in Seq(C)
      /\ << x, y >> \in Seq(C)
  OBVIOUS
<1>2. << >> \o << y >> = << y >> /\ << x >> \o << >> = << x >>
  BY <1>1
<1>3. << x >> \o << y >> = << x, y >>
  <2>. DEFINE p == << x >> \o << y >>
  <2>1. /\ p \in Seq(C) /\ Len(p) = 2
        /\ \A n \in 1 .. 2 : p[n] = << x, y >>[n]
    BY <1>1, ConcatProperties
  <2>2. Len(<< x, y >>) = 2
    OBVIOUS
  <2>. HIDE DEF p
  <2>3. p = << x, y >>
    BY <1>1, <2>1, <2>2, SeqEqual
  <2>. QED
    BY <2>3 DEF p
<1>. QED
  BY <1>2, <1>3

LEMMA ConcatTwo ==
    ASSUME NEW C, NEW x \in C, NEW y \in C, NEW z \in C
    PROVE  << x, y >> \o << z >> = << x, y, z >>
<1>1. /\ << x, y >> \in Seq(C) /\ << z >> \in Seq(C)
      /\ << x, y, z >> \in Seq(C)
  OBVIOUS
<1>. DEFINE p == << x, y >> \o << z >>
<1>2. /\ p \in Seq(C) /\ Len(p) = 3
      /\ \A n \in 1 .. 3 : p[n] = << x, y, z >>[n]
  BY <1>1, ConcatProperties
<1>3. Len(<< x, y, z >>) = 3
  OBVIOUS
<1>. HIDE DEF p
<1>4. p = << x, y, z >>
  BY <1>1, <1>2, <1>3, SeqEqual
<1>. QED
  BY <1>4 DEF p

LEMMA RuleItemsBlock ==
    ASSUME NEW s \in RuleSlots \ Flags, NEW i, NEW new \in Selectors
    PROVE  /\ Block(RuleItems(s, i[s], new), i, {s}, {s})
           /\ new # i[s] => Has(RuleItems(s, i[s], new), Book(s, new))
<1>. DEFINE old == i[s]
            q == RuleItems(s, old, new)
            d == Del(s)
            a == Add(s, new)
            b == Book(s, new)
<1>1. /\ d \in Command /\ b \in Command /\ a \in Command
      /\ Begins(d) /\ Begins(a) /\ Ends(b) /\ Link(d, a)
      /\ new # None => Link(a, b)
      /\ new = None => Link(d, b)
  BY RuleCommands DEF Selector, Means
<1>2. /\ d.slot = s /\ a.slot = s /\ b.slot = s
      /\ d.op = "del" /\ a.op = "add" /\ b.op = "book"
  BY DEF Del, Add, Book, Item
<1>3. q = IF old = new THEN << >>
          ELSE (IF old = None THEN << >> ELSE << d >>)
               \o (IF new = None THEN << >> ELSE << a >>)
               \o << b >>
  BY DEF RuleItems
<1>4. ~Means(s, None)
  BY DEF Means
<1>. HIDE DEF d, a, b, q
<1>5. CASE old = new
  <2>1. Block(q, i, {s}, {s})
    BY <1>3, <1>5, EmptyBlock
  <2>. QED
    BY <1>5, <2>1 DEF q
<1>6. CASE old # None /\ new = None
  <2>1. q = << d, b >>
    <3>1. q = (<< d >> \o << >>) \o << b >>
      BY <1>3, <1>6
    <3>. QED
      BY <1>1, <3>1, Concats
  <2>2. Block(q, i, {s}, {s}) /\ Has(q, b)
    BY <1>1, <1>2, <1>6, <2>1, TwoBlock, Tuples DEF Has
  <2>. QED
    BY <2>2 DEF q, b
<1>7. CASE old = None /\ new # None
  <2>1. q = << a, b >>
    <3>1. q = (<< >> \o << a >>) \o << b >>
      BY <1>3, <1>7
    <3>. QED
      BY <1>1, <3>1, Concats
  <2>2. Block(q, i, {s}, {s}) /\ Has(q, b)
    BY <1>1, <1>2, <1>4, <1>7, <2>1, TwoBlock, Tuples DEF Has
  <2>. QED
    BY <2>2 DEF q, b
<1>8. CASE old # None /\ new # None /\ old # new
  <2>1. q = << d, a, b >>
    <3>1. q = (<< d >> \o << a >>) \o << b >>
      BY <1>3, <1>8
    <3>2. << d >> \o << a >> = << d, a >>
      BY <1>1, Concats
    <3>3. << d, a >> \o << b >> = << d, a, b >>
      BY <1>1, ConcatTwo
    <3>. QED
      BY <3>1, <3>2, <3>3
  <2>2. Block(q, i, {s}, {s}) /\ Has(q, b)
    BY <1>1, <1>2, <1>8, <2>1, ThreeBlock, Tuples DEF Has
  <2>. QED
    BY <2>2 DEF q, b
<1>. QED
  BY <1>5, <1>6, <1>7, <1>8 DEF q, b

\* What a file may be read as.
Readable(f) == (Written(f)) \cup {None}

LEMMA Wants ==
    ASSUME NEW lease \in Readable("v4"), NEW ra \in Readable("ra"),
           NEW pd \in Readable("pd"), NEW na \in Readable("na"), NEW isUp,
           RoutingAssumption
    PROVE  /\ WantGateway(lease, isUp) \in Values
           /\ WantAddr(lease, isUp) \in Selectors
           /\ WantSource(ra, na, isUp) \in Selectors
           /\ WantPdSource(pd, isUp) \in Selectors
           /\ pd # None => WantFwd(pd) \in Selectors \ {None}
           /\ ra # None => Route6(ra) \in Values
           /\ NoFrom \in Selectors \ {None}
<1>1. lease # None => /\ lease.gateway \in Values
                      /\ lease.address \in Selectors
  BY DEF Readable, Values, Selectors
<1>2. ra # None => ra.source \in Selectors /\ Route6(ra) \in Values
  BY DEF Readable, Values, Selectors
<1>3. pd \in Selectors /\ na \in Selectors /\ None \in Selectors
  BY DEF Readable, Selectors
<1>4. None \in Values /\ NoFrom \in Selectors \ {None}
  BY DEF Values, Selectors, RoutingAssumption
<1>. QED
  BY <1>1, <1>2, <1>3, <1>4
     DEF WantGateway, WantAddr, WantSource, WantPdSource, WantFwd,
         RoutingAssumption

\* The IPv4 part of a pass.
LEMMA Items4Block ==
    ASSUME NEW lease \in Readable("v4"), NEW isUp, NEW i
    PROVE  LET q == Items4(i, lease, isUp)
               g == WantGateway(lease, isUp)
           IN  /\ Block(q, i, {"shared", "own", "gateway", "addr"}, {"addr"})
               /\ i.gateway = g \/ Has(q, Book("gateway", g))
               /\ \A n \in 1 .. Len(q) :
                    q[n].op = "book" /\ q[n].slot = "gateway" =>
                      q[n].value = g
<1>. DEFINE g == WantGateway(lease, isUp)
            w == WantAddr(lease, isUp)
            t == << ReplaceRoute("shared", g), ReplaceRoute("own", g),
                    Book("gateway", g) >>
            a == IF g = i.gateway THEN << >> ELSE t
            b == RuleItems("addr", i.addr, w)
            q == Items4(i, lease, isUp)
            S == {"shared", "own", "gateway"}
<1>1. g \in Values /\ w \in Selectors
  BY Wants, RoutingAssumption DEF Readable
<1>2. q = a \o b
  BY DEF Items4
<1>3. /\ ReplaceRoute("shared", g).op = "route"
      /\ ReplaceRoute("own", g).op = "route"
      /\ Book("gateway", g).op = "book" /\ Book("gateway", g).slot = "gateway"
      /\ Book("gateway", g).value = g
  BY DEF ReplaceRoute, Book, Item
<1>4. Block(t, i, S, {})
  BY <1>1, GatewayBlock
<1>5. /\ Len(t) = 3 /\ t[1] = ReplaceRoute("shared", g)
      /\ t[2] = ReplaceRoute("own", g) /\ t[3] = Book("gateway", g)
  OBVIOUS
<1>. HIDE DEF t, g, w
<1>6. Block(a, i, S, {})
  BY <1>4, EmptyBlock
<1>7. Block(b, i, {"addr"}, {"addr"})
  <2>1. "addr" \in RuleSlots \ Flags
    BY DEF RuleSlots, Flags
  <2>. QED
    BY <1>1, <2>1, RuleItemsBlock
<1>8. i.gateway = g \/ Has(a, Book("gateway", g))
  BY <1>5 DEF Has
<1>9. \A n \in 1 .. Len(a) :
        a[n].op = "book" /\ a[n].slot = "gateway" => a[n].value = g
  <2>1. CASE g = i.gateway
    BY <2>1
  <2>2. CASE g # i.gateway
    <3>1. a = t
      BY <2>2
    <3>. DEFINE r == ReplaceRoute("shared", g)
                o == ReplaceRoute("own", g)
                k == Book("gateway", g)
    <3>. HIDE DEF a, r, o, k
    <3>2. r.op = "route" /\ o.op = "route" /\ k.value = g
      BY <1>3 DEF r, o, k
    <3>3. Len(t) = 3 /\ t[1] = r /\ t[2] = o /\ t[3] = k
      BY <1>5 DEF r, o, k
    <3>4. ASSUME NEW n \in 1 .. Len(a), a[n].op = "book"
          PROVE  a[n].value = g
      <4>1. n = 1 \/ n = 2 \/ n = 3
        BY <3>1, <3>3
      <4>. QED
        BY <3>1, <3>2, <3>3, <3>4, <4>1
    <3>. QED
      BY <3>4
  <2>. QED
    BY <2>1, <2>2
<1>. HIDE DEF a, b, q
<1>10. Block(q, i, {"shared", "own", "gateway", "addr"}, {"addr"})
  <2>1. {"addr"} \cap S = {} /\ S \cup {"addr"} = {"shared", "own", "gateway", "addr"}
        /\ {} \cup {"addr"} = {"addr"}
    OBVIOUS
  <2>. HIDE DEF S
  <2>. QED
    BY <1>2, <1>6, <1>7, <2>1, ConcatBlock
<1>11. a \in Seq(Command) /\ b \in Seq(Command)
  BY <1>6, <1>7 DEF Block, Chain
<1>12. i.gateway = g \/ Has(q, Book("gateway", g))
  BY <1>2, <1>8, <1>11, HasConcat
<1>13. ASSUME NEW n \in 1 .. Len(q), q[n].op = "book", q[n].slot = "gateway"
       PROVE  q[n].value = g
  <2>1. Has(q, q[n])
    BY DEF Has
  <2>2. Has(a, q[n]) \/ Has(b, q[n])
    BY <1>2, <1>11, <2>1, HasConcat
  <2>3. ~Has(b, q[n])
    BY <1>7, <1>13 DEF Has, Block
  <2>. QED
    BY <1>9, <1>13, <2>2, <2>3 DEF Has
<1>. QED
  BY <1>10, <1>12, <1>13 DEF g, q

\* What is left of two lists put together is what is left of either.
LEMMA ConcatSame ==
    ASSUME NEW a, NEW b, NEW i, NEW S, Block(a, i, S, {}), Block(b, i, S, {})
    PROVE  /\ Block(a \o b, i, S, {})
           /\ \A c : Has(a \o b, c) <=> Has(a, c) \/ Has(b, c)
<1>1. {} \cap S = {} /\ S \cup S = S /\ {} \cup {} = {}
  OBVIOUS
<1>2. Block(a \o b, i, S \cup S, {} \cup {})
  <2>. DEFINE G == {}
  <2>1. Block(a, i, S, G) /\ Block(b, i, S, G) /\ G \cap S = {}
    OBVIOUS
  <2>. HIDE DEF G
  <2>2. Block(a \o b, i, S \cup S, G \cup G)
    BY <2>1, ConcatBlock
  <2>. QED
    BY <2>2 DEF G
<1>3. a \in Seq(Command) /\ b \in Seq(Command)
  BY DEF Block, Chain
<1>. QED
  BY <1>1, <1>2, <1>3, HasConcat

\* The route to the router, and what the list says of it.
LEMMA Route6ItemsBlock ==
    ASSUME NEW i, NEW ra \in Readable("ra")
    PROVE  LET q == Route6Items(i, ra)
           IN  /\ Block(q, i, {"route6"}, {})
               /\ ra # None =>
                    /\ Has(q, ReplaceRoute("route6", Route6(ra)))
                    /\ \A c : Has(q, c) /\ c.op = "route" =>
                         c.value = Route6(ra)
<1>. DEFINE q == Route6Items(i, ra)
            r == ReplaceRoute("route6", Route6(ra))
            t == Book("route6", TRUE)
            d == DelRoute("route6")
            f == Book("route6", FALSE)
<1>1. /\ d \in Command /\ t \in Command /\ f \in Command
      /\ ra # None => r \in Command
  <2>1. ra # None => Route6(ra) \in Values
    BY DEF Readable, Values
  <2>2. None \in Values
    BY DEF Values
  <2>. QED
    BY <2>1, <2>2 DEF Command, ReplaceRoute, DelRoute, Book, Item, RouteSlots
<1>2. /\ Begins(r) /\ Begins(d) /\ Ends(t) /\ Ends(f)
      /\ Link(r, t) /\ Link(d, f)
  BY DEF Begins, Ends, Link, ReplaceRoute, DelRoute, Book, Item, RuleSlots
<1>3. /\ r.slot = "route6" /\ d.slot = "route6" /\ t.slot = "route6"
      /\ f.slot = "route6" /\ r.op = "route" /\ d.op = "route"
      /\ t.op = "book" /\ f.op = "book" /\ r.value = Route6(ra)
  BY DEF ReplaceRoute, DelRoute, Book, Item
<1>4. q = IF ra # None THEN << r, t >>
          ELSE IF i.route6 THEN << d, f >>
          ELSE << >>
  BY DEF Route6Items
<1>. HIDE DEF q, r, t, d, f
<1>5. CASE ra # None
  <2>1. q = << r, t >>
    BY <1>4, <1>5
  <2>2. Block(q, i, {"route6"}, {})
    BY <1>1, <1>2, <1>3, <1>5, <2>1, TwoBlock
  <2>3. Len(q) = 2 /\ q[1] = r /\ q[2] = t
    BY <1>1, <1>5, <2>1, Tuples
  <2>4. Has(q, r)
    BY <2>3 DEF Has
  <2>5. ASSUME NEW c, Has(q, c), c.op = "route"
        PROVE  c.value = Route6(ra)
    <3>1. PICK n \in 1 .. Len(q) : q[n] = c
      BY <2>5 DEF Has
    <3>2. n = 1 \/ n = 2
      BY <2>3
    <3>. QED
      BY <1>3, <2>3, <2>5, <3>1, <3>2
  <2>. QED
    BY <1>5, <2>2, <2>4, <2>5 DEF q, r
<1>6. CASE ra = None /\ i.route6
  <2>1. q = << d, f >>
    BY <1>4, <1>6
  <2>2. Block(q, i, {"route6"}, {})
    BY <1>1, <1>2, <1>3, <2>1, TwoBlock
  <2>. QED
    BY <1>6, <2>2 DEF q
<1>7. CASE ra = None /\ ~i.route6
  <2>1. q = << >>
    BY <1>4, <1>7
  <2>2. Block(q, i, {"route6"}, {})
    BY <2>1, EmptyBlock
  <2>. QED
    BY <1>7, <2>2 DEF q
<1>. QED
  BY <1>5, <1>6, <1>7

LEMMA FwdItemsBlock ==
    ASSUME NEW i, NEW pd \in Readable("pd"), i.fwd \in Selectors
    PROVE  Block(FwdItems(i, pd), i, {"fwd"}, {})
<1>. DEFINE q == FwdItems(i, pd)
            new == NextFwd([inst |-> i], pd)
            d == Del("fwd")
            a == Add("fwd", new)
            b == Book("fwd", new)
<1>1. new \in Selectors /\ (new # i.fwd => new # None)
  <2>1. /\ pd \in Selectors /\ NoFrom \in Selectors /\ NoFrom # None
        /\ (pd # None => WantFwd(pd) \in Selectors /\ WantFwd(pd) # None)
    BY RoutingAssumption DEF Readable, Selectors, WantFwd
  <2>. QED
    BY <2>1 DEF NextFwd
<1>2. q = IF new = i.fwd THEN << >> ELSE << d, a, b >>
  BY DEF FwdItems
<1>. HIDE DEF new
<1>3. "fwd" \in RuleSlots \ Flags
  BY DEF RuleSlots, Flags
<1>4. /\ d \in Command /\ a \in Command /\ b \in Command
      /\ Begins(d) /\ Ends(b) /\ Link(d, a)
      /\ new # None => Link(a, b)
  BY <1>1, <1>3, RuleCommands DEF Selector, Means
<1>5. /\ d.slot = "fwd" /\ a.slot = "fwd" /\ b.slot = "fwd"
      /\ d.op = "del" /\ a.op = "add" /\ b.op = "book"
  BY DEF Del, Add, Book, Item
<1>. HIDE DEF q, d, a, b
<1>6. CASE new = i.fwd
  <2>1. Block(q, i, {"fwd"}, {})
    BY <1>2, <1>6, EmptyBlock
  <2>. QED
    BY <2>1 DEF q
<1>7. CASE new # i.fwd
  <2>1. Block(q, i, {"fwd"}, {})
    BY <1>1, <1>2, <1>4, <1>5, <1>7, ThreeBlock
  <2>. QED
    BY <2>1 DEF q
<1>. QED
  BY <1>6, <1>7

LEMMA ProhibitItemsBlock ==
    ASSUME NEW i, NEW pd, i.prohibit \in BOOLEAN
    PROVE  Block(ProhibitItems(i, pd), i, {"prohibit"}, {"prohibit"})
<1>. DEFINE s == "prohibit"
            q == ProhibitItems(i, pd)
            new == NextProhibit([inst |-> i], pd)
            d == Del(s)
            a == Add(s, NoFrom)
            b == Book(s, new)
<1>1. new \in BOOLEAN
  BY RoutingAssumption DEF NextProhibit
<1>2. q = IF new = i.prohibit THEN << >> ELSE << IF new THEN a ELSE d, b >>
  BY DEF ProhibitItems
<1>. HIDE DEF new
<1>3. s \in RuleSlots /\ s \in Flags
  BY DEF RuleSlots, Flags
<1>4. Selector(s, new) = NoFrom /\ (Means(s, new) <=> new = TRUE)
  BY <1>3 DEF Selector, Means
<1>5. /\ d \in Command /\ a \in Command /\ b \in Command
      /\ Begins(d) /\ Begins(a) /\ Ends(b)
      /\ new = TRUE => Link(a, b)
      /\ new # TRUE => Link(d, b)
  BY <1>1, <1>3, <1>4, RuleCommands
<1>6. /\ d.slot = s /\ a.slot = s /\ b.slot = s
      /\ d.op = "del" /\ a.op = "add" /\ b.op = "book"
  BY DEF Del, Add, Book, Item
<1>7. Means(s, i[s]) <=> i.prohibit = TRUE
  BY <1>3 DEF Means
<1>. HIDE DEF q, d, a, b
<1>8. CASE new = i.prohibit
  <2>1. Block(q, i, {s}, {s})
    BY <1>2, <1>8, EmptyBlock
  <2>. QED
    BY <2>1 DEF q
<1>9. CASE new = TRUE /\ i.prohibit = FALSE
  <2>1. q = << a, b >>
    BY <1>2, <1>9
  <2>. HIDE DEF s
  <2>2. Block(q, i, {s}, {s})
    BY <1>5, <1>6, <1>7, <1>9, <2>1, TwoBlock
  <2>. QED
    BY <2>2 DEF q, s
<1>10. CASE new = FALSE /\ i.prohibit = TRUE
  <2>1. q = << d, b >>
    BY <1>2, <1>10
  <2>. HIDE DEF s
  <2>2. Block(q, i, {s}, {s})
    BY <1>5, <1>6, <1>10, <2>1, TwoBlock
  <2>. QED
    BY <2>2 DEF q, s
<1>. QED
  BY <1>1, <1>8, <1>9, <1>10

\* The IPv6 part of a pass.
Slots6 == {"ipv6", "route6", "lo", "pdLo", "fwd", "prohibit"}
Bare6 == {"lo", "pdLo", "prohibit"}

LEMMA Items6Block ==
    ASSUME NEW i, NEW ra \in Readable("ra"), NEW pd \in Readable("pd"),
           NEW na \in Readable("na"), NEW isUp,
           i.fwd \in Selectors, i.prohibit \in BOOLEAN
    PROVE  LET q == Items6(i, ra, pd, na, isUp)
           IN  /\ Block(q, i, Slots6, Bare6)
               /\ Ipv6 /\ ra # None =>
                    /\ Has(q, ReplaceRoute("route6", Route6(ra)))
                    /\ \A c : Has(q, c) /\ c.op = "route" =>
                         c.value = Route6(ra)
<1>. DEFINE q == Items6(i, ra, pd, na, isUp)
            a == Route6Items(i, ra)
            b == RuleItems("lo", i.lo, WantSource(ra, na, isUp))
            c == RuleItems("pdLo", i.pdLo, WantPdSource(pd, isUp))
            d == FwdItems(i, pd)
            e == ProhibitItems(i, pd)
<1>1. WantSource(ra, na, isUp) \in Selectors
  BY DEF WantSource, Readable, Selectors
<1>2. WantPdSource(pd, isUp) \in Selectors
  BY DEF WantPdSource, Readable, Selectors
<1>3. /\ Block(a, i, {"route6"}, {})
      /\ ra # None =>
           /\ Has(a, ReplaceRoute("route6", Route6(ra)))
           /\ \A x : Has(a, x) /\ x.op = "route" => x.value = Route6(ra)
  BY Route6ItemsBlock
<1>4. Block(b, i, {"lo"}, {"lo"})
  <2>1. "lo" \in RuleSlots \ Flags
    BY DEF RuleSlots, Flags
  <2>. QED
    BY <1>1, <2>1, RuleItemsBlock
<1>5. Block(c, i, {"pdLo"}, {"pdLo"})
  <2>1. "pdLo" \in RuleSlots \ Flags
    BY DEF RuleSlots, Flags
  <2>. QED
    BY <1>2, <2>1, RuleItemsBlock
<1>6. Block(d, i, {"fwd"}, {}) /\ Block(e, i, {"prohibit"}, {"prohibit"})
  BY FwdItemsBlock, ProhibitItemsBlock
<1>7. q = IF ~Ipv6 THEN << >> ELSE (((a \o b) \o c) \o d) \o e
  BY DEF Items6
<1>. HIDE DEF a, b, c, d, e, q
<1>8. CASE ~Ipv6
  <2>1. Block(q, i, Slots6, Bare6)
    BY <1>7, <1>8, EmptyBlock
  <2>. QED
    BY <1>8, <2>1 DEF q
<1>9. CASE Ipv6
  <2>. DEFINE ab == a \o b
              abc == ab \o c
              abcd == abc \o d
              bcdeSlots == {"lo", "pdLo", "fwd", "prohibit"}
  <2>1. Block(ab, i, {"route6", "lo"}, {"lo"})
    <3>1. /\ {"lo"} \cap {"route6"} = {}
          /\ {"route6"} \cup {"lo"} = {"route6", "lo"}
          /\ {} \cup {"lo"} = {"lo"}
      OBVIOUS
    <3>2. Block(a \o b, i, {"route6"} \cup {"lo"}, {} \cup {"lo"})
      BY <1>3, <1>4, <3>1, ConcatBlock
    <3>. QED
      BY <3>1, <3>2
  <2>2. Block(abc, i, {"route6", "lo", "pdLo"}, {"lo", "pdLo"})
    <3>. HIDE DEF ab
    <3>1. /\ {"pdLo"} \cap {"route6", "lo"} = {}
          /\ {"route6", "lo"} \cup {"pdLo"} = {"route6", "lo", "pdLo"}
          /\ {"lo"} \cup {"pdLo"} = {"lo", "pdLo"}
      OBVIOUS
    <3>2. Block(ab \o c, i, {"route6", "lo"} \cup {"pdLo"},
                {"lo"} \cup {"pdLo"})
      BY <1>5, <2>1, <3>1, ConcatBlock
    <3>. QED
      BY <3>1, <3>2
  <2>3. Block(abcd, i, {"route6", "lo", "pdLo", "fwd"}, {"lo", "pdLo"})
    <3>. HIDE DEF abc
    <3>1. /\ {} \cap {"route6", "lo", "pdLo"} = {}
          /\ {"route6", "lo", "pdLo"} \cup {"fwd"}
               = {"route6", "lo", "pdLo", "fwd"}
          /\ {"lo", "pdLo"} \cup {} = {"lo", "pdLo"}
      OBVIOUS
    <3>2. Block(abc \o d, i, {"route6", "lo", "pdLo"} \cup {"fwd"},
                {"lo", "pdLo"} \cup {})
      BY <1>6, <2>2, <3>1, ConcatBlock
    <3>. QED
      BY <3>1, <3>2
  <2>4. Block(abcd \o e, i, {"route6", "lo", "pdLo", "fwd"} \cup {"prohibit"},
              {"lo", "pdLo"} \cup {"prohibit"})
    <3>. HIDE DEF abcd
    <3>1. {"prohibit"} \cap {"route6", "lo", "pdLo", "fwd"} = {}
      OBVIOUS
    <3>. QED
      BY <1>6, <2>3, <3>1, ConcatBlock
  <2>5. Block(q, i, Slots6, Bare6)
    <3>. HIDE DEF abcd
    <3>1. /\ {"route6", "lo", "pdLo", "fwd"} \cup {"prohibit"} \subseteq Slots6
          /\ {"lo", "pdLo"} \cup {"prohibit"} \subseteq Bare6
      BY DEF Slots6, Bare6
    <3>2. q = abcd \o e
      BY <1>7, <1>9 DEF abcd
    <3>. QED
      BY <2>4, <3>1, <3>2, WiderBlock
  <2>6. /\ a \in Seq(Command) /\ b \in Seq(Command) /\ c \in Seq(Command)
        /\ d \in Seq(Command) /\ e \in Seq(Command) /\ ab \in Seq(Command)
        /\ abc \in Seq(Command) /\ abcd \in Seq(Command)
    <3>. HIDE DEF ab, abc, abcd
    <3>. QED
      BY <1>3, <1>4, <1>5, <1>6, <2>1, <2>2, <2>3 DEF Block, Chain
  <2>7. \A x : Has(q, x) <=> \/ Has(a, x) \/ Has(b, x) \/ Has(c, x)
                             \/ Has(d, x) \/ Has(e, x)
    <3>1. \A x : Has(ab, x) <=> Has(a, x) \/ Has(b, x)
      BY <2>6, HasConcat
    <3>2. \A x : Has(abc, x) <=> Has(ab, x) \/ Has(c, x)
      <4>. HIDE DEF ab
      <4>. QED
        BY <2>6, HasConcat
    <3>3. \A x : Has(abcd, x) <=> Has(abc, x) \/ Has(d, x)
      <4>. HIDE DEF abc
      <4>. QED
        BY <2>6, HasConcat
    <3>4. \A x : Has(q, x) <=> Has(abcd, x) \/ Has(e, x)
      <4>1. q = abcd \o e
        BY <1>7, <1>9
      <4>. HIDE DEF abcd
      <4>. QED
        BY <2>6, <4>1, HasConcat
    <3>. HIDE DEF ab, abc, abcd
    <3>. QED
      BY <3>1, <3>2, <3>3, <3>4
  <2>. HIDE DEF ab, abc, abcd
  <2>8. ASSUME NEW x, x.op = "route",
               Has(b, x) \/ Has(c, x) \/ Has(d, x) \/ Has(e, x)
        PROVE  FALSE
    <3>1. x \in Command /\ x.slot \in {"lo", "pdLo", "fwd", "prohibit"}
      BY <1>4, <1>5, <1>6, <2>8, BlockHas
    <3>2. x.slot \in RouteSlots
      BY <2>8, <3>1 DEF Command
    <3>. QED
      BY <3>1, <3>2 DEF RouteSlots
  <2>9. ra # None =>
          /\ Has(q, ReplaceRoute("route6", Route6(ra)))
          /\ \A x : Has(q, x) /\ x.op = "route" => x.value = Route6(ra)
    BY <1>3, <2>7, <2>8
  <2>. QED
    BY <2>5, <2>9 DEF q
<1>. QED
  BY <1>8, <1>9

LEMMA FireBlock ==
    ASSUME NEW f \in {"ipv4", "ipv6"}, NEW i
    PROVE  /\ Fire(f) \in Command
           /\ Block(<< Fire(f) >>, i, {f}, {})
           /\ Fire(f).op = "fire"
<1>1. Fire(f) \in Command /\ Begins(Fire(f)) /\ Ends(Fire(f))
  BY DEF Fire, Item, Command, Begins, Ends
<1>2. Fire(f).slot = f /\ Fire(f).op = "fire"
  BY DEF Fire, Item
<1>. HIDE DEF Fire
<1>3. Block(<< Fire(f) >>, i, {f}, {})
  BY <1>1, <1>2, OneBlock
<1>. QED
  BY <1>1, <1>2, <1>3

\* The list of a whole pass of one family, whatever is fired before.
LEMMA Pass4Block ==
    ASSUME NEW i, NEW was, NEW is, ReadState("v4") \in Readable("v4")
    PROVE  LET q == Pass4(i, was, is)
               g == WantGateway(ReadState("v4"), is)
           IN  /\ Block(q, i, {"ipv4", "shared", "own", "gateway", "addr"},
                        {"addr"})
               /\ i.gateway = g \/ Has(q, Book("gateway", g))
               /\ \A c : Has(q, c) /\ c.op = "book" /\ c.slot = "gateway" =>
                    c.value = g
<1>. DEFINE g == WantGateway(ReadState("v4"), is)
            a == ForceDown("ipv4", was, is)
            b == Items4(i, ReadState("v4"), is)
            q == Pass4(i, was, is)
            S == {"shared", "own", "gateway", "addr"}
<1>1. /\ Block(b, i, S, {"addr"})
      /\ i.gateway = g \/ Has(b, Book("gateway", g))
      /\ \A c : Has(b, c) /\ c.op = "book" /\ c.slot = "gateway" =>
           c.value = g
  <2>. HIDE DEF b, g, q, a
  <2>1. /\ Block(b, i, S, {"addr"})
        /\ i.gateway = g \/ Has(b, Book("gateway", g))
        /\ \A n \in 1 .. Len(b) :
             b[n].op = "book" /\ b[n].slot = "gateway" => b[n].value = g
    BY Items4Block DEF b, g
  <2>2. \A c : Has(b, c) /\ c.op = "book" /\ c.slot = "gateway" =>
           c.value = g
    BY <2>1 DEF Has
  <2>. QED
    BY <2>1, <2>2
<1>2. Block(a, i, {"ipv4"}, {})
  BY FireBlock, EmptyBlock DEF ForceDown
<1>3. q = a \o b
  BY DEF Pass4
<1>. HIDE DEF q, a, b, g
<1>4. Block(q, i, {"ipv4"} \cup S, {} \cup {"addr"})
  <2>1. {"addr"} \cap {"ipv4"} = {}
    OBVIOUS
  <2>. HIDE DEF S
  <2>. QED
    BY <1>1, <1>2, <1>3, <2>1, ConcatBlock
<1>5. Block(q, i, {"ipv4", "shared", "own", "gateway", "addr"}, {"addr"})
  <2>1. /\ {"ipv4"} \cup S = {"ipv4", "shared", "own", "gateway", "addr"}
        /\ {} \cup {"addr"} = {"addr"}
    OBVIOUS
  <2>. QED
    BY <1>4, <2>1
<1>6. \A c : Has(q, c) <=> Has(a, c) \/ Has(b, c)
  <2>1. a \in Seq(Command) /\ b \in Seq(Command)
    BY <1>1, <1>2 DEF Block, Chain
  <2>. QED
    BY <1>3, <2>1, HasConcat
<1>7. \A c : Has(a, c) => c.slot = "ipv4"
  <2>1. \A c : Has(a, c) => c.slot \in {"ipv4"}
    BY <1>2, BlockHas
  <2>. QED
    BY <2>1
<1>8. /\ i.gateway = g \/ Has(q, Book("gateway", g))
      /\ \A c : Has(q, c) /\ c.op = "book" /\ c.slot = "gateway" =>
           c.value = g
  BY <1>1, <1>6, <1>7
<1>. QED
  BY <1>5, <1>8 DEF q, g

LEMMA Pass6Block ==
    ASSUME NEW i, NEW was, NEW is, i.fwd \in Selectors, i.prohibit \in BOOLEAN,
           ReadState("ra") \in Readable("ra"),
           ReadState("pd") \in Readable("pd"),
           ReadState("na") \in Readable("na")
    PROVE  LET q == Pass6(i, was, is)
               r == Route6(ReadState("ra"))
           IN  /\ Block(q, i, Slots6, Bare6)
               /\ Ipv6 /\ ReadState("ra") # None =>
                    /\ Has(q, ReplaceRoute("route6", r))
                    /\ \A c : Has(q, c) /\ c.op = "route" => c.value = r
<1>. DEFINE r == Route6(ReadState("ra"))
            a == ForceDown("ipv6", was, is)
            b == Items6(i, ReadState("ra"), ReadState("pd"), ReadState("na"),
                        is)
            q == Pass6(i, was, is)
            p == ReplaceRoute("route6", r)
            yes == Ipv6 /\ ReadState("ra") # None
<1>1. /\ Block(b, i, Slots6, Bare6)
      /\ yes => /\ Has(b, p)
                /\ \A c : Has(b, c) /\ c.op = "route" => c.value = r
  <2>. DEFINE ra == ReadState("ra")
              pd == ReadState("pd")
              na == ReadState("na")
  <2>. HIDE DEF ra, pd, na
  <2>1. ra \in Readable("ra") /\ pd \in Readable("pd") /\ na \in Readable("na")
    BY DEF ra, pd, na
  <2>2. LET s == Items6(i, ra, pd, na, is)
        IN  /\ Block(s, i, Slots6, Bare6)
            /\ Ipv6 /\ ra # None =>
                 /\ Has(s, ReplaceRoute("route6", Route6(ra)))
                 /\ \A c : Has(s, c) /\ c.op = "route" =>
                      c.value = Route6(ra)
    BY <2>1, Items6Block
  <2>. QED
    BY <2>2 DEF ra, pd, na
<1>2. Block(a, i, {"ipv6"}, {}) /\ \A c : Has(a, c) => c.op = "fire"
  <2>1. CASE was /\ ~is
    <3>1. a = << Fire("ipv6") >>
      BY <2>1 DEF ForceDown
    <3>2. Block(a, i, {"ipv6"}, {})
      BY <3>1, FireBlock
    <3>3. ASSUME NEW c, Has(a, c) PROVE c.op = "fire"
      <4>1. Len(a) = 1 /\ a[1] = Fire("ipv6")
        BY <3>1
      <4>. HIDE DEF a
      <4>2. c = Fire("ipv6")
        BY <3>3, <4>1 DEF Has
      <4>. QED
        BY <4>2, FireBlock
    <3>. QED
      BY <3>2, <3>3
  <2>2. CASE ~(was /\ ~is)
    <3>1. a = << >>
      BY <2>2 DEF ForceDown
    <3>. QED
      BY <3>1, EmptyBlock DEF Has
  <2>. QED
    BY <2>1, <2>2
<1>3. q = a \o b
  BY DEF Pass6
<1>. HIDE DEF q, a, b, r, p, yes
<1>4. Block(q, i, {"ipv6"} \cup Slots6, {} \cup Bare6)
  <2>1. Bare6 \cap {"ipv6"} = {}
    BY DEF Bare6
  <2>. QED
    BY <1>1, <1>2, <1>3, <2>1, ConcatBlock
<1>5. Block(q, i, Slots6, Bare6)
  <2>1. {"ipv6"} \cup Slots6 = Slots6 /\ {} \cup Bare6 = Bare6
    BY DEF Slots6
  <2>. QED
    BY <1>4, <2>1
<1>6. \A c : Has(q, c) <=> Has(a, c) \/ Has(b, c)
  <2>1. a \in Seq(Command) /\ b \in Seq(Command)
    BY <1>1, <1>2 DEF Block, Chain
  <2>. QED
    BY <1>3, <2>1, HasConcat
<1>7. yes => /\ Has(q, p)
             /\ \A c : Has(q, c) /\ c.op = "route" => c.value = r
  BY <1>1, <1>2, <1>6
<1>. QED
  BY <1>5, <1>7 DEF q, r, p, yes

\* Nothing is remembered at first.
LEMMA EmptyInstFacts ==
    /\ DOMAIN EmptyInst = InstFields
    /\ EmptyInst.gateway = None
    /\ \A s \in RuleSlots \ Flags : EmptyInst[s] = None
    /\ \A s \in Flags \cup {"route6"} : EmptyInst[s] = FALSE
    /\ \A s \in RuleSlots : ~Means(s, EmptyInst[s])
<1>1. /\ DOMAIN EmptyInst = InstFields
      /\ EmptyInst.gateway = None
      /\ EmptyInst.addr = None /\ EmptyInst.lo = None /\ EmptyInst.pdLo = None
      /\ EmptyInst.fwd = None /\ EmptyInst.prohibit = FALSE
      /\ EmptyInst.policy = FALSE /\ EmptyInst.route6 = FALSE
  BY DEF EmptyInst, NoInst, InstFields, RuleSlots
<1>. HIDE DEF EmptyInst
<1>2. /\ \A s \in RuleSlots \ Flags : EmptyInst[s] = None
      /\ \A s \in Flags \cup {"route6"} : EmptyInst[s] = FALSE
  BY <1>1 DEF RuleSlots, Flags
<1>3. \A s \in RuleSlots : ~Means(s, EmptyInst[s])
  BY <1>2 DEF Means
<1>. QED
  BY <1>1, <1>2, <1>3

LEMMA SetupBlock ==
    Block(SetupItems, EmptyInst, {"policy", "fwd"}, {"policy", "fwd"})
<1>. DEFINE ap == Add("policy", NoFrom)
            bp == Book("policy", TRUE)
            af == Add("fwd", NoFrom)
            bf == Book("fwd", NoFrom)
            a == << ap, bp >>
            b == IF uplink.pd THEN << af, bf >> ELSE << >>
            q == SetupItems
<1>1. /\ "policy" \in RuleSlots /\ "policy" \in Flags /\ "fwd" \in RuleSlots
      /\ "fwd" \notin Flags /\ NoFrom \in Selectors /\ NoFrom # None
  BY RoutingAssumption DEF RuleSlots, Flags, Selectors
<1>2. /\ ap \in Command /\ bp \in Command /\ af \in Command /\ bf \in Command
      /\ Begins(ap) /\ Begins(af) /\ Ends(bp) /\ Ends(bf)
      /\ Link(ap, bp) /\ Link(af, bf)
  <2>1. /\ Selector("policy", TRUE) = NoFrom /\ Means("policy", TRUE)
        /\ Selector("fwd", NoFrom) = NoFrom /\ Means("fwd", NoFrom)
    BY <1>1 DEF Selector, Means
  <2>2. /\ ap \in Command /\ bp \in Command /\ Begins(ap) /\ Ends(bp)
        /\ Link(ap, bp)
    BY <1>1, <2>1, RuleCommands
  <2>3. /\ af \in Command /\ bf \in Command /\ Begins(af) /\ Ends(bf)
        /\ Link(af, bf)
    BY <1>1, <2>1, RuleCommands
  <2>. QED
    BY <2>2, <2>3
<1>3. /\ ap.slot = "policy" /\ bp.slot = "policy" /\ af.slot = "fwd"
      /\ bf.slot = "fwd" /\ ap.op = "add" /\ bp.op = "book" /\ af.op = "add"
      /\ bf.op = "book"
  BY DEF Add, Book, Item
<1>4. ~Means("policy", EmptyInst["policy"]) /\ ~Means("fwd", EmptyInst["fwd"])
  BY <1>1, EmptyInstFacts
<1>5. q = a \o b
  BY DEF SetupItems
<1>. HIDE DEF ap, bp, af, bf, q, SetupItems
<1>6. Block(a, EmptyInst, {"policy"}, {"policy"})
  BY <1>2, <1>3, <1>4, TwoBlock
<1>7. Block(b, EmptyInst, {"fwd"}, {"fwd"})
  <2>1. Block(<< af, bf >>, EmptyInst, {"fwd"}, {"fwd"})
    BY <1>2, <1>3, <1>4, TwoBlock
  <2>. QED
    BY <2>1, EmptyBlock
<1>8. Block(q, EmptyInst, {"policy"} \cup {"fwd"}, {"policy"} \cup {"fwd"})
  <2>1. {"fwd"} \cap {"policy"} = {}
    OBVIOUS
  <2>. HIDE DEF a, b
  <2>. QED
    BY <1>5, <1>6, <1>7, <2>1, ConcatBlock
<1>9. {"policy"} \cup {"fwd"} = {"policy", "fwd"}
  OBVIOUS
<1>. QED
  BY <1>8, <1>9 DEF q

\* The list of the start.
AllSlots == KernSlots \cup InstFields \cup {"ipv4", "ipv6"}

Readings == \A f \in FileNames : ReadState(f) \in Readable(f)

LEMMA StartBlock ==
    ASSUME NEW u4, NEW u6, Readings
    PROVE  LET p4 == Pass4(SetUp, TRUE, u4)
               p6 == Pass6(SetUp, TRUE, u6)
               q == SetupItems \o p4 \o p6
               g == WantGateway(ReadState("v4"), u4)
               r == Route6(ReadState("ra"))
           IN  /\ Block(q, EmptyInst, AllSlots, AllSlots)
               /\ g = None \/ Has(q, Book("gateway", g))
               /\ \A c : Has(q, c) /\ c.op = "book" /\ c.slot = "gateway" =>
                    c.value = g
               /\ Ipv6 /\ ReadState("ra") # None =>
                    /\ Has(q, ReplaceRoute("route6", r))
                    /\ \A c : Has(q, c) /\ c.op = "route"
                                /\ c.slot = "route6" => c.value = r
<1>. DEFINE p4 == Pass4(SetUp, TRUE, u4)
            p6 == Pass6(SetUp, TRUE, u6)
            s == SetupItems
            sp == s \o p4
            q == sp \o p6
            g == WantGateway(ReadState("v4"), u4)
            r == Route6(ReadState("ra"))
            gb == Book("gateway", g)
            rr == ReplaceRoute("route6", r)
            S == {"policy", "fwd"}
            S4 == {"ipv4", "shared", "own", "gateway", "addr"}
            yes == Ipv6 /\ ReadState("ra") # None
<1>1. /\ SetUp.gateway = None /\ SetUp.fwd \in Selectors
      /\ SetUp.prohibit = FALSE
  <2>1. /\ EmptyInst.gateway = None /\ EmptyInst.prohibit = FALSE
        /\ DOMAIN EmptyInst = InstFields
    BY EmptyInstFacts DEF Flags
  <2>2. {"policy", "fwd", "gateway", "prohibit"} \subseteq InstFields
    BY DEF InstFields, RuleSlots
  <2>3. NoFrom \in Selectors /\ None \in Selectors
    BY DEF Selectors
  <2>. QED
    BY <2>1, <2>2, <2>3 DEF SetUp
<1>2. /\ ReadState("v4") \in Readable("v4")
      /\ ReadState("ra") \in Readable("ra")
      /\ ReadState("pd") \in Readable("pd")
      /\ ReadState("na") \in Readable("na")
  BY DEF Readings, FileNames
<1>3. /\ Block(p4, SetUp, S4, {"addr"})
      /\ g = None \/ Has(p4, gb)
      /\ \A c : Has(p4, c) /\ c.op = "book" /\ c.slot = "gateway" =>
           c.value = g
  <2>1. SetUp.gateway = g \/ Has(p4, gb)
    BY <1>2, Pass4Block
  <2>. QED
    BY <1>1, <1>2, <2>1, Pass4Block
<1>4. /\ Block(p6, SetUp, Slots6, Bare6)
      /\ yes => /\ Has(p6, rr)
                /\ \A c : Has(p6, c) /\ c.op = "route" => c.value = r
  BY <1>1, <1>2, Pass6Block
<1>5. Block(s, EmptyInst, S, S)
  BY SetupBlock
<1>. HIDE DEF p4, p6, s, g, r, gb, rr, yes
<1>6. /\ Block(p4, EmptyInst, S4, {"addr"})
      /\ Block(p6, EmptyInst, Slots6, Bare6)
  <2>1. /\ \A x \in {"addr"} : ~Means(x, EmptyInst[x])
        /\ \A x \in Bare6 : ~Means(x, EmptyInst[x])
    BY EmptyInstFacts DEF Bare6, RuleSlots
  <2>. QED
    BY <1>3, <1>4, <2>1, BlockFor
<1>7. Block(sp, EmptyInst, S \cup S4, S \cup {"addr"})
  <2>1. {"addr"} \cap S = {}
    OBVIOUS
  <2>. HIDE DEF S, S4
  <2>. QED
    BY <1>5, <1>6, <2>1, ConcatBlock
<1>8. Block(q, EmptyInst, (S \cup S4) \cup Slots6, (S \cup {"addr"}) \cup Bare6)
  <2>1. Bare6 \cap (S \cup S4) = {}
    BY DEF Bare6
  <2>. HIDE DEF S, S4, sp
  <2>. QED
    BY <1>6, <1>7, <2>1, ConcatBlock DEF q
<1>9. Block(q, EmptyInst, AllSlots, AllSlots)
  <2>1. /\ (S \cup S4) \cup Slots6 \subseteq AllSlots
        /\ (S \cup {"addr"}) \cup Bare6 \subseteq AllSlots
    BY DEF Slots6, Bare6, AllSlots, KernSlots, InstFields, RouteSlots,
           RuleSlots
  <2>. HIDE DEF S, S4, q
  <2>. QED
    BY <1>8, <2>1, WiderBlock
<1>10. \A c : Has(q, c) <=> Has(s, c) \/ Has(p4, c) \/ Has(p6, c)
  <2>1. /\ s \in Seq(Command) /\ p4 \in Seq(Command)
        /\ p6 \in Seq(Command)
    BY <1>3, <1>4, <1>5 DEF Block, Chain
  <2>2. sp \in Seq(Command)
    BY <2>1, ConcatProperties
  <2>3. \A c : Has(sp, c) <=> Has(s, c) \/ Has(p4, c)
    BY <2>1, HasConcat
  <2>4. \A c : Has(q, c) <=> Has(sp, c) \/ Has(p6, c)
    <3>. HIDE DEF sp
    <3>. QED
      BY <2>1, <2>2, HasConcat
  <2>. HIDE DEF sp, q
  <2>. QED
    BY <2>3, <2>4
<1>11. /\ \A c : Has(s, c) => c.slot \in S
       /\ \A c : Has(p4, c) => c.slot \in S4
       /\ \A c : Has(p6, c) => c.slot \in Slots6
  BY <1>3, <1>4, <1>5, BlockHas
<1>. HIDE DEF q
<1>12. /\ g = None \/ Has(q, gb)
       /\ \A c : Has(q, c) /\ c.op = "book" /\ c.slot = "gateway" =>
            c.value = g
  BY <1>3, <1>10, <1>11 DEF Slots6
<1>13. yes => /\ Has(q, rr)
              /\ \A c : Has(q, c) /\ c.op = "route" /\ c.slot = "route6" =>
                   c.value = r
  BY <1>4, <1>10, <1>11
<1>. QED
  BY <1>9, <1>12, <1>13 DEF q, sp, s, p4, p6, g, r, gb, rr, yes

\* Undoing one thing, and everything.
Unset(s) == IF s \in Flags THEN FALSE ELSE None

LEMMA ForgetBlock ==
    ASSUME NEW s \in RuleSlots, NEW i, NEW installed \in BOOLEAN
    PROVE  LET q == Forget(s, installed, Unset(s))
           IN  /\ Block(q, i, AllSlots, {})
               /\ installed => Has(q, Book(s, Unset(s)))
               /\ \A c : Has(q, c) /\ c.op = "book" =>
                    ~Means(c.slot, c.value)
<1>. DEFINE v == Unset(s)
            q == Forget(s, installed, v)
            d == Del(s)
            b == Book(s, v)
<1>1. v \in (IF s \in Flags THEN BOOLEAN ELSE Selectors) /\ ~Means(s, v)
  BY DEF Unset, Selectors, Means
<1>2. /\ d \in Command /\ b \in Command /\ Begins(d) /\ Ends(b) /\ Link(d, b)
  <2>. HIDE DEF v
  <2>. QED
    BY <1>1, RuleCommands
<1>3. /\ d.slot = s /\ b.slot = s /\ d.op = "del" /\ b.op = "book"
      /\ b.value = v
  BY DEF Del, Book, Item
<1>4. s \in AllSlots
  BY DEF AllSlots, KernSlots
<1>5. q = IF installed THEN << d, b >> ELSE << >>
  BY DEF Forget
<1>. HIDE DEF q, d, b, v
<1>6. CASE installed
  <2>1. q = << d, b >>
    BY <1>5, <1>6
  <2>2. Block(q, i, AllSlots, {})
    BY <1>2, <1>3, <1>4, <2>1, TwoBlock
  <2>3. Len(q) = 2 /\ q[1] = d /\ q[2] = b
    BY <1>2, <2>1, Tuples
  <2>4. Has(q, b)
    BY <2>3 DEF Has
  <2>5. ASSUME NEW c, Has(q, c), c.op = "book"
        PROVE  ~Means(c.slot, c.value)
    <3>1. PICK n \in 1 .. Len(q) : q[n] = c
      BY <2>5 DEF Has
    <3>2. n = 1 \/ n = 2
      BY <2>3
    <3>. QED
      BY <1>1, <1>3, <2>3, <2>5, <3>1, <3>2
  <2>. QED
    BY <2>2, <2>4, <2>5 DEF q, b, v
<1>7. CASE ~installed
  <2>1. q = << >>
    BY <1>5, <1>7
  <2>2. Block(q, i, AllSlots, {}) /\ \A c : ~Has(q, c)
    BY <2>1, EmptyBlock DEF Has
  <2>. QED
    BY <1>7, <2>2 DEF q, v
<1>. QED
  BY <1>6, <1>7

LEMMA TeardownBlock ==
    ASSUME NEW i, i.prohibit \in BOOLEAN, i.policy \in BOOLEAN,
           ~Ipv6 => \A s \in Rules6 : ~Means(s, i[s])
    PROVE  LET q == TeardownItems(i)
           IN  /\ Block(q, i, AllSlots, {})
               /\ \A s \in RuleSlots :
                    Means(s, i[s]) => Has(q, Book(s, Unset(s)))
               /\ \A c : Has(q, c) /\ c.op = "book" /\ c.slot \in RuleSlots =>
                    ~Means(c.slot, c.value)
<1>. DEFINE g == IF i.gateway = None THEN << >>
                 ELSE << DelRoute("shared"), DelRoute("own"),
                         Book("gateway", None) >>
            r == IF i.route6
                 THEN << DelRoute("route6"), Book("route6", FALSE) >>
                 ELSE << >>
            part == [s \in RuleSlots |->
                       Forget(s, Means(s, i[s]) = TRUE, Unset(s))]
            q == TeardownItems(i)
            p2 == g \o part["addr"]
            t1 == r \o part["lo"]
            t2 == t1 \o part["pdLo"]
            t3 == t2 \o part["fwd"]
            t4 == t3 \o part["prohibit"]
            m == IF Ipv6 THEN t4 ELSE << >>
            p3 == p2 \o m
<1>1. q = p3 \o part["policy"]
  <2>1. t4 = Teardown6Items(i)
    BY DEF Teardown6Items, Unset, Means, Flags, RuleSlots, Forget
  <2>2. p2 = g \o Forget("addr", i.addr # None, None)
    BY DEF Unset, Means, Flags, RuleSlots, Forget
  <2>3. part["policy"] = Forget("policy", i.policy, FALSE)
    BY DEF Unset, Means, Flags, RuleSlots, Forget
  <2>. HIDE DEF t4, p2, part
  <2>. QED
    BY <2>1, <2>2, <2>3 DEF TeardownItems
<1>2. Block(g, i, AllSlots, {}) /\ \A c : Has(g, c) => c.slot \notin RuleSlots
  <2>1. None \in Values
    BY DEF Values
  <2>2. /\ DelRoute("shared") = ReplaceRoute("shared", None)
        /\ DelRoute("own") = ReplaceRoute("own", None)
    BY DEF DelRoute, ReplaceRoute
  <2>. DEFINE gs == {"shared", "own", "gateway"}
  <2>3. Block(g, i, gs, {})
    BY <2>1, <2>2, GatewayBlock, EmptyBlock
  <2>. HIDE DEF g
  <2>4. Block(g, i, AllSlots, {})
    <3>1. gs \subseteq AllSlots
      BY DEF AllSlots, KernSlots, InstFields, RouteSlots
    <3>. HIDE DEF gs
    <3>. QED
      BY <2>3, <3>1, WiderBlock
  <2>5. \A c : Has(g, c) => c.slot \in gs
    BY <2>3, BlockHas
  <2>. QED
    BY <2>4, <2>5 DEF RuleSlots
<1>3. Block(r, i, AllSlots, {}) /\ \A c : Has(r, c) => c.slot \notin RuleSlots
  <2>1. None \in Readable("ra")
    BY DEF Readable
  <2>2. Route6Items(i, None) = r
    BY DEF Route6Items
  <2>. HIDE DEF r
  <2>3. Block(r, i, {"route6"}, {})
    BY <2>1, <2>2, Route6ItemsBlock
  <2>4. {"route6"} \subseteq AllSlots
    BY DEF AllSlots, KernSlots, RouteSlots
  <2>5. \A c : Has(r, c) => c.slot \in {"route6"}
    BY <2>3, BlockHas
  <2>6. Block(r, i, AllSlots, {})
    BY <2>3, <2>4, WiderBlock
  <2>. QED
    BY <2>5, <2>6 DEF RuleSlots
<1>4. ASSUME NEW s \in RuleSlots
      PROVE  /\ Block(part[s], i, AllSlots, {})
             /\ Means(s, i[s]) => Has(part[s], Book(s, Unset(s)))
             /\ \A c : Has(part[s], c) /\ c.op = "book" =>
                  ~Means(c.slot, c.value)
  <2>1. part[s] = Forget(s, Means(s, i[s]) = TRUE, Unset(s))
    OBVIOUS
  <2>. DEFINE known == Means(s, i[s]) = TRUE
  <2>2. known \in BOOLEAN /\ (Means(s, i[s]) => known)
    OBVIOUS
  <2>. HIDE DEF known, part
  <2>3. part[s] = Forget(s, known, Unset(s))
    BY <2>1 DEF known
  <2>. QED
    BY <2>2, <2>3, ForgetBlock
<1>5. /\ "addr" \in RuleSlots /\ "lo" \in RuleSlots /\ "pdLo" \in RuleSlots
      /\ "fwd" \in RuleSlots /\ "prohibit" \in RuleSlots
      /\ "policy" \in RuleSlots
      /\ \A s \in RuleSlots :
           \/ s = "addr" \/ s = "lo" \/ s = "pdLo" \/ s = "fwd"
           \/ s = "prohibit" \/ s = "policy"
  BY DEF RuleSlots
<1>. HIDE DEF g, r, part, q
<1>6. \A a, b : Block(a, i, AllSlots, {}) /\ Block(b, i, AllSlots, {}) =>
        /\ Block(a \o b, i, AllSlots, {})
        /\ \A c : Has(a \o b, c) <=> Has(a, c) \/ Has(b, c)
  BY ConcatSame
<1>7. /\ Block(p2, i, AllSlots, {})
      /\ \A c : Has(p2, c) <=> Has(g, c) \/ Has(part["addr"], c)
  BY <1>2, <1>4, <1>5, <1>6
<1>. HIDE DEF p2
<1>8. /\ Block(t1, i, AllSlots, {})
      /\ \A c : Has(t1, c) <=> Has(r, c) \/ Has(part["lo"], c)
  BY <1>3, <1>4, <1>5, <1>6
<1>. HIDE DEF t1
<1>9. /\ Block(t2, i, AllSlots, {})
      /\ \A c : Has(t2, c) <=> Has(t1, c) \/ Has(part["pdLo"], c)
  BY <1>4, <1>5, <1>8, <1>6
<1>. HIDE DEF t2
<1>10. /\ Block(t3, i, AllSlots, {})
       /\ \A c : Has(t3, c) <=> Has(t2, c) \/ Has(part["fwd"], c)
  BY <1>4, <1>5, <1>9, <1>6
<1>. HIDE DEF t3
<1>11. /\ Block(t4, i, AllSlots, {})
       /\ \A c : Has(t4, c) <=> Has(t3, c) \/ Has(part["prohibit"], c)
  BY <1>4, <1>5, <1>10, <1>6
<1>. HIDE DEF t4
<1>12. /\ Block(m, i, AllSlots, {})
       /\ \A c : Has(m, c) <=> Ipv6 /\ Has(t4, c)
  BY <1>11, EmptyBlock DEF Has
<1>. HIDE DEF m
<1>13. /\ Block(p3, i, AllSlots, {})
       /\ \A c : Has(p3, c) <=> Has(p2, c) \/ Has(m, c)
  BY <1>7, <1>12, <1>6
<1>. HIDE DEF p3
<1>14. /\ Block(q, i, AllSlots, {})
       /\ \A c : Has(q, c) <=> Has(p3, c) \/ Has(part["policy"], c)
  BY <1>1, <1>4, <1>5, <1>13, <1>6
<1>15. \A c : Has(q, c) => \/ Has(g, c) \/ Has(r, c)
                            \/ \E s \in RuleSlots : Has(part[s], c)
  BY <1>5, <1>7, <1>8, <1>9, <1>10, <1>11, <1>12, <1>13, <1>14
<1>16. ASSUME NEW s \in RuleSlots, Means(s, i[s])
       PROVE  Has(q, Book(s, Unset(s)))
  <2>1. s \in Rules6 => Ipv6
    BY <1>16
  <2>2. Has(part[s], Book(s, Unset(s)))
    BY <1>4, <1>16
  <2>3. \A c : Has(part[s], c) => Has(q, c)
    <3>1. s \in Rules6 \/ s = "addr" \/ s = "policy"
      BY <1>5 DEF Rules6
    <3>. QED
      BY <2>1, <3>1, <1>7, <1>8, <1>9, <1>10, <1>11, <1>12, <1>13, <1>14
         DEF Rules6
  <2>. QED
    BY <2>2, <2>3
<1>17. \A c : Has(q, c) /\ c.op = "book" /\ c.slot \in RuleSlots =>
         ~Means(c.slot, c.value)
  BY <1>2, <1>3, <1>4, <1>15
<1>. QED
  BY <1>14, <1>16, <1>17 DEF q

-----------------------------------------------------------------------------
\* What is read, and what is left after the first command.

LEMMA Read == ASSUME Types PROVE Readings
<1>. SUFFICES ASSUME NEW f \in FileNames
              PROVE  ReadState(f) \in Written(f) \cup {None}
  BY DEF Readings, Readable
<1>1. uplink \in Uplinks /\ file[f] \in uplink.contents[f] \cup {None}
  BY DEF Types
<1>2. CASE file[f] = Malformed
  BY <1>2 DEF ReadState
<1>3. CASE file[f] # Malformed /\ file[f] # None
  <2>1. file[f] \in uplink.contents[f] \ {Malformed} /\ ReadState(f) = file[f]
    BY <1>1, <1>3 DEF ReadState
  <2>. QED
    BY <1>1, <2>1 DEF Written
<1>4. CASE file[f] = None
  BY <1>4 DEF ReadState
<1>. QED
  BY <1>2, <1>3, <1>4

LEMMA Rest ==
    ASSUME NEW q, Chain(q), q # << >>
    PROVE  /\ Head(q) = q[1] /\ q[1] \in Command
           /\ Chain(Tail(q))
           /\ Len(q) \in Nat /\ Len(Tail(q)) = Len(q) - 1
           /\ \A n \in 1 .. Len(Tail(q)) :
                n + 1 \in 1 .. Len(q) /\ Tail(q)[n] = q[n + 1]
           /\ \A n \in 1 .. Len(q) :
                n = 1 \/ (n - 1 \in 1 .. Len(Tail(q))
                            /\ Tail(q)[n - 1] = q[n])
           /\ Tail(q) # << >> => Link(q[1], Tail(q)[1])
           /\ Tail(q) = << >> => Ends(q[1])
           /\ \A c : Has(q, c) => c = q[1] \/ Has(Tail(q), c)
           /\ \A c : Has(Tail(q), c) => Has(q, c)
<1>. DEFINE t == Tail(q)
<1>1. /\ q \in Seq(Command)
      /\ \A n \in 1 .. Len(q) - 1 : Link(q[n], q[n + 1])
      /\ Ends(q[Len(q)])
  BY DEF Chain
<1>2. /\ Head(q) = q[1] /\ q[1] \in Command /\ Len(q) \in Nat /\ Len(q) > 0
      /\ t \in Seq(Command) /\ Len(t) = Len(q) - 1
      /\ \A n \in 1 .. Len(t) : t[n] = q[n + 1]
  BY <1>1, HeadTailProperties
<1>. HIDE DEF t
<1>3. \A n \in 1 .. Len(t) : n + 1 \in 1 .. Len(q)
  BY <1>2
<1>4. \A n \in 1 .. Len(q) :
        n = 1 \/ (n - 1 \in 1 .. Len(t) /\ t[n - 1] = q[n])
  <2>. SUFFICES ASSUME NEW n \in 1 .. Len(q), n # 1
                PROVE  n - 1 \in 1 .. Len(t) /\ t[n - 1] = q[n]
    OBVIOUS
  <2>1. n - 1 \in 1 .. Len(t) /\ n - 1 + 1 = n
    BY <1>2
  <2>. QED
    BY <1>2, <2>1
<1>5. \A n \in 1 .. Len(t) - 1 : Link(t[n], t[n + 1])
  <2>. TAKE n \in 1 .. Len(t) - 1
  <2>1. /\ n \in 1 .. Len(t) /\ n + 1 \in 1 .. Len(t)
        /\ n + 1 \in 1 .. Len(q) - 1
    BY <1>2
  <2>2. t[n] = q[n + 1] /\ t[n + 1] = q[n + 1 + 1]
    BY <1>2, <2>1
  <2>. QED
    BY <1>1, <2>1, <2>2
<1>6. t # << >> => Ends(t[Len(t)]) /\ Link(q[1], t[1])
  <2>. SUFFICES ASSUME t # << >>
                PROVE  Ends(t[Len(t)]) /\ Link(q[1], t[1])
    OBVIOUS
  <2>1. Len(t) > 0
    BY <1>2
  <2>2. t[Len(t)] = q[Len(q)] /\ t[1] = q[2] /\ 1 \in 1 .. Len(q) - 1
    BY <1>2, <2>1
  <2>. QED
    BY <1>1, <2>2
<1>7. t = << >> => Ends(q[1])
  <2>. SUFFICES ASSUME t = << >>
                PROVE  Ends(q[1])
    OBVIOUS
  <2>1. Len(q) = 1
    BY <1>2
  <2>. QED
    BY <1>1, <2>1
<1>8. Chain(t)
  BY <1>2, <1>5, <1>6 DEF Chain
<1>9. \A c : Has(q, c) => c = q[1] \/ Has(t, c)
  BY <1>4 DEF Has
<1>10. \A c : Has(t, c) => Has(q, c)
  BY <1>2, <1>3 DEF Has
<1>. QED
  BY <1>2, <1>3, <1>4, <1>6, <1>7, <1>8, <1>9, <1>10 DEF t

\* The slots are what they are called, and a command is about one kind.
LEMMA Slots ==
    /\ Flags \subseteq RuleSlots /\ RuleSlots \cap RouteSlots = {}
    /\ RuleSlots \subseteq KernSlots /\ RouteSlots \subseteq KernSlots
    /\ RuleSlots \subseteq InstFields /\ "gateway" \in InstFields \ RuleSlots
    /\ "route6" \in RouteSlots /\ "shared" \in RouteSlots
    /\ "own" \in RouteSlots /\ "route6" \in InstFields
    /\ {"ipv4", "ipv6"} \cap (KernSlots \cup InstFields) = {}
BY DEF Flags, RuleSlots, RouteSlots, KernSlots, InstFields

LEMMA Kinds ==
    ASSUME NEW c \in Command
    PROVE  /\ c.op \in {"route", "add", "del", "book", "fire"}
           /\ c.op = "route" => c.slot \in RouteSlots /\ c.value \in Values
           /\ c.op = "add" => c.slot \in RuleSlots /\ c.value \in Selectors
           /\ c.op = "del" => c.slot \in RuleSlots
           /\ c.op = "fire" => c.slot \in {"ipv4", "ipv6"}
           /\ c.op = "book" =>
                /\ c.slot \in InstFields
                /\ c.slot \in RuleSlots \ Flags => c.value \in Selectors
                /\ c.slot \in Flags \cup {"route6"} => c.value \in BOOLEAN
<1>1. CASE c \in [op : {"route"}, slot : RouteSlots, value : Values]
  BY <1>1
<1>2. CASE c \in [op : {"add"}, slot : RuleSlots, value : Selectors]
  BY <1>2
<1>3. CASE c \in [op : {"del"}, slot : RuleSlots, value : {None}]
  BY <1>3
<1>4. CASE c \in [op : {"book"}, slot : {"gateway"}, value : Values]
  BY <1>4, Slots DEF RuleSlots
<1>5. CASE c \in [op : {"book"}, slot : RuleSlots \ Flags, value : Selectors]
  BY <1>5, Slots DEF RuleSlots
<1>6. CASE c \in [op : {"book"}, slot : Flags \cup {"route6"},
                  value : BOOLEAN]
  BY <1>6, Slots DEF RuleSlots
<1>7. CASE c \in [op : {"fire"}, slot : {"ipv4", "ipv6"}, value : {None}]
  BY <1>7
<1>. QED
  BY <1>1, <1>2, <1>3, <1>4, <1>5, <1>6, <1>7 DEF Command

\* What a rule slot may hold.
LEMMA RuleSlot ==
    ASSUME NEW q \in Seq(Selectors), NEW v \in Selectors
    PROVE  /\ AddRule(q, v) \in Seq(Selectors) /\ DelRule(q) \in Seq(Selectors)
           /\ Contains(AddRule(q, v), v)
           /\ Len(q) \in Nat /\ Len(AddRule(q, v)) =< Len(q) + 1
           /\ Len(DelRule(q)) = IF Len(q) = 0 THEN 0 ELSE Len(q) - 1
<1>1. Len(q) \in Nat /\ DOMAIN q = 1 .. Len(q)
  OBVIOUS
<1>2. CASE \E n \in DOMAIN q : q[n] = v
  <2>1. AddRule(q, v) = q /\ Contains(q, v)
    BY <1>1, <1>2 DEF AddRule, Contains
  <2>. QED
    BY <1>1, <2>1 DEF DelRule
<1>3. CASE ~\E n \in DOMAIN q : q[n] = v
  <2>1. AddRule(q, v) = Append(q, v)
    BY <1>3 DEF AddRule
  <2>2. /\ Append(q, v) \in Seq(Selectors) /\ Len(Append(q, v)) = Len(q) + 1
        /\ Append(q, v)[Len(q) + 1] = v
    BY AppendProperties
  <2>3. Contains(Append(q, v), v)
    BY <1>1, <2>2 DEF Contains
  <2>. QED
    BY <1>1, <2>1, <2>2, <2>3 DEF DelRule
<1>. QED
  BY <1>2, <1>3

\* What a command does to one slot, and an assignment to one field.
LEMMA OneCommand ==
    ASSUME NEW c \in Command, Types
    PROVE  /\ DOMAIN Run(kern, c) = KernSlots
           /\ DOMAIN Booked(inst, c) = InstFields
           /\ \A s \in KernSlots :
                Run(kern, c)[s] =
                  IF c.slot # s \/ c.op \in {"book", "fire"} THEN kern[s]
                  ELSE IF c.op = "route" THEN c.value
                  ELSE IF c.op = "add" THEN AddRule(kern[s], c.value)
                  ELSE DelRule(kern[s])
           /\ \A s \in InstFields :
                Booked(inst, c)[s] =
                  IF c.op = "book" /\ c.slot = s THEN c.value ELSE inst[s]
<1>1. DOMAIN kern = KernSlots /\ DOMAIN inst = InstFields
  BY DEF Types
<1>2. /\ c.op \in {"route", "add", "del", "book", "fire"}
      /\ c.op \in {"route", "add", "del"} => c.slot \in KernSlots
      /\ c.op = "book" => c.slot \in InstFields
  BY Kinds, Slots
<1>3. Booked(inst, c) = IF c.op = "book"
                        THEN [inst EXCEPT ![c.slot] = c.value] ELSE inst
  BY DEF Booked
<1>4. CASE c.op = "route"
  <2>1. Run(kern, c) = [kern EXCEPT ![c.slot] = c.value]
    BY <1>4 DEF Run
  <2>. QED
    BY <1>1, <1>2, <1>3, <1>4, <2>1
<1>5. CASE c.op = "add"
  <2>1. Run(kern, c) = [kern EXCEPT ![c.slot] = AddRule(kern[c.slot], c.value)]
    BY <1>5 DEF Run
  <2>. QED
    BY <1>1, <1>2, <1>3, <1>5, <2>1
<1>6. CASE c.op = "del"
  <2>1. Run(kern, c) = [kern EXCEPT ![c.slot] = DelRule(kern[c.slot])]
    BY <1>6 DEF Run
  <2>. QED
    BY <1>1, <1>2, <1>3, <1>6, <2>1
<1>7. CASE c.op \in {"book", "fire"}
  <2>1. Run(kern, c) = kern
    BY <1>7 DEF Run
  <2>. QED
    BY <1>1, <1>2, <1>3, <1>7, <2>1
<1>. QED
  BY <1>2, <1>4, <1>5, <1>6, <1>7

-----------------------------------------------------------------------------
\* Every step keeps the kinds of the variables.

LEMMA EmptyInstTypes ==
    /\ \A s \in RuleSlots \ Flags : EmptyInst[s] \in Selectors
    /\ \A s \in Flags \cup {"route6"} : EmptyInst[s] \in BOOLEAN
<1>1. None \in Selectors
  BY DEF Selectors
<1>. QED
  BY <1>1, EmptyInstFacts

LEMMA KeepsTypes == ASSUME Inv, [Next]_vars PROVE Types'
<1>0. Types /\ ListInv
  BY DEF Inv
<1>1. CASE UNCHANGED vars
  BY <1>0, <1>1 DEF Types, vars
<1>. SUFFICES ASSUME Next
              PROVE  Types'
  BY <1>1
<1>2. uplink' = uplink
  BY DEF Next
<1>3. CASE FileChanges
  <2>1. PICK f \in FileNames :
          \E c \in uplink.contents[f] \cup {None} :
            file' = [file EXCEPT ![f] = c]
    BY <1>3 DEF FileChanges
  <2>2. DOMAIN file' = FileNames
    BY <1>0, <2>1 DEF Types
  <2>3. \A g \in FileNames : file'[g] \in uplink'.contents[g] \cup {None}
    BY <1>0, <1>2, <2>1 DEF Types
  <2>4. pending' \in BOOLEAN
    BY <1>0, <1>3 DEF Types, FileChanges
  <2>. QED
    BY <1>0, <1>2, <1>3, <2>2, <2>3, <2>4 DEF Types, FileChanges
<1>4. CASE Start
  <2>1. DOMAIN up' = {"ipv4", "ipv6"}
    BY <1>4 DEF Start, Forced
  <2>2. DOMAIN inst' = InstFields
    BY <1>4, EmptyInstFacts DEF Start
  <2>. QED
    BY <1>0, <1>2, <1>4, <2>1, <2>2, EmptyInstTypes DEF Types, Start
<1>5. CASE Step
  <2>1. Chain(todo) /\ todo # << >>
    BY <1>0, <1>5 DEF ListInv, Step
  <2>. DEFINE c == todo[1]
  <2>2. c \in Command /\ Head(todo) = c
    BY <2>1, Rest
  <2>. HIDE DEF c
  <2>3. kern' = Run(kern, c) /\ inst' = Booked(inst, c)
    BY <1>5, <2>2 DEF Step
  <2>4. /\ DOMAIN kern' = KernSlots /\ DOMAIN inst' = InstFields
        /\ \A s \in KernSlots :
             kern'[s] = IF c.slot # s \/ c.op \in {"book", "fire"} THEN kern[s]
                        ELSE IF c.op = "route" THEN c.value
                        ELSE IF c.op = "add" THEN AddRule(kern[s], c.value)
                        ELSE DelRule(kern[s])
        /\ \A s \in InstFields :
             inst'[s] = IF c.op = "book" /\ c.slot = s THEN c.value
                        ELSE inst[s]
    BY <1>0, <2>2, <2>3, OneCommand
  <2>5. ASSUME NEW s \in RuleSlots
        PROVE  kern'[s] \in Seq(Selectors)
    <3>1. kern[s] \in Seq(Selectors) /\ s \in KernSlots /\ s \notin RouteSlots
      BY <1>0, Slots DEF Types
    <3>2. DelRule(kern[s]) \in Seq(Selectors)
      <4>1. None \in Selectors
        BY DEF Selectors
      <4>. QED
        BY <3>1, <4>1, RuleSlot
    <3>3. c.op = "add" => AddRule(kern[s], c.value) \in Seq(Selectors)
      BY <2>2, <3>1, Kinds, RuleSlot
    <3>. QED
      BY <2>2, <2>4, <3>1, <3>2, <3>3, Kinds
  <2>6. /\ \A s \in RuleSlots \ Flags : inst'[s] \in Selectors
        /\ \A s \in Flags \cup {"route6"} : inst'[s] \in BOOLEAN
    BY <1>0, <2>2, <2>4, Kinds, Slots DEF Types
  <2>. QED
    BY <1>0, <1>2, <1>5, <2>4, <2>5, <2>6 DEF Types, Step
<1>6. CASE ToLoop
  BY <1>0, <1>2, <1>6 DEF Types, ToLoop
<1>7. CASE Exit
  <2>1. DOMAIN inst' = InstFields
    BY <1>7, EmptyInstFacts DEF Exit, Gone
  <2>. QED
    BY <1>0, <1>2, <1>7, <2>1, EmptyInstTypes DEF Types, Exit, Gone
<1>8. CASE Reconcile
  <2>1. DOMAIN up' = {"ipv4", "ipv6"}
    BY <1>8 DEF Reconcile, Forced
  <2>. QED
    BY <1>0, <1>2, <1>8, <2>1 DEF Types, Reconcile
<1>9. CASE Probe4
  BY <1>0, <1>2, <1>9 DEF Types, Probe4
<1>10. CASE Probe6
  BY <1>0, <1>2, <1>10 DEF Types, Probe6
<1>11. CASE Terminate
  BY <1>0, <1>2, <1>11 DEF Types, Terminate
<1>16. Fault => faults' \in 0 .. MaxFaults
  <2>1. faults \in 0 .. MaxFaults /\ MaxFaults \in Nat
    BY <1>0, UplinkAssumption DEF Types
  <2>. QED
    BY <2>1 DEF Fault
<1>12. CASE CommandFails
  BY <1>0, <1>2, <1>12, <1>16 DEF Types, CommandFails, Fault
<1>13. CASE CommandRaises
  BY <1>0, <1>2, <1>13, <1>16 DEF Types, CommandRaises, Fault
<1>14. CASE Killed
  <2>1. DOMAIN inst' = InstFields
    BY <1>14, EmptyInstFacts DEF Killed, Gone
  <2>. QED
    BY <1>0, <1>2, <1>14, <1>16, <2>1, EmptyInstTypes
       DEF Types, Killed, Gone, Fault
<1>15. CASE InterfaceFlaps
  <2>1. /\ DOMAIN kern' = KernSlots
        /\ \A s \in RuleSlots : kern'[s] = kern[s]
    BY <1>0, <1>15, Slots DEF Types, InterfaceFlaps
  <2>. QED
    BY <1>0, <1>2, <1>15, <1>16, <2>1 DEF Types, InterfaceFlaps, Fault
<1>. QED
  BY <1>3, <1>4, <1>5, <1>6, <1>7, <1>8, <1>9, <1>10, <1>11, <1>12, <1>13,
     <1>14, <1>15 DEF Next

-----------------------------------------------------------------------------
\* The lists that the actions make.

Whole(q, i) ==
    /\ Chain(q)
    /\ q # << >> => Begins(q[1])
    /\ \A n \in 1 .. Len(q) : q[n].op = "add" => Fresh(q, i, n)

LEMMA BlockIsWhole ==
    ASSUME NEW q, NEW i, NEW S, NEW F, Block(q, i, S, F)
    PROVE  Whole(q, i)
BY DEF Block, Whole

\* The list will remember the gateway g and no other.
Gateway(q, i, g) ==
    /\ i.gateway = g \/ Has(q, Book("gateway", g))
    /\ \A c : Has(q, c) /\ c.op = "book" /\ c.slot = "gateway" => c.value = g

\* The list replaces the route to the router, by r and nothing else.
Router(q, r) ==
    /\ Has(q, ReplaceRoute("route6", r))
    /\ \A c : Has(q, c) /\ c.op = "route" /\ c.slot = "route6" => c.value = r

LEMMA StartList ==
    ASSUME Types, Start
    PROVE  /\ Whole(todo', EmptyInst)
           /\ Gateway(todo', EmptyInst, WantGateway(ReadState("v4"), up'.ipv4))
           /\ Ipv6 /\ ReadState("ra") # None =>
                Router(todo', Route6(ReadState("ra")))
<1>1. todo' = SetupItems \o Pass4(SetUp, TRUE, up'.ipv4)
              \o Pass6(SetUp, TRUE, up'.ipv6)
  BY DEF Start
<1>2. Readings
  BY Read
<1>. DEFINE q == todo'
            u4 == up'.ipv4
            u6 == up'.ipv6
            g == WantGateway(ReadState("v4"), u4)
            r == Route6(ReadState("ra"))
<1>3. q = SetupItems \o Pass4(SetUp, TRUE, u4) \o Pass6(SetUp, TRUE, u6)
  BY <1>1
<1>. HIDE DEF q, u4, u6
<1>4. /\ Block(q, EmptyInst, AllSlots, AllSlots)
      /\ g = None \/ Has(q, Book("gateway", g))
      /\ \A c : Has(q, c) /\ c.op = "book" /\ c.slot = "gateway" =>
           c.value = g
      /\ Ipv6 /\ ReadState("ra") # None =>
           /\ Has(q, ReplaceRoute("route6", r))
           /\ \A c : Has(q, c) /\ c.op = "route"
                       /\ c.slot = "route6" => c.value = r
  BY <1>2, <1>3, StartBlock
<1>5. Whole(q, EmptyInst)
  BY <1>4, BlockIsWhole
<1>6. EmptyInst.gateway = None
  BY EmptyInstFacts
<1>. QED
  BY <1>4, <1>5, <1>6 DEF Gateway, Router, q, u4

LEMMA InstFits ==
    ASSUME Types
    PROVE  /\ inst.fwd \in Selectors /\ inst.prohibit \in BOOLEAN
           /\ inst.policy \in BOOLEAN
           /\ ReadState("v4") \in Readable("v4")
           /\ ReadState("ra") \in Readable("ra")
           /\ ReadState("pd") \in Readable("pd")
           /\ ReadState("na") \in Readable("na")
<1>1. "fwd" \in RuleSlots \ Flags /\ "prohibit" \in Flags /\ "policy" \in Flags
  BY DEF RuleSlots, Flags
<1>2. Readings
  BY Read
<1>3. FileNames = {"v4", "ra", "pd", "na"}
  BY DEF FileNames
<1>. QED
  BY <1>1, <1>2, <1>3 DEF Types, Readings

LEMMA ReconcileList ==
    ASSUME Types, Reconcile
    PROVE  /\ Whole(todo', inst)
           /\ Gateway(todo', inst, WantGateway(ReadState("v4"), up'.ipv4))
           /\ Ipv6 /\ ReadState("ra") # None =>
                Router(todo', Route6(ReadState("ra")))
<1>. DEFINE q == todo'
            i == inst
            u4 == up'.ipv4
            u6 == up'.ipv6
            w4 == up.ipv4
            w6 == up.ipv6
            p4 == Pass4(i, w4, u4)
            p6 == Pass6(i, w6, u6)
            g == WantGateway(ReadState("v4"), u4)
            r == Route6(ReadState("ra"))
            S4 == {"ipv4", "shared", "own", "gateway", "addr"}
            yes == Ipv6 /\ ReadState("ra") # None
<1>1. q = p4 \o p6
  BY DEF Reconcile
<1>. HIDE DEF q, u4, u6, w4, w6
<1>2. /\ Block(p4, i, S4, {"addr"})
      /\ i.gateway = g \/ Has(p4, Book("gateway", g))
      /\ \A c : Has(p4, c) /\ c.op = "book" /\ c.slot = "gateway" =>
           c.value = g
  <2>1. ReadState("v4") \in Readable("v4")
    BY InstFits
  <2>. HIDE DEF i
  <2>. QED
    BY <2>1, Pass4Block
<1>3. /\ Block(p6, i, Slots6, Bare6)
      /\ yes => /\ Has(p6, ReplaceRoute("route6", r))
                /\ \A c : Has(p6, c) /\ c.op = "route" => c.value = r
  <2>1. /\ i.fwd \in Selectors /\ i.prohibit \in BOOLEAN
        /\ ReadState("ra") \in Readable("ra")
        /\ ReadState("pd") \in Readable("pd")
        /\ ReadState("na") \in Readable("na")
    BY InstFits
  <2>. HIDE DEF i
  <2>. QED
    BY <2>1, Pass6Block
<1>. HIDE DEF p4, p6, i, g, r, yes
<1>4. Block(q, i, S4 \cup Slots6, {"addr"} \cup Bare6)
  <2>1. Bare6 \cap S4 = {}
    BY DEF Bare6
  <2>. HIDE DEF S4
  <2>. QED
    BY <1>1, <1>2, <1>3, <2>1, ConcatBlock
<1>5. \A c : Has(q, c) <=> Has(p4, c) \/ Has(p6, c)
  <2>1. p4 \in Seq(Command) /\ p6 \in Seq(Command)
    BY <1>2, <1>3 DEF Block, Chain
  <2>. QED
    BY <1>1, <2>1, HasConcat
<1>6. /\ \A c : Has(p4, c) => c.slot \in S4
      /\ \A c : Has(p6, c) => c.slot \in Slots6
  BY <1>2, <1>3, BlockHas
<1>7. Whole(q, i)
  <2>. HIDE DEF S4
  <2>. QED
    BY <1>4, BlockIsWhole
<1>8. Gateway(q, i, g)
  BY <1>2, <1>5, <1>6 DEF Gateway, Slots6
<1>9. yes => Router(q, r)
  BY <1>3, <1>5, <1>6 DEF Router
<1>. QED
  BY <1>7, <1>8, <1>9 DEF q, i, g, u4, r, yes

LEMMA Probe4List ==
    ASSUME Types, Probe4
    PROVE  /\ Whole(todo', inst)
           /\ Gateway(todo', inst, WantGateway(ReadState("v4"), up'.ipv4))
           /\ \A c : Has(todo', c) => c.slot # "route6"
<1>. DEFINE q == todo'
            i == inst
            u4 == up'.ipv4
            w4 == ~up.ipv4
            p4 == Pass4(i, w4, u4)
            f == << Fire("ipv4") >>
            g == WantGateway(ReadState("v4"), u4)
            S4 == {"ipv4", "shared", "own", "gateway", "addr"}
<1>1. q = p4 \o f
  BY DEF Probe4
<1>. HIDE DEF q, u4, w4
<1>2. /\ Block(p4, i, S4, {"addr"})
      /\ i.gateway = g \/ Has(p4, Book("gateway", g))
      /\ \A c : Has(p4, c) /\ c.op = "book" /\ c.slot = "gateway" =>
           c.value = g
  <2>1. ReadState("v4") \in Readable("v4")
    BY InstFits
  <2>. HIDE DEF i
  <2>. QED
    BY <2>1, Pass4Block
<1>3. Block(f, i, {"ipv4"}, {})
  BY FireBlock
<1>. HIDE DEF p4, i, g, f
<1>4. Block(q, i, S4 \cup {"ipv4"}, {"addr"} \cup {})
  <2>1. {} \cap S4 = {}
    OBVIOUS
  <2>. HIDE DEF S4
  <2>. QED
    BY <1>1, <1>2, <1>3, <2>1, ConcatBlock
<1>5. \A c : Has(q, c) <=> Has(p4, c) \/ Has(f, c)
  <2>1. p4 \in Seq(Command) /\ f \in Seq(Command)
    BY <1>2, <1>3 DEF Block, Chain
  <2>. QED
    BY <1>1, <2>1, HasConcat
<1>6. /\ \A c : Has(p4, c) => c.slot \in S4
      /\ \A c : Has(f, c) => c.slot \in {"ipv4"}
  BY <1>2, <1>3, BlockHas
<1>7. Whole(q, i)
  <2>. HIDE DEF S4
  <2>. QED
    BY <1>4, BlockIsWhole
<1>8. Gateway(q, i, g)
  BY <1>2, <1>5, <1>6 DEF Gateway
<1>9. \A c : Has(q, c) => c.slot # "route6"
  BY <1>5, <1>6
<1>. QED
  BY <1>7, <1>8, <1>9 DEF q, i, g, u4

LEMMA Probe6List ==
    ASSUME Types, Probe6
    PROVE  /\ Whole(todo', inst)
           /\ \A c : Has(todo', c) => c.slot # "gateway"
           /\ Ipv6 /\ ReadState("ra") # None =>
                Router(todo', Route6(ReadState("ra")))
<1>. DEFINE q == todo'
            i == inst
            u6 == up'.ipv6
            w6 == ~up.ipv6
            p6 == Pass6(i, w6, u6)
            f == << Fire("ipv6") >>
            r == Route6(ReadState("ra"))
            yes == Ipv6 /\ ReadState("ra") # None
<1>1. q = p6 \o f
  BY DEF Probe6
<1>. HIDE DEF q, u6, w6
<1>2. /\ Block(p6, i, Slots6, Bare6)
      /\ yes => /\ Has(p6, ReplaceRoute("route6", r))
                /\ \A c : Has(p6, c) /\ c.op = "route" => c.value = r
  <2>1. /\ i.fwd \in Selectors /\ i.prohibit \in BOOLEAN
        /\ ReadState("ra") \in Readable("ra")
        /\ ReadState("pd") \in Readable("pd")
        /\ ReadState("na") \in Readable("na")
    BY InstFits
  <2>. HIDE DEF i
  <2>. QED
    BY <2>1, Pass6Block
<1>3. Block(f, i, {"ipv6"}, {})
  BY FireBlock
<1>. HIDE DEF p6, i, r, f, yes
<1>4. Block(q, i, Slots6 \cup {"ipv6"}, Bare6 \cup {})
  <2>1. {} \cap Slots6 = {}
    OBVIOUS
  <2>. QED
    BY <1>1, <1>2, <1>3, <2>1, ConcatBlock
<1>5. \A c : Has(q, c) <=> Has(p6, c) \/ Has(f, c)
  <2>1. p6 \in Seq(Command) /\ f \in Seq(Command)
    BY <1>2, <1>3 DEF Block, Chain
  <2>. QED
    BY <1>1, <2>1, HasConcat
<1>6. /\ \A c : Has(p6, c) => c.slot \in Slots6
      /\ \A c : Has(f, c) => c.slot \in {"ipv6"}
  BY <1>2, <1>3, BlockHas
<1>7. Whole(q, i)
  BY <1>4, BlockIsWhole
<1>8. \A c : Has(q, c) => c.slot # "gateway"
  BY <1>5, <1>6 DEF Slots6
<1>9. yes => Router(q, r)
  BY <1>2, <1>5, <1>6 DEF Router
<1>. QED
  BY <1>7, <1>8, <1>9 DEF q, i, r, yes

LEMMA StopList ==
    ASSUME Types, Only4Inv, Terminate \/ CommandRaises
    PROVE  /\ Whole(todo', inst)
           /\ \A s \in RuleSlots :
                Means(s, inst[s]) => Has(todo', Book(s, Unset(s)))
           /\ \A c : Has(todo', c) /\ c.op = "book" /\ c.slot \in RuleSlots =>
                ~Means(c.slot, c.value)
<1>1. todo' = TeardownItems(inst)
  BY DEF Terminate, CommandRaises
<1>2. inst.prohibit \in BOOLEAN /\ inst.policy \in BOOLEAN
  BY InstFits
<1>. DEFINE q == TeardownItems(inst)
<1>3. /\ Block(q, inst, AllSlots, {})
      /\ \A s \in RuleSlots :
           Means(s, inst[s]) => Has(q, Book(s, Unset(s)))
      /\ \A c : Has(q, c) /\ c.op = "book" /\ c.slot \in RuleSlots =>
           ~Means(c.slot, c.value)
  <2>. DEFINE i == inst
  <2>1. /\ i.prohibit \in BOOLEAN /\ i.policy \in BOOLEAN
        /\ ~Ipv6 => \A s \in Rules6 : ~Means(s, i[s])
    BY <1>2 DEF Only4Inv
  <2>. HIDE DEF i
  <2>2. /\ Block(TeardownItems(i), i, AllSlots, {})
        /\ \A s \in RuleSlots :
             Means(s, i[s]) => Has(TeardownItems(i), Book(s, Unset(s)))
        /\ \A c : /\ Has(TeardownItems(i), c) /\ c.op = "book"
                  /\ c.slot \in RuleSlots
                => ~Means(c.slot, c.value)
    BY <2>1, TeardownBlock
  <2>. QED
    BY <2>2 DEF i
<1>. HIDE DEF q
<1>4. Whole(q, inst)
  BY <1>3, BlockIsWhole
<1>. QED
  BY <1>1, <1>3, <1>4 DEF q

-----------------------------------------------------------------------------
\* One command less.

LEMMA Cut ==
    ASSUME ListInv, Step \/ CommandFails
    PROVE  /\ todo # << >> /\ todo[1] \in Command
           /\ Chain(todo')
           /\ Len(todo) \in Nat /\ Len(todo') = Len(todo) - 1
           /\ \A n \in 1 .. Len(todo') :
                n + 1 \in 1 .. Len(todo) /\ todo'[n] = todo[n + 1]
           /\ \A n \in 1 .. Len(todo) :
                n = 1 \/ (n - 1 \in 1 .. Len(todo') /\ todo'[n - 1] = todo[n])
           /\ todo' # << >> => Link(todo[1], todo'[1]) /\ todo'[1] \in Command
           /\ todo' = << >> => Ends(todo[1])
           /\ \A c : Has(todo, c) => c = todo[1] \/ Has(todo', c)
           /\ \A c : Has(todo', c) => Has(todo, c)
<1>1. Chain(todo) /\ todo # << >> /\ todo' = Tail(todo)
  BY DEF ListInv, Step, CommandFails
<1>2. Chain(Tail(todo)) /\ Len(Tail(todo)) \in Nat
  BY <1>1, Rest DEF Chain
<1>3. Tail(todo) # << >> => Tail(todo)[1] \in Command
  BY <1>2 DEF Chain
<1>. QED
  BY <1>1, <1>2, <1>3, Rest

LEMMA Effect ==
    ASSUME Types, ListInv, Step
    PROVE  LET c == todo[1]
           IN  /\ c \in Command
               /\ \A s \in KernSlots :
                    kern'[s] =
                      IF c.slot # s \/ c.op \in {"book", "fire"} THEN kern[s]
                      ELSE IF c.op = "route" THEN c.value
                      ELSE IF c.op = "add" THEN AddRule(kern[s], c.value)
                      ELSE DelRule(kern[s])
               /\ \A s \in InstFields :
                    inst'[s] = IF c.op = "book" /\ c.slot = s THEN c.value
                               ELSE inst[s]
<1>1. Chain(todo) /\ todo # << >>
  BY DEF ListInv, Step
<1>. DEFINE c == todo[1]
<1>2. c \in Command /\ Head(todo) = c
  BY <1>1, Rest
<1>. HIDE DEF c
<1>3. kern' = Run(kern, c) /\ inst' = Booked(inst, c)
  BY <1>2 DEF Step
<1>4. /\ c \in Command
      /\ \A s \in KernSlots :
           kern'[s] = IF c.slot # s \/ c.op \in {"book", "fire"} THEN kern[s]
                      ELSE IF c.op = "route" THEN c.value
                      ELSE IF c.op = "add" THEN AddRule(kern[s], c.value)
                      ELSE DelRule(kern[s])
      /\ \A s \in InstFields :
           inst'[s] = IF c.op = "book" /\ c.slot = s THEN c.value
                      ELSE inst[s]
  BY <1>2, <1>3, OneCommand
<1>. QED
  BY <1>4 DEF c

\* A new list, at the bookkeeping it was made for.
NewList == Reconcile \/ Probe4 \/ Probe6 \/ Terminate \/ CommandRaises

LEMMA NewListIsWhole ==
    ASSUME Types, Only4Inv, NewList
    PROVE  /\ Whole(todo', inst) /\ inst' = inst /\ kern' = kern
           /\ phase' \in {"pass", "stop"}
<1>1. Whole(todo', inst)
  BY ReconcileList, Probe4List, Probe6List, StopList DEF NewList
<1>. QED
  BY <1>1 DEF NewList, Reconcile, Probe4, Probe6, Terminate, CommandRaises

LEMMA NothingLeft == Chain(<< >>) /\ Len(<< >>) = 0 /\ \A c : ~Has(<< >>, c)
BY DEF Chain, Has

\* What is left of the list is a chain, and adds where it may.
LEMMA KeepsList == ASSUME Inv, [Next]_vars PROVE ListInv'
<1>0. Types /\ ListInv /\ Only4Inv
  BY DEF Inv
<1>1. CASE UNCHANGED << todo, inst, phase >>
  BY <1>0, <1>1 DEF ListInv, Fresh
<1>2. CASE Step \/ CommandFails
  <2>1. /\ todo # << >> /\ todo[1] \in Command
        /\ Chain(todo') /\ Len(todo) \in Nat /\ Len(todo') = Len(todo) - 1
        /\ \A n \in 1 .. Len(todo') :
             n + 1 \in 1 .. Len(todo) /\ todo'[n] = todo[n + 1]
    BY <1>0, <1>2, Cut
  <2>2. phase' = phase /\ phase \notin {"off", "idle"}
    BY <1>0, <1>2, <2>1 DEF ListInv, Step, CommandFails
  <2>3. \A s \in InstFields : todo[1].slot # s => inst'[s] = inst[s]
    BY <1>0, <1>2, Effect DEF CommandFails
  <2>4. ASSUME NEW n \in 2 .. Len(todo'), todo'[n].op = "add"
        PROVE  Fresh(todo', inst', n)
    <3>1. /\ n \in 1 .. Len(todo') /\ n + 1 \in 2 .. Len(todo)
          /\ n - 1 \in 1 .. Len(todo') /\ n - 1 + 1 = n /\ n + 1 - 1 = n
          /\ n + 1 > 1 /\ n > 1
      BY <2>1
    <3>2. /\ todo'[n] = todo[n + 1] /\ todo'[n - 1] = todo[n]
      BY <2>1, <3>1
    <3>3. Fresh(todo, inst, n + 1)
      BY <1>0, <2>4, <3>1, <3>2 DEF ListInv
    <3>4. CASE todo[n].op = "del"
      BY <3>1, <3>2, <3>4 DEF Fresh
    <3>5. CASE todo[n].op # "del"
      <4>1. /\ ~Means(todo[n + 1].slot, inst[todo[n + 1].slot])
            /\ \A m \in 1 .. n : todo[m].slot # todo[n + 1].slot
        BY <3>1, <3>3, <3>5 DEF Fresh
      <4>2. todo[1].slot # todo[n + 1].slot
        BY <3>1, <4>1
      <4>3. todo[n + 1].slot \in InstFields
        <5>1. todo'[n] \in Command
          BY <2>1, <3>1 DEF Chain
        <5>. QED
          BY <2>4, <3>2, <5>1, Kinds, Slots
      <4>4. ASSUME NEW m \in 1 .. n - 1
            PROVE  todo'[m].slot # todo'[n].slot
        <5>1. m \in 1 .. Len(todo') /\ m + 1 \in 1 .. n
          BY <2>1, <3>1
        <5>. QED
          BY <2>1, <3>2, <4>1, <5>1
      <4>. QED
        BY <2>3, <3>2, <4>1, <4>2, <4>3, <4>4 DEF Fresh
    <3>. QED
      BY <3>4, <3>5
  <2>. QED
    BY <2>1, <2>2, <2>4 DEF ListInv
<1>3. CASE NewList
  <2>1. /\ Whole(todo', inst) /\ inst' = inst /\ phase' \in {"pass", "stop"}
    BY <1>0, <1>3, NewListIsWhole
  <2>. QED
    BY <2>1 DEF ListInv, Whole
<1>4. CASE Start
  <2>1. Whole(todo', EmptyInst)
    BY <1>0, <1>4, StartList
  <2>2. phase' = "boot" /\ inst' = EmptyInst
    BY <1>4 DEF Start
  <2>. QED
    BY <2>1, <2>2 DEF ListInv, Whole
<1>5. CASE Exit \/ Killed
  <2>1. todo' = << >> /\ inst' = EmptyInst
    BY <1>5 DEF Exit, Killed, Gone
  <2>. QED
    BY <2>1, NothingLeft DEF ListInv
<1>6. CASE ToLoop
  <2>1. todo' = << >> /\ inst' = inst /\ phase' = "idle"
    BY <1>6 DEF ToLoop
  <2>. QED
    BY <2>1, NothingLeft DEF ListInv
<1>. QED
  BY <1>1, <1>2, <1>3, <1>4, <1>5, <1>6
     DEF Next, NewList, FileChanges, InterfaceFlaps, vars

\* Without IPv6 nothing of it is remembered.
LEMMA Only4List ==
    ASSUME Types, ~Ipv6, Start \/ Reconcile \/ Probe4
    PROVE  \A n \in 1 .. Len(todo') : todo'[n].slot \notin Rules6
<1>. DEFINE Off(q) == /\ q \in Seq(Command)
                      /\ \A n \in 1 .. Len(q) : q[n].slot \notin Rules6
            S4 == {"ipv4", "shared", "own", "gateway", "addr"}
<1>1. ASSUME NEW a, NEW b, Off(a), Off(b)
      PROVE  Off(a \o b)
  <2>. DEFINE q == a \o b
  <2>1. q \in Seq(Command)
    BY <1>1, ConcatProperties
  <2>2. ASSUME NEW n \in 1 .. Len(q)
        PROVE  q[n].slot \notin Rules6
    <3>1. Has(q, q[n])
      BY DEF Has
    <3>2. Has(a, q[n]) \/ Has(b, q[n])
      <4>. DEFINE c == q[n]
      <4>1. Has(a \o b, c) <=> Has(a, c) \/ Has(b, c)
        <5>. HIDE DEF c
        <5>. QED
          BY <1>1, HasConcat
      <4>. QED
        BY <3>1, <4>1
    <3>. HIDE DEF q
    <3>. QED
      BY <1>1, <3>2 DEF Has
  <2>. QED
    BY <2>1, <2>2
<1>2. ASSUME NEW q, NEW i, NEW F, Block(q, i, S4, F)
      PROVE  Off(q)
  BY <1>2 DEF Block, Chain, Rules6
<1>3. Readings
  BY Read
<1>4. ReadState("v4") \in Readable("v4")
  BY <1>3 DEF Readings, FileNames
<1>5. ASSUME NEW i, NEW was, NEW is
      PROVE  Off(Pass4(i, was, is))
  BY <1>2, <1>4, Pass4Block
<1>6. ASSUME NEW f \in {"ipv4", "ipv6"}
      PROVE  Off(<< Fire(f) >>)
  <2>1. Block(<< Fire(f) >>, EmptyInst, {f}, {})
    BY FireBlock
  <2>. QED
    BY <2>1 DEF Block, Chain, Rules6
<1>7. ASSUME NEW i, NEW was, NEW is
      PROVE  Off(Pass6(i, was, is))
  <2>. DEFINE a == ForceDown("ipv6", was, is)
  <2>1. Pass6(i, was, is) = a \o << >>
    BY DEF Pass6, Items6
  <2>2. Off(<< >>)
    OBVIOUS
  <2>3. Off(a)
    BY <1>6, <2>2 DEF ForceDown
  <2>. HIDE DEF a, Off
  <2>. QED
    BY <1>1, <2>1, <2>2, <2>3
<1>8. Off(SetupItems)
  <2>. DEFINE p == Add("policy", NoFrom)
              b == Book("policy", TRUE)
  <2>1. SetupItems = << p, b >> \o << >>
    BY DEF SetupItems, Ipv6
  <2>2. p.slot = "policy" /\ b.slot = "policy"
    BY DEF Add, Book, Item
  <2>3. p \in Command /\ b \in Command
    BY DEF Command, Add, Book, Item, RuleSlots, Flags, Selectors
  <2>. HIDE DEF p, b
  <2>4. SetupItems = << p, b >>
    BY <2>1, <2>3
  <2>5. /\ << p, b >> \in Seq(Command) /\ Len(<< p, b >>) = 2
        /\ << p, b >>[1] = p /\ << p, b >>[2] = b
    BY <2>3, Tuples
  <2>. DEFINE q == << p, b >>
  <2>. HIDE DEF q
  <2>6. Off(q)
    <3>1. q \in Seq(Command) /\ Len(q) = 2 /\ q[1] = p /\ q[2] = b
      BY <2>5 DEF q
    <3>2. \A n \in 1 .. 2 : n = 1 \/ n = 2
      OBVIOUS
    <3>. QED
      BY <2>2, <3>1, <3>2 DEF Rules6
  <2>. QED
    BY <2>4, <2>6 DEF q
<1>. HIDE DEF Off
<1>9. Off(todo')
  <2>1. CASE Start
    BY <1>1, <1>5, <1>7, <1>8, <2>1 DEF Start
  <2>2. CASE Reconcile
    BY <1>1, <1>5, <1>7, <2>2 DEF Reconcile
  <2>3. CASE Probe4
    BY <1>1, <1>5, <1>6, <2>3 DEF Probe4
  <2>. QED
    BY <2>1, <2>2, <2>3
<1>. QED
  BY <1>9 DEF Off

LEMMA KeepsOnly4 == ASSUME Inv, [Next]_vars PROVE Only4Inv'
<1>0. Types /\ ListInv /\ Only4Inv
  BY DEF Inv
<1>1. uplink' = uplink
  BY DEF Next, vars
<1>2. Ipv6' = Ipv6
  BY <1>1 DEF Ipv6
<1>3. SUFFICES ASSUME ~Ipv6, NEW s \in Rules6
               PROVE  /\ ~Means(s, inst'[s])
                      /\ \A n \in 1 .. Len(todo') :
                           todo'[n].op = "book" /\ todo'[n].slot = s =>
                             ~Means(s, todo'[n].value)
  BY <1>2 DEF Only4Inv
<1>4. s \in RuleSlots /\ s \in InstFields
  BY DEF Rules6, RuleSlots, InstFields
<1>5. /\ ~Means(s, inst[s])
      /\ \A n \in 1 .. Len(todo) :
           todo[n].op = "book" /\ todo[n].slot = s => ~Means(s, todo[n].value)
  BY <1>0, <1>3 DEF Only4Inv
<1>6. CASE UNCHANGED << todo, inst >>
  BY <1>5, <1>6
<1>7. CASE Step \/ CommandFails
  <2>1. /\ 1 \in 1 .. Len(todo)
        /\ \A n \in 1 .. Len(todo') :
             n + 1 \in 1 .. Len(todo) /\ todo'[n] = todo[n + 1]
    BY <1>0, <1>7, Cut DEF ListInv, Chain
  <2>2. CASE Step
    <3>1. inst'[s] = IF todo[1].op = "book" /\ todo[1].slot = s
                     THEN todo[1].value ELSE inst[s]
      BY <1>0, <1>4, <2>2, Effect
    <3>. QED
      BY <1>5, <2>1, <3>1
  <2>3. CASE CommandFails
    BY <1>5, <2>1, <2>3 DEF CommandFails
  <2>. QED
    BY <1>7, <2>2, <2>3
<1>8. CASE Terminate \/ CommandRaises
  <2>1. inst' = inst
    BY <1>8 DEF Terminate, CommandRaises
  <2>2. \A c : Has(todo', c) /\ c.op = "book" /\ c.slot \in RuleSlots =>
          ~Means(c.slot, c.value)
    BY <1>0, <1>8, StopList
  <2>. QED
    BY <1>4, <1>5, <2>1, <2>2 DEF Has
<1>9. CASE Start \/ Reconcile \/ Probe4
  <2>1. ~Means(s, inst'[s])
    BY <1>4, <1>5, <1>9, EmptyInstFacts DEF Start, Reconcile, Probe4
  <2>2. \A n \in 1 .. Len(todo') : todo'[n].slot \notin Rules6
    BY <1>0, <1>3, <1>9, Only4List
  <2>. QED
    BY <2>1, <2>2
<1>10. CASE Exit \/ Killed
  <2>1. todo' = << >> /\ inst' = EmptyInst
    BY <1>10 DEF Exit, Killed, Gone
  <2>. QED
    BY <1>4, <2>1, NothingLeft, EmptyInstFacts
<1>. QED
  BY <1>3, <1>6, <1>7, <1>8, <1>9, <1>10
     DEF Next, FileChanges, ToLoop, Probe6, InterfaceFlaps, vars

\* A stop forgets everything.
LEMMA KeepsStop == ASSUME Inv, [Next]_vars PROVE StopInv'
<1>0. Types /\ ListInv /\ Only4Inv /\ StopInv
  BY DEF Inv
<1>1. CASE UNCHANGED << todo, inst, phase >>
  BY <1>0, <1>1 DEF StopInv
<1>2. CASE Step \/ CommandFails
  <2>. SUFFICES ASSUME phase = "stop", NEW s \in RuleSlots
                PROVE  /\ Means(s, inst'[s]) => \E n \in 1 .. Len(todo') :
                            /\ todo'[n].op = "book" /\ todo'[n].slot = s
                       /\ \A n \in 1 .. Len(todo') :
                            todo'[n].op = "book" /\ todo'[n].slot = s =>
                              ~Means(s, todo'[n].value)
    BY <1>2 DEF StopInv, Step, CommandFails
  <2>1. /\ todo # << >> /\ todo[1] \in Command
        /\ \A n \in 1 .. Len(todo') :
             n + 1 \in 1 .. Len(todo) /\ todo'[n] = todo[n + 1]
        /\ \A n \in 1 .. Len(todo) :
             n = 1 \/ (n - 1 \in 1 .. Len(todo') /\ todo'[n - 1] = todo[n])
    BY <1>0, <1>2, Cut
  <2>2. /\ Means(s, inst[s]) => \E n \in 1 .. Len(todo) :
             /\ todo[n].op = "book" /\ todo[n].slot = s
        /\ \A n \in 1 .. Len(todo) :
             todo[n].op = "book" /\ todo[n].slot = s =>
               ~Means(s, todo[n].value)
    BY <1>0 DEF StopInv
  <2>3. 1 \in 1 .. Len(todo)
    BY <1>0, <2>1 DEF ListInv, Chain
  <2>4. inst'[s] = IF todo[1].op = "book" /\ todo[1].slot = s
                   THEN todo[1].value ELSE inst[s]
    <3>1. CASE Step
      <4>1. s \in InstFields
        BY Slots
      <4>. QED
        BY <1>0, <3>1, <4>1, Effect
    <3>2. CASE CommandFails
      <4>1. Head(todo) = todo[1]
        BY <1>0, <2>1, Rest DEF ListInv
      <4>2. inst' = inst /\ Head(todo).op # "book"
        BY <3>2 DEF CommandFails
      <4>. QED
        BY <4>1, <4>2
    <3>. QED
      BY <1>2, <3>1, <3>2
  <2>5. Means(s, inst'[s]) => \E n \in 1 .. Len(todo') :
          /\ todo'[n].op = "book" /\ todo'[n].slot = s
    <3>. SUFFICES ASSUME Means(s, inst'[s])
                  PROVE  \E n \in 1 .. Len(todo') :
                           /\ todo'[n].op = "book" /\ todo'[n].slot = s
      OBVIOUS
    <3>1. inst'[s] = inst[s] /\ (todo[1].op # "book" \/ todo[1].slot # s)
      BY <2>2, <2>3, <2>4
    <3>2. PICK n \in 1 .. Len(todo) : todo[n].op = "book" /\ todo[n].slot = s
      BY <2>2, <3>1
    <3>. QED
      BY <2>1, <3>1, <3>2
  <2>. QED
    BY <2>1, <2>2, <2>5
<1>3. CASE Terminate \/ CommandRaises
  <2>. SUFFICES ASSUME NEW s \in RuleSlots
                PROVE  /\ Means(s, inst'[s]) => \E n \in 1 .. Len(todo') :
                            /\ todo'[n].op = "book" /\ todo'[n].slot = s
                       /\ \A n \in 1 .. Len(todo') :
                            todo'[n].op = "book" /\ todo'[n].slot = s =>
                              ~Means(s, todo'[n].value)
    BY DEF StopInv
  <2>1. inst' = inst
    BY <1>3 DEF Terminate, CommandRaises
  <2>2. /\ Means(s, inst[s]) => Has(todo', Book(s, Unset(s)))
        /\ \A c : Has(todo', c) /\ c.op = "book" /\ c.slot \in RuleSlots =>
             ~Means(c.slot, c.value)
    BY <1>0, <1>3, StopList
  <2>3. Book(s, Unset(s)).op = "book" /\ Book(s, Unset(s)).slot = s
    BY DEF Book, Item
  <2>. QED
    BY <2>1, <2>2, <2>3 DEF Has
<1>4. CASE phase' # "stop"
  BY <1>4 DEF StopInv
<1>. QED
  BY <1>1, <1>2, <1>3, <1>4
     DEF Next, FileChanges, Start, ToLoop, Exit, Reconcile, Probe4, Probe6,
         Killed, Gone, InterfaceFlaps, vars

\* A fault leaves at most one rule more than there should be.
LEMMA Caps ==
    ASSUME NEW s
    PROVE  Cap(s) \in {0, 1} /\ Cap(s)' \in {0, 1}
BY DEF Cap

LEMMA CountStep ==
    ASSUME Inv, Step, NEW s \in RuleSlots
    PROVE  Len(kern'[s]) =< faults + Cap(s)'
<1>. DEFINE c == todo[1]
            d == todo'[1]
<1>0. Types /\ ListInv
  BY DEF Inv
<1>1. Len(kern[s]) =< faults + Cap(s) /\ faults \in Nat
  BY <1>0 DEF Inv, CountInv, Types
<1>2. /\ todo # << >> /\ c \in Command /\ Len(todo') = Len(todo) - 1
      /\ todo' # << >> => Link(c, d) /\ d \in Command
      /\ todo' = << >> => Ends(c)
  BY <1>0, Cut
<1>3. todo' # << >> => d = todo[2] /\ 2 \in 2 .. Len(todo)
  <2>1. todo' # << >> => Len(todo') > 0
    BY <1>0, Cut DEF Chain
  <2>. QED
    BY <1>0, <2>1, Cut
<1>4. todo' # << >> /\ d.op = "add" =>
        c.op = "del" \/ (~Means(d.slot, inst[d.slot]) /\ c.slot # d.slot)
  BY <1>0, <1>3 DEF ListInv, Fresh
<1>5. s \in KernSlots /\ s \in InstFields /\ s \notin RouteSlots
  BY Slots
<1>6. /\ kern'[s] =
           IF c.slot # s \/ c.op \in {"book", "fire"} THEN kern[s]
           ELSE IF c.op = "route" THEN c.value
           ELSE IF c.op = "add" THEN AddRule(kern[s], c.value)
           ELSE DelRule(kern[s])
      /\ inst'[s] = IF c.op = "book" /\ c.slot = s THEN c.value ELSE inst[s]
  BY <1>0, <1>5, Effect
<1>7. kern[s] \in Seq(Selectors) /\ Len(kern[s]) \in Nat
  BY <1>0 DEF Types
<1>8. /\ Cap(s) = IF c.slot = s /\ c.op \in {"add", "book"}
                  THEN IF c.op = "book" /\ Means(s, c.value) THEN 1 ELSE 0
                  ELSE IF Means(s, inst[s]) THEN 1 ELSE 0
      /\ Cap(s)' = IF todo' # << >> /\ d.slot = s /\ d.op \in {"add", "book"}
                   THEN IF d.op = "book" /\ Means(s, d.value) THEN 1 ELSE 0
                   ELSE IF Means(s, inst'[s]) THEN 1 ELSE 0
  BY <1>2 DEF Cap
<1>. HIDE DEF c, d
<1>9. /\ c.op \in {"route", "add", "del", "book", "fire"}
      /\ c.op = "route" => c.slot # s
      /\ c.op = "add" => c.value \in Selectors
      /\ c.op = "fire" => c.slot # s
  BY <1>2, <1>5, Kinds, Slots
<1>10. CASE c.slot # s
  <2>1. kern'[s] = kern[s] /\ inst'[s] = inst[s]
    BY <1>6, <1>10
  <2>2. Cap(s) = IF Means(s, inst[s]) THEN 1 ELSE 0
    BY <1>8, <1>10
  <2>3. CASE todo' # << >> /\ d.slot = s /\ d.op = "add"
    <3>1. c.op # "del"
      BY <1>2, <1>10, <2>3 DEF Link
    <3>2. ~Means(s, inst[s])
      BY <1>4, <2>3, <3>1
    <3>. QED
      BY <1>1, <1>8, <2>1, <2>2, <2>3, <3>2
  <2>4. CASE todo' # << >> /\ d.slot = s /\ d.op = "book"
    <3>1. c.slot = d.slot
      BY <1>2, <2>4 DEF Link
    <3>. QED
      BY <1>10, <2>4, <3>1
  <2>5. CASE ~(todo' # << >> /\ d.slot = s /\ d.op \in {"add", "book"})
    <3>1. Cap(s)' = IF Means(s, inst'[s]) THEN 1 ELSE 0
      BY <1>8, <2>5
    <3>. QED
      BY <1>1, <2>1, <2>2, <3>1
  <2>. QED
    BY <2>3, <2>4, <2>5
<1>11. CASE c.slot = s /\ c.op = "del"
  <2>1. todo' # << >>
    BY <1>2, <1>11 DEF Ends
  <2>2. d.slot = s /\ (d.op = "add" \/ (d.op = "book" /\ ~Means(s, d.value)))
    BY <1>2, <1>11, <2>1 DEF Link
  <2>3. Cap(s)' = 0
    BY <1>8, <2>1, <2>2
  <2>4. kern'[s] = DelRule(kern[s])
    BY <1>6, <1>11
  <2>5. Len(DelRule(kern[s])) = IF Len(kern[s]) = 0 THEN 0
                                ELSE Len(kern[s]) - 1
    <3>1. None \in Selectors
      BY DEF Selectors
    <3>. QED
      BY <1>7, <3>1, RuleSlot
  <2>6. Cap(s) \in {0, 1}
    BY Caps
  <2>. QED
    BY <1>1, <1>7, <2>3, <2>4, <2>5, <2>6
<1>12. CASE c.slot = s /\ c.op = "add"
  <2>1. todo' # << >>
    BY <1>2, <1>12 DEF Ends
  <2>2. d.op = "book" /\ d.slot = s /\ Means(s, d.value)
    BY <1>2, <1>12, <2>1 DEF Link
  <2>3. Cap(s)' = 1 /\ Cap(s) = 0
    BY <1>8, <1>12, <2>1, <2>2
  <2>4. kern'[s] = AddRule(kern[s], c.value)
    BY <1>6, <1>12
  <2>5. Len(AddRule(kern[s], c.value)) =< Len(kern[s]) + 1
    BY <1>7, <1>9, <1>12, RuleSlot
  <2>6. Len(AddRule(kern[s], c.value)) \in Nat
    <3>1. AddRule(kern[s], c.value) \in Seq(Selectors)
      BY <1>7, <1>9, <1>12, RuleSlot
    <3>. QED
      BY <3>1
  <2>. QED
    BY <1>1, <1>7, <2>3, <2>4, <2>5, <2>6
<1>13. CASE c.slot = s /\ c.op = "book"
  <2>1. kern'[s] = kern[s] /\ inst'[s] = c.value
    BY <1>6, <1>13
  <2>2. ~(todo' # << >> /\ d.slot = s /\ d.op \in {"add", "book"})
    <3>1. ~(todo' # << >> /\ d.slot = s /\ d.op = "book")
      <4>1. todo' # << >> /\ d.slot = s /\ d.op = "book" =>
              c.op \in {"add", "del"}
        BY <1>2 DEF Link
      <4>. QED
        BY <1>13, <4>1
    <3>2. ~(todo' # << >> /\ d.slot = s /\ d.op = "add")
      BY <1>4, <1>13
    <3>. QED
      BY <3>1, <3>2
  <2>3. Cap(s)' = Cap(s)
    BY <1>8, <1>13, <2>1, <2>2
  <2>. QED
    BY <1>1, <2>1, <2>3
<1>. QED
  BY <1>9, <1>10, <1>11, <1>12, <1>13

LEMMA KeepsCount == ASSUME Inv, [Next]_vars PROVE CountInv'
<1>. SUFFICES ASSUME NEW s \in RuleSlots
              PROVE  Len(kern'[s]) =< faults' + Cap(s)'
  BY DEF CountInv
<1>0. Types /\ ListInv /\ Only4Inv /\ StopInv
  BY DEF Inv
<1>1. /\ Len(kern[s]) =< faults + Cap(s) /\ faults \in Nat
      /\ Len(kern[s]) \in Nat
  BY <1>0 DEF Inv, CountInv, Types
<1>2. CASE UNCHANGED << todo, inst, kern, faults >>
  BY <1>1, <1>2 DEF Cap
<1>3. CASE Step
  <2>1. faults' = faults
    BY <1>3 DEF Step
  <2>. QED
    BY <1>3, <2>1, CountStep
<1>4. CASE Fault /\ kern'[s] = kern[s]
  <2>1. faults' = faults + 1
    BY <1>4 DEF Fault
  <2>2. Cap(s) \in {0, 1} /\ Cap(s)' \in {0, 1}
    BY Caps
  <2>. QED
    BY <1>1, <1>4, <2>1, <2>2
<1>5. CASE NewList /\ ~Fault
  <2>1. Whole(todo', inst) /\ inst' = inst /\ kern' = kern
    BY <1>0, <1>5, NewListIsWhole
  <2>2. todo = << >> /\ faults' = faults
    BY <1>0, <1>5
       DEF ListInv, NewList, Reconcile, Probe4, Probe6, Terminate,
           CommandRaises
  <2>3. Cap(s) = IF Means(s, inst[s]) THEN 1 ELSE 0
    BY <2>2 DEF Cap
  <2>4. Cap(s)' = Cap(s)
    <3>1. CASE todo' # << >> /\ todo'[1].slot = s /\ todo'[1].op = "add"
      <4>1. 1 \in 1 .. Len(todo')
        BY <2>1, <3>1 DEF Whole, Chain
      <4>2. Fresh(todo', inst, 1)
        BY <2>1, <3>1, <4>1 DEF Whole
      <4>3. ~Means(s, inst[s])
        BY <3>1, <4>2 DEF Fresh
      <4>. QED
        BY <2>3, <3>1, <4>3 DEF Cap
    <3>2. CASE todo' # << >> /\ todo'[1].slot = s /\ todo'[1].op = "book"
      <4>1. s = "route6"
        BY <2>1, <3>2 DEF Whole, Begins
      <4>. QED
        BY <4>1, Slots
    <3>3. CASE ~(todo' # << >> /\ todo'[1].slot = s
                   /\ todo'[1].op \in {"add", "book"})
      BY <2>1, <2>3, <3>3 DEF Cap
    <3>. QED
      BY <3>1, <3>2, <3>3
  <2>. QED
    BY <1>1, <2>1, <2>2, <2>4
<1>6. CASE Start
  <2>1. todo = << >> /\ inst = EmptyInst /\ inst' = EmptyInst
        /\ kern' = kern /\ faults' = faults
    BY <1>0, <1>6 DEF Start, ListInv
  <2>2. ~Means(s, EmptyInst[s])
    BY EmptyInstFacts
  <2>3. Cap(s) = 0 /\ Cap(s)' \in {0, 1}
    BY <2>1, <2>2, Caps DEF Cap
  <2>. QED
    BY <1>1, <2>1, <2>3
<1>7. CASE Exit
  <2>1. /\ todo = << >> /\ phase = "stop" /\ kern' = kern
        /\ faults' = faults
    BY <1>7 DEF Exit
  <2>2. ~Means(s, inst[s])
    BY <1>0, <2>1, NothingLeft DEF StopInv
  <2>3. Cap(s) = 0 /\ Cap(s)' \in {0, 1}
    BY <2>1, <2>2, Caps DEF Cap
  <2>. QED
    BY <1>1, <2>1, <2>3
<1>8. CASE InterfaceFlaps
  <2>1. kern'[s] = kern[s] /\ Fault
    BY <1>0, <1>8, Slots DEF Types, InterfaceFlaps
  <2>. QED
    BY <1>4, <2>1
<1>9. CASE CommandFails \/ CommandRaises \/ Killed
  <2>1. kern' = kern /\ Fault
    BY <1>9 DEF CommandFails, CommandRaises, Killed
  <2>. QED
    BY <1>4, <2>1
<1>10. CASE ToLoop \/ FileChanges
  BY <1>2, <1>10 DEF ToLoop, FileChanges
<1>11. CASE Reconcile \/ Probe4 \/ Probe6 \/ Terminate
  <2>1. faults' = faults
    BY <1>11 DEF Reconcile, Probe4, Probe6, Terminate
  <2>2. ~Fault
    BY <1>1, <2>1 DEF Fault
  <2>. QED
    BY <1>5, <1>11, <2>2 DEF NewList
<1>. QED
  BY <1>2, <1>3, <1>6, <1>7, <1>8, <1>9, <1>10, <1>11 DEF Next, vars

\* No deletion costs a rule that is remembered.
LEMMA RuleStep ==
    ASSUME Inv, Step, sound, NEW s \in RuleSlots
    PROVE  /\ Means(s, inst'[s]) =>
                \/ Contains(kern'[s], Selector(s, inst'[s]))
                \/ \E n \in 1 .. Len(todo') :
                     todo'[n].op = "book" /\ todo'[n].slot = s
           /\ (todo' # << >> /\ todo'[1].op = "book" /\ todo'[1].slot = s
                 /\ Means(s, todo'[1].value)) =>
                Contains(kern'[s], Selector(s, todo'[1].value))
<1>. DEFINE c == todo[1]
            d == todo'[1]
            Coming == \E n \in 1 .. Len(todo') :
                        todo'[n].op = "book" /\ todo'[n].slot = s
<1>0. Types /\ ListInv
  BY DEF Inv
<1>1. /\ Means(s, inst[s]) =>
           \/ Contains(kern[s], Selector(s, inst[s]))
           \/ \E n \in 1 .. Len(todo) :
                todo[n].op = "book" /\ todo[n].slot = s
      /\ (todo # << >> /\ c.op = "book" /\ c.slot = s
            /\ Means(s, c.value)) =>
           Contains(kern[s], Selector(s, c.value))
  BY DEF Inv, RuleInv
<1>2. /\ todo # << >> /\ c \in Command /\ Len(todo') = Len(todo) - 1
      /\ todo' # << >> => Link(c, d) /\ d \in Command
      /\ todo' = << >> => Ends(c)
      /\ Chain(todo') /\ Len(todo) \in Nat
      /\ \A n \in 1 .. Len(todo) :
           n = 1 \/ (n - 1 \in 1 .. Len(todo') /\ todo'[n - 1] = todo[n])
  BY <1>0, Cut
<1>3. s \in KernSlots /\ s \in InstFields /\ s \notin RouteSlots
  BY Slots
<1>4. /\ kern'[s] =
           IF c.slot # s \/ c.op \in {"book", "fire"} THEN kern[s]
           ELSE IF c.op = "route" THEN c.value
           ELSE IF c.op = "add" THEN AddRule(kern[s], c.value)
           ELSE DelRule(kern[s])
      /\ inst'[s] = IF c.op = "book" /\ c.slot = s THEN c.value ELSE inst[s]
  BY <1>0, <1>3, Effect
<1>5. kern[s] \in Seq(Selectors)
  BY <1>0 DEF Types
<1>6. todo' # << >> => 1 \in 1 .. Len(todo')
  BY <1>2 DEF Chain
<1>7. (\E n \in 1 .. Len(todo) : todo[n].op = "book" /\ todo[n].slot = s)
        /\ ~(c.op = "book" /\ c.slot = s) => Coming
  BY <1>2
<1>8. /\ c.op \in {"route", "add", "del", "book", "fire"}
      /\ c.op = "route" => c.slot # s
      /\ c.op = "add" => c.value \in Selectors
      /\ c.op = "fire" => c.slot # s
  BY <1>2, <1>3, Kinds, Slots
<1>9. c.slot = s /\ c.op = "add" =>
        /\ todo' # << >> /\ d.op = "book" /\ d.slot = s
        /\ Contains(kern'[s], c.value) /\ Selector(s, d.value) = c.value
  <2>. SUFFICES ASSUME c.slot = s, c.op = "add"
                PROVE  /\ todo' # << >> /\ d.op = "book" /\ d.slot = s
                       /\ Contains(kern'[s], c.value)
                       /\ Selector(s, d.value) = c.value
    OBVIOUS
  <2>. HIDE DEF c, d
  <2>1. todo' # << >>
    BY <1>2 DEF Ends
  <2>2. d.op = "book" /\ d.slot = s /\ Selector(s, d.value) = c.value
    BY <1>2, <2>1 DEF Link
  <2>3. kern'[s] = AddRule(kern[s], c.value)
    BY <1>4
  <2>. QED
    BY <1>5, <1>8, <2>1, <2>2, <2>3, RuleSlot
<1>10. c.slot = s /\ c.op = "del" => Coming
  <2>. SUFFICES ASSUME c.slot = s, c.op = "del"
                PROVE  Coming
    OBVIOUS
  <2>1. todo' # << >>
    BY <1>2 DEF Ends
  <2>2. d.slot = s /\ d.op \in {"add", "book"}
    <3>1. Link(c, d)
      BY <1>2, <2>1
    <3>. HIDE DEF c, d
    <3>. QED
      BY <3>1 DEF Link
  <2>3. CASE d.op = "book"
    BY <1>6, <2>1, <2>2, <2>3
  <2>4. CASE d.op = "add"
    <3>1. Len(todo') > 1
      <4>1. Len(todo') # 1
        BY <1>2, <2>1, <2>4 DEF Chain, Ends
      <4>. QED
        BY <1>2, <1>6, <2>1, <4>1
    <3>2. Link(todo'[1], todo'[2])
      <4>1. 1 \in 1 .. Len(todo') - 1 /\ 1 + 1 = 2
        BY <1>2, <3>1
      <4>. QED
        BY <1>2, <4>1 DEF Chain
    <3>. DEFINE e == todo'[2]
    <3>3. e.op = "book" /\ e.slot = s
      <4>. HIDE DEF d, e
      <4>1. Link(d, e)
        BY <3>2 DEF d, e
      <4>. QED
        BY <2>2, <2>4, <4>1 DEF Link
    <3>4. 2 \in 1 .. Len(todo')
      BY <1>2, <3>1
    <3>. QED
      BY <3>3, <3>4
  <2>. QED
    BY <2>2, <2>3, <2>4
<1>11. Means(s, inst'[s]) =>
         Contains(kern'[s], Selector(s, inst'[s])) \/ Coming
  <2>1. CASE c.slot = s /\ c.op = "book"
    BY <1>1, <1>2, <1>4, <2>1
  <2>2. CASE c.slot = s /\ c.op = "del"
    BY <1>10, <2>2
  <2>3. CASE c.slot = s /\ c.op = "add"
    BY <1>6, <1>9, <2>3
  <2>4. CASE c.slot # s
    <3>1. inst'[s] = inst[s] /\ kern'[s] = kern[s]
      BY <1>4, <2>4
    <3>. HIDE DEF Coming
    <3>. QED
      BY <1>1, <1>7, <2>4, <3>1
  <2>. QED
    BY <1>8, <2>1, <2>2, <2>3, <2>4
<1>12. (todo' # << >> /\ d.op = "book" /\ d.slot = s /\ Means(s, d.value)) =>
         Contains(kern'[s], Selector(s, d.value))
  <2>. SUFFICES ASSUME todo' # << >>, d.op = "book", d.slot = s,
                       Means(s, d.value)
                PROVE  Contains(kern'[s], Selector(s, d.value))
    OBVIOUS
  <2>1. c.slot = s /\ c.op = "add"
    <3>1. Link(c, d)
      BY <1>2
    <3>. HIDE DEF c, d
    <3>. QED
      BY <3>1 DEF Link
  <2>. QED
    BY <1>9, <2>1
<1>. QED
  BY <1>11, <1>12

LEMMA KeepsRules == ASSUME Inv, [Next]_vars PROVE RuleInv'
<1>0. Types /\ ListInv /\ Only4Inv /\ RuleInv
  BY DEF Inv
<1>1. CASE UNCHANGED << todo, inst, kern, sound >>
  BY <1>0, <1>1 DEF RuleInv
<1>2. CASE Step
  <2>1. sound' = sound
    BY <1>2 DEF Step
  <2>. QED
    BY <1>2, <2>1, RuleStep DEF RuleInv
<1>3. CASE sound' = FALSE
  BY <1>3 DEF RuleInv
<1>4. CASE Reconcile \/ Probe4 \/ Probe6 \/ Terminate
  <2>1. /\ Whole(todo', inst) /\ inst' = inst /\ kern' = kern
        /\ sound' = sound
    BY <1>0, <1>4, NewListIsWhole
       DEF NewList, Reconcile, Probe4, Probe6, Terminate
  <2>2. todo = << >>
    BY <1>0, <1>4 DEF ListInv, Reconcile, Probe4, Probe6, Terminate
  <2>3. \A s \in RuleSlots : sound /\ Means(s, inst[s]) =>
          Contains(kern[s], Selector(s, inst[s]))
    BY <1>0, <2>2, NothingLeft DEF RuleInv
  <2>4. \A s \in RuleSlots :
          ~(todo' # << >> /\ todo'[1].op = "book" /\ todo'[1].slot = s)
    BY <2>1, Slots DEF Whole, Begins
  <2>. QED
    BY <2>1, <2>3, <2>4 DEF RuleInv
<1>5. CASE Start
  <2>1. Whole(todo', EmptyInst) /\ inst' = EmptyInst
    BY <1>0, <1>5, StartList DEF Start
  <2>2. \A s \in RuleSlots :
          ~(todo' # << >> /\ todo'[1].op = "book" /\ todo'[1].slot = s)
    BY <2>1, Slots DEF Whole, Begins
  <2>. QED
    BY <2>1, <2>2, EmptyInstFacts DEF RuleInv
<1>6. CASE Exit \/ Killed
  <2>1. todo' = << >> /\ inst' = EmptyInst
    BY <1>6 DEF Exit, Killed, Gone
  <2>. QED
    BY <2>1, EmptyInstFacts DEF RuleInv
<1>. QED
  BY <1>1, <1>2, <1>3, <1>4, <1>5, <1>6
     DEF Next, FileChanges, ToLoop, CommandFails, CommandRaises,
         InterfaceFlaps, vars

\* Both routes go to the gateway that is remembered.
LEMMA GatewayStep ==
    ASSUME Inv, Step
    PROVE  GatewayInv'
<1>. DEFINE c == todo[1]
            d == todo'[1]
            g == Wanted4
            IsBook(x) == x.op = "book" /\ x.slot = "gateway"
<1>0. Types /\ ListInv /\ GatewayInv
  BY DEF Inv
<1>1. /\ todo # << >> /\ c \in Command /\ Len(todo') = Len(todo) - 1
      /\ Len(todo) \in Nat
      /\ todo' # << >> => Link(c, d) /\ d \in Command
      /\ todo' = << >> => Ends(c)
      /\ \A n \in 1 .. Len(todo') :
           n + 1 \in 1 .. Len(todo) /\ todo'[n] = todo[n + 1]
      /\ \A n \in 1 .. Len(todo) :
           n = 1 \/ (n - 1 \in 1 .. Len(todo') /\ todo'[n - 1] = todo[n])
      /\ \A x : Has(todo, x) => x = c \/ Has(todo', x)
      /\ Chain(todo')
  BY <1>0, Cut
<1>2. 1 \in 1 .. Len(todo)
  BY <1>0, <1>1 DEF ListInv, Chain
<1>3. /\ \A s \in RouteSlots :
           kern'[s] = IF c.slot = s /\ c.op = "route" THEN c.value
                      ELSE kern[s]
      /\ inst'["gateway"] = IF IsBook(c) THEN c.value ELSE inst["gateway"]
  <2>1. \A s \in RouteSlots : s \in KernSlots /\ s \notin RuleSlots
    BY Slots
  <2>2. c.op \in {"add", "del"} => c.slot \in RuleSlots
    BY <1>1, Kinds
  <2>3. c.op \in {"route", "add", "del", "book", "fire"}
    BY <1>1, Kinds
  <2>4. "gateway" \in InstFields
    BY Slots
  <2>. QED
    BY <1>0, <2>1, <2>2, <2>3, <2>4, Effect
<1>4. Serving' = Serving /\ sound' = sound /\ up' = up /\ file' = file
  BY DEF Step, Serving
<1>5. Wanted4' = g /\ ReadState("v4")' = ReadState("v4")
  BY <1>4 DEF Wanted4, ReadState
<1>6. /\ Serving =>
           /\ up.ipv4 => ReadState("v4") # None
           /\ \A n \in 1 .. Len(todo) : IsBook(todo[n]) => todo[n].value = g
           /\ inst.gateway = g \/ Has(todo, Book("gateway", g))
      /\ sound =>
           /\ inst.gateway # None =>
                \/ kern.shared = inst.gateway /\ kern.own = inst.gateway
                \/ \E n \in 1 .. Len(todo) : IsBook(todo[n])
           /\ IsBook(c) => kern.shared = c.value /\ kern.own = c.value
           /\ c.op = "route" /\ c.slot = "own" => kern.shared = c.value
  BY <1>0, <1>1 DEF GatewayInv
<1>7. "shared" \in RouteSlots /\ "own" \in RouteSlots
  BY Slots
<1>. HIDE DEF g, c, d
<1>8. ASSUME Serving
      PROVE  /\ \A n \in 1 .. Len(todo') :
                  IsBook(todo'[n]) => todo'[n].value = g
             /\ inst'.gateway = g \/ Has(todo', Book("gateway", g))
  <2>1. \A n \in 1 .. Len(todo') : IsBook(todo'[n]) => todo'[n].value = g
    BY <1>1, <1>6, <1>8
  <2>2. CASE IsBook(c)
    <3>1. c.value = g
      BY <1>2, <1>6, <1>8, <2>2 DEF c
    <3>. QED
      BY <1>3, <2>1, <2>2, <3>1
  <2>3. CASE ~IsBook(c)
    <3>1. c # Book("gateway", g)
      BY <2>3 DEF Book, Item
    <3>. QED
      BY <1>1, <1>3, <1>6, <1>8, <2>1, <2>3, <3>1
  <2>. QED
    BY <2>2, <2>3
<1>9. ASSUME c.op = "route", c.slot \in {"shared", "own"}
      PROVE  \E n \in 1 .. Len(todo') : IsBook(todo'[n])
  <2>1. todo' # << >>
    BY <1>1, <1>9 DEF Ends
  <2>2. 1 \in 1 .. Len(todo')
    BY <1>1, <2>1 DEF Chain
  <2>3. Link(c, d)
    BY <1>1, <2>1
  <2>4. CASE c.slot = "own"
    <3>1. d = Book("gateway", c.value)
      BY <1>9, <2>3, <2>4 DEF Link
    <3>2. IsBook(d)
      BY <3>1 DEF Book, Item
    <3>. QED
      BY <2>2, <3>2 DEF d
  <2>5. CASE c.slot = "shared"
    <3>1. d = ReplaceRoute("own", c.value)
      BY <1>9, <2>3, <2>5 DEF Link
    <3>2. d.op = "route" /\ d.slot = "own"
      BY <3>1 DEF ReplaceRoute, Item
    <3>3. Len(todo') > 1
      <4>1. Len(todo') # 1
        BY <1>1, <2>1, <3>2 DEF Chain, Ends, d
      <4>. QED
        BY <1>1, <2>2, <4>1
    <3>. DEFINE e == todo'[2]
    <3>4. Link(d, e)
      <4>1. 1 \in 1 .. Len(todo') - 1 /\ 1 + 1 = 2
        BY <1>1, <3>3
      <4>. QED
        BY <1>1, <4>1 DEF Chain, d
    <3>5. 2 \in 1 .. Len(todo')
      BY <1>1, <3>3
    <3>6. IsBook(e)
      <4>. HIDE DEF e
      <4>1. e = Book("gateway", d.value)
        BY <3>2, <3>4 DEF Link
      <4>. QED
        BY <4>1 DEF Book, Item
    <3>. QED
      BY <3>5, <3>6
  <2>. QED
    BY <1>9, <2>4, <2>5
<1>10. ASSUME sound, inst'.gateway # None
       PROVE  \/ kern'.shared = inst'.gateway /\ kern'.own = inst'.gateway
              \/ \E n \in 1 .. Len(todo') : IsBook(todo'[n])
  <2>1. CASE IsBook(c)
    BY <1>3, <1>6, <1>7, <1>10, <2>1
  <2>2. CASE c.op = "route" /\ c.slot \in {"shared", "own"}
    BY <1>9, <2>2
  <2>3. CASE ~IsBook(c) /\ ~(c.op = "route" /\ c.slot \in {"shared", "own"})
    <3>1. /\ inst'.gateway = inst.gateway /\ kern'.shared = kern.shared
          /\ kern'.own = kern.own
      BY <1>3, <1>7, <2>3
    <3>2. CASE kern.shared = inst.gateway /\ kern.own = inst.gateway
      BY <3>1, <3>2
    <3>3. CASE \E n \in 1 .. Len(todo) : IsBook(todo[n])
      BY <1>1, <2>3, <3>3 DEF c
    <3>. QED
      BY <1>6, <1>10, <3>1, <3>2, <3>3
  <2>. QED
    BY <2>1, <2>2, <2>3
<1>11. ASSUME sound, todo' # << >>
       PROVE  /\ IsBook(d) => kern'.shared = d.value /\ kern'.own = d.value
              /\ d.op = "route" /\ d.slot = "own" => kern'.shared = d.value
  <2>1. Link(c, d)
    BY <1>1, <1>11
  <2>2. ASSUME IsBook(d)
        PROVE  kern'.shared = d.value /\ kern'.own = d.value
    <3>1. c = ReplaceRoute("own", d.value)
      BY <2>1, <2>2 DEF Link
    <3>2. c.op = "route" /\ c.slot = "own" /\ c.value = d.value
      BY <3>1 DEF ReplaceRoute, Item
    <3>. QED
      BY <1>3, <1>6, <1>7, <1>11, <3>2
  <2>3. ASSUME d.op = "route", d.slot = "own"
        PROVE  kern'.shared = d.value
    <3>1. c = ReplaceRoute("shared", d.value)
      BY <2>1, <2>3 DEF Link
    <3>2. c.op = "route" /\ c.slot = "shared" /\ c.value = d.value
      BY <3>1 DEF ReplaceRoute, Item
    <3>. QED
      BY <1>3, <1>7, <3>2
  <2>. QED
    BY <2>2, <2>3
<1>. QED
  BY <1>4, <1>5, <1>6, <1>8, <1>10, <1>11 DEF GatewayInv, d

LEMMA GatewayMade ==
    ASSUME NEW q, NEW i, NEW g, Whole(q, i), Gateway(q, i, g)
    PROVE  /\ \A n \in 1 .. Len(q) :
                q[n].op = "book" /\ q[n].slot = "gateway" => q[n].value = g
           /\ i.gateway = g \/ Has(q, Book("gateway", g))
BY DEF Gateway, Has

LEMMA KeepsGateway == ASSUME Inv, [Next]_vars PROVE GatewayInv'
<1>0. Types /\ ListInv /\ Only4Inv /\ GatewayInv
  BY DEF Inv
<1>1. CASE UNCHANGED << todo, inst, kern, sound, file, up >>
             /\ (Serving' => Serving)
  BY <1>0, <1>1 DEF GatewayInv, Wanted4, ReadState
<1>2. CASE FileChanges
  <2>1. ~Serving'
    BY <1>0, <1>2 DEF FileChanges, Serving, Types
  <2>. QED
    BY <1>0, <1>2, <2>1 DEF GatewayInv, FileChanges
<1>3. CASE Step
  BY <1>3, GatewayStep
<1>4. CASE Start \/ Reconcile \/ Probe4 \/ Probe6 \/ Terminate
  <2>. DEFINE g == WantGateway(ReadState("v4"), up'.ipv4)
  <2>1. /\ Whole(todo', inst') /\ file' = file /\ todo = << >> /\ kern' = kern
    <3>1. CASE Start
      BY <1>0, <3>1, StartList DEF Start, ListInv
    <3>2. CASE ~Start
      BY <1>0, <1>4, <3>2, NewListIsWhole
         DEF NewList, Reconcile, Probe4, Probe6, Terminate, ListInv
    <3>. QED
      BY <3>1, <3>2
  <2>2. Wanted4' = g /\ ReadState("v4")' = ReadState("v4")
    BY <2>1 DEF Wanted4, ReadState
  <2>. HIDE DEF g
  <2>3. ASSUME Serving'
        PROVE  /\ up'.ipv4 => ReadState("v4") # None
               /\ \A n \in 1 .. Len(todo') :
                    todo'[n].op = "book" /\ todo'[n].slot = "gateway" =>
                      todo'[n].value = g
               /\ inst'.gateway = g \/ Has(todo', Book("gateway", g))
    <3>1. CASE Start
      <4>1. Gateway(todo', EmptyInst, g) /\ inst' = EmptyInst
        BY <1>0, <3>1, StartList DEF Start, g
      <4>2. up'.ipv4 => ReadState("v4") # None
        BY <3>1 DEF Start, Forced
      <4>. QED
        BY <2>1, <4>1, <4>2, GatewayMade
    <3>2. CASE Reconcile
      <4>1. Gateway(todo', inst, g) /\ inst' = inst
        BY <1>0, <3>2, ReconcileList DEF Reconcile, g
      <4>2. up'.ipv4 => ReadState("v4") # None
        BY <3>2 DEF Reconcile, Forced
      <4>. QED
        BY <2>1, <4>1, <4>2, GatewayMade
    <3>3. CASE Probe4
      <4>1. Gateway(todo', inst, g) /\ inst' = inst
        BY <1>0, <3>3, Probe4List DEF Probe4, g
      <4>2. up'.ipv4 => ReadState("v4") # None
        BY <1>0, <3>3 DEF Probe4, Types
      <4>. QED
        BY <2>1, <4>1, <4>2, GatewayMade
    <3>4. CASE Probe6
      <4>1. up'.ipv4 = up.ipv4 /\ inst' = inst /\ Serving
        BY <1>0, <2>3, <3>4 DEF Probe6, Serving, Types
      <4>2. g = Wanted4
        BY <4>1 DEF Wanted4, g
      <4>3. inst.gateway = g /\ (up.ipv4 => ReadState("v4") # None)
        BY <1>0, <2>1, <4>1, <4>2, NothingLeft DEF GatewayInv
      <4>4. \A x : Has(todo', x) => x.slot # "gateway"
        BY <1>0, <3>4, Probe6List
      <4>. QED
        BY <4>1, <4>3, <4>4 DEF Has
    <3>5. CASE Terminate
      BY <2>3, <3>5 DEF Terminate, Serving
    <3>. QED
      BY <1>4, <3>1, <3>2, <3>3, <3>4, <3>5
  <2>4. ASSUME sound'
        PROVE  /\ inst'.gateway # None =>
                    kern'.shared = inst'.gateway /\ kern'.own = inst'.gateway
               /\ todo' # << >> =>
                    /\ ~(todo'[1].op = "book" /\ todo'[1].slot = "gateway")
                    /\ ~(todo'[1].op = "route" /\ todo'[1].slot = "own")
    <3>1. todo' # << >> =>
            /\ ~(todo'[1].op = "book" /\ todo'[1].slot = "gateway")
            /\ ~(todo'[1].op = "route" /\ todo'[1].slot = "own")
      BY <2>1 DEF Whole, Begins
    <3>2. CASE Start
      <4>1. inst'.gateway = None
        BY <3>2, EmptyInstFacts DEF Start
      <4>. QED
        BY <3>1, <4>1
    <3>3. CASE ~Start
      <4>1. inst' = inst /\ sound
        BY <1>4, <2>4, <3>3 DEF Reconcile, Probe4, Probe6, Terminate
      <4>2. inst.gateway # None =>
              kern.shared = inst.gateway /\ kern.own = inst.gateway
        BY <1>0, <2>1, <4>1, NothingLeft DEF GatewayInv
      <4>. QED
        BY <2>1, <3>1, <4>1, <4>2
    <3>. QED
      BY <3>2, <3>3
  <2>. QED
    BY <2>2, <2>3, <2>4 DEF GatewayInv
<1>5. CASE Exit \/ Killed
  <2>1. todo' = << >> /\ inst' = EmptyInst /\ ~Serving'
    BY <1>5 DEF Exit, Killed, Gone, Serving
  <2>. QED
    BY <2>1, EmptyInstFacts DEF GatewayInv
<1>6. CASE CommandFails
  <2>. DEFINE c == todo[1]
              g == Wanted4
  <2>1. /\ \A n \in 1 .. Len(todo') :
             n + 1 \in 1 .. Len(todo) /\ todo'[n] = todo[n + 1]
        /\ \A x : Has(todo, x) => x = c \/ Has(todo', x)
        /\ todo # << >>
    BY <1>0, <1>6, Cut
  <2>2. Head(todo) = c
    BY <1>0, <2>1, Rest DEF ListInv
  <2>3. c.op # "book"
    BY <1>6, <2>2 DEF CommandFails
  <2>4. /\ inst' = inst /\ file' = file /\ up' = up /\ sound' = FALSE
        /\ Serving' = Serving
    BY <1>6 DEF CommandFails, Fault, Serving
  <2>5. Wanted4' = g /\ ReadState("v4")' = ReadState("v4")
    BY <2>4 DEF Wanted4, ReadState
  <2>. HIDE DEF c, g
  <2>6. c # Book("gateway", g)
    BY <2>3 DEF Book, Item
  <2>7. Serving =>
          /\ up.ipv4 => ReadState("v4") # None
          /\ \A n \in 1 .. Len(todo) :
               todo[n].op = "book" /\ todo[n].slot = "gateway" =>
                 todo[n].value = g
          /\ inst.gateway = g \/ Has(todo, Book("gateway", g))
    BY <1>0 DEF GatewayInv, g
  <2>. QED
    BY <2>1, <2>4, <2>5, <2>6, <2>7 DEF GatewayInv
<1>7. CASE CommandRaises
  BY <1>7 DEF GatewayInv, CommandRaises, Serving
<1>8. CASE InterfaceFlaps
  <2>1. /\ sound' = FALSE /\ Serving' = Serving /\ todo' = todo /\ inst' = inst
        /\ file' = file /\ up' = up
    BY <1>8 DEF InterfaceFlaps, Fault, Serving
  <2>. QED
    BY <1>0, <2>1 DEF GatewayInv, Wanted4, ReadState
<1>9. CASE ToLoop
  <2>1. UNCHANGED << todo, inst, kern, sound, file, up >>
          /\ (Serving' => Serving)
    BY <1>9 DEF ToLoop, Serving
  <2>. QED
    BY <1>1, <2>1
<1>10. CASE UNCHANGED vars
  <2>1. UNCHANGED << todo, inst, kern, sound, file, up >>
          /\ (Serving' => Serving)
    BY <1>10 DEF vars, Serving
  <2>. QED
    BY <1>1, <2>1
<1>. QED
  BY <1>2, <1>3, <1>4, <1>5, <1>6, <1>7, <1>8, <1>9, <1>10 DEF Next

\* The route to the router is the one of the file, or about to be.
LEMMA KeepsRoute6 == ASSUME Inv, [Next]_vars PROVE Route6Inv'
<1>0. Types /\ ListInv /\ Route6Inv
  BY DEF Inv
<1>. DEFINE x == Route6(ReadState("ra"))
            On == Ipv6 /\ ReadState("ra") # None
            IsRoute(c) == c.op = "route" /\ c.slot = "route6"
<1>1. uplink' = uplink
  BY DEF Next, vars
<1>2. SUFFICES ASSUME Serving', fresh6', On'
               PROVE  /\ kern'.route6 = x'
                           \/ Has(todo', ReplaceRoute("route6", x'))
                      /\ \A n \in 1 .. Len(todo') :
                           IsRoute(todo'[n]) => todo'[n].value = x'
  BY DEF Route6Inv
<1>3. file' = file => x' = x /\ On' = On
  BY <1>1 DEF ReadState, Ipv6
<1>4. Serving /\ fresh6 /\ On =>
        /\ kern.route6 = x \/ Has(todo, ReplaceRoute("route6", x))
        /\ \A n \in 1 .. Len(todo) : IsRoute(todo[n]) => todo[n].value = x
  BY <1>0 DEF Route6Inv
<1>. HIDE DEF x, On
<1>5. CASE UNCHANGED << todo, kern, fresh6, file >> /\ Serving
  BY <1>2, <1>3, <1>4, <1>5
<1>6. CASE UNCHANGED vars
  <2>1. UNCHANGED << todo, kern, fresh6, file >> /\ Serving
    BY <1>2, <1>6 DEF vars, Serving
  <2>. QED
    BY <1>5, <2>1
<1>7. CASE FileChanges
  BY <1>0, <1>2, <1>7 DEF FileChanges, Serving, Types
<1>8. CASE Step
  <2>. DEFINE c == todo[1]
  <2>1. /\ c \in Command
        /\ \A n \in 1 .. Len(todo') :
             n + 1 \in 1 .. Len(todo) /\ todo'[n] = todo[n + 1]
        /\ \A y : Has(todo, y) => y = c \/ Has(todo', y)
        /\ 1 \in 1 .. Len(todo)
    BY <1>0, <1>8, Cut DEF ListInv, Chain
  <2>2. Serving /\ fresh6 /\ file' = file /\ On /\ x' = x
    BY <1>2, <1>3, <1>8 DEF Step, Serving
  <2>3. kern'["route6"] = IF IsRoute(c) THEN c.value ELSE kern["route6"]
    <3>1. "route6" \in KernSlots /\ "route6" \notin RuleSlots
      BY Slots
    <3>2. /\ c.op \in {"route", "add", "del", "book", "fire"}
          /\ c.op \in {"add", "del"} => c.slot \in RuleSlots
      BY <2>1, Kinds
    <3>. QED
      BY <1>0, <1>8, <3>1, <3>2, Effect
  <2>4. /\ kern.route6 = x \/ Has(todo, ReplaceRoute("route6", x))
        /\ \A n \in 1 .. Len(todo) : IsRoute(todo[n]) => todo[n].value = x
    BY <1>4, <2>2
  <2>5. IsRoute(c) => c.value = x
    BY <2>1, <2>4
  <2>6. c = ReplaceRoute("route6", x) => IsRoute(c)
    BY DEF ReplaceRoute, Item
  <2>. HIDE DEF c
  <2>. QED
    BY <2>1, <2>2, <2>3, <2>4, <2>5, <2>6
<1>9. CASE Start \/ Reconcile \/ Probe6
  <2>1. file' = file
    BY <1>9 DEF Start, Reconcile, Probe6
  <2>2. On /\ x' = x
    BY <1>2, <1>3, <2>1
  <2>3. Router(todo', x)
    BY <1>0, <1>9, <2>2, StartList, ReconcileList, Probe6List DEF x, On
  <2>. QED
    BY <2>2, <2>3 DEF Router, Has
<1>10. CASE Probe4
  <2>1. /\ file' = file /\ kern' = kern /\ Serving /\ fresh6 /\ todo = << >>
    BY <1>0, <1>2, <1>10 DEF Probe4, Serving, ListInv
  <2>2. \A y : Has(todo', y) => y.slot # "route6"
    BY <1>0, <1>10, Probe4List
  <2>3. On /\ x' = x
    BY <1>2, <1>3, <2>1
  <2>4. kern.route6 = x
    BY <1>4, <2>1, <2>3, NothingLeft
  <2>. QED
    BY <2>1, <2>2, <2>3, <2>4 DEF Has
<1>11. CASE ToLoop
  <2>1. UNCHANGED << todo, kern, fresh6, file >> /\ Serving
    BY <1>2, <1>11 DEF ToLoop, Serving
  <2>. QED
    BY <1>5, <2>1
<1>12. CASE Exit \/ Killed \/ Terminate
  BY <1>2, <1>12 DEF Exit, Killed, Terminate, Gone, Serving
<1>13. CASE CommandFails \/ CommandRaises \/ InterfaceFlaps
  BY <1>2, <1>13 DEF CommandFails, CommandRaises, InterfaceFlaps
<1>. QED
  BY <1>6, <1>7, <1>8, <1>9, <1>10, <1>11, <1>12, <1>13 DEF Next

-----------------------------------------------------------------------------
\* Where a list leads: what is remembered and what is in the kernel, r, after
\* each of its commands.

After(r, c) == [inst |-> Booked(r.inst, c), kern |-> Run(r.kern, c)]

IsList(q) == \E C : q \in Seq(C)

Leads(q, r, t) ==
    /\ IsList(q)
    /\ \E f : /\ f[0] = r /\ f[Len(q)] = t
              /\ \A n \in 1 .. Len(q) : f[n] = After(f[n - 1], q[n])

LEMMA LeadsNowhere ==
    ASSUME NEW r, NEW t
    PROVE  Leads(<< >>, r, r) /\ (Leads(<< >>, r, t) => t = r)
<1>1. IsList(<< >>) /\ Len(<< >>) = 0
  BY << >> \in Seq({}) DEF IsList
<1>. DEFINE e == << >>
            f == [n \in {0} |-> r]
<1>2. f[0] = r
  OBVIOUS
<1>3. IsList(e) /\ Len(e) = 0 /\ 1 .. 0 = {}
  BY <1>1
<1>. HIDE DEF e, f
<1>4. Leads(e, r, r)
  <2>1. f[Len(e)] = r /\ \A n \in 1 .. Len(e) : f[n] = After(f[n - 1], e[n])
    BY <1>2, <1>3
  <2>. QED
    BY <1>2, <1>3, <2>1 DEF Leads
<1>5. Leads(e, r, t) => t = r
  BY <1>3 DEF Leads
<1>. QED
  BY <1>4, <1>5 DEF e

LEMMA LeadsOne ==
    ASSUME NEW x, NEW r
    PROVE  Leads(<< x >>, r, After(r, x))
<1>. DEFINE q == << x >>
            f == [n \in 0 .. 1 |-> IF n = 0 THEN r ELSE After(r, x)]
<1>1. IsList(q) /\ Len(q) = 1 /\ q[1] = x
  BY << x >> \in Seq({x}) DEF IsList
<1>2. f[0] = r /\ f[1] = After(r, x)
  OBVIOUS
<1>. HIDE DEF q, f
<1>3. \A n \in 1 .. 1 : f[n] = After(f[n - 1], q[n])
  BY <1>1, <1>2
<1>. QED
  BY <1>1, <1>2, <1>3 DEF Leads, q

LEMMA LeadsOn ==
    ASSUME NEW a, NEW b, NEW r, NEW s, NEW t, Leads(a, r, s), Leads(b, s, t)
    PROVE  Leads(a \o b, r, t)
<1>1. PICK C : a \in Seq(C)
  BY DEF Leads, IsList
<1>2. PICK D : b \in Seq(D)
  BY DEF Leads, IsList
<1>. DEFINE q == a \o b
            k == Len(a)
            m == Len(b)
<1>3. a \in Seq(C \cup D) /\ b \in Seq(C \cup D)
  BY <1>1, <1>2
<1>4. /\ q \in Seq(C \cup D) /\ k \in Nat /\ m \in Nat /\ Len(q) = k + m
      /\ \A n \in 1 .. k + m : q[n] = IF n =< k THEN a[n] ELSE b[n - k]
  BY <1>3, ConcatProperties
<1>5. PICK f : /\ f[0] = r /\ f[k] = s
               /\ \A n \in 1 .. k : f[n] = After(f[n - 1], a[n])
  BY DEF Leads
<1>6. PICK g : /\ g[0] = s /\ g[m] = t
               /\ \A n \in 1 .. m : g[n] = After(g[n - 1], b[n])
  BY DEF Leads
<1>. HIDE DEF q, k, m
<1>. DEFINE h == [n \in 0 .. k + m |-> IF n =< k THEN f[n] ELSE g[n - k]]
<1>7. /\ \A n \in 0 .. k : h[n] = f[n]
      /\ \A n \in 0 .. m : h[k + n] = g[n]
  <2>1. \A n \in 0 .. k : h[n] = f[n]
    BY <1>4
  <2>2. ASSUME NEW n \in 0 .. m
        PROVE  h[k + n] = g[n]
    <3>1. CASE n = 0
      BY <1>4, <1>5, <1>6, <3>1
    <3>2. CASE n > 0
      <4>. DEFINE j == k + n
      <4>1. j \in 0 .. k + m /\ ~(j =< k) /\ j - k = n
        BY <1>4, <3>2
      <4>. HIDE DEF j
      <4>2. h[j] = g[j - k]
        BY <4>1
      <4>. QED
        BY <4>1, <4>2 DEF j
    <3>. QED
      BY <3>1, <3>2
  <2>. QED
    BY <2>1, <2>2
<1>. HIDE DEF h
<1>8. h[0] = r /\ h[k + m] = t
  BY <1>4, <1>5, <1>6, <1>7
<1>9. ASSUME NEW n \in 1 .. k + m
      PROVE  h[n] = After(h[n - 1], q[n])
  <2>1. CASE n =< k
    <3>1. n \in 1 .. k /\ n - 1 \in 0 .. k /\ n \in 0 .. k /\ q[n] = a[n]
      BY <1>4, <2>1
    <3>. QED
      BY <1>5, <1>7, <3>1
  <2>2. CASE n > k
    <3>. DEFINE j == n - k
    <3>1. /\ j \in 1 .. m /\ j - 1 \in 0 .. m /\ j \in 0 .. m
          /\ k + j = n /\ k + (j - 1) = n - 1 /\ q[n] = b[j]
      BY <1>4, <2>2
    <3>2. h[n] = g[j] /\ h[n - 1] = g[j - 1]
      <4>. HIDE DEF j
      <4>. QED
        BY <1>7, <3>1
    <3>. QED
      BY <1>6, <3>1, <3>2
  <2>. QED
    BY <1>4, <2>1, <2>2
<1>10. Leads(q, r, t)
  BY <1>4, <1>8, <1>9 DEF Leads, IsList
<1>. QED
  BY <1>10 DEF q

LEMMA LeadsTwo ==
    ASSUME NEW x, NEW y, NEW r
    PROVE  Leads(<< x, y >>, r, After(After(r, x), y))
<1>1. Leads(<< x >> \o << y >>, r, After(After(r, x), y))
  BY LeadsOne, LeadsOn
<1>2. << x >> \o << y >> = << x, y >>
  <2>1. x \in {x, y} /\ y \in {x, y}
    OBVIOUS
  <2>. QED
    BY <2>1, Concats
<1>. QED
  BY <1>1, <1>2

LEMMA LeadsThree ==
    ASSUME NEW x, NEW y, NEW z, NEW r
    PROVE  Leads(<< x, y, z >>, r, After(After(After(r, x), y), z))
<1>1. Leads(<< x, y >> \o << z >>, r, After(After(After(r, x), y), z))
  BY LeadsOne, LeadsTwo, LeadsOn
<1>2. << x, y >> \o << z >> = << x, y, z >>
  <2>1. x \in {x, y, z} /\ y \in {x, y, z} /\ z \in {x, y, z}
    OBVIOUS
  <2>. QED
    BY <2>1, ConcatTwo
<1>. QED
  BY <1>1, <1>2

\* After the first command the rest leads to the same place.
LEMMA LeadsStill ==
    ASSUME NEW q, NEW r, NEW t, Leads(q, r, t), q # << >>
    PROVE  Leads(Tail(q), After(r, Head(q)), t)
<1>1. PICK C : q \in Seq(C)
  BY DEF Leads, IsList
<1>2. PICK f : /\ f[0] = r /\ f[Len(q)] = t
               /\ \A n \in 1 .. Len(q) : f[n] = After(f[n - 1], q[n])
  BY DEF Leads
<1>. DEFINE p == Tail(q)
            m == Len(q) - 1
            g == [n \in 0 .. m |-> f[n + 1]]
<1>3. /\ p \in Seq(C) /\ Len(p) = m /\ m \in Nat /\ Len(q) = m + 1
      /\ Head(q) = q[1] /\ \A n \in 1 .. m : p[n] = q[n + 1]
  <2>1. Len(q) \in Nat \ {0}
    BY <1>1
  <2>. QED
    BY <1>1, <2>1
<1>. HIDE DEF p, m
<1>4. \A n \in 0 .. m : g[n] = f[n + 1]
  OBVIOUS
<1>. HIDE DEF g
<1>5. 1 \in 1 .. Len(q) /\ 0 + 1 = 1 /\ 1 - 1 = 0
  BY <1>3
<1>6. g[0] = After(r, Head(q)) /\ g[m] = t
  BY <1>2, <1>3, <1>4, <1>5
<1>7. ASSUME NEW n \in 1 .. m
      PROVE  g[n] = After(g[n - 1], p[n])
  <2>1. /\ n \in 0 .. m /\ n - 1 \in 0 .. m /\ n + 1 \in 1 .. Len(q)
        /\ n - 1 + 1 = n /\ n + 1 - 1 = n
    BY <1>3
  <2>. QED
    BY <1>2, <1>3, <1>4, <2>1
<1>8. Leads(p, After(r, Head(q)), t)
  BY <1>3, <1>6, <1>7 DEF Leads, IsList
<1>. QED
  BY <1>8 DEF p

\* What is remembered and what is in the kernel, with nothing else.
Formed(r) == r = [inst |-> [f \in InstFields |-> r.inst[f]],
                  kern |-> [s \in KernSlots |-> r.kern[s]]]

\* r with v remembered for s, and x in the kernel.
Put(r, s, v, x) ==
    [inst |-> [f \in InstFields |-> IF f = s THEN v ELSE r.inst[f]],
     kern |-> [k \in KernSlots |-> IF k = s THEN x ELSE r.kern[k]]]

LEMMA PutFormed ==
    ASSUME NEW r, NEW s, NEW v, NEW x
    PROVE  /\ Formed(Put(r, s, v, x))
           /\ Formed(r) => Put(r, s, r.inst[s], r.kern[s]) = r
<1>1. Formed(Put(r, s, v, x))
  BY DEF Formed, Put
<1>2. ASSUME Formed(r)
      PROVE  Put(r, s, r.inst[s], r.kern[s]) = r
  <2>1. [f \in InstFields |-> IF f = s THEN r.inst[s] ELSE r.inst[f]]
          = [f \in InstFields |-> r.inst[f]]
    OBVIOUS
  <2>2. [k \in KernSlots |-> IF k = s THEN r.kern[s] ELSE r.kern[k]]
          = [k \in KernSlots |-> r.kern[k]]
    OBVIOUS
  <2>. QED
    BY <1>2, <2>1, <2>2 DEF Formed, Put
<1>. QED
  BY <1>1, <1>2

LEMMA SameState ==
    ASSUME NEW r, NEW t, Formed(r), Formed(t),
           \A f \in InstFields : r.inst[f] = t.inst[f],
           \A s \in KernSlots : r.kern[s] = t.kern[s]
    PROVE  r = t
<1>1. [f \in InstFields |-> r.inst[f]] = [f \in InstFields |-> t.inst[f]]
  OBVIOUS
<1>2. [s \in KernSlots |-> r.kern[s]] = [s \in KernSlots |-> t.kern[s]]
  OBVIOUS
<1>. QED
  BY <1>1, <1>2 DEF Formed

\* The results of one command.
LEMMA Afters ==
    ASSUME NEW r, Formed(r)
    PROVE  /\ \A s \in KernSlots : \A x :
                After(r, ReplaceRoute(s, x)) = Put(r, s, r.inst[s], x)
           /\ \A s \in KernSlots : \A x :
                After(r, Add(s, x))
                  = Put(r, s, r.inst[s], AddRule(r.kern[s], x))
           /\ \A s \in KernSlots :
                /\ After(r, Del(s)) = Put(r, s, r.inst[s], DelRule(r.kern[s]))
                /\ After(r, DelRoute(s)) = Put(r, s, r.inst[s], None)
           /\ \A s \in InstFields : \A v :
                After(r, Book(s, v)) = Put(r, s, v, r.kern[s])
           /\ \A f : After(r, Fire(f)) = r
<1>. DEFINE i == r.inst
            k == r.kern
<1>1. /\ r = [inst |-> i, kern |-> k]
      /\ i = [f \in InstFields |-> i[f]] /\ k = [s \in KernSlots |-> k[s]]
  <2>. DEFINE j == [f \in InstFields |-> r.inst[f]]
              h == [s \in KernSlots |-> r.kern[s]]
  <2>1. r = [inst |-> j, kern |-> h]
    BY DEF Formed
  <2>. HIDE DEF j, h
  <2>2. r.inst = j /\ r.kern = h
    BY <2>1
  <2>. QED
    BY <2>1, <2>2 DEF j, h
<1>. HIDE DEF i, k
<1>2. /\ r.inst = i /\ r.kern = k
  BY DEF i, k
<1>3. ASSUME NEW s
      PROVE  /\ [f \in InstFields |-> IF f = s THEN i[s] ELSE i[f]] = i
             /\ [f \in KernSlots |-> IF f = s THEN k[s] ELSE k[f]] = k
  <2>1. [f \in InstFields |-> IF f = s THEN i[s] ELSE i[f]]
          = [f \in InstFields |-> i[f]]
    OBVIOUS
  <2>2. [f \in KernSlots |-> IF f = s THEN k[s] ELSE k[f]]
          = [f \in KernSlots |-> k[f]]
    OBVIOUS
  <2>. QED
    BY <1>1, <2>1, <2>2
<1>4. ASSUME NEW s \in KernSlots, NEW x
      PROVE  [k EXCEPT ![s] = x]
               = [f \in KernSlots |-> IF f = s THEN x ELSE k[f]]
  BY <1>1
<1>5. ASSUME NEW s \in InstFields, NEW v
      PROVE  [i EXCEPT ![s] = v]
               = [f \in InstFields |-> IF f = s THEN v ELSE i[f]]
  BY <1>1
<1>6. ASSUME NEW s \in KernSlots, NEW x, NEW c, Run(k, c) = [k EXCEPT ![s] = x],
             c.op # "book"
      PROVE  After(r, c) = Put(r, s, i[s], x)
  BY <1>2, <1>3, <1>4, <1>6 DEF After, Booked, Put
<1>7. ASSUME NEW s \in KernSlots, NEW x
      PROVE  /\ After(r, ReplaceRoute(s, x)) = Put(r, s, i[s], x)
             /\ After(r, DelRoute(s)) = Put(r, s, i[s], None)
             /\ After(r, Add(s, x)) = Put(r, s, i[s], AddRule(k[s], x))
             /\ After(r, Del(s)) = Put(r, s, i[s], DelRule(k[s]))
  <2>1. /\ Run(k, ReplaceRoute(s, x)) = [k EXCEPT ![s] = x]
        /\ Run(k, DelRoute(s)) = [k EXCEPT ![s] = None]
        /\ Run(k, Add(s, x)) = [k EXCEPT ![s] = AddRule(k[s], x)]
        /\ Run(k, Del(s)) = [k EXCEPT ![s] = DelRule(k[s])]
    BY DEF Run, ReplaceRoute, DelRoute, Add, Del, Item
  <2>2. /\ ReplaceRoute(s, x).op = "route" /\ DelRoute(s).op = "route"
        /\ Add(s, x).op = "add" /\ Del(s).op = "del"
    BY DEF ReplaceRoute, DelRoute, Add, Del, Item
  <2>. QED
    BY <1>6, <2>1, <2>2
<1>8. ASSUME NEW s \in InstFields, NEW v
      PROVE  After(r, Book(s, v)) = Put(r, s, v, k[s])
  <2>1. /\ Book(s, v).op = "book" /\ Book(s, v).slot = s
        /\ Book(s, v).value = v
    BY DEF Book, Item
  <2>2. Run(k, Book(s, v)) = k /\ Booked(i, Book(s, v)) = [i EXCEPT ![s] = v]
    BY <2>1 DEF Run, Booked
  <2>. QED
    BY <1>2, <1>3, <1>5, <2>2 DEF After, Put
<1>9. ASSUME NEW f
      PROVE  After(r, Fire(f)) = r
  <2>1. Fire(f).op = "fire"
    BY DEF Fire, Item
  <2>. QED
    BY <1>1, <1>2, <2>1 DEF After, Run, Booked
<1>. QED
  BY <1>2, <1>7, <1>8, <1>9

LEMMA PutTwice ==
    ASSUME NEW r, NEW s, NEW v, NEW x, NEW w, NEW y
    PROVE  /\ Put(Put(r, s, v, x), s, w, y) = Put(r, s, w, y)
           /\ s \in InstFields => Put(r, s, v, x).inst[s] = v
           /\ s \in KernSlots => Put(r, s, v, x).kern[s] = x
BY DEF Put

LEMMA PutFields ==
    ASSUME NEW r, NEW s, NEW v, NEW x
    PROVE  LET p == Put(r, s, v, x)
           IN  /\ Formed(p)
               /\ \A f \in InstFields :
                    p.inst[f] = IF f = s THEN v ELSE r.inst[f]
               /\ \A k \in KernSlots :
                    p.kern[k] = IF k = s THEN x ELSE r.kern[k]
<1>1. Formed(Put(r, s, v, x))
  BY PutFormed
<1>. QED
  BY <1>1 DEF Put

\* One command or two, and the assignment that records them.
LEMMA RecordedLeads ==
    ASSUME NEW r, Formed(r), NEW s \in InstFields, s \in KernSlots, NEW v, NEW x
    PROVE  /\ Leads(<< Add(s, x), Book(s, v) >>, r,
                    Put(r, s, v, AddRule(r.kern[s], x)))
           /\ Leads(<< Del(s), Book(s, v) >>, r,
                    Put(r, s, v, DelRule(r.kern[s])))
           /\ Leads(<< Del(s), Add(s, x), Book(s, v) >>, r,
                    Put(r, s, v, AddRule(DelRule(r.kern[s]), x)))
           /\ Leads(<< ReplaceRoute(s, x), Book(s, v) >>, r, Put(r, s, v, x))
           /\ Leads(<< DelRoute(s), Book(s, v) >>, r, Put(r, s, v, None))
           /\ Leads(<< >>, r, Put(r, s, r.inst[s], r.kern[s]))
<1>1. ASSUME NEW y
      PROVE  /\ Formed(Put(r, s, r.inst[s], y))
             /\ After(Put(r, s, r.inst[s], y), Book(s, v)) = Put(r, s, v, y)
             /\ After(Put(r, s, r.inst[s], y), Add(s, x))
                  = Put(r, s, r.inst[s], AddRule(y, x))
  <2>. DEFINE p == Put(r, s, r.inst[s], y)
  <2>1. Formed(p) /\ p.kern[s] = y /\ p.inst[s] = r.inst[s]
    BY DEF Formed, Put
  <2>2. \A w, z : Put(p, s, w, z) = Put(r, s, w, z)
    BY PutTwice
  <2>. HIDE DEF p
  <2>3. /\ After(p, Book(s, v)) = Put(p, s, v, p.kern[s])
        /\ After(p, Add(s, x)) = Put(p, s, p.inst[s], AddRule(p.kern[s], x))
    BY <2>1, Afters
  <2>4. /\ Formed(p) /\ After(p, Book(s, v)) = Put(r, s, v, y)
        /\ After(p, Add(s, x)) = Put(r, s, r.inst[s], AddRule(y, x))
    BY <2>1, <2>2, <2>3
  <2>. QED
    BY <2>4 DEF p
<1>2. /\ After(r, Add(s, x)) = Put(r, s, r.inst[s], AddRule(r.kern[s], x))
      /\ After(r, Del(s)) = Put(r, s, r.inst[s], DelRule(r.kern[s]))
      /\ After(r, ReplaceRoute(s, x)) = Put(r, s, r.inst[s], x)
      /\ After(r, DelRoute(s)) = Put(r, s, r.inst[s], None)
  BY Afters
<1>3. /\ Leads(<< Add(s, x), Book(s, v) >>, r,
               After(After(r, Add(s, x)), Book(s, v)))
      /\ Leads(<< Del(s), Book(s, v) >>, r,
               After(After(r, Del(s)), Book(s, v)))
      /\ Leads(<< Del(s), Add(s, x), Book(s, v) >>, r,
               After(After(After(r, Del(s)), Add(s, x)), Book(s, v)))
      /\ Leads(<< ReplaceRoute(s, x), Book(s, v) >>, r,
               After(After(r, ReplaceRoute(s, x)), Book(s, v)))
      /\ Leads(<< DelRoute(s), Book(s, v) >>, r,
               After(After(r, DelRoute(s)), Book(s, v)))
  BY LeadsTwo, LeadsThree
<1>4. Leads(<< >>, r, Put(r, s, r.inst[s], r.kern[s]))
  BY LeadsNowhere, PutFormed
<1>. QED
  BY <1>1, <1>2, <1>3, <1>4

LEMMA RuleItemsLead ==
    ASSUME NEW r, Formed(r), NEW s \in InstFields, s \in KernSlots, NEW new
    PROVE  Leads(RuleItems(s, r.inst[s], new), r,
                 Put(r, s, new,
                     IF new = r.inst[s] THEN r.kern[s]
                     ELSE ReplaceRule(r.kern[s], r.inst[s], new)))
<1>. DEFINE old == r.inst[s]
            k == r.kern[s]
            d == Del(s)
            a == Add(s, new)
            b == Book(s, new)
            q == RuleItems(s, old, new)
            C == {d, a, b}
<1>1. q = IF old = new THEN << >>
          ELSE (IF old = None THEN << >> ELSE << d >>)
               \o (IF new = None THEN << >> ELSE << a >>)
               \o << b >>
  BY DEF RuleItems
<1>2. /\ << >> \o << b >> = << b >> /\ << d >> \o << >> = << d >>
      /\ << d >> \o << b >> = << d, b >> /\ << a >> \o << b >> = << a, b >>
      /\ << >> \o << a >> = << a >> /\ << d >> \o << a >> = << d, a >>
      /\ << d, a >> \o << b >> = << d, a, b >>
  <2>1. d \in C /\ a \in C /\ b \in C
    OBVIOUS
  <2>. HIDE DEF C, d, a, b
  <2>. QED
    BY <2>1, Concats, ConcatTwo
<1>3. /\ Leads(<< a, b >>, r, Put(r, s, new, AddRule(k, new)))
      /\ Leads(<< d, b >>, r, Put(r, s, new, DelRule(k)))
      /\ Leads(<< d, a, b >>, r, Put(r, s, new, AddRule(DelRule(k), new)))
  BY RecordedLeads
<1>4. Leads(<< >>, r, Put(r, s, old, k))
  BY LeadsNowhere, PutFormed
<1>5. ReplaceRule(k, old, new) =
        IF old = None THEN IF new = None THEN k ELSE AddRule(k, new)
        ELSE IF new = None THEN DelRule(k) ELSE AddRule(DelRule(k), new)
  BY DEF ReplaceRule
<1>. HIDE DEF q, d, a, b, old, k
<1>6. Leads(q, r, Put(r, s, new, IF new = old THEN k
                                 ELSE ReplaceRule(k, old, new)))
  <2>1. CASE old = new
    BY <1>1, <1>4, <2>1
  <2>2. CASE old # new /\ old = None
    <3>1. q = << a, b >>
      BY <1>1, <1>2, <2>2
    <3>. QED
      BY <1>3, <1>5, <2>2, <3>1
  <2>3. CASE old # new /\ new = None
    <3>1. q = << d, b >>
      BY <1>1, <1>2, <2>3
    <3>. QED
      BY <1>3, <1>5, <2>3, <3>1
  <2>4. CASE old # new /\ old # None /\ new # None
    <3>1. q = << d, a, b >>
      BY <1>1, <1>2, <2>4
    <3>. QED
      BY <1>3, <1>5, <2>4, <3>1
  <2>. QED
    BY <2>1, <2>2, <2>3, <2>4
<1>. QED
  BY <1>6 DEF q, old, k

LEMMA ForgetLeads ==
    ASSUME NEW r, Formed(r), NEW s \in InstFields, s \in KernSlots,
           NEW installed \in BOOLEAN, NEW none
    PROVE  Leads(Forget(s, installed, none), r,
                 Put(r, s, IF installed THEN none ELSE r.inst[s],
                     Undo(r.kern[s], installed)))
<1>1. CASE installed
  BY <1>1, RecordedLeads DEF Forget, Undo
<1>2. CASE ~installed
  BY <1>2, LeadsNowhere, PutFormed DEF Forget, Undo
<1>. QED
  BY <1>1, <1>2

LEMMA Route6ItemsLead ==
    ASSUME NEW r, Formed(r), NEW i, i.route6 = r.inst.route6,
           r.inst.route6 \in BOOLEAN, NEW ra
    PROVE  Leads(Route6Items(i, ra), r,
                 Put(r, "route6", (ra # None), KernRoute6(r, ra)))
<1>1. "route6" \in InstFields /\ "route6" \in KernSlots
  BY DEF InstFields, KernSlots, RouteSlots
<1>2. /\ Leads(<< ReplaceRoute("route6", Route6(ra)), Book("route6", TRUE) >>,
               r, Put(r, "route6", TRUE, Route6(ra)))
      /\ Leads(<< DelRoute("route6"), Book("route6", FALSE) >>, r,
               Put(r, "route6", FALSE, None))
      /\ Leads(<< >>, r, Put(r, "route6", r.inst.route6, r.kern.route6))
  BY <1>1, RecordedLeads
<1>3. CASE ra # None
  <2>1. (ra # None) = TRUE
    BY <1>3
  <2>. QED
    BY <1>2, <1>3, <2>1 DEF Route6Items, KernRoute6
<1>4. CASE ra = None
  <2>1. (ra # None) = FALSE
    BY <1>4
  <2>2. r.inst.route6 = FALSE \/ r.inst.route6 = TRUE
    OBVIOUS
  <2>. QED
    BY <1>2, <1>4, <2>1, <2>2 DEF Route6Items, KernRoute6
<1>. QED
  BY <1>3, <1>4

LEMMA FwdItemsLead ==
    ASSUME NEW r, Formed(r), NEW i, i.fwd = r.inst.fwd, NEW pd
    PROVE  Leads(FwdItems(i, pd), r,
                 Put(r, "fwd", NextFwd(r, pd),
                     IF NextFwd(r, pd) = r.inst.fwd THEN r.kern.fwd
                     ELSE AddRule(DelRule(r.kern.fwd), NextFwd(r, pd))))
<1>. DEFINE new == NextFwd(r, pd)
<1>1. "fwd" \in InstFields /\ "fwd" \in KernSlots
  BY DEF InstFields, KernSlots, RuleSlots
<1>2. NextFwd([inst |-> i], pd) = new
  BY DEF NextFwd
<1>. HIDE DEF new
<1>3. /\ Leads(<< Del("fwd"), Add("fwd", new), Book("fwd", new) >>, r,
               Put(r, "fwd", new, AddRule(DelRule(r.kern.fwd), new)))
      /\ Leads(<< >>, r, Put(r, "fwd", r.inst.fwd, r.kern.fwd))
  BY <1>1, RecordedLeads
<1>4. Leads(FwdItems(i, pd), r,
            Put(r, "fwd", new, IF new = r.inst.fwd THEN r.kern.fwd
                               ELSE AddRule(DelRule(r.kern.fwd), new)))
  BY <1>2, <1>3 DEF FwdItems
<1>. QED
  BY <1>4 DEF new

LEMMA ProhibitItemsLead ==
    ASSUME NEW r, Formed(r), NEW i, i.prohibit = r.inst.prohibit,
           r.inst.prohibit \in BOOLEAN, NEW pd
    PROVE  Leads(ProhibitItems(i, pd), r,
                 Put(r, "prohibit", NextProhibit(r, pd),
                     IF NextProhibit(r, pd) = r.inst.prohibit
                     THEN r.kern.prohibit
                     ELSE IF NextProhibit(r, pd)
                     THEN AddRule(r.kern.prohibit, NoFrom)
                     ELSE DelRule(r.kern.prohibit)))
<1>. DEFINE new == NextProhibit(r, pd)
            s == "prohibit"
<1>1. s \in InstFields /\ s \in KernSlots
  BY DEF InstFields, KernSlots, RuleSlots
<1>2. NextProhibit([inst |-> i], pd) = new /\ new \in BOOLEAN
  BY RoutingAssumption DEF NextProhibit
<1>. HIDE DEF new
<1>3. /\ Leads(<< Add(s, NoFrom), Book(s, new) >>, r,
               Put(r, s, new, AddRule(r.kern[s], NoFrom)))
      /\ Leads(<< Del(s), Book(s, new) >>, r,
               Put(r, s, new, DelRule(r.kern[s])))
      /\ Leads(<< >>, r, Put(r, s, r.inst[s], r.kern[s]))
  BY <1>1, RecordedLeads
<1>4. Leads(ProhibitItems(i, pd), r,
            Put(r, s, new, IF new = r.inst.prohibit THEN r.kern.prohibit
                           ELSE IF new THEN AddRule(r.kern.prohibit, NoFrom)
                           ELSE DelRule(r.kern.prohibit)))
  <2>1. CASE new = r.inst.prohibit
    BY <1>2, <1>3, <2>1 DEF ProhibitItems
  <2>2. CASE new # r.inst.prohibit /\ new = TRUE
    BY <1>2, <1>3, <2>2 DEF ProhibitItems
  <2>3. CASE new # r.inst.prohibit /\ new = FALSE
    BY <1>2, <1>3, <2>3 DEF ProhibitItems
  <2>. QED
    BY <1>2, <2>1, <2>2, <2>3
<1>. QED
  BY <1>4 DEF new

\* Field by field, what module Routing makes of r.
LEMMA FieldsOf ==
    ASSUME NEW r, Formed(r)
    PROVE  /\ DOMAIN r.inst = InstFields /\ DOMAIN r.kern = KernSlots
           /\ r = [inst |-> r.inst, kern |-> r.kern]
<1>. DEFINE j == [f \in InstFields |-> r.inst[f]]
            h == [s \in KernSlots |-> r.kern[s]]
<1>1. r = [inst |-> j, kern |-> h]
  BY DEF Formed
<1>2. DOMAIN j = InstFields /\ DOMAIN h = KernSlots
  OBVIOUS
<1>. HIDE DEF j, h
<1>3. r.inst = j /\ r.kern = h
  BY <1>1
<1>. QED
  BY <1>1, <1>2, <1>3

LEMMA Reconciled4 ==
    ASSUME NEW r, Formed(r), NEW lease, NEW is
    PROVE  LET t == ReconcileIpv4(r, lease, is)
               g == WantGateway(lease, is)
               w == WantAddr(lease, is)
               same == g = r.inst.gateway
           IN  /\ Formed(t)
               /\ \A f \in InstFields :
                    t.inst[f] = IF f = "gateway" THEN g
                                ELSE IF f = "addr" THEN w ELSE r.inst[f]
               /\ \A s \in KernSlots :
                    t.kern[s] =
                      IF s \in {"shared", "own"} /\ ~same THEN g
                      ELSE IF s = "addr" /\ w # r.inst.addr
                      THEN ReplaceRule(r.kern.addr, r.inst.addr, w)
                      ELSE r.kern[s]
<1>. DEFINE t == ReconcileIpv4(r, lease, is)
            g == WantGateway(lease, is)
            w == WantAddr(lease, is)
            i == r.inst
            k == r.kern
            j == [i EXCEPT !.gateway = g, !.addr = w]
            h == Follow4(k, i, j)
<1>1. /\ DOMAIN i = InstFields /\ DOMAIN k = KernSlots
      /\ {"gateway", "addr"} \subseteq InstFields
      /\ {"shared", "own", "addr"} \subseteq KernSlots
  BY FieldsOf DEF InstFields, KernSlots, RouteSlots, RuleSlots
<1>2. t = [inst |-> j, kern |-> h]
  BY DEF ReconcileIpv4
<1>. HIDE DEF t, g, w, i, k
<1>3. /\ j = [f \in InstFields |-> IF f = "gateway" THEN g
                                  ELSE IF f = "addr" THEN w ELSE i[f]]
      /\ j.gateway = g /\ j.addr = w
  BY <1>1
<1>. HIDE DEF j
<1>4. h = [s \in KernSlots |->
             IF s \in {"shared", "own"} /\ ~(g = i.gateway) THEN g
             ELSE IF s = "addr" /\ w # i.addr
             THEN ReplaceRule(k.addr, i.addr, w)
             ELSE k[s]]
  BY <1>1, <1>3 DEF Follow4
<1>. HIDE DEF h
<1>5. t.inst = j /\ t.kern = h
  BY <1>2
<1>6. Formed(t)
  BY <1>2, <1>3, <1>4 DEF Formed
<1>. QED
  BY <1>3, <1>4, <1>5, <1>6 DEF t, g, w, i, k

\* The two IPv4 routes and the gateway remembered.
LEMMA GatewayLead ==
    ASSUME NEW r, Formed(r), NEW g
    PROVE  \E m :
             /\ Leads(IF g = r.inst.gateway THEN << >>
                      ELSE << ReplaceRoute("shared", g), ReplaceRoute("own", g),
                              Book("gateway", g) >>, r, m)
             /\ Formed(m)
             /\ \A f \in InstFields :
                  m.inst[f] = IF f = "gateway" THEN g ELSE r.inst[f]
             /\ \A s \in KernSlots :
                  m.kern[s] = IF s \in {"shared", "own"} /\ g # r.inst.gateway
                              THEN g ELSE r.kern[s]
<1>. DEFINE i == r.inst
            sh == ReplaceRoute("shared", g)
            ow == ReplaceRoute("own", g)
            bk == Book("gateway", g)
            p1 == Put(r, "shared", r.inst["shared"], g)
            p2 == Put(p1, "own", p1.inst["own"], g)
            p3 == Put(p2, "gateway", g, p2.kern["gateway"])
<1>1. /\ "gateway" \in InstFields /\ "shared" \in KernSlots
      /\ "own" \in KernSlots /\ "shared" \notin InstFields
      /\ "own" \notin InstFields /\ "gateway" \notin KernSlots
  BY DEF InstFields, KernSlots, RouteSlots, RuleSlots
<1>. HIDE DEF sh, ow, bk
<1>2. Formed(p1) /\ Formed(p2) /\ Formed(p3)
  BY PutFormed
<1>3. After(r, sh) = p1 /\ After(p1, ow) = p2 /\ After(p2, bk) = p3
  <2>. HIDE DEF p1, p2
  <2>. QED
    BY <1>1, <1>2, Afters DEF sh, ow, bk, p1, p2
<1>4. /\ \A f \in InstFields :
           p3.inst[f] = IF f = "gateway" THEN g ELSE i[f]
      /\ \A s \in KernSlots :
           p3.kern[s] = IF s \in {"shared", "own"} THEN g ELSE r.kern[s]
  BY <1>1 DEF Put
<1>. HIDE DEF p1, p2, p3
<1>5. CASE g = i.gateway
  <2>1. Leads(<< >>, r, r)
    BY LeadsNowhere
  <2>. QED
    BY <1>5, <2>1
<1>6. CASE g # i.gateway
  <2>1. Leads(<< sh, ow, bk >>, r, p3)
    BY <1>3, LeadsThree
  <2>. QED
    BY <1>2, <1>4, <1>6, <2>1 DEF sh, ow, bk
<1>. QED
  BY <1>5, <1>6

LEMMA Items4Lead ==
    ASSUME NEW r, Formed(r), NEW lease, NEW is
    PROVE  Leads(Items4(r.inst, lease, is), r, ReconcileIpv4(r, lease, is))
<1>. DEFINE t == ReconcileIpv4(r, lease, is)
            g == WantGateway(lease, is)
            w == WantAddr(lease, is)
            i == r.inst
            a == IF g = i.gateway THEN << >>
                 ELSE << ReplaceRoute("shared", g), ReplaceRoute("own", g),
                         Book("gateway", g) >>
            b == RuleItems("addr", i.addr, w)
            x == IF w = i.addr THEN r.kern.addr
                 ELSE ReplaceRule(r.kern.addr, i.addr, w)
<1>1. Items4(i, lease, is) = a \o b
  BY DEF Items4
<1>2. "addr" \in InstFields /\ "addr" \in KernSlots
  BY DEF InstFields, KernSlots, RuleSlots
<1>. HIDE DEF g, w, t
<1>3. PICK m : /\ Leads(a, r, m) /\ Formed(m)
               /\ \A f \in InstFields :
                    m.inst[f] = IF f = "gateway" THEN g ELSE i[f]
               /\ \A s \in KernSlots :
                    m.kern[s] = IF s \in {"shared", "own"} /\ g # i.gateway
                                THEN g ELSE r.kern[s]
  BY GatewayLead
<1>4. m.inst["addr"] = i.addr /\ m.kern["addr"] = r.kern.addr
  BY <1>2, <1>3
<1>. DEFINE z == Put(m, "addr", w, x)
<1>5. Leads(b, m, z)
  <2>1. Leads(RuleItems("addr", m.inst["addr"], w), m,
              Put(m, "addr", w, IF w = m.inst["addr"] THEN m.kern["addr"]
                                ELSE ReplaceRule(m.kern["addr"],
                                                 m.inst["addr"], w)))
    BY <1>2, <1>3, RuleItemsLead
  <2>. QED
    BY <1>4, <2>1
<1>6. z = t
  <2>1. /\ Formed(z)
        /\ \A f \in InstFields :
             z.inst[f] = IF f = "addr" THEN w ELSE m.inst[f]
        /\ \A s \in KernSlots :
             z.kern[s] = IF s = "addr" THEN x ELSE m.kern[s]
    <3>. HIDE DEF x
    <3>. QED
      BY PutFields
  <2>2. /\ Formed(t)
        /\ \A f \in InstFields :
             t.inst[f] = IF f = "gateway" THEN g
                         ELSE IF f = "addr" THEN w ELSE i[f]
        /\ \A s \in KernSlots :
             t.kern[s] =
               IF s \in {"shared", "own"} /\ ~(g = i.gateway) THEN g
               ELSE IF s = "addr" /\ w # i.addr
               THEN ReplaceRule(r.kern.addr, i.addr, w)
               ELSE r.kern[s]
    BY Reconciled4 DEF t, g, w
  <2>. HIDE DEF z
  <2>3. \A f \in InstFields : z.inst[f] = t.inst[f]
    BY <1>3, <2>1, <2>2
  <2>4. \A s \in KernSlots : z.kern[s] = t.kern[s]
    BY <1>3, <2>1, <2>2
  <2>. QED
    BY <2>1, <2>2, <2>3, <2>4, SameState
<1>. HIDE DEF a, b, z, i
<1>7. Leads(a \o b, r, t)
  BY <1>3, <1>5, <1>6, LeadsOn
<1>. QED
  BY <1>1, <1>7 DEF t, i

LEMMA Reconciled6 ==
    ASSUME NEW r, Formed(r), NEW ra, NEW pd, NEW na, NEW is
    PROVE  LET t == ReconcileIpv6(r, ra, pd, na, is)
               w == WantSource(ra, na, is)
               p == WantPdSource(pd, is)
               d == NextFwd(r, pd)
               e == NextProhibit(r, pd)
           IN  /\ Formed(t)
               /\ \A f \in InstFields :
                    t.inst[f] = IF f = "route6" THEN (ra # None)
                                ELSE IF f = "lo" THEN w
                                ELSE IF f = "pdLo" THEN p
                                ELSE IF f = "fwd" THEN d
                                ELSE IF f = "prohibit" THEN e
                                ELSE r.inst[f]
               /\ \A s \in KernSlots :
                    t.kern[s] =
                      IF s = "route6" THEN KernRoute6(r, ra)
                      ELSE IF s = "lo" /\ w # r.inst.lo
                      THEN ReplaceRule(r.kern.lo, r.inst.lo, w)
                      ELSE IF s = "pdLo" /\ p # r.inst.pdLo
                      THEN ReplaceRule(r.kern.pdLo, r.inst.pdLo, p)
                      ELSE IF s = "fwd" /\ d # r.inst.fwd
                      THEN AddRule(DelRule(r.kern.fwd), d)
                      ELSE IF s = "prohibit" /\ e # r.inst.prohibit
                      THEN IF e THEN AddRule(r.kern.prohibit, NoFrom)
                           ELSE DelRule(r.kern.prohibit)
                      ELSE r.kern[s]
<1>. DEFINE t == ReconcileIpv6(r, ra, pd, na, is)
            w == WantSource(ra, na, is)
            p == WantPdSource(pd, is)
            d == NextFwd(r, pd)
            e == NextProhibit(r, pd)
            x == KernRoute6(r, ra)
            y == (ra # None)
            i == r.inst
            k == r.kern
            j == [i EXCEPT !.route6 = y, !.lo = w, !.pdLo = p, !.fwd = d,
                           !.prohibit = e]
            h == Follow6(k, i, j, x)
<1>1. /\ DOMAIN i = InstFields /\ DOMAIN k = KernSlots
      /\ {"route6", "lo", "pdLo", "fwd", "prohibit"} \subseteq InstFields
      /\ {"route6", "lo", "pdLo", "fwd", "prohibit"} \subseteq KernSlots
  BY FieldsOf DEF InstFields, KernSlots, RouteSlots, RuleSlots
<1>2. t = [inst |-> j, kern |-> h]
  BY DEF ReconcileIpv6
<1>. HIDE DEF t, w, p, d, e, x, y, i, k
<1>3. /\ j = [f \in InstFields |-> IF f = "route6" THEN y
                                  ELSE IF f = "lo" THEN w
                                  ELSE IF f = "pdLo" THEN p
                                  ELSE IF f = "fwd" THEN d
                                  ELSE IF f = "prohibit" THEN e
                                  ELSE i[f]]
      /\ j.lo = w /\ j.pdLo = p /\ j.fwd = d /\ j.prohibit = e
  BY <1>1
<1>. HIDE DEF j
<1>4. h = [s \in KernSlots |->
             IF s = "route6" THEN x
             ELSE IF s = "lo" /\ w # i.lo THEN ReplaceRule(k.lo, i.lo, w)
             ELSE IF s = "pdLo" /\ p # i.pdLo
             THEN ReplaceRule(k.pdLo, i.pdLo, p)
             ELSE IF s = "fwd" /\ d # i.fwd THEN AddRule(DelRule(k.fwd), d)
             ELSE IF s = "prohibit" /\ e # i.prohibit
             THEN IF e THEN AddRule(k.prohibit, NoFrom)
                  ELSE DelRule(k.prohibit)
             ELSE k[s]]
  BY <1>1, <1>3 DEF Follow6
<1>. HIDE DEF h
<1>5. t.inst = j /\ t.kern = h
  BY <1>2
<1>6. Formed(t)
  BY <1>2, <1>3, <1>4 DEF Formed
<1>. QED
  BY <1>3, <1>4, <1>5, <1>6 DEF t, w, p, d, e, x, y, i, k

\* The rule lists of the IPv6 part, in terms of what Routing makes of r.
LEMMA Items6Lead ==
    ASSUME NEW r, Formed(r), NEW i, NEW ra, NEW pd, NEW na, NEW is,
           i.route6 = r.inst.route6, i.lo = r.inst.lo, i.pdLo = r.inst.pdLo,
           i.fwd = r.inst.fwd, i.prohibit = r.inst.prohibit,
           r.inst.route6 \in BOOLEAN, r.inst.prohibit \in BOOLEAN, Ipv6
    PROVE  Leads(Items6(i, ra, pd, na, is), r, ReconcileIpv6(r, ra, pd, na, is))
<1>. DEFINE t == ReconcileIpv6(r, ra, pd, na, is)
            w == WantSource(ra, na, is)
            p == WantPdSource(pd, is)
            d == NextFwd(r, pd)
            e == NextProhibit(r, pd)
            x == KernRoute6(r, ra)
            y == (ra # None)
            xw == IF w = r.inst.lo THEN r.kern.lo
                  ELSE ReplaceRule(r.kern.lo, r.inst.lo, w)
            xp == IF p = r.inst.pdLo THEN r.kern.pdLo
                  ELSE ReplaceRule(r.kern.pdLo, r.inst.pdLo, p)
            xd == IF d = r.inst.fwd THEN r.kern.fwd
                  ELSE AddRule(DelRule(r.kern.fwd), d)
            xe == IF e = r.inst.prohibit THEN r.kern.prohibit
                  ELSE IF e THEN AddRule(r.kern.prohibit, NoFrom)
                  ELSE DelRule(r.kern.prohibit)
            q1 == Route6Items(i, ra)
            q2 == RuleItems("lo", i.lo, w)
            q3 == RuleItems("pdLo", i.pdLo, p)
            q4 == FwdItems(i, pd)
            q5 == ProhibitItems(i, pd)
            r1 == Put(r, "route6", y, x)
            r2 == Put(r1, "lo", w, xw)
            r3 == Put(r2, "pdLo", p, xp)
            r4 == Put(r3, "fwd", d, xd)
            r5 == Put(r4, "prohibit", e, xe)
<1>1. Items6(i, ra, pd, na, is) = (((q1 \o q2) \o q3) \o q4) \o q5
  BY DEF Items6
<1>2. /\ {"route6", "lo", "pdLo", "fwd", "prohibit"} \subseteq InstFields
      /\ {"route6", "lo", "pdLo", "fwd", "prohibit"} \subseteq KernSlots
  BY DEF InstFields, KernSlots, RouteSlots, RuleSlots
<1>3. Leads(q1, r, r1)
  BY Route6ItemsLead
<1>. HIDE DEF r1
<1>4. /\ Formed(r1)
      /\ \A f \in InstFields :
           r1.inst[f] = IF f = "route6" THEN y ELSE r.inst[f]
      /\ \A s \in KernSlots :
           r1.kern[s] = IF s = "route6" THEN x ELSE r.kern[s]
  <2>. HIDE DEF y, x
  <2>. QED
    BY PutFields DEF r1
<1>5. Leads(q2, r1, r2)
  <2>1. r1.inst["lo"] = i.lo /\ r1.kern["lo"] = r.kern.lo /\ i.lo = r.inst.lo
    BY <1>2, <1>4
  <2>. HIDE DEF w
  <2>2. Leads(RuleItems("lo", r1.inst["lo"], w), r1,
              Put(r1, "lo", w, IF w = r1.inst["lo"] THEN r1.kern["lo"]
                               ELSE ReplaceRule(r1.kern["lo"], r1.inst["lo"],
                                                w)))
    BY <1>2, <1>4, RuleItemsLead
  <2>. QED
    BY <2>1, <2>2
<1>. HIDE DEF r2
<1>6. /\ Formed(r2)
      /\ \A f \in InstFields : r2.inst[f] = IF f = "lo" THEN w ELSE r1.inst[f]
      /\ \A s \in KernSlots : r2.kern[s] = IF s = "lo" THEN xw ELSE r1.kern[s]
  <2>. HIDE DEF w, xw
  <2>. QED
    BY PutFields DEF r2
<1>7. Leads(q3, r2, r3)
  <2>1. /\ r2.inst["pdLo"] = i.pdLo /\ r2.kern["pdLo"] = r.kern.pdLo
        /\ i.pdLo = r.inst.pdLo
    <3>. HIDE DEF w, xw, x, y
    <3>. QED
      BY <1>2, <1>4, <1>6
  <2>. HIDE DEF p
  <2>2. Leads(RuleItems("pdLo", r2.inst["pdLo"], p), r2,
              Put(r2, "pdLo", p,
                  IF p = r2.inst["pdLo"] THEN r2.kern["pdLo"]
                  ELSE ReplaceRule(r2.kern["pdLo"], r2.inst["pdLo"], p)))
    BY <1>2, <1>6, RuleItemsLead
  <2>. QED
    BY <2>1, <2>2
<1>. HIDE DEF r3
<1>8. /\ Formed(r3)
      /\ \A f \in InstFields :
           r3.inst[f] = IF f = "pdLo" THEN p ELSE r2.inst[f]
      /\ \A s \in KernSlots :
           r3.kern[s] = IF s = "pdLo" THEN xp ELSE r2.kern[s]
  <2>. HIDE DEF p, xp
  <2>. QED
    BY PutFields DEF r3
<1>9. Leads(q4, r3, r4)
  <2>1. /\ r3.inst["fwd"] = r.inst.fwd /\ r3.kern["fwd"] = r.kern.fwd
        /\ i.fwd = r.inst.fwd
    <3>. HIDE DEF w, xw, x, y, p, xp
    <3>. QED
      BY <1>2, <1>4, <1>6, <1>8
  <2>2. NextFwd(r3, pd) = d
    <3>1. r3.inst.fwd = r.inst.fwd
      BY <2>1
    <3>. HIDE DEF r3
    <3>. QED
      BY <3>1 DEF NextFwd
  <2>. HIDE DEF d
  <2>3. Leads(q4, r3, Put(r3, "fwd", NextFwd(r3, pd),
                          IF NextFwd(r3, pd) = r3.inst.fwd THEN r3.kern.fwd
                          ELSE AddRule(DelRule(r3.kern.fwd), NextFwd(r3, pd))))
    BY <1>8, <2>1, FwdItemsLead
  <2>. QED
    BY <2>1, <2>2, <2>3
<1>. HIDE DEF r4
<1>10. /\ Formed(r4)
       /\ \A f \in InstFields :
            r4.inst[f] = IF f = "fwd" THEN d ELSE r3.inst[f]
       /\ \A s \in KernSlots :
            r4.kern[s] = IF s = "fwd" THEN xd ELSE r3.kern[s]
  <2>. HIDE DEF d, xd
  <2>. QED
    BY PutFields DEF r4
<1>11. Leads(q5, r4, r5)
  <2>1. /\ r4.inst["prohibit"] = r.inst.prohibit
        /\ r4.kern["prohibit"] = r.kern.prohibit
        /\ i.prohibit = r.inst.prohibit
    <3>. HIDE DEF w, xw, x, y, p, xp, d, xd
    <3>. QED
      BY <1>2, <1>4, <1>6, <1>8, <1>10
  <2>2. NextProhibit(r4, pd) = e
    <3>1. r4.inst.prohibit = r.inst.prohibit
      BY <2>1
    <3>. QED
      BY <3>1 DEF NextProhibit
  <2>. HIDE DEF e
  <2>3. Leads(q5, r4, Put(r4, "prohibit", NextProhibit(r4, pd),
                          IF NextProhibit(r4, pd) = r4.inst.prohibit
                          THEN r4.kern.prohibit
                          ELSE IF NextProhibit(r4, pd)
                          THEN AddRule(r4.kern.prohibit, NoFrom)
                          ELSE DelRule(r4.kern.prohibit)))
    BY <1>10, <2>1, ProhibitItemsLead
  <2>. QED
    BY <2>1, <2>2, <2>3
<1>. HIDE DEF r5
<1>12. /\ Formed(r5)
       /\ \A f \in InstFields :
            r5.inst[f] = IF f = "prohibit" THEN e ELSE r4.inst[f]
       /\ \A s \in KernSlots :
            r5.kern[s] = IF s = "prohibit" THEN xe ELSE r4.kern[s]
  <2>. HIDE DEF e, xe
  <2>. QED
    BY PutFields DEF r5
<1>13. /\ Formed(t)
       /\ \A f \in InstFields :
            t.inst[f] = IF f = "route6" THEN y
                        ELSE IF f = "lo" THEN w
                        ELSE IF f = "pdLo" THEN p
                        ELSE IF f = "fwd" THEN d
                        ELSE IF f = "prohibit" THEN e
                        ELSE r.inst[f]
       /\ \A s \in KernSlots :
            t.kern[s] = IF s = "route6" THEN x
                        ELSE IF s = "lo" THEN xw
                        ELSE IF s = "pdLo" THEN xp
                        ELSE IF s = "fwd" THEN xd
                        ELSE IF s = "prohibit" THEN xe
                        ELSE r.kern[s]
  <2>. HIDE DEF t
  <2>1. /\ Formed(t)
        /\ \A f \in InstFields :
             t.inst[f] = IF f = "route6" THEN y
                         ELSE IF f = "lo" THEN w
                         ELSE IF f = "pdLo" THEN p
                         ELSE IF f = "fwd" THEN d
                         ELSE IF f = "prohibit" THEN e
                         ELSE r.inst[f]
        /\ \A s \in KernSlots :
             t.kern[s] =
               IF s = "route6" THEN x
               ELSE IF s = "lo" /\ w # r.inst.lo
               THEN ReplaceRule(r.kern.lo, r.inst.lo, w)
               ELSE IF s = "pdLo" /\ p # r.inst.pdLo
               THEN ReplaceRule(r.kern.pdLo, r.inst.pdLo, p)
               ELSE IF s = "fwd" /\ d # r.inst.fwd
               THEN AddRule(DelRule(r.kern.fwd), d)
               ELSE IF s = "prohibit" /\ e # r.inst.prohibit
               THEN IF e THEN AddRule(r.kern.prohibit, NoFrom)
                    ELSE DelRule(r.kern.prohibit)
               ELSE r.kern[s]
    BY Reconciled6 DEF t
  <2>. HIDE DEF y, w, p, d, e, x
  <2>. QED
    BY <2>1
<1>. HIDE DEF t, w, p, d, e, x, y, xw, xp, xd, xe
<1>14. r5 = t
  <2>1. \A f \in InstFields : r5.inst[f] = t.inst[f]
    BY <1>4, <1>6, <1>8, <1>10, <1>12, <1>13
  <2>2. \A s \in KernSlots : r5.kern[s] = t.kern[s]
    BY <1>4, <1>6, <1>8, <1>10, <1>12, <1>13
  <2>. QED
    BY <1>12, <1>13, <2>1, <2>2, SameState
<1>. HIDE DEF q1, q2, q3, q4, q5
<1>15. Leads(q1 \o q2, r, r2)
  BY <1>3, <1>5, LeadsOn
<1>16. Leads((q1 \o q2) \o q3, r, r3)
  BY <1>7, <1>15, LeadsOn
<1>17. Leads(((q1 \o q2) \o q3) \o q4, r, r4)
  BY <1>9, <1>16, LeadsOn
<1>18. Leads((((q1 \o q2) \o q3) \o q4) \o q5, r, r5)
  BY <1>11, <1>17, LeadsOn
<1>. QED
  BY <1>1, <1>14, <1>18 DEF t

\* What is left by a teardown.
LEMMA TornDown ==
    ASSUME NEW r, Formed(r)
    PROVE  LET t == Torn(r)
               i == r.inst
               k == r.kern
           IN  /\ Formed(t)
               /\ \A f \in InstFields :
                    t.inst[f] = IF f = "policy" THEN FALSE
                                ELSE IF Ipv6 THEN NoInst[f]
                                ELSE IF f \in {"gateway", "addr"} THEN None
                                ELSE i[f]
               /\ \A s \in KernSlots :
                    t.kern[s] =
                      IF s \in {"shared", "own"} /\ i.gateway # None THEN None
                      ELSE IF s = "addr" THEN Undo(k.addr, i.addr # None)
                      ELSE IF s = "policy" THEN Undo(k.policy, i.policy)
                      ELSE IF ~Ipv6 THEN k[s]
                      ELSE IF s = "route6" /\ i.route6 THEN None
                      ELSE IF s = "lo" THEN Undo(k.lo, i.lo # None)
                      ELSE IF s = "pdLo" THEN Undo(k.pdLo, i.pdLo # None)
                      ELSE IF s = "fwd" THEN Undo(k.fwd, i.fwd # None)
                      ELSE IF s = "prohibit"
                      THEN Undo(k.prohibit, i.prohibit)
                      ELSE k[s]
<1>. DEFINE t == Torn(r)
            i == r.inst
            k == r.kern
            k4 == TeardownIpv4(k, i)
            k6 == TeardownIpv6(k4, i)
            kt == IF Ipv6 THEN k6 ELSE k4
            it == IF Ipv6 THEN NoInst
                  ELSE [i EXCEPT !.gateway = None, !.addr = None]
            j == [f \in DOMAIN i |-> IF f = "policy" THEN FALSE ELSE it[f]]
            h == [kt EXCEPT !.policy = Undo(kt.policy, i.policy)]
<1>1. /\ DOMAIN i = InstFields /\ DOMAIN k = KernSlots
      /\ {"gateway", "addr", "policy"} \subseteq InstFields
      /\ {"shared", "own", "addr", "route6", "lo", "pdLo", "fwd", "prohibit",
          "policy"} \subseteq KernSlots
  BY FieldsOf DEF InstFields, KernSlots, RouteSlots, RuleSlots
<1>2. t = [inst |-> j, kern |-> h]
  BY DEF Torn, Teardown
<1>. HIDE DEF t, i, k
<1>3. k4 = [s \in KernSlots |->
              IF s \in {"shared", "own"} /\ i.gateway # None THEN None
              ELSE IF s = "addr" THEN Undo(k.addr, i.addr # None)
              ELSE k[s]]
  BY <1>1 DEF TeardownIpv4
<1>. HIDE DEF k4
<1>4. k6 = [s \in KernSlots |->
              IF s = "route6" THEN IF i.route6 THEN None ELSE k4[s]
              ELSE IF s = "lo" THEN Undo(k4.lo, i.lo # None)
              ELSE IF s = "pdLo" THEN Undo(k4.pdLo, i.pdLo # None)
              ELSE IF s = "fwd" THEN Undo(k4.fwd, i.fwd # None)
              ELSE IF s = "prohibit" THEN Undo(k4.prohibit, i.prohibit)
              ELSE k4[s]]
  BY <1>1, <1>3 DEF TeardownIpv6
<1>. HIDE DEF k6
<1>5. DOMAIN kt = KernSlots
  BY <1>3, <1>4
<1>6. h = [s \in KernSlots |->
             IF s = "policy" THEN Undo(kt.policy, i.policy) ELSE kt[s]]
  <2>. HIDE DEF kt
  <2>. QED
    BY <1>5
<1>7. /\ DOMAIN j = InstFields /\ j = [f \in InstFields |-> j[f]]
      /\ \A f \in InstFields :
           j[f] = IF f = "policy" THEN FALSE
                  ELSE IF Ipv6 THEN NoInst[f]
                  ELSE IF f \in {"gateway", "addr"} THEN None ELSE i[f]
  <2>1. j = [f \in InstFields |-> IF f = "policy" THEN FALSE ELSE it[f]]
    BY <1>1
  <2>2. ~Ipv6 => \A f \in InstFields :
          it[f] = IF f \in {"gateway", "addr"} THEN None ELSE i[f]
    BY <1>1
  <2>. HIDE DEF j
  <2>. QED
    BY <2>1, <2>2
<1>. HIDE DEF j, h
<1>8. t.inst = j /\ t.kern = h
  BY <1>2
<1>9. Formed(t)
  BY <1>2, <1>6, <1>7 DEF Formed
<1>10. ASSUME NEW s \in KernSlots
       PROVE  t.kern[s] =
                IF s \in {"shared", "own"} /\ i.gateway # None THEN None
                ELSE IF s = "addr" THEN Undo(k.addr, i.addr # None)
                ELSE IF s = "policy" THEN Undo(k.policy, i.policy)
                ELSE IF ~Ipv6 THEN k[s]
                ELSE IF s = "route6" /\ i.route6 THEN None
                ELSE IF s = "lo" THEN Undo(k.lo, i.lo # None)
                ELSE IF s = "pdLo" THEN Undo(k.pdLo, i.pdLo # None)
                ELSE IF s = "fwd" THEN Undo(k.fwd, i.fwd # None)
                ELSE IF s = "prohibit" THEN Undo(k.prohibit, i.prohibit)
                ELSE k[s]
  <2>1. k4.policy = k.policy /\ k4.lo = k.lo /\ k4.pdLo = k.pdLo
        /\ k4.fwd = k.fwd /\ k4.prohibit = k.prohibit
    BY <1>1, <1>3
  <2>2. k6.policy = k.policy
    BY <1>1, <1>4, <2>1
  <2>3. kt.policy = k.policy
    BY <2>1, <2>2
  <2>4. t.kern[s] = IF s = "policy" THEN Undo(k.policy, i.policy) ELSE kt[s]
    BY <1>6, <1>8, <2>3
  <2>. QED
    BY <1>3, <1>4, <2>1, <2>4
<1>. QED
  BY <1>7, <1>8, <1>9, <1>10 DEF t, i, k

\* What becomes of a slot that a teardown has been through, and of r when it
\* has been through D.
Left(r, s) ==
    IF s \in {"shared", "own"}
    THEN IF r.inst.gateway # None THEN None ELSE r.kern[s]
    ELSE IF s = "route6" THEN IF r.inst.route6 THEN None ELSE r.kern[s]
    ELSE Undo(r.kern[s], Means(s, r.inst[s]))

Upto(r, D) ==
    [inst |-> [f \in InstFields |->
                 IF f \in D THEN EmptyInst[f] ELSE r.inst[f]],
     kern |-> [s \in KernSlots |->
                 IF s \in D THEN Left(r, s) ELSE r.kern[s]]]

LEMMA UptoFields ==
    ASSUME NEW r, NEW D
    PROVE  LET u == Upto(r, D)
           IN  /\ Formed(u)
               /\ \A f \in InstFields :
                    u.inst[f] = IF f \in D THEN EmptyInst[f] ELSE r.inst[f]
               /\ \A s \in KernSlots :
                    u.kern[s] = IF s \in D THEN Left(r, s) ELSE r.kern[s]
BY DEF Upto, Formed

LEMMA UptoPut ==
    ASSUME NEW r, NEW D, NEW s
    PROVE  Put(Upto(r, D), s, EmptyInst[s], Left(r, s)) = Upto(r, D \cup {s})
<1>. DEFINE u == Upto(r, D)
            p == Put(u, s, EmptyInst[s], Left(r, s))
            t == Upto(r, D \cup {s})
<1>1. /\ \A f \in InstFields :
           u.inst[f] = IF f \in D THEN EmptyInst[f] ELSE r.inst[f]
      /\ \A k \in KernSlots :
           u.kern[k] = IF k \in D THEN Left(r, k) ELSE r.kern[k]
  BY UptoFields
<1>2. /\ Formed(t)
      /\ \A f \in InstFields :
           t.inst[f] = IF f \in D \cup {s} THEN EmptyInst[f] ELSE r.inst[f]
      /\ \A k \in KernSlots :
           t.kern[k] = IF k \in D \cup {s} THEN Left(r, k) ELSE r.kern[k]
  BY UptoFields
<1>. HIDE DEF u, t
<1>3. /\ Formed(p)
      /\ \A f \in InstFields :
           p.inst[f] = IF f = s THEN EmptyInst[s] ELSE u.inst[f]
      /\ \A k \in KernSlots :
           p.kern[k] = IF k = s THEN Left(r, s) ELSE u.kern[k]
  BY PutFields
<1>. HIDE DEF p
<1>4. /\ \A f \in InstFields : p.inst[f] = t.inst[f]
      /\ \A k \in KernSlots : p.kern[k] = t.kern[k]
  BY <1>1, <1>2, <1>3
<1>5. p = t
  BY <1>2, <1>3, <1>4, SameState
<1>. QED
  BY <1>5 DEF p, t, u

LEMMA ForgetOne ==
    ASSUME NEW r, NEW D, NEW s \in RuleSlots, s \notin D,
           s \in Flags => r.inst[s] \in BOOLEAN,
           NEW installed \in BOOLEAN, installed <=> Means(s, r.inst[s])
    PROVE  Leads(Forget(s, installed, Unset(s)), Upto(r, D),
                 Upto(r, D \cup {s}))
<1>. DEFINE u == Upto(r, D)
<1>1. s \in InstFields /\ s \in KernSlots /\ s \notin RouteSlots
  BY Slots
<1>2. Formed(u) /\ u.inst[s] = r.inst[s] /\ u.kern[s] = r.kern[s]
  BY <1>1, UptoFields
<1>3. Put(u, s, EmptyInst[s], Left(r, s)) = Upto(r, D \cup {s})
  BY UptoPut
<1>4. EmptyInst[s] = Unset(s)
  BY EmptyInstFacts DEF Unset
<1>5. Left(r, s) = Undo(r.kern[s], installed)
  BY <1>1 DEF Left, RouteSlots, Undo
<1>6. ~installed => r.inst[s] = Unset(s)
  BY DEF Means, Unset
<1>. HIDE DEF u
<1>7. Leads(Forget(s, installed, Unset(s)), u,
            Put(u, s, IF installed THEN Unset(s) ELSE u.inst[s],
                Undo(u.kern[s], installed)))
  BY <1>1, <1>2, ForgetLeads
<1>8. (IF installed THEN Unset(s) ELSE u.inst[s]) = Unset(s)
  BY <1>2, <1>6
<1>. QED
  BY <1>2, <1>3, <1>4, <1>5, <1>7, <1>8 DEF u

LEMMA TeardownLead ==
    ASSUME NEW r, Formed(r), r.inst.route6 \in BOOLEAN,
           r.inst.prohibit \in BOOLEAN, r.inst.policy \in BOOLEAN
    PROVE  Leads(TeardownItems(r.inst), r, Torn(r))
<1>. DEFINE i == r.inst
            g == IF i.gateway = None THEN << >>
                 ELSE << DelRoute("shared"), DelRoute("own"),
                         Book("gateway", None) >>
            fa == Forget("addr", i.addr # None, None)
            x == IF i.route6
                 THEN << DelRoute("route6"), Book("route6", FALSE) >>
                 ELSE << >>
            fl == Forget("lo", i.lo # None, None)
            fp == Forget("pdLo", i.pdLo # None, None)
            ff == Forget("fwd", i.fwd # None, None)
            fh == Forget("prohibit", i.prohibit, FALSE)
            fo == Forget("policy", i.policy, FALSE)
            six == ((((x \o fl) \o fp) \o ff) \o fh)
            D1 == {"gateway", "shared", "own"}
            D2 == D1 \cup {"addr"}
            D3 == D2 \cup {"route6"}
            D4 == D3 \cup {"lo"}
            D5 == D4 \cup {"pdLo"}
            D6 == D5 \cup {"fwd"}
            D7 == D6 \cup {"prohibit"}
            D8 == IF Ipv6 THEN D7 ELSE D2
            D9 == D8 \cup {"policy"}
<1>1. TeardownItems(i) = ((g \o fa) \o IF Ipv6 THEN six ELSE << >>) \o fo
  BY DEF TeardownItems, Teardown6Items
<1>2. Leads(g, r, Upto(r, D1))
  <2>1. PICK m : /\ Leads(IF None = i.gateway THEN << >>
                          ELSE << ReplaceRoute("shared", None),
                                  ReplaceRoute("own", None),
                                  Book("gateway", None) >>, r, m)
                 /\ Formed(m)
                 /\ \A f \in InstFields :
                      m.inst[f] = IF f = "gateway" THEN None ELSE i[f]
                 /\ \A s \in KernSlots :
                      m.kern[s] = IF s \in {"shared", "own"}
                                     /\ None # i.gateway
                                  THEN None ELSE r.kern[s]
    BY GatewayLead
  <2>2. /\ DelRoute("shared") = ReplaceRoute("shared", None)
        /\ DelRoute("own") = ReplaceRoute("own", None)
    BY DEF DelRoute, ReplaceRoute
  <2>3. Leads(g, r, m)
    BY <2>1, <2>2
  <2>. DEFINE u == Upto(r, D1)
  <2>4. /\ Formed(u)
        /\ \A f \in InstFields :
             u.inst[f] = IF f \in D1 THEN EmptyInst[f] ELSE r.inst[f]
        /\ \A s \in KernSlots :
             u.kern[s] = IF s \in D1 THEN Left(r, s) ELSE r.kern[s]
    <3>. HIDE DEF D1
    <3>. QED
      BY UptoFields
  <2>5. /\ "shared" \notin InstFields /\ "own" \notin InstFields
        /\ "gateway" \notin KernSlots /\ EmptyInst["gateway"] = None
    BY EmptyInstFacts DEF InstFields, KernSlots, RouteSlots, RuleSlots
  <2>6. /\ Left(r, "shared") = IF i.gateway # None THEN None
                               ELSE r.kern["shared"]
        /\ Left(r, "own") = IF i.gateway # None THEN None ELSE r.kern["own"]
    BY DEF Left
  <2>. HIDE DEF u
  <2>7. \A f \in InstFields : m.inst[f] = u.inst[f]
    BY <2>1, <2>4, <2>5
  <2>8. \A s \in KernSlots : m.kern[s] = u.kern[s]
    BY <2>1, <2>4, <2>5, <2>6
  <2>9. m = u
    BY <2>1, <2>4, <2>7, <2>8, SameState
  <2>. QED
    BY <2>3, <2>9 DEF u
<1>3. /\ "addr" \in RuleSlots \ Flags /\ "lo" \in RuleSlots \ Flags
      /\ "pdLo" \in RuleSlots \ Flags /\ "fwd" \in RuleSlots \ Flags
      /\ "prohibit" \in RuleSlots /\ "prohibit" \in Flags
      /\ "policy" \in RuleSlots /\ "policy" \in Flags
  BY DEF RuleSlots, Flags
<1>4. ASSUME NEW s \in RuleSlots \ Flags, NEW D, s \notin D
      PROVE  Leads(Forget(s, r.inst[s] # None, None), Upto(r, D),
                   Upto(r, D \cup {s}))
  <2>1. Unset(s) = None /\ (Means(s, r.inst[s]) <=> r.inst[s] # None)
    BY DEF Unset, Means
  <2>. DEFINE b == (r.inst[s] # None)
  <2>2. b \in BOOLEAN /\ (b <=> Means(s, r.inst[s]))
    BY <2>1
  <2>. HIDE DEF b
  <2>3. Leads(Forget(s, b, Unset(s)), Upto(r, D), Upto(r, D \cup {s}))
    BY <1>4, <2>2, ForgetOne
  <2>. QED
    BY <2>1, <2>3 DEF b
<1>5. ASSUME NEW s \in Flags, s \in RuleSlots, r.inst[s] \in BOOLEAN,
             NEW D, s \notin D
      PROVE  Leads(Forget(s, r.inst[s], FALSE), Upto(r, D),
                   Upto(r, D \cup {s}))
  <2>1. Unset(s) = FALSE /\ (Means(s, r.inst[s]) <=> r.inst[s])
    BY <1>5 DEF Unset, Means
  <2>. QED
    BY <1>5, <2>1, ForgetOne
<1>6. /\ "addr" \notin D1 /\ "lo" \notin D3 /\ "pdLo" \notin D4
      /\ "fwd" \notin D5 /\ "prohibit" \notin D6 /\ "policy" \notin D8
      /\ "route6" \notin D2
  OBVIOUS
<1>7. Leads(fa, Upto(r, D1), Upto(r, D2))
  <2>. HIDE DEF D1
  <2>. QED
    BY <1>3, <1>4, <1>6
<1>8. Leads(x, Upto(r, D2), Upto(r, D3))
  <2>. DEFINE u == Upto(r, D2)
  <2>1. "route6" \in InstFields /\ "route6" \in KernSlots
    BY Slots DEF InstFields, KernSlots, RouteSlots
  <2>. HIDE DEF D2
  <2>2. Put(u, "route6", EmptyInst["route6"], Left(r, "route6")) = Upto(r, D3)
    BY UptoPut
  <2>3. /\ Formed(u) /\ u.inst["route6"] = r.inst["route6"]
        /\ u.kern["route6"] = r.kern["route6"]
    BY <1>6, <2>1, UptoFields
  <2>4. EmptyInst["route6"] = FALSE
    BY EmptyInstFacts
  <2>5. Left(r, "route6") = IF i.route6 THEN None ELSE r.kern["route6"]
    BY DEF Left
  <2>. HIDE DEF u, D3
  <2>6. /\ Leads(<< DelRoute("route6"), Book("route6", FALSE) >>, u,
                 Put(u, "route6", FALSE, None))
        /\ Leads(<< >>, u, Put(u, "route6", u.inst["route6"],
                               u.kern["route6"]))
    BY <2>1, <2>3, RecordedLeads
  <2>7. r.inst["route6"] = TRUE \/ r.inst["route6"] = FALSE
    OBVIOUS
  <2>. QED
    BY <2>2, <2>3, <2>4, <2>5, <2>6, <2>7 DEF u
<1>9. Leads(fl, Upto(r, D3), Upto(r, D4))
  <2>. HIDE DEF D3
  <2>. QED
    BY <1>3, <1>4, <1>6
<1>10. Leads(fp, Upto(r, D4), Upto(r, D5))
  <2>. HIDE DEF D4
  <2>. QED
    BY <1>3, <1>4, <1>6
<1>11. Leads(ff, Upto(r, D5), Upto(r, D6))
  <2>. HIDE DEF D5
  <2>. QED
    BY <1>3, <1>4, <1>6
<1>12. Leads(fh, Upto(r, D6), Upto(r, D7))
  <2>. HIDE DEF D6
  <2>. QED
    BY <1>3, <1>5, <1>6
<1>13. Leads(fo, Upto(r, D8), Upto(r, D9))
  <2>. HIDE DEF D8
  <2>. QED
    BY <1>3, <1>5, <1>6
<1>14. Upto(r, D9) = Torn(r)
  <2>. DEFINE u == Upto(r, D9)
              t == Torn(r)
  <2>1. /\ Formed(u)
        /\ \A f \in InstFields :
             u.inst[f] = IF f \in D9 THEN EmptyInst[f] ELSE r.inst[f]
        /\ \A s \in KernSlots :
             u.kern[s] = IF s \in D9 THEN Left(r, s) ELSE r.kern[s]
    <3>. HIDE DEF D9
    <3>. QED
      BY UptoFields
  <2>2. /\ Formed(t)
        /\ \A f \in InstFields :
             t.inst[f] = IF f = "policy" THEN FALSE
                         ELSE IF Ipv6 THEN NoInst[f]
                         ELSE IF f \in {"gateway", "addr"} THEN None
                         ELSE i[f]
        /\ \A s \in KernSlots :
             t.kern[s] =
               IF s \in {"shared", "own"} /\ i.gateway # None THEN None
               ELSE IF s = "addr" THEN Undo(r.kern.addr, i.addr # None)
               ELSE IF s = "policy" THEN Undo(r.kern.policy, i.policy)
               ELSE IF ~Ipv6 THEN r.kern[s]
               ELSE IF s = "route6" /\ i.route6 THEN None
               ELSE IF s = "lo" THEN Undo(r.kern.lo, i.lo # None)
               ELSE IF s = "pdLo" THEN Undo(r.kern.pdLo, i.pdLo # None)
               ELSE IF s = "fwd" THEN Undo(r.kern.fwd, i.fwd # None)
               ELSE IF s = "prohibit" THEN Undo(r.kern.prohibit, i.prohibit)
               ELSE r.kern[s]
    BY TornDown
  <2>3. /\ EmptyInst["policy"] = FALSE /\ EmptyInst["gateway"] = None
        /\ EmptyInst["addr"] = None
        /\ \A f \in InstFields \ {"policy"} : EmptyInst[f] = NoInst[f]
    BY DEF EmptyInst, NoInst, InstFields, RuleSlots
  <2>4. /\ Left(r, "shared") = IF i.gateway # None THEN None
                               ELSE r.kern["shared"]
        /\ Left(r, "own") = IF i.gateway # None THEN None ELSE r.kern["own"]
        /\ Left(r, "route6") = IF i.route6 THEN None ELSE r.kern["route6"]
    BY DEF Left
  <2>5. \A s \in RuleSlots \ Flags :
          Left(r, s) = Undo(r.kern[s], r.inst[s] # None)
    BY Slots DEF Left, Means, RouteSlots, Undo
  <2>6. \A s \in Flags : r.inst[s] \in BOOLEAN =>
          Left(r, s) = Undo(r.kern[s], r.inst[s])
    BY DEF Left, Means, Flags, Undo
  <2>. HIDE DEF u, t
  <2>7. ASSUME NEW f \in InstFields
        PROVE  u.inst[f] = t.inst[f]
    <3>1. \/ f = "gateway" \/ f = "route6" \/ f = "policy" \/ f = "addr"
          \/ f = "lo" \/ f = "pdLo" \/ f = "fwd" \/ f = "prohibit"
      BY DEF InstFields, RuleSlots
    <3>. QED
      BY <2>1, <2>2, <2>3, <3>1
  <2>8. ASSUME NEW s \in KernSlots
        PROVE  u.kern[s] = t.kern[s]
    <3>1. \/ s = "shared" \/ s = "own" \/ s = "route6"
          \/ s = "policy" \/ s = "addr" \/ s = "lo" \/ s = "pdLo"
          \/ s = "fwd" \/ s = "prohibit"
      BY DEF KernSlots, RouteSlots, RuleSlots
    <3>. QED
      BY <1>3, <2>1, <2>2, <2>4, <2>5, <2>6, <3>1
  <2>9. u = t
    BY <2>1, <2>2, <2>7, <2>8, SameState
  <2>. QED
    BY <2>9 DEF u, t
<1>. HIDE DEF g, fa, x, fl, fp, ff, fh, fo, D1, D2, D3, D4, D5, D6, D7, D9
<1>15. Leads(six, Upto(r, D2), Upto(r, D7))
  BY <1>8, <1>9, <1>10, <1>11, <1>12, LeadsOn
<1>16. Leads(g \o fa, r, Upto(r, D2))
  BY <1>2, <1>7, LeadsOn
<1>17. Leads(IF Ipv6 THEN six ELSE << >>, Upto(r, D2), Upto(r, D8))
  <2>. HIDE DEF six
  <2>. QED
    BY <1>15, LeadsNowhere
<1>. HIDE DEF six, D8
<1>18. Leads((g \o fa) \o IF Ipv6 THEN six ELSE << >>, r, Upto(r, D8))
  BY <1>16, <1>17, LeadsOn
<1>19. Leads(((g \o fa) \o IF Ipv6 THEN six ELSE << >>) \o fo, r, Upto(r, D9))
  BY <1>13, <1>18, LeadsOn
<1>. QED
  BY <1>1, <1>14, <1>19

LEMMA ForceDownLeads ==
    ASSUME NEW r, Formed(r), NEW family, NEW was, NEW is
    PROVE  /\ Leads(<< Fire(family) >>, r, r)
           /\ Leads(ForceDown(family, was, is), r, r)
<1>1. Leads(<< Fire(family) >>, r, After(r, Fire(family)))
  BY LeadsOne
<1>2. After(r, Fire(family)) = r
  BY Afters
<1>. QED
  BY <1>1, <1>2, LeadsNowhere DEF ForceDown

LEMMA Pass4Leads ==
    ASSUME NEW r, Formed(r), NEW was, NEW is
    PROVE  Leads(Pass4(r.inst, was, is), r, Passed4(r, is))
<1>. DEFINE lease == ReadState("v4")
<1>1. Leads(Items4(r.inst, lease, is), r, ReconcileIpv4(r, lease, is))
  <2>. HIDE DEF lease
  <2>. QED
    BY Items4Lead
<1>. QED
  BY <1>1, ForceDownLeads, LeadsOn DEF Pass4, Passed4

LEMMA Pass6Leads ==
    ASSUME NEW r, Formed(r), NEW i, NEW was, NEW is,
           i.route6 = r.inst.route6, i.lo = r.inst.lo, i.pdLo = r.inst.pdLo,
           i.fwd = r.inst.fwd, i.prohibit = r.inst.prohibit,
           r.inst.route6 \in BOOLEAN, r.inst.prohibit \in BOOLEAN
    PROVE  Leads(Pass6(i, was, is), r, Passed6(r, is))
<1>. DEFINE ra == ReadState("ra")
            pd == ReadState("pd")
            na == ReadState("na")
            q == Items6(i, ra, pd, na, is)
            a == ForceDown("ipv6", was, is)
<1>1. Leads(q, r, Passed6(r, is))
  <2>1. CASE Ipv6
    <3>1. Leads(q, r, ReconcileIpv6(r, ra, pd, na, is))
      <4>. HIDE DEF ra, pd, na
      <4>. QED
        BY <2>1, Items6Lead
    <3>. QED
      BY <2>1, <3>1 DEF Passed6
  <2>2. CASE ~Ipv6
    BY <2>2, LeadsNowhere DEF Passed6, Items6
  <2>. QED
    BY <2>1, <2>2
<1>2. Leads(a, r, r)
  BY ForceDownLeads
<1>3. Pass6(i, was, is) = a \o q
  BY DEF Pass6
<1>. HIDE DEF q, a
<1>. QED
  BY <1>1, <1>2, <1>3, LeadsOn

\* A command keeps the fields there are.
LEMMA AfterFormed ==
    ASSUME NEW r, Formed(r), NEW c \in Command
    PROVE  Formed(After(r, c))
<1>. DEFINE i == r.inst
            k == r.kern
<1>1. /\ i = [f \in InstFields |-> i[f]] /\ k = [s \in KernSlots |-> k[s]]
  <2>1. r.inst = [f \in InstFields |-> r.inst[f]]
    BY DEF Formed
  <2>2. r.kern = [s \in KernSlots |-> r.kern[s]]
    BY DEF Formed
  <2>. QED
    BY <2>1, <2>2
<1>. HIDE DEF i, k
<1>2. Booked(i, c) = [f \in InstFields |-> Booked(i, c)[f]]
  BY <1>1 DEF Booked
<1>3. Run(k, c) = [s \in KernSlots |-> Run(k, c)[s]]
  BY <1>1, Kinds DEF Run
<1>. QED
  BY <1>2, <1>3 DEF Formed, After, i, k

-----------------------------------------------------------------------------
\* The list leads where the pass as one step does.

GoalInv ==
    /\ Formed(Now)
    /\ goal # None => Leads(todo, Now, goal)

LEMMA GoalStarts == ASSUME Init PROVE GoalInv
<1>1. EmptyInst = [f \in InstFields |-> EmptyInst[f]]
  BY DEF EmptyInst, NoInst, InstFields, RuleSlots
<1>2. EmptyKern = [s \in KernSlots |-> EmptyKern[s]]
  BY DEF EmptyKern, NoKern, KernSlots, RouteSlots, RuleSlots
<1>. QED
  BY <1>1, <1>2 DEF Init, GoalInv, Now, Formed

LEMMA KeepsGoal == ASSUME Inv, GoalInv, [Next]_vars PROVE GoalInv'
<1>. DEFINE r == Now
<1>0. Types /\ ListInv /\ Formed(r)
  BY DEF Inv, GoalInv
<1>1. /\ r.inst = inst /\ r.kern = kern
      /\ r.inst.route6 \in BOOLEAN /\ r.inst.prohibit \in BOOLEAN
      /\ r.inst.policy \in BOOLEAN
  BY <1>0 DEF Now, Types, Flags
<1>2. UNCHANGED << inst, kern >> => Now' = r
  BY DEF Now
<1>3. CASE UNCHANGED << inst, kern, todo, goal >>
  BY <1>3 DEF GoalInv, Now
<1>4. CASE Step
  <2>1. todo # << >> /\ Head(todo) \in Command
    BY <1>0, <1>4, Rest DEF ListInv, Step
  <2>2. Now' = After(r, Head(todo)) /\ todo' = Tail(todo) /\ goal' = goal
    BY <1>1, <1>4 DEF Step, Now, After
  <2>. HIDE DEF r
  <2>3. Formed(Now')
    BY <1>0, <2>1, <2>2, AfterFormed
  <2>4. goal # None => Leads(todo, r, goal)
    BY DEF GoalInv, r
  <2>5. goal # None => Leads(Tail(todo), After(r, Head(todo)), goal)
    BY <2>1, <2>4, LeadsStill
  <2>. QED
    BY <2>2, <2>3, <2>5 DEF GoalInv
<1>5. CASE Reconcile
  <2>. DEFINE u4 == up'.ipv4
              u6 == up'.ipv6
              w4 == up.ipv4
              w6 == up.ipv6
              m == Passed4(r, u4)
  <2>1. /\ Now' = r /\ goal' = Passed6(m, u6)
        /\ todo' = Pass4(r.inst, w4, u4) \o Pass6(r.inst, w6, u6)
    BY <1>1, <1>2, <1>5 DEF Reconcile
  <2>. HIDE DEF r, u4, u6, w4, w6
  <2>2. /\ Formed(m)
        /\ \A f \in InstFields \ {"gateway", "addr"} : m.inst[f] = r.inst[f]
    <3>. DEFINE lease == ReadState("v4")
    <3>1. m = ReconcileIpv4(r, lease, u4)
      BY DEF Passed4
    <3>. HIDE DEF lease, m
    <3>. QED
      BY <1>0, <3>1, Reconciled4
  <2>3. /\ m.inst.route6 = r.inst.route6 /\ m.inst.lo = r.inst.lo
        /\ m.inst.pdLo = r.inst.pdLo /\ m.inst.fwd = r.inst.fwd
        /\ m.inst.prohibit = r.inst.prohibit
    BY <2>2 DEF InstFields, RuleSlots
  <2>4. Leads(Pass4(r.inst, w4, u4), r, m)
    BY <1>0, Pass4Leads
  <2>5. Leads(Pass6(r.inst, w6, u6), m, Passed6(m, u6))
    <3>. HIDE DEF m
    <3>. QED
      BY <1>1, <2>2, <2>3, Pass6Leads
  <2>6. Leads(todo', r, goal')
    BY <2>1, <2>4, <2>5, LeadsOn
  <2>. QED
    BY <1>0, <2>1, <2>6 DEF GoalInv
<1>6. CASE Probe4
  <2>. DEFINE u4 == up'.ipv4
              w4 == ~up.ipv4
  <2>1. /\ Now' = r /\ goal' = Passed4(r, u4)
        /\ todo' = Pass4(r.inst, w4, u4) \o << Fire("ipv4") >>
    BY <1>1, <1>2, <1>6 DEF Probe4
  <2>. HIDE DEF r, u4, w4
  <2>2. Leads(Pass4(r.inst, w4, u4), r, Passed4(r, u4))
    BY <1>0, Pass4Leads
  <2>3. Formed(Passed4(r, u4))
    <3>. DEFINE lease == ReadState("v4")
    <3>1. Passed4(r, u4) = ReconcileIpv4(r, lease, u4)
      BY DEF Passed4
    <3>. HIDE DEF lease
    <3>. QED
      BY <1>0, <3>1, Reconciled4
  <2>4. Leads(<< Fire("ipv4") >>, Passed4(r, u4), Passed4(r, u4))
    BY <2>3, ForceDownLeads
  <2>5. Leads(todo', r, goal')
    BY <2>1, <2>2, <2>4, LeadsOn
  <2>. QED
    BY <1>0, <2>1, <2>5 DEF GoalInv
<1>7. CASE Probe6
  <2>. DEFINE u6 == up'.ipv6
              w6 == ~up.ipv6
  <2>1. /\ Now' = r /\ goal' = Passed6(r, u6)
        /\ todo' = Pass6(r.inst, w6, u6) \o << Fire("ipv6") >>
    BY <1>1, <1>2, <1>7 DEF Probe6
  <2>. HIDE DEF r, u6, w6
  <2>2. Leads(Pass6(r.inst, w6, u6), r, Passed6(r, u6))
    BY <1>0, <1>1, Pass6Leads
  <2>3. Formed(Passed6(r, u6))
    <3>. DEFINE ra == ReadState("ra")
                pd == ReadState("pd")
                na == ReadState("na")
    <3>1. Passed6(r, u6) = IF Ipv6 THEN ReconcileIpv6(r, ra, pd, na, u6)
                           ELSE r
      BY DEF Passed6
    <3>. HIDE DEF ra, pd, na
    <3>2. Formed(ReconcileIpv6(r, ra, pd, na, u6))
      BY <1>0, Reconciled6
    <3>. QED
      BY <1>0, <3>1, <3>2
  <2>4. Leads(<< Fire("ipv6") >>, Passed6(r, u6), Passed6(r, u6))
    BY <2>3, ForceDownLeads
  <2>5. Leads(todo', r, goal')
    BY <2>1, <2>2, <2>4, LeadsOn
  <2>. QED
    BY <1>0, <2>1, <2>5 DEF GoalInv
<1>8. CASE Terminate
  <2>1. /\ Now' = r /\ goal' = Torn(r) /\ todo' = TeardownItems(r.inst)
    BY <1>1, <1>2, <1>8 DEF Terminate
  <2>. HIDE DEF r
  <2>2. Leads(todo', r, goal')
    BY <1>0, <1>1, <2>1, TeardownLead
  <2>. QED
    BY <1>0, <2>1, <2>2 DEF GoalInv
<1>9. ASSUME goal' = None, Formed(Now')
      PROVE  GoalInv'
  BY <1>9 DEF GoalInv
<1>10. CASE ToLoop \/ CommandFails \/ CommandRaises
  <2>1. Now' = r /\ goal' = None
    BY <1>2, <1>10 DEF ToLoop, CommandFails, CommandRaises
  <2>. HIDE DEF r
  <2>. QED
    BY <1>0, <1>9, <2>1
<1>11. CASE Start \/ Exit \/ Killed
  <2>1. /\ inst' = EmptyInst /\ kern' = kern /\ goal' = None
    BY <1>11 DEF Start, Exit, Killed, Gone
  <2>2. EmptyInst = [f \in InstFields |-> EmptyInst[f]]
    BY DEF EmptyInst, NoInst, InstFields, RuleSlots
  <2>3. kern = [s \in KernSlots |-> kern[s]]
    BY <1>0 DEF Formed, Now
  <2>4. Formed(Now')
    BY <2>1, <2>2, <2>3 DEF Formed, Now
  <2>. QED
    BY <1>9, <2>1, <2>4
<1>12. CASE InterfaceFlaps
  <2>1. /\ inst' = inst /\ goal' = None
        /\ kern' = [s \in KernSlots |->
                      IF s \in RouteSlots THEN None ELSE kern[s]]
    BY <1>0, <1>12 DEF InterfaceFlaps, Types
  <2>2. inst = [f \in InstFields |-> inst[f]]
    BY <1>0 DEF Formed, Now
  <2>3. kern' = [s \in KernSlots |-> kern'[s]]
    BY <2>1
  <2>4. Formed(Now')
    BY <2>1, <2>2, <2>3 DEF Formed, Now
  <2>. QED
    BY <1>9, <2>1, <2>4
<1>. QED
  BY <1>3, <1>4, <1>5, <1>6, <1>7, <1>8, <1>10, <1>11, <1>12
     DEF Next, FileChanges, vars

-----------------------------------------------------------------------------
\* The invariant, and what follows from it.

LEMMA Starts == ASSUME Init PROVE Inv
<1>1. Types
  <2>1. DOMAIN inst = InstFields
    BY EmptyInstFacts DEF Init
  <2>2. DOMAIN kern = KernSlots /\ \A s \in RuleSlots : kern[s] = << >>
    BY DEF Init, EmptyKern, NoKern, KernSlots, RouteSlots, RuleSlots
  <2>3. << >> \in Seq(Selectors)
    OBVIOUS
  <2>4. faults \in 0 .. MaxFaults
    BY UplinkAssumption DEF Init
  <2>. QED
    BY <2>1, <2>2, <2>3, <2>4, EmptyInstTypes DEF Init, Types
<1>2. todo = << >> /\ inst = EmptyInst /\ phase = "off"
  BY DEF Init
<1>3. ListInv /\ Only4Inv /\ StopInv /\ RuleInv
  <2>1. Rules6 \subseteq RuleSlots
    BY DEF Rules6, RuleSlots
  <2>. QED
    BY <1>2, <2>1, NothingLeft, EmptyInstFacts
       DEF ListInv, Only4Inv, StopInv, RuleInv
<1>4. CountInv
  <2>1. \A s \in RuleSlots : Len(kern[s]) = 0
    BY DEF Init, EmptyKern, NoKern, RuleSlots
  <2>2. faults = 0
    BY DEF Init
  <2>. QED
    BY <2>1, <2>2, Caps DEF CountInv
<1>5. GatewayInv /\ Route6Inv
  BY <1>2, EmptyInstFacts DEF GatewayInv, Route6Inv, Serving
<1>. QED
  BY <1>1, <1>3, <1>4, <1>5 DEF Inv

LEMMA Keeps == ASSUME Inv, [Next]_vars PROVE Inv'
<1>1. Types' /\ ListInv' /\ Only4Inv' /\ StopInv'
  BY KeepsTypes, KeepsList, KeepsOnly4, KeepsStop
<1>2. CountInv' /\ RuleInv'
  BY KeepsCount, KeepsRules
<1>3. GatewayInv' /\ Route6Inv'
  BY KeepsGateway, KeepsRoute6
<1>. QED
  BY <1>1, <1>2, <1>3 DEF Inv

\* The invariant holds whatever fails.
THEOREM RoutingInvariant == Spec => []Inv
<1>. QED
  BY Starts, Keeps, PTL DEF Spec

\* Every variable holds a value of its kind, and every command still to be
\* made is about something that exists.
THEOREM RoutingTyped == Spec => []TypeOK
<1>1. Inv => TypeOK
  <2>. SUFFICES ASSUME Inv
                PROVE  TypeOK
    OBVIOUS
  <2>1. Types /\ todo \in Seq(Command)
    BY DEF Inv, ListInv, Chain
  <2>2. ASSUME NEW c \in ToSet(todo)
        PROVE  c.slot \in (CASE c.op = "book"  -> DOMAIN inst
                             [] c.op = "fire"  -> DOMAIN up
                             [] c.op = "route" -> RouteSlots
                             [] OTHER          -> RuleSlots)
    <3>1. c \in Command
      BY <2>1, <2>2 DEF ToSet
    <3>2. DOMAIN inst = InstFields /\ DOMAIN up = {"ipv4", "ipv6"}
      BY <2>1 DEF Types
    <3>3. c.op \in {"route", "add", "del", "book", "fire"}
      BY <3>1, Kinds
    <3>4. CASE c.op = "book"
      BY <3>1, <3>2, <3>4, Kinds
    <3>5. CASE c.op = "fire"
      BY <3>1, <3>2, <3>5, Kinds
    <3>6. CASE c.op = "route"
      BY <3>1, <3>6, Kinds
    <3>7. CASE c.op \in {"add", "del"}
      BY <3>1, <3>7, Kinds
    <3>. QED
      BY <3>3, <3>4, <3>5, <3>6, <3>7
  <2>3. \A s \in {"route6", "prohibit", "policy"} : inst[s] \in BOOLEAN
    BY <2>1 DEF Types, Flags
  <2>. QED
    BY <2>1, <2>2, <2>3 DEF Types, TypeOK
<1>. QED
  BY <1>1, RoutingInvariant, PTL

\* A rule the daemon remembers is in the kernel, whatever rules earlier
\* processes left in its slot (_run_del deletes by priority, so it may hit
\* any of them).
THEOREM RulesSurvive == Spec => []RememberedRulesPresent
<1>1. Inv => RememberedRulesPresent
  <2>. SUFFICES ASSUME Inv, sound, phase = "idle"
                PROVE  /\ \A s \in {"addr", "lo", "pdLo", "fwd"} :
                            inst[s] # None => Contains(kern[s], inst[s])
                       /\ inst.prohibit => Contains(kern.prohibit, NoFrom)
                       /\ inst.policy => Contains(kern.policy, NoFrom)
    BY DEF RememberedRulesPresent
  <2>1. todo = << >>
    BY DEF Inv, ListInv
  <2>2. \A s \in RuleSlots :
          Means(s, inst[s]) => Contains(kern[s], Selector(s, inst[s]))
    BY <2>1, NothingLeft DEF Inv, RuleInv
  <2>3. \A s \in {"addr", "lo", "pdLo", "fwd"} :
          inst[s] # None => Contains(kern[s], inst[s])
    BY <2>2 DEF Means, Selector, RuleSlots, Flags
  <2>4. \A s \in Flags : inst[s] \in BOOLEAN /\ s \in RuleSlots
    BY Slots DEF Inv, Types
  <2>5. \A s \in Flags : inst[s] => Contains(kern[s], NoFrom)
    BY <2>2, <2>4 DEF Means, Selector
  <2>. QED
    BY <2>3, <2>5 DEF Flags
<1>. QED
  BY <1>1, RoutingInvariant, PTL

\* Each fault costs at most one rule in each slot, however many passes, stops
\* and restarts there are.
THEOREM LeftoversStayFew == Spec => []LeftoversBounded
<1>1. Inv => LeftoversBounded
  <2>. SUFFICES ASSUME Inv, NEW s \in RuleSlots
                PROVE  Len(kern[s]) =< 1 + faults
    BY DEF LeftoversBounded
  <2>1. Len(kern[s]) =< faults + Cap(s) /\ Cap(s) \in {0, 1}
    BY Caps DEF Inv, CountInv
  <2>2. faults \in Nat /\ Len(kern[s]) \in Nat
    BY DEF Inv, Types
  <2>. QED
    BY <2>1, <2>2
<1>. QED
  BY <1>1, RoutingInvariant, PTL

\* A process that saw no fault has both IPv4 routes of an uplink that is up
\* (_reconcile_uplink_ipv4), whatever was left by the processes before it.
THEOREM RestartRepairs == Spec => []RestartRepairs4
<1>1. Inv => RestartRepairs4
  <2>. SUFFICES ASSUME Inv, sound, Idle, up.ipv4
                PROVE  /\ kern.shared = ReadState("v4").gateway
                       /\ kern.own = ReadState("v4").gateway
    BY DEF RestartRepairs4
  <2>1. Types /\ todo = << >> /\ Serving
    BY DEF Inv, ListInv, Idle, Serving
  <2>2. ReadState("v4") # None /\ inst.gateway = Wanted4
    BY <2>1, NothingLeft DEF Inv, GatewayInv
  <2>3. Wanted4 = ReadState("v4").gateway
    BY <2>2 DEF Wanted4, WantGateway
  <2>4. ReadState("v4").gateway # None
    <3>1. "v4" \in FileNames
      BY DEF FileNames
    <3>2. file["v4"] \in uplink.contents["v4"] \cup {None}
      BY <2>1, <3>1 DEF Types
    <3>3. /\ file["v4"] # Malformed /\ ReadState("v4") = file["v4"]
          /\ file["v4"] # None
      BY <2>2 DEF ReadState
    <3>. QED
      BY <2>1, <3>2, <3>3, UplinkAssumption DEF Types
  <2>5. kern.shared = inst.gateway /\ kern.own = inst.gateway
    BY <2>1, <2>2, <2>3, <2>4, NothingLeft DEF Inv, GatewayInv
  <2>. QED
    BY <2>2, <2>3, <2>5
<1>. QED
  BY <1>1, RoutingInvariant, PTL

\* A route the kernel flushed or refused is made good by the next IPv6 pass
\* (_reconcile_uplink_ipv6 replaces it unconditionally).
THEOREM RouteHeals == Spec => []Route6Heals
<1>1. Inv => Route6Heals
  <2>. SUFFICES ASSUME Inv, fresh6, Idle, Ipv6, ReadState("ra") # None
                PROVE  kern.route6 = Route6(ReadState("ra"))
    BY DEF Route6Heals
  <2>1. todo = << >> /\ Serving
    BY DEF Inv, ListInv, Idle, Serving
  <2>. QED
    BY <2>1, NothingLeft DEF Inv, Route6Inv
<1>. QED
  BY <1>1, RoutingInvariant, PTL

\* A pass or a teardown in which nothing failed comes, command by command
\* and whatever the kernel held, to what _reconcile_uplink_ipv4,
\* _reconcile_uplink_ipv6 and _teardown_all come to as one step.
THEOREM PassesAsOneStep == Spec => []PassAsOneStep
<1>1. Init => GoalInv
  BY GoalStarts
<1>2. Inv /\ GoalInv /\ [Next]_vars => GoalInv'
  BY KeepsGoal
<1>3. GoalInv => PassAsOneStep
  <2>. SUFFICES ASSUME GoalInv, goal # None, todo = << >>
                PROVE  Now = goal
    BY DEF PassAsOneStep
  <2>1. Leads(<< >>, Now, goal)
    BY DEF GoalInv
  <2>. HIDE DEF Now
  <2>. QED
    BY <2>1, LeadsNowhere
<1>. QED
  BY <1>1, <1>2, <1>3, RoutingInvariant, PTL DEF Spec
=============================================================================

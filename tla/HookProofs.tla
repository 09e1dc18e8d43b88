----------------------------- MODULE HookProofs -----------------------------
(***************************************************************************)
(* The hook runner implements the event log: every event is handled at     *)
(* most once, in the order of firing, whatever the scripts do, however the *)
(* directories change and whenever the daemon is stopped.  The scripts of  *)
(* an event run in the order of their names, disabled ones not at all, and *)
(* the queue drains at the end of the daemon if its scripts are quick.     *)
(***************************************************************************)
EXTENDS HookProps, SequenceTheorems, FiniteSetTheorems, TLAPS

Fired == Events \cup {DaemonStop}

QueueTypeOK ==
    /\ fired \in Seq(Fired)
    /\ begun \in Seq(Fired)
    /\ queue \in Seq(Fired \cup {Sentinel})

\* The queue is what was fired and is not begun yet, and the sentinel is
\* behind it.
Aligned ==
    /\ Len(begun) + Len(queue) \in {Len(fired), Len(fired) + 1}
    /\ main = "running" => Len(begun) + Len(queue) = Len(fired)
    /\ \A i \in 1 .. Len(queue) :
         IF Len(begun) + i =< Len(fired)
         THEN queue[i] = fired[Len(begun) + i]
         ELSE queue[i] = Sentinel

QueueInv == QueueTypeOK /\ Aligned

\* Steps that leave the queue and the two histories alone.
Aside ==
    /\ UNCHANGED << queue, fired, begun >>
    /\ main' = "running" => main = "running"

LEMMA Steps ==
    ASSUME [Next]_vars
    PROVE  Begin \/ WorkerEnds \/ fire \/ Shutdown \/ Aside
<1>1. CASE Skip
      BY <1>1 DEF Skip, Aside
<1>2. CASE Launch
      BY <1>2 DEF Launch, Aside
<1>3. CASE EndEvent
      BY <1>3 DEF EndEvent, Aside
<1>4. CASE TimedOut
      BY <1>4 DEF TimedOut, Aside
<1>5. CASE Reaped
      BY <1>5 DEF Reaped, Aside
<1>6. CASE Finishes
      BY <1>6 DEF Finishes, Aside
<1>7. CASE Reload
      BY <1>7 DEF Reload, Aside
<1>8. CASE Exit
      BY <1>8 DEF Exit, Aside
<1>9. CASE Escapes \/ EscapeeEnds
      BY <1>9 DEF Escapes, EscapeeEnds, Aside
<1>10. CASE EditDirectory
      BY <1>10 DEF EditDirectory, Aside
<1>11. CASE Tick
      BY <1>11 DEF Tick, Aside
<1>12. CASE Ended \/ UNCHANGED vars
      BY <1>12 DEF Ended, vars, Aside
<1> QED
    BY <1>1, <1>2, <1>3, <1>4, <1>5, <1>6, <1>7, <1>8, <1>9, <1>10, <1>11,
       <1>12 DEF Next, Worker

\* The worker takes the first event of the queue, which is the first fired
\* one that is not begun.
LEMMA BeginTakesNext ==
    ASSUME QueueInv, Begin
    PROVE  /\ Len(begun) < Len(fired)
           /\ begun' = Append(begun, fired[Len(begun) + 1])
           /\ fired[Len(begun) + 1] \in Fired
<1>1. Head(queue) = queue[1] /\ Len(queue) \in Nat \ {0}
      BY DEF QueueInv, QueueTypeOK, Begin
<1>2. Len(begun) + 1 =< Len(fired)
      BY <1>1 DEF QueueInv, QueueTypeOK, Aligned, Begin
<1>3. queue[1] = fired[Len(begun) + 1]
      BY <1>1, <1>2 DEF QueueInv, Aligned
<1> QED BY <1>1, <1>2, <1>3 DEF QueueInv, QueueTypeOK, Begin

LEMMA QueueInvInit == Init => QueueInv
BY DEF Init, QueueInv, QueueTypeOK, Aligned

LEMMA QueueInvStep == QueueInv /\ [Next]_vars => QueueInv'
<1> SUFFICES ASSUME QueueInv, [Next]_vars PROVE QueueInv'
    OBVIOUS
<1>0. /\ Len(queue) \in Nat /\ Len(begun) \in Nat /\ Len(fired) \in Nat
      /\ QueueTypeOK /\ Aligned
      BY DEF QueueInv, QueueTypeOK
<1>1. CASE Begin
  <2>1. QueueTypeOK'
        BY <1>0, <1>1, BeginTakesNext DEF Begin, QueueTypeOK
  <2>2. Len(queue') = Len(queue) - 1 /\ Len(begun') = Len(begun) + 1
        BY <1>0, <1>1, BeginTakesNext DEF Begin, QueueTypeOK
  <2>3. \A i \in 1 .. Len(queue') : queue'[i] = queue[i + 1]
        BY <1>0, <1>1 DEF Begin, QueueTypeOK
  <2>4. UNCHANGED << fired, main >>
        BY <1>1 DEF Begin
  <2>5. ASSUME NEW i \in 1 .. Len(queue')
        PROVE  IF Len(begun') + i =< Len(fired')
               THEN queue'[i] = fired'[Len(begun') + i]
               ELSE queue'[i] = Sentinel
    <3>1. i + 1 \in 1 .. Len(queue) /\ Len(begun') + i = Len(begun) + (i + 1)
          BY <1>0, <2>2
    <3>2. IF Len(begun) + (i + 1) =< Len(fired)
          THEN queue[i + 1] = fired[Len(begun) + (i + 1)]
          ELSE queue[i + 1] = Sentinel
          BY <1>0, <3>1 DEF Aligned
    <3> QED BY <2>3, <2>4, <3>1, <3>2
  <2>6. /\ Len(begun') + Len(queue') \in {Len(fired'), Len(fired') + 1}
        /\ main' = "running" => Len(begun') + Len(queue') = Len(fired')
    <3>1. /\ Len(begun) + Len(queue) \in {Len(fired), Len(fired) + 1}
          /\ main = "running" => Len(begun) + Len(queue) = Len(fired)
          BY <1>0 DEF Aligned
    <3>2. Len(begun') + Len(queue') = Len(begun) + Len(queue)
          BY <1>0, <2>2
    <3> QED BY <2>4, <3>1, <3>2
  <2> QED BY <2>1, <2>5, <2>6 DEF Aligned, QueueInv
<1>2. CASE WorkerEnds
  <2>1. Head(queue) = queue[1] /\ Len(queue) \in Nat \ {0}
        BY <1>0, <1>2 DEF WorkerEnds, QueueTypeOK
  <2>2. \A i \in 1 .. Len(fired) : fired[i] # Sentinel
        BY <1>0, HookAssumption DEF Fired, QueueTypeOK
  <2>3. Len(begun) >= Len(fired)
    <3> SUFFICES ASSUME Len(begun) + 1 =< Len(fired) PROVE FALSE
        BY <1>0
    <3>1. queue[1] = fired[Len(begun) + 1]
          BY <1>0, <2>1 DEF Aligned
    <3> QED BY <1>0, <1>2, <2>1, <2>2, <3>1 DEF WorkerEnds
  <2>4. Len(queue) = 1 /\ Len(begun) = Len(fired)
    <3>1. \/ Len(begun) + Len(queue) = Len(fired)
          \/ Len(begun) + Len(queue) = Len(fired) + 1
          BY <1>0 DEF Aligned
    <3>2. Len(queue) >= 1
          BY <2>1
    <3> QED BY <1>0, <2>3, <3>1, <3>2
  <2>5. queue' = << >> /\ UNCHANGED << fired, begun, main >>
        BY <1>0, <1>2, <2>4 DEF WorkerEnds, QueueTypeOK
  <2> QED BY <1>0, <2>4, <2>5 DEF Aligned, QueueInv, QueueTypeOK
<1>3. CASE fire
  <2>1. PICK e \in Events : /\ queue' = Append(queue, e)
                            /\ fired' = Append(fired, e)
        BY <1>3 DEF fire, Enqueue
  <2>2. UNCHANGED << begun, main >> /\ main = "running"
        BY <1>3 DEF fire
  <2>3. QueueTypeOK'
        BY <1>0, <2>1, <2>2 DEF Fired, QueueTypeOK
  <2>4. Len(begun) + Len(queue) = Len(fired)
        BY <1>0, <2>2 DEF Aligned
  <2>5. \A i \in 1 .. Len(queue) : queue[i] = fired[Len(begun) + i]
        BY <1>0, <2>4 DEF Aligned
  <2>6. Len(queue') = Len(queue) + 1 /\ Len(fired') = Len(fired) + 1
        BY <1>0, <2>1 DEF QueueTypeOK
  <2>7. ASSUME NEW i \in 1 .. Len(queue')
        PROVE  /\ Len(begun) + i =< Len(fired')
               /\ queue'[i] = fired'[Len(begun) + i]
        BY <1>0, <2>1, <2>4, <2>5, <2>6 DEF QueueTypeOK
  <2> QED BY <1>0, <2>2, <2>3, <2>4, <2>6, <2>7 DEF Aligned, QueueInv
<1>4. CASE Shutdown
  <2>1. /\ queue' = queue \o << DaemonStop, Sentinel >>
        /\ fired' = Append(fired, DaemonStop)
        BY <1>4 DEF Shutdown, Farewell
  <2>2. begun' = begun /\ main = "running" /\ main' = "joining"
        BY <1>4 DEF Shutdown
  <2>3. QueueTypeOK'
        BY <1>0, <2>1, <2>2 DEF Fired, QueueTypeOK
  <2>4. Len(begun) + Len(queue) = Len(fired)
        BY <1>0, <2>2 DEF Aligned
  <2>5. \A i \in 1 .. Len(queue) : queue[i] = fired[Len(begun) + i]
        BY <1>0, <2>4 DEF Aligned
  <2>6. \A i \in 1 .. Len(queue) + 2 :
          queue'[i] = IF i =< Len(queue) THEN queue[i]
                      ELSE << DaemonStop, Sentinel >>[i - Len(queue)]
    <3>1. /\ queue \in Seq(Fired \cup {Sentinel})
          /\ << DaemonStop, Sentinel >> \in Seq(Fired \cup {Sentinel})
          BY <1>0 DEF QueueTypeOK, Fired
    <3>2. Len(<< DaemonStop, Sentinel >>) = 2
          OBVIOUS
    <3> HIDE DEF Fired
    <3> QED BY <2>1, <3>1, <3>2, ConcatProperties
  <2>7. Len(queue') = Len(queue) + 2 /\ Len(fired') = Len(fired) + 1
        BY <1>0, <2>1 DEF QueueTypeOK
  <2>8. /\ fired'[Len(fired) + 1] = DaemonStop
        /\ \A i \in 1 .. Len(fired) : fired'[i] = fired[i]
        BY <1>0, <2>1 DEF QueueTypeOK
  <2>9. ASSUME NEW i \in 1 .. Len(queue')
        PROVE  IF Len(begun) + i =< Len(fired')
               THEN queue'[i] = fired'[Len(begun) + i]
               ELSE queue'[i] = Sentinel
    <3>1. CASE i \in 1 .. Len(queue)
          BY <1>0, <2>4, <2>5, <2>6, <2>7, <2>8, <3>1
    <3>2. CASE i = Len(queue) + 1
          BY <1>0, <2>4, <2>6, <2>7, <2>8, <3>2
    <3>3. CASE i = Len(queue) + 2
          BY <1>0, <2>4, <2>6, <2>7, <3>3
    <3> QED BY <1>0, <2>7, <3>1, <3>2, <3>3
  <2>10. Len(begun') + Len(queue') = Len(fired') + 1
        BY <1>0, <2>2, <2>4, <2>7
  <2>11. Aligned'
        BY <2>2, <2>9, <2>10 DEF Aligned
  <2> QED BY <2>3, <2>11 DEF QueueInv
<1>5. CASE Aside
      BY <1>0, <1>5 DEF Aside, Aligned, QueueInv, QueueTypeOK
<1> QED BY <1>1, <1>2, <1>3, <1>4, <1>5, Steps

LEMMA QueueInvariant == Spec => []QueueInv
BY QueueInvInit, QueueInvStep, PTL DEF Spec

-----------------------------------------------------------------------------
\* Every fired event is handled at most once and in the order of firing, and
\* nothing else is handled; neither a reload nor a stopped daemon, neither a
\* hanging script nor an edited directory changes that.
\* (hooks.py fire, _worker, shutdown; daemon.py _cleanup)
THEOREM EventsInOrder == Spec => HandledInOrder
<1>1. Init => Log!Init
      BY DEF Init, Log!Init
<1>2. QueueInv /\ [Next]_vars => [Log!Next]_(Log!vars)
  <2> SUFFICES ASSUME QueueInv, [Next]_vars
               PROVE  Log!Next \/ UNCHANGED << fired, begun >>
      BY DEF Log!vars
  <2>1. CASE Begin
    <3>1. UNCHANGED fired
          BY <2>1 DEF Begin
    <3> QED BY <2>1, <3>1, BeginTakesNext DEF Log!Next, Log!Begin
  <2>2. CASE WorkerEnds
        BY <2>2 DEF WorkerEnds
  <2>3. CASE fire
        BY <2>3 DEF fire, Log!Next, Log!Fire
  <2>4. CASE Shutdown
        BY <2>4 DEF Shutdown, Log!Next, Log!Fire
  <2>5. CASE Aside
        BY <2>5 DEF Aside
  <2> QED BY <2>1, <2>2, <2>3, <2>4, <2>5, Steps
<1> QED BY <1>1, <1>2, QueueInvariant, PTL DEF Spec, HandledInOrder, Log!Spec

-----------------------------------------------------------------------------
\* The scripts of an event.

\* Entries of a directory have different names, and of two directories only
\* those that go by the same stem may share one.
LEMMA SurvivorsApart ==
    /\ IsFiniteSet(Survivors) /\ Survivors \subseteq Entries
    /\ \A s, t \in Survivors : Rank[s] = Rank[t] => s = t
    /\ \A s \in Survivors : s \in System => ~Shadowed(s)
<1>1. Survivors \subseteq Entries
  BY DEF Survivors, Present, Entries
<1>2. \A s \in Survivors : s \in System => s \notin User /\ ~Shadowed(s)
  BY HookAssumption DEF Survivors, Present
<1>3. \A s \in Survivors \cap User : s \in Present(User)
  BY HookAssumption DEF Survivors, Present
<1>4. ASSUME NEW s \in Survivors, NEW t \in Survivors, Rank[s] = Rank[t],
             s \in System, t \in User
      PROVE  FALSE
  <2>1. Stem[t] = Stem[s]
    BY <1>1, <1>4, HookAssumption
  <2>. QED
    BY <1>2, <1>3, <1>4, <2>1 DEF Shadowed
<1>5. \A s, t \in Survivors : Rank[s] = Rank[t] => s = t
  BY <1>1, <1>4, HookAssumption DEF Entries
<1>. QED
  BY <1>1, <1>2, <1>5, HookAssumption, FS_Subset

\* Entries of different rank can be sorted: the place of one is the number of
\* those that do not come after it.
LEMMA SortedWorks ==
    ASSUME NEW S \in SUBSET Entries, IsFiniteSet(S),
           \A s, t \in S : Rank[s] = Rank[t] => s = t
    PROVE  /\ Sorted(S) \in [1 .. Cardinality(S) -> S]
           /\ InFilenameOrder(Sorted(S))
<1>. DEFINE n == Cardinality(S)
            UpTo(s) == {t \in S : Rank[t] =< Rank[s]}
            place == [s \in S |-> Cardinality(UpTo(s))]
<1>1. n \in Nat /\ \A s \in S : Rank[s] \in Nat
  BY HookAssumption, FS_CardinalityType
<1>2. \A s \in S : IsFiniteSet(UpTo(s)) /\ Cardinality(UpTo(s)) \in 1 .. n
  <2>. SUFFICES ASSUME NEW s \in S
                PROVE  IsFiniteSet(UpTo(s)) /\ Cardinality(UpTo(s)) \in 1 .. n
    OBVIOUS
  <2>1. s \in UpTo(s) /\ UpTo(s) \in SUBSET S
    BY <1>1
  <2>2. IsFiniteSet(UpTo(s)) /\ Cardinality(UpTo(s)) =< n
    BY <2>1, FS_Subset
  <2>3. Cardinality(UpTo(s)) \in Nat /\ Cardinality(UpTo(s)) # 0
    BY <2>1, <2>2, FS_CardinalityType, FS_EmptySet
  <2>. QED
    BY <1>1, <2>2, <2>3
<1>3. ASSUME NEW s \in S, NEW t \in S, Rank[s] < Rank[t]
      PROVE  place[s] < place[t]
  <2>1. UpTo(s) \in SUBSET UpTo(t) /\ t \in UpTo(t) /\ t \notin UpTo(s)
    BY <1>1, <1>3
  <2>2. /\ Cardinality(UpTo(s)) =< Cardinality(UpTo(t))
        /\ Cardinality(UpTo(s)) # Cardinality(UpTo(t))
    BY <1>2, <2>1, FS_Subset
  <2>3. Cardinality(UpTo(s)) \in Nat /\ Cardinality(UpTo(t)) \in Nat
    BY <1>2, FS_CardinalityType
  <2>. QED
    BY <2>2, <2>3
<1>4. place \in [S -> 1 .. n]
  BY <1>2
<1>. HIDE DEF place
<1>5. \A s, t \in S : place[s] = place[t] => s = t
  BY <1>1, <1>3, <1>4
<1>6. place \in Injection(S, 1 .. n)
  BY <1>4, <1>5 DEF Injection, IsInjective
<1>7. IsFiniteSet(1 .. n) /\ Cardinality(1 .. n) = n
  BY <1>1, FS_Interval
<1>8. place \in Surjection(S, 1 .. n)
  BY <1>6, <1>7, FS_Injection
<1>. DEFINE q == [i \in 1 .. n |-> CHOOSE s \in S : place[s] = i]
<1>9. \A i \in 1 .. n : q[i] \in S /\ place[q[i]] = i
  BY <1>8 DEF Surjection
<1>10. q \in [1 .. n -> S] /\ DOMAIN q = 1 .. n
  BY <1>9
<1>. HIDE DEF q
<1>11. InFilenameOrder(q)
  <2>. SUFFICES ASSUME NEW i \in 1 .. n, NEW j \in 1 .. n, i < j
                PROVE  Rank[q[i]] < Rank[q[j]]
    BY <1>10 DEF InFilenameOrder
  <2>1. Rank[q[i]] # Rank[q[j]]
    BY <1>9
  <2>2. ~(Rank[q[j]] < Rank[q[i]])
    BY <1>1, <1>3, <1>9
  <2>. QED
    BY <1>1, <1>9, <2>1, <2>2
<1>. QED
  BY <1>10, <1>11 DEF Sorted

LEMMA ResolvedInOrder ==
    LET q == resolve_hook_scripts
    IN  /\ q \in Seq(Entries) /\ InFilenameOrder(q)
        /\ Len(q) =< Cardinality(Entries)
        /\ \A i \in 1 .. Len(q) : q[i] \in Survivors
<1>. DEFINE q == resolve_hook_scripts
            n == Cardinality(Survivors)
<1>1. q \in [1 .. n -> Survivors] /\ InFilenameOrder(q)
  BY SurvivorsApart, SortedWorks DEF resolve_hook_scripts
<1>2. n \in Nat /\ n =< Cardinality(Entries)
  BY SurvivorsApart, HookAssumption, FS_Subset, FS_CardinalityType
<1>. HIDE DEF q, n
<1>3. q \in Seq(Survivors) /\ Len(q) = n
  BY <1>1, <1>2
<1>4. q \in Seq(Entries)
  BY <1>3, SurvivorsApart
<1>. QED
  BY <1>1, <1>2, <1>3, <1>4 DEF q

NotDisabled(s) == s \in System => \A u \in kept : Stem[u] # Stem[s]

\* What the event has run and what it will run are in order and allowed.
ScriptInv ==
    /\ ran \in Seq(Entries) /\ rest \in Seq(Entries)
    /\ InFilenameOrder(ran) /\ InFilenameOrder(rest)
    /\ \A i \in 1 .. Len(ran), j \in 1 .. Len(rest) :
         Rank[ran[i]] < Rank[rest[j]]
    /\ \A i \in 1 .. Len(ran) : NotDisabled(ran[i])
    /\ \A i \in 1 .. Len(rest) : NotDisabled(rest[i])

\* Taking the next script away, and possibly starting it, keeps the order.
LEMMA TakeScript ==
    ASSUME ScriptInv, rest # << >>, rest' = Tail(rest), UNCHANGED kept,
           ran' \in {ran, Append(ran, Head(rest))}
    PROVE  ScriptInv'
<1>1. /\ ran \in Seq(Entries) /\ rest \in Seq(Entries)
      /\ Len(ran) \in Nat /\ Len(rest) \in Nat \ {0}
      /\ Head(rest) = rest[1] /\ rest[1] \in Entries
  BY DEF ScriptInv
<1>2. /\ rest' \in Seq(Entries) /\ Len(rest') = Len(rest) - 1
      /\ \A i \in 1 .. Len(rest') : rest'[i] = rest[i + 1]
  BY <1>1
<1>3. \/ ran' = ran
      \/ /\ Len(ran') = Len(ran) + 1
         /\ ran' \in Seq(Entries)
         /\ \A i \in 1 .. Len(ran) : ran'[i] = ran[i]
         /\ ran'[Len(ran) + 1] = rest[1]
  <2>. DEFINE s == rest[1]
  <2>1. s \in Entries /\ ran' \in {ran, Append(ran, s)}
    BY <1>1
  <2>. HIDE DEF s
  <2>2. CASE ran' = Append(ran, s)
    BY <1>1, <2>1, <2>2, AppendProperties DEF s
  <2>. QED
    BY <2>1, <2>2
<1>4. ran' \in Seq(Entries)
  BY <1>1, <1>3
<1>5. /\ DOMAIN ran = 1 .. Len(ran) /\ DOMAIN rest = 1 .. Len(rest)
      /\ DOMAIN ran' = 1 .. Len(ran') /\ DOMAIN rest' = 1 .. Len(rest')
  BY <1>1, <1>2, <1>4
<1>6. /\ \A i, j \in 1 .. Len(rest) : i < j => Rank[rest[i]] < Rank[rest[j]]
      /\ \A i, j \in 1 .. Len(ran) : i < j => Rank[ran[i]] < Rank[ran[j]]
  BY <1>5 DEF ScriptInv, InFilenameOrder
<1>7. InFilenameOrder(rest)'
  <2>. SUFFICES ASSUME NEW i \in 1 .. Len(rest'), NEW j \in 1 .. Len(rest'),
                       i < j
                PROVE  Rank[rest'[i]] < Rank[rest'[j]]
    BY <1>5 DEF InFilenameOrder
  <2>1. i + 1 \in 1 .. Len(rest) /\ j + 1 \in 1 .. Len(rest) /\ i + 1 < j + 1
    BY <1>1, <1>2
  <2>. QED
    BY <1>2, <1>6, <2>1
<1>8. ASSUME NEW j \in 2 .. Len(rest)
      PROVE  Rank[rest[1]] < Rank[rest[j]]
  BY <1>1, <1>6
<1>9. InFilenameOrder(ran)'
  <2>. SUFFICES ASSUME NEW i \in 1 .. Len(ran'), NEW j \in 1 .. Len(ran'),
                       i < j
                PROVE  Rank[ran'[i]] < Rank[ran'[j]]
    BY <1>5 DEF InFilenameOrder
  <2>1. i \in 1 .. Len(ran) /\ ran'[i] = ran[i]
    BY <1>1, <1>3
  <2>2. CASE j \in 1 .. Len(ran)
    BY <1>1, <1>3, <1>6, <2>1, <2>2
  <2>3. CASE j = Len(ran) + 1 /\ ran'[j] = rest[1]
    BY <1>1, <2>1, <2>3 DEF ScriptInv
  <2>. QED
    BY <1>1, <1>3, <2>2, <2>3
<1>10. \A i \in 1 .. Len(ran'), j \in 1 .. Len(rest') :
        Rank[ran'[i]] < Rank[rest'[j]]
  <2>. SUFFICES ASSUME NEW i \in 1 .. Len(ran'), NEW j \in 1 .. Len(rest')
                PROVE  Rank[ran'[i]] < Rank[rest'[j]]
    OBVIOUS
  <2>1. j + 1 \in 2 .. Len(rest) /\ rest'[j] = rest[j + 1]
    BY <1>1, <1>2
  <2>2. CASE i \in 1 .. Len(ran) /\ ran'[i] = ran[i]
    BY <2>1, <2>2 DEF ScriptInv
  <2>3. CASE ran'[i] = rest[1]
    BY <1>8, <2>1, <2>3
  <2>. QED
    BY <1>1, <1>3, <2>2, <2>3
<1>11. /\ \A i \in 1 .. Len(ran') : NotDisabled(ran'[i])
       /\ \A i \in 1 .. Len(rest') : NotDisabled(rest'[i])
  <2>1. \A i \in 1 .. Len(rest) : NotDisabled(rest[i])
    BY DEF ScriptInv
  <2>2. \A i \in 1 .. Len(ran) : NotDisabled(ran[i])
    BY DEF ScriptInv
  <2>3. ASSUME NEW i \in 1 .. Len(rest')
        PROVE  NotDisabled(rest'[i])
    BY <1>1, <1>2, <2>1
  <2>4. ASSUME NEW i \in 1 .. Len(ran')
        PROVE  NotDisabled(ran'[i])
    BY <1>1, <1>3, <2>1, <2>2
  <2>. QED
    BY <2>3, <2>4
<1>. QED
  BY <1>2, <1>4, <1>7, <1>9, <1>10, <1>11 DEF ScriptInv, NotDisabled

LEMMA ScriptInvInit == Init => ScriptInv
BY DEF Init, ScriptInv, InFilenameOrder

LEMMA ScriptInvStep == ScriptInv /\ [Next]_vars => ScriptInv'
<1>. SUFFICES ASSUME ScriptInv, [Next]_vars PROVE ScriptInv'
  OBVIOUS
<1>1. CASE Begin
  <2>1. ran' = << >> /\ rest' = resolve_hook_scripts /\ kept' = Present(User)
    BY <1>1 DEF Begin
  <2>2. \A s \in Survivors : NotDisabled(s)'
    BY <2>1, SurvivorsApart DEF NotDisabled, Shadowed
  <2>3. /\ rest' \in Seq(Entries) /\ InFilenameOrder(rest)'
        /\ \A i \in 1 .. Len(rest') : rest'[i] \in Survivors
    BY <2>1, ResolvedInOrder DEF InFilenameOrder
  <2>4. ran' \in Seq(Entries) /\ Len(ran') = 0 /\ InFilenameOrder(ran)'
    BY <2>1 DEF InFilenameOrder
  <2>5. \A i \in 1 .. Len(rest') : NotDisabled(rest[i])'
    BY <2>2, <2>3 DEF NotDisabled
  <2>6. \A i \in 1 .. Len(ran') : FALSE
    BY <2>4
  <2>. QED
    BY <2>3, <2>4, <2>5, <2>6 DEF ScriptInv
<1>2. CASE Skip
  BY <1>2, TakeScript DEF Skip
<1>3. CASE Launch
  BY <1>3, TakeScript DEF Launch
<1>4. CASE EndEvent
  BY <1>4 DEF EndEvent, ScriptInv, InFilenameOrder
<1>5. CASE EditDirectory
  <2>1. kept' \subseteq kept /\ UNCHANGED << ran, rest >>
    BY <1>5 DEF EditDirectory
  <2>. QED
    BY <2>1 DEF ScriptInv, InFilenameOrder, NotDisabled
<1>6. CASE UNCHANGED << ran, rest, kept >>
  BY <1>6 DEF ScriptInv, InFilenameOrder, NotDisabled
<1>7. \/ Begin \/ Skip \/ Launch \/ EndEvent \/ EditDirectory
      \/ UNCHANGED << ran, rest, kept >>
  BY DEF Next, Worker, WorkerEnds, TimedOut, Reaped, Finishes, fire, Reload,
     Shutdown, Exit, Escapes, EscapeeEnds, Tick, Ended, vars
<1>. QED
  BY <1>1, <1>2, <1>3, <1>4, <1>5, <1>6, <1>7

LEMMA ScriptInvariant == Spec => []ScriptInv
BY ScriptInvInit, ScriptInvStep, PTL DEF Spec

\* The scripts of an event start in the order of their file names, whichever
\* directory they come from, whichever of them fail, and whatever the
\* administrator changes while they run.
\* (hooks.py resolve_hook_scripts, _run_one)
THEOREM ScriptsInOrder == Spec => []InNameOrder
<1>1. ScriptInv => InNameOrder
  BY DEF ScriptInv, InNameOrder
<1>. QED
  BY <1>1, ScriptInvariant, PTL

\* A system script does not run in an event throughout which the
\* administrator's directory had an entry of its stem, executable or not.
\* (hooks.py resolve_hook_scripts)
THEOREM PlaceholdersDisable == Spec => []DisabledStaysOff
<1>1. ScriptInv => DisabledStaysOff
  BY DEF ScriptInv, DisabledStaysOff, NotDisabled, ToSet
<1>. QED
  BY <1>1, ScriptInvariant, PTL

-----------------------------------------------------------------------------
\* The end of the daemon.

TimeTypes ==
    /\ timeout \in Nat /\ limit \in Nat /\ elapsed \in Nat
    /\ waited \in Nat /\ joinLimit \in Nat /\ owed \in Nat
    /\ worker \in {"idle", "busy", "gone"}
    /\ main \in {"running", "joining", "exited"}
    /\ held \in BOOLEAN

\* What was begun is the beginning of what was fired.
Begun ==
    /\ Len(begun) =< Len(fired)
    /\ \A i \in 1 .. Len(begun) : begun[i] = fired[i]

\* The worker outlives the main loop but not the process, and it ends early
\* only if it has come to the sentinel.
Phases ==
    /\ proc # "none" => worker = "busy"
    /\ proc = "running" => elapsed =< limit
    /\ main = "running" => worker # "gone"
    /\ main = "exited" => worker = "gone"
    /\ main = "joining" =>
         /\ joinLimit = timeout
         /\ IF worker = "gone" THEN begun = fired
            ELSE Len(begun) + Len(queue) = Len(fired) + 1

\* The longest the running event can take from here.
Left == (IF proc = "running" THEN limit - elapsed ELSE 0)
        + (IF worker = "busy" THEN Len(rest) * limit ELSE 0)

Each == Cardinality(Entries) * timeout

\* While the worker is still to come to daemon-stop, the join has waited for
\* no longer than what the worker has done since makes up for.
Budget ==
    main = "joining" /\ owed < joinLimit =>
      /\ ~held
      /\ Len(queue) >= 2 => waited + Left + (Len(queue) - 2) * Each =< owed

DrainInv ==
    QueueInv /\ ScriptInv /\ TimeTypes /\ Begun /\ Phases /\ Budget

LEMMA Products ==
    ASSUME NEW a \in Nat, NEW b \in Nat
    PROVE  /\ a * b \in Nat
           /\ (a + 1) * b = a * b + b
           /\ \A c \in Nat : c =< a => c * b =< a * b
<1>1. a * b \in Nat /\ (a + 1) * b = a * b + b
  OBVIOUS
<1>2. ASSUME NEW c \in Nat, c =< a
      PROVE  c * b =< a * b
  <2>1. a - c \in Nat /\ a = c + (a - c)
    BY <1>2
  <2>2. (a - c) * b \in Nat
    BY <2>1
  <2>3. a * b = c * b + (a - c) * b
    BY <2>1
  <2>. QED
    BY <2>2, <2>3
<1>. QED
  BY <1>1, <1>2

LEMMA LeftIsNat == ScriptInv /\ TimeTypes /\ Phases => Left \in Nat
<1>. SUFFICES ASSUME ScriptInv, TimeTypes, Phases PROVE Left \in Nat
  OBVIOUS
<1>. DEFINE r == Len(rest) * limit
<1>1. r \in Nat
  BY Products DEF ScriptInv, TimeTypes
<1>. HIDE DEF r
<1>2. Left = (IF proc = "running" THEN limit - elapsed ELSE 0)
             + (IF worker = "busy" THEN r ELSE 0)
  BY DEF Left, r
<1>. QED
  BY <1>1, <1>2 DEF TimeTypes, Phases

LEMMA Lengths ==
    ASSUME DrainInv
    PROVE  /\ Len(queue) \in Nat /\ Len(rest) \in Nat
           /\ Len(begun) \in Nat /\ Len(fired) \in Nat
           /\ Each \in Nat /\ Left \in Nat
           /\ Len(rest) * limit \in Nat
<1>1. /\ Len(queue) \in Nat /\ Len(rest) \in Nat
      /\ Len(begun) \in Nat /\ Len(fired) \in Nat
  BY DEF DrainInv, QueueInv, QueueTypeOK, ScriptInv
<1>2. Cardinality(Entries) \in Nat
  BY HookAssumption, FS_CardinalityType
<1>3. Each \in Nat /\ Len(rest) * limit \in Nat
  BY <1>1, <1>2, Products DEF Each, DrainInv, TimeTypes
<1>4. Left \in Nat
  BY LeftIsNat DEF DrainInv
<1>. QED
  BY <1>1, <1>3, <1>4

\* The worker finds the sentinel only when it has begun all that was fired.
LEMMA SentinelIsLast ==
    ASSUME QueueInv, Begun, WorkerEnds
    PROVE  begun = fired
<1>1. /\ Len(begun) \in Nat /\ Len(fired) \in Nat
      /\ begun \in Seq(Fired) /\ fired \in Seq(Fired)
      /\ Len(queue) \in Nat \ {0} /\ queue[1] = Sentinel
  BY DEF QueueInv, QueueTypeOK, WorkerEnds
<1>2. \A i \in 1 .. Len(fired) : fired[i] # Sentinel
  BY <1>1, HookAssumption DEF Fired
<1>3. ~(Len(begun) + 1 =< Len(fired))
  <2>. SUFFICES ASSUME Len(begun) + 1 =< Len(fired) PROVE FALSE
    OBVIOUS
  <2>1. queue[1] = fired[Len(begun) + 1]
    BY <1>1 DEF QueueInv, Aligned
  <2>. QED
    BY <1>1, <1>2, <2>1
<1>. QED
  BY <1>1, <1>3 DEF Begun

LEMMA BegunStep ==
    ASSUME DrainInv, [Next]_vars
    PROVE  Begun'
<1>1. /\ begun \in Seq(Fired) /\ fired \in Seq(Fired)
      /\ Len(begun) \in Nat /\ Len(fired) \in Nat
      /\ Begun
  BY Lengths DEF DrainInv, QueueInv, QueueTypeOK
<1>2. CASE Begin
  <2>. DEFINE e == fired[Len(begun) + 1]
  <2>1. /\ Len(begun) < Len(fired) /\ begun' = Append(begun, e)
        /\ e \in Fired /\ fired' = fired
    BY <1>2, BeginTakesNext DEF DrainInv, Begin
  <2>. HIDE DEF e
  <2>2. /\ Len(begun') = Len(begun) + 1
        /\ \A i \in 1 .. Len(begun) : begun'[i] = begun[i]
        /\ begun'[Len(begun) + 1] = e
    BY <1>1, <2>1, AppendProperties
  <2>. QED
    BY <1>1, <2>1, <2>2 DEF Begun, e
<1>3. ASSUME NEW e \in Fired, fired' = Append(fired, e), begun' = begun
      PROVE  Begun'
  <2>1. /\ Len(fired') = Len(fired) + 1
        /\ \A i \in 1 .. Len(fired) : fired'[i] = fired[i]
    BY <1>1, <1>3, AppendProperties
  <2>. QED
    BY <1>1, <1>3, <2>1 DEF Begun
<1>4. CASE UNCHANGED << begun, fired >>
  BY <1>1, <1>4 DEF Begun
<1>. QED
  BY <1>2, <1>3, <1>4, Steps
     DEF Aside, WorkerEnds, fire, Shutdown, Fired

LEMMA OwedIsLeft ==
    ASSUME DrainInv
    PROVE  Owed = IF held THEN timeout ELSE Left + Len(queue) * Each
<1>. DEFINE k == Cardinality(Entries)
            n == Len(queue)
<1>1. k \in Nat /\ n \in Nat /\ timeout \in Nat
  BY Lengths, HookAssumption, FS_CardinalityType DEF DrainInv, TimeTypes
<1>. HIDE DEF k, n
<1>2. n * k * timeout = n * (k * timeout)
  BY <1>1
<1>. QED
  BY <1>2 DEF Owed, Left, Each, k, n

LEMMA TimeTypesStep ==
    ASSUME DrainInv, [Next]_vars
    PROVE  TimeTypes'
<1>1. TimeTypes /\ Phases
  BY DEF DrainInv
<1>2. CASE Begin \/ WorkerEnds \/ Skip \/ Launch \/ EndEvent
  BY <1>1, <1>2 DEF Begin, WorkerEnds, Skip, Launch, EndEvent, TimeTypes
<1>3. CASE TimedOut \/ Reaped \/ Finishes \/ fire \/ Exit
  BY <1>1, <1>3 DEF TimedOut, Reaped, Finishes, fire, Exit, TimeTypes
<1>4. CASE Reload
  BY <1>1, <1>4, HookAssumption DEF Reload, TimeTypes
<1>5. CASE Shutdown
  <2>1. Len(queue) * Each \in Nat /\ Left \in Nat
    BY Lengths, Products
  <2>2. Owed \in Nat
    BY <1>1, <2>1, OwedIsLeft DEF TimeTypes
  <2>. QED
    BY <1>1, <1>5, <2>2 DEF Shutdown, TimeTypes
<1>6. CASE Escapes \/ EscapeeEnds \/ EditDirectory \/ Ended \/ UNCHANGED vars
  BY <1>1, <1>6
     DEF Escapes, EscapeeEnds, EditDirectory, Ended, vars, TimeTypes
<1>7. CASE Tick
  BY <1>1, <1>7 DEF Tick, TimeTypes
<1>. QED
  BY <1>2, <1>3, <1>4, <1>5, <1>6, <1>7 DEF Next, Worker

LEMMA PhasesStep ==
    ASSUME DrainInv, [Next]_vars
    PROVE  Phases'
<1>1. /\ TimeTypes /\ Phases
      /\ Len(queue) \in Nat /\ Len(begun) \in Nat /\ Len(fired) \in Nat
  BY Lengths DEF DrainInv
<1>2. CASE Begin
  <2>1. Len(queue') = Len(queue) - 1 /\ Len(begun') = Len(begun) + 1
    <3>1. /\ queue \in Seq(Fired \cup {Sentinel}) /\ begun \in Seq(Fired)
          /\ queue # << >> /\ queue' = Tail(queue)
      BY <1>2 DEF Begin, DrainInv, QueueInv, QueueTypeOK
    <3>2. begun' = Append(begun, fired[Len(begun) + 1])
          /\ fired[Len(begun) + 1] \in Fired
      BY <1>2, BeginTakesNext DEF DrainInv
    <3>. QED
      BY <3>1, <3>2, AppendProperties, HeadTailProperties
  <2>. QED
    BY <1>1, <1>2, <2>1 DEF Begin, Phases, TimeTypes
<1>3. CASE WorkerEnds
  <2>1. begun = fired
    BY <1>3, SentinelIsLast DEF DrainInv
  <2>2. Len(queue) # 0
    BY <1>3 DEF WorkerEnds, DrainInv, QueueInv, QueueTypeOK
  <2>3. main # "running"
    BY <1>1, <2>1, <2>2 DEF DrainInv, QueueInv, Aligned
  <2>. QED
    BY <1>1, <1>3, <2>1, <2>3 DEF WorkerEnds, Phases
<1>4. CASE Skip \/ Launch \/ EndEvent \/ TimedOut \/ Reaped \/ Finishes
  BY <1>1, <1>4
     DEF Skip, Launch, EndEvent, TimedOut, Reaped, Finishes, Phases, TimeTypes
<1>5. CASE fire \/ Reload
  BY <1>1, <1>5 DEF fire, Reload, Phases
<1>6. CASE Shutdown
  <2>1. Len(begun) + Len(queue) = Len(fired)
    BY <1>1, <1>6 DEF Shutdown, DrainInv, QueueInv, Aligned
  <2>2. Len(fired') = Len(fired) + 1 /\ Len(queue') = Len(queue) + 2
    <3>1. /\ fired \in Seq(Fired) /\ DaemonStop \in Fired
          /\ fired' = Append(fired, DaemonStop)
      BY <1>6 DEF Shutdown, DrainInv, QueueInv, QueueTypeOK, Fired
    <3>2. /\ queue \in Seq(Fired \cup {Sentinel})
          /\ << DaemonStop, Sentinel >> \in Seq(Fired \cup {Sentinel})
          /\ queue' = queue \o << DaemonStop, Sentinel >>
      BY <1>6 DEF Shutdown, Farewell, DrainInv, QueueInv, QueueTypeOK, Fired
    <3>3. Len(<< DaemonStop, Sentinel >>) = 2
      OBVIOUS
    <3>4. Len(fired') = Len(fired) + 1
      BY <3>1, AppendProperties
    <3>. HIDE DEF Fired
    <3>5. Len(queue') = Len(queue) + 2
      BY <3>2, <3>3, ConcatProperties
    <3>. QED
      BY <3>4, <3>5
  <2>. QED
    BY <1>1, <1>6, <2>1, <2>2 DEF Shutdown, Phases
<1>7. CASE Exit
  BY <1>1, <1>7 DEF Exit, Phases
<1>8. CASE Escapes \/ EscapeeEnds \/ EditDirectory \/ Ended \/ UNCHANGED vars
  BY <1>1, <1>8 DEF Escapes, EscapeeEnds, EditDirectory, Ended, vars, Phases
<1>9. CASE Tick
  BY <1>1, <1>9 DEF Tick, Waiting, Phases, TimeTypes
<1>. QED
  BY <1>2, <1>3, <1>4, <1>5, <1>6, <1>7, <1>8, <1>9 DEF Next, Worker

\* What is left never grows by the worker's own steps, and a tick of waiting
\* for a script takes one off it.
LEMMA LeftShrinks ==
    ASSUME DrainInv, main = "joining", [Next]_vars,
           UNCHANGED << main, held >>, ~held
    PROVE  \/ /\ UNCHANGED << queue, waited >>
              /\ Left' =< Left
           \/ /\ queue' = Tail(queue) /\ queue # << >>
              /\ UNCHANGED waited
              /\ Left' =< Left + Each
           \/ /\ Tick /\ UNCHANGED queue
              /\ worker = "gone" \/ queue = << >> \/ Left' = Left - 1
<1>. DEFINE r == Len(rest) * limit
            p == IF proc = "running" THEN limit - elapsed ELSE 0
<1>1. /\ TimeTypes /\ Phases
      /\ Left \in Nat /\ Each \in Nat /\ Len(rest) \in Nat /\ r \in Nat
  BY Lengths DEF DrainInv
<1>2. Left = p + (IF worker = "busy" THEN r ELSE 0)
  BY DEF Left
<1>3. CASE Begin
  <2>1. worker = "idle" /\ proc = "none" /\ Left = 0
    BY <1>1, <1>2, <1>3 DEF Begin, Phases
  <2>2. Len(rest') =< Cardinality(Entries) /\ Len(rest') \in Nat
    BY <1>3, ResolvedInOrder DEF Begin
  <2>3. Len(rest') * timeout =< Cardinality(Entries) * timeout
    BY <1>1, <2>2, HookAssumption, FS_CardinalityType, Products DEF TimeTypes
  <2>4. Left' = 0 + Len(rest') * timeout
    BY <1>3, <2>1 DEF Begin, Left
  <2>5. Left' =< Each
    BY <1>1, <2>2, <2>3, <2>4, Products DEF Each, TimeTypes
  <2>. QED
    BY <1>1, <1>3, <2>1, <2>5 DEF Begin
<1>4. ASSUME rest # << >>, rest' = Tail(rest), UNCHANGED limit
      PROVE  r = Len(rest') * limit' + limit /\ Len(rest') * limit' \in Nat
  <2>1. Len(rest') \in Nat /\ Len(rest) = Len(rest') + 1
    BY <1>4, HeadTailProperties DEF DrainInv, ScriptInv
  <2>. QED
    BY <1>1, <1>4, <2>1, Products DEF TimeTypes
<1>5. CASE Skip
  <2>. DEFINE s == Len(rest') * limit'
  <2>1. r = s + limit /\ s \in Nat
    BY <1>4, <1>5 DEF Skip
  <2>2. Left = r /\ Left' = 0 + s
    BY <1>1, <1>2, <1>5 DEF Skip, Left
  <2>. HIDE DEF s, r
  <2>. QED
    BY <1>1, <1>5, <2>1, <2>2 DEF Skip, TimeTypes
<1>6. CASE Launch
  <2>. DEFINE s == Len(rest') * limit'
  <2>1. r = s + limit /\ s \in Nat
    BY <1>4, <1>6 DEF Launch
  <2>2. Left = r /\ Left' = (limit - 0) + s
    BY <1>1, <1>2, <1>6 DEF Launch, Left
  <2>. HIDE DEF s, r
  <2>. QED
    BY <1>1, <1>6, <2>1, <2>2 DEF Launch, TimeTypes
<1>7. CASE EndEvent
  <2>1. Left' = 0
    BY <1>1, <1>7 DEF EndEvent, Left
  <2>. QED
    BY <1>1, <1>7, <2>1 DEF EndEvent
<1>8. CASE TimedOut \/ Reaped \/ Finishes
  <2>1. /\ UNCHANGED << rest, limit, worker, queue, waited >>
        /\ proc # "none" /\ proc' # "running"
    BY <1>8 DEF TimedOut, Reaped, Finishes
  <2>2. Left' = 0 + (IF worker = "busy" THEN r ELSE 0)
    BY <2>1 DEF Left
  <2>. HIDE DEF r
  <2>3. p \in Nat
    BY <1>1 DEF TimeTypes, Phases
  <2>. HIDE DEF p
  <2>. QED
    BY <1>1, <1>2, <2>1, <2>2, <2>3
<1>9. CASE Tick
  <2>1. UNCHANGED << queue, rest, limit, worker, proc >>
    BY <1>9 DEF Tick
  <2>2. CASE proc = "running" /\ elapsed < limit
    <3>1. elapsed' = elapsed + 1
      BY <1>1, <1>9, <2>2 DEF Tick, TimeTypes
    <3>2. Left' = (limit - (elapsed + 1)) + (IF worker = "busy" THEN r ELSE 0)
      BY <2>1, <2>2, <3>1 DEF Left
    <3>. HIDE DEF r
    <3>. QED
      BY <1>1, <1>2, <1>9, <2>1, <2>2, <3>2 DEF TimeTypes
  <2>3. CASE worker = "gone" \/ queue = << >>
    BY <1>9, <2>1, <2>3
  <2>. QED
    BY <1>9, <2>2, <2>3 DEF Tick, Waiting
<1>10. CASE \/ WorkerEnds \/ Escapes \/ EscapeeEnds \/ EditDirectory \/ Ended
            \/ UNCHANGED vars \/ fire \/ Reload \/ Shutdown \/ Exit
  <2>1. CASE WorkerEnds
    <3>1. worker = "idle" /\ UNCHANGED << proc, limit, elapsed, waited >>
          /\ worker' = "gone" /\ queue' = Tail(queue) /\ queue # << >>
      BY <2>1 DEF WorkerEnds
    <3>2. Left' = 0
      BY <1>1, <3>1 DEF Left, Phases
    <3>. QED
      BY <1>1, <3>1, <3>2
  <2>2. CASE EditDirectory \/ Ended \/ UNCHANGED vars
    <3>1. /\ UNCHANGED << proc, limit, elapsed, worker, rest, queue, waited >>
      BY <2>2 DEF EditDirectory, Ended, vars
    <3>2. Left' = Left
      BY <3>1 DEF Left
    <3>. QED
      BY <1>1, <3>1, <3>2
  <2>. QED
    BY <1>10, <2>1, <2>2 DEF Escapes, EscapeeEnds, fire, Reload, Shutdown, Exit
<1>. QED
  BY <1>3, <1>5, <1>6, <1>7, <1>8, <1>9, <1>10 DEF Next, Worker

LEMMA StaysWithin ==
    ASSUME NEW w \in Nat, NEW x \in Nat, NEW y \in Nat, NEW a \in Nat,
           NEW e \in Nat, NEW o \in Nat, w + x + (a + e) =< o, y =< x + e
    PROVE  w + y + a =< o
OBVIOUS

LEMMA BudgetStep ==
    ASSUME DrainInv, [Next]_vars
    PROVE  Budget'
<1>. SUFFICES ASSUME main' = "joining", owed' < joinLimit'
              PROVE  /\ ~held'
                     /\ Len(queue') >= 2 =>
                          waited' + Left' + (Len(queue') - 2) * Each' =< owed'
  BY DEF Budget
<1>1. /\ TimeTypes /\ Phases /\ Budget
      /\ Len(queue) \in Nat /\ Left \in Nat /\ Each \in Nat
      /\ Len(begun) \in Nat /\ Len(fired) \in Nat
      /\ queue \in Seq(Fired \cup {Sentinel})
  BY Lengths DEF DrainInv, QueueInv, QueueTypeOK
<1>2. CASE Shutdown
  <2>1. /\ owed' = Owed /\ joinLimit' = timeout /\ waited' = 0
        /\ UNCHANGED << held, proc, limit, elapsed, worker, rest, timeout >>
    BY <1>2 DEF Shutdown
  <2>2. ~held
    BY <1>1, <2>1, OwedIsLeft DEF TimeTypes
  <2>3. Left' = Left /\ Each' = Each
    BY <2>1 DEF Left, Each
  <2>4. Len(queue') = Len(queue) + 2
    <3>1. /\ << DaemonStop, Sentinel >> \in Seq(Fired \cup {Sentinel})
          /\ queue' = queue \o << DaemonStop, Sentinel >>
      BY <1>2 DEF Shutdown, Farewell, Fired
    <3>2. Len(<< DaemonStop, Sentinel >>) = 2
      OBVIOUS
    <3>. HIDE DEF Fired
    <3>. QED
      BY <1>1, <3>1, <3>2, ConcatProperties
  <2>5. Len(queue) * Each \in Nat /\ Len(queue') - 2 = Len(queue)
    BY <1>1, <2>4, Products
  <2>6. owed' = Left + Len(queue) * Each
    BY <2>1, <2>2, OwedIsLeft
  <2>7. waited' + Left' + (Len(queue') - 2) * Each' = 0 + Left + Len(queue) * Each
    BY <2>1, <2>3, <2>5
  <2>. DEFINE a == Len(queue) * Each
  <2>. HIDE DEF a
  <2>8. waited' + Left' + (Len(queue') - 2) * Each' = 0 + Left + a /\ owed' = Left + a
        /\ a \in Nat
    BY <2>5, <2>6, <2>7 DEF a
  <2>. QED
    BY <1>1, <2>1, <2>2, <2>8
<1>3. CASE Escapes
  BY <1>1, <1>3 DEF Escapes, TimeTypes
<1>4. CASE ~Shutdown /\ ~Escapes
  <2>1. UNCHANGED << joinLimit, owed >> /\ (held' => held)
    BY <1>4 DEF Next, Worker, Begin, WorkerEnds, Skip, Launch, EndEvent,
       TimedOut, Reaped, Finishes, fire, Reload, Exit, EscapeeEnds,
       EditDirectory, Tick, Ended, vars
  <2>2. UNCHANGED main
    BY <1>4 DEF Next, Worker, Begin, WorkerEnds, Skip, Launch, EndEvent,
       TimedOut, Reaped, Finishes, fire, Reload, Exit, EscapeeEnds,
       EditDirectory, Tick, Ended, vars
  <2>3. /\ ~held /\ main = "joining"
        /\ Len(queue) >= 2 => waited + Left + (Len(queue) - 2) * Each =< owed
    BY <1>1, <2>1, <2>2 DEF Budget
  <2>4. UNCHANGED << main, held >>
    BY <1>1, <2>1, <2>2, <2>3, TimeTypesStep DEF TimeTypes
  <2>5. Each' = Each /\ Left' \in Nat
    <3>1. ScriptInv' /\ TimeTypes' /\ Phases'
      BY ScriptInvStep, TimeTypesStep, PhasesStep DEF DrainInv
    <3>2. (ScriptInv /\ TimeTypes /\ Phases)' => (Left \in Nat)'
      BY LeftIsNat, PTL
    <3>3. UNCHANGED timeout
      BY <1>4, <2>3 DEF Next, Worker, Begin, WorkerEnds, Skip, Launch,
         EndEvent, TimedOut, Reaped, Finishes, fire, Reload, Exit,
         EscapeeEnds, EditDirectory, Tick, Ended, vars
    <3>. QED
      BY <3>1, <3>2, <3>3 DEF Each
  <2>6. worker = "gone" => Len(queue) < 2
    BY <1>1, <2>3 DEF Phases, DrainInv, QueueInv, Aligned
  <2>. SUFFICES ASSUME Len(queue') >= 2
                PROVE  waited' + Left' + (Len(queue') - 2) * Each =< owed
    BY <2>1, <2>3, <2>4, <2>5
  <2>7. CASE UNCHANGED << queue, waited >> /\ Left' =< Left
    <3>. DEFINE a == (Len(queue) - 2) * Each
    <3>1. a \in Nat
      BY <1>1, <2>7, Products
    <3>2. waited + Left + a =< owed
      BY <2>3, <2>7
    <3>. HIDE DEF a
    <3>3. waited + Left' + a =< owed
      <4>1. /\ waited \in Nat /\ owed \in Nat /\ 0 \in Nat
            /\ Left' =< Left + 0 /\ waited + Left + (a + 0) =< owed
        BY <1>1, <2>7, <3>1, <3>2 DEF TimeTypes
      <4>. QED
        BY <1>1, <2>5, <3>1, <4>1, StaysWithin
    <3>. QED
      BY <2>7, <3>3 DEF a
  <2>8. CASE /\ queue' = Tail(queue) /\ queue # << >>
             /\ UNCHANGED waited
             /\ Left' =< Left + Each
    <3>1. Len(queue') = Len(queue) - 1 /\ Len(queue) >= 3
      BY <1>1, <2>8, HeadTailProperties
    <3>. DEFINE n == Len(queue) - 3
                a == n * Each
    <3>2. n \in Nat
      BY <1>1, <3>1
    <3>3. a \in Nat /\ (n + 1) * Each = a + Each
      BY <1>1, <3>2, Products
    <3>4. (Len(queue) - 2) * Each = a + Each /\ (Len(queue') - 2) * Each = a
      <4>1. Len(queue) - 2 = n + 1 /\ Len(queue') - 2 = n
        BY <1>1, <3>1
      <4>. HIDE DEF n
      <4>. QED
        BY <3>3, <4>1
    <3>5. waited + Left + (a + Each) =< owed
      BY <1>1, <2>3, <3>1, <3>4
    <3>. HIDE DEF a
    <3>6. waited + Left' + a =< owed
      <4>1. waited \in Nat /\ owed \in Nat
        BY <1>1 DEF TimeTypes
      <4>. QED
        BY <1>1, <2>5, <2>8, <3>3, <3>5, <4>1, StaysWithin
    <3>. QED
      BY <2>8, <3>4, <3>6
  <2>9. CASE /\ Tick /\ UNCHANGED queue
             /\ worker = "gone" \/ queue = << >> \/ Left' = Left - 1
    <3>. DEFINE a == (Len(queue) - 2) * Each
    <3>1. a \in Nat
      BY <1>1, <2>9, Products
    <3>2. waited + Left + a =< owed
      BY <2>3, <2>9
    <3>3. Left' = Left - 1 /\ waited' = waited + 1
      BY <1>1, <2>3, <2>6, <2>9 DEF Tick
    <3>. HIDE DEF a
    <3>4. waited' + Left' + a =< owed
      BY <1>1, <3>1, <3>2, <3>3 DEF TimeTypes
    <3>. QED
      BY <2>9, <3>4 DEF a
  <2>. QED
    BY <2>3, <2>4, <2>7, <2>8, <2>9, LeftShrinks
<1>. QED
  BY <1>2, <1>3, <1>4

LEMMA DrainInvariant == Spec => []DrainInv
<1>1. Init => DrainInv
  <2>. SUFFICES ASSUME Init PROVE DrainInv
    OBVIOUS
  <2>1. TimeTypes
    BY HookAssumption DEF Init, TimeTypes
  <2>2. Begun
    BY DEF Init, Begun
  <2>3. Phases /\ Budget
    BY DEF Init, Phases, Budget
  <2>. QED
    BY <2>1, <2>2, <2>3, QueueInvInit, ScriptInvInit DEF DrainInv
<1>2. DrainInv /\ [Next]_vars => DrainInv'
  BY QueueInvStep, ScriptInvStep, TimeTypesStep, BegunStep, PhasesStep,
     BudgetStep
     DEF DrainInv
<1>. QED
  BY <1>1, <1>2, PTL DEF Spec

\* If what the scripts may still take when the daemon is told to stop is less
\* than hook_timeout, every event that was fired, daemon-stop included, is
\* handled before the process ends; whatever the scripts do, and whatever
\* the reloads set hook_timeout to.
\* (hooks.py shutdown, _worker, _run_one; daemon.py _cleanup)
THEOREM DrainsInTime == Spec => []DrainedInTime
<1>1. Init => DrainedInTime
  BY DEF Init, DrainedInTime
<1>2. ASSUME DrainInv, DrainedInTime, [Next]_vars
      PROVE  DrainedInTime'
  <2>1. CASE Exit
    <3>. SUFFICES ASSUME owed < joinLimit, worker # "gone"
                  PROVE  begun = fired
      BY <1>2, <2>1 DEF Exit, DrainedInTime, DrainInv, Phases
    <3>1. waited = joinLimit /\ main = "joining"
      BY <2>1 DEF Exit
    <3>2. /\ Len(queue) \in Nat /\ Len(begun) \in Nat /\ Len(fired) \in Nat
          /\ Left \in Nat /\ Each \in Nat
          /\ begun \in Seq(Fired) /\ fired \in Seq(Fired)
      BY <1>2, Lengths DEF DrainInv, QueueInv, QueueTypeOK
    <3>3. ~(Len(queue) >= 2)
      <4>. SUFFICES ASSUME Len(queue) >= 2 PROVE FALSE
        OBVIOUS
      <4>. DEFINE a == (Len(queue) - 2) * Each
      <4>1. a \in Nat
        BY <3>2, Products
      <4>2. waited + Left + a =< owed
        BY <1>2, <3>1 DEF DrainInv, Budget
      <4>. HIDE DEF a
      <4>. QED
        BY <1>2, <3>1, <3>2, <4>1, <4>2 DEF DrainInv, TimeTypes
    <3>4. Len(begun) >= Len(fired)
      BY <1>2, <3>1, <3>2, <3>3 DEF DrainInv, Phases
    <3>. QED
      BY <1>2, <3>2, <3>4 DEF DrainInv, Begun
  <2>2. CASE ~Exit /\ main' = "exited"
    <3>1. main = "exited"
      BY <1>2, <2>2 DEF Next, Worker, Begin, WorkerEnds, Skip, Launch,
         EndEvent, TimedOut, Reaped, Finishes, fire, Reload, Shutdown,
         Escapes, EscapeeEnds, EditDirectory, Tick, Ended, vars
    <3>2. worker = "gone"
      BY <1>2, <3>1 DEF DrainInv, Phases
    <3>3. UNCHANGED << begun, fired, owed, joinLimit >>
      BY <1>2, <2>2, <3>1, <3>2 DEF Next, Worker, Begin, WorkerEnds, Skip,
         Launch, EndEvent, TimedOut, Reaped, Finishes, fire, Reload,
         Shutdown, Escapes, EscapeeEnds, EditDirectory, Tick, Ended, vars
    <3>. QED
      BY <1>2, <3>1, <3>3 DEF DrainedInTime
  <2>. QED
    BY <2>1, <2>2 DEF DrainedInTime, Exit
<1>. QED
  BY <1>1, <1>2, DrainInvariant, PTL DEF Spec
=============================================================================

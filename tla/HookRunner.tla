----------------------------- MODULE HookRunner -----------------------------
(***************************************************************************)
(* Event hooks: the queue, the worker thread that runs the scripts of one  *)
(* event after the other, the time limit of a script, and the end of the   *)
(* daemon, which waits for the worker for a limited time only              *)
(* (src/uplinkmgr/hooks.py).  Time passes in ticks, and only while the     *)
(* worker waits for a script or for an event: its own steps take none.     *)
(***************************************************************************)
EXTENDS Naturals, Sequences, SequencesExt, FiniteSetsExt

CONSTANTS
    Events,         \* what is fired, each at most once (a bound)
    DaemonStop,     \* the event the daemon fires last
    Sentinel,       \* the None that ends the worker
    System, User,   \* entries of the system and of the user directory
    Stem, Rank,     \* an entry's stem, and its place in filename order
    Timeouts,       \* values of hook_timeout
    Escaping        \* scripts that may leave a process outside their group

Entries == System \cup User

ASSUME HookAssumption ==
    /\ System \cap User = {}
    /\ Escaping \subseteq Entries
    /\ DaemonStop \notin Events
    /\ Sentinel \notin Events \cup {DaemonStop}
    /\ Timeouts \subseteq Nat \ {0}
    /\ IsFiniteSet(Entries)
    /\ Rank \in [Entries -> Nat]
    /\ \A D \in {System, User} : \A s, t \in D : Rank[s] = Rank[t] => s = t
    /\ \A s, t \in Entries : Rank[s] = Rank[t] => Stem[s] = Stem[t]

VARIABLES
    dir,        \* per entry: absent, unfit to be run, or fit
    timeout,    \* HookRunner.timeout
    queue,      \* _queue
    fired, begun,   \* events put into the queue, and taken from it
    worker,     \* idle, busy, gone
    rest,       \* scripts of the running event still to be attempted
    limit,      \* the time limit of the running event
    proc,       \* none, running, killed: the script the worker waits for
    held,       \* a process outside the group keeps its stderr open
    elapsed,    \* ticks the worker has waited for this script
    main,       \* running, joining, exited: the daemon's main thread
    joinLimit, waited,      \* the limit of the join, ticks waited
    ran,        \* scripts of the running event that were started
    kept,       \* user entries there ever since the event began
    owed        \* at shutdown: the longest the worker may need

vars == << dir, timeout, queue, fired, begun, worker, rest, limit, proc, held,
           elapsed, main, joinLimit, waited, ran, kept, owed >>

-----------------------------------------------------------------------------
\* Which scripts are attempted for an event.

Present(S) == {s \in S : dir[s] # "absent"}

\* Mutant: a placeholder that cannot be run shadows nothing.
MutShadowed(s) == \E u \in User : dir[u] = "fit" /\ Stem[u] = Stem[s]

Shadowed(s) == \E u \in Present(User) : Stem[u] = Stem[s]

Survivors == Present(User) \cup {s \in Present(System) : ~Shadowed(s)}

InFilenameOrder(q) == \A i, j \in DOMAIN q : i < j => Rank[q[i]] < Rank[q[j]]

Sorted(S) == CHOOSE q \in [1 .. Cardinality(S) -> S] : InFilenameOrder(q)

\* Mutant: the two directories are not merged in order.
MutResolve == Sorted(Survivors \cap User) \o Sorted(Survivors \cap System)

resolve_hook_scripts == Sorted(Survivors)

-----------------------------------------------------------------------------
\* The worker.

Begin ==
    /\ worker = "idle"
    /\ queue # << >>
    /\ Head(queue) # Sentinel
    /\ queue' = Tail(queue)
    /\ begun' = Append(begun, Head(queue))
    /\ worker' = "busy"
    /\ rest' = resolve_hook_scripts
    /\ limit' = timeout
    /\ ran' = << >>
    /\ kept' = Present(User)
    /\ UNCHANGED << dir, timeout, fired, proc, held, elapsed, main, joinLimit,
                    waited, owed >>

WorkerEnds ==
    /\ worker = "idle"
    /\ queue # << >>
    /\ Head(queue) = Sentinel
    /\ queue' = Tail(queue)
    /\ worker' = "gone"
    /\ UNCHANGED << dir, timeout, fired, begun, rest, limit, proc, held,
                    elapsed, main, joinLimit, waited, ran, kept, owed >>

\* An entry unfit to be run is skipped, and so is one that fails to execute.
Skip ==
    /\ worker = "busy"
    /\ proc = "none"
    /\ rest # << >>
    /\ rest' = Tail(rest)
    /\ UNCHANGED << dir, timeout, queue, fired, begun, worker, limit, proc,
                    held, elapsed, main, joinLimit, waited, ran, kept, owed >>

Launch ==
    /\ worker = "busy"
    /\ proc = "none"
    /\ rest # << >>
    /\ dir[Head(rest)] = "fit"
    /\ rest' = Tail(rest)
    /\ ran' = Append(ran, Head(rest))
    /\ proc' = "running"
    /\ elapsed' = 0
    /\ UNCHANGED << dir, timeout, queue, fired, begun, worker, limit, held,
                    main, joinLimit, waited, kept, owed >>

EndEvent ==
    /\ worker = "busy"
    /\ proc = "none"
    /\ rest = << >>
    /\ worker' = "idle"
    /\ limit' = 0 /\ ran' = << >> /\ kept' = {}
    /\ UNCHANGED << dir, timeout, queue, fired, begun, rest, proc, held,
                    elapsed, main, joinLimit, waited, owed >>

\* The end of the script's stderr: communicate returns.
Finishes ==
    /\ proc = "running"
    /\ ~held
    /\ proc' = "none"
    /\ elapsed' = 0
    /\ UNCHANGED << dir, timeout, queue, fired, begun, worker, rest, limit,
                    held, main, joinLimit, waited, ran, kept, owed >>

\* Mutant: communicate is called without a limit.
MutTimedOut == FALSE /\ UNCHANGED vars

TimedOut ==
    /\ proc = "running"
    /\ elapsed = limit
    /\ proc' = "killed"
    /\ UNCHANGED << dir, timeout, queue, fired, begun, worker, rest, limit,
                    held, elapsed, main, joinLimit, waited, ran, kept, owed >>

\* After the kill communicate waits for that again, without a limit.
Reaped ==
    /\ proc = "killed"
    /\ ~held
    /\ proc' = "none"
    /\ elapsed' = 0
    /\ UNCHANGED << dir, timeout, queue, fired, begun, worker, rest, limit,
                    held, main, joinLimit, waited, ran, kept, owed >>

Worker ==
    Begin \/ WorkerEnds \/ Skip \/ Launch \/ EndEvent \/ TimedOut \/ Reaped

-----------------------------------------------------------------------------
\* The main thread.

\* Mutant: the newest event is handled first.
MutEnqueue(q, e) == << e >> \o q

Enqueue(q, e) == Append(q, e)

fire ==
    /\ main = "running"
    /\ \E e \in Events \ ToSet(fired) :
         /\ queue' = Enqueue(queue, e)
         /\ fired' = Append(fired, e)
    /\ UNCHANGED << dir, timeout, begun, worker, rest, limit, proc, held,
                    elapsed, main, joinLimit, waited, ran, kept, owed >>

Reload ==
    /\ main = "running"
    /\ timeout' \in Timeouts
    /\ UNCHANGED << dir, queue, fired, begun, worker, rest, limit, proc, held,
                    elapsed, main, joinLimit, waited, ran, kept, owed >>

\* The longest the worker may need before it reaches daemon-stop; what a
\* process that holds its stderr open takes has no bound but the join's.
Owed ==
    IF held THEN timeout
    ELSE (IF proc = "running" THEN limit - elapsed ELSE 0)
         + (IF worker = "busy" THEN Len(rest) * limit ELSE 0)
         + Len(queue) * Cardinality(Entries) * timeout

\* Mutant: daemon-stop is fired after the sentinel.
MutFarewell(q) == q \o << Sentinel, DaemonStop >>

Farewell(q) == q \o << DaemonStop, Sentinel >>

\* _cleanup fires daemon-stop and calls shutdown, which starts to join.
Shutdown ==
    /\ main = "running"
    /\ main' = "joining"
    /\ queue' = Farewell(queue)
    /\ fired' = Append(fired, DaemonStop)
    /\ joinLimit' = timeout
    /\ waited' = 0
    /\ owed' = Owed
    /\ UNCHANGED << dir, timeout, begun, worker, rest, limit, proc, held,
                    elapsed, ran, kept >>

\* Mutant: the join has no limit.
MutExit ==
    /\ main = "joining"
    /\ worker = "gone"
    /\ main' = "exited"
    /\ UNCHANGED << dir, timeout, queue, fired, begun, worker, rest, limit, proc,
                    held, elapsed, joinLimit, waited, ran, kept, owed >>

\* The process ends, and with it the worker, whatever it was doing.
Exit ==
    /\ main = "joining"
    /\ worker = "gone" \/ waited = joinLimit
    /\ main' = "exited"
    /\ worker' = "gone"
    /\ proc' = "none"
    /\ UNCHANGED << dir, timeout, queue, fired, begun, rest, limit, held,
                    elapsed, joinLimit, waited, ran, kept, owed >>

-----------------------------------------------------------------------------
\* The world around.

\* A script's descendant leaves the process group and keeps stderr open.
Escapes ==
    /\ proc = "running"
    /\ Last(ran) \in Escaping
    /\ ~held
    /\ held' = TRUE
    /\ owed' = IF main = "joining" THEN joinLimit ELSE owed
    /\ UNCHANGED << dir, timeout, queue, fired, begun, worker, rest, limit,
                    proc, elapsed, main, joinLimit, waited, ran, kept >>

EscapeeEnds ==
    /\ held
    /\ held' = FALSE
    /\ UNCHANGED << dir, timeout, queue, fired, begun, worker, rest, limit,
                    proc, elapsed, main, joinLimit, waited, ran, kept, owed >>

\* The administrator installs, changes or removes a script.
EditDirectory ==
    /\ main # "exited"
    /\ \E s \in Entries, d \in {"absent", "unfit", "fit"} :
         /\ dir[s] # d
         /\ dir' = [dir EXCEPT ![s] = d]
    /\ kept' = kept \cap {s \in User : dir'[s] # "absent"}
    /\ UNCHANGED << timeout, queue, fired, begun, worker, rest, limit, proc,
                    held, elapsed, main, joinLimit, waited, ran, owed >>

\* The process is gone.
Ended == main = "exited" /\ UNCHANGED vars

\* The worker waits.
Waiting ==
    \/ worker = "gone"
    \/ worker = "idle" /\ queue = << >>
    \/ proc = "running" /\ elapsed < limit
    \/ proc = "killed" /\ held

Tick ==
    /\ Waiting
    /\ proc # "none" \/ main = "joining"
    /\ main = "joining" => waited < joinLimit
    /\ elapsed' = IF proc # "none" /\ elapsed =< limit
                  THEN elapsed + 1 ELSE elapsed
    /\ waited' = IF main = "joining" THEN waited + 1 ELSE waited
    /\ UNCHANGED << dir, timeout, queue, fired, begun, worker, rest, limit,
                    proc, held, main, joinLimit, ran, kept, owed >>

-----------------------------------------------------------------------------
Init ==
    /\ dir \in [Entries -> {"absent", "unfit", "fit"}]
    /\ timeout \in Timeouts
    /\ queue = << >>
    /\ fired = << >> /\ begun = << >>
    /\ worker = "idle"
    /\ rest = << >>
    /\ limit = 0
    /\ proc = "none"
    /\ held = FALSE
    /\ elapsed = 0
    /\ main = "running"
    /\ joinLimit = 0 /\ waited = 0
    /\ ran = << >>
    /\ kept = {}
    /\ owed = 0

Next ==
    \/ Worker \/ Finishes
    \/ fire \/ Reload \/ Shutdown \/ Exit
    \/ Escapes \/ EscapeeEnds \/ EditDirectory \/ Tick \/ Ended

Spec == Init /\ [][Next]_vars

\* The worker thread is scheduled, a killed process group goes away, time
\* passes, and the join comes to its end.  No script need ever finish.
FairSpec == Spec /\ WF_vars(Worker) /\ WF_vars(Tick) /\ WF_vars(Exit)
=============================================================================

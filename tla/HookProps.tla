----------------------------- MODULE HookProps ------------------------------
(***************************************************************************)
(* What the event hooks promise, and two promises of the documents that    *)
(* the code does not keep.                                                 *)
(***************************************************************************)
EXTENDS HookRunner

\* Every variable holds a value of its kind; a script is waited for within an
\* event, and all scripts of an event are different.
TypeOK ==
    /\ dir \in [Entries -> {"absent", "unfit", "fit"}]
    /\ timeout \in Timeouts /\ limit \in Timeouts \cup {0}
    /\ ToSet(queue) \subseteq Events \cup {DaemonStop, Sentinel}
    /\ worker \in {"idle", "busy", "gone"}
    /\ main \in {"running", "joining", "exited"}
    /\ proc \in {"none", "running", "killed"}
    /\ proc # "none" => worker = "busy"
    /\ ToSet(ran \o rest) \subseteq Entries
    /\ worker = "busy" => IsInjective(ran \o rest)
    /\ elapsed \in Nat /\ waited \in 0 .. joinLimit /\ owed \in Nat

\* The scripts of the event start in the order of their file names, whichever
\* directory they are in and whatever the administrator changes meanwhile.
InNameOrder == InFilenameOrder(ran)

\* An entry of the administrator that is there throughout the event keeps the
\* system script of the same stem from running, also when it cannot be run
\* itself or stops being able to (the placeholder that disables a script).
DisabledStaysOff ==
    \A s \in ToSet(ran) \cap System : \A u \in kept : Stem[u] # Stem[s]

\* Events are handled at most once, one at a time, in the order they were
\* fired, daemon-stop among them.
Log == INSTANCE EventLog WITH Events <- Events \cup {DaemonStop}
HandledInOrder == Log!Spec

\* What was fired is handled although shutdown cuts the worker off, if the
\* scripts that were under way at the shutdown take less than hook_timeout
\* even in the worst case.  A reload may have changed hook_timeout since the
\* running event began.
DrainedInTime == main = "exited" /\ owed < joinLimit => begun = fired

\* However long scripts hang, every event is handled unless the daemon ends;
\* only a process that leaves its group and holds on to stderr for good can
\* prevent it (_run_one, communicate after the kill).
EveryEventHandled ==
    []<>~held =>
      \A e \in Events :
        e \in ToSet(fired) ~> (e \in ToSet(begun) \/ main # "running")

\* The daemon ends, however long scripts hang and whatever they leave behind.
ShutdownEnds == main = "joining" ~> main = "exited"

-----------------------------------------------------------------------------
\* What the documents say and the code does not do.

\* SPEC.md 5.4.2: shutdown lets the queue drain, so that a daemon-stop hook
\* actually gets to run.
StopHookRuns == main = "exited" => DaemonStop \in ToSet(begun)

\* SPEC.md 5.4.2: each script is subject to hook_timeout.  Here: the worker
\* does not wait longer for one.
TimeLimited == elapsed =< limit
=============================================================================

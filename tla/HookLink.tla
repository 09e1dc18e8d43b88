------------------------------ MODULE HookLink ------------------------------
(***************************************************************************)
(* The link by which dhcpcd finds the exit hook: dhcpcd-base has one of    *)
(* two hooks directories, an upgrade may move it, and dhcpcd-hook-link     *)
(* puts the link into the directory the package owns at that moment        *)
(* (src/hooks/dhcpcd-hook-link, run by src/debian/postinst and prerm).     *)
(* dpkg runs one script at a time, so nothing else changes meanwhile,      *)
(* except that the run may be killed or a removal of a file fail.          *)
(***************************************************************************)
EXTENDS Naturals, Sequences, SequencesExt

CONSTANT
    CandidateDirs,  \* the two directories, in the order they are tried
    Nowhere         \* no directory

Dirs == ToSet(CandidateDirs)

ASSUME CandidateAssumption ==
    /\ CandidateDirs \in Seq(Dirs)
    /\ Nowhere \notin Dirs

VARIABLES
    owned,      \* the candidates dhcpcd-base owns
    present,    \* the candidates that exist
    at,         \* per candidate: none, ours, foreign: what is at HOOK_NAME
    installed,  \* uplinkmgr is installed
    due,        \* dpkg has yet to run a maintainer script: none, link, remove
    run,        \* idle, link, remove: the run of dhcpcd-hook-link
    left,       \* directories it has still to look at
    target,     \* where the link belongs
    failed      \* the last run failed

linkVars == << owned, present, at, installed, due, run, left, target, failed >>

-----------------------------------------------------------------------------
UnlinkIfOurs(d) ==
    [at EXCEPT ![d] = IF at[d] = "ours" THEN "none" ELSE at[d]]

\* The first match wins.
Target ==
    LET hits == {i \in DOMAIN CandidateDirs : CandidateDirs[i] \in owned}
    IN  IF hits = {} THEN Nowhere
        ELSE CandidateDirs[CHOOSE i \in hits : \A j \in hits : i =< j]

\* postinst, at a configuration or a trigger: the first owned candidate is
\* the target, and with none the script leaves everything as it is.
StartLink ==
    /\ due = "link" /\ run = "idle"
    /\ target' = Target
    /\ IF target' = Nowhere
       THEN due' = "none" /\ UNCHANGED << run, left >>
       ELSE run' = "link" /\ left' = CandidateDirs /\ UNCHANGED due
    /\ failed' = FALSE
    /\ UNCHANGED << owned, present, at, installed >>

StartRemove ==
    /\ due = "remove" /\ run = "idle"
    /\ run' = "remove" /\ left' = CandidateDirs
    /\ failed' = FALSE
    /\ UNCHANGED << owned, present, at, installed, due, target >>

\* The target is passed over, unless everything is to be removed.
Skipped(d) == run = "link" /\ d = target

Clean ==
    /\ run # "idle" /\ left # << >>
    /\ at' = IF Skipped(Head(left)) THEN at ELSE UnlinkIfOurs(Head(left))
    /\ left' = Tail(left)
    /\ UNCHANGED << owned, present, installed, due, run, target, failed >>

\* Mutant: the first candidate there is gets the link.
MutFinishLink ==
    /\ run = "link" /\ left = << >>
    /\ at' = [at EXCEPT ![CHOOSE d \in Dirs : d \in present \cup {target}] =
                          "ours"]
    /\ run' = "idle" /\ due' = "none"
    /\ UNCHANGED << owned, present, installed, left, target, failed >>

FinishLink ==
    /\ run = "link" /\ left = << >>
    /\ at' = IF target \in present THEN [at EXCEPT ![target] = "ours"] ELSE at
    /\ run' = "idle" /\ due' = "none"
    /\ UNCHANGED << owned, present, installed, left, target, failed >>

\* prerm is done, and dpkg removes the package.
FinishRemove ==
    /\ run = "remove" /\ left = << >>
    /\ run' = "idle" /\ due' = "none"
    /\ installed' = FALSE
    /\ UNCHANGED << owned, present, at, left, target, failed >>

\* rm or ln fails and with it the script (set -e); the maintainer scripts go
\* on.
Fails ==
    /\ \/ /\ run # "idle" /\ left # << >>
          /\ ~Skipped(Head(left)) /\ at[Head(left)] = "ours"
       \/ run = "link" /\ left = << >> /\ target \in present
    /\ failed' = TRUE
    /\ run' = "idle" /\ due' = "none"
    /\ installed' = (run = "link")
    /\ UNCHANGED << owned, present, at, left, target >>

-----------------------------------------------------------------------------
\* dpkg and the administrator.

\* dpkg --configure -a runs the maintainer script again.
Interrupted ==
    /\ run # "idle"
    /\ run' = "idle"
    /\ UNCHANGED << owned, present, at, installed, due, left, target, failed >>

\* dpkg cannot remove a directory that holds a file of another's.
DhcpcdBaseChanges ==
    /\ run = "idle"
    /\ owned' \in SUBSET Dirs
    /\ present' = {d \in present : at[d] # "none"} \cup owned'
    /\ due' = IF installed /\ due = "none" THEN "link" ELSE due
    /\ UNCHANGED << at, installed, run, left, target, failed >>

Install ==
    /\ ~installed
    /\ installed' = TRUE /\ due' = "link"
    /\ UNCHANGED << owned, present, at, run, left, target, failed >>

Removal ==
    /\ installed /\ run = "idle" /\ due = "none"
    /\ due' = "remove"
    /\ UNCHANGED << owned, present, at, installed, run, left, target, failed >>

\* The administrator puts a file there, or takes an empty directory away.
Administrator ==
    /\ run = "idle"
    /\ \E d \in present :
         /\ at[d] = "none"
         /\ \/ at' = [at EXCEPT ![d] = "foreign"] /\ UNCHANGED present
            \/ present' = present \ {d} /\ UNCHANGED at
    /\ UNCHANGED << owned, installed, due, run, left, target, failed >>

-----------------------------------------------------------------------------
LinkInit ==
    /\ owned \in SUBSET Dirs
    /\ present = owned
    /\ at = [d \in Dirs |-> "none"]
    /\ installed = FALSE
    /\ due = "none" /\ run = "idle" /\ left = << >>
    /\ target = Nowhere /\ failed = FALSE

LinkNext ==
    \/ StartLink \/ StartRemove \/ Clean \/ FinishLink \/ FinishRemove
    \/ Fails \/ Interrupted
    \/ DhcpcdBaseChanges \/ Install \/ Removal \/ Administrator

LinkSpec == LinkInit /\ [][LinkNext]_linkVars

-----------------------------------------------------------------------------
\* After every change of dhcpcd-base and every interrupted run the link ends
\* up in the directory dhcpcd reads, if it is there, and in no other; when the
\* package is gone, nothing of uplinkmgr's stays behind in either.
LinkInPlace ==
    /\ installed /\ due = "none" /\ ~failed /\ owned # {} =>
         /\ Target \in present => at[Target] = "ours"
         /\ \A d \in Dirs \ {Target} : at[d] # "ours"
    /\ ~installed /\ ~failed => \A d \in Dirs : at[d] # "ours"
=============================================================================

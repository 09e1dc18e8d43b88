------------------------------- MODULE Config -------------------------------
(***************************************************************************)
(* What load accepts and what it makes of it (src/uplinkmgr/config.py).  A *)
(* file is [start, tables, uplinks, networks]: the two numbers, a sequence *)
(* of [name, interface, metric, pd] and one of interfaces.                 *)
(***************************************************************************)
EXTENDS Naturals, Sequences

CONSTANT Unset      \* a key the file does not have

MaxTable == 252

\* The default is 100 for the first uplink, 200 for the second, ...
Metric(file, i) ==
    IF file.uplinks[i].metric = Unset THEN 100 * i ELSE file.uplinks[i].metric

Distinct(s, F(_)) == \A i, j \in DOMAIN s : F(i) = F(j) => i = j

UplinksOk(file) ==
    /\ file.uplinks # << >>
    /\ \A i \in DOMAIN file.uplinks : Metric(file, i) > 0
    /\ Distinct(file.uplinks, LAMBDA i : Metric(file, i))
    /\ Distinct(file.uplinks, LAMBDA i : file.uplinks[i].name)
    /\ Distinct(file.uplinks, LAMBDA i : file.uplinks[i].interface)

TablesOk(file) ==
    /\ file.tables \in 1 .. MaxTable
    /\ file.tables + Len(file.uplinks) =< MaxTable

\* Networks need neither distinct names nor distinct interfaces.
Accepts(file) == UplinksOk(file) /\ TablesOk(file) /\ file.networks # << >>
=============================================================================

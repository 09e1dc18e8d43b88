----------------------------- MODULE MCTopology -----------------------------
(***************************************************************************)
(* Small instances of Topology for TLC.                                    *)
(***************************************************************************)
EXTENDS TopologyProps

CONSTANTS x, y, z, lan, dmz

Entry(name, interface, prefix) ==
    [name |-> name, interface |-> interface, metric |-> Unset, pd |-> prefix]

File(start, tables, uplinks, networks, reject) ==
    [start |-> start, tables |-> tables, uplinks |-> uplinks,
     networks |-> networks, reject |-> reject]

X == Entry(x, "eth0", TRUE)
Y == Entry(y, "eth1", TRUE)
Z == Entry(z, "eth1", FALSE)

\* Two uplinks and two networks; the same in another order, with other
\* numbers and without a network; with an uplink replaced; with a name, and
\* with a table number, that is not accepted.
McFiles ==
    {File(0, 160, << X, Y >>, << lan, dmz >>, TRUE),
     File(1, 161, << Y, X >>, << dmz, lan >>, FALSE),
     File(0, 160, << Y >>, << lan >>, TRUE),
     File(2, 160, << Z, X >>, << lan >>, FALSE),
     File(0, 160, << X, [Y EXCEPT !.name = x] >>, << lan >>, FALSE),
     File(0, 251, << X, Y >>, << lan >>, FALSE)}

\* No name is shortened.
McShort == [i \in {lan, dmz} |-> i]
=============================================================================

--------------------------- MODULE MCInstallation ---------------------------
(***************************************************************************)
(* What puts uplinkmgr into its place, for TLC: uplinkmgr-setup with its   *)
(* files and services, and the maintainer scripts with the link by which   *)
(* dhcpcd finds the hook.  They share nothing, so one of them is chosen at *)
(* the start, and nothing happens in the other.                            *)
(***************************************************************************)
EXTENDS SetupProps, HookLink

CONSTANTS
    x, y, eth0, eth1, lan, dmz, dmz2,   \* uplinks and interfaces
    usrLib, usrLibexec              \* directories of dhcpcd's hooks

VARIABLE part

-----------------------------------------------------------------------------
Entry(name, interface, prefix) ==
    [name |-> name, interface |-> interface, metric |-> Unset, pd |-> prefix]

File(uplinks, networks) ==
    [start |-> 0, tables |-> 160, uplinks |-> uplinks, networks |-> networks,
     reject |-> FALSE]

\* Two uplinks; their interfaces exchanged; one of them on the interface of
\* the other; two networks; two networks whose macvlans get one name, which
\* setup refuses.
McFiles ==
    {File(<< Entry(x, eth0, TRUE), Entry(y, eth1, TRUE) >>, << lan >>),
     File(<< Entry(x, eth1, TRUE), Entry(y, eth0, TRUE) >>, << lan >>),
     File(<< Entry(y, eth0, FALSE) >>, << lan >>),
     File(<< Entry(x, eth1, TRUE) >>, << lan, dmz >>),
     File(<< Entry(x, eth0, TRUE) >>, << dmz, dmz2 >>)}

McShort == [i \in {lan, dmz, dmz2} |-> IF i = lan THEN "lan" ELSE "dmz"]

McCandidateDirs == << usrLibexec, usrLib >>

\* Without dhcpcd-base there is no link to set.
Begins ==
    /\ part \in {"tool", "link"}
    /\ Init /\ LinkInit
    /\ part = "tool" => owned = {}

Goes ==
    /\ UNCHANGED part
    /\ \/ part = "tool" /\ Next /\ UNCHANGED linkVars
       \/ part = "link" /\ LinkNext /\ UNCHANGED vars

Installation == Begins /\ [][Goes]_<< part, vars, linkVars >>
=============================================================================

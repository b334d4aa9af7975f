------------------------------ MODULE MCClients ------------------------------
(***************************************************************************)
(* What the server's clients keep of it, on small instances.               *)
(*                                                                         *)
(* The dashboard: the page of one browser, through three renders           *)
(* (DashboardPage), and a list that changes twice, through two reads of it *)
(* (DashboardData).  The CDP endpoint of a linked browser (LinkedCdp): one *)
(* client with the two sessions on a page that chrome-devtools-mcp holds,  *)
(* and a frame that comes and goes; or two clients that attach by name and *)
(* turn the tab's domain on and off.  With two commands on the link their  *)
(* answers cross.  The parts share no state, so a behaviour is of one of   *)
(* them, its focus.                                                        *)
(***************************************************************************)
EXTENDS DashboardPage, DashboardData, LinkedCdp

CONSTANTS b1, q1, q2, k1, k2, t1, f1

VARIABLE focus

all == <<pageVars, dataVars, cdpVars, focus>>

ClientsInit == focus \in {"page", "lists", "frames", "clients"} /\ PageInit /\ DataInit /\ CdpInit

\* What the clients ask of the extension.
Only(V) == \A i \in DOMAIN ask' : ask'[i].what \in V

ClientsNext ==
    /\ UNCHANGED focus
    /\ \/ focus = "page"    /\ PageNext /\ UNCHANGED <<dataVars, cdpVars>>
       \/ focus = "lists"   /\ DataNext /\ UNCHANGED <<pageVars, cdpVars>>
       \/ focus = "frames"  /\ CdpNext /\ Only({"auto", "autoOff", "kid"}) /\ front'[k2] = "gone"
                               /\ UNCHANGED <<pageVars, dataVars>>
       \/ focus = "clients" /\ CdpNext /\ Only({"enable", "disable"})
                               /\ (\A c \in Clients : front'[c] \in {"gone", "off"}) /\ UNCHANGED <<pageVars, dataVars>>

ClientsSpec == ClientsInit /\ [][ClientsNext]_all /\ PageFairness /\ DataFairness
=============================================================================

------------------------------ MODULE MCControl ------------------------------
(***************************************************************************)
(* Who controls a browser, and what its guests are held to, on small       *)
(* instances: the lease (Control), the audit rows a guest's link may write *)
(* (GuestBudget) and the pages a guest may go back to (GuestPlaces).  They *)
(* share no state, so a behaviour is of one of them, its focus.            *)
(***************************************************************************)
EXTENDS Control, GuestBudget, GuestPlaces

CONSTANTS g1, g2, a1, a2, v1, v2, t1, t2

VARIABLE focus

all == <<vars, budgetVars, placeVars, focus>>

ControlInit ==
    /\ focus \in {"lease", "budget", "places"} /\ Init /\ BudgetInit /\ PlacesInit
    /\ focus # "budget" => seat = Empty
    /\ focus # "places" => allowed = {} /\ history[Home].at = 1

ControlNext ==
    /\ UNCHANGED focus
    /\ \/ focus = "lease"  /\ Next       /\ UNCHANGED <<budgetVars, placeVars>>
       \/ focus = "budget" /\ BudgetNext /\ UNCHANGED <<vars, placeVars>>
       \/ focus = "places" /\ PlacesNext /\ UNCHANGED <<vars, budgetVars>>

ControlSpec == ControlInit /\ [][ControlNext]_all
=============================================================================

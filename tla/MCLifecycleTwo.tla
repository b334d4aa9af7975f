---------------------------- MODULE MCLifecycleTwo ----------------------------
(* Two browsers that compete for slots. *)
EXTENDS BrowserLifecycle, TLC

BrowserSymmetry == Permutations(Browsers)

\* Starts, stops, crashes, saves and moves: what takes, keeps and gives back a slot.
SlotNext ==
    \/ /\ ~Settling
       /\ \E b \in Browsers :
            \/ StartStep(b) \/ StopStep(b) \/ SaveStep(b) \/ MoveStep(b)
            \/ EnsureRunning(b) \/ Stop(b) \/ SaveBegin(b) \/ Move(b) \/ ChromeExit(b)
    \/ \E b \in Browsers : SaveBack(b)

SlotSpec == Init /\ [][SlotNext]_vars
===============================================================================

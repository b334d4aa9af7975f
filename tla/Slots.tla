-------------------------------- MODULE Slots ---------------------------------
(***************************************************************************)
(* What TALLYLAMP_MAX_BROWSERS promises, without saying how: Size slots,   *)
(* each taken by one client at a time.  BrowserLifecycle refines it.       *)
(***************************************************************************)
EXTENDS Naturals, FiniteSets

CONSTANTS Clients, Size

VARIABLE held

Init == held = {}

Take(c) == c \notin held /\ Cardinality(held) < Size /\ held' = held \cup {c}

\* One client gives its slot back, or the process ends and all do.
Give == \E kept \in SUBSET held : held' = kept

Next == (\E c \in Clients : Take(c)) \/ Give

Spec == Init /\ [][Next]_held
===============================================================================

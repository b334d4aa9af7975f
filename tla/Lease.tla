-------------------------------- MODULE Lease ---------------------------------
(***************************************************************************)
(* What a control lease promises, without saying how: no times, tokens,    *)
(* links, sweeps or events.  Control refines it.                           *)
(*                                                                         *)
(* One side holds the browser at a time.  The administrator may take it    *)
(* from anyone, a guest from an agent, and nobody else from anyone.  Who   *)
(* takes it, be it the same one again, starts with no viewer that drives   *)
(* and with no desktop operation under way.                                *)
(***************************************************************************)
CONSTANTS Admin, Guests, Agents, Sockets, NoOne

VARIABLES
    holder,       \* who is in control
    drivers,      \* viewers whose input counts, and whose each is
    operation     \* the agent whose desktop operation goes on

leaseVars == <<holder, drivers, operation>>

Init == holder = NoOne /\ drivers = {} /\ operation = NoOne

MayTake(who) ==
    \/ holder \in {NoOne, who}
    \/ who = Admin
    \/ who \in Guests /\ holder \in Agents

Takes(who) ==
    /\ MayTake(who)
    /\ holder' = who /\ drivers' = {} /\ operation' = NoOne

\* Control is given up, lapses or is withdrawn.  An operation is stopped by then, or when that is noticed.
Ends ==
    /\ holder' = NoOne /\ drivers' = {} /\ operation' \in {operation, NoOne}

\* Only a viewer of the holder drives.
Drives(v) ==
    /\ holder # NoOne
    /\ drivers' = drivers \cup {<<v, holder>>}
    /\ UNCHANGED <<holder, operation>>

\* Viewers go, an operation ends.
Leaves ==
    /\ drivers' \subseteq drivers /\ operation' \in {operation, NoOne}
    /\ UNCHANGED holder

Starts(a) ==
    /\ operation = NoOne /\ holder \in {NoOne, a}
    /\ operation' = a
    /\ UNCHANGED <<holder, drivers>>

Next ==
    \/ \E who \in {Admin} \cup Guests \cup Agents : Takes(who)
    \/ \E v \in Sockets : Drives(v)
    \/ \E a \in Agents : Starts(a)
    \/ Ends
    \/ Leaves

Spec == Init /\ [][Next]_leaseVars
===============================================================================

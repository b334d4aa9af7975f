------------------------------- MODULE Control -------------------------------
(***************************************************************************)
(* Who controls one browser: its control lease, the guest links that may   *)
(* take it, the viewer sockets bound to it, and the agent's native desktop *)
(* operation that must stop when it goes (src/src/browsers.ts, guests.ts,  *)
(* guest-api.ts, viewer.ts, desktop-viewer.ts, agent-desktop.ts).          *)
(*                                                                         *)
(* A moment in the past is kept as its age and a moment to come as the     *)
(* time left, in ticks, up to the age after which the code treats all      *)
(* alike.  A token is random and new at every acquire, so a socket either  *)
(* is bound to the present token or to none that will ever count again.    *)
(***************************************************************************)
EXTENDS Integers

CONSTANTS
    Admin,      \* the administrator
    Guests,     \* guest links that allow control
    Agents,
    Sockets,    \* control viewers that may be open at once
    Ttl,        \* config.humanLeaseTtlMs, of every lease
    MaxHold,    \* config.guestMaxLeaseMs
    Cooldown    \* config.guestLeaseCooldownMs

ASSUME ControlAssumption ==
    /\ Ttl \in Nat /\ MaxHold \in Nat \ {0} /\ Cooldown \in Nat \ {0}
    /\ Admin \notin Guests /\ Admin \notin Agents /\ Guests \cap Agents = {}

People == {Admin} \cup Guests
NoOne == "nobody"
Never == -1      \* a moment that is null

ASSUME NamesAssumption == NoOne \notin People \cup Agents

VARIABLES
    lease,      \* the row of control_leases: who, and the time left; -1 is past its end
    hold,       \* of each link: control_since, control_ended_at, control_cooldown_until
    link,       \* "none", "fresh", "opened" (token used), "expired" or "revoked"
    session,    \* links with a row in guest_sessions
    sockets,    \* whose control viewer each socket is
    bound,      \* sockets whose boundLease is the present lease's token
    desktop,    \* the agent's desktop operation under way: `busy`, and its child
    stretch     \* history: how long each guest has controlled, breaks below Cooldown included

vars == <<lease, hold, link, session, sockets, bound, desktop, stretch>>

Free == [holder |-> NoOne, left |-> 0]
Rested == [since |-> Never, ended |-> Never, wait |-> 0]
Idle == [agent |-> NoOne, stage |-> "none"]
NotYet == [held |-> 0, away |-> Cooldown]

TypeOK ==
    /\ lease \in {Free} \cup [holder : People \cup Agents, left : -1..Ttl]
    /\ hold \in [Guests -> [since : Never..MaxHold,
                            ended : Never..Cooldown, wait : 0..Cooldown]]
    /\ link \in [Guests -> {"none", "fresh", "opened", "expired", "revoked"}]
    /\ session \subseteq Guests
    /\ sockets \in [Sockets -> {NoOne} \cup People]
    /\ bound \subseteq Sockets
    /\ desktop \in {Idle} \cup [agent : Agents, stage : {"run", "release"}]
    /\ stretch \in [Guests -> [held : 0..MaxHold, away : 0..Cooldown]]

Init ==
    /\ lease = Free
    /\ hold = [g \in Guests |-> Rested]
    /\ link = [g \in Guests |-> "none"]
    /\ session = {}
    /\ sockets = [v \in Sockets |-> NoOne]
    /\ bound = {}
    /\ desktop = Idle
    /\ stretch = [g \in Guests |-> NotYet]

(***************************************************************************)
(* The lease.  A handler is a composition of operators on what the lease   *)
(* and its listeners are, since every part of it runs before the next      *)
(* event; `live` is the set of links that are neither revoked nor expired. *)
(***************************************************************************)
Live == {g \in Guests : link[g] \in {"fresh", "opened"}}

Present == [lease |-> lease, hold |-> hold, sockets |-> sockets, bound |-> bound, desktop |-> desktop]

Become(s) ==
    /\ lease' = s.lease
    /\ hold' = s.hold
    /\ sockets' = s.sockets
    /\ bound' = s.bound
    /\ desktop' = s.desktop

\* guestLeaseEnd, "max_age".  It reads acquired_at when there is no control_since, and
\* a guest who holds the lease has one (Measured, in Control_proofs).
Spent(s, g) == s.hold[g].since # Never /\ s.hold[g].since >= MaxHold

\* guestLeaseEnd, "guest_ended" or "max_age"
GuestOver(s, live) == s.lease.holder \in Guests /\ (s.lease.holder \notin live \/ Spent(s, s.lease.holder))

Lapsed(s, live) == s.lease # Free /\ (s.lease.left < 0 \/ GuestOver(s, live))

\* noteGuestControlEnded
Noted(hs, who) ==
    [g \in Guests |-> IF g = who /\ hs[g].ended = Never THEN [hs[g] EXCEPT !.ended = 0] ELSE hs[g]]

\* A control.* event after the token changed: the desktop operation is aborted, and the
\* control viewer of a guest who does not hold the lease ends.
Announced(s) ==
    [s EXCEPT !.bound = {},
              !.desktop = IF @ = Idle THEN Idle ELSE [@ EXCEPT !.stage = "release"],
              !.sockets = [v \in Sockets |->
                              IF @[v] \in Guests \ {s.lease.holder} THEN NoOne ELSE @[v]]]

\* Mutant: nobody notes when the guest's control ended.
ReleasedUnnoted(s) == IF s.lease = Free THEN s ELSE Announced([s EXCEPT !.lease = Free])

\* releaseControl: whoever holds it.  With no row the event finds nothing changed.
Released(s) ==
    IF s.lease = Free THEN s
    ELSE Announced([s EXCEPT !.lease = Free, !.hold = Noted(@, s.lease.holder)])

\* startGuestCooldown, for a live link that ran to the maximum
Cooled(s, live) ==
    IF s.lease.holder \in live /\ Spent(s, s.lease.holder)
    THEN [s EXCEPT !.hold[s.lease.holder].wait = Cooldown]
    ELSE s

\* controlState: it removes a lease that is over.
Observed(s, live) == IF Lapsed(s, live) THEN Released(Cooled(s, live)) ELSE s

\* acquireControl past its refusal: a displaced guest is noted, the row replaced.
Acquired(s, who, live) ==
    LET seen == Observed(s, live)
        displaced == IF seen.lease.holder = who THEN NoOne ELSE seen.lease.holder
    IN  Observed(Announced([seen EXCEPT !.lease = [holder |-> who, left |-> Ttl],
                                        !.hold = Noted(@, displaced)]), live)

\* beginGuestHold
Begun(s, g) ==
    LET h == s.hold[g]
        continuing == /\ h.since # Never
                      /\ s.lease.holder = g \/ (h.ended # Never /\ h.ended < Cooldown)
    IN  [s EXCEPT !.hold[g] = [since |-> IF continuing THEN h.since ELSE 0,
                               ended |-> Never, wait |-> h.wait]]

\* A controlState that says `who` is in control now
Controls(who) ==
    /\ lease.holder = who
    /\ ~Lapsed(Present, Live)

(***************************************************************************)
(* Whoever reads the lease: every dashboard view, tool call and sweep.     *)
(***************************************************************************)
Look ==
    /\ Become(Observed(Present, Live))
    /\ UNCHANGED <<link, session>>

(***************************************************************************)
(* The administrator: take (force displaces anyone), return, renew.        *)
(***************************************************************************)
AdminTakes(force) ==
    LET seen == Observed(Present, Live)
    IN  /\ Become(IF force \/ seen.lease.holder \in {NoOne, Admin}
                  THEN Acquired(seen, Admin, Live) ELSE seen)
        /\ UNCHANGED <<link, session>>

AdminReturns ==
    /\ Become(Released(Present))
    /\ UNCHANGED <<link, session>>

\* heartbeatControl with the present token (any view shows it); `mine` is the side it comes from.
Renewed(s, by) == IF s.lease.holder = by THEN [s EXCEPT !.lease.left = Ttl] ELSE s

AdminRenews ==
    /\ Become(Renewed(Observed(Present, Live), Admin))
    /\ UNCHANGED <<link, session>>

(***************************************************************************)
(* A link: created, its token exchanged, ended, expired, swept.            *)
(***************************************************************************)
\* A link that is created has an id no lease row ever had.
CreateGuest(g) ==
    /\ link[g] = "none" /\ lease.holder # g
    /\ link' = [link EXCEPT ![g] = "fresh"]
    /\ hold' = [hold EXCEPT ![g] = Rested]
    /\ UNCHANGED <<lease, session, sockets, bound, desktop>>

Exchange(g) ==
    /\ link[g] = "fresh"
    /\ link' = [link EXCEPT ![g] = "opened"]
    /\ session' = session \cup {g}
    /\ Become(Observed(Present, Live))    \* the view it answers with

\* Mutant: only the session and the viewers go.
EndGuestNotLease(g) ==
    /\ link[g] # "none"
    /\ link' = [link EXCEPT ![g] = "revoked"]
    /\ session' = session \ {g}
    /\ Become([Present EXCEPT !.sockets = [v \in Sockets |-> IF @[v] = g THEN NoOne ELSE @[v]]])

\* endGuest: revoked by the administrator, or the guest leaves.  The session goes, then the
\* lease is read, then guest.revoked closes the guest's viewers.
EndGuest(g) ==
    LET seen == Observed(Present, Live \ {g})
        freed == IF seen.lease.holder = g THEN Released(seen) ELSE seen
    IN  /\ link[g] # "none"
        /\ link' = [link EXCEPT ![g] = "revoked"]
        /\ session' = session \ {g}
        /\ Become([freed EXCEPT !.sockets = [v \in Sockets |-> IF @[v] = g THEN NoOne ELSE @[v]]])

Expire(g) ==
    /\ g \in Live
    /\ link' = [link EXCEPT ![g] = "expired"]
    /\ UNCHANGED <<lease, hold, session, sockets, bound, desktop>>

\* sweepGuests: expired sessions, and links that ended a week ago
SweepSession(g) ==
    /\ link[g] = "expired" /\ g \in session
    /\ session' = session \ {g}
    /\ UNCHANGED <<lease, hold, link, sockets, bound, desktop>>

SweepLink(g) ==
    /\ link[g] \in {"expired", "revoked"}
    /\ link' = [link EXCEPT ![g] = "none"]
    /\ session' = session \ {g}
    /\ UNCHANGED <<lease, hold, sockets, bound, desktop>>

(***************************************************************************)
(* A guest with a live session: take, return, renew.                       *)
(***************************************************************************)
SignedIn(g) == g \in session /\ g \in Live

\* Mutant: the take-over of a guest displaces people too.
GuestDisplaces(g) ==
    /\ SignedIn(g) /\ hold[g].wait = 0
    /\ Become(Acquired(Begun(Observed(Present, Live), g), g, Live))
    /\ UNCHANGED <<link, session>>

\* Refused in a cooldown.  Off a person never: the hold that was begun is undone.
GuestTakes(g) ==
    LET seen == Observed(Present, Live)
    IN  /\ SignedIn(g) /\ hold[g].wait = 0
        /\ Become(IF seen.lease.holder \in {NoOne, g} \cup Agents
                  THEN Acquired(Begun(seen, g), g, Live) ELSE seen)
        /\ UNCHANGED <<link, session>>

GuestReturns(g) ==
    LET seen == Observed(Present, Live)
    IN  /\ SignedIn(g)
        /\ Become(IF seen.lease.holder = g THEN Released(seen) ELSE seen)
        /\ UNCHANGED <<link, session>>

GuestRenews(g) ==
    /\ SignedIn(g)
    /\ Become(Renewed(Observed(Present, Live), g))
    /\ UNCHANGED <<link, session>>

(***************************************************************************)
(* Agents: an MCP binding takes the lease when no person has it, and a     *)
(* desktop operation runs under the lease it found.                        *)
(***************************************************************************)
AgentTakes(a) ==
    LET seen == Observed(Present, Live)
    IN  /\ Become(IF seen.lease.holder \in {NoOne, a} THEN Acquired(seen, a, Live) ELSE seen)
        /\ UNCHANGED <<link, session>>

DesktopStarts(a) ==
    LET seen == Observed(Present, Live)
    IN  /\ desktop = Idle
        /\ Become(IF seen.lease.holder \in {NoOne, a}
                  THEN [seen EXCEPT !.desktop = [agent |-> a, stage |-> "run"]] ELSE seen)
        /\ UNCHANGED <<link, session>>

\* The child exits, or times out; then what it held down is released, under `busy`.
DesktopExits ==
    LET seen == Observed(Present, Live)
    IN  /\ desktop.stage = "run"
        /\ Become([seen EXCEPT !.desktop.stage = "release"])
        /\ UNCHANGED <<link, session>>

DesktopReleased ==
    /\ desktop.stage = "release"
    /\ desktop' = Idle
    /\ UNCHANGED <<lease, hold, link, session, sockets, bound>>

(***************************************************************************)
(* Control viewers.                                                        *)
(***************************************************************************)
\* The upgrade: a guest must hold the lease, an administrator's ticket is enough.
Opens(v, who) ==
    LET seen == IF who = Admin THEN Present ELSE Observed(Present, Live)
    IN  /\ sockets[v] = NoOne
        /\ who = Admin \/ SignedIn(who)
        /\ Become(IF who = Admin \/ seen.lease.holder = who
                  THEN [seen EXCEPT !.sockets[v] = who] ELSE seen)
        /\ UNCHANGED <<link, session>>

\* Mutant: the token alone is enough.
BindsByToken(v) ==
    LET seen == Observed(Present, Live)
    IN  /\ sockets[v] # NoOne
        /\ Become(IF seen.lease # Free
                  THEN [Renewed(seen, seen.lease.holder) EXCEPT !.bound = @ \cup {v}] ELSE seen)
        /\ UNCHANGED <<link, session>>

\* Its heartbeat renews the lease and binds the socket to it.
Binds(v) ==
    LET seen == Observed(Present, Live)
    IN  /\ sockets[v] # NoOne
        /\ Become(IF seen.lease.holder = sockets[v]
                  THEN [Renewed(seen, sockets[v]) EXCEPT !.bound = @ \cup {v}] ELSE seen)
        /\ UNCHANGED <<link, session>>

\* Close code 1000 or 1001 returns control, if the socket is bound to the present lease;
\* any other does not.
Closes(v, leaving) ==
    LET left == [Present EXCEPT !.sockets[v] = NoOne, !.bound = @ \ {v}]
        seen == Observed(left, Live)
    IN  /\ sockets[v] # NoOne
        /\ Become(IF ~(leaving /\ v \in bound) THEN left
                  ELSE IF seen.lease.holder = sockets[v] THEN Released(seen) ELSE seen)
        /\ UNCHANGED <<link, session>>

\* A guest viewer's check every 10 s: the session, then the lease
Checks(v) ==
    LET seen == IF SignedIn(sockets[v]) THEN Observed(Present, Live) ELSE Present
    IN  /\ sockets[v] \in Guests
        /\ Become(IF SignedIn(sockets[v]) /\ seen.lease.holder = sockets[v] THEN seen
                  ELSE [seen EXCEPT !.sockets[v] = NoOne, !.bound = @ \ {v}])
        /\ UNCHANGED <<link, session>>

(***************************************************************************)
(* The browser is deleted (what comes next is another one), the process    *)
(* restarts (rows stay, sockets and operations go), time passes.           *)
(***************************************************************************)
Destroyed ==
    /\ lease' = Free
    /\ hold' = [g \in Guests |-> Rested]
    /\ link' = [g \in Guests |-> "none"]
    /\ session' = {}
    /\ sockets' = [v \in Sockets |-> NoOne]
    /\ bound' = {}
    /\ desktop' = Idle

Restarts ==
    /\ sockets' = [v \in Sockets |-> NoOne]
    /\ bound' = {}
    /\ desktop' = Idle
    /\ UNCHANGED <<lease, hold, link, session>>

Older(age, most) == IF age = Never \/ age = most THEN age ELSE age + 1
Sooner(left, least) == IF left > least THEN left - 1 ELSE left

Tick ==
    /\ lease' = IF lease = Free THEN Free ELSE [lease EXCEPT !.left = Sooner(@, -1)]
    /\ hold' = [g \in Guests |-> [since |-> Older(hold[g].since, MaxHold),
                                  ended |-> Older(hold[g].ended, Cooldown),
                                  wait |-> Sooner(hold[g].wait, 0)]]
    /\ UNCHANGED <<link, session, sockets, bound, desktop>>

(***************************************************************************)
(* The history: a break of Cooldown ends a stretch, and a link that is     *)
(* gone has none.                                                          *)
(***************************************************************************)
Stretch(ticks) ==
    stretch' = [g \in Guests |->
        LET away == IF Controls(g)' THEN 0
                    ELSE IF ticks THEN Older(stretch[g].away, Cooldown) ELSE stretch[g].away
            held == IF ticks THEN Older(stretch[g].held, MaxHold) ELSE stretch[g].held
        IN  IF link'[g] = "none" \/ away = Cooldown THEN NotYet ELSE [held |-> held, away |-> away]]

Step ==
    \/ Look
    \/ \E force \in BOOLEAN : AdminTakes(force)
    \/ AdminReturns \/ AdminRenews
    \/ \E g \in Guests :
        \/ CreateGuest(g) \/ Exchange(g) \/ EndGuest(g)
        \/ Expire(g) \/ SweepSession(g) \/ SweepLink(g)
        \/ GuestTakes(g) \/ GuestReturns(g) \/ GuestRenews(g)
    \/ \E a \in Agents : AgentTakes(a) \/ DesktopStarts(a)
    \/ DesktopExits \/ DesktopReleased
    \/ \E v \in Sockets :
        \/ \E who \in People : Opens(v, who)
        \/ Binds(v) \/ Checks(v)
        \/ \E leaving \in BOOLEAN : Closes(v, leaving)
    \/ Destroyed
    \/ Restarts

Passes == Tick /\ Stretch(TRUE)

Next == Passes \/ (Step /\ Stretch(FALSE))

Spec == Init /\ [][Next]_vars


(***************************************************************************)
(* Properties.                                                             *)
(***************************************************************************)
\* A guest controls for less than the maximum, whatever it and the others do with the lease
\* in between, unless it went without control for the cooldown (beginGuestHold,
\* noteGuestControlEnded, guestLeaseEnd).
HoldBounded == \A g \in Guests : Controls(g) => stretch[g].held < MaxHold

\* A socket whose input passes the check of its bound token is a socket of whoever holds the
\* lease, however tokens, heartbeats and take-overs interleave (viewer.ts, handle).
InputOnlyFromHolder == \A v \in bound : sockets[v] = lease.holder

\* An agent's desktop operation does not go on under somebody else's lease: the event of the
\* take-over aborts it (agent-desktop.ts, onEvent).
DesktopStops == desktop.stage = "run" => lease.holder \in {NoOne, desktop.agent}

\* A guest who was revoked, or left, has no session, no control viewer and no lease, and gets
\* none by a request, a reconnect or a lease nobody looked at (endGuest).
RevokedIsOut ==
    \A g \in Guests : link[g] = "revoked" =>
        g \notin session /\ lease.holder # g /\ \A v \in Sockets : sockets[v] # g

\* A person who is in control is displaced by the administrator or by nobody; agents and
\* other guests wait (acquireControl).
PersonKeepsControl ==
    [][\A h \in People : Controls(h) => lease'.holder \in {h, NoOne, Admin}]_vars

\* What a reader of the lease is told, and whose input counts at that moment.
InControl == IF lease # Free /\ ~Lapsed(Present, Live) THEN lease.holder ELSE NoOne
Drivers == {<<v, sockets[v]>> : v \in {u \in bound : InControl # NoOne}}
Operation == IF desktop.stage = "run" THEN desktop.agent ELSE NoOne

AbstractLease == INSTANCE Lease WITH holder <- InControl, drivers <- Drivers, operation <- Operation

\* However its handlers cross, what is left over from one holder never counts under the next:
\* a lease that lapsed unseen, an old viewer, a desktop operation, a hold that is spent the
\* moment it is taken up again.  Lease says what that promises; this refines it.
LeaseRefined == AbstractLease!Spec

=============================================================================

----------------------------- MODULE ViewerSocket -----------------------------
(***************************************************************************)
(* The life of a viewer's socket (src/src/viewer.ts, attachViewerUpgrade   *)
(* and runViewer around the picture): its ticket, the messages that arrive *)
(* before it is set up and are drained afterwards, who it counts as        *)
(* watching, the guest it is cut off from, and its end from either side.   *)
(*                                                                         *)
(* The lease is as much of Control as a socket meets: who holds it, and    *)
(* that it lapses before anybody notices.  A lapse is noticed by whoever   *)
(* reads the lease next, and its event runs the guards of the guest's      *)
(* sockets within that very read.                                          *)
(***************************************************************************)
EXTENDS Naturals, Sequences, SequencesExt

CONSTANTS
    Views,        \* names for sockets, each with its ticket, used once
    MaxViewers,   \* config.guestMaxViewers
    MaxInbox,     \* messages kept until the socket is set up, 64 in the code
    MaxTurnsTaken \* bound: leases taken

ASSUME SocketAssumption == IsFiniteSet(Views) /\ {MaxViewers, MaxInbox, MaxTurnsTaken} \subseteq Nat

VARIABLES
    ticket,       \* per socket: its ticket
    view,         \* per socket: its state on this instance, and whether its far end went without a word
    chair,        \* the control lease
    guestIn,      \* the guest's session lives
    guestViewers, \* open sockets of the guest, as counted
    viewers       \* sockets that watch the browser, as counted

socketVars == <<ticket, view, chair, guestIn, guestViewers, viewers>>

NoTicket == [state |-> "none", who |-> "admin", control |-> FALSE]
\* shown: its client's last word on that; missed: that word was dropped.
NoView == [stage |-> "none", who |-> "admin", control |-> FALSE, inbox |-> <<>>, attached |-> FALSE, shown |-> TRUE,
           missed |-> FALSE, bound |-> 0, deaf |-> FALSE, pinged |-> FALSE]
Open == {"connecting", "ready"}   \* connecting: its Chrome started where it must, and its tab attached
NoOneSits == [holder |-> "nobody", lease |-> 0, lapsed |-> FALSE]

SocketInit ==
    /\ ticket = [s \in Views |-> NoTicket] /\ view = [s \in Views |-> NoView] /\ chair = NoOneSits
    /\ guestIn = TRUE /\ guestViewers = 0 /\ viewers = 0

SocketTypeOK ==
    /\ \A s \in Views : ticket[s].state \in {"none", "fresh", "used"} /\ view[s].stage \in Open \cup {"none", "closed"}
    /\ chair.holder \in {"nobody", "admin", "guest"} /\ chair.lease \in 0..MaxTurnsTaken
    /\ guestViewers \in Nat /\ viewers \in Nat /\ guestIn \in BOOLEAN

---------------------------------------------------------------------------
\* What a turn of the event loop reads and writes: w is the state so far within it.
World == [view |-> view, chair |-> chair, guests |-> guestViewers, viewers |-> viewers]
Outcome(w) == view' = w.view /\ chair' = w.chair /\ guestViewers' = w.guests /\ viewers' = w.viewers

IsOpen(w, s) == w.view[s].stage \in Open
GuestDrives(w, s) == IsOpen(w, s) /\ w.view[s].who = "guest" /\ w.view[s].control

\* A plausible mistake: what was torn down, or hidden, is counted down once more.
TornTwice(w, s) ==
    [w EXCEPT !.view[s] = [NoView EXCEPT !.stage = "closed"],
              !.guests = IF w.view[s].who = "guest" /\ @ > 0 THEN @ - 1 ELSE @,
              !.viewers = IF @ > 0 THEN @ - 1 ELSE @]

\* teardown: once, at any point of the set-up.
Torn(w, s) ==
    IF ~IsOpen(w, s) THEN w
    ELSE [w EXCEPT !.view[s] = [NoView EXCEPT !.stage = "closed"],
                   !.guests = IF w.view[s].who = "guest" THEN @ - 1 ELSE @,
                   !.viewers = IF w.view[s].attached /\ @ > 0 THEN @ - 1 ELSE @]

TornAll(w, ss) == FoldSet(LAMBDA s, acc : Torn(acc, s), w, ss)

\* A control event: the guard of every socket the guest drives with reads the lease, and ends what it no longer has.
Announced(w) == IF w.chair.holder = "guest" THEN w ELSE TornAll(w, {s \in Views : GuestDrives(w, s)})
Freed(w) == Announced([w EXCEPT !.chair = [NoOneSits EXCEPT !.lease = w.chair.lease]])
\* controlState: a lapsed lease is cleared by whoever reads it.
Read(w) == IF w.chair.lapsed THEN Freed(w) ELSE w

\* One message, in handle().
Handled(w, s, msg) ==
    CASE msg = "beat" ->
            IF ~w.view[s].control THEN w
            ELSE LET r == Read(w) IN
                 IF r.chair.holder = r.view[s].who THEN [r EXCEPT !.view[s].bound = r.chair.lease] ELSE r
      [] msg = "show" -> IF w.view[s].attached THEN w
                         ELSE [w EXCEPT !.view[s].attached = TRUE, !.viewers = @ + 1]
      [] msg = "hide" -> IF w.view[s].attached
                         THEN [w EXCEPT !.view[s].attached = FALSE, !.viewers = IF @ > 0 THEN @ - 1 ELSE 0] ELSE w

InboxDrained(w, s, msgs) == FoldLeft(LAMBDA acc, msg : Handled(acc, s, msg), w, msgs)

---------------------------------------------------------------------------
Issues(s, who, control) ==
    /\ ticket[s].state = "none" /\ (who = "guest" => guestIn)
    /\ ticket' = [ticket EXCEPT ![s] = [state |-> "fresh", who |-> who, control |-> control]]
    /\ UNCHANGED <<view, chair, guestIn, guestViewers, viewers>>

Spent(s) == [ticket EXCEPT ![s] = [NoTicket EXCEPT !.state = "used"]]
TicketLapses(s) ==
    /\ ticket[s].state = "fresh" /\ ticket' = Spent(s)
    /\ UNCHANGED <<view, chair, guestIn, guestViewers, viewers>>

(* The upgrade: the ticket is used whatever comes of it; a guest must still be in, under its cap, and
   for a control socket hold the lease. *)
Upgrades(s) ==
    /\ ticket[s].state = "fresh" /\ ticket' = Spent(s)
    /\ LET t == ticket[s]
           asks == t.who = "guest" /\ guestIn /\ guestViewers < MaxViewers
           w == IF asks /\ t.control THEN Read(World) ELSE World
           admits == t.who = "admin" \/ (asks /\ (t.control => w.chair.holder = "guest"))
       IN Outcome(IF ~admits THEN w
                  ELSE [w EXCEPT !.view[s] = [NoView EXCEPT !.stage = "connecting", !.who = t.who, !.control = t.control],
                                 !.guests = IF t.who = "guest" THEN @ + 1 ELSE @])
    /\ UNCHANGED guestIn

\* Chrome did not start, or went: 1011 to the far end, and no hand-back.
LosesChrome(s) ==
    /\ view[s].stage \in Open /\ Outcome(Torn(World, s))
    /\ UNCHANGED <<ticket, guestIn>>

\* Chrome is up and a tab is attached: the socket counts as watching, and what was sent meanwhile is drained, in one turn.
BecomesReady(s) ==
    /\ view[s].stage = "connecting"
    /\ LET w == [World EXCEPT !.view[s] = [@ EXCEPT !.stage = "ready", !.attached = TRUE, !.inbox = <<>>], !.viewers = @ + 1]
       IN Outcome(InboxDrained(w, s, view[s].inbox))
    /\ UNCHANGED <<ticket, guestIn>>

\* A message of the client: kept until the socket is ready, and dropped when as many are kept already.
Sends(s, msg) ==
    /\ view[s].stage \in Open /\ ~view[s].deaf
    /\ LET full == view[s].stage = "connecting" /\ Len(view[s].inbox) >= MaxInbox
           w == IF msg = "beat" THEN World
                ELSE [World EXCEPT !.view[s] = [@ EXCEPT !.shown = (msg = "show"), !.missed = full]] IN
       Outcome(IF view[s].stage = "ready" THEN Handled(w, s, msg)
               ELSE IF full THEN w ELSE [w EXCEPT !.view[s].inbox = Append(@, msg)])
    /\ UNCHANGED <<ticket, guestIn>>

\* close: 1000 and 1001 are a person leaving, and hand back the lease the socket was bound to.
Leaves(s, leaving) ==
    /\ view[s].stage \in Open /\ ~view[s].deaf
    /\ LET w == Torn(World, s)
           r == IF leaving /\ view[s].control /\ view[s].bound # 0 THEN Read(w) ELSE w IN
       Outcome(IF leaving /\ view[s].bound # 0 /\ r.chair.holder # "nobody" /\ r.chair.lease = view[s].bound THEN Freed(r) ELSE r)
    /\ UNCHANGED <<ticket, guestIn>>

GoesDeaf(s) ==
    /\ view[s].stage \in Open /\ ~view[s].deaf /\ view' = [view EXCEPT ![s].deaf = TRUE]
    /\ UNCHANGED <<ticket, chair, guestIn, guestViewers, viewers>>

\* The probe: asked once, and terminated when the next probe finds no answer.
Pings(s) ==
    /\ view[s].stage \in Open /\ view[s].deaf
    /\ Outcome(IF view[s].pinged THEN Torn(World, s) ELSE [World EXCEPT !.view[s].pinged = TRUE])
    /\ UNCHANGED <<ticket, guestIn>>

\* Every ten seconds: expiry has no event.
GuestChecks(s) ==
    /\ view[s].stage \in Open /\ view[s].who = "guest"
    /\ \/ ~guestIn /\ Outcome(Torn(World, s))
       \/ /\ guestIn /\ view[s].control
          /\ LET r == Read(World) IN Outcome(IF r.chair.holder = "guest" THEN r ELSE Torn(r, s))
    /\ UNCHANGED <<ticket, guestIn>>

---------------------------------------------------------------------------
TakesChair(who) ==
    /\ chair.lease < MaxTurnsTaken /\ (who = "guest" => guestIn /\ chair.holder = "nobody")
    /\ Outcome(Announced([World EXCEPT !.chair = [holder |-> who, lease |-> chair.lease + 1, lapsed |-> FALSE]]))
    /\ UNCHANGED <<ticket, guestIn>>
ChairLapses ==
    /\ chair.holder # "nobody" /\ ~chair.lapsed /\ chair' = [chair EXCEPT !.lapsed = TRUE]
    /\ UNCHANGED <<ticket, view, guestIn, guestViewers, viewers>>
SomebodyReads ==
    /\ chair.lapsed /\ Outcome(Read(World)) /\ UNCHANGED <<ticket, guestIn>>

\* The guest's session is revoked, which is announced, or runs out, which is not.
GuestRevoked ==
    /\ guestIn /\ guestIn' = FALSE
    /\ LET w == TornAll(World, {s \in Views : IsOpen(World, s) /\ view[s].who = "guest"}) IN
       Outcome(IF w.chair.holder = "guest" THEN Freed(w) ELSE w)
    /\ UNCHANGED ticket
GuestExpires ==
    /\ guestIn /\ guestIn' = FALSE /\ UNCHANGED <<ticket, view, chair, guestViewers, viewers>>

SocketNext ==
    \/ \E s \in Views :
        \/ \E who \in {"admin", "guest"}, control \in BOOLEAN : Issues(s, who, control)
        \/ TicketLapses(s) \/ Upgrades(s) \/ LosesChrome(s) \/ BecomesReady(s)
        \/ \E msg \in {"beat", "show", "hide"} : Sends(s, msg)
        \/ \E leaving \in BOOLEAN : Leaves(s, leaving)
        \/ GoesDeaf(s) \/ Pings(s) \/ GuestChecks(s)
    \/ \E who \in {"admin", "guest"} : TakesChair(who)
    \/ ChairLapses \/ SomebodyReads \/ GuestRevoked \/ GuestExpires

SocketSpec == SocketInit /\ [][SocketNext]_socketVars

---------------------------------------------------------------------------
(* A browser somebody watches counts every open socket that shows it, unless the very message that said so
   was dropped because too many came before the set-up was over; and a guest's cap counts every socket it
   has open and no other: whatever was queued, dropped, hidden, torn down twice or lost in the set-up. *)
WatchedIsCounted ==
    /\ guestViewers = Cardinality({s \in Views : view[s].stage \in Open /\ view[s].who = "guest"})
    /\ viewers >= Cardinality({s \in Views : view[s].stage = "ready" /\ view[s].shown /\ ~view[s].missed})
=============================================================================

------------------------------ MODULE GuestPlaces ------------------------------
(***************************************************************************)
(* Where a guest's back and forward may lead (src/src/viewer.ts,           *)
(* priorEntries and historyGo).  A tab has a history from before it was    *)
(* shared; an attach of the guest's socket to a tab notes which entries    *)
(* those are, once, and a step of the history reads it again, decides, and *)
(* only then asks Chrome to go.  The agent, the page and the guest's own   *)
(* switching of tabs go on between.                                        *)
(*                                                                         *)
(* Chrome does what one connection asks in the order asked, and answers in *)
(* it.  An entry of a history is a number, new for every page opened.      *)
(* Which tab is attached to, and when, is ViewerTabs': here any, any time. *)
(***************************************************************************)
EXTENDS Naturals, Sequences, Functions

CONSTANTS
    Rooms,       \* tabs
    NoRoom,
    Home,        \* the tab the guest's socket comes to first
    OldPlaces,   \* entries from before it came: the numbers up to this
    MaxPlaces,   \* bound: entries ever
    MaxAttach,   \* bound: attaches of the socket
    MaxAsked     \* bound: commands under way at once

ASSUME PlacesAssumption ==
    /\ Home \in Rooms /\ NoRoom \notin Rooms /\ OldPlaces \in Nat \ {0, 1} /\ MaxPlaces \in Nat
    /\ OldPlaces <= MaxPlaces /\ MaxAttach \in Nat \ {0} /\ MaxAsked \in Nat \ {0}

VARIABLES
    history,     \* Chrome: per tab, its entries and which is current, 0 once the tab is closed
    sessions,    \* Chrome: this socket's sessions, each the number of its attach
    opened,      \* entries so far
    allowed,     \* entries on a host the link allows
    asked,       \* commands under way, in order
    room,        \* the tab of each attach
    current,     \* the viewer's pageSession, 0 for none, and its activeTargetId
    epoch,
    prior,       \* priorEntries: tabs it has a snapshot of, and the entries
    onScreen,    \* what a session of this socket has been on
    led          \* what the guest's back and forward led to

placeVars == <<history, sessions, opened, allowed, asked, room, current, epoch, prior, onScreen, led>>
chromeVars == <<history, sessions, opened, onScreen, led>>
viewerVars == <<current, room, epoch, prior>>

Shut == [entries |-> <<>>, at |-> 0]
OpenRooms == {t \in Rooms : history[t].at # 0}
On(h) == h.entries[h.at]
Entries(h) == {h.entries[i] : i \in 1..Len(h.entries)}
Detached == [session |-> 0, tab |-> NoRoom]

\* A command: what to do, for which attach (leave: of which), and the entry or the step.  The
\* answer: "no", "ok" or "failed", and entries.
Asks(do, my, n) == [do |-> do, my |-> my, n |-> n, done |-> "no", got |-> {}]

PlacesInit ==
    /\ \E at \in 1..OldPlaces - 1 :
        history = [t \in Rooms |-> IF t = Home THEN [entries |-> [i \in 1..OldPlaces - 1 |-> i], at |-> at]
                                   ELSE [entries |-> <<OldPlaces>>, at |-> 1]]
    /\ opened = OldPlaces /\ allowed \in {{}, {1}} /\ sessions = {} /\ room = [n \in 1..MaxAttach |-> Home]
    /\ asked = <<Asks("attach", 1, 0)>> /\ epoch = 1
    /\ current = Detached /\ prior = [t \in {} |-> {}] /\ onScreen = {} /\ led = {}

PlacesTypeOK ==
    /\ DOMAIN history = Rooms /\ sessions \subseteq 1..MaxAttach /\ room \in [1..MaxAttach -> Rooms]
    /\ opened \in 0..MaxPlaces /\ epoch \in 1..MaxAttach /\ DOMAIN prior \subseteq Rooms
    /\ allowed \cup onScreen \cup led \subseteq 1..MaxPlaces
    /\ current \in [session : 0..MaxAttach, tab : Rooms \cup {NoRoom}]

---------------------------------------------------------------------------
(* Chrome, the page and the agent. *)

\* Tab t is on another entry: whoever streams it is shown that.
Becomes(t, h) ==
    /\ history' = [history EXCEPT ![t] = h]
    /\ onScreen' = (IF \E n \in sessions : room[n] = t THEN onScreen \cup {On(h)} ELSE onScreen)

OpensPage(t) ==
    LET h == history[t]
    IN  /\ t \in OpenRooms /\ opened < MaxPlaces /\ opened' = opened + 1
        /\ Becomes(t, [entries |-> Append(SubSeq(h.entries, 1, h.at), opened + 1), at |-> h.at + 1])
        /\ UNCHANGED <<sessions, allowed, asked, led, viewerVars>>

AgentGoes(t) ==
    /\ t \in OpenRooms
    /\ \E at \in 1..Len(history[t].entries) \ {history[t].at} : Becomes(t, [history[t] EXCEPT !.at = at])
    /\ UNCHANGED <<sessions, opened, allowed, asked, led, viewerVars>>

RoomShuts(t) ==
    /\ t \in OpenRooms /\ history' = [history EXCEPT ![t] = Shut]
    /\ sessions' = {n \in sessions : room[n] # t}
    /\ UNCHANGED <<opened, allowed, asked, onScreen, led, viewerVars>>

Answers(i, ok, got) == asked' = [asked EXCEPT ![i].done = IF ok THEN "ok" ELSE "failed", ![i].got = got]

\* Chrome does the oldest command it has not done, or fails at it.
Executes ==
    \E i \in 1..Len(asked) :
        LET c == asked[i]
            h == history[room[c.my]]
        IN  /\ c.done = "no" /\ \A j \in 1..i - 1 : asked[j].done # "no"
            /\ \/ /\ c.do = "leave" /\ sessions' = sessions \ {c.n} /\ Answers(i, TRUE, {})
                  /\ UNCHANGED <<history, onScreen, led>>
               \/ /\ c.do = "attach" /\ room[c.my] \in OpenRooms /\ sessions' = sessions \cup {c.my}
                  /\ onScreen' = onScreen \cup {On(h)} /\ Answers(i, TRUE, {}) /\ UNCHANGED <<history, led>>
               \/ /\ c.do = "look" /\ c.my \in sessions /\ Answers(i, TRUE, Entries(h) \ {On(h)})
                  /\ UNCHANGED <<history, sessions, onScreen, led>>
               \/ /\ c.do = "read" /\ c.my \in sessions
                  /\ Answers(i, TRUE, {h.entries[k] : k \in {h.at + c.n} \cap 1..Len(h.entries)})
                  /\ UNCHANGED <<history, sessions, onScreen, led>>
               \/ /\ c.do = "go" /\ c.my \in sessions /\ Answers(i, TRUE, {}) /\ led' = led \cup {c.n}
                  /\ \E k \in 1..Len(h.entries) : h.entries[k] = c.n /\ Becomes(room[c.my], [h EXCEPT !.at = k])
                  /\ UNCHANGED sessions
               \/ /\ c.do # "leave" /\ Answers(i, FALSE, {})
                  /\ UNCHANGED <<history, sessions, onScreen, led>>
            /\ UNCHANGED <<opened, allowed, viewerVars>>

---------------------------------------------------------------------------
(* The viewer. *)

\* attach(t), up to its first wait: the session it streams goes first.
Attach(t) ==
    /\ epoch < MaxAttach /\ Len(asked) < MaxAsked /\ t # current.tab
    /\ epoch' = epoch + 1 /\ room' = [room EXCEPT ![epoch + 1] = t]
    /\ asked' = Append(asked, IF current.session = 0 THEN Asks("attach", epoch + 1, 0)
                              ELSE Asks("leave", epoch + 1, current.session))
    /\ UNCHANGED <<chromeVars, allowed, current, prior>>

\* targetDestroyed of the tab streamed
LosesTab ==
    /\ current.tab # NoRoom /\ current.tab \notin OpenRooms /\ current' = [current EXCEPT !.tab = NoRoom]
    /\ UNCHANGED <<chromeVars, allowed, asked, room, epoch, prior>>

HistoryGo(delta) ==
    /\ current.session # 0 /\ Len(asked) < MaxAsked
    /\ asked' = Append(asked, Asks("read", current.session, delta))
    /\ UNCHANGED <<chromeVars, allowed, viewerVars>>

\* Mutant: without a snapshot there is nothing to refuse.
RefusedIfKnown(e) == current.tab \in DOMAIN prior /\ e \in prior[current.tab] /\ e \notin allowed

\* What was there before, or nobody knows
Refused(e) == current.tab \notin DOMAIN prior \/ (e \in prior[current.tab] /\ e \notin allowed)

\* The tab of attach n is the one streamed, unless another attach came after.
Settles(n) ==
    IF n = epoch THEN current' = [session |-> n, tab |-> room[n]] /\ asked' = Tail(asked)
    ELSE current' = current /\ asked' = Append(Tail(asked), Asks("leave", 0, n))

\* The oldest command's answer, and what the wait for it goes on with
Hears ==
    LET c == Head(asked)
        t == room[c.my]
        then(next) == asked' = Tail(asked) \o next
    IN  /\ asked # <<>> /\ c.done # "no"
        /\ CASE c.do = "leave" /\ c.my # 0 ->
                    current' = Detached /\ then(<<Asks("attach", c.my, 0)>>) /\ UNCHANGED prior
             [] c.do = "attach" /\ c.done = "ok" /\ t \notin DOMAIN prior ->
                    then(<<Asks("look", c.my, 0)>>) /\ UNCHANGED <<current, prior>>
             [] c.do = "attach" /\ c.done = "ok" /\ t \in DOMAIN prior -> Settles(c.my) /\ UNCHANGED prior
             [] c.do = "look" ->
                    /\ Settles(c.my)
                    /\ prior' = IF c.done = "failed" THEN prior
                                ELSE [u \in DOMAIN prior \cup {t} |-> IF u = t THEN c.got ELSE prior[u]]
             [] c.do = "read" ->
                    /\ then(IF \E e \in c.got : ~Refused(e) THEN <<Asks("go", c.my, CHOOSE e \in c.got : TRUE)>> ELSE <<>>)
                    /\ UNCHANGED <<current, prior>>
             [] OTHER -> then(<<>>) /\ UNCHANGED <<current, prior>>
        /\ UNCHANGED <<chromeVars, allowed, room, epoch>>

PlacesNext ==
    \/ Executes \/ Hears \/ LosesTab
    \/ \E t \in Rooms : OpensPage(t) \/ AgentGoes(t) \/ RoomShuts(t) \/ Attach(t)
    \/ \E delta \in {1, -1} : HistoryGo(delta)

PlacesSpec == PlacesInit /\ [][PlacesNext]_placeVars

---------------------------------------------------------------------------
(* Properties. *)

\* A guest's back and forward lead to no page that was open before it came, unless its link allows the
\* page's host or a session of its was on it: whatever the agent does between the reading, the decision
\* and the step, whichever tab it has switched to meanwhile, and though Chrome did not say what was
\* there (viewer.ts, attach: "Only a real answer counts").
NotBeforeItCame ==
    [][\A e \in led' \ led : e > OldPlaces \/ e \in allowed \/ e \in onScreen]_placeVars
=============================================================================

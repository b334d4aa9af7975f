---------------------------- MODULE DashboardPage ----------------------------
(***************************************************************************)
(* The operator's page of a browser (src/dashboard/app.js): what is on     *)
(* screen, the renders under way, and the live view with its socket.       *)
(*                                                                         *)
(* A render tears the live view down at once and opens another when its    *)
(* two reads are answered, if the operator is still there.  So a view is   *)
(* named by the render that opened it.  The server is as much of viewer.ts *)
(* as a page meets: the lease and the end of each socket.                  *)
(***************************************************************************)
EXTENDS Naturals, Sequences

CONSTANTS
    Pages,        \* browsers with a page of their own
    MaxRenders,   \* bound: renders
    MaxTries,     \* reconnections before the view gives up (6)
    MaxTaken,     \* bound: leases taken
    MaxDropped    \* bound: times a connection fails or is lost

ASSUME PageAssumption == {MaxRenders, MaxTries, MaxTaken, MaxDropped} \subseteq Nat /\ "home" \notin Pages

VARIABLES
    at,           \* the route
    renderSeq,    \* renders started
    render,       \* per render: what it waits for, and the row it was answered
    current,      \* the render whose view is `viewer`, or 0
    pane,         \* per render: its view
    toServer,     \* per view: what its socket carries to the server
    toPage,       \* per view: and back
    seat,         \* per browser: the control lease
    visible,      \* document.visibilityState
    dropped       \* connections that failed, for the bound

pageVars == <<at, renderSeq, render, current, pane, toServer, toPage, seat, visible, dropped>>

Renders == 1..MaxRenders
NoRender == [stage |-> "none", of |-> "home", control |-> FALSE, token |-> 0]
NoPane == [stage |-> "none", of |-> "home", control |-> FALSE, token |-> 0, stopped |-> FALSE, terminal |-> FALSE,
           tries |-> 0, bound |-> FALSE, left |-> FALSE]
Unheld == [by |-> "nobody", token |-> 0]
Over == [NoRender EXCEPT !.stage = "over"]
NoMore == [NoPane EXCEPT !.stage = "closed", !.stopped = TRUE]
Live == {"ticket", "connecting", "open", "waiting"}

PageInit ==
    /\ at = "home" /\ renderSeq = 0 /\ render = [r \in Renders |-> NoRender]
    /\ current = 0 /\ pane = [r \in Renders |-> NoPane]
    /\ toServer = [r \in Renders |-> <<>>] /\ toPage = [r \in Renders |-> <<>>]
    /\ seat = [b \in Pages |-> Unheld] /\ visible = TRUE /\ dropped = 0

PageTypeOK ==
    /\ at \in Pages \cup {"home"} /\ renderSeq \in 0..MaxRenders /\ current \in 0..MaxRenders
    /\ \A r \in Renders : /\ render[r].stage \in {"none", "me", "row", "read", "over"}
                          /\ pane[r].stage \in Live \cup {"none", "closed"}
                          /\ pane[r].tries \in 0..MaxTries
                          /\ toServer[r] \in Seq({"beat", "leave", "keep"}) /\ toPage[r] \in Seq({"expired"})
    /\ \A b \in Pages : seat[b].by \in {"nobody", "admin", "guest", "agent"} /\ seat[b].token \in 0..MaxTaken
    /\ visible \in BOOLEAN /\ dropped \in 0..MaxDropped

---------------------------------------------------------------------------
\* cancel(): timers and handlers go, and an open socket is closed with 4000, which keeps control, or 1000.
Closes(to, code) ==
    /\ current' = 0
    /\ IF current = 0 THEN UNCHANGED <<pane, toServer>>
       ELSE /\ pane' = [pane EXCEPT ![current] =
                           IF @.stage = "open" THEN [@ EXCEPT !.stopped = TRUE, !.stage = "closed", !.left = (to # pane[current].of)]
                           ELSE [NoMore EXCEPT !.stage = IF pane[current].stage = "ticket" THEN "ticket" ELSE "closed"]]
            /\ toServer' = IF pane[current].stage = "open"
                           THEN [toServer EXCEPT ![current] = Append(@, code)] ELSE toServer

\* render(), after go(), a press of Back, or anything the operator did on the page it is about.
Rerenders(to, code) ==
    /\ renderSeq < MaxRenders /\ renderSeq' = renderSeq + 1
    /\ at' = to
    /\ Closes(to, code)
    /\ render' = [render EXCEPT ![renderSeq + 1] = [NoRender EXCEPT !.stage = "me", !.of = to]]

Render(to) == Rerenders(to, "leave") /\ UNCHANGED <<toPage, seat, visible, dropped>>

\* switchSurface, a saved profile, the desktop switch: the view is closed for good, not the operator's turn.
SwitchView ==
    /\ current # 0 /\ Rerenders(at, "keep")
    /\ UNCHANGED <<toPage, seat, visible, dropped>>

\* Who is signed in is known, and the route is shown if it is still this render's.
MeAnswers(r) ==
    /\ render[r].stage = "me"
    /\ render' = [render EXCEPT ![r] = IF r = renderSeq /\ @.of # "home" THEN [@ EXCEPT !.stage = "row"] ELSE Over]
    /\ UNCHANGED <<at, renderSeq, current, pane, toServer, toPage, seat, visible, dropped>>

\* The server reads the row.
RowRead(r) ==
    /\ render[r].stage = "row"
    /\ LET h == seat[render[r].of] IN
       render' = [render EXCEPT ![r] = [@ EXCEPT !.stage = "read", !.control = (h.by = "admin"), !.token = IF h.by = "admin" THEN h.token ELSE 0]]
    /\ UNCHANGED <<at, renderSeq, current, pane, toServer, toPage, seat, visible, dropped>>

ReadFails(r) ==
    /\ render[r].stage \in {"me", "row"} /\ render' = [render EXCEPT ![r] = Over]
    /\ UNCHANGED <<at, renderSeq, current, pane, toServer, toPage, seat, visible, dropped>>

\* As if a row that comes late were painted wherever the operator has gone since.
PaintsLate(r) ==
    /\ render[r].stage = "read" /\ render' = [render EXCEPT ![r] = Over]
    /\ current' = r
    /\ pane' = [pane EXCEPT ![r] = [NoPane EXCEPT !.stage = "ticket", !.of = render[r].of,
                                                  !.control = render[r].control, !.token = render[r].token]]
    /\ UNCHANGED <<at, renderSeq, toServer, toPage, seat, visible, dropped>>

\* browserView, with its second look at whether the operator is still there; a browser that does not run has no view.
Paints(r) ==
    /\ render[r].stage = "read" /\ render' = [render EXCEPT ![r] = Over]
    /\ \/ UNCHANGED <<current, pane>>
       \/ /\ r = renderSeq
          /\ current' = r
          /\ pane' = [pane EXCEPT ![r] = [NoPane EXCEPT !.stage = "ticket", !.of = render[r].of,
                                                        !.control = render[r].control, !.token = render[r].token]]
    /\ UNCHANGED <<at, renderSeq, toServer, toPage, seat, visible, dropped>>

\* schedule(): another attempt after a while, up to a point; then a button is left.
Later(r) == [pane[r] EXCEPT !.bound = FALSE, !.tries = IF @ < MaxTries THEN @ + 1 ELSE @,
                            !.stage = IF pane[r].tries < MaxTries THEN "waiting" ELSE "closed"]

\* open(): the ticket is answered.  A control socket's is refused unless a person has control.
TicketAnswered(r) ==
    /\ pane[r].stage = "ticket"
    /\ LET refused == pane[r].control /\ seat[pane[r].of].by \notin {"admin", "guest"} IN
       pane' = [pane EXCEPT ![r] = IF @.stopped THEN NoMore ELSE IF refused THEN [@ EXCEPT !.stage = "closed", !.terminal = TRUE]
                                   ELSE [@ EXCEPT !.stage = "connecting"]]
    /\ UNCHANGED <<at, renderSeq, render, current, toServer, toPage, seat, visible, dropped>>

TicketFails(r) ==
    /\ pane[r].stage = "ticket" /\ dropped < MaxDropped /\ dropped' = dropped + 1
    /\ pane' = [pane EXCEPT ![r] = IF @.stopped THEN NoMore ELSE Later(r)]
    /\ UNCHANGED <<at, renderSeq, render, current, toServer, toPage, seat, visible>>

\* The socket opens: a control view says first which lease it drives with.
SocketOpens(r) ==
    /\ pane[r].stage = "connecting"
    /\ pane' = [pane EXCEPT ![r].stage = "open", ![r].tries = 0]
    /\ toServer' = IF pane[r].control THEN [toServer EXCEPT ![r] = <<"beat">>] ELSE toServer
    /\ UNCHANGED <<at, renderSeq, render, current, toPage, seat, visible, dropped>>

\* The link is lost, or the server closes the socket with its Chrome gone: neither is the operator leaving.
Drops(r) ==
    /\ pane[r].stage \in {"connecting", "open"} /\ dropped < MaxDropped /\ dropped' = dropped + 1
    /\ pane' = [pane EXCEPT ![r] = Later(r)]
    /\ toServer' = [toServer EXCEPT ![r] = <<>>] /\ toPage' = [toPage EXCEPT ![r] = <<>>]
    /\ UNCHANGED <<at, renderSeq, render, current, seat, visible>>

\* A view refused for good: its ticket is, with the browser gone or the operator signed out, or the display is (1008).
ViewRefused(r) ==
    /\ pane[r].stage \in {"ticket", "connecting", "open"} /\ dropped < MaxDropped /\ dropped' = dropped + 1
    /\ pane' = [pane EXCEPT ![r] = IF @.stopped THEN NoMore
                                   ELSE [@ EXCEPT !.stage = "closed", !.terminal = TRUE, !.bound = FALSE]]
    /\ toServer' = [toServer EXCEPT ![r] = <<>>] /\ toPage' = [toPage EXCEPT ![r] = <<>>]
    /\ UNCHANGED <<at, renderSeq, render, current, seat, visible>>

RetryFires(r) ==
    /\ pane[r].stage = "waiting" /\ pane' = [pane EXCEPT ![r].stage = "ticket"]
    /\ UNCHANGED <<at, renderSeq, render, current, toServer, toPage, seat, visible, dropped>>

\* Reconnect, on a view that gave up.
Reconnects(r) ==
    /\ r = current /\ pane[r].stage = "closed" /\ ~pane[r].terminal
    /\ pane' = [pane EXCEPT ![r].stage = "ticket", ![r].tries = 0]
    /\ UNCHANGED <<at, renderSeq, render, current, toServer, toPage, seat, visible, dropped>>

\* Every 15 seconds, and on the way back to a tab that was hidden: one beat at most is under way here.
Beaten == IF current # 0 /\ pane[current].stage = "open" /\ pane[current].control /\ toServer[current] = <<>>
          THEN [toServer EXCEPT ![current] = <<"beat">>] ELSE toServer
Beat ==
    /\ visible /\ Beaten # toServer /\ toServer' = Beaten
    /\ UNCHANGED <<at, renderSeq, render, current, pane, toPage, seat, visible, dropped>>
TurnsVisible ==
    /\ visible' = ~visible /\ toServer' = IF visible THEN toServer ELSE Beaten
    /\ UNCHANGED <<at, renderSeq, render, current, pane, toPage, seat, dropped>>

Shut(r) == pane' = [pane EXCEPT ![r] = NoMore] /\ toPage' = [toPage EXCEPT ![r] = <<>>]

\* The server, of one view's socket: a beat binds it or is refused, and a close on purpose hands back what it was bound to.
Hears(r) ==
    LET b == pane[r].of
        mine == seat[b].by = "admin" /\ seat[b].token = pane[r].token
    IN /\ toServer[r] # <<>> /\ toServer' = [toServer EXCEPT ![r] = Tail(@)]
       /\ CASE Head(toServer[r]) = "beat" ->
                 /\ pane' = IF mine THEN [pane EXCEPT ![r].bound = TRUE] ELSE pane
                 /\ toPage' = IF mine \/ pane[r].stopped \/ toPage[r] # <<>> THEN toPage ELSE [toPage EXCEPT ![r] = <<"expired">>]
                 /\ UNCHANGED seat
            [] Head(toServer[r]) = "leave" ->
                 /\ seat' = IF mine /\ pane[r].bound THEN [seat EXCEPT ![b].by = "nobody"] ELSE seat
                 /\ Shut(r)
            [] OTHER -> Shut(r) /\ UNCHANGED seat
       /\ UNCHANGED <<at, renderSeq, render, current, visible, dropped>>

\* As if the page took no notice of a lost lease.
HearsNothing(r) ==
    /\ toPage[r] # <<>> /\ toPage' = [toPage EXCEPT ![r] = Tail(@)]
    /\ UNCHANGED <<at, renderSeq, render, current, pane, toServer, seat, visible, dropped>>

\* "lease expired": a view that is still the page's is closed, control kept to whoever has it, and the page rendered anew.
HearsExpired(r) ==
    /\ toPage[r] # <<>> /\ toPage' = [toPage EXCEPT ![r] = Tail(@)]
    /\ IF pane[r].stopped THEN UNCHANGED <<at, renderSeq, render, current, pane, toServer>>
       ELSE IF r = renderSeq /\ renderSeq < MaxRenders THEN Rerenders(at, "keep")
       ELSE Closes(at, "keep") /\ UNCHANGED <<at, renderSeq, render>>
    /\ UNCHANGED <<seat, visible, dropped>>

\* takeControl and returnControl, here or in another tab of the same operator.
OperatorTakes(b) ==
    /\ seat[b].token < MaxTaken
    /\ seat' = [seat EXCEPT ![b] = [by |-> "admin", token |-> @.token + 1]]
    /\ UNCHANGED <<at, renderSeq, render, current, pane, toServer, toPage, visible, dropped>>
OperatorReturns(b) ==
    /\ seat[b].by = "admin" /\ seat' = [seat EXCEPT ![b].by = "nobody"]
    /\ UNCHANGED <<at, renderSeq, render, current, pane, toServer, toPage, visible, dropped>>

\* Outside: a lease lapses, and an agent or a guest takes what nobody has.
OtherwiseHeld(b, by) ==
    /\ by # "nobody" => seat[b].by = "nobody"
    /\ seat[b].by # by /\ seat' = [seat EXCEPT ![b].by = by]
    /\ UNCHANGED <<at, renderSeq, render, current, pane, toServer, toPage, visible, dropped>>

PageNext ==
    \/ \E to \in Pages \cup {"home"} : Render(to)
    \/ SwitchView \/ Beat \/ TurnsVisible
    \/ \E r \in Renders : \/ MeAnswers(r) \/ RowRead(r) \/ ReadFails(r) \/ Paints(r) \/ TicketAnswered(r) \/ TicketFails(r)
                          \/ SocketOpens(r) \/ Drops(r) \/ ViewRefused(r) \/ RetryFires(r) \/ Reconnects(r) \/ Hears(r) \/ HearsExpired(r)
    \/ \E b \in Pages : \/ OperatorTakes(b) \/ OperatorReturns(b)
                        \/ \E by \in {"nobody", "agent", "guest"} : OtherwiseHeld(b, by)

(***************************************************************************)
(* Timers fire, requests are answered and sockets deliver; the operator    *)
(* and the world do as they please.                                        *)
(***************************************************************************)
PageFairness ==
    /\ WF_pageVars(Beat)
    /\ \A r \in Renders : /\ WF_pageVars(TicketAnswered(r) \/ TicketFails(r)) /\ WF_pageVars(SocketOpens(r) \/ Drops(r))
                          /\ WF_pageVars(RetryFires(r)) /\ WF_pageVars(Hears(r)) /\ WF_pageVars(HearsExpired(r))

-----------------------------------------------------------------------------
(***************************************************************************)
(* No view outlives its page: whatever still has a timer, a request or a   *)
(* socket and was not closed is the one view the page knows of, and shows  *)
(* the browser the page is about.  Keys pressed elsewhere in the dashboard *)
(* would otherwise go on into a browser the operator has left.             *)
(***************************************************************************)
OneView ==
    \A r \in Renders : pane[r].stage \in Live =>
        \/ pane[r].stopped /\ pane[r].stage = "ticket"
        \/ r = current /\ pane[r].of = at /\ ~pane[r].stopped

\* The page on screen says that its person has control, and the lease is not that page's.
ClaimsFalsely ==
    /\ current # 0 /\ pane[current].control
    /\ ~(seat[pane[current].of].by = "admin" /\ seat[pane[current].of].token = pane[current].token)

\* The page's view came to an end, and says so over the stage.
GaveUp == current # 0 /\ pane[current].stage = "closed"

(***************************************************************************)
(* A page that is looked at does not go on saying "You have control" when  *)
(* somebody else has the browser: its next beat finds out, after a view    *)
(* that dropped the one that follows, and the page is rendered anew.       *)
(* Excepted is a page whose view came to an end: nothing renders it, and   *)
(* only what the view wrote over the stage says that it is not so (a       *)
(* refused ticket, retries that were spent, a display that was refused).   *)
(***************************************************************************)
FalseClaimEnds == ClaimsFalsely ~> ~ClaimsFalsely \/ ~visible \/ GaveUp

(***************************************************************************)
(* What viewer.ts says of a close with 1000, "the operator left the detail *)
(* view for the fleet list, or navigated away entirely": control is handed *)
(* back by a closed view only of a page the operator left.                 *)
(***************************************************************************)
OnlyLeavingHandsBack ==
    [][\A r \in Renders : toServer'[r] # toServer[r] /\ seat' # seat => pane[r].left]_pageVars

PageSpec == PageInit /\ [][PageNext]_pageVars
=============================================================================

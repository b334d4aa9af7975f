---------------------------- MODULE Viewer_proofs ----------------------------
(***************************************************************************)
(* Proofs about the tabs of a browser and its viewers (ViewerTabs), for    *)
(* any tabs and sockets; the page that shows it (DashboardPage), for any   *)
(* browsers and panels; a viewer's socket (ViewerSocket), for any sockets  *)
(* and turns; the dashboard's lists (DashboardData), for any reads; the    *)
(* moving picture (ViewerStream), for any window of frames; an agent's     *)
(* recordings (Recording), for any number; and the keys of the full        *)
(* browser (DesktopViewer), for any keyboard and queue.                    *)
(*                                                                         *)
(* That a tab is left is not inductive: a socket knows tabs that are gone, *)
(* and Chrome still has tabs it was asked to close. What is kept is a tab  *)
(* that is alive and that nobody has asked Chrome to close (TabsInv): only *)
(* a tab that was asked to close ends, and whoever asks for another either *)
(* leaves one that nobody has asked for, or has crossed others' closes.    *)
(*                                                                         *)
(* That a socket on show is counted is not inductive either: it is told to *)
(* show before it is set up, and handles that only once it is. What is     *)
(* kept is that whatever hides the view in what it has queued is followed  *)
(* by what shows it again (SetUp), unless that was dropped, and while the  *)
(* queue is drained the same of what is left of it (Settling). A turn      *)
(* tears down other sockets in between, which is all it can do to them     *)
(* (Ends).                                                                 *)
(*                                                                         *)
(* A list only advances since one read is under way at most, and what it   *)
(* was answered is no older than what is listed (ReadsInv).                *)
(*                                                                         *)
(* A cast never stalls since the frames it waits for are those on their    *)
(* way, held back, written or owed (AcksDue). What the page shows is not   *)
(* lost since the frames are in order and what is queued for the cast      *)
(* starts and primes it (QueueAgrees, FramesInOrder).                      *)
(*                                                                         *)
(* A key that is down is on record, being let go of or struck off, since   *)
(* the xdotool that runs presses and lets go of what is on record for its  *)
(* key (ToolAgrees); what a press overwrites and what a hung or killed     *)
(* xdotool leaves is named (`lost`).                                       *)
(***************************************************************************)
EXTENDS ViewerTabs, DashboardPage, DashboardData, ViewerSocket, ViewerStream, Recording,
        DesktopViewer, FiniteSetTheorems, SequenceTheorems, WellFoundedInduction, TLAPS

\* The tabs somebody asked Chrome to close.
Asked == UNION {asked[v] : v \in Sockets}
TabRows == [Sockets -> SUBSET Tabs]
TabsInv ==
    /\ targets \in TabRows /\ closing \in TabRows /\ asked \in TabRows
    /\ \A v \in Sockets : /\ closing[v] \subseteq asked[v] /\ targets[v] \cap asked[v] \subseteq closing[v]
                          /\ (targets[v] \cup asked[v]) \cap unborn = {}
                          /\ targets[v] \ Asked \subseteq alive
    /\ unborn \subseteq Tabs
    /\ crossed \/ alive \ Asked # {}

LEMMA TabsInitially == TabsInit => TabsInv
<1>. SUFFICES ASSUME TabsInit PROVE TabsInv
  OBVIOUS
<1>1. PICK first \in Tabs : /\ alive = {first} /\ targets = [v \in Sockets |-> {first}]
                            /\ closing = [v \in Sockets |-> {}] /\ asked = [v \in Sockets |-> {}]
                            /\ unborn = Tabs \ {first}
  BY DEF TabsInit
<1>2. Asked = {}
  BY <1>1 DEF Asked
<1>. QED BY <1>1, <1>2 DEF TabsInv, TabRows

\* What a socket counts on is asked of nobody, unless the closes crossed.
LEMMA CloseKeeps ==
    ASSUME TabsInv, NEW v \in Sockets, NEW t \in Tabs, CloseTab(v, t)
    PROVE  TabsInv'
<1>. DEFINE left == targets[v] \ (asked[v] \cup {t})
<1>1. /\ t \in targets[v] \ closing[v] /\ Cardinality(targets[v] \ closing[v]) >= 2
      /\ closing' = [closing EXCEPT ![v] = @ \cup {t}] /\ asked' = [asked EXCEPT ![v] = @ \cup {t}]
      /\ crossed' = (crossed \/ (left # {} /\ left \subseteq AskedByOthers(v)))
      /\ UNCHANGED <<alive, targets, unborn>>
  BY DEF CloseTab, MayClose, chromeTabs
<1>2. /\ targets \in TabRows /\ closing \in TabRows /\ asked \in TabRows
      /\ \A u \in Sockets : /\ closing[u] \subseteq asked[u] /\ targets[u] \cap asked[u] \subseteq closing[u]
                            /\ (targets[u] \cup asked[u]) \cap unborn = {} /\ targets[u] \ Asked \subseteq alive
  BY DEF TabsInv
<1>3. /\ closing' \in TabRows /\ asked' \in TabRows
      /\ \A u \in Sockets : /\ closing'[u] = IF u = v THEN closing[v] \cup {t} ELSE closing[u]
                            /\ asked'[u] = IF u = v THEN asked[v] \cup {t} ELSE asked[u]
  BY <1>1, <1>2 DEF TabRows
<1>4. Asked' = Asked \cup {t} /\ Asked = asked[v] \cup AskedByOthers(v)
  BY <1>3 DEF Asked, AskedByOthers
<1>5. left # {}
  <2>1. targets[v] \ closing[v] # {t}
    <3>1. Cardinality({t}) = 1
      BY FS_Singleton
    <3>. QED BY <1>1, <3>1
  <2>. QED BY <1>1, <1>2, <2>1
<1>6. crossed' \/ alive \ Asked' # {}
  BY <1>1, <1>2, <1>4, <1>5
<1>7. \A u \in Sockets : /\ closing'[u] \subseteq asked'[u] /\ targets[u] \cap asked'[u] \subseteq closing'[u]
                         /\ (targets[u] \cup asked'[u]) \cap unborn = {} /\ targets[u] \ Asked' \subseteq alive
  BY <1>1, <1>2, <1>3, <1>4
<1>. QED BY <1>1, <1>2, <1>3, <1>6, <1>7 DEF TabsInv

LEMMA FailsKeeps ==
    ASSUME TabsInv, NEW v \in Sockets, NEW t \in Tabs, CloseFails(v, t)
    PROVE  TabsInv'
<1>1. /\ t \in alive
      /\ closing' = [closing EXCEPT ![v] = @ \ {t}] /\ asked' = [asked EXCEPT ![v] = @ \ {t}]
      /\ UNCHANGED <<alive, targets, unborn, crossed>>
  BY DEF CloseFails, chromeTabs
<1>2. /\ targets \in TabRows /\ closing \in TabRows /\ asked \in TabRows
      /\ \A u \in Sockets : /\ closing[u] \subseteq asked[u] /\ targets[u] \cap asked[u] \subseteq closing[u]
                            /\ (targets[u] \cup asked[u]) \cap unborn = {} /\ targets[u] \ Asked \subseteq alive
      /\ crossed \/ alive \ Asked # {}
  BY DEF TabsInv
<1>3. /\ closing' \in TabRows /\ asked' \in TabRows
      /\ \A u \in Sockets : /\ closing'[u] = IF u = v THEN closing[v] \ {t} ELSE closing[u]
                            /\ asked'[u] = IF u = v THEN asked[v] \ {t} ELSE asked[u]
  BY <1>1, <1>2 DEF TabRows
<1>4. Asked' \subseteq Asked /\ Asked \subseteq Asked' \cup {t}
  BY <1>3 DEF Asked
<1>5. \A u \in Sockets : /\ closing'[u] \subseteq asked'[u] /\ targets[u] \cap asked'[u] \subseteq closing'[u]
                         /\ (targets[u] \cup asked'[u]) \cap unborn = {} /\ targets[u] \ Asked' \subseteq alive
  BY <1>1, <1>2, <1>3, <1>4
<1>. QED BY <1>1, <1>2, <1>3, <1>4, <1>5 DEF TabsInv

LEMMA StruckKeeps ==
    ASSUME TabsInv, NEW v \in Sockets, NEW t \in Tabs, TargetDestroyed(v, t)
    PROVE  TabsInv'
<1>1. /\ targets' = [targets EXCEPT ![v] = @ \ {t}] /\ closing' = [closing EXCEPT ![v] = @ \ {t}]
      /\ UNCHANGED <<alive, unborn, asked, crossed>>
  BY DEF TargetDestroyed, chromeTabs
<1>2. /\ targets' \in TabRows /\ closing' \in TabRows
      /\ \A u \in Sockets : /\ closing'[u] = IF u = v THEN closing[v] \ {t} ELSE closing[u]
                            /\ targets'[u] = IF u = v THEN targets[v] \ {t} ELSE targets[u]
  BY <1>1 DEF TabsInv, TabRows
<1>3. Asked' = Asked
  BY <1>1 DEF Asked
<1>. QED BY <1>1, <1>2, <1>3 DEF TabsInv

\* A tab that opens is known to every socket, and nobody asked to close it.
LEMMA OpenKeeps ==
    ASSUME TabsInv, NEW t \in unborn \cap Tabs, alive' = alive \cup {t}, unborn' = unborn \ {t}, targets' = KnownToAll(t),
           UNCHANGED askVars
    PROVE  TabsInv'
<1>1. targets' \in TabRows /\ \A u \in Sockets : targets'[u] = targets[u] \cup {t}
  BY DEF TabsInv, TabRows, KnownToAll
<1>2. Asked' = Asked /\ UNCHANGED <<closing, asked, crossed>>
  BY DEF Asked, askVars
<1>. QED BY <1>1, <1>2 DEF TabsInv

LEMMA TabStays == ASSUME TabsInv, UNCHANGED <<alive, unborn, targets, askVars>> PROVE TabsInv'
BY DEF TabsInv, Asked, TabRows, askVars

LEMMA TabsStep == TabsInv /\ [TabsNext]_tabVars => TabsInv'
<1>. SUFFICES ASSUME TabsInv, [TabsNext]_tabVars PROVE TabsInv'
  OBVIOUS
<1>. unborn \subseteq Tabs
  BY DEF TabsInv
<1>1. CASE TabOpens
  BY <1>1, OpenKeeps DEF TabOpens
<1>2. CASE NewTab
  BY <1>2, OpenKeeps DEF NewTab
<1>3. ASSUME NEW v \in Sockets, Bind(v) PROVE TabsInv'
  BY <1>3, TabStays DEF Bind, chromeTabs
<1>4. CASE Released
  BY <1>4, TabStays DEF Released, chromeTabs
<1>5. ASSUME NEW t \in Tabs, TabCloses(t) PROVE TabsInv'
  <2>1. /\ \E v \in Sockets : t \in closing[v]
        /\ alive' = alive \ {t} /\ UNCHANGED <<unborn, targets, closing, asked, crossed>>
    BY <1>5 DEF TabCloses, askVars
  <2>2. Asked' = Asked /\ t \in Asked
    BY <2>1 DEF Asked, TabsInv
  <2>. QED BY <2>1, <2>2 DEF TabsInv, TabRows
<1>6. ASSUME NEW v \in Sockets, NEW t \in Tabs, TargetDestroyed(v, t) \/ CloseTab(v, t) \/ CloseFails(v, t)
      PROVE  TabsInv'
  BY <1>6, StruckKeeps, CloseKeeps, FailsKeeps
<1>7. ASSUME NEW t \in Tabs, Navigates(t) \/ SelectTab(t) PROVE TabsInv'
  BY <1>7, TabStays DEF Navigates, SelectTab, chromeTabs
<1>8. ASSUME NEW w \in showing, PageShows(w) \/ ShowAnswered(w) PROVE TabsInv'
  BY <1>8, TabStays DEF PageShows, ShowAnswered, chromeTabs
<1>9. ASSUME NEW a \in attaches, AttachStep(a) PROVE TabsInv'
  BY <1>9, TabStays DEF AttachStep, Undressed, Detached, Attached, AttachFails, Dresses, Dressed, chromeTabs
<1>10. CASE UNCHANGED tabVars
  BY <1>10, TabStays DEF tabVars, askVars
<1>. QED BY <1>1, <1>2, <1>3, <1>4, <1>5, <1>6, <1>7, <1>8, <1>9, <1>10 DEF TabsNext

\* However many tabs are asked to close at once, by however many sockets, and however late Chrome
\* says that they did, the browser keeps one (Chrome would exit with its last), unless a socket
\* closed a tab when all it had left were tabs that others had asked to close.
THEOREM OneTabStays == TabsSpec => []LastTabStays
<1>1. TabsInv => LastTabStays
  BY DEF TabsInv, LastTabStays
<1>. QED BY <1>1, TabsInitially, TabsStep, PTL DEF TabsSpec

---------------------------------------------------------------------------
(* The operator's page (DashboardPage). *)

Routes == Pages \cup {"home"}
Words == {"beat", "leave", "keep"}
RenderRows == [stage: {"none", "me", "row", "read", "over"}, of: Routes, control: BOOLEAN, token: 0..MaxTaken]
PaneRows == [stage: Live \cup {"none", "closed"}, of: Routes, control: BOOLEAN, token: 0..MaxTaken, stopped: BOOLEAN,
             terminal: BOOLEAN, tries: 0..MaxTries, bound: BOOLEAN, left: BOOLEAN]
SeatRows == [by: {"nobody", "admin", "guest", "agent"}, token: 0..MaxTaken]
Pending(r) == render[r].stage \in {"me", "row", "read"}

RendersOK == at \in Routes /\ renderSeq \in 0..MaxRenders /\ render \in [Renders -> RenderRows]
PanesOK ==
    /\ current \in {0} \cup Renders /\ pane \in [Renders -> PaneRows]
    /\ toServer \in [Renders -> Seq(Words)] /\ toPage \in [Renders -> Seq({"expired"})]
SeatsOK == seat \in [Pages -> SeatRows] /\ visible \in BOOLEAN /\ dropped \in 0..MaxDropped

\* A render that has not begun left no trace.
Unbegun == \A r \in Renders : r > renderSeq => render[r].stage = "none" /\ toServer[r] = <<>>
\* The last render is of the route, and while it is answered no view is on screen.
Awaited == \A r \in Renders : Pending(r) =>
    /\ toServer[r] = <<>> /\ r # current
    /\ r = renderSeq => render[r].of = at /\ current = 0
    /\ render[r].stage = "row" => render[r].of \in Pages
\* The view the page knows of is of the route, and its socket was told of no end.
OnScreen == current # 0 =>
    current <= renderSeq /\ ~pane[current].stopped /\ pane[current].of = at /\ toServer[current] \in Seq({"beat"})

PageInv == RendersOK /\ PanesOK /\ SeatsOK /\ Unbegun /\ Awaited /\ OnScreen /\ OneView

LEMMA PageRows ==
    /\ NoRender \in RenderRows /\ Over \in RenderRows /\ NoPane \in PaneRows /\ NoMore \in PaneRows /\ Unheld \in SeatRows
    /\ Over.stage = "over" /\ NoMore.stage = "closed" /\ NoMore.stopped /\ NoPane.stage = "none" /\ NoRender.stage = "none"
    /\ Renders \subseteq Nat \ {0} /\ MaxRenders \in Nat /\ MaxTries \in Nat /\ MaxTaken \in Nat /\ MaxDropped \in Nat
<1>1. MaxRenders \in Nat /\ MaxTries \in Nat /\ MaxTaken \in Nat /\ MaxDropped \in Nat
  BY PageAssumption
<1>2. NoRender \in RenderRows /\ NoRender.stage = "none"
  BY <1>1 DEF NoRender, RenderRows, Routes
<1>5. Over \in RenderRows /\ Over.stage = "over"
  BY <1>2 DEF Over, RenderRows
<1>3. NoPane \in PaneRows /\ NoPane.stage = "none"
  BY <1>1 DEF NoPane, PaneRows, Routes
<1>4. NoMore \in PaneRows /\ NoMore.stage = "closed" /\ NoMore.stopped
  BY <1>3 DEF NoMore, PaneRows
<1>. QED BY <1>1, <1>2, <1>3, <1>4, <1>5 DEF Unheld, SeatRows, Renders

LEMMA Carried ==
    ASSUME NEW S, NEW q \in Seq(S)
    PROVE  /\ <<>> \in Seq(S)
           /\ \A e \in S : Append(q, e) \in Seq(S) /\ <<e>> \in Seq(S)
           /\ q # <<>> => Tail(q) \in Seq(S) /\ Head(q) \in S
  OBVIOUS

LEMMA PageInitially == PageInit => PageInv
<1>. SUFFICES ASSUME PageInit PROVE PageInv
  OBVIOUS
<1>1. RendersOK /\ SeatsOK
  BY PageRows DEF PageInit, RendersOK, SeatsOK, Routes
<1>2. PanesOK
  BY PageRows, Carried DEF PageInit, PanesOK
<1>3. Unbegun /\ Awaited /\ OnScreen /\ OneView
  BY PageRows DEF PageInit, Unbegun, Awaited, Pending, OnScreen, OneView, Live
<1>. QED BY <1>1, <1>2, <1>3 DEF PageInv

\* Closing the view that is on screen leaves none that lives on, however the socket was.
LEMMA ViewClosed ==
    ASSUME PageInv, NEW to \in Routes, NEW code \in {"leave", "keep"}, Closes(to, code)
    PROVE  /\ current' = 0 /\ pane' \in [Renders -> PaneRows] /\ toServer' \in [Renders -> Seq(Words)]
           /\ \A r \in Renders : pane'[r].stage \in Live => pane'[r].stopped /\ pane'[r].stage = "ticket"
           /\ \A r \in Renders : r # current => toServer'[r] = toServer[r]
<1>1. CASE current = 0
  BY <1>1, PageRows DEF Closes, PageInv, PanesOK, OneView
<1>2. CASE current # 0
  <2>1. PICK c \in Renders : c = current
    BY <1>2 DEF PageInv, PanesOK
  <2>2. /\ pane[c] \in PaneRows /\ toServer[c] \in Seq(Words)
        /\ \A r \in Renders \ {c} : pane[r].stage \in Live => pane[r].stopped /\ pane[r].stage = "ticket"
    BY <2>1 DEF PageInv, PanesOK, OneView
  <2>5. Append(toServer[c], code) \in Seq(Words)
    BY <2>2, Carried DEF Words
  <2>3. /\ current' = 0 /\ toServer' \in [Renders -> Seq(Words)]
        /\ \A r \in Renders : r # c => toServer'[r] = toServer[r]
    BY <1>2, <2>1, <2>5 DEF Closes, PageInv, PanesOK
  <2>4. PICK row \in PaneRows : pane' = [pane EXCEPT ![c] = row] /\ (row.stage \in Live => row.stopped /\ row.stage = "ticket")
    <3>1. CASE pane[c].stage = "open"
      <4>. DEFINE row == [pane[c] EXCEPT !.stopped = TRUE, !.stage = "closed", !.left = (to # pane[c].of)]
      <4>1. row \in PaneRows /\ row.stage = "closed"
        BY <2>2 DEF PaneRows
      <4>. QED BY <1>2, <2>1, <3>1, <4>1 DEF Closes, PageInv, PanesOK, Live
    <3>2. CASE pane[c].stage # "open"
      <4>. DEFINE row == [NoMore EXCEPT !.stage = IF pane[c].stage = "ticket" THEN "ticket" ELSE "closed"]
      <4>1. row \in PaneRows /\ row.stopped /\ row.stage \in {"ticket", "closed"}
        BY PageRows DEF PaneRows, Live
      <4>. QED BY <1>2, <2>1, <3>2, <4>1 DEF Closes, PageInv, PanesOK, Live
    <3>. QED BY <3>1, <3>2
  <2>. QED BY <2>1, <2>2, <2>3, <2>4 DEF PageInv, PanesOK
<1>. QED BY <1>1, <1>2

\* A new render, whatever it is of.
LEMMA RendersAnew ==
    ASSUME PageInv, NEW to \in Routes, NEW code \in {"leave", "keep"}, Rerenders(to, code),
           toPage' \in [Renders -> Seq({"expired"})], UNCHANGED <<seat, visible, dropped>>
    PROVE  PageInv'
<1>. DEFINE n == renderSeq + 1
<1>1. /\ n \in Renders /\ renderSeq' = n /\ at' = to /\ Closes(to, code) /\ n \in 0..MaxRenders
      /\ render' = [render EXCEPT ![n] = [NoRender EXCEPT !.stage = "me", !.of = to]]
  BY PageRows DEF Rerenders, Renders, PageInv, RendersOK
<1>2. [NoRender EXCEPT !.stage = "me", !.of = to] \in RenderRows
  BY PageRows DEF RenderRows
<1>3. /\ render' \in [Renders -> RenderRows] /\ render'[n].stage = "me" /\ render'[n].of = to
      /\ \A r \in Renders \ {n} : render'[r] = render[r]
  BY <1>1, <1>2, PageRows DEF PageInv, RendersOK, RenderRows
<1>4. /\ current' = 0 /\ pane' \in [Renders -> PaneRows] /\ toServer' \in [Renders -> Seq(Words)]
      /\ \A r \in Renders : pane'[r].stage \in Live => pane'[r].stopped /\ pane'[r].stage = "ticket"
      /\ \A r \in Renders : r # current => toServer'[r] = toServer[r]
  BY <1>1, ViewClosed
<1>5. RendersOK' /\ PanesOK' /\ SeatsOK' /\ OneView' /\ OnScreen'
  BY <1>1, <1>3, <1>4 DEF PageInv, RendersOK, PanesOK, SeatsOK, OneView, OnScreen
<1>6. current <= renderSeq \/ current = 0
  BY DEF PageInv, OnScreen
<1>7. \A r \in Renders : r > n => r > renderSeq /\ r # n /\ r # current
  BY <1>6, PageRows DEF PageInv, RendersOK
<1>8. Unbegun'
  BY <1>1, <1>3, <1>4, <1>7 DEF PageInv, Unbegun
<1>9. n # current /\ n > renderSeq
  BY <1>1, <1>6, PageRows DEF PageInv, RendersOK
<1>. HIDE DEF n
<1>10. Awaited'
  <2>. SUFFICES ASSUME NEW r \in Renders, render'[r].stage \in {"me", "row", "read"}
                PROVE  /\ toServer'[r] = <<>> /\ r # current'
                       /\ r = renderSeq' => render'[r].of = at' /\ current' = 0
                       /\ render'[r].stage = "row" => render'[r].of \in Pages
    BY DEF Awaited, Pending
  <2>1. r # 0 /\ r # current'
    BY <1>4, PageRows
  <2>2. CASE r = n
    BY <1>1, <1>3, <1>4, <1>9, <2>1, <2>2 DEF PageInv, Unbegun
  <2>3. CASE r # n
    <3>1. render'[r] = render[r] /\ Pending(r) /\ toServer[r] = <<>> /\ r # current
      BY <1>3, <2>3 DEF Pending, PageInv, Awaited
    <3>. QED BY <1>1, <1>4, <2>1, <2>3, <3>1 DEF PageInv, Awaited
  <2>. QED BY <2>2, <2>3
<1>. QED BY <1>5, <1>8, <1>10 DEF PageInv

\* The view on screen is closed for good, and its render is over.
LEMMA JustCloses ==
    ASSUME PageInv, Closes(at, "keep"), UNCHANGED <<at, renderSeq, render, seat, visible, dropped>>,
           toPage' \in [Renders -> Seq({"expired"})]
    PROVE  PageInv'
<1>1. /\ current' = 0 /\ pane' \in [Renders -> PaneRows] /\ toServer' \in [Renders -> Seq(Words)]
      /\ \A r \in Renders : pane'[r].stage \in Live => pane'[r].stopped /\ pane'[r].stage = "ticket"
      /\ \A r \in Renders : r # current => toServer'[r] = toServer[r]
  BY ViewClosed DEF PageInv, RendersOK
<1>2. RendersOK' /\ PanesOK' /\ SeatsOK' /\ OneView' /\ OnScreen'
  BY <1>1 DEF PageInv, RendersOK, PanesOK, SeatsOK, OneView, OnScreen
<1>3. \A r \in Renders : r > renderSeq => r # current
  BY PageRows DEF PageInv, OnScreen, RendersOK, PanesOK
<1>4. Unbegun'
  BY <1>1, <1>3 DEF PageInv, Unbegun
<1>5. \A r \in Renders : r # 0
  BY PageRows
<1>6. Awaited'
  BY <1>1, <1>5 DEF PageInv, Awaited, Pending
<1>. QED BY <1>2, <1>4, <1>6 DEF PageInv

\* One view, or what its socket carries, changes: only the view on screen comes to life.
LEMMA OnePane ==
    ASSUME PageInv, NEW r \in Renders, NEW row \in PaneRows, pane' = [pane EXCEPT ![r] = row],
           UNCHANGED <<at, renderSeq, render, current, visible>>, dropped' \in 0..MaxDropped, seat' \in [Pages -> SeatRows],
           toServer' \in [Renders -> Seq(Words)], toPage' \in [Renders -> Seq({"expired"})],
           \A q \in Renders : toServer'[q] = toServer[q] \/ toServer[q] # <<>> \/ q = current,
           current # 0 => toServer'[current] \in Seq({"beat"}),
           \A q \in Renders : toServer[q] = <<>> /\ q # current => toServer'[q] = <<>>,
           row.stage \in Live => (row.stopped /\ row.stage = "ticket") \/ (r = current /\ row.of = at /\ ~row.stopped),
           r = current => row.of = at /\ ~row.stopped
    PROVE  PageInv'
<1>1. /\ pane' \in [Renders -> PaneRows] /\ pane'[r] = row
      /\ \A q \in Renders \ {r} : pane'[q] = pane[q]
  BY DEF PageInv, PanesOK
<1>2. RendersOK' /\ PanesOK' /\ SeatsOK' /\ OneView'
  BY <1>1 DEF PageInv, RendersOK, PanesOK, SeatsOK, OneView
<1>3. current \in Renders \/ current = 0
  BY DEF PageInv, PanesOK
<1>4. OnScreen'
  BY <1>1, <1>3 DEF PageInv, OnScreen
<1>5. \A q \in Renders : q > renderSeq => q # current
  BY PageRows DEF PageInv, OnScreen, RendersOK, PanesOK
<1>6. Unbegun'
  BY <1>5 DEF PageInv, Unbegun
<1>7. Awaited'
  BY DEF PageInv, Awaited, Pending
<1>. QED BY <1>2, <1>4, <1>6, <1>7 DEF PageInv

\* A view that is still shown: alive, and not a request of a view that was closed.
LEMMA ShownIsCurrent ==
    ASSUME PageInv, NEW r \in Renders, pane[r].stage \in Live, pane[r].stage # "ticket" \/ ~pane[r].stopped
    PROVE  r = current /\ pane[r].of = at /\ ~pane[r].stopped
  BY DEF PageInv, OneView

\* schedule() keeps the view.
LEMMA LaterRow ==
    ASSUME PageInv, NEW r \in Renders
    PROVE  Later(r) \in PaneRows /\ Later(r).of = pane[r].of /\ Later(r).stopped = pane[r].stopped
<1>1. pane[r] \in PaneRows /\ pane[r].tries \in Nat
  BY PageRows DEF PageInv, PanesOK, PaneRows
<1>2. pane[r].tries < MaxTries => pane[r].tries + 1 \in 0..MaxTries
  BY <1>1, PageRows
<1>. QED BY <1>1, <1>2 DEF Later, PaneRows, Live

LEMMA RenderStep ==
    ASSUME PageInv, NEW r \in Renders, MeAnswers(r) \/ RowRead(r) \/ ReadFails(r)
    PROVE  PageInv'
<1>1. Pending(r) /\ UNCHANGED <<at, renderSeq, current, pane, toServer, toPage, seat, visible, dropped>>
  BY DEF MeAnswers, RowRead, ReadFails, Pending
<1>2. render[r] \in RenderRows
  BY DEF PageInv, RendersOK
<1>3. PICK row \in RenderRows : /\ render' = [render EXCEPT ![r] = row] /\ (row.stage = "over" \/ row.of = render[r].of)
                                /\ row.stage = "row" => row.of \in Pages
  <2>1. CASE MeAnswers(r)
    <3>1. CASE r = renderSeq /\ render[r].of # "home"
      <4>. DEFINE row == [render[r] EXCEPT !.stage = "row"]
      <4>1. row \in RenderRows /\ row.of = render[r].of /\ row.of \in Pages
        BY <1>2, <3>1 DEF RenderRows, Routes
      <4>. QED BY <2>1, <3>1, <4>1 DEF MeAnswers, PageInv, RendersOK
    <3>2. CASE ~(r = renderSeq /\ render[r].of # "home")
      BY <2>1, <3>2, PageRows DEF MeAnswers, PageInv, RendersOK
    <3>. QED BY <3>1, <3>2
  <2>2. CASE RowRead(r)
    <3>1. render[r].of \in Pages
      BY <2>2, <1>1 DEF RowRead, PageInv, Awaited
    <3>. DEFINE h == seat[render[r].of]
                token == IF h.by = "admin" THEN h.token ELSE 0
                row == [render[r] EXCEPT !.stage = "read", !.control = (h.by = "admin"), !.token = token]
    <3>2. token \in 0..MaxTaken
      BY <3>1, PageRows DEF PageInv, SeatsOK, SeatRows
    <3>. HIDE DEF token
    <3>3. row \in RenderRows /\ row.of = render[r].of /\ row.stage = "read"
      BY <1>2, <3>2 DEF RenderRows
    <3>. QED BY <2>2, <3>3 DEF RowRead, token
  <2>3. CASE ReadFails(r)
    BY <2>3, PageRows DEF ReadFails
  <2>. QED BY <2>1, <2>2, <2>3
<1>4. render' \in [Renders -> RenderRows] /\ render'[r] = row /\ \A q \in Renders \ {r} : render'[q] = render[q]
  BY <1>3 DEF PageInv, RendersOK
<1>5. RendersOK' /\ PanesOK' /\ SeatsOK' /\ OneView' /\ OnScreen'
  BY <1>1, <1>4 DEF PageInv, RendersOK, PanesOK, SeatsOK, OneView, OnScreen
<1>6. Unbegun'
  BY <1>1, <1>4 DEF PageInv, Unbegun, Pending
<1>7. Awaited'
  BY <1>1, <1>3, <1>4 DEF PageInv, Awaited, Pending
<1>. QED BY <1>5, <1>6, <1>7 DEF PageInv

LEMMA PaintStep ==
    ASSUME PageInv, NEW r \in Renders, Paints(r)
    PROVE  PageInv'
<1>1. /\ Pending(r) /\ render' = [render EXCEPT ![r] = Over]
      /\ UNCHANGED <<at, renderSeq, toServer, toPage, seat, visible, dropped>>
  BY DEF Paints, Pending
<1>2. render' \in [Renders -> RenderRows] /\ render'[r].stage = "over" /\ \A q \in Renders \ {r} : render'[q] = render[q]
  BY <1>1, PageRows DEF PageInv, RendersOK
<1>3. Unbegun' /\ RendersOK' /\ SeatsOK' /\ toServer[r] = <<>>
  BY <1>1, <1>2 DEF PageInv, Unbegun, Pending, RendersOK, SeatsOK, Awaited
<1>4. CASE UNCHANGED <<current, pane>>
  <2>1. PanesOK' /\ OneView' /\ OnScreen'
    BY <1>1, <1>4 DEF PageInv, PanesOK, OneView, OnScreen
  <2>2. Awaited'
    BY <1>1, <1>2, <1>4 DEF PageInv, Awaited, Pending
  <2>. QED BY <1>3, <2>1, <2>2 DEF PageInv
<1>5. CASE r = renderSeq /\ current' = r /\ ~UNCHANGED <<current, pane>>
  <2>. DEFINE row == [NoPane EXCEPT !.stage = "ticket", !.of = render[r].of, !.control = render[r].control, !.token = render[r].token]
  <2>1. pane' = [pane EXCEPT ![r] = row] /\ render[r].of = at /\ current = 0 /\ render[r] \in RenderRows
    BY <1>1, <1>5 DEF Paints, PageInv, Awaited, RendersOK
  <2>2. row \in PaneRows /\ row.of = at /\ ~row.stopped
    <3>1. render[r].of \in Routes /\ render[r].control \in BOOLEAN /\ render[r].token \in 0..MaxTaken
      BY <2>1 DEF RenderRows
    <3>2. NoPane \in PaneRows /\ ~NoPane.stopped
      BY PageRows DEF NoPane
    <3>3. [NoPane EXCEPT !.stage = "ticket"] \in PaneRows /\ ~[NoPane EXCEPT !.stage = "ticket"].stopped
      BY <3>2 DEF PaneRows, Live
    <3>4. \A p \in PaneRows : [p EXCEPT !.of = render[r].of, !.control = render[r].control, !.token = render[r].token] \in PaneRows
      BY <3>1 DEF PaneRows
    <3>5. row = [[NoPane EXCEPT !.stage = "ticket"] EXCEPT !.of = render[r].of, !.control = render[r].control, !.token = render[r].token]
      BY <3>2 DEF PaneRows
    <3>6. row.of = render[r].of /\ ~row.stopped
      BY <3>2 DEF PaneRows
    <3>. QED BY <2>1, <3>3, <3>4, <3>5, <3>6
  <2>. HIDE DEF row
  <2>3. pane' \in [Renders -> PaneRows] /\ pane'[r] = row /\ \A q \in Renders \ {r} : pane'[q] = pane[q]
    BY <2>1, <2>2 DEF PageInv, PanesOK
  <2>4. PanesOK' /\ OneView'
    BY <1>1, <1>5, <2>1, <2>2, <2>3, PageRows DEF PageInv, PanesOK, OneView
  <2>7. <<>> \in Seq({"beat"})
    OBVIOUS
  <2>5. OnScreen'
    <3>1. pane'[r].of = at' /\ ~pane'[r].stopped /\ toServer'[r] = <<>>
      BY <1>1, <1>3, <2>2, <2>3
    <3>2. r <= renderSeq'
      BY <1>1, <1>5 DEF PageInv, RendersOK
    <3>. QED BY <1>5, <2>7, <3>1, <3>2 DEF OnScreen
  <2>6. Awaited'
    BY <1>1, <1>2, <1>5, <2>1 DEF PageInv, Awaited, Pending
  <2>. QED BY <1>3, <2>4, <2>5, <2>6 DEF PageInv
<1>. QED BY <1>4, <1>5 DEF Paints

LEMMA Unsaid == ASSUME NEW S PROVE <<>> \in Seq(S) /\ \A e \in S : <<e>> \in Seq(S)
  OBVIOUS

\* What a view does of itself, or the server of its socket.
LEMMA PaneStep ==
    ASSUME PageInv, NEW r \in Renders,
           TicketAnswered(r) \/ TicketFails(r) \/ SocketOpens(r) \/ Drops(r) \/ ViewRefused(r)
               \/ RetryFires(r) \/ Reconnects(r)
    PROVE  PageInv'
<1>1. UNCHANGED <<at, renderSeq, render, current, visible, seat>> /\ dropped' \in 0..MaxDropped
  BY PageRows DEF TicketAnswered, TicketFails, SocketOpens, Drops, ViewRefused, RetryFires, Reconnects, PageInv, SeatsOK
<1>2. pane[r] \in PaneRows /\ toServer[r] \in Seq(Words) /\ seat' \in [Pages -> SeatRows]
  BY <1>1 DEF PageInv, PanesOK, SeatsOK
<1>3. toServer' \in [Renders -> Seq(Words)] /\ toPage' \in [Renders -> Seq({"expired"})]
  <2>1. toServer' \in {toServer, [toServer EXCEPT ![r] = <<"beat">>], [toServer EXCEPT ![r] = <<>>]}
    BY DEF TicketAnswered, TicketFails, SocketOpens, Drops, ViewRefused, RetryFires, Reconnects
  <2>2. toPage' \in {toPage, [toPage EXCEPT ![r] = <<>>]}
    BY DEF TicketAnswered, TicketFails, SocketOpens, Drops, ViewRefused, RetryFires, Reconnects
  <2>3. <<>> \in Seq(Words) /\ <<"beat">> \in Seq(Words) /\ <<>> \in Seq({"expired"})
    BY Unsaid DEF Words
  <2>. QED BY <2>1, <2>2, <2>3 DEF PageInv, PanesOK
<1>4. current # 0 => current \in Renders /\ ~pane[current].stopped /\ pane[current].of = at /\ toServer[current] \in Seq({"beat"})
  BY DEF PageInv, PanesOK, OnScreen
<1>5. pane[r].stage \in Live /\ ~(pane[r].stage = "ticket" /\ pane[r].stopped) => r = current
  BY ShownIsCurrent
<1>6. /\ \A q \in Renders : toServer'[q] = toServer[q] \/ toServer[q] # <<>> \/ q = current
      /\ current # 0 => toServer'[current] \in Seq({"beat"})
      /\ \A q \in Renders : toServer[q] = <<>> /\ q # current => toServer'[q] = <<>>
  <2>1. CASE SocketOpens(r)
    BY <1>4, <1>5, <2>1, Unsaid DEF SocketOpens, PageInv, PanesOK, Live
  <2>2. CASE toServer' = [toServer EXCEPT ![r] = <<>>]
    BY <1>4, <2>2, Unsaid DEF PageInv, PanesOK
  <2>3. CASE UNCHANGED toServer
    BY <1>4, <2>3
  <2>. QED BY <2>1, <2>2, <2>3 DEF TicketAnswered, TicketFails, Drops, ViewRefused, RetryFires, Reconnects
<1>7. PICK row \in PaneRows :
        /\ pane' = [pane EXCEPT ![r] = row]
        /\ \/ row = NoMore /\ pane[r].stopped /\ r # current
           \/ (pane[r].of = row.of /\ row.stopped = pane[r].stopped /\ (row.stage \in Live => r = current))
  <2>1. CASE TicketAnswered(r) \/ TicketFails(r)
    <3>1. CASE pane[r].stopped
      BY <1>4, <2>1, <3>1, PageRows DEF TicketAnswered, TicketFails, PageInv, PanesOK
    <3>2. CASE ~pane[r].stopped
      <4>1. r = current
        BY <1>5, <2>1, <3>2 DEF TicketAnswered, TicketFails, Live
      <4>2. CASE TicketFails(r)
        BY <3>2, <4>1, <4>2, LaterRow DEF TicketFails
      <4>3. CASE TicketAnswered(r)
        <5>. DEFINE no == [pane[r] EXCEPT !.stage = "closed", !.terminal = TRUE]
                    yes == [pane[r] EXCEPT !.stage = "connecting"]
        <5>1. no \in PaneRows /\ no.of = pane[r].of /\ no.stopped = pane[r].stopped
          BY <1>2 DEF PaneRows
        <5>2. yes \in PaneRows /\ yes.of = pane[r].of /\ yes.stopped = pane[r].stopped
          BY <1>2 DEF PaneRows, Live
        <5>3. pane' = [pane EXCEPT ![r] = no] \/ pane' = [pane EXCEPT ![r] = yes]
          BY <3>2, <4>3 DEF TicketAnswered, PageInv, PanesOK
        <5>. QED BY <4>1, <5>1, <5>2, <5>3
      <4>. QED BY <2>1, <4>2, <4>3
    <3>. QED BY <3>1, <3>2
  <2>2. CASE SocketOpens(r)
    <3>. DEFINE row == [pane[r] EXCEPT !.stage = "open", !.tries = 0]
    <3>1. row \in PaneRows /\ row.of = pane[r].of /\ row.stopped = pane[r].stopped
      <4>1. 0 \in 0..MaxTries /\ "open" \in Live
        BY PageRows DEF Live
      <4>. QED BY <1>2, <4>1 DEF PaneRows
    <3>2. r = current
      BY <1>5, <2>2 DEF SocketOpens, Live
    <3>3. pane' = [pane EXCEPT ![r] = row]
      BY <2>2 DEF SocketOpens, PageInv, PanesOK
    <3>. QED BY <3>1, <3>2, <3>3
  <2>3. CASE Drops(r)
    <3>1. r = current
      BY <1>5, <2>3 DEF Drops, Live
    <3>. QED BY <2>3, <3>1, LaterRow DEF Drops
  <2>4. CASE RetryFires(r)
    <3>. DEFINE row == [pane[r] EXCEPT !.stage = "ticket"]
    <3>1. row \in PaneRows /\ row.of = pane[r].of /\ row.stopped = pane[r].stopped
      BY <1>2 DEF PaneRows, Live
    <3>2. r = current
      BY <1>5, <2>4 DEF RetryFires, Live
    <3>3. pane' = [pane EXCEPT ![r] = row]
      BY <2>4 DEF RetryFires, PageInv, PanesOK
    <3>. QED BY <3>1, <3>2, <3>3
  <2>5. CASE Reconnects(r)
    <3>. DEFINE row == [pane[r] EXCEPT !.stage = "ticket", !.tries = 0]
    <3>1. row \in PaneRows /\ row.of = pane[r].of /\ row.stopped = pane[r].stopped
      <4>1. 0 \in 0..MaxTries /\ "ticket" \in Live
        BY PageRows DEF Live
      <4>. QED BY <1>2, <4>1 DEF PaneRows
    <3>2. pane' = [pane EXCEPT ![r] = row] /\ r = current
      BY <2>5 DEF Reconnects, PageInv, PanesOK
    <3>. QED BY <3>1, <3>2
  <2>6. CASE ViewRefused(r)
    <3>1. CASE pane[r].stopped
      BY <1>4, <2>6, <3>1, PageRows DEF ViewRefused, PageInv, PanesOK
    <3>2. CASE ~pane[r].stopped
      <4>. DEFINE row == [pane[r] EXCEPT !.stage = "closed", !.terminal = TRUE, !.bound = FALSE]
      <4>1. row \in PaneRows /\ row.of = pane[r].of /\ row.stopped = pane[r].stopped
        BY <1>2 DEF PaneRows
      <4>2. pane' = [pane EXCEPT ![r] = row] /\ r = current
        BY <1>5, <2>6, <3>2 DEF ViewRefused, PageInv, PanesOK, Live
      <4>. QED BY <4>1, <4>2
    <3>. QED BY <3>1, <3>2
  <2>. QED BY <2>1, <2>2, <2>3, <2>4, <2>5, <2>6
<1>8. /\ row.stage \in Live => (row.stopped /\ row.stage = "ticket") \/ (r = current /\ row.of = at /\ ~row.stopped)
      /\ r = current => row.of = at /\ ~row.stopped
  BY <1>4, <1>7, PageRows DEF Live
<1>. QED BY <1>1, <1>2, <1>3, <1>6, <1>7, <1>8, OnePane

LEMMA ServerStep ==
    ASSUME PageInv, NEW r \in Renders, Hears(r)
    PROVE  PageInv'
<1>. DEFINE b == pane[r].of
            mine == seat[b].by = "admin" /\ seat[b].token = pane[r].token
            word == Head(toServer[r])
<1>1. /\ toServer[r] # <<>> /\ toServer' = [toServer EXCEPT ![r] = Tail(@)]
      /\ UNCHANGED <<at, renderSeq, render, current, visible, dropped>>
      /\ pane[r] \in PaneRows /\ toServer[r] \in Seq(Words) /\ dropped \in 0..MaxDropped
  BY DEF Hears, PageInv, PanesOK, SeatsOK
<1>2. current # 0 => current \in Renders /\ ~pane[current].stopped /\ pane[current].of = at /\ toServer[current] \in Seq({"beat"})
  BY DEF PageInv, PanesOK, OnScreen
<1>3. toServer' \in [Renders -> Seq(Words)]
  BY <1>1, Carried DEF PageInv, PanesOK
<1>4. r = current => word = "beat" /\ Tail(toServer[r]) \in Seq({"beat"})
  <2>1. ASSUME NEW q \in Seq({"beat"}), q # <<>> PROVE Head(q) = "beat" /\ Tail(q) \in Seq({"beat"})
    BY <2>1, Carried
  <2>2. r # 0
    BY PageRows
  <2>. QED BY <1>1, <1>2, <2>1, <2>2
<1>5. /\ \A q \in Renders : toServer'[q] = toServer[q] \/ toServer[q] # <<>> \/ q = current
      /\ current # 0 => toServer'[current] \in Seq({"beat"})
      /\ \A q \in Renders : toServer[q] = <<>> /\ q # current => toServer'[q] = <<>>
  BY <1>1, <1>2, <1>4 DEF PageInv, PanesOK
<1>6. /\ seat' \in [Pages -> SeatRows] /\ toPage' \in [Renders -> Seq({"expired"})]
  <2>1. word = "beat" \/ word # "beat"
    OBVIOUS
  <2>2. [seat EXCEPT ![b].by = "nobody"] \in [Pages -> SeatRows] /\ seat \in [Pages -> SeatRows]
    BY DEF PageInv, SeatsOK, SeatRows
  <2>3. toPage \in [Renders -> Seq({"expired"})] /\ <<>> \in Seq({"expired"}) /\ <<"expired">> \in Seq({"expired"})
    BY Unsaid DEF PageInv, PanesOK
  <2>4. seat' = seat \/ seat' = [seat EXCEPT ![b].by = "nobody"]
    BY DEF Hears
  <2>5. toPage' = toPage \/ toPage' = [toPage EXCEPT ![r] = <<"expired">>] \/ toPage' = [toPage EXCEPT ![r] = <<>>]
    BY DEF Hears, Shut
  <2>. QED BY <2>2, <2>3, <2>4, <2>5
<1>7. PICK row \in PaneRows :
        /\ pane' = [pane EXCEPT ![r] = row]
        /\ \/ row = NoMore /\ r # current
           \/ (pane[r].of = row.of /\ row.stopped = pane[r].stopped /\ row.stage = pane[r].stage)
  <2>1. CASE word = "beat" /\ mine
    <3>. DEFINE row == [pane[r] EXCEPT !.bound = TRUE]
    <3>1. row \in PaneRows /\ pane[r].of = row.of /\ row.stopped = pane[r].stopped /\ row.stage = pane[r].stage
      BY <1>1 DEF PaneRows
    <3>2. pane' = [pane EXCEPT ![r] = row]
      BY <2>1 DEF Hears, PageInv, PanesOK
    <3>. QED BY <3>1, <3>2
  <2>2. CASE word = "beat" /\ ~mine
    <3>1. pane' = [pane EXCEPT ![r] = pane[r]]
      BY <2>2 DEF Hears, PageInv, PanesOK
    <3>. QED BY <1>1, <3>1
  <2>3. CASE word # "beat"
    BY <1>4, <2>3, PageRows DEF Hears, Shut
  <2>. QED BY <2>1, <2>2, <2>3
<1>. HIDE DEF b, mine, word
<1>8. /\ row.stage \in Live => (row.stopped /\ row.stage = "ticket") \/ (r = current /\ row.of = at /\ ~row.stopped)
      /\ r = current => row.of = at /\ ~row.stopped
  BY <1>2, <1>7, PageRows DEF Live, PageInv, OneView
<1>. QED BY <1>1, <1>3, <1>5, <1>6, <1>7, <1>8, OnePane

\* Beats carry no word but their own.
LEMMA BeatStep == ASSUME PageInv, Beat \/ TurnsVisible PROVE PageInv'
<1>1. UNCHANGED <<at, renderSeq, render, current, pane, toPage, seat, dropped>> /\ visible' \in BOOLEAN
  BY DEF Beat, TurnsVisible, PageInv, SeatsOK
<1>2. toServer' = toServer \/ (current # 0 /\ toServer' = [toServer EXCEPT ![current] = <<"beat">>])
  BY DEF Beat, TurnsVisible, Beaten
<1>3. current # 0 => current \in Renders /\ current <= renderSeq
  BY DEF PageInv, PanesOK, OnScreen
<1>4. RendersOK' /\ PanesOK' /\ SeatsOK' /\ OneView'
  BY <1>1, <1>2, Unsaid DEF PageInv, RendersOK, PanesOK, SeatsOK, OneView, Words
<1>5. OnScreen'
  BY <1>1, <1>2, <1>3, Unsaid DEF PageInv, OnScreen, PanesOK
<1>6. \A q \in Renders : q # current => toServer'[q] = toServer[q]
  BY <1>2 DEF PageInv, PanesOK
<1>7. \A q \in Renders : q > renderSeq => q # current
  BY <1>3, PageRows DEF PageInv, RendersOK
<1>8. Unbegun' /\ Awaited'
  BY <1>1, <1>6, <1>7 DEF PageInv, Unbegun, Awaited, Pending
<1>. QED BY <1>4, <1>5, <1>8 DEF PageInv

LEMMA PageStep == PageInv /\ [PageNext]_pageVars => PageInv'
<1>. SUFFICES ASSUME PageInv, [PageNext]_pageVars PROVE PageInv'
  OBVIOUS
<1>1. ASSUME UNCHANGED <<at, renderSeq, render, current, pane, toServer, toPage, visible, dropped>>, seat' \in [Pages -> SeatRows]
      PROVE  PageInv'
  BY <1>1 DEF PageInv, RendersOK, PanesOK, SeatsOK, Unbegun, Awaited, Pending, OnScreen, OneView
<1>2. CASE UNCHANGED pageVars
  BY <1>1, <1>2 DEF pageVars, PageInv, SeatsOK
<1>3. ASSUME NEW to \in Pages \cup {"home"}, Render(to) PROVE PageInv'
  BY <1>3, RendersAnew DEF Render, Routes, PageInv, PanesOK
<1>4. CASE SwitchView
  BY <1>4, RendersAnew DEF SwitchView, PageInv, PanesOK, RendersOK
<1>5. CASE Beat \/ TurnsVisible
  BY <1>5, BeatStep
<1>6. ASSUME NEW r \in Renders, HearsExpired(r) PROVE PageInv'
  <2>1. toPage' \in [Renders -> Seq({"expired"})] /\ UNCHANGED <<seat, visible, dropped>> /\ at \in Routes
    BY <1>6, Carried DEF HearsExpired, PageInv, PanesOK, RendersOK
  <2>2. CASE UNCHANGED <<at, renderSeq, render, current, pane, toServer>>
    BY <2>1, <2>2 DEF PageInv, RendersOK, PanesOK, SeatsOK, Unbegun, Awaited, Pending, OnScreen, OneView
  <2>3. CASE Rerenders(at, "keep")
    BY <2>1, <2>3, RendersAnew
  <2>4. CASE Closes(at, "keep") /\ UNCHANGED <<at, renderSeq, render>>
    BY <2>1, <2>4, JustCloses
  <2>. QED BY <1>6, <2>2, <2>3, <2>4 DEF HearsExpired
<1>7. ASSUME NEW r \in Renders, MeAnswers(r) \/ RowRead(r) \/ ReadFails(r) \/ Paints(r) \/ TicketAnswered(r) \/ TicketFails(r)
                                \/ SocketOpens(r) \/ Drops(r) \/ ViewRefused(r) \/ RetryFires(r) \/ Reconnects(r) \/ Hears(r)
      PROVE  PageInv'
  BY <1>7, RenderStep, PaintStep, PaneStep, ServerStep
<1>8. ASSUME NEW b \in Pages, OperatorTakes(b) \/ OperatorReturns(b) \/ \E by \in {"nobody", "agent", "guest"} : OtherwiseHeld(b, by)
      PROVE  PageInv'
  <2>1. UNCHANGED <<at, renderSeq, render, current, pane, toServer, toPage, visible, dropped>>
    BY <1>8 DEF OperatorTakes, OperatorReturns, OtherwiseHeld
  <2>2. seat[b] \in SeatRows /\ seat[b].token \in Nat
    BY PageRows DEF PageInv, SeatsOK, SeatRows
  <2>3. seat' \in [Pages -> SeatRows]
    BY <1>8, <2>2, PageRows DEF OperatorTakes, OperatorReturns, OtherwiseHeld, PageInv, SeatsOK, SeatRows
  <2>. QED BY <1>1, <2>1, <2>3
<1>. QED BY <1>2, <1>3, <1>4, <1>5, <1>6, <1>7, <1>8 DEF PageNext

LEMMA PageInvariant == PageSpec => []PageInv
  BY PageInitially, PageStep, PTL DEF PageSpec

\* Renders, views, their sockets and the seats keep their types.
THEOREM PageTypes == PageSpec => []PageTypeOK
<1>1. ASSUME PageInv PROVE PageTypeOK
  <2>1. at \in Pages \cup {"home"} /\ renderSeq \in 0..MaxRenders /\ current \in 0..MaxRenders
    BY <1>1, PageRows DEF PageInv, RendersOK, PanesOK, Routes, Renders
  <2>2. ASSUME NEW r \in Renders
        PROVE  /\ render[r].stage \in {"none", "me", "row", "read", "over"}
               /\ pane[r].stage \in Live \cup {"none", "closed"}
               /\ pane[r].tries \in 0..MaxTries
               /\ toServer[r] \in Seq({"beat", "leave", "keep"}) /\ toPage[r] \in Seq({"expired"})
    BY <1>1 DEF PageInv, RendersOK, PanesOK, RenderRows, PaneRows, Words
  <2>3. ASSUME NEW b \in Pages PROVE seat[b].by \in {"nobody", "admin", "guest", "agent"} /\ seat[b].token \in 0..MaxTaken
    BY <1>1 DEF PageInv, SeatsOK, SeatRows
  <2>. QED BY <1>1, <2>1, <2>2, <2>3 DEF PageTypeOK, PageInv, SeatsOK
<1>. QED BY <1>1, PageInvariant, PTL

\* However many renders, retries and late answers: no view but the one on screen lives on.
THEOREM OneViewOnly == PageSpec => []OneView
<1>1. PageInv => OneView
  BY DEF PageInv
<1>. QED BY <1>1, PageInvariant, PTL

---------------------------------------------------------------------------
(* A viewer's socket (ViewerSocket): folds over finite sets first. *)

LEMMA LeastExists ==
    ASSUME NEW S \in SUBSET Nat, S # {}
    PROVE  \E n \in S : \A m \in S : n <= m
<1>1. PICK n \in S : \A m \in S : ~(<<m, n>> \in OpToRel(<, Nat))
  BY WFMin, NatLessThanWellFounded
<1>2. ASSUME NEW m \in S PROVE n <= m
  <2>1. m \in Nat /\ n \in Nat
    OBVIOUS
  <2>2. ASSUME m < n PROVE <<m, n>> \in OpToRel(<, Nat)
    <3>1. <<m, n>> \in Nat \X Nat /\ <<m, n>>[1] < <<m, n>>[2]
      BY <2>1, <2>2
    <3>. QED BY <3>1 DEF OpToRel
  <2>3. ~(m < n)
    BY <1>1, <2>2
  <2>. QED BY <2>1, <2>3
<1>. QED BY <1>2

\* Induction over a finite set: a family that has every subset whose proper subsets it has.
LEMMA SubsetInduction ==
    ASSUME NEW B, IsFiniteSet(B), NEW Q,
           \A s \in SUBSET B : (\A t \in SUBSET s : t # s => t \in Q) => s \in Q
    PROVE  \A s \in SUBSET B : s \in Q
<1>. DEFINE Missing == {Cardinality(s) : s \in {t \in SUBSET B : t \notin Q}}
<1>1. \A s \in SUBSET B : IsFiniteSet(s) /\ Cardinality(s) \in Nat
  BY FS_Subset, FS_CardinalityType
<1>2. ASSUME Missing # {} PROVE FALSE
  <2>1. PICK n \in Missing : \A m \in Missing : n <= m
    <3>1. Missing \in SUBSET Nat
      BY <1>1
    <3>. HIDE DEF Missing
    <3>. QED BY <1>2, <3>1, LeastExists
  <2>2. PICK s \in SUBSET B : s \notin Q /\ n = Cardinality(s)
    BY <2>1
  <2>3. PICK t \in SUBSET s : t # s /\ t \notin Q
    BY <2>2
  <2>4. /\ Cardinality(t) < Cardinality(s) /\ Cardinality(t) \in Missing
        /\ Cardinality(t) \in Nat /\ Cardinality(s) \in Nat
    BY <1>1, <2>3, FS_Subset
  <2>. HIDE DEF Missing
  <2>. QED BY <2>1, <2>2, <2>4
<1>. QED BY <1>2

\* What a fold has made of every subset, with the order and the step it is taken with as functions.
Folding(h, S, base, pick, step) ==
    h = [s \in SUBSET S |-> IF s = {} THEN base ELSE step[pick[s]][h[s \ {pick[s]}]]]

LEMMA FoldExists ==
    ASSUME NEW S, IsFiniteSet(S), NEW base, NEW step,
           NEW pick, \A s \in SUBSET S : s # {} => pick[s] \in s
    PROVE  \E h : Folding(h, S, base, pick, step)
<1>. DEFINE Next1(g) == [s \in SUBSET S |-> IF s = {} THEN base ELSE step[pick[s]][g[s \ {pick[s]}]]]
            Upto(g, n) == \A s \in SUBSET S : Cardinality(s) <= n =>
                             g[s] = IF s = {} THEN base ELSE step[pick[s]][g[s \ {pick[s]}]]
            Numbers == {n \in Nat : \E g : g = [s \in SUBSET S |-> g[s]] /\ Upto(g, n)}
<1>1. \A s \in SUBSET S : IsFiniteSet(s) /\ Cardinality(s) \in Nat /\ (Cardinality(s) = 0 <=> s = {})
  BY FS_Subset, FS_CardinalityType, FS_EmptySet
<1>2. \A s \in SUBSET S : s # {} => s \ {pick[s]} \in SUBSET S /\ Cardinality(s \ {pick[s]}) = Cardinality(s) - 1
  BY <1>1, FS_RemoveElement
<1>3. 0 \in Numbers
  <2>. DEFINE g == [s \in SUBSET S |-> base]
  <2>1. \A s \in SUBSET S : Cardinality(s) <= 0 => s = {}
    BY <1>1
  <2>2. Upto(g, 0)
    BY <2>1
  <2>. HIDE DEF Upto
  <2>. QED BY <2>2
<1>4. ASSUME NEW n \in Numbers PROVE n + 1 \in Numbers
  <2>1. PICK g : Upto(g, n)
    BY <1>4
  <2>. DEFINE h == Next1(g)
  <2>2. ASSUME NEW s \in SUBSET S, Cardinality(s) <= n PROVE h[s] = g[s]
    BY <2>1, <2>2
  <2>3. ASSUME NEW s \in SUBSET S, Cardinality(s) <= n + 1
        PROVE  h[s] = IF s = {} THEN base ELSE step[pick[s]][h[s \ {pick[s]}]]
    <3>1. CASE s # {}
      <4>1. Cardinality(s \ {pick[s]}) <= n /\ s \ {pick[s]} \in SUBSET S
        <5>1. n \in Nat /\ Cardinality(s) \in Nat
          BY <1>1, <1>4
        <5>. QED BY <1>2, <2>3, <3>1, <5>1
      <4>2. h[s \ {pick[s]}] = g[s \ {pick[s]}]
        BY <2>2, <4>1
      <4>3. h[s] = step[pick[s]][g[s \ {pick[s]}]]
        BY <3>1
      <4>. QED BY <3>1, <4>2, <4>3
    <3>2. CASE s = {}
      BY <3>2
    <3>. QED BY <3>1, <3>2
  <2>. HIDE DEF h
  <2>4. Upto(h, n + 1)
    BY <2>3
  <2>6. n + 1 \in Nat
    BY <1>4
  <2>5. h = [s \in SUBSET S |-> h[s]]
    BY DEF h
  <2>. HIDE DEF Upto
  <2>. QED BY <2>4, <2>5, <2>6
<1>5. Cardinality(S) \in Numbers
  <2>. HIDE DEF Numbers
  <2>1. ASSUME Nat \ Numbers # {} PROVE FALSE
    <3>1. PICK n \in Nat \ Numbers : \A m \in Nat \ Numbers : n <= m
      BY <2>1, LeastExists
    <3>2. n # 0 /\ n - 1 \in Nat /\ (n - 1) + 1 = n /\ ~(n <= n - 1)
      BY <1>3, <3>1
    <3>3. n - 1 \in Numbers
      BY <3>1, <3>2
    <3>. QED BY <1>4, <3>1, <3>2, <3>3
  <2>. QED BY <1>1, <2>1
<1>6. PICK g : g = [s \in SUBSET S |-> g[s]] /\ Upto(g, Cardinality(S))
  BY <1>5
<1>7. \A s \in SUBSET S : Cardinality(s) <= Cardinality(S)
  BY FS_Subset
<1>8. \A s \in SUBSET S : g[s] = Next1(g)[s]
  <2>. TAKE s \in SUBSET S
  <2>1. g[s] = IF s = {} THEN base ELSE step[pick[s]][g[s \ {pick[s]}]]
    BY <1>6, <1>7
  <2>. QED BY <2>1
<1>9. g = Next1(g)
  <2>. HIDE DEF Next1
  <2>1. Next1(g) = [s \in SUBSET S |-> Next1(g)[s]]
    BY DEF Next1
  <2>. QED BY <1>6, <1>8, <2>1
<1>. QED BY <1>9 DEF Folding

Whos == {"admin", "guest"}
Told == {"beat", "show", "hide"}
TicketRows == [state: {"none", "fresh", "used"}, who: Whos, control: BOOLEAN]
ViewRows == [stage: Open \cup {"none", "closed"}, who: Whos, control: BOOLEAN, inbox: Seq(Told), attached: BOOLEAN,
             shown: BOOLEAN, missed: BOOLEAN, bound: Nat, deaf: BOOLEAN, pinged: BOOLEAN]
ChairRows == [holder: {"nobody", "admin", "guest"}, lease: 0..MaxTurnsTaken, lapsed: BOOLEAN]
Worlds == [view: [Views -> ViewRows], chair: ChairRows, guests: Int, viewers: Int]
ClosedView == [NoView EXCEPT !.stage = "closed"]

\* What is counted within a turn is what is there.
OpenGuests(w) == {s \in Views : IsOpen(w, s) /\ w.view[s].who = "guest"}
Watching(w) == {s \in Views : w.view[s].attached}
Counted(w) == w \in Worlds /\ w.guests = Cardinality(OpenGuests(w)) /\ w.viewers = Cardinality(Watching(w))

\* What comes of a socket that is torn down at most.
Ends(w, r) == Counted(r) /\ \A s \in Views : r.view[s] = w.view[s] \/ (IsOpen(w, s) /\ r.view[s] = ClosedView)

LEMMA SocketRows ==
    /\ NoView \in ViewRows /\ ClosedView \in ViewRows /\ NoTicket \in TicketRows
    /\ NoOneSits \in ChairRows /\ ClosedView.stage = "closed" /\ ~ClosedView.attached /\ NoView.stage = "none" /\ ~NoView.attached
    /\ MaxTurnsTaken \in Nat /\ MaxViewers \in Nat /\ MaxInbox \in Nat /\ IsFiniteSet(Views)
<1>1. MaxTurnsTaken \in Nat /\ MaxViewers \in Nat /\ MaxInbox \in Nat /\ IsFiniteSet(Views)
  BY SocketAssumption
<1>2. NoView \in ViewRows /\ NoView.stage = "none" /\ ~NoView.attached
  BY DEF NoView, ViewRows, Whos, Told
<1>3. ClosedView \in ViewRows /\ ClosedView.stage = "closed" /\ ~ClosedView.attached
  BY <1>2 DEF ClosedView, ViewRows
<1>4. NoOneSits \in ChairRows
  BY <1>1 DEF NoOneSits, ChairRows
<1>. QED BY <1>1, <1>2, <1>3, <1>4 DEF NoTicket, TicketRows, Whos

\* One socket in or out of a count.
LEMMA CountsOne ==
    ASSUME NEW A \in SUBSET Views, NEW s \in Views
    PROVE  /\ Cardinality(A) \in Nat
           /\ s \in A => Cardinality(A) > 0 /\ Cardinality(A \ {s}) = Cardinality(A) - 1
           /\ s \notin A => Cardinality(A \cup {s}) = Cardinality(A) + 1
<1>1. IsFiniteSet(A) /\ Cardinality(A) \in Nat
  BY SocketRows, FS_Subset, FS_CardinalityType
<1>2. ASSUME s \in A PROVE Cardinality(A) > 0 /\ Cardinality(A \ {s}) = Cardinality(A) - 1
  <2>1. Cardinality(A \ {s}) = Cardinality(A) - 1
    BY <1>1, <1>2, FS_RemoveElement
  <2>2. Cardinality(A) # 0
    BY <1>1, <1>2, FS_EmptySet
  <2>. QED BY <1>1, <2>1, <2>2
<1>3. s \notin A => Cardinality(A \cup {s}) = Cardinality(A) + 1
  BY <1>1, FS_AddElement
<1>. QED BY <1>1, <1>2, <1>3

\* A socket's row replaced: each count moves by what that row alone changes.
LEMMA Recounted ==
    ASSUME NEW w \in Worlds, NEW s \in Views, NEW r \in Worlds, NEW row \in ViewRows,
           r.view = [w.view EXCEPT ![s] = row], Counted(w),
           r.guests = IF IsOpen(w, s) /\ w.view[s].who = "guest"
                      THEN IF row.stage \in Open /\ row.who = "guest" THEN w.guests ELSE w.guests - 1
                      ELSE IF row.stage \in Open /\ row.who = "guest" THEN w.guests + 1 ELSE w.guests,
           r.viewers = IF w.view[s].attached THEN IF row.attached THEN w.viewers ELSE w.viewers - 1
                       ELSE IF row.attached THEN w.viewers + 1 ELSE w.viewers
    PROVE  Counted(r)
<1>. DEFINE opens == row.stage \in Open /\ row.who = "guest"
<1>1. OpenGuests(w) \in SUBSET Views /\ Watching(w) \in SUBSET Views
  BY DEF OpenGuests, Watching
<1>2. /\ OpenGuests(r) = IF opens THEN OpenGuests(w) \cup {s} ELSE OpenGuests(w) \ {s}
      /\ Watching(r) = IF row.attached THEN Watching(w) \cup {s} ELSE Watching(w) \ {s}
  BY DEF OpenGuests, Watching, IsOpen, Worlds
<1>3. /\ s \in OpenGuests(w) <=> IsOpen(w, s) /\ w.view[s].who = "guest"
      /\ s \in Watching(w) <=> w.view[s].attached
  BY DEF OpenGuests, Watching
<1>4. w.guests = Cardinality(OpenGuests(w)) /\ w.viewers = Cardinality(Watching(w))
  BY DEF Counted
<1>5. r.guests = Cardinality(OpenGuests(r))
  <2>1. CASE s \in OpenGuests(w) /\ opens
    BY <1>2, <1>3, <1>4, <2>1
  <2>2. CASE s \in OpenGuests(w) /\ ~opens
    BY <1>1, <1>2, <1>3, <1>4, <2>2, CountsOne
  <2>3. CASE s \notin OpenGuests(w) /\ opens
    BY <1>1, <1>2, <1>3, <1>4, <2>3, CountsOne
  <2>4. CASE s \notin OpenGuests(w) /\ ~opens
    BY <1>2, <1>3, <1>4, <2>4
  <2>. QED BY <2>1, <2>2, <2>3, <2>4
<1>6. r.viewers = Cardinality(Watching(r))
  <2>1. CASE s \in Watching(w) /\ row.attached
    BY <1>2, <1>3, <1>4, <2>1
  <2>2. CASE s \in Watching(w) /\ ~row.attached
    BY <1>1, <1>2, <1>3, <1>4, <2>2, CountsOne
  <2>3. CASE s \notin Watching(w) /\ row.attached
    BY <1>1, <1>2, <1>3, <1>4, <2>3, CountsOne
  <2>4. CASE s \notin Watching(w) /\ ~row.attached
    BY <1>2, <1>3, <1>4, <2>4
  <2>. QED BY <2>1, <2>2, <2>3, <2>4
<1>. QED BY <1>5, <1>6 DEF Counted

LEMMA EndsItself == ASSUME NEW w, Counted(w) PROVE Ends(w, w)
  BY DEF Ends

LEMMA EndsOnce ==
    ASSUME NEW w, NEW x, NEW r, Ends(w, x), Ends(x, r)
    PROVE  Ends(w, r)
  BY SocketRows DEF Ends, IsOpen, Open

LEMMA TornEnds ==
    ASSUME NEW w, Counted(w), NEW s \in Views
    PROVE  Ends(w, Torn(w, s))
<1>1. CASE ~IsOpen(w, s)
  BY <1>1, EndsItself DEF Torn
<1>2. CASE IsOpen(w, s)
  <2>. DEFINE r == Torn(w, s)
  <2>1. w \in Worlds /\ w.view[s] \in ViewRows /\ w.guests \in Int /\ w.viewers \in Int
    BY DEF Counted, Worlds
  <2>2. r = [view |-> [w.view EXCEPT ![s] = ClosedView], chair |-> w.chair,
             guests |-> IF w.view[s].who = "guest" THEN w.guests - 1 ELSE w.guests,
             viewers |-> IF w.view[s].attached /\ w.viewers > 0 THEN w.viewers - 1 ELSE w.viewers]
    BY <1>2, <2>1 DEF Torn, ClosedView, Worlds
  <2>3. /\ r \in Worlds /\ r.view = [w.view EXCEPT ![s] = ClosedView]
        /\ r.guests = IF w.view[s].who = "guest" THEN w.guests - 1 ELSE w.guests
        /\ r.viewers = IF w.view[s].attached /\ w.viewers > 0 THEN w.viewers - 1 ELSE w.viewers
    <3>. HIDE DEF r
    <3>. QED BY <2>1, <2>2, SocketRows DEF Worlds
  <2>4. w.view[s].attached => w.viewers > 0
    BY CountsOne DEF Counted, Watching
  <2>. HIDE DEF r
  <2>5. Counted(r)
    BY <1>2, <2>1, <2>3, <2>4, SocketRows, Recounted DEF Open
  <2>6. \A v \in Views : r.view[v] = IF v = s THEN ClosedView ELSE w.view[v]
    BY <2>1, <2>3 DEF Worlds
  <2>7. Ends(w, r)
    BY <1>2, <2>5, <2>6 DEF Ends
  <2>. QED BY <2>7 DEF r
<1>. QED BY <1>1, <1>2

LEMMA TornAllEnds ==
    ASSUME NEW w, Counted(w), NEW ss \in SUBSET Views
    PROVE  Ends(w, TornAll(w, ss))
<1>. DEFINE Good == {r \in Worlds : Ends(w, r)}
            step == [x \in ss |-> [r \in Good |-> Torn(r, x)]]
            pick == [S \in SUBSET ss |-> CHOOSE x \in S : TRUE]
<1>1. IsFiniteSet(ss)
  BY SocketRows, FS_Subset
<1>2. \A S \in SUBSET ss : S # {} => pick[S] \in S
  OBVIOUS
<1>3. w \in Good
  BY EndsItself DEF Counted
<1>4. \A x \in ss, r \in Good : step[x][r] = Torn(r, x) /\ step[x][r] \in Good
  <2>. TAKE x \in ss, r \in Good
  <2>1. Ends(w, r) /\ Ends(r, Torn(r, x))
    BY TornEnds DEF Ends
  <2>2. Ends(w, Torn(r, x)) /\ Torn(r, x) \in Worlds
    BY <2>1, EndsOnce DEF Ends, Counted
  <2>. QED BY <2>2
<1>5. PICK h : Folding(h, ss, w, pick, step)
  <2>. HIDE DEF pick, step
  <2>. QED BY <1>1, <1>2, FoldExists
<1>6. \A S \in SUBSET ss : h[S] \in Good
  <2>. HIDE DEF pick, step, Good
  <2>. DEFINE Q == {S \in SUBSET ss : h[S] \in Good}
  <2>1. ASSUME NEW S \in SUBSET ss, \A T \in SUBSET S : T # S => T \in Q PROVE S \in Q
    <3>1. h[S] = IF S = {} THEN w ELSE step[pick[S]][h[S \ {pick[S]}]]
      BY <1>5 DEF Folding
    <3>2. CASE S # {}
      <4>1. pick[S] \in S /\ S \ {pick[S]} \in SUBSET S /\ S \ {pick[S]} # S
        BY <1>2, <3>2
      <4>. QED BY <1>4, <2>1, <3>1, <3>2, <4>1
    <3>. QED BY <1>3, <3>1, <3>2
  <2>. HIDE DEF Q
  <2>2. \A S \in SUBSET ss : S \in Q
    BY <1>1, <2>1, SubsetInduction
  <2>. QED BY <2>2 DEF Q
<1>. DEFINE Folded(g) == g = [S \in SUBSET ss |-> IF S = {} THEN w
                                ELSE Torn(g[S \ {CHOOSE x \in S : TRUE}], CHOOSE x \in S : TRUE)]
<1>7. \E g : Folded(g)
  <2>. HIDE DEF step, Good
  <2>1. ASSUME NEW S \in SUBSET ss, S # {}
        PROVE  h[S] = Torn(h[S \ {CHOOSE x \in S : TRUE}], CHOOSE x \in S : TRUE)
    <3>1. pick[S] = (CHOOSE x \in S : TRUE) /\ pick[S] \in ss /\ h[S \ {pick[S]}] \in Good
      BY <1>2, <1>6, <2>1
    <3>. HIDE DEF pick
    <3>2. h[S] = step[pick[S]][h[S \ {pick[S]}]]
      BY <1>5, <2>1 DEF Folding
    <3>. QED BY <1>4, <3>1, <3>2
  <2>2. h[{}] = w
    BY <1>5 DEF Folding
  <2>. HIDE DEF pick
  <2>3. h = [S \in SUBSET ss |-> h[S]]
    BY <1>5 DEF Folding
  <2>4. Folded(h)
    BY <2>1, <2>2, <2>3
  <2>. QED BY <2>4
<1>8. PICK g : Folded(g) /\ TornAll(w, ss) = g[ss]
  <2>. DEFINE g == CHOOSE f : Folded(f)
  <2>1. Folded(g)
    BY <1>7
  <2>2. TornAll(w, ss) = g[ss]
    BY DEF TornAll, FoldSet, MapThenFoldSet
  <2>. QED BY <2>1, <2>2
<1>9. \A S \in SUBSET ss : g[S] \in Good
  <2>. DEFINE Q == {S \in SUBSET ss : g[S] \in Good}
  <2>1. ASSUME NEW S \in SUBSET ss, \A T \in SUBSET S : T # S => T \in Q PROVE S \in Q
    <3>. DEFINE x == CHOOSE y \in S : TRUE
    <3>1. CASE S # {}
      <4>1. x \in S /\ S \ {x} \in SUBSET S /\ S \ {x} # S
        BY <3>1
      <4>2. g[S] = Torn(g[S \ {x}], x)
        BY <1>8, <3>1
      <4>3. g[S \ {x}] \in Good
        BY <2>1, <4>1
      <4>. HIDE DEF Good, x
      <4>. QED BY <1>4, <4>1, <4>2, <4>3
    <3>2. CASE S = {}
      BY <1>3, <1>8, <3>2
    <3>. QED BY <3>1, <3>2
  <2>. HIDE DEF Q
  <2>2. \A S \in SUBSET ss : S \in Q
    BY <1>1, <2>1, SubsetInduction
  <2>. QED BY <2>2 DEF Q
<1>. QED BY <1>8, <1>9

\* From the i-th message on, whatever hides the view is followed by what shows it again.
ShowsAfter(q, i) == \A j \in (i + 1)..Len(q) : q[j] = "hide" => \E k \in (j + 1)..Len(q) : q[k] = "show"
\* Its client shows the browser, and said so in a message that was kept.
InView(v) == v.shown /\ ~v.missed
\* A socket that is being set up does not watch yet; what it will be told leaves it watching if it is to show.
SetUp(v) ==
    /\ v.stage \in {"none", "connecting"} => ~v.attached
    /\ v.stage = "connecting" /\ InView(v) => ShowsAfter(v.inbox, 0)
Steady(v) == SetUp(v) /\ (v.stage = "ready" /\ InView(v) => v.attached)
\* The same of a socket that has yet to handle what came after the i-th message.
Settling(v, q, i) ==
    SetUp(v) /\ (v.stage = "ready" /\ InView(v) =>
                    ShowsAfter(q, i) /\ (v.attached \/ \E k \in (i + 1)..Len(q) : q[k] = "show"))

AllSteady(w) == Counted(w) /\ \A v \in Views : Steady(w.view[v])
\* No socket begins within the turn.
NoneBegins(w, r) == \A v \in Views : r.view[v].stage = "none" <=> w.view[v].stage = "none"
Draining(w, s, q, i) ==
    /\ Counted(w) /\ w.view[s].stage \in {"ready", "closed"}
    /\ \A v \in Views : IF v = s THEN Settling(w.view[v], q, i) ELSE Steady(w.view[v])

LEMMA EndsSteady ==
    ASSUME NEW w, NEW r, Ends(w, r)
    PROVE  /\ NoneBegins(w, r)
           /\ AllSteady(w) => AllSteady(r)
           /\ \A s \in Views : \A q, i : Draining(w, s, q, i) => Draining(r, s, q, i)
<1>1. \A v \in Views : r.view[v] = w.view[v] \/ (w.view[v].stage \in Open /\ r.view[v] = ClosedView)
  BY DEF Ends, IsOpen
<1>2. ClosedView.stage = "closed" /\ ~ClosedView.attached /\ Counted(r)
  BY SocketRows DEF Ends
<1>3. Steady(ClosedView) /\ \A q, i : Settling(ClosedView, q, i)
  BY <1>2 DEF Steady, Settling, SetUp
<1>4. NoneBegins(w, r)
  BY <1>1, <1>2 DEF NoneBegins, Open
<1>5. AllSteady(w) => AllSteady(r)
  BY <1>1, <1>2, <1>3 DEF AllSteady
<1>6. \A s \in Views : \A q, i : Draining(w, s, q, i) => Draining(r, s, q, i)
  BY <1>1, <1>2, <1>3 DEF Draining
<1>. QED BY <1>4, <1>5, <1>6

LEMMA Seated ==
    ASSUME NEW w, Counted(w), NEW c \in ChairRows
    PROVE  Ends(w, [w EXCEPT !.chair = c]) /\ [w EXCEPT !.chair = c].chair = c
<1>. DEFINE r == [w EXCEPT !.chair = c]
<1>1. w \in Worlds
  BY DEF Counted
<1>2. /\ r \in Worlds /\ r.view = w.view /\ r.guests = w.guests /\ r.viewers = w.viewers /\ r.chair = c
  BY <1>1 DEF Worlds
<1>. HIDE DEF r
<1>3. OpenGuests(r) = OpenGuests(w) /\ Watching(r) = Watching(w)
  BY <1>2 DEF OpenGuests, Watching, IsOpen
<1>4. Ends(w, r)
  BY <1>2, <1>3 DEF Ends, Counted
<1>. QED BY <1>2, <1>4 DEF r

LEMMA AnnouncedEnds ==
    ASSUME NEW w, Counted(w)
    PROVE  Ends(w, Announced(w))
  BY EndsItself, TornAllEnds DEF Announced

LEMMA FreedEnds ==
    ASSUME NEW w, Counted(w)
    PROVE  Ends(w, Freed(w))
<1>. DEFINE c == [NoOneSits EXCEPT !.lease = w.chair.lease]
            x == [w EXCEPT !.chair = c]
<1>1. c \in ChairRows
  BY DEF Counted, Worlds, ChairRows, NoOneSits
<1>2. Ends(w, x)
  <2>. HIDE DEF c
  <2>. QED BY <1>1, Seated
<1>3. Freed(w) = Announced(x)
  BY DEF Freed
<1>4. Counted(x)
  <2>. HIDE DEF x
  <2>. QED BY <1>2 DEF Ends
<1>. HIDE DEF x
<1>. QED BY <1>2, <1>3, <1>4, AnnouncedEnds, EndsOnce

LEMMA ReadEnds ==
    ASSUME NEW w, Counted(w)
    PROVE  Ends(w, Read(w))
  BY EndsItself, FreedEnds DEF Read

\* One row replaced by one that counts the same.
LEMMA RowKept ==
    ASSUME NEW w, Counted(w), NEW s \in Views, NEW row \in ViewRows,
           row.stage = w.view[s].stage, row.who = w.view[s].who, row.attached = w.view[s].attached
    PROVE  LET r == [w EXCEPT !.view = [@ EXCEPT ![s] = row]]
           IN  Counted(r) /\ r.view = [w.view EXCEPT ![s] = row] /\ r.chair = w.chair
<1>. DEFINE r == [w EXCEPT !.view = [@ EXCEPT ![s] = row]]
<1>1. w \in Worlds
  BY DEF Counted
<1>2. /\ r \in Worlds /\ r.view = [w.view EXCEPT ![s] = row] /\ r.guests = w.guests /\ r.viewers = w.viewers
      /\ r.chair = w.chair
  BY <1>1 DEF Worlds
<1>. HIDE DEF r
<1>3. OpenGuests(r) = OpenGuests(w) /\ Watching(r) = Watching(w)
  BY <1>1, <1>2 DEF OpenGuests, Watching, IsOpen, Worlds
<1>4. Counted(r)
  BY <1>2, <1>3 DEF Counted
<1>. QED BY <1>2, <1>4 DEF r

LEMMA HandledBeat ==
    ASSUME NEW w, Counted(w), NEW s \in Views
    PROVE  LET r == Handled(w, s, "beat") IN
           /\ Counted(r) /\ NoneBegins(w, r)
           /\ AllSteady(w) => AllSteady(r)
           /\ \A q, i : Draining(w, s, q, i) => Draining(r, s, q, i)
<1>. DEFINE x == Read(w)
            row == [x.view[s] EXCEPT !.bound = x.chair.lease]
            r == Handled(w, s, "beat")
<1>1. Ends(w, w) /\ Ends(w, x) /\ Counted(x)
  BY EndsItself, ReadEnds DEF Ends
<1>2. /\ NoneBegins(w, w) /\ NoneBegins(w, x) /\ (AllSteady(w) => AllSteady(x))
      /\ \A q, i : Draining(w, s, q, i) => Draining(x, s, q, i)
  <2>. HIDE DEF x
  <2>. QED BY <1>1, EndsSteady
<1>3. r = w \/ r = x \/ r = [x EXCEPT !.view = [@ EXCEPT ![s] = row]]
  <2>1. r = w \/ r = x \/ r = [x EXCEPT !.view[s].bound = x.chair.lease]
    BY DEF Handled
  <2>. HIDE DEF x
  <2>2. [x EXCEPT !.view[s].bound = x.chair.lease] = [x EXCEPT !.view = [@ EXCEPT ![s] = row]]
    BY <1>1 DEF Counted, Worlds
  <2>. QED BY <2>1, <2>2
<1>. HIDE DEF x
<1>4. /\ x \in Worlds /\ x.view[s] \in ViewRows /\ x.chair.lease \in Nat
  BY <1>1, SocketRows DEF Counted, Worlds, ChairRows
<1>5. /\ row \in ViewRows
      /\ row.stage = x.view[s].stage /\ row.attached = x.view[s].attached /\ row.who = x.view[s].who
      /\ row.shown = x.view[s].shown /\ row.missed = x.view[s].missed /\ row.inbox = x.view[s].inbox
  BY <1>4 DEF ViewRows
<1>. HIDE DEF row
<1>6. CASE r = [x EXCEPT !.view = [@ EXCEPT ![s] = row]]
  <2>. HIDE DEF r
  <2>1. Counted(r) /\ r.view = [x.view EXCEPT ![s] = row]
    BY <1>1, <1>5, <1>6, RowKept
  <2>2. /\ \A v \in Views : r.view[v] = IF v = s THEN row ELSE x.view[v]
        /\ Steady(row) <=> Steady(x.view[s])
        /\ \A q, i : Settling(row, q, i) <=> Settling(x.view[s], q, i)
    BY <1>4, <1>5, <2>1 DEF Worlds, Steady, Settling, SetUp, InView
  <2>3. NoneBegins(w, r)
    BY <1>2, <1>5, <2>2 DEF NoneBegins
  <2>4. AllSteady(w) => AllSteady(r)
    BY <1>2, <2>1, <2>2 DEF AllSteady
  <2>5. \A q, i : Draining(w, s, q, i) => Draining(r, s, q, i)
    BY <1>2, <1>5, <2>1, <2>2 DEF Draining
  <2>. QED BY <2>1, <2>3, <2>4, <2>5 DEF r
<1>7. CASE r = w \/ r = x
  <2>. HIDE DEF r
  <2>. QED BY <1>1, <1>2, <1>7 DEF r
<1>. QED BY <1>3, <1>6, <1>7

\* A row replaced by one that differs in whether it watches, and counted.
LEMMA Attaches ==
    ASSUME NEW w, Counted(w), NEW s \in Views, ~w.view[s].attached,
           NEW row \in ViewRows, row.stage = w.view[s].stage, row.who = w.view[s].who, row.attached,
           NEW r, r = [view |-> [w.view EXCEPT ![s] = row], chair |-> w.chair, guests |-> w.guests, viewers |-> w.viewers + 1]
    PROVE  Counted(r) /\ r.view = [w.view EXCEPT ![s] = row]
<1>1. w \in Worlds /\ w.view \in [Views -> ViewRows] /\ w.viewers \in Int /\ w.guests \in Int /\ w.chair \in ChairRows
  BY DEF Counted, Worlds
<1>2. r \in Worlds /\ r.view = [w.view EXCEPT ![s] = row] /\ r.guests = w.guests /\ r.viewers = w.viewers + 1
  BY <1>1 DEF Worlds
<1>. QED BY <1>1, <1>2, Recounted DEF IsOpen

LEMMA Detaches ==
    ASSUME NEW w, Counted(w), NEW s \in Views, w.view[s].attached,
           NEW row \in ViewRows, row.stage = w.view[s].stage, row.who = w.view[s].who, ~row.attached,
           NEW r, r = [view |-> [w.view EXCEPT ![s] = row], chair |-> w.chair, guests |-> w.guests, viewers |-> w.viewers - 1]
    PROVE  Counted(r) /\ r.view = [w.view EXCEPT ![s] = row]
<1>1. w \in Worlds /\ w.view \in [Views -> ViewRows] /\ w.viewers \in Int /\ w.guests \in Int /\ w.chair \in ChairRows
  BY DEF Counted, Worlds
<1>2. r \in Worlds /\ r.view = [w.view EXCEPT ![s] = row] /\ r.guests = w.guests /\ r.viewers = w.viewers - 1
  BY <1>1 DEF Worlds
<1>. QED BY <1>1, <1>2, Recounted DEF IsOpen

\* What showing or hiding a view makes of it.
LEMMA HandledShow ==
    ASSUME NEW w, Counted(w), NEW s \in Views
    PROVE  LET r == Handled(w, s, "show")
               row == [w.view[s] EXCEPT !.attached = TRUE]
           IN  Counted(r) /\ r.view = [w.view EXCEPT ![s] = row]
<1>. DEFINE row == [w.view[s] EXCEPT !.attached = TRUE]
            r == Handled(w, s, "show")
<1>1. w \in Worlds /\ w.view[s] \in ViewRows /\ w.view \in [Views -> ViewRows]
  BY DEF Counted, Worlds
<1>2. row \in ViewRows /\ row.stage = w.view[s].stage /\ row.who = w.view[s].who /\ row.attached
  BY <1>1 DEF ViewRows
<1>3. CASE w.view[s].attached
  <2>1. r = w /\ row = w.view[s]
    BY <1>1, <1>3 DEF Handled, ViewRows
  <2>. QED BY <1>1, <2>1
<1>4. CASE ~w.view[s].attached
  <2>1. r = [view |-> [w.view EXCEPT ![s] = row], chair |-> w.chair, guests |-> w.guests, viewers |-> w.viewers + 1]
    BY <1>1, <1>4 DEF Handled, Worlds
  <2>. HIDE DEF r, row
  <2>2. Counted(r) /\ r.view = [w.view EXCEPT ![s] = row]
    BY <1>2, <1>4, <2>1, Attaches
  <2>. QED BY <2>2 DEF r, row
<1>. QED BY <1>3, <1>4

LEMMA HandledHide ==
    ASSUME NEW w, Counted(w), NEW s \in Views
    PROVE  LET r == Handled(w, s, "hide")
               row == [w.view[s] EXCEPT !.attached = FALSE]
           IN  Counted(r) /\ r.view = [w.view EXCEPT ![s] = row]
<1>. DEFINE row == [w.view[s] EXCEPT !.attached = FALSE]
            r == Handled(w, s, "hide")
<1>1. w \in Worlds /\ w.view[s] \in ViewRows /\ w.view \in [Views -> ViewRows] /\ w.viewers \in Int
  BY DEF Counted, Worlds
<1>2. row \in ViewRows /\ row.stage = w.view[s].stage /\ row.who = w.view[s].who /\ ~row.attached
  BY <1>1 DEF ViewRows
<1>3. CASE ~w.view[s].attached
  <2>1. r = w /\ row = w.view[s]
    BY <1>1, <1>3 DEF Handled, ViewRows
  <2>. QED BY <1>1, <2>1
<1>4. CASE w.view[s].attached
  <2>1. w.viewers > 0
    BY <1>4, CountsOne DEF Counted, Watching
  <2>2. r = [view |-> [w.view EXCEPT ![s] = row], chair |-> w.chair, guests |-> w.guests, viewers |-> w.viewers - 1]
    BY <1>1, <1>4, <2>1 DEF Handled, Worlds
  <2>. HIDE DEF r, row
  <2>3. Counted(r) /\ r.view = [w.view EXCEPT ![s] = row]
    BY <1>2, <1>4, <2>2, Detaches
  <2>. QED BY <2>3 DEF r, row
<1>. QED BY <1>3, <1>4

OthersKept(w, s, r) == \A v \in Views : v # s => r.view[v] = w.view[v]

LEMMA ShownRows ==
    ASSUME NEW w, Counted(w), NEW s \in Views, NEW msg \in {"show", "hide"}, NEW r, r = Handled(w, s, msg)
    PROVE  /\ Counted(r) /\ NoneBegins(w, r)
           /\ OthersKept(w, s, r)
           /\ msg = "show" => r.view[s].attached
           /\ r.view[s].stage = w.view[s].stage /\ InView(r.view[s]) = InView(w.view[s]) /\ r.view[s].inbox = w.view[s].inbox
<1>1. w.view[s] \in ViewRows /\ w.view \in [Views -> ViewRows]
  BY DEF Counted, Worlds
<1>2. PICK row : /\ row.stage = w.view[s].stage /\ InView(row) = InView(w.view[s]) /\ row.inbox = w.view[s].inbox
                 /\ IF msg = "show" THEN row.attached ELSE ~row.attached
                 /\ Counted(r) /\ r.view = [w.view EXCEPT ![s] = row]
  <2>1. CASE msg = "show"
    <3>. DEFINE row == [w.view[s] EXCEPT !.attached = TRUE]
    <3>2. Counted(r) /\ r.view = [w.view EXCEPT ![s] = row]
      BY <2>1, HandledShow
    <3>1. /\ row.stage = w.view[s].stage /\ InView(row) = InView(w.view[s]) /\ row.inbox = w.view[s].inbox /\ row.attached
      BY <1>1 DEF ViewRows, InView
    <3>. HIDE DEF row
    <3>. QED BY <2>1, <3>1, <3>2
  <2>2. CASE msg = "hide"
    <3>. DEFINE row == [w.view[s] EXCEPT !.attached = FALSE]
    <3>2. Counted(r) /\ r.view = [w.view EXCEPT ![s] = row]
      BY <2>2, HandledHide
    <3>1. /\ row.stage = w.view[s].stage /\ InView(row) = InView(w.view[s]) /\ row.inbox = w.view[s].inbox /\ ~row.attached
      BY <1>1 DEF ViewRows, InView
    <3>. HIDE DEF row
    <3>. QED BY <2>2, <3>1, <3>2
  <2>. QED BY <2>1, <2>2
<1>3. r.view[s] = row /\ OthersKept(w, s, r)
  BY <1>1, <1>2 DEF OthersKept
<1>4. NoneBegins(w, r)
  BY <1>2, <1>3 DEF NoneBegins, OthersKept
<1>. QED BY <1>2, <1>3, <1>4

LEMMA DrainsOne ==
    ASSUME NEW w, NEW s \in Views, NEW q \in Seq(Told), NEW i \in 1..Len(q), Draining(w, s, q, i - 1),
           NEW msg, msg = q[i], NEW r, r = Handled(w, s, msg)
    PROVE  Draining(r, s, q, i) /\ NoneBegins(w, r)
<1>1. /\ Counted(w) /\ w.view[s].stage \in {"ready", "closed"} /\ Settling(w.view[s], q, i - 1)
      /\ \A v \in Views \ {s} : Steady(w.view[v])
  BY DEF Draining
<1>2. /\ i \in Nat \ {0} /\ Len(q) \in Nat /\ i <= Len(q) /\ (i - 1) + 1 = i /\ msg = q[i] /\ msg \in Told
      /\ \A j : j \in i..Len(q) <=> j = i \/ j \in (i + 1)..Len(q)
  BY LenProperties, ElementOfSeq
<1>3. CASE msg = "beat"
  <2>1. Counted(r) /\ NoneBegins(w, r) /\ Draining(r, s, q, i - 1)
    BY <1>1, <1>3, HandledBeat
  <2>2. Settling(r.view[s], q, i - 1) => Settling(r.view[s], q, i)
    <3>. QED BY <1>2, <1>3 DEF Settling, ShowsAfter
  <2>3. Draining(r, s, q, i)
    BY <2>1, <2>2 DEF Draining
  <2>. QED BY <2>1, <2>3
<1>4. CASE msg \in {"show", "hide"}
  <2>1. /\ Counted(r) /\ NoneBegins(w, r)
        /\ OthersKept(w, s, r)
        /\ msg = "show" => r.view[s].attached
        /\ r.view[s].stage = w.view[s].stage /\ InView(r.view[s]) = InView(w.view[s]) /\ r.view[s].inbox = w.view[s].inbox
    BY <1>1, <1>4, ShownRows
  <2>2. Settling(r.view[s], q, i)
    <3>1. SetUp(r.view[s])
      BY <1>1, <2>1 DEF SetUp, Settling
    <3>2. ShowsAfter(q, i - 1) => ShowsAfter(q, i) /\ (msg = "show" \/ \E k \in (i + 1)..Len(q) : q[k] = "show")
      BY <1>2, <1>4 DEF ShowsAfter
    <3>. QED BY <1>1, <2>1, <3>1, <3>2 DEF Settling
  <2>3. Draining(r, s, q, i)
    BY <1>1, <2>1, <2>2 DEF Draining, OthersKept
  <2>. QED BY <2>1, <2>3
<1>. QED BY <1>2, <1>3, <1>4 DEF Told

\* The largest number of a set, and what a fold over a sequence takes it for.
LEMMA LargestIs ==
    ASSUME NEW n \in Nat, NEW S \in SUBSET (1..n), S # {}
    PROVE  Max(S) \in S /\ \A y \in S : Max(S) >= y
<1>. DEFINE Below == {n - x : x \in S}
<1>1. PICK m \in Below : \A k \in Below : m <= k
  <2>1. \A x \in S : x \in Int /\ x <= n
    OBVIOUS
  <2>2. \A x \in S : n - x \in Nat
    BY <2>1
  <2>3. Below \in SUBSET Nat /\ Below # {}
    BY <2>2
  <2>. HIDE DEF Below
  <2>. QED BY <2>3, LeastExists
<1>2. PICK x \in S : m = n - x
  BY <1>1
<1>3. \A y \in S : x >= y
  <2>. TAKE y \in S
  <2>1. n - x <= n - y
    BY <1>1, <1>2
  <2>2. x \in Int /\ y \in Int
    OBVIOUS
  <2>. QED BY <2>1, <2>2
<1>. QED BY <1>2, <1>3 DEF Max

LEMMA HandledCounts ==
    ASSUME NEW w, Counted(w), NEW s \in Views, NEW msg \in Told
    PROVE  Counted(Handled(w, s, msg)) /\ NoneBegins(w, Handled(w, s, msg))
  BY HandledBeat, ShownRows DEF Told

LEMMA InboxDrains ==
    ASSUME NEW w, NEW s \in Views, NEW q \in Seq(Told), Draining(w, s, q, 0)
    PROVE  Draining(InboxDrained(w, s, q), s, q, Len(q)) /\ NoneBegins(w, InboxDrained(w, s, q))
<1>. DEFINE D == 1..Len(q)
            step == [x \in D |-> [r \in Worlds |-> Handled(r, s, q[x])]]
            pick == [S \in SUBSET D |-> Max(S)]
<1>1. Len(q) \in Nat /\ D = DOMAIN q /\ IsFiniteSet(D) /\ D \subseteq Nat
  BY LenProperties, FS_Interval
<1>2. \A S \in SUBSET D : S # {} => pick[S] \in S /\ pick[S] = Max(S)
  BY <1>1, LargestIs
<1>3. w \in Worlds
  BY DEF Draining, Counted
<1>4. PICK h : Folding(h, D, w, pick, step)
  <2>. HIDE DEF pick, step, D
  <2>. QED BY <1>1, <1>2, FoldExists
<1>. DEFINE Good == {r \in Worlds : Counted(r) /\ NoneBegins(w, r)}
<1>5. w \in Good /\ \A x \in D, r \in Good : step[x][r] = Handled(r, s, q[x]) /\ Handled(r, s, q[x]) \in Good
  <2>1. w \in Good
    BY DEF Draining, Counted, NoneBegins
  <2>2. ASSUME NEW x \in D, NEW r \in Good
        PROVE  step[x][r] = Handled(r, s, q[x]) /\ Handled(r, s, q[x]) \in Good
    <3>1. q[x] \in Told
      BY ElementOfSeq
    <3>2. Counted(Handled(r, s, q[x])) /\ NoneBegins(r, Handled(r, s, q[x]))
      BY <3>1, HandledCounts
    <3>3. Handled(r, s, q[x]) \in Good
      BY <3>2 DEF Counted, NoneBegins
    <3>. QED BY <3>3
  <2>. HIDE DEF step, Good
  <2>. QED BY <2>1, <2>2
<1>6. \A S \in SUBSET D : h[S] \in Good
  <2>. HIDE DEF pick, step, Good, D
  <2>. DEFINE Q == {S \in SUBSET D : h[S] \in Good}
  <2>1. ASSUME NEW S \in SUBSET D, \A T \in SUBSET S : T # S => T \in Q PROVE S \in Q
    <3>1. h[S] = IF S = {} THEN w ELSE step[pick[S]][h[S \ {pick[S]}]]
      BY <1>4 DEF Folding
    <3>2. CASE S # {}
      <4>1. pick[S] \in S /\ S \ {pick[S]} \in SUBSET S /\ S \ {pick[S]} # S
        BY <1>2, <3>2
      <4>2. \A x \in D, r \in Good : step[x][r] \in Good
        BY <1>5
      <4>3. h[S \ {pick[S]}] \in Good /\ pick[S] \in D
        BY <2>1, <4>1
      <4>4. h[S] \in Good
        BY <3>1, <3>2, <4>2, <4>3
      <4>. QED BY <4>4
    <3>3. CASE S = {}
      <4>1. h[S] = w /\ w \in Good
        BY <1>5, <3>1, <3>3
      <4>. QED BY <4>1
    <3>. QED BY <3>2, <3>3
  <2>. HIDE DEF Q
  <2>2. IsFiniteSet(D)
    BY <1>1
  <2>3. \A S \in SUBSET D : S \in Q
    BY <2>1, <2>2, SubsetInduction
  <2>. QED BY <2>3 DEF Q
<1>. DEFINE Folded(g) == g = [S \in SUBSET (DOMAIN q) |-> IF S = {} THEN w ELSE Handled(g[S \ {Max(S)}], s, q[Max(S)])]
<1>7. \E g : Folded(g)
  <2>. HIDE DEF step, Good, D
  <2>1. ASSUME NEW S \in SUBSET D, S # {}
        PROVE  h[S] = Handled(h[S \ {Max(S)}], s, q[Max(S)])
    <3>1. pick[S] = Max(S) /\ pick[S] \in D /\ h[S \ {pick[S]}] \in Good
      BY <1>2, <1>6, <2>1
    <3>. HIDE DEF pick
    <3>2. h[S] = step[pick[S]][h[S \ {pick[S]}]]
      BY <1>4, <2>1 DEF Folding
    <3>. QED BY <1>5, <3>1, <3>2
  <2>2. h[{}] = w
    BY <1>4 DEF Folding
  <2>. HIDE DEF pick
  <2>3. h = [S \in SUBSET D |-> h[S]]
    BY <1>4 DEF Folding
  <2>4. Folded(h)
    BY <1>1, <2>1, <2>2, <2>3
  <2>. QED BY <2>4
<1>8. PICK g : Folded(g) /\ InboxDrained(w, s, q) = g[DOMAIN q]
  <2>. DEFINE g == CHOOSE f : Folded(f)
  <2>1. Folded(g)
    BY <1>7
  <2>2. InboxDrained(w, s, q) = g[DOMAIN q]
    BY DEF InboxDrained, FoldLeft, MapThenFoldSet
  <2>. QED BY <2>1, <2>2
<1>9. \A S \in SUBSET D : NoneBegins(w, g[S]) /\ \A i \in 0..Len(q) : S = 1..i => Draining(g[S], s, q, i)
  <2>. DEFINE Q == {S \in SUBSET D : g[S] \in Good /\ \A i \in 0..Len(q) : S = 1..i => Draining(g[S], s, q, i)}
  <2>1. ASSUME NEW S \in SUBSET D, \A T \in SUBSET S : T # S => T \in Q PROVE S \in Q
    <3>1. CASE S # {}
      <4>1. Max(S) \in S /\ Max(S) \in D /\ \A y \in S : Max(S) >= y
        BY <1>1, <3>1, LargestIs
      <4>2. g[S] = Handled(g[S \ {Max(S)}], s, q[Max(S)])
        BY <1>1, <1>8, <3>1
      <4>3. g[S \ {Max(S)}] \in Good /\ S \ {Max(S)} \in Q
        BY <2>1, <4>1
      <4>4. g[S] \in Good
        <5>. HIDE DEF Good, D, step
        <5>. QED BY <1>5, <4>1, <4>2, <4>3
      <4>5. ASSUME NEW i \in 0..Len(q), S = 1..i PROVE Draining(g[S], s, q, i)
        <5>1. i \in 1..Len(q) /\ Max(S) = i /\ S \ {Max(S)} = 1..(i - 1) /\ i - 1 \in 0..Len(q)
          <6>1. i # 0
            BY <3>1, <4>5
          <6>2. i \in S
            BY <4>5, <6>1
          <6>3. Max(S) = i
            BY <1>1, <4>1, <4>5, <6>2
          <6>. QED BY <1>1, <4>5, <6>1, <6>3
        <5>2. Draining(g[S \ {Max(S)}], s, q, i - 1)
          BY <4>3, <5>1
        <5>. QED BY <4>2, <5>1, <5>2, DrainsOne
      <4>. QED BY <4>4, <4>5
    <3>2. CASE S = {}
      <4>1. g[S] = w
        BY <1>8, <3>2
      <4>2. \A i \in 0..Len(q) : S = 1..i => i = 0
        BY <1>1, <3>2
      <4>. QED BY <1>5, <4>1, <4>2
    <3>. QED BY <3>1, <3>2
  <2>. HIDE DEF Q, D
  <2>2. IsFiniteSet(D)
    BY <1>1
  <2>3. \A S \in SUBSET D : S \in Q
    BY <2>1, <2>2, SubsetInduction
  <2>. QED BY <2>3 DEF Q
<1>10. D \in SUBSET D /\ Len(q) \in 0..Len(q) /\ D = 1..Len(q) /\ D = DOMAIN q
  BY <1>1
<1>11. Draining(g[D], s, q, Len(q)) /\ NoneBegins(w, g[D])
  <2>. HIDE DEF D
  <2>. QED BY <1>9, <1>10
<1>. QED BY <1>8, <1>10, <1>11

TicketsOK ==
    /\ ticket \in [Views -> TicketRows] /\ guestIn \in BOOLEAN
    /\ \A s \in Views : ticket[s].state # "used" => view[s].stage = "none"
SocketInv == TicketsOK /\ AllSteady(World)

LEMMA SocketInitially == SocketInit => SocketInv
<1>. SUFFICES ASSUME SocketInit PROVE SocketInv
  OBVIOUS
<1>1. World \in Worlds /\ \A s \in Views : view[s] = NoView
  BY SocketRows DEF SocketInit, World, Worlds
<1>2. OpenGuests(World) = {} /\ Watching(World) = {}
  BY <1>1, SocketRows DEF OpenGuests, Watching, IsOpen, World, Open
<1>3. Counted(World)
  <2>1. World.guests = 0 /\ World.viewers = 0
    BY DEF SocketInit, World
  <2>. QED BY <1>1, <1>2, <2>1, FS_EmptySet DEF Counted
<1>4. Steady(NoView)
  BY SocketRows DEF Steady, SetUp
<1>5. AllSteady(World)
  BY <1>1, <1>3, <1>4 DEF AllSteady, World
<1>6. TicketsOK
  BY <1>1, SocketRows DEF SocketInit, TicketsOK
<1>. QED BY <1>5, <1>6 DEF SocketInv

\* A turn that leaves every socket steady, and none begun.
LEMMA Turns ==
    ASSUME SocketInv, NEW r, Outcome(r), AllSteady(r), NoneBegins(World, r), ticket' = ticket, guestIn' \in BOOLEAN
    PROVE  SocketInv'
<1>1. World' = r
  <2>1. r \in Worlds
    BY DEF AllSteady, Counted
  <2>2. r = [view |-> r.view, chair |-> r.chair, guests |-> r.guests, viewers |-> r.viewers]
    BY <2>1 DEF Worlds
  <2>. QED BY <2>2 DEF Outcome, World
<1>2. AllSteady(World')
  BY <1>1
<1>3. TicketsOK'
  BY DEF SocketInv, TicketsOK, NoneBegins, Outcome, World
<1>. QED BY <1>2, <1>3 DEF SocketInv

LEMMA TurnEnds ==
    ASSUME SocketInv, NEW r, Outcome(r), Ends(World, r), ticket' = ticket, guestIn' \in BOOLEAN
    PROVE  SocketInv'
  BY EndsSteady, Turns DEF SocketInv

LEMMA WorldIs ==
    ASSUME SocketInv
    PROVE  /\ World \in Worlds /\ Counted(World) /\ Ends(World, World) /\ World.view = view /\ World.chair = chair
           /\ view \in [Views -> ViewRows] /\ chair \in ChairRows /\ guestIn \in BOOLEAN
  BY EndsItself DEF SocketInv, AllSteady, Counted, Worlds, World, TicketsOK

LEMMA TicketsStep ==
    ASSUME SocketInv, NEW s \in Views,
           (\E who \in {"admin", "guest"}, control \in BOOLEAN : Issues(s, who, control)) \/ TicketLapses(s)
    PROVE  SocketInv'
<1>1. ticket[s].state # "used" /\ UNCHANGED <<view, chair, guestIn, guestViewers, viewers>>
  BY DEF Issues, TicketLapses
<1>2. PICK t \in TicketRows : ticket' = [ticket EXCEPT ![s] = t]
  <2>1. [NoTicket EXCEPT !.state = "used"] \in TicketRows
    BY SocketRows DEF TicketRows
  <2>2. \A who \in {"admin", "guest"}, control \in BOOLEAN :
          [state |-> "fresh", who |-> who, control |-> control] \in TicketRows
    BY DEF TicketRows, Whos
  <2>. QED BY <2>1, <2>2 DEF Issues, TicketLapses, Spent
<1>3. World' = World
  BY <1>1 DEF World
<1>4. AllSteady(World')
  BY <1>3 DEF SocketInv
<1>5. TicketsOK'
  BY <1>1, <1>2 DEF SocketInv, TicketsOK
<1>. QED BY <1>4, <1>5 DEF SocketInv

LEMMA TornStep ==
    ASSUME SocketInv, NEW s \in Views, LosesChrome(s)
    PROVE  SocketInv'
  BY WorldIs, TornEnds, TurnEnds DEF LosesChrome

LEMMA LeavesStep ==
    ASSUME SocketInv, NEW s \in Views, NEW leaving \in BOOLEAN, Leaves(s, leaving)
    PROVE  SocketInv'
<1>. DEFINE w == Torn(World, s)
            r == IF leaving /\ view[s].control /\ view[s].bound # 0 THEN Read(w) ELSE w
            o == IF leaving /\ view[s].bound # 0 /\ r.chair.holder # "nobody" /\ r.chair.lease = view[s].bound THEN Freed(r) ELSE r
<1>1. Ends(World, w) /\ Counted(w)
  BY WorldIs, TornEnds DEF Ends
<1>2. Ends(w, r)
  <2>. HIDE DEF w
  <2>. QED BY <1>1, ReadEnds, EndsItself
<1>3. Ends(r, o)
  <2>. HIDE DEF r
  <2>1. Counted(r)
    BY <1>2 DEF Ends
  <2>. QED BY <2>1, FreedEnds, EndsItself
<1>4. Outcome(o) /\ ticket' = ticket /\ guestIn' = guestIn
  BY DEF Leaves
<1>. HIDE DEF w, r, o
<1>5. Ends(World, o)
  BY <1>1, <1>2, <1>3, EndsOnce
<1>. QED BY <1>4, <1>5, WorldIs, TurnEnds

LEMMA GuestChecksStep ==
    ASSUME SocketInv, NEW s \in Views, GuestChecks(s)
    PROVE  SocketInv'
<1>. DEFINE r == Read(World)
<1>1. Ends(World, Torn(World, s)) /\ Ends(World, r) /\ Counted(r)
  BY WorldIs, TornEnds, ReadEnds DEF Ends
<1>2. Ends(r, Torn(r, s)) /\ Ends(World, Torn(r, s))
  <2>. HIDE DEF r
  <2>1. Ends(r, Torn(r, s))
    BY <1>1, TornEnds
  <2>. QED BY <1>1, <2>1, EndsOnce
<1>3. Outcome(Torn(World, s)) \/ Outcome(r) \/ Outcome(Torn(r, s))
  BY DEF GuestChecks
<1>4. ticket' = ticket /\ guestIn' \in BOOLEAN
  BY WorldIs DEF GuestChecks
<1>. HIDE DEF r
<1>. QED BY <1>1, <1>2, <1>3, <1>4, TurnEnds

LEMMA ChairStep ==
    ASSUME SocketInv, (\E who \in {"admin", "guest"} : TakesChair(who)) \/ ChairLapses \/ SomebodyReads
    PROVE  SocketInv'
<1>1. ticket' = ticket /\ guestIn' \in BOOLEAN
  BY WorldIs DEF TakesChair, ChairLapses, SomebodyReads
<1>2. ASSUME NEW who \in {"admin", "guest"}, TakesChair(who) PROVE SocketInv'
  <2>. DEFINE c == [holder |-> who, lease |-> chair.lease + 1, lapsed |-> FALSE]
              x == [World EXCEPT !.chair = c]
  <2>1. c \in ChairRows
    <3>1. chair.lease \in 0..MaxTurnsTaken /\ chair.lease < MaxTurnsTaken /\ MaxTurnsTaken \in Nat
      BY <1>2, WorldIs, SocketRows DEF TakesChair, ChairRows
    <3>2. chair.lease + 1 \in 0..MaxTurnsTaken
      BY <3>1
    <3>. QED BY <3>2 DEF ChairRows
  <2>2. Ends(World, x)
    <3>. HIDE DEF c
    <3>. QED BY <2>1, WorldIs, Seated
  <2>3. Outcome(Announced(x))
    BY <1>2 DEF TakesChair
  <2>. HIDE DEF x
  <2>4. Ends(x, Announced(x))
    BY <2>2, AnnouncedEnds DEF Ends
  <2>. QED BY <1>1, <2>2, <2>3, <2>4, EndsOnce, TurnEnds
<1>3. CASE ChairLapses
  <2>. DEFINE c == [chair EXCEPT !.lapsed = TRUE]
              x == [World EXCEPT !.chair = c]
  <2>1. c \in ChairRows
    BY WorldIs DEF ChairRows
  <2>2. Ends(World, x)
    <3>. HIDE DEF c
    <3>. QED BY <2>1, WorldIs, Seated
  <2>3. Outcome(x)
    BY <1>3 DEF ChairLapses, Outcome, World
  <2>. HIDE DEF x
  <2>. QED BY <1>1, <2>2, <2>3, TurnEnds
<1>4. CASE SomebodyReads
  BY <1>1, <1>4, WorldIs, ReadEnds, TurnEnds DEF SomebodyReads
<1>. QED BY <1>2, <1>3, <1>4

LEMMA GuestEndsStep ==
    ASSUME SocketInv, GuestRevoked \/ GuestExpires
    PROVE  SocketInv'
<1>1. ticket' = ticket /\ guestIn' \in BOOLEAN
  BY DEF GuestRevoked, GuestExpires
<1>2. CASE GuestRevoked
  <2>. DEFINE ss == {s \in Views : IsOpen(World, s) /\ view[s].who = "guest"}
              w == TornAll(World, ss)
              r == IF w.chair.holder = "guest" THEN Freed(w) ELSE w
  <2>1. Ends(World, w) /\ Counted(w)
    <3>1. ss \in SUBSET Views
      OBVIOUS
    <3>. HIDE DEF ss
    <3>. QED BY <3>1, WorldIs, TornAllEnds DEF Ends
  <2>2. Outcome(r)
    BY <1>2 DEF GuestRevoked
  <2>3. Ends(w, r)
    <3>. HIDE DEF w
    <3>. QED BY <2>1, FreedEnds, EndsItself
  <2>. HIDE DEF w, r
  <2>. QED BY <1>1, <2>1, <2>2, <2>3, EndsOnce, TurnEnds
<1>3. CASE GuestExpires
  <2>1. Outcome(World)
    BY <1>3 DEF GuestExpires, Outcome, World
  <2>. QED BY <1>1, <2>1, WorldIs, TurnEnds
<1>. QED BY <1>2, <1>3

\* A row replaced by one that is as steady and counts the same, once the turn came to w.
LEMMA RowSteady ==
    ASSUME NEW w, AllSteady(w), NEW s \in Views, NEW row \in ViewRows, Steady(row),
           row.stage = w.view[s].stage, row.who = w.view[s].who, row.attached = w.view[s].attached,
           NEW r, r = [w EXCEPT !.view = [@ EXCEPT ![s] = row]]
    PROVE  AllSteady(r) /\ NoneBegins(w, r)
<1>1. Counted(w) /\ w.view \in [Views -> ViewRows]
  BY DEF AllSteady, Counted, Worlds
<1>2. Counted(r) /\ r.view = [w.view EXCEPT ![s] = row]
  BY <1>1, RowKept
<1>3. \A v \in Views : r.view[v] = IF v = s THEN row ELSE w.view[v]
  BY <1>1, <1>2
<1>. QED BY <1>2, <1>3 DEF AllSteady, NoneBegins

LEMMA DeafStep ==
    ASSUME SocketInv, NEW s \in Views, GoesDeaf(s) \/ Pings(s)
    PROVE  SocketInv'
<1>. DEFINE deaf == [view[s] EXCEPT !.deaf = TRUE]
            pinged == [view[s] EXCEPT !.pinged = TRUE]
            Row(row) == [World EXCEPT !.view = [@ EXCEPT ![s] = row]]
<1>1. ticket' = ticket /\ guestIn' \in BOOLEAN
  BY WorldIs DEF GoesDeaf, Pings
<1>2. AllSteady(World) /\ World.view[s] = view[s] /\ view[s] \in ViewRows
  BY WorldIs DEF SocketInv
<1>3. \A row \in {deaf, pinged} :
          /\ row \in ViewRows /\ row.stage = view[s].stage /\ row.who = view[s].who /\ row.attached = view[s].attached
          /\ InView(row) = InView(view[s]) /\ row.inbox = view[s].inbox
  BY <1>2 DEF ViewRows, InView
<1>4. Steady(view[s])
  BY <1>2 DEF AllSteady
<1>5. \A row \in {deaf, pinged} : Steady(row)
  <2>. HIDE DEF deaf, pinged
  <2>. QED BY <1>3, <1>4 DEF Steady, SetUp
<1>6. \A row \in {deaf, pinged} : AllSteady(Row(row)) /\ NoneBegins(World, Row(row))
  <2>. HIDE DEF deaf, pinged
  <2>. QED BY <1>2, <1>3, <1>5, RowSteady
<1>7. Outcome(Row(deaf)) \/ Outcome(Row(pinged)) \/ Outcome(Torn(World, s))
  BY WorldIs DEF GoesDeaf, Pings, Outcome, World
<1>. HIDE DEF Row, deaf, pinged
<1>. QED BY <1>1, <1>6, <1>7, WorldIs, TornEnds, Turns, TurnEnds

LEMMA UpgradesStep ==
    ASSUME SocketInv, NEW s \in Views, Upgrades(s)
    PROVE  SocketInv'
<1>. DEFINE t == ticket[s]
            asks == t.who = "guest" /\ guestIn /\ guestViewers < MaxViewers
            w == IF asks /\ t.control THEN Read(World) ELSE World
            row == [NoView EXCEPT !.stage = "connecting", !.who = t.who, !.control = t.control]
            r == [w EXCEPT !.view[s] = row, !.guests = IF t.who = "guest" THEN @ + 1 ELSE @]
<1>1. /\ t \in TicketRows /\ t.state = "fresh" /\ view[s].stage = "none" /\ ~view[s].attached
      /\ ticket' = Spent(s) /\ guestIn' = guestIn /\ (Outcome(w) \/ Outcome(r))
  BY DEF Upgrades, SocketInv, TicketsOK, AllSteady, Steady, SetUp, World
<1>2. Ends(World, w) /\ Counted(w) /\ AllSteady(w) /\ NoneBegins(World, w)
  <2>1. Ends(World, w)
    BY WorldIs, ReadEnds
  <2>. HIDE DEF w
  <2>. QED BY <2>1, EndsSteady DEF Ends, SocketInv
<1>. HIDE DEF w
<1>3. w.view[s] = view[s] /\ w \in Worlds /\ w.view \in [Views -> ViewRows] /\ w.guests \in Int
      /\ w.viewers \in Int /\ w.chair \in ChairRows
  BY <1>1, <1>2, WorldIs DEF Ends, Counted, Worlds, IsOpen, Open
<1>4. /\ row \in ViewRows /\ row.stage = "connecting" /\ row.who = t.who /\ ~row.attached /\ row.inbox = <<>>
  BY <1>1, SocketRows DEF ViewRows, NoView, TicketRows, Open
<1>. HIDE DEF row, t
<1>5. /\ r \in Worlds /\ r.view = [w.view EXCEPT ![s] = row] /\ r.viewers = w.viewers
      /\ r.guests = IF t.who = "guest" THEN w.guests + 1 ELSE w.guests
  <2>. DEFINE n == IF t.who = "guest" THEN w.guests + 1 ELSE w.guests
  <2>1. r = [w EXCEPT !.view[s] = row, !.guests = n] /\ n \in Int
    BY <1>3
  <2>. HIDE DEF n, r
  <2>2. r \in Worlds /\ r.view = [w.view EXCEPT ![s] = row] /\ r.viewers = w.viewers /\ r.guests = n
    BY <1>3, <1>4, <2>1 DEF Worlds
  <2>. QED BY <2>2 DEF n
<1>. HIDE DEF r
<1>6. Counted(r)
  BY <1>1, <1>2, <1>3, <1>4, <1>5, Recounted DEF IsOpen, Open
<1>7. Steady(row)
  BY <1>4 DEF Steady, SetUp, ShowsAfter
<1>8. AllSteady(r)
  BY <1>2, <1>3, <1>5, <1>6, <1>7 DEF AllSteady
<1>. DEFINE x == World'
<1>9. \E o \in {w, r} : World' = o
  <2>1. w = [view |-> w.view, chair |-> w.chair, guests |-> w.guests, viewers |-> w.viewers]
    BY <1>3 DEF Worlds
  <2>2. r = [view |-> r.view, chair |-> r.chair, guests |-> r.guests, viewers |-> r.viewers]
    BY <1>5 DEF Worlds
  <2>. QED BY <1>1, <2>1, <2>2 DEF Outcome, World
<1>10. AllSteady(World') /\ \A v \in Views : v # s => (World'.view[v].stage = "none" <=> view[v].stage = "none")
  <2>1. \A v \in Views : v # s => r.view[v] = w.view[v]
    BY <1>3, <1>5
  <2>. QED BY <1>2, <1>8, <1>9, <2>1, WorldIs DEF NoneBegins
<1>11. ticket' \in [Views -> TicketRows] /\ ticket'[s].state = "used" /\ \A v \in Views : v # s => ticket'[v] = ticket[v]
  <2>1. [NoTicket EXCEPT !.state = "used"] \in TicketRows /\ [NoTicket EXCEPT !.state = "used"].state = "used"
    BY SocketRows DEF TicketRows
  <2>. QED BY <1>1, <2>1 DEF Spent, SocketInv, TicketsOK
<1>12. World'.view = view'
  BY DEF World
<1>13. TicketsOK'
  BY <1>1, <1>10, <1>11, <1>12, WorldIs DEF TicketsOK, SocketInv
<1>. QED BY <1>10, <1>13 DEF SocketInv

LEMMA ReadyStep ==
    ASSUME SocketInv, NEW s \in Views, BecomesReady(s)
    PROVE  SocketInv'
<1>. DEFINE row == [view[s] EXCEPT !.stage = "ready", !.attached = TRUE, !.inbox = <<>>]
            w == [World EXCEPT !.view[s] = [@ EXCEPT !.stage = "ready", !.attached = TRUE, !.inbox = <<>>], !.viewers = @ + 1]
            q == view[s].inbox
            r == InboxDrained(w, s, q)
<1>1. /\ view[s].stage = "connecting" /\ Outcome(r) /\ ticket' = ticket /\ guestIn' \in BOOLEAN
  BY WorldIs DEF BecomesReady
<1>2. /\ World \in Worlds /\ Counted(World) /\ view \in [Views -> ViewRows] /\ view[s] \in ViewRows /\ World.view = view
      /\ World.viewers \in Int /\ \A v \in Views : Steady(view[v])
  BY WorldIs DEF Worlds, SocketInv, AllSteady
<1>3. q \in Seq(Told) /\ ~view[s].attached /\ (InView(view[s]) => ShowsAfter(q, 0))
  BY <1>1, <1>2 DEF ViewRows, Steady, SetUp
<1>4. /\ row \in ViewRows /\ row.stage = "ready" /\ row.attached /\ row.who = view[s].who /\ InView(row) = InView(view[s])
  <2>1. <<>> \in Seq(Told)
    OBVIOUS
  <2>. QED BY <1>2, <2>1 DEF ViewRows, Open, InView
<1>5. w = [World EXCEPT !.view[s] = row, !.viewers = World.viewers + 1]
  BY <1>2
<1>. HIDE DEF w, row, q
<1>6. Counted(w) /\ w.view = [view EXCEPT ![s] = row]
  <2>1. w \in Worlds /\ w.view = [World.view EXCEPT ![s] = row] /\ w.guests = World.guests /\ w.viewers = World.viewers + 1
    <3>. DEFINE n == World.viewers + 1
    <3>1. n \in Int /\ w = [World EXCEPT !.view[s] = row, !.viewers = n]
      BY <1>2, <1>5
    <3>2. World \in Worlds /\ row \in ViewRows
      BY <1>2, <1>4
    <3>. HIDE DEF n
    <3>3. w \in Worlds /\ w.view = [World.view EXCEPT ![s] = row] /\ w.guests = World.guests /\ w.viewers = n
      BY <3>1, <3>2 DEF Worlds
    <3>. QED BY <3>3 DEF n
  <2>2. IsOpen(World, s) /\ row.stage \in Open /\ World.view[s] = view[s] /\ ~World.view[s].attached
    BY <1>1, <1>2, <1>3, <1>4 DEF IsOpen, Open
  <2>3. Counted(w)
    BY <1>2, <1>4, <2>1, <2>2, Recounted
  <2>. QED BY <1>2, <2>1, <2>3
<1>7. Settling(row, q, 0)
  BY <1>3, <1>4 DEF Settling, SetUp
<1>8. Draining(w, s, q, 0) /\ NoneBegins(World, w)
  <2>1. \A v \in Views : w.view[v] = IF v = s THEN row ELSE view[v]
    BY <1>2, <1>6
  <2>2. Draining(w, s, q, 0)
    BY <1>2, <1>4, <1>6, <1>7, <2>1 DEF Draining
  <2>3. NoneBegins(World, w)
    BY <1>1, <1>2, <1>4, <2>1 DEF NoneBegins
  <2>. QED BY <2>2, <2>3
<1>9. Draining(r, s, q, Len(q)) /\ NoneBegins(w, r)
  BY <1>3, <1>8, InboxDrains
<1>. HIDE DEF r
<1>10. \A v : Settling(v, q, Len(q)) => Steady(v)
  <2>1. Len(q) \in Nat
    BY <1>3, LenProperties
  <2>. QED BY <2>1 DEF Settling, Steady
<1>11. AllSteady(r) /\ NoneBegins(World, r)
  BY <1>8, <1>9, <1>10 DEF Draining, AllSteady, NoneBegins
<1>. QED BY <1>1, <1>11, Turns

LEMMA SendsStep ==
    ASSUME SocketInv, NEW s \in Views, NEW msg \in {"beat", "show", "hide"}, Sends(s, msg)
    PROVE  SocketInv'
<1>. DEFINE full == view[s].stage = "connecting" /\ Len(view[s].inbox) >= MaxInbox
            said == [view[s] EXCEPT !.shown = (msg = "show"), !.missed = full]
            w == IF msg = "beat" THEN World ELSE [World EXCEPT !.view[s] = said]
            kept == [w EXCEPT !.view[s].inbox = Append(@, msg)]
<1>2. /\ World \in Worlds /\ Counted(World) /\ AllSteady(World) /\ World.view = view
      /\ view \in [Views -> ViewRows] /\ view[s] \in ViewRows /\ Steady(view[s])
  BY WorldIs DEF SocketInv, AllSteady
<1>1. /\ ticket' = ticket /\ guestIn' \in BOOLEAN /\ view[s].stage \in Open
      /\ view[s].stage = "ready" => Outcome(Handled(w, s, msg))
      /\ view[s].stage # "ready" => IF full THEN Outcome(w) ELSE Outcome(kept)
  BY <1>2, WorldIs DEF Sends
<1>3. PICK row \in ViewRows :
        /\ w = [World EXCEPT !.view = [@ EXCEPT ![s] = row]]
        /\ row.stage = view[s].stage /\ row.who = view[s].who /\ row.attached = view[s].attached /\ row.inbox = view[s].inbox
        /\ msg = "beat" => row = view[s]
        /\ msg = "hide" => ~row.shown
        /\ msg # "beat" => row.missed = full
  <2>. HIDE DEF full
  <2>1. CASE msg = "beat"
    <3>1. w = [World EXCEPT !.view = [@ EXCEPT ![s] = view[s]]]
      BY <1>2, <2>1 DEF Worlds
    <3>. HIDE DEF w
    <3>. QED BY <1>2, <2>1, <3>1
  <2>2. CASE msg # "beat"
    <3>1. full \in BOOLEAN /\ (msg = "show") \in BOOLEAN
      BY DEF full
    <3>2. /\ said \in ViewRows /\ said.stage = view[s].stage /\ said.who = view[s].who
          /\ said.attached = view[s].attached /\ said.inbox = view[s].inbox /\ said.missed = full
      <4>. DEFINE shows == msg = "show"
      <4>1. shows \in BOOLEAN /\ said = [view[s] EXCEPT !.shown = shows, !.missed = full]
        BY <3>1
      <4>. HIDE DEF shows, said
      <4>. QED BY <1>2, <3>1, <4>1 DEF ViewRows
    <3>3. msg = "hide" => ~said.shown
      BY <1>2 DEF ViewRows
    <3>4. w = [World EXCEPT !.view = [@ EXCEPT ![s] = said]]
      <4>. HIDE DEF said
      <4>. QED BY <1>2, <2>2 DEF Worlds
    <3>. HIDE DEF w, said
    <3>. QED BY <2>2, <3>2, <3>3, <3>4
  <2>. QED BY <2>1, <2>2
<1>. HIDE DEF w
<1>4. /\ Counted(w) /\ w.view = [view EXCEPT ![s] = row] /\ w.view[s] = row /\ w.view \in [Views -> ViewRows]
      /\ \A v \in Views : v # s => w.view[v] = view[v] /\ Steady(view[v])
  <2>1. Counted(w) /\ w.view = [World.view EXCEPT ![s] = row]
    BY <1>2, <1>3, RowKept
  <2>. QED BY <1>2, <2>1 DEF AllSteady
<1>5. CASE view[s].stage = "ready" /\ msg = "beat"
  <2>1. AllSteady(w) /\ NoneBegins(World, w)
    BY <1>2, <1>3, <1>4, <1>5 DEF AllSteady, NoneBegins
  <2>. DEFINE r == Handled(w, s, "beat")
  <2>2. AllSteady(r) /\ NoneBegins(w, r)
    BY <1>4, <2>1, HandledBeat
  <2>3. Outcome(r)
    BY <1>1, <1>5
  <2>. HIDE DEF r
  <2>4. NoneBegins(World, r)
    BY <2>1, <2>2 DEF NoneBegins
  <2>. QED BY <1>1, <2>2, <2>3, <2>4, Turns
<1>6. CASE view[s].stage = "ready" /\ msg \in {"show", "hide"}
  <2>. DEFINE r == Handled(w, s, msg)
  <2>1. r = Handled(w, s, msg) /\ Outcome(r)
    BY <1>1, <1>6
  <2>. HIDE DEF r
  <2>2. /\ Counted(r) /\ NoneBegins(w, r) /\ OthersKept(w, s, r)
        /\ (msg = "show" => r.view[s].attached) /\ r.view[s].stage = w.view[s].stage /\ InView(r.view[s]) = InView(w.view[s])
    <3>1. Counted(w) /\ msg \in {"show", "hide"}
      BY <1>4, <1>6
    <3>. QED BY <2>1, <3>1, ShownRows
  <2>3. Steady(r.view[s])
    BY <1>3, <1>4, <1>6, <2>2 DEF Steady, SetUp, InView
  <2>4. AllSteady(r)
    BY <1>4, <2>2, <2>3 DEF AllSteady, OthersKept
  <2>5. NoneBegins(World, r)
    BY <1>2, <1>3, <1>4, <2>2 DEF NoneBegins
  <2>. QED BY <1>1, <2>1, <2>4, <2>5, Turns
<1>7. CASE view[s].stage # "ready" /\ ~full
  <2>. DEFINE to == [row EXCEPT !.inbox = Append(row.inbox, msg)]
              r == [w EXCEPT !.view = [@ EXCEPT ![s] = to]]
  <2>1. view[s].stage = "connecting" /\ ~view[s].attached /\ (InView(view[s]) => ShowsAfter(view[s].inbox, 0))
        /\ view[s].inbox \in Seq(Told)
    BY <1>1, <1>2, <1>7 DEF Open, Steady, SetUp, ViewRows
  <2>2. /\ to \in ViewRows /\ to.stage = row.stage /\ to.who = row.who /\ to.attached = row.attached
        /\ InView(to) = InView(row) /\ to.inbox = Append(row.inbox, msg)
    <3>1. Append(row.inbox, msg) \in Seq(Told)
      BY <1>3, <2>1, AppendProperties DEF Told
    <3>. QED BY <3>1 DEF ViewRows, InView
  <2>3. kept = r
    BY <1>3, <1>4 DEF Counted, Worlds
  <2>4. ShowsAfter(Append(row.inbox, msg), 0) \/ ~InView(row)
    <3>. DEFINE q == row.inbox
                a == Append(q, msg)
    <3>1. /\ q \in Seq(Told) /\ Len(q) \in Nat /\ Len(a) = Len(q) + 1 /\ a[Len(q) + 1] = msg
          /\ \A j \in 1..Len(q) : a[j] = q[j]
      BY <1>3, <2>1, LenProperties, AppendProperties DEF Told
    <3>. HIDE DEF a, q
    <3>2. CASE msg = "beat" /\ InView(row)
      <4>1. ShowsAfter(q, 0)
        BY <1>3, <2>1, <3>2 DEF q
      <4>2. ShowsAfter(a, 0)
        <5>1. ASSUME NEW j \in 1..Len(a), a[j] = "hide" PROVE \E k \in (j + 1)..Len(a) : a[k] = "show"
          <6>1. j \in 1..Len(q) /\ q[j] = "hide"
            BY <3>1, <3>2, <5>1
          <6>2. PICK k \in (j + 1)..Len(q) : q[k] = "show"
            BY <3>1, <4>1, <6>1 DEF ShowsAfter
          <6>3. k \in (j + 1)..Len(a) /\ k \in 1..Len(q)
            BY <3>1, <6>1, <6>2
          <6>. QED BY <3>1, <6>2, <6>3
        <5>. QED BY <5>1 DEF ShowsAfter
      <4>. QED BY <4>2 DEF a, q
    <3>3. CASE msg = "show"
      <4>1. ASSUME NEW j \in 1..Len(a), a[j] = "hide" PROVE \E k \in (j + 1)..Len(a) : a[k] = "show"
        <5>1. j # Len(a)
          BY <3>1, <3>3, <4>1
        <5>2. Len(a) \in (j + 1)..Len(a) /\ a[Len(a)] = "show"
          BY <3>1, <3>3, <5>1
        <5>. QED BY <5>2
      <4>2. ShowsAfter(a, 0)
        BY <4>1 DEF ShowsAfter
      <4>. QED BY <4>2 DEF a, q
    <3>. QED BY <1>3, <3>2, <3>3 DEF InView
  <2>. HIDE DEF to
  <2>5. Steady(to)
    BY <1>3, <2>1, <2>2, <2>4 DEF Steady, SetUp
  <2>6. Counted(r) /\ r.view = [w.view EXCEPT ![s] = to]
    <3>1. Counted(w) /\ to.stage = w.view[s].stage /\ to.who = w.view[s].who /\ to.attached = w.view[s].attached
      BY <1>4, <2>2
    <3>. QED BY <2>2, <3>1, RowKept
  <2>7. Outcome(r)
    BY <1>1, <1>7, <2>3
  <2>. HIDE DEF r
  <2>8. \A v \in Views : r.view[v] = IF v = s THEN to ELSE view[v]
    BY <1>4, <2>6
  <2>9. AllSteady(r) /\ NoneBegins(World, r)
    BY <1>2, <1>3, <1>4, <2>1, <2>2, <2>5, <2>6, <2>8 DEF AllSteady, NoneBegins
  <2>. QED BY <1>1, <2>7, <2>9, Turns
<1>8. CASE full
  <2>1. view[s].stage = "connecting" /\ Outcome(w)
    BY <1>1, <1>8
  <2>2. Steady(row)
    BY <1>2, <1>3, <1>8, <2>1 DEF Steady, SetUp, InView
  <2>. HIDE DEF full
  <2>3. AllSteady(w) /\ NoneBegins(World, w)
    BY <1>2, <1>3, <2>2, RowSteady
  <2>. QED BY <1>1, <2>1, <2>3, Turns
<1>. QED BY <1>5, <1>6, <1>7, <1>8

LEMMA SocketStep == SocketInv /\ [SocketNext]_socketVars => SocketInv'
<1>. SUFFICES ASSUME SocketInv, [SocketNext]_socketVars PROVE SocketInv'
  OBVIOUS
<1>1. CASE UNCHANGED socketVars
  <2>1. Outcome(World) /\ ticket' = ticket /\ guestIn' \in BOOLEAN
    BY <1>1, WorldIs DEF socketVars, Outcome, World
  <2>. QED BY <2>1, WorldIs, TurnEnds
<1>2. CASE SocketNext
  BY <1>2, TicketsStep, UpgradesStep, TornStep, ReadyStep, SendsStep, LeavesStep, DeafStep, GuestChecksStep, ChairStep,
     GuestEndsStep DEF SocketNext
<1>. QED BY <1>1, <1>2

LEMMA SocketCounts == SocketInv => SocketTypeOK /\ WatchedIsCounted
<1>. SUFFICES ASSUME SocketInv PROVE SocketTypeOK /\ WatchedIsCounted
  OBVIOUS
<1>1. /\ Counted(World) /\ World.view = view /\ World.guests = guestViewers /\ World.viewers = viewers
      /\ view \in [Views -> ViewRows] /\ chair \in ChairRows
  BY WorldIs DEF World
<1>2. OpenGuests(World) = {s \in Views : view[s].stage \in Open /\ view[s].who = "guest"}
  BY <1>1 DEF OpenGuests, IsOpen
<1>. DEFINE Shown == {s \in Views : view[s].stage = "ready" /\ view[s].shown /\ ~view[s].missed}
<1>3. Shown \subseteq Watching(World) /\ Watching(World) \in SUBSET Views /\ OpenGuests(World) \in SUBSET Views
  BY <1>1 DEF SocketInv, AllSteady, Steady, InView, Watching, OpenGuests
<1>4. guestViewers = Cardinality(OpenGuests(World)) /\ viewers = Cardinality(Watching(World))
  BY <1>1 DEF Counted
<1>5. Cardinality(Shown) <= Cardinality(Watching(World))
  <2>. HIDE DEF Shown
  <2>. QED BY <1>3, SocketRows, FS_Subset
<1>6. WatchedIsCounted
  <2>1. Cardinality(Shown) \in Nat /\ viewers \in Nat /\ guestViewers \in Nat
    <3>1. Shown \in SUBSET Views
      OBVIOUS
    <3>. HIDE DEF Shown
    <3>. QED BY <1>3, <1>4, <3>1, SocketRows, FS_Subset, FS_CardinalityType
  <2>. QED BY <1>2, <1>4, <1>5, <2>1 DEF WatchedIsCounted
<1>7. SocketTypeOK
  <2>1. viewers \in Nat /\ guestViewers \in Nat
    BY <1>3, <1>4, SocketRows, FS_Subset, FS_CardinalityType
  <2>. QED BY <1>1, <2>1 DEF SocketTypeOK, SocketInv, TicketsOK, ViewRows, TicketRows, ChairRows
<1>. QED BY <1>6, <1>7

\* A socket's rows are what they are declared to be, and neither count falls below none.
THEOREM SocketTypes == SocketSpec => []SocketTypeOK
  BY SocketInitially, SocketStep, SocketCounts, PTL DEF SocketSpec

(* However a socket's ticket, its set-up, its queued messages and its end are ordered with the lease's
   turns and the guest's end, and whatever is dropped of what comes before it is set up, every open socket
   whose client shows the browser is counted as watching it, unless what said so was itself dropped; and
   the guest's sockets are counted exactly. *)
THEOREM SocketsCounted == SocketSpec => []WatchedIsCounted
  BY SocketInitially, SocketStep, SocketCounts, PTL DEF SocketSpec

---------------------------------------------------------------------------
(* The dashboard's lists (DashboardData). *)

\* The one read under way, and what it was answered, which is no older than what is listed.
ReadsInv ==
    /\ DataTypeOK
    /\ listed <= world
    /\ \A p, q \in ListReads : reads[p].stage # "none" /\ reads[q].stage # "none" => p = q
    /\ \A q \in ListReads : reads[q].stage = "answered" => listed <= reads[q].of /\ reads[q].of <= world

LEMMA ReadsInitially == DataInit => ReadsInv
<1> SUFFICES ASSUME DataInit PROVE ReadsInv
  OBVIOUS
<1>1. MaxWorld \in Nat /\ MaxAsking \in Nat /\ MaxHeard \in Nat /\ MaxFailed \in Nat
  BY DataAssumption
<1>2. /\ world = 0 /\ listed = 0 /\ asking = 0 /\ events = 0 /\ timer = 0 /\ stream = "open" /\ failed = 0 /\ due = 0
      /\ {dirty, rested, hidden, menu} \subseteq BOOLEAN
      /\ reads = [q \in ListReads |-> [stage |-> "none", of |-> 0]]
  BY DEF DataInit, NoRead
<1>3. reads \in [ListReads -> [stage: {"none", "asked", "answered"}, of: 0..MaxWorld]]
  BY <1>1, <1>2
<1>4. \A q \in ListReads : reads[q].stage = "none"
  BY <1>2
<1> QED BY <1>1, <1>2, <1>3, <1>4 DEF ReadsInv, DataTypeOK

\* A step that asks for nothing and reads nothing.
LEMMA ElseRead ==
    ASSUME ReadsInv, DataTypeOK', UNCHANGED <<listed, reads>>, world' \in {world, world + 1}
    PROVE  ReadsInv'
  BY DataAssumption DEF ReadsInv, DataTypeOK

\* A refresh that is let through reads only where nobody is reading.
LEMMA LoadKeeps ==
    ASSUME ReadsInv, Loads, UNCHANGED <<world, listed>>
    PROVE  /\ reads' \in [ListReads -> [stage: {"none", "asked", "answered"}, of: 0..MaxWorld]]
           /\ \A p, q \in ListReads : reads'[p].stage # "none" /\ reads'[q].stage # "none" => p = q
           /\ \A q \in ListReads : reads'[q].stage = "answered"
                                     => listed <= reads'[q].of /\ reads'[q].of <= world
<1> DEFINE first == CHOOSE q \in ListReads : TRUE
<1>1. CASE \A q \in ListReads : reads[q].stage = "none"
  <2>1. reads' = [reads EXCEPT ![first].stage = "asked"]
    BY <1>1 DEF Loads
  <2> HIDE DEF first
  <2>2. reads \in [ListReads -> [stage: {"none", "asked", "answered"}, of: 0..MaxWorld]]
    BY DEF ReadsInv, DataTypeOK
  <2>3. \A q \in ListReads : /\ q # first => reads'[q] = reads[q]
                             /\ q = first => reads'[q] = [reads[q] EXCEPT !.stage = "asked"]
    BY <2>1, <2>2
  <2>4. reads' \in [ListReads -> [stage: {"none", "asked", "answered"}, of: 0..MaxWorld]]
    BY <2>1, <2>2
  <2>5. \A q \in ListReads : (q # first => reads'[q].stage = "none") /\ (q = first => reads'[q].stage = "asked")
    BY <2>2, <2>3, <1>1
  <2> QED BY <2>4, <2>5
<1>2. CASE ~(\A q \in ListReads : reads[q].stage = "none")
  <2>1. UNCHANGED reads
    BY <1>2 DEF Loads
  <2> QED BY <2>1 DEF ReadsInv, DataTypeOK
<1> QED BY <1>1, <1>2

LEMMA ReadsKept ==
    ASSUME ReadsInv, [DataNext]_dataVars
    PROVE  ReadsInv' /\ listed' >= listed
<1> USE DataAssumption
<1>0. /\ DataTypeOK
      /\ world \in Nat /\ listed \in Nat
      /\ reads \in [ListReads -> [stage: {"none", "asked", "answered"}, of: 0..MaxWorld]]
  BY DEF ReadsInv, DataTypeOK
<1> DEFINE Kind == [stage: {"none", "asked", "answered"}, of: 0..MaxWorld]
<1>1. CASE UNCHANGED dataVars
  <2>1. DataTypeOK'
    BY <1>0, <1>1 DEF DataTypeOK, dataVars
  <2> QED BY <1>0, <1>1, <2>1, ElseRead DEF dataVars
<1>2. ASSUME \/ WorldChanges \/ SomethingElse \/ HearsEvent \/ TimePasses \/ Rests \/ Repaint \/ Refreshes
             \/ MeRefused \/ StreamDrops \/ StreamOpens \/ Hides \/ Shows \/ TurnsMenu
      PROVE  ReadsInv' /\ listed' >= listed
  <2>1. UNCHANGED <<listed, reads>> /\ world' \in {world, world + 1}
    BY <1>2 DEF WorldChanges, SomethingElse, HearsEvent, TimePasses, Rests, Repaint, Refreshes, MeRefused,
                StreamDrops, StreamOpens, Hides, Shows, TurnsMenu
  <2>2. listed' \in 0..MaxWorld /\ reads' \in [ListReads -> Kind]
    BY <1>0, <2>1 DEF DataTypeOK
  <2>3. world' \in 0..MaxWorld
    BY <1>0, <1>2 DEF DataTypeOK, WorldChanges, SomethingElse, HearsEvent, TimePasses, Rests, Repaint, Refreshes,
                      MeRefused, StreamDrops, StreamOpens, Hides, Shows, TurnsMenu
  <2>4. events' \in 0..MaxHeard /\ stream' \in {"open", "retrying", "closed"}
    BY <1>0, <1>2 DEF DataTypeOK, WorldChanges, SomethingElse, HearsEvent, TimePasses, Rests, Repaint, Refreshes,
                      MeRefused, StreamDrops, StreamOpens, Hides, Shows, TurnsMenu, Emits
  <2>5. asking' \in 0..MaxAsking
    <3>1. CASE Repaint
      BY <1>0, <3>1 DEF DataTypeOK, Repaint
    <3> QED
      BY <1>0, <1>2, <3>1 DEF DataTypeOK, WorldChanges, SomethingElse, HearsEvent, TimePasses, Rests, Refreshes,
                      MeRefused, StreamDrops, StreamOpens, Hides, Shows, TurnsMenu
  <2>6. timer' \in 0..2
    <3>1. CASE Repaint
      BY <1>0, <3>1 DEF DataTypeOK, Repaint
    <3>2. CASE HearsEvent \/ Shows
      BY <1>0, <3>2 DEF DataTypeOK, HearsEvent, QueueRepaint, Shows
    <3> QED
      BY <1>0, <1>2, <3>1, <3>2 DEF DataTypeOK, WorldChanges, SomethingElse, TimePasses, Rests, Refreshes,
                      MeRefused, StreamDrops, StreamOpens, Hides, TurnsMenu
  <2>7. {dirty', rested', hidden', menu'} \subseteq BOOLEAN
    <3>0. {dirty, rested, hidden, menu} \subseteq BOOLEAN
      BY <1>0 DEF DataTypeOK
    <3>1. CASE Repaint
      <4>1. (dirty' = dirty \/ dirty' = FALSE) /\ (rested' = rested \/ rested' = FALSE) /\ UNCHANGED <<hidden, menu>>
        BY <3>1 DEF Repaint
      <4> QED BY ONLY <3>0, <4>1
    <3>2. CASE HearsEvent \/ Shows
      BY <3>0, <3>2 DEF HearsEvent, QueueRepaint, Shows
    <3>3. CASE Rests \/ Hides \/ TurnsMenu
      BY <3>0, <3>3 DEF Rests, Hides, TurnsMenu
    <3>4. CASE \/ WorldChanges \/ SomethingElse \/ TimePasses \/ Refreshes \/ MeRefused \/ StreamDrops \/ StreamOpens
      <4>1. UNCHANGED <<dirty, rested, hidden, menu>>
        BY <3>4 DEF WorldChanges, SomethingElse, TimePasses, Refreshes, MeRefused, StreamDrops, StreamOpens
      <4> QED BY ONLY <3>0, <4>1
    <3> QED BY <1>2, <3>1, <3>2, <3>3, <3>4
  <2>9. due' \in 0..MaxWorld /\ failed' \in 0..MaxFailed
    BY <1>0, <1>2 DEF DataTypeOK, WorldChanges, SomethingElse, HearsEvent, TimePasses, Rests, Repaint, Refreshes,
                      MeRefused, GivesUp, StreamDrops, StreamOpens, Hides, Shows, TurnsMenu
  <2>8. DataTypeOK'
    BY <2>2, <2>3, <2>4, <2>5, <2>6, <2>7, <2>9 DEF DataTypeOK
  <2> QED BY <1>0, <2>1, <2>8, ElseRead
<1>3. ASSUME MeAnswered
      PROVE  ReadsInv' /\ listed' >= listed
  <2>1. Loads /\ UNCHANGED <<world, listed, stream, events, dirty, timer, rested, hidden, menu, failed>>
    BY <1>3 DEF MeAnswered
  <2>2. asking' \in 0..MaxAsking /\ due' \in 0..MaxWorld
    BY <1>0, <1>3 DEF MeAnswered, GivesUp, DataTypeOK
  <2>3. /\ reads' \in [ListReads -> Kind]
        /\ \A p, q \in ListReads : reads'[p].stage # "none" /\ reads'[q].stage # "none" => p = q
        /\ \A q \in ListReads : reads'[q].stage = "answered" => listed <= reads'[q].of /\ reads'[q].of <= world
    BY <2>1, LoadKeeps
  <2>4. DataTypeOK'
    BY <1>0, <2>1, <2>2, <2>3 DEF DataTypeOK
  <2> QED BY <1>0, <2>1, <2>3, <2>4 DEF ReadsInv
<1>4. ASSUME NEW q \in ListReads, ServerAnswers(q) \/ Lists(q) \/ ReadTimesOut(q)
      PROVE  ReadsInv' /\ listed' >= listed
  <2>1. UNCHANGED <<world, asking, stream, events, dirty, timer, rested, hidden, menu>> /\ reads[q].stage # "none"
    BY <1>4 DEF ServerAnswers, Lists, ReadTimesOut
  <2>2. \A p \in ListReads : p # q => reads[p].stage = "none" /\ reads'[p] = reads[p]
    BY <1>0, <1>4, <2>1 DEF ReadsInv, ServerAnswers, Lists, ReadTimesOut
  <2>3. /\ reads' \in [ListReads -> Kind]
        /\ reads'[q] \in {NoRead, [stage |-> "answered", of |-> world]}
    BY <1>0, <1>4 DEF DataTypeOK, ServerAnswers, Lists, ReadTimesOut, NoRead
  <2>4. /\ listed' \in 0..MaxWorld /\ listed' >= listed /\ listed' <= world
        /\ reads'[q].stage = "answered" => listed' = listed /\ reads'[q].of = world
    <3>1. CASE Lists(q)
      <4>1. reads[q].stage = "answered" /\ listed' = reads[q].of /\ reads'[q] = NoRead
        BY <1>0, <3>1 DEF Lists
      <4>2. reads[q].of \in 0..MaxWorld /\ listed <= reads[q].of /\ reads[q].of <= world
        BY <1>0, <4>1 DEF ReadsInv
      <4> QED BY <1>0, <4>1, <4>2 DEF NoRead
    <3>2. CASE ServerAnswers(q) \/ ReadTimesOut(q)
      BY <1>0, <3>2, <2>3 DEF ServerAnswers, ReadTimesOut, NoRead, ReadsInv, DataTypeOK
    <3> QED BY <1>4, <3>1, <3>2
  <2>7. due' \in 0..MaxWorld /\ failed' \in 0..MaxFailed
    BY <1>0, <1>4 DEF ServerAnswers, Lists, ReadTimesOut, GivesUp, DataTypeOK
  <2>5. DataTypeOK'
    BY <1>0, <2>1, <2>3, <2>4, <2>7 DEF DataTypeOK
  <2>6. \A p \in ListReads : reads'[p].stage # "none" => p = q
    BY <2>2
  <2> QED BY <1>0, <2>1, <2>4, <2>5, <2>6 DEF ReadsInv
<1> QED BY <1>1, <1>2, <1>3, <1>4 DEF DataNext

\* The dashboard's lists, timers and reads stay in their sets.
THEOREM ListsTypes == DataInit /\ [][DataNext]_dataVars => []DataTypeOK
<1>1. ReadsInv => DataTypeOK
  BY DEF ReadsInv
<1> QED BY <1>1, ReadsInitially, ReadsKept, PTL

(***************************************************************************)
(* The dashboard's lists never go back: the answer of an older read never  *)
(* replaces that of a newer one (loadDataset of app.js).                   *)
(***************************************************************************)
THEOREM ListsNeverGoBack == DataInit /\ [][DataNext]_dataVars => ListsOnlyAdvance
<1>1. ReadsInv /\ [DataNext]_dataVars => [listed' >= listed]_dataVars
  BY ReadsKept
<1> QED BY <1>1, ReadsInitially, ReadsKept, PTL DEF ListsOnlyAdvance

---------------------------------------------------------------------------
(* The moving picture. *)

One(f) == IF f.s = casting THEN 1 ELSE 0

\* The ack of each frame Chrome waits for is on its way with the frame, held back or owed.
AcksDue == casting # 0 => unacked <= Len(frames) + One(pending) + One(writing) + owed[casting]
\* The cast and the frames are of the tab that is streamed, and what is owed is paid with a frame.
OfTheTab ==
    /\ casting \in {0, session}
    /\ session = 0 => frames = <<>>
    /\ \A i \in DOMAIN frames : frames[i].s = session
    /\ (\E s \in StreamSessions : owed[s] > 0) => pending # None \/ writing # None
PictureTypes == StreamTypeOK /\ frames \in Seq(FrameRows) /\ castQueue \in Seq(JobRows)
PictureInv == PictureTypes /\ OfTheTab /\ AcksDue

LEMMA PictureFacts ==
    ASSUME PictureInv
    PROVE  /\ picture \in Pictures /\ painted \in BOOLEAN /\ casting \in StreamSessions /\ unacked \in 0..FrameWindow
           /\ frames \in Seq(FrameRows) /\ castQueue \in Seq(JobRows) /\ session \in StreamSessions
           /\ castSession \in StreamSessions /\ castPaused \in BOOLEAN
           /\ pending \in FrameRows /\ writing \in FrameRows /\ owed \in [StreamSessions -> Nat]
           /\ pending.s \in StreamSessions /\ writing.s \in StreamSessions
           /\ settling \in BOOLEAN /\ refined \in BOOLEAN
           /\ shots \subseteq [s : StreamSessions, kind : {"prime", "still"}, pic : Pictures]
           /\ shown \in Pictures /\ newest \in Pictures /\ casts \in 0..MaxCasts
           /\ interrupted \in BOOLEAN /\ gap \in Pictures
           /\ casting \in {0, session} /\ (session = 0 => frames = <<>>)
           /\ Len(frames) \in Nat /\ unacked \in Nat /\ owed[casting] \in Nat
           /\ 0 \in StreamSessions /\ None \in FrameRows /\ None.s = 0
BY StreamAssumption, LenProperties
   DEF PictureInv, PictureTypes, StreamTypeOK, OfTheTab, StreamSessions, Pictures, FrameRows, None

\* The order of what a socket is sent is free, and so is what the client shows.
LEMMA SentTypes ==
    ASSUME PictureInv, NEW p \in Pictures, Sent(p)
    PROVE  shown' \in Pictures /\ newest' \in Pictures
BY PictureFacts DEF Sent

\* What is acked was counted: the frames a credit pays for are off both sides.
LEMMA AckedBound ==
    ASSUME NEW u \in Nat, NEW o \in Nat, NEW n \in Nat, NEW l \in Nat,
           NEW a \in Nat, NEW b \in Nat, NEW c \in Nat, NEW d \in Nat,
           u <= l + a + b + o, a + b = n + c + d
    PROVE  u - (o + n) <= l + c + d + 0
OBVIOUS

LEMMA ElementsTyped ==
    /\ \A q \in Seq(FrameRows) : \A i \in DOMAIN q : q[i] \in FrameRows
    /\ \A q \in Seq(JobRows) : \A i \in DOMAIN q : q[i] \in JobRows
BY LenProperties, ElementOfSeq

\* A step that leaves the frames, the acks and the sessions alone.
LEMMA BesideTheCast ==
    ASSUME PictureInv, UNCHANGED <<casting, unacked, frames, session, pending, writing, owed>>,
           PictureTypes'
    PROVE  PictureInv'
BY DEF PictureInv, OfTheTab, AcksDue, One

LEMMA EmitKeeps == ASSUME PictureInv, Emit PROVE PictureInv'
<1>. DEFINE f == [pic |-> picture, s |-> casting]
<1>1. /\ casting # 0 /\ unacked < FrameWindow /\ frames' = Append(frames, f) /\ painted' = FALSE /\ unacked' = unacked + 1
      /\ UNCHANGED <<picture, casting, session, castSession, castPaused, castQueue, pending, writing, owed,
                     settling, refined, shots, shown, newest, interrupted, gap, casts>>
  BY DEF Emit, clientSide, misses
<1>2. f \in FrameRows /\ f.s = casting /\ casting = session
  BY <1>1, PictureFacts DEF FrameRows
<1>. HIDE DEF f
<1>3. /\ frames' \in Seq(FrameRows) /\ Len(frames') = Len(frames) + 1 /\ DOMAIN frames' = 1..(Len(frames) + 1)
      /\ DOMAIN frames = 1..Len(frames) /\ Len(frames) \in Nat
      /\ \A i \in 1..Len(frames) : frames'[i] = frames[i]
      /\ frames'[Len(frames) + 1] = f
  BY <1>1, <1>2, PictureFacts, AppendProperties, LenProperties
<1>4. PictureTypes'
  <2>1. unacked' \in 0..FrameWindow
    BY <1>1, PictureFacts, StreamAssumption
  <2>2. \A i \in DOMAIN frames' : frames'[i] \in FrameRows
    BY <1>3, ElementsTyped
  <2>. QED BY <1>1, <1>3, <2>1, <2>2 DEF PictureInv, PictureTypes, StreamTypeOK
<1>5. OfTheTab'
  <2>1. \A i \in 1..(Len(frames) + 1) : i \in 1..Len(frames) \/ i = Len(frames) + 1
    BY <1>3
  <2>2. \A i \in DOMAIN frames' : frames'[i].s = session
    BY <1>2, <1>3, <2>1 DEF PictureInv, OfTheTab
  <2>. QED BY <1>1, <1>2, <2>2 DEF PictureInv, OfTheTab
<1>6. AcksDue'
  <2>1. One(pending)' = One(pending) /\ One(writing)' = One(writing) /\ One(pending) \in Nat /\ One(writing) \in Nat
    BY <1>1 DEF One
  <2>2. unacked <= Len(frames) + One(pending) + One(writing) + owed[casting]
    BY <1>1 DEF PictureInv, AcksDue
  <2>3. unacked' <= Len(frames)' + One(pending) + One(writing) + owed[casting]
    BY <1>1, <1>3, <2>1, <2>2, PictureFacts
  <2>. QED BY <1>1, <2>1, <2>3 DEF AcksDue
<1>. QED BY <1>4, <1>5, <1>6 DEF PictureInv

LEMMA ReceiveKeeps == ASSUME PictureInv, Receive PROVE PictureInv'
<1>. DEFINE h == Head(frames)
<1>1. /\ frames # <<>> /\ frames' = Tail(frames)
      /\ UNCHANGED <<picture, painted, casting, unacked, session, castSession, castPaused, castQueue, writing,
                     shots, shown, newest, interrupted, gap, casts>>
  BY DEF Receive, clientSide, misses
<1>2. /\ h \in FrameRows /\ h = frames[1] /\ frames' \in Seq(FrameRows) /\ Len(frames') = Len(frames) - 1
      /\ DOMAIN frames = 1..Len(frames) /\ Len(frames) \in Nat /\ Len(frames) >= 1 /\ DOMAIN frames' = 1..(Len(frames) - 1)
      /\ \A i \in 1..(Len(frames) - 1) : frames'[i] = frames[i + 1] /\ i + 1 \in 1..Len(frames)
  <2>1. frames \in Seq(FrameRows) /\ Len(frames) \in Nat \ {0}
    BY <1>1, PictureFacts, EmptySeq
  <2>. QED BY <1>1, <2>1, HeadTailProperties, LenProperties
<1>3. h.s = session /\ session # 0
  BY <1>1, <1>2, PictureFacts DEF PictureInv, OfTheTab
<1>4. /\ owed' = IF pending = None THEN owed ELSE [owed EXCEPT ![pending.s] = @ + 1]
      /\ pending' = h /\ settling' = TRUE /\ refined' = FALSE
  BY <1>3 DEF Receive
<1>5. pending' # None
  BY <1>3, <1>4, PictureFacts
<1>6. owed' \in [StreamSessions -> Nat]
  BY <1>4, PictureFacts
<1>. HIDE DEF h
<1>7. PictureTypes'
  <2>1. \A i \in DOMAIN frames' : frames'[i] \in FrameRows
    BY <1>2, ElementsTyped
  <2>. QED BY <1>1, <1>2, <1>4, <1>6, <2>1 DEF PictureInv, PictureTypes, StreamTypeOK
<1>8. OfTheTab'
  BY <1>1, <1>2, <1>3, <1>5 DEF PictureInv, OfTheTab
<1>9. ASSUME casting # 0 PROVE unacked' <= Len(frames') + One(pending)' + One(writing)' + owed'[casting']
  <2>1. casting = session /\ One(pending)' = 1 /\ One(writing)' = One(writing) /\ One(writing) \in Nat
    BY <1>1, <1>3, <1>4, <1>9, PictureFacts DEF One
  <2>2. unacked <= Len(frames) + One(pending) + One(writing) + owed[casting]
    BY <1>9 DEF PictureInv, AcksDue
  <2>3. owed'[casting] = owed[casting] + One(pending)
    <3>1. CASE pending = None
      <4>1. One(pending) = 0
        BY <1>9, <3>1, PictureFacts DEF One
      <4>. QED BY <1>4, <3>1, <4>1, PictureFacts
    <3>2. CASE pending # None
      <4>1. owed' = [owed EXCEPT ![pending.s] = @ + 1]
        BY <1>4, <3>2
      <4>. QED BY <4>1, PictureFacts DEF One
    <3>. QED BY <3>1, <3>2
  <2>4. One(pending) \in Nat
    BY DEF One
  <2>. QED BY <1>1, <1>2, <2>1, <2>2, <2>3, <2>4, PictureFacts
<1>10. AcksDue'
  BY <1>1, <1>9 DEF AcksDue
<1>. QED BY <1>7, <1>8, <1>10 DEF PictureInv

\* Paying what is owed, with the ack of one more frame, leaves nothing owed.
LEMMA PaysKeeps ==
    ASSUME PictureInv, NEW f \in {pending, writing}, Pays(f),
           UNCHANGED <<picture, painted, casting, frames, session, castSession, castPaused, castQueue, settling,
                       refined, shots, shown, newest, interrupted, gap, casts>>,
           \/ f = pending /\ pending' = None /\ writing' = writing
           \/ f = writing /\ writing' = None /\ pending' = pending
    PROVE  PictureInv'
<1>1. /\ unacked' = Acked(casting, owed[casting] + One(f)) /\ owed' = [s \in StreamSessions |-> 0]
      /\ pending' \in FrameRows /\ writing' \in FrameRows /\ One(f) \in Nat
  BY PictureFacts DEF Pays, One
<1>2. unacked' \in 0..FrameWindow /\ unacked' \in Nat
  BY <1>1, PictureFacts, StreamAssumption DEF Acked
<1>3. PictureTypes'
  BY <1>1, <1>2, PictureFacts DEF PictureInv, PictureTypes, StreamTypeOK
<1>4. OfTheTab'
  BY <1>1 DEF PictureInv, OfTheTab
<1>5. ASSUME casting # 0 PROVE unacked' <= Len(frames) + One(pending)' + One(writing)' + 0
  <2>1. unacked <= Len(frames) + One(pending) + One(writing) + owed[casting]
    BY <1>5 DEF PictureInv, AcksDue
  <2>2. One(pending) \in Nat /\ One(writing) \in Nat /\ One(pending)' \in Nat /\ One(writing)' \in Nat
    BY DEF One
  <2>3. One(pending) + One(writing) = One(f) + One(pending)' + One(writing)'
    BY <1>5, <2>2, PictureFacts DEF One
  <2>4. unacked' = IF owed[casting] + One(f) > unacked THEN 0 ELSE unacked - (owed[casting] + One(f))
    BY <1>1 DEF Acked
  <2>5. owed[casting] \in Nat /\ unacked \in Nat /\ Len(frames) \in Nat /\ One(f) \in Nat
    BY <1>1, PictureFacts
  <2>6. CASE owed[casting] + One(f) > unacked
    BY <2>2, <2>4, <2>5, <2>6
  <2>7. CASE ~(owed[casting] + One(f) > unacked)
    <3>1. unacked' = unacked - (owed[casting] + One(f))
      BY <2>4, <2>7
    <3>. QED BY <2>1, <2>2, <2>3, <2>5, <3>1, AckedBound
  <2>. QED BY <2>6, <2>7
<1>6. AcksDue'
  BY <1>1, <1>5, PictureFacts DEF AcksDue
<1>. QED BY <1>3, <1>4, <1>6 DEF PictureInv

LEMMA FlushKeeps == ASSUME PictureInv, Flush PROVE PictureInv'
<1>1. /\ writing = None /\ pending # None /\ pending' = None
      /\ UNCHANGED <<picture, painted, casting, frames, session, castSession, castPaused, castQueue, settling,
                     refined, shots, interrupted, gap, casts>>
  BY DEF Flush, misses
<1>2. CASE pending.s # session
  BY <1>1, <1>2, PaysKeeps DEF Flush, clientSide
<1>3. CASE pending.s = session
  <2>1. writing' = pending /\ Sent(pending.pic) /\ UNCHANGED <<unacked, owed>>
    BY <1>3 DEF Flush
  <2>2. pending.pic \in Pictures
    BY PictureFacts DEF FrameRows
  <2>3. PictureTypes'
    <3>1. shown' \in Pictures /\ newest' \in Pictures
      BY <2>1, <2>2, SentTypes
    <3>. QED BY <1>1, <2>1, <3>1, PictureFacts DEF PictureInv, PictureTypes, StreamTypeOK
  <2>4. OfTheTab'
    BY <1>1, <2>1 DEF PictureInv, OfTheTab
  <2>5. ASSUME casting # 0 PROVE One(pending)' + One(writing)' = One(pending) + One(writing)
    BY <1>1, <2>1, <2>5, PictureFacts DEF One
  <2>6. AcksDue'
    <3>1. One(pending) \in Nat /\ One(writing) \in Nat /\ One(pending)' \in Nat /\ One(writing)' \in Nat
      BY DEF One
    <3>2. casting # 0 => unacked <= Len(frames) + One(pending)' + One(writing)' + owed[casting]
      BY <2>5, <3>1, PictureFacts DEF PictureInv, AcksDue
    <3>. QED BY <1>1, <2>1, <3>2 DEF AcksDue
  <2>. QED BY <2>3, <2>4, <2>6 DEF PictureInv
<1>. QED BY <1>2, <1>3

LEMMA DrainedKeeps == ASSUME PictureInv, Drained PROVE PictureInv'
  BY PaysKeeps DEF Drained, clientSide, misses

LEMMA StillsKeep ==
    ASSUME PictureInv, Paint \/ Settle \/ \E shot \in shots : ShotAnswered(shot) \/ ShotFails(shot)
    PROVE  PictureInv'
<1>1. CASE Paint
  <2>1. picture' \in Pictures /\ painted' \in BOOLEAN /\ gap' \in Pictures
    BY <1>1, PictureFacts, StreamAssumption DEF Paint, Pictures
  <2>2. PictureTypes'
    BY <1>1, <2>1, PictureFacts DEF Paint, clientSide, PictureInv, PictureTypes, StreamTypeOK
  <2>. QED BY <1>1, <2>2, BesideTheCast DEF Paint
<1>2. CASE Settle
  <2>1. settling' \in BOOLEAN /\ refined' \in BOOLEAN /\ shots' \subseteq [s : StreamSessions, kind : {"prime", "still"}, pic : Pictures]
    <3>1. Shot("still") \in [s : StreamSessions, kind : {"prime", "still"}, pic : Pictures]
      BY PictureFacts DEF Shot
    <3>2. settling' = FALSE /\ refined' \in {TRUE, refined} /\ shots' \in {shots, shots \cup {Shot("still")}}
      BY <1>2 DEF Settle
    <3>. QED BY <3>1, <3>2, PictureFacts
  <2>2. UNCHANGED <<chromeSide, session, castSession, castPaused, castQueue, pending, writing, owed, clientSide, interrupted, gap, casts>>
    BY <1>2 DEF Settle, misses
  <2>3. PictureTypes'
    BY <2>1, <2>2 DEF chromeSide, clientSide, PictureInv, PictureTypes, StreamTypeOK
  <2>. QED BY <2>2, <2>3, BesideTheCast DEF chromeSide
<1>3. ASSUME NEW shot \in shots, ShotAnswered(shot) PROVE PictureInv'
  <2>1. shot.pic \in Pictures
    BY PictureFacts
  <2>2. shown' \in Pictures /\ newest' \in Pictures
    BY <1>3, <2>1, SentTypes, PictureFacts DEF ShotAnswered, clientSide
  <2>3. /\ shots' = shots \ {shot}
        /\ UNCHANGED <<chromeSide, session, castSession, castPaused, castQueue, pending, writing, owed, settling,
                       refined, interrupted, gap, casts>>
    BY <1>3 DEF ShotAnswered, misses
  <2>4. PictureTypes'
    BY <2>2, <2>3 DEF chromeSide, PictureInv, PictureTypes, StreamTypeOK
  <2>. QED BY <2>3, <2>4, BesideTheCast DEF chromeSide
<1>4. ASSUME NEW shot \in shots, ShotFails(shot) PROVE PictureInv'
  <2>1. shot.pic \in Pictures
    BY PictureFacts
  <2>2. gap' \in Pictures /\ shots' = shots \ {shot}
        /\ UNCHANGED <<chromeSide, session, castSession, castPaused, castQueue, pending, writing, owed, settling,
                       refined, clientSide, interrupted, casts>>
    BY <1>4, <2>1, PictureFacts DEF ShotFails
  <2>3. PictureTypes'
    BY <2>2 DEF chromeSide, clientSide, PictureInv, PictureTypes, StreamTypeOK
  <2>. QED BY <2>2, <2>3, BesideTheCast DEF chromeSide
<1>. QED BY <1>1, <1>2, <1>3, <1>4

\* A step that only stops the cast of Chrome, if any, or starts one of the tab that is streamed
\* with nothing to be acknowledged.
LEMMA CastMoves ==
    ASSUME PictureInv, UNCHANGED <<picture, frames, session, pending, writing, owed, settling, refined, shown, newest>>,
           painted' \in BOOLEAN, interrupted' \in BOOLEAN, gap' \in Pictures,
           castQueue' \in Seq(JobRows), castSession' \in StreamSessions, castPaused' \in BOOLEAN, casts' \in 0..MaxCasts,
           shots' \subseteq [s : StreamSessions, kind : {"prime", "still"}, pic : Pictures],
           \/ UNCHANGED <<casting, unacked>>
           \/ casting' \in {0, session} /\ unacked' = 0
    PROVE  PictureInv'
<1>1. casting' \in StreamSessions /\ unacked' \in 0..FrameWindow
  BY PictureFacts, StreamAssumption
<1>2. PictureTypes'
  <2>1. \A i \in DOMAIN castQueue' : castQueue'[i] \in JobRows
    BY ElementsTyped
  <2>. QED BY <1>1, <2>1 DEF PictureInv, PictureTypes, StreamTypeOK
<1>3. OfTheTab'
  BY DEF PictureInv, OfTheTab
<1>4. CASE UNCHANGED <<casting, unacked>>
  <2>1. AcksDue'
    BY <1>4 DEF PictureInv, AcksDue, One
  <2>. QED BY <1>2, <1>3, <2>1 DEF PictureInv
<1>5. CASE casting' \in {0, session} /\ unacked' = 0
  <2>1. /\ One(pending)' \in Nat /\ One(writing)' \in Nat /\ Len(frames)' \in Nat
        /\ casting' # 0 => owed'[casting'] \in Nat
    BY <1>1, PictureFacts DEF One
  <2>2. AcksDue'
    BY <1>5, <2>1 DEF AcksDue
  <2>. QED BY <1>2, <1>3, <2>2 DEF PictureInv
<1>. QED BY <1>4, <1>5

\* Jobs are put at the end of the queue and taken from its head.
LEMMA Jobs ==
    /\ \A q \in Seq(JobRows), j \in JobRows : Append(q, j) \in Seq(JobRows)
    /\ \A q \in Seq(JobRows) : q # <<>> =>
          Tail(q) \in Seq(JobRows) /\ Head(q) \in JobRows /\ \A j \in JobRows : <<j>> \o Tail(q) \in Seq(JobRows)
BY AppendProperties, HeadTailProperties, ConcatProperties

LEMMA QueueKeeps == ASSUME PictureInv, BeginStart \/ EndStart \/ CastStartFails \/ StopCast PROVE PictureInv'
<1>. DEFINE j == Head(castQueue)
<1>1. /\ castQueue # <<>> /\ UNCHANGED <<picture, frames, session, castPaused, pending, writing, owed, settling, refined,
                                         shown, newest, casts>>
  BY DEF BeginStart, EndStart, CastStartFails, StopCast, chromeSide, clientSide
<1>2. Tail(castQueue) \in Seq(JobRows) /\ j \in JobRows /\ \A r \in JobRows : <<r>> \o Tail(castQueue) \in Seq(JobRows)
  BY <1>1, PictureFacts, Jobs
<1>3. j.s \in StreamSessions
  BY <1>2 DEF JobRows
<1>. DEFINE ShotRows == [s : StreamSessions, kind : {"prime", "still"}, pic : Pictures]
<1>4. shots \in SUBSET ShotRows /\ shots \cup Prime(j.s) \in SUBSET ShotRows
  BY <1>3, PictureFacts DEF Prime, Shot
<1>5. CASE BeginStart
  <2>. DEFINE n == [j EXCEPT !.begun = TRUE]
  <2>1. n \in JobRows
    BY <1>2 DEF JobRows
  <2>2. castQueue' \in Seq(JobRows)
    BY <1>2, <1>5, <2>1 DEF BeginStart
  <2>3. castSession' \in StreamSessions /\ shots' \in {shots, shots \cup Prime(j.s)}
    BY <1>5, PictureFacts DEF BeginStart
  <2>4. UNCHANGED <<casting, unacked>> \/ (casting' \in {0, session} /\ unacked' = 0)
    BY <1>5 DEF BeginStart, CastStops
  <2>5. painted' \in BOOLEAN /\ interrupted' \in BOOLEAN /\ gap' \in Pictures
    BY <1>5, PictureFacts DEF BeginStart, CastStops, misses
  <2>. QED BY <1>1, <1>4, <2>2, <2>3, <2>4, <2>5, PictureFacts, CastMoves
<1>6. CASE EndStart
  <2>1. castQueue' = Tail(castQueue)
    BY <1>6 DEF EndStart
  <2>2. /\ castSession' \in StreamSessions
        /\ UNCHANGED <<casting, unacked>> \/ (casting' \in {0, session} /\ unacked' = 0)
    BY <1>3, <1>6, PictureFacts DEF EndStart
  <2>3. shots' \in {shots, shots \cup Prime(j.s)}
    BY <1>6 DEF EndStart
  <2>4. painted' \in BOOLEAN /\ interrupted' \in BOOLEAN /\ gap' \in Pictures
    BY <1>6, PictureFacts DEF EndStart
  <2>. QED BY <1>1, <1>2, <1>4, <2>1, <2>2, <2>3, <2>4, PictureFacts, CastMoves
<1>7. CASE CastStartFails
  <2>1. castQueue' = Tail(castQueue) /\ interrupted' = TRUE /\ gap' = picture
        /\ UNCHANGED <<painted, casting, unacked, castSession, shots>>
    BY <1>7 DEF CastStartFails, chromeSide
  <2>. QED BY <1>1, <1>2, <2>1, PictureFacts, CastMoves
<1>8. CASE StopCast
  <2>1. castQueue' = Tail(castQueue) /\ shots' = shots /\ UNCHANGED <<interrupted, gap>>
    BY <1>8 DEF StopCast, misses
  <2>2. /\ castSession' \in StreamSessions /\ painted' \in BOOLEAN
        /\ UNCHANGED <<casting, unacked>> \/ (casting' \in {0, session} /\ unacked' = 0)
    BY <1>8, PictureFacts DEF StopCast, CastStops
  <2>. QED BY <1>1, <1>2, <2>1, <2>2, PictureFacts, CastMoves
<1>. QED BY <1>5, <1>6, <1>7, <1>8

LEMMA AskingKeeps == ASSUME PictureInv, Restart \/ Hide \/ Show PROVE PictureInv'
<1>1. UNCHANGED <<picture, painted, casting, unacked, frames, session, castSession, pending, writing, owed, settling, refined,
                  shots, shown, newest, interrupted, gap>>
  BY DEF Restart, Hide, Show, chromeSide, clientSide, misses
<1>2. castPaused' \in BOOLEAN /\ casts' \in 0..MaxCasts
  <2>1. castPaused' \in {castPaused, TRUE, FALSE}
    BY DEF Restart, Hide, Show
  <2>2. casts' = casts \/ (casts < MaxCasts /\ casts' = casts + 1)
    BY DEF Restart, Hide, Show, Spends
  <2>3. castPaused \in BOOLEAN /\ casts \in 0..MaxCasts
    BY PictureFacts
  <2>4. castPaused' \in BOOLEAN
    BY <2>1, <2>3
  <2>. QED BY <2>2, <2>3, <2>4, StreamAssumption
<1>3. castQueue' \in Seq(JobRows)
  <2>1. \A k \in {"restart", "resume", "stop"} : [k |-> k, begun |-> FALSE, s |-> session] \in JobRows
                                                 /\ [k |-> k, begun |-> FALSE, s |-> 0] \in JobRows
    BY PictureFacts DEF JobRows, Starts, Priming
  <2>. QED BY <2>1, PictureFacts, Jobs DEF Restart, Hide, Show, Job
<1>. QED BY <1>1, <1>2, <1>3, PictureFacts, CastMoves

LEMMA TabKeeps == ASSUME PictureInv, LeaveTab \/ EnterTab PROVE PictureInv'
<1>1. CASE LeaveTab
  <2>1. /\ session' = 0 /\ casting' = 0 /\ frames' = <<>> /\ unacked' \in {unacked, 0} /\ casts' \in 0..MaxCasts
        /\ painted' \in BOOLEAN /\ interrupted' = FALSE /\ gap' = gap
        /\ UNCHANGED <<picture, castPaused, castQueue, pending, writing, owed, settling, refined, shots,
                       shown, newest>>
        /\ castSession' \in StreamSessions
    <3>1. casting' = 0 /\ unacked' \in {unacked, 0} /\ painted' \in {painted, FALSE}
      BY <1>1, PictureFacts DEF LeaveTab, CastStops
    <3>2. castSession' \in {castSession, 0} /\ casts < MaxCasts /\ casts' = casts + 1
      BY <1>1 DEF LeaveTab, Spends
    <3>3. casts' \in 0..MaxCasts /\ castSession' \in StreamSessions
      BY <3>2, PictureFacts, StreamAssumption
    <3>. QED BY <1>1, <3>1, <3>3, PictureFacts DEF LeaveTab, clientSide
  <2>2. PictureTypes'
    <3>1. unacked' \in 0..FrameWindow /\ session' \in StreamSessions /\ casting' \in StreamSessions
      BY <2>1, PictureFacts, StreamAssumption
    <3>2. frames' \in Seq(FrameRows) /\ \A i \in DOMAIN frames' : frames'[i] \in FrameRows
      BY <2>1, ElementsTyped
    <3>. QED BY <2>1, <3>1, <3>2 DEF PictureInv, PictureTypes, StreamTypeOK
  <2>3. OfTheTab' /\ AcksDue'
    BY <2>1 DEF PictureInv, OfTheTab, AcksDue
  <2>. QED BY <2>2, <2>3 DEF PictureInv
<1>2. CASE EnterTab
  <2>1. /\ session = 0 /\ session' = casts + 1 /\ castQueue' = Append(castQueue, [k |-> "start", begun |-> FALSE, s |-> casts + 1])
        /\ UNCHANGED <<picture, painted, casting, unacked, frames, castSession, castPaused, pending, writing, owed, settling,
                       refined, shots, shown, newest, interrupted, gap, casts>>
    BY <1>2 DEF EnterTab, Job, chromeSide, clientSide, misses
  <2>2. session' \in StreamSessions
    <3>1. casts \in 0..MaxCasts /\ MaxCasts \in Nat
      BY PictureFacts, StreamAssumption
    <3>2. casts + 1 \in 0..(MaxCasts + 1)
      BY <3>1
    <3>. QED BY <2>1, <3>2 DEF StreamSessions
  <2>3. castQueue' \in Seq(JobRows)
    BY <2>1, <2>2, PictureFacts, Jobs DEF JobRows, Starts, Priming
  <2>4. PictureTypes'
    BY <2>1, <2>2, <2>3, ElementsTyped DEF PictureInv, PictureTypes, StreamTypeOK
  <2>5. casting = 0 /\ frames = <<>>
    BY <2>1, PictureFacts
  <2>6. OfTheTab' /\ AcksDue'
    BY <2>1, <2>5 DEF PictureInv, OfTheTab, AcksDue
  <2>. QED BY <2>4, <2>6 DEF PictureInv
<1>. QED BY <1>1, <1>2

LEMMA PictureStarts == ASSUME StreamInit PROVE PictureInv
<1>1. /\ 0 \in Pictures /\ 0 \in StreamSessions /\ 1 \in StreamSessions /\ None \in FrameRows /\ 0 \in 0..FrameWindow /\ 0 \in 0..MaxCasts
  BY StreamAssumption DEF Pictures, StreamSessions, FrameRows, None
<1>2. castQueue \in Seq(JobRows) /\ \A i \in DOMAIN castQueue : castQueue[i] \in JobRows
  <2>1. [k |-> "start", begun |-> FALSE, s |-> 1] \in JobRows
    BY <1>1 DEF JobRows, Starts, Priming
  <2>2. castQueue = <<[k |-> "start", begun |-> FALSE, s |-> 1]>>
    BY DEF StreamInit
  <2>3. castQueue \in Seq(JobRows)
    BY <2>1, <2>2
  <2>. QED BY <2>3, ElementsTyped
<1>3. PictureTypes
  <2>1. frames \in Seq(FrameRows) /\ \A i \in DOMAIN frames : frames[i] \in FrameRows
    BY ElementsTyped DEF StreamInit
  <2>2. owed \in [StreamSessions -> Nat] /\ shots = {} /\ pending = None /\ writing = None
    BY DEF StreamInit
  <2>3. /\ picture = 0 /\ painted = FALSE /\ casting = 0 /\ unacked = 0 /\ session = 1 /\ castSession = 0
        /\ castPaused = FALSE /\ settling = FALSE /\ refined = FALSE /\ shown = 0 /\ newest = 0 /\ casts = 0
        /\ interrupted = FALSE /\ gap = 0
    BY DEF StreamInit
  <2>. QED BY <1>1, <1>2, <2>1, <2>2, <2>3 DEF PictureTypes, StreamTypeOK
<1>4. OfTheTab /\ AcksDue
  BY DEF StreamInit, OfTheTab, AcksDue
<1>. QED BY <1>3, <1>4 DEF PictureInv

LEMMA PictureInductive == ASSUME PictureInv, [StreamNext]_streamVars PROVE PictureInv'
<1>1. ASSUME UNCHANGED streamVars PROVE PictureInv'
  BY <1>1 DEF streamVars, misses, PictureInv, PictureTypes, StreamTypeOK, OfTheTab, AcksDue, One
<1>2. ASSUME StepRung \/ GrowClamp \/ ApplySize \/ RestoreSize PROVE Restart
  BY <1>2 DEF StepRung, GrowClamp, ApplySize, RestoreSize
<1>. QED BY <1>1, <1>2, EmitKeeps, ReceiveKeeps, FlushKeeps, DrainedKeeps, StillsKeep, QueueKeeps, AskingKeeps, TabKeeps
            DEF StreamNext, StreamSteps

LEMMA PictureHolds == StreamSpec => []PictureInv
  BY PictureStarts, PictureInductive, PTL DEF StreamSpec

\* Frames, casts, acks and stills keep their types, and the window of Chrome is not overrun.
THEOREM PictureTyped == StreamSpec => []StreamTypeOK
<1>1. PictureInv => StreamTypeOK
  BY DEF PictureInv, PictureTypes
<1>. QED BY <1>1, PictureHolds, PTL

\* A cast whose frames wait for their acks has a frame left that brings them.
THEOREM CastNeverStalls == StreamSpec => []NeverStalls
<1>1. PictureInv => NeverStalls
  <2>. SUFFICES ASSUME PictureInv, casting # 0, unacked > 0, frames = <<>>, pending = None, writing = None
                PROVE  FALSE
    BY DEF NeverStalls
  <2>1. One(pending) = 0 /\ One(writing) = 0 /\ Len(frames) = 0
    BY PictureFacts DEF One
  <2>2. casting \in StreamSessions /\ owed[casting] \in Nat /\ ~(owed[casting] > 0)
    BY PictureFacts DEF PictureInv, OfTheTab
  <2>3. unacked \in Nat /\ unacked <= Len(frames) + One(pending) + One(writing) + owed[casting]
    BY PictureFacts DEF PictureInv, AcksDue
  <2>. QED BY <2>1, <2>2, <2>3
<1>. QED BY <1>1, PictureHolds, PTL

---------------------------------------------------------------------------
(* That the newest picture is not lost. *)

\* Starts are queued in the order of the tabs they are for, and a cast that runs has none of an
\* older tab behind it; no cast runs while a start is under way, and none is painted that does not run.
QueueAgrees ==
    /\ casting = castSession /\ session <= casts + 1
    /\ painted => casting # 0
    /\ \A n \in DOMAIN castQueue : castQueue[n].begun => n = 1 /\ castSession = 0 /\ castQueue[n].k \in Starts
    /\ \A n \in DOMAIN castQueue : castQueue[n].k \in Starts =>
          /\ castQueue[n].s # 0 /\ castQueue[n].s <= casts + 1
          /\ session = 0 => castQueue[n].s <= casts
          /\ castSession # 0 => castQueue[n].s = session
    /\ \A m, n \in DOMAIN castQueue :
          m < n /\ castQueue[m].k \in Starts /\ castQueue[n].k \in Starts /\ castQueue[m].s = session => castQueue[n].s = session

\* A frame shows nothing older than the frame before it, held back or not.
FramesInOrder ==
    /\ pending.pic <= picture
    /\ \A m, n \in DOMAIN frames : m <= n => frames[m].pic <= frames[n].pic
    /\ \A n \in DOMAIN frames : frames[n].pic <= picture /\ (pending.s = session => pending.pic <= frames[n].pic)

KeptInv == PictureInv /\ QueueAgrees /\ FramesInOrder /\ NothingIsLost

LEMMA Appending ==
    ASSUME NEW S, NEW q \in Seq(S), NEW j \in S
    PROVE  /\ DOMAIN q = 1..Len(q) /\ Len(q) \in Nat /\ DOMAIN Append(q, j) = 1..(Len(q) + 1)
           /\ \A n \in 1..Len(q) : Append(q, j)[n] = q[n] /\ n \in 1..(Len(q) + 1)
           /\ Append(q, j)[Len(q) + 1] = j /\ Len(q) + 1 \in 1..(Len(q) + 1)
           /\ \A n \in 1..(Len(q) + 1) : n \in 1..Len(q) \/ n = Len(q) + 1
BY AppendProperties, LenProperties

LEMMA Taking ==
    ASSUME NEW S, NEW q \in Seq(S), q # <<>>, NEW j \in S
    PROVE  /\ DOMAIN q = 1..Len(q) /\ Len(q) \in Nat /\ Len(q) >= 1 /\ Head(q) = q[1] /\ 1 \in DOMAIN q
           /\ DOMAIN Tail(q) = 1..(Len(q) - 1)
           /\ \A n \in 1..(Len(q) - 1) : Tail(q)[n] = q[n + 1] /\ n + 1 \in DOMAIN q
           /\ \A n \in DOMAIN q : n = 1 \/ (n - 1 \in 1..(Len(q) - 1) /\ Tail(q)[n - 1] = q[n])
           /\ DOMAIN (<<j>> \o Tail(q)) = DOMAIN q /\ (<<j>> \o Tail(q))[1] = j
           /\ \A n \in DOMAIN q : n # 1 => (<<j>> \o Tail(q))[n] = q[n]
<1>1. /\ DOMAIN q = 1..Len(q) /\ Len(q) \in Nat /\ Len(q) >= 1 /\ Head(q) = q[1] /\ Tail(q) \in Seq(S)
      /\ Len(Tail(q)) = Len(q) - 1 /\ DOMAIN Tail(q) = 1..(Len(q) - 1)
      /\ \A n \in 1..(Len(q) - 1) : Tail(q)[n] = q[n + 1]
  BY HeadTailProperties, LenProperties, EmptySeq
<1>2. \A n \in 1..Len(q) : n = 1 \/ (n - 1 \in 1..(Len(q) - 1) /\ (n - 1) + 1 = n)
  BY <1>1
<1>3. <<j>> \in Seq(S) /\ Len(<<j>>) = 1 /\ <<j>>[1] = j
  OBVIOUS
<1>4. /\ DOMAIN (<<j>> \o Tail(q)) = 1..Len(q)
      /\ (<<j>> \o Tail(q))[1] = j
      /\ \A n \in 1..Len(q) : n # 1 => (<<j>> \o Tail(q))[n] = Tail(q)[n - 1]
  BY <1>1, <1>3, ConcatProperties, LenProperties
<1>. QED BY <1>1, <1>2, <1>4

\* Nothing is lost by a step that keeps the tab and what carries its picture.
LEMMA KeptBeside ==
    ASSUME KeptInv, PictureInv', UNCHANGED <<picture, casting, frames, session, castSession, castQueue, pending>>,
           castPaused' = castPaused, casts' = casts, painted' = painted, newest' >= newest, newest' \in Pictures,
           interrupted' = interrupted, gap' >= gap, gap' \in Pictures,
           \A shot \in shots : \/ shot \in shots' \/ shot.kind # "prime" \/ shot.s # session
                              \/ newest' >= shot.pic \/ gap' >= shot.pic
    PROVE  KeptInv'
<1>1. QueueAgrees' /\ FramesInOrder'
  BY DEF KeptInv, QueueAgrees, FramesInOrder
<1>2. NothingIsLost'
  <2>. SUFFICES ASSUME session # 0, ~castPaused
                PROVE  /\ casting' # 0 \/ interrupted' \/ Queued(Priming)'
                       /\ newest' >= picture' \/ gap' >= picture' \/ OnItsWay' \/ painted' \/ Queued(Priming)'
    BY DEF NothingIsLost
  <2>1. /\ casting # 0 \/ interrupted \/ Queued(Priming)
        /\ newest >= picture \/ gap >= picture \/ OnItsWay \/ painted \/ Queued(Priming)
    BY DEF KeptInv, NothingIsLost
  <2>2. Queued(Priming)' = Queued(Priming)
    BY DEF Queued
  <2>3. OnItsWay => OnItsWay' \/ newest' >= picture' \/ gap' >= picture'
    BY DEF OnItsWay
  <2>4. (newest >= picture => newest' >= picture') /\ (gap >= picture => gap' >= picture')
    BY PictureFacts DEF KeptInv, Pictures
  <2>. QED BY <2>1, <2>2, <2>3, <2>4
<1>. QED BY <1>1, <1>2 DEF KeptInv

LEMMA StillsKept ==
    ASSUME KeptInv, PictureInv', Drained \/ Settle \/ \E shot \in shots : ShotAnswered(shot) \/ ShotFails(shot)
    PROVE  KeptInv'
<1>1. newest \in Nat /\ newest \in Pictures /\ gap \in Nat /\ gap \in Pictures /\ shots \subseteq [s : StreamSessions, kind : {"prime", "still"}, pic : Pictures]
  BY PictureFacts DEF KeptInv, Pictures
<1>2. CASE Drained
  BY <1>1, <1>2, KeptBeside DEF Drained, clientSide, misses
<1>3. CASE Settle
  <2>1. shots \subseteq shots'
    BY <1>3 DEF Settle
  <2>. QED BY <1>1, <1>3, <2>1, KeptBeside DEF Settle, chromeSide, clientSide, misses
<1>4. ASSUME NEW shot \in shots, ShotAnswered(shot) PROVE KeptInv'
  <2>1. shot.pic \in Nat /\ shots' = shots \ {shot} /\ shot.pic \in Pictures
    BY <1>1, <1>4 DEF ShotAnswered, Pictures
  <2>2. newest' >= newest /\ newest' \in Pictures /\ (shot.s = session => newest' >= shot.pic)
    BY <1>1, <1>4, <2>1 DEF ShotAnswered, Sent, clientSide
  <2>3. UNCHANGED <<picture, painted, casting, frames, session, castSession, castPaused, castQueue, pending, casts, interrupted, gap>>
    BY <1>4 DEF ShotAnswered, chromeSide, misses
  <2>. QED BY <1>1, <2>1, <2>2, <2>3, KeptBeside
<1>5. ASSUME NEW shot \in shots, ShotFails(shot) PROVE KeptInv'
  <2>1. shot.pic \in Nat /\ shots' = shots \ {shot} /\ shot.pic \in Pictures
    BY <1>1, <1>5 DEF ShotFails, Pictures
  <2>2. gap' >= gap /\ gap' \in Pictures /\ (shot.kind = "prime" /\ shot.s = session => gap' >= shot.pic)
    BY <1>1, <1>5, <2>1 DEF ShotFails
  <2>3. UNCHANGED <<picture, painted, casting, frames, session, castSession, castPaused, castQueue, pending, casts, interrupted, newest>>
    BY <1>5 DEF ShotFails, chromeSide, clientSide
  <2>. QED BY <1>1, <2>1, <2>2, <2>3, KeptBeside
<1>. QED BY <1>2, <1>3, <1>4, <1>5

LEMMA PaintKept == ASSUME KeptInv, PictureInv', Paint PROVE KeptInv'
<1>1. /\ picture' = picture + 1 /\ (painted' <=> casting # 0) /\ (interrupted => gap' >= picture') /\ picture' \in Nat /\ picture \in Nat
      /\ UNCHANGED <<casting, frames, session, castSession, castPaused, castQueue, pending, casts, interrupted>>
      /\ pending.pic \in Nat /\ \A n \in DOMAIN frames : frames[n].pic \in Nat
  <2>1. frames \in Seq(FrameRows) /\ picture \in Pictures /\ pending \in FrameRows
    BY PictureFacts DEF KeptInv
  <2>2. \A n \in DOMAIN frames : frames[n] \in FrameRows
    BY <2>1, ElementsTyped
  <2>3. painted' <=> casting # 0
    BY Zenon DEF Paint
  <2>4. picture' = picture + 1 /\ (interrupted => gap' = picture')
    BY DEF Paint
  <2>5. UNCHANGED <<casting, frames, session, castSession, castPaused, castQueue, pending, casts, interrupted>>
    BY DEF Paint
  <2>. QED BY <2>1, <2>2, <2>3, <2>4, <2>5 DEF Pictures, FrameRows
<1>2. QueueAgrees'
  BY <1>1 DEF KeptInv, QueueAgrees
<1>3. FramesInOrder'
  BY <1>1 DEF KeptInv, FramesInOrder
<1>4. NothingIsLost'
  <2>1. Queued(Priming)' <=> Queued(Priming)
    BY <1>1 DEF Queued
  <2>. QED BY <1>1, <2>1 DEF KeptInv, NothingIsLost
<1>. QED BY <1>2, <1>3, <1>4 DEF KeptInv

LEMMA EmitKept == ASSUME KeptInv, PictureInv', Emit PROVE KeptInv'
<1>. DEFINE f == [pic |-> picture, s |-> casting]
<1>1. /\ casting # 0 /\ frames' = Append(frames, f)
      /\ UNCHANGED <<picture, casting, session, castSession, castPaused, castQueue, pending, casts>>
      /\ painted' = FALSE
  BY DEF Emit
<1>2. f \in FrameRows /\ frames \in Seq(FrameRows) /\ f.pic = picture /\ picture \in Nat
  BY PictureFacts DEF KeptInv, FrameRows, Pictures
<1>. HIDE DEF f
<1>3. /\ DOMAIN frames = 1..Len(frames) /\ Len(frames) \in Nat /\ DOMAIN frames' = 1..(Len(frames) + 1)
      /\ \A n \in 1..Len(frames) : frames'[n] = frames[n]
      /\ frames'[Len(frames) + 1] = f /\ Len(frames) + 1 \in DOMAIN frames'
      /\ \A n \in 1..(Len(frames) + 1) : n \in 1..Len(frames) \/ n = Len(frames) + 1
  BY <1>1, <1>2, Appending
<1>4. \A n \in DOMAIN frames : frames[n].pic \in Nat
  <2>1. \A n \in DOMAIN frames : frames[n] \in FrameRows
    BY <1>2, ElementsTyped
  <2>. QED BY <2>1 DEF Pictures, FrameRows
<1>5. QueueAgrees'
  BY <1>1 DEF KeptInv, QueueAgrees
<1>6. FramesInOrder'
  <2>1. \A n \in DOMAIN frames : frames[n].pic <= picture
    BY DEF KeptInv, FramesInOrder
  <2>2. \A m, n \in DOMAIN frames' : m <= n => frames'[m].pic <= frames'[n].pic
    BY <1>2, <1>3, <1>4, <2>1 DEF KeptInv, FramesInOrder
  <2>3. \A n \in DOMAIN frames' : frames'[n].pic <= picture' /\ (pending.s = session => pending.pic <= frames'[n].pic)
    BY <1>1, <1>2, <1>3, <1>4, <2>1 DEF KeptInv, FramesInOrder
  <2>. QED BY <1>1, <2>2, <2>3 DEF KeptInv, FramesInOrder
<1>7. NothingIsLost'
  <2>1. OnItsWay'
    BY <1>1, <1>2, <1>3 DEF OnItsWay
  <2>. QED BY <1>1, <2>1 DEF NothingIsLost
<1>. QED BY <1>5, <1>6, <1>7 DEF KeptInv

LEMMA ReceiveKept == ASSUME KeptInv, PictureInv', Receive PROVE KeptInv'
<1>. DEFINE h == Head(frames)
<1>1. /\ frames # <<>> /\ frames' = Tail(frames) /\ frames \in Seq(FrameRows) /\ h.s = session /\ session # 0
      /\ UNCHANGED <<picture, painted, casting, session, castSession, castPaused, castQueue, shots, newest, casts, interrupted, gap>>
  BY PictureFacts, Taking DEF Receive, clientSide, misses, KeptInv, PictureInv, OfTheTab
<1>2. pending' = h
  BY <1>1 DEF Receive
<1>3. /\ h = frames[1] /\ 1 \in DOMAIN frames /\ DOMAIN frames = 1..Len(frames) /\ Len(frames) \in Nat
      /\ DOMAIN frames' = 1..(Len(frames) - 1)
      /\ \A n \in 1..(Len(frames) - 1) : frames'[n] = frames[n + 1] /\ n + 1 \in DOMAIN frames
      /\ \A n \in DOMAIN frames : n = 1 \/ (n - 1 \in 1..(Len(frames) - 1) /\ frames'[n - 1] = frames[n])
  BY <1>1, Taking
<1>4. picture \in Nat /\ pending.pic \in Nat /\ \A n \in DOMAIN frames : frames[n].pic \in Nat
  <2>1. \A n \in DOMAIN frames : frames[n] \in FrameRows
    BY <1>1, ElementsTyped
  <2>. QED BY <2>1, PictureFacts DEF KeptInv, Pictures, FrameRows
<1>. HIDE DEF h
<1>5. QueueAgrees'
  BY <1>1 DEF KeptInv, QueueAgrees
<1>6. FramesInOrder'
  <2>1. /\ \A m, n \in DOMAIN frames : m <= n => frames[m].pic <= frames[n].pic
        /\ \A n \in DOMAIN frames : frames[n].pic <= picture
    BY DEF KeptInv, FramesInOrder
  <2>2. \A m, n \in DOMAIN frames' : m <= n => frames'[m].pic <= frames'[n].pic
    <3>1. SUFFICES ASSUME NEW m \in DOMAIN frames', NEW n \in DOMAIN frames', m <= n
                   PROVE  frames'[m].pic <= frames'[n].pic
      OBVIOUS
    <3>2. m \in 1..(Len(frames) - 1) /\ n \in 1..(Len(frames) - 1) /\ m + 1 <= n + 1
      BY <1>3, <3>1
    <3>3. m + 1 \in DOMAIN frames /\ n + 1 \in DOMAIN frames
          /\ frames'[m] = frames[m + 1] /\ frames'[n] = frames[n + 1]
      BY <1>3, <3>2
    <3>. QED BY <2>1, <3>2, <3>3
  <2>3. \A n \in DOMAIN frames' : frames'[n].pic <= picture /\ h.pic <= frames'[n].pic
    BY <1>3, <2>1
  <2>4. h.pic <= picture
    BY <1>3, <2>1
  <2>. QED BY <1>1, <1>2, <2>2, <2>3, <2>4 DEF FramesInOrder
<1>7. NothingIsLost'
  <2>. SUFFICES ASSUME session # 0, ~castPaused, OnItsWay PROVE OnItsWay'
    BY <1>1 DEF KeptInv, NothingIsLost, Queued
  <2>1. CASE \E n \in DOMAIN frames : frames[n].pic = picture
    <3>1. PICK n \in DOMAIN frames : frames[n].pic = picture
      BY <2>1
    <3>2. CASE n = 1
      BY <1>1, <1>2, <1>3, <3>1, <3>2 DEF OnItsWay
    <3>3. CASE n # 1
      BY <1>1, <1>3, <3>1, <3>3 DEF OnItsWay
    <3>. QED BY <3>2, <3>3
  <2>2. CASE pending.s = session /\ pending.pic = picture
    <3>1. picture <= h.pic /\ h.pic <= picture
      BY <1>3, <2>2 DEF KeptInv, FramesInOrder
    <3>. QED BY <1>1, <1>2, <1>3, <1>4, <3>1 DEF OnItsWay
  <2>3. CASE \E shot \in shots : shot.kind = "prime" /\ shot.s = session /\ shot.pic = picture
    BY <1>1, <2>3 DEF OnItsWay
  <2>. QED BY <2>1, <2>2, <2>3 DEF OnItsWay
<1>. QED BY <1>5, <1>6, <1>7 DEF KeptInv

LEMMA FlushKept == ASSUME KeptInv, PictureInv', Flush PROVE KeptInv'
<1>1. /\ pending # None /\ pending' = None
      /\ UNCHANGED <<picture, painted, casting, frames, session, castSession, castPaused, castQueue, shots, casts, interrupted, gap>>
      /\ pending.s = session => Sent(pending.pic)
      /\ pending.s # session => newest' = newest
  BY DEF Flush, clientSide, misses
<1>2. /\ picture \in Nat /\ newest \in Nat /\ pending.pic \in Nat /\ None.pic = 0 /\ None.s = 0
      /\ \A n \in DOMAIN frames : frames[n].pic \in Nat
  <2>1. \A n \in DOMAIN frames : frames[n] \in FrameRows
    BY PictureFacts, ElementsTyped DEF KeptInv
  <2>. QED BY <2>1, PictureFacts DEF KeptInv, Pictures, FrameRows, None
<1>3. QueueAgrees'
  BY <1>1 DEF KeptInv, QueueAgrees
<1>4. FramesInOrder'
  <2>1. 0 <= picture /\ \A n \in DOMAIN frames : 0 <= frames[n].pic
    BY <1>2
  <2>. QED BY <1>1, <1>2, <2>1 DEF KeptInv, FramesInOrder
<1>5. NothingIsLost'
  <2>. SUFFICES ASSUME session # 0, ~castPaused, newest >= picture \/ OnItsWay PROVE newest' >= picture \/ OnItsWay'
    BY <1>1 DEF KeptInv, NothingIsLost, Queued
  <2>1. newest' >= newest /\ (pending.s = session => newest' >= pending.pic) /\ newest' \in Nat
    BY <1>1, <1>2 DEF Sent
  <2>2. CASE newest >= picture
    BY <1>2, <2>1, <2>2
  <2>3. CASE OnItsWay
    BY <1>1, <2>1, <2>3 DEF OnItsWay
  <2>. QED BY <2>2, <2>3
<1>. QED BY <1>3, <1>4, <1>5 DEF KeptInv

LEMMA BeginStartKept == ASSUME KeptInv, PictureInv', BeginStart PROVE KeptInv'
<1>. DEFINE j == Head(castQueue)
            r == [j EXCEPT !.begun = TRUE]
<1>1. /\ castQueue # <<>> /\ castQueue \in Seq(JobRows) /\ j.k \in Starts /\ ~j.begun
      /\ UNCHANGED <<picture, frames, session, castPaused, pending, newest, casts>>
  BY PictureFacts DEF BeginStart, KeptInv, clientSide
<1>2. j \in JobRows
  BY <1>1, HeadTailProperties
<1>3. r \in JobRows /\ r.s = j.s /\ r.k = j.k
  BY <1>1, <1>2 DEF JobRows
<1>. HIDE DEF r
<1>4. /\ DOMAIN castQueue = 1..Len(castQueue) /\ Len(castQueue) \in Nat /\ j = castQueue[1] /\ 1 \in DOMAIN castQueue
      /\ DOMAIN Tail(castQueue) = 1..(Len(castQueue) - 1)
      /\ \A n \in 1..(Len(castQueue) - 1) : /\ Tail(castQueue)[n] = castQueue[n + 1] /\ n + 1 \in DOMAIN castQueue
                                            /\ n + 1 # 1
      /\ DOMAIN (<<r>> \o Tail(castQueue)) = DOMAIN castQueue /\ (<<r>> \o Tail(castQueue))[1] = r
      /\ \A n \in DOMAIN castQueue : n # 1 => (<<r>> \o Tail(castQueue))[n] = castQueue[n]
  BY <1>1, <1>3, Taking
<1>5. FramesInOrder'
  BY <1>1 DEF KeptInv, FramesInOrder
<1>6. CASE castPaused
  <2>1. castQueue' = Tail(castQueue) /\ UNCHANGED <<castSession, casting, painted>>
    BY <1>6 DEF BeginStart
  <2>2. QueueAgrees'
    BY <1>1, <1>4, <2>1 DEF KeptInv, QueueAgrees
  <2>3. NothingIsLost'
    BY <1>1, <1>6 DEF NothingIsLost
  <2>. QED BY <1>5, <2>2, <2>3 DEF KeptInv
<1>7. CASE ~castPaused
  <2>1. /\ castQueue' = <<r>> \o Tail(castQueue) /\ castSession' = 0 /\ shots' = shots
        /\ IF castSession = j.s THEN CastStops(j.s) ELSE UNCHANGED <<casting, unacked, painted>>
        /\ IF j.k = "restart" /\ j.s = session
           THEN interrupted' = TRUE /\ gap' = IF painted THEN picture ELSE gap
           ELSE UNCHANGED <<interrupted, gap>>
    BY <1>7 DEF BeginStart, r, misses
  <2>2. /\ casting = castSession /\ casting \in {0, session} /\ j.s # 0 /\ (castSession # 0 => j.s = session)
        /\ painted \in BOOLEAN /\ (painted => casting # 0)
    BY <1>1, <1>4, PictureFacts DEF KeptInv, QueueAgrees
  <2>3. casting' = 0 /\ painted' = FALSE
    BY <2>1, <2>2 DEF CastStops
  <2>. HIDE DEF j
  <2>4. \A n \in DOMAIN castQueue : castQueue'[n].s = castQueue[n].s /\ castQueue'[n].k = castQueue[n].k
    BY <1>1, <1>3, <1>4, <2>1
  <2>5. DOMAIN castQueue' = DOMAIN castQueue
    BY <1>4, <2>1
  <2>6. QueueAgrees'
    <3>1. casting' = castSession' /\ session' <= casts' + 1 /\ castSession' = 0
      BY <1>1, <2>1, <2>3 DEF KeptInv, QueueAgrees
    <3>2. \A n \in DOMAIN castQueue : castQueue'[n].k \in Starts =>
             /\ castQueue'[n].s # 0 /\ castQueue'[n].s <= casts' + 1
             /\ session' = 0 => castQueue'[n].s <= casts'
      BY <1>1, <2>4 DEF KeptInv, QueueAgrees
    <3>3. \A m, n \in DOMAIN castQueue : m < n /\ castQueue'[m].k \in Starts /\ castQueue'[n].k \in Starts
             /\ castQueue'[m].s = session' => castQueue'[n].s = session'
      BY <1>1, <2>4 DEF KeptInv, QueueAgrees
    <3>4. \A n \in DOMAIN castQueue : castQueue'[n].begun => n = 1 /\ castQueue'[n].k \in Starts
      <4>1. \A n \in DOMAIN castQueue : n # 1 => ~castQueue'[n].begun
        BY <1>4, <2>1 DEF KeptInv, QueueAgrees
      <4>2. castQueue'[1].k \in Starts
        BY <1>1, <1>3, <1>4, <2>1
      <4>. QED BY <4>1, <4>2
    <3>. QED BY <2>3, <2>5, <3>1, <3>2, <3>3, <3>4 DEF QueueAgrees
  <2>7. NothingIsLost'
    <3>1. Queued(Priming)' = Queued(Priming)
      BY <1>1, <2>4, <2>5 DEF Queued
    <3>2. ASSUME castSession # 0, j.k \in Priming PROVE Queued(Priming)
      BY <1>4, <2>2, <3>2 DEF Queued
    <3>3. ASSUME castSession # 0, j.k \notin Priming
          PROVE  interrupted' = TRUE /\ gap' = IF painted THEN picture ELSE gap
      BY <1>1, <2>1, <2>2, <3>3 DEF Starts
    <3>4. gap' = gap \/ gap' = picture
      BY <2>1
    <3>5. interrupted => interrupted'
      BY <2>1
    <3>6. OnItsWay' = OnItsWay
      BY <1>1, <2>1 DEF OnItsWay
    <3>7. picture >= picture
      BY PictureFacts DEF KeptInv, Pictures
    <3>. QED BY <1>1, <2>2, <3>1, <3>2, <3>3, <3>4, <3>5, <3>6, <3>7 DEF KeptInv, NothingIsLost
  <2>. QED BY <1>5, <2>6, <2>7 DEF KeptInv
<1>. QED BY <1>6, <1>7

\* A start that answers or fails takes the head of the queue.
LEMMA HeadTaken ==
    ASSUME KeptInv, PictureInv', castQueue # <<>>, castQueue' = Tail(castQueue)
    PROVE  /\ DOMAIN castQueue = 1..Len(castQueue) /\ Len(castQueue) \in Nat /\ Head(castQueue) = castQueue[1]
           /\ 1 \in DOMAIN castQueue /\ DOMAIN castQueue' = 1..(Len(castQueue) - 1)
           /\ \A n \in 1..(Len(castQueue) - 1) : /\ castQueue'[n] = castQueue[n + 1] /\ n + 1 \in DOMAIN castQueue
                                                 /\ 1 < n + 1 /\ n + 1 # 1
           /\ \A n \in DOMAIN castQueue : n = 1 \/ (n - 1 \in DOMAIN castQueue' /\ castQueue'[n - 1] = castQueue[n])
           /\ \A n \in DOMAIN castQueue' : ~castQueue'[n].begun
<1>1. castQueue \in Seq(JobRows)
  BY PictureFacts DEF KeptInv
<1>2. /\ DOMAIN castQueue = 1..Len(castQueue) /\ Len(castQueue) \in Nat /\ Head(castQueue) = castQueue[1]
      /\ 1 \in DOMAIN castQueue /\ DOMAIN castQueue' = 1..(Len(castQueue) - 1)
      /\ \A n \in 1..(Len(castQueue) - 1) : /\ castQueue'[n] = castQueue[n + 1] /\ n + 1 \in DOMAIN castQueue
                                            /\ 1 < n + 1 /\ n + 1 # 1
      /\ \A n \in DOMAIN castQueue : n = 1 \/ (n - 1 \in DOMAIN castQueue' /\ castQueue'[n - 1] = castQueue[n])
  BY <1>1, Taking
<1>3. \A n \in DOMAIN castQueue' : ~castQueue'[n].begun
  BY <1>2 DEF KeptInv, QueueAgrees
<1>. QED BY <1>2, <1>3

LEMMA EndStartKept == ASSUME KeptInv, PictureInv', EndStart PROVE KeptInv'
<1>. DEFINE j == Head(castQueue)
<1>1. /\ castQueue # <<>> /\ j.begun /\ castQueue' = Tail(castQueue)
      /\ UNCHANGED <<picture, frames, session, castPaused, pending, newest, casts, gap>>
      /\ IF j.s # session THEN UNCHANGED <<castSession, casting, unacked, painted, shots, interrupted>>
         ELSE /\ castSession' = j.s /\ casting' = j.s /\ unacked' = 0 /\ painted' = FALSE
              /\ shots' = IF j.k = "resume" \/ (j.k = "start" /\ ~castPaused) THEN shots \cup Prime(j.s) ELSE shots
  BY DEF EndStart, clientSide
<1>2. /\ DOMAIN castQueue = 1..Len(castQueue) /\ Len(castQueue) \in Nat /\ j = castQueue[1] /\ 1 \in DOMAIN castQueue
      /\ DOMAIN castQueue' = 1..(Len(castQueue) - 1)
      /\ \A n \in 1..(Len(castQueue) - 1) : castQueue'[n] = castQueue[n + 1] /\ n + 1 \in DOMAIN castQueue /\ 1 < n + 1
      /\ \A n \in DOMAIN castQueue : n = 1 \/ (n - 1 \in DOMAIN castQueue' /\ castQueue'[n - 1] = castQueue[n])
      /\ \A n \in DOMAIN castQueue' : ~castQueue'[n].begun
  BY <1>1, HeadTaken
<1>. HIDE DEF j
<1>3. casting = castSession /\ castSession = 0 /\ painted = FALSE /\ j.s # 0 /\ j.k \in Starts
  BY <1>1, <1>2, PictureFacts DEF KeptInv, QueueAgrees
<1>4. FramesInOrder'
  BY <1>1 DEF KeptInv, FramesInOrder
<1>5. CASE j.s # session
  <2>1. UNCHANGED <<castSession, casting, painted, shots, interrupted>>
    BY <1>1, <1>5
  <2>2. QueueAgrees'
    BY <1>1, <1>2, <2>1 DEF KeptInv, QueueAgrees
  <2>3. ASSUME NEW K, Queued(K) PROVE Queued(K)'
    <3>1. PICK n \in DOMAIN castQueue : castQueue[n].k \in K /\ castQueue[n].s = session
      BY <2>3 DEF Queued
    <3>2. n - 1 \in DOMAIN castQueue' /\ castQueue'[n - 1] = castQueue[n]
      BY <1>2, <1>5, <3>1
    <3>. QED BY <1>1, <3>1, <3>2 DEF Queued
  <2>4. OnItsWay' = OnItsWay
    BY <1>1, <2>1 DEF OnItsWay
  <2>5. NothingIsLost'
    BY <1>1, <2>1, <2>3, <2>4 DEF KeptInv, NothingIsLost
  <2>. QED BY <1>4, <2>2, <2>5 DEF KeptInv
<1>6. CASE j.s = session
  <2>1. castSession' = session /\ casting' = session /\ session # 0 /\ shots \subseteq shots' /\ painted' = FALSE
    BY <1>1, <1>3, <1>6
  <2>2. QueueAgrees'
    <3>1. \A n \in DOMAIN castQueue : n # 1 /\ castQueue[n].k \in Starts => castQueue[n].s = session
      BY <1>1, <1>2, <1>3, <1>6 DEF KeptInv, QueueAgrees
    <3>. QED BY <1>1, <1>2, <2>1, <3>1 DEF KeptInv, QueueAgrees
  <2>3. ASSUME ~castPaused PROVE newest >= picture \/ gap >= picture \/ OnItsWay' \/ Queued(Priming)'
    <3>1. newest >= picture \/ gap >= picture \/ OnItsWay \/ Queued(Priming)
      BY <1>3, <2>1, <2>3 DEF KeptInv, NothingIsLost
    <3>2. OnItsWay => OnItsWay'
      BY <1>1, <2>1 DEF OnItsWay
    <3>3. CASE j.k \in Priming
      <4>1. Shot("prime") \in shots' /\ Shot("prime").s = session /\ Shot("prime").pic = picture /\ Shot("prime").kind = "prime"
        BY <1>1, <1>6, <2>3, <3>3 DEF Shot, Prime, Priming
      <4>. QED BY <1>1, <4>1 DEF OnItsWay
    <3>4. CASE j.k \notin Priming /\ Queued(Priming)
      <4>1. PICK n \in DOMAIN castQueue : castQueue[n].k \in Priming /\ castQueue[n].s = session
        BY <3>4 DEF Queued
      <4>2. n - 1 \in DOMAIN castQueue' /\ castQueue'[n - 1] = castQueue[n]
        BY <1>2, <3>4, <4>1
      <4>. QED BY <1>1, <4>1, <4>2 DEF Queued
    <3>. QED BY <3>1, <3>2, <3>3, <3>4
  <2>4. NothingIsLost'
    BY <1>1, <2>1, <2>3 DEF NothingIsLost
  <2>. QED BY <1>4, <2>2, <2>4 DEF KeptInv
<1>. QED BY <1>5, <1>6

LEMMA FailKept == ASSUME KeptInv, PictureInv', CastStartFails PROVE KeptInv'
<1>1. /\ castQueue # <<>> /\ castQueue' = Tail(castQueue) /\ interrupted' = TRUE /\ gap' = picture
      /\ UNCHANGED <<picture, painted, casting, frames, session, castSession, castPaused, pending, newest, casts>>
  BY DEF CastStartFails, chromeSide, clientSide
<1>2. QueueAgrees'
  BY <1>1, HeadTaken DEF KeptInv, QueueAgrees
<1>3. gap' >= picture'
  BY <1>1, PictureFacts DEF KeptInv, Pictures
<1>4. FramesInOrder' /\ NothingIsLost'
  BY <1>1, <1>3 DEF KeptInv, FramesInOrder, NothingIsLost
<1>. QED BY <1>2, <1>4 DEF KeptInv

LEMMA StopCastKept == ASSUME KeptInv, PictureInv', StopCast PROVE KeptInv'
<1>1. /\ castQueue # <<>> /\ Head(castQueue).k = "stop" /\ castQueue' = Tail(castQueue)
      /\ UNCHANGED <<picture, frames, session, castPaused, pending, shots, newest, casts, interrupted, gap>>
      /\ IF castPaused /\ castSession # 0 THEN castSession' = 0 /\ CastStops(castSession)
         ELSE UNCHANGED <<castSession, casting, unacked, painted>>
  BY DEF StopCast, clientSide, misses
<1>2. /\ DOMAIN castQueue = 1..Len(castQueue) /\ Len(castQueue) \in Nat /\ castQueue[1].k = "stop"
      /\ DOMAIN castQueue' = 1..(Len(castQueue) - 1)
      /\ \A n \in 1..(Len(castQueue) - 1) : castQueue'[n] = castQueue[n + 1] /\ n + 1 \in DOMAIN castQueue /\ 1 < n + 1
      /\ \A n \in DOMAIN castQueue : n = 1 \/ (n - 1 \in DOMAIN castQueue' /\ castQueue'[n - 1] = castQueue[n])
      /\ \A n \in DOMAIN castQueue' : ~castQueue'[n].begun
  BY <1>1, HeadTaken
<1>3. /\ casting' = castSession' /\ castSession' \in {0, castSession}
      /\ ~castPaused => casting' = casting /\ painted' = painted
      /\ painted' => casting' # 0
  BY <1>1 DEF CastStops, KeptInv, QueueAgrees
<1>4. QueueAgrees' /\ FramesInOrder'
  <2>1. QueueAgrees'
    BY <1>1, <1>2, <1>3 DEF KeptInv, QueueAgrees
  <2>. QED BY <1>1, <2>1 DEF KeptInv, FramesInOrder
<1>5. Queued(Priming) => Queued(Priming)'
  <2>. SUFFICES ASSUME Queued(Priming) PROVE Queued(Priming)'
    OBVIOUS
  <2>1. PICK n \in DOMAIN castQueue : castQueue[n].k \in Priming /\ castQueue[n].s = session
    BY DEF Queued
  <2>2. n - 1 \in DOMAIN castQueue' /\ castQueue'[n - 1] = castQueue[n]
    BY <1>2, <2>1 DEF Priming
  <2>. QED BY <1>1, <2>1, <2>2 DEF Queued
<1>6. NothingIsLost'
  <2>1. OnItsWay' = OnItsWay
    BY <1>1 DEF OnItsWay
  <2>. QED BY <1>1, <1>3, <1>5, <2>1 DEF KeptInv, NothingIsLost
<1>. QED BY <1>4, <1>6 DEF KeptInv

\* A job queued for the tab that is streamed, or a stop, is behind the starts there are.
LEMMA JobKept ==
    ASSUME KeptInv, PictureInv', NEW j \in JobRows, castQueue' = Append(castQueue, j),
           j.k \in Starts => j.s = session /\ session # 0, j.k \in Starts \/ session = 0 \/ j.k = "stop",
           ~j.begun, UNCHANGED <<picture, painted, casting, frames, session, castSession, pending, shots, newest, interrupted, gap>>,
           casts' \in {casts, casts + 1},
           castPaused' = castPaused \/ castPaused' = TRUE \/ (j.k \in Priming /\ session # 0)
    PROVE  KeptInv'
<1>1. /\ DOMAIN castQueue = 1..Len(castQueue) /\ Len(castQueue) \in Nat /\ DOMAIN castQueue' = 1..(Len(castQueue) + 1)
      /\ \A n \in 1..Len(castQueue) : castQueue'[n] = castQueue[n] /\ n \in 1..(Len(castQueue) + 1)
      /\ castQueue'[Len(castQueue) + 1] = j /\ Len(castQueue) + 1 \in 1..(Len(castQueue) + 1)
      /\ \A n \in 1..(Len(castQueue) + 1) : n \in 1..Len(castQueue) \/ n = Len(castQueue) + 1
  BY PictureFacts, Appending DEF KeptInv
<1>2. casts \in Nat /\ session \in Nat /\ \A n \in DOMAIN castQueue : castQueue[n].s \in Nat
  <2>1. \A n \in DOMAIN castQueue : castQueue[n] \in JobRows
    BY PictureFacts, ElementsTyped DEF KeptInv
  <2>. QED BY <2>1, PictureFacts DEF KeptInv, JobRows, StreamSessions
<1>3. QueueAgrees'
  <2>1. casting' = castSession' /\ session' <= casts' + 1
    <3>1. casting = castSession /\ session <= casts + 1 /\ session' = session
      BY DEF KeptInv, QueueAgrees
    <3>2. casts' = casts \/ casts' = casts + 1
      OBVIOUS
    <3>. QED BY <1>2, <3>1, <3>2
  <2>2. ASSUME NEW n \in DOMAIN castQueue', castQueue'[n].k \in Starts
        PROVE  /\ castQueue'[n].s # 0 /\ castQueue'[n].s <= casts' + 1
               /\ session = 0 => castQueue'[n].s <= casts'
               /\ castSession # 0 => castQueue'[n].s = session
    <3>1. CASE n \in 1..Len(castQueue)
      BY <1>1, <1>2, <2>2, <3>1 DEF KeptInv, QueueAgrees
    <3>2. CASE n = Len(castQueue) + 1
      BY <1>1, <1>2, <2>1, <2>2, <3>2
    <3>. QED BY <1>1, <3>1, <3>2
  <2>3. ASSUME NEW m \in DOMAIN castQueue', NEW n \in DOMAIN castQueue', m < n, castQueue'[m].k \in Starts,
               castQueue'[n].k \in Starts, castQueue'[m].s = session
        PROVE  castQueue'[n].s = session
    <3>1. CASE n \in 1..Len(castQueue)
      <4>1. m \in 1..Len(castQueue)
        BY <1>1, <2>3, <3>1
      <4>. QED BY <1>1, <2>3, <3>1, <4>1 DEF KeptInv, QueueAgrees
    <3>2. CASE n = Len(castQueue) + 1
      BY <1>1, <2>3, <3>2
    <3>. QED BY <1>1, <3>1, <3>2
  <2>4. ASSUME NEW n \in DOMAIN castQueue', castQueue'[n].begun
        PROVE  n = 1 /\ castSession' = 0 /\ castQueue'[n].k \in Starts
    BY <1>1, <2>4 DEF KeptInv, QueueAgrees
  <2>5. painted' => casting' # 0
    BY DEF KeptInv, QueueAgrees
  <2>. QED BY <2>1, <2>2, <2>3, <2>4, <2>5 DEF QueueAgrees
<1>4. FramesInOrder'
  BY DEF KeptInv, FramesInOrder
<1>5. ASSUME NEW K, Queued(K) PROVE Queued(K)'
  BY <1>1, <1>5 DEF Queued
<1>6. j.k \in Priming /\ session # 0 => Queued(Priming)'
  BY <1>1 DEF Queued, Starts
<1>7. OnItsWay' = OnItsWay
  BY DEF OnItsWay
<1>8. NothingIsLost'
  BY <1>5, <1>6, <1>7 DEF KeptInv, NothingIsLost
<1>. QED BY <1>3, <1>4, <1>8 DEF KeptInv

LEMMA AskingKept == ASSUME KeptInv, PictureInv', Restart \/ Hide \/ Show PROVE KeptInv'
<1>1. \A k \in {"restart", "resume", "stop"} : [k |-> k, begun |-> FALSE, s |-> session] \in JobRows
                                               /\ [k |-> k, begun |-> FALSE, s |-> 0] \in JobRows
  BY PictureFacts DEF JobRows, KeptInv, Starts, Priming
<1>2. CASE Restart
  BY <1>1, <1>2, JobKept DEF Restart, Job, Spends, chromeSide, clientSide, misses, Starts, Priming
<1>3. CASE Hide
  BY <1>1, <1>3, JobKept DEF Hide, Job, Spends, chromeSide, clientSide, misses, Starts, Priming
<1>4. CASE Show /\ session # 0
  BY <1>1, <1>4, JobKept DEF Show, Job, chromeSide, clientSide, misses, Starts, Priming
<1>5. CASE Show /\ session = 0
  <2>1. UNCHANGED <<picture, painted, casting, frames, session, castSession, castQueue, pending, casts>>
    BY <1>5 DEF Show, chromeSide
  <2>2. QueueAgrees' /\ FramesInOrder'
    BY <2>1 DEF KeptInv, QueueAgrees, FramesInOrder
  <2>3. NothingIsLost'
    BY <1>5, <2>1 DEF NothingIsLost
  <2>. QED BY <2>2, <2>3 DEF KeptInv
<1>. QED BY <1>2, <1>3, <1>4, <1>5

LEMMA TabKept == ASSUME KeptInv, PictureInv', LeaveTab \/ EnterTab PROVE KeptInv'
<1>1. casts \in Nat /\ session \in Nat /\ \A n \in DOMAIN castQueue : castQueue[n].s \in Nat
  <2>1. \A n \in DOMAIN castQueue : castQueue[n] \in JobRows
    BY PictureFacts, ElementsTyped DEF KeptInv
  <2>. QED BY <2>1, PictureFacts DEF KeptInv, JobRows, StreamSessions
<1>2. CASE LeaveTab
  <2>1. /\ session' = 0 /\ casting' = castSession' /\ castSession' = 0 /\ frames' = <<>> /\ casts' = casts + 1
        /\ UNCHANGED <<picture, castQueue, pending>> /\ painted' = FALSE
    <3>1. casting = castSession /\ casting \in {0, session} /\ (painted => casting # 0) /\ painted \in BOOLEAN
      BY PictureFacts DEF KeptInv, QueueAgrees
    <3>. QED BY <1>2, <3>1 DEF LeaveTab, CastStops, Spends
  <2>2. QueueAgrees'
    BY <1>1, <2>1 DEF KeptInv, QueueAgrees
  <2>3. FramesInOrder' /\ NothingIsLost'
    BY <2>1 DEF KeptInv, FramesInOrder, NothingIsLost
  <2>. QED BY <2>2, <2>3 DEF KeptInv
<1>3. CASE EnterTab
  <2>. DEFINE j == [k |-> "start", begun |-> FALSE, s |-> casts + 1]
  <2>1. /\ session = 0 /\ session' = casts + 1 /\ castQueue' = Append(castQueue, j)
        /\ UNCHANGED <<picture, painted, casting, frames, castSession, pending, casts>>
    BY <1>3 DEF EnterTab, Job, chromeSide
  <2>2. casting = 0 /\ castSession = 0 /\ frames = <<>>
    BY <2>1, PictureFacts DEF KeptInv, QueueAgrees
  <2>3. j \in JobRows /\ j.k = "start" /\ j.s = session' /\ ~j.begun
    <3>1. session' \in StreamSessions
      BY DEF PictureInv, PictureTypes, StreamTypeOK
    <3>. QED BY <2>1, <3>1 DEF JobRows, Starts, Priming
  <2>. HIDE DEF j
  <2>4. /\ DOMAIN castQueue = 1..Len(castQueue) /\ Len(castQueue) \in Nat /\ DOMAIN castQueue' = 1..(Len(castQueue) + 1)
        /\ \A n \in 1..Len(castQueue) : castQueue'[n] = castQueue[n]
        /\ castQueue'[Len(castQueue) + 1] = j /\ Len(castQueue) + 1 \in 1..(Len(castQueue) + 1)
        /\ \A n \in 1..(Len(castQueue) + 1) : n \in 1..Len(castQueue) \/ n = Len(castQueue) + 1
    BY <2>1, <2>3, PictureFacts, Appending DEF KeptInv
  <2>5. \A n \in 1..Len(castQueue) : castQueue[n].k \in Starts => castQueue[n].s # 0 /\ castQueue[n].s <= casts
    BY <2>1, <2>4 DEF KeptInv, QueueAgrees
  <2>6. QueueAgrees'
    <3>1. casting' = castSession' /\ session' <= casts' + 1 /\ castSession' = 0 /\ session' # 0
      BY <1>1, <2>1, <2>2
    <3>2. ASSUME NEW n \in DOMAIN castQueue', castQueue'[n].k \in Starts
          PROVE  castQueue'[n].s # 0 /\ castQueue'[n].s <= casts' + 1
      BY <1>1, <2>1, <2>3, <2>4, <2>5, <3>1, <3>2
    <3>3. ASSUME NEW m \in DOMAIN castQueue', NEW n \in DOMAIN castQueue', m < n, castQueue'[m].k \in Starts, castQueue'[m].s = session'
          PROVE  FALSE
      <4>1. m \in 1..Len(castQueue)
        BY <2>4, <3>3
      <4>. QED BY <1>1, <2>1, <2>4, <2>5, <3>3, <4>1
    <3>4. ASSUME NEW n \in DOMAIN castQueue', castQueue'[n].begun
          PROVE  n = 1 /\ castSession' = 0 /\ castQueue'[n].k \in Starts
      BY <2>1, <2>3, <2>4, <3>1, <3>4 DEF KeptInv, QueueAgrees
    <3>5. painted' => casting' # 0
      BY <2>1 DEF KeptInv, QueueAgrees
    <3>. QED BY <3>1, <3>2, <3>3, <3>4, <3>5 DEF QueueAgrees
  <2>7. FramesInOrder'
    BY <2>1, <2>2 DEF KeptInv, FramesInOrder
  <2>8. NothingIsLost'
    <3>1. Queued(Priming)'
      BY <2>3, <2>4 DEF Queued, Priming
    <3>. QED BY <3>1 DEF NothingIsLost
  <2>. QED BY <2>6, <2>7, <2>8 DEF KeptInv
<1>. QED BY <1>2, <1>3

LEMMA KeptStarts == ASSUME StreamInit PROVE KeptInv
<1>1. /\ picture = 0 /\ casting = 0 /\ castSession = 0 /\ frames = <<>> /\ session = 1 /\ newest = 0 /\ casts = 0 /\ pending.pic = 0
      /\ castQueue = <<[k |-> "start", begun |-> FALSE, s |-> 1]>> /\ painted = FALSE
  BY DEF StreamInit, None
<1>2. DOMAIN castQueue = {1} /\ castQueue[1].k = "start" /\ castQueue[1].s = 1 /\ castQueue[1].begun = FALSE
  BY <1>1
<1>3. QueueAgrees
  BY <1>1, <1>2 DEF QueueAgrees
<1>4. FramesInOrder
  BY <1>1 DEF FramesInOrder
<1>5. Queued(Priming) /\ newest >= picture
  BY <1>1, <1>2 DEF Queued, Priming
<1>. QED BY <1>3, <1>4, <1>5, PictureStarts DEF KeptInv, NothingIsLost

LEMMA KeptInductive == ASSUME KeptInv, [StreamNext]_streamVars PROVE KeptInv'
<1>1. PictureInv'
  BY PictureInductive DEF KeptInv
<1>2. ASSUME UNCHANGED streamVars PROVE KeptInv'
  BY <1>1, <1>2 DEF streamVars, misses, KeptInv, QueueAgrees, FramesInOrder, NothingIsLost, OnItsWay, Queued
<1>3. ASSUME StepRung \/ GrowClamp \/ ApplySize \/ RestoreSize PROVE Restart
  BY <1>3 DEF StepRung, GrowClamp, ApplySize, RestoreSize
<1>. QED BY <1>1, <1>2, <1>3, PaintKept, EmitKept, ReceiveKept, FlushKept, StillsKept, BeginStartKept, EndStartKept, FailKept, StopCastKept,
            AskingKept, TabKept DEF StreamNext, StreamSteps

LEMMA KeptHolds == StreamSpec => []KeptInv
  BY KeptStarts, KeptInductive, PTL DEF StreamSpec

\* Whatever the page shows was sent to a viewer in sight, or will be: no order of paints, frames,
\* restarts, tab switches and stills loses the newest picture, but for one painted while no cast ran in
\* a restart or after a start that failed, or whose own shot failed (`gap`).
THEOREM NewestIsKept == StreamSpec => []NothingIsLost
<1>1. KeptInv => NothingIsLost
  BY DEF KeptInv
<1>. QED BY <1>1, KeptHolds, PTL

---------------------------------------------------------------------------
(* The recordings of an agent: a cast that runs has a clock that ends it.  *)

\* A recording that is starting and was not asked for yet, a cast that runs, and one that ended.
Unasked(rec) == rec.stage = "free" \/ (rec.stage = "starting" /\ rec.timers = {} /\ rec.why = "none")
RecordAgrees(rec) ==
    /\ Unasked(rec) => ~rec.casting /\ ~rec.moved /\ rec.frames = 0
    /\ rec.casting => /\ rec.why = "none" /\ rec.timers # {} /\ rec.frames < MaxFrames
                      /\ rec.moved => "maxSeconds" \in rec.timers
    /\ rec.why # "none" => rec.timers = {}

RecordingInv ==
    /\ RecordingTypeOK
    /\ \A r \in Records : RecordAgrees(recording[r])

\* A step changes one recording: it is enough that what it becomes is a row that agrees.
LEMMA OneRecordMoves ==
    ASSUME RecordingInv, NEW r \in Records, NEW rec \in RecordRows, RecordAgrees(rec),
           recording' = [recording EXCEPT ![r] = rec],
           running' \in Records \cup {NoRecord}, browserUp' \in BOOLEAN
    PROVE  RecordingInv'
<1>1. recording' \in [Records -> RecordRows]
  BY DEF RecordingInv, RecordingTypeOK
<1>2. \A q \in Records : recording'[q] = IF q = r THEN rec ELSE recording[q]
  BY DEF RecordingInv, RecordingTypeOK
<1>3. \A q \in Records : RecordAgrees(recording[q]) /\ RecordAgrees(rec)
  BY DEF RecordingInv
<1>4. \A q \in Records : RecordAgrees(recording'[q])
  BY <1>2, <1>3
<1>. QED BY <1>1, <1>4 DEF RecordingInv, RecordingTypeOK

LEMMA RecordFacts ==
    ASSUME RecordingInv, NEW r \in Records
    PROVE  /\ recording[r] \in RecordRows /\ RecordAgrees(recording[r])
           /\ running \in Records \cup {NoRecord} /\ browserUp \in BOOLEAN
           /\ recording[r].frames \in Nat /\ MaxFrames \in Nat \ {0}
BY RecordingAssumption DEF RecordingInv, RecordingTypeOK, RecordRows

\* Whatever ends a recording, a row that agreed agrees.
LEMMA Ending ==
    ASSUME NEW rec \in RecordRows, RecordAgrees(rec), NEW why \in Reasons \ {"none"}
    PROVE  /\ EndedBy(rec, why) \in RecordRows /\ RecordAgrees(EndedBy(rec, why))
           /\ Closed(EndedBy(rec, why)) \in RecordRows /\ RecordAgrees(Closed(EndedBy(rec, why)))
BY DEF EndedBy, Closed, RecordRows, RecordAgrees, Unasked

LEMMA Asking ==
    ASSUME NEW old \in RecordRows, RecordAgrees(old), MaxFrames \in Nat \ {0},
           old.stage = "starting", old.timers = {}, old.why = "none"
    PROVE  /\ [old EXCEPT !.casting = TRUE, !.timers = {"noMotion"}] \in RecordRows
           /\ RecordAgrees([old EXCEPT !.casting = TRUE, !.timers = {"noMotion"}])
<1>. DEFINE new == [old EXCEPT !.casting = TRUE, !.timers = {"noMotion"}]
<1>1. new \in RecordRows
  BY DEF RecordRows
<1>2. ~old.moved /\ old.frames = 0
  BY DEF RecordAgrees, Unasked
<1>3. /\ new.stage = "starting" /\ new.why = "none" /\ new.timers = {"noMotion"} /\ ~new.moved /\ new.frames = 0
  BY <1>2 DEF RecordRows
<1>. HIDE DEF new
<1>4. RecordAgrees(new)
  BY <1>3 DEF RecordAgrees, Unasked
<1>. QED BY <1>1, <1>4 DEF new

LEMMA MovingAgrees ==
    ASSUME NEW rec \in RecordRows, RecordAgrees(rec), rec.casting, NEW settles \in BOOLEAN
    PROVE  /\ Moving(rec, settles) \in RecordRows /\ RecordAgrees(Moving(rec, settles))
           /\ Moving(rec, settles).casting /\ Moving(rec, settles).frames = rec.frames
           /\ Moving(rec, settles).stage = rec.stage /\ "maxSeconds" \in Moving(rec, settles).timers
BY DEF Moving, RecordRows, RecordAgrees, Unasked

LEMMA FrameTimed == ASSUME RecordingInv, NEW r \in Records, NEW settles \in BOOLEAN, NEW thinned \in BOOLEAN,
                           Frame(r, settles, thinned)
                    PROVE  RecordingInv'
<1>. DEFINE rec == recording[r]
            mov == Moving(rec, settles)
            kept == [mov EXCEPT !.frames = @ + 1]
<1>1. rec.casting /\ rec \in RecordRows /\ RecordAgrees(rec) /\ running' \in Records \cup {NoRecord} /\ browserUp' \in BOOLEAN
  BY RecordFacts DEF Frame
<1>2. rec.stage # "free" /\ rec.frames \in Nat /\ rec.frames < MaxFrames /\ MaxFrames \in Nat
  BY <1>1, RecordFacts DEF RecordAgrees, Unasked
<1>3. mov \in RecordRows /\ RecordAgrees(mov) /\ mov.casting /\ mov.frames = rec.frames /\ mov.stage = rec.stage
      /\ "maxSeconds" \in mov.timers
  BY <1>1, MovingAgrees
<1>4. CASE ~rec.baseline /\ rec.frames = 0
  <2>1. recording' = [recording EXCEPT ![r] = [rec EXCEPT !.baseline = TRUE]]
    BY <1>4 DEF Frame
  <2>2. [rec EXCEPT !.baseline = TRUE] \in RecordRows /\ RecordAgrees([rec EXCEPT !.baseline = TRUE])
    BY <1>1 DEF RecordRows, RecordAgrees, Unasked
  <2>. QED BY <1>1, <2>1, <2>2, OneRecordMoves
<1>5. CASE ~(~rec.baseline /\ rec.frames = 0) /\ thinned /\ rec.frames > 0
  <2>1. recording' = [recording EXCEPT ![r] = mov]
    BY <1>5 DEF Frame
  <2>. QED BY <1>1, <1>3, <2>1, OneRecordMoves
<1>6. CASE ~(~rec.baseline /\ rec.frames = 0) /\ ~(thinned /\ rec.frames > 0)
  <2>1. kept \in RecordRows /\ kept.stage = rec.stage /\ kept.why = mov.why /\ kept.timers = mov.timers
        /\ kept.frames = rec.frames + 1
    BY <1>2, <1>3 DEF RecordRows
  <2>2. CASE kept.frames = MaxFrames
    <3>1. recording' = [recording EXCEPT ![r] = EndedBy(kept, "maxFrames")]
      BY <1>6, <2>2 DEF Frame
    <3>2. mov.why = "none" /\ kept.why = "none"
      BY <1>3, <2>1 DEF RecordAgrees
    <3>3. EndedBy(kept, "maxFrames") = [kept EXCEPT !.why = "maxFrames", !.timers = {}, !.casting = FALSE]
      BY <3>2 DEF EndedBy
    <3>4. EndedBy(kept, "maxFrames") \in RecordRows /\ RecordAgrees(EndedBy(kept, "maxFrames"))
      BY <1>2, <2>1, <3>3 DEF RecordRows, Reasons, RecordAgrees, Unasked
    <3>. QED BY <1>1, <3>1, <3>4, OneRecordMoves
  <2>3. CASE kept.frames # MaxFrames
    <3>1. recording' = [recording EXCEPT ![r] = kept]
      BY <1>6, <2>3 DEF Frame
    <3>2. rec.frames + 1 < MaxFrames
      BY <1>2, <2>1, <2>3
    <3>3. RecordAgrees(kept)
      BY <1>2, <1>3, <2>1, <3>2 DEF RecordRows, RecordAgrees, Unasked
    <3>. QED BY <1>1, <2>1, <3>1, <3>3, OneRecordMoves
  <2>. QED BY <2>2, <2>3
<1>. QED BY <1>4, <1>5, <1>6

LEMMA RecordingStays == ASSUME RecordingInv, [RecordingNext]_recordVars PROVE RecordingInv'
<1>1. CASE UNCHANGED recordVars
  BY <1>1 DEF recordVars, RecordingInv, RecordingTypeOK
<1>2. ASSUME NEW r \in Records, StartRecording(r) PROVE RecordingInv'
  <2>. DEFINE rec == [recording[r] EXCEPT !.stage = "starting", !.connected = TRUE]
  <2>1. /\ recording[r].stage = "free" /\ UNCHANGED <<running, browserUp>>
        /\ recording' = [recording EXCEPT ![r] = rec]
    BY <1>2, RecordFacts DEF StartRecording, RecordingInv, RecordingTypeOK
  <2>2. rec \in RecordRows /\ RecordAgrees(rec)
    BY <2>1, RecordFacts DEF RecordRows, RecordAgrees, Unasked
  <2>. QED BY <2>1, <2>2, RecordFacts, OneRecordMoves
<1>3. ASSUME NEW r \in Records, CastStarts(r) PROVE RecordingInv'
  <2>. DEFINE rec == [recording[r] EXCEPT !.casting = TRUE, !.timers = {"noMotion"}]
  <2>1. /\ recording[r].stage = "starting" /\ recording[r].timers = {} /\ recording[r].why = "none"
        /\ recording' = [recording EXCEPT ![r] = rec] /\ UNCHANGED <<running, browserUp>>
    BY <1>3 DEF CastStarts
  <2>2. rec \in RecordRows /\ RecordAgrees(rec)
    BY <2>1, RecordFacts, Asking
  <2>. QED BY <2>1, <2>2, RecordFacts, OneRecordMoves
<1>4. ASSUME NEW r \in Records, Registers(r) PROVE RecordingInv'
  <2>. DEFINE rec == [recording[r] EXCEPT !.stage = "on"]
  <2>1. /\ recording[r].stage = "starting" /\ recording' = [recording EXCEPT ![r] = rec] /\ running' = r
        /\ UNCHANGED browserUp
    BY <1>4 DEF Registers
  <2>2. rec \in RecordRows /\ RecordAgrees(rec)
    BY <2>1, RecordFacts DEF RecordRows, RecordAgrees, Unasked
  <2>. QED BY <2>1, <2>2, RecordFacts, OneRecordMoves
<1>5. ASSUME NEW r \in Records, StartFails(r) PROVE RecordingInv'
  <2>1. /\ recording[r].stage = "starting" /\ recording' = [recording EXCEPT ![r] = Closed(recording[r])]
        /\ UNCHANGED <<running, browserUp>>
    BY <1>5 DEF StartFails
  <2>2. Closed(recording[r]) \in RecordRows /\ RecordAgrees(Closed(recording[r]))
    BY <2>1, RecordFacts DEF Closed, RecordRows, RecordAgrees, Unasked
  <2>. QED BY <2>1, <2>2, RecordFacts, OneRecordMoves
<1>6. ASSUME NEW r \in Records, NEW why \in {"noMotion", "maxSeconds", "settled"}, Timer(r, why) PROVE RecordingInv'
  <2>1. /\ why \in recording[r].timers /\ recording' = [recording EXCEPT ![r] = EndedBy(recording[r], why)]
        /\ UNCHANGED <<running, browserUp>>
    BY <1>6 DEF Timer
  <2>2. why \in Reasons \ {"none"}
    BY DEF Reasons
  <2>3. EndedBy(recording[r], why) \in RecordRows /\ RecordAgrees(EndedBy(recording[r], why))
    BY <2>2, RecordFacts, Ending
  <2>. QED BY <2>1, <2>3, RecordFacts, OneRecordMoves
<1>7. CASE StopRecording("stopped")
  <2>1. /\ running \in Records /\ running' = NoRecord /\ UNCHANGED browserUp
        /\ recording' = [recording EXCEPT ![running] = Closed(EndedBy(recording[running], "stopped"))]
    BY <1>7 DEF StopRecording, RecordingInv, RecordingTypeOK
  <2>. QED BY <2>1, RecordFacts, Ending, OneRecordMoves DEF Reasons
<1>8. CASE BrowserStops
  <2>. DEFINE stopped(r) == IF r = running THEN Closed(EndedBy(recording[r], "gone"))
                            ELSE [recording[r] EXCEPT !.casting = FALSE]
  <2>1. recording' = [r \in Records |-> stopped(r)] /\ running' = NoRecord /\ browserUp' = FALSE
    BY <1>8 DEF BrowserStops
  <2>2. ASSUME NEW r \in Records PROVE stopped(r) \in RecordRows /\ RecordAgrees(stopped(r))
    <3>1. recording[r] \in RecordRows /\ RecordAgrees(recording[r]) /\ "gone" \in Reasons \ {"none"}
      BY RecordFacts DEF Reasons
    <3>2. Closed(EndedBy(recording[r], "gone")) \in RecordRows /\ RecordAgrees(Closed(EndedBy(recording[r], "gone")))
      BY <3>1, Ending
    <3>3. [recording[r] EXCEPT !.casting = FALSE] \in RecordRows
      BY <3>1 DEF RecordRows
    <3>4. RecordAgrees([recording[r] EXCEPT !.casting = FALSE])
      BY <3>1 DEF RecordRows, RecordAgrees, Unasked
    <3>. QED BY <3>2, <3>3, <3>4
  <2>. HIDE DEF stopped
  <2>3. recording' \in [Records -> RecordRows] /\ \A r \in Records : RecordAgrees(recording'[r])
    BY <2>1, <2>2
  <2>. QED BY <2>1, <2>3 DEF RecordingInv, RecordingTypeOK
<1>9. CASE BrowserStarts
  BY <1>9 DEF BrowserStarts, RecordingInv, RecordingTypeOK
<1>. QED BY <1>1, <1>2, <1>3, <1>4, <1>5, <1>6, <1>7, <1>8, <1>9, FrameTimed DEF RecordingNext

LEMMA RecordingTimed == RecordingSpec => []RecordingInv
<1>1. RecordingInit => RecordingInv
  BY RecordingAssumption DEF RecordingInit, RecordingInv, RecordingTypeOK, RecordRows, Reasons, Fresh, RecordAgrees, Unasked
<1>. QED BY <1>1, RecordingStays, PTL DEF RecordingSpec

\* A recording never keeps more frames than its budget, whatever its clocks, its page's motion and
\* its browser's exit do.
THEOREM RecordingTyped == RecordingSpec => []RecordingTypeOK
<1>1. RecordingInv => RecordingTypeOK
  BY DEF RecordingInv
<1>. QED BY <1>1, RecordingTimed, PTL

\* A cast that runs has a clock that will end it, and one that was seen moving the clock motion
\* does not put off: no order of frames, clocks, stops and exits leaves Chrome encoding for nobody.
THEOREM CastsEnd == RecordingSpec => []CastsAreTimed
<1>1. RecordingInv => CastsAreTimed
  BY DEF RecordingInv, RecordAgrees, CastsAreTimed
<1>. QED BY <1>1, RecordingTimed, PTL

---------------------------------------------------------------------------
(* The keys of a person in the full browser: what is down is on record.    *)

KeyRows == [Keys -> Syms \cup {NoKeysym}]
DesktopShape == DesktopTypeOK /\ queue \in Seq(Messages)

\* The xdotool that runs lets go of what is on record for its key, or presses it.
ToolAgrees ==
    input # NoTool =>
      /\ input.msg.ev = "up" => /\ keys[input.msg.k] \in input.ups \cup {NoKeysym} /\ input.down = NoKeysym
                                /\ input.ran => input.ups \cap held = {}
      /\ input.msg.ev = "down" => input.down = keys[input.msg.k]

DesktopInv == DesktopShape /\ ToolAgrees /\ DownIsRecorded /\ LeavesNothing

LEMMA DesktopFacts ==
    ASSUME DesktopShape
    PROVE  /\ keys \in KeyRows /\ held \subseteq Syms /\ letGo \subseteq Syms /\ lost \subseteq Syms /\ queue \in Seq(Messages)
           /\ Len(queue) \in Nat /\ Len(queue) <= MaxQueue /\ DOMAIN queue = 1..Len(queue)
           /\ \A i \in DOMAIN queue : queue[i] \in Messages
           /\ input \in Tools \cup {NoTool} /\ (input # NoTool => input \in Tools /\ input.msg \in Messages)
           /\ hangs \in Nat /\ MaxQueue \in Nat /\ NoKeysym \notin Syms /\ Modifier \in Syms
<1>1. /\ keys \in KeyRows /\ held \subseteq Syms /\ letGo \subseteq Syms /\ lost \subseteq Syms /\ queue \in Seq(Messages)
      /\ Len(queue) <= MaxQueue /\ \A i \in DOMAIN queue : queue[i] \in Messages
      /\ input \in Tools \cup {NoTool} /\ hangs \in 0..MaxHangs
  BY DEF DesktopShape, DesktopTypeOK, KeyRows
<1>2. Len(queue) \in Nat /\ DOMAIN queue = 1..Len(queue)
  BY <1>1, LenProperties
<1>3. input # NoTool => input \in Tools /\ input.msg \in Messages
  BY <1>1 DEF Tools
<1>4. hangs \in Nat /\ MaxQueue \in Nat /\ NoKeysym \notin Syms /\ Modifier \in Syms
  BY <1>1, DesktopAssumption
<1>. QED BY <1>1, <1>2, <1>3, <1>4

LEMMA MessagesTyped == \A q \in Seq(Messages) : \A i \in DOMAIN q : q[i] \in Messages
BY LenProperties, ElementOfSeq

LEMMA PressedFacts ==
    ASSUME NEW ks \in KeyRows
    PROVE  /\ Pressed(ks) \subseteq Syms
           /\ \A k \in Keys : ks[k] # NoKeysym => ks[k] \in Pressed(ks)
           /\ \A x \in Pressed(ks) : x # NoKeysym /\ \E k \in Keys : ks[k] = x
BY DEF Pressed, KeyRows

\* Whatever is recorded is let go of and struck off.
LEMMA ReleaseFacts ==
    ASSUME DesktopShape, NEW ks \in KeyRows, ReleaseHeldNow(ks)
    PROVE  /\ keys' \in KeyRows /\ Pressed(keys') = {} /\ \A k \in Keys : keys'[k] = NoKeysym
           /\ letGo' = letGo \cup Pressed(ks) /\ letGo' \subseteq Syms /\ releaseWhenIdle' = FALSE
<1>1. keys' = [k \in Keys |-> NoKeysym] /\ letGo' = letGo \cup Pressed(ks) /\ releaseWhenIdle' = FALSE
  BY DEF ReleaseHeldNow
<1>2. keys' \in KeyRows /\ \A k \in Keys : keys'[k] = NoKeysym
  BY <1>1 DEF KeyRows
<1>3. Pressed(keys') = {}
  BY <1>2 DEF Pressed
<1>. QED BY <1>1, <1>2, <1>3, PressedFacts, DesktopFacts

\* The types hold when the parts that move are typed.
LEMMA ShapeMoves ==
    ASSUME DesktopShape, held' \subseteq Syms, lost' \subseteq Syms, keys' \in KeyRows, letGo' \subseteq Syms, queue' \in Seq(Messages),
           Len(queue') <= MaxQueue, input' \in Tools \cup {NoTool}, releaseWhenIdle' \in BOOLEAN, holds' \in BOOLEAN,
           bound' \in BOOLEAN, socket' \in {"open", "closing", "closed"}, UNCHANGED <<attached, capture, dying, turns>>,
           presses' \in 0..MaxPresses, hangs' \in 0..MaxHangs
    PROVE  DesktopShape'
<1>1. \A i \in DOMAIN queue' : queue'[i] \in Messages
  BY MessagesTyped
<1>. QED BY <1>1 DEF DesktopShape, DesktopTypeOK, KeyRows

\* A step beside the keys.
LEMMA BesideTheKeys ==
    ASSUME DesktopInv, UNCHANGED <<held, keys, queue, input, letGo, lost>>, DesktopShape',
           ~bound' \/ socket' = "closed" => ~bound \/ socket = "closed"
    PROVE  DesktopInv'
<1>1. ToolAgrees'
  BY DEF DesktopInv, ToolAgrees
<1>2. DownIsRecorded' /\ LeavesNothing'
  BY DEF DesktopInv, DownIsRecorded, LeavesNothing, Pressed, StruckOff, ToRelease
<1>. QED BY <1>1, <1>2 DEF DesktopInv

LEMMA DropTypes ==
    ASSUME DesktopShape, ReleaseInputs
    PROVE  /\ keys' \in KeyRows /\ letGo' \subseteq Syms /\ queue' \in Seq(Messages) /\ Len(queue') <= MaxQueue
           /\ input' \in Tools \cup {NoTool} /\ releaseWhenIdle' \in BOOLEAN /\ lost' \subseteq Syms
<1>1. /\ keys \in KeyRows /\ queue' = <<>> /\ input' = NoTool /\ ReleaseHeldNow(keys) /\ MaxQueue \in Nat
      /\ lost' = lost \cup (StruckOff \cap held) /\ held \subseteq Syms /\ lost \subseteq Syms
  BY DesktopFacts DEF ReleaseInputs
<1>2. queue' \in Seq(Messages) /\ Len(queue') = 0
  BY <1>1, EmptySeq
<1>3. Len(queue') <= MaxQueue
  BY <1>1, <1>2, DesktopAssumption
<1>4. keys' \in KeyRows /\ letGo' \subseteq Syms /\ releaseWhenIdle' = FALSE
  BY <1>1, ReleaseFacts
<1>. QED BY <1>1, <1>2, <1>3, <1>4

\* A step that drops everything: what was on record is being let go of, and what was struck off
\* and not yet let go of is given up.
LEMMA Dropped ==
    ASSUME DesktopInv, ReleaseInputs, held' = held, DesktopShape'
    PROVE  DesktopInv'
<1>1. /\ DesktopShape /\ keys \in KeyRows /\ queue' = <<>> /\ input' = NoTool /\ ReleaseHeldNow(keys)
      /\ lost' = lost \cup (StruckOff \cap held)
  BY DesktopFacts DEF DesktopInv, ReleaseInputs
<1>2. ToolAgrees'
  BY <1>1 DEF ToolAgrees
<1>3. letGo' = letGo \cup Pressed(keys) /\ Pressed(keys') = {}
  BY <1>1, ReleaseFacts
<1>4. DownIsRecorded'
  BY <1>1, <1>3 DEF DesktopInv, DownIsRecorded
<1>5. LeavesNothing'
  BY <1>1, <1>3 DEF LeavesNothing
<1>. QED BY <1>2, <1>4, <1>5 DEF DesktopInv

\* The next message becomes an xdotool: what its press overwrites is given up, what it strikes
\* off is to be let go of.
LEMMA PumpKeeps == ASSUME DesktopInv, Pump PROVE DesktopInv'
<1>. DEFINE h == Head(queue)
            kept == [k \in Keys |-> IF keys[k] \in Stale(h) THEN NoKeysym ELSE keys[k]]
            pressed == h.ev = "down"
<1>1. /\ DesktopShape /\ socket # "closed" /\ input = NoTool /\ queue # <<>> /\ bound
      /\ UNCHANGED <<held, holds, bound, socket, attached, capture, dying, presses, hangs, turns>>
  BY DEF Pump, captureVars, DesktopInv, LeavesNothing
<1>2. CASE ~(holds /\ bound)
  <2>1. ReleaseInputs
    BY <1>2 DEF Pump
  <2>2. DesktopShape'
    BY <1>1, <2>1, DropTypes, ShapeMoves DEF DesktopShape, DesktopTypeOK
  <2>. QED BY <1>1, <2>1, <2>2, Dropped
<1>3. CASE holds /\ bound
  <2>1. /\ queue' = Tail(queue) /\ UNCHANGED <<letGo, releaseWhenIdle>>
        /\ input' = [on |-> TRUE, msg |-> h, ran |-> FALSE,
                     ups |-> IF pressed THEN Stale(h) ELSE {IF keys[h.k] # NoKeysym THEN keys[h.k] ELSE h.sym},
                     down |-> IF pressed THEN h.sym ELSE NoKeysym]
        /\ keys' = IF pressed THEN [kept EXCEPT ![h.k] = h.sym] ELSE keys
        /\ lost' = IF pressed THEN (lost \cup ({keys[h.k]} \cap held)) \ {h.sym} ELSE lost
    BY <1>3 DEF Pump
  <2>2. h \in Messages /\ queue' \in Seq(Messages) /\ Len(queue') <= MaxQueue
    <3>1. queue \in Seq(Messages) /\ queue # <<>>
      BY <1>1, DesktopFacts
    <3>2. Tail(queue) \in Seq(Messages) /\ Len(Tail(queue)) = Len(queue) - 1 /\ h \in Messages
      BY <3>1, HeadTailProperties
    <3>3. Len(queue) \in Nat /\ Len(queue) <= MaxQueue /\ MaxQueue \in Nat
      BY <1>1, DesktopFacts
    <3>. QED BY <2>1, <3>2, <3>3
  <2>. HIDE DEF h
  <2>3. h.k \in Keys /\ h.sym \in Syms /\ h.ev \in {"down", "up"} /\ Stale(h) \subseteq {Modifier} /\ Modifier \in Syms
        /\ keys \in KeyRows /\ NoKeysym \notin Syms /\ held \subseteq Syms /\ lost \subseteq Syms
    BY <1>1, <2>2, DesktopFacts DEF Messages, Stale
  <2>4. /\ keys' \in KeyRows /\ (~pressed => keys' = keys)
        /\ \A k \in Keys : keys'[k] = IF pressed /\ k = h.k THEN h.sym
                                      ELSE IF pressed /\ keys[k] \in Stale(h) THEN NoKeysym ELSE keys[k]
    BY <2>1, <2>3 DEF KeyRows
  <2>5. /\ input' \in Tools /\ input' # NoTool /\ input'.msg = h /\ ~input'.ran
        /\ pressed => input'.down = h.sym /\ input'.ups = Stale(h)
        /\ ~pressed => /\ input'.ups = {IF keys[h.k] # NoKeysym THEN keys[h.k] ELSE h.sym} /\ input'.down = NoKeysym
    <3>1. (IF pressed THEN Stale(h) ELSE {IF keys[h.k] # NoKeysym THEN keys[h.k] ELSE h.sym}) \in SUBSET Syms
      BY <2>3 DEF KeyRows
    <3>2. (IF pressed THEN h.sym ELSE NoKeysym) \in Syms \cup {NoKeysym}
      BY <2>3
    <3>3. input' \in Tools
      BY <2>1, <2>2, <3>1, <3>2 DEF Tools
    <3>4. input' # NoTool
      BY <2>1 DEF NoTool
    <3>. QED BY <2>1, <3>3, <3>4
  <2>6. DesktopShape'
    <3>1. lost' \subseteq Syms
      BY <2>1, <2>3
    <3>. QED BY <1>1, <2>1, <2>2, <2>4, <2>5, <3>1, ShapeMoves DEF DesktopShape, DesktopTypeOK
  <2>7. ToolAgrees'
    <3>1. input'.msg.ev = "up" => ~pressed
      BY <2>5
    <3>2. input'.msg.ev = "down" => keys'[h.k] = h.sym /\ input'.down = h.sym
      BY <2>3, <2>4, <2>5
    <3>. QED BY <2>4, <2>5, <3>1, <3>2 DEF ToolAgrees
  <2>8. pressed => StruckOff' = Stale(h)
    BY <2>5 DEF StruckOff, ToRelease
  <2>9. DownIsRecorded'
    <3>1. StruckOff = {} /\ lost \subseteq held
      BY <1>1 DEF StruckOff, ToRelease, DesktopInv, DownIsRecorded
    <3>2. SUFFICES ASSUME NEW x \in held, x \notin letGo
                   PROVE  x \in Pressed(keys') \/ x \in StruckOff' \/ x \in lost'
      BY <1>1, <2>1, <3>1 DEF DownIsRecorded
    <3>3. x \in Pressed(keys) \/ x \in lost
      BY <3>1, <3>2 DEF DesktopInv, DownIsRecorded
    <3>4. CASE ~pressed
      BY <2>1, <2>4, <3>3, <3>4
    <3>5. CASE pressed /\ x = h.sym
      BY <2>3, <2>4, <3>5, PressedFacts
    <3>6. CASE pressed /\ x # h.sym /\ x \in lost
      BY <2>1, <3>6
    <3>7. CASE pressed /\ x # h.sym /\ x \in Pressed(keys)
      <4>1. PICK k \in Keys : keys[k] = x /\ x # NoKeysym
        BY <2>3, <3>7, PressedFacts
      <4>2. CASE k = h.k
        BY <2>1, <3>2, <3>7, <4>1, <4>2
      <4>3. CASE k # h.k
        BY <2>4, <2>8, <3>7, <4>1, <4>3, PressedFacts
      <4>. QED BY <4>2, <4>3
    <3>. QED BY <3>3, <3>4, <3>5, <3>6, <3>7
  <2>10. LeavesNothing'
    BY <1>1 DEF LeavesNothing
  <2>. QED BY <2>6, <2>7, <2>9, <2>10 DEF DesktopInv
<1>. QED BY <1>2, <1>3

\* The xdotool lets go of what was recorded before its record goes.
LEMMA RunsKeeps == ASSUME DesktopInv, XdotoolRuns PROVE DesktopInv'
<1>1. /\ DesktopShape /\ input \in Tools /\ input # NoTool /\ ~input.ran /\ input' = [input EXCEPT !.ran = TRUE]
      /\ held' = (held \ input.ups) \cup ({input.down} \ {NoKeysym}) /\ lost' = lost \ input.ups
      /\ UNCHANGED <<keys, queue, letGo, releaseWhenIdle, holds, bound, socket, attached, capture, dying, presses,
                     hangs, turns>>
  BY DesktopFacts DEF XdotoolRuns, captureVars, DesktopInv
<1>2. /\ input' \in Tools /\ input' # NoTool /\ input'.msg = input.msg /\ input'.ups = input.ups
      /\ input'.down = input.down /\ input.down \in Syms \cup {NoKeysym} /\ input'.ran
  <2>1. input' \in Tools /\ input'.msg = input.msg /\ input'.ups = input.ups /\ input'.down = input.down
        /\ input.down \in Syms \cup {NoKeysym} /\ input'.ran
    BY <1>1 DEF Tools
  <2>2. input'.on = TRUE
    BY <2>1 DEF Tools
  <2>. QED BY <2>1, <2>2 DEF NoTool
<1>3. /\ keys \in KeyRows /\ held \subseteq Syms /\ lost \subseteq Syms /\ input.msg.k \in Keys
      /\ input.msg.ev \in {"down", "up"} /\ NoKeysym \notin Syms
  BY <1>1, DesktopFacts DEF Messages
<1>4. DesktopShape'
  BY <1>1, <1>2, <1>3, ShapeMoves DEF DesktopShape, DesktopTypeOK, KeyRows
<1>5. /\ input.msg.ev = "up" => keys[input.msg.k] \in input.ups \cup {NoKeysym} /\ input.down = NoKeysym
      /\ input.msg.ev = "down" => input.down = keys[input.msg.k]
  BY <1>1 DEF DesktopInv, ToolAgrees
<1>6. ToolAgrees'
  BY <1>1, <1>2, <1>5 DEF ToolAgrees
<1>7. input.down # NoKeysym => input.down \in Pressed(keys)
  BY <1>3, <1>5, PressedFacts
<1>8. DownIsRecorded'
  <2>1. SUFFICES ASSUME NEW x \in held, x \notin input.ups, x \notin letGo
                 PROVE  x \in Pressed(keys) \/ x \in lost
    BY <1>1, <1>2, <1>7 DEF DesktopInv, DownIsRecorded, StruckOff, ToRelease, Pressed
  <2>2. x \notin StruckOff
    BY <2>1 DEF StruckOff, ToRelease
  <2>. QED BY <2>1, <2>2 DEF DesktopInv, DownIsRecorded
<1>9. LeavesNothing'
  BY <1>1 DEF DesktopInv, LeavesNothing
<1>. QED BY <1>4, <1>6, <1>8, <1>9 DEF DesktopInv

\* A record goes with its release done, or given up with it.
LEMMA ExitsKeeps == ASSUME DesktopInv, XdotoolExits PROVE DesktopInv'
<1>. DEFINE after == IF input.msg.ev = "up" THEN [keys EXCEPT ![input.msg.k] = NoKeysym] ELSE keys
            now == releaseWhenIdle /\ queue = <<>>
<1>1. /\ DesktopShape /\ input \in Tools /\ input # NoTool /\ input' = NoTool
      /\ IF input.ran THEN hangs' = hangs ELSE hangs < MaxHangs /\ hangs' = hangs + 1
      /\ IF now THEN ReleaseHeldNow(after) ELSE keys' = after /\ UNCHANGED <<letGo, releaseWhenIdle>>
      /\ lost' = lost \cup (ToRelease \cap held)
      /\ UNCHANGED <<held, queue, holds, bound, socket, attached, capture, dying, presses, turns>>
  BY DesktopFacts DEF XdotoolExits, captureVars, DesktopInv
<1>2. /\ keys \in KeyRows /\ held \subseteq Syms /\ lost \subseteq Syms /\ input.msg.k \in Keys
      /\ input.msg.ev \in {"down", "up"} /\ NoKeysym \notin Syms /\ hangs \in Nat
  BY <1>1, DesktopFacts DEF Messages
<1>3. /\ after \in KeyRows
      /\ \A k \in Keys : after[k] = IF input.msg.ev = "up" /\ k = input.msg.k THEN NoKeysym ELSE keys[k]
  BY <1>2 DEF KeyRows
<1>. HIDE DEF after
<1>4. /\ keys' \in KeyRows /\ letGo' \subseteq Syms /\ releaseWhenIdle' \in BOOLEAN
      /\ letGo \cup Pressed(after) \subseteq letGo' \cup Pressed(keys')
  <2>1. CASE now
    <3>1. /\ keys' \in KeyRows
          /\ letGo' = letGo \cup Pressed(after) /\ letGo' \subseteq Syms /\ releaseWhenIdle' = FALSE
      BY <1>1, <1>3, <2>1, ReleaseFacts
    <3>. QED BY <3>1
  <2>2. CASE ~now
    BY <1>1, <1>3, <2>2 DEF DesktopShape, DesktopTypeOK
  <2>. QED BY <2>1, <2>2
<1>5. hangs' \in 0..MaxHangs
  <2>1. hangs \in 0..MaxHangs /\ MaxHangs \in Nat
    BY <1>1, DesktopAssumption DEF DesktopShape, DesktopTypeOK
  <2>. QED BY <1>1, <2>1
<1>6. DesktopShape'
  BY <1>1, <1>2, <1>4, <1>5, ShapeMoves DEF DesktopShape, DesktopTypeOK
<1>7. ToolAgrees'
  BY <1>1 DEF ToolAgrees
<1>8. DownIsRecorded'
  <2>1. StruckOff \subseteq ToRelease
    BY DEF StruckOff
  <2>2. SUFFICES ASSUME NEW x \in held, x \notin letGo, x \notin ToRelease, x \notin lost PROVE x \in Pressed(after)
    BY <1>1, <1>4 DEF DesktopInv, DownIsRecorded
  <2>3. x \in Pressed(keys)
    BY <2>1, <2>2 DEF DesktopInv, DownIsRecorded
  <2>4. PICK k \in Keys : keys[k] = x /\ x # NoKeysym
    BY <1>2, <2>3, PressedFacts
  <2>5. ~(input.msg.ev = "up" /\ k = input.msg.k)
    BY <1>1, <2>2, <2>4 DEF DesktopInv, ToolAgrees, ToRelease
  <2>6. after[k] = x
    BY <1>3, <2>4, <2>5
  <2>. QED BY <1>3, <2>4, <2>6, PressedFacts
<1>9. LeavesNothing'
  BY <1>1 DEF DesktopInv, LeavesNothing
<1>. QED BY <1>6, <1>7, <1>8, <1>9 DEF DesktopInv

\* A message is queued, or it and all that is queued and held dropped.
LEMMA PressKeeps ==
    ASSUME DesktopInv, NEW k \in Keys, NEW ev \in {"down", "up"}, NEW mods \in BOOLEAN, NEW sym \in Keysyms[k],
           Press(k, ev, sym, mods)
    PROVE  DesktopInv'
<1>. DEFINE m == [k |-> k, ev |-> ev, sym |-> sym, mods |-> mods]
<1>1. /\ DesktopShape /\ socket = "open" /\ holds /\ bound /\ presses < MaxPresses /\ presses' = presses + 1
      /\ UNCHANGED <<held, holds, bound, socket, attached, capture, dying, hangs, turns>>
  BY DEF Press, captureVars, DesktopInv
<1>2. presses' \in 0..MaxPresses
  BY <1>1, DesktopAssumption DEF DesktopShape, DesktopTypeOK
<1>3. CASE Len(queue) < MaxQueue
  <2>1. queue' = Append(queue, m) /\ UNCHANGED <<keys, input, letGo, releaseWhenIdle, lost>>
    BY <1>3 DEF Press
  <2>2. m \in Messages
    BY DEF Messages, Syms
  <2>. HIDE DEF m
  <2>3. queue' \in Seq(Messages) /\ Len(queue') <= MaxQueue
    <3>1. queue \in Seq(Messages) /\ Len(queue) \in Nat /\ MaxQueue \in Nat
      BY <1>1, DesktopFacts
    <3>2. queue' \in Seq(Messages) /\ Len(queue') = Len(queue) + 1
      BY <2>1, <2>2, <3>1, AppendProperties
    <3>. QED BY <1>3, <3>1, <3>2
  <2>4. DesktopShape'
    BY <1>1, <1>2, <2>1, <2>3, ShapeMoves DEF DesktopShape, DesktopTypeOK, KeyRows
  <2>5. ToolAgrees' /\ DownIsRecorded'
    BY <1>1, <2>1 DEF DesktopInv, ToolAgrees, DownIsRecorded, Pressed, StruckOff, ToRelease
  <2>6. LeavesNothing'
    BY <1>1 DEF LeavesNothing
  <2>. QED BY <2>4, <2>5, <2>6 DEF DesktopInv
<1>4. CASE ~(Len(queue) < MaxQueue)
  <2>1. ReleaseInputs
    BY <1>4 DEF Press
  <2>2. DesktopShape'
    BY <1>1, <1>2, <2>1, DropTypes, ShapeMoves DEF DesktopShape, DesktopTypeOK
  <2>. QED BY <1>1, <2>1, <2>2, Dropped
<1>. QED BY <1>3, <1>4

\* The second xdotool lets go of what it was to, or what it was to let go of is given up.
LEMMA LetGoKeeps == ASSUME DesktopInv, LetGoDone \/ LetGoHangs PROVE DesktopInv'
<1>1. /\ letGo' = {} /\ DesktopShape /\ hangs' \in 0..MaxHangs
      /\ UNCHANGED <<keys, queue, input, releaseWhenIdle, holds, bound, socket, attached, capture, dying, presses, turns>>
  <2>1. hangs \in 0..MaxHangs /\ MaxHangs \in Nat
    BY DesktopAssumption DEF DesktopInv, DesktopShape, DesktopTypeOK
  <2>. QED BY <2>1 DEF LetGoDone, LetGoHangs, captureVars, DesktopInv
<1>2. \/ held' = held \ letGo /\ lost' = lost \ letGo
      \/ held' = held /\ lost' = lost \cup (letGo \cap held)
  BY DEF LetGoDone, LetGoHangs
<1>3. DesktopShape'
  <2>1. held' \subseteq Syms /\ lost' \subseteq Syms
    BY <1>1, <1>2 DEF DesktopShape, DesktopTypeOK
  <2>. QED BY <1>1, <2>1, ShapeMoves DEF DesktopShape, DesktopTypeOK, KeyRows
<1>4. ToolAgrees'
  BY <1>1, <1>2 DEF DesktopInv, ToolAgrees
<1>5. StruckOff' = StruckOff /\ Pressed(keys') = Pressed(keys)
  BY <1>1 DEF StruckOff, ToRelease
<1>6. DownIsRecorded'
  BY <1>1, <1>2, <1>5 DEF DesktopInv, DownIsRecorded
<1>7. LeavesNothing'
  BY <1>1, <1>5 DEF DesktopInv, LeavesNothing
<1>. QED BY <1>3, <1>4, <1>6, <1>7 DEF DesktopInv

LEMMA DesktopStays == ASSUME DesktopInv, [DesktopNext]_desktopVars PROVE DesktopInv'
<1>. DesktopShape
  BY DEF DesktopInv
<1>1. CASE UNCHANGED desktopVars
  <2>1. DesktopShape'
    BY <1>1 DEF desktopVars, DesktopShape, DesktopTypeOK
  <2>. QED BY <1>1, <2>1, BesideTheKeys DEF desktopVars
<1>2. CASE LetGoDone \/ LetGoHangs
  BY <1>2, LetGoKeeps
<1>3. CASE LoseFocus
  <2>1. CASE queue # <<>> \/ input # NoTool
    <3>1. releaseWhenIdle' = TRUE
          /\ UNCHANGED <<held, keys, letGo, queue, input, holds, bound, socket, attached, capture, dying, presses, hangs, turns, lost>>
      BY <1>3, <2>1 DEF LoseFocus, captureVars
    <3>2. DesktopShape'
      BY <3>1, ShapeMoves DEF DesktopShape, DesktopTypeOK, KeyRows
    <3>. QED BY <3>1, <3>2, BesideTheKeys
  <2>2. CASE ~(queue # <<>> \/ input # NoTool)
    <3>1. /\ ReleaseHeldNow(keys) /\ queue = <<>> /\ input = NoTool
          /\ UNCHANGED <<held, queue, input, holds, bound, socket, attached, capture, dying, presses, hangs, turns, lost>>
      BY <1>3, <2>2 DEF LoseFocus, captureVars
    <3>2. ReleaseInputs
      BY <3>1 DEF ReleaseInputs, StruckOff
    <3>3. DesktopShape'
      BY <3>1, <3>2, DropTypes, ShapeMoves DEF DesktopShape, DesktopTypeOK
    <3>. QED BY <3>1, <3>2, <3>3, Dropped
  <2>. QED BY <2>1, <2>2
<1>4. CASE LosesControl
  <2>1. /\ holds' = FALSE /\ UNCHANGED <<held, bound, socket, attached, capture, dying, presses, hangs, turns>>
        /\ ReleaseInputs \/ UNCHANGED <<keys, queue, input, letGo, releaseWhenIdle, lost>>
    BY <1>4 DEF LosesControl, captureVars, inputVars
  <2>2. CASE ReleaseInputs
    <3>1. DesktopShape'
      BY <2>1, <2>2, DropTypes, ShapeMoves DEF DesktopShape, DesktopTypeOK
    <3>. QED BY <2>1, <2>2, <3>1, Dropped
  <2>3. CASE UNCHANGED <<keys, queue, input, letGo, releaseWhenIdle, lost>>
    <3>1. DesktopShape'
      BY <2>1, <2>3, ShapeMoves DEF DesktopShape, DesktopTypeOK, KeyRows
    <3>. QED BY <2>1, <2>3, <3>1, BesideTheKeys
  <2>. QED BY <2>1, <2>2, <2>3
<1>5. CASE LeaseCheck
  <2>1. /\ ReleaseInputs /\ bound' = FALSE
        /\ UNCHANGED <<held, holds, socket, attached, capture, dying, presses, hangs, turns>>
    BY <1>5 DEF LeaseCheck, captureVars
  <2>2. DesktopShape'
    BY <2>1, DropTypes, ShapeMoves DEF DesktopShape, DesktopTypeOK
  <2>. QED BY <2>1, <2>2, Dropped
<1>6. CASE Cleanup
  <2>1. /\ ReleaseInputs /\ socket' = "closed" /\ capture' = "none" /\ dying' \in BOOLEAN /\ holds' \in BOOLEAN
        /\ UNCHANGED <<held, bound, attached, presses, hangs, turns>>
    BY <1>6 DEF Cleanup, DesktopShape, DesktopTypeOK
  <2>2. DesktopShape'
    BY <2>1, DropTypes, MessagesTyped DEF DesktopShape, DesktopTypeOK, KeyRows
  <2>. QED BY <2>1, <2>2, Dropped
<1>7. CASE Heartbeat \/ TakesControl \/ SocketGoes \/ HideView \/ ShowView \/ KilledCaptureGone \/ CaptureFails
  <2>1. UNCHANGED <<held, keys, queue, input, letGo, releaseWhenIdle, lost, hangs>>
    BY <1>7 DEF Heartbeat, TakesControl, SocketGoes, HideView, ShowView, KilledCaptureGone, CaptureFails, inputVars
  <2>2. ~bound' \/ socket' = "closed" => ~bound \/ socket = "closed"
    BY <1>7 DEF Heartbeat, TakesControl, SocketGoes, HideView, ShowView, KilledCaptureGone, CaptureFails
  <2>3. /\ holds' \in BOOLEAN /\ bound' \in BOOLEAN /\ socket' \in {"open", "closing", "closed"} /\ attached' \in BOOLEAN
        /\ capture' \in {"none", "running"} /\ dying' \in BOOLEAN /\ presses' \in 0..MaxPresses /\ turns' \in 0..MaxTurns
    <3>1. /\ holds \in BOOLEAN /\ bound \in BOOLEAN /\ socket \in {"open", "closing", "closed"} /\ attached \in BOOLEAN
          /\ capture \in {"none", "running"} /\ dying \in BOOLEAN /\ presses \in 0..MaxPresses /\ turns \in 0..MaxTurns
          /\ MaxTurns \in Nat
      BY DesktopAssumption DEF DesktopShape, DesktopTypeOK
    <3>2. turns < MaxTurns => turns + 1 \in 0..MaxTurns
      BY <3>1
    <3>3. CASE Heartbeat \/ TakesControl \/ SocketGoes
      BY <3>1, <3>2, <3>3 DEF Heartbeat, TakesControl, SocketGoes, captureVars
    <3>4. CASE HideView \/ CaptureFails
      BY <3>1, <3>2, <3>4 DEF HideView, CaptureFails, captureVars
    <3>5. CASE ShowView \/ KilledCaptureGone
      BY <3>1, <3>5 DEF ShowView, KilledCaptureGone, StartCapture
    <3>. QED BY <1>7, <3>3, <3>4, <3>5
  <2>4. DesktopShape'
    BY <2>1, <2>3 DEF DesktopShape, DesktopTypeOK
  <2>. QED BY <2>1, <2>2, <2>4, BesideTheKeys
<1>. QED BY <1>1, <1>2, <1>3, <1>4, <1>5, <1>6, <1>7, PumpKeeps, RunsKeeps, ExitsKeeps, PressKeeps DEF DesktopNext

LEMMA DesktopInvariant == DesktopSpec => []DesktopInv
<1>1. DesktopInit => DesktopInv
  <2>. SUFFICES ASSUME DesktopInit PROVE DesktopInv
    OBVIOUS
  <2>1. /\ held = {} /\ keys = [k \in Keys |-> NoKeysym] /\ queue = <<>> /\ input = NoTool /\ lost = {}
    BY DEF DesktopInit
  <2>2. DOMAIN queue = {} /\ Len(queue) = 0 /\ queue \in Seq(Messages)
    BY <2>1, EmptySeq
  <2>3. DesktopShape
    <3>1. keys \in [Keys -> Syms \cup {NoKeysym}] /\ held \subseteq Syms /\ lost \subseteq Syms /\ input \in Tools \cup {NoTool}
      BY <2>1
    <3>2. Len(queue) <= MaxQueue /\ \A i \in DOMAIN queue : queue[i] \in Messages
      BY <2>2, DesktopAssumption
    <3>3. 0 \in 0..MaxPresses /\ 0 \in 0..MaxHangs /\ 0 \in 0..MaxTurns
      BY DesktopAssumption
    <3>. QED BY <2>2, <3>1, <3>2, <3>3 DEF DesktopInit, DesktopShape, DesktopTypeOK
  <2>4. Pressed(keys) = {}
    BY <2>1 DEF Pressed
  <2>. QED BY <2>1, <2>2, <2>3, <2>4
           DEF DesktopInv, ToolAgrees, DownIsRecorded, LeavesNothing
<1>. QED BY <1>1, DesktopStays, PTL DEF DesktopSpec

\* The queue stays within its limit, and what is queued, running, recorded and down are the keys
\* there are, whatever the person, the lease, the socket and the watchdog do.
THEOREM DesktopTyped == DesktopSpec => []DesktopTypeOK
<1>1. DesktopInv => DesktopTypeOK
  BY DEF DesktopInv, DesktopShape
<1>. QED BY <1>1, DesktopInvariant, PTL

\* Every key that is down, the modifier too, is on record, being let go of or struck off for an
\* xdotool still to let go of it, in whatever order keys repeat, change their keysym, are queued
\* and are dropped; what is apart is named (`lost`).  And a socket that lost the lease or closed
\* has left nothing on record and nothing to come.
THEOREM KeysAreRecorded == DesktopSpec => [](DownIsRecorded /\ LeavesNothing)
<1>1. DesktopInv => DownIsRecorded /\ LeavesNothing
  BY DEF DesktopInv
<1>. QED BY <1>1, DesktopInvariant, PTL

=============================================================================

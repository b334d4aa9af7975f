------------------------------- MODULE ViewerTabs -------------------------------
(***************************************************************************)
(* The tabs of the control viewers of a browser (src/src/viewer.ts,        *)
(* runViewer): for each, the tabs it knows of and those it is closing; and *)
(* for one of them, Mine, the tab it streams, attach() and its awaits,     *)
(* several of which may run at once, the tabs it opens and selects, and    *)
(* the start page it writes into an empty tab while it holds the lease.    *)
(*                                                                         *)
(* A person's windows share one lease, and nothing else: a socket knows of *)
(* another's doings by what Chrome tells it.  Chrome answers each request  *)
(* in its own time: what Chrome itself serves in the order asked, what a   *)
(* page serves whenever the page does.                                     *)
(* Abstracted: the picture (module ViewerStream), the token bucket, what   *)
(* a guest may see.                                                        *)
(***************************************************************************)
EXTENDS Naturals, FiniteSets

CONSTANTS
    Tabs,         \* targets of the browser
    Sockets,      \* control sockets open throughout
    Mine,         \* the one followed in detail
    NoTab,
    MaxEpoch,     \* bound: attaches
    MaxLeases     \* bound: times a person takes control

ASSUME TabsAssumption ==
    IsFiniteSet(Tabs) /\ Tabs # {} /\ NoTab \notin Tabs /\ Mine \in Sockets /\ MaxEpoch \in Nat \ {0} /\ MaxLeases \in Nat

VARIABLES
    alive,        \* Chrome: open tabs
    unborn,       \* Chrome: tabs never opened yet
    blank,        \* Chrome: tabs still on about:blank
    dressed,      \* Chrome: tabs that carry the start page
    sessions,     \* Chrome: the sessions attached for this viewer, by their epoch
    targets, closing, \* per socket
    startPageTargets, switching, epoch, \* of Mine, as what follows
    activeTargetId,
    pageSession,  \* the epoch of its attach, 0: none
    attaches,     \* attach() calls under way
    showing,      \* showStartPage evaluations: sent, or done by the page and not answered
    destroyed,    \* per socket: targetDestroyed events on their way
    holding,      \* sockets bound to the lease that is held
    leases,
    asked,        \* per socket, history: the tabs it asked Chrome to close, unless Chrome refused
    crossed       \* history: a socket asked for a close and all it counted on were tabs others were closing

tabVars == <<alive, unborn, blank, dressed, sessions, targets, closing, startPageTargets, switching, epoch,
             activeTargetId, pageSession, attaches, showing, destroyed, holding, leases, asked, crossed>>
chromeTabs == <<alive, unborn, blank>>
askVars == <<closing, asked, crossed>>
Known == targets[Mine]

Epochs == 0..MaxEpoch
Asker == {"follow", "select", "new"}

TabsInit ==
    /\ \E first \in Tabs :
        /\ alive = {first} /\ targets = [v \in Sockets |-> {first}] /\ activeTargetId = first
        /\ blank \in {{}, {first}} /\ unborn = Tabs \ {first}
    /\ sessions = {1} /\ pageSession = 1 /\ epoch = 1
    /\ dressed = {} /\ closing = [v \in Sockets |-> {}] /\ startPageTargets = {} /\ switching = FALSE
    /\ attaches = {} /\ showing = {} /\ destroyed = [v \in Sockets |-> {}] /\ holding = {} /\ leases = 0
    /\ asked = [v \in Sockets |-> {}] /\ crossed = FALSE

TabsTypeOK ==
    /\ alive \subseteq Tabs /\ unborn \subseteq Tabs /\ blank \subseteq Tabs /\ dressed \subseteq Tabs
    /\ sessions \subseteq Epochs /\ startPageTargets \subseteq Tabs /\ holding \subseteq Sockets
    /\ {targets, closing, destroyed, asked} \subseteq [Sockets -> SUBSET Tabs]
    /\ switching \in BOOLEAN /\ crossed \in BOOLEAN /\ epoch \in Epochs /\ leases \in 0..MaxLeases
    /\ activeTargetId \in Tabs \cup {NoTab} /\ pageSession \in Epochs
    /\ attaches \subseteq [my : Epochs, t : Tabs, prev : Epochs, prevT : Tabs \cup {NoTab}, by : Asker,
                           at : {"undress", "detach", "attach", "dress", "shown"}]
    /\ showing \subseteq [s : Epochs, t : Tabs, at : {"sent", "done"}]

---------------------------------------------------------------------------
(* The page and Chrome. *)

KnownToAll(t) == [v \in Sockets |-> targets[v] \cup {t}]

\* A page, or a person at the screen, opens a tab: targetCreated.
TabOpens ==
    /\ \E t \in unborn : /\ alive' = alive \cup {t} /\ unborn' = unborn \ {t} /\ targets' = KnownToAll(t)
                         /\ blank' \in {blank, blank \cup {t}}
    /\ UNCHANGED <<dressed, sessions, askVars, startPageTargets, switching, epoch, activeTargetId, pageSession,
                   attaches, showing, destroyed, holding, leases>>

Navigates(t) ==
    /\ t \in blank /\ t \in alive /\ blank' = blank \ {t} /\ dressed' = dressed \ {t}
    /\ UNCHANGED <<alive, unborn, sessions, targets, askVars, startPageTargets, switching, epoch, activeTargetId,
                   pageSession, attaches, showing, destroyed, holding, leases>>

\* Chrome does a closeTarget it was asked for; the page's sessions go with it.
TabCloses(t) ==
    /\ t \in alive /\ \E v \in Sockets : t \in closing[v]
    /\ alive' = alive \ {t} /\ blank' = blank \ {t} /\ dressed' = dressed \ {t}
    /\ destroyed' = [v \in Sockets |-> destroyed[v] \cup {t}]
    /\ showing' = {w \in showing : w.t # t}
    /\ UNCHANGED <<unborn, sessions, targets, askVars, startPageTargets, switching, epoch, activeTargetId,
                   pageSession, attaches, holding, leases>>

---------------------------------------------------------------------------
(* The start page. *)

HideStartPage(t) ==
    IF t \in startPageTargets THEN startPageTargets' = startPageTargets \ {t} /\ dressed' = dressed \ {t}
    ELSE UNCHANGED <<startPageTargets, dressed>>

Dressing(s, t) == IF Mine \in holding /\ t \in blank /\ t \in alive THEN {[s |-> s, t |-> t, at |-> "sent"]} ELSE {}

PageShows(w) ==
    /\ w \in showing /\ w.at = "sent"
    /\ dressed' = IF w.t \in blank /\ w.s \in sessions THEN dressed \cup {w.t} ELSE dressed
    /\ showing' = (showing \ {w}) \cup {[w EXCEPT !.at = "done"]}
    /\ UNCHANGED <<chromeTabs, sessions, targets, askVars, startPageTargets, switching, epoch, activeTargetId,
                   pageSession, attaches, destroyed, holding, leases>>

ShowAnswered(w) ==
    /\ w \in showing /\ w.at = "done" /\ showing' = showing \ {w}
    /\ startPageTargets' = startPageTargets \cup {w.t}
    /\ UNCHANGED <<chromeTabs, dressed, sessions, targets, askVars, switching, epoch, activeTargetId,
                   pageSession, attaches, destroyed, holding, leases>>

\* The first heartbeat binds the lease, and dresses the tab the viewer is on.
Bind(v) ==
    /\ v \notin holding /\ holding' = holding \cup {v}
    /\ IF holding = {} THEN leases < MaxLeases /\ leases' = leases + 1 ELSE UNCHANGED leases
    /\ showing' = IF v # Mine \/ pageSession = 0 \/ activeTargetId \in {NoTab} \cup startPageTargets THEN showing
                  ELSE showing \cup (IF activeTargetId \in blank /\ activeTargetId \in alive
                                     THEN {[s |-> pageSession, t |-> activeTargetId, at |-> "sent"]} ELSE {})
    /\ UNCHANGED <<chromeTabs, dressed, sessions, targets, askVars, startPageTargets, switching, epoch,
                   activeTargetId, pageSession, attaches, destroyed>>

\* control.released: the start page is taken off the tab the viewer is on.
Released ==
    /\ holding # {} /\ holding' = {} /\ (IF pageSession = 0 THEN UNCHANGED <<startPageTargets, dressed>> ELSE HideStartPage(activeTargetId))
    /\ UNCHANGED <<chromeTabs, sessions, targets, askVars, switching, epoch, activeTargetId, pageSession,
                   attaches, showing, destroyed, leases>>

---------------------------------------------------------------------------
(* attach() *)

\* Up to its first await: hiding the start page of the tab that is left, or its screencast's stop.
Attach(t, by, prevT) ==
    /\ epoch < MaxEpoch /\ epoch' = epoch + 1
    /\ attaches' = attaches \cup
         {[my |-> epoch + 1, t |-> t, prev |-> pageSession, prevT |-> prevT, by |-> by,
           at |-> IF pageSession = 0 THEN "attach"
                  ELSE IF prevT \in startPageTargets THEN "undress" ELSE "detach"]}
    /\ IF pageSession # 0 THEN HideStartPage(prevT) ELSE UNCHANGED <<startPageTargets, dressed>>

At(a, at) == attaches' = (attaches \ {a}) \cup {[a EXCEPT !.at = at]}
Finished(a) == attaches' = attaches \ {a} /\ switching' = IF a.by = "follow" THEN switching ELSE FALSE

\* The page answers in its own time.
Undressed(a) ==
    /\ a \in attaches /\ a.at = "undress" /\ At(a, "detach")
    /\ UNCHANGED <<chromeTabs, dressed, sessions, targets, askVars, startPageTargets, switching, epoch,
                   activeTargetId, pageSession, showing, destroyed, holding, leases>>

\* Chrome answers stopScreencast and detachFromTarget, those asked for first before the others:
\* the viewer is on no tab.
Detached(a) ==
    /\ a \in attaches /\ a.at = "detach"
    /\ ~\E b \in attaches : b.at = "detach" /\ b.my < a.my
    /\ sessions' = sessions \ {a.prev} /\ pageSession' = 0 /\ activeTargetId' = NoTab
    /\ At(a, "attach")
    /\ UNCHANGED <<chromeTabs, dressed, targets, askVars, startPageTargets, switching, epoch, showing, destroyed,
                   holding, leases>>

\* attachToTarget answers.  A newer attach makes this one let go of its session again.
Attached(a) ==
    /\ a \in attaches /\ a.at = "attach"
    /\ a.t \in alive
    /\ IF a.my # epoch
       THEN Finished(a) /\ UNCHANGED <<sessions, pageSession, activeTargetId>>
       ELSE /\ sessions' = sessions \cup {a.my} /\ pageSession' = a.my /\ activeTargetId' = a.t
            /\ At(a, "dress") /\ UNCHANGED switching
    /\ UNCHANGED <<chromeTabs, dressed, targets, askVars, startPageTargets, epoch, showing, destroyed, holding, leases>>

\* The tab is gone: another that is known takes its place, within the same call.
AttachFails(a) ==
    /\ a \in attaches /\ a.at = "attach" /\ a.t \notin alive
    /\ IF a.my = epoch /\ epoch < MaxEpoch /\ Known \ {a.t, a.prevT} # {}
       THEN \E t \in Known \ {a.t, a.prevT} :
               /\ epoch' = epoch + 1
               /\ attaches' = (attaches \ {a}) \cup
                    {[my |-> epoch + 1, t |-> t, prev |-> pageSession, prevT |-> activeTargetId, by |-> a.by,
                      at |-> IF pageSession = 0 THEN "attach" ELSE "detach"]}
               /\ UNCHANGED switching
       ELSE Finished(a) /\ UNCHANGED epoch
    /\ UNCHANGED <<chromeTabs, dressed, sessions, targets, askVars, startPageTargets, activeTargetId, pageSession,
                   showing, destroyed, holding, leases>>

\* The screencast runs and the first picture is sent; an empty tab is dressed.
Dresses(a) ==
    /\ a \in attaches /\ a.at = "dress"
    /\ showing' = showing \cup Dressing(a.my, a.t)
    /\ IF Dressing(a.my, a.t) = {} THEN Finished(a) ELSE At(a, "shown") /\ UNCHANGED switching
    /\ UNCHANGED <<chromeTabs, dressed, sessions, targets, askVars, startPageTargets, epoch, activeTargetId,
                   pageSession, destroyed, holding, leases>>

\* The evaluation was answered, or the tab is gone.
Dressed(a) ==
    /\ a \in attaches /\ a.at = "shown" /\ ~\E w \in showing : w.s = a.my /\ w.t = a.t
    /\ Finished(a)
    /\ UNCHANGED <<chromeTabs, dressed, sessions, targets, askVars, startPageTargets, epoch, activeTargetId,
                   pageSession, showing, destroyed, holding, leases>>

\* targetDestroyed: the tab is struck off, and the viewer that was on it follows the browser to another.
TargetDestroyed(v, t) ==
    /\ t \in destroyed[v] /\ destroyed' = [destroyed EXCEPT ![v] = @ \ {t}]
    /\ targets' = [targets EXCEPT ![v] = @ \ {t}] /\ closing' = [closing EXCEPT ![v] = @ \ {t}]
    /\ startPageTargets' = IF v = Mine THEN startPageTargets \ {t} ELSE startPageTargets
    /\ IF v # Mine \/ t # activeTargetId THEN UNCHANGED <<activeTargetId, epoch, attaches>>
       ELSE /\ activeTargetId' = NoTab
            /\ IF Known \ {t} = {} THEN UNCHANGED <<epoch, attaches>>
               ELSE \E next \in Known \ {t} :
                    /\ epoch < MaxEpoch /\ epoch' = epoch + 1
                    /\ attaches' = attaches \cup
                         {[my |-> epoch + 1, t |-> next, prev |-> pageSession, prevT |-> NoTab, by |-> "follow",
                           at |-> IF pageSession = 0 THEN "attach" ELSE "detach"]}
    /\ UNCHANGED <<chromeTabs, dressed, sessions, switching, pageSession, showing, holding, leases, asked, crossed>>

---------------------------------------------------------------------------
(* The person. *)

SelectTab(t) ==
    /\ Mine \in holding /\ t \in Known /\ t # activeTargetId /\ ~switching
    /\ switching' = TRUE /\ Attach(t, "select", activeTargetId)
    /\ UNCHANGED <<chromeTabs, sessions, targets, askVars, activeTargetId, pageSession, showing, destroyed, holding, leases>>

NewTab ==
    /\ Mine \in holding /\ ~switching /\ switching' = TRUE
    /\ \E t \in unborn :
        /\ alive' = alive \cup {t} /\ unborn' = unborn \ {t} /\ blank' = blank \cup {t}
        /\ targets' = KnownToAll(t) /\ Attach(t, "new", activeTargetId)
    /\ UNCHANGED <<sessions, askVars, activeTargetId, pageSession, showing, destroyed, holding, leases>>

\* As if a tab that is being closed still counted.
MayCloseByCount(v, t) == t \in targets[v] \ closing[v] /\ Cardinality(targets[v]) >= 2

\* The last tab is not closed, and one being closed does not count as another.
MayClose(v, t) == t \in targets[v] \ closing[v] /\ Cardinality(targets[v] \ closing[v]) >= 2
AskedByOthers(v) == UNION {asked[u] : u \in Sockets \ {v}}
CloseTab(v, t) ==
    /\ v \in holding /\ MayClose(v, t)
    /\ closing' = [closing EXCEPT ![v] = @ \cup {t}] /\ asked' = [asked EXCEPT ![v] = @ \cup {t}]
    /\ LET left == targets[v] \ (asked[v] \cup {t}) IN
       crossed' = (crossed \/ (left # {} /\ left \subseteq AskedByOthers(v)))
    /\ UNCHANGED <<chromeTabs, dressed, sessions, targets, startPageTargets, switching, epoch, activeTargetId,
                   pageSession, attaches, showing, destroyed, holding, leases>>

\* closeTarget is refused, and the tab may be closed again.
CloseFails(v, t) ==
    /\ t \in closing[v] /\ t \in alive
    /\ closing' = [closing EXCEPT ![v] = @ \ {t}] /\ asked' = [asked EXCEPT ![v] = @ \ {t}]
    /\ UNCHANGED <<chromeTabs, dressed, sessions, targets, startPageTargets, switching, epoch, activeTargetId,
                   pageSession, attaches, showing, destroyed, holding, leases, crossed>>

---------------------------------------------------------------------------
AttachStep(a) == \/ Undressed(a) \/ Detached(a) \/ Attached(a) \/ AttachFails(a)
                 \/ Dresses(a) \/ Dressed(a)
TabsNext ==
    \/ TabOpens \/ Released \/ NewTab
    \/ \E v \in Sockets : Bind(v) \/ \E t \in Tabs : TargetDestroyed(v, t) \/ CloseTab(v, t) \/ CloseFails(v, t)
    \/ \E t \in Tabs : Navigates(t) \/ TabCloses(t) \/ SelectTab(t)
    \/ \E w \in showing : PageShows(w) \/ ShowAnswered(w)
    \/ \E a \in attaches : AttachStep(a)

TabsSpec == TabsInit /\ [][TabsNext]_tabVars

---------------------------------------------------------------------------
(* Properties *)

(* However fast tabs are closed and however late Chrome says so, one is left open: Chrome exits with its
   last.  Not so when all the tabs a socket counts on are ones others have asked to close, of which it knows
   nothing. *)
LastTabStays == ~crossed => alive # {}
=================================================================================

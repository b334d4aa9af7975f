------------------------------- MODULE LinkedCdp -------------------------------
(***************************************************************************)
(* The CDP endpoint a linked browser is given on the server (startLinked-  *)
(* Runtime in src/src/linked-cdp.ts), over one link, and what the          *)
(* extension does with its commands (extension/background.js).             *)
(*                                                                         *)
(* Several clients (an agent's bridge, a viewer, a thumbnail) share ONE    *)
(* debugger attachment per tab.  The endpoint invents the sessions each    *)
(* client sees, tells one session of a client about the tab's child        *)
(* frames, and when the last client leaves turns off what clients turned   *)
(* on.  Commands and answers cross the link in order, and nearly every     *)
(* operation spans one: meanwhile the client, its session or the tab may   *)
(* have gone.                                                              *)
(*                                                                         *)
(* Abstracted: one domain stands for all; a frame is a child session's id, *)
(* and frames inside frames are left out; a command that changes no state  *)
(* here is not sent, but to a frame, where it may find another extension's *)
(* page.  The link ends the endpoint (closed); a later one starts afresh.  *)
(* A call of a client whose minute is up is nobody's from then on, also in *)
(* its answer.                                                             *)
(***************************************************************************)
EXTENDS Naturals, Sequences, FiniteSets, SequencesExt

CONSTANTS
    Clients,      \* CDP client sockets
    CdpTabs,      \* tabs of the person's Chrome
    Kids,         \* child sessions (frames of another site)
    MaxSessions,  \* bound: sessions of all clients together
    MaxAsked,     \* bound: commands and answers on the link when a client asks
    NoTab, NoClient

ASSUME LinkedCdpAssumption ==
    /\ MaxSessions \in Nat /\ MaxAsked \in Nat
    /\ IsFiniteSet(CdpTabs) /\ IsFiniteSet(Kids)
    /\ NoTab \notin CdpTabs /\ NoClient \notin Clients

VARIABLES
    tabs,          \* server: peer.tabs()
    front,         \* per client: gone, or what it asked to be attached to: off, tabs, pages
    sessions,      \* per client: Front.sessions, oldest first
    children,      \* server: children and childTab: the frames of each tab it was told of
    autoAttached, enabled, closed,
    shared,        \* extension: shared, the tabs it has the debugger on
    on, auto,      \* Chrome: tabs whose domain is on, tabs whose frames are attached to
    kid,           \* Chrome: the tab whose attachment a child session lives under
    foreign,       \* Chrome: the child sessions showing another extension's page
    met,           \* extension: what it made of a child session: handed on, or walled off
    overdue,       \* history: tabs whose domain was turned on by a call that had been given up
    ask, tell,     \* the link's two directions
    heard          \* clients: the frames each believes in, and under which of its sessions

serverSide == <<tabs, front, sessions, children, autoAttached, enabled, closed>>
chromeSide == <<shared, on, auto, kid, foreign, met, overdue>>
cdpVars    == <<serverSide, chromeSide, ask, tell, heard>>

SessionIds == 1..MaxSessions
SessionsOpen == SumFunctionOnSet([c \in Clients |-> Len(sessions[c])], Clients)
Rows == [id : SessionIds, tab : CdpTabs, level : {"tab", "page"}, parent : SessionIds \cup {0}, children : BOOLEAN]
Verbs == {"enable", "disable", "auto", "autoOff", "kid"}
Asked == [of : Clients \cup {NoClient}, id : SessionIds \cup {0}, tab : CdpTabs, what : Verbs, kid : Kids \cup {NoTab}]
Told  == [m : {"shared", "unshared"}, tab : CdpTabs] \cup [m : {"attached", "detached"}, tab : CdpTabs, kid : Kids]
         \cup [m : {"answer"}, ok : BOOLEAN, to : Asked]

CdpInit ==
    /\ tabs = {} /\ shared = {} /\ on = {} /\ auto = {} /\ foreign = {} /\ overdue = {}
    /\ front = [c \in Clients |-> "gone"] /\ sessions = [c \in Clients |-> <<>>]
    /\ children = {} /\ autoAttached = {} /\ enabled = {} /\ closed = FALSE
    /\ kid = [k \in Kids |-> NoTab] /\ met = [k \in Kids |-> "no"]
    /\ ask = <<>> /\ tell = <<>> /\ heard = {}

CdpTypeOK ==
    /\ tabs \subseteq CdpTabs /\ shared \subseteq CdpTabs /\ on \subseteq shared /\ auto \subseteq shared
    /\ front \in [Clients -> {"gone", "off", "tabs", "pages"}] /\ sessions \in [Clients -> Seq(Rows)]
    /\ children \subseteq CdpTabs \X Kids /\ autoAttached \subseteq CdpTabs /\ enabled \subseteq CdpTabs
    /\ kid \in [Kids -> CdpTabs \cup {NoTab}] /\ foreign \subseteq Kids /\ overdue \subseteq CdpTabs
    /\ met \in [Kids -> {"no", "handed", "told", "untold"}]
    /\ ask \in Seq(Asked) /\ tell \in Seq(Told) /\ closed \in BOOLEAN
    /\ heard \subseteq Clients \X SessionIds \X Kids

---------------------------------------------------------------------------
(* Sessions. *)

Here(c) == front[c] # "gone"
PageSessions(c, t) == {i \in DOMAIN sessions[c] : sessions[c][i].tab = t /\ sessions[c][i].level = "page"}

\* childOwner: the one session of a client that hears of a tab's frames.
Owners(c, t) == LET asked == {i \in PageSessions(c, t) : sessions[c][i].children}
                IN  {sessions[c][i].id : i \in {i \in asked : \A j \in asked : i <= j}}

\* What is left of sessions when these are deleted, in their order.
Without(s, D) ==
    LET Left[n \in 0..Len(s)] == IF n = 0 THEN <<>>
                                 ELSE IF s[n] \in D THEN Left[n - 1] ELSE Append(Left[n - 1], s[n])
    IN  Left[Len(s)]

\* Names are not used again while a command of their last bearer is on the link.
FreeIds(c) == SessionIds \ ({sessions[c][i].id : i \in DOMAIN sessions[c]}
                 \cup {ask[i].id : i \in {i \in DOMAIN ask : ask[i].of = c}}
                 \cup {tell[i].to.id : i \in {i \in DOMAIN tell : tell[i].m = "answer" /\ tell[i].to.of = c}})
Row(id, t, level, parent) == [id |-> id, tab |-> t, level |-> level, parent |-> parent, children |-> FALSE]

\* Front.open.
Opens(c, t, level, parent) ==
    \E i \in FreeIds(c) : /\ SessionsOpen < MaxSessions /\ \A j \in FreeIds(c) : i <= j
                         /\ sessions' = [sessions EXCEPT ![c] = Append(@, Row(i, t, level, parent))]

\* attachRoot: the sessions a client has once it is attached to these tabs as it asked.
Level(how) == IF how = "tabs" THEN "tab" ELSE "page"
Unattached(c, how, T) == {t \in T : how # "off" /\ ~\E i \in DOMAIN sessions[c] :
                                        sessions[c][i].tab = t /\ sessions[c][i].level = Level(how)}
RoomToAttach(C, how, T) ==
    LET n == [c \in Clients |-> Cardinality(Unattached(c, how[c], T))]
    IN  /\ SessionsOpen + SumFunctionOnSet(n, C) <= MaxSessions
        /\ \A c \in C : n[c] <= Cardinality(FreeIds(c))
AttachedTo(c, how, T) ==
    LET new == SetToSeq(Unattached(c, how, T))
        ids == SetToSeq(FreeIds(c))
    IN  sessions[c] \o [i \in DOMAIN new |-> Row(ids[i], new[i], Level(how), 0)]

Forgets(lost) == heard' = heard \ lost

---------------------------------------------------------------------------
(* The clients. *)

Connects(c) ==
    /\ ~closed /\ ~Here(c) /\ front' = [front EXCEPT ![c] = "off"]
    /\ UNCHANGED <<tabs, sessions, children, autoAttached, enabled, closed, chromeSide, ask, tell, heard>>

\* quiesce: the last client out turns off what clients turned on; nobody waits for the answers.
Quiesce ==
    LET Off(T, verb) == SetToSeq({[of |-> NoClient, id |-> 0, tab |-> t, what |-> verb, kid |-> NoTab] : t \in T})
    IN  /\ ask' = ask \o Off(enabled, "disable") \o Off(autoAttached, "autoOff")
        /\ enabled' = {} /\ autoAttached' = {}

\* gone(): a client's socket closes, with whatever it asked still on its way.
Leaves(c) ==
    /\ ~closed /\ Here(c)
    /\ front' = [front EXCEPT ![c] = "gone"] /\ sessions' = [sessions EXCEPT ![c] = <<>>]
    /\ Forgets({h \in heard : h[1] = c})
    /\ IF \A d \in Clients \ {c} : ~Here(d) THEN Quiesce ELSE UNCHANGED <<ask, enabled, autoAttached>>
    /\ UNCHANGED <<tabs, children, closed, chromeSide, tell>>

\* root, Target.setAutoAttach: the tabs there are get a session, those to come when they are shared.
RootAutoAttach(c, how) ==
    /\ Here(c) /\ RoomToAttach({c}, [front EXCEPT ![c] = how], tabs)
    /\ front' = [front EXCEPT ![c] = how] /\ sessions' = [sessions EXCEPT ![c] = AttachedTo(c, how, tabs)]
    /\ UNCHANGED <<tabs, children, autoAttached, enabled, closed, chromeSide, ask, tell, heard>>

AttachToTarget(c, t) ==
    /\ Here(c) /\ t \in tabs /\ Opens(c, t, "page", 0)
    /\ UNCHANGED <<tabs, front, children, autoAttached, enabled, closed, chromeSide, ask, tell, heard>>

\* inSession, on a synthetic tab: it hands over the page underneath, once.
TabHandsPage(c, r) ==
    /\ r.level = "tab" /\ r.tab \in tabs
    /\ ~\E i \in DOMAIN sessions[c] : sessions[c][i].parent = r.id
    /\ Opens(c, r.tab, "page", r.id)
    /\ UNCHANGED <<tabs, front, children, autoAttached, enabled, closed, chromeSide, ask, tell, heard>>

Detach(c, r) ==
    /\ sessions' = [sessions EXCEPT ![c] = Without(@, {r})]
    /\ Forgets({h \in heard : h[1] = c /\ h[2] = r.id})
    /\ UNCHANGED <<tabs, front, children, autoAttached, enabled, closed, chromeSide, ask, tell>>

\* inSession, on a page whose tab is attached to its frames already: answered from here.
JoinsChildren(c, r) ==
    /\ r.level = "page" /\ r.tab \in tabs \cap autoAttached
    /\ IF Owners(c, r.tab) # {} THEN UNCHANGED <<sessions, heard>>
       ELSE /\ sessions' = [sessions EXCEPT ![c] = [i \in DOMAIN @ |-> IF @[i] = r THEN [r EXCEPT !.children = TRUE] ELSE @[i]]]
            /\ heard' = heard \cup {<<c, r.id, k>> : k \in {k \in Kids : <<r.tab, k>> \in children}}
    /\ UNCHANGED <<tabs, front, children, autoAttached, enabled, closed, chromeSide, ask, tell>>

\* inSession up to its await: the command goes to the extension.
Asks(c, r, what) ==
    /\ r.level = "page" /\ r.tab \in tabs
    /\ what = "auto" => r.tab \notin autoAttached
    /\ Len(ask) + Len(tell) < MaxAsked
    /\ ask' = Append(ask, [of |-> c, id |-> r.id, tab |-> r.tab, what |-> what, kid |-> NoTab])
    /\ UNCHANGED <<serverSide, chromeSide, tell, heard>>

\* inSession, on a frame of a tab the client has a page of.
AsksKid(c, t, k) ==
    /\ Here(c) /\ <<t, k>> \in children /\ PageSessions(c, t) # {}
    /\ Len(ask) + Len(tell) < MaxAsked
    /\ ask' = Append(ask, [of |-> c, id |-> 0, tab |-> t, what |-> "kid", kid |-> k])
    /\ UNCHANGED <<serverSide, chromeSide, tell, heard>>

\* The timer of Peer.call: nobody waits for the call any more.  Calls time out in their order.
GivenUp(a) == [a EXCEPT !.of = NoClient, !.id = 0]
Waits(e) == e.m = "answer" /\ e.to.of # NoClient
CallTimesOut ==
    /\ ~closed
    /\ \/ \E i \in DOMAIN tell :
             /\ Waits(tell[i]) /\ \A j \in DOMAIN tell : Waits(tell[j]) => i <= j
             /\ tell' = [tell EXCEPT ![i].to = GivenUp(@)] /\ UNCHANGED ask
             /\ overdue' = overdue \cup {t \in on : tell[i].ok /\ tell[i].to.what = "enable" /\ tell[i].to.tab = t}
       \/ \E i \in DOMAIN ask :
             /\ \A j \in DOMAIN tell : ~Waits(tell[j])
             /\ ask[i].of # NoClient /\ \A j \in DOMAIN ask : ask[j].of # NoClient => i <= j
             /\ ask' = [ask EXCEPT ![i] = GivenUp(@)] /\ UNCHANGED <<tell, overdue>>
    /\ UNCHANGED <<serverSide, shared, on, auto, kid, foreign, met, heard>>

---------------------------------------------------------------------------
(* The extension and its Chrome. *)

Ended(K) == SetToSeq({[m |-> "detached", tab |-> kid[k], kid |-> k] : k \in {j \in K : met[j] \in {"handed", "told"}}})
KidsOf(t) == {k \in Kids : kid[k] = t}
LoseKids(K) == /\ kid' = [k \in Kids |-> IF k \in K THEN NoTab ELSE kid[k]]
               /\ met' = [k \in Kids |-> IF k \in K THEN "no" ELSE met[k]]
               /\ foreign' = foreign \ K

\* wallOff: Chrome is told to let go of the frame, and whether the agent heard of it is kept.
WallOff(k) == met' = [met EXCEPT ![k] = IF @ = "handed" THEN "told" ELSE "untold"]
Answer(a, ok) == [m |-> "answer", ok |-> ok, to |-> a]

\* handle("cdp"): refused for a tab that is not shared, or a frame of another extension; else
\* Chrome does it.  Frames it lets go of are told of before the answer.
Performs ==
    /\ ask # <<>> /\ ask' = Tail(ask)
    /\ LET a == Head(ask)
           t == a.tab
           Done == tell' = Append(tell, Answer(a, TRUE))
       IN \/ /\ t \notin shared \/ (a.what = "kid" /\ met[a.kid] # "handed")
             /\ tell' = Append(tell, Answer(a, FALSE)) /\ UNCHANGED chromeSide
          \/ /\ t \in shared /\ a.what = "kid" /\ met[a.kid] = "handed"
             /\ IF a.kid \in foreign THEN WallOff(a.kid) ELSE UNCHANGED met
             /\ tell' = Append(tell, Answer(a, a.kid \notin foreign))
             /\ UNCHANGED <<shared, on, auto, kid, foreign, overdue>>
          \/ /\ t \in shared /\ a.what \in {"enable", "disable"}
             /\ on' = IF a.what = "enable" THEN on \cup {t} ELSE on \ {t}
             /\ overdue' = IF a.what = "enable" THEN overdue \cup (IF a.of = NoClient THEN {t} ELSE {}) ELSE overdue \ {t}
             /\ Done /\ UNCHANGED <<shared, auto, kid, foreign, met>>
          \/ /\ t \in shared /\ a.what = "auto"
             /\ auto' = auto \cup {t}
             /\ Done /\ UNCHANGED <<shared, on, kid, foreign, met, overdue>>
          \/ /\ t \in shared /\ a.what = "autoOff"
             /\ auto' = auto \ {t}
             /\ tell' = Append(tell \o Ended(KidsOf(t)), Answer(a, TRUE))
             /\ LoseKids(KidsOf(t)) /\ UNCHANGED <<shared, on, overdue>>
    /\ UNCHANGED <<serverSide, heard>>

\* Chrome attaches to a frame of a tab: one whose page is known to be another extension's is
\* walled off at once, one without an address yet is handed on whatever it comes to show.
FrameComes(t, k, seen) ==
    /\ t \in auto /\ kid[k] = NoTab /\ <<t, k>> \notin children
    /\ \A h \in heard : h[3] # k
    /\ \A i \in DOMAIN tell : tell[i].m \in {"attached", "detached"} => tell[i].kid # k
    /\ \A i \in DOMAIN ask : ask[i].kid # k
    /\ kid' = [kid EXCEPT ![k] = t]
    /\ IF seen THEN /\ foreign' = foreign \cup {k} /\ met' = [met EXCEPT ![k] = "untold"] /\ tell' = tell
               ELSE /\ met' = [met EXCEPT ![k] = "handed"] /\ foreign' = foreign
                    /\ tell' = Append(tell, [m |-> "attached", tab |-> t, kid |-> k])
    /\ UNCHANGED <<serverSide, shared, on, auto, overdue, ask, heard>>

\* The frame comes to show another extension's page; an event of its session may say so.
FrameTurns(k, seen) ==
    /\ kid[k] # NoTab /\ met[k] = "handed" /\ k \notin foreign
    /\ foreign' = foreign \cup {k}
    /\ IF seen THEN WallOff(k) ELSE UNCHANGED met
    /\ UNCHANGED <<serverSide, shared, on, auto, kid, overdue, ask, tell, heard>>

\* The frame goes, or Chrome lets go of one that was walled off.
FrameGoes(k) ==
    /\ kid[k] # NoTab
    /\ tell' = tell \o Ended({k}) /\ LoseKids({k})
    /\ UNCHANGED <<serverSide, shared, on, auto, overdue, ask, heard>>

CdpShares(t) ==
    /\ ~closed /\ t \notin shared /\ Len(ask) + Len(tell) < MaxAsked
    /\ shared' = shared \cup {t} /\ tell' = Append(tell, [m |-> "shared", tab |-> t])
    /\ UNCHANGED <<serverSide, on, auto, kid, foreign, met, overdue, ask, heard>>

\* unshare: the debugger lets go of the tab, and everything that was on goes with it.
CdpUnshares(t) ==
    /\ t \in shared
    /\ shared' = shared \ {t} /\ on' = on \ {t} /\ auto' = auto \ {t} /\ overdue' = overdue \ {t}
    /\ LoseKids(KidsOf(t))
    /\ tell' = IF closed THEN tell ELSE Append(tell, [m |-> "unshared", tab |-> t])
    /\ UNCHANGED <<serverSide, ask, heard>>

---------------------------------------------------------------------------
(* The server, one message of the link at a time. *)

\* As if what a client that has gone turned on were not noted.
NoteForTheLiving(a) ==
    enabled' = CASE a.what = "enable" /\ Here(a.of) -> enabled \cup {a.tab}
                 [] a.what = "disable" -> enabled \ {a.tab}
                 [] OTHER -> enabled
\* note, once the command was answered: whoever asked may have gone.
Note(a) == enabled' = CASE a.what = "enable"  -> enabled \cup {a.tab}
                        [] a.what = "disable" -> enabled \ {a.tab}
                        [] OTHER -> enabled
Mark(c, id, yes) == [sessions EXCEPT ![c] = [i \in DOMAIN @ |-> IF @[i].id = id THEN [@[i] EXCEPT !.children = yes] ELSE @[i]]]

\* announce, to every client.
OnShared(t) ==
    /\ RoomToAttach({c \in Clients : Here(c)}, front, {t})
    /\ tabs' = tabs \cup {t}
    /\ sessions' = [c \in Clients |-> IF Here(c) THEN AttachedTo(c, front[c], {t}) ELSE sessions[c]]
    /\ UNCHANGED <<children, autoAttached, enabled, heard>>

OnUnshared(t) ==
    /\ tabs' = tabs \ {t}
    /\ children' = {x \in children : x[1] # t} /\ autoAttached' = autoAttached \ {t} /\ enabled' = enabled \ {t}
    /\ sessions' = [c \in Clients |-> Without(sessions[c], {r \in ToSet(sessions[c]) : r.tab = t})]
    /\ Forgets({h \in heard : \E i \in DOMAIN sessions[h[1]] :
                              sessions[h[1]][i].id = h[2] /\ sessions[h[1]][i].tab = t})

\* onCdp for a tab's own frames: one session of each client hears of them.
OnFrame(e) ==
    /\ IF e.m = "attached"
       THEN /\ children' = children \cup {<<e.tab, e.kid>>}
            /\ heard' = heard \cup {h \in Clients \X SessionIds \X {e.kid} : h[2] \in Owners(h[1], e.tab)}
       ELSE /\ children' = children \ {<<e.tab, e.kid>>}
            /\ Forgets({h \in heard : h[3] = e.kid /\ Owners(h[1], e.tab) # {}})
    /\ UNCHANGED <<tabs, sessions, autoAttached, enabled>>

\* inSession after its await.  The session that asked is marked if it is still there.
OnAnswer(a) ==
    /\ Note(a)
    /\ CASE a.what = "auto"    -> /\ autoAttached' = autoAttached \cup {a.tab}
                                 /\ sessions' = Mark(a.of, a.id, TRUE)
         [] a.what = "autoOff" -> /\ autoAttached' = autoAttached \ {a.tab}
                                 /\ sessions' = Mark(a.of, a.id, FALSE)
         [] OTHER -> UNCHANGED <<autoAttached, sessions>>
    /\ UNCHANGED <<tabs, children, heard>>

HearsLink ==
    /\ ~closed /\ tell # <<>> /\ tell' = Tail(tell)
    /\ LET e == Head(tell)
       IN  \/ e.m = "shared" /\ OnShared(e.tab)
           \/ e.m = "unshared" /\ OnUnshared(e.tab)
           \/ e.m \in {"attached", "detached"} /\ OnFrame(e)
           \/ e.m = "answer" /\ e.ok /\ e.to.of # NoClient /\ OnAnswer(e.to)
           \/ /\ e.m = "answer" /\ (~e.ok \/ e.to.of = NoClient)
              /\ UNCHANGED <<tabs, sessions, children, autoAttached, enabled, heard>>
    /\ UNCHANGED <<front, closed, chromeSide, ask>>

\* close: the link ended, or the browser was stopped.  quiesce does nothing then.
ClosesEndpoint ==
    /\ ~closed /\ closed' = TRUE
    /\ front' = [c \in Clients |-> "gone"] /\ sessions' = [c \in Clients |-> <<>>] /\ heard' = {}
    /\ ask' = <<>> /\ tell' = <<>>
    /\ UNCHANGED <<tabs, children, autoAttached, enabled, chromeSide>>

CdpNext ==
    \/ \E c \in Clients :
         \/ Connects(c) \/ Leaves(c)
         \/ \E how \in {"off", "tabs", "pages"} : RootAutoAttach(c, how)
         \/ \E t \in CdpTabs : AttachToTarget(c, t) \/ \E k \in Kids : AsksKid(c, t, k)
         \/ \E i \in DOMAIN sessions[c] :
              LET r == sessions[c][i]
              IN  \/ TabHandsPage(c, r) \/ Detach(c, r) \/ JoinsChildren(c, r)
                  \/ \E what \in Verbs \ {"kid"} : Asks(c, r, what)
    \/ CallTimesOut \/ Performs \/ HearsLink \/ ClosesEndpoint
    \/ \E k \in Kids : \/ FrameGoes(k)
                       \/ \E seen \in BOOLEAN : FrameTurns(k, seen) \/ \E t \in CdpTabs : FrameComes(t, k, seen)
    \/ \E t \in CdpTabs : CdpShares(t) \/ CdpUnshares(t)

CdpSpec == CdpInit /\ [][CdpNext]_cdpVars

---------------------------------------------------------------------------
(* Properties. *)

LinkQuiet == ask = <<>> /\ tell = <<>>

(***************************************************************************)
(* What is on in the person's Chrome is known to be on: whoever turned it  *)
(* on, and whether or not that client is still connected, a domain that is *)
(* on is in enabled, where the next last client out finds it, or the       *)
(* answer that puts it there is on its way.  Otherwise a tab goes on       *)
(* sending events, or holding requests, that nobody will ever turn off.    *)
(* Excepted is a domain turned on by a call whose minute was up: note is   *)
(* past the await that failed, and the late answer is dropped.             *)
(***************************************************************************)
OnIsKnown == ~closed => \A t \in on \ overdue :
    \/ t \in enabled
    \/ \E i \in DOMAIN tell : tell[i] = [m |-> "unshared", tab |-> t]
    \/ \E i \in DOMAIN tell : Waits(tell[i]) /\ tell[i].ok /\ tell[i].to.tab = t /\ tell[i].to.what = "enable"
    \/ \E i \in DOMAIN ask : ask[i].tab = t /\ ask[i].what = "disable"

(***************************************************************************)
(* A child frame is announced under one session of a client, never under   *)
(* two, and once the link is quiet no client still believes in one that    *)
(* has gone: also one that turned out to be another extension's after the  *)
(* client had heard of it.                                                 *)
(***************************************************************************)
FramesHeardOnce ==
    /\ \A g, h \in heard : g[1] = h[1] /\ g[3] = h[3] => g = h
    /\ LinkQuiet => \A h \in heard : kid[h[3]] # NoTab

(***************************************************************************)
(* What the endpoint keeps of a person's tab is true of it, whichever      *)
(* clients come and go: what is on, and which frames were announced.       *)
(***************************************************************************)
EndpointAgrees == OnIsKnown /\ FramesHeardOnce
=============================================================================

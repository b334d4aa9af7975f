-------------------------------- MODULE Linked ---------------------------------
(***************************************************************************)
(* A linked browser: the extension in a person's own Chrome                *)
(* (extension/background.js) and the server it dials (src/src/linked.ts).  *)
(*                                                                         *)
(* The extension opens a socket, says hello with its token and the tabs    *)
(* that are shared, and is welcomed; the two then exchange messages in     *)
(* order until either side ends the socket.  A socket the network broke is *)
(* noticed by each side on its own, at any later time.  The server mirrors *)
(* the shared tabs; the extension alone decides which they are.            *)
(*                                                                         *)
(* One browser, one link.  Abstracted: the pairing before the token, what  *)
(* a CDP command does (LinkedCdp has that, over one link), the     *)
(* panel's words.  Sockets are a few names used again once both ends are   *)
(* closed.                                                                 *)
(***************************************************************************)
EXTENDS Naturals, Sequences, FiniteSets

CONSTANTS
    Tabs,         \* tabs of the person's Chrome
    Sockets,      \* names for sockets
    MaxDrops,     \* bound: sockets broken by the network
    MaxSleeps,    \* bound: times Chrome tears the service worker down
    MaxSaid,      \* bound: messages on their way to the server when a tab is shared
    NoSocket

ASSUME LinkedAssumption ==
    /\ IsFiniteSet(Tabs) /\ IsFiniteSet(Sockets) /\ NoSocket \notin Sockets
    /\ MaxDrops \in Nat /\ MaxSleeps \in Nat /\ MaxSaid \in Nat

VARIABLES
    paired,       \* extension: conn, the token it keeps
    phase,        \* extension: link
    ws,           \* extension: ws, the socket it takes for the current one
    shared,       \* extension: shared
    asked,        \* extension: tabs being shared (share() awaits the debugger), and for whom
    leaving,      \* extension: tabs handed back whose tab.unshared is still to be sent
    release,      \* extension: releaseAt: none, armed, or past
    unpairing,    \* extension: unpair() has handed the tabs back and awaits their detaching,
    detaching,    \*            those it has still to await
    stray,        \* history: the shared tabs whose share() ended after unpair() had begun
    end,          \* per socket, the extension's end: closed, dialing, open
    far,          \* per socket, the server's end: closed, fresh (no hello yet), ready
    up, down,     \* per socket, what is on its way to the server and to the extension
    current,      \* server: connections
    mirror,       \* server: the shared tabs of the current connection
    revoked,      \* server: browser_links.revoked_at
    serving,      \* server: the browser's runtime (its CDP endpoint): off, on, or stopping
    stopping,     \* server: performStop waits for the answer to unshare.all
    drops, sleeps

unpairVars == <<unpairing, detaching, stray>>
extVars    == <<paired, phase, ws, shared, asked, leaving, release, unpairVars>>
wireVars   == <<end, far, up, down>>
serverVars == <<current, mirror, revoked, serving, stopping>>
linkedVars == <<extVars, wireVars, serverVars, drops, sleeps>>

Sharers == {"person", "agent"}
UpKinds == [k : {"hello"}, tabs : SUBSET Tabs] \cup [k : {"shared", "unshared"}, t : Tabs]
           \cup [k : {"answer"}]
DownKinds == [k : {"welcome", "create", "unshare", "revoked", "close"}]

LinkedInit ==
    /\ paired = TRUE /\ phase = "connecting" /\ ws = NoSocket /\ shared = {} /\ asked = {}
    /\ leaving = {} /\ release = "none" /\ unpairing = FALSE /\ detaching = {} /\ stray = {}
    /\ end = [s \in Sockets |-> "closed"] /\ far = [s \in Sockets |-> "closed"]
    /\ up = [s \in Sockets |-> <<>>] /\ down = [s \in Sockets |-> <<>>]
    /\ current = NoSocket /\ mirror = {} /\ revoked = FALSE /\ serving = "off" /\ stopping = NoSocket
    /\ drops = 0 /\ sleeps = 0

LinkedTypeOK ==
    /\ paired \in BOOLEAN
    /\ phase \in {"unpaired", "connecting", "online", "offline"}
    /\ ws \in Sockets \cup {NoSocket} /\ current \in Sockets \cup {NoSocket}
    /\ shared \subseteq Tabs /\ leaving \subseteq Tabs /\ mirror \subseteq Tabs
    /\ asked \subseteq [t : Tabs, by : Sharers]
    /\ release \in {"none", "armed", "past"}
    /\ unpairing \in BOOLEAN /\ detaching \subseteq Tabs /\ stray \subseteq Tabs
    /\ end \in [Sockets -> {"closed", "dialing", "open"}]
    /\ far \in [Sockets -> {"closed", "fresh", "ready"}]
    /\ \A s \in Sockets : /\ \A i \in DOMAIN up[s] : up[s][i] \in UpKinds
                          /\ \A i \in DOMAIN down[s] : down[s][i] \in DownKinds
    /\ revoked \in BOOLEAN /\ serving \in {"off", "on", "stopping"}
    /\ stopping \in Sockets \cup {NoSocket}
    /\ drops \in 0..MaxDrops /\ sleeps \in 0..MaxSleeps

---------------------------------------------------------------------------
(* The extension. *)

\* As if tabs were told of only on a link that was welcomed.
SaysOnline(m) == IF ws # NoSocket /\ phase = "online" THEN [up EXCEPT ![ws] = Append(@, m)] ELSE up

\* send(): a message for a socket that is not open is dropped.
Says(m) == IF ws # NoSocket /\ end[ws] = "open" THEN [up EXCEPT ![ws] = Append(@, m)] ELSE up

\* offlineGrace: the minute starts once, and is not started again while it runs.
Graced(tabs, at) == IF tabs = {} THEN at ELSE IF at = "none" THEN "armed" ELSE at

Connect ==
    /\ paired /\ ws = NoSocket
    /\ \E s \in Sockets :
        /\ end[s] = "closed" /\ far[s] = "closed" /\ up[s] = <<>> /\ down[s] = <<>>
        /\ ws' = s /\ end' = [end EXCEPT ![s] = "dialing"]
    /\ phase' = IF phase = "offline" THEN "offline" ELSE "connecting"
    /\ UNCHANGED <<paired, shared, asked, leaving, release, unpairVars, far, up, down, serverVars, drops, sleeps>>

\* The server accepts the socket, and onopen says hello with what is shared now.
Opens(s) ==
    /\ end[s] = "dialing"
    /\ far' = [far EXCEPT ![s] = "fresh"]
    /\ IF ws = s THEN /\ end' = [end EXCEPT ![s] = "open"]
                      /\ up' = [up EXCEPT ![s] = <<[k |-> "hello", tabs |-> shared]>>]
                 ELSE UNCHANGED <<end, up>>
    /\ UNCHANGED <<extVars, down, serverVars, drops, sleeps>>

\* disconnected(): only the current socket's end counts.
Disconnects(s) ==
    /\ end' = [end EXCEPT ![s] = "closed"] /\ up' = up
    /\ IF ws # s THEN UNCHANGED <<ws, phase, release>>
       ELSE /\ ws' = NoSocket
            /\ IF paired THEN phase' = "offline" /\ release' = Graced(shared, release)
               ELSE UNCHANGED <<phase, release>>

\* unshareAll: every permission is gone at once, the messages follow.
HandBack == shared' = {} /\ leaving' = leaving \cup shared /\ stray' = {}
HandsBack == HandBack /\ UNCHANGED <<unpairing, detaching>>

\* unpair() up to its await.
BeginsUnpair == HandBack /\ unpairing' = TRUE /\ detaching' = IF unpairing THEN detaching ELSE shared

\* What the extension reads next on the socket.
Reads(s) ==
    /\ end[s] = "open" /\ down[s] # <<>>
    /\ LET m == Head(down[s]).k IN
       /\ down' = [down EXCEPT ![s] = Tail(@)]
       /\ \/ /\ m = "welcome"
             /\ IF ws = s THEN phase' = "online" /\ release' = "none" ELSE UNCHANGED <<phase, release>>
             /\ UNCHANGED <<paired, ws, shared, asked, leaving, unpairVars, end, up>>
          \/ /\ m = "create"                           \* tabs.create: refused unless a tab is shared
             /\ \/ /\ ws = s /\ shared # {}
                   /\ \E t \in Tabs \ shared : asked' = asked \cup {[t |-> t, by |-> "agent"]}
                \/ UNCHANGED asked
             /\ UNCHANGED <<paired, phase, ws, shared, leaving, release, unpairVars, end, up>>
          \/ /\ m = "unshare"                          \* unshare.all, answered once the tabs are back
             /\ IF ws = s THEN HandsBack /\ up' = [up EXCEPT ![s] = Append(@, [k |-> "answer"])]
                ELSE UNCHANGED <<shared, leaving, unpairVars, up>>
             /\ UNCHANGED <<paired, phase, ws, asked, release, end>>
          \/ /\ m = "close" /\ Disconnects(s)
             /\ UNCHANGED <<paired, shared, asked, leaving, unpairVars>>
          \/ /\ m = "revoked"                          \* before the welcome: the link is no more
             /\ IF ws = s /\ phase # "online"
                THEN /\ BeginsUnpair /\ ws' = NoSocket /\ end' = [end EXCEPT ![s] = "closed"]
                     /\ UNCHANGED <<phase, release, up>>
                ELSE Disconnects(s) /\ UNCHANGED <<shared, leaving, unpairVars>>
             /\ UNCHANGED <<paired, asked>>
    /\ UNCHANGED <<far, serverVars, drops, sleeps>>

\* A timer of the extension (no welcome, no pong), a dial that failed, or the close of a socket
\* whose other end is closed and whose messages were all read.
GivesUpSocket(s) ==
    /\ end[s] # "closed"
    /\ LET over == end[s] = "dialing" \/ (far[s] = "closed" /\ down[s] = <<>>)
       IN IF over THEN drops' = drops ELSE drops < MaxDrops /\ drops' = drops + 1
    /\ Disconnects(s)
    /\ down' = [down EXCEPT ![s] = <<>>]
    /\ UNCHANGED <<paired, shared, asked, leaving, unpairVars, far, serverVars, sleeps>>

WireQuiet == \A s \in Sockets : Len(up[s]) <= MaxSaid

PersonShares(t) ==
    /\ phase = "online" /\ t \notin shared /\ WireQuiet
    /\ asked' = asked \cup {[t |-> t, by |-> "person"]}
    /\ UNCHANGED <<paired, phase, ws, shared, leaving, release, unpairVars, wireVars, serverVars, drops, sleeps>>

\* share() has attached the debugger and been answered by the tab.
Shares(a) ==
    /\ a \in asked /\ a.t \notin leaving
    /\ asked' = asked \ {a}
    /\ shared' = shared \cup {a.t}
    /\ stray' = IF unpairing \/ ~paired THEN stray \cup {a.t} ELSE stray
    /\ up' = IF a.t \in shared THEN up ELSE Says([k |-> "shared", t |-> a.t])
    /\ UNCHANGED <<paired, phase, ws, leaving, release, unpairing, detaching, end, far, down, serverVars, drops, sleeps>>

ShareFails(a) ==
    /\ a \in asked /\ asked' = asked \ {a}
    /\ UNCHANGED <<paired, phase, ws, shared, leaving, release, unpairVars, wireVars, serverVars, drops, sleeps>>

\* Stop sharing, Cancel on Chrome's bar, the tab closed, left its site, or opened the dashboard.
Unshares(t) ==
    /\ t \in shared
    /\ shared' = shared \ {t} /\ leaving' = leaving \cup {t} /\ stray' = stray \ {t}
    /\ UNCHANGED <<paired, phase, ws, asked, release, unpairing, detaching, wireVars, serverVars, drops, sleeps>>

StopAll ==
    /\ shared # {} /\ HandsBack
    /\ UNCHANGED <<paired, phase, ws, asked, release, wireVars, serverVars, drops, sleeps>>

\* unshare() once the debugger is detached.
SaysUnshared(t) ==
    /\ t \in leaving
    /\ leaving' = leaving \ {t} /\ up' = Says([k |-> "unshared", t |-> t])
    /\ release' = IF shared = {} THEN "none" ELSE release
    /\ detaching' = detaching \ {t}
    /\ UNCHANGED <<paired, phase, ws, shared, asked, unpairing, stray, end, far, down, serverVars, drops, sleeps>>

\* The person ends the link.
Unpair ==
    /\ paired /\ BeginsUnpair
    /\ UNCHANGED <<paired, phase, ws, asked, release, wireVars, serverVars, drops, sleeps>>

\* unpair() after its await: the token is forgotten, and a tab shared meanwhile stays so.
EndsUnpair ==
    /\ unpairing /\ detaching = {} /\ unpairing' = FALSE
    /\ paired' = FALSE /\ phase' = "unpaired" /\ release' = "none"
    /\ ws' = NoSocket /\ end' = [e \in Sockets |-> IF e = ws THEN "closed" ELSE end[e]]
    /\ UNCHANGED <<shared, asked, leaving, detaching, stray, far, up, down, serverVars, drops, sleeps>>

\* The minute is over, and the timer of offlineGrace finds it so.
MinutePasses ==
    /\ release = "armed" /\ release' = "past"
    /\ UNCHANGED <<paired, phase, ws, shared, asked, leaving, unpairVars, wireVars, serverVars, drops, sleeps>>

GraceFires ==
    /\ release = "past" /\ phase # "online" /\ shared # {}
    /\ HandsBack
    /\ UNCHANGED <<paired, phase, ws, asked, release, wireVars, serverVars, drops, sleeps>>

\* Chrome tears the worker down between two turns, and boot() reads back what was shared, checks
\* it against the debugger, and resumes the minute where it was.
Sleeps ==
    /\ sleeps < MaxSleeps /\ sleeps' = sleeps + 1
    /\ asked = {} /\ leaving = {} /\ ~unpairing
    /\ end' = [s \in Sockets |-> "closed"] /\ ws' = NoSocket
    /\ up' = up /\ down' = [s \in Sockets |-> <<>>]
    /\ phase' = IF paired THEN "connecting" ELSE "unpaired"
    /\ \E kept \in SUBSET shared :
        /\ release' = IF paired THEN Graced(kept, release) ELSE release
        /\ IF paired /\ release = "past" THEN shared' = {} /\ leaving' = kept
           ELSE shared' = kept /\ UNCHANGED leaving
    /\ stray' = stray \cap shared'
    /\ UNCHANGED <<paired, asked, unpairing, detaching, far, serverVars, drops>>

---------------------------------------------------------------------------
(* The server. *)

\* shutdown() of a connection: its calls fail, and if it was the current one the runtime goes.
Cut(s, word) == /\ far' = [far EXCEPT ![s] = "closed"]
                /\ down' = [down EXCEPT ![s] = IF end[s] = "closed" THEN <<>> ELSE Append(@, [k |-> word])]
\* A link taken back is refused as such; as if it were refused like any other socket.
RefusedPlainly(s) == Cut(s, "close")
Refused(s) == Cut(s, "revoked")
Lost == current' = NoSocket /\ mirror' = {} /\ serving' = "off" /\ stopping' = NoSocket

\* The first message: the token is looked up, a connection before this one is replaced, and the
\* tabs named are the mirror.
Hello(s) ==
    /\ far[s] = "fresh" /\ up[s] # <<>>
    /\ up' = [up EXCEPT ![s] = Tail(@)]
    /\ IF revoked
       THEN Refused(s) /\ UNCHANGED <<current, mirror, serving, stopping>>
       ELSE /\ far' = [f \in Sockets |-> IF f = s THEN "ready" ELSE IF f = current THEN "closed" ELSE far[f]]
            /\ down' = [d \in Sockets |->
                          IF end[d] = "closed" \/ d \notin {s, current} THEN down[d]
                          ELSE Append(down[d], [k |-> IF d = s THEN "welcome" ELSE "close"])]
            /\ current' = s /\ mirror' = Head(up[s]).tabs
            /\ serving' = IF current = NoSocket THEN serving ELSE "off"
            /\ stopping' = IF current = NoSocket THEN stopping ELSE NoSocket
    /\ UNCHANGED <<extVars, end, revoked, drops, sleeps>>

\* Every later message of a ready connection.
Hears(s) ==
    /\ far[s] = "ready" /\ up[s] # <<>>
    /\ up' = [up EXCEPT ![s] = Tail(@)]
    /\ LET m == Head(up[s]) IN
       /\ mirror' = CASE m.k = "shared" -> mirror \cup {m.t} [] m.k = "unshared" -> mirror \ {m.t}
                      [] OTHER -> mirror
       /\ IF m.k = "answer" /\ stopping = s THEN serving' = "off" /\ stopping' = NoSocket
          ELSE UNCHANGED <<serving, stopping>>
    /\ UNCHANGED <<extVars, end, far, down, current, revoked, drops, sleeps>>

\* What is on its way to an end that has closed goes nowhere.
Discards(s) ==
    /\ far[s] = "closed" /\ up[s] # <<>> /\ end[s] # "dialing"
    /\ up' = [up EXCEPT ![s] = <<>>]
    /\ UNCHANGED <<extVars, end, far, down, serverVars, drops, sleeps>>

\* The socket's close, no hello in time, or sweepLinks after three missed pings.
ServerLoses(s) ==
    /\ far[s] # "closed"
    /\ end[s] = "closed" \/ drops < MaxDrops
    /\ drops' = IF end[s] = "closed" THEN drops ELSE drops + 1
    /\ Cut(s, "close") /\ up' = [up EXCEPT ![s] = <<>>]
    /\ IF s = current THEN Lost ELSE UNCHANGED <<current, mirror, serving, stopping>>
    /\ UNCHANGED <<extVars, end, revoked, sleeps>>

\* dropLinksFor: the browser is deleted, or its link taken back.
Revoke ==
    /\ ~revoked /\ revoked' = TRUE
    /\ IF current = NoSocket THEN UNCHANGED <<far, down, current, mirror, serving, stopping>>
       ELSE Cut(current, "revoked") /\ Lost
    /\ UNCHANGED <<extVars, end, up, drops, sleeps>>

Tells(word) == down' = [down EXCEPT ![current] = Append(@, [k |-> word])]

\* A start needs a link that is up; a call of an agent may then ask for a new tab.
StartsServing ==
    /\ current # NoSocket /\ serving = "off" /\ serving' = "on"
    /\ UNCHANGED <<extVars, wireVars, current, mirror, revoked, stopping, drops, sleeps>>

AgentOpensTab ==
    /\ serving = "on" /\ current # NoSocket /\ WireQuiet /\ ~\E i \in DOMAIN down[current] : down[current][i].k = "create"
    /\ Tells("create")
    /\ UNCHANGED <<extVars, end, far, up, serverVars, drops, sleeps>>

\* performStop hands every tab back before it closes the endpoint.
StopsServing ==
    /\ serving = "on" /\ current # NoSocket
    /\ serving' = "stopping" /\ stopping' = current /\ Tells("unshare")
    /\ UNCHANGED <<extVars, end, far, up, current, mirror, revoked, drops, sleeps>>

\* CALL_TIMEOUT_MS without an answer.
StopTimesOut ==
    /\ serving = "stopping" /\ drops < MaxDrops /\ drops' = drops + 1
    /\ serving' = "off" /\ stopping' = NoSocket
    /\ UNCHANGED <<extVars, wireVars, current, mirror, revoked, sleeps>>

---------------------------------------------------------------------------
LinkedMoves ==
    \/ \E t \in Tabs : PersonShares(t) \/ Unshares(t)
    \/ StopAll \/ Unpair \/ Sleeps \/ Revoke \/ StartsServing \/ AgentOpensTab \/ StopsServing \/ StopTimesOut
    \/ \E a \in asked : ShareFails(a)
LinkedNext ==
    \/ LinkedMoves \/ Connect \/ EndsUnpair \/ MinutePasses \/ GraceFires
    \/ \E a \in asked : Shares(a)
    \/ \E t \in Tabs : SaysUnshared(t)
    \/ \E s \in Sockets : \/ Opens(s) \/ Reads(s) \/ Hello(s) \/ Hears(s) \/ Discards(s)
                          \/ GivesUpSocket(s) \/ ServerLoses(s)
LinkedSpec == LinkedInit /\ [][LinkedNext]_linkedVars
LinkedFairness ==
    /\ WF_linkedVars(MinutePasses) /\ WF_linkedVars(GraceFires) /\ WF_linkedVars(EndsUnpair)
    /\ \A t \in Tabs : WF_linkedVars(SaysUnshared(t))
    /\ \A s \in Sockets :
        /\ WF_linkedVars(Reads(s))
        /\ WF_linkedVars(Hello(s)) /\ WF_linkedVars(Hears(s)) /\ WF_linkedVars(Discards(s))
        /\ WF_linkedVars(GivesUpSocket(s)) /\ WF_linkedVars(ServerLoses(s))

---------------------------------------------------------------------------
(* Properties *)

Settled == /\ phase = "online" /\ ws # NoSocket /\ ws = current /\ end[ws] = "open"
           /\ up[ws] = <<>> /\ leaving = {}

\* Whatever was shared and handed back while a socket was being opened, replaced or lost, once
\* the two have heard each other out the server knows exactly the tabs that are shared.
MirrorAgrees == Settled => mirror = shared

\* Nothing stays shared that the server is out of reach for: within the minute, which tearing the
\* worker down does not renew, the tabs are handed back or the link is up again; and a link taken back
\* is learned of by the extension, which forgets its token and hands the tabs back, however its
\* sockets were broken meanwhile, if not every dial fails for ever.  But for the tabs whose share()
\* ended once unpair() had begun to hand the tabs back (`stray`): no timer and no server ends those.
LinkEnds ==
    /\ (phase # "online" /\ shared # {}) ~> (phase = "online" \/ shared \subseteq stray)
    /\ (\A s \in Sockets : SF_linkedVars(Opens(s))) => (revoked ~> (~paired /\ shared \subseteq stray))
=============================================================================

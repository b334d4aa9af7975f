------------------------------ MODULE Gateways ------------------------------
(***************************************************************************)
(* A gateway: a computer of the operator's that a browser reaches the web  *)
(* through (src/src/gateways.ts), the row that names it, the one socket    *)
(* registered for it, and the clients that hold its token                  *)
(* (src/bin/tallylamp.mjs gateway).  A socket may go dead without either   *)
(* end noticing; each end's watchdog finds that out in its own time.       *)
(***************************************************************************)
EXTENDS Naturals, FiniteSets

CONSTANTS Clients,      \* computers running the client with this gateway's token
          Links,        \* WebSocket connections, used again once closed at both ends
          Users,        \* browsers that may be routed through the gateway
          MaxCuts,      \* bound: connections that go dead
          NoLink, NoClient

ASSUME GatewayLimits == MaxCuts \in Nat /\ NoLink \notin Links /\ NoClient \notin Clients

VARIABLES gateway,      \* the row exists
          routed,       \* browsers whose gateway_id is it
          online,       \* connections: the registered socket
          link,         \* each socket: [of, client, server, alive, code]
          client,       \* each client: [state, link, why]
          joined,       \* the clients whose socket the server accepted, by order of the last
          cuts

gatewayVars == <<gateway, routed, online, link, client, joined, cuts>>

Replaced == 4409
Removed == 4403
Rejected == 4401
Restarting == 1012
\* As if a client that was displaced tried again.
FinalCodesOfServer == {Removed, Rejected}
FinalCodes == {Replaced, Removed, Rejected}
Codes == {Replaced, Removed, Rejected, Restarting, 0}

Free == [of |-> NoClient, client |-> FALSE, server |-> FALSE, alive |-> FALSE, code |-> 0]
LinkRows == [of: Clients \cup {NoClient}, client: BOOLEAN, server: BOOLEAN, alive: BOOLEAN, code: Codes]
ClientRows == [state: {"waiting", "connected", "stopped"}, link: Links \cup {NoLink}, why: Codes]

NotJoined == [state |-> "waiting", link |-> NoLink, why |-> 0]
NotRunning == [state |-> "stopped", link |-> NoLink, why |-> 0]

GatewaysInit ==
    /\ gateway = TRUE
    /\ routed \in SUBSET Users
    /\ online = NoLink
    /\ link = [l \in Links |-> Free]
    /\ client \in [Clients -> {NotJoined, NotRunning}]
    /\ joined = NoClient
    /\ cuts = 0

(* shutdown with a code: the server lets go at once, the client hears it   *)
(* if the connection still works.                                          *)
ShutWith(L, code) == [l \in Links |-> IF l \in L /\ link[l].server
                                      THEN [link[l] EXCEPT !.server = FALSE, !.code = code] ELSE link[l]]

(* attachGatewayUpgrade: an unknown token is upgraded and closed with a    *)
(* code; a known one replaces the registered socket.                       *)
Connects(c, l) ==
    /\ client[c].state = "waiting"
    /\ ~link[l].client /\ ~link[l].server
    /\ client' = [client EXCEPT ![c] = [state |-> "connected", link |-> l, why |-> 0]]
    /\ IF gateway
       THEN /\ link' = [ShutWith({online} \cap Links, Replaced) EXCEPT ![l] =
                          [of |-> c, client |-> TRUE, server |-> TRUE, alive |-> TRUE, code |-> 0]]
            /\ online' = l
            /\ joined' = c
       ELSE /\ link' = [link EXCEPT ![l] = [of |-> c, client |-> TRUE, server |-> FALSE, alive |-> TRUE, code |-> Rejected]]
            /\ UNCHANGED <<online, joined>>
    /\ UNCHANGED <<gateway, routed, cuts>>

(* The client's onclose: a final code stops it for good, any other is      *)
(* followed by another attempt.                                            *)
Stops(c, code) ==
    client' = [client EXCEPT ![c] = IF code \in FinalCodes
                                    THEN [state |-> "stopped", link |-> NoLink, why |-> code]
                                    ELSE NotJoined]

HearsClose(l) ==
    /\ link[l].client /\ ~link[l].server /\ link[l].alive
    /\ link' = [link EXCEPT ![l] = Free]
    /\ Stops(link[l].of, link[l].code)
    /\ UNCHANGED <<gateway, routed, online, joined, cuts>>

GoesDead(l) ==
    /\ link[l].client /\ link[l].alive
    /\ cuts < MaxCuts
    /\ cuts' = cuts + 1
    /\ link' = [link EXCEPT ![l].alive = FALSE]
    /\ UNCHANGED <<gateway, routed, online, client, joined>>

(* No heartbeat for 65 s: the client closes its end and tries again.       *)
ClientGivesUp(l) ==
    /\ link[l].client /\ ~link[l].alive
    /\ link' = [link EXCEPT ![l] = IF @.server THEN [@ EXCEPT !.client = FALSE] ELSE Free]
    /\ Stops(link[l].of, 0)
    /\ UNCHANGED <<gateway, routed, online, joined, cuts>>

(* Two pings unanswered: the server ends the socket, and unregisters it if *)
(* it is still the registered one.                                         *)
ServerGivesUp(l) ==
    /\ link[l].server /\ ~link[l].alive
    /\ link' = [link EXCEPT ![l] = IF @.client THEN [@ EXCEPT !.server = FALSE] ELSE Free]
    /\ online' = IF online = l THEN NoLink ELSE online
    /\ UNCHANGED <<gateway, routed, client, joined, cuts>>

(* Ctrl-C at the client's computer.                                        *)
ClientExits(c) ==
    /\ client[c].state # "stopped"
    /\ client' = [client EXCEPT ![c] = NotRunning]
    /\ LET l == client[c].link IN
       IF l = NoLink THEN UNCHANGED <<link, online>>
       ELSE /\ link' = [link EXCEPT ![l] = IF @.server /\ ~@.alive THEN [@ EXCEPT !.client = FALSE] ELSE Free]
            /\ online' = IF online = l /\ link[l].alive THEN NoLink ELSE online
    /\ UNCHANGED <<gateway, routed, joined, cuts>>

(* The server restarts: every client is told to come back.                 *)
ServerRestarts ==
    /\ online # NoLink
    /\ cuts < MaxCuts
    /\ cuts' = cuts + 1
    /\ link' = ShutWith({online}, Restarting)
    /\ online' = NoLink
    /\ UNCHANGED <<gateway, routed, client, joined>>

(* removeGateway: not while a browser uses it.                             *)
RemoveGateway ==
    /\ gateway
    /\ routed = {}
    /\ gateway' = FALSE
    /\ link' = ShutWith({online} \cap Links, Removed)
    /\ online' = NoLink
    /\ UNCHANGED <<routed, client, joined, cuts>>

(* updateGateway: to one that exists, or back to the host's own network.   *)
RouteThrough(b) == gateway /\ routed' = routed \cup {b} /\ UNCHANGED <<gateway, online, link, client, joined, cuts>>
RouteBack(b) == b \in routed /\ routed' = routed \ {b} /\ UNCHANGED <<gateway, online, link, client, joined, cuts>>

GatewaysNext ==
    \/ \E c \in Clients : ClientExits(c) \/ \E l \in Links : Connects(c, l)
    \/ \E l \in Links : HearsClose(l) \/ GoesDead(l) \/ ClientGivesUp(l) \/ ServerGivesUp(l)
    \/ ServerRestarts \/ RemoveGateway
    \/ \E b \in Users : RouteThrough(b) \/ RouteBack(b)

(* A client that runs keeps trying, and each watchdog fires.               *)
GatewaysFairness ==
    /\ \A c \in Clients : WF_gatewayVars(\E l \in Links : Connects(c, l))
    /\ \A l \in Links : WF_gatewayVars(HearsClose(l)) /\ WF_gatewayVars(ClientGivesUp(l)) /\ WF_gatewayVars(ServerGivesUp(l))

GatewaysSpec == GatewaysInit /\ [][GatewaysNext]_gatewayVars /\ GatewaysFairness
-----------------------------------------------------------------------------

GatewaysTypeOK ==
    /\ gateway \in BOOLEAN
    /\ routed \subseteq Users
    /\ online \in Links \cup {NoLink}
    /\ link \in [Links -> LinkRows]
    /\ client \in [Clients -> ClientRows]
    /\ joined \in Clients \cup {NoClient}
    /\ cuts \in 0..MaxCuts

Up(l) == online = l /\ link[l].client /\ link[l].alive

(***************************************************************************)
(* A gateway whose clients keep running comes back by itself: once sockets *)
(* stop dying, and unless it is removed, one is registered whose both ends *)
(* are alive, and it stays.  Two computers with one token do not displace  *)
(* each other for ever.                                                    *)
(***************************************************************************)
GatewayComesBack ==
    <>[](gateway /\ \E c \in Clients : client[c].state # "stopped") => \E l \in Links : <>[]Up(l)

(***************************************************************************)
(* One socket is registered and every other is shut at the server's end,   *)
(* whichever of replacing it, losing it and removing the gateway comes     *)
(* first; and what is registered or routed through has its row.            *)
(***************************************************************************)
OneSocket ==
    /\ \A l \in Links : link[l].server <=> online = l
    /\ online # NoLink \/ routed # {} => gateway

(***************************************************************************)
(* A client that stopped because it was displaced never was the last to    *)
(* join: of the computers with one token, the last to connect is not       *)
(* turned away, even by a socket of its own that is still registered.      *)
(***************************************************************************)
LatestStays == \A c \in Clients : client[c].why = Replaced => joined \in Clients \ {c}
=============================================================================

------------------------------- MODULE Egress -------------------------------
(***************************************************************************)
(* One connection Chrome makes through its browser's safety proxy          *)
(* (src/src/egress-proxy.ts): the route it takes, and what becomes of a    *)
(* route that is found after Chrome has gone.                              *)
(*                                                                         *)
(* The steps of dial are its awaits: the tunnel hook, the lookup and the   *)
(* vetting of what it finds, and the connection by gateway, upstream proxy *)
(* or directly.  The client may close, and the handshake's timer fire,     *)
(* between any two.  Where the request leads is chosen in Init.            *)
(***************************************************************************)
EXTENDS Naturals

VARIABLES target,       \* [binding, vetted, gateway, upstream]: what the request meets
          work,         \* where the dialling is
          chrome,       \* Chrome's end: "waiting", "joined", "answered", "closed"
          aborted,      \* the dial's AbortController
          peer,         \* the route that was opened, and whether it is open
          answer        \* the status Chrome got

egressVars == <<target, work, chrome, aborted, peer, answer>>

(***************************************************************************)
(* A binding of the tunnel hook: none, one with nothing connected, or one  *)
(* in use.  A destination is vetted if every address it resolves to is     *)
(* public.  A browser has a gateway or an upstream proxy, never both.      *)
(***************************************************************************)
Targets == {t \in [binding: {"none", "unconnected", "connected"}, vetted: BOOLEAN,
                   gateway: BOOLEAN, upstream: BOOLEAN] : ~(t.gateway /\ t.upstream)}

NoPeer == [route |-> "none", open |-> FALSE]
Routes == {"tunnel", "gateway", "upstream", "direct"}

EgressInit ==
    /\ target \in Targets
    /\ work = "tunnel"
    /\ chrome = "waiting"
    /\ aborted = FALSE
    /\ peer = NoPeer
    /\ answer = 0

\* As if what was found were joined whether or not Chrome still waits for it.
FoundLate(route) ==
    /\ work' = "done"
    /\ peer' = [route |-> route, open |-> TRUE]
    /\ IF chrome = "waiting" THEN chrome' = "joined" /\ answer' = 200 ELSE UNCHANGED <<chrome, answer>>

(* The work ended with a route: destroyed if the dial was aborted by then, *)
(* and given to the client otherwise.                                      *)
Found(route) ==
    /\ work' = "done"
    /\ IF aborted \/ chrome # "waiting"
       THEN peer' = [route |-> route, open |-> FALSE] /\ UNCHANGED <<chrome, answer>>
       ELSE peer' = [route |-> route, open |-> TRUE] /\ chrome' = "joined" /\ answer' = 200

Fails(status) ==
    /\ work' = "done"
    /\ IF chrome = "waiting" THEN chrome' = "answered" /\ answer' = status ELSE UNCHANGED <<chrome, answer>>
    /\ UNCHANGED peer

(* The tunnel hook: a stream, a refusal, or no binding.                    *)
TunnelHook ==
    /\ work = "tunnel"
    /\ \/ target.binding = "connected" /\ Found("tunnel")
       \/ target.binding # "none" /\ Fails(502)
       \/ target.binding = "none" /\ aborted /\ Fails(502)
       \/ target.binding = "none" /\ ~aborted /\ work' = "vetting" /\ UNCHANGED <<chrome, peer, answer>>
    /\ UNCHANGED <<target, aborted>>

(* resolveVetted: one address that is not public refuses the whole name.   *)
Vetting ==
    /\ work = "vetting"
    /\ \/ ~target.vetted /\ Fails(403)
       \/ target.vetted /\ aborted /\ Fails(502)
       \/ target.vetted /\ ~aborted /\ work' = "connecting" /\ UNCHANGED <<chrome, peer, answer>>
    /\ UNCHANGED <<target, aborted>>

(* The one route there is.  Its failure ends the request: no other route   *)
(* is tried.  An upstream or direct connection stops when aborted; one by  *)
(* gateway cannot, and may come late.                                      *)
ByGateway == target.gateway /\ Found("gateway")
ByUpstream == target.upstream /\ ~aborted /\ Found("upstream")
Directly == ~target.gateway /\ ~target.upstream /\ ~aborted /\ Found("direct")

Connecting ==
    /\ work = "connecting"
    /\ Fails(502) \/ ByGateway \/ ByUpstream \/ Directly
    /\ UNCHANGED <<target, aborted>>

(* Chrome closes: the dial is aborted, a joined peer is destroyed.         *)
ClientCloses ==
    /\ chrome # "closed"
    /\ chrome' = "closed"
    /\ aborted' = (aborted \/ chrome = "waiting")
    /\ peer' = [peer EXCEPT !.open = FALSE]
    /\ UNCHANGED <<target, work, answer>>

(* The handshake's timer: the dial is aborted and Chrome told.             *)
TimerFires ==
    /\ chrome = "waiting" /\ ~aborted
    /\ aborted' = TRUE
    /\ chrome' = "answered" /\ answer' = 502
    /\ UNCHANGED <<target, work, peer>>

RouteCloses ==
    /\ peer.open
    /\ peer' = [peer EXCEPT !.open = FALSE]
    /\ chrome' = "closed"
    /\ UNCHANGED <<target, work, aborted, answer>>

EgressNext == TunnelHook \/ Vetting \/ Connecting \/ ClientCloses \/ TimerFires \/ RouteCloses

EgressSpec == EgressInit /\ [][EgressNext]_egressVars

-----------------------------------------------------------------------------

EgressTypeOK ==
    /\ target \in Targets
    /\ work \in {"tunnel", "vetting", "connecting", "done"}
    /\ chrome \in {"waiting", "joined", "answered", "closed"}
    /\ aborted \in BOOLEAN
    /\ peer \in [route: Routes \cup {"none"}, open: BOOLEAN]
    /\ answer \in {0, 200, 403, 502}

(***************************************************************************)
(* A browser reaches the web by the route it was given or not at all: a    *)
(* bound address only by its tunnel, an address that was not vetted by     *)
(* nothing else, and a browser with a gateway or a proxy never directly,   *)
(* however many of them failed first.  And a route is only kept open for a *)
(* client that is there: one found after the client went is destroyed.     *)
(***************************************************************************)
OneRouteOut ==
    /\ peer.route # "none" =>
         IF target.binding # "none" THEN peer.route = "tunnel"
         ELSE target.vetted /\ peer.route = IF target.gateway THEN "gateway"
                                            ELSE IF target.upstream THEN "upstream" ELSE "direct"
    /\ peer.open => chrome = "joined"
    /\ chrome = "joined" => peer.open
=============================================================================

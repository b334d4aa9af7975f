------------------------------ MODULE Tunnels ------------------------------
(***************************************************************************)
(* The bindings that let a browser reach an address on its owner's own     *)
(* machine (src/src/tunnels.ts): the rows of browser_tunnels, the socket   *)
(* each holder keeps open, and the streams the egress proxy opens over it. *)
(* What the frames on such a socket do is in module Streams.               *)
(*                                                                         *)
(* This module has the state and the steps; module Lending composes them   *)
(* with the grants that exclude them.                                      *)
(***************************************************************************)
EXTENDS Naturals, FiniteSets

CONSTANTS Browsers,     \* browser ids
          Tunnels,      \* tunnel ids; each names one row
          Addresses,    \* the host:port pairs a binding can name
          Sockets,      \* TunnelConnection objects of one process
          Dials,        \* streams Chrome asks the egress proxy for
          PerBrowser,   \* config.tunnelsPerBrowser
          MaxStreams,   \* config.tunnelMaxStreams
          NoTunnel, NoSocket, NoBrowser, NoAddress

ASSUME TunnelLimits == PerBrowser \in Nat /\ MaxStreams \in Nat
ASSUME NamesOfNone == NoSocket \notin Sockets /\ NoTunnel \notin Tunnels /\ NoBrowser \notin Browsers

VARIABLES tunnel,       \* browser_tunnels: [state, browser, at, late]
          conn,         \* connections: the socket registered for a tunnel
          socket,       \* what each TunnelConnection is for, and whether it is open
          dial          \* the streams: [state, socket]

tunnelVars == <<tunnel, conn, socket, dial>>

TunnelRows == [state: {"none", "held", "revoked"}, browser: Browsers \cup {NoBrowser},
               at: Addresses \cup {NoAddress}, late: BOOLEAN]
SocketRows == [of: Tunnels \cup {NoTunnel}, open: BOOLEAN]
DialRows == [state: {"idle", "opening", "bound", "over"}, socket: Sockets \cup {NoSocket}]

TunnelsInit ==
    /\ tunnel = [t \in Tunnels |-> [state |-> "none", browser |-> NoBrowser, at |-> NoAddress, late |-> FALSE]]
    /\ conn = [t \in Tunnels |-> NoSocket]
    /\ socket = [s \in Sockets |-> [of |-> NoTunnel, open |-> FALSE]]
    /\ dial = [d \in Dials |-> [state |-> "idle", socket |-> NoSocket]]

(***************************************************************************)
(* A row that is neither revoked nor past its expiry.  One that is past it *)
(* keeps its socket until the next sweep.                                  *)
(***************************************************************************)
Bound(t) == tunnel[t].state = "held" /\ ~tunnel[t].late
HeldOn(b) == {t \in Tunnels : tunnel[t].state = "held" /\ tunnel[t].browser = b}
BoundOn(b) == {t \in HeldOn(b) : ~tunnel[t].late}
StreamsOf(s) == {d \in Dials : dial[d].socket = s /\ dial[d].state \in {"opening", "bound"}}

(* shutdown: every stream of the socket is settled or destroyed, and the   *)
(* registration goes if it is still this socket's.                         *)
Shut(S) ==
    /\ socket' = [s \in Sockets |-> IF s \in S THEN [socket[s] EXCEPT !.open = FALSE] ELSE socket[s]]
    /\ conn' = [t \in Tunnels |-> IF conn[t] \in S THEN NoSocket ELSE conn[t]]
    /\ dial' = [d \in Dials |-> IF \E s \in S : d \in StreamsOf(s)
                                THEN [state |-> "over", socket |-> dial[d].socket] ELSE dial[d]]

Registered(T) == {s \in Sockets : \E t \in T : conn[t] = s}

(* createTunnel, past its checks: rows past their expiry are retired first,*)
(* since the unique index still counts them.                               *)
OpenTunnel(t, b, at) ==
    /\ tunnel[t].state = "none"
    /\ at \notin {tunnel[x].at : x \in BoundOn(b)}
    /\ Cardinality(BoundOn(b)) < PerBrowser
    /\ tunnel' = [x \in Tunnels |->
                    IF x = t THEN [state |-> "held", browser |-> b, at |-> at, late |-> FALSE]
                    ELSE IF x \in HeldOn(b) /\ tunnel[x].late THEN [tunnel[x] EXCEPT !.state = "revoked"]
                    ELSE tunnel[x]]
    /\ UNCHANGED <<conn, socket, dial>>

RevokeTunnel(t) ==
    /\ tunnel[t].state # "none"
    /\ tunnel' = [tunnel EXCEPT ![t].state = "revoked"]
    /\ Shut(Registered({t}))

SocketsOf(B) == Registered({t \in Tunnels : tunnel[t].browser \in B})

TunnelLapses(t) ==
    /\ Bound(t)
    /\ tunnel' = [tunnel EXCEPT ![t].late = TRUE]
    /\ UNCHANGED <<conn, socket, dial>>

SweepTunnels ==
    LET stale == {t \in Tunnels : tunnel[t].state = "held" /\ tunnel[t].late}
    IN  /\ stale # {}
        /\ tunnel' = [t \in Tunnels |-> IF t \in stale THEN [tunnel[t] EXCEPT !.state = "revoked"] ELSE tunnel[t]]
        /\ Shut(Registered(stale))

(* attachTunnelUpgrade: the token names the row, a revoked or lapsed row   *)
(* is refused, and a newer socket replaces the registered one.             *)
Attach(t, s) ==
    /\ Bound(t)
    /\ socket[s].of = NoTunnel
    /\ LET old == Registered({t})
       IN  /\ socket' = [x \in Sockets |-> IF x = s THEN [of |-> t, open |-> TRUE]
                                           ELSE IF x \in old THEN [socket[x] EXCEPT !.open = FALSE]
                                           ELSE socket[x]]
           /\ dial' = [d \in Dials |-> IF \E x \in old : d \in StreamsOf(x)
                                       THEN [state |-> "over", socket |-> dial[d].socket] ELSE dial[d]]
    /\ conn' = [conn EXCEPT ![t] = s]
    /\ UNCHANGED tunnel

(* The socket closes or fails at the other end.                            *)
SocketCloses(s) == socket[s].open /\ Shut({s}) /\ UNCHANGED tunnel

(* dialTunnel: no binding falls through to the address check, a binding    *)
(* with nothing connected refuses; both end the request at once.           *)
Dial(d, t) ==
    /\ dial[d].state = "idle"
    /\ Bound(t)
    /\ dial' = [dial EXCEPT ![d] =
                  IF conn[t] # NoSocket /\ Cardinality(StreamsOf(conn[t])) < MaxStreams
                  THEN [state |-> "opening", socket |-> conn[t]]
                  ELSE [state |-> "over", socket |-> NoSocket]]
    /\ UNCHANGED <<tunnel, conn, socket>>

DialAnswered(d) ==
    /\ dial[d].state = "opening"
    /\ dial' = [dial EXCEPT ![d].state = "bound"]
    /\ UNCHANGED <<tunnel, conn, socket>>

(* Refused or timed out while opening; closed by either end once bound.    *)
DialEnds(d) ==
    /\ dial[d].state \in {"opening", "bound"}
    /\ dial' = [dial EXCEPT ![d].state = "over"]
    /\ UNCHANGED <<tunnel, conn, socket>>

(* The process ends: its objects go, the rows stay.                        *)
ProcessEnds ==
    /\ Shut(Sockets)
    /\ UNCHANGED tunnel

TunnelsNext ==
    \/ \E t \in Tunnels : RevokeTunnel(t) \/ TunnelLapses(t)
    \/ SweepTunnels
    \/ \E t \in Tunnels, s \in Sockets : Attach(t, s)
    \/ \E s \in Sockets : SocketCloses(s)
    \/ \E d \in Dials : DialAnswered(d) \/ DialEnds(d) \/ \E t \in Tunnels : Dial(d, t)
    \/ ProcessEnds

-----------------------------------------------------------------------------

TunnelsTypeOK ==
    /\ tunnel \in [Tunnels -> TunnelRows]
    /\ conn \in [Tunnels -> Sockets \cup {NoSocket}]
    /\ socket \in [Sockets -> SocketRows]
    /\ dial \in [Dials -> DialRows]

(***************************************************************************)
(* What a stream needs.  A stream Chrome holds, or waits for, runs over an *)
(* open socket, that socket is the one registered for its tunnel, and its  *)
(* row was not revoked within its term: whatever replaces, revokes or      *)
(* drops a tunnel also cuts what is running through it.                    *)
(***************************************************************************)
CutWithBinding ==
    \A d \in Dials : dial[d].state \in {"opening", "bound"} =>
        LET s == dial[d].socket IN
        /\ socket[s].open
        /\ conn[socket[s].of] = s
        /\ tunnel[socket[s].of].state = "held" \/ tunnel[socket[s].of].late

(***************************************************************************)
(* The unique index on (browser, host, port) of unrevoked rows is never    *)
(* run into: creating a tunnel retires the lapsed rows the sweep has not   *)
(* reached, so no two unrevoked rows of a browser name one address.        *)
(***************************************************************************)
OneRowPerAddress ==
    \A t, u \in Tunnels :
        /\ t # u
        /\ tunnel[t].state = "held" /\ tunnel[u].state = "held"
        /\ tunnel[t].browser = tunnel[u].browser
        => tunnel[t].at # tunnel[u].at
=============================================================================

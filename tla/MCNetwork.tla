------------------------------ MODULE MCNetwork ------------------------------
(***************************************************************************)
(* What a browser reaches and by which way, on a small instance: a browser *)
(* two agents lend each other, with a tunnel of one socket (Lending), its  *)
(* tunnels alone, two of them with two sockets (Tunnels), the streams of   *)
(* one socket (Streams), a gateway with two clients (Gateways), one        *)
(* request of Chrome (Egress), and the socket to a worker that drives a    *)
(* linked browser (LinkedBridge).  They share no state, but for the        *)
(* tunnels of a lent browser, so a behaviour is of one of them, its focus, *)
(* and the others rest in one of their initial states.                     *)
(***************************************************************************)
EXTENDS Lending, Streams, Gateways, Egress, LinkedBridge

CONSTANTS b1, b2, a1, a2, t1, t2, x1, s1, s2, d1, c1, c2, l1, l2, w1, w2, i1, i2

VARIABLE focus

all == <<vars, streamVars, gatewayVars, egressVars, bridgeVars, focus>>

NetworkInit ==
    /\ focus \in {"lending", "tunnels", "streams", "gateways", "egress", "bridges"}
    /\ Init /\ StreamsInit /\ GatewaysInit /\ EgressInit /\ BridgeInit
    /\ focus # "lending" => \A b \in Browsers : ~lendable[b] /\ owner[b] = Admin
    /\ focus # "gateways" => routed = {} /\ \A c \in Clients : client[c] = NotRunning
    /\ focus # "egress" => ~target.vetted /\ ~target.gateway /\ ~target.upstream /\ target.binding = "none"
    /\ focus # "streams" => loop = "instance"

NetworkNext ==
    /\ UNCHANGED focus
    /\ \/ focus = "lending"  /\ Next         /\ UNCHANGED <<streamVars, gatewayVars, egressVars, bridgeVars>>
                            /\ tunnel'[t2].state = "none" /\ socket'[s2].of = NoTunnel
       \/ focus = "tunnels"  /\ \/ \E t \in Tunnels, b \in Browsers, at \in Addresses : CreateTunnel(t, b, at)
                                \/ TunnelsNext /\ UNCHANGED lendingVars
                             /\ UNCHANGED <<streamVars, gatewayVars, egressVars, bridgeVars>>
       \/ focus = "streams"  /\ StreamsNext  /\ UNCHANGED <<vars, gatewayVars, egressVars, bridgeVars>>
       \/ focus = "gateways" /\ GatewaysNext /\ UNCHANGED <<vars, streamVars, egressVars, bridgeVars>>
       \/ focus = "egress"   /\ EgressNext   /\ UNCHANGED <<vars, streamVars, gatewayVars, bridgeVars>>
       \/ focus = "bridges"  /\ BridgeNext   /\ UNCHANGED <<vars, streamVars, gatewayVars, egressVars>>

NetworkSpec ==
    /\ NetworkInit
    /\ [][NetworkNext]_all
    /\ StreamsFairness
    /\ GatewaysFairness
    /\ BridgeFairness
=============================================================================

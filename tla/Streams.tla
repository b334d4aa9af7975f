------------------------------ MODULE Streams ------------------------------
(***************************************************************************)
(* The streams two processes run over one WebSocket (src/src/tunnels.ts):  *)
(* TunnelMux, the end that opens them, and serveDials, the end that dials  *)
(* for it.  A worker opens and the main instance serves; over a gateway or *)
(* a tunnel the main instance opens and the command-line client serves,    *)
(* with a loop of its own (src/bin/tallylamp.mjs) that differs in what it  *)
(* does with a CLOSE.                                                      *)
(*                                                                         *)
(* The WebSocket keeps frames in order until it closes, and drops what is  *)
(* in flight when it does.  The bytes of a stream are left out: only what  *)
(* opens, answers and closes it is here.                                   *)
(***************************************************************************)
EXTENDS Naturals, Sequences, FiniteSets

CONSTANTS MaxIds,       \* bound: stream ids opened in one socket's life
          StreamLimit,  \* limits.maxStreams of the opening end
          Window        \* bound: frames in flight in one direction

ASSUME StreamLimits == MaxIds \in Nat /\ StreamLimit \in Nat /\ Window \in Nat

VARIABLES opened,       \* opener: state of each stream id
          served,       \* server: state of each stream id
          toServer, toOpener,   \* frames in flight
          openerUp, serverUp,   \* each end still sees the socket open
          nextId,
          loop          \* which of the two loops serves; it never changes

streamVars == <<opened, served, toServer, toOpener, openerUp, serverUp, nextId, loop>>

Ids == 1..MaxIds
Frames == [type: {"OPEN", "CLOSE", "ACK", "NONE", "ERROR"}, id: Ids]
F(type, id) == [type |-> type, id |-> id]

StreamsInit ==
    /\ opened = [i \in Ids |-> "unused"]
    /\ served = [i \in Ids |-> "unused"]
    /\ toServer = <<>> /\ toOpener = <<>>
    /\ openerUp = TRUE /\ serverUp = TRUE
    /\ nextId = 1
    /\ loop \in {"instance", "client"}

(* The streams map of the opener: what is waiting for an answer, and what  *)
(* carries bytes.  "half" has ended its own side and still reads.          *)
InMap == {i \in Ids : opened[i] \in {"opening", "open", "half"}}

ToServer(f) == toServer' = IF openerUp /\ serverUp THEN Append(toServer, f) ELSE toServer
ToOpener(f) == toOpener' = IF openerUp /\ serverUp THEN Append(toOpener, f) ELSE toOpener

(* TunnelMux.open *)
Open ==
    /\ openerUp
    /\ nextId \in Ids
    /\ Cardinality(InMap) < StreamLimit
    /\ Len(toServer) < Window
    /\ opened' = [opened EXCEPT ![nextId] = "opening"]
    /\ nextId' = nextId + 1
    /\ ToServer(F("OPEN", nextId))
    /\ UNCHANGED <<served, toOpener, openerUp, serverUp, loop>>

\* As if a stream were forgotten without a word to the far end.
DropStreamSilently(i, as) == opened' = [opened EXCEPT ![i] = as] /\ UNCHANGED toServer

(* dropStream: the duplex is destroyed, which says so to the far end.      *)
DropStream(i, as) == opened' = [opened EXCEPT ![i] = as] /\ ToServer(F("CLOSE", i))

(* The open was not answered in time.                                      *)
OpenTimesOut(i) ==
    /\ opened[i] = "opening"
    /\ Len(toServer) < Window
    /\ DropStream(i, "given up")
    /\ UNCHANGED <<served, toOpener, openerUp, serverUp, nextId, loop>>

(* Whoever holds an open stream destroys it, or ends its own side only.    *)
Destroys(i) ==
    /\ opened[i] \in {"open", "half"}
    /\ Len(toServer) < Window
    /\ DropStream(i, "gone")
    /\ UNCHANGED <<served, toOpener, openerUp, serverUp, nextId, loop>>

Finishes(i) ==
    /\ opened[i] = "open"
    /\ Len(toServer) < Window
    /\ opened' = [opened EXCEPT ![i] = "half"]
    /\ ToServer(F("CLOSE", i))
    /\ UNCHANGED <<served, toOpener, openerUp, serverUp, nextId, loop>>

(* TunnelMux.onFrame.  A frame for a stream that is gone is dropped, and a *)
(* CLOSE takes the stream out of the map without destroying what is        *)
(* buffered: its reader finishes it.                                       *)
OpenerReads ==
    /\ openerUp
    /\ toOpener # <<>>
    /\ LET f == Head(toOpener) IN
       \/ /\ f.id \notin InMap
          /\ UNCHANGED <<opened, toServer>>
       \/ /\ f.id \in InMap /\ f.type = "ACK"
          /\ opened' = [opened EXCEPT ![f.id] = IF @ = "opening" THEN "open" ELSE @]
          /\ UNCHANGED toServer
       \/ /\ f.id \in InMap /\ f.type \in {"NONE", "ERROR"}
          /\ Len(toServer) < Window
          /\ DropStream(f.id, "gone")
       \/ /\ f.id \in InMap /\ f.type = "CLOSE"
          /\ opened' = [opened EXCEPT ![f.id] = "ended"]
          /\ UNCHANGED toServer
    /\ toOpener' = Tail(toOpener)
    /\ UNCHANGED <<served, openerUp, serverUp, nextId, loop>>

(* The streams the serving end has in its map: serveDials adds one when its*)
(* dial has ended well, so that a CLOSE for one still being dialled is     *)
(* dropped; the client's loop adds it when it starts to dial.              *)
Known == IF loop = "client" THEN {"dialling", "serving"} ELSE {"serving"}

(* The serving end reads a frame.  On a CLOSE it ends its side of the peer,*)
(* and the client's loop takes the stream out of its map too.              *)
ServerReads ==
    /\ serverUp
    /\ toServer # <<>>
    /\ LET f == Head(toServer) IN
       served' = IF f.type = "OPEN" THEN [served EXCEPT ![f.id] = "dialling"]
                 ELSE IF served[f.id] \in Known THEN [served EXCEPT ![f.id] = "ending"]
                 ELSE served
    /\ toServer' = Tail(toServer)
    /\ UNCHANGED <<opened, toOpener, openerUp, serverUp, nextId, loop>>

(* The dial ends.  A stream that arrives after the socket closed is        *)
(* destroyed.  The client has no bindings to miss.                         *)
DialSettles(i, how) ==
    /\ served[i] = "dialling"
    /\ how = "NONE" => loop = "instance"
    /\ Len(toOpener) < Window \/ ~serverUp
    /\ served' = [served EXCEPT ![i] = IF how = "ACK" /\ serverUp THEN "serving" ELSE "gone"]
    /\ ToOpener(F(how, i))
    /\ UNCHANGED <<opened, toServer, openerUp, serverUp, nextId, loop>>

(* The peer the dial reached closes: once its own side was ended, it has   *)
(* to; before, it may.  The CLOSE that answers is sent for a stream still  *)
(* in the map; what the client may send late for one that is not, the      *)
(* opener has given up.                                                    *)
PeerCloses(i) ==
    /\ served[i] \in {"serving", "ending"}
    /\ Len(toOpener) < Window \/ ~serverUp
    /\ served' = [served EXCEPT ![i] = "gone"]
    /\ IF loop = "client" /\ served[i] = "ending" THEN UNCHANGED toOpener ELSE ToOpener(F("CLOSE", i))
    /\ UNCHANGED <<opened, toServer, openerUp, serverUp, nextId, loop>>

(* Each end learns in its own time that the socket closed: the opener      *)
(* settles and destroys every stream, the server destroys every peer.      *)
OpenerLearns ==
    /\ openerUp
    /\ openerUp' = FALSE
    /\ toOpener' = <<>> /\ UNCHANGED toServer
    /\ opened' = [i \in Ids |-> IF i \in InMap THEN "gone" ELSE opened[i]]
    /\ UNCHANGED <<served, serverUp, nextId, loop>>

ServerLearns ==
    /\ serverUp
    /\ serverUp' = FALSE
    /\ toServer' = <<>> /\ UNCHANGED toOpener
    /\ served' = [i \in Ids |-> IF served[i] \in Known \cup {"ending"} THEN "gone" ELSE served[i]]
    /\ UNCHANGED <<opened, openerUp, nextId, loop>>

StreamsNext ==
    \/ Open \/ OpenerReads \/ ServerReads \/ OpenerLearns \/ ServerLearns
    \/ \E i \in Ids : \/ OpenTimesOut(i) \/ Destroys(i) \/ Finishes(i) \/ PeerCloses(i)
                      \/ \E how \in {"ACK", "NONE", "ERROR"} : DialSettles(i, how)

(***************************************************************************)
(* Frames are delivered, the open's timer fires, a dial settles (it has a  *)
(* timer of its own), a peer whose side was ended closes, and a socket     *)
(* closed at one end is in time seen closed at the other.                  *)
(***************************************************************************)
StreamsFairness ==
    /\ WF_streamVars(OpenerReads)
    /\ WF_streamVars(ServerReads)
    /\ WF_streamVars(~serverUp /\ OpenerLearns)
    /\ WF_streamVars(~openerUp /\ ServerLearns)
    /\ \A i \in Ids : /\ WF_streamVars(OpenTimesOut(i))
                      /\ WF_streamVars(served[i] = "ending" /\ PeerCloses(i))
                      /\ WF_streamVars(\E how \in {"ACK", "NONE", "ERROR"} : DialSettles(i, how))

StreamsSpec == StreamsInit /\ [][StreamsNext]_streamVars /\ StreamsFairness
-----------------------------------------------------------------------------

StreamsTypeOK ==
    /\ opened \in [Ids -> {"unused", "opening", "open", "half", "ended", "gone", "given up"}]
    /\ served \in [Ids -> {"unused", "dialling", "serving", "ending", "gone"}]
    /\ toServer \in Seq(Frames) /\ toOpener \in Seq(Frames)
    /\ openerUp \in BOOLEAN /\ serverUp \in BOOLEAN
    /\ nextId \in 1..(MaxIds + 1)
    /\ loop \in {"instance", "client"}

(***************************************************************************)
(* Whoever waits for a stream is answered, and a peer is not kept for a    *)
(* stream that is gone at the opener.  One given up while its dial was     *)
(* under way is excepted where serveDials serves: it does not remember     *)
(* that the stream was closed, and the peer stays until it closes of       *)
(* itself or the socket does.  A stream Chrome has ended its side of ends  *)
(* where serveDials serves; a client has forgotten it by the time the peer *)
(* closes in turn, and says nothing.                                       *)
(***************************************************************************)
PeersReleased ==
    \A i \in Ids :
        /\ opened[i] = "opening" ~> opened[i] # "opening"
        /\ opened[i] \in {"gone", "half"} \/ (opened[i] = "given up" /\ loop = "client")
             ~> served[i] \notin {"dialling", "serving", "ending"}
        /\ opened[i] = "half" /\ loop = "instance" ~> opened[i] # "half"

Coming(q, i, T) == \E n \in DOMAIN q : q[n].id = i /\ q[n].type \in T

(***************************************************************************)
(* The state PeersReleased rests on, while both ends see the socket open.  *)
(* A stream that is gone or half ended at the opener has its CLOSE on the  *)
(* way for as long as the far end still dials or serves it;                *)
(***************************************************************************)
PeersAreTold ==
    openerUp /\ serverUp => \A i \in Ids :
        /\ served[i] \in {"dialling", "serving"}
        /\ opened[i] \in {"gone", "half"} \/ (opened[i] = "given up" /\ loop = "client")
        => Coming(toServer, i, {"CLOSE"})

(***************************************************************************)
(* an open that waits has its question on the way, being dealt with or     *)
(* answered, so that no order of frames leaves it to its timer alone;      *)
(***************************************************************************)
OpenersAreAnswered ==
    openerUp /\ serverUp => \A i \in Ids : opened[i] = "opening" =>
        \/ Coming(toServer, i, {"OPEN"})
        \/ served[i] = "dialling"
        \/ Coming(toOpener, i, {"ACK", "NONE", "ERROR"})

(***************************************************************************)
(* and where serveDials serves, one that carries bytes is served, or the   *)
(* word that it ended is on the way.                                       *)
(***************************************************************************)
HalvesEnd ==
    openerUp /\ serverUp /\ loop = "instance" => \A i \in Ids : opened[i] \in {"open", "half"} =>
        served[i] \in {"serving", "ending"} \/ Coming(toOpener, i, {"CLOSE"})
=============================================================================

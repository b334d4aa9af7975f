------------------------------ MODULE LinkedBridge ------------------------------
(***************************************************************************)
(* A linked Chrome stays on its owner's machine; the process that drives   *)
(* it for a session may run on a worker (linkedBridge in workers.ts, both  *)
(* ends in linked-bridge.ts, the worker's door in worker.ts).              *)
(*                                                                         *)
(* The main instance tries the workers one after the other, each under a   *)
(* fresh id and over a socket of its own.  The worker admits the socket    *)
(* against its room, keeps a directory for the bridge's files, starts the  *)
(* child and says ready.  Either end may fail at any step, and each learns *)
(* of the other's end only from the socket: its close, a deadline, or a    *)
(* heartbeat nobody answered.                                              *)
(*                                                                         *)
(* Abstracted: threads (room is a number of bridges), the MCP messages and *)
(* the CDP streams the socket carries.                                     *)
(***************************************************************************)
EXTENDS Naturals, FiniteSets

CONSTANTS
    Seekers,     \* bindings of sessions that want a bridge
    BridgeHosts, \* workers
    Bridges,     \* ids (128 random bits), used again once both ends are over
    Room,        \* bridges a worker has room for
    MaxMishaps,  \* bound: broken sockets, children that die, workers that restart
    NoBridge, NoHost, NoSeeker

ASSUME LinkedBridgeAssumption ==
    /\ Room \in Nat /\ MaxMishaps \in Nat /\ IsFiniteSet(Bridges)
    /\ NoBridge \notin Bridges /\ NoHost \notin BridgeHosts /\ NoSeeker \notin Seekers

VARIABLES
    seek,      \* per binding: what linkedBridge() is at, the candidates left, and the bridge in hand
    mainEnd,   \* per bridge: createLinkedBridgeTransport: none, dialing, ready, used, over
    placed,    \* per bridge: the worker it was dialled at, and for whom
    farEnd,    \* per bridge: acceptLinkedBridge: none, starting, ready, closing, gone
    files,     \* bridges with a directory on their worker
    departing,   \* workers that shut down
    mishaps

bridgeVars == <<seek, mainEnd, placed, farEnd, files, departing, mishaps>>

BridgeInit ==
    /\ seek = [s \in Seekers |-> [state |-> "idle", left |-> {}, bridge |-> NoBridge]]
    /\ mainEnd = [i \in Bridges |-> "none"] /\ farEnd = [i \in Bridges |-> "none"]
    /\ placed = [i \in Bridges |-> [at |-> NoHost, of |-> NoSeeker]]
    /\ files = {} /\ departing = {} /\ mishaps = 0

BridgeTypeOK ==
    /\ seek \in [Seekers -> [state : {"idle", "seeking", "have", "here"}, left : SUBSET BridgeHosts, bridge : Bridges \cup {NoBridge}]]
    /\ mainEnd \in [Bridges -> {"none", "dialing", "ready", "used", "over"}]
    /\ farEnd \in [Bridges -> {"none", "starting", "ready", "closing", "gone"}]
    /\ placed \in [Bridges -> [at : BridgeHosts \cup {NoHost}, of : Seekers \cup {NoSeeker}]]
    /\ files \subseteq Bridges /\ departing \subseteq BridgeHosts /\ mishaps \in 0..MaxMishaps

Mishap == mishaps < MaxMishaps /\ mishaps' = mishaps + 1

---------------------------------------------------------------------------
(* The main instance. *)

\* The candidates are read once, from what each worker last reported: any of them may be wrong.
Seeks(s) ==
    /\ seek[s].state = "idle"
    /\ \E C \in SUBSET BridgeHosts : seek' = [seek EXCEPT ![s] = [state |-> "seeking", left |-> C, bridge |-> NoBridge]]
    /\ UNCHANGED <<mainEnd, placed, farEnd, files, departing, mishaps>>

\* The next one, under an id nobody had; with none left the bridge runs on the main instance.
TriesNext(s) ==
    /\ seek[s].state = "seeking" /\ seek[s].bridge = NoBridge
    /\ IF seek[s].left = {}
       THEN /\ seek' = [seek EXCEPT ![s].state = "here"] /\ UNCHANGED <<mainEnd, placed, farEnd>>
       ELSE \E h \in seek[s].left, i \in Bridges :
            /\ mainEnd[i] = "none" \/ (mainEnd[i] = "over" /\ farEnd[i] = "gone")
            /\ mainEnd' = [mainEnd EXCEPT ![i] = "dialing"]
            /\ farEnd' = [farEnd EXCEPT ![i] = "none"]
            /\ placed' = [placed EXCEPT ![i] = [at |-> h, of |-> s]]
            /\ seek' = [seek EXCEPT ![s].left = @ \ {h}, ![s].bridge = i]
    /\ UNCHANGED <<files, departing, mishaps>>

\* READY was read, in time.
HearsReady(i) ==
    /\ mainEnd[i] = "dialing" /\ farEnd[i] = "ready"
    /\ mainEnd' = [mainEnd EXCEPT ![i] = "ready"]
    /\ UNCHANGED <<seek, placed, farEnd, files, departing, mishaps>>

\* The MCP handshake with the child is over, and the binding has its bridge.
Connected(i) ==
    /\ mainEnd[i] = "ready" /\ farEnd[i] = "ready"
    /\ mainEnd' = [mainEnd EXCEPT ![i] = "used"]
    /\ seek' = [seek EXCEPT ![placed[i].of].state = "have"]
    /\ UNCHANGED <<placed, farEnd, files, departing, mishaps>>

\* finish(): whatever ended it, once.  An attempt that fails makes room for the next; a bridge
\* in use is let go of, and its binding disposed.
Finish(i) ==
    LET s == placed[i].of
    IN  /\ mainEnd' = [mainEnd EXCEPT ![i] = "over"]
        /\ seek' = [seek EXCEPT ![s].bridge = NoBridge, ![s].state = IF mainEnd[i] = "used" THEN "idle" ELSE "seeking"]

\* A refusal, an error or a close that was read; or the deadline or the heartbeat, which need the
\* socket to have been silent: the far end is over, or the socket broke.
MainFails(i) ==
    /\ mainEnd[i] \in {"dialing", "ready", "used"}
    /\ Finish(i)
    /\ \/ farEnd[i] \in {"closing", "gone"} /\ mishaps' = mishaps
       \/ Mishap
    /\ UNCHANGED <<placed, farEnd, files, departing>>

\* The binding is disposed, or was closed while its bridge connected; or the worker is removed.
LetsGo(i) ==
    /\ mainEnd[i] = "used" /\ Finish(i)
    /\ UNCHANGED <<placed, farEnd, files, departing, mishaps>>

---------------------------------------------------------------------------
(* The worker. *)

On(h) == {i \in Bridges : placed[i].at = h /\ farEnd[i] \in {"starting", "ready", "closing"}}

\* The upgrade: refused when the worker is departing or has no room.  The main instance may have
\* given up on it by now.
Admits(i) ==
    LET h == placed[i].at
    IN  /\ mainEnd[i] # "none" /\ farEnd[i] = "none"
        /\ IF h \in departing \/ Cardinality(On(h)) >= Room
           THEN farEnd' = [farEnd EXCEPT ![i] = "gone"] /\ files' = files
           ELSE farEnd' = [farEnd EXCEPT ![i] = "starting"] /\ files' = files \cup {i}
        /\ UNCHANGED <<seek, mainEnd, placed, departing, mishaps>>

ChildStarts(i) ==
    /\ farEnd[i] = "starting" /\ farEnd' = [farEnd EXCEPT ![i] = "ready"]
    /\ UNCHANGED <<seek, mainEnd, placed, files, departing, mishaps>>

\* As if only an error closed the far end, and not the socket's end or the heartbeat.
FarFailsItself(i) ==
    /\ farEnd[i] \in {"starting", "ready"} /\ farEnd' = [farEnd EXCEPT ![i] = "closing"]
    /\ Mishap
    /\ UNCHANGED <<seek, mainEnd, placed, files, departing>>

\* fail and close: the child could not start or died, its deadline passed, the socket closed, or
\* nobody answered the heartbeat.
FarFails(i) ==
    /\ farEnd[i] \in {"starting", "ready"} /\ farEnd' = [farEnd EXCEPT ![i] = "closing"]
    /\ \/ mainEnd[i] = "over" /\ mishaps' = mishaps
       \/ Mishap
    /\ UNCHANGED <<seek, mainEnd, placed, files, departing>>

\* The child has exited and the listener is closed; then the directory goes, then the entry.
FarEnds(i) ==
    /\ farEnd[i] = "closing" /\ farEnd' = [farEnd EXCEPT ![i] = "gone"] /\ files' = files \ {i}
    /\ UNCHANGED <<seek, mainEnd, placed, departing, mishaps>>

\* close() of the worker, and a new process in its place once every bridge has ended.
WorkerCloses(h) ==
    /\ h \notin departing /\ Mishap /\ departing' = departing \cup {h}
    /\ farEnd' = [i \in Bridges |-> IF i \in On(h) THEN "closing" ELSE farEnd[i]]
    /\ UNCHANGED <<seek, mainEnd, placed, files>>
WorkerReturns(h) ==
    /\ h \in departing /\ On(h) = {} /\ departing' = departing \ {h}
    /\ UNCHANGED <<seek, mainEnd, placed, farEnd, files, mishaps>>

BridgeNext ==
    \/ \E s \in Seekers : Seeks(s) \/ TriesNext(s)
    \/ \E i \in Bridges : \/ HearsReady(i) \/ Connected(i) \/ MainFails(i) \/ LetsGo(i)
                          \/ Admits(i) \/ ChildStarts(i) \/ FarFails(i) \/ FarEnds(i)
    \/ \E h \in BridgeHosts : WorkerCloses(h) \/ WorkerReturns(h)

BridgeSpec == BridgeInit /\ [][BridgeNext]_bridgeVars

(***************************************************************************)
(* Every wait of either end is bounded by a deadline or a heartbeat: an    *)
(* end whose other end is over hears of it, one that may go on does.  The  *)
(* candidates of a worker that shuts down are tried no longer than others. *)
(***************************************************************************)
BridgeFairness ==
    /\ \A s \in Seekers : WF_bridgeVars(TriesNext(s))
    /\ \A i \in Bridges : /\ WF_bridgeVars(HearsReady(i) \/ Connected(i))
                          /\ WF_bridgeVars(MainFails(i) /\ farEnd[i] \in {"closing", "gone"})
                          /\ WF_bridgeVars(FarFails(i) /\ mainEnd[i] = "over")
                          /\ WF_bridgeVars(Admits(i) \/ ChildStarts(i) \/ FarEnds(i))

---------------------------------------------------------------------------
(* Properties. *)

(***************************************************************************)
(* A worker never runs more bridges than it has room for, whatever the     *)
(* main instance believed of it: a bridge counts from the moment it is     *)
(* admitted until its child is gone; and no bridge's files stay behind.    *)
(***************************************************************************)
BridgesFit == /\ \A h \in BridgeHosts : Cardinality({i \in files : placed[i].at = h}) <= Room
              /\ \A i \in files : farEnd[i] # "gone"

(***************************************************************************)
(* Neither end outlives the other: once the main instance is done with a   *)
(* bridge its child on the worker ends, and once the worker's end is over  *)
(* the main instance lets go of it; and a binding that looks for a bridge  *)
(* comes to one, here or there.                                            *)
(***************************************************************************)
BridgesEnd ==
    /\ \A i \in Bridges : mainEnd[i] = "over" ~> farEnd[i] = "gone"
    /\ \A i \in Bridges : farEnd[i] = "gone" ~> mainEnd[i] = "over"
    /\ \A s \in Seekers : seek[s].state = "seeking" ~> seek[s].state # "seeking"
=============================================================================

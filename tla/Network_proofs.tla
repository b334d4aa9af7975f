---------------------------- MODULE Network_proofs ----------------------------
(***************************************************************************)
(* Proofs about three parts of the network that stand alone: the route of  *)
(* one connection (Egress), the bridges of linked browsers, for any        *)
(* bindings, workers and bridges (LinkedBridge), and the CDP endpoint over *)
(* one link, for any clients, tabs and frames (LinkedCdp).                 *)
(***************************************************************************)
EXTENDS Egress, LinkedBridge, LinkedCdp, FiniteSetTheorems, SequenceTheorems, WellFoundedInduction, TLAPS

---------------------------------------------------------------------------
(* The route.  OneRouteOut is not inductive by itself: it needs to know    *)
(* how far the dialling came, which is what Underway says.                 *)

\* Nothing is open before the work is done, and each stage was let through by the one before.
Underway ==
    /\ work # "done" => peer.route = "none" /\ ~peer.open /\ chrome # "joined"
    /\ work \in {"vetting", "connecting"} => target.binding = "none"
    /\ work = "connecting" => target.vetted

RouteInv == EgressTypeOK /\ Underway /\ OneRouteOut

LEMMA RouteInitially == EgressInit => RouteInv
<1>. SUFFICES ASSUME EgressInit PROVE RouteInv
  OBVIOUS
<1>1. EgressTypeOK
  BY DEF EgressInit, EgressTypeOK, NoPeer, Routes
<1>2. Underway /\ OneRouteOut
  BY DEF EgressInit, Underway, OneRouteOut, NoPeer
<1>. QED BY <1>1, <1>2 DEF RouteInv

\* The end of the work, with a route the request may take or without one.
LEMMA FoundKeeps ==
    ASSUME RouteInv, work # "done", NEW route \in Routes, Found(route), UNCHANGED <<target, aborted>>,
           IF target.binding # "none" THEN route = "tunnel"
           ELSE target.vetted /\ route = IF target.gateway THEN "gateway"
                                         ELSE IF target.upstream THEN "upstream" ELSE "direct"
    PROVE  RouteInv'
<1>1. \/ peer' = [route |-> route, open |-> FALSE] /\ UNCHANGED <<chrome, answer>>
      \/ peer' = [route |-> route, open |-> TRUE] /\ chrome' = "joined" /\ answer' = 200
  BY DEF Found
<1>2. work' = "done" /\ chrome # "joined"
  BY DEF Found, RouteInv, Underway
<1>3. EgressTypeOK'
  <2>1. \A o \in BOOLEAN : [route |-> route, open |-> o] \in [route: Routes \cup {"none"}, open: BOOLEAN]
    OBVIOUS
  <2>3. peer' \in [route: Routes \cup {"none"}, open: BOOLEAN]
    BY <1>1, <2>1
  <2>2. /\ chrome' \in {"waiting", "joined", "answered", "closed"} /\ answer' \in {0, 200, 403, 502}
        /\ target' \in Targets /\ aborted' \in BOOLEAN
    BY <1>1 DEF RouteInv, EgressTypeOK
  <2>. QED BY <1>2, <2>2, <2>3 DEF EgressTypeOK
<1>4. OneRouteOut' /\ Underway'
  BY <1>1, <1>2 DEF OneRouteOut, Underway
<1>. QED BY <1>3, <1>4 DEF RouteInv

LEMMA FailureKeeps ==
    ASSUME RouteInv, work # "done", NEW status \in {403, 502}, Fails(status), UNCHANGED <<target, aborted>>
    PROVE  RouteInv'
<1>1. /\ work' = "done" /\ UNCHANGED peer /\ ~peer.open /\ peer.route = "none" /\ chrome # "joined"
      /\ \/ chrome' = "answered" /\ answer' = status
         \/ UNCHANGED <<chrome, answer>>
  BY DEF Fails, RouteInv, Underway
<1>2. EgressTypeOK'
  BY <1>1 DEF RouteInv, EgressTypeOK
<1>3. OneRouteOut' /\ Underway'
  BY <1>1 DEF OneRouteOut, Underway
<1>. QED BY <1>2, <1>3 DEF RouteInv

LEMMA RouteStep == RouteInv /\ [EgressNext]_egressVars => RouteInv'
<1>. SUFFICES ASSUME RouteInv, [EgressNext]_egressVars PROVE RouteInv'
  OBVIOUS
<1>1. CASE TunnelHook
  <2>1. CASE target.binding = "connected" /\ Found("tunnel")
    BY <1>1, <2>1, FoundKeeps DEF TunnelHook, Routes
  <2>2. CASE Fails(502)
    BY <1>1, <2>2, FailureKeeps DEF TunnelHook
  <2>3. CASE target.binding = "none" /\ work' = "vetting" /\ UNCHANGED <<chrome, peer, answer>>
    BY <1>1, <2>3 DEF TunnelHook, RouteInv, EgressTypeOK, Underway, OneRouteOut
  <2>. QED BY <1>1, <2>1, <2>2, <2>3 DEF TunnelHook
<1>2. CASE Vetting
  <2>1. CASE Fails(403) \/ Fails(502)
    BY <1>2, <2>1, FailureKeeps DEF Vetting
  <2>2. CASE target.vetted /\ work' = "connecting" /\ UNCHANGED <<chrome, peer, answer>>
    BY <1>2, <2>2 DEF Vetting, RouteInv, EgressTypeOK, Underway, OneRouteOut
  <2>. QED BY <1>2, <2>1, <2>2 DEF Vetting
<1>3. CASE Connecting
  <2>1. CASE Fails(502)
    BY <1>3, <2>1, FailureKeeps DEF Connecting
  <2>2. work = "connecting" /\ target.binding = "none" /\ target.vetted /\ ~(target.gateway /\ target.upstream)
    BY <1>3 DEF Connecting, RouteInv, Underway, EgressTypeOK, Targets
  <2>3. ASSUME NEW route \in Routes, Found(route),
               route = IF target.gateway THEN "gateway" ELSE IF target.upstream THEN "upstream" ELSE "direct"
        PROVE  RouteInv'
    BY <1>3, <2>2, <2>3, FoundKeeps DEF Connecting
  <2>4. CASE ByGateway \/ ByUpstream \/ Directly
    BY <2>2, <2>3, <2>4 DEF ByGateway, ByUpstream, Directly, Routes
  <2>. QED BY <1>3, <2>1, <2>4 DEF Connecting
<1>4. CASE ClientCloses
  <2>1. /\ chrome' = "closed" /\ UNCHANGED <<target, work, answer>> /\ aborted' \in BOOLEAN
        /\ peer' = [peer EXCEPT !.open = FALSE] /\ peer \in [route: Routes \cup {"none"}, open: BOOLEAN]
    BY <1>4 DEF ClientCloses, RouteInv, EgressTypeOK
  <2>2. peer' \in [route: Routes \cup {"none"}, open: BOOLEAN] /\ peer'.route = peer.route /\ ~peer'.open
    <3>. DEFINE R == Routes \cup {"none"}
    <3>1. peer' = [peer EXCEPT !.open = FALSE] /\ peer \in [route: R, open: BOOLEAN]
      BY ONLY <2>1
    <3>. HIDE DEF R
    <3>2. peer' \in [route: R, open: BOOLEAN] /\ peer'.route = peer.route /\ ~peer'.open
      BY ONLY <3>1
    <3>. QED BY ONLY <3>2 DEF R
  <2>. QED BY <2>1, <2>2 DEF RouteInv, EgressTypeOK, Underway, OneRouteOut
<1>5. CASE TimerFires
  BY <1>5 DEF TimerFires, RouteInv, EgressTypeOK, Underway, OneRouteOut, NoPeer
<1>6. CASE RouteCloses
  BY <1>6 DEF RouteCloses, RouteInv, EgressTypeOK, Underway, OneRouteOut, NoPeer
<1>7. CASE UNCHANGED egressVars
  BY <1>7 DEF egressVars, RouteInv, EgressTypeOK, Underway, OneRouteOut
<1>. QED BY <1>1, <1>2, <1>3, <1>4, <1>5, <1>6, <1>7 DEF EgressNext

LEMMA RouteInvariant == EgressSpec => []RouteInv
  BY RouteInitially, RouteStep, PTL DEF EgressSpec

\* The request, its route and its answer keep their types.
THEOREM EgressTypes == EgressSpec => []EgressTypeOK
<1>1. RouteInv => EgressTypeOK
  BY DEF RouteInv
<1>. QED BY <1>1, RouteInvariant, PTL

\* Chrome's connection leaves by the route its browser was given or not at all, however the dial,
\* the timer and Chrome's own end interleave, and no route is left open for a client that went.
THEOREM NoOtherRoute == EgressSpec => []OneRouteOut
<1>1. RouteInv => OneRouteOut
  BY DEF RouteInv
<1>. QED BY <1>1, RouteInvariant, PTL

---------------------------------------------------------------------------
(* The bridges.  BridgesFit is not inductive: a directory is a bridge's    *)
(* from the moment it is admitted until its child is gone (Kept), and an   *)
(* id is used again only when neither end holds it (Undialled), so what a  *)
(* worker counts against its room is not taken from it by a next attempt.  *)

Busy == {"starting", "ready", "closing"}
Kept == \A i \in Bridges : i \in files <=> farEnd[i] \in Busy
Undialled == \A i \in Bridges : mainEnd[i] = "none" => farEnd[i] = "none"
Roomy == \A h \in BridgeHosts : Cardinality(On(h)) <= Room

BridgeInv == BridgeTypeOK /\ Kept /\ Undialled /\ Roomy

LEMMA OnIsFinite == \A h \in BridgeHosts : IsFiniteSet(On(h)) /\ Cardinality(On(h)) \in Nat
<1>. SUFFICES ASSUME NEW h \in BridgeHosts PROVE IsFiniteSet(On(h)) /\ Cardinality(On(h)) \in Nat
  OBVIOUS
<1>1. On(h) \subseteq Bridges
  BY DEF On
<1>. QED BY <1>1, LinkedBridgeAssumption, FS_Subset, FS_CardinalityType

\* A step that admits nobody keeps every worker within its room.
LEMMA NobodyAdmitted ==
    ASSUME Roomy, \A h \in BridgeHosts : On(h)' \subseteq On(h)
    PROVE  Roomy'
<1>1. ASSUME NEW h \in BridgeHosts PROVE Cardinality(On(h)') <= Room
  <2>1. IsFiniteSet(On(h)) /\ Cardinality(On(h)) \in Nat /\ On(h)' \subseteq On(h)
    BY OnIsFinite
  <2>2. Cardinality(On(h)') <= Cardinality(On(h)) /\ Cardinality(On(h)') \in Nat
    BY <2>1, FS_Subset, FS_CardinalityType
  <2>. QED BY <2>1, <2>2, LinkedBridgeAssumption DEF Roomy
<1>. QED BY <1>1 DEF Roomy

LEMMA BridgeInitially == BridgeInit => BridgeInv
<1>. SUFFICES ASSUME BridgeInit PROVE BridgeInv
  OBVIOUS
<1>1. BridgeTypeOK
  BY LinkedBridgeAssumption DEF BridgeInit, BridgeTypeOK
<1>2. Kept /\ Undialled
  BY DEF BridgeInit, Kept, Undialled, Busy
<1>3. \A h \in BridgeHosts : On(h) = {}
  BY DEF BridgeInit, On
<1>4. Roomy
  BY <1>3, FS_EmptySet, LinkedBridgeAssumption DEF Roomy
<1>. QED BY <1>1, <1>2, <1>4 DEF BridgeInv

\* The main instance's steps, but for a new attempt, and those of a worker that changes no bridge.
LEMMA FarStays ==
    ASSUME BridgeInv, UNCHANGED <<placed, farEnd, files>>, BridgeTypeOK',
           \A i \in Bridges : mainEnd'[i] = "none" => mainEnd[i] = "none"
    PROVE  BridgeInv'
<1>1. Kept' /\ Undialled'
  BY DEF BridgeInv, Kept, Undialled
<1>2. \A h \in BridgeHosts : On(h)' = On(h)
  BY DEF On
<1>. QED BY <1>1, <1>2, NobodyAdmitted DEF BridgeInv

\* A bridge that is there already goes on, or ends.
LEMMA FarMoves ==
    ASSUME BridgeInv, UNCHANGED <<placed, mainEnd>>, BridgeTypeOK', Kept',
           \A i \in Bridges : /\ farEnd'[i] \in Busy => farEnd[i] \in Busy
                              /\ farEnd[i] = "none" => farEnd'[i] = "none"
    PROVE  BridgeInv'
<1>1. Undialled'
  BY DEF BridgeInv, Undialled
<1>2. \A h \in BridgeHosts : On(h)' \subseteq On(h)
  BY DEF On, Busy
<1>. QED BY <1>1, <1>2, NobodyAdmitted DEF BridgeInv

LEMMA TryKeeps ==
    ASSUME BridgeInv, NEW s \in Seekers, TriesNext(s)
    PROVE  BridgeInv'
<1>. USE DEF BridgeInv
<1>1. CASE seek[s].left = {}
  <2>1. BridgeTypeOK' /\ UNCHANGED <<mainEnd, placed, farEnd, files>>
    BY <1>1 DEF TriesNext, BridgeTypeOK
  <2>. QED BY <2>1, FarStays
<1>2. CASE seek[s].left # {}
  <2>1. PICK h \in seek[s].left, i \in Bridges :
            /\ mainEnd[i] = "none" \/ (mainEnd[i] = "over" /\ farEnd[i] = "gone")
            /\ mainEnd' = [mainEnd EXCEPT ![i] = "dialing"]
            /\ farEnd' = [farEnd EXCEPT ![i] = "none"]
            /\ placed' = [placed EXCEPT ![i] = [at |-> h, of |-> s]]
            /\ seek' = [seek EXCEPT ![s].left = @ \ {h}, ![s].bridge = i]
    BY <1>2 DEF TriesNext
  <2>2. UNCHANGED <<files, departing, mishaps>>
    BY DEF TriesNext
  <2>3. h \in BridgeHosts
    BY DEF BridgeTypeOK
  <2>4. BridgeTypeOK'
    <3>1. /\ mainEnd' \in [Bridges -> {"none", "dialing", "ready", "used", "over"}]
          /\ farEnd' \in [Bridges -> {"none", "starting", "ready", "closing", "gone"}]
      BY <2>1 DEF BridgeTypeOK
    <3>2. placed' \in [Bridges -> [at : BridgeHosts \cup {NoHost}, of : Seekers \cup {NoSeeker}]]
      BY <2>1, <2>3 DEF BridgeTypeOK
    <3>3. seek' \in [Seekers -> [state : {"idle", "seeking", "have", "here"}, left : SUBSET BridgeHosts, bridge : Bridges \cup {NoBridge}]]
      <4>. DEFINE SeekRows == [state : {"idle", "seeking", "have", "here"}, left : SUBSET BridgeHosts, bridge : Bridges \cup {NoBridge}]
                  r == [seek[s] EXCEPT !.left = @ \ {h}, !.bridge = i]
      <4>1. seek \in [Seekers -> SeekRows] /\ seek[s] \in SeekRows
        BY DEF BridgeTypeOK
      <4>2. r \in SeekRows
        BY ONLY <4>1, i \in Bridges
      <4>3. seek' = [seek EXCEPT ![s] = r]
        BY ONLY <2>1, <4>1
      <4>. QED BY ONLY <4>1, <4>2, <4>3
    <3>. QED BY <2>2, <3>1, <3>2, <3>3 DEF BridgeTypeOK
  <2>5. farEnd[i] \notin Busy
    BY <2>1 DEF Undialled, Busy
  <2>6. Kept' /\ Undialled'
    BY <2>1, <2>2, <2>5 DEF BridgeTypeOK, Kept, Undialled, Busy
  <2>7. \A g \in BridgeHosts : On(g)' \subseteq On(g)
    BY <2>1 DEF BridgeTypeOK, On
  <2>. QED BY <2>4, <2>6, <2>7, NobodyAdmitted
<1>. QED BY <1>1, <1>2

LEMMA AdmitKeeps ==
    ASSUME BridgeInv, NEW i \in Bridges, Admits(i)
    PROVE  BridgeInv'
<1>. USE DEF BridgeInv
<1>. DEFINE h == placed[i].at
<1>1. /\ mainEnd[i] # "none" /\ farEnd[i] = "none" /\ UNCHANGED <<seek, mainEnd, placed, departing, mishaps>>
      /\ \/ farEnd' = [farEnd EXCEPT ![i] = "gone"] /\ files' = files
         \/ /\ Cardinality(On(h)) < Room \/ h \notin BridgeHosts
            /\ farEnd' = [farEnd EXCEPT ![i] = "starting"] /\ files' = files \cup {i}
  <2>1. h \in BridgeHosts => Cardinality(On(h)) \in Nat
    BY OnIsFinite
  <2>. QED BY <2>1, LinkedBridgeAssumption DEF Admits
<1>2. BridgeTypeOK' /\ Kept' /\ Undialled'
  BY <1>1 DEF BridgeTypeOK, Kept, Undialled, Busy
<1>3. ASSUME NEW g \in BridgeHosts PROVE Cardinality(On(g)') <= Room
  <2>1. IsFiniteSet(On(g)) /\ Cardinality(On(g)) \in Nat /\ Cardinality(On(g)) <= Room
    BY OnIsFinite DEF Roomy
  <2>2. CASE On(g)' \subseteq On(g)
    BY <2>1, <2>2, FS_Subset, FS_CardinalityType, LinkedBridgeAssumption
  <2>3. CASE ~(On(g)' \subseteq On(g))
    <3>1. g = h /\ Cardinality(On(h)) < Room /\ On(g)' = On(g) \cup {i} /\ i \notin On(g)
      BY <1>1, <2>3 DEF BridgeTypeOK, On
    <3>2. Cardinality(On(g)') = Cardinality(On(g)) + 1
      BY <2>1, <3>1, FS_AddElement
    <3>. QED BY <2>1, <3>1, <3>2, LinkedBridgeAssumption
  <2>. QED BY <2>2, <2>3
<1>. QED BY <1>2, <1>3 DEF Roomy

LEMMA BridgeStep == BridgeInv /\ [BridgeNext]_bridgeVars => BridgeInv'
<1>. SUFFICES ASSUME BridgeInv, [BridgeNext]_bridgeVars PROVE BridgeInv'
  OBVIOUS
<1>. USE DEF BridgeInv
<1>1. ASSUME NEW s \in Seekers, Seeks(s) PROVE BridgeInv'
  BY <1>1, FarStays DEF Seeks, BridgeTypeOK
<1>2. ASSUME NEW i \in Bridges, HearsReady(i) \/ Connected(i) \/ MainFails(i) \/ LetsGo(i) PROVE BridgeInv'
  <2>1. BridgeTypeOK' /\ UNCHANGED <<placed, farEnd, files>>
    <3>. DEFINE s == placed[i].of
                States == {"idle", "seeking", "have", "here"}
                SeekRows == [state : States, left : SUBSET BridgeHosts, bridge : Bridges \cup {NoBridge}]
    <3>1. /\ seek \in [Seekers -> SeekRows] /\ mainEnd \in [Bridges -> {"none", "dialing", "ready", "used", "over"}]
          /\ \A state \in States : [seek EXCEPT ![s].state = state] \in [Seekers -> SeekRows]
      BY DEF BridgeTypeOK
    <3>2. \A state \in States : [seek EXCEPT ![s].bridge = NoBridge, ![s].state = state] \in [Seekers -> SeekRows]
      BY <3>1
    <3>3. ASSUME Finish(i)
          PROVE  seek' \in [Seekers -> SeekRows] /\ mainEnd' \in [Bridges -> {"none", "dialing", "ready", "used", "over"}]
      <4>1. PICK state \in States : seek' = [seek EXCEPT ![s].bridge = NoBridge, ![s].state = state]
        BY <3>3 DEF Finish
      <4>2. mainEnd' = [mainEnd EXCEPT ![i] = "over"]
        BY <3>3 DEF Finish
      <4>. QED BY <3>1, <3>2, <4>1, <4>2
    <3>4. CASE HearsReady(i) \/ Connected(i)
      <4>1. seek' \in [Seekers -> SeekRows]
        BY <3>4, <3>1 DEF HearsReady, Connected
      <4>. QED BY <3>4, <4>1 DEF HearsReady, Connected, BridgeTypeOK
    <3>5. CASE MainFails(i) \/ LetsGo(i)
      <4>1. Finish(i) /\ UNCHANGED <<placed, farEnd, files, departing>> /\ (mishaps' = mishaps \/ Mishap)
        BY <3>5 DEF MainFails, LetsGo
      <4>2. mishaps' \in 0..MaxMishaps
        BY <4>1, LinkedBridgeAssumption DEF Mishap, BridgeTypeOK
      <4>. QED BY <3>3, <4>1, <4>2 DEF BridgeTypeOK
    <3>. QED BY <1>2, <3>4, <3>5
  <2>2. \A j \in Bridges : mainEnd'[j] = "none" => mainEnd[j] = "none"
    BY <1>2 DEF HearsReady, Connected, MainFails, LetsGo, Finish, BridgeTypeOK
  <2>. QED BY <2>1, <2>2, FarStays
<1>3. ASSUME NEW i \in Bridges, ChildStarts(i) \/ FarFails(i) \/ FarEnds(i) PROVE BridgeInv'
  <2>1. BridgeTypeOK' /\ UNCHANGED <<placed, mainEnd>>
    BY <1>3, LinkedBridgeAssumption DEF ChildStarts, FarFails, FarEnds, Mishap, BridgeTypeOK
  <2>2. Kept' /\ \A j \in Bridges : /\ farEnd'[j] \in Busy => farEnd[j] \in Busy
                                    /\ farEnd[j] = "none" => farEnd'[j] = "none"
    BY <1>3 DEF ChildStarts, FarFails, FarEnds, BridgeTypeOK, Kept, Busy
  <2>. QED BY <2>1, <2>2, FarMoves
<1>4. ASSUME NEW h \in BridgeHosts, WorkerCloses(h) PROVE BridgeInv'
  <2>1. BridgeTypeOK' /\ UNCHANGED <<placed, mainEnd>>
    BY <1>4, LinkedBridgeAssumption DEF WorkerCloses, Mishap, BridgeTypeOK
  <2>2. Kept' /\ \A j \in Bridges : /\ farEnd'[j] \in Busy => farEnd[j] \in Busy
                                    /\ farEnd[j] = "none" => farEnd'[j] = "none"
    BY <1>4 DEF WorkerCloses, On, Kept, Busy
  <2>. QED BY <2>1, <2>2, FarMoves
<1>5. ASSUME NEW h \in BridgeHosts, WorkerReturns(h) PROVE BridgeInv'
  BY <1>5, FarStays DEF WorkerReturns, BridgeTypeOK
<1>6. CASE UNCHANGED bridgeVars
  <2>1. BridgeTypeOK' /\ UNCHANGED <<placed, farEnd, files, mainEnd>>
    BY <1>6 DEF bridgeVars, BridgeTypeOK
  <2>. QED BY <2>1, FarStays
<1>. QED BY <1>1, <1>2, <1>3, <1>4, <1>5, <1>6, TryKeeps, AdmitKeeps DEF BridgeNext

LEMMA BridgeInvariant == BridgeSpec => []BridgeInv
  BY BridgeInitially, BridgeStep, PTL DEF BridgeSpec

\* Bindings, both ends of each bridge and the workers' directories keep their types.
THEOREM BridgeTypes == BridgeSpec => []BridgeTypeOK
<1>1. BridgeInv => BridgeTypeOK
  BY DEF BridgeInv
<1>. QED BY <1>1, BridgeInvariant, PTL

\* A worker never runs more bridges than it has room for, whatever the main instance believed when
\* it dialled, and a bridge that is over leaves no directory.
THEOREM BridgesAlwaysFit == BridgeSpec => []BridgesFit
<1>1. ASSUME BridgeInv PROVE BridgesFit
  <2>1. \A h \in BridgeHosts : {i \in files : placed[i].at = h} = On(h)
    BY <1>1 DEF BridgeInv, BridgeTypeOK, Kept, Busy, On
  <2>2. \A i \in files : farEnd[i] # "gone"
    BY <1>1 DEF BridgeInv, BridgeTypeOK, Kept, Busy
  <2>. QED BY <1>1, <2>1, <2>2 DEF BridgeInv, Roomy, BridgesFit
<1>. QED BY <1>1, BridgeInvariant, PTL

---------------------------------------------------------------------------
(* The CDP endpoint.  EndpointAgrees speaks of a quiet link, or of what is *)
(* on the link at all; the invariant says in turn what the server will     *)
(* have come to know as it hears each message there: of tabs whose domain  *)
(* is on (AllNoted), and of the frames Chrome has (Link).  On the server's *)
(* own side (ServerInv) it says under which session a client hears of a    *)
(* frame, and that a name is never another session's while a command of    *)
(* its bearer is about (AskersFit).                                        *)


\* What turns a tab's domain off, or notes that it is on, once the server hears it.
TurnsOff(e, t) == \/ e.m = "unshared" /\ e.tab = t
                  \/ e.m = "answer" /\ e.ok /\ e.to.tab = t /\ e.to.what = "disable"
TurnsOn(e, t)  == Waits(e) /\ e.ok /\ e.to.tab = t /\ e.to.what = "enable"
Noted(t, E, q, a) ==
    \/ \E i \in DOMAIN q : TurnsOn(q[i], t) /\ \A j \in DOMAIN q : j > i => ~TurnsOff(q[j], t)
    \/ t \in E /\ \A j \in DOMAIN q : ~TurnsOff(q[j], t)
    \/ \E i \in DOMAIN a : a[i].tab = t /\ a[i].what = "disable"
AllNoted == \A t \in on \ overdue : Noted(t, enabled, tell, ask)

\* An asker, while its session is there, asked about that session's tab.
Fits(a, S) == a.of \in Clients => \A i \in DOMAIN S[a.of] : S[a.of][i].id = a.id => S[a.of][i].tab = a.tab
AskersFit == /\ \A i \in DOMAIN ask : Fits(ask[i], sessions)
             /\ \A i \in DOMAIN tell : tell[i].m = "answer" => Fits(tell[i].to, sessions)
IdsApart(s) == \A i, j \in DOMAIN s : s[i].id = s[j].id => i = j
Apart == \A c \in Clients : IdsApart(sessions[c])

\* Frames Chrome has and the server was or will be told of; frames Chrome has.
Live == {x \in CdpTabs \X Kids : kid[x[2]] = x[1] /\ met[x[2]] \in {"handed", "told"}}
Bound == {k \in Kids : kid[k] # NoTab}
Frame(e) == e.m \in {"attached", "detached"}
Drops(e, x) == (e.m = "detached" /\ e.tab = x[1] /\ e.kid = x[2]) \/ (e.m = "unshared" /\ e.tab = x[1])
Empties(e) == e.m = "answer" /\ e.ok /\ e.to.what = "autoOff"

InTurn(q, B) == \A i \in DOMAIN q : Frame(q[i]) =>
    /\ q[i].m = "detached" => q[i].kid \notin B
    /\ \A j \in DOMAIN q : i < j /\ Frame(q[j]) /\ q[i].kid = q[j].kid => q[i].m = "attached" /\ q[j].m = "detached"
ToldStands(q, C, L) == \A x \in C : x \in L \/ \E j \in DOMAIN q : Drops(q[j], x)
NewsStands(q, C, L) == \A i \in DOMAIN q : q[i].m = "attached" =>
    /\ \/ <<q[i].tab, q[i].kid>> \in L
       \/ \E j \in DOMAIN q : j > i /\ Drops(q[j], <<q[i].tab, q[i].kid>>)
    /\ \A x \in C : x[2] = q[i].kid => \E j \in DOMAIN q : j < i /\ q[j].m = "unshared" /\ q[j].tab = x[1]
OneTabEach(C) == \A x, y \in C : x[2] = y[2] => x = y
OffEmpties(q, C) == \A i \in DOMAIN q : Empties(q[i]) =>
    /\ \A x \in C : x[1] = q[i].to.tab => \E j \in DOMAIN q : j < i /\ Drops(q[j], x)
    /\ \A l \in DOMAIN q : l < i /\ q[l].m = "attached" /\ q[l].tab = q[i].to.tab =>
          \E j \in DOMAIN q : l < j /\ j < i /\ Drops(q[j], <<q[l].tab, q[l].kid>>)
Link(q, C, L, B) == InTurn(q, B) /\ ToldStands(q, C, L) /\ NewsStands(q, C, L) /\ OneTabEach(C) /\ OffEmpties(q, C)
Met == \A k \in Kids : met[k] = "no" <=> kid[k] = NoTab

Hears(h, S, C) == \E i \in DOMAIN S[h[1]] : LET r == S[h[1]][i] IN
    r.id = h[2] /\ r.level = "page" /\ r.children /\ <<r.tab, h[3]>> \in C
Once(H) == \A g, h \in H : g[1] = h[1] /\ g[3] = h[3] => g = h
Heard == (\A h \in heard : Hears(h, sessions, children)) /\ Once(heard)
Ending == closed => heard = {} /\ \A c \in Clients : front[c] = "gone"
Gone == \A c \in Clients : front[c] = "gone" => sessions[c] = <<>>
ServerInv == AskersFit /\ Apart /\ Heard /\ Ending /\ Gone
ChromeInv == Met /\ (~closed => AllNoted /\ Link(tell, children, Live, Bound))
CdpInv == CdpTypeOK /\ ServerInv /\ ChromeInv

---------------------------------------------------------------------------
(* Sequences. *)

LEMMA UpTo ==
    ASSUME NEW m \in Nat, NEW S, 0 \in S, \A n \in 0..(m - 1) : n \in S => n + 1 \in S
    PROVE  \A n \in 0..m : n \in S
<1>. DEFINE Left == {n \in 0..m : n \notin S}
<1>1. ASSUME Left # {} PROVE FALSE
  <2>1. Left \in SUBSET Nat
    OBVIOUS
  <2>2. \E n \in Left : \A i \in Left : ~(<<i, n>> \in OpToRel(<, Nat))
    BY <1>1, <2>1, WFMin, NatLessThanWellFounded
  <2>3. PICK n \in Left : \A i \in Left : ~(<<i, n>> \in OpToRel(<, Nat))
    BY <2>2
  <2>. n \in 0..m /\ n \notin S
    BY <2>3
  <2>. HIDE DEF Left
  <2>4. n # 0 /\ n - 1 \in 0..(m - 1) /\ n - 1 \in 0..m /\ n \in Nat
    OBVIOUS
  <2>. USE DEF Left
  <2>5. n - 1 \in Left
    <3>1. n - 1 \notin S
      <4>1. ASSUME n - 1 \in S PROVE FALSE
        <5>1. (n - 1) + 1 \in S
          BY <2>4, <4>1
        <5>2. (n - 1) + 1 = n
          BY <2>4
        <5>. QED BY <2>3, <5>1, <5>2
      <4>. QED BY <4>1
    <3>. QED BY <2>4, <3>1
  <2>6. <<n - 1, n>> \in OpToRel(<, Nat)
    <3>1. n - 1 \in Nat /\ n \in Nat /\ n - 1 < n
      BY <2>4
    <3>. QED BY <3>1 DEF OpToRel
  <2>. QED BY <2>3, <2>5, <2>6
<1>. QED BY <1>1

\* What Without is: the last of these, which begin with nothing and take up what is not deleted.
Strikes(F, s, D) ==
    F[0] = <<>> /\ \A n \in 1..Len(s) : F[n] = IF s[n] \in D THEN F[n - 1] ELSE Append(F[n - 1], s[n])

LEMMA WithoutIs ==
    ASSUME NEW s \in Seq(Rows), NEW D
    PROVE  \E F : Strikes(F, s, D) /\ Without(s, D) = F[Len(s)]
<1>. DEFINE Next1(F, n) == IF s[n] \in D THEN F[n - 1] ELSE Append(F[n - 1], s[n])
            Left(F) == F = [n \in 0..Len(s) |-> IF n = 0 THEN <<>>
                                                ELSE IF s[n] \in D THEN F[n - 1] ELSE Append(F[n - 1], s[n])]
            Begun == {n \in 0..Len(s) : \E F : F[0] = <<>> /\ \A i \in 1..n : F[i] = Next1(F, i)}
<1>1. Len(s) \in Nat
  OBVIOUS
<1>2. 0 \in Begun
  <2>. DEFINE F == [i \in 0..Len(s) |-> <<>>]
  <2>1. F[0] = <<>> /\ \A i \in 1..0 : F[i] = Next1(F, i)
    BY <1>1
  <2>2. 0 \in 0..Len(s)
    BY <1>1
  <2>. QED BY <2>1, <2>2
<1>3. ASSUME NEW n \in 0..(Len(s) - 1), n \in Begun PROVE n + 1 \in Begun
  <2>1. PICK F : F[0] = <<>> /\ \A i \in 1..n : F[i] = Next1(F, i)
    BY <1>3
  <2>. DEFINE G == [i \in 0..Len(s) |-> IF i = n + 1 THEN Next1(F, n + 1) ELSE F[i]]
  <2>2. n \in 0..Len(s) /\ n + 1 \in 0..Len(s) /\ 0 \in 0..Len(s) /\ n + 1 # 0 /\ (n + 1) - 1 = n /\ n # n + 1
    BY <1>1, <1>3
  <2>3. G[0] = <<>> /\ G[n + 1] = Next1(F, n + 1) /\ G[n] = F[n]
    BY <2>1, <2>2
  <2>4. \A i \in 1..n : G[i] = F[i] /\ G[i - 1] = F[i - 1]
    <3>1. \A i \in 1..n : i \in 0..Len(s) /\ i - 1 \in 0..Len(s) /\ i # n + 1 /\ i - 1 # n + 1
      BY <1>1, <1>3
    <3>. QED BY <3>1
  <2>. HIDE DEF G
  <2>5. \A i \in 1..(n + 1) : G[i] = Next1(G, i)
    <3>1. G[n + 1] = Next1(G, n + 1)
      BY <2>2, <2>3
    <3>2. \A i \in 1..n : G[i] = Next1(G, i)
      BY <2>1, <2>4
    <3>3. \A i \in 1..(n + 1) : i \in 1..n \/ i = n + 1
      BY <1>3
    <3>. QED BY <3>1, <3>2, <3>3
  <2>. HIDE DEF Next1
  <2>. QED BY <2>2, <2>3, <2>5
<1>4. Len(s) \in Begun
  <2>1. Len(s) \in 0..Len(s)
    BY <1>1
  <2>. HIDE DEF Begun
  <2>2. \A n \in 0..Len(s) : n \in Begun
    BY <1>1, <1>2, <1>3, UpTo
  <2>. QED BY <2>1, <2>2
<1>5. \E F : Left(F)
  <2>1. PICK F : F[0] = <<>> /\ \A i \in 1..Len(s) : F[i] = Next1(F, i)
    BY <1>4
  <2>. DEFINE G == [i \in 0..Len(s) |-> F[i]]
  <2>2. \A i \in 0..Len(s) : i # 0 => i \in 1..Len(s) /\ i - 1 \in 0..Len(s)
    BY <1>1
  <2>3. Left(G)
    BY <2>1, <2>2
  <2>. QED BY <2>3
<1>. DEFINE F == CHOOSE f : Left(f)
<1>6. Left(F)
  BY <1>5
<1>7. Without(s, D) = F[Len(s)]
  BY DEF Without
<1>. HIDE DEF F
<1>8. \A n \in 1..Len(s) : n \in 0..Len(s) /\ n # 0
  BY <1>1
<1>9. F[0] = <<>> /\ \A n \in 1..Len(s) : F[n] = Next1(F, n)
  <2>1. 0 \in 0..Len(s)
    BY <1>1
  <2>. QED BY <1>6, <1>8, <2>1
<1>10. Strikes(F, s, D)
  BY <1>9 DEF Strikes
<1>. QED BY ONLY <1>7, <1>10

\* What is left are the sessions that were not deleted, each once.
LEMMA WithoutLeaves ==
    ASSUME NEW s \in Seq(Rows), NEW D
    PROVE  /\ Without(s, D) \in Seq(Rows)
           /\ \A i \in DOMAIN Without(s, D) : \E j \in DOMAIN s : Without(s, D)[i] = s[j] /\ s[j] \notin D
           /\ \A j \in DOMAIN s : s[j] \notin D => \E i \in DOMAIN Without(s, D) : Without(s, D)[i] = s[j]
           /\ IdsApart(s) => IdsApart(Without(s, D))
<1>0. PICK F : Strikes(F, s, D) /\ Without(s, D) = F[Len(s)]
  <2>1. s \in Seq(Rows)
    OBVIOUS
  <2>. QED BY ONLY <2>1, WithoutIs
<1>1. /\ F[0] = <<>> /\ Without(s, D) = F[Len(s)]
      /\ \A n \in 1..Len(s) : F[n] = IF s[n] \in D THEN F[n - 1] ELSE Append(F[n - 1], s[n])
  BY ONLY <1>0 DEF Strikes
<1>. DEFINE Good(n) == /\ F[n] \in Seq(Rows)
                       /\ \A i \in 1..Len(F[n]) : \E j \in 1..n : F[n][i] = s[j] /\ s[j] \notin D
                       /\ \A j \in 1..n : s[j] \notin D => \E i \in 1..Len(F[n]) : F[n][i] = s[j]
                       /\ IdsApart(s) => \A i, j \in 1..Len(F[n]) : F[n][i].id = F[n][j].id => i = j
            Numbers == {n \in 0..Len(s) : Good(n)}
<1>2. Len(s) \in Nat /\ DOMAIN s = 1..Len(s)
  OBVIOUS
<1>3. 0 \in Numbers
  <2>1. F[0] = <<>> /\ 0 \in 0..Len(s)
    BY <1>1, <1>2
  <2>2. <<>> \in Seq(Rows) /\ Len(<<>>) = 0
    OBVIOUS
  <2>3. F[0] \in Seq(Rows) /\ Len(F[0]) = 0
    BY <2>1, <2>2
  <2>4. Good(0)
    BY <2>3
  <2>. QED BY <2>1, <2>4
<1>4. ASSUME NEW n \in 0..(Len(s) - 1), n \in Numbers PROVE n + 1 \in Numbers
  <2>1. n + 1 \in 1..Len(s) /\ n + 1 \in 0..Len(s) /\ (n + 1) - 1 = n /\ s[n + 1] \in Rows
    BY <1>2, <1>4
  <2>2. Good(n)
    BY <1>4
  <2>3. CASE s[n + 1] \in D
    <3>1. F[n + 1] = F[n]
      BY <1>1, <2>1, <2>3
    <3>2. \A j \in 1..(n + 1) : j \in 1..n \/ j = n + 1
      BY <1>4
    <3>3. \A j \in 1..n : j \in 1..(n + 1)
      BY <1>4
    <3>. QED BY <2>1, <2>2, <2>3, <3>1, <3>2, <3>3
  <2>4. CASE s[n + 1] \notin D
    <3>1. F[n + 1] = Append(F[n], s[n + 1])
      BY <1>1, <2>1, <2>4
    <3>. DEFINE l == Len(F[n])
    <3>2. /\ F[n + 1] \in Seq(Rows) /\ Len(F[n + 1]) = l + 1 /\ l \in Nat /\ F[n + 1][l + 1] = s[n + 1]
          /\ \A i \in 1..l : F[n + 1][i] = F[n][i]
      BY <2>1, <2>2, <3>1, AppendProperties
    <3>3. /\ \A i \in 1..(l + 1) : i \in 1..l \/ i = l + 1
          /\ \A j \in 1..(n + 1) : j \in 1..n \/ j = n + 1
          /\ \A i \in 1..l : i \in 1..(l + 1)
          /\ \A j \in 1..n : j \in 1..(n + 1) /\ j # n + 1 /\ j \in 1..Len(s)
          /\ l + 1 \in 1..(l + 1) /\ n + 1 \in 1..(n + 1)
      BY <1>2, <1>4, <3>2
    <3>. HIDE DEF l
    <3>8. /\ \A i \in 1..l : \E j \in 1..n : F[n][i] = s[j] /\ s[j] \notin D
          /\ \A j \in 1..n : s[j] \notin D => \E i \in 1..l : F[n][i] = s[j]
          /\ IdsApart(s) => \A i, j \in 1..l : F[n][i].id = F[n][j].id => i = j
      BY ONLY <2>2 DEF l
    <3>4. \A i \in 1..(l + 1) : \E j \in 1..(n + 1) : F[n + 1][i] = s[j] /\ s[j] \notin D
      <4>1. ASSUME NEW i \in 1..l PROVE \E j \in 1..(n + 1) : F[n + 1][i] = s[j] /\ s[j] \notin D
        BY ONLY <3>2, <3>3, <3>8, <4>1
      <4>2. F[n + 1][l + 1] = s[n + 1] /\ s[n + 1] \notin D /\ n + 1 \in 1..(n + 1)
        BY ONLY <2>4, <3>2, <3>3
      <4>. QED BY ONLY <3>3, <4>1, <4>2
    <3>5. \A j \in 1..(n + 1) : s[j] \notin D => \E i \in 1..(l + 1) : F[n + 1][i] = s[j]
      <4>1. ASSUME NEW j \in 1..n, s[j] \notin D PROVE \E i \in 1..(l + 1) : F[n + 1][i] = s[j]
        BY ONLY <3>2, <3>3, <3>8, <4>1
      <4>2. F[n + 1][l + 1] = s[n + 1] /\ l + 1 \in 1..(l + 1)
        BY ONLY <3>2, <3>3
      <4>. QED BY ONLY <3>3, <4>1, <4>2
    <3>6. ASSUME IdsApart(s), NEW i \in 1..l PROVE F[n + 1][i].id # F[n + 1][l + 1].id
      <4>1. PICK j \in 1..n : F[n][i] = s[j]
        BY ONLY <3>6, <3>8
      <4>. QED BY ONLY <1>2, <2>1, <3>2, <3>3, <3>6, <4>1 DEF IdsApart
    <3>7. IdsApart(s) => \A i, j \in 1..(l + 1) : F[n + 1][i].id = F[n + 1][j].id => i = j
      BY ONLY <3>2, <3>3, <3>6, <3>8
    <3>. QED BY <2>1, <3>2, <3>4, <3>5, <3>7
  <2>. QED BY <2>3, <2>4
<1>5. Good(Len(s))
  <2>1. Len(s) \in Numbers
    <3>1. Len(s) \in 0..Len(s)
      BY <1>2
    <3>. HIDE DEF Numbers
    <3>2. \A n \in 0..Len(s) : n \in Numbers
      BY <1>2, <1>3, <1>4, UpTo
    <3>. QED BY <3>1, <3>2
  <2>. QED BY <2>1
<1>. DEFINE w == Without(s, D)
<1>6. Good(Len(s)) /\ w = F[Len(s)]
  BY <1>1, <1>5
<1>7. w \in Seq(Rows) /\ DOMAIN w = 1..Len(w)
  BY <1>6
<1>. HIDE DEF w
<1>8. /\ \A i \in DOMAIN w : \E j \in DOMAIN s : w[i] = s[j] /\ s[j] \notin D
      /\ \A j \in DOMAIN s : s[j] \notin D => \E i \in DOMAIN w : w[i] = s[j]
      /\ IdsApart(s) => \A i, j \in DOMAIN w : w[i].id = w[j].id => i = j
  BY <1>2, <1>6, <1>7
<1>9. IdsApart(s) => IdsApart(w)
  BY <1>8 DEF IdsApart
<1>. QED BY <1>7, <1>8, <1>9 DEF w

\* p is q with these messages after it.
Grown(q, p, N) ==
    /\ DOMAIN q \subseteq DOMAIN p /\ DOMAIN p \subseteq Nat
    /\ \A i \in DOMAIN q : p[i] = q[i]
    /\ \A i \in DOMAIN q : \A j \in DOMAIN p \ DOMAIN q : i < j
    /\ \A j \in DOMAIN p \ DOMAIN q : p[j] \in N
    /\ \A e \in N : \E j \in DOMAIN p \ DOMAIN q : p[j] = e

LEMMA ConcatGrows ==
    ASSUME NEW S, NEW q \in Seq(S), NEW d \in Seq(S)
    PROVE  /\ q \o d \in Seq(S) /\ Grown(q, q \o d, {d[i] : i \in DOMAIN d})
           /\ \A i \in DOMAIN (q \o d) \ DOMAIN q : i - Len(q) \in DOMAIN d /\ (q \o d)[i] = d[i - Len(q)]
<1>. DEFINE p == q \o d
<1>1. /\ p \in Seq(S) /\ Len(p) = Len(q) + Len(d) /\ Len(q) \in Nat /\ Len(d) \in Nat
      /\ DOMAIN p = 1..(Len(q) + Len(d)) /\ DOMAIN q = 1..Len(q) /\ DOMAIN d = 1..Len(d)
  BY ConcatProperties
<1>2. /\ \A i \in DOMAIN q : i \in DOMAIN p /\ p[i] = q[i]
      /\ \A i \in DOMAIN p \ DOMAIN q : i - Len(q) \in DOMAIN d /\ p[i] = d[i - Len(q)]
      /\ \A i \in DOMAIN d : i + Len(q) \in DOMAIN p \ DOMAIN q /\ p[i + Len(q)] = d[i]
  BY <1>1, ConcatProperties
<1>3. \A i \in DOMAIN q : \A j \in DOMAIN p \ DOMAIN q : i < j
  BY <1>1
<1>. HIDE DEF p
<1>4. DOMAIN p \subseteq Nat /\ DOMAIN q \subseteq DOMAIN p
  BY <1>1, <1>2
<1>5. \A e \in {d[i] : i \in DOMAIN d} : \E j \in DOMAIN p \ DOMAIN q : p[j] = e
  BY <1>2
<1>6. \A j \in DOMAIN p \ DOMAIN q : p[j] \in {d[i] : i \in DOMAIN d}
  BY <1>2
<1>7. Grown(q, p, {d[i] : i \in DOMAIN d})
  BY <1>2, <1>3, <1>4, <1>5, <1>6 DEF Grown
<1>. QED BY <1>1, <1>2, <1>7 DEF p

LEMMA AppendGrows ==
    ASSUME NEW S, NEW q \in Seq(S), NEW e \in S
    PROVE  /\ Append(q, e) \in Seq(S) /\ Grown(q, Append(q, e), {e})
           /\ DOMAIN Append(q, e) \ DOMAIN q = {Len(q) + 1}
<1>. DEFINE p == Append(q, e)
<1>1. /\ p \in Seq(S) /\ Len(q) \in Nat /\ DOMAIN p = 1..(Len(q) + 1) /\ DOMAIN q = 1..Len(q)
      /\ p[Len(q) + 1] = e /\ \A i \in 1..Len(q) : p[i] = q[i]
  BY AppendProperties
<1>. HIDE DEF p
<1>2. DOMAIN p \ DOMAIN q = {Len(q) + 1} /\ DOMAIN q \subseteq DOMAIN p /\ DOMAIN p \subseteq Nat
      /\ \A i \in DOMAIN q : i < Len(q) + 1
  BY <1>1
<1>3. Grown(q, p, {e})
  BY <1>1, <1>2 DEF Grown
<1>. QED BY <1>1, <1>2, <1>3 DEF p

\* p is q without its first message.
LEMMA TailIs ==
    ASSUME NEW S, NEW q \in Seq(S), q # <<>>
    PROVE  /\ Tail(q) \in Seq(S) /\ Head(q) \in S /\ 1 \in DOMAIN q /\ q[1] = Head(q)
           /\ DOMAIN q \subseteq Nat \ {0}
           /\ \A i \in DOMAIN Tail(q) : i + 1 \in DOMAIN q /\ Tail(q)[i] = q[i + 1]
           /\ \A i \in DOMAIN q : i # 1 => i - 1 \in DOMAIN Tail(q) /\ Tail(q)[i - 1] = q[i]
<1>1. /\ Len(q) \in Nat /\ Len(q) # 0 /\ DOMAIN q = 1..Len(q) /\ Head(q) = q[1] /\ Tail(q) \in Seq(S)
      /\ Len(Tail(q)) = Len(q) - 1 /\ \A i \in 1..(Len(q) - 1) : Tail(q)[i] = q[i + 1]
  BY EmptySeq, HeadTailProperties
<1>2. DOMAIN Tail(q) = 1..(Len(q) - 1)
  BY <1>1
<1>3. \A i \in DOMAIN Tail(q) : i + 1 \in DOMAIN q /\ Tail(q)[i] = q[i + 1]
  BY <1>1, <1>2
<1>4. \A i \in DOMAIN q : i # 1 => i - 1 \in DOMAIN Tail(q) /\ Tail(q)[i - 1] = q[i]
  <2>1. ASSUME NEW i \in 1..Len(q), i # 1
        PROVE  i - 1 \in 1..(Len(q) - 1) /\ (i - 1) + 1 = i
    BY <1>1, <2>1
  <2>. QED BY <1>1, <1>2, <2>1
<1>5. 1 \in DOMAIN q /\ q[1] \in S /\ DOMAIN q \subseteq Nat \ {0}
  BY <1>1
<1>. QED BY <1>1, <1>3, <1>4, <1>5

---------------------------------------------------------------------------
(* The link, as data: q the messages to the server, C what it was told of, *)
(* L the frames it was or will be told of, B those Chrome has.             *)

\* What comes after loses frames, and says so.
LEMMA LinkGrows ==
    ASSUME NEW q, NEW p, NEW N, Grown(q, p, N), NEW C, NEW L, NEW L2, NEW B, NEW B2,
           Link(q, C, L, B), L2 \subseteq L, B2 \subseteq B, \A x \in L : x[2] \in B /\ x = <<x[1], x[2]>>,
           \A x \in L \ L2 : \E e \in N : Drops(e, x),
           \A e \in N : Frame(e) => e.m = "detached" /\ <<e.tab, e.kid>> \in L /\ e.kid \notin B2,
           \A i, j \in DOMAIN p \ DOMAIN q : Frame(p[i]) /\ Frame(p[j]) /\ p[i].kid = p[j].kid => i = j,
           \A e \in N : Empties(e) => \A x \in L : x[1] # e.to.tab
    PROVE  Link(p, C, L2, B2)
<1>. DEFINE Old == DOMAIN q
            New == DOMAIN p \ DOMAIN q
<1>1. /\ \A i \in DOMAIN p : i \in Old \/ i \in New
      /\ \A i \in Old : i \in DOMAIN p /\ p[i] = q[i]
      /\ \A i \in Old : \A j \in New : i < j
      /\ \A j \in New : p[j] \in N
      /\ \A e \in N : \E j \in New : p[j] = e
      /\ \A i \in New : i \in DOMAIN p
      /\ DOMAIN p \subseteq Nat
  BY DEF Grown
<1>. HIDE DEF Old, New
<1>2. InTurn(p, B2)
  <2>. SUFFICES ASSUME NEW i \in DOMAIN p, Frame(p[i])
                PROVE  /\ p[i].m = "detached" => p[i].kid \notin B2
                       /\ \A j \in DOMAIN p : i < j /\ Frame(p[j]) /\ p[i].kid = p[j].kid
                                              => p[i].m = "attached" /\ p[j].m = "detached"
    BY DEF InTurn
  <2>1. CASE i \in Old
    <3>1. /\ p[i].m = "detached" => p[i].kid \notin B
          /\ \A j \in Old : i < j /\ Frame(q[j]) /\ q[i].kid = q[j].kid => q[i].m = "attached" /\ q[j].m = "detached"
      BY <1>1, <2>1 DEF Link, InTurn, Old
    <3>2. ASSUME NEW j \in New, Frame(p[j]), p[i].kid = p[j].kid PROVE p[i].m = "attached" /\ p[j].m = "detached"
      <4>1. p[j].m = "detached" /\ <<p[j].tab, p[j].kid>> \in L
        BY <1>1, <3>2
      <4>2. p[j].kid \in B
        BY <4>1
      <4>. QED BY <3>1, <3>2, <4>1, <4>2 DEF Frame
    <3>. QED BY <1>1, <2>1, <3>1, <3>2
  <2>2. CASE i \in New
    <3>1. ASSUME NEW j \in DOMAIN p, i < j, Frame(p[j]), p[i].kid = p[j].kid PROVE FALSE
      <4>1. CASE j \in Old
        <5>1. j < i /\ i \in Nat /\ j \in Nat
          BY <1>1, <2>2, <4>1
        <5>. QED BY <3>1, <5>1
      <4>2. CASE j \in New
        <5>1. i = j /\ i \in Nat
          BY <1>1, <2>2, <3>1, <4>2 DEF New
        <5>. QED BY <3>1, <5>1
      <4>. QED BY <1>1, <4>1, <4>2
    <3>. QED BY <1>1, <2>2, <3>1
  <2>. QED BY <1>1, <2>1, <2>2
<1>3. ToldStands(p, C, L2)
  <2>. SUFFICES ASSUME NEW x \in C PROVE x \in L2 \/ \E j \in DOMAIN p : Drops(p[j], x)
    BY DEF ToldStands
  <2>1. x \in L \/ \E j \in Old : Drops(q[j], x)
    BY DEF Link, ToldStands, Old
  <2>. QED BY <1>1, <2>1
<1>4. NewsStands(p, C, L2)
  <2>. SUFFICES ASSUME NEW i \in DOMAIN p, p[i].m = "attached"
                PROVE  /\ \/ <<p[i].tab, p[i].kid>> \in L2
                          \/ \E j \in DOMAIN p : j > i /\ Drops(p[j], <<p[i].tab, p[i].kid>>)
                       /\ \A x \in C : x[2] = p[i].kid =>
                             \E j \in DOMAIN p : j < i /\ p[j].m = "unshared" /\ p[j].tab = x[1]
    BY DEF NewsStands
  <2>1. i \in Old
    BY <1>1 DEF Frame
  <2>2. /\ \/ <<q[i].tab, q[i].kid>> \in L
           \/ \E j \in Old : j > i /\ Drops(q[j], <<q[i].tab, q[i].kid>>)
        /\ \A x \in C : x[2] = q[i].kid => \E j \in Old : j < i /\ q[j].m = "unshared" /\ q[j].tab = x[1]
    BY <1>1, <2>1 DEF Link, NewsStands, Old
  <2>3. ASSUME <<p[i].tab, p[i].kid>> \in L \ L2
        PROVE  \E j \in DOMAIN p : j > i /\ Drops(p[j], <<p[i].tab, p[i].kid>>)
    <3>1. PICK j \in New : Drops(p[j], <<p[i].tab, p[i].kid>>)
      BY <1>1, <2>3
    <3>2. i \in Nat /\ j \in Nat /\ i < j
      BY <1>1, <2>1, <3>1
    <3>. QED BY <1>1, <3>1, <3>2
  <2>. QED BY <1>1, <2>1, <2>2, <2>3
<1>5. OffEmpties(p, C)
  <2>. SUFFICES ASSUME NEW i \in DOMAIN p, Empties(p[i])
                PROVE  /\ \A x \in C : x[1] = p[i].to.tab => \E j \in DOMAIN p : j < i /\ Drops(p[j], x)
                       /\ \A l \in DOMAIN p : l < i /\ p[l].m = "attached" /\ p[l].tab = p[i].to.tab =>
                             \E j \in DOMAIN p : l < j /\ j < i /\ Drops(p[j], <<p[l].tab, p[l].kid>>)
    BY DEF OffEmpties
  <2>1. CASE i \in Old
    <3>1. /\ \A x \in C : x[1] = q[i].to.tab => \E j \in Old : j < i /\ Drops(q[j], x)
          /\ \A l \in Old : l < i /\ q[l].m = "attached" /\ q[l].tab = q[i].to.tab =>
                \E j \in Old : l < j /\ j < i /\ Drops(q[j], <<q[l].tab, q[l].kid>>)
      BY <1>1, <2>1 DEF Link, OffEmpties, Old
    <3>2. \A l \in New : ~(l < i)
      BY <1>1, <2>1
    <3>. QED BY <1>1, <2>1, <3>1, <3>2
  <2>2. CASE i \in New
    <3>1. \A x \in L : x[1] # p[i].to.tab
      BY <1>1, <2>2
    <3>2. ASSUME NEW x \in C, x[1] = p[i].to.tab PROVE \E j \in DOMAIN p : j < i /\ Drops(p[j], x)
      <4>1. PICK j \in Old : Drops(q[j], x)
        BY <3>1, <3>2 DEF Link, ToldStands, Old
      <4>. QED BY <1>1, <2>2, <4>1
    <3>3. ASSUME NEW l \in DOMAIN p, l < i, p[l].m = "attached", p[l].tab = p[i].to.tab
          PROVE  \E j \in DOMAIN p : l < j /\ j < i /\ Drops(p[j], <<p[l].tab, p[l].kid>>)
      <4>1. l \in Old
        BY <1>1, <3>3 DEF Frame
      <4>2. <<p[l].tab, p[l].kid>> \notin L
        BY <3>1, <3>3
      <4>3. PICK j \in Old : j > l /\ Drops(q[j], <<q[l].tab, q[l].kid>>)
        BY <1>1, <3>3, <4>1, <4>2 DEF Link, NewsStands, Old
      <4>. QED BY <1>1, <2>2, <4>1, <4>3
    <3>. QED BY <3>2, <3>3
  <2>. QED BY <1>1, <2>1, <2>2
<1>. QED BY <1>2, <1>3, <1>4, <1>5 DEF Link

\* A frame the server has not heard of comes.
LEMMA LinkComes ==
    ASSUME NEW q, NEW p, NEW e, Grown(q, p, {e}), NEW C, NEW L, NEW B, Link(q, C, L, B), e.m = "attached",
           \A i, j \in DOMAIN p \ DOMAIN q : i = j,
           e.kid \notin B, \A x \in L : x[2] \in B, \A i \in DOMAIN q : Frame(q[i]) => q[i].kid # e.kid
    PROVE  Link(p, C, L \cup {<<e.tab, e.kid>>}, B \cup {e.kid})
<1>. DEFINE Old == DOMAIN q
            New == DOMAIN p \ DOMAIN q
            L2 == L \cup {<<e.tab, e.kid>>}
<1>1. /\ \A i \in DOMAIN p : i \in Old \/ i \in New
      /\ \A i \in Old : i \in DOMAIN p /\ p[i] = q[i]
      /\ \A i \in Old : \A j \in New : i < j
      /\ \A j \in New : p[j] = e
      /\ \A i \in New : i \in DOMAIN p
      /\ \A i, j \in New : i = j
      /\ DOMAIN p \subseteq Nat
  BY DEF Grown
<1>. HIDE DEF Old, New
<1>2. InTurn(p, B \cup {e.kid})
  <2>. SUFFICES ASSUME NEW i \in DOMAIN p, Frame(p[i])
                PROVE  /\ p[i].m = "detached" => p[i].kid \notin B \cup {e.kid}
                       /\ \A j \in DOMAIN p : i < j /\ Frame(p[j]) /\ p[i].kid = p[j].kid
                                              => p[i].m = "attached" /\ p[j].m = "detached"
    BY DEF InTurn
  <2>1. CASE i \in Old
    BY <1>1, <2>1 DEF Link, InTurn, Old
  <2>2. CASE i \in New
    <3>1. \A j \in DOMAIN p : ~(i < j)
      BY <1>1, <2>2
    <3>. QED BY <1>1, <2>2, <3>1
  <2>. QED BY <1>1, <2>1, <2>2
<1>3. ToldStands(p, C, L2)
  BY <1>1 DEF Link, ToldStands, Old
<1>4. NewsStands(p, C, L2)
  <2>. SUFFICES ASSUME NEW i \in DOMAIN p, p[i].m = "attached"
                PROVE  /\ \/ <<p[i].tab, p[i].kid>> \in L2
                          \/ \E j \in DOMAIN p : j > i /\ Drops(p[j], <<p[i].tab, p[i].kid>>)
                       /\ \A x \in C : x[2] = p[i].kid =>
                             \E j \in DOMAIN p : j < i /\ p[j].m = "unshared" /\ p[j].tab = x[1]
    BY DEF NewsStands
  <2>1. CASE i \in Old
    BY <1>1, <2>1 DEF Link, NewsStands, Old
  <2>2. CASE i \in New
    <3>1. ASSUME NEW x \in C, x[2] = p[i].kid
          PROVE  \E j \in DOMAIN p : j < i /\ p[j].m = "unshared" /\ p[j].tab = x[1]
      <4>1. x \notin L
        BY <1>1, <2>2, <3>1
      <4>2. PICK j \in Old : Drops(q[j], x)
        BY <4>1 DEF Link, ToldStands, Old
      <4>3. q[j].m = "unshared" /\ q[j].tab = x[1]
        BY <1>1, <2>2, <3>1, <4>2 DEF Drops, Frame, Old
      <4>. QED BY <1>1, <2>2, <4>2, <4>3
    <3>. QED BY <1>1, <2>2, <3>1
  <2>. QED BY <1>1, <2>1, <2>2
<1>5. OffEmpties(p, C)
  <2>. SUFFICES ASSUME NEW i \in DOMAIN p, Empties(p[i])
                PROVE  /\ \A x \in C : x[1] = p[i].to.tab => \E j \in DOMAIN p : j < i /\ Drops(p[j], x)
                       /\ \A l \in DOMAIN p : l < i /\ p[l].m = "attached" /\ p[l].tab = p[i].to.tab =>
                             \E j \in DOMAIN p : l < j /\ j < i /\ Drops(p[j], <<p[l].tab, p[l].kid>>)
    BY DEF OffEmpties
  <2>1. i \in Old
    BY <1>1 DEF Empties
  <2>2. \A l \in New : ~(l < i)
    BY <1>1, <2>1
  <2>. QED BY <1>1, <2>1, <2>2 DEF Link, OffEmpties, Old
<1>. QED BY <1>2, <1>3, <1>4, <1>5 DEF Link

\* A frame walled off before the server is told of it.
LEMMA LinkBinds ==
    ASSUME NEW q, NEW C, NEW L, NEW B, NEW k, Link(q, C, L, B), \A i \in DOMAIN q : Frame(q[i]) => q[i].kid # k
    PROVE  Link(q, C, L, B \cup {k})
BY DEF Link, InTurn

\* What the server makes of children when it hears a message.
After(e, C) == CASE e.m = "attached" -> C \cup {<<e.tab, e.kid>>}
                 [] e.m = "detached" -> C \ {<<e.tab, e.kid>>}
                 [] e.m = "unshared" -> {x \in C : x[1] # e.tab}
                 [] OTHER -> C

\* The server hears the first message: of a frame it was not told of, or that a tab is let go
\* of whose frames it was told are gone.
LEMMA LinkHears ==
    ASSUME NEW q \in Seq(Told), q # <<>>, NEW C \in SUBSET (CdpTabs \X Kids), NEW L, NEW B, Link(q, C, L, B)
    PROVE  /\ Link(Tail(q), After(Head(q), C), L, B)
           /\ Head(q).m = "attached" => \A x \in C : x[2] # Head(q).kid
           /\ Empties(Head(q)) => \A x \in C : x[1] # Head(q).to.tab
<1>. DEFINE e == Head(q)
            p == Tail(q)
            D == After(e, C)
            Old == DOMAIN q
            New == DOMAIN p
<1>1. /\ 1 \in Old /\ q[1] = e /\ Old \subseteq Nat \ {0}
      /\ \A i \in New : i + 1 \in Old /\ p[i] = q[i + 1]
      /\ \A i \in Old : i # 1 => i - 1 \in New /\ p[i - 1] = q[i]
  BY TailIs
<1>2. \A i \in New : i \in Nat \ {0}
  <2>1. p \in Seq(Told)
    BY TailIs
  <2>. HIDE DEF p
  <2>. QED BY <2>1
<1>. HIDE DEF e, p
<1>3. e.m = "attached" => \A x \in C : x[2] # e.kid
  <2>1. \A j \in Old : ~(j < 1)
    BY <1>1
  <2>2. ASSUME e.m = "attached", NEW x \in C, x[2] = e.kid PROVE FALSE
    <3>1. \E j \in Old : j < 1
      BY <1>1, <2>2 DEF Link, NewsStands
    <3>. QED BY <2>1, <3>1
  <2>. QED BY <2>2
<1>4. Empties(e) => \A x \in C : x[1] # e.to.tab
  BY <1>1 DEF Link, OffEmpties
<1>5. \A x \in D : x \in C \/ (e.m = "attached" /\ x = <<e.tab, e.kid>>)
  BY DEF After
<1>6. \A x \in D : ~(Drops(e, x) /\ e.m # "attached")
  <2>1. \A x \in C : x = <<x[1], x[2]>>
    OBVIOUS
  <2>. QED BY <2>1 DEF After, Drops
<1>7. \A x \in C : x \in D \/ Drops(e, x)
  BY DEF After, Drops
<1>. HIDE DEF D, Old, New
<1>8. InTurn(p, B)
  <2>. SUFFICES ASSUME NEW i \in New, Frame(p[i])
                PROVE  /\ p[i].m = "detached" => p[i].kid \notin B
                       /\ \A j \in New : i < j /\ Frame(p[j]) /\ p[i].kid = p[j].kid
                                         => p[i].m = "attached" /\ p[j].m = "detached"
    BY DEF InTurn, New
  <2>1. \A j \in New : i < j => i + 1 < j + 1
    BY <1>2
  <2>. QED BY <1>1, <2>1 DEF Link, InTurn, Old
<1>9. ToldStands(p, D, L)
  <2>. SUFFICES ASSUME NEW x \in D PROVE x \in L \/ \E j \in New : Drops(p[j], x)
    BY DEF ToldStands, New
  <2>1. CASE x \in C
    <3>1. x \in L \/ \E j \in Old : Drops(q[j], x)
      BY <2>1 DEF Link, ToldStands, Old
    <3>2. ~Drops(q[1], x) \/ e.m = "attached"
      BY <1>1, <1>6
    <3>3. ~Drops(q[1], x)
      BY <1>1, <3>2 DEF Drops
    <3>. QED BY <1>1, <3>1, <3>3
  <2>2. CASE e.m = "attached" /\ x = <<e.tab, e.kid>>
    <3>1. x \in L \/ \E j \in Old : j > 1 /\ Drops(q[j], x)
      BY <1>1, <2>2 DEF Link, NewsStands, Old
    <3>. QED BY <1>1, <3>1
  <2>. QED BY <1>5, <2>1, <2>2
<1>10. NewsStands(p, D, L)
  <2>. SUFFICES ASSUME NEW i \in New, p[i].m = "attached"
                PROVE  /\ \/ <<p[i].tab, p[i].kid>> \in L
                          \/ \E j \in New : j > i /\ Drops(p[j], <<p[i].tab, p[i].kid>>)
                       /\ \A x \in D : x[2] = p[i].kid =>
                             \E j \in New : j < i /\ p[j].m = "unshared" /\ p[j].tab = x[1]
    BY DEF NewsStands, New
  <2>1. i + 1 \in Old /\ p[i] = q[i + 1] /\ 1 < i + 1 /\ i \in Nat
    BY <1>1, <1>2
  <2>2. /\ \/ <<p[i].tab, p[i].kid>> \in L
           \/ \E j \in Old : j > i + 1 /\ Drops(q[j], <<p[i].tab, p[i].kid>>)
        /\ \A x \in C : x[2] = p[i].kid => \E j \in Old : j < i + 1 /\ q[j].m = "unshared" /\ q[j].tab = x[1]
    BY <2>1 DEF Link, NewsStands, Old
  <2>3. \A j \in Old : j > i + 1 => j # 1 /\ j - 1 > i
    BY <1>1, <2>1
  <2>4. ASSUME NEW x \in D, x[2] = p[i].kid
        PROVE  \E j \in New : j < i /\ p[j].m = "unshared" /\ p[j].tab = x[1]
    <3>1. x \in C
      <4>1. ASSUME e.m = "attached", x = <<e.tab, e.kid>> PROVE FALSE
        <5>1. q[1].kid = p[i].kid /\ Frame(q[1]) /\ Frame(q[i + 1])
          BY <1>1, <2>1, <2>4, <4>1 DEF Frame
        <5>2. q[i + 1].m = "detached"
          BY <1>1, <2>1, <5>1 DEF Link, InTurn, Old
        <5>. QED BY <2>1, <5>2
      <4>. QED BY <1>5, <2>4, <4>1
    <3>2. PICK j \in Old : j < i + 1 /\ q[j].m = "unshared" /\ q[j].tab = x[1]
      BY <2>2, <2>4, <3>1
    <3>3. j # 1
      BY <1>1, <1>6, <2>4, <3>2 DEF Drops
    <3>4. j - 1 < i
      BY <1>1, <2>1, <3>2, <3>3
    <3>. QED BY <1>1, <3>2, <3>3, <3>4
  <2>. QED BY <1>1, <2>2, <2>3, <2>4
<1>11. OneTabEach(D)
  <2>1. OneTabEach(C)
    BY DEF Link
  <2>. QED BY <1>3, <1>5, <2>1 DEF OneTabEach
<1>12. OffEmpties(p, D)
  <2>. SUFFICES ASSUME NEW i \in New, Empties(p[i])
                PROVE  /\ \A x \in D : x[1] = p[i].to.tab => \E j \in New : j < i /\ Drops(p[j], x)
                       /\ \A l \in New : l < i /\ p[l].m = "attached" /\ p[l].tab = p[i].to.tab =>
                             \E j \in New : l < j /\ j < i /\ Drops(p[j], <<p[l].tab, p[l].kid>>)
    BY DEF OffEmpties, New
  <2>1. i + 1 \in Old /\ p[i] = q[i + 1] /\ 1 < i + 1 /\ i \in Nat
    BY <1>1, <1>2
  <2>2. /\ \A x \in C : x[1] = p[i].to.tab => \E j \in Old : j < i + 1 /\ Drops(q[j], x)
        /\ \A l \in Old : l < i + 1 /\ q[l].m = "attached" /\ q[l].tab = p[i].to.tab =>
              \E j \in Old : l < j /\ j < i + 1 /\ Drops(q[j], <<q[l].tab, q[l].kid>>)
    BY <2>1 DEF Link, OffEmpties, Old
  <2>3. ASSUME NEW x \in D, x[1] = p[i].to.tab PROVE \E j \in New : j < i /\ Drops(p[j], x)
    <3>1. PICK j \in Old : j < i + 1 /\ Drops(q[j], x) /\ j # 1
      <4>1. CASE x \in C
        <5>1. PICK j \in Old : j < i + 1 /\ Drops(q[j], x)
          BY <2>2, <2>3, <4>1
        <5>2. j # 1
          BY <1>1, <1>6, <2>3, <5>1 DEF Drops
        <5>. QED BY <5>1, <5>2
      <4>2. CASE e.m = "attached" /\ x = <<e.tab, e.kid>>
        <5>1. PICK j \in Old : 1 < j /\ j < i + 1 /\ Drops(q[j], x)
          BY <1>1, <2>1, <2>2, <2>3, <4>2
        <5>. QED BY <5>1
      <4>. QED BY <1>5, <4>1, <4>2
    <3>2. j - 1 < i
      BY <1>1, <2>1, <3>1
    <3>. QED BY <1>1, <3>1, <3>2
  <2>4. ASSUME NEW l \in New, l < i, p[l].m = "attached", p[l].tab = p[i].to.tab
        PROVE  \E j \in New : l < j /\ j < i /\ Drops(p[j], <<p[l].tab, p[l].kid>>)
    <3>1. l + 1 \in Old /\ p[l] = q[l + 1] /\ l + 1 < i + 1 /\ l \in Nat
      <4>1. l + 1 \in Old /\ p[l] = q[l + 1] /\ l \in Nat
        BY <1>1, <1>2
      <4>. QED BY <2>1, <2>4, <4>1
    <3>2. PICK j \in Old : l + 1 < j /\ j < i + 1 /\ Drops(q[j], <<p[l].tab, p[l].kid>>)
      BY <2>2, <2>4, <3>1
    <3>3. j # 1 /\ l < j - 1 /\ j - 1 < i
      BY <1>1, <2>1, <3>1, <3>2
    <3>. QED BY <1>1, <3>2, <3>3
  <2>. QED BY <2>3, <2>4
<1>13. Link(p, D, L, B)
  BY <1>8, <1>9, <1>10, <1>11, <1>12 DEF Link
<1>. QED BY <1>3, <1>4, <1>13 DEF e, p, D

---------------------------------------------------------------------------
(* A finite set as a sequence. *)

LEMMA ListIs ==
    ASSUME NEW S, IsFiniteSet(S)
    PROVE  /\ SetToSeq(S) \in Seq(S) /\ DOMAIN SetToSeq(S) = 1..Cardinality(S) /\ Cardinality(S) \in Nat
           /\ \A i, j \in DOMAIN SetToSeq(S) : SetToSeq(S)[i] = SetToSeq(S)[j] => i = j
           /\ {SetToSeq(S)[i] : i \in DOMAIN SetToSeq(S)} = S
<1>. DEFINE n == Cardinality(S)
            q == SetToSeq(S)
<1>1. n \in Nat /\ ExistsBijection(1..n, S)
  BY FS_CardinalityType
<1>2. \E f \in [1..n -> S] : IsInjective(f)
  BY <1>1 DEF ExistsBijection, Bijection, Injection, IsInjective
<1>3. q \in [1..n -> S] /\ IsInjective(q)
  BY <1>2 DEF SetToSeq
<1>. HIDE DEF q
<1>4. q \in Seq(S) /\ DOMAIN q = 1..n
  BY <1>1, <1>3
<1>5. \A i, j \in DOMAIN q : q[i] = q[j] => i = j
  BY <1>3 DEF IsInjective
<1>6. q \in Surjection(1..n, S)
  <2>1. q \in Injection(1..n, S)
    BY <1>3, <1>4, <1>5 DEF Injection, IsInjective
  <2>2. Cardinality(1..n) = n
    BY <1>1, FS_Interval
  <2>. QED BY <2>1, <2>2, FS_Injection
<1>7. {q[i] : i \in DOMAIN q} = S
  BY <1>3, <1>4, <1>6 DEF Surjection
<1>. QED BY <1>1, <1>4, <1>5, <1>7 DEF q

LEMMA ImageIsFinite ==
    ASSUME NEW S, IsFiniteSet(S), NEW f
    PROVE  IsFiniteSet({f[x] : x \in S})
<1>. DEFINE R == {f[x] : x \in S}
            g == [x \in S |-> f[x]]
<1>1. g \in Surjection(S, R)
  BY DEF Surjection
<1>. QED BY <1>1, FS_Surjection

---------------------------------------------------------------------------
(* Sessions. *)

\* w is a client's sessions with new ones after them.
Opened(c, w) ==
    /\ w \in Seq(Rows)
    /\ Apart => IdsApart(w)
    /\ \A i \in DOMAIN sessions[c] : i \in DOMAIN w /\ w[i] = sessions[c][i]
    /\ \A i \in DOMAIN w \ DOMAIN sessions[c] : w[i].id \in FreeIds(c)

LEMMA OpenedType == ASSUME NEW c, NEW w, Opened(c, w) PROVE w \in Seq(Rows)
BY DEF Opened

LEMMA FreeIsFree ==
    ASSUME NEW c \in Clients, NEW i \in FreeIds(c)
    PROVE  /\ i \in SessionIds /\ \A j \in DOMAIN sessions[c] : sessions[c][j].id # i
           /\ \A j \in DOMAIN ask : ask[j].of = c => ask[j].id # i
           /\ \A j \in DOMAIN tell : tell[j].m = "answer" /\ tell[j].to.of = c => tell[j].to.id # i
BY DEF FreeIds

LEMMA RowsAre ==
    ASSUME NEW i \in SessionIds, NEW t \in CdpTabs, NEW level \in {"tab", "page"}, NEW parent \in SessionIds \cup {0}
    PROVE  /\ Row(i, t, level, parent) \in Rows
           /\ Row(i, t, level, parent).id = i /\ Row(i, t, level, parent).tab = t
BY DEF Row, Rows

\* Rows of new sessions, with names of their own, after those there are.
LEMMA NewRows ==
    ASSUME CdpTypeOK, NEW c \in Clients, NEW d \in Seq(Rows),
           \A i \in DOMAIN d : d[i].id \in FreeIds(c), IdsApart(d)
    PROVE  Opened(c, sessions[c] \o d)
<1>. DEFINE s == sessions[c]
            w == s \o d
<1>1. s \in Seq(Rows)
  BY DEF CdpTypeOK
<1>2. w \in Seq(Rows) /\ Grown(s, w, {d[i] : i \in DOMAIN d})
      /\ \A i \in DOMAIN w \ DOMAIN s : i - Len(s) \in DOMAIN d /\ w[i] = d[i - Len(s)]
  BY <1>1, ConcatGrows
<1>3. Len(s) \in Nat
  BY <1>1
<1>. HIDE DEF s, w
<1>4. /\ \A i \in DOMAIN s : i \in DOMAIN w /\ w[i] = s[i]
      /\ \A i \in DOMAIN w \ DOMAIN s : w[i].id \in FreeIds(c)
      /\ DOMAIN w \subseteq Nat
  BY <1>2 DEF Grown
<1>5. ASSUME Apart, NEW i \in DOMAIN w, NEW j \in DOMAIN w, w[i].id = w[j].id PROVE i = j
  <2>1. \A l \in DOMAIN s : s[l].id \notin FreeIds(c)
    BY FreeIsFree DEF s
  <2>2. CASE i \in DOMAIN s /\ j \in DOMAIN s
    BY <1>4, <1>5, <2>2 DEF Apart, IdsApart, s
  <2>3. CASE i \notin DOMAIN s /\ j \notin DOMAIN s
    <3>1. i - Len(s) = j - Len(s)
      BY <1>2, <1>5, <2>3 DEF IdsApart
    <3>2. i \in Nat /\ j \in Nat
      BY <1>4
    <3>. QED BY <1>3, <3>1, <3>2
  <2>. QED BY <1>4, <1>5, <2>1, <2>2, <2>3
<1>6. Apart => IdsApart(w)
  BY <1>5 DEF IdsApart
<1>. QED BY <1>2, <1>4, <1>6 DEF Opened, s, w

LEMMA OpensOne ==
    ASSUME CdpTypeOK, NEW c \in Clients, NEW t \in CdpTabs, NEW level \in {"tab", "page"},
           NEW parent \in SessionIds \cup {0}, Opens(c, t, level, parent)
    PROVE  \E w : sessions' = [sessions EXCEPT ![c] = w] /\ Opened(c, w)
<1>1. PICK i \in FreeIds(c) : sessions' = [sessions EXCEPT ![c] = Append(@, Row(i, t, level, parent))]
  BY DEF Opens
<1>. DEFINE r == Row(i, t, level, parent)
<1>2. r \in Rows /\ r.id = i
  BY FreeIsFree, RowsAre
<1>. HIDE DEF r
<1>3. <<r>> \in Seq(Rows) /\ DOMAIN <<r>> = {1} /\ <<r>>[1] = r
  BY <1>2
<1>4. Opened(c, sessions[c] \o <<r>>)
  <2>1. \A j \in DOMAIN <<r>> : <<r>>[j].id \in FreeIds(c)
    BY <1>2, <1>3
  <2>2. IdsApart(<<r>>)
    BY <1>3 DEF IdsApart
  <2>. QED BY <1>3, <2>1, <2>2, NewRows
<1>5. Append(sessions[c], r) = sessions[c] \o <<r>>
  BY <1>2, AppendIsConcat DEF CdpTypeOK
<1>. QED BY <1>1, <1>4, <1>5 DEF r

LEMMA SessionIdsFinite == IsFiniteSet(SessionIds)
BY LinkedCdpAssumption, FS_Interval DEF SessionIds

LEMMA AttachesAll ==
    ASSUME CdpTypeOK, NEW c \in Clients, NEW how \in {"off", "tabs", "pages"}, NEW T \in SUBSET CdpTabs,
           Cardinality(Unattached(c, how, T)) <= Cardinality(FreeIds(c))
    PROVE  Opened(c, AttachedTo(c, how, T))
<1>. DEFINE U == Unattached(c, how, T)
            new == SetToSeq(U)
            ids == SetToSeq(FreeIds(c))
            d == [i \in DOMAIN new |-> Row(ids[i], new[i], Level(how), 0)]
<1>1. U \in SUBSET CdpTabs /\ FreeIds(c) \in SUBSET SessionIds
  BY DEF Unattached, FreeIds
<1>2. IsFiniteSet(U) /\ IsFiniteSet(FreeIds(c))
  BY <1>1, SessionIdsFinite, LinkedCdpAssumption, FS_Subset
<1>3. /\ DOMAIN new = 1..Cardinality(U) /\ Cardinality(U) \in Nat
      /\ \A i \in DOMAIN new : new[i] \in U
      /\ DOMAIN ids = 1..Cardinality(FreeIds(c)) /\ Cardinality(FreeIds(c)) \in Nat
      /\ \A i \in DOMAIN ids : ids[i] \in FreeIds(c)
      /\ \A i, j \in DOMAIN ids : ids[i] = ids[j] => i = j
  <2>. HIDE DEF U
  <2>. QED BY <1>2, ListIs
<1>4. Cardinality(U) <= Cardinality(FreeIds(c))
  OBVIOUS
<1>5. Level(how) \in {"tab", "page"} /\ 0 \in SessionIds \cup {0}
  BY DEF Level
<1>. HIDE DEF U, new, ids
<1>6. \A i \in DOMAIN new : i \in DOMAIN ids
  BY <1>3, <1>4
<1>7. \A i \in DOMAIN new : d[i] \in Rows /\ d[i].id = ids[i]
  BY <1>1, <1>3, <1>5, <1>6, RowsAre
<1>8. d \in Seq(Rows) /\ DOMAIN d = DOMAIN new
  BY <1>3, <1>7
<1>. HIDE DEF d
<1>9. Opened(c, sessions[c] \o d)
  <2>1. IdsApart(d)
    BY <1>3, <1>6, <1>7, <1>8 DEF IdsApart
  <2>. QED BY <1>3, <1>6, <1>7, <1>8, <2>1, NewRows
<1>. QED BY <1>9 DEF AttachedTo, d, new, ids, U

\* Who asked goes on fitting its session when sessions are opened, marked or deleted.
Succeeds(S) ==
    \A c \in Clients : \A i \in DOMAIN S[c] :
        \/ \E j \in DOMAIN sessions[c] : sessions[c][j].id = S[c][i].id /\ sessions[c][j].tab = S[c][i].tab
        \/ S[c][i].id \in FreeIds(c)

LEMMA AskersStay ==
    ASSUME AskersFit, NEW S, Succeeds(S)
    PROVE  /\ \A i \in DOMAIN ask : Fits(ask[i], S)
           /\ \A i \in DOMAIN tell : tell[i].m = "answer" => Fits(tell[i].to, S)
<1>1. ASSUME NEW a, Fits(a, sessions), a.of \in Clients => a.id \notin FreeIds(a.of) PROVE Fits(a, S)
  BY <1>1 DEF Fits, Succeeds
<1>2. \A i \in DOMAIN ask : ask[i].of \in Clients => ask[i].id \notin FreeIds(ask[i].of)
  BY FreeIsFree
<1>3. \A i \in DOMAIN tell : tell[i].m = "answer" /\ tell[i].to.of \in Clients => tell[i].to.id \notin FreeIds(tell[i].to.of)
  BY FreeIsFree
<1>. QED BY <1>1, <1>2, <1>3 DEF AskersFit

\* Clients with new sessions: nobody hears less.
LEMMA OpenedStands ==
    ASSUME CdpTypeOK, AskersFit, Apart, NEW S \in [Clients -> Seq(Rows)],
           \A c \in Clients : S[c] = sessions[c] \/ Opened(c, S[c])
    PROVE  /\ Succeeds(S) /\ \A c \in Clients : IdsApart(S[c])
           /\ \A h \in Clients \X SessionIds \X Kids : Hears(h, sessions, children) => Hears(h, S, children)
<1>1. Succeeds(S)
  BY DEF Succeeds, Opened
<1>2. \A c \in Clients : IdsApart(S[c])
  BY DEF Apart, Opened
<1>3. ASSUME NEW h \in Clients \X SessionIds \X Kids, Hears(h, sessions, children) PROVE Hears(h, S, children)
  <2>1. h[1] \in Clients
    OBVIOUS
  <2>2. \A i \in DOMAIN sessions[h[1]] : i \in DOMAIN S[h[1]] /\ S[h[1]][i] = sessions[h[1]][i]
    BY <2>1 DEF Opened
  <2>. QED BY <1>3, <2>2 DEF Hears
<1>. QED BY <1>1, <1>2, <1>3

---------------------------------------------------------------------------
(* The clients' steps. *)

Hearings == Clients \X SessionIds \X Kids

LEMMA CommandsAre ==
    ASSUME NEW of \in Clients \cup {NoClient}, NEW id \in SessionIds \cup {0}, NEW t \in CdpTabs,
           NEW what \in Verbs, NEW k \in Kids \cup {NoTab}
    PROVE  [of |-> of, id |-> id, tab |-> t, what |-> what, kid |-> k] \in Asked
BY DEF Asked

\* What the link holds for the server is no more than it was, and sessions are opened.
LEMMA OpenKeeps ==
    ASSUME CdpTypeOK, ServerInv, sessions' \in [Clients -> Seq(Rows)], UNCHANGED <<closed, ask, heard, children>>,
           \A c \in Clients : sessions'[c] = sessions[c] \/ (Here(c) /\ Opened(c, sessions'[c])),
           \A c \in Clients : front'[c] = "gone" <=> front[c] = "gone",
           \A i \in DOMAIN tell' : \E j \in DOMAIN tell : tell'[i] = tell[j]
    PROVE  ServerInv'
<1>1. /\ Succeeds(sessions') /\ \A c \in Clients : IdsApart(sessions'[c])
      /\ \A h \in Hearings : Hears(h, sessions, children) => Hears(h, sessions', children)
  BY OpenedStands DEF ServerInv, Hearings
<1>2. AskersFit'
  <2>1. /\ \A i \in DOMAIN ask : Fits(ask[i], sessions')
        /\ \A i \in DOMAIN tell : tell[i].m = "answer" => Fits(tell[i].to, sessions')
    BY <1>1, AskersStay DEF ServerInv
  <2>. QED BY <2>1 DEF AskersFit
<1>3. Apart'
  BY <1>1 DEF Apart
<1>4. Heard'
  <2>1. heard \subseteq Hearings
    BY DEF CdpTypeOK, Hearings
  <2>. QED BY <1>1, <2>1 DEF ServerInv, Heard
<1>5. Ending' /\ Gone'
  BY DEF ServerInv, Ending, Gone, Here
<1>. QED BY <1>2, <1>3, <1>4, <1>5 DEF ServerInv

\* Nothing happens on the link but that commands are given.
LEMMA ChromeRests ==
    ASSUME ChromeInv, UNCHANGED <<closed, chromeSide, tell, children, enabled>>,
           \A i \in DOMAIN ask : i \in DOMAIN ask' /\ ask'[i] = ask[i]
    PROVE  ChromeInv'
<1>1. Met' /\ Live' = Live /\ Bound' = Bound
  BY DEF ChromeInv, Met, Live, Bound, chromeSide
<1>2. ~closed => AllNoted'
  <2>1. \A t : Noted(t, enabled, tell, ask) => Noted(t, enabled, tell, ask')
    BY DEF Noted
  <2>. QED BY <2>1 DEF ChromeInv, AllNoted, chromeSide
<1>. QED BY <1>1, <1>2 DEF ChromeInv

LEMMA ConnectKeeps ==
    ASSUME CdpInv, NEW c \in Clients, Connects(c)
    PROVE  CdpInv'
<1>1. /\ ~closed /\ ~Here(c) /\ front' = [front EXCEPT ![c] = "off"]
      /\ UNCHANGED <<tabs, sessions, children, autoAttached, enabled, closed, chromeSide, ask, tell, heard>>
  BY DEF Connects
<1>2. CdpTypeOK'
  BY <1>1 DEF CdpInv, CdpTypeOK, chromeSide
<1>3. ServerInv'
  <2>1. front \in [Clients -> {"gone", "off", "tabs", "pages"}]
    BY DEF CdpInv, CdpTypeOK
  <2>2. AskersFit' /\ Apart' /\ Heard'
    BY <1>1 DEF CdpInv, ServerInv, AskersFit, Apart, Heard
  <2>3. Ending' /\ Gone'
    BY <1>1, <2>1 DEF CdpInv, ServerInv, Ending, Gone
  <2>. QED BY <2>2, <2>3 DEF ServerInv
<1>4. ChromeInv'
  BY <1>1, ChromeRests DEF CdpInv
<1>. QED BY <1>2, <1>3, <1>4 DEF CdpInv

LEMMA OpenStepKeeps ==
    ASSUME CdpInv, NEW c \in Clients, Here(c), NEW w, Opened(c, w), sessions' = [sessions EXCEPT ![c] = w],
           front' \in [Clients -> {"gone", "off", "tabs", "pages"}],
           \A d \in Clients : front'[d] = "gone" <=> front[d] = "gone",
           UNCHANGED <<tabs, children, autoAttached, enabled, closed, chromeSide, ask, tell, heard>>
    PROVE  CdpInv'
<1>1. sessions \in [Clients -> Seq(Rows)] /\ w \in Seq(Rows)
  <2>1. sessions \in [Clients -> Seq(Rows)]
    BY DEF CdpInv, CdpTypeOK
  <2>2. w \in Seq(Rows)
    BY OpenedType
  <2>. QED BY <2>1, <2>2
<1>2. sessions' \in [Clients -> Seq(Rows)] /\ sessions'[c] = w /\ \A d \in Clients \ {c} : sessions'[d] = sessions[d]
  BY <1>1
<1>3. CdpTypeOK'
  BY <1>2 DEF CdpInv, CdpTypeOK, chromeSide
<1>4. ServerInv'
  BY <1>2, OpenKeeps DEF CdpInv
<1>5. ChromeInv'
  BY ChromeRests DEF CdpInv
<1>. QED BY <1>3, <1>4, <1>5 DEF CdpInv

LEMMA AutoAttachKeeps ==
    ASSUME CdpInv, NEW c \in Clients, NEW how \in {"off", "tabs", "pages"}, RootAutoAttach(c, how)
    PROVE  CdpInv'
<1>1. /\ Here(c) /\ RoomToAttach({c}, [front EXCEPT ![c] = how], tabs)
      /\ front' = [front EXCEPT ![c] = how] /\ sessions' = [sessions EXCEPT ![c] = AttachedTo(c, how, tabs)]
      /\ UNCHANGED <<tabs, children, autoAttached, enabled, closed, chromeSide, ask, tell, heard>>
  BY DEF RootAutoAttach
<1>2. front \in [Clients -> {"gone", "off", "tabs", "pages"}] /\ tabs \in SUBSET CdpTabs
  BY DEF CdpInv, CdpTypeOK
<1>3. Cardinality(Unattached(c, how, tabs)) <= Cardinality(FreeIds(c))
  BY <1>1, <1>2 DEF RoomToAttach
<1>4. Opened(c, AttachedTo(c, how, tabs))
  BY <1>2, <1>3, AttachesAll DEF CdpInv
<1>5. front' \in [Clients -> {"gone", "off", "tabs", "pages"}] /\ \A d \in Clients : front'[d] = "gone" <=> front[d] = "gone"
  BY <1>1, <1>2 DEF Here
<1>. QED BY <1>1, <1>4, <1>5, OpenStepKeeps

LEMMA AttachKeeps ==
    ASSUME CdpInv, NEW c \in Clients, NEW t \in CdpTabs, AttachToTarget(c, t)
    PROVE  CdpInv'
<1>1. /\ Here(c) /\ Opens(c, t, "page", 0)
      /\ UNCHANGED <<tabs, front, children, autoAttached, enabled, closed, chromeSide, ask, tell, heard>>
  BY DEF AttachToTarget
<1>2. PICK w : sessions' = [sessions EXCEPT ![c] = w] /\ Opened(c, w)
  BY <1>1, OpensOne DEF CdpInv
<1>3. front' \in [Clients -> {"gone", "off", "tabs", "pages"}]
  BY <1>1 DEF CdpInv, CdpTypeOK
<1>. QED BY <1>1, <1>2, <1>3, OpenStepKeeps

\* Who has a session is there; its row is one.
LEMMA SessionHere ==
    ASSUME CdpInv, NEW c \in Clients, NEW i \in DOMAIN sessions[c]
    PROVE  /\ Here(c) /\ ~closed /\ sessions[c] \in Seq(Rows) /\ sessions[c][i] \in Rows
           /\ sessions[c][i].id \in SessionIds /\ sessions[c][i].tab \in CdpTabs
<1>1. sessions[c] \in Seq(Rows)
  BY DEF CdpInv, CdpTypeOK
<1>2. sessions[c] # <<>>
  BY <1>1
<1>3. Here(c) /\ ~closed
  BY <1>2 DEF CdpInv, ServerInv, Gone, Ending, Here
<1>4. sessions[c][i] \in Rows
  BY <1>1
<1>. QED BY <1>1, <1>3, <1>4 DEF Rows

LEMMA HandKeeps ==
    ASSUME CdpInv, NEW c \in Clients, NEW i \in DOMAIN sessions[c], TabHandsPage(c, sessions[c][i])
    PROVE  CdpInv'
<1>. DEFINE r == sessions[c][i]
<1>1. /\ Opens(c, r.tab, "page", r.id)
      /\ UNCHANGED <<tabs, front, children, autoAttached, enabled, closed, chromeSide, ask, tell, heard>>
  BY DEF TabHandsPage
<1>2. Here(c) /\ r.tab \in CdpTabs /\ r.id \in SessionIds \cup {0}
  BY SessionHere
<1>3. PICK w : sessions' = [sessions EXCEPT ![c] = w] /\ Opened(c, w)
  BY <1>1, <1>2, OpensOne DEF CdpInv
<1>4. front' \in [Clients -> {"gone", "off", "tabs", "pages"}]
  BY <1>1 DEF CdpInv, CdpTypeOK
<1>. QED BY <1>1, <1>2, <1>3, <1>4, OpenStepKeeps

LEMMA AskKeeps ==
    ASSUME CdpInv, NEW a \in Asked, Fits(a, sessions), ask' = Append(ask, a), UNCHANGED <<serverSide, chromeSide, tell, heard>>
    PROVE  CdpInv'
<1>1. ask \in Seq(Asked)
  BY DEF CdpInv, CdpTypeOK
<1>2. /\ ask' \in Seq(Asked) /\ \A i \in DOMAIN ask' : i \in DOMAIN ask \/ ask'[i] = a
      /\ \A i \in DOMAIN ask : i \in DOMAIN ask' /\ ask'[i] = ask[i]
  BY <1>1, AppendGrows DEF Grown
<1>3. CdpTypeOK'
  BY <1>2 DEF CdpInv, CdpTypeOK, serverSide, chromeSide
<1>4. ServerInv'
  <2>1. AskersFit'
    BY <1>2 DEF CdpInv, ServerInv, AskersFit, serverSide
  <2>2. Apart' /\ Heard' /\ Ending' /\ Gone'
    BY DEF CdpInv, ServerInv, Apart, Heard, Ending, Gone, serverSide
  <2>. QED BY <2>1, <2>2 DEF ServerInv
<1>5. ChromeInv'
  BY <1>2, ChromeRests DEF CdpInv, serverSide
<1>. QED BY <1>3, <1>4, <1>5 DEF CdpInv

LEMMA AsksKeeps ==
    ASSUME CdpInv, NEW c \in Clients, NEW i \in DOMAIN sessions[c], NEW what \in Verbs, Asks(c, sessions[c][i], what)
    PROVE  CdpInv'
<1>. DEFINE r == sessions[c][i]
            a == [of |-> c, id |-> r.id, tab |-> r.tab, what |-> what, kid |-> NoTab]
<1>1. a \in Asked
  BY SessionHere, CommandsAre
<1>2. Fits(a, sessions)
  <2>1. IdsApart(sessions[c]) /\ a.of = c /\ a.id = r.id /\ a.tab = r.tab /\ c # NoClient
    BY LinkedCdpAssumption DEF CdpInv, ServerInv, Apart
  <2>. QED BY <2>1 DEF Fits, IdsApart
<1>. QED BY <1>1, <1>2, AskKeeps DEF Asks

LEMMA AsksKidKeeps ==
    ASSUME CdpInv, NEW c \in Clients, NEW t \in CdpTabs, NEW k \in Kids, AsksKid(c, t, k)
    PROVE  CdpInv'
<1>. DEFINE a == [of |-> c, id |-> 0, tab |-> t, what |-> "kid", kid |-> k]
<1>1. a \in Asked
  BY CommandsAre DEF Verbs
<1>2. Fits(a, sessions)
  <2>1. a.of = c /\ a.id = 0 /\ c # NoClient
    BY LinkedCdpAssumption
  <2>2. \A i \in DOMAIN sessions[c] : sessions[c][i].id # 0
    BY SessionHere DEF SessionIds
  <2>. QED BY <2>1, <2>2 DEF Fits
<1>. QED BY <1>1, <1>2, AskKeeps DEF AsksKid

\* Sessions are deleted or marked, and nobody is said to hear what it does not.
LEMMA FewerKeep ==
    ASSUME CdpInv, sessions' \in [Clients -> Seq(Rows)], Succeeds(sessions'), \A c \in Clients : IdsApart(sessions'[c]),
           \A i \in DOMAIN ask' : (\E j \in DOMAIN ask : ask'[i] = ask[j]) \/ Fits(ask'[i], sessions'),
           \A i \in DOMAIN tell' : \E j \in DOMAIN tell : tell'[i] = tell[j],
           \A h \in heard' : Hears(h, sessions', children'), Once(heard'),
           ~closed, closed' = closed,
           \A c \in Clients : front'[c] = "gone" => sessions'[c] = <<>>
    PROVE  ServerInv'
<1>1. /\ \A i \in DOMAIN ask : Fits(ask[i], sessions')
      /\ \A i \in DOMAIN tell : tell[i].m = "answer" => Fits(tell[i].to, sessions')
  BY AskersStay DEF CdpInv, ServerInv
<1>2. AskersFit'
  BY <1>1 DEF AskersFit
<1>3. Apart' /\ Heard' /\ Ending' /\ Gone'
  BY DEF Apart, Heard, Ending, Gone
<1>. QED BY <1>2, <1>3 DEF ServerInv

LEMMA OnceFewer == ASSUME NEW H, NEW G \in SUBSET H, Once(H) PROVE Once(G)
BY DEF Once

\* The commands of the last client out.
LEMMA QuiesceIs ==
    ASSUME CdpTypeOK, Quiesce
    PROVE  /\ ask' \in Seq(Asked) /\ enabled' = {} /\ autoAttached' = {}
           /\ \A i \in DOMAIN ask : i \in DOMAIN ask' /\ ask'[i] = ask[i]
           /\ \A i \in DOMAIN ask' : \/ i \in DOMAIN ask
                                     \/ ask'[i].of = NoClient /\ ask'[i].what \in {"disable", "autoOff"}
           /\ \A t \in enabled : \E i \in DOMAIN ask' : ask'[i].tab = t /\ ask'[i].what = "disable"
<1>. DEFINE cmd(verb) == [t \in CdpTabs |-> [of |-> NoClient, id |-> 0, tab |-> t, what |-> verb, kid |-> NoTab]]
            Off(T, verb) == SetToSeq({[of |-> NoClient, id |-> 0, tab |-> t, what |-> verb, kid |-> NoTab] : t \in T})
            first == ask \o Off(enabled, "disable")
<1>1. ASSUME NEW T \in SUBSET CdpTabs, NEW verb \in {"disable", "autoOff"}
      PROVE  /\ Off(T, verb) \in Seq(Asked)
             /\ \A i \in DOMAIN Off(T, verb) : /\ Off(T, verb)[i].of = NoClient
                                               /\ Off(T, verb)[i].what = verb
             /\ \A t \in T : \E i \in DOMAIN Off(T, verb) : Off(T, verb)[i].tab = t
  <2>. DEFINE R == {[of |-> NoClient, id |-> 0, tab |-> t, what |-> verb, kid |-> NoTab] : t \in T}
              f == cmd(verb)
  <2>1. R = {f[t] : t \in T}
    OBVIOUS
  <2>2. IsFiniteSet(T)
    BY LinkedCdpAssumption, FS_Subset
  <2>3. IsFiniteSet(R)
    <3>. HIDE DEF f, R
    <3>. QED BY <2>1, <2>2, ImageIsFinite
  <2>4. R \subseteq Asked
    BY CommandsAre DEF Verbs
  <2>5. \A e \in R : e.of = NoClient /\ e.what = verb
    OBVIOUS
  <2>6. ASSUME NEW t \in T PROVE \E e \in R : e.tab = t
    <3>. DEFINE e == [of |-> NoClient, id |-> 0, tab |-> t, what |-> verb, kid |-> NoTab]
    <3>1. e \in R /\ e.tab = t
      OBVIOUS
    <3>. HIDE DEF e, R
    <3>. QED BY <3>1
  <2>. HIDE DEF R
  <2>7. SetToSeq(R) \in Seq(R) /\ {SetToSeq(R)[i] : i \in DOMAIN SetToSeq(R)} = R
    BY <2>3, ListIs
  <2>8. SetToSeq(R) \in Seq(Asked)
    BY <2>4, <2>7
  <2>9. Off(T, verb) = SetToSeq(R)
    BY DEF R
  <2>. HIDE DEF Off
  <2>. QED BY <2>5, <2>6, <2>7, <2>8, <2>9
<1>2. enabled \in SUBSET CdpTabs /\ autoAttached \in SUBSET CdpTabs /\ ask \in Seq(Asked)
  BY DEF CdpTypeOK
<1>3. ask' = first \o Off(autoAttached, "autoOff") /\ enabled' = {} /\ autoAttached' = {}
  BY DEF Quiesce
<1>. DEFINE a == Off(enabled, "disable")
            b == Off(autoAttached, "autoOff")
<1>4. /\ a \in Seq(Asked) /\ \A i \in DOMAIN a : a[i].of = NoClient /\ a[i].what = "disable"
      /\ \A t \in enabled : \E i \in DOMAIN a : a[i].tab = t
      /\ b \in Seq(Asked) /\ \A i \in DOMAIN b : b[i].of = NoClient /\ b[i].what = "autoOff"
  <2>. HIDE DEF Off
  <2>. QED BY <1>1, <1>2
<1>. HIDE DEF a, b
<1>5. first = ask \o a /\ ask' = first \o b
  BY <1>3 DEF a, b
<1>. HIDE DEF first
<1>6. first \in Seq(Asked) /\ Grown(ask, first, {a[i] : i \in DOMAIN a})
  BY <1>2, <1>4, <1>5, ConcatGrows
<1>7. ask' \in Seq(Asked) /\ Grown(first, ask', {b[i] : i \in DOMAIN b})
  <2>1. b \in Seq(Asked) /\ first \in Seq(Asked)
    BY <1>4, <1>6
  <2>2. first \o b \in Seq(Asked) /\ Grown(first, first \o b, {b[i] : i \in DOMAIN b})
    BY <2>1, ConcatGrows
  <2>. QED BY <1>5, <2>2
<1>8. \A i \in DOMAIN ask : i \in DOMAIN ask' /\ ask'[i] = ask[i]
  BY <1>6, <1>7 DEF Grown
<1>9. ASSUME NEW i \in DOMAIN ask', i \notin DOMAIN ask
      PROVE  ask'[i].of = NoClient /\ ask'[i].what \in {"disable", "autoOff"}
  <2>1. CASE i \in DOMAIN first
    <3>1. first[i] \in {a[j] : j \in DOMAIN a} /\ ask'[i] = first[i]
      BY <1>6, <1>7, <1>9, <2>1 DEF Grown
    <3>. QED BY <1>4, <3>1
  <2>2. CASE i \notin DOMAIN first
    <3>1. ask'[i] \in {b[j] : j \in DOMAIN b}
      BY <1>7, <2>2 DEF Grown
    <3>. QED BY <1>4, <3>1
  <2>. QED BY <2>1, <2>2
<1>10. ASSUME NEW t \in enabled PROVE \E i \in DOMAIN ask' : ask'[i].tab = t /\ ask'[i].what = "disable"
  <2>1. PICK j \in DOMAIN a : a[j].tab = t
    BY <1>4
  <2>2. PICK i \in DOMAIN first : first[i] = a[j]
    BY <1>6 DEF Grown
  <2>3. i \in DOMAIN ask' /\ ask'[i] = a[j]
    BY <1>7, <2>2 DEF Grown
  <2>. QED BY <1>4, <2>1, <2>3
<1>. QED BY <1>3, <1>7, <1>8, <1>9, <1>10

LEMMA LeaveKeeps ==
    ASSUME CdpInv, NEW c \in Clients, Leaves(c)
    PROVE  CdpInv'
<1>1. /\ ~closed /\ front' = [front EXCEPT ![c] = "gone"] /\ sessions' = [sessions EXCEPT ![c] = <<>>]
      /\ heard' = heard \ {h \in heard : h[1] = c}
      /\ Quiesce \/ UNCHANGED <<ask, enabled, autoAttached>>
      /\ UNCHANGED <<tabs, children, closed, chromeSide, tell>>
  BY DEF Leaves, Forgets
<1>2. /\ front \in [Clients -> {"gone", "off", "tabs", "pages"}] /\ sessions \in [Clients -> Seq(Rows)]
      /\ ask \in Seq(Asked) /\ enabled \subseteq CdpTabs /\ autoAttached \subseteq CdpTabs /\ heard \subseteq Hearings
  BY DEF CdpInv, CdpTypeOK, Hearings
<1>3. /\ ask' \in Seq(Asked) /\ enabled' \subseteq CdpTabs /\ autoAttached' \subseteq CdpTabs
      /\ \A i \in DOMAIN ask : i \in DOMAIN ask' /\ ask'[i] = ask[i]
      /\ \A i \in DOMAIN ask' : \/ i \in DOMAIN ask
                                \/ ask'[i].of = NoClient /\ ask'[i].what \in {"disable", "autoOff"}
      /\ \A t \in enabled : t \in enabled' \/ \E i \in DOMAIN ask' : ask'[i].tab = t /\ ask'[i].what = "disable"
  <2>1. CASE Quiesce
    BY <2>1, QuiesceIs DEF CdpInv
  <2>2. CASE UNCHANGED <<ask, enabled, autoAttached>>
    BY <1>2, <2>2
  <2>. QED BY <1>1, <2>1, <2>2
<1>4. sessions' \in [Clients -> Seq(Rows)] /\ sessions'[c] = <<>> /\ \A d \in Clients \ {c} : sessions'[d] = sessions[d]
  BY <1>1, <1>2
<1>5. front' \in [Clients -> {"gone", "off", "tabs", "pages"}] /\ heard' \subseteq Hearings
  BY <1>1, <1>2
<1>6. CdpTypeOK'
  BY <1>1, <1>3, <1>4, <1>5 DEF CdpInv, CdpTypeOK, chromeSide, Hearings
<1>7. ServerInv'
  <2>1. DOMAIN sessions'[c] = {}
    BY <1>4
  <2>2. Succeeds(sessions') /\ \A d \in Clients : IdsApart(sessions'[d])
    BY <1>4, <2>1 DEF CdpInv, ServerInv, Apart, IdsApart, Succeeds
  <2>3. \A i \in DOMAIN ask' : (\E j \in DOMAIN ask : ask'[i] = ask[j]) \/ Fits(ask'[i], sessions')
    BY <1>3, LinkedCdpAssumption DEF Fits
  <2>4. ASSUME NEW h \in heard' PROVE Hears(h, sessions', children')
    <3>1. h \in heard /\ h[1] # c /\ h[1] \in Clients
      BY <1>1, <1>2, <2>4 DEF Hearings
    <3>. QED BY <1>1, <1>4, <3>1 DEF CdpInv, ServerInv, Heard, Hears
  <2>5. Once(heard')
    BY <1>1, OnceFewer DEF CdpInv, ServerInv, Heard
  <2>6. \A d \in Clients : front'[d] = "gone" => sessions'[d] = <<>>
    BY <1>1, <1>2, <1>4 DEF CdpInv, ServerInv, Gone
  <2>. QED BY <1>1, <1>4, <2>2, <2>3, <2>4, <2>5, <2>6, FewerKeep
<1>8. ChromeInv'
  <2>1. Met' /\ Live' = Live /\ Bound' = Bound
    BY <1>1 DEF CdpInv, ChromeInv, Met, Live, Bound, chromeSide
  <2>2. AllNoted'
    <3>1. ASSUME NEW t, Noted(t, enabled, tell, ask) PROVE Noted(t, enabled', tell, ask')
      BY <1>3, <3>1 DEF Noted
    <3>. QED BY <1>1, <3>1 DEF CdpInv, ChromeInv, AllNoted, chromeSide
  <2>. QED BY <1>1, <2>1, <2>2 DEF CdpInv, ChromeInv
<1>. QED BY <1>6, <1>7, <1>8 DEF CdpInv

LEMMA DetachKeeps ==
    ASSUME CdpInv, NEW c \in Clients, NEW i \in DOMAIN sessions[c], Detach(c, sessions[c][i])
    PROVE  CdpInv'
<1>. DEFINE r == sessions[c][i]
            w == Without(sessions[c], {r})
<1>1. /\ sessions' = [sessions EXCEPT ![c] = w] /\ heard' = heard \ {h \in heard : h[1] = c /\ h[2] = r.id}
      /\ UNCHANGED <<tabs, front, children, autoAttached, enabled, closed, chromeSide, ask, tell>>
  BY DEF Detach, Forgets
<1>2. Here(c) /\ ~closed /\ sessions[c] \in Seq(Rows)
  BY SessionHere
<1>3. /\ w \in Seq(Rows) /\ \A j \in DOMAIN w : \E l \in DOMAIN sessions[c] : w[j] = sessions[c][l]
      /\ \A l \in DOMAIN sessions[c] : sessions[c][l] # r => \E j \in DOMAIN w : w[j] = sessions[c][l]
      /\ IdsApart(sessions[c]) => IdsApart(w)
  <2>. DEFINE D == {r}
  <2>1. \A o : o # r => o \notin D
    OBVIOUS
  <2>. HIDE DEF D
  <2>2. /\ Without(sessions[c], D) \in Seq(Rows)
        /\ \A j \in DOMAIN Without(sessions[c], D) : \E l \in DOMAIN sessions[c] : Without(sessions[c], D)[j] = sessions[c][l]
        /\ \A l \in DOMAIN sessions[c] : sessions[c][l] \notin D =>
              \E j \in DOMAIN Without(sessions[c], D) : Without(sessions[c], D)[j] = sessions[c][l]
        /\ IdsApart(sessions[c]) => IdsApart(Without(sessions[c], D))
    <3>. DEFINE s == sessions[c]
    <3>1. s \in Seq(Rows)
      BY <1>2
    <3>. HIDE DEF s
    <3>2. /\ Without(s, D) \in Seq(Rows)
          /\ \A j \in DOMAIN Without(s, D) : \E l \in DOMAIN s : Without(s, D)[j] = s[l] /\ s[l] \notin D
          /\ \A l \in DOMAIN s : s[l] \notin D => \E j \in DOMAIN Without(s, D) : Without(s, D)[j] = s[l]
          /\ IdsApart(s) => IdsApart(Without(s, D))
      BY <3>1, WithoutLeaves
    <3>. QED BY <3>2 DEF s
  <2>3. w = Without(sessions[c], D)
    BY DEF D
  <2>. HIDE DEF w
  <2>. QED BY <2>1, <2>2, <2>3
<1>. HIDE DEF w
<1>4. sessions \in [Clients -> Seq(Rows)] /\ heard \subseteq Hearings
  BY DEF CdpInv, CdpTypeOK, Hearings
<1>5. sessions' \in [Clients -> Seq(Rows)] /\ sessions'[c] = w /\ \A d \in Clients \ {c} : sessions'[d] = sessions[d]
  <2>1. w \in Seq(Rows) /\ sessions' = [sessions EXCEPT ![c] = w]
    BY ONLY <1>1, <1>3
  <2>. QED BY ONLY <1>4, <2>1
<1>6. CdpTypeOK'
  <2>1. sessions' \in [Clients -> Seq(Rows)] /\ heard' \subseteq Hearings
    BY ONLY <1>1, <1>4, <1>5
  <2>. QED BY <1>1, <2>1 DEF CdpInv, CdpTypeOK, chromeSide, Hearings
<1>7. ServerInv'
  <2>1. Succeeds(sessions') /\ \A d \in Clients : IdsApart(sessions'[d])
    <3>1. \A d \in Clients : IdsApart(sessions[d])
      BY DEF CdpInv, ServerInv, Apart
    <3>2. \A d \in Clients : IdsApart(sessions'[d])
      BY ONLY <1>3, <1>5, <3>1
    <3>3. ASSUME NEW d \in Clients, NEW j \in DOMAIN sessions'[d]
          PROVE  \E l \in DOMAIN sessions[d] : sessions'[d][j] = sessions[d][l]
      BY ONLY <1>3, <1>5, <3>3
    <3>. QED BY ONLY <3>2, <3>3 DEF Succeeds
  <2>2. ASSUME NEW h \in heard' PROVE Hears(h, sessions', children')
    <3>1. h \in heard /\ h[1] \in Clients /\ (h[1] = c => h[2] # r.id) /\ Hears(h, sessions, children)
      BY <1>1, <1>4, <2>2 DEF CdpInv, ServerInv, Heard, Hearings
    <3>2. CASE h[1] = c
      <4>1. PICK l \in DOMAIN sessions[c] : LET o == sessions[c][l] IN
               o.id = h[2] /\ o.level = "page" /\ o.children /\ <<o.tab, h[3]>> \in children
        BY <3>1, <3>2 DEF Hears
      <4>2. PICK j \in DOMAIN w : w[j] = sessions[c][l]
        BY <1>3, <3>1, <3>2, <4>1
      <4>3. children' = children
        BY ONLY <1>1
      <4>. QED BY ONLY <1>5, <3>1, <3>2, <4>1, <4>2, <4>3 DEF Hears
    <3>3. CASE h[1] # c
      BY <1>1, <1>5, <3>1, <3>3 DEF Hears
    <3>. QED BY <3>2, <3>3
  <2>3. Once(heard')
    BY <1>1, OnceFewer DEF CdpInv, ServerInv, Heard
  <2>4. \A d \in Clients : front'[d] = "gone" => sessions'[d] = <<>>
    BY <1>1, <1>2, <1>5 DEF CdpInv, ServerInv, Gone, Here
  <2>. QED BY <1>1, <1>2, <1>5, <2>1, <2>2, <2>3, <2>4, FewerKeep
<1>8. ChromeInv'
  BY <1>1, ChromeRests DEF CdpInv
<1>. QED BY <1>6, <1>7, <1>8 DEF CdpInv

\* One session of a client at most hears of a tab's frames, and it has asked to.
LEMMA OwnerIs ==
    ASSUME CdpInv, NEW c \in Clients, NEW t
    PROVE  /\ \A a, b \in Owners(c, t) : a = b
           /\ Owners(c, t) \subseteq SessionIds
           /\ \A a \in Owners(c, t) : \E i \in DOMAIN sessions[c] :
                 LET r == sessions[c][i] IN r.id = a /\ r.level = "page" /\ r.tab = t /\ r.children
           /\ \A i \in DOMAIN sessions[c] :
                 LET r == sessions[c][i] IN r.level = "page" /\ r.tab = t /\ r.children => Owners(c, t) # {}
<1>. DEFINE asked == {i \in PageSessions(c, t) : sessions[c][i].children}
            first == {i \in asked : \A j \in asked : i <= j}
<1>1. asked \in SUBSET DOMAIN sessions[c] /\ DOMAIN sessions[c] \subseteq Nat
  <2>1. sessions[c] \in Seq(Rows)
    BY DEF CdpInv, CdpTypeOK
  <2>. QED BY <2>1 DEF PageSessions
<1>2. Owners(c, t) = {sessions[c][i].id : i \in first}
  BY DEF Owners
<1>3. \A i \in DOMAIN sessions[c] : i \in asked <=>
         sessions[c][i].tab = t /\ sessions[c][i].level = "page" /\ sessions[c][i].children
  BY DEF PageSessions
<1>. HIDE DEF asked
<1>4. \A i, j \in first : i = j
  BY <1>1
<1>5. asked # {} => first # {}
  <2>1. ASSUME asked # {} PROVE \E i \in asked : \A j \in asked : ~(<<j, i>> \in OpToRel(<, Nat))
    BY <1>1, <2>1, WFMin, NatLessThanWellFounded
  <2>2. ASSUME NEW i \in asked, NEW j \in asked, ~(<<j, i>> \in OpToRel(<, Nat)) PROVE i <= j
    <3>1. i \in Nat /\ j \in Nat
      BY <1>1
    <3>2. ASSUME j < i PROVE FALSE
      <4>1. <<j, i>> \in Nat \X Nat /\ <<j, i>>[1] < <<j, i>>[2]
        BY <3>1, <3>2
      <4>. QED BY <2>2, <4>1 DEF OpToRel
    <3>. QED BY <3>1, <3>2
  <2>. QED BY <2>1, <2>2
<1>. HIDE DEF first
<1>6. \A i \in first : i \in asked
  BY DEF first
<1>7. \A i \in DOMAIN sessions[c] : sessions[c][i].id \in SessionIds
  BY SessionHere
<1>. QED BY <1>1, <1>2, <1>3, <1>4, <1>5, <1>6, <1>7

\* Sessions marked, or no longer.
LEMMA MarkedStands ==
    ASSUME CdpInv, NEW S \in [Clients -> Seq(Rows)],
           \A c \in Clients : /\ DOMAIN S[c] = DOMAIN sessions[c]
                              /\ \A i \in DOMAIN S[c] : /\ S[c][i].id = sessions[c][i].id
                                                        /\ S[c][i].tab = sessions[c][i].tab
    PROVE  Succeeds(S) /\ \A c \in Clients : IdsApart(S[c])
<1>1. Succeeds(S)
  BY DEF Succeeds
<1>2. \A c \in Clients : IdsApart(S[c])
  BY DEF CdpInv, ServerInv, Apart, IdsApart
<1>. QED BY <1>1, <1>2

LEMMA StutterKeeps == ASSUME CdpInv, UNCHANGED cdpVars PROVE CdpInv'
<1>1. CdpTypeOK'
  BY DEF CdpInv, CdpTypeOK, cdpVars, serverSide, chromeSide
<1>2. ServerInv'
  BY DEF CdpInv, ServerInv, AskersFit, Apart, Heard, Ending, Gone, cdpVars, serverSide, chromeSide
<1>3. ChromeInv'
  BY ChromeRests DEF CdpInv, cdpVars, serverSide, chromeSide
<1>. QED BY <1>1, <1>2, <1>3 DEF CdpInv

LEMMA RowMarks ==
    ASSUME NEW r \in Rows, NEW yes \in BOOLEAN
    PROVE  LET m == [r EXCEPT !.children = yes]
           IN  m \in Rows /\ m.id = r.id /\ m.tab = r.tab /\ m.level = r.level /\ m.children = yes
BY DEF Rows

LEMMA FramesTold ==
    ASSUME NEW c, NEW id, NEW t, NEW K, NEW C, NEW h \in {<<c, id, k>> : k \in {k \in K : <<t, k>> \in C}}
    PROVE  h[1] = c /\ h[2] = id /\ h[3] \in K /\ <<t, h[3]>> \in C /\ h = <<c, id, h[3]>>
<1>1. PICK k \in {k \in K : <<t, k>> \in C} : h = <<c, id, k>>
  OBVIOUS
<1>. QED BY <1>1

LEMMA JoinKeeps ==
    ASSUME CdpInv, NEW c \in Clients, NEW i \in DOMAIN sessions[c], JoinsChildren(c, sessions[c][i])
    PROVE  CdpInv'
<1>. DEFINE r == sessions[c][i]
            told == {<<c, r.id, k>> : k \in {k \in Kids : <<r.tab, k>> \in children}}
            w == [j \in DOMAIN sessions[c] |-> IF sessions[c][j] = r THEN [r EXCEPT !.children = TRUE] ELSE sessions[c][j]]
<1>1. Here(c) /\ ~closed /\ sessions[c] \in Seq(Rows) /\ r \in Rows /\ r.id \in SessionIds /\ r.tab \in CdpTabs
  BY SessionHere
<1>2. CASE Owners(c, r.tab) # {}
  <2>1. UNCHANGED cdpVars
    BY <1>2 DEF JoinsChildren, cdpVars, serverSide, chromeSide
  <2>. QED BY <2>1, StutterKeeps
<1>3. CASE Owners(c, r.tab) = {}
  <2>1. /\ r.level = "page" /\ sessions' = [sessions EXCEPT ![c] = w] /\ heard' = heard \cup told
        /\ UNCHANGED <<tabs, front, children, autoAttached, enabled, closed, chromeSide, ask, tell>>
    BY <1>3 DEF JoinsChildren
  <2>2. sessions \in [Clients -> Seq(Rows)] /\ heard \subseteq Hearings
    BY DEF CdpInv, CdpTypeOK, Hearings
  <2>3. \A j \in DOMAIN sessions[c] : LET o == sessions[c][j] IN
           /\ w[j] \in Rows /\ w[j].id = o.id /\ w[j].tab = o.tab /\ w[j].level = o.level
           /\ o.children => w[j].children
           /\ o = r => w[j].children
    <3>. DEFINE m == [r EXCEPT !.children = TRUE]
    <3>1. m \in Rows /\ m.id = r.id /\ m.tab = r.tab /\ m.level = r.level /\ m.children = TRUE
      BY <1>1, RowMarks
    <3>2. \A j \in DOMAIN sessions[c] : sessions[c][j] \in Rows
      BY <1>1
    <3>3. \A j \in DOMAIN sessions[c] : w[j] = IF sessions[c][j] = r THEN m ELSE sessions[c][j]
      OBVIOUS
    <3>. HIDE DEF m, r, w
    <3>. QED BY <3>1, <3>2, <3>3
  <2>4. w \in Seq(Rows) /\ DOMAIN w = DOMAIN sessions[c]
    <3>1. DOMAIN w = DOMAIN sessions[c] /\ DOMAIN sessions[c] = 1..Len(sessions[c]) /\ Len(sessions[c]) \in Nat
      BY <1>1
    <3>2. w = [j \in 1..Len(sessions[c]) |-> w[j]]
      BY <3>1
    <3>. HIDE DEF w
    <3>3. \A j \in 1..Len(sessions[c]) : w[j] \in Rows
      BY <2>3, <3>1
    <3>. QED BY <3>1, <3>2, <3>3
  <2>. HIDE DEF w, r
  <2>10. \A h \in told : h[1] = c /\ h[2] = r.id /\ h[3] \in Kids /\ <<r.tab, h[3]>> \in children /\ h = <<c, r.id, h[3]>>
    BY FramesTold
  <2>5. sessions' \in [Clients -> Seq(Rows)] /\ sessions'[c] = w /\ \A d \in Clients \ {c} : sessions'[d] = sessions[d]
    BY <2>1, <2>2, <2>4
  <2>6. told \subseteq Hearings
    <3>1. ASSUME NEW h \in told PROVE h \in Hearings
      <4>1. h = <<c, r.id, h[3]>> /\ h[3] \in Kids
        BY <2>10
      <4>2. <<c, r.id, h[3]>> \in Hearings
        BY <1>1, <4>1 DEF Hearings
      <4>. QED BY <4>1, <4>2
    <3>. QED BY <3>1
  <2>7. CdpTypeOK'
    BY <2>1, <2>2, <2>5, <2>6 DEF CdpInv, CdpTypeOK, chromeSide, Hearings
  <2>8. ServerInv'
    <3>1. Succeeds(sessions') /\ \A d \in Clients : IdsApart(sessions'[d])
      BY <2>3, <2>4, <2>5, MarkedStands
    <3>2. \A h \in heard : Hears(h, sessions', children')
      <4>1. ASSUME NEW h \in heard PROVE Hears(h, sessions', children')
        <5>1. h[1] \in Clients /\ Hears(h, sessions, children)
          BY <2>2 DEF CdpInv, ServerInv, Heard, Hearings
        <5>2. CASE h[1] = c
          <6>1. PICK j \in DOMAIN sessions[c] : LET o == sessions[c][j] IN
                   o.id = h[2] /\ o.level = "page" /\ o.children /\ <<o.tab, h[3]>> \in children
            BY <5>1, <5>2 DEF Hears
          <6>2. /\ j \in DOMAIN sessions'[h[1]] /\ sessions'[h[1]][j] = w[j]
                /\ w[j].id = h[2] /\ w[j].level = "page" /\ w[j].children /\ <<w[j].tab, h[3]>> \in children'
            BY <2>1, <2>3, <2>4, <2>5, <5>2, <6>1
          <6>. QED BY <6>2 DEF Hears
        <5>3. CASE h[1] # c
          BY <2>1, <2>5, <5>1, <5>3 DEF Hears
        <5>. QED BY <5>2, <5>3
      <4>. QED BY <4>1
    <3>3. \A h \in told : Hears(h, sessions', children')
      <4>1. r = sessions[c][i]
        BY DEF r
      <4>2. ASSUME NEW h \in told PROVE Hears(h, sessions', children')
        <5>1. h[1] = c /\ h[2] = r.id /\ <<r.tab, h[3]>> \in children
          BY <2>10
        <5>2. /\ w[i].id = r.id /\ w[i].level = "page" /\ w[i].children /\ w[i].tab = r.tab /\ i \in DOMAIN w
          BY <2>1, <2>3, <2>4, <4>1
        <5>. QED BY <2>1, <2>5, <5>1, <5>2 DEF Hears
      <4>. QED BY <4>2
    <3>4. ASSUME NEW g \in heard, NEW h \in told, g[1] = h[1], g[3] = h[3] PROVE FALSE
      <4>1. h[1] = c /\ <<r.tab, h[3]>> \in children
        BY <2>10
      <4>2. PICK j \in DOMAIN sessions[c] : LET o == sessions[c][j] IN
               o.id = g[2] /\ o.level = "page" /\ o.children /\ <<o.tab, h[3]>> \in children
        BY <3>4, <4>1 DEF CdpInv, ServerInv, Heard, Hears
      <4>3. OneTabEach(children)
        BY <1>1 DEF CdpInv, ChromeInv, Link
      <4>4. sessions[c][j].tab = r.tab
        BY <4>1, <4>2, <4>3 DEF OneTabEach
      <4>. QED BY <1>3, <4>2, <4>4, OwnerIs
    <3>5. \A g, h \in told : g[3] = h[3] => g = h
      BY <2>10
    <3>6. Once(heard')
      <4>1. Once(heard)
        BY DEF CdpInv, ServerInv, Heard
      <4>. HIDE DEF told
      <4>. QED BY <2>1, <3>4, <3>5, <4>1 DEF Once
    <3>7. \A d \in Clients : front'[d] = "gone" => sessions'[d] = <<>>
      BY <1>1, <2>1, <2>5 DEF CdpInv, ServerInv, Gone, Here
    <3>8. \A h \in heard' : Hears(h, sessions', children')
      BY <2>1, <3>2, <3>3
    <3>. QED BY <1>1, <2>1, <2>5, <3>1, <3>6, <3>7, <3>8, FewerKeep
  <2>9. ChromeInv'
    BY <2>1, ChromeRests DEF CdpInv
  <2>. QED BY <2>7, <2>8, <2>9 DEF CdpInv
<1>. QED BY <1>2, <1>3

---------------------------------------------------------------------------
(* The server hears the link. *)

LEMMA NewsAre ==
    ASSUME NEW e \in Told
    PROVE  /\ e.m \in {"shared", "unshared", "attached", "detached", "answer"}
           /\ e.m # "answer" => e.tab \in CdpTabs
           /\ e.m \in {"attached", "detached"} => e.kid \in Kids
           /\ e.m = "answer" => e.ok \in BOOLEAN /\ e.to \in Asked
BY DEF Told

LEMMA AskedAre ==
    ASSUME NEW a \in Asked
    PROVE  a.tab \in CdpTabs /\ a.of \in Clients \cup {NoClient} /\ a.id \in SessionIds \cup {0} /\ a.what \in Verbs
           /\ a.kid \in Kids \cup {NoTab}
BY DEF Asked

\* What is on stays noted: the first message is heard.
LEMMA ChromeHears ==
    ASSUME CdpInv, ~closed, tell # <<>>, tell' = Tail(tell), UNCHANGED <<closed, chromeSide, ask>>,
           children' = After(Head(tell), children),
           \A t \in on : /\ TurnsOn(Head(tell), t) => t \in enabled'
                         /\ t \in enabled /\ ~TurnsOff(Head(tell), t) => t \in enabled'
    PROVE  ChromeInv'
<1>1. tell \in Seq(Told) /\ children \in SUBSET (CdpTabs \X Kids)
  BY DEF CdpInv, CdpTypeOK
<1>2. Met' /\ Live' = Live /\ Bound' = Bound
  BY DEF CdpInv, ChromeInv, Met, Live, Bound, chromeSide
<1>3. Link(tell', children', Live, Bound)
  BY <1>1, LinkHears DEF CdpInv, ChromeInv
<1>. DEFINE e == Head(tell)
            p == Tail(tell)
<1>4. /\ 1 \in DOMAIN tell /\ tell[1] = e /\ DOMAIN tell \subseteq Nat \ {0}
      /\ \A i \in DOMAIN p : i + 1 \in DOMAIN tell /\ p[i] = tell[i + 1]
      /\ \A i \in DOMAIN tell : i # 1 => i - 1 \in DOMAIN p /\ p[i - 1] = tell[i]
  BY <1>1, TailIs
<1>5. DOMAIN p \subseteq Nat \ {0}
  BY <1>1, TailIs
<1>6. tell' = p
  OBVIOUS
<1>7. \A t \in on : (TurnsOn(e, t) => t \in enabled') /\ (t \in enabled /\ ~TurnsOff(e, t) => t \in enabled')
  OBVIOUS
<1>. HIDE DEF e, p
<1>8. ASSUME NEW t \in on \ overdue PROVE Noted(t, enabled', p, ask)
  <2>1. Noted(t, enabled, tell, ask)
    BY <1>8 DEF CdpInv, ChromeInv, AllNoted
  <2>2. ASSUME NEW i \in DOMAIN tell, TurnsOn(tell[i], t), \A j \in DOMAIN tell : j > i => ~TurnsOff(tell[j], t)
        PROVE  Noted(t, enabled', p, ask)
    <3>1. CASE i = 1
      <4>1. \A j \in DOMAIN p : ~TurnsOff(p[j], t)
        <5>1. ASSUME NEW j \in DOMAIN p PROVE ~TurnsOff(p[j], t)
          <6>1. j + 1 \in DOMAIN tell /\ p[j] = tell[j + 1] /\ j + 1 > i
            BY <1>4, <1>5, <3>1
          <6>. QED BY <2>2, <6>1
        <5>. QED BY <5>1
      <4>2. t \in enabled'
        BY <1>4, <1>7, <1>8, <2>2, <3>1
      <4>. QED BY <4>1, <4>2 DEF Noted
    <3>2. CASE i # 1
      <4>1. i - 1 \in DOMAIN p /\ p[i - 1] = tell[i]
        BY <1>4, <3>2
      <4>2. ASSUME NEW j \in DOMAIN p, j > i - 1 PROVE ~TurnsOff(p[j], t)
        <5>1. j + 1 \in DOMAIN tell /\ p[j] = tell[j + 1] /\ j + 1 > i
          BY <1>4, <1>5, <4>2
        <5>. QED BY <2>2, <5>1
      <4>. QED BY <2>2, <4>1, <4>2 DEF Noted
    <3>. QED BY <3>1, <3>2
  <2>3. ASSUME t \in enabled, \A j \in DOMAIN tell : ~TurnsOff(tell[j], t) PROVE Noted(t, enabled', p, ask)
    BY <1>4, <1>7, <1>8, <2>3 DEF Noted
  <2>. QED BY <2>1, <2>2, <2>3 DEF Noted
<1>9. AllNoted'
  BY <1>6, <1>8 DEF AllNoted, chromeSide
<1>. QED BY <1>2, <1>3, <1>9 DEF ChromeInv

LEMMA HearsShared ==
    ASSUME CdpInv, ~closed, tell # <<>>, tell' = Tail(tell), UNCHANGED <<front, closed, chromeSide, ask>>,
           Head(tell).m = "shared", OnShared(Head(tell).tab)
    PROVE  CdpInv'
<1>. DEFINE t == Head(tell).tab
            C == {c \in Clients : Here(c)}
<1>1. tell \in Seq(Told) /\ tabs \in SUBSET CdpTabs /\ sessions \in [Clients -> Seq(Rows)]
      /\ front \in [Clients -> {"gone", "off", "tabs", "pages"}]
  BY DEF CdpInv, CdpTypeOK
<1>2. tell' \in Seq(Told) /\ Head(tell) \in Told /\ \A i \in DOMAIN tell' : \E j \in DOMAIN tell : tell'[i] = tell[j]
  BY <1>1, TailIs
<1>3. t \in CdpTabs
  BY <1>2, NewsAre
<1>. HIDE DEF t
<1>4. /\ RoomToAttach(C, front, {t}) /\ tabs' = tabs \cup {t}
      /\ sessions' = [c \in Clients |-> IF Here(c) THEN AttachedTo(c, front[c], {t}) ELSE sessions[c]]
      /\ UNCHANGED <<children, autoAttached, enabled, heard>>
  BY DEF OnShared, t
<1>5. ASSUME NEW c \in Clients, Here(c) PROVE Opened(c, AttachedTo(c, front[c], {t}))
  <2>1. front[c] \in {"off", "tabs", "pages"} /\ {t} \in SUBSET CdpTabs
    BY <1>1, <1>3, <1>5 DEF Here
  <2>2. Cardinality(Unattached(c, front[c], {t})) <= Cardinality(FreeIds(c))
    BY <1>4, <1>5 DEF RoomToAttach
  <2>. QED BY <2>1, <2>2, AttachesAll DEF CdpInv
<1>6. \A c \in Clients : sessions'[c] = sessions[c] \/ (Here(c) /\ Opened(c, sessions'[c]))
  BY <1>4, <1>5
<1>7. sessions' \in [Clients -> Seq(Rows)]
  <2>1. \A c \in Clients : sessions'[c] \in Seq(Rows)
    BY <1>1, <1>6, OpenedType
  <2>2. \A c \in Clients : Here(c) => AttachedTo(c, front[c], {t}) \in Seq(Rows)
    BY <1>5, OpenedType
  <2>. QED BY <1>1, <1>4, <2>2
<1>8. CdpTypeOK'
  BY <1>2, <1>3, <1>4, <1>7 DEF CdpInv, CdpTypeOK, chromeSide
<1>9. ServerInv'
  BY <1>2, <1>4, <1>6, <1>7, OpenKeeps DEF CdpInv
<1>10. ChromeInv'
  <2>1. children' = After(Head(tell), children)
    BY <1>4 DEF After
  <2>2. \A s : ~TurnsOn(Head(tell), s)
    BY DEF TurnsOn, Waits
  <2>. QED BY <1>4, <2>1, <2>2, ChromeHears
<1>. QED BY <1>8, <1>9, <1>10 DEF CdpInv

LEMMA NoRows == ASSUME NEW w \in Seq(Rows), DOMAIN w = {} PROVE w = <<>>
<1>1. Len(w) \in Nat /\ DOMAIN w = 1..Len(w)
  OBVIOUS
<1>2. Len(w) = 0
  BY <1>1
<1>. QED BY <1>2, EmptySeq

LEMMA HearsUnshared ==
    ASSUME CdpInv, ~closed, tell # <<>>, tell' = Tail(tell), UNCHANGED <<front, closed, chromeSide, ask>>,
           Head(tell).m = "unshared", OnUnshared(Head(tell).tab)
    PROVE  CdpInv'
<1>. DEFINE t == Head(tell).tab
            D(c) == {r \in ToSet(sessions[c]) : r.tab = t}
<1>1. /\ tell \in Seq(Told) /\ tabs \in SUBSET CdpTabs /\ sessions \in [Clients -> Seq(Rows)]
      /\ children \subseteq CdpTabs \X Kids /\ enabled \subseteq CdpTabs /\ autoAttached \subseteq CdpTabs
      /\ heard \subseteq Hearings
  BY DEF CdpInv, CdpTypeOK, Hearings
<1>2. tell' \in Seq(Told) /\ \A i \in DOMAIN tell' : \E j \in DOMAIN tell : tell'[i] = tell[j]
  BY <1>1, TailIs
<1>3. /\ tabs' = tabs \ {t} /\ children' = {x \in children : x[1] # t} /\ autoAttached' = autoAttached \ {t}
      /\ enabled' = enabled \ {t} /\ sessions' = [c \in Clients |-> Without(sessions[c], D(c))]
      /\ heard' = heard \ {h \in heard : \E i \in DOMAIN sessions[h[1]] :
                                            sessions[h[1]][i].id = h[2] /\ sessions[h[1]][i].tab = t}
  BY DEF OnUnshared, Forgets
<1>4. ChromeInv'
  <2>1. children' = After(Head(tell), children)
    BY <1>3 DEF After
  <2>2. \A s : ~TurnsOn(Head(tell), s) /\ (TurnsOff(Head(tell), s) <=> s = t)
    BY DEF TurnsOn, TurnsOff, Waits
  <2>3. \A s \in enabled : ~TurnsOff(Head(tell), s) => s \in enabled'
    BY <1>3, <2>2
  <2>. QED BY <2>1, <2>2, <2>3, ChromeHears
<1>. HIDE DEF t
<1>5. ASSUME NEW c \in Clients
      PROVE  /\ sessions'[c] \in Seq(Rows)
             /\ \A i \in DOMAIN sessions'[c] : \E j \in DOMAIN sessions[c] : sessions'[c][i] = sessions[c][j]
             /\ \A j \in DOMAIN sessions[c] : sessions[c][j].tab # t =>
                   \E i \in DOMAIN sessions'[c] : sessions'[c][i] = sessions[c][j]
             /\ IdsApart(sessions'[c])
  <2>1. sessions'[c] = Without(sessions[c], D(c)) /\ sessions[c] \in Seq(Rows)
    BY <1>1, <1>3
  <2>2. \A j \in DOMAIN sessions[c] : sessions[c][j] \notin D(c) <=> sessions[c][j].tab # t
    BY DEF ToSet
  <2>3. IdsApart(sessions[c])
    BY DEF CdpInv, ServerInv, Apart
  <2>. HIDE DEF D
  <2>. QED BY <2>1, <2>2, <2>3, WithoutLeaves
<1>6. sessions' \in [Clients -> Seq(Rows)]
  BY <1>3, <1>5
<1>7. CdpTypeOK'
  <2>1. heard' \subseteq Clients \X SessionIds \X Kids
    BY <1>1, <1>3 DEF Hearings
  <2>. QED BY <1>1, <1>2, <1>3, <1>6, <2>1 DEF CdpInv, CdpTypeOK, chromeSide
<1>8. ServerInv'
  <2>1. Succeeds(sessions')
    BY <1>5 DEF Succeeds
  <2>2. ASSUME NEW h \in heard' PROVE Hears(h, sessions', children')
    <3>1. h \in heard /\ h[1] \in Clients
      BY <1>1, <1>3 DEF Hearings
    <3>2. PICK i \in DOMAIN sessions[h[1]] : LET r == sessions[h[1]][i] IN
             r.id = h[2] /\ r.level = "page" /\ r.children /\ <<r.tab, h[3]>> \in children
      BY <3>1 DEF CdpInv, ServerInv, Heard, Hears
    <3>3. sessions[h[1]][i].tab # t
      BY <1>3, <2>2, <3>1, <3>2
    <3>4. PICK j \in DOMAIN sessions'[h[1]] : sessions'[h[1]][j] = sessions[h[1]][i]
      BY <1>5, <3>1, <3>3
    <3>5. <<sessions[h[1]][i].tab, h[3]>> \in children'
      BY <1>3, <3>2, <3>3
    <3>. QED BY <3>2, <3>4, <3>5 DEF Hears
  <2>3. Once(heard')
    BY <1>3, OnceFewer DEF CdpInv, ServerInv, Heard
  <2>4. ASSUME NEW c \in Clients, front'[c] = "gone" PROVE sessions'[c] = <<>>
    <3>1. sessions[c] = <<>>
      BY <2>4 DEF CdpInv, ServerInv, Gone
    <3>2. DOMAIN sessions[c] = {}
      BY <3>1
    <3>3. DOMAIN sessions'[c] = {} /\ sessions'[c] \in Seq(Rows)
      BY <1>5, <3>2
    <3>. QED BY <3>3, NoRows
  <2>. QED BY <1>2, <1>5, <1>6, <2>1, <2>2, <2>3, <2>4, FewerKeep
<1>. QED BY <1>4, <1>7, <1>8 DEF CdpInv

LEMMA HearsFrame ==
    ASSUME CdpInv, ~closed, tell # <<>>, tell' = Tail(tell), UNCHANGED <<front, closed, chromeSide, ask>>,
           Head(tell).m \in {"attached", "detached"}, OnFrame(Head(tell))
    PROVE  CdpInv'
<1>. DEFINE e == Head(tell)
            new == {h \in Clients \X SessionIds \X {e.kid} : h[2] \in Owners(h[1], e.tab)}
            lost == {h \in heard : h[3] = e.kid /\ Owners(h[1], e.tab) # {}}
<1>1. /\ tell \in Seq(Told) /\ sessions \in [Clients -> Seq(Rows)]
      /\ children \in SUBSET (CdpTabs \X Kids) /\ heard \subseteq Hearings
      /\ Link(tell, children, Live, Bound)
  BY DEF CdpInv, CdpTypeOK, ChromeInv, Hearings
<1>2. tell' \in Seq(Told) /\ e \in Told /\ \A i \in DOMAIN tell' : \E j \in DOMAIN tell : tell'[i] = tell[j]
  BY <1>1, TailIs
<1>3. e.tab \in CdpTabs /\ e.kid \in Kids
  BY <1>2, NewsAre
<1>4. e.m = "attached" => \A x \in children : x[2] # e.kid
  <2>1. tell # <<>>
    OBVIOUS
  <2>2. /\ Link(Tail(tell), After(Head(tell), children), Live, Bound)
        /\ Head(tell).m = "attached" => \A x \in children : x[2] # Head(tell).kid
        /\ Empties(Head(tell)) => \A x \in children : x[1] # Head(tell).to.tab
    BY ONLY <1>1, <2>1, LinkHears
  <2>. QED BY <2>2
<1>5. UNCHANGED <<tabs, sessions, autoAttached, enabled>>
  BY DEF OnFrame
<1>6. /\ e.m = "attached" => children' = children \cup {<<e.tab, e.kid>>} /\ heard' = heard \cup new
      /\ e.m = "detached" => children' = children \ {<<e.tab, e.kid>>} /\ heard' = heard \ lost
  BY DEF OnFrame, Forgets
<1>7. ChromeInv'
  <2>1. children' = After(Head(tell), children)
    BY <1>6 DEF After
  <2>2. \A s : ~TurnsOn(Head(tell), s)
    BY DEF TurnsOn, Waits
  <2>. QED BY <1>5, <2>1, <2>2, ChromeHears
<1>8. e.m \in {"attached", "detached"}
  OBVIOUS
<1>. HIDE DEF e
<1>9. new \subseteq Hearings
  BY <1>3 DEF Hearings
<1>10. CdpTypeOK'
  <2>1. children' \subseteq CdpTabs \X Kids
    BY <1>1, <1>3, <1>6, <1>8
  <2>2. heard' \subseteq Clients \X SessionIds \X Kids
    BY <1>1, <1>6, <1>8, <1>9 DEF Hearings
  <2>. QED BY <1>2, <1>5, <2>1, <2>2 DEF CdpInv, CdpTypeOK, chromeSide
<1>11. ASSUME NEW h \in heard
       PROVE  /\ h[1] \in Clients
              /\ \E i \in DOMAIN sessions[h[1]] : LET r == sessions[h[1]][i] IN
                    r.id = h[2] /\ r.level = "page" /\ r.children /\ <<r.tab, h[3]>> \in children
  BY <1>1 DEF CdpInv, ServerInv, Heard, Hears, Hearings
<1>12. Once(heard)
  BY DEF CdpInv, ServerInv, Heard
<1>13. (\A h \in heard' : Hears(h, sessions', children')) /\ Once(heard')
  <2>1. CASE e.m = "attached"
    <3>1. ASSUME NEW h \in heard PROVE Hears(h, sessions', children') /\ h[3] # e.kid
      <4>1. PICK i \in DOMAIN sessions[h[1]] : LET r == sessions[h[1]][i] IN
               r.id = h[2] /\ r.level = "page" /\ r.children /\ <<r.tab, h[3]>> \in children
        BY <1>11
      <4>2. <<sessions[h[1]][i].tab, h[3]>>[2] = h[3]
        OBVIOUS
      <4>3. h[3] # e.kid
        BY <1>4, <2>1, <4>1, <4>2
      <4>. QED BY <1>5, <1>6, <2>1, <4>1, <4>3 DEF Hears
    <3>2. ASSUME NEW h \in new PROVE h[1] \in Clients /\ h[2] \in Owners(h[1], e.tab) /\ h[3] = e.kid
      OBVIOUS
    <3>3. ASSUME NEW h \in new PROVE Hears(h, sessions', children')
      <4>1. PICK i \in DOMAIN sessions[h[1]] : LET r == sessions[h[1]][i] IN
               r.id = h[2] /\ r.level = "page" /\ r.tab = e.tab /\ r.children
        BY <3>2, OwnerIs
      <4>2. <<e.tab, h[3]>> \in children'
        BY <1>6, <2>1, <3>2
      <4>. QED BY <1>5, <4>1, <4>2 DEF Hears
    <3>4. ASSUME NEW g \in new, NEW h \in new, g[1] = h[1] PROVE g = h
      <4>1. g[2] = h[2] /\ g[3] = h[3]
        BY <3>2, <3>4, OwnerIs
      <4>. QED BY <3>4, <4>1
    <3>5. heard' = heard \cup new
      BY <1>6, <2>1
    <3>6. \A h \in new : h[3] = e.kid
      BY <3>2
    <3>. HIDE DEF new
    <3>7. Once(heard')
      BY <1>12, <3>1, <3>4, <3>5, <3>6 DEF Once
    <3>. QED BY <3>1, <3>3, <3>5, <3>7
  <2>2. CASE e.m = "detached"
    <3>1. heard' = heard \ lost /\ children' = children \ {<<e.tab, e.kid>>}
      BY <1>6, <2>2
    <3>2. ASSUME NEW h \in heard, h \notin lost PROVE Hears(h, sessions', children')
      <4>1. PICK i \in DOMAIN sessions[h[1]] : LET r == sessions[h[1]][i] IN
               r.id = h[2] /\ r.level = "page" /\ r.children /\ <<r.tab, h[3]>> \in children
        BY <1>11
      <4>2. <<sessions[h[1]][i].tab, h[3]>> # <<e.tab, e.kid>>
        <5>1. ASSUME sessions[h[1]][i].tab = e.tab, h[3] = e.kid PROVE FALSE
          <6>1. Owners(h[1], e.tab) # {}
            BY <1>11, <4>1, <5>1, OwnerIs
          <6>. QED BY <3>2, <5>1, <6>1
        <5>. QED BY <5>1
      <4>. QED BY <1>5, <3>1, <4>1, <4>2 DEF Hears
    <3>3. Once(heard')
      BY <1>12, <3>1, OnceFewer
    <3>. QED BY <3>1, <3>2, <3>3
  <2>. QED BY <1>8, <2>1, <2>2
<1>14. ServerInv'
  <2>1. Succeeds(sessions') /\ \A c \in Clients : IdsApart(sessions'[c])
    BY <1>1, <1>5, MarkedStands
  <2>2. \A d \in Clients : front'[d] = "gone" => sessions'[d] = <<>>
    BY <1>5 DEF CdpInv, ServerInv, Gone
  <2>. QED BY <1>1, <1>2, <1>5, <1>13, <2>1, <2>2, FewerKeep
<1>. QED BY <1>7, <1>10, <1>14 DEF CdpInv

\* S is sessions with the one of this name marked, or no longer.
MarkedAs(S, c, id, yes) ==
    \A d \in Clients :
        /\ S[d] \in Seq(Rows) /\ DOMAIN S[d] = DOMAIN sessions[d]
        /\ \A i \in DOMAIN sessions[d] :
              /\ S[d][i].id = sessions[d][i].id /\ S[d][i].tab = sessions[d][i].tab
              /\ S[d][i].level = sessions[d][i].level
              /\ sessions[d][i].children => S[d][i].children \/ (d = c /\ sessions[d][i].id = id /\ ~yes)

LEMMA MarkIs ==
    ASSUME sessions \in [Clients -> Seq(Rows)], NEW c \in Clients, NEW id, NEW yes \in BOOLEAN
    PROVE  Mark(c, id, yes) \in [Clients -> Seq(Rows)] /\ MarkedAs(Mark(c, id, yes), c, id, yes)
<1>. DEFINE s == sessions[c]
            w == [i \in DOMAIN s |-> IF s[i].id = id THEN [s[i] EXCEPT !.children = yes] ELSE s[i]]
<1>1. Mark(c, id, yes) = [sessions EXCEPT ![c] = w]
  BY DEF Mark
<1>2. s \in Seq(Rows)
  OBVIOUS
<1>3. DOMAIN s = 1..Len(s) /\ Len(s) \in Nat /\ \A i \in DOMAIN s : s[i] \in Rows
  BY <1>2
<1>4. ASSUME NEW i \in DOMAIN s
      PROVE  /\ w[i] \in Rows /\ w[i].id = s[i].id /\ w[i].tab = s[i].tab /\ w[i].level = s[i].level
             /\ s[i].children => w[i].children \/ (s[i].id = id /\ ~yes)
  <2>. DEFINE m == [s[i] EXCEPT !.children = yes]
  <2>1. m \in Rows /\ m.id = s[i].id /\ m.tab = s[i].tab /\ m.level = s[i].level /\ m.children = yes
    BY <1>3, RowMarks
  <2>2. w[i] = IF s[i].id = id THEN m ELSE s[i]
    OBVIOUS
  <2>. HIDE DEF m, w, s
  <2>. QED BY <1>3, <2>1, <2>2
<1>5. w \in Seq(Rows) /\ DOMAIN w = DOMAIN s
  <2>1. DOMAIN w = DOMAIN s
    OBVIOUS
  <2>2. w = [i \in 1..Len(s) |-> w[i]]
    BY <1>3
  <2>. HIDE DEF w, s
  <2>3. \A i \in 1..Len(s) : w[i] \in Rows
    BY <1>3, <1>4
  <2>. QED BY <1>3, <2>1, <2>2, <2>3
<1>6. \A d \in Clients : Mark(c, id, yes)[d] = IF d = c THEN w ELSE sessions[d]
  BY <1>1
<1>7. Mark(c, id, yes) \in [Clients -> Seq(Rows)]
  <2>. HIDE DEF w, s
  <2>. QED BY <1>1, <1>5
<1>. HIDE DEF w
<1>8. ASSUME NEW d \in Clients
      PROVE  /\ Mark(c, id, yes)[d] \in Seq(Rows) /\ DOMAIN Mark(c, id, yes)[d] = DOMAIN sessions[d]
             /\ \A i \in DOMAIN sessions[d] : LET m == Mark(c, id, yes)[d][i]
                                                  r == sessions[d][i] IN
                   /\ m.id = r.id /\ m.tab = r.tab /\ m.level = r.level
                   /\ r.children => m.children \/ (d = c /\ r.id = id /\ ~yes)
  <2>1. CASE d = c
    BY <1>4, <1>5, <1>6, <2>1
  <2>2. CASE d # c
    BY <1>6, <2>2
  <2>. QED BY <2>1, <2>2
<1>. HIDE DEF s
<1>. QED BY <1>7, <1>8 DEF MarkedAs

LEMMA HearsAnswer ==
    ASSUME CdpInv, ~closed, tell # <<>>, tell' = Tail(tell), UNCHANGED <<front, closed, chromeSide, ask>>,
           Head(tell).m = "answer", Head(tell).ok, Head(tell).to.of # NoClient, OnAnswer(Head(tell).to)
    PROVE  CdpInv'
<1>. DEFINE e == Head(tell)
            a == e.to
<1>1. /\ tell \in Seq(Told) /\ sessions \in [Clients -> Seq(Rows)]
      /\ children \in SUBSET (CdpTabs \X Kids) /\ enabled \subseteq CdpTabs /\ autoAttached \subseteq CdpTabs
      /\ Link(tell, children, Live, Bound)
  BY DEF CdpInv, CdpTypeOK, ChromeInv
<1>2. tell' \in Seq(Told) /\ e \in Told /\ \A i \in DOMAIN tell' : \E j \in DOMAIN tell : tell'[i] = tell[j]
  BY <1>1, TailIs
<1>3. a \in Asked /\ a.of \in Clients /\ a.tab \in CdpTabs
  BY <1>2, NewsAre, AskedAre
<1>4. a.what = "autoOff" => \A x \in children : x[1] # a.tab
  <2>1. tell # <<>>
    OBVIOUS
  <2>2. /\ Link(Tail(tell), After(Head(tell), children), Live, Bound)
        /\ Head(tell).m = "attached" => \A x \in children : x[2] # Head(tell).kid
        /\ Empties(Head(tell)) => \A x \in children : x[1] # Head(tell).to.tab
    BY ONLY <1>1, <2>1, LinkHears
  <2>. QED BY <2>2 DEF Empties
<1>5. Fits(a, sessions)
  <2>1. 1 \in DOMAIN tell /\ tell[1] = e
    BY <1>1, TailIs
  <2>. QED BY <2>1 DEF CdpInv, ServerInv, AskersFit
<1>6. /\ a.what = "auto" => autoAttached' = autoAttached \cup {a.tab} /\ sessions' = Mark(a.of, a.id, TRUE)
      /\ a.what = "autoOff" => autoAttached' = autoAttached \ {a.tab} /\ sessions' = Mark(a.of, a.id, FALSE)
      /\ a.what \notin {"auto", "autoOff"} => UNCHANGED <<autoAttached, sessions>>
      /\ UNCHANGED <<tabs, children, heard>>
  BY DEF OnAnswer
<1>7. /\ a.what = "enable" => enabled' = enabled \cup {a.tab}
      /\ a.what = "disable" => enabled' = enabled \ {a.tab}
      /\ a.what \notin {"enable", "disable"} => enabled' = enabled
  BY DEF OnAnswer, Note
<1>8. ChromeInv'
  <2>1. children' = After(Head(tell), children)
    BY <1>6 DEF After
  <2>2. \A s : TurnsOn(Head(tell), s) => s \in enabled'
    BY <1>7 DEF TurnsOn
  <2>3. \A s : s \in enabled /\ ~TurnsOff(Head(tell), s) => s \in enabled'
    BY <1>7 DEF TurnsOff
  <2>. QED BY <2>1, <2>2, <2>3, ChromeHears
<1>. HIDE DEF a
<1>9. ASSUME NEW c \in Clients
      PROVE  /\ sessions'[c] \in Seq(Rows) /\ DOMAIN sessions'[c] = DOMAIN sessions[c]
             /\ \A i \in DOMAIN sessions[c] : LET m == sessions'[c][i]
                                                  r == sessions[c][i] IN
                   /\ m.id = r.id /\ m.tab = r.tab /\ m.level = r.level
                   /\ r.children => m.children \/ (a.what = "autoOff" /\ r.tab = a.tab)
  <2>1. CASE a.what = "auto"
    <3>1. sessions' = Mark(a.of, a.id, TRUE)
      BY <1>6, <2>1
    <3>2. MarkedAs(sessions', a.of, a.id, TRUE)
      BY <1>1, <1>3, <3>1, MarkIs
    <3>. QED BY <3>2 DEF MarkedAs
  <2>2. CASE a.what = "autoOff"
    <3>1. sessions' = Mark(a.of, a.id, FALSE)
      BY <1>6, <2>2
    <3>2. \A i \in DOMAIN sessions[a.of] : sessions[a.of][i].id = a.id => sessions[a.of][i].tab = a.tab
      BY <1>3, <1>5 DEF Fits
    <3>3. MarkedAs(sessions', a.of, a.id, FALSE)
      BY <1>1, <1>3, <3>1, MarkIs
    <3>4. /\ sessions'[c] \in Seq(Rows) /\ DOMAIN sessions'[c] = DOMAIN sessions[c]
          /\ \A i \in DOMAIN sessions[c] :
                /\ sessions'[c][i].id = sessions[c][i].id /\ sessions'[c][i].tab = sessions[c][i].tab
                /\ sessions'[c][i].level = sessions[c][i].level
                /\ sessions[c][i].children => sessions'[c][i].children \/ (c = a.of /\ sessions[c][i].id = a.id)
      BY <3>3 DEF MarkedAs
    <3>5. \A i \in DOMAIN sessions[c] : c = a.of /\ sessions[c][i].id = a.id => sessions[c][i].tab = a.tab
      BY <3>2
    <3>. HIDE DEF MarkedAs
    <3>. QED BY <2>2, <3>4, <3>5
  <2>3. CASE a.what \notin {"auto", "autoOff"}
    BY <1>1, <1>6, <2>3
  <2>. QED BY <2>1, <2>2, <2>3
<1>10. sessions' \in [Clients -> Seq(Rows)]
  <2>1. Mark(a.of, a.id, TRUE) \in [Clients -> Seq(Rows)] /\ Mark(a.of, a.id, FALSE) \in [Clients -> Seq(Rows)]
    BY <1>1, <1>3, MarkIs
  <2>. QED BY <1>1, <1>6, <2>1
<1>11. CdpTypeOK'
  <2>1. enabled' \subseteq CdpTabs
    BY <1>1, <1>3, <1>7
  <2>2. autoAttached' \subseteq CdpTabs
    BY <1>1, <1>3, <1>6
  <2>. QED BY <1>2, <1>6, <1>10, <2>1, <2>2 DEF CdpInv, CdpTypeOK, chromeSide
<1>12. ServerInv'
  <2>1. Succeeds(sessions') /\ \A c \in Clients : IdsApart(sessions'[c])
    BY <1>9, <1>10, MarkedStands
  <2>2. ASSUME NEW h \in heard' PROVE Hears(h, sessions', children')
    <3>1. h[1] \in Clients
      BY <1>6, <2>2 DEF CdpInv, CdpTypeOK
    <3>2. PICK i \in DOMAIN sessions[h[1]] : LET r == sessions[h[1]][i] IN
             r.id = h[2] /\ r.level = "page" /\ r.children /\ <<r.tab, h[3]>> \in children
      BY <1>6, <2>2 DEF CdpInv, ServerInv, Heard, Hears
    <3>3. <<sessions[h[1]][i].tab, h[3]>>[1] = sessions[h[1]][i].tab
      OBVIOUS
    <3>4. ~(a.what = "autoOff" /\ sessions[h[1]][i].tab = a.tab)
      BY <1>4, <3>2, <3>3
    <3>5. LET m == sessions'[h[1]][i] IN
             i \in DOMAIN sessions'[h[1]] /\ m.id = h[2] /\ m.level = "page" /\ m.children /\ <<m.tab, h[3]>> \in children'
      BY <1>6, <1>9, <3>1, <3>2, <3>4
    <3>. QED BY <3>5 DEF Hears
  <2>3. Once(heard')
    BY <1>6 DEF CdpInv, ServerInv, Heard
  <2>4. ASSUME NEW c \in Clients, front'[c] = "gone" PROVE sessions'[c] = <<>>
    <3>1. sessions[c] = <<>>
      BY <2>4 DEF CdpInv, ServerInv, Gone
    <3>2. DOMAIN sessions[c] = {}
      BY <3>1
    <3>. QED BY <1>9, <3>2, NoRows
  <2>. QED BY <1>2, <1>10, <2>1, <2>2, <2>3, <2>4, FewerKeep
<1>. QED BY <1>8, <1>11, <1>12 DEF CdpInv

LEMMA HearsNothing ==
    ASSUME CdpInv, ~closed, tell # <<>>, tell' = Tail(tell), UNCHANGED <<front, closed, chromeSide, ask>>,
           Head(tell).m = "answer", ~Head(tell).ok \/ Head(tell).to.of = NoClient,
           UNCHANGED <<tabs, sessions, children, autoAttached, enabled, heard>>
    PROVE  CdpInv'
<1>. DEFINE e == Head(tell)
<1>1. tell \in Seq(Told) /\ sessions \in [Clients -> Seq(Rows)]
  BY DEF CdpInv, CdpTypeOK
<1>2. tell' \in Seq(Told) /\ \A i \in DOMAIN tell' : \E j \in DOMAIN tell : tell'[i] = tell[j]
  BY <1>1, TailIs
<1>3. Fits(e.to, sessions)
  <2>1. 1 \in DOMAIN tell /\ tell[1] = e
    BY <1>1, TailIs
  <2>. QED BY <2>1 DEF CdpInv, ServerInv, AskersFit
<1>4. CdpTypeOK'
  BY <1>2 DEF CdpInv, CdpTypeOK, chromeSide
<1>5. ServerInv'
  <2>1. Succeeds(sessions') /\ \A c \in Clients : IdsApart(sessions'[c])
    BY <1>1, MarkedStands
  <2>2. (\A h \in heard' : Hears(h, sessions', children')) /\ Once(heard')
    BY DEF CdpInv, ServerInv, Heard
  <2>3. \A d \in Clients : front'[d] = "gone" => sessions'[d] = <<>>
    BY DEF CdpInv, ServerInv, Gone
  <2>. QED BY <1>1, <1>2, <2>1, <2>2, <2>3, FewerKeep
<1>6. ChromeInv'
  <2>1. children' = After(Head(tell), children)
    BY DEF After
  <2>2. \A s : ~TurnsOn(e, s)
    BY DEF TurnsOn, Waits
  <2>. QED BY <2>1, <2>2, ChromeHears
<1>. QED BY <1>4, <1>5, <1>6 DEF CdpInv

LEMMA HearKeeps == ASSUME CdpInv, HearsLink PROVE CdpInv'
<1>1. ~closed /\ tell # <<>> /\ tell' = Tail(tell) /\ UNCHANGED <<front, closed, chromeSide, ask>>
  BY DEF HearsLink
<1>. DEFINE e == Head(tell)
<1>2. \/ e.m = "shared" /\ OnShared(e.tab)
      \/ e.m = "unshared" /\ OnUnshared(e.tab)
      \/ e.m \in {"attached", "detached"} /\ OnFrame(e)
      \/ e.m = "answer" /\ e.ok /\ e.to.of # NoClient /\ OnAnswer(e.to)
      \/ /\ e.m = "answer" /\ (~e.ok \/ e.to.of = NoClient)
         /\ UNCHANGED <<tabs, sessions, children, autoAttached, enabled, heard>>
  BY DEF HearsLink
<1>. QED BY <1>1, <1>2, HearsShared, HearsUnshared, HearsFrame, HearsAnswer, HearsNothing

---------------------------------------------------------------------------
(* Chrome and the extension. *)

LEMMA GrownSame == ASSUME NEW S, NEW q \in Seq(S) PROVE Grown(q, q, {})
<1>1. DOMAIN q = 1..Len(q) /\ Len(q) \in Nat
  OBVIOUS
<1>. QED BY <1>1 DEF Grown

\* Frames are lost.
LEMMA LosesAre ==
    ASSUME CdpTypeOK, Met, NEW K \in SUBSET Kids, LoseKids(K)
    PROVE  /\ kid' \in [Kids -> CdpTabs \cup {NoTab}] /\ met' \in [Kids -> {"no", "handed", "told", "untold"}]
           /\ foreign' \subseteq Kids /\ Met'
           /\ Live' = {x \in Live : x[2] \notin K} /\ Bound' = Bound \ K
<1>1. /\ kid' = [k \in Kids |-> IF k \in K THEN NoTab ELSE kid[k]]
      /\ met' = [k \in Kids |-> IF k \in K THEN "no" ELSE met[k]] /\ foreign' = foreign \ K
  BY DEF LoseKids
<1>2. kid \in [Kids -> CdpTabs \cup {NoTab}] /\ met \in [Kids -> {"no", "handed", "told", "untold"}] /\ foreign \subseteq Kids
  BY DEF CdpTypeOK
<1>3. Met'
  BY <1>1 DEF Met
<1>4. ASSUME NEW x \in CdpTabs \X Kids PROVE x \in Live' <=> x \in Live /\ x[2] \notin K
  <2>1. x[1] \in CdpTabs /\ x[2] \in Kids /\ x[1] # NoTab
    BY LinkedCdpAssumption
  <2>. QED BY <1>1, <2>1 DEF Live
<1>5. Live' \subseteq CdpTabs \X Kids /\ Live \subseteq CdpTabs \X Kids
  BY DEF Live
<1>6. Bound' = Bound \ K
  BY <1>1 DEF Bound
<1>. QED BY <1>1, <1>2, <1>3, <1>4, <1>5, <1>6

\* A frame Chrome has was bound to a tab.
LEMMA LiveBound ==
    ASSUME CdpTypeOK
    PROVE  \A x \in Live : x[2] \in Bound /\ x = <<x[1], x[2]>> /\ x[1] \in CdpTabs /\ x[2] \in Kids /\ kid[x[2]] = x[1]
BY LinkedCdpAssumption DEF Live, Bound

\* The extension tells of the frames it had handed on.
LEMMA EndedIs ==
    ASSUME CdpTypeOK, Met, NEW K \in SUBSET Kids
    PROVE  /\ Ended(K) \in Seq(Told)
           /\ \A i \in DOMAIN Ended(K) : LET e == Ended(K)[i] IN
                 e.m = "detached" /\ <<e.tab, e.kid>> \in Live /\ e.kid \in K
           /\ \A x \in Live : x[2] \in K => \E i \in DOMAIN Ended(K) : Drops(Ended(K)[i], x)
           /\ \A i, j \in DOMAIN Ended(K) : Ended(K)[i].kid = Ended(K)[j].kid => i = j
<1>. DEFINE S == {j \in K : met[j] \in {"handed", "told"}}
            f == [k \in Kids |-> [m |-> "detached", tab |-> kid[k], kid |-> k]]
            R == {[m |-> "detached", tab |-> kid[k], kid |-> k] : k \in S}
<1>1. kid \in [Kids -> CdpTabs \cup {NoTab}] /\ met \in [Kids -> {"no", "handed", "told", "untold"}]
  BY DEF CdpTypeOK
<1>2. IsFiniteSet(R)
  <2>1. R = {f[k] : k \in S}
    OBVIOUS
  <2>2. IsFiniteSet(S)
    BY LinkedCdpAssumption, FS_Subset
  <2>. HIDE DEF S, f, R
  <2>. QED BY <2>1, <2>2, ImageIsFinite
<1>3. ASSUME NEW e \in R
      PROVE  e \in Told /\ e.m = "detached" /\ <<e.tab, e.kid>> \in Live /\ e.kid \in K /\ e.tab = kid[e.kid]
             /\ e = [m |-> "detached", tab |-> kid[e.kid], kid |-> e.kid]
  <2>1. PICK k \in S : e = [m |-> "detached", tab |-> kid[k], kid |-> k]
    OBVIOUS
  <2>2. k \in Kids /\ k \in K /\ kid[k] # NoTab /\ kid[k] \in CdpTabs
    BY <1>1 DEF Met
  <2>3. e.m = "detached" /\ e.tab = kid[k] /\ e.kid = k
    BY <2>1
  <2>4. e \in Told
    BY <2>1, <2>2 DEF Told
  <2>5. <<kid[k], k>> \in Live
    <3>1. <<kid[k], k>> \in CdpTabs \X Kids /\ <<kid[k], k>>[1] = kid[k] /\ <<kid[k], k>>[2] = k
      BY <2>2
    <3>. QED BY <3>1 DEF Live
  <2>. QED BY <2>1, <2>2, <2>3, <2>4, <2>5
<1>4. ASSUME NEW x \in Live, x[2] \in K PROVE \E e \in R : Drops(e, x)
  <2>. DEFINE e == [m |-> "detached", tab |-> kid[x[2]], kid |-> x[2]]
  <2>1. x[2] \in S /\ kid[x[2]] = x[1]
    BY <1>4 DEF Live
  <2>2. e \in R
    BY <2>1
  <2>3. Drops(e, x)
    BY <2>1 DEF Drops
  <2>. HIDE DEF e, R
  <2>. QED BY <2>2, <2>3
<1>5. Ended(K) = SetToSeq(R)
  BY DEF Ended
<1>. HIDE DEF R
<1>. DEFINE q == SetToSeq(R)
<1>6. /\ q \in Seq(R) /\ {q[i] : i \in DOMAIN q} = R
      /\ \A i, j \in DOMAIN q : q[i] = q[j] => i = j
  BY <1>2, ListIs
<1>7. \A i \in DOMAIN q : q[i] \in R
  BY <1>6
<1>8. \A e \in R : \E i \in DOMAIN q : q[i] = e
  BY <1>6
<1>9. q \in Seq(Told)
  <2>1. R \subseteq Told
    BY <1>3
  <2>. QED BY <1>6, <2>1
<1>. HIDE DEF q
<1>10. \A i, j \in DOMAIN q : q[i].kid = q[j].kid => i = j
  <2>1. ASSUME NEW i \in DOMAIN q, NEW j \in DOMAIN q, q[i].kid = q[j].kid PROVE i = j
    <3>1. q[i] = q[j]
      BY <1>3, <1>7, <2>1
    <3>. QED BY <1>6, <3>1 DEF q
  <2>. QED BY <2>1
<1>11. \A i \in DOMAIN q : q[i].m = "detached" /\ <<q[i].tab, q[i].kid>> \in Live /\ q[i].kid \in K
  BY <1>3, <1>7
<1>12. \A x \in Live : x[2] \in K => \E i \in DOMAIN q : Drops(q[i], x)
  <2>1. ASSUME NEW x \in Live, x[2] \in K PROVE \E i \in DOMAIN q : Drops(q[i], x)
    <3>1. PICK e \in R : Drops(e, x)
      BY <1>4, <2>1
    <3>2. PICK i \in DOMAIN q : q[i] = e
      BY <1>8
    <3>. QED BY <3>1, <3>2
  <2>. QED BY <2>1
<1>. QED BY <1>5, <1>9, <1>10, <1>11, <1>12 DEF q

\* The link once these frames are lost and told of.
LEMMA LinkLoses ==
    ASSUME CdpTypeOK, Met, NEW K \in SUBSET Kids, LoseKids(K), Link(tell, children, Live, Bound)
    PROVE  /\ tell \o Ended(K) \in Seq(Told) /\ Link(tell \o Ended(K), children, Live', Bound')
           /\ Grown(tell, tell \o Ended(K), {Ended(K)[i] : i \in DOMAIN Ended(K)})
<1>. DEFINE d == Ended(K)
            q == tell
            p == q \o d
            N == {d[i] : i \in DOMAIN d}
<1>1. /\ d \in Seq(Told)
      /\ \A i \in DOMAIN d : d[i].m = "detached" /\ <<d[i].tab, d[i].kid>> \in Live /\ d[i].kid \in K
      /\ \A x \in Live : x[2] \in K => \E i \in DOMAIN d : Drops(d[i], x)
      /\ \A i, j \in DOMAIN d : d[i].kid = d[j].kid => i = j
  BY EndedIs
<1>2. q \in Seq(Told) /\ Len(q) \in Nat
  BY DEF CdpTypeOK
<1>. HIDE DEF d, q
<1>3. /\ p \in Seq(Told) /\ Grown(q, p, N)
      /\ \A i \in DOMAIN p \ DOMAIN q : i - Len(q) \in DOMAIN d /\ p[i] = d[i - Len(q)]
  BY <1>1, <1>2, ConcatGrows
<1>4. DOMAIN p \subseteq Nat
  BY <1>3 DEF Grown
<1>5. Live' = {x \in Live : x[2] \notin K} /\ Bound' = Bound \ K
  BY LosesAre
<1>. HIDE DEF p
<1>6. \A i, j \in DOMAIN p \ DOMAIN q : Frame(p[i]) /\ Frame(p[j]) /\ p[i].kid = p[j].kid => i = j
  <2>1. ASSUME NEW i \in DOMAIN p \ DOMAIN q, NEW j \in DOMAIN p \ DOMAIN q, p[i].kid = p[j].kid PROVE i = j
    <3>1. i - Len(q) = j - Len(q)
      BY <1>1, <1>3, <2>1
    <3>. QED BY <1>2, <1>4, <3>1
  <2>. QED BY <2>1
<1>7. \A e \in N : e.m = "detached" /\ <<e.tab, e.kid>> \in Live /\ e.kid \in K
  BY <1>1
<1>8. \A x \in Live : x[2] \in K => \E e \in N : Drops(e, x)
  <2>1. ASSUME NEW x \in Live, x[2] \in K PROVE \E e \in N : Drops(e, x)
    <3>1. PICK i \in DOMAIN d : Drops(d[i], x)
      BY <1>1, <2>1
    <3>2. d[i] \in N
      OBVIOUS
    <3>. HIDE DEF N
    <3>. QED BY <3>1, <3>2
  <2>. QED BY <2>1
<1>9. \A x \in Live : x[2] \in Bound /\ x = <<x[1], x[2]>>
  BY LiveBound
<1>10. Link(p, children, Live', Bound')
  <2>1. Live' \subseteq Live /\ Bound' \subseteq Bound
    BY <1>5
  <2>2. \A x \in Live \ Live' : \E e \in N : Drops(e, x)
    BY <1>5, <1>8
  <2>3. \A e \in N : Frame(e) => e.m = "detached" /\ <<e.tab, e.kid>> \in Live /\ e.kid \notin Bound'
    BY <1>5, <1>7
  <2>4. \A e \in N : ~Empties(e)
    BY <1>7 DEF Empties
  <2>5. Link(q, children, Live, Bound)
    BY DEF q
  <2>. HIDE DEF N
  <2>. QED BY <1>3, <1>6, <1>9, <2>1, <2>2, <2>3, <2>4, <2>5, LinkGrows
<1>. QED BY <1>3, <1>10 DEF p, q, d

\* What Chrome and the extension do changes nothing the server keeps.
LEMMA ServerRests ==
    ASSUME ServerInv, UNCHANGED <<serverSide, heard>>,
           \A i \in DOMAIN ask' : \E j \in DOMAIN ask : ask'[i] = ask[j],
           \A i \in DOMAIN tell' : \/ \E j \in DOMAIN tell : tell'[i] = tell[j]
                                   \/ tell'[i].m = "answer" => \E j \in DOMAIN ask : tell'[i].to = ask[j]
    PROVE  ServerInv'
<1>1. AskersFit'
  <2>1. \A i \in DOMAIN ask' : Fits(ask'[i], sessions)
    BY DEF ServerInv, AskersFit
  <2>2. \A i \in DOMAIN tell' : tell'[i].m = "answer" => Fits(tell'[i].to, sessions)
    BY DEF ServerInv, AskersFit
  <2>. QED BY <2>1, <2>2 DEF AskersFit, serverSide
<1>2. Apart' /\ Heard' /\ Ending' /\ Gone'
  BY DEF ServerInv, Apart, Heard, Ending, Gone, serverSide
<1>. QED BY <1>1, <1>2 DEF ServerInv

\* What is noted stays so while nothing more is said of its going off.
LEMMA NotedGrows ==
    ASSUME NEW q, NEW p, NEW N, Grown(q, p, N), NEW t, \A e \in N : ~TurnsOff(e, t), NEW E, NEW a, NEW b, Noted(t, E, q, a),
           \A i \in DOMAIN a : a[i].tab = t /\ a[i].what = "disable" => \E j \in DOMAIN b : b[j] = a[i]
    PROVE  Noted(t, E, p, b)
<1>1. /\ \A i \in DOMAIN q : i \in DOMAIN p /\ p[i] = q[i]
      /\ \A i \in DOMAIN p : i \in DOMAIN q \/ p[i] \in N
  BY DEF Grown
<1>. QED BY <1>1 DEF Noted

\* What is turned on is noted from the answer on.
LEMMA NotedOn ==
    ASSUME NEW q, NEW p, NEW e, Grown(q, p, {e}), NEW n, DOMAIN p \ DOMAIN q = {n}, NEW t, TurnsOn(e, t), NEW E, NEW a
    PROVE  Noted(t, E, p, a)
<1>1. /\ n \in DOMAIN p /\ p[n] = e /\ DOMAIN p \subseteq Nat
      /\ \A j \in DOMAIN p : j = n \/ j < n
  BY DEF Grown
<1>2. \A j \in DOMAIN p : ~(j > n)
  BY <1>1
<1>. QED BY <1>1, <1>2 DEF Noted

LEMMA ShareKeeps == ASSUME CdpInv, NEW t \in CdpTabs, CdpShares(t) PROVE CdpInv'
<1>. DEFINE e == [m |-> "shared", tab |-> t]
<1>1. /\ ~closed /\ shared' = shared \cup {t} /\ tell' = Append(tell, e)
      /\ UNCHANGED <<serverSide, on, auto, kid, foreign, met, overdue, ask, heard>>
  BY DEF CdpShares
<1>2. tell \in Seq(Told) /\ e \in Told
  BY DEF CdpInv, CdpTypeOK, Told
<1>3. e.m = "shared"
  OBVIOUS
<1>. HIDE DEF e
<1>4. tell' \in Seq(Told) /\ Grown(tell, tell', {e}) /\ DOMAIN tell' \ DOMAIN tell = {Len(tell) + 1}
  BY <1>1, <1>2, AppendGrows
<1>5. CdpTypeOK'
  BY <1>1, <1>4 DEF CdpInv, CdpTypeOK, serverSide
<1>6. ServerInv'
  <2>1. \A i \in DOMAIN tell' : (\E j \in DOMAIN tell : tell'[i] = tell[j]) \/ tell'[i] = e
    BY <1>4 DEF Grown
  <2>. QED BY <1>1, <1>3, <2>1, ServerRests DEF CdpInv
<1>7. ChromeInv'
  <2>1. Met' /\ Live' = Live /\ Bound' = Bound
    BY <1>1 DEF CdpInv, ChromeInv, Met, Live, Bound
  <2>2. AllNoted'
    <3>1. \A s \in on \ overdue : Noted(s, enabled, tell, ask)
      BY <1>1 DEF CdpInv, ChromeInv, AllNoted
    <3>2. \A s \in on : ~TurnsOff(e, s)
      BY <1>3 DEF TurnsOff
    <3>4. Grown(tell, tell', {e})
      BY <1>4
    <3>3. \A s \in on \ overdue : Noted(s, enabled, tell', ask)
      BY <3>1, <3>2, <3>4, NotedGrows
    <3>. QED BY <1>1, <3>3 DEF AllNoted, serverSide
  <2>3. Link(tell', children, Live, Bound)
    <3>1. Link(tell, children, Live, Bound)
      BY <1>1 DEF CdpInv, ChromeInv
    <3>2. ~Frame(e) /\ ~Empties(e)
      BY <1>3 DEF Frame, Empties
    <3>3. \A i \in DOMAIN tell' \ DOMAIN tell : tell'[i] = e
      BY <1>4 DEF Grown
    <3>4. \A x \in Live : x[2] \in Bound /\ x = <<x[1], x[2]>>
      BY LiveBound DEF CdpInv
    <3>. QED BY <1>4, <3>1, <3>2, <3>3, <3>4, LinkGrows
  <2>. QED BY <1>1, <2>1, <2>2, <2>3 DEF ChromeInv, serverSide
<1>. QED BY <1>5, <1>6, <1>7 DEF CdpInv

LEMMA UnshareKeeps == ASSUME CdpInv, NEW t \in CdpTabs, CdpUnshares(t) PROVE CdpInv'
<1>. DEFINE e == [m |-> "unshared", tab |-> t]
            K == KidsOf(t)
<1>1. /\ shared' = shared \ {t} /\ on' = on \ {t} /\ auto' = auto \ {t} /\ overdue' = overdue \ {t} /\ LoseKids(K)
      /\ tell' = IF closed THEN tell ELSE Append(tell, e)
      /\ UNCHANGED <<serverSide, ask, heard>>
  BY DEF CdpUnshares
<1>2. tell \in Seq(Told) /\ e \in Told
  BY DEF CdpInv, CdpTypeOK, Told
<1>3. e.m = "unshared" /\ e.tab = t
  OBVIOUS
<1>. HIDE DEF e
<1>4. Append(tell, e) \in Seq(Told) /\ Grown(tell, Append(tell, e), {e})
  BY <1>2, AppendGrows
<1>5. K \in SUBSET Kids
  BY DEF KidsOf
<1>6. /\ kid' \in [Kids -> CdpTabs \cup {NoTab}] /\ met' \in [Kids -> {"no", "handed", "told", "untold"}]
      /\ foreign' \subseteq Kids /\ Met' /\ Live' = {x \in Live : x[2] \notin K} /\ Bound' = Bound \ K
  BY <1>1, <1>5, LosesAre DEF CdpInv, ChromeInv
<1>7. CdpTypeOK'
  <2>1. tell' \in Seq(Told)
    BY <1>1, <1>2, <1>4
  <2>. QED BY <1>1, <1>6, <2>1 DEF CdpInv, CdpTypeOK, serverSide
<1>8. ServerInv'
  <2>1. \A i \in DOMAIN tell' : (\E j \in DOMAIN tell : tell'[i] = tell[j]) \/ tell'[i] = e
    BY <1>1, <1>4 DEF Grown
  <2>. QED BY <1>1, <1>3, <2>1, ServerRests DEF CdpInv
<1>9. ASSUME ~closed PROVE AllNoted' /\ Link(tell', children, Live', Bound')
  <2>1. Grown(tell, tell', {e})
    BY <1>1, <1>4, <1>9
  <2>2. AllNoted'
    <3>1. \A s \in on \ overdue : Noted(s, enabled, tell, ask)
      BY <1>9 DEF CdpInv, ChromeInv, AllNoted
    <3>2. \A s \in on' \ overdue' : s \in on \ overdue /\ ~TurnsOff(e, s)
      BY <1>1, <1>3 DEF TurnsOff
    <3>3. \A s \in on' \ overdue' : Noted(s, enabled, tell', ask)
      BY <2>1, <3>1, <3>2, NotedGrows
    <3>. QED BY <1>1, <3>3 DEF AllNoted, serverSide
  <2>3. Link(tell', children, Live', Bound')
    <3>1. Link(tell, children, Live, Bound)
      BY <1>9 DEF CdpInv, ChromeInv
    <3>2. ~Frame(e) /\ ~Empties(e)
      BY <1>3 DEF Frame, Empties
    <3>3. \A i \in DOMAIN tell' \ DOMAIN tell : tell'[i] = e
      BY <2>1 DEF Grown
    <3>4. \A x \in Live : x[2] \in Bound /\ x = <<x[1], x[2]>> /\ kid[x[2]] = x[1]
      BY LiveBound DEF CdpInv
    <3>5. \A x \in Live \ Live' : Drops(e, x)
      BY <1>3, <1>6, <3>4 DEF KidsOf, Drops
    <3>6. Live' \subseteq Live /\ Bound' \subseteq Bound
      BY <1>6
    <3>. QED BY <2>1, <3>1, <3>2, <3>3, <3>4, <3>5, <3>6, LinkGrows
  <2>. QED BY <2>2, <2>3
<1>10. ChromeInv'
  BY <1>1, <1>6, <1>9 DEF ChromeInv, serverSide
<1>. QED BY <1>7, <1>8, <1>10 DEF CdpInv

LEMMA GoesKeeps == ASSUME CdpInv, NEW k \in Kids, FrameGoes(k) PROVE CdpInv'
<1>. DEFINE d == Ended({k})
<1>1. /\ tell' = tell \o d /\ LoseKids({k}) /\ UNCHANGED <<serverSide, shared, on, auto, overdue, ask, heard>>
  BY DEF FrameGoes
<1>2. {k} \in SUBSET Kids /\ CdpTypeOK /\ Met /\ tell \in Seq(Told)
  BY DEF CdpInv, CdpTypeOK, ChromeInv
<1>3. /\ kid' \in [Kids -> CdpTabs \cup {NoTab}] /\ met' \in [Kids -> {"no", "handed", "told", "untold"}]
      /\ foreign' \subseteq Kids /\ Met'
  BY <1>1, <1>2, LosesAre
<1>4. d \in Seq(Told) /\ \A i \in DOMAIN d : d[i].m = "detached"
  BY <1>2, EndedIs
<1>. HIDE DEF d
<1>5. tell' \in Seq(Told) /\ Grown(tell, tell', {d[i] : i \in DOMAIN d})
  BY <1>1, <1>2, <1>4, ConcatGrows
<1>6. CdpTypeOK'
  BY <1>1, <1>3, <1>5 DEF CdpInv, CdpTypeOK, serverSide
<1>7. ServerInv'
  <2>1. \A i \in DOMAIN tell' : (\E j \in DOMAIN tell : tell'[i] = tell[j]) \/ \E j \in DOMAIN d : tell'[i] = d[j]
    BY <1>5 DEF Grown
  <2>. QED BY <1>1, <1>4, <2>1, ServerRests DEF CdpInv
<1>8. ASSUME ~closed PROVE AllNoted' /\ Link(tell', children, Live', Bound')
  <2>1. AllNoted'
    <3>1. \A s \in on \ overdue : Noted(s, enabled, tell, ask)
      BY <1>8 DEF CdpInv, ChromeInv, AllNoted
    <3>. DEFINE N == {d[i] : i \in DOMAIN d}
    <3>2. \A e \in N : \A s : ~TurnsOff(e, s)
      BY <1>4 DEF TurnsOff
    <3>4. Grown(tell, tell', N)
      BY <1>5
    <3>. HIDE DEF N
    <3>3. \A s \in on \ overdue : Noted(s, enabled, tell', ask)
      BY <3>1, <3>2, <3>4, NotedGrows
    <3>. QED BY <1>1, <3>3 DEF AllNoted, serverSide
  <2>2. Link(tell', children, Live', Bound')
    BY <1>1, <1>2, <1>8, LinkLoses DEF CdpInv, ChromeInv, d
  <2>. QED BY <2>1, <2>2
<1>9. ChromeInv'
  BY <1>1, <1>3, <1>8 DEF ChromeInv, serverSide
<1>. QED BY <1>6, <1>7, <1>9 DEF CdpInv

LEMMA WallIs ==
    ASSUME CdpTypeOK, Met, NEW k, met[k] = "handed",
           WallOff(k) \/ UNCHANGED met, UNCHANGED kid
    PROVE  met' \in [Kids -> {"no", "handed", "told", "untold"}] /\ Met' /\ Live' = Live /\ Bound' = Bound
<1>1. met \in [Kids -> {"no", "handed", "told", "untold"}]
  BY DEF CdpTypeOK
<1>2. met' \in [Kids -> {"no", "handed", "told", "untold"}]
  BY <1>1 DEF WallOff
<1>3. \A j \in Kids : /\ met'[j] = "no" <=> met[j] = "no"
                      /\ met'[j] \in {"handed", "told"} <=> met[j] \in {"handed", "told"}
  BY <1>1 DEF WallOff
<1>4. Met'
  BY <1>3 DEF Met
<1>5. Live' = Live
  <2>1. \A x \in CdpTabs \X Kids : x[2] \in Kids
    OBVIOUS
  <2>. QED BY <1>3, <2>1 DEF Live
<1>6. Bound' = Bound
  BY DEF Bound
<1>. QED BY <1>2, <1>4, <1>5, <1>6

LEMMA TurnKeeps == ASSUME CdpInv, NEW k \in Kids, NEW seen \in BOOLEAN, FrameTurns(k, seen) PROVE CdpInv'
<1>1. met[k] = "handed" /\ foreign' = foreign \cup {k} /\ (WallOff(k) \/ UNCHANGED met)
  BY DEF FrameTurns
<1>2. UNCHANGED <<serverSide, shared, on, auto, kid, overdue, ask, tell, heard>>
  BY DEF FrameTurns
<1>3. met' \in [Kids -> {"no", "handed", "told", "untold"}] /\ Met' /\ Live' = Live /\ Bound' = Bound
  BY <1>1, <1>2, WallIs DEF CdpInv, ChromeInv
<1>4. CdpTypeOK'
  BY <1>1, <1>2, <1>3 DEF CdpInv, CdpTypeOK, serverSide
<1>5. ServerInv'
  BY <1>2, ServerRests DEF CdpInv
<1>6. ChromeInv'
  BY <1>2, <1>3 DEF CdpInv, ChromeInv, AllNoted, serverSide
<1>. QED BY <1>4, <1>5, <1>6 DEF CdpInv

LEMMA ComeKeeps ==
    ASSUME CdpInv, NEW t \in CdpTabs, NEW k \in Kids, NEW seen \in BOOLEAN, FrameComes(t, k, seen)
    PROVE  CdpInv'
<1>. DEFINE e == [m |-> "attached", tab |-> t, kid |-> k]
<1>1. /\ t \in auto /\ kid[k] = NoTab /\ kid' = [kid EXCEPT ![k] = t]
      /\ \A i \in DOMAIN tell : tell[i].m \in {"attached", "detached"} => tell[i].kid # k
      /\ UNCHANGED <<serverSide, shared, on, auto, overdue, ask, heard>>
  BY DEF FrameComes
<1>2. \/ foreign' = foreign \cup {k} /\ met' = [met EXCEPT ![k] = "untold"] /\ tell' = tell
      \/ met' = [met EXCEPT ![k] = "handed"] /\ foreign' = foreign /\ tell' = Append(tell, e)
  BY DEF FrameComes
<1>3. /\ kid \in [Kids -> CdpTabs \cup {NoTab}] /\ met \in [Kids -> {"no", "handed", "told", "untold"}]
      /\ foreign \subseteq Kids /\ tell \in Seq(Told) /\ NoTab \notin CdpTabs
  BY LinkedCdpAssumption DEF CdpInv, CdpTypeOK
<1>4. e \in Told
  BY DEF Told
<1>5. e.m = "attached" /\ e.tab = t /\ e.kid = k
  OBVIOUS
<1>. HIDE DEF e
<1>6. Append(tell, e) \in Seq(Told) /\ Grown(tell, Append(tell, e), {e})
      /\ DOMAIN Append(tell, e) \ DOMAIN tell = {Len(tell) + 1}
  BY <1>3, <1>4, AppendGrows
<1>7. met[k] = "no" /\ Met'
  BY <1>1, <1>2, <1>3 DEF CdpInv, ChromeInv, Met
<1>8. CdpTypeOK'
  <2>1. tell' \in Seq(Told)
    BY <1>2, <1>3, <1>6
  <2>2. /\ kid' \in [Kids -> CdpTabs \cup {NoTab}] /\ met' \in [Kids -> {"no", "handed", "told", "untold"}]
        /\ foreign' \subseteq Kids
    BY <1>1, <1>2, <1>3
  <2>. QED BY <1>1, <2>1, <2>2 DEF CdpInv, CdpTypeOK, serverSide
<1>9. ServerInv'
  <2>1. \A i \in DOMAIN tell' : (\E j \in DOMAIN tell : tell'[i] = tell[j]) \/ tell'[i] = e
    BY <1>2, <1>6 DEF Grown
  <2>. QED BY <1>1, <1>5, <2>1, ServerRests DEF CdpInv
<1>10. Bound' = Bound \cup {k} /\ k \notin Bound
  BY <1>1, <1>3 DEF Bound
<1>11. \A x \in Live : x[2] \in Bound /\ x = <<x[1], x[2]>> /\ kid[x[2]] = x[1]
  BY LiveBound DEF CdpInv
<1>12. ASSUME NEW x \in CdpTabs \X Kids
       PROVE  x \in Live' <=> x \in Live \/ (x = <<t, k>> /\ met'[k] = "handed")
  <2>1. x[1] \in CdpTabs /\ x[2] \in Kids /\ x = <<x[1], x[2]>>
    OBVIOUS
  <2>2. CASE x[2] = k
    <3>1. kid[x[2]] # x[1] /\ (kid'[x[2]] = x[1] <=> x[1] = t) /\ met'[k] \in {"untold", "handed"}
      BY <1>1, <1>2, <1>3, <2>1, <2>2
    <3>2. x = <<t, k>> <=> x[1] = t
      BY <2>1, <2>2
    <3>. QED BY <2>2, <3>1, <3>2 DEF Live
  <2>3. CASE x[2] # k
    <3>1. kid'[x[2]] = kid[x[2]] /\ met'[x[2]] = met[x[2]]
      BY <1>1, <1>2, <1>3, <2>1, <2>3
    <3>2. x # <<t, k>>
      BY <2>3
    <3>. QED BY <3>1, <3>2 DEF Live
  <2>. QED BY <2>2, <2>3
<1>13. Live \subseteq CdpTabs \X Kids /\ Live' \subseteq CdpTabs \X Kids /\ <<t, k>> \in CdpTabs \X Kids
  BY DEF Live
<1>14. ASSUME ~closed PROVE AllNoted' /\ Link(tell', children, Live', Bound')
  <2>1. Link(tell, children, Live, Bound) /\ \A s \in on \ overdue : Noted(s, enabled, tell, ask)
    BY <1>14 DEF CdpInv, ChromeInv, AllNoted
  <2>2. \A i \in DOMAIN tell : Frame(tell[i]) => tell[i].kid # k
    BY <1>1 DEF Frame
  <2>3. CASE met' = [met EXCEPT ![k] = "untold"] /\ tell' = tell
    <3>1. met'[k] = "untold"
      BY <1>3, <2>3
    <3>2. Live' = Live
      BY <1>12, <1>13, <3>1
    <3>3. Link(tell, children, Live, Bound \cup {k})
      BY <2>1, <2>2, LinkBinds
    <3>4. AllNoted'
      BY <1>1, <2>1, <2>3 DEF AllNoted, serverSide
    <3>. QED BY <1>10, <2>3, <3>2, <3>3, <3>4
  <2>4. CASE met' = [met EXCEPT ![k] = "handed"] /\ tell' = Append(tell, e)
    <3>1. met'[k] = "handed"
      BY <1>3, <2>4
    <3>2. Live' = Live \cup {<<t, k>>}
      BY <1>12, <1>13, <3>1
    <3>3. Grown(tell, tell', {e}) /\ \A i, j \in DOMAIN tell' \ DOMAIN tell : i = j
      BY <1>6, <2>4
    <3>4. Link(tell', children, Live \cup {<<e.tab, e.kid>>}, Bound \cup {e.kid})
      BY <1>5, <1>10, <1>11, <2>1, <2>2, <3>3, LinkComes
    <3>5. AllNoted'
      <4>1. \A s \in on : ~TurnsOff(e, s)
        BY <1>5 DEF TurnsOff
      <4>2. \A s \in on \ overdue : Noted(s, enabled, tell', ask)
        BY <2>1, <3>3, <4>1, NotedGrows
      <4>. QED BY <1>1, <4>2 DEF AllNoted, serverSide
    <3>. QED BY <1>5, <1>10, <3>2, <3>4, <3>5
  <2>. QED BY <1>2, <2>3, <2>4
<1>15. ChromeInv'
  BY <1>1, <1>7, <1>14 DEF ChromeInv, serverSide
<1>. QED BY <1>8, <1>9, <1>15 DEF CdpInv

LEMMA AskTail ==
    ASSUME ask \in Seq(Asked), ask # <<>>, ask' = Tail(ask)
    PROVE  /\ ask' \in Seq(Asked) /\ Head(ask) \in Asked /\ \E j \in DOMAIN ask : Head(ask) = ask[j]
           /\ \A i \in DOMAIN ask' : \E j \in DOMAIN ask : ask'[i] = ask[j]
           /\ \A i \in DOMAIN ask : ask[i] = Head(ask) \/ \E j \in DOMAIN ask' : ask'[j] = ask[i]
<1>. DEFINE p == Tail(ask)
<1>1. /\ p \in Seq(Asked) /\ Head(ask) \in Asked /\ 1 \in DOMAIN ask /\ ask[1] = Head(ask)
      /\ \A i \in DOMAIN p : i + 1 \in DOMAIN ask /\ p[i] = ask[i + 1]
      /\ \A i \in DOMAIN ask : i # 1 => i - 1 \in DOMAIN p /\ p[i - 1] = ask[i]
  BY TailIs
<1>2. ask' = p
  OBVIOUS
<1>. HIDE DEF p
<1>. QED BY <1>1, <1>2

LEMMA AnswersAre ==
    ASSUME NEW a \in Asked, NEW ok \in BOOLEAN
    PROVE  /\ Answer(a, ok) \in Told /\ Answer(a, ok).m = "answer" /\ Answer(a, ok).ok = ok /\ Answer(a, ok).to = a
           /\ ~Frame(Answer(a, ok))
BY DEF Answer, Told, Frame

\* A command is answered, and no frame is lost.
LEMMA AnswerKeeps ==
    ASSUME CdpInv, ask # <<>>, ask' = Tail(ask), NEW e \in Told, e.m = "answer", e.to = Head(ask), ~Empties(e),
           tell' = Append(tell, e), UNCHANGED <<serverSide, heard, shared, kid, foreign>>,
           on' \subseteq shared, auto' \subseteq shared, met' \in [Kids -> {"no", "handed", "told", "untold"}],
           Met', Live' = Live,
           overdue' \subseteq CdpTabs,
           \A s \in on' \ overdue' : \/ TurnsOn(e, s)
                                     \/ s \in on \ overdue /\ ~TurnsOff(e, s) /\ ~(Head(ask).tab = s /\ Head(ask).what = "disable")
    PROVE  CdpInv'
<1>1. ask \in Seq(Asked) /\ tell \in Seq(Told)
  BY DEF CdpInv, CdpTypeOK
<1>2. /\ ask' \in Seq(Asked) /\ \E j \in DOMAIN ask : Head(ask) = ask[j]
      /\ \A i \in DOMAIN ask' : \E j \in DOMAIN ask : ask'[i] = ask[j]
      /\ \A i \in DOMAIN ask : ask[i] = Head(ask) \/ \E j \in DOMAIN ask' : ask'[j] = ask[i]
  BY <1>1, AskTail
<1>3. tell' \in Seq(Told) /\ Grown(tell, tell', {e}) /\ DOMAIN tell' \ DOMAIN tell = {Len(tell) + 1}
  BY <1>1, AppendGrows
<1>4. CdpTypeOK'
  BY <1>2, <1>3 DEF CdpInv, CdpTypeOK, serverSide
<1>5. ServerInv'
  <2>1. \A i \in DOMAIN tell' : (\E j \in DOMAIN tell : tell'[i] = tell[j]) \/ tell'[i] = e
    BY <1>3 DEF Grown
  <2>2. \A i \in DOMAIN tell' : (\E j \in DOMAIN tell : tell'[i] = tell[j]) \/ \E j \in DOMAIN ask : tell'[i].to = ask[j]
    BY <1>2, <2>1
  <2>. QED BY <1>2, <2>2, ServerRests DEF CdpInv
<1>6. Bound' = Bound
  BY DEF Bound
<1>7. ASSUME ~closed PROVE AllNoted' /\ Link(tell', children, Live, Bound)
  <2>1. Link(tell, children, Live, Bound) /\ \A s \in on \ overdue : Noted(s, enabled, tell, ask)
    BY <1>7 DEF CdpInv, ChromeInv, AllNoted
  <2>2. ASSUME NEW s \in on' \ overdue' PROVE Noted(s, enabled, tell', ask')
    <3>1. CASE TurnsOn(e, s)
      BY <1>3, <3>1, NotedOn
    <3>2. CASE s \in on \ overdue /\ ~TurnsOff(e, s) /\ ~(Head(ask).tab = s /\ Head(ask).what = "disable")
      <4>1. \A i \in DOMAIN ask : ask[i].tab = s /\ ask[i].what = "disable" => \E j \in DOMAIN ask' : ask'[j] = ask[i]
        BY <1>2, <3>2
      <4>2. Noted(s, enabled, tell, ask)
        BY <2>1, <3>2
      <4>3. \A x \in {e} : ~TurnsOff(x, s)
        BY <3>2
      <4>4. Grown(tell, tell', {e})
        BY <1>3
      <4>. QED BY ONLY <4>1, <4>2, <4>3, <4>4, NotedGrows
    <3>. QED BY <2>2, <3>1, <3>2
  <2>3. Link(tell', children, Live, Bound)
    <3>1. ~Frame(e)
      BY DEF Frame
    <3>2. \A i \in DOMAIN tell' \ DOMAIN tell : tell'[i] = e
      BY <1>3 DEF Grown
    <3>3. \A x \in Live : x[2] \in Bound /\ x = <<x[1], x[2]>>
      BY LiveBound DEF CdpInv
    <3>4. Link(tell, children, Live, Bound) /\ Grown(tell, tell', {e})
      BY <1>3, <2>1
    <3>5. /\ \A x \in Live \ Live : \E y \in {e} : Drops(y, x)
          /\ \A x \in {e} : ~Frame(x) /\ ~Empties(x)
      BY <3>1
    <3>6. \A i, j \in DOMAIN tell' \ DOMAIN tell :
             Frame(tell'[i]) /\ Frame(tell'[j]) /\ tell'[i].kid = tell'[j].kid => i = j
      BY <3>1, <3>2
    <3>. QED BY ONLY <3>3, <3>4, <3>5, <3>6, LinkGrows
  <2>. QED BY <2>2, <2>3 DEF AllNoted, serverSide
<1>8. ChromeInv'
  BY <1>6, <1>7 DEF ChromeInv, serverSide
<1>. QED BY <1>4, <1>5, <1>8 DEF CdpInv

\* It was to let go of the frames of a tab.
LEMMA OffKeeps ==
    ASSUME CdpInv, ask # <<>>, ask' = Tail(ask), Head(ask).what = "autoOff", auto' = auto \ {Head(ask).tab},
           tell' = Append(tell \o Ended(KidsOf(Head(ask).tab)), Answer(Head(ask), TRUE)),
           LoseKids(KidsOf(Head(ask).tab)), UNCHANGED <<serverSide, heard, shared, on, overdue>>
    PROVE  CdpInv'
<1>. DEFINE a == Head(ask)
            K == KidsOf(a.tab)
            e == Answer(a, TRUE)
            p == tell \o Ended(K)
<1>1. ask \in Seq(Asked) /\ tell \in Seq(Told) /\ CdpTypeOK /\ Met
  BY DEF CdpInv, CdpTypeOK, ChromeInv
<1>2. /\ ask' \in Seq(Asked) /\ a \in Asked /\ \E j \in DOMAIN ask : a = ask[j]
      /\ \A i \in DOMAIN ask' : \E j \in DOMAIN ask : ask'[i] = ask[j]
      /\ \A i \in DOMAIN ask : ask[i] = a \/ \E j \in DOMAIN ask' : ask'[j] = ask[i]
  BY <1>1, AskTail
<1>3. e \in Told /\ e.m = "answer" /\ e.ok = TRUE /\ e.to = a /\ ~Frame(e)
  BY <1>2, AnswersAre
<1>4. K \in SUBSET Kids
  BY DEF KidsOf
<1>5. /\ kid' \in [Kids -> CdpTabs \cup {NoTab}] /\ met' \in [Kids -> {"no", "handed", "told", "untold"}]
      /\ foreign' \subseteq Kids /\ Met' /\ Live' = {x \in Live : x[2] \notin K} /\ Bound' = Bound \ K
  BY <1>1, <1>4, LosesAre
<1>6. Ended(K) \in Seq(Told) /\ \A i \in DOMAIN Ended(K) : Ended(K)[i].m = "detached"
  BY <1>1, <1>4, EndedIs
<1>. DEFINE N == {Ended(K)[i] : i \in DOMAIN Ended(K)}
<1>7. p \in Seq(Told) /\ Grown(tell, p, N)
  BY <1>1, <1>6, ConcatGrows
<1>8. tell' = Append(p, e) /\ a.what = "autoOff"
  OBVIOUS
<1>9. \A x \in N : x.m = "detached"
  BY <1>6
<1>. HIDE DEF e, p, N
<1>10. tell' \in Seq(Told) /\ Grown(p, tell', {e})
  <2>1. Append(p, e) \in Seq(Told) /\ Grown(p, Append(p, e), {e})
    BY ONLY <1>3, <1>7, AppendGrows
  <2>. QED BY <1>8, <2>1
<1>11. CdpTypeOK'
  BY <1>1, <1>2, <1>5, <1>10 DEF CdpTypeOK, serverSide
<1>12. ServerInv'
  <2>1. \A i \in DOMAIN tell' : \/ \E j \in DOMAIN tell : tell'[i] = tell[j]
                                \/ tell'[i].m = "detached"
                                \/ tell'[i] = e
    <3>1. \A i \in DOMAIN tell' : (i \in DOMAIN p /\ tell'[i] = p[i]) \/ tell'[i] = e
      BY <1>10 DEF Grown
    <3>2. \A i \in DOMAIN p : (i \in DOMAIN tell /\ p[i] = tell[i]) \/ p[i] \in N
      BY <1>7 DEF Grown
    <3>. QED BY ONLY <1>9, <3>1, <3>2
  <2>2. \A i \in DOMAIN tell' : \/ \E j \in DOMAIN tell : tell'[i] = tell[j]
                                \/ tell'[i].m = "answer" => \E j \in DOMAIN ask : tell'[i].to = ask[j]
    <3>1. e.m = "answer" => \E j \in DOMAIN ask : e.to = ask[j]
      BY <1>2, <1>3 DEF e
    <3>. QED BY ONLY <2>1, <3>1
  <2>. QED BY <1>2, <2>2, ServerRests DEF CdpInv
<1>13. ASSUME ~closed PROVE AllNoted' /\ Link(tell', children, Live', Bound')
  <2>1. Link(tell, children, Live, Bound) /\ \A s \in on \ overdue : Noted(s, enabled, tell, ask)
    BY <1>13 DEF CdpInv, ChromeInv, AllNoted
  <2>2. ASSUME NEW s \in on \ overdue PROVE Noted(s, enabled, tell', ask')
    <3>1. \A i \in DOMAIN ask : ask[i].tab = s /\ ask[i].what = "disable" => \E j \in DOMAIN ask' : ask'[j] = ask[i]
      BY <1>2, <1>8
    <3>2. \A x \in N : ~TurnsOff(x, s)
      BY <1>9 DEF TurnsOff
    <3>3. \A x \in {e} : ~TurnsOff(x, s)
      BY <1>3, <1>8 DEF TurnsOff
    <3>4. Noted(s, enabled, tell, ask)
      BY <2>1
    <3>5. Noted(s, enabled, p, ask)
      <4>1. Grown(tell, p, N)
        BY <1>7
      <4>. QED BY ONLY <3>2, <3>4, <4>1, NotedGrows
    <3>6. Grown(p, tell', {e})
      BY <1>10
    <3>. QED BY ONLY <3>1, <3>3, <3>5, <3>6, NotedGrows
  <2>3. AllNoted'
    BY <2>2 DEF AllNoted, serverSide
  <2>4. Link(p, children, Live', Bound')
    BY <1>1, <1>4, <2>1, LinkLoses DEF p
  <2>5. \A x \in Live' : x[2] \in Bound' /\ x = <<x[1], x[2]>> /\ x[1] # a.tab
    <3>1. \A x \in Live : x[2] \in Bound /\ x = <<x[1], x[2]>> /\ x[2] \in Kids /\ kid[x[2]] = x[1]
      BY <1>1, LiveBound
    <3>. QED BY <1>5, <3>1 DEF KidsOf
  <2>6. Link(tell', children, Live', Bound')
    <3>1. \A i \in DOMAIN tell' \ DOMAIN p : tell'[i] = e
      BY <1>10 DEF Grown
    <3>2. \A x \in {e} : Empties(x) => \A y \in Live' : y[1] # x.to.tab
      BY <1>3, <2>5
    <3>3. \A i, j \in DOMAIN tell' \ DOMAIN p :
             Frame(tell'[i]) /\ Frame(tell'[j]) /\ tell'[i].kid = tell'[j].kid => i = j
      BY <1>3, <3>1
    <3>4. \A x \in {e} : Frame(x) => x.m = "detached" /\ <<x.tab, x.kid>> \in Live' /\ x.kid \notin Bound'
      BY <1>3
    <3>5. \A x \in Live' \ Live' : \E y \in {e} : Drops(y, x)
      OBVIOUS
    <3>6. \A x \in Live' : x[2] \in Bound' /\ x = <<x[1], x[2]>>
      BY <2>5
    <3>7. Grown(p, tell', {e})
      BY <1>10
    <3>. QED BY ONLY <2>4, <3>2, <3>3, <3>4, <3>5, <3>6, <3>7, LinkGrows
  <2>. QED BY <2>3, <2>6
<1>14. ChromeInv'
  BY <1>5, <1>13 DEF ChromeInv, serverSide
<1>. QED BY <1>11, <1>12, <1>14 DEF CdpInv

\* A call is given up: who asked is forgotten, and what was asked is not.
LEMMA GivenUpIs ==
    ASSUME NEW a \in Asked
    PROVE  /\ GivenUp(a) \in Asked /\ GivenUp(a).of = NoClient
           /\ GivenUp(a).tab = a.tab /\ GivenUp(a).what = a.what /\ GivenUp(a).kid = a.kid
BY DEF Asked, GivenUp

\* A message of the link is changed in nothing but who had asked.
LEMMA LinkRenames ==
    ASSUME NEW q \in Seq(Told), NEW p, DOMAIN p = DOMAIN q,
           \A j \in DOMAIN q : \/ p[j] = q[j]
                               \/ /\ p[j].m = "answer" /\ q[j].m = "answer" /\ p[j].ok = q[j].ok
                                  /\ p[j].to.tab = q[j].to.tab /\ p[j].to.what = q[j].to.what,
           NEW C, NEW L, NEW B, Link(q, C, L, B)
    PROVE  Link(p, C, L, B)
<1>1. \A j \in DOMAIN q : /\ p[j].m = q[j].m
                          /\ q[j].m # "answer" => p[j] = q[j]
                          /\ \A x : Drops(p[j], x) <=> Drops(q[j], x)
                          /\ Frame(p[j]) <=> Frame(q[j])
                          /\ Empties(p[j]) <=> Empties(q[j])
                          /\ Empties(q[j]) => p[j].to.tab = q[j].to.tab
  BY DEF Drops, Frame, Empties
<1>2. \A j \in DOMAIN q : Frame(q[j]) => p[j] = q[j]
  BY <1>1 DEF Frame
<1>3. InTurn(p, B)
  BY <1>1, <1>2 DEF Link, InTurn
<1>4. ToldStands(p, C, L)
  BY <1>1 DEF Link, ToldStands
<1>5. NewsStands(p, C, L)
  <2>1. ASSUME NEW i \in DOMAIN p, p[i].m = "attached"
        PROVE  /\ \/ <<p[i].tab, p[i].kid>> \in L
                  \/ \E j \in DOMAIN p : j > i /\ Drops(p[j], <<p[i].tab, p[i].kid>>)
               /\ \A x \in C : x[2] = p[i].kid => \E j \in DOMAIN p : j < i /\ p[j].m = "unshared" /\ p[j].tab = x[1]
    <3>1. q[i].m = "attached" /\ p[i] = q[i]
      BY <1>1, <2>1
    <3>2. /\ \/ <<q[i].tab, q[i].kid>> \in L
             \/ \E j \in DOMAIN q : j > i /\ Drops(q[j], <<q[i].tab, q[i].kid>>)
          /\ \A x \in C : x[2] = q[i].kid => \E j \in DOMAIN q : j < i /\ q[j].m = "unshared" /\ q[j].tab = x[1]
      BY <2>1, <3>1 DEF Link, NewsStands
    <3>. DEFINE x == <<q[i].tab, q[i].kid>>
                k == q[i].kid
    <3>3. p[i].tab = q[i].tab /\ p[i].kid = k /\ <<p[i].tab, p[i].kid>> = x
      BY <3>1
    <3>4. x \in L \/ \E j \in DOMAIN q : j > i /\ Drops(q[j], x)
      BY <3>2
    <3>5. \A y \in C : y[2] = k => \E j \in DOMAIN q : j < i /\ q[j].m = "unshared" /\ q[j].tab = y[1]
      BY <3>2
    <3>6. \A j \in DOMAIN q : q[j].m = "unshared" => p[j].m = "unshared" /\ p[j].tab = q[j].tab
      BY <1>1
    <3>7. \A j \in DOMAIN q : Drops(q[j], x) => Drops(p[j], x)
      BY <1>1
    <3>. HIDE DEF x, k
    <3>8. x \in L \/ \E j \in DOMAIN p : j > i /\ Drops(p[j], x)
      BY <3>4, <3>7
    <3>9. \A y \in C : y[2] = k => \E j \in DOMAIN p : j < i /\ p[j].m = "unshared" /\ p[j].tab = y[1]
      <4>1. ASSUME NEW y \in C, y[2] = k PROVE \E j \in DOMAIN p : j < i /\ p[j].m = "unshared" /\ p[j].tab = y[1]
        <5>1. PICK j \in DOMAIN q : j < i /\ q[j].m = "unshared" /\ q[j].tab = y[1]
          BY <3>5, <4>1
        <5>. QED BY <3>6, <5>1
      <4>. QED BY <4>1
    <3>. QED BY ONLY <3>3, <3>8, <3>9
  <2>. QED BY <2>1 DEF NewsStands
<1>6. OffEmpties(p, C)
  <2>1. ASSUME NEW i \in DOMAIN p, Empties(p[i])
        PROVE  /\ \A x \in C : x[1] = p[i].to.tab => \E j \in DOMAIN p : j < i /\ Drops(p[j], x)
               /\ \A l \in DOMAIN p : l < i /\ p[l].m = "attached" /\ p[l].tab = p[i].to.tab =>
                     \E j \in DOMAIN p : l < j /\ j < i /\ Drops(p[j], <<p[l].tab, p[l].kid>>)
    <3>1. Empties(q[i]) /\ p[i].to.tab = q[i].to.tab
      BY <1>1, <2>1
    <3>2. /\ \A x \in C : x[1] = q[i].to.tab => \E j \in DOMAIN q : j < i /\ Drops(q[j], x)
          /\ \A l \in DOMAIN q : l < i /\ q[l].m = "attached" /\ q[l].tab = q[i].to.tab =>
                \E j \in DOMAIN q : l < j /\ j < i /\ Drops(q[j], <<q[l].tab, q[l].kid>>)
      BY <2>1, <3>1 DEF Link, OffEmpties
    <3>3. \A l \in DOMAIN p : p[l].m = "attached" => p[l] = q[l] /\ q[l].m = "attached"
      BY <1>1
    <3>. QED BY <1>1, <3>1, <3>2, <3>3
  <2>. QED BY <2>1 DEF OffEmpties
<1>. QED BY <1>3, <1>4, <1>5, <1>6 DEF Link

LEMMA TimeoutKeeps == ASSUME CdpInv, CallTimesOut PROVE CdpInv'
<1>1. /\ ~closed /\ UNCHANGED <<serverSide, shared, on, auto, kid, foreign, met, heard>>
      /\ \/ \E i \in DOMAIN tell :
              /\ Waits(tell[i]) /\ tell' = [tell EXCEPT ![i].to = GivenUp(@)] /\ UNCHANGED ask
              /\ overdue' = overdue \cup {t \in on : tell[i].ok /\ tell[i].to.what = "enable" /\ tell[i].to.tab = t}
         \/ \E i \in DOMAIN ask : ask' = [ask EXCEPT ![i] = GivenUp(@)] /\ UNCHANGED <<tell, overdue>>
  BY DEF CallTimesOut
<1>2. ask \in Seq(Asked) /\ tell \in Seq(Told) /\ overdue \subseteq CdpTabs /\ on \subseteq shared /\ shared \subseteq CdpTabs
  BY DEF CdpInv, CdpTypeOK
<1>3. Met' /\ Live' = Live /\ Bound' = Bound
  BY <1>1 DEF CdpInv, ChromeInv, Met, Live, Bound
<1>4. Apart' /\ Heard' /\ Ending' /\ Gone'
  BY <1>1 DEF CdpInv, ServerInv, Apart, Heard, Ending, Gone, serverSide
<1>5. AllNoted /\ Link(tell, children, Live, Bound)
  BY <1>1 DEF CdpInv, ChromeInv
<1>6. ASSUME NEW i \in DOMAIN tell, Waits(tell[i]), tell' = [tell EXCEPT ![i].to = GivenUp(@)], UNCHANGED ask,
             overdue' = overdue \cup {t \in on : tell[i].ok /\ tell[i].to.what = "enable" /\ tell[i].to.tab = t}
      PROVE  CdpInv'
  <2>1. tell[i] \in Told /\ tell[i].m = "answer" /\ tell[i].to \in Asked
    BY <1>2, <1>6, NewsAre DEF Waits
  <2>2. GivenUp(tell[i].to) \in Asked /\ GivenUp(tell[i].to).of = NoClient
        /\ GivenUp(tell[i].to).tab = tell[i].to.tab /\ GivenUp(tell[i].to).what = tell[i].to.what
    BY <2>1, GivenUpIs
  <2>. DEFINE e == [tell[i] EXCEPT !.to = GivenUp(@)]
  <2>3. /\ e \in Told /\ e.m = "answer" /\ e.ok = tell[i].ok /\ e.to = GivenUp(tell[i].to)
    BY <2>1, <2>2 DEF Told
  <2>4. /\ tell' \in Seq(Told) /\ DOMAIN tell' = DOMAIN tell /\ tell'[i] = e
        /\ \A j \in DOMAIN tell : j # i => tell'[j] = tell[j]
    <3>1. tell' = [tell EXCEPT ![i] = e]
      BY <1>6
    <3>. HIDE DEF e
    <3>. QED BY <1>2, <2>3, <3>1
  <2>. HIDE DEF e
  <2>5. \A j \in DOMAIN tell : \/ tell'[j] = tell[j]
                               \/ /\ tell'[j].m = "answer" /\ tell[j].m = "answer" /\ tell'[j].ok = tell[j].ok
                                  /\ tell'[j].to.tab = tell[j].to.tab /\ tell'[j].to.what = tell[j].to.what
    BY <2>1, <2>2, <2>3, <2>4
  <2>6. CdpTypeOK'
    <3>1. overdue' \subseteq CdpTabs
      BY <1>2, <1>6
    <3>. QED BY <1>1, <1>6, <2>4, <3>1 DEF CdpInv, CdpTypeOK, serverSide
  <2>7. AskersFit'
    <3>1. \A j \in DOMAIN tell' : tell'[j].m = "answer" => Fits(tell'[j].to, sessions)
      BY <2>2, <2>3, <2>4, LinkedCdpAssumption DEF CdpInv, ServerInv, AskersFit, Fits
    <3>. QED BY <1>1, <1>6, <3>1 DEF CdpInv, ServerInv, AskersFit, serverSide
  <2>8. Link(tell', children, Live, Bound)
    BY <1>2, <1>5, <2>4, <2>5, LinkRenames
  <2>9. ASSUME NEW s \in on \ overdue' PROVE Noted(s, enabled, tell', ask)
    <3>1. Noted(s, enabled, tell, ask) /\ ~TurnsOn(tell[i], s)
      BY <1>5, <1>6, <2>9 DEF AllNoted, TurnsOn
    <3>2. \A j \in DOMAIN tell : TurnsOff(tell'[j], s) <=> TurnsOff(tell[j], s)
      BY <2>5 DEF TurnsOff
    <3>. QED BY <2>4, <3>1, <3>2 DEF Noted
  <2>10. ChromeInv'
    BY <1>1, <1>3, <1>6, <2>8, <2>9 DEF ChromeInv, AllNoted, serverSide
  <2>. QED BY <1>4, <2>6, <2>7, <2>10 DEF CdpInv, ServerInv
<1>7. ASSUME NEW i \in DOMAIN ask, ask' = [ask EXCEPT ![i] = GivenUp(@)], UNCHANGED <<tell, overdue>>
      PROVE  CdpInv'
  <2>1. GivenUp(ask[i]) \in Asked /\ GivenUp(ask[i]).of = NoClient
        /\ GivenUp(ask[i]).tab = ask[i].tab /\ GivenUp(ask[i]).what = ask[i].what
    BY <1>2, GivenUpIs
  <2>2. /\ ask' \in Seq(Asked) /\ DOMAIN ask' = DOMAIN ask /\ ask'[i] = GivenUp(ask[i])
        /\ \A j \in DOMAIN ask : j # i => ask'[j] = ask[j]
    BY <1>2, <1>7, <2>1
  <2>3. CdpTypeOK'
    BY <1>1, <1>7, <2>2 DEF CdpInv, CdpTypeOK, serverSide
  <2>4. AskersFit'
    <3>1. \A j \in DOMAIN ask' : Fits(ask'[j], sessions)
      BY <2>1, <2>2, LinkedCdpAssumption DEF CdpInv, ServerInv, AskersFit, Fits
    <3>. QED BY <1>1, <1>7, <3>1 DEF CdpInv, ServerInv, AskersFit, serverSide
  <2>5. \A j \in DOMAIN ask : ask'[j].tab = ask[j].tab /\ ask'[j].what = ask[j].what
    BY <2>1, <2>2
  <2>6. \A s : Noted(s, enabled, tell, ask) => Noted(s, enabled, tell, ask')
    BY <2>2, <2>5 DEF Noted
  <2>7. ChromeInv'
    BY <1>1, <1>3, <1>5, <1>7, <2>6 DEF ChromeInv, AllNoted, serverSide
  <2>. QED BY <1>4, <2>3, <2>4, <2>7 DEF CdpInv, ServerInv
<1>. QED BY <1>1, <1>6, <1>7

LEMMA PerformKeeps == ASSUME CdpInv, Performs PROVE CdpInv'
<1>. DEFINE a == Head(ask)
            t == a.tab
<1>1. ask # <<>> /\ ask' = Tail(ask) /\ UNCHANGED <<serverSide, heard>>
  BY DEF Performs
<1>2. /\ ask \in Seq(Asked) /\ overdue \subseteq CdpTabs /\ on \subseteq shared /\ auto \subseteq shared /\ Met /\ CdpTypeOK
      /\ met \in [Kids -> {"no", "handed", "told", "untold"}]
  BY DEF CdpInv, CdpTypeOK, ChromeInv
<1>3. a \in Asked
  BY <1>1, <1>2, AskTail
<1>4. t \in CdpTabs
  BY <1>3, AskedAre
<1>5. ASSUME UNCHANGED <<kid, met>> PROVE Met' /\ Live' = Live
  BY <1>2, <1>5 DEF Met, Live
<1>6. /\ \A ok \in BOOLEAN : /\ Answer(a, ok) \in Told /\ Answer(a, ok).m = "answer"
                             /\ Answer(a, ok).ok = ok /\ Answer(a, ok).to = a
  BY <1>3, AnswersAre
<1>7. \/ /\ t \notin shared \/ (a.what = "kid" /\ met[a.kid] # "handed")
         /\ tell' = Append(tell, Answer(a, FALSE)) /\ UNCHANGED chromeSide
      \/ /\ t \in shared /\ a.what = "kid" /\ met[a.kid] = "handed"
         /\ IF a.kid \in foreign THEN WallOff(a.kid) ELSE UNCHANGED met
         /\ tell' = Append(tell, Answer(a, a.kid \notin foreign))
         /\ UNCHANGED <<shared, on, auto, kid, foreign, overdue>>
      \/ /\ t \in shared /\ a.what \in {"enable", "disable"}
         /\ on' = IF a.what = "enable" THEN on \cup {t} ELSE on \ {t}
         /\ overdue' = IF a.what = "enable" THEN overdue \cup (IF a.of = NoClient THEN {t} ELSE {}) ELSE overdue \ {t}
         /\ tell' = Append(tell, Answer(a, TRUE)) /\ UNCHANGED <<shared, auto, kid, foreign, met>>
      \/ /\ t \in shared /\ a.what = "auto"
         /\ auto' = auto \cup {t}
         /\ tell' = Append(tell, Answer(a, TRUE)) /\ UNCHANGED <<shared, on, kid, foreign, met, overdue>>
      \/ /\ t \in shared /\ a.what = "autoOff"
         /\ auto' = auto \ {t}
         /\ tell' = Append(tell \o Ended(KidsOf(t)), Answer(a, TRUE))
         /\ LoseKids(KidsOf(t)) /\ UNCHANGED <<shared, on, overdue>>
  BY DEF Performs
<1>8. CASE /\ t \notin shared \/ (a.what = "kid" /\ met[a.kid] # "handed")
           /\ tell' = Append(tell, Answer(a, FALSE)) /\ UNCHANGED chromeSide
  <2>. DEFINE e == Answer(a, FALSE)
  <2>1. e \in Told /\ e.m = "answer" /\ e.ok = FALSE /\ e.to = a
    BY <1>6
  <2>2. UNCHANGED <<shared, on, auto, kid, foreign, met, overdue>>
    BY <1>8 DEF chromeSide
  <2>3. tell' = Append(tell, e)
    BY <1>8
  <2>. HIDE DEF e
  <2>4. ~Empties(e) /\ \A s \in on' \ overdue' : s \in on \ overdue /\ ~TurnsOff(e, s) /\ ~(Head(ask).tab = s /\ Head(ask).what = "disable")
    BY <1>2, <1>8, <2>1, <2>2 DEF Empties, TurnsOff
  <2>5. Met' /\ Live' = Live
    BY <1>5, <2>2
  <2>6. overdue' \subseteq CdpTabs
    BY <1>2, <2>2
  <2>. QED BY <1>1, <1>2, <2>1, <2>2, <2>3, <2>4, <2>5, <2>6, AnswerKeeps
<1>9. CASE /\ t \in shared /\ a.what = "kid" /\ met[a.kid] = "handed"
           /\ IF a.kid \in foreign THEN WallOff(a.kid) ELSE UNCHANGED met
           /\ tell' = Append(tell, Answer(a, a.kid \notin foreign))
           /\ UNCHANGED <<shared, on, auto, kid, foreign, overdue>>
  <2>. DEFINE e == Answer(a, a.kid \notin foreign)
  <2>1. e \in Told /\ e.m = "answer" /\ e.to = a
    <3>1. (a.kid \notin foreign) \in BOOLEAN
      OBVIOUS
    <3>. QED BY <1>6, <3>1
  <2>2. tell' = Append(tell, e)
    BY <1>9
  <2>. HIDE DEF e
  <2>3. ~Empties(e) /\ \A s \in on' \ overdue' : s \in on \ overdue /\ ~TurnsOff(e, s) /\ ~(Head(ask).tab = s /\ Head(ask).what = "disable")
    BY <1>9, <2>1 DEF Empties, TurnsOff
  <2>4. met' \in [Kids -> {"no", "handed", "told", "untold"}] /\ Met' /\ Live' = Live
    BY <1>2, <1>9, WallIs
  <2>5. overdue' \subseteq CdpTabs
    BY <1>2, <1>9
  <2>. QED BY <1>1, <1>2, <1>9, <2>1, <2>2, <2>3, <2>4, <2>5, AnswerKeeps
<1>10. CASE /\ t \in shared /\ a.what \in {"enable", "disable"}
            /\ on' = IF a.what = "enable" THEN on \cup {t} ELSE on \ {t}
            /\ overdue' = IF a.what = "enable" THEN overdue \cup (IF a.of = NoClient THEN {t} ELSE {}) ELSE overdue \ {t}
            /\ tell' = Append(tell, Answer(a, TRUE)) /\ UNCHANGED <<shared, auto, kid, foreign, met>>
  <2>. DEFINE e == Answer(a, TRUE)
  <2>1. e \in Told /\ e.m = "answer" /\ e.ok = TRUE /\ e.to = a
    BY <1>6
  <2>2. tell' = Append(tell, e)
    BY <1>10
  <2>. HIDE DEF e
  <2>3. ~Empties(e)
    BY <1>10, <2>1 DEF Empties
  <2>4. \A s \in on' \ overdue' : \/ TurnsOn(e, s)
                                  \/ s \in on \ overdue /\ ~TurnsOff(e, s) /\ ~(Head(ask).tab = s /\ Head(ask).what = "disable")
    BY <1>10, <2>1 DEF TurnsOn, TurnsOff, Waits
  <2>5. on' \subseteq shared /\ overdue' \subseteq CdpTabs
    BY <1>2, <1>4, <1>10
  <2>6. Met' /\ Live' = Live
    BY <1>5, <1>10
  <2>. QED BY <1>1, <1>2, <1>10, <2>1, <2>2, <2>3, <2>4, <2>5, <2>6, AnswerKeeps
<1>11. CASE /\ t \in shared /\ a.what = "auto"
            /\ auto' = auto \cup {t}
            /\ tell' = Append(tell, Answer(a, TRUE)) /\ UNCHANGED <<shared, on, kid, foreign, met, overdue>>
  <2>. DEFINE e == Answer(a, TRUE)
  <2>1. e \in Told /\ e.m = "answer" /\ e.ok = TRUE /\ e.to = a
    BY <1>6
  <2>2. tell' = Append(tell, e)
    BY <1>11
  <2>. HIDE DEF e
  <2>3. ~Empties(e) /\ \A s \in on' \ overdue' : s \in on \ overdue /\ ~TurnsOff(e, s) /\ ~(Head(ask).tab = s /\ Head(ask).what = "disable")
    BY <1>11, <2>1 DEF Empties, TurnsOff
  <2>4. auto' \subseteq shared
    BY <1>2, <1>11
  <2>5. Met' /\ Live' = Live
    BY <1>5, <1>11
  <2>6. overdue' \subseteq CdpTabs
    BY <1>2, <1>11
  <2>. QED BY <1>1, <1>2, <1>11, <2>1, <2>2, <2>3, <2>4, <2>5, <2>6, AnswerKeeps
<1>12. CASE /\ t \in shared /\ a.what = "autoOff"
            /\ auto' = auto \ {t}
            /\ tell' = Append(tell \o Ended(KidsOf(t)), Answer(a, TRUE))
            /\ LoseKids(KidsOf(t)) /\ UNCHANGED <<shared, on, overdue>>
  BY <1>1, <1>12, OffKeeps
<1>. QED BY <1>7, <1>8, <1>9, <1>10, <1>11, <1>12

LEMMA CloseKeeps == ASSUME CdpInv, ClosesEndpoint PROVE CdpInv'
<1>1. /\ closed' = TRUE /\ front' = [c \in Clients |-> "gone"] /\ sessions' = [c \in Clients |-> <<>>] /\ heard' = {}
      /\ ask' = <<>> /\ tell' = <<>> /\ UNCHANGED <<tabs, children, autoAttached, enabled, chromeSide>>
  BY DEF ClosesEndpoint
<1>2. CdpTypeOK'
  <2>1. sessions' \in [Clients -> Seq(Rows)] /\ ask' \in Seq(Asked) /\ tell' \in Seq(Told)
    BY <1>1
  <2>. QED BY <1>1, <2>1 DEF CdpInv, CdpTypeOK, chromeSide
<1>3. ServerInv'
  <2>1. AskersFit'
    BY <1>1 DEF AskersFit
  <2>2. Apart' /\ Heard' /\ Ending' /\ Gone'
    BY <1>1 DEF Apart, IdsApart, Heard, Once, Ending, Gone
  <2>. QED BY <2>1, <2>2 DEF ServerInv
<1>4. ChromeInv'
  BY <1>1 DEF CdpInv, ChromeInv, Met, chromeSide
<1>. QED BY <1>2, <1>3, <1>4 DEF CdpInv

---------------------------------------------------------------------------

LEMMA CdpInitially == CdpInit => CdpInv
<1>. SUFFICES ASSUME CdpInit PROVE CdpInv
  OBVIOUS
<1>1. /\ tabs = {} /\ shared = {} /\ on = {} /\ auto = {} /\ foreign = {} /\ overdue = {}
      /\ front = [c \in Clients |-> "gone"] /\ sessions = [c \in Clients |-> <<>>]
      /\ children = {} /\ autoAttached = {} /\ enabled = {} /\ closed = FALSE
      /\ kid = [k \in Kids |-> NoTab] /\ met = [k \in Kids |-> "no"]
      /\ ask = <<>> /\ tell = <<>> /\ heard = {}
  BY DEF CdpInit
<1>2. CdpTypeOK
  <2>1. sessions \in [Clients -> Seq(Rows)] /\ ask \in Seq(Asked) /\ tell \in Seq(Told)
    BY <1>1
  <2>. QED BY <1>1, <2>1 DEF CdpTypeOK
<1>3. ServerInv
  <2>1. AskersFit
    BY <1>1 DEF AskersFit
  <2>2. Apart /\ Heard /\ Ending /\ Gone
    BY <1>1 DEF Apart, IdsApart, Heard, Once, Ending, Gone
  <2>. QED BY <2>1, <2>2 DEF ServerInv
<1>4. ChromeInv
  <2>1. Met /\ AllNoted
    BY <1>1 DEF Met, AllNoted
  <2>2. DOMAIN tell = {}
    BY <1>1
  <2>3. Link(tell, children, Live, Bound)
    BY <1>1, <2>2 DEF Link, InTurn, ToldStands, NewsStands, OneTabEach, OffEmpties
  <2>. QED BY <2>1, <2>3 DEF ChromeInv
<1>. QED BY <1>2, <1>3, <1>4 DEF CdpInv

LEMMA CdpStep == CdpInv /\ [CdpNext]_cdpVars => CdpInv'
<1>. SUFFICES ASSUME CdpInv, [CdpNext]_cdpVars PROVE CdpInv'
  OBVIOUS
<1>1. ASSUME NEW c \in Clients,
             \/ Connects(c) \/ Leaves(c)
             \/ \E how \in {"off", "tabs", "pages"} : RootAutoAttach(c, how)
             \/ \E t \in CdpTabs : AttachToTarget(c, t) \/ \E k \in Kids : AsksKid(c, t, k)
      PROVE  CdpInv'
  BY <1>1, ConnectKeeps, LeaveKeeps, AutoAttachKeeps, AttachKeeps, AsksKidKeeps
<1>2. ASSUME NEW c \in Clients, NEW i \in DOMAIN sessions[c],
             \/ TabHandsPage(c, sessions[c][i]) \/ Detach(c, sessions[c][i]) \/ JoinsChildren(c, sessions[c][i])
             \/ \E what \in Verbs \ {"kid"} : Asks(c, sessions[c][i], what)
      PROVE  CdpInv'
  BY <1>2, HandKeeps, DetachKeeps, JoinKeeps, AsksKeeps
<1>3. ASSUME CallTimesOut \/ Performs \/ HearsLink \/ ClosesEndpoint PROVE CdpInv'
  BY <1>3, TimeoutKeeps, PerformKeeps, HearKeeps, CloseKeeps
<1>4. ASSUME NEW k \in Kids,
             \/ FrameGoes(k)
             \/ \E seen \in BOOLEAN : FrameTurns(k, seen) \/ \E t \in CdpTabs : FrameComes(t, k, seen)
      PROVE  CdpInv'
  BY <1>4, GoesKeeps, TurnKeeps, ComeKeeps
<1>5. ASSUME NEW t \in CdpTabs, CdpShares(t) \/ CdpUnshares(t) PROVE CdpInv'
  BY <1>5, ShareKeeps, UnshareKeeps
<1>6. CASE UNCHANGED cdpVars
  BY <1>6, StutterKeeps
<1>. QED BY <1>1, <1>2, <1>3, <1>4, <1>5, <1>6 DEF CdpNext

LEMMA CdpInvariant == CdpSpec => []CdpInv
BY CdpInitially, CdpStep, PTL DEF CdpSpec

\* The endpoint's state, the link's and Chrome's keep their types: no session has a name or a
\* tab there is not, and Chrome has nothing on of a tab the debugger has let go of.
THEOREM EndpointTypes == CdpSpec => []CdpTypeOK
<1>1. CdpInv => CdpTypeOK
  BY DEF CdpInv
<1>. QED BY <1>1, CdpInvariant, PTL

\* What is on in the person's Chrome is known to be on, but for what a call turned on that had
\* been given up, and no client believes in a frame that has gone or hears of one twice: the
\* server's notes, its children and what the clients were told agree with Chrome whichever way
\* commands, answers, timers, frames and clients cross.
THEOREM EndpointAlwaysAgrees == CdpSpec => []EndpointAgrees
<1>1. ASSUME CdpInv PROVE OnIsKnown
  <2>1. ASSUME ~closed, NEW t \in on \ overdue
        PROVE  \/ t \in enabled
               \/ \E i \in DOMAIN tell : Waits(tell[i]) /\ tell[i].ok /\ tell[i].to.tab = t
                                         /\ tell[i].to.what = "enable"
               \/ \E i \in DOMAIN ask : ask[i].tab = t /\ ask[i].what = "disable"
    <3>1. Noted(t, enabled, tell, ask)
      BY <1>1, <2>1 DEF CdpInv, ChromeInv, AllNoted
    <3>. QED BY <3>1 DEF Noted, TurnsOn
  <2>. QED BY <2>1 DEF OnIsKnown
<1>2. ASSUME CdpInv PROVE FramesHeardOnce
  <2>1. Once(heard)
    BY <1>2 DEF CdpInv, ServerInv, Heard
  <2>2. ASSUME LinkQuiet, NEW h \in heard PROVE kid[h[3]] # NoTab
    <3>1. PICK i \in DOMAIN sessions[h[1]] : <<sessions[h[1]][i].tab, h[3]>> \in children
      BY <1>2 DEF CdpInv, ServerInv, Heard, Hears
    <3>. DEFINE x == <<sessions[h[1]][i].tab, h[3]>>
    <3>2. x \in children /\ x[2] = h[3]
      BY <3>1
    <3>. HIDE DEF x
    <3>3. ~closed
      BY <1>2, <2>2 DEF CdpInv, ServerInv, Ending
    <3>4. DOMAIN tell = {}
      BY <2>2 DEF LinkQuiet
    <3>5. x \in Live
      BY <1>2, <3>2, <3>3, <3>4 DEF CdpInv, ChromeInv, Link, ToldStands
    <3>6. x[1] \in CdpTabs /\ kid[x[2]] = x[1]
      BY <1>2, <3>5, LiveBound DEF CdpInv
    <3>. QED BY <3>2, <3>6, LinkedCdpAssumption
  <2>. QED BY <2>1, <2>2 DEF FramesHeardOnce, Once
<1>3. CdpInv => EndpointAgrees
  BY <1>1, <1>2 DEF EndpointAgrees
<1>. QED BY <1>3, CdpInvariant, PTL
=============================================================================

------------------------------ MODULE MCViewer ------------------------------
(***************************************************************************)
(* What a person or an agent sees of a browser and does to it, on small    *)
(* instances: the life of two sockets (ViewerSocket), the picture of one   *)
(* (ViewerStream), its tabs (ViewerTabs), a view of the whole display with *)
(* its keys (DesktopViewer) and two recordings (Recording).  They share no *)
(* state, so a behaviour is of one of them, its focus.                     *)
(***************************************************************************)
EXTENDS ViewerSocket, ViewerStream, ViewerTabs, DesktopViewer, Recording

CONSTANTS v1, v2, t1, t2, t3, shift, letter, r1, r2

\* The letter key reads as "r" or, with Shift, as "R".
KeysymsOf == [k \in Keys |-> IF k = letter THEN {"r", "R"} ELSE {"Shift"}]

VARIABLE focus

all == <<socketVars, streamVars, tabVars, desktopVars, recordVars, focus>>

\* Which tab is the first one makes no difference; it is on an address.
ViewerInit ==
    /\ focus \in {"socket", "stream", "tabs", "desktop", "recording"}
    /\ SocketInit /\ StreamInit /\ TabsInit /\ DesktopInit /\ RecordingInit
    /\ alive = {t1} /\ blank = {}

\* Two of the tabs may be empty, the third is one that a page opens on an address.
ViewerNext ==
    /\ UNCHANGED focus
    /\ \/ focus = "socket" /\ SocketNext /\ UNCHANGED <<streamVars, tabVars, desktopVars, recordVars>>
       \/ focus = "stream" /\ StreamNext /\ UNCHANGED <<socketVars, tabVars, desktopVars, recordVars>>
       \/ focus = "tabs" /\ TabsNext /\ t3 \notin blank' /\ UNCHANGED <<socketVars, streamVars, desktopVars, recordVars>>
       \/ focus = "desktop" /\ DesktopNext /\ UNCHANGED <<socketVars, streamVars, tabVars, recordVars>>
       \/ focus = "recording" /\ RecordingNext /\ UNCHANGED <<socketVars, streamVars, tabVars, desktopVars>>

ViewerSpec ==
    /\ ViewerInit
    /\ [][ViewerNext]_all
    /\ WF_streamVars(focus = "stream" /\ Emit) /\ WF_streamVars(focus = "stream" /\ Receive) /\ WF_streamVars(focus = "stream" /\ Flush) /\ WF_streamVars(focus = "stream" /\ Drained)
    /\ WF_streamVars(focus = "stream" /\ (BeginStart \/ EndStart \/ CastStartFails \/ StopCast)) /\ WF_streamVars(focus = "stream" /\ EnterTab)
    /\ WF_streamVars(focus = "stream" /\ \E shot \in shots : ShotAnswered(shot) \/ ShotFails(shot))
    /\ DesktopFairness /\ RecordingFairness
=============================================================================

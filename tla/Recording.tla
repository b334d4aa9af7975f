------------------------------- MODULE Recording --------------------------------
(***************************************************************************)
(* An agent's recording of a page's motion (src/src/screencast.ts): the    *)
(* frame before anything moved, the clock that waits for motion, the two   *)
(* that end it, and the table of running recordings of one browser.        *)
(*                                                                         *)
(* A frame is a unit of the budget (its count and its bytes are one        *)
(* budget); thinning by everyMs is a frame that is dropped.                *)
(***************************************************************************)
EXTENDS Naturals

CONSTANTS
    Records,      \* names for recordings, each used once
    NoRecord,
    MaxFrames     \* the budget of frames of a recording

ASSUME RecordingAssumption == NoRecord \notin Records /\ MaxFrames \in Nat \ {0}

VARIABLES
    recording,    \* per name: its stage and what it has kept
    running,      \* the recording the browser's entry names
    browserUp

recordVars == <<recording, running, browserUp>>

Reasons == {"none", "settled", "maxFrames", "maxSeconds", "noMotion", "stopped", "gone"}
RecordRows ==
    [stage : {"free", "starting", "on", "closed"}, connected : BOOLEAN, casting : BOOLEAN, baseline : BOOLEAN,
     moved : BOOLEAN, frames : 0..MaxFrames, why : Reasons, timers : SUBSET {"noMotion", "maxSeconds", "settled"}]
Fresh == [stage |-> "free", connected |-> FALSE, casting |-> FALSE, baseline |-> FALSE, moved |-> FALSE,
          frames |-> 0, why |-> "none", timers |-> {}]

RecordingInit == recording = [r \in Records |-> Fresh] /\ running = NoRecord /\ browserUp = TRUE

RecordingTypeOK ==
    /\ recording \in [Records -> RecordRows] /\ running \in Records \cup {NoRecord} /\ browserUp \in BOOLEAN

---------------------------------------------------------------------------
\* finish(): the first reason stays, every clock is cleared and the cast stopped.
EndedBy(rec, why) ==
    IF rec.why # "none" THEN rec ELSE [rec EXCEPT !.why = why, !.timers = {}, !.casting = FALSE]
Closed(rec) == [rec EXCEPT !.stage = "closed", !.connected = FALSE, !.casting = FALSE]

\* startCapture: one recording at a time, as far as the table says.
StartRecording(r) ==
    /\ recording[r].stage = "free" /\ running = NoRecord /\ browserUp
    /\ recording' = [recording EXCEPT ![r].stage = "starting", ![r].connected = TRUE]
    /\ UNCHANGED <<running, browserUp>>

\* The tab is attached and the cast asked for; the clock that waits for motion runs from before it.
CastStarts(r) ==
    /\ recording[r].stage = "starting" /\ recording[r].timers = {} /\ recording[r].why = "none" /\ browserUp
    /\ recording' = [recording EXCEPT ![r].casting = TRUE, ![r].timers = {"noMotion"}]
    /\ UNCHANGED <<running, browserUp>>

\* startScreencast answers: the table names this one.
Registers(r) ==
    /\ recording[r].stage = "starting" /\ (recording[r].timers # {} \/ recording[r].why # "none")
    /\ recording' = [recording EXCEPT ![r].stage = "on"] /\ running' = r
    /\ UNCHANGED browserUp

StartFails(r) ==
    /\ recording[r].stage = "starting" /\ ~browserUp
    /\ recording' = [recording EXCEPT ![r] = Closed(@)]
    /\ UNCHANGED <<running, browserUp>>

\* As if motion only restarted the clock that waits for it to end.
MovingUntimed(rec, settles) ==
    [rec EXCEPT !.moved = TRUE, !.timers = IF settles THEN {"settled"} ELSE {}]

\* onMotion(): the first moves from the one clock to the other, each puts the last one off.
Moving(rec, settles) ==
    [rec EXCEPT !.moved = TRUE,
                !.timers = {"maxSeconds"} \cup (IF settles THEN {"settled"} ELSE {})]

\* A frame: the first is the page as it was, and starts no clock.
Frame(r, settles, thinned) ==
    LET rec == recording[r] IN
    /\ rec.casting
    /\ recording' = [recording EXCEPT ![r] =
         IF ~rec.baseline /\ rec.frames = 0 THEN [rec EXCEPT !.baseline = TRUE]
         ELSE LET kept == [Moving(rec, settles) EXCEPT !.frames = @ + 1] IN
              IF thinned /\ rec.frames > 0 THEN Moving(rec, settles)
              ELSE IF kept.frames = MaxFrames THEN EndedBy(kept, "maxFrames") ELSE kept]
    /\ UNCHANGED <<running, browserUp>>

Timer(r, why) ==
    /\ why \in recording[r].timers /\ recording' = [recording EXCEPT ![r] = EndedBy(@, why)]
    /\ UNCHANGED <<running, browserUp>>

\* stopCapture, and abandonCapture for a browser that is stopping.
StopRecording(why) ==
    /\ running # NoRecord /\ running' = NoRecord
    /\ recording' = [recording EXCEPT ![running] = Closed(EndedBy(@, why))]
    /\ UNCHANGED browserUp

BrowserStops ==
    /\ browserUp /\ browserUp' = FALSE
    /\ running' = NoRecord
    /\ recording' = [r \in Records |->
         IF r = running THEN Closed(EndedBy(recording[r], "gone")) ELSE [recording[r] EXCEPT !.casting = FALSE]]

BrowserStarts == ~browserUp /\ browserUp' = TRUE /\ UNCHANGED <<recording, running>>

RecordingNext ==
    \/ \E r \in Records :
        \/ StartRecording(r) \/ CastStarts(r) \/ Registers(r) \/ StartFails(r)
        \/ \E settles, thinned \in BOOLEAN : Frame(r, settles, thinned)
        \/ \E why \in {"noMotion", "maxSeconds", "settled"} : Timer(r, why)
    \/ StopRecording("stopped") \/ BrowserStops \/ BrowserStarts

RecordingSpec == RecordingInit /\ [][RecordingNext]_recordVars

RecordingFairness ==
    \A r \in Records : WF_recordVars(\E why \in {"noMotion", "maxSeconds", "settled"} : Timer(r, why))

---------------------------------------------------------------------------
(* Properties *)

\* Every cast ends by itself, so Chrome does not encode for a recording nobody comes back for.
RecordingEnds == \A r \in Records : recording[r].casting ~> ~recording[r].casting

\* What that rests on.  A cast that runs has no reason to end yet and a clock that will give it
\* one, and once the page moved that is the clock no later motion puts off.
CastsAreTimed ==
    \A r \in Records : recording[r].casting =>
        /\ recording[r].why = "none" /\ recording[r].timers # {}
        /\ recording[r].moved => "maxSeconds" \in recording[r].timers

=============================================================================

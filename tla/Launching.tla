------------------------------ MODULE Launching ------------------------------
(***************************************************************************)
(* The processes behind one browser (src/src/chrome.ts and its callers in  *)
(* src/src/browsers.ts): a display, a Chrome drawing on it, and what each  *)
(* launch, stop and reap does to them while they crash, hang and exit late.*)
(*                                                                         *)
(* BrowserLifecycle takes a launch and a stop for single steps and says    *)
(* which of them may run; here one runs at a time and is taken apart.      *)
(***************************************************************************)
EXTENDS Naturals

CONSTANTS
    Launches,     \* names for launches, each used once
    NoLaunch,
    MaxHurts      \* bound: Chromes that crash or hang, displays that do not come up

ASSUME LaunchingAssumption == NoLaunch \notin Launches /\ MaxHurts \in Nat

VARIABLES
    process,       \* per launch: the state of its Chrome
    hung,         \* the Chromes that answer nothing, and no SIGTERM either
    flushing,     \* the Chromes writing their profile out before they exit
    display,      \* per launch: the state of its Xvfb
    entry,        \* the launch this browser's runtime is of
    work, at,     \* what is under way, and for which launch
    hurts

launchVars == <<process, hung, flushing, display, entry, work, at, hurts>>

Alive == {"booting", "up", "told", "killed"}        \* told: asked to end, by CDP or SIGTERM; killed: SIGKILL sent, not yet gone
exited(l) == process[l] = "dead"

LaunchInit ==
    /\ process = [l \in Launches |-> "none"] /\ display = [l \in Launches |-> "none"]
    /\ hung = {} /\ flushing = {} /\ entry = NoLaunch /\ work = "idle" /\ at = NoLaunch /\ hurts = 0

LaunchTypeOK ==
    /\ process \in [Launches -> Alive \cup {"none", "dead"}]
    /\ display \in [Launches -> {"none", "starting", "up", "dead"}]
    /\ hung \subseteq Launches /\ flushing \subseteq Launches /\ {entry, at} \subseteq Launches \cup {NoLaunch}
    /\ work \in {"idle", "display", "port", "close", "wait", "kill"}

---------------------------------------------------------------------------
\* launchChrome: locks cleared, a port, a display; where Xvfb is off there is none.
LaunchBegins(l) ==
    /\ work = "idle" /\ process[l] = "none" /\ display[l] = "none"
    /\ entry # NoLaunch => exited(entry)                       \* ensureRunning
    /\ at' = l
    /\ \/ work' = "display" /\ display' = [display EXCEPT ![l] = "starting"] /\ UNCHANGED process
       \/ work' = "port" /\ process' = [process EXCEPT ![l] = "booting"] /\ UNCHANGED display
    /\ UNCHANGED <<hung, flushing, entry, hurts>>

DisplayUp ==
    /\ work = "display"
    /\ display' = [display EXCEPT ![at] = "up"] /\ process' = [process EXCEPT ![at] = "booting"] /\ work' = "port"
    /\ UNCHANGED <<hung, flushing, entry, at, hurts>>

\* "Xvfb failed to start": thrown as it is, so the Xvfb that was slow stays.
DisplayLate ==
    /\ work = "display" /\ hurts < MaxHurts
    /\ display' = [display EXCEPT ![at] = "up"] /\ work' = "idle" /\ at' = NoLaunch /\ hurts' = hurts + 1
    /\ UNCHANGED <<process, hung, flushing, entry>>

\* The port answers: the runtime is this launch's, whatever it was of.
PortOpens ==
    /\ work = "port" /\ process[at] = "booting" /\ at \notin hung
    /\ process' = [process EXCEPT ![at] = "up"] /\ entry' = at /\ work' = "idle" /\ at' = NoLaunch
    /\ UNCHANGED <<hung, flushing, display, hurts>>

Told(l) == IF process[l] \in {"booting", "up"} THEN "told" ELSE process[l]
Without(l) == IF display[l] = "none" THEN "none" ELSE "dead"

\* waitPort gives up: SIGTERM to the group and to the display, and no wait for either.
PortLate ==
    /\ work = "port" /\ (at \in hung \/ exited(at))
    /\ process' = [process EXCEPT ![at] = Told(at)] /\ display' = [display EXCEPT ![at] = Without(at)]
    /\ work' = "idle" /\ at' = NoLaunch
    /\ UNCHANGED <<hung, flushing, entry, hurts>>

---------------------------------------------------------------------------
\* stopRuntime, of the browser's runtime; performStop takes the entry away when it returns.
StopBegins ==
    /\ work = "idle" /\ entry # NoLaunch
    /\ at' = entry /\ work' = IF exited(entry) THEN "kill" ELSE "close"
    /\ UNCHANGED <<process, hung, flushing, display, entry, hurts>>

\* A plausible mistake: an answered close counts as an exit.
CloseAnsweredAndDone ==
    /\ work = "close" /\ at \notin hung /\ process[at] \in {"up", "told"}
    /\ process' = [process EXCEPT ![at] = "told"] /\ flushing' = flushing \cup {at} /\ work' = "kill"
    /\ UNCHANGED <<hung, display, entry, at, hurts>>

\* Browser.close is answered, and Chrome writes its profile out.
CloseAnswered ==
    /\ work = "close" /\ at \notin hung /\ process[at] \in {"up", "told"}
    /\ process' = [process EXCEPT ![at] = "told"] /\ flushing' = flushing \cup {at} /\ work' = "wait"
    /\ UNCHANGED <<hung, display, entry, at, hurts>>

\* closeChrome throws: no answer in its time, or nobody there.
CloseFails ==
    /\ work = "close" /\ (at \in hung \/ process[at] \in {"killed", "dead"})
    /\ process' = [process EXCEPT ![at] = Told(at)] /\ work' = "wait"
    /\ UNCHANGED <<hung, flushing, display, entry, at, hurts>>

\* The deadline passes with Chrome still there: SIGKILL to its group.
Deadline ==
    /\ work = "wait" /\ ~exited(at)
    /\ process' = [process EXCEPT ![at] = "killed"] /\ work' = "kill"
    /\ UNCHANGED <<hung, flushing, display, entry, at, hurts>>

Exited ==
    /\ work = "wait" /\ exited(at) /\ work' = "kill"
    /\ UNCHANGED <<process, hung, flushing, display, entry, at, hurts>>

\* The display goes last; a Chrome still there a second after SIGKILL fails the stop, and keeps the entry.
StopEnds ==
    /\ work = "kill"
    /\ display' = [display EXCEPT ![at] = Without(at)]
    /\ entry' = IF exited(at) THEN NoLaunch ELSE entry
    /\ work' = "idle" /\ at' = NoLaunch
    /\ UNCHANGED <<process, hung, flushing, hurts>>

\* The reaper finds a Chrome that ended by itself: releaseEnded.
Reaps ==
    /\ work = "idle" /\ entry # NoLaunch /\ exited(entry)
    /\ display' = [display EXCEPT ![entry] = Without(entry)] /\ entry' = NoLaunch
    /\ UNCHANGED <<process, hung, flushing, work, at, hurts>>

---------------------------------------------------------------------------
\* What the processes do by themselves.
Ends(l) == process' = [process EXCEPT ![l] = "dead"] /\ flushing' = flushing \ {l} /\ hung' = hung \ {l}

Crashes(l) ==
    /\ process[l] \in {"booting", "up"} /\ hurts < MaxHurts
    /\ Ends(l) /\ hurts' = hurts + 1
    /\ UNCHANGED <<display, entry, work, at>>
Hangs(l) ==
    /\ process[l] \in {"booting", "up", "told"} /\ l \notin hung /\ hurts < MaxHurts
    /\ hung' = hung \cup {l} /\ hurts' = hurts + 1
    /\ UNCHANGED <<process, flushing, display, entry, work, at>>
Obeys(l) ==
    /\ process[l] = "killed" \/ (process[l] = "told" /\ l \notin hung)
    /\ Ends(l)
    /\ UNCHANGED <<display, entry, work, at, hurts>>

LaunchNext ==
    \/ \E l \in Launches : LaunchBegins(l) \/ Crashes(l) \/ Hangs(l) \/ Obeys(l)
    \/ DisplayUp \/ DisplayLate \/ PortOpens \/ PortLate
    \/ StopBegins \/ CloseAnswered \/ CloseFails \/ Deadline \/ Exited \/ StopEnds \/ Reaps

LaunchSpec == LaunchInit /\ [][LaunchNext]_launchVars

---------------------------------------------------------------------------
(* A Chrome that answered Browser.close keeps its display until it has written its profile out, unless
   its deadline passed: killing the display first loses what it had yet to write (stopRuntime). *)
FlushedInItsDisplay == \A l \in flushing : display[l] = "dead" => process[l] = "killed"

=============================================================================

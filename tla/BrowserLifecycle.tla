--------------------------- MODULE BrowserLifecycle ---------------------------
(***************************************************************************)
(* The life of a managed browser, from src/src/browsers.ts.                *)
(*                                                                         *)
(* BrowserManager runs in one Node.js process.  Code between two awaits is *)
(* atomic; at an await every other request may run.  Each operation that   *)
(* awaits is a stage variable indexed by browser, and each action below is *)
(* the code from one await to the next.  The maps of the class that say an *)
(* operation is under way (starting, stopping, deleting, profileSaves,     *)
(* moving, exporting, reaping) are those stage variables: a browser is in  *)
(* the map exactly when its stage is not "idle".                           *)
(*                                                                         *)
(* Abstracted: what a browser is called, who owns it, why the capacity     *)
(* ledger makes a start wait (module Capacity), what the clock says when   *)
(* the reaper finds a browser idle.                                        *)
(***************************************************************************)
EXTENDS Naturals, FiniteSets

CONSTANTS
    Browsers,     \* the rows of table browsers with kind = 'managed'
    Temporary,    \* those of them with persistent = 0
    Workers,      \* worker hosts a browser can be moved to
    Cap           \* config.maxBrowsers

ASSUME LifecycleAssumption ==
    /\ IsFiniteSet(Browsers)
    /\ Temporary \subseteq Browsers
    /\ "main" \notin Workers
    /\ Cap \in Nat

VARIABLES
    row,          \* browsers.status, or "gone" once the row is deleted
    host,         \* browsers.worker_id, with "main" for NULL
    runtime,      \* runtimes: no entry, or an entry whose Chrome is live or has exited
    proxies,      \* proxies: is an egress listener open for the browser
    starting,     \* starting: the stage of ensureRunningInternal's promise
    before,       \* `before` in ensureRunningInternal: the status a queued start restores
    stopping,     \* stopping: the stage of performStop's promise
    unhealthy,    \* unhealthy
    healing,      \* the stage of a markUnhealthy that restarts the browser
    deleting,     \* deleting: the stage of performDestroy, or "reap" for the reaper
    saving,       \* profileSaves: the stage of snapshotSeed's work
    reserved,     \* resumeReservations
    moving,       \* the stage of moveTo
    reaping,      \* where performReapIdle waits, if at this browser
    sweep,        \* reaping: is a sweep of performReapIdle under way
    exporting,    \* exporting, and how far withExport has got with each browser
    exportPhase,  \* exportActive, and whether withExport has reached its callback
    shutting,     \* which browsers shutdown has still to stop
    shutPhase     \* shuttingDown, and what shutdown waits for

exportVars == <<exporting, exportPhase>>
shutVars   == <<shutting, shutPhase>>
reapVars   == <<reaping, sweep>>
saveVars   == <<saving, reserved>>
startVars  == <<runtime, starting, before>>
stopVars   == <<row, proxies, stopping, unhealthy>>

vars == <<row, host, runtime, proxies, starting, before, stopping, unhealthy, healing, deleting,
          saving, reserved, moving, reaping, sweep, exporting, exportPhase, shutting, shutPhase>>

Hosts  == {"main"} \cup Workers
Status == {"stopped", "queued", "starting", "running", "unhealthy", "stopping", "moving",
           "crashed", "gone"}

\* How far each operation has got: the name of what it awaits.
StartStage  == {"idle", "admit", "queued", "open", "launch", "version", "fail"}
StopStage   == {"idle", "kill", "listener", "hook"}
HealStage   == {"idle", "stop", "restart", "start"}
DeleteStage == {"idle", "stop", "rows", "files", "reap"}
SaveStage   == {"idle", "scan", "stop", "copy", "back", "resume"}
MoveStage   == {"idle", "stop", "copy", "copyUp", "landed", "landedUp", "restart"}
ReapStage   == {"idle", "close", "stop", "files"}
ExportStage == {"out", "todo", "stop", "stopped"}

TypeOK ==
    /\ row         \in [Browsers -> Status]
    /\ host        \in [Browsers -> Hosts]
    /\ runtime     \in [Browsers -> {"none", "live", "exited"}]
    /\ proxies     \in [Browsers -> BOOLEAN]
    /\ starting    \in [Browsers -> StartStage]
    /\ before      \in [Browsers -> Status]
    /\ stopping    \in [Browsers -> StopStage]
    /\ unhealthy   \in [Browsers -> BOOLEAN]
    /\ healing     \in [Browsers -> HealStage]
    /\ deleting    \in [Browsers -> DeleteStage]
    /\ saving      \in [Browsers -> SaveStage]
    /\ reserved    \in [Browsers -> BOOLEAN]
    /\ moving      \in [Browsers -> MoveStage]
    /\ reaping     \in [Browsers -> ReapStage]
    /\ sweep       \in BOOLEAN
    /\ exporting   \in [Browsers -> ExportStage]
    /\ exportPhase \in {"idle", "stop", "copy"}
    /\ shutting    \in [Browsers -> {"out", "todo", "stop"}]
    /\ shutPhase   \in {"up", "saves", "removals", "stops", "down"}

\* A fresh process with rows already in the table, each on some host.
Init ==
    /\ row         = [b \in Browsers |-> "stopped"]
    /\ host        \in [Browsers -> Hosts]
    /\ runtime     = [b \in Browsers |-> "none"]
    /\ proxies     = [b \in Browsers |-> FALSE]
    /\ starting    = [b \in Browsers |-> "idle"]
    /\ before      = [b \in Browsers |-> "stopped"]
    /\ stopping    = [b \in Browsers |-> "idle"]
    /\ unhealthy   = [b \in Browsers |-> FALSE]
    /\ healing     = [b \in Browsers |-> "idle"]
    /\ deleting    = [b \in Browsers |-> "idle"]
    /\ saving      = [b \in Browsers |-> "idle"]
    /\ reserved    = [b \in Browsers |-> FALSE]
    /\ moving      = [b \in Browsers |-> "idle"]
    /\ reaping     = [b \in Browsers |-> "idle"]
    /\ sweep       = FALSE
    /\ exporting   = [b \in Browsers |-> "out"]
    /\ exportPhase = "idle"
    /\ shutting    = [b \in Browsers |-> "out"]
    /\ shutPhase   = "up"

-------------------------------------------------------------------------------
(* What the guards read. *)

\* A deleted row answers NULL, which offHost reads as this host.
OffHost(b) == row[b] # "gone" /\ host[b] # "main"

\* The key is in `moving` until the copy settles; the restart after it is outside.
InMove(b) == moving[b] \notin {"idle", "restart"}

Occupied == {b \in Browsers :
                /\ runtime[b] # "none" \/ starting[b] # "idle" \/ reserved[b]
                /\ ~OffHost(b)}

\* Variants of Full: the cap counts only the Chromes that are up; it is compared one too late.
FullOfLive(b) == ~OffHost(b) /\ Cardinality({c \in Occupied : runtime[c] # "none"}) >= Cap

Full(b) == ~OffHost(b) /\ b \notin Occupied /\ Cardinality(Occupied) >= Cap

Busy(b) == \/ deleting[b] # "idle"   \/ starting[b] # "idle" \/ saving[b] # "idle"
           \/ unhealthy[b]           \/ InMove(b)            \/ exporting[b] # "out"

\* setStatus: an UPDATE, which touches nothing once the row is deleted.
SetStatus(b, s) == row' = [row EXCEPT ![b] = IF @ = "gone" THEN @ ELSE s]

\* Variants of OutcomeIf: a live Chrome is launched again; an export does not refuse a start.
OutcomeRelaunch(b, moved) ==
    IF deleting[b] # "idle" \/ exporting[b] # "out" \/ shutPhase # "up" \/ moved THEN "refused"
    ELSE IF starting[b] # "idle" THEN "join"
    ELSE IF Full(b) \/ row[b] = "gone" THEN "refused" ELSE "start"
OutcomeUnfrozen(b, moved) ==
    IF deleting[b] # "idle" \/ shutPhase # "up" \/ moved THEN "refused"
    ELSE IF runtime[b] = "live" THEN "live"
    ELSE IF starting[b] # "idle" THEN "join"
    ELSE IF Full(b) \/ row[b] = "gone" THEN "refused" ELSE "start"

\* What ensureRunningInternal does for b, in the order it decides it; `moved` is whether the
\* key is in `moving`, which moveTo itself deletes before it calls.
OutcomeIf(b, moved) ==
    IF deleting[b] # "idle" \/ exporting[b] # "out" \/ shutPhase # "up" \/ moved
    THEN "refused"
    ELSE IF runtime[b] = "live"   THEN "live"
    ELSE IF starting[b] # "idle"  THEN "join"
    ELSE IF Full(b) \/ row[b] = "gone" THEN "refused"
    ELSE "start"

Outcome(b) == OutcomeIf(b, InMove(b))

-------------------------------------------------------------------------------
(* Starting: ensureRunningInternal and start. *)

\* On this host the promise first waits for capacity; elsewhere start() runs at once.
BeginStart(b) ==
    /\ before' = [before EXCEPT ![b] = row[b]]
    /\ starting' = [starting EXCEPT ![b] = IF OffHost(b) THEN "launch" ELSE "admit"]
    /\ IF OffHost(b) THEN SetStatus(b, "starting") ELSE UNCHANGED row

\* The start's promise settles and everyone who awaits it goes on: a restart of an unhealthy
\* browser, a save that resumes its source, a move that starts the browser again.
EndStart(b, s) ==
    /\ starting' = [starting EXCEPT ![b] = "idle"]
    /\ SetStatus(b, IF moving[b] = "restart" /\ s = "moving" THEN "stopped" ELSE s)
    /\ moving'    = [moving    EXCEPT ![b] = IF @ = "restart" THEN "idle" ELSE @]
    /\ healing'   = [healing   EXCEPT ![b] = IF @ = "start" THEN "idle" ELSE @]
    /\ unhealthy' = [unhealthy EXCEPT ![b] = @ /\ healing[b] # "start"]
    /\ saving'    = [saving    EXCEPT ![b] = IF @ = "resume" THEN "idle" ELSE @]
    /\ reserved'  = [reserved  EXCEPT ![b] = @ /\ saving[b] # "resume"]

EnsureRunning(b) ==
    /\ saving[b] = "idle"
    /\ Outcome(b) = "start"
    /\ BeginStart(b)
    /\ UNCHANGED <<host, runtime, proxies, stopping, unhealthy, healing, deleting, saveVars,
                   moving, reapVars, exportVars, shutVars>>

\* capacity.admit found no room and calls onQueued, once.
Queue(b) ==
    /\ starting[b] = "admit"
    /\ starting' = [starting EXCEPT ![b] = "queued"]
    /\ SetStatus(b, "queued")
    /\ UNCHANGED <<host, runtime, before, proxies, stopping, unhealthy, healing, deleting, saveVars,
                   moving, reapVars, exportVars, shutVars>>

\* The wait for room ran out, or the row went while the start waited.
AdmitFail(b) ==
    /\ starting[b] \in {"admit", "queued"}
    /\ EndStart(b, IF row[b] = "queued"
                   THEN IF before[b] = "queued" THEN "stopped" ELSE before[b]
                   ELSE row[b])
    /\ UNCHANGED <<host, runtime, before, proxies, stopping, deleting, reapVars, exportVars,
                   shutVars>>

\* start() up to its first await: the previous listener, if any, leaves the map here.
Admit(b) ==
    /\ starting[b] \in {"admit", "queued"}
    /\ row[b] # "gone"
    /\ SetStatus(b, "starting")
    /\ starting' = [starting EXCEPT ![b] = "open"]
    /\ proxies' = [proxies EXCEPT ![b] = FALSE]
    /\ UNCHANGED <<host, runtime, before, stopping, unhealthy, healing, deleting, saveVars,
                   moving, reapVars, exportVars, shutVars>>

\* startEgressProxy resolved; launchChrome is called with its port.
OpenProxy(b) ==
    /\ starting[b] = "open"
    /\ starting' = [starting EXCEPT ![b] = "launch"]
    /\ proxies' = [proxies EXCEPT ![b] = TRUE]
    /\ UNCHANGED <<row, host, runtime, before, stopping, unhealthy, healing, deleting, saveVars,
                   moving, reapVars, exportVars, shutVars>>

\* What a stop or the reaper does after its Chrome has exited takes one 50 ms poll and the
\* closing of a listener with no sockets; a launch takes an X server and a Chrome.  A worker's
\* stop is a call over the network and has no such bound.
TailsDone(b) ==
    host[b] = "main" => stopping[b] \notin {"kill", "listener"} /\ reaping[b] # "close"

\* launchChrome, or the worker, answered: runtimes.set.  capacity.launched reads the row of a
\* browser on this host and throws when it is gone, after the entry was made.
Launched(b) ==
    /\ starting[b] = "launch"
    /\ TailsDone(b)
    /\ runtime' = [runtime EXCEPT ![b] = "live"]
    /\ IF host[b] # "main"
       THEN EndStart(b, "running") /\ UNCHANGED proxies
       ELSE /\ starting' = [starting EXCEPT ![b] = IF row[b] = "gone" THEN "fail" ELSE "version"]
            /\ proxies' = [proxies EXCEPT ![b] = @ /\ row[b] # "gone"]
            /\ UNCHANGED <<row, moving, healing, unhealthy, saveVars>>
    /\ UNCHANGED <<host, before, stopping, deleting, reapVars, exportVars, shutVars>>

\* chromeVersion() answered: the UPDATE to 'running', whatever happened during the await.
Version(b) ==
    /\ starting[b] = "version"
    /\ EndStart(b, "running")
    /\ UNCHANGED <<host, runtime, before, proxies, stopping, deleting, reapVars, exportVars,
                   shutVars>>

\* No listener, no Chrome, or no answer from the worker: the catch closes what was opened.
StartFail(b) ==
    /\ starting[b] \in {"open", "launch"}
    /\ starting' = [starting EXCEPT ![b] = "fail"]
    /\ proxies' = [proxies EXCEPT ![b] = FALSE]
    /\ UNCHANGED <<row, host, runtime, before, stopping, unhealthy, healing, deleting, saveVars,
                   moving, reapVars, exportVars, shutVars>>

StartFailed(b) ==
    /\ starting[b] = "fail"
    /\ EndStart(b, "crashed")
    /\ UNCHANGED <<host, runtime, before, proxies, stopping, deleting, reapVars, exportVars,
                   shutVars>>

\* Chrome ends: by itself, by the operating system, or because performStop asked it to.
ChromeExit(b) ==
    /\ runtime[b] = "live"
    /\ runtime' = [runtime EXCEPT ![b] = "exited"]
    /\ UNCHANGED <<stopVars, host, starting, before, healing, deleting, saveVars, moving,
                   reapVars, exportVars, shutVars>>

-------------------------------------------------------------------------------
(* Stopping: stop, stopInternal and performStop. *)

\* performStop from the point where it has no runtime (any more).
CloseListener(b) ==
    /\ unhealthy' = [unhealthy EXCEPT ![b] = FALSE]
    /\ proxies' = [proxies EXCEPT ![b] = FALSE]
    /\ stopping' = [stopping EXCEPT ![b] = IF proxies[b] THEN "listener" ELSE "hook"]
    /\ SetStatus(b, IF proxies[b] THEN "stopping" ELSE "stopped")

\* stopInternal: a second caller awaits the first one's promise.
StopInternal(b) ==
    IF stopping[b] # "idle" THEN UNCHANGED stopVars
    ELSE IF runtime[b] = "none" THEN CloseListener(b)
    ELSE /\ stopping' = [stopping EXCEPT ![b] = "kill"]
         /\ SetStatus(b, "stopping")
         /\ UNCHANGED <<proxies, unhealthy>>

\* stop(), from the dashboard, an agent, or the capacity ledger.
Stop(b) ==
    /\ stopping[b] = "idle"
    /\ row[b] # "gone"
    /\ exporting[b] = "out"
    /\ saving[b] = "idle"
    /\ StopInternal(b)
    /\ UNCHANGED <<host, startVars, healing, deleting, saveVars, moving, reapVars, exportVars,
                   shutVars>>

\* stopRuntime saw Chrome exit, or a worker's shim closed: the entry under this id goes.
Killed(b) ==
    /\ stopping[b] = "kill"
    /\ host[b] = "main" => runtime[b] = "exited"
    /\ runtime' = [runtime EXCEPT ![b] = "none"]
    /\ CloseListener(b)
    /\ UNCHANGED <<host, starting, before, healing, deleting, saveVars, moving, reapVars,
                   exportVars, shutVars>>

ListenerClosed(b) ==
    /\ stopping[b] = "listener"
    /\ stopping' = [stopping EXCEPT ![b] = "hook"]
    /\ SetStatus(b, "stopped")
    /\ UNCHANGED <<host, startVars, proxies, unhealthy, healing, deleting, saveVars, moving,
                   reapVars, exportVars, shutVars>>

\* The stop's promise settles and everyone who awaits it goes on.  ok: it resolved.  clean: the
\* Chrome the save or the export looked at exited with code 0, and the worker confirmed.
EndStop(b, ok, clean) ==
    /\ stopping' = [stopping EXCEPT ![b] = "idle"]
    /\ healing'  = [healing  EXCEPT ![b] = IF @ # "stop" THEN @ ELSE IF ok THEN "restart" ELSE "idle"]
    /\ saving'   = [saving   EXCEPT ![b] = IF @ # "stop" THEN @ ELSE IF ok /\ clean THEN "copy" ELSE "back"]
    /\ moving'   = [moving   EXCEPT ![b] = IF @ # "stop" THEN @ ELSE IF ok THEN "copyUp" ELSE "idle"]
    /\ deleting' = [deleting EXCEPT ![b] =
                        CASE @ = "stop" -> IF ok THEN "rows" ELSE "idle"
                          [] @ = "reap" -> IF ok THEN "reap" ELSE "idle"
                          [] OTHER -> @]
    /\ reaping'  = [reaping  EXCEPT ![b] =
                        IF @ # "stop" THEN @ ELSE IF ok /\ b \in Temporary THEN "files" ELSE "idle"]
    /\ shutting' = [shutting EXCEPT ![b] = IF @ = "stop" THEN "out" ELSE @]
    /\ IF exporting[b] = "stop" /\ ~(ok /\ clean)
       THEN exporting' = [c \in Browsers |-> "out"] /\ exportPhase' = "idle"
       ELSE /\ exporting' = [exporting EXCEPT ![b] = IF @ = "stop" THEN "stopped" ELSE @]
            /\ UNCHANGED exportPhase

StopDone(b) ==
    /\ stopping[b] = "hook"
    /\ \E clean \in {FALSE, runtime[b] # "live"} : EndStop(b, TRUE, clean)
    /\ IF moving[b] = "stop" THEN SetStatus(b, "moving") ELSE UNCHANGED row
    /\ UNCHANGED <<host, startVars, proxies, unhealthy, reserved, sweep, shutPhase>>

\* Variant of StopFail: the promise is dropped, and nobody who awaits it hears of the failure.
StopFailSilent(b) ==
    /\ stopping[b] = "kill" /\ host[b] = "main" /\ runtime[b] = "live"
    /\ stopping' = [stopping EXCEPT ![b] = "idle"]
    /\ UNCHANGED <<row, proxies, unhealthy, host, startVars, healing, deleting, saveVars, moving,
                   reapVars, exportVars, shutVars>>

\* "Chrome did not exit; its profile remains locked": the status stays 'stopping'.
StopFail(b) ==
    /\ stopping[b] = "kill"
    /\ host[b] = "main"
    /\ runtime[b] = "live"
    /\ EndStop(b, FALSE, FALSE)
    /\ unhealthy' = [unhealthy EXCEPT ![b] = @ /\ healing[b] # "stop"]
    /\ UNCHANGED <<row, host, startVars, proxies, reserved, sweep, shutPhase>>

-------------------------------------------------------------------------------
(* Restarting a browser found broken: markUnhealthy. *)

\* retry: capacity.takeRestart still had a restart left in its window.
MarkUnhealthy(b) ==
    /\ runtime[b] = "live"
    /\ row[b] = "running"
    /\ shutPhase = "up"
    /\ ~Busy(b)
    /\ \E retry \in BOOLEAN :
        IF retry
        THEN /\ healing' = [healing EXCEPT ![b] = "stop"]
             /\ stopping' = [stopping EXCEPT ![b] = IF @ = "idle" THEN "kill" ELSE @]
             /\ unhealthy' = [unhealthy EXCEPT ![b] = TRUE]
             /\ SetStatus(b, IF stopping[b] = "idle" THEN "stopping" ELSE "unhealthy")
        ELSE /\ unhealthy' = [unhealthy EXCEPT ![b] = TRUE]
             /\ SetStatus(b, "unhealthy")
             /\ UNCHANGED <<healing, stopping>>
    /\ UNCHANGED <<host, startVars, proxies, deleting, saveVars, moving, reapVars, exportVars,
                   shutVars>>

HealRestart(b) ==
    /\ healing[b] = "restart"
    /\ IF Outcome(b) \in {"start", "join"}
       THEN healing' = [healing EXCEPT ![b] = "start"] /\ UNCHANGED unhealthy
       ELSE /\ healing' = [healing EXCEPT ![b] = "idle"]
            /\ unhealthy' = [unhealthy EXCEPT ![b] = FALSE]
    /\ IF Outcome(b) = "start" THEN BeginStart(b) ELSE UNCHANGED <<row, starting, before>>
    /\ UNCHANGED <<host, runtime, proxies, stopping, deleting, saveVars, moving, reapVars,
                   exportVars, shutVars>>

-------------------------------------------------------------------------------
(* Deleting: destroy and performDestroy. *)

\* A save under way makes the stop() inside throw, and the deletion with it.
Destroy(b) ==
    /\ exportPhase = "idle"
    /\ shutPhase = "up"
    /\ deleting[b] = "idle"
    /\ saving[b] = "idle"
    /\ row[b] # "gone"
    /\ deleting' = [deleting EXCEPT ![b] = "stop"]
    /\ StopInternal(b)
    /\ UNCHANGED <<host, startVars, healing, saveVars, moving, reapVars, exportVars, shutVars>>

\* The rows go in one turn; a browser on a worker is deleted there first.
DestroyRows(b) ==
    /\ deleting[b] = "rows"
    /\ row' = [row EXCEPT ![b] = "gone"]
    /\ deleting' = [deleting EXCEPT ![b] = "files"]
    /\ UNCHANGED <<host, startVars, proxies, stopping, unhealthy, healing, saveVars, moving,
                   reapVars, exportVars, shutVars>>

\* The worker did not confirm (before the rows go), or the files are removed (after).
DestroyEnds(b) ==
    /\ \/ deleting[b] = "rows" /\ host[b] # "main"
       \/ deleting[b] = "files"
    /\ deleting' = [deleting EXCEPT ![b] = "idle"]
    /\ UNCHANGED <<stopVars, host, startVars, healing, saveVars, moving, reapVars, exportVars,
                   shutVars>>

-------------------------------------------------------------------------------
(* The reaper: reapIdle and performReapIdle. *)

SweepBegin ==
    /\ exportPhase = "idle" /\ shutPhase = "up" /\ ~sweep
    /\ sweep' = TRUE
    /\ UNCHANGED <<stopVars, host, startVars, healing, deleting, saveVars, moving, reaping,
                   exportVars, shutVars>>

SweepEnd ==
    /\ sweep
    /\ \A b \in Browsers : reaping[b] = "idle"
    /\ sweep' = FALSE
    /\ UNCHANGED <<stopVars, host, startVars, healing, deleting, saveVars, moving, reaping,
                   exportVars, shutVars>>

\* The loop reaches b: nothing else awaits in the sweep and no operation owns b.
Reaches(b) ==
    /\ sweep
    /\ \A c \in Browsers : reaping[c] = "idle"
    /\ deleting[b] = "idle" /\ starting[b] = "idle" /\ saving[b] = "idle" /\ stopping[b] = "idle"

\* A Chrome that ended without a stop.  Reading the row of a deleted browser ends the sweep.
ReapExited(b) ==
    /\ Reaches(b)
    /\ runtime[b] = "exited"
    /\ runtime' = [runtime EXCEPT ![b] = "none"]
    /\ unhealthy' = [unhealthy EXCEPT ![b] = FALSE]
    /\ proxies' = [proxies EXCEPT ![b] = FALSE]
    /\ IF proxies[b]
       THEN reaping' = [reaping EXCEPT ![b] = "close"] /\ UNCHANGED <<row, sweep>>
       ELSE SetStatus(b, "crashed") /\ sweep' = (row[b] # "gone") /\ UNCHANGED reaping
    /\ UNCHANGED <<host, starting, before, stopping, healing, deleting, saveVars, moving,
                   exportVars, shutVars>>

ReapClosed(b) ==
    /\ reaping[b] = "close"
    /\ reaping' = [reaping EXCEPT ![b] = "idle"]
    /\ SetStatus(b, "crashed")
    /\ sweep' = (row[b] # "gone")
    /\ UNCHANGED <<host, startVars, proxies, stopping, unhealthy, healing, deleting, saveVars,
                   moving, exportVars, shutVars>>

\* Unpinned and unused for longer than its limit.  A temporary browser is marked deleting.
ReapIdle(b) ==
    /\ Reaches(b)
    /\ runtime[b] = "live"
    /\ row[b] # "gone"
    /\ exporting[b] = "out"
    /\ reaping' = [reaping EXCEPT ![b] = "stop"]
    /\ deleting' = [deleting EXCEPT ![b] = IF b \in Temporary THEN "reap" ELSE @]
    /\ StopInternal(b)
    /\ UNCHANGED <<host, startVars, healing, saveVars, moving, sweep, exportVars, shutVars>>

\* The temporary browser's files and then its row go; or its worker cannot be asked, and the
\* row stays for the next sweep.
ReapRemoved(b) ==
    /\ reaping[b] = "files"
    /\ reaping' = [reaping EXCEPT ![b] = "idle"]
    /\ deleting' = [deleting EXCEPT ![b] = "idle"]
    /\ \/ row' = [row EXCEPT ![b] = "gone"]
       \/ host[b] # "main" /\ UNCHANGED row
    /\ UNCHANGED <<host, startVars, proxies, stopping, unhealthy, healing, saveVars, moving,
                   sweep, exportVars, shutVars>>

-------------------------------------------------------------------------------
(* Saving a profile: snapshotSeed. *)

\* Its guards are these and no others: not `moving`, not `unhealthy`, not `stopping`.
SaveBegin(b) ==
    /\ exportPhase = "idle"
    /\ shutPhase = "up"
    /\ deleting[b] = "idle" /\ saving[b] = "idle" /\ starting[b] = "idle"
    /\ host[b] = "main"
    /\ row[b] \notin {"stopping", "gone"}
    /\ saving' = [saving EXCEPT ![b] = IF runtime[b] = "live" THEN "scan" ELSE "copy"]
    /\ reserved' = [reserved EXCEPT ![b] = runtime[b] = "live"]
    /\ UNCHANGED <<stopVars, host, startVars, healing, deleting, moving, reapVars, exportVars,
                   shutVars>>

\* The site scan answered or failed.
SaveStop(b) ==
    /\ saving[b] = "scan"
    /\ saving' = [saving EXCEPT ![b] = "stop"]
    /\ StopInternal(b)
    /\ UNCHANGED <<host, startVars, healing, deleting, reserved, moving, reapVars, exportVars,
                   shutVars>>

\* The copy was published or failed.  A browser that was stopped for it is started again.
SaveCopied(b) ==
    /\ saving[b] = "copy"
    /\ saving' = [saving EXCEPT ![b] = IF reserved[b] THEN "back" ELSE "idle"]
    /\ UNCHANGED <<stopVars, host, startVars, healing, deleting, reserved, moving, reapVars,
                   exportVars, shutVars>>

SaveBack(b) ==
    /\ saving[b] = "back"
    /\ IF Outcome(b) \in {"start", "join"}
       THEN saving' = [saving EXCEPT ![b] = "resume"] /\ UNCHANGED reserved
       ELSE /\ saving' = [saving EXCEPT ![b] = "idle"]
            /\ reserved' = [reserved EXCEPT ![b] = FALSE]
    /\ IF Outcome(b) = "start" THEN BeginStart(b) ELSE UNCHANGED <<row, starting, before>>
    /\ UNCHANGED <<host, runtime, proxies, stopping, unhealthy, healing, deleting, moving,
                   reapVars, exportVars, shutVars>>

-------------------------------------------------------------------------------
(* Moving to another host: moveTo, with workers.move as one copy. *)

Move(b) ==
    /\ Workers # {}
    /\ exportPhase = "idle"
    /\ deleting[b] = "idle"
    /\ row[b] # "gone"
    /\ moving[b] = "idle" /\ starting[b] = "idle" /\ saving[b] = "idle"
    /\ IF runtime[b] = "live"
       THEN moving' = [moving EXCEPT ![b] = "stop"] /\ StopInternal(b)
       ELSE moving' = [moving EXCEPT ![b] = "copy"] /\ UNCHANGED stopVars
    /\ UNCHANGED <<host, startVars, healing, deleting, saveVars, reapVars, exportVars, shutVars>>

\* The copy landed: the row points at the new host, and the old copy is then deleted.
MoveLands(b) ==
    /\ moving[b] \in {"copy", "copyUp"}
    /\ moving' = [moving EXCEPT ![b] = IF @ = "copyUp" THEN "landedUp" ELSE "landed"]
    /\ \E h \in Hosts \ {host[b]} : host' = [host EXCEPT ![b] = IF row[b] = "gone" THEN @ ELSE h]
    /\ UNCHANGED <<stopVars, startVars, healing, deleting, saveVars, reapVars, exportVars,
                   shutVars>>

\* workers.move failed, and the browser stays where it was, or it resolved.  A browser that was
\* up is started again; if it cannot be, its status leaves 'moving'.
MoveSettles(b) ==
    LET outcome == OutcomeIf(b, FALSE) IN
    /\ moving[b] \in {"copy", "copyUp", "landed", "landedUp"}
    /\ IF moving[b] \in {"copy", "landed"}
       THEN moving' = [moving EXCEPT ![b] = "idle"] /\ UNCHANGED <<row, starting, before>>
       ELSE /\ moving' = [moving EXCEPT ![b] = IF outcome \in {"start", "join"} THEN "restart" ELSE "idle"]
            /\ IF outcome = "start" THEN BeginStart(b)
               ELSE /\ UNCHANGED <<starting, before>>
                    /\ IF row[b] = "moving" /\ outcome # "join" THEN SetStatus(b, "stopped") ELSE UNCHANGED row
    /\ UNCHANGED <<host, runtime, proxies, stopping, unhealthy, healing, deleting, saveVars,
                   reapVars, exportVars, shutVars>>

-------------------------------------------------------------------------------
(* Exporting the instance: withExport. *)

\* Refused while any operation is under way on any browser, selected or not.
ExportBegin(selected) ==
    /\ exportPhase = "idle"
    /\ shutPhase = "up"
    /\ ~sweep
    /\ \A b \in Browsers :
        /\ starting[b] = "idle" /\ saving[b] = "idle" /\ ~InMove(b)
        /\ stopping[b] = "idle" /\ deleting[b] = "idle" /\ ~unhealthy[b]
    /\ \A b \in selected : row[b] # "gone"
    /\ exportPhase' = "stop"
    /\ exporting' = [b \in Browsers |-> IF b \in selected THEN "todo" ELSE "out"]
    /\ UNCHANGED <<stopVars, host, startVars, healing, deleting, saveVars, moving, reapVars,
                   shutVars>>

\* The selected browsers are stopped one after another.
ExportStop(b) ==
    /\ exportPhase = "stop"
    /\ \A c \in Browsers : exporting[c] # "stop"
    /\ exporting[b] = "todo"
    /\ exporting' = [exporting EXCEPT ![b] = "stop"]
    /\ StopInternal(b)
    /\ UNCHANGED <<host, startVars, healing, deleting, saveVars, moving, reapVars, exportPhase,
                   shutVars>>

ExportCopy ==
    /\ exportPhase = "stop"
    /\ \A b \in Browsers : exporting[b] \in {"out", "stopped"}
    /\ exportPhase' = "copy"
    /\ UNCHANGED <<stopVars, host, startVars, healing, deleting, saveVars, moving, reapVars,
                   exporting, shutVars>>

\* The callback returned or threw; the selected browsers are left stopped.
ExportEnd ==
    /\ exportPhase = "copy"
    /\ exportPhase' = "idle"
    /\ exporting' = [b \in Browsers |-> "out"]
    /\ UNCHANGED <<stopVars, host, startVars, healing, deleting, saveVars, moving, reapVars,
                   shutVars>>

-------------------------------------------------------------------------------
(* The end of the process, and the next one: shutdown and recoverOnBoot. *)

ShutdownBegin ==
    /\ shutPhase = "up"
    /\ shutPhase' = "saves"
    /\ UNCHANGED <<stopVars, host, startVars, healing, deleting, saveVars, moving, reapVars,
                   exportVars, shutting>>

ShutdownSaved ==
    /\ shutPhase = "saves"
    /\ \A b \in Browsers : saving[b] = "idle"
    /\ shutPhase' = "removals"
    /\ UNCHANGED <<stopVars, host, startVars, healing, deleting, saveVars, moving, reapVars,
                   exportVars, shutting>>

\* Deletions and the sweep under way have settled; what runs now is what will be stopped.
ShutdownRemoved ==
    /\ shutPhase = "removals"
    /\ ~sweep
    /\ \A b \in Browsers : deleting[b] = "idle"
    /\ shutPhase' = "stops"
    /\ shutting' = [b \in Browsers |-> IF runtime[b] # "none" THEN "todo" ELSE "out"]
    /\ UNCHANGED <<stopVars, host, startVars, healing, deleting, saveVars, moving, reapVars,
                   exportVars>>

\* stop() throws for a browser being exported, and shutdown goes on with the next one.
ShutdownStop(b) ==
    /\ shutPhase = "stops"
    /\ \A c \in Browsers : shutting[c] # "stop"
    /\ shutting[b] = "todo"
    /\ IF exporting[b] # "out"
       THEN shutting' = [shutting EXCEPT ![b] = "out"] /\ UNCHANGED stopVars
       ELSE shutting' = [shutting EXCEPT ![b] = "stop"] /\ StopInternal(b)
    /\ UNCHANGED <<host, startVars, healing, deleting, saveVars, moving, reapVars, exportVars,
                   shutPhase>>

ShutdownEnd ==
    /\ shutPhase = "stops"
    /\ \A b \in Browsers : shutting[b] = "out"
    /\ shutPhase' = "down"
    /\ proxies' = [b \in Browsers |-> FALSE]
    /\ UNCHANGED <<row, host, startVars, stopping, unhealthy, healing, deleting, saveVars, moving,
                   reapVars, exportVars, shutting>>

\* The container ends, after a shutdown or at any moment, with every Chrome in it; the database
\* survives; the next process empties the maps and settles the statuses left in the rows.
Reboot ==
    /\ row' = [b \in Browsers |-> IF row[b] \in {"gone", "crashed"} THEN row[b] ELSE "stopped"]
    /\ runtime'  = [b \in Browsers |-> "none"]  /\ proxies'   = [b \in Browsers |-> FALSE]
    /\ starting' = [b \in Browsers |-> "idle"]  /\ before'    = [b \in Browsers |-> "stopped"]
    /\ stopping' = [b \in Browsers |-> "idle"]  /\ unhealthy' = [b \in Browsers |-> FALSE]
    /\ healing'  = [b \in Browsers |-> "idle"]  /\ deleting'  = [b \in Browsers |-> "idle"]
    /\ saving'   = [b \in Browsers |-> "idle"]  /\ reserved'  = [b \in Browsers |-> FALSE]
    /\ moving'   = [b \in Browsers |-> "idle"]  /\ reaping'   = [b \in Browsers |-> "idle"]
    /\ exporting' = [b \in Browsers |-> "out"]  /\ shutting'  = [b \in Browsers |-> "out"]
    /\ sweep' = FALSE /\ exportPhase' = "idle"  /\ shutPhase' = "up"
    /\ UNCHANGED host

-------------------------------------------------------------------------------
StartStep(b)  == \/ Queue(b) \/ AdmitFail(b) \/ Admit(b) \/ OpenProxy(b) \/ Launched(b)
                 \/ Version(b) \/ StartFail(b) \/ StartFailed(b)
StopStep(b)   == Killed(b) \/ ListenerClosed(b) \/ StopDone(b) \/ StopFail(b)
DeleteStep(b) == DestroyRows(b) \/ DestroyEnds(b)
ReapStep(b)   == ReapClosed(b) \/ ReapRemoved(b)
SaveStep(b)   == SaveStop(b) \/ SaveCopied(b)
MoveStep(b)   == MoveLands(b) \/ MoveSettles(b)
ExportStep    == (\E b \in Browsers : ExportStop(b)) \/ ExportCopy \/ ExportEnd
ShutdownStep  == \/ ShutdownSaved \/ ShutdownRemoved \/ ShutdownEnd
                 \/ \E b \in Browsers : ShutdownStop(b)

\* What goes on by itself once it has begun.
Continue(b) == \/ StartStep(b) \/ StopStep(b) \/ DeleteStep(b) \/ ReapStep(b) \/ SaveStep(b)
               \/ MoveStep(b)

\* What a request, a timer, Chrome or the operating system begins.
Request(b) == \/ EnsureRunning(b) \/ Stop(b) \/ Destroy(b) \/ SaveBegin(b) \/ Move(b)
              \/ MarkUnhealthy(b) \/ ReapExited(b) \/ ReapIdle(b) \/ ChromeExit(b)

\* A promise that has settled goes on before the event loop takes the next event.
Settling == \E b \in Browsers : healing[b] = "restart" \/ saving[b] = "back"

Next ==
    \/ /\ shutPhase # "down" /\ ~Settling
       /\ \/ \E b \in Browsers : Continue(b) \/ Request(b)
          \/ \E selected \in SUBSET Browsers : ExportBegin(selected)
          \/ SweepBegin \/ SweepEnd
          \/ ExportStep
          \/ ShutdownBegin \/ ShutdownStep
    \/ \E b \in Browsers : HealRestart(b) \/ SaveBack(b)
    \/ Reboot

Spec == Init /\ [][Next]_vars

\* Every await settles: a Chrome is killed or given up on at a deadline, launches, calls and
\* copies have timeouts.  A sweep is one pass over a map, so it ends however often it stops at a
\* browser (SF).  Nothing is assumed of requests, crashes or the reaper's clock.
Fairness ==
    /\ \A b \in Browsers :
        /\ WF_vars(StartStep(b)) /\ WF_vars(StopStep(b)) /\ WF_vars(DeleteStep(b))
        /\ WF_vars(ReapStep(b))  /\ WF_vars(SaveStep(b)) /\ WF_vars(MoveStep(b))
        /\ WF_vars(HealRestart(b)) /\ WF_vars(SaveBack(b))
    /\ SF_vars(SweepEnd) /\ WF_vars(ExportStep) /\ WF_vars(ShutdownStep)

FairSpec == Spec /\ Fairness

-------------------------------------------------------------------------------
(* Properties. *)

\* A browser no operation owns.
Quiet(b) ==
    /\ starting[b] = "idle" /\ stopping[b] = "idle" /\ deleting[b] = "idle"
    /\ healing[b] = "idle"  /\ saving[b] = "idle"   /\ moving[b] = "idle"
    /\ reaping[b] = "idle"

\* Two Chromes never share one profile: no start is on its way to a launch while the entry for
\* the same browser still has a live Chrome (ensureRunningInternal joins, it never relaunches).
OneChromePerProfile ==
    \A b \in Browsers : starting[b] \in {"admit", "queued", "open", "launch"} => runtime[b] # "live"

\* "A listener without its Chrome is an open loopback port": a listener that is still in the
\* map belongs to a runtime, or to a start that has just opened it (closeProxy's contract).
NoOrphanListener ==
    \A b \in Browsers : proxies[b] => runtime[b] # "none" \/ starting[b] = "launch"

\* TALLYLAMP_MAX_BROWSERS "caps running Chromes": the Chromes on this host, running, on their way
\* or not yet reaped, and the slots kept for a save to resume into, are never more than the cap.
LocalChromes ==
    {b \in Browsers : host[b] = "main" /\ (runtime[b] # "none" \/ starting[b] # "idle" \/ reserved[b])}

CapRespected == Cardinality(LocalChromes) <= Cap

\* withExport "freezes profile writers before copying": while the callback copies, no selected
\* browser has a Chrome, is being started, saved or deleted, or has its row changed under it.
ExportFrozen ==
    exportPhase = "copy" =>
        \A b \in Browsers : exporting[b] # "out" =>
            /\ runtime[b] # "live" /\ starting[b] = "idle"
            /\ saving[b] = "idle" /\ deleting[b] = "idle" /\ ~InMove(b)

\* A save that closed a running browser's Chrome never finds, once it has its copy, that the slot
\* went to another browser meanwhile (resumeReservations).
SaveKeepsItsSlot == \A b \in Browsers : saving[b] = "back" => ~Full(b)

Slots == INSTANCE Slots WITH Clients <- Browsers, Size <- Cap, held <- LocalChromes

\* The cap is a semaphore: a start takes a free slot, and whatever else happens only gives slots
\* back, a save's pause included.  Slots says what that promises; this refines it where no
\* browser can move: a dead Chrome of a worker, moved here unreaped, is started over the cap.
SlotsRefined == Slots!Spec

\* What has begun ends: an operation, although each may wait for another to let go of the browser,
\* and the process once it was told to stop, whatever was under way.
OperationsEnd ==
    /\ \A b \in Browsers : /\ saving[b] # "idle" ~> saving[b] = "idle"
                           /\ moving[b] # "idle" ~> moving[b] = "idle"
                           /\ healing[b] # "idle" ~> healing[b] = "idle"
                           /\ deleting[b] # "idle" ~> deleting[b] = "idle"
    /\ shutPhase = "saves" ~> shutPhase \in {"down", "up"}
===============================================================================

-------------------------------- MODULE Workers --------------------------------
(***************************************************************************)
(* A browser whose Chrome runs on a worker: the main instance's Workers    *)
(* (src/src/workers.ts) and the worker's own server (src/src/worker.ts).   *)
(*                                                                         *)
(* The two talk by HTTP requests of the main instance.  A request is a     *)
(* record in `asks`: sent, working on the worker, then answered or refused.*)
(* The main instance may give one up (its timeout, a broken connection);   *)
(* what the worker had not begun is then never begun, a copy of a profile  *)
(* ends with its connection, and a start, a stop or a deletion goes on     *)
(* without anybody waiting for it.  Either side may restart.               *)
(*                                                                         *)
(* One browser.  Abstracted: the operations of the main instance that never*)
(* leave it (module BrowserLifecycle), room on the worker (a start may be  *)
(* refused), the bytes of a profile (which copies hold the newest state).  *)
(***************************************************************************)
EXTENDS Naturals, FiniteSets

CONSTANTS
    WorkerHosts,  \* rows of table workers
    MaxFaults,    \* bound: requests given up, polls failed, restarts
    MaxMoves      \* bound: moves begun

ASSUME WorkersAssumption ==
    /\ IsFiniteSet(WorkerHosts)
    /\ "main" \notin WorkerHosts
    /\ MaxFaults \in Nat
    /\ MaxMoves \in Nat

VARIABLES
    place,        \* browsers.worker_id, with "main" for NULL
    runtime,      \* the main instance's runtimes entry: none, live, or exited
    tracked,      \* Workers.remote has the browser
    shim,         \* shimClosers: none, or the worker whose local endpoint the closer closes
    escaped,      \* a Chrome of this host was left running when its runtime was dropped (history)
    op,           \* the operation under way on the browser, and where a move has got to
    asks,         \* requests of the main instance to its workers
    poll,         \* pollOne, per worker: idle, sent, or the answer it waits to read
    chrome,       \* per worker, `running`: none, alive, or dead (exited, still listed)
    launching,    \* per worker, `starting`
    closing,      \* per worker, `stopping`: a Chrome on its way out
    copies,       \* hosts with a profile directory for the browser
    newest,       \* those whose profile is what the last Chrome left (history)
    used,         \* a Chrome has run on the profile (history)
    workerFaults, moves

shimVars   == <<shim, escaped>>
mainVars   == <<place, runtime, tracked, shimVars, op>>
hostVars   == <<chrome, launching, closing>>
fileVars   == <<copies, newest, used>>
boundVars  == <<workerFaults, moves>>
workerVars == <<mainVars, asks, poll, hostVars, fileVars, boundVars>>

Hosts == {"main"} \cup WorkerHosts
Quiet == [at |-> "idle", to |-> "main", again |-> FALSE, copy |-> "none"]

WorkersInit ==
    /\ place \in Hosts /\ runtime = "none" /\ tracked = FALSE /\ shim = "none" /\ op = Quiet
    /\ escaped = FALSE
    /\ asks = {}
    /\ poll = [w \in WorkerHosts |-> [at |-> "idle", seen |-> "none", before |-> FALSE]]
    /\ chrome = [w \in WorkerHosts |-> "none"]
    /\ launching = [w \in WorkerHosts |-> FALSE]
    /\ closing = [w \in WorkerHosts |-> FALSE]
    /\ copies = {} /\ newest = {} /\ used = FALSE
    /\ workerFaults = 0 /\ moves = 0

AskKinds == {"start", "stop", "delete", "pull", "push"}
WorkersTypeOK ==
    /\ place \in Hosts
    /\ runtime \in {"none", "live", "exited"}
    /\ tracked \in BOOLEAN
    /\ shim \in {"none"} \cup WorkerHosts /\ escaped \in BOOLEAN
    /\ op \in [at : {"idle", "start", "undo", "stop", "moveStop", "pull", "push", "clean"},
               to : Hosts, again : BOOLEAN, copy : {"none", "whole", "torn"}]
    /\ \A a \in asks : a \in [to : WorkerHosts, what : AskKinds, by : {"op", "nobody"},
                              at : {"sent", "working", "answered", "refused"}]
    /\ poll \in [WorkerHosts -> [at : {"idle", "sent", "answer"}, seen : {"none", "alive", "dead"},
                                 before : BOOLEAN]]
    /\ chrome \in [WorkerHosts -> {"none", "alive", "dead"}]
    /\ launching \in [WorkerHosts -> BOOLEAN]
    /\ closing \in [WorkerHosts -> BOOLEAN]
    /\ copies \subseteq Hosts /\ newest \subseteq copies /\ used \in BOOLEAN
    /\ workerFaults \in 0..MaxFaults /\ moves \in 0..MaxMoves

---------------------------------------------------------------------------
(* The main instance. *)

Away      == place # "main"
Working   == op.at # "idle"                        \* BrowserManager.busy
OnProfile(w) == chrome[w] = "alive" \/ launching[w] \/ closing[w]

Sends(w, what, by) == asks \cup {[to |-> w, what |-> what, by |-> by, at |-> "sent"]}
\* The requests without those of the operation whose step has ended.
Done  == {a \in asks : a.by # "op"}
SendsNext(w, what) == Done \cup {[to |-> w, what |-> what, by |-> "op", at |-> "sent"]}
Reply(what, how) == \E a \in asks : a.by = "op" /\ a.what = what /\ a.at = how

\* start() of a browser that is to run here; the copy on this host becomes the newest.
RunsHere == runtime' = "live" /\ copies' = copies \cup {"main"} /\ newest' = {"main"} /\ used' = TRUE

Start ==
    /\ ~Working /\ runtime # "live"
    /\ IF Away
       THEN /\ op' = [op EXCEPT !.at = "start"]
            /\ asks' = Sends(place, "start", "op")
            /\ UNCHANGED <<runtime, fileVars>>
       ELSE RunsHere /\ UNCHANGED <<op, asks>>
    /\ UNCHANGED <<place, tracked, shimVars, poll, hostVars, boundVars>>

\* startRuntime once the worker has answered: the local endpoint opens, the record is made.  An
\* endpoint still open for a runtime that had exited loses its closer to the new one.
Started ==
    /\ op.at = "start" /\ Reply("start", "answered")
    /\ runtime' = "live" /\ tracked' = TRUE
    /\ shim' = place
    /\ op' = Quiet /\ asks' = Done
    /\ poll' = [w \in WorkerHosts |-> [poll[w] EXCEPT !.before = TRUE]]
    /\ UNCHANGED <<place, escaped, hostVars, fileVars, boundVars>>

\* The endpoint could not be opened: the Chrome just started is stopped again.
EndpointFails ==
    /\ op.at = "start" /\ Reply("start", "answered")
    /\ op' = [op EXCEPT !.at = "undo"] /\ asks' = SendsNext(place, "stop")
    /\ UNCHANGED <<place, runtime, tracked, shimVars, poll, hostVars, fileVars, boundVars>>

StartFails ==
    /\ \/ op.at = "start" /\ Reply("start", "refused")
       \/ op.at = "undo"  /\ (Reply("stop", "answered") \/ Reply("stop", "refused"))
    /\ op' = Quiet /\ asks' = Done
    /\ UNCHANGED <<place, runtime, tracked, shimVars, poll, hostVars, fileVars, boundVars>>

\* performStop, alone or as the first step of moveTo.  With a closer the runtime is taken for an
\* endpoint of this process, wherever its Chrome is; without one its Chrome is stopped here.
Closes(at, to, again) ==
    IF shim = "none"
    THEN /\ runtime' = "none"
         /\ UNCHANGED <<tracked, op, asks>>
    ELSE /\ tracked' = FALSE
         /\ op' = [at |-> at, to |-> to, again |-> again, copy |-> "none"]
         /\ asks' = Sends(shim, "stop", "op")
         /\ UNCHANGED runtime

Stop ==
    /\ ~Working /\ runtime # "none"
    /\ Closes("stop", place, FALSE)
    /\ UNCHANGED <<place, shimVars, poll, hostVars, fileVars, boundVars>>

\* stopRemote's failure is only logged: answered or not, the browser counts as stopped.
StopOver == Reply("stop", "answered") \/ Reply("stop", "refused")
Closed   == /\ runtime' = "none" /\ shim' = "none" /\ escaped' = (escaped \/ (~Away /\ runtime = "live"))

Stopped ==
    /\ op.at = "stop" /\ StopOver
    /\ Closed /\ op' = Quiet /\ asks' = Done
    /\ UNCHANGED <<place, tracked, poll, hostVars, fileVars, boundVars>>

\* Workers.move: from a worker the profile is pulled, to a worker pushed.
Copying(to, again) ==
    IF Away THEN /\ op' = [at |-> "pull", to |-> to, again |-> again, copy |-> "none"]
                 /\ asks' = SendsNext(place, "pull")
            ELSE /\ op' = [at |-> "push", to |-> to, again |-> again, copy |-> IF escaped THEN "torn" ELSE "whole"]
                 /\ asks' = SendsNext(to, "push")

Move(to) ==
    /\ ~Working /\ to # place /\ moves < MaxMoves /\ moves' = moves + 1
    /\ IF runtime = "live" /\ shim # "none" THEN Closes("moveStop", to, TRUE)
       ELSE /\ Copying(to, runtime = "live")
            /\ runtime' = IF runtime = "live" THEN "none" ELSE runtime
            /\ UNCHANGED tracked
    /\ copies' = IF Away THEN copies ELSE copies \cup {"main"}
    /\ UNCHANGED <<place, shimVars, poll, hostVars, newest, used, workerFaults>>

MoveStopped ==
    /\ op.at = "moveStop" /\ StopOver /\ Closed
    /\ Copying(op.to, TRUE)
    /\ UNCHANGED <<place, tracked, poll, hostVars, fileVars, boundVars>>

\* What a copy does to the host it lands on: as good as its source, if nothing ran meanwhile.
Lands(to, from, copy) ==
    /\ copies' = copies \cup {to}
    /\ newest' = IF copy = "whole" /\ from \in newest THEN newest \cup {to} ELSE newest \ {to}
    /\ UNCHANGED used

\* The row changes hands only now, and the old copy is deleted only then.
Lets(from) == IF from = "main" THEN Done ELSE SendsNext(from, "delete")
Forgets(from) == /\ copies' = IF from = "main" THEN copies \ {from} ELSE copies
                 /\ newest' = IF from = "main" THEN newest \ {from} ELSE newest
                 /\ UNCHANGED used

Pulled ==
    /\ op.at = "pull" /\ Reply("pull", "answered")
    /\ IF op.to = "main"
       THEN /\ IF op.copy = "none" THEN copies' = copies \cup {"main"} /\ UNCHANGED <<newest, used>>
               ELSE Lands("main", place, op.copy)
            /\ place' = "main"
            /\ op' = [op EXCEPT !.at = "clean"] /\ asks' = Lets(place)
       ELSE /\ IF op.copy = "none"
               THEN place' = op.to /\ op' = [op EXCEPT !.at = "clean"] /\ asks' = Lets(place)
               ELSE op' = [op EXCEPT !.at = "push"] /\ asks' = SendsNext(op.to, "push") /\ UNCHANGED place
            /\ UNCHANGED fileVars
    /\ UNCHANGED <<runtime, tracked, shimVars, poll, hostVars, boundVars>>

Pushed ==
    /\ op.at = "push" /\ Reply("push", "answered")
    /\ place' = op.to /\ Forgets(place)
    /\ op' = [op EXCEPT !.at = "clean"] /\ asks' = Lets(place)
    /\ UNCHANGED <<runtime, tracked, shimVars, poll, hostVars, boundVars>>

\* moveTo starts again what it stopped, wherever the row now says, and is over otherwise.
Resumes ==
    IF ~op.again THEN op' = Quiet /\ asks' = Done /\ UNCHANGED <<runtime, fileVars>>
    ELSE IF Away
    THEN op' = [Quiet EXCEPT !.at = "start"] /\ asks' = SendsNext(place, "start") /\ UNCHANGED <<runtime, fileVars>>
    ELSE RunsHere /\ op' = Quiet /\ asks' = Done

MoveFails ==
    /\ \/ op.at = "pull" /\ Reply("pull", "refused")
       \/ op.at = "push" /\ Reply("push", "refused")
    /\ Resumes
    /\ UNCHANGED <<place, tracked, shimVars, poll, hostVars, boundVars>>

Cleaned ==
    /\ op.at = "clean"
    /\ Reply("delete", "answered") \/ Reply("delete", "refused") \/ ~\E a \in asks : a.by = "op"
    /\ Resumes
    /\ UNCHANGED <<place, tracked, shimVars, poll, hostVars, boundVars>>

\* performReapIdle at a runtime that reads as exited: if the row names a worker its endpoint is
\* closed, which also tells the worker to stop what it has; nobody waits for that.
Reap ==
    /\ op.at \notin {"start", "undo", "stop", "moveStop"} /\ runtime = "exited"
    /\ runtime' = "none"
    /\ IF Away /\ shim # "none" THEN shim' = "none" /\ asks' = Sends(shim, "stop", "nobody")
       ELSE UNCHANGED <<shim, asks>>
    /\ UNCHANGED <<place, tracked, escaped, op, poll, hostVars, fileVars, boundVars>>

---------------------------------------------------------------------------
(* The worker. *)

Becomes(a, at) == (asks \ {a}) \cup {[a EXCEPT !.at = at]}
\* Every request of these kinds that waits on worker w ends so.
Settle(w, kinds, at) ==
    {IF a.to = w /\ a.what \in kinds /\ a.at = "working" THEN [a EXCEPT !.at = at] ELSE a : a \in asks}
\* An answer nobody waits for is nothing.
Heard(set) == {a \in set : ~(a.by = "nobody" /\ a.at \in {"answered", "refused"})}

ReceiveStart(a) ==
    /\ a.at = "sent" /\ a.what = "start"
    /\ LET w == a.to IN
       \/ /\ chrome[w] = "alive"                                          \* running already
          /\ asks' = Heard(Becomes(a, "answered")) /\ UNCHANGED <<hostVars, fileVars>>
       \/ /\ chrome[w] # "alive" /\ launching[w]                          \* joins the start under way
          /\ asks' = Becomes(a, "working") /\ UNCHANGED <<hostVars, fileVars>>
       \/ /\ chrome[w] # "alive" /\ ~launching[w]
          /\ launching' = [launching EXCEPT ![w] = TRUE]
          /\ chrome' = [chrome EXCEPT ![w] = "none"]
          /\ copies' = copies \cup {w} /\ newest' = {w} /\ used' = TRUE
          /\ asks' = Becomes(a, "working") /\ UNCHANGED closing
       \/ /\ chrome[w] # "alive" /\ ~launching[w]                         \* out of room
          /\ asks' = Heard(Becomes(a, "refused")) /\ UNCHANGED <<hostVars, fileVars>>
    /\ UNCHANGED <<mainVars, poll, boundVars>>

Launched(w) ==
    /\ launching[w]
    /\ launching' = [launching EXCEPT ![w] = FALSE]
    /\ \/ chrome' = [chrome EXCEPT ![w] = "alive"] /\ asks' = Heard(Settle(w, {"start"}, "answered"))
       \/ UNCHANGED chrome /\ asks' = Heard(Settle(w, {"start"}, "refused"))
    /\ UNCHANGED <<mainVars, poll, closing, fileVars, boundVars>>

\* drop: a stop or a deletion waits for the stop under way, else stops what runs, else is done.
ReceiveStop(a) ==
    /\ a.at = "sent" /\ a.what \in {"stop", "delete"}
    /\ LET w == a.to IN
       IF closing[w] \/ chrome[w] # "none"
       THEN /\ asks' = Becomes(a, "working")
            /\ closing' = [closing EXCEPT ![w] = TRUE]
            /\ chrome' = [chrome EXCEPT ![w] = IF closing[w] THEN @ ELSE "none"]
            /\ UNCHANGED fileVars
       ELSE /\ asks' = Heard(Becomes(a, "answered"))
            /\ copies' = IF a.what = "delete" THEN copies \ {w} ELSE copies
            /\ newest' = IF a.what = "delete" THEN newest \ {w} ELSE newest
            /\ UNCHANGED <<closing, chrome, used>>
    /\ UNCHANGED <<mainVars, poll, launching, boundVars>>

ChromeClosed(w) ==
    /\ closing[w]
    /\ closing' = [closing EXCEPT ![w] = FALSE]
    /\ LET gone == \E a \in asks : a.to = w /\ a.what = "delete" /\ a.at = "working" IN
       /\ copies' = IF gone THEN copies \ {w} ELSE copies
       /\ newest' = IF gone THEN newest \ {w} ELSE newest
    /\ asks' = Heard(Settle(w, {"stop", "delete"}, "answered"))
    /\ UNCHANGED <<mainVars, poll, chrome, launching, used, boundVars>>

\* As if only the table of running browsers were looked at.
AssertStoppedByTable(w) == chrome[w] = "none" /\ ~launching[w]

\* A profile leaves or arrives only while the browser is stopped.
AssertStopped(w) == chrome[w] = "none" /\ ~launching[w] /\ ~closing[w]

ReceiveCopy(a) ==
    /\ a.at = "sent" /\ a.what \in {"pull", "push"}
    /\ LET w == a.to IN
       \/ ~AssertStopped(w) /\ asks' = Becomes(a, "refused") /\ UNCHANGED op
       \/ /\ AssertStopped(w) /\ a.what = "pull" /\ w \notin copies
          /\ asks' = Becomes(a, "answered") /\ UNCHANGED op
       \/ /\ AssertStopped(w) /\ (a.what = "pull" => w \in copies)
          /\ asks' = Becomes(a, "working")
          /\ op' = IF a.what = "push" THEN op
                   ELSE [op EXCEPT !.copy = IF OnProfile(w) THEN "torn" ELSE "whole"]
    /\ UNCHANGED <<place, runtime, tracked, shimVars, poll, hostVars, fileVars, boundVars>>

CopyDone(a) ==
    /\ a.at = "working" /\ a.what \in {"pull", "push"}
    /\ asks' = Becomes(a, "answered")
    /\ IF a.what = "pull"
       THEN op' = [op EXCEPT !.copy = IF OnProfile(a.to) THEN "torn" ELSE @] /\ UNCHANGED fileVars
       ELSE Lands(a.to, place, op.copy) /\ UNCHANGED op
    /\ UNCHANGED <<place, runtime, tracked, shimVars, poll, hostVars, boundVars>>

ChromeDies(w) ==
    /\ chrome[w] = "alive" /\ workerFaults < MaxFaults /\ workerFaults' = workerFaults + 1
    /\ chrome' = [chrome EXCEPT ![w] = "dead"]
    /\ UNCHANGED <<mainVars, asks, poll, launching, closing, fileVars, moves>>

---------------------------------------------------------------------------
(* The poll: what a worker says it runs, squared with what is tracked. *)

Gone(w) == IF tracked /\ place = w THEN tracked' = FALSE /\ runtime' = "exited"
           ELSE UNCHANGED <<tracked, runtime>>

Poll(w) ==
    /\ poll[w].at = "idle"
    /\ poll' = [poll EXCEPT ![w] = [at |-> "sent", seen |-> "none", before |-> FALSE]]
    /\ UNCHANGED <<mainVars, asks, hostVars, fileVars, boundVars>>

PollAnswered(w) ==
    /\ poll[w].at = "sent"
    /\ poll' = [poll EXCEPT ![w] = [@ EXCEPT !.at = "answer", !.seen = chrome[w]]]
    /\ UNCHANGED <<mainVars, asks, hostVars, fileVars, boundVars>>

\* GONE_AFTER polls in a row failed.
PollsFail(w) ==
    /\ poll[w].at = "sent" /\ workerFaults < MaxFaults /\ workerFaults' = workerFaults + 1
    /\ poll' = [poll EXCEPT ![w] = [@ EXCEPT !.at = "idle"]]
    /\ Gone(w)
    /\ UNCHANGED <<place, shimVars, op, asks, hostVars, fileVars, moves>>

\* As if a Chrome that nobody tracks were left alone.
PollReadOnly(w) ==
    /\ poll[w].at = "answer"
    /\ poll' = [poll EXCEPT ![w] = [@ EXCEPT !.at = "idle"]]
    /\ IF poll[w].seen = "alive" \/ (poll[w].seen = "none" /\ poll[w].before)
       THEN UNCHANGED <<tracked, runtime>> ELSE Gone(w)
    /\ UNCHANGED <<place, shimVars, op, asks, hostVars, fileVars, boundVars>>

\* `before`: the browser was started after this poll was sent.
PollRead(w) ==
    /\ poll[w].at = "answer"
    /\ poll' = [poll EXCEPT ![w] = [@ EXCEPT !.at = "idle"]]
    /\ IF poll[w].seen = "alive" \/ (poll[w].seen = "none" /\ poll[w].before)
       THEN UNCHANGED <<tracked, runtime>> ELSE Gone(w)
    /\ asks' = IF poll[w].seen # "none" /\ ~tracked' /\ ~Working THEN Sends(w, "stop", "nobody") ELSE asks
    /\ UNCHANGED <<place, shimVars, op, hostVars, fileVars, boundVars>>

---------------------------------------------------------------------------
(* Requests given up, and restarts. *)

\* The operation waits no longer: what it was for counts as failed.
GivesUp(a) ==
    /\ a.by = "op" /\ a.at \in {"sent", "working"} /\ workerFaults < MaxFaults /\ workerFaults' = workerFaults + 1
    /\ LET over == [a EXCEPT !.at = "refused"]
           goesOn == IF a.at = "working" /\ a.what \in {"start", "stop", "delete"}
                   THEN {[a EXCEPT !.by = "nobody"]} ELSE {} IN
       asks' = (asks \ {a}) \cup {over} \cup goesOn
    /\ \/ UNCHANGED fileVars
       \/ a.what = "push" /\ a.at = "working" /\ Lands(a.to, place, op.copy)
    /\ UNCHANGED <<mainVars, poll, hostVars, moves>>

\* A new process of the main instance knows its rows and no runtime.
MainRestarts ==
    /\ workerFaults < MaxFaults /\ workerFaults' = workerFaults + 1
    /\ runtime' = "none" /\ tracked' = FALSE /\ shim' = "none" /\ op' = Quiet
    /\ UNCHANGED escaped
    /\ asks' = {[a EXCEPT !.by = "nobody"] :
                a \in {b \in asks : b.at = "working" /\ b.what \in {"start", "stop", "delete"}}}
    /\ poll' = [w \in WorkerHosts |-> [poll[w] EXCEPT !.at = "idle"]]
    /\ UNCHANGED <<place, hostVars, fileVars, moves>>

\* A new container of the worker: its Chromes and its requests are gone.  Its hello, if it gets
\* through, says so.
WorkerRestarts(w) ==
    /\ workerFaults < MaxFaults /\ workerFaults' = workerFaults + 1
    /\ chrome' = [chrome EXCEPT ![w] = "none"]
    /\ launching' = [launching EXCEPT ![w] = FALSE]
    /\ closing' = [closing EXCEPT ![w] = FALSE]
    /\ asks' = Heard({IF a.to = w /\ a.at # "answered" THEN [a EXCEPT !.at = "refused"] ELSE a : a \in asks})
    /\ Gone(w) \/ UNCHANGED <<tracked, runtime>>
    /\ UNCHANGED <<place, shimVars, op, poll, fileVars, moves>>

---------------------------------------------------------------------------
WorkerMain == Start \/ Stop \/ \E to \in Hosts : Move(to)
WorkerSteps == Started \/ EndpointFails \/ StartFails \/ Stopped \/ MoveStopped \/ Pulled \/ Pushed
               \/ MoveFails \/ Cleaned
WorkerServes ==
    \/ \E a \in asks : ReceiveStart(a) \/ ReceiveStop(a) \/ ReceiveCopy(a) \/ CopyDone(a)
    \/ \E w \in WorkerHosts : Launched(w) \/ ChromeClosed(w)
WorkerFaults ==
    \/ \E a \in asks : GivesUp(a)
    \/ \E w \in WorkerHosts : ChromeDies(w) \/ PollsFail(w) \/ WorkerRestarts(w)
    \/ MainRestarts
WorkersNext ==
    \/ WorkerMain \/ WorkerSteps \/ WorkerServes \/ WorkerFaults \/ Reap
    \/ \E w \in WorkerHosts : Poll(w) \/ PollAnswered(w) \/ PollRead(w)
WorkersSpec == WorkersInit /\ [][WorkersNext]_workerVars

\* Requests are answered, operations go on, the reaper and the poll read what they asked for.
WorkersFairness ==
    /\ WF_workerVars(WorkerSteps) /\ WF_workerVars(Reap)
    /\ WF_workerVars(\E a \in asks : ReceiveStart(a)) /\ WF_workerVars(\E a \in asks : ReceiveStop(a))
    /\ WF_workerVars(\E a \in asks : ReceiveCopy(a))  /\ WF_workerVars(\E a \in asks : CopyDone(a))
    /\ \A w \in WorkerHosts :
        /\ WF_workerVars(PollAnswered(w)) /\ WF_workerVars(PollRead(w))
        /\ WF_workerVars(Launched(w)) /\ WF_workerVars(ChromeClosed(w))

---------------------------------------------------------------------------
(* Properties *)

\* Once a Chrome has run on it, the host the row names has the whole newest profile: no order of
\* stops, copies, failures and restarts leaves the browser with an old or a torn one.  (A Chrome
\* that the closer of an earlier endpoint let escape may still write to the copy left behind.)
ProfileKept == used => place \in newest \/ escaped

Astray(w) == \/ chrome[w] = "alive" /\ ~(tracked /\ place = w)
             \/ tracked /\ place = w /\ chrome[w] # "alive"

\* What runs on a worker and what the main instance believes come together again: a Chrome
\* nobody tracks is stopped or tracked, one that is tracked but gone is noticed.
BeliefsMeet == \A w \in WorkerHosts : Astray(w) ~> ~Astray(w)
=============================================================================

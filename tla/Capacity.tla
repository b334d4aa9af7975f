------------------------------- MODULE Capacity -------------------------------
(***************************************************************************)
(* The host's process ceiling: which start is admitted, which waits, and   *)
(* which browser is stopped to make room (src/src/capacity.ts).            *)
(*                                                                         *)
(* One action is the code from one await to the next.  Counts are in units *)
(* of threads: what a browser's launch is expected to take, launchEstimate *)
(* and growthTarget of its recorded peaks, is one number, size.            *)
(***************************************************************************)
EXTENDS Integers, Sequences, FiniteSets, FiniteSetsExt, SequencesExt

CONSTANTS
    Browsers,   \* managed browsers of this host
    Sizes,      \* the sizes a browser may be measured to have
    Flat,       \* the size of a browser never measured, or reset
    Ceiling,    \* pids.max, less what is not a browser's
    Headroom,   \* config.processHeadroom
    Pinnable,   \* browsers the administrator pins and unpins
    Watched,    \* browsers a person takes control of
    Closable    \* browsers whose profile is saved or exported

\* A reset is for a browser sized past what it needs (docs/railway.md:187).
ASSUME CapacityAssumption ==
    /\ IsFiniteSet(Browsers)
    /\ IsFiniteSet(Sizes) /\ Sizes \subseteq Nat \ {0}
    /\ Flat \in Sizes /\ \A s \in Sizes : Flat <= s
    /\ Ceiling \in Nat /\ Headroom \in Nat
    /\ {"nobody", "sampler"} \cap Browsers = {}
    /\ Pinnable \subseteq Browsers /\ Watched \subseteq Browsers /\ Closable \subseteq Browsers

Nobody == "nobody"
Sampler == "sampler"    \* relieve, on the sampling timer

VARIABLES
    start,      \* a start's progress: "none", "sleep", "shed", "again", "launch"
    earlier,    \* pairs of starts in flight, the first with a smaller `since`
    late,       \* starts past their deadline
    waiting,    \* this.waiting: what the last pass of a queued start read, or NotQueued
    launching,  \* this.launching: the room reserved, 0 for none
    phase,      \* "stopped", "window" (its first minute) or "up"; a track unless stopped
    stopping,   \* browsers whose Chrome is being ended
    threads,    \* what each browser's process tree holds
    usage,      \* the last scan's count, 0 for none
    size,       \* the recorded peaks
    shed,       \* this.shedding, for whom, and what is still to stop
    cooling,    \* an active browser was stopped less than ACTIVE_SHED_COOLDOWN_MS ago
    pressed,    \* pressureTicks = 1
    pinned,
    idle,       \* unused for config.shedIdleMs
    human,      \* under a person's control
    closed      \* "no", "saving" (profileSaves) or "exporting"

queueVars == <<earlier, late, waiting>>
hostVars  == <<phase, threads, usage, size>>
shedVars  == <<shed, cooling>>
userVars  == <<pinned, idle, human, closed>>
vars == <<start, queueVars, launching, hostVars, stopping, shedVars, pressed, userVars>>

NotQueued == [pinned |-> FALSE, need |-> 0]
NoShed == [by |-> Nobody, todo |-> <<>>, active |-> {}]

TypeOK ==
    /\ start \in [Browsers -> {"none", "sleep", "shed", "again", "launch"}]
    /\ earlier \subseteq Browsers \X Browsers
    /\ late \subseteq Browsers
    /\ waiting \in [Browsers -> [pinned : BOOLEAN, need : Sizes] \cup {NotQueued}]
    /\ launching \in [Browsers -> Sizes \cup {0}]
    /\ phase \in [Browsers -> {"stopped", "window", "up"}]
    /\ stopping \subseteq Browsers
    /\ threads \in [Browsers -> Nat]
    /\ usage \in [Browsers -> Nat]
    /\ size \in [Browsers -> Sizes]
    /\ shed \in [by : Browsers \cup {Nobody, Sampler}, todo : Seq(Browsers),
                 active : SUBSET Browsers]
    /\ cooling \in BOOLEAN
    /\ pressed \in BOOLEAN
    /\ pinned \subseteq Browsers
    /\ idle \subseteq Browsers
    /\ human \subseteq Browsers
    /\ closed \in [Browsers -> {"no", "saving", "exporting"}]

\* Browsers the server has, none running, sizes recorded by earlier runs.
Init ==
    /\ start = [b \in Browsers |-> "none"]
    /\ earlier = {} /\ late = {}
    /\ waiting = [b \in Browsers |-> NotQueued]
    /\ launching = [b \in Browsers |-> 0]
    /\ phase = [b \in Browsers |-> "stopped"]
    /\ stopping = {}
    /\ threads = [b \in Browsers |-> 0]
    /\ usage = [b \in Browsers |-> 0]
    /\ size \in [Browsers -> Sizes]
    /\ shed = NoShed /\ cooling = FALSE
    /\ pressed = FALSE
    /\ pinned \in SUBSET Pinnable
    /\ idle = {} /\ human = {}
    /\ closed = [b \in Browsers |-> "no"]

-------------------------------------------------------------------------------
(* What is in use and what is held. *)

SumOver(f, bs) == MapThenSumSet(LAMBDA b : f[b], bs)

Total(f) == SumOver(f, Browsers)

Current == Total(threads)

Running(b) == phase[b] # "stopped"
InFlight == {b \in Browsers : start[b] # "none"}
Busy(b) == start[b] # "none" \/ closed[b] # "no"

\* Variant of Figures: a start is held no longer than until its Chrome is up.
FiguresOfStarts(b) ==
    {0, launching[b]}
    \cup {size[b] - usage[b] : x \in {b} \cap {c \in pinned : Running(c) /\ usage[c] > 0}}
    \cup {size[b] : x \in {b} \cap {c \in pinned : ~Running(c)}}

\* Variant of Figures: only a running pinned browser is held room for.
FiguresOfRunning(b) ==
    {0, launching[b]}
    \cup {size[b] - usage[b] : x \in {b} \cap {c \in Browsers : phase[c] = "window"}}
    \cup {size[b] - usage[b] : x \in {b} \cap {c \in pinned : Running(c) /\ usage[c] > 0}}

\* The figures that apply to browser b; the largest is held.
Figures(b) ==
    {0, launching[b]}
    \cup {size[b] - usage[b] : x \in {b} \cap {c \in Browsers : phase[c] = "window"}}
    \cup {size[b] - usage[b] : x \in {b} \cap {c \in pinned : Running(c) /\ usage[c] > 0}}
    \cup {size[b] : x \in {b} \cap {c \in pinned : ~Running(c)}}

\* The queued starts that go before the start of b, those in `ahead` having begun before it.
QueuedBefore(b, ahead) ==
    {w \in Browsers \ {b} :
        /\ waiting[w] # NotQueued
        /\ \/ waiting[w].pinned /\ b \notin pinned
           \/ (waiting[w].pinned <=> b \in pinned) /\ w \in ahead}

\* holds(requester)
HoldsAgainst(b, ahead) ==
    LET before == QueuedBefore(b, ahead)
        hold == [c \in Browsers |-> Max(Figures(c) \cup {waiting[w].need : w \in {c} \cap before})]
    IN  SumOver(hold, Browsers \ {b})

\* holds(), the watchdog's view
HoldsInAll == Total([b \in Browsers |-> Max(Figures(b))])

PinnedGrowth ==
    SumOver([b \in Browsers |-> Max({0, size[b] - usage[b]})],
            {b \in pinned : Running(b) /\ usage[b] > 0})

-------------------------------------------------------------------------------
(* Making room: shed. *)

Candidates(exclude) ==
    {c \in Browsers \ ({exclude} \cup pinned \cup human) :
        Running(c) /\ ~Busy(c) /\ usage[c] > 0}

Freed(s) == FoldLeft(LAMBDA n, c : n + usage[c], 0, s)

\* Idle ones first, largest first; in the order of the map of runtimes between equals.
ShedOrders(cs) ==
    {s \in SetToSeqs(cs) : \A i, j \in DOMAIN s : i < j =>
        \/ s[i] \in idle /\ s[j] \notin idle
        \/ (s[i] \in idle <=> s[j] \in idle) /\ usage[s[i]] >= usage[s[j]]}

\* What a shed may choose to stop: from the front until the need is met.  One that is for a
\* start stops nothing unless the whole need is met.
Picks(need, active, whole, exclude) ==
    LET cs == {c \in Candidates(exclude) : c \in idle \/ (active /\ ~cooling)}
    IN  {p \in {SubSeq(s, 1, n) : s \in ShedOrders(cs), n \in 1..Cardinality(cs)} :
            /\ Freed(Front(p)) < need
            /\ Freed(p) >= need \/ (~whole /\ Len(p) = Cardinality(cs))}

Shed(by, p) ==
    shed' = [by |-> by, todo |-> p, active |-> ToSet(p) \ idle]

-------------------------------------------------------------------------------
(* A start: ensureRunningInternal, admit, start. *)

\* release, and the end of the promise
EndStart(b) ==
    /\ start' = [start EXCEPT ![b] = "none"]
    /\ launching' = [launching EXCEPT ![b] = 0]
    /\ waiting' = [waiting EXCEPT ![b] = NotQueued]
    /\ earlier' = {p \in earlier : b \notin {p[1], p[2]}}
    /\ late' = late \ {b}

Room(b, ahead) == Ceiling - Current - Headroom - HoldsAgainst(b, ahead)

\* What a start may stop to get in, one shed at a time; only for a pinned one is it in use.
MayStop(b, ahead) ==
    IF shed # NoShed THEN {} ELSE Picks(size[b] - Room(b, ahead), b \in pinned, TRUE, b)

Reread(b) == [pinned |-> b \in pinned, need |-> size[b]]

\* The check and the reservation, with no await between them.
Admitted(b, ahead) ==
    /\ Room(b, ahead) >= size[b]
    /\ start' = [start EXCEPT ![b] = "launch"]
    /\ launching' = [launching EXCEPT ![b] = size[b]]
    /\ waiting' = [waiting EXCEPT ![b] = NotQueued]
    /\ UNCHANGED shed

MakesRoom(b, ahead) ==
    /\ Room(b, ahead) < size[b]
    /\ \E p \in MayStop(b, ahead) : Shed(b, p)
    /\ start' = [start EXCEPT ![b] = "shed"]
    /\ waiting' = [waiting EXCEPT ![b] = IF @ = NotQueued THEN @ ELSE Reread(b)]
    /\ UNCHANGED launching

Queues(b, ahead) ==
    /\ Room(b, ahead) < size[b]
    /\ MayStop(b, ahead) = {}
    /\ b \notin late
    /\ start' = [start EXCEPT ![b] = "sleep"]
    /\ waiting' = [waiting EXCEPT ![b] = Reread(b)]
    /\ UNCHANGED <<launching, shed>>

\* One pass of admit's loop, from re-reading the row to the next await.
PassAfter(b, ahead) == Admitted(b, ahead) \/ MakesRoom(b, ahead) \/ Queues(b, ahead)

\* A request for a browser that is not running; the first pass is part of it.
\* tied: it began in the same millisecond as the latest of the others.
EnsureRunning(b) ==
    /\ start[b] = "none" /\ ~Running(b) /\ closed[b] # "exporting"
    /\ LET latest == {w \in InFlight : \A x \in InFlight : <<w, x>> \notin earlier}
       IN  \E tied \in {{}, latest} :
             /\ earlier' = earlier \cup ((InFlight \ tied) \X {b})
             /\ PassAfter(b, InFlight \ tied)
    /\ UNCHANGED <<late, hostVars, stopping, cooling, pressed, userVars>>

Ahead(b) == {w \in Browsers : <<w, b>> \in earlier}

\* The next pass: a second has passed, or the shed has made room.
Pass(b) ==
    /\ start[b] \in {"sleep", "again"}
    /\ PassAfter(b, Ahead(b))
    /\ UNCHANGED <<earlier, late, hostVars, stopping, cooling, pressed, userVars>>

\* Variant of PassRefused: the deadline is looked at only by a start that has not queued.
PassRefusedAtOnce(b) ==
    /\ start[b] \in {"sleep", "again"}
    /\ b \in late /\ waiting[b] = NotQueued
    /\ Room(b, Ahead(b)) < size[b]
    /\ MayStop(b, Ahead(b)) = {}
    /\ EndStart(b)
    /\ UNCHANGED <<hostVars, stopping, shedVars, pressed, userVars>>

\* Past its deadline and still no room: fleetFull.
PassRefused(b) ==
    /\ start[b] \in {"sleep", "again"}
    /\ b \in late
    /\ Room(b, Ahead(b)) < size[b]
    /\ MayStop(b, Ahead(b)) = {}
    /\ EndStart(b)
    /\ UNCHANGED <<hostVars, stopping, shedVars, pressed, userVars>>

\* Since this start began, config.admissionWaitMs have passed.
Deadline(b) ==
    /\ start[b] \in {"sleep", "shed"} /\ b \notin late
    /\ late' = late \cup {b}
    /\ UNCHANGED <<start, earlier, waiting, launching, hostVars, stopping, shedVars, pressed,
                   userVars>>

\* capacity.launched: from the reservation to a track, with its window open.
Launched(b) ==
    /\ start[b] = "launch" /\ ~Running(b) /\ launching[b] > 0 /\ threads[b] > 0
    /\ launching' = [launching EXCEPT ![b] = 0]
    /\ phase' = [phase EXCEPT ![b] = "window"]
    /\ UNCHANGED <<start, queueVars, threads, usage, size, stopping, shedVars, pressed, userVars>>

\* The row is 'running' and was just used; or it was stopped in the meantime.
StartEnds(b) ==
    /\ start[b] = "launch" /\ launching[b] = 0
    /\ EndStart(b)
    /\ idle' = idle \ {b}
    /\ UNCHANGED <<hostVars, stopping, shedVars, pressed, pinned, human, closed>>

\* Chrome never came up.
LaunchFails(b) ==
    /\ start[b] = "launch" /\ ~Running(b) /\ launching[b] > 0
    /\ EndStart(b)
    /\ threads' = [threads EXCEPT ![b] = 0]
    /\ UNCHANGED <<phase, usage, size, stopping, shedVars, pressed, userVars>>

-------------------------------------------------------------------------------
(* A stop, and the sequence of stops of a shed. *)

Gone(b) ==
    /\ phase' = [phase EXCEPT ![b] = "stopped"]
    /\ threads' = [threads EXCEPT ![b] = 0]
    /\ usage' = [usage EXCEPT ![b] = 0]
    /\ stopping' = stopping \ {b}

\* capacity.stopped: a run cut short may raise what is on record, never lower it.
Stopped(b) ==
    /\ b \in stopping
    /\ Gone(b)
    /\ \E s \in Sizes :
        /\ IF phase[b] = "window" THEN s >= size[b] ELSE s = size[b]
        /\ size' = [size EXCEPT ![b] = s]
    /\ UNCHANGED <<start, queueVars, launching, shedVars, pressed, userVars>>

\* "Chrome did not exit": the stop fails, and with it the shed that waits for it.
StopFails(b) ==
    /\ b \in stopping
    /\ stopping' = stopping \ {b}
    /\ IF shed.todo # <<>> /\ Head(shed.todo) = b
       THEN /\ shed' = NoShed
            /\ IF shed.by \in Browsers
               THEN EndStart(shed.by)
               ELSE UNCHANGED <<start, queueVars, launching>>
       ELSE UNCHANGED <<shed, start, queueVars, launching>>
    /\ UNCHANGED <<hostVars, cooling, pressed, userVars>>

\* A request, a timer, a save or an export stops it, without a thought for the ceiling.
Stop(b) ==
    /\ Running(b) /\ b \notin stopping
    /\ stopping' = stopping \cup {b}
    /\ UNCHANGED <<start, queueVars, launching, hostVars, shedVars, pressed, userVars>>

\* Its Chrome dies, and the reaper sees it.
Crash(b) ==
    /\ Running(b) /\ start[b] = "none" /\ b \notin stopping
    /\ Gone(b)
    /\ UNCHANGED <<start, queueVars, launching, size, shedVars, pressed, userVars>>

\* shedStop of the next one picked.  It is not asked again whether it is idle, pinned or
\* under a person's control, as it was when it was picked.
ShedStop ==
    /\ shed.todo # <<>>
    /\ LET c == Head(shed.todo) IN
        /\ Running(c) /\ closed[c] = "no" /\ c \notin stopping
        /\ stopping' = stopping \cup {c}
        /\ cooling' = (cooling \/ c \in shed.active)
    /\ UNCHANGED <<start, queueVars, launching, hostVars, shed, pressed, userVars>>

\* Its stop has ended, or there was nothing to stop, or it is being exported.
ShedNext ==
    /\ shed.todo # <<>>
    /\ LET c == Head(shed.todo) IN
        /\ c \notin stopping
        /\ ~Running(c) \/ closed[c] = "exporting"
    /\ IF Len(shed.todo) > 1
       THEN shed' = [shed EXCEPT !.todo = Tail(@)] /\ UNCHANGED <<start, pressed>>
       ELSE /\ shed' = NoShed
            /\ start' = [b \in Browsers |-> IF b = shed.by THEN "again" ELSE start[b]]
            /\ pressed' = (pressed /\ shed.by # Sampler)
    /\ UNCHANGED <<queueVars, launching, hostVars, stopping, cooling, userVars>>

\* stop() refuses while a profile is saved, and the start the shed was for fails of it.
ShedRefused ==
    /\ shed.todo # <<>>
    /\ LET c == Head(shed.todo) IN
        Running(c) /\ closed[c] = "saving" /\ c \notin stopping
    /\ shed' = NoShed
    /\ IF shed.by \in Browsers
       THEN EndStart(shed.by)
       ELSE UNCHANGED <<start, queueVars, launching>>
    /\ UNCHANGED <<hostVars, stopping, cooling, pressed, userVars>>

-------------------------------------------------------------------------------
(* The sampler: sampleNow, scan, relieve. *)

Scanned == [b \in Browsers |-> IF Running(b) THEN threads[b] ELSE 0]

\* relieve: idle browsers go when free room is less than what is held, and active ones when
\* a running pinned browser is starved in two samples in a row.  Primed, it decides on the scan.
IdleToStop ==
    Picks(HoldsInAll + Headroom - (Ceiling - Current), FALSE, FALSE, Nobody)

Starving ==
    IF \E p \in pinned : Running(p) THEN PinnedGrowth + Headroom - (Ceiling - Current) ELSE 0

ActiveToStop == Picks(Starving, TRUE, FALSE, Nobody)

\* One sample; not every one scans.  A scan that counts more than is on record puts it there.
Sample ==
    /\ \/ UNCHANGED <<usage, size>>
       \/ /\ usage' = Scanned
          /\ size' \in {f \in [Browsers -> Sizes] : \A b \in Browsers :
                IF Scanned[b] <= size[b] THEN f[b] = size[b] ELSE f[b] >= Scanned[b]}
    /\ UNCHANGED <<start, queueVars, launching, phase, threads, stopping, cooling, userVars>>
    /\ \/ /\ shed # NoShed
          /\ UNCHANGED <<shed, pressed>>
       \/ /\ shed = NoShed /\ IdleToStop' # {}
          /\ \E p \in IdleToStop' : Shed(Sampler, p)
          /\ UNCHANGED pressed
       \/ /\ shed = NoShed /\ IdleToStop' = {}
          /\ pressed' = (Starving' > 0 /\ ~pressed)
          /\ IF Starving' > 0 /\ pressed /\ ActiveToStop' # {}
             THEN \E p \in ActiveToStop' : Shed(Sampler, p)
             ELSE UNCHANGED shed

\* A browser's first minute is over, and its launch peak is put on record.
WindowEnds(b) ==
    /\ phase[b] = "window" /\ usage[b] > 0
    /\ phase' = [phase EXCEPT ![b] = "up"]
    /\ \E s \in Sizes : s >= threads[b] /\ size' = [size EXCEPT ![b] = s]
    /\ UNCHANGED <<start, queueVars, launching, threads, usage, stopping, shedVars, pressed,
                   userVars>>

\* ACTIVE_SHED_COOLDOWN_MS have passed.
Cooled ==
    /\ cooling
    /\ cooling' = FALSE
    /\ UNCHANGED <<start, queueVars, launching, hostVars, stopping, shed, pressed, userVars>>

-------------------------------------------------------------------------------
(* What people, agents and Chromes do meanwhile. *)

\* A launch grows to its estimate and no further; a browser past its first minute to any size.
Grow(b) ==
    /\ \/ start[b] = "launch" /\ launching[b] > threads[b]
       \/ phase[b] = "window" /\ size[b] > threads[b]
       \/ phase[b] = "up" /\ Max(Sizes) > threads[b]
    /\ threads' = [threads EXCEPT ![b] = @ + 1]
    /\ UNCHANGED <<start, queueVars, launching, phase, usage, size, stopping, shedVars, pressed,
                   userVars>>

Shrink(b) ==
    /\ phase[b] = "up" /\ threads[b] > 1
    /\ threads' = [threads EXCEPT ![b] = @ - 1]
    /\ UNCHANGED <<start, queueVars, launching, phase, usage, size, stopping, shedVars, pressed,
                   userVars>>

systemVars == <<start, queueVars, launching, phase, threads, usage, stopping, shedVars, pressed>>

\* setPinned
SetPinned(b) ==
    /\ b \in Pinnable
    /\ pinned' \in {pinned \cup {b}, pinned \ {b}}
    /\ UNCHANGED <<systemVars, size, idle, human, closed>>

\* resetThreads, of a browser that needs no more than the flat figure
ResetThreads(b) ==
    /\ size[b] # Flat /\ threads[b] <= Flat
    /\ size' = [size EXCEPT ![b] = Flat]
    /\ UNCHANGED <<systemVars, userVars>>

Unused(b) ==
    /\ Running(b) /\ start[b] = "none" /\ b \notin idle
    /\ idle' = idle \cup {b}
    /\ UNCHANGED <<systemVars, size, pinned, human, closed>>

Used(b) ==
    /\ b \in idle
    /\ idle' = idle \ {b}
    /\ UNCHANGED <<systemVars, size, pinned, human, closed>>

\* A person takes control of it, or gives it back.
Control(b) ==
    /\ b \in Watched
    /\ human' \in {human \cup {b}, human \ {b}}
    /\ UNCHANGED <<systemVars, size, pinned, idle, closed>>

\* A save or an export of its profile begins, or ends.
Close(b) ==
    /\ b \in Closable /\ closed[b] = "no" /\ start[b] = "none" /\ b \notin stopping
    /\ \E how \in {"saving", "exporting"} : closed' = [closed EXCEPT ![b] = how]
    /\ UNCHANGED <<systemVars, size, pinned, idle, human>>

Reopen(b) ==
    /\ closed[b] # "no" /\ start[b] = "none" /\ b \notin stopping
    /\ closed' = [closed EXCEPT ![b] = "no"]
    /\ UNCHANGED <<systemVars, size, pinned, idle, human>>

-------------------------------------------------------------------------------

\* Continuations of a promise that is settled: nothing else runs before them.
Settling ==
    \/ shed # NoShed /\ Head(shed.todo) \notin stopping
    \/ \E b \in Browsers : start[b] = "again"

Settle ==
    \/ ShedStop \/ ShedNext \/ ShedRefused
    \/ \E b \in Browsers : start[b] = "again" /\ (Pass(b) \/ PassRefused(b))

\* What a start, a stop or the sampler does.
System(b) ==
    \/ start[b] = "sleep" /\ (Pass(b) \/ PassRefused(b))
    \/ Deadline(b) \/ Launched(b) \/ StartEnds(b) \/ LaunchFails(b)
    \/ Stopped(b) \/ StopFails(b) \/ WindowEnds(b)

\* What others do.
Others(b) ==
    \/ EnsureRunning(b) \/ Stop(b) \/ Crash(b) \/ Grow(b) \/ Shrink(b)
    \/ SetPinned(b) \/ ResetThreads(b) \/ Unused(b) \/ Used(b) \/ Control(b)
    \/ Close(b) \/ Reopen(b)

Next ==
    \/ Settle
    \/ /\ ~Settling
       /\ \/ Sample \/ Cooled
          \/ \E b \in Browsers : System(b) \/ Others(b)

Spec == Init /\ [][Next]_vars

\* The event loop gets to every timer, and a stop ends: stopRuntime kills in the end, or fails.
\* Strong, for Settling, the time between two events, is not a time when a timer is put off.
Fairness ==
    /\ WF_vars(Settle)
    /\ \A b \in Browsers :
        /\ SF_vars(~Settling /\ start[b] = "sleep" /\ (Pass(b) \/ PassRefused(b)))
        /\ SF_vars(~Settling /\ Deadline(b))
        /\ SF_vars(~Settling /\ (Stopped(b) \/ StopFails(b)))

FairSpec == Spec /\ Fairness

-------------------------------------------------------------------------------
(* Properties. *)

Growth == \E b \in Browsers : phase[b] = "up" /\ threads'[b] > threads[b]

\* Its launch was admitted at the size it had before a reset, and has grown past the flat one.
Outgrown == \E b \in Browsers : phase[b] = "window" /\ threads[b] > size[b]

\* What a browser has been promised: its estimate until its first minute is over.
Promised(b) ==
    Max({threads[b], launching[b], IF phase[b] = "window" THEN size[b] ELSE 0})

Fits == Total([b \in Browsers |-> Promised(b)]) <= Ceiling - Headroom

\* Starts that fitted together go on fitting, whatever overlaps: nothing takes the room promised
\* to a start but a browser past its first minute that grows, or one that outgrew a size reset
\* while it launched (the reservation in admit, launching and the launch window of holds).
PromisesKept == [][Fits /\ ~Fits' => Growth \/ Outgrown]_vars

PromisedOrPinned(b) ==
    Max({Promised(b), IF b \in pinned /\ ~Running(b) THEN size[b] ELSE 0})

PinnedFit == Total([b \in Browsers |-> PromisedOrPinned(b)]) <= Ceiling - Headroom

\* Room that is there for every stopped pinned browser is not started into: it goes only when
\* a running browser grows or has outgrown its size, another is pinned, or a pinned one stops
\* (pinnedRows in holds).
PinnedRoomKept ==
    [][PinnedFit /\ ~PinnedFit' =>
        \/ Growth \/ Outgrown
        \/ pinned' # pinned
        \/ \E p \in pinned : Running(p) /\ ~Running(p)']_vars

\* Room is held for nobody but a start that is on its way, however it fails (release).
HoldsHaveStarts ==
    \A b \in Browsers :
        /\ launching[b] > 0 => start[b] = "launch"
        /\ waiting[b] # NotQueued => start[b] \in {"sleep", "shed", "again"}
        /\ \A w \in Browsers : <<w, b>> \in earlier => {w, b} \subseteq InFlight

\* A start that waits for room is admitted or refused in the end (the deadline in admit).
AdmissionEnds ==
    \A b \in Browsers : start[b] = "sleep" ~> start[b] \in {"none", "launch"}

===============================================================================

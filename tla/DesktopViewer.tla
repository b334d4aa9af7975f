------------------------------ MODULE DesktopViewer -----------------------------
(***************************************************************************)
(* "Full browser": one viewer of a browser's X display                     *)
(* (src/src/desktop-viewer.ts).  What its person presses is queued and     *)
(* done by one xdotool at a time; what it holds down is let go of when the *)
(* lease, the focus or the socket goes.  ffmpeg captures the display while *)
(* somebody can see it.                                                    *)
(*                                                                         *)
(* A physical key names one of several keysyms when it is pressed (Shift   *)
(* makes "r" an "R"), perhaps another when it is released.  A mouse button *)
(* is a key with one keysym; motion, scrolling and pasted text hold        *)
(* nothing and are left out, as are the pixels.                            *)
(***************************************************************************)
EXTENDS Naturals, Sequences, FiniteSets

CONSTANTS
    Keys,         \* physical keys
    Keysyms,      \* [Keys -> the keysyms a key may read as]
    Modifier,     \* the keysym of the modifier among them
    NoKeysym,
    MaxQueue,     \* the queue holds 32 messages in the code
    MaxPresses,   \* bound: messages of the person
    MaxHangs,     \* bound: xdotools that hang until the watchdog kills them
    MaxTurns      \* bound: times the lease is lost, and times the view is hidden

Syms == UNION {Keysyms[k] : k \in Keys}

ASSUME DesktopAssumption ==
    /\ IsFiniteSet(Keys) /\ NoKeysym \notin Syms /\ Modifier \in Syms
    /\ MaxQueue \in Nat \ {0} /\ MaxPresses \in Nat /\ MaxHangs \in Nat /\ MaxTurns \in Nat

VARIABLES
    held,         \* X: keysyms that are down
    keys,         \* per physical key, the keysym its press sent
    queue,        \* messages not yet done
    input,        \* the xdotool that runs: its message, the keysyms it moves, whether X has done it
    letGo,        \* keysyms a release xdotool is letting go of
    releaseWhenIdle,
    holds,        \* validLease: the socket's lease is its person's
    bound,        \* boundLease
    socket,       \* open, closing (ws.close was called or the far end left), closed (cleanup ran)
    attached,     \* the view is not hidden
    capture,      \* ffmpeg: none or running
    dying,        \* stoppingCapture: a killed ffmpeg not yet gone
    presses, hangs, turns,
    lost          \* history: keysyms that are down although the viewer gave their record up

desktopVars == <<held, keys, queue, input, letGo, releaseWhenIdle, holds, bound, socket, attached, capture, dying,
                 presses, hangs, turns, lost>>
inputVars == <<keys, queue, input, letGo, releaseWhenIdle, lost>>
captureVars == <<attached, capture, dying>>

Messages == [k : Keys, ev : {"down", "up"}, sym : Syms, mods : BOOLEAN]
NoTool == [on |-> FALSE]
Tools == [on : {TRUE}, msg : Messages, ups : SUBSET Syms, down : Syms \cup {NoKeysym}, ran : BOOLEAN]

DesktopInit ==
    /\ held = {} /\ keys = [k \in Keys |-> NoKeysym] /\ queue = <<>> /\ input = NoTool /\ letGo = {}
    /\ releaseWhenIdle = FALSE /\ holds = FALSE /\ bound = FALSE /\ socket = "open"
    /\ attached = TRUE /\ capture = "running" /\ dying = FALSE
    /\ presses = 0 /\ hangs = 0 /\ turns = 0 /\ lost = {}

DesktopTypeOK ==
    /\ held \subseteq Syms /\ keys \in [Keys -> Syms \cup {NoKeysym}] /\ letGo \subseteq Syms /\ lost \subseteq Syms
    /\ Len(queue) <= MaxQueue /\ \A i \in DOMAIN queue : queue[i] \in Messages
    /\ input \in Tools \cup {NoTool}
    /\ releaseWhenIdle \in BOOLEAN /\ holds \in BOOLEAN /\ bound \in BOOLEAN
    /\ socket \in {"open", "closing", "closed"} /\ attached \in BOOLEAN
    /\ capture \in {"none", "running"} /\ dying \in BOOLEAN
    /\ presses \in 0..MaxPresses /\ hangs \in 0..MaxHangs /\ turns \in 0..MaxTurns

---------------------------------------------------------------------------
(* Letting go. *)

Pressed(ks) == {ks[k] : k \in Keys} \ {NoKeysym}

\* releaseHeldNow: a second xdotool lets go of all that is recorded as held.
ReleaseHeldNow(ks) ==
    /\ releaseWhenIdle' = FALSE /\ keys' = [k \in Keys |-> NoKeysym] /\ letGo' = letGo \cup Pressed(ks)

\* The keysyms the xdotool that runs is still to let go of; those of a press are off the record.
ToRelease == IF input # NoTool /\ ~input.ran THEN input.ups ELSE {}
StruckOff == IF input # NoTool /\ input.msg.ev = "down" THEN ToRelease ELSE {}

\* releaseInputs: the queue is dropped and the running xdotool killed, then everything on record
\* is let go of.  What the killed press had struck off and not let go of stays down.
ReleaseInputs ==
    /\ queue' = <<>> /\ input' = NoTool /\ ReleaseHeldNow(keys)
    /\ lost' = lost \cup (StruckOff \cap held)

LetGoDone ==
    /\ letGo # {} /\ held' = held \ letGo /\ letGo' = {} /\ lost' = lost \ letGo
    /\ UNCHANGED <<keys, queue, input, releaseWhenIdle, holds, bound, socket, captureVars, presses, hangs, turns>>

\* The second xdotool hangs until it is killed; nobody asks again.
LetGoHangs ==
    /\ letGo # {} /\ hangs < MaxHangs /\ hangs' = hangs + 1
    /\ letGo' = {} /\ lost' = lost \cup (letGo \cap held)
    /\ UNCHANGED <<held, keys, queue, input, releaseWhenIdle, holds, bound, socket, captureVars, presses, turns>>

---------------------------------------------------------------------------
(* The queue. *)

\* A press names the modifiers really down; it lets go of the others first.
Stale(m) == IF m.ev = "down" /\ ~m.mods /\ m.sym # Modifier THEN {Modifier} ELSE {}

\* pump(): the next message becomes an xdotool, and a press is recorded before it is made: the
\* record of a key that was down as something else is overwritten, stale modifiers struck off.
Pump ==
    /\ socket # "closed" /\ input = NoTool /\ queue # <<>>
    /\ IF ~(holds /\ bound)
       THEN ReleaseInputs
       ELSE LET m == Head(queue)
                known == keys[m.k]
                kept == [k \in Keys |-> IF keys[k] \in Stale(m) THEN NoKeysym ELSE keys[k]]
                press == m.ev = "down"
            IN /\ queue' = Tail(queue)
               /\ input' = [on |-> TRUE, msg |-> m, ran |-> FALSE,
                            ups |-> IF press THEN Stale(m) ELSE {IF known # NoKeysym THEN known ELSE m.sym},
                            down |-> IF press THEN m.sym ELSE NoKeysym]
               /\ keys' = IF press THEN [kept EXCEPT ![m.k] = m.sym] ELSE keys
               /\ lost' = IF press THEN (lost \cup ({known} \cap held)) \ {m.sym} ELSE lost
               /\ UNCHANGED <<letGo, releaseWhenIdle>>
    /\ UNCHANGED <<held, holds, bound, socket, captureVars, presses, hangs, turns>>

XdotoolRuns ==
    /\ input # NoTool /\ ~input.ran /\ input' = [input EXCEPT !.ran = TRUE]
    /\ held' = (held \ input.ups) \cup ({input.down} \ {NoKeysym}) /\ lost' = lost \ input.ups
    /\ UNCHANGED <<keys, queue, letGo, releaseWhenIdle, holds, bound, socket, captureVars, presses, hangs, turns>>

\* It exits, or the watchdog killed it before it did anything: a release is struck off the
\* record either way, and a deferred "let go" is done once the queue is empty.
XdotoolExits ==
    /\ input # NoTool
    /\ IF input.ran THEN hangs' = hangs ELSE hangs < MaxHangs /\ hangs' = hangs + 1
    /\ input' = NoTool /\ lost' = lost \cup (ToRelease \cap held)
    /\ LET after == IF input.msg.ev = "up" THEN [keys EXCEPT ![input.msg.k] = NoKeysym] ELSE keys IN
       IF releaseWhenIdle /\ queue = <<>> THEN ReleaseHeldNow(after)
       ELSE keys' = after /\ UNCHANGED <<letGo, releaseWhenIdle>>
    /\ UNCHANGED <<held, queue, holds, bound, socket, captureVars, presses, turns>>

---------------------------------------------------------------------------
(* The person. *)

Heartbeat ==
    /\ socket = "open" /\ holds /\ bound' = TRUE
    /\ UNCHANGED <<held, inputVars, holds, socket, captureVars, presses, hangs, turns>>

\* A message: refused without the lease; a full queue is dropped with all that is held.
Press(k, ev, sym, mods) ==
    /\ socket = "open" /\ holds /\ bound /\ presses < MaxPresses /\ presses' = presses + 1
    /\ IF Len(queue) < MaxQueue
       THEN queue' = Append(queue, [k |-> k, ev |-> ev, sym |-> sym, mods |-> mods])
            /\ UNCHANGED <<keys, input, letGo, releaseWhenIdle, lost>>
       ELSE ReleaseInputs
    /\ UNCHANGED <<held, holds, bound, socket, captureVars, hangs, turns>>

\* releaseInputs of the client: the pointer left the stage, or the focus moved off it.
LoseFocus ==
    /\ socket = "open" /\ holds /\ bound
    /\ IF queue # <<>> \/ input # NoTool THEN releaseWhenIdle' = TRUE /\ UNCHANGED <<keys, letGo>>
       ELSE ReleaseHeldNow(keys)
    /\ UNCHANGED <<held, queue, input, holds, bound, socket, captureVars, presses, hangs, turns, lost>>

---------------------------------------------------------------------------
(* The lease and the socket. *)

TakesControl ==
    /\ ~holds /\ turns < MaxTurns /\ turns' = turns + 1 /\ holds' = TRUE
    /\ UNCHANGED <<held, inputVars, bound, socket, captureVars, presses, hangs>>

\* The lease passes to somebody else, with an event the socket hears; or it runs out, unheard.
LosesControl ==
    /\ holds /\ holds' = FALSE
    /\ (socket # "closed" /\ ReleaseInputs) \/ UNCHANGED inputVars
    /\ UNCHANGED <<held, bound, socket, captureVars, presses, hangs, turns>>

\* As if a lease that ran out unheard only unbound the socket.
LeaseCheckUnbinds ==
    /\ socket # "closed" /\ bound /\ ~holds /\ bound' = FALSE
    /\ UNCHANGED <<held, inputVars, holds, socket, captureVars, presses, hangs, turns>>

\* leaseCheck, every 250 ms.
LeaseCheck ==
    /\ socket # "closed" /\ bound /\ ~holds /\ bound' = FALSE /\ ReleaseInputs
    /\ UNCHANGED <<held, holds, socket, captureVars, presses, hangs, turns>>

\* The far end leaves, two pings go unanswered, or the browser is stopped.
SocketGoes ==
    /\ socket = "open" /\ socket' = "closing"
    /\ UNCHANGED <<held, inputVars, holds, bound, captureVars, presses, hangs, turns>>

\* cleanup(): a person who left hands control back, one that was cut off keeps the lease.
Cleanup ==
    /\ socket = "closing" /\ socket' = "closed" /\ ReleaseInputs
    /\ capture' = "none" /\ dying' = (dying \/ capture = "running")
    /\ holds' \in (IF bound THEN {holds, FALSE} ELSE {holds})
    /\ UNCHANGED <<held, bound, attached, presses, hangs, turns>>

---------------------------------------------------------------------------
(* The capture. *)

\* visibility: hidden, the capture is killed; shown, it starts again unless the one killed is
\* still going, whose end starts it then.
HideView ==
    /\ socket = "open" /\ attached /\ turns < MaxTurns /\ turns' = turns + 1
    /\ attached' = FALSE /\ capture' = "none" /\ dying' = (dying \/ capture = "running")
    /\ UNCHANGED <<held, inputVars, holds, bound, socket, presses, hangs>>

StartCapture(gone) == capture' = IF socket # "closed" /\ attached' /\ gone THEN "running" ELSE capture
ShowView ==
    /\ socket = "open" /\ ~attached /\ attached' = TRUE /\ StartCapture(~dying)
    /\ UNCHANGED <<held, inputVars, holds, bound, socket, dying, presses, hangs, turns>>

KilledCaptureGone ==
    /\ dying /\ dying' = FALSE /\ attached' = attached /\ StartCapture(capture = "none")
    /\ UNCHANGED <<held, inputVars, holds, bound, socket, presses, hangs, turns>>

\* ffmpeg ends by itself, or shows nothing for ten seconds: the socket is closed.
CaptureFails ==
    /\ capture = "running" /\ socket = "open" /\ turns < MaxTurns /\ turns' = turns + 1 /\ socket' = "closing"
    /\ UNCHANGED <<held, inputVars, holds, bound, captureVars, presses, hangs>>

---------------------------------------------------------------------------
DesktopNext ==
    \/ LetGoDone \/ LetGoHangs \/ Pump \/ XdotoolRuns \/ XdotoolExits \/ Heartbeat \/ LoseFocus
    \/ \E k \in Keys, ev \in {"down", "up"}, mods \in BOOLEAN : \E sym \in Keysyms[k] : Press(k, ev, sym, mods)
    \/ TakesControl \/ LosesControl \/ LeaseCheck \/ SocketGoes \/ Cleanup
    \/ HideView \/ ShowView \/ KilledCaptureGone \/ CaptureFails

DesktopSpec == DesktopInit /\ [][DesktopNext]_desktopVars

DesktopFairness ==
    /\ WF_desktopVars(LetGoDone) /\ WF_desktopVars(Pump) /\ WF_desktopVars(XdotoolRuns)
    /\ WF_desktopVars(XdotoolExits) /\ WF_desktopVars(LeaseCheck) /\ WF_desktopVars(Cleanup)
    /\ WF_desktopVars(KilledCaptureGone)

---------------------------------------------------------------------------
(* Properties *)

Gone == ~holds \/ socket = "closed"

\* Once the lease is lost or the socket gone, every key is let go of, the modifier too, unless
\* control comes back.  Apart are the keysyms in `lost`, which the code gave up before: the old
\* one of a key that was pressed again as another without a release between; a stale modifier
\* struck off for a press whose xdotool was killed, or hung, before it let go of it; one whose
\* release hung.
KeysLetGo == Gone ~> (held \subseteq lost \/ ~Gone)

\* What that rests on: a key that is down is one the viewer has on record, is letting go of, has
\* struck off for an xdotool still to let go of it, or gave up in one of those three ways, and
\* only what is still down counts as given up.
DownIsRecorded ==
    /\ held \subseteq Pressed(keys) \cup letGo \cup StruckOff \cup lost
    /\ lost \subseteq held

\* A socket that is not bound, or closed, has nothing on record, nothing queued and nothing that
\* runs, so all that is still down is being let go of.
LeavesNothing == ~bound \/ socket = "closed" => Pressed(keys) = {} /\ queue = <<>> /\ input = NoTool

=============================================================================

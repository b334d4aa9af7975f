------------------------------ MODULE ViewerStream ------------------------------
(***************************************************************************)
(* The moving picture of one viewer socket (src/src/viewer.ts, runViewer): *)
(* Chrome's screencast of the streamed tab, the frames it may have         *)
(* unacknowledged, the one frame held back and the one being written, the  *)
(* stills taken beside the stream, and the queue in which the cast is      *)
(* stopped and started again.                                              *)
(*                                                                         *)
(* A picture is the number of the paint it shows.  Abstracted: its bytes,  *)
(* size and quality (a step of the quality ladder, a resize and a clamp    *)
(* that follows the page are all one Restart), the pacing timer, the tabs  *)
(* (module ViewerTabs).  A tab is left and another attached in two steps.  *)
(*                                                                         *)
(* Chrome is taken to emit, of a cast that runs, a frame of what was       *)
(* painted since the last one as soon as its window of frames has room;    *)
(* and nothing of what was painted before the cast.                        *)
(***************************************************************************)
EXTENDS Naturals, Sequences

CONSTANTS
    Control,      \* TRUE: a control socket, FALSE: one that only watches
    FrameWindow,  \* frames Chrome emits before the first is acknowledged
    MaxPaints,    \* bound: pictures
    MaxCasts      \* bound: restarts, tab switches, and times the viewer is hidden or shown

ASSUME StreamAssumption ==
    Control \in BOOLEAN /\ FrameWindow \in Nat \ {0} /\ MaxPaints \in Nat /\ MaxCasts \in Nat

VARIABLES
    picture,      \* the page, as its tab shows it
    painted,      \* Chrome: the picture changed since the last frame of the cast that runs
    casting,      \* Chrome: the session a screencast runs on
    unacked,      \* Chrome: frames of that cast not acknowledged
    frames,       \* frames on their way to the viewer
    session,      \* pageSession, numbered by its attach (epoch); 0: none
    castSession, castPaused, castQueue,
    pending,      \* the undelivered frame
    writing,      \* the frame being written to the socket
    owed,         \* acks owed for the frames dropped, per session
    settling,     \* settleTimer runs
    refined,
    shots,        \* screenshots asked for and not answered, by session: the picture they caught
    shown,        \* the client: the last picture it got
    newest,       \* the newest picture ever sent to it
    interrupted,  \* history: a restart stopped the cast and has not started it again, or a start failed
    gap,          \* history: the newest picture that was missed for that, or whose shot failed
    casts

streamVars == <<picture, painted, casting, unacked, frames, session, castSession, castPaused, castQueue,
                pending, writing, owed, settling, refined, shots, shown, newest, interrupted, gap, casts>>
chromeSide == <<picture, painted, casting, unacked, frames>>
clientSide == <<shown, newest>>
misses == <<interrupted, gap>>

Pictures == 0..MaxPaints
StreamSessions == 0..(MaxCasts + 1)
None == [pic |-> 0, s |-> 0]
FrameRows == [pic : Pictures, s : StreamSessions]
\* What is queued: the start of an attach, that of a return to sight, a restart, and a stop.
Priming == {"start", "resume"}
Starts == Priming \cup {"restart"}
JobRows == [k : Starts \cup {"stop"}, begun : BOOLEAN, s : StreamSessions]

StreamInit ==
    /\ picture = 0 /\ painted = FALSE /\ casting = 0 /\ unacked = 0 /\ frames = <<>>
    /\ session = 1 /\ castSession = 0 /\ castPaused = FALSE
    /\ castQueue = <<[k |-> "start", begun |-> FALSE, s |-> 1]>>   \* attach(), at the end of the set-up
    /\ pending = None /\ writing = None /\ owed = [s \in StreamSessions |-> 0]
    /\ settling = FALSE /\ refined = FALSE /\ shots = {} /\ shown = 0 /\ newest = 0 /\ casts = 0
    /\ interrupted = FALSE /\ gap = 0

StreamTypeOK ==
    /\ picture \in Pictures /\ painted \in BOOLEAN /\ casting \in StreamSessions /\ unacked \in 0..FrameWindow
    /\ \A i \in DOMAIN frames : frames[i] \in FrameRows
    /\ session \in StreamSessions /\ castSession \in StreamSessions /\ castPaused \in BOOLEAN
    /\ \A i \in DOMAIN castQueue : castQueue[i] \in JobRows
    /\ pending \in FrameRows /\ writing \in FrameRows /\ owed \in [StreamSessions -> Nat]
    /\ settling \in BOOLEAN /\ refined \in BOOLEAN
    /\ shots \subseteq [s : StreamSessions, kind : {"prime", "still"}, pic : Pictures]
    /\ shown \in Pictures /\ newest \in Pictures /\ casts \in 0..MaxCasts
    /\ interrupted \in BOOLEAN /\ gap \in Pictures

---------------------------------------------------------------------------
(* Chrome. *)

Paint ==
    /\ picture < MaxPaints /\ picture' = picture + 1 /\ painted' = (casting # 0)
    /\ gap' = IF interrupted THEN picture' ELSE gap
    /\ UNCHANGED <<casting, unacked, frames, session, castSession, castPaused, castQueue, pending, writing,
                   owed, settling, refined, shots, clientSide, interrupted, casts>>

Emit ==
    /\ casting # 0 /\ painted /\ unacked < FrameWindow
    /\ frames' = Append(frames, [pic |-> picture, s |-> casting])
    /\ painted' = FALSE /\ unacked' = unacked + 1
    /\ UNCHANGED <<picture, casting, session, castSession, castPaused, castQueue, pending, writing, owed,
                   settling, refined, shots, clientSide, misses, casts>>

\* Acks go back on the session of their frame; n of them at once.
Acked(s, n) == IF s # casting THEN unacked ELSE IF n > unacked THEN 0 ELSE unacked - n

---------------------------------------------------------------------------
(* Frames. *)

Sent(p) == shown' = p /\ newest' = IF p > newest THEN p ELSE newest

\* As if the frame held back were kept and the newer one dropped.
ReceiveKeepsOlder ==
    /\ frames # <<>> /\ frames' = Tail(frames)
    /\ IF Head(frames).s = session
       THEN /\ owed' = IF pending = None THEN owed ELSE [owed EXCEPT ![session] = @ + 1]
            /\ pending' = IF pending = None THEN Head(frames) ELSE pending
            /\ settling' = TRUE /\ refined' = FALSE
       ELSE UNCHANGED <<owed, pending, settling, refined>>
    /\ UNCHANGED <<picture, painted, casting, unacked, session, castSession, castPaused, castQueue, writing,
                   shots, clientSide, misses, casts>>

\* pump(): the frame held back is dropped for a newer one, and its ack is owed.
Receive ==
    /\ frames # <<>> /\ frames' = Tail(frames)
    /\ IF Head(frames).s = session
       THEN /\ owed' = IF pending = None THEN owed ELSE [owed EXCEPT ![pending.s] = @ + 1]
            /\ pending' = Head(frames) /\ settling' = TRUE /\ refined' = FALSE
       ELSE UNCHANGED <<owed, pending, settling, refined>>
    /\ UNCHANGED <<picture, painted, casting, unacked, session, castSession, castPaused, castQueue, writing,
                   shots, clientSide, misses, casts>>

\* payOwed(), with the ack of the frame that was written or found stale.
Pays(f) == /\ unacked' = Acked(casting, owed[casting] + (IF f.s = casting THEN 1 ELSE 0))
           /\ owed' = [s \in StreamSessions |-> 0]

\* flush(): one frame is written at a time, and one of a tab that was left is only acknowledged.
Flush ==
    /\ writing = None /\ pending # None /\ pending' = None
    /\ IF pending.s # session
       THEN Pays(pending) /\ UNCHANGED <<writing, clientSide>>
       ELSE writing' = pending /\ Sent(pending.pic) /\ UNCHANGED <<unacked, owed>>
    /\ UNCHANGED <<picture, painted, casting, frames, session, castSession, castPaused, castQueue, settling,
                   refined, shots, misses, casts>>

Drained ==
    /\ writing # None /\ writing' = None /\ Pays(writing)
    /\ UNCHANGED <<picture, painted, casting, frames, session, castSession, castPaused, castQueue, pending,
                   settling, refined, shots, clientSide, misses, casts>>

---------------------------------------------------------------------------
(* Stills. *)

Shot(kind) == [s |-> session, kind |-> kind, pic |-> picture]

\* refine(), when no frame came for a while.
Settle ==
    /\ settling /\ settling' = FALSE
    /\ IF Control /\ ~refined /\ ~castPaused /\ session # 0 /\ writing = None /\ pending = None
       THEN refined' = TRUE /\ shots' = shots \cup {Shot("still")}
       ELSE UNCHANGED <<refined, shots>>
    /\ UNCHANGED <<chromeSide, session, castSession, castPaused, castQueue, pending, writing, owed,
                   clientSide, misses, casts>>

\* A still goes straight out, beside the stream, if the tab is still the one it was taken of.
ShotAnswered(shot) ==
    /\ shot \in shots /\ shots' = shots \ {shot}
    /\ IF shot.s = session THEN Sent(shot.pic) ELSE UNCHANGED clientSide
    /\ UNCHANGED <<chromeSide, session, castSession, castPaused, castQueue, pending, writing, owed, settling,
                   refined, misses, casts>>

\* Chrome refuses one: of those, the shot that primes a cast is the only one its picture has.
ShotFails(shot) ==
    /\ shot \in shots /\ shots' = shots \ {shot}
    /\ gap' = IF shot.kind = "prime" /\ shot.s = session /\ shot.pic > gap THEN shot.pic ELSE gap
    /\ UNCHANGED <<chromeSide, session, castSession, castPaused, castQueue, pending, writing, owed, settling,
                   refined, clientSide, interrupted, casts>>

---------------------------------------------------------------------------
(* The cast: starts and stops run one at a time, in the order they were asked for. *)

Job(k, s) == castQueue' = Append(castQueue, [k |-> k, begun |-> FALSE, s |-> s])
CastStops(s) == /\ casting' = IF casting = s THEN 0 ELSE casting
                /\ unacked' = IF casting = s THEN 0 ELSE unacked
                /\ painted' = IF casting = s THEN FALSE ELSE painted
Prime(s) == IF s = session THEN {Shot("prime")} ELSE {}

\* startCast() up to its stop of a cast that runs on the session.  A return to sight primes the
\* picture even if the viewer is hidden again by then.
BeginStart ==
    /\ castQueue # <<>>
    /\ LET j == Head(castQueue) IN
       /\ j.k \in Starts /\ ~j.begun
       /\ IF castPaused
          THEN /\ castQueue' = Tail(castQueue) /\ shots' = IF j.k = "resume" THEN shots \cup Prime(j.s) ELSE shots
               /\ UNCHANGED <<castSession, casting, unacked, painted, misses>>
          ELSE /\ castQueue' = <<[j EXCEPT !.begun = TRUE]>> \o Tail(castQueue) /\ UNCHANGED shots
               /\ castSession' = 0
               /\ IF castSession = j.s THEN CastStops(j.s) ELSE UNCHANGED <<casting, unacked, painted>>
               /\ IF j.k = "restart" /\ j.s = session
                  THEN interrupted' = TRUE /\ gap' = IF painted THEN picture ELSE gap
                  ELSE UNCHANGED misses
    /\ UNCHANGED <<picture, frames, session, castPaused, pending, writing, owed, settling, refined, clientSide, casts>>

\* startScreencast() answers, unless its session is gone; a start that follows an attach or a
\* return to sight primes the picture.
EndStart ==
    /\ castQueue # <<>>
    /\ LET j == Head(castQueue) IN
       /\ j.begun /\ castQueue' = Tail(castQueue)
       /\ IF j.s # session THEN UNCHANGED <<castSession, casting, unacked, painted, shots, interrupted>>
          ELSE /\ castSession' = j.s /\ casting' = j.s /\ unacked' = 0 /\ painted' = FALSE /\ interrupted' = FALSE
               /\ shots' = IF j.k = "resume" \/ (j.k = "start" /\ ~castPaused) THEN shots \cup Prime(j.s) ELSE shots
    /\ UNCHANGED <<picture, frames, session, castPaused, pending, writing, owed, settling, refined, clientSide, gap, casts>>

\* startScreencast() is refused: no cast runs and nothing is primed until one is asked for again.
CastStartFails ==
    /\ castQueue # <<>> /\ Head(castQueue).begun /\ Head(castQueue).s = session /\ castQueue' = Tail(castQueue)
    /\ interrupted' = TRUE /\ gap' = picture
    /\ UNCHANGED <<chromeSide, session, castSession, castPaused, pending, writing, owed, settling, refined, shots,
                   clientSide, casts>>

StopCast ==
    /\ castQueue # <<>> /\ Head(castQueue).k = "stop" /\ castQueue' = Tail(castQueue)
    /\ IF castPaused /\ castSession # 0 THEN castSession' = 0 /\ CastStops(castSession)
       ELSE UNCHANGED <<castSession, casting, unacked, painted>>
    /\ UNCHANGED <<picture, frames, session, castPaused, pending, writing, owed, settling, refined, shots,
                   clientSide, misses, casts>>

Spends == casts < MaxCasts /\ casts' = casts + 1

\* startCast() of the tab that is streamed.
Restart ==
    /\ Spends /\ session # 0 /\ Job("restart", session)
    /\ UNCHANGED <<chromeSide, session, castSession, castPaused, pending, writing, owed, settling, refined,
                   shots, clientSide, misses>>

\* Frames drain too slowly, or fast again: a step of the quality ladder.
StepRung == Control /\ Restart

\* A frame is larger than the clamp: an agent resized the page.
GrowClamp == Restart

\* applySize() of what the person's window asked for, and restore() when control goes back.
ApplySize == Control /\ Restart
RestoreSize == Control /\ Restart

\* setCastPaused: the client's tab is hidden, or shown again.
Hide ==
    /\ Spends /\ ~castPaused /\ castPaused' = TRUE /\ Job("stop", 0)
    /\ UNCHANGED <<chromeSide, session, castSession, pending, writing, owed, settling, refined, shots,
                   clientSide, misses>>

Show ==
    /\ castPaused /\ castPaused' = FALSE
    /\ IF session = 0 THEN UNCHANGED castQueue ELSE Job("resume", session)
    /\ UNCHANGED <<chromeSide, session, castSession, pending, writing, owed, settling, refined, shots,
                   clientSide, misses, casts>>

\* attach(): the session of the tab that is left goes, and with it its cast and its frames.
LeaveTab ==
    /\ Spends /\ session # 0 /\ session' = 0
    /\ CastStops(session) /\ castSession' = IF castSession = session THEN 0 ELSE castSession
    /\ frames' = <<>> /\ interrupted' = FALSE
    /\ UNCHANGED <<picture, castPaused, castQueue, pending, writing, owed, settling, refined, shots, clientSide, gap>>

EnterTab ==
    /\ session = 0 /\ session' = casts + 1 /\ Job("start", casts + 1)
    /\ UNCHANGED <<chromeSide, castSession, castPaused, pending, writing, owed, settling, refined, shots,
                   clientSide, misses, casts>>

---------------------------------------------------------------------------
StreamSteps == Emit \/ Receive \/ BeginStart \/ EndStart \/ CastStartFails \/ StopCast \/ EnterTab
StreamNext ==
    \/ Paint \/ StreamSteps \/ Flush \/ Drained \/ Settle
    \/ StepRung \/ GrowClamp \/ ApplySize \/ RestoreSize \/ Hide \/ Show \/ LeaveTab
    \/ \E shot \in shots : ShotAnswered(shot) \/ ShotFails(shot)

StreamSpec == StreamInit /\ [][StreamNext]_streamVars

---------------------------------------------------------------------------
(* Properties *)

(* Whatever the page shows, it or something newer is sent, unless the viewer is hidden, or it was
   painted while no cast ran, between the stop and the start of a restart or after a start that failed,
   or the shot of it that was to prime the cast failed: then the next paint is what is sent. *)
NewestIsSent ==
    \A p \in Pictures : (picture = p /\ ~castPaused) ~> (newest >= p \/ gap >= p \/ castPaused)

\* Frames of a cast that wait for their ack have something left that will send it: one on its
\* way, held back or being written.  Or the cast would stop when its window is full, without a
\* paint or a frame ever to start it again.
NeverStalls == casting # 0 /\ unacked > 0 => frames # <<>> \/ pending # None \/ writing # None

Queued(K) == \E i \in DOMAIN castQueue : castQueue[i].k \in K /\ castQueue[i].s = session
OnItsWay ==
    \/ \E i \in DOMAIN frames : frames[i].pic = picture
    \/ pending.s = session /\ pending.pic = picture
    \/ \E shot \in shots : shot.kind = "prime" /\ shot.s = session /\ shot.pic = picture

\* What NewestIsSent rests on.  While a viewer in sight looks at a tab, its cast runs, or a start that
\* primes it is queued, or a restart or a failure keeps it from running; and what the page shows was
\* sent, or missed for that, is on its way, or is still to be caught by the cast or by such a start.
NothingIsLost ==
    session # 0 /\ ~castPaused =>
        /\ casting # 0 \/ interrupted \/ Queued(Priming)
        /\ newest >= picture \/ gap >= picture \/ OnItsWay \/ painted \/ Queued(Priming)
=============================================================================

---------------------------- MODULE DashboardData ----------------------------
(***************************************************************************)
(* How the dashboard's lists keep up with the server (src/dashboard/app.js *)
(* and the event stream of src/src/api.ts): a page, an action or an event  *)
(* refreshes them, a refresh under way is shared, and a burst of events is *)
(* held down to a refresh every 1.5 seconds.                               *)
(*                                                                         *)
(* One list stands for the seven: what the server would answer now is a    *)
(* number that only grows.                                                 *)
(***************************************************************************)
EXTENDS Naturals, FiniteSets

CONSTANTS
    ListReads,        \* names for requests of the list in flight
    MaxWorld,     \* bound: changes
    MaxAsking,    \* bound: refreshes that await who is signed in
    MaxHeard,     \* bound: events in the stream
    MaxFailed     \* bound: requests that fail

ASSUME DataAssumption == {MaxWorld, MaxAsking, MaxHeard, MaxFailed} \subseteq Nat

VARIABLES
    world,        \* the list at the server
    listed,       \* state[name]: the list as it was last read
    reads,        \* per request: its stage, and what was answered
    asking,       \* refreshes awaiting /me
    stream,       \* the EventSource: "open", "retrying" by itself, or "closed" until listen() runs again
    events,       \* events in the stream
    dirty,        \* something has happened since the last repaint
    timer,        \* repaint's: 0 none, 1 due, 2 later
    rested,       \* 1.5 seconds have passed since lastRepaint
    hidden,       \* document.hidden
    menu,         \* a menu is open
    failed,       \* requests that failed, for the bound
    due           \* history: the list as of the last event heard, unless its refresh failed or missed it

dataVars == <<world, listed, reads, asking, stream, events, dirty, timer, rested, hidden, menu, failed, due>>

NoRead == [stage |-> "none", of |-> 0]

DataInit ==
    /\ world = 0 /\ listed = 0 /\ reads = [q \in ListReads |-> NoRead] /\ asking = 0
    /\ stream = "open" /\ events = 0 /\ dirty = FALSE /\ timer = 0 /\ rested = TRUE
    /\ hidden = FALSE /\ menu = FALSE /\ failed = 0 /\ due = 0

DataTypeOK ==
    /\ world \in 0..MaxWorld /\ listed \in 0..MaxWorld /\ due \in 0..MaxWorld /\ asking \in 0..MaxAsking /\ events \in 0..MaxHeard
    /\ failed \in 0..MaxFailed
    /\ reads \in [ListReads -> [stage: {"none", "asked", "answered"}, of: 0..MaxWorld]]
    /\ stream \in {"open", "retrying", "closed"} /\ timer \in 0..2
    /\ {dirty, rested, hidden, menu} \subseteq BOOLEAN

---------------------------------------------------------------------------
\* emitEvent: told to whoever listens at that moment, and to nobody later.
Emits == events' = IF stream = "open" /\ events < MaxHeard THEN events + 1 ELSE events

WorldChanges ==
    /\ world < MaxWorld /\ world' = world + 1 /\ Emits
    /\ UNCHANGED <<listed, reads, asking, stream, dirty, timer, rested, hidden, menu, failed, due>>
\* An event about something else: it refreshes all the same.
SomethingElse ==
    /\ events = 0 /\ stream = "open" /\ Emits
    /\ UNCHANGED <<world, listed, reads, asking, stream, dirty, timer, rested, hidden, menu, failed, due>>

QueueRepaint ==
    /\ dirty' = TRUE
    /\ timer' = IF timer # 0 \/ hidden THEN timer ELSE IF rested THEN 1 ELSE 2

HearsEvent ==
    /\ events > 0 /\ stream = "open" /\ events' = events - 1
    /\ QueueRepaint /\ due' = world
    /\ UNCHANGED <<world, listed, reads, asking, stream, rested, hidden, menu, failed>>

TimePasses ==
    /\ timer = 2 /\ timer' = 1
    /\ UNCHANGED <<world, listed, reads, asking, stream, events, dirty, rested, hidden, menu, failed, due>>
Rests ==
    /\ ~rested /\ rested' = TRUE
    /\ UNCHANGED <<world, listed, reads, asking, stream, events, dirty, timer, hidden, menu, failed, due>>

\* repaint: not while hidden, and not under an open menu.
Repaint ==
    /\ timer = 1
    /\ CASE hidden -> timer' = 0 /\ UNCHANGED <<dirty, rested, asking>>
         [] ~hidden /\ menu -> timer' = 2 /\ UNCHANGED <<dirty, rested, asking>>
         [] OTHER -> /\ timer' = 0 /\ dirty' = FALSE /\ rested' = FALSE
                     /\ asking' = IF asking < MaxAsking THEN asking + 1 ELSE asking   \* two as one, at the bound
    /\ UNCHANGED <<world, listed, reads, stream, events, hidden, menu, failed, due>>

\* render(): a route is shown, or an action ended.
Refreshes ==
    /\ asking < MaxAsking /\ asking' = asking + 1
    /\ UNCHANGED <<world, listed, reads, stream, events, dirty, timer, rested, hidden, menu, failed, due>>

\* As if every refresh read the list for itself.
LoadsForItself ==
    IF \E q \in ListReads : reads[q].stage = "none"
    THEN LET q == CHOOSE q \in ListReads : reads[q].stage = "none" IN reads' = [reads EXCEPT ![q].stage = "asked"]
    ELSE UNCHANGED reads

\* loadDataset: who comes while a read is under way waits for that one.
Loads ==
    IF \A q \in ListReads : reads[q].stage = "none"
    THEN LET q == CHOOSE q \in ListReads : TRUE IN reads' = [reads EXCEPT ![q].stage = "asked"]
    ELSE UNCHANGED reads

\* What an event told of is still to come: another refresh is, or a read under way will bring it.
ToCome ==
    \/ dirty \/ asking' > 0
    \/ \E q \in ListReads : \/ reads'[q].stage = "asked"
                            \/ reads'[q].stage = "answered" /\ reads'[q].of >= due
GivesUp == due' = IF ToCome THEN due ELSE 0

MeAnswered ==
    /\ asking > 0 /\ asking' = asking - 1 /\ Loads /\ GivesUp
    /\ UNCHANGED <<world, listed, stream, events, dirty, timer, rested, hidden, menu, failed>>
MeRefused ==
    /\ failed < MaxFailed /\ failed' = failed + 1
    /\ asking > 0 /\ asking' = asking - 1 /\ UNCHANGED reads /\ GivesUp
    /\ UNCHANGED <<world, listed, stream, events, dirty, timer, rested, hidden, menu>>

\* The server reads the list; the answer arrives, or in ten seconds it did not, and what was known stays.
ServerAnswers(q) ==
    /\ reads[q].stage = "asked" /\ reads' = [reads EXCEPT ![q] = [stage |-> "answered", of |-> world]]
    /\ UNCHANGED <<world, listed, asking, stream, events, dirty, timer, rested, hidden, menu, failed, due>>
Lists(q) ==
    /\ reads[q].stage = "answered" /\ listed' = reads[q].of
    /\ reads' = [reads EXCEPT ![q] = NoRead]
    /\ UNCHANGED <<world, asking, stream, events, dirty, timer, rested, hidden, menu, failed, due>>
ReadTimesOut(q) ==
    /\ failed < MaxFailed /\ failed' = failed + 1
    /\ reads[q].stage # "none" /\ reads' = [reads EXCEPT ![q] = NoRead]
    /\ UNCHANGED asking /\ GivesUp
    /\ UNCHANGED <<world, listed, stream, events, dirty, timer, rested, hidden, menu>>

\* The stream drops: what was in it is lost.  A dropped one retries by itself, a refused one when listen() runs again.
StreamDrops ==
    /\ stream = "open" /\ stream' \in {"retrying", "closed"} /\ events' = 0
    /\ UNCHANGED <<world, listed, reads, asking, dirty, timer, rested, hidden, menu, failed, due>>
StreamOpens ==
    /\ stream # "open" /\ stream' = "open"
    /\ UNCHANGED <<world, listed, reads, asking, events, dirty, timer, rested, hidden, menu, failed, due>>

\* Looked away from and back: on the way back what was put off is queued.
Hides ==
    /\ ~hidden /\ hidden' = TRUE
    /\ UNCHANGED <<world, listed, reads, asking, stream, events, dirty, timer, rested, menu, failed, due>>
Shows ==
    /\ hidden /\ hidden' = FALSE
    /\ IF dirty THEN dirty' = TRUE /\ timer' = IF timer # 0 THEN timer ELSE IF rested THEN 1 ELSE 2
       ELSE UNCHANGED <<dirty, timer>>
    /\ UNCHANGED <<world, listed, reads, asking, stream, events, rested, menu, failed, due>>
TurnsMenu ==
    /\ menu' = ~menu
    /\ UNCHANGED <<world, listed, reads, asking, stream, events, dirty, timer, rested, hidden, failed, due>>

DataNext ==
    \/ WorldChanges \/ SomethingElse \/ HearsEvent \/ TimePasses \/ Rests \/ Repaint \/ Refreshes
    \/ MeAnswered \/ MeRefused \/ StreamDrops \/ StreamOpens \/ Hides \/ Shows \/ TurnsMenu
    \/ \E q \in ListReads : ServerAnswers(q) \/ Lists(q) \/ ReadTimesOut(q)

\* Timers fire, and a request is answered or fails: api() gives it ten seconds.
DataFairness ==
    /\ WF_dataVars(TimePasses) /\ WF_dataVars(Rests) /\ WF_dataVars(Repaint)
    /\ WF_dataVars(MeAnswered \/ MeRefused)
    /\ \A q \in ListReads : WF_dataVars(ServerAnswers(q) \/ Lists(q) \/ ReadTimesOut(q))

-----------------------------------------------------------------------------
(***************************************************************************)
(* The lists never go back to what they were: reads of one list are never  *)
(* under way together, so an older answer cannot come after a newer one,   *)
(* whoever asked and however long either took.                             *)
(***************************************************************************)
ListsOnlyAdvance == [][listed' >= listed]_dataVars

(***************************************************************************)
(* Nor do events that keep coming hold them still: on a page that is       *)
(* looked at, with no menu open, the list comes to hold what an event told *)
(* of.  Excepted is what the code gives up with nothing more to come: a    *)
(* refresh whose /me was refused, a read that failed or timed out, and a   *)
(* refresh that joined a read the server had already answered (app.js      *)
(* 4898).  An event lost with the stream told of nothing.                  *)
(***************************************************************************)
ListsKeepUp == ListsOnlyAdvance /\ (due > listed ~> due <= listed \/ hidden \/ menu)
=============================================================================

---------------------------- MODULE McpSessions ----------------------------
(***************************************************************************)
(* Agents' connections (src/src/mcp.ts): a session holds at most one       *)
(* binding per browser, a binding one bridge process, and a tool call goes *)
(* through its session's binding.  Starting a binding awaits the browser,  *)
(* the bridge and the choice of a page; in between the browser may stop,   *)
(* the session close, a grant be changed and a person take control.        *)
(*                                                                         *)
(* Outside are the level bindLevel and guardGrant find for an agent (its   *)
(* ownership, scopes or grant), whether Chrome runs and who controls it.   *)
(***************************************************************************)
EXTENDS Naturals, FiniteSets

CONSTANTS McpBrowsers, Callers,   \* browser ids; agents
          Sessions, Who,          \* connections, and the agent of each
          Calls,                  \* tool calls in progress
          MaxBindings,            \* bound: bindings ever made
          Nobody

ASSUME McpWho == Who \in [Sessions -> Callers]
ASSUME McpBounds == MaxBindings \in Nat /\ Nobody \notin Callers \cup McpBrowsers

VARIABLES level,        \* what each agent may do with each browser now
          up, person,   \* Chrome runs; a person controls it
          lease,        \* the agent holding the control lease
          attached,     \* mcpAttached: sessions bound to each browser
          session,      \* [open, browser]: its default browser
          lastBound,    \* the one browser each agent used, or "many"
          binding,      \* [session, browser, access, stage, attached, closed, child]
          bindings,     \* session.bindings
          call          \* [state, tool, session, browser, binding]

mcpVars == <<level, up, person, lease, attached, session, lastBound, binding, bindings, call>>

BindingIds == 1..MaxBindings
Access == {"none", "read", "control"}
Tools == {"read", "write", "use"}
NoBinding == [session |-> Nobody, browser |-> Nobody, access |-> "none", stage |-> "unused",
              attached |-> FALSE, closed |-> FALSE, child |-> FALSE]
BindingRows == [session: Sessions \cup {Nobody}, browser: McpBrowsers \cup {Nobody}, access: Access,
                stage: {"unused", "starting", "connecting", "choosing", "ready", "failed"},
                attached: BOOLEAN, closed: BOOLEAN, child: BOOLEAN]
NoCall == [state |-> "idle", tool |-> "read", session |-> Nobody, browser |-> Nobody, binding |-> 0, restore |-> FALSE]
CallRows == [state: {"idle", "waiting", "prepared", "sent"}, tool: Tools, session: Sessions \cup {Nobody},
             browser: McpBrowsers \cup {Nobody}, binding: 0..MaxBindings, restore: BOOLEAN]

McpInit ==
    /\ level \in [McpBrowsers -> [Callers -> Access]]
    /\ up = [b \in McpBrowsers |-> FALSE]
    /\ person = [b \in McpBrowsers |-> FALSE]
    /\ lease = [b \in McpBrowsers |-> Nobody]
    /\ attached = [b \in McpBrowsers |-> 0]
    /\ session = [s \in Sessions |-> [open |-> TRUE, browser |-> Nobody]]
    /\ lastBound = [a \in Callers |-> Nobody]
    /\ binding = [i \in BindingIds |-> NoBinding]
    /\ bindings = [s \in Sessions |-> [b \in McpBrowsers |-> 0]]
    /\ call = [c \in Calls |-> NoCall]

May(s, b) == level[b][Who[s]]
(* guardGrant and the look at the lease, for a tool.                       *)
Allowed(s, b, tool) == May(s, b) # "none" /\ (tool = "write" => May(s, b) = "control" /\ ~person[b])

(* disposeBinding, of the bindings in I at once.  Of one whose startup has *)
(* ended nothing is read again, so nothing more of it is kept.             *)
Detached(b, I) == Cardinality({i \in I : binding[i].browser = b /\ binding[i].attached})
Dispose(I) ==
    /\ bindings' = [s \in Sessions |-> [b \in McpBrowsers |-> IF bindings[s][b] \in I THEN 0 ELSE bindings[s][b]]]
    /\ attached' = [b \in McpBrowsers |-> IF attached[b] > Detached(b, I) THEN attached[b] - Detached(b, I) ELSE 0]
Over == [NoBinding EXCEPT !.stage = "failed", !.closed = TRUE]
Disposed(row) == IF row.stage = "ready" THEN Over ELSE [row EXCEPT !.closed = TRUE, !.attached = FALSE, !.child = FALSE]
DisposeRows(I) == binding' = [i \in BindingIds |-> IF i \in I THEN Disposed(binding[i]) ELSE binding[i]]

\* As if a startup that fails only left the map, and nobody who waits for it were told.
StartupFailsSilently(i) ==
    /\ Dispose({i})
    /\ binding' = [binding EXCEPT ![i] = [NoBinding EXCEPT !.closed = TRUE]]

(* startBinding fails: its catch disposes the binding, and whoever waits   *)
(* for it is told.                                                         *)
StartupFails(i) ==
    /\ Dispose({i})
    /\ binding' = [binding EXCEPT ![i] = Over]

(* acquireControl, for an agent: not under a person.                       *)
Takes(s, b, access) == IF access = "control" /\ ~person[b] THEN [lease EXCEPT ![b] = Who[s]] ELSE lease

(* callTool up to its first await.  The target is resolved once: the named *)
(* browser, or the session's default; with neither it is the one browser   *)
(* the agent last used, which is bound first (restoreBinding).  A binding  *)
(* of the session's is waited for, or a new one is started.                *)
Call(c, s, b, tool, restore) ==
    /\ call[c].state = "idle"
    /\ session[s].open
    /\ restore => session[s].browser = Nobody /\ lastBound[Who[s]] = b
    /\ IF restore THEN May(s, b) # "none" ELSE Allowed(s, b, tool)
    /\ LET Waiting(i) == [state |-> "waiting", tool |-> tool, session |-> s, browser |-> b, binding |-> i, restore |-> restore]
       IN  IF bindings[s][b] # 0
           THEN /\ call' = [call EXCEPT ![c] = Waiting(bindings[s][b])]
                /\ UNCHANGED <<binding, bindings>>
           ELSE \E i \in BindingIds :
                /\ binding[i].stage = "unused" /\ \A j \in 1..(i-1) : binding[j].stage # "unused"
                /\ binding' = [binding EXCEPT ![i] = [session |-> s, browser |-> b, access |-> May(s, b), stage |-> "starting",
                                                      attached |-> FALSE, closed |-> FALSE, child |-> FALSE]]
                /\ bindings' = [bindings EXCEPT ![s][b] = i]
                /\ call' = [call EXCEPT ![c] = Waiting(i)]
    /\ UNCHANGED <<level, up, person, lease, attached, session, lastBound>>

(* startBinding, after ensureRunning: the level is read again.             *)
BrowserRuns(i) ==
    LET s == binding[i].session
        b == binding[i].browser
    IN  /\ binding[i].stage = "starting"
        /\ up' = [up EXCEPT ![b] = TRUE]
        /\ IF binding[i].closed \/ ~session[s].open \/ May(s, b) = "none"
           THEN StartupFails(i) /\ UNCHANGED lease
           ELSE /\ attached' = [attached EXCEPT ![b] = @ + 1]
                /\ lease' = Takes(s, b, May(s, b))
                /\ binding' = [binding EXCEPT ![i].access = May(s, b), ![i].attached = TRUE, ![i].stage = "connecting"]
                /\ UNCHANGED bindings
        /\ UNCHANGED <<level, person, session, lastBound, call>>

(* The browser could not be started, or the bridge could not connect.      *)
BindingFails(i) ==
    /\ binding[i].stage \in {"starting", "connecting"}
    /\ StartupFails(i)
    /\ UNCHANGED <<level, up, person, lease, session, lastBound, call>>

\* As if a bridge that connects were kept without a look at what happened meanwhile.
BridgeConnectsAnyway(i) ==
    /\ binding[i].stage = "connecting"
    /\ binding' = [binding EXCEPT ![i].child = TRUE, ![i].stage = "choosing"]
    /\ UNCHANGED <<level, up, person, lease, attached, session, lastBound, bindings, call>>

(* The bridge is connected, here or on a worker: it is closed again if the *)
(* binding was meanwhile, its Chrome is gone, or the level is another.     *)
BridgeConnects(i) ==
    LET s == binding[i].session
        b == binding[i].browser
    IN  /\ binding[i].stage = "connecting"
        /\ IF binding[i].closed \/ ~session[s].open \/ ~up[b] \/ May(s, b) # binding[i].access
           THEN StartupFails(i)
           ELSE /\ binding' = [binding EXCEPT ![i].child = TRUE, ![i].stage = "choosing"]
                /\ UNCHANGED <<bindings, attached>>
        /\ UNCHANGED <<level, up, person, lease, session, lastBound, call>>

(* selectWorkingPage ends, well or not.                                    *)
PageChosen(i) ==
    /\ binding[i].stage = "choosing"
    /\ IF binding[i].closed \/ ~session[binding[i].session].open THEN StartupFails(i)
       ELSE binding' = [binding EXCEPT ![i].stage = "ready"] /\ UNCHANGED <<bindings, attached>>
    /\ UNCHANGED <<level, up, person, lease, session, lastBound, call>>

(* The bridge's onclose.                                                   *)
BridgeCloses(i) ==
    /\ binding[i].child
    /\ Dispose({i}) /\ DisposeRows({i})
    /\ UNCHANGED <<level, up, person, lease, session, lastBound, call>>

Ends(c) == call' = [call EXCEPT ![c] = NoCall]
Remember(a, b) == lastBound' = [lastBound EXCEPT ![a] = IF @ \in {Nobody, b} THEN b ELSE "many"]

(* getBinding after its await, then the checks callTool repeats.  A restore*)
(* that failed forgets the browser, unless it was only busy for a moment.  *)
BindingAnswers(c) ==
    LET i == call[c].binding
        s == call[c].session
        b == call[c].browser
    IN  /\ call[c].state = "waiting"
        /\ binding[i].stage \in {"ready", "failed"}
        /\ IF binding[i].stage = "failed" \/ binding[i].closed \/ ~session[s].open \/ May(s, b) = "none"
           THEN /\ Ends(c)
                /\ \/ UNCHANGED lastBound
                   \/ call[c].restore /\ lastBound[Who[s]] = b /\ lastBound' = [lastBound EXCEPT ![Who[s]] = Nobody]
                /\ UNCHANGED <<lease, session, binding>>
           ELSE /\ lease' = IF binding[i].access = "control" THEN lease ELSE Takes(s, b, May(s, b))
                /\ binding' = [binding EXCEPT ![i].access = May(s, b)]
                /\ Remember(Who[s], b)
                /\ session' = IF call[c].restore \/ call[c].tool = "use" THEN [session EXCEPT ![s].browser = b] ELSE session
                /\ IF call[c].tool = "use" \/ ~Allowed(s, b, call[c].tool) THEN Ends(c)
                   ELSE call' = [call EXCEPT ![c].state = "prepared"]
        /\ UNCHANGED <<level, up, person, attached, bindings>>

\* As if what was allowed before the files were staged still were.
MayDispatchAsPrepared(c) == ~binding[call[c].binding].closed

(* callTool: after files were staged, and for a bridge on a worker once    *)
(* more after they were sent there, everything is looked at again before   *)
(* the call goes to the bridge.                                            *)
MayDispatch(c) ==
    LET i == call[c].binding
    IN  /\ Allowed(call[c].session, call[c].browser, call[c].tool)
        /\ session[call[c].session].open
        /\ ~binding[i].closed
Dispatch(c) ==
    /\ call[c].state = "prepared"
    /\ IF MayDispatch(c) THEN call' = [call EXCEPT ![c].state = "sent"] ELSE Ends(c)
    /\ UNCHANGED <<level, up, person, lease, attached, session, lastBound, binding, bindings>>

(* The bridge answers, or closed and the call failed: none is replayed.    *)
CallReturns(c) ==
    /\ call[c].state = "sent"
    /\ Ends(c)
    /\ UNCHANGED <<level, up, person, lease, attached, session, lastBound, binding, bindings>>

(* close, by DELETE, the idle reaper or the process's end: the bindings it *)
(* finds are disposed one after the other, each bridge's end awaited.      *)
CloseSession(s) ==
    /\ session[s].open
    /\ session' = [session EXCEPT ![s].open = FALSE]
    /\ UNCHANGED <<level, up, person, lease, attached, lastBound, binding, bindings, call>>
CloseOne(i) ==
    /\ binding[i].session # Nobody
    /\ ~session[binding[i].session].open
    /\ bindings[binding[i].session][binding[i].browser] = i
    /\ Dispose({i}) /\ DisposeRows({i})
    /\ UNCHANGED <<level, up, person, lease, session, lastBound, call>>

(* releaseBrowser: a browser is stopped, moved or deleted by anyone.       *)
BrowserGone(b) ==
    LET I == {bindings[s][b] : s \in Sessions} \ {0}
    IN  /\ up[b]
        /\ up' = [up EXCEPT ![b] = FALSE]
        /\ Dispose(I) /\ DisposeRows(I)
        /\ UNCHANGED <<level, person, lease, session, lastBound, call>>

(* Outside: Chrome dies, an answer changes, a person takes control or not. *)
ChromeDies(b) == up[b] /\ up' = [up EXCEPT ![b] = FALSE]
                 /\ UNCHANGED <<level, person, lease, attached, session, lastBound, binding, bindings, call>>
LevelChanges(b, a, l) == level' = [level EXCEPT ![b][a] = l]
                 /\ UNCHANGED <<up, person, lease, attached, session, lastBound, binding, bindings, call>>
PersonTakes(b) == person' = [person EXCEPT ![b] = TRUE] /\ lease' = [lease EXCEPT ![b] = Nobody]
                 /\ UNCHANGED <<level, up, attached, session, lastBound, binding, bindings, call>>
PersonLeaves(b) == person' = [person EXCEPT ![b] = FALSE]
                 /\ UNCHANGED <<level, up, lease, attached, session, lastBound, binding, bindings, call>>

McpNext ==
    \/ \E c \in Calls :
         \/ \E s \in Sessions, b \in McpBrowsers, tool \in Tools, restore \in BOOLEAN : Call(c, s, b, tool, restore)
         \/ BindingAnswers(c) \/ Dispatch(c) \/ CallReturns(c)
    \/ \E i \in BindingIds : BrowserRuns(i) \/ BindingFails(i) \/ BridgeConnects(i) \/ PageChosen(i)
                             \/ BridgeCloses(i) \/ CloseOne(i)
    \/ \E s \in Sessions : CloseSession(s)
    \/ \E b \in McpBrowsers : \/ BrowserGone(b) \/ ChromeDies(b) \/ PersonTakes(b) \/ PersonLeaves(b)
                              \/ \E a \in Callers, l \in Access : LevelChanges(b, a, l)

(***************************************************************************)
(* Each await of a startup ends, one way or the other; a bridge answers or *)
(* closes; and a call that may go on does.                                 *)
(***************************************************************************)
McpFairness ==
    /\ \A i \in BindingIds : /\ WF_mcpVars(BrowserRuns(i) \/ BindingFails(i) \/ BridgeConnects(i) \/ PageChosen(i))
                             /\ WF_mcpVars(CloseOne(i))
    /\ \A c \in Calls : WF_mcpVars(BindingAnswers(c) \/ Dispatch(c) \/ CallReturns(c))

McpSpec == McpInit /\ [][McpNext]_mcpVars

-----------------------------------------------------------------------------

McpTypeOK ==
    /\ level \in [McpBrowsers -> [Callers -> Access]]
    /\ up \in [McpBrowsers -> BOOLEAN] /\ person \in [McpBrowsers -> BOOLEAN]
    /\ lease \in [McpBrowsers -> Callers \cup {Nobody}]
    /\ attached \in [McpBrowsers -> Nat]
    /\ session \in [Sessions -> [open: BOOLEAN, browser: McpBrowsers \cup {Nobody}]]
    /\ lastBound \in [Callers -> McpBrowsers \cup {Nobody, "many"}]
    /\ binding \in [BindingIds -> BindingRows]
    /\ bindings \in [Sessions -> [McpBrowsers -> 0..MaxBindings]]
    /\ call \in [Calls -> CallRows]

(***************************************************************************)
(* No bridge process, and no count that keeps a browser from being idle,   *)
(* outlives its use: whatever has a bridge or is counted is the binding    *)
(* its session holds for that browser, and a browser is counted once for   *)
(* each.  Startup, a stop, a closing session and a bridge that dies all    *)
(* dispose the same binding, in any order and more than once.              *)
(***************************************************************************)
NoOrphanBridge ==
    /\ \A b \in McpBrowsers : attached[b] = Cardinality({i \in BindingIds : binding[i].browser = b /\ binding[i].attached})
    /\ \A i \in BindingIds : binding[i].attached \/ binding[i].child =>
           /\ ~binding[i].closed
           /\ bindings[binding[i].session][binding[i].browser] = i

(***************************************************************************)
(* What reaches the browser is allowed when it does, however long the call *)
(* waited: a tool goes to the bridge only for an agent that may use it at  *)
(* that moment, over an open session, and never one that changes the page  *)
(* under a person; and no agent comes to hold the lease with less than     *)
(* control, or over a person.                                              *)
(***************************************************************************)
ActsWithinLevel ==
    [][/\ \A c \in Calls : call[c].state # "sent" /\ call'[c].state = "sent" =>
            LET b == call[c].browser
                l == level[b][Who[call[c].session]]
            IN  /\ session[call[c].session].open
                /\ l = "control" \/ (l = "read" /\ call[c].tool = "read")
                /\ call[c].tool = "write" => ~person[b]
       /\ \A b \in McpBrowsers : lease'[b] # lease[b] /\ lease'[b] # Nobody =>
            level[b][lease'[b]] = "control" /\ ~person[b]]_mcpVars

(***************************************************************************)
(* Every call is answered, also one that waits for a binding somebody else *)
(* disposes, and a closed session gives back everything it held.           *)
(***************************************************************************)
CallsAnswered ==
    /\ \A c \in Calls : call[c].state # "idle" ~> call[c].state = "idle"
    /\ \A s \in Sessions : ~session[s].open ~> \A b \in McpBrowsers : bindings[s][b] = 0
=============================================================================

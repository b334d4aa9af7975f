------------------------------ MODULE Lending ------------------------------
(***************************************************************************)
(* How one agent comes to use another's browser, or the operator's         *)
(* (src/src/lending.ts): requests, their answers, the idle rule that       *)
(* answers for an owner that cannot, and the grants that come of it, with  *)
(* the tunnels a control grant excludes (module Tunnels).                  *)
(*                                                                         *)
(* A grant is kept per browser and grantee, as the row is, by its level: a *)
(* grant that was revoked or has run out is "none", and any grant may run  *)
(* out at any time, so the term an answer gives is not kept.  Every        *)
(* handler here is synchronous in the code, so each is one step.           *)
(***************************************************************************)
EXTENDS Tunnels

CONSTANTS Agents, Admin,
          Borrowers,    \* agents with the scope browser:borrow
          Lenders,      \* agents with the scope browser:lend
          MaxRequests,  \* bound: request ids, in the order they were created
          MaxPending,   \* config.lendMaxPendingPerAgent
          NoAgent

ASSUME LendingLimits == MaxRequests \in Nat /\ MaxPending \in Nat
ASSUME AdminIsNoAgent == Admin \notin Agents /\ NoAgent \notin Agents /\ NoAgent # Admin

VARIABLES owner,        \* owner_id of each browser: an agent, or the operator
          present,      \* the browser's row exists
          lendable,     \* its owner opted in to lending
          quiet,        \* stopped, or idle for lendAutoGrantIdleMs
          human,        \* a person is controlling it
          request,      \* browser_requests
          grant         \* browser_grants

lendingVars == <<owner, present, lendable, quiet, human, request, grant>>
vars == <<tunnelVars, lendingVars>>

RequestIds == 1..MaxRequests
Principals == Agents \cup {Admin}
Levels == {"read", "control"}

NoRequest == [state |-> "none", browser |-> NoBrowser, by |-> NoAgent, want |-> "read",
              given |-> "none", decided |-> "none", late |-> FALSE]
RequestRows ==
    [state: {"none", "pending", "granted", "denied", "expired", "withdrawn"},
     browser: Browsers \cup {NoBrowser}, by: Agents \cup {NoAgent}, want: Levels,
     given: Levels \cup {"none"}, decided: Principals \cup {"none", "idle"}, late: BOOLEAN]

Init ==
    /\ TunnelsInit
    /\ owner \in [Browsers -> Principals]
    /\ present = [b \in Browsers |-> TRUE]
    /\ lendable \in [Browsers -> BOOLEAN]
    /\ quiet = [b \in Browsers |-> FALSE]
    /\ human = [b \in Browsers |-> FALSE]
    /\ request = [r \in RequestIds |-> NoRequest]
    /\ grant = [b \in Browsers |-> [a \in Agents |-> "none"]]

Allows(held, needed) == held = "control" \/ (held = "read" /\ needed = "read")
AnsweredByAdmin(b) == owner[b] = Admin
Lent(b) == \E a \in Agents : grant[b][a] # "none"

(* lendingBlocker, for a browser this server runs: linked ones are never   *)
(* lent (module Linked).                                                   *)
Blocked(b, a) == owner[b] = a \/ human[b]

\* As if the idle rule answered for the operator too.
IdleGrantsForAnybody(b, a) == lendable[b] /\ ~Blocked(b, a) /\ quiet[b]

(* tryAutoGrant: the idle rule, which never answers for a person.          *)
IdleGrants(b, a) == ~AnsweredByAdmin(b) /\ lendable[b] /\ ~Blocked(b, a) /\ quiet[b]

(* A control grant drops the browser's tunnels; B are the browsers of one. *)
DropFor(B) ==
    IF B = {} THEN UNCHANGED tunnelVars
    ELSE /\ Shut(SocketsOf(B))
         /\ tunnel' = [t \in Tunnels |-> IF tunnel[t].state = "held" /\ tunnel[t].browser \in B
                                         THEN [tunnel[t] EXCEPT !.state = "revoked"] ELSE tunnel[t]]

(* issueGrant: the row of this grantee is replaced, whatever it held.      *)
Issue(b, a, level) ==
    /\ grant' = [grant EXCEPT ![b][a] = level]
    /\ DropFor(IF level = "control" THEN {b} ELSE {})

(* A request is granted by a principal, or by the idle rule.  Of one that  *)
(* ended otherwise only its state is kept: nothing reads the rest of it.   *)
Decide(r, row) == request' = [request EXCEPT ![r] = row]
Granted(row, level, who) == [row EXCEPT !.state = "granted", !.given = level, !.decided = who, !.late = FALSE]
Closed(state) == [NoRequest EXCEPT !.state = state]

Waiting(a) == {r \in RequestIds : request[r].by = a /\ request[r].state = "pending" /\ ~request[r].late}
Mine(a, b, want) == {r \in Waiting(a) : request[r].browser = b /\ request[r].want = want}
Fresh(r) == request[r].state = "none" /\ \A q \in 1..(r-1) : request[q].state # "none"

(* requestBrowser: r is the pending request this asks again, or a new one. *)
Ask(a, b, want, r) ==
    /\ present[b]
    /\ AnsweredByAdmin(b) \/ a \in Borrowers
    /\ ~Allows(grant[b][a], want)
    /\ ~Blocked(b, a)
    /\ \/ r \in Mine(a, b, want)
       \/ Mine(a, b, want) = {} /\ Fresh(r) /\ Cardinality(Waiting(a)) < MaxPending
    /\ LET row == [NoRequest EXCEPT !.state = "pending", !.browser = b, !.by = a, !.want = want]
       IN  IF IdleGrants(b, a)
           THEN Decide(r, Granted(row, want, "idle")) /\ Issue(b, a, want)
           ELSE Decide(r, row) /\ UNCHANGED <<grant, tunnelVars>>
    /\ UNCHANGED <<owner, present, lendable, quiet, human>>

MayAnswer(who, b) == who = Admin \/ (who = owner[b] /\ who \in Lenders)

(* answerRequest: the level is lowered to what was asked for, the blocker  *)
(* is looked at again, and the request's own expiry is not.                *)
Grant(who, r, level) ==
    LET req == request[r]
        given == IF Allows(req.want, level) THEN level ELSE req.want
    IN  /\ req.state = "pending"
        /\ present[req.browser]
        /\ MayAnswer(who, req.browser)
        /\ ~Blocked(req.browser, req.by)
        /\ Issue(req.browser, req.by, given)
        /\ Decide(r, Granted(req, given, who))
        /\ UNCHANGED <<owner, present, lendable, quiet, human>>

Deny(who, r) ==
    /\ request[r].state = "pending"
    /\ present[request[r].browser]
    /\ MayAnswer(who, request[r].browser)
    /\ Decide(r, Closed("denied"))
    /\ UNCHANGED <<tunnelVars, owner, present, lendable, quiet, human, grant>>

Withdraw(who, r) ==
    /\ request[r].state = "pending"
    /\ who \in {Admin, request[r].by}
    /\ Decide(r, Closed("withdrawn"))
    /\ UNCHANGED <<tunnelVars, owner, present, lendable, quiet, human, grant>>

Revoke(who, b, a) ==
    /\ present[b]
    /\ who \in {Admin, owner[b]}
    /\ grant[b][a] # "none"
    /\ grant' = [grant EXCEPT ![b][a] = "none"]
    /\ UNCHANGED <<tunnelVars, owner, present, lendable, quiet, human, request>>

(* sweepLending: what is overdue expires, what waits for a deleted browser *)
(* too; the rest are tried in the order they were asked, so of two granted *)
(* to one agent the row keeps the later.                                   *)
Sweep ==
    LET pending == {r \in RequestIds : request[r].state = "pending"}
        gone == {r \in pending : request[r].late \/ ~present[request[r].browser]}
        auto == {r \in pending \ gone : IdleGrants(request[r].browser, request[r].by)}
        For(b, a) == {r \in auto : request[r].browser = b /\ request[r].by = a}
    IN  /\ gone \cup auto # {}
        /\ request' = [r \in RequestIds |->
                         IF r \in gone THEN Closed("expired")
                         ELSE IF r \in auto THEN Granted(request[r], request[r].want, "idle")
                         ELSE request[r]]
        /\ grant' = [b \in Browsers |-> [a \in Agents |->
                         IF For(b, a) = {} THEN grant[b][a]
                         ELSE LET last == CHOOSE r \in For(b, a) : \A q \in For(b, a) : q <= r
                              IN  request[last].want]]
        /\ DropFor({b \in Browsers : \E r \in auto : request[r].browser = b /\ request[r].want = "control"})
        /\ UNCHANGED <<owner, present, lendable, quiet, human>>

(* Time: a request or a grant passes its expiry.                           *)
RequestLapses(r) ==
    /\ request[r].state = "pending" /\ ~request[r].late
    /\ request' = [request EXCEPT ![r].late = TRUE]
    /\ UNCHANGED <<tunnelVars, owner, present, lendable, quiet, human, grant>>

GrantLapses(b, a) ==
    /\ grant[b][a] # "none"
    /\ grant' = [grant EXCEPT ![b][a] = "none"]
    /\ UNCHANGED <<tunnelVars, owner, present, lendable, quiet, human, request>>

\* As if a lent browser were not looked at.
CreateTunnelWhileLent(t, b, at) ==
    /\ present[b]
    /\ OpenTunnel(t, b, at)
    /\ UNCHANGED lendingVars

(* createTunnel: by the owner or the administrator, and not while lent.    *)
CreateTunnel(t, b, at) ==
    /\ present[b]
    /\ ~Lent(b)
    /\ OpenTunnel(t, b, at)
    /\ UNCHANGED lendingVars

(* Deleting a browser drops its tunnels; its requests wait for the sweep.  *)
DeleteBrowser(b) ==
    /\ present[b]
    /\ present' = [present EXCEPT ![b] = FALSE]
    /\ Shut(SocketsOf({b}))
    /\ tunnel' = [t \in Tunnels |-> IF tunnel[t].browser = b THEN [tunnel[t] EXCEPT !.state = "revoked"] ELSE tunnel[t]]
    /\ UNCHANGED <<owner, lendable, quiet, human, request, grant>>

(* What the browser and its people do meanwhile.                           *)
Settles(b) == quiet' = [quiet EXCEPT ![b] = ~quiet[b]] /\ UNCHANGED <<tunnelVars, owner, present, lendable, human, request, grant>>
PersonTakesOrLeaves(b) == human' = [human EXCEPT ![b] = ~human[b]] /\ UNCHANGED <<tunnelVars, owner, present, lendable, quiet, request, grant>>
SetLendable(b) == lendable' = [lendable EXCEPT ![b] = ~lendable[b]] /\ UNCHANGED <<tunnelVars, owner, present, quiet, human, request, grant>>

Next ==
    \/ \E a \in Agents, b \in Browsers, want \in Levels, r \in RequestIds : Ask(a, b, want, r)
    \/ \E who \in Principals, r \in RequestIds :
         \/ \E level \in Levels : Grant(who, r, level)
         \/ Deny(who, r)
         \/ Withdraw(who, r)
    \/ \E who \in Principals, b \in Browsers, a \in Agents : Revoke(who, b, a)
    \/ Sweep
    \/ \E r \in RequestIds : RequestLapses(r)
    \/ \E b \in Browsers, a \in Agents : GrantLapses(b, a)
    \/ \E t \in Tunnels, b \in Browsers, at \in Addresses : CreateTunnel(t, b, at)
    \/ \E b \in Browsers : DeleteBrowser(b) \/ Settles(b) \/ PersonTakesOrLeaves(b) \/ SetLendable(b)
    \/ TunnelsNext /\ UNCHANGED lendingVars

Spec == Init /\ [][Next]_vars

-----------------------------------------------------------------------------

TypeOK ==
    /\ TunnelsTypeOK
    /\ owner \in [Browsers -> Principals]
    /\ present \in [Browsers -> BOOLEAN]
    /\ lendable \in [Browsers -> BOOLEAN]
    /\ quiet \in [Browsers -> BOOLEAN]
    /\ human \in [Browsers -> BOOLEAN]
    /\ request \in [RequestIds -> RequestRows]
    /\ grant \in [Browsers -> [Agents -> Levels \cup {"none"}]]

(***************************************************************************)
(* A borrower does not inherit the owner's network.  While an agent holds  *)
(* a control grant on a browser it has no unrevoked tunnel, nothing is     *)
(* connected for it and no stream runs: whichever of the tunnel and the    *)
(* grant came first, and whether the grant came by an answer, the idle     *)
(* rule or the sweep.                                                      *)
(***************************************************************************)
LentWithoutTunnel ==
    \A b \in Browsers : (\E a \in Agents : grant[b][a] = "control") =>
        /\ HeldOn(b) = {}
        /\ \A t \in Tunnels : tunnel[t].browser = b => conn[t] = NoSocket
        /\ \A d \in Dials : dial[d].state = "bound" => tunnel[socket[dial[d].socket].of].browser # b

(***************************************************************************)
(* A grant is the answer to something its holder asked for, at no higher   *)
(* a level, by somebody who may give it; for the operator's own browser    *)
(* that is the operator, never another agent or the idle rule.             *)
(***************************************************************************)
GrantsAreAnswers ==
    \A b \in Browsers, a \in Agents : grant[b][a] # "none" =>
        \E r \in RequestIds :
            /\ request[r].state = "granted"
            /\ request[r].browser = b /\ request[r].by = a
            /\ request[r].given = grant[b][a]
            /\ Allows(request[r].want, request[r].given)
            /\ AnsweredByAdmin(b) => request[r].decided = Admin
=============================================================================

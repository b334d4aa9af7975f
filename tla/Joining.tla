------------------------------- MODULE Joining -------------------------------
(***************************************************************************)
(* How something outside this instance comes to hold a credential of it:   *)
(* a person's extension by pairing (src/src/linked.ts,                     *)
(* src/extension/background.js), a worker by joining (src/src/workers.ts,  *)
(* src/src/worker.ts).  Either credential is handed over once, in the      *)
(* answer to a call that may be lost, asked twice or answered late; the    *)
(* server keeps only a hash of it.                                         *)
(***************************************************************************)
EXTENDS Naturals

CONSTANTS
    Pairings,     \* names for pairings, each used once
    JoinTokens,   \* names for join tokens
    Processes,       \* the worker processes
    NoName,
    MaxLosses,    \* bound: calls and answers lost, sleeps and restarts
    MaxPolls      \* bound: polls answered, per extension

ASSUME JoiningAssumption ==
    /\ NoName \notin Pairings \cup JoinTokens \cup Processes
    /\ MaxLosses \in Nat /\ MaxPolls \in Nat \ {0}

VARIABLES
    pairing,      \* per pairing: its row and the token of its link, 0 when none was minted
    ext,          \* the extension: what it is pairing, what it holds, what its storage holds of each
    timer,        \* its poll timer is set
    polls,        \* its polls under way, two at most: a timer that fires while a slow one is out
    minted,       \* tokens minted
    joinToken,    \* per join token: its state
    member,       \* per join token: the process whose row it made
    removed,      \* join tokens whose worker was removed
    host,         \* per process: what it was told, what it saved, what it is doing
    losses

joiningVars == <<pairing, ext, timer, polls, minted, joinToken, member, removed, host, losses>>
pairingVars == <<pairing, ext, timer, polls, minted>>
enrolVars == <<joinToken, member, removed, host>>

NoConn == [of |-> NoName, token |-> 0]
NoPoll == [of |-> NoName, stage |-> "none", says |-> "none", token |-> 0]
PollSlots == {1, 2}

JoiningInit ==
    /\ pairing = [p \in Pairings |-> [state |-> "none", live |-> FALSE, revoked |-> FALSE, token |-> 0]]
    /\ ext = [pairing |-> NoName, conn |-> NoConn, keptPairing |-> NoName, keptConn |-> NoConn]
    /\ timer = FALSE /\ polls = [i \in PollSlots |-> NoPoll] /\ minted = 0
    /\ joinToken = [j \in JoinTokens |-> "none"] /\ member = [j \in JoinTokens |-> NoName] /\ removed = {}
    /\ host = [h \in Processes |-> [told |-> NoName, saved |-> NoName, at |-> "down", tries |-> 0, says |-> "none"]]
    /\ losses = 0

JoiningTypeOK ==
    /\ \A p \in Pairings : pairing[p].state \in {"none", "pending", "approved", "denied", "claimed"} /\ pairing[p].token \in 0..MaxPolls
    /\ ext.pairing \in Pairings \cup {NoName} /\ ext.conn.of \in Pairings \cup {NoName} /\ timer \in BOOLEAN
    /\ joinToken \in [JoinTokens -> {"none", "fresh", "used", "expired"}] /\ removed \subseteq JoinTokens
    /\ \A h \in Processes : host[h].at \in {"down", "hello", "join", "up", "fatal"} /\ host[h].saved \in JoinTokens \cup {NoName}

---------------------------------------------------------------------------
\* The extension asks for a pairing: startPairing on both sides.
StartPairing(p) ==
    /\ pairing[p].state = "none" /\ ext.pairing = NoName /\ ext.conn = NoConn
    /\ pairing' = [pairing EXCEPT ![p].state = "pending", ![p].live = TRUE]
    /\ ext' = [ext EXCEPT !.pairing = p, !.keptPairing = p] /\ timer' = TRUE
    /\ UNCHANGED <<polls, minted, losses, enrolVars>>

Lapses(p) ==
    /\ pairing[p].live /\ pairing' = [pairing EXCEPT ![p].live = FALSE]
    /\ UNCHANGED <<ext, timer, polls, minted, losses, enrolVars>>

\* The administrator answers the code: approvePairing makes the browser and its link, still without a token.
Decides(p) ==
    /\ pairing[p].live /\ pairing[p].state = "pending"
    /\ \E verdict \in {"approved", "denied"} : pairing' = [pairing EXCEPT ![p].state = verdict]
    /\ UNCHANGED <<ext, timer, polls, minted, losses, enrolVars>>

\* dropLinksFor: its browser is deleted.
RevokesLink(p) ==
    /\ pairing[p].state \in {"approved", "claimed"} /\ pairing' = [pairing EXCEPT ![p].revoked = TRUE]
    /\ UNCHANGED <<ext, timer, polls, minted, losses, enrolVars>>

\* The timer fires, or finds the code expired by the extension's own clock and stops.
PollFires(i) ==
    /\ timer /\ ext.pairing # NoName /\ polls[i] = NoPoll
    /\ timer' = FALSE
    /\ polls' = [polls EXCEPT ![i] = [NoPoll EXCEPT !.of = ext.pairing, !.stage = "asked"]]
    /\ UNCHANGED <<pairing, ext, minted, losses, enrolVars>>

PairingOver == ext' = [ext EXCEPT !.pairing = NoName, !.keptPairing = NoName] /\ timer' = FALSE
CodeExpires ==
    /\ timer /\ ext.pairing # NoName /\ ~pairing[ext.pairing].live
    /\ PairingOver
    /\ UNCHANGED <<pairing, polls, minted, losses, enrolVars>>

\* The keepalive alarm sets the timer again, whatever poll is still out.
Alarm ==
    /\ ext.pairing # NoName /\ ~timer /\ timer' = TRUE
    /\ UNCHANGED <<pairing, ext, polls, minted, losses, enrolVars>>

Mints(p) == pairing[p].live /\ pairing[p].state = "approved" /\ ~pairing[p].revoked
Verdict(p) ==
    IF ~pairing[p].live \/ pairing[p].state = "claimed" \/ (pairing[p].state = "approved" /\ pairing[p].revoked) THEN "expired"
    ELSE pairing[p].state

\* A plausible mistake: the pairing stays open to another poll.
AnswersPollAgain(i) ==
    /\ polls[i].stage = "asked" /\ minted < MaxPolls
    /\ LET p == polls[i].of
           t == minted + 1 IN
        IF Mints(p)
        THEN /\ minted' = t /\ pairing' = [pairing EXCEPT ![p].token = t]
             /\ polls' = [polls EXCEPT ![i].stage = "answered", ![i].says = "approved", ![i].token = t]
        ELSE /\ polls' = [polls EXCEPT ![i].stage = "answered", ![i].says = Verdict(p)]
             /\ UNCHANGED <<minted, pairing>>
    /\ UNCHANGED <<ext, timer, losses, enrolVars>>

\* pollPairing: the token is minted as it is collected, its hash kept, and the pairing is claimed.
AnswersPoll(i) ==
    /\ polls[i].stage = "asked" /\ minted < MaxPolls
    /\ LET p == polls[i].of
           t == minted + 1 IN
        IF Mints(p)
        THEN /\ minted' = t /\ pairing' = [pairing EXCEPT ![p].state = "claimed", ![p].token = t]
             /\ polls' = [polls EXCEPT ![i].stage = "answered", ![i].says = "approved", ![i].token = t]
        ELSE /\ polls' = [polls EXCEPT ![i].stage = "answered", ![i].says = Verdict(p)]
             /\ UNCHANGED <<minted, pairing>>
    /\ UNCHANGED <<ext, timer, losses, enrolVars>>

\* "A dropped request is not a verdict": the fetch throws, and the timer is set again.
PollLost(i) ==
    /\ polls[i].stage # "none" /\ losses < MaxLosses
    /\ polls' = [polls EXCEPT ![i] = NoPoll] /\ losses' = losses + 1
    /\ timer' = (timer \/ ext.pairing # NoName)
    /\ UNCHANGED <<pairing, ext, minted, enrolVars>>

(* The answer is read.  An approval with nothing being paired any more (the other poll's verdict, or
   the person, ended it) throws on the pairing it reads the server from, and its token is lost. *)
HearsPoll(i) ==
    /\ polls[i].stage = "answered" /\ polls' = [polls EXCEPT ![i] = NoPoll]
    /\ CASE polls[i].says = "approved" /\ ext.pairing # NoName ->
                /\ ext' = [ext EXCEPT !.conn = [of |-> polls[i].of, token |-> polls[i].token], !.pairing = NoName]
                /\ UNCHANGED timer
         [] polls[i].says = "approved" /\ ext.pairing = NoName -> UNCHANGED <<ext, timer>>
         [] polls[i].says \in {"denied", "expired"} -> PairingOver
         [] polls[i].says = "pending" -> timer' = (ext.pairing # NoName) /\ UNCHANGED ext
    /\ UNCHANGED <<pairing, minted, losses, enrolVars>>

\* What was collected reaches the extension's storage, and only then the pairing leaves it.
Stores ==
    /\ ext.conn # ext.keptConn
    /\ ext' = [ext EXCEPT !.keptConn = ext.conn]
    /\ UNCHANGED <<pairing, timer, polls, minted, losses, enrolVars>>
DropsPairing ==
    /\ ext.conn # NoConn /\ ext.keptConn = ext.conn /\ ext.keptPairing # NoName /\ ext.pairing = NoName
    /\ ext' = [ext EXCEPT !.keptPairing = NoName]
    /\ UNCHANGED <<pairing, timer, polls, minted, losses, enrolVars>>

CancelPairing ==
    /\ ext.pairing # NoName /\ PairingOver
    /\ UNCHANGED <<pairing, polls, minted, losses, enrolVars>>

\* Chrome puts the extension to sleep and wakes it: boot reads back what was stored.
Wakes ==
    /\ losses < MaxLosses /\ losses' = losses + 1
    /\ ext' = [ext EXCEPT !.pairing = ext.keptPairing, !.conn = ext.keptConn]
    /\ timer' = (ext.keptPairing # NoName) /\ polls' = [i \in PollSlots |-> NoPoll]
    /\ UNCHANGED <<pairing, minted, enrolVars>>

\* The person disconnects, or the server refused the token (Linked).
Unpairs ==
    /\ ext.conn # NoConn
    /\ ext' = [ext EXCEPT !.conn = NoConn, !.keptConn = NoConn]
    /\ UNCHANGED <<pairing, timer, polls, minted, losses, enrolVars>>

---------------------------------------------------------------------------
CreateJoinToken(j) ==
    /\ joinToken[j] = "none" /\ joinToken' = [joinToken EXCEPT ![j] = "fresh"]
    /\ UNCHANGED <<member, removed, host, losses, pairingVars>>
TokenExpires(j) ==
    /\ joinToken[j] = "fresh" /\ joinToken' = [joinToken EXCEPT ![j] = "expired"]
    /\ UNCHANGED <<member, removed, host, losses, pairingVars>>
\* Workers.remove, of a worker on which no browser lives.
RemoveWorker(j) ==
    /\ member[j] # NoName /\ j \notin removed /\ removed' = removed \cup {j}
    /\ UNCHANGED <<joinToken, member, host, losses, pairingVars>>

\* enrol: the token it joined with means hello, another one means join.
Boots(h, j) ==
    /\ host[h].at \in {"down", "fatal"} /\ joinToken[j] # "none"
    /\ host' = [host EXCEPT ![h] = [told |-> j, saved |-> host[h].saved, says |-> "none",
           at |-> IF host[h].saved = j THEN "hello" ELSE "join", tries |-> IF host[h].saved = j THEN 3 ELSE 5]]
    /\ UNCHANGED <<joinToken, member, removed, losses, pairingVars>>

\* join, on this instance: one worker per token, and none of another release.
JoinAnswered(h) ==
    /\ host[h].at = "join" /\ host[h].says = "none"
    /\ LET j == host[h].told IN
        \/ /\ joinToken[j] = "fresh"
           /\ joinToken' = [joinToken EXCEPT ![j] = "used"] /\ member' = [member EXCEPT ![j] = h]
           /\ host' = [host EXCEPT ![h].says = "joined"]
        \/ /\ host' = [host EXCEPT ![h].says = "refused"]       \* used, expired, or of another release
           /\ UNCHANGED <<joinToken, member>>
    /\ UNCHANGED <<removed, losses, pairingVars>>
HelloAnswered(h) ==
    /\ host[h].at = "hello" /\ host[h].says = "none"
    /\ host' = [host EXCEPT ![h].says = IF host[h].saved \in removed THEN "refused" ELSE "ok"]
    /\ UNCHANGED <<joinToken, member, removed, losses, pairingVars>>

\* withRetry: the call or its answer is lost; after the last, a join is fatal and a hello is not.
CallLost(h) ==
    /\ host[h].at \in {"join", "hello"} /\ losses < MaxLosses /\ losses' = losses + 1
    /\ host' = [host EXCEPT ![h].says = "none", ![h].tries = @ - 1,
           ![h].at = IF host[h].tries > 1 THEN @ ELSE IF @ = "hello" THEN "up" ELSE "fatal"]
    /\ UNCHANGED <<joinToken, member, removed, pairingVars>>

\* The answer is read: what joined writes its identity to a file of its own name before it is up.
Enrols(h) ==
    /\ host[h].says # "none"
    /\ host' = [host EXCEPT ![h].says = "none",
           ![h].at = IF host[h].says = "refused" THEN "fatal" ELSE "up",
           ![h].saved = IF host[h].says = "joined" THEN host[h].told ELSE @]
    /\ UNCHANGED <<joinToken, member, removed, losses, pairingVars>>
HostDies(h) ==
    /\ host[h].at \in {"join", "hello", "up"} /\ losses < MaxLosses /\ losses' = losses + 1
    /\ host' = [host EXCEPT ![h].at = "down", ![h].says = "none"]
    /\ UNCHANGED <<joinToken, member, removed, pairingVars>>

PairingNext ==
    \/ \E p \in Pairings : StartPairing(p) \/ Lapses(p) \/ Decides(p) \/ RevokesLink(p)
    \/ \E i \in PollSlots : PollFires(i) \/ AnswersPoll(i) \/ PollLost(i) \/ HearsPoll(i)
    \/ CodeExpires \/ Alarm \/ Stores \/ DropsPairing \/ CancelPairing \/ Wakes \/ Unpairs
EnrolNext ==
    \/ \E j \in JoinTokens : CreateJoinToken(j) \/ TokenExpires(j) \/ RemoveWorker(j) \/ \E h \in Processes : Boots(h, j)
    \/ \E h \in Processes : JoinAnswered(h) \/ HelloAnswered(h) \/ CallLost(h) \/ Enrols(h) \/ HostDies(h)

JoiningSpec == JoiningInit /\ [][PairingNext \/ EnrolNext]_joiningVars

---------------------------------------------------------------------------
(* Whoever holds a credential holds the one the server knows: polls that cross and answers that are
   lost or late never leave the extension with a token that a later one replaced, and no two worker
   processes ever act as one worker. *)
KeptCredentialWorks ==
    /\ \A conn \in {ext.conn, ext.keptConn} : conn # NoConn => pairing[conn.of].token = conn.token
    /\ \A h \in Processes : host[h].saved # NoName => member[host[h].saved] = h

=============================================================================

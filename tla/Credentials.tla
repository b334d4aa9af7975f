---------------------------- MODULE Credentials ----------------------------
(***************************************************************************)
(* What lets an agent in (src/src/oauth.ts, src/src/auth.ts): the tokens   *)
(* the operator hands to an agent, and those an OAuth connector gets from  *)
(* an approval: a code, exchanged once for an access and a refresh token,  *)
(* and the chain of refresh tokens each refresh lengthens.                 *)
(*                                                                         *)
(* A refresh token's successor is derived from it, so a chain is kept by   *)
(* number: of grant g, token n+1 is what rotating token n issues.  A       *)
(* holder is a process of the connector that has one token in memory; an   *)
(* answer may be lost on its way to it.  Access tokens are kept per grant: *)
(* at every point they live or die together, or one by one by their term.  *)
(* The handlers are synchronous, so each is one step, but the consent page *)
(* and its form await the client's metadata document.                      *)
(***************************************************************************)
EXTENDS Naturals, FiniteSets

CONSTANTS Grants,       \* approvals of one connector; each has one code
          Holders,      \* processes of the connector
          MaxChain,     \* bound: rotations of one grant
          MaxIssued,    \* bound: tokens issued to the agent that is no connector
          MaxBoots,     \* bound: restarts with another ADMIN_SECRET
          Keyed         \* an ADMIN_SECRET is set, and keys the successors

ASSUME CredentialBounds == MaxChain \in Nat /\ MaxIssued \in Nat \ {0} /\ MaxBoots \in Nat /\ Keyed \in BOOLEAN

VARIABLES signedIn,     \* the operator's dashboard session
          form,         \* the consent form of a grant was made for this very session
          client,       \* the connector's agent: [agent, registered]
          code,         \* oauth_codes, by the grant each belongs to
          chain,        \* refresh tokens: [Grants -> [number -> state]]
          lapsed,       \* how many of a chain are past their expiry: they expire in order
          access,       \* a live access token of the grant exists
          held,         \* the token each holder has: [grant, n]
          agent,        \* an agent the operator made: "enabled" or not
          issued, live, \* its tokens: how many were issued, which are not revoked
          boots

credVars == <<signedIn, form, client, code, chain, lapsed, access, held, agent, issued, live, boots>>

Chain == 0..MaxChain
Nothing == [grant |-> "none", n |-> 0]

CredInit ==
    /\ signedIn \in BOOLEAN
    /\ form = [g \in Grants |-> FALSE]
    /\ client = "new"
    /\ code = [g \in Grants |-> "none"]
    /\ chain = [g \in Grants |-> [n \in Chain |-> "none"]]
    /\ lapsed = [g \in Grants |-> 0]
    /\ access = [g \in Grants |-> FALSE]
    /\ held = [h \in Holders |-> Nothing]
    /\ agent = TRUE
    /\ issued = 1 /\ live = {1}
    /\ boots = 0

Enabled == client = "enabled"
Expired(g, n) == n < lapsed[g]

(* revokeGrant: every credential of one approval that is not revoked yet.  *)
RevokedChain(g) == [n \in Chain |-> IF chain[g][n] = "live" THEN "revoked" ELSE chain[g][n]]
RevokeGrant(G) ==
    /\ chain' = [g \in Grants |-> IF g \in G THEN RevokedChain(g) ELSE chain[g]]
    /\ access' = [g \in Grants |-> g \notin G /\ access[g]]

(* Sign-in, sign-out and the session's expiry: a form made for another     *)
(* session is stale.                                                       *)
SignsInOrOut ==
    /\ signedIn' = ~signedIn
    /\ form' = [g \in Grants |-> FALSE]
    /\ UNCHANGED <<client, code, chain, lapsed, access, held, agent, issued, live, boots>>

(* The consent page is asked for.  Only a session has the client's         *)
(* document fetched, and the form is bound to it.                          *)
AskConsent(g) ==
    /\ code[g] = "none"
    /\ signedIn
    /\ code' = [code EXCEPT ![g] = "asked"]
    /\ form' = [form EXCEPT ![g] = TRUE]
    /\ UNCHANGED <<signedIn, client, chain, lapsed, access, held, agent, issued, live, boots>>

(* The registration or the client's document was found, cached or fetched, *)
(* and lists the address asked for: the form is shown.  Or it was not.     *)
Resolved(g) ==
    /\ code[g] = "asked"
    /\ \E answer \in {"shown", "none"} : code' = [code EXCEPT ![g] = answer]
    /\ UNCHANGED <<signedIn, form, client, chain, lapsed, access, held, agent, issued, live, boots>>

(* The form is posted: the session is looked at before the client is       *)
(* resolved once more, and the form has to be that session's.              *)
PostConsent(g) ==
    /\ code[g] = "shown"
    /\ signedIn
    /\ code' = [code EXCEPT ![g] = IF form[g] THEN "posted" ELSE "refused"]
    /\ UNCHANGED <<signedIn, form, client, chain, lapsed, access, held, agent, issued, live, boots>>

(* The client was resolved, or not; the operator approved with something   *)
(* ticked, or not.  The first approval makes the agent, a later one        *)
(* rewrites it, and neither revives one the operator revoked.              *)
Approve(g) ==
    /\ code[g] = "posted"
    /\ \/ /\ client # "disabled"
          /\ client' = "enabled"
          /\ code' = [code EXCEPT ![g] = "issued"]
       \/ /\ code' = [code EXCEPT ![g] = "refused"]
          /\ UNCHANGED client
    /\ form' = [form EXCEPT ![g] = FALSE]
    /\ UNCHANGED <<signedIn, chain, lapsed, access, held, agent, issued, live, boots>>

CodeExpires(g) ==
    /\ code[g] = "issued"
    /\ code' = [code EXCEPT ![g] = "expired"]
    /\ UNCHANGED <<signedIn, form, client, chain, lapsed, access, held, agent, issued, live, boots>>

(* The answer reaches the holder, or not.                                  *)
Receives(h, g, n) == held' = [held EXCEPT ![h] = [grant |-> g, n |-> n]] \/ UNCHANGED held

(* exchangeCode: a code presented again revokes what it produced; a code   *)
(* is spent before its agent is looked at.                                 *)
ExchangeCode(h, g) ==
    /\ \/ /\ code[g] = "used"
          /\ RevokeGrant({g})
          /\ UNCHANGED <<code, held>>
       \/ /\ code[g] = "issued"
          /\ code' = [code EXCEPT ![g] = "used"]
          /\ IF Enabled
             THEN /\ chain' = [chain EXCEPT ![g][0] = "live"]
                  /\ access' = [access EXCEPT ![g] = TRUE]
                  /\ Receives(h, g, 0)
             ELSE UNCHANGED <<chain, access, held>>
    /\ UNCHANGED <<signedIn, form, client, lapsed, agent, issued, live, boots>>

\* As if every rotated token were a replay.
CatchesUpNever(g, n) == FALSE

\* As if the successor only had to have been issued.
CatchesUpIfIssued(g, n) ==
    /\ Keyed
    /\ n + 1 \in Chain /\ chain[g][n + 1] # "none"
    /\ ~Expired(g, n) /\ ~Expired(g, n + 1)
    /\ Enabled

(* catchUp: the token presented was rotated, and what it was rotated into  *)
(* is the live one.                                                        *)
CatchesUp(g, n) ==
    /\ Keyed
    /\ n + 1 \in Chain /\ chain[g][n + 1] = "live"
    /\ ~Expired(g, n) /\ ~Expired(g, n + 1)
    /\ Enabled

Refresh(h) ==
    LET g == held[h].grant
        n == held[h].n
    IN  /\ g \in Grants
        /\ \/ /\ chain[g][n] = "revoked" /\ CatchesUp(g, n)
              /\ access' = [access EXCEPT ![g] = TRUE]
              /\ Receives(h, g, n + 1)
              /\ UNCHANGED chain
           \/ /\ chain[g][n] = "revoked" /\ ~CatchesUp(g, n)
              /\ RevokeGrant({g})
              /\ UNCHANGED held
           \/ /\ chain[g][n] = "live" /\ ~Expired(g, n) /\ Enabled
              /\ n + 1 \in Chain
              /\ chain' = [chain EXCEPT ![g][n] = "revoked", ![g][n + 1] = "live"]
              /\ access' = [access EXCEPT ![g] = TRUE]
              /\ Receives(h, g, n + 1)
        /\ UNCHANGED <<signedIn, form, client, code, lapsed, agent, issued, live, boots>>

(* /oauth/revoke, by whoever holds a token that is still known.            *)
Revoke(h) ==
    LET g == held[h].grant IN
    /\ g \in Grants
    /\ chain[g][held[h].n] # "none"
    /\ RevokeGrant({g})
    /\ UNCHANGED <<signedIn, form, client, code, lapsed, held, agent, issued, live, boots>>

(* One process of the connector starts from what another stored.           *)
Shares(h, k) ==
    /\ held[h] # held[k]
    /\ held' = [held EXCEPT ![k] = held[h]]
    /\ UNCHANGED <<signedIn, form, client, code, chain, lapsed, access, agent, issued, live, boots>>

(* updateAgent from the dashboard: disabling revokes, enabling restores    *)
(* nothing.                                                                *)
DisableConnector ==
    /\ client \in {"enabled", "disabled"}
    /\ client' = "disabled"
    /\ RevokeGrant(Grants)
    /\ UNCHANGED <<signedIn, form, code, lapsed, held, agent, issued, live, boots>>
EnableConnector ==
    /\ client = "disabled"
    /\ client' = "enabled"
    /\ UNCHANGED <<signedIn, form, code, chain, lapsed, access, held, agent, issued, live, boots>>

SetAgent(enabled) ==
    /\ agent' = enabled
    /\ live' = IF enabled THEN live ELSE {}
    /\ UNCHANGED <<signedIn, form, client, code, chain, lapsed, access, held, issued, boots>>

(* rotateAgentCredential, which does not ask whether the agent is enabled. *)
RotateAgentCredential ==
    /\ issued < MaxIssued
    /\ issued' = issued + 1
    /\ live' = {issued + 1}
    /\ UNCHANGED <<signedIn, form, client, code, chain, lapsed, access, held, agent, boots>>

(* Time: an access token's term, then a refresh token's; pruning deletes   *)
(* what is past it, so that it is not known any more.                      *)
AccessLapses(g) ==
    /\ access[g]
    /\ access' = [access EXCEPT ![g] = FALSE]
    /\ UNCHANGED <<signedIn, form, client, code, chain, lapsed, held, agent, issued, live, boots>>
RefreshLapses(g) ==
    /\ lapsed[g] \in Chain /\ chain[g][lapsed[g]] # "none"
    /\ lapsed' = [lapsed EXCEPT ![g] = @ + 1]
    /\ UNCHANGED <<signedIn, form, client, code, chain, access, held, agent, issued, live, boots>>
PruneExpiredCredentials ==
    /\ chain' = [g \in Grants |-> [n \in Chain |-> IF Expired(g, n) THEN "none" ELSE chain[g][n]]]
    /\ UNCHANGED <<signedIn, form, client, code, lapsed, access, held, agent, issued, live, boots>>

(* A restart with another ADMIN_SECRET: what the old one approved, and the *)
(* sessions signed in with it, end.                                        *)
BootWithNewSecret ==
    /\ boots < MaxBoots
    /\ boots' = boots + 1
    /\ signedIn' = FALSE
    /\ RevokeGrant(Grants)
    /\ form' = [g \in Grants |-> FALSE]
    /\ code' = [g \in Grants |-> CASE code[g] = "asked" -> "none" [] code[g] = "posted" -> "refused" [] OTHER -> code[g]]
    /\ UNCHANGED <<client, lapsed, held, agent, issued, live>>

CredNext ==
    \/ SignsInOrOut \/ DisableConnector \/ EnableConnector
    \/ (\E e \in BOOLEAN : SetAgent(e)) \/ RotateAgentCredential
    \/ PruneExpiredCredentials \/ BootWithNewSecret
    \/ \E g \in Grants : AskConsent(g) \/ Resolved(g) \/ PostConsent(g) \/ Approve(g)
                          \/ CodeExpires(g) \/ AccessLapses(g) \/ RefreshLapses(g)
    \/ \E h \in Holders : \/ Refresh(h) \/ Revoke(h)
                          \/ \E g \in Grants : ExchangeCode(h, g)
                          \/ \E k \in Holders : Shares(h, k)

CredSpec == CredInit /\ [][CredNext]_credVars

-----------------------------------------------------------------------------

CredTypeOK ==
    /\ signedIn \in BOOLEAN /\ form \in [Grants -> BOOLEAN]
    /\ client \in {"new", "enabled", "disabled"}
    /\ code \in [Grants -> {"none", "asked", "shown", "posted", "refused", "issued", "used", "expired"}]
    /\ chain \in [Grants -> [Chain -> {"none", "live", "revoked"}]]
    /\ lapsed \in [Grants -> 0..(MaxChain + 1)]
    /\ access \in [Grants -> BOOLEAN]
    /\ held \in [Holders -> [grant: Grants \cup {"none"}, n: Chain]]
    /\ agent \in BOOLEAN
    /\ issued \in 1..MaxIssued /\ live \subseteq 1..MaxIssued
    /\ boots \in 0..MaxBoots

Spent(g) == code[g] = "used" /\ ~access[g] /\ \A n \in Chain : chain[g][n] = "live" => Expired(g, n)

(***************************************************************************)
(* What was taken back stays taken back.  Once nothing of a grant is live  *)
(* no refresh, replay, re-approval or re-enabling brings any of it back:   *)
(* the operator has to approve again.                                      *)
(***************************************************************************)
RevokedForGood == [][\A g \in Grants : Spent(g) => Spent(g)']_credVars

(***************************************************************************)
(* A connector that lost an answer is not taken for a thief.  Presenting   *)
(* the live token of a chain, or the one before it, never ends the chain,  *)
(* so a process whose answers get lost renews for as long as it tries, and *)
(* two that share a store stay on one chain.                               *)
(***************************************************************************)
LostAnswerForgiven ==
    [][\A h \in Holders :
         LET g == held[h].grant
             n == held[h].n
         IN  (/\ Refresh(h)
              /\ Keyed /\ Enabled
              /\ ~Expired(g, n)
              /\ \E m \in {n, n + 1} \cap Chain : chain[g][m] = "live")
             => \E m \in Chain : chain'[g][m] = "live"]_credVars
=============================================================================

---------------------------- MODULE Agents_proofs ----------------------------
(***************************************************************************)
(* Proofs about agents: their credentials (Credentials), for any grants,   *)
(* holders and lengths of a chain, and their connections (McpSessions),    *)
(* for any sessions, browsers, calls and number of bindings.               *)
(*                                                                         *)
(* What is said of credentials is about single steps: all it needs of the  *)
(* states before is the types, that a chain is a function on numbers, of   *)
(* which those below `lapsed` have expired.  What is said of connections   *)
(* needs to know of every binding under way whose it is and where.         *)
(***************************************************************************)
EXTENDS Credentials, McpSessions, FiniteSetTheorems, TLAPS

States == {"none", "live", "revoked"}
Chains == [Grants -> [Chain -> States]]

LEMMA ChainNumbers == Chain \subseteq Nat /\ 0 \in Chain
  BY CredentialBounds DEF Chain

LEMMA RevokingKeeps ==
    ASSUME chain \in Chains, access \in [Grants -> BOOLEAN], NEW G, RevokeGrant(G)
    PROVE  /\ chain' \in Chains /\ access' \in [Grants -> BOOLEAN]
           /\ \A g \in Grants : /\ access'[g] => access[g]
                                /\ \A n \in Chain : chain'[g][n] = "live" => chain[g][n] = "live"
<1>1. \A g \in Grants : RevokedChain(g) \in [Chain -> States] /\ \A n \in Chain : RevokedChain(g)[n] # "live"
  BY DEF RevokedChain, Chains, States
<1>2. chain' \in Chains
  BY <1>1 DEF RevokeGrant, Chains
<1>3. access' \in [Grants -> BOOLEAN] /\ \A g \in Grants : access'[g] => access[g]
  BY DEF RevokeGrant
<1>4. \A g \in Grants : chain'[g] = chain[g] \/ chain'[g] = RevokedChain(g)
  BY DEF RevokeGrant
<1>. QED BY <1>1, <1>2, <1>3, <1>4

---------------------------------------------------------------------------
(* Types. *)

Codes == {"none", "asked", "shown", "posted", "refused", "issued", "used", "expired"}
Tokens == [grant: Grants \cup {"none"}, n: Chain]

\* What the types are made of: the consent, the chains, and the rest.
ConsentOK == signedIn \in BOOLEAN /\ form \in [Grants -> BOOLEAN] /\ client \in {"new", "enabled", "disabled"} /\ code \in [Grants -> Codes]
ChainsOK == chain \in Chains /\ lapsed \in [Grants -> 0..(MaxChain + 1)] /\ access \in [Grants -> BOOLEAN] /\ held \in [Holders -> Tokens]
AgentOK == agent \in BOOLEAN /\ issued \in 1..MaxIssued /\ live \subseteq 1..MaxIssued /\ boots \in 0..MaxBoots

LEMMA TypesAre == CredTypeOK <=> ConsentOK /\ ChainsOK /\ AgentOK
  BY DEF CredTypeOK, ConsentOK, ChainsOK, AgentOK, Codes, Tokens, Chains, States

LEMMA CredInitially == CredInit => CredTypeOK
<1>. SUFFICES ASSUME CredInit PROVE CredTypeOK
  OBVIOUS
<1>1. ConsentOK
  BY DEF CredInit, ConsentOK, Codes
<1>2. ChainsOK
  BY ChainNumbers, CredentialBounds DEF CredInit, ChainsOK, Chains, States, Tokens, Nothing
<1>3. AgentOK
  BY CredentialBounds DEF CredInit, AgentOK
<1>. QED BY <1>1, <1>2, <1>3, TypesAre

LEMMA ReceivesKeeps ==
    ASSUME held \in [Holders -> Tokens], NEW h \in Holders, NEW g \in Grants, NEW n \in Chain, Receives(h, g, n)
    PROVE  held' \in [Holders -> Tokens]
  BY DEF Receives, Tokens

LEMMA RefreshTypes ==
    ASSUME ChainsOK, NEW h \in Holders, Refresh(h)
    PROVE  ChainsOK' /\ UNCHANGED <<signedIn, form, client, code, agent, issued, live, boots>>
<1>. DEFINE g == held[h].grant
            n == held[h].n
<1>1. g \in Grants /\ n \in Chain /\ UNCHANGED <<lapsed, signedIn, form, client, code, agent, issued, live, boots>>
  BY DEF Refresh, ChainsOK, Tokens
<1>2. CASE chain[g][n] = "revoked" /\ CatchesUp(g, n)
  <2>1. access' = [access EXCEPT ![g] = TRUE] /\ Receives(h, g, n + 1) /\ UNCHANGED chain /\ n + 1 \in Chain
    BY <1>2 DEF Refresh, CatchesUp
  <2>. QED BY <1>1, <2>1, ReceivesKeeps DEF ChainsOK
<1>3. CASE chain[g][n] = "revoked" /\ ~CatchesUp(g, n)
  <2>1. RevokeGrant({g}) /\ UNCHANGED held
    BY <1>3 DEF Refresh
  <2>. QED BY <1>1, <2>1, RevokingKeeps DEF ChainsOK
<1>4. CASE chain[g][n] = "live"
  <2>1. /\ chain' = [chain EXCEPT ![g][n] = "revoked", ![g][n + 1] = "live"] /\ n + 1 \in Chain
        /\ access' = [access EXCEPT ![g] = TRUE] /\ Receives(h, g, n + 1)
    BY <1>4 DEF Refresh
  <2>2. chain' \in Chains
    BY <1>1, <2>1 DEF ChainsOK, Chains, States
  <2>. QED BY <1>1, <2>1, <2>2, ReceivesKeeps DEF ChainsOK
<1>. QED BY <1>1, <1>2, <1>3, <1>4 DEF Refresh

LEMMA ExchangeTypes ==
    ASSUME ChainsOK, code \in [Grants -> Codes], NEW h \in Holders, NEW g \in Grants, ExchangeCode(h, g)
    PROVE  ChainsOK' /\ code' \in [Grants -> Codes] /\ UNCHANGED <<signedIn, form, client, agent, issued, live, boots>>
<1>1. UNCHANGED <<lapsed, signedIn, form, client, agent, issued, live, boots>>
  BY DEF ExchangeCode
<1>2. CASE RevokeGrant({g}) /\ UNCHANGED <<code, held>>
  BY <1>1, <1>2, RevokingKeeps DEF ChainsOK
<1>3. CASE /\ code' = [code EXCEPT ![g] = "used"]
           /\ \/ /\ chain' = [chain EXCEPT ![g][0] = "live"]
                 /\ access' = [access EXCEPT ![g] = TRUE]
                 /\ Receives(h, g, 0)
              \/ UNCHANGED <<chain, access, held>>
  <2>1. code' \in [Grants -> Codes]
    BY <1>3 DEF Codes
  <2>2. CASE UNCHANGED <<chain, access, held>>
    BY <1>1, <2>1, <2>2 DEF ChainsOK
  <2>3. CASE chain' = [chain EXCEPT ![g][0] = "live"] /\ access' = [access EXCEPT ![g] = TRUE] /\ Receives(h, g, 0)
    <3>1. chain' \in Chains
      BY <2>3, ChainNumbers DEF ChainsOK, Chains, States
    <3>. QED BY <1>1, <2>1, <2>3, <3>1, ChainNumbers, ReceivesKeeps DEF ChainsOK
  <2>. QED BY <1>3, <2>2, <2>3
<1>. QED BY <1>2, <1>3 DEF ExchangeCode

LEMMA CredStep == CredTypeOK /\ [CredNext]_credVars => CredTypeOK'
<1>. SUFFICES ASSUME ConsentOK, ChainsOK, AgentOK, [CredNext]_credVars
              PROVE  ConsentOK' /\ ChainsOK' /\ AgentOK'
  BY DEF CredTypeOK, ConsentOK, ChainsOK, AgentOK, Codes, Tokens, Chains, States
<1>. DEFINE Rest == UNCHANGED <<chain, lapsed, access, held, agent, issued, live, boots>>
<1>1. ASSUME NEW g \in Grants,
             SignsInOrOut \/ AskConsent(g) \/ Resolved(g) \/ PostConsent(g) \/ Approve(g) \/ CodeExpires(g) \/ EnableConnector
      PROVE  ConsentOK' /\ Rest
  BY <1>1 DEF SignsInOrOut, AskConsent, Resolved, PostConsent, Approve, CodeExpires, EnableConnector, ConsentOK, Codes
<1>2. ASSUME Rest PROVE ChainsOK' /\ AgentOK'
  BY <1>2 DEF ChainsOK, AgentOK
<1>3. ASSUME DisableConnector PROVE ConsentOK' /\ ChainsOK' /\ AgentOK'
  <2>1. RevokeGrant(Grants) /\ client' = "disabled" /\ UNCHANGED <<signedIn, form, code, lapsed, held, agent, issued, live, boots>>
    BY <1>3 DEF DisableConnector
  <2>. QED BY <2>1, RevokingKeeps DEF ConsentOK, ChainsOK, AgentOK
<1>4. ASSUME NEW e \in BOOLEAN, SetAgent(e) \/ RotateAgentCredential PROVE ConsentOK' /\ ChainsOK' /\ AgentOK'
  <2>1. UNCHANGED <<signedIn, form, client, code, chain, lapsed, access, held, boots>>
    BY <1>4 DEF SetAgent, RotateAgentCredential
  <2>2. agent' \in BOOLEAN
    BY <1>4 DEF SetAgent, RotateAgentCredential, AgentOK
  <2>3. issued' \in 1..MaxIssued /\ live' \subseteq 1..MaxIssued
    <3>1. CASE SetAgent(e)
      <4>1. live' \in {live, {}} /\ issued' = issued
        BY <3>1 DEF SetAgent
      <4>. QED BY <4>1 DEF AgentOK
    <3>2. CASE RotateAgentCredential
      <4>1. issued < MaxIssued /\ issued' = issued + 1 /\ live' = {issued + 1}
        BY <3>2 DEF RotateAgentCredential
      <4>2. issued + 1 \in 1..MaxIssued
        BY <4>1, CredentialBounds DEF AgentOK
      <4>. QED BY <4>1, <4>2
    <3>. QED BY <1>4, <3>1, <3>2
  <2>. QED BY <2>1, <2>2, <2>3 DEF ConsentOK, ChainsOK, AgentOK
<1>5. ASSUME PruneExpiredCredentials PROVE ConsentOK' /\ ChainsOK' /\ AgentOK'
  <2>1. chain' \in Chains
    BY <1>5 DEF PruneExpiredCredentials, ChainsOK, Chains, States
  <2>. QED BY <1>5, <2>1 DEF PruneExpiredCredentials, ConsentOK, ChainsOK, AgentOK
<1>6. ASSUME BootWithNewSecret PROVE ConsentOK' /\ ChainsOK' /\ AgentOK'
  <2>1. /\ RevokeGrant(Grants) /\ signedIn' = FALSE /\ form' = [g \in Grants |-> FALSE]
        /\ UNCHANGED <<client, lapsed, held, agent, issued, live>>
    BY <1>6 DEF BootWithNewSecret
  <2>2. code' \in [Grants -> Codes]
    BY <1>6 DEF BootWithNewSecret, ConsentOK, Codes
  <2>3. boots' \in 0..MaxBoots
    BY <1>6, CredentialBounds DEF BootWithNewSecret, AgentOK
  <2>. QED BY <2>1, <2>2, <2>3, RevokingKeeps DEF ConsentOK, ChainsOK, AgentOK
<1>7. ASSUME NEW g \in Grants, AccessLapses(g) \/ RefreshLapses(g) PROVE ConsentOK' /\ ChainsOK' /\ AgentOK'
  <2>1. UNCHANGED <<signedIn, form, client, code, chain, held, agent, issued, live, boots>>
    BY <1>7 DEF AccessLapses, RefreshLapses
  <2>2. access' \in [Grants -> BOOLEAN]
    BY <1>7 DEF AccessLapses, RefreshLapses, ChainsOK
  <2>3. lapsed' \in [Grants -> 0..(MaxChain + 1)]
    BY <1>7, CredentialBounds DEF AccessLapses, RefreshLapses, ChainsOK, Chain
  <2>. QED BY <2>1, <2>2, <2>3 DEF ConsentOK, ChainsOK, AgentOK
<1>8. ASSUME NEW h \in Holders, Refresh(h) PROVE ConsentOK' /\ ChainsOK' /\ AgentOK'
  BY <1>8, RefreshTypes DEF ConsentOK, AgentOK
<1>9. ASSUME NEW h \in Holders, Revoke(h) PROVE ConsentOK' /\ ChainsOK' /\ AgentOK'
  <2>1. /\ RevokeGrant({held[h].grant})
        /\ UNCHANGED <<signedIn, form, client, code, lapsed, held, agent, issued, live, boots>>
    BY <1>9 DEF Revoke
  <2>. QED BY <2>1, RevokingKeeps DEF ConsentOK, ChainsOK, AgentOK
<1>10. ASSUME NEW h \in Holders, NEW g \in Grants, ExchangeCode(h, g) PROVE ConsentOK' /\ ChainsOK' /\ AgentOK'
  BY <1>10, ExchangeTypes DEF ConsentOK, AgentOK
<1>11. ASSUME NEW h \in Holders, NEW k \in Holders, Shares(h, k) PROVE ConsentOK' /\ ChainsOK' /\ AgentOK'
  BY <1>11 DEF Shares, ConsentOK, ChainsOK, AgentOK
<1>12. CASE UNCHANGED credVars
  BY <1>12 DEF credVars, ConsentOK, ChainsOK, AgentOK
<1>13. ASSUME SignsInOrOut \/ EnableConnector PROVE ConsentOK' /\ Rest
  BY <1>13 DEF SignsInOrOut, EnableConnector, ConsentOK
<1>. HIDE DEF Rest
<1>. QED BY <1>1, <1>2, <1>3, <1>4, <1>5, <1>6, <1>7, <1>8, <1>9, <1>10, <1>11, <1>12, <1>13 DEF CredNext

\* Consents, chains, holders and the agent's tokens keep their types.
THEOREM CredentialTypes == CredSpec => []CredTypeOK
  BY CredInitially, CredStep, PTL DEF CredSpec

---------------------------------------------------------------------------
(* What is over stays over. *)

\* One grant: what it has stays over while its chain gains nothing and its term only runs.
LEMMA OverStays ==
    ASSUME ChainsOK, ChainsOK', NEW g \in Grants, Spent(g), code'[g] = "used",
           access'[g] => access[g], lapsed'[g] >= lapsed[g],
           \A n \in Chain : chain'[g][n] = "live" => chain[g][n] = "live"
    PROVE  Spent(g)'
<1>1. lapsed[g] \in Nat /\ lapsed'[g] \in Nat
  BY CredentialBounds DEF ChainsOK
<1>2. ASSUME NEW n \in Chain, n < lapsed[g] PROVE n < lapsed'[g]
  <2>1. n \in Nat
    BY ChainNumbers
  <2>. QED BY <1>1, <1>2, <2>1
<1>. QED BY <1>2 DEF Spent, Expired

LEMMA SpentStep ==
    ASSUME CredTypeOK, [CredNext]_credVars, NEW g \in Grants, Spent(g)
    PROVE  Spent(g)'
<1>1. ConsentOK /\ ChainsOK /\ ChainsOK'
  BY CredStep DEF CredTypeOK, ConsentOK, ChainsOK, Codes, Tokens, Chains, States
<1>2. code[g] = "used" /\ ~access[g] /\ \A n \in Chain : chain[g][n] = "live" => Expired(g, n)
  BY DEF Spent
<1>. DEFINE Gains == ~(/\ code'[g] = "used" /\ (access'[g] => access[g]) /\ lapsed'[g] >= lapsed[g]
                       /\ \A n \in Chain : chain'[g][n] = "live" => chain[g][n] = "live")
<1>3. lapsed[g] \in Nat /\ lapsed[g] >= lapsed[g]
  BY <1>1, CredentialBounds DEF ChainsOK
<1>. SUFFICES ~Gains
  BY <1>1, OverStays
<1>4. ASSUME NEW x \in Grants, AskConsent(x) \/ Resolved(x) \/ PostConsent(x) \/ Approve(x) \/ CodeExpires(x)
      PROVE  ~Gains
  <2>1. code'[g] = "used" /\ UNCHANGED <<chain, access, lapsed>>
    BY <1>1, <1>2, <1>4 DEF AskConsent, Resolved, PostConsent, Approve, CodeExpires, ConsentOK
  <2>. QED BY <1>3, <2>1
<1>5. ASSUME UNCHANGED <<chain, access, lapsed, code>> PROVE ~Gains
  BY <1>2, <1>3, <1>5
<1>6. ASSUME NEW G, RevokeGrant(G), code'[g] = code[g], UNCHANGED lapsed PROVE ~Gains
  BY <1>1, <1>2, <1>3, <1>6, RevokingKeeps DEF ChainsOK
<1>7. ASSUME PruneExpiredCredentials PROVE ~Gains
  <2>1. UNCHANGED <<access, lapsed, code>> /\ \A n \in Chain : chain'[g][n] \in {chain[g][n], "none"}
    BY <1>7 DEF PruneExpiredCredentials
  <2>. QED BY <1>2, <1>3, <2>1
<1>8. ASSUME NEW x \in Grants, AccessLapses(x) \/ RefreshLapses(x) PROVE ~Gains
  <2>1. UNCHANGED <<chain, code>> /\ (access'[g] => access[g])
    BY <1>1, <1>8 DEF AccessLapses, RefreshLapses, ChainsOK
  <2>2. lapsed'[g] >= lapsed[g]
    BY <1>1, <1>3, <1>8 DEF AccessLapses, RefreshLapses, ChainsOK
  <2>. QED BY <1>2, <2>1, <2>2
<1>9. ASSUME NEW h \in Holders, Refresh(h) PROVE ~Gains
  <2>. DEFINE x == held[h].grant
              n == held[h].n
  <2>1. x \in Grants /\ n \in Chain /\ n \in Nat /\ UNCHANGED <<code, lapsed>>
    BY <1>1, <1>9, ChainNumbers DEF Refresh, ChainsOK, Tokens
  <2>2. CASE x = g
    <3>1. ~(chain[x][n] = "revoked" /\ CatchesUp(x, n))
      BY <1>2, <2>2 DEF CatchesUp
    <3>2. ~(chain[x][n] = "live" /\ ~Expired(x, n))
      BY <1>2, <2>1, <2>2
    <3>3. RevokeGrant({x})
      BY <1>9, <3>1, <3>2 DEF Refresh
    <3>. QED BY <1>6, <2>1, <3>3
  <2>3. CASE x # g
    <3>1. (access'[g] = access[g] /\ chain'[g] = chain[g]) \/ RevokeGrant({x})
      BY <1>1, <1>9, <2>1, <2>3 DEF Refresh, ChainsOK, Chains
    <3>. QED BY <1>2, <1>3, <1>6, <2>1, <3>1
  <2>. QED BY <2>2, <2>3
<1>10. ASSUME NEW h \in Holders, NEW x \in Grants, ExchangeCode(h, x) PROVE ~Gains
  <2>1. CASE RevokeGrant({x}) /\ UNCHANGED <<code, lapsed>>
    BY <1>6, <2>1
  <2>2. CASE /\ code[x] = "issued" /\ UNCHANGED lapsed /\ code' = [code EXCEPT ![x] = "used"]
             /\ \/ chain' = [chain EXCEPT ![x][0] = "live"] /\ access' = [access EXCEPT ![x] = TRUE]
                \/ UNCHANGED <<chain, access>>
    <3>1. x # g
      BY <1>2, <2>2
    <3>2. access'[g] = access[g] /\ chain'[g] = chain[g] /\ code'[g] = code[g] /\ lapsed'[g] = lapsed[g]
      BY <1>1, <2>2, <3>1 DEF ChainsOK, Chains, ConsentOK
    <3>. QED BY <1>2, <1>3, <3>2
  <2>. QED BY <1>10, <2>1, <2>2 DEF ExchangeCode
<1>11. ASSUME BootWithNewSecret PROVE ~Gains
  <2>1. RevokeGrant(Grants) /\ UNCHANGED lapsed /\ code'[g] = code[g]
    BY <1>2, <1>11 DEF BootWithNewSecret
  <2>. QED BY <1>6, <2>1
<1>12. ASSUME NEW h \in Holders, Revoke(h) PROVE ~Gains
  BY <1>6, <1>12 DEF Revoke
<1>13. ASSUME DisableConnector PROVE ~Gains
  BY <1>6, <1>13 DEF DisableConnector
<1>14. ASSUME NEW h \in Holders, NEW k \in Holders, Shares(h, k) PROVE ~Gains
  BY <1>5, <1>14 DEF Shares
<1>15. ASSUME NEW e \in BOOLEAN, SignsInOrOut \/ EnableConnector \/ SetAgent(e) \/ RotateAgentCredential
       PROVE  ~Gains
  BY <1>5, <1>15 DEF SignsInOrOut, EnableConnector, SetAgent, RotateAgentCredential
<1>16. CASE UNCHANGED credVars
  BY <1>5, <1>16 DEF credVars
<1>. HIDE DEF Gains
<1>. QED BY <1>4, <1>7, <1>8, <1>9, <1>10, <1>11, <1>12, <1>13, <1>14, <1>15, <1>16 DEF CredNext

\* No refresh, replay, approval, restart or re-enabling brings back anything of a grant once all
\* of it is over.
THEOREM NothingComesBack == CredSpec => RevokedForGood
<1>1. CredTypeOK /\ [CredNext]_credVars => [\A g \in Grants : Spent(g) => Spent(g)']_credVars
  BY SpentStep
<1>. QED BY <1>1, CredentialTypes, PTL DEF CredSpec, RevokedForGood

\* Presenting the live token of a chain, or the one before it, never ends the chain: a lost answer
\* is not taken for a stolen token.
THEOREM LostAnswersForgiven == CredSpec => LostAnswerForgiven
<1>. DEFINE Forgiven(h) ==
       LET g == held[h].grant
           n == held[h].n
       IN  (/\ Refresh(h) /\ Keyed /\ Enabled /\ ~Expired(g, n)
            /\ \E m \in {n, n + 1} \cap Chain : chain[g][m] = "live")
           => \E m \in Chain : chain'[g][m] = "live"
<1>1. ASSUME CredTypeOK, NEW h \in Holders PROVE Forgiven(h)
  <2>. DEFINE g == held[h].grant
              n == held[h].n
  <2>. SUFFICES ASSUME Refresh(h), Keyed, Enabled, ~Expired(g, n), \E m \in {n, n + 1} \cap Chain : chain[g][m] = "live"
                PROVE  \E m \in Chain : chain'[g][m] = "live"
    OBVIOUS
  <2>1. ChainsOK /\ g \in Grants /\ n \in Chain /\ n \in Nat
    BY <1>1, ChainNumbers DEF CredTypeOK, ChainsOK, Tokens, Chains, States, Refresh
  <2>2. CASE chain[g][n] = "live"
    <3>1. n + 1 \in Chain /\ chain' = [chain EXCEPT ![g][n] = "revoked", ![g][n + 1] = "live"]
      BY <2>2 DEF Refresh
    <3>2. chain'[g][n + 1] = "live"
      BY <2>1, <3>1 DEF ChainsOK, Chains
    <3>. QED BY <3>1, <3>2
  <2>3. CASE chain[g][n] # "live"
    <3>1. n + 1 \in Chain /\ chain[g][n + 1] = "live" /\ chain[g][n] = "revoked"
      BY <2>3 DEF Refresh
    <3>2. ~Expired(g, n + 1)
      <4>1. lapsed[g] \in Nat /\ ~(n < lapsed[g])
        BY <2>1, CredentialBounds DEF ChainsOK, Expired
      <4>. QED BY <2>1, <4>1 DEF Expired
    <3>3. CatchesUp(g, n)
      BY <3>1, <3>2 DEF CatchesUp
    <3>4. UNCHANGED chain
      BY <3>1, <3>3 DEF Refresh
    <3>. QED BY <3>1, <3>4
  <2>. QED BY <2>2, <2>3
<1>2. CredTypeOK /\ [CredNext]_credVars =>
        [\A h \in Holders :
           LET g == held[h].grant
               n == held[h].n
           IN  (/\ Refresh(h)
                /\ Keyed /\ Enabled
                /\ ~Expired(g, n)
                /\ \E m \in {n, n + 1} \cap Chain : chain[g][m] = "live")
               => \E m \in Chain : chain'[g][m] = "live"]_credVars
  BY <1>1
<1>. QED BY <1>2, CredentialTypes, PTL DEF CredSpec, LostAnswerForgiven

---------------------------------------------------------------------------
(* Bindings and calls (McpSessions). *)

InUse(i) == binding[i].stage \in {"starting", "connecting", "choosing", "ready"}
Attached(b) == {i \in BindingIds : binding[i].browser = b /\ binding[i].attached}

\* What the types are made of: who may what, the bindings, and what is decided with them.
AccessOK ==
    /\ level \in [McpBrowsers -> [Callers -> Access]]
    /\ up \in [McpBrowsers -> BOOLEAN] /\ person \in [McpBrowsers -> BOOLEAN]
    /\ lease \in [McpBrowsers -> Callers \cup {Nobody}]
    /\ session \in [Sessions -> [open: BOOLEAN, browser: McpBrowsers \cup {Nobody}]]
    /\ lastBound \in [Callers -> McpBrowsers \cup {Nobody, "many"}]
BindingsOK ==
    /\ attached \in [McpBrowsers -> Nat]
    /\ binding \in [BindingIds -> BindingRows]
    /\ bindings \in [Sessions -> [McpBrowsers -> 0..MaxBindings]]
CallsOK ==
    /\ call \in [Calls -> CallRows]
    /\ \A c \in Calls :
         /\ call[c].state # "idle" =>
              call[c].session \in Sessions /\ call[c].browser \in McpBrowsers /\ call[c].binding \in BindingIds
         /\ call[c].state = "prepared" => call[c].tool # "use"

\* A startup under way, and a binding that is ready, know their session and browser; they are
\* that session's binding until they are closed; and a bridge or a count is of one that is not.
Held ==
    \A i \in BindingIds :
      /\ InUse(i) => /\ binding[i].session \in Sessions /\ binding[i].browser \in McpBrowsers
                     /\ binding[i].closed \/ bindings[binding[i].session][binding[i].browser] = i
      /\ binding[i].attached \/ binding[i].child =>
           ~binding[i].closed /\ binding[i].stage \in {"connecting", "choosing", "ready"}
Counted == \A b \in McpBrowsers : attached[b] = Cardinality(Attached(b))

McpInv == AccessOK /\ BindingsOK /\ CallsOK /\ Held /\ Counted

LEMMA McpFinite ==
    ASSUME NEW b PROVE IsFiniteSet(Attached(b)) /\ Cardinality(Attached(b)) \in Nat
<1>1. IsFiniteSet(BindingIds)
  BY McpBounds, FS_Interval DEF BindingIds
<1>2. Attached(b) \in SUBSET BindingIds
  BY DEF Attached
<1>. QED BY <1>1, <1>2, FS_Subset, FS_CardinalityType

\* Disposing takes the bindings in I out of their sessions and takes back what they counted.
LEMMA DisposeCounts ==
    ASSUME McpInv, NEW I \in SUBSET BindingIds, Dispose(I),
           binding' \in [BindingIds -> BindingRows],
           \A i \in I : ~binding'[i].attached,
           \A i \in BindingIds \ I : binding'[i] = binding[i]
    PROVE  Counted' /\ attached' \in [McpBrowsers -> Nat]
<1>1. ASSUME NEW b \in McpBrowsers
      PROVE  attached'[b] \in Nat /\ attached'[b] = Cardinality(Attached(b)')
  <2>. DEFINE A == Attached(b)
  <2>1. Attached(b)' = A \ I
    BY DEF Attached
  <2>2. Detached(b, I) = Cardinality(A \cap I)
    <3>1. {i \in I : binding[i].browser = b /\ binding[i].attached} = A \cap I
      BY DEF Attached
    <3>. QED BY <3>1 DEF Detached
  <2>3. IsFiniteSet(A) /\ Cardinality(A) \in Nat /\ attached[b] = Cardinality(A)
    BY McpFinite DEF McpInv, Counted
  <2>. HIDE DEF A
  <2>4. Cardinality(A \ I) = Cardinality(A) - Cardinality(A \cap I) /\ Cardinality(A \cap I) <= Cardinality(A)
    BY <2>3, FS_Difference, FS_Intersection
  <2>5. Cardinality(A \cap I) \in Nat /\ Cardinality(A \ I) \in Nat
    BY <2>3, FS_Difference, FS_Intersection, FS_CardinalityType
  <2>6. attached'[b] = IF attached[b] > Detached(b, I) THEN attached[b] - Detached(b, I) ELSE 0
    BY DEF Dispose
  <2>. QED BY <2>1, <2>2, <2>3, <2>4, <2>5, <2>6
<1>2. attached' = [b \in McpBrowsers |-> attached'[b]]
  BY DEF Dispose
<1>. QED BY <1>1, <1>2 DEF Counted

\* Whoever disposes them leaves their rows closed, with nothing.
LEMMA DisposeKeeps ==
    ASSUME McpInv, NEW I \in SUBSET BindingIds, Dispose(I),
           binding' \in [BindingIds -> BindingRows],
           \A i \in I : /\ binding'[i].closed /\ ~binding'[i].attached /\ ~binding'[i].child
                        /\ InUse(i)' => InUse(i) /\ UNCHANGED <<binding[i].session, binding[i].browser>>,
           \A i \in BindingIds \ I : binding'[i] = binding[i]
    PROVE  BindingsOK' /\ Held' /\ Counted'
<1>1. Counted' /\ attached' \in [McpBrowsers -> Nat]
  BY DisposeCounts
<1>2. bindings' \in [Sessions -> [McpBrowsers -> 0..MaxBindings]]
  BY McpBounds DEF Dispose, McpInv, BindingsOK
<1>3. Held'
  <2>. SUFFICES ASSUME NEW i \in BindingIds
                PROVE  /\ InUse(i)' => /\ binding'[i].session \in Sessions /\ binding'[i].browser \in McpBrowsers
                                       /\ binding'[i].closed \/ bindings'[binding'[i].session][binding'[i].browser] = i
                       /\ binding'[i].attached \/ binding'[i].child =>
                            ~binding'[i].closed /\ binding'[i].stage \in {"connecting", "choosing", "ready"}
    BY DEF Held
  <2>1. CASE i \in I
    BY <2>1 DEF McpInv, Held
  <2>2. CASE i \notin I
    BY <2>2 DEF McpInv, Held, Dispose, InUse
  <2>. QED BY <2>1, <2>2
<1>. QED BY <1>1, <1>2, <1>3 DEF BindingsOK

LEMMA OverIsOver == Over \in BindingRows /\ Over.closed /\ ~Over.attached /\ ~Over.child /\ Over.stage = "failed"
  BY DEF Over, NoBinding, BindingRows, Access

LEMMA FailsKeeps ==
    ASSUME McpInv, NEW i \in BindingIds, StartupFails(i)
    PROVE  BindingsOK' /\ Held' /\ Counted'
  BY DisposeKeeps, OverIsOver DEF StartupFails, McpInv, BindingsOK, InUse

LEMMA DisposedKeeps ==
    ASSUME McpInv, NEW I \in SUBSET BindingIds, Dispose(I), DisposeRows(I)
    PROVE  BindingsOK' /\ Held' /\ Counted'
<1>1. ASSUME NEW i \in BindingIds
      PROVE  /\ Disposed(binding[i]) \in BindingRows
             /\ Disposed(binding[i]).closed /\ ~Disposed(binding[i]).attached /\ ~Disposed(binding[i]).child
             /\ \/ Disposed(binding[i]).stage = "failed"
                \/ /\ Disposed(binding[i]).stage = binding[i].stage
                   /\ Disposed(binding[i]).session = binding[i].session
                   /\ Disposed(binding[i]).browser = binding[i].browser
  BY OverIsOver DEF Disposed, McpInv, BindingsOK, BindingRows
<1>2. \A i \in BindingIds : binding'[i] = IF i \in I THEN Disposed(binding[i]) ELSE binding[i]
  BY DEF DisposeRows
<1>3. binding' \in [BindingIds -> BindingRows]
  BY <1>1 DEF DisposeRows, McpInv, BindingsOK
<1>. QED BY <1>1, <1>2, <1>3, DisposeKeeps DEF InUse

\* A row that only changes in what it may do, or goes on with its startup, is held as before.
LEMMA GoesOnKeeps ==
    ASSUME McpInv, NEW i \in BindingIds, NEW row \in BindingRows, binding' = [binding EXCEPT ![i] = row],
           InUse(i), ~binding[i].closed,
           row.session = binding[i].session, row.browser = binding[i].browser,
           row.stage \in {"connecting", "choosing", "ready"}, row.closed = binding[i].closed,
           row.attached = binding[i].attached,
           UNCHANGED <<bindings, attached>>
    PROVE  BindingsOK' /\ Held' /\ Counted'
<1>1. binding' \in [BindingIds -> BindingRows] /\ binding'[i] = row /\ \A j \in BindingIds \ {i} : binding'[j] = binding[j]
  BY DEF McpInv, BindingsOK
<1>2. \A b \in McpBrowsers : Attached(b)' = Attached(b)
  BY <1>1 DEF Attached
<1>3. Counted'
  BY <1>2 DEF McpInv, Counted
<1>4. Held'
  BY <1>1 DEF McpInv, Held, InUse
<1>. QED BY <1>1, <1>3, <1>4 DEF McpInv, BindingsOK

LEMMA McpInitially == McpInit => McpInv
<1>. SUFFICES ASSUME McpInit PROVE McpInv
  OBVIOUS
<1>1. NoBinding \in BindingRows /\ NoCall \in CallRows
  BY McpBounds DEF NoBinding, BindingRows, Access, NoCall, CallRows, Tools
<1>2. AccessOK
  BY DEF McpInit, AccessOK
<1>3. BindingsOK /\ CallsOK
  BY <1>1, McpBounds DEF McpInit, BindingsOK, CallsOK, NoCall
<1>4. Held
  BY DEF McpInit, Held, InUse, NoBinding
<1>5. \A b \in McpBrowsers : Attached(b) = {}
  BY DEF McpInit, Attached, NoBinding
<1>6. Counted
  BY <1>5, FS_EmptySet DEF McpInit, Counted
<1>. QED BY <1>2, <1>3, <1>4, <1>6 DEF McpInv

LEMMA CallKeeps ==
    ASSUME McpInv, NEW c \in Calls, NEW s \in Sessions, NEW b \in McpBrowsers, NEW tool \in Tools,
           NEW restore \in BOOLEAN, Call(c, s, b, tool, restore)
    PROVE  McpInv'
<1>. DEFINE Waiting(i) == [state |-> "waiting", tool |-> tool, session |-> s, browser |-> b, binding |-> i, restore |-> restore]
<1>1. UNCHANGED <<level, up, person, lease, attached, session, lastBound>>
  BY DEF Call
<1>2. AccessOK'
  BY <1>1 DEF McpInv, AccessOK
<1>3. \A i \in BindingIds : Waiting(i) \in CallRows
  BY McpBounds DEF CallRows, BindingIds
<1>4. \A i \in BindingIds : call' = [call EXCEPT ![c] = Waiting(i)] => CallsOK'
  BY <1>3 DEF McpInv, CallsOK
<1>. HIDE DEF Waiting
<1>5. CASE bindings[s][b] # 0
  <2>1. bindings[s][b] \in BindingIds /\ call' = [call EXCEPT ![c] = Waiting(bindings[s][b])] /\ UNCHANGED <<binding, bindings>>
    BY <1>5, McpBounds DEF Call, McpInv, BindingsOK, BindingIds, Waiting
  <2>2. BindingsOK' /\ Held' /\ Counted'
    BY <1>1, <2>1 DEF McpInv, BindingsOK, Held, InUse, Counted, Attached
  <2>. QED BY <1>2, <1>4, <2>1, <2>2 DEF McpInv
<1>6. CASE bindings[s][b] = 0
  <2>. DEFINE New == [session |-> s, browser |-> b, access |-> May(s, b), stage |-> "starting",
                      attached |-> FALSE, closed |-> FALSE, child |-> FALSE]
  <2>1. PICK i \in BindingIds :
           /\ binding[i].stage = "unused"
           /\ binding' = [binding EXCEPT ![i] = New]
           /\ bindings' = [bindings EXCEPT ![s][b] = i]
           /\ call' = [call EXCEPT ![c] = Waiting(i)]
    BY <1>6 DEF Call, Waiting
  <2>2. New \in BindingRows /\ New.session = s /\ New.browser = b /\ New.stage = "starting" /\ ~New.closed /\ ~New.attached /\ ~New.child
    <3>1. May(s, b) \in Access
      BY McpWho DEF May, McpInv, AccessOK
    <3>. QED BY <3>1 DEF BindingRows
  <2>. HIDE DEF New
  <2>3. BindingsOK'
    BY <1>1, <2>1, <2>2, McpBounds DEF McpInv, BindingsOK, BindingIds
  <2>4. binding'[i] = New /\ \A j \in BindingIds \ {i} : binding'[j] = binding[j]
    BY <2>1 DEF McpInv, BindingsOK
  <2>5. \A x \in McpBrowsers : Attached(x)' = Attached(x)
    BY <2>1, <2>2, <2>4 DEF Attached, McpInv, Held
  <2>6. Counted'
    BY <1>1, <2>5 DEF McpInv, Counted
  <2>7. bindings'[s][b] = i /\ \A t \in Sessions, x \in McpBrowsers : t # s \/ x # b => bindings'[t][x] = bindings[t][x]
    BY <2>1 DEF McpInv, BindingsOK
  <2>8. \A j \in BindingIds \ {i} : InUse(j) => binding[j].closed \/ binding[j].session # s \/ binding[j].browser # b
    BY <1>6, McpBounds DEF McpInv, Held, BindingIds
  <2>9. Held'
    BY <2>2, <2>4, <2>7, <2>8 DEF McpInv, Held, InUse
  <2>. QED BY <1>2, <1>4, <2>1, <2>3, <2>6, <2>9 DEF McpInv
<1>. QED BY <1>5, <1>6

LEMMA BrowserRunsKeeps ==
    ASSUME McpInv, NEW i \in BindingIds, BrowserRuns(i)
    PROVE  McpInv'
<1>0. PICK s \in Sessions, b \in McpBrowsers : s = binding[i].session /\ b = binding[i].browser
  BY DEF BrowserRuns, McpInv, Held, InUse
<1>1. /\ Who[s] \in Callers /\ May(s, b) \in Access
      /\ binding[i].stage = "starting"
      /\ UNCHANGED <<level, person, session, lastBound, call>> /\ up' = [up EXCEPT ![b] = TRUE]
  BY <1>0, McpWho DEF BrowserRuns, McpInv, Held, InUse, May, AccessOK
<1>2. CallsOK'
  BY <1>1 DEF McpInv, CallsOK
<1>3. CASE StartupFails(i) /\ UNCHANGED lease
  <2>1. AccessOK'
    BY <1>1, <1>3 DEF McpInv, AccessOK
  <2>. QED BY <1>2, <1>3, <2>1, FailsKeeps DEF McpInv
<1>4. CASE ~(binding[i].closed \/ ~session[s].open \/ May(s, b) = "none")
  <2>1. attached' = [attached EXCEPT ![b] = @ + 1] /\ lease' = Takes(s, b, May(s, b)) /\ UNCHANGED bindings
    BY <1>0, <1>4 DEF BrowserRuns
  <2>2. PICK row \in BindingRows :
          /\ row.session = s /\ row.browser = b /\ row.stage = "connecting"
          /\ row.attached /\ ~row.closed /\ row.child = binding[i].child
          /\ binding' = [binding EXCEPT ![i] = row]
    <3>1. binding[i] \in BindingRows
      BY DEF McpInv, BindingsOK
    <3>2. binding' = [binding EXCEPT ![i].access = May(s, b), ![i].attached = TRUE, ![i].stage = "connecting"]
      BY <1>0, <1>4 DEF BrowserRuns
    <3>3. /\ [session |-> s, browser |-> b, access |-> May(s, b), stage |-> "connecting", attached |-> TRUE,
              closed |-> FALSE, child |-> binding[i].child] \in BindingRows
          /\ binding' = [binding EXCEPT ![i] =
                [session |-> s, browser |-> b, access |-> May(s, b), stage |-> "connecting", attached |-> TRUE,
                 closed |-> FALSE, child |-> binding[i].child]]
      BY <1>0, <1>1, <1>4, <3>1, <3>2 DEF McpInv, BindingsOK, BindingRows
    <3>. QED BY <3>3
  <2>3. AccessOK'
    BY <1>1, <2>1 DEF McpInv, AccessOK, Takes
  <2>4. BindingsOK'
    BY <1>1, <2>1, <2>2 DEF McpInv, BindingsOK
  <2>5. binding'[i] = row /\ \A j \in BindingIds \ {i} : binding'[j] = binding[j]
    BY <2>2 DEF McpInv, BindingsOK
  <2>6. Held'
    BY <1>0, <1>1, <1>4, <2>1, <2>2, <2>5 DEF McpInv, Held, InUse
  <2>7. i \notin Attached(b) /\ Attached(b)' = Attached(b) \cup {i}
    BY <1>1, <2>2, <2>5 DEF Attached, McpInv, Held
  <2>8. \A x \in McpBrowsers \ {b} : Attached(x)' = Attached(x)
    BY <1>0, <2>2, <2>5 DEF Attached
  <2>9. Cardinality(Attached(b)') = Cardinality(Attached(b)) + 1
    <3>1. IsFiniteSet(Attached(b))
      BY McpFinite
    <3>. QED BY <2>7, <3>1, FS_AddElement
  <2>10. attached'[b] = attached[b] + 1 /\ \A x \in McpBrowsers \ {b} : attached'[x] = attached[x]
    BY <1>1, <2>1 DEF McpInv, BindingsOK
  <2>11. Counted'
    BY <1>1, <2>8, <2>9, <2>10 DEF McpInv, Counted
  <2>. QED BY <1>2, <2>3, <2>4, <2>6, <2>11 DEF McpInv
<1>. QED BY <1>0, <1>3, <1>4 DEF BrowserRuns

LEMMA ConnectsKeeps ==
    ASSUME McpInv, NEW i \in BindingIds, BindingFails(i) \/ BridgeConnects(i) \/ PageChosen(i) \/ BridgeCloses(i) \/ CloseOne(i)
    PROVE  McpInv'
<1>1. UNCHANGED <<level, up, person, lease, session, lastBound, call>>
  BY DEF BindingFails, BridgeConnects, PageChosen, BridgeCloses, CloseOne
<1>2. AccessOK' /\ CallsOK'
  BY <1>1 DEF McpInv, AccessOK, CallsOK
<1>3. CASE StartupFails(i)
  BY <1>2, <1>3, FailsKeeps DEF McpInv
<1>4. CASE Dispose({i}) /\ DisposeRows({i})
  BY <1>2, <1>4, DisposedKeeps DEF McpInv
<1>5. CASE ~StartupFails(i) /\ BridgeConnects(i)
  <2>. DEFINE row == [binding[i] EXCEPT !.child = TRUE, !.stage = "choosing"]
  <2>1. /\ binding[i].stage = "connecting" /\ ~binding[i].closed /\ UNCHANGED <<bindings, attached>>
        /\ binding' = [binding EXCEPT ![i] = row]
    BY <1>5 DEF BridgeConnects, McpInv, BindingsOK
  <2>2. row \in BindingRows
    BY DEF McpInv, BindingsOK, BindingRows
  <2>3. BindingsOK' /\ Held' /\ Counted'
    <3>1. binding[i] \in BindingRows
      BY DEF McpInv, BindingsOK
    <3>2. /\ row.session = binding[i].session /\ row.browser = binding[i].browser /\ row.stage = "choosing"
          /\ row.closed = binding[i].closed /\ row.attached = binding[i].attached
      BY <3>1 DEF BindingRows
    <3>. HIDE DEF row
    <3>. QED BY <2>1, <2>2, <3>2, GoesOnKeeps DEF InUse
  <2>. QED BY <1>2, <2>3 DEF McpInv
<1>6. CASE ~StartupFails(i) /\ PageChosen(i)
  <2>. DEFINE row == [binding[i] EXCEPT !.stage = "ready"]
  <2>1. /\ binding[i].stage = "choosing" /\ ~binding[i].closed /\ UNCHANGED <<bindings, attached>>
        /\ binding' = [binding EXCEPT ![i] = row]
    BY <1>6 DEF PageChosen, McpInv, BindingsOK
  <2>2. row \in BindingRows
    BY DEF McpInv, BindingsOK, BindingRows
  <2>3. BindingsOK' /\ Held' /\ Counted'
    <3>1. binding[i] \in BindingRows
      BY DEF McpInv, BindingsOK
    <3>2. /\ row.session = binding[i].session /\ row.browser = binding[i].browser /\ row.stage = "ready"
          /\ row.closed = binding[i].closed /\ row.attached = binding[i].attached
      BY <3>1 DEF BindingRows
    <3>. HIDE DEF row
    <3>. QED BY <2>1, <2>2, <3>2, GoesOnKeeps DEF InUse
  <2>. QED BY <1>2, <2>3 DEF McpInv
<1>. QED BY <1>3, <1>4, <1>5, <1>6 DEF BindingFails, BridgeCloses, CloseOne

LEMMA AnswersKeeps ==
    ASSUME McpInv, NEW c \in Calls, BindingAnswers(c)
    PROVE  McpInv'
<1>. DEFINE i == call[c].binding
            s == call[c].session
            b == call[c].browser
<1>1. /\ i \in BindingIds /\ s \in Sessions /\ b \in McpBrowsers /\ Who[s] \in Callers /\ May(s, b) \in Access
      /\ call[c].state = "waiting" /\ binding[i].stage \in {"ready", "failed"}
      /\ UNCHANGED <<level, up, person, attached, bindings>>
  BY McpWho DEF BindingAnswers, McpInv, CallsOK, AccessOK, May
<1>2. NoCall \in CallRows /\ NoCall.state = "idle"
  BY McpBounds DEF NoCall, CallRows, Tools
<1>3. Ends(c) \/ (call' = [call EXCEPT ![c].state = "prepared"] /\ call[c].tool # "use")
  BY DEF BindingAnswers
<1>4. CallsOK'
  <2>1. CASE Ends(c)
    BY <1>2, <2>1 DEF Ends, McpInv, CallsOK
  <2>2. CASE call' = [call EXCEPT ![c].state = "prepared"] /\ call[c].tool # "use"
    BY <1>1, <2>2 DEF McpInv, CallsOK, CallRows
  <2>. QED BY <1>3, <2>1, <2>2
<1>5. CASE binding[i].stage = "failed" \/ binding[i].closed \/ ~session[s].open \/ May(s, b) = "none"
  <2>1. UNCHANGED <<lease, session, binding>> /\ (UNCHANGED lastBound \/ lastBound' = [lastBound EXCEPT ![Who[s]] = Nobody])
    BY <1>5 DEF BindingAnswers
  <2>2. AccessOK'
    BY <1>1, <2>1 DEF McpInv, AccessOK
  <2>3. BindingsOK' /\ Held' /\ Counted'
    BY <1>1, <2>1 DEF McpInv, BindingsOK, Held, InUse, Counted, Attached
  <2>. QED BY <1>4, <2>2, <2>3 DEF McpInv
<1>6. CASE ~(binding[i].stage = "failed" \/ binding[i].closed \/ ~session[s].open \/ May(s, b) = "none")
  <2>. DEFINE row == [binding[i] EXCEPT !.access = May(s, b)]
  <2>1. /\ lease' = IF binding[i].access = "control" THEN lease ELSE Takes(s, b, May(s, b))
        /\ binding' = [binding EXCEPT ![i].access = May(s, b)]
        /\ Remember(Who[s], b)
        /\ session' \in {session, [session EXCEPT ![s].browser = b]}
    BY <1>6 DEF BindingAnswers
  <2>2. AccessOK'
    BY <1>1, <2>1 DEF McpInv, AccessOK, Takes, Remember
  <2>3. BindingsOK' /\ Held' /\ Counted'
    <3>1. binding[i] \in BindingRows
      BY <1>1 DEF McpInv, BindingsOK
    <3>2. /\ row.session = binding[i].session /\ row.browser = binding[i].browser /\ row.stage = "ready"
          /\ row.closed = binding[i].closed /\ row.attached = binding[i].attached
          /\ row \in BindingRows
      BY <1>1, <1>6, <3>1 DEF BindingRows
    <3>3. binding' = [binding EXCEPT ![i] = row]
      BY <1>1, <2>1 DEF McpInv, BindingsOK
    <3>. HIDE DEF row, i
    <3>. QED BY <1>1, <1>6, <3>2, <3>3, GoesOnKeeps DEF InUse
  <2>. QED BY <1>4, <2>2, <2>3 DEF McpInv
<1>. QED BY <1>5, <1>6

LEMMA McpStep == McpInv /\ [McpNext]_mcpVars => McpInv'
<1>. SUFFICES ASSUME McpInv, [McpNext]_mcpVars PROVE McpInv'
  OBVIOUS
<1>. DEFINE Rest == UNCHANGED <<attached, binding, bindings>>
<1>1. Rest => BindingsOK' /\ Held' /\ Counted'
  BY DEF McpInv, BindingsOK, Held, InUse, Counted, Attached
<1>2. ASSUME NEW c \in Calls, Dispatch(c) \/ CallReturns(c) PROVE McpInv'
  <2>1. Rest /\ UNCHANGED <<level, up, person, lease, session, lastBound>>
    BY <1>2 DEF Dispatch, CallReturns
  <2>2. NoCall \in CallRows /\ NoCall.state = "idle"
    BY McpBounds DEF NoCall, CallRows, Tools
  <2>3. call[c].state # "idle" /\ (Ends(c) \/ call' = [call EXCEPT ![c].state = "sent"])
    BY <1>2 DEF Dispatch, CallReturns
  <2>4. CallsOK'
    <3>1. CASE Ends(c)
      BY <2>2, <3>1 DEF Ends, McpInv, CallsOK
    <3>2. CASE call' = [call EXCEPT ![c].state = "sent"]
      BY <2>3, <3>2 DEF McpInv, CallsOK, CallRows
    <3>. QED BY <2>3, <3>1, <3>2
  <2>. QED BY <1>1, <2>1, <2>4 DEF McpInv, AccessOK
<1>3. ASSUME NEW s \in Sessions, CloseSession(s) PROVE McpInv'
  BY <1>1, <1>3 DEF CloseSession, McpInv, AccessOK, CallsOK
<1>4. ASSUME NEW b \in McpBrowsers, BrowserGone(b) PROVE McpInv'
  <2>. DEFINE I == {bindings[s][b] : s \in Sessions} \ {0}
  <2>1. I \in SUBSET BindingIds
    BY McpBounds DEF McpInv, BindingsOK, BindingIds
  <2>2. Dispose(I) /\ DisposeRows(I) /\ up' = [up EXCEPT ![b] = FALSE] /\ UNCHANGED <<level, person, lease, session, lastBound, call>>
    BY <1>4 DEF BrowserGone
  <2>3. AccessOK' /\ CallsOK'
    BY <2>2 DEF McpInv, AccessOK, CallsOK
  <2>. HIDE DEF I
  <2>. QED BY <2>1, <2>2, <2>3, DisposedKeeps DEF McpInv
<1>5. ASSUME NEW b \in McpBrowsers,
             ChromeDies(b) \/ PersonTakes(b) \/ PersonLeaves(b) \/ \E a \in Callers, l \in Access : LevelChanges(b, a, l)
      PROVE  McpInv'
  <2>1. Rest /\ UNCHANGED <<session, lastBound, call>>
    BY <1>5 DEF ChromeDies, PersonTakes, PersonLeaves, LevelChanges
  <2>2. AccessOK'
    <3>1. CASE ChromeDies(b)
      BY <3>1 DEF ChromeDies, McpInv, AccessOK
    <3>2. CASE PersonTakes(b)
      BY <3>2 DEF PersonTakes, McpInv, AccessOK
    <3>3. CASE PersonLeaves(b)
      BY <3>3 DEF PersonLeaves, McpInv, AccessOK
    <3>4. ASSUME NEW a \in Callers, NEW l \in Access, LevelChanges(b, a, l) PROVE AccessOK'
      BY <3>4 DEF LevelChanges, McpInv, AccessOK
    <3>. QED BY <1>5, <3>1, <3>2, <3>3, <3>4
  <2>. QED BY <1>1, <2>1, <2>2 DEF McpInv, CallsOK
<1>6. CASE UNCHANGED mcpVars
  BY <1>1, <1>6 DEF mcpVars, McpInv, AccessOK, CallsOK
<1>. HIDE DEF Rest
<1>. QED BY <1>2, <1>3, <1>4, <1>5, <1>6, CallKeeps, BrowserRunsKeeps, ConnectsKeeps, AnswersKeeps DEF McpNext

LEMMA McpInvariant == McpSpec => []McpInv
  BY McpInitially, McpStep, PTL DEF McpSpec

\* Connections, bindings and calls keep their types.
THEOREM McpTypes == McpSpec => []McpTypeOK
<1>1. McpInv => McpTypeOK
  BY DEF McpInv, AccessOK, BindingsOK, CallsOK, McpTypeOK
<1>. QED BY <1>1, McpInvariant, PTL

\* Whatever has a bridge or is counted is the binding its session holds, and each is counted once.
THEOREM NoOrphans == McpSpec => []NoOrphanBridge
<1>1. McpInv => NoOrphanBridge
  BY DEF McpInv, Counted, Attached, Held, InUse, NoOrphanBridge
<1>. QED BY <1>1, McpInvariant, PTL

\* What may not change but in the step of the call it is about.
LEMMA LeaseTaken ==
    ASSUME McpInv, NEW s \in Sessions, NEW b \in McpBrowsers, lease' = Takes(s, b, May(s, b)), NEW x \in McpBrowsers,
           lease'[x] # lease[x]
    PROVE  level[x][lease'[x]] = "control" /\ ~person[x]
  BY DEF Takes, May, McpInv, AccessOK

LEMMA LeaseWithinLevel ==
    ASSUME McpInv, McpNext, NEW b \in McpBrowsers, lease'[b] # lease[b], lease'[b] # Nobody
    PROVE  level[b][lease'[b]] = "control" /\ ~person[b]
<1>1. ASSUME NEW i \in BindingIds, BrowserRuns(i) PROVE level[b][lease'[b]] = "control" /\ ~person[b]
  <2>1. binding[i].session \in Sessions /\ binding[i].browser \in McpBrowsers
    BY <1>1 DEF BrowserRuns, McpInv, Held, InUse
  <2>. QED BY <1>1, <2>1, LeaseTaken DEF BrowserRuns
<1>2. ASSUME NEW c \in Calls, BindingAnswers(c) PROVE level[b][lease'[b]] = "control" /\ ~person[b]
  <2>1. call[c].session \in Sessions /\ call[c].browser \in McpBrowsers
    BY <1>2 DEF BindingAnswers, McpInv, CallsOK
  <2>2. lease' = Takes(call[c].session, call[c].browser, May(call[c].session, call[c].browser))
    BY <1>2 DEF BindingAnswers
  <2>. QED BY <2>1, <2>2, LeaseTaken
<1>3. ASSUME NEW x \in McpBrowsers, PersonTakes(x) PROVE FALSE
  BY <1>3 DEF PersonTakes, McpInv, AccessOK
<1>4. ASSUME UNCHANGED lease PROVE FALSE
  BY <1>4
<1>5. ASSUME NEW c \in Calls, Dispatch(c) \/ CallReturns(c) \/
             \E s \in Sessions, x \in McpBrowsers, tool \in Tools, restore \in BOOLEAN : Call(c, s, x, tool, restore)
      PROVE  FALSE
  BY <1>4, <1>5 DEF Call, Dispatch, CallReturns
<1>6. ASSUME NEW i \in BindingIds,
             BindingFails(i) \/ BridgeConnects(i) \/ PageChosen(i) \/ BridgeCloses(i) \/ CloseOne(i)
      PROVE  FALSE
  BY <1>4, <1>6 DEF BindingFails, BridgeConnects, PageChosen, BridgeCloses, CloseOne
<1>7. ASSUME NEW s \in Sessions, CloseSession(s) PROVE FALSE
  BY <1>4, <1>7 DEF CloseSession
<1>8. ASSUME NEW x \in McpBrowsers, BrowserGone(x) \/ ChromeDies(x) \/ PersonLeaves(x) \/
             \E a \in Callers, l \in Access : LevelChanges(x, a, l)
      PROVE  FALSE
  BY <1>4, <1>8 DEF BrowserGone, ChromeDies, PersonLeaves, LevelChanges
<1>. QED BY <1>1, <1>2, <1>3, <1>5, <1>6, <1>7, <1>8 DEF McpNext

LEMMA SentIsAllowed ==
    ASSUME McpInv, McpNext, NEW c \in Calls, call[c].state # "sent", call'[c].state = "sent"
    PROVE  MayDispatch(c) /\ call[c].state = "prepared"
<1>0. NoCall.state = "idle"
  BY DEF NoCall
<1>1. ASSUME NEW d \in Calls, Dispatch(d) PROVE MayDispatch(c) /\ call[c].state = "prepared"
  <2>1. CASE Ends(d)
    BY <1>0, <2>1 DEF Ends, McpInv, CallsOK
  <2>2. CASE MayDispatch(d) /\ call' = [call EXCEPT ![d].state = "sent"]
    BY <1>1, <2>2 DEF Dispatch, McpInv, CallsOK
  <2>. QED BY <1>1, <2>1, <2>2 DEF Dispatch
<1>2. ASSUME NEW d \in Calls, BindingAnswers(d) \/ CallReturns(d) PROVE FALSE
  <2>1. Ends(d) \/ call' = [call EXCEPT ![d].state = "prepared"]
    BY <1>2 DEF BindingAnswers, CallReturns
  <2>. QED BY <1>0, <2>1 DEF Ends, McpInv, CallsOK, CallRows
<1>3. ASSUME NEW d \in Calls, NEW s \in Sessions, NEW b \in McpBrowsers, NEW tool \in Tools, NEW restore \in BOOLEAN,
             Call(d, s, b, tool, restore)
      PROVE  FALSE
  <2>. DEFINE Waiting(i) == [state |-> "waiting", tool |-> tool, session |-> s, browser |-> b, binding |-> i, restore |-> restore]
  <2>1. \A i : Waiting(i).state = "waiting"
    OBVIOUS
  <2>2. \E i : call' = [call EXCEPT ![d] = Waiting(i)]
    BY <1>3 DEF Call
  <2>. HIDE DEF Waiting
  <2>. QED BY <2>1, <2>2 DEF McpInv, CallsOK
<1>4. ASSUME UNCHANGED call PROVE FALSE
  BY <1>4
<1>. QED BY <1>1, <1>2, <1>3, <1>4 DEF McpNext, BrowserRuns, BindingFails, BridgeConnects, PageChosen,
            BridgeCloses, CloseOne, CloseSession, BrowserGone, ChromeDies, PersonTakes, PersonLeaves, LevelChanges

\* A tool reaches the browser only for an agent that may use it at that moment, over an open
\* session and not under a person; and no agent comes to hold the lease with less than control.
THEOREM ActingWithinLevel == McpSpec => ActsWithinLevel
<1>. DEFINE Sent(c) ==
       call[c].state # "sent" /\ call'[c].state = "sent" =>
            LET b == call[c].browser
                l == level[b][Who[call[c].session]]
            IN  /\ session[call[c].session].open
                /\ l = "control" \/ (l = "read" /\ call[c].tool = "read")
                /\ call[c].tool = "write" => ~person[b]
            Taken(b) == lease'[b] # lease[b] /\ lease'[b] # Nobody => level[b][lease'[b]] = "control" /\ ~person[b]
<1>1. ASSUME McpInv, McpNext PROVE (\A c \in Calls : Sent(c)) /\ (\A b \in McpBrowsers : Taken(b))
  <2>1. ASSUME NEW c \in Calls, call[c].state # "sent", call'[c].state = "sent" PROVE Sent(c)
    <3>1. MayDispatch(c) /\ call[c].state = "prepared"
      BY <1>1, <2>1, SentIsAllowed
    <3>2. /\ level[call[c].browser][Who[call[c].session]] \in {"none", "read", "control"}
          /\ call[c].tool \in {"read", "write"}
      BY <1>1, <3>1, McpWho DEF McpInv, CallsOK, AccessOK, CallRows, Access, Tools
    <3>. QED BY <3>1, <3>2 DEF MayDispatch, Allowed, May
  <2>. QED BY <1>1, <2>1, LeaseWithinLevel
<1>2. McpInv /\ [McpNext]_mcpVars => [(\A c \in Calls : Sent(c)) /\ (\A b \in McpBrowsers : Taken(b))]_mcpVars
  BY <1>1
<1>. QED BY <1>2, McpInvariant, PTL DEF McpSpec, ActsWithinLevel
=============================================================================

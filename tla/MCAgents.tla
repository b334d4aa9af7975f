------------------------------ MODULE MCAgents ------------------------------
(***************************************************************************)
(* How agents get in and act, on small instances: one approval of a        *)
(* connector that runs as two processes, with an agent of the operator's   *)
(* own (Credentials); and one session with two calls that may share a      *)
(* startup (McpSessions).  They share no state, so a behaviour is of one   *)
(* of them, its focus.                                                     *)
(***************************************************************************)
EXTENDS Credentials, McpSessions, TLC

CONSTANTS g1, h1, h2, b1, a1, s1, c1, c2

Only == s1 :> a1

VARIABLE focus

all == <<credVars, mcpVars, focus>>

AgentsInit ==
    /\ focus \in {"credentials", "sessions"}
    /\ CredInit /\ McpInit
    /\ focus # "credentials" => ~signedIn
    /\ focus # "sessions" => \A b \in McpBrowsers, a \in Callers : level[b][a] = "none"

AgentsNext ==
    /\ UNCHANGED focus
    /\ \/ focus = "credentials" /\ CredNext /\ UNCHANGED mcpVars
       \/ focus = "sessions"    /\ McpNext  /\ UNCHANGED credVars

AgentsSpec == AgentsInit /\ [][AgentsNext]_all /\ McpFairness
=============================================================================

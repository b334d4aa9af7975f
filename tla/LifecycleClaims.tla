---------------------------- MODULE LifecycleClaims ----------------------------
(***************************************************************************)
(* What the docs say of a browser's life that browsers.ts does not keep.   *)
(* TLC answers with the interleaving that breaks it; README.md tells the   *)
(* story.                                                                  *)
(***************************************************************************)
EXTENDS BrowserLifecycle

\* docs/architecture.md:85, "Stopping Chrome does not delete a persistent profile. Deleting a
\* browser does": a browser whose deletion is complete has no Chrome left to write its profile.
DeletedHasNoChrome ==
    \A b \in Browsers : row[b] = "gone" /\ Quiet(b) => runtime[b] # "live"
===============================================================================

---------------------------- MODULE MCLifecycleOne ----------------------------
(* One browser, a worker to move it to, and every operation. *)
EXTENDS BrowserLifecycle
===============================================================================

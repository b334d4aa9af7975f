------------------------------ MODULE MCHosting ------------------------------
(***************************************************************************)
(* Where a browser runs and what it is made of, on small instances: a      *)
(* Chrome on a worker (Workers) or a person's own (Linked), the processes  *)
(* of one here (Launching), the saved profiles browsers are made from      *)
(* (Snapshots), and how an extension and a worker come by their            *)
(* credentials (Joining, pairing and enrolling apart).  They share no      *)
(* state, so a behaviour is of one of them, its focus.                     *)
(***************************************************************************)
EXTENDS Workers, Linked, Snapshots, Launching, Joining

CONSTANTS w1, w2, t1, s1, s2, b1, b2, p1, p2, o1, l1, l2, l3, j1, h1, h2

VARIABLE focus

all == <<workerVars, linkedVars, snapshotVars, launchVars, joiningVars, focus>>

HostingInit ==
    /\ focus \in {"workers", "linked", "snapshots", "launching", "pairing", "enrolling"}
    /\ WorkersInit /\ LinkedInit /\ SnapshotsInit /\ LaunchInit /\ JoiningInit
    /\ focus # "workers" => place = "main"

HostingNext ==
    /\ UNCHANGED focus
    /\ \/ focus = "workers"   /\ WorkersNext   /\ UNCHANGED <<linkedVars, snapshotVars, launchVars, joiningVars>>
       \/ focus = "linked"    /\ LinkedNext    /\ UNCHANGED <<workerVars, snapshotVars, launchVars, joiningVars>>
       \/ focus = "snapshots" /\ SnapshotsNext /\ UNCHANGED <<workerVars, linkedVars, launchVars, joiningVars>>
       \/ focus = "launching" /\ LaunchNext    /\ UNCHANGED <<workerVars, linkedVars, snapshotVars, joiningVars>>
       \/ focus = "pairing"   /\ PairingNext   /\ UNCHANGED <<workerVars, linkedVars, snapshotVars, launchVars>>
       \/ focus = "enrolling" /\ EnrolNext     /\ UNCHANGED <<workerVars, linkedVars, snapshotVars, launchVars>>

\* Connect and Poll are steps a component at rest could take, so they are fair in its focus only.
HostingSpec ==
    /\ HostingInit
    /\ [][HostingNext]_all
    /\ WorkersFairness /\ \A w \in WorkerHosts : WF_workerVars(focus = "workers" /\ Poll(w))
    /\ LinkedFairness /\ WF_linkedVars(focus = "linked" /\ Connect)
    /\ SnapshotsFairness
=============================================================================

---------------------------- MODULE Hosting_proofs ----------------------------
(***************************************************************************)
(* Proofs about what a browser runs on: its processes (Launching), saved   *)
(* profiles (Snapshots), how a device or a worker joins (Joining), linked  *)
(* browsers (Linked) and workers (Workers), for any number of launches,    *)
(* saves, polls, tabs, moves, faults and crashes.                          *)
(*                                                                         *)
(* Each part has an inductive invariant.  Of a display it has to say where *)
(* a Chrome that writes its profile out can be (told to end, or killed),   *)
(* and that whoever takes the display down knows its Chrome gone, killed,  *)
(* or never this browser's.                                                *)
(***************************************************************************)
EXTENDS Launching, Snapshots, Joining, Linked, Workers, TLAPS

LaunchInv ==
    /\ LaunchTypeOK
    /\ \A l \in flushing : process[l] \in {"told", "killed"}
    /\ work # "idle" => at \in Launches
    /\ work = "display" => process[at] = "none" /\ at # entry
    /\ work = "port" => process[at] \in {"booting", "dead"} /\ display[at] # "dead" /\ at # entry
    /\ work \in {"close", "wait", "kill"} => at = entry
    /\ work = "kill" => process[at] \in {"killed", "dead"}
    /\ entry # NoLaunch => /\ process[entry] \in {"up", "told", "killed", "dead"}
                           /\ display[entry] = "dead" => process[entry] \in {"killed", "dead"}
    /\ FlushedInItsDisplay

LEMMA LaunchInitially == LaunchInit => LaunchInv
  BY LaunchingAssumption DEF LaunchInit, LaunchInv, LaunchTypeOK, Alive, FlushedInItsDisplay

LEMMA LaunchStep == LaunchInv /\ [LaunchNext]_launchVars => LaunchInv'
<1>. SUFFICES ASSUME LaunchInv, [LaunchNext]_launchVars PROVE LaunchInv'
  OBVIOUS
<1>. USE LaunchingAssumption DEF LaunchInv, LaunchTypeOK, FlushedInItsDisplay, Alive, exited
<1>1. ASSUME NEW l \in Launches, LaunchBegins(l) PROVE LaunchInv'
  BY <1>1 DEF LaunchBegins
<1>2. CASE DisplayUp
  BY <1>2 DEF DisplayUp
<1>3. CASE DisplayLate
  BY <1>3 DEF DisplayLate
<1>4. CASE PortOpens
  BY <1>4 DEF PortOpens
<1>5. CASE PortLate
  BY <1>5 DEF PortLate, Told, Without
<1>6. CASE StopBegins
  BY <1>6 DEF StopBegins
<1>7. CASE CloseAnswered
  BY <1>7 DEF CloseAnswered
<1>8. CASE CloseFails
  BY <1>8 DEF CloseFails, Told
<1>9. CASE Deadline
  BY <1>9 DEF Deadline
<1>10. CASE Exited
  BY <1>10 DEF Exited
<1>11. CASE StopEnds
  BY <1>11 DEF StopEnds, Without
<1>12. CASE Reaps
  BY <1>12 DEF Reaps, Without
<1>13. ASSUME NEW l \in Launches, Crashes(l) \/ Obeys(l) PROVE LaunchInv'
  BY <1>13 DEF Crashes, Obeys, Ends
<1>14. ASSUME NEW l \in Launches, Hangs(l) PROVE LaunchInv'
  BY <1>14 DEF Hangs
<1>15. CASE UNCHANGED launchVars
  BY <1>15 DEF launchVars
<1>. QED BY <1>1, <1>2, <1>3, <1>4, <1>5, <1>6, <1>7, <1>8, <1>9, <1>10, <1>11, <1>12, <1>13, <1>14, <1>15 DEF LaunchNext

LEMMA LaunchInvariant == LaunchSpec => []LaunchInv
  BY LaunchInitially, LaunchStep, PTL DEF LaunchSpec

\* Processes, displays and what is under way keep their types.
THEOREM LaunchTypes == LaunchSpec => []LaunchTypeOK
<1>1. LaunchInv => LaunchTypeOK
  BY DEF LaunchInv
<1>. QED BY <1>1, LaunchInvariant, PTL

\* A Chrome that writes its profile out keeps its display until it is done or was killed.
THEOREM FlushesInItsDisplay == LaunchSpec => []FlushedInItsDisplay
<1>1. LaunchInv => FlushedInItsDisplay
  BY DEF LaunchInv
<1>. QED BY <1>1, LaunchInvariant, PTL

---------------------------------------------------------------------------
(* Saved profiles (Snapshots). *)

\* What the types are made of: the browsers, the saved profiles on disk, and who is at work.
Rows == [made: BOOLEAN, owner: {"admin", "agent"}, seed: Seeds \cup {Nobody}, up: BOOLEAN, sites: Sites]
SeedRows == [path: Paths \cup {0}, sites: Sites]
SaveRows == [stage: {"none", "stopping", "copying", "resuming", "clearing"}, seed: Seeds \cup {Nobody},
             previous: SeedRows, dest: Paths \cup {0}, resumes: BOOLEAN, saved: BOOLEAN]
Makings == [on: BOOLEAN, owner: {"admin", "agent"}, seed: Seeds \cup {Nobody}, from: Paths \cup {0}]
BrowsersOK == rows \in [Browsers -> Rows] /\ profiles \in [Browsers -> {"none", "partial", "whole"}]
SeedsOK == seeds \in [Seeds -> SeedRows] /\ disk \in [Paths -> {"unused", "partial", "whole", "gone"}]
JobsOK ==
    /\ creating \in [Browsers -> Makings] /\ saves \in [Browsers -> SaveRows]
    /\ dropped \subseteq Seeds \X Paths /\ cleaning \subseteq Seeds /\ exporting \subseteq Paths
    /\ exportActive \in BOOLEAN /\ shuttingDown \in BOOLEAN /\ breaks \in Nat

\* A saved profile names a whole directory, its own.
SeedsWhole == \A s \in Seeds : Saved(s) =>
    disk[seeds[s].path] = "whole" /\ \A r \in Seeds \ {s} : seeds[r].path # seeds[s].path
\* A copy is of the snapshot its profile names.
CopiesCurrent == \A b \in Browsers : creating[b].seed # Nobody =>
    creating[b].on /\ Saved(creating[b].seed) /\ creating[b].from = seeds[creating[b].seed].path
\* A save has its profile to itself and a directory of its own, half written until it is published.
SavesAlone == \A b \in Browsers : saves[b].stage # "none" =>
    /\ saves[b].seed \in Seeds /\ saves[b].dest \in Paths
    /\ \A c \in Browsers : creating[c].seed # saves[b].seed
    /\ \A c \in Browsers \ {b} : saves[c].seed # saves[b].seed
    /\ saves[b].stage \in {"stopping", "copying"} => ~saves[b].saved
SavesApart == \A b \in Browsers : saves[b].stage # "none" /\ ~saves[b].saved =>
    /\ seeds[saves[b].seed] = saves[b].previous /\ disk[saves[b].dest] = "partial"
    /\ \A c \in Browsers \ {b} : saves[c].stage # "none" /\ ~saves[c].saved => saves[c].dest # saves[b].dest
\* What is to be removed is nobody's any more.
Left(p) == disk[p] \in {"whole", "gone"} /\ \A r \in Seeds : seeds[r].path # p
LeavesNothing ==
    /\ \A b \in Browsers : saves[b].stage # "none" /\ saves[b].saved /\ saves[b].previous.path # 0 => Left(saves[b].previous.path)
    /\ \A job \in dropped : Left(job[2])
\* While an export runs nobody writes.
ExportsAlone ==
    /\ exporting # {} => exportActive
    /\ exportActive => NobodyWrites
    /\ \A d \in exporting : disk[d] = "whole"
IdleIsIdle == \A b \in Browsers : saves[b].stage = "none" => saves[b].seed = Nobody

SnapInv ==
    /\ BrowsersOK /\ SeedsOK /\ JobsOK
    /\ SeedsWhole /\ CopiesCurrent /\ SavesAlone /\ SavesApart /\ LeavesNothing /\ ExportsAlone /\ IdleIsIdle

Order == SeedsWhole /\ CopiesCurrent /\ SavesAlone /\ SavesApart /\ LeavesNothing /\ ExportsAlone /\ IdleIsIdle

LEMMA SnapParts ==
    /\ Paths \subseteq Nat \ {0} /\ 0 \notin Paths /\ Nobody \notin Seeds /\ Nobody \notin Browsers
    /\ NoRow \in Rows /\ NoSeed \in SeedRows /\ Idle \in SaveRows /\ NotMaking \in Makings
<1>1. /\ Paths \subseteq Nat \ {0} /\ 0 \notin Paths /\ Nobody \notin Seeds /\ Nobody \notin Browsers
  BY SnapshotsAssumption DEF Paths
<1>2. {} \in Sites
  BY DEF Sites
<1>3. NoSeed \in SeedRows
  BY <1>2 DEF NoSeed, SeedRows
<1>. QED BY <1>1, <1>2, <1>3 DEF NoRow, Rows, Idle, SaveRows, NotMaking, Makings

LEMMA SnapInitially == SnapshotsInit => SnapInv
<1>. SUFFICES ASSUME SnapshotsInit PROVE SnapInv
  OBVIOUS
<1>1. BrowsersOK /\ SeedsOK /\ JobsOK
  BY SnapParts DEF SnapshotsInit, BrowsersOK, SeedsOK, JobsOK
<1>2. SeedsWhole
  BY SnapParts DEF SnapshotsInit, SeedsWhole, Saved, NoSeed
<1>3. CopiesCurrent
  BY DEF SnapshotsInit, CopiesCurrent, NotMaking
<1>4. SavesAlone /\ SavesApart /\ IdleIsIdle
  BY DEF SnapshotsInit, SavesAlone, SavesApart, IdleIsIdle, Idle
<1>5. LeavesNothing /\ ExportsAlone
  BY DEF SnapshotsInit, LeavesNothing, ExportsAlone, Idle
<1>. QED BY <1>1, <1>2, <1>3, <1>4, <1>5 DEF SnapInv

\* What none of the order is about may change.
LEMMA OrderKept ==
    ASSUME Order, UNCHANGED <<seeds, disk, dropped, creating, saves, cleaning, exporting, exportActive>>
    PROVE  Order'
  BY DEF Order, SeedsWhole, CopiesCurrent, SavesAlone, SavesApart, LeavesNothing, Left, ExportsAlone, IdleIsIdle, NobodyWrites, Saved

LEMMA Sited ==
    ASSUME NEW S \in Sites, NEW o \in Origins, NEW claim \in Claims
    PROVE  /\ {site \in S : site[1] # o} \in Sites
           /\ ({site \in S : site[1] # o} \cup {<<o, claim>>}) \in Sites
           /\ Restored(S) \in Sites
  BY DEF Sites, Claims, Restored

LEMMA RowsStep ==
    ASSUME SnapInv, NEW b \in Browsers,
           \/ Starts(b)
           \/ \E o \in Origins : Removes(b, o) \/ \E claim \in Claims : Reports(b, o, claim)
    PROVE  SnapInv'
<1>1. UNCHANGED <<profiles, seeds, disk, dropped, creating, saves, cleaning, exporting, exportActive, shuttingDown, breaks>>
  BY DEF Starts, Removes, Reports
<1>2. BrowsersOK'
  <2>1. ASSUME Starts(b) PROVE BrowsersOK'
    BY <2>1 DEF Starts, SnapInv, BrowsersOK, Rows
  <2>2. ASSUME NEW o \in Origins, NEW claim \in Claims, Removes(b, o) \/ Reports(b, o, claim) PROVE BrowsersOK'
    <3>1. rows[b].sites \in Sites
      BY DEF SnapInv, BrowsersOK, Rows
    <3>2. \E S \in Sites : rows' = [rows EXCEPT ![b].sites = S]
      BY <2>2, <3>1, Sited DEF Removes, Reports, SnapInv, BrowsersOK
    <3>. QED BY <1>1, <3>2 DEF SnapInv, BrowsersOK, Rows
  <2>3. Claims # {}
    BY DEF Claims
  <2>. QED BY <2>1, <2>2, <2>3
<1>. QED BY <1>1, <1>2, OrderKept DEF SnapInv, Order, SeedsOK, JobsOK

LEMMA CreateStep ==
    ASSUME SnapInv, NEW b \in Browsers, NEW owner \in {"admin", "agent"}, NEW s \in Seeds \cup {Nobody}, Create(b, owner, s)
    PROVE  SnapInv'
<1>1. /\ ~creating[b].on /\ ~exportActive
      /\ s # Nobody => s \in Seeds /\ Saved(s) /\ s \notin savingSeeds
      /\ profiles' = [profiles EXCEPT ![b] = "partial"]
      /\ UNCHANGED <<rows, seeds, disk, dropped, saves, cleaning, exporting, exportActive, shuttingDown, breaks>>
  BY DEF Create, Fresh
<1>2. PICK m \in Makings :
         /\ m.on /\ m.seed = s /\ (s # Nobody => m.from = seeds[s].path)
         /\ creating' = [creating EXCEPT ![b] = m]
  <2>. DEFINE m == [on |-> TRUE, owner |-> owner, seed |-> s, from |-> IF s = Nobody THEN 0 ELSE seeds[s].path]
  <2>1. m \in Makings
    BY SnapParts DEF Makings, SnapInv, SeedsOK, SeedRows
  <2>2. creating' = [creating EXCEPT ![b] = m]
    BY DEF Create
  <2>. QED BY <2>1, <2>2
<1>3. BrowsersOK' /\ SeedsOK' /\ JobsOK'
  BY <1>1, <1>2 DEF SnapInv, BrowsersOK, SeedsOK, JobsOK
<1>4. \A c \in Browsers : creating'[c] = IF c = b THEN m ELSE creating[c]
  BY <1>2 DEF SnapInv, JobsOK
<1>5. CopiesCurrent'
  BY <1>1, <1>2, <1>4 DEF SnapInv, CopiesCurrent, Saved
<1>6. SavesAlone'
  BY <1>1, <1>2, <1>4, SnapParts DEF SnapInv, SavesAlone, savingSeeds
<1>7. SeedsWhole' /\ SavesApart' /\ LeavesNothing' /\ IdleIsIdle'
  BY <1>1 DEF SnapInv, SeedsWhole, Saved, SavesApart, LeavesNothing, Left, IdleIsIdle
<1>8. ExportsAlone'
  BY <1>1 DEF SnapInv, ExportsAlone
<1>. QED BY <1>3, <1>5, <1>6, <1>7, <1>8 DEF SnapInv

\* A creation is over, made or not.
LEMMA NotMakingStep ==
    ASSUME SnapInv, NEW b \in Browsers, creating' = [creating EXCEPT ![b] = NotMaking],
           UNCHANGED <<seeds, disk, dropped, saves, cleaning, exporting, exportActive>>
    PROVE  creating' \in [Browsers -> Makings] /\ Order'
<1>1. creating' \in [Browsers -> Makings] /\ \A c \in Browsers : creating'[c] = IF c = b THEN NotMaking ELSE creating[c]
  BY SnapParts DEF SnapInv, JobsOK
<1>2. NotMaking.seed = Nobody /\ ~NotMaking.on
  BY DEF NotMaking
<1>3. CopiesCurrent' /\ SavesAlone'
  BY <1>1, <1>2, SnapParts DEF SnapInv, CopiesCurrent, Saved, SavesAlone
<1>4. SeedsWhole' /\ SavesApart' /\ LeavesNothing' /\ IdleIsIdle'
  BY DEF SnapInv, SeedsWhole, Saved, SavesApart, LeavesNothing, Left, IdleIsIdle
<1>5. ExportsAlone'
  BY <1>1, <1>2 DEF SnapInv, ExportsAlone, NobodyWrites
<1>. QED BY <1>1, <1>3, <1>4, <1>5 DEF Order

LEMMA CreatedStep ==
    ASSUME SnapInv, NEW b \in Browsers, Created(b) \/ CreateFails(b)
    PROVE  SnapInv'
<1>1. creating' = [creating EXCEPT ![b] = NotMaking] /\ UNCHANGED <<seeds, disk, dropped, saves, cleaning, exporting, exportActive, shuttingDown>>
  BY DEF Created, CreateFails
<1>2. creating' \in [Browsers -> Makings] /\ Order'
  BY <1>1, NotMakingStep
<1>3. breaks' \in Nat
  BY DEF Created, CreateFails, SnapInv, JobsOK
<1>4. SeedsOK' /\ JobsOK'
  BY <1>1, <1>2, <1>3 DEF SnapInv, SeedsOK, JobsOK
<1>5. CASE Created(b)
  <2>. DEFINE S == IF creating[b].seed = Nobody THEN {} ELSE Restored(seeds[creating[b].seed].sites)
              row == [made |-> TRUE, owner |-> creating[b].owner, seed |-> creating[b].seed, up |-> FALSE, sites |-> S]
  <2>1. creating[b].owner \in {"admin", "agent"} /\ creating[b].seed \in Seeds \cup {Nobody}
    BY DEF SnapInv, JobsOK, Makings
  <2>2. S \in Sites
    <3>1. \A s \in Seeds : Restored(seeds[s].sites) \in Sites
      BY DEF SnapInv, SeedsOK, SeedRows, Restored, Sites, Claims
    <3>. QED BY <2>1, <3>1 DEF Sites
  <2>3. row \in Rows
    BY <2>1, <2>2 DEF Rows
  <2>4. rows' = [rows EXCEPT ![b] = row] /\ profiles' = [profiles EXCEPT ![b] = "whole"]
    BY <1>5 DEF Created
  <2>5. BrowsersOK'
    BY <2>3, <2>4 DEF SnapInv, BrowsersOK
  <2>. QED BY <1>2, <1>4, <2>5 DEF SnapInv, Order
<1>6. CASE CreateFails(b)
  <2>1. BrowsersOK'
    BY <1>6 DEF CreateFails, SnapInv, BrowsersOK
  <2>. QED BY <1>2, <1>4, <2>1 DEF SnapInv, Order
<1>. QED BY <1>5, <1>6

\* The rows of the saves but for one browser's stay.
LEMMA SaveRow ==
    ASSUME SnapInv, NEW b \in Browsers, NEW r \in SaveRows, saves' = [saves EXCEPT ![b] = r]
    PROVE  saves' \in [Browsers -> SaveRows] /\ \A c \in Browsers : saves'[c] = IF c = b THEN r ELSE saves[c]
  BY DEF SnapInv, JobsOK

LEMMA SaveBeginsStep ==
    ASSUME SnapInv, NEW b \in Browsers, NEW who, NEW s \in Seeds, NEW new \in BOOLEAN, SaveBegins(b, who, s, new)
    PROVE  SnapInv'
<1>1. /\ saves[b].stage = "none" /\ ~exportActive /\ s \notin savingSeeds
      /\ (new => ~Saved(s)) /\ (~new => s \notin cloningSeeds)
      /\ UNCHANGED <<rows, profiles, seeds, dropped, creating, cleaning, exporting, exportActive, shuttingDown, breaks>>
  BY DEF SaveBegins
<1>2. PICK d \in NextPath :
        /\ saves' = [saves EXCEPT ![b] = [stage |-> IF rows[b].up THEN "stopping" ELSE "copying", seed |-> s,
               previous |-> seeds[s], dest |-> d, resumes |-> rows[b].up, saved |-> FALSE]]
        /\ disk' = [disk EXCEPT ![d] = "partial"]
  BY DEF SaveBegins
<1>3. d \in Paths /\ disk[d] = "unused"
  BY DEF NextPath
<1>4. PICK r \in SaveRows :
        /\ r.stage \in {"stopping", "copying"} /\ r.seed = s /\ r.previous = seeds[s] /\ r.dest = d /\ ~r.saved
        /\ saves' = [saves EXCEPT ![b] = r]
  <2>. DEFINE r == [stage |-> IF rows[b].up THEN "stopping" ELSE "copying", seed |-> s,
                    previous |-> seeds[s], dest |-> d, resumes |-> rows[b].up, saved |-> FALSE]
  <2>1. rows[b].up \in BOOLEAN /\ seeds[s] \in SeedRows
    BY DEF SnapInv, BrowsersOK, Rows, SeedsOK
  <2>2. r \in SaveRows
    BY <1>3, <2>1 DEF SaveRows
  <2>. QED BY <1>2, <2>2
<1>5. saves' \in [Browsers -> SaveRows] /\ \A c \in Browsers : saves'[c] = IF c = b THEN r ELSE saves[c]
  BY <1>4, SaveRow
<1>6. disk' \in [Paths -> {"unused", "partial", "whole", "gone"}] /\ \A e \in Paths : disk'[e] = IF e = d THEN "partial" ELSE disk[e]
  BY <1>2, <1>3 DEF SnapInv, SeedsOK
<1>7. BrowsersOK' /\ SeedsOK' /\ JobsOK'
  BY <1>1, <1>5, <1>6 DEF SnapInv, BrowsersOK, SeedsOK, JobsOK
<1>8. \A c \in Browsers : creating[c].seed # s
  <2>1. CASE new
    BY <1>1, <2>1, SnapParts DEF SnapInv, CopiesCurrent
  <2>2. CASE ~new
    BY <1>1, <2>2, SnapParts DEF cloningSeeds
  <2>. QED BY <2>1, <2>2
<1>9. \A c \in Browsers : saves[c].seed # s
  BY <1>1, SnapParts DEF savingSeeds
<1>10. SavesAlone'
  BY <1>1, <1>3, <1>4, <1>5, <1>8, <1>9 DEF SnapInv, SavesAlone
<1>11. SavesApart'
  BY <1>1, <1>3, <1>4, <1>5, <1>6 DEF SnapInv, SavesApart, SavesAlone
<1>12. SeedsWhole'
  BY <1>1, <1>3, <1>6 DEF SnapInv, SeedsWhole, Saved, SeedsOK, SeedRows
<1>13. LeavesNothing'
  BY <1>1, <1>3, <1>4, <1>5, <1>6 DEF SnapInv, LeavesNothing, Left, JobsOK, SaveRows, SeedRows
<1>14. CopiesCurrent' /\ IdleIsIdle'
  BY <1>1, <1>4, <1>5 DEF SnapInv, CopiesCurrent, Saved, IdleIsIdle
<1>15. ExportsAlone'
  BY <1>1, <1>3, <1>6 DEF SnapInv, ExportsAlone, JobsOK
<1>. QED BY <1>7, <1>10, <1>11, <1>12, <1>13, <1>14, <1>15 DEF SnapInv

\* A save goes on, or fails: nothing of it but its stage changes.
LEMMA SaveGoesOn ==
    ASSUME SnapInv, NEW b \in Browsers, NEW stage \in {"copying", "resuming", "clearing"},
           saves[b].stage # "none", saves' = [saves EXCEPT ![b].stage = stage],
           saves[b].saved => stage # "copying",
           UNCHANGED <<seeds, disk, dropped, creating, cleaning, exporting, exportActive>>
    PROVE  saves' \in [Browsers -> SaveRows] /\ Order'
<1>1. PICK r \in SaveRows :
        /\ r.stage = stage /\ r.seed = saves[b].seed /\ r.previous = saves[b].previous /\ r.dest = saves[b].dest
        /\ r.saved = saves[b].saved /\ saves' = [saves EXCEPT ![b] = r]
  <2>. DEFINE r == [saves[b] EXCEPT !.stage = stage]
  <2>1. saves[b] \in SaveRows
    BY DEF SnapInv, JobsOK
  <2>2. r \in SaveRows /\ saves' = [saves EXCEPT ![b] = r]
    BY <2>1 DEF SaveRows, SnapInv, JobsOK
  <2>3. /\ r.stage = stage /\ r.seed = saves[b].seed /\ r.previous = saves[b].previous /\ r.dest = saves[b].dest
        /\ r.saved = saves[b].saved
    BY <2>1 DEF SaveRows
  <2>. QED BY <2>2, <2>3
<1>2. saves' \in [Browsers -> SaveRows] /\ \A c \in Browsers : saves'[c] = IF c = b THEN r ELSE saves[c]
  BY <1>1, SaveRow
<1>3. SavesAlone'
  BY <1>1, <1>2 DEF SnapInv, SavesAlone
<1>4. SavesApart'
  BY <1>1, <1>2 DEF SnapInv, SavesApart
<1>5. LeavesNothing' /\ IdleIsIdle'
  BY <1>1, <1>2 DEF SnapInv, LeavesNothing, Left, IdleIsIdle
<1>6. ExportsAlone'
  BY <1>1, <1>2 DEF SnapInv, ExportsAlone, NobodyWrites
<1>7. SeedsWhole' /\ CopiesCurrent'
  BY DEF SnapInv, SeedsWhole, Saved, CopiesCurrent
<1>. QED BY <1>2, <1>3, <1>4, <1>5, <1>6, <1>7 DEF Order

LEMMA SavesOnStep ==
    ASSUME SnapInv, NEW b \in Browsers, SaveStopped(b) \/ SaveFails(b) \/ SaveResumed(b)
    PROVE  SnapInv'
<1>1. PICK running \in BOOLEAN, stage \in {"copying", "resuming", "clearing"} :
        /\ rows' = [rows EXCEPT ![b].up = running] /\ saves' = [saves EXCEPT ![b].stage = stage]
        /\ saves[b].stage # "none" /\ (saves[b].saved => stage # "copying")
  <2>1. ASSUME SaveStopped(b) PROVE ~saves[b].saved
    BY <2>1 DEF SaveStopped, SnapInv, SavesAlone
  <2>. QED BY <2>1 DEF SaveStopped, SaveFails, SaveResumed, After
<1>2. /\ UNCHANGED <<profiles, seeds, disk, dropped, creating, cleaning, exporting, exportActive, shuttingDown>>
      /\ breaks' \in Nat
  BY DEF SaveStopped, SaveFails, SaveResumed, SnapInv, JobsOK
<1>3. saves' \in [Browsers -> SaveRows] /\ Order'
  BY <1>1, <1>2, SaveGoesOn
<1>4. BrowsersOK'
  BY <1>1, <1>2 DEF SnapInv, BrowsersOK, Rows
<1>5. SeedsOK' /\ JobsOK'
  BY <1>2, <1>3 DEF SnapInv, SeedsOK, JobsOK
<1>. QED BY <1>3, <1>4, <1>5 DEF SnapInv, Order

LEMMA PublishesStep ==
    ASSUME SnapInv, NEW b \in Browsers, Publishes(b)
    PROVE  SnapInv'
<1>1. PICK s \in Seeds, d \in Paths :
        /\ s = saves[b].seed /\ d = saves[b].dest /\ disk[d] = "partial" /\ seeds[s] = saves[b].previous
        /\ saves[b].stage = "copying" /\ ~saves[b].saved
  BY DEF Publishes, SnapInv, SavesAlone, SavesApart
<1>2. /\ disk' = [disk EXCEPT ![d] = "whole"]
      /\ seeds' = [seeds EXCEPT ![s] = [path |-> d, sites |-> rows[b].sites]]
      /\ rows' = [rows EXCEPT ![b].seed = s]
      /\ UNCHANGED <<profiles, dropped, creating, cleaning, exporting, exportActive, shuttingDown, breaks>>
  BY <1>1 DEF Publishes
<1>3. PICK r \in SaveRows :
        /\ r.stage \in {"resuming", "clearing"} /\ r.seed = s /\ r.previous = saves[b].previous /\ r.dest = d /\ r.saved
        /\ saves' = [saves EXCEPT ![b] = r]
  <2>. DEFINE r == [saves[b] EXCEPT !.saved = TRUE, !.stage = After(saves[b])]
  <2>1. saves[b] \in SaveRows /\ After(saves[b]) \in {"resuming", "clearing"}
    BY DEF SnapInv, JobsOK, After
  <2>2. saves' = [saves EXCEPT ![b] = r]
    BY <2>1 DEF Publishes, SnapInv, JobsOK
  <2>3. r \in SaveRows
    BY <2>1 DEF SaveRows
  <2>4. r.stage \in {"resuming", "clearing"} /\ r.seed = s /\ r.previous = saves[b].previous /\ r.dest = d /\ r.saved
    BY <1>1, <2>1 DEF SaveRows
  <2>. QED BY <2>2, <2>3, <2>4
<1>4. saves' \in [Browsers -> SaveRows] /\ \A c \in Browsers : saves'[c] = IF c = b THEN r ELSE saves[c]
  BY <1>3, SaveRow
<1>5. PICK q \in SeedRows : q.path = d /\ seeds' = [seeds EXCEPT ![s] = q]
  <2>1. [path |-> d, sites |-> rows[b].sites] \in SeedRows
    BY DEF SeedRows, SnapInv, BrowsersOK, Rows
  <2>. QED BY <1>2, <2>1
<1>6. seeds' \in [Seeds -> SeedRows] /\ \A x \in Seeds : seeds'[x] = IF x = s THEN q ELSE seeds[x]
  BY <1>5 DEF SnapInv, SeedsOK
<1>7. disk' \in [Paths -> {"unused", "partial", "whole", "gone"}] /\ \A e \in Paths : disk'[e] = IF e = d THEN "whole" ELSE disk[e]
  BY <1>2 DEF SnapInv, SeedsOK
<1>8. BrowsersOK' /\ SeedsOK' /\ JobsOK'
  <2>1. BrowsersOK'
    BY <1>2 DEF SnapInv, BrowsersOK, Rows
  <2>. QED BY <1>2, <1>4, <1>6, <1>7, <2>1 DEF SnapInv, SeedsOK, JobsOK
<1>9. \A x \in Seeds : seeds[x].path # d
  BY <1>1, SnapParts DEF SnapInv, SeedsWhole, Saved
<1>10. SeedsWhole'
  BY <1>5, <1>6, <1>7, <1>9, SnapParts DEF SnapInv, SeedsWhole, Saved, SeedsOK, SeedRows
<1>11. CopiesCurrent'
  BY <1>1, <1>2, <1>6 DEF SnapInv, CopiesCurrent, Saved, SavesAlone, JobsOK, Makings
<1>12. SavesAlone' /\ IdleIsIdle'
  BY <1>1, <1>2, <1>3, <1>4 DEF SnapInv, SavesAlone, IdleIsIdle
<1>13. SavesApart'
  BY <1>1, <1>3, <1>4, <1>6, <1>7 DEF SnapInv, SavesApart, SavesAlone
<1>14. LeavesNothing'
  <2>. DEFINE LeftThen(p) == disk'[p] \in {"whole", "gone"} /\ \A x \in Seeds : seeds'[x].path # p
  <2>1. ASSUME NEW p \in Paths, Left(p) PROVE LeftThen(p)
    BY <1>1, <1>5, <1>6, <1>7, <2>1 DEF Left
  <2>2. ASSUME NEW p \in Paths, p = seeds[s].path PROVE LeftThen(p)
    <3>1. p # 0 /\ p # d
      BY <1>9, <2>2, SnapParts
    <3>2. disk[p] = "whole" /\ \A x \in Seeds \ {s} : seeds[x].path # p
      BY <2>2, <3>1 DEF SnapInv, SeedsWhole, Saved
    <3>. QED BY <1>5, <1>6, <1>7, <3>1, <3>2 DEF Left
  <2>3. \A c \in Browsers : saves[c].previous.path \in Paths \cup {0}
    BY DEF SnapInv, JobsOK, SaveRows, SeedRows
  <2>. HIDE DEF LeftThen
  <2>4. ASSUME NEW c \in Browsers, saves'[c].stage # "none", saves'[c].saved, saves'[c].previous.path # 0
        PROVE  LeftThen(saves'[c].previous.path)
    <3>1. PICK p \in Paths : p = saves'[c].previous.path
      BY <1>3, <1>4, <2>3, <2>4
    <3>2. CASE c = b
      BY <1>1, <1>3, <1>4, <2>2, <3>1, <3>2
    <3>3. CASE c # b
      BY <1>4, <2>1, <2>4, <3>1, <3>3 DEF SnapInv, LeavesNothing
    <3>. QED BY <3>2, <3>3
  <2>5. \A job \in dropped : LeftThen(job[2])
    BY <2>1 DEF SnapInv, LeavesNothing, JobsOK
  <2>. QED BY <1>2, <2>4, <2>5 DEF LeavesNothing, Left, LeftThen
<1>15. ExportsAlone'
  BY <1>1, <1>2, <1>3, <1>4, <1>7 DEF SnapInv, ExportsAlone, NobodyWrites, JobsOK
<1>. QED BY <1>8, <1>10, <1>11, <1>12, <1>13, <1>14, <1>15 DEF SnapInv

\* Directories nobody names are removed.
LEMMA Removal ==
    ASSUME SnapInv, ~exportActive, NEW D, disk' = [d \in Paths |-> IF d \in D THEN "gone" ELSE disk[d]],
           UNCHANGED seeds, \A d \in D : \A s \in Seeds : seeds[s].path # d
    PROVE  /\ SeedsOK' /\ SeedsWhole'
           /\ \A p \in Paths : Left(p) => Left(p)'
<1>1. SeedsOK'
  BY DEF SnapInv, SeedsOK
<1>2. SeedsWhole'
  BY DEF SnapInv, SeedsWhole, Saved, SeedsOK, SeedRows
<1>3. ASSUME NEW p \in Paths, Left(p) PROVE disk'[p] \in {"whole", "gone"} /\ \A s \in Seeds : seeds'[s].path # p
  BY <1>3 DEF Left
<1>. QED BY <1>1, <1>2, <1>3 DEF Left

LEMMA SaveEndsStep ==
    ASSUME SnapInv, NEW b \in Browsers, SaveEnds(b)
    PROVE  SnapInv'
<1>. DEFINE D == Superseded(saves[b])
<1>1. /\ saves[b].stage = "clearing" /\ disk' = [d \in Paths |-> IF d \in D THEN "gone" ELSE disk[d]]
      /\ saves' = [saves EXCEPT ![b] = Idle]
      /\ UNCHANGED <<rows, profiles, seeds, dropped, creating, cleaning, exporting, exportActive, shuttingDown, breaks>>
  BY DEF SaveEnds
<1>2. ~exportActive
  BY <1>1 DEF SnapInv, ExportsAlone, NobodyWrites
<1>3. \A d \in D : \A s \in Seeds : seeds[s].path # d
  <2>1. CASE saves[b].saved
    BY <1>1, <2>1 DEF Superseded, SnapInv, LeavesNothing, Left
  <2>2. CASE ~saves[b].saved
    <3>1. D = {saves[b].dest} /\ disk[saves[b].dest] = "partial" /\ saves[b].dest # 0
      BY <1>1, <2>2, SnapParts DEF Superseded, SnapInv, SavesAlone, SavesApart
    <3>. QED BY <3>1 DEF SnapInv, SeedsWhole, Saved
  <2>. QED BY <2>1, <2>2
<1>4. \A c \in Browsers \ {b} : saves[c].stage # "none" /\ ~saves[c].saved => saves[c].dest \notin D
  <2>1. CASE saves[b].saved
    BY <1>1, <2>1 DEF Superseded, SnapInv, LeavesNothing, Left, SavesApart
  <2>2. CASE ~saves[b].saved
    BY <1>1, <2>2 DEF Superseded, SnapInv, SavesApart
  <2>. QED BY <2>1, <2>2
<1>. HIDE DEF D
<1>5. SeedsOK' /\ SeedsWhole' /\ \A p \in Paths : Left(p) => disk'[p] \in {"whole", "gone"} /\ \A s \in Seeds : seeds'[s].path # p
  BY <1>1, <1>2, <1>3, Removal DEF Left
<1>6. saves' \in [Browsers -> SaveRows] /\ \A c \in Browsers : saves'[c] = IF c = b THEN Idle ELSE saves[c]
  BY <1>1, SaveRow, SnapParts
<1>7. Idle.stage = "none" /\ Idle.seed = Nobody
  BY DEF Idle
<1>8. SavesAlone' /\ IdleIsIdle'
  BY <1>1, <1>6, <1>7, SnapParts DEF SnapInv, SavesAlone, IdleIsIdle
<1>9. SavesApart'
  <2>1. \A c \in Browsers \ {b} : saves[c].stage # "none" /\ ~saves[c].saved => disk'[saves[c].dest] = "partial"
    BY <1>1, <1>4 DEF SnapInv, SavesApart, SavesAlone
  <2>. QED BY <1>1, <1>6, <1>7, <2>1 DEF SnapInv, SavesApart
<1>10. LeavesNothing'
  <2>1. \A c \in Browsers : saves[c].previous.path \in Paths \cup {0}
    BY DEF SnapInv, JobsOK, SaveRows, SeedRows
  <2>. QED BY <1>1, <1>5, <1>6, <1>7, <2>1 DEF SnapInv, LeavesNothing, Left, JobsOK
<1>11. CopiesCurrent' /\ ExportsAlone'
  BY <1>1, <1>2 DEF SnapInv, CopiesCurrent, Saved, ExportsAlone
<1>12. BrowsersOK' /\ JobsOK'
  BY <1>1, <1>6 DEF SnapInv, BrowsersOK, JobsOK
<1>. QED BY <1>5, <1>8, <1>9, <1>10, <1>11, <1>12 DEF SnapInv

LEMMA EditStep ==
    ASSUME SnapInv, NEW s \in Seeds, NEW o \in Origins, EditSite(s, o)
    PROVE  SnapInv'
<1>1. /\ s \notin savingSeeds
      /\ UNCHANGED <<rows, profiles, disk, dropped, creating, saves, cleaning, exporting, exportActive, shuttingDown, breaks>>
  BY DEF EditSite, Editable
<1>2. PICK q \in SeedRows : q.path = seeds[s].path /\ seeds' = [seeds EXCEPT ![s] = q]
  <2>1. seeds[s] \in SeedRows /\ seeds[s].sites \in Sites /\ seeds[s].path \in Paths \cup {0}
    BY DEF SnapInv, SeedsOK, SeedRows
  <2>2. PICK S \in Sites : seeds' = [seeds EXCEPT ![s].sites = S]
    <3>1. CASE \E claim \in Claims : seeds' = [seeds EXCEPT ![s].sites = {site \in @ : site[1] # o} \cup {<<o, claim>>}]
      <4>1. PICK claim \in Claims :
              seeds' = [seeds EXCEPT ![s].sites = {site \in seeds[s].sites : site[1] # o} \cup {<<o, claim>>}]
        BY <3>1 DEF SnapInv, SeedsOK
      <4>. QED BY <2>1, <4>1, Sited
    <3>2. CASE seeds' = [seeds EXCEPT ![s].sites = {site \in @ : site[1] # o}]
      <4>1. Claims # {} /\ seeds' = [seeds EXCEPT ![s].sites = {site \in seeds[s].sites : site[1] # o}]
        BY <3>2 DEF SnapInv, SeedsOK, Claims
      <4>. QED BY <2>1, <4>1, Sited
    <3>. QED BY <3>1, <3>2 DEF EditSite
  <2>. DEFINE q == [seeds[s] EXCEPT !.sites = S]
  <2>3. q \in SeedRows /\ q.path = seeds[s].path
    BY <2>1 DEF SeedRows
  <2>4. seeds' = [seeds EXCEPT ![s] = q]
    BY <2>2 DEF SnapInv, SeedsOK
  <2>. QED BY <2>3, <2>4
<1>3. seeds' \in [Seeds -> SeedRows] /\ (\A x \in Seeds \ {s} : seeds'[x] = seeds[x]) /\ \A x \in Seeds : seeds'[x].path = seeds[x].path
  BY <1>2 DEF SnapInv, SeedsOK
<1>4. \A c \in Browsers : saves[c].seed # s
  BY <1>1, SnapParts DEF savingSeeds
<1>5. SeedsWhole' /\ CopiesCurrent' /\ LeavesNothing'
  BY <1>1, <1>3, SnapParts DEF SnapInv, SeedsWhole, CopiesCurrent, Saved, LeavesNothing, Left, JobsOK, Makings
<1>6. SavesApart'
  BY <1>1, <1>3, <1>4 DEF SnapInv, SavesApart, SavesAlone
<1>7. SavesAlone' /\ ExportsAlone' /\ IdleIsIdle'
  BY <1>1 DEF SnapInv, SavesAlone, ExportsAlone, NobodyWrites, IdleIsIdle
<1>. QED BY <1>1, <1>3, <1>5, <1>6, <1>7 DEF SnapInv, BrowsersOK, SeedsOK, JobsOK

LEMMA DeleteStep ==
    ASSUME SnapInv, NEW s \in Seeds, DeleteSeed(s)
    PROVE  SnapInv'
<1>1. /\ ~exportActive /\ Saved(s) /\ s \notin savingSeeds /\ s \notin cloningSeeds
      /\ dropped' = dropped \cup {<<s, seeds[s].path>>} /\ seeds' = [seeds EXCEPT ![s] = NoSeed]
      /\ rows' = [b \in Browsers |-> IF rows[b].seed = s THEN [rows[b] EXCEPT !.seed = Nobody] ELSE rows[b]]
      /\ UNCHANGED <<profiles, disk, creating, saves, cleaning, exporting, exportActive, shuttingDown, breaks>>
  BY DEF DeleteSeed, Editable
<1>2. seeds' \in [Seeds -> SeedRows] /\ (\A x \in Seeds : seeds'[x] = IF x = s THEN NoSeed ELSE seeds[x]) /\ NoSeed.path = 0
  BY <1>1, SnapParts DEF SnapInv, SeedsOK, NoSeed
<1>3. \A c \in Browsers : saves[c].seed # s /\ creating[c].seed # s
  BY <1>1, SnapParts DEF savingSeeds, cloningSeeds
<1>4. seeds[s].path \in Paths
  BY <1>1 DEF SnapInv, SeedsOK, SeedRows, Saved
<1>5. BrowsersOK'
  BY <1>1 DEF SnapInv, BrowsersOK, Rows
<1>6. SeedsOK' /\ JobsOK'
  BY <1>1, <1>2, <1>4 DEF SnapInv, SeedsOK, JobsOK
<1>7. SeedsWhole'
  BY <1>1, <1>2 DEF SnapInv, SeedsWhole, Saved
<1>8. CopiesCurrent' /\ SavesApart'
  BY <1>1, <1>2, <1>3 DEF SnapInv, CopiesCurrent, Saved, SavesApart, SavesAlone, JobsOK, Makings
<1>9. LeavesNothing'
  <2>. DEFINE LeftThen(p) == disk[p] \in {"whole", "gone"} /\ \A x \in Seeds : seeds'[x].path # p
  <2>1. \A p \in Paths : Left(p) => LeftThen(p)
    BY <1>2, SnapParts DEF Left
  <2>2. LeftThen(seeds[s].path)
    BY <1>1, <1>2, <1>4, SnapParts DEF SnapInv, SeedsWhole, Saved
  <2>. HIDE DEF LeftThen
  <2>3. \A c \in Browsers : saves[c].previous.path \in Paths \cup {0}
    BY DEF SnapInv, JobsOK, SaveRows, SeedRows
  <2>4. \A c \in Browsers : saves[c].stage # "none" /\ saves[c].saved /\ saves[c].previous.path # 0 => LeftThen(saves[c].previous.path)
    BY <2>1, <2>3 DEF SnapInv, LeavesNothing
  <2>5. \A job \in dropped' : LeftThen(job[2])
    BY <1>1, <2>1, <2>2 DEF SnapInv, LeavesNothing, JobsOK
  <2>. QED BY <1>1, <2>4, <2>5 DEF LeavesNothing, Left, LeftThen
<1>10. SavesAlone' /\ ExportsAlone' /\ IdleIsIdle'
  BY <1>1 DEF SnapInv, SavesAlone, ExportsAlone, NobodyWrites, IdleIsIdle
<1>. QED BY <1>5, <1>6, <1>7, <1>8, <1>9, <1>10 DEF SnapInv

LEMMA CleanupStep ==
    ASSUME SnapInv, NEW s \in Seeds, Cleanup(s) \/ CleanupEnds(s) \/ CleanupFails(s)
    PROVE  SnapInv'
<1>1. /\ ~exportActive /\ cleaning' \subseteq Seeds /\ breaks' \in Nat
      /\ UNCHANGED <<rows, profiles, seeds, creating, saves, exporting, exportActive, shuttingDown>>
  BY DEF Cleanup, CleanupEnds, CleanupFails, SnapInv, JobsOK, ExportsAlone, NobodyWrites
<1>2. BrowsersOK' /\ CopiesCurrent' /\ SavesAlone' /\ IdleIsIdle'
  BY <1>1 DEF SnapInv, BrowsersOK, CopiesCurrent, Saved, SavesAlone, IdleIsIdle
<1>3. ExportsAlone'
  BY <1>1 DEF SnapInv, ExportsAlone
<1>4. CASE UNCHANGED <<disk, dropped>>
  BY <1>1, <1>2, <1>3, <1>4 DEF SnapInv, SeedsOK, JobsOK, SeedsWhole, Saved, SavesApart, LeavesNothing, Left
<1>5. CASE CleanupEnds(s)
  <2>. DEFINE D == {d \in Paths : <<s, d>> \in dropped}
  <2>1. disk' = [d \in Paths |-> IF d \in D THEN "gone" ELSE disk[d]] /\ dropped' = {job \in dropped : job[1] # s}
    BY <1>5 DEF CleanupEnds
  <2>2. \A d \in D : Left(d)
    BY DEF SnapInv, LeavesNothing
  <2>. HIDE DEF D
  <2>3. SeedsOK' /\ SeedsWhole' /\ \A p \in Paths : Left(p) => disk'[p] \in {"whole", "gone"} /\ \A x \in Seeds : seeds'[x].path # p
    BY <1>1, <2>1, <2>2, Removal DEF Left
  <2>4. SavesApart'
    <3>1. \A c \in Browsers : saves[c].stage # "none" /\ ~saves[c].saved => disk'[saves[c].dest] = "partial"
      BY <2>1, <2>2 DEF SnapInv, SavesApart, SavesAlone, Left
    <3>. QED BY <1>1, <3>1 DEF SnapInv, SavesApart
  <2>5. LeavesNothing'
    <3>1. \A c \in Browsers : saves[c].previous.path \in Paths \cup {0}
      BY DEF SnapInv, JobsOK, SaveRows, SeedRows
    <3>. QED BY <1>1, <2>1, <2>3, <3>1 DEF SnapInv, LeavesNothing, Left, JobsOK
  <2>. QED BY <1>1, <1>2, <1>3, <2>1, <2>3, <2>4, <2>5 DEF SnapInv, JobsOK
<1>. QED BY <1>4, <1>5 DEF Cleanup, CleanupFails

LEMMA DownOK ==
    ASSUME BrowsersOK PROVE [b \in Browsers |-> [rows[b] EXCEPT !.up = FALSE]] \in [Browsers -> Rows]
  BY DEF BrowsersOK, Rows

LEMMA ExportStep ==
    ASSUME SnapInv, ExportBegins \/ ExportEnds \/ ShutdownBegins
    PROVE  SnapInv'
<1>1. UNCHANGED <<profiles, seeds, disk, dropped, creating, saves, cleaning>> /\ breaks' \in Nat
  BY DEF ExportBegins, ExportEnds, ShutdownBegins, SnapInv, JobsOK
<1>2. BrowsersOK'
  <2>1. CASE ExportBegins
    BY <1>1, <2>1, DownOK DEF ExportBegins, SnapInv, BrowsersOK
  <2>2. CASE UNCHANGED rows
    BY <1>1, <2>2 DEF SnapInv, BrowsersOK
  <2>. QED BY <2>1, <2>2 DEF ExportEnds, ShutdownBegins
<1>3. ExportsAlone' /\ exporting' \subseteq Paths /\ exportActive' \in BOOLEAN /\ shuttingDown' \in BOOLEAN
  <2>1. CASE ExportBegins
    <3>1. \A s \in Seeds : seeds[s].path # 0 => seeds[s].path \in Paths /\ disk[seeds[s].path] = "whole"
      BY DEF SnapInv, SeedsWhole, Saved, SeedsOK, SeedRows
    <3>. QED BY <1>1, <2>1, <3>1 DEF ExportBegins, ExportsAlone, NobodyWrites, SnapInv, JobsOK
  <2>2. CASE ExportEnds
    BY <1>1, <2>2 DEF ExportEnds, ExportsAlone, NobodyWrites, SnapInv, JobsOK
  <2>3. CASE ShutdownBegins
    BY <1>1, <2>3 DEF ShutdownBegins, ExportsAlone, NobodyWrites, SnapInv, JobsOK
  <2>. QED BY <2>1, <2>2, <2>3
<1>4. SeedsWhole' /\ CopiesCurrent' /\ SavesAlone' /\ SavesApart' /\ LeavesNothing' /\ IdleIsIdle'
  BY <1>1 DEF SnapInv, SeedsWhole, Saved, CopiesCurrent, SavesAlone, SavesApart, LeavesNothing, Left, IdleIsIdle
<1>. QED BY <1>1, <1>2, <1>3, <1>4 DEF SnapInv, SeedsOK, JobsOK

LEMMA RestartStep == SnapInv /\ Restarts => SnapInv'
<1>. SUFFICES ASSUME SnapInv, Restarts PROVE SnapInv'
  OBVIOUS
<1>1. /\ creating' = [b \in Browsers |-> NotMaking] /\ saves' = [b \in Browsers |-> Idle]
      /\ cleaning' = {} /\ exporting' = {} /\ exportActive' = FALSE /\ shuttingDown' = FALSE
      /\ UNCHANGED <<profiles, seeds, disk, dropped>>
  BY DEF Restarts
<1>2. BrowsersOK' /\ breaks' \in Nat
  <2>1. rows' = [b \in Browsers |-> [rows[b] EXCEPT !.up = FALSE]] /\ breaks' \in {breaks, breaks + 1} /\ UNCHANGED profiles
    BY DEF Restarts
  <2>. QED BY <2>1, DownOK DEF SnapInv, BrowsersOK, JobsOK
<1>3. NotMaking.seed = Nobody /\ Idle.stage = "none" /\ Idle.seed = Nobody
  BY DEF NotMaking, Idle
<1>4. CopiesCurrent' /\ SavesAlone' /\ SavesApart' /\ IdleIsIdle'
  BY <1>1, <1>3 DEF CopiesCurrent, SavesAlone, SavesApart, IdleIsIdle
<1>5. SeedsWhole' /\ LeavesNothing' /\ ExportsAlone'
  BY <1>1, <1>3 DEF SnapInv, SeedsWhole, Saved, LeavesNothing, Left, ExportsAlone
<1>. QED BY <1>1, <1>2, <1>4, <1>5, SnapParts DEF SnapInv, SeedsOK, JobsOK

LEMMA SnapStep == SnapInv /\ [SnapshotsNext]_snapshotVars => SnapInv'
<1>. SUFFICES ASSUME SnapInv, [SnapshotsNext]_snapshotVars PROVE SnapInv'
  OBVIOUS
<1>1. CASE UNCHANGED snapshotVars
  BY <1>1, OrderKept DEF snapshotVars, SnapInv, Order, BrowsersOK, SeedsOK, JobsOK
<1>2. ASSUME NEW b \in Browsers,
             \/ \E owner \in {"admin", "agent"}, s \in Seeds \cup {Nobody} : Create(b, owner, s)
             \/ Created(b) \/ CreateFails(b)
      PROVE  SnapInv'
  BY <1>2, CreateStep, CreatedStep
<1>3. ASSUME NEW b \in Browsers,
             Starts(b) \/ \E o \in Origins : Removes(b, o) \/ \E claim \in Claims : Reports(b, o, claim)
      PROVE  SnapInv'
  BY <1>3, RowsStep
<1>4. ASSUME NEW b \in Browsers,
             \/ \E who \in {"admin", "agent"}, s \in Seeds, new \in BOOLEAN : SaveBegins(b, who, s, new)
             \/ SaveStopped(b) \/ Publishes(b) \/ SaveFails(b) \/ SaveResumed(b) \/ SaveEnds(b)
      PROVE  SnapInv'
  BY <1>4, SaveBeginsStep, SavesOnStep, PublishesStep, SaveEndsStep
<1>5. ASSUME NEW s \in Seeds,
             (\E o \in Origins : EditSite(s, o)) \/ DeleteSeed(s) \/ Cleanup(s) \/ CleanupEnds(s) \/ CleanupFails(s)
      PROVE  SnapInv'
  BY <1>5, EditStep, DeleteStep, CleanupStep
<1>. QED BY <1>1, <1>2, <1>3, <1>4, <1>5, ExportStep, RestartStep DEF SnapshotsNext

LEMMA SnapInvariant == SnapshotsSpec => []SnapInv
  BY SnapInitially, SnapStep, PTL DEF SnapshotsSpec

\* Browsers, saved profiles, their directories and the work on them keep their types.
THEOREM SnapshotTypes == SnapshotsSpec => []SnapshotsTypeOK
<1>1. SnapInv => SnapshotsTypeOK
  BY DEF SnapInv, BrowsersOK, Rows, SeedsOK, SeedRows, JobsOK, SnapshotsTypeOK
<1>. QED BY <1>1, SnapInvariant, PTL

\* A saved profile names a whole directory of its own, a copy reads the one whose sites it gets, an
\* export finds what it lists, and a save replaces what it found.
THEOREM SnapshotsStanding == SnapshotsSpec => []SnapshotsStand
<1>1. SnapInv => SnapshotsStand
  BY DEF SnapInv, SeedsWhole, CopiesCurrent, SavesApart, ExportsAlone, SnapshotsStand
<1>. QED BY <1>1, SnapInvariant, PTL

---------------------------------------------------------------------------
(* Coming by a credential (Joining). *)

Verdicts == {"none", "pending", "approved", "denied", "claimed", "expired"}
PairingRows == [state: {"none", "pending", "approved", "denied", "claimed"}, live: BOOLEAN, revoked: BOOLEAN, token: 0..MaxPolls]
Names == Pairings \cup {NoName}
Conns == [of: Names, token: 0..MaxPolls]
PollRows == [of: Names, stage: {"none", "asked", "answered"}, says: Verdicts, token: 0..MaxPolls]
HostRows == [told: JoinTokens \cup {NoName}, saved: JoinTokens \cup {NoName}, at: {"down", "hello", "join", "up", "fatal"},
             tries: Nat, says: {"none", "joined", "refused", "ok"}]

\* What the types are made of: what is paired, and who joined.
PairingOK ==
    /\ pairing \in [Pairings -> PairingRows] /\ minted \in 0..MaxPolls
    /\ ext \in [pairing: Names, conn: Conns, keptPairing: Names, keptConn: Conns]
    /\ timer \in BOOLEAN /\ polls \in [PollSlots -> PollRows]
EnrolOK ==
    /\ joinToken \in [JoinTokens -> {"none", "fresh", "used", "expired"}]
    /\ member \in [JoinTokens -> Processes \cup {NoName}] /\ removed \subseteq JoinTokens
    /\ host \in [Processes -> HostRows]

\* A token that was handed out, to the extension or into an answer, is that of a pairing claimed with it.
Claimed(of, token) == of \in Pairings /\ pairing[of].state = "claimed" /\ pairing[of].token = token
HandedOut ==
    /\ \A conn \in {ext.conn, ext.keptConn} : conn # NoConn => Claimed(conn.of, conn.token)
    /\ \A i \in PollSlots :
         /\ polls[i].stage = "asked" => polls[i].of \in Pairings
         /\ polls[i].stage = "answered" =>
              /\ polls[i].says \in {"pending", "approved", "denied", "expired"}
              /\ polls[i].says = "approved" => Claimed(polls[i].of, polls[i].token)
    /\ \A p \in Pairings : pairing[p].live => pairing[p].state # "none"

\* Who joined, or is told so, is the one its token names, and that token is used.
MembersOnce ==
    /\ \A j \in JoinTokens : member[j] # NoName => joinToken[j] = "used"
    /\ \A h \in Processes :
         /\ host[h].saved # NoName => host[h].saved \in JoinTokens /\ member[host[h].saved] = h
         /\ host[h].says = "joined" => host[h].told \in JoinTokens /\ member[host[h].told] = h
         /\ host[h].at \in {"join", "hello"} => host[h].told \in JoinTokens /\ host[h].tries > 0

JoinInv == PairingOK /\ EnrolOK /\ HandedOut /\ MembersOnce

LEMMA JoinParts ==
    /\ NoName \notin Pairings /\ NoName \notin JoinTokens /\ NoName \notin Processes /\ NoName \in Names
    /\ NoConn \in Conns /\ NoPoll \in PollRows /\ NoPoll.stage = "none" /\ NoConn.of = NoName /\ 0 \in 0..MaxPolls
  BY JoiningAssumption DEF Names, NoConn, Conns, NoPoll, PollRows, Verdicts

LEMMA JoinInitially == JoiningInit => JoinInv
<1>. SUFFICES ASSUME JoiningInit PROVE JoinInv
  OBVIOUS
<1>1. PairingOK
  BY JoinParts DEF JoiningInit, PairingOK, PairingRows
<1>2. EnrolOK
  BY DEF JoiningInit, EnrolOK, HostRows
<1>3. HandedOut
  BY JoinParts DEF JoiningInit, HandedOut
<1>4. MembersOnce
  BY DEF JoiningInit, MembersOnce
<1>. QED BY <1>1, <1>2, <1>3, <1>4 DEF JoinInv

\* What pairing leaves alone.
LEMMA EnrolKept ==
    ASSUME JoinInv, UNCHANGED enrolVars PROVE EnrolOK' /\ MembersOnce'
  BY DEF enrolVars, JoinInv, EnrolOK, MembersOnce
LEMMA PairingKept ==
    ASSUME JoinInv, UNCHANGED pairingVars PROVE PairingOK' /\ HandedOut'
  BY DEF pairingVars, JoinInv, PairingOK, HandedOut, Claimed

\* A row that is claimed stays so, whatever else becomes of it.
LEMMA ClaimsStay ==
    ASSUME JoinInv, NEW p \in Pairings, NEW row \in PairingRows, pairing' = [pairing EXCEPT ![p] = row],
           pairing[p].state = "claimed" => row.state = "claimed" /\ row.token = pairing[p].token,
           row.live => row.state # "none",
           UNCHANGED <<ext, polls>>
    PROVE  pairing' \in [Pairings -> PairingRows] /\ HandedOut'
<1>1. \A of, token : Claimed(of, token) => of \in Pairings /\ pairing'[of].state = "claimed" /\ pairing'[of].token = token
  BY DEF Claimed, JoinInv, PairingOK
<1>2. HandedOut'
  BY <1>1 DEF JoinInv, HandedOut, Claimed
<1>. QED BY <1>2 DEF JoinInv, PairingOK

LEMMA RowStep ==
    ASSUME JoinInv, NEW p \in Pairings, StartPairing(p) \/ Lapses(p) \/ Decides(p) \/ RevokesLink(p)
    PROVE  JoinInv'
<1>. DEFINE row == pairing[p]
<1>1. row \in PairingRows /\ UNCHANGED <<polls, minted, enrolVars>>
  BY DEF JoinInv, PairingOK, StartPairing, Lapses, Decides, RevokesLink
<1>2. EnrolOK' /\ MembersOnce'
  BY <1>1, EnrolKept
<1>3. CASE StartPairing(p)
  <2>1. /\ row.state = "none" /\ pairing' = [pairing EXCEPT ![p].state = "pending", ![p].live = TRUE]
        /\ ext' = [ext EXCEPT !.pairing = p, !.keptPairing = p] /\ timer' = TRUE
    BY <1>3 DEF StartPairing
  <2>2. pairing' \in [Pairings -> PairingRows]
    BY <2>1 DEF JoinInv, PairingOK, PairingRows
  <2>3. ext' \in [pairing: Names, conn: Conns, keptPairing: Names, keptConn: Conns] /\ ext'.conn = ext.conn /\ ext'.keptConn = ext.keptConn
    BY <2>1 DEF JoinInv, PairingOK, Names
  <2>4. \A of, token : Claimed(of, token) => of \in Pairings /\ pairing'[of].state = "claimed" /\ pairing'[of].token = token
    BY <2>1 DEF Claimed, JoinInv, PairingOK, PairingRows
  <2>5. \A q \in Pairings : pairing'[q].live => pairing'[q].state # "none"
    BY <2>1 DEF JoinInv, PairingOK, PairingRows, HandedOut
  <2>6. HandedOut'
    BY <1>1, <2>3, <2>4, <2>5 DEF JoinInv, HandedOut, Claimed
  <2>. QED BY <1>1, <1>2, <2>1, <2>2, <2>3, <2>6 DEF JoinInv, PairingOK
<1>4. CASE Lapses(p) \/ Decides(p) \/ RevokesLink(p)
  <2>1. UNCHANGED <<ext, timer>>
    BY <1>4 DEF Lapses, Decides, RevokesLink
  <2>2. PICK r \in PairingRows : /\ pairing' = [pairing EXCEPT ![p] = r]
                                 /\ row.state = "claimed" => r.state = "claimed" /\ r.token = row.token
                                 /\ r.live => r.state # "none"
    <3>1. CASE Lapses(p)
      <4>. DEFINE r == [row EXCEPT !.live = FALSE]
      <4>1. r \in PairingRows /\ r.state = row.state /\ r.token = row.token /\ ~r.live
        BY <1>1 DEF PairingRows
      <4>. QED BY <3>1, <4>1 DEF Lapses, JoinInv, PairingOK
    <3>2. CASE Decides(p)
      <4>1. PICK verdict \in {"approved", "denied"} : row.state = "pending" /\ pairing' = [pairing EXCEPT ![p].state = verdict]
        BY <3>2 DEF Decides
      <4>. DEFINE r == [row EXCEPT !.state = verdict]
      <4>2. r \in PairingRows /\ r.state = verdict
        BY <1>1 DEF PairingRows
      <4>. QED BY <4>1, <4>2 DEF JoinInv, PairingOK
    <3>3. CASE RevokesLink(p)
      <4>. DEFINE r == [row EXCEPT !.revoked = TRUE]
      <4>1. r \in PairingRows /\ r.state = row.state /\ r.token = row.token /\ row.state # "none"
        BY <1>1, <3>3 DEF PairingRows, RevokesLink
      <4>. QED BY <3>3, <4>1 DEF RevokesLink, JoinInv, PairingOK
    <3>. QED BY <1>4, <3>1, <3>2, <3>3
  <2>3. pairing' \in [Pairings -> PairingRows] /\ HandedOut'
    BY <1>1, <2>1, <2>2, ClaimsStay
  <2>. QED BY <1>1, <1>2, <2>1, <2>3 DEF JoinInv, PairingOK
<1>. QED BY <1>3, <1>4

\* Only the extension's own state changes, and what it keeps it had or was just given.
LEMMA ExtStep ==
    ASSUME JoinInv, UNCHANGED <<pairing, minted>>,
           ext' \in [pairing: Names, conn: Conns, keptPairing: Names, keptConn: Conns],
           \A conn \in {ext'.conn, ext'.keptConn} : conn # NoConn => Claimed(conn.of, conn.token),
           polls' \in [PollSlots -> PollRows],
           \A i \in PollSlots : polls'[i] = polls[i] \/ polls'[i].stage = "none" \/ (polls'[i].stage = "asked" /\ polls'[i].of \in Pairings),
           timer' \in BOOLEAN
    PROVE  PairingOK' /\ HandedOut'
  BY DEF JoinInv, PairingOK, HandedOut, Claimed

LEMMA PollStep ==
    ASSUME JoinInv, NEW i \in PollSlots, PollFires(i) \/ AnswersPoll(i) \/ PollLost(i) \/ HearsPoll(i)
    PROVE  JoinInv'
<1>1. UNCHANGED enrolVars
  BY DEF PollFires, AnswersPoll, PollLost, HearsPoll
<1>2. EnrolOK' /\ MembersOnce'
  BY <1>1, EnrolKept
<1>3. \A conn \in {ext.conn, ext.keptConn} : conn # NoConn => Claimed(conn.of, conn.token)
  BY DEF JoinInv, HandedOut
<1>4. CASE PollFires(i)
  <2>1. /\ ext.pairing \in Pairings /\ timer' = FALSE /\ UNCHANGED <<pairing, ext, minted>>
        /\ polls' = [polls EXCEPT ![i] = [NoPoll EXCEPT !.of = ext.pairing, !.stage = "asked"]]
    BY <1>4 DEF PollFires, JoinInv, PairingOK, Names
  <2>. DEFINE r == [NoPoll EXCEPT !.of = ext.pairing, !.stage = "asked"]
  <2>2. r \in PollRows /\ r.stage = "asked" /\ r.of = ext.pairing
    BY <2>1, JoinParts DEF PollRows, Names
  <2>. HIDE DEF r
  <2>3. polls' \in [PollSlots -> PollRows] /\ \A k \in PollSlots : polls'[k] = IF k = i THEN r ELSE polls[k]
    BY <2>1, <2>2 DEF JoinInv, PairingOK, r
  <2>4. PairingOK' /\ HandedOut'
    BY <1>3, <2>1, <2>2, <2>3, ExtStep DEF JoinInv, PairingOK
  <2>. QED BY <1>2, <2>4 DEF JoinInv
<1>5. CASE PollLost(i)
  <2>1. polls' = [polls EXCEPT ![i] = NoPoll] /\ timer' \in BOOLEAN /\ UNCHANGED <<pairing, ext, minted>>
    BY <1>5 DEF PollLost, JoinInv, PairingOK
  <2>2. PairingOK' /\ HandedOut'
    BY <1>3, <2>1, JoinParts, ExtStep DEF JoinInv, PairingOK
  <2>. QED BY <1>2, <2>2 DEF JoinInv
<1>6. CASE HearsPoll(i)
  <2>1. polls[i].stage = "answered" /\ polls' = [polls EXCEPT ![i] = NoPoll] /\ UNCHANGED <<pairing, minted>>
    BY <1>6 DEF HearsPoll
  <2>2. polls' \in [PollSlots -> PollRows] /\ \A k \in PollSlots : polls'[k] = polls[k] \/ polls'[k].stage = "none"
    BY <2>1, JoinParts DEF JoinInv, PairingOK
  <2>3. CASE polls[i].says = "approved" /\ ext.pairing # NoName
    <3>. DEFINE c == [of |-> polls[i].of, token |-> polls[i].token]
    <3>1. ext' = [ext EXCEPT !.conn = c, !.pairing = NoName] /\ UNCHANGED timer
      BY <1>6, <2>3 DEF HearsPoll
    <3>2. c \in Conns /\ Claimed(c.of, c.token)
      BY <2>1, <2>3 DEF JoinInv, PairingOK, PollRows, Conns, HandedOut
    <3>. HIDE DEF c
    <3>3. /\ ext' \in [pairing: Names, conn: Conns, keptPairing: Names, keptConn: Conns]
          /\ ext'.conn = c /\ ext'.keptConn = ext.keptConn
      BY <3>1, <3>2, JoinParts DEF JoinInv, PairingOK
    <3>4. PairingOK' /\ HandedOut'
      BY <1>3, <2>1, <2>2, <3>1, <3>2, <3>3, ExtStep DEF JoinInv, PairingOK
    <3>. QED BY <1>2, <3>4 DEF JoinInv
  <2>4. CASE ~(polls[i].says = "approved" /\ ext.pairing # NoName)
    <3>1. polls[i].says \in {"approved", "denied", "expired", "pending"}
      BY <2>1 DEF JoinInv, HandedOut
    <3>2. timer' \in BOOLEAN /\ ext' \in {ext, [ext EXCEPT !.pairing = NoName, !.keptPairing = NoName]}
      BY <1>6, <2>4, <3>1 DEF HearsPoll, PairingOver, JoinInv, PairingOK
    <3>3. /\ ext' \in [pairing: Names, conn: Conns, keptPairing: Names, keptConn: Conns]
          /\ ext'.conn = ext.conn /\ ext'.keptConn = ext.keptConn
      BY <3>2, JoinParts DEF JoinInv, PairingOK
    <3>4. PairingOK' /\ HandedOut'
      BY <1>3, <2>1, <2>2, <3>2, <3>3, ExtStep
    <3>. QED BY <1>2, <3>4 DEF JoinInv
  <2>. QED BY <2>3, <2>4
<1>7. CASE AnswersPoll(i)
  <2>. DEFINE p == polls[i].of
              t == minted + 1
  <2>1. /\ polls[i].stage = "asked" /\ p \in Pairings /\ t \in 0..MaxPolls /\ t \in Nat
        /\ UNCHANGED <<ext, timer>>
    BY <1>7, JoiningAssumption DEF AnswersPoll, JoinInv, PairingOK, HandedOut
  <2>2. CASE Mints(p)
    <3>1. /\ minted' = t /\ pairing' = [pairing EXCEPT ![p].state = "claimed", ![p].token = t]
          /\ polls' = [polls EXCEPT ![i].stage = "answered", ![i].says = "approved", ![i].token = t]
      BY <1>7, <2>2 DEF AnswersPoll
    <3>2. PICK q \in Pairings : q = p /\ pairing[q].state = "approved"
      BY <2>1, <2>2 DEF Mints
    <3>3. /\ pairing' \in [Pairings -> PairingRows] /\ pairing'[q].state = "claimed" /\ pairing'[q].token = t
          /\ \A x \in Pairings \ {q} : pairing'[x] = pairing[x]
      BY <2>1, <3>1, <3>2 DEF JoinInv, PairingOK, PairingRows
    <3>4. /\ polls' \in [PollSlots -> PollRows]
          /\ polls'[i].stage = "answered" /\ polls'[i].says = "approved" /\ polls'[i].token = t /\ polls'[i].of = q
          /\ \A k \in PollSlots \ {i} : polls'[k] = polls[k]
      BY <2>1, <3>1, <3>2 DEF JoinInv, PairingOK, PollRows, Verdicts
    <3>. HIDE DEF p, t
    <3>5. \A of, token : Claimed(of, token) => of \in Pairings /\ pairing'[of].state = "claimed" /\ pairing'[of].token = token
      BY <3>2, <3>3 DEF Claimed
    <3>6. HandedOut'
      BY <2>1, <3>3, <3>4, <3>5 DEF JoinInv, HandedOut, Claimed
    <3>. QED BY <1>2, <2>1, <3>1, <3>3, <3>4, <3>6 DEF JoinInv, PairingOK
  <2>3. CASE ~Mints(p)
    <3>1. UNCHANGED <<minted, pairing>> /\ polls' = [polls EXCEPT ![i].stage = "answered", ![i].says = Verdict(p)]
      BY <1>7, <2>3 DEF AnswersPoll
    <3>2. Verdict(p) \in {"pending", "denied", "expired"}
      BY <2>1, <2>3 DEF Verdict, Mints, JoinInv, HandedOut, PairingOK, PairingRows
    <3>3. /\ polls' \in [PollSlots -> PollRows]
          /\ polls'[i].stage = "answered" /\ polls'[i].says \in {"pending", "denied", "expired"}
          /\ \A k \in PollSlots \ {i} : polls'[k] = polls[k]
      BY <3>1, <3>2 DEF JoinInv, PairingOK, PollRows, Verdicts
    <3>4. HandedOut'
      BY <2>1, <3>1, <3>3 DEF JoinInv, HandedOut, Claimed
    <3>. QED BY <1>2, <2>1, <3>1, <3>3, <3>4 DEF JoinInv, PairingOK
  <2>. QED BY <2>2, <2>3
<1>. QED BY <1>4, <1>5, <1>6, <1>7

LEMMA OwnStep ==
    ASSUME JoinInv, CodeExpires \/ Alarm \/ Stores \/ DropsPairing \/ CancelPairing \/ Wakes \/ Unpairs
    PROVE  JoinInv'
<1>. DEFINE Exts == [pairing: Names, conn: Conns, keptPairing: Names, keptConn: Conns]
<1>1. UNCHANGED <<pairing, minted, enrolVars>>
  BY DEF CodeExpires, Alarm, Stores, DropsPairing, CancelPairing, Wakes, Unpairs, PairingOver
<1>2. EnrolOK' /\ MembersOnce'
  BY <1>1, EnrolKept
<1>3. ext \in Exts /\ timer \in BOOLEAN /\ polls \in [PollSlots -> PollRows]
  BY DEF JoinInv, PairingOK
<1>4. polls' \in [PollSlots -> PollRows] /\ \A i \in PollSlots : polls'[i] = polls[i] \/ polls'[i].stage = "none"
  BY <1>3, JoinParts DEF CodeExpires, Alarm, Stores, DropsPairing, CancelPairing, Wakes, Unpairs, PairingOver
<1>5. timer' \in BOOLEAN
  BY <1>3 DEF CodeExpires, Alarm, Stores, DropsPairing, CancelPairing, Wakes, Unpairs, PairingOver
<1>6. ext' \in Exts /\ {ext'.conn, ext'.keptConn} \subseteq {ext.conn, ext.keptConn, NoConn}
  <2>1. CASE CodeExpires \/ CancelPairing
    BY <1>3, <2>1, JoinParts DEF CodeExpires, CancelPairing, PairingOver
  <2>2. CASE Alarm
    BY <1>3, <2>2 DEF Alarm
  <2>3. CASE Stores
    BY <1>3, <2>3 DEF Stores
  <2>4. CASE DropsPairing
    BY <1>3, <2>4, JoinParts DEF DropsPairing
  <2>5. CASE Wakes
    BY <1>3, <2>5 DEF Wakes
  <2>6. CASE Unpairs
    BY <1>3, <2>6, JoinParts DEF Unpairs
  <2>. QED BY <2>1, <2>2, <2>3, <2>4, <2>5, <2>6
<1>7. \A conn \in {ext'.conn, ext'.keptConn} : conn # NoConn => Claimed(conn.of, conn.token)
  BY <1>6 DEF JoinInv, HandedOut
<1>8. PairingOK' /\ HandedOut'
  BY <1>1, <1>4, <1>5, <1>6, <1>7, ExtStep
<1>. QED BY <1>2, <1>8 DEF JoinInv

LEMMA TokenStep ==
    ASSUME JoinInv, NEW j \in JoinTokens, CreateJoinToken(j) \/ TokenExpires(j) \/ RemoveWorker(j)
    PROVE  JoinInv'
<1>1. UNCHANGED <<member, host, pairingVars>> /\ PairingOK' /\ HandedOut'
  BY PairingKept DEF CreateJoinToken, TokenExpires, RemoveWorker
<1>2. EnrolOK'
  BY <1>1 DEF CreateJoinToken, TokenExpires, RemoveWorker, JoinInv, EnrolOK
<1>3. \A k \in JoinTokens : joinToken[k] = "used" => joinToken'[k] = "used"
  BY DEF CreateJoinToken, TokenExpires, RemoveWorker, JoinInv, EnrolOK
<1>4. MembersOnce'
  BY <1>1, <1>3 DEF JoinInv, MembersOnce
<1>. QED BY <1>1, <1>2, <1>4 DEF JoinInv

\* One process changes, and no token changes hands.
LEMMA HostStep ==
    ASSUME JoinInv, NEW h \in Processes, host' \in [Processes -> HostRows],
           \A g \in Processes \ {h} : host'[g] = host[g],
           UNCHANGED <<joinToken, member, removed, pairingVars>>,
           host'[h].saved # NoName => host'[h].saved \in JoinTokens /\ member[host'[h].saved] = h,
           host'[h].says # "joined",
           host'[h].at \in {"join", "hello"} => host'[h].told \in JoinTokens /\ host'[h].tries > 0
    PROVE  JoinInv'
<1>1. PairingOK' /\ HandedOut'
  BY PairingKept
<1>2. EnrolOK' /\ MembersOnce'
  BY DEF JoinInv, EnrolOK, MembersOnce
<1>. QED BY <1>1, <1>2 DEF JoinInv

LEMMA EnrolStep ==
    ASSUME JoinInv, NEW h \in Processes,
           (\E j \in JoinTokens : Boots(h, j)) \/ HelloAnswered(h) \/ CallLost(h) \/ Enrols(h) \/ HostDies(h)
    PROVE  JoinInv'
<1>1. UNCHANGED <<joinToken, member, removed, pairingVars>> /\ host[h] \in HostRows
  BY DEF Boots, HelloAnswered, CallLost, Enrols, HostDies, JoinInv, EnrolOK
<1>2. /\ host[h].saved # NoName => host[h].saved \in JoinTokens /\ member[host[h].saved] = h
      /\ host[h].says = "joined" => host[h].told \in JoinTokens /\ member[host[h].told] = h
      /\ host[h].at \in {"join", "hello"} => host[h].told \in JoinTokens /\ host[h].tries > 0
  BY DEF JoinInv, MembersOnce
<1>3. \A g \in Processes \ {h} : host'[g] = host[g]
  BY DEF Boots, HelloAnswered, CallLost, Enrols, HostDies, JoinInv, EnrolOK
<1>4. ASSUME NEW j \in JoinTokens, Boots(h, j) PROVE JoinInv'
  <2>. DEFINE r == [told |-> j, saved |-> host[h].saved, at |-> IF host[h].saved = j THEN "hello" ELSE "join",
                    tries |-> IF host[h].saved = j THEN 3 ELSE 5, says |-> "none"]
  <2>1. r \in HostRows /\ r.tries > 0 /\ r.told = j /\ r.saved = host[h].saved /\ r.says = "none"
    BY <1>1 DEF HostRows
  <2>2. host' = [host EXCEPT ![h] = r]
    BY <1>1, <1>4 DEF Boots, JoinInv, EnrolOK, HostRows
  <2>. HIDE DEF r
  <2>3. host' \in [Processes -> HostRows] /\ host'[h] = r
    BY <2>1, <2>2 DEF JoinInv, EnrolOK
  <2>. QED BY <1>1, <1>2, <1>3, <2>1, <2>3, HostStep
<1>5. CASE HelloAnswered(h)
  <2>1. /\ host' \in [Processes -> HostRows] /\ host'[h].says # "joined" /\ host'[h].saved = host[h].saved
        /\ host'[h].told = host[h].told /\ host'[h].tries = host[h].tries /\ host'[h].at = host[h].at
    BY <1>1, <1>5 DEF HelloAnswered, JoinInv, EnrolOK, HostRows
  <2>. QED BY <1>1, <1>2, <1>3, <2>1, HostStep
<1>6. CASE CallLost(h)
  <2>1. host[h].tries \in Nat /\ host[h].tries > 0 /\ host[h].tries - 1 \in Nat /\ (host[h].tries > 1 => host[h].tries - 1 > 0)
    BY <1>1, <1>2, <1>6 DEF CallLost, HostRows
  <2>2. /\ host' \in [Processes -> HostRows] /\ host'[h].says = "none" /\ host'[h].saved = host[h].saved
        /\ host'[h].told = host[h].told
    BY <1>1, <1>6, <2>1 DEF CallLost, JoinInv, EnrolOK, HostRows
  <2>3. host'[h].at \in {"join", "hello"} => host[h].at \in {"join", "hello"} /\ host'[h].tries > 0
    BY <1>1, <1>6, <2>1 DEF CallLost, JoinInv, EnrolOK, HostRows
  <2>. QED BY <1>1, <1>2, <1>3, <2>2, <2>3, HostStep
<1>7. CASE Enrols(h)
  <2>1. /\ host' \in [Processes -> HostRows] /\ host'[h].says = "none" /\ host'[h].at \in {"fatal", "up"}
        /\ host'[h].saved = IF host[h].says = "joined" THEN host[h].told ELSE host[h].saved
    BY <1>1, <1>7 DEF Enrols, JoinInv, EnrolOK, HostRows
  <2>. QED BY <1>1, <1>2, <1>3, <2>1, HostStep
<1>8. CASE HostDies(h)
  <2>1. /\ host' \in [Processes -> HostRows] /\ host'[h].says = "none" /\ host'[h].at = "down" /\ host'[h].saved = host[h].saved
    BY <1>1, <1>8 DEF HostDies, JoinInv, EnrolOK, HostRows
  <2>. QED BY <1>1, <1>2, <1>3, <2>1, HostStep
<1>. QED BY <1>4, <1>5, <1>6, <1>7, <1>8

LEMMA JoinStep ==
    ASSUME JoinInv, NEW h \in Processes, JoinAnswered(h)
    PROVE  JoinInv'
<1>. DEFINE j == host[h].told
<1>1. host[h].at = "join" /\ j \in JoinTokens /\ host[h] \in HostRows /\ UNCHANGED <<removed, pairingVars>>
  BY DEF JoinAnswered, JoinInv, MembersOnce, EnrolOK
<1>2. PairingOK' /\ HandedOut'
  BY <1>1, PairingKept
<1>3. /\ host' \in [Processes -> HostRows] /\ host'[h].told = j /\ host'[h].saved = host[h].saved /\ host'[h].at = "join"
      /\ host'[h].tries = host[h].tries /\ \A g \in Processes \ {h} : host'[g] = host[g]
  BY <1>1 DEF JoinAnswered, JoinInv, EnrolOK, HostRows
<1>4. CASE joinToken[j] = "fresh" /\ joinToken' = [joinToken EXCEPT ![j] = "used"] /\ member' = [member EXCEPT ![j] = h]
  <2>1. PICK k \in JoinTokens : k = j
    BY <1>1
  <2>2. EnrolOK'
    BY <1>1, <1>3, <1>4 DEF JoinInv, EnrolOK
  <2>3. /\ joinToken'[k] = "used" /\ member'[k] = h /\ member[k] = NoName
        /\ \A x \in JoinTokens \ {k} : joinToken'[x] = joinToken[x] /\ member'[x] = member[x]
    BY <1>4, <2>1 DEF JoinInv, EnrolOK, MembersOnce
  <2>. HIDE DEF j
  <2>4. MembersOnce'
    BY <1>1, <1>3, <2>1, <2>3, JoinParts DEF JoinInv, MembersOnce
  <2>. QED BY <1>2, <2>2, <2>4 DEF JoinInv
<1>5. CASE host' = [host EXCEPT ![h].says = "refused"] /\ UNCHANGED <<joinToken, member>>
  <2>1. host'[h].says = "refused"
    BY <1>5 DEF JoinInv, EnrolOK, HostRows
  <2>. HIDE DEF j
  <2>2. MembersOnce'
    BY <1>1, <1>3, <1>5, <2>1 DEF JoinInv, MembersOnce, j
  <2>. QED BY <1>1, <1>2, <1>3, <1>5, <2>2 DEF JoinInv, EnrolOK
<1>. QED BY <1>4, <1>5 DEF JoinAnswered

LEMMA JoiningStep == JoinInv /\ [PairingNext \/ EnrolNext]_joiningVars => JoinInv'
<1>. SUFFICES ASSUME JoinInv, [PairingNext \/ EnrolNext]_joiningVars PROVE JoinInv'
  OBVIOUS
<1>1. CASE UNCHANGED joiningVars
  BY <1>1, EnrolKept, PairingKept DEF joiningVars, enrolVars, pairingVars, JoinInv
<1>2. CASE PairingNext
  BY <1>2, RowStep, PollStep, OwnStep DEF PairingNext
<1>3. CASE EnrolNext
  BY <1>3, TokenStep, EnrolStep, JoinStep DEF EnrolNext
<1>. QED BY <1>1, <1>2, <1>3

LEMMA JoiningInvariant == JoiningSpec => []JoinInv
  BY JoinInitially, JoiningStep, PTL DEF JoiningSpec

\* Pairings, polls, tokens and worker processes keep their types.
THEOREM JoiningTypes == JoiningSpec => []JoiningTypeOK
<1>1. JoinInv => JoiningTypeOK
  BY DEF JoinInv, PairingOK, EnrolOK, PairingRows, Conns, Names, HostRows, JoiningTypeOK
<1>. QED BY <1>1, JoiningInvariant, PTL

\* What an extension holds is the token the server last minted for its pairing, and a worker's
\* identity is kept by one process only.
THEOREM CredentialsWork == JoiningSpec => []KeptCredentialWorks
<1>1. JoinInv => KeptCredentialWorks
  BY DEF JoinInv, HandedOut, Claimed, MembersOnce, KeptCredentialWorks
<1>. QED BY <1>1, JoiningInvariant, PTL

---------------------------------------------------------------------------
(* The tabs of a linked browser (Linked). *)

LinkTypes ==
    /\ paired \in BOOLEAN /\ phase \in {"unpaired", "connecting", "online", "offline"}
    /\ ws \in Sockets \cup {NoSocket} /\ shared \subseteq Tabs /\ leaving \subseteq Tabs
    /\ asked \subseteq [t : Tabs, by : Sharers] /\ release \in {"none", "armed", "past"}
    /\ unpairing \in BOOLEAN /\ detaching \subseteq Tabs /\ stray \subseteq Tabs
WireTypes ==
    /\ end \in [Sockets -> {"closed", "dialing", "open"}] /\ far \in [Sockets -> {"closed", "fresh", "ready"}]
    /\ up \in [Sockets -> Seq(UpKinds)] /\ down \in [Sockets -> Seq(DownKinds)]
ServerTypes ==
    /\ current \in Sockets \cup {NoSocket} /\ mirror \subseteq Tabs /\ revoked \in BOOLEAN
    /\ serving \in {"off", "on", "stopping"} /\ stopping \in Sockets \cup {NoSocket}
    /\ drops \in 0..MaxDrops /\ sleeps \in 0..MaxSleeps

\* Only the extension's current socket is not closed at its end, and only the server's is ready at the other.
BothEnds ==
    /\ \A s \in Sockets : /\ end[s] # "closed" => ws = s
                          /\ end[s] = "dialing" => far[s] = "closed"
                          /\ far[s] = "ready" <=> s = current
                          /\ far[s] = "fresh" => up[s] # <<>> /\ up[s][1].k = "hello"
                          /\ far[s] # "closed" => \A i \in 1..Len(up[s]) : up[s][i].k = "hello" => i = 1 /\ far[s] = "fresh"

\* What the server takes for shared once it has heard the messages q, of a tab: the last that is about it decides.
About(m, t) == m.k = "hello" \/ (m.k \in {"shared", "unshared"} /\ m.t = t)
Affirms(m, t) == (m.k = "hello" /\ t \in m.tabs) \/ (m.k = "shared" /\ m.t = t)
Learns(base, q, t) ==
    \/ \E i \in 1..Len(q) : Affirms(q[i], t) /\ \A j \in 1..Len(q) : j > i => ~About(q[j], t)
    \/ t \in base /\ \A j \in 1..Len(q) : ~About(q[j], t)

\* On a socket both ends have open, the server will know of each tab what is so, but for one that is just handed back.
WillKnow ==
    ws # NoSocket /\ end[ws] = "open" /\ far[ws] # "closed" =>
        \A t \in Tabs \ leaving : Learns(mirror, up[ws], t) <=> t \in shared

LinkInv == LinkTypes /\ WireTypes /\ ServerTypes /\ BothEnds /\ leaving \cap shared = {} /\ WillKnow

LEMMA Fetched ==
    ASSUME NEW S, NEW q \in Seq(S)
    PROVE  /\ Len(q) \in Nat /\ (q = <<>> <=> Len(q) = 0) /\ <<>> \in Seq(S) /\ Len(<<>>) = 0
           /\ \A i \in 1..Len(q) : q[i] \in S
           /\ \A m \in S : /\ Append(q, m) \in Seq(S) /\ <<m>> \in Seq(S) /\ Len(Append(q, m)) = Len(q) + 1 /\ Append(q, m)[Len(q) + 1] = m
                           /\ \A i \in 1..Len(q) : Append(q, m)[i] = q[i]
           /\ q # <<>> => /\ Tail(q) \in Seq(S) /\ Head(q) = q[1] /\ q[1] \in S /\ Len(Tail(q)) = Len(q) - 1
                          /\ \A i \in 1..Len(q) - 1 : Tail(q)[i] = q[i + 1]
  OBVIOUS

\* One more message, and one message heard.
LEMMA LearnsMore ==
    ASSUME NEW S, NEW q \in Seq(S), NEW m \in S, NEW base, NEW t
    PROVE  Learns(base, Append(q, m), t) <=> (IF About(m, t) THEN Affirms(m, t) ELSE Learns(base, q, t))
<1>. DEFINE r == Append(q, m)
            n == Len(q)
<1>1. /\ n \in Nat /\ Len(r) = n + 1 /\ r[n + 1] = m
      /\ \A i \in 1..n : r[i] = q[i]
  BY Fetched
<1>2. 1..Len(r) = (1..n) \cup {n + 1} /\ n + 1 \notin 1..n
  BY <1>1
<1>3. Affirms(m, t) => About(m, t)
  BY DEF Affirms, About
<1>. HIDE DEF r, n
<1>4. CASE About(m, t)
  <2>1. (\A j \in 1..Len(r) : ~About(r[j], t)) = FALSE
    BY <1>1, <1>2, <1>4
  <2>2. \A i \in 1..n : ~\A j \in 1..Len(r) : j > i => ~About(r[j], t)
    BY <1>1, <1>2, <1>4
  <2>3. \A j \in 1..Len(r) : ~(j > n + 1)
    BY <1>1, <1>2
  <2>. QED BY <1>1, <1>2, <1>4, <2>1, <2>2, <2>3 DEF Learns, r
<1>5. CASE ~About(m, t)
  <2>1. ~Affirms(r[n + 1], t)
    BY <1>1, <1>3, <1>5
  <2>2. \A i \in 1..n : (\A j \in 1..Len(r) : j > i => ~About(r[j], t)) <=> (\A j \in 1..n : j > i => ~About(q[j], t))
    BY <1>1, <1>2, <1>5
  <2>3. (\A j \in 1..Len(r) : ~About(r[j], t)) <=> (\A j \in 1..n : ~About(q[j], t))
    BY <1>1, <1>2, <1>5
  <2>4. (\E i \in 1..Len(r) : Affirms(r[i], t) /\ \A j \in 1..Len(r) : j > i => ~About(r[j], t))
        <=> (\E i \in 1..n : Affirms(q[i], t) /\ \A j \in 1..n : j > i => ~About(q[j], t))
    BY <1>1, <1>2, <2>1, <2>2
  <2>. QED BY <1>5, <2>3, <2>4 DEF Learns, r, n
<1>. QED BY <1>4, <1>5

LEMMA LearnsHead ==
    ASSUME NEW S, NEW q \in Seq(S), q # <<>>, NEW base, NEW then, NEW t,
           t \in then <=> (IF About(q[1], t) THEN Affirms(q[1], t) ELSE t \in base)
    PROVE  Learns(then, Tail(q), t) <=> Learns(base, q, t)
<1>. DEFINE r == Tail(q)
            n == Len(q)
<1>1. /\ n \in Nat \ {0} /\ Len(r) = n - 1
      /\ \A i \in 1..n - 1 : r[i] = q[i + 1]
  BY Fetched
<1>2. Affirms(q[1], t) => About(q[1], t)
  BY DEF Affirms, About
<1>. HIDE DEF r, n
<1>3. (\A j \in 1..Len(r) : ~About(r[j], t)) <=> (\A j \in 1..n : j > 1 => ~About(q[j], t))
  <2>1. ASSUME NEW j \in 1..n, j > 1 PROVE j - 1 \in 1..n - 1 /\ r[j - 1] = q[j]
    BY <1>1, <2>1
  <2>. QED BY <1>1, <2>1
<1>4. \A i \in 1..n - 1 : (\A j \in 1..Len(r) : j > i => ~About(r[j], t)) <=> (\A j \in 1..n : j > i + 1 => ~About(q[j], t))
  <2>1. ASSUME NEW i \in 1..n - 1, NEW j \in 1..n, j > i + 1 PROVE j - 1 \in 1..n - 1 /\ r[j - 1] = q[j] /\ j - 1 > i
    BY <1>1, <2>1
  <2>2. ASSUME NEW i \in 1..n - 1, NEW j \in 1..n - 1, j > i PROVE j + 1 \in 1..n /\ r[j] = q[j + 1] /\ j + 1 > i + 1
    BY <1>1, <2>2
  <2>. QED BY <1>1, <2>1, <2>2
<1>5. (\E i \in 1..Len(r) : Affirms(r[i], t) /\ \A j \in 1..Len(r) : j > i => ~About(r[j], t))
      <=> (\E i \in 1..n : i > 1 /\ Affirms(q[i], t) /\ \A j \in 1..n : j > i => ~About(q[j], t))
  <2>1. ASSUME NEW i \in 1..n, i > 1 PROVE i - 1 \in 1..n - 1 /\ r[i - 1] = q[i] /\ (i - 1) + 1 = i
    BY <1>1, <2>1
  <2>2. ASSUME NEW i \in 1..n - 1 PROVE i + 1 \in 1..n /\ r[i] = q[i + 1] /\ i + 1 > 1
    BY <1>1, <2>2
  <2>3. ASSUME NEW i \in 1..Len(r), Affirms(r[i], t), \A j \in 1..Len(r) : j > i => ~About(r[j], t)
        PROVE  \E x \in 1..n : x > 1 /\ Affirms(q[x], t) /\ \A j \in 1..n : j > x => ~About(q[j], t)
    <3>1. i \in 1..n - 1 /\ i + 1 \in 1..n /\ i + 1 > 1 /\ Affirms(q[i + 1], t)
      BY <1>1, <2>2, <2>3
    <3>. QED BY <1>4, <2>3, <3>1
  <2>4. ASSUME NEW i \in 1..n, i > 1, Affirms(q[i], t), \A j \in 1..n : j > i => ~About(q[j], t)
        PROVE  \E x \in 1..Len(r) : Affirms(r[x], t) /\ \A j \in 1..Len(r) : j > x => ~About(r[j], t)
    <3>1. i - 1 \in 1..n - 1 /\ i - 1 \in 1..Len(r) /\ Affirms(r[i - 1], t) /\ (i - 1) + 1 = i
      BY <1>1, <2>1, <2>4
    <3>2. \A j \in 1..Len(r) : j > i - 1 => ~About(r[j], t)
      BY <1>4, <2>4, <3>1
    <3>. QED BY <3>1, <3>2
  <2>. QED BY <2>3, <2>4
<1>6. 1 \in 1..n
  BY <1>1
<1>7. (\A j \in 1..n : ~About(q[j], t)) <=> ~About(q[1], t) /\ (\A j \in 1..n : j > 1 => ~About(q[j], t))
  BY <1>1
<1>8. (\E i \in 1..n : Affirms(q[i], t) /\ \A j \in 1..n : j > i => ~About(q[j], t))
      <=> \/ Affirms(q[1], t) /\ (\A j \in 1..n : j > 1 => ~About(q[j], t))
          \/ \E i \in 1..n : i > 1 /\ Affirms(q[i], t) /\ \A j \in 1..n : j > i => ~About(q[j], t)
  BY <1>1
<1>. QED BY <1>2, <1>3, <1>5, <1>7, <1>8 DEF Learns, r, n

\* After a hello it does not matter what was known.
LEMMA LearnsAfresh ==
    ASSUME NEW S, NEW q \in Seq(S), q # <<>>, q[1].k = "hello", NEW base, NEW other, NEW t
    PROVE  Learns(base, q, t) <=> Learns(other, q, t)
<1>1. 1 \in 1..Len(q) /\ About(q[1], t)
  BY Fetched DEF About
<1>. QED BY <1>1 DEF Learns

LEMMA LearnsNone == ASSUME NEW base, NEW t PROVE Learns(base, <<>>, t) <=> t \in base
  BY DEF Learns

LEMMA LinkMessages ==
    /\ \A tabs \in SUBSET Tabs : [k |-> "hello", tabs |-> tabs] \in UpKinds
    /\ \A t \in Tabs : [k |-> "shared", t |-> t] \in UpKinds /\ [k |-> "unshared", t |-> t] \in UpKinds
    /\ [k |-> "answer"] \in UpKinds
    /\ \A w \in {"welcome", "create", "unshare", "revoked", "close"} : [k |-> w] \in DownKinds
    /\ \A m \in UpKinds : /\ m.k \in {"hello", "shared", "unshared", "answer"}
                          /\ m.k = "hello" => m.tabs \subseteq Tabs
                          /\ m.k \in {"shared", "unshared"} => m.t \in Tabs
    /\ NoSocket \notin Sockets
  BY LinkedAssumption DEF UpKinds, DownKinds

LEMMA LinkInitially == LinkedInit => LinkInv
<1>. SUFFICES ASSUME LinkedInit PROVE LinkInv
  OBVIOUS
<1>5. 0 \in 0..MaxDrops /\ 0 \in 0..MaxSleeps
  BY LinkedAssumption
<1>1. LinkTypes /\ ServerTypes
  BY <1>5 DEF LinkedInit, LinkTypes, ServerTypes
<1>2. <<>> \in Seq(UpKinds) /\ <<>> \in Seq(DownKinds)
  OBVIOUS
<1>3. WireTypes
  BY <1>2 DEF LinkedInit, WireTypes
<1>4. BothEnds /\ WillKnow /\ leaving \cap shared = {}
  BY LinkMessages DEF LinkedInit, BothEnds, WillKnow
<1>. QED BY <1>1, <1>3, <1>4 DEF LinkInv

\* Neither the tabs nor what tells of them.
LEMMA LinkQuiet ==
    ASSUME LinkInv, UNCHANGED <<ws, shared, leaving, end, far, up, current, mirror>>,
           LinkTypes', WireTypes', ServerTypes'
    PROVE  LinkInv'
<1>1. BothEnds' /\ WillKnow'
  BY DEF LinkInv, BothEnds, WillKnow
<1>. QED BY <1>1 DEF LinkInv

\* Tabs are handed back: only those that are left to be told of.
LEMMA LinkHandsBack ==
    ASSUME LinkInv, UNCHANGED <<ws, end, far, up, current, mirror>>,
           shared' \subseteq shared, leaving' = leaving \cup (shared \ shared'),
           LinkTypes', WireTypes', ServerTypes'
    PROVE  LinkInv'
<1>1. BothEnds'
  BY DEF LinkInv, BothEnds
<1>2. \A t \in Tabs \ leaving' : t \in Tabs \ leaving /\ (t \in shared' <=> t \in shared)
  OBVIOUS
<1>3. WillKnow'
  BY <1>2 DEF LinkInv, WillKnow
<1>. QED BY <1>1, <1>3 DEF LinkInv

\* The extension's sockets are all closed, or will be dialed.
LEMMA LinkApart ==
    ASSUME LinkInv, LinkTypes', WireTypes', ServerTypes', leaving' \cap shared' = {},
           \A s \in Sockets : end'[s] = end[s] \/ end'[s] = "closed",
           \A s \in Sockets : end'[s] = "closed" \/ ws' = ws,
           ws' = ws => UNCHANGED <<shared, leaving>> /\ end' = end,
           UNCHANGED <<far, up, current, mirror>>
    PROVE  LinkInv'
<1>1. BothEnds'
  BY DEF LinkInv, BothEnds
<1>2. CASE ws' = ws
  BY <1>1, <1>2 DEF LinkInv, WillKnow
<1>3. CASE ws' # ws
  <2>1. \A s \in Sockets : end'[s] = "closed"
    BY <1>3
  <2>2. ws' # NoSocket => ws' \in Sockets
    BY DEF LinkTypes
  <2>3. WillKnow'
    BY <2>1, <2>2 DEF WillKnow
  <2>. QED BY <1>1, <2>3 DEF LinkInv
<1>. QED BY <1>2, <1>3

\* The extension says something on its socket, if that is open.
LEMMA LinkSays ==
    ASSUME LinkInv, NEW m \in UpKinds, up' = Says(m), m.k # "hello",
           UNCHANGED <<ws, end, far, current, mirror>>, LinkTypes', WireTypes', ServerTypes',
           leaving' \cap shared' = {},
           \A t \in Tabs \ leaving' : (About(m, t) /\ (Affirms(m, t) <=> t \in shared'))
                                      \/ (t \notin leaving /\ ~About(m, t) /\ (t \in shared' <=> t \in shared))
    PROVE  LinkInv'
<1>1. BothEnds' /\ WillKnow'
  <2>1. CASE ws # NoSocket /\ end[ws] = "open"
    <3>1. /\ ws \in Sockets /\ up[ws] \in Seq(UpKinds) /\ up' = [up EXCEPT ![ws] = Append(up[ws], m)]
          /\ up'[ws] = Append(up[ws], m) /\ \A s \in Sockets \ {ws} : up'[s] = up[s]
      BY <2>1 DEF Says, LinkInv, LinkTypes, WireTypes
    <3>2. up[ws] # <<>> => up'[ws] # <<>> /\ up'[ws][1] = up[ws][1]
      BY <3>1, Fetched
    <3>3. BothEnds'
      BY <3>1, <3>2 DEF LinkInv, BothEnds
    <3>4. \A t \in Tabs : Learns(mirror, up'[ws], t) <=> (IF About(m, t) THEN Affirms(m, t) ELSE Learns(mirror, up[ws], t))
      BY <3>1, LearnsMore
    <3>5. WillKnow'
      BY <2>1, <3>4 DEF LinkInv, WillKnow
    <3>. QED BY <3>3, <3>5
  <2>2. CASE ~(ws # NoSocket /\ end[ws] = "open")
    BY <2>2 DEF Says, LinkInv, BothEnds, WillKnow
  <2>. QED BY <2>1, <2>2
<1>. QED BY <1>1 DEF LinkInv

\* A count that its action keeps below its bound.
LEMMA LinkCounts ==
    ASSUME ServerTypes
    PROVE  (drops < MaxDrops => drops + 1 \in 0..MaxDrops) /\ (sleeps < MaxSleeps => sleeps + 1 \in 0..MaxSleeps)
<1>1. drops \in Nat /\ sleeps \in Nat /\ MaxDrops \in Nat /\ MaxSleeps \in Nat
  BY LinkedAssumption DEF ServerTypes
<1>. QED BY <1>1

LEMMA LinkPersonStep ==
    ASSUME LinkInv,
           \/ \E t \in Tabs : PersonShares(t) \/ Unshares(t) \/ SaysUnshared(t)
           \/ \E a \in asked : Shares(a) \/ ShareFails(a)
           \/ StopAll \/ MinutePasses \/ GraceFires
    PROVE  LinkInv'
<1>. USE DEF serverVars, wireVars, unpairVars
<1>0. LinkTypes /\ WireTypes /\ ServerTypes /\ leaving \cap shared = {}
  BY DEF LinkInv
<1>1. ASSUME NEW t \in Tabs, PersonShares(t) PROVE LinkInv'
  <2>1. LinkTypes' /\ WireTypes' /\ ServerTypes'
    BY <1>0, <1>1 DEF PersonShares, LinkTypes, WireTypes, ServerTypes, Sharers
  <2>. QED BY <1>1, <2>1, LinkQuiet DEF PersonShares
<1>2. ASSUME NEW t \in Tabs, Unshares(t) PROVE LinkInv'
  <2>1. LinkTypes' /\ WireTypes' /\ ServerTypes'
    BY <1>0, <1>2 DEF Unshares, LinkTypes, WireTypes, ServerTypes
  <2>2. shared' \subseteq shared /\ leaving' = leaving \cup (shared \ shared')
    BY <1>2 DEF Unshares
  <2>. QED BY <1>2, <2>1, <2>2, LinkHandsBack DEF Unshares
<1>3. ASSUME NEW t \in Tabs, SaysUnshared(t) PROVE LinkInv'
  <2>. DEFINE m == [k |-> "unshared", t |-> t]
  <2>1. m \in UpKinds /\ m.k # "hello" /\ \A u \in Tabs : (About(m, u) <=> u = t) /\ ~Affirms(m, u)
    BY LinkMessages DEF About, Affirms
  <2>. HIDE DEF m
  <2>2. /\ t \in leaving /\ leaving' = leaving \ {t} /\ shared' = shared /\ t \notin shared /\ up' = Says(m)
        /\ UNCHANGED <<paired, phase, ws, asked, end, far, down, serverVars, drops, sleeps>>
    BY <1>0, <1>3 DEF SaysUnshared, m
  <2>3. LinkTypes' /\ ServerTypes'
    BY <1>0, <1>3 DEF SaysUnshared, LinkTypes, ServerTypes
  <2>4. WireTypes'
    BY <1>0, <2>1, <2>2, Fetched DEF Says, WireTypes, LinkTypes
  <2>5. leaving' \cap shared' = {} /\ \A u \in Tabs \ leaving' : u = t \/ u \notin leaving
    BY <1>0, <2>2
  <2>. QED BY <2>1, <2>2, <2>3, <2>4, <2>5, LinkSays
<1>4. ASSUME NEW a \in asked, Shares(a) PROVE LinkInv'
  <2>1. /\ a.t \in Tabs /\ a.t \notin leaving /\ shared' = shared \cup {a.t} /\ asked' = asked \ {a}
        /\ stray' \in {stray, stray \cup {a.t}}
        /\ UNCHANGED <<paired, phase, ws, leaving, release, unpairing, detaching, end, far, down, serverVars, drops, sleeps>>
    BY <1>0, <1>4 DEF Shares, LinkTypes
  <2>. DEFINE m == [k |-> "shared", t |-> a.t]
  <2>2. m \in UpKinds /\ m.k # "hello" /\ \A u \in Tabs : (About(m, u) <=> u = a.t) /\ (Affirms(m, u) <=> u = a.t)
    BY <2>1, LinkMessages DEF About, Affirms
  <2>3. LinkTypes' /\ ServerTypes'
    BY <1>0, <2>1 DEF LinkTypes, ServerTypes
  <2>4. CASE a.t \in shared
    <3>1. up' = up /\ shared' = shared
      BY <1>4, <2>1, <2>4 DEF Shares
    <3>2. WireTypes'
      BY <1>0, <2>1, <3>1 DEF WireTypes
    <3>. QED BY <2>1, <2>3, <3>1, <3>2, LinkQuiet
  <2>5. CASE a.t \notin shared
    <3>1. up' = Says(m)
      BY <1>4, <2>5 DEF Shares
    <3>. HIDE DEF m
    <3>2. WireTypes'
      BY <1>0, <2>1, <2>2, <3>1, Fetched DEF Says, WireTypes, LinkTypes
    <3>3. leaving' \cap shared' = {}
      BY <1>0, <2>1
    <3>4. \A u \in Tabs \ leaving' : (About(m, u) /\ (Affirms(m, u) <=> u \in shared'))
                                      \/ (u \notin leaving /\ ~About(m, u) /\ (u \in shared' <=> u \in shared))
      BY <2>1, <2>2
    <3>. QED BY <2>1, <2>2, <2>3, <3>1, <3>2, <3>3, <3>4, LinkSays
  <2>. QED BY <2>4, <2>5
<1>5. ASSUME NEW a \in asked, ShareFails(a) PROVE LinkInv'
  <2>1. LinkTypes' /\ WireTypes' /\ ServerTypes'
    BY <1>0, <1>5 DEF ShareFails, LinkTypes, WireTypes, ServerTypes
  <2>. QED BY <1>5, <2>1, LinkQuiet DEF ShareFails
<1>6. CASE StopAll \/ GraceFires
  <2>1. LinkTypes' /\ WireTypes' /\ ServerTypes'
    BY <1>0, <1>6 DEF StopAll, GraceFires, HandsBack, HandBack, LinkTypes, WireTypes, ServerTypes
  <2>2. shared' \subseteq shared /\ leaving' = leaving \cup (shared \ shared')
    BY <1>6 DEF StopAll, GraceFires, HandsBack, HandBack
  <2>. QED BY <1>6, <2>1, <2>2, LinkHandsBack DEF StopAll, GraceFires
<1>7. CASE MinutePasses
  <2>1. LinkTypes' /\ WireTypes' /\ ServerTypes'
    BY <1>0, <1>7 DEF MinutePasses, LinkTypes, WireTypes, ServerTypes
  <2>. QED BY <1>7, <2>1, LinkQuiet DEF MinutePasses
<1>. QED BY <1>1, <1>2, <1>3, <1>4, <1>5, <1>6, <1>7

\* The extension's socket: dialed, opened, given up.
LEMMA LinkDialStep ==
    ASSUME LinkInv, Connect \/ (\E s \in Sockets : Opens(s) \/ GivesUpSocket(s)) \/ Unpair \/ EndsUnpair \/ Sleeps
    PROVE  LinkInv'
<1>. USE DEF serverVars, wireVars, extVars, unpairVars
<1>0. LinkTypes /\ WireTypes /\ ServerTypes /\ BothEnds /\ leaving \cap shared = {}
  BY DEF LinkInv
<1>1. CASE Connect
  <2>1. PICK s \in Sockets : /\ end[s] = "closed" /\ far[s] = "closed" /\ ws' = s /\ end' = [end EXCEPT ![s] = "dialing"]
    BY <1>1 DEF Connect
  <2>2. /\ ws = NoSocket /\ phase' \in {"offline", "connecting"}
        /\ UNCHANGED <<paired, shared, asked, leaving, release, unpairVars, far, up, down, serverVars, drops, sleeps>>
    BY <1>1 DEF Connect
  <2>3. LinkTypes' /\ WireTypes' /\ ServerTypes'
    BY <1>0, <2>1, <2>2 DEF LinkTypes, WireTypes, ServerTypes
  <2>4. end'[s] = "dialing" /\ \A r \in Sockets \ {s} : end'[r] = end[r] /\ end[r] = "closed"
    BY <1>0, <2>1, <2>2, LinkMessages DEF BothEnds, WireTypes
  <2>5. BothEnds' /\ WillKnow'
    BY <1>0, <2>1, <2>2, <2>4 DEF BothEnds, WillKnow
  <2>. QED BY <1>0, <2>2, <2>3, <2>5 DEF LinkInv
<1>2. ASSUME NEW s \in Sockets, Opens(s) PROVE LinkInv'
  <2>. DEFINE m == [k |-> "hello", tabs |-> shared]
  <2>1. /\ ws = s /\ far[s] = "closed" /\ s # current /\ end' = [end EXCEPT ![s] = "open"] /\ up' = [up EXCEPT ![s] = <<m>>]
        /\ far' = [far EXCEPT ![s] = "fresh"]
        /\ UNCHANGED <<extVars, down, serverVars, drops, sleeps>>
    BY <1>0, <1>2 DEF Opens, BothEnds
  <2>2. m \in UpKinds /\ m.k = "hello" /\ \A t \in Tabs : About(m, t) /\ (Affirms(m, t) <=> t \in shared)
    BY <1>0, LinkMessages DEF LinkTypes, About, Affirms
  <2>. HIDE DEF m
  <2>3. <<m>> \in Seq(UpKinds) /\ Len(<<m>>) = 1 /\ <<m>>[1] = m /\ <<m>> # <<>>
    BY <2>2
  <2>4. LinkTypes' /\ WireTypes' /\ ServerTypes'
    BY <1>0, <2>1, <2>3 DEF LinkTypes, WireTypes, ServerTypes
  <2>5. /\ end'[s] = "open" /\ far'[s] = "fresh" /\ up'[s] = <<m>>
        /\ \A r \in Sockets \ {s} : end'[r] = end[r] /\ far'[r] = far[r] /\ up'[r] = up[r]
    BY <1>0, <2>1 DEF WireTypes
  <2>6. BothEnds'
    BY <1>0, <2>1, <2>2, <2>3, <2>5 DEF BothEnds
  <2>7. \A t \in Tabs : Learns(mirror, <<m>>, t) <=> t \in shared
    BY <2>2, <2>3 DEF Learns
  <2>8. WillKnow'
    BY <2>1, <2>5, <2>7 DEF WillKnow
  <2>. QED BY <1>0, <2>1, <2>4, <2>6, <2>8 DEF LinkInv
<1>3. ASSUME NEW s \in Sockets, GivesUpSocket(s) PROVE LinkInv'
  <2>1. ws = s /\ s # NoSocket
    BY <1>0, <1>3, LinkMessages DEF GivesUpSocket, BothEnds
  <2>2. /\ end' = [end EXCEPT ![s] = "closed"] /\ up' = up /\ ws' = NoSocket /\ phase' \in {phase, "offline"}
        /\ release' \in {release, "none", "armed"} /\ drops' \in {drops, drops + 1} /\ (drops' = drops + 1 => drops' = drops \/ drops < MaxDrops)
        /\ down' = [down EXCEPT ![s] = <<>>]
        /\ UNCHANGED <<paired, shared, asked, leaving, unpairVars, far, serverVars, sleeps>>
    BY <1>3, <2>1 DEF GivesUpSocket, Disconnects, Graced
  <2>3. drops' \in 0..MaxDrops /\ <<>> \in Seq(DownKinds)
    BY <1>0, <2>2, LinkCounts DEF ServerTypes
  <2>4. LinkTypes' /\ WireTypes' /\ ServerTypes'
    BY <1>0, <2>2, <2>3 DEF LinkTypes, WireTypes, ServerTypes
  <2>5. \A r \in Sockets : end'[r] = "closed"
    BY <1>0, <2>1, <2>2 DEF BothEnds, WireTypes
  <2>. QED BY <1>0, <2>1, <2>2, <2>4, <2>5, LinkApart
<1>4. CASE Unpair
  <2>1. /\ shared' = {} /\ leaving' = leaving \cup shared /\ unpairing' = TRUE /\ detaching' \in {detaching, shared} /\ stray' = {}
        /\ UNCHANGED <<paired, phase, ws, asked, release, wireVars, serverVars, drops, sleeps>>
    BY <1>4 DEF Unpair, BeginsUnpair, HandBack
  <2>2. LinkTypes' /\ WireTypes' /\ ServerTypes'
    BY <1>0, <2>1 DEF LinkTypes, WireTypes, ServerTypes
  <2>3. shared' \subseteq shared /\ leaving' = leaving \cup (shared \ shared')
    BY <2>1
  <2>. QED BY <2>1, <2>2, <2>3, LinkHandsBack
<1>6. CASE EndsUnpair
  <2>1. /\ unpairing' = FALSE /\ paired' = FALSE /\ phase' = "unpaired" /\ release' = "none" /\ ws' = NoSocket
        /\ end' = [e \in Sockets |-> IF e = ws THEN "closed" ELSE end[e]]
        /\ UNCHANGED <<shared, asked, leaving, detaching, stray, far, up, down, serverVars, drops, sleeps>>
    BY <1>6 DEF EndsUnpair
  <2>2. LinkTypes' /\ WireTypes' /\ ServerTypes'
    BY <1>0, <2>1 DEF LinkTypes, WireTypes, ServerTypes
  <2>3. \A r \in Sockets : end'[r] = "closed"
    BY <1>0, <2>1 DEF BothEnds, WireTypes
  <2>5. BothEnds' /\ WillKnow'
    BY <1>0, <2>1, <2>3 DEF BothEnds, WillKnow
  <2>. QED BY <1>0, <2>1, <2>2, <2>5 DEF LinkInv
<1>5. CASE Sleeps
  <2>1. /\ ws' = NoSocket /\ end' = [s \in Sockets |-> "closed"] /\ up' = up /\ down' = [s \in Sockets |-> <<>>]
        /\ UNCHANGED <<paired, asked, unpairing, detaching, far, serverVars, drops>> /\ stray' = stray \cap shared' /\ phase' \in {"connecting", "unpaired"}
        /\ sleeps < MaxSleeps /\ sleeps' = sleeps + 1
    BY <1>5 DEF Sleeps
  <2>2. PICK kept \in SUBSET shared : /\ release' \in {release, "none", "armed"}
                                      /\ (shared' = {} /\ leaving' = kept) \/ (shared' = kept /\ leaving' = leaving /\ leaving = {})
    BY <1>5 DEF Sleeps, Graced
  <2>3. LinkTypes' /\ leaving' \cap shared' = {}
    BY <1>0, <2>1, <2>2 DEF LinkTypes
  <2>4. sleeps' \in 0..MaxSleeps
    BY <1>0, <2>1, LinkCounts
  <2>5. WireTypes' /\ ServerTypes'
    BY <1>0, <2>1, <2>4 DEF WireTypes, ServerTypes
  <2>6. BothEnds' /\ WillKnow'
    BY <1>0, <2>1 DEF BothEnds, WillKnow
  <2>. QED BY <2>3, <2>5, <2>6 DEF LinkInv
<1>. QED BY <1>1, <1>2, <1>3, <1>4, <1>5, <1>6

LEMMA LinkReadStep ==
    ASSUME LinkInv, NEW s \in Sockets, Reads(s)
    PROVE  LinkInv'
<1>. USE DEF serverVars, unpairVars
<1>. DEFINE m == Head(down[s]).k
<1>0. LinkTypes /\ WireTypes /\ ServerTypes /\ BothEnds /\ leaving \cap shared = {}
  BY DEF LinkInv
<1>1. ws = s /\ s # NoSocket /\ end[s] = "open" /\ down' = [down EXCEPT ![s] = Tail(@)] /\ UNCHANGED <<far, serverVars, drops, sleeps>>
  BY <1>0, LinkMessages DEF Reads, BothEnds
<1>2. ServerTypes' /\ down' \in [Sockets -> Seq(DownKinds)]
  <2>1. down[s] \in Seq(DownKinds) /\ down[s] # <<>>
    BY <1>0 DEF Reads, WireTypes
  <2>2. Tail(down[s]) \in Seq(DownKinds)
    BY <2>1, Fetched
  <2>. QED BY <1>0, <1>1, <2>2 DEF WireTypes, ServerTypes
<1>3. CASE m = "welcome"
  <2>1. phase' \in {phase, "online"} /\ release' \in {release, "none"} /\ UNCHANGED <<paired, ws, shared, asked, leaving, unpairVars, end, up>>
    BY <1>3 DEF Reads
  <2>2. LinkTypes' /\ WireTypes'
    BY <1>0, <1>1, <1>2, <2>1 DEF LinkTypes, WireTypes
  <2>. QED BY <1>1, <1>2, <2>1, <2>2, LinkQuiet
<1>4. CASE m = "create"
  <2>1. (asked' = asked \/ \E t \in Tabs : asked' = asked \cup {[t |-> t, by |-> "agent"]})
        /\ UNCHANGED <<paired, phase, ws, shared, leaving, release, unpairVars, end, up>>
    BY <1>4 DEF Reads
  <2>2. LinkTypes' /\ WireTypes'
    BY <1>0, <1>1, <1>2, <2>1 DEF LinkTypes, WireTypes, Sharers
  <2>. QED BY <1>1, <1>2, <2>1, <2>2, LinkQuiet
<1>5. CASE m = "unshare"
  <2>. DEFINE a == [k |-> "answer"]
  <2>1. /\ shared' = {} /\ leaving' = leaving \cup shared /\ up' = [up EXCEPT ![s] = Append(@, a)]
        /\ UNCHANGED <<paired, phase, ws, asked, release, unpairing, detaching, end>> /\ stray' = {}
    BY <1>1, <1>5 DEF Reads, HandsBack, HandBack
  <2>2. a \in UpKinds /\ a.k # "hello" /\ \A t \in Tabs : ~About(a, t)
    BY LinkMessages DEF About
  <2>3. up' = Says(a)
    BY <1>1, <2>1 DEF Says
  <2>. HIDE DEF a
  <2>4. LinkTypes' /\ WireTypes'
    <3>1. Append(up[s], a) \in Seq(UpKinds)
      BY <1>0, <2>2, Fetched DEF WireTypes
    <3>. QED BY <1>0, <1>1, <1>2, <2>1, <3>1 DEF LinkTypes, WireTypes
  <2>5. leaving' \cap shared' = {} /\ \A t \in Tabs \ leaving' : t \notin leaving /\ (t \in shared' <=> t \in shared)
    BY <2>1
  <2>. QED BY <1>1, <1>2, <2>1, <2>2, <2>3, <2>4, <2>5, LinkSays
<1>6. CASE m = "close" \/ (m = "revoked" /\ phase = "online")
  <2>1. /\ end' = [end EXCEPT ![s] = "closed"] /\ up' = up /\ ws' = NoSocket /\ phase' \in {phase, "offline"}
        /\ release' \in {release, "none", "armed"} /\ UNCHANGED <<paired, shared, asked, leaving, unpairVars>>
    BY <1>1, <1>6 DEF Reads, Disconnects, Graced
  <2>2. LinkTypes' /\ WireTypes'
    BY <1>0, <1>1, <1>2, <2>1 DEF LinkTypes, WireTypes
  <2>3. \A r \in Sockets : end'[r] = "closed"
    BY <1>0, <1>1, <2>1 DEF BothEnds, WireTypes
  <2>. QED BY <1>0, <1>1, <1>2, <2>1, <2>2, <2>3, LinkApart
<1>7. CASE m = "revoked" /\ phase # "online"
  <2>1. /\ shared' = {} /\ leaving' = leaving \cup shared /\ unpairing' = TRUE /\ detaching' \in {detaching, shared} /\ stray' = {}
        /\ ws' = NoSocket /\ end' = [end EXCEPT ![s] = "closed"] /\ UNCHANGED <<paired, phase, asked, release, up>>
    BY <1>1, <1>7 DEF Reads, BeginsUnpair, HandBack
  <2>2. LinkTypes' /\ WireTypes'
    BY <1>0, <1>1, <1>2, <2>1 DEF LinkTypes, WireTypes
  <2>3. \A r \in Sockets : end'[r] = "closed"
    BY <1>0, <1>1, <2>1 DEF BothEnds, WireTypes
  <2>4. leaving' \cap shared' = {} /\ ws' # ws
    BY <1>1, <2>1
  <2>. QED BY <1>0, <1>1, <1>2, <2>1, <2>2, <2>3, <2>4, LinkApart
<1>8. m \in {"welcome", "create", "unshare", "close", "revoked"}
  BY DEF Reads
<1>. QED BY <1>3, <1>4, <1>5, <1>6, <1>7, <1>8

\* What the server does without hearing.
LEMMA LinkServes ==
    ASSUME LinkInv, StartsServing \/ AgentOpensTab \/ StopsServing \/ StopTimesOut
    PROVE  LinkInv'
<1>. USE DEF serverVars, wireVars, extVars, unpairVars
<1>0. LinkTypes /\ WireTypes /\ ServerTypes
  BY DEF LinkInv
<1>1. /\ UNCHANGED <<extVars, end, far, up, current, mirror, revoked, sleeps>>
      /\ serving' \in {"off", "on", "stopping"} /\ stopping' \in {stopping, current, NoSocket}
  BY <1>0 DEF StartsServing, AgentOpensTab, StopsServing, StopTimesOut, ServerTypes
<1>2. drops' \in 0..MaxDrops
  BY <1>0, LinkCounts DEF StartsServing, AgentOpensTab, StopsServing, StopTimesOut, ServerTypes
<1>3. down' \in [Sockets -> Seq(DownKinds)]
  <2>1. CASE UNCHANGED down
    BY <1>0, <2>1 DEF WireTypes
  <2>2. ASSUME NEW w \in {"create", "unshare"}, current # NoSocket, Tells(w) PROVE down' \in [Sockets -> Seq(DownKinds)]
    <3>1. current \in Sockets /\ [k |-> w] \in DownKinds /\ down[current] \in Seq(DownKinds)
      BY <1>0, <2>2, LinkMessages DEF ServerTypes, WireTypes
    <3>2. Append(down[current], [k |-> w]) \in Seq(DownKinds)
      BY <3>1, Fetched
    <3>. QED BY <1>0, <2>2, <3>2 DEF Tells, WireTypes
  <2>. QED BY <2>1, <2>2 DEF StartsServing, AgentOpensTab, StopsServing, StopTimesOut
<1>4. LinkTypes' /\ WireTypes' /\ ServerTypes'
  BY <1>0, <1>1, <1>2, <1>3 DEF LinkTypes, WireTypes, ServerTypes
<1>. QED BY <1>1, <1>4, LinkQuiet

\* shutdown() of a connection, typed.
LEMMA CutTypes ==
    ASSUME WireTypes, NEW s \in Sockets, NEW w \in {"close", "revoked"}, Cut(s, w)
    PROVE  /\ far' \in [Sockets -> {"closed", "fresh", "ready"}] /\ far'[s] = "closed"
           /\ \A r \in Sockets \ {s} : far'[r] = far[r]
           /\ down' \in [Sockets -> Seq(DownKinds)]
<1>1. [k |-> w] \in DownKinds /\ down[s] \in Seq(DownKinds)
  BY LinkMessages DEF WireTypes
<1>2. Append(down[s], [k |-> w]) \in Seq(DownKinds) /\ <<>> \in Seq(DownKinds)
  BY <1>1, Fetched
<1>. QED BY <1>2 DEF Cut, WireTypes

\* A socket the server lets go of.
LEMMA LinkCutStep ==
    ASSUME LinkInv, (\E s \in Sockets : ServerLoses(s) \/ Discards(s)) \/ Revoke
    PROVE  LinkInv'
<1>. USE DEF serverVars, extVars, unpairVars
<1>0. LinkTypes /\ WireTypes /\ ServerTypes /\ BothEnds
  BY DEF LinkInv
<1>1. ASSUME NEW s \in Sockets, ServerLoses(s) PROVE LinkInv'
  <2>1. /\ Cut(s, "close") /\ up' = [up EXCEPT ![s] = <<>>] /\ UNCHANGED <<extVars, end, revoked, sleeps>>
        /\ (s = current /\ Lost) \/ (s # current /\ UNCHANGED <<current, mirror, serving, stopping>>)
        /\ drops' = drops \/ (drops < MaxDrops /\ drops' = drops + 1)
    BY <1>1 DEF ServerLoses
  <2>2. LinkTypes' /\ WireTypes' /\ ServerTypes'
    <3>1. far' \in [Sockets -> {"closed", "fresh", "ready"}] /\ down' \in [Sockets -> Seq(DownKinds)] /\ drops' \in 0..MaxDrops
      BY <1>0, <2>1, CutTypes, LinkCounts DEF ServerTypes
    <3>2. <<>> \in Seq(UpKinds)
      OBVIOUS
    <3>. QED BY <1>0, <2>1, <3>1, <3>2 DEF LinkTypes, WireTypes, ServerTypes, Lost
  <2>3. /\ far'[s] = "closed" /\ \A r \in Sockets \ {s} : far'[r] = far[r] /\ up'[r] = up[r]
        /\ current' = IF s = current THEN NoSocket ELSE current
    BY <1>0, <2>1, CutTypes DEF WireTypes, Lost
  <2>4. BothEnds'
    BY <1>0, <2>1, <2>3, LinkMessages DEF BothEnds
  <2>5. ws # s /\ ws # NoSocket => ws \in Sockets \ {s}
    BY <1>0 DEF LinkTypes
  <2>6. ws \in Sockets /\ far[ws] = "fresh" => \A t \in Tabs : Learns(mirror', up[ws], t) <=> Learns(mirror, up[ws], t)
    BY <1>0, LearnsAfresh DEF BothEnds, WireTypes
  <2>7. ws # s /\ ws # NoSocket /\ far[ws] = "ready" => mirror' = mirror
    BY <1>0, <2>1, <2>5 DEF BothEnds
  <2>8. WillKnow'
    BY <1>0, <2>1, <2>3, <2>5, <2>6, <2>7 DEF LinkInv, WillKnow, WireTypes
  <2>. QED BY <2>1, <2>2, <2>4, <2>8 DEF LinkInv
<1>2. ASSUME NEW s \in Sockets, Discards(s) PROVE LinkInv'
  <2>1. far[s] = "closed" /\ up' = [up EXCEPT ![s] = <<>>] /\ UNCHANGED <<extVars, end, far, down, serverVars, drops, sleeps>>
    BY <1>2 DEF Discards
  <2>2. LinkTypes' /\ WireTypes' /\ ServerTypes'
    <3>1. <<>> \in Seq(UpKinds)
      OBVIOUS
    <3>. QED BY <1>0, <2>1, <3>1 DEF LinkTypes, WireTypes, ServerTypes
  <2>3. \A r \in Sockets \ {s} : up'[r] = up[r]
    BY <1>0, <2>1 DEF WireTypes
  <2>4. BothEnds' /\ WillKnow'
    BY <1>0, <2>1, <2>3 DEF LinkInv, BothEnds, WillKnow, LinkTypes
  <2>. QED BY <2>1, <2>2, <2>4 DEF LinkInv
<1>3. CASE Revoke
  <2>1. revoked' = TRUE /\ UNCHANGED <<extVars, end, up, drops, sleeps>>
    BY <1>3 DEF Revoke
  <2>2. CASE current = NoSocket
    <3>1. UNCHANGED <<far, down, current, mirror, serving, stopping>>
      BY <1>3, <2>2 DEF Revoke
    <3>2. LinkTypes' /\ WireTypes' /\ ServerTypes'
      BY <1>0, <2>1, <3>1 DEF LinkTypes, WireTypes, ServerTypes
    <3>. QED BY <2>1, <3>1, <3>2, LinkQuiet
  <2>3. CASE current # NoSocket
    <3>1. PICK s \in Sockets : s = current
      BY <1>0, <2>3 DEF ServerTypes
    <3>2. Cut(s, "revoked") /\ Lost
      BY <1>3, <2>3, <3>1 DEF Revoke
    <3>3. LinkTypes' /\ WireTypes' /\ ServerTypes'
      BY <1>0, <2>1, <3>2, CutTypes DEF LinkTypes, WireTypes, ServerTypes, Lost
    <3>4. /\ far'[s] = "closed" /\ current' = NoSocket /\ \A r \in Sockets \ {s} : far'[r] = far[r]
      BY <1>0, <3>2, CutTypes DEF Lost
    <3>5. BothEnds'
      BY <1>0, <2>1, <3>1, <3>4, LinkMessages DEF BothEnds
    <3>6. ws \in Sockets /\ far[ws] = "fresh" => \A t \in Tabs : Learns(mirror', up[ws], t) <=> Learns(mirror, up[ws], t)
      BY <1>0, LearnsAfresh DEF BothEnds, WireTypes
    <3>7. ws # NoSocket /\ far'[ws] # "closed" => ws \in Sockets /\ far[ws] = "fresh"
      BY <1>0, <3>1, <3>4 DEF BothEnds, LinkTypes, WireTypes
    <3>8. WillKnow'
      BY <2>1, <3>6, <3>7 DEF LinkInv, WillKnow
    <3>. QED BY <2>1, <3>3, <3>5, <3>8 DEF LinkInv
  <2>. QED BY <2>2, <2>3
<1>. QED BY <1>1, <1>2, <1>3

\* A socket's first message.
LEMMA LinkHelloStep ==
    ASSUME LinkInv, NEW s \in Sockets, Hello(s)
    PROVE  LinkInv'
<1>. USE DEF extVars, unpairVars
<1>0. LinkTypes /\ WireTypes /\ ServerTypes /\ BothEnds
  BY DEF LinkInv
<1>1. PICK q \in Seq(UpKinds) : q = up[s]
  BY <1>0 DEF WireTypes
<1>2. /\ far[s] = "fresh" /\ q # <<>> /\ q[1] \in UpKinds /\ q[1].k = "hello" /\ q[1].tabs \subseteq Tabs /\ Head(q) = q[1]
      /\ Tail(q) \in Seq(UpKinds) /\ s # current /\ end[s] # "dialing" /\ up' = [up EXCEPT ![s] = Tail(q)]
      /\ UNCHANGED <<extVars, end, revoked, drops, sleeps>>
  <2>1. far[s] = "fresh" /\ q # <<>> /\ up' = [up EXCEPT ![s] = Tail(q)] /\ UNCHANGED <<extVars, end, revoked, drops, sleeps>>
    BY <1>1 DEF Hello
  <2>2. q[1].k = "hello" /\ s # current /\ end[s] # "dialing"
    BY <1>0, <1>1, <2>1 DEF BothEnds
  <2>3. q[1] \in UpKinds /\ Head(q) = q[1] /\ Tail(q) \in Seq(UpKinds)
    BY <2>1, Fetched
  <2>. QED BY <2>1, <2>2, <2>3, LinkMessages
<1>3. up' \in [Sockets -> Seq(UpKinds)] /\ up'[s] = Tail(q) /\ \A r \in Sockets \ {s} : up'[r] = up[r]
  BY <1>0, <1>2 DEF WireTypes
<1>4. LinkTypes'
  BY <1>0, <1>2 DEF LinkTypes
<1>5. ws # NoSocket => ws \in Sockets
  BY <1>0 DEF LinkTypes
<1>6. \A i \in 1..Len(Tail(q)) : Tail(q)[i].k # "hello"
  <2>1. \A i \in 1..Len(q) : q[i].k = "hello" => i = 1
    BY <1>0, <1>1, <1>2 DEF BothEnds
  <2>2. Len(Tail(q)) = Len(q) - 1 /\ Len(q) \in Nat /\ \A i \in 1..Len(q) - 1 : Tail(q)[i] = q[i + 1]
    BY <1>2, Fetched
  <2>. QED BY <2>1, <2>2
<1>7. CASE revoked
  <2>1. Cut(s, "revoked") /\ UNCHANGED <<current, mirror, serving, stopping>>
    BY <1>7 DEF Hello, Refused
  <2>2. /\ far' \in [Sockets -> {"closed", "fresh", "ready"}] /\ down' \in [Sockets -> Seq(DownKinds)]
        /\ far'[s] = "closed" /\ \A r \in Sockets \ {s} : far'[r] = far[r]
    BY <1>0, <2>1, CutTypes
  <2>3. WireTypes' /\ ServerTypes'
    BY <1>0, <1>2, <1>3, <2>1, <2>2 DEF WireTypes, ServerTypes
  <2>4. BothEnds'
    BY <1>0, <1>2, <1>3, <2>1, <2>2 DEF BothEnds
  <2>5. WillKnow'
    BY <1>2, <1>3, <1>5, <2>1, <2>2 DEF LinkInv, WillKnow
  <2>. QED BY <1>2, <1>4, <2>3, <2>4, <2>5 DEF LinkInv
<1>8. CASE ~revoked
  <2>1. /\ far' = [f \in Sockets |-> IF f = s THEN "ready" ELSE IF f = current THEN "closed" ELSE far[f]]
        /\ down' = [d \in Sockets |->
                      IF end[d] = "closed" \/ d \notin {s, current} THEN down[d]
                      ELSE Append(down[d], [k |-> IF d = s THEN "welcome" ELSE "close"])]
        /\ current' = s /\ mirror' = q[1].tabs
        /\ serving' \in {serving, "off"} /\ stopping' \in {stopping, NoSocket}
    BY <1>1, <1>2, <1>8 DEF Hello
  <2>2. down' \in [Sockets -> Seq(DownKinds)]
    <3>1. \A d \in Sockets : down[d] \in Seq(DownKinds)
      BY <1>0 DEF WireTypes
    <3>2. \A d \in Sockets : Append(down[d], [k |-> IF d = s THEN "welcome" ELSE "close"]) \in Seq(DownKinds)
      BY <3>1, Fetched, LinkMessages
    <3>. QED BY <2>1, <3>1, <3>2
  <2>3. WireTypes' /\ ServerTypes'
    BY <1>0, <1>2, <1>3, <2>1, <2>2 DEF WireTypes, ServerTypes
  <2>4. BothEnds'
    BY <1>0, <1>2, <1>3, <1>6, <2>1 DEF BothEnds
  <2>5. \A t \in Tabs : Learns(mirror', Tail(q), t) <=> Learns(mirror, q, t)
    <3>1. \A t \in Tabs : t \in mirror' <=> (IF About(q[1], t) THEN Affirms(q[1], t) ELSE t \in mirror)
      BY <1>2, <2>1 DEF About, Affirms
    <3>. QED BY <1>2, <3>1, LearnsHead
  <2>6. ws \in Sockets /\ far[ws] = "fresh" => \A t \in Tabs : Learns(mirror', up[ws], t) <=> Learns(mirror, up[ws], t)
    BY <1>0, LearnsAfresh DEF BothEnds, WireTypes
  <2>7. ws # NoSocket /\ ws # s /\ far'[ws] # "closed" => far[ws] = "fresh"
    BY <1>0, <1>5, <2>1 DEF BothEnds, WireTypes
  <2>8. WillKnow'
    BY <1>1, <1>2, <1>3, <1>5, <2>5, <2>6, <2>7 DEF LinkInv, WillKnow
  <2>. QED BY <1>2, <1>4, <2>3, <2>4, <2>8 DEF LinkInv
<1>. QED BY <1>7, <1>8

\* Every later message of the current connection.
LEMMA LinkHearsStep ==
    ASSUME LinkInv, NEW s \in Sockets, Hears(s)
    PROVE  LinkInv'
<1>. USE DEF extVars, unpairVars
<1>0. LinkTypes /\ WireTypes /\ ServerTypes /\ BothEnds
  BY DEF LinkInv
<1>1. PICK q \in Seq(UpKinds) : q = up[s]
  BY <1>0 DEF WireTypes
<1>2. /\ far[s] = "ready" /\ s = current /\ q # <<>> /\ Head(q) = q[1] /\ up' = [up EXCEPT ![s] = Tail(q)]
      /\ UNCHANGED <<extVars, end, far, down, current, revoked, drops, sleeps>>
      /\ serving' \in {serving, "off"} /\ stopping' \in {stopping, NoSocket}
  BY <1>0, <1>1 DEF Hears, BothEnds
<1>3. q[1] \in UpKinds /\ Tail(q) \in Seq(UpKinds) /\ q[1].k \in {"shared", "unshared", "answer"}
  <2>1. 1 \in 1..Len(q) /\ q[1] \in UpKinds /\ Tail(q) \in Seq(UpKinds)
    BY <1>2, Fetched
  <2>2. q[1].k # "hello"
    BY <1>0, <1>1, <1>2, <2>1 DEF BothEnds
  <2>. QED BY <2>1, <2>2, LinkMessages
<1>4. /\ q[1].k = "shared" => q[1].t \in Tabs /\ mirror' = mirror \cup {q[1].t}
      /\ q[1].k = "unshared" => mirror' = mirror \ {q[1].t}
      /\ q[1].k = "answer" => mirror' = mirror
  BY <1>1, <1>2, <1>3, LinkMessages DEF Hears
<1>5. up' \in [Sockets -> Seq(UpKinds)] /\ up'[s] = Tail(q) /\ \A r \in Sockets \ {s} : up'[r] = up[r]
  BY <1>0, <1>2, <1>3 DEF WireTypes
<1>6. LinkTypes' /\ WireTypes' /\ ServerTypes'
  <2>1. mirror' \subseteq Tabs
    BY <1>0, <1>3, <1>4 DEF ServerTypes
  <2>. QED BY <1>0, <1>2, <1>5, <2>1 DEF LinkTypes, WireTypes, ServerTypes
<1>7. BothEnds'
  <2>1. \A i \in 1..Len(Tail(q)) : Tail(q)[i].k # "hello"
    <3>1. \A i \in 1..Len(q) : q[i].k # "hello"
      BY <1>0, <1>1, <1>2 DEF BothEnds
    <3>2. Len(Tail(q)) = Len(q) - 1 /\ Len(q) \in Nat /\ \A i \in 1..Len(q) - 1 : Tail(q)[i] = q[i + 1]
      BY <1>2, Fetched
    <3>. QED BY <3>1, <3>2
  <2>. QED BY <1>0, <1>2, <1>5, <2>1 DEF BothEnds
<1>8. WillKnow'
  <2>1. ws # NoSocket => ws \in Sockets
    BY <1>0 DEF LinkTypes
  <2>2. \A t \in Tabs : Learns(mirror', Tail(q), t) <=> Learns(mirror, q, t)
    <3>1. \A t \in Tabs : t \in mirror' <=> (IF About(q[1], t) THEN Affirms(q[1], t) ELSE t \in mirror)
      BY <1>3, <1>4 DEF About, Affirms
    <3>. QED BY <1>2, <3>1, LearnsHead
  <2>3. ws \in Sockets /\ far[ws] = "fresh" => \A t \in Tabs : Learns(mirror', up[ws], t) <=> Learns(mirror, up[ws], t)
    BY <1>0, LearnsAfresh DEF BothEnds, WireTypes
  <2>4. ws # NoSocket /\ ws # s /\ far[ws] # "closed" => far[ws] = "fresh"
    BY <1>0, <1>2, <2>1 DEF BothEnds, WireTypes
  <2>. QED BY <1>1, <1>2, <1>5, <2>1, <2>2, <2>3, <2>4 DEF LinkInv, WillKnow
<1>. QED BY <1>2, <1>6, <1>7, <1>8 DEF LinkInv

LEMMA LinkInvariant == LinkedSpec => []LinkInv
<1>1. LinkInv /\ [LinkedNext]_linkedVars => LinkInv'
  <2>. SUFFICES ASSUME LinkInv, [LinkedNext]_linkedVars PROVE LinkInv'
    OBVIOUS
  <2>1. CASE UNCHANGED linkedVars
    <3>1. LinkTypes' /\ WireTypes' /\ ServerTypes'
      BY <2>1 DEF linkedVars, extVars, unpairVars, wireVars, serverVars, LinkInv, LinkTypes, WireTypes, ServerTypes
    <3>. QED BY <2>1, <3>1, LinkQuiet DEF linkedVars, extVars, wireVars, serverVars
  <2>2. CASE LinkedMoves
    BY <2>2, LinkPersonStep, LinkDialStep, LinkServes, LinkCutStep DEF LinkedMoves
  <2>3. ASSUME NEW s \in Sockets, \/ Opens(s) \/ Reads(s) \/ Hello(s) \/ Hears(s) \/ Discards(s)
                                  \/ GivesUpSocket(s) \/ ServerLoses(s) PROVE LinkInv'
    BY <2>3, LinkDialStep, LinkReadStep, LinkHelloStep, LinkHearsStep, LinkCutStep
  <2>4. ASSUME NEW a \in asked, Shares(a) PROVE LinkInv'
    BY <2>4, LinkPersonStep
  <2>5. ASSUME NEW t \in Tabs, SaysUnshared(t) PROVE LinkInv'
    BY <2>5, LinkPersonStep
  <2>6. CASE Connect \/ EndsUnpair \/ MinutePasses \/ GraceFires
    BY <2>6, LinkPersonStep, LinkDialStep
  <2>. QED BY <2>1, <2>2, <2>3, <2>4, <2>5, <2>6 DEF LinkedNext
<1>. QED BY <1>1, LinkInitially, PTL DEF LinkedSpec

\* Whatever the network breaks and in whatever order the two ends notice, the link's records and messages keep their types.
THEOREM LinkedTypes == LinkedSpec => []LinkedTypeOK
<1>1. LinkInv => LinkedTypeOK
  BY DEF LinkInv, LinkTypes, WireTypes, ServerTypes, LinkedTypeOK
<1>. QED BY <1>1, LinkInvariant, PTL

\* For any number of tabs and sockets, broken, replaced and opened anew in any order: once a socket has been heard out the
\* server knows exactly the tabs that are shared.
THEOREM MirrorsAgree == LinkedSpec => []MirrorAgrees
<1>1. LinkInv => MirrorAgrees
  <2>. SUFFICES ASSUME LinkInv, Settled PROVE mirror = shared
    BY DEF MirrorAgrees
  <2>1. ws \in Sockets /\ far[ws] = "ready" /\ end[ws] = "open" /\ up[ws] = <<>> /\ leaving = {}
    BY DEF Settled, LinkInv, BothEnds, LinkTypes
  <2>2. \A t \in Tabs : Learns(mirror, <<>>, t) <=> t \in shared
    BY <2>1, LinkMessages DEF LinkInv, WillKnow
  <2>3. \A t \in Tabs : t \in mirror <=> t \in shared
    BY <2>2, LearnsNone
  <2>. QED BY <2>3 DEF LinkInv, LinkTypes, ServerTypes
<1>. QED BY <1>1, LinkInvariant, PTL

---------------------------------------------------------------------------
(* A browser's profile on workers (Workers). *)

AskRows == [to : WorkerHosts, what : AskKinds, by : {"op", "nobody"}, at : {"sent", "working", "answered", "refused"}]
OpRows == [at : {"idle", "start", "undo", "stop", "moveStop", "pull", "push", "clean"},
           to : Hosts, again : BOOLEAN, copy : {"none", "whole", "torn"}]
SquareRows == [at : {"idle", "sent", "answer"}, seen : {"none", "alive", "dead"}, before : BOOLEAN]

PlaceTypes ==
    /\ place \in Hosts /\ runtime \in {"none", "live", "exited"} /\ tracked \in BOOLEAN
    /\ shim \in {"none"} \cup WorkerHosts /\ escaped \in BOOLEAN /\ op \in OpRows
HostTypes ==
    /\ chrome \in [WorkerHosts -> {"none", "alive", "dead"}]
    /\ launching \in [WorkerHosts -> BOOLEAN] /\ closing \in [WorkerHosts -> BOOLEAN]
FileTypes == copies \subseteq Hosts /\ newest \subseteq copies /\ used \in BOOLEAN
BoundTypes == workerFaults \in 0..MaxFaults /\ moves \in 0..MaxMoves
PollTypes == poll \in [WorkerHosts -> SquareRows]

\* Nothing runs, starts or ends on a worker but the one the row names.
Still(w) == chrome[w] = "none" /\ ~launching[w] /\ ~closing[w]
ElsewhereStill == \A w \in WorkerHosts \ {place} : Still(w)

\* A request belongs to the step of the operation that sent it, or nobody waits for it; and what a copy's
\* answer says is so for as long as it has not been acted on.
InStep(a) ==
    /\ a.by = "nobody" => (a.what = "stop" /\ a.at \in {"sent", "working"}) \/ (a.what = "start" /\ a.at = "working")
    /\ a.what = "start" /\ a.by = "op" => op.at = "start" /\ a.to = place
    /\ a.what = "stop" /\ a.by = "op" => op.at \in {"undo", "stop", "moveStop"}
    /\ a.what = "pull" => op.at = "pull" /\ a.to = place
    /\ a.what = "push" => op.at = "push" /\ a.to = op.to
    /\ a.what = "delete" => op.at = "clean" /\ a.to # place /\ a.at # "working"
    /\ a.what = "pull" /\ a.at \in {"working", "answered"} =>
         Still(place) /\ (op.copy = "whole" \/ (op.copy = "none" /\ a.at = "answered" /\ place \notin copies))
    /\ a.what = "push" /\ a.at = "answered" => (used /\ ~escaped => a.to \in newest)
AsksInStep == \A a \in asks : InStep(a)

\* A profile is copied to another host, from one where nothing writes to it.
CopiesApart ==
    /\ op.at \in {"moveStop", "pull", "push"} => op.to # place
    /\ op.at = "push" => /\ op.copy = "whole" \/ (op.copy = "torn" /\ escaped)
                         /\ place \in WorkerHosts => Still(place)
    /\ op.at = "pull" => place \in WorkerHosts /\ op.copy # "torn"

WorkTypes == PlaceTypes /\ HostTypes /\ FileTypes /\ BoundTypes /\ PollTypes /\ asks \subseteq AskRows
WorkInv == WorkTypes /\ ElsewhereStill /\ AsksInStep /\ CopiesApart /\ ProfileKept

LEMMA AskFields ==
    /\ \A a \in AskRows : /\ a.to \in WorkerHosts /\ a.what \in AskKinds /\ a.by \in {"op", "nobody"}
                          /\ a.at \in {"sent", "working", "answered", "refused"}
    /\ \A a \in AskRows, how \in {"sent", "working", "answered", "refused"} :
          LET e == [a EXCEPT !.at = how]
          IN  e \in AskRows /\ e.to = a.to /\ e.what = a.what /\ e.by = a.by /\ e.at = how
    /\ \A a \in AskRows : LET e == [a EXCEPT !.by = "nobody"]
                          IN  e \in AskRows /\ e.to = a.to /\ e.what = a.what /\ e.at = a.at /\ e.by = "nobody"
    /\ \A w \in WorkerHosts, what \in AskKinds, by \in {"op", "nobody"} :
          [to |-> w, what |-> what, by |-> by, at |-> "sent"] \in AskRows
    /\ "main" \notin WorkerHosts /\ Hosts = {"main"} \cup WorkerHosts
  BY WorkersAssumption DEF AskRows, Hosts

LEMMA OpFields ==
    /\ Quiet \in OpRows /\ Quiet.at = "idle"
    /\ \A o \in OpRows : /\ o.at \in {"idle", "start", "undo", "stop", "moveStop", "pull", "push", "clean"}
                         /\ o.to \in Hosts /\ o.again \in BOOLEAN /\ o.copy \in {"none", "whole", "torn"}
    /\ \A o \in OpRows, how \in {"idle", "start", "undo", "stop", "moveStop", "pull", "push", "clean"} :
          LET n == [o EXCEPT !.at = how] IN n \in OpRows /\ n.at = how /\ n.to = o.to /\ n.copy = o.copy
    /\ \A o \in OpRows, copy \in {"none", "whole", "torn"} :
          LET n == [o EXCEPT !.copy = copy] IN n \in OpRows /\ n.at = o.at /\ n.to = o.to /\ n.copy = copy
    /\ \A how \in {"stop", "moveStop", "pull", "push"}, to \in Hosts, again \in BOOLEAN, copy \in {"none", "whole", "torn"} :
          [at |-> how, to |-> to, again |-> again, copy |-> copy] \in OpRows
    /\ [Quiet EXCEPT !.at = "start"] \in OpRows /\ [Quiet EXCEPT !.at = "start"].at = "start"
  BY DEF OpRows, Quiet, Hosts

\* What nobody waits for belongs to no step.
LEMMA NobodysInStep ==
    ASSUME WorkInv, NEW a \in asks, a.by # "op"
    PROVE  InStep(a)'
<1>1. a.by = "nobody" /\ ((a.what = "stop" /\ a.at \in {"sent", "working"}) \/ (a.what = "start" /\ a.at = "working"))
  BY AskFields DEF WorkInv, WorkTypes, AsksInStep, InStep
<1>. QED BY <1>1 DEF InStep

\* What a request becomes when those of some kinds end on a worker.
LEMMA AsksSettled ==
    ASSUME asks \subseteq AskRows, NEW w, NEW kinds, NEW how \in {"answered", "refused"}, NEW e \in Heard(Settle(w, kinds, how))
    PROVE  /\ e \in AskRows /\ (e.by = "nobody" => e.at \notin {"answered", "refused"})
           /\ \E a \in asks : /\ e.to = a.to /\ e.what = a.what /\ e.by = a.by
                              /\ e = a \/ (e.at = how /\ a.to = w /\ a.what \in kinds /\ a.at = "working")
<1>1. PICK a \in asks : e = IF a.to = w /\ a.what \in kinds /\ a.at = "working" THEN [a EXCEPT !.at = how] ELSE a
  BY DEF Heard, Settle
<1>2. e.by = "nobody" => e.at \notin {"answered", "refused"}
  BY DEF Heard
<1>3. a \in AskRows
  OBVIOUS
<1>4. CASE a.to = w /\ a.what \in kinds /\ a.at = "working"
  <2>1. e = [a EXCEPT !.at = how]
    BY <1>1, <1>4
  <2>2. e \in AskRows /\ e.to = a.to /\ e.what = a.what /\ e.by = a.by /\ e.at = how
    BY <1>3, <2>1 DEF AskRows
  <2>. QED BY <1>2, <1>4, <2>2
<1>5. CASE ~(a.to = w /\ a.what \in kinds /\ a.at = "working")
  BY <1>1, <1>2, <1>3, <1>5
<1>. QED BY <1>4, <1>5

LEMMA WorkInitially == WorkersInit => WorkInv
<1>. SUFFICES ASSUME WorkersInit PROVE WorkInv
  OBVIOUS
<1>1. PlaceTypes /\ HostTypes /\ FileTypes
  BY OpFields DEF WorkersInit, PlaceTypes, HostTypes, FileTypes
<1>2. BoundTypes
  <2>1. 0 \in 0..MaxFaults /\ 0 \in 0..MaxMoves
    BY WorkersAssumption
  <2>. QED BY <2>1 DEF WorkersInit, BoundTypes
<1>3. PollTypes
  BY DEF WorkersInit, PollTypes, SquareRows
<1>4. ElsewhereStill /\ AsksInStep /\ CopiesApart /\ ProfileKept /\ asks \subseteq AskRows
  BY OpFields DEF WorkersInit, ElsewhereStill, Still, AsksInStep, CopiesApart, ProfileKept
<1>. QED BY <1>1, <1>2, <1>3, <1>4 DEF WorkInv, WorkTypes

LEMMA WorkCounts ==
    ASSUME BoundTypes
    PROVE  (workerFaults < MaxFaults => workerFaults + 1 \in 0..MaxFaults) /\ (moves < MaxMoves => moves + 1 \in 0..MaxMoves)
<1>1. workerFaults \in Nat /\ moves \in Nat /\ MaxFaults \in Nat /\ MaxMoves \in Nat
  BY WorkersAssumption DEF BoundTypes
<1>. QED BY <1>1

\* The operation takes another step: what it asked before is over, what it asks now belongs to that step.
LEMMA WorkGoesOn ==
    ASSUME WorkInv, PlaceTypes', FileTypes', BoundTypes', PollTypes', UNCHANGED hostVars,
           ElsewhereStill', CopiesApart', ProfileKept',
           \A a \in asks' : a \in Done \/ (a \in AskRows /\ InStep(a)')
    PROVE  WorkInv'
<1>1. HostTypes'
  BY DEF WorkInv, WorkTypes, HostTypes, hostVars
<1>2. asks' \subseteq AskRows
  BY DEF Done, WorkInv, WorkTypes
<1>3. AsksInStep'
  BY NobodysInStep DEF Done, AsksInStep
<1>. QED BY <1>1, <1>2, <1>3 DEF WorkInv, WorkTypes

LEMMA WorkIdle == ASSUME WorkInv, op.at = "idle" PROVE asks = Done
<1>1. \A a \in asks : a.by # "op"
  BY AskFields DEF WorkInv, WorkTypes, AsksInStep, InStep, AskKinds
<1>. QED BY <1>1 DEF Done

\* A move has come to the copy: from a worker, of a profile nothing runs on there.
LEMMA CopyingStep ==
    ASSUME WorkInv, NEW to \in Hosts, to # place, NEW again \in BOOLEAN, Copying(to, again),
           runtime' \in {"none", "live", "exited"}, tracked' \in BOOLEAN, shim' \in {"none"} \cup WorkerHosts,
           escaped' \in BOOLEAN, escaped => escaped', UNCHANGED <<place, hostVars>>,
           FileTypes', BoundTypes', PollTypes', ElsewhereStill', ProfileKept'
    PROVE  WorkInv'
<1>0. PlaceTypes /\ asks \subseteq AskRows
  BY DEF WorkInv, WorkTypes
<1>1. CASE Away
  <2>0. place \in WorkerHosts
    BY <1>0, <1>1, AskFields DEF PlaceTypes, Away
  <2>a. PICK a \in AskRows : a = [to |-> place, what |-> "pull", by |-> "op", at |-> "sent"]
    BY <2>0 DEF AskRows, AskKinds
  <2>1. op' = [at |-> "pull", to |-> to, again |-> again, copy |-> "none"] /\ asks' = Done \cup {a}
    BY <1>1, <2>a DEF Copying, SendsNext
  <2>2. op' \in OpRows /\ op'.at = "pull" /\ op'.to = to /\ op'.copy = "none"
    BY <2>1, OpFields
  <2>3. InStep(a)'
    BY <2>a, <2>2 DEF InStep
  <2>4. PlaceTypes' /\ CopiesApart'
    BY <1>0, <2>0, <2>2 DEF PlaceTypes, CopiesApart
  <2>. QED BY <2>1, <2>3, <2>4, WorkGoesOn
<1>2. CASE ~Away
  <2>. DEFINE a == [to |-> to, what |-> "push", by |-> "op", at |-> "sent"]
  <2>1. PICK copy \in {"none", "whole", "torn"} : copy = (IF escaped THEN "torn" ELSE "whole")
    OBVIOUS
  <2>2. op' = [at |-> "push", to |-> to, again |-> again, copy |-> copy] /\ asks' = Done \cup {a}
    BY <1>2, <2>1 DEF Copying, SendsNext
  <2>3. op' \in OpRows /\ op'.at = "push" /\ op'.to = to /\ op'.copy = copy /\ place = "main" /\ to \in WorkerHosts
    BY <1>0, <1>2, <2>2, OpFields, AskFields DEF PlaceTypes, Away
  <2>4. a \in AskRows /\ InStep(a)'
    BY <2>3 DEF AskRows, AskKinds, InStep
  <2>. HIDE DEF a
  <2>5. PlaceTypes' /\ CopiesApart'
    BY <1>0, <2>1, <2>3, AskFields DEF PlaceTypes, CopiesApart
  <2>. QED BY <2>2, <2>4, <2>5, WorkGoesOn
<1>. QED BY <1>1, <1>2

\* start(), stop() and moveTo() begin.
LEMMA WorkMainStep ==
    ASSUME WorkInv, WorkerMain
    PROVE  WorkInv'
<1>. USE DEF shimVars, hostVars, fileVars, boundVars
<1>0. PlaceTypes /\ HostTypes /\ FileTypes /\ BoundTypes /\ PollTypes /\ asks \subseteq AskRows
      /\ ElsewhereStill /\ AsksInStep /\ CopiesApart /\ ProfileKept
  BY DEF WorkInv, WorkTypes
<1>a. op.at = "idle" /\ asks = Done
  BY WorkIdle DEF WorkerMain, Start, Stop, Move, Working
<1>1. CASE Start
  <2>1. UNCHANGED <<place, tracked, shimVars, poll, hostVars, boundVars>>
    BY <1>1 DEF Start
  <2>2. CASE Away
    <3>0. place \in WorkerHosts
      BY <1>0, <2>2, AskFields DEF PlaceTypes, Away
    <3>a. PICK a \in AskRows : a = [to |-> place, what |-> "start", by |-> "op", at |-> "sent"]
      BY <3>0 DEF AskRows, AskKinds
    <3>1. op' = [op EXCEPT !.at = "start"] /\ asks' = asks \cup {a} /\ UNCHANGED <<runtime, fileVars>>
      BY <1>1, <2>2, <3>a DEF Start, Sends
    <3>2. op' \in OpRows /\ op'.at = "start"
      BY <1>0, <3>1, OpFields DEF PlaceTypes
    <3>3. InStep(a)'
      BY <2>1, <3>a, <3>2 DEF InStep
    <3>4. PlaceTypes' /\ FileTypes' /\ BoundTypes' /\ PollTypes' /\ ElsewhereStill' /\ CopiesApart' /\ ProfileKept'
      BY <1>0, <2>1, <3>1, <3>2 DEF PlaceTypes, FileTypes, BoundTypes, PollTypes, ElsewhereStill, Still, CopiesApart, ProfileKept
    <3>. QED BY <1>a, <2>1, <3>1, <3>3, <3>4, WorkGoesOn
  <2>3. CASE ~Away
    <3>1. RunsHere /\ UNCHANGED <<op, asks>> /\ place = "main"
      BY <1>1, <2>3 DEF Start, Away
    <3>2. PlaceTypes' /\ FileTypes' /\ BoundTypes' /\ PollTypes' /\ ElsewhereStill' /\ CopiesApart' /\ ProfileKept'
      BY <1>0, <1>a, <2>1, <3>1, AskFields DEF RunsHere, PlaceTypes, FileTypes, BoundTypes, PollTypes, ElsewhereStill, Still, CopiesApart, ProfileKept
    <3>. QED BY <1>a, <2>1, <3>1, <3>2, WorkGoesOn
  <2>. QED BY <2>2, <2>3
<1>2. CASE Stop
  <2>1. UNCHANGED <<place, shimVars, poll, hostVars, fileVars, boundVars>> /\ Closes("stop", place, FALSE)
    BY <1>2 DEF Stop
  <2>2. CASE shim = "none"
    <3>1. runtime' = "none" /\ UNCHANGED <<tracked, op, asks>>
      BY <2>1, <2>2 DEF Closes
    <3>2. PlaceTypes' /\ FileTypes' /\ BoundTypes' /\ PollTypes' /\ ElsewhereStill' /\ CopiesApart' /\ ProfileKept'
      BY <1>0, <2>1, <3>1 DEF PlaceTypes, FileTypes, BoundTypes, PollTypes, ElsewhereStill, Still, CopiesApart, ProfileKept
    <3>. QED BY <1>a, <2>1, <3>1, <3>2, WorkGoesOn
  <2>3. CASE shim # "none"
    <3>0. shim \in WorkerHosts
      BY <1>0, <2>3 DEF PlaceTypes
    <3>a. PICK a \in AskRows : a = [to |-> shim, what |-> "stop", by |-> "op", at |-> "sent"]
      BY <3>0 DEF AskRows, AskKinds
    <3>1. tracked' = FALSE /\ op' = [at |-> "stop", to |-> place, again |-> FALSE, copy |-> "none"] /\ asks' = asks \cup {a} /\ runtime' = runtime
      BY <2>1, <2>3, <3>a DEF Closes, Sends
    <3>2. op' \in OpRows /\ op'.at = "stop"
      BY <1>0, <3>1, OpFields DEF PlaceTypes
    <3>3. InStep(a)'
      BY <3>a, <3>2 DEF InStep
    <3>4. PlaceTypes' /\ FileTypes' /\ BoundTypes' /\ PollTypes' /\ ElsewhereStill' /\ CopiesApart' /\ ProfileKept'
      BY <1>0, <2>1, <3>1, <3>2 DEF PlaceTypes, FileTypes, BoundTypes, PollTypes, ElsewhereStill, Still, CopiesApart, ProfileKept
    <3>. QED BY <1>a, <2>1, <3>1, <3>3, <3>4, WorkGoesOn
  <2>. QED BY <2>2, <2>3
<1>3. ASSUME NEW to \in Hosts, Move(to) PROVE WorkInv'
  <2>1. /\ to # place /\ UNCHANGED <<place, shimVars, poll, hostVars, newest, used, workerFaults>> /\ moves < MaxMoves /\ moves' = moves + 1
        /\ copies' = IF Away THEN copies ELSE copies \cup {"main"}
    BY <1>3 DEF Move
  <2>2. FileTypes' /\ BoundTypes' /\ PollTypes' /\ ElsewhereStill' /\ ProfileKept'
    BY <1>0, <2>1, AskFields, WorkCounts DEF FileTypes, BoundTypes, PollTypes, ElsewhereStill, Still, ProfileKept
  <2>3. CASE runtime = "live" /\ shim # "none"
    <3>0. shim \in WorkerHosts
      BY <1>0, <2>3 DEF PlaceTypes
    <3>a. PICK a \in AskRows : a = [to |-> shim, what |-> "stop", by |-> "op", at |-> "sent"]
      BY <3>0 DEF AskRows, AskKinds
    <3>1. tracked' = FALSE /\ op' = [at |-> "moveStop", to |-> to, again |-> TRUE, copy |-> "none"] /\ asks' = asks \cup {a} /\ runtime' = runtime
      BY <1>3, <2>3, <3>a DEF Move, Closes, Sends
    <3>2. op' \in OpRows /\ op'.at = "moveStop" /\ op'.to = to
      BY <1>0, <3>1, OpFields DEF PlaceTypes
    <3>3. InStep(a)'
      BY <3>a, <3>2 DEF InStep
    <3>4. PlaceTypes' /\ CopiesApart'
      BY <1>0, <2>1, <3>1, <3>2 DEF PlaceTypes, CopiesApart
    <3>. QED BY <1>a, <2>1, <2>2, <3>1, <3>3, <3>4, WorkGoesOn
  <2>4. CASE ~(runtime = "live" /\ shim # "none")
    <3>1. /\ Copying(to, runtime = "live") /\ tracked' = tracked /\ runtime' \in {runtime, "none"}
      BY <1>3, <2>4 DEF Move
    <3>. QED BY <1>0, <1>a, <2>1, <2>2, <3>1, CopyingStep DEF PlaceTypes
  <2>. QED BY <2>3, <2>4
<1>. QED BY <1>1, <1>2, <1>3 DEF WorkerMain

\* moveTo starts again what it stopped.
LEMMA ResumesStep ==
    ASSUME WorkInv, Resumes, UNCHANGED <<place, tracked, shimVars, poll, hostVars, boundVars>>
    PROVE  WorkInv'
<1>. USE DEF shimVars, hostVars, fileVars, boundVars
<1>0. PlaceTypes /\ FileTypes /\ BoundTypes /\ PollTypes /\ ElsewhereStill /\ ProfileKept
  BY DEF WorkInv, WorkTypes
<1>1. BoundTypes' /\ PollTypes' /\ ElsewhereStill'
  BY <1>0 DEF BoundTypes, PollTypes, ElsewhereStill, Still
<1>2. CASE ~op.again
  <2>1. op' = Quiet /\ asks' = Done /\ UNCHANGED <<runtime, fileVars>>
    BY <1>2 DEF Resumes
  <2>2. PlaceTypes' /\ FileTypes' /\ CopiesApart' /\ ProfileKept'
    BY <1>0, <2>1, OpFields DEF PlaceTypes, FileTypes, CopiesApart, ProfileKept
  <2>. QED BY <1>1, <2>1, <2>2, WorkGoesOn
<1>3. CASE op.again /\ Away
  <2>1. place \in WorkerHosts
    BY <1>0, <1>3, AskFields DEF PlaceTypes, Away
  <2>2. PICK a \in AskRows : a = [to |-> place, what |-> "start", by |-> "op", at |-> "sent"]
    BY <2>1 DEF AskRows, AskKinds
  <2>3. op' = [Quiet EXCEPT !.at = "start"] /\ asks' = Done \cup {a} /\ UNCHANGED <<runtime, fileVars>>
    BY <1>3, <2>2 DEF Resumes, SendsNext
  <2>4. op' \in OpRows /\ op'.at = "start"
    BY <2>3, OpFields
  <2>5. InStep(a)'
    BY <2>2, <2>4 DEF InStep
  <2>6. PlaceTypes' /\ FileTypes' /\ CopiesApart' /\ ProfileKept'
    BY <1>0, <2>3, <2>4 DEF PlaceTypes, FileTypes, CopiesApart, ProfileKept
  <2>. QED BY <1>1, <2>3, <2>5, <2>6, WorkGoesOn
<1>4. CASE op.again /\ ~Away
  <2>1. RunsHere /\ op' = Quiet /\ asks' = Done /\ place = "main"
    BY <1>4 DEF Resumes, Away
  <2>2. PlaceTypes' /\ FileTypes' /\ CopiesApart' /\ ProfileKept'
    BY <1>0, <2>1, OpFields, AskFields DEF RunsHere, PlaceTypes, FileTypes, CopiesApart, ProfileKept
  <2>. QED BY <1>1, <2>1, <2>2, WorkGoesOn
<1>. QED BY <1>2, <1>3, <1>4

\* The row changes hands, from a host where nothing runs to one that has what is newest.
LEMMA HandsOver ==
    ASSUME WorkInv, op.at \in {"pull", "push"}, place \in WorkerHosts => Still(place),
           place' = op.to, op' = [op EXCEPT !.at = "clean"], asks' = Lets(place),
           UNCHANGED <<runtime, tracked, shimVars, poll, hostVars, boundVars>>, FileTypes', ProfileKept'
    PROVE  WorkInv'
<1>. USE DEF shimVars, hostVars, boundVars
<1>0. PlaceTypes /\ BoundTypes /\ PollTypes /\ ElsewhereStill /\ CopiesApart
  BY DEF WorkInv, WorkTypes
<1>1. BoundTypes' /\ PollTypes' /\ ElsewhereStill'
  BY <1>0 DEF BoundTypes, PollTypes, ElsewhereStill, Still
<1>2. op' \in OpRows /\ op'.at = "clean" /\ op.to \in Hosts /\ op.to # place
  BY <1>0, OpFields DEF PlaceTypes, CopiesApart
<1>3. PlaceTypes' /\ CopiesApart'
  BY <1>0, <1>2 DEF PlaceTypes, CopiesApart
<1>4. CASE place = "main"
  <2>1. asks' = Done
    BY <1>4 DEF Lets
  <2>. QED BY <1>1, <1>3, <2>1, WorkGoesOn
<1>5. CASE place # "main"
  <2>1. place \in WorkerHosts
    BY <1>0, <1>5, AskFields DEF PlaceTypes
  <2>2. PICK a \in AskRows : a = [to |-> place, what |-> "delete", by |-> "op", at |-> "sent"]
    BY <2>1 DEF AskRows, AskKinds
  <2>3. asks' = Done \cup {a}
    BY <1>5, <2>2 DEF Lets, SendsNext
  <2>4. InStep(a)'
    BY <1>2, <2>2 DEF InStep
  <2>. QED BY <1>1, <1>3, <2>3, <2>4, WorkGoesOn
<1>. QED BY <1>4, <1>5

LEMMA WorkStepsStep ==
    ASSUME WorkInv, WorkerSteps
    PROVE  WorkInv'
<1>. USE DEF shimVars, hostVars, fileVars, boundVars
<1>0. PlaceTypes /\ HostTypes /\ FileTypes /\ BoundTypes /\ PollTypes /\ asks \subseteq AskRows
      /\ ElsewhereStill /\ AsksInStep /\ CopiesApart /\ ProfileKept
  BY DEF WorkInv, WorkTypes
<1>1. CASE Started
  <2>1. /\ runtime' = "live" /\ tracked' = TRUE /\ shim' = place /\ op' = Quiet /\ asks' = Done
        /\ poll' = [w \in WorkerHosts |-> [poll[w] EXCEPT !.before = TRUE]]
        /\ UNCHANGED <<place, escaped, hostVars, fileVars, boundVars>>
    BY <1>1 DEF Started
  <2>2. place \in WorkerHosts
    <3>1. PICK a \in asks : a.by = "op" /\ a.what = "start"
      BY <1>1 DEF Started, Reply
    <3>. QED BY <1>0, <3>1, AskFields DEF AsksInStep, InStep
  <2>3. PollTypes'
    <3>1. \A r \in SquareRows : [r EXCEPT !.before = TRUE] \in SquareRows
      BY DEF SquareRows
    <3>. QED BY <1>0, <2>1, <3>1 DEF PollTypes
  <2>4. PlaceTypes' /\ FileTypes' /\ BoundTypes' /\ ElsewhereStill' /\ CopiesApart' /\ ProfileKept'
    BY <1>0, <2>1, <2>2, OpFields DEF PlaceTypes, FileTypes, BoundTypes, ElsewhereStill, Still, CopiesApart, ProfileKept
  <2>. QED BY <2>1, <2>3, <2>4, WorkGoesOn
<1>2. CASE EndpointFails
  <2>1. op' = [op EXCEPT !.at = "undo"] /\ asks' = SendsNext(place, "stop")
        /\ UNCHANGED <<place, runtime, tracked, shimVars, poll, hostVars, fileVars, boundVars>>
    BY <1>2 DEF EndpointFails
  <2>2. PICK b \in asks : b.by = "op" /\ b.what = "start"
    BY <1>2 DEF EndpointFails, Reply
  <2>3. place \in WorkerHosts
    BY <1>0, <2>2, AskFields DEF AsksInStep, InStep
  <2>4. PICK a \in AskRows : a = [to |-> place, what |-> "stop", by |-> "op", at |-> "sent"]
    BY <2>3 DEF AskRows, AskKinds
  <2>5. op' \in OpRows /\ op'.at = "undo" /\ asks' = Done \cup {a}
    <3>1. op \in OpRows
      BY <1>0 DEF PlaceTypes
    <3>2. \A o \in OpRows : [o EXCEPT !.at = "undo"] \in OpRows /\ [o EXCEPT !.at = "undo"].at = "undo"
      BY DEF OpRows
    <3>3. asks' = Done \cup {a}
      BY ONLY <2>1, <2>4 DEF SendsNext
    <3>. QED BY ONLY <2>1, <3>1, <3>2, <3>3
  <2>6. InStep(a)'
    BY <2>4, <2>5 DEF InStep
  <2>7. PlaceTypes' /\ FileTypes' /\ BoundTypes' /\ PollTypes' /\ ElsewhereStill' /\ CopiesApart' /\ ProfileKept'
    BY <1>0, <2>1, <2>5 DEF PlaceTypes, FileTypes, BoundTypes, PollTypes, ElsewhereStill, Still, CopiesApart, ProfileKept
  <2>. QED BY <2>1, <2>5, <2>6, <2>7, WorkGoesOn
<1>3. CASE StartFails
  <2>1. op' = Quiet /\ asks' = Done /\ UNCHANGED <<place, runtime, tracked, shimVars, poll, hostVars, fileVars, boundVars>>
    BY <1>3 DEF StartFails
  <2>2. PlaceTypes' /\ FileTypes' /\ BoundTypes' /\ PollTypes' /\ ElsewhereStill' /\ CopiesApart' /\ ProfileKept'
    BY <1>0, <2>1, OpFields DEF PlaceTypes, FileTypes, BoundTypes, PollTypes, ElsewhereStill, Still, CopiesApart, ProfileKept
  <2>. QED BY <2>1, <2>2, WorkGoesOn
<1>4. CASE Stopped
  <2>1. Closed /\ op' = Quiet /\ asks' = Done /\ UNCHANGED <<place, tracked, poll, hostVars, fileVars, boundVars>>
    BY <1>4 DEF Stopped
  <2>2. PlaceTypes' /\ FileTypes' /\ BoundTypes' /\ PollTypes' /\ ElsewhereStill' /\ CopiesApart' /\ ProfileKept'
    BY <1>0, <2>1, OpFields DEF Closed, PlaceTypes, FileTypes, BoundTypes, PollTypes, ElsewhereStill, Still, CopiesApart, ProfileKept
  <2>. QED BY <2>1, <2>2, WorkGoesOn
<1>5. CASE MoveStopped
  <2>1. Closed /\ Copying(op.to, TRUE) /\ UNCHANGED <<place, tracked, poll, hostVars, fileVars, boundVars>> /\ op.at = "moveStop"
    BY <1>5 DEF MoveStopped
  <2>2. op.to \in Hosts /\ op.to # place
    BY <1>0, <2>1, OpFields DEF PlaceTypes, CopiesApart
  <2>3. FileTypes' /\ BoundTypes' /\ PollTypes' /\ ElsewhereStill' /\ ProfileKept' /\ escaped' \in BOOLEAN /\ (escaped => escaped')
    BY <1>0, <2>1 DEF Closed, PlaceTypes, FileTypes, BoundTypes, PollTypes, ElsewhereStill, Still, ProfileKept
  <2>4. PICK to \in Hosts : to = op.to
    BY <2>2
  <2>. QED BY <1>0, <2>1, <2>2, <2>3, <2>4, CopyingStep DEF PlaceTypes, Closed
<1>6. CASE Pulled
  <2>1. PICK a \in asks : a.what = "pull" /\ a.at = "answered" /\ op.at = "pull"
    BY <1>6 DEF Pulled, Reply
  <2>2. /\ Still(place)
        /\ op.copy = "whole" \/ (op.copy = "none" /\ place \notin copies)
        /\ place \in WorkerHosts /\ op.to \in Hosts /\ op.to # place
    BY <1>0, <2>1, OpFields DEF AsksInStep, InStep, CopiesApart, PlaceTypes
  <2>3. UNCHANGED <<runtime, tracked, shimVars, poll, hostVars, boundVars>>
    BY <1>6 DEF Pulled
  <2>4. CASE op.to = "main"
    <3>1. /\ place' = op.to /\ op' = [op EXCEPT !.at = "clean"] /\ asks' = Lets(place)
          /\ (op.copy = "none" /\ copies' = copies \cup {"main"} /\ UNCHANGED <<newest, used>>) \/ (op.copy # "none" /\ Lands("main", place, op.copy))
      BY <1>6, <2>4 DEF Pulled
    <3>2. FileTypes' /\ ProfileKept'
      BY <1>0, <2>2, <2>3, <2>4, <3>1, AskFields DEF FileTypes, ProfileKept, Lands
    <3>. QED BY <2>1, <2>2, <2>3, <3>1, <3>2, HandsOver
  <2>5. CASE op.to # "main" /\ op.copy = "none"
    <3>1. place' = op.to /\ op' = [op EXCEPT !.at = "clean"] /\ asks' = Lets(place) /\ UNCHANGED fileVars
      BY <1>6, <2>5 DEF Pulled
    <3>2. FileTypes' /\ ProfileKept'
      BY <1>0, <2>2, <2>3, <2>5, <3>1 DEF FileTypes, ProfileKept
    <3>. QED BY <2>1, <2>2, <2>3, <3>1, <3>2, HandsOver
  <2>6. CASE op.to # "main" /\ op.copy # "none"
    <3>1. op' = [op EXCEPT !.at = "push"] /\ asks' = SendsNext(op.to, "push") /\ UNCHANGED <<place, fileVars>>
      BY <1>6, <2>6 DEF Pulled
    <3>2. op.to \in WorkerHosts
      BY <2>2, <2>6, AskFields
    <3>3. PICK b \in AskRows : b = [to |-> op.to, what |-> "push", by |-> "op", at |-> "sent"]
      BY <3>2 DEF AskRows, AskKinds
    <3>4. op' \in OpRows /\ op'.at = "push" /\ op'.to = op.to /\ op'.copy = "whole" /\ asks' = Done \cup {b}
      <4>1. op' \in OpRows /\ op'.at = "push" /\ op'.to = op.to /\ op'.copy = "whole"
        <5>1. op \in OpRows
          BY <1>0 DEF PlaceTypes
        <5>2. op.copy = "whole"
          BY ONLY <2>2, <2>6
        <5>3. op' = [op EXCEPT !.at = "push"]
          BY ONLY <3>1
        <5>4. \A o \in OpRows : LET n == [o EXCEPT !.at = "push"]
                                IN  n \in OpRows /\ n.at = "push" /\ n.to = o.to /\ n.copy = o.copy
          BY DEF OpRows
        <5>. QED BY ONLY <5>1, <5>2, <5>3, <5>4
      <4>2. asks' = Done \cup {b}
        BY ONLY <3>1, <3>3 DEF SendsNext
      <4>. QED BY ONLY <4>1, <4>2
    <3>5. InStep(b)'
      BY <3>3, <3>4 DEF InStep
    <3>6. PlaceTypes' /\ FileTypes' /\ BoundTypes' /\ PollTypes' /\ ElsewhereStill' /\ CopiesApart' /\ ProfileKept'
      BY <1>0, <2>2, <2>3, <3>1, <3>4 DEF PlaceTypes, FileTypes, BoundTypes, PollTypes, ElsewhereStill, Still, CopiesApart, ProfileKept
    <3>. QED BY <2>3, <3>4, <3>5, <3>6, WorkGoesOn
  <2>. QED BY <2>4, <2>5, <2>6
<1>7. CASE Pushed
  <2>1. PICK a \in asks : a.what = "push" /\ a.at = "answered" /\ op.at = "push"
    BY <1>7 DEF Pushed, Reply
  <2>2. /\ used /\ ~escaped => op.to \in newest
        /\ place \in WorkerHosts => Still(place)
        /\ op.to # place
    BY <1>0, <2>1 DEF AsksInStep, InStep, CopiesApart
  <2>3. place' = op.to /\ Forgets(place) /\ op' = [op EXCEPT !.at = "clean"] /\ asks' = Lets(place)
        /\ UNCHANGED <<runtime, tracked, shimVars, poll, hostVars, boundVars>>
    BY <1>7 DEF Pushed
  <2>4. FileTypes' /\ ProfileKept'
    BY <1>0, <2>2, <2>3 DEF FileTypes, ProfileKept, Forgets
  <2>. QED BY <2>1, <2>2, <2>3, <2>4, HandsOver
<1>8. CASE MoveFails
  BY <1>8, ResumesStep DEF MoveFails
<1>9. CASE Cleaned
  BY <1>9, ResumesStep DEF Cleaned
<1>. QED BY <1>1, <1>2, <1>3, <1>4, <1>5, <1>6, <1>7, <1>8, <1>9 DEF WorkerSteps

\* One request goes on.
LEMMA Became ==
    ASSUME asks \subseteq AskRows, NEW a \in asks, NEW how \in {"working", "answered", "refused"}
    PROVE  \E e \in AskRows : /\ e.to = a.to /\ e.what = a.what /\ e.by = a.by /\ e.at = how
                              /\ Becomes(a, how) \subseteq asks \cup {e}
                              /\ Heard(Becomes(a, how)) \subseteq asks \cup {e}
                              /\ \A x \in Heard(Becomes(a, how)) : x.by = "nobody" => x.at \notin {"answered", "refused"}
<1>1. PICK e \in AskRows : e = [a EXCEPT !.at = how] /\ e.to = a.to /\ e.what = a.what /\ e.by = a.by /\ e.at = how
  <2>1. a \in AskRows
    OBVIOUS
  <2>2. [a EXCEPT !.at = how] \in AskRows
    BY <2>1 DEF AskRows
  <2>3. LET e == [a EXCEPT !.at = how] IN e.to = a.to /\ e.what = a.what /\ e.by = a.by /\ e.at = how
    BY <2>1 DEF AskRows
  <2>. QED BY <2>2, <2>3
<1>2. Becomes(a, how) \subseteq asks \cup {e}
  BY <1>1 DEF Becomes
<1>3. /\ Heard(Becomes(a, how)) \subseteq asks \cup {e}
      /\ \A x \in Heard(Becomes(a, how)) : x.by = "nobody" => x.at \notin {"answered", "refused"}
  BY <1>2 DEF Heard
<1>. QED BY <1>1, <1>2, <1>3

\* The main instance does not move, nor does any profile; and what answers there are say what is so.
LEMMA WorkHears ==
    ASSUME WorkInv, UNCHANGED <<place, op, escaped, fileVars>>, PlaceTypes', HostTypes', BoundTypes', PollTypes',
           ElsewhereStill', place \in WorkerHosts /\ Still(place) => Still(place)',
           \A e \in asks' : \/ e \in asks
                            \/ /\ e \in AskRows
                               /\ e.by = "nobody" => (e.what = "stop" /\ e.at \in {"sent", "working"}) \/ (e.what = "start" /\ e.at = "working")
                               /\ e.what \in {"pull", "push", "delete"} => e.at = "refused"
                               /\ e.by = "op" => \E a \in asks : e.to = a.to /\ e.what = a.what /\ a.by = "op"
    PROVE  WorkInv'
<1>. USE DEF fileVars
<1>0. PlaceTypes /\ FileTypes /\ asks \subseteq AskRows /\ AsksInStep /\ CopiesApart /\ ProfileKept
  BY DEF WorkInv, WorkTypes
<1>1. FileTypes' /\ CopiesApart' /\ ProfileKept' /\ asks' \subseteq AskRows
  BY <1>0 DEF FileTypes, CopiesApart, ProfileKept
<1>2. ASSUME NEW e \in asks' PROVE InStep(e)'
  <2>1. CASE e \in asks
    <3>1. InStep(e) /\ e \in AskRows
      BY <1>0, <2>1 DEF AsksInStep
    <3>2. e.what = "pull" => e.to = place /\ place \in WorkerHosts
      BY <3>1, AskFields DEF InStep
    <3>. QED BY <3>1, <3>2 DEF InStep
  <2>2. CASE e \notin asks
    <3>1. /\ e \in AskRows
          /\ e.by = "nobody" => (e.what = "stop" /\ e.at \in {"sent", "working"}) \/ (e.what = "start" /\ e.at = "working")
          /\ e.what \in {"pull", "push", "delete"} => e.at = "refused"
          /\ e.by = "op" => \E a \in asks : e.to = a.to /\ e.what = a.what /\ a.by = "op"
      BY <2>2
    <3>2. CASE e.by = "op"
      <4>1. PICK a \in asks : e.to = a.to /\ e.what = a.what /\ a.by = "op"
        BY <3>1, <3>2
      <4>2. InStep(a)
        BY <1>0 DEF AsksInStep
      <4>. QED BY <3>1, <3>2, <4>1, <4>2 DEF InStep
    <3>3. CASE e.by = "nobody"
      BY <3>1, <3>3 DEF InStep
    <3>. QED BY <3>1, <3>2, <3>3, AskFields
  <2>. QED BY <2>1, <2>2
<1>. QED BY <1>0, <1>1, <1>2 DEF WorkInv, WorkTypes, AsksInStep

\* What runs on a worker runs on the one the row names, and no copy of it is under way.
LEMMA Runs ==
    ASSUME WorkInv, NEW w \in WorkerHosts, ~Still(w)
    PROVE  /\ w = place /\ op.at # "push"
           /\ \A a \in asks : a.what = "pull" => a.at \in {"sent", "refused"}
  BY AskFields DEF WorkInv, WorkTypes, ElsewhereStill, CopiesApart, AsksInStep, InStep

\* The worker's Chrome starts or ends.
LEMMA ChromeStep ==
    ASSUME WorkInv, NEW w \in WorkerHosts, Launched(w) \/ ChromeClosed(w) \/ ChromeDies(w)
    PROVE  WorkInv'
<1>. USE DEF shimVars, hostVars, fileVars, boundVars, mainVars
<1>0. PlaceTypes /\ HostTypes /\ FileTypes /\ BoundTypes /\ PollTypes /\ asks \subseteq AskRows
      /\ ElsewhereStill /\ AsksInStep /\ CopiesApart /\ ProfileKept
  BY DEF WorkInv, WorkTypes
<1>1. ~Still(w)
  BY DEF Launched, ChromeClosed, ChromeDies, Still
<1>2. w = place
  BY <1>1, Runs
<1>3. CASE Launched(w)
  <2>1. UNCHANGED <<mainVars, poll, closing, fileVars, boundVars>> /\ launching' = [launching EXCEPT ![w] = FALSE]
    BY <1>3 DEF Launched
  <2>2. PICK how \in {"answered", "refused"} : asks' = Heard(Settle(w, {"start"}, how))
    BY <1>3 DEF Launched
  <2>3. chrome' \in [WorkerHosts -> {"none", "alive", "dead"}] /\ \A v \in WorkerHosts \ {w} : chrome'[v] = chrome[v]
    BY <1>0, <1>3 DEF Launched, HostTypes
  <2>4. PlaceTypes' /\ HostTypes' /\ BoundTypes' /\ PollTypes' /\ ElsewhereStill'
    BY <1>0, <1>2, <2>1, <2>3 DEF PlaceTypes, HostTypes, BoundTypes, PollTypes, ElsewhereStill, Still
  <2>5. ASSUME NEW e \in asks' PROVE \/ e \in asks
                                     \/ e \in AskRows /\ e.by = "op" /\ e.what = "start" /\ \E a \in asks : e.to = a.to /\ e.what = a.what /\ a.by = "op"
    BY <1>0, <2>2, AsksSettled, AskFields
  <2>. QED BY <1>1, <1>2, <2>1, <2>4, <2>5, WorkHears
<1>4. CASE ChromeClosed(w)
  <2>1. \A a \in asks : a.what = "delete" => a.at # "working"
    BY <1>0 DEF AsksInStep, InStep
  <2>2. /\ UNCHANGED <<mainVars, poll, chrome, launching, fileVars, boundVars>> /\ closing' = [closing EXCEPT ![w] = FALSE]
        /\ asks' = Heard(Settle(w, {"stop", "delete"}, "answered"))
    BY <1>4, <2>1 DEF ChromeClosed
  <2>3. PlaceTypes' /\ HostTypes' /\ BoundTypes' /\ PollTypes' /\ ElsewhereStill'
    BY <1>0, <1>2, <2>2 DEF PlaceTypes, HostTypes, BoundTypes, PollTypes, ElsewhereStill, Still
  <2>4. ASSUME NEW e \in asks' PROVE \/ e \in asks
                                     \/ e \in AskRows /\ e.by = "op" /\ e.what = "stop" /\ \E a \in asks : e.to = a.to /\ e.what = a.what /\ a.by = "op"
    <3>1. PICK a \in asks : /\ e.to = a.to /\ e.what = a.what /\ e.by = a.by
                            /\ e = a \/ (e.at = "answered" /\ a.what \in {"stop", "delete"} /\ a.at = "working")
      BY <1>0, <2>2, AsksSettled
    <3>2. e \in AskRows /\ (e.by = "nobody" => e.at \notin {"answered", "refused"})
      BY <1>0, <2>2, AsksSettled
    <3>. QED BY <2>1, <3>1, <3>2, AskFields
  <2>. QED BY <1>1, <1>2, <2>2, <2>3, <2>4, WorkHears
<1>5. CASE ChromeDies(w)
  <2>1. /\ UNCHANGED <<mainVars, asks, poll, launching, closing, fileVars, moves>> /\ chrome' = [chrome EXCEPT ![w] = "dead"]
        /\ workerFaults < MaxFaults /\ workerFaults' = workerFaults + 1
    BY <1>5 DEF ChromeDies
  <2>2. BoundTypes'
    BY <1>0, <2>1, WorkCounts DEF BoundTypes
  <2>3. PlaceTypes' /\ HostTypes' /\ PollTypes' /\ ElsewhereStill'
    BY <1>0, <1>2, <2>1 DEF PlaceTypes, HostTypes, PollTypes, ElsewhereStill, Still
  <2>. QED BY <1>1, <1>2, <2>1, <2>2, <2>3, WorkHears
<1>. QED BY <1>3, <1>4, <1>5

\* The worker takes a request up.
LEMMA ReceiveStep ==
    ASSUME WorkInv, NEW a \in asks, ReceiveStart(a) \/ ReceiveStop(a)
    PROVE  WorkInv'
<1>. USE DEF shimVars, hostVars, fileVars, boundVars, mainVars
<1>0. PlaceTypes /\ HostTypes /\ FileTypes /\ BoundTypes /\ PollTypes /\ asks \subseteq AskRows
      /\ ElsewhereStill /\ AsksInStep /\ CopiesApart /\ ProfileKept
  BY DEF WorkInv, WorkTypes
<1>1. a \in AskRows /\ InStep(a) /\ a.at = "sent"
  BY <1>0 DEF AsksInStep, ReceiveStart, ReceiveStop
<1>2. PICK w \in WorkerHosts : w = a.to
  BY <1>1, AskFields
<1>3. CASE ReceiveStart(a)
  <2>1. a.what = "start" /\ a.by = "op" /\ w = place /\ op.at = "start" /\ UNCHANGED <<mainVars, poll, boundVars>>
    BY <1>1, <1>2, <1>3, AskFields DEF ReceiveStart, InStep
  <2>2. PICK how \in {"working", "answered", "refused"} :
           asks' = Becomes(a, how) \/ asks' = Heard(Becomes(a, how))
    BY <1>3 DEF ReceiveStart
  <2>3. PICK e \in AskRows : e.to = a.to /\ e.what = a.what /\ e.by = a.by /\ e.at = how /\ asks' \subseteq asks \cup {e}
    BY <1>0, <2>2, Became
  <2>4. CASE UNCHANGED <<hostVars, fileVars>>
    <3>1. PlaceTypes' /\ HostTypes' /\ BoundTypes' /\ PollTypes' /\ ElsewhereStill'
      BY <1>0, <2>1, <2>4 DEF PlaceTypes, HostTypes, BoundTypes, PollTypes, ElsewhereStill, Still
    <3>2. Still(place)' = Still(place)
      BY <2>1, <2>4 DEF Still
    <3>. QED BY <2>1, <2>3, <2>4, <3>1, <3>2, WorkHears
  <2>5. CASE ~UNCHANGED <<hostVars, fileVars>>
    <3>1. /\ launching' = [launching EXCEPT ![w] = TRUE] /\ chrome' = [chrome EXCEPT ![w] = "none"]
          /\ copies' = copies \cup {w} /\ newest' = {w} /\ used' = TRUE /\ closing' = closing
      BY <1>2, <1>3, <2>5 DEF ReceiveStart
    <3>2. PlaceTypes' /\ HostTypes' /\ FileTypes' /\ BoundTypes' /\ PollTypes' /\ ElsewhereStill' /\ ProfileKept' /\ CopiesApart'
      BY <1>0, <2>1, <3>1, AskFields DEF PlaceTypes, HostTypes, FileTypes, BoundTypes, PollTypes, ElsewhereStill, Still, ProfileKept, CopiesApart
    <3>3. ASSUME NEW x \in asks' PROVE x \in AskRows /\ InStep(x)'
      <4>1. x \in AskRows /\ (x = e \/ InStep(x))
        BY <1>0, <2>3 DEF AsksInStep
      <4>2. x.what \notin {"pull", "push", "delete"} /\ (x = e => x.by = "op" /\ x.what = "start" /\ x.to = place)
        BY <1>2, <2>1, <2>3, <4>1 DEF InStep
      <4>. QED BY <2>1, <4>1, <4>2 DEF InStep
    <3>. QED BY <3>2, <3>3 DEF WorkInv, WorkTypes, AsksInStep
  <2>. QED BY <2>4, <2>5
<1>4. CASE ReceiveStop(a) /\ (closing[w] \/ chrome[w] # "none")
  <2>1. w = place /\ a.what = "stop" /\ ~Still(place)
    BY <1>1, <1>2, <1>4, Runs DEF ReceiveStop, InStep, Still
  <2>2. /\ asks' = Becomes(a, "working") /\ closing' = [closing EXCEPT ![w] = TRUE]
        /\ chrome' = [chrome EXCEPT ![w] = IF closing[w] THEN @ ELSE "none"]
        /\ UNCHANGED <<fileVars, mainVars, poll, launching, boundVars>>
    BY <1>2, <1>4 DEF ReceiveStop
  <2>3. PICK e \in AskRows : e.to = a.to /\ e.what = a.what /\ e.by = a.by /\ e.at = "working" /\ asks' \subseteq asks \cup {e}
    BY <1>0, <2>2, Became
  <2>4. PlaceTypes' /\ HostTypes' /\ BoundTypes' /\ PollTypes' /\ ElsewhereStill'
    BY <1>0, <2>1, <2>2 DEF PlaceTypes, HostTypes, BoundTypes, PollTypes, ElsewhereStill, Still
  <2>. QED BY <2>1, <2>2, <2>3, <2>4, WorkHears
<1>5. CASE ReceiveStop(a) /\ ~(closing[w] \/ chrome[w] # "none")
  <2>1. /\ asks' = Heard(Becomes(a, "answered"))
        /\ copies' = IF a.what = "delete" THEN copies \ {w} ELSE copies
        /\ newest' = IF a.what = "delete" THEN newest \ {w} ELSE newest
        /\ UNCHANGED <<mainVars, poll, hostVars, used, boundVars>>
    BY <1>2, <1>5 DEF ReceiveStop
  <2>2. PICK e \in AskRows : /\ e.to = a.to /\ e.what = a.what /\ e.by = a.by /\ e.at = "answered" /\ asks' \subseteq asks \cup {e}
                             /\ \A x \in asks' : x.by = "nobody" => x.at \notin {"answered", "refused"}
    BY <1>0, <2>1, Became
  <2>3. PlaceTypes' /\ HostTypes' /\ BoundTypes' /\ PollTypes' /\ ElsewhereStill' /\ (Still(place)' = Still(place))
    BY <1>0, <2>1 DEF PlaceTypes, HostTypes, BoundTypes, PollTypes, ElsewhereStill, Still
  <2>4. CASE a.what = "delete"
    <3>1. w # place /\ op.at = "clean"
      BY <1>1, <1>2, <2>4 DEF InStep
    <3>2. FileTypes' /\ ProfileKept' /\ CopiesApart'
      BY <1>0, <2>1, <2>4, <3>1 DEF FileTypes, ProfileKept, CopiesApart
    <3>3. ASSUME NEW x \in asks' PROVE x \in AskRows /\ InStep(x)'
      <4>1. x \in AskRows /\ (x = e \/ InStep(x)) /\ (x.by = "nobody" => x.at \notin {"answered", "refused"})
        BY <1>0, <2>2 DEF AsksInStep
      <4>2. /\ x.what \notin {"pull", "push"} /\ (x.what = "start" => x.by = "nobody")
            /\ x = e => x.by = "op" /\ x.what = "delete" /\ x.to # place /\ x.at = "answered"
        BY <1>2, <2>2, <2>4, <3>1, <4>1, AskFields DEF InStep
      <4>. QED BY <2>1, <3>1, <4>1, <4>2 DEF InStep
    <3>. QED BY <2>3, <3>2, <3>3 DEF WorkInv, WorkTypes, AsksInStep
  <2>5. CASE a.what = "stop"
    BY <2>1, <2>2, <2>3, <2>5, AskFields, WorkHears
  <2>. QED BY <1>5, <2>4, <2>5 DEF ReceiveStop
<1>. QED BY <1>3, <1>4, <1>5

\* A profile leaves or arrives while nothing runs on it.
LEMMA CopyStep ==
    ASSUME WorkInv, NEW a \in asks, ReceiveCopy(a) \/ CopyDone(a)
    PROVE  WorkInv'
<1>. USE DEF shimVars, hostVars, fileVars, boundVars
<1>0. PlaceTypes /\ HostTypes /\ FileTypes /\ BoundTypes /\ PollTypes /\ asks \subseteq AskRows
      /\ ElsewhereStill /\ AsksInStep /\ CopiesApart /\ ProfileKept
  BY DEF WorkInv, WorkTypes
<1>1. a \in AskRows /\ InStep(a) /\ a.what \in {"pull", "push"} /\ a.by = "op" /\ a.to \in WorkerHosts
  BY <1>0, AskFields DEF AsksInStep, InStep, ReceiveCopy, CopyDone
<1>2. UNCHANGED <<place, runtime, tracked, shimVars, poll, hostVars, boundVars>>
  BY DEF ReceiveCopy, CopyDone
<1>3. HostTypes' /\ BoundTypes' /\ PollTypes' /\ ElsewhereStill' /\ (Still(place)' = Still(place))
  BY <1>0, <1>2 DEF HostTypes, BoundTypes, PollTypes, ElsewhereStill, Still
<1>4. CASE asks' = Becomes(a, "refused") /\ UNCHANGED <<op, fileVars>>
  <2>1. PICK e \in AskRows : e.to = a.to /\ e.what = a.what /\ e.by = a.by /\ e.at = "refused" /\ asks' \subseteq asks \cup {e}
    BY <1>0, <1>4, Became
  <2>2. PlaceTypes'
    BY <1>0, <1>2, <1>4 DEF PlaceTypes
  <2>. QED BY <1>1, <1>2, <1>3, <1>4, <2>1, <2>2, WorkHears
<1>5. CASE /\ a.what = "pull" /\ UNCHANGED fileVars
           /\ \/ Still(a.to) /\ a.to \notin copies /\ asks' = Becomes(a, "answered") /\ UNCHANGED op
              \/ Still(a.to) /\ asks' = Becomes(a, "working") /\ op' = [op EXCEPT !.copy = "whole"]
              \/ a.at = "working" /\ asks' = Becomes(a, "answered") /\ UNCHANGED op
  <2>1. PICK how \in {"working", "answered"} :
          /\ asks' = Becomes(a, how)
          /\ \/ Still(a.to) /\ a.to \notin copies /\ how = "answered" /\ op' = op
             \/ Still(a.to) /\ op' = [op EXCEPT !.copy = "whole"]
             \/ a.at = "working" /\ op' = op
    BY <1>5
  <2>2. PICK e \in AskRows : e.to = a.to /\ e.what = a.what /\ e.by = a.by /\ e.at = how /\ asks' \subseteq asks \cup {e}
    BY <1>0, <2>1, Became
  <2>a. op \in OpRows /\ a.to = place /\ op.at = "pull" /\ op.copy \in {"whole", "none"}
    BY <1>0, <1>1, <1>5, OpFields DEF PlaceTypes, InStep, CopiesApart
  <2>b. a.at = "working" => Still(place) /\ op.copy = "whole"
    BY <1>1, <1>5 DEF InStep
  <2>c. LET n == [op EXCEPT !.copy = "whole"] IN n \in OpRows /\ n.at = op.at /\ n.to = op.to /\ n.copy = "whole"
    BY <2>a, OpFields
  <2>3. /\ op' \in OpRows /\ op'.at = "pull" /\ op'.to = op.to /\ (op'.copy = op.copy \/ op'.copy = "whole")
        /\ a.to = place /\ op.at = "pull" /\ Still(place)
    BY <2>1, <2>a, <2>b, <2>c
  <2>4. op'.copy = "whole" \/ (op'.copy = "none" /\ place \notin copies /\ how = "answered")
    BY <2>1, <2>a, <2>b, <2>c
  <2>5. PlaceTypes' /\ FileTypes' /\ CopiesApart' /\ ProfileKept'
    BY <1>0, <1>2, <1>5, <2>3, <2>4 DEF PlaceTypes, FileTypes, CopiesApart, ProfileKept
  <2>6. ASSUME NEW x \in asks' PROVE x \in AskRows /\ InStep(x)'
    <3>1. x \in AskRows /\ (x = e \/ InStep(x))
      BY <1>0, <2>2 DEF AsksInStep
    <3>. QED BY <1>1, <1>2, <1>3, <1>5, <2>2, <2>3, <2>4, <3>1 DEF InStep
  <2>. QED BY <1>3, <2>5, <2>6 DEF WorkInv, WorkTypes, AsksInStep
<1>6. CASE a.what = "push" /\ asks' = Becomes(a, "working") /\ UNCHANGED <<op, fileVars>>
  <2>1. PICK e \in AskRows : e.to = a.to /\ e.what = a.what /\ e.by = a.by /\ e.at = "working" /\ asks' \subseteq asks \cup {e}
    BY <1>0, <1>6, Became
  <2>2. PlaceTypes' /\ FileTypes' /\ CopiesApart' /\ ProfileKept'
    BY <1>0, <1>2, <1>3, <1>6 DEF PlaceTypes, FileTypes, CopiesApart, ProfileKept
  <2>3. ASSUME NEW x \in asks' PROVE x \in AskRows /\ InStep(x)'
    <3>1. x \in AskRows /\ (x = e \/ InStep(x))
      BY <1>0, <2>1 DEF AsksInStep
    <3>. QED BY <1>1, <1>2, <1>3, <1>6, <2>1, <3>1 DEF InStep
  <2>. QED BY <1>3, <2>2, <2>3 DEF WorkInv, WorkTypes, AsksInStep
<1>7. CASE a.what = "push" /\ asks' = Becomes(a, "answered") /\ Lands(a.to, place, op.copy) /\ UNCHANGED op
  <2>1. PICK e \in AskRows : e.to = a.to /\ e.what = a.what /\ e.by = a.by /\ e.at = "answered" /\ asks' \subseteq asks \cup {e}
    BY <1>0, <1>7, Became
  <2>2. a.to = op.to /\ op.at = "push" /\ op.to # place /\ a.to \in Hosts
    BY <1>0, <1>1, <1>7, AskFields DEF InStep, CopiesApart
  <2>3. PlaceTypes' /\ FileTypes' /\ CopiesApart' /\ ProfileKept'
    BY <1>0, <1>2, <1>3, <1>7, <2>2 DEF PlaceTypes, FileTypes, CopiesApart, ProfileKept, Lands
  <2>4. used' /\ ~escaped' => a.to \in newest'
    BY <1>0, <1>2, <1>7, <2>2 DEF Lands, CopiesApart, ProfileKept
  <2>5. ASSUME NEW x \in asks' PROVE x \in AskRows /\ InStep(x)'
    <3>1. x \in AskRows /\ (x = e \/ InStep(x))
      BY <1>0, <2>1 DEF AsksInStep
    <3>2. x.what # "pull" /\ (x.what = "push" => x.to = a.to)
      BY <1>7, <2>1, <2>2, <3>1 DEF InStep
    <3>. QED BY <1>1, <1>2, <1>7, <2>1, <2>2, <2>4, <3>1, <3>2 DEF InStep
  <2>. QED BY <1>3, <2>3, <2>5 DEF WorkInv, WorkTypes, AsksInStep
<1>8. CASE ReceiveCopy(a)
  <2>1. UNCHANGED fileVars
    BY <1>8 DEF ReceiveCopy
  <2>2. AssertStopped(a.to) => Still(a.to) /\ ~OnProfile(a.to)
    BY DEF AssertStopped, Still, OnProfile
  <2>. QED BY <1>1, <1>4, <1>5, <1>6, <1>8, <2>1, <2>2 DEF ReceiveCopy
<1>9. CASE CopyDone(a)
  <2>1. a.what = "pull" => ~OnProfile(a.to)
    BY <1>1, <1>9 DEF CopyDone, InStep, Still, OnProfile
  <2>2. a.what = "pull" => op' = op
    BY <1>0, <1>9, <2>1 DEF CopyDone, PlaceTypes, OpRows
  <2>. QED BY <1>1, <1>5, <1>7, <1>9, <2>2 DEF CopyDone
<1>. QED BY <1>8, <1>9

LEMMA PollFields ==
    /\ \A r \in SquareRows : [r EXCEPT !.at = "idle"] \in SquareRows
    /\ \A r \in SquareRows, seen \in {"none", "alive", "dead"} : [r EXCEPT !.at = "answer", !.seen = seen] \in SquareRows
    /\ [at |-> "sent", seen |-> "none", before |-> FALSE] \in SquareRows
<1>1. \A r \in SquareRows : [r EXCEPT !.at = "idle"] \in SquareRows /\ [r EXCEPT !.at = "answer"] \in SquareRows
  BY DEF SquareRows
<1>2. \A r \in SquareRows, seen \in {"none", "alive", "dead"} : [r EXCEPT !.seen = seen] \in SquareRows
  BY DEF SquareRows
<1>3. \A r \in SquareRows, seen \in {"none", "alive", "dead"} : [r EXCEPT !.at = "answer", !.seen = seen] = [[r EXCEPT !.at = "answer"] EXCEPT !.seen = seen]
  OBVIOUS
<1>. QED BY <1>1, <1>2, <1>3 DEF SquareRows

\* The reaper and the poll ask for a stop that nobody waits for, or for nothing.
LEMMA ReapAndPollStep ==
    ASSUME WorkInv, Reap \/ \E w \in WorkerHosts : Poll(w) \/ PollAnswered(w) \/ PollRead(w) \/ PollsFail(w)
    PROVE  WorkInv'
<1>. USE DEF shimVars, hostVars, fileVars, boundVars, mainVars
<1>0. PlaceTypes /\ HostTypes /\ FileTypes /\ BoundTypes /\ PollTypes /\ asks \subseteq AskRows
  BY DEF WorkInv, WorkTypes
<1>1. ASSUME UNCHANGED <<place, op, escaped, fileVars, hostVars>>, PlaceTypes', BoundTypes', PollTypes',
             \A e \in asks' : e \in asks \/ (e \in AskRows /\ e.by = "nobody" /\ e.what = "stop" /\ e.at = "sent")
      PROVE  WorkInv'
  <2>1. HostTypes' /\ ElsewhereStill' /\ (Still(place)' = Still(place))
    BY <1>0, <1>1 DEF HostTypes, WorkInv, ElsewhereStill, Still
  <2>. QED BY <1>1, <2>1, WorkHears
<1>2. \A w \in WorkerHosts : [to |-> w, what |-> "stop", by |-> "nobody", at |-> "sent"] \in AskRows
  BY DEF AskRows, AskKinds
<1>3. CASE Reap
  <2>1. runtime' = "none" /\ shim' \in {"none", shim} /\ UNCHANGED <<place, tracked, escaped, op, poll, hostVars, fileVars, boundVars>>
        /\ (asks' = asks \/ (shim # "none" /\ asks' = Sends(shim, "stop", "nobody")))
    BY <1>3 DEF Reap
  <2>2. PlaceTypes' /\ BoundTypes' /\ PollTypes'
    BY <1>0, <2>1 DEF PlaceTypes, BoundTypes, PollTypes
  <2>3. \A e \in asks' : e \in asks \/ (e \in AskRows /\ e.by = "nobody" /\ e.what = "stop" /\ e.at = "sent")
    BY <1>0, <1>2, <2>1 DEF Sends, PlaceTypes
  <2>. QED BY <1>1, <2>1, <2>2, <2>3
<1>4. ASSUME NEW w \in WorkerHosts, Poll(w) \/ PollAnswered(w) PROVE WorkInv'
  <2>1. UNCHANGED <<mainVars, asks, hostVars, fileVars, boundVars>>
    BY <1>4 DEF Poll, PollAnswered
  <2>2. PollTypes'
    <3>1. poll[w] \in SquareRows /\ chrome[w] \in {"none", "alive", "dead"}
      BY <1>0 DEF PollTypes, HostTypes
    <3>2. PICK r \in SquareRows : poll' = [poll EXCEPT ![w] = r]
      BY <1>4, <3>1, PollFields DEF Poll, PollAnswered
    <3>. QED BY <1>0, <3>2 DEF PollTypes
  <2>3. PlaceTypes' /\ BoundTypes'
    BY <1>0, <2>1 DEF PlaceTypes, BoundTypes
  <2>. QED BY <1>1, <2>1, <2>2, <2>3
<1>5. ASSUME NEW w \in WorkerHosts, PollRead(w) \/ PollsFail(w) PROVE WorkInv'
  <2>1. /\ UNCHANGED <<place, shimVars, op, hostVars, fileVars, moves>>
        /\ poll' = [poll EXCEPT ![w] = [@ EXCEPT !.at = "idle"]]
        /\ tracked' \in {tracked, FALSE} /\ runtime' \in {runtime, "exited"}
        /\ asks' = asks \/ asks' = Sends(w, "stop", "nobody")
        /\ workerFaults' = workerFaults \/ (workerFaults < MaxFaults /\ workerFaults' = workerFaults + 1)
    BY <1>5 DEF PollRead, PollsFail, Gone
  <2>2. PollTypes'
    <3>1. poll[w] \in SquareRows
      BY <1>0 DEF PollTypes
    <3>2. PICK r \in SquareRows : poll' = [poll EXCEPT ![w] = r]
      BY <2>1, <3>1, PollFields
    <3>. QED BY <1>0, <3>2 DEF PollTypes
  <2>3. PlaceTypes' /\ BoundTypes'
    BY <1>0, <2>1, WorkCounts DEF PlaceTypes, BoundTypes
  <2>4. \A e \in asks' : e \in asks \/ (e \in AskRows /\ e.by = "nobody" /\ e.what = "stop" /\ e.at = "sent")
    BY <1>2, <2>1 DEF Sends
  <2>. QED BY <1>1, <2>1, <2>2, <2>3, <2>4
<1>. QED BY <1>3, <1>4, <1>5

\* A request given up goes on without the operation, or never begins.
LEMMA GivesUpStep ==
    ASSUME WorkInv, NEW a \in asks, GivesUp(a)
    PROVE  WorkInv'
<1>. USE DEF shimVars, hostVars, fileVars, boundVars, mainVars
<1>0. PlaceTypes /\ HostTypes /\ FileTypes /\ BoundTypes /\ PollTypes /\ asks \subseteq AskRows
      /\ ElsewhereStill /\ AsksInStep /\ CopiesApart /\ ProfileKept
  BY DEF WorkInv, WorkTypes
<1>1. /\ a.by = "op" /\ a.at \in {"sent", "working"} /\ workerFaults < MaxFaults /\ workerFaults' = workerFaults + 1
      /\ UNCHANGED <<mainVars, poll, hostVars, moves>> /\ InStep(a) /\ a \in AskRows
  BY <1>0 DEF GivesUp, AsksInStep
<1>2. PICK over \in AskRows : over = [a EXCEPT !.at = "refused"] /\ over.to = a.to /\ over.what = a.what /\ over.by = "op" /\ over.at = "refused"
  <2>1. [a EXCEPT !.at = "refused"] \in AskRows
    BY <1>1 DEF AskRows
  <2>. QED BY <1>1, <2>1 DEF AskRows
<1>3. PICK on \in AskRows : on = [a EXCEPT !.by = "nobody"] /\ on.to = a.to /\ on.what = a.what /\ on.by = "nobody" /\ on.at = a.at
  <2>1. [a EXCEPT !.by = "nobody"] \in AskRows
    BY <1>1 DEF AskRows
  <2>. QED BY <1>1, <2>1 DEF AskRows
<1>4. \A e \in asks' : e \in asks \/ e = over \/ (e = on /\ a.at = "working" /\ a.what \in {"start", "stop", "delete"})
  BY <1>2, <1>3 DEF GivesUp
<1>5. a.what = "delete" => a.at # "working"
  BY <1>1 DEF InStep
<1>6. PlaceTypes' /\ HostTypes' /\ BoundTypes' /\ PollTypes' /\ ElsewhereStill' /\ (Still(place)' = Still(place))
  BY <1>0, <1>1, WorkCounts DEF PlaceTypes, HostTypes, BoundTypes, PollTypes, ElsewhereStill, Still
<1>7. CASE UNCHANGED fileVars
  <2>1. ASSUME NEW e \in asks', e \notin asks
        PROVE  /\ e \in AskRows
               /\ e.by = "nobody" => (e.what = "stop" /\ e.at \in {"sent", "working"}) \/ (e.what = "start" /\ e.at = "working")
               /\ e.what \in {"pull", "push", "delete"} => e.at = "refused"
               /\ e.by = "op" => e.to = a.to /\ e.what = a.what
    BY <1>2, <1>3, <1>4, <1>5, <2>1
  <2>2. UNCHANGED <<place, op, escaped>>
    BY <1>1
  <2>3. \A e \in asks' : e.by = "op" /\ e \notin asks => \E b \in asks : e.to = b.to /\ e.what = b.what /\ b.by = "op"
    BY <1>1, <2>1
  <2>. QED BY <1>6, <1>7, <2>1, <2>2, <2>3, WorkHears
<1>8. CASE a.what = "push" /\ Lands(a.to, place, op.copy)
  <2>1. a.to = op.to /\ op.at = "push" /\ op.to # place /\ a.to \in Hosts
    BY <1>0, <1>1, <1>8, AskFields DEF InStep, CopiesApart
  <2>2. FileTypes' /\ CopiesApart' /\ ProfileKept'
    BY <1>0, <1>1, <1>8, <2>1, <1>6 DEF FileTypes, CopiesApart, ProfileKept, Lands
  <2>3. used' /\ ~escaped' => a.to \in newest'
    BY <1>0, <1>1, <1>8, <2>1 DEF Lands, CopiesApart, ProfileKept
  <2>4. ASSUME NEW x \in asks' PROVE x \in AskRows /\ InStep(x)'
    <3>1. x \in AskRows /\ (x = over \/ InStep(x))
      BY <1>0, <1>4, <1>8 DEF AsksInStep
    <3>2. x.what # "pull" /\ (x.what = "push" => x.to = a.to)
      BY <1>2, <1>8, <2>1, <3>1 DEF InStep
    <3>. QED BY <1>1, <1>2, <1>8, <2>1, <2>3, <3>1, <3>2 DEF InStep
  <2>. QED BY <1>6, <2>2, <2>4 DEF WorkInv, WorkTypes, AsksInStep
<1>. QED BY <1>7, <1>8 DEF GivesUp

\* Either side begins again.
LEMMA WorkRestartStep ==
    ASSUME WorkInv, MainRestarts \/ \E w \in WorkerHosts : WorkerRestarts(w)
    PROVE  WorkInv'
<1>. USE DEF shimVars, hostVars, fileVars, boundVars, mainVars
<1>0. PlaceTypes /\ HostTypes /\ FileTypes /\ BoundTypes /\ PollTypes /\ asks \subseteq AskRows
      /\ ElsewhereStill /\ AsksInStep /\ CopiesApart /\ ProfileKept
  BY DEF WorkInv, WorkTypes
<1>1. CASE MainRestarts
  <2>1. /\ runtime' = "none" /\ tracked' = FALSE /\ shim' = "none" /\ op' = Quiet
        /\ UNCHANGED <<escaped, place, hostVars, fileVars, moves>> /\ workerFaults < MaxFaults /\ workerFaults' = workerFaults + 1
        /\ asks' = {[a EXCEPT !.by = "nobody"] : a \in {b \in asks : b.at = "working" /\ b.what \in {"start", "stop", "delete"}}}
        /\ poll' = [w \in WorkerHosts |-> [poll[w] EXCEPT !.at = "idle"]]
    BY <1>1 DEF MainRestarts
  <2>2. PlaceTypes' /\ HostTypes' /\ FileTypes' /\ BoundTypes' /\ ElsewhereStill' /\ CopiesApart' /\ ProfileKept'
    BY <1>0, <2>1, WorkCounts, OpFields DEF PlaceTypes, HostTypes, FileTypes, BoundTypes, ElsewhereStill, Still, CopiesApart, ProfileKept
  <2>3. PollTypes'
    BY <1>0, <2>1, PollFields DEF PollTypes
  <2>4. ASSUME NEW x \in asks' PROVE x \in AskRows /\ InStep(x)'
    <3>1. PICK b \in asks : b.at = "working" /\ b.what \in {"start", "stop", "delete"} /\ x = [b EXCEPT !.by = "nobody"]
      BY <2>1
    <3>2. b \in AskRows /\ InStep(b)
      BY <1>0 DEF AsksInStep
    <3>3. b.what # "delete"
      BY <3>1, <3>2 DEF InStep
    <3>4. x \in AskRows /\ x.what = b.what /\ x.by = "nobody" /\ x.at = "working"
      BY <3>1, <3>2 DEF AskRows
    <3>. QED BY <3>1, <3>3, <3>4 DEF InStep
  <2>. QED BY <2>2, <2>3, <2>4 DEF WorkInv, WorkTypes, AsksInStep
<1>2. ASSUME NEW w \in WorkerHosts, WorkerRestarts(w) PROVE WorkInv'
  <2>1. /\ chrome' = [chrome EXCEPT ![w] = "none"] /\ launching' = [launching EXCEPT ![w] = FALSE] /\ closing' = [closing EXCEPT ![w] = FALSE]
        /\ asks' = Heard({IF a.to = w /\ a.at # "answered" THEN [a EXCEPT !.at = "refused"] ELSE a : a \in asks})
        /\ tracked' \in {tracked, FALSE} /\ runtime' \in {runtime, "exited"}
        /\ UNCHANGED <<place, shimVars, op, poll, fileVars, moves>> /\ workerFaults < MaxFaults /\ workerFaults' = workerFaults + 1
    BY <1>2 DEF WorkerRestarts, Gone
  <2>2. PlaceTypes' /\ HostTypes' /\ BoundTypes' /\ PollTypes' /\ ElsewhereStill' /\ (place \in WorkerHosts /\ Still(place) => Still(place)')
    BY <1>0, <2>1, WorkCounts DEF PlaceTypes, HostTypes, BoundTypes, PollTypes, ElsewhereStill, Still
  <2>3. ASSUME NEW e \in asks' PROVE \/ e \in asks
                                     \/ e \in AskRows /\ e.by = "op" /\ e.at = "refused" /\ \E a \in asks : e.to = a.to /\ e.what = a.what /\ a.by = "op"
    <3>1. PICK a \in asks : e = a \/ e = [a EXCEPT !.at = "refused"]
      BY <2>1 DEF Heard
    <3>2. e.by = "nobody" => e.at \notin {"answered", "refused"}
      BY <2>1 DEF Heard
    <3>3. a \in AskRows
      BY <1>0
    <3>4. CASE e # a
      <4>1. e = [a EXCEPT !.at = "refused"]
        BY <3>1, <3>4
      <4>2. e \in AskRows /\ e.to = a.to /\ e.what = a.what /\ e.by = a.by /\ e.at = "refused"
        BY <3>3, <4>1 DEF AskRows
      <4>. QED BY <3>2, <3>3, <4>2, AskFields
    <3>. QED BY <3>4
  <2>. QED BY <2>1, <2>2, <2>3, WorkHears
<1>. QED BY <1>1, <1>2

LEMMA WorkInvariant == WorkersSpec => []WorkInv
<1>1. WorkInv /\ [WorkersNext]_workerVars => WorkInv'
  <2>. SUFFICES ASSUME WorkInv, [WorkersNext]_workerVars PROVE WorkInv'
    OBVIOUS
  <2>1. CASE UNCHANGED workerVars
    <3>. USE DEF workerVars, mainVars, shimVars, hostVars, fileVars, boundVars
    <3>1. WorkTypes' /\ ElsewhereStill' /\ (Still(place)' = Still(place))
      BY <2>1 DEF WorkInv, WorkTypes, PlaceTypes, HostTypes, FileTypes, BoundTypes, PollTypes, ElsewhereStill, Still
    <3>. QED BY <2>1, <3>1, WorkHears DEF WorkTypes
  <2>2. CASE WorkerMain
    BY <2>2, WorkMainStep
  <2>3. CASE WorkerSteps
    BY <2>3, WorkStepsStep
  <2>4. CASE WorkerServes
    BY <2>4, ReceiveStep, CopyStep, ChromeStep DEF WorkerServes
  <2>5. CASE WorkerFaults
    BY <2>5, GivesUpStep, ChromeStep, ReapAndPollStep, WorkRestartStep DEF WorkerFaults
  <2>6. CASE Reap \/ \E w \in WorkerHosts : Poll(w) \/ PollAnswered(w) \/ PollRead(w)
    BY <2>6, ReapAndPollStep
  <2>. QED BY <2>1, <2>2, <2>3, <2>4, <2>5, <2>6 DEF WorkersNext
<1>. QED BY <1>1, WorkInitially, PTL DEF WorkersSpec

\* Whatever is given up, lost or begun again, what the main instance and its workers keep and ask of each other has its types.
THEOREM WorkersTypes == WorkersSpec => []WorkersTypeOK
<1>1. WorkInv => WorkersTypeOK
  BY DEF WorkInv, WorkTypes, PlaceTypes, HostTypes, FileTypes, BoundTypes, PollTypes, AskRows, OpRows, SquareRows, WorkersTypeOK
<1>. QED BY <1>1, WorkInvariant, PTL

\* For any number of workers, moves, faults and restarts: the host the row names has the whole newest profile, unless a Chrome
\* was let escape by the closer of an earlier endpoint.
THEOREM ProfilesKept == WorkersSpec => []ProfileKept
<1>1. WorkInv => ProfileKept
  BY DEF WorkInv
<1>. QED BY <1>1, WorkInvariant, PTL
=============================================================================

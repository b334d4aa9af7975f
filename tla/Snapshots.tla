------------------------------ MODULE Snapshots ------------------------------
(***************************************************************************)
(* Saved profiles and the browsers made from them (src/src/browsers.ts,    *)
(* src/src/site-access.ts): a save copies a closed profile into a          *)
(* directory of its own and then moves the row's pointer to it; a browser  *)
(* made from it copies that directory; deleting one leaves its directory   *)
(* to a clean-up that is retried; an export copies them all.               *)
(*                                                                         *)
(* Every step is the code between two awaits.  A restart keeps the rows    *)
(* and the disk and forgets who was at work.  Starting, moving and         *)
(* deleting a browser are BrowserLifecycle's; here it is up or it is not.  *)
(***************************************************************************)
EXTENDS Naturals, FiniteSets

CONSTANTS
    Browsers,     \* names for browsers, each used once
    Seeds,        \* names for saved profiles, each used once
    Origins,      \* the sites a list can name
    MaxSaves,     \* bound: directories snapshots are copied into
    AgentCap,     \* principal.maxBrowsers, of the one agent
    MaxBreaks,    \* bound: restarts, and removals that fail
    Nobody

ASSUME SnapshotsAssumption ==
    /\ MaxSaves \in Nat \ {0} /\ AgentCap \in Nat \ {0} /\ MaxBreaks \in Nat
    /\ Nobody \notin Browsers \cup Seeds

VARIABLES
    rows,         \* per browser: its row
    profiles,     \* per browser: its profile directory
    seeds,        \* per saved profile: its row, its path 0 when there is none
    disk,         \* per snapshot directory: what is in it
    dropped,      \* deleted_profile_snapshots: a deleted profile's name and path
    creating,     \* per browser: the creation under way (creating, cloningSeeds)
    saves,        \* per browser: the save under way (profileSaves, savingSeeds)
    cleaning,     \* snapshotCleanup
    exporting,    \* the paths the export's own database lists; empty when exportActive is not
    exportActive, shuttingDown,
    breaks

snapshotVars == <<rows, profiles, seeds, disk, dropped, creating, saves, cleaning, exporting, exportActive, shuttingDown, breaks>>

Paths == 1..MaxSaves
Claims == {"confirmed", "expected"}       \* a site's state; needs_sign_in is copied as it is, and left out
Sites == SUBSET (Origins \X Claims)
NoRow == [made |-> FALSE, owner |-> "admin", seed |-> Nobody, up |-> FALSE, sites |-> {}]
NoSeed == [path |-> 0, sites |-> {}]
Idle == [stage |-> "none", seed |-> Nobody, previous |-> NoSeed, dest |-> 0, resumes |-> FALSE, saved |-> FALSE]
NotMaking == [on |-> FALSE, owner |-> "admin", seed |-> Nobody, from |-> 0]

SnapshotsInit ==
    /\ rows = [b \in Browsers |-> NoRow] /\ profiles = [b \in Browsers |-> "none"]
    /\ seeds = [s \in Seeds |-> NoSeed] /\ disk = [d \in Paths |-> "unused"] /\ dropped = {}
    /\ creating = [b \in Browsers |-> NotMaking] /\ saves = [b \in Browsers |-> Idle]
    /\ cleaning = {} /\ exporting = {} /\ exportActive = FALSE /\ shuttingDown = FALSE /\ breaks = 0

SnapshotsTypeOK ==
    /\ \A b \in Browsers : rows[b].sites \in Sites /\ rows[b].seed \in Seeds \cup {Nobody}
    /\ profiles \in [Browsers -> {"none", "partial", "whole"}]
    /\ \A s \in Seeds : seeds[s].path \in Paths \cup {0} /\ seeds[s].sites \in Sites
    /\ disk \in [Paths -> {"unused", "partial", "whole", "gone"}]
    /\ dropped \subseteq Seeds \X Paths /\ cleaning \subseteq Seeds /\ exporting \subseteq Paths

---------------------------------------------------------------------------
Saved(s) == seeds[s].path # 0
savingSeeds == {saves[b].seed : b \in Browsers} \ {Nobody}
cloningSeeds == {creating[b].seed : b \in Browsers} \ {Nobody}
Owned == {b \in Browsers : rows[b].made /\ rows[b].owner = "agent"}
             \cup {b \in Browsers : creating[b].on /\ creating[b].owner = "agent"}
Fresh(b) == ~rows[b].made /\ ~creating[b].on /\ profiles[b] = "none"

\* restoreSiteAccess: a copied sign-in is expected until the new browser proves it.
Restored(sites) == {<<site[1], "expected">> : site \in sites}

(* create, up to the await on the copy: the checks read rows and reservations together, and the
   reservation is made before anything is awaited. *)
Create(b, owner, s) ==
    /\ Fresh(b) /\ ~exportActive /\ ~shuttingDown
    /\ owner = "agent" => Cardinality(Owned) < AgentCap
    /\ s # Nobody => Saved(s) /\ s \notin savingSeeds
    /\ creating' = [creating EXCEPT ![b] =
           [on |-> TRUE, owner |-> owner, seed |-> s, from |-> IF s = Nobody THEN 0 ELSE seeds[s].path]]
    /\ profiles' = [profiles EXCEPT ![b] = "partial"]
    /\ UNCHANGED <<rows, seeds, disk, dropped, saves, cleaning, exporting, exportActive, shuttingDown, breaks>>

\* The copy is whole: the row and its sites are published together, and the reservation goes.
Created(b) ==
    /\ creating[b].on
    /\ creating[b].seed # Nobody => disk[creating[b].from] = "whole"
    /\ rows' = [rows EXCEPT ![b] = [made |-> TRUE, owner |-> creating[b].owner, seed |-> creating[b].seed, up |-> FALSE,
           sites |-> IF creating[b].seed = Nobody THEN {} ELSE Restored(seeds[creating[b].seed].sites)]]
    /\ profiles' = [profiles EXCEPT ![b] = "whole"]
    /\ creating' = [creating EXCEPT ![b] = NotMaking]
    /\ UNCHANGED <<seeds, disk, dropped, saves, cleaning, exporting, exportActive, shuttingDown, breaks>>

\* The copy fails, or the row is refused (a browser linked meanwhile took its slug): nothing is left.
CreateFails(b) ==
    /\ creating[b].on /\ breaks < MaxBreaks
    /\ profiles' = [profiles EXCEPT ![b] = "none"]
    /\ creating' = [creating EXCEPT ![b] = NotMaking] /\ breaks' = breaks + 1
    /\ UNCHANGED <<rows, seeds, disk, dropped, saves, cleaning, exporting, exportActive, shuttingDown>>

---------------------------------------------------------------------------
\* A browser starts: refused while its profile is saved (ensureRunning), or exported.
Starts(b) ==
    /\ rows[b].made /\ ~rows[b].up /\ saves[b].stage = "none" /\ ~exportActive /\ ~shuttingDown
    /\ rows' = [rows EXCEPT ![b].up = TRUE]
    /\ UNCHANGED <<profiles, seeds, disk, dropped, creating, saves, cleaning, exporting, exportActive, shuttingDown, breaks>>

\* reportSiteAccess and removeSiteAccess, by a person, an agent or the detector.
Reports(b, o, claim) ==
    /\ rows[b].made
    /\ rows' = [rows EXCEPT ![b].sites = {site \in @ : site[1] # o} \cup {<<o, claim>>}]
    /\ UNCHANGED <<profiles, seeds, disk, dropped, creating, saves, cleaning, exporting, exportActive, shuttingDown, breaks>>
Removes(b, o) ==
    /\ rows[b].made
    /\ rows' = [rows EXCEPT ![b].sites = {site \in @ : site[1] # o}]
    /\ UNCHANGED <<profiles, seeds, disk, dropped, creating, saves, cleaning, exporting, exportActive, shuttingDown, breaks>>

---------------------------------------------------------------------------
\* What the caller may update: an agent the profile its own browser came from or was saved to, the administrator any.
MaySave(b, who, s, new) ==
    \/ who = "admin"
    \/ who = rows[b].owner /\ (new \/ rows[b].seed = s)

NextPath == {d \in Paths : disk[d] = "unused" /\ \A e \in 1..(d - 1) : disk[e] # "unused"}

\* A plausible mistake: a profile being copied may be saved over.
SaveBeginsOverCopy(b, who, s, new) ==
    /\ rows[b].made /\ saves[b].stage = "none" /\ ~exportActive /\ ~shuttingDown
    /\ MaySave(b, who, s, new)
    /\ new => ~Saved(s) /\ s \notin savingSeeds
    /\ ~new => Saved(s) /\ s \notin savingSeeds
    /\ \E d \in NextPath :
        /\ saves' = [saves EXCEPT ![b] = [stage |-> IF rows[b].up THEN "stopping" ELSE "copying", seed |-> s,
               previous |-> seeds[s], dest |-> d, resumes |-> rows[b].up, saved |-> FALSE]]
        /\ disk' = [disk EXCEPT ![d] = "partial"]
    /\ UNCHANGED <<rows, profiles, seeds, dropped, creating, cleaning, exporting, exportActive, shuttingDown, breaks>>

(* snapshotSeed, up to its first await: an existing profile is refused while it is saved or
   copied; a new one gets a name nobody used. *)
SaveBegins(b, who, s, new) ==
    /\ rows[b].made /\ saves[b].stage = "none" /\ ~exportActive /\ ~shuttingDown
    /\ MaySave(b, who, s, new)
    /\ new => ~Saved(s) /\ s \notin savingSeeds /\ \A job \in dropped : job[1] # s
    /\ ~new => Saved(s) /\ s \notin savingSeeds \cup cloningSeeds
    /\ \E d \in NextPath :
        /\ saves' = [saves EXCEPT ![b] = [stage |-> IF rows[b].up THEN "stopping" ELSE "copying", seed |-> s,
               previous |-> seeds[s], dest |-> d, resumes |-> rows[b].up, saved |-> FALSE]]
        /\ disk' = [disk EXCEPT ![d] = "partial"]
    /\ UNCHANGED <<rows, profiles, seeds, dropped, creating, cleaning, exporting, exportActive, shuttingDown, breaks>>

SaveStopped(b) ==
    /\ saves[b].stage = "stopping"
    /\ rows' = [rows EXCEPT ![b].up = FALSE]
    /\ saves' = [saves EXCEPT ![b].stage = "copying"]
    /\ UNCHANGED <<profiles, seeds, disk, dropped, creating, cleaning, exporting, exportActive, shuttingDown, breaks>>

After(save) == IF save.resumes THEN "resuming" ELSE "clearing"

\* The copy is whole, and in the same turn one transaction moves the pointer, the sites and the browser's own link.
Publishes(b) ==
    /\ saves[b].stage = "copying"
    /\ LET s == saves[b].seed IN
        /\ disk' = [disk EXCEPT ![saves[b].dest] = "whole"]
        /\ seeds' = [seeds EXCEPT ![s] = [path |-> saves[b].dest, sites |-> rows[b].sites]]
        /\ rows' = [rows EXCEPT ![b].seed = s]
        /\ saves' = [saves EXCEPT ![b].saved = TRUE, ![b].stage = After(saves[b])]
    /\ UNCHANGED <<profiles, dropped, creating, cleaning, exporting, exportActive, shuttingDown, breaks>>

\* Chrome did not close cleanly, or the copy or the transaction failed.
SaveFails(b) ==
    /\ saves[b].stage \in {"stopping", "copying"} /\ breaks < MaxBreaks
    /\ rows' = [rows EXCEPT ![b].up = FALSE]
    /\ saves' = [saves EXCEPT ![b].stage = After(saves[b])] /\ breaks' = breaks + 1
    /\ UNCHANGED <<profiles, seeds, disk, dropped, creating, cleaning, exporting, exportActive, shuttingDown>>

\* The browser is up again, or could not be: the save is over the same way.
SaveResumed(b) ==
    /\ saves[b].stage = "resuming"
    /\ \E up \in BOOLEAN : rows' = [rows EXCEPT ![b].up = up]
    /\ saves' = [saves EXCEPT ![b].stage = "clearing"]
    /\ UNCHANGED <<profiles, seeds, disk, dropped, creating, cleaning, exporting, exportActive, shuttingDown, breaks>>

\* What is superseded: the copy nobody points to, or the directory the pointer left.
Superseded(save) == IF save.saved THEN {save.previous.path} \ {0} ELSE {save.dest}

SaveEnds(b) ==
    /\ saves[b].stage = "clearing"
    /\ disk' = [d \in Paths |-> IF d \in Superseded(saves[b]) THEN "gone" ELSE disk[d]]
    /\ saves' = [saves EXCEPT ![b] = Idle]
    /\ UNCHANGED <<rows, profiles, seeds, dropped, creating, cleaning, exporting, exportActive, shuttingDown, breaks>>

---------------------------------------------------------------------------

\* editSeedSite and removeSeedSite, the administrator's: refused while a save or a copy is under way.
Editable(s) == ~exportActive /\ Saved(s) /\ s \notin savingSeeds \cup cloningSeeds

EditSite(s, o) ==
    /\ Editable(s)
    /\ \/ \E claim \in Claims : seeds' = [seeds EXCEPT ![s].sites = {site \in @ : site[1] # o} \cup {<<o, claim>>}]
       \/ seeds' = [seeds EXCEPT ![s].sites = {site \in @ : site[1] # o}]
    /\ UNCHANGED <<rows, profiles, disk, dropped, creating, saves, cleaning, exporting, exportActive, shuttingDown, breaks>>

\* deleteSeed's transaction; the removal it then begins is Cleanup.
DeleteSeed(s) ==
    /\ Editable(s)
    /\ dropped' = dropped \cup {<<s, seeds[s].path>>}
    /\ rows' = [b \in Browsers |-> IF rows[b].seed = s THEN [rows[b] EXCEPT !.seed = Nobody] ELSE rows[b]]
    /\ seeds' = [seeds EXCEPT ![s] = NoSeed]
    /\ UNCHANGED <<profiles, disk, creating, saves, cleaning, exporting, exportActive, shuttingDown, breaks>>

\* cleanupDeletedProfiles, by deleteSeed or the reaper: one at a time per profile.
Cleanup(s) ==
    /\ ~exportActive /\ s \notin cleaning /\ \E job \in dropped : job[1] = s
    /\ cleaning' = cleaning \cup {s}
    /\ UNCHANGED <<rows, profiles, seeds, disk, dropped, creating, saves, exporting, exportActive, shuttingDown, breaks>>

CleanupEnds(s) ==
    /\ s \in cleaning
    /\ disk' = [d \in Paths |-> IF <<s, d>> \in dropped THEN "gone" ELSE disk[d]]
    /\ dropped' = {job \in dropped : job[1] # s} /\ cleaning' = cleaning \ {s}
    /\ UNCHANGED <<rows, profiles, seeds, creating, saves, exporting, exportActive, shuttingDown, breaks>>

CleanupFails(s) ==
    /\ s \in cleaning /\ breaks < MaxBreaks
    /\ cleaning' = cleaning \ {s} /\ breaks' = breaks + 1
    /\ UNCHANGED <<rows, profiles, seeds, disk, dropped, creating, saves, exporting, exportActive, shuttingDown>>

---------------------------------------------------------------------------
\* withExport is refused while anything writes a profile or a snapshot.
NobodyWrites ==
    /\ \A b \in Browsers : ~creating[b].on /\ saves[b].stage = "none"
    /\ cleaning = {}

ExportBegins ==
    /\ ~exportActive /\ ~shuttingDown /\ NobodyWrites
    /\ exportActive' = TRUE /\ exporting' = {seeds[s].path : s \in Seeds} \ {0}
    /\ rows' = [b \in Browsers |-> [rows[b] EXCEPT !.up = FALSE]]
    /\ UNCHANGED <<profiles, seeds, disk, dropped, creating, saves, cleaning, shuttingDown, breaks>>

ExportEnds ==
    /\ exportActive
    /\ exportActive' = FALSE /\ exporting' = {}
    /\ UNCHANGED <<rows, profiles, seeds, disk, dropped, creating, saves, cleaning, shuttingDown, breaks>>

\* shutdown: nothing new is admitted while what is under way is awaited.
ShutdownBegins ==
    /\ ~shuttingDown /\ breaks < MaxBreaks
    /\ shuttingDown' = TRUE /\ breaks' = breaks + 1
    /\ UNCHANGED <<rows, profiles, seeds, disk, dropped, creating, saves, cleaning, exporting, exportActive>>

\* The process ends, when it awaited enough or in the middle of anything, and another one boots on the same files.
Restarts ==
    /\ shuttingDown \/ breaks < MaxBreaks
    /\ breaks' = IF shuttingDown THEN breaks ELSE breaks + 1
    /\ rows' = [b \in Browsers |-> [rows[b] EXCEPT !.up = FALSE]]
    /\ creating' = [b \in Browsers |-> NotMaking] /\ saves' = [b \in Browsers |-> Idle]
    /\ cleaning' = {} /\ exporting' = {} /\ exportActive' = FALSE /\ shuttingDown' = FALSE
    /\ UNCHANGED <<profiles, seeds, disk, dropped>>

SnapshotsNext ==
    \/ \E b \in Browsers :
        \/ \E owner \in {"admin", "agent"}, s \in Seeds \cup {Nobody} : Create(b, owner, s)
        \/ Created(b) \/ CreateFails(b) \/ Starts(b)
        \/ \E o \in Origins : Removes(b, o) \/ \E claim \in Claims : Reports(b, o, claim)
        \/ \E who \in {"admin", "agent"}, s \in Seeds, new \in BOOLEAN : SaveBegins(b, who, s, new)
        \/ SaveStopped(b) \/ Publishes(b) \/ SaveFails(b) \/ SaveResumed(b) \/ SaveEnds(b)
    \/ \E s \in Seeds : (\E o \in Origins : EditSite(s, o)) \/ DeleteSeed(s) \/ Cleanup(s) \/ CleanupEnds(s) \/ CleanupFails(s)
    \/ ExportBegins \/ ExportEnds \/ ShutdownBegins \/ Restarts

SnapshotsSpec == SnapshotsInit /\ [][SnapshotsNext]_snapshotVars

(* The reaper comes round again (strongly: an export only turns it away for a while); a removal, an
   export and a shutdown end. *)
SnapshotsFairness ==
    /\ \A s \in Seeds : SF_snapshotVars(Cleanup(s)) /\ WF_snapshotVars(CleanupEnds(s))
    /\ WF_snapshotVars(ExportEnds)

---------------------------------------------------------------------------
(* A saved profile's row names a complete directory of its own, whoever saves, copies, deletes or
   cleans up around it and wherever the process ended; a copy under way reads the directory of the
   snapshot whose sites it will be given; an export finds every directory its database lists; and what
   a save replaces is what it found: no site corrected meanwhile is lost with it. *)
SnapshotsStand ==
    /\ \A s \in Seeds : Saved(s) => disk[seeds[s].path] = "whole" /\ \A r \in Seeds \ {s} : seeds[r].path # seeds[s].path
    /\ \A b \in Browsers : creating[b].seed # Nobody => creating[b].from = seeds[creating[b].seed].path
    /\ \A d \in exporting : disk[d] = "whole"
    /\ \A b \in Browsers : saves[b].stage # "none" /\ ~saves[b].saved => seeds[saves[b].seed] = saves[b].previous

=============================================================================

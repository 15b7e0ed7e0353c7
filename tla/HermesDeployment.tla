--------------------------- MODULE HermesDeployment ---------------------------
(***************************************************************************)
(* The deployment of SoulLink into a Hermes profile                        *)
(* (soul_link/hermes_deploy.py) and, inside it, the patch of the host's    *)
(* sources (soul_link/host_adaptation.py).                                 *)
(*                                                                         *)
(* One deployment saves the managed entries of the profile, patches the    *)
(* host, installs plugins, configuration and identity, and verifies; it is *)
(* undone as a whole when any of these fails, and by an explicit rollback  *)
(* of its receipt.  The saved entries, the host's backup and the host's    *)
(* receipt live together in one backup directory of the profile.           *)
(*                                                                         *)
(* One deployment command runs at a time; it may crash between two steps.  *)
(* Meanwhile Hermes itself creates entries in its profile, and the user    *)
(* edits the managed ones.                                                 *)
(***************************************************************************)
EXTENDS Naturals

CONSTANTS
    Backups,    \* backup directories, one per deployment
    MaxChanges  \* bound: changes by the user and by Hermes

\* A path is not the absence of one.
ASSUME DeploymentAssumption == MaxChanges \in Nat /\ "none" \notin Backups

VARIABLES
    src,      \* the host's sources: "plain", "patched" or "mismatch"
    home,     \* home[e]: the managed entries of the profile
    roots,    \* the other entries at the profile's root
    bak,      \* bak[b]: a backup directory
    known,    \* the deployments whose receipt the operator holds
    djob,     \* the running command
    changes,
    wiped     \* history: a rollback has deleted a later deployment's backup

depVars == <<src, home, roots, bak, known, djob, changes, wiped>>

Entries == {"plugins", "config", "soul"}
Content == {"none", "user", "user2", "soullink"}
Sources == {"plain", "patched", "mismatch"}
RootNames == {"sessions"}

\* hostSaved: the sources copied before the patch, or "none".
\* hostReceipt: the host's receipt file, which a rollback requires when the
\* deployment's receipt names it.  older: the backup directories that were
\* there already, which are root entries of the profile too.
Bak == [there : BOOLEAN, home : [Entries -> Content], roots : SUBSET RootNames,
        older : SUBSET Backups,
        hostSaved : Sources \cup {"none"}, hostReceipt : BOOLEAN,
        before : [src : Sources, home : [Entries -> Content], roots : SUBSET RootNames]]
NoBak == [there |-> FALSE, home |-> [e \in Entries |-> "none"], roots |-> {}, older |-> {},
          hostSaved |-> "none", hostReceipt |-> FALSE,
          before |-> [src |-> "plain", home |-> [e \in Entries |-> "none"], roots |-> {}]]

Phases == {"idle", "adapt", "hostReceipt", "plugins", "config", "soul", "verify", "hand",
           "undoHome", "undoHost", "undoRest", "backHome", "backHost", "backRest"}

DepTypeOK ==
    /\ src \in Sources /\ home \in [Entries -> Content] /\ roots \subseteq RootNames
    /\ bak \in [Backups -> Bak] /\ known \subseteq Backups
    /\ djob \in [pc : Phases, b : Backups \cup {"none"},
                outcome : {"none", "kept", "refused", "failed", "applied", "rolled_back",
                           "crashed"}]
    /\ changes \in 0..MaxChanges /\ wiped \in BOOLEAN

Idle(outcome) == [pc |-> "idle", b |-> "none", outcome |-> outcome]

DepInit ==
    /\ src = "plain"
    /\ \E c \in {"none", "user"} : home = [e \in Entries |-> c]
    /\ roots = {}
    /\ bak = [b \in Backups |-> NoBak]
    /\ known = {}
    /\ djob = Idle("none")
    /\ changes = 0 /\ wiped = FALSE

DepGoto(pc) == djob' = [djob EXCEPT !.pc = pc]

-----------------------------------------------------------------------------
(* The host: git apply --check, forward and reverse, decide what it is. *)

HostClass == CASE src = "patched" -> "supported" [] src = "plain" -> "transformable"
               [] src = "mismatch" -> "incompatible"

Installed == \A e \in Entries : home[e] = "soullink"

\* "degraded": installed, and the host's patch is gone.
DeployClass ==
    IF Installed THEN (IF HostClass = "supported" THEN "supported" ELSE "degraded")
    ELSE IF HostClass = "incompatible" THEN "incompatible" ELSE "transformable"

-----------------------------------------------------------------------------
(* apply *)

\* The probe of the installed plugins runs in the host's own Python and may
\* fail for reasons of its own; then apply raises before any change.
StartApply(b) ==
    /\ djob.pc = "idle" /\ ~bak[b].there
    /\ \/ DeployClass = "incompatible" /\ djob' = Idle("refused") /\ UNCHANGED bak
       \/ DeployClass = "supported" /\ djob' \in {Idle("kept"), Idle("failed")} /\ UNCHANGED bak
       \/ /\ DeployClass # "incompatible"
          /\ bak' = [bak EXCEPT ![b] = [NoBak EXCEPT !.there = TRUE, !.home = home, !.roots = roots,
                          !.older = {o \in Backups : bak[o].there},
                          !.before = [src |-> src, home |-> home, roots |-> roots]]]
          /\ djob' = [pc |-> "adapt", b |-> b, outcome |-> "none"]
    /\ UNCHANGED <<src, home, roots, known, changes, wiped>>

\* HostAdapterController.apply: the required files are saved, the patch is
\* applied and verified; a failure puts the saved files back.
AdaptHost ==
    /\ djob.pc = "adapt"
    /\ \/ HostClass = "supported" /\ djob' = [djob EXCEPT !.pc = "plugins"] /\ UNCHANGED <<src, bak>>
       \/ /\ HostClass = "transformable"
          /\ bak' = [bak EXCEPT ![djob.b].hostSaved = src]
          /\ src' = "patched"
          /\ DepGoto("hostReceipt")
       \/ DepGoto("undoHome") /\ UNCHANGED <<src, bak>>
    /\ UNCHANGED <<home, roots, known, changes, wiped>>

WriteHostReceipt ==
    /\ djob.pc = "hostReceipt"
    /\ \/ bak' = [bak EXCEPT ![djob.b].hostReceipt = TRUE] /\ DepGoto("plugins")
       \/ DepGoto("undoHome") /\ UNCHANGED bak
    /\ UNCHANGED <<src, home, roots, known, changes, wiped>>

InstallAfter(e) == CASE e = "plugins" -> "config" [] e = "config" -> "soul" [] e = "soul" -> "verify"

Install(e) ==
    /\ djob.pc = e
    /\ \/ home' = [home EXCEPT ![e] = "soullink"] /\ DepGoto(InstallAfter(e))
       \/ DepGoto("undoHome") /\ UNCHANGED home
    /\ UNCHANGED <<src, roots, bak, known, changes, wiped>>

VerifyDeploy ==
    /\ djob.pc = "verify"
    /\ \/ HostClass = "supported" /\ Installed /\ DepGoto("hand")
       \/ DepGoto("undoHome")
    /\ UNCHANGED <<src, home, roots, bak, known, changes, wiped>>

\* The command writes the receipt where the operator asked; if it cannot, it
\* rolls the deployment back.
HandReceipt ==
    /\ djob.pc = "hand"
    /\ \/ known' = known \cup {djob.b} /\ djob' = Idle("applied")
       \/ DepGoto("backHome") /\ UNCHANGED known
    /\ UNCHANGED <<src, home, roots, bak, changes, wiped>>

-----------------------------------------------------------------------------
(* undo, and rollback: the same restore of the profile, then the host *)

\* Every root entry that was not there is deleted, the backup directories of
\* later deployments included.
RestoreHome(from, to) ==
    /\ djob.pc = from
    /\ home' = bak[djob.b].home
    /\ roots' = roots \cap bak[djob.b].roots
    /\ bak' = [b \in Backups |-> IF b \in bak[djob.b].older \cup {djob.b} THEN bak[b] ELSE NoBak]
    /\ wiped' = (wiped \/ \E b \in Backups : bak[b].there /\ ~bak'[b].there)
    /\ DepGoto(to)
    /\ UNCHANGED <<src, known, changes>>

\* HostAdapterController.rollback: the saved files over whatever is there.
RestoreHost(from, to) ==
    /\ djob.pc = from
    /\ IF bak[djob.b].hostSaved # "none"
         THEN /\ src' = bak[djob.b].hostSaved
              /\ bak' = [bak EXCEPT ![djob.b].hostSaved = "none"]
         ELSE UNCHANGED <<src, bak>>
    /\ DepGoto(to)
    /\ UNCHANGED <<home, roots, known, changes, wiped>>

\* Fault: only the profile is undone.
UndoHomeOnly == RestoreHome("undoHome", "undoRest")

UndoHome == RestoreHome("undoHome", "undoHost")
UndoHost == RestoreHost("undoHost", "undoRest")

DropBackup(from, outcome) ==
    /\ djob.pc = from
    /\ bak' = [bak EXCEPT ![djob.b] = NoBak]
    /\ known' = known \ {djob.b}
    /\ djob' = Idle(outcome)
    /\ UNCHANGED <<src, home, roots, changes, wiped>>

UndoDrop == DropBackup("undoRest", "failed")

\* Every check of rollback comes before its first write.  The host's receipt
\* is read, but the host's backup is examined only by the host's rollback,
\* after the profile has been restored.
StartRollback(b) ==
    /\ djob.pc = "idle" /\ b \in known
    /\ \/ bak[b].there /\ djob' = [pc |-> "backHome", b |-> b, outcome |-> "none"]
       \/ ~bak[b].there /\ djob' = Idle("refused")
    /\ UNCHANGED <<src, home, roots, bak, known, changes, wiped>>

\* Fault: the host's receipt is forgotten.
BackHomeOnly == RestoreHome("backHome", "backRest")

BackHome == RestoreHome("backHome", "backHost")
BackHost ==
    \/ /\ djob.pc = "backHost"
       /\ ~(bak[djob.b].hostReceipt /\ bak[djob.b].hostSaved = "none")
       /\ RestoreHost("backHost", "backRest")
    \/ /\ djob.pc = "backHost"
       /\ bak[djob.b].hostReceipt /\ bak[djob.b].hostSaved = "none"
       /\ djob' = Idle("refused")
       /\ UNCHANGED <<src, home, roots, bak, known, changes, wiped>>
BackDrop == DropBackup("backRest", "rolled_back")

CrashDeploy ==
    /\ djob.pc # "idle"
    /\ djob' = Idle("crashed")
    /\ UNCHANGED <<src, home, roots, bak, known, changes, wiped>>

-----------------------------------------------------------------------------
(* Hermes and the user *)

RuntimeCreates(x) ==
    /\ changes < MaxChanges /\ x \notin roots
    /\ djob.pc = "idle"
    /\ roots' = roots \cup {x} /\ changes' = changes + 1
    /\ UNCHANGED <<src, home, bak, known, djob, wiped>>

UserChanges(e) ==
    /\ djob.pc = "idle" /\ changes < MaxChanges
    /\ home' = [home EXCEPT ![e] = "user2"] /\ changes' = changes + 1
    /\ UNCHANGED <<src, roots, bak, known, djob, wiped>>

\* The host's own update: sources without the patch, or that it does not fit.
HostUpdated ==
    /\ djob.pc = "idle" /\ changes < MaxChanges
    /\ src' \in {"plain", "mismatch"} /\ src' # src /\ changes' = changes + 1
    /\ UNCHANGED <<home, roots, bak, known, djob, wiped>>

DepNext ==
    \/ \E b \in Backups : StartApply(b) \/ StartRollback(b)
    \/ AdaptHost \/ WriteHostReceipt \/ (\E e \in Entries : Install(e)) \/ VerifyDeploy
    \/ HandReceipt \/ UndoHome \/ UndoHost \/ UndoDrop \/ BackHome \/ BackHost \/ BackDrop
    \/ CrashDeploy
    \/ (\E x \in RootNames : RuntimeCreates(x)) \/ (\E e \in Entries : UserChanges(e))
    \/ HostUpdated

DepSpec == DepInit /\ [][DepNext]_depVars

-----------------------------------------------------------------------------
(***************************************************************************)
(* A deployment that fails without a crash, and a rollback that finishes,  *)
(* leave profile and host as they were before the deployment, whichever    *)
(* step failed and whatever crashed in between; a rollback may differ in   *)
(* the host only when the host was updated since.                          *)
(***************************************************************************)
UndoneIsBefore ==
    \A b \in Backups :
        djob.b = b /\ djob.pc \in {"undoRest", "backRest"} =>
            /\ home = bak[b].before.home
            /\ roots \subseteq bak[b].before.roots
            /\ djob.pc = "undoRest" => src = bak[b].before.src

(***************************************************************************)
(* A patched host can be brought back: some backup directory holds the     *)
(* sources that the patch changed, through crashes, failed deployments and *)
(* host updates, unless a rollback has deleted a later deployment's backup *)
(* directory with the entries that were not there at its own time.         *)
(***************************************************************************)
PatchHasSource ==
    ~wiped /\ src = "patched" => \E b \in Backups : bak[b].hostSaved # "none"

(***************************************************************************)
(* A receipt is held before anything of the profile or host is changed.    *)
(***************************************************************************)
ReceiptBeforeMutation ==
    djob.pc = "idle" /\ (\E e \in Entries : home[e] = "soullink") => known # {}
=============================================================================

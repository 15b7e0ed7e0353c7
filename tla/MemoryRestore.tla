---------------------------- MODULE MemoryRestore ----------------------------
(***************************************************************************)
(* The restore of a memory directory and its way back                      *)
(* (pcltm/memory_restore_rehearsal.py, and the snapshot it takes with      *)
(* pcltm/legacy_shadow_migration.py): a bundle is built from the live      *)
(* database, restored into an empty directory, switched with the live one, *)
(* and switched back by the receipt.                                       *)
(*                                                                         *)
(* A directory is the set of the writes in its database and the parts that *)
(* are there; a hash commits to both.  A step is one directory operation.  *)
(* Any step may fail, also while an earlier failure is being undone, and   *)
(* the command may be killed.  A host with the live database open goes on  *)
(* writing to its files wherever a rename has taken them.                  *)
(***************************************************************************)
EXTENDS Naturals, FiniteSets

CONSTANTS
    MaxWrites,   \* bound: memories the host writes
    MaxBreaks    \* bound: failures and kills

ASSUME RestoreAssumption == MaxWrites \in Nat /\ MaxBreaks \in Nat

VARIABLES
    dir,       \* dir[n]: the directory with that name
    cmd,       \* the running command
    switch,    \* what the last completed switch answered
    moved,     \* the repository's HEAD is no longer the bundle's
    host,      \* the directory whose database the host has open
    memories,  \* history: what the host has written: all, while no command ran, before
               \* the last check of a switch or rollback
    torn,      \* history: names left half done by a kill or a failed undo
    breaks

restVars == <<dir, cmd, switch, moved, host, memories, torn, breaks>>

Names == {"live", "restored", "rollback", "displaced", "staging", "bundle"}
Parts == {"database", "config", "views", "manifest"}
Writes == 1..MaxWrites

\* "sealed": what the manifest of a bundle commits to.
Directory == [there : BOOLEAN, parts : SUBSET Parts, db : SUBSET Writes, sealed : SUBSET Writes]
Absent == [there |-> FALSE, parts |-> {}, db |-> {}, sealed |-> {}]
EmptyDirectory == [Absent EXCEPT !.there = TRUE]
Whole == {"database", "config", "views"}

NoCommand == [pc |-> "idle", last |-> "none"]
NoSwitch == [previous |-> Absent, restored |-> Absent]

RestInit ==
    /\ dir = [n \in Names |->
                CASE n = "live" -> [EmptyDirectory EXCEPT !.parts = Whole]
                  [] n = "restored" -> EmptyDirectory
                  [] OTHER -> Absent]
    /\ cmd = NoCommand
    /\ switch = NoSwitch
    /\ moved = FALSE
    /\ host = "none"
    /\ memories = [all |-> {}, quiet |-> {}, checked |-> {}]
    /\ torn = {}
    /\ breaks = 0

Running == cmd.pc # "idle"
EndWith(result) == cmd' = [pc |-> "idle", last |-> result]
AtStep(pc) == cmd' = [cmd EXCEPT !.pc = pc]

\* A rename, onto a name that is free or an empty directory; open files follow it.
Free(n) == dir[n].parts = {}
Renamed(from, to) == [dir EXCEPT ![to] = dir[from], ![from] = Absent]
HostFollows(from, to) == host' = IF host = from THEN to ELSE host
\* Files that are open when they are removed are still written to, by nobody's name.
HostLoses(n) == host' = IF host = n THEN "gone" ELSE host

-----------------------------------------------------------------------------
(* create_memory_restore_bundle *)

StartBundle ==
    /\ ~Running
    /\ dir["live"].there /\ "database" \in dir["live"].parts
    /\ ~dir["bundle"].there /\ ~dir["staging"].there
    /\ cmd' = [pc |-> "snapshot"]
    /\ dir' = [dir EXCEPT !["staging"] = EmptyDirectory]
    /\ UNCHANGED <<switch, moved, host, memories, torn, breaks>>

\* The online backup copies one committed state of the database.
SnapshotDb ==
    /\ cmd.pc = "snapshot"
    /\ dir' = [dir EXCEPT !["staging"].parts = {"database"}, !["staging"].db = dir["live"].db]
    /\ AtStep("copyConfig")
    /\ UNCHANGED <<switch, moved, host, memories, torn, breaks>>

CopyConfig ==
    /\ cmd.pc = "copyConfig"
    /\ dir' = [dir EXCEPT !["staging"].parts = @ \cup {"config"}]
    /\ AtStep("seal")
    /\ UNCHANGED <<switch, moved, host, memories, torn, breaks>>

Seal ==
    /\ cmd.pc = "seal"
    /\ dir' = [dir EXCEPT !["staging"].parts = @ \cup {"manifest"}, !["staging"].sealed = dir["staging"].db]
    /\ moved' = FALSE
    /\ AtStep("publish")
    /\ UNCHANGED <<switch, host, memories, torn, breaks>>

PublishBundle ==
    /\ cmd.pc = "publish"
    /\ dir' = Renamed("staging", "bundle")
    /\ EndWith("bundled")
    /\ UNCHANGED <<switch, moved, host, memories, torn, breaks>>

UndoBundle ==
    /\ cmd.pc = "undoBundle"
    /\ dir' = [dir EXCEPT !["staging"] = Absent]
    /\ EndWith("failed")
    /\ UNCHANGED <<switch, moved, host, memories, torn, breaks>>

-----------------------------------------------------------------------------
(* restore_memory_bundle_into_empty_directory *)

SealHolds(b) ==
    /\ b.there /\ b.parts = {"database", "config", "manifest"}
    /\ b.db = b.sealed
    /\ ~moved

StartRestore(n) ==
    /\ ~Running
    /\ n \in {"restored", "live"}
    /\ dir[n].parts = {}
    /\ SealHolds(dir["bundle"])
    /\ cmd' = [pc |-> "copyDb", to |-> n, created |-> ~dir[n].there]
    /\ dir' = [dir EXCEPT ![n] = EmptyDirectory]
    /\ UNCHANGED <<switch, moved, host, memories, torn, breaks>>

CopyDb ==
    /\ cmd.pc = "copyDb"
    /\ dir' = [dir EXCEPT ![cmd.to].parts = {"database"}, ![cmd.to].db = dir["bundle"].db]
    /\ AtStep("restoreConfig")
    /\ UNCHANGED <<switch, moved, host, memories, torn, breaks>>

RestoreConfig ==
    /\ cmd.pc = "restoreConfig"
    /\ dir' = [dir EXCEPT ![cmd.to].parts = @ \cup {"config"}]
    /\ AtStep("rebuild")
    /\ UNCHANGED <<switch, moved, host, memories, torn, breaks>>

\* Projections are rebuilt from the database and required of every active claim.
RebuildViews ==
    /\ cmd.pc = "rebuild"
    /\ dir' = [dir EXCEPT ![cmd.to].parts = @ \cup {"views"}]
    /\ EndWith("restored")
    /\ UNCHANGED <<switch, moved, host, memories, torn, breaks>>

\* Fault: the files are removed and the tables are not.
UndoRestoreHalf ==
    /\ cmd.pc = "undoRestore"
    /\ dir' = [dir EXCEPT ![cmd.to] = IF cmd.created THEN Absent ELSE [@ EXCEPT !.parts = @ \ {"config"}]]
    /\ HostLoses(cmd.to)
    /\ EndWith("failed")
    /\ UNCHANGED <<switch, moved, memories, torn, breaks>>

\* A directory that was there before is emptied and stays.
UndoRestore ==
    /\ cmd.pc = "undoRestore"
    /\ dir' = [dir EXCEPT ![cmd.to] = IF cmd.created THEN Absent ELSE EmptyDirectory]
    /\ HostLoses(cmd.to)
    /\ EndWith("failed")
    /\ UNCHANGED <<switch, moved, memories, torn, breaks>>

-----------------------------------------------------------------------------
(* switch_memory_restore_with_rollback *)

\* The code takes any directory; an operator, the one that a restore has completed.
StartSwitch ==
    /\ ~Running
    /\ dir["restored"].there /\ dir["live"].there /\ ~dir["rollback"].there
    /\ dir["restored"].parts = Whole
    /\ cmd' = [pc |-> "putAside", previous |-> dir["live"], restored |-> dir["restored"]]
    /\ UNCHANGED <<dir, switch, moved, host, memories, torn, breaks>>

PutAside ==
    /\ cmd.pc = "putAside"
    /\ dir' = Renamed("live", "rollback") /\ HostFollows("live", "rollback")
    /\ AtStep("putLive")
    /\ UNCHANGED <<switch, moved, memories, torn, breaks>>

PutLive ==
    /\ cmd.pc = "putLive" /\ Free("live")
    /\ dir' = Renamed("restored", "live") /\ HostFollows("restored", "live")
    /\ AtStep("checkSwitch")
    /\ UNCHANGED <<switch, moved, memories, torn, breaks>>

\* Fault: the directories are not hashed again.
HashesHoldAssumed == TRUE
HashesHold == dir["live"] = cmd.restored /\ dir["rollback"] = cmd.previous

CheckSwitch ==
    /\ cmd.pc = "checkSwitch"
    /\ IF HashesHold
         THEN /\ switch' = [previous |-> cmd.previous, restored |-> cmd.restored]
              /\ EndWith("switched")
         ELSE AtStep("undoLive") /\ UNCHANGED switch
    /\ memories' = [memories EXCEPT !.checked = memories.all]
    /\ UNCHANGED <<dir, moved, host, torn, breaks>>

\* The way back of a switch that failed: the restored directory is deleted.
UndoLive ==
    /\ cmd.pc = "undoLive"
    /\ dir' = [dir EXCEPT !["live"] = Absent]
    /\ HostLoses("live")
    /\ AtStep("undoAside")
    /\ UNCHANGED <<switch, moved, memories, torn, breaks>>

\* It ends in an error in any case, a graver one when the hash is not the old one.
UndoAside ==
    /\ cmd.pc = "undoAside" /\ Free("live")
    /\ dir' = Renamed("rollback", "live") /\ HostFollows("rollback", "live")
    /\ EndWith(IF dir["rollback"] = cmd.previous THEN "failed" ELSE "unverified")
    /\ UNCHANGED <<switch, moved, memories, torn, breaks>>

-----------------------------------------------------------------------------
(* rollback_memory_restore_switch *)

\* Fault: what has become of the live directory since the switch is not asked.
ReceiptFitsOld == dir["live"].there /\ dir["rollback"] = switch.previous
ReceiptFits ==
    /\ switch # NoSwitch
    /\ dir["live"] = switch.restored
    /\ dir["rollback"] = switch.previous

StartBack ==
    /\ ~Running
    /\ ReceiptFits
    /\ dir["live"].there /\ dir["rollback"].there /\ ~dir["displaced"].there
    /\ cmd' = [pc |-> "displace"]
    /\ UNCHANGED <<dir, switch, moved, host, memories, torn, breaks>>

Displace ==
    /\ cmd.pc = "displace"
    /\ dir' = Renamed("live", "displaced") /\ HostFollows("live", "displaced")
    /\ AtStep("putBack")
    /\ UNCHANGED <<switch, moved, memories, torn, breaks>>

PutBack ==
    /\ cmd.pc = "putBack" /\ Free("live")
    /\ dir' = Renamed("rollback", "live") /\ HostFollows("rollback", "live")
    /\ AtStep("checkBack")
    /\ UNCHANGED <<switch, moved, memories, torn, breaks>>

CheckBack ==
    /\ cmd.pc = "checkBack"
    /\ AtStep(IF dir["live"] = switch.previous THEN "discard" ELSE "undoBack")
    /\ memories' = [memories EXCEPT !.checked = memories.all]
    /\ UNCHANGED <<dir, switch, moved, host, torn, breaks>>

Discard ==
    /\ cmd.pc = "discard"
    /\ dir' = [dir EXCEPT !["displaced"] = Absent]
    /\ HostLoses("displaced")
    /\ EndWith("rolled_back")
    /\ UNCHANGED <<switch, moved, memories, torn, breaks>>

\* What the handler undoes: the second rename, then the first.
UndoBack ==
    /\ cmd.pc = "undoBack" /\ Free("rollback")
    /\ dir' = Renamed("live", "rollback") /\ HostFollows("live", "rollback")
    /\ AtStep("undoDisplace")
    /\ UNCHANGED <<switch, moved, memories, torn, breaks>>

UndoDisplace ==
    /\ cmd.pc = "undoDisplace" /\ Free("live")
    /\ dir' = Renamed("displaced", "live") /\ HostFollows("displaced", "live")
    /\ EndWith("failed")
    /\ UNCHANGED <<switch, moved, memories, torn, breaks>>

-----------------------------------------------------------------------------
(* What goes wrong, and the host *)

\* Where an exception in each step leads, and what a step that fails half way
\* leaves: rmtree deletes some parts first.
OnError(pc) ==
    CASE pc \in {"snapshot", "copyConfig", "seal", "publish"} -> "undoBundle"
      [] pc \in {"copyDb", "restoreConfig", "rebuild"} -> "undoRestore"
      [] pc = "putLive" -> "undoAside"
      [] pc = "checkSwitch" -> "undoLive"
      [] pc = "putBack" -> "undoDisplace"
      [] pc \in {"checkBack", "discard"} -> "undoBack"
      [] OTHER -> "out"

Target(pc) ==
    CASE pc = "undoBundle" -> {"staging"}
      [] pc = "undoRestore" -> {cmd.to}
      [] pc \in {"undoLive", "undoAside"} -> {"live"}
      [] pc = "discard" -> {"displaced"}
      [] OTHER -> {}

RemovePart(n, p) ==
    /\ dir' = [dir EXCEPT ![n].parts = @ \ {p}, ![n].db = IF p = "database" THEN {} ELSE @]
    /\ IF p = "database" THEN HostLoses(n) ELSE UNCHANGED host

Fail ==
    /\ Running
    /\ breaks < MaxBreaks
    /\ breaks' = breaks + 1
    /\ \/ UNCHANGED <<dir, host>>
       \/ \E n \in Target(cmd.pc), p \in Parts : cmd.pc # "undoAside" /\ RemovePart(n, p)
    /\ IF OnError(cmd.pc) = "out" THEN EndWith("failed") ELSE AtStep(OnError(cmd.pc))
    /\ torn' = torn \cup Target(cmd.pc)
    /\ UNCHANGED <<switch, moved, memories>>

\* A host has made a new directory in the place that a rename needs.
Obstructed ==
    /\ \/ cmd.pc \in {"putLive", "undoAside", "putBack", "undoDisplace"} /\ ~Free("live")
       \/ cmd.pc = "undoBack" /\ ~Free("rollback")
    /\ IF OnError(cmd.pc) = "out" THEN EndWith("failed") ELSE AtStep(OnError(cmd.pc))
    /\ UNCHANGED <<dir, switch, moved, host, memories, torn, breaks>>

\* Killed: what has been done stays done.
Kill ==
    /\ Running
    /\ breaks < MaxBreaks
    /\ breaks' = breaks + 1
    /\ torn' = torn \cup (IF cmd.pc \in {"copyDb", "restoreConfig", "rebuild"} THEN {cmd.to} ELSE Target(cmd.pc))
    /\ EndWith("killed")
    /\ UNCHANGED <<dir, switch, moved, host, memories>>

\* A host opens the database; a store makes its directory when there is none.
OpenDatabase ==
    /\ host = "none"
    /\ host' = "live"
    /\ dir' = IF "database" \in dir["live"].parts THEN dir
              ELSE [dir EXCEPT !["live"].there = TRUE, !["live"].parts = @ \cup {"database"}]
    /\ UNCHANGED <<cmd, switch, moved, memories, torn, breaks>>

HostWrites ==
    /\ host \in Names
    /\ Cardinality(memories.all) < MaxWrites
    /\ LET w == Cardinality(memories.all) + 1 IN
         /\ dir' = [dir EXCEPT ![host].db = @ \cup {w}]
         /\ memories' = [memories EXCEPT !.all = @ \cup {w},
                                         !.quiet = IF Running THEN @ ELSE @ \cup {w}]
    /\ UNCHANGED <<cmd, switch, moved, host, torn, breaks>>

Close == host # "none" /\ host' = "none" /\ UNCHANGED <<dir, cmd, switch, moved, memories, torn, breaks>>

\* The bundle's database is damaged where it lies.
Rot ==
    /\ ~Running
    /\ breaks < MaxBreaks
    /\ breaks' = breaks + 1
    /\ \E w \in dir["bundle"].db : dir' = [dir EXCEPT !["bundle"].db = @ \ {w}]
    /\ UNCHANGED <<cmd, switch, moved, host, memories, torn>>

Commit ==
    /\ ~moved /\ dir["bundle"].there /\ ~Running
    /\ moved' = TRUE
    /\ UNCHANGED <<dir, cmd, switch, host, memories, torn, breaks>>

RestNext ==
    \/ StartBundle \/ SnapshotDb \/ CopyConfig \/ Seal \/ PublishBundle \/ UndoBundle
    \/ \E n \in {"restored", "live"} : StartRestore(n)
    \/ CopyDb \/ RestoreConfig \/ RebuildViews \/ UndoRestore
    \/ StartSwitch \/ PutAside \/ PutLive \/ CheckSwitch \/ UndoLive \/ UndoAside
    \/ StartBack \/ Displace \/ PutBack \/ CheckBack \/ Discard \/ UndoBack \/ UndoDisplace
    \/ Fail \/ Obstructed \/ Kill \/ OpenDatabase \/ HostWrites \/ Close \/ Rot \/ Commit

RestSpec == RestInit /\ [][RestNext]_restVars

-----------------------------------------------------------------------------
(* Properties *)

RestTypeOK ==
    /\ dir \in [Names -> Directory]
    /\ switch \in [previous : Directory, restored : Directory]
    /\ moved \in BOOLEAN
    /\ host \in Names \cup {"none", "gone"}
    /\ memories.checked \subseteq memories.all /\ memories.quiet \subseteq memories.all
    /\ torn \subseteq Names
    /\ breaks \in 0..MaxBreaks

(***************************************************************************)
(* Whatever fails, in whichever order bundles, restores, switches and      *)
(* rollbacks are run, and wherever the host had its database open: what it *)
(* has written while no command ran is in a database that is still there.  *)
(***************************************************************************)
NothingLost ==
    memories.quiet \subseteq
        UNION {dir[n].db : n \in Names \ {"bundle", "staging"}}

\* What a switch or a rollback has answered is so, until the host writes again.
AnswersHold ==
    memories.all = memories.checked =>
        /\ cmd.pc = "idle" /\ cmd.last = "switched" =>
              dir["live"] = switch.restored /\ dir["rollback"] = switch.previous
        /\ cmd.pc = "idle" /\ cmd.last = "rolled_back" => dir["live"] = switch.previous

\* A restore leaves everything the bundle commits to, or nothing, and a bundle is
\* there as a whole or not at all.
AllOrNothing ==
    ~Running =>
        /\ "restored" \notin torn => dir["restored"].parts \in {{}, Whole}
        /\ cmd.last = "restored" => \E n \in {"restored", "live"} :
              Whole \subseteq dir[n].parts /\ dir["bundle"].sealed \subseteq dir[n].db
        /\ dir["bundle"].there => dir["bundle"].parts = {"database", "config", "manifest"}

(***************************************************************************)
(* "Atomically switch directory names": not kept.  A kill between the two  *)
(* renames leaves no live directory, and a host that starts then makes an  *)
(* empty one; a rollback that cannot delete the displaced directory puts   *)
(* what is left of it back as the live one.                                *)
(***************************************************************************)
LiveIsWhole == ~Running => Whole \subseteq dir["live"].parts
=============================================================================

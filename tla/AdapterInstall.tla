---------------------------- MODULE AdapterInstall ----------------------------
(***************************************************************************)
(* The installers of the Codex and ZCode adapters                          *)
(* (soul_link/codex_deploy.py, soul_link/zcode_deploy.py).                 *)
(*                                                                         *)
(* Both merge a managed part into files the user also edits, after saving  *)
(* the files in a backup directory; a receipt, written last, names the     *)
(* backup a rollback may use.  The two programs are written alike and      *)
(* differ in what they manage, in what they call installed and verified,   *)
(* and in ZCode's optional block in AGENTS.md; the behaviour starts by     *)
(* choosing one of them.                                                   *)
(*                                                                         *)
(* A file is abstracted to the user's words in it, the managed part it     *)
(* carries, and what the user has written inside that part: a handler put  *)
(* into a managed hook group, a line between the markers.  One installer   *)
(* runs at a time, and may crash between writes; the user edits files at   *)
(* any time.  Words are named by the number of the edit that wrote them.   *)
(***************************************************************************)
EXTENDS Naturals, Sequences

CONSTANTS
    Dbs,         \* database paths an operator may install for
    Paths,       \* receipt paths
    MaxInstalls, \* bound: installer runs (apply)
    MaxEdits,    \* bound: user edits
    NoDb

ASSUME InstallAssumption == MaxEdits \in Nat

VARIABLES
    kind,     \* which installer: "codex" or "zcode"
    file,     \* file[m]: the managed files
    receipt,  \* receipt[r]: what the backup named by receipt r holds, or NoSaved
    ijob,     \* the installer run
    runs, edits

insVars == <<kind, file, receipt, ijob, runs, edits>>

Files == {"config", "hooks", "agents", "runtime"}

\* words: the user's part.  inner: the user's words inside the managed part, 0 for
\* none.  part: the database the managed part was written for, "foreign" for a
\* server entry of somebody else.  opt: the recorded
\* manage_agents option, in the runtime's adapter.json only.
File == [there : BOOLEAN, words : 0..MaxEdits, inner : 0..MaxEdits,
         part : Dbs \cup {NoDb, "foreign"}, opt : BOOLEAN]
NoFile == [there |-> FALSE, words |-> 0, inner |-> 0, part |-> NoDb, opt |-> FALSE]

CodexManaged == <<"runtime", "config", "hooks">>
ZCodeManaged(agents) == <<"runtime", "config">> \o (IF agents THEN <<"agents">> ELSE <<>>)
Managed(k, agents) == IF k = "codex" THEN CodexManaged ELSE ZCodeManaged(agents)
InSeq(x, s) == \E i \in DOMAIN s : s[i] = x

\* The managed names in the order _install writes the files.
Saved == [Files -> File \cup {NoFile}]
NoSaved == [agents |-> FALSE, files |-> [m \in Files |-> NoFile], written |-> FALSE,
            before |-> [m \in Files |-> NoFile],
            stamp |-> 0,           \* history: the edits made when its run began
            overtaken |-> FALSE]   \* history: another receipt was rolled back since

NewRun == [pc |-> "idle", db |-> NoDb, agents |-> FALSE, path |-> "none",
           next |-> 1, saved |-> [m \in Files |-> NoFile],
           before |-> [m \in Files |-> NoFile],  \* history: the files when it began,
           stamp |-> 0,                          \* and the edits made by then
           outcome |-> "none"]

InsTypeOK ==
    /\ kind \in {"codex", "zcode"}
    /\ file \in [Files -> File]
    /\ receipt \in [Paths -> [agents : BOOLEAN, files : Saved, written : BOOLEAN, before : Saved,
                               stamp : 0..MaxEdits, overtaken : BOOLEAN]]
    /\ ijob.pc \in {"idle", "write", "check", "receipt", "undo"}
    /\ ijob.next \in 1..4
    /\ ijob.outcome \in {"none", "applied", "kept", "refused", "error", "failed", "rolled_back", "crashed"}

InsInit ==
    /\ kind \in {"codex", "zcode"}
    /\ file \in [Files -> {NoFile, [NoFile EXCEPT !.there = TRUE]}]
    /\ file["runtime"] = NoFile
    /\ kind = "codex" => file["agents"] = NoFile
    /\ kind = "zcode" => file["hooks"] = NoFile
    /\ receipt = [r \in Paths |-> NoSaved]
    /\ ijob = NewRun
    /\ runs = 0 /\ edits = 0

-----------------------------------------------------------------------------
(* detect, installed, verify *)

Blocked == file["config"].there /\ file["config"].part = "foreign"

CodexInstalled == /\ file["config"].there /\ file["config"].part \in Dbs
                  /\ file["hooks"].there /\ file["runtime"].there

\* ZCode only asks whether the word soullink occurs in the configuration.
ZCodeInstalled == /\ file["config"].there /\ file["config"].part # NoDb
                  /\ file["runtime"].there

CodexVerified == /\ CodexInstalled
                 /\ file["config"].part = file["runtime"].part
                 /\ file["hooks"].part \in Dbs

\* Reading a missing AGENTS.md raises before its presence is asked for.
ZCodeVerifyRaises(agents) == ZCodeInstalled /\ agents /\ ~file["agents"].there
ZCodeVerified(agents) ==
    /\ ZCodeInstalled
    /\ file["config"].part = file["runtime"].part
    /\ agents => file["agents"].part \in Dbs
    /\ file["runtime"].opt = agents

Verified(agents) == IF kind = "codex" THEN CodexVerified ELSE ZCodeVerified(agents)

-----------------------------------------------------------------------------
(* apply *)

End(outcome) == ijob' = [NewRun EXCEPT !.outcome = outcome]

Backup(agents) ==
    [m \in Files |-> IF InSeq(m, Managed(kind, agents)) THEN file[m] ELSE NoFile]

\* Everything apply decides, and saves, before its first write.
Begin(d, agents, r) ==
    /\ ijob.pc = "idle" /\ runs < MaxInstalls
    /\ runs' = runs + 1
    /\ \/ Blocked /\ End("refused")
       \/ ~Blocked /\ kind = "zcode" /\ ZCodeVerifyRaises(agents) /\ End("error")
       \/ /\ ~Blocked /\ ~(kind = "zcode" /\ ZCodeVerifyRaises(agents))
          /\ \/ Verified(agents) /\ End("kept")
             \/ ~Verified(agents) /\ receipt[r].written /\ End("refused")
             \/ /\ ~Verified(agents) /\ ~receipt[r].written
                /\ ijob' = [NewRun EXCEPT !.pc = "write", !.db = d, !.agents = agents,
                                          !.path = r, !.saved = Backup(agents), !.before = file,
                                          !.stamp = edits]
    /\ UNCHANGED <<kind, file, receipt, edits>>

CodexBegin(d, r) == kind = "codex" /\ Begin(d, FALSE, r)
ZCodeBegin(d, agents, r) == kind = "zcode" /\ Begin(d, agents, r)

\* Fault: the file is written from the template.
MergedOver(m) == [there |-> TRUE, words |-> 0, inner |-> 0, part |-> ijob.db,
                  opt |-> IF m = "runtime" THEN ijob.agents ELSE FALSE]

\* The old managed part is cut out with what the user put into it, and the new one
\* added; the words outside it stay.  Beside a foreign table in config.toml, which
\* has come since detect, Codex's block makes no valid file; ZCode replaces the entry.
Merged(m) ==
    LET beside == kind = "codex" /\ file[m].part = "foreign" IN
    [file[m] EXCEPT !.there = TRUE, !.inner = 0,
                    !.part = IF beside THEN "foreign" ELSE ijob.db,
                    !.opt = IF m = "runtime" THEN ijob.agents ELSE FALSE]

WriteNext ==
    LET todo == Managed(kind, ijob.agents) IN
    /\ ijob.pc = "write"
    /\ \/ /\ file' = [file EXCEPT ![todo[ijob.next]] = Merged(todo[ijob.next])]
          /\ ijob' = [ijob EXCEPT !.next = @ + 1,
                                  !.pc = IF ijob.next = Len(todo) THEN "check" ELSE "write"]
       \/ ijob' = [ijob EXCEPT !.pc = "undo"] /\ UNCHANGED file
    /\ UNCHANGED <<kind, receipt, runs, edits>>

CodexWrite == kind = "codex" /\ WriteNext
ZCodeWrite == kind = "zcode" /\ WriteNext

\* The check after writing; it may also fail for reasons outside the model.
CheckInstall ==
    /\ ijob.pc = "check"
    /\ \/ Verified(ijob.agents) /\ ijob' = [ijob EXCEPT !.pc = "receipt"]
       \/ ijob' = [ijob EXCEPT !.pc = "undo"]
    /\ UNCHANGED <<kind, file, receipt, runs, edits>>

WriteReceipt ==
    /\ ijob.pc = "receipt"
    /\ \/ /\ receipt' = [receipt EXCEPT ![ijob.path] =
                [agents |-> ijob.agents, files |-> ijob.saved, written |-> TRUE,
                 before |-> ijob.before, stamp |-> ijob.stamp, overtaken |-> FALSE]]
          /\ End("applied")
       \/ ijob' = [ijob EXCEPT !.pc = "undo"] /\ UNCHANGED receipt
    /\ UNCHANGED <<kind, file, runs, edits>>

\* Fault: a file that this run did not manage is restored too.
RestoredAlways(saved, agents) ==
    [m \in Files |-> IF InSeq(m, Managed(kind, TRUE)) THEN saved[m] ELSE file[m]]

\* _restore over the names the program manages; the rest is not touched.
Restored(saved, agents) ==
    [m \in Files |-> IF InSeq(m, Managed(kind, agents)) THEN saved[m] ELSE file[m]]

UndoApply ==
    /\ ijob.pc = "undo"
    /\ file' = Restored(ijob.saved, ijob.agents)
    /\ End("failed")
    /\ UNCHANGED <<kind, receipt, runs, edits>>

CrashInstall ==
    /\ ijob.pc # "idle"
    /\ End("crashed")
    /\ UNCHANGED <<kind, file, receipt, runs, edits>>
-----------------------------------------------------------------------------
(* rollback, and the user *)

\* ZCode's receipt, not the caller, says whether AGENTS.md was managed.
Rollback(r) ==
    /\ ijob.pc = "idle" /\ receipt[r].written
    /\ file' = Restored(receipt[r].files, receipt[r].agents)
    /\ receipt' = [q \in Paths |-> IF q = r THEN NoSaved
                                  ELSE [receipt[q] EXCEPT !.overtaken = receipt[q].written]]
    /\ End("rolled_back")
    /\ UNCHANGED <<kind, runs, edits>>

CodexRollback(r) == kind = "codex" /\ Rollback(r)
ZCodeRollback(r) == kind = "zcode" /\ Rollback(r)

\* New words outside the managed part, or inside it; a managed part removed; a
\* foreign server entry.
UserEdit(m) ==
    /\ edits < MaxEdits
    /\ edits' = edits + 1
    /\ m = "hooks" => kind = "codex"
    /\ m = "agents" => kind = "zcode"
    /\ \/ file' = [file EXCEPT ![m] = [@ EXCEPT !.there = TRUE, !.words = edits + 1]]
       \/ file[m].part \in Dbs /\ file' = [file EXCEPT ![m].inner = edits + 1]
       \/ file[m].there /\ file' = [file EXCEPT ![m] = [@ EXCEPT !.part = NoDb, !.inner = 0]]
       \/ m = "config" /\ file' = [file EXCEPT ![m] = [@ EXCEPT !.there = TRUE, !.part = "foreign", !.inner = 0]]
    /\ UNCHANGED <<kind, receipt, ijob, runs>>

InsNext ==
    \/ \E d \in Dbs, r \in Paths :
          CodexBegin(d, r) \/ (\E agents \in BOOLEAN : ZCodeBegin(d, agents, r))
    \/ CodexWrite \/ ZCodeWrite \/ CheckInstall \/ WriteReceipt \/ UndoApply \/ CrashInstall
    \/ \E r \in Paths : CodexRollback(r) \/ ZCodeRollback(r)
    \/ \E m \in Files \ {"runtime"} : UserEdit(m)

InsSpec == InsInit /\ [][InsNext]_insVars

-----------------------------------------------------------------------------
RollsBack(r) == receipt[r].written /\ ~receipt'[r].written

(***************************************************************************)
(* Undoing is exact, for whatever was installed, edited or crashed between *)
(* the apply and its undo: a failed apply and the rollback of a receipt    *)
(* leave every file that run managed as it was before that run, byte for   *)
(* byte, what the user had inside the managed part included, and every     *)
(* other file alone.                                                       *)
(***************************************************************************)
UndoExact ==
    [][\A m \in Files :
        /\ ijob.pc = "undo" /\ ijob'.outcome = "failed" =>
               file'[m] = IF m = "agents" /\ ~ijob.agents THEN file[m] ELSE ijob.before[m]
        /\ \A r \in Paths : RollsBack(r) =>
               file'[m] = IF m = "agents" /\ ~receipt[r].agents THEN file[m]
                          ELSE receipt[r].before[m]]_insVars

(***************************************************************************)
(* What an undo costs the user is what was written since the run began     *)
(* that is being undone, and nothing older: neither runs that failed or    *)
(* were killed in between nor their undoing have brought other words into  *)
(* the file.  No other step of an installer changes a word outside the     *)
(* managed part.  A receipt that is rolled back after another one brings   *)
(* back what its own backup holds: nothing is claimed of that.             *)
(***************************************************************************)
WordsKept ==
    [][\A m \in Files : file'[m].words # file[m].words =>
         \/ edits' # edits
         \/ ijob.pc = "undo" /\ ijob'.outcome = "failed" /\ file[m].words > ijob.stamp
         \/ \E r \in Paths : RollsBack(r) /\ (receipt[r].overtaken \/ file[m].words > receipt[r].stamp)]_insVars

(***************************************************************************)
(* A receipt stands for every mutation that is not undone.                 *)
(***************************************************************************)
ReceiptCoversInstall ==
    ijob.pc = "idle" /\ file["runtime"].there => \E r \in Paths : receipt[r].written
=============================================================================

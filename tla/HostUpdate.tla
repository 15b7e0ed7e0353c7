------------------------------ MODULE HostUpdate ------------------------------
(***************************************************************************)
(* The lossless update of a Hermes host (soul_link/hermes_update.py).      *)
(*                                                                         *)
(* A controller freezes four trees in a recovery point, updates the host,  *)
(* deploys the adapter, verifies, and restores the point when any of these *)
(* fails.  An explicit restore does the same with a point of an earlier    *)
(* invocation.  A restore takes a compensation point of its own first, and *)
(* puts that back when it fails half way.  Invocations exclude each other  *)
(* with a lock file that names its owner; the lock of a dead owner is      *)
(* removed by whoever meets it, so that two may be inside after all.       *)
(*                                                                         *)
(* A process is one command-line invocation.  It may crash between any two *)
(* steps, and MaxFaults bounds the I/O errors of a behaviour.  What an     *)
(* archive holds is abstracted to the version of the tree it was taken of; *)
(* the archives of a compensation point, which no other invocation knows,  *)
(* are made in one step.                                                   *)
(***************************************************************************)
EXTENDS Naturals

CONSTANTS
    Procs,      \* command-line invocations, each named by its pid
    Receipts,   \* receipt paths an operator may give
    MaxFaults,  \* bound: I/O errors in a behaviour
    NoPid, NoReceipt

\* os.getpid() and the path an operator gives are never None.
ASSUME UpdateAssumption == MaxFaults \in Nat /\ NoPid \notin Procs /\ NoReceipt \notin Receipts

VARIABLES
    tree,       \* tree[x]: the version on disk of each managed tree
    point,      \* point[r]: what the recovery point of receipt r froze
    lock,       \* the pid in the lock file, or NoPid
    job,        \* job[p]: where invocation p stands
    faults      \* I/O errors so far

updVars == <<tree, point, lock, job, faults>>

(***************************************************************************)
(* "profile" is the declared part of HERMES_HOME; "db" are the SQLite      *)
(* files, which are copied apart from the trees that contain them.         *)
(***************************************************************************)
Trees == {"host", "profile", "soullink", "db"}

\* "half": a copy that was interrupted.  "gone": the host root is missing.
Versions == {"old", "new", "half", "gone"}
NoPoint == [x \in Trees |-> "none"]
Points == [Trees -> Versions] \cup {NoPoint}

\* The order in which _apply_restore writes the trees.
Following(x) == CASE x = "host" -> "profile" [] x = "profile" -> "soullink"
                  [] x = "soullink" -> "db"  [] x = "db" -> "none"

Steps == {"idle", "link", "read", "unlink", "preflight", "prepare", "archive", "update", "deploy",
          "verify", "secure", "aside", "host", "profile", "soullink", "db", "undo",
          "release", "done", "dead"}
Outcomes == {"none", "blocked", "failed", "prepared", "updated", "restored",
             "rolled_back", "undone", "repair"}

Jobs == [pc : Steps, op : {"none", "prepare", "run", "restore"},
         receipt : Receipts \cup {NoReceipt}, tries : 0..1,
         held : [Trees -> Versions \cup {"none"}],   \* archives at hand: those made so
                             \* far, or those of the point a restore has validated
         before : Points,    \* the compensation point of a restore
         aside : Versions,   \* the host tree moved beside its root
         base : Points,      \* history: the trees when the receipt was published, of one alone
         alone : BOOLEAN,    \* history: nobody else has entered since it did
         outcome : Outcomes]

NewJob == [pc |-> "idle", op |-> "none", receipt |-> NoReceipt, tries |-> 0,
           held |-> NoPoint, before |-> NoPoint, aside |-> "gone", base |-> NoPoint,
           alone |-> TRUE, outcome |-> "none"]

UpdTypeOK ==
    /\ tree \in [Trees -> Versions]
    /\ point \in [Receipts -> Points]
    /\ lock \in Procs \cup {NoPid}
    /\ job \in [Procs -> Jobs]
    /\ faults \in 0..MaxFaults

UpdInit ==
    /\ tree = [x \in Trees |-> "old"]
    /\ point = [r \in Receipts |-> NoPoint]
    /\ lock = NoPid
    /\ job = [p \in Procs |-> NewJob]
    /\ faults = 0

Goto(p, step) == job' = [job EXCEPT ![p].pc = step]
Finish(p, outcome) ==
    job' = [job EXCEPT ![p].pc = "release", ![p].outcome = outcome, ![p].held = NoPoint]

\* What an invocation knew ends with it; of one that died changing the trees the
\* histories are kept, since WayBackKept asks for them.
Leave(p) == job' = [job EXCEPT ![p] = [NewJob EXCEPT !.pc = "done"]]
Die(p) ==
    LET dead == [NewJob EXCEPT !.pc = "dead"] IN
    job' = [job EXCEPT ![p] =
              IF job[p].op = "run" /\ job[p].alone /\ job[p].base # NoPoint
                THEN [dead EXCEPT !.op = "run", !.receipt = job[p].receipt, !.base = job[p].base]
                ELSE dead]
Fault == faults < MaxFaults /\ faults' = faults + 1

-----------------------------------------------------------------------------
(* The lock: a hard link made to a private file that holds the pid. *)

Alive(p) == job[p].pc \notin {"idle", "done", "dead"}

Start(p, op, r) ==
    /\ job[p].pc = "idle"
    /\ job' = [job EXCEPT ![p].pc = "link", ![p].op = op, ![p].receipt = r]
    /\ UNCHANGED <<tree, point, lock, faults>>

\* Inside the lock, and not yet out again.
Inside(p) == Alive(p) /\ job[p].pc \notin {"link", "read", "unlink"}

FirstStep(op) == CASE op = "run" -> "preflight" [] op = "prepare" -> "prepare"
                   [] op = "restore" -> "secure"

\* os.link fails when the lock file exists.
Link(p) ==
    /\ job[p].pc = "link"
    /\ IF lock = NoPid
         THEN LET met == {q \in Procs : Inside(q)} IN
              /\ lock' = p
              /\ job' = [q \in Procs |->
                           IF q = p THEN [job[p] EXCEPT !.pc = FirstStep(job[p].op), !.alone = met = {}]
                           ELSE IF q \in met THEN [job[q] EXCEPT !.alone = FALSE] ELSE job[q]]
         ELSE Goto(p, "read") /\ UNCHANGED lock
    /\ UNCHANGED <<tree, point, faults>>

\* A lock that has vanished meanwhile is reported as busy, as a live owner is.
ReadOwner(p) ==
    /\ job[p].pc = "read"
    /\ IF lock = NoPid \/ Alive(lock) THEN Leave(p) ELSE Goto(p, "unlink")
    /\ UNCHANGED <<tree, point, lock, faults>>

\* Fault: the attempts are not counted.
UnlinkEachStale(p) ==
    /\ job[p].pc = "unlink"
    /\ lock' = NoPid
    /\ IF lock = NoPid THEN Leave(p)
       ELSE job' = [job EXCEPT ![p].pc = "link", ![p].tries = @ + 1]
    /\ UNCHANGED <<tree, point, faults>>

\* The file is removed by name: the owner is not read again.
UnlinkStale(p) ==
    /\ job[p].pc = "unlink"
    /\ lock' = NoPid
    /\ IF lock = NoPid \/ job[p].tries = 1
         THEN Leave(p)
         ELSE job' = [job EXCEPT ![p].pc = "link", ![p].tries = 1]
    /\ UNCHANGED <<tree, point, faults>>

Release(p) ==
    /\ job[p].pc = "release"
    /\ lock' = IF lock = p THEN NoPid ELSE lock
    /\ Leave(p)
    /\ UNCHANGED <<tree, point, faults>>

-----------------------------------------------------------------------------
(* run: preflight, recovery point, update, deploy, verify *)

\* A missing host, or a change outside the declared boundary, blocks.
Preflight(p) ==
    /\ job[p].pc = "preflight"
    /\ \/ tree["host"] # "gone" /\ Goto(p, "prepare")
       \/ Finish(p, "blocked")
    /\ UNCHANGED <<tree, point, lock, faults>>

\* A receipt that exists is refused, before anything is written.
Prepare(p) ==
    /\ job[p].pc = "prepare"
    /\ \/ point[job[p].receipt] = NoPoint /\ Goto(p, "archive") /\ UNCHANGED faults
       \/ point[job[p].receipt] # NoPoint /\ Finish(p, "failed") /\ UNCHANGED faults
       \/ Fault /\ Finish(p, "failed")
    /\ UNCHANGED <<tree, point, lock>>

\* The trees are archived one after the other, the databases last.
Archive(p, x) ==
    /\ job[p].pc = "archive"
    /\ job[p].held[x] = "none"
    /\ \A w \in Trees : Following(w) = x => job[p].held[w] # "none"
    /\ job' = [job EXCEPT ![p].held[x] = tree[x]]
    /\ UNCHANGED <<tree, point, lock, faults>>

\* Fault: the receipt appears before the databases are archived.
PublishEarly(p) ==
    /\ job[p].pc = "archive"
    /\ job[p].held["soullink"] # "none"
    /\ point' = [point EXCEPT ![job[p].receipt] = job[p].held]
    /\ job' = [job EXCEPT ![p].base = IF job[p].alone THEN tree ELSE NoPoint, ![p].held = NoPoint,
                 ![p].pc = IF job[p].op = "run" THEN "update" ELSE "release",
                 ![p].outcome = IF job[p].op = "run" THEN "none" ELSE "prepared"]
    /\ UNCHANGED <<tree, lock, faults>>

\* The receipt appears last, by an atomic rename, once every archive has been hashed
\* and verified; it replaces one that has appeared since the check.
Publish(p) ==
    /\ job[p].pc = "archive"
    /\ \A x \in Trees : job[p].held[x] # "none"
    /\ point' = [point EXCEPT ![job[p].receipt] = job[p].held]
    /\ job' = [job EXCEPT ![p].base = IF job[p].alone THEN tree ELSE NoPoint, ![p].held = NoPoint,
                 ![p].pc = IF job[p].op = "run" THEN "update" ELSE "release",
                 ![p].outcome = IF job[p].op = "run" THEN "none" ELSE "prepared"]
    /\ UNCHANGED <<tree, lock, faults>>

\* An error while archiving removes the receipt by its name, whose ever it is.  (An
\* error right after the publish leaves the same.)
PrepareFails(p) ==
    /\ job[p].pc = "archive"
    /\ Fault
    /\ point' = [point EXCEPT ![job[p].receipt] = NoPoint]
    /\ Finish(p, "failed")
    /\ UNCHANGED <<tree, lock>>

\* The host's own updater: fetch, reset, clean, `hermes update`.  It may
\* migrate the profile and the databases, and may stop anywhere.
Update(p) ==
    /\ job[p].pc = "update"
    /\ \E touched \in {{}, {"profile", "db"}} :
         \/ /\ tree' = [x \in Trees |-> IF x \in touched \cup {"host"} THEN "new" ELSE tree[x]]
            /\ Goto(p, "deploy")
         \/ /\ tree' = [x \in Trees |-> IF x = "host" THEN "half"
                                        ELSE IF x \in touched THEN "new" ELSE tree[x]]
            /\ Goto(p, "secure")
    /\ UNCHANGED <<point, lock, faults>>

Deploy(p) ==
    /\ job[p].pc = "deploy"
    /\ \/ /\ tree' = [tree EXCEPT !["profile"] = "new", !["host"] = "new"]
          /\ Goto(p, "verify")
       \/ Goto(p, "secure") /\ UNCHANGED tree
    /\ UNCHANGED <<point, lock, faults>>

Verify(p) ==
    /\ job[p].pc = "verify"
    /\ Finish(p, "updated") \/ Goto(p, "secure")
    /\ UNCHANGED <<tree, point, lock, faults>>

-----------------------------------------------------------------------------
(* restore *)

\* Validation of the receipt, the compensation point and the raw copy of the
\* databases: nothing has been written when one of them fails.  What has been
\* validated is kept, whatever becomes of the receipt.
Secure(p) ==
    /\ job[p].pc = "secure"
    /\ \/ /\ point[job[p].receipt] # NoPoint
          /\ job' = [job EXCEPT ![p].pc = "aside", ![p].before = tree,
                                 ![p].held = point[job[p].receipt]]
          /\ UNCHANGED faults
       \/ point[job[p].receipt] = NoPoint /\ Finish(p, "failed") /\ UNCHANGED faults
       \/ Fault /\ Finish(p, "failed")
    /\ UNCHANGED <<tree, point, lock>>

\* os.replace(host_root, old_host): the root is missing until the next rename.
MoveAside(p) ==
    /\ job[p].pc = "aside"
    /\ IF tree["host"] = "gone"
         THEN Goto(p, "undo") /\ UNCHANGED tree
         ELSE /\ tree' = [tree EXCEPT !["host"] = "gone"]
              /\ job' = [job EXCEPT ![p].pc = "host", ![p].aside = tree["host"]]
    /\ UNCHANGED <<point, lock, faults>>

RestoreOutcome(p) == IF job[p].op = "run" THEN "rolled_back" ELSE "restored"

\* One tree is written from the point.  When that fails the host moved aside
\* is put back, the other trees stay as they are.
WriteTree(p, x) ==
    /\ job[p].pc = x
    /\ \/ /\ tree' = [tree EXCEPT ![x] = job[p].held[x]]
          /\ IF x = "db" THEN Finish(p, RestoreOutcome(p)) ELSE Goto(p, Following(x))
          /\ UNCHANGED faults
       \/ /\ Fault
          /\ tree' = [tree EXCEPT ![x] = "half", !["host"] = job[p].aside]
          /\ Goto(p, "undo")
    /\ UNCHANGED <<point, lock>>

\* The compensation point is applied; it too begins by moving the host aside.
Compensate(p) ==
    /\ job[p].pc = "undo"
    /\ \/ /\ tree["host"] # "gone"
          /\ tree' = job[p].before
          /\ Finish(p, "undone")
          /\ UNCHANGED faults
       \/ tree["host"] = "gone" /\ Finish(p, "repair") /\ UNCHANGED <<tree, faults>>
       \/ /\ Fault
          /\ \E x \in Trees \ {"host"} : tree' = [tree EXCEPT ![x] = "half"]
          /\ Finish(p, "repair")
    /\ UNCHANGED <<point, lock>>

\* A crash; a tree that was being written may be left incomplete.
Crash(p) ==
    /\ Alive(p)
    /\ Die(p)
    /\ \/ UNCHANGED tree
       \/ /\ job[p].pc \in Trees \ {"host"}
          /\ tree' = [tree EXCEPT ![job[p].pc] = "half"]
    /\ UNCHANGED <<point, lock, faults>>

-----------------------------------------------------------------------------
UpdStep(p) ==
    \/ \E op \in {"prepare", "run", "restore"}, r \in Receipts : Start(p, op, r)
    \/ Link(p) \/ ReadOwner(p) \/ UnlinkStale(p) \/ Release(p)
    \/ Preflight(p) \/ Prepare(p) \/ (\E x \in Trees : Archive(p, x)) \/ Publish(p) \/ PrepareFails(p)
    \/ Update(p) \/ Deploy(p) \/ Verify(p)
    \/ Secure(p) \/ MoveAside(p) \/ (\E x \in Trees : WriteTree(p, x)) \/ Compensate(p)
    \/ Crash(p)

UpdNext == \E p \in Procs : UpdStep(p)
UpdSpec == UpdInit /\ [][UpdNext]_updVars

-----------------------------------------------------------------------------
(***************************************************************************)
(* The lock file admits one invocation at a time.                          *)
(***************************************************************************)
OneUpdater == \A p, q \in Procs : Inside(p) /\ Inside(q) => p = q

(***************************************************************************)
(* What an invocation reports is what it left: a rollback put back every   *)
(* tree as it was before the update, a restore brought every tree to the   *)
(* point, and a restore that failed and was compensated changed nothing.   *)
(* Only "repair required" may leave a mixture.  Claimed for an invocation  *)
(* that was alone inside the lock (see OneUpdater for when it is not).     *)
(***************************************************************************)
ReportsAreExact ==
    \A p \in Procs : job[p].pc = "release" /\ job[p].alone =>
        /\ job[p].outcome = "rolled_back" => tree = job[p].base
        /\ job[p].outcome = "restored" => tree = point[job[p].receipt]
        /\ job[p].outcome = "undone" => tree = job[p].before
        /\ job[p].outcome = "blocked" => job[p].base = NoPoint

(***************************************************************************)
(* The way back is on disk before the first change and stays there: while  *)
(* an update is under way, and for ever after a crash, its receipt names a *)
(* point with the trees of before, whatever later invocations do with the  *)
(* same receipt.  Claimed, too, for an invocation that was alone inside    *)
(* the lock for as long as it was inside: two that are there together may  *)
(* both find the receipt path free.                                        *)
(***************************************************************************)
WayBackKept ==
    \A p \in Procs :
        /\ job[p].op = "run" /\ job[p].alone
        /\ job[p].pc \in {"update", "deploy", "verify", "secure", "aside", "undo", "dead"} \cup Trees
        => point[job[p].receipt] = job[p].base /\ job[p].base # NoPoint

(***************************************************************************)
(* A valid point can always be restored: no restore ends with "repair      *)
(* required" unless an I/O error interfered.                               *)
(***************************************************************************)
RepairOnlyAfterFault == \A p \in Procs : job[p].outcome = "repair" => faults > 0
=============================================================================

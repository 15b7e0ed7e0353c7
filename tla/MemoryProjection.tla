-------------------------- MODULE MemoryProjection --------------------------
(***************************************************************************)
(* The projectors of governed memory, composed with the authority they     *)
(* read.  Each process runs drain_memory_projections, again and again, or  *)
(* rebuild_all_memory_projections: it claims outbox jobs and makes the     *)
(* memory_fts row and the claim file of each root say what memory_current  *)
(* says.                                                                   *)
(*                                                                         *)
(* A step is one SQLite transaction, one lock call or one file operation;  *)
(* the processes, the authority's services, crashes and the clock are      *)
(* interleaved between them.  Crash of a process frees its file lock (the  *)
(* operating system does) and leaves its rows in the database.             *)
(***************************************************************************)
EXTENDS MemoryAuthority

CONSTANTS
  Procs,         \* processes that drain
  WorkerOf,      \* Procs -> worker_id; the default id is the same for all
  Roots,         \* memfs roots
  RootOf,        \* Procs -> Roots
  MaxJobs,       \* drain_memory_projections's max_jobs (1000 in the code)
  \* bounds on what goes wrong and on rebuilds
  MaxCrashes, MaxStalls, MaxIOErrors, MaxRebuilds

ASSUME ProcsAssumption ==
  /\ WorkerOf \in [Procs -> Workers]
  /\ RootOf \in [Procs -> Roots]
  /\ MaxJobs \in Nat \ {0}
  /\ {MaxCrashes, MaxStalls, MaxIOErrors, MaxRebuilds} \subseteq Nat

VARIABLES
  proc,      \* what each process is doing
  lock,      \* claim files locked: <<root, claim>> -> process
  ftsRow,    \* the memory_fts row of each claim
  files,     \* root -> claim -> the claim file
  budget     \* crashes, stalls, I/O errors and rebuilds so far

\* The tables no projector writes.
claimVars == <<versions, gov, current, receipts, ingest, eventGov, legacy, answered>>
projVars == <<proc, lock, ftsRow, files, budget>>
vars == <<authorityVars, projVars>>

-----------------------------------------------------------------------------
(* Values. *)

NoView == [version |-> 0, gid |-> 0, content |-> Null]

\* What memory_current says of the claim: the row or file a projector derives.
View(c) ==
  IF c \in DOMAIN current /\ current[c].state = "active"
  THEN [version |-> current[c].version, gid |-> current[c].gid,
        content |-> versions[<<c, current[c].version>>].content]
  ELSE NoView

NoJob == [key |-> <<>>, id |-> 0, attempt |-> 0, authority |-> Null, hash |-> Null]

\* The job dict that claim_projection_jobs returns.
Snapshot(key) ==
  [key |-> key, id |-> outbox[key].id, attempt |-> outbox[key].attempt + 1,
   authority |-> outbox[key].authority, hash |-> outbox[key].hash]

Idle(result) ==
  [pc |-> "idle", job |-> NoJob, snap |-> NoView, out |-> "none",
   processed |-> 0, progressed |-> FALSE, rebuilding |-> FALSE,
   result |-> result]

Fresh(rebuilding) == [Idle("none") EXCEPT !.pc = "fts", !.rebuilding = rebuilding]

Become(p, record) == proc' = [proc EXCEPT ![p] = record]
At(p, pc) == proc[p].pc = pc
Goto(p, pc) == Become(p, [proc[p] EXCEPT !.pc = pc])

\* The drain (or the rebuild around it) raises.
Raise(p) == Become(p, Idle("failed"))

JobClaim(p) == proc[p].job.key[2]
JobVersion(p) == proc[p].job.key[3]
LockKey(p) == <<RootOf[p], JobClaim(p)>>

Owns(p) ==
  OwnsAttempt(outbox, proc[p].job.key, proc[p].job.id, WorkerOf[p],
              proc[p].job.attempt)

\* The row of this process's job becomes row, when the process still owns it.
Settle(p, row) ==
  outbox' = IF Owns(p) THEN [outbox EXCEPT ![proc[p].job.key] = row] ELSE outbox

\* Fault: a claim no longer in force makes its job obsolete.
StaleOrInactive(p) ==
  \/ JobClaim(p) \notin DOMAIN current
  \/ current[JobClaim(p)].version # JobVersion(p)
  \/ current[JobClaim(p)].state # "active"

\* The job is about another version than the current one.
Stale(p) ==
  \/ JobClaim(p) \notin DOMAIN current
  \/ current[JobClaim(p)].version # JobVersion(p)

\* The source checks of _apply_and_ack and _load_snapshot: the commitment names
\* the content and a source of the current version, and a legacy record must
\* still be approved.
CommitmentHolds(p) ==
  LET job == proc[p].job
      row == versions[<<JobClaim(p), JobVersion(p)>>]
  IN  /\ job.hash = row.content
      /\ \E i \in DOMAIN row.sources : row.sources[i] = job.authority
      /\ job.authority \in LegacyRecords => legacy[job.authority] = "approved"

Claimables(kind) == {key \in DOMAIN outbox : key[1] = kind /\ Claimable(outbox[key])}

\* ORDER BY outbox_id LIMIT 1
NextJob(kind) ==
  CHOOSE key \in Claimables(kind) :
    \A other \in Claimables(kind) : outbox[key].id <= outbox[other].id

\* Fault: jobs that another drain has leased are not counted.
IncompletePending == {key \in DOMAIN outbox : outbox[key].status = "pending"}

\* What the drain counts at its end.
Incomplete ==
  {key \in DOMAIN outbox : outbox[key].status \in {"pending", "processing"}}

Spend(fault, bound) ==
  budget[fault] < bound /\ budget' = [budget EXCEPT ![fault] = @ + 1]

-----------------------------------------------------------------------------
(* drain_memory_projections: the loop over the two projectors. *)

Start(p) ==
  /\ At(p, "idle")
  /\ Become(p, Fresh(FALSE))
  /\ UNCHANGED <<authorityVars, lock, ftsRow, files, budget>>

\* run_once claims at most one job.  The budget of jobs is looked at before
\* each projector; no job is an outcome of zeros.
Claim(p, kind, here, working, after) ==
  /\ At(p, here)
  /\ IF proc[p].processed >= MaxJobs \/ Claimables(kind) = {}
     THEN Goto(p, after) /\ UNCHANGED outbox
     ELSE LET key == NextJob(kind)
          IN  /\ outbox' = [outbox EXCEPT ![key] = Claimed(@, WorkerOf[p])]
              /\ Become(p, [proc[p] EXCEPT !.pc = working, !.job = Snapshot(key)])
  /\ UNCHANGED <<claimVars, outboxSeq, guards, lock, ftsRow, files, budget>>

ClaimFts(p) == Claim(p, "memory_fts", "fts", "ftsApply", "memfs")
ClaimMemfs(p) == Claim(p, "memory_memfs", "memfs", "lock", "round")

\* The process is through with its job.
Done(p, next) ==
  [proc[p] EXCEPT !.pc = next, !.job = NoJob, !.snap = NoView, !.out = "none"]

\* outcome["applied"] is progress; an obsolete outcome is not.
Applied(p, next) ==
  [Done(p, next) EXCEPT !.processed = @ + 1, !.progressed = TRUE]

\* The end of a pass: another one after progress, else the final count.
RoundEnd(p) ==
  /\ At(p, "round")
  /\ IF proc[p].progressed /\ proc[p].processed < MaxJobs
     THEN Become(p, [proc[p] EXCEPT !.pc = "fts", !.progressed = FALSE])
     ELSE IF Incomplete # {} THEN Become(p, Idle("limit"))
     ELSE IF proc[p].rebuilding THEN Goto(p, "cleanup")
     ELSE Become(p, Idle("ok"))
  /\ UNCHANGED <<authorityVars, lock, ftsRow, files, budget>>

-----------------------------------------------------------------------------
(* MemoryFtsProjector *)

\* _apply_and_ack, one transaction from the ownership check to the ACK.
FtsApply(p) ==
  /\ At(p, "ftsApply")
  /\ \/ /\ ~Owns(p)
        /\ Raise(p) /\ UNCHANGED <<outbox, ftsRow>>
     \/ /\ Owns(p) /\ Stale(p)
        /\ Goto(p, "ftsObsolete") /\ UNCHANGED <<outbox, ftsRow>>
     \/ /\ Owns(p) /\ ~Stale(p) /\ ~CommitmentHolds(p)
        /\ Goto(p, "ftsFail") /\ UNCHANGED <<outbox, ftsRow>>
     \/ /\ Owns(p) /\ ~Stale(p) /\ CommitmentHolds(p)
        /\ ftsRow' = [ftsRow EXCEPT ![JobClaim(p)] = View(JobClaim(p))]
        /\ Settle(p, Acked(outbox[proc[p].job.key]))
        /\ Become(p, Applied(p, "memfs"))
  /\ UNCHANGED <<claimVars, outboxSeq, guards, lock, files, budget>>

\* obsolete_projection_job: not owning the attempt is a failed outcome.
MarkObsolete(p, here, next) ==
  /\ At(p, here)
  /\ Settle(p, Obsoleted(outbox[proc[p].job.key]))
  /\ IF Owns(p) THEN Become(p, Done(p, next)) ELSE Raise(p)
  /\ UNCHANGED <<claimVars, outboxSeq, guards, lock, ftsRow, files, budget>>

\* fail_projection_job: a failed outcome, or an exception of its own when the
\* attempt is not owned; the drain raises either way.
MarkFailed(p, here) ==
  /\ At(p, here)
  /\ Settle(p, Failed(outbox[proc[p].job.key]))
  /\ Raise(p)
  /\ UNCHANGED <<claimVars, outboxSeq, guards, lock, ftsRow, files, budget>>

-----------------------------------------------------------------------------
(* MemoryMemfsProjector *)

\* Fault: the lock is not exclusive.
LockShared(p) ==
  /\ At(p, "lock")
  /\ lock' = Put(lock, LockKey(p), p)
  /\ Goto(p, "guard")
  /\ UNCHANGED <<authorityVars, ftsRow, files, budget>>

\* _claim_lock: flock on the claim's lock file under this root.
Lock(p) ==
  /\ At(p, "lock")
  /\ LockKey(p) \notin DOMAIN lock
  /\ lock' = Put(lock, LockKey(p), p)
  /\ Goto(p, "guard")
  /\ UNCHANGED <<authorityVars, ftsRow, files, budget>>

\* Fault: no guard is ever a conflict.
RootConflictNever(p) == FALSE

\* Another root's guard stands for a writer this root's lock cannot exclude.
RootConflict(p) ==
  /\ JobClaim(p) \in DOMAIN guards
  /\ guards[JobClaim(p)].root # RootOf[p]

\* The foreign key of the guard row: a rebuild may have deleted the job.
JobExists(p) ==
  /\ proc[p].job.key \in DOMAIN outbox
  /\ outbox[proc[p].job.key].id = proc[p].job.id

\* _projection_guard's first transaction.  Holding the lock, it replaces any
\* guard of its own root; it does not look at the lease.
TakeGuard(p) ==
  /\ At(p, "guard")
  /\ IF RootConflict(p) \/ ~JobExists(p)
     THEN Become(p, [proc[p] EXCEPT !.pc = "release", !.out = "error"])
          /\ UNCHANGED guards
     ELSE /\ guards' = Put(guards, JobClaim(p),
                           [id |-> proc[p].job.id, attempt |-> proc[p].job.attempt,
                            worker |-> WorkerOf[p], root |-> RootOf[p]])
          /\ Goto(p, "read")
  /\ UNCHANGED <<claimVars, outbox, outboxSeq, lock, ftsRow, files, budget>>

HoldsGuard(p) ==
  /\ JobClaim(p) \in DOMAIN guards
  /\ guards[JobClaim(p)].id = proc[p].job.id
  /\ guards[JobClaim(p)].attempt = proc[p].job.attempt
  /\ guards[JobClaim(p)].worker = WorkerOf[p]

\* _apply_claim_file_guarded up to the file operation.
Read(p) ==
  /\ At(p, "read")
  /\ Become(p, IF Stale(p)
               THEN [proc[p] EXCEPT !.pc = "release", !.out = "obsolete"]
               ELSE IF ~CommitmentHolds(p)
               THEN [proc[p] EXCEPT !.pc = "release", !.out = "error"]
               ELSE [proc[p] EXCEPT !.pc = "file", !.snap = View(JobClaim(p))])
  /\ UNCHANGED <<authorityVars, lock, ftsRow, files, budget>>

\* _job_is_current, asked again before the file is replaced.
StillCurrent(p) ==
  /\ ~Stale(p)
  /\ LET a == proc[p].job.authority IN a \in LegacyRecords => legacy[a] = "approved"

\* The file is unlinked for a claim no longer in force, and replaced atomically
\* by the snapshot otherwise.
ApplyFile(p) ==
  /\ At(p, "file")
  /\ IF proc[p].snap # NoView /\ ~StillCurrent(p)
     THEN /\ Become(p, [proc[p] EXCEPT !.pc = "release", !.out = "obsolete"])
          /\ UNCHANGED files
     ELSE /\ files' = [files EXCEPT ![RootOf[p]][JobClaim(p)] = proc[p].snap]
          /\ Goto(p, "ack")
  /\ UNCHANGED <<authorityVars, lock, ftsRow, budget>>

\* The file operation raises OSError and leaves the old file.
FileError(p) ==
  /\ At(p, "file")
  /\ Spend("io", MaxIOErrors)
  /\ Become(p, [proc[p] EXCEPT !.pc = "release", !.out = "error"])
  /\ UNCHANGED <<authorityVars, lock, ftsRow, files>>

DropGuard(table, claim) == [c \in DOMAIN table \ {claim} |-> table[c]]

\* ack_memory_memfs_projection_job: guard and lease are checked together, the
\* job is applied and the guard deleted in one transaction.
Ack(p) ==
  /\ At(p, "ack")
  /\ IF HoldsGuard(p) /\ Owns(p)
     THEN /\ Settle(p, Acked(outbox[proc[p].job.key]))
          /\ guards' = DropGuard(guards, JobClaim(p))
          /\ Become(p, [proc[p] EXCEPT !.pc = "release", !.out = "applied"])
     ELSE /\ Become(p, [proc[p] EXCEPT !.pc = "release", !.out = "lost"])
          /\ UNCHANGED <<outbox, guards>>
  /\ UNCHANGED <<claimVars, outboxSeq, lock, ftsRow, files, budget>>

\* Leaving the two context managers: the guard row of this attempt is deleted,
\* then the lock is freed.  No other process can act on the lock in between, so
\* the two are one step.
Release(p) ==
  /\ At(p, "release")
  /\ guards' = IF HoldsGuard(p) THEN DropGuard(guards, JobClaim(p)) ELSE guards
  /\ lock' = DropGuard(lock, LockKey(p))
  /\ CASE proc[p].out = "applied"  -> Become(p, Applied(p, "round"))
       [] proc[p].out = "lost"     -> Raise(p)
       [] proc[p].out = "obsolete" -> Goto(p, "memfsObsolete")
       [] proc[p].out = "error"    -> Goto(p, "memfsFail")
  /\ UNCHANGED <<claimVars, outbox, outboxSeq, ftsRow, files, budget>>

-----------------------------------------------------------------------------
(* rebuild_all_memory_projections *)

InForce == {c \in DOMAIN current : current[c].state = "active"}

\* claim_id order is the order in which the claims were first logged.
FirstEvent(c) ==
  CHOOSE g \in DOMAIN gov : /\ gov[g].claim = c
                            /\ \A h \in DOMAIN gov : gov[h].claim = c => g <= h

Nth(c) == Cardinality({d \in InForce : FirstEvent(d) <= FirstEvent(c)})

RebuildRefused ==
  \/ DOMAIN guards # {}
  \/ \E c \in InForce : Len(versions[<<c, current[c].version>>].sources) # 1

\* The job rows a rebuild leaves: one pair for each claim in force.
RebuiltOutbox ==
  [key \in UNION {JobsOf(c, current[c].version) : c \in InForce} |->
     LET row == versions[<<key[2], key[3]>>]
     IN  NewJob(outboxSeq + 2 * (Nth(key[2]) - 1) + Slot(key[1]),
                row.sources[1], row.content)]

\* The authority transaction: every row of memory_fts and every memory job is
\* deleted, the claims in force are enqueued again, then the drain runs.
Rebuild(p) ==
  /\ At(p, "idle")
  /\ ~RebuildRefused
  /\ Spend("rebuild", MaxRebuilds)
  /\ outbox' = RebuiltOutbox
  /\ outboxSeq' = outboxSeq + 2 * Cardinality(InForce)
  /\ ftsRow' = [c \in Claims |-> NoView]
  /\ Become(p, Fresh(TRUE))
  /\ UNCHANGED <<claimVars, guards, lock, files>>

\* Fault: nothing is deleted.
SweptNothing(root) == files[root]

\* What _cleanup_stale_memfs_files leaves of a root.
Swept(root) ==
  [c \in Claims |-> IF c \in InForce THEN files[root][c] ELSE NoView]

\* _cleanup_stale_memfs_files, in a write transaction that keeps the authority
\* still; it refuses while any guard stands.
Cleanup(p) ==
  /\ At(p, "cleanup")
  /\ IF DOMAIN guards # {}
     THEN Raise(p) /\ UNCHANGED files
     ELSE /\ files' = [files EXCEPT ![RootOf[p]] = Swept(RootOf[p])]
          /\ Become(p, Idle("rebuilt"))
  /\ UNCHANGED <<authorityVars, lock, ftsRow, budget>>

\* _delete_verified_file finds another file under the name it has verified, or
\* cannot delete it: the files before it are gone, the others stay.
SweepFails(p) ==
  /\ At(p, "cleanup")
  /\ DOMAIN guards = {}
  /\ Spend("io", MaxIOErrors)
  /\ \E gone \in SUBSET (Claims \ InForce) :
       files' = [files EXCEPT ![RootOf[p]] =
                   [c \in Claims |-> IF c \in gone THEN NoView ELSE @[c]]]
  /\ Raise(p)
  /\ UNCHANGED <<authorityVars, lock, ftsRow>>

-----------------------------------------------------------------------------
(* What goes wrong, and the clock. *)

Crash(p) ==
  /\ ~At(p, "idle")
  /\ Spend("crash", MaxCrashes)
  /\ Become(p, Idle("none"))
  /\ lock' = [k \in {l \in DOMAIN lock : lock[l] # p} |-> lock[k]]
  /\ UNCHANGED <<authorityVars, ftsRow, files>>

Working(p, key) ==
  /\ ~At(p, "idle")
  /\ proc[p].job.id = outbox[key].id
  /\ proc[p].job.attempt = outbox[key].attempt

Expire(key) ==
  /\ outbox[key].status = "processing" /\ outbox[key].lease = "live"
  /\ outbox' = [outbox EXCEPT ![key].lease = "expired"]
  /\ UNCHANGED <<claimVars, outboxSeq, guards, proc, lock, ftsRow, files>>

\* lease_until passes: of an attempt nobody works on any more, or of one whose
\* process is slower than its lease of a minute.
ExpireDead ==
  \E key \in DOMAIN outbox :
    /\ \A p \in Procs : ~Working(p, key)
    /\ Expire(key) /\ UNCHANGED budget

Stall ==
  \E key \in DOMAIN outbox :
    /\ \E p \in Procs : Working(p, key)
    /\ Expire(key) /\ Spend("stall", MaxStalls)

\* next_retry_at passes.
RetryDue ==
  \E key \in DOMAIN outbox :
    /\ outbox[key].waiting
    /\ outbox' = [outbox EXCEPT ![key].waiting = FALSE]
    /\ UNCHANGED <<claimVars, outboxSeq, guards, projVars>>

-----------------------------------------------------------------------------
Step(p) ==
  \/ ClaimFts(p) \/ FtsApply(p)
  \/ MarkObsolete(p, "ftsObsolete", "memfs") \/ MarkFailed(p, "ftsFail")
  \/ ClaimMemfs(p) \/ Lock(p) \/ TakeGuard(p) \/ Read(p) \/ ApplyFile(p)
  \/ Ack(p) \/ Release(p)
  \/ MarkObsolete(p, "memfsObsolete", "round") \/ MarkFailed(p, "memfsFail")
  \/ RoundEnd(p) \/ Cleanup(p)

AuthorityStep == AuthorityNext /\ UNCHANGED projVars

ProjInit ==
  /\ Init
  /\ proc = [p \in Procs |-> Idle("none")]
  /\ lock = Empty
  /\ ftsRow = [c \in Claims |-> NoView]
  /\ files = [r \in Roots |-> [c \in Claims |-> NoView]]
  /\ budget = [crash |-> 0, stall |-> 0, io |-> 0, rebuild |-> 0]

ProjNext ==
  \/ AuthorityStep
  \/ \E p \in Procs : Start(p) \/ Step(p) \/ Rebuild(p)
  \/ \E p \in Procs : FileError(p) \/ SweepFails(p) \/ Crash(p)
  \/ ExpireDead \/ Stall \/ RetryDue

ProjSpec == ProjInit /\ [][ProjNext]_vars

\* The host keeps draining, a process that runs keeps running, and time passes.
Fairness ==
  /\ \A p \in Procs : WF_vars(Start(p)) /\ WF_vars(Step(p))
  /\ WF_vars(ExpireDead) /\ WF_vars(RetryDue)

LiveSpec == ProjSpec /\ Fairness

-----------------------------------------------------------------------------
(* Properties. *)

JobOf(kind, c) == <<kind, c, current[c].version>>

\* Claims whose projection work is recorded as finished.
DoneClaims(kind) ==
  {c \in DOMAIN current : /\ JobOf(kind, c) \in DOMAIN outbox
                          /\ outbox[JobOf(kind, c)].status = "applied"}

Dead(kind, c) ==
  JobOf(kind, c) \in DOMAIN outbox /\ outbox[JobOf(kind, c)].status = "dead_letter"

Truth == [c \in Claims |-> View(c)]

\* Every view a claim can have: that of one of its versions at one of its
\* events, or none.
AllViews ==
  {NoView} \cup [version : Nat, gid : Nat, content : Contents]

FtsView == INSTANCE MemoryView
  WITH Views <- AllViews, truth <- Truth, shown <- ftsRow,
       done <- DoneClaims("memory_fts")

\* An applied job says that the file was published, not under which root: the
\* promise is about a database whose drains share one root.
TheRoot == CHOOSE root \in Roots : TRUE

FileView == INSTANCE MemoryView
  WITH Views <- AllViews, truth <- Truth, shown <- files[TheRoot],
       done <- DoneClaims("memory_memfs")

PCs == {"idle", "fts", "ftsApply", "ftsObsolete", "ftsFail", "memfs", "lock",
        "guard", "read", "file", "ack", "release", "memfsObsolete", "memfsFail",
        "round", "cleanup"}

\* Where a process works on a job of each projector, where it holds a claim's
\* file lock, and where its guard must stand as well.
FtsPlaces == {"ftsApply", "ftsObsolete", "ftsFail"}
LockPlaces == {"guard", "read", "file", "ack", "release"}
FilePlaces == LockPlaces \cup {"lock", "memfsObsolete", "memfsFail"}
GuardPlaces == {"read", "file", "ack"}

JobSnapshot ==
  [key : JobKeys, id : Nat \ {0}, attempt : Nat \ {0}, authority : Sources,
   hash : Contents]

ProcRow ==
  [pc : PCs, job : JobSnapshot \cup {NoJob}, snap : AllViews,
   out : {"none", "error", "obsolete", "applied", "lost"},
   processed : 0..MaxJobs, progressed : BOOLEAN, rebuilding : BOOLEAN,
   result : {"none", "ok", "limit", "failed", "rebuilt"}]

GuardRow == [id : Nat \ {0}, attempt : Nat \ {0}, worker : Workers, root : Roots]

\* The projectors' variables hold what the code can put there.
ProjTypeOK ==
  /\ proc \in [Procs -> ProcRow]
  /\ DOMAIN lock \subseteq Roots \X Claims
  /\ lock \in [DOMAIN lock -> Procs]
  /\ DOMAIN guards \subseteq Claims
  /\ guards \in [DOMAIN guards -> GuardRow]
  /\ ftsRow \in [Claims -> AllViews]
  /\ files \in [Roots -> [Claims -> AllViews]]
  /\ budget \in [{"crash", "stall", "io", "rebuild"} -> Nat]

\* A job is finalized as obsolete only when a newer version of its claim is
\* current: the current version's work is never thrown away.
ObsoleteIsStale ==
  \A key \in DOMAIN outbox :
    outbox[key].status = "obsolete" => key[3] < current[key[2]].version

\* Between its read and its ACK a MemFS writer's snapshot is what the authority
\* says, whatever other processes, other roots and the services do
\* meanwhile: the guard keeps the authority still, and no one takes it away.
WriteSeesAuthority ==
  \A p \in Procs :
    proc[p].pc \in {"file", "ack"} => proc[p].snap = View(JobClaim(p))

\* What keeps it so.  A job row has an id of its own, which the counter has
\* passed ...
JobIds ==
  /\ \A key \in DOMAIN outbox : outbox[key].id <= outboxSeq
  /\ \A j, k \in DOMAIN outbox : outbox[j].id = outbox[k].id => j = k

\* ... a process at work holds a job of its projector, about a version that
\* exists, in an attempt that the row has reached ...
AtWork(p) == proc[p].pc \in FtsPlaces \cup FilePlaces

HoldsJob(p) ==
  /\ AtWork(p) =>
       /\ proc[p].job \in JobSnapshot
       /\ proc[p].job.key[1] =
            IF proc[p].pc \in FtsPlaces THEN "memory_fts" ELSE "memory_memfs"
       /\ <<JobClaim(p), JobVersion(p)>> \in DOMAIN versions
       /\ proc[p].job.id <= outboxSeq
       /\ \A key \in DOMAIN outbox : outbox[key].id = proc[p].job.id =>
            key = proc[p].job.key /\ proc[p].job.attempt <= outbox[key].attempt
       /\ proc[p].processed < MaxJobs
  /\ proc[p].pc = "release" => proc[p].out # "none"
  /\ proc[p].pc # "idle" => proc[p].result = "none"

\* ... that no other process works on ...
AttemptsApart ==
  \A p, q \in Procs :
    /\ AtWork(p) /\ AtWork(q)
    /\ proc[p].job.id = proc[q].job.id
    /\ proc[p].job.attempt = proc[q].job.attempt
    => p = q

\* ... a claim's file lock is held by the one process that is between taking and
\* leaving it ...
LocksHeld ==
  /\ \A p \in Procs : proc[p].pc \in LockPlaces =>
       LockKey(p) \in DOMAIN lock /\ lock[LockKey(p)] = p
  /\ \A k \in DOMAIN lock : proc[lock[k]].pc \in LockPlaces /\ LockKey(lock[k]) = k

\* ... and the guard of its attempt stands while it reads and writes.
GuardOf(p) ==
  [id |-> proc[p].job.id, attempt |-> proc[p].job.attempt,
   worker |-> WorkerOf[p], root |-> RootOf[p]]

GuardHeld(p) ==
  proc[p].pc \in GuardPlaces =>
    JobClaim(p) \in DOMAIN guards /\ guards[JobClaim(p)] = GuardOf(p)

\* So between read and ACK the job stays current, its legacy record approved,
\* and the file what was written.
WriterCurrent(p) ==
  proc[p].pc \in {"file", "ack"} =>
    /\ proc[p].snap = View(JobClaim(p))
    /\ ~Stale(p)
    /\ LET record == proc[p].job.authority
       IN  record \in LegacyRecords =>
             /\ legacy[record] = "approved"
             /\ <<JobClaim(p), JobVersion(p)>> \in Promoted(record)
    /\ proc[p].pc = "ack" => files[RootOf[p]][JobClaim(p)] = proc[p].snap

\* A process that gives a job up has found a newer version.
GivesUpStale(p) ==
  \/ proc[p].pc \in {"ftsObsolete", "memfsObsolete"}
  \/ proc[p].pc = "release" /\ proc[p].out = "obsolete"
  => JobClaim(p) \in DOMAIN current /\ JobVersion(p) < current[JobClaim(p)].version

\* All of it: with the authority's own invariant this is inductive.
DrainsInv ==
  /\ ProjTypeOK
  /\ ObsoleteIsStale
  /\ JobIds /\ AttemptsApart /\ LocksHeld
  /\ \A p \in Procs :
       HoldsJob(p) /\ GuardHeld(p) /\ WriterCurrent(p) /\ GivesUpStale(p)

\* memory_fts never shows anything but the authority's present word on a claim
\* or an older one whose work is open, and an applied job means it shows it.
FtsImplementsView == FtsView!ViewSpec

\* The claim files promise the same, although file and ACK are separate steps
\* that a crash can divide.
FileImplementsView == FileView!ViewSpec

\* A file is only ever rendered from a legacy record that is approved at the
\* moment of the write: the record cannot be withdrawn behind the writer's back.
WritesApproved ==
  \A p \in Procs :
    /\ proc[p].pc = "file" /\ proc[p].snap # NoView
    /\ proc[p].job.authority \in LegacyRecords
    => legacy[proc[p].job.authority] = "approved"

\* require_memory_projections_applied: the jobs of the current version are
\* applied, and row and file are there and say what the authority says.
ProjectionsApplied(c, root) ==
  /\ c \in DoneClaims("memory_fts") \cap DoneClaims("memory_memfs")
  /\ View(c) # NoView
  /\ ftsRow[c] = View(c)
  /\ files[root][c] = View(c)

Published(c, root) ==
  /\ ftsRow[c] = View(c) \/ Dead("memory_fts", c)
  /\ files[root][c] = View(c) \/ Dead("memory_memfs", c)

\* A drain that returns without an exception has left every claim published in
\* both projections, dead-lettered jobs excepted, and one in force passes the
\* test remember and a restore put after it: the count of open jobs is a sound
\* test of convergence even with other drains at work.
DrainOkPublished ==
  [][\A p \in Procs :
       At(p, "round") /\ proc'[p].result = "ok" =>
         \A c \in DOMAIN current :
           /\ Published(c, RootOf[p])
           /\ \/ c \notin InForce \/ Dead("memory_fts", c) \/ Dead("memory_memfs", c)
              \/ ProjectionsApplied(c, RootOf[p])]_vars

\* When a rebuild returns, no file of a claim out of force is left under its
\* root, and a file that is not what the authority says still has its job open.
\* Whether the sweep ends or fails half way, it takes away no file that an
\* applied job promises.
RebuildOkExact ==
  [][\A p \in Procs : At(p, "cleanup") =>
       \A c \in Claims :
         /\ proc'[p].result = "rebuilt" =>
              \/ files'[RootOf[p]][c] = View(c)
              \/ c \in InForce /\ c \notin DoneClaims("memory_memfs")
         /\ files'[RootOf[p]][c] # files[RootOf[p]][c] =>
              files'[RootOf[p]][c] = View(c)]_vars

\* Once the callers' requests are used up, every claim is published for good,
\* through crashes and lost leases.
Converges == <>[](\A c \in DOMAIN current, r \in Roots : Published(c, r))

\* memory_schema.py: "Guards are ephemeral coordination state": a guard always
\* goes away, so a claim is never locked against its owner for good.
GuardsAreEphemeral == \A c \in Claims : [](c \in DOMAIN guards => <>(c \notin DOMAIN guards))
=============================================================================

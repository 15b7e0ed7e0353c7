-------------------------- MODULE ProjectionOutbox --------------------------
(***************************************************************************)
(* The projection outbox as values: a table from                           *)
(*   <<projection_kind, claim, claim version>>                             *)
(* (its UNIQUE key) to job rows, and what each statement of                *)
(* projection_outbox.py and of the job methods of store.py makes of a row. *)
(*                                                                         *)
(* Time is abstracted to what the queries compare: `lease' says whether    *)
(* lease_until has passed, `waiting' whether next_retry_at still lies in   *)
(* the future.                                                             *)
(***************************************************************************)
EXTENDS Naturals

CONSTANTS
  MaxAttempts,   \* fail_projection_job's max_attempts (5 in the code)
  Workers        \* worker ids, strings that callers choose

ASSUME MaxAttemptsAssumption == MaxAttempts \in Nat \ {0}

\* NULL in a column.
Null == "null"

\* MEMORY_PROJECTIONS
Kinds == {"memory_fts", "memory_memfs"}

Statuses == {"pending", "processing", "applied", "obsolete", "dead_letter"}

JobsOf(claim, version) == {<<kind, claim, version>> : kind \in Kinds}

\* A row as _enqueue inserts it.  authority and hash are the commitment.
NewJob(id, authority, hash) ==
  [id |-> id, authority |-> authority, hash |-> hash, status |-> "pending",
   attempt |-> 0, owner |-> Null, lease |-> "none", waiting |-> FALSE]

\* An existing row commits to something else: _enqueue raises.
CommitmentConflict(table, claim, version, authority, hash) ==
  \E key \in JobsOf(claim, version) \cap DOMAIN table :
    \/ table[key].authority # authority
    \/ table[key].hash # hash

\* outbox_id is AUTOINCREMENT; the FTS row is inserted before the MemFS row.
Slot(kind) == IF kind = "memory_fts" THEN 1 ELSE 2

\* _enqueue: rows that exist with the same commitment are left alone.
Enqueue(table, seq, claim, version, authority, hash) ==
  [key \in DOMAIN table \cup JobsOf(claim, version) |->
     IF key \in DOMAIN table
     THEN table[key]
     ELSE NewJob(seq + Slot(key[1]), authority, hash)]

\* The AUTOINCREMENT counter after Enqueue.
NextSeq(table, seq, claim, version) ==
  IF JobsOf(claim, version) \subseteq DOMAIN table THEN seq ELSE seq + 2

\* Fault: applied jobs stay applied.
ReopenNothing(table, claim, version) == table

\* A retired or expired version turns its jobs into invalidation work,
\* whatever they were doing; attempt_count is kept.
Reopen(table, claim, version) ==
  [key \in DOMAIN table |->
     IF key \in JobsOf(claim, version)
     THEN [table[key] EXCEPT !.status = "pending", !.owner = Null,
                             !.lease = "none", !.waiting = FALSE]
     ELSE table[key]]

\* Fault: expired leases are not reclaimed.
ClaimablePending(job) == job.status = "pending" /\ ~job.waiting

\* The WHERE clause of claim_projection_jobs.
Claimable(job) ==
  \/ job.status = "pending" /\ ~job.waiting
  \/ job.status = "processing" /\ job.lease = "expired"

Claimed(job, worker) ==
  [job EXCEPT !.status = "processing", !.owner = worker, !.lease = "live",
              !.attempt = @ + 1]

\* The exact lease attempt: status, owner and attempt_count together.
OwnsAttempt(table, key, id, worker, attempt) ==
  /\ key \in DOMAIN table
  /\ table[key].id = id
  /\ table[key].status = "processing"
  /\ table[key].owner = worker
  /\ table[key].attempt = attempt

Acked(job) ==
  [job EXCEPT !.status = "applied", !.owner = Null, !.lease = "none"]

Failed(job) ==
  LET dead == job.attempt >= MaxAttempts
  IN  [job EXCEPT !.status = IF dead THEN "dead_letter" ELSE "pending",
                  !.waiting = ~dead, !.owner = Null, !.lease = "none"]

Obsoleted(job) ==
  [job EXCEPT !.status = "obsolete", !.owner = Null, !.lease = "none",
              !.waiting = FALSE]
=============================================================================

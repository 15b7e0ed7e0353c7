------------------------- MODULE CandidatePromotion -------------------------
(***************************************************************************)
(* The candidate pipeline, composed with the authority it promotes into.   *)
(*                                                                         *)
(* A host's sync hook extracts the memory commands of the chat (memory,    *)
(* replace, forget) and promotes them one by one; a reviewer approves or   *)
(* rejects what was queued.  The pipeline keeps a receipt for each         *)
(* candidate, but the receipt, the queue and the authority are changed by  *)
(* different transactions: other processes, edits of the chat, projectors  *)
(* and crashes come between them.  A step is one transaction, or the reads *)
(* between two of them.                                                    *)
(*                                                                         *)
(* A candidate is named by the chat event it is extracted from; its        *)
(* idempotency keys "candidate:<id>" and "candidate:<id>:forget" are in    *)
(* different tables and are that event too.                                *)
(***************************************************************************)
EXTENDS MemoryAuthority, Selections

CONSTANTS
  CandidateInfo,  \* UserEvents -> [claim, tier, session]
  Syncs,          \* processes that run the host's sync hook
  Reviewers,      \* reviewers of the queue
  ScopeOf,        \* Syncs -> the session it extracts, Null for every session
  \* bounds on crashes, on guards taken by projectors, on edits of the chat
  MaxCrashes, MaxGuards, MaxEdits

Tiers == {"drop", "review", "activate"}

ASSUME CandidateAssumption ==
  /\ UserEvents \subseteq IdemKeys
  /\ DOMAIN CandidateInfo = UserEvents
  /\ \A e \in UserEvents : /\ CandidateInfo[e].claim \in Claims
                           /\ CandidateInfo[e].tier \in Tiers
  /\ Syncs \cap Reviewers = {}
  /\ DOMAIN ScopeOf = Syncs
  /\ {MaxCrashes, MaxGuards, MaxEdits} \subseteq Nat

Actors == Syncs \cup Reviewers

VARIABLES
  said,        \* the chat: user events in event_id order
  promotions,  \* candidate_promotion_receipts: candidate -> row
  queue,       \* memory_records of enqueue_candidate: candidate -> status
  proc,        \* what each process is doing
  approvals,   \* history: candidates a reviewer has asked to approve
  budget       \* crashes, guards and edits so far

pipelineVars == <<said, promotions, queue, proc, approvals, budget>>
vars == <<authorityVars, pipelineVars>>

-----------------------------------------------------------------------------
(* Candidates. *)

SaidEvents == {said[i] : i \in DOMAIN said}
ClaimOf(e) == CandidateInfo[e].claim
Action(e) == EventInfo[e].command
Content(e) == EventInfo[e].content

\* The events that a scope selects.
Scope(session) ==
  {e \in UserEvents : session = Null \/ CandidateInfo[e].session = session}

\* Fault: the window is promoted as it was selected, newest first.
WindowNewestFirst(session) ==
  Only([i \in DOMAIN said |-> said[Len(said) + 1 - i]], Scope(session))

\* extract: the events of the scope, folded in authority order.
Window(session) == Only(said, Scope(session))

CandidateWrite(e) ==
  [idem |-> e, claim |-> ClaimOf(e), content |-> Content(e),
   sensitivity |-> EventInfo[e].sensitivity,
   sourceSensitivity |-> EventInfo[e].sensitivity, refs |-> <<e>>]

CandidateReplace(e, version) ==
  [idem |-> e, claim |-> ClaimOf(e), expected |-> version,
   content |-> Content(e), sensitivity |-> EventInfo[e].sensitivity,
   refs |-> <<e>>]

CandidateRetire(e, version) ==
  [idem |-> e, claim |-> ClaimOf(e), expected |-> version, action |-> "retire"]

Outcome(decision, reason, version) ==
  [decision |-> decision, reason |-> reason, version |-> version]

NoOutcome == Outcome("none", "none", 0)

Rejected(reason) == Outcome("rejected", reason, 0)

\* A row of candidate_promotion_receipts.
ReceiptOf(outcome, reviewer) ==
  [decision |-> outcome.decision, reason |-> outcome.reason,
   version |-> outcome.version, by |-> reviewer]

\* The current row holds the candidate's content, in force or not.
Identical(e) ==
  /\ ClaimOf(e) \in DOMAIN current
  /\ versions[<<ClaimOf(e), current[ClaimOf(e)].version>>].content = Content(e)

InForce(e) ==
  ClaimOf(e) \in DOMAIN current /\ current[ClaimOf(e)].state = "active"

\* write finds the key taken by a version that this event backs.
ExactReplay(e) ==
  \E k \in DOMAIN versions :
    /\ k[1] = ClaimOf(e) /\ versions[k].content = Content(e)
    /\ \E i \in DOMAIN versions[k].sources : versions[k].sources[i] = e

-----------------------------------------------------------------------------
(* Processes. *)

Idle ==
  [pc |-> "idle", batch |-> <<>>, upto |-> 0, recovering |-> FALSE,
   existed |-> FALSE, seen |-> 0, outcome |-> NoOutcome]

At(p, pc) == proc[p].pc = pc
Cand(p) == Head(proc[p].batch)
Become(p, record) == proc' = [proc EXCEPT ![p] = record]
Goto(p, pc) == Become(p, [proc[p] EXCEPT !.pc = pc])
Conclude(p, outcome) ==
  Become(p, [proc[p] EXCEPT !.pc = "finalize", !.outcome = outcome])

\* An exception nobody catches: promote, or review_candidate, raises.
Raise(p) == Become(p, [Idle EXCEPT !.pc = "raised"])

\* On to the next candidate of the batch.
Advance(p) ==
  Become(p, [Idle EXCEPT !.pc = "next", !.batch = Tail(proc[p].batch),
                         !.upto = proc[p].upto])

\* The candidate waits for a review; outcome is what the pass will report.
Queue(p, outcome) ==
  Become(p, [proc[p] EXCEPT !.pc = "enqueue", !.outcome = outcome])

\* Fault: a candidate that was started before is not held back again.
HeldBackOnce(record, reviewed) ==
  /\ CandidateInfo[Head(record.batch)].tier = "review"
  /\ ~reviewed /\ ~record.recovering

\* Only a review lets an uncertain candidate through.
HeldBack(record, reviewed) ==
  CandidateInfo[Head(record.batch)].tier = "review" /\ ~reviewed

\* _promote_one: the guardrails, then retract or activate.
Route(record, reviewed) ==
  LET e == Head(record.batch)
  IN  IF CandidateInfo[e].tier = "drop"
      THEN [record EXCEPT !.pc = "finalize",
              !.outcome = Outcome("dropped", "confidence_below_pending_threshold", 0)]
      ELSE IF HeldBack(record, reviewed)
      THEN [record EXCEPT !.pc = "enqueue",
              !.outcome = Outcome("pending", "queued_for_review", 0)]
      ELSE [record EXCEPT !.pc = IF Action(e) = "forget" THEN "retract"
                                 ELSE "identity"]

-----------------------------------------------------------------------------
(* promote: the batch and the receipt of each candidate. *)

Extract(p) ==
  /\ At(p, "idle")
  /\ Become(p, [Idle EXCEPT !.pc = "next", !.batch = Window(ScopeOf[p]),
                            !.upto = Len(said)])
  /\ UNCHANGED <<authorityVars, said, promotions, queue, approvals, budget>>

\* Fault: a receipt in processing counts as done.
CompletedAny(e) == e \in DOMAIN promotions

Completed(e) ==
  e \in DOMAIN promotions /\ promotions[e].decision # "processing"

\* Fault: the two text columns are swapped.
InProgressSwapped == Outcome("in_progress", "processing", 0)

InProgress == Outcome("processing", "in_progress", 0)

\* SELECT, INSERT OR IGNORE, SELECT: whoever finds the row in processing
\* promotes too, and knows that it may be a second time.
Begin(p) ==
  /\ At(p, "next") /\ proc[p].batch # <<>>
  /\ LET e == Cand(p)
     IN  IF Completed(e)
         THEN Advance(p) /\ UNCHANGED promotions
         ELSE /\ promotions' = IF e \in DOMAIN promotions THEN promotions
                               ELSE Put(promotions, e, ReceiptOf(InProgress, Null))
              /\ Become(p, Route([proc[p] EXCEPT
                                     !.recovering = e \in DOMAIN promotions],
                               FALSE))
  /\ UNCHANGED <<authorityVars, said, queue, approvals, budget>>

Finish(p) ==
  /\ At(p, "next") /\ proc[p].batch = <<>>
  /\ Become(p, Idle)
  /\ UNCHANGED <<authorityVars, said, promotions, queue, approvals, budget>>

\* enqueue_candidate looks for the record and inserts it later.
Enqueue_Look(p) ==
  /\ At(p, "enqueue")
  /\ Goto(p, IF Cand(p) \in DOMAIN queue THEN "finalize" ELSE "insert")
  /\ UNCHANGED <<authorityVars, said, promotions, queue, approvals, budget>>

\* The second of two inserts violates UNIQUE(candidate_id).  Only _activate
\* catches it.
Enqueue_Insert(p) ==
  /\ At(p, "insert")
  /\ IF Cand(p) \notin DOMAIN queue
     THEN queue' = Put(queue, Cand(p), "pending") /\ Goto(p, "finalize")
     ELSE /\ UNCHANGED queue
          /\ IF proc[p].outcome.decision = "conflict"
             THEN Conclude(p, Outcome("error", "promotion_exception", 0))
             ELSE Raise(p)
  /\ UNCHANGED <<authorityVars, said, promotions, approvals, budget>>

\* A retried write is told apart from a duplicate by its receipt only.
Reported(p) ==
  LET o == proc[p].outcome
  IN  IF proc[p].recovering /\ Action(Cand(p)) = "memory" /\ o.decision = "duplicate"
      THEN Outcome("activated", "write_allowed", o.version)
      ELSE o

\* Fault: UPDATE without decision='processing' in its WHERE.
UnfinishedAny(e) == TRUE

Unfinished(e) == promotions[e].decision = "processing"

\* _finalize_receipt: the first to finish writes the decision, and the others
\* must have come to the same.
Finalize(p) ==
  /\ p \in Syncs /\ At(p, "finalize")
  /\ LET e   == Cand(p)
         row == ReceiptOf(Reported(p), Null)
     IN  IF Unfinished(e)
         THEN promotions' = Put(promotions, e, row) /\ Advance(p)
         ELSE /\ UNCHANGED promotions
              /\ IF [promotions[e] EXCEPT !.by = Null] = row
                 THEN Advance(p) ELSE Raise(p)
  /\ UNCHANGED <<authorityVars, said, queue, approvals, budget>>

-----------------------------------------------------------------------------
(* _activate: write, then deduplicate, find a conflict, or supersede. *)

Identity(p) ==
  /\ At(p, "identity")
  /\ Become(p, [proc[p] EXCEPT !.pc = "write", !.existed = Keyed(ClaimOf(Cand(p)))])
  /\ UNCHANGED <<authorityVars, said, promotions, queue, approvals, budget>>

\* Where a write that found the key taken goes on.
AfterReplay(p, reply) ==
  LET e == Cand(p)
  IN  IF proc[p].existed /\ Action(e) = "replace" THEN Goto(p, "supersede")
      ELSE IF ~ExactReplay(e) \/ proc[p].existed
      THEN Become(p, [proc[p] EXCEPT !.seen = reply.version,
                        !.pc = IF ExactReplay(e) THEN "compare" ELSE "resolve"])
      ELSE Conclude(p, Outcome("activated", "write_allowed", reply.version))

CallWrite(p) ==
  LET e     == Cand(p)
      reply == WriteReply(CandidateWrite(e))
      fresh == reply.ok /\ ~Keyed(ClaimOf(e))
  IN  /\ At(p, "write")
      /\ IF fresh
         THEN /\ Write(CandidateWrite(e))
              /\ Conclude(p, Outcome("activated", "write_allowed", 1))
         ELSE /\ UNCHANGED authorityVars
              /\ IF reply.ok THEN AfterReplay(p, reply)
                 ELSE Conclude(p, Rejected(reply.status))
      /\ UNCHANGED <<said, promotions, queue, approvals, budget>>

\* A repeated memory command: is its content still what the claim says?
Compare(p) ==
  /\ At(p, "compare")
  /\ Conclude(p, IF Identical(Cand(p))
                 THEN Outcome("duplicate", "already_active_identical", proc[p].seen)
                 ELSE Outcome("activated", "write_allowed", proc[p].seen))
  /\ UNCHANGED <<authorityVars, said, promotions, queue, approvals, budget>>

\* _resolve_existing_identity
Resolve(p) ==
  LET e == Cand(p)
  IN  /\ At(p, "resolve")
      /\ IF ~InForce(e) THEN Conclude(p, Rejected("canonical_identity_not_active"))
         ELSE IF Identical(e)
         THEN Conclude(p, Outcome("duplicate", "already_active_identical", proc[p].seen))
         ELSE IF Action(e) = "replace" THEN Goto(p, "supersede")
         ELSE Queue(p, Outcome("conflict", "semantic_identity_conflict",
                               proc[p].seen))
      /\ UNCHANGED <<authorityVars, said, promotions, queue, approvals, budget>>

\* Fault: a retry does not recognise its own content.
KnownContentNever(e) == FALSE

\* The content is there already; in force or not is not asked.
KnownContent(e) == Identical(e)

\* _supersede reads the current version ...
Supersede(p) ==
  LET e       == Cand(p)
      version == current[ClaimOf(e)].version
  IN  /\ At(p, "supersede")
      /\ IF ~KnownContent(e)
         THEN Become(p, [proc[p] EXCEPT !.pc = "replace", !.seen = version])
         ELSE Conclude(p,
                IF ReplaceId(CandidateReplace(e, version)) \in DOMAIN ingest
                THEN Outcome("superseded", "transition_allowed", version)
                ELSE Outcome("activated", "already_active_identical", version))
      /\ UNCHANGED <<authorityVars, said, promotions, queue, approvals, budget>>

\* Fault: the receipt names the version that was read.
ReplaceOutcomeSeen(reply, seen) ==
  IF reply.ok THEN Outcome("superseded", "transition_allowed", seen)
  ELSE Rejected(reply.status)

ReplaceOutcome(reply, seen) ==
  IF reply.ok THEN Outcome("superseded", "transition_allowed", reply.version)
  ELSE Rejected(reply.status)

\* ... and replaces it, if it is still the current one.  Under a projector's
\* guard the transaction aborts, and _activate's handler calls that an error.
CallReplace(p) ==
  LET r       == CandidateReplace(Cand(p), proc[p].seen)
      reply   == ReplaceReply(r)
      commits == reply.ok /\ ReplaceId(r) \notin DOMAIN ingest
  IN  /\ At(p, "replace")
      /\ IF commits /\ ~Unguarded(r.claim)
         THEN /\ UNCHANGED authorityVars
              /\ Conclude(p, Outcome("error", "promotion_exception", 0))
         ELSE /\ IF commits THEN Replace(r) ELSE UNCHANGED authorityVars
              /\ Conclude(p, ReplaceOutcome(reply, proc[p].seen))
      /\ UNCHANGED <<said, promotions, queue, approvals, budget>>

-----------------------------------------------------------------------------
(* _retract *)

Retract(p) ==
  LET e == Cand(p)
  IN  /\ At(p, "retract")
      /\ IF InForce(e)
         THEN Become(p, [proc[p] EXCEPT !.pc = "retire",
                                        !.seen = current[ClaimOf(e)].version])
         ELSE Conclude(p,
                IF e \in DOMAIN receipts
                THEN Outcome("retracted", "transition_allowed", receipts[e].version)
                ELSE Rejected("canonical_identity_not_active"))
      /\ UNCHANGED <<authorityVars, said, promotions, queue, approvals, budget>>

\* Fault: the receipt of retire is not looked at.
RetireOutcomeUnchecked(reply) ==
  Outcome("retracted", "transition_allowed", reply.version)

RetireOutcome(reply) ==
  IF reply.ok THEN Outcome("retracted", "transition_allowed", reply.version)
  ELSE Rejected(reply.status)

\* Nothing catches what retire raises.
CallRetire(p) ==
  LET r       == CandidateRetire(Cand(p), proc[p].seen)
      reply   == LifecycleReply(r)
      commits == reply.ok /\ r.idem \notin DOMAIN receipts
  IN  /\ At(p, "retire")
      /\ IF \/ commits /\ ~Unguarded(r.claim)
            \/ r.idem \notin DOMAIN receipts /\ LifecycleCurrent(r) /\ LifecycleAborts(r)
         THEN UNCHANGED authorityVars /\ Raise(p)
         ELSE /\ IF commits THEN Lifecycle(r) ELSE UNCHANGED authorityVars
              /\ Conclude(p, RetireOutcome(reply))
      /\ UNCHANGED <<said, promotions, queue, approvals, budget>>

-----------------------------------------------------------------------------
(* review_candidate and approve_pending. *)

Granted == {"activated", "duplicate", "superseded"}

\* The record's status is not asked; the receipt's decision is.  A reviewer who
\* repeats a granted approval only marks the record.
Approve(v, e) ==
  /\ At(v, "idle") /\ e \in DOMAIN queue /\ e \in DOMAIN promotions
  /\ LET asked == [Idle EXCEPT !.batch = <<e>>]
     IN  \/ /\ promotions[e].decision = "pending"
            /\ Become(v, Route(asked, TRUE))
         \/ /\ promotions[e].decision \in Granted /\ promotions[e].by = v
            /\ Become(v, [asked EXCEPT !.pc = "mark"])
  /\ approvals' = approvals \cup {e}
  /\ UNCHANGED <<authorityVars, said, promotions, queue, budget>>

\* An outcome that is not granted is raised to the caller of the review.
RecordApproval(v) ==
  /\ v \in Reviewers /\ At(v, "finalize")
  /\ LET e == Cand(v)
         o == proc[v].outcome
     IN  IF o.decision \notin Granted
         THEN UNCHANGED promotions /\ Become(v, Idle)
         ELSE /\ promotions' = IF promotions[e].decision # "pending" THEN promotions
                               ELSE Put(promotions, e, ReceiptOf(o, v))
              /\ Goto(v, "mark")
  /\ UNCHANGED <<authorityVars, said, queue, approvals, budget>>

MarkPromoted(v) ==
  /\ At(v, "mark")
  /\ queue' = [queue EXCEPT ![Cand(v)] = IF @ = "pending" THEN "promoted" ELSE @]
  /\ Become(v, Idle)
  /\ UNCHANGED <<authorityVars, said, promotions, approvals, budget>>

\* A rejection is one UPDATE, whatever the status was.
Reject(e) ==
  /\ e \in DOMAIN queue
  /\ queue' = [queue EXCEPT ![e] = "rejected"]
  /\ UNCHANGED <<authorityVars, said, promotions, proc, approvals, budget>>

-----------------------------------------------------------------------------
(* The chat, the projectors, crashes. *)

Spend(fault, bound) ==
  budget[fault] < bound /\ budget' = [budget EXCEPT ![fault] = @ + 1]

\* The next user message is ingested.
Say(e) ==
  /\ e \notin SaidEvents
  /\ said' = Append(said, e)
  /\ UNCHANGED <<authorityVars, promotions, queue, proc, approvals, budget>>

\* The source of e was edited: a new event of the session supersedes it.
Edit(e, revision) ==
  /\ e \in SaidEvents /\ revision \notin SaidEvents
  /\ CandidateInfo[e].session = CandidateInfo[revision].session
  /\ SyncEvent(e)
  /\ said' = Append(said, revision)
  /\ Spend("edit", MaxEdits)
  /\ UNCHANGED <<promotions, queue, proc, approvals>>

\* A projector's file writer guards the claim, and lets go.
GuardOn(c) ==
  /\ c \in DOMAIN current /\ Unguarded(c)
  /\ guards' = Put(guards, c, [worker |-> "projector"])
  /\ Spend("guard", MaxGuards)
  /\ UNCHANGED <<versions, gov, current, receipts, ingest, eventGov, legacy,
                 outbox, outboxSeq, answered, said, promotions, queue, proc,
                 approvals>>

GuardOff(c) ==
  /\ ~Unguarded(c)
  /\ guards' = [k \in DOMAIN guards \ {c} |-> guards[k]]
  /\ UNCHANGED <<versions, gov, current, receipts, ingest, eventGov, legacy,
                 outbox, outboxSeq, answered, pipelineVars>>

Crash(p) ==
  /\ proc[p].pc \notin {"idle", "raised"}
  /\ Become(p, Idle)
  /\ Spend("crash", MaxCrashes)
  /\ UNCHANGED <<authorityVars, said, promotions, queue, approvals>>

\* The hook failed; the host will call it again.
Recover(p) ==
  /\ At(p, "raised")
  /\ Become(p, Idle)
  /\ UNCHANGED <<authorityVars, said, promotions, queue, approvals, budget>>

Step(p) ==
  \/ Begin(p) \/ Finish(p) \/ Enqueue_Look(p) \/ Enqueue_Insert(p) \/ Finalize(p)
  \/ Identity(p) \/ CallWrite(p) \/ Compare(p) \/ Resolve(p)
  \/ Supersede(p) \/ CallReplace(p) \/ Retract(p) \/ CallRetire(p)
  \/ RecordApproval(p) \/ MarkPromoted(p) \/ Recover(p)

PipelineInit ==
  /\ Init
  /\ said = <<>> /\ promotions = Empty /\ queue = Empty
  /\ proc = [p \in Actors |-> Idle]
  /\ approvals = {}
  /\ budget = [crash |-> 0, guard |-> 0, edit |-> 0]

PipelineNext ==
  \/ \E p \in Actors : Step(p) \/ Crash(p)
  \/ \E p \in Syncs : Extract(p)
  \/ \E v \in Reviewers, e \in UserEvents : Approve(v, e)
  \/ \E e \in UserEvents : Say(e)
  \/ \E e \in UserEvents : Reviewers # {} /\ Reject(e)
  \/ \E e, revision \in UserEvents : Edit(e, revision)
  \/ \E c \in Claims : GuardOn(c) \/ GuardOff(c)

PipelineSpec == PipelineInit /\ [][PipelineNext]_vars

\* The host calls its hook again and again, a running hook goes on, and a
\* projector lets go of its guard.
PipelineLiveSpec ==
  /\ PipelineSpec
  /\ \A p \in Syncs : WF_vars(Extract(p) \/ Step(p))
  /\ \A c \in Claims : WF_vars(GuardOff(c))

-----------------------------------------------------------------------------
(* Properties. *)

Decisions ==
  {"processing", "activated", "duplicate", "pending", "conflict", "retracted",
   "dropped", "superseded", "rejected", "error"}

\* A candidate has a receipt only after it was said, and a receipt holds a
\* decision; a record only exists for a candidate with a receipt, and a
\* process's batch lists candidates it has a right to see.
PipelineTypeOK ==
  /\ \A i, j \in DOMAIN said : said[i] = said[j] => i = j
  /\ DOMAIN promotions \subseteq SaidEvents
  /\ \A e \in DOMAIN promotions :
       /\ promotions[e].decision \in Decisions
       /\ promotions[e].version \in Nat
       /\ promotions[e].by \in Reviewers \cup {Null}
  /\ DOMAIN queue \subseteq DOMAIN promotions
  /\ \A e \in DOMAIN queue : queue[e] \in {"pending", "promoted", "rejected"}
  /\ \A p \in Actors : {proc[p].batch[i] : i \in DOMAIN proc[p].batch} \subseteq SaidEvents

\* The abstract promise of the pipeline to a user who is alone: the memory a
\* sequence of commands leaves.  A key is learned once, changed by replace,
\* and gone for good once it is forgotten.
NoMemory == [state |-> "none", content |-> Null]

Apply(memory, e) ==
  IF CandidateInfo[e].tier # "activate" THEN memory
  ELSE LET c   == ClaimOf(e)
           new == [state |-> "active", content |-> Content(e)]
       IN  [memory EXCEPT ![c] =
              IF @.state = "none" THEN (IF Action(e) = "forget" THEN @ ELSE new)
              ELSE IF @.state = "retired" \/ Action(e) = "memory" THEN @
              ELSE IF Action(e) = "replace" THEN new
              ELSE [@ EXCEPT !.state = "retired"]]

Remembered(events) ==
  FoldLeft(Apply, [c \in Claims |-> NoMemory], events)

Memory(c) ==
  IF c \notin DOMAIN current THEN NoMemory
  ELSE [state |-> current[c].state,
        content |-> versions[<<c, current[c].version>>].content]

\* When one host works alone, whatever crashes it recovered from, a pass that
\* ends leaves exactly the memory its commands add up to in the order they
\* were said: nothing is applied twice, skipped, or applied after a later one.
\* Commands add up as long as none of them was edited away.
NewestWins ==
  \A p \in Syncs :
    budget.edit = 0 /\ At(p, "next") /\ proc[p].batch = <<>> =>
      \A c \in Claims :
        Memory(c) = Remembered(SubSeq(said, 1, proc[p].upto))[c]

\* A receipt that reports an effect names the version that has the candidate's
\* content, also when it was written by a retry.
ReceiptNamesItsVersion ==
  \A e \in DOMAIN promotions :
    promotions[e].decision \in Granted =>
      /\ <<ClaimOf(e), promotions[e].version>> \in DOMAIN versions
      /\ versions[<<ClaimOf(e), promotions[e].version>>].content = Content(e)

\* The versions of its claim that a candidate wrote.
WrittenBy(e) ==
  {k \in DOMAIN versions :
     \E i \in DOMAIN versions[k].sources : versions[k].sources[i] = e}

\* tests/pcltm/test_candidate_pipeline.py,
\* test_processing_receipt_reexecutes_only_through_lower_idempotency: a
\* candidate whose promotion is repeated after a crash writes one version at
\* most, as long as no other host changes the claim in between.
CandidateWritesOnce ==
  \A e \in UserEvents : \A j, k \in WrittenBy(e) : j = k

\* A candidate reported as retracted really ended the claim, and for good; a
\* report of it is never given on the strength of a call that was refused.
RetractedIsRetired ==
  \A e \in DOMAIN promotions :
    promotions[e].decision = "retracted" =>
      /\ ClaimOf(e) \in DOMAIN current
      /\ current[ClaimOf(e)].state = "retired"

\* An uncertain candidate has no effect on the authority, a version or a
\* retirement, before a reviewer asked for it, on whatever path a crash or a
\* second process led it.
UnreviewedStaysOut ==
  \A e \in UserEvents \ approvals :
    CandidateInfo[e].tier # "activate" =>
      WrittenBy(e) = {} /\ e \notin DOMAIN receipts

\* A decision is given once: of two processes that promote the same candidate
\* one writes it, and only a review changes a pending one.
DecisionsAreFinal ==
  [][\A e \in DOMAIN promotions :
       promotions[e].decision # "processing" =>
         \/ promotions'[e] = promotions[e]
         \/ /\ promotions[e].decision = "pending"
            /\ e \in approvals /\ promotions'[e].decision \in Granted]_vars

\* A message that was edited is no longer evidence: no version is ever written
\* on the strength of it, even when its promotion was already under way.
EditedIsNoEvidence ==
  [][\A e \in UserEvents :
       eventGov[e] = "superseded" => WrittenBy(e)' = WrittenBy(e)]_vars

Decided(e) ==
  e \in DOMAIN promotions /\ promotions[e].decision \in Decisions \ {"processing"}

\* Every command that was said gets its decision in the end, through crashes,
\* guards and hooks that fail.
EverySaidDecided ==
  \A e \in UserEvents : e \in SaidEvents ~> Decided(e)

\* candidate_promotion.py:601: "identical content already active: no-op".
AlreadyActiveIsActive ==
  \A p \in Actors :
    At(p, "finalize") /\ proc[p].outcome.reason = "already_active_identical" =>
      InForce(Cand(p))

\* candidate_promotion.py:448: "batch isolation is the API contract": no
\* candidate ends the pass of the others.
BatchIsolated == \A p \in Syncs : ~At(p, "raised")

\* README.md:231: "Rejected, ambiguous, or policy-ineligible records remain
\* non-authoritative."
RejectedNotAuthoritative ==
  \A e \in DOMAIN queue :
    queue[e] = "rejected" =>
      \A k \in WrittenBy(e) : ~ActiveAt(k[1], k[2])
=============================================================================

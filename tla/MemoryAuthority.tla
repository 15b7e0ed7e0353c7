--------------------------- MODULE MemoryAuthority ---------------------------
(***************************************************************************)
(* The governed-memory authority: the SQLite tables behind                 *)
(* MemoryWriteService, MemoryTransitionService and                         *)
(* LegacyMemoryPromotionService, and the transactions that change them.    *)
(*                                                                         *)
(* Every service call runs in one BEGIN IMMEDIATE transaction, so a call   *)
(* is one action; concurrency is any number of callers, in any order, each *)
(* holding a request that may be stale, repeated or lost in between.  A    *)
(* call that is refused leaves the tables alone and is the Reply operator  *)
(* of its service.  A table is a function from its key to its row.         *)
(*                                                                         *)
(* A claim is named by its canonical_key (UNIQUE); an event inserted by a  *)
(* service is named by its external_id (UNIQUE).                           *)
(*                                                                         *)
(* Operators marked "Fault" are plausible bugs.  No definition uses them:  *)
(* each replaces the definition it precedes in a mutation run.             *)
(***************************************************************************)
EXTENDS MemoryPolicy, ProjectionOutbox, FiniteSets

CONSTANTS
  Claims,          \* canonical keys
  Contents,        \* claim bodies, equal exactly when their SHA-256 are
  IdemKeys,        \* idempotency keys callers choose
  UserEvents,      \* chat events already in the ledger
  EventInfo,       \* UserEvents -> [content, sensitivity, command]
  LegacyRecords,   \* rows of memory_records
  LegacyInfo,      \* LegacyRecords -> [content, sensitivity]
  WriteRequests, ReplaceRequests, LifecycleRequests,   \* the callers' requests
  PromotionBatches                                     \* sequences of specs

\* The events the services insert themselves, named by their external_id.
AssertedEvents == {"memory-assertion", "memory-replace"} \X IdemKeys

Sources == UserEvents \cup AssertedEvents \cup LegacyRecords

WriteRequest ==
  [idem : IdemKeys, claim : Claims, content : Contents,
   sensitivity : Sensitivities, sourceSensitivity : Sensitivities,
   refs : Seq(UserEvents)]

ReplaceRequest ==
  [idem : IdemKeys, claim : Claims, expected : Nat \ {0}, content : Contents,
   sensitivity : Sensitivities, refs : Seq(UserEvents)]

LifecycleRequest ==
  [idem : IdemKeys, claim : Claims, expected : Nat \ {0},
   action : {"retire", "expire"}]

PromotionSpec == [record : LegacyRecords, claim : Claims]

ASSUME EventInfoAssumption ==
  EventInfo \in [UserEvents -> [content : Contents, sensitivity : Sensitivities,
                                command : {"memory", "replace", "forget"}]]

ASSUME LegacyInfoAssumption ==
  LegacyInfo \in [LegacyRecords -> [content : Contents,
                                    sensitivity : Sensitivities]]

\* memory_claim_sources tells events and records apart by source_kind, and an
\* external_id (UNIQUE) names a chat event or one a service inserted, never both.
ASSUME SourcesAssumption ==
  /\ UserEvents \cap AssertedEvents = {}
  /\ LegacyRecords \cap (UserEvents \cup AssertedEvents) = {}

ASSUME RequestAssumption ==
  /\ \A r \in WriteRequests : r \in WriteRequest
  /\ \A r \in ReplaceRequests : r \in ReplaceRequest
  /\ \A r \in LifecycleRequests : r \in LifecycleRequest
  /\ \A b \in PromotionBatches :
       /\ b \in Seq(PromotionSpec)
       /\ \A i, j \in DOMAIN b :
            b[i].record = b[j].record \/ b[i].claim = b[j].claim => i = j

VARIABLES
  versions,   \* memory_claim_versions and their sources: <<claim, n>> -> row
  gov,        \* memory_governance_events, in memory_governance_id order
  current,    \* memory_current: claim -> [version, gid, state]
  receipts,   \* memory_transition_receipts: idempotency_key -> row
  ingest,     \* ingest_events of the services: external_id -> [request, event]
  eventGov,   \* last event_governance state of each user event
  legacy,     \* status of each legacy record
  outbox,     \* projection_outbox, memory kinds
  outboxSeq,  \* its AUTOINCREMENT counter
  guards,     \* memory_projection_guards: claim -> row
  answered    \* history: request -> the receipt its committing call returned

tables == <<versions, gov, current, receipts, ingest, eventGov, legacy,
            outbox, outboxSeq, guards>>
authorityVars == <<tables, answered>>

-----------------------------------------------------------------------------
(* Helpers on the tables. *)

\* INSERT or UPDATE of the row with this key.
Put(table, key, row) ==
  [k \in DOMAIN table \cup {key} |-> IF k = key THEN row ELSE table[k]]

GovEvent(claim, version, action, prev, new) ==
  [claim |-> claim, version |-> version, action |-> action, prev |-> prev,
   new |-> new]

Version(content, sensitivity, lineage, sources) ==
  [content |-> content, sensitivity |-> sensitivity, lineage |-> lineage,
   sources |-> sources]

Keyed(claim) == \E k \in DOMAIN versions : k[1] = claim

\* Fault: the triggers are missing.
UnguardedAlways(claim) == TRUE

\* The triggers memory_current_projection_guard_*: a guarded claim's row in
\* memory_current cannot be written, the transaction aborts.
Unguarded(claim) == claim \notin DOMAIN guards

ActiveAt(claim, version) ==
  /\ claim \in DOMAIN current
  /\ current[claim].version = version
  /\ current[claim].state = "active"

Receipt(ok, status, claim, version, gid) ==
  [ok |-> ok, status |-> status, claim |-> claim, version |-> version,
   gid |-> gid]

Refusal(reason) == Receipt(FALSE, reason, Null, 0, 0)

\* ORDER BY memory_governance_id DESC LIMIT 1
Latest(gids) == CHOOSE g \in gids : \A h \in gids : h <= g

\* No event is named twice, and each reopened user event must be a command whose
\* body is the content written.
SourcesMatch(refs, content, commands) ==
  /\ \A i, j \in DOMAIN refs : refs[i] = refs[j] => i = j
  /\ \A i \in DOMAIN refs : /\ EventInfo[refs[i]].command \in commands
                            /\ EventInfo[refs[i]].content = content

\* Fault: a source is reopened, but its governance is not asked.
SourcesKnown(refs) == \A i \in DOMAIN refs : refs[i] \in UserEvents

\* ... and the source sync must not have superseded it.
SourcesLive(refs) == \A i \in DOMAIN refs : eventGov[refs[i]] \in {"none", "active"}

\* Admission activates a source event that has no governance yet.
ActivateSources(refs) ==
  [e \in UserEvents |->
     IF e \in {refs[i] : i \in DOMAIN refs} THEN "active" ELSE eventGov[e]]

UserSnapshots(refs) ==
  [i \in DOMAIN refs |->
     [ref |-> refs[i], sensitivity |-> EventInfo[refs[i]].sensitivity]]

-----------------------------------------------------------------------------
(* MemoryWriteService.write: the first version of a claim. *)

Derived(r) == r.refs # <<>>

Lineage(r) ==
  IF Derived(r) THEN "event_derived" ELSE "explicit_user_assertion"

\* Derived writes look this id up but never insert it.
WriteId(r) ==
  <<IF Derived(r) THEN "memory-derived" ELSE "memory-assertion", r.idem>>

WriteSources(r) == IF Derived(r) THEN r.refs ELSE <<WriteId(r)>>

WriteSnapshots(r) ==
  IF Derived(r)
  THEN UserSnapshots(r.refs)
  ELSE <<[ref |-> WriteId(r), sensitivity |-> r.sourceSensitivity]>>

WriteAdmitted(r) ==
  WriteVerdict(Lineage(r), r.sensitivity, WriteSources(r), WriteSnapshots(r))
    = "write_allowed"

\* The outbox row commits to the last source.
LastSource(sources) == sources[Len(sources)]

Write(r) ==
  LET sources == WriteSources(r)
      gid     == Len(gov) + 1
  IN  /\ WriteId(r) \notin DOMAIN ingest
      /\ SourcesMatch(r.refs, r.content, {"memory", "replace"})
      /\ ~Keyed(r.claim)
      /\ SourcesLive(r.refs)
      /\ WriteAdmitted(r)
      /\ Unguarded(r.claim)
      /\ versions' = Put(versions, <<r.claim, 1>>,
                         Version(r.content, r.sensitivity, Lineage(r), sources))
      /\ gov' = Append(gov, GovEvent(r.claim, 1, "activate",
                                     "pending_review", "active"))
      /\ current' = Put(current, r.claim,
                        [version |-> 1, gid |-> gid, state |-> "active"])
      /\ ingest' = IF Derived(r) THEN ingest
                   ELSE Put(ingest, WriteId(r),
                            [request |-> r, event |-> WriteId(r)])
      /\ eventGov' = ActivateSources(r.refs)
      /\ outbox' = Enqueue(outbox, outboxSeq, r.claim, 1,
                           LastSource(sources), r.content)
      /\ outboxSeq' = NextSeq(outbox, outboxSeq, r.claim, 1)
      /\ answered' = Put(answered, r, Receipt(TRUE, "active", r.claim, 1, gid))
      /\ UNCHANGED <<receipts, legacy, guards>>

\* Governance events of versions that a given source backs.
EventsBackedBy(source) ==
  {g \in DOMAIN gov :
     source \in {versions[<<gov[g].claim, gov[g].version>>].sources[i] :
                   i \in DOMAIN versions[<<gov[g].claim, gov[g].version>>].sources}}

\* Governance events of the claim's highest version.
LastVersionEvents(claim) ==
  {g \in DOMAIN gov :
     /\ gov[g].claim = claim
     /\ \A k \in DOMAIN versions : k[1] = claim => k[2] <= gov[g].version}

GovReceipt(g, claim) ==
  Receipt(TRUE, gov[g].new, claim, gov[g].version, g)

\* Fault: the canonical key is checked before the idempotency key.
WriteReplyKeyFirst(r) ==
  IF Keyed(r.claim) THEN Refusal("canonical_key_conflict")
  ELSE Receipt(TRUE, "active", r.claim, 1, Len(gov) + 1)

\* What a call of write returns in this state.  A known explicit request is
\* answered from the authority its own event backs; an existing canonical key
\* is a conflict for an explicit request and an answer for a derived one.
WriteReply(r) ==
  IF WriteId(r) \in DOMAIN ingest
  THEN IF ingest[WriteId(r)].request # r
       THEN Refusal("idempotency_conflict")
       ELSE LET g == Latest(EventsBackedBy(WriteId(r)))
            IN  GovReceipt(g, gov[g].claim)
  ELSE IF ~SourcesMatch(r.refs, r.content, {"memory", "replace"})
       THEN Refusal("source_snapshot_mismatch")
  ELSE IF Keyed(r.claim)
       THEN IF Derived(r)
            THEN GovReceipt(Latest(LastVersionEvents(r.claim)), r.claim)
            ELSE Refusal("canonical_key_conflict")
  ELSE IF ~SourcesLive(r.refs) \/ ~WriteAdmitted(r) THEN Refusal("rejected")
  ELSE Receipt(TRUE, "active", r.claim, 1, Len(gov) + 1)

-----------------------------------------------------------------------------
(* MemoryTransitionService.replace: supersede by a new version. *)

ReplaceId(r) == <<"memory-replace", r.idem>>

ReplaceSource(r) == IF Derived(r) THEN r.refs[1] ELSE ReplaceId(r)

ReplaceSnapshot(r) ==
  [ref |-> ReplaceSource(r),
   sensitivity |-> IF Derived(r) THEN EventInfo[r.refs[1]].sensitivity
                   ELSE r.sensitivity]

ReplaceAdmitted(r) ==
  /\ Derived(r) => Len(r.refs) = 1
  /\ SourcesMatch(r.refs, r.content, {"replace"})
  /\ SourcesLive(r.refs)
  /\ WriteVerdict(Lineage(r), r.sensitivity, <<ReplaceSource(r)>>,
                  <<ReplaceSnapshot(r)>>) = "write_allowed"

\* Fault: only the version is compared.
ReplaceVersionOnly(r) ==
  r.claim \in DOMAIN current /\ current[r.claim].version = r.expected

\* The compare-and-set of replace: the caller's version is the current one and
\* active.
ReplaceCurrent(r) == ActiveAt(r.claim, r.expected)

\* Fault: the old version is superseded after the new one is activated.
ReplaceLogSupersedeLast(r) ==
  <<GovEvent(r.claim, r.expected + 1, "submit", "none", "pending_review"),
    GovEvent(r.claim, r.expected + 1, "activate", "pending_review", "active"),
    GovEvent(r.claim, r.expected, "supersede", "active", "superseded")>>

\* Fault: the supersede event names the new version.
ReplaceLogWrongVersion(r) ==
  <<GovEvent(r.claim, r.expected + 1, "supersede", "active", "superseded"),
    GovEvent(r.claim, r.expected + 1, "submit", "none", "pending_review"),
    GovEvent(r.claim, r.expected + 1, "activate", "pending_review", "active")>>

\* What replace logs: the old version is superseded before the new one is
\* submitted and activated, so the log ends with the activation.
ReplaceLog(r) ==
  <<GovEvent(r.claim, r.expected, "supersede", "active", "superseded"),
    GovEvent(r.claim, r.expected + 1, "submit", "none", "pending_review"),
    GovEvent(r.claim, r.expected + 1, "activate", "pending_review", "active")>>

\* Faults: the jobs are enqueued for the old version, or for the one before.
ReplaceJobOldVersion(r) == r.expected
ReplaceJobVersionBefore(r) == r.expected - 1

\* The version whose projection jobs replace enqueues.
ReplaceJobVersion(r) == r.expected + 1

Replace(r) ==
  LET next == r.expected + 1
      gid  == Len(gov) + 3
  IN  /\ ReplaceId(r) \notin DOMAIN ingest
      /\ ReplaceCurrent(r)
      /\ ReplaceAdmitted(r)
      /\ Unguarded(r.claim)
      /\ <<r.claim, next>> \notin DOMAIN versions
      /\ versions' = Put(versions, <<r.claim, next>>,
                         Version(r.content, r.sensitivity, Lineage(r),
                                 <<ReplaceSource(r)>>))
      /\ gov' = gov \o ReplaceLog(r)
      /\ current' = Put(current, r.claim,
                        [version |-> next, gid |-> gid, state |-> "active"])
      /\ ingest' = Put(ingest, ReplaceId(r),
                       [request |-> r, event |-> ReplaceSource(r)])
      /\ eventGov' = ActivateSources(r.refs)
      /\ outbox' = Enqueue(outbox, outboxSeq, r.claim, ReplaceJobVersion(r),
                           ReplaceSource(r), r.content)
      /\ outboxSeq' = NextSeq(outbox, outboxSeq, r.claim, ReplaceJobVersion(r))
      /\ answered' = Put(answered, r,
                         Receipt(TRUE, "active", r.claim, next, gid))
      /\ UNCHANGED <<receipts, legacy, guards>>

\* A repeated request is answered from the last activation that the event of
\* its ingest row backs: replace looks the event up, not the claim.
ReplayedActivations(r) ==
  {g \in EventsBackedBy(ingest[ReplaceId(r)].event) : gov[g].action = "activate"}

ReplaceReply(r) ==
  IF ReplaceId(r) \in DOMAIN ingest
  THEN IF \/ ingest[ReplaceId(r)].request # r
          \/ ReplayedActivations(r) = {}
       THEN Refusal("idempotency_conflict")
       ELSE GovReceipt(Latest(ReplayedActivations(r)), r.claim)
  ELSE IF r.claim \notin DOMAIN current THEN Refusal("claim_not_found")
  ELSE IF current[r.claim].version # r.expected
       THEN Refusal("stale_expected_version")
  ELSE IF current[r.claim].state # "active" THEN Refusal("invalid_transition")
  ELSE IF ~ReplaceAdmitted(r) THEN Refusal("rejected")
  ELSE Receipt(TRUE, "active", r.claim, r.expected + 1, Len(gov) + 3)

-----------------------------------------------------------------------------
(* MemoryTransitionService.retire and expire. *)

\* The row lifecycle takes its commitment from: the first joined source.
FirstSource(claim, version) == versions[<<claim, version>>].sources[1]

\* enqueue_memory_projections raises, and the transaction rolls back.
LifecycleAborts(r) ==
  CommitmentConflict(outbox, r.claim, r.expected,
                     FirstSource(r.claim, r.expected),
                     versions[<<r.claim, r.expected>>].content)

\* Fault: the lifecycle graph is not consulted.
LifecycleVersionOnly(r) ==
  r.claim \in DOMAIN current /\ current[r.claim].version = r.expected

\* The compare-and-set of _lifecycle, with resolve_transition.
LifecycleCurrent(r) ==
  /\ r.claim \in DOMAIN current
  /\ current[r.claim].version = r.expected
  /\ TransitionAllowed(current[r.claim].state, r.action, ActionTarget[r.action])

Lifecycle(r) ==
  LET version == current[r.claim].version
      state   == ActionTarget[r.action]
      gid     == Len(gov) + 1
      hash    == versions[<<r.claim, r.expected>>].content
  IN  /\ r.idem \notin DOMAIN receipts
      /\ LifecycleCurrent(r)
      /\ Unguarded(r.claim)
      /\ ~LifecycleAborts(r)
      /\ gov' = Append(gov, GovEvent(r.claim, version, r.action, "active", state))
      /\ current' = Put(current, r.claim,
                        [version |-> version, gid |-> gid, state |-> state])
      /\ receipts' = Put(receipts, r.idem,
                         [request |-> r, version |-> r.expected, gid |-> gid])
      /\ outbox' = Reopen(Enqueue(outbox, outboxSeq, r.claim, r.expected,
                                  FirstSource(r.claim, r.expected), hash),
                          r.claim, r.expected)
      /\ outboxSeq' = NextSeq(outbox, outboxSeq, r.claim, r.expected)
      /\ answered' = Put(answered, r,
                         Receipt(TRUE, state, r.claim, r.expected, gid))
      /\ UNCHANGED <<versions, ingest, eventGov, legacy, guards>>

\* Fault: the receipt of an earlier call is not looked up.
LifecycleReplyNoReceipt(r) ==
  IF ~LifecycleCurrent(r) THEN Refusal("invalid_transition")
  ELSE Receipt(TRUE, ActionTarget[r.action], r.claim, r.expected, Len(gov) + 1)

LifecycleReply(r) ==
  IF r.idem \in DOMAIN receipts
  THEN IF receipts[r.idem].request # r
       THEN Refusal("idempotency_conflict")
       ELSE Receipt(TRUE, gov[receipts[r.idem].gid].new, r.claim,
                    receipts[r.idem].version, receipts[r.idem].gid)
  ELSE IF r.claim \notin DOMAIN current THEN Refusal("claim_not_found")
  ELSE IF current[r.claim].version # r.expected
       THEN Refusal("stale_expected_version")
  ELSE IF ~LifecycleCurrent(r) THEN Refusal("invalid_transition")
  ELSE IF LifecycleAborts(r) THEN Refusal("projection commitment conflict")
  ELSE Receipt(TRUE, ActionTarget[r.action], r.claim, r.expected, Len(gov) + 1)

-----------------------------------------------------------------------------
(* LegacyMemoryPromotionService.promote, and what happens to the sources. *)

\* Fault: only claims still in force are searched for the record.
PromotedInForce(record) ==
  {k \in DOMAIN versions : versions[k].sources = <<record>> /\ ActiveAt(k[1], k[2])}

Promoted(record) == {k \in DOMAIN versions : versions[k].sources = <<record>>}

\* A record is promotable when it is still approved and either unknown to the
\* governed tables or promoted before, to this claim, and still in force.
PromotionAdmitted(spec) ==
  /\ legacy[spec.record] = "approved"
  /\ LegacyInfo[spec.record].sensitivity # "secret"
  /\ IF Promoted(spec.record) = {}
     THEN ~Keyed(spec.claim)
     ELSE Promoted(spec.record) = {<<spec.claim, 1>>} /\ ActiveAt(spec.claim, 1)

\* The rows inserted for n new claims, in batch order: the i-th gets the i-th
\* governance event and the i-th pair of outbox rows.
InsertPromoted(n, record, claim) ==
  LET new    == {claim[i] : i \in 1..n}
      nth(c) == CHOOSE i \in 1..n : claim[i] = c
      row(r) == Version(LegacyInfo[r].content, LegacyInfo[r].sensitivity,
                        "legacy_governed", <<r>>)
      job(key, i) == NewJob(outboxSeq + 2 * (i - 1) + Slot(key[1]), record[i],
                            LegacyInfo[record[i]].content)
  IN  /\ versions' =
           [k \in DOMAIN versions \cup {<<c, 1>> : c \in new} |->
              IF k \in DOMAIN versions THEN versions[k]
              ELSE row(record[nth(k[1])])]
      /\ gov' = gov \o [i \in 1..n |-> GovEvent(claim[i], 1, "activate",
                                                "pending_review", "active")]
      /\ current' =
           [c \in DOMAIN current \cup new |->
              IF c \in new
              THEN [version |-> 1, gid |-> Len(gov) + nth(c), state |-> "active"]
              ELSE current[c]]
      /\ outbox' =
           [key \in DOMAIN outbox \cup UNION {JobsOf(c, 1) : c \in new} |->
              IF key \in DOMAIN outbox THEN outbox[key]
              ELSE job(key, nth(key[2]))]
      /\ outboxSeq' = outboxSeq + 2 * n

\* All or nothing.  fresh are the positions of the specs not promoted yet and
\* pick lists them in batch order.
Promote(batch) ==
  LET fresh == {i \in DOMAIN batch : Promoted(batch[i].record) = {}}
      n     == Cardinality(fresh)
  IN  /\ \A i \in DOMAIN batch : PromotionAdmitted(batch[i])
      /\ \A i \in fresh : Unguarded(batch[i].claim)
      /\ \E pick \in [1..n -> fresh] :
           /\ \A i, j \in 1..n : i < j => pick[i] < pick[j]
           /\ InsertPromoted(n, [i \in 1..n |-> batch[pick[i]].record],
                                [i \in 1..n |-> batch[pick[i]].claim])
      /\ UNCHANGED <<receipts, ingest, eventGov, legacy, guards, answered>>

\* upsert_external_event: the chat source was edited, its event is superseded.
SyncEvent(e) ==
  /\ eventGov[e] # "superseded"
  /\ eventGov' = [eventGov EXCEPT ![e] = "superseded"]
  /\ UNCHANGED <<versions, gov, current, receipts, ingest, legacy, outbox,
                 outboxSeq, guards, answered>>

\* Fault: no trigger on memory_records.
WithdrawLegacyUnguarded(record) ==
  /\ legacy[record] = "approved"
  /\ legacy' = [legacy EXCEPT ![record] = "rejected"]
  /\ UNCHANGED <<versions, gov, current, receipts, ingest, eventGov, outbox,
                 outboxSeq, guards, answered>>

\* review_candidate rejects an approved record.  A trigger blocks it while a
\* claim of the record is guarded.
WithdrawLegacy(record) ==
  /\ legacy[record] = "approved"
  /\ \A k \in Promoted(record) : Unguarded(k[1])
  /\ legacy' = [legacy EXCEPT ![record] = "rejected"]
  /\ UNCHANGED <<versions, gov, current, receipts, ingest, eventGov, outbox,
                 outboxSeq, guards, answered>>

-----------------------------------------------------------------------------
Empty == [k \in {} |-> Null]

Init ==
  /\ versions = Empty /\ gov = <<>> /\ current = Empty /\ receipts = Empty
  /\ ingest = Empty
  /\ eventGov = [e \in UserEvents |-> "none"]
  /\ legacy = [r \in LegacyRecords |-> "approved"]
  /\ outbox = Empty /\ outboxSeq = 0 /\ guards = Empty
  /\ answered = Empty

\* A call may come at any time and any number of times; a call that is answered
\* without a change of the tables is a stuttering step.
AuthorityNext ==
  \/ \E r \in WriteRequests : Write(r)
  \/ \E r \in ReplaceRequests : Replace(r)
  \/ \E r \in LifecycleRequests : Lifecycle(r)
  \/ \E b \in PromotionBatches : Promote(b)
  \/ \E e \in UserEvents : SyncEvent(e)
  \/ \E r \in LegacyRecords : WithdrawLegacy(r)

Spec == Init /\ [][AuthorityNext]_authorityVars

-----------------------------------------------------------------------------
(* Properties. *)

VersionRow ==
  [content : Contents, sensitivity : Sensitivities,
   lineage : {"event_derived", "explicit_user_assertion", "legacy_governed"},
   sources : Seq(Sources)]

GovRow ==
  [claim : Claims, version : Nat \ {0}, action : DOMAIN ActionTarget \cup {"submit"},
   prev : LifecycleStates \cup {"none"}, new : LifecycleStates]

CurrentRow ==
  [version : Nat \ {0}, gid : Nat \ {0}, state : LifecycleStates]

ReceiptRow == [request : LifecycleRequests, version : Nat \ {0}, gid : Nat \ {0}]

IngestRow ==
  [request : WriteRequests \cup ReplaceRequests, event : UserEvents \cup AssertedEvents]

JobRow ==
  [id : Nat \ {0}, authority : Sources, hash : Contents, status : Statuses,
   attempt : Nat, owner : Workers \cup {Null},
   lease : {"none", "live", "expired"}, waiting : BOOLEAN]

JobKeys == Kinds \X Claims \X (Nat \ {0})

Answer ==
  [ok : {TRUE}, status : LifecycleStates, claim : Claims, version : Nat \ {0},
   gid : Nat \ {0}]

\* Every column holds what its CHECK constraint and its foreign keys allow.
TypeOK ==
  /\ DOMAIN versions \subseteq Claims \X (Nat \ {0})
  /\ versions \in [DOMAIN versions -> VersionRow]
  /\ gov \in Seq(GovRow)
  /\ DOMAIN current \subseteq Claims
  /\ current \in [DOMAIN current -> CurrentRow]
  /\ DOMAIN receipts \subseteq IdemKeys
  /\ receipts \in [DOMAIN receipts -> ReceiptRow]
  /\ DOMAIN ingest \subseteq AssertedEvents
  /\ ingest \in [DOMAIN ingest -> IngestRow]
  /\ eventGov \in [UserEvents -> {"none", "active", "superseded"}]
  /\ legacy \in [LegacyRecords -> {"approved", "rejected"}]
  /\ DOMAIN outbox \subseteq JobKeys
  /\ outbox \in [DOMAIN outbox -> JobRow]
  /\ outboxSeq \in Nat
  /\ DOMAIN answered \subseteq
       WriteRequests \cup ReplaceRequests \cup LifecycleRequests
  /\ answered \in [DOMAIN answered -> Answer]

\* The row that recall reads (memory_current) is the tip of the append-only
\* log of its claim: same version, same state, and no later event.  The two
\* are written by separate statements of each service.
CurrentIsLogTip ==
  \A c \in DOMAIN current :
    /\ current[c].gid \in DOMAIN gov
    /\ gov[current[c].gid].claim = c
    /\ gov[current[c].gid].version = current[c].version
    /\ gov[current[c].gid].new = current[c].state
    /\ \A g \in DOMAIN gov : gov[g].claim = c => g <= current[c].gid

\* The log of one version is a path of the lifecycle graph: each event leaves
\* the state its predecessor of the same version entered, so nothing leaves a
\* final state and no transition is logged twice.  The schema's trigger
\* checks each row on its own and cannot see this.
LogChains ==
  \A g, h \in DOMAIN gov :
    (/\ g < h
     /\ gov[g].claim = gov[h].claim /\ gov[g].version = gov[h].version
     /\ \A i \in DOMAIN gov : (g < i /\ i < h) =>
          ~(gov[i].claim = gov[g].claim /\ gov[i].version = gov[g].version))
    => /\ gov[h].prev = gov[g].new
       /\ gov[h].new \in Successors(gov[g].new)

\* Versions of a claim are numbered without a gap up to the current one, and
\* every older version has been superseded: recall can never find two
\* versions of a claim in force.
OnlyCurrentVersionLives ==
  \A c \in DOMAIN current :
    /\ current[c].state # "superseded"
    /\ \A n \in 1..current[c].version : <<c, n>> \in DOMAIN versions
    /\ \A k \in DOMAIN versions : k[1] = c => k[2] <= current[c].version
    /\ \A n \in 1..(current[c].version - 1) :
         \E g \in DOMAIN gov :
           /\ gov[g].claim = c /\ gov[g].version = n
           /\ gov[g].new = "superseded"

\* Two transitions that were prepared against the same version of a claim
\* never both succeed, whoever sends them and whatever their keys: the
\* compare-and-set of replace, retire and expire has one winner.
TransitionWinsOnce ==
  \A r, q \in (ReplaceRequests \cup LifecycleRequests) \cap DOMAIN answered :
    r.claim = q.claim /\ r.expected = q.expected => r = q

\* A retired or expired claim stays as it is: no later call, promotion or
\* replay brings it back or moves it.
FinalStatesAreFinal ==
  [][\A c \in DOMAIN current :
       current[c].state \in FinalStates =>
         c \in DOMAIN current' /\ current'[c] = current[c]]_authorityVars

\* The sensitivity an event or record was ingested with.
SourceSensitivity(source) ==
  IF source \in UserEvents THEN EventInfo[source].sensitivity
  ELSE IF source \in LegacyRecords THEN LegacyInfo[source].sensitivity
  ELSE IF source[1] = "memory-assertion"
       THEN ingest[source].request.sourceSensitivity
       ELSE ingest[source].request.sensitivity

\* No version is less sensitive than a source it rests on, however it was
\* written: sensitivity is inherited and never washed out.
SensitivityCoversSources ==
  \A k \in DOMAIN versions : \A i \in DOMAIN versions[k].sources :
    Rank(SourceSensitivity(versions[k].sources[i])) <= Rank(versions[k].sensitivity)

\* Every claim has a job of each projection for its current version, committed
\* to that version's content and to one of its sources: a committed change is
\* never without the work that will publish it.
OutboxCoversCurrent ==
  \A c \in DOMAIN current : \A key \in JobsOf(c, current[c].version) :
    LET row == versions[<<c, current[c].version>>]
    IN  /\ key \in DOMAIN outbox
        /\ outbox[key].hash = row.content
        /\ \E i \in DOMAIN row.sources : outbox[key].authority = row.sources[i]

\* Retrying a retire or expire that committed returns the receipt it returned
\* the first time, whatever happened to the claim since.
LifecycleReplayStable ==
  \A r \in LifecycleRequests \cap DOMAIN answered :
    LifecycleReply(r) = answered[r]

\* Retrying a write that committed is answered with the claim it created, never
\* with a refusal or another claim; an explicit one with the version it wrote.
WriteReplayFindsClaim ==
  \A r \in WriteRequests \cap DOMAIN answered :
    /\ WriteReply(r).ok
    /\ WriteReply(r).claim = answered[r].claim
    /\ ~Derived(r) => WriteReply(r).version = answered[r].version

\* A legacy record backs at most one version of one claim.
LegacyOnce ==
  \A r \in LegacyRecords : \A j, k \in DOMAIN versions :
    versions[j].sources = <<r>> /\ versions[k].sources = <<r>> => j = k

\* What no statement checks but every service relies on, and with the above
\* is inductive: a version always has a current row and a source, an event
\* always names a version, and the version a committed transition was prepared
\* against is never in force again.
EveryVersionSourced ==
  \A k \in DOMAIN versions :
    k[1] \in DOMAIN current /\ versions[k].sources # <<>>

EveryEventVersioned ==
  \A g \in DOMAIN gov : <<gov[g].claim, gov[g].version>> \in DOMAIN versions

AnsweredAreSpent ==
  \A r \in (ReplaceRequests \cup LifecycleRequests) \cap DOMAIN answered :
    /\ r.claim \in DOMAIN current
    /\ r.expected <= current[r.claim].version
    /\ ~ActiveAt(r.claim, r.expected)

AuthorityInv ==
  /\ TypeOK
  /\ CurrentIsLogTip
  /\ OnlyCurrentVersionLives
  /\ EveryVersionSourced
  /\ EveryEventVersioned
  /\ AnsweredAreSpent

\* A job is committed to the content and to a source of its version, whether
\* that version is still current or not.
JobsAreCommitted ==
  \A key \in DOMAIN outbox :
    LET row == versions[<<key[2], key[3]>>]
    IN  /\ <<key[2], key[3]>> \in DOMAIN versions
        /\ outbox[key].hash = row.content
        /\ \E i \in DOMAIN row.sources : outbox[key].authority = row.sources[i]

\* An ingest row stands under the id of the request it keeps ...
IngestNamesRequests ==
  \A id \in DOMAIN ingest :
    LET r == ingest[id].request
    IN  \/ r \in WriteRequests /\ ~Derived(r) /\ id = WriteId(r)
        \/ r \in ReplaceRequests /\ id = ReplaceId(r)

\* ... and the event that a service inserted for it backs no version before.
AssertionsAreIngested ==
  \A k \in DOMAIN versions : \A i \in DOMAIN versions[k].sources :
    versions[k].sources[i] \in AssertedEvents =>
      versions[k].sources[i] \in DOMAIN ingest

\* A version that rests on a legacy record rests on nothing else.
LegacyStandsAlone ==
  \A k \in DOMAIN versions : \A i \in DOMAIN versions[k].sources :
    versions[k].sources[i] \in LegacyRecords =>
      versions[k].sources = <<versions[k].sources[i]>>

\* What an answered write left: its claim, and for an explicit one the event
\* that backs the first version of that claim and no other.
WritesOnRecord ==
  \A r \in WriteRequests \cap DOMAIN answered :
    /\ answered[r].claim = r.claim /\ answered[r].version = 1
    /\ Keyed(r.claim)
    /\ SourcesMatch(r.refs, r.content, {"memory", "replace"})
    /\ ~Derived(r) =>
         /\ WriteId(r) \in DOMAIN ingest
         /\ ingest[WriteId(r)].request = r
         /\ EventsBackedBy(WriteId(r)) # {}
         /\ \A k \in DOMAIN versions : \A i \in DOMAIN versions[k].sources :
              versions[k].sources[i] = WriteId(r) => k = <<r.claim, 1>>

\* What an answered retire or expire left: the receipt row and its event.
ReceiptsOnRecord ==
  \A r \in LifecycleRequests \cap DOMAIN answered :
    LET row == receipts[r.idem]
    IN  /\ r.idem \in DOMAIN receipts /\ row.request = r
        /\ row.gid \in DOMAIN gov
        /\ answered[r] =
             Receipt(TRUE, gov[row.gid].new, r.claim, row.version, row.gid)

\* A call that is repeated, at any later time and under any key, finds what it
\* did and does it no second time.
RepetitionsSafe == LifecycleReplayStable /\ WriteReplayFindsClaim /\ LegacyOnce

\* The whole of what the services keep: the invariant above, and what it takes
\* for the log, the sources, the jobs and the answers to agree.
HistoryInv ==
  /\ AuthorityInv
  /\ LogChains
  /\ JobsAreCommitted /\ OutboxCoversCurrent
  /\ IngestNamesRequests /\ AssertionsAreIngested
  /\ LegacyStandsAlone /\ LegacyOnce
  /\ SensitivityCoversSources
  /\ WritesOnRecord /\ ReceiptsOnRecord

\* docs/memory-authority-contract.md: lifecycle is "versioned
\* replace/retire/expire transitions with CAS receipts", so a retire or expire
\* of an active current version is never turned away with an exception.
LifecycleAnswered ==
  \A r \in LifecycleRequests :
    LifecycleReply(r).status # "projection commitment conflict"
=============================================================================

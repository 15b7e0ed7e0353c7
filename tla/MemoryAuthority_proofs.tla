------------------------ MODULE MemoryAuthority_proofs ------------------------
(***************************************************************************)
(* Proofs about the authority, for any claims, requests and sources.       *)
(***************************************************************************)
EXTENDS MemoryAuthority, FiniteSetTheorems, WellFoundedInduction, TLAPS

\* Put, the INSERT or UPDATE of one row, keeps a table well formed.
LEMMA PutType ==
  ASSUME NEW Keys, NEW Rows, NEW table,
         DOMAIN table \subseteq Keys, table \in [DOMAIN table -> Rows],
         NEW key \in Keys, NEW row \in Rows
  PROVE  /\ DOMAIN Put(table, key, row) \subseteq Keys
         /\ Put(table, key, row) \in [DOMAIN Put(table, key, row) -> Rows]
  BY DEF Put

\* Enqueue adds well-formed rows for one claim version and keeps the others.
LEMMA EnqueueType ==
  ASSUME DOMAIN outbox \subseteq JobKeys, outbox \in [DOMAIN outbox -> JobRow],
         outboxSeq \in Nat,
         NEW claim \in Claims, NEW version \in Nat \ {0},
         NEW authority \in Sources, NEW hash \in Contents
  PROVE  LET new == Enqueue(outbox, outboxSeq, claim, version, authority, hash)
         IN  /\ DOMAIN new = DOMAIN outbox \cup JobsOf(claim, version)
             /\ DOMAIN new \subseteq JobKeys
             /\ new \in [DOMAIN new -> JobRow]
             /\ NextSeq(outbox, outboxSeq, claim, version) \in Nat
<1> DEFINE new == Enqueue(outbox, outboxSeq, claim, version, authority, hash)
<1>1. JobsOf(claim, version) \subseteq JobKeys
  BY DEF JobsOf, JobKeys
<1>2. DOMAIN new = DOMAIN outbox \cup JobsOf(claim, version)
  BY DEF Enqueue
<1>3. \A id \in Nat \ {0} : NewJob(id, authority, hash) \in JobRow
  BY DEF NewJob, JobRow, Statuses, Null
<1>4. \A key \in DOMAIN new : new[key] \in JobRow
  <2> SUFFICES ASSUME NEW key \in DOMAIN new PROVE new[key] \in JobRow
    OBVIOUS
  <2>1. outboxSeq + Slot(key[1]) \in Nat \ {0}
    BY DEF Slot
  <2> QED BY <1>2, <1>3, <2>1 DEF Enqueue
<1>5. NextSeq(outbox, outboxSeq, claim, version) \in Nat
  BY DEF NextSeq
<1> QED BY <1>1, <1>2, <1>4, <1>5 DEF Enqueue

\* Recording the receipt of a request keeps the history well formed.
LEMMA AnsweredType ==
  ASSUME TypeOK, NEW answer \in Answer,
         NEW r \in WriteRequests \cup ReplaceRequests \cup LifecycleRequests,
         answered' = Put(answered, r, answer)
  PROVE  /\ DOMAIN answered' \subseteq
              WriteRequests \cup ReplaceRequests \cup LifecycleRequests
         /\ answered' \in [DOMAIN answered' -> Answer]
<1> DEFINE requests == WriteRequests \cup ReplaceRequests \cup LifecycleRequests
<1>1. /\ DOMAIN answered \subseteq requests
      /\ answered \in [DOMAIN answered -> Answer]
  BY DEF TypeOK
<1>2. r \in requests
  OBVIOUS
<1> HIDE DEF requests
<1>3. /\ DOMAIN Put(answered, r, answer) \subseteq requests
      /\ Put(answered, r, answer) \in [DOMAIN Put(answered, r, answer) -> Answer]
  BY <1>1, <1>2, PutType, Zenon
<1> QED BY <1>3, Zenon DEF requests

\* Inserting the version of a claim keeps the versions well formed.
LEMMA VersionedType ==
  ASSUME TypeOK, NEW key \in Claims \X (Nat \ {0}), NEW row \in VersionRow,
         versions' = Put(versions, key, row)
  PROVE  /\ DOMAIN versions' \subseteq Claims \X (Nat \ {0})
         /\ versions' \in [DOMAIN versions' -> VersionRow]
<1> DEFINE keys == Claims \X (Nat \ {0})
<1>1. /\ DOMAIN versions \subseteq keys
      /\ versions \in [DOMAIN versions -> VersionRow]
  BY DEF TypeOK
<1>2. key \in keys
  OBVIOUS
<1> HIDE DEF keys
<1>3. /\ DOMAIN Put(versions, key, row) \subseteq keys
      /\ Put(versions, key, row) \in [DOMAIN Put(versions, key, row) -> VersionRow]
  BY <1>1, <1>2, PutType, Zenon
<1> QED BY <1>3, Zenon DEF keys

-----------------------------------------------------------------------------
(* Types. *)

\* What admission lets through: an admitted write names a claim, has a source and
\* well-formed rows.
LEMMA WriteTypes ==
  ASSUME NEW r \in WriteRequests
  PROVE  /\ r.claim \in Claims /\ r.content \in Contents
         /\ r.sensitivity \in Sensitivities /\ r.idem \in IdemKeys
         /\ Lineage(r) \in {"event_derived", "explicit_user_assertion"}
         /\ WriteSources(r) \in Seq(Sources)
         /\ LastSource(WriteSources(r)) \in Sources
         /\ ~Derived(r) => WriteId(r) \in AssertedEvents
<1>1. r \in WriteRequest
  BY RequestAssumption
<1>2. r.refs \in Seq(UserEvents)
  BY <1>1 DEF WriteRequest
<1>3. ~Derived(r) => WriteId(r) \in AssertedEvents
  BY <1>1 DEF WriteRequest, WriteId, AssertedEvents
<1>4. WriteSources(r) \in Seq(Sources) /\ Len(WriteSources(r)) > 0
  <2>1. CASE Derived(r)
    <3>1. r.refs \in Seq(Sources) /\ Len(r.refs) > 0
      BY <1>2, <2>1 DEF Derived, Sources
    <3> QED BY <2>1, <3>1 DEF WriteSources
  <2>2. CASE ~Derived(r)
    <3>1. WriteId(r) \in Sources
      BY <1>3, <2>2 DEF Sources
    <3> QED BY <2>2, <3>1 DEF WriteSources
  <2> QED BY <2>1, <2>2
<1>5. LastSource(WriteSources(r)) \in Sources
  BY <1>4 DEF LastSource
<1> QED BY <1>1, <1>3, <1>4, <1>5 DEF WriteRequest, Lineage

\* The same of a replace: its one source and its version row are well formed.
LEMMA ReplaceTypes ==
  ASSUME NEW r \in ReplaceRequests, ReplaceAdmitted(r)
  PROVE  /\ r.claim \in Claims /\ r.content \in Contents
         /\ r.sensitivity \in Sensitivities /\ r.idem \in IdemKeys
         /\ r.expected \in Nat \ {0}
         /\ Lineage(r) \in {"event_derived", "explicit_user_assertion"}
         /\ ReplaceSource(r) \in UserEvents \cup AssertedEvents
         /\ ReplaceSource(r) \in Sources
         /\ ReplaceId(r) \in AssertedEvents
<1>1. r \in ReplaceRequest
  BY RequestAssumption
<1>2. r.refs \in Seq(UserEvents)
  BY <1>1 DEF ReplaceRequest
<1>3. ReplaceId(r) \in AssertedEvents
  BY <1>1 DEF ReplaceRequest, ReplaceId, AssertedEvents
<1>4. ReplaceSource(r) \in UserEvents \cup AssertedEvents
  BY <1>2, <1>3 DEF ReplaceAdmitted, ReplaceSource, Derived
<1> QED BY <1>1, <1>3, <1>4 DEF ReplaceRequest, Lineage, Sources

\* MemoryWriteService.write keeps every column's constraint.
LEMMA WriteType ==
  ASSUME TypeOK, NEW r \in WriteRequests, Write(r)
  PROVE  TypeOK'
<1>0. /\ r.claim \in Claims /\ r.content \in Contents
      /\ r.sensitivity \in Sensitivities
      /\ Lineage(r) \in {"event_derived", "explicit_user_assertion"}
      /\ WriteSources(r) \in Seq(Sources)
      /\ LastSource(WriteSources(r)) \in Sources
      /\ ~Derived(r) => WriteId(r) \in AssertedEvents
  BY WriteTypes
<1> DEFINE row == Version(r.content, r.sensitivity, Lineage(r), WriteSources(r))
<1>1. /\ DOMAIN versions' \subseteq Claims \X (Nat \ {0})
      /\ versions' \in [DOMAIN versions' -> VersionRow]
  <2>1. row \in VersionRow
    BY <1>0 DEF Version, VersionRow
  <2>2. versions' = Put(versions, <<r.claim, 1>>, row)
    BY DEF Write
  <2>3. <<r.claim, 1>> \in Claims \X (Nat \ {0})
    BY <1>0
  <2> HIDE DEF row
  <2> QED BY <2>1, <2>2, <2>3, VersionedType, Zenon
<1>2. gov' \in Seq(GovRow)
  <2>1. GovEvent(r.claim, 1, "activate", "pending_review", "active") \in GovRow
    BY <1>0 DEF GovEvent, GovRow, ActionTarget, LifecycleStates
  <2> QED BY <2>1 DEF Write, TypeOK
<1>3. /\ DOMAIN current' \subseteq Claims
      /\ current' \in [DOMAIN current' -> CurrentRow]
  <2> DEFINE cur == [version |-> 1, gid |-> Len(gov) + 1, state |-> "active"]
  <2>1. cur \in CurrentRow
    BY <1>0 DEF TypeOK, CurrentRow, LifecycleStates
  <2>2. current' = Put(current, r.claim, cur)
    BY DEF Write
  <2> HIDE DEF cur
  <2> QED BY <1>0, <2>1, <2>2, PutType DEF TypeOK
<1>4. /\ DOMAIN ingest' \subseteq AssertedEvents
      /\ ingest' \in [DOMAIN ingest' -> IngestRow]
  <2>1. CASE Derived(r)
    BY <2>1 DEF Write, TypeOK
  <2>2. CASE ~Derived(r)
    <3> DEFINE in == [request |-> r, event |-> WriteId(r)]
    <3>1. in \in IngestRow
      BY <1>0, <2>2 DEF IngestRow
    <3>2. ingest' = Put(ingest, WriteId(r), in)
      BY <2>2 DEF Write
    <3> HIDE DEF in
    <3> QED BY <1>0, <2>2, <3>1, <3>2, PutType DEF TypeOK
  <2> QED BY <2>1, <2>2
<1>5. eventGov' \in [UserEvents -> {"none", "active", "superseded"}]
  BY DEF Write, ActivateSources, TypeOK
<1>6. /\ DOMAIN outbox' \subseteq JobKeys
      /\ outbox' \in [DOMAIN outbox' -> JobRow]
      /\ outboxSeq' \in Nat
  <2> DEFINE new == Enqueue(outbox, outboxSeq, r.claim, 1,
                            LastSource(WriteSources(r)), r.content)
  <2>0. 1 \in Nat \ {0}
    OBVIOUS
  <2>1. /\ DOMAIN new \subseteq JobKeys
        /\ new \in [DOMAIN new -> JobRow]
        /\ NextSeq(outbox, outboxSeq, r.claim, 1) \in Nat
    BY <1>0, <2>0, EnqueueType, Zenon DEF TypeOK
  <2>2. /\ outbox' = new
        /\ outboxSeq' = NextSeq(outbox, outboxSeq, r.claim, 1)
    BY DEF Write
  <2> QED BY <2>1, <2>2
<1>7. /\ DOMAIN answered' \subseteq
           WriteRequests \cup ReplaceRequests \cup LifecycleRequests
      /\ answered' \in [DOMAIN answered' -> Answer]
  <2> DEFINE answer == Receipt(TRUE, "active", r.claim, 1, Len(gov) + 1)
  <2>1. answer \in Answer
    BY <1>0 DEF Receipt, Answer, TypeOK, LifecycleStates
  <2>2. answered' = Put(answered, r, answer)
    BY DEF Write
  <2>3. r \in WriteRequests \cup ReplaceRequests \cup LifecycleRequests
    OBVIOUS
  <2> HIDE DEF answer
  <2> QED BY <2>1, <2>2, <2>3, AnsweredType, Zenon
<1>8. UNCHANGED <<receipts, legacy>>
  BY DEF Write
<1> QED BY <1>1, <1>2, <1>3, <1>4, <1>5, <1>6, <1>7, <1>8 DEF TypeOK

\* MemoryTransitionService.replace keeps every column's constraint.
LEMMA ReplaceType ==
  ASSUME TypeOK, NEW r \in ReplaceRequests, Replace(r)
  PROVE  TypeOK'
<1>0. /\ r.claim \in Claims /\ r.content \in Contents
      /\ r.sensitivity \in Sensitivities /\ r.expected \in Nat \ {0}
      /\ Lineage(r) \in {"event_derived", "explicit_user_assertion"}
      /\ ReplaceSource(r) \in UserEvents \cup AssertedEvents
      /\ ReplaceSource(r) \in Sources
      /\ ReplaceId(r) \in AssertedEvents
  BY ReplaceTypes DEF Replace
<1> DEFINE next == r.expected + 1
           row == Version(r.content, r.sensitivity, Lineage(r), <<ReplaceSource(r)>>)
<1>1. /\ DOMAIN versions' \subseteq Claims \X (Nat \ {0})
      /\ versions' \in [DOMAIN versions' -> VersionRow]
  <2>1. row \in VersionRow
    BY <1>0 DEF Version, VersionRow
  <2>2. versions' = Put(versions, <<r.claim, next>>, row)
    BY DEF Replace
  <2>3. <<r.claim, next>> \in Claims \X (Nat \ {0})
    BY <1>0
  <2> HIDE DEF next, row
  <2> QED BY <2>1, <2>2, <2>3, VersionedType, Zenon
<1>2. gov' \in Seq(GovRow)
  <2>1. \A v \in Nat \ {0}, a \in {"supersede", "submit", "activate"},
          q \in {"none", "pending_review", "active"},
          n \in {"superseded", "pending_review", "active"} :
          GovEvent(r.claim, v, a, q, n) \in GovRow
    BY <1>0 DEF GovEvent, GovRow, ActionTarget, LifecycleStates
  <2>2. ReplaceLog(r) \in Seq(GovRow)
    BY <1>0, <2>1 DEF ReplaceLog
  <2> QED BY <2>2 DEF Replace, TypeOK
<1>3. /\ DOMAIN current' \subseteq Claims
      /\ current' \in [DOMAIN current' -> CurrentRow]
  <2> DEFINE cur == [version |-> next, gid |-> Len(gov) + 3, state |-> "active"]
  <2>1. cur \in CurrentRow
    BY <1>0 DEF TypeOK, CurrentRow, LifecycleStates
  <2>2. current' = Put(current, r.claim, cur)
    BY DEF Replace
  <2> HIDE DEF cur
  <2> QED BY <1>0, <2>1, <2>2, PutType DEF TypeOK
<1>4. /\ DOMAIN ingest' \subseteq AssertedEvents
      /\ ingest' \in [DOMAIN ingest' -> IngestRow]
  <2> DEFINE in == [request |-> r, event |-> ReplaceSource(r)]
  <2>1. in \in IngestRow
    BY <1>0 DEF IngestRow
  <2>2. ingest' = Put(ingest, ReplaceId(r), in)
    BY DEF Replace
  <2> HIDE DEF in
  <2> QED BY <1>0, <2>1, <2>2, PutType DEF TypeOK
<1>5. eventGov' \in [UserEvents -> {"none", "active", "superseded"}]
  BY DEF Replace, ActivateSources, TypeOK
<1>6. /\ DOMAIN outbox' \subseteq JobKeys
      /\ outbox' \in [DOMAIN outbox' -> JobRow]
      /\ outboxSeq' \in Nat
  <2> DEFINE new == Enqueue(outbox, outboxSeq, r.claim, next,
                            ReplaceSource(r), r.content)
  <2>0. next \in Nat \ {0}
    BY <1>0
  <2>1. /\ DOMAIN new \subseteq JobKeys
        /\ new \in [DOMAIN new -> JobRow]
        /\ NextSeq(outbox, outboxSeq, r.claim, next) \in Nat
    <3> HIDE DEF next
    <3> QED BY <1>0, <2>0, EnqueueType DEF TypeOK
  <2>2. /\ outbox' = new
        /\ outboxSeq' = NextSeq(outbox, outboxSeq, r.claim, next)
    BY DEF Replace, ReplaceJobVersion
  <2> QED BY <2>1, <2>2
<1>7. /\ DOMAIN answered' \subseteq
           WriteRequests \cup ReplaceRequests \cup LifecycleRequests
      /\ answered' \in [DOMAIN answered' -> Answer]
  <2> DEFINE answer == Receipt(TRUE, "active", r.claim, next, Len(gov) + 3)
  <2>1. answer \in Answer
    BY <1>0 DEF Receipt, Answer, TypeOK, LifecycleStates
  <2>2. answered' = Put(answered, r, answer)
    BY DEF Replace
  <2>3. r \in WriteRequests \cup ReplaceRequests \cup LifecycleRequests
    OBVIOUS
  <2> HIDE DEF answer
  <2> QED BY <2>1, <2>2, <2>3, AnsweredType, Zenon
<1>8. UNCHANGED <<receipts, legacy>>
  BY DEF Replace
<1> QED BY <1>1, <1>2, <1>3, <1>4, <1>5, <1>6, <1>7, <1>8 DEF TypeOK

\* The request of a retire or expire whose compare-and-set succeeds.
LEMMA LifecycleTypes ==
  ASSUME TypeOK, NEW r \in LifecycleRequests, LifecycleCurrent(r)
  PROVE  /\ r.claim \in Claims /\ r.idem \in IdemKeys
         /\ r.expected \in Nat \ {0}
         /\ r.action \in {"retire", "expire"}
         /\ ActionTarget[r.action] \in {"retired", "expired"}
         /\ r.claim \in DOMAIN current
         /\ current[r.claim].version = r.expected
         /\ current[r.claim].state = "active"
<1>1. r \in LifecycleRequest
  BY RequestAssumption
<1>2. /\ r.claim \in Claims /\ r.idem \in IdemKeys
      /\ r.expected \in Nat \ {0}
      /\ r.action \in {"retire", "expire"}
  BY <1>1 DEF LifecycleRequest
<1>3. ActionTarget[r.action] \in {"retired", "expired"}
  BY <1>2 DEF ActionTarget
<1>4. /\ r.claim \in DOMAIN current
      /\ current[r.claim].version = r.expected
      /\ ActionTarget[r.action] \in Successors(current[r.claim].state)
  BY DEF LifecycleCurrent, TransitionAllowed
<1>5. current[r.claim].state = "active"
  BY <1>3, <1>4 DEF Successors
<1> QED BY <1>2, <1>3, <1>4, <1>5

\* The row a lifecycle call reads of its version: it exists and has a source.
LEMMA LifecycleVersion ==
  ASSUME TypeOK, OnlyCurrentVersionLives, EveryVersionSourced,
         NEW r \in LifecycleRequests, LifecycleCurrent(r)
  PROVE  /\ <<r.claim, r.expected>> \in DOMAIN versions
         /\ FirstSource(r.claim, r.expected) \in Sources
         /\ versions[<<r.claim, r.expected>>].content \in Contents
<1>1. /\ r.claim \in DOMAIN current /\ current[r.claim].version = r.expected
      /\ r.expected \in Nat \ {0}
  BY LifecycleTypes
<1>2. <<r.claim, r.expected>> \in DOMAIN versions
  BY <1>1 DEF OnlyCurrentVersionLives
<1>3. versions[<<r.claim, r.expected>>] \in VersionRow
  BY <1>2 DEF TypeOK
<1>4. /\ versions[<<r.claim, r.expected>>].sources \in Seq(Sources)
      /\ versions[<<r.claim, r.expected>>].content \in Contents
  BY <1>3 DEF VersionRow
<1>5. versions[<<r.claim, r.expected>>].sources # <<>>
  BY <1>2 DEF EveryVersionSourced
<1>6. FirstSource(r.claim, r.expected) \in Sources
  BY <1>4, <1>5 DEF FirstSource
<1> QED BY <1>2, <1>4, <1>6

\* Reopen keeps every row well formed.
LEMMA ReopenType ==
  ASSUME NEW table, DOMAIN table \subseteq JobKeys,
         table \in [DOMAIN table -> JobRow], NEW claim, NEW version
  PROVE  LET new == Reopen(table, claim, version)
         IN  /\ DOMAIN new = DOMAIN table
             /\ new \in [DOMAIN new -> JobRow]
<1>1. \A job \in JobRow :
        [job EXCEPT !.status = "pending", !.owner = Null,
                    !.lease = "none", !.waiting = FALSE] \in JobRow
  BY DEF JobRow, Statuses, Null
<1> QED BY <1>1 DEF Reopen

\* retire and expire keep every column's constraint.
LEMMA LifecycleType ==
  ASSUME AuthorityInv, NEW r \in LifecycleRequests, Lifecycle(r)
  PROVE  TypeOK'
<1>0. TypeOK /\ LifecycleCurrent(r)
  BY DEF AuthorityInv, Lifecycle
<1>1. /\ r.claim \in Claims /\ r.idem \in IdemKeys
      /\ r.expected \in Nat \ {0} /\ r.action \in {"retire", "expire"}
      /\ ActionTarget[r.action] \in {"retired", "expired"}
      /\ current[r.claim].version = r.expected
  BY <1>0, LifecycleTypes
<1>2. /\ FirstSource(r.claim, r.expected) \in Sources
      /\ versions[<<r.claim, r.expected>>].content \in Contents
  BY <1>0, LifecycleVersion DEF AuthorityInv
<1> DEFINE gid == Len(gov) + 1
           state == ActionTarget[r.action]
<1>3. gid \in Nat \ {0} /\ state \in LifecycleStates
  BY <1>0, <1>1 DEF TypeOK, LifecycleStates
<1>4. gov' \in Seq(GovRow)
  <2>1. GovEvent(r.claim, r.expected, r.action, "active", state) \in GovRow
    BY <1>1, <1>3 DEF GovEvent, GovRow, ActionTarget, LifecycleStates
  <2>2. gov' = Append(gov, GovEvent(r.claim, r.expected, r.action, "active", state))
    BY <1>1 DEF Lifecycle
  <2> QED BY <1>0, <2>1, <2>2 DEF TypeOK
<1>5. /\ DOMAIN current' \subseteq Claims
      /\ current' \in [DOMAIN current' -> CurrentRow]
  <2> DEFINE cur == [version |-> r.expected, gid |-> gid, state |-> state]
  <2>1. cur \in CurrentRow
    BY <1>1, <1>3 DEF CurrentRow
  <2>2. current' = Put(current, r.claim, cur)
    BY <1>1 DEF Lifecycle
  <2> HIDE DEF cur
  <2> QED BY <1>0, <1>1, <2>1, <2>2, PutType DEF TypeOK
<1>6. /\ DOMAIN receipts' \subseteq IdemKeys
      /\ receipts' \in [DOMAIN receipts' -> ReceiptRow]
  <2> DEFINE rec == [request |-> r, version |-> r.expected, gid |-> gid]
  <2>1. rec \in ReceiptRow
    BY <1>1, <1>3 DEF ReceiptRow
  <2>2. receipts' = Put(receipts, r.idem, rec)
    BY DEF Lifecycle
  <2> HIDE DEF rec
  <2> QED BY <1>0, <1>1, <2>1, <2>2, PutType DEF TypeOK
<1>7. /\ DOMAIN outbox' \subseteq JobKeys
      /\ outbox' \in [DOMAIN outbox' -> JobRow]
      /\ outboxSeq' \in Nat
  <2> DEFINE new == Enqueue(outbox, outboxSeq, r.claim, r.expected,
                            FirstSource(r.claim, r.expected),
                            versions[<<r.claim, r.expected>>].content)
  <2>1. /\ DOMAIN new \subseteq JobKeys
        /\ new \in [DOMAIN new -> JobRow]
        /\ NextSeq(outbox, outboxSeq, r.claim, r.expected) \in Nat
    BY <1>0, <1>1, <1>2, EnqueueType DEF TypeOK
  <2>2. /\ outbox' = Reopen(new, r.claim, r.expected)
        /\ outboxSeq' = NextSeq(outbox, outboxSeq, r.claim, r.expected)
    BY DEF Lifecycle
  <2> HIDE DEF new
  <2> QED BY <2>1, <2>2, ReopenType
<1>8. /\ DOMAIN answered' \subseteq
           WriteRequests \cup ReplaceRequests \cup LifecycleRequests
      /\ answered' \in [DOMAIN answered' -> Answer]
  <2> DEFINE answer == Receipt(TRUE, state, r.claim, r.expected, gid)
  <2>1. answer \in Answer
    BY <1>1, <1>3 DEF Receipt, Answer
  <2>2. answered' = Put(answered, r, answer)
    BY DEF Lifecycle
  <2>3. r \in WriteRequests \cup ReplaceRequests \cup LifecycleRequests
    OBVIOUS
  <2> HIDE DEF answer
  <2> QED BY <1>0, <2>1, <2>2, <2>3, AnsweredType, Zenon
<1>9. UNCHANGED <<versions, ingest, eventGov, legacy>>
  BY DEF Lifecycle
<1> QED BY <1>0, <1>4, <1>5, <1>6, <1>7, <1>8, <1>9 DEF TypeOK

\* What a batch comes down to: some number of free and unguarded claims, no two
\* alike, each from a record of its own that was never promoted.
LEMMA PromoteFresh ==
  ASSUME NEW batch \in PromotionBatches, Promote(batch)
  PROVE  \E n \in Nat : \E record \in [1..n -> LegacyRecords],
                           claim \in [1..n -> Claims] :
           /\ \A i, j \in 1..n : claim[i] = claim[j] => i = j
           /\ \A i, j \in 1..n : record[i] = record[j] => i = j
           /\ \A i \in 1..n : /\ ~Keyed(claim[i]) /\ Unguarded(claim[i])
                              /\ Promoted(record[i]) = {}
           /\ InsertPromoted(n, record, claim)
<1> DEFINE fresh == {i \in DOMAIN batch : Promoted(batch[i].record) = {}}
           n == Cardinality(fresh)
<1>1. /\ batch \in Seq(PromotionSpec)
      /\ \A i, j \in DOMAIN batch :
           batch[i].record = batch[j].record \/ batch[i].claim = batch[j].claim
             => i = j
  BY RequestAssumption
<1>2. \A i \in DOMAIN batch : batch[i].record \in LegacyRecords /\ batch[i].claim \in Claims
  <2>1. \A i \in DOMAIN batch : batch[i] \in PromotionSpec
    BY <1>1
  <2> QED BY <2>1 DEF PromotionSpec
<1>3. n \in Nat
  <2>1. DOMAIN batch = 1..Len(batch) /\ Len(batch) \in Nat
    BY <1>1
  <2>2. IsFiniteSet(1..Len(batch))
    BY <2>1, FS_Interval
  <2>3. IsFiniteSet(fresh)
    BY <2>1, <2>2, FS_Subset
  <2> QED BY <2>3, FS_CardinalityType
<1>4. PICK pick \in [1..n -> fresh] :
        /\ \A i, j \in 1..n : i < j => pick[i] < pick[j]
        /\ InsertPromoted(n, [i \in 1..n |-> batch[pick[i]].record],
                             [i \in 1..n |-> batch[pick[i]].claim])
  BY DEF Promote
<1>5. \A i \in fresh : /\ ~Keyed(batch[i].claim) /\ Unguarded(batch[i].claim)
                       /\ Promoted(batch[i].record) = {}
  BY DEF Promote, PromotionAdmitted
<1> DEFINE record == [i \in 1..n |-> batch[pick[i]].record]
           claim == [i \in 1..n |-> batch[pick[i]].claim]
<1>6. \A i \in 1..n : pick[i] \in fresh /\ pick[i] \in DOMAIN batch
  BY <1>4
<1>7. record \in [1..n -> LegacyRecords] /\ claim \in [1..n -> Claims]
  BY <1>2, <1>6
<1>8. \A i \in 1..n : /\ ~Keyed(claim[i]) /\ Unguarded(claim[i])
                      /\ Promoted(record[i]) = {}
  BY <1>5, <1>6
<1>9. \A i, j \in 1..n : claim[i] = claim[j] \/ record[i] = record[j] => i = j
  <2> SUFFICES ASSUME NEW i \in 1..n, NEW j \in 1..n,
                      claim[i] = claim[j] \/ record[i] = record[j]
               PROVE  i = j
    OBVIOUS
  <2>1. pick[i] = pick[j]
    BY <1>1, <1>6
  <2>2. DOMAIN batch \subseteq Int
    BY <1>1
  <2>3. pick[i] \in Int /\ pick[j] \in Int
    BY <1>6, <2>2
  <2>4. (i < j => pick[i] < pick[j]) /\ (j < i => pick[j] < pick[i])
    BY <1>4
  <2> HIDE DEF n, record, claim
  <2> QED BY <1>3, <2>1, <2>3, <2>4
<1> HIDE DEF n, record, claim
<1> QED BY <1>3, <1>4, <1>7, <1>8, <1>9 DEF record, claim

\* A promotion batch keeps every column's constraint.
LEMMA PromoteType ==
  ASSUME TypeOK, NEW batch \in PromotionBatches, Promote(batch)
  PROVE  TypeOK'
<1>1. PICK n \in Nat : \E record \in [1..n -> LegacyRecords],
                          claim \in [1..n -> Claims] :
           InsertPromoted(n, record, claim)
  BY PromoteFresh
<1>2. PICK record \in [1..n -> LegacyRecords], claim \in [1..n -> Claims] :
           InsertPromoted(n, record, claim)
  BY <1>1
<1> DEFINE new == {claim[i] : i \in 1..n}
           nth(c) == CHOOSE i \in 1..n : claim[i] = c
           row(r) == Version(LegacyInfo[r].content, LegacyInfo[r].sensitivity,
                             "legacy_governed", <<r>>)
           job(key, i) == NewJob(outboxSeq + 2 * (i - 1) + Slot(key[1]), record[i],
                                 LegacyInfo[record[i]].content)
<1>3. new \subseteq Claims /\ \A c \in new : nth(c) \in 1..n
  BY <1>2
<1>4. \A r \in LegacyRecords : /\ LegacyInfo[r].content \in Contents
                               /\ LegacyInfo[r].sensitivity \in Sensitivities
  BY LegacyInfoAssumption
<1>5. /\ DOMAIN versions' \subseteq Claims \X (Nat \ {0})
      /\ versions' \in [DOMAIN versions' -> VersionRow]
  <2>1. \A r \in LegacyRecords : row(r) \in VersionRow
    <3> SUFFICES ASSUME NEW r \in LegacyRecords PROVE row(r) \in VersionRow
      OBVIOUS
    <3>1. <<r>> \in Seq(Sources)
      BY DEF Sources
    <3> QED BY <1>4, <3>1 DEF Version, VersionRow
  <2>2. versions' = [k \in DOMAIN versions \cup {<<c, 1>> : c \in new} |->
                       IF k \in DOMAIN versions THEN versions[k]
                       ELSE row(record[nth(k[1])])]
    BY <1>2 DEF InsertPromoted
  <2>3. \A c \in new : row(record[nth(c)]) \in VersionRow
    BY <1>2, <1>3, <2>1
  <2> HIDE DEF row, nth, new
  <2> QED BY <1>3, <2>2, <2>3 DEF TypeOK
<1>6. gov' \in Seq(GovRow)
  <2> DEFINE log == [i \in 1..n |-> GovEvent(claim[i], 1, "activate",
                                             "pending_review", "active")]
  <2>1. \A i \in 1..n : log[i] \in GovRow
    BY <1>2 DEF GovEvent, GovRow, ActionTarget, LifecycleStates
  <2>2. log \in Seq(GovRow)
    BY <2>1
  <2>3. gov' = gov \o log
    BY <1>2 DEF InsertPromoted
  <2> HIDE DEF log
  <2> QED BY <2>2, <2>3 DEF TypeOK
<1>7. /\ DOMAIN current' \subseteq Claims
      /\ current' \in [DOMAIN current' -> CurrentRow]
  <2>1. current' = [c \in DOMAIN current \cup new |->
              IF c \in new
              THEN [version |-> 1, gid |-> Len(gov) + nth(c), state |-> "active"]
              ELSE current[c]]
    BY <1>2 DEF InsertPromoted
  <2>2. Len(gov) \in Nat
    BY DEF TypeOK
  <2>3. \A i \in 1..n :
          [version |-> 1, gid |-> Len(gov) + i, state |-> "active"] \in CurrentRow
    BY <2>2 DEF CurrentRow, LifecycleStates
  <2> HIDE DEF nth, new
  <2> QED BY <1>3, <2>1, <2>3 DEF TypeOK
<1>8. /\ DOMAIN outbox' \subseteq JobKeys
      /\ outbox' \in [DOMAIN outbox' -> JobRow]
      /\ outboxSeq' \in Nat
  <2> DEFINE keys == UNION {JobsOf(c, 1) : c \in new}
  <2>1. outbox' = [key \in DOMAIN outbox \cup keys |->
                     IF key \in DOMAIN outbox THEN outbox[key]
                     ELSE job(key, nth(key[2]))]
    BY <1>2 DEF InsertPromoted
  <2>2. outboxSeq' \in Nat
    BY <1>2 DEF InsertPromoted, TypeOK
  <2>3. \A key \in keys : key \in JobKeys /\ key[2] \in new
    BY <1>3 DEF JobsOf, JobKeys
  <2>4. \A key \in keys, i \in 1..n : job(key, i) \in JobRow
    <3> SUFFICES ASSUME NEW key \in keys, NEW i \in 1..n
                 PROVE  job(key, i) \in JobRow
      OBVIOUS
    <3> DEFINE id == outboxSeq + 2 * (i - 1) + Slot(key[1])
    <3>1. id \in Nat \ {0}
      BY DEF Slot, TypeOK
    <3>2. record[i] \in Sources /\ LegacyInfo[record[i]].content \in Contents
      BY <1>2, <1>4 DEF Sources
    <3> HIDE DEF id
    <3> QED BY <3>1, <3>2 DEF NewJob, JobRow, Statuses, Null, id
  <2> HIDE DEF keys, job, nth, new
  <2> QED BY <1>3, <2>1, <2>2, <2>3, <2>4 DEF TypeOK
<1>9. UNCHANGED <<receipts, ingest, eventGov, legacy, answered>>
  BY DEF Promote
<1> QED BY <1>5, <1>6, <1>7, <1>8, <1>9 DEF TypeOK

\* The other two steps change one state column each.
LEMMA SourceType ==
  ASSUME TypeOK,
         \/ \E e \in UserEvents : SyncEvent(e)
         \/ \E record \in LegacyRecords : WithdrawLegacy(record)
  PROVE  TypeOK'
<1>1. CASE \E e \in UserEvents : SyncEvent(e)
  BY <1>1 DEF TypeOK, SyncEvent
<1>2. CASE \E record \in LegacyRecords : WithdrawLegacy(record)
  BY <1>2 DEF TypeOK, WithdrawLegacy
<1> QED BY <1>1, <1>2

-----------------------------------------------------------------------------
(* The inductive invariant. *)

\* A canonical key that is free has no row anywhere.
LEMMA FreeKey ==
  ASSUME AuthorityInv, NEW c, ~Keyed(c)
  PROVE  /\ c \notin DOMAIN current
         /\ \A k \in DOMAIN versions : k[1] # c
         /\ \A g \in DOMAIN gov : gov[g].claim # c
<1>1. \A k \in DOMAIN versions : k[1] # c
  BY DEF Keyed
<1>2. c \notin DOMAIN current
  <2> SUFFICES ASSUME c \in DOMAIN current PROVE FALSE
    OBVIOUS
  <2>1. current[c].version \in Nat \ {0}
    BY DEF AuthorityInv, TypeOK, CurrentRow
  <2>2. <<c, 1>> \in DOMAIN versions
    BY <2>1 DEF AuthorityInv, OnlyCurrentVersionLives
  <2> QED BY <1>1, <2>2
<1>3. \A g \in DOMAIN gov : gov[g].claim # c
  BY <1>1 DEF AuthorityInv, EveryEventVersioned
<1> QED BY <1>1, <1>2, <1>3

\* write preserves the invariant: it opens a claim nobody knew, at version 1.
LEMMA WriteInv ==
  ASSUME AuthorityInv, NEW r \in WriteRequests, Write(r)
  PROVE  AuthorityInv'
<1> DEFINE c0 == r.claim
           n0 == Len(gov) + 1
<1>1. TypeOK /\ TypeOK'
  BY WriteType DEF AuthorityInv
<1>2. /\ c0 \notin DOMAIN current
      /\ \A k \in DOMAIN versions : k[1] # c0
      /\ \A g \in DOMAIN gov : gov[g].claim # c0
  BY FreeKey DEF Write
<1>3. /\ DOMAIN versions' = DOMAIN versions \cup {<<c0, 1>>}
      /\ versions'[<<c0, 1>>].sources # <<>>
      /\ \A k \in DOMAIN versions : versions'[k] = versions[k]
  <2>1. WriteSources(r) # <<>>
    BY DEF WriteSources, Derived
  <2> QED BY <1>2, <2>1 DEF Write, Put, Version
<1>4. /\ DOMAIN current' = DOMAIN current \cup {c0}
      /\ current'[c0] = [version |-> 1, gid |-> n0, state |-> "active"]
      /\ \A c \in DOMAIN current : current'[c] = current[c]
  BY <1>2 DEF Write, Put
<1>5. /\ DOMAIN gov = 1..Len(gov) /\ DOMAIN gov' = 1..n0 /\ n0 \in Nat
      /\ gov'[n0] = GovEvent(c0, 1, "activate", "pending_review", "active")
      /\ \A g \in DOMAIN gov : gov'[g] = gov[g]
  BY <1>1 DEF Write, TypeOK
<1>6. gov'[n0].claim = c0 /\ gov'[n0].version = 1 /\ gov'[n0].new = "active"
  BY <1>5 DEF GovEvent
<1>7. CurrentIsLogTip'
  <2> SUFFICES ASSUME NEW c \in DOMAIN current'
               PROVE  /\ current'[c].gid \in DOMAIN gov'
                      /\ gov'[current'[c].gid].claim = c
                      /\ gov'[current'[c].gid].version = current'[c].version
                      /\ gov'[current'[c].gid].new = current'[c].state
                      /\ \A g \in DOMAIN gov' :
                           gov'[g].claim = c => g <= current'[c].gid
    BY DEF CurrentIsLogTip
  <2>1. CASE c = c0
    BY <1>4, <1>5, <1>6, <2>1
  <2>2. CASE c # c0
    BY <1>4, <1>5, <1>6, <2>2 DEF AuthorityInv, CurrentIsLogTip
  <2> QED BY <2>1, <2>2
<1>8. OnlyCurrentVersionLives'
  <2> SUFFICES ASSUME NEW c \in DOMAIN current'
               PROVE  /\ current'[c].state # "superseded"
                      /\ \A n \in 1..current'[c].version : <<c, n>> \in DOMAIN versions'
                      /\ \A k \in DOMAIN versions' :
                           k[1] = c => k[2] <= current'[c].version
                      /\ \A n \in 1..(current'[c].version - 1) :
                           \E g \in DOMAIN gov' :
                             /\ gov'[g].claim = c /\ gov'[g].version = n
                             /\ gov'[g].new = "superseded"
    BY DEF OnlyCurrentVersionLives
  <2>1. CASE c = c0
    BY <1>2, <1>3, <1>4, <2>1
  <2>2. CASE c # c0
    <3>1. /\ c \in DOMAIN current /\ current'[c] = current[c]
          /\ current[c].state # "superseded"
          /\ \A n \in 1..current[c].version : <<c, n>> \in DOMAIN versions
          /\ \A k \in DOMAIN versions : k[1] = c => k[2] <= current[c].version
          /\ \A n \in 1..(current[c].version - 1) :
               \E g \in DOMAIN gov :
                 /\ gov[g].claim = c /\ gov[g].version = n
                 /\ gov[g].new = "superseded"
      BY <1>4, <2>2 DEF AuthorityInv, OnlyCurrentVersionLives
    <3>2. \A k \in DOMAIN versions' : k[1] = c => k \in DOMAIN versions
      BY <1>3, <2>2
    <3>3. \A g \in DOMAIN gov : g \in DOMAIN gov' /\ gov'[g] = gov[g]
      BY <1>5
    <3> QED BY <1>3, <3>1, <3>2, <3>3
  <2> QED BY <2>1, <2>2
<1>9. EveryVersionSourced'
  BY <1>3, <1>4 DEF AuthorityInv, EveryVersionSourced
<1>10. EveryEventVersioned'
  BY <1>3, <1>5, <1>6 DEF AuthorityInv, EveryEventVersioned
<1>11. AnsweredAreSpent'
  <2>1. DOMAIN answered' = DOMAIN answered \cup {r}
    BY DEF Write, Put
  <2>2. r \notin ReplaceRequests \cup LifecycleRequests
    <3>1. "expected" \notin DOMAIN r
      BY RequestAssumption DEF WriteRequest
    <3>2. \A q \in ReplaceRequests : "expected" \in DOMAIN q
      BY RequestAssumption DEF ReplaceRequest
    <3>3. \A q \in LifecycleRequests : "expected" \in DOMAIN q
      BY RequestAssumption DEF LifecycleRequest
    <3> QED BY <3>1, <3>2, <3>3
  <2> SUFFICES ASSUME NEW q \in (ReplaceRequests \cup LifecycleRequests)
                                \cap DOMAIN answered'
               PROVE  /\ q.claim \in DOMAIN current'
                      /\ q.expected <= current'[q.claim].version
                      /\ ~ActiveAt(q.claim, q.expected)'
    BY DEF AnsweredAreSpent
  <2>3. /\ q.claim \in DOMAIN current
        /\ q.expected <= current[q.claim].version
        /\ ~ActiveAt(q.claim, q.expected)
    BY <2>1, <2>2 DEF AuthorityInv, AnsweredAreSpent
  <2> QED BY <1>4, <2>3 DEF ActiveAt
<1> QED BY <1>1, <1>7, <1>8, <1>9, <1>10, <1>11 DEF AuthorityInv

\* replace preserves the invariant: three events, the last of which is the new
\* tip, and one version more.
LEMMA ReplaceInv ==
  ASSUME AuthorityInv, NEW r \in ReplaceRequests, Replace(r)
  PROVE  AuthorityInv'
<1> DEFINE c0 == r.claim
           v0 == r.expected
           n0 == Len(gov)
<1>1. TypeOK /\ TypeOK'
  BY ReplaceType DEF AuthorityInv
<1>2. v0 \in Nat \ {0}
  BY ReplaceTypes DEF Replace
<1>3. /\ c0 \in DOMAIN current /\ current[c0].version = v0
      /\ current[c0].state = "active"
      /\ <<c0, v0 + 1>> \notin DOMAIN versions
  BY DEF Replace, ReplaceCurrent, ActiveAt
<1>4. /\ DOMAIN versions' = DOMAIN versions \cup {<<c0, v0 + 1>>}
      /\ versions'[<<c0, v0 + 1>>].sources # <<>>
      /\ \A k \in DOMAIN versions : versions'[k] = versions[k]
  BY <1>3 DEF Replace, Put, Version
<1>5. /\ DOMAIN current' = DOMAIN current
      /\ current'[c0] = [version |-> v0 + 1, gid |-> n0 + 3, state |-> "active"]
      /\ \A c \in DOMAIN current : c # c0 => current'[c] = current[c]
  BY <1>3 DEF Replace, Put
<1>6. /\ n0 \in Nat /\ DOMAIN gov = 1..n0 /\ DOMAIN gov' = 1..(n0 + 3)
      /\ \A g \in DOMAIN gov : gov'[g] = gov[g]
      /\ gov'[n0 + 1] = GovEvent(c0, v0, "supersede", "active", "superseded")
      /\ gov'[n0 + 2] = GovEvent(c0, v0 + 1, "submit", "none", "pending_review")
      /\ gov'[n0 + 3] = GovEvent(c0, v0 + 1, "activate", "pending_review", "active")
  <2>1. gov' = gov \o ReplaceLog(r)
    BY DEF Replace
  <2>2. ReplaceLog(r) =
          <<GovEvent(c0, v0, "supersede", "active", "superseded"),
            GovEvent(c0, v0 + 1, "submit", "none", "pending_review"),
            GovEvent(c0, v0 + 1, "activate", "pending_review", "active")>>
    BY DEF ReplaceLog
  <2>3. gov \in Seq(GovRow)
    BY <1>1 DEF TypeOK
  <2>4. Len(ReplaceLog(r)) = 3
    BY <2>2
  <2> QED BY <2>1, <2>2, <2>3, <2>4
<1>7. /\ gov'[n0 + 1].claim = c0 /\ gov'[n0 + 1].version = v0
      /\ gov'[n0 + 1].new = "superseded"
      /\ gov'[n0 + 2].claim = c0 /\ gov'[n0 + 2].version = v0 + 1
      /\ gov'[n0 + 3].claim = c0 /\ gov'[n0 + 3].version = v0 + 1
      /\ gov'[n0 + 3].new = "active"
  BY <1>6 DEF GovEvent
<1>8. \A g \in DOMAIN gov' :
        g \in DOMAIN gov \/ g = n0 + 1 \/ g = n0 + 2 \/ g = n0 + 3
  BY <1>6
<1>9. CurrentIsLogTip'
  <2> SUFFICES ASSUME NEW c \in DOMAIN current'
               PROVE  /\ current'[c].gid \in DOMAIN gov'
                      /\ gov'[current'[c].gid].claim = c
                      /\ gov'[current'[c].gid].version = current'[c].version
                      /\ gov'[current'[c].gid].new = current'[c].state
                      /\ \A g \in DOMAIN gov' :
                           gov'[g].claim = c => g <= current'[c].gid
    BY DEF CurrentIsLogTip
  <2>1. CASE c = c0
    BY <1>5, <1>6, <1>7, <2>1
  <2>2. CASE c # c0
    <3>1. /\ c \in DOMAIN current /\ current'[c] = current[c]
          /\ current[c].gid \in DOMAIN gov
          /\ gov[current[c].gid].claim = c
          /\ gov[current[c].gid].version = current[c].version
          /\ gov[current[c].gid].new = current[c].state
          /\ \A g \in DOMAIN gov : gov[g].claim = c => g <= current[c].gid
      BY <1>5, <2>2 DEF AuthorityInv, CurrentIsLogTip
    <3>2. \A g \in DOMAIN gov' : gov'[g].claim = c => g \in DOMAIN gov
      BY <1>7, <1>8, <2>2
    <3>3. \A g \in DOMAIN gov : g \in DOMAIN gov' /\ gov'[g] = gov[g]
      BY <1>6
    <3> QED BY <3>1, <3>2, <3>3
  <2> QED BY <2>1, <2>2
<1>10. OnlyCurrentVersionLives'
  <2> SUFFICES ASSUME NEW c \in DOMAIN current'
               PROVE  /\ current'[c].state # "superseded"
                      /\ \A n \in 1..current'[c].version : <<c, n>> \in DOMAIN versions'
                      /\ \A k \in DOMAIN versions' :
                           k[1] = c => k[2] <= current'[c].version
                      /\ \A n \in 1..(current'[c].version - 1) :
                           \E g \in DOMAIN gov' :
                             /\ gov'[g].claim = c /\ gov'[g].version = n
                             /\ gov'[g].new = "superseded"
    BY DEF OnlyCurrentVersionLives
  <2>1. /\ c \in DOMAIN current
        /\ current[c].version \in Nat \ {0}
        /\ current[c].state # "superseded"
        /\ \A n \in 1..current[c].version : <<c, n>> \in DOMAIN versions
        /\ \A k \in DOMAIN versions : k[1] = c => k[2] <= current[c].version
        /\ \A n \in 1..(current[c].version - 1) :
             \E g \in DOMAIN gov :
               /\ gov[g].claim = c /\ gov[g].version = n
               /\ gov[g].new = "superseded"
    BY <1>1, <1>5 DEF AuthorityInv, OnlyCurrentVersionLives, TypeOK, CurrentRow
  <2>2. \A g \in DOMAIN gov : g \in DOMAIN gov' /\ gov'[g] = gov[g]
    BY <1>6
  <2>3. \A k \in DOMAIN versions : k[2] \in Nat
    BY <1>1 DEF TypeOK
  <2>4. CASE c = c0
    <3>1. current'[c].version = v0 + 1 /\ current'[c].state = "active"
      BY <1>5, <2>4
    <3>2. \A n \in 1..(v0 + 1) : n \in 1..v0 \/ n = v0 + 1
      BY <1>2
    <3>3. \A n \in 1..(v0 + 1) : <<c, n>> \in DOMAIN versions'
      BY <1>3, <1>4, <2>1, <2>4, <3>2
    <3>4. \A k \in DOMAIN versions' : k[1] = c => k[2] <= v0 + 1
      BY <1>2, <1>3, <1>4, <2>1, <2>3, <2>4
    <3>5. \A n \in 1..v0 : n \in 1..(v0 - 1) \/ n = v0
      BY <1>2
    <3>6. n0 + 1 \in DOMAIN gov'
      BY <1>6
    <3>7. \A n \in 1..v0 : \E g \in DOMAIN gov' :
            gov'[g].claim = c /\ gov'[g].version = n /\ gov'[g].new = "superseded"
      BY <1>3, <1>7, <2>1, <2>2, <2>4, <3>5, <3>6
    <3>8. (v0 + 1) - 1 = v0
      BY <1>2
    <3> QED BY <3>1, <3>3, <3>4, <3>7, <3>8
  <2>5. CASE c # c0
    <3>1. current'[c] = current[c]
      BY <1>5, <2>1, <2>5
    <3>2. \A k \in DOMAIN versions' : k[1] = c => k \in DOMAIN versions
      BY <1>4, <2>5
    <3> QED BY <1>4, <2>1, <2>2, <3>1, <3>2
  <2> QED BY <2>4, <2>5
<1>11. EveryVersionSourced'
  BY <1>3, <1>4, <1>5 DEF AuthorityInv, EveryVersionSourced
<1>12. EveryEventVersioned'
  <2>1. <<c0, v0>> \in DOMAIN versions
    BY <1>2, <1>3 DEF AuthorityInv, OnlyCurrentVersionLives
  <2> SUFFICES ASSUME NEW g \in DOMAIN gov'
               PROVE  <<gov'[g].claim, gov'[g].version>> \in DOMAIN versions'
    BY DEF EveryEventVersioned
  <2>2. CASE g \in DOMAIN gov
    BY <1>4, <1>6, <2>2 DEF AuthorityInv, EveryEventVersioned
  <2>3. CASE g = n0 + 1 \/ g = n0 + 2 \/ g = n0 + 3
    BY <1>4, <1>7, <2>1, <2>3
  <2> QED BY <1>8, <2>2, <2>3
<1>13. AnsweredAreSpent'
  <2>1. DOMAIN answered' = DOMAIN answered \cup {r}
    BY DEF Replace, Put
  <2> SUFFICES ASSUME NEW q \in (ReplaceRequests \cup LifecycleRequests)
                                \cap DOMAIN answered'
               PROVE  /\ q.claim \in DOMAIN current'
                      /\ q.expected <= current'[q.claim].version
                      /\ ~ActiveAt(q.claim, q.expected)'
    BY DEF AnsweredAreSpent
  <2>2. q.expected \in Nat
    BY RequestAssumption DEF ReplaceRequest, LifecycleRequest
  <2>3. CASE q = r
    BY <1>2, <1>3, <1>5, <2>3 DEF ActiveAt
  <2>4. CASE q # r
    <3>1. /\ q.claim \in DOMAIN current
          /\ q.expected <= current[q.claim].version
          /\ ~ActiveAt(q.claim, q.expected)
      BY <2>1, <2>4 DEF AuthorityInv, AnsweredAreSpent
    <3>2. CASE q.claim = c0
      BY <1>2, <1>3, <1>5, <2>2, <3>1, <3>2 DEF ActiveAt
    <3>3. CASE q.claim # c0
      BY <1>5, <3>1, <3>3 DEF ActiveAt
    <3> QED BY <3>2, <3>3
  <2> QED BY <2>3, <2>4
<1> QED BY <1>1, <1>9, <1>10, <1>11, <1>12, <1>13 DEF AuthorityInv

\* retire and expire preserve the invariant: one event, at the same version.
LEMMA LifecycleInv ==
  ASSUME AuthorityInv, NEW r \in LifecycleRequests, Lifecycle(r)
  PROVE  AuthorityInv'
<1> DEFINE c0 == r.claim
           v0 == r.expected
           n0 == Len(gov)
           final == ActionTarget[r.action]
<1>1. TypeOK /\ TypeOK'
  BY LifecycleType DEF AuthorityInv
<1>2. /\ v0 \in Nat \ {0} /\ final \in {"retired", "expired"}
      /\ c0 \in DOMAIN current /\ current[c0].version = v0
      /\ current[c0].state = "active"
  BY <1>1, LifecycleTypes DEF Lifecycle
<1>3. versions' = versions
  BY DEF Lifecycle
<1>4. /\ DOMAIN current' = DOMAIN current
      /\ current'[c0] = [version |-> v0, gid |-> n0 + 1, state |-> final]
      /\ \A c \in DOMAIN current : c # c0 => current'[c] = current[c]
  BY <1>2 DEF Lifecycle, Put
<1>5. /\ n0 \in Nat /\ DOMAIN gov = 1..n0 /\ DOMAIN gov' = 1..(n0 + 1)
      /\ \A g \in DOMAIN gov : gov'[g] = gov[g]
      /\ gov'[n0 + 1] = GovEvent(c0, v0, r.action, "active", final)
  BY <1>1, <1>2 DEF Lifecycle, TypeOK
<1>6. /\ gov'[n0 + 1].claim = c0 /\ gov'[n0 + 1].version = v0
      /\ gov'[n0 + 1].new = final
  BY <1>5 DEF GovEvent
<1>7. \A g \in DOMAIN gov' : g \in DOMAIN gov \/ g = n0 + 1
  BY <1>5
<1>8. CurrentIsLogTip'
  <2> SUFFICES ASSUME NEW c \in DOMAIN current'
               PROVE  /\ current'[c].gid \in DOMAIN gov'
                      /\ gov'[current'[c].gid].claim = c
                      /\ gov'[current'[c].gid].version = current'[c].version
                      /\ gov'[current'[c].gid].new = current'[c].state
                      /\ \A g \in DOMAIN gov' :
                           gov'[g].claim = c => g <= current'[c].gid
    BY DEF CurrentIsLogTip
  <2>1. CASE c = c0
    <3> HIDE DEF final
    <3> QED BY <1>4, <1>5, <1>6, <2>1
  <2>2. CASE c # c0
    <3>1. /\ c \in DOMAIN current /\ current'[c] = current[c]
          /\ current[c].gid \in DOMAIN gov
          /\ gov[current[c].gid].claim = c
          /\ gov[current[c].gid].version = current[c].version
          /\ gov[current[c].gid].new = current[c].state
          /\ \A g \in DOMAIN gov : gov[g].claim = c => g <= current[c].gid
      BY <1>4, <2>2 DEF AuthorityInv, CurrentIsLogTip
    <3>2. \A g \in DOMAIN gov' : gov'[g].claim = c => g \in DOMAIN gov
      BY <1>6, <1>7, <2>2
    <3>3. \A g \in DOMAIN gov : g \in DOMAIN gov' /\ gov'[g] = gov[g]
      BY <1>5
    <3> QED BY <3>1, <3>2, <3>3
  <2> QED BY <2>1, <2>2
<1>9. OnlyCurrentVersionLives'
  <2>1. \A c \in DOMAIN current :
          /\ current'[c].version = current[c].version
          /\ current'[c].state # "superseded"
    <3>1. \A c \in DOMAIN current : current[c].state # "superseded"
      BY DEF AuthorityInv, OnlyCurrentVersionLives
    <3> HIDE DEF final
    <3> QED BY <1>2, <1>4, <3>1
  <2>2. \A g \in DOMAIN gov : g \in DOMAIN gov' /\ gov'[g] = gov[g]
    BY <1>5
  <2> QED BY <1>3, <1>4, <2>1, <2>2 DEF AuthorityInv, OnlyCurrentVersionLives
<1>10. EveryVersionSourced'
  BY <1>3, <1>4 DEF AuthorityInv, EveryVersionSourced
<1>11. EveryEventVersioned'
  <2>1. <<c0, v0>> \in DOMAIN versions
    BY <1>2 DEF AuthorityInv, OnlyCurrentVersionLives
  <2> QED BY <1>3, <1>5, <1>6, <1>7, <2>1 DEF AuthorityInv, EveryEventVersioned
<1>12. AnsweredAreSpent'
  <2>1. DOMAIN answered' = DOMAIN answered \cup {r}
    BY DEF Lifecycle, Put
  <2> SUFFICES ASSUME NEW q \in (ReplaceRequests \cup LifecycleRequests)
                                \cap DOMAIN answered'
               PROVE  /\ q.claim \in DOMAIN current'
                      /\ q.expected <= current'[q.claim].version
                      /\ ~ActiveAt(q.claim, q.expected)'
    BY DEF AnsweredAreSpent
  <2>2. CASE q.claim = c0
    <3>1. /\ current'[c0].version = v0 /\ current'[c0].state = final
          /\ final # "active"
      BY <1>2, <1>4
    <3>2. q.expected <= v0
      BY <1>2, <2>1, <2>2 DEF AuthorityInv, AnsweredAreSpent
    <3> HIDE DEF final
    <3> QED BY <1>2, <1>4, <2>2, <3>1, <3>2 DEF ActiveAt
  <2>3. CASE q.claim # c0
    <3>1. /\ q.claim \in DOMAIN current
          /\ q.expected <= current[q.claim].version
          /\ ~ActiveAt(q.claim, q.expected)
      BY <2>1, <2>3 DEF AuthorityInv, AnsweredAreSpent
    <3> QED BY <1>4, <2>3, <3>1 DEF ActiveAt
  <2> QED BY <2>2, <2>3
<1> QED BY <1>1, <1>8, <1>9, <1>10, <1>11, <1>12 DEF AuthorityInv

\* A promotion batch preserves the invariant: each of its new claims gets its own
\* event and row.
LEMMA PromoteInv ==
  ASSUME AuthorityInv, NEW batch \in PromotionBatches, Promote(batch)
  PROVE  AuthorityInv'
<1>1. TypeOK /\ TypeOK'
  BY PromoteType DEF AuthorityInv
<1>2. PICK n \in Nat : \E record \in [1..n -> LegacyRecords],
                          claim \in [1..n -> Claims] :
           /\ \A i, j \in 1..n : claim[i] = claim[j] => i = j
           /\ \A i \in 1..n : ~Keyed(claim[i])
           /\ InsertPromoted(n, record, claim)
  BY PromoteFresh
<1>3. PICK record \in [1..n -> LegacyRecords], claim \in [1..n -> Claims] :
           /\ \A i, j \in 1..n : claim[i] = claim[j] => i = j
           /\ \A i \in 1..n : ~Keyed(claim[i])
           /\ InsertPromoted(n, record, claim)
  BY <1>2
<1> DEFINE new == {claim[i] : i \in 1..n}
           nth(c) == CHOOSE i \in 1..n : claim[i] = c
           n0 == Len(gov)
<1>4. \A c \in new : nth(c) \in 1..n /\ claim[nth(c)] = c
  OBVIOUS
<1>5. \A c \in new : /\ c \notin DOMAIN current
                     /\ \A k \in DOMAIN versions : k[1] # c
                     /\ \A g \in DOMAIN gov : gov[g].claim # c
  BY <1>3, FreeKey
<1>6. /\ DOMAIN versions' = DOMAIN versions \cup {<<c, 1>> : c \in new}
      /\ \A k \in DOMAIN versions : versions'[k] = versions[k]
      /\ \A c \in new : versions'[<<c, 1>>].sources # <<>>
  BY <1>3, <1>5 DEF InsertPromoted, Version
<1>7. /\ DOMAIN current' = DOMAIN current \cup new
      /\ \A c \in DOMAIN current : current'[c] = current[c]
      /\ \A c \in new :
           current'[c] = [version |-> 1, gid |-> n0 + nth(c), state |-> "active"]
  BY <1>3, <1>5 DEF InsertPromoted
<1>8. /\ n0 \in Nat /\ DOMAIN gov = 1..n0 /\ DOMAIN gov' = 1..(n0 + n)
      /\ \A g \in DOMAIN gov : gov'[g] = gov[g]
      /\ \A i \in 1..n : gov'[n0 + i] = GovEvent(claim[i], 1, "activate",
                                                 "pending_review", "active")
  <2> DEFINE log == [i \in 1..n |-> GovEvent(claim[i], 1, "activate",
                                             "pending_review", "active")]
  <2>1. gov' = gov \o log
    BY <1>3 DEF InsertPromoted
  <2>2. \A i \in 1..n : log[i] \in GovRow
    BY <1>3 DEF GovEvent, GovRow, ActionTarget, LifecycleStates
  <2>3. log \in Seq(GovRow)
    BY <2>2
  <2>4. \A i \in 1..n : log[i] = GovEvent(claim[i], 1, "activate",
                                          "pending_review", "active")
    OBVIOUS
  <2>5. DOMAIN log = 1..n
    OBVIOUS
  <2> HIDE DEF log
  <2>6. Len(log) = n
    BY <2>3, <2>5
  <2>7. gov \in Seq(GovRow)
    BY <1>1 DEF TypeOK
  <2>8. /\ Len(gov') = n0 + n /\ gov' \in Seq(GovRow) /\ n0 \in Nat
        /\ DOMAIN gov = 1..n0
    <3>1. n0 \in Nat /\ DOMAIN gov = 1..n0
      BY <2>7
    <3>2. gov \o log \in Seq(GovRow) /\ Len(gov \o log) = Len(gov) + Len(log)
      BY <2>3, <2>7
    <3>3. Len(gov') = n0 + n
      BY <2>1, <2>6, <3>2, Zenon
    <3> QED BY <2>1, <3>1, <3>2, <3>3
  <2>9. \A g \in DOMAIN gov : gov'[g] = gov[g]
    BY <2>1, <2>3, <2>6, <2>7
  <2>10. \A i \in 1..n : gov'[n0 + i] = log[i]
    <3> SUFFICES ASSUME NEW i \in 1..n PROVE gov'[n0 + i] = log[i]
      OBVIOUS
    <3>1. n0 + i \in 1..(n0 + n) /\ n0 + i > n0 /\ (n0 + i) - n0 = i
      BY <2>8
    <3> QED BY <2>1, <2>3, <2>6, <2>7, <3>1
  <2>11. DOMAIN gov' = 1..(n0 + n)
    BY <2>8
  <2> QED BY <2>4, <2>8, <2>9, <2>10, <2>11
<1>9. \A i \in 1..n : /\ gov'[n0 + i].claim = claim[i]
                      /\ gov'[n0 + i].version = 1
                      /\ gov'[n0 + i].new = "active"
  <2> SUFFICES ASSUME NEW i \in 1..n
               PROVE  /\ gov'[n0 + i].claim = claim[i]
                      /\ gov'[n0 + i].version = 1
                      /\ gov'[n0 + i].new = "active"
    OBVIOUS
  <2>1. gov'[n0 + i] = GovEvent(claim[i], 1, "activate", "pending_review", "active")
    BY <1>8
  <2> HIDE DEF n0
  <2> QED BY <2>1 DEF GovEvent
<1>10. \A g \in DOMAIN gov' : g \in DOMAIN gov \/ \E i \in 1..n : g = n0 + i
  <2> SUFFICES ASSUME NEW g \in DOMAIN gov', g \notin DOMAIN gov
               PROVE  \E i \in 1..n : g = n0 + i
    OBVIOUS
  <2>1. g - n0 \in 1..n /\ g = n0 + (g - n0)
    BY <1>8
  <2> QED BY <2>1
<1> HIDE DEF new, nth, n0
<1>11. CurrentIsLogTip'
  <2> SUFFICES ASSUME NEW c \in DOMAIN current'
               PROVE  /\ current'[c].gid \in DOMAIN gov'
                      /\ gov'[current'[c].gid].claim = c
                      /\ gov'[current'[c].gid].version = current'[c].version
                      /\ gov'[current'[c].gid].new = current'[c].state
                      /\ \A g \in DOMAIN gov' :
                           gov'[g].claim = c => g <= current'[c].gid
    BY DEF CurrentIsLogTip
  <2>1. CASE c \in new
    <3>1. /\ current'[c].gid = n0 + nth(c) /\ current'[c].version = 1
          /\ current'[c].state = "active"
      BY <1>7, <2>1
    <3>2. n0 + nth(c) \in DOMAIN gov'
      BY <1>4, <1>8, <2>1
    <3>3. /\ gov'[n0 + nth(c)].claim = c /\ gov'[n0 + nth(c)].version = 1
          /\ gov'[n0 + nth(c)].new = "active"
      BY <1>4, <1>9, <2>1
    <3>4. ASSUME NEW g \in DOMAIN gov', gov'[g].claim = c
          PROVE  g <= n0 + nth(c)
      <4>1. g \notin DOMAIN gov
        BY <1>5, <1>8, <2>1, <3>4
      <4>2. PICK i \in 1..n : g = n0 + i
        BY <1>10, <4>1
      <4>3. i = nth(c)
        BY <1>3, <1>4, <1>9, <2>1, <3>4, <4>2
      <4> QED BY <1>8, <4>2, <4>3
    <3> QED BY <3>1, <3>2, <3>3, <3>4
  <2>2. CASE c \notin new
    <3>1. /\ c \in DOMAIN current /\ current'[c] = current[c]
          /\ current[c].gid \in DOMAIN gov
          /\ gov[current[c].gid].claim = c
          /\ gov[current[c].gid].version = current[c].version
          /\ gov[current[c].gid].new = current[c].state
          /\ \A g \in DOMAIN gov : gov[g].claim = c => g <= current[c].gid
      BY <1>7, <2>2 DEF AuthorityInv, CurrentIsLogTip
    <3>2. \A g \in DOMAIN gov' : gov'[g].claim = c => g \in DOMAIN gov
      BY <1>9, <1>10, <2>2 DEF new
    <3>3. \A g \in DOMAIN gov : g \in DOMAIN gov' /\ gov'[g] = gov[g]
      BY <1>8
    <3> QED BY <3>1, <3>2, <3>3
  <2> QED BY <2>1, <2>2
<1>12. OnlyCurrentVersionLives'
  <2> SUFFICES ASSUME NEW c \in DOMAIN current'
               PROVE  /\ current'[c].state # "superseded"
                      /\ \A n_1 \in 1..current'[c].version : <<c, n_1>> \in DOMAIN versions'
                      /\ \A k \in DOMAIN versions' :
                           k[1] = c => k[2] <= current'[c].version
                      /\ \A n_1 \in 1..(current'[c].version - 1) :
                           \E g \in DOMAIN gov' :
                             /\ gov'[g].claim = c /\ gov'[g].version = n_1
                             /\ gov'[g].new = "superseded"
    BY DEF OnlyCurrentVersionLives
  <2>1. CASE c \in new
    <3>1. current'[c].version = 1 /\ current'[c].state = "active"
      BY <1>7, <2>1
    <3>2. \A k \in DOMAIN versions' : k[1] = c => k = <<c, 1>>
      BY <1>5, <1>6, <2>1
    <3> QED BY <1>6, <2>1, <3>1, <3>2
  <2>2. CASE c \notin new
    <3>1. /\ c \in DOMAIN current /\ current'[c] = current[c]
          /\ current[c].state # "superseded"
          /\ \A m \in 1..current[c].version : <<c, m>> \in DOMAIN versions
          /\ \A k \in DOMAIN versions : k[1] = c => k[2] <= current[c].version
          /\ \A m \in 1..(current[c].version - 1) :
               \E g \in DOMAIN gov :
                 /\ gov[g].claim = c /\ gov[g].version = m
                 /\ gov[g].new = "superseded"
      BY <1>7, <2>2 DEF AuthorityInv, OnlyCurrentVersionLives
    <3>2. \A k \in DOMAIN versions' : k[1] = c => k \in DOMAIN versions
      BY <1>6, <2>2
    <3>3. \A g \in DOMAIN gov : g \in DOMAIN gov' /\ gov'[g] = gov[g]
      BY <1>8
    <3> QED BY <1>6, <3>1, <3>2, <3>3
  <2> QED BY <2>1, <2>2
<1>13. EveryVersionSourced'
  BY <1>6, <1>7 DEF AuthorityInv, EveryVersionSourced
<1>14. EveryEventVersioned'
  <2> SUFFICES ASSUME NEW g \in DOMAIN gov'
               PROVE  <<gov'[g].claim, gov'[g].version>> \in DOMAIN versions'
    BY DEF EveryEventVersioned
  <2>1. CASE g \in DOMAIN gov
    BY <1>6, <1>8, <2>1 DEF AuthorityInv, EveryEventVersioned
  <2>2. CASE \E i \in 1..n : g = n0 + i
    BY <1>6, <1>9, <2>2 DEF new
  <2> QED BY <1>10, <2>1, <2>2
<1>15. AnsweredAreSpent'
  BY <1>7 DEF AuthorityInv, AnsweredAreSpent, ActiveAt, Promote
<1> QED BY <1>1, <1>11, <1>12, <1>13, <1>14, <1>15 DEF AuthorityInv

\* A step that leaves the claims alone keeps what is said of them.
LEMMA ClaimsUnchangedInv ==
  ASSUME AuthorityInv, TypeOK', UNCHANGED <<versions, gov, current, answered>>
  PROVE  AuthorityInv'
  BY DEF AuthorityInv, CurrentIsLogTip, OnlyCurrentVersionLives,
         EveryVersionSourced, EveryEventVersioned, AnsweredAreSpent, ActiveAt

-----------------------------------------------------------------------------
(* The theorems. *)

\* The empty database satisfies the invariant.
LEMMA InitInv ==
  ASSUME Init
  PROVE  AuthorityInv
<1>1. /\ DOMAIN versions = {} /\ DOMAIN current = {} /\ DOMAIN receipts = {}
      /\ DOMAIN ingest = {} /\ DOMAIN outbox = {} /\ DOMAIN answered = {}
      /\ gov = <<>>
  BY DEF Init, Empty
<1>2. TypeOK
  <2>1. \A S : Empty \in [{} -> S]
    BY DEF Empty
  <2> QED BY <1>1, <2>1 DEF Init, TypeOK
<1>3. CurrentIsLogTip /\ OnlyCurrentVersionLives
  BY <1>1 DEF CurrentIsLogTip, OnlyCurrentVersionLives
<1>4. EveryVersionSourced /\ EveryEventVersioned /\ AnsweredAreSpent
  BY <1>1 DEF EveryVersionSourced, EveryEventVersioned, AnsweredAreSpent
<1> QED BY <1>2, <1>3, <1>4 DEF AuthorityInv

\* Every call of every service preserves the invariant.
LEMMA NextInv ==
  ASSUME AuthorityInv, [AuthorityNext]_authorityVars
  PROVE  AuthorityInv'
<1>1. CASE \E r \in WriteRequests : Write(r)
  BY <1>1, WriteInv
<1>2. CASE \E r \in ReplaceRequests : Replace(r)
  BY <1>2, ReplaceInv
<1>3. CASE \E r \in LifecycleRequests : Lifecycle(r)
  BY <1>3, LifecycleInv
<1>4. CASE \E b \in PromotionBatches : Promote(b)
  BY <1>4, PromoteInv
<1>5. CASE \/ \E e \in UserEvents : SyncEvent(e)
           \/ \E record \in LegacyRecords : WithdrawLegacy(record)
  <2>1. UNCHANGED <<versions, gov, current, answered>>
    BY <1>5 DEF SyncEvent, WithdrawLegacy
  <2>2. TypeOK'
    BY <1>5, SourceType DEF AuthorityInv
  <2> QED BY <2>1, <2>2, ClaimsUnchangedInv
<1>6. CASE UNCHANGED authorityVars
  <2>1. TypeOK'
    BY <1>6 DEF AuthorityInv, TypeOK, authorityVars, tables
  <2>2. UNCHANGED <<versions, gov, current, answered>>
    BY <1>6 DEF authorityVars, tables
  <2> QED BY <2>1, <2>2, ClaimsUnchangedInv
<1> QED BY <1>1, <1>2, <1>3, <1>4, <1>5, <1>6 DEF AuthorityNext

\* The inductive invariant holds in every reachable state: the services keep
\* the tables of the authority consistent whatever they are called with.
THEOREM AuthorityInvariant == Spec => []AuthorityInv
  BY InitInv, NextInv, PTL DEF Spec

\* Every row the services write satisfies the columns' constraints.
THEOREM TypeCorrect == Spec => []TypeOK
<1>1. AuthorityInv => TypeOK
  BY DEF AuthorityInv
<1> QED BY <1>1, AuthorityInvariant, PTL

\* memory_current is always the last logged event of its claim.
THEOREM CurrentFollowsLog == Spec => []CurrentIsLogTip
<1>1. AuthorityInv => CurrentIsLogTip
  BY DEF AuthorityInv
<1> QED BY <1>1, AuthorityInvariant, PTL

\* A claim has one version in force at most: the others are superseded.
THEOREM OneVersionLives == Spec => []OnlyCurrentVersionLives
<1>1. AuthorityInv => OnlyCurrentVersionLives
  BY DEF AuthorityInv
<1> QED BY <1>1, AuthorityInvariant, PTL

\* A request that passes a compare-and-set has not been answered before by a
\* request against the same version.
LEMMA FreshWins ==
  ASSUME AuthorityInv, TransitionWinsOnce,
         NEW r \in ReplaceRequests \cup LifecycleRequests,
         ActiveAt(r.claim, r.expected), DOMAIN answered' = DOMAIN answered \cup {r}
  PROVE  TransitionWinsOnce'
<1>1. \A q \in (ReplaceRequests \cup LifecycleRequests) \cap DOMAIN answered :
        ~(q.claim = r.claim /\ q.expected = r.expected)
  BY DEF AuthorityInv, AnsweredAreSpent
<1> QED BY <1>1 DEF TransitionWinsOnce

\* No two transitions of one claim version succeed: the compare-and-set of
\* replace, retire and expire has one winner, for any number of callers.
THEOREM OneWinner == Spec => []TransitionWinsOnce
<1>1. Init => TransitionWinsOnce
  <2> SUFFICES ASSUME Init PROVE DOMAIN answered = {}
    BY DEF TransitionWinsOnce
  <2> QED BY DEF Init, Empty
<1>2. AuthorityInv /\ TransitionWinsOnce /\ [AuthorityNext]_authorityVars
        => TransitionWinsOnce'
  <2> SUFFICES ASSUME AuthorityInv, TransitionWinsOnce,
                      [AuthorityNext]_authorityVars
               PROVE  TransitionWinsOnce'
    OBVIOUS
  <2>1. ASSUME NEW r \in WriteRequests, Write(r) PROVE TransitionWinsOnce'
    <3>1. DOMAIN answered' = DOMAIN answered \cup {r}
      BY <2>1 DEF Write, Put
    <3>2. "expected" \notin DOMAIN r
      BY RequestAssumption DEF WriteRequest
    <3>3. \A q \in ReplaceRequests : "expected" \in DOMAIN q
      BY RequestAssumption DEF ReplaceRequest
    <3>4. \A q \in LifecycleRequests : "expected" \in DOMAIN q
      BY RequestAssumption DEF LifecycleRequest
    <3> QED BY <3>1, <3>2, <3>3, <3>4 DEF TransitionWinsOnce
  <2>2. ASSUME NEW r \in ReplaceRequests, Replace(r) PROVE TransitionWinsOnce'
    <3>1. DOMAIN answered' = DOMAIN answered \cup {r}
      BY <2>2 DEF Replace, Put
    <3>2. ActiveAt(r.claim, r.expected)
      BY <2>2 DEF Replace, ReplaceCurrent
    <3> QED BY <3>1, <3>2, FreshWins
  <2>3. ASSUME NEW r \in LifecycleRequests, Lifecycle(r) PROVE TransitionWinsOnce'
    <3>1. DOMAIN answered' = DOMAIN answered \cup {r}
      BY <2>3 DEF Lifecycle, Put
    <3>2. ActiveAt(r.claim, r.expected)
      BY <2>3, LifecycleTypes DEF Lifecycle, ActiveAt, AuthorityInv
    <3> QED BY <3>1, <3>2, FreshWins
  <2>4. CASE answered' = answered
    BY <2>4 DEF TransitionWinsOnce
  <2> QED BY <2>1, <2>2, <2>3, <2>4
          DEF AuthorityNext, Promote, SyncEvent, WithdrawLegacy, authorityVars
<1> QED BY <1>1, <1>2, AuthorityInvariant, PTL DEF Spec

\* A retired or expired claim never changes again: no service, replay or
\* promotion writes its memory_current row.
THEOREM FinalStays == Spec => FinalStatesAreFinal
<1> DEFINE Stays == \A c \in DOMAIN current :
                      current[c].state \in FinalStates =>
                        c \in DOMAIN current' /\ current'[c] = current[c]
<1>1. AuthorityInv /\ [AuthorityNext]_authorityVars => Stays
  <2> SUFFICES ASSUME AuthorityInv, [AuthorityNext]_authorityVars
               PROVE  Stays
    OBVIOUS
  <2>0. "active" \notin FinalStates
    BY DEF FinalStates
  <2>1. ASSUME NEW r \in WriteRequests, Write(r) PROVE Stays
    <3>1. r.claim \notin DOMAIN current
      BY <2>1, FreeKey DEF Write
    <3> QED BY <2>1, <3>1 DEF Write, Put
  <2>2. ASSUME NEW r \in ReplaceRequests, Replace(r) PROVE Stays
    BY <2>0, <2>2 DEF Replace, ReplaceCurrent, ActiveAt, Put
  <2>3. ASSUME NEW r \in LifecycleRequests, Lifecycle(r) PROVE Stays
    <3>1. current[r.claim].state = "active"
      BY <2>3, LifecycleTypes DEF Lifecycle, AuthorityInv
    <3> QED BY <2>0, <2>3, <3>1 DEF Lifecycle, Put
  <2>4. ASSUME NEW b \in PromotionBatches, Promote(b) PROVE Stays
    <3>1. PICK n \in Nat : \E record \in [1..n -> LegacyRecords],
                              claim \in [1..n -> Claims] :
             /\ \A i \in 1..n : ~Keyed(claim[i])
             /\ InsertPromoted(n, record, claim)
      BY <2>4, PromoteFresh
    <3>2. PICK record \in [1..n -> LegacyRecords], claim \in [1..n -> Claims] :
             /\ \A i \in 1..n : ~Keyed(claim[i])
             /\ InsertPromoted(n, record, claim)
      BY <3>1
    <3>3. \A i \in 1..n : claim[i] \notin DOMAIN current
      BY <3>2, FreeKey
    <3> QED BY <3>2, <3>3 DEF InsertPromoted
  <2>5. CASE current' = current
    BY <2>5
  <2> QED BY <2>1, <2>2, <2>3, <2>4, <2>5
          DEF AuthorityNext, SyncEvent, WithdrawLegacy, authorityVars, tables
<1>2. AuthorityInv /\ [AuthorityNext]_authorityVars => [Stays]_authorityVars
  BY <1>1
<1> QED BY <1>2, AuthorityInvariant, PTL DEF Spec, FinalStatesAreFinal

-----------------------------------------------------------------------------
(***************************************************************************)
(* Proofs that what the services keep agrees over time: the log of each    *)
(* version, the jobs, the sources and the answers of repeated calls.       *)
(***************************************************************************)

-----------------------------------------------------------------------------
(* Lemmas about the operators. *)

\* A set of naturals has a least element.
LEMMA LeastExists ==
  ASSUME NEW S \in SUBSET Nat, S # {}
  PROVE  \E m \in S : \A k \in S : m <= k
<1>1. \E m \in S : \A k \in S : ~ (<<k, m>> \in OpToRel(<, Nat))
  BY NatLessThanWellFounded, WFMin, Zenon
<1>2. PICK m \in S : \A k \in S : ~ (<<k, m>> \in OpToRel(<, Nat))
  BY <1>1
<1>3. \A k \in S : k \in Nat
  OBVIOUS
<1>4. \A k \in S : ~ (k < m)
  BY <1>2, <1>3 DEF OpToRel
<1> QED BY <1>3, <1>4

\* ORDER BY ... DESC LIMIT 1 finds the last of a set of log positions.
LEMMA LatestIsLast ==
  ASSUME NEW n \in Nat, NEW gids \in SUBSET (1..n), gids # {}
  PROVE  Latest(gids) \in gids /\ \A h \in gids : h <= Latest(gids)
<1> DEFINE back == {n - g : g \in gids}
<1>1. back \in SUBSET Nat /\ back # {}
  <2>1. \A g \in gids : n - g \in Nat
    OBVIOUS
  <2> QED BY <2>1
<1> HIDE DEF back
<1>2. PICK m \in back : \A k \in back : m <= k
  BY <1>1, LeastExists
<1>3. PICK g \in gids : m = n - g
  BY <1>2 DEF back
<1>4. \A h \in gids : h <= g
  <2> SUFFICES ASSUME NEW h \in gids PROVE h <= g
    OBVIOUS
  <2>1. n - h \in back
    BY DEF back
  <2>2. n - g <= n - h
    BY <1>2, <1>3, <2>1
  <2> QED BY <2>2
<1> QED BY <1>4 DEF Latest

\* inherit_sensitivity returns the strictest level it is given.
LEMMA EffectiveIsStrictest ==
  ASSUME NEW levels \in SUBSET Sensitivities, NEW requested \in Sensitivities
  PROVE  /\ Effective(levels, requested) \in levels \cup {requested}
         /\ \A t \in levels \cup {requested} :
              Rank(t) <= Rank(Effective(levels, requested))
<1> DEFINE all == levels \cup {requested}
<1>1. /\ Rank("normal") = 0 /\ Rank("private") = 1
      /\ Rank("restricted") = 2 /\ Rank("secret") = 3
  BY DEF Rank
<1>2. \A s \in all : s \in Sensitivities
  OBVIOUS
<1>3. \E s \in all : \A t \in all : Rank(t) <= Rank(s)
  <2>1. CASE "secret" \in all
    BY <1>1, <1>2, <2>1 DEF Sensitivities
  <2>2. CASE "secret" \notin all /\ "restricted" \in all
    BY <1>1, <1>2, <2>2 DEF Sensitivities
  <2>3. CASE "secret" \notin all /\ "restricted" \notin all /\ "private" \in all
    BY <1>1, <1>2, <2>3 DEF Sensitivities
  <2>4. CASE all \subseteq {"normal"}
    BY <1>1, <2>4
  <2> HIDE DEF all
  <2> QED BY <1>2, <2>1, <2>2, <2>3, <2>4 DEF Sensitivities
<1> QED BY <1>3 DEF Effective

\* A write that is admitted is no less sensitive than any source it was shown,
\* and was shown every source it names.
LEMMA AdmittedCoversSources ==
  ASSUME NEW lineage \in {"event_derived", "explicit_user_assertion"},
         NEW requested \in Sensitivities, NEW refs, NEW snapshots,
         \A i \in DOMAIN snapshots : snapshots[i].sensitivity \in Sensitivities,
         WriteVerdict(lineage, requested, refs, snapshots) = "write_allowed"
  PROVE  /\ \A i \in DOMAIN snapshots :
              Rank(snapshots[i].sensitivity) <= Rank(requested)
         /\ {refs[i] : i \in DOMAIN refs} =
              {snapshots[i].ref : i \in DOMAIN snapshots}
<1> DEFINE levels == {snapshots[i].sensitivity : i \in DOMAIN snapshots}
<1>1. /\ ~(Rank(requested) < Rank(Effective(levels, requested)))
      /\ {refs[i] : i \in DOMAIN refs} =
              {snapshots[i].ref : i \in DOMAIN snapshots}
  BY DEF WriteVerdict
<1>2. levels \in SUBSET Sensitivities
  OBVIOUS
<1> HIDE DEF levels
<1>3. /\ Effective(levels, requested) \in levels \cup {requested}
      /\ \A t \in levels \cup {requested} :
           Rank(t) <= Rank(Effective(levels, requested))
  BY <1>2, EffectiveIsStrictest
<1>4. \A s \in Sensitivities : Rank(s) \in Nat
  BY DEF Rank, Sensitivities
<1>5. Effective(levels, requested) \in Sensitivities
  BY <1>2, <1>3
<1>6. \A t \in levels : Rank(t) <= Rank(requested)
  BY <1>1, <1>2, <1>3, <1>4, <1>5
<1> QED BY <1>1, <1>6 DEF levels

-----------------------------------------------------------------------------
(* What one call of each service does to the tables. *)

\* The rows that one write adds.
LEMMA WriteStep ==
  ASSUME AuthorityInv, NEW r \in WriteRequests, Write(r)
  PROVE  LET key == <<r.claim, 1>> IN
         /\ key \notin DOMAIN versions
         /\ DOMAIN versions' = DOMAIN versions \cup {key}
         /\ versions'[key] = Version(r.content, r.sensitivity, Lineage(r),
                                     WriteSources(r))
         /\ \A k \in DOMAIN versions : versions'[k] = versions[k]
         /\ DOMAIN gov = 1..Len(gov) /\ DOMAIN gov' = 1..(Len(gov) + 1)
         /\ Len(gov) \in Nat
         /\ gov'[Len(gov) + 1] = GovEvent(r.claim, 1, "activate",
                                          "pending_review", "active")
         /\ \A g \in DOMAIN gov : gov'[g] = gov[g]
         /\ DOMAIN current' = DOMAIN current \cup {r.claim}
         /\ r.claim \notin DOMAIN current
         /\ current'[r.claim] = [version |-> 1, gid |-> Len(gov) + 1,
                                 state |-> "active"]
         /\ \A c \in DOMAIN current : current'[c] = current[c]
<1>1. /\ r.claim \notin DOMAIN current
      /\ \A k \in DOMAIN versions : k[1] # r.claim
  BY FreeKey DEF Write
<1>2. gov \in Seq(GovRow) /\ gov' = Append(gov, GovEvent(r.claim, 1, "activate",
                                                  "pending_review", "active"))
  BY DEF Write, AuthorityInv, TypeOK
<1> QED BY <1>1, <1>2 DEF Write, Put

\* The rows that one replace adds.
LEMMA ReplaceStep ==
  ASSUME AuthorityInv, NEW r \in ReplaceRequests, Replace(r)
  PROVE  LET key == <<r.claim, r.expected + 1>>
             n   == Len(gov)
         IN
         /\ r.expected \in Nat \ {0}
         /\ key \notin DOMAIN versions
         /\ DOMAIN versions' = DOMAIN versions \cup {key}
         /\ versions'[key] = Version(r.content, r.sensitivity, Lineage(r),
                                     <<ReplaceSource(r)>>)
         /\ \A k \in DOMAIN versions : versions'[k] = versions[k]
         /\ DOMAIN gov = 1..n /\ DOMAIN gov' = 1..(n + 3) /\ n \in Nat
         /\ gov'[n + 1] = GovEvent(r.claim, r.expected, "supersede",
                                   "active", "superseded")
         /\ gov'[n + 2] = GovEvent(r.claim, r.expected + 1, "submit",
                                   "none", "pending_review")
         /\ gov'[n + 3] = GovEvent(r.claim, r.expected + 1, "activate",
                                   "pending_review", "active")
         /\ \A g \in DOMAIN gov : gov'[g] = gov[g]
         /\ r.claim \in DOMAIN current /\ current[r.claim].version = r.expected
         /\ current[r.claim].state = "active"
         /\ DOMAIN current' = DOMAIN current
         /\ current'[r.claim] = [version |-> r.expected + 1, gid |-> n + 3,
                                 state |-> "active"]
         /\ \A c \in DOMAIN current : c # r.claim => current'[c] = current[c]
<1>1. /\ r.claim \in DOMAIN current /\ current[r.claim].version = r.expected
      /\ current[r.claim].state = "active"
      /\ <<r.claim, r.expected + 1>> \notin DOMAIN versions
      /\ r.expected \in Nat \ {0}
  BY ReplaceTypes DEF Replace, ReplaceCurrent, ActiveAt
<1>2. gov \in Seq(GovRow) /\ gov' = gov \o ReplaceLog(r)
  BY DEF Replace, AuthorityInv, TypeOK
<1>3. ReplaceLog(r) =
        <<GovEvent(r.claim, r.expected, "supersede", "active", "superseded"),
          GovEvent(r.claim, r.expected + 1, "submit", "none", "pending_review"),
          GovEvent(r.claim, r.expected + 1, "activate", "pending_review", "active")>>
  BY DEF ReplaceLog
<1>4. Len(ReplaceLog(r)) = 3
  BY <1>3
<1>5. LET n == Len(gov) IN
      /\ DOMAIN gov = 1..n /\ DOMAIN gov' = 1..(n + 3) /\ n \in Nat
      /\ gov'[n + 1] = ReplaceLog(r)[1] /\ gov'[n + 2] = ReplaceLog(r)[2]
      /\ gov'[n + 3] = ReplaceLog(r)[3]
      /\ \A g \in DOMAIN gov : gov'[g] = gov[g]
  BY <1>2, <1>3, <1>4
<1>6. /\ DOMAIN current' = DOMAIN current
      /\ current'[r.claim] = [version |-> r.expected + 1, gid |-> Len(gov) + 3,
                              state |-> "active"]
      /\ \A c \in DOMAIN current : c # r.claim => current'[c] = current[c]
  BY <1>1 DEF Replace, Put
<1>7. /\ DOMAIN versions' = DOMAIN versions \cup {<<r.claim, r.expected + 1>>}
      /\ versions'[<<r.claim, r.expected + 1>>] =
           Version(r.content, r.sensitivity, Lineage(r), <<ReplaceSource(r)>>)
      /\ \A k \in DOMAIN versions : versions'[k] = versions[k]
  BY <1>1 DEF Replace, Put
<1> QED BY <1>1, <1>3, <1>5, <1>6, <1>7

\* The rows that a retire or expire adds: one event and one receipt.
LEMMA LifecycleStep ==
  ASSUME AuthorityInv, NEW r \in LifecycleRequests, Lifecycle(r)
  PROVE  LET n == Len(gov) IN
         /\ r.expected \in Nat \ {0}
         /\ ActionTarget[r.action] \in {"retired", "expired"}
         /\ DOMAIN gov = 1..n /\ DOMAIN gov' = 1..(n + 1) /\ n \in Nat
         /\ gov'[n + 1] = GovEvent(r.claim, r.expected, r.action, "active",
                                   ActionTarget[r.action])
         /\ \A g \in DOMAIN gov : gov'[g] = gov[g]
         /\ r.claim \in DOMAIN current /\ current[r.claim].version = r.expected
         /\ current[r.claim].state = "active"
         /\ DOMAIN current' = DOMAIN current
         /\ current'[r.claim] = [version |-> r.expected, gid |-> n + 1,
                                 state |-> ActionTarget[r.action]]
         /\ \A c \in DOMAIN current : c # r.claim => current'[c] = current[c]
<1>1. /\ r.expected \in Nat \ {0}
      /\ ActionTarget[r.action] \in {"retired", "expired"}
      /\ r.claim \in DOMAIN current /\ current[r.claim].version = r.expected
      /\ current[r.claim].state = "active"
  BY LifecycleTypes DEF Lifecycle, AuthorityInv
<1> DEFINE event == GovEvent(r.claim, r.expected, r.action, "active",
                             ActionTarget[r.action])
<1>2. gov \in Seq(GovRow) /\ gov' = Append(gov, event)
  BY <1>1 DEF Lifecycle, AuthorityInv, TypeOK
<1> HIDE DEF event
<1>3. LET n == Len(gov) IN
      /\ DOMAIN gov = 1..n /\ DOMAIN gov' = 1..(n + 1) /\ n \in Nat
      /\ gov'[n + 1] = event /\ \A g \in DOMAIN gov : gov'[g] = gov[g]
  BY <1>2
<1>4. /\ DOMAIN current' = DOMAIN current
      /\ current'[r.claim] = [version |-> r.expected, gid |-> Len(gov) + 1,
                              state |-> ActionTarget[r.action]]
      /\ \A c \in DOMAIN current : c # r.claim => current'[c] = current[c]
  BY <1>1 DEF Lifecycle, Put
<1> QED BY <1>1, <1>3, <1>4 DEF event

\* The rows that a promotion batch adds, for the claims it really promotes.
PromotedRows(n, record, claim) ==
  /\ n \in Nat
  /\ record \in [1..n -> LegacyRecords] /\ claim \in [1..n -> Claims]
  /\ \A i, j \in 1..n : claim[i] = claim[j] \/ record[i] = record[j] => i = j
  /\ \A i \in 1..n : /\ <<claim[i], 1>> \notin DOMAIN versions
                     /\ claim[i] \notin DOMAIN current
                     /\ \A g \in DOMAIN gov : gov[g].claim # claim[i]
                     /\ Unguarded(claim[i])
                     /\ Promoted(record[i]) = {}
  /\ DOMAIN versions' = DOMAIN versions \cup {<<claim[i], 1>> : i \in 1..n}
  /\ \A k \in DOMAIN versions : versions'[k] = versions[k]
  /\ \A i \in 1..n : versions'[<<claim[i], 1>>] =
       Version(LegacyInfo[record[i]].content, LegacyInfo[record[i]].sensitivity,
               "legacy_governed", <<record[i]>>)
  /\ Len(gov) \in Nat
  /\ DOMAIN gov = 1..Len(gov) /\ DOMAIN gov' = 1..(Len(gov) + n)
  /\ \A g \in DOMAIN gov : gov'[g] = gov[g]
  /\ \A i \in 1..n : gov'[Len(gov) + i] =
       GovEvent(claim[i], 1, "activate", "pending_review", "active")
  /\ DOMAIN current' = DOMAIN current \cup {claim[i] : i \in 1..n}
  /\ \A c \in DOMAIN current : current'[c] = current[c]
  /\ \A i \in 1..n : current'[claim[i]] =
       [version |-> 1, gid |-> Len(gov) + i, state |-> "active"]
  /\ DOMAIN outbox' = DOMAIN outbox \cup UNION {JobsOf(claim[i], 1) : i \in 1..n}
  /\ \A key \in DOMAIN outbox : outbox'[key] = outbox[key]
  /\ \A i \in 1..n : \A key \in JobsOf(claim[i], 1) \ DOMAIN outbox :
       outbox'[key] = NewJob(outboxSeq + 2 * (i - 1) + Slot(key[1]), record[i],
                             LegacyInfo[record[i]].content)
  /\ outboxSeq' = outboxSeq + 2 * n

\* A promotion batch adds the rows of some number of claims.
LEMMA PromoteStep ==
  ASSUME AuthorityInv, NEW batch \in PromotionBatches, Promote(batch)
  PROVE  \E n, record, claim : PromotedRows(n, record, claim)
<1>1. PICK n \in Nat : \E record \in [1..n -> LegacyRecords],
                          claim \in [1..n -> Claims] :
           /\ \A i, j \in 1..n : claim[i] = claim[j] => i = j
           /\ \A i, j \in 1..n : record[i] = record[j] => i = j
           /\ \A i \in 1..n : /\ ~Keyed(claim[i]) /\ Unguarded(claim[i])
                              /\ Promoted(record[i]) = {}
           /\ InsertPromoted(n, record, claim)
  BY PromoteFresh
<1>2. PICK record \in [1..n -> LegacyRecords], claim \in [1..n -> Claims] :
           /\ \A i, j \in 1..n : claim[i] = claim[j] => i = j
           /\ \A i, j \in 1..n : record[i] = record[j] => i = j
           /\ \A i \in 1..n : /\ ~Keyed(claim[i]) /\ Unguarded(claim[i])
                              /\ Promoted(record[i]) = {}
           /\ InsertPromoted(n, record, claim)
  BY <1>1
<1> DEFINE new == {claim[i] : i \in 1..n}
           nth(c) == CHOOSE i \in 1..n : claim[i] = c
           row(r) == Version(LegacyInfo[r].content, LegacyInfo[r].sensitivity,
                             "legacy_governed", <<r>>)
           job(key, i) == NewJob(outboxSeq + 2 * (i - 1) + Slot(key[1]), record[i],
                                 LegacyInfo[record[i]].content)
           log == [i \in 1..n |-> GovEvent(claim[i], 1, "activate",
                                           "pending_review", "active")]
<1>3. \A i \in 1..n : nth(claim[i]) = i
  BY <1>2
<1>4. \A i \in 1..n : /\ claim[i] \notin DOMAIN current
                      /\ \A k \in DOMAIN versions : k[1] # claim[i]
                      /\ \A g \in DOMAIN gov : gov[g].claim # claim[i]
  BY <1>2, FreeKey
<1>5. \A i \in 1..n : <<claim[i], 1>> \notin DOMAIN versions
  BY <1>4
<1>6. /\ DOMAIN versions' = DOMAIN versions \cup {<<claim[i], 1>> : i \in 1..n}
      /\ \A k \in DOMAIN versions : versions'[k] = versions[k]
      /\ \A i \in 1..n : versions'[<<claim[i], 1>>] = row(record[i])
  <2>1. versions' = [k \in DOMAIN versions \cup {<<c, 1>> : c \in new} |->
                       IF k \in DOMAIN versions THEN versions[k]
                       ELSE row(record[nth(k[1])])]
    BY <1>2 DEF InsertPromoted
  <2>2. {<<c, 1>> : c \in new} = {<<claim[i], 1>> : i \in 1..n}
    OBVIOUS
  <2>3. \A i \in 1..n : <<claim[i], 1>> \in {<<c, 1>> : c \in new}
    OBVIOUS
  <2> HIDE DEF new, nth, row
  <2> QED BY <1>3, <1>5, <2>1, <2>2, <2>3
<1>7. /\ Len(gov) \in Nat
      /\ DOMAIN gov = 1..Len(gov) /\ DOMAIN gov' = 1..(Len(gov) + n)
      /\ \A g \in DOMAIN gov : gov'[g] = gov[g]
      /\ \A i \in 1..n : gov'[Len(gov) + i] = log[i]
  <2>1. gov' = gov \o log
    BY <1>2 DEF InsertPromoted
  <2>2. gov \in Seq(GovRow)
    BY DEF AuthorityInv, TypeOK
  <2>3. \A i \in 1..n : log[i] \in GovRow
    BY <1>2 DEF GovEvent, GovRow, ActionTarget, LifecycleStates
  <2>4. log \in Seq(GovRow) /\ DOMAIN log = 1..n
    BY <2>3
  <2> HIDE DEF log
  <2>5. Len(log) = n
    BY <2>4
  <2>6. Len(gov) \in Nat /\ DOMAIN gov = 1..Len(gov)
    BY <2>2
  <2>7. gov' \in Seq(GovRow) /\ Len(gov') = Len(gov) + n
    <3>1. gov \o log \in Seq(GovRow) /\ Len(gov \o log) = Len(gov) + Len(log)
      BY <2>2, <2>4
    <3> QED BY <2>1, <2>5, <3>1, Zenon
  <2>8. DOMAIN gov' = 1..(Len(gov) + n)
    BY <2>7
  <2>9. \A g \in DOMAIN gov : gov'[g] = gov[g]
    BY <2>1, <2>2, <2>4, <2>5
  <2>10. ASSUME NEW i \in 1..n PROVE gov'[Len(gov) + i] = log[i]
    <3>1. /\ Len(gov) + i \in 1..(Len(gov) + n) /\ Len(gov) + i > Len(gov)
          /\ (Len(gov) + i) - Len(gov) = i
      BY <2>6
    <3> QED BY <2>1, <2>2, <2>4, <2>5, <3>1
  <2> QED BY <2>6, <2>8, <2>9, <2>10
<1>8. /\ DOMAIN current' = DOMAIN current \cup new
      /\ \A c \in DOMAIN current : current'[c] = current[c]
      /\ \A i \in 1..n : current'[claim[i]] =
           [version |-> 1, gid |-> Len(gov) + i, state |-> "active"]
  <2>1. current' =
           [c \in DOMAIN current \cup new |->
              IF c \in new
              THEN [version |-> 1, gid |-> Len(gov) + nth(c), state |-> "active"]
              ELSE current[c]]
    BY <1>2 DEF InsertPromoted
  <2>2. \A c \in DOMAIN current : c \notin new
    BY <1>4
  <2>3. \A i \in 1..n : claim[i] \in new
    OBVIOUS
  <2> HIDE DEF new, nth
  <2> QED BY <1>3, <2>1, <2>2, <2>3
<1>9. /\ DOMAIN outbox' = DOMAIN outbox \cup UNION {JobsOf(claim[i], 1) : i \in 1..n}
      /\ \A key \in DOMAIN outbox : outbox'[key] = outbox[key]
      /\ \A i \in 1..n : \A key \in JobsOf(claim[i], 1) \ DOMAIN outbox :
           outbox'[key] = job(key, i)
      /\ outboxSeq' = outboxSeq + 2 * n
  <2>1. outbox' = [key \in DOMAIN outbox \cup UNION {JobsOf(c, 1) : c \in new} |->
                     IF key \in DOMAIN outbox THEN outbox[key]
                     ELSE job(key, nth(key[2]))]
    BY <1>2 DEF InsertPromoted
  <2>2. UNION {JobsOf(c, 1) : c \in new} = UNION {JobsOf(claim[i], 1) : i \in 1..n}
    OBVIOUS
  <2>3. \A i \in 1..n : \A key \in JobsOf(claim[i], 1) :
          /\ key[2] = claim[i]
          /\ key \in UNION {JobsOf(claim[j], 1) : j \in 1..n}
    BY DEF JobsOf
  <2>4. outboxSeq' = outboxSeq + 2 * n
    BY <1>2 DEF InsertPromoted
  <2> HIDE DEF new, nth, job
  <2> QED BY <1>3, <2>1, <2>2, <2>3, <2>4
<1> HIDE DEF nth, row, job
<1>10. PromotedRows(n, record, claim)
  BY <1>2, <1>4, <1>5, <1>6, <1>7, <1>8, <1>9, SMTT(30) DEF PromotedRows, row, job
<1> QED BY <1>10

\* None of the calls rewrites the log.
LEMMA LogGrows ==
  ASSUME NEW n \in Nat, NEW m \in Nat,
         DOMAIN gov = 1..n, DOMAIN gov' = 1..(n + m),
         \A g \in DOMAIN gov : gov'[g] = gov[g]
  PROVE  \A g \in DOMAIN gov : g \in DOMAIN gov' /\ gov'[g] = gov[g]
  OBVIOUS

-----------------------------------------------------------------------------
(* The log of a version is a path of the lifecycle graph. *)

\* Event g of the log is the last one of h's version before h.
Precedes(log, g, h) ==
  /\ g \in DOMAIN log /\ h \in DOMAIN log /\ g < h
  /\ log[g].claim = log[h].claim /\ log[g].version = log[h].version
  /\ \A i \in DOMAIN log : (g < i /\ i < h) =>
       ~(log[i].claim = log[g].claim /\ log[i].version = log[g].version)

\* Events are only appended, so only the new ones have to be looked at.
LEMMA ChainsExtend ==
  ASSUME LogChains, NEW n \in Nat, NEW m \in Nat,
         DOMAIN gov = 1..n, DOMAIN gov' = 1..(n + m),
         \A g \in DOMAIN gov : gov'[g] = gov[g],
         \A g \in DOMAIN gov' : \A h \in (n + 1)..(n + m) :
           Precedes(gov', g, h) => /\ gov'[h].prev = gov'[g].new
                                   /\ gov'[h].new \in Successors(gov'[g].new)
  PROVE  LogChains'
<1> SUFFICES ASSUME NEW g \in DOMAIN gov', NEW h \in DOMAIN gov',
                    Precedes(gov', g, h)
             PROVE  /\ gov'[h].prev = gov'[g].new
                    /\ gov'[h].new \in Successors(gov'[g].new)
  BY DEF LogChains, Precedes
<1>1. CASE h \in (n + 1)..(n + m)
  BY <1>1
<1>2. CASE h \in 1..n
  <2>1. g \in 1..n /\ g < h
    BY <1>2 DEF Precedes
  <2>2. \A i \in 1..n : i \in 1..(n + m)
    OBVIOUS
  <2>3. \A i \in DOMAIN gov : (g < i /\ i < h) =>
          ~(gov[i].claim = gov[g].claim /\ gov[i].version = gov[g].version)
    BY <2>1, <2>2 DEF Precedes
  <2>4. gov'[g] = gov[g] /\ gov'[h] = gov[h]
    BY <1>2, <2>1
  <2>5. gov[g].claim = gov[h].claim /\ gov[g].version = gov[h].version
    BY <2>4 DEF Precedes
  <2>6. /\ gov[h].prev = gov[g].new
        /\ gov[h].new \in Successors(gov[g].new)
    BY <1>2, <2>1, <2>3, <2>5 DEF LogChains
  <2> QED BY <2>4, <2>6
<1>3. h \in 1..n \/ h \in (n + 1)..(n + m)
  OBVIOUS
<1> QED BY <1>1, <1>2, <1>3

\* The graph's edges that the services use.
LEMMA GraphEdges ==
  /\ "active" \in Successors("pending_review")
  /\ {"superseded", "retired", "expired"} = Successors("active")
  BY DEF Successors

\* A new claim's first event has no predecessor.
LEMMA WriteChains ==
  ASSUME AuthorityInv, LogChains, NEW r \in WriteRequests, Write(r)
  PROVE  LogChains'
<1> DEFINE n == Len(gov)
<1>1. /\ <<r.claim, 1>> \notin DOMAIN versions
      /\ DOMAIN gov = 1..n /\ DOMAIN gov' = 1..(n + 1) /\ n \in Nat
      /\ gov'[n + 1] = GovEvent(r.claim, 1, "activate", "pending_review", "active")
      /\ \A g \in DOMAIN gov : gov'[g] = gov[g]
  BY WriteStep
<1> HIDE DEF n
<1>2. \A g \in 1..n : ~(gov[g].claim = r.claim /\ gov[g].version = 1)
  BY <1>1 DEF AuthorityInv, EveryEventVersioned
<1>3. ASSUME NEW g \in DOMAIN gov', NEW h \in (n + 1)..(n + 1),
             Precedes(gov', g, h)
      PROVE  FALSE
  <2>1. h = n + 1 /\ g \in 1..n
    BY <1>1, <1>3 DEF Precedes
  <2> QED BY <1>1, <1>2, <1>3, <2>1 DEF Precedes, GovEvent
<1> QED BY <1>1, <1>3, ChainsExtend

\* Neither have those of the claims of a promotion batch.
LEMMA PromoteChains ==
  ASSUME AuthorityInv, LogChains, NEW batch \in PromotionBatches, Promote(batch)
  PROVE  LogChains'
<1>1. PICK n, record, claim : PromotedRows(n, record, claim)
  BY PromoteStep
<1> DEFINE m == Len(gov)
<1>2. /\ n \in Nat /\ m \in Nat
      /\ DOMAIN gov = 1..m /\ DOMAIN gov' = 1..(m + n)
      /\ \A g \in DOMAIN gov : gov'[g] = gov[g]
      /\ \A i \in 1..n : gov'[m + i] =
           GovEvent(claim[i], 1, "activate", "pending_review", "active")
      /\ \A i, j \in 1..n : claim[i] = claim[j] => i = j
      /\ \A i \in 1..n : \A g \in DOMAIN gov : gov[g].claim # claim[i]
  BY <1>1 DEF PromotedRows
<1> HIDE DEF m
<1>3. \A h \in (m + 1)..(m + n) :
        h - m \in 1..n /\ gov'[h].claim = claim[h - m]
  <2> SUFFICES ASSUME NEW h \in (m + 1)..(m + n)
               PROVE  h - m \in 1..n /\ gov'[h].claim = claim[h - m]
    OBVIOUS
  <2>1. h - m \in 1..n /\ h = m + (h - m)
    BY <1>2
  <2>2. gov'[h] = GovEvent(claim[h - m], 1, "activate", "pending_review", "active")
    BY <1>2, <2>1
  <2> QED BY <2>1, <2>2 DEF GovEvent
<1>4. ASSUME NEW g \in DOMAIN gov', NEW h \in (m + 1)..(m + n),
             Precedes(gov', g, h)
      PROVE  FALSE
  <2>1. gov'[g].claim = claim[h - m] /\ g < h /\ g \in 1..(m + n)
    BY <1>2, <1>3, <1>4 DEF Precedes
  <2>2. CASE g \in 1..m
    BY <1>2, <1>3, <2>1, <2>2
  <2>3. CASE g \in (m + 1)..(m + n)
    <3>1. g - m = h - m
      BY <1>2, <1>3, <2>1, <2>3
    <3> QED BY <1>2, <2>1, <2>3, <3>1
  <2> QED BY <1>2, <2>1, <2>2, <2>3
<1> QED BY <1>2, <1>4, ChainsExtend

\* The predecessor of an event about the current version is the one that
\* memory_current names.
LEMMA TipPrecedes ==
  ASSUME CurrentIsLogTip, NEW n \in Nat, DOMAIN gov = 1..n, n + 1 \in DOMAIN gov',
         \A g \in DOMAIN gov : g \in DOMAIN gov' /\ gov'[g] = gov[g],
         NEW c \in DOMAIN current,
         gov'[n + 1].claim = c, gov'[n + 1].version = current[c].version,
         NEW g \in DOMAIN gov', Precedes(gov', g, n + 1), g \in 1..n
  PROVE  gov'[g].new = current[c].state
<1>1. /\ current[c].gid \in 1..n /\ gov[current[c].gid].claim = c
      /\ gov[current[c].gid].version = current[c].version
      /\ gov[current[c].gid].new = current[c].state
      /\ \A h \in 1..n : gov[h].claim = c => h <= current[c].gid
  BY DEF CurrentIsLogTip
<1>2. gov[g].claim = c /\ gov[g].version = current[c].version
  BY DEF Precedes
<1>3. g <= current[c].gid
  BY <1>1, <1>2
<1>4. ~(g < current[c].gid)
  BY <1>1, <1>2 DEF Precedes
<1>5. g = current[c].gid
  BY <1>1, <1>3, <1>4
<1> QED BY <1>1, <1>5

\* The three events of a replace continue the old version and begin the new.
LEMMA ReplaceChains ==
  ASSUME AuthorityInv, LogChains, NEW r \in ReplaceRequests, Replace(r)
  PROVE  LogChains'
<1> DEFINE n == Len(gov)
<1>1. /\ r.expected \in Nat \ {0}
      /\ <<r.claim, r.expected + 1>> \notin DOMAIN versions
      /\ DOMAIN gov = 1..n /\ DOMAIN gov' = 1..(n + 3) /\ n \in Nat
      /\ gov'[n + 1] = GovEvent(r.claim, r.expected, "supersede",
                                "active", "superseded")
      /\ gov'[n + 2] = GovEvent(r.claim, r.expected + 1, "submit",
                                "none", "pending_review")
      /\ gov'[n + 3] = GovEvent(r.claim, r.expected + 1, "activate",
                                "pending_review", "active")
      /\ \A g \in DOMAIN gov : gov'[g] = gov[g]
      /\ r.claim \in DOMAIN current /\ current[r.claim].version = r.expected
      /\ current[r.claim].state = "active"
  BY ReplaceStep
<1> HIDE DEF n
<1>2. \A g \in 1..n : ~(gov[g].claim = r.claim /\ gov[g].version = r.expected + 1)
  BY <1>1 DEF AuthorityInv, EveryEventVersioned
<1>3. \A g \in 1..n : g \in 1..(n + 3)
  BY <1>1
<1>4. ASSUME NEW g \in DOMAIN gov', NEW h \in (n + 1)..(n + 3),
             Precedes(gov', g, h)
      PROVE  /\ gov'[h].prev = gov'[g].new
             /\ gov'[h].new \in Successors(gov'[g].new)
  <2>0. h \in {n + 1, n + 2, n + 3}
    BY <1>1
  <2>1. g < h /\ g \in 1..(n + 3)
    BY <1>1, <1>4 DEF Precedes
  <2>2. CASE h = n + 1
    <3>1. g \in 1..n
      BY <1>1, <2>1, <2>2
    <3>2. gov'[g].new = "active"
      <4>1. n + 1 \in DOMAIN gov' /\ CurrentIsLogTip
        BY <1>1 DEF AuthorityInv
      <4>2. gov'[n + 1].claim = r.claim /\ gov'[n + 1].version = current[r.claim].version
        BY <1>1 DEF GovEvent
      <4> QED BY <1>1, <1>3, <1>4, <2>2, <3>1, <4>1, <4>2, TipPrecedes
    <3> QED BY <1>1, <2>2, <3>2, GraphEdges DEF GovEvent
  <2>3. CASE h = n + 2
    <3>1. gov'[g].claim = r.claim /\ gov'[g].version = r.expected + 1
      BY <1>1, <1>4, <2>3 DEF Precedes, GovEvent
    <3>2. g \in 1..n \/ g = n + 1
      BY <1>1, <2>1, <2>3
    <3>3. gov'[n + 1].version = r.expected
      BY <1>1 DEF GovEvent
    <3> QED BY <1>1, <1>2, <3>1, <3>2, <3>3, SMTT(30)
  <2>4. CASE h = n + 3
    <3>1. gov'[g].claim = r.claim /\ gov'[g].version = r.expected + 1
      BY <1>1, <1>4, <2>4 DEF Precedes, GovEvent
    <3>2. gov'[n + 1].version = r.expected
      BY <1>1 DEF GovEvent
    <3>3. g = n + 2
      BY <1>1, <1>2, <2>1, <2>4, <3>1, <3>2
    <3> QED BY <1>1, <2>4, <3>3, GraphEdges DEF GovEvent
  <2> QED BY <2>0, <2>2, <2>3, <2>4
<1> QED BY <1>1, <1>4, ChainsExtend

\* A retire or expire leaves the state the claim is in.
LEMMA LifecycleChains ==
  ASSUME AuthorityInv, LogChains, NEW r \in LifecycleRequests, Lifecycle(r)
  PROVE  LogChains'
<1> DEFINE n == Len(gov)
<1>1. /\ ActionTarget[r.action] \in {"retired", "expired"}
      /\ DOMAIN gov = 1..n /\ DOMAIN gov' = 1..(n + 1) /\ n \in Nat
      /\ gov'[n + 1] = GovEvent(r.claim, r.expected, r.action, "active",
                                ActionTarget[r.action])
      /\ \A g \in DOMAIN gov : gov'[g] = gov[g]
      /\ r.claim \in DOMAIN current /\ current[r.claim].version = r.expected
      /\ current[r.claim].state = "active"
  BY LifecycleStep
<1> HIDE DEF n
<1>2. \A g \in 1..n : g \in 1..(n + 1)
  BY <1>1
<1>3. ASSUME NEW g \in DOMAIN gov', NEW h \in (n + 1)..(n + 1),
             Precedes(gov', g, h)
      PROVE  /\ gov'[h].prev = gov'[g].new
             /\ gov'[h].new \in Successors(gov'[g].new)
  <2>1. h = n + 1 /\ g \in 1..n
    BY <1>1, <1>3 DEF Precedes
  <2>2. gov'[g].new = "active"
    <3>1. n + 1 \in DOMAIN gov' /\ CurrentIsLogTip
      BY <1>1 DEF AuthorityInv
    <3>2. gov'[n + 1].claim = r.claim /\ gov'[n + 1].version = current[r.claim].version
      BY <1>1 DEF GovEvent
    <3> QED BY <1>1, <1>2, <1>3, <2>1, <3>1, <3>2, TipPrecedes
  <2>3. /\ gov'[n + 1].prev = "active"
        /\ gov'[n + 1].new \in {"retired", "expired"}
    BY <1>1 DEF GovEvent
  <2> QED BY <2>1, <2>2, <2>3, GraphEdges
<1> QED BY <1>1, <1>3, ChainsExtend

-----------------------------------------------------------------------------
(* A committed change is never without the work that will publish it. *)

\* A job row is committed to its version.
Committed(key) ==
  LET row == versions[<<key[2], key[3]>>]
  IN  /\ <<key[2], key[3]>> \in DOMAIN versions
      /\ outbox[key].hash = row.content
      /\ \E i \in DOMAIN row.sources : outbox[key].authority = row.sources[i]

\* Versions are never rewritten, so a job whose commitment stays stays committed.
LEMMA JobsKept ==
  ASSUME JobsAreCommitted,
         \A k \in DOMAIN versions : k \in DOMAIN versions' /\ versions'[k] = versions[k],
         \A key \in DOMAIN outbox' :
           \/ /\ key \in DOMAIN outbox
              /\ outbox'[key].hash = outbox[key].hash
              /\ outbox'[key].authority = outbox[key].authority
           \/ Committed(key)'
  PROVE  JobsAreCommitted'
<1>1. \A key \in DOMAIN outbox' : Committed(key)'
  <2> SUFFICES ASSUME NEW key \in DOMAIN outbox', key \in DOMAIN outbox,
                      outbox'[key].hash = outbox[key].hash,
                      outbox'[key].authority = outbox[key].authority
               PROVE  Committed(key)'
    OBVIOUS
  <2>1. Committed(key)
    BY DEF JobsAreCommitted, Committed
  <2> QED BY <2>1 DEF Committed
<1> QED BY <1>1 DEF JobsAreCommitted, Committed

\* When every job is committed it is enough that every claim has its jobs.
LEMMA JobsCover ==
  ASSUME JobsAreCommitted',
         \A c \in DOMAIN current' : JobsOf(c, current'[c].version) \subseteq DOMAIN outbox'
  PROVE  OutboxCoversCurrent'
<1> SUFFICES ASSUME NEW c \in DOMAIN current',
                    NEW key \in JobsOf(c, current'[c].version)
             PROVE  LET row == versions'[<<c, current'[c].version>>]
                    IN  /\ key \in DOMAIN outbox'
                        /\ outbox'[key].hash = row.content
                        /\ \E i \in DOMAIN row.sources :
                             outbox'[key].authority = row.sources[i]
  BY DEF OutboxCoversCurrent
<1>1. key \in DOMAIN outbox'
  OBVIOUS
<1>2. key[2] = c /\ key[3] = current'[c].version
  BY DEF JobsOf
<1> QED BY <1>1, <1>2 DEF JobsAreCommitted

\* Conversely, of a covered outbox.
LEMMA CoverHasJobs ==
  ASSUME OutboxCoversCurrent
  PROVE  \A c \in DOMAIN current : JobsOf(c, current[c].version) \subseteq DOMAIN outbox
  BY DEF OutboxCoversCurrent

\* The jobs of a version that did not exist yet are new.
LEMMA NewVersionNewJobs ==
  ASSUME JobsAreCommitted, NEW claim, NEW version,
         <<claim, version>> \notin DOMAIN versions
  PROVE  JobsOf(claim, version) \cap DOMAIN outbox = {}
  BY DEF JobsAreCommitted, JobsOf

\* The first version of a claim gets its jobs, committed to its last source.
LEMMA WriteJobs ==
  ASSUME AuthorityInv, JobsAreCommitted, NEW r \in WriteRequests, Write(r)
  PROVE  /\ JobsAreCommitted'
         /\ OutboxCoversCurrent => OutboxCoversCurrent'
<1> DEFINE key == <<r.claim, 1>>
<1>1. /\ key \notin DOMAIN versions /\ key \in DOMAIN versions'
      /\ versions'[key] = Version(r.content, r.sensitivity, Lineage(r),
                                  WriteSources(r))
      /\ \A k \in DOMAIN versions : k \in DOMAIN versions' /\ versions'[k] = versions[k]
      /\ DOMAIN current' = DOMAIN current \cup {r.claim}
      /\ current'[r.claim] = [version |-> 1, gid |-> Len(gov) + 1, state |-> "active"]
      /\ \A c \in DOMAIN current : current'[c] = current[c]
  BY WriteStep
<1>2. JobsOf(r.claim, 1) \cap DOMAIN outbox = {}
  BY <1>1, NewVersionNewJobs
<1>3. /\ DOMAIN outbox' = DOMAIN outbox \cup JobsOf(r.claim, 1)
      /\ \A k \in DOMAIN outbox : outbox'[k] = outbox[k]
      /\ \A k \in JobsOf(r.claim, 1) :
           /\ outbox'[k].hash = r.content
           /\ outbox'[k].authority = LastSource(WriteSources(r))
  BY <1>2 DEF Write, Enqueue, NewJob
<1>4. \E i \in DOMAIN WriteSources(r) : LastSource(WriteSources(r)) = WriteSources(r)[i]
  <2>1. WriteSources(r) \in Seq(Sources)
    BY WriteTypes
  <2>2. WriteSources(r) # <<>>
    BY <2>1 DEF WriteSources, Derived
  <2>3. Len(WriteSources(r)) \in DOMAIN WriteSources(r)
    BY <2>1, <2>2
  <2> QED BY <2>3 DEF LastSource
<1>5. \A k \in JobsOf(r.claim, 1) : Committed(k)'
  <2>1. \A k \in JobsOf(r.claim, 1) : <<k[2], k[3]>> = key
    BY DEF JobsOf
  <2> HIDE DEF key
  <2> QED BY <1>1, <1>3, <1>4, <2>1 DEF Committed, Version
<1> HIDE DEF key
<1>6. JobsAreCommitted'
  BY <1>1, <1>3, <1>5, JobsKept
<1>7. ASSUME OutboxCoversCurrent PROVE OutboxCoversCurrent'
  <2>1. \A c \in DOMAIN current' : JobsOf(c, current'[c].version) \subseteq DOMAIN outbox'
    BY <1>1, <1>3, <1>7, CoverHasJobs
  <2> QED BY <1>6, <2>1, JobsCover
<1> QED BY <1>6, <1>7

\* So does the next version of a replaced claim.
LEMMA ReplaceJobs ==
  ASSUME AuthorityInv, JobsAreCommitted, NEW r \in ReplaceRequests, Replace(r)
  PROVE  /\ JobsAreCommitted'
         /\ OutboxCoversCurrent => OutboxCoversCurrent'
<1> DEFINE next == r.expected + 1
           key  == <<r.claim, next>>
<1>1. /\ key \notin DOMAIN versions /\ key \in DOMAIN versions'
      /\ versions'[key] = Version(r.content, r.sensitivity, Lineage(r),
                                  <<ReplaceSource(r)>>)
      /\ \A k \in DOMAIN versions : k \in DOMAIN versions' /\ versions'[k] = versions[k]
      /\ DOMAIN current' = DOMAIN current
      /\ current'[r.claim] = [version |-> next, gid |-> Len(gov) + 3,
                              state |-> "active"]
      /\ \A c \in DOMAIN current : c # r.claim => current'[c] = current[c]
  BY ReplaceStep
<1>2. JobsOf(r.claim, next) \cap DOMAIN outbox = {}
  BY <1>1, NewVersionNewJobs
<1>3. /\ DOMAIN outbox' = DOMAIN outbox \cup JobsOf(r.claim, next)
      /\ \A k \in DOMAIN outbox : outbox'[k] = outbox[k]
      /\ \A k \in JobsOf(r.claim, next) :
           /\ outbox'[k].hash = r.content
           /\ outbox'[k].authority = ReplaceSource(r)
  BY <1>2 DEF Replace, ReplaceJobVersion, Enqueue, NewJob
<1>4. \E i \in DOMAIN <<ReplaceSource(r)>> : ReplaceSource(r) = <<ReplaceSource(r)>>[i]
  OBVIOUS
<1>5. \A k \in JobsOf(r.claim, next) : Committed(k)'
  <2>1. \A k \in JobsOf(r.claim, next) : <<k[2], k[3]>> = key
    BY DEF JobsOf
  <2> HIDE DEF key, next
  <2> QED BY <1>1, <1>3, <1>4, <2>1 DEF Committed, Version
<1> HIDE DEF key, next
<1>6. JobsAreCommitted'
  BY <1>1, <1>3, <1>5, JobsKept
<1>7. ASSUME OutboxCoversCurrent PROVE OutboxCoversCurrent'
  <2>1. \A c \in DOMAIN current' : JobsOf(c, current'[c].version) \subseteq DOMAIN outbox'
    BY <1>1, <1>3, <1>7, CoverHasJobs
  <2> QED BY <1>6, <2>1, JobsCover
<1> QED BY <1>6, <1>7

\* A retire or expire whose commitment agrees with the jobs there are reopens
\* them, and enqueues the ones that are missing.
LEMMA LifecycleJobs ==
  ASSUME AuthorityInv, JobsAreCommitted, NEW r \in LifecycleRequests, Lifecycle(r)
  PROVE  /\ JobsAreCommitted'
         /\ OutboxCoversCurrent => OutboxCoversCurrent'
<1> DEFINE key    == <<r.claim, r.expected>>
           source == FirstSource(r.claim, r.expected)
<1>1. /\ r.claim \in DOMAIN current /\ current[r.claim].version = r.expected
      /\ DOMAIN current' = DOMAIN current
      /\ current'[r.claim] = [version |-> r.expected, gid |-> Len(gov) + 1,
                              state |-> ActionTarget[r.action]]
      /\ \A c \in DOMAIN current : c # r.claim => current'[c] = current[c]
  BY LifecycleStep
<1>2. UNCHANGED versions /\ ~LifecycleAborts(r)
      /\ outbox' = Reopen(Enqueue(outbox, outboxSeq, r.claim, r.expected, source,
                                  versions[key].content), r.claim, r.expected)
  BY DEF Lifecycle
<1>3. key \in DOMAIN versions /\ 1 \in DOMAIN versions[key].sources
      /\ source = versions[key].sources[1]
  <2>1. key \in DOMAIN versions
    BY LifecycleVersion DEF AuthorityInv, Lifecycle
  <2>2. versions[key].sources \in Seq(Sources) /\ versions[key].sources # <<>>
    BY <2>1 DEF AuthorityInv, TypeOK, EveryVersionSourced, VersionRow
  <2>3. 1 \in DOMAIN versions[key].sources
    BY <2>2
  <2> QED BY <2>1, <2>3 DEF FirstSource
<1>4. DOMAIN outbox' = DOMAIN outbox \cup JobsOf(r.claim, r.expected)
  BY <1>2 DEF Reopen, Enqueue
<1>5. \A k \in DOMAIN outbox \ JobsOf(r.claim, r.expected) : outbox'[k] = outbox[k]
  BY <1>2 DEF Reopen, Enqueue
<1>6. \A k \in JobsOf(r.claim, r.expected) :
        outbox'[k].hash = versions[key].content /\ outbox'[k].authority = source
  <2> SUFFICES ASSUME NEW k \in JobsOf(r.claim, r.expected)
               PROVE  /\ outbox'[k].hash = versions[key].content
                      /\ outbox'[k].authority = source
    OBVIOUS
  <2> DEFINE table == Enqueue(outbox, outboxSeq, r.claim, r.expected, source,
                              versions[key].content)
  <2>1. k \in DOMAIN table
    BY DEF Enqueue
  <2>2. table[k].hash = versions[key].content /\ table[k].authority = source
    <3>1. CASE k \in DOMAIN outbox
      <4>1. table[k] = outbox[k]
        BY <3>1 DEF Enqueue
      <4>2. outbox[k].authority = source /\ outbox[k].hash = versions[key].content
        BY <1>2, <3>1 DEF LifecycleAborts, CommitmentConflict
      <4> QED BY <4>1, <4>2
    <3>2. CASE k \notin DOMAIN outbox
      BY <3>2 DEF Enqueue, NewJob
    <3> QED BY <3>1, <3>2
  <2>3. outbox'[k] = [table[k] EXCEPT !.status = "pending", !.owner = Null,
                                      !.lease = "none", !.waiting = FALSE]
    BY <1>2, <2>1 DEF Reopen
  <2> HIDE DEF table
  <2>4. outbox'[k].hash = table[k].hash /\ outbox'[k].authority = table[k].authority
    BY <2>3
  <2> QED BY <2>2, <2>4
<1>7. \A k \in JobsOf(r.claim, r.expected) : Committed(k)'
  <2>1. \A k \in JobsOf(r.claim, r.expected) : <<k[2], k[3]>> = key
    BY DEF JobsOf
  <2> HIDE DEF key, source
  <2> QED BY <1>2, <1>3, <1>6, <2>1 DEF Committed
<1> HIDE DEF key, source
<1>8. JobsAreCommitted'
  BY <1>2, <1>4, <1>5, <1>7, JobsKept
<1>9. ASSUME OutboxCoversCurrent PROVE OutboxCoversCurrent'
  <2>1. \A c \in DOMAIN current' : JobsOf(c, current'[c].version) \subseteq DOMAIN outbox'
    BY <1>1, <1>4, <1>9, CoverHasJobs
  <2> QED BY <1>8, <2>1, JobsCover
<1> QED BY <1>8, <1>9

\* Each claim of a promotion batch gets jobs committed to its record.
LEMMA PromoteJobs ==
  ASSUME AuthorityInv, JobsAreCommitted, NEW batch \in PromotionBatches, Promote(batch)
  PROVE  /\ JobsAreCommitted'
         /\ OutboxCoversCurrent => OutboxCoversCurrent'
<1>1. PICK n, record, claim : PromotedRows(n, record, claim)
  BY PromoteStep
<1>2. /\ \A k \in DOMAIN versions : k \in DOMAIN versions' /\ versions'[k] = versions[k]
      /\ \A i \in 1..n : /\ <<claim[i], 1>> \notin DOMAIN versions
                         /\ <<claim[i], 1>> \in DOMAIN versions'
                         /\ versions'[<<claim[i], 1>>] =
                              Version(LegacyInfo[record[i]].content,
                                      LegacyInfo[record[i]].sensitivity,
                                      "legacy_governed", <<record[i]>>)
      /\ DOMAIN current' = DOMAIN current \cup {claim[i] : i \in 1..n}
      /\ \A c \in DOMAIN current : current'[c] = current[c]
      /\ \A i \in 1..n : current'[claim[i]] =
           [version |-> 1, gid |-> Len(gov) + i, state |-> "active"]
  BY <1>1 DEF PromotedRows
<1>3. /\ DOMAIN outbox' = DOMAIN outbox \cup UNION {JobsOf(claim[i], 1) : i \in 1..n}
      /\ \A key \in DOMAIN outbox : outbox'[key] = outbox[key]
      /\ \A i \in 1..n : \A key \in JobsOf(claim[i], 1) \ DOMAIN outbox :
           outbox'[key] = NewJob(outboxSeq + 2 * (i - 1) + Slot(key[1]), record[i],
                                 LegacyInfo[record[i]].content)
  BY <1>1 DEF PromotedRows
<1>4. \A i \in 1..n : JobsOf(claim[i], 1) \cap DOMAIN outbox = {}
  BY <1>2, NewVersionNewJobs
<1>5. \A i \in 1..n : \A key \in JobsOf(claim[i], 1) : Committed(key)'
  <2> SUFFICES ASSUME NEW i \in 1..n, NEW key \in JobsOf(claim[i], 1)
               PROVE  Committed(key)'
    OBVIOUS
  <2>1. <<key[2], key[3]>> = <<claim[i], 1>>
    BY DEF JobsOf
  <2>2. /\ outbox'[key].hash = LegacyInfo[record[i]].content
        /\ outbox'[key].authority = record[i]
    <3>1. key \in JobsOf(claim[i], 1) \ DOMAIN outbox
      BY <1>4
    <3>2. outbox'[key] = NewJob(outboxSeq + 2 * (i - 1) + Slot(key[1]), record[i],
                                LegacyInfo[record[i]].content)
      BY <1>3, <3>1
    <3> QED BY <3>2 DEF NewJob
  <2>3. <<record[i]>>[1] = record[i] /\ 1 \in DOMAIN <<record[i]>>
    OBVIOUS
  <2>4. LET row == versions'[<<claim[i], 1>>]
        IN  /\ row.content = LegacyInfo[record[i]].content
            /\ row.sources = <<record[i]>>
    <3>1. versions'[<<claim[i], 1>>] =
            Version(LegacyInfo[record[i]].content, LegacyInfo[record[i]].sensitivity,
                    "legacy_governed", <<record[i]>>)
      BY <1>2
    <3> QED BY <3>1 DEF Version
  <2> QED BY <1>2, <2>1, <2>2, <2>3, <2>4 DEF Committed
<1>6. JobsAreCommitted'
  BY <1>2, <1>3, <1>5, JobsKept
<1>7. ASSUME OutboxCoversCurrent PROVE OutboxCoversCurrent'
  <2>1. \A c \in DOMAIN current' : JobsOf(c, current'[c].version) \subseteq DOMAIN outbox'
    <3>1. \A i \in 1..n : JobsOf(claim[i], current'[claim[i]].version)
                             \subseteq DOMAIN outbox'
      <4>1. ASSUME NEW i \in 1..n PROVE current'[claim[i]].version = 1
        <5>1. current'[claim[i]] =
                [version |-> 1, gid |-> Len(gov) + i, state |-> "active"]
          BY <1>2
        <5> QED BY <5>1
      <4>2. \A i \in 1..n : JobsOf(claim[i], 1) \subseteq DOMAIN outbox'
        BY <1>3
      <4> QED BY <4>1, <4>2
    <3>2. \A c \in DOMAIN current : JobsOf(c, current'[c].version) \subseteq DOMAIN outbox'
      BY <1>2, <1>3, <1>7, CoverHasJobs
    <3> QED BY <1>2, <3>1, <3>2
  <2> QED BY <1>6, <2>1, JobsCover
<1> QED BY <1>6, <1>7

-----------------------------------------------------------------------------
(* What a version rests on. *)

\* A version's sources are ingested, of one kind when legacy, and covered.
SourcedRow(k) ==
  \A i \in DOMAIN versions[k].sources :
    LET s == versions[k].sources[i]
    IN  /\ s \in AssertedEvents => s \in DOMAIN ingest
        /\ s \in LegacyRecords => versions[k].sources = <<s>>
        /\ Rank(SourceSensitivity(s)) <= Rank(versions[k].sensitivity)

SourcesInv ==
  AssertionsAreIngested /\ LegacyStandsAlone /\ SensitivityCoversSources

\* The two ways of saying it.
LEMMA SourcedRows == SourcesInv <=> \A k \in DOMAIN versions : SourcedRow(k)
  BY DEF SourcesInv, SourcedRow, AssertionsAreIngested, LegacyStandsAlone,
         SensitivityCoversSources

\* Neither versions nor ingested events are rewritten, so only the sources of
\* new versions have to be looked at.
LEMMA SourcesGrow ==
  ASSUME TypeOK, SourcesInv,
         \A k \in DOMAIN versions : k \in DOMAIN versions' /\ versions'[k] = versions[k],
         \A id \in DOMAIN ingest : id \in DOMAIN ingest' /\ ingest'[id] = ingest[id],
         \A k \in DOMAIN versions' : k \in DOMAIN versions \/ SourcedRow(k)'
  PROVE  SourcesInv'
<1>1. \A k \in DOMAIN versions' : SourcedRow(k)'
  <2> SUFFICES ASSUME NEW k \in DOMAIN versions PROVE SourcedRow(k)'
    OBVIOUS
  <2>1. SourcedRow(k) /\ versions'[k] = versions[k]
    BY SourcedRows
  <2>2. versions[k].sources \in Seq(Sources)
    BY DEF TypeOK, VersionRow
  <2>3. ASSUME NEW i \in DOMAIN versions[k].sources
        PROVE  SourceSensitivity(versions[k].sources[i])' =
                 SourceSensitivity(versions[k].sources[i])
    <3> DEFINE s == versions[k].sources[i]
    <3>1. s \in UserEvents \/ s \in LegacyRecords \/ s \in AssertedEvents
      BY <2>2 DEF Sources
    <3>2. s \in AssertedEvents => s \in DOMAIN ingest
      BY <2>1 DEF SourcedRow
    <3>3. versions'[k].sources[i] = s
      BY <2>1
    <3> HIDE DEF s
    <3>4. SourceSensitivity(s)' = SourceSensitivity(s)
      BY <2>1, <3>1, <3>2 DEF SourceSensitivity, s
    <3> QED BY <3>4 DEF s
  <2> QED BY <2>1, <2>3 DEF SourcedRow
<1> QED BY <1>1 DEF SourcesInv, SourcedRow, AssertionsAreIngested,
                    LegacyStandsAlone, SensitivityCoversSources

\* The event of an explicit write is named by its key, and is no chat event.
LEMMA WriteSourceKinds ==
  ASSUME NEW r \in WriteRequests
  PROVE  /\ DOMAIN WriteSources(r) = 1..Len(WriteSources(r))
         /\ \A i \in DOMAIN WriteSources(r) :
              /\ WriteSources(r)[i] \notin LegacyRecords
              /\ Derived(r) => /\ WriteSources(r)[i] = r.refs[i]
                               /\ WriteSources(r)[i] \in UserEvents
                               /\ WriteSources(r)[i] \notin AssertedEvents
              /\ ~Derived(r) => /\ WriteSources(r)[i] = WriteId(r)
                                /\ i = 1
         /\ ~Derived(r) => /\ WriteId(r) = <<"memory-assertion", r.idem>>
                           /\ WriteId(r) \in AssertedEvents
                           /\ WriteId(r) \notin UserEvents
                           /\ WriteId(r) \notin LegacyRecords
<1>1. r.refs \in Seq(UserEvents)
  BY RequestAssumption DEF WriteRequest
<1>2. ~Derived(r) => /\ WriteId(r) = <<"memory-assertion", r.idem>>
                     /\ WriteId(r) \in AssertedEvents
  BY WriteTypes DEF WriteId
<1>3. CASE Derived(r)
  <2>1. WriteSources(r) = r.refs
    BY <1>3 DEF WriteSources
  <2> QED BY <1>1, <1>3, <2>1, SourcesAssumption
<1>4. CASE ~Derived(r)
  <2>1. WriteSources(r) = <<WriteId(r)>>
    BY <1>4 DEF WriteSources
  <2> QED BY <1>2, <1>4, <2>1, SourcesAssumption
<1> QED BY <1>3, <1>4

\* An admitted write covers the sensitivity of every source it is given.
LEMMA WriteCovers ==
  ASSUME NEW r \in WriteRequests, WriteAdmitted(r)
  PROVE  /\ \A i \in DOMAIN r.refs :
              Rank(EventInfo[r.refs[i]].sensitivity) <= Rank(r.sensitivity)
         /\ ~Derived(r) => Rank(r.sourceSensitivity) <= Rank(r.sensitivity)
<1>1. r \in WriteRequest /\ r.refs \in Seq(UserEvents)
      /\ r.sensitivity \in Sensitivities /\ r.sourceSensitivity \in Sensitivities
  BY RequestAssumption DEF WriteRequest
<1>2. Lineage(r) \in {"event_derived", "explicit_user_assertion"}
  BY DEF Lineage
<1>3. ASSUME NEW i \in DOMAIN r.refs
      PROVE  EventInfo[r.refs[i]].sensitivity \in Sensitivities
  BY <1>1, EventInfoAssumption
<1>4. DOMAIN WriteSnapshots(r) = IF Derived(r) THEN DOMAIN r.refs ELSE {1}
  BY DEF WriteSnapshots, UserSnapshots
<1>5. Derived(r) => \A i \in DOMAIN r.refs :
        WriteSnapshots(r)[i].sensitivity = EventInfo[r.refs[i]].sensitivity
  BY DEF WriteSnapshots, UserSnapshots
<1>6. ~Derived(r) => WriteSnapshots(r)[1].sensitivity = r.sourceSensitivity
  BY DEF WriteSnapshots
<1>7. \A i \in DOMAIN WriteSnapshots(r) :
        WriteSnapshots(r)[i].sensitivity \in Sensitivities
  BY <1>1, <1>3, <1>4, <1>5, <1>6
<1>8. \A i \in DOMAIN WriteSnapshots(r) :
        Rank(WriteSnapshots(r)[i].sensitivity) <= Rank(r.sensitivity)
  BY <1>1, <1>2, <1>7, AdmittedCoversSources DEF WriteAdmitted
<1>9. DOMAIN r.refs # {} => Derived(r)
  BY <1>1 DEF Derived
<1> QED BY <1>4, <1>5, <1>6, <1>8, <1>9

\* So does an admitted replace, whose one source is an event.
LEMMA ReplaceCovers ==
  ASSUME NEW r \in ReplaceRequests, ReplaceAdmitted(r)
  PROVE  /\ ReplaceSource(r) \notin LegacyRecords
         /\ Derived(r) =>
              /\ ReplaceSource(r) \in UserEvents
              /\ ReplaceSource(r) \notin AssertedEvents
              /\ Rank(EventInfo[ReplaceSource(r)].sensitivity) <= Rank(r.sensitivity)
         /\ ~Derived(r) =>
              /\ ReplaceSource(r) = <<"memory-replace", r.idem>>
              /\ ReplaceSource(r) \in AssertedEvents
              /\ ReplaceSource(r) \notin UserEvents
<1>1. r.refs \in Seq(UserEvents) /\ r.sensitivity \in Sensitivities
  BY RequestAssumption DEF ReplaceRequest
<1>2. ReplaceId(r) \in AssertedEvents /\ ReplaceId(r) = <<"memory-replace", r.idem>>
  BY ReplaceTypes DEF ReplaceId
<1>3. CASE Derived(r)
  <2>1. r.refs[1] \in UserEvents /\ ReplaceSource(r) = r.refs[1]
    <3>1. 1 \in DOMAIN r.refs
      BY <1>1, <1>3 DEF Derived
    <3> QED BY <1>1, <1>3, <3>1 DEF ReplaceSource
  <2>2. EventInfo[r.refs[1]].sensitivity \in Sensitivities
    BY <2>1, EventInfoAssumption
  <2> DEFINE snapshots == <<ReplaceSnapshot(r)>>
  <2>3. DOMAIN snapshots = {1}
        /\ snapshots[1].sensitivity = EventInfo[r.refs[1]].sensitivity
    BY <1>3 DEF ReplaceSnapshot
  <2>4. Lineage(r) \in {"event_derived", "explicit_user_assertion"}
    BY DEF Lineage
  <2>5. WriteVerdict(Lineage(r), r.sensitivity, <<ReplaceSource(r)>>, snapshots)
          = "write_allowed"
    BY DEF ReplaceAdmitted
  <2> HIDE DEF snapshots
  <2>6. \A i \in DOMAIN snapshots : snapshots[i].sensitivity \in Sensitivities
    BY <2>2, <2>3
  <2>7. \A i \in DOMAIN snapshots : Rank(snapshots[i].sensitivity) <= Rank(r.sensitivity)
    BY <1>1, <2>4, <2>5, <2>6, AdmittedCoversSources
  <2> QED BY <1>3, <2>1, <2>3, <2>7, SourcesAssumption
<1>4. CASE ~Derived(r)
  BY <1>2, <1>4, SourcesAssumption DEF ReplaceSource
<1> QED BY <1>3, <1>4

\* A request is ingested once, under its own id.
LEMMA IngestedOnce ==
  ASSUME IngestNamesRequests, NEW id, NEW row, id \notin DOMAIN ingest,
         ingest' = Put(ingest, id, row),
         \/ /\ row.request \in WriteRequests /\ ~Derived(row.request)
            /\ id = WriteId(row.request)
         \/ row.request \in ReplaceRequests /\ id = ReplaceId(row.request)
  PROVE  /\ IngestNamesRequests'
         /\ DOMAIN ingest' = DOMAIN ingest \cup {id} /\ ingest'[id] = row
         /\ \A k \in DOMAIN ingest : k \in DOMAIN ingest' /\ ingest'[k] = ingest[k]
<1>1. /\ DOMAIN ingest' = DOMAIN ingest \cup {id} /\ ingest'[id] = row
      /\ \A k \in DOMAIN ingest : k \in DOMAIN ingest' /\ ingest'[k] = ingest[k]
  BY DEF Put
<1>2. \A k \in DOMAIN ingest' : k = id \/ k \in DOMAIN ingest
  BY <1>1
<1> QED BY <1>1, <1>2 DEF IngestNamesRequests

\* The first version of a claim rests on ingested events that it covers.
LEMMA WriteSourced ==
  ASSUME AuthorityInv, SourcesInv, IngestNamesRequests,
         NEW r \in WriteRequests, Write(r)
  PROVE  SourcesInv' /\ IngestNamesRequests'
<1> DEFINE key == <<r.claim, 1>>
<1>1. /\ DOMAIN versions' = DOMAIN versions \cup {key}
      /\ versions'[key] = Version(r.content, r.sensitivity, Lineage(r),
                                  WriteSources(r))
      /\ \A k \in DOMAIN versions : k \in DOMAIN versions' /\ versions'[k] = versions[k]
  BY WriteStep
<1>2. /\ WriteId(r) \notin DOMAIN ingest
      /\ ingest' = IF Derived(r) THEN ingest
                   ELSE Put(ingest, WriteId(r), [request |-> r, event |-> WriteId(r)])
  BY DEF Write
<1>3. /\ IngestNamesRequests'
      /\ \A k \in DOMAIN ingest : k \in DOMAIN ingest' /\ ingest'[k] = ingest[k]
      /\ ~Derived(r) => WriteId(r) \in DOMAIN ingest' /\ ingest'[WriteId(r)].request = r
  <2>1. CASE Derived(r)
    BY <1>2, <2>1 DEF IngestNamesRequests
  <2>2. CASE ~Derived(r)
    <3> DEFINE row == [request |-> r, event |-> WriteId(r)]
    <3>1. row.request = r /\ ingest' = Put(ingest, WriteId(r), row)
      BY <1>2, <2>2
    <3> HIDE DEF row
    <3> QED BY <1>2, <2>2, <3>1, IngestedOnce
  <2> QED BY <2>1, <2>2
<1>4. SourcedRow(key)'
  <2> SUFFICES ASSUME NEW i \in DOMAIN WriteSources(r)
               PROVE  LET s == WriteSources(r)[i]
                      IN  /\ s \in AssertedEvents => s \in DOMAIN ingest'
                          /\ s \in LegacyRecords => WriteSources(r) = <<s>>
                          /\ Rank(SourceSensitivity(s)') <= Rank(r.sensitivity)
    BY <1>1 DEF SourcedRow, Version
  <2>1. CASE Derived(r)
    <3>1. /\ WriteSources(r)[i] \in UserEvents
          /\ WriteSources(r)[i] \notin AssertedEvents
          /\ WriteSources(r)[i] \notin LegacyRecords
          /\ WriteSources(r)[i] = r.refs[i] /\ i \in DOMAIN r.refs
      BY <2>1, WriteSourceKinds DEF WriteSources
    <3> QED BY <3>1, WriteCovers DEF Write, SourceSensitivity
  <2>2. CASE ~Derived(r)
    <3>1. /\ WriteSources(r)[i] = WriteId(r)
          /\ WriteId(r) = <<"memory-assertion", r.idem>>
          /\ WriteId(r) \notin UserEvents /\ WriteId(r) \notin LegacyRecords
      BY <2>2, WriteSourceKinds
    <3>2. SourceSensitivity(WriteId(r))' = r.sourceSensitivity
      BY <1>3, <2>2, <3>1 DEF SourceSensitivity
    <3> QED BY <1>3, <2>2, <3>1, <3>2, WriteCovers DEF Write
  <2> QED BY <2>1, <2>2
<1> HIDE DEF key
<1>5. TypeOK
  BY DEF AuthorityInv
<1> QED BY <1>1, <1>3, <1>4, <1>5, SourcesGrow

\* So does the next version of a replaced claim.
LEMMA ReplaceSourced ==
  ASSUME AuthorityInv, SourcesInv, IngestNamesRequests,
         NEW r \in ReplaceRequests, Replace(r)
  PROVE  SourcesInv' /\ IngestNamesRequests'
<1> DEFINE key == <<r.claim, r.expected + 1>>
           s   == ReplaceSource(r)
           row == [request |-> r, event |-> s]
<1>1. /\ DOMAIN versions' = DOMAIN versions \cup {key}
      /\ versions'[key] = Version(r.content, r.sensitivity, Lineage(r), <<s>>)
      /\ \A k \in DOMAIN versions : k \in DOMAIN versions' /\ versions'[k] = versions[k]
  BY ReplaceStep
<1>2. /\ ReplaceId(r) \notin DOMAIN ingest /\ ReplaceAdmitted(r)
      /\ ingest' = Put(ingest, ReplaceId(r), row)
      /\ row.request = r
  BY DEF Replace
<1> HIDE DEF row
<1>3. /\ IngestNamesRequests'
      /\ \A k \in DOMAIN ingest : k \in DOMAIN ingest' /\ ingest'[k] = ingest[k]
      /\ ReplaceId(r) \in DOMAIN ingest' /\ ingest'[ReplaceId(r)].request = r
  BY <1>2, IngestedOnce
<1>4. /\ s \in AssertedEvents => s \in DOMAIN ingest'
      /\ s \notin LegacyRecords
      /\ Rank(SourceSensitivity(s)') <= Rank(r.sensitivity)
  <2>1. CASE Derived(r)
    BY <1>2, <2>1, ReplaceCovers DEF SourceSensitivity
  <2>2. CASE ~Derived(r)
    <3>1. /\ s = ReplaceId(r) /\ s = <<"memory-replace", r.idem>>
          /\ s \notin UserEvents /\ s \notin LegacyRecords
      BY <1>2, <2>2, ReplaceCovers DEF ReplaceId
    <3> HIDE DEF s
    <3>2. SourceSensitivity(s)' = r.sensitivity
      BY <1>3, <3>1 DEF SourceSensitivity
    <3>3. Rank(r.sensitivity) <= Rank(r.sensitivity)
      <4>1. r.sensitivity \in Sensitivities
        BY RequestAssumption DEF ReplaceRequest
      <4> QED BY <4>1 DEF Rank, Sensitivities
    <3> QED BY <1>3, <3>1, <3>2, <3>3
  <2> QED BY <2>1, <2>2
<1> HIDE DEF s
<1>5. SourcedRow(key)'
  <2>1. versions'[key].sources = <<s>> /\ versions'[key].sensitivity = r.sensitivity
    BY <1>1 DEF Version
  <2> HIDE DEF key
  <2> QED BY <1>4, <2>1 DEF SourcedRow
<1> HIDE DEF key
<1>6. TypeOK
  BY DEF AuthorityInv
<1> QED BY <1>1, <1>3, <1>5, <1>6, SourcesGrow

\* A promoted version rests on its record alone and is as sensitive.
LEMMA PromoteSourced ==
  ASSUME AuthorityInv, SourcesInv, NEW batch \in PromotionBatches, Promote(batch)
  PROVE  SourcesInv'
<1>1. PICK n, record, claim : PromotedRows(n, record, claim)
  BY PromoteStep
<1>2. /\ \A k \in DOMAIN versions : k \in DOMAIN versions' /\ versions'[k] = versions[k]
      /\ DOMAIN versions' = DOMAIN versions \cup {<<claim[i], 1>> : i \in 1..n}
      /\ record \in [1..n -> LegacyRecords]
  BY <1>1 DEF PromotedRows
<1>3. ASSUME NEW i \in 1..n PROVE SourcedRow(<<claim[i], 1>>)'
  <2> DEFINE r == record[i]
  <2>1. versions'[<<claim[i], 1>>] =
          Version(LegacyInfo[r].content, LegacyInfo[r].sensitivity,
                  "legacy_governed", <<r>>)
    BY <1>1 DEF PromotedRows
  <2>2. r \in LegacyRecords /\ r \notin UserEvents /\ r \notin AssertedEvents
    BY <1>2, SourcesAssumption
  <2>3. LegacyInfo[r].sensitivity \in Sensitivities
    BY <2>2, LegacyInfoAssumption
  <2> HIDE DEF r
  <2>4. /\ versions'[<<claim[i], 1>>].sources = <<r>>
        /\ versions'[<<claim[i], 1>>].sensitivity = LegacyInfo[r].sensitivity
    BY <2>1 DEF Version
  <2>5. SourceSensitivity(r)' = LegacyInfo[r].sensitivity
    BY <2>2 DEF SourceSensitivity
  <2>6. Rank(LegacyInfo[r].sensitivity) <= Rank(LegacyInfo[r].sensitivity)
    BY <2>3 DEF Rank, Sensitivities
  <2> QED BY <2>2, <2>4, <2>5, <2>6 DEF SourcedRow
<1>4. TypeOK /\ ingest' = ingest
  BY DEF AuthorityInv, Promote
<1>5. \A k \in DOMAIN versions' : k \in DOMAIN versions \/ SourcedRow(k)'
  BY <1>2, <1>3
<1> QED BY <1>2, <1>4, <1>5, SourcesGrow

\* Only a promotion rests a version on a legacy record.
LEMMA EventsAreNotLegacy ==
  ASSUME LegacyOnce, NEW key,
         DOMAIN versions' = DOMAIN versions \cup {key},
         \A k \in DOMAIN versions : versions'[k] = versions[k],
         \A r \in LegacyRecords : versions'[key].sources # <<r>>
  PROVE  LegacyOnce'
  BY DEF LegacyOnce

\* A promoted record backs one version of one claim: the batch names it once
\* and no version rested on it before.
LEMMA PromoteOnce ==
  ASSUME AuthorityInv, LegacyOnce, NEW batch \in PromotionBatches, Promote(batch)
  PROVE  LegacyOnce'
<1>1. PICK n, record, claim : PromotedRows(n, record, claim)
  BY PromoteStep
<1>2. /\ \A k \in DOMAIN versions : k \in DOMAIN versions' /\ versions'[k] = versions[k]
      /\ DOMAIN versions' = DOMAIN versions \cup {<<claim[i], 1>> : i \in 1..n}
      /\ \A i, j \in 1..n : record[i] = record[j] => i = j
  BY <1>1 DEF PromotedRows
<1>3. ASSUME NEW i \in 1..n
      PROVE  /\ versions'[<<claim[i], 1>>].sources = <<record[i]>>
             /\ \A k \in DOMAIN versions : versions[k].sources # <<record[i]>>
  <2>1. /\ Promoted(record[i]) = {}
        /\ versions'[<<claim[i], 1>>] =
             Version(LegacyInfo[record[i]].content, LegacyInfo[record[i]].sensitivity,
                     "legacy_governed", <<record[i]>>)
    BY <1>1 DEF PromotedRows
  <2> QED BY <2>1 DEF Promoted, Version
<1>4. SUFFICES ASSUME NEW r \in LegacyRecords,
                      NEW j \in DOMAIN versions', NEW k \in DOMAIN versions',
                      versions'[j].sources = <<r>>, versions'[k].sources = <<r>>
               PROVE  j = k
  BY DEF LegacyOnce
<1>5. CASE j \in DOMAIN versions /\ k \in DOMAIN versions
  BY <1>2, <1>4, <1>5 DEF LegacyOnce
<1>6. \A a \in DOMAIN versions, i \in 1..n :
        ~(versions'[a].sources = <<r>> /\ versions'[<<claim[i], 1>>].sources = <<r>>)
  BY <1>2, <1>3
<1>7. CASE \E a, b \in 1..n : j = <<claim[a], 1>> /\ k = <<claim[b], 1>>
  <2>1. PICK a \in 1..n, b \in 1..n : j = <<claim[a], 1>> /\ k = <<claim[b], 1>>
    BY <1>7
  <2>2. <<record[a]>> = <<record[b]>>
    BY <1>3, <1>4, <2>1
  <2>3. record[a] = record[b]
    BY <2>2
  <2> QED BY <1>2, <2>1, <2>3
<1> QED BY <1>2, <1>4, <1>5, <1>6, <1>7

-----------------------------------------------------------------------------
(* What an answered call left behind. *)

\* An answered write is on record.
Recorded(r) ==
  /\ answered[r].claim = r.claim /\ answered[r].version = 1
  /\ Keyed(r.claim)
  /\ SourcesMatch(r.refs, r.content, {"memory", "replace"})
  /\ ~Derived(r) =>
       /\ WriteId(r) \in DOMAIN ingest
       /\ ingest[WriteId(r)].request = r
       /\ EventsBackedBy(WriteId(r)) # {}
       /\ \A k \in DOMAIN versions : \A i \in DOMAIN versions[k].sources :
            versions[k].sources[i] = WriteId(r) => k = <<r.claim, 1>>

\* Tables only grow, and the event a service inserted for one request backs
\* nothing that is written for another.
LEMMA RecordKept ==
  ASSUME EveryEventVersioned, NEW r \in WriteRequests, Recorded(r),
         answered'[r] = answered[r],
         \A k \in DOMAIN versions : k \in DOMAIN versions' /\ versions'[k] = versions[k],
         \A g \in DOMAIN gov : g \in DOMAIN gov' /\ gov'[g] = gov[g],
         \A id \in DOMAIN ingest : id \in DOMAIN ingest' /\ ingest'[id] = ingest[id],
         \A k \in DOMAIN versions' :
           \/ k \in DOMAIN versions
           \/ \A i \in DOMAIN versions'[k].sources :
                versions'[k].sources[i] \notin DOMAIN ingest
  PROVE  Recorded(r)'
<1>1. Keyed(r.claim)'
  BY DEF Recorded, Keyed
<1>2. EventsBackedBy(WriteId(r)) \subseteq EventsBackedBy(WriteId(r))'
  <2> SUFFICES ASSUME NEW g \in EventsBackedBy(WriteId(r))
               PROVE  g \in EventsBackedBy(WriteId(r))'
    OBVIOUS
  <2>1. /\ g \in DOMAIN gov' /\ gov'[g] = gov[g]
        /\ <<gov[g].claim, gov[g].version>> \in DOMAIN versions
    BY DEF EventsBackedBy, EveryEventVersioned
  <2>2. versions'[<<gov[g].claim, gov[g].version>>] =
          versions[<<gov[g].claim, gov[g].version>>]
    BY <2>1
  <2> QED BY <2>1, <2>2 DEF EventsBackedBy
<1>3. ASSUME ~Derived(r), NEW k \in DOMAIN versions',
             NEW i \in DOMAIN versions'[k].sources,
             versions'[k].sources[i] = WriteId(r)
      PROVE  k = <<r.claim, 1>>
  <2>1. WriteId(r) \in DOMAIN ingest
    BY <1>3 DEF Recorded
  <2>2. k \in DOMAIN versions /\ versions'[k] = versions[k]
    BY <1>3, <2>1
  <2> QED BY <1>3, <2>2 DEF Recorded
<1>4. ~Derived(r) => /\ WriteId(r) \in DOMAIN ingest'
                     /\ ingest'[WriteId(r)].request = r
                     /\ EventsBackedBy(WriteId(r))' # {}
  BY <1>2 DEF Recorded
<1>5. answered'[r].claim = r.claim /\ answered'[r].version = 1
  BY DEF Recorded
<1>6. SourcesMatch(r.refs, r.content, {"memory", "replace"})
  BY DEF Recorded
<1> QED BY <1>1, <1>3, <1>4, <1>5, <1>6 DEF Recorded

\* The write that is answered now is on record.
LEMMA WriteRecorded ==
  ASSUME AuthorityInv, AssertionsAreIngested, NEW r \in WriteRequests, Write(r)
  PROVE  Recorded(r)'
<1> DEFINE key == <<r.claim, 1>>
           n   == Len(gov)
<1>1. /\ key \notin DOMAIN versions
      /\ DOMAIN versions' = DOMAIN versions \cup {key}
      /\ versions'[key] = Version(r.content, r.sensitivity, Lineage(r),
                                  WriteSources(r))
      /\ \A k \in DOMAIN versions : versions'[k] = versions[k]
      /\ DOMAIN gov' = 1..(n + 1) /\ n \in Nat
      /\ gov'[n + 1] = GovEvent(r.claim, 1, "activate", "pending_review", "active")
  BY WriteStep
<1>2. /\ WriteId(r) \notin DOMAIN ingest
      /\ SourcesMatch(r.refs, r.content, {"memory", "replace"})
      /\ ingest' = IF Derived(r) THEN ingest
                   ELSE Put(ingest, WriteId(r), [request |-> r, event |-> WriteId(r)])
      /\ answered' = Put(answered, r, Receipt(TRUE, "active", r.claim, 1, n + 1))
  BY DEF Write
<1>3. answered'[r].claim = r.claim /\ answered'[r].version = 1
  BY <1>2 DEF Put, Receipt
<1>4. Keyed(r.claim)'
  BY <1>1 DEF Keyed
<1>5. ASSUME ~Derived(r)
      PROVE  /\ WriteId(r) \in DOMAIN ingest'
             /\ ingest'[WriteId(r)].request = r
             /\ EventsBackedBy(WriteId(r))' # {}
             /\ \A k \in DOMAIN versions' : \A i \in DOMAIN versions'[k].sources :
                  versions'[k].sources[i] = WriteId(r) => k = key
  <2>1. WriteId(r) \in DOMAIN ingest' /\ ingest'[WriteId(r)].request = r
    BY <1>2, <1>5 DEF Put
  <2>2. n + 1 \in EventsBackedBy(WriteId(r))'
    <3>1. n + 1 \in DOMAIN gov'
      BY <1>1
    <3>2. gov'[n + 1].claim = r.claim /\ gov'[n + 1].version = 1
      BY <1>1 DEF GovEvent
    <3>3. versions'[key].sources = <<WriteId(r)>>
      BY <1>1, <1>5 DEF Version, WriteSources
    <3>4. 1 \in DOMAIN <<WriteId(r)>> /\ <<WriteId(r)>>[1] = WriteId(r)
      OBVIOUS
    <3> QED BY <3>1, <3>2, <3>3, <3>4 DEF EventsBackedBy
  <2>3. \A k \in DOMAIN versions : \A i \in DOMAIN versions[k].sources :
          versions[k].sources[i] # WriteId(r)
    <3>1. WriteId(r) \in AssertedEvents
      BY <1>5, WriteTypes
    <3> QED BY <1>2, <3>1 DEF AssertionsAreIngested
  <2> HIDE DEF key
  <2> QED BY <1>1, <2>1, <2>2, <2>3
<1> QED BY <1>2, <1>3, <1>4, <1>5 DEF Recorded

\* Write, replace and promotion keep the record of every other write.
LEMMA WriteKeepsRecords ==
  ASSUME AuthorityInv, AssertionsAreIngested, WritesOnRecord,
         NEW r \in WriteRequests, Write(r)
  PROVE  WritesOnRecord'
<1> DEFINE key == <<r.claim, 1>>
<1>1. /\ DOMAIN versions' = DOMAIN versions \cup {key}
      /\ versions'[key] = Version(r.content, r.sensitivity, Lineage(r),
                                  WriteSources(r))
      /\ \A k \in DOMAIN versions : versions'[k] = versions[k]
      /\ DOMAIN gov = 1..Len(gov) /\ DOMAIN gov' = 1..(Len(gov) + 1)
      /\ Len(gov) \in Nat
      /\ \A g \in DOMAIN gov : gov'[g] = gov[g]
  BY WriteStep
<1>2. /\ WriteId(r) \notin DOMAIN ingest
      /\ ingest' = IF Derived(r) THEN ingest
                   ELSE Put(ingest, WriteId(r), [request |-> r, event |-> WriteId(r)])
      /\ answered' = Put(answered, r, Receipt(TRUE, "active", r.claim, 1, Len(gov) + 1))
  BY DEF Write
<1>3. DOMAIN ingest \subseteq AssertedEvents /\ EveryEventVersioned
  BY DEF AuthorityInv, TypeOK
<1>4. \A i \in DOMAIN versions'[key].sources :
        versions'[key].sources[i] \notin DOMAIN ingest
  <2>1. versions'[key].sources = WriteSources(r)
    BY <1>1 DEF Version
  <2>2. \A i \in DOMAIN WriteSources(r) : WriteSources(r)[i] \notin DOMAIN ingest
    BY <1>2, <1>3, WriteSourceKinds
  <2> HIDE DEF key
  <2> QED BY <2>1, <2>2
<1>5. \A k \in DOMAIN ingest : k \in DOMAIN ingest' /\ ingest'[k] = ingest[k]
  BY <1>2 DEF Put
<1>6. \A g \in DOMAIN gov : g \in DOMAIN gov' /\ gov'[g] = gov[g]
  BY <1>1
<1>7. Recorded(r)'
  BY WriteRecorded
<1>8. ASSUME NEW q \in WriteRequests, q \in DOMAIN answered', q # r
      PROVE  Recorded(q)'
  <2>1. q \in DOMAIN answered /\ answered'[q] = answered[q]
    BY <1>2, <1>8 DEF Put
  <2>2. Recorded(q)
    BY <2>1 DEF WritesOnRecord, Recorded
  <2> HIDE DEF key
  <2> QED BY <1>1, <1>3, <1>4, <1>5, <1>6, <2>1, <2>2, RecordKept
<1> QED BY <1>7, <1>8 DEF WritesOnRecord, Recorded

\* The kinds of requests differ in their fields.
LEMMA RequestKinds ==
  /\ WriteRequests \cap (ReplaceRequests \cup LifecycleRequests) = {}
  /\ ReplaceRequests \cap LifecycleRequests = {}
<1>1. \A q \in WriteRequests : "expected" \notin DOMAIN q
  BY RequestAssumption DEF WriteRequest
<1>2. \A q \in ReplaceRequests : "expected" \in DOMAIN q /\ "action" \notin DOMAIN q
  BY RequestAssumption DEF ReplaceRequest
<1>3. \A q \in LifecycleRequests : "expected" \in DOMAIN q /\ "action" \in DOMAIN q
  BY RequestAssumption DEF LifecycleRequest
<1> QED BY <1>1, <1>2, <1>3

\* A step of another kind keeps the records of the writes.
LEMMA OthersKeepRecords ==
  ASSUME EveryEventVersioned, WritesOnRecord,
         \A q \in WriteRequests : q \in DOMAIN answered' =>
           q \in DOMAIN answered /\ answered'[q] = answered[q],
         \A k \in DOMAIN versions : k \in DOMAIN versions' /\ versions'[k] = versions[k],
         \A g \in DOMAIN gov : g \in DOMAIN gov' /\ gov'[g] = gov[g],
         \A id \in DOMAIN ingest : id \in DOMAIN ingest' /\ ingest'[id] = ingest[id],
         \A k \in DOMAIN versions' :
           \/ k \in DOMAIN versions
           \/ \A i \in DOMAIN versions'[k].sources :
                versions'[k].sources[i] \notin DOMAIN ingest
  PROVE  WritesOnRecord'
<1>1. ASSUME NEW q \in WriteRequests, q \in DOMAIN answered'
      PROVE  Recorded(q)'
  <2>1. q \in DOMAIN answered /\ answered'[q] = answered[q]
    BY <1>1
  <2>2. Recorded(q)
    BY <2>1 DEF WritesOnRecord, Recorded
  <2> QED BY <2>1, <2>2, RecordKept
<1> QED BY <1>1 DEF WritesOnRecord, Recorded

\* Receipts and events are never rewritten, so the receipt of an answered
\* retire or expire stays the answer.
LEMMA ReceiptsKept ==
  ASSUME ReceiptsOnRecord,
         \A q \in LifecycleRequests : q \in DOMAIN answered' =>
           q \in DOMAIN answered /\ answered'[q] = answered[q],
         \A g \in DOMAIN gov : g \in DOMAIN gov' /\ gov'[g] = gov[g],
         receipts' = receipts
  PROVE  ReceiptsOnRecord'
  BY DEF ReceiptsOnRecord

\* A retire or expire leaves its receipt under a key that had none.
LEMMA LifecycleReceipts ==
  ASSUME AuthorityInv, ReceiptsOnRecord, NEW r \in LifecycleRequests, Lifecycle(r)
  PROVE  ReceiptsOnRecord'
<1> DEFINE n     == Len(gov)
           state == ActionTarget[r.action]
           row   == [request |-> r, version |-> r.expected, gid |-> n + 1]
<1>1. /\ DOMAIN gov = 1..n /\ DOMAIN gov' = 1..(n + 1) /\ n \in Nat
      /\ gov'[n + 1] = GovEvent(r.claim, r.expected, r.action, "active", state)
      /\ \A g \in DOMAIN gov : gov'[g] = gov[g]
  BY LifecycleStep
<1>2. /\ r.idem \notin DOMAIN receipts
      /\ receipts' = Put(receipts, r.idem, row)
      /\ answered' = Put(answered, r, Receipt(TRUE, state, r.claim, r.expected, n + 1))
  BY DEF Lifecycle
<1>3. /\ r.idem \in DOMAIN receipts' /\ receipts'[r.idem] = row
      /\ \A k \in DOMAIN receipts : k \in DOMAIN receipts' /\ receipts'[k] = receipts[k]
      /\ answered'[r] = Receipt(TRUE, state, r.claim, r.expected, n + 1)
      /\ \A q \in DOMAIN answered' :
           q # r => q \in DOMAIN answered /\ answered'[q] = answered[q]
  BY <1>2 DEF Put
<1>4. /\ row.request = r /\ row.version = r.expected /\ row.gid = n + 1
      /\ n + 1 \in DOMAIN gov' /\ gov'[n + 1].new = state
  BY <1>1 DEF GovEvent
<1> HIDE DEF row, state, n
<1>5. \A g \in DOMAIN gov : g \in DOMAIN gov' /\ gov'[g] = gov[g]
  BY <1>1
<1>6. SUFFICES ASSUME NEW q \in LifecycleRequests, q \in DOMAIN answered'
               PROVE  /\ q.idem \in DOMAIN receipts'
                      /\ receipts'[q.idem].request = q
                      /\ receipts'[q.idem].gid \in DOMAIN gov'
                      /\ answered'[q] =
                           Receipt(TRUE, gov'[receipts'[q.idem].gid].new, q.claim,
                                   receipts'[q.idem].version, receipts'[q.idem].gid)
  BY DEF ReceiptsOnRecord
<1>7. CASE q = r
  BY <1>3, <1>4, <1>7
<1>8. CASE q # r
  <2>1. q \in DOMAIN answered /\ answered'[q] = answered[q]
    BY <1>3, <1>6, <1>8
  <2>2. /\ q.idem \in DOMAIN receipts /\ receipts[q.idem].request = q
        /\ receipts[q.idem].gid \in DOMAIN gov
        /\ answered[q] =
             Receipt(TRUE, gov[receipts[q.idem].gid].new, q.claim,
                     receipts[q.idem].version, receipts[q.idem].gid)
    BY <2>1 DEF ReceiptsOnRecord
  <2>3. receipts'[q.idem] = receipts[q.idem] /\ q.idem \in DOMAIN receipts'
    BY <1>3, <2>2
  <2> QED BY <1>5, <2>1, <2>2, <2>3
<1> QED BY <1>7, <1>8

-----------------------------------------------------------------------------
(* The invariant is inductive. *)

\* The conjuncts that a step can disturb one at a time.
LEMMA HistoryParts ==
  HistoryInv <=> /\ AuthorityInv /\ LogChains
                 /\ JobsAreCommitted /\ OutboxCoversCurrent
                 /\ IngestNamesRequests /\ SourcesInv /\ LegacyOnce
                 /\ WritesOnRecord /\ ReceiptsOnRecord
  BY DEF HistoryInv, SourcesInv

\* MemoryWriteService.write.
LEMMA WriteHistory ==
  ASSUME HistoryInv, NEW r \in WriteRequests, Write(r)
  PROVE  HistoryInv'
<1>1. /\ AuthorityInv /\ LogChains /\ JobsAreCommitted /\ OutboxCoversCurrent
      /\ IngestNamesRequests /\ SourcesInv /\ LegacyOnce
      /\ WritesOnRecord /\ ReceiptsOnRecord
  BY HistoryParts
<1>2. AuthorityInv' /\ LogChains' /\ JobsAreCommitted' /\ OutboxCoversCurrent'
  BY <1>1, WriteInv, WriteChains, WriteJobs
<1>3. IngestNamesRequests' /\ SourcesInv'
  BY <1>1, WriteSourced
<1>4. LegacyOnce'
  <2> DEFINE key == <<r.claim, 1>>
  <2>1. /\ DOMAIN versions' = DOMAIN versions \cup {key}
        /\ \A k \in DOMAIN versions : versions'[k] = versions[k]
        /\ versions'[key] = Version(r.content, r.sensitivity, Lineage(r),
                                    WriteSources(r))
    BY <1>1, WriteStep
  <2>2. \A record \in LegacyRecords : versions'[key].sources # <<record>>
    <3> SUFFICES ASSUME NEW record \in LegacyRecords, WriteSources(r) = <<record>>
                 PROVE  FALSE
      BY <2>1 DEF Version
    <3>1. 1 \in DOMAIN WriteSources(r) /\ WriteSources(r)[1] = record
      OBVIOUS
    <3> QED BY <3>1, WriteSourceKinds
  <2> HIDE DEF key
  <2> QED BY <1>1, <2>1, <2>2, EventsAreNotLegacy
<1>5. WritesOnRecord'
  BY <1>1, WriteKeepsRecords DEF SourcesInv
<1>6. ReceiptsOnRecord'
  <2>1. \A q \in LifecycleRequests : q \in DOMAIN answered' =>
          q \in DOMAIN answered /\ answered'[q] = answered[q]
    BY RequestKinds DEF Write, Put
  <2>2. \A g \in DOMAIN gov : g \in DOMAIN gov' /\ gov'[g] = gov[g]
    BY <1>1, WriteStep, LogGrows
  <2> QED BY <1>1, <2>1, <2>2, ReceiptsKept DEF Write
<1> QED BY <1>2, <1>3, <1>4, <1>5, <1>6 DEF HistoryInv, SourcesInv

\* MemoryTransitionService.replace.
LEMMA ReplaceHistory ==
  ASSUME HistoryInv, NEW r \in ReplaceRequests, Replace(r)
  PROVE  HistoryInv'
<1> DEFINE key == <<r.claim, r.expected + 1>>
<1>1. /\ AuthorityInv /\ LogChains /\ JobsAreCommitted /\ OutboxCoversCurrent
      /\ IngestNamesRequests /\ SourcesInv /\ LegacyOnce
      /\ WritesOnRecord /\ ReceiptsOnRecord
  BY HistoryParts
<1>2. AuthorityInv' /\ LogChains' /\ JobsAreCommitted' /\ OutboxCoversCurrent'
  BY <1>1, ReplaceInv, ReplaceChains, ReplaceJobs
<1>3. IngestNamesRequests' /\ SourcesInv'
  BY <1>1, ReplaceSourced
<1>4. /\ DOMAIN versions' = DOMAIN versions \cup {key}
      /\ \A k \in DOMAIN versions : k \in DOMAIN versions' /\ versions'[k] = versions[k]
      /\ versions'[key] = Version(r.content, r.sensitivity, Lineage(r),
                                  <<ReplaceSource(r)>>)
      /\ \A g \in DOMAIN gov : g \in DOMAIN gov' /\ gov'[g] = gov[g]
  <2>1. \A g \in DOMAIN gov : g \in DOMAIN gov' /\ gov'[g] = gov[g]
    BY <1>1, ReplaceStep, LogGrows
  <2> QED BY <1>1, <2>1, ReplaceStep
<1>5. versions'[key].sources = <<ReplaceSource(r)>>
  BY <1>4 DEF Version
<1>6. /\ ReplaceId(r) \notin DOMAIN ingest
      /\ \A id \in DOMAIN ingest : id \in DOMAIN ingest' /\ ingest'[id] = ingest[id]
      /\ ReplaceAdmitted(r)
      /\ \A q \in DOMAIN answered' :
           q # r => q \in DOMAIN answered /\ answered'[q] = answered[q]
  BY DEF Replace, Put
<1> HIDE DEF key
<1>7. LegacyOnce'
  <2>1. \A record \in LegacyRecords : versions'[key].sources # <<record>>
    <3>1. \A record \in LegacyRecords : ReplaceSource(r) # record
      BY <1>6, ReplaceCovers
    <3>2. ASSUME NEW record, <<ReplaceSource(r)>> = <<record>>
          PROVE  ReplaceSource(r) = record
      BY <3>2
    <3> QED BY <1>5, <3>1, <3>2
  <2> QED BY <1>1, <1>4, <2>1, EventsAreNotLegacy
<1>8. WritesOnRecord'
  <2>1. ReplaceSource(r) \notin DOMAIN ingest
    <3>1. DOMAIN ingest \subseteq AssertedEvents
      BY <1>1 DEF AuthorityInv, TypeOK
    <3>2. ~Derived(r) => ReplaceSource(r) = ReplaceId(r)
      BY DEF ReplaceSource
    <3> QED BY <1>6, <3>1, <3>2, ReplaceCovers
  <2>2. \A k \in DOMAIN versions' :
           \/ k \in DOMAIN versions
           \/ \A i \in DOMAIN versions'[k].sources :
                versions'[k].sources[i] \notin DOMAIN ingest
    <3>1. \A i \in DOMAIN <<ReplaceSource(r)>> :
            <<ReplaceSource(r)>>[i] \notin DOMAIN ingest
      BY <2>1
    <3> QED BY <1>4, <1>5, <3>1
  <2>3. \A q \in WriteRequests : q \in DOMAIN answered' =>
          q \in DOMAIN answered /\ answered'[q] = answered[q]
    BY <1>6, RequestKinds
  <2> QED BY <1>1, <1>4, <1>6, <2>2, <2>3, OthersKeepRecords DEF AuthorityInv
<1>9. ReceiptsOnRecord'
  <2>1. \A q \in LifecycleRequests : q \in DOMAIN answered' =>
          q \in DOMAIN answered /\ answered'[q] = answered[q]
    BY <1>6, RequestKinds
  <2> QED BY <1>1, <1>4, <2>1, ReceiptsKept DEF Replace
<1> QED BY <1>2, <1>3, <1>7, <1>8, <1>9 DEF HistoryInv, SourcesInv

\* MemoryTransitionService.retire and expire.
LEMMA LifecycleHistory ==
  ASSUME HistoryInv, NEW r \in LifecycleRequests, Lifecycle(r)
  PROVE  HistoryInv'
<1>1. /\ AuthorityInv /\ LogChains /\ JobsAreCommitted /\ OutboxCoversCurrent
      /\ IngestNamesRequests /\ SourcesInv /\ LegacyOnce
      /\ WritesOnRecord /\ ReceiptsOnRecord
  BY HistoryParts
<1>2. AuthorityInv' /\ LogChains' /\ JobsAreCommitted' /\ OutboxCoversCurrent'
  BY <1>1, LifecycleInv, LifecycleChains, LifecycleJobs
<1>3. versions' = versions /\ ingest' = ingest
  BY DEF Lifecycle
<1>4. IngestNamesRequests' /\ LegacyOnce'
  BY <1>1, <1>3 DEF IngestNamesRequests, LegacyOnce
<1>5. SourcesInv'
  BY <1>1, <1>3, SourcesGrow DEF AuthorityInv
<1>6. \A q \in DOMAIN answered' :
        q # r => q \in DOMAIN answered /\ answered'[q] = answered[q]
  BY DEF Lifecycle, Put
<1>7. \A g \in DOMAIN gov : g \in DOMAIN gov' /\ gov'[g] = gov[g]
  BY <1>1, LifecycleStep, LogGrows
<1>8. WritesOnRecord'
  <2>1. \A q \in WriteRequests : q \in DOMAIN answered' =>
          q \in DOMAIN answered /\ answered'[q] = answered[q]
    BY <1>6, RequestKinds
  <2> QED BY <1>1, <1>3, <1>7, <2>1, OthersKeepRecords DEF AuthorityInv
<1>9. ReceiptsOnRecord'
  BY <1>1, LifecycleReceipts
<1> QED BY <1>2, <1>4, <1>5, <1>8, <1>9 DEF HistoryInv, SourcesInv

\* LegacyMemoryPromotionService.promote.
LEMMA PromoteHistory ==
  ASSUME HistoryInv, NEW batch \in PromotionBatches, Promote(batch)
  PROVE  HistoryInv'
<1>1. /\ AuthorityInv /\ LogChains /\ JobsAreCommitted /\ OutboxCoversCurrent
      /\ IngestNamesRequests /\ SourcesInv /\ LegacyOnce
      /\ WritesOnRecord /\ ReceiptsOnRecord
  BY HistoryParts
<1>2. AuthorityInv' /\ LogChains' /\ JobsAreCommitted' /\ OutboxCoversCurrent'
  BY <1>1, PromoteInv, PromoteChains, PromoteJobs
<1>3. SourcesInv' /\ LegacyOnce'
  BY <1>1, PromoteSourced, PromoteOnce
<1>4. receipts' = receipts /\ ingest' = ingest /\ answered' = answered
  BY DEF Promote
<1>5. IngestNamesRequests'
  BY <1>1, <1>4 DEF IngestNamesRequests
<1>6. PICK n, record, claim : PromotedRows(n, record, claim)
  BY <1>1, PromoteStep
<1>7. /\ \A k \in DOMAIN versions : k \in DOMAIN versions' /\ versions'[k] = versions[k]
      /\ DOMAIN versions' = DOMAIN versions \cup {<<claim[i], 1>> : i \in 1..n}
      /\ \A g \in DOMAIN gov : g \in DOMAIN gov' /\ gov'[g] = gov[g]
      /\ record \in [1..n -> LegacyRecords]
      /\ n \in Nat
  BY <1>6 DEF PromotedRows
<1>8. ASSUME NEW i \in 1..n
      PROVE  versions'[<<claim[i], 1>>].sources = <<record[i]>>
  <2>1. versions'[<<claim[i], 1>>] =
          Version(LegacyInfo[record[i]].content, LegacyInfo[record[i]].sensitivity,
                  "legacy_governed", <<record[i]>>)
    BY <1>6 DEF PromotedRows
  <2> QED BY <2>1 DEF Version
<1>9. WritesOnRecord'
  <2>1. \A i \in 1..n : record[i] \notin DOMAIN ingest
    BY <1>1, <1>7, SourcesAssumption DEF AuthorityInv, TypeOK
  <2>2. \A i \in 1..n : \A j \in DOMAIN <<record[i]>> :
          <<record[i]>>[j] \notin DOMAIN ingest
    BY <2>1
  <2>3. \A k \in DOMAIN versions' :
           \/ k \in DOMAIN versions
           \/ \A i \in DOMAIN versions'[k].sources :
                versions'[k].sources[i] \notin DOMAIN ingest
    BY <1>7, <1>8, <2>2
  <2> QED BY <1>1, <1>4, <1>7, <2>3, OthersKeepRecords DEF AuthorityInv
<1>10. ReceiptsOnRecord'
  BY <1>1, <1>4, <1>7, ReceiptsKept
<1> QED BY <1>2, <1>3, <1>5, <1>9, <1>10 DEF HistoryInv, SourcesInv

\* The sources may be edited or withdrawn: what was recorded of them stays.
LEMMA SourceHistory ==
  ASSUME HistoryInv, AuthorityInv',
         UNCHANGED <<versions, gov, current, receipts, ingest, outbox, answered>>
  PROVE  HistoryInv'
<1>1. /\ LogChains /\ JobsAreCommitted /\ OutboxCoversCurrent
      /\ IngestNamesRequests /\ SourcesInv /\ LegacyOnce
      /\ WritesOnRecord /\ ReceiptsOnRecord /\ AuthorityInv
  BY HistoryParts
<1>2. LogChains' /\ LegacyOnce' /\ IngestNamesRequests'
  BY <1>1 DEF LogChains, LegacyOnce, IngestNamesRequests
<1>3. JobsAreCommitted' /\ OutboxCoversCurrent'
  BY <1>1 DEF JobsAreCommitted, OutboxCoversCurrent
<1>4. SourcesInv'
  BY <1>1, SourcesGrow DEF AuthorityInv
<1>5. WritesOnRecord' /\ ReceiptsOnRecord'
  BY <1>1, OthersKeepRecords, ReceiptsKept DEF AuthorityInv
<1> QED BY <1>2, <1>3, <1>4, <1>5 DEF HistoryInv, SourcesInv

\* Every call of every service preserves what the services keep.
LEMMA NextHistory ==
  ASSUME HistoryInv, [AuthorityNext]_authorityVars
  PROVE  HistoryInv'
<1>1. CASE \E r \in WriteRequests : Write(r)
  BY <1>1, WriteHistory
<1>2. CASE \E r \in ReplaceRequests : Replace(r)
  BY <1>2, ReplaceHistory
<1>3. CASE \E r \in LifecycleRequests : Lifecycle(r)
  BY <1>3, LifecycleHistory
<1>4. CASE \E b \in PromotionBatches : Promote(b)
  BY <1>4, PromoteHistory
<1>5. CASE \/ \E e \in UserEvents : SyncEvent(e)
           \/ \E record \in LegacyRecords : WithdrawLegacy(record)
           \/ UNCHANGED authorityVars
  <2>1. UNCHANGED <<versions, gov, current, receipts, ingest, outbox, answered>>
    BY <1>5 DEF SyncEvent, WithdrawLegacy, authorityVars, tables
  <2>2. AuthorityInv'
    BY NextInv DEF HistoryInv
  <2> QED BY <2>1, <2>2, SourceHistory
<1> QED BY <1>1, <1>2, <1>3, <1>4, <1>5 DEF AuthorityNext

\* The empty database satisfies it.
LEMMA InitHistory ==
  ASSUME Init
  PROVE  HistoryInv
<1>1. /\ DOMAIN versions = {} /\ DOMAIN current = {} /\ DOMAIN receipts = {}
      /\ DOMAIN ingest = {} /\ DOMAIN outbox = {} /\ DOMAIN answered = {}
      /\ DOMAIN gov = {}
  BY DEF Init, Empty
<1>2. AuthorityInv
  BY InitInv
<1> QED BY <1>1, <1>2
        DEF HistoryInv, LogChains, JobsAreCommitted, OutboxCoversCurrent,
            IngestNamesRequests, AssertionsAreIngested, LegacyStandsAlone,
            LegacyOnce, SensitivityCoversSources, WritesOnRecord, ReceiptsOnRecord

-----------------------------------------------------------------------------
(* The theorems. *)

\* Whatever the services are called with, the log, the sources, the jobs and
\* the answers agree in every reachable state.
THEOREM HistoryInvariant == Spec => []HistoryInv
  BY InitHistory, NextHistory, PTL DEF Spec

\* The log of every claim version is a path of the lifecycle graph.
THEOREM LogIsPath == Spec => []LogChains
<1>1. HistoryInv => LogChains
  BY DEF HistoryInv
<1> QED BY <1>1, HistoryInvariant, PTL

\* Every current version has its projection jobs, committed to its content.
THEOREM ChangeHasJobs == Spec => []OutboxCoversCurrent
<1>1. HistoryInv => OutboxCoversCurrent
  BY DEF HistoryInv
<1> QED BY <1>1, HistoryInvariant, PTL

\* No version is less sensitive than a source it rests on.
THEOREM SensitivityInherited == Spec => []SensitivityCoversSources
<1>1. HistoryInv => SensitivityCoversSources
  BY DEF HistoryInv
<1> QED BY <1>1, HistoryInvariant, PTL

\* A retire or expire that committed is answered the same ever after.
LEMMA ReceiptAnswers ==
  ASSUME ReceiptsOnRecord
  PROVE  LifecycleReplayStable
<1> SUFFICES ASSUME NEW r \in LifecycleRequests, r \in DOMAIN answered
             PROVE  LifecycleReply(r) = answered[r]
  BY DEF LifecycleReplayStable
<1>1. /\ r.idem \in DOMAIN receipts /\ receipts[r.idem].request = r
      /\ answered[r] = Receipt(TRUE, gov[receipts[r.idem].gid].new, r.claim,
                               receipts[r.idem].version, receipts[r.idem].gid)
  BY DEF ReceiptsOnRecord
<1> QED BY <1>1 DEF LifecycleReply

\* A write that committed is answered with its claim ever after.
LEMMA RecordAnswers ==
  ASSUME AuthorityInv, WritesOnRecord
  PROVE  WriteReplayFindsClaim
<1> SUFFICES ASSUME NEW r \in WriteRequests, r \in DOMAIN answered
             PROVE  /\ WriteReply(r).ok
                    /\ WriteReply(r).claim = answered[r].claim
                    /\ ~Derived(r) => WriteReply(r).version = answered[r].version
  BY DEF WriteReplayFindsClaim
<1>1. Recorded(r)
  BY DEF WritesOnRecord, Recorded
<1>2. CASE ~Derived(r)
  <2> DEFINE backed == EventsBackedBy(WriteId(r))
             g      == Latest(backed)
  <2>1. Len(gov) \in Nat /\ DOMAIN gov = 1..Len(gov)
    BY DEF AuthorityInv, TypeOK
  <2>2. backed \in SUBSET (1..Len(gov)) /\ backed # {}
    BY <1>1, <1>2, <2>1 DEF Recorded, EventsBackedBy
  <2> HIDE DEF backed
  <2>3. g \in backed
    BY <2>1, <2>2, LatestIsLast
  <2> HIDE DEF g
  <2>4. /\ <<gov[g].claim, gov[g].version>> \in DOMAIN versions
        /\ \E i \in DOMAIN versions[<<gov[g].claim, gov[g].version>>].sources :
             versions[<<gov[g].claim, gov[g].version>>].sources[i] = WriteId(r)
    BY <2>3 DEF backed, EventsBackedBy, AuthorityInv, EveryEventVersioned
  <2>5. <<gov[g].claim, gov[g].version>> = <<r.claim, 1>>
    BY <1>1, <1>2, <2>4 DEF Recorded
  <2>6. gov[g].claim = r.claim /\ gov[g].version = 1
    BY <2>5
  <2>7. WriteReply(r) = GovReceipt(g, gov[g].claim)
    BY <1>1, <1>2 DEF Recorded, WriteReply, g, backed
  <2> QED BY <1>1, <2>6, <2>7 DEF GovReceipt, Receipt, Recorded
<1>3. CASE Derived(r)
  <2>1. WriteId(r) \notin DOMAIN ingest
    <3>1. WriteId(r) \notin AssertedEvents
      BY <1>3 DEF WriteId, AssertedEvents
    <3> QED BY <3>1 DEF AuthorityInv, TypeOK
  <2>2. WriteReply(r) = GovReceipt(Latest(LastVersionEvents(r.claim)), r.claim)
    BY <1>1, <1>3, <2>1 DEF Recorded, WriteReply
  <2> QED BY <1>1, <1>3, <2>2 DEF GovReceipt, Receipt, Recorded
<1> QED BY <1>2, <1>3

\* A call that is repeated, at any later time, finds what it did, and a legacy
\* record is promoted once.
THEOREM Repeatable == Spec => []RepetitionsSafe
<1>1. HistoryInv => RepetitionsSafe
  BY ReceiptAnswers, RecordAnswers DEF HistoryInv, RepetitionsSafe
<1> QED BY <1>1, HistoryInvariant, PTL
=============================================================================

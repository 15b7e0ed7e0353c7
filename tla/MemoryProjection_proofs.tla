------------------------ MODULE MemoryProjection_proofs ------------------------
(***************************************************************************)
(* Proofs about the projectors, for any processes, roots, workers and      *)
(* requests, and any number of crashes, stalls, I/O errors and rebuilds.   *)
(***************************************************************************)
EXTENDS MemoryProjection, MemoryAuthority_proofs

\* What the projectors leave intact of the authority's invariant: a rebuild
\* deletes the jobs of claims out of force, the rest of it stays.
AuthorityKept ==
  AuthorityInv /\ JobsAreCommitted /\ IngestNamesRequests /\ SourcesInv

-----------------------------------------------------------------------------
(* The statements on one job row. *)

\* The row a statement leaves is a row of the same job.
SameJob(job, row) ==
  /\ row \in JobRow
  /\ row.id = job.id /\ row.authority = job.authority /\ row.hash = job.hash
  /\ job.attempt <= row.attempt

\* What each statement of the store makes of a row, for any row.
LEMMA RowStatements ==
  ASSUME NEW job \in JobRow
  PROVE  /\ \A worker \in Workers :
              /\ SameJob(job, Claimed(job, worker))
              /\ Claimed(job, worker).status = "processing"
              /\ Claimed(job, worker).attempt = job.attempt + 1
         /\ SameJob(job, Acked(job)) /\ Acked(job).status = "applied"
         /\ SameJob(job, Failed(job))
         /\ Failed(job).status \in {"dead_letter", "pending"}
         /\ SameJob(job, Obsoleted(job)) /\ Obsoleted(job).status = "obsolete"
         /\ SameJob(job, [job EXCEPT !.lease = "expired"])
         /\ [job EXCEPT !.lease = "expired"].status = job.status
         /\ SameJob(job, [job EXCEPT !.waiting = FALSE])
         /\ [job EXCEPT !.waiting = FALSE].status = job.status
<1>1. job.attempt \in Nat
  BY DEF JobRow
<1>2. ASSUME NEW row \in JobRow, row.id = job.id, row.authority = job.authority,
             row.hash = job.hash, row.attempt \in {job.attempt, job.attempt + 1}
      PROVE  SameJob(job, row)
  BY <1>1, <1>2 DEF SameJob
<1>3. ASSUME NEW worker \in Workers
      PROVE  /\ SameJob(job, Claimed(job, worker))
             /\ Claimed(job, worker).status = "processing"
             /\ Claimed(job, worker).attempt = job.attempt + 1
  <2> DEFINE row == Claimed(job, worker)
  <2>1. row \in JobRow
    <3>1. \A n \in Nat : [job EXCEPT !.status = "processing", !.owner = worker,
                                    !.lease = "live", !.attempt = n] \in JobRow
      BY DEF JobRow, Statuses
    <3>2. row = [job EXCEPT !.status = "processing", !.owner = worker,
                            !.lease = "live", !.attempt = job.attempt + 1]
      BY DEF Claimed, JobRow
    <3>3. job.attempt + 1 \in Nat
      BY <1>1
    <3> QED BY <3>1, <3>2, <3>3, Zenon
  <2>2. /\ row.id = job.id /\ row.authority = job.authority /\ row.hash = job.hash
        /\ row.attempt = job.attempt + 1 /\ row.status = "processing"
    BY DEF Claimed, JobRow
  <2> HIDE DEF row
  <2> QED BY <1>2, <2>1, <2>2 DEF row
<1>4. SameJob(job, Acked(job)) /\ Acked(job).status = "applied"
  <2> DEFINE row == Acked(job)
  <2>1. row \in JobRow
    BY DEF Acked, JobRow, Statuses
  <2>2. /\ row.id = job.id /\ row.authority = job.authority /\ row.hash = job.hash
        /\ row.attempt = job.attempt /\ row.status = "applied"
    BY DEF Acked, JobRow
  <2> HIDE DEF row
  <2> QED BY <1>2, <2>1, <2>2 DEF row
<1>5. SameJob(job, Failed(job)) /\ Failed(job).status \in {"dead_letter", "pending"}
  <2> DEFINE row == Failed(job)
  <2>1. row \in JobRow
    BY DEF Failed, JobRow, Statuses
  <2>2. /\ row.id = job.id /\ row.authority = job.authority /\ row.hash = job.hash
        /\ row.attempt = job.attempt /\ row.status \in {"dead_letter", "pending"}
    BY DEF Failed, JobRow
  <2> HIDE DEF row
  <2> QED BY <1>2, <2>1, <2>2 DEF row
<1>6. SameJob(job, Obsoleted(job)) /\ Obsoleted(job).status = "obsolete"
  <2> DEFINE row == Obsoleted(job)
  <2>1. row \in JobRow
    BY DEF Obsoleted, JobRow, Statuses
  <2>2. /\ row.id = job.id /\ row.authority = job.authority /\ row.hash = job.hash
        /\ row.attempt = job.attempt /\ row.status = "obsolete"
    BY DEF Obsoleted, JobRow
  <2> HIDE DEF row
  <2> QED BY <1>2, <2>1, <2>2 DEF row
<1>7. /\ SameJob(job, [job EXCEPT !.lease = "expired"])
      /\ [job EXCEPT !.lease = "expired"].status = job.status
  <2> DEFINE row == [job EXCEPT !.lease = "expired"]
  <2>1. row \in JobRow
    BY DEF JobRow
  <2>2. /\ row.id = job.id /\ row.authority = job.authority /\ row.hash = job.hash
        /\ row.attempt = job.attempt /\ row.status = job.status
    BY DEF JobRow
  <2> HIDE DEF row
  <2> QED BY <1>2, <2>1, <2>2 DEF row
<1>8. /\ SameJob(job, [job EXCEPT !.waiting = FALSE])
      /\ [job EXCEPT !.waiting = FALSE].status = job.status
  <2> DEFINE row == [job EXCEPT !.waiting = FALSE]
  <2>1. row \in JobRow
    BY DEF JobRow
  <2>2. /\ row.id = job.id /\ row.authority = job.authority /\ row.hash = job.hash
        /\ row.attempt = job.attempt /\ row.status = job.status
    BY DEF JobRow
  <2> HIDE DEF row
  <2> QED BY <1>2, <2>1, <2>2 DEF row
<1> QED BY <1>3, <1>4, <1>5, <1>6, <1>7, <1>8

\* A step that deletes no job, inserts none, and gives up only stale ones.
Tame ==
  /\ DOMAIN outbox' = DOMAIN outbox /\ outboxSeq' = outboxSeq
  /\ outbox' \in [DOMAIN outbox' -> JobRow]
  /\ \A key \in DOMAIN outbox :
       /\ SameJob(outbox[key], outbox'[key])
       /\ outbox'[key].status = "obsolete" =>
            outbox[key].status = "obsolete" \/ key[3] < current[key[2]].version

\* A step that leaves the outbox alone is one.
LEMMA UnchangedIsTame ==
  ASSUME TypeOK, UNCHANGED <<outbox, outboxSeq>>
  PROVE  Tame
<1>1. \A key \in DOMAIN outbox : outbox[key] \in JobRow /\ outbox[key].attempt \in Nat
  BY DEF TypeOK, JobRow
<1> QED BY <1>1 DEF Tame, SameJob, TypeOK

\* So is one that updates the row of a job.
LEMMA UpdateIsTame ==
  ASSUME TypeOK, NEW key \in DOMAIN outbox, NEW row, SameJob(outbox[key], row),
         row.status = "obsolete" =>
           outbox[key].status = "obsolete" \/ key[3] < current[key[2]].version,
         outbox' = [outbox EXCEPT ![key] = row], outboxSeq' = outboxSeq
  PROVE  Tame
<1>1. \A k \in DOMAIN outbox : outbox[k] \in JobRow /\ outbox[k].attempt \in Nat
  BY DEF TypeOK, JobRow
<1>2. \A k \in DOMAIN outbox : SameJob(outbox[k], outbox[k])
  BY <1>1 DEF SameJob
<1>3. row \in JobRow
  BY DEF SameJob
<1>4. /\ DOMAIN outbox' = DOMAIN outbox
      /\ outbox'[key] = row
      /\ \A k \in DOMAIN outbox : k # key => outbox'[k] = outbox[k]
  OBVIOUS
<1>5. outbox' \in [DOMAIN outbox' -> JobRow]
  BY <1>1, <1>3
<1> QED BY <1>2, <1>4, <1>5 DEF Tame

\* The job of a finished attempt is settled when the attempt is owned.
LEMMA SettleIsTame ==
  ASSUME TypeOK, NEW p \in Procs, NEW row,
         Owns(p) => /\ SameJob(outbox[proc[p].job.key], row)
                    /\ row.status = "obsolete" =>
                         JobVersion(p) < current[JobClaim(p)].version,
         Settle(p, row), outboxSeq' = outboxSeq
  PROVE  Tame
<1>1. CASE Owns(p)
  <2>1. proc[p].job.key \in DOMAIN outbox
    BY <1>1 DEF Owns, OwnsAttempt
  <2> QED BY <1>1, <2>1, UpdateIsTame DEF Settle, JobVersion, JobClaim
<1>2. CASE ~Owns(p)
  BY <1>2, UnchangedIsTame DEF Settle
<1> QED BY <1>1, <1>2

-----------------------------------------------------------------------------
(* The authority's invariant under the projectors. *)

\* A step that changes no table but the outbox and the guards, and inserts only
\* committed jobs.
LEMMA OutboxStep ==
  ASSUME AuthorityKept, UNCHANGED claimVars,
         DOMAIN outbox' \subseteq JobKeys, outbox' \in [DOMAIN outbox' -> JobRow],
         outboxSeq' \in Nat,
         \A key \in DOMAIN outbox' :
           \/ /\ key \in DOMAIN outbox
              /\ outbox'[key].hash = outbox[key].hash
              /\ outbox'[key].authority = outbox[key].authority
           \/ Committed(key)'
  PROVE  AuthorityKept'
<1>1. UNCHANGED <<versions, gov, current, receipts, ingest, eventGov, legacy, answered>>
  BY DEF claimVars
<1>2. TypeOK'
  BY <1>1 DEF AuthorityKept, AuthorityInv, TypeOK
<1>3. AuthorityInv'
  BY <1>1, <1>2, ClaimsUnchangedInv DEF AuthorityKept
<1>4. JobsAreCommitted'
  BY <1>1, JobsKept DEF AuthorityKept
<1>5. IngestNamesRequests' /\ SourcesInv'
  <2>1. IngestNamesRequests'
    BY <1>1 DEF AuthorityKept, IngestNamesRequests
  <2>2. SourcesInv'
    BY <1>1, SourcesGrow DEF AuthorityKept, AuthorityInv
  <2> QED BY <2>1, <2>2
<1> QED BY <1>3, <1>4, <1>5 DEF AuthorityKept

\* A tame step is one of these.
LEMMA TameKeeps ==
  ASSUME AuthorityKept, UNCHANGED claimVars, Tame
  PROVE  AuthorityKept'
<1>1. /\ DOMAIN outbox \subseteq JobKeys /\ outboxSeq \in Nat
  BY DEF AuthorityKept, AuthorityInv, TypeOK
<1>2. /\ DOMAIN outbox' \subseteq JobKeys /\ outbox' \in [DOMAIN outbox' -> JobRow]
      /\ outboxSeq' \in Nat
  BY <1>1 DEF Tame
<1>3. \A key \in DOMAIN outbox' :
           /\ key \in DOMAIN outbox
           /\ outbox'[key].hash = outbox[key].hash
           /\ outbox'[key].authority = outbox[key].authority
  BY DEF Tame, SameJob
<1> QED BY <1>2, <1>3, OutboxStep

-----------------------------------------------------------------------------
(* The job rows of a rebuild. *)

\* Elements of a finite set, numbered by a key that tells them apart, get
\* different numbers from one on.
LEMMA Numbered ==
  ASSUME NEW S, IsFiniteSet(S), NEW f, \A c \in S : f[c] \in Nat,
         \A c, d \in S : f[c] = f[d] => c = d
  PROVE  LET nth(c) == Cardinality({d \in S : f[d] <= f[c]})
         IN  /\ \A c \in S : nth(c) \in 1..Cardinality(S)
             /\ \A c, d \in S : nth(c) = nth(d) => c = d
<1> DEFINE upto(c) == {d \in S : f[d] <= f[c]}
<1>1. ASSUME NEW c \in S
      PROVE  /\ IsFiniteSet(upto(c)) /\ Cardinality(upto(c)) \in Nat
             /\ Cardinality(upto(c)) <= Cardinality(S)
             /\ Cardinality(upto(c)) # 0
  <2>1. upto(c) \in SUBSET S /\ c \in upto(c)
    OBVIOUS
  <2> HIDE DEF upto
  <2>2. IsFiniteSet(upto(c)) /\ Cardinality(upto(c)) <= Cardinality(S)
    BY <2>1, FS_Subset
  <2>3. Cardinality(upto(c)) \in Nat
    BY <2>2, FS_CardinalityType
  <2>4. Cardinality(upto(c)) # 0
    BY <2>1, <2>2, FS_EmptySet
  <2> QED BY <2>2, <2>3, <2>4
<1>2. Cardinality(S) \in Nat
  BY FS_CardinalityType
<1>3. ASSUME NEW c \in S, NEW d \in S, f[c] < f[d]
      PROVE  Cardinality(upto(c)) # Cardinality(upto(d))
  <2>1. upto(c) \in SUBSET upto(d)
    <3> SUFFICES ASSUME NEW e \in S, f[e] <= f[c] PROVE f[e] <= f[d]
      OBVIOUS
    <3> QED BY <1>3
  <2>2. d \in upto(d) /\ d \notin upto(c)
    BY <1>3
  <2> HIDE DEF upto
  <2>3. upto(d) # upto(c)
    BY <2>2
  <2> QED BY <1>1, <2>1, <2>3, FS_Subset
<1>4. \A c, d \in S : Cardinality(upto(c)) = Cardinality(upto(d)) => c = d
  <2> HIDE DEF upto
  <2> SUFFICES ASSUME NEW c \in S, NEW d \in S,
                      Cardinality(upto(c)) = Cardinality(upto(d)), c # d
               PROVE  FALSE
    OBVIOUS
  <2>1. f[c] < f[d] \/ f[d] < f[c]
    <3>1. f[c] # f[d] /\ f[c] \in Nat /\ f[d] \in Nat
      OBVIOUS
    <3> QED BY <3>1
  <2> QED BY <1>3, <2>1
<1>5. \A c \in S : Cardinality(upto(c)) \in 1..Cardinality(S)
  BY <1>1, <1>2
<1> QED BY <1>4, <1>5

\* Claims have first events of their own.
LEMMA FirstEvents ==
  ASSUME AuthorityInv
  PROVE  /\ \A c \in DOMAIN current : /\ FirstEvent(c) \in DOMAIN gov
                                      /\ FirstEvent(c) \in Nat
                                      /\ gov[FirstEvent(c)].claim = c
<1>1. DOMAIN gov = 1..Len(gov) /\ Len(gov) \in Nat
  BY DEF AuthorityInv, TypeOK
<1> SUFFICES ASSUME NEW c \in DOMAIN current
             PROVE  /\ FirstEvent(c) \in DOMAIN gov /\ FirstEvent(c) \in Nat
                    /\ gov[FirstEvent(c)].claim = c
  OBVIOUS
<1> DEFINE events == {g \in DOMAIN gov : gov[g].claim = c}
<1>2. current[c].gid \in events
  BY DEF AuthorityInv, CurrentIsLogTip
<1>3. events \in SUBSET Nat
  BY <1>1
<1>4. \E g \in events : \A h \in events : g <= h
  <2> HIDE DEF events
  <2> QED BY <1>2, <1>3, LeastExists
<1>5. \E g \in DOMAIN gov : /\ gov[g].claim = c
                            /\ \A h \in DOMAIN gov : gov[h].claim = c => g <= h
  BY <1>4
<1>6. FirstEvent(c) \in DOMAIN gov /\ gov[FirstEvent(c)].claim = c
  BY <1>5 DEF FirstEvent
<1> QED BY <1>1, <1>6

\* There are finitely many claims in force: each has a first event.
LEMMA InForceFinite ==
  ASSUME AuthorityInv
  PROVE  IsFiniteSet(InForce)
<1> DEFINE f == [c \in InForce |-> FirstEvent(c)]
<1>1. DOMAIN gov = 1..Len(gov) /\ Len(gov) \in Nat
  BY DEF AuthorityInv, TypeOK
<1>2. \A c \in InForce : c \in DOMAIN current
  BY DEF InForce
<1>3. f \in [InForce -> DOMAIN gov]
  BY <1>2, FirstEvents
<1>4. \A c, d \in InForce : f[c] = f[d] => c = d
  BY <1>2, FirstEvents
<1>5. IsFiniteSet(DOMAIN gov)
  BY <1>1, FS_Interval
<1> HIDE DEF f
<1>6. f \in Injection(InForce, DOMAIN gov)
  BY <1>3, <1>4 DEF Injection, IsInjective
<1> QED BY <1>5, <1>6, FS_Injection

\* A rebuild numbers the claims in force from one on.
LEMMA RebuildNumbers ==
  ASSUME AuthorityInv
  PROVE  /\ Cardinality(InForce) \in Nat
         /\ \A c \in InForce : Nth(c) \in 1..Cardinality(InForce)
         /\ \A c, d \in InForce : Nth(c) = Nth(d) => c = d
<1> DEFINE f == [c \in InForce |-> FirstEvent(c)]
<1>1. \A c \in InForce : c \in DOMAIN current
  BY DEF InForce
<1>2. /\ \A c \in InForce : f[c] \in Nat
      /\ \A c, d \in InForce : f[c] = f[d] => c = d
  BY <1>1, FirstEvents
<1>3. IsFiniteSet(InForce)
  BY InForceFinite
<1>4. \A c \in InForce : Nth(c) = Cardinality({d \in InForce : f[d] <= f[c]})
  <2> SUFFICES ASSUME NEW c \in InForce
               PROVE  {d \in InForce : FirstEvent(d) <= FirstEvent(c)} =
                        {d \in InForce : f[d] <= f[c]}
    BY DEF Nth
  <2> QED OBVIOUS
<1> HIDE DEF f
<1>5. /\ \A c \in InForce :
           Cardinality({d \in InForce : f[d] <= f[c]}) \in 1..Cardinality(InForce)
      /\ \A c, e \in InForce :
           Cardinality({d \in InForce : f[d] <= f[c]}) =
             Cardinality({d \in InForce : f[d] <= f[e]}) => c = e
  BY <1>2, <1>3, Numbered
<1>6. Cardinality(InForce) \in Nat
  BY <1>3, FS_CardinalityType
<1> QED BY <1>4, <1>5, <1>6

\* The rows a rebuild leaves: new, open and committed to the versions in force.
LEMMA RebuildRows ==
  ASSUME AuthorityKept, NEW p \in Procs, Rebuild(p)
  PROVE  /\ DOMAIN outbox' \subseteq JobKeys
         /\ outbox' \in [DOMAIN outbox' -> JobRow]
         /\ outboxSeq' \in Nat /\ outboxSeq <= outboxSeq'
         /\ \A key \in DOMAIN outbox' :
              /\ outbox'[key].status = "pending"
              /\ outboxSeq < outbox'[key].id /\ outbox'[key].id <= outboxSeq'
              /\ Committed(key)'
         /\ \A j, k \in DOMAIN outbox' : outbox'[j].id = outbox'[k].id => j = k
         /\ \A c \in InForce : JobsOf(c, current[c].version) \subseteq DOMAIN outbox'
<1>0. AuthorityInv /\ TypeOK
  BY DEF AuthorityKept, AuthorityInv
<1> DEFINE row(key) == versions[<<key[2], key[3]>>]
           id(key)  == outboxSeq + 2 * (Nth(key[2]) - 1) + Slot(key[1])
           keys     == UNION {JobsOf(c, current[c].version) : c \in InForce}
<1>1. /\ outbox' = [key \in keys |-> NewJob(id(key), row(key).sources[1],
                                            row(key).content)]
      /\ outboxSeq' = outboxSeq + 2 * Cardinality(InForce)
      /\ UNCHANGED versions
  BY DEF Rebuild, RebuiltOutbox, claimVars
<1>2. ASSUME NEW key \in keys
      PROVE  /\ key \in JobKeys /\ key[1] \in Kinds
             /\ key[2] \in InForce /\ key[3] = current[key[2]].version
             /\ key = <<key[1], key[2], key[3]>>
             /\ <<key[2], key[3]>> \in DOMAIN versions
             /\ row(key).content \in Contents
             /\ 1 \in DOMAIN row(key).sources /\ row(key).sources[1] \in Sources
  <2>1. PICK c \in InForce : key \in JobsOf(c, current[c].version)
    OBVIOUS
  <2>2. PICK kind \in Kinds : key = <<kind, c, current[c].version>>
    BY <2>1 DEF JobsOf
  <2>3. c \in DOMAIN current /\ c \in Claims /\ current[c].version \in Nat \ {0}
    BY <1>0 DEF InForce, TypeOK, CurrentRow
  <2>4. <<c, current[c].version>> \in DOMAIN versions
    BY <1>0, <2>3 DEF AuthorityInv, OnlyCurrentVersionLives
  <2>5. key[1] = kind /\ key[2] = c /\ key[3] = current[c].version
    BY <2>2
  <2>6. /\ versions[<<c, current[c].version>>].content \in Contents
        /\ versions[<<c, current[c].version>>].sources \in Seq(Sources)
        /\ versions[<<c, current[c].version>>].sources # <<>>
    BY <1>0, <2>4 DEF TypeOK, VersionRow, AuthorityInv, EveryVersionSourced
  <2>7. /\ 1 \in DOMAIN versions[<<c, current[c].version>>].sources
        /\ versions[<<c, current[c].version>>].sources[1] \in Sources
    BY <2>6
  <2>8. key \in JobKeys
    BY <2>2, <2>3 DEF JobKeys
  <2> HIDE DEF keys
  <2> QED BY <2>1, <2>2, <2>4, <2>5, <2>6, <2>7, <2>8
<1>3. /\ Cardinality(InForce) \in Nat
      /\ \A c \in InForce : Nth(c) \in 1..Cardinality(InForce)
      /\ \A c, d \in InForce : Nth(c) = Nth(d) => c = d
  BY <1>0, RebuildNumbers
<1>4. outboxSeq \in Nat
  BY <1>0 DEF TypeOK
<1> HIDE DEF row, keys
<1>5. ASSUME NEW key \in keys
      PROVE  /\ id(key) \in Nat \ {0} /\ outboxSeq < id(key)
             /\ id(key) <= outboxSeq + 2 * Cardinality(InForce)
  <2>1. /\ Nth(key[2]) \in Nat /\ 1 <= Nth(key[2]) /\ Nth(key[2]) <= Cardinality(InForce)
        /\ Slot(key[1]) \in {1, 2}
    <3>1. key[2] \in InForce
      BY <1>2
    <3>2. Nth(key[2]) \in 1..Cardinality(InForce)
      BY <1>3, <3>1
    <3> QED BY <1>3, <3>2 DEF Slot
  <2> QED BY <1>3, <1>4, <2>1
<1>6. ASSUME NEW j \in keys, NEW k \in keys, id(j) = id(k)
      PROVE  j = k
  <2>1. /\ Nth(j[2]) \in Nat /\ Nth(k[2]) \in Nat
        /\ Slot(j[1]) \in {1, 2} /\ Slot(k[1]) \in {1, 2}
    <3>1. j[2] \in InForce /\ k[2] \in InForce
      BY <1>2
    <3>2. Nth(j[2]) \in 1..Cardinality(InForce) /\ Nth(k[2]) \in 1..Cardinality(InForce)
      BY <1>3, <3>1
    <3> QED BY <1>3, <3>2 DEF Slot
  <2>2. Nth(j[2]) = Nth(k[2]) /\ Slot(j[1]) = Slot(k[1])
    BY <1>4, <1>6, <2>1
  <2>3. j[2] = k[2]
    BY <1>2, <1>3, <2>2
  <2>4. j[1] = k[1]
    <3>1. j[1] \in {"memory_fts", "memory_memfs"} /\ k[1] \in {"memory_fts", "memory_memfs"}
      BY <1>2 DEF Kinds
    <3> QED BY <2>2, <3>1 DEF Slot
  <2> QED BY <1>2, <2>3, <2>4
<1> HIDE DEF id
<1>7. /\ DOMAIN outbox' = keys
      /\ \A key \in keys : outbox'[key] = NewJob(id(key), row(key).sources[1],
                                                 row(key).content)
  BY <1>1
<1>8. ASSUME NEW key \in keys
      PROVE  /\ outbox'[key] \in JobRow
             /\ outbox'[key].id = id(key)
             /\ outbox'[key].status = "pending"
             /\ outbox'[key].hash = row(key).content
             /\ outbox'[key].authority = row(key).sources[1]
  <2>1. outbox'[key] = NewJob(id(key), row(key).sources[1], row(key).content)
    BY <1>7
  <2>2. /\ id(key) \in Nat \ {0} /\ row(key).sources[1] \in Sources
        /\ row(key).content \in Contents
    BY <1>2, <1>5
  <2>3. NewJob(id(key), row(key).sources[1], row(key).content) \in JobRow
    BY <2>2 DEF NewJob, JobRow, Statuses
  <2> QED BY <2>1, <2>3 DEF NewJob
<1>9. ASSUME NEW key \in keys PROVE Committed(key)'
  <2>1. versions'[<<key[2], key[3]>>] = row(key)
    BY <1>1 DEF row
  <2> QED BY <1>1, <1>2, <1>8, <2>1 DEF Committed
<1>10. outbox' \in [DOMAIN outbox' -> JobRow]
  BY <1>1, <1>7, <1>8
<1>11. outboxSeq' \in Nat /\ outboxSeq <= outboxSeq'
  BY <1>1, <1>3, <1>4
<1>12. \A c \in InForce : JobsOf(c, current[c].version) \subseteq DOMAIN outbox'
  BY <1>7 DEF keys
<1>13. \A key \in DOMAIN outbox' :
              /\ outbox'[key].status = "pending"
              /\ outboxSeq < outbox'[key].id /\ outbox'[key].id <= outboxSeq'
              /\ Committed(key)'
  BY <1>1, <1>5, <1>7, <1>8, <1>9
<1>14. \A j, k \in DOMAIN outbox' : outbox'[j].id = outbox'[k].id => j = k
  BY <1>6, <1>7, <1>8
<1>15. DOMAIN outbox' \subseteq JobKeys
  BY <1>2, <1>7
<1> QED BY <1>10, <1>11, <1>12, <1>13, <1>14, <1>15

-----------------------------------------------------------------------------
(* What each step does to the outbox. *)

\* claim_projection_jobs finds the claimable job with the smallest id.
LEMMA NextJobFound ==
  ASSUME TypeOK, NEW kind, Claimables(kind) # {}
  PROVE  NextJob(kind) \in Claimables(kind)
<1> DEFINE ids == {outbox[key].id : key \in Claimables(kind)}
<1>1. \A key \in Claimables(kind) : outbox[key].id \in Nat
  BY DEF Claimables, TypeOK, JobRow
<1>2. ids \in SUBSET Nat /\ ids # {}
  BY <1>1
<1> HIDE DEF ids
<1>3. PICK least \in ids : \A i \in ids : least <= i
  BY <1>2, LeastExists
<1>4. PICK key \in Claimables(kind) : outbox[key].id = least
  BY <1>3 DEF ids
<1>5. \A other \in Claimables(kind) : outbox[key].id <= outbox[other].id
  BY <1>3, <1>4 DEF ids
<1> QED BY <1>4, <1>5 DEF NextJob

\* A step of a process other than a rebuild.
ProcessStep(p) ==
  Start(p) \/ Step(p) \/ FileError(p) \/ SweepFails(p) \/ Crash(p)

\* The clock.
ClockStep == ExpireDead \/ Stall \/ RetryDue

\* A process claims, settles or reads; it never inserts or deletes a job.
LEMMA ProcessIsTame ==
  ASSUME TypeOK, NEW p \in Procs, GivesUpStale(p), ProcessStep(p)
  PROVE  Tame /\ UNCHANGED claimVars
<1>0. \A key \in DOMAIN outbox : outbox[key] \in JobRow
  BY DEF TypeOK
<1>1. CASE \/ Start(p) \/ Lock(p) \/ TakeGuard(p) \/ Read(p) \/ ApplyFile(p)
           \/ Release(p) \/ RoundEnd(p) \/ Cleanup(p) \/ FileError(p)
           \/ SweepFails(p) \/ Crash(p)
  <2>1. UNCHANGED <<outbox, outboxSeq>> /\ UNCHANGED claimVars
    BY <1>1 DEF Start, Lock, TakeGuard, Read, ApplyFile, Release, RoundEnd, Cleanup,
                FileError, SweepFails, Crash, authorityVars, tables, claimVars
  <2> QED BY <2>1, UnchangedIsTame
<1>2. ASSUME NEW kind, NEW here, NEW working, NEW after, Claim(p, kind, here, working, after)
      PROVE  Tame /\ UNCHANGED claimVars
  <2>1. CASE UNCHANGED outbox
    BY <1>2, <2>1, UnchangedIsTame DEF Claim
  <2>2. CASE ~(UNCHANGED outbox)
    <3> DEFINE key == NextJob(kind)
    <3>1. /\ Claimables(kind) # {} /\ outboxSeq' = outboxSeq
          /\ outbox' = [outbox EXCEPT ![key] = Claimed(outbox[key], WorkerOf[p])]
      BY <1>2, <2>2 DEF Claim
    <3>2. key \in DOMAIN outbox
      BY <3>1, NextJobFound DEF Claimables
    <3> HIDE DEF key
    <3>3. /\ SameJob(outbox[key], Claimed(outbox[key], WorkerOf[p]))
          /\ Claimed(outbox[key], WorkerOf[p]).status = "processing"
      <4>1. WorkerOf[p] \in Workers /\ outbox[key] \in JobRow
        BY <1>0, <3>2, ProcsAssumption
      <4> QED BY <4>1, RowStatements
    <3>4. Tame
      BY <3>1, <3>2, <3>3, UpdateIsTame
    <3> QED BY <1>2, <3>4 DEF Claim
  <2> QED BY <2>1, <2>2
<1>3. CASE FtsApply(p)
  <2>1. CASE UNCHANGED outbox
    BY <1>3, <2>1, UnchangedIsTame DEF FtsApply
  <2>2. CASE ~(UNCHANGED outbox)
    <3>1. /\ Settle(p, Acked(outbox[proc[p].job.key])) /\ outboxSeq' = outboxSeq
          /\ UNCHANGED claimVars
      BY <1>3, <2>2 DEF FtsApply
    <3>2. Owns(p) => /\ SameJob(outbox[proc[p].job.key], Acked(outbox[proc[p].job.key]))
                     /\ Acked(outbox[proc[p].job.key]).status = "applied"
      BY <1>0, RowStatements DEF Owns, OwnsAttempt
    <3> QED BY <3>1, <3>2, SettleIsTame
  <2> QED BY <2>1, <2>2
<1>4. ASSUME NEW here \in {"ftsObsolete", "memfsObsolete"}, NEW next,
             MarkObsolete(p, here, next)
      PROVE  Tame /\ UNCHANGED claimVars
  <2>1. /\ Settle(p, Obsoleted(outbox[proc[p].job.key])) /\ outboxSeq' = outboxSeq
        /\ UNCHANGED claimVars /\ proc[p].pc = here
    BY <1>4 DEF MarkObsolete, At
  <2>2. JobVersion(p) < current[JobClaim(p)].version
    BY <2>1 DEF GivesUpStale
  <2>3. Owns(p) => SameJob(outbox[proc[p].job.key], Obsoleted(outbox[proc[p].job.key]))
    BY <1>0, RowStatements DEF Owns, OwnsAttempt
  <2> QED BY <2>1, <2>2, <2>3, SettleIsTame
<1>5. ASSUME NEW here, MarkFailed(p, here)
      PROVE  Tame /\ UNCHANGED claimVars
  <2>1. /\ Settle(p, Failed(outbox[proc[p].job.key])) /\ outboxSeq' = outboxSeq
        /\ UNCHANGED claimVars
    BY <1>5 DEF MarkFailed
  <2>2. Owns(p) => /\ SameJob(outbox[proc[p].job.key], Failed(outbox[proc[p].job.key]))
                   /\ Failed(outbox[proc[p].job.key]).status \in {"dead_letter", "pending"}
    BY <1>0, RowStatements DEF Owns, OwnsAttempt
  <2> QED BY <2>1, <2>2, SettleIsTame
<1>6. CASE Ack(p)
  <2>1. CASE UNCHANGED outbox
    BY <1>6, <2>1, UnchangedIsTame DEF Ack
  <2>2. CASE ~(UNCHANGED outbox)
    <3>1. /\ Settle(p, Acked(outbox[proc[p].job.key])) /\ outboxSeq' = outboxSeq
          /\ UNCHANGED claimVars
      BY <1>6, <2>2 DEF Ack
    <3>2. Owns(p) => /\ SameJob(outbox[proc[p].job.key], Acked(outbox[proc[p].job.key]))
                     /\ Acked(outbox[proc[p].job.key]).status = "applied"
      BY <1>0, RowStatements DEF Owns, OwnsAttempt
    <3> QED BY <3>1, <3>2, SettleIsTame
  <2> QED BY <2>1, <2>2
<1> QED BY <1>1, <1>2, <1>3, <1>4, <1>5, <1>6
        DEF ProcessStep, Step, ClaimFts, ClaimMemfs

\* The clock touches one row, and neither its status nor its attempt.
LEMMA ClockIsTame ==
  ASSUME TypeOK, ClockStep
  PROVE  /\ Tame /\ UNCHANGED <<claimVars, guards, proc, lock, ftsRow, files>>
         /\ \A key \in DOMAIN outbox : outbox'[key].status = outbox[key].status
         /\ \/ UNCHANGED budget
            \/ budget["stall"] < MaxStalls /\ budget' = [budget EXCEPT !["stall"] = @ + 1]
<1>0. \A key \in DOMAIN outbox : outbox[key] \in JobRow
  BY DEF TypeOK
<1>1. ASSUME NEW key \in DOMAIN outbox, NEW row, SameJob(outbox[key], row),
             row.status = outbox[key].status,
             outbox' = [outbox EXCEPT ![key] = row], outboxSeq' = outboxSeq
      PROVE  Tame /\ \A k \in DOMAIN outbox : outbox'[k].status = outbox[k].status
  BY <1>1, UpdateIsTame
<1>2. ASSUME NEW key \in DOMAIN outbox, Expire(key)
      PROVE  Tame /\ \A k \in DOMAIN outbox : outbox'[k].status = outbox[k].status
  <2> DEFINE row == [outbox[key] EXCEPT !.lease = "expired"]
  <2>1. outbox' = [outbox EXCEPT ![key] = row] /\ outboxSeq' = outboxSeq
    BY <1>2 DEF Expire
  <2>3. SameJob(outbox[key], row) /\ row.status = outbox[key].status
    BY <1>0, RowStatements
  <2> HIDE DEF row
  <2> QED BY <1>1, <2>1, <2>3
<1>3. CASE ExpireDead \/ Stall
  <2>1. PICK key \in DOMAIN outbox : Expire(key)
    BY <1>3 DEF ExpireDead, Stall
  <2> QED BY <1>2, <1>3, <2>1 DEF Expire, ExpireDead, Stall, Spend
<1>4. CASE RetryDue
  <2>1. PICK key \in DOMAIN outbox :
          /\ outbox' = [outbox EXCEPT ![key].waiting = FALSE]
          /\ UNCHANGED <<claimVars, outboxSeq, guards, projVars>>
    BY <1>4 DEF RetryDue
  <2> DEFINE row == [outbox[key] EXCEPT !.waiting = FALSE]
  <2>2. outbox' = [outbox EXCEPT ![key] = row] /\ outboxSeq' = outboxSeq
    BY <2>1
  <2>3. SameJob(outbox[key], row) /\ row.status = outbox[key].status
    BY <1>0, RowStatements
  <2> HIDE DEF row
  <2> QED BY <1>1, <2>1, <2>2, <2>3 DEF projVars
<1> QED BY <1>3, <1>4 DEF ClockStep

\* The calls of the services keep it too.
LEMMA ServicesKeep ==
  ASSUME AuthorityKept, AuthorityNext
  PROVE  AuthorityKept'
<1>0. AuthorityInv /\ JobsAreCommitted /\ IngestNamesRequests /\ SourcesInv
  BY DEF AuthorityKept
<1>1. AuthorityInv'
  BY <1>0, NextInv
<1>2. JobsAreCommitted' /\ IngestNamesRequests' /\ SourcesInv'
  <2>1. CASE \E r \in WriteRequests : Write(r)
    BY <1>0, <2>1, WriteJobs, WriteSourced
  <2>2. CASE \E r \in ReplaceRequests : Replace(r)
    BY <1>0, <2>2, ReplaceJobs, ReplaceSourced
  <2>3. CASE \E r \in LifecycleRequests : Lifecycle(r)
    <3>1. versions' = versions /\ ingest' = ingest
      BY <2>3 DEF Lifecycle
    <3>2. IngestNamesRequests' /\ SourcesInv'
      BY <1>0, <3>1, SourcesGrow DEF AuthorityInv, IngestNamesRequests
    <3> QED BY <1>0, <2>3, <3>2, LifecycleJobs
  <2>4. CASE \E b \in PromotionBatches : Promote(b)
    <3>1. IngestNamesRequests'
      BY <1>0, <2>4 DEF IngestNamesRequests, Promote
    <3> QED BY <1>0, <2>4, <3>1, PromoteJobs, PromoteSourced
  <2>5. CASE \/ \E e \in UserEvents : SyncEvent(e)
             \/ \E record \in LegacyRecords : WithdrawLegacy(record)
    <3>1. UNCHANGED <<versions, ingest, outbox>>
      BY <2>5 DEF SyncEvent, WithdrawLegacy
    <3>2. SourcesInv'
      BY <1>0, <3>1, SourcesGrow DEF AuthorityInv
    <3> QED BY <1>0, <3>1, <3>2 DEF JobsAreCommitted, IngestNamesRequests
  <2> QED BY <2>1, <2>2, <2>3, <2>4, <2>5 DEF AuthorityNext
<1> QED BY <1>1, <1>2 DEF AuthorityKept

-----------------------------------------------------------------------------
(* The processes' own rows. *)

\* What a process row is made of.
LEMMA RowFields ==
  ASSUME NEW row \in ProcRow
  PROVE  /\ row.pc \in PCs /\ row.job \in JobSnapshot \cup {NoJob}
         /\ row.snap \in AllViews /\ row.processed \in 0..MaxJobs
         /\ row.out \in {"none", "error", "obsolete", "applied", "lost"}
         /\ row.result \in {"none", "ok", "limit", "failed", "rebuilt"}
  BY DEF ProcRow

\* A process that is through, that starts, or that raised.
LEMMA IdleRow ==
  ASSUME NEW result \in {"none", "ok", "limit", "failed", "rebuilt"}
  PROVE  /\ Idle(result) \in ProcRow
         /\ Idle(result).pc = "idle" /\ Idle(result).result = result
<1>1. NoView \in AllViews /\ "idle" \in PCs /\ 0 \in 0..MaxJobs
  BY ProcsAssumption DEF AllViews, PCs
<1> QED BY <1>1 DEF Idle, ProcRow

\* A process that begins a drain, or the drain of a rebuild.
LEMMA FreshRow ==
  ASSUME NEW rebuilding \in BOOLEAN
  PROVE  /\ Fresh(rebuilding) \in ProcRow
         /\ Fresh(rebuilding).pc = "fts" /\ Fresh(rebuilding).result = "none"
<1>1. "fts" \in PCs
  BY DEF PCs
<1>2. Idle("none") \in ProcRow /\ Idle("none").result = "none"
  BY IdleRow
<1> HIDE DEF Idle
<1> QED BY <1>1, <1>2 DEF Fresh, ProcRow

\* A process that goes on with its job, perhaps with a verdict or a snapshot.
LEMMA GotoRow ==
  ASSUME NEW row \in ProcRow, NEW pc \in PCs
  PROVE  LET to == [row EXCEPT !.pc = pc]
         IN  /\ to \in ProcRow /\ to.pc = pc /\ to.job = row.job /\ to.out = row.out
             /\ to.snap = row.snap
             /\ to.result = row.result /\ to.processed = row.processed
  BY DEF ProcRow

\* A process that leaves its job, after progress or without.
LEMMA DoneRow ==
  ASSUME NEW p \in Procs, proc[p] \in ProcRow, NEW next \in PCs
  PROVE  /\ Done(p, next) \in ProcRow
         /\ Done(p, next).pc = next /\ Done(p, next).result = proc[p].result
         /\ proc[p].processed < MaxJobs =>
              /\ Applied(p, next) \in ProcRow
              /\ Applied(p, next).pc = next
              /\ Applied(p, next).result = proc[p].result
<1>1. NoView \in AllViews
  BY DEF AllViews
<1>2. /\ Done(p, next) \in ProcRow
      /\ Done(p, next).pc = next /\ Done(p, next).result = proc[p].result
      /\ Done(p, next).processed = proc[p].processed
  BY <1>1 DEF Done, ProcRow
<1>3. ASSUME proc[p].processed < MaxJobs
      PROVE  /\ Applied(p, next) \in ProcRow
             /\ Applied(p, next).pc = next
             /\ Applied(p, next).result = proc[p].result
  <2> DEFINE done == Done(p, next)
  <2>1. proc[p].processed + 1 \in 0..MaxJobs
    BY <1>3, RowFields, ProcsAssumption
  <2>2. done \in ProcRow /\ done.processed + 1 \in 0..MaxJobs
    BY <1>2, <2>1
  <2>3. Applied(p, next) = [done EXCEPT !.processed = done.processed + 1,
                                        !.progressed = TRUE]
    BY <2>2 DEF Applied, ProcRow
  <2>4. done.pc = next /\ done.result = proc[p].result
    BY <1>2
  <2> HIDE DEF done
  <2>5. \A n \in 0..MaxJobs :
          [done EXCEPT !.processed = n, !.progressed = TRUE] \in ProcRow
    BY <2>2 DEF ProcRow
  <2>6. Applied(p, next) \in ProcRow
    BY <2>2, <2>3, <2>5, Zenon
  <2>7. Applied(p, next).pc = done.pc /\ Applied(p, next).result = done.result
    BY <2>2, <2>3 DEF ProcRow
  <2> QED BY <2>4, <2>6, <2>7
<1> QED BY <1>2, <1>3

\* What a claim looks like is a view.
LEMMA ViewTyped ==
  ASSUME AuthorityInv, NEW c
  PROVE  View(c) \in AllViews
<1>1. CASE c \in DOMAIN current /\ current[c].state = "active"
  <2>1. /\ current[c] \in CurrentRow
        /\ <<c, current[c].version>> \in DOMAIN versions
    <3>1. current[c] \in CurrentRow
      BY <1>1 DEF AuthorityInv, TypeOK
    <3>2. current[c].version \in 1..current[c].version
      BY <3>1 DEF CurrentRow
    <3> QED BY <1>1, <3>1, <3>2 DEF AuthorityInv, OnlyCurrentVersionLives
  <2>2. versions[<<c, current[c].version>>].content \in Contents
    BY <2>1 DEF AuthorityInv, TypeOK, VersionRow
  <2>3. current[c].version \in Nat /\ current[c].gid \in Nat
    BY <2>1 DEF CurrentRow
  <2> QED BY <1>1, <2>2, <2>3 DEF View, AllViews
<1>2. CASE ~(c \in DOMAIN current /\ current[c].state = "active")
  BY <1>2 DEF View, AllViews
<1> QED BY <1>1, <1>2

\* The parts of a held job.
LEMMA HeldJob ==
  ASSUME NEW p \in Procs, HoldsJob(p), AtWork(p)
  PROVE  /\ proc[p].job.key \in JobKeys
         /\ JobClaim(p) \in Claims /\ JobVersion(p) \in Nat \ {0}
         /\ proc[p].job.id \in Nat \ {0} /\ proc[p].job.attempt \in Nat \ {0}
         /\ LockKey(p) \in Roots \X Claims
         /\ proc[p].job.key = <<proc[p].job.key[1], JobClaim(p), JobVersion(p)>>
<1>1. proc[p].job \in JobSnapshot
  BY DEF HoldsJob
<1>2. /\ proc[p].job.key \in JobKeys
      /\ proc[p].job.id \in Nat \ {0} /\ proc[p].job.attempt \in Nat \ {0}
  BY <1>1 DEF JobSnapshot
<1>3. /\ JobClaim(p) \in Claims /\ JobVersion(p) \in Nat \ {0}
      /\ proc[p].job.key = <<proc[p].job.key[1], JobClaim(p), JobVersion(p)>>
  BY <1>2 DEF JobKeys, JobClaim, JobVersion
<1>4. LockKey(p) \in Roots \X Claims
  BY <1>3, ProcsAssumption DEF LockKey
<1> QED BY <1>2, <1>3, <1>4

-----------------------------------------------------------------------------
(* A step of one process, seen by the others. *)

\* A tame step keeps the ids of the jobs and gives no current version up.
LEMMA TameJobs ==
  ASSUME DrainsInv, UNCHANGED claimVars, Tame
  PROVE  JobIds' /\ ObsoleteIsStale'
<1>1. JobIds'
  BY DEF DrainsInv, JobIds, Tame, SameJob
<1>2. ObsoleteIsStale'
  BY DEF DrainsInv, ObsoleteIsStale, Tame, claimVars
<1> QED BY <1>1, <1>2

\* What is said of a process that does nothing stays true when no one takes its
\* guard or its file.
LEMMA Bystander ==
  ASSUME AuthorityKept, DrainsInv, NEW q \in Procs, UNCHANGED claimVars, Tame,
         proc'[q] = proc[q],
         proc[q].pc \in GuardPlaces =>
           JobClaim(q) \in DOMAIN guards' /\ guards'[JobClaim(q)] = guards[JobClaim(q)],
         proc[q].pc = "ack" =>
           files'[RootOf[q]][JobClaim(q)] = files[RootOf[q]][JobClaim(q)]
  PROVE  HoldsJob(q)' /\ GuardHeld(q)' /\ WriterCurrent(q)' /\ GivesUpStale(q)'
<1>0. HoldsJob(q) /\ GuardHeld(q) /\ WriterCurrent(q) /\ GivesUpStale(q)
  BY DEF DrainsInv
<1>1. UNCHANGED <<versions, gov, current, legacy>>
  BY DEF claimVars
<1>2. HoldsJob(q)'
  <2>1. ASSUME AtWork(q), NEW key \in DOMAIN outbox', outbox'[key].id = proc[q].job.id
        PROVE  key = proc[q].job.key /\ proc[q].job.attempt <= outbox'[key].attempt
    <3>1. /\ key \in DOMAIN outbox /\ SameJob(outbox[key], outbox'[key])
          /\ outbox[key] \in JobRow
      BY DEF Tame, AuthorityKept, AuthorityInv, TypeOK
    <3>2. outbox[key].attempt \in Nat /\ outbox'[key].attempt \in Nat
      BY <3>1 DEF SameJob, JobRow
    <3>3. outbox[key].id = proc[q].job.id /\ outbox[key].attempt <= outbox'[key].attempt
      BY <2>1, <3>1 DEF SameJob
    <3>4. key = proc[q].job.key /\ proc[q].job.attempt <= outbox[key].attempt
      BY <1>0, <2>1, <3>1, <3>3 DEF HoldsJob
    <3>5. proc[q].job.attempt \in Nat
      BY <1>0, <2>1, HeldJob
    <3> QED BY <3>2, <3>3, <3>4, <3>5
  <2>2. outboxSeq' = outboxSeq
    BY DEF Tame
  <2> QED BY <1>0, <1>1, <2>1, <2>2 DEF HoldsJob, AtWork, JobClaim, JobVersion
<1>3. GuardHeld(q)'
  BY <1>0 DEF GuardHeld, GuardOf, JobClaim
<1>4. WriterCurrent(q)'
  BY <1>0, <1>1 DEF WriterCurrent, View, Stale, Promoted, JobClaim, JobVersion
<1>5. GivesUpStale(q)'
  BY <1>0, <1>1 DEF GivesUpStale, JobClaim, JobVersion
<1> QED BY <1>2, <1>3, <1>4, <1>5

\* A step of p keeps the invariant when it keeps what is said of p, and takes
\* no lock, guard or file from another process.
LEMMA Move ==
  ASSUME AuthorityKept, DrainsInv, NEW p \in Procs, ProjTypeOK',
         \A q \in Procs : q # p => proc'[q] = proc[q],
         UNCHANGED claimVars, Tame, LocksHeld',
         HoldsJob(p)', GuardHeld(p)', WriterCurrent(p)', GivesUpStale(p)',
         AtWork(p)' =>
           \/ AtWork(p) /\ proc'[p].job = proc[p].job
           \/ \A q \in Procs : q # p /\ AtWork(q) =>
                ~ /\ proc'[p].job.id = proc[q].job.id
                  /\ proc'[p].job.attempt = proc[q].job.attempt,
         \A q \in Procs : q # p /\ proc[q].pc \in GuardPlaces =>
           JobClaim(q) \in DOMAIN guards' /\ guards'[JobClaim(q)] = guards[JobClaim(q)],
         \A q \in Procs : q # p /\ proc[q].pc = "ack" =>
           files'[RootOf[q]][JobClaim(q)] = files[RootOf[q]][JobClaim(q)]
  PROVE  DrainsInv'
<1>1. UNCHANGED <<versions, gov, current, legacy>>
  BY DEF claimVars
<1>2. JobIds' /\ ObsoleteIsStale'
  BY TameJobs
<1>3. AttemptsApart'
  BY DEF DrainsInv, AttemptsApart, AtWork
<1>4. \A q \in Procs : q # p =>
        HoldsJob(q)' /\ GuardHeld(q)' /\ WriterCurrent(q)' /\ GivesUpStale(q)'
  BY Bystander
<1> QED BY <1>2, <1>3, <1>4 DEF DrainsInv

\* A process that works on no job has nothing to keep.
LEMMA Resting ==
  ASSUME NEW p \in Procs, proc'[p].pc \notin FtsPlaces \cup FilePlaces,
         proc'[p].pc # "idle" => proc'[p].result = "none"
  PROVE  /\ ~AtWork(p)'
         /\ HoldsJob(p)' /\ GuardHeld(p)' /\ WriterCurrent(p)' /\ GivesUpStale(p)'
  BY DEF AtWork, HoldsJob, GuardHeld, WriterCurrent, GivesUpStale, FtsPlaces,
         FilePlaces, LockPlaces, GuardPlaces

\* A step outside the file lock, to a place outside it, leaves the locks.
LEMMA LocksStay ==
  ASSUME DrainsInv, NEW p \in Procs, ProjTypeOK',
         \A q \in Procs : q # p => proc'[q] = proc[q],
         proc[p].pc \notin LockPlaces, proc'[p].pc \notin LockPlaces, lock' = lock
  PROVE  LocksHeld'
<1>1. LocksHeld /\ lock \in [DOMAIN lock -> Procs]
  BY DEF DrainsInv, ProjTypeOK
<1>2. \A k \in DOMAIN lock : lock[k] # p
  BY <1>1 DEF LocksHeld
<1> QED BY <1>1, <1>2 DEF LocksHeld, LockKey, JobClaim

\* A process that ends its work outside the file lock.
LEMMA Leave ==
  ASSUME AuthorityKept, DrainsInv, NEW p \in Procs, ProjTypeOK',
         \A q \in Procs : q # p => proc'[q] = proc[q],
         UNCHANGED claimVars, Tame, UNCHANGED <<lock, guards>>,
         proc[p].pc \notin LockPlaces,
         proc'[p].pc \notin FtsPlaces \cup FilePlaces,
         proc'[p].pc # "idle" => proc'[p].result = "none",
         files' = files \/ DOMAIN guards = {}
  PROVE  DrainsInv'
<1>1. LocksHeld'
  BY LocksStay DEF FilePlaces
<1>2. /\ ~AtWork(p)'
      /\ HoldsJob(p)' /\ GuardHeld(p)' /\ WriterCurrent(p)' /\ GivesUpStale(p)'
  BY Resting
<1>3. \A q \in Procs : GuardHeld(q)
  BY DEF DrainsInv
<1>4. \A q \in Procs : q # p /\ proc[q].pc \in GuardPlaces =>
           JobClaim(q) \in DOMAIN guards' /\ guards'[JobClaim(q)] = guards[JobClaim(q)]
  BY <1>3 DEF GuardHeld
<1>5. \A q \in Procs : q # p /\ proc[q].pc = "ack" =>
           files'[RootOf[q]][JobClaim(q)] = files[RootOf[q]][JobClaim(q)]
  BY <1>3 DEF GuardHeld, GuardPlaces
<1> QED BY <1>1, <1>2, <1>4, <1>5, Move

-----------------------------------------------------------------------------
(* The steps of a process, one by one. *)

\* A step of p writes its own row and no other.
LEMMA OwnRow ==
  ASSUME ProjTypeOK, NEW p \in Procs, NEW row, Become(p, row)
  PROVE  /\ proc'[p] = row /\ \A q \in Procs : q # p => proc'[q] = proc[q]
         /\ row \in ProcRow => proc' \in [Procs -> ProcRow]
  BY DEF Become, ProjTypeOK

\* Every row of the processes is well formed, and so is what it writes.
LEMMA TypesStay ==
  ASSUME ProjTypeOK, NEW p \in Procs, NEW row \in ProcRow, Become(p, row),
         \/ lock' = lock
         \/ DOMAIN lock' \subseteq Roots \X Claims /\ lock' \in [DOMAIN lock' -> Procs],
         \/ guards' = guards
         \/ DOMAIN guards' \subseteq Claims /\ guards' \in [DOMAIN guards' -> GuardRow],
         ftsRow' = ftsRow \/ ftsRow' \in [Claims -> AllViews],
         files' = files \/ files' \in [Roots -> [Claims -> AllViews]],
         budget' = budget \/ budget' \in [{"crash", "stall", "io", "rebuild"} -> Nat]
  PROVE  ProjTypeOK'
<1>1. proc' \in [Procs -> ProcRow]
  BY OwnRow
<1> QED BY <1>1 DEF ProjTypeOK

\* The counters of what went wrong.
LEMMA BudgetCounts ==
  ASSUME ProjTypeOK, NEW fault \in {"crash", "stall", "io", "rebuild"}, NEW bound,
         Spend(fault, bound)
  PROVE  budget' \in [{"crash", "stall", "io", "rebuild"} -> Nat]
<1>1. budget[fault] + 1 \in Nat
  BY DEF ProjTypeOK
<1>2. budget' = [budget EXCEPT ![fault] = budget[fault] + 1]
  BY DEF Spend
<1>3. \A n \in Nat : [budget EXCEPT ![fault] = n] \in [{"crash", "stall", "io", "rebuild"} -> Nat]
  BY DEF ProjTypeOK
<1> QED BY <1>1, <1>2, <1>3, Zenon

\* What the invariant says of one process.
LEMMA ProcFacts ==
  ASSUME AuthorityKept, DrainsInv, NEW p \in Procs
  PROVE  /\ ProjTypeOK /\ TypeOK /\ AuthorityInv /\ proc[p] \in ProcRow
         /\ HoldsJob(p) /\ GuardHeld(p) /\ WriterCurrent(p) /\ GivesUpStale(p)
         /\ proc[p].pc # "idle" => proc[p].result = "none"
<1>1. /\ ProjTypeOK /\ AuthorityInv
      /\ HoldsJob(p) /\ GuardHeld(p) /\ WriterCurrent(p) /\ GivesUpStale(p)
  BY DEF DrainsInv, AuthorityKept
<1>2. TypeOK /\ proc[p] \in ProcRow
  BY <1>1 DEF AuthorityInv, ProjTypeOK
<1> QED BY <1>1, <1>2 DEF HoldsJob

\* A process that goes on with its job still holds it.
LEMMA GoesOn ==
  ASSUME AuthorityKept, DrainsInv, NEW p \in Procs, UNCHANGED claimVars, Tame,
         AtWork(p), proc'[p].job = proc[p].job,
         proc'[p].processed = proc[p].processed, proc'[p].result = proc[p].result,
         proc'[p].pc \in FtsPlaces <=> proc[p].pc \in FtsPlaces,
         proc'[p].pc = "release" => proc'[p].out # "none"
  PROVE  HoldsJob(p)'
<1>0. HoldsJob(p) /\ TypeOK
  BY ProcFacts
<1>1. ASSUME NEW key \in DOMAIN outbox', outbox'[key].id = proc[p].job.id
      PROVE  key = proc[p].job.key /\ proc[p].job.attempt <= outbox'[key].attempt
  <2>1. /\ key \in DOMAIN outbox /\ SameJob(outbox[key], outbox'[key])
        /\ outbox[key] \in JobRow
    BY <1>0 DEF Tame, TypeOK
  <2>2. outbox[key].attempt \in Nat /\ outbox'[key].attempt \in Nat
    BY <2>1 DEF SameJob, JobRow
  <2>3. outbox[key].id = proc[p].job.id /\ outbox[key].attempt <= outbox'[key].attempt
    BY <1>1, <2>1 DEF SameJob
  <2>4. key = proc[p].job.key /\ proc[p].job.attempt <= outbox[key].attempt
    BY <1>0, <2>1, <2>3 DEF HoldsJob
  <2>5. proc[p].job.attempt \in Nat
    BY <1>0, HeldJob
  <2> QED BY <2>2, <2>3, <2>4, <2>5
<1>2. versions' = versions /\ outboxSeq' = outboxSeq
  BY DEF claimVars, Tame
<1>3. proc[p].result = "none"
  BY <1>0 DEF AtWork, FtsPlaces, FilePlaces, LockPlaces, HoldsJob
<1> QED BY <1>0, <1>1, <1>2, <1>3 DEF HoldsJob, JobClaim, JobVersion

\* A job that is about another version than the current one is about an older.
LEMMA StaleIsOlder ==
  ASSUME AuthorityInv, NEW p \in Procs, HoldsJob(p), AtWork(p), Stale(p)
  PROVE  JobClaim(p) \in DOMAIN current /\ JobVersion(p) < current[JobClaim(p)].version
<1> DEFINE k == <<JobClaim(p), JobVersion(p)>>
<1>1. k \in DOMAIN versions /\ k[1] = JobClaim(p) /\ k[2] = JobVersion(p)
  BY DEF HoldsJob
<1>2. JobClaim(p) \in DOMAIN current
  BY <1>1 DEF AuthorityInv, EveryVersionSourced
<1>3. JobVersion(p) <= current[JobClaim(p)].version
  BY <1>1, <1>2 DEF AuthorityInv, OnlyCurrentVersionLives
<1>4. JobVersion(p) \in Nat /\ current[JobClaim(p)].version \in Nat
  BY <1>2, HeldJob DEF AuthorityInv, TypeOK, CurrentRow
<1>5. JobVersion(p) # current[JobClaim(p)].version
  BY <1>2 DEF Stale
<1> QED BY <1>2, <1>3, <1>4, <1>5

\* Claims out of reach, the drain starts, counts, sweeps or raises.
LEMMA BetweenJobs ==
  ASSUME AuthorityKept, DrainsInv, NEW p \in Procs,
         \/ Start(p) \/ RoundEnd(p) \/ Cleanup(p) \/ SweepFails(p)
         \/ \E here \in {"ftsFail", "memfsFail"} : MarkFailed(p, here)
         \/ MarkObsolete(p, "ftsObsolete", "memfs")
         \/ MarkObsolete(p, "memfsObsolete", "round")
  PROVE  DrainsInv'
<1>0. /\ ProjTypeOK /\ TypeOK /\ AuthorityInv /\ proc[p] \in ProcRow
      /\ HoldsJob(p) /\ GivesUpStale(p)
      /\ proc[p].pc # "idle" => proc[p].result = "none"
  BY ProcFacts
<1>1. Tame /\ UNCHANGED claimVars
  <2>1. ProcessStep(p)
    BY DEF ProcessStep, Step
  <2> QED BY <1>0, <2>1, ProcessIsTame
<1>2. ASSUME NEW row \in ProcRow, Become(p, row), UNCHANGED <<lock, guards, ftsRow>>,
             \/ files' = files
             \/ files' \in [Roots -> [Claims -> AllViews]] /\ DOMAIN guards = {},
             budget' = budget \/ budget' \in [{"crash", "stall", "io", "rebuild"} -> Nat],
             proc[p].pc \notin LockPlaces, row.pc \notin FtsPlaces \cup FilePlaces,
             row.pc # "idle" => row.result = "none"
      PROVE  DrainsInv'
  <2>1. ProjTypeOK'
    BY <1>0, <1>2, TypesStay
  <2>2. proc'[p] = row /\ \A q \in Procs : q # p => proc'[q] = proc[q]
    BY <1>0, <1>2, OwnRow
  <2> QED BY <1>1, <1>2, <2>1, <2>2, Leave
<1> DEFINE away(pc) == pc \in PCs /\ pc \notin FtsPlaces \cup FilePlaces
<1>3. /\ away("idle") /\ away("fts") /\ away("memfs") /\ away("round") /\ away("cleanup")
      /\ {"idle", "round", "cleanup", "ftsFail", "memfsFail", "ftsObsolete",
          "memfsObsolete"} \cap LockPlaces = {}
  BY DEF PCs, FtsPlaces, FilePlaces, LockPlaces
<1>4. CASE Start(p)
  <2>1. /\ Become(p, Fresh(FALSE)) /\ proc[p].pc = "idle"
        /\ UNCHANGED <<lock, guards, ftsRow, files, budget>>
    BY <1>4 DEF Start, At, authorityVars, tables
  <2>2. /\ Fresh(FALSE) \in ProcRow
        /\ Fresh(FALSE).pc = "fts" /\ Fresh(FALSE).result = "none"
    BY FreshRow
  <2> QED BY <1>2, <1>3, <2>1, <2>2
<1>5. CASE RoundEnd(p)
  <2>1. PICK row : /\ Become(p, row)
                   /\ \/ row = [proc[p] EXCEPT !.pc = "fts", !.progressed = FALSE]
                      \/ row \in {Idle("limit"), Idle("ok")}
                      \/ row = [proc[p] EXCEPT !.pc = "cleanup"]
    BY <1>5 DEF RoundEnd, Goto
  <2>2. /\ proc[p].pc = "round" /\ UNCHANGED <<lock, guards, ftsRow, files, budget>>
    BY <1>5 DEF RoundEnd, At, authorityVars, tables
  <2>3. CASE row = [proc[p] EXCEPT !.pc = "fts", !.progressed = FALSE]
    <3>1. row \in ProcRow /\ row.pc = "fts" /\ row.result = proc[p].result
      BY <1>0, <1>3, <2>3 DEF ProcRow
    <3> QED BY <1>0, <1>2, <1>3, <2>1, <2>2, <3>1
  <2>4. CASE row \in {Idle("limit"), Idle("ok")}
    <3>1. row \in ProcRow /\ row.pc = "idle"
      BY <2>4, IdleRow
    <3> QED BY <1>2, <1>3, <2>1, <2>2, <3>1
  <2>5. CASE row = [proc[p] EXCEPT !.pc = "cleanup"]
    <3>1. row \in ProcRow /\ row.pc = "cleanup" /\ row.result = proc[p].result
      BY <1>0, <1>3, <2>5, GotoRow
    <3> QED BY <1>0, <1>2, <1>3, <2>1, <2>2, <3>1
  <2> QED BY <2>1, <2>3, <2>4, <2>5
<1>6. NoView \in AllViews
  BY DEF AllViews
<1>7. CASE Cleanup(p)
  <2>1. proc[p].pc = "cleanup" /\ UNCHANGED <<lock, guards, ftsRow, budget>>
    BY <1>7 DEF Cleanup, At, authorityVars, tables
  <2>2. PICK row \in {Idle("failed"), Idle("rebuilt")} :
          /\ Become(p, row)
          /\ \/ files' = files
             \/ /\ DOMAIN guards = {}
                /\ files' = [files EXCEPT ![RootOf[p]] = Swept(RootOf[p])]
    BY <1>7 DEF Cleanup, Raise
  <2>3. row \in ProcRow /\ row.pc = "idle"
    BY IdleRow
  <2>4. Swept(RootOf[p]) \in [Claims -> AllViews]
    BY <1>0, <1>6, ProcsAssumption DEF Swept, ProjTypeOK
  <2>5. [files EXCEPT ![RootOf[p]] = Swept(RootOf[p])] \in [Roots -> [Claims -> AllViews]]
    BY <1>0, <2>4 DEF ProjTypeOK
  <2> QED BY <1>2, <1>3, <2>1, <2>2, <2>3, <2>5
<1>8. CASE SweepFails(p)
  <2>1. /\ proc[p].pc = "cleanup" /\ UNCHANGED <<lock, guards, ftsRow>>
        /\ DOMAIN guards = {} /\ Become(p, Idle("failed")) /\ Spend("io", MaxIOErrors)
    BY <1>8 DEF SweepFails, At, authorityVars, tables, Raise
  <2>2. Idle("failed") \in ProcRow /\ Idle("failed").pc = "idle"
    BY IdleRow
  <2>3. PICK gone \in SUBSET (Claims \ InForce) :
          files' = [files EXCEPT ![RootOf[p]] =
                      [c \in Claims |-> IF c \in gone THEN NoView ELSE @[c]]]
    BY <1>8 DEF SweepFails
  <2>4. [c \in Claims |-> IF c \in gone THEN NoView ELSE files[RootOf[p]][c]]
          \in [Claims -> AllViews]
    BY <1>0, <1>6, ProcsAssumption DEF ProjTypeOK
  <2>5. files' \in [Roots -> [Claims -> AllViews]]
    BY <1>0, <2>3, <2>4 DEF ProjTypeOK
  <2>6. budget' \in [{"crash", "stall", "io", "rebuild"} -> Nat]
    BY <1>0, <2>1, BudgetCounts
  <2> QED BY <1>2, <1>3, <2>1, <2>2, <2>5, <2>6
<1>9. ASSUME NEW here \in {"ftsFail", "memfsFail"}, MarkFailed(p, here)
      PROVE  DrainsInv'
  <2>1. /\ proc[p].pc = here /\ UNCHANGED <<lock, guards, ftsRow, files, budget>>
        /\ Become(p, Idle("failed"))
    BY <1>9 DEF MarkFailed, At, Raise
  <2>2. Idle("failed") \in ProcRow /\ Idle("failed").pc = "idle"
    BY IdleRow
  <2> QED BY <1>2, <1>3, <2>1, <2>2
<1>10. ASSUME NEW here \in {"ftsObsolete", "memfsObsolete"},
              NEW next \in {"memfs", "round"}, MarkObsolete(p, here, next)
       PROVE  DrainsInv'
  <2>1. /\ proc[p].pc = here /\ UNCHANGED <<lock, guards, ftsRow, files, budget>>
        /\ Become(p, Done(p, next)) \/ Become(p, Idle("failed"))
    BY <1>10 DEF MarkObsolete, At, Raise
  <2>2. Idle("failed") \in ProcRow /\ Idle("failed").pc = "idle"
    BY IdleRow
  <2>3. /\ Done(p, next) \in ProcRow
        /\ Done(p, next).pc = next /\ Done(p, next).result = proc[p].result
    <3>1. next \in PCs
      BY <1>3
    <3> QED BY <1>0, <3>1, DoneRow
  <2>4. proc[p].result = "none"
    BY <1>0, <2>1
  <2> QED BY <1>2, <1>3, <2>1, <2>2, <2>3, <2>4
<1> QED BY <1>4, <1>5, <1>7, <1>8, <1>9, <1>10

\* What a process that works on a job has its lock or its guard for is about
\* that job; a step outside the file lock, to a place outside it, keeps the
\* rest of the invariant.
LEMMA OutsideLock ==
  ASSUME AuthorityKept, DrainsInv, NEW p \in Procs, NEW row \in ProcRow,
         Become(p, row), UNCHANGED claimVars, Tame,
         UNCHANGED <<lock, guards, files, budget>>,
         ftsRow' = ftsRow \/ ftsRow' \in [Claims -> AllViews],
         proc[p].pc \notin LockPlaces, row.pc \notin LockPlaces,
         HoldsJob(p)', GivesUpStale(p)',
         AtWork(p)' =>
           \/ AtWork(p) /\ row.job = proc[p].job
           \/ \A q \in Procs : q # p /\ AtWork(q) =>
                ~ /\ row.job.id = proc[q].job.id
                  /\ row.job.attempt = proc[q].job.attempt
  PROVE  DrainsInv'
<1>1. ProjTypeOK /\ \A q \in Procs : GuardHeld(q)
  BY DEF DrainsInv
<1>2. ProjTypeOK'
  BY <1>1, TypesStay
<1>3. proc'[p] = row /\ \A q \in Procs : q # p => proc'[q] = proc[q]
  BY <1>1, OwnRow
<1>4. LocksHeld'
  BY <1>2, <1>3, LocksStay
<1>5. GuardHeld(p)' /\ WriterCurrent(p)'
  BY <1>3 DEF GuardHeld, WriterCurrent, LockPlaces, GuardPlaces
<1>6. \A q \in Procs : q # p /\ proc[q].pc \in GuardPlaces =>
           JobClaim(q) \in DOMAIN guards' /\ guards'[JobClaim(q)] = guards[JobClaim(q)]
  BY <1>1 DEF GuardHeld
<1> QED BY <1>2, <1>3, <1>4, <1>5, <1>6, Move

\* claim_projection_jobs raises the attempt above that of every process that
\* still works on the job.
LEMMA ClaimKeeps ==
  ASSUME AuthorityKept, DrainsInv, NEW p \in Procs,
         ClaimFts(p) \/ ClaimMemfs(p)
  PROVE  DrainsInv'
<1>0. /\ ProjTypeOK /\ TypeOK /\ AuthorityInv /\ proc[p] \in ProcRow
      /\ HoldsJob(p) /\ GivesUpStale(p)
      /\ proc[p].pc # "idle" => proc[p].result = "none"
  BY ProcFacts
<1>1. Tame /\ UNCHANGED claimVars
  <2>1. ProcessStep(p)
    BY DEF ProcessStep, Step
  <2> QED BY <1>0, <2>1, ProcessIsTame
<1>2. PICK kind \in Kinds, here \in {"fts", "memfs"}, working \in {"ftsApply", "lock"},
           after \in {"memfs", "round"} :
        /\ Claim(p, kind, here, working, after)
        /\ kind = IF working \in FtsPlaces THEN "memory_fts" ELSE "memory_memfs"
  <2>1. CASE ClaimFts(p)
    BY <2>1 DEF ClaimFts, Kinds, FtsPlaces
  <2>2. CASE ClaimMemfs(p)
    BY <2>2 DEF ClaimMemfs, Kinds, FtsPlaces
  <2> QED BY <2>1, <2>2
<1>3. /\ proc[p].pc = here /\ proc[p].result = "none"
      /\ UNCHANGED <<lock, guards, ftsRow, files, budget>>
      /\ proc[p].pc \notin LockPlaces
  BY <1>0, <1>2 DEF Claim, At, LockPlaces
<1>4. CASE Goto(p, after)
  <2> DEFINE row == [proc[p] EXCEPT !.pc = after]
  <2>1. row \in ProcRow /\ row.pc = after /\ row.result = proc[p].result
    <3>1. after \in PCs
      BY DEF PCs
    <3> QED BY <1>0, <3>1, GotoRow
  <2>2. Become(p, row)
    BY <1>4 DEF Goto
  <2>3. after \notin FtsPlaces \cup FilePlaces
    BY DEF FtsPlaces, FilePlaces, LockPlaces
  <2> HIDE DEF row
  <2>4. ProjTypeOK'
    BY <1>0, <1>3, <2>1, <2>2, TypesStay
  <2>5. proc'[p] = row /\ \A q \in Procs : q # p => proc'[q] = proc[q]
    BY <1>0, <2>2, OwnRow
  <2> QED BY <1>1, <1>3, <2>1, <2>3, <2>4, <2>5, Leave
<1>5. CASE ~Goto(p, after)
  <2> DEFINE key == NextJob(kind)
             job == Snapshot(key)
             row == [proc[p] EXCEPT !.pc = working, !.job = job]
  <2>1. /\ ~(proc[p].processed >= MaxJobs) /\ Claimables(kind) # {}
        /\ outbox' = [outbox EXCEPT ![key] = Claimed(outbox[key], WorkerOf[p])]
        /\ Become(p, row)
    BY <1>2, <1>5 DEF Claim
  <2>2. key \in DOMAIN outbox /\ key[1] = kind
    BY <1>0, <2>1, NextJobFound DEF Claimables
  <2> HIDE DEF key
  <2>3. /\ key \in JobKeys /\ outbox[key] \in JobRow
        /\ outbox[key].attempt \in Nat /\ outbox[key].id \in Nat \ {0}
    BY <1>0, <2>2 DEF TypeOK, JobRow
  <2>4. /\ job \in JobSnapshot /\ job.key = key /\ job.id = outbox[key].id
        /\ job.attempt = outbox[key].attempt + 1
    <3>1. outbox[key].attempt + 1 \in Nat \ {0}
      BY <2>3
    <3>2. outbox[key].authority \in Sources /\ outbox[key].hash \in Contents
      BY <2>3 DEF JobRow
    <3> DEFINE n == outbox[key].attempt + 1
    <3>3. job = [key |-> key, id |-> outbox[key].id, attempt |-> n,
                 authority |-> outbox[key].authority, hash |-> outbox[key].hash]
      BY DEF Snapshot
    <3>4. n \in Nat \ {0}
      BY <3>1
    <3> HIDE DEF n, job
    <3>5. job \in JobSnapshot /\ job.key = key /\ job.id = outbox[key].id /\ job.attempt = n
      BY <2>3, <3>2, <3>3, <3>4 DEF JobSnapshot
    <3> QED BY <3>5 DEF n
  <2> HIDE DEF job
  <2>5. /\ row \in ProcRow /\ row.pc = working /\ row.job = job
        /\ row.processed = proc[p].processed /\ row.result = "none"
    BY <1>0, <1>3, <2>4 DEF ProcRow, PCs
  <2> HIDE DEF row
  <2>6. proc'[p] = row
    BY <1>0, <2>1, OwnRow
  <2>7. proc[p].processed < MaxJobs
    BY <1>0, <2>1, RowFields, ProcsAssumption
  <2>8. outbox'[key].id = outbox[key].id /\ outbox'[key].attempt = job.attempt
    <3>1. WorkerOf[p] \in Workers
      BY ProcsAssumption
    <3>2. /\ Claimed(outbox[key], WorkerOf[p]).attempt = outbox[key].attempt + 1
          /\ SameJob(outbox[key], Claimed(outbox[key], WorkerOf[p]))
      BY <2>3, <3>1, RowStatements
    <3> QED BY <2>1, <2>2, <2>4, <3>2 DEF SameJob
  <2>9. ASSUME NEW k \in DOMAIN outbox', outbox'[k].id = job.id
        PROVE  k = key /\ job.attempt <= outbox'[k].attempt
    <3>1. k \in DOMAIN outbox /\ outbox[k].id = outbox[key].id
      BY <1>1, <2>4, <2>9 DEF Tame, SameJob
    <3>2. k = key
      BY <2>2, <3>1 DEF DrainsInv, JobIds
    <3>3. job.attempt \in Nat
      BY <2>4 DEF JobSnapshot
    <3> QED BY <2>8, <3>2, <3>3
  <2>10. job.id <= outboxSeq' /\ <<key[2], key[3]>> \in DOMAIN versions'
    BY <1>1, <2>2, <2>4 DEF DrainsInv, JobIds, AuthorityKept, JobsAreCommitted, Tame, claimVars
  <2>11. working \notin LockPlaces /\ working # "release"
    BY DEF LockPlaces
  <2>12. HoldsJob(p)'
    BY <1>2, <2>2, <2>4, <2>5, <2>6, <2>7, <2>9, <2>10, <2>11
       DEF HoldsJob, JobClaim, JobVersion
  <2>13. GivesUpStale(p)'
    BY <2>5, <2>6 DEF GivesUpStale
  <2>14. ASSUME NEW q \in Procs, q # p, AtWork(q), job.id = proc[q].job.id
         PROVE  job.attempt # proc[q].job.attempt
    <3>1. HoldsJob(q)
      BY DEF DrainsInv
    <3>2. proc[q].job.attempt <= outbox[key].attempt
      BY <2>2, <2>4, <2>14, <3>1 DEF HoldsJob
    <3>3. proc[q].job.attempt \in Nat
      BY <2>14, <3>1, HeldJob
    <3> QED BY <2>3, <2>4, <3>2, <3>3
  <2> QED BY <1>1, <1>3, <2>1, <2>5, <2>11, <2>12, <2>13, <2>14, OutsideLock
<1> QED BY <1>4, <1>5

\* _apply_and_ack leaves a job that it has applied, and goes on to give up one
\* that is stale.
LEMMA FtsApplyKeeps ==
  ASSUME AuthorityKept, DrainsInv, NEW p \in Procs, FtsApply(p)
  PROVE  DrainsInv'
<1>0. /\ ProjTypeOK /\ TypeOK /\ AuthorityInv /\ proc[p] \in ProcRow
      /\ HoldsJob(p) /\ GivesUpStale(p)
      /\ proc[p].pc # "idle" => proc[p].result = "none"
  BY ProcFacts
<1>1. Tame /\ UNCHANGED claimVars
  <2>1. ProcessStep(p)
    BY DEF ProcessStep, Step
  <2> QED BY <1>0, <2>1, ProcessIsTame
<1>2. /\ proc[p].pc = "ftsApply" /\ UNCHANGED <<lock, guards, files, budget>>
      /\ proc[p].result = "none" /\ proc[p].pc \notin LockPlaces /\ AtWork(p)
  BY <1>0 DEF FtsApply, At, LockPlaces, AtWork, FtsPlaces
<1>3. PICK row : /\ Become(p, row)
                 /\ \/ row = Idle("failed") /\ ftsRow' = ftsRow
                    \/ /\ Stale(p) /\ row = [proc[p] EXCEPT !.pc = "ftsObsolete"]
                       /\ ftsRow' = ftsRow
                    \/ row = [proc[p] EXCEPT !.pc = "ftsFail"] /\ ftsRow' = ftsRow
                    \/ /\ row = Applied(p, "memfs")
                       /\ ftsRow' = [ftsRow EXCEPT ![JobClaim(p)] = View(JobClaim(p))]
  BY DEF FtsApply, Raise, Goto
<1>4. proc'[p] = row
  BY <1>0, <1>3, OwnRow
<1>5. CASE row = Idle("failed") \/ row = Applied(p, "memfs")
  <2>1. /\ row \in ProcRow /\ row.pc \in {"idle", "memfs"}
        /\ row.pc # "idle" => row.result = "none"
    <3>1. CASE row = Idle("failed")
      BY <3>1, IdleRow
    <3>2. CASE row = Applied(p, "memfs")
      <4>1. proc[p].processed < MaxJobs /\ "memfs" \in PCs
        BY <1>0, <1>2 DEF HoldsJob, PCs
      <4> QED BY <1>0, <1>2, <3>2, <4>1, DoneRow
    <3> QED BY <1>5, <3>1, <3>2
  <2>2. ftsRow' = ftsRow \/ ftsRow' \in [Claims -> AllViews]
    <3>1. View(JobClaim(p)) \in AllViews
      BY <1>0, ViewTyped
    <3> QED BY <1>0, <1>3, <3>1 DEF ProjTypeOK
  <2>3. row.pc \notin FtsPlaces \cup FilePlaces
    BY <2>1 DEF FtsPlaces, FilePlaces, LockPlaces
  <2>4. ProjTypeOK'
    BY <1>0, <1>2, <1>3, <2>1, <2>2, TypesStay
  <2>5. \A q \in Procs : q # p => proc'[q] = proc[q]
    BY <1>0, <1>3, OwnRow
  <2> QED BY <1>1, <1>2, <1>4, <2>1, <2>3, <2>4, <2>5, Leave
<1>6. CASE \E pc \in {"ftsObsolete", "ftsFail"} :
             /\ row = [proc[p] EXCEPT !.pc = pc] /\ ftsRow' = ftsRow
             /\ pc = "ftsObsolete" => Stale(p)
  <2>1. PICK pc \in {"ftsObsolete", "ftsFail"} :
          /\ row = [proc[p] EXCEPT !.pc = pc] /\ ftsRow' = ftsRow
          /\ pc = "ftsObsolete" => Stale(p)
    BY <1>6
  <2>2. pc \in PCs /\ pc \in FtsPlaces /\ pc \notin LockPlaces /\ pc # "release"
    BY DEF PCs, FtsPlaces, LockPlaces
  <2>3. /\ row \in ProcRow /\ row.pc = pc /\ row.job = proc[p].job
        /\ row.processed = proc[p].processed /\ row.result = proc[p].result
    BY <1>0, <2>1, <2>2, GotoRow
  <2>4. HoldsJob(p)'
    <3>1. proc[p].pc \in FtsPlaces
      BY <1>2 DEF FtsPlaces
    <3> QED BY <1>1, <1>2, <1>4, <2>2, <2>3, <3>1, GoesOn
  <2>5. GivesUpStale(p)'
    <3>1. Stale(p) => /\ JobClaim(p) \in DOMAIN current
                      /\ JobVersion(p) < current[JobClaim(p)].version
      BY <1>0, <1>2, StaleIsOlder
    <3> QED BY <1>1, <1>4, <2>1, <2>3, <3>1
            DEF GivesUpStale, JobClaim, JobVersion, claimVars
  <2> QED BY <1>1, <1>2, <1>3, <2>1, <2>2, <2>3, <2>4, <2>5, OutsideLock
<1> QED BY <1>3, <1>5, <1>6

\* Two processes under the lock of one claim and one root are the same.
LEMMA OneUnderLock ==
  ASSUME LocksHeld, NEW p \in Procs, NEW q \in Procs,
         proc[p].pc \in LockPlaces, proc[q].pc \in LockPlaces,
         RootOf[p] = RootOf[q], JobClaim(p) = JobClaim(q)
  PROVE  p = q
  BY DEF LocksHeld, LockKey

\* A step under the file lock keeps the rest of the invariant.
LEMMA InsideLock ==
  ASSUME AuthorityKept, DrainsInv, NEW p \in Procs, NEW row \in ProcRow,
         Become(p, row), UNCHANGED claimVars, Tame, lock' = lock, ftsRow' = ftsRow,
         proc[p].pc \in LockPlaces, row.pc \in LockPlaces,
         row.job = proc[p].job, row.processed = proc[p].processed,
         row.result = proc[p].result, row.pc = "release" => row.out # "none",
         \/ guards' = guards
         \/ DOMAIN guards' \subseteq Claims /\ guards' \in [DOMAIN guards' -> GuardRow],
         files' = files \/ files' \in [Roots -> [Claims -> AllViews]],
         budget' = budget \/ budget' \in [{"crash", "stall", "io", "rebuild"} -> Nat],
         GuardHeld(p)', WriterCurrent(p)', GivesUpStale(p)',
         \A q \in Procs : q # p /\ proc[q].pc \in GuardPlaces =>
           JobClaim(q) \in DOMAIN guards' /\ guards'[JobClaim(q)] = guards[JobClaim(q)],
         \A q \in Procs : q # p /\ proc[q].pc = "ack" =>
           files'[RootOf[q]][JobClaim(q)] = files[RootOf[q]][JobClaim(q)]
  PROVE  DrainsInv'
<1>1. ProjTypeOK /\ LocksHeld
  BY DEF DrainsInv
<1>2. ProjTypeOK'
  BY <1>1, TypesStay
<1>3. proc'[p] = row /\ \A q \in Procs : q # p => proc'[q] = proc[q]
  BY <1>1, OwnRow
<1>4. LocksHeld'
  <2>1. ASSUME NEW q \in Procs
        PROVE  /\ proc'[q].job.key = proc[q].job.key
               /\ proc'[q].pc \in LockPlaces <=> proc[q].pc \in LockPlaces
    <3>1. CASE q = p
      BY <1>3, <3>1
    <3>2. CASE q # p
      <4>1. proc'[q] = proc[q]
        BY <1>3, <3>2
      <4> QED BY <4>1
    <3> QED BY <3>1, <3>2
  <2>2. \A k \in DOMAIN lock : lock[k] \in Procs
    BY <1>1 DEF ProjTypeOK
  <2>3. ASSUME NEW q \in Procs
        PROVE  <<RootOf[q], proc'[q].job.key[2]>> = LockKey(q)
    <3>1. proc'[q].job.key = proc[q].job.key
      BY <2>1
    <3> QED BY <3>1 DEF LockKey, JobClaim
  <2>4. ASSUME NEW q \in Procs, proc'[q].pc \in LockPlaces
        PROVE  LockKey(q)' \in DOMAIN lock' /\ lock'[LockKey(q)'] = q
    <3>1. LockKey(q)' = LockKey(q)
      BY <2>3 DEF LockKey, JobClaim
    <3> QED BY <1>1, <2>1, <2>4, <3>1 DEF LocksHeld
  <2>5. ASSUME NEW k \in DOMAIN lock
        PROVE  /\ proc'[lock[k]].pc \in LockPlaces
               /\ <<RootOf[lock[k]], proc'[lock[k]].job.key[2]>> = k
    BY <1>1, <2>1, <2>2, <2>3 DEF LocksHeld
  <2> QED BY <2>4, <2>5 DEF LocksHeld, LockKey, JobClaim
<1>5. AtWork(p)
  BY DEF AtWork, FilePlaces
<1>6. proc[p].pc \notin FtsPlaces /\ row.pc \notin FtsPlaces
  BY DEF FtsPlaces, LockPlaces
<1>7. HoldsJob(p)'
  BY <1>3, <1>5, <1>6, GoesOn
<1> QED BY <1>2, <1>3, <1>4, <1>5, <1>7, Move

\* What a step finds that goes on with a file job.
LEMMA FileJobFacts ==
  ASSUME AuthorityKept, DrainsInv, NEW p \in Procs, proc[p].pc \in FilePlaces
  PROVE  /\ ProjTypeOK /\ TypeOK /\ AuthorityInv /\ LocksHeld /\ AttemptsApart
         /\ proc[p] \in ProcRow /\ AtWork(p)
         /\ HoldsJob(p) /\ GuardHeld(p) /\ WriterCurrent(p) /\ GivesUpStale(p)
         /\ proc[p].result = "none" /\ JobClaim(p) \in Claims
         /\ \A q \in Procs : GuardHeld(q)
<1>1. AtWork(p) /\ proc[p].pc # "idle"
  BY DEF AtWork, FilePlaces, LockPlaces
<1>2. /\ ProjTypeOK /\ TypeOK /\ AuthorityInv /\ proc[p] \in ProcRow
      /\ HoldsJob(p) /\ GuardHeld(p) /\ WriterCurrent(p) /\ GivesUpStale(p)
      /\ proc[p].result = "none"
  BY <1>1, ProcFacts
<1>3. JobClaim(p) \in Claims
  BY <1>1, <1>2, HeldJob
<1> QED BY <1>1, <1>2, <1>3 DEF DrainsInv

\* _claim_lock: nobody else holds the lock that it takes.
LEMMA LockKeeps ==
  ASSUME AuthorityKept, DrainsInv, NEW p \in Procs, Lock(p)
  PROVE  DrainsInv'
<1>1. /\ proc[p].pc = "lock" /\ LockKey(p) \notin DOMAIN lock
      /\ lock' = Put(lock, LockKey(p), p)
      /\ Become(p, [proc[p] EXCEPT !.pc = "guard"])
      /\ UNCHANGED <<guards, ftsRow, files, budget>>
  BY DEF Lock, At, Goto, authorityVars, tables
<1>0. /\ ProjTypeOK /\ TypeOK /\ AuthorityInv /\ LocksHeld
      /\ proc[p] \in ProcRow /\ AtWork(p)
      /\ HoldsJob(p) /\ GivesUpStale(p) /\ JobClaim(p) \in Claims
      /\ \A q \in Procs : GuardHeld(q)
  <2>1. proc[p].pc \in FilePlaces
    BY <1>1 DEF FilePlaces
  <2> QED BY <2>1, FileJobFacts
<1>2. Tame /\ UNCHANGED claimVars
  <2>1. ProcessStep(p)
    BY DEF ProcessStep, Step
  <2> QED BY <1>0, <2>1, ProcessIsTame
<1> DEFINE row == [proc[p] EXCEPT !.pc = "guard"]
<1>3. /\ row \in ProcRow /\ row.pc = "guard" /\ row.job = proc[p].job
      /\ row.processed = proc[p].processed /\ row.result = proc[p].result
  <2>1. "guard" \in PCs
    BY DEF PCs
  <2> QED BY <1>0, <2>1, GotoRow
<1> HIDE DEF row
<1>4. proc'[p] = row /\ \A q \in Procs : q # p => proc'[q] = proc[q]
  BY <1>0, <1>1, OwnRow DEF row
<1>5. LockKey(p) \in Roots \X Claims
  BY <1>0, HeldJob
<1>6. /\ DOMAIN lock' = DOMAIN lock \cup {LockKey(p)} /\ lock'[LockKey(p)] = p
      /\ \A k \in DOMAIN lock : lock'[k] = lock[k]
      /\ lock' \in [DOMAIN lock' -> Procs] /\ DOMAIN lock' \subseteq Roots \X Claims
  BY <1>0, <1>1, <1>5 DEF Put, ProjTypeOK
<1>7. ProjTypeOK'
  BY <1>0, <1>1, <1>3, <1>6, TypesStay DEF row
<1>8. LockKey(p)' = LockKey(p) /\ \A q \in Procs : q # p => LockKey(q)' = LockKey(q)
  BY <1>3, <1>4 DEF LockKey, JobClaim
<1>9. LocksHeld'
  <2>2. ASSUME NEW k \in DOMAIN lock'
        PROVE  \E q \in Procs : /\ lock'[k] = q /\ proc'[q].pc \in LockPlaces
                                /\ LockKey(q)' = k
    <3>1. CASE k \in DOMAIN lock
      <4>1. lock[k] \in Procs /\ proc[lock[k]].pc \in LockPlaces /\ LockKey(lock[k]) = k
        BY <1>0, <3>1 DEF LocksHeld, ProjTypeOK
      <4>2. lock[k] # p /\ lock'[k] = lock[k]
        BY <1>1, <1>6, <3>1, <4>1 DEF LockPlaces
      <4> QED BY <1>4, <1>8, <4>1, <4>2
    <3>2. CASE k = LockKey(p)
      BY <1>3, <1>4, <1>6, <1>8, <3>2 DEF LockPlaces
    <3> QED BY <1>6, <3>1, <3>2
  <2>3. ASSUME NEW q \in Procs, proc'[q].pc \in LockPlaces
        PROVE  LockKey(q)' \in DOMAIN lock' /\ lock'[LockKey(q)'] = q
    <3>1. CASE q = p
      BY <1>6, <1>8, <3>1
    <3>2. CASE q # p
      BY <1>0, <1>4, <1>6, <1>8, <2>3, <3>2 DEF LocksHeld
    <3> QED BY <3>1, <3>2
  <2> QED BY <2>2, <2>3 DEF LocksHeld, LockKey, JobClaim
<1>10. HoldsJob(p)'
  <2>1. proc[p].pc \notin FtsPlaces /\ row.pc \notin FtsPlaces /\ row.pc # "release"
    BY <1>1, <1>3 DEF FtsPlaces
  <2> QED BY <1>0, <1>2, <1>3, <1>4, <2>1, GoesOn
<1>11. GuardHeld(p)' /\ WriterCurrent(p)' /\ GivesUpStale(p)'
  BY <1>3, <1>4 DEF GuardHeld, WriterCurrent, GivesUpStale, GuardPlaces
<1>12. \A q \in Procs : q # p /\ proc[q].pc \in GuardPlaces =>
           JobClaim(q) \in DOMAIN guards' /\ guards'[JobClaim(q)] = guards[JobClaim(q)]
  BY <1>0, <1>1 DEF GuardHeld
<1> QED BY <1>0, <1>1, <1>2, <1>3, <1>4, <1>7, <1>9, <1>10, <1>11, <1>12, Move

\* _projection_guard replaces only a guard that nobody under this root relies
\* on, and none of another root.
LEMMA TakeGuardKeeps ==
  ASSUME AuthorityKept, DrainsInv, NEW p \in Procs, TakeGuard(p)
  PROVE  DrainsInv'
<1>1. /\ proc[p].pc = "guard" /\ UNCHANGED <<lock, ftsRow, files, budget>>
      /\ proc[p].pc \in LockPlaces /\ proc[p].pc \in FilePlaces
  BY DEF TakeGuard, At, LockPlaces, FilePlaces
<1>0. /\ ProjTypeOK /\ TypeOK /\ AuthorityInv /\ LocksHeld
      /\ proc[p] \in ProcRow /\ AtWork(p)
      /\ HoldsJob(p) /\ GivesUpStale(p) /\ JobClaim(p) \in Claims
      /\ \A q \in Procs : GuardHeld(q)
  BY <1>1, FileJobFacts
<1>2. Tame /\ UNCHANGED claimVars
  <2>1. ProcessStep(p)
    BY DEF ProcessStep, Step
  <2> QED BY <1>0, <2>1, ProcessIsTame
<1>3. "release" \in PCs /\ "read" \in PCs /\ {"release", "read"} \subseteq LockPlaces
  BY DEF PCs, LockPlaces
<1>4. CASE /\ Become(p, [proc[p] EXCEPT !.pc = "release", !.out = "error"])
           /\ UNCHANGED guards
  <2> DEFINE row == [proc[p] EXCEPT !.pc = "release", !.out = "error"]
  <2>1. /\ row \in ProcRow /\ row.pc = "release" /\ row.job = proc[p].job
        /\ row.processed = proc[p].processed /\ row.result = proc[p].result
        /\ row.out = "error"
    BY <1>0, <1>3 DEF ProcRow
  <2> HIDE DEF row
  <2>2. proc'[p] = row
    BY <1>0, <1>4, OwnRow DEF row
  <2>3. GuardHeld(p)' /\ WriterCurrent(p)' /\ GivesUpStale(p)'
    BY <2>1, <2>2 DEF GuardHeld, WriterCurrent, GivesUpStale, GuardPlaces
  <2>4. \A q \in Procs : q # p /\ proc[q].pc \in GuardPlaces =>
             JobClaim(q) \in DOMAIN guards' /\ guards'[JobClaim(q)] = guards[JobClaim(q)]
    BY <1>0, <1>4 DEF GuardHeld
  <2> QED BY <1>1, <1>2, <1>3, <1>4, <2>1, <2>3, <2>4, InsideLock DEF row
<1>5. CASE /\ ~RootConflict(p) /\ guards' = Put(guards, JobClaim(p), GuardOf(p))
           /\ Become(p, [proc[p] EXCEPT !.pc = "read"])
  <2> DEFINE row == [proc[p] EXCEPT !.pc = "read"]
  <2>1. /\ row \in ProcRow /\ row.pc = "read" /\ row.job = proc[p].job
        /\ row.processed = proc[p].processed /\ row.result = proc[p].result
    BY <1>0, <1>3, GotoRow
  <2> HIDE DEF row
  <2>2. proc'[p] = row
    BY <1>0, <1>5, OwnRow DEF row
  <2>3. GuardOf(p) \in GuardRow
    BY <1>0, HeldJob, ProcsAssumption DEF GuardOf, GuardRow
  <2>4. /\ DOMAIN guards' \subseteq Claims /\ guards' \in [DOMAIN guards' -> GuardRow]
        /\ JobClaim(p) \in DOMAIN guards' /\ guards'[JobClaim(p)] = GuardOf(p)
        /\ \A c \in DOMAIN guards \ {JobClaim(p)} :
             c \in DOMAIN guards' /\ guards'[c] = guards[c]
    BY <1>0, <1>5, <2>3 DEF Put, ProjTypeOK
  <2>5. GuardHeld(p)'
    BY <2>1, <2>2, <2>4 DEF GuardHeld, GuardOf, JobClaim
  <2>6. WriterCurrent(p)' /\ GivesUpStale(p)'
    BY <2>1, <2>2 DEF WriterCurrent, GivesUpStale
  <2>7. ASSUME NEW q \in Procs, q # p, proc[q].pc \in GuardPlaces
        PROVE  JobClaim(q) \in DOMAIN guards' /\ guards'[JobClaim(q)] = guards[JobClaim(q)]
    <3>1. JobClaim(q) \in DOMAIN guards /\ guards[JobClaim(q)].root = RootOf[q]
      <4>1. JobClaim(q) \in DOMAIN guards /\ guards[JobClaim(q)] = GuardOf(q)
        BY <1>0, <2>7 DEF GuardHeld
      <4> QED BY <4>1 DEF GuardOf
    <3>2. JobClaim(q) # JobClaim(p)
      <4> SUFFICES ASSUME JobClaim(q) = JobClaim(p) PROVE FALSE
        OBVIOUS
      <4>1. RootOf[q] = RootOf[p]
        BY <1>5, <3>1 DEF RootConflict
      <4>2. proc[q].pc \in LockPlaces
        BY <2>7 DEF GuardPlaces, LockPlaces
      <4> QED BY <1>0, <1>1, <2>7, <4>1, <4>2, OneUnderLock
    <3> QED BY <2>4, <3>1, <3>2
  <2> QED BY <1>1, <1>2, <1>3, <1>5, <2>1, <2>4, <2>5, <2>6, <2>7, InsideLock DEF row
<1> QED BY <1>4, <1>5 DEF TakeGuard, GuardOf, Goto

\* A step under the lock that leaves guards and files alone, and promises
\* nothing about them afterwards.
LEMMA LeavesGuard ==
  ASSUME AuthorityKept, DrainsInv, NEW p \in Procs, NEW row \in ProcRow,
         Become(p, row), UNCHANGED claimVars, Tame,
         UNCHANGED <<lock, guards, ftsRow, files>>,
         budget' = budget \/ budget' \in [{"crash", "stall", "io", "rebuild"} -> Nat],
         proc[p].pc \in LockPlaces, row.pc \in LockPlaces,
         row.job = proc[p].job, row.processed = proc[p].processed,
         row.result = proc[p].result, row.pc = "release" => row.out # "none",
         GuardHeld(p)', WriterCurrent(p)', GivesUpStale(p)'
  PROVE  DrainsInv'
<1>1. \A q \in Procs : GuardHeld(q)
  BY DEF DrainsInv
<1>2. \A q \in Procs : q # p /\ proc[q].pc \in GuardPlaces =>
           JobClaim(q) \in DOMAIN guards' /\ guards'[JobClaim(q)] = guards[JobClaim(q)]
  BY <1>1 DEF GuardHeld
<1> QED BY <1>2, InsideLock

\* The verdicts a process leaves the guarded section with.
LEMMA VerdictRow ==
  ASSUME NEW row \in ProcRow, NEW out \in {"error", "obsolete", "applied", "lost"}
  PROVE  LET to == [row EXCEPT !.pc = "release", !.out = out]
         IN  /\ to \in ProcRow /\ to.pc = "release" /\ to.out = out
             /\ to.job = row.job /\ to.processed = row.processed
             /\ to.result = row.result
<1>1. "release" \in PCs
  BY DEF PCs
<1> QED BY <1>1 DEF ProcRow

\* What Read checks is what a writer relies on: a job's legacy record is the
\* only source of its version, so its trigger covers the claim.
LEMMA CommittedPromotion ==
  ASSUME AuthorityKept, NEW p \in Procs, HoldsJob(p), AtWork(p), CommitmentHolds(p)
  PROVE  LET record == proc[p].job.authority
         IN  record \in LegacyRecords =>
               /\ legacy[record] = "approved"
               /\ <<JobClaim(p), JobVersion(p)>> \in Promoted(record)
<1> DEFINE record == proc[p].job.authority
           k      == <<JobClaim(p), JobVersion(p)>>
<1>1. SUFFICES ASSUME record \in LegacyRecords
               PROVE  legacy[record] = "approved" /\ k \in Promoted(record)
  OBVIOUS
<1>2. k \in DOMAIN versions
  BY DEF HoldsJob
<1>3. /\ legacy[record] = "approved"
      /\ \E i \in DOMAIN versions[k].sources : versions[k].sources[i] = record
  BY <1>1 DEF CommitmentHolds
<1>4. versions[k].sources = <<record>>
  BY <1>1, <1>2, <1>3 DEF AuthorityKept, SourcesInv, LegacyStandsAlone
<1> QED BY <1>2, <1>3, <1>4 DEF Promoted

\* _apply_claim_file_guarded: the snapshot it takes is what the authority says.
LEMMA ReadKeeps ==
  ASSUME AuthorityKept, DrainsInv, NEW p \in Procs, Read(p)
  PROVE  DrainsInv'
<1>1. /\ proc[p].pc = "read" /\ UNCHANGED <<lock, guards, ftsRow, files, budget>>
      /\ proc[p].pc \in LockPlaces /\ proc[p].pc \in FilePlaces
      /\ proc[p].pc \in GuardPlaces
  BY DEF Read, At, LockPlaces, FilePlaces, GuardPlaces, authorityVars, tables
<1>0. /\ ProjTypeOK /\ TypeOK /\ AuthorityInv /\ proc[p] \in ProcRow /\ AtWork(p)
      /\ HoldsJob(p) /\ GuardHeld(p) /\ GivesUpStale(p)
  BY <1>1, FileJobFacts
<1>2. Tame /\ UNCHANGED claimVars
  <2>1. ProcessStep(p)
    BY DEF ProcessStep, Step
  <2> QED BY <1>0, <2>1, ProcessIsTame
<1>3. ASSUME NEW out \in {"error", "obsolete"}, out = "obsolete" => Stale(p),
             Become(p, [proc[p] EXCEPT !.pc = "release", !.out = out])
      PROVE  DrainsInv'
  <2> DEFINE row == [proc[p] EXCEPT !.pc = "release", !.out = out]
  <2>1. /\ row \in ProcRow /\ row.pc = "release" /\ row.out = out
        /\ row.job = proc[p].job /\ row.processed = proc[p].processed
        /\ row.result = proc[p].result
    <3>1. out \in {"error", "obsolete", "applied", "lost"}
      OBVIOUS
    <3> QED BY <1>0, <3>1, VerdictRow
  <2> HIDE DEF row
  <2>2. proc'[p] = row
    BY <1>0, <1>3, OwnRow DEF row
  <2>3. GuardHeld(p)' /\ WriterCurrent(p)'
    BY <2>1, <2>2 DEF GuardHeld, WriterCurrent, GuardPlaces
  <2>4. GivesUpStale(p)'
    <3>1. Stale(p) => /\ JobClaim(p) \in DOMAIN current
                      /\ JobVersion(p) < current[JobClaim(p)].version
      BY <1>0, StaleIsOlder
    <3> QED BY <1>2, <1>3, <2>1, <2>2, <3>1
            DEF GivesUpStale, JobClaim, JobVersion, claimVars
  <2>5. row.pc \in LockPlaces /\ row.out # "none"
    BY <2>1 DEF LockPlaces
  <2> QED BY <1>1, <1>2, <1>3, <2>1, <2>3, <2>4, <2>5, LeavesGuard DEF row
<1>4. CASE /\ ~Stale(p) /\ CommitmentHolds(p)
           /\ Become(p, [proc[p] EXCEPT !.pc = "file", !.snap = View(JobClaim(p))])
  <2> DEFINE view == View(JobClaim(p))
             row  == [proc[p] EXCEPT !.pc = "file", !.snap = view]
  <2>1. view \in AllViews /\ "file" \in PCs
    BY <1>0, ViewTyped DEF PCs
  <2> HIDE DEF view
  <2>2. /\ row \in ProcRow /\ row.pc = "file" /\ row.job = proc[p].job
        /\ row.processed = proc[p].processed /\ row.result = proc[p].result
        /\ row.snap = view
    BY <1>0, <2>1 DEF ProcRow
  <2> HIDE DEF row
  <2>3. proc'[p] = row
    BY <1>0, <1>4, OwnRow DEF row, view
  <2>4. GuardHeld(p)' /\ GivesUpStale(p)'
    BY <1>0, <1>1, <2>2, <2>3 DEF GuardHeld, GivesUpStale, GuardOf, JobClaim
  <2>5. JobClaim(p)' = JobClaim(p) /\ JobVersion(p)' = JobVersion(p)
    BY <2>2, <2>3 DEF JobClaim, JobVersion
  <2>6. View(JobClaim(p))' = view /\ Stale(p)' = Stale(p)
    BY <1>2, <2>5 DEF view, View, Stale, claimVars
  <2>7. proc[p].job.authority \in LegacyRecords =>
          /\ legacy[proc[p].job.authority] = "approved"
          /\ <<JobClaim(p), JobVersion(p)>> \in Promoted(proc[p].job.authority)
    BY <1>0, <1>4, CommittedPromotion
  <2>8. WriterCurrent(p)'
    BY <1>2, <1>4, <2>2, <2>3, <2>5, <2>6, <2>7 DEF WriterCurrent, Promoted, claimVars
  <2>9. row.pc \in LockPlaces /\ row.pc # "release"
    BY <2>2 DEF LockPlaces
  <2> QED BY <1>1, <1>2, <1>4, <2>2, <2>4, <2>8, <2>9, LeavesGuard DEF row, view
<1>5. \/ Stale(p) /\ Become(p, [proc[p] EXCEPT !.pc = "release", !.out = "obsolete"])
      \/ Become(p, [proc[p] EXCEPT !.pc = "release", !.out = "error"])
      \/ /\ ~Stale(p) /\ CommitmentHolds(p)
         /\ Become(p, [proc[p] EXCEPT !.pc = "file", !.snap = View(JobClaim(p))])
  BY DEF Read
<1> QED BY <1>3, <1>4, <1>5

\* The file operation fails, and the guarded section is left.
LEMMA FileErrorKeeps ==
  ASSUME AuthorityKept, DrainsInv, NEW p \in Procs, FileError(p)
  PROVE  DrainsInv'
<1>1. /\ proc[p].pc = "file" /\ UNCHANGED <<lock, guards, ftsRow, files>>
      /\ proc[p].pc \in LockPlaces /\ proc[p].pc \in FilePlaces
      /\ Spend("io", MaxIOErrors)
      /\ Become(p, [proc[p] EXCEPT !.pc = "release", !.out = "error"])
  BY DEF FileError, At, LockPlaces, FilePlaces, authorityVars, tables
<1>0. ProjTypeOK /\ TypeOK /\ proc[p] \in ProcRow /\ GivesUpStale(p)
  BY <1>1, FileJobFacts
<1>2. Tame /\ UNCHANGED claimVars
  <2>1. ProcessStep(p)
    BY DEF ProcessStep
  <2> QED BY <1>0, <2>1, ProcessIsTame
<1> DEFINE row == [proc[p] EXCEPT !.pc = "release", !.out = "error"]
<1>3. /\ row \in ProcRow /\ row.pc = "release" /\ row.out = "error"
      /\ row.job = proc[p].job /\ row.processed = proc[p].processed
      /\ row.result = proc[p].result
  BY <1>0, VerdictRow
<1> HIDE DEF row
<1>4. proc'[p] = row
  BY <1>0, <1>1, OwnRow DEF row
<1>5. GuardHeld(p)' /\ WriterCurrent(p)' /\ GivesUpStale(p)'
  BY <1>3, <1>4 DEF GuardHeld, WriterCurrent, GivesUpStale, GuardPlaces
<1>6. row.pc \in LockPlaces
  BY <1>3 DEF LockPlaces
<1>7. budget' \in [{"crash", "stall", "io", "rebuild"} -> Nat]
  BY <1>0, <1>1, BudgetCounts
<1> QED BY <1>1, <1>2, <1>3, <1>5, <1>6, <1>7, LeavesGuard DEF row

\* A writer between its read and its file operation always finds its job still
\* current: the file is replaced by what it read.
LEMMA ApplyWrites ==
  ASSUME AuthorityKept, DrainsInv, NEW p \in Procs, ApplyFile(p)
  PROVE  /\ files' = [files EXCEPT ![RootOf[p]][JobClaim(p)] = proc[p].snap]
         /\ Become(p, [proc[p] EXCEPT !.pc = "ack"])
         /\ proc[p].snap = View(JobClaim(p))
<1>1. proc[p].pc = "file"
  BY DEF ApplyFile, At
<1>2. WriterCurrent(p)
  BY DEF DrainsInv
<1>3. StillCurrent(p) /\ proc[p].snap = View(JobClaim(p))
  BY <1>1, <1>2 DEF WriterCurrent, StillCurrent
<1> QED BY <1>3 DEF ApplyFile, Goto

\* Nobody else writes this file meanwhile.
LEMMA ApplyFileKeeps ==
  ASSUME AuthorityKept, DrainsInv, NEW p \in Procs, ApplyFile(p)
  PROVE  DrainsInv'
<1>1. /\ proc[p].pc = "file" /\ UNCHANGED <<lock, guards, ftsRow, budget>>
      /\ proc[p].pc \in LockPlaces /\ proc[p].pc \in FilePlaces
      /\ proc[p].pc \in GuardPlaces
  BY DEF ApplyFile, At, LockPlaces, FilePlaces, GuardPlaces, authorityVars, tables
<1>0. /\ ProjTypeOK /\ TypeOK /\ LocksHeld /\ proc[p] \in ProcRow
      /\ GuardHeld(p) /\ WriterCurrent(p) /\ GivesUpStale(p) /\ JobClaim(p) \in Claims
      /\ \A q \in Procs : GuardHeld(q)
  BY <1>1, FileJobFacts
<1>2. Tame /\ UNCHANGED claimVars
  <2>1. ProcessStep(p)
    BY DEF ProcessStep, Step
  <2> QED BY <1>0, <2>1, ProcessIsTame
<1>3. /\ files' = [files EXCEPT ![RootOf[p]][JobClaim(p)] = proc[p].snap]
      /\ Become(p, [proc[p] EXCEPT !.pc = "ack"])
  BY ApplyWrites
<1> DEFINE row == [proc[p] EXCEPT !.pc = "ack"]
<1>4. /\ row \in ProcRow /\ row.pc = "ack" /\ row.job = proc[p].job
      /\ row.snap = proc[p].snap
      /\ row.processed = proc[p].processed /\ row.result = proc[p].result
  <2>1. "ack" \in PCs
    BY DEF PCs
  <2> QED BY <1>0, <2>1, GotoRow
<1> HIDE DEF row
<1>5. proc'[p] = row
  BY <1>0, <1>3, OwnRow DEF row
<1>6. RootOf[p] \in Roots /\ proc[p].snap \in AllViews
  BY <1>0, RowFields, ProcsAssumption
<1>7. /\ files' \in [Roots -> [Claims -> AllViews]]
      /\ files'[RootOf[p]][JobClaim(p)] = proc[p].snap
      /\ \A r \in Roots : \A c \in Claims :
           r # RootOf[p] \/ c # JobClaim(p) => files'[r][c] = files[r][c]
  BY <1>0, <1>3, <1>6 DEF ProjTypeOK
<1>8. JobClaim(p)' = JobClaim(p) /\ JobVersion(p)' = JobVersion(p)
  BY <1>4, <1>5 DEF JobClaim, JobVersion
<1>9. GuardHeld(p)' /\ GivesUpStale(p)'
  BY <1>0, <1>1, <1>4, <1>5 DEF GuardHeld, GivesUpStale, GuardOf, JobClaim
<1>10. WriterCurrent(p)'
  BY <1>0, <1>1, <1>2, <1>4, <1>5, <1>7, <1>8
     DEF WriterCurrent, View, Stale, Promoted, claimVars
<1>11. ASSUME NEW q \in Procs, q # p, proc[q].pc = "ack"
       PROVE  files'[RootOf[q]][JobClaim(q)] = files[RootOf[q]][JobClaim(q)]
  <2>1. proc[q].pc \in FilePlaces /\ proc[q].pc \in LockPlaces
    BY <1>11 DEF FilePlaces, LockPlaces
  <2>2. JobClaim(q) \in Claims /\ RootOf[q] \in Roots
    BY <2>1, FileJobFacts, ProcsAssumption
  <2>3. RootOf[q] # RootOf[p] \/ JobClaim(q) # JobClaim(p)
    BY <1>0, <1>1, <1>11, <2>1, OneUnderLock
  <2> QED BY <1>7, <2>2, <2>3
<1>12. \A q \in Procs : q # p /\ proc[q].pc \in GuardPlaces =>
           JobClaim(q) \in DOMAIN guards' /\ guards'[JobClaim(q)] = guards[JobClaim(q)]
  BY <1>0, <1>1 DEF GuardHeld
<1>13. row.pc \in LockPlaces /\ row.pc # "release"
  BY <1>4 DEF LockPlaces
<1> QED BY <1>1, <1>2, <1>3, <1>4, <1>7, <1>9, <1>10, <1>11, <1>12, <1>13, InsideLock
        DEF row

\* The guard that a process deletes by its id and attempt is no one else's.
LEMMA DropsOwnGuard ==
  ASSUME AuthorityKept, DrainsInv, NEW p \in Procs, proc[p].pc \in FilePlaces,
         \/ guards' = guards
         \/ HoldsGuard(p) /\ guards' = DropGuard(guards, JobClaim(p))
  PROVE  /\ DOMAIN guards' \subseteq Claims /\ guards' \in [DOMAIN guards' -> GuardRow]
         /\ \A q \in Procs : q # p /\ proc[q].pc \in GuardPlaces =>
              JobClaim(q) \in DOMAIN guards' /\ guards'[JobClaim(q)] = guards[JobClaim(q)]
<1>1. /\ ProjTypeOK /\ AttemptsApart /\ AtWork(p) /\ \A q \in Procs : GuardHeld(q)
  BY FileJobFacts
<1>2. DOMAIN guards \subseteq Claims /\ guards \in [DOMAIN guards -> GuardRow]
  BY <1>1 DEF ProjTypeOK
<1>3. ASSUME NEW q \in Procs, q # p, proc[q].pc \in GuardPlaces
      PROVE  JobClaim(q) \in DOMAIN guards' /\ guards'[JobClaim(q)] = guards[JobClaim(q)]
  <2>1. JobClaim(q) \in DOMAIN guards /\ guards[JobClaim(q)] = GuardOf(q)
    BY <1>1, <1>3 DEF GuardHeld
  <2>2. CASE guards' = guards
    BY <2>1, <2>2
  <2>3. CASE HoldsGuard(p) /\ guards' = DropGuard(guards, JobClaim(p))
    <3>1. JobClaim(q) # JobClaim(p)
      <4> SUFFICES ASSUME JobClaim(q) = JobClaim(p) PROVE FALSE
        OBVIOUS
      <4>1. /\ GuardOf(q).id = proc[p].job.id
            /\ GuardOf(q).attempt = proc[p].job.attempt
        BY <2>1, <2>3 DEF HoldsGuard
      <4>2. proc[q].job.id = proc[p].job.id /\ proc[q].job.attempt = proc[p].job.attempt
        BY <4>1 DEF GuardOf
      <4>3. AtWork(q)
        BY <1>3 DEF AtWork, GuardPlaces, FilePlaces, LockPlaces
      <4> QED BY <1>1, <1>3, <4>2, <4>3 DEF AttemptsApart
    <3> QED BY <2>1, <2>3, <3>1 DEF DropGuard
  <2> QED BY <2>2, <2>3
<1>4. DOMAIN guards' \subseteq Claims /\ guards' \in [DOMAIN guards' -> GuardRow]
  BY <1>2 DEF DropGuard
<1> QED BY <1>3, <1>4

\* ack_memory_memfs_projection_job.
LEMMA AckKeeps ==
  ASSUME AuthorityKept, DrainsInv, NEW p \in Procs, Ack(p)
  PROVE  DrainsInv'
<1>1. /\ proc[p].pc = "ack" /\ UNCHANGED <<lock, ftsRow, files, budget>>
      /\ proc[p].pc \in LockPlaces /\ proc[p].pc \in FilePlaces
  BY DEF Ack, At, LockPlaces, FilePlaces
<1>0. ProjTypeOK /\ TypeOK /\ proc[p] \in ProcRow /\ GivesUpStale(p)
  BY <1>1, FileJobFacts
<1>2. Tame /\ UNCHANGED claimVars
  <2>1. ProcessStep(p)
    BY DEF ProcessStep, Step
  <2> QED BY <1>0, <2>1, ProcessIsTame
<1>3. PICK out \in {"applied", "lost"} :
        /\ Become(p, [proc[p] EXCEPT !.pc = "release", !.out = out])
        /\ \/ guards' = guards
           \/ HoldsGuard(p) /\ guards' = DropGuard(guards, JobClaim(p))
  BY DEF Ack
<1> DEFINE row == [proc[p] EXCEPT !.pc = "release", !.out = out]
<1>4. /\ row \in ProcRow /\ row.pc = "release" /\ row.out = out
      /\ row.job = proc[p].job /\ row.processed = proc[p].processed
      /\ row.result = proc[p].result
  <2>1. out \in {"error", "obsolete", "applied", "lost"}
    OBVIOUS
  <2> QED BY <1>0, <2>1, VerdictRow
<1> HIDE DEF row
<1>5. proc'[p] = row
  BY <1>0, <1>3, OwnRow DEF row
<1>6. GuardHeld(p)' /\ WriterCurrent(p)' /\ GivesUpStale(p)'
  BY <1>4, <1>5 DEF GuardHeld, WriterCurrent, GivesUpStale, GuardPlaces
<1>7. /\ DOMAIN guards' \subseteq Claims /\ guards' \in [DOMAIN guards' -> GuardRow]
      /\ \A q \in Procs : q # p /\ proc[q].pc \in GuardPlaces =>
           JobClaim(q) \in DOMAIN guards' /\ guards'[JobClaim(q)] = guards[JobClaim(q)]
  BY <1>1, <1>3, DropsOwnGuard
<1>8. row.pc \in LockPlaces /\ row.out # "none"
  BY <1>4 DEF LockPlaces
<1> QED BY <1>1, <1>2, <1>3, <1>4, <1>6, <1>7, <1>8, InsideLock DEF row

\* A process that gives back its lock, and keeps at most the job to settle it.
LEMMA Unlocks ==
  ASSUME DrainsInv, NEW p \in Procs, \A q \in Procs : q # p => proc'[q] = proc[q],
         lock' = [k \in {l \in DOMAIN lock : lock[l] # p} |-> lock[k]],
         proc'[p].pc \notin LockPlaces
  PROVE  /\ LocksHeld'
         /\ DOMAIN lock' \subseteq Roots \X Claims /\ lock' \in [DOMAIN lock' -> Procs]
<1>1. LocksHeld /\ lock \in [DOMAIN lock -> Procs] /\ DOMAIN lock \subseteq Roots \X Claims
  BY DEF DrainsInv, ProjTypeOK
<1>2. ASSUME NEW q \in Procs, proc'[q].pc \in LockPlaces
      PROVE  /\ q # p /\ <<RootOf[q], proc'[q].job.key[2]>> \in DOMAIN lock'
             /\ lock'[<<RootOf[q], proc'[q].job.key[2]>>] = q
  <2>1. q # p /\ proc'[q] = proc[q]
    BY <1>2
  <2>2. <<RootOf[q], proc'[q].job.key[2]>> = LockKey(q)
    BY <2>1 DEF LockKey, JobClaim
  <2>3. LockKey(q) \in DOMAIN lock /\ lock[LockKey(q)] = q
    BY <1>1, <1>2, <2>1 DEF LocksHeld
  <2> QED BY <2>1, <2>2, <2>3
<1>3. ASSUME NEW k \in DOMAIN lock'
      PROVE  /\ proc'[lock'[k]].pc \in LockPlaces
             /\ <<RootOf[lock'[k]], proc'[lock'[k]].job.key[2]>> = k
  <2>1. k \in DOMAIN lock /\ lock'[k] = lock[k] /\ lock[k] \in Procs /\ lock[k] # p
    BY <1>1
  <2>2. proc'[lock'[k]] = proc[lock[k]]
    BY <2>1
  <2>3. proc[lock[k]].pc \in LockPlaces /\ LockKey(lock[k]) = k
    BY <1>1, <2>1 DEF LocksHeld
  <2> QED BY <2>1, <2>2, <2>3 DEF LockKey, JobClaim
<1>4. LocksHeld'
  BY <1>2, <1>3 DEF LocksHeld, LockKey, JobClaim
<1>5. DOMAIN lock' \subseteq Roots \X Claims /\ lock' \in [DOMAIN lock' -> Procs]
  BY <1>1
<1> QED BY <1>4, <1>5

\* The two context managers are left: guard and lock go, a verdict stays.
LEMMA ReleaseKeeps ==
  ASSUME AuthorityKept, DrainsInv, NEW p \in Procs, Release(p)
  PROVE  DrainsInv'
<1>1. /\ proc[p].pc = "release" /\ UNCHANGED <<ftsRow, files, budget>>
      /\ proc[p].pc \in LockPlaces /\ proc[p].pc \in FilePlaces
      /\ lock' = DropGuard(lock, LockKey(p))
      /\ \/ guards' = guards
         \/ HoldsGuard(p) /\ guards' = DropGuard(guards, JobClaim(p))
  BY DEF Release, At, LockPlaces, FilePlaces
<1>0. /\ ProjTypeOK /\ TypeOK /\ AuthorityInv /\ LocksHeld /\ proc[p] \in ProcRow
      /\ AtWork(p) /\ HoldsJob(p) /\ GivesUpStale(p) /\ proc[p].result = "none"
  BY <1>1, FileJobFacts
<1>2. Tame /\ UNCHANGED claimVars
  <2>1. ProcessStep(p)
    BY DEF ProcessStep, Step
  <2> QED BY <1>0, <2>1, ProcessIsTame
<1>3. proc[p].out \in {"error", "obsolete", "applied", "lost"}
  BY <1>0, <1>1, RowFields DEF HoldsJob
<1>4. PICK row :
        /\ Become(p, row)
        /\ \/ proc[p].out = "applied" /\ row = Applied(p, "round")
           \/ row = Idle("failed")
           \/ proc[p].out = "obsolete" /\ row = [proc[p] EXCEPT !.pc = "memfsObsolete"]
           \/ proc[p].out = "error" /\ row = [proc[p] EXCEPT !.pc = "memfsFail"]
  BY <1>3 DEF Release, Raise, Goto
<1>5. proc'[p] = row /\ \A q \in Procs : q # p => proc'[q] = proc[q]
  BY <1>0, <1>4, OwnRow
<1>6. lock' = [k \in {l \in DOMAIN lock : lock[l] # p} |-> lock[k]]
  <2>1. {l \in DOMAIN lock : lock[l] # p} = DOMAIN lock \ {LockKey(p)}
    BY <1>0, <1>1 DEF LocksHeld
  <2> QED BY <1>1, <2>1 DEF DropGuard
<1>7. /\ DOMAIN guards' \subseteq Claims /\ guards' \in [DOMAIN guards' -> GuardRow]
      /\ \A q \in Procs : q # p /\ proc[q].pc \in GuardPlaces =>
           JobClaim(q) \in DOMAIN guards' /\ guards'[JobClaim(q)] = guards[JobClaim(q)]
  BY <1>1, DropsOwnGuard
<1>8. \A q \in Procs : q # p /\ proc[q].pc = "ack" =>
           files'[RootOf[q]][JobClaim(q)] = files[RootOf[q]][JobClaim(q)]
  BY <1>1
<1>9. CASE row = Applied(p, "round") \/ row = Idle("failed")
  <2>1. /\ row \in ProcRow /\ row.pc \in {"idle", "round"}
        /\ row.pc # "idle" => row.result = "none"
    <3>1. CASE row = Idle("failed")
      BY <3>1, IdleRow
    <3>2. CASE row = Applied(p, "round")
      <4>1. proc[p].processed < MaxJobs /\ "round" \in PCs
        BY <1>0 DEF HoldsJob, PCs
      <4> QED BY <1>0, <3>2, <4>1, DoneRow
    <3> QED BY <1>9, <3>1, <3>2
  <2>2. row.pc \notin FtsPlaces \cup FilePlaces /\ row.pc \notin LockPlaces
    BY <2>1 DEF FtsPlaces, FilePlaces, LockPlaces
  <2>3. /\ LocksHeld'
        /\ DOMAIN lock' \subseteq Roots \X Claims /\ lock' \in [DOMAIN lock' -> Procs]
    BY <1>5, <1>6, <2>2, Unlocks
  <2>4. ProjTypeOK'
    BY <1>0, <1>1, <1>4, <1>7, <2>1, <2>3, TypesStay
  <2>5. /\ ~AtWork(p)'
        /\ HoldsJob(p)' /\ GuardHeld(p)' /\ WriterCurrent(p)' /\ GivesUpStale(p)'
    BY <1>5, <2>1, <2>2, Resting
  <2> QED BY <1>2, <1>5, <1>7, <1>8, <2>3, <2>4, <2>5, Move
<1>10. CASE \E pc \in {"memfsObsolete", "memfsFail"} :
              /\ row = [proc[p] EXCEPT !.pc = pc]
              /\ pc = "memfsObsolete" => proc[p].out = "obsolete"
  <2>1. PICK pc \in {"memfsObsolete", "memfsFail"} :
              /\ row = [proc[p] EXCEPT !.pc = pc]
              /\ pc = "memfsObsolete" => proc[p].out = "obsolete"
    BY <1>10
  <2>2. pc \in PCs /\ pc \notin LockPlaces /\ pc \in FilePlaces /\ pc \notin FtsPlaces
    BY DEF PCs, FtsPlaces, FilePlaces, LockPlaces
  <2>3. /\ row \in ProcRow /\ row.pc = pc /\ row.job = proc[p].job
        /\ row.processed = proc[p].processed /\ row.result = proc[p].result
    BY <1>0, <2>1, <2>2, GotoRow
  <2>4. /\ LocksHeld'
        /\ DOMAIN lock' \subseteq Roots \X Claims /\ lock' \in [DOMAIN lock' -> Procs]
    BY <1>5, <1>6, <2>2, <2>3, Unlocks
  <2>5. ProjTypeOK'
    BY <1>0, <1>1, <1>4, <1>7, <2>3, <2>4, TypesStay
  <2>6. HoldsJob(p)'
    <3>1. proc[p].pc \notin FtsPlaces /\ pc # "release"
      BY <1>1 DEF FtsPlaces
    <3> QED BY <1>0, <1>2, <1>5, <2>2, <2>3, <3>1, GoesOn
  <2>7. GuardHeld(p)' /\ WriterCurrent(p)'
    BY <1>5, <2>3 DEF GuardHeld, WriterCurrent, GuardPlaces
  <2>8. GivesUpStale(p)'
    BY <1>0, <1>1, <1>2, <1>5, <2>1, <2>3
       DEF GivesUpStale, JobClaim, JobVersion, claimVars
  <2> QED BY <1>0, <1>2, <1>5, <1>7, <1>8, <2>3, <2>4, <2>5, <2>6, <2>7, <2>8, Move
<1> QED BY <1>4, <1>9, <1>10

\* A crash frees the lock and leaves the guard row, which says nothing of a
\* process any more.
LEMMA CrashKeeps ==
  ASSUME AuthorityKept, DrainsInv, NEW p \in Procs, Crash(p)
  PROVE  DrainsInv'
<1>1. /\ UNCHANGED <<guards, ftsRow, files>> /\ Spend("crash", MaxCrashes)
      /\ Become(p, Idle("none"))
      /\ lock' = [k \in {l \in DOMAIN lock : lock[l] # p} |-> lock[k]]
  BY DEF Crash, authorityVars, tables
<1>0. ProjTypeOK /\ TypeOK /\ GivesUpStale(p)
  BY ProcFacts
<1>2. Tame /\ UNCHANGED claimVars
  <2>1. ProcessStep(p)
    BY DEF ProcessStep
  <2> QED BY <1>0, <2>1, ProcessIsTame
<1>3. Idle("none") \in ProcRow /\ Idle("none").pc = "idle"
  BY IdleRow
<1>4. proc'[p] = Idle("none") /\ \A q \in Procs : q # p => proc'[q] = proc[q]
  BY <1>0, <1>1, OwnRow
<1>5. "idle" \notin FtsPlaces \cup FilePlaces /\ "idle" \notin LockPlaces
  BY DEF FtsPlaces, FilePlaces, LockPlaces
<1>6. /\ LocksHeld'
      /\ DOMAIN lock' \subseteq Roots \X Claims /\ lock' \in [DOMAIN lock' -> Procs]
  BY <1>1, <1>3, <1>4, <1>5, Unlocks
<1>7. budget' \in [{"crash", "stall", "io", "rebuild"} -> Nat]
  BY <1>0, <1>1, BudgetCounts
<1>8. ProjTypeOK'
  BY <1>0, <1>1, <1>3, <1>6, <1>7, TypesStay
<1>9. /\ ~AtWork(p)'
      /\ HoldsJob(p)' /\ GuardHeld(p)' /\ WriterCurrent(p)' /\ GivesUpStale(p)'
  BY <1>3, <1>4, <1>5, Resting
<1>10. \A q \in Procs : q # p /\ proc[q].pc \in GuardPlaces =>
           JobClaim(q) \in DOMAIN guards' /\ guards'[JobClaim(q)] = guards[JobClaim(q)]
  BY <1>1 DEF DrainsInv, GuardHeld
<1>11. \A q \in Procs : q # p /\ proc[q].pc = "ack" =>
           files'[RootOf[q]][JobClaim(q)] = files[RootOf[q]][JobClaim(q)]
  BY <1>1
<1> QED BY <1>2, <1>4, <1>6, <1>8, <1>9, <1>10, <1>11, Move

\* So every step of a process other than a rebuild keeps the invariant.
LEMMA ProcessKeeps ==
  ASSUME AuthorityKept, DrainsInv, NEW p \in Procs, ProcessStep(p)
  PROVE  DrainsInv'
<1>1. CASE \/ Start(p) \/ RoundEnd(p) \/ Cleanup(p) \/ SweepFails(p)
           \/ MarkFailed(p, "ftsFail") \/ MarkFailed(p, "memfsFail")
           \/ MarkObsolete(p, "ftsObsolete", "memfs")
           \/ MarkObsolete(p, "memfsObsolete", "round")
  BY <1>1, BetweenJobs
<1>2. CASE ClaimFts(p) \/ ClaimMemfs(p)
  BY <1>2, ClaimKeeps
<1>3. CASE FtsApply(p)
  BY <1>3, FtsApplyKeeps
<1>4. CASE Lock(p) \/ TakeGuard(p) \/ Read(p)
  BY <1>4, LockKeeps, TakeGuardKeeps, ReadKeeps
<1>5. CASE ApplyFile(p) \/ FileError(p)
  BY <1>5, ApplyFileKeeps, FileErrorKeeps
<1>6. CASE Ack(p) \/ Release(p) \/ Crash(p)
  BY <1>6, AckKeeps, ReleaseKeeps, CrashKeeps
<1> QED BY <1>1, <1>2, <1>3, <1>4, <1>5, <1>6 DEF ProcessStep, Step

-----------------------------------------------------------------------------
(* The clock, the services and a rebuild. *)

\* Leases that expire and retries that come due leave every process as it is.
LEMMA ClockKeeps ==
  ASSUME AuthorityKept, DrainsInv, ClockStep
  PROVE  DrainsInv'
<1>0. ProjTypeOK /\ TypeOK
  BY DEF DrainsInv, AuthorityKept, AuthorityInv
<1>1. /\ Tame /\ UNCHANGED claimVars /\ UNCHANGED <<guards, proc, lock, ftsRow, files>>
      /\ \/ UNCHANGED budget
         \/ budget["stall"] < MaxStalls /\ budget' = [budget EXCEPT !["stall"] = @ + 1]
  BY <1>0, ClockIsTame
<1>2. JobIds' /\ ObsoleteIsStale'
  BY <1>1, TameJobs
<1>3. ProjTypeOK'
  <2>1. budget' \in [{"crash", "stall", "io", "rebuild"} -> Nat]
    <3>1. budget' = budget \/ Spend("stall", MaxStalls)
      BY <1>1 DEF Spend
    <3> QED BY <1>0, <3>1, BudgetCounts DEF ProjTypeOK
  <2> QED BY <1>0, <1>1, <2>1 DEF ProjTypeOK
<1>4. AttemptsApart' /\ LocksHeld'
  BY <1>1 DEF DrainsInv, AttemptsApart, LocksHeld, AtWork, LockKey, JobClaim
<1>5. \A q \in Procs :
        HoldsJob(q)' /\ GuardHeld(q)' /\ WriterCurrent(q)' /\ GivesUpStale(q)'
  <2> SUFFICES ASSUME NEW q \in Procs
               PROVE  HoldsJob(q)' /\ GuardHeld(q)' /\ WriterCurrent(q)' /\ GivesUpStale(q)'
    OBVIOUS
  <2>1. GuardHeld(q)
    BY DEF DrainsInv
  <2> QED BY <1>1, <2>1, Bystander DEF GuardHeld
<1> QED BY <1>2, <1>3, <1>4, <1>5 DEF DrainsInv

\* A rebuild runs when no guard stands, so no process is writing; the others
\* find that their job is gone.
LEMMA RebuildKeeps ==
  ASSUME AuthorityKept, DrainsInv, NEW p \in Procs, Rebuild(p)
  PROVE  DrainsInv'
<1>0. /\ ProjTypeOK /\ TypeOK /\ AuthorityInv
      /\ \A q \in Procs : HoldsJob(q) /\ GuardHeld(q) /\ GivesUpStale(q)
  BY DEF DrainsInv, AuthorityKept, AuthorityInv
<1>1. /\ proc[p].pc = "idle" /\ DOMAIN guards = {} /\ Spend("rebuild", MaxRebuilds)
      /\ ftsRow' = [c \in Claims |-> NoView] /\ Become(p, Fresh(TRUE))
      /\ UNCHANGED claimVars /\ UNCHANGED <<guards, lock, files>>
  BY DEF Rebuild, At, RebuildRefused
<1>2. /\ outboxSeq' \in Nat /\ outboxSeq <= outboxSeq'
      /\ \A key \in DOMAIN outbox' :
           /\ outbox'[key].status = "pending"
           /\ outboxSeq < outbox'[key].id /\ outbox'[key].id <= outboxSeq'
           /\ outbox'[key] \in JobRow
      /\ \A j, k \in DOMAIN outbox' : outbox'[j].id = outbox'[k].id => j = k
  BY RebuildRows
<1>3. /\ Fresh(TRUE) \in ProcRow /\ Fresh(TRUE).pc = "fts" /\ Fresh(TRUE).result = "none"
  BY FreshRow
<1>4. proc'[p] = Fresh(TRUE) /\ \A q \in Procs : q # p => proc'[q] = proc[q]
  BY <1>0, <1>1, OwnRow
<1>5. ProjTypeOK'
  <2>1. budget' \in [{"crash", "stall", "io", "rebuild"} -> Nat]
    BY <1>0, <1>1, BudgetCounts
  <2>2. NoView \in AllViews
    BY DEF AllViews
  <2> QED BY <1>0, <1>1, <1>3, <2>1, <2>2, TypesStay
<1>6. "fts" \notin FtsPlaces \cup FilePlaces /\ "fts" \notin LockPlaces
      /\ "idle" \notin LockPlaces
  BY DEF FtsPlaces, FilePlaces, LockPlaces
<1>7. LocksHeld'
  BY <1>1, <1>3, <1>4, <1>5, <1>6, LocksStay
<1>8. JobIds' /\ ObsoleteIsStale'
  BY <1>2 DEF JobIds, ObsoleteIsStale
<1>9. /\ ~AtWork(p)'
      /\ HoldsJob(p)' /\ GuardHeld(p)' /\ WriterCurrent(p)' /\ GivesUpStale(p)'
  BY <1>3, <1>4, <1>6, Resting
<1>10. ASSUME NEW q \in Procs, q # p
       PROVE  HoldsJob(q)' /\ GuardHeld(q)' /\ WriterCurrent(q)' /\ GivesUpStale(q)'
  <2>0. proc'[q] = proc[q] /\ HoldsJob(q) /\ GuardHeld(q) /\ GivesUpStale(q)
    BY <1>0, <1>4, <1>10
  <2>1. proc[q].pc \notin GuardPlaces
    BY <1>1, <2>0 DEF GuardHeld
  <2>2. AtWork(q) => /\ \A key \in DOMAIN outbox' : outbox'[key].id # proc[q].job.id
                     /\ proc[q].job.id <= outboxSeq'
    <3> SUFFICES ASSUME AtWork(q)
                 PROVE  /\ \A key \in DOMAIN outbox' : outbox'[key].id # proc[q].job.id
                        /\ proc[q].job.id <= outboxSeq'
      OBVIOUS
    <3>1. proc[q].job.id \in Nat /\ proc[q].job.id <= outboxSeq /\ outboxSeq \in Nat
      BY <1>0, <2>0, HeldJob DEF HoldsJob, TypeOK
    <3>2. \A key \in DOMAIN outbox' : outbox'[key].id \in Nat
      BY <1>2 DEF JobRow
    <3> QED BY <1>2, <3>1, <3>2
  <2>3. HoldsJob(q)'
    BY <1>1, <2>0, <2>2 DEF HoldsJob, AtWork, JobClaim, JobVersion, claimVars
  <2>4. GuardHeld(q)' /\ WriterCurrent(q)'
    BY <2>0, <2>1 DEF GuardHeld, WriterCurrent, GuardPlaces
  <2>5. GivesUpStale(q)'
    BY <1>1, <2>0 DEF GivesUpStale, JobClaim, JobVersion, claimVars
  <2> QED BY <2>3, <2>4, <2>5
<1>11. AttemptsApart'
  BY <1>4, <1>9 DEF DrainsInv, AttemptsApart, AtWork
<1> QED BY <1>5, <1>7, <1>8, <1>9, <1>10, <1>11 DEF DrainsInv

\* What a call of a service does to the jobs: old ones keep their id and
\* attempt, none is finished or given up, and new ones have ids of their own.
NewJobsNumbered ==
  /\ outboxSeq <= outboxSeq'
  /\ \A key \in DOMAIN outbox :
       /\ key \in DOMAIN outbox'
       /\ outbox'[key].id = outbox[key].id
       /\ outbox'[key].attempt = outbox[key].attempt
       /\ outbox'[key].status \in {"pending", outbox[key].status}
  /\ \A key \in DOMAIN outbox' : key \notin DOMAIN outbox =>
       /\ outboxSeq < outbox'[key].id /\ outbox'[key].id <= outboxSeq'
       /\ outbox'[key].status = "pending"
  /\ \A j, k \in DOMAIN outbox' :
       /\ j \notin DOMAIN outbox /\ k \notin DOMAIN outbox
       /\ outbox'[j].id = outbox'[k].id
       => j = k

\* A table with the two jobs of a version in it, and the counter after it: the
\* jobs that were not there take their ids from the counter.
Extended(new, seq, claim, version, authority, hash) ==
  /\ outboxSeq <= seq
  /\ DOMAIN new = DOMAIN outbox \cup JobsOf(claim, version)
  /\ \A key \in DOMAIN outbox : new[key] = outbox[key]
  /\ \A key \in DOMAIN new : key \notin DOMAIN outbox =>
       /\ outboxSeq < new[key].id /\ new[key].id <= seq
       /\ new[key] = NewJob(new[key].id, authority, hash)
  /\ \A j, k \in DOMAIN new :
       /\ j \notin DOMAIN outbox /\ k \notin DOMAIN outbox
       /\ new[j].id = new[k].id
       => j = k

\* _enqueue extends the table.
LEMMA EnqueueExtends ==
  ASSUME TypeOK, NEW claim, NEW version, NEW authority, NEW hash
  PROVE  Extended(Enqueue(outbox, outboxSeq, claim, version, authority, hash),
                  NextSeq(outbox, outboxSeq, claim, version),
                  claim, version, authority, hash)
<1> SUFFICES ASSUME NEW new, new = Enqueue(outbox, outboxSeq, claim, version, authority, hash),
                    NEW seq, seq = NextSeq(outbox, outboxSeq, claim, version)
             PROVE  Extended(new, seq, claim, version, authority, hash)
  OBVIOUS
<1>0. outboxSeq \in Nat
  BY DEF TypeOK
<1>1. /\ DOMAIN new = DOMAIN outbox \cup JobsOf(claim, version)
      /\ \A key \in DOMAIN outbox : new[key] = outbox[key]
      /\ \A key \in JobsOf(claim, version) \ DOMAIN outbox :
           new[key] = NewJob(outboxSeq + Slot(key[1]), authority, hash)
  BY DEF Enqueue
<1>2. ASSUME NEW key \in DOMAIN new, key \notin DOMAIN outbox
      PROVE  /\ new[key].id = outboxSeq + Slot(key[1])
             /\ new[key] = NewJob(new[key].id, authority, hash)
             /\ key \in JobsOf(claim, version) /\ seq = outboxSeq + 2
             /\ Slot(key[1]) \in {1, 2}
  <2>1. key \in JobsOf(claim, version)
    BY <1>1, <1>2
  <2>2. new[key] = NewJob(outboxSeq + Slot(key[1]), authority, hash)
    BY <1>1, <1>2, <2>1
  <2>3. new[key].id = outboxSeq + Slot(key[1])
    BY <2>2 DEF NewJob
  <2>4. seq = outboxSeq + 2
    BY <1>2, <2>1 DEF NextSeq
  <2> QED BY <2>1, <2>2, <2>3, <2>4 DEF Slot
<1>3. seq \in {outboxSeq, outboxSeq + 2}
  BY DEF NextSeq
<1>4. outboxSeq <= seq
  BY <1>0, <1>3
<1>5. \A key \in DOMAIN new : key \notin DOMAIN outbox =>
        /\ outboxSeq < new[key].id /\ new[key].id <= seq
        /\ new[key] = NewJob(new[key].id, authority, hash)
  <2> SUFFICES ASSUME NEW key \in DOMAIN new, key \notin DOMAIN outbox
               PROVE  /\ outboxSeq < new[key].id /\ new[key].id <= seq
                      /\ new[key] = NewJob(new[key].id, authority, hash)
    OBVIOUS
  <2>1. /\ new[key].id = outboxSeq + Slot(key[1])
        /\ new[key] = NewJob(new[key].id, authority, hash)
        /\ seq = outboxSeq + 2 /\ Slot(key[1]) \in {1, 2}
    BY <1>2
  <2> QED BY <1>0, <2>1
<1>6. \A j, k \in DOMAIN new :
        /\ j \notin DOMAIN outbox /\ k \notin DOMAIN outbox /\ new[j].id = new[k].id
        => j = k
  <2> SUFFICES ASSUME NEW j \in DOMAIN new, NEW k \in DOMAIN new,
                      j \notin DOMAIN outbox, k \notin DOMAIN outbox,
                      new[j].id = new[k].id
               PROVE  j = k
    OBVIOUS
  <2>1. /\ Slot(j[1]) = Slot(k[1])
        /\ j \in JobsOf(claim, version) /\ k \in JobsOf(claim, version)
    <3>1. /\ new[j].id = outboxSeq + Slot(j[1]) /\ Slot(j[1]) \in {1, 2}
          /\ new[k].id = outboxSeq + Slot(k[1]) /\ Slot(k[1]) \in {1, 2}
          /\ j \in JobsOf(claim, version) /\ k \in JobsOf(claim, version)
      BY <1>2
    <3>2. outboxSeq + Slot(j[1]) = outboxSeq + Slot(k[1])
      BY <3>1
    <3>3. \A m, n \in {1, 2} : outboxSeq + m = outboxSeq + n => m = n
      BY <1>0
    <3> QED BY <3>1, <3>2, <3>3
  <2>2. PICK a \in Kinds, b \in Kinds : j = <<a, claim, version>> /\ k = <<b, claim, version>>
    BY <2>1 DEF JobsOf
  <2>3. a = b
    BY <2>1, <2>2 DEF Slot, Kinds
  <2> QED BY <2>2, <2>3
<1> QED BY <1>1, <1>4, <1>5, <1>6 DEF Extended

\* A claim that changes has both its jobs to do.
ChangeReopens ==
  \A c \in DOMAIN current' :
    \/ c \in DOMAIN current /\ current'[c] = current[c]
    \/ \A key \in JobsOf(c, current'[c].version) :
         key \in DOMAIN outbox' /\ outbox'[key].status = "pending"

\* What a call of a service leaves to the projectors: versions stay, a claim's
\* version does not go back, a guarded claim does not change at all, a record
\* behind one is not withdrawn, and what changes is to be projected again.
ServiceStep ==
  /\ guards' = guards
  /\ \A k \in DOMAIN versions : k \in DOMAIN versions' /\ versions'[k] = versions[k]
  /\ \A c \in DOMAIN current :
       c \in DOMAIN current' /\ current[c].version <= current'[c].version
  /\ \A c \in DOMAIN guards :
       /\ c \in DOMAIN current' => c \in DOMAIN current
       /\ c \in DOMAIN current => current'[c] = current[c]
  /\ \A record \in LegacyRecords :
       \/ legacy'[record] = legacy[record]
       \/ \A k \in Promoted(record) : k[1] \notin DOMAIN guards
  /\ NewJobsNumbered /\ ChangeReopens

\* A call that leaves the outbox alone numbers nothing.
LEMMA NoNewJobs ==
  ASSUME TypeOK, UNCHANGED <<outbox, outboxSeq>>
  PROVE  NewJobsNumbered
<1>1. outboxSeq \in Nat
  BY DEF TypeOK
<1> QED BY <1>1 DEF NewJobsNumbered

\* A call whose only statement on the outbox is one _enqueue.
LEMMA EnqueueNumbered ==
  ASSUME TypeOK, NEW claim, NEW version, NEW authority, NEW hash,
         outbox' = Enqueue(outbox, outboxSeq, claim, version, authority, hash),
         outboxSeq' = NextSeq(outbox, outboxSeq, claim, version)
  PROVE  NewJobsNumbered
<1> DEFINE new == Enqueue(outbox, outboxSeq, claim, version, authority, hash)
           seq == NextSeq(outbox, outboxSeq, claim, version)
<1>0. Extended(new, seq, claim, version, authority, hash)
  BY EnqueueExtends
<1>2. outbox' = new /\ outboxSeq' = seq
  OBVIOUS
<1> HIDE DEF new, seq
<1>1. /\ outboxSeq <= seq
      /\ DOMAIN new = DOMAIN outbox \cup JobsOf(claim, version)
      /\ \A key \in DOMAIN outbox : new[key] = outbox[key]
      /\ \A key \in DOMAIN new : key \notin DOMAIN outbox =>
           /\ outboxSeq < new[key].id /\ new[key].id <= seq
           /\ new[key] = NewJob(new[key].id, authority, hash)
      /\ \A j, k \in DOMAIN new :
           /\ j \notin DOMAIN outbox /\ k \notin DOMAIN outbox
           /\ new[j].id = new[k].id
           => j = k
  BY <1>0 DEF Extended
<1>3. ASSUME NEW key \in DOMAIN new, key \notin DOMAIN outbox
      PROVE  new[key].status = "pending"
  <2>1. new[key] = NewJob(new[key].id, authority, hash)
    BY <1>1, <1>3
  <2> QED BY <2>1 DEF NewJob
<1> QED BY <1>1, <1>2, <1>3 DEF NewJobsNumbered

\* The jobs of a version that is new are new.
LEMMA NewJobsPending ==
  ASSUME JobsAreCommitted, NewJobsNumbered, NEW claim, NEW version, NEW authority,
         NEW hash, <<claim, version>> \notin DOMAIN versions,
         outbox' = Enqueue(outbox, outboxSeq, claim, version, authority, hash)
  PROVE  \A key \in JobsOf(claim, version) :
           key \in DOMAIN outbox' /\ outbox'[key].status = "pending"
<1>1. JobsOf(claim, version) \cap DOMAIN outbox = {}
  BY NewVersionNewJobs
<1>2. JobsOf(claim, version) \subseteq DOMAIN outbox'
  BY DEF Enqueue
<1> QED BY <1>1, <1>2 DEF NewJobsNumbered

\* The first version of a claim.
LEMMA WriteServes ==
  ASSUME AuthorityKept, NEW r \in WriteRequests, Write(r)
  PROVE  ServiceStep
<1>0. AuthorityInv /\ TypeOK /\ JobsAreCommitted
  BY DEF AuthorityKept, AuthorityInv
<1>1. /\ <<r.claim, 1>> \notin DOMAIN versions
      /\ DOMAIN versions' = DOMAIN versions \cup {<<r.claim, 1>>}
      /\ \A k \in DOMAIN versions : versions'[k] = versions[k]
      /\ DOMAIN current' = DOMAIN current \cup {r.claim}
      /\ r.claim \notin DOMAIN current
      /\ \A c \in DOMAIN current : current'[c] = current[c]
  BY <1>0, WriteStep
<1>2. /\ r.claim \notin DOMAIN guards /\ UNCHANGED <<guards, legacy>>
      /\ outbox' = Enqueue(outbox, outboxSeq, r.claim, 1,
                           LastSource(WriteSources(r)), r.content)
      /\ outboxSeq' = NextSeq(outbox, outboxSeq, r.claim, 1)
  BY DEF Write, Unguarded
<1>3. NewJobsNumbered
  BY <1>0, <1>2, EnqueueNumbered
<1>4. \A c \in DOMAIN current : current[c].version \in Nat
  BY <1>0 DEF TypeOK, CurrentRow
<1>5. \A c \in DOMAIN current :
        c \in DOMAIN current' /\ current[c].version <= current'[c].version
  BY <1>1, <1>4
<1>6. ChangeReopens
  <2>1. current'[r.claim].version = 1
    <3>1. current'[r.claim] = [version |-> 1, gid |-> Len(gov) + 1, state |-> "active"]
      BY <1>0, WriteStep
    <3> QED BY <3>1
  <2>2. \A key \in JobsOf(r.claim, 1) :
          key \in DOMAIN outbox' /\ outbox'[key].status = "pending"
    BY <1>0, <1>1, <1>2, <1>3, NewJobsPending
  <2> QED BY <1>1, <2>1, <2>2 DEF ChangeReopens
<1> QED BY <1>1, <1>2, <1>3, <1>5, <1>6 DEF ServiceStep

\* The next version.
LEMMA ReplaceServes ==
  ASSUME AuthorityKept, NEW r \in ReplaceRequests, Replace(r)
  PROVE  ServiceStep
<1>0. AuthorityInv /\ TypeOK /\ JobsAreCommitted
  BY DEF AuthorityKept, AuthorityInv
<1>1. /\ r.expected \in Nat \ {0}
      /\ DOMAIN versions' = DOMAIN versions \cup {<<r.claim, r.expected + 1>>}
      /\ \A k \in DOMAIN versions : versions'[k] = versions[k]
      /\ r.claim \in DOMAIN current /\ current[r.claim].version = r.expected
      /\ DOMAIN current' = DOMAIN current
      /\ current'[r.claim] = [version |-> r.expected + 1, gid |-> Len(gov) + 3,
                              state |-> "active"]
      /\ \A c \in DOMAIN current : c # r.claim => current'[c] = current[c]
  BY <1>0, ReplaceStep
<1>2. /\ r.claim \notin DOMAIN guards /\ UNCHANGED <<guards, legacy>>
      /\ outbox' = Enqueue(outbox, outboxSeq, r.claim, ReplaceJobVersion(r),
                           ReplaceSource(r), r.content)
      /\ outboxSeq' = NextSeq(outbox, outboxSeq, r.claim, ReplaceJobVersion(r))
  BY DEF Replace, Unguarded
<1>3. NewJobsNumbered
  BY <1>0, <1>2, EnqueueNumbered
<1>4. ASSUME NEW c \in DOMAIN current
      PROVE  c \in DOMAIN current' /\ current[c].version <= current'[c].version
  <2>1. current[c].version \in Nat
    BY <1>0 DEF TypeOK, CurrentRow
  <2>2. CASE c = r.claim
    <3>1. current'[c].version = r.expected + 1
      BY <1>1, <2>2
    <3> QED BY <1>1, <2>2, <3>1
  <2>3. CASE c # r.claim
    BY <1>1, <2>1, <2>3
  <2> QED BY <2>2, <2>3
<1>5. ChangeReopens
  <2>1. <<r.claim, r.expected + 1>> \notin DOMAIN versions
    BY <1>0, ReplaceStep
  <2>2. \A key \in JobsOf(r.claim, r.expected + 1) :
          key \in DOMAIN outbox' /\ outbox'[key].status = "pending"
    BY <1>0, <1>2, <1>3, <2>1, NewJobsPending DEF ReplaceJobVersion
  <2>3. current'[r.claim].version = r.expected + 1
    BY <1>1
  <2> QED BY <1>1, <2>2, <2>3 DEF ChangeReopens
<1> QED BY <1>1, <1>2, <1>3, <1>4, <1>5 DEF ServiceStep

\* The end of a claim: its jobs are reopened with their ids and attempts.
LEMMA LifecycleServes ==
  ASSUME AuthorityKept, NEW r \in LifecycleRequests, Lifecycle(r)
  PROVE  ServiceStep
<1>0. AuthorityInv /\ TypeOK /\ JobsAreCommitted
  BY DEF AuthorityKept, AuthorityInv
<1>1. /\ r.expected \in Nat \ {0}
      /\ r.claim \in DOMAIN current /\ current[r.claim].version = r.expected
      /\ DOMAIN current' = DOMAIN current
      /\ current'[r.claim] = [version |-> r.expected, gid |-> Len(gov) + 1,
                              state |-> ActionTarget[r.action]]
      /\ \A c \in DOMAIN current : c # r.claim => current'[c] = current[c]
  BY <1>0, LifecycleStep
<1> DEFINE source == FirstSource(r.claim, r.expected)
           hash   == versions[<<r.claim, r.expected>>].content
           table  == Enqueue(outbox, outboxSeq, r.claim, r.expected, source, hash)
           seq    == NextSeq(outbox, outboxSeq, r.claim, r.expected)
<1>2. /\ r.claim \notin DOMAIN guards /\ UNCHANGED <<versions, guards, legacy>>
      /\ outbox' = Reopen(table, r.claim, r.expected) /\ outboxSeq' = seq
  BY DEF Lifecycle, Unguarded
<1>9. Extended(table, seq, r.claim, r.expected, source, hash)
  BY <1>0, EnqueueExtends
<1> HIDE DEF table, source, hash, seq
<1>3. /\ outboxSeq <= outboxSeq'
      /\ DOMAIN table = DOMAIN outbox \cup JobsOf(r.claim, r.expected)
      /\ \A key \in DOMAIN outbox : table[key] = outbox[key]
      /\ \A key \in DOMAIN table : key \notin DOMAIN outbox =>
           /\ outboxSeq < table[key].id /\ table[key].id <= outboxSeq'
           /\ table[key] = NewJob(table[key].id, source, hash)
      /\ \A j, k \in DOMAIN table :
           /\ j \notin DOMAIN outbox /\ k \notin DOMAIN outbox
           /\ table[j].id = table[k].id
           => j = k
  BY <1>2, <1>9 DEF Extended
<1>4. ASSUME NEW key \in DOMAIN table
      PROVE  /\ key \in DOMAIN outbox' /\ outbox'[key].id = table[key].id
             /\ outbox'[key].attempt = table[key].attempt
             /\ outbox'[key].status \in {"pending", table[key].status}
             /\ key \notin DOMAIN outbox => outbox'[key].status = "pending"
  <2> DEFINE reopened == [table[key] EXCEPT !.status = "pending", !.owner = Null,
                                            !.lease = "none", !.waiting = FALSE]
  <2>1. outbox'[key] \in {table[key], reopened} /\ key \in DOMAIN outbox'
    BY <1>2 DEF Reopen
  <2>2. /\ reopened.id = table[key].id /\ reopened.attempt = table[key].attempt
        /\ reopened.status = "pending"
        /\ key \notin DOMAIN outbox => table[key].status = "pending"
    <3>1. CASE key \in DOMAIN outbox
      <4>1. table[key] \in JobRow
        BY <1>0, <1>3, <3>1 DEF TypeOK
      <4> QED BY <3>1, <4>1 DEF JobRow
    <3>2. CASE key \notin DOMAIN outbox
      <4>1. table[key] = NewJob(table[key].id, source, hash)
        BY <1>3, <3>2
      <4> QED BY <4>1 DEF NewJob
    <3> QED BY <3>1, <3>2
  <2> HIDE DEF reopened
  <2> QED BY <2>1, <2>2
<1>5. DOMAIN outbox' = DOMAIN table
  BY <1>2 DEF Reopen
<1>6. NewJobsNumbered
  <2>1. \A key \in DOMAIN outbox :
          /\ key \in DOMAIN outbox'
          /\ outbox'[key].id = outbox[key].id
          /\ outbox'[key].attempt = outbox[key].attempt
          /\ outbox'[key].status \in {"pending", outbox[key].status}
    BY <1>3, <1>4
  <2>2. \A key \in DOMAIN outbox' : key \notin DOMAIN outbox =>
          /\ outboxSeq < outbox'[key].id /\ outbox'[key].id <= outboxSeq'
          /\ outbox'[key].status = "pending"
    BY <1>3, <1>4, <1>5
  <2>3. \A j, k \in DOMAIN outbox' :
          /\ j \notin DOMAIN outbox /\ k \notin DOMAIN outbox
          /\ outbox'[j].id = outbox'[k].id
          => j = k
    BY <1>3, <1>4, <1>5
  <2> QED BY <1>3, <2>1, <2>2, <2>3 DEF NewJobsNumbered
<1>7. ASSUME NEW c \in DOMAIN current
      PROVE  c \in DOMAIN current' /\ current[c].version <= current'[c].version
  <2>1. current[c].version \in Nat
    BY <1>0 DEF TypeOK, CurrentRow
  <2>2. current'[c].version = current[c].version
    BY <1>1
  <2> QED BY <1>1, <2>1, <2>2
<1>8. ChangeReopens
  <2>1. ASSUME NEW key \in JobsOf(r.claim, r.expected)
        PROVE  key \in DOMAIN outbox' /\ outbox'[key].status = "pending"
    <3>1. key \in DOMAIN table
      BY <1>3, <2>1
    <3>2. outbox'[key] = [table[key] EXCEPT !.status = "pending", !.owner = Null,
                                            !.lease = "none", !.waiting = FALSE]
      BY <1>2, <2>1, <3>1 DEF Reopen
    <3>3. table[key] \in JobRow \/ table[key] = NewJob(table[key].id, source, hash)
      BY <1>0, <1>3, <3>1 DEF TypeOK
    <3>4. outbox'[key].status = "pending"
      BY <3>2, <3>3 DEF JobRow, NewJob
    <3> QED BY <1>5, <3>1, <3>4
  <2>2. current'[r.claim].version = r.expected
    BY <1>1
  <2> QED BY <1>1, <2>1, <2>2 DEF ChangeReopens
<1> QED BY <1>1, <1>2, <1>6, <1>7, <1>8 DEF ServiceStep

\* A batch: the i-th claim takes the i-th pair of ids.
LEMMA PromoteServes ==
  ASSUME AuthorityKept, NEW batch \in PromotionBatches, Promote(batch)
  PROVE  ServiceStep
<1>0. AuthorityInv /\ TypeOK /\ JobsAreCommitted
  BY DEF AuthorityKept, AuthorityInv
<1>1. PICK n, record, claim : PromotedRows(n, record, claim)
  BY <1>0, PromoteStep
<1>2. /\ n \in Nat
      /\ \A i, j \in 1..n : claim[i] = claim[j] => i = j
      /\ \A i \in 1..n : <<claim[i], 1>> \notin DOMAIN versions
      /\ \A k \in DOMAIN versions : k \in DOMAIN versions' /\ versions'[k] = versions[k]
      /\ \A i \in 1..n : claim[i] \notin DOMAIN current /\ claim[i] \notin DOMAIN guards
      /\ DOMAIN current' = DOMAIN current \cup {claim[i] : i \in 1..n}
      /\ \A c \in DOMAIN current : current'[c] = current[c]
  BY <1>1 DEF PromotedRows, Unguarded
<1>3. /\ DOMAIN outbox' = DOMAIN outbox \cup UNION {JobsOf(claim[i], 1) : i \in 1..n}
      /\ \A key \in DOMAIN outbox : outbox'[key] = outbox[key]
      /\ \A i \in 1..n : \A key \in JobsOf(claim[i], 1) \ DOMAIN outbox :
           outbox'[key] = NewJob(outboxSeq + 2 * (i - 1) + Slot(key[1]), record[i],
                                 LegacyInfo[record[i]].content)
      /\ outboxSeq' = outboxSeq + 2 * n
  BY <1>1 DEF PromotedRows
<1>4. UNCHANGED <<guards, legacy>>
  BY DEF Promote
<1>5. outboxSeq \in Nat
  BY <1>0 DEF TypeOK
<1>6. ASSUME NEW key \in DOMAIN outbox', key \notin DOMAIN outbox
      PROVE  \E i \in 1..n : \E slot \in {1, 2} :
               /\ key \in JobsOf(claim[i], 1) /\ slot = Slot(key[1])
               /\ outbox'[key].id = outboxSeq + 2 * (i - 1) + slot
               /\ outbox'[key].status = "pending"
  <2>1. PICK i \in 1..n : key \in JobsOf(claim[i], 1)
    BY <1>3, <1>6
  <2> DEFINE id == outboxSeq + 2 * (i - 1) + Slot(key[1])
  <2>2. outbox'[key] = NewJob(id, record[i], LegacyInfo[record[i]].content)
    BY <1>3, <1>6, <2>1
  <2> HIDE DEF id
  <2>3. outbox'[key].id = id /\ outbox'[key].status = "pending"
    BY <2>2 DEF NewJob
  <2>4. Slot(key[1]) \in {1, 2}
    BY DEF Slot
  <2> QED BY <2>1, <2>3, <2>4 DEF id
<1>7. ASSUME NEW key \in DOMAIN outbox', key \notin DOMAIN outbox
      PROVE  /\ outboxSeq < outbox'[key].id /\ outbox'[key].id <= outboxSeq'
             /\ outbox'[key].status = "pending"
  <2>1. PICK i \in 1..n, slot \in {1, 2} :
               /\ outbox'[key].id = outboxSeq + 2 * (i - 1) + slot
               /\ outbox'[key].status = "pending"
    BY <1>6, <1>7
  <2> QED BY <1>2, <1>3, <1>5, <2>1
<1>8. ASSUME NEW j \in DOMAIN outbox', NEW k \in DOMAIN outbox',
             j \notin DOMAIN outbox, k \notin DOMAIN outbox,
             outbox'[j].id = outbox'[k].id
      PROVE  j = k
  <2>1. PICK a \in 1..n, s \in {1, 2} :
               /\ j \in JobsOf(claim[a], 1) /\ s = Slot(j[1])
               /\ outbox'[j].id = outboxSeq + 2 * (a - 1) + s
    BY <1>6, <1>8
  <2>2. PICK b \in 1..n, t \in {1, 2} :
               /\ k \in JobsOf(claim[b], 1) /\ t = Slot(k[1])
               /\ outbox'[k].id = outboxSeq + 2 * (b - 1) + t
    BY <1>6, <1>8
  <2>3. outboxSeq + 2 * (a - 1) + s = outboxSeq + 2 * (b - 1) + t
    BY <1>8, <2>1, <2>2
  <2>4. a = b /\ s = t
    <3>1. a \in Nat /\ b \in Nat
      BY <1>2
    <3> QED BY <1>5, <2>3, <3>1
  <2>5. PICK x \in Kinds, y \in Kinds : j = <<x, claim[a], 1>> /\ k = <<y, claim[a], 1>>
    BY <2>1, <2>2, <2>4 DEF JobsOf
  <2>6. x = y
    BY <2>1, <2>2, <2>4, <2>5 DEF Slot, Kinds
  <2> QED BY <2>5, <2>6
<1>9. NewJobsNumbered
  <2>1. outboxSeq <= outboxSeq'
    BY <1>2, <1>3, <1>5
  <2> QED BY <1>3, <1>7, <1>8, <2>1 DEF NewJobsNumbered
<1>10. \A c \in DOMAIN current :
        c \in DOMAIN current' /\ current[c].version <= current'[c].version
  <2>1. \A c \in DOMAIN current : current[c].version \in Nat
    BY <1>0 DEF TypeOK, CurrentRow
  <2> QED BY <1>2, <2>1
<1>11. ChangeReopens
  <2>1. ASSUME NEW i \in 1..n
        PROVE  /\ current'[claim[i]].version = 1
               /\ \A key \in JobsOf(claim[i], 1) :
                    key \in DOMAIN outbox' /\ outbox'[key].status = "pending"
    <3>1. current'[claim[i]] = [version |-> 1, gid |-> Len(gov) + i, state |-> "active"]
      BY <1>1 DEF PromotedRows
    <3>2. JobsOf(claim[i], 1) \cap DOMAIN outbox = {}
      BY <1>0, <1>2, NewVersionNewJobs
    <3>3. JobsOf(claim[i], 1) \subseteq DOMAIN outbox'
      BY <1>3
    <3> QED BY <1>7, <3>1, <3>2, <3>3
  <2> QED BY <1>2, <2>1 DEF ChangeReopens
<1> QED BY <1>2, <1>4, <1>9, <1>10, <1>11 DEF ServiceStep

\* Every call serves the projectors so.
LEMMA ServicesServe ==
  ASSUME AuthorityKept, AuthorityNext
  PROVE  ServiceStep
<1>0. TypeOK
  BY DEF AuthorityKept, AuthorityInv
<1>1. CASE \E r \in WriteRequests : Write(r)
  BY <1>1, WriteServes
<1>2. CASE \E r \in ReplaceRequests : Replace(r)
  BY <1>2, ReplaceServes
<1>3. CASE \E r \in LifecycleRequests : Lifecycle(r)
  BY <1>3, LifecycleServes
<1>4. CASE \E b \in PromotionBatches : Promote(b)
  BY <1>4, PromoteServes
<1>5. CASE \/ \E e \in UserEvents : SyncEvent(e)
           \/ \E record \in LegacyRecords : WithdrawLegacy(record)
  <2>1. UNCHANGED <<versions, current, outbox, outboxSeq, guards>>
    BY <1>5 DEF SyncEvent, WithdrawLegacy
  <2>2. NewJobsNumbered
    BY <1>0, <2>1, NoNewJobs
  <2>3. \A c \in DOMAIN current : current[c].version \in Nat
    BY <1>0 DEF TypeOK, CurrentRow
  <2>4. \A record \in LegacyRecords :
          \/ legacy'[record] = legacy[record]
          \/ \A k \in Promoted(record) : k[1] \notin DOMAIN guards
    BY <1>0, <1>5 DEF SyncEvent, WithdrawLegacy, Unguarded, TypeOK
  <2> QED BY <2>1, <2>2, <2>3, <2>4 DEF ServiceStep, ChangeReopens
<1> QED BY <1>1, <1>2, <1>3, <1>4, <1>5 DEF AuthorityNext

\* What a process is at is not disturbed by a service.
LEMMA ServicesDisturbNoOne ==
  ASSUME AuthorityKept, DrainsInv, ServiceStep, TypeOK', UNCHANGED projVars
  PROVE  DrainsInv'
<1>0. /\ ProjTypeOK /\ TypeOK /\ AuthorityInv
      /\ JobIds /\ ObsoleteIsStale /\ AttemptsApart /\ LocksHeld
  BY DEF DrainsInv, AuthorityKept, AuthorityInv
<1>1. UNCHANGED <<proc, lock, ftsRow, files, budget, guards>> /\ NewJobsNumbered
  BY DEF projVars, ServiceStep
<1>2. ProjTypeOK'
  BY <1>0, <1>1 DEF ProjTypeOK
<1>3. AttemptsApart' /\ LocksHeld'
  BY <1>0, <1>1 DEF AttemptsApart, LocksHeld, AtWork, LockKey, JobClaim
<1>4. outboxSeq \in Nat /\ outboxSeq' \in Nat /\ outboxSeq <= outboxSeq'
  BY <1>0, <1>1 DEF TypeOK, NewJobsNumbered
<1>5. JobIds'
  <2>1. \A key \in DOMAIN outbox : outbox[key].id \in Nat /\ outbox[key].id <= outboxSeq
    BY <1>0 DEF JobIds, TypeOK, JobRow
  <2>2. ASSUME NEW key \in DOMAIN outbox'
        PROVE  /\ outbox'[key].id \in Nat /\ outbox'[key].id <= outboxSeq'
               /\ key \in DOMAIN outbox <=> outbox'[key].id <= outboxSeq
    <3>1. outbox'[key].id \in Nat
      BY DEF TypeOK, JobRow
    <3>2. CASE key \in DOMAIN outbox
      BY <1>1, <1>4, <2>1, <3>2 DEF NewJobsNumbered
    <3>3. CASE key \notin DOMAIN outbox
      BY <1>1, <1>4, <3>1, <3>3 DEF NewJobsNumbered
    <3> QED BY <3>1, <3>2, <3>3
  <2>3. ASSUME NEW j \in DOMAIN outbox', NEW k \in DOMAIN outbox',
               outbox'[j].id = outbox'[k].id
        PROVE  j = k
    <3>1. CASE j \in DOMAIN outbox
      <4>1. k \in DOMAIN outbox
        BY <2>2, <2>3, <3>1
      <4>2. outbox[j].id = outbox[k].id
        BY <1>1, <2>3, <3>1, <4>1 DEF NewJobsNumbered
      <4> QED BY <1>0, <3>1, <4>1, <4>2 DEF JobIds
    <3>2. CASE j \notin DOMAIN outbox
      <4>1. k \notin DOMAIN outbox
        BY <2>2, <2>3, <3>2
      <4> QED BY <1>1, <2>3, <3>2, <4>1 DEF NewJobsNumbered
    <3> QED BY <3>1, <3>2
  <2> QED BY <2>2, <2>3 DEF JobIds
<1>6. ObsoleteIsStale'
  <2> SUFFICES ASSUME NEW key \in DOMAIN outbox', outbox'[key].status = "obsolete"
               PROVE  key[3] < current'[key[2]].version
    BY DEF ObsoleteIsStale
  <2>1. key \in DOMAIN outbox /\ outbox[key].status = "obsolete"
    BY <1>1 DEF NewJobsNumbered
  <2>2. <<key[2], key[3]>> \in DOMAIN versions
    BY <2>1 DEF AuthorityKept, JobsAreCommitted
  <2>3. key[2] \in DOMAIN current
    <3>1. <<key[2], key[3]>>[1] = key[2]
      OBVIOUS
    <3> QED BY <1>0, <2>2, <3>1 DEF AuthorityInv, EveryVersionSourced
  <2>4. key[3] < current[key[2]].version
    BY <1>0, <2>1 DEF ObsoleteIsStale
  <2>5. /\ current[key[2]].version <= current'[key[2]].version
        /\ key[2] \in DOMAIN current'
    BY <2>3 DEF ServiceStep
  <2>6. /\ current[key[2]].version \in Nat /\ current'[key[2]].version \in Nat
        /\ key[3] \in Nat
    <3>1. key \in JobKeys
      BY <1>0, <2>1 DEF TypeOK
    <3> QED BY <1>0, <2>3, <2>5, <3>1 DEF TypeOK, CurrentRow, JobKeys
  <2> QED BY <2>4, <2>5, <2>6
<1>7. ASSUME NEW q \in Procs
      PROVE  HoldsJob(q)' /\ GuardHeld(q)' /\ WriterCurrent(q)' /\ GivesUpStale(q)'
  <2>0. HoldsJob(q) /\ GuardHeld(q) /\ WriterCurrent(q) /\ GivesUpStale(q)
    BY DEF DrainsInv
  <2>1. HoldsJob(q)'
    <3>1. ASSUME AtWork(q), NEW key \in DOMAIN outbox', outbox'[key].id = proc[q].job.id
          PROVE  key = proc[q].job.key /\ proc[q].job.attempt <= outbox'[key].attempt
      <4>1. key \in DOMAIN outbox
        <5> SUFFICES ASSUME key \notin DOMAIN outbox PROVE FALSE
          OBVIOUS
        <5>1. outboxSeq < proc[q].job.id
          BY <1>1, <3>1 DEF NewJobsNumbered
        <5>2. proc[q].job.id <= outboxSeq /\ proc[q].job.id \in Nat
          BY <2>0, <3>1, HeldJob DEF HoldsJob
        <5> QED BY <1>4, <5>1, <5>2
      <4>2. /\ outbox[key].id = proc[q].job.id
            /\ outbox'[key].attempt = outbox[key].attempt
        BY <1>1, <3>1, <4>1 DEF NewJobsNumbered
      <4> QED BY <2>0, <3>1, <4>1, <4>2 DEF HoldsJob
    <3>2. AtWork(q) => proc[q].job.id <= outboxSeq'
      <4>1. AtWork(q) => proc[q].job.id \in Nat /\ proc[q].job.id <= outboxSeq
        BY <2>0, HeldJob DEF HoldsJob
      <4> QED BY <1>4, <4>1
    <3>3. AtWork(q) => <<JobClaim(q), JobVersion(q)>> \in DOMAIN versions'
      BY <2>0 DEF HoldsJob, ServiceStep
    <3> QED BY <1>1, <2>0, <3>1, <3>2, <3>3 DEF HoldsJob, AtWork, JobClaim, JobVersion
  <2>2. GuardHeld(q)'
    BY <1>1, <2>0 DEF GuardHeld, GuardOf, JobClaim
  <2>3. WriterCurrent(q)'
    <3> SUFFICES ASSUME proc[q].pc \in {"file", "ack"} PROVE WriterCurrent(q)'
      BY <1>1 DEF WriterCurrent
    <3> DEFINE c == JobClaim(q)
               k == <<JobClaim(q), JobVersion(q)>>
               record == proc[q].job.authority
    <3>1. c \in DOMAIN guards
      BY <2>0 DEF GuardHeld, GuardPlaces
    <3>2. /\ proc[q].snap = View(c) /\ c \in DOMAIN current
          /\ current[c].version = JobVersion(q)
          /\ record \in LegacyRecords => legacy[record] = "approved" /\ k \in Promoted(record)
          /\ proc[q].pc = "ack" => files[RootOf[q]][c] = proc[q].snap
      BY <2>0 DEF WriterCurrent, Stale
    <3>3. current'[c] = current[c] /\ c \in DOMAIN current'
      BY <3>1, <3>2 DEF ServiceStep
    <3>4. k \in DOMAIN versions /\ k \in DOMAIN versions' /\ versions'[k] = versions[k]
      <4>1. AtWork(q)
        BY DEF AtWork, FilePlaces, LockPlaces
      <4> QED BY <2>0, <4>1 DEF HoldsJob, ServiceStep
    <3>5. View(c)' = View(c)
      BY <1>1, <3>2, <3>3, <3>4 DEF View, JobClaim
    <3>6. record \in LegacyRecords => legacy'[record] = "approved" /\ k \in Promoted(record)'
      <4> SUFFICES ASSUME record \in LegacyRecords
                   PROVE  legacy'[record] = "approved" /\ k \in Promoted(record)'
        OBVIOUS
      <4>1. k \in Promoted(record) /\ k[1] \in DOMAIN guards
        BY <3>1, <3>2
      <4>2. legacy'[record] = legacy[record]
        BY <4>1 DEF ServiceStep
      <4>3. k \in Promoted(record)'
        BY <1>1, <3>4, <4>1 DEF Promoted, JobClaim, JobVersion
      <4> QED BY <3>2, <4>2, <4>3
    <3> QED BY <1>1, <3>2, <3>3, <3>5, <3>6 DEF WriterCurrent, Stale, JobClaim, JobVersion
  <2>4. GivesUpStale(q)'
    <3> SUFFICES ASSUME \/ proc[q].pc \in {"ftsObsolete", "memfsObsolete"}
                        \/ proc[q].pc = "release" /\ proc[q].out = "obsolete"
                 PROVE  /\ JobClaim(q) \in DOMAIN current'
                        /\ JobVersion(q) < current'[JobClaim(q)].version
      BY <1>1 DEF GivesUpStale, JobClaim, JobVersion
    <3>1. JobClaim(q) \in DOMAIN current /\ JobVersion(q) < current[JobClaim(q)].version
      BY <2>0 DEF GivesUpStale
    <3>2. /\ JobClaim(q) \in DOMAIN current'
          /\ current[JobClaim(q)].version <= current'[JobClaim(q)].version
      BY <3>1 DEF ServiceStep
    <3>3. /\ current[JobClaim(q)].version \in Nat /\ current'[JobClaim(q)].version \in Nat
          /\ JobVersion(q) \in Nat
      <4>1. AtWork(q)
        BY DEF AtWork, FtsPlaces, FilePlaces, LockPlaces
      <4>2. JobVersion(q) \in Nat
        BY <2>0, <4>1, HeldJob
      <4> QED BY <1>0, <3>1, <3>2, <4>2 DEF TypeOK, CurrentRow
    <3> QED BY <3>1, <3>2, <3>3
  <2> QED BY <2>1, <2>2, <2>3, <2>4
<1> QED BY <1>2, <1>3, <1>5, <1>6, <1>7 DEF DrainsInv

-----------------------------------------------------------------------------
(* The drains, under any interleaving. *)

\* A step of nobody changes nothing of the invariant.
LEMMA ProjStutter ==
  ASSUME AuthorityKept, DrainsInv, UNCHANGED vars
  PROVE  AuthorityKept' /\ DrainsInv'
<1>1. UNCHANGED authorityVars /\ UNCHANGED projVars
  BY DEF vars
<1>2. TypeOK /\ Tame /\ UNCHANGED claimVars
  <2>1. TypeOK /\ UNCHANGED claimVars /\ UNCHANGED <<outbox, outboxSeq, guards>>
    BY <1>1 DEF AuthorityKept, AuthorityInv, authorityVars, tables, claimVars
  <2> QED BY <2>1, UnchangedIsTame
<1>3. AuthorityKept'
  BY <1>2, TameKeeps
<1>4. ServiceStep
  <2>1. \A c \in DOMAIN current : current[c].version \in Nat
    BY <1>2 DEF TypeOK, CurrentRow
  <2>2. NewJobsNumbered
    BY <1>1, <1>2, NoNewJobs DEF authorityVars, tables
  <2>3. \A c \in DOMAIN current : current[c].version <= current[c].version
    BY <2>1
  <2> QED BY <1>1, <2>2, <2>3 DEF ServiceStep, ChangeReopens, authorityVars, tables
<1>5. TypeOK'
  BY <1>3 DEF AuthorityKept, AuthorityInv
<1> QED BY <1>1, <1>3, <1>4, <1>5, ServicesDisturbNoOne

\* Every step keeps the authority's part and the projectors' part together.
LEMMA ProjNextInv ==
  ASSUME AuthorityKept, DrainsInv, [ProjNext]_vars
  PROVE  AuthorityKept' /\ DrainsInv'
<1>0. TypeOK
  BY DEF AuthorityKept, AuthorityInv
<1>1. CASE AuthorityStep
  <2>1. AuthorityNext /\ UNCHANGED projVars
    BY <1>1 DEF AuthorityStep
  <2>2. AuthorityKept' /\ ServiceStep
    BY <2>1, ServicesKeep, ServicesServe
  <2>3. TypeOK'
    BY <2>2 DEF AuthorityKept, AuthorityInv
  <2> QED BY <2>1, <2>2, <2>3, ServicesDisturbNoOne
<1>2. ASSUME NEW p \in Procs, ProcessStep(p)
      PROVE  AuthorityKept' /\ DrainsInv'
  <2>1. GivesUpStale(p)
    BY DEF DrainsInv
  <2>2. Tame /\ UNCHANGED claimVars
    BY <1>0, <1>2, <2>1, ProcessIsTame
  <2> QED BY <1>2, <2>2, TameKeeps, ProcessKeeps
<1>3. ASSUME NEW p \in Procs, Rebuild(p)
      PROVE  AuthorityKept' /\ DrainsInv'
  <2>1. UNCHANGED claimVars
    BY <1>3 DEF Rebuild
  <2>2. /\ DOMAIN outbox' \subseteq JobKeys /\ outbox' \in [DOMAIN outbox' -> JobRow]
        /\ outboxSeq' \in Nat
        /\ \A key \in DOMAIN outbox' : Committed(key)'
    BY <1>3, RebuildRows
  <2> QED BY <1>3, <2>1, <2>2, OutboxStep, RebuildKeeps
<1>4. CASE ClockStep
  <2>1. Tame /\ UNCHANGED claimVars
    BY <1>0, <1>4, ClockIsTame
  <2> QED BY <1>4, <2>1, TameKeeps, ClockKeeps
<1>5. CASE UNCHANGED vars
  BY <1>5, ProjStutter
<1> QED BY <1>1, <1>2, <1>3, <1>4, <1>5 DEF ProjNext, ProcessStep, ClockStep

\* Nothing is held at the start.
LEMMA ProjInitInv ==
  ASSUME ProjInit
  PROVE  AuthorityKept /\ DrainsInv
<1>0. Init
  BY DEF ProjInit
<1>1. HistoryInv
  BY <1>0, InitHistory
<1>2. AuthorityKept
  BY <1>1 DEF HistoryInv, AuthorityKept, SourcesInv
<1>3. outbox = Empty /\ outboxSeq = 0 /\ guards = Empty
  BY <1>0 DEF Init
<1>4. \A p \in Procs : proc[p] = Idle("none")
  BY DEF ProjInit
<1>5. ProjTypeOK
  <2>1. Idle("none") \in ProcRow
    BY ProcsAssumption DEF Idle, ProcRow, PCs, AllViews
  <2>2. proc \in [Procs -> ProcRow]
    BY <2>1 DEF ProjInit
  <2>3. lock \in [DOMAIN lock -> Procs] /\ DOMAIN lock = {}
    BY DEF ProjInit, Empty
  <2>4. guards \in [DOMAIN guards -> GuardRow] /\ DOMAIN guards = {}
    BY <1>3 DEF Empty
  <2>5. ftsRow \in [Claims -> AllViews] /\ files \in [Roots -> [Claims -> AllViews]]
    BY DEF ProjInit, AllViews
  <2>6. budget \in [{"crash", "stall", "io", "rebuild"} -> Nat]
    BY DEF ProjInit
  <2> QED BY <2>2, <2>3, <2>4, <2>5, <2>6 DEF ProjTypeOK
<1>6. DOMAIN outbox = {} /\ DOMAIN lock = {}
  BY <1>3 DEF ProjInit, Empty
<1>7. \A p \in Procs : proc[p].pc = "idle" /\ proc[p].out = "none"
  BY <1>4 DEF Idle
<1>8. \A p \in Procs : ~AtWork(p)
  BY <1>7 DEF AtWork, FtsPlaces, FilePlaces, LockPlaces
<1>9. ObsoleteIsStale /\ JobIds /\ AttemptsApart
  BY <1>6, <1>8 DEF ObsoleteIsStale, JobIds, AttemptsApart
<1>10. LocksHeld
  BY <1>6, <1>7 DEF LocksHeld, LockPlaces
<1>11. ASSUME NEW p \in Procs
       PROVE  HoldsJob(p) /\ GuardHeld(p) /\ WriterCurrent(p) /\ GivesUpStale(p)
  BY <1>7, <1>8 DEF HoldsJob, GuardHeld, GuardPlaces, WriterCurrent, GivesUpStale
<1> QED BY <1>2, <1>5, <1>9, <1>10, <1>11 DEF DrainsInv

\* Under any interleaving of drains, rebuilds, services, crashes, stalls, failed
\* file operations and the clock, the authority's part and the projectors' part
\* of the invariant hold together.
LEMMA ProjectionsKept == ProjSpec => [](AuthorityKept /\ DrainsInv)
<1>1. ProjInit => AuthorityKept /\ DrainsInv
  BY ProjInitInv
<1>2. AuthorityKept /\ DrainsInv /\ [ProjNext]_vars => (AuthorityKept /\ DrainsInv)'
  BY ProjNextInv
<1> QED BY <1>1, <1>2, PTL DEF ProjSpec

\* The projectors only read the authority: whatever they do, its log, its current
\* rows and the sources and sensitivities of its versions stay as the services
\* alone would have them.
THEOREM AuthorityUndisturbed == ProjSpec => [](AuthorityInv /\ SourcesInv)
<1>1. AuthorityKept => AuthorityInv /\ SourcesInv
  BY DEF AuthorityKept
<1> QED BY <1>1, ProjectionsKept, PTL

\* The locks, guards, attempts and ids of claim_projection_jobs, _claim_lock,
\* _projection_guard and their releases keep every process of every drain apart:
\* the inductive invariant of the projectors.
THEOREM DrainsApart == ProjSpec => []DrainsInv
BY ProjectionsKept, PTL

\* From its read to its ACK a MemFS writer's snapshot is what memory_current
\* says, whatever other roots, services, rebuilds and crashes do meanwhile: no one
\* takes the guard of _projection_guard away from a live writer.
THEOREM WriterSeesAuthority == ProjSpec => []WriteSeesAuthority
<1>1. DrainsInv => WriteSeesAuthority
  BY DEF DrainsInv, WriterCurrent, WriteSeesAuthority
<1> QED BY <1>1, DrainsApart, PTL

\* A file is rendered only from a legacy record that is approved at the moment of
\* the write: _withdraw_legacy cannot overtake _apply_claim_file_guarded.
THEOREM WritesAreApproved == ProjSpec => []WritesApproved
<1>1. DrainsInv => WritesApproved
  BY DEF DrainsInv, WriterCurrent, WritesApproved
<1> QED BY <1>1, DrainsApart, PTL

\* A job is finalized as obsolete by obsolete_projection_job only when a newer
\* version of its claim is current: no drain throws current work away.
THEOREM ObsoleteWorkIsStale == ProjSpec => []ObsoleteIsStale
<1>1. DrainsInv => ObsoleteIsStale
  BY DEF DrainsInv
<1> QED BY <1>1, DrainsApart, PTL

-----------------------------------------------------------------------------
(***************************************************************************)
(* The projections implement MemoryView, for any processes, requests and   *)
(* faults: memory_fts always, the claim files when the drains of one       *)
(* database share a root.  The promises a drain and a rebuild make on      *)
(* return follow.                                                          *)
(***************************************************************************)

-----------------------------------------------------------------------------
(* What a step does to the finished work. *)

\* No job of this projector becomes applied or ceases to be.
NothingFinished(kind) ==
  /\ DOMAIN outbox' = DOMAIN outbox
  /\ \A key \in DOMAIN outbox : key[1] = kind =>
       (outbox'[key].status = "applied" <=> outbox[key].status = "applied")

\* The process's job, about the current version, becomes applied.
Finishes(p) ==
  /\ AtWork(p) /\ Owns(p) /\ ~Stale(p)
  /\ Settle(p, Acked(outbox[proc[p].job.key]))

\* Then the same claims are done ...
LEMMA DoneStays ==
  ASSUME NEW kind, NothingFinished(kind), current' = current
  PROVE  DoneClaims(kind)' = DoneClaims(kind)
<1>1. ASSUME NEW c \in DOMAIN current
      PROVE  /\ JobOf(kind, c)' = JobOf(kind, c)
             /\ JobOf(kind, c)[1] = kind
  BY DEF JobOf
<1> QED BY <1>1 DEF DoneClaims, NothingFinished

\* ... or one more is, for the projector whose job it was.
LEMMA OneMoreDone ==
  ASSUME NEW p \in Procs, HoldsJob(p), Finishes(p), TypeOK, current' = current,
         NEW kind
  PROVE  /\ proc[p].job.key[1] = kind =>
              DoneClaims(kind)' = DoneClaims(kind) \cup {JobClaim(p)}
         /\ proc[p].job.key[1] # kind => DoneClaims(kind)' = DoneClaims(kind)
<1> DEFINE key == proc[p].job.key
           row == Acked(outbox[key])
<1>1. /\ key \in DOMAIN outbox /\ outbox' = [outbox EXCEPT ![key] = row]
      /\ outbox[key].status = "processing"
  BY DEF Finishes, Settle, Owns, OwnsAttempt
<1>2. row.status = "applied"
  BY <1>1, RowStatements DEF TypeOK
<1>3. key = <<key[1], JobClaim(p), JobVersion(p)>>
  BY HeldJob DEF Finishes
<1>4. JobClaim(p) \in DOMAIN current /\ current[JobClaim(p)].version = JobVersion(p)
  BY DEF Finishes, Stale
<1>5. key = JobOf(key[1], JobClaim(p))
  BY <1>3, <1>4 DEF JobOf
<1> HIDE DEF key, row
<1>6. DOMAIN outbox' = DOMAIN outbox
  BY <1>1
<1>7. ASSUME NEW k \in DOMAIN outbox
      PROVE  outbox'[k].status = "applied" <=> k = key \/ outbox[k].status = "applied"
  BY <1>1, <1>2
<1>8. ASSUME key[1] = kind
      PROVE  DoneClaims(kind)' = DoneClaims(kind) \cup {JobClaim(p)}
  <2>1. ASSUME NEW c \in DOMAIN current
        PROVE  JobOf(kind, c)' = JobOf(kind, c) /\ (JobOf(kind, c) = key <=> c = JobClaim(p))
    BY <1>5, <1>8 DEF JobOf
  <2> QED BY <1>1, <1>4, <1>6, <1>7, <2>1 DEF DoneClaims
<1>9. ASSUME key[1] # kind
      PROVE  DoneClaims(kind)' = DoneClaims(kind)
  <2>1. NothingFinished(kind)
    BY <1>6, <1>7, <1>9 DEF NothingFinished
  <2> QED BY <2>1, DoneStays
<1> QED BY <1>8, <1>9 DEF key

\* A statement that leaves an unfinished row unfinished.
LEMMA RowUnfinished ==
  ASSUME NEW key \in DOMAIN outbox, NEW row, outbox' = [outbox EXCEPT ![key] = row],
         outbox[key].status # "applied", row.status # "applied", NEW kind
  PROVE  NothingFinished(kind)
  BY DEF NothingFinished

\* What the authority says of the claims changes only with its tables.
LEMMA TruthStays ==
  ASSUME UNCHANGED <<versions, current>>
  PROVE  Truth' = Truth
  BY DEF Truth, View

-----------------------------------------------------------------------------
(* What a process does to the projections. *)

FtsShown(p) ==
  /\ At(p, "ftsApply") /\ Finishes(p)
  /\ ftsRow' = [ftsRow EXCEPT ![JobClaim(p)] = View(JobClaim(p))]
  /\ UNCHANGED files

FileWritten(p) ==
  /\ At(p, "file")
  /\ files' = [files EXCEPT ![RootOf[p]][JobClaim(p)] = proc[p].snap]
  /\ UNCHANGED <<outbox, ftsRow>>

FileAcked(p) ==
  /\ At(p, "ack") /\ Finishes(p)
  /\ UNCHANGED <<ftsRow, files>>

FilesSwept(p) ==
  /\ At(p, "cleanup")
  /\ UNCHANGED <<outbox, ftsRow>>
  /\ \E gone \in SUBSET (Claims \ InForce) :
       files' = [files EXCEPT ![RootOf[p]] =
                   [c \in Claims |-> IF c \in gone THEN NoView ELSE files[RootOf[p]][c]]]

OnlyRunsOn ==
  /\ \A kind \in Kinds : NothingFinished(kind)
  /\ UNCHANGED <<ftsRow, files>>

\* Every step of a process is one of these.
LEMMA ProcessShows ==
  ASSUME AuthorityKept, DrainsInv, NEW p \in Procs, ProcessStep(p)
  PROVE  OnlyRunsOn \/ FtsShown(p) \/ FileWritten(p) \/ FileAcked(p) \/ FilesSwept(p)
<1>0. /\ ProjTypeOK /\ TypeOK /\ HoldsJob(p) /\ WriterCurrent(p)
      /\ \A key \in DOMAIN outbox : outbox[key] \in JobRow
  BY ProcFacts DEF TypeOK
<1>1. ASSUME UNCHANGED <<outbox, ftsRow, files>> PROVE OnlyRunsOn
  BY <1>1 DEF OnlyRunsOn, NothingFinished
<1>2. CASE \/ Start(p) \/ Lock(p) \/ TakeGuard(p) \/ Read(p) \/ Release(p)
           \/ RoundEnd(p) \/ FileError(p) \/ Crash(p)
  <2>1. UNCHANGED <<outbox, ftsRow, files>>
    BY <1>2 DEF Start, Lock, TakeGuard, Read, Release, RoundEnd, FileError, Crash,
                authorityVars, tables
  <2> QED BY <1>1, <2>1
<1>3. ASSUME NEW kind, NEW here, NEW working, NEW after, Claim(p, kind, here, working, after)
      PROVE  OnlyRunsOn
  <2>1. CASE UNCHANGED outbox
    BY <1>1, <1>3, <2>1 DEF Claim
  <2>2. CASE ~(UNCHANGED outbox)
    <3> DEFINE key == NextJob(kind)
    <3>1. /\ Claimables(kind) # {}
          /\ outbox' = [outbox EXCEPT ![key] = Claimed(outbox[key], WorkerOf[p])]
      BY <1>3, <2>2 DEF Claim
    <3>2. key \in DOMAIN outbox /\ Claimable(outbox[key])
      BY <1>0, <3>1, NextJobFound DEF Claimables
    <3> HIDE DEF key
    <3>3. outbox[key].status # "applied"
      BY <3>2 DEF Claimable
    <3>4. Claimed(outbox[key], WorkerOf[p]).status = "processing"
      <4>1. WorkerOf[p] \in Workers /\ outbox[key] \in JobRow
        BY <1>0, <3>2, ProcsAssumption
      <4> QED BY <4>1, RowStatements
    <3>5. \A k : NothingFinished(k)
      BY <3>1, <3>2, <3>3, <3>4, RowUnfinished
    <3> QED BY <1>3, <3>5 DEF Claim, OnlyRunsOn
  <2> QED BY <2>1, <2>2
<1>4. ASSUME NEW row, row.status # "applied", Settle(p, row), UNCHANGED <<ftsRow, files>>
      PROVE  OnlyRunsOn
  <2>1. CASE Owns(p)
    <3>1. /\ proc[p].job.key \in DOMAIN outbox
          /\ outbox[proc[p].job.key].status = "processing"
          /\ outbox' = [outbox EXCEPT ![proc[p].job.key] = row]
      BY <1>4, <2>1 DEF Settle, Owns, OwnsAttempt
    <3>2. \A kind : NothingFinished(kind)
      BY <1>4, <3>1, RowUnfinished
    <3> QED BY <1>4, <3>2 DEF OnlyRunsOn
  <2>2. CASE ~Owns(p)
    BY <1>1, <1>4, <2>2 DEF Settle
  <2> QED BY <2>1, <2>2
<1>5. CASE FtsApply(p)
  <2>1. CASE UNCHANGED <<outbox, ftsRow>>
    BY <1>1, <1>5, <2>1 DEF FtsApply
  <2>2. CASE ~(UNCHANGED <<outbox, ftsRow>>)
    <3>1. /\ At(p, "ftsApply") /\ Owns(p) /\ ~Stale(p) /\ UNCHANGED files
          /\ ftsRow' = [ftsRow EXCEPT ![JobClaim(p)] = View(JobClaim(p))]
          /\ Settle(p, Acked(outbox[proc[p].job.key]))
      BY <1>5, <2>2 DEF FtsApply
    <3>2. AtWork(p)
      BY <3>1 DEF At, AtWork, FtsPlaces
    <3> QED BY <3>1, <3>2 DEF FtsShown, Finishes
  <2> QED BY <2>1, <2>2
<1>6. ASSUME NEW here, NEW next, MarkObsolete(p, here, next)
      PROVE  OnlyRunsOn
  <2>1. CASE Owns(p)
    <3>1. Obsoleted(outbox[proc[p].job.key]).status = "obsolete"
      BY <1>0, <2>1, RowStatements DEF Owns, OwnsAttempt
    <3> QED BY <1>4, <1>6, <3>1 DEF MarkObsolete
  <2>2. CASE ~Owns(p)
    BY <1>1, <1>6, <2>2 DEF MarkObsolete, Settle
  <2> QED BY <2>1, <2>2
<1>7. ASSUME NEW here, MarkFailed(p, here)
      PROVE  OnlyRunsOn
  <2>1. CASE Owns(p)
    <3>1. Failed(outbox[proc[p].job.key]).status \in {"dead_letter", "pending"}
      BY <1>0, <2>1, RowStatements DEF Owns, OwnsAttempt
    <3> QED BY <1>4, <1>7, <3>1 DEF MarkFailed
  <2>2. CASE ~Owns(p)
    BY <1>1, <1>7, <2>2 DEF MarkFailed, Settle
  <2> QED BY <2>1, <2>2
<1>8. CASE ApplyFile(p)
  <2>1. UNCHANGED <<outbox, ftsRow>> /\ At(p, "file")
    BY <1>8 DEF ApplyFile, authorityVars, tables
  <2>2. \/ UNCHANGED files
        \/ files' = [files EXCEPT ![RootOf[p]][JobClaim(p)] = proc[p].snap]
    BY <1>8 DEF ApplyFile
  <2> QED BY <1>1, <2>1, <2>2 DEF FileWritten
<1>9. CASE Ack(p)
  <2>1. CASE UNCHANGED outbox
    BY <1>1, <1>9, <2>1 DEF Ack
  <2>2. CASE ~(UNCHANGED outbox)
    <3>1. /\ At(p, "ack") /\ Owns(p) /\ UNCHANGED <<ftsRow, files>>
          /\ Settle(p, Acked(outbox[proc[p].job.key]))
      BY <1>9, <2>2 DEF Ack
    <3>2. AtWork(p) /\ ~Stale(p)
      BY <1>0, <3>1 DEF At, AtWork, FilePlaces, LockPlaces, WriterCurrent
    <3> QED BY <3>1, <3>2 DEF FileAcked, Finishes
  <2> QED BY <2>1, <2>2
<1>10. CASE Cleanup(p)
  <2>1. At(p, "cleanup") /\ UNCHANGED <<outbox, ftsRow>>
    BY <1>10 DEF Cleanup, authorityVars, tables
  <2>2. CASE UNCHANGED files
    BY <1>1, <2>1, <2>2
  <2>3. CASE ~(UNCHANGED files)
    <3> DEFINE gone == Claims \ InForce
    <3>1. files' = [files EXCEPT ![RootOf[p]] = Swept(RootOf[p])]
      BY <1>10, <2>3 DEF Cleanup
    <3>2. Swept(RootOf[p]) =
            [c \in Claims |-> IF c \in gone THEN NoView ELSE files[RootOf[p]][c]]
      BY DEF Swept
    <3>3. gone \in SUBSET (Claims \ InForce)
      OBVIOUS
    <3> HIDE DEF gone
    <3> QED BY <2>1, <3>1, <3>2, <3>3 DEF FilesSwept
  <2> QED BY <2>2, <2>3
<1>11. CASE SweepFails(p)
  <2>1. PICK gone \in SUBSET (Claims \ InForce) :
          files' = [files EXCEPT ![RootOf[p]] =
                      [c \in Claims |-> IF c \in gone THEN NoView ELSE @[c]]]
    BY <1>11 DEF SweepFails
  <2>2. files' = [files EXCEPT ![RootOf[p]] =
                    [c \in Claims |-> IF c \in gone THEN NoView ELSE files[RootOf[p]][c]]]
    BY <2>1
  <2> QED BY <1>11, <2>2 DEF SweepFails, FilesSwept, authorityVars, tables
<1> QED BY <1>2, <1>3, <1>5, <1>6, <1>7, <1>8, <1>9, <1>10, <1>11
        DEF ProcessStep, Step, ClaimFts, ClaimMemfs

-----------------------------------------------------------------------------
(* memory_fts implements MemoryView. *)

\* What a service changes has work to do again.
LEMMA ServicesUndo ==
  ASSUME AuthorityKept, ServiceStep, NEW kind \in Kinds, NEW c \in DoneClaims(kind)'
  PROVE  c \in DoneClaims(kind) /\ c \in Claims /\ View(c)' = View(c)
<1> DEFINE key == <<kind, c, current'[c].version>>
<1>1. c \in DOMAIN current' /\ key \in DOMAIN outbox' /\ outbox'[key].status = "applied"
  BY DEF DoneClaims, JobOf
<1>2. key \in JobsOf(c, current'[c].version)
  BY DEF JobsOf
<1> HIDE DEF key
<1>3. c \in DOMAIN current /\ current'[c] = current[c]
  BY <1>1, <1>2 DEF ServiceStep, ChangeReopens
<1>4. key = JobOf(kind, c) /\ key = <<kind, c, current[c].version>>
  BY <1>3 DEF key, JobOf
<1>5. key \in DOMAIN outbox /\ outbox[key].status = "applied"
  BY <1>1 DEF ServiceStep, NewJobsNumbered
<1>6. c \in DoneClaims(kind)
  BY <1>3, <1>4, <1>5 DEF DoneClaims
<1>7. <<c, current[c].version>> \in DOMAIN versions
  <2>1. <<key[2], key[3]>> \in DOMAIN versions
    BY <1>5 DEF AuthorityKept, JobsAreCommitted
  <2> QED BY <1>4, <2>1
<1>8. versions'[<<c, current[c].version>>] = versions[<<c, current[c].version>>]
  BY <1>7 DEF ServiceStep
<1>9. View(c)' = View(c)
  BY <1>1, <1>3, <1>8 DEF View
<1>10. c \in Claims
  BY <1>3 DEF AuthorityKept, AuthorityInv, TypeOK
<1> QED BY <1>6, <1>9, <1>10

\* After a rebuild all work is open.
LEMMA RebuildUndoes ==
  ASSUME AuthorityKept, NEW p \in Procs, Rebuild(p), NEW kind
  PROVE  DoneClaims(kind)' = {}
<1>1. \A key \in DOMAIN outbox' : outbox'[key].status = "pending"
  BY RebuildRows
<1> QED BY <1>1 DEF DoneClaims

\* The clock finishes nothing.
LEMMA ClockOnlyRunsOn ==
  ASSUME TypeOK, ClockStep
  PROVE  OnlyRunsOn /\ UNCHANGED claimVars
<1>1. /\ DOMAIN outbox' = DOMAIN outbox /\ UNCHANGED claimVars
      /\ \A key \in DOMAIN outbox : outbox'[key].status = outbox[key].status
      /\ UNCHANGED <<ftsRow, files>>
  BY ClockIsTame DEF Tame
<1> QED BY <1>1 DEF OnlyRunsOn, NothingFinished

\* Every claim has a view.
LEMMA TruthTyped ==
  ASSUME AuthorityInv
  PROVE  Truth \in [Claims -> AllViews]
  BY ViewTyped DEF Truth

\* Nothing is true, shown or done at the start.
LEMMA NothingAtFirst ==
  ASSUME ProjInit
  PROVE  Truth = [c \in Claims |-> NoView] /\ \A kind : DoneClaims(kind) = {}
<1>1. DOMAIN current = {}
  BY DEF ProjInit, Init, Empty
<1> QED BY <1>1 DEF Truth, View, DoneClaims

LEMMA FtsStart == ProjInit => FtsView!ViewInit
<1> SUFFICES ASSUME ProjInit PROVE FtsView!ViewInit
  OBVIOUS
<1>1. ftsRow = [c \in Claims |-> NoView]
  BY DEF ProjInit
<1> QED BY <1>1, NothingAtFirst DEF FtsView!ViewInit

LEMMA FtsStep ==
  ASSUME AuthorityKept, DrainsInv, AuthorityKept', DrainsInv', [ProjNext]_vars,
         Truth' \in [Claims -> AllViews]
  PROVE  FtsView!ViewNext \/ UNCHANGED FtsView!viewVars
<1>0. TypeOK /\ ProjTypeOK /\ TypeOK'
  BY DEF AuthorityKept, AuthorityInv, DrainsInv
<1>1. CASE AuthorityStep
  <2>1. ServiceStep /\ UNCHANGED ftsRow
    BY <1>1, ServicesServe DEF AuthorityStep, projVars
  <2>2. \A c \in DoneClaims("memory_fts")' :
          c \in DoneClaims("memory_fts") /\ Truth'[c] = Truth[c]
    <3>1. "memory_fts" \in Kinds
      BY DEF Kinds
    <3> QED BY <2>1, <3>1, ServicesUndo DEF Truth
  <2>3. FtsView!Change
    BY <2>1, <2>2 DEF FtsView!Change
  <2> QED BY <2>3 DEF FtsView!ViewNext
<1>2. ASSUME OnlyRunsOn, UNCHANGED claimVars
      PROVE  UNCHANGED FtsView!viewVars
  <2>1. Truth' = Truth /\ ftsRow' = ftsRow
    BY <1>2, TruthStays DEF OnlyRunsOn, claimVars
  <2>2. DoneClaims("memory_fts")' = DoneClaims("memory_fts")
    BY <1>2, DoneStays DEF OnlyRunsOn, Kinds, claimVars
  <2> QED BY <2>1, <2>2 DEF FtsView!viewVars
<1>3. ASSUME NEW p \in Procs, ProcessStep(p)
      PROVE  FtsView!ViewNext \/ UNCHANGED FtsView!viewVars
  <2>0. HoldsJob(p) /\ GivesUpStale(p)
    BY DEF DrainsInv
  <2>1. UNCHANGED claimVars /\ Truth' = Truth
    BY <1>0, <1>3, <2>0, ProcessIsTame, TruthStays DEF claimVars
  <2>2. CASE FtsShown(p)
    <3>1. JobClaim(p) \in Claims
      BY <2>0, <2>2, HeldJob DEF FtsShown, Finishes
    <3>2. proc[p].job.key[1] = "memory_fts"
      BY <2>0, <2>2 DEF FtsShown, At, HoldsJob, AtWork, FtsPlaces
    <3>3. DoneClaims("memory_fts")' = DoneClaims("memory_fts") \cup {JobClaim(p)}
      BY <1>0, <2>0, <2>1, <2>2, <3>2, OneMoreDone DEF FtsShown, claimVars
    <3>4. ftsRow' = [ftsRow EXCEPT ![JobClaim(p)] = Truth[JobClaim(p)]]
      BY <2>2, <3>1 DEF FtsShown, Truth
    <3>5. FtsView!Show(JobClaim(p))
      BY <2>1, <3>3, <3>4 DEF FtsView!Show
    <3> QED BY <3>1, <3>5 DEF FtsView!ViewNext
  <2>3. CASE FileAcked(p)
    <3>1. proc[p].job.key[1] = "memory_memfs"
      BY <2>0, <2>3 DEF FileAcked, At, HoldsJob, AtWork, FtsPlaces, FilePlaces, LockPlaces
    <3>2. DoneClaims("memory_fts")' = DoneClaims("memory_fts")
      BY <1>0, <2>0, <2>1, <2>3, <3>1, OneMoreDone DEF FileAcked, claimVars
    <3> QED BY <2>1, <2>3, <3>2 DEF FileAcked, FtsView!viewVars
  <2>4. CASE FileWritten(p) \/ FilesSwept(p)
    <3>1. UNCHANGED <<outbox, ftsRow, current>>
      BY <2>1, <2>4 DEF FileWritten, FilesSwept, claimVars
    <3>2. DoneClaims("memory_fts")' = DoneClaims("memory_fts")
      BY <3>1 DEF DoneClaims, JobOf
    <3> QED BY <2>1, <3>1, <3>2 DEF FtsView!viewVars
  <2> QED BY <1>2, <1>3, <2>1, <2>2, <2>3, <2>4, ProcessShows
<1>4. ASSUME NEW p \in Procs, Rebuild(p)
      PROVE  FtsView!ViewNext
  <2>1. UNCHANGED claimVars /\ ftsRow' = [c \in Claims |-> NoView]
    BY <1>4 DEF Rebuild
  <2>2. Truth' = Truth
    BY <2>1, TruthStays DEF claimVars
  <2>3. DoneClaims("memory_fts")' = {}
    BY <1>4, RebuildUndoes
  <2>4. ftsRow' \in [Claims -> AllViews]
    BY DEF DrainsInv, ProjTypeOK
  <2>5. FtsView!Clear
    BY <2>1, <2>2, <2>3, <2>4 DEF FtsView!Clear
  <2> QED BY <2>5 DEF FtsView!ViewNext
<1>5. CASE ClockStep
  BY <1>0, <1>2, <1>5, ClockOnlyRunsOn
<1>6. CASE UNCHANGED vars
  <2>1. UNCHANGED <<outbox, current, versions, ftsRow>>
    BY <1>6 DEF vars, authorityVars, tables, projVars
  <2>2. DoneClaims("memory_fts")' = DoneClaims("memory_fts") /\ Truth' = Truth
    BY <2>1, TruthStays DEF DoneClaims, JobOf
  <2> QED BY <2>1, <2>2 DEF FtsView!viewVars
<1> QED BY <1>1, <1>3, <1>4, <1>5, <1>6 DEF ProjNext, ProcessStep, ClockStep

\* memory_fts implements MemoryView, whatever drains, rebuilds, services, crashes
\* and stalls do: a row never shows anything but the authority's word at the
\* moment of the write, and no applied job stands beside an older one.
THEOREM FtsRefines == ProjSpec => FtsImplementsView
<1> DEFINE Kept == AuthorityKept /\ DrainsInv /\ Truth \in [Claims -> AllViews]
<1>1. ProjSpec => []Kept
  <2>1. AuthorityKept => Truth \in [Claims -> AllViews]
    BY TruthTyped DEF AuthorityKept
  <2> QED BY <2>1, ProjectionsKept, PTL
<1>2. Kept /\ Kept' /\ [ProjNext]_vars => [FtsView!ViewNext]_(FtsView!viewVars)
  BY FtsStep
<1>3. ProjInit => FtsView!ViewInit
  BY FtsStart
<1> QED BY <1>1, <1>2, <1>3, PTL DEF ProjSpec, FtsImplementsView, FtsView!ViewSpec

-----------------------------------------------------------------------------
(* The claim files implement MemoryView, when the drains share a root. *)

SharedRoot == Roots # {} /\ \A p \in Procs : RootOf[p] = TheRoot

\* A claim that is not in force is to have no file.
LEMMA OutOfForce ==
  ASSUME NEW c, c \notin InForce
  PROVE  View(c) = NoView
  BY DEF InForce, View

LEMMA FileStart ==
  ASSUME ProjInit, TheRoot \in Roots
  PROVE  FileView!ViewInit
<1>1. files[TheRoot] = [c \in Claims |-> NoView]
  BY DEF ProjInit
<1> QED BY <1>1, NothingAtFirst DEF FileView!ViewInit

\* That a finished file is the right one is what lets the sweep of a rebuild
\* take away a file without touching a finished one.
LEMMA FileStep ==
  ASSUME SharedRoot, AuthorityKept, DrainsInv, AuthorityKept', DrainsInv',
         FileView!Faithful, [ProjNext]_vars, Truth' \in [Claims -> AllViews]
  PROVE  FileView!ViewNext \/ UNCHANGED FileView!viewVars
<1> DEFINE kind == "memory_memfs"
<1>0. TypeOK /\ ProjTypeOK /\ TypeOK' /\ ProjTypeOK' /\ kind \in Kinds
  BY DEF AuthorityKept, AuthorityInv, DrainsInv, Kinds
<1>1. CASE AuthorityStep
  <2>1. ServiceStep /\ UNCHANGED files
    BY <1>1, ServicesServe DEF AuthorityStep, projVars
  <2>2. \A c \in DoneClaims(kind)' : c \in DoneClaims(kind) /\ Truth'[c] = Truth[c]
    BY <1>0, <2>1, ServicesUndo DEF Truth
  <2>3. FileView!Change
    BY <2>1, <2>2 DEF FileView!Change
  <2> QED BY <2>3 DEF FileView!ViewNext
<1>2. ASSUME OnlyRunsOn, UNCHANGED claimVars
      PROVE  UNCHANGED FileView!viewVars
  <2>1. Truth' = Truth /\ files' = files
    BY <1>2, TruthStays DEF OnlyRunsOn, claimVars
  <2>2. DoneClaims(kind)' = DoneClaims(kind)
    BY <1>0, <1>2, DoneStays DEF OnlyRunsOn, claimVars
  <2> QED BY <2>1, <2>2 DEF FileView!viewVars
<1>3. ASSUME NEW p \in Procs, ProcessStep(p)
      PROVE  FileView!ViewNext \/ UNCHANGED FileView!viewVars
  <2>0. HoldsJob(p) /\ GivesUpStale(p) /\ WriterCurrent(p) /\ RootOf[p] = TheRoot
    BY DEF DrainsInv, SharedRoot
  <2>1. UNCHANGED claimVars /\ Truth' = Truth
    BY <1>0, <1>3, <2>0, ProcessIsTame, TruthStays DEF claimVars
  <2>2. CASE FtsShown(p)
    <3>1. proc[p].job.key[1] = "memory_fts"
      BY <2>0, <2>2 DEF FtsShown, At, HoldsJob, AtWork, FtsPlaces
    <3>2. DoneClaims(kind)' = DoneClaims(kind)
      BY <1>0, <2>0, <2>1, <2>2, <3>1, OneMoreDone DEF FtsShown, claimVars
    <3> QED BY <2>1, <2>2, <3>2 DEF FtsShown, FileView!viewVars
  <2>3. CASE FileWritten(p)
    <3>1. JobClaim(p) \in Claims
      BY <2>0, <2>3, HeldJob DEF FileWritten, At, AtWork, FilePlaces, LockPlaces
    <3>2. DoneClaims(kind)' = DoneClaims(kind)
      BY <2>1, <2>3 DEF FileWritten, DoneClaims, JobOf, claimVars
    <3>3. proc[p].snap = Truth[JobClaim(p)]
      BY <2>0, <2>3, <3>1 DEF FileWritten, At, WriterCurrent, Truth
    <3>4. files'[TheRoot] = [files[TheRoot] EXCEPT ![JobClaim(p)] = Truth[JobClaim(p)]]
      BY <1>0, <2>0, <2>3, <3>3, ProcsAssumption DEF FileWritten, ProjTypeOK
    <3>5. FileView!Show(JobClaim(p))
      BY <2>1, <3>2, <3>4 DEF FileView!Show
    <3> QED BY <3>1, <3>5 DEF FileView!ViewNext
  <2>4. CASE FileAcked(p)
    <3>1. JobClaim(p) \in Claims
      BY <2>0, <2>4, HeldJob DEF FileAcked, Finishes
    <3>2. proc[p].job.key[1] = kind
      BY <2>0, <2>4 DEF FileAcked, At, HoldsJob, AtWork, FtsPlaces, FilePlaces, LockPlaces
    <3>3. DoneClaims(kind)' = DoneClaims(kind) \cup {JobClaim(p)}
      BY <1>0, <2>0, <2>1, <2>4, <3>2, OneMoreDone DEF FileAcked, claimVars
    <3>4. files[TheRoot][JobClaim(p)] = Truth[JobClaim(p)]
      BY <2>0, <2>4, <3>1 DEF FileAcked, At, WriterCurrent, Truth
    <3>5. FileView!Finish(JobClaim(p))
      BY <2>1, <2>4, <3>3, <3>4 DEF FileAcked, FileView!Finish
    <3> QED BY <3>1, <3>5 DEF FileView!ViewNext
  <2>5. CASE FilesSwept(p)
    <3>1. PICK gone \in SUBSET (Claims \ InForce) :
            files' = [files EXCEPT ![TheRoot] =
                        [c \in Claims |-> IF c \in gone THEN NoView ELSE files[TheRoot][c]]]
      BY <2>0, <2>5 DEF FilesSwept
    <3>2. TheRoot \in Roots /\ DOMAIN files = Roots
      BY <1>0, <2>0, ProcsAssumption DEF ProjTypeOK
    <3>3. \A c \in Claims :
            files'[TheRoot][c] = IF c \in gone THEN NoView ELSE files[TheRoot][c]
      BY <3>1, <3>2
    <3>4. DoneClaims(kind)' = DoneClaims(kind)
      BY <2>1, <2>5 DEF FilesSwept, DoneClaims, JobOf, claimVars
    <3>5. DoneClaims(kind) \subseteq Claims
      BY <1>0 DEF DoneClaims, TypeOK
    <3>6. ASSUME NEW c \in DoneClaims(kind)
          PROVE  files'[TheRoot][c] = files[TheRoot][c]
      <4>1. CASE c \in gone
        <5>1. c \in Claims /\ View(c) = NoView
          BY <3>5, <4>1, OutOfForce
        <5>2. files[TheRoot][c] = Truth[c]
          BY DEF FileView!Faithful
        <5> QED BY <3>3, <4>1, <5>1, <5>2 DEF Truth
      <4>2. CASE c \notin gone
        BY <3>3, <3>5, <4>2
      <4> QED BY <4>1, <4>2
    <3>7. files'[TheRoot] \in [Claims -> AllViews]
      BY <1>0, <3>2 DEF ProjTypeOK
    <3>8. FileView!Clear
      BY <2>1, <3>3, <3>4, <3>6, <3>7 DEF FileView!Clear
    <3> QED BY <3>8 DEF FileView!ViewNext
  <2> QED BY <1>2, <1>3, <2>1, <2>2, <2>3, <2>4, <2>5, ProcessShows
<1>4. ASSUME NEW p \in Procs, Rebuild(p)
      PROVE  FileView!ViewNext
  <2>1. UNCHANGED claimVars /\ UNCHANGED files
    BY <1>4 DEF Rebuild
  <2>2. DoneClaims(kind)' = {}
    BY <1>4, RebuildUndoes
  <2>3. FileView!Change
    BY <2>1, <2>2 DEF FileView!Change
  <2> QED BY <2>3 DEF FileView!ViewNext
<1>5. CASE ClockStep
  BY <1>0, <1>2, <1>5, ClockOnlyRunsOn
<1>6. CASE UNCHANGED vars
  <2>1. UNCHANGED <<outbox, current, versions, files>>
    BY <1>6 DEF vars, authorityVars, tables, projVars
  <2>2. DoneClaims(kind)' = DoneClaims(kind) /\ Truth' = Truth
    BY <2>1, TruthStays DEF DoneClaims, JobOf
  <2> QED BY <2>1, <2>2 DEF FileView!viewVars
<1> QED BY <1>1, <1>3, <1>4, <1>5, <1>6 DEF ProjNext, ProcessStep, ClockStep

-----------------------------------------------------------------------------
(* What a view promises: finished work has shown the authority's word. *)

LEMMA FtsStaysFaithful ==
  ASSUME FtsView!Faithful, FtsView!ViewNext \/ UNCHANGED FtsView!viewVars,
         DOMAIN ftsRow = Claims, DoneClaims("memory_fts") \subseteq Claims
  PROVE  FtsView!Faithful'
<1>1. CASE FtsView!Change \/ FtsView!Clear \/ UNCHANGED FtsView!viewVars
  BY <1>1 DEF FtsView!Change, FtsView!Clear, FtsView!viewVars, FtsView!Faithful
<1>2. ASSUME NEW c \in Claims, FtsView!Show(c) \/ FtsView!Finish(c)
      PROVE  FtsView!Faithful'
  <2> SUFFICES ASSUME NEW d \in DoneClaims("memory_fts")'
               PROVE  ftsRow'[d] = Truth'[d]
    BY DEF FtsView!Faithful
  <2>1. /\ d = c \/ d \in DoneClaims("memory_fts")
        /\ Truth' = Truth
    BY <1>2 DEF FtsView!Show, FtsView!Finish
  <2>2. CASE FtsView!Show(c)
    BY <2>1, <2>2 DEF FtsView!Show, FtsView!Faithful
  <2>3. CASE FtsView!Finish(c)
    BY <2>1, <2>3 DEF FtsView!Finish, FtsView!Faithful
  <2> QED BY <1>2, <2>2, <2>3
<1> QED BY <1>1, <1>2 DEF FtsView!ViewNext

LEMMA FileStaysFaithful ==
  ASSUME FileView!Faithful, FileView!ViewNext \/ UNCHANGED FileView!viewVars,
         DOMAIN files[TheRoot] = Claims, DoneClaims("memory_memfs") \subseteq Claims
  PROVE  FileView!Faithful'
<1>1. CASE FileView!Change \/ FileView!Clear \/ UNCHANGED FileView!viewVars
  BY <1>1 DEF FileView!Change, FileView!Clear, FileView!viewVars, FileView!Faithful
<1>2. ASSUME NEW c \in Claims, FileView!Show(c) \/ FileView!Finish(c)
      PROVE  FileView!Faithful'
  <2> SUFFICES ASSUME NEW d \in DoneClaims("memory_memfs")'
               PROVE  files'[TheRoot][d] = Truth'[d]
    BY DEF FileView!Faithful
  <2>1. /\ d = c \/ d \in DoneClaims("memory_memfs")
        /\ Truth' = Truth
    BY <1>2 DEF FileView!Show, FileView!Finish
  <2>2. CASE FileView!Show(c)
    BY <2>1, <2>2 DEF FileView!Show, FileView!Faithful
  <2>3. CASE FileView!Finish(c)
    BY <2>1, <2>3 DEF FileView!Finish, FileView!Faithful
  <2> QED BY <1>2, <2>2, <2>3
<1> QED BY <1>1, <1>2 DEF FileView!ViewNext

\* In a database whose drains share a root, both projections are faithful.
ViewsKept ==
  AuthorityKept /\ DrainsInv /\ FtsView!Faithful /\ FileView!Faithful

LEMMA ViewsStay ==
  ASSUME SharedRoot, ViewsKept, AuthorityKept', DrainsInv', [ProjNext]_vars,
         Truth' \in [Claims -> AllViews]
  PROVE  /\ FtsView!ViewNext \/ UNCHANGED FtsView!viewVars
         /\ FileView!ViewNext \/ UNCHANGED FileView!viewVars
         /\ FtsView!Faithful' /\ FileView!Faithful'
<1>1. /\ AuthorityKept /\ DrainsInv /\ FtsView!Faithful /\ FileView!Faithful
      /\ ProjTypeOK /\ TypeOK /\ TheRoot \in Roots
  BY DEF ViewsKept, AuthorityKept, AuthorityInv, DrainsInv, SharedRoot, TheRoot
<1>2. /\ FtsView!ViewNext \/ UNCHANGED FtsView!viewVars
      /\ FileView!ViewNext \/ UNCHANGED FileView!viewVars
  BY <1>1, FtsStep, FileStep
<1>3. DOMAIN ftsRow = Claims /\ DOMAIN files[TheRoot] = Claims
  BY <1>1 DEF ProjTypeOK
<1>4. \A kind : DoneClaims(kind) \subseteq Claims
  BY <1>1 DEF DoneClaims, TypeOK
<1> QED BY <1>1, <1>2, <1>3, <1>4, FtsStaysFaithful, FileStaysFaithful

LEMMA ViewsHold ==
  ASSUME SharedRoot
  PROVE  ProjSpec => [](ViewsKept /\ Truth \in [Claims -> AllViews])
<1>1. ProjSpec => [](AuthorityKept /\ DrainsInv /\ Truth \in [Claims -> AllViews])
  <2>1. AuthorityKept => Truth \in [Claims -> AllViews]
    BY TruthTyped DEF AuthorityKept
  <2> QED BY <2>1, ProjectionsKept, PTL
<1>2. ProjInit => FtsView!Faithful /\ FileView!Faithful
  <2> SUFFICES ASSUME ProjInit PROVE FtsView!Faithful /\ FileView!Faithful
    OBVIOUS
  <2>1. \A kind : DoneClaims(kind) = {}
    BY NothingAtFirst
  <2> QED BY <2>1 DEF FtsView!Faithful, FileView!Faithful
<1>3. /\ FtsView!Faithful /\ FileView!Faithful
      /\ AuthorityKept /\ DrainsInv /\ (AuthorityKept /\ DrainsInv)'
      /\ (Truth \in [Claims -> AllViews])' /\ [ProjNext]_vars
      => (FtsView!Faithful /\ FileView!Faithful)'
  BY ViewsStay DEF ViewsKept
<1> QED BY <1>1, <1>2, <1>3, PTL DEF ProjSpec, ViewsKept

\* The claim files implement MemoryView when the drains of one database share a
\* root, although file and ACK are two steps that a crash, a stall or another
\* process's attempt can divide.
THEOREM FilesRefine ==
  ASSUME SharedRoot
  PROVE  ProjSpec => FileImplementsView
<1>1. ViewsKept /\ ViewsKept' /\ [ProjNext]_vars /\ (Truth \in [Claims -> AllViews])'
      => [FileView!ViewNext]_(FileView!viewVars)
  BY ViewsStay DEF ViewsKept
<1>2. ProjInit => FileView!ViewInit
  BY FileStart DEF SharedRoot, TheRoot
<1> QED BY <1>1, <1>2, ViewsHold, PTL
        DEF ProjSpec, FileImplementsView, FileView!ViewSpec

-----------------------------------------------------------------------------
(* What a rebuild and a drain have done when they return. *)

\* A process moves only itself.
LEMMA ProcessMoves ==
  ASSUME AuthorityKept, DrainsInv, NEW p \in Procs, NEW q \in Procs, p # q,
         ProcessStep(q) \/ Rebuild(q)
  PROVE  proc'[p] = proc[p]
<1>1. ASSUME NEW row, Become(q, row) PROVE proc'[p] = proc[p]
  BY <1>1 DEF Become
<1>2. ASSUME \/ Start(q) \/ RoundEnd(q) \/ FtsApply(q) \/ Lock(q) \/ TakeGuard(q)
             \/ Cleanup(q) \/ SweepFails(q) \/ Crash(q) \/ FileError(q) \/ Rebuild(q)
      PROVE  proc'[p] = proc[p]
  BY <1>1, <1>2 DEF Start, RoundEnd, FtsApply, Lock, TakeGuard, Cleanup, SweepFails,
                    Crash, FileError, Rebuild, Goto, Raise
<1>3. ASSUME Read(q) \/ ApplyFile(q) \/ Ack(q) PROVE proc'[p] = proc[p]
  BY <1>1, <1>3 DEF Read, ApplyFile, Ack, Goto
<1>4. ASSUME Release(q) PROVE proc'[p] = proc[p]
  <2>1. proc[q].out \in {"applied", "lost", "obsolete", "error"}
    <3>1. proc[q] \in ProcRow /\ proc[q].out # "none"
      BY <1>4, ProcFacts DEF Release, At, HoldsJob
    <3> QED BY <3>1, RowFields
  <2>2. \/ Become(q, Applied(q, "round")) \/ Raise(q) \/ Goto(q, "memfsObsolete")
        \/ Goto(q, "memfsFail")
    BY <1>4, <2>1 DEF Release
  <2> QED BY <1>1, <2>2 DEF Raise, Goto
<1>5. ASSUME NEW kind, NEW here, NEW working, NEW after, Claim(q, kind, here, working, after)
      PROVE  proc'[p] = proc[p]
  BY <1>1, <1>5 DEF Claim, Goto
<1>6. ASSUME NEW here, NEW next, MarkObsolete(q, here, next) \/ MarkFailed(q, here)
      PROVE  proc'[p] = proc[p]
  BY <1>1, <1>6 DEF MarkObsolete, MarkFailed, Raise
<1> QED BY <1>2, <1>3, <1>4, <1>5, <1>6
        DEF ProcessStep, Step, ClaimFts, ClaimMemfs

\* The services and the clock move no process.
LEMMA OthersMoveNone ==
  ASSUME AuthorityStep \/ ClockStep \/ UNCHANGED vars
  PROVE  proc' = proc
  BY DEF AuthorityStep, ClockStep, ExpireDead, Stall, RetryDue, Expire, projVars, vars

\* A file changes to what the authority says of its claim.
LEMMA FilesChangeRight ==
  ASSUME AuthorityKept, DrainsInv, [ProjNext]_vars, NEW root \in Roots, NEW c \in Claims,
         files'[root][c] # files[root][c]
  PROVE  files'[root][c] = View(c)
<1>0. ProjTypeOK /\ TypeOK
  BY DEF AuthorityKept, AuthorityInv, DrainsInv
<1>1. PICK q \in Procs : ProcessStep(q)
  <2>1. CASE AuthorityStep \/ UNCHANGED vars \/ \E q \in Procs : Rebuild(q)
    BY <2>1 DEF AuthorityStep, projVars, vars, Rebuild
  <2>2. CASE ClockStep
    BY <1>0, <2>2, ClockIsTame
  <2> QED BY <2>1, <2>2 DEF ProjNext, ProcessStep, ClockStep
<1>2. CASE FileWritten(q)
  <2>1. WriterCurrent(q)
    BY DEF DrainsInv
  <2>2. c = JobClaim(q) /\ root = RootOf[q] /\ files'[root][c] = proc[q].snap
    BY <1>0, <1>2 DEF FileWritten, ProjTypeOK
  <2> QED BY <1>2, <2>1, <2>2 DEF FileWritten, At, WriterCurrent
<1>3. CASE FilesSwept(q)
  <2>1. PICK gone \in SUBSET (Claims \ InForce) :
          files' = [files EXCEPT ![RootOf[q]] =
                      [d \in Claims |-> IF d \in gone THEN NoView ELSE files[RootOf[q]][d]]]
    BY <1>3 DEF FilesSwept
  <2>2. c \in gone /\ files'[root][c] = NoView
    BY <1>0, <2>1 DEF ProjTypeOK
  <2> QED BY <2>2, OutOfForce
<1> QED BY <1>1, <1>2, <1>3, ProcessShows DEF OnlyRunsOn, FtsShown, FileAcked

\* A process at the end of its drain or of its rebuild returns a result only from
\* there.
LEMMA ReturnsFrom ==
  ASSUME AuthorityKept, DrainsInv, [ProjNext]_vars, NEW p \in Procs,
         At(p, "round") \/ At(p, "cleanup"), proc'[p].result \in {"ok", "rebuilt"}
  PROVE  \/ At(p, "round") /\ RoundEnd(p) /\ proc'[p] = Idle("ok")
         \/ At(p, "cleanup") /\ Cleanup(p) /\ proc'[p] = Idle("rebuilt")
<1>0. proc \in [Procs -> ProcRow] /\ proc[p].result = "none" /\ proc[p].pc # "idle"
  BY ProcFacts DEF At, ProjTypeOK
<1>1. proc'[p] # proc[p]
  BY <1>0
<1>2. ProcessStep(p) \/ Rebuild(p)
  BY <1>1, OthersMoveNone, ProcessMoves DEF ProjNext, ProcessStep, ClockStep
<1>3. ~Rebuild(p) /\ ~Start(p)
  BY <1>0 DEF Rebuild, Start, At
<1>4. ~ \/ ClaimFts(p) \/ FtsApply(p) \/ MarkObsolete(p, "ftsObsolete", "memfs")
        \/ MarkFailed(p, "ftsFail") \/ ClaimMemfs(p) \/ Lock(p) \/ TakeGuard(p)
        \/ Read(p) \/ ApplyFile(p) \/ Ack(p) \/ Release(p)
        \/ MarkObsolete(p, "memfsObsolete", "round") \/ MarkFailed(p, "memfsFail")
        \/ FileError(p)
  BY DEF At, ClaimFts, FtsApply, MarkObsolete, MarkFailed, ClaimMemfs, Claim, Lock,
         TakeGuard, Read, ApplyFile, Ack, Release, FileError
<1>5. ASSUME NEW row, Become(p, row) PROVE proc'[p] = row
  BY <1>0, <1>5 DEF Become
<1>6. \A result : Idle(result).result = result
  BY DEF Idle
<1>7. ~SweepFails(p) /\ ~Crash(p)
  BY <1>5, <1>6 DEF SweepFails, Crash, Raise
<1>8. CASE RoundEnd(p)
  <2> DEFINE again == [proc[p] EXCEPT !.pc = "fts", !.progressed = FALSE]
             sweep == [proc[p] EXCEPT !.pc = "cleanup"]
  <2>1. again.result = "none"
    BY <1>0, ProcFacts DEF ProcRow
  <2>2. sweep.result = "none"
    BY <1>0, ProcFacts DEF ProcRow
  <2>3. \/ proc'[p] = again \/ proc'[p] = Idle("limit")
        \/ proc'[p] = sweep \/ proc'[p] = Idle("ok")
    BY <1>5, <1>8 DEF RoundEnd, Goto
  <2> HIDE DEF again, sweep
  <2>4. proc'[p] = Idle("ok")
    BY <1>6, <2>1, <2>2, <2>3
  <2> QED BY <1>8, <2>4 DEF RoundEnd
<1>9. CASE Cleanup(p)
  <2>1. proc'[p] = Idle("failed") \/ proc'[p] = Idle("rebuilt")
    BY <1>5, <1>9 DEF Cleanup, Raise
  <2>2. proc'[p] = Idle("rebuilt")
    BY <1>6, <2>1
  <2> QED BY <1>9, <2>2 DEF Cleanup
<1> QED BY <1>2, <1>3, <1>4, <1>7, <1>8, <1>9 DEF ProcessStep, Step

\* When rebuild_all_memory_projections returns in a database whose drains share a
\* root, no file of a claim out of force is left and every other file is right or
\* has its job open; and no sweep, finished or failed, takes away a file that is
\* what the authority says.
THEOREM RebuildLeavesExact ==
  ASSUME SharedRoot
  PROVE  ProjSpec => RebuildOkExact
<1> DEFINE Exact == \A p \in Procs : At(p, "cleanup") =>
              \A c \in Claims :
                /\ proc'[p].result = "rebuilt" =>
                     \/ files'[RootOf[p]][c] = View(c)
                     \/ c \in InForce /\ c \notin DoneClaims("memory_memfs")
                /\ files'[RootOf[p]][c] # files[RootOf[p]][c] =>
                     files'[RootOf[p]][c] = View(c)
<1>1. ViewsKept /\ [ProjNext]_vars => Exact
  <2> SUFFICES ASSUME ViewsKept, [ProjNext]_vars, NEW p \in Procs, At(p, "cleanup"),
                      NEW c \in Claims
               PROVE  /\ proc'[p].result = "rebuilt" =>
                           \/ files'[RootOf[p]][c] = View(c)
                           \/ c \in InForce /\ c \notin DoneClaims("memory_memfs")
                      /\ files'[RootOf[p]][c] # files[RootOf[p]][c] =>
                           files'[RootOf[p]][c] = View(c)
    OBVIOUS
  <2>0. AuthorityKept /\ DrainsInv /\ ProjTypeOK /\ RootOf[p] \in Roots
    BY ProcsAssumption DEF ViewsKept, DrainsInv
  <2>1. files'[RootOf[p]][c] # files[RootOf[p]][c] => files'[RootOf[p]][c] = View(c)
    BY <2>0, FilesChangeRight
  <2>2. ASSUME proc'[p].result = "rebuilt", c \in InForce => c \in DoneClaims("memory_memfs")
        PROVE  files'[RootOf[p]][c] = View(c)
    <3>1. /\ Cleanup(p) /\ proc'[p] = Idle("rebuilt")
      <4>1. ~At(p, "round")
        BY DEF At
      <4> QED BY <2>0, <2>2, <4>1, ReturnsFrom
    <3>2. files' = [files EXCEPT ![RootOf[p]] = Swept(RootOf[p])]
      <4>1. CASE Raise(p)
        <5>1. proc'[p] = Idle("failed")
          BY <2>0, <4>1 DEF Raise, Become, ProjTypeOK
        <5> QED BY <3>1, <5>1 DEF Idle
      <4>2. CASE ~Raise(p)
        BY <3>1, <4>2 DEF Cleanup
      <4> QED BY <4>1, <4>2
    <3>3. files'[RootOf[p]][c] = IF c \in InForce THEN files[RootOf[p]][c] ELSE NoView
      BY <2>0, <3>2 DEF Swept, ProjTypeOK
    <3>4. CASE c \in InForce
      <4>1. files[TheRoot][c] = Truth[c]
        BY <2>2, <3>4 DEF ViewsKept, FileView!Faithful
      <4> QED BY <3>3, <3>4, <4>1 DEF SharedRoot, Truth
    <3>5. CASE c \notin InForce
      BY <3>3, <3>5, OutOfForce
    <3> QED BY <3>4, <3>5
  <2> QED BY <2>1, <2>2
<1>2. ProjSpec => [][Exact]_vars
  BY <1>1, ViewsHold, PTL DEF ProjSpec
<1> QED BY <1>2 DEF RebuildOkExact

-----------------------------------------------------------------------------
(* Work that is not there is not counted: the claims that have jobs. *)

\* A rebuild leaves only the claims in force with jobs; without rebuilds every
\* claim has its two.
WorkCovered ==
  \A c \in DOMAIN current : c \in InForce \/ MaxRebuilds = 0 =>
    JobsOf(c, current[c].version) \subseteq DOMAIN outbox

LEMMA CoveredStays ==
  ASSUME AuthorityKept, DrainsInv, WorkCovered, [ProjNext]_vars
  PROVE  WorkCovered'
<1>0. TypeOK /\ ProjTypeOK
  BY DEF AuthorityKept, AuthorityInv, DrainsInv
<1>1. CASE AuthorityStep
  <2>1. ServiceStep
    BY <1>1, ServicesServe DEF AuthorityStep
  <2> SUFFICES ASSUME NEW c \in DOMAIN current', c \in InForce' \/ MaxRebuilds = 0
               PROVE  JobsOf(c, current'[c].version) \subseteq DOMAIN outbox'
    BY DEF WorkCovered
  <2>2. CASE c \in DOMAIN current /\ current'[c] = current[c]
    <3>1. c \in InForce \/ MaxRebuilds = 0
      BY <2>2 DEF InForce
    <3>2. JobsOf(c, current'[c].version) \subseteq DOMAIN outbox
      BY <2>2, <3>1 DEF WorkCovered
    <3> QED BY <2>1, <3>2 DEF ServiceStep, NewJobsNumbered
  <2>3. CASE \A key \in JobsOf(c, current'[c].version) : key \in DOMAIN outbox'
    BY <2>3
  <2> QED BY <2>1, <2>2, <2>3 DEF ServiceStep, ChangeReopens
<1>2. ASSUME DOMAIN outbox' = DOMAIN outbox, current' = current
      PROVE  WorkCovered'
  BY <1>2 DEF WorkCovered, InForce
<1>3. ASSUME NEW p \in Procs, ProcessStep(p)
      PROVE  WorkCovered'
  <2>1. Tame /\ UNCHANGED claimVars
    BY <1>0, <1>3, ProcessIsTame DEF DrainsInv
  <2> QED BY <1>2, <2>1 DEF Tame, claimVars
<1>4. ASSUME NEW p \in Procs, Rebuild(p)
      PROVE  WorkCovered'
  <2>1. current' = current /\ MaxRebuilds # 0
    <3>1. budget["rebuild"] \in Nat /\ budget["rebuild"] < MaxRebuilds
      BY <1>0, <1>4 DEF Rebuild, Spend, ProjTypeOK
    <3> QED BY <1>4, <3>1 DEF Rebuild, claimVars
  <2>2. \A c \in InForce : JobsOf(c, current[c].version) \subseteq DOMAIN outbox'
    BY <1>4, RebuildRows
  <2> QED BY <2>1, <2>2 DEF WorkCovered, InForce
<1>5. CASE ClockStep
  <2>1. DOMAIN outbox' = DOMAIN outbox /\ current' = current
    BY <1>0, <1>5, ClockIsTame DEF Tame, claimVars
  <2> QED BY <1>2, <2>1
<1>6. CASE UNCHANGED vars
  BY <1>2, <1>6 DEF vars, authorityVars, tables
<1> QED BY <1>1, <1>3, <1>4, <1>5, <1>6 DEF ProjNext, ProcessStep, ClockStep

\* When no job is open, every claim that has jobs is published or given up.
LEMMA NothingOpen ==
  ASSUME SharedRoot, ViewsKept, WorkCovered, Incomplete = {}, NEW p \in Procs,
         NEW c \in DOMAIN current, c \in InForce \/ MaxRebuilds = 0
  PROVE  /\ Published(c, RootOf[p])
         /\ \/ c \notin InForce \/ Dead("memory_fts", c) \/ Dead("memory_memfs", c)
            \/ ProjectionsApplied(c, RootOf[p])
<1>0. /\ AuthorityKept /\ DrainsInv /\ TypeOK /\ ObsoleteIsStale /\ RootOf[p] = TheRoot
      /\ c \in Claims
  BY DEF ViewsKept, AuthorityKept, AuthorityInv, DrainsInv, SharedRoot, TypeOK
<1>1. current[c].version \in Nat \ {0}
  BY <1>0 DEF TypeOK, CurrentRow
<1>2. ASSUME NEW kind \in Kinds
      PROVE  c \in DoneClaims(kind) \/ Dead(kind, c)
  <2> DEFINE key == JobOf(kind, c)
  <2>1. key \in DOMAIN outbox /\ key = <<kind, c, current[c].version>>
    BY DEF WorkCovered, JobsOf, JobOf
  <2> HIDE DEF key
  <2>2. outbox[key].status \in Statuses
    BY <1>0, <2>1 DEF TypeOK, JobRow
  <2>3. outbox[key].status # "pending" /\ outbox[key].status # "processing"
    BY <2>1 DEF Incomplete
  <2>4. outbox[key].status # "obsolete"
    <3>1. key[2] = c /\ key[3] = current[c].version
      BY <2>1
    <3>2. ~(key[3] < current[key[2]].version)
      BY <1>1, <3>1
    <3> QED BY <1>0, <2>1, <3>2 DEF ObsoleteIsStale
  <2>5. outbox[key].status \in {"applied", "dead_letter"}
    BY <2>2, <2>3, <2>4 DEF Statuses
  <2> QED BY <2>1, <2>5 DEF DoneClaims, Dead, key
<1>3. c \in DoneClaims("memory_fts") => ftsRow[c] = View(c)
  BY <1>0 DEF ViewsKept, FtsView!Faithful, Truth
<1>4. c \in DoneClaims("memory_memfs") => files[RootOf[p]][c] = View(c)
  BY <1>0 DEF ViewsKept, FileView!Faithful, Truth
<1>5. c \in InForce => View(c) # NoView
  <2> SUFFICES ASSUME c \in InForce PROVE View(c).version # NoView.version
    OBVIOUS
  <2> QED BY <1>1 DEF InForce, View, NoView
<1>6. /\ c \in DoneClaims("memory_fts") \/ Dead("memory_fts", c)
      /\ c \in DoneClaims("memory_memfs") \/ Dead("memory_memfs", c)
  BY <1>2 DEF Kinds
<1> QED BY <1>3, <1>4, <1>5, <1>6 DEF Published, ProjectionsApplied

\* A drain returns ok only when no job is open.
LEMMA OkMeansNothingOpen ==
  ASSUME AuthorityKept, DrainsInv, [ProjNext]_vars, NEW p \in Procs, At(p, "round"),
         proc'[p].result = "ok"
  PROVE  Incomplete = {}
<1>1. RoundEnd(p) /\ proc'[p] = Idle("ok")
  <2>1. ~At(p, "cleanup")
    BY DEF At
  <2> QED BY <2>1, ReturnsFrom
<1>2. proc \in [Procs -> ProcRow] /\ proc[p].result = "none"
  BY ProcFacts DEF At, ProjTypeOK
<1>3. Idle("ok").pc = "idle" /\ Idle("ok").result = "ok" /\ Idle("limit").result = "limit"
  BY DEF Idle
<1>4. \A row : Become(p, row) => proc'[p] = row
  BY <1>2 DEF Become
<1> DEFINE again == [proc[p] EXCEPT !.pc = "fts", !.progressed = FALSE]
<1>5. again.result = "none"
  BY <1>2, ProcFacts DEF ProcRow
<1>6. Incomplete # {} => Become(p, again) \/ Become(p, Idle("limit"))
  BY <1>1 DEF RoundEnd
<1> HIDE DEF again
<1> QED BY <1>1, <1>3, <1>4, <1>5, <1>6

LEMMA ConvergenceHolds ==
  ASSUME SharedRoot
  PROVE  ProjSpec => [](ViewsKept /\ WorkCovered)
<1>1. ProjInit => WorkCovered
  <2> SUFFICES ASSUME ProjInit PROVE DOMAIN current = {}
    BY DEF WorkCovered
  <2> QED BY DEF ProjInit, Init, Empty
<1>2. ViewsKept /\ WorkCovered /\ [ProjNext]_vars => WorkCovered'
  BY CoveredStays DEF ViewsKept
<1> QED BY <1>1, <1>2, ViewsHold, PTL DEF ProjSpec

\* drain_memory_projections returns without an exception only when every claim is
\* published in both projections or dead-lettered, and a claim in force passes
\* require_memory_projections_applied: where the drains of a database share a root
\* and it is not rebuilt.
THEOREM DrainOkMeansPublished ==
  ASSUME SharedRoot, MaxRebuilds = 0
  PROVE  ProjSpec => DrainOkPublished
<1> DEFINE Ok == \A p \in Procs :
              At(p, "round") /\ proc'[p].result = "ok" =>
                \A c \in DOMAIN current :
                  /\ Published(c, RootOf[p])
                  /\ \/ c \notin InForce \/ Dead("memory_fts", c) \/ Dead("memory_memfs", c)
                     \/ ProjectionsApplied(c, RootOf[p])
<1>1. ViewsKept /\ WorkCovered /\ [ProjNext]_vars => Ok
  <2> SUFFICES ASSUME ViewsKept, WorkCovered, [ProjNext]_vars, NEW p \in Procs,
                      At(p, "round"), proc'[p].result = "ok", NEW c \in DOMAIN current
               PROVE  /\ Published(c, RootOf[p])
                      /\ \/ c \notin InForce \/ Dead("memory_fts", c)
                         \/ Dead("memory_memfs", c) \/ ProjectionsApplied(c, RootOf[p])
    OBVIOUS
  <2>1. Incomplete = {}
    BY OkMeansNothingOpen DEF ViewsKept
  <2> QED BY <2>1, NothingOpen
<1>2. ProjSpec => [][Ok]_vars
  BY <1>1, ConvergenceHolds, PTL DEF ProjSpec
<1> QED BY <1>2 DEF DrainOkPublished

\* Whatever rebuilds run or fail meanwhile, the promise holds for the claims in
\* force, the ones a reader asks for.
OkMeansInForceShown ==
  [][\A p \in Procs : At(p, "round") /\ proc'[p].result = "ok" =>
       \A c \in InForce :
         \/ Dead("memory_fts", c) \/ Dead("memory_memfs", c)
         \/ ProjectionsApplied(c, RootOf[p])]_vars

\* A drain that returns ok has every claim in force shown by both projections, or
\* dead-lettered, with any number of rebuilds before it and around it.
THEOREM DrainOkShowsInForce ==
  ASSUME SharedRoot
  PROVE  ProjSpec => OkMeansInForceShown
<1> DEFINE Ok == \A p \in Procs : At(p, "round") /\ proc'[p].result = "ok" =>
              \A c \in InForce :
                \/ Dead("memory_fts", c) \/ Dead("memory_memfs", c)
                \/ ProjectionsApplied(c, RootOf[p])
<1>1. ViewsKept /\ WorkCovered /\ [ProjNext]_vars => Ok
  <2> SUFFICES ASSUME ViewsKept, WorkCovered, [ProjNext]_vars, NEW p \in Procs,
                      At(p, "round"), proc'[p].result = "ok", NEW c \in InForce
               PROVE  \/ Dead("memory_fts", c) \/ Dead("memory_memfs", c)
                      \/ ProjectionsApplied(c, RootOf[p])
    OBVIOUS
  <2>1. Incomplete = {}
    BY OkMeansNothingOpen DEF ViewsKept
  <2>2. c \in DOMAIN current
    BY DEF InForce
  <2> QED BY <2>1, <2>2, NothingOpen
<1>2. ProjSpec => [][Ok]_vars
  BY <1>1, ConvergenceHolds, PTL DEF ProjSpec
<1> QED BY <1>2 DEF OkMeansInForceShown
=============================================================================

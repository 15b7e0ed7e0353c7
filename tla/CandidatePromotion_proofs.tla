---------------------- MODULE CandidatePromotion_proofs ----------------------
(***************************************************************************)
(* Proofs about the candidate pipeline: an uncertain candidate waits for   *)
(* its reviewer, a retraction that is reported has happened, a decision is *)
(* given once, and an edited message is evidence of nothing.  They hold    *)
(* for any number of processes, crashes, edits and guards, and whatever    *)
(* the batches are.                                                        *)
(*                                                                         *)
(* Then proofs about the assertions, and about one host that is alone:     *)
(* what it leaves is what the commands add up to.                          *)
(***************************************************************************)
EXTENDS MCPromotionAlone, MemoryAuthority_proofs, FoldLemmas

-----------------------------------------------------------------------------
(* The rows of the processes. *)

RowFields ==
  {"pc", "batch", "upto", "recovering", "existed", "seen", "outcome"}

\* Where a process works on no candidate.
Unoccupied == {"idle", "raised", "next"}

\* Where a process may still change the authority for its candidate.
Acting == {"identity", "write", "compare", "resolve", "supersede", "replace",
           "retract", "retire"}

ShapedRow(row) ==
  /\ DOMAIN row = RowFields
  /\ row.pc \notin Unoccupied => row.batch # <<>>

\* A candidate that is promoted at once, or that a reviewer asked for.
Entitled(e) ==
  e \in UserEvents => CandidateInfo[e].tier = "activate" \/ e \in approvals

EntitledRow(row) == row.pc \in Acting => Entitled(Head(row.batch))

Retired(c) == c \in DOMAIN current /\ current[c].state = "retired"

\* The outcome a process holds claims a retraction only if there was one.
TruthfulRow(row) ==
  row.outcome.decision = "retracted" =>
    row.batch # <<>> /\ Retired(ClaimOf(Head(row.batch)))

\* A reviewer that works is at a candidate it approved.
ReviewerRow(row) ==
  row.pc \notin {"idle", "raised"} =>
    row.batch # <<>> /\ row.pc # "next" /\ Head(row.batch) \in approvals

GoodRow(p, row) ==
  /\ ShapedRow(row) /\ EntitledRow(row) /\ TruthfulRow(row)
  /\ p \in Reviewers => ReviewerRow(row)

RowsGood ==
  /\ DOMAIN proc = Actors
  /\ \A p \in Actors : GoodRow(p, proc[p])

\* A current row has a version, a receipt of retire stands for a retired claim.
AuthorityGood ==
  /\ \A c \in DOMAIN current : Keyed(c)
  /\ \A e \in DOMAIN receipts : Retired(ClaimOf(e))
  /\ UnreviewedStaysOut

PipeInv ==
  /\ RowsGood
  /\ AuthorityGood
  /\ RetractedIsRetired

\* What no step takes back: an approval and the end of a claim.
Later ==
  /\ approvals \subseteq approvals'
  /\ \A c : Retired(c) => Retired(c)'

-----------------------------------------------------------------------------
(* Lemmas about the rows. *)

\* What an update of one column of a row does to the others.
LEMMA ColumnSet ==
  ASSUME NEW row, DOMAIN row = RowFields, NEW new
  PROVE  /\ DOMAIN [row EXCEPT !.pc = new] = RowFields
         /\ [row EXCEPT !.pc = new].pc = new
         /\ [row EXCEPT !.pc = new].batch = row.batch
         /\ [row EXCEPT !.pc = new].outcome = row.outcome
         /\ [row EXCEPT !.pc = new].recovering = row.recovering
         /\ DOMAIN [row EXCEPT !.recovering = new] = RowFields
         /\ [row EXCEPT !.recovering = new].pc = row.pc
         /\ [row EXCEPT !.recovering = new].batch = row.batch
         /\ [row EXCEPT !.recovering = new].outcome = row.outcome
BY DEF RowFields

LEMMA IdleRowGood ==
  ASSUME NEW p
  PROVE  /\ GoodRow(p, Idle)
         /\ GoodRow(p, [Idle EXCEPT !.pc = "raised"])
         /\ GoodRow(p, Idle)'
         /\ GoodRow(p, [Idle EXCEPT !.pc = "raised"])'
BY DEF GoodRow, ShapedRow, EntitledRow, TruthfulRow, ReviewerRow, Idle, RowFields,
       Acting, Unoccupied, NoOutcome, Outcome

\* The row of a process that rests stays good while the others work.
LEMMA RowsAge ==
  ASSUME NEW p, NEW row, GoodRow(p, row), Later
  PROVE  GoodRow(p, row)'
BY DEF GoodRow, ShapedRow, EntitledRow, Entitled, TruthfulRow, ReviewerRow, Later

\* A step of one process changes its own row.
LEMMA OneRowChanges ==
  ASSUME RowsGood, Later, NEW p \in Actors, NEW row, Become(p, row),
         GoodRow(p, row)'
  PROVE  RowsGood'
<1>1. DOMAIN proc' = Actors /\ proc'[p] = row
  BY DEF RowsGood, Become
<1>2. ASSUME NEW q \in Actors PROVE GoodRow(q, proc[q])'
  <2>1. CASE q = p
    BY <1>1, <2>1
  <2>2. CASE q # p
    <3> DEFINE other == proc[q]
    <3>1. GoodRow(q, other)
      BY DEF RowsGood
    <3>2. proc'[q] = other
      BY <2>2 DEF RowsGood, Become
    <3> HIDE DEF other
    <3> QED BY <3>1, <3>2, RowsAge
  <2> QED BY <2>1, <2>2
<1> QED BY <1>1, <1>2 DEF RowsGood

LEMMA RowsStay ==
  ASSUME RowsGood, Later, UNCHANGED proc
  PROVE  RowsGood'
<1>1. ASSUME NEW q \in Actors PROVE GoodRow(q, proc[q])'
  <2> DEFINE other == proc[q]
  <2>1. GoodRow(q, other) /\ proc'[q] = other
    BY DEF RowsGood
  <2> HIDE DEF other
  <2> QED BY <2>1, RowsAge
<1> QED BY <1>1 DEF RowsGood

\* A process goes on with its candidate.
LEMMA GoesOnWith ==
  ASSUME RowsGood, Later, NEW p \in Actors, proc[p].pc \notin Unoccupied,
         NEW e, e = Cand(p), NEW row, Become(p, row),
         DOMAIN row = RowFields, row.batch = proc[p].batch,
         row.pc \notin Unoccupied,
         row.pc \in Acting => proc[p].pc \in Acting,
         row.outcome.decision = "retracted" =>
           row.outcome = proc[p].outcome \/ Retired(ClaimOf(e))'
  PROVE  RowsGood'
<1>1. GoodRow(p, proc[p])
  BY DEF RowsGood
<1>2. ShapedRow(row)' /\ row.batch # <<>>
  BY <1>1 DEF GoodRow, ShapedRow
<1>3. EntitledRow(row)'
  BY <1>1 DEF GoodRow, EntitledRow, Entitled, Later
<1>4. TruthfulRow(row)'
  <2> SUFFICES ASSUME row.outcome.decision = "retracted"
               PROVE  Retired(ClaimOf(e))'
    BY <1>2 DEF TruthfulRow, Cand
  <2>1. CASE row.outcome = proc[p].outcome
    <3>1. Retired(ClaimOf(e))
      BY <1>1, <2>1 DEF GoodRow, TruthfulRow, Cand
    <3> DEFINE c == ClaimOf(e)
    <3> HIDE DEF c
    <3>2. Retired(c) => Retired(c)'
      BY DEF Later
    <3> QED BY <3>1, <3>2 DEF c, ClaimOf
  <2> QED BY <2>1
<1>5. p \in Reviewers => ReviewerRow(row)'
  BY <1>1, <1>2 DEF GoodRow, ReviewerRow, Unoccupied, Later
<1>6. GoodRow(p, row)'
  BY <1>2, <1>3, <1>4, <1>5 DEF GoodRow
<1> QED BY <1>6, OneRowChanges

-----------------------------------------------------------------------------
(* Lemmas about the authority. *)

\* The transactions of a candidate rest on the candidate alone.
LEMMA CandidateSources ==
  ASSUME NEW e, NEW n
  PROVE  /\ WriteSources(CandidateWrite(e)) = <<e>>
         /\ ReplaceSource(CandidateReplace(e, n)) = e
         /\ CandidateWrite(e).claim = ClaimOf(e)
         /\ CandidateReplace(e, n).claim = ClaimOf(e)
         /\ CandidateReplace(e, n).expected = n
         /\ CandidateRetire(e, n).claim = ClaimOf(e)
         /\ CandidateRetire(e, n).expected = n
         /\ CandidateRetire(e, n).idem = e
         /\ CandidateRetire(e, n).action = "retire"
         /\ CandidateWrite(e).refs = <<e>>
         /\ CandidateReplace(e, n).refs = <<e>>
         /\ Derived(CandidateWrite(e)) /\ Derived(CandidateReplace(e, n))
BY DEF WriteSources, ReplaceSource, CandidateWrite, CandidateReplace, CandidateRetire,
       Derived

\* A version that is new rests on its candidate, and no old one is touched.
AddsVersion(e) ==
  \E k, row :
    /\ k \notin DOMAIN versions /\ k[1] = ClaimOf(e)
    /\ row.sources = <<e>> /\ versions' = Put(versions, k, row)

LEMMA EvidenceGrows ==
  ASSUME NEW e, AddsVersion(e), NEW f, f # e
  PROVE  WrittenBy(f)' = WrittenBy(f)
<1>1. PICK k, row : /\ k \notin DOMAIN versions /\ k[1] = ClaimOf(e)
                    /\ row.sources = <<e>> /\ versions' = Put(versions, k, row)
  BY DEF AddsVersion
<1>2. /\ DOMAIN versions' = DOMAIN versions \cup {k} /\ versions'[k] = row
      /\ \A j \in DOMAIN versions : versions'[j] = versions[j]
  <2>1. /\ DOMAIN Put(versions, k, row) = DOMAIN versions \cup {k}
        /\ Put(versions, k, row)[k] = row
        /\ \A j \in DOMAIN versions : j # k => Put(versions, k, row)[j] = versions[j]
    BY DEF Put
  <2> QED BY <1>1, <2>1
<1>3. ~ \E i \in DOMAIN row.sources : row.sources[i] = f
  BY <1>1
<1> QED BY <1>2, <1>3 DEF WrittenBy

\* memory_write_service.write on behalf of a candidate: the claim is new, the
\* event not superseded.
LEMMA WriteEvidence ==
  ASSUME NEW e, Write(CandidateWrite(e))
  PROVE  /\ AddsVersion(e) /\ ~Keyed(ClaimOf(e))
         /\ eventGov[e] # "superseded"
         /\ DOMAIN current' = DOMAIN current \cup {ClaimOf(e)}
         /\ \A c \in DOMAIN current : c # ClaimOf(e) => current'[c] = current[c]
         /\ receipts' = receipts
<1> DEFINE r == CandidateWrite(e)
           k == <<ClaimOf(e), 1>>
           row == Version(r.content, r.sensitivity, Lineage(r), WriteSources(r))
<1>1. r.claim = ClaimOf(e) /\ r.refs = <<e>> /\ WriteSources(r) = <<e>>
  BY CandidateSources
<1>2. ~Keyed(ClaimOf(e)) /\ k \notin DOMAIN versions
  BY <1>1 DEF Write, Keyed
<1>3. versions' = Put(versions, k, row) /\ row.sources = <<e>>
  BY <1>1 DEF Write, Version
<1>4. eventGov[e] # "superseded"
  BY <1>1 DEF Write, SourcesLive
<1>5. receipts' = receipts
  BY DEF Write
<1>6. \E new : current' = Put(current, ClaimOf(e), new)
  BY <1>1 DEF Write
<1> HIDE DEF r, row
<1>7. AddsVersion(e)
  BY <1>2, <1>3 DEF AddsVersion
<1>9. PICK new : current' = Put(current, ClaimOf(e), new)
  BY <1>6
<1>10. /\ DOMAIN current' = DOMAIN current \cup {ClaimOf(e)}
       /\ \A c \in DOMAIN current : c # ClaimOf(e) => current'[c] = current[c]
  BY <1>9 DEF Put
<1> QED BY <1>2, <1>4, <1>5, <1>7, <1>10

\* memory_transition_service.replace: the claim is active, the event not
\* superseded.
LEMMA ReplaceEvidence ==
  ASSUME NEW e, NEW n, Replace(CandidateReplace(e, n))
  PROVE  /\ AddsVersion(e) /\ ActiveAt(ClaimOf(e), n)
         /\ eventGov[e] # "superseded"
         /\ DOMAIN current' = DOMAIN current
         /\ \A c \in DOMAIN current : c # ClaimOf(e) => current'[c] = current[c]
         /\ receipts' = receipts
<1> DEFINE r == CandidateReplace(e, n)
           k == <<ClaimOf(e), n + 1>>
           row == Version(r.content, r.sensitivity, Lineage(r), <<ReplaceSource(r)>>)
<1>1. r.claim = ClaimOf(e) /\ r.refs = <<e>> /\ ReplaceSource(r) = e /\ r.expected = n
  BY CandidateSources
<1>2. ActiveAt(ClaimOf(e), n) /\ k \notin DOMAIN versions
  BY <1>1 DEF Replace, ReplaceCurrent
<1>3. versions' = Put(versions, k, row) /\ row.sources = <<e>>
  BY <1>1 DEF Replace, Version
<1>4. eventGov[e] # "superseded"
  BY <1>1 DEF Replace, ReplaceAdmitted, SourcesLive
<1>5. receipts' = receipts
  BY DEF Replace
<1>6. \E new : current' = Put(current, ClaimOf(e), new)
  BY <1>1 DEF Replace
<1>7. ClaimOf(e) \in DOMAIN current
  BY <1>2 DEF ActiveAt
<1> HIDE DEF r, row
<1>8. AddsVersion(e)
  BY <1>2, <1>3 DEF AddsVersion
<1>9. PICK new : current' = Put(current, ClaimOf(e), new)
  BY <1>6
<1>10. /\ DOMAIN current' = DOMAIN current \cup {ClaimOf(e)}
       /\ \A c \in DOMAIN current : c # ClaimOf(e) => current'[c] = current[c]
  BY <1>9 DEF Put
<1> QED BY <1>2, <1>4, <1>5, <1>7, <1>8, <1>10

\* memory_transition_service._lifecycle: the claim is retired, and the key of
\* the receipt is the candidate.
LEMMA RetireEffect ==
  ASSUME NEW e, NEW n, Lifecycle(CandidateRetire(e, n))
  PROVE  /\ UNCHANGED versions
         /\ ClaimOf(e) \in DOMAIN current /\ DOMAIN current' = DOMAIN current
         /\ Retired(ClaimOf(e))'
         /\ \A c \in DOMAIN current : c # ClaimOf(e) => current'[c] = current[c]
         /\ DOMAIN receipts' = DOMAIN receipts \cup {e}
<1> DEFINE r == CandidateRetire(e, n)
<1>1. r.claim = ClaimOf(e) /\ r.idem = e /\ r.action = "retire"
  BY CandidateSources
<1>2. UNCHANGED versions /\ ClaimOf(e) \in DOMAIN current
  BY <1>1 DEF Lifecycle, LifecycleCurrent
<1>3. \E new : new.state = "retired" /\ current' = Put(current, ClaimOf(e), new)
  BY <1>1 DEF Lifecycle, ActionTarget
<1>4. \E row : receipts' = Put(receipts, e, row)
  BY <1>1 DEF Lifecycle
<1>5. PICK new : new.state = "retired" /\ current' = Put(current, ClaimOf(e), new)
  BY <1>3
<1>6. /\ DOMAIN current' = DOMAIN current \cup {ClaimOf(e)}
      /\ current'[ClaimOf(e)] = new
      /\ \A c \in DOMAIN current : c # ClaimOf(e) => current'[c] = current[c]
  BY <1>5 DEF Put
<1>7. DOMAIN receipts' = DOMAIN receipts \cup {e}
  BY <1>4 DEF Put
<1>8. Retired(ClaimOf(e))'
  BY <1>5, <1>6 DEF Retired, ClaimOf
<1> QED BY <1>2, <1>6, <1>7, <1>8

\* A step that writes no version for an uncertain candidate keeps it out.
LEMMA StaysOut ==
  ASSUME UnreviewedStaysOut, approvals \subseteq approvals',
         \A e \in UserEvents : ~Entitled(e)' =>
           WrittenBy(e)' = WrittenBy(e) /\ (e \in DOMAIN receipts' => e \in DOMAIN receipts)
  PROVE  UnreviewedStaysOut'
BY DEF UnreviewedStaysOut, Entitled

LEMMA AuthorityStays ==
  ASSUME AuthorityGood, UNCHANGED <<versions, current, receipts>>,
         approvals \subseteq approvals'
  PROVE  AuthorityGood' /\ Later
<1>1. \A e \in UserEvents : WrittenBy(e)' = WrittenBy(e)
  BY DEF WrittenBy
<1>2. UnreviewedStaysOut'
  BY <1>1, StaysOut DEF AuthorityGood
<1> QED BY <1>2 DEF AuthorityGood, Later, Keyed, Retired, ClaimOf

\* What the versions of other candidates are is no concern of this one's step.
LEMMA OthersStayOut ==
  ASSUME UnreviewedStaysOut, UNCHANGED approvals, NEW e, Entitled(e),
         AddsVersion(e), UNCHANGED receipts
  PROVE  UnreviewedStaysOut'
<1>1. Entitled(e)'
  BY DEF Entitled
<1>2. \A f : f # e => WrittenBy(f)' = WrittenBy(f)
  BY EvidenceGrows
<1> QED BY <1>1, <1>2, StaysOut

LEMMA StillKeyed ==
  ASSUME AuthorityGood, NEW e, AddsVersion(e),
         DOMAIN current' \subseteq DOMAIN current \cup {ClaimOf(e)}
  PROVE  \A c \in DOMAIN current' : Keyed(c)'
<1>1. PICK k, row : k[1] = ClaimOf(e) /\ versions' = Put(versions, k, row)
  BY DEF AddsVersion
<1>2. DOMAIN versions' = DOMAIN versions \cup {k}
  BY <1>1 DEF Put
<1> QED BY <1>1, <1>2 DEF AuthorityGood, Keyed

LEMMA WriteGood ==
  ASSUME AuthorityGood, NEW e, Entitled(e), UNCHANGED approvals,
         Write(CandidateWrite(e))
  PROVE  AuthorityGood' /\ Later
<1>1. /\ AddsVersion(e) /\ ~Keyed(ClaimOf(e))
      /\ DOMAIN current' = DOMAIN current \cup {ClaimOf(e)}
      /\ \A c \in DOMAIN current : c # ClaimOf(e) => current'[c] = current[c]
      /\ receipts' = receipts
  BY WriteEvidence
<1>2. ClaimOf(e) \notin DOMAIN current
  BY <1>1 DEF AuthorityGood
<1>3. \A c : Retired(c) => Retired(c)'
  BY <1>1, <1>2 DEF Retired
<1>4. UnreviewedStaysOut'
  BY <1>1, OthersStayOut DEF AuthorityGood
<1>5. \A c \in DOMAIN current' : Keyed(c)'
  BY <1>1, StillKeyed
<1>6. \A f \in DOMAIN receipts' : Retired(ClaimOf(f))'
  BY <1>1, <1>3 DEF AuthorityGood
<1> QED BY <1>3, <1>4, <1>5, <1>6 DEF AuthorityGood, Later, ClaimOf

LEMMA ReplaceGood ==
  ASSUME AuthorityGood, NEW e, Entitled(e), UNCHANGED approvals,
         NEW n, Replace(CandidateReplace(e, n))
  PROVE  AuthorityGood' /\ Later
<1>1. /\ AddsVersion(e) /\ ActiveAt(ClaimOf(e), n)
      /\ DOMAIN current' = DOMAIN current
      /\ \A c \in DOMAIN current : c # ClaimOf(e) => current'[c] = current[c]
      /\ receipts' = receipts
  BY ReplaceEvidence
<1>2. ~Retired(ClaimOf(e))
  BY <1>1 DEF ActiveAt, Retired
<1>3. \A c : Retired(c) => Retired(c)'
  BY <1>1, <1>2 DEF Retired
<1>4. UnreviewedStaysOut'
  BY <1>1, OthersStayOut DEF AuthorityGood
<1>5. \A c \in DOMAIN current' : Keyed(c)'
  BY <1>1, StillKeyed
<1>6. \A f \in DOMAIN receipts' : Retired(ClaimOf(f))'
  BY <1>1, <1>3 DEF AuthorityGood
<1> QED BY <1>3, <1>4, <1>5, <1>6 DEF AuthorityGood, Later, ClaimOf

LEMMA RetireGood ==
  ASSUME AuthorityGood, NEW e, Entitled(e), UNCHANGED approvals,
         NEW n, Lifecycle(CandidateRetire(e, n))
  PROVE  AuthorityGood' /\ Later /\ Retired(ClaimOf(e))'
<1>1. /\ UNCHANGED versions
      /\ ClaimOf(e) \in DOMAIN current /\ DOMAIN current' = DOMAIN current
      /\ Retired(ClaimOf(e))'
      /\ \A c \in DOMAIN current : c # ClaimOf(e) => current'[c] = current[c]
      /\ DOMAIN receipts' = DOMAIN receipts \cup {e}
  BY RetireEffect
<1>2. \A c : Retired(c) => Retired(c)'
  BY <1>1 DEF Retired, ClaimOf
<1>3. UnreviewedStaysOut'
  <2>1. Entitled(e)'
    BY DEF Entitled
  <2>2. \A f \in UserEvents : WrittenBy(f)' = WrittenBy(f)
    BY <1>1 DEF WrittenBy
  <2> QED BY <1>1, <2>1, <2>2, StaysOut DEF AuthorityGood
<1>4. \A c \in DOMAIN current' : Keyed(c)'
  BY <1>1 DEF AuthorityGood, Keyed
<1>5. \A f \in DOMAIN receipts' : Retired(ClaimOf(f))'
  BY <1>1, <1>2 DEF AuthorityGood, ClaimOf
<1> QED BY <1>1, <1>2, <1>3, <1>4, <1>5 DEF AuthorityGood, Later, ClaimOf

-----------------------------------------------------------------------------
(* The steps of a process. *)

LEMMA RetractionsStand ==
  ASSUME RetractedIsRetired, Later, UNCHANGED promotions
  PROVE  RetractedIsRetired'
BY DEF RetractedIsRetired, Later, Retired, ClaimOf

\* A receipt is written by promote or by a review.
LEMMA ReceiptWritten ==
  ASSUME RetractedIsRetired, Later, NEW e, NEW row,
         promotions' = Put(promotions, e, row),
         row.decision = "retracted" => Retired(ClaimOf(e))'
  PROVE  RetractedIsRetired'
<1>1. DOMAIN promotions' = DOMAIN promotions \cup {e} /\ promotions'[e] = row
  BY DEF Put
<1>2. \A f \in DOMAIN promotions : f # e => promotions'[f] = promotions[f]
  BY DEF Put
<1> QED BY <1>1, <1>2 DEF RetractedIsRetired, Later, Retired, ClaimOf

\* A process at work has a candidate.
LEMMA AtWork ==
  ASSUME RowsGood, NEW p \in Actors, proc[p].pc \notin Unoccupied
  PROVE  /\ DOMAIN proc[p] = RowFields
         /\ proc[p].batch # <<>>
         /\ proc[p].pc \in Acting => Entitled(Cand(p))
         /\ proc[p].outcome.decision = "retracted" => Retired(ClaimOf(Cand(p)))
         /\ p \in Reviewers => Cand(p) \in approvals
BY DEF RowsGood, GoodRow, ShapedRow, EntitledRow, TruthfulRow, ReviewerRow, Cand,
       Unoccupied

\* Every process has a row.
LEMMA RowShape ==
  ASSUME RowsGood, NEW p \in Actors
  PROVE  DOMAIN proc[p] = RowFields
BY DEF RowsGood, GoodRow, ShapedRow

LEMMA GotoGood ==
  ASSUME RowsGood, Later, NEW p \in Actors, proc[p].pc \notin Unoccupied,
         NEW pc, Goto(p, pc), pc \notin Unoccupied,
         pc \in Acting => proc[p].pc \in Acting
  PROVE  RowsGood'
<1> DEFINE row == [proc[p] EXCEPT !.pc = pc]
<1>1. /\ DOMAIN row = RowFields /\ row.batch = proc[p].batch /\ row.pc = pc
      /\ row.outcome = proc[p].outcome
  BY RowShape DEF RowFields
<1>2. Become(p, row)
  BY DEF Goto
<1> HIDE DEF row
<1> QED BY <1>1, <1>2, GoesOnWith

LEMMA ConcludeGood ==
  ASSUME RowsGood, Later, NEW p \in Actors, proc[p].pc \notin Unoccupied,
         NEW e, e = Cand(p), NEW outcome, Conclude(p, outcome),
         outcome.decision = "retracted" => Retired(ClaimOf(e))'
  PROVE  RowsGood'
<1> DEFINE row == [proc[p] EXCEPT !.pc = "finalize", !.outcome = outcome]
<1>1. /\ DOMAIN row = RowFields /\ row.batch = proc[p].batch /\ row.pc = "finalize"
      /\ row.outcome = outcome
  BY RowShape DEF RowFields
<1>2. Become(p, row)
  BY DEF Conclude
<1> HIDE DEF row
<1> QED BY <1>1, <1>2, GoesOnWith DEF Unoccupied, Acting

LEMMA QueueGood ==
  ASSUME RowsGood, Later, NEW p \in Actors, proc[p].pc \notin Unoccupied,
         NEW outcome, Queue(p, outcome), outcome.decision # "retracted"
  PROVE  RowsGood'
<1> DEFINE row == [proc[p] EXCEPT !.pc = "enqueue", !.outcome = outcome]
<1>1. /\ DOMAIN row = RowFields /\ row.batch = proc[p].batch /\ row.pc = "enqueue"
      /\ row.outcome = outcome
  BY RowShape DEF RowFields
<1>2. Become(p, row)
  BY DEF Queue
<1> HIDE DEF row
<1> QED BY <1>1, <1>2, GoesOnWith DEF Unoccupied, Acting

LEMMA RaiseGood ==
  ASSUME RowsGood, Later, NEW p \in Actors, Raise(p) \/ Become(p, Idle)
  PROVE  RowsGood'
BY OneRowChanges, IdleRowGood DEF Raise

\* A pass goes on to its next candidate.
LEMMA AdvanceGood ==
  ASSUME RowsGood, Later, NEW p \in Syncs, proc[p].batch # <<>>, Advance(p)
  PROVE  RowsGood'
<1>0. PICK row : row = [Idle EXCEPT !.pc = "next", !.batch = Tail(proc[p].batch),
                                    !.upto = proc[p].upto]
  OBVIOUS
<1>1. p \in Actors /\ p \notin Reviewers
  BY CandidateAssumption DEF Actors
<1>2. /\ DOMAIN row = RowFields /\ row.batch = Tail(proc[p].batch) /\ row.pc = "next"
      /\ row.outcome = NoOutcome
  BY <1>0 DEF RowFields, Idle
<1>4. Become(p, row)
  BY <1>0 DEF Advance
<1>5. GoodRow(p, row)'
  BY <1>1, <1>2 DEF GoodRow, ShapedRow, EntitledRow, TruthfulRow, Unoccupied,
     Acting, NoOutcome, Outcome
<1> QED BY <1>1, <1>4, <1>5, OneRowChanges

\* _promote_one leaves an uncertain candidate that nobody asked for to a review.
LEMMA RouteGood ==
  ASSUME NEW e, NEW row, DOMAIN row = RowFields,
         row.batch # <<>>, e = Head(row.batch),
         NEW reviewed \in BOOLEAN, reviewed => e \in approvals',
         row.outcome.decision = "retracted" => Retired(ClaimOf(e))'
  PROVE  /\ ShapedRow(Route(row, reviewed)) /\ EntitledRow(Route(row, reviewed))'
         /\ TruthfulRow(Route(row, reviewed))'
         /\ Route(row, reviewed).batch = row.batch
         /\ Route(row, reviewed).pc \notin Unoccupied
<1> DEFINE new == Route(row, reviewed)
<1>1. e \in UserEvents => CandidateInfo[e].tier \in Tiers
  BY CandidateAssumption
<1>2. CASE CandidateInfo[e].tier = "drop"
  <2>1. new = [row EXCEPT !.pc = "finalize", !.outcome =
                 Outcome("dropped", "confidence_below_pending_threshold", 0)]
    BY <1>2 DEF Route
  <2>2. /\ DOMAIN new = RowFields /\ new.batch = row.batch /\ new.pc = "finalize"
        /\ new.outcome.decision = "dropped"
    BY <2>1 DEF RowFields, Outcome
  <2> HIDE DEF new
  <2>3. ShapedRow(new) /\ EntitledRow(new)' /\ TruthfulRow(new)'
    BY <2>2 DEF ShapedRow, EntitledRow, TruthfulRow, Unoccupied, Acting
  <2> QED BY <2>2, <2>3 DEF new, Unoccupied
<1>3. CASE CandidateInfo[e].tier = "review" /\ ~reviewed
  <2>1. new = [row EXCEPT !.pc = "enqueue", !.outcome =
                 Outcome("pending", "queued_for_review", 0)]
    BY <1>3 DEF Route, HeldBack
  <2>2. /\ DOMAIN new = RowFields /\ new.batch = row.batch /\ new.pc = "enqueue"
        /\ new.outcome.decision = "pending"
    BY <2>1 DEF RowFields, Outcome
  <2> HIDE DEF new
  <2>3. ShapedRow(new) /\ EntitledRow(new)' /\ TruthfulRow(new)'
    BY <2>2 DEF ShapedRow, EntitledRow, TruthfulRow, Unoccupied, Acting
  <2> QED BY <2>2, <2>3 DEF new, Unoccupied
<1>4. CASE /\ CandidateInfo[e].tier # "drop"
           /\ CandidateInfo[e].tier # "review" \/ reviewed
  <2>1. new = [row EXCEPT !.pc = IF Action(e) = "forget" THEN "retract" ELSE "identity"]
    BY <1>4 DEF Route, HeldBack
  <2>2. /\ DOMAIN new = RowFields /\ new.batch = row.batch /\ new.outcome = row.outcome
        /\ new.pc \in {"retract", "identity"}
    BY <2>1 DEF RowFields
  <2>3. Entitled(e)'
    BY <1>1, <1>4 DEF Entitled, Tiers
  <2> HIDE DEF new
  <2>4. ShapedRow(new)
    BY <2>2 DEF ShapedRow
  <2>5. EntitledRow(new)' /\ TruthfulRow(new)'
    BY <2>2, <2>3 DEF EntitledRow, Entitled, TruthfulRow, Retired, ClaimOf
  <2> QED BY <2>2, <2>4, <2>5 DEF new, Unoccupied
<1> QED BY <1>2, <1>3, <1>4

\* Steps that leave the authority and the approvals alone.
LEMMA AsideStays ==
  ASSUME PipeInv, UNCHANGED <<authorityVars, said, approvals>>
  PROVE  AuthorityGood' /\ Later
<1>1. UNCHANGED <<versions, current, receipts>>
  BY DEF authorityVars, tables
<1> QED BY <1>1, AuthorityStays DEF PipeInv

\* promote takes up a candidate, or passes one that has its decision.
LEMMA BeginKeeps ==
  ASSUME PipeInv, NEW p \in Actors, Begin(p)
  PROVE  PipeInv'
<1>1. AuthorityGood' /\ Later
  BY AsideStays DEF Begin
<1>2. RowsGood /\ RetractedIsRetired
  BY DEF PipeInv
<1>3. proc[p].batch # <<>> /\ proc[p].pc = "next" /\ GoodRow(p, proc[p])
  BY <1>2 DEF Begin, At, RowsGood
<1>4. p \in Syncs /\ p \notin Reviewers
  BY <1>3 DEF GoodRow, ReviewerRow, Actors
<1> DEFINE e == Cand(p)
<1>5. CASE Completed(e)
  <2>1. Advance(p) /\ UNCHANGED promotions
    BY <1>5 DEF Begin
  <2> QED BY <1>1, <1>2, <1>3, <1>4, <2>1, AdvanceGood, RetractionsStand DEF PipeInv
<1>6. CASE ~Completed(e)
  <2>1. PICK row : row = [proc[p] EXCEPT !.recovering = e \in DOMAIN promotions]
    OBVIOUS
  <2>2. /\ DOMAIN row = RowFields /\ row.batch = proc[p].batch
        /\ row.outcome = proc[p].outcome
    BY <1>2, <2>1, RowShape DEF RowFields
  <2>3. Become(p, Route(row, FALSE))
    BY <1>6, <2>1 DEF Begin
  <2>4. PICK c : c = Head(row.batch)
    OBVIOUS
  <2>6. row.outcome.decision = "retracted" => Retired(ClaimOf(c))
    BY <1>3, <2>2, <2>4 DEF GoodRow, TruthfulRow
  <2>7. row.outcome.decision = "retracted" => Retired(ClaimOf(c))'
    BY <1>1, <2>6 DEF Later, Retired, ClaimOf
  <2>8. /\ ShapedRow(Route(row, FALSE)) /\ EntitledRow(Route(row, FALSE))'
        /\ TruthfulRow(Route(row, FALSE))'
    BY <1>3, <2>2, <2>4, <2>7, RouteGood
  <2>9. GoodRow(p, Route(row, FALSE))'
    BY <1>4, <2>8 DEF GoodRow, ShapedRow
  <2>10. RowsGood'
    BY <1>1, <1>2, <2>3, <2>9, OneRowChanges
  <2>11. RetractedIsRetired'
    <3>1. CASE e \in DOMAIN promotions
      <4>1. UNCHANGED promotions
        BY <1>6, <3>1 DEF Begin
      <4> QED BY <1>1, <1>2, <4>1, RetractionsStand
    <3>2. CASE e \notin DOMAIN promotions
      <4>1. promotions' = Put(promotions, e, ReceiptOf(InProgress, Null))
        BY <1>6, <3>2 DEF Begin
      <4>2. ReceiptOf(InProgress, Null).decision # "retracted"
        BY DEF ReceiptOf, InProgress, Outcome
      <4>3. PICK f, new : promotions' = Put(promotions, f, new) /\ new.decision # "retracted"
        BY <4>1, <4>2
      <4> QED BY <1>1, <1>2, <4>3, ReceiptWritten
    <3> QED BY <3>1, <3>2
  <2> QED BY <1>1, <2>10, <2>11 DEF PipeInv
<1> QED BY <1>5, <1>6

\* Steps that move a process and write neither the authority nor a receipt.
LEMMA MovesKeep ==
  ASSUME PipeInv, UNCHANGED <<authorityVars, said, promotions, approvals>>,
         RowsGood /\ Later => RowsGood'
  PROVE  PipeInv'
BY AsideStays, RetractionsStand DEF PipeInv

LEMMA QueueSteps ==
  ASSUME PipeInv, NEW p \in Actors,
         \/ Enqueue_Look(p) \/ Enqueue_Insert(p) \/ MarkPromoted(p)
         \/ Finish(p) \/ Recover(p) \/ Crash(p)
  PROVE  PipeInv'
<1>0. RowsGood
  BY DEF PipeInv
<1>1. CASE Enqueue_Look(p)
  <2> DEFINE pc == IF Cand(p) \in DOMAIN queue THEN "finalize" ELSE "insert"
  <2>1. Goto(p, pc) /\ proc[p].pc = "enqueue" /\ pc \in {"finalize", "insert"}
    BY <1>1 DEF Enqueue_Look, At
  <2> HIDE DEF pc
  <2>2. Later => RowsGood'
    BY <1>0, <2>1, GotoGood DEF Unoccupied, Acting
  <2> QED BY <1>1, <2>2, MovesKeep DEF Enqueue_Look
<1>2. CASE Enqueue_Insert(p)
  <2>1. /\ proc[p].pc = "insert"
        /\ \/ Goto(p, "finalize")
           \/ Conclude(p, Outcome("error", "promotion_exception", 0))
           \/ Raise(p)
    BY <1>2 DEF Enqueue_Insert, At
  <2>2. Outcome("error", "promotion_exception", 0).decision = "error"
    BY DEF Outcome
  <2>3. Later => RowsGood'
    BY <1>0, <2>1, <2>2, GotoGood, ConcludeGood, RaiseGood DEF Unoccupied, Acting
  <2> QED BY <1>2, <2>3, MovesKeep DEF Enqueue_Insert
<1>3. CASE MarkPromoted(p) \/ Finish(p) \/ Recover(p) \/ Crash(p)
  <2>1. Become(p, Idle) /\ UNCHANGED <<authorityVars, said, promotions, approvals>>
    BY <1>3 DEF MarkPromoted, Finish, Recover, Crash
  <2>2. Later => RowsGood'
    BY <1>0, <2>1, RaiseGood
  <2> QED BY <2>1, <2>2, MovesKeep
<1> QED BY <1>1, <1>2, <1>3

\* The reads of _activate and _retract.
LEMMA ReadSteps ==
  ASSUME PipeInv, NEW p \in Actors,
         Identity(p) \/ Compare(p) \/ Resolve(p) \/ Supersede(p) \/ Retract(p)
  PROVE  PipeInv'
<1>0. RowsGood /\ AuthorityGood
  BY DEF PipeInv
<1>1. UNCHANGED <<authorityVars, said, promotions, approvals>>
  BY DEF Identity, Compare, Resolve, Supersede, Retract
<1>2. proc[p].pc \in Acting /\ proc[p].pc \notin Unoccupied
  BY DEF Identity, Compare, Resolve, Supersede, Retract, At, Acting, Unoccupied
<1>3. PICK e : e = Cand(p)
  OBVIOUS
<1>4. SUFFICES ASSUME Later PROVE RowsGood'
  BY <1>1, MovesKeep
<1>5. ASSUME NEW row, Become(p, row), DOMAIN row = RowFields,
             row.batch = proc[p].batch, row.pc \in Acting,
             row.outcome = proc[p].outcome
      PROVE  RowsGood'
  <2>1. row.pc \notin Unoccupied
    BY <1>5 DEF Acting, Unoccupied
  <2> QED BY <1>0, <1>2, <1>3, <1>4, <1>5, <2>1, GoesOnWith
<1>6. ASSUME NEW decision, NEW reason, NEW version,
             Conclude(p, Outcome(decision, reason, version)) \/
               Queue(p, Outcome(decision, reason, version)),
             decision # "retracted"
      PROVE  RowsGood'
  <2>1. Outcome(decision, reason, version).decision # "retracted"
    BY <1>6 DEF Outcome
  <2>2. PICK outcome : outcome = Outcome(decision, reason, version)
    OBVIOUS
  <2> QED BY <1>0, <1>2, <1>3, <1>4, <1>6, <2>1, <2>2, ConcludeGood, QueueGood
<1>7. CASE Identity(p)
  <2> DEFINE row == [proc[p] EXCEPT !.pc = "write", !.existed = Keyed(ClaimOf(Cand(p)))]
  <2>1. /\ DOMAIN row = RowFields /\ row.batch = proc[p].batch
        /\ row.pc = "write" /\ row.outcome = proc[p].outcome
    BY <1>0, RowShape DEF RowFields
  <2>2. Become(p, row)
    BY <1>7 DEF Identity
  <2> HIDE DEF row
  <2> QED BY <1>5, <2>1, <2>2 DEF Acting
<1>8. CASE Compare(p)
  BY <1>6, <1>8 DEF Compare
<1>9. CASE Resolve(p)
  <2>1. \/ Goto(p, "supersede")
        \/ \E decision, reason, version :
             /\ \/ Conclude(p, Outcome(decision, reason, version))
                \/ Queue(p, Outcome(decision, reason, version))
             /\ decision # "retracted"
    BY <1>9 DEF Resolve, Rejected
  <2>2. CASE Goto(p, "supersede")
    BY <1>0, <1>2, <1>4, <2>2, GotoGood DEF Unoccupied
  <2> QED BY <1>6, <2>1, <2>2
<1>10. CASE Supersede(p)
  <2> DEFINE version == current[ClaimOf(Cand(p))].version
  <2>1. CASE ~KnownContent(Cand(p))
    <3> DEFINE row == [proc[p] EXCEPT !.pc = "replace", !.seen = version]
    <3>1. /\ DOMAIN row = RowFields /\ row.batch = proc[p].batch
          /\ row.pc = "replace" /\ row.outcome = proc[p].outcome
      BY <1>0, RowShape DEF RowFields
    <3>2. Become(p, row)
      BY <1>10, <2>1 DEF Supersede
    <3> HIDE DEF row
    <3> QED BY <1>5, <3>1, <3>2 DEF Acting
  <2>2. CASE KnownContent(Cand(p))
    <3>1. \/ Conclude(p, Outcome("superseded", "transition_allowed", version))
          \/ Conclude(p, Outcome("activated", "already_active_identical", version))
      BY <1>10, <2>2 DEF Supersede
    <3> HIDE DEF version
    <3> QED BY <1>6, <3>1
  <2> QED BY <2>1, <2>2
<1>11. CASE Retract(p)
  <2>1. CASE InForce(Cand(p))
    <3> DEFINE row == [proc[p] EXCEPT !.pc = "retire",
                                      !.seen = current[ClaimOf(Cand(p))].version]
    <3>1. /\ DOMAIN row = RowFields /\ row.batch = proc[p].batch
          /\ row.pc = "retire" /\ row.outcome = proc[p].outcome
      BY <1>0, RowShape DEF RowFields
    <3>2. Become(p, row)
      BY <1>11, <2>1 DEF Retract
    <3> HIDE DEF row
    <3> QED BY <1>5, <3>1, <3>2 DEF Acting
  <2>2. CASE ~InForce(Cand(p)) /\ Cand(p) \in DOMAIN receipts
    <3>1. PICK outcome :
            /\ outcome = Outcome("retracted", "transition_allowed", receipts[Cand(p)].version)
            /\ Conclude(p, outcome)
      BY <1>11, <2>2 DEF Retract
    <3>2. Retired(ClaimOf(e))
      BY <1>0, <1>3, <2>2 DEF AuthorityGood
    <3>3. Retired(ClaimOf(e))'
      BY <1>4, <3>2 DEF Later, Retired, ClaimOf
    <3> QED BY <1>0, <1>2, <1>3, <1>4, <3>1, <3>3, ConcludeGood
  <2>3. CASE ~InForce(Cand(p)) /\ Cand(p) \notin DOMAIN receipts
    <3>1. Conclude(p, Outcome("rejected", "canonical_identity_not_active", 0))
      BY <1>11, <2>3 DEF Retract, Rejected
    <3> QED BY <1>6, <3>1
  <2> QED BY <2>1, <2>2, <2>3
<1> QED BY <1>7, <1>8, <1>9, <1>10, <1>11

\* The transactions of _activate and _retract.
LEMMA CallWriteKeeps ==
  ASSUME PipeInv, NEW p \in Actors, CallWrite(p)
  PROVE  PipeInv'
<1>0. RowsGood /\ AuthorityGood
  BY DEF PipeInv
<1>1. PICK e : e = Cand(p)
  OBVIOUS
<1>2. /\ proc[p].pc = "write" /\ proc[p].pc \notin Unoccupied /\ proc[p].pc \in Acting
      /\ UNCHANGED <<said, promotions, approvals>>
  BY DEF CallWrite, At, Unoccupied, Acting
<1>3. Entitled(e)
  BY <1>0, <1>1, <1>2, AtWork
<1>4. CASE Write(CandidateWrite(e)) /\ Conclude(p, Outcome("activated", "write_allowed", 1))
  <2>1. AuthorityGood' /\ Later
    BY <1>0, <1>2, <1>3, <1>4, WriteGood
  <2>2. PICK outcome : Conclude(p, outcome) /\ outcome.decision # "retracted"
    BY <1>4 DEF Outcome
  <2>3. RowsGood'
    BY <1>0, <1>1, <1>2, <2>1, <2>2, ConcludeGood
  <2> QED BY <1>2, <2>1, <2>3, RetractionsStand DEF PipeInv
<1>5. CASE /\ UNCHANGED authorityVars
           /\ \/ \E reply : AfterReplay(p, reply)
              \/ \E status : Conclude(p, Rejected(status))
  <2> SUFFICES ASSUME Later PROVE RowsGood'
    BY <1>2, <1>5, MovesKeep
  <2>1. ASSUME NEW reply, AfterReplay(p, reply) PROVE RowsGood'
    <3> DEFINE pc == IF ExactReplay(Cand(p)) THEN "compare" ELSE "resolve"
               row == [proc[p] EXCEPT !.seen = reply.version, !.pc = pc]
    <3>1. \/ Goto(p, "supersede")
          \/ Become(p, row)
          \/ Conclude(p, Outcome("activated", "write_allowed", reply.version))
      BY <2>1 DEF AfterReplay
    <3>2. CASE Goto(p, "supersede")
      BY <1>0, <1>2, <3>2, GotoGood DEF Unoccupied, Acting
    <3>3. CASE Become(p, row)
      <4>1. /\ DOMAIN row = RowFields /\ row.batch = proc[p].batch
            /\ row.pc \in {"compare", "resolve"} /\ row.outcome = proc[p].outcome
        BY <1>0, RowShape DEF RowFields
      <4> HIDE DEF row
      <4> QED BY <1>0, <1>1, <1>2, <3>3, <4>1, GoesOnWith DEF Unoccupied, Acting
    <3>4. CASE Conclude(p, Outcome("activated", "write_allowed", reply.version))
      <4>1. PICK outcome : Conclude(p, outcome) /\ outcome.decision # "retracted"
        BY <3>4 DEF Outcome
      <4> QED BY <1>0, <1>1, <1>2, <4>1, ConcludeGood
    <3> QED BY <3>1, <3>2, <3>3, <3>4
  <2>2. ASSUME NEW status, Conclude(p, Rejected(status)) PROVE RowsGood'
    <3>1. PICK outcome : Conclude(p, outcome) /\ outcome.decision # "retracted"
      BY <2>2 DEF Rejected, Outcome
    <3> QED BY <1>0, <1>1, <1>2, <3>1, ConcludeGood
  <2> QED BY <1>5, <2>1, <2>2
<1>6. \/ Write(CandidateWrite(e)) /\ Conclude(p, Outcome("activated", "write_allowed", 1))
      \/ /\ UNCHANGED authorityVars
         /\ \/ \E reply : AfterReplay(p, reply)
            \/ \E status : Conclude(p, Rejected(status))
  BY <1>1 DEF CallWrite
<1> QED BY <1>4, <1>5, <1>6

LEMMA CallReplaceKeeps ==
  ASSUME PipeInv, NEW p \in Actors, CallReplace(p)
  PROVE  PipeInv'
<1>0. RowsGood /\ AuthorityGood
  BY DEF PipeInv
<1>1. PICK e : e = Cand(p)
  OBVIOUS
<1>2. /\ proc[p].pc = "replace" /\ proc[p].pc \notin Unoccupied /\ proc[p].pc \in Acting
      /\ UNCHANGED <<said, promotions, approvals>>
  BY DEF CallReplace, At, Unoccupied, Acting
<1>3. Entitled(e)
  BY <1>0, <1>1, <1>2, AtWork
<1>4. PICK n : n = proc[p].seen
  OBVIOUS
<1>5. \E outcome : Conclude(p, outcome) /\ outcome.decision # "retracted"
  <2>1. \/ Conclude(p, Outcome("error", "promotion_exception", 0))
        \/ \E reply : Conclude(p, ReplaceOutcome(reply, proc[p].seen))
    BY DEF CallReplace
  <2>2. Outcome("error", "promotion_exception", 0).decision = "error"
    BY DEF Outcome
  <2>3. ASSUME NEW reply, NEW seen
        PROVE  ReplaceOutcome(reply, seen).decision \in {"superseded", "rejected"}
    BY DEF ReplaceOutcome, Rejected, Outcome
  <2> QED BY <2>1, <2>2, <2>3
<1>6. AuthorityGood' /\ Later
  <2>1. UNCHANGED authorityVars \/ Replace(CandidateReplace(e, n))
    BY <1>1, <1>4 DEF CallReplace
  <2>2. CASE UNCHANGED authorityVars
    BY <1>2, <2>2, AsideStays
  <2>3. CASE Replace(CandidateReplace(e, n))
    BY <1>0, <1>2, <1>3, <2>3, ReplaceGood
  <2> QED BY <2>1, <2>2, <2>3
<1>7. RowsGood'
  BY <1>0, <1>1, <1>2, <1>5, <1>6, ConcludeGood
<1> QED BY <1>2, <1>6, <1>7, RetractionsStand DEF PipeInv

\* retire answers "retracted" when it has just committed or finds the receipt of
\* the same request.
LEMMA CallRetireKeeps ==
  ASSUME PipeInv, NEW p \in Actors, CallRetire(p)
  PROVE  PipeInv'
<1>0. RowsGood /\ AuthorityGood
  BY DEF PipeInv
<1>1. PICK e : e = Cand(p)
  OBVIOUS
<1>2. /\ proc[p].pc = "retire" /\ proc[p].pc \notin Unoccupied /\ proc[p].pc \in Acting
      /\ UNCHANGED <<said, promotions, approvals>>
  BY DEF CallRetire, At, Unoccupied, Acting
<1>3. Entitled(e)
  BY <1>0, <1>1, <1>2, AtWork
<1>4. PICK n : n = proc[p].seen
  OBVIOUS
<1>5. CASE UNCHANGED authorityVars /\ Raise(p)
  <2>1. Later => RowsGood'
    BY <1>0, <1>5, RaiseGood
  <2> QED BY <1>2, <1>5, <2>1, MovesKeep
<1>6. CASE ~(UNCHANGED authorityVars /\ Raise(p))
  <2> DEFINE r == CandidateRetire(e, n)
             reply == LifecycleReply(r)
  <2>1. /\ IF reply.ok /\ r.idem \notin DOMAIN receipts THEN Lifecycle(r)
           ELSE UNCHANGED authorityVars
        /\ Conclude(p, RetireOutcome(reply))
    BY <1>1, <1>4, <1>6 DEF CallRetire
  <2>2. r.idem = e
    BY <1>3, CandidateSources
  <2> HIDE DEF r, reply
  <2>3. AuthorityGood' /\ Later /\ (reply.ok => Retired(ClaimOf(e))')
    <3>1. CASE reply.ok /\ e \notin DOMAIN receipts
      BY <1>0, <1>2, <1>3, <2>1, <2>2, <3>1, RetireGood DEF r
    <3>2. CASE ~(reply.ok /\ e \notin DOMAIN receipts)
      <4>1. UNCHANGED authorityVars
        BY <2>1, <2>2, <3>2
      <4>2. AuthorityGood' /\ Later
        BY <1>2, <4>1, AsideStays
      <4>3. reply.ok => Retired(ClaimOf(e))
        BY <1>0, <3>2 DEF AuthorityGood
      <4> QED BY <4>2, <4>3 DEF Later, Retired, ClaimOf
    <3> QED BY <3>1, <3>2
  <2>4. RetireOutcome(reply).decision = "retracted" => reply.ok
    BY DEF RetireOutcome, Rejected, Outcome
  <2>5. PICK outcome : outcome = RetireOutcome(reply)
    OBVIOUS
  <2>6. RowsGood'
    BY <1>0, <1>1, <1>2, <2>1, <2>3, <2>4, <2>5, ConcludeGood
  <2> QED BY <1>2, <2>3, <2>6, RetractionsStand DEF PipeInv
<1> QED BY <1>5, <1>6

\* _finalize_receipt.
LEMMA FinalizeKeeps ==
  ASSUME PipeInv, NEW p \in Actors, Finalize(p)
  PROVE  PipeInv'
<1>0. RowsGood /\ RetractedIsRetired
  BY DEF PipeInv
<1>1. AuthorityGood' /\ Later
  BY AsideStays DEF Finalize
<1>2. p \in Syncs /\ proc[p].pc \notin Unoccupied
  BY DEF Finalize, At, Unoccupied
<1>3. proc[p].batch # <<>> /\ (proc[p].outcome.decision = "retracted" => Retired(ClaimOf(Cand(p))))
  BY <1>0, <1>2, AtWork
<1>4. RowsGood'
  <2>1. Advance(p) \/ Raise(p)
    BY DEF Finalize
  <2> QED BY <1>0, <1>1, <1>2, <1>3, <2>1, AdvanceGood, RaiseGood
<1>5. RetractedIsRetired'
  <2>1. CASE UNCHANGED promotions
    BY <1>0, <1>1, <2>1, RetractionsStand
  <2>2. CASE promotions' = Put(promotions, Cand(p), ReceiptOf(Reported(p), Null))
    <3>1. PICK e, row : e = Cand(p) /\ row = ReceiptOf(Reported(p), Null)
      OBVIOUS
    <3>2. row.decision = "retracted" => proc[p].outcome.decision = "retracted"
      BY <3>1 DEF ReceiptOf, Reported, Outcome
    <3>3. row.decision = "retracted" => Retired(ClaimOf(e))'
      BY <1>1, <1>3, <3>1, <3>2 DEF Later, Retired, ClaimOf
    <3> QED BY <1>0, <1>1, <2>2, <3>1, <3>3, ReceiptWritten
  <2> QED BY <2>1, <2>2 DEF Finalize
<1> QED BY <1>1, <1>4, <1>5 DEF PipeInv

\* approve_pending writes the outcome of a granted review.
LEMMA RecordApprovalKeeps ==
  ASSUME PipeInv, NEW p \in Actors, RecordApproval(p)
  PROVE  PipeInv'
<1>0. RowsGood /\ RetractedIsRetired
  BY DEF PipeInv
<1>1. AuthorityGood' /\ Later
  BY AsideStays DEF RecordApproval
<1>2. proc[p].pc \notin Unoccupied
  BY DEF RecordApproval, At, Unoccupied
<1>3. RowsGood'
  <2>1. Become(p, Idle) \/ Goto(p, "mark")
    BY DEF RecordApproval
  <2> QED BY <1>0, <1>1, <1>2, <2>1, GotoGood, RaiseGood DEF Unoccupied, Acting
<1>4. RetractedIsRetired'
  <2>1. CASE UNCHANGED promotions
    BY <1>0, <1>1, <2>1, RetractionsStand
  <2>2. CASE ~UNCHANGED promotions
    <3>1. PICK e, row : /\ promotions' = Put(promotions, e, row)
                        /\ row = ReceiptOf(proc[p].outcome, p)
                        /\ proc[p].outcome.decision \in Granted
      BY <2>2 DEF RecordApproval
    <3>2. row.decision # "retracted"
      BY <3>1 DEF ReceiptOf, Granted
    <3> QED BY <1>0, <1>1, <3>1, <3>2, ReceiptWritten
  <2> QED BY <2>1, <2>2
<1> QED BY <1>1, <1>3, <1>4 DEF PipeInv

-----------------------------------------------------------------------------
(* The chat, the reviewers and the projectors. *)

\* promote extracts a batch, review_candidate takes up one candidate.
LEMMA ExtractKeeps ==
  ASSUME PipeInv, NEW p \in Syncs, Extract(p)
  PROVE  PipeInv'
<1>0. RowsGood
  BY DEF PipeInv
<1>1. p \in Actors /\ p \notin Reviewers
  BY CandidateAssumption DEF Actors
<1>2. PICK row : row = [Idle EXCEPT !.pc = "next", !.batch = Window(ScopeOf[p]),
                                    !.upto = Len(said)]
  OBVIOUS
<1>3. DOMAIN row = RowFields /\ row.pc = "next" /\ row.outcome = NoOutcome
  BY <1>2 DEF RowFields, Idle
<1>4. GoodRow(p, row)'
  BY <1>1, <1>3 DEF GoodRow, ShapedRow, EntitledRow, TruthfulRow, Unoccupied, Acting,
     NoOutcome, Outcome
<1>5. Become(p, row)
  BY <1>2 DEF Extract
<1>6. Later => RowsGood'
  BY <1>0, <1>1, <1>4, <1>5, OneRowChanges
<1> QED BY <1>6, MovesKeep DEF Extract

LEMMA ApproveKeeps ==
  ASSUME PipeInv, NEW v \in Reviewers, NEW e \in UserEvents, Approve(v, e)
  PROVE  PipeInv'
<1>0. RowsGood /\ AuthorityGood /\ RetractedIsRetired
  BY DEF PipeInv
<1>1. AuthorityGood' /\ Later
  <2>1. UNCHANGED <<versions, current, receipts>> /\ approvals \subseteq approvals'
    BY DEF Approve, authorityVars, tables
  <2> QED BY <1>0, <2>1, AuthorityStays
<1>2. v \in Actors /\ e \in approvals' /\ UNCHANGED promotions
  BY DEF Actors, Approve
<1>3. PICK asked : asked = [Idle EXCEPT !.batch = <<e>>]
  OBVIOUS
<1>4. /\ DOMAIN asked = RowFields /\ asked.batch = <<e>> /\ asked.batch # <<>>
      /\ Head(asked.batch) = e /\ asked.outcome.decision = "none"
  BY <1>3 DEF RowFields, Idle, NoOutcome, Outcome
<1>5. CASE Become(v, Route(asked, TRUE))
  <2>1. /\ ShapedRow(Route(asked, TRUE)) /\ EntitledRow(Route(asked, TRUE))'
        /\ TruthfulRow(Route(asked, TRUE))'
        /\ Route(asked, TRUE).batch = asked.batch
        /\ Route(asked, TRUE).pc \notin Unoccupied
    BY <1>2, <1>4, RouteGood
  <2>2. PICK row : row = Route(asked, TRUE)
    OBVIOUS
  <2>3. GoodRow(v, row)'
    BY <1>2, <1>4, <2>1, <2>2 DEF GoodRow, ShapedRow, ReviewerRow, Unoccupied
  <2>4. RowsGood'
    BY <1>0, <1>1, <1>2, <1>5, <2>2, <2>3, OneRowChanges
  <2> QED BY <1>0, <1>1, <1>2, <2>4, RetractionsStand DEF PipeInv
<1>6. CASE Become(v, [asked EXCEPT !.pc = "mark"])
  <2>1. PICK row : row = [asked EXCEPT !.pc = "mark"]
    OBVIOUS
  <2>2. /\ DOMAIN row = RowFields /\ row.pc = "mark" /\ row.batch = <<e>>
        /\ row.outcome.decision = "none"
    BY <1>4, <2>1 DEF RowFields
  <2>3. GoodRow(v, row)'
    BY <1>2, <2>2 DEF GoodRow, ShapedRow, EntitledRow, TruthfulRow, ReviewerRow, Acting
  <2>4. RowsGood'
    BY <1>0, <1>1, <1>2, <1>6, <2>1, <2>3, OneRowChanges
  <2> QED BY <1>0, <1>1, <1>2, <2>4, RetractionsStand DEF PipeInv
<1> QED BY <1>3, <1>5, <1>6 DEF Approve

\* Messages, edits of the chat, rejections and guards move no process.
LEMMA ElsewhereKeeps ==
  ASSUME PipeInv, UNCHANGED <<versions, current, receipts, proc, promotions, approvals>>
  PROVE  PipeInv'
<1>1. AuthorityGood' /\ Later
  BY AuthorityStays DEF PipeInv
<1> QED BY <1>1, RowsStay, RetractionsStand DEF PipeInv

LEMMA WorldKeeps ==
  ASSUME PipeInv,
         \/ \E e \in UserEvents : Say(e) \/ Reject(e)
         \/ \E e, revision \in UserEvents : Edit(e, revision)
         \/ \E c \in Claims : GuardOn(c) \/ GuardOff(c)
         \/ UNCHANGED vars
  PROVE  PipeInv'
<1>1. UNCHANGED <<versions, current, receipts, proc, promotions, approvals>>
  BY DEF Say, Reject, Edit, SyncEvent, GuardOn, GuardOff, vars, authorityVars, tables,
     pipelineVars
<1> QED BY <1>1, ElsewhereKeeps

LEMMA PipelineStep == PipeInv /\ [PipelineNext]_vars => PipeInv'
<1> SUFFICES ASSUME PipeInv, [PipelineNext]_vars PROVE PipeInv'
  OBVIOUS
<1>1. ASSUME NEW p \in Actors, Step(p) PROVE PipeInv'
  BY <1>1, BeginKeeps, QueueSteps, ReadSteps, CallWriteKeeps, CallReplaceKeeps,
     CallRetireKeeps, FinalizeKeeps, RecordApprovalKeeps DEF Step
<1>2. ASSUME NEW p \in Actors, Crash(p) PROVE PipeInv'
  BY <1>2, QueueSteps
<1> QED BY <1>1, <1>2, ExtractKeeps, ApproveKeeps, WorldKeeps DEF PipelineNext

LEMMA PipelineStarts == PipelineInit => PipeInv
<1> SUFFICES ASSUME PipelineInit PROVE PipeInv
  OBVIOUS
<1>1. RowsGood
  <2>1. DOMAIN proc = Actors /\ \A p \in Actors : proc[p] = Idle
    BY DEF PipelineInit
  <2> QED BY <2>1, IdleRowGood DEF RowsGood
<1>2. DOMAIN versions = {} /\ DOMAIN current = {} /\ DOMAIN receipts = {}
      /\ DOMAIN promotions = {}
  BY DEF PipelineInit, Init, Empty
<1>3. UnreviewedStaysOut
  BY <1>2 DEF UnreviewedStaysOut, WrittenBy
<1> QED BY <1>1, <1>2, <1>3 DEF PipeInv, AuthorityGood, RetractedIsRetired

LEMMA PipelineKeeps == PipelineSpec => []PipeInv
BY PipelineStarts, PipelineStep, PTL DEF PipelineSpec

-----------------------------------------------------------------------------
(* The theorems. *)

\* _promote_one lets an uncertain candidate reach write, replace or retire only
\* when a reviewer asked for it, whatever crashed, was begun twice or edited.
THEOREM ReviewGuardsAuthority == PipelineSpec => []UnreviewedStaysOut
<1>1. PipeInv => UnreviewedStaysOut
  BY DEF PipeInv, AuthorityGood
<1> QED BY <1>1, PipelineKeeps, PTL

\* A receipt that says "retracted" stands for a claim _retract, or an earlier
\* try of it, ended, and that no write, replace or edit brought back.
THEOREM RetractionIsReal == PipelineSpec => []RetractedIsRetired
<1>1. PipeInv => RetractedIsRetired
  BY DEF PipeInv
<1> QED BY <1>1, PipelineKeeps, PTL

\* A step writes a receipt over a decision only where a granted review settles a
\* pending one.
LEMMA DecisionStep ==
  ASSUME PipeInv, [PipelineNext]_vars, NEW e \in DOMAIN promotions,
         promotions[e].decision # "processing"
  PROVE  \/ promotions'[e] = promotions[e]
         \/ /\ promotions[e].decision = "pending"
            /\ e \in approvals /\ promotions'[e].decision \in Granted
<1>1. CASE UNCHANGED promotions
  BY <1>1
<1>2. CASE \E p \in Actors : Begin(p)
  BY <1>2 DEF Begin, Put
<1>3. CASE \E p \in Actors : Finalize(p)
  BY <1>3 DEF Finalize, Unfinished, Put
<1>4. CASE \E p \in Actors : RecordApproval(p)
  <2>1. PICK v \in Actors : RecordApproval(v)
    BY <1>4
  <2>2. v \in Reviewers /\ proc[v].pc \notin Unoccupied
    BY <2>1 DEF RecordApproval, At, Unoccupied
  <2>3. Cand(v) \in approvals
    BY <2>2, AtWork DEF PipeInv
  <2>4. \/ UNCHANGED promotions
        \/ /\ promotions[Cand(v)].decision = "pending"
           /\ promotions' = Put(promotions, Cand(v), ReceiptOf(proc[v].outcome, v))
           /\ ReceiptOf(proc[v].outcome, v).decision \in Granted
    BY <2>1 DEF RecordApproval, ReceiptOf
  <2> QED BY <2>3, <2>4 DEF Put
<1>5. \/ UNCHANGED promotions
      \/ \E p \in Actors : Begin(p) \/ Finalize(p) \/ RecordApproval(p)
  BY DEF PipelineNext, Step, Finish, Enqueue_Look, Enqueue_Insert, Identity, CallWrite,
     Compare, Resolve, Supersede, CallReplace, Retract, CallRetire, MarkPromoted, Recover,
     Crash, Extract, Approve, Say, Reject, Edit, GuardOn, GuardOff, vars, pipelineVars
<1> QED BY <1>1, <1>2, <1>3, <1>4, <1>5

\* _finalize_receipt's UPDATE ... WHERE decision='processing' and the review's on
\* 'pending': a decision is given once, by one of any number of processes.
THEOREM OneDecision == PipelineSpec => DecisionsAreFinal
<1>1. PipeInv /\ [PipelineNext]_vars =>
        [\A e \in DOMAIN promotions :
           promotions[e].decision # "processing" =>
             \/ promotions'[e] = promotions[e]
             \/ /\ promotions[e].decision = "pending"
                /\ e \in approvals /\ promotions'[e].decision \in Granted]_vars
  BY DecisionStep
<1> QED BY <1>1, PipelineKeeps, PTL DEF PipelineSpec, DecisionsAreFinal

\* Only write and replace add evidence, and both reopen the source event first.
LEMMA EvidenceStep ==
  ASSUME [PipelineNext]_vars, NEW e \in UserEvents, eventGov[e] = "superseded"
  PROVE  WrittenBy(e)' = WrittenBy(e)
<1>1. CASE UNCHANGED versions
  BY <1>1 DEF WrittenBy
<1>2. ASSUME NEW f, Write(CandidateWrite(f)) PROVE WrittenBy(e)' = WrittenBy(e)
  <2>1. AddsVersion(f) /\ f # e
    BY <1>2, WriteEvidence
  <2> QED BY <2>1, EvidenceGrows
<1>3. ASSUME NEW f, NEW n, Replace(CandidateReplace(f, n))
      PROVE  WrittenBy(e)' = WrittenBy(e)
  <2>1. AddsVersion(f) /\ f # e
    BY <1>3, ReplaceEvidence
  <2> QED BY <2>1, EvidenceGrows
<1>4. \/ UNCHANGED versions
      \/ \E f : Write(CandidateWrite(f))
      \/ \E f, n : Replace(CandidateReplace(f, n))
  <2>1. ASSUME NEW p \in Actors, Step(p)
        PROVE  \/ UNCHANGED versions
               \/ Write(CandidateWrite(Cand(p)))
               \/ Replace(CandidateReplace(Cand(p), proc[p].seen))
    <3>1. CASE CallWrite(p)
      BY <3>1 DEF CallWrite, authorityVars, tables
    <3>2. CASE CallReplace(p)
      BY <3>2 DEF CallReplace, authorityVars, tables
    <3>3. CASE CallRetire(p)
      BY <3>3 DEF CallRetire, Lifecycle, authorityVars, tables
    <3>4. CASE ~(CallWrite(p) \/ CallReplace(p) \/ CallRetire(p))
      BY <2>1, <3>4 DEF Step, Begin, Finish, Enqueue_Look, Enqueue_Insert, Finalize,
         Identity, Compare, Resolve, Supersede, Retract, RecordApproval, MarkPromoted,
         Recover, authorityVars, tables
    <3> QED BY <3>1, <3>2, <3>3, <3>4
  <2>2. CASE \E p \in Actors : Step(p)
    BY <2>1, <2>2
  <2>3. CASE ~ \E p \in Actors : Step(p)
    BY <2>3 DEF PipelineNext, Crash, Extract, Approve, Say, Reject, Edit, SyncEvent,
       GuardOn, GuardOff, vars, authorityVars, tables
  <2> QED BY <2>2, <2>3
<1> QED BY <1>1, <1>2, <1>3, <1>4

\* The admission of write and replace asks event_governance in the transaction
\* that inserts the version, so an edit that came before it always counts.
THEOREM EditsWithdrawEvidence == PipelineSpec => EditedIsNoEvidence
<1>1. [PipelineNext]_vars =>
        [\A e \in UserEvents :
           eventGov[e] = "superseded" => WrittenBy(e)' = WrittenBy(e)]_vars
  BY EvidenceStep
<1> QED BY <1>1, PTL DEF PipelineSpec, EditedIsNoEvidence

-----------------------------------------------------------------------------
(***************************************************************************)
(* Proofs that an assertion is remembered on enough evidence only and that *)
(* its receipts say what became of it, for any number of sessions,         *)
(* wordings, processes, messages and crashes.                              *)
(*                                                                         *)
(* The evidence of a candidate is looked up before the transaction that    *)
(* admits it, and the chat goes on in between.  What makes that safe is    *)
(* that a message keeps its session and its text when it is edited, that a *)
(* claim once in force stays, and that a candidate is only ever backed by  *)
(* messages there are.                                                     *)
(***************************************************************************)

-----------------------------------------------------------------------------
(* The inductive invariant. *)

Messages == [session : Sessions, text : Texts, live : BOOLEAN]
Candidates == [content : Texts, sources : (SUBSET Nat) \ {{}}]
HandFields == {"at", "batch", "again", "keyed", "by", "said"}
Taken == {"activated", "duplicate"}

\* A candidate is backed by messages there are.
Backed(c) == c.sources \subseteq DOMAIN talk

\* It may be remembered without a reviewer.
Enough(c) == Phrasings[c.content] = "auto" \/ Corroborated(c.sources)

\* Its newest source says what it says.
SaysIt(c) ==
  Max(c.sources) \in DOMAIN talk /\ talk[Max(c.sources)].text = c.content

\* The claim says what the candidate says, whoever wrote it.
IsHeld(c) == held # Nobody /\ held.content = c.content

\* A process has a candidate to work on, which may be admitted by the rules
\* unless a reviewer asked, and the outcome it holds is true.
HandOK(row) ==
  /\ DOMAIN row = HandFields
  /\ row.by \in {"rule", "review"}
  /\ row.batch \in Seq(Candidates)
  /\ \A i \in DOMAIN row.batch : Backed(row.batch[i])
  /\ row.at \notin {"idle", "next"} => row.batch # <<>>
  /\ row.at \in {"match", "write"} => row.by = "review" \/ Enough(Head(row.batch))
  /\ row.at = "write" => SaysIt(Head(row.batch))
  /\ row.said \in Taken => row.batch # <<>> /\ IsHeld(Head(row.batch))
  /\ row.at = "finalize" /\ row.said \in {"pending", "conflict"} =>
       Head(row.batch) \in desk

HandsOK ==
  /\ DOMAIN hand = Promoters
  /\ \A p \in Promoters : HandOK(hand[p])

HeldOK ==
  held # Nobody =>
    /\ held.by = "review" \/ Enough(held)
    /\ SaysIt(held) /\ Backed(held)

SlipsOK ==
  \A c \in DOMAIN slips :
    /\ slips[c] \in Taken => IsHeld(c)
    /\ slips[c] \in {"pending", "conflict"} => c \in desk

EvidenceInv ==
  /\ talk \in Seq(Messages)
  /\ desk \subseteq Candidates
  /\ \A c \in desk : Backed(c)
  /\ HandsOK /\ HeldOK /\ SlipsOK

\* What no step takes back: what was said and where, a record of the queue, and
\* a claim in force.
Lasting ==
  /\ \A e \in DOMAIN talk :
       /\ e \in DOMAIN talk'
       /\ talk'[e].session = talk[e].session /\ talk'[e].text = talk[e].text
  /\ desk \subseteq desk'
  /\ held # Nobody => held' = held

-----------------------------------------------------------------------------
(* What lasts. *)

LEMMA CandidateLasts ==
  ASSUME Lasting, NEW c, Backed(c)
  PROVE  /\ Backed(c)'
         /\ Enough(c) => Enough(c)'
         /\ SaysIt(c) => SaysIt(c)'
<1>1. Backed(c)'
  BY DEF Lasting, Backed
<1>2. /\ {talk'[e].session : e \in c.sources} = {talk[e].session : e \in c.sources}
      /\ {talk'[e].text : e \in c.sources} = {talk[e].text : e \in c.sources}
  BY DEF Lasting, Backed
<1>3. Corroborated(c.sources) => Corroborated(c.sources)'
  BY <1>2 DEF Corroborated
<1>4. Enough(c) => Enough(c)'
  BY <1>3 DEF Enough
<1>5. SaysIt(c) => SaysIt(c)'
  BY DEF SaysIt, Lasting
<1> QED BY <1>1, <1>4, <1>5

LEMMA HeldLasts ==
  ASSUME Lasting, NEW c, IsHeld(c)
  PROVE  IsHeld(c)'
BY DEF Lasting, IsHeld

\* The row of a process that rests stays good while the others work.
LEMMA HandLasts ==
  ASSUME Lasting, NEW row, HandOK(row)
  PROVE  HandOK(row)'
<1>1. \A i \in DOMAIN row.batch : Backed(row.batch[i])'
  BY CandidateLasts DEF HandOK
<1>2. ASSUME row.batch # <<>> PROVE Backed(Head(row.batch))
  <2>1. row.batch \in Seq(Candidates) /\ 1 \in DOMAIN row.batch /\ Head(row.batch) = row.batch[1]
    BY <1>2 DEF HandOK
  <2> QED BY <2>1 DEF HandOK
<1>3. row.at \in {"match", "write"} => row.by = "review" \/ Enough(Head(row.batch))'
  BY <1>2, CandidateLasts DEF HandOK
<1>4. row.at = "write" => SaysIt(Head(row.batch))'
  BY <1>2, CandidateLasts DEF HandOK
<1>5. row.said \in Taken => row.batch # <<>> /\ IsHeld(Head(row.batch))'
  BY HeldLasts DEF HandOK
<1>6. row.at = "finalize" /\ row.said \in {"pending", "conflict"} =>
        Head(row.batch) \in desk'
  BY DEF HandOK, Lasting
<1> QED BY <1>1, <1>3, <1>4, <1>5, <1>6 DEF HandOK

LEMMA OneHandChanges ==
  ASSUME HandsOK, Lasting, NEW p \in Promoters, NEW row, Hand(p, row), HandOK(row)'
  PROVE  HandsOK'
<1>1. DOMAIN hand' = Promoters /\ hand'[p] = row
  BY DEF HandsOK, Hand
<1>2. ASSUME NEW q \in Promoters PROVE HandOK(hand[q])'
  <2>1. CASE q = p
    BY <1>1, <2>1
  <2>2. CASE q # p
    <3>1. PICK other : other = hand[q]
      OBVIOUS
    <3>2. HandOK(other) /\ hand'[q] = other
      BY <2>2, <3>1 DEF HandsOK, Hand
    <3> QED BY <3>2, HandLasts
  <2> QED BY <2>1, <2>2
<1> QED BY <1>1, <1>2 DEF HandsOK

LEMMA HandsStay ==
  ASSUME HandsOK, Lasting, UNCHANGED hand
  PROVE  HandsOK'
<1>1. ASSUME NEW q \in Promoters PROVE HandOK(hand[q])'
  <2>1. PICK other : other = hand[q]
    OBVIOUS
  <2>2. HandOK(other) /\ hand'[q] = other
    BY <2>1 DEF HandsOK
  <2> QED BY <2>2, HandLasts
<1> QED BY <1>1 DEF HandsOK

\* The claim is admitted once.
LEMMA HeldStays ==
  ASSUME HeldOK, Lasting, UNCHANGED held
  PROVE  HeldOK'
<1>1. PICK c : c = held
  OBVIOUS
<1>2. ASSUME c # Nobody
      PROVE (c.by = "review" \/ Enough(c)') /\ SaysIt(c)' /\ Backed(c)'
  BY <1>1, <1>2, CandidateLasts DEF HeldOK
<1> QED BY <1>1, <1>2 DEF HeldOK, Enough, SaysIt, Backed, Corroborated

LEMMA SlipsStay ==
  ASSUME SlipsOK, Lasting, UNCHANGED slips
  PROVE  SlipsOK'
<1>1. ASSUME NEW c \in DOMAIN slips
      PROVE  /\ slips[c] \in Taken => IsHeld(c)'
             /\ slips[c] \in {"pending", "conflict"} => c \in desk'
  BY HeldLasts DEF SlipsOK, Lasting
<1> QED BY <1>1 DEF SlipsOK

LEMMA DeskStays ==
  ASSUME \A c \in desk : Backed(c), Lasting, UNCHANGED desk
  PROVE  (\A c \in desk : Backed(c))'
BY CandidateLasts

-----------------------------------------------------------------------------
(* The steps. *)

\* What is known of a process at work.
LEMMA HandAtWork ==
  ASSUME HandsOK, NEW p \in Promoters, hand[p].batch # <<>>
  PROVE  /\ DOMAIN hand[p] = HandFields /\ hand[p].batch \in Seq(Candidates)
         /\ Foremost(p) \in Candidates /\ Backed(Foremost(p))
<1>1. HandOK(hand[p])
  BY DEF HandsOK
<1>2. hand[p].batch \in Seq(Candidates) /\ 1 \in DOMAIN hand[p].batch
      /\ Foremost(p) = hand[p].batch[1]
  BY <1>1 DEF HandOK, Foremost
<1> QED BY <1>1, <1>2 DEF HandOK

LEMMA RestingOK == HandOK(Resting) /\ HandOK(Resting)'
BY DEF HandOK, Resting, HandFields, Taken

\* A process goes on with its candidate to a place where nothing more is asked
\* of the candidate, with an outcome that is true.
LEMMA GoesOn ==
  ASSUME HandsOK, Lasting, NEW p \in Promoters, hand[p].batch # <<>>,
         NEW c, c = Foremost(p), NEW row, Hand(p, row),
         DOMAIN row = HandFields, row.batch = hand[p].batch, row.by = hand[p].by,
         row.at \in {"match", "write"} => row.by = "review" \/ Enough(c)',
         row.at = "write" => SaysIt(c)',
         row.said \in Taken => IsHeld(c)',
         row.at = "finalize" /\ row.said \in {"pending", "conflict"} => c \in desk'
  PROVE  HandsOK'
<1>1. HandOK(hand[p])
  BY DEF HandsOK
<1>2. /\ row.batch \in Seq(Candidates) /\ row.batch # <<>> /\ Head(row.batch) = c
      /\ row.by \in {"rule", "review"}
      /\ \A i \in DOMAIN row.batch : Backed(row.batch[i])
  BY <1>1 DEF HandOK, Foremost
<1>3. \A i \in DOMAIN row.batch : Backed(row.batch[i])'
  BY <1>2, CandidateLasts
<1>4. HandOK(row)'
  BY <1>2, <1>3 DEF HandOK
<1> QED BY <1>4, OneHandChanges

LEMMA SaysGood ==
  ASSUME HandsOK, Lasting, NEW p \in Promoters, hand[p].batch # <<>>,
         NEW c, c = Foremost(p), NEW decision, Says(p, decision),
         decision \in Taken => IsHeld(c)',
         decision \in {"pending", "conflict"} => c \in desk'
  PROVE  HandsOK'
<1> DEFINE row == [hand[p] EXCEPT !.at = "finalize", !.said = decision]
<1>1. /\ DOMAIN row = HandFields /\ row.batch = hand[p].batch /\ row.by = hand[p].by
      /\ row.at = "finalize" /\ row.said = decision
  BY HandAtWork DEF HandFields
<1>2. Hand(p, row)
  BY DEF Says
<1> HIDE DEF row
<1> QED BY <1>1, <1>2, GoesOn

LEMMA OnwardGood ==
  ASSUME HandsOK, Lasting, NEW p \in Promoters, hand[p].batch # <<>>, Onward(p)
  PROVE  HandsOK'
<1>1. PICK row : row = [Resting EXCEPT !.at = "next", !.batch = Tail(hand[p].batch)]
  OBVIOUS
<1>2. /\ DOMAIN row = HandFields /\ row.at = "next" /\ row.said = "none"
      /\ row.by = "rule"
      /\ row.batch = Tail(hand[p].batch)
  BY <1>1 DEF HandFields, Resting
<1>3. PICK batch : batch = hand[p].batch
  OBVIOUS
<1>4. /\ batch \in Seq(Candidates) /\ batch # <<>>
      /\ \A i \in DOMAIN batch : Backed(batch[i])
  BY <1>3 DEF HandsOK, HandOK
<1>5. /\ row.batch \in Seq(Candidates)
      /\ \A i \in DOMAIN row.batch :
           i + 1 \in DOMAIN batch /\ row.batch[i] = batch[i + 1]
  BY <1>2, <1>3, <1>4
<1>6. \A i \in DOMAIN row.batch : Backed(row.batch[i])
  BY <1>4, <1>5
<1>7. \A i \in DOMAIN row.batch : Backed(row.batch[i])'
  BY <1>6, CandidateLasts
<1>8. HandOK(row)'
  BY <1>2, <1>5, <1>7 DEF HandOK, Taken
<1>9. Hand(p, row)
  BY <1>1 DEF Onward
<1> QED BY <1>8, <1>9, OneHandChanges

LEMMA RestsGood ==
  ASSUME HandsOK, Lasting, NEW p \in Promoters, Hand(p, Resting)
  PROVE  HandsOK'
BY RestingOK, OneHandChanges

\* The candidate of a message now.
LEMMA CandidateNow ==
  ASSUME talk \in Seq(Messages), NEW e \in DOMAIN talk
  PROVE  /\ CandidateOf(e) \in Candidates /\ Backed(CandidateOf(e))
         /\ Max(CandidateOf(e).sources) \in DOMAIN talk
<1>1. Len(talk) \in Nat /\ DOMAIN talk = 1..Len(talk) /\ Len(talk) # 0
  OBVIOUS
<1>2. talk[e].text \in Texts
  <2>1. talk[e] \in Messages
    OBVIOUS
  <2> QED BY <2>1 DEF Messages
<1>3. CandidateOf(e) = [content |-> talk[e].text, sources |-> 1..Len(talk)]
  BY <1>1 DEF CandidateOf, Support
<1>4. Max(1..Len(talk)) = Len(talk)
  BY <1>1 DEF Max
<1> QED BY <1>1, <1>2, <1>3, <1>4 DEF Candidates, Backed

\* A candidate that is the same when it is derived again is backed by what was
\* said so far, and its newest source says it.
LEMMA StillMeansSaysIt ==
  ASSUME talk \in Seq(Messages), NEW c, Backed(c), StillMeans(c), talk # <<>>
  PROVE  SaysIt(c)
<1>1. c.sources = DOMAIN talk /\ c.content = talk[Max(c.sources)].text
  BY DEF StillMeans, CandidateOf, Support
<1>2. Max(DOMAIN talk) \in DOMAIN talk
  <2>1. Len(talk) \in Nat /\ DOMAIN talk = 1..Len(talk) /\ Len(talk) # 0
    OBVIOUS
  <2>2. Max(1..Len(talk)) = Len(talk)
    BY <2>1 DEF Max
  <2> QED BY <2>1, <2>2
<1> QED BY <1>1, <1>2 DEF SaysIt

\* Steps of the users.
LEMMA UsersKeep ==
  ASSUME EvidenceInv,
         \/ \E session \in Sessions, text \in Texts : Speak(session, text)
         \/ \E e \in DOMAIN talk, text \in Texts : Reword(e, text)
         \/ \E e \in DOMAIN talk : TakeBack(e)
         \/ UNCHANGED assertVars
  PROVE  EvidenceInv'
<1>1. UNCHANGED <<held, slips, desk, hand>>
  BY DEF Speak, Reword, TakeBack, assertVars
<1>2. /\ talk' \in Seq(Messages)
      /\ \A e \in DOMAIN talk :
           /\ e \in DOMAIN talk'
           /\ talk'[e].session = talk[e].session /\ talk'[e].text = talk[e].text
  <2>0. talk \in Seq(Messages)
    BY DEF EvidenceInv
  <2>1. ASSUME NEW m \in Messages, NEW s \in Seq(Messages)
        PROVE  /\ Append(s, m) \in Seq(Messages)
               /\ \A e \in DOMAIN s : e \in DOMAIN Append(s, m) /\ Append(s, m)[e] = s[e]
    OBVIOUS
  <2>2. ASSUME NEW e \in DOMAIN talk
        PROVE  LET s == [talk EXCEPT ![e].live = FALSE]
               IN  /\ s \in Seq(Messages) /\ DOMAIN s = DOMAIN talk
                   /\ \A d \in DOMAIN talk :
                        s[d].session = talk[d].session /\ s[d].text = talk[d].text
    <3> DEFINE m == [talk[e] EXCEPT !.live = FALSE]
               s == [talk EXCEPT ![e] = m]
    <3>1. talk[e] \in Messages
      BY <2>0
    <3>2. m \in Messages /\ m.session = talk[e].session /\ m.text = talk[e].text
      BY <3>1 DEF Messages
    <3>3. s = [talk EXCEPT ![e].live = FALSE]
      OBVIOUS
    <3> HIDE DEF m
    <3>4. s \in Seq(Messages) /\ DOMAIN s = DOMAIN talk
      BY <2>0, <3>2
    <3>5. \A d \in DOMAIN talk :
            s[d].session = talk[d].session /\ s[d].text = talk[d].text
      BY <2>0, <3>2
    <3> HIDE DEF s
    <3> QED BY <3>3, <3>4, <3>5
  <2>3. CASE \E session \in Sessions, text \in Texts : Speak(session, text)
    <3>1. PICK session \in Sessions, text \in Texts : Speak(session, text)
      BY <2>3
    <3>2. PICK m : m = [session |-> session, text |-> text, live |-> TRUE]
      OBVIOUS
    <3>3. m \in Messages /\ talk' = Append(talk, m)
      BY <3>1, <3>2 DEF Speak, Messages
    <3> QED BY <2>0, <2>1, <3>3
  <2>4. CASE \E e \in DOMAIN talk, text \in Texts : Reword(e, text)
    <3>1. PICK e \in DOMAIN talk, text \in Texts : Reword(e, text)
      BY <2>4
    <3>2. PICK m : m = [session |-> talk[e].session, text |-> text, live |-> TRUE]
      OBVIOUS
    <3>3. PICK s : s = [talk EXCEPT ![e].live = FALSE]
      OBVIOUS
    <3>4. m \in Messages /\ talk' = Append(s, m)
      <4>1. talk[e] \in Messages
        BY <2>0
      <4>2. talk[e].session \in Sessions
        BY <4>1 DEF Messages
      <4> QED BY <3>1, <3>2, <3>3, <4>2 DEF Reword, Messages
    <3>5. /\ s \in Seq(Messages) /\ DOMAIN s = DOMAIN talk
          /\ \A d \in DOMAIN talk :
               s[d].session = talk[d].session /\ s[d].text = talk[d].text
      BY <2>2, <3>3
    <3> QED BY <2>1, <3>4, <3>5
  <2>5. CASE \E e \in DOMAIN talk : TakeBack(e)
    BY <2>2, <2>5 DEF TakeBack
  <2>6. CASE UNCHANGED talk
    BY <2>0, <2>6
  <2> QED BY <2>3, <2>4, <2>5, <2>6 DEF assertVars
<1>3. Lasting
  BY <1>1, <1>2 DEF Lasting
<1> QED BY <1>1, <1>2, <1>3, HandsStay, HeldStays, SlipsStay, DeskStays DEF EvidenceInv

\* A step that leaves the chat alone, and the claim or finds it free.
LEMMA Lasts ==
  ASSUME UNCHANGED talk, desk \subseteq desk', held # Nobody => UNCHANGED held
  PROVE  Lasting
BY DEF Lasting

\* Steps of a process that write neither the claim nor a slip.
LEMMA HandsMove ==
  ASSUME EvidenceInv, UNCHANGED <<talk, held, slips, desk>>, Lasting => HandsOK'
  PROVE  EvidenceInv'
<1>1. Lasting
  BY Lasts
<1> QED BY <1>1, HeldStays, SlipsStay, DeskStays DEF EvidenceInv

\* extract: every message has its candidate.
LEMMA GatherKeeps ==
  ASSUME EvidenceInv, NEW p \in Promoters, Gather(p)
  PROVE  EvidenceInv'
<1>1. PICK row : row = [Resting EXCEPT !.at = "next",
                          !.batch = [e \in DOMAIN talk |-> CandidateOf(e)]]
  OBVIOUS
<1>2. /\ DOMAIN row = HandFields /\ row.at = "next" /\ row.said = "none"
      /\ row.by = "rule"
      /\ row.batch = [e \in DOMAIN talk |-> CandidateOf(e)]
  BY <1>1 DEF HandFields, Resting
<1>3. \A e \in DOMAIN talk : CandidateOf(e) \in Candidates /\ Backed(CandidateOf(e))
  BY CandidateNow DEF EvidenceInv
<1>4. row.batch \in Seq(Candidates)
  <2>1. DOMAIN talk = 1..Len(talk) /\ Len(talk) \in Nat
    BY DEF EvidenceInv
  <2> HIDE DEF CandidateOf
  <2> QED BY <1>2, <1>3, <2>1
<1>5. \A i \in DOMAIN row.batch : Backed(row.batch[i])
  BY <1>2, <1>3
<1>6. ASSUME Lasting PROVE HandsOK'
  <2>1. \A i \in DOMAIN row.batch : Backed(row.batch[i])'
    BY <1>5, <1>6, CandidateLasts
  <2>2. HandOK(row)'
    BY <1>2, <1>4, <2>1 DEF HandOK, Taken
  <2>3. Hand(p, row)
    BY <1>1 DEF Gather
  <2> QED BY <1>6, <2>2, <2>3, OneHandChanges DEF EvidenceInv
<1> QED BY <1>6, HandsMove DEF Gather

\* A process that is done, or dies, has forgotten its candidate.
LEMMA RestKeeps ==
  ASSUME EvidenceInv, NEW p \in Promoters, GatherEnds(p) \/ Die(p)
  PROVE  EvidenceInv'
<1>1. Hand(p, Resting) /\ UNCHANGED <<talk, held, slips, desk>>
  BY DEF GatherEnds, Die
<1>2. Lasting => HandsOK'
  BY <1>1, RestsGood DEF EvidenceInv
<1> QED BY <1>1, <1>2, HandsMove

\* A slip that opens is in processing.
LEMMA OpenKeeps ==
  ASSUME EvidenceInv, NEW p \in Promoters, Open(p)
  PROVE  EvidenceInv'
<1>1. Lasting
  BY Lasts DEF Open
<1>2. HandsOK /\ hand[p].batch # <<>> /\ hand[p].at = "next"
  BY DEF EvidenceInv, Open, Does
<1>3. PICK c : c = Foremost(p)
  OBVIOUS
<1>4. Backed(c) /\ DOMAIN hand[p] = HandFields
  BY <1>2, <1>3, HandAtWork
<1>5. CASE Concluded(c)
  <2>1. Onward(p) /\ UNCHANGED <<talk, held, slips, desk>>
    BY <1>3, <1>5 DEF Open
  <2> QED BY <1>2, <2>1, OnwardGood, HandsMove
<1>6. CASE ~Concluded(c)
  <2> DEFINE row == [hand[p] EXCEPT !.again = c \in DOMAIN slips,
                        !.at = IF NeedsReview(c) THEN "enqueue" ELSE "match"]
  <2>1. /\ DOMAIN row = HandFields /\ row.batch = hand[p].batch /\ row.by = hand[p].by
        /\ row.at = IF NeedsReview(c) THEN "enqueue" ELSE "match"
        /\ row.said = hand[p].said
    BY <1>4 DEF HandFields
  <2>2. Hand(p, row) /\ slips' = Noted(slips, c, "processing")
    BY <1>3, <1>6 DEF Open
  <2> HIDE DEF row
  <2>3. row.at = "match" => Enough(c)'
    <3>1. row.at = "match" => Enough(c)
      BY <2>1 DEF NeedsReview, Enough
    <3> QED BY <1>1, <1>4, <3>1, CandidateLasts
  <2>4. row.said \in Taken => IsHeld(c)'
    <3>1. row.said \in Taken => IsHeld(c)
      BY <1>2, <1>3, <2>1 DEF HandsOK, HandOK, Foremost
    <3> QED BY <1>1, <3>1, HeldLasts
  <2>5. HandsOK'
    BY <1>1, <1>2, <1>3, <2>1, <2>2, <2>3, <2>4, GoesOn
  <2>6. SlipsOK'
    <3>1. DOMAIN slips' = DOMAIN slips \cup {c} /\ slips'[c] = "processing"
          /\ \A d \in DOMAIN slips : d # c => slips'[d] = slips[d]
      BY <2>2 DEF Noted
    <3>2. UNCHANGED <<held, desk>>
      BY DEF Open
    <3>3. ASSUME NEW d \in DOMAIN slips'
          PROVE  /\ slips'[d] \in Taken => IsHeld(d)'
                 /\ slips'[d] \in {"pending", "conflict"} => d \in desk'
      BY <3>1, <3>2 DEF EvidenceInv, SlipsOK, Taken, IsHeld
    <3> QED BY <3>3 DEF SlipsOK
  <2> QED BY <1>1, <2>5, <2>6, HeldStays, DeskStays DEF EvidenceInv, Open
<1> QED BY <1>5, <1>6

\* enqueue_candidate: the record is there before the process says so.
LEMMA ToDeskKeeps ==
  ASSUME EvidenceInv, NEW p \in Promoters, ToDesk(p)
  PROVE  EvidenceInv'
<1>1. Lasting
  BY Lasts DEF ToDesk
<1>2. HandsOK /\ hand[p].batch # <<>>
  BY DEF EvidenceInv, ToDesk, Does, HandsOK, HandOK
<1>3. PICK c : c = Foremost(p)
  OBVIOUS
<1>4. c \in Candidates /\ Backed(c)
  BY <1>2, <1>3, HandAtWork
<1>5. desk' = desk \cup {c}
  BY <1>3 DEF ToDesk
<1>6. PICK decision \in {"pending", "conflict"} : Says(p, decision)
  BY DEF ToDesk
<1>7. HandsOK'
  BY <1>1, <1>2, <1>3, <1>5, <1>6, SaysGood DEF Taken
<1>8. desk' \subseteq Candidates /\ (\A d \in desk : Backed(d))'
  <2>1. \A d \in desk' : Backed(d)
    BY <1>4, <1>5 DEF EvidenceInv
  <2>2. \A d \in desk' : Backed(d)'
    BY <1>1, <2>1, CandidateLasts
  <2> QED BY <1>4, <1>5, <2>2 DEF EvidenceInv
<1> QED BY <1>1, <1>7, <1>8, HeldStays, SlipsStay DEF EvidenceInv, ToDesk

\* The evidence is derived again.
LEMMA MatchKeeps ==
  ASSUME EvidenceInv, NEW p \in Promoters, Match(p)
  PROVE  EvidenceInv'
<1>1. Lasting
  BY Lasts DEF Match
<1>2. HandsOK /\ HandOK(hand[p]) /\ hand[p].at = "match" /\ hand[p].batch # <<>>
  BY DEF EvidenceInv, Match, Does, HandsOK, HandOK
<1>3. PICK c : c = Foremost(p)
  OBVIOUS
<1>4. Backed(c) /\ DOMAIN hand[p] = HandFields
  BY <1>2, <1>3, HandAtWork
<1>5. CASE StillMeans(c)
  <2> DEFINE row == [hand[p] EXCEPT !.at = "write", !.keyed = held # Nobody]
  <2>1. /\ DOMAIN row = HandFields /\ row.batch = hand[p].batch /\ row.by = hand[p].by
        /\ row.at = "write"
        /\ row.said = hand[p].said
    BY <1>4 DEF HandFields
  <2>2. Hand(p, row)
    BY <1>3, <1>5 DEF Match
  <2> HIDE DEF row
  <2>3. SaysIt(c)
    <3>1. c \in Candidates
      BY <1>2, <1>3, HandAtWork
    <3>2. c.sources = DOMAIN talk /\ c.sources # {}
      BY <1>5, <3>1 DEF StillMeans, CandidateOf, Support, Candidates
    <3>3. talk # <<>>
      BY <3>2
    <3> QED BY <1>4, <1>5, <3>3, StillMeansSaysIt DEF EvidenceInv
  <2>4. SaysIt(c)'
    BY <1>1, <1>4, <2>3, CandidateLasts
  <2>5. row.by = "review" \/ Enough(c)'
    <3>1. row.by = "review" \/ Enough(c)
      BY <1>2, <1>3, <2>1 DEF HandOK, Foremost
    <3> QED BY <1>1, <1>4, <3>1, CandidateLasts
  <2>6. row.said \in Taken => IsHeld(c)'
    <3>1. row.said \in Taken => IsHeld(c)
      BY <1>2, <1>3, <2>1 DEF HandOK, Foremost
    <3> QED BY <1>1, <3>1, HeldLasts
  <2>7. HandsOK'
    BY <1>1, <1>2, <1>3, <2>1, <2>2, <2>4, <2>5, <2>6, GoesOn
  <2> QED BY <2>7, HandsMove DEF Match
<1>6. CASE ~StillMeans(c)
  <2>1. Says(p, "error")
    BY <1>3, <1>6 DEF Match
  <2>2. PICK decision : decision = "error" /\ Says(p, decision)
    BY <2>1
  <2>3. HandsOK'
    BY <1>1, <1>2, <1>3, <2>2, SaysGood DEF Taken
  <2> QED BY <2>3, HandsMove DEF Match
<1> QED BY <1>5, <1>6

\* write admits a candidate that was held enough, or approved, and that is what
\* its newest source says; the claim is then never another.
LEMMA AdmitKeeps ==
  ASSUME EvidenceInv, NEW p \in Promoters, Admit(p)
  PROVE  EvidenceInv'
<1>1. Lasting
  BY Lasts DEF Admit
<1>2. HandsOK /\ HandOK(hand[p]) /\ hand[p].at = "write" /\ hand[p].batch # <<>>
  BY DEF EvidenceInv, Admit, Does, HandsOK, HandOK
<1>3. PICK c : c = Foremost(p)
  OBVIOUS
<1>4. Backed(c) /\ DOMAIN hand[p] = HandFields
  BY <1>2, <1>3, HandAtWork
<1>5. UNCHANGED <<talk, slips, desk>>
  BY DEF Admit
<1>6. CASE held # Nobody /\ held.content = c.content
  <2>1. Says(p, Found(p)) /\ UNCHANGED held
    BY <1>3, <1>6 DEF Admit
  <2>2. PICK decision \in Taken : Says(p, decision)
    BY <2>1 DEF Found, Taken
  <2>3. IsHeld(c)'
    BY <1>6, <2>1 DEF IsHeld
  <2>4. HandsOK'
    BY <1>1, <1>2, <1>3, <2>2, <2>3, SaysGood DEF Taken
  <2> QED BY <1>5, <2>1, <2>4, HandsMove
<1>7. CASE held # Nobody /\ held.content # c.content
  <2> DEFINE row == [hand[p] EXCEPT !.at = "enqueue", !.said = "conflict"]
  <2>1. /\ DOMAIN row = HandFields /\ row.batch = hand[p].batch /\ row.by = hand[p].by
        /\ row.at = "enqueue" /\ row.said = "conflict"
    BY <1>4 DEF HandFields
  <2>2. Hand(p, row) /\ UNCHANGED held
    BY <1>3, <1>7 DEF Admit
  <2> HIDE DEF row
  <2>3. HandsOK'
    BY <1>1, <1>2, <1>3, <2>1, <2>2, GoesOn DEF Taken
  <2> QED BY <1>5, <2>2, <2>3, HandsMove
<1>8. CASE held = Nobody /\ ~AllLive(c.sources)
  <2>1. PICK decision : decision = "rejected" /\ Says(p, decision) /\ UNCHANGED held
    BY <1>3, <1>8 DEF Admit
  <2>2. HandsOK'
    BY <1>1, <1>2, <1>3, <2>1, SaysGood DEF Taken
  <2> QED BY <1>5, <2>1, <2>2, HandsMove
<1>9. CASE held = Nobody /\ AllLive(c.sources)
  <2>1. PICK new, decision :
          /\ new = [content |-> c.content, sources |-> c.sources, by |-> hand[p].by]
          /\ held' = new /\ decision = "activated" /\ Says(p, decision)
    BY <1>3, <1>9 DEF Admit
  <2>2. new # Nobody /\ new.content = c.content /\ new.sources = c.sources
        /\ new.by = hand[p].by
    <3>1. /\ new.content = c.content /\ new.sources = c.sources
          /\ new.by = hand[p].by
      BY <2>1
    <3>2. new.by \in {"rule", "review"}
      BY <1>2, <3>1 DEF HandOK
    <3>3. Nobody.by = "none"
      BY DEF Nobody
    <3> QED BY <3>1, <3>2, <3>3
  <2>3. IsHeld(c)'
    BY <2>1, <2>2 DEF IsHeld, Nobody
  <2>4. HandsOK'
    BY <1>1, <1>2, <1>3, <2>1, <2>3, SaysGood
  <2>5. HeldOK'
    <3>1. SaysIt(c) /\ Backed(c) /\ (new.by = "review" \/ Enough(c))
      BY <1>2, <1>3, <1>4, <2>2 DEF HandOK, Foremost
    <3>2. SaysIt(new) /\ Backed(new) /\ (new.by = "review" \/ Enough(new))
      BY <2>2, <3>1 DEF SaysIt, Backed, Enough
    <3>3. SaysIt(new)' /\ Backed(new)' /\ (new.by = "review" \/ Enough(new)')
      BY <1>1, <3>2, CandidateLasts
    <3> QED BY <2>1, <3>3 DEF HeldOK, SaysIt, Backed, Enough, Corroborated
  <2> QED BY <1>1, <1>5, <2>4, <2>5, SlipsStay, DeskStays DEF EvidenceInv
<1> QED BY <1>6, <1>7, <1>8, <1>9

\* A slip that is closed says what the process found out.
LEMMA SlipWritten ==
  ASSUME SlipsOK, Lasting, NEW c, NEW decision,
         slips' = [slips EXCEPT ![c] = decision],
         decision \in Taken => IsHeld(c)',
         decision \in {"pending", "conflict"} => c \in desk'
  PROVE  SlipsOK'
<1>1. DOMAIN slips' = DOMAIN slips /\ (c \in DOMAIN slips => slips'[c] = decision)
      /\ \A d \in DOMAIN slips : d # c => slips'[d] = slips[d]
  OBVIOUS
<1>2. ASSUME NEW d \in DOMAIN slips
      PROVE  /\ slips'[d] \in Taken => IsHeld(d)'
             /\ slips'[d] \in {"pending", "conflict"} => d \in desk'
  BY <1>1, HeldLasts DEF SlipsOK, Lasting
<1> QED BY <1>1, <1>2 DEF SlipsOK

LEMMA CloseKeeps ==
  ASSUME EvidenceInv, NEW p \in Promoters, Close(p)
  PROVE  EvidenceInv'
<1>1. Lasting
  BY Lasts DEF Close
<1>2. HandsOK /\ HandOK(hand[p]) /\ hand[p].at = "finalize" /\ hand[p].batch # <<>>
  BY DEF EvidenceInv, Close, Does, HandsOK, HandOK
<1>3. PICK c, decision : c = Foremost(p) /\ decision = Told(p)
  OBVIOUS
<1>4. /\ decision \in Taken => IsHeld(c)
      /\ decision \in {"pending", "conflict"} => c \in desk
  BY <1>2, <1>3 DEF HandOK, Foremost, Told, Taken
<1>5. /\ decision \in Taken => IsHeld(c)'
      /\ decision \in {"pending", "conflict"} => c \in desk'
  BY <1>1, <1>4, HeldLasts DEF Lasting
<1>6. HandsOK'
  BY <1>1, <1>2, OnwardGood, RestsGood DEF Close
<1>7. SlipsOK'
  <2>1. UNCHANGED slips \/ slips' = [slips EXCEPT ![c] = decision]
    BY <1>3 DEF Close
  <2> QED BY <1>1, <1>5, <2>1, SlipsStay, SlipWritten DEF EvidenceInv
<1> QED BY <1>1, <1>6, <1>7, HeldStays, DeskStays DEF EvidenceInv, Close

LEMMA ApproveEndsKeeps ==
  ASSUME EvidenceInv, NEW p \in Promoters, ApproveEnds(p)
  PROVE  EvidenceInv'
<1>1. Lasting
  BY Lasts DEF ApproveEnds
<1>2. HandsOK /\ HandOK(hand[p])
  BY DEF EvidenceInv, HandsOK
<1>3. PICK c, decision : c = Foremost(p) /\ decision = hand[p].said
  OBVIOUS
<1>4. decision \in Taken => IsHeld(c)
  BY <1>2, <1>3 DEF HandOK, Foremost
<1>5. decision \in Taken => IsHeld(c)'
  BY <1>1, <1>4, HeldLasts
<1>6. HandsOK'
  BY <1>1, <1>2, RestsGood DEF ApproveEnds
<1>7. SlipsOK'
  <2>1. \/ UNCHANGED slips
        \/ decision \in Taken /\ slips' = [slips EXCEPT ![c] = decision]
    <3>1. slips' = IF decision \in Taken /\ slips[c] = "pending"
                   THEN [slips EXCEPT ![c] = decision] ELSE slips
      BY <1>3, Zenon DEF ApproveEnds, Taken
    <3> QED BY <3>1
  <2> QED BY <1>1, <1>5, <2>1, SlipsStay, SlipWritten DEF EvidenceInv, Taken
<1> QED BY <1>1, <1>6, <1>7, HeldStays, DeskStays DEF EvidenceInv, ApproveEnds

\* approve_pending: a reviewer vouches for what the rules do not admit.
LEMMA AskApprovalKeeps ==
  ASSUME EvidenceInv, NEW p \in Promoters, NEW c \in desk, AskApproval(p, c)
  PROVE  EvidenceInv'
<1>1. c \in Candidates /\ Backed(c)
  BY DEF EvidenceInv
<1>2. PICK row : row = [Resting EXCEPT !.at = "match", !.batch = <<c>>, !.by = "review"]
  OBVIOUS
<1>3. /\ DOMAIN row = HandFields /\ row.at = "match" /\ row.by = "review"
      /\ row.batch = <<c>> /\ row.said = "none"
  BY <1>2 DEF HandFields, Resting
<1>4. row.batch \in Seq(Candidates) /\ row.batch # <<>>
      /\ \A i \in DOMAIN row.batch : row.batch[i] = c
  BY <1>1, <1>3
<1>5. ASSUME Lasting PROVE HandsOK'
  <2>1. Backed(c)'
    BY <1>1, <1>5, CandidateLasts
  <2>2. \A i \in DOMAIN row.batch : Backed(row.batch[i])'
    BY <1>4, <2>1
  <2>3. HandOK(row)'
    BY <1>3, <1>4, <2>2 DEF HandOK, Taken
  <2>4. Hand(p, row)
    BY <1>2 DEF AskApproval
  <2> QED BY <1>5, <2>3, <2>4, OneHandChanges DEF EvidenceInv
<1> QED BY <1>5, HandsMove DEF AskApproval

LEMMA AssertStep == EvidenceInv /\ [AssertNext]_assertVars => EvidenceInv'
<1> SUFFICES ASSUME EvidenceInv, [AssertNext]_assertVars PROVE EvidenceInv'
  OBVIOUS
<1>1. ASSUME NEW p \in Promoters,
             \/ Gather(p) \/ GatherEnds(p) \/ Open(p) \/ ToDesk(p) \/ Match(p)
             \/ Admit(p) \/ Close(p) \/ ApproveEnds(p) \/ Die(p)
      PROVE  EvidenceInv'
  BY <1>1, GatherKeeps, RestKeeps, OpenKeeps, ToDeskKeeps, MatchKeeps, AdmitKeeps,
     CloseKeeps, ApproveEndsKeeps
<1> QED BY <1>1, UsersKeep, AskApprovalKeeps DEF AssertNext

LEMMA AssertStarts == AssertInit => EvidenceInv
<1> SUFFICES ASSUME AssertInit PROVE EvidenceInv
  OBVIOUS
<1>1. HandsOK
  BY RestingOK DEF AssertInit, HandsOK
<1>2. talk \in Seq(Messages) /\ desk = {} /\ held = Nobody /\ DOMAIN slips = {}
  BY DEF AssertInit
<1> QED BY <1>1, <1>2 DEF EvidenceInv, HeldOK, SlipsOK

-----------------------------------------------------------------------------
(* The theorems. *)

LEMMA InvSuffices == EvidenceInv => NothingOnHearsay /\ SlipsTellTheTruth
<1> SUFFICES ASSUME EvidenceInv PROVE NothingOnHearsay /\ SlipsTellTheTruth
  OBVIOUS
<1>1. NothingOnHearsay
  BY DEF EvidenceInv, HeldOK, Enough, Corroborated, SaysIt, NothingOnHearsay
<1>2. SlipsTellTheTruth
  BY DEF EvidenceInv, SlipsOK, IsHeld, Taken, SlipsTellTheTruth
<1> QED BY <1>1, <1>2

\* _supporting_events, requires_human_confirmation and _matches_event_authority
\* read the chat in other transactions than the write they decide about; still
\* no assertion is remembered on less than it takes, and no receipt is wrong.
THEOREM AssertionsHold ==
  AssertInit /\ [][AssertNext]_assertVars => [](NothingOnHearsay /\ SlipsTellTheTruth)
BY AssertStarts, AssertStep, InvSuffices, PTL

\* The same of the behaviours of promotion_alone.
THEOREM EvidenceIsEnough == AloneSpec => []EvidenceSuffices
<1> DEFINE Here == part = "assertions" => EvidenceInv
<1>1. AloneInit => Here
  BY AssertStarts DEF AloneInit
<1>2. Here /\ [AloneNext]_aloneVars => Here'
  <2> SUFFICES ASSUME Here, [AloneNext]_aloneVars, part' = "assertions"
               PROVE  EvidenceInv'
    OBVIOUS
  <2>1. part = "assertions" /\ [AssertNext]_assertVars
    BY DEF AloneNext, RunCommands, RunAssertions, aloneVars
  <2> QED BY <2>1, AssertStep
<1>3. Here => EvidenceSuffices
  BY InvSuffices DEF EvidenceSuffices
<1> QED BY <1>1, <1>2, <1>3, PTL DEF AloneSpec

-----------------------------------------------------------------------------
(* A lone host: the authority under its candidates                         *)

\* One process promotes, for every session; nobody reviews, and no projector
\* takes a guard.
Lone(h) == Syncs = {h} /\ ScopeOf[h] = Null /\ Reviewers = {} /\ MaxGuards = 0

\* What the tables of versions, of the log and of the current rows have to do
\* with each other.
VersionsHold ==
  \A k \in DOMAIN versions :
    /\ k = <<k[1], k[2]>> /\ k[2] \in Nat \ {0}
    /\ k[1] \in DOMAIN current /\ k[2] <= current[k[1]].version

CurrentHolds ==
  \A c \in DOMAIN current :
    /\ c \in Claims
    /\ current[c].version \in Nat \ {0} /\ current[c].state \in {"active", "retired"}
    /\ <<c, current[c].version>> \in DOMAIN versions
    /\ versions[<<c, current[c].version>>].content \in Contents
    /\ \E g \in DOMAIN gov : gov[g].claim = c /\ gov[g].version = current[c].version

LogHolds ==
  /\ gov \in Seq(GovRow)
  /\ \A g \in DOMAIN gov : <<gov[g].claim, gov[g].version>> \in DOMAIN versions

StoreHolds ==
  /\ VersionsHold /\ CurrentHolds /\ LogHolds
  /\ \A id \in DOMAIN receipts : receipts[id].version \in Nat
  /\ DOMAIN guards = {}

\* What CandidateInfo and EventInfo say of a candidate.
LEMMA CandidateTyped ==
  ASSUME NEW e \in UserEvents
  PROVE  /\ ClaimOf(e) \in Claims /\ Content(e) \in Contents
         /\ EventInfo[e].sensitivity \in Sensitivities
         /\ Action(e) \in {"memory", "replace", "forget"}
         /\ CandidateInfo[e].tier \in Tiers
BY CandidateAssumption, EventInfoAssumption DEF ClaimOf, Content, Action

\* A key of the tables stands for a claim.
LEMMA KeyedIsCurrent ==
  ASSUME StoreHolds, NEW c
  PROVE  Keyed(c) <=> c \in DOMAIN current
BY DEF StoreHolds, VersionsHold, CurrentHolds, Keyed

\* What a log becomes that grows by one or three rows.
LEMMA LogExtends ==
  ASSUME gov \in Seq(GovRow), NEW more \in Seq(GovRow), NEW log, log = gov \o more
  PROVE  /\ log \in Seq(GovRow)
         /\ \A g \in DOMAIN gov : g \in DOMAIN log /\ log[g] = gov[g]
         /\ \A g \in DOMAIN log :
              g \notin DOMAIN gov => \E i \in 1..Len(more) : log[g] = more[i]
         /\ \A i \in 1..Len(more) : Len(gov) + i \in DOMAIN log /\ log[Len(gov) + i] = more[i]
<1>1. Len(gov) \in Nat /\ Len(more) \in Nat /\ DOMAIN gov = 1..Len(gov)
  OBVIOUS
<1>2. log \in Seq(GovRow) /\ DOMAIN log = 1..(Len(gov) + Len(more))
  OBVIOUS
<1>3. \A i \in 1..(Len(gov) + Len(more)) :
        log[i] = IF i <= Len(gov) THEN gov[i] ELSE more[i - Len(gov)]
  OBVIOUS
<1>4. \A i \in 1..Len(more) : /\ Len(gov) + i \in 1..(Len(gov) + Len(more))
                              /\ ~(Len(gov) + i <= Len(gov)) /\ Len(gov) + i - Len(gov) = i
  BY <1>1
<1>5. \A g \in 1..(Len(gov) + Len(more)) : g \notin 1..Len(gov) => ~(g <= Len(gov)) /\ g - Len(gov) \in 1..Len(more)
  BY <1>1
<1> QED BY <1>1, <1>2, <1>3, <1>4, <1>5

\* A new version of claim c becomes the current one.
NewCurrent(c, n, content) ==
  /\ \E row : row.content = content /\ versions' = Put(versions, <<c, n>>, row)
  /\ \E gid : current' = Put(current, c, [version |-> n, gid |-> gid, state |-> "active"])

\* The tables stay tied to each other when a version is written.
LEMMA StoreGrows ==
  ASSUME StoreHolds, NEW c \in Claims, NEW n \in Nat \ {0}, NEW content \in Contents, NewCurrent(c, n, content),
         \A k \in DOMAIN versions : k[1] = c => k[2] <= n,
         NEW more \in Seq(GovRow), gov' = gov \o more,
         \A i \in 1..Len(more) : more[i].claim = c /\ (more[i].version = n \/ <<c, more[i].version>> \in DOMAIN versions),
         \E i \in 1..Len(more) : more[i].version = n,
         UNCHANGED <<receipts, guards>>
  PROVE  StoreHolds'
<1>1. PICK row : row.content = content /\ versions' = Put(versions, <<c, n>>, row)
  BY DEF NewCurrent
<1>2. PICK gid : current' = Put(current, c, [version |-> n, gid |-> gid, state |-> "active"])
  BY DEF NewCurrent
<1> DEFINE new == [version |-> n, gid |-> gid, state |-> "active"]
           key == <<c, n>>
<1>3. /\ DOMAIN versions' = DOMAIN versions \cup {key} /\ versions'[key].content = content
      /\ \A k \in DOMAIN versions : k # key => versions'[k] = versions[k]
  BY <1>1 DEF Put
<1>4. /\ DOMAIN current' = DOMAIN current \cup {c} /\ current'[c] = new
      /\ \A d \in DOMAIN current : d # c => current'[d] = current[d]
  BY <1>2 DEF Put
<1>5. new.version = n /\ new.state = "active" /\ key[1] = c /\ key[2] = n
  OBVIOUS
<1> HIDE DEF new
<1>6. VersionsHold /\ CurrentHolds /\ LogHolds
  BY DEF StoreHolds
<1>7. VersionsHold'
  <2> SUFFICES ASSUME NEW k \in DOMAIN versions'
               PROVE  /\ k = <<k[1], k[2]>> /\ k[2] \in Nat \ {0}
                      /\ k[1] \in DOMAIN current' /\ k[2] <= current'[k[1]].version
    BY DEF VersionsHold
  <2>1. CASE k = key
    BY <1>4, <1>5, <2>1
  <2>2. CASE k # key
    <3>1. k \in DOMAIN versions
      BY <1>3, <2>2
    <3>2. /\ k = <<k[1], k[2]>> /\ k[2] \in Nat \ {0}
          /\ k[1] \in DOMAIN current /\ k[2] <= current[k[1]].version
      BY <1>6, <3>1 DEF VersionsHold
    <3> QED BY <1>4, <1>5, <3>1, <3>2
  <2> QED BY <2>1, <2>2
<1>8. gov \in Seq(GovRow)
  BY <1>6 DEF LogHolds
<1>9. /\ gov' \in Seq(GovRow) /\ DOMAIN gov \subseteq DOMAIN gov'
      /\ \A g \in DOMAIN gov : gov'[g] = gov[g]
      /\ \A g \in DOMAIN gov' : g \notin DOMAIN gov => \E i \in 1..Len(more) : gov'[g] = more[i]
      /\ \A i \in 1..Len(more) : Len(gov) + i \in DOMAIN gov' /\ gov'[Len(gov) + i] = more[i]
  <2>1. PICK log : log = gov \o more
    OBVIOUS
  <2>2. /\ log \in Seq(GovRow)
        /\ \A g \in DOMAIN gov : g \in DOMAIN log /\ log[g] = gov[g]
        /\ \A g \in DOMAIN log : g \notin DOMAIN gov => \E i \in 1..Len(more) : log[g] = more[i]
        /\ \A i \in 1..Len(more) : Len(gov) + i \in DOMAIN log /\ log[Len(gov) + i] = more[i]
    BY <1>8, <2>1, LogExtends
  <2>3. gov' = log
    BY <2>1
  <2> QED BY <2>2, <2>3
<1>10. LogHolds'
  <2> SUFFICES ASSUME NEW g \in DOMAIN gov' PROVE <<gov'[g].claim, gov'[g].version>> \in DOMAIN versions'
    BY <1>9 DEF LogHolds
  <2>1. CASE g \in DOMAIN gov
    <3>1. <<gov[g].claim, gov[g].version>> \in DOMAIN versions
      BY <1>6, <2>1 DEF LogHolds
    <3> QED BY <1>3, <1>9, <2>1, <3>1
  <2>2. CASE g \notin DOMAIN gov
    <3>1. PICK i \in 1..Len(more) : gov'[g] = more[i]
      BY <1>9, <2>2
    <3> QED BY <1>3, <3>1
  <2> QED BY <2>1, <2>2
<1>11. CurrentHolds'
  <2> SUFFICES ASSUME NEW d \in DOMAIN current'
               PROVE  /\ d \in Claims
                      /\ current'[d].version \in Nat \ {0} /\ current'[d].state \in {"active", "retired"}
                      /\ <<d, current'[d].version>> \in DOMAIN versions'
                      /\ versions'[<<d, current'[d].version>>].content \in Contents
                      /\ \E g \in DOMAIN gov' : gov'[g].claim = d /\ gov'[g].version = current'[d].version
    BY DEF CurrentHolds
  <2>1. CASE d = c
    <3>0. PICK i \in 1..Len(more) : more[i].version = n /\ more[i].claim = c
      OBVIOUS
    <3>1. Len(gov) + i \in DOMAIN gov' /\ gov'[Len(gov) + i] = more[i]
      BY <1>9
    <3>2. \E g \in DOMAIN gov' : gov'[g].claim = c /\ gov'[g].version = n
      BY <3>0, <3>1
    <3> QED BY <1>3, <1>4, <1>5, <2>1, <3>2
  <2>2. CASE d # c
    <3>1. d \in DOMAIN current /\ current'[d] = current[d]
      BY <1>4, <2>2
    <3>2. /\ d \in Claims
          /\ current[d].version \in Nat \ {0} /\ current[d].state \in {"active", "retired"}
          /\ <<d, current[d].version>> \in DOMAIN versions
          /\ versions[<<d, current[d].version>>].content \in Contents
          /\ \E g \in DOMAIN gov : gov[g].claim = d /\ gov[g].version = current[d].version
      BY <1>6, <3>1 DEF CurrentHolds
    <3>3. <<d, current[d].version>> # key
      BY <2>2
    <3> QED BY <1>3, <1>9, <3>1, <3>2, <3>3
  <2> QED BY <2>1, <2>2
<1> QED BY <1>7, <1>10, <1>11 DEF StoreHolds

-----------------------------------------------------------------------------
(* What a sequence of commands adds up to                                  *)

Memories == [Claims -> [state : {"none", "active", "retired"}, content : Contents \cup {Null}]]

Nothing == [c \in Claims |-> NoMemory]

\* What one command makes of the memory of its claim.
Taught(old, e) ==
  LET new == [state |-> "active", content |-> Content(e)]
  IN  IF CandidateInfo[e].tier # "activate" THEN old
      ELSE IF old.state = "none" THEN (IF Action(e) = "forget" THEN old ELSE new)
      ELSE IF old.state = "retired" \/ Action(e) = "memory" THEN old
      ELSE IF Action(e) = "replace" THEN new
      ELSE [old EXCEPT !.state = "retired"]

LEMMA ApplyIs ==
  ASSUME NEW memory \in Memories, NEW e \in UserEvents
  PROVE  /\ Apply(memory, e) \in Memories
         /\ Apply(memory, e)[ClaimOf(e)] = Taught(memory[ClaimOf(e)], e)
         /\ \A c \in Claims : c # ClaimOf(e) => Apply(memory, e)[c] = memory[c]
<1>1. ClaimOf(e) \in Claims /\ Content(e) \in Contents
  BY CandidateTyped
<1>2. PICK old : old = memory[ClaimOf(e)]
  OBVIOUS
<1>3. old \in [state : {"none", "active", "retired"}, content : Contents \cup {Null}]
  BY <1>1, <1>2 DEF Memories
<1>4. Taught(old, e) \in [state : {"none", "active", "retired"}, content : Contents \cup {Null}]
  BY <1>1, <1>3 DEF Taught
<1>5. Apply(memory, e) = [memory EXCEPT ![ClaimOf(e)] = Taught(old, e)]
  <2>1. CASE CandidateInfo[e].tier # "activate"
    BY <1>1, <1>2, <2>1 DEF Apply, Taught, Memories
  <2>2. CASE CandidateInfo[e].tier = "activate"
    BY <1>2, <2>2 DEF Apply, Taught
  <2> QED BY <2>1, <2>2
<1> QED BY <1>1, <1>2, <1>4, <1>5 DEF Memories

\* A command that was carried out changes nothing when it is repeated.
LEMMA ApplyTwice ==
  ASSUME NEW memory \in Memories, NEW e \in UserEvents
  PROVE  Apply(Apply(memory, e), e) = Apply(memory, e)
<1>1. PICK once : once = Apply(memory, e)
  OBVIOUS
<1>2. /\ once \in Memories /\ Apply(once, e) \in Memories
      /\ once[ClaimOf(e)] = Taught(memory[ClaimOf(e)], e)
      /\ Apply(once, e)[ClaimOf(e)] = Taught(once[ClaimOf(e)], e)
      /\ \A c \in Claims : c # ClaimOf(e) => Apply(once, e)[c] = once[c]
  BY <1>1, ApplyIs
<1>3. PICK old : old = memory[ClaimOf(e)]
  OBVIOUS
<1>4. old \in [state : {"none", "active", "retired"}, content : Contents \cup {Null}]
  BY <1>3, CandidateTyped DEF Memories
<1>5. Taught(Taught(old, e), e) = Taught(old, e)
  <2>1. Action(e) \in {"memory", "replace", "forget"}
    BY CandidateTyped
  <2> QED BY <1>4, <2>1 DEF Taught
<1>6. \A c \in Claims : Apply(once, e)[c] = once[c]
  BY <1>2, <1>3, <1>5
<1> QED BY <1>1, <1>2, <1>6 DEF Memories

\* Remembered, one command after the other.
RememberRule(h, events) ==
  /\ h[0] = Nothing /\ Remembered(events) = h[Len(events)]
  /\ \A k \in 1..Len(events) : h[k] = Apply(h[k - 1], events[k])

LEMMA RememberSteps ==
  ASSUME NEW events \in Seq(UserEvents)
  PROVE  \E h \in [0..Len(events) -> Memories] : RememberRule(h, events)
<1> DEFINE n == Len(events)
           T == Memories
           G == [k \in 1..n |-> [t \in T |-> Apply(t, events[k])]]
           P(iter) == iter = [v \in SUBSET (1..n) |->
                                IF v = {} THEN Nothing ELSE Apply(iter[v \ {Max(v)}], events[Max(v)])]
           f == CHOOSE iter : P(iter)
<1>1. n \in Nat /\ 1..n \in SUBSET (0..n) /\ DOMAIN events = 1..n /\ Nothing \in T
  BY DEF Nothing, NoMemory, Memories
<1>2. Remembered(events) = f[1..n]
  <2>1. Remembered(events) = FoldLeft(Apply, Nothing, events)
    BY DEF Remembered, Nothing
  <2> QED BY <1>1, <2>1, Zenon DEF FoldLeft, MapThenFoldSet
<1>3. \A k \in 1..n : events[k] \in UserEvents
  OBVIOUS
<1>4. \A k \in 1..n, a \in T : Apply(a, events[k]) \in T
  BY <1>3, ApplyIs
<1>5. G \in [1..n -> [T -> T]]
  <2> HIDE DEF T
  <2> QED BY <1>4
<1>6. ASSUME NEW v \in SUBSET (1..n), v # {}, NEW a \in T
      PROVE  G[Max(v)][a] = Apply(a, events[Max(v)])
  <2>1. Max(v) \in 1..n
    BY <1>1, <1>6, MaxIs
  <2> HIDE DEF T
  <2> QED BY <2>1
<1>7. \E iter : P(iter)
  <2>1. PICK iter \in [SUBSET (1..n) -> T] : FoldRule(1..n, Nothing, G, iter)
    <3> HIDE DEF G, n, T
    <3> QED BY <1>1, <1>5, FoldExists, Zenon
  <2>2. \A v \in SUBSET (1..n) : iter[v \ {Max(v)}] \in T
    OBVIOUS
  <2>3. P(iter)
    <3> HIDE DEF G, T
    <3> QED BY <1>6, <2>1, <2>2 DEF FoldRule
  <2> QED BY <2>3
<1>8. P(f)
  BY <1>7, Zenon
<1> HIDE DEF f
<1>9. Folds(f, n, T, Nothing, G)
  <2> HIDE DEF G, T
  <2> QED BY <1>6, <1>8 DEF Folds
<1>10. PICK h \in [0..n -> T] : Walks(h, n, Nothing, G) /\ h[n] = f[1..n]
  <2>1. Walked(f, n, T, Nothing, G)
    <3> HIDE DEF G, T, n
    <3> QED BY <1>1, <1>5, <1>9, FoldWalk, Zenon
  <2> QED BY <2>1, Zenon DEF Walked
<1>11. h[0] = Nothing /\ \A k \in 1..n : h[k] = Apply(h[k - 1], events[k])
  <2>1. h[0] = Nothing /\ \A k \in 1..n : h[k] = G[k][h[k - 1]]
    BY <1>10, Zenon DEF Walks
  <2>2. \A k \in 1..n : h[k - 1] \in T
    <3>1. \A k \in 1..n : k - 1 \in 0..n
      BY <1>1
    <3> HIDE DEF T, G, n
    <3> QED BY <1>10, <3>1
  <2>3. \A k \in 1..n : \A a \in T : G[k][a] = Apply(a, events[k])
    <3> HIDE DEF T
    <3> QED OBVIOUS
  <2> HIDE DEF T, G
  <2> QED BY <2>1, <2>2, <2>3, Zenon
<1> HIDE DEF T, G
<1>12. RememberRule(h, events) /\ h \in [0..n -> T]
  BY <1>2, <1>10, <1>11 DEF RememberRule
<1> QED BY <1>12 DEF n, T

\* The memory after the first n commands of events.
After(events, n) == Remembered(SubSeq(events, 1, n))

\* The first n elements of a sequence.
LEMMA PrefixIs ==
  ASSUME NEW S, NEW s \in Seq(S), NEW n \in 0..Len(s)
  PROVE  /\ SubSeq(s, 1, n) \in Seq(S) /\ Len(SubSeq(s, 1, n)) = n
         /\ \A i \in 1..n : SubSeq(s, 1, n)[i] = s[i]
OBVIOUS

\* Two walks over the same commands agree.
LEMMA AfterWalk ==
  ASSUME NEW events \in Seq(UserEvents)
  PROVE  \E h \in [0..Len(events) -> Memories] :
           /\ h[0] = Nothing
           /\ \A k \in 1..Len(events) : h[k] = Apply(h[k - 1], events[k])
           /\ \A n \in 0..Len(events) : After(events, n) = h[n]
<1>1. PICK h \in [0..Len(events) -> Memories] : RememberRule(h, events)
  BY RememberSteps
<1>2. h[0] = Nothing /\ \A k \in 1..Len(events) : h[k] = Apply(h[k - 1], events[k])
  BY <1>1 DEF RememberRule
<1>3. ASSUME NEW n \in 0..Len(events) PROVE After(events, n) = h[n]
  <2>1. PICK s : s = SubSeq(events, 1, n)
    OBVIOUS
  <2>2. /\ s \in Seq(UserEvents) /\ Len(s) = n
        /\ \A i \in 1..n : s[i] = events[i]
    BY <2>1, PrefixIs
  <2>3. PICK g \in [0..n -> Memories] : RememberRule(g, s)
    BY <2>2, RememberSteps
  <2>4. g[0] = Nothing /\ Remembered(s) = g[n] /\ \A k \in 1..n : g[k] = Apply(g[k - 1], events[k])
    BY <2>2, <2>3 DEF RememberRule
  <2> DEFINE A == {k \in 0..n : g[k] = h[k]}
  <2>5. 0 \in A
    BY <1>2, <2>4
  <2>6. ASSUME NEW k \in 1..n, k - 1 \in A PROVE k \in A
    <3>1. k \in 1..Len(events) /\ k \in 0..n /\ g[k - 1] = h[k - 1]
      BY <2>6
    <3> QED BY <1>2, <2>4, <3>1
  <2>7. n \in Nat /\ n \in 0..n
    OBVIOUS
  <2>8. n \in A
    <3> HIDE DEF A
    <3> QED BY <2>5, <2>6, <2>7, RangeInduction
  <2> QED BY <2>1, <2>4, <2>8 DEF After
<1> QED BY <1>2, <1>3

\* The next command is applied to what the ones before it add up to.
LEMMA AfterNext ==
  ASSUME NEW events \in Seq(UserEvents)
  PROVE  /\ \A n \in 0..Len(events) : After(events, n) \in Memories
         /\ After(events, 0) = Nothing
         /\ \A n \in 0..Len(events) :
              n + 1 <= Len(events) => After(events, n + 1) = Apply(After(events, n), events[n + 1])
<1>1. PICK h \in [0..Len(events) -> Memories] :
           /\ h[0] = Nothing
           /\ \A k \in 1..Len(events) : h[k] = Apply(h[k - 1], events[k])
           /\ \A n \in 0..Len(events) : After(events, n) = h[n]
  BY AfterWalk
<1>2. Len(events) \in Nat /\ 0 \in 0..Len(events)
  OBVIOUS
<1>3. ASSUME NEW n \in 0..Len(events), n + 1 <= Len(events)
      PROVE  After(events, n + 1) = Apply(After(events, n), events[n + 1])
  <2>1. n + 1 \in 1..Len(events) /\ n + 1 \in 0..Len(events) /\ n + 1 - 1 = n
    BY <1>3
  <2>2. h[n + 1] = Apply(h[n], events[n + 1])
    BY <1>1, <2>1
  <2> QED BY <1>1, <2>1, <2>2
<1> QED BY <1>1, <1>2, <1>3

\* What is said later is not among the first n.
LEMMA AfterKeeps ==
  ASSUME NEW events \in Seq(UserEvents), NEW e \in UserEvents, NEW n \in 0..Len(events)
  PROVE  After(Append(events, e), n) = After(events, n)
<1>1. SubSeq(Append(events, e), 1, n) = SubSeq(events, 1, n)
  OBVIOUS
<1> QED BY <1>1 DEF After

\* Every event is of some session: a lone host extracts them all.
LEMMA AllSelected ==
  ASSUME NEW seq \in Seq(UserEvents)
  PROVE  Only(seq, UserEvents) = seq
<1>1. PICK h \in [0..Len(seq) -> Seq(UserEvents)] : OnlyRule(h, seq, UserEvents)
  BY OnlySteps
<1>2. /\ h[0] = <<>> /\ Only(seq, UserEvents) = h[Len(seq)]
      /\ \A k \in 1..Len(seq) : h[k] = Append(h[k - 1], seq[k])
  <2>1. \A k \in 1..Len(seq) : seq[k] \in UserEvents
    OBVIOUS
  <2> QED BY <1>1, <2>1 DEF OnlyRule
<1> DEFINE A == {k \in 0..Len(seq) : h[k] = SubSeq(seq, 1, k)}
<1>3. 0 \in A
  <2>1. SubSeq(seq, 1, 0) = <<>> /\ 0 \in 0..Len(seq)
    OBVIOUS
  <2> QED BY <1>2, <2>1
<1>4. ASSUME NEW k \in 1..Len(seq), k - 1 \in A PROVE k \in A
  <2>1. h[k] = Append(SubSeq(seq, 1, k - 1), seq[k])
    BY <1>2, <1>4
  <2>2. Append(SubSeq(seq, 1, k - 1), seq[k]) = SubSeq(seq, 1, k)
    OBVIOUS
  <2> QED BY <2>1, <2>2
<1>5. Len(seq) \in A
  <2>1. Len(seq) \in Nat /\ Len(seq) \in 0..Len(seq)
    OBVIOUS
  <2> HIDE DEF A
  <2> QED BY <1>3, <1>4, <2>1, RangeInduction
<1>6. SubSeq(seq, 1, Len(seq)) = seq
  OBVIOUS
<1> QED BY <1>2, <1>5, <1>6

-----------------------------------------------------------------------------
(* What a lone host keeps                                                  *)

Aside == {"idle", "raised"}
Closing == {"enqueue", "insert", "finalize"}

Now == [c \in Claims |-> Memory(c)]

\* The claim's current version, and a version that has the candidate's content.
AtVersion(c, version) == c \in DOMAIN current /\ current[c].version = version

Names(e, version) ==
  /\ <<ClaimOf(e), version>> \in DOMAIN versions
  /\ versions[<<ClaimOf(e), version>>].content = Content(e)

\* What a process has read is still so when it uses it.
Knows(row, e) ==
  /\ row.pc \in Acting => /\ CandidateInfo[e].tier = "activate"
                          /\ (Action(e) = "forget") <=> row.pc \in {"retract", "retire"}
  /\ row.pc = "write" => (row.existed <=> Keyed(ClaimOf(e)))
  /\ row.pc \in {"compare", "resolve"} => Action(e) = "memory" /\ AtVersion(ClaimOf(e), row.seen)
  /\ row.pc = "compare" => Identical(e)
  /\ row.pc \in {"supersede", "replace"} => Action(e) = "replace" /\ ClaimOf(e) \in DOMAIN current
  /\ row.pc = "replace" => AtVersion(ClaimOf(e), row.seen) /\ ~Identical(e)
  /\ row.pc = "retire" => InForce(e) /\ AtVersion(ClaimOf(e), row.seen)
  /\ row.pc \in Closing =>
       /\ row.outcome.decision \in Decisions \ {"processing"} /\ row.outcome.version \in Nat
       /\ row.outcome.decision \in Granted => Names(e, row.outcome.version)

Begun(i) == i \in 1..Len(said) /\ said[i] \in DOMAIN promotions

\* The first n commands have their decision; of the others the next one may be
\* in processing.
Progress(n) ==
  /\ n \in 0..Len(said)
  /\ \A i \in 1..n : Completed(said[i])
  /\ \A i \in (n + 1)..Len(said) : ~Completed(said[i])
  /\ \A i \in (n + 2)..Len(said) : said[i] \notin DOMAIN promotions

\* A pass goes through what was said when it began, in that order, and works on
\* the next command only.
Place(row, n) ==
  /\ row.pc \in Aside \cup {"next"} \cup Acting \cup Closing
  /\ row.pc \in Aside => row.batch = <<>>
  /\ row.pc \notin Aside =>
       /\ row.upto \in n..Len(said) /\ (Begun(n + 1) => n < row.upto)
       /\ \E m \in 0..n : row.batch = SubSeq(said, m + 1, row.upto) /\ (row.pc # "next" => m = n)
  /\ row.pc \notin Unoccupied => Begun(n + 1) /\ Knows(row, said[n + 1])

\* The memory is what the first n commands add up to, or already the next one.
Adds(row, n) ==
  budget["edit"] = 0 =>
    /\ Now = After(said, n) \/ (Begun(n + 1) /\ Now = After(said, n + 1))
    /\ row.pc \in Closing => Now = After(said, n + 1)

SoleAt(row, n) == Progress(n) /\ Place(row, n) /\ Adds(row, n)

ChatHolds ==
  /\ said \in Seq(UserEvents)
  /\ \A i, j \in 1..Len(said) : said[i] = said[j] => i = j

RowsTyped ==
  /\ DOMAIN promotions \subseteq SaidEvents
  /\ \A e \in DOMAIN promotions :
       /\ promotions[e].decision \in Decisions
       /\ promotions[e].version \in Nat
       /\ promotions[e].by \in Reviewers \cup {Null}
  /\ DOMAIN queue \subseteq DOMAIN promotions
  /\ \A e \in DOMAIN queue : queue[e] \in {"pending", "promoted", "rejected"}

\* A candidate that wrote a version is known, and until it has its decision that
\* version's content is the current one.
WritesHold ==
  /\ CandidateWritesOnce
  /\ \A e \in UserEvents : WrittenBy(e) # {} => e \in DOMAIN promotions
  /\ \A e \in DOMAIN promotions : ~Completed(e) /\ WrittenBy(e) # {} => Identical(e)
  /\ \A id \in DOMAIN ingest : id[1] = "memory-replace" /\ WrittenBy(id[2]) # {}

EditsHold ==
  /\ budget \in [{"crash", "guard", "edit"} -> Nat]
  /\ eventGov \in [UserEvents -> {"none", "active", "superseded"}]
  /\ budget["edit"] = 0 => \A e \in UserEvents : eventGov[e] # "superseded"

TablesHold ==
  /\ StoreHolds /\ ChatHolds /\ RowsTyped /\ ReceiptNamesItsVersion /\ WritesHold /\ EditsHold

-----------------------------------------------------------------------------
(* What a lone host does with its tables as they are                        *)

\* What the invariant says of the process, apart from its row.
Kept(h) ==
  /\ DOMAIN proc = Actors /\ DOMAIN proc[h] = RowFields
  /\ TablesHold
  /\ \E n \in 0..Len(said) : SoleAt(proc[h], n)

\* The host is the only process, and extracts every session.
LEMMA LoneActor ==
  ASSUME NEW h, Lone(h)
  PROVE  Actors = {h} /\ h \in Syncs /\ h \notin Reviewers /\ ScopeOf[h] = Null
BY DEF Lone, Actors

\* A pass at work has the first undecided command at hand.
LEMMA AtCandidate ==
  ASSUME NEW h, ChatHolds, NEW n \in 0..Len(said), SoleAt(proc[h], n), proc[h].pc \notin Unoccupied,
         NEW e, e = said[n + 1]
  PROVE  /\ Cand(h) = e /\ e \in UserEvents /\ n + 1 \in 1..Len(said) /\ n \in Nat
         /\ Begun(n + 1) /\ e \in DOMAIN promotions /\ ~Completed(e) /\ Knows(proc[h], e)
         /\ proc[h].pc \in Acting \cup Closing
         /\ proc[h].upto \in (n + 1)..Len(said) /\ proc[h].batch = SubSeq(said, n + 1, proc[h].upto)
         /\ Tail(proc[h].batch) = SubSeq(said, n + 2, proc[h].upto)
<1>1. Place(proc[h], n) /\ Progress(n)
  BY DEF SoleAt
<1>2. /\ Begun(n + 1) /\ Knows(proc[h], e) /\ proc[h].pc \in Acting \cup Closing
      /\ proc[h].upto \in n..Len(said) /\ n < proc[h].upto
      /\ proc[h].batch = SubSeq(said, n + 1, proc[h].upto)
  BY <1>1 DEF Place, Unoccupied, Aside
<1>3. n + 1 \in 1..Len(said) /\ e \in DOMAIN promotions /\ n \in Nat
  BY <1>2 DEF Begun
<1>4. ~Completed(e)
  BY <1>1, <1>3 DEF Progress
<1>5. said \in Seq(UserEvents)
  BY DEF ChatHolds
<1>6. PICK upto : upto = proc[h].upto
  OBVIOUS
<1>7. upto \in (n + 1)..Len(said)
  BY <1>2, <1>3, <1>6
<1>8. Head(SubSeq(said, n + 1, upto)) = said[n + 1]
  BY <1>3, <1>5, <1>7
<1>9. Tail(SubSeq(said, n + 1, upto)) = SubSeq(said, n + 2, upto)
  BY <1>3, <1>5, <1>7
<1> QED BY <1>2, <1>3, <1>4, <1>5, <1>6, <1>7, <1>8, <1>9 DEF Cand

\* The memory of the user, as a function.
LEMMA NowTyped ==
  ASSUME StoreHolds
  PROVE  Now \in Memories /\ \A c \in Claims : Now[c] = Memory(c)
<1>1. \A c \in DOMAIN current : /\ current[c].state \in {"active", "retired"}
                                /\ versions[<<c, current[c].version>>].content \in Contents
  BY DEF StoreHolds, CurrentHolds
<1> QED BY <1>1 DEF Now, Memories, Memory, NoMemory

\* Whether the next command was carried out or not, doing it leaves what it means.
LEMMA NextIsMeant ==
  ASSUME StoreHolds, ChatHolds, NEW n \in 0..Len(said), NEW row, Adds(row, n), n + 1 \in 1..Len(said),
         budget["edit"] = 0
  PROVE  After(said, n + 1) = Apply(Now, said[n + 1])
<1>1. said \in Seq(UserEvents) /\ n + 1 <= Len(said) /\ said[n + 1] \in UserEvents
  BY DEF ChatHolds
<1>2. /\ After(said, n) \in Memories
      /\ After(said, n + 1) = Apply(After(said, n), said[n + 1])
  BY <1>1, AfterNext
<1>3. CASE Now = After(said, n)
  BY <1>2, <1>3
<1>4. CASE Now = After(said, n + 1)
  BY <1>1, <1>2, <1>4, ApplyTwice
<1> QED BY <1>3, <1>4 DEF Adds

\* A command that finds nothing to do.
LEMMA QuietMemory ==
  ASSUME StoreHolds, NEW e \in UserEvents, NEW c, c = ClaimOf(e), Taught(Memory(c), e) = Memory(c)
  PROVE  Apply(Now, e) = Now
<1>1. c \in Claims /\ Now \in Memories /\ Now[c] = Memory(c)
  BY NowTyped, CandidateTyped
<1>2. PICK after : after = Apply(Now, e)
  OBVIOUS
<1>3. after \in Memories /\ after[c] = Taught(Now[c], e) /\ \A d \in Claims : d # c => after[d] = Now[d]
  BY <1>1, <1>2, ApplyIs
<1>4. \A d \in Claims : after[d] = Now[d]
  BY <1>1, <1>3
<1> QED BY <1>1, <1>2, <1>3, <1>4 DEF Memories

\* The process goes on with its candidate.
LEMMA WorkGoesOn ==
  ASSUME NEW h, ChatHolds, NEW n \in 0..Len(said), SoleAt(proc[h], n), proc[h].pc \notin Unoccupied,
         NEW row, row.batch = proc[h].batch, row.upto = proc[h].upto, row.pc \in Acting \cup Closing,
         Knows(row, said[n + 1]),
         row.pc \in Closing /\ budget["edit"] = 0 => Now = After(said, n + 1)
  PROVE  SoleAt(row, n)
<1>1. /\ Progress(n) /\ Place(proc[h], n) /\ Adds(proc[h], n)
  BY DEF SoleAt
<1>2. row.pc \notin Aside /\ row.pc \notin Unoccupied /\ proc[h].pc \notin Aside /\ row.pc # "next" /\ proc[h].pc # "next"
  BY DEF Aside, Acting, Closing, Unoccupied
<1>3. Place(row, n)
  BY <1>1, <1>2 DEF Place
<1>4. Adds(row, n)
  BY <1>1 DEF Adds
<1> QED BY <1>1, <1>3, <1>4 DEF SoleAt

\* Where it stops, or begins: what the row does not say does not matter.
LEMMA NoWork ==
  ASSUME NEW old, NEW n, SoleAt(old, n), NEW row, row.pc \in Unoccupied, Place(row, n)
  PROVE  SoleAt(row, n)
<1>1. row.pc \notin Closing
  BY DEF Unoccupied, Closing
<1> QED BY <1>1 DEF SoleAt, Adds

\* Where the process stands depends on tables that a reading step leaves alone.
LEMMA RowStays ==
  ASSUME NEW row, NEW n, SoleAt(row, n), UNCHANGED <<authorityVars, said, promotions>>,
         budget'["edit"] = budget["edit"]
  PROVE  SoleAt(row, n)'
<1>1. UNCHANGED <<versions, current, said, promotions>>
  BY DEF authorityVars, tables
<1>2. Progress(n)'
  BY <1>1 DEF SoleAt, Progress, Completed
<1>3. Begun(n + 1)' <=> Begun(n + 1)
  BY <1>1 DEF Begun
<1>4. \A e : Knows(row, e) => Knows(row, e)'
  BY <1>1 DEF Knows, AtVersion, Identical, InForce, Names, Keyed, ClaimOf, Content
<1>5. Place(row, n)'
  BY <1>1, <1>3, <1>4 DEF SoleAt, Place
<1>6. Now' = Now
  BY <1>1 DEF Now, Memory
<1>7. Adds(row, n)'
  BY <1>1, <1>3, <1>6 DEF SoleAt, Adds
<1> QED BY <1>2, <1>5, <1>7 DEF SoleAt

\* So does what the tables have to do with each other.
LEMMA TablesStay ==
  ASSUME TablesHold, UNCHANGED <<authorityVars, said, promotions, queue>>,
         budget' \in [{"crash", "guard", "edit"} -> Nat], budget'["edit"] = budget["edit"]
  PROVE  TablesHold'
<1>1. UNCHANGED <<versions, gov, current, receipts, ingest, eventGov, guards, said, promotions, queue>>
  BY DEF authorityVars, tables
<1>2. StoreHolds'
  BY <1>1 DEF TablesHold, StoreHolds, VersionsHold, CurrentHolds, LogHolds
<1>3. ChatHolds' /\ RowsTyped'
  BY <1>1 DEF TablesHold, ChatHolds, RowsTyped, SaidEvents
<1>4. ReceiptNamesItsVersion'
  BY <1>1 DEF TablesHold, ReceiptNamesItsVersion, ClaimOf, Content
<1>5. \A e : WrittenBy(e)' = WrittenBy(e) /\ (Completed(e)' <=> Completed(e)) /\ (Identical(e)' <=> Identical(e))
  BY <1>1 DEF WrittenBy, Completed, Identical, ClaimOf, Content
<1>6. WritesHold'
  BY <1>1, <1>5 DEF TablesHold, WritesHold, CandidateWritesOnce
<1>7. EditsHold'
  BY <1>1 DEF TablesHold, EditsHold
<1> QED BY <1>2, <1>3, <1>4, <1>6, <1>7 DEF TablesHold

\* A step that reads, and leaves the tables alone.
LEMMA ReadKeeps ==
  ASSUME NEW h, Lone(h), Kept(h), NEW n \in 0..Len(said), NEW row, SoleAt(row, n), DOMAIN row = RowFields,
         Become(h, row), UNCHANGED <<authorityVars, said, promotions, queue>>,
         UNCHANGED budget \/ Spend("crash", MaxCrashes)
  PROVE  Kept(h)'
<1>1. h \in Actors
  BY LoneActor
<1>2. DOMAIN proc' = Actors /\ proc'[h] = row
  BY <1>1 DEF Kept, Become
<1>3. budget' \in [{"crash", "guard", "edit"} -> Nat] /\ budget'["edit"] = budget["edit"]
  BY DEF Kept, TablesHold, EditsHold, Spend
<1>4. TablesHold'
  BY <1>3, TablesStay DEF Kept
<1>5. SoleAt(row, n)'
  BY <1>3, RowStays
<1>6. n \in 0..Len(said')
  OBVIOUS
<1>7. SoleAt(proc[h], n)'
  BY <1>2, <1>5
<1> QED BY <1>2, <1>4, <1>6, <1>7 DEF Kept

\* The process has come to an outcome, and finds the memory as it ought to be.
LEMMA ConcludesKeeping ==
  ASSUME NEW h, Lone(h), Kept(h), NEW n \in 0..Len(said), SoleAt(proc[h], n), proc[h].pc \notin Unoccupied,
         NEW e, e = said[n + 1], NEW outcome, NEW pc \in Closing,
         outcome.decision \in Decisions \ {"processing"}, outcome.version \in Nat,
         outcome.decision \in Granted => Names(e, outcome.version),
         budget["edit"] = 0 => \/ Taught(Memory(ClaimOf(e)), e) = Memory(ClaimOf(e))
                               \/ Now = After(said, n + 1),
         Become(h, [proc[h] EXCEPT !.pc = pc, !.outcome = outcome]),
         UNCHANGED <<authorityVars, said, promotions, queue, budget>>
  PROVE  Kept(h)'
<1>1. PICK row : row = [proc[h] EXCEPT !.pc = pc, !.outcome = outcome]
  OBVIOUS
<1>2. /\ DOMAIN row = RowFields /\ row.pc = pc /\ row.outcome = outcome
      /\ row.batch = proc[h].batch /\ row.upto = proc[h].upto
  BY <1>1 DEF Kept, RowFields
<1>3. ChatHolds /\ StoreHolds
  BY DEF Kept, TablesHold
<1>4. e \in UserEvents /\ n + 1 \in 1..Len(said)
  BY <1>3, AtCandidate
<1>5. Knows(row, e)
  BY <1>2 DEF Knows, Closing, Acting
<1>6. budget["edit"] = 0 => Now = After(said, n + 1)
  <2> SUFFICES ASSUME budget["edit"] = 0, Taught(Memory(ClaimOf(e)), e) = Memory(ClaimOf(e))
               PROVE  Now = After(said, n + 1)
    OBVIOUS
  <2>1. Adds(proc[h], n)
    BY DEF SoleAt
  <2>2. After(said, n + 1) = Apply(Now, e)
    BY <1>3, <1>4, <2>1, NextIsMeant
  <2>3. PICK c : c = ClaimOf(e)
    OBVIOUS
  <2>4. Apply(Now, e) = Now
    BY <1>3, <1>4, <2>3, QuietMemory
  <2> QED BY <2>2, <2>4
<1>7. SoleAt(row, n)
  BY <1>2, <1>3, <1>5, <1>6, WorkGoesOn
<1> QED BY <1>1, <1>2, <1>7, ReadKeeps

\* The process goes on with what it has found out.
LEMMA GoesOnKnowing ==
  ASSUME NEW h, Lone(h), Kept(h), NEW n \in 0..Len(said), SoleAt(proc[h], n), proc[h].pc \notin Unoccupied,
         NEW row, DOMAIN row = RowFields, row.batch = proc[h].batch, row.upto = proc[h].upto, row.pc \in Acting,
         Knows(row, said[n + 1]), Become(h, row),
         UNCHANGED <<authorityVars, said, promotions, queue, budget>>
  PROVE  Kept(h)'
<1>1. ChatHolds /\ row.pc \notin Closing
  BY DEF Kept, TablesHold, Acting, Closing
<1>2. SoleAt(row, n)
  BY <1>1, WorkGoesOn
<1> QED BY <1>2, ReadKeeps

\* The claim of a command that found its key taken.
LEMMA TakenMemory ==
  ASSUME StoreHolds, NEW c \in DOMAIN current
  PROVE  /\ Memory(c) = [state |-> current[c].state,
                         content |-> versions[<<c, current[c].version>>].content]
         /\ Memory(c).state = current[c].state /\ Memory(c).state # "none"
         /\ current[c].state \in {"active", "retired"} /\ current[c].version \in Nat \ {0}
         /\ <<c, current[c].version>> \in DOMAIN versions
BY DEF StoreHolds, CurrentHolds, Memory

\* Where a command finds nothing to do.
LEMMA LeftAlone ==
  ASSUME NEW e, NEW old,
         \/ CandidateInfo[e].tier # "activate"
         \/ old.state = "none" /\ Action(e) = "forget"
         \/ old.state # "none" /\ (old.state = "retired" \/ Action(e) = "memory")
         \/ /\ old.state = "active" /\ Action(e) = "replace"
            /\ old = [state |-> "active", content |-> Content(e)]
  PROVE  Taught(old, e) = old
BY DEF Taught

\* _activate looks for the key.
LEMMA IdentityIsKept ==
  ASSUME NEW h, Lone(h), Kept(h), Identity(h)
  PROVE  Kept(h)'
<1>1. PICK n \in 0..Len(said) : SoleAt(proc[h], n)
  BY DEF Kept
<1>2. PICK e : e = said[n + 1]
  OBVIOUS
<1>3. proc[h].pc = "identity" /\ proc[h].pc \notin Unoccupied /\ ChatHolds
  BY DEF Identity, At, Unoccupied, Kept, TablesHold
<1>4. Cand(h) = e /\ Knows(proc[h], e)
  BY <1>1, <1>2, <1>3, AtCandidate
<1>5. PICK row : row = [proc[h] EXCEPT !.pc = "write", !.existed = Keyed(ClaimOf(Cand(h)))]
  OBVIOUS
<1>6. /\ DOMAIN row = RowFields /\ row.pc = "write" /\ row.existed = Keyed(ClaimOf(e))
      /\ row.batch = proc[h].batch /\ row.upto = proc[h].upto
  BY <1>4, <1>5 DEF Kept, RowFields
<1>7. CandidateInfo[e].tier = "activate" /\ Action(e) # "forget"
  BY <1>3, <1>4 DEF Knows, Acting
<1>8. Knows(row, e)
  BY <1>6, <1>7 DEF Knows, Acting, Closing
<1>9. Become(h, row)
  BY <1>5 DEF Identity
<1>10. UNCHANGED <<authorityVars, said, promotions, queue, budget>> /\ row.pc \in Acting
  BY <1>6 DEF Identity, Acting
<1> QED BY <1>1, <1>2, <1>3, <1>6, <1>8, <1>9, <1>10, GoesOnKnowing

\* A repeated memory command finds its content.
LEMMA CompareIsKept ==
  ASSUME NEW h, Lone(h), Kept(h), Compare(h)
  PROVE  Kept(h)'
<1>1. PICK n \in 0..Len(said) : SoleAt(proc[h], n)
  BY DEF Kept
<1>2. PICK e : e = said[n + 1]
  OBVIOUS
<1>3. proc[h].pc = "compare" /\ proc[h].pc \notin Unoccupied /\ ChatHolds /\ StoreHolds
  BY DEF Compare, At, Unoccupied, Kept, TablesHold
<1>4. Cand(h) = e /\ Knows(proc[h], e)
  BY <1>1, <1>2, <1>3, AtCandidate
<1>5. Action(e) = "memory" /\ AtVersion(ClaimOf(e), proc[h].seen) /\ Identical(e)
  BY <1>3, <1>4 DEF Knows
<1>6. PICK outcome : outcome = Outcome("duplicate", "already_active_identical", proc[h].seen)
  OBVIOUS
<1>7. /\ Become(h, [proc[h] EXCEPT !.pc = "finalize", !.outcome = outcome])
      /\ UNCHANGED <<authorityVars, said, promotions, queue, budget>>
  BY <1>4, <1>5, <1>6 DEF Compare, Conclude
<1>8. PICK c : c = ClaimOf(e)
  OBVIOUS
<1>9. c \in DOMAIN current /\ current[c].version = proc[h].seen
  BY <1>5, <1>8 DEF AtVersion
<1>10. Taught(Memory(c), e) = Memory(c)
  <2>1. Memory(c).state # "none"
    BY <1>3, <1>9, TakenMemory
  <2> QED BY <1>5, <2>1, LeftAlone
<1>11. outcome.decision = "duplicate" /\ outcome.version = current[c].version
  BY <1>6, <1>9 DEF Outcome
<1>12. current[c].version \in Nat /\ <<c, current[c].version>> \in DOMAIN versions
  BY <1>3, <1>9, TakenMemory
<1>13. Names(e, outcome.version)
  BY <1>5, <1>8, <1>11, <1>12 DEF Names, Identical
<1>14. /\ outcome.decision \in Decisions \ {"processing"} /\ outcome.version \in Nat
       /\ "finalize" \in Closing
  BY <1>11, <1>12 DEF Decisions, Closing
<1> QED BY <1>1, <1>2, <1>3, <1>7, <1>8, <1>10, <1>13, <1>14, ConcludesKeeping

\* _resolve_existing_identity refuses, finds the content, or queues a conflict.
LEMMA ResolveIsKept ==
  ASSUME NEW h, Lone(h), Kept(h), Resolve(h)
  PROVE  Kept(h)'
<1>1. PICK n \in 0..Len(said) : SoleAt(proc[h], n)
  BY DEF Kept
<1>2. PICK e : e = said[n + 1]
  OBVIOUS
<1>3. proc[h].pc = "resolve" /\ proc[h].pc \notin Unoccupied /\ ChatHolds /\ StoreHolds
  BY DEF Resolve, At, Unoccupied, Kept, TablesHold
<1>4. Cand(h) = e /\ Knows(proc[h], e)
  BY <1>1, <1>2, <1>3, AtCandidate
<1>5. Action(e) = "memory" /\ AtVersion(ClaimOf(e), proc[h].seen)
  BY <1>3, <1>4 DEF Knows
<1>6. PICK c : c = ClaimOf(e)
  OBVIOUS
<1>7. c \in DOMAIN current /\ current[c].version = proc[h].seen
  BY <1>5, <1>6 DEF AtVersion
<1>8. Taught(Memory(c), e) = Memory(c)
  <2>1. Memory(c).state # "none"
    BY <1>3, <1>7, TakenMemory
  <2> QED BY <1>5, <2>1, LeftAlone
<1>9. current[c].version \in Nat /\ <<c, current[c].version>> \in DOMAIN versions
  BY <1>3, <1>7, TakenMemory
<1>10. UNCHANGED <<authorityVars, said, promotions, queue, budget>>
  BY DEF Resolve
<1>11. \E outcome : \E pc \in Closing :
         /\ Become(h, [proc[h] EXCEPT !.pc = pc, !.outcome = outcome])
         /\ outcome.decision \in Decisions \ {"processing"} /\ outcome.version \in Nat
         /\ outcome.decision \in Granted => Names(e, outcome.version)
  <2>1. CASE ~InForce(e)
    <3>1. PICK outcome : outcome = Rejected("canonical_identity_not_active")
      OBVIOUS
    <3>2. Become(h, [proc[h] EXCEPT !.pc = "finalize", !.outcome = outcome])
      BY <1>4, <2>1, <3>1 DEF Resolve, Conclude
    <3>3. outcome.decision = "rejected" /\ outcome.version = 0
      BY <3>1 DEF Rejected, Outcome
    <3>4. /\ "finalize" \in Closing /\ outcome.decision \in Decisions \ {"processing"}
          /\ outcome.version \in Nat /\ outcome.decision \notin Granted
      BY <3>3 DEF Closing, Decisions, Granted
    <3> QED BY <3>2, <3>4
  <2>2. CASE InForce(e) /\ Identical(e)
    <3>1. PICK outcome : outcome = Outcome("duplicate", "already_active_identical", proc[h].seen)
      OBVIOUS
    <3>2. Become(h, [proc[h] EXCEPT !.pc = "finalize", !.outcome = outcome])
      BY <1>4, <2>2, <3>1 DEF Resolve, Conclude
    <3>3. outcome.decision = "duplicate" /\ outcome.version = current[c].version
      BY <1>7, <3>1 DEF Outcome
    <3>4. Names(e, outcome.version)
      BY <1>6, <1>9, <2>2, <3>3 DEF Names, Identical
    <3> QED BY <1>9, <3>2, <3>3, <3>4 DEF Closing, Decisions
  <2>3. CASE InForce(e) /\ ~Identical(e)
    <3>1. PICK outcome : outcome = Outcome("conflict", "semantic_identity_conflict", proc[h].seen)
      OBVIOUS
    <3>2. Become(h, [proc[h] EXCEPT !.pc = "enqueue", !.outcome = outcome])
      BY <1>4, <1>5, <2>3, <3>1 DEF Resolve, Queue
    <3>3. outcome.decision = "conflict" /\ outcome.version = current[c].version
      BY <1>7, <3>1 DEF Outcome
    <3> QED BY <1>9, <3>2, <3>3 DEF Closing, Decisions, Granted
  <2> QED BY <2>1, <2>2, <2>3
<1> QED BY <1>1, <1>2, <1>3, <1>6, <1>8, <1>10, <1>11, ConcludesKeeping

\* _supersede finds the content already current, or reads the version to replace.
LEMMA SupersedeIsKept ==
  ASSUME NEW h, Lone(h), Kept(h), Supersede(h)
  PROVE  Kept(h)'
<1>1. PICK n \in 0..Len(said) : SoleAt(proc[h], n)
  BY DEF Kept
<1>2. PICK e : e = said[n + 1]
  OBVIOUS
<1>3. proc[h].pc = "supersede" /\ proc[h].pc \notin Unoccupied /\ ChatHolds /\ StoreHolds
  BY DEF Supersede, At, Unoccupied, Kept, TablesHold
<1>4. Cand(h) = e /\ Knows(proc[h], e)
  BY <1>1, <1>2, <1>3, AtCandidate
<1>5. PICK c : c = ClaimOf(e)
  OBVIOUS
<1>6. /\ Action(e) = "replace" /\ c \in DOMAIN current /\ CandidateInfo[e].tier = "activate"
  BY <1>3, <1>4, <1>5 DEF Knows, Acting
<1>7. PICK version : version = current[c].version
  OBVIOUS
<1>8. version \in Nat /\ <<c, version>> \in DOMAIN versions
  BY <1>3, <1>6, <1>7, TakenMemory
<1>9. UNCHANGED <<authorityVars, said, promotions, queue, budget>>
  BY DEF Supersede
<1>10. CASE Identical(e)
  <2>1. Taught(Memory(c), e) = Memory(c)
    <3>1. versions[<<c, current[c].version>>].content = Content(e)
      BY <1>5, <1>10 DEF Identical
    <3> QED BY <1>3, <1>6, <3>1, TakenMemory DEF Taught
  <2>2. PICK outcome :
           /\ Become(h, [proc[h] EXCEPT !.pc = "finalize", !.outcome = outcome])
           /\ \/ outcome = Outcome("superseded", "transition_allowed", version)
              \/ outcome = Outcome("activated", "already_active_identical", version)
    BY <1>4, <1>5, <1>7, <1>10 DEF Supersede, KnownContent, Conclude
  <2>3. outcome.decision \in Decisions \ {"processing"} /\ outcome.version = version /\ "finalize" \in Closing
    BY <2>2 DEF Outcome, Decisions, Closing
  <2>4. Names(e, outcome.version)
    BY <1>5, <1>7, <1>8, <1>10, <2>3 DEF Names, Identical
  <2> QED BY <1>1, <1>2, <1>3, <1>5, <1>8, <1>9, <2>1, <2>2, <2>3, <2>4, ConcludesKeeping
<1>11. CASE ~Identical(e)
  <2>1. PICK row : row = [proc[h] EXCEPT !.pc = "replace", !.seen = version]
    OBVIOUS
  <2>2. /\ DOMAIN row = RowFields /\ row.pc = "replace" /\ row.seen = version
        /\ row.batch = proc[h].batch /\ row.upto = proc[h].upto
    BY <2>1 DEF Kept, RowFields
  <2>3. Become(h, row)
    BY <1>4, <1>5, <1>7, <1>11, <2>1 DEF Supersede, KnownContent
  <2>4. Knows(row, e) /\ row.pc \in Acting
    BY <1>5, <1>6, <1>7, <1>11, <2>2 DEF Knows, Acting, Closing, AtVersion
  <2> QED BY <1>1, <1>2, <1>3, <1>9, <2>2, <2>3, <2>4, GoesOnKnowing
<1> QED BY <1>10, <1>11

\* _retract finds nothing in force, or reads the version to retire.
LEMMA RetractIsKept ==
  ASSUME NEW h, Lone(h), Kept(h), Retract(h)
  PROVE  Kept(h)'
<1>1. PICK n \in 0..Len(said) : SoleAt(proc[h], n)
  BY DEF Kept
<1>2. PICK e : e = said[n + 1]
  OBVIOUS
<1>3. proc[h].pc = "retract" /\ proc[h].pc \notin Unoccupied /\ ChatHolds /\ StoreHolds
  BY DEF Retract, At, Unoccupied, Kept, TablesHold
<1>4. Cand(h) = e /\ Knows(proc[h], e)
  BY <1>1, <1>2, <1>3, AtCandidate
<1>5. PICK c : c = ClaimOf(e)
  OBVIOUS
<1>6. /\ Action(e) = "forget" /\ CandidateInfo[e].tier = "activate"
  BY <1>3, <1>4, <1>5 DEF Knows, Acting
<1>7. UNCHANGED <<authorityVars, said, promotions, queue, budget>>
  BY DEF Retract
<1>8. CASE InForce(e)
  <2>1. PICK row : row = [proc[h] EXCEPT !.pc = "retire", !.seen = current[c].version]
    OBVIOUS
  <2>2. /\ DOMAIN row = RowFields /\ row.pc = "retire" /\ row.seen = current[c].version
        /\ row.batch = proc[h].batch /\ row.upto = proc[h].upto
    BY <2>1 DEF Kept, RowFields
  <2>3. Become(h, row)
    BY <1>4, <1>5, <1>8, <2>1 DEF Retract
  <2>4. Knows(row, e) /\ row.pc \in Acting
    BY <1>5, <1>6, <1>8, <2>2 DEF Knows, Acting, Closing, AtVersion, InForce
  <2> QED BY <1>1, <1>2, <1>3, <1>7, <2>2, <2>3, <2>4, GoesOnKnowing
<1>9. CASE ~InForce(e)
  <2>1. Taught(Memory(c), e) = Memory(c)
    <3>1. CASE c \notin DOMAIN current
      BY <1>6, <3>1 DEF Taught, Memory, NoMemory
    <3>2. CASE c \in DOMAIN current
      <4>1. current[c].state # "active"
        BY <1>5, <1>9, <3>2 DEF InForce
      <4>2. Memory(c).state = "retired"
        BY <1>3, <3>2, <4>1, TakenMemory
      <4> QED BY <4>2, LeftAlone
    <3> QED BY <3>1, <3>2
  <2>2. \E outcome :
           /\ Become(h, [proc[h] EXCEPT !.pc = "finalize", !.outcome = outcome])
           /\ outcome.decision \in {"retracted", "rejected"} /\ outcome.version \in Nat
    <3>1. CASE e \in DOMAIN receipts
      <4>1. PICK outcome : outcome = Outcome("retracted", "transition_allowed", receipts[e].version)
        OBVIOUS
      <4>2. Become(h, [proc[h] EXCEPT !.pc = "finalize", !.outcome = outcome])
        BY <1>4, <1>9, <3>1, <4>1 DEF Retract, Conclude
      <4>3. receipts[e].version \in Nat
        BY <1>3, <3>1 DEF StoreHolds
      <4>4. outcome.decision = "retracted" /\ outcome.version = receipts[e].version
        BY <4>1 DEF Outcome
      <4> QED BY <4>2, <4>3, <4>4
    <3>2. CASE e \notin DOMAIN receipts
      <4>1. PICK outcome : outcome = Rejected("canonical_identity_not_active")
        OBVIOUS
      <4>2. Become(h, [proc[h] EXCEPT !.pc = "finalize", !.outcome = outcome])
        BY <1>4, <1>9, <3>2, <4>1 DEF Retract, Conclude
      <4>3. outcome.decision \in {"retracted", "rejected"} /\ outcome.version \in Nat
        BY <4>1 DEF Outcome, Rejected
      <4> QED BY <4>2, <4>3
    <3> QED BY <3>1, <3>2
  <2>3. PICK outcome :
           /\ Become(h, [proc[h] EXCEPT !.pc = "finalize", !.outcome = outcome])
           /\ outcome.decision \in {"retracted", "rejected"} /\ outcome.version \in Nat
    BY <2>2
  <2>4. /\ outcome.decision \in Decisions \ {"processing"} /\ outcome.decision \notin Granted
        /\ "finalize" \in Closing
    BY <2>3 DEF Decisions, Closing, Granted
  <2> QED BY <1>1, <1>2, <1>3, <1>5, <1>7, <2>1, <2>3, <2>4, ConcludesKeeping
<1> QED BY <1>8, <1>9

\* enqueue_candidate looks for the record.
LEMMA LookIsKept ==
  ASSUME NEW h, Lone(h), Kept(h), Enqueue_Look(h)
  PROVE  Kept(h)'
<1>1. PICK n \in 0..Len(said) : SoleAt(proc[h], n)
  BY DEF Kept
<1>2. PICK e : e = said[n + 1]
  OBVIOUS
<1>3. proc[h].pc = "enqueue" /\ proc[h].pc \notin Unoccupied /\ ChatHolds /\ proc[h].pc \in Closing
  BY DEF Enqueue_Look, At, Unoccupied, Kept, TablesHold, Closing
<1>4. Knows(proc[h], e) /\ Adds(proc[h], n)
  BY <1>1, <1>2, <1>3, AtCandidate DEF SoleAt
<1>5. PICK pc \in Closing : Become(h, [proc[h] EXCEPT !.pc = pc])
  BY DEF Enqueue_Look, Goto, Closing
<1>6. [proc[h] EXCEPT !.pc = pc] = [proc[h] EXCEPT !.pc = pc, !.outcome = proc[h].outcome]
  BY DEF Kept, RowFields
<1>7. PICK outcome : outcome = proc[h].outcome
  OBVIOUS
<1>8. /\ outcome.decision \in Decisions \ {"processing"} /\ outcome.version \in Nat
      /\ outcome.decision \in Granted => Names(e, outcome.version)
  BY <1>3, <1>4, <1>7 DEF Knows
<1>9. budget["edit"] = 0 => Now = After(said, n + 1)
  BY <1>3, <1>4 DEF Adds
<1>10. UNCHANGED <<authorityVars, said, promotions, queue, budget>>
  BY DEF Enqueue_Look
<1>11. Become(h, [proc[h] EXCEPT !.pc = pc, !.outcome = outcome])
  BY <1>5, <1>6, <1>7
<1> QED BY <1>1, <1>2, <1>3, <1>8, <1>9, <1>10, <1>11, ConcludesKeeping

\* The pass ends early; the host will begin another.
LEMMA RestsKeeping ==
  ASSUME NEW h, Lone(h), Kept(h), Raise(h) \/ Become(h, Idle),
         UNCHANGED <<authorityVars, said, promotions, queue>>,
         UNCHANGED budget \/ Spend("crash", MaxCrashes)
  PROVE  Kept(h)'
<1>1. PICK n \in 0..Len(said) : SoleAt(proc[h], n)
  BY DEF Kept
<1>2. PICK row : Become(h, row) /\ (row = Idle \/ row = [Idle EXCEPT !.pc = "raised"])
  BY DEF Raise
<1>3. DOMAIN row = RowFields /\ row.pc \in Aside /\ row.batch = <<>>
  BY <1>2 DEF Idle, RowFields, Aside
<1>4. Place(row, n) /\ row.pc \in Unoccupied
  BY <1>3 DEF Place, Aside, Unoccupied
<1>5. SoleAt(row, n)
  BY <1>1, <1>4, NoWork
<1> QED BY <1>2, <1>3, <1>5, ReadKeeps

\* A pass goes on from the m-th command.
LEMMA GoesAlong ==
  ASSUME NEW h, Lone(h), Kept(h), NEW n \in 0..Len(said), SoleAt(proc[h], n),
         NEW m \in 0..n, NEW upto \in n..Len(said), Begun(n + 1) => n < upto,
         Become(h, [Idle EXCEPT !.pc = "next", !.batch = SubSeq(said, m + 1, upto), !.upto = upto]),
         UNCHANGED <<authorityVars, said, promotions, queue, budget>>
  PROVE  Kept(h)'
<1>1. PICK row : row = [Idle EXCEPT !.pc = "next", !.batch = SubSeq(said, m + 1, upto), !.upto = upto]
  OBVIOUS
<1>2. DOMAIN row = RowFields /\ row.pc = "next" /\ row.batch = SubSeq(said, m + 1, upto) /\ row.upto = upto
  BY <1>1 DEF Idle, RowFields
<1>3. Place(row, n) /\ row.pc \in Unoccupied
  BY <1>2 DEF Place, Aside, Unoccupied
<1>4. SoleAt(row, n)
  BY <1>3, NoWork
<1> QED BY <1>1, <1>2, <1>4, ReadKeeps

\* A pass begins with everything said so far.
LEMMA ExtractIsKept ==
  ASSUME NEW h, Lone(h), Kept(h), Extract(h)
  PROVE  Kept(h)'
<1>1. PICK n \in 0..Len(said) : SoleAt(proc[h], n)
  BY DEF Kept
<1>2. said \in Seq(UserEvents)
  BY DEF Kept, TablesHold, ChatHolds
<1>3. Window(ScopeOf[h]) = said
  <2>1. ScopeOf[h] = Null
    BY LoneActor
  <2>2. Scope(ScopeOf[h]) = UserEvents
    BY <2>1 DEF Scope
  <2> QED BY <1>2, <2>2, AllSelected DEF Window
<1>4. said = SubSeq(said, 0 + 1, Len(said)) /\ Len(said) \in n..Len(said) /\ 0 \in 0..n
  BY <1>2
<1>5. Begun(n + 1) => n < Len(said)
  BY DEF Begun
<1>6. /\ Become(h, [Idle EXCEPT !.pc = "next", !.batch = SubSeq(said, 0 + 1, Len(said)), !.upto = Len(said)])
      /\ UNCHANGED <<authorityVars, said, promotions, queue, budget>>
  BY <1>3, <1>4 DEF Extract
<1> QED BY <1>1, <1>4, <1>5, <1>6, GoesAlong

\* The receipt of a candidate is written.
LEMMA ReceiptKept ==
  ASSUME TablesHold, UNCHANGED <<authorityVars, said, queue, budget>>,
         NEW e \in SaidEvents, e \in UserEvents, NEW receipt, promotions' = Put(promotions, e, receipt),
         receipt.decision \in Decisions, receipt.version \in Nat, receipt.by \in Reviewers \cup {Null},
         receipt.decision \in Granted => Names(e, receipt.version),
         receipt.decision = "processing" => e \notin DOMAIN promotions
  PROVE  TablesHold'
<1>1. UNCHANGED <<versions, gov, current, receipts, ingest, eventGov, guards, said, queue, budget>>
  BY DEF authorityVars, tables
<1>2. /\ DOMAIN promotions' = DOMAIN promotions \cup {e} /\ promotions'[e] = receipt
      /\ \A f \in DOMAIN promotions : f # e => promotions'[f] = promotions[f]
  BY DEF Put
<1>3. StoreHolds'
  BY <1>1 DEF TablesHold, StoreHolds, VersionsHold, CurrentHolds, LogHolds
<1>4. ChatHolds' /\ EditsHold'
  BY <1>1 DEF TablesHold, ChatHolds, EditsHold
<1>5. RowsTyped'
  <2>1. SaidEvents' = SaidEvents
    BY <1>1 DEF SaidEvents
  <2>2. /\ DOMAIN promotions' \subseteq SaidEvents' /\ DOMAIN queue' \subseteq DOMAIN promotions'
        /\ \A f \in DOMAIN queue' : queue'[f] \in {"pending", "promoted", "rejected"}
    BY <1>1, <1>2, <2>1 DEF TablesHold, RowsTyped
  <2>3. ASSUME NEW f \in DOMAIN promotions'
        PROVE  /\ promotions'[f].decision \in Decisions
               /\ promotions'[f].version \in Nat
               /\ promotions'[f].by \in Reviewers \cup {Null}
    <3>1. CASE f = e
      BY <1>2, <3>1
    <3>2. CASE f # e
      BY <1>2, <3>2 DEF TablesHold, RowsTyped
    <3> QED BY <3>1, <3>2
  <2> QED BY <2>2, <2>3 DEF RowsTyped
<1>6. ReceiptNamesItsVersion'
  BY <1>1, <1>2 DEF TablesHold, ReceiptNamesItsVersion, Names, ClaimOf, Content
<1>7. \A f : WrittenBy(f)' = WrittenBy(f) /\ (Identical(f)' <=> Identical(f))
  BY <1>1 DEF WrittenBy, Identical, ClaimOf, Content
<1>8. WritesHold'
  <2>1. CandidateWritesOnce' /\ \A id \in DOMAIN ingest' : id[1] = "memory-replace" /\ WrittenBy(id[2])' # {}
    BY <1>1, <1>7 DEF TablesHold, WritesHold, CandidateWritesOnce
  <2>2. \A f \in UserEvents : WrittenBy(f)' # {} => f \in DOMAIN promotions'
    BY <1>2, <1>7 DEF TablesHold, WritesHold
  <2>3. ASSUME NEW f \in DOMAIN promotions', ~Completed(f)', WrittenBy(f)' # {}
        PROVE  Identical(f)'
    <3>1. CASE f = e
      <4>1. receipt.decision = "processing"
        BY <1>2, <2>3, <3>1 DEF Completed
      <4>2. WrittenBy(e) # {} /\ e \notin DOMAIN promotions
        BY <1>7, <2>3, <3>1, <4>1
      <4> QED BY <4>2 DEF TablesHold, WritesHold
    <3>2. CASE f # e
      <4>1. f \in DOMAIN promotions /\ ~Completed(f) /\ WrittenBy(f) # {}
        BY <1>2, <1>7, <2>3, <3>2 DEF Completed
      <4> QED BY <1>7, <4>1 DEF TablesHold, WritesHold
    <3> QED BY <3>1, <3>2
  <2> QED BY <2>1, <2>2, <2>3 DEF WritesHold
<1> QED BY <1>3, <1>4, <1>5, <1>6, <1>8 DEF TablesHold

\* What _promote_one makes of an undecided candidate.
LEMMA RouteIs ==
  ASSUME NEW row, DOMAIN row = RowFields, NEW e \in UserEvents, e = Head(row.batch)
  PROVE  /\ DOMAIN Route(row, FALSE) = RowFields
         /\ Route(row, FALSE).batch = row.batch /\ Route(row, FALSE).upto = row.upto
         /\ \/ /\ CandidateInfo[e].tier # "activate" /\ Route(row, FALSE).pc \in {"finalize", "enqueue"}
               /\ Route(row, FALSE).outcome.decision \in {"dropped", "pending"}
               /\ Route(row, FALSE).outcome.version = 0
            \/ /\ CandidateInfo[e].tier = "activate"
               /\ Route(row, FALSE).pc = IF Action(e) = "forget" THEN "retract" ELSE "identity"
<1>1. CandidateInfo[e].tier \in {"drop", "review", "activate"}
  BY CandidateTyped DEF Tiers
<1> DEFINE new == Route(row, FALSE)
<1>2. CASE CandidateInfo[e].tier = "drop"
  <2>1. new = [row EXCEPT !.pc = "finalize", !.outcome =
                 Outcome("dropped", "confidence_below_pending_threshold", 0)]
    BY <1>2 DEF Route
  <2>2. PICK outcome : outcome = Outcome("dropped", "confidence_below_pending_threshold", 0)
    OBVIOUS
  <2>3. outcome.decision \in {"dropped", "pending"} /\ outcome.version = 0
    BY <2>2 DEF Outcome
  <2>4. /\ DOMAIN new = RowFields /\ new.batch = row.batch /\ new.upto = row.upto
        /\ new.pc \in {"finalize", "enqueue"} /\ new.outcome = outcome
    BY <2>1, <2>2 DEF RowFields
  <2> QED BY <1>2, <2>3, <2>4
<1>3. CASE CandidateInfo[e].tier = "review"
  <2>1. new = [row EXCEPT !.pc = "enqueue", !.outcome = Outcome("pending", "queued_for_review", 0)]
    BY <1>3 DEF Route, HeldBack
  <2>2. PICK outcome : outcome = Outcome("pending", "queued_for_review", 0)
    OBVIOUS
  <2>3. outcome.decision \in {"dropped", "pending"} /\ outcome.version = 0
    BY <2>2 DEF Outcome
  <2>4. /\ DOMAIN new = RowFields /\ new.batch = row.batch /\ new.upto = row.upto
        /\ new.pc \in {"finalize", "enqueue"} /\ new.outcome = outcome
    BY <2>1, <2>2 DEF RowFields
  <2> QED BY <1>3, <2>3, <2>4
<1>4. CASE CandidateInfo[e].tier = "activate"
  <2>1. new = [row EXCEPT !.pc = IF Action(e) = "forget" THEN "retract" ELSE "identity"]
    BY <1>4 DEF Route, HeldBack
  <2> QED BY <1>4, <2>1 DEF RowFields
<1> QED BY <1>1, <1>2, <1>3, <1>4

\* A pass takes up the next command, if it has no decision yet.
LEMMA BeginIsKept ==
  ASSUME NEW h, Lone(h), Kept(h), Begin(h)
  PROVE  Kept(h)'
<1>1. PICK n \in 0..Len(said) : SoleAt(proc[h], n)
  BY DEF Kept
<1>2. proc[h].pc = "next" /\ proc[h].batch # <<>> /\ ChatHolds /\ StoreHolds /\ TablesHold
  BY DEF Begin, At, Kept, TablesHold
<1>3. Progress(n) /\ Place(proc[h], n) /\ Adds(proc[h], n)
  BY <1>1 DEF SoleAt
<1>4. PICK upto : upto = proc[h].upto
  OBVIOUS
<1>5. PICK m \in 0..n : proc[h].batch = SubSeq(said, m + 1, upto)
  BY <1>2, <1>3, <1>4 DEF Place, Aside
<1>6. upto \in n..Len(said) /\ (Begun(n + 1) => n < upto)
  BY <1>2, <1>3, <1>4 DEF Place, Aside
<1>7. said \in Seq(UserEvents) /\ n \in Nat /\ m \in Nat
  BY <1>2 DEF ChatHolds
<1>8. m < upto
  BY <1>2, <1>5, <1>6, <1>7
<1>9. PICK e : e = said[m + 1]
  OBVIOUS
<1>10. m + 1 \in 1..Len(said) /\ e \in UserEvents /\ m + 1 \in 1..upto
  BY <1>6, <1>7, <1>8, <1>9
<1>11. Head(proc[h].batch) = e /\ Tail(proc[h].batch) = SubSeq(said, m + 2, upto)
  BY <1>5, <1>6, <1>7, <1>8, <1>9
<1>12. Cand(h) = e
  BY <1>11 DEF Cand
<1>13. CASE Completed(e)
  <2>1. m + 1 \in 0..n
    <3>1. CASE m + 1 \in (n + 1)..Len(said)
      BY <1>3, <1>9, <1>13, <3>1 DEF Progress
    <3> QED BY <1>7, <1>10, <3>1
  <2>2. PICK k : k = m + 1
    OBVIOUS
  <2>3. k + 1 = m + 2
    BY <1>7, <2>2
  <2>4. Become(h, [Idle EXCEPT !.pc = "next", !.batch = SubSeq(said, k + 1, upto), !.upto = upto])
    BY <1>4, <1>11, <1>12, <1>13, <2>3 DEF Begin, Advance
  <2>5. UNCHANGED <<authorityVars, said, promotions, queue, budget>>
    BY <1>12, <1>13 DEF Begin
  <2> QED BY <1>1, <1>6, <2>1, <2>2, <2>4, <2>5, GoesAlong
<1>14. CASE ~Completed(e)
  <2>1. m = n
    <3>1. CASE m + 1 \in 1..n
      BY <1>3, <1>9, <1>14, <3>1 DEF Progress
    <3> QED BY <1>7, <3>1
  <2>2. PICK old : old = [proc[h] EXCEPT !.recovering = e \in DOMAIN promotions]
    OBVIOUS
  <2>3. DOMAIN old = RowFields /\ old.batch = proc[h].batch /\ old.upto = upto
    BY <1>4, <2>2 DEF Kept, RowFields
  <2>4. PICK row : row = Route(old, FALSE)
    OBVIOUS
  <2>5. /\ DOMAIN row = RowFields /\ row.batch = proc[h].batch /\ row.upto = upto
        /\ \/ /\ CandidateInfo[e].tier # "activate" /\ row.pc \in {"finalize", "enqueue"}
              /\ row.outcome.decision \in {"dropped", "pending"} /\ row.outcome.version = 0
           \/ /\ CandidateInfo[e].tier = "activate"
              /\ row.pc = IF Action(e) = "forget" THEN "retract" ELSE "identity"
    BY <1>10, <1>11, <2>3, <2>4, RouteIs
  <2>6. /\ Become(h, row)
        /\ promotions' = IF e \in DOMAIN promotions THEN promotions
                         ELSE Put(promotions, e, ReceiptOf(InProgress, Null))
        /\ UNCHANGED <<authorityVars, said, queue, budget>>
    BY <1>12, <1>14, <2>2, <2>4 DEF Begin
  <2>7. n < upto /\ n + 1 \in 1..Len(said) /\ e = said[n + 1]
    BY <1>8, <1>9, <1>10, <2>1
  <2>8. /\ e \in DOMAIN promotions' /\ DOMAIN promotions' = DOMAIN promotions \cup {e}
        /\ promotions'[e].decision = "processing"
        /\ \A f \in DOMAIN promotions : f # e => promotions'[f] = promotions[f]
    <3>1. CASE e \in DOMAIN promotions
      BY <1>14, <2>6, <3>1 DEF Completed
    <3>2. CASE e \notin DOMAIN promotions
      <4>1. ReceiptOf(InProgress, Null).decision = "processing"
        BY DEF ReceiptOf, InProgress, Outcome
      <4> QED BY <2>6, <3>2, <4>1 DEF Put
    <3> QED BY <3>1, <3>2
  <2>9. TablesHold'
    <3>1. CASE e \in DOMAIN promotions
      BY <1>2, <2>6, <3>1, TablesStay DEF TablesHold, EditsHold
    <3>2. CASE e \notin DOMAIN promotions
      <4>1. PICK receipt : receipt = ReceiptOf(InProgress, Null)
        OBVIOUS
      <4>2. receipt.decision = "processing" /\ receipt.version = 0 /\ receipt.by = Null
        BY <4>1 DEF ReceiptOf, InProgress, Outcome
      <4>3. e \in SaidEvents
        BY <1>7, <2>7 DEF SaidEvents
      <4>4. promotions' = Put(promotions, e, receipt)
        BY <2>6, <3>2, <4>1
      <4>5. receipt.decision \in Decisions /\ receipt.decision \notin Granted /\ receipt.version \in Nat
        BY <4>2 DEF Decisions, Granted
      <4> QED BY <1>2, <1>10, <2>6, <3>2, <4>2, <4>3, <4>4, <4>5, ReceiptKept
    <3> QED BY <3>1, <3>2
  <2>10. Progress(n)'
    <3>1. said' = said /\ n \in 0..Len(said')
      BY <2>6
    <3>2. \A i \in 1..Len(said) : i # n + 1 => said[i] # e
      BY <1>2, <2>7 DEF ChatHolds
    <3>3. \A i \in 1..Len(said) : Completed(said[i])' <=> Completed(said[i])
      <4> SUFFICES ASSUME NEW i \in 1..Len(said) PROVE Completed(said[i])' <=> Completed(said[i])
        OBVIOUS
      <4>1. CASE said[i] = e
        BY <1>14, <2>6, <2>8, <4>1 DEF Completed
      <4>2. CASE said[i] # e
        BY <2>6, <2>8, <4>2 DEF Completed
      <4> QED BY <4>1, <4>2
    <3>4. \A i \in 1..n : i \in 1..Len(said)
      BY <1>7
    <3>5. \A i \in (n + 1)..Len(said) : i \in 1..Len(said)
      BY <1>7
    <3>6. \A i \in (n + 2)..Len(said) : i \in 1..Len(said) /\ i # n + 1
      BY <1>7
    <3>7. \A i \in (n + 2)..Len(said) : said[i] \notin DOMAIN promotions'
      BY <1>3, <2>8, <3>2, <3>6 DEF Progress
    <3>8. (\A i \in 1..n : Completed(said[i])') /\ \A i \in (n + 1)..Len(said) : ~Completed(said[i])'
      BY <1>3, <3>3, <3>4, <3>5 DEF Progress
    <3> QED BY <3>1, <3>7, <3>8 DEF Progress
  <2>11. Begun(n + 1)'
    BY <2>6, <2>7, <2>8 DEF Begun
  <2>12. Knows(row, e)'
    <3>1. CASE CandidateInfo[e].tier # "activate"
      <4>1. row.pc \in {"finalize", "enqueue"} /\ row.pc \notin Acting
        BY <2>5, <3>1 DEF Acting
      <4>2. /\ row.outcome.decision \in Decisions \ {"processing"} /\ row.outcome.version \in Nat
            /\ row.outcome.decision \notin Granted
        BY <2>5, <3>1 DEF Decisions, Granted
      <4> QED BY <4>1, <4>2 DEF Knows
    <3>2. CASE CandidateInfo[e].tier = "activate"
      <4>1. row.pc = IF Action(e) = "forget" THEN "retract" ELSE "identity"
        BY <2>5, <3>2
      <4> QED BY <3>2, <4>1 DEF Knows, Closing
    <3> QED BY <3>1, <3>2
  <2>13. row.pc \in Acting \cup Closing
    BY <2>5 DEF Acting, Closing
  <2>14. Place(row, n)'
    <3>1. row.pc \notin Aside /\ row.pc # "next"
      BY <2>13 DEF Acting, Closing, Aside
    <3>2. row.batch = SubSeq(said', n + 1, upto) /\ upto \in n..Len(said') /\ n \in 0..n /\ said'[n + 1] = e
      BY <1>5, <1>6, <1>7, <2>1, <2>5, <2>6, <2>7
    <3>3. Knows(row, said[n + 1])'
      BY <2>12, <3>2
    <3> QED BY <2>5, <2>7, <2>11, <2>13, <3>1, <3>2, <3>3 DEF Place
  <2>15. Adds(row, n)'
    <3>1. Now' = Now /\ said' = said /\ budget' = budget
      BY <2>6 DEF Now, Memory, authorityVars, tables
    <3> SUFFICES ASSUME budget["edit"] = 0
                 PROVE  /\ Now = After(said, n) \/ Now = After(said, n + 1)
                        /\ row.pc \in Closing => Now = After(said, n + 1)
      BY <2>11, <3>1 DEF Adds
    <3>2. Now = After(said, n) \/ Now = After(said, n + 1)
      BY <1>3 DEF Adds
    <3>3. ASSUME row.pc \in Closing PROVE Now = After(said, n + 1)
      <4>1. CandidateInfo[e].tier # "activate"
        BY <2>5, <3>3 DEF Closing
      <4>2. PICK c : c = ClaimOf(e)
        OBVIOUS
      <4>3. Taught(Memory(c), e) = Memory(c)
        BY <4>1, LeftAlone
      <4>4. Apply(Now, e) = Now
        BY <1>2, <1>10, <4>2, <4>3, QuietMemory
      <4> QED BY <1>2, <1>3, <2>7, <4>4, NextIsMeant
    <3> QED BY <3>2, <3>3
  <2>16. h \in Actors /\ DOMAIN proc' = Actors /\ proc'[h] = row
    BY <2>6, LoneActor DEF Kept, Become
  <2>17. SoleAt(row, n)' /\ n \in 0..Len(said')
    BY <2>6, <2>10, <2>14, <2>15 DEF SoleAt
  <2>18. SoleAt(proc[h], n)'
    BY <2>16, <2>17
  <2> QED BY <2>5, <2>9, <2>16, <2>17, <2>18 DEF Kept
<1> QED BY <1>13, <1>14

\* A pass ends, is cut off, or is begun anew after a failure.
LEMMA FinishIsKept ==
  ASSUME NEW h, Lone(h), Kept(h), Finish(h) \/ Crash(h) \/ Recover(h)
  PROVE  Kept(h)'
BY RestsKeeping DEF Finish, Crash, Recover

\* The record of a candidate that waits for a review.
LEMMA QueueKept ==
  ASSUME TablesHold, UNCHANGED <<authorityVars, said, promotions, budget>>,
         NEW e \in DOMAIN promotions, queue' = Put(queue, e, "pending")
  PROVE  TablesHold'
<1>1. UNCHANGED <<versions, gov, current, receipts, ingest, eventGov, guards, said, promotions, budget>>
  BY DEF authorityVars, tables
<1>2. StoreHolds'
  BY <1>1 DEF TablesHold, StoreHolds, VersionsHold, CurrentHolds, LogHolds
<1>3. ChatHolds' /\ EditsHold'
  BY <1>1 DEF TablesHold, ChatHolds, EditsHold
<1>4. RowsTyped'
  <2>1. DOMAIN queue' = DOMAIN queue \cup {e} /\ \A f \in DOMAIN queue' : queue'[f] = IF f = e THEN "pending" ELSE queue[f]
    BY DEF Put
  <2> QED BY <1>1, <2>1 DEF TablesHold, RowsTyped, SaidEvents
<1>5. ReceiptNamesItsVersion'
  BY <1>1 DEF TablesHold, ReceiptNamesItsVersion, ClaimOf, Content
<1>6. \A e_1 : WrittenBy(e_1)' = WrittenBy(e_1) /\ (Completed(e_1)' <=> Completed(e_1)) /\ (Identical(e_1)' <=> Identical(e_1))
  BY <1>1 DEF WrittenBy, Completed, Identical, ClaimOf, Content
<1>7. WritesHold'
  BY <1>1, <1>6 DEF TablesHold, WritesHold, CandidateWritesOnce
<1> QED BY <1>2, <1>3, <1>4, <1>5, <1>7 DEF TablesHold

\* enqueue_candidate inserts the record.
LEMMA InsertIsKept ==
  ASSUME NEW h, Lone(h), Kept(h), Enqueue_Insert(h)
  PROVE  Kept(h)'
<1>1. PICK n \in 0..Len(said) : SoleAt(proc[h], n)
  BY DEF Kept
<1>2. PICK e : e = said[n + 1]
  OBVIOUS
<1>3. proc[h].pc = "insert" /\ proc[h].pc \notin Unoccupied /\ TablesHold /\ ChatHolds /\ proc[h].pc \in Closing
  BY DEF Enqueue_Insert, At, Unoccupied, Kept, TablesHold, Closing
<1>4. Cand(h) = e /\ Knows(proc[h], e) /\ e \in DOMAIN promotions
  BY <1>1, <1>2, <1>3, AtCandidate
<1>5. budget["edit"] = 0 => Now = After(said, n + 1)
  BY <1>1, <1>3 DEF SoleAt, Adds
<1>6. CASE Cand(h) \notin DOMAIN queue
  <2>1. PICK row : row = [proc[h] EXCEPT !.pc = "finalize"]
    OBVIOUS
  <2>2. /\ DOMAIN row = RowFields /\ row.pc = "finalize" /\ row.outcome = proc[h].outcome
        /\ row.batch = proc[h].batch /\ row.upto = proc[h].upto
    BY <2>1 DEF Kept, RowFields
  <2>3. /\ Become(h, row) /\ queue' = Put(queue, e, "pending")
        /\ UNCHANGED <<authorityVars, said, promotions, budget>>
    BY <1>4, <1>6, <2>1 DEF Enqueue_Insert, Goto
  <2>4. Knows(row, e) /\ row.pc \in Closing
    BY <1>3, <1>4, <2>2 DEF Knows, Closing, Acting
  <2>5. SoleAt(row, n)
    BY <1>1, <1>2, <1>3, <1>5, <2>2, <2>4, WorkGoesOn
  <2>6. SoleAt(row, n)'
    BY <2>3, <2>5, RowStays
  <2>7. TablesHold'
    BY <1>3, <1>4, <2>3, QueueKept
  <2>8. h \in Actors /\ DOMAIN proc' = Actors /\ proc'[h] = row
    BY <2>3, LoneActor DEF Kept, Become
  <2>9. SoleAt(proc[h], n)' /\ n \in 0..Len(said')
    BY <2>3, <2>6, <2>8
  <2> QED BY <2>2, <2>7, <2>8, <2>9 DEF Kept
<1>7. CASE Cand(h) \in DOMAIN queue
  <2>1. UNCHANGED <<authorityVars, said, promotions, queue, budget>>
    BY <1>7 DEF Enqueue_Insert
  <2>2. CASE proc[h].outcome.decision = "conflict"
    <3>1. PICK outcome : outcome = Outcome("error", "promotion_exception", 0)
      OBVIOUS
    <3>2. Become(h, [proc[h] EXCEPT !.pc = "finalize", !.outcome = outcome])
      BY <1>7, <2>2, <3>1 DEF Enqueue_Insert, Conclude
    <3>3. outcome.decision = "error" /\ outcome.version = 0
      BY <3>1 DEF Outcome
    <3>4. /\ "finalize" \in Closing /\ outcome.decision \in Decisions \ {"processing"}
          /\ outcome.version \in Nat /\ outcome.decision \notin Granted
      BY <3>3 DEF Closing, Decisions, Granted
    <3> QED BY <1>1, <1>2, <1>3, <1>5, <2>1, <3>2, <3>4, ConcludesKeeping
  <2>3. CASE proc[h].outcome.decision # "conflict"
    <3>1. Raise(h)
      BY <1>7, <2>3 DEF Enqueue_Insert
    <3> QED BY <2>1, <3>1, RestsKeeping
  <2> QED BY <2>2, <2>3
<1> QED BY <1>6, <1>7

\* The decision is written, and the pass goes on.
LEMMA FinalizeIsKept ==
  ASSUME NEW h, Lone(h), Kept(h), Finalize(h)
  PROVE  Kept(h)'
<1>1. PICK n \in 0..Len(said) : SoleAt(proc[h], n)
  BY DEF Kept
<1>2. PICK e : e = said[n + 1]
  OBVIOUS
<1>3. proc[h].pc = "finalize" /\ proc[h].pc \notin Unoccupied /\ TablesHold /\ ChatHolds /\ proc[h].pc \in Closing
  BY DEF Finalize, At, Unoccupied, Kept, TablesHold, Closing
<1>4. PICK upto : upto = proc[h].upto
  OBVIOUS
<1>5. /\ Cand(h) = e /\ Knows(proc[h], e) /\ e \in DOMAIN promotions /\ ~Completed(e) /\ e \in UserEvents
      /\ n + 1 \in 1..Len(said) /\ n \in Nat /\ upto \in (n + 1)..Len(said)
      /\ Tail(proc[h].batch) = SubSeq(said, n + 2, upto)
  BY <1>1, <1>2, <1>3, <1>4, AtCandidate
<1>6. Unfinished(e)
  BY <1>5 DEF Unfinished, Completed
<1>7. PICK receipt : receipt = ReceiptOf(Reported(h), Null)
  OBVIOUS
<1>8. /\ promotions' = Put(promotions, e, receipt) /\ Advance(h)
      /\ UNCHANGED <<authorityVars, said, queue, budget>>
  BY <1>5, <1>6, <1>7 DEF Finalize
<1>9. /\ receipt.decision \in Decisions \ {"processing"} /\ receipt.version \in Nat /\ receipt.by = Null
      /\ receipt.decision \in Granted => Names(e, receipt.version)
  <2>1. PICK o : o = proc[h].outcome
    OBVIOUS
  <2>2. /\ o.decision \in Decisions \ {"processing"} /\ o.version \in Nat
        /\ o.decision \in Granted => Names(e, o.version)
    BY <1>3, <1>5, <2>1 DEF Knows
  <2>3. PICK reported : reported = Reported(h)
    OBVIOUS
  <2>4. CASE reported = o
    BY <1>7, <2>2, <2>3, <2>4 DEF ReceiptOf
  <2>5. CASE o.decision = "duplicate" /\ reported = Outcome("activated", "write_allowed", o.version)
    <3>1. receipt.decision = "activated" /\ receipt.version = o.version /\ receipt.by = Null
      BY <1>7, <2>3, <2>5 DEF ReceiptOf, Outcome
    <3> QED BY <2>2, <2>5, <3>1 DEF Decisions, Granted
  <2> QED BY <2>1, <2>3, <2>4, <2>5 DEF Reported
<1>10. e \in SaidEvents
  BY <1>2, <1>3, <1>5 DEF SaidEvents, ChatHolds
<1>11. TablesHold'
  BY <1>3, <1>5, <1>8, <1>9, <1>10, ReceiptKept
<1>12. /\ DOMAIN promotions' = DOMAIN promotions \cup {e} /\ promotions'[e] = receipt
       /\ \A f \in DOMAIN promotions : f # e => promotions'[f] = promotions[f]
  BY <1>8 DEF Put
<1>13. PICK k : k = n + 1
  OBVIOUS
<1>14. k \in Nat /\ k \in 0..Len(said) /\ k + 1 = n + 2 /\ said' = said
  BY <1>5, <1>8, <1>13
<1>15. Progress(n)
  BY <1>1 DEF SoleAt
<1>16. \A i \in 1..Len(said) : i # k => said[i] # e
  BY <1>2, <1>3, <1>5, <1>13 DEF ChatHolds
<1>17. \A i \in 1..Len(said) : i # k => /\ Completed(said[i])' <=> Completed(said[i])
                                        /\ said[i] \in DOMAIN promotions' <=> said[i] \in DOMAIN promotions
  BY <1>8, <1>12, <1>16 DEF Completed
<1>18. Completed(e)'
  BY <1>9, <1>12 DEF Completed
<1>19. \A i \in (k + 1)..Len(said) : i \in (n + 2)..Len(said) /\ i \in (n + 1)..Len(said) /\ i \in 1..Len(said) /\ i # k
  BY <1>5, <1>13
<1>20. Progress(k)'
  <2>1. \A i \in 1..k : Completed(said[i])'
    <3>1. \A i \in 1..k : i \in 1..Len(said) /\ (i = k \/ i \in 1..n)
      BY <1>5, <1>13
    <3>2. \A i \in 1..n : Completed(said[i])
      BY <1>15 DEF Progress
    <3>3. ASSUME NEW i \in 1..k PROVE Completed(said[i])'
      <4>1. CASE i = k
        BY <1>2, <1>13, <1>14, <1>18, <4>1
      <4>2. CASE i # k
        BY <1>17, <3>1, <3>2, <4>2
      <4> QED BY <4>1, <4>2
    <3> QED BY <3>3
  <2>2. \A i \in (k + 1)..Len(said) : ~Completed(said[i])'
    BY <1>15, <1>17, <1>19 DEF Progress
  <2>3. \A i \in (k + 2)..Len(said) : said[i] \notin DOMAIN promotions'
    <3>1. \A i \in (k + 2)..Len(said) : i \in (k + 1)..Len(said)
      BY <1>14
    <3> QED BY <1>15, <1>17, <1>19, <3>1 DEF Progress
  <2> QED BY <1>14, <2>1, <2>2, <2>3 DEF Progress
<1>21. ~Begun(k + 1)'
  <2>1. CASE k + 1 \in 1..Len(said)
    <3>1. k + 1 \in (k + 1)..Len(said)
      BY <1>14, <2>1
    <3>2. said[k + 1] \notin DOMAIN promotions'
      BY <1>15, <1>17, <1>19, <3>1 DEF Progress
    <3> QED BY <1>14, <3>2 DEF Begun
  <2>2. CASE k + 1 \notin 1..Len(said)
    BY <1>14, <2>2 DEF Begun
  <2> QED BY <2>1, <2>2
<1>22. PICK row : row = [Idle EXCEPT !.pc = "next", !.batch = SubSeq(said, k + 1, upto), !.upto = upto]
  OBVIOUS
<1>23. Become(h, row)
  BY <1>4, <1>5, <1>8, <1>14, <1>22 DEF Advance
<1>24. DOMAIN row = RowFields /\ row.pc = "next" /\ row.batch = SubSeq(said, k + 1, upto) /\ row.upto = upto
  BY <1>22 DEF Idle, RowFields
<1>25. Place(row, k)'
  <2>1. upto \in k..Len(said') /\ k \in 0..k /\ row.batch = SubSeq(said', k + 1, upto)
    BY <1>5, <1>13, <1>14, <1>24
  <2> QED BY <1>21, <1>24, <2>1 DEF Place, Aside, Unoccupied
<1>26. Adds(row, k)'
  <2>1. Now' = Now /\ said' = said /\ budget' = budget
    BY <1>8 DEF Now, Memory, authorityVars, tables
  <2>2. budget["edit"] = 0 => Now = After(said, k)
    BY <1>1, <1>3, <1>13 DEF SoleAt, Adds
  <2>3. row.pc \notin Closing
    BY <1>24 DEF Closing
  <2> QED BY <2>1, <2>2, <2>3 DEF Adds
<1>27. h \in Actors /\ DOMAIN proc' = Actors /\ proc'[h] = row
  BY <1>23, LoneActor DEF Kept, Become
<1>28. SoleAt(row, k)' /\ k \in 0..Len(said')
  BY <1>14, <1>20, <1>25, <1>26 DEF SoleAt
<1>29. SoleAt(proc[h], k)'
  BY <1>27, <1>28
<1> QED BY <1>11, <1>24, <1>27, <1>28, <1>29 DEF Kept

\* The chat goes on while the pass works.
LEMMA ChatGrows ==
  ASSUME NEW h, Lone(h), Kept(h), NEW e \in UserEvents, e \notin SaidEvents, said' = Append(said, e),
         UNCHANGED <<versions, gov, current, receipts, ingest, guards, promotions, queue, proc>>,
         EditsHold', budget'["edit"] = 0 => budget["edit"] = 0
  PROVE  Kept(h)'
<1>1. PICK n \in 0..Len(said) : SoleAt(proc[h], n)
  BY DEF Kept
<1>2. TablesHold /\ said \in Seq(UserEvents)
  BY DEF Kept, TablesHold, ChatHolds
<1>3. PICK len : len = Len(said)
  OBVIOUS
<1>4. /\ len \in Nat /\ said' \in Seq(UserEvents) /\ Len(said') = len + 1 /\ said'[len + 1] = e
      /\ \A i \in 1..len : said'[i] = said[i]
  BY <1>2, <1>3
<1>5. \A i \in 1..len : said[i] # e
  BY <1>2, <1>3 DEF SaidEvents
<1>6. ChatHolds'
  <2>1. ASSUME NEW i \in 1..(len + 1), NEW j \in 1..(len + 1), said'[i] = said'[j] PROVE i = j
    <3>1. (i = len + 1 \/ i \in 1..len) /\ (j = len + 1 \/ j \in 1..len)
      BY <1>4
    <3> QED BY <1>2, <1>3, <1>4, <1>5, <2>1, <3>1 DEF TablesHold, ChatHolds
  <2> QED BY <1>4, <2>1 DEF ChatHolds
<1>7. StoreHolds'
  BY <1>2 DEF TablesHold, StoreHolds, VersionsHold, CurrentHolds, LogHolds
<1>8. RowsTyped'
  <2>1. SaidEvents \subseteq SaidEvents'
    <3>1. DOMAIN said = 1..len /\ DOMAIN said' = 1..(len + 1)
      BY <1>2, <1>3, <1>4
    <3> QED BY <1>4, <3>1 DEF SaidEvents
  <2> QED BY <1>2, <2>1 DEF TablesHold, RowsTyped
<1>9. ReceiptNamesItsVersion'
  BY <1>2 DEF TablesHold, ReceiptNamesItsVersion, ClaimOf, Content
<1>10. \A f : WrittenBy(f)' = WrittenBy(f) /\ (Completed(f)' <=> Completed(f)) /\ (Identical(f)' <=> Identical(f))
  BY DEF WrittenBy, Completed, Identical, ClaimOf, Content
<1>11. WritesHold'
  BY <1>2, <1>10 DEF TablesHold, WritesHold, CandidateWritesOnce
<1>12. TablesHold'
  BY <1>6, <1>7, <1>8, <1>9, <1>11 DEF TablesHold
<1>13. PICK row : row = proc[h]
  OBVIOUS
<1>14. Progress(n) /\ Place(row, n) /\ Adds(row, n)
  BY <1>1, <1>13 DEF SoleAt
<1>15. e \notin DOMAIN promotions /\ ~Completed(e)
  BY <1>2 DEF TablesHold, RowsTyped, Completed
<1>16. n \in Nat /\ n <= len /\ n \in 0..(len + 1)
  BY <1>3, <1>4
<1>17. Progress(n)'
  <2>1. \A i \in 1..n : i \in 1..len
    BY <1>4, <1>16
  <2>2. \A i \in (n + 1)..(len + 1) : i = len + 1 \/ (i \in (n + 1)..len /\ i \in 1..len)
    BY <1>4, <1>16
  <2>3. \A i \in (n + 2)..(len + 1) : i = len + 1 \/ (i \in (n + 2)..len /\ i \in 1..len)
    BY <1>4, <1>16
  <2>4. \A i \in 1..n : Completed(said'[i])
    BY <1>3, <1>4, <1>14, <2>1 DEF Progress
  <2>5. \A i \in (n + 1)..(len + 1) : ~Completed(said'[i])
    BY <1>3, <1>4, <1>14, <1>15, <2>2 DEF Progress
  <2>6. \A i \in (n + 2)..(len + 1) : said'[i] \notin DOMAIN promotions
    BY <1>3, <1>4, <1>14, <1>15, <2>3 DEF Progress
  <2>7. \A f : Completed(f)' <=> Completed(f)
    BY DEF Completed
  <2> QED BY <1>4, <1>16, <2>4, <2>5, <2>6, <2>7 DEF Progress, Completed
<1>18. Begun(n + 1)' <=> Begun(n + 1)
  <2>1. CASE n + 1 \in 1..len
    <3>1. n + 1 \in 1..(len + 1)
      BY <1>4, <1>16, <2>1
    <3> QED BY <1>3, <1>4, <2>1, <3>1 DEF Begun
  <2>2. CASE n + 1 \notin 1..len
    <3>1. n + 1 = len + 1
      BY <1>4, <1>16, <2>2
    <3> QED BY <1>3, <1>4, <1>15, <2>2, <3>1 DEF Begun
  <2> QED BY <2>1, <2>2
<1>19. Begun(n + 1) => n + 1 \in 1..len /\ said'[n + 1] = said[n + 1]
  BY <1>3, <1>4 DEF Begun
<1>20. \A f : Knows(row, f) => Knows(row, f)'
  BY DEF Knows, AtVersion, Identical, InForce, Names, Keyed, ClaimOf, Content
<1>21. \A m \in 0..n : \A upto \in n..len : SubSeq(said', m + 1, upto) = SubSeq(said, m + 1, upto)
  BY <1>2, <1>3, <1>16
<1>22. \A upto \in n..len : upto \in n..(len + 1)
  BY <1>4, <1>16
<1>23. Place(row, n)'
  BY <1>3, <1>4, <1>14, <1>18, <1>19, <1>20, <1>21, <1>22 DEF Place
<1>24. Adds(row, n)'
  <2>1. Now' = Now
    BY DEF Now, Memory
  <2>2. After(said', n) = After(said, n)
    BY <1>2, <1>3, AfterKeeps
  <2>3. Begun(n + 1) => After(said', n + 1) = After(said, n + 1)
    <3>1. n + 1 \in 1..len => n + 1 \in 0..Len(said)
      BY <1>3, <1>16
    <3> QED BY <1>2, <1>19, <3>1, AfterKeeps
  <2>4. row.pc \in Closing => Begun(n + 1)
    BY <1>14 DEF Place, Closing, Unoccupied
  <2> QED BY <1>14, <1>18, <2>1, <2>2, <2>3, <2>4 DEF Adds
<1>25. SoleAt(row, n)' /\ n \in 0..Len(said')
  BY <1>4, <1>16, <1>17, <1>23, <1>24 DEF SoleAt
<1>26. proc'[h] = row
  BY <1>13
<1>27. SoleAt(proc[h], n)'
  BY <1>25, <1>26
<1> QED BY <1>12, <1>25, <1>27 DEF Kept

\* The user says or edits something while a pass is under way.
LEMMA ChatIsKept ==
  ASSUME NEW h, Lone(h), Kept(h), NEW e \in UserEvents,
         Say(e) \/ \E f \in UserEvents : Edit(f, e)
  PROVE  Kept(h)'
<1>1. EditsHold
  BY DEF Kept, TablesHold
<1>2. CASE Say(e)
  <2>1. UNCHANGED <<versions, gov, current, receipts, ingest, eventGov, guards, promotions, queue, proc, budget>>
    BY <1>2 DEF Say, authorityVars, tables
  <2>2. EditsHold'
    BY <1>1, <2>1 DEF EditsHold
  <2> QED BY <1>2, <2>1, <2>2, ChatGrows DEF Say
<1>3. ASSUME NEW f \in UserEvents, Edit(f, e) PROVE Kept(h)'
  <2>1. /\ UNCHANGED <<versions, gov, current, receipts, ingest, guards, promotions, queue, proc>>
        /\ eventGov' = [eventGov EXCEPT ![f] = "superseded"]
        /\ budget' = [budget EXCEPT !["edit"] = @ + 1]
    BY <1>3 DEF Edit, SyncEvent, Spend
  <2>2. budget'["edit"] \in Nat /\ budget'["edit"] # 0 /\ budget' \in [{"crash", "guard", "edit"} -> Nat]
    BY <1>1, <2>1 DEF EditsHold
  <2>3. EditsHold'
    BY <1>1, <2>1, <2>2 DEF EditsHold
  <2> QED BY <1>3, <2>1, <2>2, <2>3, ChatGrows DEF Edit
<1> QED BY <1>2, <1>3

-----------------------------------------------------------------------------
(* What a lone host writes                                                  *)

\* A public candidate is admitted on its own evidence.
LEMMA Admitted ==
  ASSUME NEW e, NEW level \in Sensitivities, level # "secret"
  PROVE  WriteVerdict("event_derived", level, <<e>>, <<[ref |-> e, sensitivity |-> level]>>) = "write_allowed"
<1> DEFINE snapshots == <<[ref |-> e, sensitivity |-> level]>>
<1>1. /\ DOMAIN snapshots = {1} /\ DOMAIN <<e>> = {1} /\ snapshots[1].sensitivity = level
      /\ snapshots[1].ref = e /\ Len(snapshots) = 1 /\ Len(<<e>>) = 1 /\ snapshots # <<>> /\ <<e>> # <<>>
  OBVIOUS
<1>2. {snapshots[i].sensitivity : i \in DOMAIN snapshots} = {level}
  BY <1>1
<1>3. {snapshots[i].ref : i \in DOMAIN snapshots} = {<<e>>[i] : i \in DOMAIN <<e>>}
  BY <1>1
<1>4. \A i, j \in DOMAIN <<e>> : <<e>>[i] = <<e>>[j] => i = j
  BY <1>1
<1>5. PICK levels : levels = {level}
  OBVIOUS
<1>6. Effective(levels, level) = level
  BY <1>5, EffectiveIsStrictest
<1>7. ~(Rank(level) < Rank(level))
  BY DEF Rank, Sensitivities
<1> HIDE DEF snapshots
<1>8. /\ ~(Rank(level) < Rank(Effective({snapshots[i].sensitivity : i \in DOMAIN snapshots}, level)))
      /\ Len(<<e>>) = Len(snapshots)
  BY <1>1, <1>2, <1>5, <1>6, <1>7
<1>9. WriteVerdict("event_derived", level, <<e>>, snapshots) = "write_allowed"
  BY <1>1, <1>3, <1>4, <1>8 DEF WriteVerdict
<1> QED BY <1>9 DEF snapshots

\* The memory becomes what the command means.
LEMMA MemoryChanges ==
  ASSUME StoreHolds, StoreHolds', NEW e \in UserEvents, NEW c, c = ClaimOf(e),
         Memory(c)' = Taught(Memory(c), e),
         \A d \in DOMAIN current' \cup DOMAIN current : d # c => d \in DOMAIN current /\ d \in DOMAIN current' /\ current'[d] = current[d],
         \A k \in DOMAIN versions : versions'[k] = versions[k]
  PROVE  Now' = Apply(Now, e)
<1>1. c \in Claims /\ Now \in Memories /\ \A d \in Claims : Now[d] = Memory(d)
  BY NowTyped, CandidateTyped
<1>2. PICK after : after = Apply(Now, e)
  OBVIOUS
<1>3. after \in Memories /\ after[c] = Taught(Now[c], e) /\ \A d \in Claims : d # c => after[d] = Now[d]
  BY <1>1, <1>2, ApplyIs
<1>4. ASSUME NEW d \in Claims, d # c PROVE Memory(d)' = Memory(d)
  <2>1. CASE d \in DOMAIN current
    <3>1. d \in DOMAIN current' /\ current'[d] = current[d]
      BY <1>4, <2>1
    <3>2. <<d, current[d].version>> \in DOMAIN versions
      BY <2>1 DEF StoreHolds, CurrentHolds
    <3>3. versions'[<<d, current[d].version>>] = versions[<<d, current[d].version>>]
      BY <3>2
    <3> QED BY <2>1, <3>1, <3>3 DEF Memory
  <2>2. CASE d \notin DOMAIN current
    <3>1. d \notin DOMAIN current'
      BY <1>4, <2>2
    <3> QED BY <2>2, <3>1 DEF Memory
  <2> QED BY <2>1, <2>2
<1>5. \A d \in Claims : Memory(d)' = after[d]
  <2>1. ASSUME NEW d \in Claims PROVE Memory(d)' = after[d]
    <3>1. CASE d = c
      BY <1>1, <1>3, <3>1
    <3>2. CASE d # c
      BY <1>1, <1>3, <1>4, <3>2
    <3> QED BY <3>1, <3>2
  <2> QED BY <2>1
<1>6. Now' = [d \in Claims |-> Memory(d)']
  BY DEF Now
<1>7. after = [d \in Claims |-> after[d]]
  BY <1>3 DEF Memories
<1> QED BY <1>2, <1>5, <1>6, <1>7

\* The place of a row when the process comes to its outcome by changing the tables.
LEMMA ConcludesChanging ==
  ASSUME NEW h, Lone(h), Kept(h), NEW n \in 0..Len(said), SoleAt(proc[h], n), proc[h].pc \notin Unoccupied,
         NEW e, e = said[n + 1], NEW outcome, Conclude(h, outcome),
         outcome.decision \in Decisions \ {"processing"}, outcome.version \in Nat,
         outcome.decision \in Granted => Names(e, outcome.version)',
         UNCHANGED <<said, promotions, budget>>, TablesHold',
         budget["edit"] = 0 => Now' = Apply(Now, e)
  PROVE  Kept(h)'
<1>1. PICK row : row = [proc[h] EXCEPT !.pc = "finalize", !.outcome = outcome]
  OBVIOUS
<1>2. /\ DOMAIN row = RowFields /\ row.pc = "finalize" /\ row.outcome = outcome
      /\ row.batch = proc[h].batch /\ row.upto = proc[h].upto /\ Become(h, row)
  BY <1>1 DEF Kept, RowFields, Conclude
<1>3. ChatHolds /\ StoreHolds
  BY DEF Kept, TablesHold
<1>4. /\ n + 1 \in 1..Len(said) /\ Begun(n + 1) /\ proc[h].upto \in (n + 1)..Len(said) /\ n \in Nat
      /\ proc[h].batch = SubSeq(said, n + 1, proc[h].upto)
  BY <1>3, AtCandidate
<1>5. Progress(n) /\ Adds(proc[h], n)
  BY DEF SoleAt
<1>6. Progress(n)'
  BY <1>5 DEF Progress, Completed
<1>7. Begun(n + 1)'
  BY <1>4 DEF Begun
<1>8. Knows(row, e)'
  BY <1>2 DEF Knows, Closing, Acting
<1>9. Place(row, n)'
  <2>1. PICK upto : upto = row.upto
    OBVIOUS
  <2>2. /\ upto \in n..Len(said') /\ n < upto /\ n \in 0..n /\ row.batch = SubSeq(said', n + 1, upto)
        /\ said'[n + 1] = e
    BY <1>2, <1>4, <2>1
  <2>3. row.pc \in Closing /\ row.pc \notin Aside /\ row.pc # "next"
    BY <1>2 DEF Closing, Aside
  <2> QED BY <1>7, <1>8, <2>1, <2>2, <2>3 DEF Place
<1>10. Adds(row, n)'
  <2> SUFFICES ASSUME budget["edit"] = 0 PROVE Now' = After(said, n + 1)
    BY <1>7 DEF Adds
  <2> QED BY <1>3, <1>4, <1>5, NextIsMeant
<1>11. h \in Actors /\ DOMAIN proc' = Actors /\ proc'[h] = row
  BY <1>2, LoneActor DEF Kept, Become
<1>12. SoleAt(row, n)' /\ n \in 0..Len(said')
  BY <1>6, <1>9, <1>10 DEF SoleAt
<1>13. SoleAt(proc[h], n)'
  BY <1>11, <1>12
<1> QED BY <1>2, <1>11, <1>12, <1>13 DEF Kept

\* A candidate that has written nothing yet writes a version of its claim.
WritesVersion(e, c, v) ==
  /\ WrittenBy(e) = {} /\ <<c, v>> \notin DOMAIN versions
  /\ \E row : /\ row.content = Content(e) /\ row.sources = <<e>>
              /\ versions' = Put(versions, <<c, v>>, row)
  /\ \E gid : current' = Put(current, c, [version |-> v, gid |-> gid, state |-> "active"])
  /\ eventGov' = ActivateSources(<<e>>)
  /\ \A id \in DOMAIN ingest' : id \in DOMAIN ingest \/ id = <<"memory-replace", e>>

\* The first version that a candidate writes is the only one.
LEMMA VersionKept ==
  ASSUME TablesHold, StoreHolds', NEW e \in DOMAIN promotions, e \in UserEvents, ~Completed(e),
         \A f \in DOMAIN promotions : Completed(f) \/ f = e,
         NEW c, c = ClaimOf(e), NEW v \in Nat \ {0}, WritesVersion(e, c, v),
         UNCHANGED <<said, promotions, queue, budget>>
  PROVE  /\ TablesHold' /\ Names(e, v)'
         /\ Memory(c)' = [state |-> "active", content |-> Content(e)]
         /\ \A k \in DOMAIN versions : versions'[k] = versions[k]
         /\ \A d \in DOMAIN current' \cup DOMAIN current : d # c =>
              d \in DOMAIN current /\ d \in DOMAIN current' /\ current'[d] = current[d]
<1>1. PICK row : /\ row.content = Content(e) /\ row.sources = <<e>>
                 /\ versions' = Put(versions, <<c, v>>, row)
  BY DEF WritesVersion
<1>2. PICK gid : current' = Put(current, c, [version |-> v, gid |-> gid, state |-> "active"])
  BY DEF WritesVersion
<1>3. PICK key : key = <<c, v>>
  OBVIOUS
<1>4. PICK new : new = [version |-> v, gid |-> gid, state |-> "active"]
  OBVIOUS
<1>5. new.version = v /\ new.state = "active" /\ key \notin DOMAIN versions
  BY <1>3, <1>4 DEF WritesVersion
<1>6. /\ DOMAIN versions' = DOMAIN versions \cup {key} /\ versions'[key] = row
      /\ \A k \in DOMAIN versions : versions'[k] = versions[k]
  <2>1. versions' = Put(versions, key, row)
    BY <1>1, <1>3
  <2> QED BY <1>5, <2>1 DEF Put
<1>7. /\ DOMAIN current' = DOMAIN current \cup {c} /\ current'[c] = new
      /\ \A d \in DOMAIN current : d # c => current'[d] = current[d]
  BY <1>2, <1>4 DEF Put
<1>8. Names(e, v)'
  BY <1>1, <1>3, <1>6 DEF Names, ClaimOf, Content
<1>9. Identical(e)'
  <2>1. c \in DOMAIN current' /\ current'[c].version = v
    BY <1>5, <1>7
  <2> QED BY <1>1, <1>3, <1>6, <2>1 DEF Identical, ClaimOf, Content
<1>10. Memory(c)' = [state |-> "active", content |-> Content(e)]
  BY <1>1, <1>3, <1>5, <1>6, <1>7 DEF Memory
<1>11. ChatHolds' /\ RowsTyped'
  BY DEF TablesHold, ChatHolds, RowsTyped, SaidEvents
<1>12. ReceiptNamesItsVersion'
  BY <1>6 DEF TablesHold, ReceiptNamesItsVersion, ClaimOf, Content
<1>13. EditsHold'
  <2>1. eventGov' \in [UserEvents -> {"none", "active", "superseded"}]
    BY DEF TablesHold, EditsHold, ActivateSources, WritesVersion
  <2>2. \A f \in UserEvents : eventGov'[f] = eventGov[f] \/ eventGov'[f] = "active"
    BY DEF TablesHold, EditsHold, ActivateSources, WritesVersion
  <2>3. "active" # "superseded" /\ budget' = budget
    OBVIOUS
  <2> QED BY <2>1, <2>2, <2>3 DEF TablesHold, EditsHold
<1>14. ASSUME NEW f \in UserEvents, f # e PROVE WrittenBy(f)' = WrittenBy(f)
  <2>1. AddsVersion(e)
    <3>1. versions' = Put(versions, key, row) /\ key[1] = ClaimOf(e)
      BY <1>1, <1>3
    <3> QED BY <1>1, <1>5, <3>1 DEF AddsVersion
  <2> QED BY <1>14, <2>1, EvidenceGrows
<1>15. WrittenBy(e)' = {key}
  <2>1. key \in DOMAIN versions' /\ \E i \in DOMAIN row.sources : row.sources[i] = e
    BY <1>1, <1>6
  <2>2. \A k \in DOMAIN versions : ~\E i \in DOMAIN versions[k].sources : versions[k].sources[i] = e
    BY DEF WrittenBy, WritesVersion
  <2> QED BY <1>6, <2>1, <2>2 DEF WrittenBy
<1>16. WritesHold'
  <2>1. WritesHold /\ promotions' = promotions
    BY DEF TablesHold
  <2>2. CandidateWritesOnce'
    <3>1. ASSUME NEW f \in UserEvents PROVE \A j, k \in WrittenBy(f)' : j = k
      <4>1. CASE f = e
        BY <1>15, <4>1
      <4>2. CASE f # e
        BY <1>14, <2>1, <4>2 DEF WritesHold, CandidateWritesOnce
      <4> QED BY <4>1, <4>2
    <3> QED BY <3>1 DEF CandidateWritesOnce
  <2>3. \A f \in UserEvents : WrittenBy(f)' # {} => f \in DOMAIN promotions'
    BY <1>14, <2>1 DEF WritesHold
  <2>4. ASSUME NEW f \in DOMAIN promotions', ~Completed(f)', WrittenBy(f)' # {} PROVE Identical(f)'
    <3>1. CASE f = e
      BY <1>9, <3>1
    <3>2. CASE f # e
      BY <2>1, <2>4, <3>2 DEF Completed
    <3> QED BY <3>1, <3>2
  <2>5. ASSUME NEW id \in DOMAIN ingest' PROVE id[1] = "memory-replace" /\ WrittenBy(id[2])' # {}
    <3>1. CASE id = <<"memory-replace", e>>
      BY <1>15, <3>1
    <3>2. CASE id \in DOMAIN ingest
      <4>1. id[1] = "memory-replace" /\ WrittenBy(id[2]) # {}
        BY <2>1, <3>2 DEF WritesHold
      <4>2. PICK k \in WrittenBy(id[2]) : TRUE
        BY <4>1
      <4>3. k \in WrittenBy(id[2])'
        BY <1>6, <4>2 DEF WrittenBy
      <4> QED BY <4>1, <4>3
    <3> QED BY <2>5, <3>1, <3>2 DEF WritesVersion
  <2> QED BY <2>2, <2>3, <2>4, <2>5 DEF WritesHold
<1> QED BY <1>6, <1>7, <1>8, <1>10, <1>11, <1>12, <1>13, <1>16 DEF TablesHold

\* No other candidate is in processing.
LEMMA OnlyThisOne ==
  ASSUME TablesHold, NEW n \in 0..Len(said), Progress(n), n + 1 \in 1..Len(said), NEW e, e = said[n + 1]
  PROVE  \A f \in DOMAIN promotions : Completed(f) \/ f = e
<1> SUFFICES ASSUME NEW f \in DOMAIN promotions, ~Completed(f) PROVE f = e
  OBVIOUS
<1>1. PICK i \in 1..Len(said) : said[i] = f
  BY DEF TablesHold, RowsTyped, SaidEvents, ChatHolds
<1>2. i \in 1..n \/ i = n + 1 \/ i \in (n + 2)..Len(said)
  OBVIOUS
<1>3. i = n + 1
  BY <1>1, <1>2 DEF Progress
<1> QED BY <1>1, <1>3

\* A derived write that finds its key taken is answered with the current version.
LEMMA ReplayedVersion ==
  ASSUME StoreHolds, NEW c \in DOMAIN current, NEW reply, reply = GovReceipt(Latest(LastVersionEvents(c)), c)
  PROVE  reply.ok = TRUE /\ reply.version = current[c].version
<1>1. VersionsHold /\ CurrentHolds /\ LogHolds
  BY DEF StoreHolds
<1>2. /\ current[c].version \in Nat /\ <<c, current[c].version>> \in DOMAIN versions
      /\ \E g \in DOMAIN gov : gov[g].claim = c /\ gov[g].version = current[c].version
  BY <1>1 DEF CurrentHolds
<1>3. \A k \in DOMAIN versions : k[1] = c => k[2] \in Nat /\ k[2] <= current[c].version
  BY <1>1 DEF VersionsHold
<1>4. PICK gids : gids = LastVersionEvents(c)
  OBVIOUS
<1>5. \A g \in gids : g \in DOMAIN gov /\ gov[g].version = current[c].version
  <2> SUFFICES ASSUME NEW g \in gids PROVE g \in DOMAIN gov /\ gov[g].version = current[c].version
    OBVIOUS
  <2>1. /\ g \in DOMAIN gov /\ gov[g].claim = c
        /\ \A k \in DOMAIN versions : k[1] = c => k[2] <= gov[g].version
    BY <1>4 DEF LastVersionEvents
  <2>2. PICK key : key = <<c, gov[g].version>>
    OBVIOUS
  <2>3. key \in DOMAIN versions /\ key[1] = c /\ key[2] = gov[g].version
    BY <1>1, <2>1, <2>2 DEF LogHolds
  <2>4. gov[g].version \in Nat /\ gov[g].version <= current[c].version
    BY <1>3, <2>3
  <2>5. current[c].version <= gov[g].version
    <3>1. PICK now : now = <<c, current[c].version>>
      OBVIOUS
    <3>2. now \in DOMAIN versions /\ now[1] = c /\ now[2] = current[c].version
      BY <1>2, <3>1
    <3> QED BY <2>1, <3>2
  <2> QED BY <1>2, <2>1, <2>4, <2>5
<1>6. gids # {}
  <2>1. PICK g \in DOMAIN gov : gov[g].claim = c /\ gov[g].version = current[c].version
    BY <1>2
  <2>2. g \in gids
    BY <1>3, <1>4, <2>1 DEF LastVersionEvents
  <2> QED BY <2>2
<1>7. Latest(gids) \in gids
  <2>1. gov \in Seq(GovRow)
    BY <1>1 DEF LogHolds
  <2>2. gids \in SUBSET (0..Len(gov)) /\ Len(gov) \in Nat
    BY <1>5, <2>1
  <2>3. Max(gids) \in gids /\ \A y_1 \in gids : y_1 <= Max(gids)
    BY <1>6, <2>2, MaxIs
  <2>4. \E g \in gids : \A k \in gids : k <= g
    BY <2>3
  <2> QED BY <2>4 DEF Latest
<1>8. PICK g : g = Latest(gids)
  OBVIOUS
<1>9. reply = Receipt(TRUE, gov[g].new, c, gov[g].version, g)
  BY <1>4, <1>8 DEF GovReceipt
<1>10. reply.ok = TRUE /\ reply.version = gov[g].version
  BY <1>9 DEF Receipt
<1> QED BY <1>5, <1>7, <1>8, <1>10

\* What write says to a candidate.
LEMMA WriteAnswer ==
  ASSUME TablesHold, NEW e \in UserEvents, Action(e) # "forget", NEW c, c = ClaimOf(e),
         NEW reply, reply = WriteReply(CandidateWrite(e))
  PROVE  /\ Keyed(c) => reply.ok = TRUE /\ reply.version = current[c].version
         /\ ~Keyed(c) /\ EventInfo[e].sensitivity # "secret" /\ budget["edit"] = 0 => reply.ok = TRUE
<1>1. PICK r : r = CandidateWrite(e)
  OBVIOUS
<1>2. /\ r.claim = c /\ r.refs = <<e>> /\ r.content = Content(e) /\ r.sensitivity = EventInfo[e].sensitivity
      /\ r.idem = e /\ Derived(r)
  BY <1>1 DEF CandidateWrite, Derived
<1>3. WriteId(r) \notin DOMAIN ingest
  <2>1. WriteId(r)[1] = "memory-derived"
    BY <1>2 DEF WriteId
  <2>2. \A id \in DOMAIN ingest : id[1] = "memory-replace"
    BY DEF TablesHold, WritesHold
  <2> QED BY <2>1, <2>2
<1>4. SourcesMatch(r.refs, r.content, {"memory", "replace"})
  <2>1. EventInfo[e].command \in {"memory", "replace"} /\ EventInfo[e].content = Content(e)
    BY CandidateTyped DEF Action, Content
  <2>2. DOMAIN <<e>> = {1} /\ <<e>>[1] = e
    OBVIOUS
  <2> QED BY <1>2, <2>1, <2>2 DEF SourcesMatch
<1>5. CASE Keyed(c)
  <2>1. reply = GovReceipt(Latest(LastVersionEvents(c)), c)
    BY <1>1, <1>2, <1>3, <1>4, <1>5 DEF WriteReply
  <2>2. c \in DOMAIN current
    BY <1>5, KeyedIsCurrent DEF TablesHold
  <2> QED BY <1>5, <2>1, <2>2, ReplayedVersion DEF TablesHold
<1>6. CASE ~Keyed(c) /\ EventInfo[e].sensitivity # "secret" /\ budget["edit"] = 0
  <2>1. SourcesLive(r.refs)
    <3>1. eventGov[e] \in {"none", "active"}
      BY <1>6 DEF TablesHold, EditsHold
    <3>2. DOMAIN <<e>> = {1} /\ <<e>>[1] = e
      OBVIOUS
    <3> QED BY <1>2, <3>1, <3>2 DEF SourcesLive
  <2>2. WriteAdmitted(r)
    <3>1. EventInfo[e].sensitivity \in Sensitivities
      BY CandidateTyped
    <3>2. WriteSnapshots(r) = <<[ref |-> e, sensitivity |-> EventInfo[e].sensitivity]>>
      BY <1>2 DEF WriteSnapshots, UserSnapshots
    <3>3. Lineage(r) = "event_derived" /\ WriteSources(r) = <<e>>
      BY <1>2 DEF Lineage, WriteSources
    <3> QED BY <1>2, <1>6, <3>1, <3>2, <3>3, Admitted DEF WriteAdmitted
  <2>3. reply = Receipt(TRUE, "active", r.claim, 1, Len(gov) + 1)
    BY <1>1, <1>2, <1>3, <1>4, <1>6, <2>1, <2>2 DEF WriteReply
  <2> QED BY <1>6, <2>3 DEF Receipt
<1> QED BY <1>5, <1>6

\* A command whose text holds a secret is never more than retrievable.
NoSecrets ==
  \A e \in UserEvents :
    CandidateInfo[e].tier = "activate" => EventInfo[e].sensitivity # "secret"

\* The first version of a key: the write commits.
LEMMA FreshWriteIsKept ==
  ASSUME NEW h, Lone(h), Kept(h), NEW n \in 0..Len(said), SoleAt(proc[h], n), proc[h].pc = "write",
         NEW e, e = said[n + 1], ~Keyed(ClaimOf(e)), Write(CandidateWrite(e)),
         Conclude(h, Outcome("activated", "write_allowed", 1)),
         UNCHANGED <<said, promotions, queue, approvals, budget>>
  PROVE  Kept(h)'
<1>1. TablesHold /\ StoreHolds /\ ChatHolds /\ WritesHold /\ proc[h].pc \notin Unoccupied
  BY DEF Kept, TablesHold, Unoccupied
<1>2. /\ e \in UserEvents /\ n + 1 \in 1..Len(said) /\ e \in DOMAIN promotions /\ ~Completed(e)
      /\ Knows(proc[h], e) /\ Progress(n)
  BY <1>1, AtCandidate DEF SoleAt
<1>3. CandidateInfo[e].tier = "activate" /\ Action(e) # "forget"
  BY <1>2 DEF Knows, Acting
<1>4. PICK c : c = ClaimOf(e)
  OBVIOUS
<1>5. PICK r : r = CandidateWrite(e)
  OBVIOUS
<1>6. /\ r.claim = c /\ r.refs = <<e>> /\ r.content = Content(e) /\ Derived(r) /\ WriteSources(r) = <<e>>
  BY <1>4, <1>5 DEF CandidateWrite, Derived, WriteSources
<1>7. c \in Claims /\ Content(e) \in Contents /\ c \notin DOMAIN current
  BY <1>1, <1>2, <1>4, CandidateTyped, KeyedIsCurrent
<1>8. \A k \in DOMAIN versions : k[1] # c
  BY <1>4 DEF Keyed
<1>9. PICK row : row = Version(Content(e), r.sensitivity, Lineage(r), <<e>>)
  OBVIOUS
<1>10. row.content = Content(e) /\ row.sources = <<e>>
  BY <1>9 DEF Version
<1>11. PICK gid : current' = Put(current, c, [version |-> 1, gid |-> gid, state |-> "active"])
  BY <1>5, <1>6 DEF Write
<1>12. /\ versions' = Put(versions, <<c, 1>>, row)
       /\ gov' = Append(gov, GovEvent(c, 1, "activate", "pending_review", "active"))
       /\ ingest' = ingest /\ eventGov' = ActivateSources(<<e>>) /\ UNCHANGED <<receipts, guards>>
  BY <1>5, <1>6, <1>9 DEF Write
<1>13. StoreHolds'
  <2>1. PICK more : more = <<GovEvent(c, 1, "activate", "pending_review", "active")>>
    OBVIOUS
  <2>2. GovEvent(c, 1, "activate", "pending_review", "active") \in GovRow
    BY <1>7 DEF GovEvent, GovRow, ActionTarget, LifecycleStates
  <2>3. more \in Seq(GovRow) /\ Len(more) = 1 /\ more[1].claim = c /\ more[1].version = 1
    BY <2>1, <2>2 DEF GovEvent
  <2>4. gov' = gov \o more
    <3>1. gov \in Seq(GovRow)
      BY <1>1 DEF StoreHolds, LogHolds
    <3> QED BY <1>12, <2>1, <2>2, <3>1
  <2>5. NewCurrent(c, 1, Content(e))
    BY <1>10, <1>11, <1>12 DEF NewCurrent
  <2>6. /\ \A i \in 1..Len(more) : more[i].claim = c /\ more[i].version = 1
        /\ \E i \in 1..Len(more) : more[i].version = 1
    BY <2>3
  <2>7. \A k \in DOMAIN versions : k[1] = c => k[2] <= 1
    BY <1>8
  <2>8. PICK v \in Nat \ {0} : v = 1
    OBVIOUS
  <2>9. PICK content \in Contents : content = Content(e)
    BY <1>7
  <2>10. /\ NewCurrent(c, v, content) /\ \A k \in DOMAIN versions : k[1] = c => k[2] <= v
         /\ \A i \in 1..Len(more) : more[i].claim = c /\ (more[i].version = v \/ <<c, more[i].version>> \in DOMAIN versions)
         /\ \E i \in 1..Len(more) : more[i].version = v
    BY <2>5, <2>6, <2>7, <2>8, <2>9
  <2> QED BY <1>1, <1>7, <1>12, <2>3, <2>4, <2>10, StoreGrows
<1>14. WrittenBy(e) = {}
  <2>1. WrittenBy(e) # {} => Identical(e)
    BY <1>1, <1>2 DEF WritesHold
  <2> QED BY <1>4, <1>7, <2>1 DEF Identical
<1>15. /\ TablesHold' /\ Names(e, 1)'
       /\ Memory(c)' = [state |-> "active", content |-> Content(e)]
       /\ \A k \in DOMAIN versions : versions'[k] = versions[k]
       /\ \A d \in DOMAIN current' \cup DOMAIN current : d # c =>
            d \in DOMAIN current /\ d \in DOMAIN current' /\ current'[d] = current[d]
  <2>1. <<c, 1>> \notin DOMAIN versions
    BY <1>8
  <2>2. \A f \in DOMAIN promotions : Completed(f) \/ f = e
    BY <1>1, <1>2, OnlyThisOne
  <2>3. \A id \in DOMAIN ingest' : id \in DOMAIN ingest \/ id = <<"memory-replace", e>>
    BY <1>12
  <2>4. \E z : /\ z.content = Content(e) /\ z.sources = <<e>>
               /\ versions' = Put(versions, <<c, 1>>, z)
    BY <1>10, <1>12
  <2>5. \E z : current' = Put(current, c, [version |-> 1, gid |-> z, state |-> "active"])
    BY <1>11
  <2>6. PICK v \in Nat \ {0} : v = 1
    OBVIOUS
  <2>7. <<c, v>> \notin DOMAIN versions
    BY <2>1, <2>6
  <2>8. \E z : /\ z.content = Content(e) /\ z.sources = <<e>>
               /\ versions' = Put(versions, <<c, v>>, z)
    BY <2>4, <2>6
  <2>9. \E z : current' = Put(current, c, [version |-> v, gid |-> z, state |-> "active"])
    BY <2>5, <2>6
  <2>10. WritesVersion(e, c, v)
    BY <1>12, <1>14, <2>3, <2>7, <2>8, <2>9 DEF WritesVersion
  <2>11. WritesVersion(e, c, v) /\ UNCHANGED <<said, promotions, queue, budget>>
    BY <2>10
  <2>12. /\ TablesHold' /\ Names(e, v)'
         /\ Memory(c)' = [state |-> "active", content |-> Content(e)]
         /\ \A k \in DOMAIN versions : versions'[k] = versions[k]
         /\ \A d \in DOMAIN current' \cup DOMAIN current : d # c =>
              d \in DOMAIN current /\ d \in DOMAIN current' /\ current'[d] = current[d]
    BY <1>1, <1>2, <1>4, <1>13, <2>2, <2>11, VersionKept
  <2> QED BY <2>6, <2>12
<1>16. Now' = Apply(Now, e)
  <2>1. Memory(c) = [state |-> "none", content |-> Null]
    BY <1>7 DEF Memory, NoMemory
  <2>2. Memory(c)' = Taught(Memory(c), e)
    BY <1>3, <1>15, <2>1 DEF Taught
  <2> QED BY <1>1, <1>2, <1>4, <1>13, <1>15, <2>2, MemoryChanges
<1>17. PICK outcome : outcome = Outcome("activated", "write_allowed", 1)
  OBVIOUS
<1>18. /\ outcome.decision \in Decisions \ {"processing"} /\ outcome.version \in Nat /\ outcome.version = 1
       /\ Conclude(h, outcome)
  BY <1>17 DEF Outcome, Decisions
<1>19. UNCHANGED <<said, promotions, budget>>
  OBVIOUS
<1>20. outcome.decision \in Granted => Names(e, outcome.version)'
  BY <1>15, <1>18
<1> QED BY <1>1, <1>15, <1>16, <1>18, <1>19, <1>20, ConcludesChanging

\* write commits, finds the key taken, or refuses.
LEMMA CallWriteIsKept ==
  ASSUME NEW h, Lone(h), NoSecrets, Kept(h), CallWrite(h)
  PROVE  Kept(h)'
<1>1. PICK n \in 0..Len(said) : SoleAt(proc[h], n)
  BY DEF Kept
<1>2. PICK e : e = said[n + 1]
  OBVIOUS
<1>3. proc[h].pc = "write" /\ proc[h].pc \notin Unoccupied /\ ChatHolds /\ StoreHolds /\ TablesHold
  BY DEF CallWrite, At, Unoccupied, Kept, TablesHold
<1>4. Cand(h) = e /\ Knows(proc[h], e) /\ e \in UserEvents /\ n + 1 \in 1..Len(said)
      /\ e \in DOMAIN promotions /\ ~Completed(e)
  BY <1>1, <1>2, <1>3, AtCandidate
<1>5. PICK c : c = ClaimOf(e)
  OBVIOUS
<1>6. /\ CandidateInfo[e].tier = "activate" /\ Action(e) # "forget" /\ (proc[h].existed <=> Keyed(c))
      /\ EventInfo[e].sensitivity # "secret" /\ Action(e) \in {"memory", "replace", "forget"}
  BY <1>3, <1>4, <1>5, CandidateTyped DEF Knows, Acting, NoSecrets
<1>7. PICK reply : reply = WriteReply(CandidateWrite(e))
  OBVIOUS
<1>8. /\ Keyed(c) => reply.ok = TRUE /\ reply.version = current[c].version
      /\ ~Keyed(c) /\ budget["edit"] = 0 => reply.ok = TRUE
  BY <1>3, <1>4, <1>5, <1>6, <1>7, WriteAnswer
<1>9. UNCHANGED <<said, promotions, queue, approvals, budget>>
  BY DEF CallWrite
<1>10. CASE reply.ok /\ ~Keyed(c)
  <2>1. Write(CandidateWrite(e)) /\ Conclude(h, Outcome("activated", "write_allowed", 1))
    BY <1>4, <1>5, <1>7, <1>10 DEF CallWrite
  <2> QED BY <1>1, <1>2, <1>3, <1>5, <1>9, <1>10, <2>1, FreshWriteIsKept
<1>11. CASE Keyed(c)
  <2>1. UNCHANGED authorityVars /\ AfterReplay(h, reply)
    BY <1>4, <1>5, <1>7, <1>8, <1>11 DEF CallWrite
  <2>2. c \in DOMAIN current
    BY <1>3, <1>11, KeyedIsCurrent
  <2>3. PICK row : /\ Become(h, row)
                   /\ \/ Action(e) = "replace" /\ row = [proc[h] EXCEPT !.pc = "supersede"]
                      \/ /\ Action(e) = "memory" /\ ExactReplay(e)
                         /\ row = [proc[h] EXCEPT !.seen = reply.version, !.pc = "compare"]
                      \/ /\ Action(e) = "memory"
                         /\ row = [proc[h] EXCEPT !.seen = reply.version, !.pc = "resolve"]
    <3>1. CASE Action(e) = "replace"
      BY <1>4, <1>6, <1>11, <2>1, <3>1 DEF AfterReplay, Goto
    <3>2. CASE Action(e) = "memory"
      <4>1. Action(e) # "replace"
        BY <3>2
      <4>2. CASE ExactReplay(e)
        BY <1>4, <1>6, <1>11, <2>1, <3>2, <4>1, <4>2 DEF AfterReplay
      <4>3. CASE ~ExactReplay(e)
        BY <1>4, <1>6, <1>11, <2>1, <3>2, <4>1, <4>3 DEF AfterReplay
      <4> QED BY <4>2, <4>3
    <3> QED BY <1>6, <3>1, <3>2
  <2>4. /\ DOMAIN row = RowFields /\ row.batch = proc[h].batch /\ row.upto = proc[h].upto
        /\ \/ Action(e) = "replace" /\ row.pc = "supersede"
           \/ Action(e) = "memory" /\ ExactReplay(e) /\ row.seen = reply.version /\ row.pc = "compare"
           \/ Action(e) = "memory" /\ row.seen = reply.version /\ row.pc = "resolve"
    <3>1. DOMAIN proc[h] = RowFields
      BY DEF Kept
    <3> QED BY <2>3, <3>1 DEF RowFields
  <2>5. ExactReplay(e) => Identical(e)
    <3>1. ExactReplay(e) => WrittenBy(e) # {}
      BY DEF ExactReplay, WrittenBy
    <3> QED BY <1>3, <1>4, <3>1 DEF TablesHold, WritesHold
  <2>6. row.pc \in {"compare", "resolve"} => AtVersion(c, row.seen)
    BY <1>8, <1>11, <2>2, <2>4 DEF AtVersion
  <2>7. Knows(row, e) /\ row.pc \in Acting
    <3>1. row.pc \in Acting /\ row.pc \notin {"write", "replace", "retire", "retract"} /\ row.pc \notin Closing
      BY <2>4 DEF Acting, Closing
    <3>2. row.pc = "compare" => Identical(e)
      BY <2>4, <2>5
    <3>3. row.pc \in {"supersede", "replace"} => Action(e) = "replace" /\ c \in DOMAIN current
      BY <2>2, <2>4
    <3>4. row.pc \in {"compare", "resolve"} => Action(e) = "memory"
      BY <2>4
    <3>5. (Action(e) = "forget") <=> row.pc \in {"retract", "retire"}
      BY <1>6, <2>4
    <3> QED BY <1>5, <1>6, <2>6, <3>1, <3>2, <3>3, <3>4, <3>5 DEF Knows
  <2> QED BY <1>1, <1>2, <1>3, <1>9, <2>1, <2>3, <2>4, <2>7, GoesOnKnowing
<1>12. CASE ~reply.ok
  <2>1. ~Keyed(c) /\ budget["edit"] # 0
    BY <1>8, <1>12
  <2>2. UNCHANGED authorityVars /\ Conclude(h, Rejected(reply.status))
    BY <1>4, <1>5, <1>7, <1>12 DEF CallWrite
  <2>3. PICK outcome : outcome = Rejected(reply.status)
    OBVIOUS
  <2>4. /\ outcome.decision = "rejected" /\ outcome.version = 0
        /\ Become(h, [proc[h] EXCEPT !.pc = "finalize", !.outcome = outcome])
    BY <2>2, <2>3 DEF Rejected, Outcome, Conclude
  <2>5. /\ outcome.decision \in Decisions \ {"processing"} /\ outcome.decision \notin Granted
        /\ "finalize" \in Closing /\ outcome.version \in Nat
    BY <2>4 DEF Decisions, Closing, Granted
  <2> QED BY <1>1, <1>2, <1>3, <1>9, <2>1, <2>2, <2>4, <2>5, ConcludesKeeping
<1>13. reply.ok \/ ~reply.ok
  OBVIOUS
<1> QED BY <1>10, <1>11, <1>12, <1>13


\* A new version takes the place of the one that was read.
LEMMA FreshReplaceIsKept ==
  ASSUME NEW h, Lone(h), Kept(h), NEW n \in 0..Len(said), SoleAt(proc[h], n), proc[h].pc = "replace",
         NEW e, e = said[n + 1], NEW seen, seen = proc[h].seen, Replace(CandidateReplace(e, seen)),
         Conclude(h, Outcome("superseded", "transition_allowed", seen + 1)),
         UNCHANGED <<said, promotions, queue, approvals, budget>>
  PROVE  Kept(h)'
<1>1. TablesHold /\ StoreHolds /\ ChatHolds /\ WritesHold /\ proc[h].pc \notin Unoccupied
  BY DEF Kept, TablesHold, Unoccupied
<1>2. /\ e \in UserEvents /\ n + 1 \in 1..Len(said) /\ e \in DOMAIN promotions /\ ~Completed(e)
      /\ Knows(proc[h], e) /\ Progress(n)
  BY <1>1, AtCandidate DEF SoleAt
<1>3. PICK c : c = ClaimOf(e)
  OBVIOUS
<1>4. /\ CandidateInfo[e].tier = "activate" /\ Action(e) = "replace" /\ ~Identical(e)
      /\ c \in DOMAIN current /\ current[c].version = seen
  BY <1>2, <1>3 DEF Knows, Acting, AtVersion
<1>5. PICK r : r = CandidateReplace(e, seen)
  OBVIOUS
<1>6. /\ r.claim = c /\ r.refs = <<e>> /\ r.content = Content(e) /\ r.expected = seen /\ r.idem = e
      /\ Derived(r) /\ ReplaceSource(r) = e
  BY <1>3, <1>5 DEF CandidateReplace, Derived, ReplaceSource
<1>7. /\ c \in Claims /\ Content(e) \in Contents /\ seen \in Nat \ {0} /\ <<c, seen>> \in DOMAIN versions
  BY <1>1, <1>2, <1>3, <1>4, CandidateTyped, TakenMemory
<1>8. PICK v \in Nat \ {0} : v = seen + 1
  BY <1>7
<1>9. PICK row : row = Version(Content(e), r.sensitivity, Lineage(r), <<e>>)
  OBVIOUS
<1>10. row.content = Content(e) /\ row.sources = <<e>>
  BY <1>9 DEF Version
<1>11. PICK gid : current' = Put(current, c, [version |-> v, gid |-> gid, state |-> "active"])
  BY <1>5, <1>6, <1>8 DEF Replace
<1>12. /\ versions' = Put(versions, <<c, v>>, row) /\ <<c, v>> \notin DOMAIN versions
       /\ gov' = gov \o ReplaceLog(r)
       /\ eventGov' = ActivateSources(<<e>>) /\ UNCHANGED <<receipts, guards>>
       /\ ActiveAt(c, seen)
  BY <1>5, <1>6, <1>8, <1>9 DEF Replace, ReplaceCurrent
<1>13. \A id \in DOMAIN ingest' : id \in DOMAIN ingest \/ id = <<"memory-replace", e>>
  <2>1. PICK key : key = <<"memory-replace", e>>
    OBVIOUS
  <2>2. \E z : ingest' = Put(ingest, key, z)
    BY <1>5, <1>6, <2>1 DEF Replace, ReplaceId
  <2>3. \A id \in DOMAIN ingest' : id \in DOMAIN ingest \/ id = key
    BY <2>2 DEF Put
  <2> QED BY <2>1, <2>3
<1>14. StoreHolds'
  <2>1. PICK more : more = ReplaceLog(r)
    OBVIOUS
  <2>2. /\ GovEvent(c, seen, "supersede", "active", "superseded") \in GovRow
        /\ GovEvent(c, v, "submit", "none", "pending_review") \in GovRow
        /\ GovEvent(c, v, "activate", "pending_review", "active") \in GovRow
    BY <1>7, <1>8 DEF GovEvent, GovRow, ActionTarget, LifecycleStates
  <2>3. more = <<GovEvent(c, seen, "supersede", "active", "superseded"),
                 GovEvent(c, v, "submit", "none", "pending_review"),
                 GovEvent(c, v, "activate", "pending_review", "active")>>
    BY <1>6, <1>8, <2>1 DEF ReplaceLog
  <2>4. /\ more \in Seq(GovRow) /\ Len(more) = 3
        /\ more[1] = GovEvent(c, seen, "supersede", "active", "superseded")
        /\ more[2] = GovEvent(c, v, "submit", "none", "pending_review")
        /\ more[3] = GovEvent(c, v, "activate", "pending_review", "active")
    BY <2>2, <2>3
  <2>5. /\ more[1].claim = c /\ more[1].version = seen
        /\ more[2].claim = c /\ more[2].version = v
        /\ more[3].claim = c /\ more[3].version = v
    BY <2>4 DEF GovEvent
  <2>6. PICK content \in Contents : content = Content(e)
    BY <1>7
  <2>7. NewCurrent(c, v, content)
    BY <1>10, <1>11, <1>12, <2>6 DEF NewCurrent
  <2>8. \A i \in 1..Len(more) : more[i].claim = c /\ (more[i].version = v \/ <<c, more[i].version>> \in DOMAIN versions)
    <3>1. \A i \in 1..Len(more) : i = 1 \/ i = 2 \/ i = 3
      BY <2>4
    <3> QED BY <1>7, <2>5, <3>1
  <2>9. \E i \in 1..Len(more) : more[i].version = v
    <3>1. 3 \in 1..Len(more)
      BY <2>4
    <3> QED BY <2>5, <3>1
  <2>10. \A k \in DOMAIN versions : k[1] = c => k[2] <= v
    <3>1. \A k \in DOMAIN versions : k[1] = c => k[2] \in Nat /\ k[2] <= seen
      BY <1>1, <1>4 DEF StoreHolds, VersionsHold
    <3> QED BY <1>7, <1>8, <3>1
  <2>11. gov' = gov \o more /\ UNCHANGED <<receipts, guards>> /\ c \in Claims
    BY <1>7, <1>12, <2>1
  <2> QED BY <1>1, <2>4, <2>7, <2>8, <2>9, <2>10, <2>11, StoreGrows
<1>15. WrittenBy(e) = {}
  BY <1>1, <1>2, <1>4 DEF WritesHold
<1>16. /\ TablesHold' /\ Names(e, v)'
       /\ Memory(c)' = [state |-> "active", content |-> Content(e)]
       /\ \A k \in DOMAIN versions : versions'[k] = versions[k]
       /\ \A d \in DOMAIN current' \cup DOMAIN current : d # c =>
            d \in DOMAIN current /\ d \in DOMAIN current' /\ current'[d] = current[d]
  <2>1. \A f \in DOMAIN promotions : Completed(f) \/ f = e
    BY <1>1, <1>2, OnlyThisOne
  <2>2. \E z : /\ z.content = Content(e) /\ z.sources = <<e>>
               /\ versions' = Put(versions, <<c, v>>, z)
    BY <1>10, <1>12
  <2>3. \E z : current' = Put(current, c, [version |-> v, gid |-> z, state |-> "active"])
    BY <1>11
  <2>4. UNCHANGED <<said, promotions, queue, budget>>
    OBVIOUS
  <2>5. WritesVersion(e, c, v)
    BY <1>12, <1>13, <1>15, <2>2, <2>3 DEF WritesVersion
  <2> QED BY <1>1, <1>2, <1>3, <1>14, <2>1, <2>4, <2>5, VersionKept
<1>17. Now' = Apply(Now, e)
  <2>1. Memory(c).state = "active"
    BY <1>1, <1>4, <1>12, TakenMemory DEF ActiveAt
  <2>2. Memory(c)' = Taught(Memory(c), e)
    BY <1>4, <1>16, <2>1 DEF Taught
  <2> QED BY <1>1, <1>2, <1>3, <1>14, <1>16, <2>2, MemoryChanges
<1>18. PICK outcome : outcome = Outcome("superseded", "transition_allowed", v)
  OBVIOUS
<1>19. /\ outcome.decision \in Decisions \ {"processing"} /\ outcome.version \in Nat /\ outcome.version = v
       /\ Conclude(h, outcome)
  BY <1>8, <1>18 DEF Outcome, Decisions
<1>20. UNCHANGED <<said, promotions, budget>>
  OBVIOUS
<1>21. outcome.decision \in Granted => Names(e, outcome.version)'
  BY <1>16, <1>19
<1> QED BY <1>1, <1>16, <1>17, <1>19, <1>20, <1>21, ConcludesChanging

\* Where a replace is refused, the user has edited meanwhile, or the key is
\* gone for good.
LEMMA ReplaceAnswer ==
  ASSUME TablesHold, NEW e \in UserEvents, Action(e) = "replace", EventInfo[e].sensitivity # "secret",
         NEW c, c = ClaimOf(e), c \in DOMAIN current, NEW seen, seen = current[c].version,
         e \in DOMAIN promotions, ~Completed(e), ~Identical(e),
         NEW r, r = CandidateReplace(e, seen)
  PROVE  /\ ReplaceId(r) \notin DOMAIN ingest /\ r.claim = c
         /\ ReplaceReply(r).ok => ReplaceReply(r).version = seen + 1
         /\ ~ReplaceReply(r).ok => budget["edit"] # 0 \/ current[c].state = "retired"
<1>1. /\ r.claim = c /\ r.refs = <<e>> /\ r.content = Content(e) /\ r.expected = seen /\ r.idem = e
      /\ r.sensitivity = EventInfo[e].sensitivity /\ Derived(r) /\ ReplaceSource(r) = e
  BY DEF CandidateReplace, Derived, ReplaceSource
<1>2. ReplaceId(r) \notin DOMAIN ingest
  <2>1. PICK id : id = ReplaceId(r)
    OBVIOUS
  <2>2. id[2] = e
    BY <1>1, <2>1 DEF ReplaceId
  <2>3. WrittenBy(e) = {}
    BY DEF TablesHold, WritesHold
  <2>4. id \notin DOMAIN ingest
    BY <2>2, <2>3 DEF TablesHold, WritesHold
  <2> QED BY <2>1, <2>4
<1>3. PICK reply : reply = ReplaceReply(r)
  OBVIOUS
<1>4. reply = IF current[c].state # "active" THEN Refusal("invalid_transition")
              ELSE IF ~ReplaceAdmitted(r) THEN Refusal("rejected")
              ELSE Receipt(TRUE, "active", c, seen + 1, Len(gov) + 3)
  BY <1>1, <1>2, <1>3 DEF ReplaceReply
<1>5. current[c].state \in {"active", "retired"}
  BY TakenMemory DEF TablesHold
<1>6. ASSUME budget["edit"] = 0 PROVE ReplaceAdmitted(r)
  <2>1. DOMAIN <<e>> = {1} /\ <<e>>[1] = e /\ Len(<<e>>) = 1
    OBVIOUS
  <2>2. SourcesLive(r.refs)
    <3>1. eventGov[e] \in {"none", "active"}
      BY <1>6 DEF TablesHold, EditsHold
    <3> QED BY <1>1, <2>1, <3>1 DEF SourcesLive
  <2>3. SourcesMatch(r.refs, r.content, {"replace"})
    <3>1. EventInfo[e].command = "replace" /\ EventInfo[e].content = Content(e)
      BY DEF Action, Content
    <3> QED BY <1>1, <2>1, <3>1 DEF SourcesMatch
  <2>4. EventInfo[e].sensitivity \in Sensitivities
    BY CandidateTyped
  <2>5. ReplaceSnapshot(r) = [ref |-> e, sensitivity |-> EventInfo[e].sensitivity]
    BY <1>1, <2>1 DEF ReplaceSnapshot
  <2>6. Lineage(r) = "event_derived"
    BY <1>1 DEF Lineage
  <2>7. WriteVerdict(Lineage(r), r.sensitivity, <<ReplaceSource(r)>>, <<ReplaceSnapshot(r)>>) = "write_allowed"
    BY <1>1, <2>4, <2>5, <2>6, Admitted
  <2> QED BY <1>1, <2>1, <2>2, <2>3, <2>7 DEF ReplaceAdmitted
<1>7. reply.ok => reply.version = seen + 1
  <2>1. \A z : Refusal(z).ok = FALSE
    BY DEF Refusal, Receipt
  <2>2. Receipt(TRUE, "active", c, seen + 1, Len(gov) + 3).version = seen + 1
    BY DEF Receipt
  <2> QED BY <1>4, <2>1, <2>2
<1>8. ~reply.ok => budget["edit"] # 0 \/ current[c].state = "retired"
  <2>1. Receipt(TRUE, "active", c, seen + 1, Len(gov) + 3).ok = TRUE
    BY DEF Receipt
  <2> QED BY <1>4, <1>5, <1>6, <2>1
<1> QED BY <1>1, <1>2, <1>3, <1>7, <1>8

\* replace commits, or refuses after an edit or of a retired claim.
LEMMA CallReplaceIsKept ==
  ASSUME NEW h, Lone(h), NoSecrets, Kept(h), CallReplace(h)
  PROVE  Kept(h)'
<1>1. PICK n \in 0..Len(said) : SoleAt(proc[h], n)
  BY DEF Kept
<1>2. PICK e : e = said[n + 1]
  OBVIOUS
<1>3. proc[h].pc = "replace" /\ proc[h].pc \notin Unoccupied /\ ChatHolds /\ StoreHolds /\ TablesHold
  BY DEF CallReplace, At, Unoccupied, Kept, TablesHold
<1>4. Cand(h) = e /\ Knows(proc[h], e) /\ e \in UserEvents /\ e \in DOMAIN promotions /\ ~Completed(e)
  BY <1>1, <1>2, <1>3, AtCandidate
<1>5. PICK c : c = ClaimOf(e)
  OBVIOUS
<1>6. PICK seen : seen = proc[h].seen
  OBVIOUS
<1>7. /\ CandidateInfo[e].tier = "activate" /\ Action(e) = "replace" /\ ~Identical(e)
      /\ c \in DOMAIN current /\ current[c].version = seen /\ EventInfo[e].sensitivity # "secret"
  BY <1>3, <1>4, <1>5, <1>6 DEF Knows, Acting, AtVersion, NoSecrets
<1>8. PICK r : r = CandidateReplace(e, seen)
  OBVIOUS
<1>9. PICK reply : reply = ReplaceReply(r)
  OBVIOUS
<1>10. /\ ReplaceId(r) \notin DOMAIN ingest /\ r.claim = c
       /\ reply.ok => reply.version = seen + 1
       /\ ~reply.ok => budget["edit"] # 0 \/ current[c].state = "retired"
  BY <1>3, <1>4, <1>5, <1>7, <1>8, <1>9, ReplaceAnswer
<1>11. Unguarded(r.claim)
  BY <1>3 DEF StoreHolds, Unguarded
<1>12. UNCHANGED <<said, promotions, queue, approvals, budget>>
  BY DEF CallReplace
<1>13. CASE reply.ok
  <2>1. Replace(r) /\ Conclude(h, ReplaceOutcome(reply, seen))
    BY <1>4, <1>6, <1>8, <1>9, <1>10, <1>11, <1>13 DEF CallReplace
  <2>2. ReplaceOutcome(reply, seen) = Outcome("superseded", "transition_allowed", seen + 1)
    BY <1>10, <1>13 DEF ReplaceOutcome
  <2> QED BY <1>1, <1>2, <1>3, <1>6, <1>8, <1>12, <2>1, <2>2, FreshReplaceIsKept
<1>14. CASE ~reply.ok
  <2>1. UNCHANGED authorityVars /\ Conclude(h, Rejected(reply.status))
    BY <1>4, <1>6, <1>8, <1>9, <1>14 DEF CallReplace, ReplaceOutcome
  <2>2. PICK outcome : outcome = Rejected(reply.status)
    OBVIOUS
  <2>3. /\ outcome.decision = "rejected" /\ outcome.version = 0
        /\ Become(h, [proc[h] EXCEPT !.pc = "finalize", !.outcome = outcome])
    BY <2>1, <2>2 DEF Rejected, Outcome, Conclude
  <2>4. /\ outcome.decision \in Decisions \ {"processing"} /\ outcome.decision \notin Granted
        /\ "finalize" \in Closing /\ outcome.version \in Nat
    BY <2>3 DEF Decisions, Closing, Granted
  <2>5. budget["edit"] = 0 => Taught(Memory(c), e) = Memory(c)
    <3>1. current[c].state = "retired" => Memory(c).state = "retired"
      BY <1>3, <1>7, TakenMemory
    <3>2. Memory(c).state = "retired" => Taught(Memory(c), e) = Memory(c)
      BY LeftAlone
    <3> QED BY <1>10, <1>14, <3>1, <3>2
  <2> QED BY <1>1, <1>2, <1>3, <1>5, <1>12, <2>1, <2>3, <2>4, <2>5, ConcludesKeeping
<1> QED BY <1>13, <1>14


\* The claim is retired.
LEMMA FreshRetireIsKept ==
  ASSUME NEW h, Lone(h), Kept(h), NEW n \in 0..Len(said), SoleAt(proc[h], n), proc[h].pc = "retire",
         NEW e, e = said[n + 1], NEW seen, seen = proc[h].seen, Lifecycle(CandidateRetire(e, seen)),
         Conclude(h, Outcome("retracted", "transition_allowed", seen)),
         UNCHANGED <<said, promotions, queue, approvals, budget>>
  PROVE  Kept(h)'
<1>1. TablesHold /\ StoreHolds /\ ChatHolds /\ proc[h].pc \notin Unoccupied
  BY DEF Kept, TablesHold, Unoccupied
<1>2. e \in UserEvents /\ Knows(proc[h], e)
  BY <1>1, AtCandidate
<1>3. PICK c : c = ClaimOf(e)
  OBVIOUS
<1>4. /\ CandidateInfo[e].tier = "activate" /\ Action(e) = "forget"
      /\ c \in DOMAIN current /\ current[c].version = seen /\ current[c].state = "active"
  BY <1>2, <1>3 DEF Knows, Acting, AtVersion, InForce
<1>5. PICK r : r = CandidateRetire(e, seen)
  OBVIOUS
<1>6. r.claim = c /\ r.expected = seen /\ r.idem = e /\ r.action = "retire"
  BY <1>3, <1>5 DEF CandidateRetire
<1>7. c \in Claims /\ seen \in Nat \ {0} /\ <<c, seen>> \in DOMAIN versions
  BY <1>1, <1>2, <1>3, <1>4, CandidateTyped, TakenMemory
<1>8. PICK new : new.version = seen /\ new.state = "retired" /\ current' = Put(current, c, new)
  <2>1. ActionTarget["retire"] = "retired"
    BY DEF ActionTarget
  <2>2. \E gid : current' = Put(current, c, [version |-> seen, gid |-> gid, state |-> "retired"])
    BY <1>4, <1>5, <1>6, <2>1 DEF Lifecycle
  <2>3. PICK gid : current' = Put(current, c, [version |-> seen, gid |-> gid, state |-> "retired"])
    BY <2>2
  <2>4. PICK z : z = [version |-> seen, gid |-> gid, state |-> "retired"]
    OBVIOUS
  <2> QED BY <2>3, <2>4
<1>9. /\ DOMAIN current' = DOMAIN current /\ current'[c] = new
      /\ \A d \in DOMAIN current : d # c => current'[d] = current[d]
  BY <1>4, <1>8 DEF Put
<1>10. /\ UNCHANGED <<versions, ingest, eventGov, guards>>
       /\ gov' = Append(gov, GovEvent(c, seen, "retire", "active", "retired"))
       /\ \E row : row.version = seen /\ receipts' = Put(receipts, e, row)
  <2>1. ActionTarget["retire"] = "retired"
    BY DEF ActionTarget
  <2>2. UNCHANGED <<versions, ingest, eventGov, guards>>
    BY <1>5 DEF Lifecycle
  <2>3. gov' = Append(gov, GovEvent(c, seen, "retire", "active", "retired"))
    BY <1>4, <1>5, <1>6, <2>1 DEF Lifecycle
  <2>4. PICK gid : receipts' = Put(receipts, e, [request |-> r, version |-> seen, gid |-> gid])
    BY <1>5, <1>6 DEF Lifecycle
  <2>5. PICK row : row = [request |-> r, version |-> seen, gid |-> gid]
    OBVIOUS
  <2>6. row.version = seen /\ receipts' = Put(receipts, e, row)
    BY <2>4, <2>5
  <2> QED BY <2>2, <2>3, <2>6
<1>11. VersionsHold /\ CurrentHolds /\ LogHolds
  BY <1>1 DEF StoreHolds
<1>12. VersionsHold'
  <2>1. \A d \in DOMAIN current : current'[d].version = current[d].version
    BY <1>4, <1>8, <1>9
  <2> QED BY <1>9, <1>10, <1>11, <2>1 DEF VersionsHold
<1>13. /\ gov' \in Seq(GovRow) /\ \A g \in DOMAIN gov : g \in DOMAIN gov' /\ gov'[g] = gov[g]
       /\ \A g \in DOMAIN gov' : g \notin DOMAIN gov => gov'[g].claim = c /\ gov'[g].version = seen
  <2>1. PICK row : row = GovEvent(c, seen, "retire", "active", "retired")
    OBVIOUS
  <2>2. row \in GovRow /\ row.claim = c /\ row.version = seen
    BY <1>7, <2>1 DEF GovEvent, GovRow, ActionTarget, LifecycleStates
  <2>3. gov \in Seq(GovRow) /\ gov' = Append(gov, row)
    BY <1>10, <1>11, <2>1 DEF LogHolds
  <2>4. /\ gov' \in Seq(GovRow) /\ \A g \in DOMAIN gov : g \in DOMAIN gov' /\ gov'[g] = gov[g]
        /\ \A g \in DOMAIN gov' : g \notin DOMAIN gov => gov'[g] = row
    BY <2>2, <2>3
  <2> QED BY <2>2, <2>4
<1>14. LogHolds'
  <2>1. \A g \in DOMAIN gov : <<gov[g].claim, gov[g].version>> \in DOMAIN versions
    BY <1>11 DEF LogHolds
  <2>2. ASSUME NEW g \in DOMAIN gov' PROVE <<gov'[g].claim, gov'[g].version>> \in DOMAIN versions'
    BY <1>7, <1>10, <1>13, <2>1, <2>2
  <2> QED BY <1>13, <2>2 DEF LogHolds
<1>15. CurrentHolds'
  <2> SUFFICES ASSUME NEW d \in DOMAIN current'
               PROVE  /\ d \in Claims
                      /\ current'[d].version \in Nat \ {0} /\ current'[d].state \in {"active", "retired"}
                      /\ <<d, current'[d].version>> \in DOMAIN versions'
                      /\ versions'[<<d, current'[d].version>>].content \in Contents
                      /\ \E g \in DOMAIN gov' : gov'[g].claim = d /\ gov'[g].version = current'[d].version
    BY DEF CurrentHolds
  <2>1. /\ d \in Claims
        /\ current[d].version \in Nat \ {0} /\ current[d].state \in {"active", "retired"}
        /\ <<d, current[d].version>> \in DOMAIN versions
        /\ versions[<<d, current[d].version>>].content \in Contents
        /\ \E g \in DOMAIN gov : gov[g].claim = d /\ gov[g].version = current[d].version
    BY <1>9, <1>11 DEF CurrentHolds
  <2>2. current'[d].version = current[d].version /\ current'[d].state \in {"active", "retired"}
    BY <1>4, <1>8, <1>9, <2>1
  <2>3. \E g \in DOMAIN gov' : gov'[g].claim = d /\ gov'[g].version = current[d].version
    BY <1>13, <2>1
  <2> QED BY <1>10, <2>1, <2>2, <2>3
<1>16. StoreHolds'
  <2>1. PICK row : row.version = seen /\ receipts' = Put(receipts, e, row)
    BY <1>10
  <2>2. \A id \in DOMAIN receipts' : receipts'[id].version \in Nat
    BY <1>1, <1>7, <2>1 DEF StoreHolds, Put
  <2> QED BY <1>1, <1>10, <1>12, <1>14, <1>15, <2>2 DEF StoreHolds
<1>17. ChatHolds' /\ RowsTyped' /\ EditsHold' /\ ReceiptNamesItsVersion'
  <2>1. ChatHolds' /\ RowsTyped'
    BY <1>1 DEF TablesHold, ChatHolds, RowsTyped, SaidEvents
  <2>2. EditsHold'
    BY <1>1, <1>10 DEF TablesHold, EditsHold
  <2>3. ReceiptNamesItsVersion'
    BY <1>1, <1>10 DEF TablesHold, ReceiptNamesItsVersion, ClaimOf, Content
  <2> QED BY <2>1, <2>2, <2>3
<1>18. WritesHold'
  <2>1. \A f : Identical(f)' <=> Identical(f)
    <3>1. \A d \in DOMAIN current : current'[d].version = current[d].version
      BY <1>4, <1>8, <1>9
    <3> QED BY <1>9, <1>10, <3>1 DEF Identical, ClaimOf, Content
  <2>2. \A f : WrittenBy(f)' = WrittenBy(f) /\ (Completed(f)' <=> Completed(f))
    BY <1>10 DEF WrittenBy, Completed
  <2> QED BY <1>1, <1>10, <2>1, <2>2 DEF TablesHold, WritesHold, CandidateWritesOnce
<1>19. TablesHold'
  BY <1>16, <1>17, <1>18 DEF TablesHold
<1>20. Now' = Apply(Now, e)
  <2>1. PICK old : old = [state |-> "active", content |-> versions[<<c, seen>>].content]
    OBVIOUS
  <2>2. Memory(c) = old /\ old.state = "active"
    BY <1>4, <2>1 DEF Memory
  <2>3. Taught(old, e) = [old EXCEPT !.state = "retired"]
    BY <1>4, <2>2 DEF Taught
  <2>4. [old EXCEPT !.state = "retired"] = [state |-> "retired", content |-> versions[<<c, seen>>].content]
    BY <2>1
  <2>5. Memory(c)' = [state |-> "retired", content |-> versions[<<c, seen>>].content]
    BY <1>4, <1>8, <1>9, <1>10 DEF Memory
  <2>6. Memory(c)' = Taught(Memory(c), e)
    BY <2>2, <2>3, <2>4, <2>5
  <2>7. \A d \in DOMAIN current' \cup DOMAIN current : d # c =>
          d \in DOMAIN current /\ d \in DOMAIN current' /\ current'[d] = current[d]
    BY <1>9
  <2>8. \A k \in DOMAIN versions : versions'[k] = versions[k]
    BY <1>10
  <2> QED BY <1>1, <1>2, <1>3, <1>16, <2>6, <2>7, <2>8, MemoryChanges
<1>21. PICK outcome : outcome = Outcome("retracted", "transition_allowed", seen)
  OBVIOUS
<1>22. /\ outcome.decision = "retracted" /\ outcome.version \in Nat /\ Conclude(h, outcome)
  BY <1>7, <1>21 DEF Outcome
<1>23. outcome.decision \in Decisions \ {"processing"} /\ outcome.decision \notin Granted
  BY <1>22 DEF Decisions, Granted
<1>24. UNCHANGED <<said, promotions, budget>>
  OBVIOUS
<1> QED BY <1>1, <1>19, <1>20, <1>22, <1>23, <1>24, ConcludesChanging

\* retire commits, or aborts and ends the pass.
LEMMA CallRetireIsKept ==
  ASSUME NEW h, Lone(h), Kept(h), PipeInv, CallRetire(h)
  PROVE  Kept(h)'
<1>1. PICK n \in 0..Len(said) : SoleAt(proc[h], n)
  BY DEF Kept
<1>2. PICK e : e = said[n + 1]
  OBVIOUS
<1>3. proc[h].pc = "retire" /\ proc[h].pc \notin Unoccupied /\ ChatHolds /\ StoreHolds /\ TablesHold
  BY DEF CallRetire, At, Unoccupied, Kept, TablesHold
<1>4. Cand(h) = e /\ Knows(proc[h], e)
  BY <1>1, <1>2, <1>3, AtCandidate
<1>5. PICK c : c = ClaimOf(e)
  OBVIOUS
<1>6. PICK seen : seen = proc[h].seen
  OBVIOUS
<1>7. c \in DOMAIN current /\ current[c].version = seen /\ current[c].state = "active"
  BY <1>3, <1>4, <1>5, <1>6 DEF Knows, AtVersion, InForce
<1>8. e \notin DOMAIN receipts
  BY <1>5, <1>7 DEF PipeInv, AuthorityGood, Retired
<1>9. PICK r : r = CandidateRetire(e, seen)
  OBVIOUS
<1>10. r.claim = c /\ r.expected = seen /\ r.idem = e /\ r.action = "retire"
  BY <1>5, <1>9 DEF CandidateRetire
<1>11. Unguarded(r.claim)
  BY <1>3 DEF StoreHolds, Unguarded
<1>12. LifecycleCurrent(r)
  <2>1. "retire" \in DOMAIN ActionTarget /\ ActionTarget["retire"] = "retired"
    BY DEF ActionTarget
  <2>2. "retired" \in Successors("active")
    BY DEF Successors
  <2> QED BY <1>7, <1>10, <2>1, <2>2 DEF LifecycleCurrent, TransitionAllowed
<1>13. PICK reply : reply = LifecycleReply(r)
  OBVIOUS
<1>14. UNCHANGED <<said, promotions, queue, approvals, budget>>
  BY DEF CallRetire
<1>15. CASE LifecycleAborts(r)
  <2>1. UNCHANGED authorityVars /\ Raise(h)
    BY <1>4, <1>6, <1>8, <1>9, <1>10, <1>12, <1>15 DEF CallRetire
  <2> QED BY <1>14, <2>1, RestsKeeping
<1>16. CASE ~LifecycleAborts(r)
  <2>1. reply = Receipt(TRUE, ActionTarget[r.action], c, seen, Len(gov) + 1)
    BY <1>7, <1>8, <1>10, <1>12, <1>13, <1>16 DEF LifecycleReply
  <2>2. reply.ok = TRUE /\ reply.version = seen
    BY <2>1 DEF Receipt
  <2>3. Lifecycle(r) /\ Conclude(h, RetireOutcome(reply))
    BY <1>4, <1>6, <1>8, <1>9, <1>10, <1>11, <1>13, <1>16, <2>2 DEF CallRetire
  <2>4. RetireOutcome(reply) = Outcome("retracted", "transition_allowed", seen)
    BY <2>2 DEF RetireOutcome
  <2> QED BY <1>1, <1>2, <1>3, <1>6, <1>9, <1>14, <2>3, <2>4, FreshRetireIsKept
<1> QED BY <1>15, <1>16


\* Every step of a lone host keeps it.
LEMMA SoleStep ==
  ASSUME NEW h, Lone(h), NoSecrets, PipeInv, Kept(h), [PipelineNext]_vars
  PROVE  Kept(h)'
<1>1. Actors = {h} /\ Syncs = {h} /\ Reviewers = {} /\ MaxGuards = 0
  BY LoneActor DEF Lone
<1>2. CASE UNCHANGED vars
  <2>1. PICK n \in 0..Len(said) : SoleAt(proc[h], n)
    BY DEF Kept
  <2>2. /\ UNCHANGED <<authorityVars, said, promotions, queue, proc, budget>>
        /\ budget' \in [{"crash", "guard", "edit"} -> Nat] /\ budget'["edit"] = budget["edit"]
    BY <1>2 DEF vars, pipelineVars, Kept, TablesHold, EditsHold
  <2>3. TablesHold'
    BY <2>2, TablesStay DEF Kept
  <2>4. SoleAt(proc[h], n)'
    <3>1. PICK row : row = proc[h]
      OBVIOUS
    <3>2. SoleAt(row, n)'
      BY <2>1, <2>2, <3>1, RowStays
    <3> QED BY <2>2, <3>1, <3>2
  <2>5. DOMAIN proc' = Actors /\ DOMAIN proc'[h] = RowFields /\ n \in 0..Len(said')
    BY <2>2 DEF Kept
  <2> QED BY <2>3, <2>4, <2>5 DEF Kept
<1>3. CASE Step(h)
  <2>1. ~RecordApproval(h)
    BY <1>1 DEF RecordApproval
  <2>2. ~MarkPromoted(h)
    <3>1. proc[h].pc # "mark"
      BY DEF Kept, SoleAt, Place, Aside, Acting, Closing
    <3> QED BY <3>1 DEF MarkPromoted, At
  <2>3. CASE Begin(h) \/ Finish(h) \/ Enqueue_Look(h) \/ Enqueue_Insert(h) \/ Finalize(h) \/ Recover(h)
    BY <2>3, BeginIsKept, FinishIsKept, LookIsKept, InsertIsKept, FinalizeIsKept
  <2>4. CASE Identity(h) \/ Compare(h) \/ Resolve(h) \/ Supersede(h) \/ Retract(h)
    BY <2>4, IdentityIsKept, CompareIsKept, ResolveIsKept, SupersedeIsKept, RetractIsKept
  <2>5. CASE CallWrite(h) \/ CallReplace(h) \/ CallRetire(h)
    BY <2>5, CallWriteIsKept, CallReplaceIsKept, CallRetireIsKept
  <2> QED BY <1>3, <2>1, <2>2, <2>3, <2>4, <2>5 DEF Step
<1>4. CASE Crash(h) \/ Extract(h)
  BY <1>4, FinishIsKept, ExtractIsKept
<1>5. ASSUME NEW e \in UserEvents, Say(e) \/ \E f \in UserEvents : Edit(f, e)
      PROVE  Kept(h)'
  BY <1>5, ChatIsKept
<1>6. \A c : ~GuardOn(c) /\ ~GuardOff(c)
  <2>1. budget["guard"] \in Nat /\ DOMAIN guards = {}
    BY DEF Kept, TablesHold, EditsHold, StoreHolds
  <2>2. ~(budget["guard"] < MaxGuards)
    BY <1>1, <2>1
  <2> QED BY <2>1, <2>2 DEF GuardOn, GuardOff, Spend, Unguarded
<1> QED BY <1>1, <1>2, <1>3, <1>4, <1>5, <1>6 DEF PipelineNext

\* Nothing was said, and nothing is known.
LEMMA SoleStarts ==
  ASSUME NEW h, Lone(h), PipelineInit
  PROVE  Kept(h)
<1>1. /\ DOMAIN versions = {} /\ DOMAIN current = {} /\ DOMAIN receipts = {} /\ DOMAIN ingest = {}
      /\ DOMAIN guards = {} /\ DOMAIN promotions = {} /\ DOMAIN queue = {} /\ gov = <<>> /\ said = <<>>
      /\ eventGov = [e \in UserEvents |-> "none"] /\ budget = [crash |-> 0, guard |-> 0, edit |-> 0]
      /\ proc = [p \in Actors |-> Idle]
  BY DEF PipelineInit, Init, Empty
<1>2. h \in Actors /\ proc[h] = Idle /\ DOMAIN proc = Actors
  BY <1>1, LoneActor
<1>3. StoreHolds
  <2>1. gov \in Seq(GovRow) /\ DOMAIN gov = {}
    BY <1>1
  <2> QED BY <1>1, <2>1 DEF StoreHolds, VersionsHold, CurrentHolds, LogHolds
<1>4. ChatHolds /\ Len(said) = 0
  BY <1>1 DEF ChatHolds
<1>5. RowsTyped /\ ReceiptNamesItsVersion
  BY <1>1 DEF RowsTyped, ReceiptNamesItsVersion
<1>6. WritesHold
  BY <1>1 DEF WritesHold, CandidateWritesOnce, WrittenBy
<1>7. EditsHold
  BY <1>1 DEF EditsHold
<1>8. ~Begun(1) /\ Progress(0)
  BY <1>4 DEF Begun, Progress
<1>9. Place(Idle, 0)
  BY <1>4, <1>8 DEF Place, Idle, Aside, Unoccupied
<1>10. Adds(Idle, 0)
  <2>1. After(said, 0) = Nothing
    BY <1>4, AfterNext DEF ChatHolds
  <2>2. Now = Nothing
    BY <1>1 DEF Now, Memory, Nothing
  <2>3. Idle.pc \notin Closing
    BY DEF Idle, Closing
  <2> QED BY <2>1, <2>2, <2>3 DEF Adds
<1>11. SoleAt(Idle, 0) /\ 0 \in 0..Len(said) /\ DOMAIN Idle = RowFields
  BY <1>4, <1>8, <1>9, <1>10 DEF SoleAt, Idle, RowFields
<1> QED BY <1>2, <1>3, <1>4, <1>5, <1>6, <1>7, <1>11 DEF Kept, TablesHold

\* At the end of a pass all that it saw is decided: the memory is theirs.
LEMMA KeptIsSafe ==
  ASSUME NEW h, Lone(h), Kept(h)
  PROVE  RecoverySafe
<1>1. TablesHold /\ ChatHolds /\ StoreHolds /\ RowsTyped /\ WritesHold /\ ReceiptNamesItsVersion
  BY DEF Kept, TablesHold
<1>2. PICK n \in 0..Len(said) : SoleAt(proc[h], n)
  BY DEF Kept
<1>3. said \in Seq(UserEvents)
  BY <1>1 DEF ChatHolds
<1>4. PipelineTypeOK
  <2>1. DOMAIN said = 1..Len(said)
    BY <1>3
  <2>2. ASSUME NEW p \in Actors PROVE {proc[p].batch[i] : i \in DOMAIN proc[p].batch} \subseteq SaidEvents
    <3>1. p = h
      BY LoneActor
    <3>2. CASE proc[h].pc \in Aside
      <4>1. proc[h].batch = <<>>
        BY <1>2, <3>2 DEF SoleAt, Place
      <4> QED BY <3>1, <4>1
    <3>3. CASE proc[h].pc \notin Aside
      <4>1. proc[h].upto \in n..Len(said) /\ \E m \in 0..n : proc[h].batch = SubSeq(said, m + 1, proc[h].upto)
        BY <1>2, <3>3 DEF SoleAt, Place
      <4>2. PICK upto : upto = proc[h].upto
        OBVIOUS
      <4>3. PICK m \in 0..n : proc[h].batch = SubSeq(said, m + 1, upto)
        BY <4>1, <4>2
      <4>4. m \in Nat /\ upto \in Nat /\ upto <= Len(said) /\ m <= upto /\ Len(said) \in Nat
        <5>1. Len(said) \in Nat /\ n \in 0..Len(said) /\ m \in 0..n
          BY <1>3
        <5>2. upto \in n..Len(said)
          BY <4>1, <4>2
        <5> QED BY <5>1, <5>2
      <4>5. \A i \in DOMAIN SubSeq(said, m + 1, upto) :
              m + i \in 1..Len(said) /\ SubSeq(said, m + 1, upto)[i] = said[m + i]
        BY <1>3, <4>3, <4>4
      <4>6. PICK batch : batch = proc[h].batch
        OBVIOUS
      <4>7. \A i \in DOMAIN batch : batch[i] \in SaidEvents
        BY <2>1, <4>3, <4>5, <4>6 DEF SaidEvents
      <4> QED BY <3>1, <4>6, <4>7
    <3> QED BY <3>2, <3>3
  <2> QED BY <1>1, <2>1, <2>2 DEF PipelineTypeOK, ChatHolds, RowsTyped
<1>5. NewestWins
  <2> SUFFICES ASSUME budget.edit = 0, At(h, "next"), proc[h].batch = <<>>, NEW c \in Claims
               PROVE  Memory(c) = Remembered(SubSeq(said, 1, proc[h].upto))[c]
    BY LoneActor DEF NewestWins, Lone
  <2>1. proc[h].pc = "next" /\ proc[h].pc \notin Aside
    BY DEF At, Aside
  <2>2. PICK upto \in n..Len(said) : upto = proc[h].upto
    BY <1>2, <2>1 DEF SoleAt, Place
  <2>3. PICK m \in 0..n : <<>> = SubSeq(said, m + 1, upto)
    BY <1>2, <2>1, <2>2 DEF SoleAt, Place
  <2>4. upto = n
    <3>1. Len(SubSeq(said, m + 1, upto)) = upto - m
      BY <1>3, <2>2, <2>3
    <3>2. Len(SubSeq(said, m + 1, upto)) = 0
      BY <2>3
    <3> QED BY <2>2, <2>3, <3>1, <3>2
  <2>5. ~Begun(n + 1)
    BY <1>2, <2>1, <2>2, <2>4 DEF SoleAt, Place
  <2>6. Now = After(said, n)
    BY <1>2, <2>5 DEF SoleAt, Adds
  <2>7. Now[c] = Memory(c)
    BY DEF Now
  <2> QED BY <2>2, <2>4, <2>6, <2>7 DEF After
<1> QED BY <1>1, <1>4, <1>5 DEF RecoverySafe, WritesHold

\* A host that is alone does nothing twice, whatever crash it comes back from,
\* reports what it has done, and leaves the memory that the commands add up to.
THEOREM RecoveryIsSafe ==
  ASSUME NEW h, Lone(h), NoSecrets
  PROVE  AloneSpec => []RecoverySafe
<1> DEFINE Here == PipeInv /\ Kept(h)
<1>1. AloneInit => Here
  BY PipelineStarts, SoleStarts DEF AloneInit
<1>2. Here /\ [AloneNext]_aloneVars => Here'
  <2> SUFFICES ASSUME Here, [AloneNext]_aloneVars PROVE Here'
    OBVIOUS
  <2>1. [PipelineNext]_vars
    BY DEF AloneNext, RunCommands, RunAssertions, aloneVars
  <2> QED BY <2>1, PipelineStep, SoleStep
<1>3. Here => RecoverySafe
  BY KeptIsSafe
<1> QED BY <1>1, <1>2, <1>3, PTL DEF AloneSpec
=============================================================================

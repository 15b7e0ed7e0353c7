-------------------------- MODULE Operations_proofs --------------------------
(***************************************************************************)
(* Proofs about the programs an operator runs: the gate before a candidate *)
(* runtime is promoted, the host update, the deployment into a Hermes      *)
(* profile, the Codex and ZCode installers, and the restore of a memory    *)
(* directory.  Each is proved of the component's own steps first and then  *)
(* of the behaviours of the run that checks it.                            *)
(***************************************************************************)
EXTENDS MCOperations, FiniteSetTheorems, TLAPS

-----------------------------------------------------------------------------
(* The gate. *)

Policies == [Cases -> SUBSET Demands]

\* A verdict that is not "invalid" is what the comparison gives for the three
\* things it is bound to, whatever has become of them since.
VerdictOK ==
  verdict.schema = 2 =>
    \/ verdict.result = Invalid
    \/ /\ DOMAIN verdict.cand.of = DOMAIN verdict.base
       /\ verdict.result = Compared(verdict.base, verdict.cand.of, verdict.policy)

GateInv ==
  /\ GateTypeOK
  /\ base \in [Cases -> Values] /\ policy \in Policies /\ pinned \in Policies
  /\ DOMAIN judge = {"pc", "exit", "manifest", "cleared"}
  /\ VerdictOK
  /\ PromotedIsJudged
  /\ VerdictHasItsReport

\* What an assertion demands is kept when the comparison finds it so.
LEMMA CompareKeeps ==
  ASSUME NEW a \in Demands, NEW b, NEW c, Compare(a.operator, b, c)
  PROVE  b # Missing /\ Kept(a, b, c)
BY DEF Compare, Kept, Demands, Operators

LEMMA GuardsAreDemands == Guards \subseteq SUBSET Demands
BY DEF Guards, Demands, Operators, Severities

LEMMA ArtifactShape ==
  ASSUME NEW D \in SUBSET Cases, D # {}, NEW a \in [D -> Values]
  PROVE  a \in Artifacts
BY DEF Artifacts

\* A comparison that passes without a warning has asked something of every case,
\* and was answered.
LEMMA PassedKeeps ==
  ASSUME NEW b, NEW c, NEW p \in [DOMAIN b -> SUBSET Demands],
         NEW result, result = Compared(b, c, p),
         result.status = "passed", result.critical = {}, result.warnings = {},
         NEW k \in DOMAIN b
  PROVE  /\ p[k] # {} /\ b[k] # Missing
         /\ \A a \in p[k] : Kept(a, b[k], c[k])
<1>1. ~ \E j \in DOMAIN b : p[j] = {}
  BY DEF Compared, Invalid
<1>2. /\ result.critical = {j \in DOMAIN b : Failing(b, c, p, j, "critical") # {}}
      /\ result.warnings = {j \in DOMAIN b : Failing(b, c, p, j, "warning") # {}}
  BY DEF Compared, Invalid
<1>3. Failing(b, c, p, k, "critical") = {} /\ Failing(b, c, p, k, "warning") = {}
  BY <1>2
<1>4. \A a \in p[k] : Compare(a.operator, b[k], c[k])
  BY <1>3 DEF Failing, Demands, Severities
<1>5. \A a \in p[k] : b[k] # Missing /\ Kept(a, b[k], c[k])
  BY <1>4, CompareKeeps
<1> QED BY <1>1, <1>5

LEMMA VerdictOfPassed ==
  ASSUME NEW b, NEW c, NEW p
  PROVE  LET r == Compared(b, c, p) IN
           /\ r.status \in {"passed", "blocked", "invalid"}
           /\ r.exit \in 0..2
           /\ r.status = "passed" => r.exit = 0
BY DEF Compared, Invalid

\* The baseline does not change, nor does what is judged of a manifest.
LEMMA JudgedStays ==
  ASSUME NEW CONSTANT m, base' = base
  PROVE  (Judged(m))' = Judged(m)
BY DEF Judged

LEMMA ReportStays ==
  ASSUME VerdictHasItsReport, judge' = judge, report' = report, base' = base
  PROVE  VerdictHasItsReport'
<1>1. PICK m : m = judge.manifest
  OBVIOUS
<1>2. PICK w : w = report.of
  OBVIOUS
<1>3. (Judged(m))' = Judged(m) /\ (Judged(w))' = Judged(w)
  BY JudgedStays
<1>4. judge'.manifest = m /\ report'.of = w
  BY <1>1, <1>2
<1> QED BY <1>1, <1>2, <1>3, <1>4 DEF VerdictHasItsReport

-----------------------------------------------------------------------------
(* One lemma for each kind of step. *)

LEMMA GateStarts == ASSUME GateInit PROVE GateInv
<1>1. PICK v \in {Text(<<"a">>), List(<<"a", "b">>)} : base = [k \in Cases |-> v]
  BY DEF GateInit
<1>2. PICK g \in Guards : policy = [k \in Cases |-> g]
  BY DEF GateInit
<1>3. base \in [Cases -> Values]
  BY <1>1 DEF Values
<1>4. base \in Artifacts
  BY <1>3, ArtifactShape, GateAssumption
<1>5. policy \in Policies /\ pinned \in Policies
  BY <1>2, GuardsAreDemands DEF Policies, GateInit
<1>6. cand \in [claims : BOOLEAN, of : Artifacts]
  BY <1>4 DEF GateInit
<1>7. GateTypeOK
  BY <1>4, <1>6, GateAssumption DEF GateInit, GateTypeOK, NoExit, Reports
<1>8. VerdictOK
  BY DEF GateInit, VerdictOK, NoVerdict
<1>9. PromotedIsJudged /\ VerdictHasItsReport /\ DOMAIN judge = {"pc", "exit", "manifest", "cleared"}
  BY DEF GateInit, PromotedIsJudged, VerdictHasItsReport, NoExit
<1> QED BY <1>3, <1>5, <1>7, <1>8, <1>9 DEF GateInv

\* The candidate is built again: the verdict keeps the one it was made from.
LEMMA EditCandidateKeeps == ASSUME GateInv, EditCandidate PROVE GateInv'
<1> USE DEF GateInv, EditCandidate
<1>1. PICK D \in SUBSET Cases : D # {} /\ cand.of \in [D -> Values]
  BY DEF GateTypeOK, Artifacts
<1>2. cand \in [claims : BOOLEAN, of : Artifacts]
  BY DEF GateTypeOK
<1>3. cand' \in [claims : BOOLEAN, of : Artifacts]
  <2>1. CASE \E k \in DOMAIN cand.of, v \in Values : cand' = [cand EXCEPT !.of[k] = v]
    <3>1. PICK k \in DOMAIN cand.of, v \in Values : cand' = [cand EXCEPT !.of[k] = v]
      BY <2>1
    <3>2. [cand.of EXCEPT ![k] = v] \in [D -> Values]
      BY <1>1, <3>1
    <3>3. [cand.of EXCEPT ![k] = v] \in Artifacts
      BY <1>1, <3>2, ArtifactShape
    <3> QED BY <1>2, <3>1, <3>3
  <2>2. CASE \E k \in Cases : cand' = [cand EXCEPT !.of = Restrict(cand.of, DOMAIN cand.of \ {k})]
    <3>1. PICK k \in Cases : cand' = [cand EXCEPT !.of = Restrict(cand.of, DOMAIN cand.of \ {k})]
      BY <2>2
    <3>2. Restrict(cand.of, DOMAIN cand.of \ {k}) \in [D \ {k} -> Values]
      BY <1>1 DEF Restrict
    <3>3. cand'.of = Restrict(cand.of, DOMAIN cand.of \ {k})
      BY <1>2, <3>1
    <3>4. D \ {k} # {}
      BY <3>2, <3>3
    <3>5. cand'.of \in Artifacts
      BY <3>2, <3>3, <3>4, ArtifactShape
    <3> QED BY <1>2, <3>1, <3>3, <3>5
  <2>3. CASE cand' = [cand EXCEPT !.claims = TRUE]
    BY <1>2, <2>3
  <2> QED BY <2>1, <2>2, <2>3
<1>4. GateTypeOK'
  BY <1>3, GateAssumption DEF GateTypeOK, Change
<1> QED BY <1>4, ReportStays DEF VerdictOK, PromotedIsJudged

LEMMA PolicyKeeps == ASSUME GateInv, EditPolicy \/ Pin PROVE GateInv'
<1> USE DEF GateInv, EditPolicy, Pin
<1>1. policy' \in Policies /\ pinned' \in Policies
  BY GuardsAreDemands DEF Policies
<1>2. GateTypeOK'
  BY GateAssumption DEF GateTypeOK, Change
<1> QED BY <1>1, <1>2, ReportStays DEF VerdictOK, PromotedIsJudged

LEMMA EvaluateKeeps == ASSUME GateInv, Evaluate PROVE GateInv'
<1> USE DEF GateInv, Evaluate
<1>1. VerdictOK'
  <2>1. PICK r : r = Pinned
    OBVIOUS
  <2>2. r = Invalid \/ (DOMAIN cand.of = DOMAIN base /\ r = Compared(base, cand.of, policy))
    BY <2>1 DEF Pinned
  <2>3. /\ verdict'.result = r /\ verdict'.base = base /\ verdict'.cand = cand
        /\ verdict'.policy = policy
    BY <2>1 DEF Bound
  <2> QED BY <2>2, <2>3 DEF VerdictOK
<1> QED BY <1>1, ReportStays DEF GateTypeOK, PromotedIsJudged

\* What is promoted is the candidate of a verdict under the pinned policy.
LEMMA PromoteKeeps == ASSUME GateInv, PromoteCandidate PROVE GateInv'
<1> USE DEF GateInv, PromoteCandidate
<1>1. /\ verdict.schema = 2 /\ verdict.result.status = "passed"
      /\ verdict.policy = pinned /\ verdict.base = base /\ verdict.cand = cand
      /\ verdict.result.critical = {} /\ verdict.result.warnings = {}
  BY DEF VerifiedArtifact
<1>2. verdict.result # Invalid
  BY <1>1 DEF Invalid
<1>3. DOMAIN cand.of = DOMAIN base /\ verdict.result = Compared(base, cand.of, pinned)
  BY <1>1, <1>2 DEF VerdictOK
<1>4. pinned \in [DOMAIN base -> SUBSET Demands]
  BY DEF Policies
<1>5. \A k \in DOMAIN base :
        /\ pinned[k] # {} /\ base[k] # Missing
        /\ \A a \in pinned[k] : Kept(a, base[k], cand.of[k])
  BY <1>1, <1>3, <1>4, PassedKeeps
<1>6. PromotedIsJudged'
  BY <1>3, <1>5 DEF PromotedIsJudged
<1> QED BY <1>6, ReportStays DEF GateTypeOK, VerdictOK

\* The older evaluator: its report is passed only at the end of a run.
LEMMA JudgeKeeps ==
  ASSUME GateInv,
         Clear \/ ClearFails \/ Sentinel \/ ReadManifest \/ WriteReport \/ ReportFails \/ JudgeKilled
  PROVE  GateInv'
<1> USE DEF GateInv
<1>1. VerdictOK' /\ PromotedIsJudged' /\ (base \in [Cases -> Values])'
      /\ (policy \in Policies)' /\ (pinned \in Policies)' /\ base' = base
  BY DEF Clear, ClearFails, Sentinel, ReadManifest, WriteReport, ReportFails, JudgeKilled, Others,
         VerdictOK, PromotedIsJudged
<1>2. CASE Clear \/ Sentinel \/ ReadManifest
  <2>1. /\ judge'.pc \in {"cleared", "begun", "read"} /\ judge'.exit = judge.exit
        /\ judge'.cleared \in BOOLEAN
        /\ DOMAIN judge' = {"pc", "exit", "manifest", "cleared"}
    BY <1>2 DEF Clear, Sentinel, ReadManifest, GateTypeOK
  <2>2. /\ report' = report \/ report'.status \in {"absent", "report_error"}
        /\ report'.status # "passed"
    BY <1>2 DEF Clear, Sentinel, ReadManifest, VerdictHasItsReport
  <2>3. VerdictHasItsReport'
    BY <2>1, <2>2 DEF VerdictHasItsReport
  <2>4. GateTypeOK'
    BY <1>2, <2>1, <2>2 DEF Clear, Sentinel, ReadManifest, Others, GateTypeOK, Reports
  <2> QED BY <1>1, <2>1, <2>3, <2>4
<1>3. CASE WriteReport
  <2>0. PICK m : m = judge.manifest
    OBVIOUS
  <2>1. PICK r : r = Judged(m)
    OBVIOUS
  <2>2. r.status \in Reports /\ r.exit \in 0..2 /\ (r.status = "passed" => r.exit = 0)
    BY <2>1, VerdictOfPassed DEF Judged, Invalid, Reports
  <2>3. /\ judge' = [judge EXCEPT !.pc = "idle", !.exit = r.exit]
        /\ report' = [status |-> r.status, of |-> m]
    BY <1>3, <2>0, <2>1 DEF WriteReport
  <2>4. /\ judge'.pc = "idle" /\ judge'.exit = r.exit /\ judge'.manifest = m
        /\ judge'.cleared = judge.cleared
        /\ DOMAIN judge' = {"pc", "exit", "manifest", "cleared"}
    BY <2>0, <2>3
  <2>5. (Judged(m))' = r
    BY <1>1, <2>1, JudgedStays
  <2>6. /\ report' = [status |-> r.status, of |-> m]
        /\ report'.status = r.status /\ report'.of = m
    BY <2>3
  <2>7. VerdictHasItsReport'
    BY <2>2, <2>3, <2>4, <2>5, <2>6 DEF VerdictHasItsReport
  <2>8. GateTypeOK'
    BY <1>3, <2>2, <2>3, <2>4 DEF WriteReport, Others, GateTypeOK
  <2> QED BY <1>1, <2>4, <2>7, <2>8
<1>4. CASE ReportFails \/ JudgeKilled
  <2>1. /\ judge'.pc = "idle" /\ judge'.exit \in {3, -1} /\ judge'.cleared = judge.cleared
        /\ DOMAIN judge' = {"pc", "exit", "manifest", "cleared"}
    BY <1>4 DEF ReportFails, JudgeKilled, NoExit
  <2>2. report' = report /\ report.status # "passed"
    BY <1>4 DEF ReportFails, JudgeKilled, VerdictHasItsReport
  <2>3. GateTypeOK'
    BY <1>4, <2>1, <2>2, GateAssumption DEF ReportFails, JudgeKilled, Change, GateTypeOK
  <2> QED BY <1>1, <2>1, <2>2, <2>3 DEF VerdictHasItsReport
<1>5. CASE ClearFails
  <2>1. /\ judge'.pc = "idle" /\ judge'.exit \in {3, -1} /\ judge'.cleared = FALSE
        /\ judge'.manifest = judge.manifest /\ judge.pc = "idle"
        /\ DOMAIN judge' = {"pc", "exit", "manifest", "cleared"}
    BY <1>5 DEF ClearFails, NoExit
  <2>2. report' = report
    BY <1>5 DEF ClearFails
  <2>3. PICK w : w = report.of
    OBVIOUS
  <2>4. (Judged(w))' = Judged(w) /\ report'.of = w
    BY <1>1, <2>2, <2>3, JudgedStays
  <2>6. VerdictHasItsReport'
    BY <2>1, <2>2, <2>3, <2>4 DEF VerdictHasItsReport
  <2>5. GateTypeOK'
    BY <1>5, <2>1, <2>2, GateAssumption DEF ClearFails, Change, GateTypeOK
  <2> QED BY <1>1, <2>1, <2>5, <2>6
<1> QED BY <1>2, <1>3, <1>4, <1>5

LEMMA GateStep == ASSUME GateInv, [GateNext]_gateVars PROVE GateInv'
<1>1. CASE GateNext
  BY <1>1, EditCandidateKeeps, PolicyKeeps, EvaluateKeeps, PromoteKeeps, JudgeKeeps
     DEF GateNext
<1>2. CASE UNCHANGED gateVars
  <2>1. /\ judge' = judge /\ report' = report /\ base' = base
        /\ GateTypeOK' /\ VerdictOK' /\ PromotedIsJudged'
        /\ (base \in [Cases -> Values])' /\ (policy \in Policies)' /\ (pinned \in Policies)'
    BY <1>2 DEF gateVars, GateInv, GateTypeOK, VerdictOK, PromotedIsJudged
  <2>2. VerdictHasItsReport'
    BY <2>1, ReportStays DEF GateInv
  <2> QED BY <2>1, <2>2 DEF GateInv
<1> QED BY <1>1, <1>2

\* Nothing is promoted that was not judged as it is under the policy in force, and
\* evaluate_manifest_file gives no verdict that its report does not hold.
THEOREM GateHolds == OperationsSpec => []GateSafe
<1> DEFINE Here == part = "gate" => GateInv
<1>1. OperationsInit => Here
  BY GateStarts DEF OperationsInit
<1>2. Here /\ [OperationsNext]_operationVars => Here'
  <2> SUFFICES ASSUME Here, [OperationsNext]_operationVars, part' = "gate"
               PROVE  GateInv'
    OBVIOUS
  <2>1. part = "gate" /\ [GateNext]_gateVars
    BY DEF OperationsNext, RunUpdate, RunDeploy, RunInstall, RunRestore, RunGate,
           operationVars, hostVars, memoryVars
  <2> QED BY <2>1, GateStep
<1>3. Here => GateSafe
  BY DEF GateSafe, GateInv
<1> QED BY <1>1, <1>2, <1>3, PTL DEF OperationsSpec

-----------------------------------------------------------------------------
(* The host update. *)

Frozen == [Trees -> Versions]
Early == {"idle", "link", "read", "unlink", "preflight", "prepare", "archive", "done"}
Restoring == {"aside", "host", "profile", "soullink", "db", "undo"}
Changing == {"update", "deploy", "verify", "secure"} \cup Restoring

Held == [Trees -> Versions \cup {"none"}]

\* What an invocation knows: nobody has changed the point that its receipt names,
\* frozen before the first change, if it was alone; a restore has the archives of a
\* point and a compensation point.
RowOK(j, pt) ==
  /\ j \in Jobs
  /\ j.pc \notin {"idle", "done", "dead"} => j.op # "none" /\ j.receipt \in Receipts
  /\ j.base # NoPoint => j.receipt \in Receipts /\ (j.alone => pt[j.receipt] = j.base)
  /\ j.pc \in Early => j.base = NoPoint
  /\ j.pc \in Early \ {"archive"} => j.held = NoPoint
  /\ j.op = "run" /\ j.alone /\ j.pc \in Changing \cup {"dead"} => j.base # NoPoint
  /\ j.pc \in Restoring => j.held \in Frozen /\ j.before # NoPoint
  /\ j.outcome = "blocked" => j.base = NoPoint

\* How far the archives or a restore have come, and what a report says, of an
\* invocation that nobody has joined.
TreesOK(j, t, pt) ==
  j.alone =>
    /\ j.pc = "archive" => \A x \in Trees : j.held[x] \in {"none", t[x]}
    /\ j.pc \in Restoring => j.held = pt[j.receipt]
    /\ j.pc \in {"profile", "soullink", "db"} => t["host"] = j.held["host"]
    /\ j.pc \in {"soullink", "db"} => t["profile"] = j.held["profile"]
    /\ j.pc = "db" => t["soullink"] = j.held["soullink"]
    /\ j.pc = "release" =>
         /\ j.outcome = "rolled_back" => t = j.base
         /\ j.outcome = "restored" => t = pt[j.receipt]
         /\ j.outcome = "undone" => t = j.before

\* An invocation that believes itself alone is.
AloneIsAlone ==
  \A p, q \in Procs : Inside(p) /\ Inside(q) /\ job[p].alone => p = q

\* The receipt that is being made is not that of an update which was alone: its own
\* receipt was there when this one's path was looked at.
ArchiveIsFresh ==
  \A p, q \in Procs :
    job[p].pc = "archive" /\ job[q].alone /\ job[q].base # NoPoint => job[p].receipt # job[q].receipt

UpdInv ==
  /\ UpdTypeOK
  /\ \A p \in Procs : RowOK(job[p], point) /\ TreesOK(job[p], tree, point)
  /\ AloneIsAlone
  /\ ArchiveIsFresh

\* What each step of an invocation p does, seen from the others.
StepOK(p) ==
  /\ tree' \in Frozen /\ lock' \in Procs \cup {NoPid} /\ faults' \in 0..MaxFaults
  /\ point' \in [Receipts -> Points]
  /\ \A r \in Receipts : point'[r] # point[r] => job[p].pc = "archive" /\ r = job[p].receipt
  /\ job'[p].pc = "archive" =>
       \/ job[p].pc = "archive" /\ job'[p].receipt = job[p].receipt
       \/ point[job'[p].receipt] = NoPoint
  /\ job'[p].alone /\ job'[p].base # NoPoint => Inside(p) /\ job[p].alone
  /\ tree' # tree \/ point' # point => Inside(p)
  /\ job' \in [Procs -> Jobs]
  /\ \A q \in Procs \ {p} : job'[q] = job[q] \/ job'[q] = [job[q] EXCEPT !.alone = FALSE]
  /\ RowOK(job'[p], point') /\ TreesOK(job'[p], tree', point')
  /\ Inside(p)' /\ job'[p].alone =>
       \/ Inside(p) /\ job[p].alone
       \/ \A q \in Procs \ {p} : ~Inside(q)
  /\ Inside(p)' /\ ~Inside(p) => \A q \in Procs \ {p} : Inside(q) => ~job'[q].alone

LEMMA StepSuffices ==
  ASSUME UpdInv, NEW p \in Procs, StepOK(p)
  PROVE  UpdInv'
<1>1. \A q \in Procs \ {p} : job'[q].pc = job[q].pc /\ (job'[q].alone => job[q].alone)
  BY DEF StepOK, UpdInv, UpdTypeOK, Jobs
<1>2. \A q \in Procs \ {p} : Inside(q)' <=> Inside(q)
  BY <1>1 DEF Inside, Alive
<1>3. AloneIsAlone'
  <2> SUFFICES ASSUME NEW a \in Procs, NEW b \in Procs, Inside(a)', Inside(b)', job'[a].alone
               PROVE  a = b
    BY DEF AloneIsAlone
  <2>1. CASE a = p /\ b # p
    BY <1>2, <2>1 DEF StepOK, UpdInv, AloneIsAlone
  <2>2. CASE a # p /\ b = p
    BY <1>1, <1>2, <2>2 DEF StepOK, UpdInv, AloneIsAlone
  <2>3. CASE a # p /\ b # p
    BY <1>1, <1>2, <2>3 DEF UpdInv, AloneIsAlone
  <2> QED BY <2>1, <2>2, <2>3
<1>4. ASSUME NEW q \in Procs \ {p}
      PROVE  RowOK(job'[q], point') /\ TreesOK(job'[q], tree', point')
  <2>1. /\ job'[q] \in Jobs /\ job[q] \in Jobs
        /\ RowOK(job[q], point) /\ TreesOK(job[q], tree, point)
    BY DEF StepOK, UpdInv, UpdTypeOK
  <2>2. /\ job'[q].pc = job[q].pc /\ job'[q].op = job[q].op
        /\ job'[q].receipt = job[q].receipt /\ job'[q].base = job[q].base
        /\ job'[q].before = job[q].before /\ job'[q].outcome = job[q].outcome
        /\ job'[q].held = job[q].held
    BY <2>1 DEF StepOK, Jobs
  <2>3. ASSUME job'[q].alone, job'[q].base # NoPoint
        PROVE  point'[job[q].receipt] = job[q].base
    <3>1. job[q].alone /\ job[q].base # NoPoint /\ job[q].receipt \in Receipts
          /\ point[job[q].receipt] = job[q].base
      BY <1>1, <2>1, <2>2, <2>3 DEF RowOK
    <3>2. ~(job[p].pc = "archive" /\ job[q].receipt = job[p].receipt)
      BY <3>1 DEF UpdInv, ArchiveIsFresh
    <3> QED BY <3>1, <3>2 DEF StepOK
  <2>4. RowOK(job'[q], point')
    <3>1. job'[q].alone => job[q].alone
      BY <1>1
    <3> QED BY <2>1, <2>2, <2>3, <3>1 DEF RowOK
  <2>5. CASE job'[q].alone /\ Inside(q)
    <3>1. job'[q] = job[q]
      BY <1>1, <2>5 DEF StepOK, UpdInv, UpdTypeOK, Jobs
    <3>2. tree' = tree /\ point' = point
      BY <1>1, <2>5 DEF StepOK, UpdInv, AloneIsAlone
    <3> QED BY <2>1, <2>4, <3>1, <3>2
  <2>6. CASE ~(job'[q].alone /\ Inside(q))
    BY <2>2, <2>4, <2>6 DEF TreesOK, Inside, Alive, Restoring
  <2> QED BY <2>4, <2>5, <2>6
<1>6. ArchiveIsFresh'
  <2> SUFFICES ASSUME NEW a \in Procs, NEW b \in Procs,
                      job'[a].pc = "archive", job'[b].alone, job'[b].base # NoPoint
               PROVE  job'[a].receipt # job'[b].receipt
    BY DEF ArchiveIsFresh
  <2>1. \A q \in Procs \ {p} :
          /\ job'[q].pc = job[q].pc /\ job'[q].receipt = job[q].receipt /\ job'[q].base = job[q].base
          /\ job'[q].alone => job[q].alone
    BY DEF StepOK, UpdInv, UpdTypeOK, Jobs
  <2>2. job'[a].base = NoPoint
    BY <1>4 DEF StepOK, RowOK, Early
  <2>3. CASE a = p /\ b # p
    <3>1. job[b].alone /\ job[b].base # NoPoint /\ point[job[b].receipt] # NoPoint
      BY <2>1, <2>3 DEF UpdInv, RowOK
    <3>2. CASE job[p].pc = "archive" /\ job'[p].receipt = job[p].receipt
      BY <2>1, <2>3, <3>1, <3>2 DEF UpdInv, ArchiveIsFresh
    <3> QED BY <2>1, <2>3, <3>1, <3>2 DEF StepOK
  <2>4. CASE a # p /\ b = p
    <3>1. Inside(p) /\ job[p].alone /\ Inside(a)
      BY <2>1, <2>4 DEF StepOK, Inside, Alive
    <3> QED BY <2>4, <3>1 DEF UpdInv, AloneIsAlone
  <2>5. CASE a # p /\ b # p
    BY <2>1, <2>5 DEF UpdInv, ArchiveIsFresh
  <2> QED BY <2>2, <2>3, <2>4, <2>5
<1>5. UpdTypeOK'
  BY DEF StepOK, UpdTypeOK, Frozen
<1> QED BY <1>3, <1>4, <1>5, <1>6 DEF UpdInv, StepOK

LEMMA NoPointIsNoTree == NoPoint \notin Frozen /\ Frozen \subseteq Points
<1>1. "host" \in Trees /\ NoPoint["host"] = "none" /\ "none" \notin Versions
  BY DEF NoPoint, Trees, Versions
<1> QED BY <1>1 DEF Points, Frozen

LEMMA NoPointHeld == NoPoint \in Held
BY DEF NoPoint, Held

LEMMA NewJobTyped == NewJob \in Jobs
<1>1. NoPoint \in Held /\ NoPoint \in Points
  BY NoPointHeld DEF Points
<1> QED BY <1>1 DEF NewJob, Jobs, Steps, Outcomes, Versions, Held

LEMMA FreshJob ==
  ASSUME NEW pt, NEW t
  PROVE  LET out == [NewJob EXCEPT !.pc = "done"]
         IN  out \in Jobs /\ RowOK(out, pt) /\ TreesOK(out, t, pt)
<1>1. NewJob \in Jobs
  BY NewJobTyped
<1>2. [NewJob EXCEPT !.pc = "done"] \in Jobs
  BY <1>1 DEF Jobs, Steps
<1> QED BY <1>2 DEF NewJob, RowOK, TreesOK, Restoring, Changing

LEMMA UpdateStarts == ASSUME UpdInit PROVE UpdInv
<1>1. NewJob \in Jobs
  BY NewJobTyped
<1>2. UpdTypeOK
  BY <1>1, UpdateAssumption DEF UpdInit, UpdTypeOK, Versions, Points
<1>3. RowOK(NewJob, point) /\ TreesOK(NewJob, tree, point)
  BY <1>1 DEF NewJob, RowOK, TreesOK, Early, Restoring, Changing
<1>4. AloneIsAlone /\ ArchiveIsFresh
  BY DEF UpdInit, AloneIsAlone, ArchiveIsFresh, Inside, Alive, NewJob
<1> QED BY <1>2, <1>3, <1>4 DEF UpdInv, UpdInit

\* A step that touches no tree, no point and no other invocation.
LEMMA QuietStep ==
  ASSUME UpdInv, NEW p \in Procs, UNCHANGED <<tree, point>>,
         lock' \in Procs \cup {NoPid}, faults' \in 0..MaxFaults,
         NEW j \in Jobs, job' = [job EXCEPT ![p] = j], RowOK(j, point), TreesOK(j, tree, point),
         Inside(p)' => Inside(p), Inside(p)' /\ j.alone => job[p].alone,
         j.base = NoPoint, j.pc # "archive"
  PROVE  StepOK(p)
<1>1. job' \in [Procs -> Jobs] /\ job'[p] = j
  BY DEF UpdInv, UpdTypeOK
<1> QED BY <1>1 DEF StepOK, UpdInv, UpdTypeOK, Frozen

\* An invocation begins, meets a lock, gives up, is killed between two writes.
LEMMA OutsideStep ==
  ASSUME UpdInv, NEW p \in Procs,
         \/ \E op \in {"prepare", "run", "restore"}, r \in Receipts : Start(p, op, r)
         \/ ReadOwner(p) \/ UnlinkStale(p) \/ Release(p)
  PROVE  StepOK(p)
<1>1. job[p] \in Jobs /\ job \in [Procs -> Jobs] /\ RowOK(job[p], point)
  BY DEF UpdInv, UpdTypeOK
<1>2. UNCHANGED <<tree, point>> /\ lock' \in Procs \cup {NoPid} /\ faults' \in 0..MaxFaults
  BY DEF Start, ReadOwner, UnlinkStale, Release, UpdInv, UpdTypeOK
<1> DEFINE Out == [NewJob EXCEPT !.pc = "done"]
<1>3. Out \in Jobs /\ RowOK(Out, point) /\ TreesOK(Out, tree, point)
  BY FreshJob
<1>4. CASE Leave(p)
  <2>1. Out.pc = "done" /\ Out.base = NoPoint
    BY DEF NewJob
  <2> HIDE DEF Out
  <2>2. job' = [job EXCEPT ![p] = Out]
    BY <1>4 DEF Leave, Out
  <2>3. ~Inside(p)'
    BY <1>1, <2>1, <2>2 DEF Inside, Alive
  <2> QED BY <1>2, <1>3, <2>1, <2>2, <2>3, QuietStep
<1>5. ASSUME NEW op \in {"prepare", "run", "restore"}, NEW r \in Receipts, Start(p, op, r)
      PROVE  StepOK(p)
  <2> DEFINE j == [job[p] EXCEPT !.pc = "link", !.op = op, !.receipt = r]
  <2>1. job' = [job EXCEPT ![p] = j] /\ job[p].pc = "idle"
    BY <1>5 DEF Start
  <2>2. j \in Jobs
    BY <1>1 DEF Jobs, Steps
  <2>3. RowOK(j, point) /\ TreesOK(j, tree, point)
    BY <1>1, <2>1, <2>2 DEF RowOK, TreesOK, Early, Restoring, Changing, Jobs
  <2>4. ~Inside(p)' /\ j.base = NoPoint /\ j.pc # "archive"
    BY <1>1, <2>1 DEF Inside, Jobs, RowOK, Early
  <2> QED BY <1>2, <2>1, <2>2, <2>3, <2>4, QuietStep
<1>6. ASSUME NEW pc \in {"unlink", "link"}, NEW n \in 0..1,
             job' = [job EXCEPT ![p].pc = pc, ![p].tries = n],
             job[p].pc \in {"read", "unlink"}
      PROVE  StepOK(p)
  <2> DEFINE j == [job[p] EXCEPT !.pc = pc, !.tries = n]
  <2>1. job' = [job EXCEPT ![p] = j]
    BY <1>6
  <2>2. j \in Jobs
    BY <1>1 DEF Jobs, Steps
  <2>3. RowOK(j, point) /\ TreesOK(j, tree, point)
    BY <1>1, <1>6, <2>2 DEF RowOK, TreesOK, Early, Restoring, Changing, Jobs
  <2>4. ~Inside(p)' /\ j.base = NoPoint /\ j.pc # "archive"
    BY <1>1, <1>6, <2>1 DEF Inside, Jobs, RowOK, Early
  <2> QED BY <1>2, <2>1, <2>2, <2>3, <2>4, QuietStep
<1>7. CASE ReadOwner(p) /\ ~Leave(p)
  <2>1. job' = [job EXCEPT ![p].pc = "unlink", ![p].tries = job[p].tries] /\ job[p].pc = "read"
    BY <1>1, <1>7 DEF ReadOwner, Goto, Jobs
  <2> QED BY <1>1, <1>6, <2>1 DEF Jobs
<1>8. CASE UnlinkStale(p) /\ ~Leave(p)
  BY <1>6, <1>8 DEF UnlinkStale
<1> QED BY <1>4, <1>5, <1>7, <1>8 DEF Release

\* The lock is taken: whoever is inside, and the newcomer with him, is no longer
\* alone.
LEMMA LinkStep ==
  ASSUME UpdInv, NEW p \in Procs, Link(p)
  PROVE  StepOK(p)
<1>1. job[p] \in Jobs /\ job \in [Procs -> Jobs] /\ RowOK(job[p], point)
  BY DEF UpdInv, UpdTypeOK
<1>2. UNCHANGED <<tree, point, faults>> /\ job[p].pc = "link"
  BY DEF Link
<1>3. CASE lock # NoPid
  <2> DEFINE j == [job[p] EXCEPT !.pc = "read"]
  <2>1. job' = [job EXCEPT ![p] = j] /\ lock' = lock
    BY <1>3 DEF Link, Goto
  <2>2. j \in Jobs
    BY <1>1 DEF Jobs, Steps
  <2>3. RowOK(j, point) /\ TreesOK(j, tree, point)
    BY <1>1, <1>2, <2>2 DEF RowOK, TreesOK, Early, Restoring, Changing, Jobs
  <2>4. ~Inside(p)' /\ j.base = NoPoint /\ j.pc # "archive"
    BY <1>1, <1>2, <2>1 DEF Inside, Jobs, RowOK, Early
  <2> QED BY <1>2, <2>1, <2>2, <2>3, <2>4, QuietStep DEF UpdInv, UpdTypeOK
<1>4. CASE lock = NoPid
  <2> DEFINE met == {q \in Procs : Inside(q)}
             first == FirstStep(job[p].op)
             j == [job[p] EXCEPT !.pc = first, !.alone = met = {}]
  <2>1. /\ lock' = p
        /\ job' = [q \in Procs |-> IF q = p THEN j
                                   ELSE IF q \in met THEN [job[q] EXCEPT !.alone = FALSE] ELSE job[q]]
    BY <1>4 DEF Link
  <2>2. job[p].op \in {"prepare", "run", "restore"}
    BY <1>1, <1>2 DEF RowOK, Jobs
  <2>3. first \in {"preflight", "prepare", "secure"} /\ (job[p].op = "run" => first = "preflight")
    BY <2>2 DEF FirstStep
  <2>4. (met = {}) \in BOOLEAN
    OBVIOUS
  <2> HIDE DEF first, met
  <2>5. j \in Jobs
    BY <1>1, <2>3, <2>4 DEF Jobs, Steps
  <2>6. RowOK(j, point) /\ TreesOK(j, tree, point)
    BY <1>1, <1>2, <2>3, <2>5 DEF RowOK, TreesOK, Early, Restoring, Changing, Jobs
  <2>7. job' \in [Procs -> Jobs]
    <3>1. \A q \in Procs : [job[q] EXCEPT !.alone = FALSE] \in Jobs
      BY <1>1 DEF Jobs
    <3> QED BY <1>1, <2>1, <2>5, <3>1
  <2>8. /\ ~Inside(p) /\ job'[p] = j /\ j.alone = (met = {})
        /\ j.base = NoPoint /\ j.pc # "archive"
    BY <1>1, <1>2, <2>1, <2>3 DEF Inside, Jobs, RowOK, Early
  <2>9. \A q \in Procs \ {p} :
          /\ job'[q] = job[q] \/ job'[q] = [job[q] EXCEPT !.alone = FALSE]
          /\ Inside(q) => ~job'[q].alone
    BY <1>1, <2>1 DEF met, Jobs
  <2>10. j.alone => \A q \in Procs \ {p} : ~Inside(q)
    BY <2>8 DEF met
  <2> HIDE DEF j
  <2> QED BY <1>2, <2>1, <2>6, <2>7, <2>8, <2>9, <2>10
          DEF StepOK, UpdInv, UpdTypeOK, Frozen
<1> QED BY <1>3, <1>4

\* What an invocation inside the lock does to trees and points concerns nobody who
\* is alone.
LEMMA InsideStep ==
  ASSUME UpdInv, NEW p \in Procs, Inside(p), UNCHANGED lock,
         tree' \in Frozen, faults' \in 0..MaxFaults, point' \in [Receipts -> Points],
         \A r \in Receipts : point'[r] # point[r] => job[p].pc = "archive" /\ r = job[p].receipt,
         NEW j, job' = [job EXCEPT ![p] = j], j.alone = job[p].alone,
         j.pc = "archive" =>
           \/ job[p].pc = "archive" /\ j.receipt = job[p].receipt
           \/ point[j.receipt] = NoPoint,
         RowOK(j, point'), TreesOK(j, tree', point')
  PROVE  StepOK(p)
<1>1. j \in Jobs
  BY DEF RowOK
<1>2. job' \in [Procs -> Jobs] /\ job'[p] = j
  BY <1>1 DEF UpdInv, UpdTypeOK
<1> QED BY <1>2 DEF StepOK, UpdInv, UpdTypeOK

\* run: preflight and the look at the receipt path.
LEMMA PrepareStep ==
  ASSUME UpdInv, NEW p \in Procs, Preflight(p) \/ Prepare(p)
  PROVE  StepOK(p)
<1>1. job[p] \in Jobs /\ job \in [Procs -> Jobs] /\ RowOK(job[p], point)
  BY DEF UpdInv, UpdTypeOK
<1>2. Inside(p) /\ UNCHANGED <<tree, point, lock>> /\ tree \in Frozen /\ faults' \in 0..MaxFaults
  BY UpdateAssumption DEF Preflight, Prepare, Inside, Alive, Fault, UpdInv, UpdTypeOK, Frozen
<1>3. job[p].pc \in {"preflight", "prepare"} /\ job[p].base = NoPoint /\ job[p].receipt \in Receipts
  BY <1>1 DEF Preflight, Prepare, RowOK, Early
<1>4. CASE Goto(p, "prepare")
  <2> DEFINE j == [job[p] EXCEPT !.pc = "prepare"]
  <2>1. j \in Jobs /\ job' = [job EXCEPT ![p] = j]
    BY <1>1, <1>4 DEF Jobs, Steps, Goto
  <2>2. /\ RowOK(j, point') /\ TreesOK(j, tree', point') /\ j.alone = job[p].alone
        /\ j.pc # "archive"
    BY <1>1, <1>2, <1>3, <2>1 DEF RowOK, TreesOK, Early, Restoring, Changing, Jobs
  <2> QED BY <1>2, <2>1, <2>2, InsideStep DEF UpdInv, UpdTypeOK
<1>5. CASE \E said \in {"blocked", "failed"} : Finish(p, said)
  <2>1. PICK said \in {"blocked", "failed"} : Finish(p, said)
    BY <1>5
  <2> DEFINE j == [job[p] EXCEPT !.pc = "release", !.outcome = said, !.held = NoPoint]
  <2>2. j \in Jobs /\ job' = [job EXCEPT ![p] = j]
    BY <1>1, <2>1, NoPointHeld DEF Jobs, Steps, Outcomes, Finish, Held
  <2>3. /\ RowOK(j, point') /\ TreesOK(j, tree', point') /\ j.alone = job[p].alone
        /\ j.pc # "archive"
    BY <1>1, <1>2, <1>3, <2>1, <2>2 DEF RowOK, TreesOK, Early, Restoring, Changing, Jobs
  <2> QED BY <1>2, <2>1, <2>2, <2>3, InsideStep DEF UpdInv, UpdTypeOK
<1>6. CASE Prepare(p) /\ point[job[p].receipt] = NoPoint /\ Goto(p, "archive")
  <2> DEFINE j == [job[p] EXCEPT !.pc = "archive"]
  <2>1. j \in Jobs /\ job' = [job EXCEPT ![p] = j]
    BY <1>1, <1>6 DEF Jobs, Steps, Goto
  <2>2. /\ RowOK(j, point') /\ j.alone = job[p].alone
        /\ j.receipt = job[p].receipt
    BY <1>1, <1>2, <1>3, <2>1 DEF RowOK, TreesOK, Early, Restoring, Changing, Jobs
  <2>3. TreesOK(j, tree', point')
    <3>1. job[p].held = NoPoint
      BY <1>1, <1>6 DEF RowOK, Early, Prepare
    <3>2. j.held = NoPoint /\ j.pc = "archive"
      BY <1>1, <3>1 DEF Jobs
    <3>3. \A w \in Trees : NoPoint[w] = "none"
      BY DEF NoPoint
    <3> HIDE DEF j
    <3> QED BY <3>2, <3>3 DEF TreesOK, Restoring
  <2> QED BY <1>2, <1>6, <2>1, <2>2, <2>3, InsideStep DEF UpdInv, UpdTypeOK
<1> QED BY <1>4, <1>5, <1>6 DEF Preflight, Prepare

\* run: one tree is archived.
LEMMA ArchiveStep ==
  ASSUME UpdInv, NEW p \in Procs, NEW x \in Trees, Archive(p, x)
  PROVE  StepOK(p)
<1>1. /\ job[p] \in Jobs /\ job \in [Procs -> Jobs] /\ tree \in Frozen
      /\ RowOK(job[p], point) /\ TreesOK(job[p], tree, point)
  BY DEF UpdInv, UpdTypeOK, Frozen
<1>2. /\ Inside(p) /\ UNCHANGED <<tree, point, lock, faults>>
      /\ job[p].pc = "archive" /\ job' = [job EXCEPT ![p].held[x] = tree[x]]
  BY DEF Archive, Inside, Alive
<1> DEFINE h == [job[p].held EXCEPT ![x] = tree[x]]
           j == [job[p] EXCEPT !.held = h]
<1>3. h \in Held /\ \A w \in Trees : h[w] = IF w = x THEN tree[x] ELSE job[p].held[w]
  BY <1>1 DEF Jobs, Held, Frozen
<1> HIDE DEF h
<1>4. j \in Jobs /\ job' = [job EXCEPT ![p] = j]
  BY <1>1, <1>2, <1>3 DEF Jobs, Held, h
<1>5. /\ j.pc = "archive" /\ j.held = h /\ j.alone = job[p].alone /\ j.receipt = job[p].receipt
      /\ j.base = job[p].base /\ j.op = job[p].op /\ j.outcome = job[p].outcome
  BY <1>1, <1>2 DEF Jobs
<1> HIDE DEF j
<1>6. RowOK(j, point')
  BY <1>1, <1>2, <1>4, <1>5 DEF RowOK, Early, Restoring, Changing
<1>7. TreesOK(j, tree', point')
  BY <1>1, <1>2, <1>3, <1>5 DEF TreesOK, Restoring
<1> QED BY <1>1, <1>2, <1>4, <1>5, <1>6, <1>7, InsideStep DEF UpdInv, UpdTypeOK

\* run: the recovery point is published, of what was archived.
LEMMA PublishStep ==
  ASSUME UpdInv, NEW p \in Procs, Publish(p)
  PROVE  StepOK(p)
<1>1. /\ job[p] \in Jobs /\ job \in [Procs -> Jobs] /\ tree \in Frozen
      /\ RowOK(job[p], point) /\ TreesOK(job[p], tree, point)
      /\ point \in [Receipts -> Points] /\ faults \in 0..MaxFaults
  BY DEF UpdInv, UpdTypeOK, Frozen
<1>2. /\ Inside(p) /\ UNCHANGED <<tree, lock, faults>> /\ job[p].pc = "archive"
      /\ point' = [point EXCEPT ![job[p].receipt] = job[p].held]
  BY DEF Publish, Inside, Alive
<1>3. job[p].base = NoPoint /\ job[p].receipt \in Receipts /\ job[p].op # "none"
  BY <1>1, <1>2 DEF RowOK, Early
<1>4. job[p].held \in Frozen
  BY <1>1 DEF Publish, Jobs, Frozen
<1>5. job[p].alone => job[p].held = tree
  <2> HAVE job[p].alone
  <2>1. \A w \in Trees : job[p].held[w] = tree[w]
    BY <1>1, <1>2 DEF TreesOK, Publish
  <2> QED BY <1>1, <1>4, <2>1 DEF Frozen
<1>5a. PICK b : b = (IF job[p].alone THEN tree ELSE NoPoint)
  OBVIOUS
<1> DEFINE j == [job[p] EXCEPT !.base = b, !.held = NoPoint,
                      !.pc = IF job[p].op = "run" THEN "update" ELSE "release",
                      !.outcome = IF job[p].op = "run" THEN "none" ELSE "prepared"]
<1>6. job' = [job EXCEPT ![p] = j]
  BY <1>5a DEF Publish
<1>7. tree \in Points /\ tree # NoPoint /\ job[p].held \in Points /\ b \in Points
  BY <1>1, <1>4, <1>5a, NoPointIsNoTree DEF Points
<1>8. j \in Jobs
  BY <1>1, <1>7, NoPointHeld, ZenonT(30) DEF Jobs, Steps, Outcomes, Held
<1>9. point' \in [Receipts -> Points] /\ point'[job[p].receipt] = job[p].held
      /\ \A r \in Receipts : point'[r] # point[r] => r = job[p].receipt
  BY <1>1, <1>2, <1>3, <1>7
<1>10. /\ j.base = b /\ j.receipt = job[p].receipt /\ j.op = job[p].op
       /\ j.pc \in {"update", "release"} /\ j.outcome \in {"none", "prepared"}
       /\ j.alone = job[p].alone
  BY <1>1 DEF Jobs
<1> HIDE DEF j
<1>11. RowOK(j, point') /\ TreesOK(j, tree', point')
  BY <1>3, <1>5, <1>5a, <1>7, <1>8, <1>9, <1>10 DEF RowOK, TreesOK, Early, Restoring, Changing
<1> QED BY <1>1, <1>2, <1>6, <1>9, <1>10, <1>11, InsideStep

\* run: an error while archiving takes the receipt path away.
LEMMA PrepareFailsStep ==
  ASSUME UpdInv, NEW p \in Procs, PrepareFails(p)
  PROVE  StepOK(p)
<1>1. /\ job[p] \in Jobs /\ job \in [Procs -> Jobs] /\ RowOK(job[p], point)
      /\ point \in [Receipts -> Points] /\ tree \in Frozen
  BY DEF UpdInv, UpdTypeOK, Frozen
<1>2. /\ Inside(p) /\ UNCHANGED <<tree, lock>> /\ job[p].pc = "archive"
      /\ point' = [point EXCEPT ![job[p].receipt] = NoPoint] /\ Finish(p, "failed")
      /\ faults' \in 0..MaxFaults
  BY UpdateAssumption DEF PrepareFails, Inside, Alive, Fault, UpdInv, UpdTypeOK
<1>3. job[p].base = NoPoint /\ job[p].receipt \in Receipts
  BY <1>1, <1>2 DEF RowOK, Early
<1> DEFINE j == [job[p] EXCEPT !.pc = "release", !.outcome = "failed", !.held = NoPoint]
<1>4. j \in Jobs /\ job' = [job EXCEPT ![p] = j]
  BY <1>1, <1>2, NoPointHeld DEF Jobs, Steps, Outcomes, Finish, Held
<1>5. /\ RowOK(j, point') /\ TreesOK(j, tree', point') /\ j.alone = job[p].alone
      /\ j.pc # "archive"
  BY <1>1, <1>2, <1>3, <1>4 DEF RowOK, TreesOK, Early, Restoring, Changing, Jobs
<1>6. NoPoint \in Points
  BY DEF Points
<1>7. /\ point' \in [Receipts -> Points]
      /\ \A r \in Receipts : point'[r] # point[r] => r = job[p].receipt
  BY <1>1, <1>2, <1>3, <1>6
<1> QED BY <1>1, <1>2, <1>4, <1>5, <1>7, InsideStep

\* run: the host's updater, the deployment and its verification.
LEMMA ChangeStep ==
  ASSUME UpdInv, NEW p \in Procs, Update(p) \/ Deploy(p) \/ Verify(p)
  PROVE  StepOK(p)
<1>1. job[p] \in Jobs /\ job \in [Procs -> Jobs] /\ RowOK(job[p], point)
  BY DEF UpdInv, UpdTypeOK
<1>2. /\ Inside(p) /\ UNCHANGED <<point, lock, faults>> /\ tree' \in Frozen
      /\ job[p].pc \in {"update", "deploy", "verify"}
  BY DEF Update, Deploy, Verify, Inside, Alive, UpdInv, UpdTypeOK, Frozen, Versions
<1>3. PICK pc \in {"deploy", "verify", "secure", "release"}, said \in {job[p].outcome, "updated"},
           h \in {job[p].held, NoPoint} :
        /\ job' = [job EXCEPT ![p].pc = pc, ![p].outcome = said, ![p].held = h]
        /\ pc = "release" => said = "updated"
        /\ pc # "release" => said = job[p].outcome
  <2>1. CASE \E pc \in {"deploy", "verify", "secure"} : Goto(p, pc)
    <3>1. PICK pc \in {"deploy", "verify", "secure"} : Goto(p, pc)
      BY <2>1
    <3>2. job' = [job EXCEPT ![p].pc = pc, ![p].outcome = job[p].outcome, ![p].held = job[p].held]
      BY <1>1, <3>1 DEF Goto, Jobs
    <3> QED BY <3>2
  <2>2. CASE Finish(p, "updated")
    BY <2>2 DEF Finish
  <2> QED BY <2>1, <2>2 DEF Update, Deploy, Verify
<1> DEFINE j == [job[p] EXCEPT !.pc = pc, !.outcome = said, !.held = h]
<1>9. h \in Held
  BY <1>1, NoPointHeld DEF Jobs, Held
<1>4. j \in Jobs /\ job' = [job EXCEPT ![p] = j]
  BY <1>1, <1>3, <1>9, ZenonT(30) DEF Jobs, Steps, Outcomes, Held
<1>5. /\ RowOK(j, point') /\ TreesOK(j, tree', point') /\ j.alone = job[p].alone
      /\ j.pc # "archive"
  BY <1>1, <1>2, <1>3, <1>4 DEF RowOK, TreesOK, Early, Restoring, Changing, Jobs
<1> QED BY <1>2, <1>4, <1>5, InsideStep DEF UpdInv, UpdTypeOK

\* restore: the compensation point, and the host moved aside.
LEMMA SecureStep ==
  ASSUME UpdInv, NEW p \in Procs, Secure(p) \/ MoveAside(p)
  PROVE  StepOK(p)
<1>1. /\ job[p] \in Jobs /\ job \in [Procs -> Jobs]
      /\ RowOK(job[p], point) /\ TreesOK(job[p], tree, point)
  BY DEF UpdInv, UpdTypeOK
<1>2. /\ Inside(p) /\ UNCHANGED <<point, lock>> /\ tree \in Frozen /\ tree' \in Frozen
      /\ faults' \in 0..MaxFaults /\ job[p].pc \in {"secure", "aside"}
  BY UpdateAssumption
     DEF Secure, MoveAside, Inside, Alive, Fault, UpdInv, UpdTypeOK, Frozen, Versions
<1>3. CASE Secure(p) /\ ~Finish(p, "failed")
  <2> DEFINE h == point[job[p].receipt]
             j == [job[p] EXCEPT !.pc = "aside", !.before = tree, !.held = h]
  <2>1. job' = [job EXCEPT ![p] = j] /\ h # NoPoint /\ job[p].pc = "secure"
    BY <1>3 DEF Secure
  <2>2. tree \in Points /\ tree # NoPoint
    BY <1>2, NoPointIsNoTree
  <2>5. h \in Frozen
    BY <1>1, <2>1 DEF RowOK, UpdInv, UpdTypeOK, Points, Frozen
  <2>3. j \in Jobs
    BY <1>1, <2>2, <2>5 DEF Jobs, Steps, Frozen
  <2>4. /\ RowOK(j, point') /\ TreesOK(j, tree', point') /\ j.alone = job[p].alone
        /\ j.pc # "archive"
    BY <1>1, <1>2, <2>1, <2>2, <2>3, <2>5 DEF RowOK, TreesOK, Early, Restoring, Changing, Jobs
  <2> QED BY <1>2, <2>1, <2>4, InsideStep DEF UpdInv, UpdTypeOK
<1>4. CASE Finish(p, "failed")
  <2> DEFINE j == [job[p] EXCEPT !.pc = "release", !.outcome = "failed", !.held = NoPoint]
  <2>1. j \in Jobs /\ job' = [job EXCEPT ![p] = j]
    BY <1>1, <1>4, NoPointHeld DEF Jobs, Steps, Outcomes, Finish, Held
  <2>2. /\ RowOK(j, point') /\ TreesOK(j, tree', point') /\ j.alone = job[p].alone
        /\ j.pc # "archive"
    BY <1>1, <1>2, <2>1 DEF RowOK, TreesOK, Early, Restoring, Changing, Jobs
  <2> QED BY <1>2, <2>1, <2>2, InsideStep DEF UpdInv, UpdTypeOK
<1>5. CASE MoveAside(p) /\ tree["host"] = "gone"
  <2> DEFINE j == [job[p] EXCEPT !.pc = "undo"]
  <2>1. j \in Jobs /\ job' = [job EXCEPT ![p] = j] /\ job[p].pc = "aside"
    BY <1>1, <1>5 DEF Jobs, Steps, MoveAside, Goto
  <2>2. /\ RowOK(j, point') /\ TreesOK(j, tree', point') /\ j.alone = job[p].alone
        /\ j.pc # "archive"
    BY <1>1, <1>2, <2>1 DEF RowOK, TreesOK, Early, Restoring, Changing, Jobs
  <2> QED BY <1>2, <2>1, <2>2, InsideStep DEF UpdInv, UpdTypeOK
<1>6. CASE MoveAside(p) /\ tree["host"] # "gone"
  <2> DEFINE j == [job[p] EXCEPT !.pc = "host", !.aside = tree["host"]]
  <2>1. job' = [job EXCEPT ![p] = j] /\ job[p].pc = "aside" /\ tree["host"] \in Versions
    BY <1>2, <1>6 DEF MoveAside, Frozen, Trees
  <2>2. j \in Jobs
    BY <1>1, <2>1 DEF Jobs, Steps
  <2>3. /\ RowOK(j, point') /\ TreesOK(j, tree', point') /\ j.alone = job[p].alone
        /\ j.pc # "archive"
    BY <1>1, <1>2, <2>1, <2>2 DEF RowOK, TreesOK, Early, Restoring, Changing, Jobs
  <2> QED BY <1>2, <2>1, <2>3, InsideStep DEF UpdInv, UpdTypeOK
<1> QED BY <1>3, <1>4, <1>5, <1>6

\* restore: tree by tree, from the point; each tree that is written stays.
LEMMA WriteTreeStep ==
  ASSUME UpdInv, NEW p \in Procs, NEW x \in Trees, WriteTree(p, x)
  PROVE  StepOK(p)
<1>1. /\ job[p] \in Jobs /\ job \in [Procs -> Jobs]
      /\ RowOK(job[p], point) /\ TreesOK(job[p], tree, point)
  BY DEF UpdInv, UpdTypeOK
<1> DEFINE r == job[p].receipt
           h == job[p].held
<1>2. /\ Inside(p) /\ UNCHANGED <<point, lock>> /\ tree \in Frozen
      /\ job[p].pc = x /\ x \in {"host", "profile", "soullink", "db"}
  BY DEF WriteTree, Inside, Alive, UpdInv, UpdTypeOK, Frozen, Trees
<1>3. /\ r \in Receipts /\ h \in Frozen /\ job[p].before # NoPoint
      /\ job[p].alone => h = point[r]
  BY <1>1, <1>2 DEF RowOK, TreesOK, Restoring
<1>4. CASE tree' = [tree EXCEPT ![x] = h[x]] /\ x # "db" /\ Goto(p, Following(x)) /\ UNCHANGED faults
  <2> DEFINE j == [job[p] EXCEPT !.pc = Following(x)]
  <2>1. tree' \in Frozen
    BY <1>2, <1>3, <1>4 DEF Frozen
  <2>2. /\ x = "host" => Following(x) = "profile"
        /\ x = "profile" => Following(x) = "soullink"
        /\ x = "soullink" => Following(x) = "db"
    BY DEF Following
  <2>3. Following(x) \in {"profile", "soullink", "db"}
    BY <1>2, <1>4, <2>2
  <2>4. j \in Jobs /\ job' = [job EXCEPT ![p] = j]
    BY <1>1, <1>4, <2>3 DEF Jobs, Steps, Goto
  <2>5. /\ j.pc = Following(x) /\ j.alone = job[p].alone /\ j.receipt = r /\ j.op = job[p].op
        /\ j.held = h
        /\ j.base = job[p].base /\ j.before = job[p].before /\ j.outcome = job[p].outcome
    BY <1>1 DEF Jobs
  <2>6. RowOK(j, point')
    BY <1>1, <1>2, <2>3, <2>4, <2>5 DEF RowOK, Early, Restoring, Changing
  <2>7. tree'[x] = h[x] /\ \A y \in Trees \ {x} : tree'[y] = tree[y]
    BY <1>2, <1>4 DEF Frozen
  <2>8. TreesOK(j, tree', point')
    BY <1>1, <1>2, <1>3, <2>2, <2>3, <2>5, <2>7 DEF TreesOK, Trees
  <2>9. j.pc # "archive"
    BY <2>3, <2>5
  <2> HIDE DEF j
  <2> QED BY <1>2, <1>4, <2>1, <2>4, <2>5, <2>6, <2>8, <2>9, InsideStep DEF UpdInv, UpdTypeOK
<1>5. CASE tree' = [tree EXCEPT ![x] = h[x]] /\ x = "db" /\ Finish(p, RestoreOutcome(p)) /\ UNCHANGED faults
  <2> DEFINE said == RestoreOutcome(p)
             j == [job[p] EXCEPT !.pc = "release", !.outcome = said, !.held = NoPoint]
  <2>1. tree' \in Frozen
    BY <1>2, <1>3, <1>5 DEF Frozen
  <2>2. said \in {"rolled_back", "restored"} /\ (said = "rolled_back" => job[p].op = "run")
    BY DEF RestoreOutcome
  <2>3. job' = [job EXCEPT ![p] = j]
    BY <1>5 DEF Finish
  <2> HIDE DEF said
  <2>4. j \in Jobs
    BY <1>1, <2>2, NoPointHeld DEF Jobs, Steps, Outcomes, Held
  <2>5. /\ j.pc = "release" /\ j.alone = job[p].alone /\ j.receipt = r /\ j.op = job[p].op
        /\ j.base = job[p].base /\ j.before = job[p].before /\ j.outcome = said
    BY <1>1 DEF Jobs
  <2>6. RowOK(j, point')
    BY <1>1, <1>2, <2>2, <2>4, <2>5 DEF RowOK, Early, Restoring, Changing
  <2>7. ASSUME j.alone PROVE tree' = point[r]
    <3>1. \A y \in Trees : tree'[y] = h[y]
      BY <1>1, <1>2, <1>3, <1>5, <2>5, <2>7 DEF TreesOK, Trees, Frozen
    <3>2. tree' = h
      BY <1>3, <2>1, <3>1 DEF Frozen
    <3> QED BY <1>3, <2>5, <2>7, <3>2
  <2>8. said = "rolled_back" /\ j.alone => point[r] = job[p].base
    <3>1. job[p].op = "run" /\ job[p].alone => job[p].base # NoPoint
      BY <1>1, <1>2 DEF RowOK, Changing, Restoring
    <3> QED BY <1>1, <2>2, <2>5, <3>1 DEF RowOK
  <2>9. TreesOK(j, tree', point')
    BY <1>2, <2>2, <2>5, <2>7, <2>8 DEF TreesOK, Restoring
  <2> HIDE DEF j
  <2> QED BY <1>2, <1>5, <2>1, <2>3, <2>5, <2>6, <2>9, InsideStep DEF UpdInv, UpdTypeOK
<1>6. CASE Fault /\ tree' = [tree EXCEPT ![x] = "half", !["host"] = job[p].aside] /\ Goto(p, "undo")
  <2> DEFINE j == [job[p] EXCEPT !.pc = "undo"]
  <2>1. tree' \in Frozen /\ faults' \in 0..MaxFaults
    <3>1. job[p].aside \in Versions /\ "half" \in Versions
      BY <1>1 DEF Jobs, Versions
    <3>2. faults' \in 0..MaxFaults
      BY <1>6, UpdateAssumption DEF Fault, UpdInv, UpdTypeOK
    <3> QED BY <1>2, <1>6, <3>1, <3>2 DEF Frozen
  <2>2. j \in Jobs /\ job' = [job EXCEPT ![p] = j]
    BY <1>1, <1>6 DEF Jobs, Steps, Goto
  <2>3. /\ RowOK(j, point') /\ TreesOK(j, tree', point') /\ j.alone = job[p].alone
        /\ j.pc # "archive"
    BY <1>1, <1>2, <2>2 DEF RowOK, TreesOK, Early, Restoring, Changing, Jobs
  <2> QED BY <1>2, <2>1, <2>2, <2>3, InsideStep DEF UpdInv, UpdTypeOK
<1> QED BY <1>2, <1>4, <1>5, <1>6 DEF WriteTree

\* restore: the compensation point is put back, or what is there needs repair.
LEMMA CompensateStep ==
  ASSUME UpdInv, NEW p \in Procs, Compensate(p)
  PROVE  StepOK(p)
<1>1. /\ job[p] \in Jobs /\ job \in [Procs -> Jobs]
      /\ RowOK(job[p], point) /\ TreesOK(job[p], tree, point)
  BY DEF UpdInv, UpdTypeOK
<1>2. Inside(p) /\ UNCHANGED <<point, lock>> /\ tree \in Frozen /\ job[p].pc = "undo"
  BY DEF Compensate, Inside, Alive, UpdInv, UpdTypeOK, Frozen
<1>3. job[p].before \in Frozen
  BY <1>1, <1>2 DEF RowOK, Restoring, Jobs, Points, Frozen
<1>4. PICK said \in {"undone", "repair"} :
        /\ Finish(p, said) /\ (said = "undone" => tree' = job[p].before)
        /\ tree' \in Frozen /\ faults' \in 0..MaxFaults
  BY <1>2, <1>3, UpdateAssumption DEF Compensate, Fault, UpdInv, UpdTypeOK, Frozen, Versions
<1> DEFINE j == [job[p] EXCEPT !.pc = "release", !.outcome = said, !.held = NoPoint]
<1>5. j \in Jobs /\ job' = [job EXCEPT ![p] = j]
  BY <1>1, <1>4, NoPointHeld DEF Jobs, Steps, Outcomes, Finish, Held
<1>6. /\ RowOK(j, point') /\ TreesOK(j, tree', point') /\ j.alone = job[p].alone
      /\ j.pc # "archive"
  BY <1>1, <1>2, <1>4, <1>5 DEF RowOK, TreesOK, Early, Restoring, Changing, Jobs
<1> QED BY <1>2, <1>4, <1>5, <1>6, InsideStep DEF UpdInv, UpdTypeOK

\* A kill at any point: what the invocation had frozen stays known.
LEMMA KilledStep ==
  ASSUME UpdInv, NEW p \in Procs, Crash(p)
  PROVE  StepOK(p)
<1>1. job[p] \in Jobs /\ job \in [Procs -> Jobs] /\ RowOK(job[p], point)
  BY DEF UpdInv, UpdTypeOK
<1>2. /\ UNCHANGED <<point, lock, faults>> /\ tree' \in Frozen
      /\ tree' # tree => Inside(p)
  BY DEF Crash, UpdInv, UpdTypeOK, Frozen, Versions, Trees, Inside, Alive
<1> DEFINE dead == [NewJob EXCEPT !.pc = "dead"]
           kept == job[p].op = "run" /\ job[p].alone /\ job[p].base # NoPoint
           j == IF kept THEN [dead EXCEPT !.op = "run", !.receipt = job[p].receipt, !.base = job[p].base]
                        ELSE dead
<1>3. job' = [job EXCEPT ![p] = j]
  BY DEF Crash, Die
<1>4. dead \in Jobs
  BY NewJobTyped DEF Jobs, Steps
<1>5. j \in Jobs
  BY <1>1, <1>4 DEF Jobs
<1>6. /\ j.pc = "dead" /\ j.outcome = "none" /\ j.alone
      /\ IF kept THEN j.op = "run" /\ j.receipt = job[p].receipt /\ j.base = job[p].base
                 ELSE j.op = "none" /\ j.base = NoPoint
  BY DEF NewJob
<1> HIDE DEF j
<1>7. RowOK(j, point') /\ TreesOK(j, tree', point')
  BY <1>1, <1>2, <1>5, <1>6 DEF RowOK, TreesOK, Early, Restoring, Changing
<1>8. job' \in [Procs -> Jobs] /\ job'[p] = j /\ ~Inside(p)'
  BY <1>1, <1>3, <1>5, <1>6 DEF Inside, Alive
<1>9. j.base # NoPoint => Inside(p) /\ job[p].alone
  BY <1>1, <1>6 DEF RowOK, Early, Inside, Alive, Crash
<1> QED BY <1>2, <1>3, <1>6, <1>7, <1>8, <1>9 DEF StepOK, UpdInv, UpdTypeOK, Frozen

LEMMA UpdateStep == ASSUME UpdInv, [UpdNext]_updVars PROVE UpdInv'
<1>1. CASE UpdNext
  <2>1. PICK p \in Procs : UpdStep(p)
    BY <1>1 DEF UpdNext
  <2>2. StepOK(p)
    BY <2>1, OutsideStep, LinkStep, PrepareStep, ArchiveStep, PublishStep,
       PrepareFailsStep, ChangeStep, SecureStep, WriteTreeStep,
       CompensateStep, KilledStep DEF UpdStep
  <2> QED BY <2>2, StepSuffices
<1>2. CASE UNCHANGED updVars
  BY <1>2 DEF updVars, UpdInv, UpdTypeOK, RowOK, TreesOK, AloneIsAlone, ArchiveIsFresh, Inside, Alive
<1> QED BY <1>1, <1>2

\* What an invocation of hermes_update.py reports is what it left, and the point its
\* receipt names holds the trees of before for as long as they may be needed.
THEOREM UpdateHolds == OperationsSpec => []UpdateSafe
<1> DEFINE Here == part = "update" => UpdInv
<1>1. OperationsInit => Here
  BY UpdateStarts DEF OperationsInit
<1>2. Here /\ [OperationsNext]_operationVars => Here'
  <2> SUFFICES ASSUME Here, [OperationsNext]_operationVars, part' = "update"
               PROVE  UpdInv'
    OBVIOUS
  <2>1. part = "update" /\ [UpdNext]_updVars
    BY DEF OperationsNext, RunUpdate, RunDeploy, RunInstall, RunRestore, RunGate,
           operationVars, hostVars, memoryVars
  <2> QED BY <2>1, UpdateStep
<1>3. Here => UpdateSafe
  <2> SUFFICES ASSUME UpdInv PROVE UpdTypeOK /\ ReportsAreExact /\ WayBackKept
    BY DEF UpdateSafe
  <2>1. ReportsAreExact
    BY DEF UpdInv, RowOK, TreesOK, ReportsAreExact
  <2>2. WayBackKept
    BY DEF UpdInv, RowOK, WayBackKept, Changing, Restoring, Trees
  <2> QED BY <2>1, <2>2 DEF UpdInv
<1> QED BY <1>1, <1>2, <1>3, PTL DEF OperationsSpec

-----------------------------------------------------------------------------
(* The deployment into a Hermes profile. *)

Adapting == {"adapt", "hostReceipt", "plugins", "config", "soul", "verify", "hand",
             "undoHome", "undoHost"}
HomeIsBack == {"undoHost", "undoRest", "backHost", "backRest"}

\* The saved entries are those of before, and saved sources are plain ones.
BackupsTrue ==
  \A b \in Backups :
    /\ bak[b].home = bak[b].before.home /\ bak[b].roots = bak[b].before.roots
    /\ bak[b].hostSaved \in {"none", "plain"}
    /\ bak[b].hostSaved # "none" => bak[b].there

\* The running command has a backup; while it can still be undone the sources are
\* those of before, or saved as they were; then entry by entry is back.
CommandTrue ==
  LET b == djob.b IN
  /\ djob.pc # "idle" => b \in Backups /\ bak[b].there
  /\ djob.pc \in Adapting =>
       IF bak[b].hostSaved = "none" THEN src = bak[b].before.src
                                    ELSE bak[b].hostSaved = bak[b].before.src
  /\ djob.pc \in HomeIsBack => home = bak[b].home /\ roots \subseteq bak[b].roots
  /\ djob.pc = "undoRest" => src = bak[b].before.src
  /\ djob.pc \in {"undoRest", "backRest"} => bak[b].hostSaved = "none"

DepInv == DepTypeOK /\ BackupsTrue /\ CommandTrue /\ PatchHasSource

\* Records are told apart by their fields.
LEMMA BakFields ==
  ASSUME NEW r \in Bak
  PROVE  /\ r.there \in BOOLEAN /\ r.home \in [Entries -> Content] /\ r.roots \subseteq RootNames
         /\ r.older \subseteq Backups /\ r.hostSaved \in Sources \cup {"none"}
         /\ r.hostReceipt \in BOOLEAN
         /\ r.before.src \in Sources
BY DEF Bak

LEMMA NoBakTyped == NoBak \in Bak
BY DEF NoBak, Bak, Content, Sources

LEMMA DeployStarts == ASSUME DepInit PROVE DepInv
<1>1. DepTypeOK
  <2>1. home \in [Entries -> Content]
    BY DEF DepInit, Content
  <2>2. 0 \in 0..MaxChanges
    BY DeploymentAssumption
  <2> QED BY <2>1, <2>2, NoBakTyped DEF DepInit, DepTypeOK, Sources, Idle, Phases
<1>2. BackupsTrue
  BY DEF DepInit, BackupsTrue, NoBak
<1>3. CommandTrue /\ PatchHasSource
  BY DEF DepInit, CommandTrue, PatchHasSource, Idle, Adapting, HomeIsBack
<1> QED BY <1>1, <1>2, <1>3 DEF DepInv

\* A step of a command that changes no backup and no source.
LEMMA PlainStep ==
  ASSUME DepInv, UNCHANGED <<src, roots, bak, changes, wiped>>,
         home' \in [Entries -> Content], known' \subseteq Backups,
         djob' \in [pc : Phases, b : Backups \cup {"none"},
                    outcome : {"none", "kept", "refused", "failed", "applied", "rolled_back",
                               "crashed"}],
         \/ djob'.pc = "idle"
         \/ djob'.pc = "backHome" /\ djob'.b \in Backups /\ bak[djob'.b].there
         \/ /\ djob'.pc \in Adapting \ HomeIsBack /\ djob.pc \in Adapting /\ djob'.b = djob.b
  PROVE  DepInv'
<1>1. DepTypeOK'
  BY DEF DepInv, DepTypeOK
<1>2. BackupsTrue' /\ PatchHasSource'
  BY DEF DepInv, BackupsTrue, PatchHasSource
<1>3. CommandTrue'
  BY DEF DepInv, CommandTrue, Adapting, HomeIsBack
<1> QED BY <1>1, <1>2, <1>3 DEF DepInv

LEMMA StartApplyKeeps ==
  ASSUME DepInv, NEW b \in Backups, StartApply(b) PROVE DepInv'
<1>1. CASE UNCHANGED bak /\ djob' \in {Idle("refused"), Idle("kept"), Idle("failed")}
  BY <1>1, PlainStep DEF StartApply, Idle, Phases, DepInv, DepTypeOK
<1>2. CASE djob' = [pc |-> "adapt", b |-> b, outcome |-> "none"]
  <2> DEFINE new == [NoBak EXCEPT !.there = TRUE, !.home = home, !.roots = roots,
                          !.older = {o \in Backups : bak[o].there},
                          !.before = [src |-> src, home |-> home, roots |-> roots]]
  <2>1. bak' = [bak EXCEPT ![b] = new] /\ UNCHANGED <<src, home, roots, known, changes, wiped>>
    BY <1>2 DEF StartApply, Idle
  <2>2. ~bak[b].there
    BY DEF StartApply
  <2>3. new \in Bak
    BY DEF DepInv, DepTypeOK, NoBak, Bak
  <2>4. /\ new.home = new.before.home /\ new.roots = new.before.roots /\ new.hostSaved = "none"
        /\ new.before.src = src /\ new.there
    BY DEF NoBak
  <2> HIDE DEF new
  <2>5. bak' \in [Backups -> Bak] /\ bak'[b] = new /\ \A o \in Backups \ {b} : bak'[o] = bak[o]
    BY <2>1, <2>3 DEF DepInv, DepTypeOK
  <2>6. DepTypeOK'
    BY <1>2, <2>1, <2>5 DEF DepInv, DepTypeOK, Phases
  <2>7. BackupsTrue'
    BY <2>4, <2>5 DEF DepInv, BackupsTrue
  <2>8. CommandTrue'
    BY <1>2, <2>1, <2>4, <2>5 DEF CommandTrue, Adapting, HomeIsBack
  <2>9. PatchHasSource'
    BY <2>1, <2>2, <2>5 DEF DepInv, BackupsTrue, PatchHasSource
  <2> QED BY <2>6, <2>7, <2>8, <2>9 DEF DepInv
<1> QED BY <1>1, <1>2 DEF StartApply

\* A step of a command that changes its backup, but not what it has of the profile.
LEMMA BackupStep ==
  ASSUME DepInv, NEW b \in Backups, NEW new \in Bak, bak' = [bak EXCEPT ![b] = new],
         new.home = bak[b].home, new.roots = bak[b].roots, new.before = bak[b].before,
         new.there = bak[b].there, bak[b].there, new.hostSaved \in {"none", "plain"}
  PROVE  /\ bak' \in [Backups -> Bak] /\ BackupsTrue' /\ bak'[b] = new
         /\ \A o \in Backups \ {b} : bak'[o] = bak[o]
<1>1. /\ bak' \in [Backups -> Bak] /\ bak'[b] = new
      /\ \A o \in Backups \ {b} : bak'[o] = bak[o]
  BY DEF DepInv, DepTypeOK
<1> QED BY <1>1 DEF DepInv, BackupsTrue

\* HostAdapterController.apply: what it saves is what it patches.
LEMMA AdaptKeeps == ASSUME DepInv, AdaptHost \/ WriteHostReceipt PROVE DepInv'
<1> DEFINE b == djob.b
<1>1. /\ b \in Backups /\ bak[b].there /\ bak[b] \in Bak /\ DOMAIN bak = Backups
      /\ djob.pc \in {"adapt", "hostReceipt"}
  BY DEF AdaptHost, WriteHostReceipt, DepInv, DepTypeOK, CommandTrue
<1>2. CASE UNCHANGED <<src, bak>>
  <2>1. /\ djob' \in [pc : Phases, b : Backups \cup {"none"},
                      outcome : {"none", "kept", "refused", "failed", "applied", "rolled_back",
                                 "crashed"}]
        /\ djob'.pc \in Adapting \ HomeIsBack /\ djob'.b = b /\ djob.pc \in Adapting
        /\ UNCHANGED <<home, roots, known, changes, wiped>>
    BY <1>1, <1>2
       DEF AdaptHost, WriteHostReceipt, DepGoto, DepInv, DepTypeOK, Phases, Adapting, HomeIsBack
  <2> QED BY <1>2, <2>1, PlainStep DEF DepInv, DepTypeOK
<1>3. CASE AdaptHost /\ ~UNCHANGED <<src, bak>>
  <2> DEFINE new == [bak[b] EXCEPT !.hostSaved = "plain"]
  <2>1. /\ src = "plain" /\ src' = "patched" /\ bak' = [bak EXCEPT ![b] = new]
        /\ djob' = [djob EXCEPT !.pc = "hostReceipt"] /\ djob.pc = "adapt"
        /\ UNCHANGED <<home, roots, known, changes, wiped>>
    BY <1>3 DEF AdaptHost, HostClass, DepGoto, DepInv, DepTypeOK, Sources
  <2>2. new \in Bak
    BY <1>1 DEF Bak, Sources
  <2>3. /\ new.home = bak[b].home /\ new.roots = bak[b].roots /\ new.before = bak[b].before
        /\ new.there = bak[b].there /\ new.hostSaved = "plain"
    BY <1>1 DEF Bak
  <2> HIDE DEF new
  <2>4. /\ bak' \in [Backups -> Bak] /\ BackupsTrue' /\ bak'[b] = new
    BY <1>1, <2>1, <2>2, <2>3, BackupStep
  <2>5. DepTypeOK'
    BY <2>1, <2>4 DEF DepInv, DepTypeOK, Phases, Sources
  <2>6. CommandTrue'
    BY <1>1, <2>1, <2>3, <2>4
       DEF DepInv, DepTypeOK, BackupsTrue, CommandTrue, Adapting, HomeIsBack
  <2>7. PatchHasSource'
    BY <1>1, <2>3, <2>4 DEF PatchHasSource
  <2> QED BY <2>4, <2>5, <2>6, <2>7 DEF DepInv
<1>4. CASE WriteHostReceipt /\ ~UNCHANGED <<src, bak>>
  <2> DEFINE new == [bak[b] EXCEPT !.hostReceipt = TRUE]
  <2>1. /\ bak' = [bak EXCEPT ![b] = new]
        /\ djob' = [djob EXCEPT !.pc = "plugins"] /\ djob.pc = "hostReceipt"
        /\ UNCHANGED <<src, home, roots, known, changes, wiped>>
    BY <1>4 DEF WriteHostReceipt, DepGoto
  <2>2. new \in Bak
    BY <1>1 DEF Bak
  <2>3. /\ new.home = bak[b].home /\ new.roots = bak[b].roots /\ new.before = bak[b].before
        /\ new.there = bak[b].there /\ new.hostSaved = bak[b].hostSaved
    BY <1>1 DEF Bak
  <2> HIDE DEF new
  <2>4. /\ bak' \in [Backups -> Bak] /\ BackupsTrue' /\ bak'[b] = new
        /\ \A o \in Backups \ {b} : bak'[o] = bak[o]
    BY <1>1, <2>1, <2>2, <2>3, BackupStep DEF DepInv, BackupsTrue
  <2>5. DepTypeOK'
    BY <2>1, <2>4 DEF DepInv, DepTypeOK, Phases
  <2>6. CommandTrue'
    BY <1>1, <2>1, <2>3, <2>4
       DEF DepInv, DepTypeOK, CommandTrue, Adapting, HomeIsBack
  <2>7. PatchHasSource'
    BY <1>1, <2>1, <2>3, <2>4 DEF DepInv, PatchHasSource
  <2> QED BY <2>4, <2>5, <2>6, <2>7 DEF DepInv
<1> QED BY <1>2, <1>3, <1>4

\* Plugins, configuration, identity, verification, the receipt.
LEMMA InstallKeeps ==
  ASSUME DepInv,
         (\E e \in Entries : Install(e)) \/ VerifyDeploy \/ HandReceipt
  PROVE  DepInv'
<1>1. /\ djob.pc \in {"plugins", "config", "soul", "verify", "hand"}
      /\ djob.b \in Backups /\ bak[djob.b].there
      /\ UNCHANGED <<src, roots, bak, changes, wiped>>
  BY DEF Install, VerifyDeploy, HandReceipt, DepInv, CommandTrue, Entries
<1>2. home' \in [Entries -> Content] /\ known' \subseteq Backups
  BY <1>1 DEF Install, VerifyDeploy, HandReceipt, DepInv, DepTypeOK, Content
<1>3. CASE \E e \in Entries : Install(e)
  <2>1. djob' = [djob EXCEPT !.pc = djob'.pc]
        /\ djob'.pc \in {"config", "soul", "verify", "undoHome"}
    BY <1>3 DEF Install, DepGoto, InstallAfter, Entries, DepInv, DepTypeOK
  <2> QED BY <1>1, <1>2, <2>1, PlainStep DEF DepInv, DepTypeOK, Phases, Adapting, HomeIsBack
<1>4. CASE VerifyDeploy
  <2>1. djob' = [djob EXCEPT !.pc = djob'.pc] /\ djob'.pc \in {"hand", "undoHome"}
    BY <1>4 DEF VerifyDeploy, DepGoto, DepInv, DepTypeOK
  <2> QED BY <1>1, <1>2, <2>1, PlainStep DEF DepInv, DepTypeOK, Phases, Adapting, HomeIsBack
<1>5. CASE HandReceipt
  <2>1. djob' = Idle("applied")
        \/ (djob' = [djob EXCEPT !.pc = "backHome"])
    BY <1>5 DEF HandReceipt, DepGoto
  <2> QED BY <1>1, <1>2, <2>1, PlainStep DEF DepInv, DepTypeOK, Phases, Idle
<1> QED BY <1>3, <1>4, <1>5

\* The profile is put back, and what it did not hold is deleted, later backups too.
LEMMA RestoreHomeKeeps ==
  ASSUME DepInv, UndoHome \/ BackHome PROVE DepInv'
<1> DEFINE b == djob.b
<1>1. PICK from \in {"undoHome", "backHome"}, to \in {"undoHost", "backHost"} :
        RestoreHome(from, to) /\ (to = "undoHost" <=> from = "undoHome")
  BY DEF UndoHome, BackHome
<1>2. /\ b \in Backups /\ bak[b].there /\ bak[b] \in Bak /\ djob.pc = from
      /\ UNCHANGED <<src, known, changes>>
      /\ djob' = [djob EXCEPT !.pc = to] /\ home' = bak[b].home /\ roots' = roots \cap bak[b].roots
  BY <1>1 DEF RestoreHome, DepGoto, DepInv, DepTypeOK, CommandTrue
<1>3. bak' = [o \in Backups |-> IF o \in bak[b].older \cup {b} THEN bak[o] ELSE NoBak]
  BY <1>1 DEF RestoreHome
<1>4. wiped' \in BOOLEAN /\ (~wiped' => ~wiped /\ \A o \in Backups : bak[o].there => bak'[o].there)
  BY <1>1 DEF RestoreHome, DepInv, DepTypeOK
<1>5. bak' \in [Backups -> Bak] /\ bak'[b] = bak[b]
  BY <1>2, <1>3, NoBakTyped DEF DepInv, DepTypeOK
<1>6. DepTypeOK'
  BY <1>2, <1>4, <1>5, BakFields DEF DepInv, DepTypeOK, Phases
<1>7. BackupsTrue'
  BY <1>3 DEF DepInv, BackupsTrue, NoBak
<1>8. CommandTrue'
  <2>1. djob'.pc = to /\ djob'.b = b
    BY <1>2 DEF DepInv, DepTypeOK
  <2>2. to = "undoHost" =>
          IF bak[b].hostSaved = "none" THEN src = bak[b].before.src
                                       ELSE bak[b].hostSaved = bak[b].before.src
    BY <1>1, <1>2 DEF DepInv, CommandTrue, Adapting
  <2> QED BY <1>2, <1>5, <2>1, <2>2 DEF CommandTrue, Adapting, HomeIsBack
<1>9. PatchHasSource'
  <2> SUFFICES ASSUME ~wiped', src = "patched"
               PROVE  \E o \in Backups : bak'[o].hostSaved # "none"
    BY <1>2 DEF PatchHasSource
  <2>1. PICK o \in Backups : bak[o].hostSaved # "none"
    BY <1>4 DEF DepInv, PatchHasSource
  <2>2. bak'[o].there
    BY <1>4, <2>1 DEF DepInv, BackupsTrue
  <2>3. bak'[o] = bak[o]
    BY <1>3, <2>2 DEF NoBak
  <2> QED BY <2>1, <2>3
<1> QED BY <1>6, <1>7, <1>8, <1>9 DEF DepInv

\* The saved sources are put over whatever is there, and are used up.
LEMMA RestoreHostKeeps ==
  ASSUME DepInv, UndoHost \/ BackHost PROVE DepInv'
<1> DEFINE b == djob.b
<1>1. /\ b \in Backups /\ bak[b].there /\ bak[b] \in Bak /\ bak \in [Backups -> Bak]
      /\ djob.pc \in {"undoHost", "backHost"} /\ UNCHANGED <<home, roots, known, changes, wiped>>
  BY DEF UndoHost, BackHost, RestoreHost, DepInv, DepTypeOK, CommandTrue
<1>2. CASE djob' = Idle("refused") /\ UNCHANGED <<src, bak>>
  BY <1>1, <1>2, PlainStep DEF DepInv, DepTypeOK, Phases, Idle
<1>3. ASSUME NEW from \in {"undoHost", "backHost"}, NEW to \in {"undoRest", "backRest"},
             to = "undoRest" <=> from = "undoHost", RestoreHost(from, to)
      PROVE  DepInv'
  <2> DEFINE new == [bak[b] EXCEPT !.hostSaved = "none"]
  <2>1. djob.pc = from /\ djob' = [djob EXCEPT !.pc = to]
    BY <1>3 DEF RestoreHost, DepGoto
  <2>2. new \in Bak
    BY <1>1 DEF Bak
  <2>3. /\ new.home = bak[b].home /\ new.roots = bak[b].roots /\ new.before = bak[b].before
        /\ new.there = bak[b].there /\ new.hostSaved = "none"
    BY <1>1 DEF Bak
  <2>4. bak' = [bak EXCEPT ![b] = new]
    <3>1. CASE bak[b].hostSaved # "none"
      BY <1>3, <3>1 DEF RestoreHost
    <3>2. CASE bak[b].hostSaved = "none"
      <4>1. new = bak[b]
        BY <1>1, <3>2 DEF Bak
      <4> QED BY <1>1, <1>3, <3>2, <4>1 DEF RestoreHost
    <3> QED BY <3>1, <3>2
  <2>5. src' = IF bak[b].hostSaved = "none" THEN src ELSE "plain"
    BY <1>1, <1>3 DEF RestoreHost, DepInv, BackupsTrue
  <2> HIDE DEF new
  <2>6. /\ bak' \in [Backups -> Bak] /\ BackupsTrue' /\ bak'[b] = new
        /\ \A o \in Backups \ {b} : bak'[o] = bak[o]
    BY <1>1, <2>2, <2>3, <2>4, BackupStep
  <2>7. DepTypeOK'
    BY <1>1, <2>1, <2>5, <2>6 DEF DepInv, DepTypeOK, Phases, Sources
  <2>8. CommandTrue'
    <3>1. djob'.pc = to /\ djob'.b = b
      BY <2>1 DEF DepInv, DepTypeOK
    <3>2. home = bak[b].home /\ roots \subseteq bak[b].roots
      BY <1>1 DEF DepInv, CommandTrue, HomeIsBack
    <3>3. to = "undoRest" => src' = bak[b].before.src
      BY <1>1, <1>3, <2>1, <2>5 DEF DepInv, BackupsTrue, CommandTrue, Adapting
    <3> QED BY <1>1, <2>3, <2>6, <3>1, <3>2, <3>3 DEF CommandTrue, Adapting, HomeIsBack
  <2>9. PatchHasSource'
    BY <1>1, <2>3, <2>5, <2>6 DEF DepInv, PatchHasSource
  <2> QED BY <2>6, <2>7, <2>8, <2>9 DEF DepInv
<1> QED BY <1>2, <1>3 DEF UndoHost, BackHost

LEMMA DropKeeps == ASSUME DepInv, UndoDrop \/ BackDrop PROVE DepInv'
<1> DEFINE b == djob.b
<1>1. PICK from \in {"undoRest", "backRest"}, said \in {"failed", "rolled_back"} :
        DropBackup(from, said)
  BY DEF UndoDrop, BackDrop
<1>2. /\ b \in Backups /\ bak[b].hostSaved = "none" /\ bak' = [bak EXCEPT ![b] = NoBak]
      /\ known' = known \ {b} /\ djob' = Idle(said)
      /\ UNCHANGED <<src, home, roots, changes, wiped>>
  BY <1>1 DEF DropBackup, DepInv, CommandTrue
<1>3. /\ bak' \in [Backups -> Bak] /\ bak'[b] = NoBak /\ \A o \in Backups \ {b} : bak'[o] = bak[o]
  BY <1>2, NoBakTyped DEF DepInv, DepTypeOK
<1>4. DepTypeOK'
  BY <1>2, <1>3 DEF DepInv, DepTypeOK, Phases, Idle
<1>5. BackupsTrue' /\ CommandTrue' /\ PatchHasSource'
  BY <1>2, <1>3
     DEF DepInv, BackupsTrue, CommandTrue, PatchHasSource, NoBak, Idle, Adapting, HomeIsBack
<1> QED BY <1>4, <1>5 DEF DepInv

\* Between commands: Hermes, the user, the host's own update.
LEMMA WorldKeeps ==
  ASSUME DepInv,
         (\E x \in RootNames : RuntimeCreates(x)) \/ (\E e \in Entries : UserChanges(e))
           \/ HostUpdated
  PROVE  DepInv'
<1>1. djob.pc = "idle" /\ UNCHANGED <<bak, known, djob, wiped>>
  BY DEF RuntimeCreates, UserChanges, HostUpdated
<1>2. DepTypeOK'
  BY <1>1, DeploymentAssumption
     DEF RuntimeCreates, UserChanges, HostUpdated, DepInv, DepTypeOK, Content, Sources
<1>3. BackupsTrue' /\ CommandTrue'
  BY <1>1 DEF DepInv, BackupsTrue, CommandTrue, Adapting, HomeIsBack
<1>4. src' = src \/ src' # "patched"
  BY DEF RuntimeCreates, UserChanges, HostUpdated
<1> QED BY <1>1, <1>2, <1>3, <1>4 DEF DepInv, PatchHasSource

LEMMA DeployStep == ASSUME DepInv, [DepNext]_depVars PROVE DepInv'
<1>1. ASSUME NEW b \in Backups, StartRollback(b) PROVE DepInv'
  BY <1>1, PlainStep DEF StartRollback, Idle, Phases, DepInv, DepTypeOK
<1>2. ASSUME CrashDeploy PROVE DepInv'
  BY <1>2, PlainStep DEF CrashDeploy, Idle, Phases, DepInv, DepTypeOK
<1>3. CASE DepNext
  BY <1>1, <1>2, <1>3, StartApplyKeeps, AdaptKeeps, InstallKeeps, RestoreHomeKeeps,
     RestoreHostKeeps, DropKeeps, WorldKeeps DEF DepNext
<1>4. CASE UNCHANGED depVars
  BY <1>4 DEF depVars, DepInv, DepTypeOK, BackupsTrue, CommandTrue, PatchHasSource
<1> QED BY <1>3, <1>4

-----------------------------------------------------------------------------
(* The Codex and ZCode installers. *)

\* What an installer run knows.
Runs == [pc : {"idle", "write", "check", "receipt", "undo"}, db : Dbs \cup {NoDb},
         agents : BOOLEAN, path : Paths \cup {"none"}, next : 1..4, saved : Saved,
         before : Saved, stamp : 0..MaxEdits,
         outcome : {"none", "applied", "kept", "refused", "error", "failed", "rolled_back",
                    "crashed"}]

\* The saved files are those of before, as far as they are managed; Codex never
\* manages AGENTS.md and ZCode has no hooks.
SavedTrue(agents, saved, before) ==
  /\ kind = "codex" => ~agents
  /\ kind = "zcode" => before["hooks"] = NoFile
  /\ \A m \in Files : InSeq(m, Managed(kind, agents)) => saved[m] = before[m]

ManagedNow(agents) == Managed(kind, agents)

\* The words in f are those in g, or were written after the first n edits.
Newer(f, g, n) == f.words = g.words \/ f.words > n

\* A run under way, and a receipt nothing was rolled back beside: in every file they
\* manage are the words they saved or newer ones.
RunWords ==
  ijob.pc # "idle" =>
    /\ ijob.stamp \in 0..edits
    /\ \A m \in Files : InSeq(m, ManagedNow(ijob.agents)) => Newer(file[m], ijob.saved[m], ijob.stamp)
ReceiptWords ==
  \A r \in Paths : receipt[r].written /\ ~receipt[r].overtaken =>
    /\ receipt[r].stamp \in 0..edits
    /\ \A m \in Files : InSeq(m, ManagedNow(receipt[r].agents)) =>
         /\ Newer(file[m], receipt[r].files[m], receipt[r].stamp)
         /\ ijob.pc # "idle" /\ InSeq(m, ManagedNow(ijob.agents)) =>
              Newer(ijob.saved[m], receipt[r].files[m], receipt[r].stamp)

RunsInv ==
  /\ InsTypeOK
  /\ edits \in 0..MaxEdits
  /\ kind = "zcode" => file["hooks"] = NoFile
  /\ ijob \in Runs
  /\ ijob.pc # "idle" =>
       /\ ijob.db \in Dbs /\ ijob.path \in Paths /\ ijob.outcome = "none"
       /\ SavedTrue(ijob.agents, ijob.saved, ijob.before)
  /\ ijob.pc = "write" => ijob.next \in DOMAIN Managed(kind, ijob.agents)
  /\ \A r \in Paths : receipt[r].written =>
       SavedTrue(receipt[r].agents, receipt[r].files, receipt[r].before)

InsInv == RunsInv /\ RunWords /\ ReceiptWords

\* The two lists of managed names.
LEMMA ManagedNames ==
  ASSUME NEW k \in {"codex", "zcode"}, NEW agents \in BOOLEAN,
         NEW s, s = Managed(k, agents)
  PROVE  /\ Len(s) \in 1..3 /\ DOMAIN s = 1..Len(s)
         /\ \A i \in DOMAIN s : s[i] \in Files
         /\ InSeq("runtime", s) /\ InSeq("config", s)
         /\ InSeq("hooks", s) <=> k = "codex"
         /\ InSeq("agents", s) <=> k = "zcode" /\ agents
<1>1. CASE k = "codex"
  <2>1. s = <<"runtime", "config", "hooks">>
    BY <1>1 DEF Managed, CodexManaged
  <2> QED BY <1>1, <2>1 DEF InSeq, Files
<1>2. CASE k = "zcode" /\ agents
  <2>1. s = <<"runtime", "config">> \o <<"agents">>
    BY <1>2 DEF Managed, ZCodeManaged
  <2>2. <<"runtime", "config">> \in Seq(Files) /\ <<"agents">> \in Seq(Files)
    BY DEF Files
  <2>3. s \in Seq(Files) /\ Len(s) = 3
    BY <2>1, <2>2
  <2>4. s[1] = "runtime" /\ s[2] = "config" /\ s[3] = "agents"
    BY <2>1
  <2>5. DOMAIN s = 1..3
    BY <2>3
  <2>6. \A x : InSeq(x, s) <=> x \in {"runtime", "config", "agents"}
    BY <2>4, <2>5 DEF InSeq
  <2>7. \A i \in DOMAIN s : s[i] \in Files
    BY <2>4, <2>5 DEF Files
  <2>8. Len(s) \in 1..3 /\ DOMAIN s = 1..Len(s)
    BY <2>3, <2>5
  <2>9. /\ InSeq("runtime", s) /\ InSeq("config", s)
        /\ ~InSeq("hooks", s) /\ InSeq("agents", s)
    BY <2>6
  <2> QED BY <1>2, <2>7, <2>8, <2>9
<1>3. CASE k = "zcode" /\ ~agents
  <2>1. s = <<"runtime", "config">>
    BY <1>3 DEF Managed, ZCodeManaged
  <2> QED BY <1>3, <2>1 DEF InSeq, Files
<1> QED BY <1>1, <1>2, <1>3

LEMMA NoneYet == 0 \in 0..MaxEdits
BY InstallAssumption

LEMMA NoFileTyped == NoFile \in File /\ Saved = [Files -> File]
<1>1. NoFile \in File
  BY InstallAssumption DEF NoFile, File
<1> QED BY <1>1 DEF Saved

LEMMA NewRunTyped == NewRun \in Runs
<1>1. [m \in Files |-> NoFile] \in Saved
  BY NoFileTyped
<1> QED BY <1>1, InstallAssumption DEF NewRun, Runs

ReceiptRows == [agents : BOOLEAN, files : Saved, written : BOOLEAN, before : Saved,
                stamp : 0..MaxEdits, overtaken : BOOLEAN]

LEMMA InstallStarts == ASSUME InsInit PROVE InsInv
<1>1. NoFile \in File
  BY NoFileTyped
<1>1a. [NoFile EXCEPT !.there = TRUE] \in File
  BY <1>1 DEF File
<1>2. file \in [Files -> File]
  BY <1>1, <1>1a DEF InsInit
<1>3. NoSaved \in ReceiptRows
  BY NoFileTyped, InstallAssumption DEF NoSaved, ReceiptRows
<1>4. NewRun.pc = "idle" /\ NewRun.outcome = "none" /\ NewRun.next = 1 /\ ~NoSaved.written
  BY DEF NewRun, NoSaved
<1>5. RunsInv
  BY <1>2, <1>3, <1>4, NewRunTyped, InstallAssumption DEF InsInit, RunsInv, InsTypeOK, ReceiptRows
<1> QED BY <1>4, <1>5 DEF InsInit, InsInv, RunWords, ReceiptWords

\* A run ends: what it leaves is what the next begins with.
LEMMA EndKeeps ==
  ASSUME RunsInv, UNCHANGED kind, file' \in [Files -> File], edits' \in 0..MaxEdits,
         kind = "zcode" => file'["hooks"] = NoFile,
         receipt' \in [Paths -> ReceiptRows],
         \A r \in Paths : receipt'[r].written =>
           SavedTrue(receipt'[r].agents, receipt'[r].files, receipt'[r].before),
         NEW said \in {"applied", "kept", "refused", "error", "failed", "rolled_back", "crashed"},
         End(said)
  PROVE  RunsInv'
<1>1. ijob' = [NewRun EXCEPT !.outcome = said]
  BY DEF End
<1>2. ijob' \in Runs /\ ijob'.pc = "idle" /\ ijob'.next \in 1..4
  BY <1>1, NewRunTyped DEF Runs, NewRun
<1>3. InsTypeOK'
  BY <1>2 DEF RunsInv, InsTypeOK, Runs, ReceiptRows
<1> QED BY <1>2, <1>3 DEF RunsInv, SavedTrue

LEMMA BeginKeeps ==
  ASSUME RunsInv, NEW d \in Dbs, NEW agents \in BOOLEAN, NEW r \in Paths,
         Begin(d, agents, r), kind = "codex" => ~agents
  PROVE  RunsInv'
<1>1. UNCHANGED <<kind, file, receipt, edits>> /\ file \in Saved
  BY NoFileTyped DEF Begin, RunsInv, InsTypeOK
<1>2. CASE \E said \in {"refused", "error", "kept"} : End(said)
  BY <1>1, <1>2, EndKeeps DEF RunsInv, InsTypeOK, ReceiptRows
<1>3. CASE ijob' = [NewRun EXCEPT !.pc = "write", !.db = d, !.agents = agents,
                                  !.path = r, !.saved = Backup(agents), !.before = file,
                                  !.stamp = edits]
  <2> DEFINE names == Managed(kind, agents)
  <2>1. kind \in {"codex", "zcode"}
    BY DEF RunsInv, InsTypeOK
  <2>2. PICK saved : saved = Backup(agents)
    OBVIOUS
  <2>3. /\ saved \in Saved
        /\ \A m \in Files : InSeq(m, names) => saved[m] = file[m]
    BY <1>1, <2>2, NoFileTyped DEF Backup
  <2>4. ijob' \in Runs
    BY <1>1, <1>3, <2>2, <2>3, NewRunTyped DEF Runs, RunsInv
  <2>5. /\ ijob'.pc = "write" /\ ijob'.db = d /\ ijob'.agents = agents /\ ijob'.path = r
        /\ ijob'.saved = saved /\ ijob'.before = file /\ ijob'.next = 1
        /\ ijob'.outcome = "none"
    BY <1>3, <2>2 DEF NewRun
  <2>6. 1 \in DOMAIN names
    BY <2>1, ManagedNames
  <2>7. InsTypeOK'
    BY <1>1, <2>4 DEF RunsInv, InsTypeOK, Runs
  <2>8. SavedTrue(agents, saved, file)
    BY <2>3 DEF SavedTrue, RunsInv
  <2> QED BY <1>1, <2>4, <2>5, <2>6, <2>7, <2>8 DEF RunsInv, SavedTrue
<1> QED BY <1>2, <1>3 DEF Begin

\* A managed file is written; the user's words in it stay.
LEMMA WriteKeeps ==
  ASSUME RunsInv, WriteNext PROVE RunsInv'
<1> DEFINE names == Managed(kind, ijob.agents)
           m == names[ijob.next]
<1>1. /\ kind \in {"codex", "zcode"} /\ ijob \in Runs /\ ijob.agents \in BOOLEAN
      /\ ijob.pc = "write" /\ ijob.next \in DOMAIN names
      /\ UNCHANGED <<kind, receipt, edits>>
  BY DEF WriteNext, RunsInv, InsTypeOK, Runs
<1>2. /\ Len(names) \in 1..3 /\ DOMAIN names = 1..Len(names) /\ m \in Files
      /\ InSeq("hooks", names) <=> kind = "codex"
  BY <1>1, ManagedNames
<1>3. CASE ijob' = [ijob EXCEPT !.pc = "undo"] /\ UNCHANGED file
  <2>1. /\ ijob' \in Runs /\ ijob'.pc = "undo" /\ ijob'.db = ijob.db /\ ijob'.path = ijob.path
        /\ ijob'.agents = ijob.agents /\ ijob'.saved = ijob.saved /\ ijob'.before = ijob.before
        /\ ijob'.next = ijob.next /\ ijob'.outcome = ijob.outcome
    BY <1>1, <1>3 DEF Runs
  <2> QED BY <1>1, <1>3, <2>1 DEF RunsInv, InsTypeOK, SavedTrue
<1>4. CASE /\ file' = [file EXCEPT ![m] = Merged(m)]
           /\ ijob' = [ijob EXCEPT !.next = @ + 1,
                                   !.pc = IF ijob.next = Len(names) THEN "check" ELSE "write"]
  <2>1. Merged(m) \in File
    <3>1. file[m] \in File /\ ijob.db \in Dbs
      BY <1>1, <1>2 DEF RunsInv, InsTypeOK
    <3>2. (IF m = "runtime" THEN ijob.agents ELSE FALSE) \in BOOLEAN
      BY <1>1
    <3>3. PICK entry \in Dbs \cup {"foreign"} :
            Merged(m) = [file[m] EXCEPT !.there = TRUE, !.inner = 0, !.part = entry,
                           !.opt = IF m = "runtime" THEN ijob.agents ELSE FALSE]
      BY <3>1 DEF Merged
    <3>4. PICK f : f = Merged(m)
      OBVIOUS
    <3>5. PICK opt \in BOOLEAN :
            f = [file[m] EXCEPT !.there = TRUE, !.inner = 0, !.part = entry, !.opt = opt]
      BY <3>2, <3>3, <3>4
    <3>6. PICK g \in File : g = file[m]
      BY <3>1
    <3>7. f = [there |-> TRUE, words |-> g.words, inner |-> 0, part |-> entry, opt |-> opt]
      BY <3>5, <3>6 DEF File
    <3>8. f \in File
      BY <3>3, <3>5, <3>6, <3>7, NoneYet DEF File
    <3> QED BY <3>4, <3>8
  <2>2. file' \in [Files -> File] /\ \A o \in Files \ {m} : file'[o] = file[o]
    BY <1>4, <2>1 DEF RunsInv, InsTypeOK
  <2>3. /\ ijob'.pc \in {"check", "write"} /\ ijob'.db = ijob.db /\ ijob'.path = ijob.path
        /\ ijob'.agents = ijob.agents /\ ijob'.saved = ijob.saved /\ ijob'.before = ijob.before
        /\ ijob'.next = ijob.next + 1 /\ ijob'.outcome = ijob.outcome
        /\ ijob'.pc = "write" => ijob.next # Len(names)
    BY <1>1, <1>4 DEF Runs
  <2>4. ijob'.next \in 2..4 /\ (ijob'.pc = "write" => ijob'.next \in DOMAIN names)
    BY <1>1, <1>2, <2>3
  <2>5. ijob' \in Runs
    <3>1. ijob.next + 1 \in 1..4
      BY <2>3, <2>4
    <3> QED BY <1>1, <1>4, <3>1 DEF Runs
  <2>6. InSeq(m, names)
    BY <1>1 DEF InSeq
  <2>8. kind = "zcode" => file'["hooks"] = NoFile
    BY <1>2, <2>2, <2>6 DEF RunsInv, Files
  <2>9. InsTypeOK'
    BY <1>1, <2>2, <2>5 DEF RunsInv, InsTypeOK, Runs
  <2> HIDE DEF m
  <2> QED BY <1>1, <2>3, <2>4, <2>5, <2>8, <2>9 DEF RunsInv, SavedTrue
<1> QED BY <1>3, <1>4 DEF WriteNext

LEMMA CheckKeeps == ASSUME RunsInv, CheckInstall PROVE RunsInv'
<1>1. /\ ijob \in Runs /\ ijob.pc = "check" /\ UNCHANGED <<kind, file, receipt, edits>>
  BY DEF CheckInstall, RunsInv
<1>2. PICK pc \in {"receipt", "undo"} : ijob' = [ijob EXCEPT !.pc = pc]
  BY DEF CheckInstall
<1>3. /\ ijob' \in Runs /\ ijob'.pc = pc /\ ijob'.db = ijob.db /\ ijob'.path = ijob.path
      /\ ijob'.agents = ijob.agents /\ ijob'.saved = ijob.saved /\ ijob'.before = ijob.before
      /\ ijob'.next = ijob.next /\ ijob'.outcome = ijob.outcome
  BY <1>1, <1>2 DEF Runs
<1> QED BY <1>1, <1>3 DEF RunsInv, InsTypeOK, SavedTrue

\* The receipt repeats what the run saved.
LEMMA ReceiptKeeps == ASSUME RunsInv, WriteReceipt PROVE RunsInv'
<1>1. /\ ijob \in Runs /\ ijob.pc = "receipt" /\ UNCHANGED <<kind, file, edits>>
      /\ ijob.path \in Paths /\ SavedTrue(ijob.agents, ijob.saved, ijob.before)
  BY DEF WriteReceipt, RunsInv
<1>2. CASE ijob' = [ijob EXCEPT !.pc = "undo"] /\ UNCHANGED receipt
  <2>1. /\ ijob' \in Runs /\ ijob'.pc = "undo" /\ ijob'.db = ijob.db /\ ijob'.path = ijob.path
        /\ ijob'.agents = ijob.agents /\ ijob'.saved = ijob.saved /\ ijob'.before = ijob.before
        /\ ijob'.next = ijob.next /\ ijob'.outcome = ijob.outcome
    BY <1>1, <1>2 DEF Runs
  <2> QED BY <1>1, <1>2, <2>1 DEF RunsInv, InsTypeOK, SavedTrue
<1>3. CASE End("applied")
  <2> DEFINE row == [agents |-> ijob.agents, files |-> ijob.saved, written |-> TRUE,
                     before |-> ijob.before, stamp |-> ijob.stamp, overtaken |-> FALSE]
  <2>1. receipt' = [receipt EXCEPT ![ijob.path] = row]
    BY <1>3 DEF WriteReceipt, End, NewRun
  <2>2. row \in ReceiptRows
    BY <1>1 DEF Runs, ReceiptRows
  <2>3. receipt' \in [Paths -> ReceiptRows] /\ receipt'[ijob.path] = row
        /\ \A r \in Paths \ {ijob.path} : receipt'[r] = receipt[r]
    BY <1>1, <2>1, <2>2 DEF RunsInv, InsTypeOK, ReceiptRows
  <2>4. \A r \in Paths : receipt'[r].written =>
          SavedTrue(receipt'[r].agents, receipt'[r].files, receipt'[r].before)
    BY <1>1, <2>3 DEF RunsInv
  <2> QED BY <1>1, <1>3, <2>3, <2>4, EndKeeps DEF RunsInv, InsTypeOK
<1> QED BY <1>2, <1>3 DEF WriteReceipt

\* Both ways back: managed files as they were saved, the others as they are.
LEMMA RestoredIs ==
  ASSUME RunsInv, NEW saved \in Saved, NEW agents \in BOOLEAN, NEW before \in Saved,
         SavedTrue(agents, saved, before), file' = Restored(saved, agents)
  PROVE  /\ file' \in [Files -> File]
         /\ kind = "zcode" => file'["hooks"] = NoFile
         /\ \A m \in Files :
              file'[m] = IF m = "agents" /\ ~agents THEN file[m] ELSE before[m]
<1> DEFINE names == Managed(kind, agents)
<1>1. kind \in {"codex", "zcode"} /\ file \in [Files -> File] /\ Saved = [Files -> File]
  BY NoFileTyped DEF RunsInv, InsTypeOK
<1>2. /\ InSeq("runtime", names) /\ InSeq("config", names)
      /\ InSeq("hooks", names) <=> kind = "codex"
      /\ InSeq("agents", names) <=> kind = "zcode" /\ agents
  BY <1>1, ManagedNames
<1>3. \A m \in Files : file'[m] = IF InSeq(m, names) THEN before[m] ELSE file[m]
  BY DEF Restored, SavedTrue
<1>4. file' \in [Files -> File]
  BY <1>1 DEF Restored
<1> HIDE DEF names
<1> QED BY <1>1, <1>2, <1>3, <1>4 DEF SavedTrue, RunsInv, Files

LEMMA UndoKeeps == ASSUME RunsInv, UndoApply PROVE RunsInv'
<1>1. /\ ijob.saved \in Saved /\ ijob.agents \in BOOLEAN /\ ijob.before \in Saved
      /\ SavedTrue(ijob.agents, ijob.saved, ijob.before)
      /\ file' = Restored(ijob.saved, ijob.agents)
      /\ UNCHANGED <<kind, receipt, edits>> /\ End("failed")
  BY DEF UndoApply, RunsInv, Runs
<1>2. file' \in [Files -> File] /\ (kind = "zcode" => file'["hooks"] = NoFile)
  BY <1>1, RestoredIs
<1> QED BY <1>1, <1>2, EndKeeps DEF RunsInv, InsTypeOK, ReceiptRows

LEMMA RollbackKeeps ==
  ASSUME RunsInv, NEW r \in Paths, Rollback(r) PROVE RunsInv'
<1>1. /\ receipt \in [Paths -> ReceiptRows] /\ receipt[r].written
      /\ receipt[r] \in ReceiptRows
      /\ UNCHANGED <<kind, edits>> /\ End("rolled_back")
      /\ receipt' = [q \in Paths |-> IF q = r THEN NoSaved
                                     ELSE [receipt[q] EXCEPT !.overtaken = receipt[q].written]]
      /\ file' = Restored(receipt[r].files, receipt[r].agents)
  BY DEF Rollback, RunsInv, InsTypeOK, ReceiptRows
<1>2. SavedTrue(receipt[r].agents, receipt[r].files, receipt[r].before)
  BY <1>1 DEF RunsInv
<1>3. file' \in [Files -> File] /\ (kind = "zcode" => file'["hooks"] = NoFile)
  BY <1>1, <1>2, RestoredIs DEF ReceiptRows
<1>4. NoSaved \in ReceiptRows /\ ~NoSaved.written
  BY NoFileTyped, InstallAssumption DEF NoSaved, ReceiptRows
<1>5. /\ receipt' \in [Paths -> ReceiptRows]
      /\ \A q \in Paths : receipt'[q].written =>
           /\ q # r /\ receipt[q].written /\ receipt'[q].agents = receipt[q].agents
           /\ receipt'[q].files = receipt[q].files /\ receipt'[q].before = receipt[q].before
  <2>1. \A q \in Paths : receipt[q] \in ReceiptRows
    BY <1>1
  <2>2. \A q \in Paths \ {r} : receipt'[q] = [receipt[q] EXCEPT !.overtaken = receipt[q].written]
    BY <1>1
  <2>3. receipt'[r] = NoSaved
    BY <1>1
  <2>4. \A q \in Paths : receipt'[q] \in ReceiptRows
    <3> SUFFICES ASSUME NEW q \in Paths, q # r PROVE receipt'[q] \in ReceiptRows
      BY <1>4, <2>3
    <3>1. PICK row \in ReceiptRows : row = receipt[q]
      BY <2>1
    <3>2. receipt'[q] = [row EXCEPT !.overtaken = row.written]
      BY <2>2, <3>1
    <3>3. row.written \in BOOLEAN
      BY <3>1 DEF ReceiptRows
    <3> QED BY <3>1, <3>2, <3>3 DEF ReceiptRows
  <2>5. receipt' \in [Paths -> ReceiptRows]
    BY <1>1, <2>4
  <2> QED BY <1>4, <2>1, <2>2, <2>3, <2>5 DEF ReceiptRows
<1>6. \A q \in Paths : receipt'[q].written =>
        SavedTrue(receipt'[q].agents, receipt'[q].files, receipt'[q].before)
  BY <1>5 DEF RunsInv
<1> QED BY <1>1, <1>3, <1>5, <1>6, EndKeeps DEF RunsInv

LEMMA UserKeeps ==
  ASSUME RunsInv, NEW m \in Files \ {"runtime"}, UserEdit(m) PROVE RunsInv'
<1>1. /\ UNCHANGED <<kind, receipt, ijob>> /\ edits < MaxEdits
      /\ edits' = edits + 1 /\ (m = "hooks" => kind = "codex")
      /\ file \in [Files -> File] /\ edits \in 0..MaxEdits
      /\ kind \in {"codex", "zcode"}
  BY DEF UserEdit, RunsInv, InsTypeOK
<1>2. edits + 1 \in 0..MaxEdits
  BY <1>1, InstallAssumption
<1>3. PICK f \in File : file' = [file EXCEPT ![m] = f]
  <2>0. PICK g \in File : g = file[m]
    BY <1>1
  <2>1. /\ [g EXCEPT !.there = TRUE, !.words = edits + 1] \in File
        /\ [g EXCEPT !.inner = edits + 1] \in File
    BY <1>2, <2>0 DEF File
  <2>1a. /\ [g EXCEPT !.part = NoDb, !.inner = 0] \in File
         /\ [g EXCEPT !.there = TRUE, !.part = "foreign", !.inner = 0] \in File
    BY <2>0, NoneYet DEF File
  <2>2. file' = [file EXCEPT ![m].inner = edits + 1] =>
          file' = [file EXCEPT ![m] = [file[m] EXCEPT !.inner = edits + 1]]
    OBVIOUS
  <2> QED BY <2>0, <2>1, <2>1a, <2>2 DEF UserEdit
<1>4. file' \in [Files -> File] /\ (kind = "zcode" => file'["hooks"] = NoFile)
  BY <1>1, <1>3 DEF RunsInv, Files
<1> QED BY <1>1, <1>2, <1>4 DEF RunsInv, InsTypeOK, SavedTrue

LEMMA CrashInstallKeeps == ASSUME RunsInv, CrashInstall PROVE RunsInv'
BY EndKeeps DEF CrashInstall, RunsInv, InsTypeOK, ReceiptRows

LEMMA RunsStep == ASSUME RunsInv, [InsNext]_insVars PROVE RunsInv'
<1>1. CASE InsNext
  <2>1. FALSE \in BOOLEAN
    OBVIOUS
  <2> QED BY <1>1, <2>1, BeginKeeps, WriteKeeps, CheckKeeps, ReceiptKeeps, UndoKeeps, RollbackKeeps,
             UserKeeps, CrashInstallKeeps
          DEF InsNext, CodexBegin, ZCodeBegin, CodexWrite, ZCodeWrite, CodexRollback, ZCodeRollback
<1>2. CASE UNCHANGED insVars
  BY <1>2 DEF insVars, RunsInv, InsTypeOK, SavedTrue
<1> QED BY <1>1, <1>2

\* Only its own rollback takes a receipt away.
LEMMA RollbackOf ==
  ASSUME RunsInv, InsNext, NEW r \in Paths, RollsBack(r)
  PROVE  Rollback(r)
<1>1. PICK q \in Paths : Rollback(q)
  <2>1. ~WriteReceipt
    <3>1. ASSUME WriteReceipt PROVE receipt'[r].written
      <4>1. ijob.path \in Paths
        BY <3>1 DEF WriteReceipt, RunsInv
      <4> QED BY <3>1, <4>1 DEF WriteReceipt, RunsInv, InsTypeOK, RollsBack
    <3> QED BY <3>1 DEF RollsBack
  <2>2. receipt' # receipt
    BY DEF RollsBack
  <2> QED BY <2>1, <2>2 DEF InsNext, CodexBegin, ZCodeBegin, Begin, CodexWrite, ZCodeWrite, WriteNext,
             CheckInstall, UndoApply, CrashInstall, CodexRollback, ZCodeRollback, UserEdit
<1>2. q = r
  <2> SUFFICES ASSUME q # r PROVE FALSE
    OBVIOUS
  <2>1. receipt'[r] = [receipt[r] EXCEPT !.overtaken = receipt[r].written]
    BY <1>1 DEF Rollback
  <2>2. receipt[r] \in ReceiptRows
    BY DEF RunsInv, InsTypeOK, ReceiptRows
  <2>3. receipt'[r].written = receipt[r].written
    BY <2>1, <2>2 DEF ReceiptRows
  <2> QED BY <2>3 DEF RollsBack
<1> QED BY <1>1, <1>2

\* A step that puts files back puts back those of before.
LEMMA UndoStepExact ==
  ASSUME RunsInv, InsNext, NEW m \in Files
  PROVE  /\ ijob.pc = "undo" /\ ijob'.outcome = "failed" =>
              file'[m] = IF m = "agents" /\ ~ijob.agents THEN file[m] ELSE ijob.before[m]
         /\ \A r \in Paths : RollsBack(r) =>
              file'[m] = IF m = "agents" /\ ~receipt[r].agents THEN file[m]
                         ELSE receipt[r].before[m]
<1>1. ASSUME ijob.pc = "undo", ijob'.outcome = "failed"
      PROVE  file'[m] = IF m = "agents" /\ ~ijob.agents THEN file[m] ELSE ijob.before[m]
  <2>0. ijob \in Runs /\ ijob.outcome # "failed"
    BY <1>1 DEF RunsInv
  <2>1. UndoApply \/ CrashInstall
    BY <1>1, <2>0 DEF InsNext, CodexBegin, ZCodeBegin, Begin, CodexWrite, ZCodeWrite, WriteNext,
                CheckInstall, WriteReceipt, CodexRollback, ZCodeRollback, Rollback, UserEdit
  <2>2. ~CrashInstall
    BY <1>1 DEF CrashInstall, End, NewRun
  <2>3. /\ ijob.saved \in Saved /\ ijob.agents \in BOOLEAN /\ ijob.before \in Saved
        /\ SavedTrue(ijob.agents, ijob.saved, ijob.before)
        /\ file' = Restored(ijob.saved, ijob.agents)
    BY <1>1, <2>1, <2>2 DEF UndoApply, RunsInv, Runs
  <2> QED BY <2>3, RestoredIs
<1>2. ASSUME NEW r \in Paths, RollsBack(r)
      PROVE  file'[m] = IF m = "agents" /\ ~receipt[r].agents THEN file[m]
                        ELSE receipt[r].before[m]
  <2>1. Rollback(r)
    BY <1>2, RollbackOf
  <2>2. receipt[r] \in ReceiptRows /\ SavedTrue(receipt[r].agents, receipt[r].files, receipt[r].before)
    BY <1>2 DEF RollsBack, RunsInv, InsTypeOK, ReceiptRows
  <2> QED BY <2>1, <2>2, RestoredIs DEF Rollback, ReceiptRows
<1> QED BY <1>1, <1>2

\* No write of a run changes a word outside the managed part.
LEMMA WriteNextWords ==
  ASSUME RunsInv, WriteNext, NEW m \in Files
  PROVE  file'[m].words = file[m].words
<1> DEFINE n == Managed(kind, ijob.agents)[ijob.next]
<1>1. CASE file' = [file EXCEPT ![n] = Merged(n)]
  <2>1. m # n => file'[m] = file[m]
    BY <1>1 DEF RunsInv, InsTypeOK
  <2>2. m = n => file'[m].words = file[m].words
    BY <1>1 DEF RunsInv, InsTypeOK, Merged, File
  <2> QED BY <2>1, <2>2
<1> QED BY <1>1 DEF WriteNext

\* A step that changes no words and no receipt, and begins no run.
LEMMA SameWords ==
  ASSUME InsInv, UNCHANGED <<kind, receipt, edits>>,
         \A m \in Files : file'[m].words = file[m].words,
         ijob'.pc # "idle" =>
           /\ ijob.pc # "idle" /\ ijob'.agents = ijob.agents
           /\ ijob'.saved = ijob.saved /\ ijob'.stamp = ijob.stamp
  PROVE  RunWords' /\ ReceiptWords'
<1>1. RunWords'
  BY DEF InsInv, RunWords, ManagedNow, Newer
<1>2. ReceiptWords'
  BY DEF InsInv, ReceiptWords, ManagedNow, Newer
<1> QED BY <1>1, <1>2

LEMMA BeginWords ==
  ASSUME InsInv, NEW d \in Dbs, NEW agents \in BOOLEAN, NEW r \in Paths, Begin(d, agents, r)
  PROVE  RunWords' /\ ReceiptWords'
<1>1. UNCHANGED <<kind, file, receipt, edits>>
  BY DEF Begin
<1>2. CASE ijob'.pc = "idle"
  BY <1>1, <1>2, SameWords
<1>3. CASE ijob'.pc # "idle"
  <2>1. ijob' = [NewRun EXCEPT !.pc = "write", !.db = d, !.agents = agents,
                               !.path = r, !.saved = Backup(agents), !.before = file, !.stamp = edits]
    BY <1>3 DEF Begin, End, NewRun
  <2>2. PICK saved : saved = Backup(agents)
    OBVIOUS
  <2>3. ijob'.agents = agents /\ ijob'.saved = saved /\ ijob'.stamp = edits
    BY <2>1, <2>2 DEF NewRun
  <2>4. \A m \in Files : InSeq(m, ManagedNow(agents)) => saved[m] = file[m]
    BY <2>2 DEF Backup, ManagedNow
  <2>5. edits \in 0..edits
    BY InstallAssumption DEF InsInv, RunsInv
  <2>6. RunWords'
    BY <1>1, <2>3, <2>4, <2>5 DEF RunWords, ManagedNow, Newer
  <2>7. ReceiptWords'
    BY <1>1, <2>3, <2>4 DEF InsInv, ReceiptWords, ManagedNow, Newer
  <2> QED BY <2>6, <2>7
<1> QED BY <1>2, <1>3

\* A step of a run that has begun, before its end.
LEMMA RunningWords ==
  ASSUME InsInv, WriteNext \/ CheckInstall \/ (WriteReceipt /\ ijob'.pc = "undo")
  PROVE  RunWords' /\ ReceiptWords'
<1>1. ijob \in Runs /\ ijob.pc # "idle" /\ UNCHANGED <<kind, receipt, edits>>
  BY DEF InsInv, RunsInv, WriteNext, CheckInstall, WriteReceipt, End, NewRun
<1>2. /\ ijob'.agents = ijob.agents /\ ijob'.saved = ijob.saved /\ ijob'.stamp = ijob.stamp
  BY <1>1 DEF WriteNext, CheckInstall, WriteReceipt, End, NewRun, Runs
<1>3. \A m \in Files : file'[m].words = file[m].words
  <2> SUFFICES ASSUME NEW m \in Files PROVE file'[m].words = file[m].words
    OBVIOUS
  <2>1. CASE WriteNext
    BY <2>1, WriteNextWords DEF InsInv
  <2> QED BY <2>1 DEF CheckInstall, WriteReceipt
<1> QED BY <1>1, <1>2, <1>3, SameWords

\* The receipt takes over what was known of the run.
LEMMA ReceiptWordsKept ==
  ASSUME InsInv, WriteReceipt, End("applied")
  PROVE  RunWords' /\ ReceiptWords'
<1> DEFINE row == [agents |-> ijob.agents, files |-> ijob.saved, written |-> TRUE,
                   before |-> ijob.before, stamp |-> ijob.stamp, overtaken |-> FALSE]
<1>1. /\ ijob'.pc = "idle" /\ UNCHANGED <<kind, file, edits>> /\ ijob.pc # "idle"
      /\ receipt' = [receipt EXCEPT ![ijob.path] = row]
  BY DEF WriteReceipt, End, NewRun
<1>2. ijob.path \in Paths /\ receipt'[ijob.path] = row
      /\ \A r \in Paths \ {ijob.path} : receipt'[r] = receipt[r]
  BY <1>1 DEF InsInv, RunsInv, InsTypeOK
<1>3. RunWords'
  BY <1>1 DEF RunWords
<1>4. ReceiptWords'
  <2> SUFFICES ASSUME NEW r \in Paths, receipt'[r].written, ~receipt'[r].overtaken
               PROVE  /\ receipt'[r].stamp \in 0..edits
                      /\ \A m \in Files : InSeq(m, ManagedNow(receipt'[r].agents)) =>
                           Newer(file[m], receipt'[r].files[m], receipt'[r].stamp)
    BY <1>1 DEF ReceiptWords, ManagedNow, Newer
  <2>1. CASE r = ijob.path
    BY <1>1, <1>2, <2>1 DEF InsInv, RunWords
  <2>2. CASE r # ijob.path
    BY <1>2, <2>2 DEF InsInv, ReceiptWords
  <2> QED BY <2>1, <2>2
<1> QED BY <1>3, <1>4

\* The words that are put back are those the run saved; they have been in the files
\* since the receipts were written, or longer.
LEMMA UndoWords ==
  ASSUME InsInv, UndoApply PROVE RunWords' /\ ReceiptWords'
<1>1. /\ ijob'.pc = "idle" /\ UNCHANGED <<kind, receipt, edits>> /\ ijob.pc # "idle"
      /\ file' = Restored(ijob.saved, ijob.agents)
  BY DEF UndoApply, End, NewRun
<1>2. RunWords'
  BY <1>1 DEF RunWords
<1>3. \A m \in Files : file'[m] = IF InSeq(m, ManagedNow(ijob.agents)) THEN ijob.saved[m] ELSE file[m]
  BY <1>1 DEF Restored, ManagedNow
<1>4. ReceiptWords'
  BY <1>1, <1>3 DEF InsInv, ReceiptWords, ManagedNow, Newer
<1> QED BY <1>2, <1>4

\* After a rollback nothing is known of the other receipts.
LEMMA RollbackWords ==
  ASSUME InsInv, NEW r \in Paths, Rollback(r) PROVE RunWords' /\ ReceiptWords'
<1>1. /\ ijob'.pc = "idle"
      /\ receipt' = [q \in Paths |-> IF q = r THEN NoSaved
                                     ELSE [receipt[q] EXCEPT !.overtaken = receipt[q].written]]
  BY DEF Rollback, End, NewRun
<1>2. \A q \in Paths : ~(receipt'[q].written /\ ~receipt'[q].overtaken)
  <2> SUFFICES ASSUME NEW q \in Paths PROVE ~(receipt'[q].written /\ ~receipt'[q].overtaken)
    OBVIOUS
  <2>1. CASE q = r
    BY <1>1, <2>1 DEF NoSaved
  <2>2. CASE q # r
    <3>1. receipt[q] \in ReceiptRows
      BY DEF InsInv, RunsInv, InsTypeOK, ReceiptRows
    <3>2. receipt'[q] = [receipt[q] EXCEPT !.overtaken = receipt[q].written]
      BY <1>1, <2>2
    <3> QED BY <3>1, <3>2 DEF ReceiptRows
  <2> QED BY <2>1, <2>2
<1> QED BY <1>1, <1>2 DEF RunWords, ReceiptWords

\* An edit writes words newer than any run or receipt.
LEMMA UserWords ==
  ASSUME InsInv, NEW o \in Files \ {"runtime"}, UserEdit(o) PROVE RunWords' /\ ReceiptWords'
<1>1. /\ UNCHANGED <<kind, receipt, ijob>> /\ edits' = edits + 1 /\ edits \in Nat
      /\ file \in [Files -> File]
  BY InstallAssumption DEF UserEdit, InsInv, RunsInv, InsTypeOK
<1>2. \A m \in Files : file'[m].words = file[m].words \/ file'[m].words = edits + 1
  <2> SUFFICES ASSUME NEW m \in Files
               PROVE  file'[m].words = file[m].words \/ file'[m].words = edits + 1
    OBVIOUS
  <2>1. m # o => file'[m] = file[m]
    BY <1>1 DEF UserEdit
  <2>2. ASSUME m = o PROVE file'[m].words = file[m].words \/ file'[m].words = edits + 1
    <3>1. PICK g \in File : g = file[o]
      BY <1>1
    <3>2. PICK f : /\ file' = [file EXCEPT ![o] = f]
                   /\ \/ f = [g EXCEPT !.there = TRUE, !.words = edits + 1]
                      \/ f = [g EXCEPT !.inner = edits + 1]
                      \/ f = [g EXCEPT !.part = NoDb, !.inner = 0]
                      \/ f = [g EXCEPT !.there = TRUE, !.part = "foreign", !.inner = 0]
      BY <3>1 DEF UserEdit
    <3>3. f.words = g.words \/ f.words = edits + 1
      BY <3>1, <3>2 DEF File
    <3>4. file'[m] = f
      BY <1>1, <2>2, <3>2
    <3> QED BY <2>2, <3>1, <3>3, <3>4
  <2> QED BY <2>1, <2>2
<1>3. ASSUME NEW n \in 0..edits PROVE n \in 0..edits' /\ edits + 1 > n
  <2>1. edits \in Nat /\ edits' = edits + 1
    BY <1>1
  <2> QED BY <2>1
<1>4. ASSUME NEW m \in Files, NEW g, NEW n \in 0..edits, Newer(file[m], g, n)
      PROVE  Newer(file'[m], g, n)
  <2>1. edits + 1 > n
    BY <1>3
  <2> QED BY <1>2, <1>4, <2>1 DEF Newer
<1>5. RunWords'
  BY <1>1, <1>3, <1>4 DEF InsInv, RunWords, ManagedNow, Newer
<1>6. ReceiptWords'
  BY <1>1, <1>3, <1>4 DEF InsInv, ReceiptWords, ManagedNow, Newer
<1> QED BY <1>5, <1>6

LEMMA InstallStep == ASSUME InsInv, [InsNext]_insVars PROVE InsInv'
<1>1. RunsInv'
  BY RunsStep DEF InsInv
<1>2. CASE InsNext
  <2>1. WriteReceipt => (ijob'.pc = "undo" \/ End("applied"))
    BY DEF WriteReceipt, InsInv, RunsInv, Runs
  <2>2. ASSUME CrashInstall PROVE RunWords' /\ ReceiptWords'
    <3>1. UNCHANGED <<kind, file, receipt, edits>> /\ ijob'.pc = "idle"
      BY <2>2 DEF CrashInstall, End, NewRun
    <3> QED BY <3>1, SameWords
  <2>3. FALSE \in BOOLEAN
    OBVIOUS
  <2>4. ASSUME NEW d \in Dbs, NEW r \in Paths,
               CodexBegin(d, r) \/ \E agents \in BOOLEAN : ZCodeBegin(d, agents, r)
        PROVE  RunWords' /\ ReceiptWords'
    BY <2>3, <2>4, BeginWords DEF CodexBegin, ZCodeBegin
  <2>5. ASSUME WriteNext \/ CheckInstall \/ WriteReceipt PROVE RunWords' /\ ReceiptWords'
    <3>1. CASE WriteReceipt /\ End("applied")
      BY <3>1, ReceiptWordsKept
    <3>2. CASE WriteNext \/ CheckInstall \/ (WriteReceipt /\ ijob'.pc = "undo")
      BY <3>2, RunningWords
    <3> QED BY <2>1, <2>5, <3>1, <3>2
  <2>6. ASSUME NEW r \in Paths, Rollback(r) PROVE RunWords' /\ ReceiptWords'
    BY <2>6, RollbackWords
  <2>7. ASSUME NEW o \in Files \ {"runtime"}, UserEdit(o) PROVE RunWords' /\ ReceiptWords'
    BY <2>7, UserWords
  <2>8. RunWords' /\ ReceiptWords'
    BY <1>2, <2>2, <2>4, <2>5, <2>6, <2>7, UndoWords
       DEF InsNext, CodexWrite, ZCodeWrite, CodexRollback, ZCodeRollback
  <2> QED BY <1>1, <2>8 DEF InsInv
<1>3. CASE UNCHANGED insVars
  BY <1>1, <1>3, SameWords DEF insVars, InsInv
<1> QED BY <1>2, <1>3

\* An undo takes away only words newer than the run; no other step changes any.
LEMMA WordsStay ==
  ASSUME InsInv, InsNext, NEW m \in Files, file'[m].words # file[m].words
  PROVE  \/ edits' # edits
         \/ ijob.pc = "undo" /\ ijob'.outcome = "failed" /\ file[m].words > ijob.stamp
         \/ \E r \in Paths :
              RollsBack(r) /\ (receipt[r].overtaken \/ file[m].words > receipt[r].stamp)
<1>1. CASE \E n \in Files \ {"runtime"} : UserEdit(n)
  BY <1>1, InstallAssumption DEF UserEdit, InsInv, RunsInv
<1>2. CASE UndoApply
  <2>1. /\ ijob.pc = "undo" /\ ijob'.outcome = "failed"
        /\ file'[m] = IF InSeq(m, ManagedNow(ijob.agents)) THEN ijob.saved[m] ELSE file[m]
    BY <1>2 DEF UndoApply, End, NewRun, Restored, ManagedNow
  <2> QED BY <2>1 DEF InsInv, RunWords, Newer
<1>3. ASSUME NEW r \in Paths, Rollback(r)
      PROVE  RollsBack(r) /\ (receipt[r].overtaken \/ file[m].words > receipt[r].stamp)
  <2>1. /\ receipt[r].written /\ receipt'[r] = NoSaved
        /\ file'[m] = IF InSeq(m, ManagedNow(receipt[r].agents)) THEN receipt[r].files[m] ELSE file[m]
    BY <1>3 DEF Rollback, Restored, ManagedNow
  <2>2. RollsBack(r)
    BY <2>1 DEF RollsBack, NoSaved
  <2> QED BY <2>1, <2>2 DEF InsInv, ReceiptWords, Newer
<1>4. CASE WriteNext
  BY <1>4, WriteNextWords DEF InsInv
<1> QED BY <1>1, <1>2, <1>3, <1>4 DEF InsNext, CodexBegin, ZCodeBegin, Begin, CodexWrite, ZCodeWrite,
           CheckInstall, WriteReceipt, CrashInstall, CodexRollback, ZCodeRollback

\* hermes_deploy.py and host_adaptation.py: what is undone is as before, and a
\* patched host can be brought back.
THEOREM DeploymentHolds == OperationsSpec => []DeploySafe
<1> DEFINE Here == (part = "deploy" => DepInv) /\ InsInv
<1>1. OperationsInit => Here
  BY DeployStarts, InstallStarts DEF OperationsInit, NoInstallation
<1>2. Here /\ [OperationsNext]_operationVars => Here'
  <2> SUFFICES ASSUME Here, [OperationsNext]_operationVars
               PROVE  Here'
    OBVIOUS
  <2>1. InsInv'
    <3>1. [InsNext]_insVars
      BY DEF OperationsNext, RunUpdate, RunDeploy, RunInstall, RunRestore, RunGate,
             operationVars, hostVars, memoryVars
    <3> QED BY <3>1, InstallStep
  <2>2. ASSUME part' = "deploy" PROVE DepInv'
    <3>1. part = "deploy" /\ [DepNext]_depVars
      BY <2>2 DEF OperationsNext, RunUpdate, RunDeploy, RunInstall, RunRestore, RunGate,
             operationVars, hostVars, memoryVars
    <3> QED BY <3>1, DeployStep
  <2> QED BY <2>1, <2>2
<1>3. Here => DeploySafe
  <2> SUFFICES ASSUME Here, part = "deploy" PROVE UndoneIsBefore
    BY DEF DeploySafe, DepInv, InsInv, RunsInv
  <2> QED BY DEF DepInv, BackupsTrue, CommandTrue, UndoneIsBefore, HomeIsBack
<1> QED BY <1>1, <1>2, <1>3, PTL DEF OperationsSpec

\* codex_deploy.py and zcode_deploy.py: an undo is exact, and costs the user only what
\* was written since the run that is undone.
THEOREM InstallHolds == OperationsSpec => InstallSafe
<1>1. OperationsInit => InsInv
  BY InstallStarts DEF OperationsInit, NoInstallation
<1>2. [OperationsNext]_operationVars => [InsNext]_insVars
  BY DEF OperationsNext, RunUpdate, RunDeploy, RunInstall, RunRestore, RunGate,
         operationVars, hostVars, memoryVars
<1>3. InsInv /\ [InsNext]_insVars => InsInv'
  BY InstallStep
<1>4. InsInv /\ [InsNext]_insVars =>
        [\A m \in Files :
          /\ ijob.pc = "undo" /\ ijob'.outcome = "failed" =>
                 file'[m] = IF m = "agents" /\ ~ijob.agents THEN file[m] ELSE ijob.before[m]
          /\ \A r \in Paths : RollsBack(r) =>
                 file'[m] = IF m = "agents" /\ ~receipt[r].agents THEN file[m]
                            ELSE receipt[r].before[m]]_insVars
  BY UndoStepExact DEF InsInv
<1>5. InsInv /\ [InsNext]_insVars =>
        [\A m \in Files : file'[m].words # file[m].words =>
           \/ edits' # edits
           \/ ijob.pc = "undo" /\ ijob'.outcome = "failed" /\ file[m].words > ijob.stamp
           \/ \E r \in Paths :
                RollsBack(r) /\ (receipt[r].overtaken \/ file[m].words > receipt[r].stamp)]_insVars
  BY WordsStay
<1> QED BY <1>1, <1>2, <1>3, <1>4, <1>5, PTL DEF OperationsSpec, InstallSafe, UndoExact, WordsKept

-----------------------------------------------------------------------------
(* The restore of a memory directory, and its way back.  The memory of      *)
(* before is in the directory put aside for a switch while there is one, and *)
(* in the live one otherwise; what any step deletes or writes over holds, of *)
(* what was written in peace, nothing that this directory does not hold.     *)

Bundling == {"snapshot", "copyConfig", "seal", "publish", "undoBundle"}
Copying == {"copyDb", "restoreConfig", "rebuild", "undoRestore"}
Switching == {"putAside", "putLive", "checkSwitch", "undoLive", "undoAside"}
GoingBack == {"displace", "putBack", "checkBack", "discard", "undoBack", "undoDisplace"}

\* The directory that the memory of before is in.
Main == IF dir["rollback"].there THEN "rollback" ELSE "live"

\* What the host wrote in peace.
Quiet == memories.quiet

CommandOK ==
  /\ cmd.pc \in {"idle"} \cup Bundling \cup Copying \cup Switching \cup GoingBack
  /\ cmd.pc = "idle" => DOMAIN cmd = {"pc", "last"}
  /\ cmd.pc \in Bundling \cup GoingBack => DOMAIN cmd = {"pc"}
  /\ cmd.pc \in Copying =>
       DOMAIN cmd = {"pc", "to", "created"} /\ cmd.to \in {"restored", "live"}
  /\ cmd.pc \in Switching =>
       /\ DOMAIN cmd = {"pc", "previous", "restored"}
       /\ cmd.previous \in Directory /\ cmd.restored \in Directory
       /\ cmd.restored.parts = Whole /\ "database" \in cmd.previous.parts
       /\ cmd.restored.db \subseteq memories.all /\ cmd.previous.db \subseteq memories.all

\* Numbers of writes are given once, and a directory has what its files hold.
DirectoriesOK ==
  /\ DOMAIN memories = {"all", "quiet", "checked"}
  /\ \E k \in Nat : memories.all = 1..k
  /\ \A n \in Names :
       /\ dir[n].db \subseteq memories.all
       /\ ~dir[n].there => dir[n] = Absent
       /\ "database" \notin dir[n].parts => dir[n].db = {}
  /\ host \in {"none", "gone", "live", "rollback", "displaced"}
  /\ host \in Names => "database" \in dir[host].parts

\* Everything but the first bundle comes after it.
BundleFirst ==
  \/ /\ dir["bundle"].there /\ dir["bundle"].parts = {"database", "config", "manifest"}
     /\ cmd.pc \notin Bundling
  \/ /\ ~dir["bundle"].there
     /\ ~dir["rollback"].there /\ dir["restored"].parts = {} /\ switch = NoSwitch
     /\ cmd.pc \in {"idle"} \cup Bundling
     /\ cmd.pc = "idle" => cmd.last \notin {"restored", "switched", "rolled_back"}

StagedOK ==
  /\ cmd.pc = "snapshot" => dir["staging"].there
  /\ cmd.pc = "copyConfig" => dir["staging"].parts = {"database"}
  /\ cmd.pc = "seal" => dir["staging"].parts = {"database", "config"}
  /\ cmd.pc = "publish" =>
       dir["staging"].there /\ dir["staging"].parts = {"database", "config", "manifest"}

\* The main directory has a database, and every copy holds of what was written in
\* peace no more than it.
MainOK ==
  /\ "database" \in dir[Main].parts
  /\ \A n \in {"staging", "bundle", "restored"} : dir[n].db \cap Quiet \subseteq dir[Main].db
  /\ Quiet \subseteq dir["live"].db \cup dir["rollback"].db \cup dir["displaced"].db

\* A restore: how far it has come.
CopyOK ==
  cmd.pc \in Copying =>
    /\ cmd.to = "live" =>
         dir["rollback"].there /\ dir["live"].db \cap Quiet \subseteq dir["rollback"].db
    /\ cmd.pc = "copyDb" => dir[cmd.to].there /\ dir["bundle"].db = dir["bundle"].sealed
    /\ cmd.pc = "copyDb" /\ cmd.to = "restored" => dir["restored"].parts = {}
    /\ cmd.pc \in {"restoreConfig", "rebuild"} =>
         "database" \in dir[cmd.to].parts /\ dir["bundle"].sealed \subseteq dir[cmd.to].db
    /\ cmd.pc = "restoreConfig" /\ cmd.to = "restored" => dir["restored"].parts = {"database"}
    /\ cmd.pc = "rebuild" => "config" \in dir[cmd.to].parts
    /\ cmd.pc = "rebuild" /\ cmd.to = "restored" => dir["restored"].parts = {"database", "config"}

RestoredWhole ==
  \/ "restored" \in torn \/ dir["restored"].parts \in {{}, Whole}
  \/ cmd.pc \in Copying /\ cmd.to = "restored"

\* A switch and its way back: what may be deleted is kept elsewhere.
SwitchOK ==
  /\ cmd.pc = "putAside" => ~dir["rollback"].there
  /\ cmd.pc \in Switching \ {"putAside"} => dir["rollback"].there
  /\ cmd.pc \in {"checkSwitch", "undoLive"} =>
       dir["live"].db \cap Quiet \subseteq dir["rollback"].db
  /\ cmd.pc = "idle" /\ cmd.last \in {"switched", "rolled_back"} =>
       switch.restored.parts = Whole /\ "database" \in switch.previous.parts
  /\ switch # NoSwitch =>
       /\ switch.restored.parts = Whole /\ "database" \in switch.previous.parts
       /\ switch.restored.db \subseteq memories.all
       /\ switch.restored.db \cap Quiet \subseteq switch.previous.db

BackOK ==
  /\ cmd.pc \in GoingBack => switch # NoSwitch
  /\ cmd.pc \in {"displace", "putBack"} => dir["rollback"].there
  /\ cmd.pc = "displace" =>
       ~dir["displaced"].there /\ dir["live"].db \cap Quiet \subseteq dir["rollback"].db
  /\ cmd.pc = "putBack" => dir["displaced"].db \cap Quiet \subseteq dir["rollback"].db
  /\ cmd.pc \in {"checkBack", "discard"} => dir["displaced"].db \cap Quiet \subseteq dir["live"].db
  /\ cmd.pc \in {"checkBack", "discard", "undoBack"} => ~dir["rollback"].there
  /\ cmd.pc = "discard" /\ memories.all = memories.checked => dir["live"] = switch.previous

RestInv ==
  /\ RestTypeOK /\ CommandOK /\ DirectoriesOK /\ BundleFirst /\ StagedOK
  /\ MainOK /\ CopyOK /\ RestoredWhole /\ SwitchOK /\ BackOK
  /\ AnswersHold /\ AllOrNothing


LEMMA AbsentIs ==
  /\ Absent \in Directory /\ EmptyDirectory \in Directory
  /\ NoSwitch \in [previous : Directory, restored : Directory]
  /\ Absent.there = FALSE /\ Absent.parts = {} /\ Absent.db = {} /\ Absent.sealed = {}
  /\ EmptyDirectory.there = TRUE /\ EmptyDirectory.parts = {} /\ EmptyDirectory.db = {}
  /\ EmptyDirectory.sealed = {}
BY DEF Absent, EmptyDirectory, Directory, NoSwitch

LEMMA RenameIs ==
  ASSUME dir \in [Names -> Directory], NEW from \in Names, NEW to \in Names, from # to,
         dir' = Renamed(from, to)
  PROVE  /\ dir' \in [Names -> Directory]
         /\ dir'[to] = dir[from] /\ dir'[from] = Absent
         /\ \A n \in Names \ {from, to} : dir'[n] = dir[n]
BY AbsentIs DEF Renamed

LEMMA PutIs ==
  ASSUME dir \in [Names -> Directory], NEW n \in Names, NEW d \in Directory,
         dir' = [dir EXCEPT ![n] = d]
  PROVE  /\ dir' \in [Names -> Directory]
         /\ dir'[n] = d
         /\ \A m \in Names \ {n} : dir'[m] = dir[m]
OBVIOUS

LEMMA StepIs ==
  ASSUME NEW pc, AtStep(pc), "pc" \in DOMAIN cmd
  PROVE  /\ cmd'.pc = pc /\ DOMAIN cmd' = DOMAIN cmd
         /\ \A f \in DOMAIN cmd \ {"pc"} : cmd'[f] = cmd[f]
BY DEF AtStep

LEMMA EndIs ==
  ASSUME NEW result, EndWith(result)
  PROVE  cmd'.pc = "idle" /\ cmd'.last = result /\ DOMAIN cmd' = {"pc", "last"}
BY DEF EndWith

\* The names of steps, of directories and of parts are just that.
USE DEF Bundling, Copying, Switching, GoingBack, Names, Parts, Whole, Running

LEMMA StartBundleKeeps == ASSUME RestInv, StartBundle PROVE RestInv'
<1>1. ~Running /\ dir["live"].there /\ ~dir["bundle"].there
  BY DEF StartBundle
<1>2. cmd'.pc = "snapshot" /\ DOMAIN cmd' = {"pc"}
  BY DEF StartBundle
<1>3. /\ dir' \in [Names -> Directory]
      /\ dir'["staging"] = EmptyDirectory
      /\ \A m \in Names \ {"staging"} : dir'[m] = dir[m]
  BY AbsentIs DEF StartBundle, RestInv, RestTypeOK
<1>4. UNCHANGED <<switch, moved, host, memories, torn, breaks>>
  BY DEF StartBundle
<1>5. RestTypeOK' /\ DirectoriesOK'
  BY <1>1, <1>2, <1>3, <1>4, AbsentIs, SMTT(30) DEF RestInv, RestTypeOK,
     DirectoriesOK, CommandOK, StagedOK, CopyOK, SwitchOK, BackOK
<1>6. CommandOK' /\ BundleFirst' /\ StagedOK'
  BY <1>1, <1>2, <1>3, <1>4, AbsentIs, SMTT(30) DEF RestInv, RestTypeOK,
     DirectoriesOK, CommandOK, BundleFirst, StagedOK, MainOK, Main
<1>7. MainOK' /\ CopyOK' /\ RestoredWhole'
  BY <1>1, <1>2, <1>3, <1>4, AbsentIs, SMTT(30) DEF RestInv, RestTypeOK,
     DirectoriesOK, CommandOK, BundleFirst, MainOK, CopyOK, RestoredWhole, SwitchOK,
     BackOK, Main, Quiet
<1>8. SwitchOK' /\ BackOK' /\ AnswersHold' /\ AllOrNothing'
  BY <1>1, <1>2, <1>3, <1>4, AbsentIs, SMTT(30) DEF RestInv, RestTypeOK,
     DirectoriesOK, CommandOK, BundleFirst, StagedOK, MainOK, Main, CopyOK,
     RestoredWhole, SwitchOK, BackOK, AnswersHold, AllOrNothing, Quiet
<1> QED BY <1>5, <1>6, <1>7, <1>8 DEF RestInv

LEMMA SnapshotDbKeeps == ASSUME RestInv, SnapshotDb PROVE RestInv'
<1>1. cmd.pc = "snapshot"
  BY DEF SnapshotDb
<1>2. cmd'.pc = "copyConfig" /\ DOMAIN cmd' = {"pc"}
  BY <1>1, StepIs DEF SnapshotDb, RestInv, CommandOK
<1>3. dir' =
       [dir EXCEPT !["staging"] = [dir["staging"] EXCEPT
           !.parts = {"database"}, !.db = dir["live"].db]]
  BY DEF SnapshotDb, RestInv, RestTypeOK
<1>4. /\ dir' \in [Names -> Directory]
      /\ dir'["staging"].there = dir["staging"].there
      /\ dir'["staging"].parts = {"database"}
      /\ dir'["staging"].db = dir["live"].db
      /\ \A m \in Names \ {"staging"} : dir'[m] = dir[m]
  BY <1>3 DEF RestInv, RestTypeOK, Directory
<1>5. UNCHANGED <<switch, moved, host, memories, torn, breaks>>
  BY DEF SnapshotDb
<1>6. RestTypeOK' /\ DirectoriesOK'
  BY <1>1, <1>2, <1>4, <1>5, AbsentIs, SMTT(30) DEF RestInv, RestTypeOK,
     DirectoriesOK, CommandOK, StagedOK, CopyOK, SwitchOK, BackOK
<1>7. CommandOK' /\ BundleFirst' /\ StagedOK'
  BY <1>1, <1>2, <1>4, <1>5, AbsentIs, SMTT(30) DEF RestInv, RestTypeOK,
     DirectoriesOK, CommandOK, BundleFirst, StagedOK, MainOK, Main
<1>8. MainOK' /\ CopyOK' /\ RestoredWhole'
  BY <1>1, <1>2, <1>4, <1>5, AbsentIs, SMTT(30) DEF RestInv, RestTypeOK,
     DirectoriesOK, CommandOK, BundleFirst, MainOK, CopyOK, RestoredWhole, SwitchOK,
     BackOK, Main, Quiet
<1>9. SwitchOK' /\ BackOK' /\ AnswersHold' /\ AllOrNothing'
  BY <1>1, <1>2, <1>4, <1>5, AbsentIs, SMTT(30) DEF RestInv, RestTypeOK,
     DirectoriesOK, CommandOK, BundleFirst, StagedOK, MainOK, Main, CopyOK,
     RestoredWhole, SwitchOK, BackOK, AnswersHold, AllOrNothing, Quiet
<1> QED BY <1>6, <1>7, <1>8, <1>9 DEF RestInv

LEMMA CopyConfigKeeps == ASSUME RestInv, CopyConfig PROVE RestInv'
<1>1. cmd.pc = "copyConfig"
  BY DEF CopyConfig
<1>2. cmd'.pc = "seal" /\ DOMAIN cmd' = {"pc"}
  BY <1>1, StepIs DEF CopyConfig, RestInv, CommandOK
<1>3. /\ dir' \in [Names -> Directory]
      /\ dir'["staging"].there = dir["staging"].there
      /\ dir'["staging"].parts = dir["staging"].parts \cup {"config"}
      /\ dir'["staging"].db = dir["staging"].db
      /\ \A m \in Names \ {"staging"} : dir'[m] = dir[m]
  BY DEF CopyConfig, RestInv, RestTypeOK, Directory
<1>4. UNCHANGED <<switch, moved, host, memories, torn, breaks>>
  BY DEF CopyConfig
<1>5. RestTypeOK' /\ DirectoriesOK'
  BY <1>1, <1>2, <1>3, <1>4, AbsentIs, SMTT(30) DEF RestInv, RestTypeOK,
     DirectoriesOK, CommandOK, StagedOK, CopyOK, SwitchOK, BackOK
<1>6. CommandOK' /\ BundleFirst' /\ StagedOK'
  BY <1>1, <1>2, <1>3, <1>4, AbsentIs, SMTT(30) DEF RestInv, RestTypeOK,
     DirectoriesOK, CommandOK, BundleFirst, StagedOK, MainOK, Main
<1>7. MainOK' /\ CopyOK' /\ RestoredWhole'
  BY <1>1, <1>2, <1>3, <1>4, AbsentIs, SMTT(30) DEF RestInv, RestTypeOK,
     DirectoriesOK, CommandOK, BundleFirst, MainOK, CopyOK, RestoredWhole, SwitchOK,
     BackOK, Main, Quiet
<1>8. SwitchOK' /\ BackOK' /\ AnswersHold' /\ AllOrNothing'
  BY <1>1, <1>2, <1>3, <1>4, AbsentIs, SMTT(30) DEF RestInv, RestTypeOK,
     DirectoriesOK, CommandOK, BundleFirst, StagedOK, MainOK, Main, CopyOK,
     RestoredWhole, SwitchOK, BackOK, AnswersHold, AllOrNothing, Quiet
<1> QED BY <1>5, <1>6, <1>7, <1>8 DEF RestInv

LEMMA SealKeeps == ASSUME RestInv, Seal PROVE RestInv'
<1>1. cmd.pc = "seal" /\ dir["staging"].there
  BY AbsentIs DEF Seal, RestInv, StagedOK, DirectoriesOK
<1>2. cmd'.pc = "publish" /\ DOMAIN cmd' = {"pc"}
  BY <1>1, StepIs DEF Seal, RestInv, CommandOK
<1>3. dir' =
       [dir EXCEPT !["staging"] = [dir["staging"] EXCEPT
           !.parts = @ \cup {"manifest"}, !.sealed = dir["staging"].db]]
  BY DEF Seal, RestInv, RestTypeOK
<1>4. /\ dir' \in [Names -> Directory]
      /\ dir'["staging"].there = dir["staging"].there
      /\ dir'["staging"].parts = dir["staging"].parts \cup {"manifest"}
      /\ dir'["staging"].db = dir["staging"].db
      /\ dir'["staging"].sealed = dir["staging"].db
      /\ \A m \in Names \ {"staging"} : dir'[m] = dir[m]
  BY <1>3 DEF RestInv, RestTypeOK, Directory
<1>5. moved' \in BOOLEAN /\ UNCHANGED <<switch, host, memories, torn, breaks>>
  BY DEF Seal
<1>6. RestTypeOK'
  BY <1>1, <1>2, <1>4, <1>5, AbsentIs, SMTT(30) DEF RestInv, RestTypeOK,
     DirectoriesOK, StagedOK, CommandOK
<1>7. DirectoriesOK'
  <2>1. \A n \in Names \ {"staging"} : dir'[n] = dir[n]
    BY <1>4
  <2>2. dir'["staging"].there
    BY <1>1, <1>4
  <2>3. /\ dir["staging"].db \subseteq memories.all
        /\ "database" \notin dir["staging"].parts => dir["staging"].db = {}
    BY DEF RestInv, DirectoriesOK, Names
  <2>4. \A n \in Names :
          /\ dir'[n].db \subseteq memories.all
          /\ ~dir'[n].there => dir'[n] = Absent
          /\ "database" \notin dir'[n].parts => dir'[n].db = {}
    BY <1>4, <2>1, <2>2, <2>3 DEF RestInv, DirectoriesOK
  <2>5. host \in Names => host \in Names \ {"staging"}
    BY DEF RestInv, DirectoriesOK, Names
  <2> QED BY <1>4, <1>5, <2>4, <2>5 DEF RestInv, DirectoriesOK
<1>8. CommandOK' /\ BundleFirst' /\ StagedOK'
  BY <1>1, <1>2, <1>4, <1>5, AbsentIs, SMTT(30) DEF RestInv, RestTypeOK,
     DirectoriesOK, CommandOK, BundleFirst, StagedOK, MainOK, Main
<1>9. MainOK' /\ CopyOK' /\ RestoredWhole'
  BY <1>1, <1>2, <1>4, <1>5, AbsentIs, SMTT(30) DEF RestInv, RestTypeOK,
     DirectoriesOK, CommandOK, BundleFirst, MainOK, CopyOK, RestoredWhole, SwitchOK,
     BackOK, Main, Quiet
<1>10. SwitchOK' /\ BackOK' /\ AnswersHold' /\ AllOrNothing'
  BY <1>1, <1>2, <1>4, <1>5, AbsentIs, SMTT(30) DEF RestInv, RestTypeOK,
     DirectoriesOK, CommandOK, BundleFirst, StagedOK, MainOK, Main, CopyOK,
     RestoredWhole, SwitchOK, BackOK, AnswersHold, AllOrNothing, Quiet
<1> QED BY <1>6, <1>7, <1>8, <1>9, <1>10 DEF RestInv

LEMMA PublishBundleKeeps == ASSUME RestInv, PublishBundle PROVE RestInv'
<1>1. cmd.pc = "publish"
  BY DEF PublishBundle
<1>2. cmd'.pc = "idle" /\ cmd'.last = "bundled" /\ DOMAIN cmd' = {"pc", "last"}
  BY EndIs DEF PublishBundle
<1>3. /\ dir' \in [Names -> Directory]
      /\ dir'["bundle"] = dir["staging"]
      /\ dir'["staging"] = Absent
      /\ \A m \in Names \ {"staging", "bundle"} : dir'[m] = dir[m]
  BY RenameIs DEF PublishBundle, RestInv, RestTypeOK
<1>4. UNCHANGED <<switch, moved, host, memories, torn, breaks>>
  BY DEF PublishBundle
<1>5. RestTypeOK' /\ DirectoriesOK'
  BY <1>1, <1>2, <1>3, <1>4, AbsentIs, SMTT(30) DEF RestInv, RestTypeOK,
     DirectoriesOK, CommandOK, StagedOK, CopyOK, SwitchOK, BackOK
<1>6. CommandOK' /\ BundleFirst' /\ StagedOK'
  BY <1>1, <1>2, <1>3, <1>4, AbsentIs, SMTT(30) DEF RestInv, RestTypeOK,
     DirectoriesOK, CommandOK, BundleFirst, StagedOK, MainOK, Main
<1>7. MainOK' /\ CopyOK' /\ RestoredWhole'
  BY <1>1, <1>2, <1>3, <1>4, AbsentIs, SMTT(30) DEF RestInv, RestTypeOK,
     DirectoriesOK, CommandOK, BundleFirst, MainOK, CopyOK, RestoredWhole, SwitchOK,
     BackOK, Main, Quiet
<1>8. SwitchOK' /\ BackOK' /\ AnswersHold' /\ AllOrNothing'
  BY <1>1, <1>2, <1>3, <1>4, AbsentIs, SMTT(30) DEF RestInv, RestTypeOK,
     DirectoriesOK, CommandOK, BundleFirst, StagedOK, MainOK, Main, CopyOK,
     RestoredWhole, SwitchOK, BackOK, AnswersHold, AllOrNothing, Quiet
<1> QED BY <1>5, <1>6, <1>7, <1>8 DEF RestInv

LEMMA UndoBundleKeeps == ASSUME RestInv, UndoBundle PROVE RestInv'
<1>1. cmd.pc = "undoBundle"
  BY DEF UndoBundle
<1>2. cmd'.pc = "idle" /\ cmd'.last = "failed" /\ DOMAIN cmd' = {"pc", "last"}
  BY EndIs DEF UndoBundle
<1>3. /\ dir' \in [Names -> Directory]
      /\ dir'["staging"] = Absent
      /\ \A m \in Names \ {"staging"} : dir'[m] = dir[m]
  BY AbsentIs DEF UndoBundle, RestInv, RestTypeOK
<1>4. UNCHANGED <<switch, moved, host, memories, torn, breaks>>
  BY DEF UndoBundle
<1>5. RestTypeOK' /\ DirectoriesOK'
  BY <1>1, <1>2, <1>3, <1>4, AbsentIs, SMTT(30) DEF RestInv, RestTypeOK,
     DirectoriesOK, CommandOK, StagedOK, CopyOK, SwitchOK, BackOK
<1>6. CommandOK' /\ BundleFirst' /\ StagedOK'
  BY <1>1, <1>2, <1>3, <1>4, AbsentIs, SMTT(30) DEF RestInv, RestTypeOK,
     DirectoriesOK, CommandOK, BundleFirst, StagedOK, MainOK, Main
<1>7. MainOK' /\ CopyOK' /\ RestoredWhole'
  BY <1>1, <1>2, <1>3, <1>4, AbsentIs, SMTT(30) DEF RestInv, RestTypeOK,
     DirectoriesOK, CommandOK, BundleFirst, MainOK, CopyOK, RestoredWhole, SwitchOK,
     BackOK, Main, Quiet
<1>8. SwitchOK' /\ BackOK' /\ AnswersHold' /\ AllOrNothing'
  BY <1>1, <1>2, <1>3, <1>4, AbsentIs, SMTT(30) DEF RestInv, RestTypeOK,
     DirectoriesOK, CommandOK, BundleFirst, StagedOK, MainOK, Main, CopyOK,
     RestoredWhole, SwitchOK, BackOK, AnswersHold, AllOrNothing, Quiet
<1> QED BY <1>5, <1>6, <1>7, <1>8 DEF RestInv

LEMMA StartRestoreKeeps ==
  ASSUME RestInv, NEW n \in {"restored", "live"}, StartRestore(n) PROVE RestInv'
<1>1. /\ ~Running
      /\ dir[n].parts = {}
      /\ dir["bundle"].there
      /\ dir["bundle"].db = dir["bundle"].sealed
  BY DEF StartRestore, SealHolds
<1>2. cmd'.pc = "copyDb" /\ cmd'.to = n /\ DOMAIN cmd' = {"pc", "to", "created"}
  BY DEF StartRestore
<1>3. /\ dir' \in [Names -> Directory]
      /\ dir'[n] = EmptyDirectory
      /\ \A m \in Names \ {n} : dir'[m] = dir[m]
  BY AbsentIs DEF StartRestore, RestInv, RestTypeOK
<1>4. UNCHANGED <<switch, moved, host, memories, torn, breaks>>
  BY DEF StartRestore
<1>5. RestTypeOK' /\ DirectoriesOK'
  BY <1>1, <1>2, <1>3, <1>4, AbsentIs, SMTT(30) DEF RestInv, RestTypeOK,
     DirectoriesOK, CommandOK, StagedOK, CopyOK, SwitchOK, BackOK
<1>6. CommandOK' /\ BundleFirst' /\ StagedOK'
  BY <1>1, <1>2, <1>3, <1>4, AbsentIs, SMTT(30) DEF RestInv, RestTypeOK,
     DirectoriesOK, CommandOK, BundleFirst, StagedOK, MainOK, Main
<1>7. MainOK' /\ CopyOK' /\ RestoredWhole'
  BY <1>1, <1>2, <1>3, <1>4, AbsentIs, SMTT(30) DEF RestInv, RestTypeOK,
     DirectoriesOK, CommandOK, BundleFirst, MainOK, CopyOK, RestoredWhole, SwitchOK,
     BackOK, Main, Quiet
<1>8. SwitchOK' /\ BackOK' /\ AnswersHold' /\ AllOrNothing'
  BY <1>1, <1>2, <1>3, <1>4, AbsentIs, SMTT(30) DEF RestInv, RestTypeOK,
     DirectoriesOK, CommandOK, BundleFirst, StagedOK, MainOK, Main, CopyOK,
     RestoredWhole, SwitchOK, BackOK, AnswersHold, AllOrNothing, Quiet
<1> QED BY <1>5, <1>6, <1>7, <1>8 DEF RestInv

LEMMA CopyDbKeeps == ASSUME RestInv, CopyDb PROVE RestInv'
<1>1. cmd.pc = "copyDb"
  BY DEF CopyDb
<1>2. /\ cmd.to \in {"restored", "live"}
      /\ cmd'.pc = "restoreConfig"
      /\ cmd'.to = cmd.to
      /\ DOMAIN cmd' = {"pc", "to", "created"}
  BY <1>1, StepIs DEF CopyDb, RestInv, CommandOK
<1>3. dir' =
       [dir EXCEPT ![cmd.to] = [dir[cmd.to] EXCEPT
           !.parts = {"database"}, !.db = dir["bundle"].db]]
  BY DEF CopyDb, RestInv, RestTypeOK
<1>4. /\ dir' \in [Names -> Directory]
      /\ dir'[cmd.to].there = dir[cmd.to].there
      /\ dir'[cmd.to].parts = {"database"}
      /\ dir'[cmd.to].db = dir["bundle"].db
      /\ \A m \in Names \ {cmd.to} : dir'[m] = dir[m]
  BY <1>2, <1>3, ZenonT(30) DEF RestInv, RestTypeOK, Directory
<1>5. UNCHANGED <<switch, moved, host, memories, torn, breaks>>
  BY DEF CopyDb
<1>6. RestTypeOK' /\ DirectoriesOK'
  BY <1>1, <1>2, <1>4, <1>5, AbsentIs, SMTT(30) DEF RestInv, RestTypeOK,
     DirectoriesOK, CommandOK, StagedOK, CopyOK, SwitchOK, BackOK
<1>7. CommandOK' /\ BundleFirst' /\ StagedOK'
  BY <1>1, <1>2, <1>4, <1>5, AbsentIs, SMTT(30) DEF RestInv, RestTypeOK,
     DirectoriesOK, CommandOK, BundleFirst, StagedOK, MainOK, Main
<1>8. MainOK' /\ CopyOK' /\ RestoredWhole'
  BY <1>1, <1>2, <1>4, <1>5, AbsentIs, SMTT(30) DEF RestInv, RestTypeOK,
     DirectoriesOK, CommandOK, BundleFirst, MainOK, CopyOK, RestoredWhole, SwitchOK,
     BackOK, Main, Quiet
<1>9. SwitchOK' /\ BackOK' /\ AnswersHold' /\ AllOrNothing'
  BY <1>1, <1>2, <1>4, <1>5, AbsentIs, SMTT(30) DEF RestInv, RestTypeOK,
     DirectoriesOK, CommandOK, BundleFirst, StagedOK, MainOK, Main, CopyOK,
     RestoredWhole, SwitchOK, BackOK, AnswersHold, AllOrNothing, Quiet
<1> QED BY <1>6, <1>7, <1>8, <1>9 DEF RestInv

LEMMA RestoreConfigKeeps == ASSUME RestInv, RestoreConfig PROVE RestInv'
<1>1. cmd.pc = "restoreConfig"
  BY DEF RestoreConfig
<1>2. /\ cmd.to \in {"restored", "live"}
      /\ cmd'.pc = "rebuild"
      /\ cmd'.to = cmd.to
      /\ DOMAIN cmd' = {"pc", "to", "created"}
  BY <1>1, StepIs DEF RestoreConfig, RestInv, CommandOK
<1>3. /\ dir' \in [Names -> Directory]
      /\ dir'[cmd.to].there = dir[cmd.to].there
      /\ dir'[cmd.to].parts = dir[cmd.to].parts \cup {"config"}
      /\ dir'[cmd.to].db = dir[cmd.to].db
      /\ \A m \in Names \ {cmd.to} : dir'[m] = dir[m]
  BY <1>2 DEF RestoreConfig, RestInv, RestTypeOK, Directory
<1>4. UNCHANGED <<switch, moved, host, memories, torn, breaks>>
  BY DEF RestoreConfig
<1>5. RestTypeOK' /\ DirectoriesOK'
  BY <1>1, <1>2, <1>3, <1>4, AbsentIs, SMTT(30) DEF RestInv, RestTypeOK,
     DirectoriesOK, CommandOK, StagedOK, CopyOK, SwitchOK, BackOK
<1>6. CommandOK' /\ BundleFirst' /\ StagedOK'
  BY <1>1, <1>2, <1>3, <1>4, AbsentIs, SMTT(30) DEF RestInv, RestTypeOK,
     DirectoriesOK, CommandOK, BundleFirst, StagedOK, MainOK, Main
<1>7. MainOK' /\ CopyOK' /\ RestoredWhole'
  BY <1>1, <1>2, <1>3, <1>4, AbsentIs, SMTT(30) DEF RestInv, RestTypeOK,
     DirectoriesOK, CommandOK, BundleFirst, MainOK, CopyOK, RestoredWhole, SwitchOK,
     BackOK, Main, Quiet
<1>8. SwitchOK' /\ BackOK' /\ AnswersHold' /\ AllOrNothing'
  BY <1>1, <1>2, <1>3, <1>4, AbsentIs, SMTT(30) DEF RestInv, RestTypeOK,
     DirectoriesOK, CommandOK, BundleFirst, StagedOK, MainOK, Main, CopyOK,
     RestoredWhole, SwitchOK, BackOK, AnswersHold, AllOrNothing, Quiet
<1> QED BY <1>5, <1>6, <1>7, <1>8 DEF RestInv

LEMMA RebuildViewsKeeps == ASSUME RestInv, RebuildViews PROVE RestInv'
<1>1. cmd.pc = "rebuild" /\ cmd.to \in {"restored", "live"}
  BY DEF RebuildViews, RestInv, CommandOK
<1>2. cmd'.pc = "idle" /\ cmd'.last = "restored" /\ DOMAIN cmd' = {"pc", "last"}
  BY EndIs DEF RebuildViews
<1>3. /\ dir' \in [Names -> Directory]
      /\ dir'[cmd.to].there = dir[cmd.to].there
      /\ dir'[cmd.to].parts = dir[cmd.to].parts \cup {"views"}
      /\ dir'[cmd.to].db = dir[cmd.to].db
      /\ \A m \in Names \ {cmd.to} : dir'[m] = dir[m]
  BY <1>1 DEF RebuildViews, RestInv, RestTypeOK, Directory
<1>4. UNCHANGED <<switch, moved, host, memories, torn, breaks>>
  BY DEF RebuildViews
<1>5. RestTypeOK' /\ DirectoriesOK'
  BY <1>1, <1>2, <1>3, <1>4, AbsentIs, SMTT(30) DEF RestInv, RestTypeOK,
     DirectoriesOK, CommandOK, StagedOK, CopyOK, SwitchOK, BackOK
<1>6. CommandOK' /\ BundleFirst' /\ StagedOK'
  BY <1>1, <1>2, <1>3, <1>4, AbsentIs, SMTT(30) DEF RestInv, RestTypeOK,
     DirectoriesOK, CommandOK, BundleFirst, StagedOK, MainOK, Main
<1>7. MainOK' /\ CopyOK' /\ RestoredWhole'
  BY <1>1, <1>2, <1>3, <1>4, AbsentIs, SMTT(30) DEF RestInv, RestTypeOK,
     DirectoriesOK, CommandOK, BundleFirst, MainOK, CopyOK, RestoredWhole, SwitchOK,
     BackOK, Main, Quiet
<1>8. SwitchOK' /\ BackOK' /\ AnswersHold' /\ AllOrNothing'
  BY <1>1, <1>2, <1>3, <1>4, AbsentIs, SMTT(30) DEF RestInv, RestTypeOK,
     DirectoriesOK, CommandOK, BundleFirst, StagedOK, MainOK, Main, CopyOK,
     RestoredWhole, SwitchOK, BackOK, AnswersHold, AllOrNothing, Quiet
<1> QED BY <1>5, <1>6, <1>7, <1>8 DEF RestInv

LEMMA UndoRestoreKeeps == ASSUME RestInv, UndoRestore PROVE RestInv'
<1>1. cmd.pc = "undoRestore" /\ cmd.to \in {"restored", "live"}
  BY DEF UndoRestore, RestInv, CommandOK
<1>2. cmd'.pc = "idle" /\ cmd'.last = "failed" /\ DOMAIN cmd' = {"pc", "last"}
  BY EndIs DEF UndoRestore
<1>3. /\ dir' \in [Names -> Directory]
      /\ dir'[cmd.to] \in {Absent, EmptyDirectory}
      /\ \A m \in Names \ {cmd.to} : dir'[m] = dir[m]
  BY <1>1, AbsentIs DEF UndoRestore, RestInv, RestTypeOK
<1>4. HostLoses(cmd.to) /\ UNCHANGED <<switch, moved, memories, torn, breaks>>
  BY DEF UndoRestore
<1>5. RestTypeOK' /\ DirectoriesOK'
  BY <1>1, <1>2, <1>3, <1>4, AbsentIs, SMTT(30) DEF RestInv, RestTypeOK,
     DirectoriesOK, CommandOK, StagedOK, CopyOK, SwitchOK, BackOK, HostLoses
<1>6. CommandOK' /\ BundleFirst' /\ StagedOK'
  BY <1>1, <1>2, <1>3, <1>4, AbsentIs, SMTT(30) DEF RestInv, RestTypeOK,
     DirectoriesOK, CommandOK, BundleFirst, StagedOK, MainOK, Main, HostLoses
<1>7. MainOK' /\ CopyOK' /\ RestoredWhole'
  BY <1>1, <1>2, <1>3, <1>4, AbsentIs, SMTT(30) DEF RestInv, RestTypeOK,
     DirectoriesOK, CommandOK, BundleFirst, MainOK, CopyOK, RestoredWhole, SwitchOK,
     BackOK, Main, Quiet, HostLoses
<1>8. SwitchOK' /\ BackOK' /\ AnswersHold' /\ AllOrNothing'
  BY <1>1, <1>2, <1>3, <1>4, AbsentIs, SMTT(30) DEF RestInv, RestTypeOK,
     DirectoriesOK, CommandOK, BundleFirst, StagedOK, MainOK, Main, CopyOK,
     RestoredWhole, SwitchOK, BackOK, AnswersHold, AllOrNothing, Quiet, HostLoses
<1> QED BY <1>5, <1>6, <1>7, <1>8 DEF RestInv

LEMMA StartSwitchKeeps == ASSUME RestInv, StartSwitch PROVE RestInv'
<1>1. /\ ~Running
      /\ dir["restored"].parts = Whole
      /\ dir["live"].there
      /\ ~dir["rollback"].there
  BY DEF StartSwitch
<1>2. /\ cmd'.pc = "putAside"
      /\ cmd'.previous = dir["live"]
      /\ cmd'.restored = dir["restored"]
      /\ DOMAIN cmd' = {"pc", "previous", "restored"}
  BY DEF StartSwitch
<1>3. UNCHANGED <<dir, switch, moved, host, memories, torn, breaks>>
  BY DEF StartSwitch
<1>4. RestTypeOK' /\ DirectoriesOK'
  BY <1>1, <1>2, <1>3, AbsentIs, SMTT(30) DEF RestInv, RestTypeOK, DirectoriesOK,
     CommandOK, StagedOK, CopyOK, SwitchOK, BackOK
<1>5. CommandOK' /\ BundleFirst' /\ StagedOK'
  BY <1>1, <1>2, <1>3, AbsentIs, SMTT(30) DEF RestInv, RestTypeOK, DirectoriesOK,
     CommandOK, BundleFirst, StagedOK, MainOK, Main
<1>6. MainOK' /\ CopyOK' /\ RestoredWhole'
  BY <1>1, <1>2, <1>3, AbsentIs, SMTT(30) DEF RestInv, RestTypeOK, DirectoriesOK,
     CommandOK, BundleFirst, MainOK, CopyOK, RestoredWhole, SwitchOK, BackOK, Main,
     Quiet
<1>7. SwitchOK' /\ BackOK' /\ AnswersHold' /\ AllOrNothing'
  BY <1>1, <1>2, <1>3, AbsentIs, SMTT(30) DEF RestInv, RestTypeOK, DirectoriesOK,
     CommandOK, BundleFirst, StagedOK, MainOK, Main, CopyOK, RestoredWhole, SwitchOK,
     BackOK, AnswersHold, AllOrNothing, Quiet
<1> QED BY <1>4, <1>5, <1>6, <1>7 DEF RestInv

LEMMA PutAsideKeeps == ASSUME RestInv, PutAside PROVE RestInv'
<1>1. cmd.pc = "putAside"
  BY DEF PutAside
<1>2. /\ cmd'.pc = "putLive"
      /\ DOMAIN cmd' = DOMAIN cmd
      /\ cmd'.previous = cmd.previous
      /\ cmd'.restored = cmd.restored
  BY <1>1, StepIs DEF PutAside, RestInv, CommandOK
<1>3. /\ dir' \in [Names -> Directory]
      /\ dir'["rollback"] = dir["live"]
      /\ dir'["live"] = Absent
      /\ \A m \in Names \ {"live", "rollback"} : dir'[m] = dir[m]
  BY RenameIs DEF PutAside, RestInv, RestTypeOK
<1>4. /\ HostFollows("live", "rollback")
      /\ UNCHANGED <<switch, moved, memories, torn, breaks>>
  BY DEF PutAside
<1>5. RestTypeOK' /\ DirectoriesOK'
  BY <1>1, <1>2, <1>3, <1>4, AbsentIs, SMTT(30) DEF RestInv, RestTypeOK,
     DirectoriesOK, CommandOK, StagedOK, CopyOK, SwitchOK, BackOK, HostFollows
<1>6. CommandOK' /\ BundleFirst' /\ StagedOK'
  BY <1>1, <1>2, <1>3, <1>4, AbsentIs, SMTT(30) DEF RestInv, RestTypeOK,
     DirectoriesOK, CommandOK, BundleFirst, StagedOK, MainOK, Main, HostFollows
<1>7. MainOK' /\ CopyOK' /\ RestoredWhole'
  BY <1>1, <1>2, <1>3, <1>4, AbsentIs, SMTT(30) DEF RestInv, RestTypeOK,
     DirectoriesOK, CommandOK, BundleFirst, MainOK, CopyOK, RestoredWhole, SwitchOK,
     BackOK, Main, Quiet, HostFollows
<1>8. SwitchOK' /\ BackOK' /\ AnswersHold' /\ AllOrNothing'
  BY <1>1, <1>2, <1>3, <1>4, AbsentIs, SMTT(30) DEF RestInv, RestTypeOK,
     DirectoriesOK, CommandOK, BundleFirst, StagedOK, MainOK, Main, CopyOK,
     RestoredWhole, SwitchOK, BackOK, AnswersHold, AllOrNothing, Quiet, HostFollows
<1> QED BY <1>5, <1>6, <1>7, <1>8 DEF RestInv

LEMMA PutLiveKeeps == ASSUME RestInv, PutLive PROVE RestInv'
<1>1. cmd.pc = "putLive" /\ Free("live")
  BY DEF PutLive
<1>2. /\ cmd'.pc = "checkSwitch"
      /\ DOMAIN cmd' = DOMAIN cmd
      /\ cmd'.previous = cmd.previous
      /\ cmd'.restored = cmd.restored
  BY <1>1, StepIs DEF PutLive, RestInv, CommandOK
<1>3. /\ dir' \in [Names -> Directory]
      /\ dir'["live"] = dir["restored"]
      /\ dir'["restored"] = Absent
      /\ \A m \in Names \ {"live", "restored"} : dir'[m] = dir[m]
  BY RenameIs DEF PutLive, RestInv, RestTypeOK
<1>4. /\ HostFollows("restored", "live")
      /\ UNCHANGED <<switch, moved, memories, torn, breaks>>
  BY DEF PutLive
<1>5. RestTypeOK' /\ DirectoriesOK'
  BY <1>1, <1>2, <1>3, <1>4, AbsentIs, SMTT(30) DEF RestInv, RestTypeOK,
     DirectoriesOK, CommandOK, StagedOK, CopyOK, SwitchOK, BackOK, Free, HostFollows
<1>6. CommandOK' /\ BundleFirst' /\ StagedOK'
  BY <1>1, <1>2, <1>3, <1>4, AbsentIs, SMTT(30) DEF RestInv, RestTypeOK,
     DirectoriesOK, CommandOK, BundleFirst, StagedOK, MainOK, Main, Free, HostFollows
<1>7. MainOK' /\ CopyOK' /\ RestoredWhole'
  BY <1>1, <1>2, <1>3, <1>4, AbsentIs, SMTT(30) DEF RestInv, RestTypeOK,
     DirectoriesOK, CommandOK, BundleFirst, MainOK, CopyOK, RestoredWhole, SwitchOK,
     BackOK, Main, Quiet, Free, HostFollows
<1>8. SwitchOK' /\ BackOK' /\ AnswersHold' /\ AllOrNothing'
  BY <1>1, <1>2, <1>3, <1>4, AbsentIs, SMTT(30) DEF RestInv, RestTypeOK,
     DirectoriesOK, CommandOK, BundleFirst, StagedOK, MainOK, Main, CopyOK,
     RestoredWhole, SwitchOK, BackOK, AnswersHold, AllOrNothing, Quiet, Free,
     HostFollows
<1> QED BY <1>5, <1>6, <1>7, <1>8 DEF RestInv

LEMMA CheckSwitchKeeps == ASSUME RestInv, CheckSwitch PROVE RestInv'
<1>1. cmd.pc = "checkSwitch"
  BY DEF CheckSwitch
<1>2. /\ DOMAIN memories' = DOMAIN memories
      /\ memories'.all = memories.all
      /\ memories'.quiet = memories.quiet
      /\ memories'.checked = memories.all
  BY DEF CheckSwitch, RestInv, DirectoriesOK
<1>3. \/ /\ cmd'.pc = "idle" /\ cmd'.last = "switched" /\ DOMAIN cmd' = {"pc", "last"}
         /\ dir["live"] = cmd.restored /\ dir["rollback"] = cmd.previous
         /\ switch' = [previous |-> cmd.previous, restored |-> cmd.restored]
      \/ /\ cmd'.pc = "undoLive" /\ DOMAIN cmd' = DOMAIN cmd /\ switch' = switch
         /\ cmd'.previous = cmd.previous /\ cmd'.restored = cmd.restored
  BY <1>1, StepIs, EndIs DEF CheckSwitch, HashesHold, RestInv, CommandOK
<1>4. UNCHANGED <<dir, moved, host, torn, breaks>>
  BY DEF CheckSwitch
<1>5. RestTypeOK' /\ DirectoriesOK'
  BY <1>1, <1>2, <1>3, <1>4, AbsentIs, SMTT(30) DEF RestInv, RestTypeOK,
     DirectoriesOK, CommandOK, StagedOK, CopyOK, SwitchOK, BackOK
<1>6. CommandOK' /\ BundleFirst' /\ StagedOK'
  BY <1>1, <1>2, <1>3, <1>4, AbsentIs, SMTT(30) DEF RestInv, RestTypeOK,
     DirectoriesOK, CommandOK, BundleFirst, StagedOK, MainOK, Main
<1>7. MainOK' /\ CopyOK' /\ RestoredWhole'
  BY <1>1, <1>2, <1>3, <1>4, AbsentIs, SMTT(30) DEF RestInv, RestTypeOK,
     DirectoriesOK, CommandOK, BundleFirst, MainOK, CopyOK, RestoredWhole, SwitchOK,
     BackOK, Main, Quiet
<1>8. SwitchOK' /\ BackOK' /\ AnswersHold' /\ AllOrNothing'
  BY <1>1, <1>2, <1>3, <1>4, AbsentIs, SMTT(30) DEF RestInv, RestTypeOK,
     DirectoriesOK, CommandOK, BundleFirst, StagedOK, MainOK, Main, CopyOK,
     RestoredWhole, SwitchOK, BackOK, AnswersHold, AllOrNothing, Quiet
<1> QED BY <1>5, <1>6, <1>7, <1>8 DEF RestInv

LEMMA UndoLiveKeeps == ASSUME RestInv, UndoLive PROVE RestInv'
<1>1. cmd.pc = "undoLive"
  BY DEF UndoLive
<1>2. /\ cmd'.pc = "undoAside"
      /\ DOMAIN cmd' = DOMAIN cmd
      /\ cmd'.previous = cmd.previous
      /\ cmd'.restored = cmd.restored
  BY <1>1, StepIs DEF UndoLive, RestInv, CommandOK
<1>3. /\ dir' \in [Names -> Directory]
      /\ dir'["live"] = Absent
      /\ \A m \in Names \ {"live"} : dir'[m] = dir[m]
  BY AbsentIs DEF UndoLive, RestInv, RestTypeOK
<1>4. HostLoses("live") /\ UNCHANGED <<switch, moved, memories, torn, breaks>>
  BY DEF UndoLive
<1>5. RestTypeOK' /\ DirectoriesOK'
  BY <1>1, <1>2, <1>3, <1>4, AbsentIs, SMTT(30) DEF RestInv, RestTypeOK,
     DirectoriesOK, CommandOK, StagedOK, CopyOK, SwitchOK, BackOK, HostLoses
<1>6. CommandOK' /\ BundleFirst' /\ StagedOK'
  BY <1>1, <1>2, <1>3, <1>4, AbsentIs, SMTT(30) DEF RestInv, RestTypeOK,
     DirectoriesOK, CommandOK, BundleFirst, StagedOK, MainOK, Main, HostLoses
<1>7. MainOK' /\ CopyOK' /\ RestoredWhole'
  BY <1>1, <1>2, <1>3, <1>4, AbsentIs, SMTT(30) DEF RestInv, RestTypeOK,
     DirectoriesOK, CommandOK, BundleFirst, MainOK, CopyOK, RestoredWhole, SwitchOK,
     BackOK, Main, Quiet, HostLoses
<1>8. SwitchOK' /\ BackOK' /\ AnswersHold' /\ AllOrNothing'
  BY <1>1, <1>2, <1>3, <1>4, AbsentIs, SMTT(30) DEF RestInv, RestTypeOK,
     DirectoriesOK, CommandOK, BundleFirst, StagedOK, MainOK, Main, CopyOK,
     RestoredWhole, SwitchOK, BackOK, AnswersHold, AllOrNothing, Quiet, HostLoses
<1> QED BY <1>5, <1>6, <1>7, <1>8 DEF RestInv

LEMMA UndoAsideKeeps == ASSUME RestInv, UndoAside PROVE RestInv'
<1>1. cmd.pc = "undoAside" /\ Free("live")
  BY DEF UndoAside
<1>2. /\ cmd'.pc = "idle"
      /\ cmd'.last \in {"failed", "unverified"}
      /\ DOMAIN cmd' = {"pc", "last"}
  BY DEF UndoAside, EndWith
<1>3. /\ dir' \in [Names -> Directory]
      /\ dir'["live"] = dir["rollback"]
      /\ dir'["rollback"] = Absent
      /\ \A m \in Names \ {"live", "rollback"} : dir'[m] = dir[m]
  BY RenameIs DEF UndoAside, RestInv, RestTypeOK
<1>4. /\ HostFollows("rollback", "live")
      /\ UNCHANGED <<switch, moved, memories, torn, breaks>>
  BY DEF UndoAside
<1>5. RestTypeOK' /\ DirectoriesOK'
  BY <1>1, <1>2, <1>3, <1>4, AbsentIs, SMTT(30) DEF RestInv, RestTypeOK,
     DirectoriesOK, CommandOK, StagedOK, CopyOK, SwitchOK, BackOK, Free, HostFollows
<1>6. CommandOK' /\ BundleFirst' /\ StagedOK'
  BY <1>1, <1>2, <1>3, <1>4, AbsentIs, SMTT(30) DEF RestInv, RestTypeOK,
     DirectoriesOK, CommandOK, BundleFirst, StagedOK, MainOK, Main, Free, HostFollows
<1>7. MainOK' /\ CopyOK' /\ RestoredWhole'
  BY <1>1, <1>2, <1>3, <1>4, AbsentIs, SMTT(30) DEF RestInv, RestTypeOK,
     DirectoriesOK, CommandOK, BundleFirst, MainOK, CopyOK, RestoredWhole, SwitchOK,
     BackOK, Main, Quiet, Free, HostFollows
<1>8. SwitchOK' /\ BackOK' /\ AnswersHold' /\ AllOrNothing'
  BY <1>1, <1>2, <1>3, <1>4, AbsentIs, SMTT(30) DEF RestInv, RestTypeOK,
     DirectoriesOK, CommandOK, BundleFirst, StagedOK, MainOK, Main, CopyOK,
     RestoredWhole, SwitchOK, BackOK, AnswersHold, AllOrNothing, Quiet, Free,
     HostFollows
<1> QED BY <1>5, <1>6, <1>7, <1>8 DEF RestInv

LEMMA StartBackKeeps == ASSUME RestInv, StartBack PROVE RestInv'
<1>1. /\ ~Running
      /\ ReceiptFits
      /\ dir["live"].there
      /\ dir["rollback"].there
      /\ ~dir["displaced"].there
  BY DEF StartBack
<1>2. /\ switch # NoSwitch
      /\ dir["live"] = switch.restored
      /\ dir["rollback"] = switch.previous
  BY <1>1 DEF ReceiptFits
<1>3. cmd'.pc = "displace" /\ DOMAIN cmd' = {"pc"}
  BY DEF StartBack
<1>4. UNCHANGED <<dir, switch, moved, host, memories, torn, breaks>>
  BY DEF StartBack
<1>5. RestTypeOK' /\ DirectoriesOK'
  BY <1>1, <1>2, <1>3, <1>4, AbsentIs, SMTT(30) DEF RestInv, RestTypeOK,
     DirectoriesOK, CommandOK, StagedOK, CopyOK, SwitchOK, BackOK
<1>6. CommandOK' /\ BundleFirst' /\ StagedOK'
  BY <1>1, <1>2, <1>3, <1>4, AbsentIs, SMTT(30) DEF RestInv, RestTypeOK,
     DirectoriesOK, CommandOK, BundleFirst, StagedOK, MainOK, Main
<1>7. MainOK' /\ CopyOK' /\ RestoredWhole'
  BY <1>1, <1>2, <1>3, <1>4, AbsentIs, SMTT(30) DEF RestInv, RestTypeOK,
     DirectoriesOK, CommandOK, BundleFirst, MainOK, CopyOK, RestoredWhole, SwitchOK,
     BackOK, Main, Quiet
<1>8. SwitchOK' /\ BackOK' /\ AnswersHold' /\ AllOrNothing'
  BY <1>1, <1>2, <1>3, <1>4, AbsentIs, SMTT(30) DEF RestInv, RestTypeOK,
     DirectoriesOK, CommandOK, BundleFirst, StagedOK, MainOK, Main, CopyOK,
     RestoredWhole, SwitchOK, BackOK, AnswersHold, AllOrNothing, Quiet
<1> QED BY <1>5, <1>6, <1>7, <1>8 DEF RestInv

LEMMA DisplaceKeeps == ASSUME RestInv, Displace PROVE RestInv'
<1>1. cmd.pc = "displace"
  BY DEF Displace
<1>2. cmd'.pc = "putBack" /\ DOMAIN cmd' = {"pc"}
  BY <1>1, StepIs DEF Displace, RestInv, CommandOK
<1>3. /\ dir' \in [Names -> Directory]
      /\ dir'["displaced"] = dir["live"]
      /\ dir'["live"] = Absent
      /\ \A m \in Names \ {"live", "displaced"} : dir'[m] = dir[m]
  BY RenameIs DEF Displace, RestInv, RestTypeOK
<1>4. /\ HostFollows("live", "displaced")
      /\ UNCHANGED <<switch, moved, memories, torn, breaks>>
  BY DEF Displace
<1>5. RestTypeOK' /\ DirectoriesOK'
  BY <1>1, <1>2, <1>3, <1>4, AbsentIs, SMTT(30) DEF RestInv, RestTypeOK,
     DirectoriesOK, CommandOK, StagedOK, CopyOK, SwitchOK, BackOK, HostFollows
<1>6. CommandOK' /\ BundleFirst' /\ StagedOK'
  BY <1>1, <1>2, <1>3, <1>4, AbsentIs, SMTT(30) DEF RestInv, RestTypeOK,
     DirectoriesOK, CommandOK, BundleFirst, StagedOK, MainOK, Main, HostFollows
<1>7. MainOK' /\ CopyOK' /\ RestoredWhole'
  BY <1>1, <1>2, <1>3, <1>4, AbsentIs, SMTT(30) DEF RestInv, RestTypeOK,
     DirectoriesOK, CommandOK, BundleFirst, MainOK, CopyOK, RestoredWhole, SwitchOK,
     BackOK, Main, Quiet, HostFollows
<1>8. SwitchOK' /\ BackOK' /\ AnswersHold' /\ AllOrNothing'
  BY <1>1, <1>2, <1>3, <1>4, AbsentIs, SMTT(30) DEF RestInv, RestTypeOK,
     DirectoriesOK, CommandOK, BundleFirst, StagedOK, MainOK, Main, CopyOK,
     RestoredWhole, SwitchOK, BackOK, AnswersHold, AllOrNothing, Quiet, HostFollows
<1> QED BY <1>5, <1>6, <1>7, <1>8 DEF RestInv

LEMMA PutBackKeeps == ASSUME RestInv, PutBack PROVE RestInv'
<1>1. cmd.pc = "putBack" /\ Free("live")
  BY DEF PutBack
<1>2. cmd'.pc = "checkBack" /\ DOMAIN cmd' = {"pc"}
  BY <1>1, StepIs DEF PutBack, RestInv, CommandOK
<1>3. /\ dir' \in [Names -> Directory]
      /\ dir'["live"] = dir["rollback"]
      /\ dir'["rollback"] = Absent
      /\ \A m \in Names \ {"live", "rollback"} : dir'[m] = dir[m]
  BY RenameIs DEF PutBack, RestInv, RestTypeOK
<1>4. /\ HostFollows("rollback", "live")
      /\ UNCHANGED <<switch, moved, memories, torn, breaks>>
  BY DEF PutBack
<1>5. RestTypeOK' /\ DirectoriesOK'
  BY <1>1, <1>2, <1>3, <1>4, AbsentIs, SMTT(30) DEF RestInv, RestTypeOK,
     DirectoriesOK, CommandOK, StagedOK, CopyOK, SwitchOK, BackOK, Free, HostFollows
<1>6. CommandOK' /\ BundleFirst' /\ StagedOK'
  BY <1>1, <1>2, <1>3, <1>4, AbsentIs, SMTT(30) DEF RestInv, RestTypeOK,
     DirectoriesOK, CommandOK, BundleFirst, StagedOK, MainOK, Main, Free, HostFollows
<1>7. MainOK' /\ CopyOK' /\ RestoredWhole'
  BY <1>1, <1>2, <1>3, <1>4, AbsentIs, SMTT(30) DEF RestInv, RestTypeOK,
     DirectoriesOK, CommandOK, BundleFirst, MainOK, CopyOK, RestoredWhole, SwitchOK,
     BackOK, Main, Quiet, Free, HostFollows
<1>8. SwitchOK' /\ BackOK' /\ AnswersHold' /\ AllOrNothing'
  BY <1>1, <1>2, <1>3, <1>4, AbsentIs, SMTT(30) DEF RestInv, RestTypeOK,
     DirectoriesOK, CommandOK, BundleFirst, StagedOK, MainOK, Main, CopyOK,
     RestoredWhole, SwitchOK, BackOK, AnswersHold, AllOrNothing, Quiet, Free,
     HostFollows
<1> QED BY <1>5, <1>6, <1>7, <1>8 DEF RestInv

LEMMA CheckBackKeeps == ASSUME RestInv, CheckBack PROVE RestInv'
<1>1. cmd.pc = "checkBack"
  BY DEF CheckBack
<1>2. /\ DOMAIN memories' = DOMAIN memories
      /\ memories'.all = memories.all
      /\ memories'.quiet = memories.quiet
      /\ memories'.checked = memories.all
  BY DEF CheckBack, RestInv, DirectoriesOK
<1>3. DOMAIN cmd = {"pc"}
  BY <1>1 DEF RestInv, CommandOK
<1>4. /\ DOMAIN cmd' = {"pc"}
      /\ cmd'.pc = (IF dir["live"] = switch.previous THEN "discard" ELSE "undoBack")
  BY <1>3 DEF CheckBack, AtStep
<1>5. UNCHANGED <<dir, switch, moved, host, torn, breaks>>
  BY DEF CheckBack
<1>6. RestTypeOK' /\ DirectoriesOK'
  BY <1>1, <1>2, <1>3, <1>4, <1>5, AbsentIs, SMTT(30) DEF RestInv, RestTypeOK,
     DirectoriesOK, CommandOK, StagedOK, CopyOK, SwitchOK, BackOK
<1>7. CommandOK' /\ BundleFirst' /\ StagedOK'
  BY <1>1, <1>2, <1>3, <1>4, <1>5, AbsentIs, SMTT(30) DEF RestInv, RestTypeOK,
     DirectoriesOK, CommandOK, BundleFirst, StagedOK, MainOK, Main
<1>8. MainOK' /\ CopyOK' /\ RestoredWhole'
  BY <1>1, <1>2, <1>3, <1>4, <1>5, AbsentIs, SMTT(30) DEF RestInv, RestTypeOK,
     DirectoriesOK, CommandOK, BundleFirst, MainOK, CopyOK, RestoredWhole, SwitchOK,
     BackOK, Main, Quiet
<1>9. SwitchOK' /\ BackOK' /\ AnswersHold' /\ AllOrNothing'
  BY <1>1, <1>2, <1>3, <1>4, <1>5, AbsentIs, SMTT(30) DEF RestInv, RestTypeOK,
     DirectoriesOK, CommandOK, BundleFirst, StagedOK, MainOK, Main, CopyOK,
     RestoredWhole, SwitchOK, BackOK, AnswersHold, AllOrNothing, Quiet
<1> QED BY <1>6, <1>7, <1>8, <1>9 DEF RestInv

LEMMA DiscardKeeps == ASSUME RestInv, Discard PROVE RestInv'
<1>1. cmd.pc = "discard"
  BY DEF Discard
<1>2. cmd'.pc = "idle" /\ cmd'.last = "rolled_back" /\ DOMAIN cmd' = {"pc", "last"}
  BY EndIs DEF Discard
<1>3. /\ dir' \in [Names -> Directory]
      /\ dir'["displaced"] = Absent
      /\ \A m \in Names \ {"displaced"} : dir'[m] = dir[m]
  BY AbsentIs DEF Discard, RestInv, RestTypeOK
<1>4. HostLoses("displaced") /\ UNCHANGED <<switch, moved, memories, torn, breaks>>
  BY DEF Discard
<1>5. RestTypeOK' /\ DirectoriesOK'
  BY <1>1, <1>2, <1>3, <1>4, AbsentIs, SMTT(30) DEF RestInv, RestTypeOK,
     DirectoriesOK, CommandOK, StagedOK, CopyOK, SwitchOK, BackOK, HostLoses
<1>6. CommandOK' /\ BundleFirst' /\ StagedOK'
  BY <1>1, <1>2, <1>3, <1>4, AbsentIs, SMTT(30) DEF RestInv, RestTypeOK,
     DirectoriesOK, CommandOK, BundleFirst, StagedOK, MainOK, Main, HostLoses
<1>7. MainOK' /\ CopyOK' /\ RestoredWhole'
  BY <1>1, <1>2, <1>3, <1>4, AbsentIs, SMTT(30) DEF RestInv, RestTypeOK,
     DirectoriesOK, CommandOK, BundleFirst, MainOK, CopyOK, RestoredWhole, SwitchOK,
     BackOK, Main, Quiet, HostLoses
<1>8. SwitchOK' /\ BackOK' /\ AnswersHold' /\ AllOrNothing'
  BY <1>1, <1>2, <1>3, <1>4, AbsentIs, SMTT(30) DEF RestInv, RestTypeOK,
     DirectoriesOK, CommandOK, BundleFirst, StagedOK, MainOK, Main, CopyOK,
     RestoredWhole, SwitchOK, BackOK, AnswersHold, AllOrNothing, Quiet, HostLoses
<1> QED BY <1>5, <1>6, <1>7, <1>8 DEF RestInv

LEMMA UndoBackKeeps == ASSUME RestInv, UndoBack PROVE RestInv'
<1>1. cmd.pc = "undoBack" /\ Free("rollback")
  BY DEF UndoBack
<1>2. cmd'.pc = "undoDisplace" /\ DOMAIN cmd' = {"pc"}
  BY <1>1, StepIs DEF UndoBack, RestInv, CommandOK
<1>3. /\ dir' \in [Names -> Directory]
      /\ dir'["rollback"] = dir["live"]
      /\ dir'["live"] = Absent
      /\ \A m \in Names \ {"live", "rollback"} : dir'[m] = dir[m]
  BY RenameIs DEF UndoBack, RestInv, RestTypeOK
<1>4. /\ HostFollows("live", "rollback")
      /\ UNCHANGED <<switch, moved, memories, torn, breaks>>
  BY DEF UndoBack
<1>5. RestTypeOK' /\ DirectoriesOK'
  BY <1>1, <1>2, <1>3, <1>4, AbsentIs, SMTT(30) DEF RestInv, RestTypeOK,
     DirectoriesOK, CommandOK, StagedOK, CopyOK, SwitchOK, BackOK, Free, HostFollows
<1>6. CommandOK' /\ BundleFirst' /\ StagedOK'
  BY <1>1, <1>2, <1>3, <1>4, AbsentIs, SMTT(30) DEF RestInv, RestTypeOK,
     DirectoriesOK, CommandOK, BundleFirst, StagedOK, MainOK, Main, Free, HostFollows
<1>7. MainOK' /\ CopyOK' /\ RestoredWhole'
  BY <1>1, <1>2, <1>3, <1>4, AbsentIs, SMTT(30) DEF RestInv, RestTypeOK,
     DirectoriesOK, CommandOK, BundleFirst, MainOK, CopyOK, RestoredWhole, SwitchOK,
     BackOK, Main, Quiet, Free, HostFollows
<1>8. SwitchOK' /\ BackOK' /\ AnswersHold' /\ AllOrNothing'
  BY <1>1, <1>2, <1>3, <1>4, AbsentIs, SMTT(30) DEF RestInv, RestTypeOK,
     DirectoriesOK, CommandOK, BundleFirst, StagedOK, MainOK, Main, CopyOK,
     RestoredWhole, SwitchOK, BackOK, AnswersHold, AllOrNothing, Quiet, Free,
     HostFollows
<1> QED BY <1>5, <1>6, <1>7, <1>8 DEF RestInv

LEMMA UndoDisplaceKeeps == ASSUME RestInv, UndoDisplace PROVE RestInv'
<1>1. cmd.pc = "undoDisplace" /\ Free("live")
  BY DEF UndoDisplace
<1>2. cmd'.pc = "idle" /\ cmd'.last = "failed" /\ DOMAIN cmd' = {"pc", "last"}
  BY EndIs DEF UndoDisplace
<1>3. /\ dir' \in [Names -> Directory]
      /\ dir'["live"] = dir["displaced"]
      /\ dir'["displaced"] = Absent
      /\ \A m \in Names \ {"live", "displaced"} : dir'[m] = dir[m]
  BY RenameIs DEF UndoDisplace, RestInv, RestTypeOK
<1>4. /\ HostFollows("displaced", "live")
      /\ UNCHANGED <<switch, moved, memories, torn, breaks>>
  BY DEF UndoDisplace
<1>5. RestTypeOK' /\ DirectoriesOK'
  BY <1>1, <1>2, <1>3, <1>4, AbsentIs, SMTT(30) DEF RestInv, RestTypeOK,
     DirectoriesOK, CommandOK, StagedOK, CopyOK, SwitchOK, BackOK, Free, HostFollows
<1>6. CommandOK' /\ BundleFirst' /\ StagedOK'
  BY <1>1, <1>2, <1>3, <1>4, AbsentIs, SMTT(30) DEF RestInv, RestTypeOK,
     DirectoriesOK, CommandOK, BundleFirst, StagedOK, MainOK, Main, Free, HostFollows
<1>7. MainOK' /\ CopyOK' /\ RestoredWhole'
  BY <1>1, <1>2, <1>3, <1>4, AbsentIs, SMTT(30) DEF RestInv, RestTypeOK,
     DirectoriesOK, CommandOK, BundleFirst, MainOK, CopyOK, RestoredWhole, SwitchOK,
     BackOK, Main, Quiet, Free, HostFollows
<1>8. SwitchOK' /\ BackOK' /\ AnswersHold' /\ AllOrNothing'
  BY <1>1, <1>2, <1>3, <1>4, AbsentIs, SMTT(30) DEF RestInv, RestTypeOK,
     DirectoriesOK, CommandOK, BundleFirst, StagedOK, MainOK, Main, CopyOK,
     RestoredWhole, SwitchOK, BackOK, AnswersHold, AllOrNothing, Quiet, Free,
     HostFollows
<1> QED BY <1>5, <1>6, <1>7, <1>8 DEF RestInv

LEMMA ObstructedKeeps == ASSUME RestInv, Obstructed PROVE RestInv'
<1>1. /\ cmd.pc \in {"putLive", "undoAside", "putBack", "undoDisplace", "undoBack"}
      /\ DOMAIN cmd = IF cmd.pc \in Switching THEN {"pc", "previous", "restored"} ELSE {"pc"}
  BY DEF Obstructed, RestInv, CommandOK
<1>2. cmd.pc = "putLive" =>
       /\ cmd'.pc = "undoAside"
       /\ DOMAIN cmd' = DOMAIN cmd
       /\ cmd'.previous = cmd.previous
       /\ cmd'.restored = cmd.restored
  BY <1>1 DEF Obstructed, OnError, AtStep
<1>3. cmd.pc = "putBack" => cmd'.pc = "undoDisplace" /\ DOMAIN cmd' = {"pc"}
  BY <1>1 DEF Obstructed, OnError, AtStep
<1>4. cmd.pc \in {"undoAside", "undoDisplace", "undoBack"} =>
       /\ cmd'.pc = "idle"
       /\ cmd'.last = "failed"
       /\ DOMAIN cmd' = {"pc", "last"}
  BY DEF Obstructed, OnError, EndWith
<1>5. UNCHANGED <<dir, switch, moved, host, memories, torn, breaks>>
  BY DEF Obstructed
<1>6. RestTypeOK' /\ DirectoriesOK'
  BY <1>1, <1>2, <1>3, <1>4, <1>5, AbsentIs, SMTT(30) DEF RestInv, RestTypeOK,
     DirectoriesOK, CommandOK, StagedOK, CopyOK, SwitchOK, BackOK
<1>7. CommandOK' /\ BundleFirst' /\ StagedOK'
  BY <1>1, <1>2, <1>3, <1>4, <1>5, AbsentIs, SMTT(30) DEF RestInv, RestTypeOK,
     DirectoriesOK, CommandOK, BundleFirst, StagedOK, MainOK, Main
<1>8. MainOK' /\ CopyOK' /\ RestoredWhole'
  BY <1>1, <1>2, <1>3, <1>4, <1>5, AbsentIs, SMTT(30) DEF RestInv, RestTypeOK,
     DirectoriesOK, CommandOK, BundleFirst, MainOK, CopyOK, RestoredWhole, SwitchOK,
     BackOK, Main, Quiet
<1>9. SwitchOK' /\ BackOK' /\ AnswersHold' /\ AllOrNothing'
  BY <1>1, <1>2, <1>3, <1>4, <1>5, AbsentIs, SMTT(30) DEF RestInv, RestTypeOK,
     DirectoriesOK, CommandOK, BundleFirst, StagedOK, MainOK, Main, CopyOK,
     RestoredWhole, SwitchOK, BackOK, AnswersHold, AllOrNothing, Quiet
<1> QED BY <1>6, <1>7, <1>8, <1>9 DEF RestInv

LEMMA KillKeeps == ASSUME RestInv, Kill PROVE RestInv'
<1>1. Running /\ breaks' \in 0..MaxBreaks
  BY RestoreAssumption DEF Kill, RestInv, RestTypeOK
<1>2. cmd'.pc = "idle" /\ cmd'.last = "killed" /\ DOMAIN cmd' = {"pc", "last"}
  BY EndIs DEF Kill
<1>3. /\ torn \subseteq torn'
      /\ torn' \subseteq Names
      /\ (cmd.pc \in Copying => cmd.to \in torn')
  BY DEF Kill, Target, RestInv, RestTypeOK, CommandOK
<1>4. UNCHANGED <<dir, switch, moved, host, memories>>
  BY DEF Kill
<1>5. RestTypeOK' /\ DirectoriesOK'
  BY <1>1, <1>2, <1>3, <1>4, AbsentIs, SMTT(30) DEF RestInv, RestTypeOK,
     DirectoriesOK, CommandOK, StagedOK, CopyOK, SwitchOK, BackOK
<1>6. CommandOK' /\ BundleFirst' /\ StagedOK'
  BY <1>1, <1>2, <1>3, <1>4, AbsentIs, SMTT(30) DEF RestInv, RestTypeOK,
     DirectoriesOK, CommandOK, BundleFirst, StagedOK, MainOK, Main
<1>7. MainOK' /\ CopyOK' /\ RestoredWhole'
  BY <1>1, <1>2, <1>3, <1>4, AbsentIs, SMTT(30) DEF RestInv, RestTypeOK,
     DirectoriesOK, CommandOK, BundleFirst, MainOK, CopyOK, RestoredWhole, SwitchOK,
     BackOK, Main, Quiet
<1>8. SwitchOK' /\ BackOK' /\ AnswersHold' /\ AllOrNothing'
  BY <1>1, <1>2, <1>3, <1>4, AbsentIs, SMTT(30) DEF RestInv, RestTypeOK,
     DirectoriesOK, CommandOK, BundleFirst, StagedOK, MainOK, Main, CopyOK,
     RestoredWhole, SwitchOK, BackOK, AnswersHold, AllOrNothing, Quiet
<1> QED BY <1>5, <1>6, <1>7, <1>8 DEF RestInv

LEMMA OpenDatabaseKeeps == ASSUME RestInv, OpenDatabase PROVE RestInv'
<1>1. /\ host = "none"
      /\ host' = "live"
      /\ UNCHANGED <<cmd, switch, moved, memories, torn, breaks>>
  BY DEF OpenDatabase
<1>2. PICK d : d = [dir["live"] EXCEPT
           !.there = TRUE,
                                    !.parts = dir["live"].parts \cup {"database"}]
  OBVIOUS
<1>3. /\ d \in Directory
      /\ d.there
      /\ d.parts = dir["live"].parts \cup {"database"}
      /\ d.db = dir["live"].db
      /\ d.sealed = dir["live"].sealed
  BY <1>2 DEF RestInv, RestTypeOK, Directory
<1>4. "database" \notin dir["live"].parts => dir' = [dir EXCEPT !["live"] = d]
  BY <1>2 DEF OpenDatabase, RestInv, RestTypeOK
<1>5. "database" \in dir["live"].parts => dir' = dir
  BY DEF OpenDatabase
<1>6. dir' \in [Names -> Directory] /\ (\A m \in Names \ {"live"} : dir'[m] = dir[m])
  BY <1>3, <1>4, <1>5, PutIs DEF RestInv, RestTypeOK
<1>7. /\ dir'["live"].db = dir["live"].db
      /\ dir'["live"].sealed = dir["live"].sealed
      /\ dir'["live"].parts = dir["live"].parts \cup {"database"}
  BY <1>3, <1>4, <1>5 DEF RestInv, RestTypeOK
<1>8. "database" \notin dir["live"].parts => dir'["live"].there
  BY <1>3, <1>4 DEF RestInv, RestTypeOK
<1>9. "database" \in dir["live"].parts => dir' = dir
  BY <1>5
<1>10. RestTypeOK' /\ DirectoriesOK'
  BY <1>1, <1>6, <1>7, <1>8, <1>9, AbsentIs, SMTT(30) DEF RestInv, RestTypeOK,
     DirectoriesOK, CommandOK, StagedOK, CopyOK, SwitchOK, BackOK
<1>11. CommandOK' /\ BundleFirst' /\ StagedOK'
  BY <1>1, <1>6, <1>7, <1>8, <1>9, AbsentIs, SMTT(30) DEF RestInv, RestTypeOK,
     DirectoriesOK, CommandOK, BundleFirst, StagedOK, MainOK, Main
<1>12. MainOK' /\ CopyOK' /\ RestoredWhole'
  BY <1>1, <1>6, <1>7, <1>8, <1>9, AbsentIs, SMTT(30) DEF RestInv, RestTypeOK,
     DirectoriesOK, CommandOK, BundleFirst, MainOK, CopyOK, RestoredWhole, SwitchOK,
     BackOK, Main, Quiet
<1>13. SwitchOK' /\ BackOK' /\ AnswersHold' /\ AllOrNothing'
  BY <1>1, <1>6, <1>7, <1>8, <1>9, AbsentIs, SMTT(30) DEF RestInv, RestTypeOK,
     DirectoriesOK, CommandOK, BundleFirst, StagedOK, MainOK, Main, CopyOK,
     RestoredWhole, SwitchOK, BackOK, AnswersHold, AllOrNothing, Quiet
<1> QED BY <1>10, <1>11, <1>12, <1>13 DEF RestInv

LEMMA CloseKeeps == ASSUME RestInv, Close PROVE RestInv'
<1>1. host' = "none" /\ UNCHANGED <<dir, cmd, switch, moved, memories, torn, breaks>>
  BY DEF Close
<1>2. RestTypeOK' /\ DirectoriesOK'
  BY <1>1, AbsentIs, SMTT(30) DEF RestInv, RestTypeOK, DirectoriesOK, CommandOK,
     StagedOK, CopyOK, SwitchOK, BackOK
<1>3. CommandOK' /\ BundleFirst' /\ StagedOK'
  BY <1>1, AbsentIs, SMTT(30) DEF RestInv, RestTypeOK, DirectoriesOK, CommandOK,
     BundleFirst, StagedOK, MainOK, Main
<1>4. MainOK' /\ CopyOK' /\ RestoredWhole'
  BY <1>1, AbsentIs, SMTT(30) DEF RestInv, RestTypeOK, DirectoriesOK, CommandOK,
     BundleFirst, MainOK, CopyOK, RestoredWhole, SwitchOK, BackOK, Main, Quiet
<1>5. SwitchOK' /\ BackOK' /\ AnswersHold' /\ AllOrNothing'
  BY <1>1, AbsentIs, SMTT(30) DEF RestInv, RestTypeOK, DirectoriesOK, CommandOK,
     BundleFirst, StagedOK, MainOK, Main, CopyOK, RestoredWhole, SwitchOK, BackOK,
     AnswersHold, AllOrNothing, Quiet
<1> QED BY <1>2, <1>3, <1>4, <1>5 DEF RestInv

LEMMA RotKeeps == ASSUME RestInv, Rot PROVE RestInv'
<1>1. ~Running /\ breaks' \in 0..MaxBreaks
  BY RestoreAssumption DEF Rot, RestInv, RestTypeOK
<1>2. /\ dir["bundle"].db # {}
      /\ dir' \in [Names -> Directory]
      /\ (\A m \in Names \ {"bundle"} : dir'[m] = dir[m])
      /\ dir'["bundle"].there = dir["bundle"].there
      /\ dir'["bundle"].parts = dir["bundle"].parts
      /\ dir'["bundle"].sealed = dir["bundle"].sealed
      /\ dir'["bundle"].db \subseteq dir["bundle"].db
  BY DEF Rot, RestInv, RestTypeOK, Directory
<1>3. UNCHANGED <<cmd, switch, moved, host, memories, torn>>
  BY DEF Rot
<1>4. RestTypeOK' /\ DirectoriesOK'
  BY <1>1, <1>2, <1>3, AbsentIs, SMTT(30) DEF RestInv, RestTypeOK, DirectoriesOK,
     CommandOK, StagedOK, CopyOK, SwitchOK, BackOK
<1>5. CommandOK' /\ BundleFirst' /\ StagedOK'
  BY <1>1, <1>2, <1>3, AbsentIs, SMTT(30) DEF RestInv, RestTypeOK, DirectoriesOK,
     CommandOK, BundleFirst, StagedOK, MainOK, Main
<1>6. MainOK' /\ CopyOK' /\ RestoredWhole'
  BY <1>1, <1>2, <1>3, AbsentIs, SMTT(30) DEF RestInv, RestTypeOK, DirectoriesOK,
     CommandOK, BundleFirst, MainOK, CopyOK, RestoredWhole, SwitchOK, BackOK, Main,
     Quiet
<1>7. SwitchOK' /\ BackOK' /\ AnswersHold' /\ AllOrNothing'
  BY <1>1, <1>2, <1>3, AbsentIs, SMTT(30) DEF RestInv, RestTypeOK, DirectoriesOK,
     CommandOK, BundleFirst, StagedOK, MainOK, Main, CopyOK, RestoredWhole, SwitchOK,
     BackOK, AnswersHold, AllOrNothing, Quiet
<1> QED BY <1>4, <1>5, <1>6, <1>7 DEF RestInv

LEMMA CommitKeeps == ASSUME RestInv, Commit PROVE RestInv'
<1>1. /\ moved' \in BOOLEAN
      /\ UNCHANGED <<dir, cmd, switch, host, memories, torn, breaks>>
  BY DEF Commit
<1>2. RestTypeOK' /\ DirectoriesOK'
  BY <1>1, AbsentIs, SMTT(30) DEF RestInv, RestTypeOK, DirectoriesOK, CommandOK,
     StagedOK, CopyOK, SwitchOK, BackOK
<1>3. CommandOK' /\ BundleFirst' /\ StagedOK'
  BY <1>1, AbsentIs, SMTT(30) DEF RestInv, RestTypeOK, DirectoriesOK, CommandOK,
     BundleFirst, StagedOK, MainOK, Main
<1>4. MainOK' /\ CopyOK' /\ RestoredWhole'
  BY <1>1, AbsentIs, SMTT(30) DEF RestInv, RestTypeOK, DirectoriesOK, CommandOK,
     BundleFirst, MainOK, CopyOK, RestoredWhole, SwitchOK, BackOK, Main, Quiet
<1>5. SwitchOK' /\ BackOK' /\ AnswersHold' /\ AllOrNothing'
  BY <1>1, AbsentIs, SMTT(30) DEF RestInv, RestTypeOK, DirectoriesOK, CommandOK,
     BundleFirst, StagedOK, MainOK, Main, CopyOK, RestoredWhole, SwitchOK, BackOK,
     AnswersHold, AllOrNothing, Quiet
<1> QED BY <1>2, <1>3, <1>4, <1>5 DEF RestInv

LEMMA HostWritesKeeps == ASSUME RestInv, HostWrites PROVE RestInv'
<1>1. PICK k \in Nat : memories.all = 1..k
  BY DEF RestInv, DirectoriesOK
<1>2. Cardinality(memories.all) = k
  BY <1>1, FS_Interval
<1>3. PICK w : w = k + 1
  OBVIOUS
<1>4. /\ w \in Writes
      /\ w \notin memories.all
      /\ memories.all \cup {w} = 1..(k + 1)
      /\ k + 1 \in Nat
  BY <1>1, <1>2, <1>3, RestoreAssumption DEF HostWrites, Writes
<1>5. host \in {"live", "rollback", "displaced"}
  BY DEF HostWrites, RestInv, DirectoriesOK
<1>6. /\ dir' = [dir EXCEPT ![host].db = @ \cup {w}]
      /\ UNCHANGED <<cmd, switch, moved, host, torn, breaks>>
  BY <1>2, <1>3 DEF HostWrites
<1>7. /\ dir' \in [Names -> Directory]
      /\ dir'[host].there = dir[host].there
      /\ dir'[host].parts = dir[host].parts
      /\ dir'[host].sealed = dir[host].sealed
      /\ dir'[host].db = dir[host].db \cup {w}
      /\ \A m \in Names \ {host} : dir'[m] = dir[m]
  BY <1>4, <1>5, <1>6 DEF RestInv, RestTypeOK, Directory
<1>8. /\ DOMAIN memories' = DOMAIN memories
      /\ memories'.all = memories.all \cup {w}
      /\ memories'.checked = memories.checked
      /\ memories'.quiet = (IF Running THEN memories.quiet ELSE memories.quiet \cup {w})
  BY <1>2, <1>3 DEF HostWrites, RestInv, DirectoriesOK
<1>9. RestTypeOK'
  <2>1. memories'.checked \subseteq memories'.all /\ memories'.quiet \subseteq memories'.all
    BY <1>8 DEF RestInv, RestTypeOK
  <2> QED BY <1>6, <1>7, <2>1 DEF RestInv, RestTypeOK
<1>10. DirectoriesOK'
  <2>1. DirectoriesOK
    BY DEF RestInv
  <2>2. \E j \in Nat : memories'.all = 1..j
    BY <1>1, <1>4, <1>8
  <2>3. ASSUME NEW n \in Names
        PROVE  /\ dir'[n].db \subseteq memories'.all
               /\ ~dir'[n].there => dir'[n] = Absent
               /\ "database" \notin dir'[n].parts => dir'[n].db = {}
    <3>1. CASE n = host
      <4>1. "database" \in dir[n].parts /\ dir[n].there
        BY <2>1, <3>1, AbsentIs DEF DirectoriesOK
      <4> QED BY <1>7, <1>8, <2>1, <3>1, <4>1 DEF DirectoriesOK
    <3>2. CASE n # host
      BY <1>7, <1>8, <2>1, <3>2 DEF DirectoriesOK
    <3> QED BY <3>1, <3>2
  <2>4. /\ DOMAIN memories' = {"all", "quiet", "checked"} /\ host' = host
        /\ host' \in Names => "database" \in dir'[host'].parts
    BY <1>6, <1>7, <1>8, <2>1 DEF DirectoriesOK
  <2> QED BY <1>5, <2>2, <2>3, <2>4 DEF DirectoriesOK
<1>11. CommandOK' /\ BundleFirst' /\ StagedOK'
  BY <1>4, <1>5, <1>6, <1>7, <1>8, AbsentIs, SMTT(30) DEF RestInv, RestTypeOK,
     DirectoriesOK, CommandOK, BundleFirst, StagedOK, MainOK, Main
<1>12. MainOK' /\ CopyOK' /\ RestoredWhole'
  <2>1. MainOK'
    BY <1>4, <1>5, <1>6, <1>7, <1>8, AbsentIs, SMTT(30) DEF RestInv, RestTypeOK,
       DirectoriesOK, CommandOK, BundleFirst, MainOK, SwitchOK, BackOK, Main, Quiet
  <2>2. CopyOK'
    BY <1>4, <1>5, <1>6, <1>7, <1>8, AbsentIs, SMTT(30) DEF RestInv, RestTypeOK,
       DirectoriesOK, CommandOK, BundleFirst, MainOK, CopyOK, Main, Quiet
  <2>3. RestoredWhole'
    BY <1>5, <1>6, <1>7 DEF RestInv, RestoredWhole
  <2> QED BY <2>1, <2>2, <2>3
<1>13. SwitchOK' /\ BackOK' /\ AnswersHold' /\ AllOrNothing'
  BY <1>4, <1>5, <1>6, <1>7, <1>8, AbsentIs, SMTT(30) DEF RestInv, RestTypeOK,
     DirectoriesOK, CommandOK, BundleFirst, StagedOK, MainOK, Main, CopyOK,
     RestoredWhole, SwitchOK, BackOK, AnswersHold, AllOrNothing, Quiet
<1> QED BY <1>9, <1>10, <1>11, <1>12, <1>13 DEF RestInv

\* What a removal that stops half way leaves of a directory, and of the host that has it open.
Reduced(n) ==
  /\ dir' \in [Names -> Directory] /\ \A m \in Names \ {n} : dir'[m] = dir[m]
  /\ dir'[n].there = dir[n].there /\ dir'[n].sealed = dir[n].sealed
  /\ dir'[n].parts \subseteq dir[n].parts /\ dir'[n].db \subseteq dir[n].db
  /\ ~dir[n].there => dir'[n] = Absent
  /\ "database" \notin dir'[n].parts => dir'[n].db = {}
  /\ \/ host' = host /\ (host = n => "database" \in dir'[n].parts)
     \/ host' = "gone"

LEMMA ReducedIs ==
  ASSUME RestInv, NEW n \in Names, NEW p \in Parts, RemovePart(n, p)
  PROVE  Reduced(n)
<1>1. PICK d : d = [dir[n] EXCEPT !.parts = @ \ {p}, !.db = IF p = "database" THEN {} ELSE @]
  OBVIOUS
<1>2. /\ d \in Directory /\ d.there = dir[n].there /\ d.sealed = dir[n].sealed
      /\ d.parts = dir[n].parts \ {p} /\ d.db = IF p = "database" THEN {} ELSE dir[n].db
  BY <1>1, ZenonT(30) DEF RestInv, RestTypeOK, Directory
<1>3. dir' = [dir EXCEPT ![n] = d]
  BY <1>1 DEF RemovePart, RestInv, RestTypeOK
<1>4. dir' \in [Names -> Directory] /\ dir'[n] = d /\ \A m \in Names \ {n} : dir'[m] = dir[m]
  BY <1>2, <1>3, PutIs DEF RestInv, RestTypeOK
<1>5. ~dir[n].there => d = Absent
  <2> SUFFICES ASSUME ~dir[n].there PROVE d = Absent
    OBVIOUS
  <2>1. dir[n] = Absent
    BY DEF RestInv, DirectoriesOK
  <2>2. d.there = FALSE /\ d.parts = {} /\ d.db = {} /\ d.sealed = {}
    BY <1>2, <2>1, AbsentIs
  <2> QED BY <1>2, <2>2, AbsentIs DEF Directory
<1>6. "database" \notin d.parts => d.db = {}
  BY <1>2 DEF RestInv, DirectoriesOK
<1>7. \/ host' = host /\ (host = n => "database" \in d.parts)
      \/ host' = "gone"
  BY <1>2 DEF RemovePart, HostLoses, RestInv, DirectoriesOK
<1> QED BY <1>2, <1>4, <1>5, <1>6, <1>7 DEF Reduced

LEMMA FailIs ==
  ASSUME RestInv, Fail
  PROVE  /\ Running /\ breaks' \in 0..MaxBreaks
         /\ torn' = torn \cup Target(cmd.pc)
         /\ UNCHANGED <<switch, moved, memories>>
         /\ \/ UNCHANGED <<dir, host>>
            \/ cmd.pc # "undoAside" /\ \E n \in Target(cmd.pc) : Reduced(n)
<1>1. cmd.pc = "undoRestore" => cmd.to \in Names
  BY DEF RestInv, CommandOK
<1>2. Target(cmd.pc) \subseteq Names
  BY <1>1 DEF Target
<1>3. \/ UNCHANGED <<dir, host>>
      \/ cmd.pc # "undoAside" /\ \E n \in Target(cmd.pc) : Reduced(n)
  BY <1>2, ReducedIs DEF Fail
<1>4. breaks' \in 0..MaxBreaks
  BY RestoreAssumption DEF Fail, RestInv, RestTypeOK
<1> QED BY <1>3, <1>4 DEF Fail

\* A step that only gives up, and leaves the directories as they are.
LEMMA FailQuiet ==
  ASSUME RestInv, Fail,
         cmd.pc \notin {"undoBundle", "undoRestore", "undoLive", "undoAside", "discard"}
  PROVE  RestInv'
<1>1. Target(cmd.pc) = {}
  BY DEF Target
<1>2. Running /\ breaks' \in 0..MaxBreaks /\ UNCHANGED <<dir, host, torn, switch, moved,
   memories>>
  BY <1>1, FailIs
<1>3. \/ /\ cmd.pc \in {"snapshot", "copyConfig", "seal", "publish"}
         /\ cmd'.pc = "undoBundle" /\ DOMAIN cmd' = {"pc"}
      \/ /\ cmd.pc \in {"copyDb", "restoreConfig", "rebuild"}
         /\ cmd'.pc = "undoRestore" /\ cmd'.to = cmd.to /\ DOMAIN cmd' = {"pc", "to", "created"}
      \/ /\ cmd.pc \in {"putLive", "checkSwitch"}
         /\ cmd'.pc = (IF cmd.pc = "putLive" THEN "undoAside" ELSE "undoLive")
         /\ cmd'.previous = cmd.previous /\ cmd'.restored = cmd.restored
         /\ DOMAIN cmd' = {"pc", "previous", "restored"}
      \/ /\ cmd.pc \in {"putBack", "checkBack"}
         /\ cmd'.pc = (IF cmd.pc = "putBack" THEN "undoDisplace" ELSE "undoBack")
         /\ DOMAIN cmd' = {"pc"}
      \/ /\ cmd.pc \in {"putAside", "displace", "undoBack", "undoDisplace"}
         /\ cmd'.pc = "idle" /\ cmd'.last = "failed" /\ DOMAIN cmd' = {"pc", "last"}
  <2>1. CASE cmd.pc \in {"snapshot", "copyConfig", "seal", "publish"}
    BY <2>1, StepIs DEF Fail, OnError, RestInv, CommandOK
  <2>2. CASE cmd.pc \in {"copyDb", "restoreConfig", "rebuild"}
    BY <2>2, StepIs DEF Fail, OnError, RestInv, CommandOK
  <2>3. CASE cmd.pc = "putLive"
    BY <2>3, StepIs DEF Fail, OnError, RestInv, CommandOK
  <2>4. CASE cmd.pc = "checkSwitch"
    BY <2>4, StepIs DEF Fail, OnError, RestInv, CommandOK
  <2>5. CASE cmd.pc = "putBack"
    BY <2>5, StepIs DEF Fail, OnError, RestInv, CommandOK
  <2>6. CASE cmd.pc = "checkBack"
    BY <2>6, StepIs DEF Fail, OnError, RestInv, CommandOK
  <2>7. CASE cmd.pc \in {"putAside", "displace", "undoBack", "undoDisplace"}
    BY <2>7, EndIs DEF Fail, OnError
  <2> QED BY <1>2, <2>1, <2>2, <2>3, <2>4, <2>5, <2>6, <2>7
          DEF RestInv, CommandOK
<1>4. RestTypeOK' /\ DirectoriesOK'
  BY <1>2, <1>3, AbsentIs, SMTT(60) DEF RestInv, RestTypeOK, DirectoriesOK, CommandOK,
     StagedOK, CopyOK, SwitchOK, BackOK
<1>5. CommandOK' /\ BundleFirst' /\ StagedOK'
  BY <1>2, <1>3, AbsentIs, SMTT(60) DEF RestInv, RestTypeOK, DirectoriesOK, CommandOK,
     BundleFirst, StagedOK, MainOK, Main
<1>6. MainOK' /\ CopyOK' /\ RestoredWhole'
  BY <1>2, <1>3, AbsentIs, SMTT(60) DEF RestInv, RestTypeOK, DirectoriesOK, CommandOK,
     BundleFirst, MainOK, CopyOK, RestoredWhole, SwitchOK, BackOK, Main, Quiet
<1>7. SwitchOK' /\ BackOK' /\ AnswersHold' /\ AllOrNothing'
  BY <1>2, <1>3, AbsentIs, SMTT(60) DEF RestInv, RestTypeOK, DirectoriesOK, CommandOK,
     BundleFirst, StagedOK, MainOK, Main, CopyOK, RestoredWhole, SwitchOK, BackOK,
     AnswersHold, AllOrNothing, Quiet
<1> QED BY <1>4, <1>5, <1>6, <1>7 DEF RestInv

\* A removal that stops half way: what is left is kept elsewhere.
LEMMA FailRemoving ==
  ASSUME RestInv, Fail,
         cmd.pc \in {"undoBundle", "undoRestore", "undoLive", "undoAside", "discard"}
  PROVE  RestInv'
<1>1. Running /\ breaks' \in 0..MaxBreaks /\ UNCHANGED <<switch, moved, memories>>
  BY FailIs
<1>2. PICK n \in {"staging", "restored", "live", "displaced"} :
        /\ Target(cmd.pc) = {n} /\ torn' = torn \cup {n}
        /\ \/ cmd.pc = "undoBundle" /\ n = "staging"
           \/ cmd.pc = "undoRestore" /\ n = cmd.to
           \/ cmd.pc \in {"undoLive", "undoAside"} /\ n = "live"
           \/ cmd.pc = "discard" /\ n = "displaced"
  BY FailIs DEF Target, RestInv, CommandOK
<1>3. \/ UNCHANGED <<dir, host>>
      \/ cmd.pc # "undoAside" /\ Reduced(n)
  BY <1>2, FailIs
<1>4. \/ /\ cmd.pc # "discard"
         /\ cmd'.pc = "idle" /\ cmd'.last = "failed" /\ DOMAIN cmd' = {"pc", "last"}
      \/ cmd.pc = "discard" /\ cmd'.pc = "undoBack" /\ DOMAIN cmd' = {"pc"}
  <2>1. CASE cmd.pc = "discard"
    BY <2>1, StepIs DEF Fail, OnError, RestInv, CommandOK
  <2>2. CASE cmd.pc # "discard"
    BY <2>2, EndIs DEF Fail, OnError
  <2> QED BY <2>1, <2>2
<1>5. RestTypeOK' /\ DirectoriesOK'
  BY <1>1, <1>2, <1>3, <1>4, AbsentIs, SMTT(60) DEF RestInv, RestTypeOK,
     DirectoriesOK, CommandOK, StagedOK, CopyOK, SwitchOK, BackOK, Reduced
<1>6. CommandOK' /\ BundleFirst' /\ StagedOK'
  BY <1>1, <1>2, <1>3, <1>4, AbsentIs, SMTT(60) DEF RestInv, RestTypeOK,
     DirectoriesOK, CommandOK, BundleFirst, StagedOK, MainOK, Main, Reduced
<1>7. MainOK' /\ CopyOK' /\ RestoredWhole'
  BY <1>1, <1>2, <1>3, <1>4, AbsentIs, SMTT(60) DEF RestInv, RestTypeOK,
     DirectoriesOK, CommandOK, BundleFirst, MainOK, CopyOK, RestoredWhole, SwitchOK,
     BackOK, Main, Quiet, Reduced
<1>8. SwitchOK' /\ BackOK' /\ AnswersHold' /\ AllOrNothing'
  BY <1>1, <1>2, <1>3, <1>4, AbsentIs, SMTT(60) DEF RestInv, RestTypeOK,
     DirectoriesOK, CommandOK, BundleFirst, StagedOK, MainOK, Main, CopyOK,
     RestoredWhole, SwitchOK, BackOK, AnswersHold, AllOrNothing, Quiet, Reduced
<1> QED BY <1>5, <1>6, <1>7, <1>8 DEF RestInv

LEMMA RestoreStarts == ASSUME RestInit PROVE RestInv
<1>1. /\ dir["live"] = [EmptyDirectory EXCEPT !.parts = Whole]
      /\ dir["restored"] = EmptyDirectory
      /\ \A n \in Names \ {"live", "restored"} : dir[n] = Absent
      /\ DOMAIN dir = Names /\ dir = [n \in Names |-> dir[n]]
  BY DEF RestInit
<1>2. /\ dir["live"] \in Directory /\ dir["live"].there /\ dir["live"].parts = Whole
      /\ dir["live"].db = {}
  BY <1>1, AbsentIs DEF Directory
<1>3. dir \in [Names -> Directory]
  BY <1>1, <1>2, AbsentIs
<1>4. cmd.pc = "idle" /\ cmd.last = "none" /\ DOMAIN cmd = {"pc", "last"}
  BY DEF RestInit, NoCommand
<1>5. /\ switch = NoSwitch /\ moved \in BOOLEAN /\ host = "none" /\ torn = {} /\ breaks = 0
      /\ DOMAIN memories = {"all", "quiet", "checked"}
      /\ memories.all = {} /\ memories.quiet = {} /\ memories.checked = {}
  BY DEF RestInit
<1>6. RestTypeOK
  BY <1>3, <1>5, AbsentIs, RestoreAssumption DEF RestTypeOK
<1>7. DirectoriesOK
  <2>1. memories.all = 1..0
    BY <1>5
  <2> QED BY <1>1, <1>2, <1>5, <2>1, AbsentIs DEF DirectoriesOK
<1>8. CommandOK /\ BundleFirst /\ StagedOK
  BY <1>1, <1>4, <1>5, AbsentIs DEF CommandOK, BundleFirst, StagedOK
<1>9. MainOK /\ CopyOK /\ RestoredWhole
  BY <1>1, <1>2, <1>4, <1>5, AbsentIs DEF MainOK, Main, Quiet, CopyOK, RestoredWhole
<1>10. SwitchOK /\ BackOK /\ AnswersHold /\ AllOrNothing
  BY <1>1, <1>2, <1>4, <1>5, AbsentIs DEF SwitchOK, BackOK, AnswersHold, AllOrNothing
<1> QED BY <1>6, <1>7, <1>8, <1>9, <1>10 DEF RestInv

LEMMA RestoreStep == ASSUME RestInv, [RestNext]_restVars PROVE RestInv'
<1>1. CASE UNCHANGED restVars
  BY <1>1 DEF restVars, RestInv, RestTypeOK, DirectoriesOK, CommandOK, BundleFirst,
     StagedOK, MainOK, Main, Quiet, CopyOK, RestoredWhole, SwitchOK, BackOK, AnswersHold,
     AllOrNothing
<1>2. CASE StartBundle \/ SnapshotDb \/ CopyConfig \/ Seal \/ PublishBundle \/ UndoBundle
  BY <1>2, StartBundleKeeps, SnapshotDbKeeps, CopyConfigKeeps, SealKeeps, PublishBundleKeeps,
     UndoBundleKeeps
<1>3. CASE \/ \E n \in {"restored", "live"} : StartRestore(n)
           \/ CopyDb \/ RestoreConfig \/ RebuildViews \/ UndoRestore
  BY <1>3, StartRestoreKeeps, CopyDbKeeps, RestoreConfigKeeps, RebuildViewsKeeps,
     UndoRestoreKeeps
<1>4. CASE StartSwitch \/ PutAside \/ PutLive \/ CheckSwitch \/ UndoLive \/ UndoAside
  BY <1>4, StartSwitchKeeps, PutAsideKeeps, PutLiveKeeps, CheckSwitchKeeps, UndoLiveKeeps,
     UndoAsideKeeps
<1>5. CASE StartBack \/ Displace \/ PutBack \/ CheckBack \/ Discard \/ UndoBack \/ UndoDisplace
  BY <1>5, StartBackKeeps, DisplaceKeeps, PutBackKeeps, CheckBackKeeps, DiscardKeeps,
     UndoBackKeeps, UndoDisplaceKeeps
<1>6. CASE Fail \/ Obstructed \/ Kill \/ OpenDatabase \/ HostWrites \/ Close \/ Rot \/ Commit
  BY <1>6, FailQuiet, FailRemoving, ObstructedKeeps, KillKeeps, OpenDatabaseKeeps,
     HostWritesKeeps, CloseKeeps, RotKeeps, CommitKeeps
<1> QED BY <1>1, <1>2, <1>3, <1>4, <1>5, <1>6 DEF RestNext

\* memory_restore_rehearsal.py: whatever fails or is killed, and wherever the host has
\* its database open, nothing that it wrote in peace is lost, and an answer is true.
THEOREM RestoreHolds == OperationsSpec => []RestoreSafe
<1> DEFINE Here == part = "restore" => RestInv
<1>1. OperationsInit => Here
  BY RestoreStarts DEF OperationsInit
<1>2. Here /\ [OperationsNext]_operationVars => Here'
  <2> SUFFICES ASSUME Here, [OperationsNext]_operationVars, part' = "restore"
               PROVE  RestInv'
    OBVIOUS
  <2>1. part = "restore" /\ [RestNext]_restVars
    BY DEF OperationsNext, RunUpdate, RunDeploy, RunInstall, RunRestore, RunGate,
       operationVars, hostVars, memoryVars
  <2> QED BY <2>1, RestoreStep
<1>3. Here => RestoreSafe
  <2> SUFFICES ASSUME RestInv PROVE NothingLost
    BY DEF RestoreSafe, RestInv
  <2> QED BY DEF RestInv, MainOK, Quiet, NothingLost
<1> QED BY <1>1, <1>2, <1>3, PTL DEF OperationsSpec
=============================================================================

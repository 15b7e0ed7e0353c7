--------------------------- MODULE ContinuityGate ---------------------------
(***************************************************************************)
(* The gate that a candidate runtime passes before it is promoted          *)
(* (pcltm/continuity_gate.py): a candidate's artifacts are compared with   *)
(* the baseline's under a policy, the verdict is bound to the three it was *)
(* made from, and whoever promotes verifies the binding.  Beside it, the   *)
(* older evaluator of one manifest, which leaves its verdict in a report   *)
(* file.                                                                   *)
(*                                                                         *)
(* A digest is the value it is the digest of.  An artifact gives each case *)
(* one value under one path; the policy says per case what must hold.      *)
(***************************************************************************)
EXTENDS Integers, FiniteSets, Sequences, Functions, SequencesExt

CONSTANTS
    Cases,
    MaxSteps,    \* bound: edits and re-pinnings
    Budget       \* MAX_COMPARISON_NODES

\* A manifest has at least one case (_required_list).
ASSUME GateAssumption == MaxSteps \in Nat /\ Cases # {}

VARIABLES
    base,        \* the baseline's artifacts
    cand,        \* the candidate's artifacts, [claims, of]
    policy,      \* the policy file
    pinned,      \* the policy of the deployment's configuration
    verdict,     \* the artifact of the last evaluation
    promoted,    \* history: what has been promoted, under which policy
    judge,       \* the older evaluator
    report,      \* its report file
    steps

gateVars == <<base, cand, policy, pinned, verdict, promoted, judge, report, steps>>

-----------------------------------------------------------------------------
(* Comparison *)

Text(items) == [type |-> "text", items |-> items]
List(items) == [type |-> "list", items |-> items]
Missing == [type |-> "missing", items |-> <<>>]
Values == {Missing, Text(<<>>), Text(<<"a">>), List(<<>>), List(<<"a">>), List(<<"a", "b">>), List(<<"b", "a">>)}
Operators == {"equal", "contains_all", "non_empty"}
Severities == {"critical", "warning"}
Demands == [operator : Operators, severity : Severities]

\* Nodes that a comparison visits: each item is looked for from the first on, and
\* equality stops at the first difference.  (MAX_CONTAINS_COMPARISONS bounds the
\* same work more narrowly for one assertion; left out.)
Visited(op, b, c) ==
    LET lookFor(x) == IF Contains(c.items, x) THEN SelectInSeq(c.items, LAMBDA y : y = x) ELSE Len(c.items)
        differ == {i \in DOMAIN b.items : b.items[i] # c.items[i]}
    IN  IF b = Missing \/ c = Missing \/ b.type # c.type THEN 1
        ELSE CASE op = "contains_all" -> MapThenSumSet(lookFor, Range(b.items))
               [] op = "equal" /\ b.type = "list" /\ Len(b.items) = Len(c.items)
                    -> 1 + (IF differ = {} THEN Len(b.items) ELSE Min(differ))
               [] OTHER -> 1

\* Fault: a list that has become something else still counts as kept.
CompareLoose(op, b, c) ==
    /\ b # Missing /\ c # Missing
    /\ CASE op = "equal"        -> b = c
         [] op = "contains_all" -> Range(b.items) \subseteq Range(c.items)
         [] OTHER               -> b.items # <<>> /\ c.items # <<>>

Compare(op, b, c) ==
    /\ b # Missing /\ c # Missing
    /\ CASE op = "equal"        -> b = c
         [] op = "contains_all" -> b.type = "list" /\ c.type = "list" /\ Range(b.items) \subseteq Range(c.items)
         [] OTHER               -> b.items # <<>> /\ c.items # <<>> /\ b.type = c.type

-----------------------------------------------------------------------------
(* evaluate_continuity_manifest and evaluate_pinned_artifacts *)

Failing(b, c, p, k, severity) ==
    {a \in p[k] : a.severity = severity /\ ~Compare(a.operator, b[k], c[k])}

Cost(b, c, p) ==
    LET cost(k) == MapThenSumSet(LAMBDA a : Visited(a.operator, b[k], c[k]), p[k])
    IN  MapThenSumSet(cost, DOMAIN b)

Invalid == [status |-> "invalid", exit |-> 2, critical |-> {}, warnings |-> {}, counts |-> <<>>]

\* A case without assertions is an error, as are more comparisons than the budget.
Compared(b, c, p) ==
    IF \/ \E k \in DOMAIN b : p[k] = {}
       \/ Cost(b, c, p) > Budget
    THEN Invalid
    ELSE LET critical == {k \in DOMAIN b : Failing(b, c, p, k, "critical") # {}}
         IN  [status |-> IF critical = {} THEN "passed" ELSE "blocked",
              exit |-> IF critical = {} THEN 0 ELSE 1,
              critical |-> critical,
              warnings |-> {k \in DOMAIN b : Failing(b, c, p, k, "warning") # {}},
              counts |-> [k \in DOMAIN b |-> Cardinality(p[k])]]

Bound(result) == [schema |-> 2, result |-> result, base |-> base, cand |-> cand, policy |-> policy]

\* Files that are not the pinned ones, a candidate that brings its own policy, and
\* other cases than the baseline's are refused.
Pinned ==
    IF policy # pinned \/ cand.claims \/ DOMAIN cand.of # DOMAIN base
      THEN Invalid
      ELSE Compared(base, cand.of, policy)

-----------------------------------------------------------------------------
(* verify_promotion_artifact *)

NoVerdict == [schema |-> 0]

\* Fault: the candidate that is to be promoted is not compared with the judged one.
VerifiedAnyArtifact(v) ==
    /\ v.schema = 2
    /\ v.result.status = "passed" /\ v.result.exit = 0
    /\ v.policy = pinned /\ v.base = base
    /\ v.result.critical = {} /\ v.result.warnings = {}
    /\ v.result.counts = [k \in DOMAIN base |-> Cardinality(pinned[k])]

\* A verdict with warnings is not accepted either.
VerifiedArtifact(v) ==
    /\ v.schema = 2
    /\ v.result.status = "passed" /\ v.result.exit = 0
    /\ v.policy = pinned /\ v.base = base /\ v.cand = cand
    /\ v.result.critical = {} /\ v.result.warnings = {}
    /\ v.result.counts = [k \in DOMAIN base |-> Cardinality(pinned[k])]

-----------------------------------------------------------------------------
(* The deployment *)

NoExit == -1
Reports == {"absent", "report_error", "passed", "blocked", "invalid"}

Artifacts == UNION {[D -> Values] : D \in (SUBSET Cases) \ {{}}}

\* The assertions of a case: none, one, or a warning beside a critical one.
Guards == {{}} \cup {{a} : a \in {x \in Demands : x.severity = "critical"}} \cup
          {{[operator |-> "equal", severity |-> "warning"], [operator |-> "contains_all", severity |-> "critical"]}}

GateInit ==
    /\ \E v \in {Text(<<"a">>), List(<<"a", "b">>)} : base = [k \in Cases |-> v]
    /\ cand = [claims |-> FALSE, of |-> base]
    /\ \E g \in Guards : policy = [k \in Cases |-> g]
    /\ pinned = policy
    /\ verdict = NoVerdict
    /\ promoted = {}
    /\ judge = [pc |-> "idle", exit |-> NoExit, manifest |-> <<>>, cleared |-> FALSE]
    /\ report = [status |-> "absent", of |-> <<>>]
    /\ steps = 0

Change == steps < MaxSteps /\ steps' = steps + 1

\* The candidate is built again; a case may change, be missing, or a policy come with it.
EditCandidate ==
    /\ Change
    /\ \/ \E k \in DOMAIN cand.of, v \in Values : cand' = [cand EXCEPT !.of[k] = v]
       \/ \E k \in Cases : cand' = [cand EXCEPT !.of = Restrict(cand.of, DOMAIN cand.of \ {k})]
       \/ cand' = [cand EXCEPT !.claims = TRUE]
    /\ DOMAIN cand'.of # {}
    /\ UNCHANGED <<base, policy, pinned, verdict, promoted, judge, report>>

EditPolicy ==
    /\ Change
    /\ \E k \in Cases, g \in Guards : policy' = [policy EXCEPT ![k] = g]
    /\ UNCHANGED <<base, cand, pinned, verdict, promoted, judge, report>>

Pin ==
    /\ Change
    /\ pinned # policy
    /\ pinned' = policy
    /\ UNCHANGED <<base, cand, policy, verdict, promoted, judge, report>>

Evaluate ==
    /\ verdict' = Bound(Pinned)
    /\ UNCHANGED <<base, cand, policy, pinned, promoted, judge, report, steps>>

PromoteCandidate ==
    /\ VerifiedArtifact(verdict)
    /\ promoted' = promoted \cup {[cand |-> cand, policy |-> pinned]}
    /\ UNCHANGED <<base, cand, policy, pinned, verdict, judge, report, steps>>

-----------------------------------------------------------------------------
(* evaluate_manifest_file: the manifest is the present files together *)

Manifest == <<cand.of, policy>>
Others == <<base, cand, policy, pinned, verdict, promoted, steps>>

\* Fault: the report of an earlier run stays until the new one replaces it.
ClearNot ==
    /\ judge.pc = "idle"
    /\ judge' = [judge EXCEPT !.pc = "cleared", !.cleared = TRUE]
    /\ UNCHANGED <<report, Others>>

Clear ==
    /\ judge.pc = "idle"
    /\ judge' = [judge EXCEPT !.pc = "cleared", !.cleared = TRUE]
    /\ report' = [status |-> "absent", of |-> <<>>]
    /\ UNCHANGED Others

\* The earlier report cannot be removed, or the run is killed before it is: that
\* report stays, whatever it says.
ClearFails ==
    /\ Change
    /\ judge.pc = "idle"
    /\ \E e \in {3, NoExit} : judge' = [judge EXCEPT !.exit = e, !.cleared = FALSE]
    /\ UNCHANGED <<report, base, cand, policy, pinned, verdict, promoted>>

\* A report that says it is not one, until the real one replaces it.
Sentinel ==
    /\ judge.pc = "cleared"
    /\ judge' = [judge EXCEPT !.pc = "begun"]
    /\ report' = [status |-> "report_error", of |-> <<>>]
    /\ UNCHANGED Others

ReadManifest ==
    /\ judge.pc = "begun"
    /\ judge' = [judge EXCEPT !.pc = "read", !.manifest = Manifest]
    /\ UNCHANGED <<report, Others>>

Judged(m) == IF DOMAIN m[1] # DOMAIN base THEN Invalid ELSE Compared(base, m[1], m[2])

WriteReport ==
    /\ judge.pc = "read"
    /\ LET r == Judged(judge.manifest) IN
         /\ judge' = [judge EXCEPT !.pc = "idle", !.exit = r.exit]
         /\ report' = [status |-> r.status, of |-> judge.manifest]
    /\ UNCHANGED Others

\* The report cannot be written: exit 3.
ReportFails ==
    /\ Change
    /\ judge.pc # "idle"
    /\ judge' = [judge EXCEPT !.pc = "idle", !.exit = 3]
    /\ UNCHANGED <<report, base, cand, policy, pinned, verdict, promoted>>

JudgeKilled ==
    /\ Change
    /\ judge.pc # "idle"
    /\ judge' = [judge EXCEPT !.pc = "idle", !.exit = NoExit]
    /\ UNCHANGED <<report, base, cand, policy, pinned, verdict, promoted>>

GateNext ==
    \/ EditCandidate \/ EditPolicy \/ Pin \/ Evaluate \/ PromoteCandidate
    \/ Clear \/ ClearFails \/ Sentinel \/ ReadManifest \/ WriteReport \/ ReportFails \/ JudgeKilled

GateSpec == GateInit /\ [][GateNext]_gateVars

-----------------------------------------------------------------------------
(* Properties *)

GateTypeOK ==
    /\ base \in Artifacts /\ cand \in [claims : BOOLEAN, of : Artifacts]
    /\ judge.pc \in {"idle", "cleared", "begun", "read"} /\ judge.exit \in -1..3 /\ judge.cleared \in BOOLEAN
    /\ report.status \in Reports
    /\ steps \in 0..MaxSteps

\* Kept: what an assertion is about is in the candidate as it is in the baseline.
Kept(a, b, c) ==
    CASE a.operator = "equal" -> b = c
      [] a.operator = "contains_all" -> c.type = "list" /\ \A x \in Range(b.items) : x \in Range(c.items)
      [] OTHER -> c.type = b.type /\ c.items # <<>>

(***************************************************************************)
(* Nothing is promoted that has lost something the policy in force at that *)
(* moment guards, however candidate, policy file, pins and an older        *)
(* verdict have come together; and every case of the baseline was asked.   *)
(***************************************************************************)
PromotedIsJudged ==
    \A p \in promoted :
        /\ DOMAIN p.cand.of = DOMAIN base
        /\ \A k \in DOMAIN base :
             /\ p.policy[k] # {}
             /\ base[k] # Missing
             /\ \A a \in p.policy[k] : Kept(a, base[k], p.cand.of[k])

(***************************************************************************)
(* A run that ends with a verdict leaves the report of what it read, with  *)
(* that verdict.  A report file that says "passed" is that of the manifest *)
(* read last, none while a run is at work; where the last run gave no      *)
(* verdict, it is an earlier run's, which the last could not even remove.  *)
(***************************************************************************)
VerdictHasItsReport ==
    /\ judge.pc = "idle" /\ judge.exit \in 0..2 =>
         /\ report = [status |-> Judged(judge.manifest).status, of |-> judge.manifest]
         /\ judge.exit = Judged(judge.manifest).exit
    /\ report.status = "passed" =>
         /\ judge.pc = "idle" /\ (judge.exit = 0 \/ ~judge.cleared)
         /\ report.of = judge.manifest /\ Judged(report.of).status = "passed"

(***************************************************************************)
(* "warning: failure is recorded but does not block by itself"             *)
(* (docs/continuity-preservation-gate.md): not kept by the consumer.       *)
(***************************************************************************)
WarningsDoNotBlock ==
    verdict.schema = 2 /\ verdict.result.status = "passed" /\ verdict.policy = pinned /\ verdict.cand = cand
        => VerifiedArtifact(verdict)
=============================================================================

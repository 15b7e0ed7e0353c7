---------------------------- MODULE MemoryPolicy ----------------------------
(***************************************************************************)
(* The I/O-free policy kernel of governed memory (memory_policy.py): the   *)
(* lifecycle graph, sensitivity inheritance and write admission.  Every    *)
(* transaction of MemoryAuthority decides through these operators.         *)
(***************************************************************************)
EXTENDS Naturals, Sequences

Sensitivities == {"normal", "private", "restricted", "secret"}

\* _SENSITIVITY_RANK
Rank(s) == CASE s = "normal"     -> 0
             [] s = "private"    -> 1
             [] s = "restricted" -> 2
             [] s = "secret"     -> 3

LifecycleStates == {"pending_review", "active", "superseded", "retired",
                    "expired", "rejected", "quarantined"}

\* _ALLOWED_TRANSITIONS: the five states without a successor are final.
Successors(state) ==
  CASE state = "pending_review" -> {"active", "rejected", "quarantined"}
    [] state = "active"         -> {"superseded", "retired", "expired"}
    [] OTHER                    -> {}

FinalStates == {"superseded", "retired", "expired", "rejected", "quarantined"}

\* resolve_transition's action_targets.
ActionTarget ==
  [activate   |-> "active",   supersede |-> "superseded", retire |-> "retired",
   expire     |-> "expired",  reject    |-> "rejected",
   quarantine |-> "quarantined"]

\* resolve_transition: the action must aim at its own target, and the target
\* must be reachable from the state the claim is in.
TransitionAllowed(state, action, target) ==
  /\ action \in DOMAIN ActionTarget
  /\ ActionTarget[action] = target
  /\ target \in Successors(state)

\* Fault: the sources are ignored.
EffectiveRequested(levels, requested) == requested

\* inherit_sensitivity: the strictest of the sources and of the request.
Effective(levels, requested) ==
  CHOOSE s \in levels \cup {requested} :
    \A t \in levels \cup {requested} : Rank(t) <= Rank(s)

\* admit_write for a request that asks for an active claim.  refs is a
\* sequence of references, snapshots the sequence of [ref, sensitivity] that
\* the transaction reopened for them.
WriteVerdict(lineage, requested, refs, snapshots) ==
  LET levels   == {snapshots[i].sensitivity : i \in DOMAIN snapshots}
      sourced  == lineage \in {"event_derived", "explicit_user_assertion"}
      sameRefs == /\ {refs[i] : i \in DOMAIN refs} =
                       {snapshots[i].ref : i \in DOMAIN snapshots}
                  /\ \A i, j \in DOMAIN refs : refs[i] = refs[j] => i = j
                  /\ Len(refs) = Len(snapshots)
  IN  IF requested = "secret" THEN "secret_write_forbidden"
      ELSE IF lineage = "legacy_governed" THEN "legacy_lineage_forbidden"
      ELSE IF sourced /\ (refs = <<>> \/ snapshots = <<>>)
           THEN "source_snapshot_missing"
      ELSE IF sourced /\ ~sameRefs THEN "source_snapshot_mismatch"
      ELSE IF Rank(requested) < Rank(Effective(levels, requested))
           THEN "sensitivity_downgrade"
      ELSE IF refs = <<>> THEN "empty_lineage"
      ELSE "write_allowed"
=============================================================================

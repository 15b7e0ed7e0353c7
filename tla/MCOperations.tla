---------------------------- MODULE MCOperations ----------------------------
(***************************************************************************)
(* What an operator runs on a user's machine and may want undone: the host *)
(* update, the Hermes deployment, the Codex and ZCode installers, the      *)
(* restore of a memory directory and its way back, and the gate before a   *)
(* candidate runtime takes the place of the old one.  They share no state, *)
(* so a behaviour runs one of them and leaves the others' variables alone: *)
(* the states checked are the sum of the spaces and not their product.     *)
(***************************************************************************)
EXTENDS HostUpdate, HermesDeployment, AdapterInstall, MemoryRestore, ContinuityGate, TLC

VARIABLE part

hostVars == <<part, updVars, depVars, insVars>>
memoryVars == <<restVars, gateVars>>
operationVars == <<hostVars, memoryVars>>

\* The variables of a program that does not run have no value that matters.
NoUpdate == tree = "off" /\ point = "off" /\ lock = "off" /\ job = "off" /\ faults = "off"
NoDeployment ==
    /\ src = "off" /\ home = "off" /\ roots = "off" /\ bak = "off" /\ known = "off" /\ djob = "off"
    /\ changes = "off" /\ wiped = "off"
NoInstallation == InsInit /\ kind = "codex" /\ ~file["config"].there /\ ~file["hooks"].there
NoRestore ==
    /\ dir = "off" /\ cmd = "off" /\ switch = "off" /\ moved = "off" /\ host = "off" /\ memories = "off"
    /\ torn = "off" /\ breaks = "off"
NoGate ==
    /\ base = "off" /\ cand = "off" /\ policy = "off" /\ pinned = "off" /\ verdict = "off" /\ promoted = "off"
    /\ judge = "off" /\ report = "off" /\ steps = "off"

OperationsInit ==
    /\ part \in {"update", "deploy", "install", "restore", "gate"}
    /\ IF part = "update" THEN UpdInit ELSE NoUpdate
    /\ IF part = "deploy" THEN DepInit ELSE NoDeployment
    /\ IF part = "install" THEN InsInit ELSE NoInstallation
    /\ IF part = "restore" THEN RestInit ELSE NoRestore
    /\ IF part = "gate" THEN GateInit ELSE NoGate

RunUpdate == part = "update" /\ UpdNext /\ UNCHANGED <<part, depVars, insVars, memoryVars>>
RunDeploy == part = "deploy" /\ DepNext /\ UNCHANGED <<part, updVars, insVars, memoryVars>>
RunInstall == part = "install" /\ InsNext /\ UNCHANGED <<part, updVars, depVars, memoryVars>>
RunRestore == part = "restore" /\ RestNext /\ UNCHANGED <<hostVars, gateVars>>
RunGate == part = "gate" /\ GateNext /\ UNCHANGED <<hostVars, restVars>>

OperationsNext == RunUpdate \/ RunDeploy \/ RunInstall \/ RunRestore \/ RunGate

OperationsSpec == OperationsInit /\ [][OperationsNext]_operationVars

\* Invocations are interchangeable.
Symmetry == Permutations(Procs)

\* ReportsAreExact and WayBackKept of HostUpdate: what an update or restore says
\* it left is what it left, and there is a way back for as long as it is needed.
UpdateSafe == part = "update" => UpdTypeOK /\ ReportsAreExact /\ WayBackKept

\* UndoneIsBefore and PatchHasSource of HermesDeployment: what is undone is as
\* before, and a patched host can be brought back.
DeploySafe ==
    /\ part = "deploy" => DepTypeOK /\ UndoneIsBefore /\ PatchHasSource
    /\ part = "install" => InsTypeOK

\* UndoExact and WordsKept of AdapterInstall: an undone installation leaves each
\* file as it was, and costs the user no words older than the run it undoes.
InstallSafe == UndoExact /\ WordsKept

(***************************************************************************)
(* NothingLost, AnswersHold and AllOrNothing of MemoryRestore: no failure, *)
(* kill or open database loses what the host wrote, and a switch or its    *)
(* rollback is what it answers.                                            *)
(***************************************************************************)
RestoreSafe == part = "restore" => RestTypeOK /\ NothingLost /\ AnswersHold /\ AllOrNothing

(***************************************************************************)
(* PromotedIsJudged and VerdictHasItsReport of ContinuityGate: what is     *)
(* promoted is what was judged, and a verdict is beside its own report.    *)
(***************************************************************************)
GateSafe == part = "gate" => GateTypeOK /\ PromotedIsJudged /\ VerdictHasItsReport
=============================================================================

----------------------------- MODULE MCContext -----------------------------
(***************************************************************************)
(* What is read.  For the model in a turn: the frame that compress makes   *)
(* of the conversation, the state and the summaries computed from its      *)
(* turns, and the governed memory that prefetch puts beside them.  For the *)
(* operator: the reports that classify, compare and trace legacy memories  *)
(* beside the writers of the same tables.  They share no state; a          *)
(* behaviour runs one of them.                                             *)
(***************************************************************************)
EXTENDS ContextFrame, DialogueChain, GovernedRecall, ShadowMigration, LineageRecovery, TLC

CONSTANT AnyStore   \* begin with any legacy store, or with those that show something

VARIABLE part

contextVars == <<part, ctxVars, said, recallVars, shadowVars, lineageVars>>
reportVars == <<shadowVars, lineageVars>>

SizeHere == [t \in Bodies |-> IF t = "x" THEN 1 ELSE 2]

\* The memory, half of it, and something else with a little of it.
WordingsHere == {{1, 2, 3}, {1, 2}, {1, 4}}

\* No list, none, one event, both, one twice.
ListsHere == {<<0>>, <<>>, <<1>>, <<2, 1>>, <<1, 1>>}

\* The variables of a report that is not asked for have no value that matters.
NoShadow ==
    /\ store = "off" /\ main = "off" /\ snapshot = "off" /\ manifest = "off" /\ replay = "off"
    /\ reports = "off" /\ commits = "off"
NoLineage == raw = "off" /\ short = "off" /\ summary = "off"

\* Events lose their force by a commit of the host, and the provenance of a record
\* is read only when it names no event: the other stores show nothing new.
StoreOfInterest ==
    /\ \A e \in DOMAIN store.events : store.events[e].active
    /\ \A r \in Records : store.records[r].sources # <<>> => store.records[r].provenance = "other"

ContextInit ==
    /\ part \in {"frame", "dialogue", "recall", "shadow", "lineage"}
    /\ CtxInit /\ DlgInit /\ RecallInit
    /\ part # "recall" => kind = [c \in Claims |-> "normal"]
    /\ IF part = "shadow" THEN ShadowInit /\ (AnyStore \/ StoreOfInterest) ELSE NoShadow
    /\ IF part = "lineage" THEN LineageInit ELSE NoLineage

RunFrame == part = "frame" /\ CtxNext /\ UNCHANGED <<part, said, recallVars, reportVars>>
RunDialogue == part = "dialogue" /\ DlgNext /\ UNCHANGED <<part, ctxVars, recallVars, reportVars>>
RunRecall == part = "recall" /\ RecallNext /\ UNCHANGED <<part, ctxVars, said, reportVars>>
RunShadow == part = "shadow" /\ ShadowNext /\ UNCHANGED <<part, ctxVars, said, recallVars, lineageVars>>
RunLineage == part = "lineage" /\ LineageNext /\ UNCHANGED <<part, ctxVars, said, recallVars, shadowVars>>

ContextNext == RunFrame \/ RunDialogue \/ RunRecall \/ RunShadow \/ RunLineage
ContextSpec == ContextInit /\ [][ContextNext]_contextVars

(***************************************************************************)
(* FrameIsCurrent, RequestIsTheUsers, FailsOnlyAlone and EvidenceKept of   *)
(* ContextFrame: what compress makes of any conversation under any budget, *)
(* and what it takes out of it.                                            *)
(***************************************************************************)
FrameSafe ==
    /\ part = "recall" => RecallTypeOK
    /\ part = "frame" => CtxTypeOK /\ FrameIsCurrent /\ RequestIsTheUsers /\ FailsOnlyAlone /\ EvidenceKept

\* TaskIsTheLatestNamed and ChainAccounts of DialogueChain: a session is about
\* what its turns say it is about, and its summaries account for what they asked
\* for as long as the caps on their lists have room.
DialogueSafe == part = "dialogue" => TaskIsTheLatestNamed /\ ChainAccounts

\* InjectedIsInForce and AnswerIsCurrent of GovernedRecall: no memory that is out
\* of date reaches an answer or the prompt.
RecallSafe == InjectedIsInForce /\ AnswerIsCurrent

(***************************************************************************)
(* ClassesAreFounded and VerdictIsOfItsFile of ShadowMigration,            *)
(* CorroborationIsUnambiguous and ChainsAreCited of LineageRecovery: a     *)
(* report says nothing that the rows it names do not bear out.             *)
(***************************************************************************)
ReportsSafe ==
    /\ part = "shadow" => ShadowTypeOK /\ ClassesAreFounded /\ VerdictIsOfItsFile
    /\ part = "lineage" => CorroborationIsUnambiguous /\ ChainsAreCited
=============================================================================

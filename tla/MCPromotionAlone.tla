--------------------------- MODULE MCPromotionAlone ---------------------------
(***************************************************************************)
(* The sync hook of one host that is alone with the chat's commands, and   *)
(* two processes over the assertions of one key.  The models share no      *)
(* state; a behaviour runs one of them.                                    *)
(***************************************************************************)
EXTENDS MCCandidatePromotion, AssertionEvidence

VARIABLE part

aloneVars == <<part, vars, assertVars>>

\* Two plain wordings and one that says it is for good.
MCPhrasings == [likes |-> "review", loves |-> "review", always |-> "auto"]

\* The variables of the assertions have no value that matters without them.
NoAssertions ==
  /\ talk = "off" /\ held = "off" /\ slips = "off" /\ desk = "off"
  /\ hand = "off" /\ deaths = "off"

AloneInit ==
  /\ part \in {"commands", "assertions"}
  /\ PipelineInit
  /\ IF part = "assertions" THEN AssertInit ELSE NoAssertions

RunCommands == part = "commands" /\ PipelineNext /\ UNCHANGED <<part, assertVars>>
RunAssertions == part = "assertions" /\ AssertNext /\ UNCHANGED <<part, vars>>

AloneNext == RunCommands \/ RunAssertions
AloneSpec == AloneInit /\ [][AloneNext]_aloneVars

(***************************************************************************)
(* NewestWins, ReceiptNamesItsVersion, CandidateWritesOnce and the types   *)
(* of CandidatePromotion: a host that is alone and crashes anywhere does   *)
(* nothing twice when it comes back, reports what it had done, and leaves  *)
(* in force what the user has said last.                                   *)
(***************************************************************************)
RecoverySafe ==
  PipelineTypeOK /\ NewestWins /\ ReceiptNamesItsVersion /\ CandidateWritesOnce

(***************************************************************************)
(* NothingOnHearsay and SlipsTellTheTruth of AssertionEvidence: whatever   *)
(* is said or edited meanwhile, an assertion is remembered on enough       *)
(* evidence only, and a receipt says what has become of it.                *)
(***************************************************************************)
EvidenceSuffices ==
  part = "assertions" => NothingOnHearsay /\ SlipsTellTheTruth
=============================================================================

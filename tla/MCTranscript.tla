---------------------------- MODULE MCTranscript ----------------------------
(***************************************************************************)
(* The transcript: the synchronization of a host's messages, the hash      *)
(* chain over its events, and the chunks of one event.  The three share no *)
(* state in the models; a behaviour runs one of them.                      *)
(***************************************************************************)
EXTENDS TranscriptLedger, EvidenceChain, TranscriptChunker, TLC

CONSTANTS s1, s2

VARIABLE part

transcriptVars == <<part, ledgerVars, chainVars, text>>
others == <<part, chainVars, text>>

SyncsHere == {s1, s2}
ModesHere == [s \in SyncsHere |-> "work"]

TranscriptInit ==
    /\ part \in {"ledger", "chain", "text"}
    /\ LedgerInit /\ ChainInit /\ TextInit

RunLedger == part = "ledger" /\ LedgerNext /\ UNCHANGED others
RunChain == part = "chain" /\ ChainNext /\ UNCHANGED <<part, ledgerVars, text>>
RunText == part = "text" /\ TextNext /\ UNCHANGED <<part, ledgerVars, chainVars>>

TranscriptNext == RunLedger \/ RunChain \/ RunText

\* LedgerFairness, in the behaviours that run the ledger.
TranscriptSpec ==
    /\ TranscriptInit /\ [][TranscriptNext]_transcriptVars
    /\ \A s \in Syncs :
         /\ WF_transcriptVars(part = "ledger" /\ Start(s) /\ UNCHANGED others)
         /\ WF_transcriptVars(part = "ledger" /\ Step(s) /\ UNCHANGED others)
    /\ \A k \in Projections, e \in 1..6 :
         WF_transcriptVars(part = "ledger" /\ e \in DOMAIN jobs /\ Later(k, e) /\ UNCHANGED others)

(***************************************************************************)
(* LedgerTypeOK, OneHistory and AppliedIsThere of TranscriptLedger: who-   *)
(* ever synchronizes, a message has one history, and what is said to be    *)
(* projected is.                                                           *)
(***************************************************************************)
LedgerSafe == LedgerTypeOK /\ OneHistory /\ AppliedIsThere

\* DamageIsSeen of EvidenceChain and EveryQuoteIsFound of TranscriptChunker:
\* what is quoted is what was said, all of it can be, and nothing else passes.
QuotesHold ==
    /\ part = "chain" => DamageIsSeen
    /\ part = "text" => EveryQuoteIsFound
=============================================================================

-------------------------- MODULE LineageRecovery --------------------------
(***************************************************************************)
(* The two reports that look for the evidence behind legacy memories       *)
(* (pcltm/lineage_recovery.py): a user message that corroborates a memory  *)
(* and no other does, and a chain from a user message over the short-term  *)
(* events that repeat it to a summary that cites them.                     *)
(*                                                                         *)
(* A text is the set of its character pairs; a row's id is its position.   *)
(* The tables grow beside the reports, which are read off a state.         *)
(***************************************************************************)
EXTENDS Integers, FiniteSets, Sequences, FiniteSetsExt

CONSTANTS
    Memory,      \* the text of a memory
    Wordings,    \* the texts of messages and summaries
    Sessions,
    MaxTableRows \* bound: rows of the three tables together

\* A text without pairs covers nothing and is covered by nothing: it is left out.
ASSUME LineageAssumption ==
    \A text \in {Memory} \cup Wordings : IsFiniteSet(text) /\ text # {}

VARIABLES
    raw,         \* dac_raw_messages, [role, text]
    short,       \* short_term_events, [session, role, text]
    summary      \* dac_summary_nodes, [session, ids, text]

lineageVars == <<raw, short, summary>>

Roles == {"user", "assistant"}

\* _coverage, as a comparison with a percentage
Shared(a, b) == Cardinality(a \cap b)
Covers(a, b, percent) == 100 * Shared(a, b) >= percent * Cardinality(a)

Users(rows) == {i \in DOMAIN rows : rows[i].role = "user"}

\* The first of the messages that share most with a memory.
Best(candidates) ==
    CHOOSE i \in candidates :
        \A j \in candidates :
            \/ Shared(Memory, raw[j].text) < Shared(Memory, raw[i].text)
            \/ Shared(Memory, raw[j].text) = Shared(Memory, raw[i].text) /\ i <= j

-----------------------------------------------------------------------------
(* corroborate: minimum score 0.60, minimum margin 0.10 *)

\* Fault: the best message is taken however close the next one is.
CorroborateBold ==
    IF Users(raw) = {} THEN {}
    ELSE LET best == Best(Users(raw)) IN IF Covers(Memory, raw[best].text, 60) THEN {best} ELSE {}

Corroborate ==
    IF Users(raw) = {} THEN {}
    ELSE LET best == Best(Users(raw))
             second == Max({0} \cup {Shared(Memory, raw[i].text) : i \in Users(raw) \ {best}})
         IN  IF /\ Covers(Memory, raw[best].text, 60)
                /\ 100 * (Shared(Memory, raw[best].text) - second) >= 10 * Cardinality(Memory)
             THEN {best} ELSE {}

-----------------------------------------------------------------------------
(* recover: minimum coverage 0.42 *)

Matching == {i \in Users(raw) : Covers(Memory, raw[i].text, 42)}

Repeating(i) ==
    {j \in Users(short) : Covers(raw[i].text, short[j].text, 90) /\ Covers(Memory, short[j].text, 42)}

\* Fault: any summary of the session that covers the memory will do.
CitingAny(events) ==
    {k \in DOMAIN summary :
        /\ \E j \in events : short[j].session = summary[k].session
        /\ Covers(Memory, summary[k].text, 42)}

Citing(events) ==
    {k \in DOMAIN summary :
        /\ \E j \in events : short[j].session = summary[k].session
        /\ summary[k].ids \cap events # {}
        /\ Covers(Memory, summary[k].text, 42)}

\* Only the best message is followed.
Recover ==
    IF Matching = {} THEN {}
    ELSE LET i == Best(Matching) IN
         IF Repeating(i) = {} \/ Citing(Repeating(i)) = {} THEN {}
         ELSE {[raw |-> i, short |-> Repeating(i), summary |-> Citing(Repeating(i))]}

-----------------------------------------------------------------------------
(* The tables *)

LineageInit == raw = <<>> /\ short = <<>> /\ summary = <<>>

Room == Len(raw) + Len(short) + Len(summary) < MaxTableRows

AddRaw ==
    /\ Room
    /\ \E role \in Roles, text \in Wordings : raw' = Append(raw, [role |-> role, text |-> text])
    /\ UNCHANGED <<short, summary>>

AddShort ==
    /\ Room
    /\ \E session \in Sessions, role \in Roles, text \in Wordings :
         short' = Append(short, [session |-> session, role |-> role, text |-> text])
    /\ UNCHANGED <<raw, summary>>

\* The column holds ids; nothing ties them to the session of the summary.
AddSummary ==
    /\ Room
    /\ \E session \in Sessions, text \in Wordings, ids \in SUBSET DOMAIN short :
           summary' = Append(summary, [session |-> session, ids |-> ids, text |-> text])
    /\ UNCHANGED <<raw, short>>

LineageNext == AddRaw \/ AddShort \/ AddSummary

LineageSpec == LineageInit /\ [][LineageNext]_lineageVars

-----------------------------------------------------------------------------
(* Properties *)

(***************************************************************************)
(* What is reported as corroboration cannot be said of any other message   *)
(* of the user: no other covers as much of the memory, and so a user who   *)
(* says a thing twice takes its corroboration away (corroborate:           *)
(* "strong, unambiguous user-message corroboration").                      *)
(***************************************************************************)
CorroborationIsUnambiguous ==
    \A i \in Corroborate :
        /\ raw[i].role = "user" /\ Covers(Memory, raw[i].text, 60)
        /\ \A j \in Users(raw) \ {i} : Shared(Memory, raw[j].text) < Shared(Memory, raw[i].text)

(***************************************************************************)
(* A recovered chain hangs together.  No user message covers the memory    *)
(* better than the one it starts from; each of its events is one in which  *)
(* the user says that message again; and each of its summaries cites one   *)
(* of them and is of the session of one of them, not always the same one   *)
(* (recover).                                                              *)
(***************************************************************************)
ChainsAreCited ==
    \A chain \in Recover :
        /\ \A i \in Users(raw) : Shared(Memory, raw[i].text) <= Shared(Memory, raw[chain.raw].text)
        /\ \A j \in chain.short : short[j].role = "user" /\ Covers(raw[chain.raw].text, short[j].text, 90)
        /\ \A k \in chain.summary :
             /\ summary[k].ids \cap chain.short # {}
             /\ \E j \in chain.short : short[j].session = summary[k].session

(***************************************************************************)
(* Not kept.  A memory that has a chain is recovered: only the best        *)
(* message is followed, and a better one without events hides the chain.   *)
(***************************************************************************)
ChainsAreFound ==
    (\E i \in Matching : Repeating(i) # {} /\ Citing(Repeating(i)) # {}) => Recover # {}
=============================================================================

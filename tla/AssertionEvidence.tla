-------------------------- MODULE AssertionEvidence --------------------------
(***************************************************************************)
(* Stable natural-language assertions.  Besides the commands of Candidate- *)
(* Promotion the extractor recognizes sentences such as "I like tea".  One *)
(* sentence may be enough to be remembered, or only a reviewer or several  *)
(* sessions in different words; its support is all messages that state the *)
(* same thing, looked up when the candidate is extracted, and again when   *)
(* it is promoted or approved.  In between, people say and edit things.    *)
(*                                                                         *)
(* The model follows the assertions of one semantic key, hence one claim.  *)
(* A step is one transaction, or the reads between two of them.            *)
(***************************************************************************)
EXTENDS Naturals, Sequences, FiniteSetsExt

CONSTANTS
  Sessions,      \* chat sessions
  Phrasings,     \* texts that state it -> "auto" or "review", their tier
  Promoters,     \* processes that extract, promote and review
  MaxSaid,       \* bound on messages
  MaxDeaths      \* bound on crashes

Texts == DOMAIN Phrasings

ASSUME AssertionAssumption ==
  /\ Phrasings \in [Texts -> {"auto", "review"}]
  /\ {MaxSaid, MaxDeaths} \subseteq Nat

VARIABLES
  talk,      \* the user events that state it, in event_id order
  held,      \* the claim in force: its content, sources and who admitted it
  slips,     \* candidate_promotion_receipts: candidate id -> decision
  desk,      \* records of the review queue: candidate ids
  hand,      \* what each process is doing
  deaths     \* crashes so far

assertVars == <<talk, held, slips, desk, hand, deaths>>

Nobody == [content |-> "none", sources |-> {}, by |-> "none"]

-----------------------------------------------------------------------------
(* Candidates. *)

\* _supporting_events: all that state it, whether or not since edited away.
Support == DOMAIN talk

\* Fault: a second session is enough.
CorroboratedBySessions(events) ==
  Cardinality({talk[e].session : e \in events}) >= 2

Corroborated(events) ==
  /\ Cardinality({talk[e].session : e \in events}) >= 2
  /\ Cardinality({talk[e].text : e \in events}) >= 2

\* _candidate_from_event: the sentence of e, backed by everything that
\* supports it.  Content and sources are the candidate's id.
CandidateOf(e) == [content |-> talk[e].text, sources |-> Support]

\* requires_human_confirmation
NeedsReview(c) == Phrasings[c.content] # "auto" /\ ~Corroborated(c.sources)

\* Fault: the evidence is not looked up again.
StillMeansAlways(c) == TRUE

\* _matches_event_authority: the last of the sources gives the same candidate
\* again.
StillMeans(c) == c = CandidateOf(Max(c.sources))

\* The sources of which no event has been superseded.
AllLive(events) == \A e \in events : talk[e].live

-----------------------------------------------------------------------------
(* Processes. *)

Resting == [at |-> "idle", batch |-> <<>>, again |-> FALSE, keyed |-> FALSE,
            by |-> "rule", said |-> "none"]

Does(p, at) == hand[p].at = at
Foremost(p) == Head(hand[p].batch)
Hand(p, record) == hand' = [hand EXCEPT ![p] = record]
Move(p, at) == Hand(p, [hand[p] EXCEPT !.at = at])
Says(p, decision) == Hand(p, [hand[p] EXCEPT !.at = "finalize", !.said = decision])
Onward(p) == Hand(p, [Resting EXCEPT !.at = "next", !.batch = Tail(hand[p].batch)])

\* A message of a session states it, or an edit says it in other words or says
\* something else.
Speak(session, text) ==
  /\ Len(talk) < MaxSaid
  /\ talk' = Append(talk, [session |-> session, text |-> text, live |-> TRUE])
  /\ UNCHANGED <<held, slips, desk, hand, deaths>>

Reword(e, text) ==
  /\ talk[e].live /\ text # talk[e].text
  /\ Len(talk) < MaxSaid
  /\ talk' = Append([talk EXCEPT ![e].live = FALSE],
                    [session |-> talk[e].session, text |-> text, live |-> TRUE])
  /\ UNCHANGED <<held, slips, desk, hand, deaths>>

TakeBack(e) ==
  /\ talk[e].live
  /\ talk' = [talk EXCEPT ![e].live = FALSE]
  /\ UNCHANGED <<held, slips, desk, hand, deaths>>

\* extract: one candidate for each message, oldest first.
Gather(p) ==
  /\ Does(p, "idle") /\ talk # <<>>
  /\ Hand(p, [Resting EXCEPT !.at = "next",
                !.batch = [e \in DOMAIN talk |-> CandidateOf(e)]])
  /\ UNCHANGED <<talk, held, slips, desk, deaths>>

GatherEnds(p) ==
  /\ Does(p, "next") /\ hand[p].batch = <<>>
  /\ Hand(p, Resting)
  /\ UNCHANGED <<talk, held, slips, desk, deaths>>

Concluded(c) == c \in DOMAIN slips /\ slips[c] # "processing"

Noted(table, key, value) == [k \in DOMAIN table \cup {key} |-> IF k = key THEN value ELSE table[k]]

\* _promote_durable up to _promote_one: the receipt is opened, or found open.
Open(p) ==
  /\ Does(p, "next") /\ hand[p].batch # <<>>
  /\ IF Concluded(Foremost(p))
     THEN Onward(p) /\ UNCHANGED slips
     ELSE /\ slips' = Noted(slips, Foremost(p), "processing")
          /\ Hand(p, [hand[p] EXCEPT !.again = Foremost(p) \in DOMAIN slips,
                        !.at = IF NeedsReview(Foremost(p)) THEN "enqueue" ELSE "match"])
  /\ UNCHANGED <<talk, held, desk, deaths>>

\* enqueue_candidate finds its record, or inserts it; that two may insert at
\* once is in CandidatePromotion.
ToDesk(p) ==
  /\ Does(p, "enqueue")
  /\ desk' = desk \cup {Foremost(p)}
  /\ Says(p, IF hand[p].said = "conflict" THEN "conflict" ELSE "pending")
  /\ UNCHANGED <<talk, held, slips, deaths>>

\* The evidence is derived again, then _activate asks whether the key is taken.
Match(p) ==
  /\ Does(p, "match")
  /\ IF StillMeans(Foremost(p))
     THEN Hand(p, [hand[p] EXCEPT !.at = "write", !.keyed = held # Nobody])
     ELSE Says(p, "error")
  /\ UNCHANGED <<talk, held, slips, desk, deaths>>

\* The content is in force.  Whoever did not see it before takes it for its own
\* when the newest source is the claim's.
Found(p) ==
  IF ~hand[p].keyed /\ Max(Foremost(p).sources) \in held.sources
  THEN "activated" ELSE "duplicate"

\* write, in one transaction; _resolve_existing_identity when the key is taken.
\* Only a new claim asks whether its sources have been edited since.
Admit(p) ==
  LET c == Foremost(p)
  IN  /\ Does(p, "write")
      /\ IF held # Nobody
         THEN /\ UNCHANGED held
              /\ IF held.content = c.content THEN Says(p, Found(p))
                 ELSE Hand(p, [hand[p] EXCEPT !.at = "enqueue", !.said = "conflict"])
         ELSE IF ~AllLive(c.sources) THEN Says(p, "rejected") /\ UNCHANGED held
         ELSE /\ held' = [content |-> c.content, sources |-> c.sources, by |-> hand[p].by]
              /\ Says(p, "activated")
      /\ UNCHANGED <<talk, slips, desk, deaths>>

\* _recover_processing_outcome
Told(p) ==
  IF hand[p].again /\ hand[p].said = "duplicate" THEN "activated" ELSE hand[p].said

\* _finalize_receipt: a second to finish must have come to the same, or raises.
Close(p) ==
  /\ Does(p, "finalize") /\ hand[p].by = "rule"
  /\ IF slips[Foremost(p)] = "processing"
     THEN slips' = [slips EXCEPT ![Foremost(p)] = Told(p)] /\ Onward(p)
     ELSE /\ UNCHANGED slips
          /\ IF slips[Foremost(p)] = Told(p) THEN Onward(p) ELSE Hand(p, Resting)
  /\ UNCHANGED <<talk, held, desk, deaths>>

\* approve_pending: the evidence is derived again before the receipt is read.
AskApproval(p, c) ==
  /\ Does(p, "idle") /\ c \in desk
  /\ StillMeans(c) /\ slips[c] = "pending"
  /\ Hand(p, [Resting EXCEPT !.at = "match", !.batch = <<c>>, !.by = "review"])
  /\ UNCHANGED <<talk, held, slips, desk, deaths>>

\* Only an activation or a duplicate is written to a receipt that still waits.
ApproveEnds(p) ==
  /\ Does(p, "finalize") /\ hand[p].by = "review"
  /\ slips' = IF /\ hand[p].said \in {"activated", "duplicate"}
                 /\ slips[Foremost(p)] = "pending"
              THEN [slips EXCEPT ![Foremost(p)] = hand[p].said] ELSE slips
  /\ Hand(p, Resting)
  /\ UNCHANGED <<talk, held, desk, deaths>>

Die(p) ==
  /\ ~Does(p, "idle")
  /\ deaths < MaxDeaths /\ deaths' = deaths + 1
  /\ Hand(p, Resting)
  /\ UNCHANGED <<talk, held, slips, desk>>

-----------------------------------------------------------------------------
AssertInit ==
  /\ talk = <<>>
  /\ held = Nobody
  /\ slips = [c \in {} |-> "none"]
  /\ desk = {}
  /\ hand = [p \in Promoters |-> Resting]
  /\ deaths = 0

AssertNext ==
  \/ \E session \in Sessions, text \in Texts : Speak(session, text)
  \/ \E e \in DOMAIN talk, text \in Texts : Reword(e, text)
  \/ \E e \in DOMAIN talk : TakeBack(e)
  \/ \E p \in Promoters :
       \/ Gather(p) \/ GatherEnds(p) \/ Open(p) \/ ToDesk(p) \/ Match(p)
       \/ Admit(p) \/ Close(p) \/ ApproveEnds(p) \/ Die(p)
  \/ \E p \in Promoters : \E c \in desk : AskApproval(p, c)

-----------------------------------------------------------------------------
(* Properties. *)

\* candidates.py: one plain sentence is not remembered on its own.  A claim was
\* admitted by a reviewer, or states what needs no confirmation, or rests on
\* two sessions in two wordings; and its newest source says what it says.
NothingOnHearsay ==
  held # Nobody =>
    /\ \/ held.by = "review"
       \/ Phrasings[held.content] = "auto"
       \/ /\ Cardinality({talk[e].session : e \in held.sources}) >= 2
          /\ Cardinality({talk[e].text : e \in held.sources}) >= 2
    /\ talk[Max(held.sources)].text = held.content

\* A receipt that says activated or duplicate is about what the claim says, and
\* a candidate that waits for a reviewer can be found by one.
SlipsTellTheTruth ==
  \A c \in DOMAIN slips :
    /\ slips[c] \in {"activated", "duplicate"} => held.content = c.content
    /\ slips[c] \in {"pending", "conflict"} => c \in desk

\* The tests name it the promotion of a stable assertion: an assertion that
\* needs no confirmation is not put before a reviewer.  Not so: said again in
\* weaker words before the next pass, it loses its own candidate.
StrongWordsCount ==
  \A c \in DOMAIN slips : Phrasings[c.content] = "auto" => slips[c] # "error"
=============================================================================

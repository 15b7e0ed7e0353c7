------------------------ MODULE MCCandidatePromotion ------------------------
(***************************************************************************)
(* Small pipelines for TLC.  Every message is about one claim, so that all *)
(* commands compete; the messages come in every order.  A configuration    *)
(* picks which messages there are.                                         *)
(***************************************************************************)
EXTENDS CandidatePromotion

CONSTANTS c1, x, y, m1, m2, r1, r2, f1, u1, u2

MCClaims == {c1}
MCContents == {x, y}

\* memory, replace and forget commands; u1 and u2 need a review.
MCEvent(e) ==
  [content |-> IF e \in {m1, r2, u1} THEN x ELSE y,
   sensitivity |-> IF e = r1 THEN "private" ELSE "normal",
   command |-> IF e \in {f1, u2} THEN "forget"
               ELSE IF e \in {r1, r2, u1} THEN "replace" ELSE "memory"]

MCCandidate(e) ==
  [claim |-> c1, tier |-> IF e \in {u1, u2} THEN "review" ELSE "activate",
   session |-> IF e \in {r2, u2} THEN "s2" ELSE "s1"]

MCEventInfo == [e \in UserEvents |-> MCEvent(e)]
MCCandidateInfo == [e \in UserEvents |-> MCCandidate(e)]

MCScopeAll == [p \in Syncs |-> Null]

MCScopeSplit == [p \in Syncs |-> IF p = "host1" THEN "s1" ELSE "s2"]

\* What the candidates may ask of the authority, up to six versions.
MCWriteRequests == {CandidateWrite(e) : e \in UserEvents}
MCReplaceRequests == {CandidateReplace(e, n) : e \in UserEvents, n \in 1..6}
MCLifecycleRequests == {CandidateRetire(e, n) : e \in UserEvents, n \in 1..6}
MCEmptyFunction == [r \in {} |-> r]
=============================================================================

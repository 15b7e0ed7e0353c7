-------------------------- MODULE MCMemoryProjection -------------------------
(***************************************************************************)
(* Two drains over one claim that is written or promoted, replaced, and    *)
(* retired or expired, at any moment.                                      *)
(***************************************************************************)
EXTENDS MemoryProjection

CONSTANTS p1, p2, rootA, rootB, c1, x, y, k1, k2, r1

MCClaims == {c1}
MCContents == {x, y}
MCIdemKeys == {k1, k2}
MCUserEvents == {}
MCEventInfo == [e \in {} |-> [content |-> x, sensitivity |-> "normal",
                              command |-> "memory"]]
MCLegacyRecords == {r1}
MCLegacyInfo == [r \in {r1} |-> [content |-> x, sensitivity |-> "normal"]]
MCNoInfo == [r \in {} |-> [content |-> x, sensitivity |-> "normal"]]

W(idem, claim, content) ==
  [idem |-> idem, claim |-> claim, content |-> content, sensitivity |-> "normal",
   sourceSensitivity |-> "normal", refs |-> <<>>]

R(idem, claim, expected, content) ==
  [idem |-> idem, claim |-> claim, expected |-> expected, content |-> content,
   sensitivity |-> "normal", refs |-> <<>>]

L(idem, claim, expected, action) ==
  [idem |-> idem, claim |-> claim, expected |-> expected, action |-> action]

MCWriteRequests == {W(k1, c1, x)}
MCReplaceRequests == {R(k1, c1, 1, y)}
MCLifecycleRequests == {L(k1, c1, 1, "retire"), L(k2, c1, 2, "expire")}
MCExpireRequests == {L(k2, c1, 2, "expire")}
MCPromotionBatches == {<<[record |-> r1, claim |-> c1]>>}
MCNone == {}

MCTwo == {p1, p2}
MCWorkerOf == [p \in {p1, p2} |-> "memory-projection-drain"]
MCRoots == {rootA}
MCRootOf == [p \in {p1, p2} |-> rootA]
MCTwoRoots == {rootA, rootB}
MCTwoRootOf == [p \in {p1, p2} |-> IF p = p1 THEN rootA ELSE rootB]
=============================================================================

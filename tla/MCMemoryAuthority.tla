-------------------------- MODULE MCMemoryAuthority --------------------------
(***************************************************************************)
(* A small authority for TLC: two claims that every service competes for,  *)
(* two chat events (one a replace command), two legacy records.  The       *)
(* requests share idempotency keys, aim at the same versions and repeat    *)
(* contents, so that every conflict of the code is met.                    *)
(***************************************************************************)
EXTENDS MemoryAuthority

CONSTANTS c1, c2, x, y, k1, k2, k3, e1, e2, r1, r2

MCClaims == {c1, c2}
MCContents == {x, y}
MCIdemKeys == {k1, k2, k3}
MCUserEvents == {e1, e2}
MCLegacyRecords == {r1, r2}

MCEventInfo ==
  [e \in MCUserEvents |->
     IF e = e1
     THEN [content |-> x, sensitivity |-> "normal", command |-> "replace"]
     ELSE [content |-> x, sensitivity |-> "private", command |-> "memory"]]

MCLegacyInfo ==
  [r \in MCLegacyRecords |->
     IF r = r1 THEN [content |-> x, sensitivity |-> "normal"]
     ELSE [content |-> y, sensitivity |-> "restricted"]]

W(idem, claim, content, sensitivity, source, refs) ==
  [idem |-> idem, claim |-> claim, content |-> content,
   sensitivity |-> sensitivity, sourceSensitivity |-> source, refs |-> refs]

R(idem, claim, expected, content, sensitivity, refs) ==
  [idem |-> idem, claim |-> claim, expected |-> expected, content |-> content,
   sensitivity |-> sensitivity, refs |-> refs]

L(idem, claim, expected, action) ==
  [idem |-> idem, claim |-> claim, expected |-> expected, action |-> action]

\* Explicit writes that collide on the key, a derived write over two events,
\* and two downgrades that admission must turn away.
MCWriteRequests ==
  {W(k1, c1, x, "normal", "normal", <<>>),
   W(k1, c2, y, "private", "normal", <<>>),
   W(k2, c2, x, "private", "normal", <<e1, e2>>),
   W(k3, c2, x, "normal", "normal", <<e2, e1>>),
   W(k2, c1, y, "normal", "private", <<>>)}

MCReplaceRequests ==
  {R(k1, c1, 1, y, "private", <<>>),
   R(k2, c1, 1, x, "normal", <<e1>>),
   R(k3, c1, 2, x, "normal", <<>>),
   R(k3, c2, 1, x, "normal", <<e1>>)}

MCLifecycleRequests ==
  {L(k1, c1, 1, "retire"), L(k1, c1, 2, "expire"), L(k2, c1, 2, "retire"),
   L(k3, c2, 1, "expire")}

S(record, claim) == [record |-> record, claim |-> claim]

MCPromotionBatches ==
  {<<S(r1, c1)>>, <<S(r1, c2)>>, <<S(r2, c2), S(r1, c1)>>}
=============================================================================

--------------------------- MODULE GovernedRecall ---------------------------
(***************************************************************************)
(* From a user's words to the memory in the prompt: the search of the      *)
(* projection (packages/pcltm/memory_retrieval.py), the admission to the   *)
(* prompt (injection/governed_memory.py and the arbitrator behind it) and  *)
(* the provider's prefetch that runs the two                               *)
(* (soul_link/hermes_plugin/memory_provider.py).                           *)
(*                                                                         *)
(* Search and injection are two read transactions.  Before, between and    *)
(* after them other connections change the authority and bring its         *)
(* projection up to date; MemoryAuthority and MemoryProjection have the    *)
(* detail of those steps, here they are the environment.                   *)
(*                                                                         *)
(* A text stands for all that has one fingerprint once its white space is  *)
(* normalised; the ranking of the index is any order.                      *)
(***************************************************************************)
EXTENDS Naturals, FiniteSetsExt, Selections

CONSTANTS
    Claims,      \* claim ids, ordered as their candidates' keys are
    Modes,       \* bound: persona modes that ask
    Bodies,      \* bound: bodies a claim may have
    BodySize,    \* Bodies -> its cost in tokens, scaled
    LayerBudget, \* what the semantic layer gets of the packet's budget
    SearchLimit, \* limit of a search
    MaxChanges   \* bound: governance events

ASSUME RecallAssumption ==
    /\ Claims \subseteq Nat /\ IsFiniteSet(Claims)
    /\ BodySize \in [Bodies -> Nat]
    /\ {LayerBudget, SearchLimit, MaxChanges} \subseteq Nat

VARIABLES
    kind,      \* what is fixed when a claim is written: see Kinds
    authority, \* memory_current and what it joins: claim -> row or NoRow
    index,     \* memory_fts: claim -> row or NoRow
    changes,   \* the last memory_governance_id
    recall     \* the prefetch or tool call under way

recallVars == <<kind, authority, index, changes, recall>>

NoRow == [version |-> 0, gid |-> 0, state |-> "none", text |-> "none", source |-> "none"]

(***************************************************************************)
(* A claim anyone may see, one for two modes only, one for none, one that  *)
(* may be found but not put into the prompt, and one of a type that has no *)
(* layer in the prompt.                                                    *)
(***************************************************************************)
Kinds == {"normal", "private", "restricted", "searchable", "untyped"}

Row == [version : Nat, gid : Nat, state : {"active", "retired"}, text : Bodies,
        source : {"live", "changed"}]

\* read is a history: the claims whose rows of the index the search has looked at.
Idle == [phase |-> "idle", mode |-> "none", read |-> {}, items |-> <<>>, status |-> "none",
         reason |-> "none", prompt |-> <<>>]

-----------------------------------------------------------------------------
(* The policy *)

\* admit_access for any surface but the audit's.
Accessible(c, row, mode) ==
    /\ row.state = "active"
    /\ kind[c] # "restricted"
    /\ kind[c] = "private" => mode \in {"daily", "sex"}

\* admit_injection
Injectable(c, row, mode) == Accessible(c, row, mode) /\ kind[c] # "searchable"

\* _source_refs: the sources still are what the version was made from.
SourcesHold(row) == row.source = "live"

\* _projection_matches_authority
Matches(c) == index[c] = authority[c] /\ SourcesHold(authority[c])

\* _reopen: authority first, then what the projection committed to, then policy.
Reopened(c, mode) ==
    authority[c] # NoRow /\ SourcesHold(authority[c]) /\ Matches(c) /\ Accessible(c, authority[c], mode)

\* Fault: a row that is behind the authority is passed over.
StaleNone(rows) == FALSE

\* A row that could not be reopened for another reason than policy.
Stale(rows) == \E i \in DOMAIN rows : ~Matches(rows[i])

-----------------------------------------------------------------------------
(* Search *)

Item(c) == [claim |-> c, row |-> authority[c]]

Answer(mode, rows) ==
    LET open == Only(rows, {c \in Claims : Reopened(c, mode)})
        items == [i \in DOMAIN open |-> Item(open[i])]
    IN  CASE rows = <<>> -> [status |-> "abstained", reason |-> "no_answer", items |-> <<>>]
          [] items # <<>> /\ Stale(rows) ->
               [status |-> "unavailable", reason |-> "authority_reopen_failed", items |-> <<>>]
          [] items # <<>> /\ ~Stale(rows) -> [status |-> "ok", reason |-> "none", items |-> items]
          [] OTHER -> [status |-> "abstained", items |-> <<>>,
                       reason |-> IF Stale(rows) THEN "authority_reopen_failed" ELSE "policy_filtered"]

Lists(set) == UNION {{s \in [1..n -> set] : \A i, j \in 1..n : s[i] = s[j] => i = j} :
                       n \in 0..Cardinality(set)}

(***************************************************************************)
(* The rows that the query matches, best first, cut at the limit.  When    *)
(* there are none the optional neural model names active claims, and their *)
(* rows in the index are read.                                             *)
(***************************************************************************)
Hits(query) ==
    LET found == {c \in Claims : index[c] # NoRow /\ index[c].text \in query}
        active == {c \in Claims : index[c] # NoRow /\ authority[c].state = "active"}
    IN  IF found # {}
          THEN {s \in Lists(found) : Len(s) = Min({Cardinality(found), SearchLimit})}
          ELSE {s \in Lists(active) : Len(s) <= SearchLimit}

\* search_governed_memories, for prefetch and for the search tool.
Search(mode, query) ==
    /\ recall.phase = "idle"
    /\ \E rows \in Hits(query) :
         LET a == Answer(mode, rows)
         IN  recall' = IF a.status = "ok"
                         THEN [Idle EXCEPT !.phase = "found", !.mode = mode, !.items = a.items,
                                           !.read = ToSet(rows)]
                         ELSE [Idle EXCEPT !.phase = "told", !.mode = mode,
                                           !.status = a.status, !.reason = a.reason]
    /\ UNCHANGED <<kind, authority, index, changes>>

\* open_governed_memory: no projection is asked.
Open(mode, c) ==
    /\ recall.phase = "idle"
    /\ recall' =
         IF authority[c] = NoRow
           THEN [Idle EXCEPT !.phase = "told", !.status = "abstained", !.reason = "authority_not_found"]
         ELSE IF ~SourcesHold(authority[c]) \/ ~Accessible(c, authority[c], mode)
           THEN [Idle EXCEPT !.phase = "told", !.status = "abstained", !.reason = "policy_filtered"]
         ELSE [Idle EXCEPT !.phase = "told", !.mode = mode, !.status = "opened", !.items = <<Item(c)>>]
    /\ UNCHANGED <<kind, authority, index, changes>>

-----------------------------------------------------------------------------
(* Injection *)

\* Fault: the item found is taken as it is.
ReceiptHoldsAlways(item) == TRUE

\* _reopen_for_injection: the claim still says what the search read.
ReceiptHolds(item) ==
    /\ SourcesHold(authority[item.claim])
    /\ [authority[item.claim] EXCEPT !.state = "any"] = [item.row EXCEPT !.state = "any"]

\* Fault: a claim that has left the layers ends nothing.
EndsAllNot(items) == FALSE

\* One changed receipt, or one claim without a layer, gives up the whole injection.
EndsAll(items) == \E i \in DOMAIN items : ~ReceiptHolds(items[i]) \/ kind[items[i].claim] = "untyped"

WhyEnds(items) ==
    LET bad(i) == ~ReceiptHolds(items[i]) \/ kind[items[i].claim] = "untyped"
        first == CHOOSE i \in DOMAIN items : bad(i) /\ \A j \in DOMAIN items : bad(j) => i <= j
    IN  IF ReceiptHolds(items[first]) THEN "memory_type_not_injectable" ELSE "authority_receipt_changed"

\* Fault: every candidate is new.
FreshAll(items) == items

\* _deduplicate_candidates: of two with one text the better ranked stays.
Fresh(items) ==
    FoldLeft(LAMBDA out, i : IF \E k \in DOMAIN out : out[k].row.text = i.row.text THEN out
                             ELSE Append(out, i), <<>>, items)

Cost(items) == FoldLeft(LAMBDA n, i : n + BodySize[i.row.text], 0, items)

\* A search answers with a claim once.
ByKey(items) ==
    LET keys == Ascending({items[k].claim : k \in DOMAIN items})
    IN  [n \in DOMAIN keys |-> items[CHOOSE k \in DOMAIN items : items[k].claim = keys[n]]]

\* Fault: the first that does not fit is still taken.
WithinBudgetOver(items) ==
    FoldLeft(LAMBDA out, i : IF Cost(out) > LayerBudget THEN out ELSE Append(out, i), <<>>, items)

(***************************************************************************)
(* select_within_budgets.  Every candidate has one priority and one rank   *)
(* score, so the order is that of the keys and not of the search; what     *)
(* does not fit is passed over and a smaller one after it is taken.        *)
(***************************************************************************)
WithinBudget(items) ==
    FoldLeft(LAMBDA out, i : IF Cost(out) + BodySize[i.row.text] > LayerBudget THEN out
                             ELSE Append(out, i), <<>>, ByKey(items))

\* build_governed_memory_context
Inject ==
    /\ recall.phase = "found"
    /\ LET items == recall.items
           admitted == Only(items, {i \in ToSet(items) : Injectable(i.claim, authority[i.claim], recall.mode)})
           prompt == WithinBudget(Fresh(admitted))
           abstain(why) == [recall EXCEPT !.phase = "told", !.items = <<>>, !.status = "abstained",
                                          !.reason = why]
       IN  recall' = CASE EndsAll(items) -> abstain(WhyEnds(items))
                       [] ~EndsAll(items) /\ admitted = <<>> -> abstain("injection_policy_filtered")
                       [] ~EndsAll(items) /\ admitted # <<>> /\ prompt = <<>> ->
                            abstain("injection_budget_filtered")
                       [] OTHER -> [recall EXCEPT !.phase = "told", !.status = "captured", !.prompt = prompt]
    /\ UNCHANGED <<kind, authority, index, changes>>

\* sqlite3.Error in either transaction, or no index at all.
StoreFails ==
    /\ recall.phase \in {"idle", "found"}
    /\ recall' = [Idle EXCEPT !.phase = "told", !.status = "unavailable",
                             !.reason = "authority_store_unavailable"]
    /\ UNCHANGED <<kind, authority, index, changes>>

\* The host takes what prefetch returned, or its error; the next call begins.
Deliver ==
    /\ recall.phase = "told"
    /\ recall' = Idle
    /\ UNCHANGED <<kind, authority, index, changes>>

-----------------------------------------------------------------------------
(* Other connections *)

Govern(c, row) ==
    /\ changes < MaxChanges
    /\ changes' = changes + 1
    /\ authority' = [authority EXCEPT ![c] = row]
    /\ UNCHANGED <<kind, index, recall>>

\* A write, or a replace that makes the next version.
SetClaim(c, text) ==
    /\ authority[c].state \in {"none", "active"}
    /\ Govern(c, [version |-> authority[c].version + 1, gid |-> changes + 1, state |-> "active",
                  text |-> text, source |-> "live"])

Retire(c) ==
    /\ authority[c].state = "active"
    /\ Govern(c, [authority[c] EXCEPT !.gid = changes + 1, !.state = "retired"])

\* An event the claim rests on gets another revision: no governance event says so.
ChangeSource(c) ==
    /\ authority[c].source = "live"
    /\ authority' = [authority EXCEPT ![c].source = "changed"]
    /\ UNCHANGED <<kind, index, changes, recall>>

\* The projector has come to the claim.
Project(c) ==
    /\ index' = [index EXCEPT ![c] = IF authority[c].state = "active" /\ SourcesHold(authority[c])
                                       THEN authority[c] ELSE NoRow]
    /\ index' # index
    /\ UNCHANGED <<kind, authority, changes, recall>>

-----------------------------------------------------------------------------

RecallInit ==
    /\ kind \in [Claims -> Kinds]
    /\ authority = [c \in Claims |-> NoRow]
    /\ index = authority
    /\ changes = 0
    /\ recall = Idle

RecallNext ==
    \/ \E mode \in Modes, query \in SUBSET Bodies : Search(mode, query)
    \/ \E mode \in Modes, c \in Claims : Open(mode, c)
    \/ Inject \/ StoreFails \/ Deliver
    \/ \E c \in Claims : Retire(c) \/ ChangeSource(c) \/ Project(c) \/ \E x \in Bodies : SetClaim(c, x)

RecallSpec == RecallInit /\ [][RecallNext]_recallVars

RecallTypeOK ==
    /\ kind \in [Claims -> Kinds]
    /\ authority \in [Claims -> Row \cup {NoRow}]
    /\ index \in [Claims -> Row \cup {NoRow}]
    /\ changes \in 0..MaxChanges
    /\ recall.phase \in {"idle", "found", "told"} /\ recall.mode \in Modes \cup {"none"}
    /\ recall.items \in Seq([claim : Claims, row : Row])
    /\ recall.prompt \in Seq([claim : Claims, row : Row])

(***************************************************************************)
(* "prefetch injects only reopened canonical claims": whatever has changed *)
(* since the search read it, a memory that enters the prompt is at that    *)
(* moment the authority's word on its claim, in force, with the sources it *)
(* was made from, and allowed into the prompt of this mode.                *)
(***************************************************************************)
InjectedIsInForce ==
    [][\A k \in DOMAIN recall'.prompt :
         recall'.phase = "told" /\ recall.phase = "found" =>
           LET i == recall'.prompt[k]
           IN  /\ i.row = authority[i.claim]
               /\ i.row.state = "active" /\ i.row.source = "live"
               /\ kind[i.claim] \in {"normal", "private"}
               /\ kind[i.claim] = "private" => recall'.mode \in {"daily", "sex"}]_recallVars

(***************************************************************************)
(* A search answers with the whole of what it read or not at all: a row of *)
(* the index that is behind the authority makes the answer unavailable and *)
(* is never simply missing from it; what is missing is what policy keeps.  *)
(***************************************************************************)
AnswerIsCurrent ==
    [][recall'.phase = "found" /\ recall.phase = "idle" =>
         LET answered == {recall'.items[k].claim : k \in DOMAIN recall'.items}
         IN  \A c \in recall'.read :
               /\ index[c] = authority[c] /\ authority[c].source = "live"
               /\ c \in answered <=> Accessible(c, authority[c], recall'.mode)]_recallVars

(***************************************************************************)
(* The prompt gets no text twice and no more than its layer's share, and   *)
(* of what the search found it leaves out only a text it has, what policy  *)
(* kept, or what there was no room for.                                    *)
(***************************************************************************)
PromptIsFitted ==
    LET p == recall.prompt
    IN  /\ Cost(p) <= LayerBudget
        /\ \A i, j \in DOMAIN p : p[i].row.text = p[j].row.text => i = j
        /\ recall.status = "captured" =>
             \A k \in DOMAIN recall.items :
               LET i == recall.items[k]
               IN  \/ \E j \in DOMAIN p : p[j].row.text = i.row.text
                   \/ kind[i.claim] = "searchable"
                   \/ Cost(p) + BodySize[i.row.text] > LayerBudget
=============================================================================

---------------------------- MODULE EvidenceChain ----------------------------
(***************************************************************************)
(* The hash chain of the event ledger (EventStore._insert_event_row and    *)
(* verify_event_chain in packages/pcltm/store.py, evidence_chain.py, and   *)
(* _backfill_legacy_evidence of ledger_schema.py, which every process that *)
(* opens the store runs).                                                  *)
(*                                                                         *)
(* Rows are appended while the file may be damaged once, in one column of  *)
(* one row or by the loss of a row, as a disk or a wrong restore does it.  *)
(* A hash is what it is computed from.                                     *)
(***************************************************************************)
EXTENDS Naturals, SequencesExt

CONSTANTS
    Payloads,  \* bound: contents of an event
    Columns,   \* bound: values of the columns the envelope has beside it
    MaxRows    \* bound: events appended

VARIABLES
    rows,    \* events, in the order of their ids
    anchor,  \* event_chain_state: first and last id, count, hash of the tip
    nextId,  \* the AUTOINCREMENT counter
    damage   \* history: what was damaged, the row's id, and whether the store
             \* has been opened since

chainVars == <<rows, anchor, nextId, damage>>

Intact == [what |-> "nothing", id |-> 0, opened |-> FALSE]
Blank == "blank"

\* What is said is never the hash a row has that has none.
ASSUME ChainAssumption == Blank \notin Payloads /\ MaxRows \in Nat

\* A row has a schema version and a revision; an ordinary one those of today, an
\* enrolled one schema version 9 and revision 1.
CurrentVersion == 10
LegacyVersion == 9

NoAnchor == [first |-> 0, last |-> 0, count |-> 0, tip |-> <<>>]

\* chain_hash: the hash before it and the envelope, which has the hash of the
\* content and not the content.
ChainHash(prev, id, row) == Append(prev, <<id, row.meta, row.sha, row.version>>)

Tip(rs) == IF rs = <<>> THEN <<>> ELSE rs[Len(rs)].chain

\* The hash of the last row that has one: an event follows that row.
Previous(rs) ==
    LET chained == {i \in DOMAIN rs : rs[i].chain # <<>>}
    IN  IF chained = {} THEN <<>> ELSE rs[Max(chained)].chain

\* Fault: the anchor is made from the rows there are.
AnchoredAfresh(id, chain) ==
    [first |-> IF rows = <<>> THEN id ELSE rows[1].id, last |-> id, count |-> Len(rows) + 1, tip |-> chain]

\* The anchor counts for itself, it is not counted again from the rows.
Anchored(id, chain) ==
    [first |-> IF anchor.count = 0 THEN id ELSE anchor.first, last |-> id,
     count |-> anchor.count + 1, tip |-> chain]

\* An event from a host also has a row of event_revisions with the hash of its
\* content.  Everything else of an event is in meta, but for its mode.
Insert(text, meta, external) ==
    /\ nextId <= MaxRows
    /\ LET prev == Previous(rows)
           chain == ChainHash(prev, nextId, [meta |-> meta, sha |-> text, version |-> CurrentVersion])
       IN  /\ rows' = Append(rows, [id |-> nextId, text |-> text, meta |-> meta, mode |-> "work", sha |-> text,
                                    version |-> CurrentVersion, rev |-> IF external THEN text ELSE "none",
                                    prev |-> prev, chain |-> chain])
           /\ anchor' = Anchored(nextId, chain)
    /\ nextId' = nextId + 1
    /\ UNCHANGED damage

Damaged(what, i, rs) ==
    /\ damage = Intact
    /\ rows' = rs
    /\ damage' = [what |-> what, id |-> rows[i].id, opened |-> FALSE]
    /\ UNCHANGED <<anchor, nextId>>

Damage(i) ==
    \/ \E x \in Payloads : x # rows[i].text /\ Damaged("text", i, [rows EXCEPT ![i].text = x])
    \/ \E x \in Payloads : x # rows[i].text /\ Damaged("hash", i, [rows EXCEPT ![i].text = x, ![i].sha = x])
    \/ \E v \in Columns : v # rows[i].meta /\ Damaged("meta", i, [rows EXCEPT ![i].meta = v])
    \/ Damaged("mode", i, [rows EXCEPT ![i].mode = "daily"])
    \/ Damaged("stripped", i, [rows EXCEPT ![i].sha = Blank, ![i].prev = <<>>, ![i].chain = <<>>])
    \/ Damaged(IF i = Len(rows) THEN "tail" ELSE "lost", i, RemoveAt(rows, i))

-----------------------------------------------------------------------------
(* verify_event_chain *)

\* Fault: the hash of the row before is not compared.
SoundUnlinked(prev, row) ==
    row.sha = row.text /\ row.rev \in {"none", row.text} /\ row.chain = ChainHash(row.prev, row.id, row)

\* The content has its two hashes, and the row its place after the one before.
Sound(prev, row) ==
    /\ row.sha = row.text /\ row.rev \in {"none", row.text}
    /\ row.prev = prev /\ row.chain = ChainHash(prev, row.id, row)

Unsound(rs) ==
    {i \in DOMAIN rs : ~Sound(IF i = 1 THEN <<>> ELSE rs[i - 1].chain, rs[i])}

AnchorHolds ==
    IF rows = <<>> THEN anchor.count = 0
    ELSE anchor = [first |-> rows[1].id, last |-> rows[Len(rows)].id, count |-> Len(rows), tip |-> Tip(rows)]

\* The id of the first row that is not sound; 0 when only the anchor tells.
Verify ==
    LET bad == Unsound(rows)
    IN  IF bad # {} THEN [ok |-> FALSE, first |-> rows[CHOOSE i \in bad : \A j \in bad : i <= j].id]
        ELSE [ok |-> AnchorHolds, first |-> 0]

-----------------------------------------------------------------------------
(* _backfill_legacy_evidence *)

Stripped(row) == row.sha = Blank

\* Each row against the hashes of the rows before, made again for those that have
\* none.  Such a row is hashed with the version it has and stored with another.
\* The columns read from ingest_events are those of the row while it is the newest
\* of its message; for an older one the hash would be yet another.
Enrolled ==
    FoldLeft(LAMBDA out, row :
               LET prev == Tip(out)
                   chain == ChainHash(prev, row.id, [row EXCEPT !.sha = row.text])
               IN  Append(out, [row EXCEPT !.sha = row.text, !.prev = prev, !.chain = chain,
                                           !.version = IF Stripped(row) THEN LegacyVersion ELSE @]),
             <<>>, rows)

\* Fault: what is there is taken as it is.
AgreesAlways == TRUE

Agrees == \A i \in DOMAIN rows : Stripped(rows[i]) \/ rows[i] = Enrolled[i]

\* Every process that opens the store makes the anchor again, or fails there, as it
\* also does when the chunks of a row without hashes are already made.
Open ==
    /\ rows # <<>> /\ Agrees
    /\ rows' = Enrolled
    /\ anchor' = [first |-> rows[1].id, last |-> rows[Len(rows)].id, count |-> Len(rows), tip |-> Tip(Enrolled)]
    /\ damage' = [damage EXCEPT !.opened = damage # Intact]
    /\ UNCHANGED nextId

-----------------------------------------------------------------------------

ChainInit == rows = <<>> /\ anchor = NoAnchor /\ nextId = 1 /\ damage = Intact

ChainNext ==
    \/ \E x \in Payloads, v \in Columns, external \in BOOLEAN : Insert(x, v, external)
    \/ \E i \in DOMAIN rows : Damage(i)
    \/ Open

ChainSpec == ChainInit /\ [][ChainNext]_chainVars

(***************************************************************************)
(* A ledger that was never damaged passes, whoever opens it; one whose     *)
(* content or envelope has changed does not, and cannot be opened again; a *)
(* row lost from the middle is missed for ever, one lost from the end at   *)
(* least until the store is opened.  Events may follow all the same.       *)
(* Where a row tells the damage no row before it is blamed.  A row whose   *)
(* hashes were cleared is never sound again: the opening that makes them   *)
(* anew stores another version than it hashes, and is the last opening.    *)
(* The persona mode of an event is in no hash.                             *)
(***************************************************************************)
DamageIsSeen ==
    /\ damage.what \in {"nothing", "mode"} => Verify.ok /\ Agrees
    /\ damage.what \in {"text", "meta"} => ~Verify.ok /\ Verify.first = damage.id /\ ~Agrees
    /\ damage.what = "hash" => ~Verify.ok /\ Verify.first = damage.id /\ ~Agrees
    /\ damage.what = "lost" => ~Verify.ok /\ Verify.first > damage.id /\ ~Agrees
    /\ damage.what = "tail" /\ ~damage.opened => ~Verify.ok
    /\ damage.what = "stripped" => ~Verify.ok /\ Verify.first = damage.id /\ (damage.opened => ~Agrees)

(***************************************************************************)
(* A test: verify_event_chain "detects deleted tail"; the search relies on *)
(* it to notice "accidental corruption" (transcript_search.py).  A row     *)
(* that is lost is missed.                                                 *)
(***************************************************************************)
LossIsSeen == damage.what \in {"lost", "tail"} => ~Verify.ok
=============================================================================

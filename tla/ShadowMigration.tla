-------------------------- MODULE ShadowMigration --------------------------
(***************************************************************************)
(* The read-only tools that look at legacy memory before it is migrated    *)
(* (pcltm/legacy_shadow_migration.py): a manifest that classifies every    *)
(* legacy record of a snapshot, and a replay that asks the legacy and the  *)
(* governed recall the same queries of one database file.                  *)
(*                                                                         *)
(* The store is in WAL mode: a reader sees every commit, the main file     *)
(* changes only at a checkpoint.  Contents are left out; two records with  *)
(* one content would have one commitment.                                  *)
(***************************************************************************)
EXTENDS Integers, FiniteSets, Sequences, FiniteSetsExt

CONSTANTS
    Records,
    Events,       \* the ids of events
    SourceLists,  \* the lists of sources a record may have; 0 stands for what is no id
    MaxCommits    \* bound: commits of the host beside the tools

ASSUME ShadowAssumption ==
    /\ MaxCommits \in Nat /\ Events \subseteq Nat \ {0}
    /\ SourceLists \subseteq Seq(Events \cup {0})

VARIABLES
    store,        \* what a reader of the store sees: records, events, claims
    main,         \* what its main file holds
    snapshot,     \* the copy: {} or one such content
    manifest,     \* {} or the classes of the snapshot's records
    replay,       \* the replay at work
    reports,      \* history: the replays that were reported
    commits

shadowVars == <<store, main, snapshot, manifest, replay, reports, commits>>

Ranks == [normal |-> 0, private |-> 1, restricted |-> 2, secret |-> 3]
Statuses == {"approved", "candidate", "retired"}
Historical == {"superseded", "rejected", "retired", "expired"}
Provenances == {"other", "tool", "tool_complete"}

-----------------------------------------------------------------------------
(* _source_commitment and _classify_record *)

Cited(sources) == {sources[i] : i \in DOMAIN sources}

Repeats(sources) == \E i, j \in DOMAIN sources : i # j /\ sources[i] = sources[j]

\* The event with the lowest id that is altered or not in force says why.
SourceReason(sources, events) ==
    LET bad == {e \in Cited(sources) : ~(events[e].intact /\ events[e].active)} IN
    IF 0 \in Cited(sources) THEN "legacy_source_ids_malformed"
    ELSE IF Repeats(sources) THEN "legacy_source_ids_duplicated"
    ELSE IF ~(Cited(sources) \subseteq DOMAIN events) THEN "legacy_source_event_missing"
    ELSE IF bad = {} THEN "none"
    ELSE IF ~events[Min(bad)].intact THEN "legacy_source_hash_mismatch"
    ELSE "legacy_source_inactive"

Class(class, reason) == [class |-> class, reason |-> reason]
Quarantined(reason) == Class("quarantined", reason)

\* Fault: a record with good sources is taken whatever they are marked.
ClassifyUnranked(r, events) ==
    LET reason == SourceReason(r.sources, events) IN
    IF r.status \in Historical THEN Class("historical", "legacy_terminal_history")
    ELSE IF r.status # "approved" THEN Quarantined("legacy_state_requires_review")
    ELSE IF reason # "none" THEN Quarantined(reason)
    ELSE IF r.sources # <<>> THEN Class("event_derived", "verified_event_lineage")
    ELSE IF r.sensitivity # "normal" THEN Quarantined("legacy_sensitivity_not_auto_promotable")
    ELSE IF r.provenance = "tool_complete" THEN Class("legacy_governed", "verified_memory_tool_provenance")
    ELSE Quarantined("legacy_source_unresolved")

Classify(r, events) ==
    LET reason == SourceReason(r.sources, events) IN
    IF r.status \in Historical THEN Class("historical", "legacy_terminal_history")
    ELSE IF r.status # "approved" THEN Quarantined("legacy_state_requires_review")
    ELSE IF reason # "none" THEN Quarantined(reason)
    ELSE IF r.sources # <<>>
      THEN IF \E e \in Cited(r.sources) : Ranks[r.sensitivity] < Ranks[events[e].sensitivity]
             THEN Quarantined("legacy_sensitivity_downgrade")
             ELSE Class("event_derived", "verified_event_lineage")
    ELSE IF r.sensitivity # "normal" THEN Quarantined("legacy_sensitivity_not_auto_promotable")
    ELSE IF r.provenance = "tool_complete" THEN Class("legacy_governed", "verified_memory_tool_provenance")
    ELSE IF r.provenance = "tool" THEN Quarantined("legacy_provenance_insufficient")
    ELSE Quarantined("legacy_source_unresolved")

-----------------------------------------------------------------------------
(* The two sides of a replay, for one query that matches every content *)

UpTo(ceiling, sensitivity) == Ranks[sensitivity] <= Ranks[ceiling]

ReplyOf(found) == [status |-> IF found = {} THEN "abstained" ELSE "ok", found |-> found]

\* The order is that of the records; the set stands for it.
LegacySide(content, ceiling) ==
    ReplyOf({r \in DOMAIN content.records :
              content.records[r].status = "approved" /\ UpTo(ceiling, content.records[r].sensitivity)})

GovernedSide(content, ceiling) ==
    ReplyOf({r \in content.claims : UpTo(ceiling, content.records[r].sensitivity)})

Verdict(legacy, governed) == IF legacy = governed THEN "same" ELSE "different"

-----------------------------------------------------------------------------
(* The host beside the tools *)

Record == [status : Statuses, sensitivity : {"normal", "private", "secret"}, sources : SourceLists,
           provenance : Provenances]
Event == [intact : BOOLEAN, active : BOOLEAN, sensitivity : {"normal", "private"}]
NoReplay == [pc |-> "none"]

Stores ==
    UNION {[records : [Records -> Record], events : [present -> Event], claims : {{}}] : present \in SUBSET Events}

ShadowInit ==
    /\ store \in Stores
    /\ main = store
    /\ snapshot = {} /\ manifest = {} /\ replay = NoReplay /\ reports = {} /\ commits = 0

HostCommits(content) ==
    /\ commits < MaxCommits
    /\ content # store
    /\ store' = content /\ commits' = commits + 1
    /\ UNCHANGED <<main, snapshot, manifest, replay, reports>>

RejectEvent == \E e \in DOMAIN store.events : HostCommits([store EXCEPT !.events[e].active = FALSE])

ReviewRecord ==
    \E r \in Records, status \in Statuses :
        r \notin store.claims /\ HostCommits([store EXCEPT !.records[r].status = status])

\* LegacyMemoryPromotionService: the manifest is not asked.
PromoteRecord ==
    \E r \in Records :
        /\ store.records[r].status = "approved" /\ store.records[r].sensitivity # "secret"
        /\ HostCommits([store EXCEPT !.claims = @ \cup {r}])

RetireClaim == \E r \in store.claims : HostCommits([store EXCEPT !.claims = @ \ {r}])

Checkpoint ==
    /\ main # store
    /\ main' = store
    /\ UNCHANGED <<store, snapshot, manifest, replay, reports, commits>>

-----------------------------------------------------------------------------
(* The tools: neither changes anything, so a run uses one of them *)

\* create_readonly_sqlite_snapshot: a copy of what a reader sees, at a new path.
TakeSnapshot ==
    /\ snapshot = {}
    /\ snapshot' = {store}
    /\ UNCHANGED <<store, main, manifest, replay, reports, commits>>

GenerateManifest ==
    /\ manifest = {} /\ replay = NoReplay /\ reports = {}
    /\ \E content \in snapshot :
         manifest' = {[of |-> content,
                       classes |-> [r \in Records |-> Classify(content.records[r], content.events)]]}
    /\ UNCHANGED <<store, main, snapshot, replay, reports, commits>>

\* The path may be that of a snapshot or that of the store itself.
Visible(path) == IF path = "snapshot" THEN snapshot ELSE {store}
FileOf(path) == IF path = "snapshot" THEN snapshot ELSE {main}

BeginReplay ==
    /\ replay = NoReplay /\ manifest = {}
    /\ \E path \in {"snapshot", "store"}, ceiling \in {"private"} :
         /\ FileOf(path) # {}
         /\ replay' = [pc |-> "legacy", path |-> path, ceiling |-> ceiling, before |-> FileOf(path)]
    /\ UNCHANGED <<store, main, snapshot, manifest, reports, commits>>

AskLegacy ==
    /\ replay.pc = "legacy"
    /\ \E content \in Visible(replay.path) :
         replay' = [pc |-> "governed", path |-> replay.path, ceiling |-> replay.ceiling, before |-> replay.before,
                    legacy |-> LegacySide(content, replay.ceiling), seen |-> content]
    /\ UNCHANGED <<store, main, snapshot, manifest, reports, commits>>

AskGoverned ==
    /\ replay.pc = "governed"
    /\ \E content \in Visible(replay.path) :
         replay' = [pc |-> "end", path |-> replay.path, ceiling |-> replay.ceiling, before |-> replay.before,
                    legacy |-> replay.legacy, governed |-> GovernedSide(content, replay.ceiling),
                    moments |-> {replay.seen, content}]
    /\ UNCHANGED <<store, main, snapshot, manifest, reports, commits>>

Reported(file) ==
    [path |-> replay.path, ceiling |-> replay.ceiling, file |-> file, moments |-> replay.moments,
     verdict |-> Verdict(replay.legacy, replay.governed)]

\* A file that changed meanwhile makes the replay an error; only the last report is kept.
EndReplay ==
    /\ replay.pc = "end"
    /\ replay' = NoReplay
    /\ reports' = IF FileOf(replay.path) = replay.before THEN {Reported(replay.before)} ELSE reports
    /\ UNCHANGED <<store, main, snapshot, manifest, commits>>

ShadowNext ==
    \/ RejectEvent \/ ReviewRecord \/ PromoteRecord \/ RetireClaim \/ Checkpoint
    \/ TakeSnapshot \/ GenerateManifest
    \/ BeginReplay \/ AskLegacy \/ AskGoverned \/ EndReplay

ShadowSpec == ShadowInit /\ [][ShadowNext]_shadowVars

-----------------------------------------------------------------------------
(* Properties *)

ShadowTypeOK ==
    /\ store.claims \subseteq Records /\ commits \in 0..MaxCommits
    /\ Cardinality(snapshot) <= 1 /\ Cardinality(manifest) <= 1 /\ Cardinality(reports) <= 1

\* The evidence that a class promises, read off the snapshot on its own.
Founded(r, content) ==
    /\ r.status = "approved"
    /\ \A i, j \in DOMAIN r.sources : r.sources[i] = r.sources[j] => i = j
    /\ \A i \in DOMAIN r.sources :
         /\ r.sources[i] \in DOMAIN content.events
         /\ LET e == content.events[r.sources[i]] IN
              e.intact /\ e.active /\ Ranks[e.sensitivity] <= Ranks[r.sensitivity]

(***************************************************************************)
(* A record that the manifest calls promotable rests, in the snapshot it   *)
(* was made from, on evidence each of which is there, named once,          *)
(* unaltered, in force and no more sensitive than the record, however many *)
(* sources it has; without any it is normal and has the whole provenance   *)
(* of the memory tool (_classify_record).                                  *)
(***************************************************************************)
ClassesAreFounded ==
    \A m \in manifest : \A r \in Records :
        LET record == m.of.records[r] IN
        /\ m.classes[r].class = "event_derived" => Founded(record, m.of) /\ record.sources # <<>>
        /\ m.classes[r].class = "legacy_governed" =>
             Founded(record, m.of) /\ record.sources = <<>> /\ record.sensitivity = "normal"
             /\ record.provenance = "tool_complete"

(***************************************************************************)
(* What a replay of a snapshot reports, two separate reads beside a host   *)
(* that goes on writing, is what both sides say of the one content whose   *)
(* hash it names, and so it can be made again (run_readonly_shadow_replay).*)
(***************************************************************************)
VerdictIsOfItsFile ==
    \A p \in reports : p.path = "snapshot" =>
        \A content \in p.file :
            p.verdict = Verdict(LegacySide(content, p.ceiling), GovernedSide(content, p.ceiling))

(***************************************************************************)
(* Not kept.  "against one read-only DB": over the store itself the two    *)
(* sides may see different commits, which the main file does not show.     *)
(***************************************************************************)
ReplayIsOneMoment == \A p \in reports : Cardinality(p.moments) = 1
=============================================================================

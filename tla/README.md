# Soul-Link: a verification project

Soul-Link gives a chat agent a long-term memory and a persona. What the agent may
remember is decided by a small SQLite authority (`packages/pcltm`): claims with numbered
versions, an append-only log of governance events, one current row per claim, and an
outbox of work for two projections, the `memory_fts` search index and one Markdown file
per claim (MemFS). Several processes, an agent's hooks, its MCP servers, a doctor
command, open the same database at the same time, call the services with requests that
may be stale or repeated, and drain the outbox.

Around that authority stand the transcript of the chat and its own projections; a
pipeline that turns what the user says into candidates and candidates into memory; the
way back, from a query over the index to the prompt; the frame that is left of a
conversation when it grows too long; a persona state machine that chooses the mode of a
reply; and the programs that install, update, patch, restore and roll all of this back
on a user's machine.

This project models these parts. TLC checks them on small instances. TLAPS proves, for
every instance, every invariant and action property that the passing runs check; liveness
stays with TLC.

All paths below are relative to the repository; `pcltm/` stands for `packages/pcltm/`,
`persona_engine/` for `packages/persona_engine/`.

## 1. Inventory

### Governed memory

| Part | State it keeps | Operations | What makes it hard | What makes it correct |
|---|---|---|---|---|
| Policy kernel `pcltm/memory_policy.py` | none | `inherit_sensitivity`, `admit_write`, `resolve_transition`, `admit_access`, `admit_injection` | it decides for every service; a wrong answer is a stored row | a version is at least as sensitive as its sources; final states are final |
| Write service `pcltm/memory_write_service.py` | `memory_claims`, `memory_claim_versions`, `memory_claim_sources`, `memory_governance_events`, `memory_current`, `ingest_events`, `event_governance` | `write` (explicit assertion, or derived from chat events) | retries; two writers of one key; sources that the chat sync supersedes | the first version of a claim is written once; a retry finds it |
| Transition service `pcltm/memory_transition_service.py` | the same, and `memory_transition_receipts` | `replace`, `retire`, `expire` | compare-and-set of competing callers, retries after the claim moved on | one winner for each version; log and current row agree; a retry gets its receipt |
| Legacy promotion `pcltm/legacy_memory_promotion.py` | the same, from `memory_records` | `promote` of a batch | all or nothing; repeated with other keys | a record backs one version of one claim |
| Outbox `pcltm/projection_outbox.py`, job methods of `pcltm/store.py` | `projection_outbox` | enqueue, claim, ack, fail, obsolete | leases, retries, owners that come back late under the same worker id | committed work is never lost, nor done for the wrong version |
| Projectors `pcltm/projections/memory_fts.py`, `memory_memfs.py` | `memory_fts`, claim files, lock files, `memory_projection_guards` | `run_once` | SQLite and the file system cannot commit together; crashes; several roots | an applied job means the projection shows the authority's present word |
| Drain `pcltm/projections/memory_runtime.py` | a job budget | `drain_memory_projections` | several drains at once | returning without an exception means published |
| Rebuild `pcltm/memory_projection_rebuild.py` | none of its own | `rebuild_all_memory_projections` | runs beside drains and services; may stop half way | leaves nothing stale |
| Candidate pipeline `pcltm/candidates.py`, `pcltm/candidate_promotion.py`, the queue in `pcltm/store.py` | `candidate_promotion_receipts`, the queued `memory_records` | `extract`, `promote` (activate, supersede, retract, enqueue), `review_candidate`, `approve_pending` | each candidate takes several transactions: crashes, other hosts, reviewers, edits of the chat and projectors' guards come between them; an assertion's evidence changes under it | the commands of the chat add up, in the order they were said, to the memory in force; each gets one decision, and it is true; nothing is remembered on too little evidence |

These interact through the database only. A service commits the authority rows and the
outbox rows in one transaction (`BEGIN IMMEDIATE`, so services are serialised);
projectors read the authority in a transaction of their own, write their projection
and acknowledge the job. While a MemFS writer works on a claim it holds a lock file
(`flock`, one for each root and claim) and a guard row; triggers on `memory_current`
and on `memory_records` abort whatever would change the claim under it
(`pcltm/memory_schema.py:205-225`, `pcltm/ledger_schema.py:370-400`).

### Transcript and recall

| Part | State it keeps | Operations | What makes it hard | What makes it correct |
|---|---|---|---|---|
| Event ledger `pcltm/store.py`, `evidence_chain.py`, `ingest.py`, `hermes_history.py`, `zcode_history.py` | `events`, `ingest_events`, `event_revisions`, `event_governance`, the hash chain | adapters read the host's messages and upsert them by external id; `verify_event_chain` | two synchronizations with readings of different age; an edited message; damage that an open backfills | one history for each message; damage is noticed and blamed on the right row |
| Transcript projections `pcltm/projections/runtime.py`, `transcript_chunks.py`, `pcltm/transcript_chunker.py`, `transcript_search.py` | outbox rows of events, chunks, index rows | drain, cut, quote | the outbox protocol over two kinds; quotes across chunks | a job that is applied has been; every quote is found |
| Retrieval and injection `pcltm/memory_retrieval.py`, `semantic_claim_retrieval.py`, `pcltm/injection/` | none | search, admission, arbitration under a budget | search and injection are two transactions over an index that lags | nothing out of force, out of scope or too sensitive enters the prompt; the budget holds |
| Session state `pcltm/session/`, `pcltm/state/` | none; folds over raw turns | `update_from_turns`, `segment_turns`, `build_session_summary_chain` | asides, corrections, segments, lists with a cap | the task is the latest named; what is asked for is open or closed while the lists have room |
| Context engine `soul_link/hermes_plugin/context_engine.py`, sanitizer in `pcltm/context_engine.py` | the conversation | `compress`, also within a tool loop | what is cut depends on sizes; tool calls and results belong together | the frame is the latest request and its chain; a removed failure is archived |

### Persona and what runs beside the host

| Part | State it keeps | Operations | What makes it hard | What makes it correct |
|---|---|---|---|---|
| Routing `persona_engine/persona_orchestrator/` | mode, ambiguity counter | four layers vote on a message | each layer overrules the one before; the answer is that of the composition | no scene without the gate; a request for work gets work |
| Emotion `persona_engine/emotion_state_manager.py`, `emotion_calculator.py` | `STATE.md`, inertia in memory | read, compute, write if unchanged | processes share the file; computing is slow | no update is lost |
| Neural model `persona_engine/sentiment_analyzer.py` | the analyzer, a cooldown | `_try_load` | double-checked locking, failures | loaded once |
| Provider `soul_link/hermes_plugin/memory_provider.py` | fields of a turn, of a session, of nobody | `on_turn_start`, `prefetch`, `sync_turn`, session switches | starts delivered twice, failing starts, switches in between | a turn and a session get what is theirs |
| ZCode hooks `soul_link/zcode_hook.py`, `zcode_emotion.py`, `zcode_mcp.py`, `zcode_observer.py` | stop log, flag, emotion file, capsules, call log | session, tool, stop hooks; tool server; observer | each hook is a process that fails open | continuations are bounded; nothing is written unauthorised |
| Model router `packages/model_router` | shared configuration, audit rows, pid file | request threads, reload; start, stop | threads reload one object; a pid may be reused | a key goes to its own upstream; one audited answer |

### Programs that change the user's machine

| Part | State it keeps | Operations | What makes it hard | What makes it correct |
|---|---|---|---|---|
| Host update `soul_link/hermes_update.py` | lock file, recovery points, four trees | prepare, run, restore | stale locks; a receipt looked for minutes before it is written; a failed restore; crashes | reports are exact; a way back exists while it is needed |
| Deployment `soul_link/hermes_deploy.py`, `host_adaptation.py` | profile entries, patched sources, backups, receipts | install, verify, undo, rollback | two places are undone one after the other | undone is as before; a patched host can be brought back |
| Adapters `soul_link/codex_deploy.py`, `zcode_deploy.py` | managed parts in the user's files, backups, receipts | install, verify, rollback | the user edits the same files, inside the managed parts too | an undo is exact, and costs no words older than the run it undoes |
| Restore `pcltm/memory_restore_rehearsal.py` | bundle, restored, live and rollback directories | build, restore, switch, rollback | renames fail, a host has the files open | nothing written is lost |
| Gate `pcltm/continuity_gate.py` | artifacts, policy, pins, verdict, report | compare, promote, verify, evaluate | each input changes under the verdict; an old report that cannot be removed | what is promoted was judged under the policy in force; a verdict has its report |
| Migration reports `pcltm/legacy_shadow_migration.py`, `lineage_recovery.py` | snapshot, manifest, reports | classify, replay, recover | read beside writers in WAL mode | a report says nothing its rows do not bear out |

### Not modelled

| Part | Why |
|---|---|
| Older stores (`pcltm/memory_adapter.py`, `memfs_store.py`, `memory/`, `procedural/`, `adaptive_memory.py`) | text selection, scoring and file layout; heuristics, not a protocol |
| Classification and secrets (`classifier.py`, `secret_policy.py`, `semantic_index.py`, lexicons, `emotion_detector.py`) | string heuristics; their answers are inputs of the models |
| Governance runtime, reflection, defrag, doctor, audit, CLI; monitoring | reports and read-only views; no concurrent protocol |
| Persona state and anchors (`pcltm/persona/`) and the four floating-point dimensions of an emotion | numeric decay, out of TLC's reach |
| Host-neutral integration (`soul_link/integration/`), Codex's hook and tool server | facades without state of their own |

The share of the code that is left out is large: lexicons, scorers, formatting, file
formats and reports make up most of the implementation's lines.

`PROJECT.json` lists every component with its status, and under `hazards` what is hard
to test in this code, at its line, with the properties aimed at it. Three hazards have no
property that holds; their notes say why.

## 2. Modules

```
MemoryPolicy    ProjectionOutbox          values: decisions, job rows
   |     \          /        \
   |   MemoryAuthority ---- MemoryAuthority_proofs
   |      |      |    \---- MCMemoryAuthority
   |      |   MemoryProjection ---- MemoryProjection_proofs
   |      |      |     |     \---- MCMemoryProjection
   |      |      |  INSTANCE ... WITH
   |      |      |     |
   |      |      |  MemoryView
   |      |
   |   CandidatePromotion ---- Selections
   |              \---- MCCandidatePromotion ---- MCPromotionAlone -- CandidatePromotion_proofs
   |                                                |
   |                                           AssertionEvidence

TransitionTable -- PersonaRouting -- TurnProvider --\
EmotionState, SentimentLoader, HostHooks, ModelRouter --- MCPersona -- Persona_proofs

                 Selections            FoldLemmas (about folds, for the proofs)
                  |     |                |      |
ContextFrame, DialogueChain, GovernedRecall, ShadowMigration, LineageRecovery --- MCContext -- Context_proofs
TranscriptLedger, EvidenceChain, TranscriptChunker --- MCTranscript -- Transcript_proofs
HostUpdate, HermesDeployment, AdapterInstall,
MemoryRestore, ContinuityGate --- MCOperations -- Operations_proofs
```

**Governed memory**

* **MemoryPolicy**: the policy kernel as operators. No state.
* **ProjectionOutbox**: the outbox table as a value, a function from its UNIQUE key
  `<<projection_kind, claim, version>>` to job rows, and what each SQL statement makes
  of a row. A lease is `"live"` or `"expired"`, a retry time is due or not: that is all
  the queries compare.
* **MemoryAuthority**: one variable per table, one action per committing call (`Write`,
  `Replace`, `Lifecycle` for retire and expire, `Promote`, `SyncEvent` for a chat event
  that is edited, `WithdrawLegacy` for a record whose approval is taken back). A call is
  one transaction and so one step. What a call *returns* is the operator `WriteReply`,
  `ReplaceReply` or `LifecycleReply`: a refusal, or the replay of an earlier answer,
  leaves the tables alone and is a stuttering step. `answered` is a history
  variable, the receipt each request got when it committed, for the properties about
  retries.
* **MemoryProjection**: extends the authority with processes. A process drains
  (`ClaimFts`, `FtsApply`, `ClaimMemfs`, `Lock`, `TakeGuard`, `Read`, `ApplyFile`,
  `Ack`, `Release`, the two failure outcomes, `RoundEnd`) or rebuilds (`Rebuild`, the same
  drain, `Cleanup`). A step is one transaction, one lock call or one file operation;
  services, crashes and clock steps are interleaved between them.
* **MemoryView**: the abstract specification of a projection: truth, what is shown, and
  which claims count as done. `MemoryProjection` implements it twice, with
  `shown <- ftsRow` and with `shown <- files[root]`.
* **CandidatePromotion**: extends the authority with the hosts that run the sync hook and
  with reviewers. A host extracts the commands of its scope (`Extract`) and takes them one
  by one: the receipt in `processing` (`Begin`), then `Identity`, `CallWrite`, `Compare`,
  `Resolve`, `Supersede`, `CallReplace` for what `_activate` does, or `Retract`,
  `CallRetire`, or `Enqueue_Look`, `Enqueue_Insert`, and `Finalize`. A reviewer enters the
  same steps by `Approve` and leaves by `RecordApproval` and `MarkPromoted`, or rejects. A
  step is one transaction, or the reads between two; `Say`, `Edit`, `GuardOn`, `GuardOff`
  and `Crash` happen between any two of them. The calls are the authority's own actions
  with the requests the pipeline builds. Its abstract specification is the function
  `Remembered`: the memory that a list of commands leaves.
* **AssertionEvidence**: sentences that are not commands ("I like tea"). Their support is
  every message that states the same thing; it is looked up at extraction (`Gather`),
  at promotion (`Match`) and at approval (`AskApproval`), while people go on saying and editing things.
* **MemoryRestore**: a directory is the writes in its database and its parts; each
  directory operation of build, restore, switch and rollback is a step that may fail or be
  the last one, and a host with the database open writes wherever a rename has taken its
  file.
* **ContinuityGate**: candidate, policy, pins and verdict change independently;
  `Compare` and `VerifiedArtifact` are the code's two judgments, `judge` the older
  evaluator that leaves a report file. It first removes the report there is (`Clear`), which
  may fail or never be reached (`ClearFails`).

**Transcript and recall**

* **TranscriptLedger**: processes that read the host's database (`Look`), upsert what they
  read message by message (`Upsert`) and drain both projections (`ClaimChunk` ...
  `Finish`), with `Edit` by the host, `Remember` by the tools, crashes and time between any
  two steps. `source` is the host's database, `events` the append-only table, `live` the
  external id's current event.
* **EvidenceChain**: a hash is the value it is computed from, the row's schema version
  included. One row is damaged, lost or stripped of its hashes, and the store is opened
  again (`Open`, which enrols what it finds: `Enrolled`), before it is verified.
* **TranscriptChunker**: texts over the characters at which a chunk may end, the chunks,
  and the search for a quote across them.
* **GovernedRecall**: `authority` and `index` change between the three read steps of a
  prefetch (`Search`, `Inject`, `Deliver`), and `Open` reads one claim by its id.
* **DialogueChain**: the two folds over a session's turns. `AppendUnique` is the code's, with
  its caps: `MaxItems` (8) for what is open and for the chain's lists, `MaxClosed` (6) for
  what a segment closes, `MaxThreads` (4) for open threads.
* **ContextFrame**: a conversation that grows by any message and is compressed under any
  budget at any moment. `Compressed` is the whole of `compress`: sanitizer, tail, handoff,
  fallback and budget.
* **ShadowMigration**, **LineageRecovery**: the reports over legacy memory, beside writers of
  the tables they read. A record names a list of events, in `SourceLists`, with 0 for what is
  no id; a summary may cite events of any session.
* **Selections**: what `WHERE` and `ORDER BY` make of rows, as folds over sequences: `Only`
  keeps what satisfies a test, `Ascending` inserts row by row.

**Persona and what runs beside the host**

* **TransitionTable**: the rules of the decision table and the conditions applied to its
  answer. **PersonaRouting**: a message is the set of term lists it matches; `Answer` is the
  composition of the layers. Its properties quantify over all messages in every state.
* **TurnProvider**: extends PersonaRouting; the fields of the one provider object, with the
  number of the turn whose text they hold.
* **EmotionState**: read, compute and conditional write of several managers; the content of
  the file stands for its revision. **SentimentLoader**: the two looks, the lock and the
  cooldown of the load.
* **HostHooks**: hooks as processes, the files they share, the tool server's own
  permission, the observer's scan. **ModelRouter**: request threads over one configuration
  object; commands over one pid file.

**Programs that change the user's machine**

* **HostUpdate**: invocations around the lock file, a recovery point of four trees, and the
  restore with its compensation, tree by tree. Preparing a point is the look for the receipt
  (`Prepare`), an archive for each tree (`Archive`), and the receipt, which replaces whatever
  has that name by then (`Publish`) or is removed by that name (`PrepareFails`).
  **HermesDeployment**: the profile's entries,
  the host's sources, and the backup directory that holds the way back of both.
  **AdapterInstall**: a file is the user's words, the managed part, and what the user has
  written inside that part (`inner`), which a reinstall drops (`Merged`); the behaviour begins
  by choosing Codex or ZCode, whose installers are written alike.

**The MC modules** give the instances. Models that share no state are checked in one run by
a variable `part`, chosen in the initial state: the variables of a part that does not
run are constant (`"off"`), so a run's states are the sum of its parts and not their
product, and each invariant is asked of its own part.

Operators marked "Fault" are variants of a definition with a plausible bug in it. No
definition uses them; `PROJECT.json` pairs each with the property that notices it.

### What is abstracted

* A claim is its canonical key, an event inserted by a service its external id, and a
  body stands for its SHA-256: all three are UNIQUE or collision free in the code.
  `claim_id` order, where the rebuild needs it, is the order of first log entries.
* Chat events are given with their parsed command, body and sensitivity (`EventInfo`).
  A derived write may also cite a *stable assertion*, whose text may differ from the
  content; the authority's model requires equal content, and AssertionEvidence follows the
  differing ones.
* `mode_scope`, `injection_policy`, confidence, target and memory type decide nothing in the
  write path and are left out there; GovernedRecall has what they decide on the way back.
* The secret scan of a text is a refusal before anything is read.
* `_lifecycle` takes the first row of a join without ORDER BY. The model takes the first
  source, which is what SQLite returns for the query's index.
* Leaving the guard and leaving the lock are one step (`Release`): nobody else can act
  on that guard while the lock is held.
* SQLite errors in the FTS transaction are not modelled; I/O errors of the file
  operation are (`FileError`), as are crashes at any point. `atomic_write_text` is one
  step: the temporary file that a kill inside it leaves behind is not there.
* A command's candidate is its chat event, and the checks of a candidate against its event
  (`_matches_event_authority`, `_validate_candidate`) always hold for it. What the
  classifier thinks of a text is `CandidateInfo`: its key and whether it is dropped, queued
  or activated.
* The window of 500 messages is not bounded, an SQLite error other than the abort of a
  guard's trigger does not occur in the pipeline, and in the pipeline's model a projector
  is only the guard it takes.
* A size in ContextFrame is a number of units of 64 tokens, in GovernedRecall one or two
  units of a layer; an emotion is one deviation from the baseline; a time is whether a
  period has passed. Confidences in PersonaRouting are the constants of
  `routing_rules.yaml`, in hundredths.
* What an archive of a tree holds is the version of the tree it was taken of; the four
  trees change as a whole when a host is updated. A tree is archived in one step, and a
  restore takes its compensation point in one step (`Secure`).
* GovernedRecall ends with the layer: the trim of the rendered packet
  (`pcltm/injection/context_packet.py:90-92`) cannot fire at the provider's limit of 8 items
  and its budget.
* An event that is enrolled takes some columns from `ingest_events`; in EvidenceChain they are
  those of the row, as they are for the newest event of its message. For an older one the
  hash is another still, and the row verifies no better.
* Path, symlink and reparse-point checks are left out everywhere, as are file formats and
  the checks of a receipt's shape.

## 3. Runs, bounds, fairness

| Run | What it asks | Instance | States |
|---|---|---|---|
| `authority` | do log, current row, versions, receipts and outbox stay consistent under every order of calls; does a repeated call find what it did | 2 claims, 2 bodies, 3 keys, 2 chat events, 2 legacy records, 5 writes, 4 replaces, 4 retires/expires, 3 batches | 11 thousand |
| `projection_live` | do the files implement the view; is a clean drain a sound sign; is everything published in the end | 2 drains with one worker id on one root, 1 crash, 1 lost lease, fairness | 184 thousand |
| `projection_two_roots` | does the guard do alone what the lock cannot; does `memory_fts` implement the view; is current work never discarded | 2 drains of one job each on 2 roots, replace and expire, 1 crash | 911 thousand |
| `projection_rebuild` | is a rebuild exact beside a drain, also when it stops half way; is a file only written from an approved record | 1 rebuild, 1 drain, 1 promoted record and its withdrawal, 1 I/O error | 580 thousand |
| `promotion_alone` | does what one host leaves equal what was said; is an edited message ever evidence; what does an assertion rest on | 1 host, 5 messages (2 memory, 2 replace, 1 forget), 2 crashes, 1 edit; 2 promoters, 2 sessions, 3 wordings, 2 messages, 1 death | 2.1 million |
| `promotion_review` | does nothing uncertain take effect unasked; is a reported retraction real | 1 host, 1 reviewer, 4 messages of which 2 need a review, 1 crash | 574 thousand |
| `promotion_live` | does each command get one decision, and in the end | 2 hosts, memory and forget, 1 edit, 1 crash, 1 guard, fairness | 36 thousand |
| `operations` | is what is undone as it was before, and is there a way back; does a restore lose nothing; is what is promoted what was judged | 3 invocations (symmetric), 1 receipt, 1 fault; 2 backups, 2 databases, 2 changes; 2 installations with 2 receipts, 2 edits; 2 host writes, 2 breaks; 2 cases, 2 changes of policy or pins, comparisons of 11 nodes | 2.4 million |
| `persona` | what does any message lead to; does a turn get its own; do sharers lose or repeat anything | every message of three term lists; 2 sessions, 3 turns, 1 failure; 2 managers, 2 events; 3 threads; 2 hook sessions, 3 calls; 2 requests, 1 operator, 4 pids | 1.0 million |
| `context` | what is left of a conversation; what is a session about; does only valid memory reach the prompt; are the reports founded | 4 messages, budgets 0, 12, 24; 4 turns in segments of 2, 2 segments kept, lists of 2; 2 claims, 2 modes, 3 changes; 1 record, 2 events, lists of up to 2 sources; 4 table rows | 3.1 million |
| `transcript` | has a message one history and is it recallable in the end; is damage seen; is every quote found | 2 processes, 1 message, 1 assertion, 2 edits, 1 fault, fairness; 3 rows, any single damage; texts of 6 characters in chunks of 4 | 247 thousand |
| `context_user_lost` | a statement of the repository that the code does not keep (section 5) | as `context` | stops at a counterexample |

**Why the bounds are enough to be interesting.** `authority`: requests share idempotency
keys, expected versions and bodies, so each conflict of the code is reached: both orders
of replace and retire, a replay before and after a later change, a batch that is half
promoted. Every claim can reach version 3. There is no bound on the number of calls:
each request may come again at any time, and stops having an effect by the code's own
checks.

Projections: two processes are the fewest that can race; one claim is enough because
guards, locks and jobs are per claim (the order between claims is only the outbox
id), and the instance still has up to two versions and three log entries.
`MaxJobs = 2` lets the budget run out inside a pass and between passes;
`MaxAttempts = 2` lets jobs be dead-lettered. `MaxCrashes`, `MaxStalls`, `MaxIOErrors` and
`MaxRebuilds` bound faults, not work: drains restart for ever.

Pipeline: all messages are about one key, since the pipeline never relates two keys except
by the order of a batch. Three to five messages in every order give each pair of
commands in both orders, a claim that is created, replaced, forgotten and mentioned
again, and a third version. Two crashes let a repetition be repeated. Two hosts, or a
host and a reviewer, are the fewest that can promote one candidate twice. For assertions,
two messages in two sessions with three wordings are the least on which support can be
enough, too little, or edited away.

Host programs: three invocations are one that holds the lock, one that judges it stale,
and one that takes it meanwhile; with one receipt they prepare the same one. Two backups let a rollback meet an older and a newer
one. One installation after another with edits before, between and after them, inside the
managed part and outside it, is where a stale backup would do harm; with two receipts they
are rolled back in either order. In a restore two breaks are a failure and the failure of its undoing. In the
gate two cases let one be kept and the other lost; two changes let policy and pins change
between a verdict and its use, or back again; `Budget` is MAX_COMPARISON_NODES, small enough
to be exceeded.

Persona: the table and the layers are asked for *every* message of up to three term lists,
every opinion of the semantic classifier and every tier, in every memory, so the turns
only have to reach the memories; three turns are what the ambiguity rule counts to.
Operators of the router are one and orderly: the statement about the pid file is about
that (section 5).

Context: four messages hold a request, a call, its result and a continuation, or two
requests and a chain; three budgets are none, one that holds a small frame, and one that
holds a large one. Four turns make two segments, and with a task, an aside, a continuation
and a correction more texts than lists of two items hold, so the caps push items out; that
segments themselves are dropped (from the third on) is left to the proof. Two events are
the fewest of which one source can be good and the other not; the run begins with the
stores in which that shows (`AnyStore = FALSE`), the proof with any. The largest part of the
states are those stores. One memory, half of it, and another text are the wordings that decide
whether a text covers another.

Transcript: one message edited twice and one assertion are the least that two processes
can read in different states; with `MaxAttempts = 1` a failure gives a job up. Three rows
have a first, a middle and a last one to damage. Six characters make up to three chunks
of four with an overlap of two.

Deadlock is not checked where the environment is bounded and a behaviour ends when
everything has been said, changed or edited.

**Fairness.** `LiveSpec`: the host starts drains again (hooks run after every turn), a
process that runs keeps taking steps, leases and retry times pass. Nothing makes a
caller send a request and nothing makes a lease expire under a working process
(`Stall` is unfair). The repository schedules drains from every host hook and from
`remember`; that a host is in use at all is the assumption. `PipelineLiveSpec` assumes the
same of the sync hook: it is called again and again, also after it failed, a running
hook goes on, and a projector lets go of its guard (an assumption: section 5 has the
exception). `TranscriptSpec` assumes that `sync_turn` begins again after each turn, that a
process that has begun goes on unless it crashes, and that minutes pass (`Later`); nothing
makes the host edit or stop editing other than the bound.

**What the properties say.** Each one is stated in words above its definition.

* `authority`: `CurrentIsLogTip`, `LogChains`, `OnlyCurrentVersionLives`: the rows that
  separate statements write agree. `TransitionWinsOnce`, `FinalStatesAreFinal`: the
  compare-and-set has one winner and retirement is final. `SensitivityCoversSources`: no
  sequence of calls washes out sensitivity. `OutboxCoversCurrent`: no committed change
  without the work that publishes it. `RepetitionsSafe` (`LifecycleReplayStable`,
  `WriteReplayFindsClaim`, `LegacyOnce`): a repeated call finds its own answer and does
  nothing twice. `HistoryInv`: the inductive invariant of the proofs, with
  `AuthorityInv` in it.
* projections: `FtsImplementsView`, `FileImplementsView`: refinement of MemoryView.
  `WriteSeesAuthority`, `WritesApproved`: the guard. `DrainsInv` (the inductive invariant
  of the proofs, with `ProjTypeOK` and `ObsoleteIsStale`), `DrainOkPublished`, `RebuildOkExact`: outbox, drain, rebuild.
  `Converges`: everything is published for good.
* pipeline: `RecoverySafe` is `NewestWins` (the abstract specification, for a host alone,
  through crashes), `ReceiptNamesItsVersion` and `CandidateWritesOnce`: a repetition does
  nothing twice and reports what was done; they are about a lone host, since another one
  in between breaks them (section 5). `EvidenceSuffices` (`NothingOnHearsay`,
  `SlipsTellTheTruth`): what an assertion rests on and what its receipt says.
  `RetractedIsRetired`, `DecisionsAreFinal`: what is reported is true, and said once.
  `UnreviewedStaysOut`, `EditedIsNoEvidence`: no path leads around the review or the edit.
  `EverySaidDecided`: nothing said is left undecided.
* `operations`: `RestoreSafe` (`NothingLost`, `AnswersHold`, `AllOrNothing`), `GateSafe`
  (`PromotedIsJudged`, `VerdictHasItsReport`), `UpdateSafe` (`ReportsAreExact`, `WayBackKept`), `DeploySafe`
  (`UndoneIsBefore`, `PatchHasSource`), `InstallSafe` (`UndoExact`, `WordsKept`).
* `persona`: `RoutingSafe` (`SceneIsGuarded`, `WorkRequestWins`, `AmbiguityExpires`,
  `TableGuards`, `TableOnlyHolds`), `TurnsSafe` (`TurnsStaySeparate`,
  `ModeIsTheSessions`), `SharedSafe` (`UpdatesAreKept`, `BodyFollows`, `LoadsOnce`,
  `ContinuationsBounded`, `WritesAuthorised`, `KeyGoesHome`, `AnswerIsAudited`,
  `StartedIsOurs`).
* `context`: `FrameSafe` (`FrameIsCurrent`, `RequestIsTheUsers`, `FailsOnlyAlone`,
  `EvidenceKept`), `DialogueSafe` (`TaskIsTheLatestNamed`, `ChainAccounts`), `RecallSafe`
  (`InjectedIsInForce`, `AnswerIsCurrent`), `PromptIsFitted`, `ReportsSafe`
  (`ClassesAreFounded`, `VerdictIsOfItsFile`, `CorroborationIsUnambiguous`,
  `ChainsAreCited`).
* `transcript`: `LedgerSafe` (`OneHistory`, `AppliedIsThere`), `QuotesHold`
  (`DamageIsSeen`, `EveryQuoteIsFound`), `TranscriptConverges`.

What these say where the code gives up something: `WayBackKept` is claimed of an invocation
that was alone inside the lock for as long as it was inside, and `ReportsAreExact` of the
same ones. `WordsKept` bounds what an undo costs (what was written since the run it undoes
began) and says that no other step of an installer changes words outside the managed part.
`VerdictHasItsReport` lets an earlier "passed" stay only beside a run that gave no verdict
and could not remove it. `ChainAccounts` claims that each request of the kept turns is open
or closed where their texts fit the lists, and in every case that nothing is both.
`ClassesAreFounded` asks it of every source of a record. `ChainsAreCited` claims that a
summary cites one of the chain's events and is of the session of one, not that these are
the same one. `DamageIsSeen` also says what stays unseen: a lost last row after an open.

Several invariants are conjunctions of this kind, one for each part of a run. The type
invariant of a part is in one of them.

## 4. Theorems

Eight modules hold theorems, each for every value of the constants: any sets of claims,
bodies, keys, events, records, requests, processes and roots, finite or not, any wordings,
sizes and budgets, and any bound.

| Module | Proves of | Theorems |
|---|---|---|
| `MemoryAuthority_proofs` | `Spec` | `AuthorityInvariant` and its parts `TypeCorrect`, `CurrentFollowsLog`, `OneVersionLives`; `OneWinner`, `FinalStays`; `HistoryInvariant` and its parts `LogIsPath`, `ChangeHasJobs`, `SensitivityInherited`, `Repeatable` |
| `MemoryProjection_proofs` | `ProjSpec` | `AuthorityUndisturbed`, `DrainsApart`, `WriterSeesAuthority`, `WritesAreApproved`, `ObsoleteWorkIsStale`; `FtsRefines`, `FilesRefine`, `RebuildLeavesExact`, `DrainOkMeansPublished`, `DrainOkShowsInForce` |
| `CandidatePromotion_proofs` | `PipelineSpec`, and `AloneSpec`: a lone host, the assertions | `ReviewGuardsAuthority`, `RetractionIsReal`, `OneDecision`, `EditsWithdrawEvidence`; `RecoveryIsSafe`; `AssertionsHold`, `EvidenceIsEnough` |
| `Context_proofs` | `ContextSpec` | `FrameIsSafe`, `DialogueIsSafe`, `RecallIsSafe`, `PromptIsAlwaysFitted`, `ReportsAreSafe` |
| `Transcript_proofs` | `TranscriptSpec` | `LedgerIsSafe`, `QuotesAlwaysHold` |
| `Operations_proofs` | `OperationsSpec` | `GateHolds`, `UpdateHolds`, `DeploymentHolds`, `InstallHolds`, `RestoreHolds` |
| `Persona_proofs` | `PersonaSpec` | `RoutingHolds`, `TurnsHold`, `SharedHolds` |
| `FoldLemmas` | no specification | the lemmas on folds, selections and sorted sequences that the two proofs over sequences cite |

Each theorem names the property it is about; section 3 says what that is.

### The arguments

**Authority.** `CurrentIsLogTip` is not inductive alone: a `Write` of a free key is
only safe if no event of that key exists already, and that follows from
`EveryEventVersioned` (an event names an existing version) and `EveryVersionSourced` (a
version's claim has a current row). `OnlyCurrentVersionLives` needs the log to know that
the version a `Replace` leaves has its supersede event. `TransitionWinsOnce` follows from
`AnsweredAreSpent`: once a transition prepared against version n has committed, n is
below the current version, or current and no longer active, so no compare-and-set
against n succeeds again. `AuthorityInv` is the conjunction; the lemmas `WriteInv`,
`ReplaceInv`, `LifecycleInv`, `PromoteInv` and `ClaimsUnchangedInv` prove it for each
action. `Promote` inserts a batch at once; `PromoteFresh` shows that the positions it picks
name different free claims, after which the insertion is treated claim by claim.

**Its history.** `HistoryInv` adds to `AuthorityInv` what ties the other tables to it.
`OutboxCoversCurrent` needs `JobsAreCommitted` (a job carries the content of the version it
names). `SensitivityCoversSources` needs to know where sources come from
(`AssertionsAreIngested`, `LegacyStandsAlone`), because a source may be superseded later
but is never rewritten. `RepetitionsSafe` needs `WritesOnRecord` and `ReceiptsOnRecord`:
what a request was answered is still on record where a repetition looks for it, and
`IngestNamesRequests`: nobody else has taken its external id. Both invariants are
invariants of the run `authority`.

**Projections.** `DrainsInv` is inductive beside `AuthorityInv` and `SourcesInv`, which no
step of a drain breaks (`AuthorityUndisturbed`; a rebuild deletes jobs, so
`OutboxCoversCurrent` is not one of them there). `AttemptsApart` says that two processes
with one worker id never hold one attempt of a job, and `GuardHeld` that whoever is between
`TakeGuard` and `Release` has the guard row that makes services abort; from these the
snapshot stays true until the acknowledgement (`WriterCurrent`), whatever leases expire.

**Refinement.** The invariants `ViewsKept` and `WorkCovered` say of each claim that is not shown as it stands that its job
is open, or given up, or that a process which will see it is at work; a step of
`MemoryView` is then found for each step of a process. `MemoryView` shows one file for
each claim, so the theorems about files assume `SharedRoot`: every process has the same
root, which the runtime of one database gives them (with two roots each shows its own
view, and the run `projection_two_roots` asks what holds there). The choice of the least
open job, by claim order, is made by well-founded induction over the naturals that is
stated without an operator parameter. `DrainOkMeansPublished` assumes also that no rebuild
runs: TLC shows that beside one it is false (section 5, no. 12), and
`DrainOkShowsInForce`, without that hypothesis, is what remains true.

**Pipeline.** `PipeInv` says what a process holds between two of its transactions: a
candidate it may act on (`EntitledRow`: promoted at once, or approved), an outcome that is
so (`TruthfulRow`), a reviewer at a record it approved. Approvals and the end of a claim
are never taken back (`Later`), so these survive every step of the others. Nothing is
assumed of the batches a process may hold: their order is irrelevant to these properties.
`EvidenceInv` does the same for assertions, with `Lasting` for what no step takes back.

**A lone host.** `RecoveryIsSafe` needs the order of the batches, and an invariant (`Kept`)
that counts. The first n commands have their decision, the others have none, and of those
only the next may be in processing (`Progress`). A pass goes through what was said when
it began, in that order, and works on command n + 1 or skips a decided one (`Place`). The
memory is what the first n commands add up to, or already what the first n + 1 do
(`Adds`): a crash between the commit and the receipt leaves the second, and `ApplyTwice`
(a command that was carried out changes nothing when it is repeated) says that the
repetition is right in both cases. Once the process holds an outcome it is the second.
`Knows` says, for each program counter, that what was read is still so. Under it,
`TablesHold` ties the versions, the log, the current rows, the
receipts and the evidence together (`WritesHold`: until a candidate that wrote a version
has its decision, that version's content is the current one, so no second version is
written). The fold over all commands becomes a walk (`RememberSteps`, `AfterNext`). An edit
withdraws evidence, so `Adds` speaks of chats without one; the rest holds with edits.

**Operator programs.** `UpdInv` follows each invocation by itself: an invocation that
believes itself alone is alone (`AloneIsAlone`), and only of those does `TreesOK` say which
trees are restored already, and what is archived of the trees while they stand still.
`ArchiveIsFresh` says that a receipt in the making is never that of an update that was alone:
the look for it would have found that one. `StepSuffices` reduces the proof to what one step does to the
invocation that takes it. `DepInv` keeps that a backup's entries are those of before
(`BackupsTrue`) and what the running command can still undo (`CommandTrue`); `InsInv` keeps
the same for the files of an installer (`SavedTrue`), and that in every file that the run in
hand, or a receipt, manages are the words it has saved or words written since
(`RunWords`, `ReceiptWords`). `GateInv` needs that a verdict that
is not invalid is what the comparison gives for the three things it is bound to
(`VerdictOK`). `RestInv` says where the memory of before is: in the directory that a
switch has put aside while there is one, in the live one otherwise (`MainOK`). Copies,
bundles and the directories that an undo deletes hold, of what was written in peace,
nothing that this directory does not hold (`CopyOK`, `SwitchOK`, `BackOK`); that a bundle
comes before everything else (`BundleFirst`) keeps the first one from being taken of an
empty live directory.

**Persona.** `PersonaInv` is the invariant of the part that runs. The layers of the routing
are taken one after the other: each keeps what is `Sound` about a judgement, so that a
request for work is still one when the router sees it, and a crisis still forbids a scene
(`ClassifiedSound`, `DecisionSound`, `ResolvedSound`, `AnswerIsMode`). The table's stable
sort by priority becomes one number for each rule (`Key`); the least key of the matching
rules exists because the naturals are well founded, and `DecidingRule` says which rule it
can be for each kind of input. All of that is about every message, opinion and memory;
`AmbiguityExpires` alone needs an invariant, which counts what a work context was held for
(`RouteInv`). `ProvInv` adds to a turn that a field whose key is set belongs to a turn that
has started (`FieldsInv`), that what a turn felt is paid for by its failures (`FeltInv`), and
that every remembered mode is the last one of its own session, which is remembered once
(`ModesInv`). `EmoInv` knows of the copy a manager has read what the file once satisfied
(`JobOK`), so that a write which finds that copy again loses nothing. In `LoadInv` the last
load is under way, has succeeded, or its failure is remembered with its time; in
`HooksInv` a session is granted no more than its log counts; in `RouterInv` a
request carries base and key of one version, and its rows and answers follow its program
counter (`Recorded`).

**Folds.** What a loop of the code computes is a fold over a sequence, and the library
defines a fold as a CHOOSE of a recursive function. `FoldExists` shows that there is such a
function, by an induction over ranges that is stated about a set and so needs no operator
parameter (`RangeInduction`); `FoldWalk` turns the fold over n elements into a walk, a
function on 0..n that begins with the base and takes one step for each element. What
the loop keeps is then proved once, of its step. `OnlyIs` and `AscendingIs` say what a
selection and a sort return. Each fold has to be typed first: its elements and its
accumulator are given sets of values.

**Recall.** `RecallInv` says of what a search has found that it was in force when it was read,
and has changed its state since only under a governance id of its own (`ItemHolds`): so the
comparison of receipts in `Inject` cannot miss it. The admission is read once and every row is of one claim
(`OneOfEach`). The prompt is a walk over the items ranked, which keeps what it has spent
below the budget and, of each item it passed, that it is there, or its text, or that there was no
room for it.

**Reports.** What a replay over a snapshot holds between its reads is what each side says of
that snapshot (`ReplayHolds`), so its verdict is the one that anybody makes who replays it; a
replay over the store compares the file at its end with that of its beginning. A class is
founded in any content of the tables: `ReasonIs` says that sources without a fault are
events that are there, once each, sound and in force, and the cases of `Classify` do the
rest. No history is needed.

**Ledger.** `EventsHold` says that each revision but the first follows another one, that
says something else, with no event of that message between them (`HasFormer`), and that a message is known
by its last event, the only active one (`KnownByLast`). The history of a message, a
selection of the log, is then numbered without a gap. `JobsHold` and `ProcessHolds` carry
from step to step what a process is about to acknowledge: the chunks are there before the
acknowledgement.

**Chain and quotes.** `Told` says what each kind of damage leaves to be seen: the first row that
does not fit, and where; appending rows after it and opening the store keep that. A row
whose hashes were cleared is bad before the opening that enrols it for want of a hash, and
after it because it was hashed with the version it no longer has. A chain
without damage fits in every row, so the walk of `Verify` finds the first one that does not.
Chunks are cut so that each begins inside the one before and the last ends
with the text (`Spans`); a walk over all of them that keeps how far a quote is covered
(`CoveredTo`) therefore ends with the whole quote.

**Dialogue.** The state is the list of turns; both results are folds over it, so what is proved
holds of every list. For the active task the walk keeps the place of the last turn
that named one. For the summary chain, segments are cut so that together they are all the
turns. What a capped list loses it loses at its front, and only when it is full
(`AppendUnique`); so each step of a summary and of the chain keeps open and closed apart,
and where the texts fit the lists (`FitsAll`) it drops nothing.

**Frame.** `FrameInv` keeps that a conversation is one (`Sound`: a call names calls, a result
its call, an engine's own message is short), that it has at most three of the
engine's messages in front of at most `MaxMessages` others (`Headed`), and that what was
removed had been tried. Sanitizing and cutting only leave messages out: what of the turn stays is, cleaned,
at rising places of it (`Embeds`), from which a greedy match finds all of it (`MatchAll`); that is
`FrameIsCurrent`. Sizes add up over a concatenation (`SizeConcat`), so dropping
messages until the frame fits ends with a frame that fits or with one message alone
(`FailsOnlyAlone`).

### What the proofs changed

A CASE whose arms overlap chooses among them, and the prover takes it so, where TLC takes
the first arm that is true. The conditional content of the emotion file, the sanitizer of a
frame, the classification of shadow rows and `decide_route` had such arms; they now say
which one wins, as the `if`/`elif` chains of the code do. `StartedIsOurs` was true of the
instance only because it has one operator: its statement now says so.

Filters, sorts and sums over sequences were written with operators of the library whose
definitions the prover cannot enter, or with sets of functions. The selections of the rows,
the ranking of recall, the threads and tasks of DialogueChain and the turns of ContextFrame are now folds in
Selections, which is also how the loops of the code go. `Quotable` walks the chunks in their
order, as the search does, in place of asking for some sequence of them. The proof of
`ChainAccounts` fails for an instance that keeps no segment: `segments[-max_segments:]` with 0 is the
whole list, so `MaxSegments` is at least 1.

### Assumptions

The named assumptions of the modules type the constants and nothing else, and TLC
evaluates them in the runs: `EventInfoAssumption`, `LegacyInfoAssumption`,
`SourcesAssumption`, `RequestAssumption`, `MaxAttemptsAssumption`, `ProcsAssumption`,
`CandidateAssumption`, `AssertionAssumption`, `EnableAssumption`, `ProvAssumption`,
`LedgerAssumption`, `RecallAssumption`, `LineageAssumption` (a text that is compared has
words, finitely many), and otherwise that bounds are numbers, that there is a case, and that
the values for "none" are none of the others. Those that say more: a chunk's overlap is smaller than
a chunk (`ChunkerAssumption`, checked by the code), an attempt is allowed
(`MaxAttempts`), and a summary chain keeps a segment (`DialogueAssumption`, see above). The
hypotheses of the theorems about the refinement are named above.

`RecoveryIsSafe` assumes `Lone`, which the run states in its configuration (one host, which
extracts every session; no reviewer, and no projector's guard), and `NoSecrets`: a
command that is activated at once is not classified as secret. The classifier gives a text that holds a secret
`retrieve_only` (`pcltm/classifier.py:308`), of which no candidate is made
(`pcltm/candidates.py:68`), and the history hands the user's messages over as `normal`
(`pcltm/hermes_history.py:136`). The authority would refuse such a write, and the command
would be missing from the memory. `TurnsSafe` is stated, and
proved, of a provider whose state machine runs without the decision table
(`SOULLINK_ENABLE_BOUNDED_ACTIVATION` is off unless set, `transition_manager_v2.py:35`).

### Only model-checked

* Liveness: `Converges`, `EverySaidDecided`, `TranscriptConverges` (fairness and ENABLED
  are out of the prover's reach).
* What the properties named in section 5 say: they do not hold.

## 5. Where the code and its own statements differ

One divergence is kept as a run. `context_user_lost`: the docstring of `compress`
(`soul_link/hermes_plugin/context_engine.py:619`) and `README.md:574` promise that the
latest request of the user stays in the frame. When the rebuilt frame is no shorter than the
conversation, lines 678-687 drop its first message that is not a system message, and in a
conversation that already is one turn this is the user's own message; the request budget
takes it the same way. `LatestUserStays` fails.

The following were met while the models were written. Each that names a property is stated
next to the model it is about and does not hold there, which TLC shows when that model's
specification is run alone with the name in the configuration; no run is kept for it.

**Governed memory**

1. *A claim derived from several events cannot be retired* (`LifecycleAnswered`). `write`
   commits its outbox rows to the last source (`memory_write_service.py:382`), `_lifecycle`
   to the first (`memory_transition_service.py:169`); `enqueue_memory_projections` raises
   "projection commitment conflict". `docs/memory-authority-contract.md:26` promises
   "versioned replace/retire/expire transitions with CAS receipts".
2. *A guard can outlive everyone* (`GuardsAreEphemeral`). `memory_schema.py:297` calls
   guards "ephemeral coordination state". `_projection_guard` does not check the lease
   (`projections/memory_memfs.py:158-220`), so a writer whose job was meanwhile reopened
   by a retire and finished by another drain can take the guard and crash; no job is
   left that would lead anyone to remove it, and rebuilds refuse while it stands. With a
   lost lease in place of the retire the claim is left active and unchangeable.
3. *"Identical content already active" of a claim that is not active*
   (`AlreadyActiveIsActive`). The query of `_supersede` (`candidate_promotion.py:583-590`)
   does not ask for the state, so memory x, forget, replace x ends with a receipt
   `activated` and nothing in force.
4. *A forget can end the pass of the others* (`BatchIsolated`).
   `candidate_promotion.py:448` calls batch isolation the API contract and catches what
   `_activate` raises; `_retract` is called before it (`:442-443`), and the abort of a
   guard's trigger leaves `promote`. The next call of the hook goes on (`promotion_live`).
5. *A rejected record can be in force* (`RejectedNotAuthoritative`). `README.md:231` says
   that rejected records remain non-authoritative. `review_candidate` asks for no status:
   it rejects a record whose claim is in force, and approves one that was rejected.
6. *The replay of a derived replace* looks up the event
   (`memory_transition_service.py:288-307`), and one chat event may back several
   activations: a repetition can be answered with another claim's version.
   `tests/pcltm/test_memory_transition_service.py:166` asserts `first == second`.
7. *A pass that only finalizes obsolete jobs is not progress*
   (`projections/memory_runtime.py:50-65`), so a drain over a claim that was replaced
   before it was projected raises "drain limit reached" without reaching its limit.
8. *An older replace comes back.* A replace that created its claim leaves no row
   `memory-replace:...` behind. Repeated after a crash and after another session's
   replace, it finds other content and puts its own old content in force again
   (`candidate_promotion.py:606`).
9. A memory command that compares its content with the claim after another process has
   replaced it is reported as a duplicate of the version before
   (`candidate_promotion.py:480-529`). An approved forget retires its claim, but
   `retracted` is not a granted decision: the receipt and the record stay pending and the
   review raises, each time. A forget whose message was edited away still retires the
   claim. A replace that meets a guard is finalized as `error` and never tried again.
10. Assertions: one that needs no confirmation loses its own candidate when it is said
    again in weaker words before the next pass (`StrongWordsCount`). An event that was
    superseded still counts among an assertion's supporters, so that the first write is
    rejected every time. Each new supporting message makes the pending record
    unapprovable and enqueues another. What governs the sources is asked only while the
    key is free.
11. A kill inside `atomic_write_text` (`memfs_store.py:33`) leaves a temporary file in the
    claims directory, which `_validate_claims_directory`
    (`memory_projection_rebuild.py:134`) refuses from then on.
12. *A drain beside a rebuild can be early.* While a rebuild stands between its authority
    transaction, which deletes every job and enqueues those of the claims in force anew
    (`memory_projection_rebuild.py:232-237`), and its cleanup of the files, a drain of another
    process returns without an error although such a file is still there
    (`DrainOkPublished` with `MaxRebuilds = 1`). What holds then is
    `DrainOkShowsInForce`.

**Transcript and recall**

13. *A lost row is not seen* (`LossIsSeen`): every open runs `_backfill_legacy_evidence`
    (`ledger_schema.py:404-572`), after which a ledger without its last row verifies;
    `tests/pcltm/test_evidence_ledger_schema_migration.py:48` and the docstring of
    `transcript_search.py` expect the loss to be noticed. Damage of a text or its metadata,
    on the other hand, makes every later open raise. *A row enrolled from today's schema never
    verifies*: the backfill hashes a row without hashes with the `schema_version` and
    `source_revision` it has (`:449-470`) and then stores 9 and 1 (`:489-500`). For a row that
    had 10, `verify_event_chain` finds it bad from then on, and the next open raises.
14. The Hermes adapter puts the persona mode in the source hash
    (`hermes_history.py:91`): a message is ingested again when the mode changes, and one
    command can become two claims. An adapter's requirement can fail although its event is
    committed (`ingest.py:65`). Exact search takes the newest rows before policy
    (`transcript_search.py:88`).
15. A search's limit is applied before policy; one stale row makes a search unavailable,
    and one claim without a type gives up the whole injection. `selected_records` lists
    what was dropped from the prompt (`memory_provider.py:757-770`).
16. `ReplayIsOneMoment` (`docs/memory-authority-contract.md:38`): over the store itself the
    two sides of a replay may see different commits. `ChainsAreFound`: a better message
    without events hides the chain of another one.
17. `compress`: over a budget an assistant's call is skipped while its small result stays; a
    request that only says to go on loses its binding at the second compress; a pending
    capsule makes a frame grow; a user's text that quotes a handoff marker is not taken for a request by the engine;
    evidence that could not be archived is never tried again. The summary chain closes a
    bare continuation in place of the task it continues. Its lists are capped at their front
    (`session_summary_chain.py:31`): the ninth open request drops the first, which no list
    has any more, and one that is asked for again keeps its old place and goes before the
    younger ones; a segment notes six closed items and a dialogue four open threads
    (`update_active_dialogue.py:106`). A recovered chain may hold a summary that cites an
    event of another session than its own: the ids of a summary are tied to no session
    (`lineage_recovery.py:229-238`).

**Persona and hosts**

18. *The decision table does not preserve the behaviour* (`TableKeepsBehaviour`,
    `transition_policy.py:171`), and inputs match several rules (`MatchIsUnique`). The
    table errs only by holding the work context (`TableOnlyHolds`).
19. *A capture can name another turn's memories* (`CaptureIsOneTurn`,
    `memory_provider.py:529`). An emotion is updated twice when a start fails after its
    update and is delivered again. A turn's mode is not loaded again once one is trusted.
20. ZCode: with the emotion layer off, the flag left behind still keeps sessions going
    (`DisabledIsSilent`, `zcode_emotion.py:79`); two sessions can leave an older decision
    in the flag (`FlagTellsMood`); the observer looks at the oldest records of the newest
    file (`ObserverSeesNewest`, `zcode_observer.py:7`). The emotion capsule is called
    retrievable (`zcode_emotion.py:12`) through a search that is retired. Codex's `remember`
    ends in a function that only raises (`memory_adapter.py:1680`).
21. Router: a thread that read an older file may set the shared configuration last
    (`RoutedFresh`, `app.py:7`), and a success whose audit row cannot be written is answered
    with 502 (`SuccessIsAnswered`). `StartedIsOurs` is true of one operator who waits, and stated
    of that; with two, or with `Orderly = FALSE`, `start` reports a process that does not serve.
22. Update: two invocations can both judge a lock stale, and one removes the other's new
    lock (`OneUpdater`, `hermes_update.py:87-124`). Two that prepare the same receipt then
    both find its path free; the second replaces the receipt of the first (`:257`), whose
    trees may be changed already, or its failure removes it (`:262`): the way back of the
    first is gone. A restore over a host that a killed one has moved aside can only end with
    "repair required" (`RepairOnlyAfterFault`). The installers write their receipt last, so a crash leaves an installation without one (`ReceiptCoversInstall`,
    `README.md:441`; `ReceiptBeforeMutation`, `adapters/hermes/README.md:175`). ZCode's
    verify reads AGENTS.md before it asks whether it is there (`zcode_deploy.py:261`). A
    reinstall drops what the user put inside a managed part: a handler in a managed hook group
    (`zcode_deploy.py:333`, `:510-522`; `codex_deploy.py:280`), lines between the markers
    (`codex_deploy.py:268-273`). A failed run and a rollback restore whole files
    (`zcode_deploy.py:425-438`), so what the user wrote since the run began is overwritten,
    and receipts rolled back in another order than they were made bring back words older than
    that; `WordsKept` is stated of what remains.
23. Restore: a kill between the two renames of a switch leaves no live directory, and a
    host that starts then makes an empty one (`LiveIsWhole`). Gate: a failure of severity
    warning does not block the comparison but fails the consumer's verification
    (`WarningsDoNotBlock`, `docs/continuity-preservation-gate.md:85`). An evaluator that cannot
    remove the earlier report (`continuity_gate.py:665-668`, exit code 3), or is killed before
    it does, leaves it: a "passed" of an earlier run beside the present one's exit code.

## 6. Plan

Done: policy and outbox, the authority and its proofs, the projectors with refinement and
liveness, the candidate pipeline; then assertions, restore and gate, the transcript, recall
and context, the persona engine and the hosts' hooks, the router, and the programs that
install and update.

Proved: every invariant and action property of the passing runs, both refinements
of MemoryView, and the lemmas on folds, selections and sorts.

Left, in order of what matters to the system:

1. `CandidatePromotion` composed with `MemoryProjection` (the provider drains only when a
   report activated or superseded something, `memory_provider.py:943`), and with
   `TranscriptLedger` in place of `Say` and `Edit`.
2. Multi-source claims in the projection runs.

## 7. Running it

```
tlc -config Authority.cfg MCMemoryAuthority
tlc -config ProjectionLive.cfg MCMemoryProjection       # and ProjectionTwoRoots.cfg, ProjectionRebuild.cfg
tlc -config PromotionAlone.cfg MCPromotionAlone
tlc -config PromotionReview.cfg MCCandidatePromotion    # and PromotionLive.cfg
tlc -config Operations.cfg MCOperations
tlc -config Persona.cfg MCPersona
tlc -config Context.cfg MCContext                       # and ContextUserLost.cfg
tlc -config Transcript.cfg MCTranscript
tlapm MemoryAuthority_proofs.tla          # and MemoryProjection_proofs.tla
tlapm CandidatePromotion_proofs.tla       # the pipeline and the assertions
tlapm Operations_proofs.tla               # and Persona_proofs.tla
tlapm Context_proofs.tla                  # and Transcript_proofs.tla
tlapm FoldLemmas.tla
```

Each proof module is checked on its own. `Operations_proofs`, `Persona_proofs` and
`Context_proofs` take five to fifteen minutes on two cores, the others less.

-------------------------- MODULE TranscriptLedger --------------------------
(***************************************************************************)
(* The transcript: the host's messages mirrored into append-only events    *)
(* (packages/pcltm/store.py, hermes_history.py, zcode_history.py and       *)
(* ingest.py) and the two projections that make an event recallable        *)
(* (projections/runtime.py and transcript_chunks.py, transcript_search.py).*)
(*                                                                         *)
(* Several processes synchronize at once: each opens the store, reads the  *)
(* host's database, upserts what it read message by message and drains the *)
(* outbox, and may stop at any point.  Meanwhile the host edits messages   *)
(* and the memory tools append assertions of their own.                    *)
(*                                                                         *)
(* One action is one transaction.  An event's place in the sequence is its *)
(* id; EvidenceChain has its hashes and TranscriptChunker its chunks.      *)
(***************************************************************************)
EXTENDS Naturals, Selections

CONSTANTS
    Messages,    \* message ids of the host, read in this order
    Assertions,  \* external ids of what the memory tools assert
    Contents,    \* bound: what a message may say
    Syncs,       \* processes that synchronize
    ModeOf,      \* Syncs -> the persona mode it runs in
    HashesMode,  \* TRUE for Hermes, whose source hash has the mode in it
    Strict,      \* the processes that are an ingest adapter
    MaxAttempts, \* max_attempts of fail_projection_job
    MaxInputs,   \* bound: edits by the host and assertions
    MaxFaults    \* bound: crashes, leases lost by a live owner, failing transactions

ASSUME LedgerAssumption ==
    /\ Messages \subseteq Nat /\ Messages \cap Assertions = {}
    /\ Strict \subseteq Syncs
    /\ MaxAttempts \in Nat \ {0} /\ {MaxInputs, MaxFaults} \subseteq Nat

VARIABLES
    source,   \* the host's database: message -> what it says, or "none"
    inputs,   \* the number of edits and assertions
    events,   \* events with their revision and latest governance state
    live,     \* ingest_events: external id -> event id, or 0
    jobs,     \* projection_outbox: event id -> kind -> job
    chunked,  \* event_chunks: events that have their chunks
    indexed,  \* event_fts: events that have their row
    sync,     \* the processes
    faults    \* the number of faults

ledgerVars == <<source, inputs, events, live, jobs, chunked, indexed, sync, faults>>

Projections == {"chunks", "fts"}

\* A pending job is due, or waits for its retry time; a claimed one is
\* processing, or its lease has expired.
NewJob == [k \in Projections |-> [status |-> "due", tries |-> 0]]

Resting == [phase |-> "idle", read |-> [m \in Messages |-> "none"], todo |-> {}, seen |-> FALSE,
            made |-> 0, held |-> <<>>, answer |-> "none"]
Fails(s) == sync' = [sync EXCEPT ![s] = Resting]

Least(S) == CHOOSE x \in S : \A y \in S : x <= y

-----------------------------------------------------------------------------
(* The host and the memory tools *)

Edit(m, text) ==
    /\ inputs < MaxInputs
    /\ source[m] # text
    /\ source' = [source EXCEPT ![m] = text]
    /\ inputs' = inputs + 1
    /\ UNCHANGED <<events, live, jobs, chunked, indexed, sync, faults>>

\* _insert_event_row, event_revisions, ingest_events and the outbox rows.
Appended(before, x, rev, text, mode) ==
    /\ events' = Append(before, [of |-> x, rev |-> rev, text |-> text, mode |-> mode, state |-> "active"])
    /\ live' = [live EXCEPT ![x] = Len(events) + 1]
    /\ jobs' = Append(jobs, NewJob)

\* ingest_external_event_in_transaction: the index row is left to the next
\* process that opens the store.
Remember(x) ==
    /\ inputs < MaxInputs
    /\ live[x] = 0
    /\ Appended(events, x, 1, "said", "default")
    /\ inputs' = inputs + 1
    /\ UNCHANGED <<source, chunked, indexed, sync, faults>>

-----------------------------------------------------------------------------
(* A synchronization *)

\* EventStore's bootstrap makes event_fts whole; the host is read in one
\* statement; an adapter is given one message.
Start(s) ==
    /\ sync[s].phase = "idle"
    /\ indexed' = DOMAIN events
    /\ \E todo \in IF s \in Strict THEN {{m} : m \in Messages} ELSE {Messages} :
         sync' = [sync EXCEPT ![s] =
                    [Resting EXCEPT !.phase = "look",
                                    !.read = [m \in Messages |-> IF m \in todo THEN source[m] ELSE "none"],
                                    !.todo = {m \in todo : source[m] # "none"}]]
    /\ UNCHANGED <<source, inputs, events, live, jobs, chunked, faults>>

\* The source hash of what s has read is that of the live event.
SameHash(s, m) ==
    /\ events[live[m]].text = sync[s].read[m]
    /\ HashesMode => events[live[m]].mode = ModeOf[s]

\* s is done with m, whose event is e; an adapter remembers it.
Past(s, m, e) ==
    [sync[s] EXCEPT !.phase = "look", !.todo = @ \ {m}, !.read[m] = "none", !.seen = FALSE,
                    !.made = IF s \in Strict THEN e ELSE 0]

\* upsert_external_event before its transaction: what is unchanged is left.
Look(s) ==
    /\ sync[s].phase = "look" /\ sync[s].todo # {}
    /\ LET m == Least(sync[s].todo)
       IN  sync' = [sync EXCEPT ![s] =
                      IF live[m] # 0 /\ SameHash(s, m)
                        THEN Past(s, m, live[m])
                        ELSE [@ EXCEPT !.phase = "upsert", !.seen = live[m] # 0]]
    /\ UNCHANGED <<source, inputs, events, live, jobs, chunked, indexed, faults>>

\* Fault: only whether it is there is looked up again.
SettledBlind(s, m) == live[m] # 0 /\ ~sync[s].seen

(***************************************************************************)
(* Inside the transaction the message is looked up again.  One that was    *)
(* not there before is left as it is found, whatever it says.              *)
(***************************************************************************)
Settled(s, m) == live[m] # 0 /\ (~sync[s].seen \/ SameHash(s, m))

\* Fault: no governance row ends the revision before.
WithoutFormerNot(m) == events

\* The revision before is superseded, never changed.
WithoutFormer(m) == IF live[m] = 0 THEN events ELSE [events EXCEPT ![live[m]].state = "superseded"]

Upsert(s) ==
    /\ sync[s].phase = "upsert"
    /\ LET m == Least(sync[s].todo)
           done(e) == sync' = [sync EXCEPT ![s] = Past(s, m, e)]
       IN  IF Settled(s, m)
             THEN done(live[m]) /\ UNCHANGED <<events, live, jobs, indexed>>
             ELSE /\ Appended(WithoutFormer(m), m, IF live[m] = 0 THEN 1 ELSE events[live[m]].rev + 1,
                              sync[s].read[m], ModeOf[s])
                  /\ indexed' = indexed \cup {Len(events) + 1}
                  /\ done(Len(events) + 1)
    /\ UNCHANGED <<source, inputs, chunked, faults>>

-----------------------------------------------------------------------------
(* The drain: chunk jobs one by one, then the index jobs in one batch *)

\* Fault: a lease that has expired is nobody's.
DuePending(k) == {e \in DOMAIN jobs : jobs[e][k].status = "due"}

\* Pending jobs, and those whose owner's lease has expired.
Due(k) == {e \in DOMAIN jobs : jobs[e][k].status \in {"due", "expired"}}
Claim(k, E) == [e \in DOMAIN jobs |-> IF e \in E THEN [jobs[e] EXCEPT ![k] = [status |-> "processing",
                                                                            tries |-> @.tries + 1]]
                                      ELSE jobs[e]]
Held(k, E) == LET oldest == Ascending(E)
              IN  [i \in DOMAIN oldest |-> [event |-> oldest[i], try |-> jobs[oldest[i]][k].tries + 1]]

Draining(s) == sync[s].phase = "look" /\ sync[s].todo = {}

\* TranscriptChunkProjector.run_once claims the oldest job.
ClaimChunk(s) ==
    /\ Draining(s) /\ Due("chunks") # {}
    /\ LET e == Least(Due("chunks"))
       IN  /\ jobs' = Claim("chunks", {e})
           /\ sync' = [sync EXCEPT ![s] = [@ EXCEPT !.phase = "chunk", !.held = Held("chunks", {e})]]
    /\ UNCHANGED <<source, inputs, events, live, chunked, indexed, faults>>

\* Fault: what is acknowledged has not been written.
ChunkedNot(e) == chunked

\* Its chunks are replaced in one transaction.
Chunked(e) == chunked \cup {e}

Chunk(s) ==
    /\ sync[s].phase = "chunk"
    /\ chunked' = Chunked(sync[s].held[1].event)
    /\ sync' = [sync EXCEPT ![s].phase = "ack"]
    /\ UNCHANGED <<source, inputs, events, live, jobs, indexed, faults>>

\* The attempt that holds the lease, or the one that has been acknowledged.
Owns(k, h) == jobs[h.event][k].status \in {"processing", "expired", "applied"}
                /\ jobs[h.event][k].tries = h.try

Acked(k, h) == jobs' = [jobs EXCEPT ![h.event][k].status = "applied"]

\* A lease that was lost ends the drain with an error, here and below.
AckChunk(s) ==
    /\ sync[s].phase = "ack"
    /\ IF Owns("chunks", sync[s].held[1])
         THEN /\ Acked("chunks", sync[s].held[1])
              /\ sync' = [sync EXCEPT ![s] = [@ EXCEPT !.phase = "look", !.held = <<>>]]
         ELSE jobs' = jobs /\ Fails(s)
    /\ UNCHANGED <<source, inputs, events, live, chunked, indexed, faults>>

\* The transaction fails: the job waits, or is given up.
ChunkFails(s) ==
    /\ sync[s].phase = "chunk" /\ faults < MaxFaults
    /\ faults' = faults + 1
    /\ LET h == sync[s].held[1]
           after == IF h.try >= MaxAttempts THEN "dead" ELSE "waiting"
       IN  jobs' = IF Owns("chunks", h) THEN [jobs EXCEPT ![h.event].chunks.status = after] ELSE jobs
    /\ Fails(s)
    /\ UNCHANGED <<source, inputs, events, live, chunked, indexed>>

ClaimIndex(s) ==
    /\ Draining(s) /\ Due("chunks") = {} /\ Due("fts") # {}
    /\ jobs' = Claim("fts", Due("fts"))
    /\ sync' = [sync EXCEPT ![s] = [@ EXCEPT !.phase = "index", !.held = Held("fts", Due("fts"))]]
    /\ UNCHANGED <<source, inputs, events, live, chunked, indexed, faults>>

\* _apply_fts_job finds the row or raises, and the rest of the batch is left.
Index(s) ==
    /\ sync[s].phase = "index"
    /\ LET h == Head(sync[s].held)
           rest == Tail(sync[s].held)
       IN  IF h.event \in indexed /\ Owns("fts", h)
             THEN /\ Acked("fts", h)
                  /\ sync' = [sync EXCEPT ![s].held = rest,
                                          ![s].phase = IF rest = <<>> THEN "look" ELSE @]
             ELSE jobs' = jobs /\ Fails(s)
    /\ UNCHANGED <<source, inputs, events, live, chunked, indexed, faults>>

\* Fault: an adapter does not ask for the projections.
ConvergedNot(s) == TRUE

\* require_transcript_projections_applied, by an adapter alone.
Converged(s) ==
    s \in Strict /\ sync[s].made # 0 => \A k \in Projections : jobs[sync[s].made][k].status = "applied"

Finish(s) ==
    /\ Draining(s) /\ Due("chunks") = {} /\ Due("fts") = {}
    /\ IF Converged(s)
         THEN sync' = [sync EXCEPT ![s] = [Resting EXCEPT !.made = sync[s].made, !.answer = "ok"]]
         ELSE Fails(s)
    /\ UNCHANGED <<source, inputs, events, live, jobs, chunked, indexed, faults>>

-----------------------------------------------------------------------------
(* Faults and time *)

Crash(s) ==
    /\ sync[s].phase # "idle" /\ faults < MaxFaults
    /\ faults' = faults + 1
    /\ Fails(s)
    /\ UNCHANGED <<source, inputs, events, live, jobs, chunked, indexed>>

Holds(s, k, e) ==
    /\ sync[s].phase \in IF k = "chunks" THEN {"chunk", "ack"} ELSE {"index"}
    /\ \E i \in DOMAIN sync[s].held : sync[s].held[i] = [event |-> e, try |-> jobs[e][k].tries]

\* A minute has passed; an owner that is still at work is slow.
Later(k, e) ==
    /\ UNCHANGED <<source, inputs, events, live, chunked, indexed, sync>>
    /\ \/ /\ jobs[e][k].status = "waiting"
          /\ jobs' = [jobs EXCEPT ![e][k].status = "due"]
          /\ UNCHANGED faults
       \/ /\ jobs[e][k].status = "processing"
          /\ \A s \in Syncs : ~Holds(s, k, e)
          /\ jobs' = [jobs EXCEPT ![e][k].status = "expired"]
          /\ UNCHANGED faults
       \/ /\ jobs[e][k].status = "processing" /\ faults < MaxFaults
          /\ \E s \in Syncs : Holds(s, k, e)
          /\ jobs' = [jobs EXCEPT ![e][k].status = "expired"]
          /\ faults' = faults + 1

-----------------------------------------------------------------------------

LedgerInit ==
    /\ source = [m \in Messages |-> "none"]
    /\ inputs = 0
    /\ events = <<>> /\ jobs = <<>>
    /\ live = [x \in Messages \cup Assertions |-> 0]
    /\ chunked = {} /\ indexed = {}
    /\ sync = [s \in Syncs |-> Resting]
    /\ faults = 0

Step(s) ==
    \/ Look(s) \/ Upsert(s)
    \/ ClaimChunk(s) \/ Chunk(s) \/ AckChunk(s)
    \/ ClaimIndex(s) \/ Index(s) \/ Finish(s)

TimePasses == \E k \in Projections, e \in DOMAIN jobs : Later(k, e)

LedgerNext ==
    \/ \E m \in Messages, text \in Contents : Edit(m, text)
    \/ \E x \in Assertions : Remember(x)
    \/ \E s \in Syncs : Start(s) \/ Step(s) \/ ChunkFails(s) \/ Crash(s)
    \/ TimePasses

LedgerSpec == LedgerInit /\ [][LedgerNext]_ledgerVars

(***************************************************************************)
(* A process that runs goes on, minutes pass, and the host has another     *)
(* turn: after each of them sync_turn begins again (memory_provider.py).   *)
(***************************************************************************)
LedgerFairness ==
    /\ \A s \in Syncs : WF_ledgerVars(Start(s)) /\ WF_ledgerVars(Step(s))
    /\ \A k \in Projections, e \in 1..6 : WF_ledgerVars(e \in DOMAIN jobs /\ Later(k, e))

LedgerLiveSpec == LedgerSpec /\ LedgerFairness

-----------------------------------------------------------------------------
(* Properties *)

LedgerTypeOK ==
    /\ source \in [Messages -> Contents \cup {"none"}]
    /\ inputs \in 0..MaxInputs /\ faults \in 0..MaxFaults
    /\ \A e \in DOMAIN events : events[e].of \in Messages \cup Assertions /\ events[e].rev \in 1..e
    /\ live \in [Messages \cup Assertions -> 0..Len(events)]
    /\ DOMAIN jobs = DOMAIN events
    /\ chunked \subseteq DOMAIN events /\ indexed \subseteq DOMAIN events

RevisionsOf(x) == Ascending({e \in DOMAIN events : events[e].of = x})

(***************************************************************************)
(* Of what was once read nothing is lost, and two processes that find the  *)
(* same message at once leave one history of it: revisions 1, 2, ... with  *)
(* no gap, each ended by the next, no two in a row the same, and the last  *)
(* is the one the message is known by.                                     *)
(***************************************************************************)
OneHistory ==
    \A x \in Messages \cup Assertions :
      LET revs == RevisionsOf(x)
      IN  /\ live[x] = IF revs = <<>> THEN 0 ELSE revs[Len(revs)]
          /\ \A i \in DOMAIN revs :
               /\ events[revs[i]].rev = i
               /\ events[revs[i]].state = IF i = Len(revs) THEN "active" ELSE "superseded"
               /\ i > 1 => \/ events[revs[i]].text # events[revs[i - 1]].text
                           \/ events[revs[i]].mode # events[revs[i - 1]].mode

\* search_exact_evidence in a mode: the events it can quote.
Recallable(mode) ==
    {e \in DOMAIN events : events[e].state = "active" /\ events[e].mode = mode /\ e \in chunked}

(***************************************************************************)
(* A job that is applied has been: its event has its chunks, or its row.   *)
(* An adapter that has answered has left its event so; the event stays so, *)
(* and can be quoted until another process brings a newer revision.        *)
(***************************************************************************)
AppliedIsThere ==
    /\ \A e \in DOMAIN jobs :
         /\ jobs[e].chunks.status = "applied" => e \in chunked
         /\ jobs[e].fts.status = "applied" => e \in indexed
    /\ \A s \in Strict :
         sync[s].answer = "ok" /\ sync[s].made # 0 =>
           LET e == sync[s].made
           IN  /\ e \in chunked \cap indexed
               /\ events[e].state = "active" => e \in Recallable(events[e].mode)

(***************************************************************************)
(* When the host edits no more, the transcript comes to say what it says,  *)
(* whatever stale readings, crashes and lost leases there were, and every  *)
(* message can be quoted unless its job was given up.                      *)
(***************************************************************************)
TranscriptConverges ==
    <>[](\A m \in Messages : source[m] # "none" =>
           /\ live[m] # 0
           /\ events[live[m]].text = source[m]
           /\ live[m] \in chunked \/ jobs[live[m]].chunks.status = "dead")
=============================================================================

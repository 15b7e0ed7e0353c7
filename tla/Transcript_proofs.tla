--------------------------- MODULE Transcript_proofs ---------------------------
(***************************************************************************)
(* Proofs about the transcript.                                            *)
(***************************************************************************)
EXTENDS MCTranscript, FoldLemmas

-----------------------------------------------------------------------------
(* The ledger: its invariant                                               *)

Known == Messages \cup Assertions

Said == Contents \cup {"none", "said"}

EventRow == [of : Known, rev : Nat \ {0}, text : Said, mode : {"default"} \cup {ModeOf[s] : s \in Syncs},
             state : {"active", "superseded"}]

\* Event e is the next of its message after d, and says something else.
Follows(ev, d, e) ==
  /\ d < e /\ ev[d].of = ev[e].of /\ ev[e].rev = ev[d].rev + 1
  /\ ev[d].text # ev[e].text \/ ev[d].mode # ev[e].mode
  /\ \A c \in 1..Len(ev) : d < c /\ c < e => ev[c].of # ev[e].of

\* A first revision has none before it, every other follows one.
HasFormer(ev, e) ==
  \/ ev[e].rev = 1 /\ \A c \in 1..Len(ev) : c < e => ev[c].of # ev[e].of
  \/ \E d \in 1..Len(ev) : Follows(ev, d, e)

\* A message is known by its last event, the one that is active.
KnownByLast(ev, x, last) ==
  /\ \A e \in 1..Len(ev) : ev[e].of = x => e <= last /\ (ev[e].state = "active" <=> e = last)
  /\ last # 0 => ev[last].of = x

EventsHold ==
  /\ events \in Seq(EventRow)
  /\ live \in [Known -> 0..Len(events)]
  /\ \A e \in 1..Len(events) : events[e].rev <= e /\ HasFormer(events, e)
  /\ \A x \in Known : KnownByLast(events, x, live[x])

Job == [status : {"due", "processing", "expired", "waiting", "dead", "applied"}, tries : Nat]

JobsHold ==
  /\ jobs \in Seq([Projections -> Job]) /\ Len(jobs) = Len(events)
  /\ chunked \subseteq 1..Len(events) /\ indexed \subseteq 1..Len(events)
  /\ \A e \in 1..Len(jobs) : /\ jobs[e]["chunks"].status = "applied" => e \in chunked
                             /\ jobs[e]["fts"].status = "applied" => e \in indexed

Process == [phase : {"idle", "look", "upsert", "chunk", "ack", "index"},
            read : [Messages -> Contents \cup {"none"}], todo : SUBSET Messages, seen : BOOLEAN,
            made : Nat, held : Seq([event : Nat, try : Nat]), answer : {"none", "ok"}]

\* What a process is about to use is there.
ProcessHolds(s, p) ==
  /\ p \in Process /\ p.made <= Len(events)
  /\ \A i \in 1..Len(p.held) : p.held[i].event \in 1..Len(events)
  /\ p.phase = "upsert" => p.todo # {}
  /\ p.phase \in {"chunk", "ack", "index"} => p.held # <<>>
  /\ p.phase = "ack" => p.held[1].event \in chunked
  /\ p.phase # "idle" => p.answer = "none"
  /\ s \in Strict /\ p.answer = "ok" /\ p.made # 0 => p.made \in chunked \cap indexed

SyncsHold == sync \in [Syncs -> Process] /\ \A s \in Syncs : ProcessHolds(s, sync[s])

CountsHold ==
  /\ source \in [Messages -> Contents \cup {"none"}]
  /\ inputs \in 0..MaxInputs /\ faults \in 0..MaxFaults

LedgerInv == CountsHold /\ EventsHold /\ JobsHold /\ SyncsHold

LEMMA RestingHolds ==
  ASSUME NEW s, Len(events) \in Nat
  PROVE  ProcessHolds(s, Resting)
<1>1. <<>> \in Seq([event : Nat, try : Nat]) /\ Len(<<>>) = 0
  OBVIOUS
<1>2. [m \in Messages |-> "none"] \in [Messages -> Contents \cup {"none"}]
  OBVIOUS
<1>3. Resting \in Process
  BY <1>1, <1>2 DEF Resting, Process
<1> QED BY <1>1, <1>3 DEF Resting, ProcessHolds

LEMMA LedgerStart == LedgerInit => LedgerInv
<1> SUFFICES ASSUME LedgerInit PROVE LedgerInv
  OBVIOUS
<1>1. CountsHold
  BY LedgerAssumption DEF LedgerInit, CountsHold
<1>2. Len(events) = 0 /\ events = <<>> /\ jobs = <<>> /\ \A x \in Known : live[x] = 0
  BY DEF LedgerInit, Known
<1>3. EventsHold
  <2>1. live \in [Known -> 0..Len(events)]
    BY <1>2 DEF LedgerInit, Known
  <2> QED BY <1>2, <2>1 DEF EventsHold, KnownByLast
<1>4. JobsHold
  BY <1>2 DEF LedgerInit, JobsHold
<1>5. SyncsHold
  <2>1. \A s \in Syncs : sync[s] = Resting /\ ProcessHolds(s, Resting)
    BY <1>2, RestingHolds DEF LedgerInit
  <2>2. sync \in [Syncs -> Process]
    BY <2>1 DEF LedgerInit, ProcessHolds
  <2> QED BY <2>1, <2>2 DEF SyncsHold
<1> QED BY <1>1, <1>3, <1>4, <1>5 DEF LedgerInv

\* The processes hold on, when only the one that moves changes and nothing is lost.
LEMMA ProcessesStay ==
  ASSUME SyncsHold, Len(events) \in Nat, Len(events') \in Nat, Len(events) <= Len(events'),
         chunked \subseteq chunked', indexed \subseteq indexed',
         NEW s \in Syncs, NEW p, sync' = [sync EXCEPT ![s] = p], ProcessHolds(s, p)'
  PROVE  SyncsHold'
<1>1. ASSUME NEW t \in Syncs PROVE ProcessHolds(t, sync[t])'
  <2>1. CASE t = s
    <3>1. sync'[t] = p
      BY <2>1 DEF SyncsHold
    <3> QED BY <2>1, <3>1 DEF ProcessHolds
  <2>2. CASE t # s
    <3>1. sync'[t] = sync[t] /\ ProcessHolds(t, sync[t])
      BY <2>2 DEF SyncsHold
    <3> DEFINE q == sync[t]
    <3>2. q.made \in Nat /\ \A i \in 1..Len(q.held) : q.held[i].event \in 1..Len(events)
      BY <3>1 DEF ProcessHolds, Process
    <3>3. q.made <= Len(events') /\ \A i \in 1..Len(q.held) : q.held[i].event \in 1..Len(events')
      <4>1. q.made <= Len(events)
        BY <3>1 DEF ProcessHolds
      <4> HIDE DEF q
      <4> QED BY <3>2, <4>1
    <3> QED BY <3>1, <3>3 DEF ProcessHolds
  <2> QED BY <2>1, <2>2
<1>2. sync' \in [Syncs -> Process]
  <2>1. p \in Process
    BY DEF ProcessHolds
  <2> QED BY <2>1 DEF SyncsHold
<1> QED BY <1>1, <1>2 DEF SyncsHold

\* No process moves.
LEMMA ProcessesIdle ==
  ASSUME SyncsHold, Len(events) \in Nat, Len(events') \in Nat, Len(events) <= Len(events'),
         chunked \subseteq chunked', indexed \subseteq indexed', sync' = sync
  PROVE  SyncsHold'
<1>1. ASSUME NEW t \in Syncs PROVE ProcessHolds(t, sync[t])'
  <2>1. sync'[t] = sync[t] /\ ProcessHolds(t, sync[t])
    BY DEF SyncsHold
  <2> DEFINE q == sync[t]
  <2>2. q.made \in Nat /\ \A i \in 1..Len(q.held) : q.held[i].event \in 1..Len(events)
    BY <2>1 DEF ProcessHolds, Process
  <2>3. q.made <= Len(events') /\ \A i \in 1..Len(q.held) : q.held[i].event \in 1..Len(events')
    <3>1. q.made <= Len(events)
      BY <2>1 DEF ProcessHolds
    <3> HIDE DEF q
    <3> QED BY <2>2, <3>1
  <2> QED BY <2>1, <2>3 DEF ProcessHolds
<1> QED BY <1>1 DEF SyncsHold

LEMMA Lengths ==
  ASSUME LedgerInv
  PROVE  /\ Len(events) \in Nat /\ DOMAIN events = 1..Len(events)
         /\ Len(jobs) = Len(events) /\ DOMAIN jobs = 1..Len(events)
  BY DEF LedgerInv, EventsHold, JobsHold

-----------------------------------------------------------------------------
(* The ledger: an event is appended *)

\* The histories in ev, when it grows to new by an event of x after its last.
Growth(ev, new, n, x, l) ==
  /\ Len(ev) = n /\ Len(new) = n + 1
  /\ \A e \in 1..n : new[e].of = ev[e].of
  /\ \A e \in 1..n : new[e].rev = ev[e].rev
  /\ \A e \in 1..n : new[e].text = ev[e].text
  /\ \A e \in 1..n : new[e].mode = ev[e].mode
  /\ \A e \in 1..n : e # l => new[e].state = ev[e].state
  /\ l # 0 => new[l].state = "superseded"
  /\ new[n + 1].of = x /\ new[n + 1].state = "active"
  /\ new[n + 1].rev = IF l = 0 THEN 1 ELSE ev[l].rev + 1
  /\ l # 0 => ev[l].text # new[n + 1].text \/ ev[l].mode # new[n + 1].mode
  /\ \A e \in 1..n : ev[e].rev \in Nat
  /\ \A e \in 1..n : ev[e].rev <= e /\ HasFormer(ev, e)
  /\ KnownByLast(ev, x, l)

Grown(ev, new, n, x) ==
  /\ \A e \in 1..(n + 1) : new[e].rev <= e /\ HasFormer(new, e)
  /\ KnownByLast(new, x, n + 1)
  /\ \A y \in Known, m \in 0..n : y # x /\ KnownByLast(ev, y, m) => KnownByLast(new, y, m)

LEMMA GrownHistory ==
  ASSUME NEW n \in Nat, NEW ev, NEW new, NEW x \in Known, NEW l \in 0..n, Growth(ev, new, n, x, l)
  PROVE  Grown(ev, new, n, x)
<1> USE DEF Growth
<1>1. \A e \in 1..(n + 1) : (e \in 1..n /\ e # n + 1) \/ e = n + 1
  OBVIOUS
<1>2. l # 0 => l \in 1..n /\ ev[l].of = x
  BY DEF KnownByLast
<1>3. ASSUME NEW e \in 1..(n + 1) PROVE new[e].rev <= e /\ HasFormer(new, e)
  <2>1. CASE e \in 1..n
    <3>1. HasFormer(ev, e)
      BY <2>1
    <3>2. CASE ev[e].rev = 1 /\ \A c \in 1..n : c < e => ev[c].of # ev[e].of
      <4>1. \A c \in 1..(n + 1) : c < e => c \in 1..n
        BY <2>1
      <4> QED BY <3>2, <4>1, <2>1 DEF HasFormer
    <3>3. CASE \E d \in 1..n : Follows(ev, d, e)
      <4>1. PICK d \in 1..n : Follows(ev, d, e)
        BY <3>3
      <4>2. \A c \in 1..(n + 1) : d < c /\ c < e => c \in 1..n
        BY <2>1
      <4>3. Follows(new, d, e)
        BY <4>1, <4>2, <2>1 DEF Follows
      <4>4. d \in 1..(n + 1)
        OBVIOUS
      <4> QED BY <4>3, <4>4, <2>1 DEF HasFormer
    <3> QED BY <3>1, <3>2, <3>3, <2>1 DEF HasFormer
  <2>2. CASE e = n + 1
    <3>1. CASE l = 0
      <4>1. \A c \in 1..n : ev[c].of # x
        BY <3>1 DEF KnownByLast
      <4>2. \A c \in 1..(n + 1) : c < n + 1 => new[c].of # x
        BY <4>1, <1>1
      <4> QED BY <2>2, <3>1, <4>2 DEF HasFormer
    <3>2. CASE l # 0
      <4>1. l \in 1..n /\ ev[l].rev <= l /\ ev[l].of = x /\ ev[l].rev \in Nat
        BY <3>2, <1>2
      <4>2. \A c \in 1..n : l < c => ev[c].of # x
        <5> SUFFICES ASSUME NEW c \in 1..n, l < c, ev[c].of = x PROVE FALSE
          OBVIOUS
        <5>1. c <= l
          BY DEF KnownByLast
        <5> QED BY <5>1, <4>1
      <4>3. Follows(new, l, n + 1)
        <5>1. l < n + 1 /\ new[l].of = new[n + 1].of /\ new[n + 1].rev = new[l].rev + 1
          BY <4>1, <3>2
        <5>2. new[l].text # new[n + 1].text \/ new[l].mode # new[n + 1].mode
          BY <4>1, <3>2
        <5>3. \A c \in 1..(n + 1) : l < c /\ c < n + 1 => new[c].of # x
          BY <4>2, <1>1
        <5> QED BY <5>1, <5>2, <5>3 DEF Follows
      <4>4. l \in 1..(n + 1) /\ new[n + 1].rev <= n + 1
        BY <4>1, <3>2
      <4> QED BY <2>2, <4>3, <4>4 DEF HasFormer
    <3> QED BY <3>1, <3>2
  <2> QED BY <1>1, <2>1, <2>2
<1>4. KnownByLast(new, x, n + 1)
  <2> SUFFICES ASSUME NEW e \in 1..(n + 1), new[e].of = x
               PROVE  e <= n + 1 /\ (new[e].state = "active" <=> e = n + 1)
    BY DEF KnownByLast
  <2>1. CASE e = n + 1
    BY <2>1
  <2>2. CASE e \in 1..n /\ e # n + 1 /\ e # l
    <3>1. ev[e].state = "active" <=> e = l
      BY <2>2 DEF KnownByLast
    <3> QED BY <2>2, <3>1
  <2>3. CASE e \in 1..n /\ e # n + 1 /\ e = l
    <3>1. new[e].state = "superseded"
      BY <2>3
    <3> QED BY <2>3, <3>1
  <2> QED BY <1>1, <2>1, <2>2, <2>3
<1>5. ASSUME NEW y \in Known, NEW m \in 0..n, y # x, KnownByLast(ev, y, m) PROVE KnownByLast(new, y, m)
  <2>1. ASSUME NEW e \in 1..(n + 1), new[e].of = y PROVE e <= m /\ (new[e].state = "active" <=> e = m)
    <3>1. e \in 1..n /\ ev[e].of = y
      BY <2>1, <1>1, <1>5
    <3>2. e # l
      BY <3>1, <1>2, <1>5
    <3>3. e <= m /\ (ev[e].state = "active" <=> e = m)
      BY <3>1, <1>5 DEF KnownByLast
    <3> QED BY <3>1, <3>2, <3>3
  <2>2. m # 0 => new[m].of = y
    BY <1>5 DEF KnownByLast
  <2> QED BY <2>1, <2>2 DEF KnownByLast
<1> QED BY <1>3, <1>4, <1>5 DEF Grown

\* Another event of x follows the one x is known by.
LEMMA HistoryGrows ==
  ASSUME EventsHold, NEW x \in Known, NEW said \in Said, NEW mode \in {"default"} \cup {ModeOf[s] : s \in Syncs},
         live[x] # 0 => events[live[x]].text # said \/ events[live[x]].mode # mode,
         events' = Append(WithoutFormer(x), [of |-> x, rev |-> IF live[x] = 0 THEN 1 ELSE events[live[x]].rev + 1,
                                             text |-> said, mode |-> mode, state |-> "active"]),
         live' = [live EXCEPT ![x] = Len(events) + 1]
  PROVE  EventsHold' /\ Len(events') = Len(events) + 1
<1> DEFINE n == Len(events)
           l == live[x]
           row == [of |-> x, rev |-> IF l = 0 THEN 1 ELSE events[l].rev + 1, text |-> said, mode |-> mode,
                   state |-> "active"]
           old == WithoutFormer(x)
<1>1. events \in Seq(EventRow) /\ n \in Nat /\ DOMAIN events = 1..n /\ l \in 0..n /\ live \in [Known -> 0..n]
  BY DEF EventsHold
<1>2. l # 0 => l \in 1..n /\ events[l] \in EventRow /\ events[l].of = x
  <2>1. KnownByLast(events, x, l)
    BY DEF EventsHold
  <2> QED BY <1>1, <2>1 DEF KnownByLast
<1>3. row \in EventRow
  <2>1. l # 0 => events[l].rev \in Nat
    BY <1>2 DEF EventRow
  <2>2. (IF l = 0 THEN 1 ELSE events[l].rev + 1) \in Nat \ {0}
    BY <2>1
  <2> QED BY <2>2 DEF EventRow
<1>4. /\ old \in Seq(EventRow) /\ Len(old) = n
      /\ \A e \in 1..n : /\ old[e].of = events[e].of /\ old[e].rev = events[e].rev
                         /\ old[e].text = events[e].text /\ old[e].mode = events[e].mode
                         /\ e # l => old[e].state = events[e].state
      /\ l # 0 => old[l].state = "superseded"
  <2>1. CASE l = 0
    BY <1>1, <2>1 DEF WithoutFormer
  <2>2. CASE l # 0
    <3>1. old = [events EXCEPT ![l] = [events[l] EXCEPT !.state = "superseded"]]
      BY <2>2 DEF WithoutFormer
    <3>2. [events[l] EXCEPT !.state = "superseded"] \in EventRow
      <4>1. "superseded" \in {"active", "superseded"} /\ events[l] \in EventRow
        BY <1>2, <2>2
      <4> QED BY <4>1, Zenon DEF EventRow
    <3>3. /\ [events[l] EXCEPT !.state = "superseded"].of = events[l].of
          /\ [events[l] EXCEPT !.state = "superseded"].rev = events[l].rev
          /\ [events[l] EXCEPT !.state = "superseded"].text = events[l].text
          /\ [events[l] EXCEPT !.state = "superseded"].mode = events[l].mode
          /\ [events[l] EXCEPT !.state = "superseded"].state = "superseded"
      BY <1>2, <2>2 DEF EventRow
    <3> DEFINE ended == [events[l] EXCEPT !.state = "superseded"]
    <3> HIDE DEF ended, old
    <3>4. old \in Seq(EventRow) /\ Len(old) = n /\ old[l] = ended /\ \A e \in 1..n : e # l => old[e] = events[e]
      BY <1>1, <1>2, <2>2, <3>1, <3>2 DEF ended
    <3> QED BY <3>3, <3>4, <2>2 DEF ended
  <2> QED BY <2>1, <2>2
<1> HIDE DEF row, old
<1>5. /\ events' \in Seq(EventRow) /\ Len(events') = n + 1 /\ events'[n + 1] = row
      /\ \A e \in 1..n : events'[e] = old[e]
  <2>1. events' = Append(old, row)
    BY DEF old, row
  <2>2. old \in Seq(EventRow) /\ Len(old) = n
    BY <1>4
  <2> HIDE DEF n
  <2>3. Append(old, row) \in Seq(EventRow) /\ Len(Append(old, row)) = n + 1
    BY <1>3, <2>2
  <2>4. Append(old, row)[n + 1] = row /\ \A e \in 1..n : Append(old, row)[e] = old[e]
    BY <1>3, <2>2
  <2> QED BY <2>1, <2>3, <2>4
<1>6. /\ \A e \in 1..n : /\ events'[e].of = events[e].of /\ events'[e].rev = events[e].rev
                         /\ events'[e].text = events[e].text /\ events'[e].mode = events[e].mode
                         /\ e # l => events'[e].state = events[e].state
      /\ l # 0 => events'[l].state = "superseded"
  BY <1>2, <1>4, <1>5
<1>7. /\ events'[n + 1].of = x /\ events'[n + 1].text = said /\ events'[n + 1].mode = mode
      /\ events'[n + 1].state = "active"
      /\ events'[n + 1].rev = IF l = 0 THEN 1 ELSE events[l].rev + 1
  BY <1>5 DEF row
<1>0. n \in Nat
  BY <1>1
<1>8. live' \in [Known -> 0..(n + 1)] /\ live'[x] = n + 1 /\ \A y \in Known \ {x} : live'[y] = live[y]
  <2>1. 0..n \subseteq 0..(n + 1) /\ n + 1 \in 0..(n + 1)
    BY <1>0
  <2> QED BY <1>1, <2>1
<1>9. KnownByLast(events, x, l)
  BY DEF EventsHold
<1>10. \A e \in 1..n : events[e].rev \in Nat
  <2>1. \A e \in 1..n : events[e] \in EventRow
    BY <1>1
  <2> QED BY <2>1 DEF EventRow
<1>11. Grown(events, events', n, x)
  <2>1. \A e \in 1..n : events[e].rev <= e /\ HasFormer(events, e)
    BY DEF EventsHold
  <2>2. Growth(events, events', n, x, l) /\ l \in 0..n
    BY <1>1, <1>5, <1>6, <1>7, <1>9, <1>10, <2>1, Zenon DEF Growth
  <2> HIDE DEF n, l
  <2> QED BY <1>0, <2>2, GrownHistory, Zenon
<1>12. ASSUME NEW y \in Known PROVE KnownByLast(events', y, live'[y])
  <2>1. CASE y = x
    BY <2>1, <1>8, <1>11 DEF Grown
  <2>2. CASE y # x
    <3>1. KnownByLast(events, y, live[y]) /\ live'[y] = live[y] /\ live[y] \in 0..n
      BY <2>2, <1>1, <1>8 DEF EventsHold
    <3> QED BY <2>2, <3>1, <1>11 DEF Grown
  <2> QED BY <2>1, <2>2
<1> QED BY <1>5, <1>8, <1>11, <1>12, Zenon DEF EventsHold, Grown

-----------------------------------------------------------------------------
(* The ledger: a job changes                                               *)

\* Nothing becomes applied that is not there.
LEMMA JobsStay ==
  ASSUME JobsHold, UNCHANGED events,
         jobs' \in Seq([Projections -> Job]), Len(jobs') = Len(jobs),
         chunked \subseteq chunked', chunked' \subseteq 1..Len(events),
         indexed \subseteq indexed', indexed' \subseteq 1..Len(events),
         \A e \in 1..Len(jobs) : jobs'[e]["chunks"].status = "applied" =>
                                   jobs[e]["chunks"].status = "applied" \/ e \in chunked,
         \A e \in 1..Len(jobs) : jobs'[e]["fts"].status = "applied" =>
                                   jobs[e]["fts"].status = "applied" \/ e \in indexed
  PROVE  JobsHold'
  BY DEF JobsHold

LEMMA TwoProjections == "chunks" \in Projections /\ "fts" \in Projections /\ "chunks" # "fts"
  BY DEF Projections

\* A job gets a status, applied only when its event is there.
LEMMA JobSetHolds ==
  ASSUME JobsHold, UNCHANGED <<events, chunked, indexed>>, NEW e \in 1..Len(jobs), NEW k \in Projections,
         NEW status \in {"due", "processing", "expired", "waiting", "dead", "applied"},
         jobs' = [jobs EXCEPT ![e][k].status = status],
         status = "applied" => IF k = "chunks" THEN e \in chunked ELSE e \in indexed
  PROVE  JobsHold'
<1>1. jobs \in Seq([Projections -> Job]) /\ Len(jobs) \in Nat
  BY DEF JobsHold
<1>2. jobs[e] \in [Projections -> Job] /\ jobs[e][k] \in Job
  BY <1>1
<1> DEFINE job == [jobs[e][k] EXCEPT !.status = status]
           both == [jobs[e] EXCEPT ![k] = job]
<1>3. job \in Job
  BY <1>2, Zenon DEF Job
<1>4. job.status = status
  BY <1>2 DEF Job
<1> HIDE DEF job
<1>5. both \in [Projections -> Job] /\ both[k].status = status /\ \A j \in Projections : j # k => both[j] = jobs[e][j]
  BY <1>2, <1>3, <1>4
<1>6. jobs' = [jobs EXCEPT ![e] = both]
  BY Zenon DEF job
<1> HIDE DEF both
<1>7. jobs' \in Seq([Projections -> Job]) /\ Len(jobs') = Len(jobs)
  BY <1>1, <1>5, <1>6
<1>8. jobs'[e] = both /\ \A d \in 1..Len(jobs) : d # e => jobs'[d] = jobs[d]
  BY <1>1, <1>6
<1>9. ASSUME NEW d \in 1..Len(jobs), NEW j \in Projections
      PROVE  jobs'[d][j].status = IF d = e /\ j = k THEN status ELSE jobs[d][j].status
  <2>1. CASE d = e
    BY <2>1, <1>5, <1>8
  <2>2. CASE d # e
    BY <2>2, <1>8
  <2> QED BY <2>1, <2>2
<1>10. /\ \A d \in 1..Len(jobs) : jobs'[d]["chunks"].status = "applied" =>
                                    jobs[d]["chunks"].status = "applied" \/ d \in chunked
       /\ \A d \in 1..Len(jobs) : jobs'[d]["fts"].status = "applied" =>
                                    jobs[d]["fts"].status = "applied" \/ d \in indexed
  BY <1>9, TwoProjections
<1>11. chunked \subseteq 1..Len(events) /\ indexed \subseteq 1..Len(events)
  BY DEF JobsHold
<1>12. chunked' = chunked /\ indexed' = indexed /\ events' = events
  OBVIOUS
<1> QED BY <1>7, <1>10, <1>11, <1>12, JobsStay

\* Jobs are claimed.
LEMMA ClaimHolds ==
  ASSUME JobsHold, UNCHANGED <<events, chunked, indexed>>, NEW k \in Projections, NEW E, jobs' = Claim(k, E)
  PROVE  JobsHold'
<1>1. jobs \in Seq([Projections -> Job]) /\ Len(jobs) \in Nat /\ DOMAIN jobs = 1..Len(jobs)
  BY DEF JobsHold
<1> DEFINE job(e) == [status |-> "processing", tries |-> jobs[e][k].tries + 1]
           both(e) == [jobs[e] EXCEPT ![k] = job(e)]
<1>2. ASSUME NEW e \in 1..Len(jobs)
      PROVE  /\ both(e) \in [Projections -> Job] /\ both(e)[k].status = "processing"
             /\ \A j \in Projections : j # k => both(e)[j] = jobs[e][j]
  <2>1. jobs[e] \in [Projections -> Job] /\ jobs[e][k] \in Job
    BY <1>1
  <2>2. job(e) \in Job
    BY <2>1 DEF Job
  <2> QED BY <2>1, <2>2
<1>3. jobs' = [e \in 1..Len(jobs) |-> IF e \in E THEN both(e) ELSE jobs[e]]
  BY <1>1, Zenon DEF Claim
<1> HIDE DEF both
<1>4. \A e \in 1..Len(jobs) : jobs'[e] = IF e \in E THEN both(e) ELSE jobs[e]
  BY <1>3
<1>5. \A e \in 1..Len(jobs) : jobs'[e] \in [Projections -> Job]
  BY <1>1, <1>2, <1>4
<1>6. jobs' \in Seq([Projections -> Job]) /\ Len(jobs') = Len(jobs)
  BY <1>1, <1>3, <1>5
<1>7. ASSUME NEW e \in 1..Len(jobs), NEW j \in Projections, jobs'[e][j].status = "applied"
      PROVE  jobs[e][j].status = "applied"
  <2>1. CASE e \in E /\ j = k
    <3>1. jobs'[e][j].status = "processing"
      BY <2>1, <1>2, <1>4
    <3> QED BY <3>1, <1>7
  <2>2. CASE e \in E /\ j # k
    BY <2>2, <1>2, <1>4, <1>7
  <2>3. CASE e \notin E
    BY <2>3, <1>4, <1>7
  <2> QED BY <2>1, <2>2, <2>3
<1>8. chunked \subseteq 1..Len(events) /\ indexed \subseteq 1..Len(events)
  BY DEF JobsHold
<1>9. chunked' = chunked /\ indexed' = indexed /\ events' = events
  OBVIOUS
<1>10. /\ \A e \in 1..Len(jobs) : jobs'[e]["chunks"].status = "applied" => jobs[e]["chunks"].status = "applied"
       /\ \A e \in 1..Len(jobs) : jobs'[e]["fts"].status = "applied" => jobs[e]["fts"].status = "applied"
  BY <1>7, TwoProjections
<1> QED BY <1>6, <1>8, <1>9, <1>10, JobsStay

\* What is held of some jobs.
LEMMA HeldIs ==
  ASSUME JobsHold, NEW k \in Projections, NEW E \in SUBSET (1..Len(jobs)), E # {}
  PROVE  /\ Held(k, E) \in Seq([event : Nat, try : Nat]) /\ Held(k, E) # <<>>
         /\ \A i \in 1..Len(Held(k, E)) : Held(k, E)[i].event \in E
<1> DEFINE oldest == Ascending(E)
           held == [i \in DOMAIN oldest |-> [event |-> oldest[i], try |-> jobs[oldest[i]][k].tries + 1]]
<1>1. jobs \in Seq([Projections -> Job]) /\ Len(jobs) \in Nat
  BY DEF JobsHold
<1>2. InOrder(oldest, E)
  <2>1. E \in SUBSET (0..Len(jobs))
    BY <1>1
  <2> QED BY <2>1, <1>1, AscendingIs
<1> HIDE DEF oldest
<1>3. /\ Len(oldest) \in Nat /\ DOMAIN oldest = 1..Len(oldest) /\ \A i \in 1..Len(oldest) : oldest[i] \in E
      /\ Len(oldest) # 0
  <2>1. oldest \in Seq(E) /\ \A e \in E : \E i \in 1..Len(oldest) : oldest[i] = e
    BY <1>2 DEF InOrder
  <2>2. PICK e \in E : TRUE
    OBVIOUS
  <2>3. PICK i \in 1..Len(oldest) : oldest[i] = e
    BY <2>1
  <2> QED BY <2>1, <2>3
<1>4. ASSUME NEW i \in 1..Len(oldest)
      PROVE  held[i] \in [event : Nat, try : Nat] /\ held[i].event \in E
  <2>1. oldest[i] \in E /\ oldest[i] \in Nat
    <3>1. oldest[i] \in E
      BY <1>3
    <3>2. E \subseteq Nat
      BY <1>1
    <3> QED BY <3>1, <3>2
  <2>2. jobs[oldest[i]] \in [Projections -> Job]
    BY <2>1, <1>1
  <2>3. jobs[oldest[i]][k] \in Job
    BY <2>2
  <2>4. jobs[oldest[i]][k].tries + 1 \in Nat
    BY <2>3 DEF Job
  <2>5. held[i] = [event |-> oldest[i], try |-> jobs[oldest[i]][k].tries + 1]
    BY <1>3
  <2> QED BY <2>1, <2>4, <2>5
<1>5. held \in Seq([event : Nat, try : Nat]) /\ Len(held) = Len(oldest)
  <2>1. held \in [1..Len(oldest) -> [event : Nat, try : Nat]] /\ Len(oldest) \in Nat
    BY <1>3, <1>4
  <2> HIDE DEF held
  <2> QED BY <2>1, ListTyped, Zenon
<1>6. Held(k, E) = held
  BY DEF Held, oldest
<1> HIDE DEF held
<1> QED BY <1>3, <1>4, <1>5, <1>6
-----------------------------------------------------------------------------
(* The ledger: every step keeps the invariant                              *)

LEMMA EventsStay ==
  ASSUME EventsHold, UNCHANGED <<events, live>>
  PROVE  EventsHold'
  BY DEF EventsHold

LEMMA LeastMessage ==
  ASSUME NEW S \in SUBSET Messages, S # {}
  PROVE  Least(S) \in S /\ Least(S) \in Messages
<1>1. S \in SUBSET Nat
  BY LedgerAssumption
<1>2. \E m \in S : \A n \in S : m <= n
  BY <1>1, LeastNumber
<1>3. Least(S) \in S
  BY <1>2 DEF Least
<1> QED BY <1>3

\* An event is appended, with two jobs that are due.
LEMMA AppendHolds ==
  ASSUME LedgerInv, NEW x \in Known, NEW said \in Said, NEW mode \in {"default"} \cup {ModeOf[s] : s \in Syncs},
         live[x] # 0 => events[live[x]].text # said \/ events[live[x]].mode # mode,
         Appended(WithoutFormer(x), x, IF live[x] = 0 THEN 1 ELSE events[live[x]].rev + 1, said, mode),
         chunked' = chunked, indexed \subseteq indexed', indexed' \subseteq 1..(Len(events) + 1)
  PROVE  EventsHold' /\ JobsHold' /\ Len(events') = Len(events) + 1
<1>1. EventsHold /\ JobsHold
  BY DEF LedgerInv
<1>2. /\ events' = Append(WithoutFormer(x), [of |-> x, rev |-> IF live[x] = 0 THEN 1 ELSE events[live[x]].rev + 1,
                                             text |-> said, mode |-> mode, state |-> "active"])
      /\ live' = [live EXCEPT ![x] = Len(events) + 1] /\ jobs' = Append(jobs, NewJob)
  BY DEF Appended
<1>3. EventsHold' /\ Len(events') = Len(events) + 1
  BY <1>1, <1>2, HistoryGrows
<1>4. NewJob \in [Projections -> Job] /\ \A k \in Projections : NewJob[k].status = "due"
  <2>1. [status |-> "due", tries |-> 0] \in Job
    BY DEF Job
  <2> QED BY <2>1 DEF NewJob
<1> DEFINE n == Len(jobs)
<1>5. jobs \in Seq([Projections -> Job]) /\ n \in Nat /\ n = Len(events)
  BY <1>1 DEF JobsHold
<1>6. /\ jobs' \in Seq([Projections -> Job]) /\ Len(jobs') = n + 1 /\ jobs'[n + 1] = NewJob
      /\ \A e \in 1..n : jobs'[e] = jobs[e]
  <2> HIDE DEF n
  <2>1. Len(jobs) = n
    BY DEF n
  <2> QED BY <1>2, <1>4, <1>5, <2>1
<1>7. \A e \in 1..(n + 1) : e \in 1..n \/ e = n + 1
  BY <1>5
<1>8. ASSUME NEW e \in 1..(n + 1)
      PROVE  /\ jobs'[e]["chunks"].status = "applied" => e \in chunked
             /\ jobs'[e]["fts"].status = "applied" => e \in indexed
  <2>1. CASE e \in 1..n
    BY <2>1, <1>1, <1>6 DEF JobsHold
  <2>2. CASE e = n + 1
    <3>1. jobs'[e]["chunks"].status = "due" /\ jobs'[e]["fts"].status = "due"
      BY <2>2, <1>4, <1>6, TwoProjections
    <3> QED BY <3>1
  <2> QED BY <1>7, <2>1, <2>2
<1>9. chunked \subseteq 1..Len(events) /\ 1..Len(events) \subseteq 1..(Len(events) + 1)
  BY <1>1, <1>5 DEF JobsHold
<1>10. JobsHold'
  <2>1. chunked' \subseteq 1..Len(events') /\ indexed' \subseteq 1..Len(events') /\ Len(jobs') = Len(events')
    BY <1>3, <1>5, <1>6, <1>9
  <2>2. Len(jobs') = n + 1 /\ chunked' = chunked /\ indexed \subseteq indexed'
    BY <1>6
  <2> HIDE DEF n
  <2>3. \A e \in 1..Len(jobs') : /\ jobs'[e]["chunks"].status = "applied" => e \in chunked'
                                 /\ jobs'[e]["fts"].status = "applied" => e \in indexed'
    BY <1>8, <2>2
  <2> QED BY <1>6, <2>1, <2>3 DEF JobsHold
<1> QED BY <1>3, <1>10

LEMMA EditKeeps ==
  ASSUME LedgerInv, NEW m \in Messages, NEW said \in Contents, Edit(m, said)
  PROVE  LedgerInv'
<1>1. /\ inputs < MaxInputs /\ source' = [source EXCEPT ![m] = said] /\ inputs' = inputs + 1
      /\ events' = events /\ live' = live /\ jobs' = jobs /\ chunked' = chunked /\ indexed' = indexed
      /\ sync' = sync /\ faults' = faults
  BY DEF Edit
<1>2. CountsHold /\ EventsHold /\ JobsHold /\ SyncsHold
  BY DEF LedgerInv
<1>3. CountsHold'
  <2>1. source' \in [Messages -> Contents \cup {"none"}]
    BY <1>1, <1>2 DEF CountsHold
  <2>2. inputs' \in 0..MaxInputs
    BY <1>1, <1>2, LedgerAssumption DEF CountsHold
  <2> QED BY <1>1, <1>2, <2>1, <2>2 DEF CountsHold
<1>4. EventsHold'
  BY <1>1, <1>2, EventsStay
<1>5. JobsHold'
  BY <1>1, <1>2 DEF JobsHold
<1>6. SyncsHold'
  <2>1. Len(events) \in Nat /\ Len(events') \in Nat /\ Len(events) <= Len(events')
    BY <1>1, Lengths
  <2> QED BY <1>1, <1>2, <2>1, ProcessesIdle
<1> QED BY <1>3, <1>4, <1>5, <1>6 DEF LedgerInv

LEMMA RememberKeeps ==
  ASSUME LedgerInv, NEW x \in Assertions, Remember(x)
  PROVE  LedgerInv'
<1>1. /\ inputs < MaxInputs /\ live[x] = 0 /\ Appended(events, x, 1, "said", "default") /\ inputs' = inputs + 1
      /\ source' = source /\ chunked' = chunked /\ indexed' = indexed /\ sync' = sync /\ faults' = faults
  BY DEF Remember
<1>2. CountsHold /\ EventsHold /\ JobsHold /\ SyncsHold
  BY DEF LedgerInv
<1>3. CountsHold'
  BY <1>1, <1>2, LedgerAssumption DEF CountsHold
<1>4. Len(events) \in Nat
  BY Lengths
<1>5. indexed' \subseteq 1..(Len(events) + 1) /\ indexed \subseteq indexed'
  <2>1. indexed \subseteq 1..Len(events)
    BY <1>2 DEF JobsHold
  <2> QED BY <2>1, <1>1, <1>4
<1>6. EventsHold' /\ JobsHold' /\ Len(events') = Len(events) + 1
  <2>1. x \in Known /\ "said" \in Said
    BY DEF Known, Said
  <2>2. Appended(WithoutFormer(x), x, IF live[x] = 0 THEN 1 ELSE events[live[x]].rev + 1, "said", "default")
    BY <1>1, Zenon DEF WithoutFormer
  <2> QED BY <1>1, <1>5, <2>1, <2>2, AppendHolds
<1>7. SyncsHold'
  <2>1. Len(events') \in Nat /\ Len(events) <= Len(events')
    BY <1>4, <1>6
  <2> QED BY <1>1, <1>2, <1>4, <2>1, ProcessesIdle
<1> QED BY <1>3, <1>6, <1>7 DEF LedgerInv

\* A process moves on, and no event is appended.
LEMMA ProcessMoves ==
  ASSUME LedgerInv, UNCHANGED <<source, inputs, events, live>>, faults' \in 0..MaxFaults, JobsHold',
         chunked \subseteq chunked', indexed \subseteq indexed',
         NEW s \in Syncs, NEW p, sync' = [sync EXCEPT ![s] = p], ProcessHolds(s, p)'
  PROVE  LedgerInv'
<1>1. CountsHold /\ EventsHold /\ JobsHold /\ SyncsHold
  BY DEF LedgerInv
<1>2. source' = source /\ inputs' = inputs /\ events' = events /\ live' = live
  OBVIOUS
<1>3. CountsHold'
  BY <1>1, <1>2 DEF CountsHold
<1>4. EventsHold'
  BY <1>1, <1>2, EventsStay
<1>5. Len(events) \in Nat /\ Len(events') \in Nat /\ Len(events) <= Len(events')
  BY <1>2, Lengths
<1>6. SyncsHold'
  BY <1>1, <1>5, ProcessesStay
<1> QED BY <1>3, <1>4, <1>6 DEF LedgerInv

\* A process fails, and what it had claimed stays claimed.
LEMMA FailingKeeps ==
  ASSUME LedgerInv, UNCHANGED <<source, inputs, events, live, chunked, indexed>>, faults' \in 0..MaxFaults,
         JobsHold', NEW s \in Syncs, Fails(s)
  PROVE  LedgerInv'
<1>1. sync' = [sync EXCEPT ![s] = Resting]
  BY DEF Fails
<1>2. PICK p : p = Resting
  OBVIOUS
<1>3. Len(events') \in Nat
  BY Lengths
<1>4. ProcessHolds(s, p)'
  <2>1. ProcessHolds(s, Resting)'
    BY <1>3 DEF ProcessHolds, Resting, Process
  <2> QED BY <1>2, <2>1
<1> QED BY <1>1, <1>2, <1>4, ProcessMoves

LEMMA FaultCounted == ASSUME LedgerInv PROVE faults \in 0..MaxFaults /\ (faults < MaxFaults => faults + 1 \in 0..MaxFaults)
  BY LedgerAssumption DEF LedgerInv, CountsHold

\* What a process that moves holds of.
LEMMA ProcessNow ==
  ASSUME LedgerInv, NEW s \in Syncs
  PROVE  ProcessHolds(s, sync[s]) /\ sync[s] \in Process
  BY DEF LedgerInv, SyncsHold, ProcessHolds

LEMMA StartKeeps ==
  ASSUME LedgerInv, NEW s \in Syncs, Start(s)
  PROVE  LedgerInv'
<1>1. PICK todo \in IF s \in Strict THEN {{m} : m \in Messages} ELSE {Messages} :
        sync' = [sync EXCEPT ![s] =
                   [Resting EXCEPT !.phase = "look",
                                   !.read = [m \in Messages |-> IF m \in todo THEN source[m] ELSE "none"],
                                   !.todo = {m \in todo : source[m] # "none"}]]
  BY DEF Start
<1>2. UNCHANGED <<source, inputs, events, live>> /\ jobs' = jobs /\ chunked' = chunked /\ faults' = faults
      /\ indexed' = DOMAIN events /\ events' = events
  BY DEF Start
<1>3. CountsHold /\ JobsHold
  BY DEF LedgerInv
<1> DEFINE read == [m \in Messages |-> IF m \in todo THEN source[m] ELSE "none"]
           here == {m \in todo : source[m] # "none"}
<1>4. PICK p : p = [Resting EXCEPT !.phase = "look", !.read = read, !.todo = here]
  OBVIOUS
<1>5. sync' = [sync EXCEPT ![s] = p]
  BY <1>1, <1>4
<1>6. p \in Process /\ p.made = 0 /\ p.held = <<>> /\ p.phase = "look" /\ p.answer = "none"
  <2>1. here \in SUBSET Messages
    <3>1. todo \subseteq Messages
      OBVIOUS
    <3> QED BY <3>1
  <2>2. read \in [Messages -> Contents \cup {"none"}]
    BY <1>3 DEF CountsHold
  <2>3. Resting \in Process
    <3>1. Len(events) \in Nat
      BY Lengths
    <3> QED BY <3>1, RestingHolds DEF ProcessHolds
  <2>4. "look" \in {"idle", "look", "upsert", "chunk", "ack", "index"}
    OBVIOUS
  <2> HIDE DEF read, here
  <2>5. p \in Process
    BY <1>4, <2>1, <2>2, <2>3, <2>4, Zenon DEF Process
  <2>6. Resting.made = 0 /\ Resting.held = <<>> /\ Resting.answer = "none"
    BY DEF Resting
  <2>7. p.made = 0 /\ p.held = <<>> /\ p.phase = "look" /\ p.answer = "none"
    BY <1>4, <2>3, <2>6 DEF Process
  <2> QED BY <2>5, <2>7
<1>7. DOMAIN events = 1..Len(events) /\ Len(events) \in Nat
  BY Lengths
<1>8. ProcessHolds(s, p)'
  BY <1>2, <1>6, <1>7 DEF ProcessHolds
<1>9. indexed \subseteq indexed' /\ indexed' \subseteq 1..Len(events)
  BY <1>2, <1>3, <1>7 DEF JobsHold
<1>10. JobsHold'
  BY <1>2, <1>3, <1>9 DEF JobsHold
<1>11. faults' \in 0..MaxFaults /\ chunked \subseteq chunked'
  BY <1>2, FaultCounted
<1> QED BY <1>2, <1>5, <1>8, <1>9, <1>10, <1>11, ProcessMoves

\* A process that is past a message.
LEMMA PastIs ==
  ASSUME LedgerInv, NEW s \in Syncs, sync[s].phase # "idle", NEW m \in Messages, NEW e \in Nat
  PROVE  /\ Past(s, m, e) \in Process /\ Past(s, m, e).phase = "look" /\ Past(s, m, e).answer = "none"
         /\ Past(s, m, e).held = sync[s].held /\ Past(s, m, e).made \in {0, e}
<1> DEFINE q == sync[s]
           read == [q.read EXCEPT ![m] = "none"]
           made == IF s \in Strict THEN e ELSE 0
           p == [phase |-> "look", read |-> read, todo |-> q.todo \ {m}, seen |-> FALSE, made |-> made,
                 held |-> q.held, answer |-> q.answer]
<1>1. q \in Process /\ ProcessHolds(s, q)
  BY ProcessNow
<1>2. q.answer = "none"
  BY <1>1 DEF ProcessHolds
<1>3. /\ q = [phase |-> q.phase, read |-> q.read, todo |-> q.todo, seen |-> q.seen, made |-> q.made,
              held |-> q.held, answer |-> q.answer]
      /\ q.read \in [Messages -> Contents \cup {"none"}] /\ q.todo \in SUBSET Messages
      /\ q.held \in Seq([event : Nat, try : Nat])
  BY <1>1 DEF Process
<1>4. Past(s, m, e) = p
  <2> HIDE DEF q
  <2>1. Past(s, m, e) = [q EXCEPT !.phase = "look", !.todo = @ \ {m}, !.read[m] = "none", !.seen = FALSE,
                                  !.made = made]
    BY DEF Past, q
  <2> HIDE DEF made
  <2> QED BY <1>3, <2>1
<1>5. p \in Process
  <2>1. read \in [Messages -> Contents \cup {"none"}] /\ q.todo \ {m} \in SUBSET Messages /\ made \in Nat
    BY <1>3
  <2> HIDE DEF read, made, q
  <2> QED BY <1>2, <1>3, <2>1 DEF Process
<1> QED BY <1>2, <1>4, <1>5

LEMMA LookKeeps ==
  ASSUME LedgerInv, NEW s \in Syncs, Look(s)
  PROVE  LedgerInv'
<1> DEFINE m == Least(sync[s].todo)
           q == sync[s]
           next == IF live[m] # 0 /\ SameHash(s, m) THEN Past(s, m, live[m])
                   ELSE [q EXCEPT !.phase = "upsert", !.seen = live[m] # 0]
<1>1. /\ q.phase = "look" /\ q.todo # {}
      /\ sync' = [sync EXCEPT ![s] = next]
      /\ UNCHANGED <<source, inputs, events, live>> /\ events' = events /\ jobs' = jobs /\ chunked' = chunked
      /\ indexed' = indexed /\ faults' = faults
  BY DEF Look
<1>2. q \in Process /\ ProcessHolds(s, q)
  BY ProcessNow
<1>3. m \in Messages
  BY <1>1, <1>2, LeastMessage DEF Process
<1>4. live[m] \in 0..Len(events) /\ Len(events) \in Nat
  <2>1. live \in [Known -> 0..Len(events)] /\ m \in Known
    BY <1>3 DEF LedgerInv, EventsHold, Known
  <2> HIDE DEF m
  <2> QED BY <2>1, Lengths
<1> HIDE DEF m
<1>5. PICK p : p = next
  OBVIOUS
<1>6. ProcessHolds(s, p)
  <2>1. CASE live[m] # 0 /\ SameHash(s, m)
    <3>1. p = Past(s, m, live[m])
      BY <2>1, <1>5
    <3>2. live[m] \in Nat
      BY <1>4
    <3>3. /\ p \in Process /\ p.phase = "look" /\ p.answer = "none" /\ p.held = q.held /\ p.made \in {0, live[m]}
      BY <1>1, <1>3, <3>1, <3>2, PastIs
    <3>4. p.made <= Len(events)
      BY <1>4, <3>3
    <3> QED BY <1>2, <3>3, <3>4 DEF ProcessHolds
  <2>2. CASE ~(live[m] # 0 /\ SameHash(s, m))
    <3>1. p = [q EXCEPT !.phase = "upsert", !.seen = live[m] # 0]
      BY <2>2, <1>5
    <3>2. /\ p \in Process /\ p.phase = "upsert" /\ p.answer = q.answer /\ p.held = q.held /\ p.made = q.made
          /\ p.todo = q.todo
      <4>1. (live[m] # 0) \in BOOLEAN
        OBVIOUS
      <4> HIDE DEF q
      <4>2. p \in Process
        BY <1>2, <3>1, <4>1, Zenon DEF Process
      <4> QED BY <1>2, <3>1, <4>2 DEF Process
    <3> QED BY <1>1, <1>2, <3>2 DEF ProcessHolds
  <2> QED BY <2>1, <2>2
<1>7. ProcessHolds(s, p)'
  BY <1>1, <1>6 DEF ProcessHolds
<1>8. JobsHold'
  BY <1>1 DEF LedgerInv, JobsHold
<1>9. faults' \in 0..MaxFaults /\ chunked \subseteq chunked' /\ indexed \subseteq indexed' /\ sync' = [sync EXCEPT ![s] = p]
  BY <1>1, <1>5, FaultCounted
<1> HIDE DEF next, q
<1> QED BY <1>1, <1>7, <1>8, <1>9, ProcessMoves

\* A process is past a message, of an event that is there.
LEMMA PastHolds ==
  ASSUME LedgerInv, NEW s \in Syncs, sync[s].phase \in {"look", "upsert"}, NEW m \in Messages,
         Len(events') \in Nat, Len(events) <= Len(events'), NEW e \in 0..Len(events'), NEW p, p = Past(s, m, e)
  PROVE  ProcessHolds(s, p)'
<1> DEFINE q == sync[s]
<1>1. q \in Process /\ ProcessHolds(s, q)
  BY ProcessNow
<1>2. e \in Nat /\ e <= Len(events') /\ Len(events) \in Nat
  BY Lengths
<1>3. /\ p \in Process /\ p.phase = "look" /\ p.answer = "none" /\ p.held = q.held /\ p.made \in {0, e}
  BY <1>2, PastIs
<1>4. \A i \in 1..Len(p.held) : p.held[i].event \in 1..Len(events')
  <2>1. \A i \in 1..Len(p.held) : p.held[i].event \in 1..Len(events)
    BY <1>1, <1>3 DEF ProcessHolds
  <2>2. 1..Len(events) \subseteq 1..Len(events')
    BY <1>2
  <2> QED BY <2>1, <2>2
<1>5. p.made <= Len(events')
  BY <1>2, <1>3
<1> HIDE DEF q
<1> QED BY <1>3, <1>4, <1>5 DEF ProcessHolds

LEMMA UpsertKeeps ==
  ASSUME LedgerInv, NEW s \in Syncs, Upsert(s)
  PROVE  LedgerInv'
<1> DEFINE m == Least(sync[s].todo)
           q == sync[s]
<1>1. q.phase = "upsert" /\ source' = source /\ inputs' = inputs /\ chunked' = chunked /\ faults' = faults
  BY DEF Upsert
<1>2. \/ /\ Settled(s, m) /\ sync' = [sync EXCEPT ![s] = Past(s, m, live[m])]
         /\ events' = events /\ live' = live /\ jobs' = jobs /\ indexed' = indexed
      \/ /\ ~Settled(s, m)
         /\ Appended(WithoutFormer(m), m, IF live[m] = 0 THEN 1 ELSE events[live[m]].rev + 1, q.read[m], ModeOf[s])
         /\ indexed' = indexed \cup {Len(events) + 1}
         /\ sync' = [sync EXCEPT ![s] = Past(s, m, Len(events) + 1)]
  BY DEF Upsert
<1>3. q \in Process /\ ProcessHolds(s, q)
  BY ProcessNow
<1>4. m \in Messages
  <2>1. q.todo # {} /\ q.todo \in SUBSET Messages
    BY <1>1, <1>3 DEF ProcessHolds, Process
  <2> QED BY <2>1, LeastMessage
<1> HIDE DEF m
<1>5. CountsHold /\ EventsHold /\ JobsHold /\ SyncsHold /\ Len(events) \in Nat
  BY Lengths DEF LedgerInv
<1>6. live[m] \in 0..Len(events) /\ m \in Known
  <2>1. live \in [Known -> 0..Len(events)] /\ m \in Known
    BY <1>4, <1>5 DEF EventsHold, Known
  <2> QED BY <2>1
<1>7. CASE Settled(s, m)
  <2>1. /\ sync' = [sync EXCEPT ![s] = Past(s, m, live[m])]
        /\ events' = events /\ live' = live /\ jobs' = jobs /\ indexed' = indexed
    BY <1>2, <1>7
  <2>2. PICK p : p = Past(s, m, live[m])
    OBVIOUS
  <2>3. PICK e \in 0..Len(events) : e = live[m]
    BY <1>6
  <2>4. ProcessHolds(s, p)'
    <3>1. Len(events') \in Nat /\ Len(events) <= Len(events') /\ e \in 0..Len(events') /\ p = Past(s, m, e)
          /\ sync[s].phase \in {"look", "upsert"}
      BY <1>1, <1>5, <2>1, <2>2, <2>3
    <3> QED BY <1>4, <3>1, PastHolds
  <2>5. JobsHold'
    BY <1>1, <1>5, <2>1 DEF JobsHold
  <2>6. faults' \in 0..MaxFaults /\ chunked \subseteq chunked' /\ indexed \subseteq indexed'
        /\ sync' = [sync EXCEPT ![s] = p]
    BY <1>1, <2>1, <2>2, FaultCounted
  <2>7. UNCHANGED <<source, inputs, events, live>>
    BY <1>1, <2>1
  <2> HIDE DEF q
  <2> QED BY <2>4, <2>5, <2>6, <2>7, ProcessMoves
<1>8. CASE ~Settled(s, m)
  <2> DEFINE n == Len(events)
  <2>1. /\ Appended(WithoutFormer(m), m, IF live[m] = 0 THEN 1 ELSE events[live[m]].rev + 1, q.read[m], ModeOf[s])
        /\ indexed' = indexed \cup {n + 1} /\ sync' = [sync EXCEPT ![s] = Past(s, m, n + 1)]
    BY <1>2, <1>8
  <2>2. live[m] # 0 => events[live[m]].text # q.read[m] \/ events[live[m]].mode # ModeOf[s]
    BY <1>8 DEF Settled, SameHash
  <2>3. q.read[m] \in Said /\ ModeOf[s] \in {"default"} \cup {ModeOf[t] : t \in Syncs}
    <3>1. q.read \in [Messages -> Contents \cup {"none"}]
      BY <1>3 DEF Process
    <3> HIDE DEF q
    <3> QED BY <3>1, <1>4 DEF Said
  <2>4. indexed \subseteq indexed' /\ indexed' \subseteq 1..(n + 1)
    <3>1. indexed \subseteq 1..n
      BY <1>5 DEF JobsHold
    <3> HIDE DEF n
    <3>2. n \in Nat
      BY <1>5 DEF n
    <3> QED BY <2>1, <3>1, <3>2
  <2>5. EventsHold' /\ JobsHold' /\ Len(events') = n + 1
    <3> HIDE DEF q
    <3> QED BY <1>1, <1>6, <2>1, <2>2, <2>3, <2>4, AppendHolds
  <2>6. PICK e : e = n + 1
    OBVIOUS
  <2>7. PICK p : p = Past(s, m, e)
    OBVIOUS
  <2>8. Len(events') \in Nat /\ Len(events) <= Len(events') /\ e \in 0..Len(events')
    BY <1>5, <2>5, <2>6
  <2>9. ProcessHolds(s, p)'
    <3>1. sync[s].phase \in {"look", "upsert"}
      BY <1>1
    <3> HIDE DEF n, q
    <3> QED BY <1>4, <2>7, <2>8, <3>1, PastHolds
  <2>10. SyncsHold'
    <3>1. sync' = [sync EXCEPT ![s] = p] /\ chunked \subseteq chunked'
      BY <1>1, <2>1, <2>6, <2>7
    <3> QED BY <1>5, <2>4, <2>8, <2>9, <3>1, ProcessesStay
  <2>11. CountsHold'
    BY <1>1, <1>5 DEF CountsHold
  <2> QED BY <2>5, <2>10, <2>11 DEF LedgerInv
<1> QED BY <1>7, <1>8

LEMMA ClaimChunkKeeps ==
  ASSUME LedgerInv, NEW s \in Syncs, ClaimChunk(s)
  PROVE  LedgerInv'
<1> DEFINE e == Least(Due("chunks"))
           q == sync[s]
           held == Held("chunks", {e})
<1>1. /\ q.phase = "look" /\ q.todo = {} /\ Due("chunks") # {}
      /\ jobs' = Claim("chunks", {e})
      /\ sync' = [sync EXCEPT ![s] = [q EXCEPT !.phase = "chunk", !.held = held]]
      /\ UNCHANGED <<source, inputs, events, live>> /\ UNCHANGED <<events, chunked, indexed>>
      /\ events' = events /\ chunked' = chunked /\ indexed' = indexed /\ faults' = faults
  BY DEF ClaimChunk, Draining
<1>2. q \in Process /\ ProcessHolds(s, q) /\ JobsHold
  BY ProcessNow DEF LedgerInv
<1>3. e \in 1..Len(jobs)
  <2>1. Due("chunks") \in SUBSET (1..Len(jobs)) /\ Len(events) = Len(jobs)
    BY Lengths DEF Due
  <2>2. \E x \in Due("chunks") : \A y \in Due("chunks") : x <= y
    BY <1>1, <2>1, LeastNumber
  <2>3. e \in Due("chunks")
    BY <2>2 DEF Least
  <2> QED BY <2>1, <2>3
<1> HIDE DEF e
<1>4. /\ held \in Seq([event : Nat, try : Nat]) /\ held # <<>>
      /\ \A i \in 1..Len(held) : held[i].event \in {e}
  <2>1. {e} \in SUBSET (1..Len(jobs)) /\ {e} # {}
    BY <1>3
  <2> QED BY <1>2, <2>1, TwoProjections, HeldIs
<1>5. JobsHold'
  BY <1>1, <1>2, TwoProjections, ClaimHolds
<1> HIDE DEF held
<1>6. PICK p : p = [q EXCEPT !.phase = "chunk", !.held = held]
  OBVIOUS
<1>7. /\ p \in Process /\ p.phase = "chunk" /\ p.held = held /\ p.made = q.made /\ p.answer = q.answer
  <2>1. "chunk" \in {"idle", "look", "upsert", "chunk", "ack", "index"}
    OBVIOUS
  <2> HIDE DEF q
  <2>2. p \in Process
    BY <1>2, <1>4, <1>6, <2>1, Zenon DEF Process
  <2> QED BY <1>2, <1>6, <2>2 DEF Process
<1>8. ProcessHolds(s, p)
  <2>1. \A i \in 1..Len(p.held) : p.held[i].event \in 1..Len(events)
    <3>1. Len(jobs) = Len(events)
      BY Lengths
    <3> QED BY <1>3, <1>4, <1>7, <3>1
  <2>2. p.made <= Len(events) /\ p.answer = "none"
    BY <1>1, <1>2, <1>7 DEF ProcessHolds
  <2> QED BY <1>4, <1>7, <2>1, <2>2 DEF ProcessHolds
<1>9. ProcessHolds(s, p)'
  BY <1>1, <1>8 DEF ProcessHolds
<1>10. faults' \in 0..MaxFaults /\ chunked \subseteq chunked' /\ indexed \subseteq indexed'
       /\ sync' = [sync EXCEPT ![s] = p]
  BY <1>1, <1>6, FaultCounted
<1> HIDE DEF q
<1> QED BY <1>1, <1>5, <1>9, <1>10, ProcessMoves

\* What a process that projects has claimed.
LEMMA FirstHeld ==
  ASSUME LedgerInv, NEW s \in Syncs, sync[s].phase \in {"chunk", "ack", "index"}
  PROVE  /\ sync[s].held \in Seq([event : Nat, try : Nat]) /\ sync[s].held # <<>>
         /\ Len(sync[s].held) \in Nat \ {0}
         /\ sync[s].held[1].event \in 1..Len(jobs) /\ sync[s].held[1].event \in 1..Len(events)
<1>1. sync[s] \in Process /\ ProcessHolds(s, sync[s]) /\ Len(jobs) = Len(events)
  BY ProcessNow, Lengths
<1>2. sync[s].held \in Seq([event : Nat, try : Nat])
  BY <1>1 DEF Process
<1>3. sync[s].held # <<>>
  BY <1>1 DEF ProcessHolds
<1>4. Len(sync[s].held) \in Nat \ {0}
  BY <1>2, <1>3
<1>5. sync[s].held[1].event \in 1..Len(events)
  BY <1>1, <1>4 DEF ProcessHolds
<1> QED BY <1>1, <1>2, <1>3, <1>4, <1>5

LEMMA ChunkKeeps ==
  ASSUME LedgerInv, NEW s \in Syncs, Chunk(s)
  PROVE  LedgerInv'
<1> DEFINE q == sync[s]
           e == q.held[1].event
<1>1. /\ q.phase = "chunk" /\ chunked' = chunked \cup {e}
      /\ sync' = [sync EXCEPT ![s] = [q EXCEPT !.phase = "ack"]]
      /\ UNCHANGED <<source, inputs, events, live>>
      /\ events' = events /\ jobs' = jobs /\ indexed' = indexed /\ faults' = faults
  BY DEF Chunk, Chunked
<1>2. q \in Process /\ ProcessHolds(s, q) /\ JobsHold
  BY ProcessNow DEF LedgerInv
<1>3. e \in 1..Len(events) /\ q.held # <<>>
  BY <1>1, FirstHeld
<1>4. JobsHold'
  BY <1>1, <1>2, <1>3 DEF JobsHold
<1>5. PICK p : p = [q EXCEPT !.phase = "ack"]
  OBVIOUS
<1>6. p \in Process /\ p.phase = "ack" /\ p.held = q.held /\ p.made = q.made /\ p.answer = q.answer
  <2>1. "ack" \in {"idle", "look", "upsert", "chunk", "ack", "index"}
    OBVIOUS
  <2> HIDE DEF q
  <2>2. p \in Process
    BY <1>2, <1>5, <2>1, Zenon DEF Process
  <2> QED BY <1>2, <1>5, <2>2 DEF Process
<1>7. ProcessHolds(s, p)'
  <2>1. p.held[1].event \in chunked'
    BY <1>1, <1>6
  <2>2. p.made <= Len(events') /\ p.answer = "none" /\ \A i \in 1..Len(p.held) : p.held[i].event \in 1..Len(events')
    BY <1>1, <1>2, <1>6 DEF ProcessHolds
  <2> HIDE DEF q, e
  <2> QED BY <1>3, <1>6, <2>1, <2>2 DEF ProcessHolds
<1>8. faults' \in 0..MaxFaults /\ chunked \subseteq chunked' /\ indexed \subseteq indexed'
      /\ sync' = [sync EXCEPT ![s] = p]
  BY <1>1, <1>5, FaultCounted
<1> HIDE DEF q, e
<1> QED BY <1>1, <1>4, <1>7, <1>8, ProcessMoves

LEMMA AckChunkKeeps ==
  ASSUME LedgerInv, NEW s \in Syncs, AckChunk(s)
  PROVE  LedgerInv'
<1> DEFINE q == sync[s]
           h == q.held[1]
<1>1. /\ q.phase = "ack"
      /\ \/ /\ Owns("chunks", h) /\ jobs' = [jobs EXCEPT ![h.event]["chunks"].status = "applied"]
            /\ sync' = [sync EXCEPT ![s] = [q EXCEPT !.phase = "look", !.held = <<>>]]
         \/ jobs' = jobs /\ Fails(s)
      /\ UNCHANGED <<source, inputs, events, live>> /\ UNCHANGED <<events, chunked, indexed>>
      /\ UNCHANGED <<source, inputs, events, live, chunked, indexed>>
      /\ events' = events /\ chunked' = chunked /\ indexed' = indexed /\ faults' = faults
  BY DEF AckChunk, Acked
<1>2. q \in Process /\ ProcessHolds(s, q) /\ JobsHold
  BY ProcessNow DEF LedgerInv
<1>3. h.event \in 1..Len(jobs) /\ h.event \in chunked
  BY <1>1, <1>2, FirstHeld DEF ProcessHolds
<1>4. faults' \in 0..MaxFaults
  BY <1>1, FaultCounted
<1>5. CASE jobs' = jobs /\ Fails(s)
  <2>1. JobsHold'
    BY <1>1, <1>2, <1>5 DEF JobsHold
  <2> HIDE DEF q, h
  <2> QED BY <1>1, <1>4, <1>5, <2>1, FailingKeeps
<1>6. CASE /\ jobs' = [jobs EXCEPT ![h.event]["chunks"].status = "applied"]
           /\ sync' = [sync EXCEPT ![s] = [q EXCEPT !.phase = "look", !.held = <<>>]]
  <2>1. JobsHold'
    <3>1. "applied" \in {"due", "processing", "expired", "waiting", "dead", "applied"}
          /\ ("applied" = "applied" => IF "chunks" = "chunks" THEN h.event \in chunked ELSE h.event \in indexed)
      BY <1>3
    <3> HIDE DEF q, h
    <3> QED BY <1>1, <1>2, <1>3, <1>6, <3>1, TwoProjections, JobSetHolds
  <2>2. PICK p : p = [q EXCEPT !.phase = "look", !.held = <<>>]
    OBVIOUS
  <2>3. p \in Process /\ p.phase = "look" /\ p.held = <<>> /\ p.made = q.made /\ p.answer = q.answer
    <3>1. "look" \in {"idle", "look", "upsert", "chunk", "ack", "index"} /\ <<>> \in Seq([event : Nat, try : Nat])
      OBVIOUS
    <3> HIDE DEF q
    <3>2. p \in Process
      BY <1>2, <2>2, <3>1, Zenon DEF Process
    <3> QED BY <1>2, <2>2, <3>2 DEF Process
  <2>4. ProcessHolds(s, p)'
    <3>1. p.made <= Len(events') /\ p.answer = "none"
      BY <1>1, <1>2, <2>3 DEF ProcessHolds
    <3> HIDE DEF q, h
    <3> QED BY <2>3, <3>1 DEF ProcessHolds
  <2>5. chunked \subseteq chunked' /\ indexed \subseteq indexed' /\ sync' = [sync EXCEPT ![s] = p]
    BY <1>1, <1>6, <2>2
  <2> HIDE DEF q, h
  <2> QED BY <1>1, <1>4, <2>1, <2>4, <2>5, ProcessMoves
<1> HIDE DEF q, h
<1> QED BY <1>1, <1>5, <1>6

LEMMA ChunkFailsKeeps ==
  ASSUME LedgerInv, NEW s \in Syncs, ChunkFails(s)
  PROVE  LedgerInv'
<1> DEFINE h == sync[s].held[1]
           after == IF h.try >= MaxAttempts THEN "dead" ELSE "waiting"
<1>1. /\ sync[s].phase = "chunk" /\ faults < MaxFaults /\ faults' = faults + 1 /\ Fails(s)
      /\ jobs' = IF Owns("chunks", h) THEN [jobs EXCEPT ![h.event]["chunks"].status = after] ELSE jobs
      /\ UNCHANGED <<source, inputs, events, live, chunked, indexed>> /\ UNCHANGED <<events, chunked, indexed>>
  BY DEF ChunkFails
<1>2. JobsHold /\ h.event \in 1..Len(jobs)
  BY <1>1, FirstHeld DEF LedgerInv
<1>3. after \in {"due", "processing", "expired", "waiting", "dead", "applied"} /\ after # "applied"
  OBVIOUS
<1> HIDE DEF h, after
<1>4. JobsHold'
  <2>1. CASE Owns("chunks", h)
    BY <1>1, <1>2, <1>3, <2>1, TwoProjections, JobSetHolds
  <2>2. CASE ~Owns("chunks", h)
    BY <1>1, <1>2, <2>2 DEF JobsHold
  <2> QED BY <2>1, <2>2
<1>5. faults' \in 0..MaxFaults
  BY <1>1, FaultCounted
<1> QED BY <1>1, <1>4, <1>5, FailingKeeps

LEMMA ClaimIndexKeeps ==
  ASSUME LedgerInv, NEW s \in Syncs, ClaimIndex(s)
  PROVE  LedgerInv'
<1> DEFINE E == Due("fts")
           q == sync[s]
           held == Held("fts", E)
<1>1. /\ q.phase = "look" /\ q.todo = {} /\ E # {}
      /\ jobs' = Claim("fts", E)
      /\ sync' = [sync EXCEPT ![s] = [q EXCEPT !.phase = "index", !.held = held]]
      /\ UNCHANGED <<source, inputs, events, live>> /\ UNCHANGED <<events, chunked, indexed>>
      /\ events' = events /\ chunked' = chunked /\ indexed' = indexed /\ faults' = faults
  BY DEF ClaimIndex, Draining
<1>2. q \in Process /\ ProcessHolds(s, q) /\ JobsHold
  BY ProcessNow DEF LedgerInv
<1>3. E \in SUBSET (1..Len(jobs)) /\ Len(jobs) = Len(events)
  BY Lengths DEF Due
<1> HIDE DEF E
<1>4. /\ held \in Seq([event : Nat, try : Nat]) /\ held # <<>>
      /\ \A i \in 1..Len(held) : held[i].event \in E
  BY <1>1, <1>2, <1>3, TwoProjections, HeldIs
<1>5. JobsHold'
  BY <1>1, <1>2, TwoProjections, ClaimHolds
<1> HIDE DEF held
<1>6. PICK p : p = [q EXCEPT !.phase = "index", !.held = held]
  OBVIOUS
<1>7. /\ p \in Process /\ p.phase = "index" /\ p.held = held /\ p.made = q.made /\ p.answer = q.answer
  <2>1. "index" \in {"idle", "look", "upsert", "chunk", "ack", "index"}
    OBVIOUS
  <2> HIDE DEF q
  <2>2. p \in Process
    BY <1>2, <1>4, <1>6, <2>1, Zenon DEF Process
  <2> QED BY <1>2, <1>6, <2>2 DEF Process
<1>8. ProcessHolds(s, p)
  <2>1. \A i \in 1..Len(p.held) : p.held[i].event \in 1..Len(events)
    BY <1>3, <1>4, <1>7
  <2>2. p.made <= Len(events) /\ p.answer = "none"
    BY <1>1, <1>2, <1>7 DEF ProcessHolds
  <2> QED BY <1>4, <1>7, <2>1, <2>2 DEF ProcessHolds
<1>9. ProcessHolds(s, p)'
  BY <1>1, <1>8 DEF ProcessHolds
<1>10. faults' \in 0..MaxFaults /\ chunked \subseteq chunked' /\ indexed \subseteq indexed'
       /\ sync' = [sync EXCEPT ![s] = p]
  BY <1>1, <1>6, FaultCounted
<1> HIDE DEF q
<1> QED BY <1>1, <1>5, <1>9, <1>10, ProcessMoves

LEMMA IndexKeeps ==
  ASSUME LedgerInv, NEW s \in Syncs, Index(s)
  PROVE  LedgerInv'
<1> DEFINE q == sync[s]
           h == Head(q.held)
           rest == Tail(q.held)
           phase == IF rest = <<>> THEN "look" ELSE q.phase
<1>1. /\ q.phase = "index"
      /\ \/ /\ h.event \in indexed /\ Owns("fts", h) /\ jobs' = [jobs EXCEPT ![h.event]["fts"].status = "applied"]
            /\ sync' = [sync EXCEPT ![s].held = rest, ![s].phase = IF rest = <<>> THEN "look" ELSE @]
         \/ jobs' = jobs /\ Fails(s)
      /\ UNCHANGED <<source, inputs, events, live>> /\ UNCHANGED <<events, chunked, indexed>>
      /\ UNCHANGED <<source, inputs, events, live, chunked, indexed>>
      /\ events' = events /\ chunked' = chunked /\ indexed' = indexed /\ faults' = faults
  BY DEF Index, Acked
<1>2. q \in Process /\ ProcessHolds(s, q) /\ JobsHold /\ SyncsHold
  BY ProcessNow DEF LedgerInv
<1>3. /\ h.event \in 1..Len(jobs) /\ rest \in Seq([event : Nat, try : Nat])
      /\ \A i \in 1..Len(rest) : rest[i].event \in 1..Len(events)
  <2>1. /\ q.held \in Seq([event : Nat, try : Nat]) /\ Len(q.held) \in Nat \ {0} /\ q.held # <<>>
        /\ q.held[1].event \in 1..Len(jobs)
    BY <1>1, FirstHeld
  <2>2. \A i \in 1..Len(q.held) : q.held[i].event \in 1..Len(events)
    BY <1>2 DEF ProcessHolds
  <2> DEFINE items == q.held
  <2> HIDE DEF items
  <2>3. items \in Seq([event : Nat, try : Nat]) /\ Len(items) \in Nat \ {0} /\ items # <<>> /\ items[1].event \in 1..Len(jobs)
        /\ \A i \in 1..Len(items) : items[i].event \in 1..Len(events)
    BY <2>1, <2>2 DEF items
  <2>4. /\ Head(items) = items[1] /\ Tail(items) \in Seq([event : Nat, try : Nat])
        /\ \A i \in 1..Len(Tail(items)) : Tail(items)[i] = items[i + 1] /\ i + 1 \in 1..Len(items)
    BY <2>3
  <2>5. \A i \in 1..Len(Tail(items)) : Tail(items)[i].event \in 1..Len(events)
    BY <2>3, <2>4
  <2> QED BY <2>3, <2>4, <2>5 DEF items
<1>4. faults' \in 0..MaxFaults
  BY <1>1, FaultCounted
<1>5. CASE jobs' = jobs /\ Fails(s)
  <2>1. JobsHold'
    BY <1>1, <1>2, <1>5 DEF JobsHold
  <2> HIDE DEF q, h, rest
  <2> QED BY <1>1, <1>4, <1>5, <2>1, FailingKeeps
<1>6. CASE /\ h.event \in indexed /\ jobs' = [jobs EXCEPT ![h.event]["fts"].status = "applied"]
           /\ sync' = [sync EXCEPT ![s].held = rest, ![s].phase = IF rest = <<>> THEN "look" ELSE @]
  <2>1. JobsHold'
    <3>1. "applied" \in {"due", "processing", "expired", "waiting", "dead", "applied"}
          /\ ("applied" = "applied" => IF "fts" = "chunks" THEN h.event \in chunked ELSE h.event \in indexed)
      BY <1>6
    <3> HIDE DEF q, h, rest
    <3> QED BY <1>1, <1>2, <1>3, <1>6, <3>1, TwoProjections, JobSetHolds
  <2>2. PICK p : p = [q EXCEPT !.held = rest, !.phase = phase]
    OBVIOUS
  <2>3. sync' = [sync EXCEPT ![s] = p]
    <3> HIDE DEF rest
    <3>1. sync \in [Syncs -> Process]
      BY <1>2 DEF SyncsHold
    <3>2. [sync EXCEPT ![s].held = rest, ![s].phase = IF rest = <<>> THEN "look" ELSE @]
            = [sync EXCEPT ![s] = [q EXCEPT !.held = rest, !.phase = phase]]
      BY <3>1, <1>2 DEF Process
    <3> QED BY <1>6, <2>2, <3>2
  <2>4. p \in Process /\ p.phase \in {"look", "index"} /\ p.held = rest /\ p.made = q.made /\ p.answer = q.answer
        /\ (p.phase = "index" => rest # <<>>)
    <3>1. phase \in {"idle", "look", "upsert", "chunk", "ack", "index"} /\ phase \in {"look", "index"}
          /\ (phase = "index" => rest # <<>>)
      BY <1>1
    <3> HIDE DEF q, rest, phase
    <3>2. p \in Process
      BY <1>2, <1>3, <2>2, <3>1, Zenon DEF Process
    <3>3. p.phase = phase /\ p.held = rest /\ p.made = q.made /\ p.answer = q.answer
      BY <1>2, <2>2 DEF Process
    <3> QED BY <3>1, <3>2, <3>3
  <2>5. ProcessHolds(s, p)'
    <3>1. p.made <= Len(events') /\ p.answer = "none"
      BY <1>1, <1>2, <2>4 DEF ProcessHolds
    <3>2. \A i \in 1..Len(p.held) : p.held[i].event \in 1..Len(events')
      BY <1>1, <1>3, <2>4
    <3> HIDE DEF q, rest, phase
    <3> QED BY <2>4, <3>1, <3>2 DEF ProcessHolds
  <2>6. chunked \subseteq chunked' /\ indexed \subseteq indexed'
    BY <1>1
  <2> HIDE DEF q, h, rest
  <2> QED BY <1>1, <1>4, <2>1, <2>3, <2>5, <2>6, ProcessMoves
<1> HIDE DEF q, h, rest
<1> QED BY <1>1, <1>5, <1>6

LEMMA FinishKeeps ==
  ASSUME LedgerInv, NEW s \in Syncs, Finish(s)
  PROVE  LedgerInv'
<1> DEFINE made == sync[s].made
<1>1. /\ \/ Converged(s) /\ sync' = [sync EXCEPT ![s] = [Resting EXCEPT !.made = made, !.answer = "ok"]]
         \/ Fails(s)
      /\ UNCHANGED <<source, inputs, events, live>> /\ UNCHANGED <<source, inputs, events, live, chunked, indexed>>
      /\ events' = events /\ jobs' = jobs /\ chunked' = chunked /\ indexed' = indexed /\ faults' = faults
  BY DEF Finish
<1>2. sync[s] \in Process /\ ProcessHolds(s, sync[s]) /\ JobsHold
  BY ProcessNow DEF LedgerInv
<1>3. faults' \in 0..MaxFaults /\ JobsHold' /\ chunked \subseteq chunked' /\ indexed \subseteq indexed'
  <2>1. faults' \in 0..MaxFaults
    BY <1>1, FaultCounted
  <2> QED BY <1>1, <1>2, <2>1 DEF JobsHold
<1>4. CASE Fails(s)
  BY <1>1, <1>3, <1>4, FailingKeeps
<1>5. CASE Converged(s) /\ sync' = [sync EXCEPT ![s] = [Resting EXCEPT !.made = made, !.answer = "ok"]]
  <2>1. PICK p : p = [Resting EXCEPT !.made = made, !.answer = "ok"]
    OBVIOUS
  <2>2. made \in Nat /\ made <= Len(events) /\ Len(events) \in Nat /\ Len(jobs) = Len(events)
    BY <1>2, Lengths DEF ProcessHolds, Process
  <2>3. s \in Strict /\ made # 0 => made \in chunked \cap indexed
    <3> SUFFICES ASSUME s \in Strict, made # 0 PROVE made \in chunked \cap indexed
      OBVIOUS
    <3>1. jobs[made]["chunks"].status = "applied" /\ jobs[made]["fts"].status = "applied"
      BY <1>5, TwoProjections DEF Converged
    <3>2. made \in 1..Len(jobs)
      BY <2>2
    <3> HIDE DEF made
    <3> QED BY <1>2, <3>1, <3>2 DEF JobsHold
  <2>4. Resting \in Process
    BY <2>2, RestingHolds DEF ProcessHolds
  <2>5. /\ p \in Process /\ p.made = made /\ p.answer = "ok" /\ p.phase = "idle" /\ p.held = <<>>
    <3>1. "ok" \in {"none", "ok"}
      OBVIOUS
    <3> HIDE DEF made
    <3>2. p \in Process
      BY <2>1, <2>2, <2>4, <3>1, Zenon DEF Process
    <3>3. Resting.phase = "idle" /\ Resting.held = <<>>
      BY DEF Resting
    <3> QED BY <2>1, <2>4, <3>2, <3>3 DEF Process
  <2>6. ProcessHolds(s, p)'
    <3> HIDE DEF made
    <3>1. p.made <= Len(events') /\ (s \in Strict /\ p.made # 0 => p.made \in chunked' \cap indexed')
      BY <1>1, <2>2, <2>3, <2>5
    <3> QED BY <2>5, <3>1 DEF ProcessHolds
  <2>7. sync' = [sync EXCEPT ![s] = p]
    BY <1>5, <2>1
  <2> HIDE DEF made
  <2> QED BY <1>1, <1>3, <2>6, <2>7, ProcessMoves
<1> HIDE DEF made
<1> QED BY <1>1, <1>4, <1>5

LEMMA CrashKeeps ==
  ASSUME LedgerInv, NEW s \in Syncs, Crash(s)
  PROVE  LedgerInv'
<1>1. /\ faults < MaxFaults /\ faults' = faults + 1 /\ Fails(s)
      /\ UNCHANGED <<source, inputs, events, live, chunked, indexed>>
      /\ events' = events /\ jobs' = jobs /\ chunked' = chunked /\ indexed' = indexed
  BY DEF Crash
<1>2. JobsHold'
  BY <1>1 DEF LedgerInv, JobsHold
<1>3. faults' \in 0..MaxFaults
  BY <1>1, FaultCounted
<1> QED BY <1>1, <1>2, <1>3, FailingKeeps

LEMMA LaterKeeps ==
  ASSUME LedgerInv, NEW k \in Projections, NEW e \in DOMAIN jobs, Later(k, e)
  PROVE  LedgerInv'
<1>1. PICK status \in {"due", "expired"} : jobs' = [jobs EXCEPT ![e][k].status = status]
  BY DEF Later
<1>2. UNCHANGED <<events, chunked, indexed>> /\ UNCHANGED <<events, live>> /\ source' = source /\ inputs' = inputs
      /\ events' = events /\ sync' = sync /\ chunked' = chunked /\ indexed' = indexed
      /\ (faults' = faults \/ (faults < MaxFaults /\ faults' = faults + 1))
  <2>1. UNCHANGED <<source, inputs, events, live, chunked, indexed, sync>>
    BY Zenon DEF Later
  <2>2. faults' = faults \/ (faults < MaxFaults /\ faults' = faults + 1)
    BY DEF Later
  <2> QED BY <2>1, <2>2
<1>3. CountsHold /\ EventsHold /\ JobsHold /\ SyncsHold
  BY DEF LedgerInv
<1>4. e \in 1..Len(jobs) /\ status \in {"due", "processing", "expired", "waiting", "dead", "applied"}
      /\ status # "applied"
  BY Lengths
<1>5. JobsHold'
  BY <1>1, <1>2, <1>3, <1>4, JobSetHolds
<1>6. EventsHold'
  BY <1>2, <1>3, EventsStay
<1>7. SyncsHold'
  <2>1. Len(events) \in Nat /\ Len(events') \in Nat /\ Len(events) <= Len(events')
    BY <1>2, Lengths
  <2> QED BY <1>2, <1>3, <2>1, ProcessesIdle
<1>8. CountsHold'
  <2>1. faults' \in 0..MaxFaults
    BY <1>2, FaultCounted
  <2> QED BY <1>2, <1>3, <2>1 DEF CountsHold
<1> QED BY <1>5, <1>6, <1>7, <1>8 DEF LedgerInv

LEMMA LedgerSteps == LedgerInv /\ [LedgerNext]_ledgerVars => LedgerInv'
<1> SUFFICES ASSUME LedgerInv, [LedgerNext]_ledgerVars PROVE LedgerInv'
  OBVIOUS
<1>1. CASE \E m \in Messages, said \in Contents : Edit(m, said)
  BY <1>1, EditKeeps
<1>2. CASE \E x \in Assertions : Remember(x)
  BY <1>2, RememberKeeps
<1>3. ASSUME NEW s \in Syncs, Start(s) \/ Step(s) \/ ChunkFails(s) \/ Crash(s) PROVE LedgerInv'
  BY <1>3, StartKeeps, LookKeeps, UpsertKeeps, ClaimChunkKeeps, ChunkKeeps, AckChunkKeeps, ClaimIndexKeeps,
     IndexKeeps, FinishKeeps, ChunkFailsKeeps, CrashKeeps DEF Step
<1>4. CASE TimePasses
  BY <1>4, LaterKeeps DEF TimePasses
<1>5. CASE UNCHANGED ledgerVars
  <2>1. UNCHANGED <<events, live>> /\ source' = source /\ inputs' = inputs /\ events' = events /\ jobs' = jobs
        /\ chunked' = chunked /\ indexed' = indexed /\ sync' = sync /\ faults' = faults
    BY <1>5, Zenon DEF ledgerVars
  <2>2. CountsHold /\ EventsHold /\ JobsHold /\ SyncsHold
    BY DEF LedgerInv
  <2>3. CountsHold'
    BY <2>1, <2>2 DEF CountsHold
  <2>4. EventsHold'
    BY <2>1, <2>2, EventsStay
  <2>5. JobsHold'
    BY <2>1, <2>2 DEF JobsHold
  <2>6. SyncsHold'
    <3>1. Len(events) \in Nat /\ Len(events') \in Nat /\ Len(events) <= Len(events')
      BY <2>1, Lengths
    <3> QED BY <2>1, <2>2, <3>1, ProcessesIdle
  <2> QED BY <2>3, <2>4, <2>5, <2>6 DEF LedgerInv
<1> QED BY <1>1, <1>2, <1>3, <1>4, <1>5 DEF LedgerNext

-----------------------------------------------------------------------------
(* The ledger: the properties follow                                       *)

\* A revision is the first, or follows the one listed before it.
LEMMA FormerListed ==
  ASSUME NEW n \in Nat, NEW ev, NEW x, NEW revs, NEW S, S = {e \in 1..n : ev[e].of = x}, Len(ev) = n,
         InOrder(revs, S), \A e \in 1..n : HasFormer(ev, e), NEW i \in 1..Len(revs)
  PROVE  \/ i = 1 /\ ev[revs[i]].rev = 1
         \/ i > 1 /\ Follows(ev, revs[i - 1], revs[i])
<1>1. Len(revs) \in Nat /\ \A j \in 1..Len(revs) : revs[j] \in S
  BY DEF InOrder
<1>2. \A j, k \in 1..Len(revs) : j < k => revs[j] < revs[k]
  BY DEF InOrder
<1>3. \A e \in S : e \in 1..n /\ e \in Nat /\ ev[e].of = x
  OBVIOUS
<1> DEFINE e == revs[i]
<1>4. e \in S /\ e \in 1..n /\ ev[e].of = x
  BY <1>1, <1>3
<1>5. CASE ev[e].rev = 1 /\ \A c \in 1..n : c < e => ev[c].of # ev[e].of
  <2>1. i = 1
    <3> SUFFICES ASSUME i # 1 PROVE FALSE
      OBVIOUS
    <3>1. 1 \in 1..Len(revs) /\ 1 < i
      BY <1>1
    <3>2. revs[1] < e /\ revs[1] \in 1..n /\ ev[revs[1]].of = x
      BY <3>1, <1>1, <1>2, <1>3
    <3> QED BY <3>2, <1>4, <1>5
  <2> QED BY <2>1, <1>5
<1>6. CASE \E d \in 1..n : Follows(ev, d, e)
  <2>1. PICK d \in 1..n : Follows(ev, d, e)
    BY <1>6
  <2>2. d < e /\ ev[d].of = x /\ \A c \in 1..n : d < c /\ c < e => ev[c].of # x
    BY <2>1, <1>4 DEF Follows
  <2>3. d \in S
    BY <2>2
  <2>4. PICK j \in 1..Len(revs) : revs[j] = d
    BY <2>3 DEF InOrder
  <2>5. j < i
    <3> SUFFICES ASSUME ~(j < i) PROVE FALSE
      OBVIOUS
    <3>1. j = i \/ i < j
      BY <1>1
    <3>2. e = d \/ e < d
      BY <3>1, <2>4, <1>2
    <3> QED BY <3>2, <2>2, <1>4
  <2>6. j = i - 1
    <3> SUFFICES ASSUME j # i - 1 PROVE FALSE
      OBVIOUS
    <3>1. j < i - 1 /\ i - 1 \in 1..Len(revs) /\ i - 1 < i
      BY <1>1, <2>5
    <3> DEFINE c == revs[i - 1]
    <3>2. d < c /\ c < e
      BY <3>1, <2>4, <1>2
    <3>3. c \in 1..n /\ ev[c].of = x
      BY <3>1, <1>1, <1>3
    <3> HIDE DEF c, e
    <3> QED BY <3>2, <3>3, <2>2
  <2> QED BY <2>1, <2>4, <2>5, <2>6
<1>7. HasFormer(ev, e)
  BY <1>4
<1> HIDE DEF e
<1> QED BY <1>5, <1>6, <1>7 DEF HasFormer, e

\* What OneHistory says of x, for the list of its revisions.
Listed(ev, revs, last) ==
  /\ last = IF revs = <<>> THEN 0 ELSE revs[Len(revs)]
  /\ \A i \in DOMAIN revs :
       /\ ev[revs[i]].rev = i
       /\ ev[revs[i]].state = IF i = Len(revs) THEN "active" ELSE "superseded"
       /\ i > 1 => \/ ev[revs[i]].text # ev[revs[i - 1]].text
                   \/ ev[revs[i]].mode # ev[revs[i - 1]].mode

LEMMA HistoryListed ==
  ASSUME NEW n \in Nat, NEW ev, NEW x, NEW revs, NEW S, S = {e \in 1..n : ev[e].of = x}, Len(ev) = n,
         InOrder(revs, S), \A e \in 1..n : HasFormer(ev, e), NEW last \in 0..n, KnownByLast(ev, x, last),
         \A e \in 1..n : ev[e].state \in {"active", "superseded"}
  PROVE  Listed(ev, revs, last)
<1> DEFINE l == Len(revs)
<1>1. /\ l \in Nat /\ DOMAIN revs = 1..l /\ \A j \in 1..l : revs[j] \in S
      /\ revs = <<>> <=> l = 0
  BY DEF InOrder
<1>2. \A j, k \in 1..l : j < k => revs[j] < revs[k]
  BY DEF InOrder
<1>3. \A e \in S : e \in 1..n /\ e \in Nat /\ ev[e].of = x
  OBVIOUS
<1>4. \A e \in S : \E j \in 1..l : revs[j] = e
  BY DEF InOrder
<1>5. \A i \in 1..l : \/ i = 1 /\ ev[revs[i]].rev = 1
                      \/ i > 1 /\ Follows(ev, revs[i - 1], revs[i])
  BY FormerListed
<1> HIDE DEF l
<1>6. \A e \in S : e <= last /\ (ev[e].state = "active" <=> e = last)
  BY <1>3 DEF KnownByLast
<1>7. last # 0 => last \in S
  BY DEF KnownByLast
<1>8. l = 0 => last = 0
  <2> SUFFICES ASSUME l = 0, last # 0 PROVE FALSE
    OBVIOUS
  <2>1. PICK j \in 1..l : revs[j] = last
    BY <1>4, <1>7
  <2> QED BY <2>1
<1>9. l # 0 => last = revs[l]
  <2> SUFFICES ASSUME l # 0 PROVE last = revs[l]
    OBVIOUS
  <2>1. l \in 1..l
    BY <1>1
  <2>2. revs[l] \in S /\ revs[l] \in 1..n /\ revs[l] <= last
    BY <1>1, <1>3, <1>6, <2>1
  <2>3. last \in S
    BY <1>7, <2>2
  <2>4. PICK j \in 1..l : revs[j] = last
    BY <1>4, <2>3
  <2>5. j = l \/ j < l
    BY <1>1
  <2>6. j < l => revs[j] < revs[l]
    BY <1>2, <2>1
  <2> QED BY <2>2, <2>4, <2>5, <2>6
<1> DEFINE A == {i \in 0..l : i = 0 \/ ev[revs[i]].rev = i}
<1>10. \A i \in 0..l : i \in A
  <2>1. 0 \in A
    BY <1>1
  <2>2. ASSUME NEW i \in 1..l, i - 1 \in A PROVE i \in A
    <3>1. CASE i = 1 /\ ev[revs[i]].rev = 1
      BY <3>1, <1>1
    <3>2. CASE i > 1 /\ Follows(ev, revs[i - 1], revs[i])
      <4>1. ev[revs[i - 1]].rev = i - 1
        BY <2>2, <3>2
      <4>2. ev[revs[i]].rev = i
        BY <3>2, <4>1, <1>1 DEF Follows
      <4> QED BY <4>2, <1>1
    <3> QED BY <1>5, <3>1, <3>2
  <2> HIDE DEF A
  <2> QED BY <1>1, <2>1, <2>2, RangeInduction
<1>11. ASSUME NEW i \in 1..l
       PROVE  /\ ev[revs[i]].rev = i
              /\ ev[revs[i]].state = IF i = l THEN "active" ELSE "superseded"
              /\ i > 1 => \/ ev[revs[i]].text # ev[revs[i - 1]].text
                          \/ ev[revs[i]].mode # ev[revs[i - 1]].mode
  <2>1. ev[revs[i]].rev = i
    <3>1. i \in 0..l /\ i # 0
      BY <1>1
    <3> QED BY <3>1, <1>10
  <2>2. i = l <=> revs[i] = last
    <3>1. l \in 1..l /\ l # 0
      BY <1>1
    <3>2. i # l => i < l
      BY <1>1
    <3>3. revs[l] \in Nat
      BY <1>1, <1>3, <3>1
    <3>4. i # l => revs[i] < revs[l]
      BY <1>2, <3>1, <3>2
    <3>5. revs[i] \in Nat
      BY <1>1, <1>3
    <3> QED BY <1>9, <3>1, <3>3, <3>4, <3>5
  <2>3. revs[i] \in S /\ revs[i] \in 1..n
    BY <1>1, <1>3
  <2>4. ev[revs[i]].state = IF i = l THEN "active" ELSE "superseded"
    <3>1. ev[revs[i]].state \in {"active", "superseded"} /\ (ev[revs[i]].state = "active" <=> revs[i] = last)
      BY <1>6, <2>3
    <3> QED BY <2>2, <3>1
  <2>5. i > 1 => Follows(ev, revs[i - 1], revs[i])
    BY <1>5
  <2> QED BY <2>1, <2>4, <2>5 DEF Follows
<1> QED BY <1>1, <1>8, <1>9, <1>11 DEF Listed, l

LEMMA HistoryIsOne == LedgerInv => OneHistory
<1> SUFFICES ASSUME LedgerInv, NEW x \in Known PROVE Listed(events, RevisionsOf(x), live[x])
  BY Zenon DEF OneHistory, Listed, Known
<1> DEFINE n == Len(events)
           S == {e \in 1..n : events[e].of = x}
<1>1. n \in Nat /\ DOMAIN events = 1..n /\ EventsHold
  BY Lengths DEF LedgerInv
<1>2. RevisionsOf(x) = Ascending(S)
  BY <1>1 DEF RevisionsOf
<1>3. S \in SUBSET (0..n)
  BY <1>1
<1>4. InOrder(RevisionsOf(x), S)
  <2> HIDE DEF S, n
  <2> QED BY <1>1, <1>2, <1>3, AscendingIs
<1>5. PICK revs : revs = RevisionsOf(x)
  OBVIOUS
<1>6. \A e \in 1..n : events[e].state \in {"active", "superseded"}
  <2>1. \A e \in 1..n : events[e] \in EventRow
    BY <1>1 DEF EventsHold
  <2> QED BY <2>1 DEF EventRow
<1>7. live[x] \in 0..n /\ KnownByLast(events, x, live[x]) /\ \A e \in 1..n : HasFormer(events, e)
  BY <1>1 DEF EventsHold
<1>8. PICK s : s = S
  OBVIOUS
<1>9. InOrder(revs, s) /\ s = {e \in 1..n : events[e].of = x} /\ Len(events) = n
  BY <1>4, <1>5, <1>8
<1>10. Listed(events, revs, live[x])
  <2> HIDE DEF S, n
  <2> QED BY <1>1, <1>6, <1>7, <1>9, HistoryListed
<1> QED BY <1>5, <1>10

LEMMA AppliedHolds == LedgerInv => AppliedIsThere
<1> SUFFICES ASSUME LedgerInv PROVE AppliedIsThere
  OBVIOUS
<1>1. JobsHold /\ DOMAIN jobs = 1..Len(jobs) /\ DOMAIN events = 1..Len(events) /\ Len(events) \in Nat
  BY Lengths DEF LedgerInv
<1>2. ASSUME NEW e \in DOMAIN jobs
      PROVE  (jobs[e].chunks.status = "applied" => e \in chunked) /\ (jobs[e].fts.status = "applied" => e \in indexed)
  BY <1>1 DEF JobsHold
<1>3. ASSUME NEW s \in Strict, sync[s].answer = "ok", sync[s].made # 0
      PROVE  /\ sync[s].made \in chunked \cap indexed
             /\ events[sync[s].made].state = "active" => sync[s].made \in Recallable(events[sync[s].made].mode)
  <2>1. s \in Syncs
    BY LedgerAssumption
  <2>2. sync[s] \in Process /\ ProcessHolds(s, sync[s])
    BY <2>1, ProcessNow
  <2>3. sync[s].made \in chunked \cap indexed
    BY <1>3, <2>2 DEF ProcessHolds
  <2>4. sync[s].made \in DOMAIN events
    BY <1>1, <2>3 DEF JobsHold
  <2> QED BY <2>3, <2>4 DEF Recallable
<1> QED BY <1>2, <1>3, Zenon DEF AppliedIsThere

LEMMA LedgerTyped == LedgerInv => LedgerTypeOK
<1> SUFFICES ASSUME LedgerInv PROVE LedgerTypeOK
  OBVIOUS
<1>1. CountsHold /\ EventsHold /\ JobsHold
  BY DEF LedgerInv
<1>2. Len(events) \in Nat /\ DOMAIN events = 1..Len(events) /\ DOMAIN jobs = 1..Len(events)
  BY Lengths
<1>3. \A e \in DOMAIN events : events[e].of \in Messages \cup Assertions /\ events[e].rev \in 1..e
  <2> SUFFICES ASSUME NEW e \in DOMAIN events
               PROVE  events[e].of \in Messages \cup Assertions /\ events[e].rev \in 1..e
    OBVIOUS
  <2>1. events[e] \in EventRow
    BY <1>1 DEF EventsHold
  <2>2. events[e].of \in Known /\ events[e].rev \in Nat \ {0}
    BY <2>1 DEF EventRow
  <2>3. events[e].rev <= e
    BY <1>1, <1>2 DEF EventsHold
  <2> QED BY <1>2, <2>2, <2>3 DEF Known
<1>4. live \in [Messages \cup Assertions -> 0..Len(events)]
  BY <1>1 DEF EventsHold, Known
<1>5. chunked \subseteq DOMAIN events /\ indexed \subseteq DOMAIN events
  BY <1>1, <1>2 DEF JobsHold
<1> QED BY <1>1, <1>2, <1>3, <1>4, <1>5 DEF LedgerTypeOK, CountsHold

(***************************************************************************)
(* Whoever synchronizes at once, and whatever fails, a message has one     *)
(* history without gaps whose last revision is the one that counts, and    *)
(* what is said to be chunked or indexed is (TranscriptLedger).            *)
(***************************************************************************)
THEOREM LedgerIsSafe == TranscriptSpec => []LedgerSafe
<1>1. TranscriptInit => LedgerInv
  BY LedgerStart DEF TranscriptInit
<1>2. LedgerInv /\ [TranscriptNext]_transcriptVars => LedgerInv'
  <2> SUFFICES ASSUME LedgerInv, [TranscriptNext]_transcriptVars PROVE LedgerInv'
    OBVIOUS
  <2>1. CASE RunLedger
    BY <2>1, LedgerSteps DEF RunLedger
  <2>2. CASE RunChain
    BY <2>2, LedgerSteps DEF RunChain
  <2>3. CASE RunText
    BY <2>3, LedgerSteps DEF RunText
  <2>4. CASE UNCHANGED transcriptVars
    <3>1. UNCHANGED ledgerVars
      BY <2>4, Zenon DEF transcriptVars
    <3> QED BY <3>1, LedgerSteps
  <2> QED BY <2>1, <2>2, <2>3, <2>4 DEF TranscriptNext
<1>3. LedgerInv => LedgerSafe
  BY LedgerTyped, HistoryIsOne, AppliedHolds DEF LedgerSafe
<1> QED BY <1>1, <1>2, <1>3, PTL DEF TranscriptSpec

-----------------------------------------------------------------------------
(* The chain: rows, and what the backfill makes of them                    *)

Hashed == Payloads \cup {Blank}

Versions == {CurrentVersion, LegacyVersion}

Link == Nat \X Columns \X Hashed \X Versions

Row == [id : Nat, text : Payloads, meta : Columns, mode : {"work", "daily"}, sha : Hashed,
        version : Versions, rev : Payloads \cup {"none"}, prev : Seq(Link), chain : Seq(Link)]

\* The chain before row i.
Former(rs, i) == IF i = 1 THEN <<>> ELSE rs[i - 1].chain

\* A row with the hashes it should have after prev.
Made(prev, row) ==
  [row EXCEPT !.sha = row.text, !.prev = prev,
              !.chain = ChainHash(prev, row.id, [row EXCEPT !.sha = row.text]),
              !.version = IF Stripped(row) THEN LegacyVersion ELSE @]

\* A row that has them.
Fits(prev, row) == row.sha = row.text /\ row.prev = prev /\ row.chain = ChainHash(prev, row.id, row)

\* A hash tells the one before it, and what it is made of.
LEMMA HashTells ==
  ASSUME NEW prev \in Seq(Link), NEW row \in Row
  PROVE  /\ ChainHash(prev, row.id, row) \in Seq(Link)
         /\ ChainHash(prev, row.id, row) # prev
         /\ \A other \in Row : ChainHash(prev, row.id, row) = ChainHash(prev, other.id, other) =>
                                 row.meta = other.meta /\ row.sha = other.sha /\ row.version = other.version
<1> DEFINE link(r) == <<r.id, r.meta, r.sha, r.version>>
<1>1. \A r \in Row : link(r) \in Link
  BY DEF Row, Link
<1>2. \A r \in Row : ChainHash(prev, r.id, r) = Append(prev, link(r))
  BY DEF ChainHash
<1>3. \A r \in Row : /\ Append(prev, link(r)) \in Seq(Link) /\ Len(Append(prev, link(r))) = Len(prev) + 1
                     /\ Append(prev, link(r))[Len(prev) + 1] = link(r)
  <2> HIDE DEF link
  <2> QED BY <1>1
<1>4. Len(prev) # Len(prev) + 1
  OBVIOUS
<1>5. ASSUME NEW other \in Row, ChainHash(prev, row.id, row) = ChainHash(prev, other.id, other)
      PROVE  row.meta = other.meta /\ row.sha = other.sha /\ row.version = other.version
  <2>1. link(row) = link(other)
    <3> HIDE DEF link
    <3> QED BY <1>2, <1>3, <1>5
  <2> QED BY <2>1
<1> HIDE DEF link
<1> QED BY <1>2, <1>3, <1>4, <1>5

\* A row made again has its hashes; one that had none does not fit, for it is
\* stored with another version than it is hashed with.
LEMMA MadeIs ==
  ASSUME NEW prev \in Seq(Link), NEW row \in Row
  PROVE  /\ Made(prev, row) \in Row /\ Made(prev, row).sha # Blank
         /\ Made(prev, row).id = row.id /\ Made(prev, row).rev = row.rev /\ Made(prev, row).text = row.text
         /\ row.sha # Blank => Fits(prev, Made(prev, row))
         /\ row.sha = Blank /\ row.version = CurrentVersion => ~Fits(prev, Made(prev, row))
         /\ Fits(prev, row) => Made(prev, row) = row
<1> DEFINE plain == [row EXCEPT !.sha = row.text]
           chain == ChainHash(prev, row.id, plain)
           version == IF Stripped(row) THEN LegacyVersion ELSE row.version
           made == [row EXCEPT !.sha = row.text, !.prev = prev, !.chain = chain, !.version = version]
<1>1. row.text \in Hashed /\ row.id \in Nat /\ row.text # Blank /\ version \in Versions
  <2>1. row.text \in Payloads /\ row.id \in Nat /\ row.version \in Versions
    BY DEF Row
  <2> QED BY <2>1, ChainAssumption DEF Hashed, Versions
<1>2. plain \in Row
  BY <1>1, Zenon DEF Row
<1>3. plain.id = row.id /\ plain.meta = row.meta /\ plain.sha = row.text /\ plain.version = row.version
  BY DEF Row
<1> HIDE DEF plain
<1>4. chain \in Seq(Link)
  BY <1>2, <1>3, HashTells
<1> HIDE DEF chain
<1>0. (row.sha # Blank => version = row.version) /\ (row.sha = Blank => version = LegacyVersion)
  BY DEF Stripped
<1>8. Made(prev, row) = made
  BY DEF Made, plain, chain
<1> HIDE DEF version
<1>5. made \in Row
  BY <1>1, <1>4, Zenon DEF Row
<1>6. /\ made.id = row.id /\ made.text = row.text /\ made.meta = row.meta /\ made.sha = row.text
      /\ made.rev = row.rev /\ made.prev = prev /\ made.chain = chain /\ made.version = version
  BY DEF Row
<1> HIDE DEF made
<1>7. row.sha # Blank => Fits(prev, made)
  <2> SUFFICES ASSUME row.sha # Blank PROVE Fits(prev, made)
    OBVIOUS
  <2>1. chain = ChainHash(prev, made.id, made)
    BY <1>0, <1>3, <1>6 DEF ChainHash, chain
  <2> QED BY <1>6, <2>1 DEF Fits
<1>9. row.sha = Blank /\ row.version = CurrentVersion => ~Fits(prev, made)
  <2> SUFFICES ASSUME row.sha = Blank, row.version = CurrentVersion, Fits(prev, made) PROVE FALSE
    OBVIOUS
  <2>1. ChainHash(prev, made.id, made) = ChainHash(prev, plain.id, plain)
    BY <1>3, <1>6 DEF Fits, chain
  <2>2. made.version = plain.version
    BY <1>2, <1>5, <2>1, HashTells
  <2> QED BY <1>0, <1>3, <1>6, <2>2 DEF CurrentVersion, LegacyVersion
<1>10. ASSUME Fits(prev, row) PROVE made = row
  <2>1. row.sha = row.text /\ row.prev = prev /\ row.chain = chain
    BY <1>3, <1>10 DEF Fits, ChainHash, chain
  <2>2. version = row.version
    BY <1>0, <1>1, <2>1
  <2> QED BY <2>1, <2>2 DEF Row, made
<1> QED BY <1>1, <1>5, <1>6, <1>7, <1>8, <1>9, <1>10

\* Enrolled, one row after the other.
EnrolledRule(h) ==
  /\ h[0] = <<>> /\ Enrolled = h[Len(rows)]
  /\ \A k \in 1..Len(rows) : h[k] = Append(h[k - 1], Made(Tip(h[k - 1]), rows[k]))

LEMMA TipTyped ==
  ASSUME NEW t \in Seq(Row)
  PROVE  Tip(t) \in Seq(Link)
<1>1. CASE t = <<>>
  BY <1>1 DEF Tip
<1>2. CASE t # <<>>
  <2>1. t[Len(t)] \in Row
    BY <1>2
  <2> QED BY <1>2, <2>1 DEF Tip, Row
<1> QED BY <1>1, <1>2

LEMMA EnrolledSteps ==
  ASSUME rows \in Seq(Row)
  PROVE  \E h \in [0..Len(rows) -> Seq(Row)] : EnrolledRule(h)
<1> DEFINE n == Len(rows)
           T == Seq(Row)
           G == [k \in 1..n |-> [t \in T |-> Append(t, Made(Tip(t), rows[k]))]]
           P(iter) == iter = [s \in SUBSET (1..n) |->
                                IF s = {} THEN <<>>
                                ELSE Append(iter[s \ {Max(s)}], Made(Tip(iter[s \ {Max(s)}]), rows[Max(s)]))]
           f == CHOOSE iter : P(iter)
<1>1. n \in Nat /\ 1..n \in SUBSET (0..n) /\ DOMAIN rows = 1..n /\ <<>> \in T
  OBVIOUS
<1>2. Enrolled = f[1..n]
  BY <1>1, Zenon DEF Enrolled, FoldLeft, MapThenFoldSet, Made
<1>3. \A k \in 1..n : rows[k] \in Row
  BY <1>1
<1>4. \A k \in 1..n, t \in T : Append(t, Made(Tip(t), rows[k])) \in T
  <2> SUFFICES ASSUME NEW k \in 1..n, NEW t \in T PROVE Append(t, Made(Tip(t), rows[k])) \in T
    OBVIOUS
  <2>1. Made(Tip(t), rows[k]) \in Row
    BY <1>3, TipTyped, MadeIs
  <2> QED BY <2>1
<1>5. G \in [1..n -> [T -> T]]
  <2> HIDE DEF T
  <2> QED BY <1>4
<1>6. \E iter : P(iter)
  <2>1. PICK iter \in [SUBSET (1..n) -> T] : FoldRule(1..n, <<>>, G, iter)
    <3> HIDE DEF G, n, T
    <3> QED BY <1>1, <1>5, FoldExists, Zenon
  <2>2. ASSUME NEW s \in SUBSET (1..n), s # {}
        PROVE  G[Max(s)][iter[s \ {Max(s)}]]
                 = Append(iter[s \ {Max(s)}], Made(Tip(iter[s \ {Max(s)}]), rows[Max(s)]))
    <3>1. Max(s) \in 1..n
      BY <1>1, <2>2, MaxIs
    <3>2. iter[s \ {Max(s)}] \in T
      OBVIOUS
    <3> HIDE DEF T
    <3> QED BY <3>1, <3>2
  <2>3. P(iter)
    <3> HIDE DEF G, T
    <3> QED BY <2>1, <2>2 DEF FoldRule
  <2> QED BY <2>3
<1>7. P(f)
  BY <1>6, Zenon
<1> HIDE DEF f
<1>8. f[{}] = <<>> /\ 1..0 = {}
  BY <1>7
<1>9. \A k \in 1..n : f[1..k] = Append(f[1..(k - 1)], Made(Tip(f[1..(k - 1)]), rows[k]))
  <2> SUFFICES ASSUME NEW k \in 1..n
               PROVE  f[1..k] = Append(f[1..(k - 1)], Made(Tip(f[1..(k - 1)]), rows[k]))
    OBVIOUS
  <2>1. Max(1..k) = k /\ (1..k) \ {Max(1..k)} = 1..(k - 1) /\ 1..k # {}
    BY MaxOfPrefix
  <2>2. 1..k \in SUBSET (1..n)
    OBVIOUS
  <2> QED BY <1>7, <2>1, <2>2
<1> DEFINE h == [k \in 0..n |-> f[1..k]]
           A == {k \in 0..n : f[1..k] \in T}
<1>10. \A k \in 0..n : k \in A
  <2>1. 0 \in A
    <3>1. f[1..0] \in T /\ 0 \in 0..n
      <4> HIDE DEF T
      <4> QED BY <1>1, <1>8
    <3> QED BY <3>1
  <2>2. ASSUME NEW k \in 1..n, k - 1 \in A PROVE k \in A
    <3>1. f[1..(k - 1)] \in T
      BY <2>2
    <3>2. f[1..k] \in T
      <4> HIDE DEF T, n
      <4> QED BY <1>4, <1>9, <3>1, Zenon
    <3>3. k \in 0..n
      BY <1>1
    <3> QED BY <3>2, <3>3
  <2> HIDE DEF A
  <2> QED BY <1>1, <2>1, <2>2, RangeInduction
<1>11. h \in [0..n -> T]
  BY <1>10
<1>12. h[0] = <<>> /\ h[n] = f[1..n] /\ \A k \in 1..n : h[k] = f[1..k] /\ h[k - 1] = f[1..(k - 1)]
  BY <1>1, <1>8
<1> HIDE DEF h
<1>13. EnrolledRule(h)
  BY <1>2, <1>9, <1>12 DEF EnrolledRule
<1> QED BY <1>11, <1>13

\* Every row is made again, after those before.
Remade(rs, out, n) == Len(out) = n /\ \A i \in 1..n : out[i] = Made(Former(out, i), rs[i])

LEMMA EnrolledIs ==
  ASSUME rows \in Seq(Row)
  PROVE  Enrolled \in Seq(Row) /\ Remade(rows, Enrolled, Len(rows))
<1> DEFINE n == Len(rows)
<1>0. PICK h \in [0..n -> Seq(Row)] : EnrolledRule(h)
  BY EnrolledSteps, Zenon
<1>1. /\ h[0] = <<>> /\ Enrolled = h[n]
      /\ \A k \in 1..n : h[k] = Append(h[k - 1], Made(Tip(h[k - 1]), rows[k]))
  BY <1>0 DEF EnrolledRule
<1>2. n \in Nat /\ \A k \in 1..n : rows[k] \in Row
  OBVIOUS
<1> HIDE DEF n
<1> DEFINE A == {k \in 0..n : Remade(rows, h[k], k)}
<1>3. 0 \in A
  <2>1. Len(h[0]) = 0 /\ 1..0 = {}
    BY <1>1
  <2> QED BY <2>1, <1>2 DEF Remade
<1>4. ASSUME NEW k \in 1..n, k - 1 \in A PROVE k \in A
  <2> DEFINE out == h[k - 1]
             row == Made(Tip(out), rows[k])
  <2>1. /\ out \in Seq(Row) /\ Remade(rows, out, k - 1) /\ k \in Nat \ {0} /\ k \in 0..n
        /\ h[k] = Append(out, row) /\ rows[k] \in Row
    <3>1. k \in Nat \ {0} /\ k \in 0..n /\ k - 1 \in 0..n
      BY <1>2
    <3>2. out \in Seq(Row)
      BY <3>1
    <3>3. Remade(rows, out, k - 1)
      BY <1>4
    <3>4. h[k] = Append(out, row) /\ rows[k] \in Row
      BY <1>1, <1>2
    <3> QED BY <3>1, <3>2, <3>3, <3>4
  <2> HIDE DEF out
  <2>2. row \in Row
    BY <2>1, TipTyped, MadeIs
  <2>3. Len(out) = k - 1
    BY <2>1 DEF Remade
  <2>4. /\ Len(h[k]) = k /\ \A i \in 1..(k - 1) : h[k][i] = out[i]
        /\ h[k][k] = row
    <3> HIDE DEF row
    <3> QED BY <2>1, <2>2, <2>3
  <2>5. Former(h[k], k) = Tip(out)
    <3>1. CASE k = 1
      BY <3>1, <2>1, <2>3 DEF Former, Tip
    <3>2. CASE k # 1
      <4>1. k - 1 \in 1..(k - 1) /\ out # <<>>
        BY <3>2, <2>1, <2>3
      <4> QED BY <3>2, <4>1, <2>3, <2>4 DEF Former, Tip
    <3> QED BY <3>1, <3>2
  <2>6. \A i \in 1..k : h[k][i] = Made(Former(h[k], i), rows[i])
    <3> SUFFICES ASSUME NEW i \in 1..k PROVE h[k][i] = Made(Former(h[k], i), rows[i])
      OBVIOUS
    <3>1. CASE i = k
      BY <3>1, <2>4, <2>5
    <3>2. CASE i # k
      <4>1. i \in 1..(k - 1) /\ (i # 1 => i - 1 \in 1..(k - 1))
        BY <3>2, <2>1
      <4>2. Former(h[k], i) = Former(out, i)
        BY <4>1, <2>4 DEF Former
      <4> QED BY <4>1, <4>2, <2>1, <2>4 DEF Remade
    <3> QED BY <3>1, <3>2
  <2> QED BY <2>1, <2>4, <2>6 DEF Remade
<1>5. \A k \in 0..n : k \in A
  <2> HIDE DEF A
  <2> QED BY <1>2, <1>3, <1>4, RangeInduction
<1>6. n \in A /\ n \in 0..n
  BY <1>2, <1>5
<1> QED BY <1>1, <1>6 DEF n

\* What is made again has its hashes and fits, but for a row that had none, and
\* what fits from the first row on is made again as it is.
LEMMA RemadeFits ==
  ASSUME NEW n \in Nat, NEW rs \in Seq(Row), NEW out \in Seq(Row), Len(rs) = n, Remade(rs, out, n)
  PROVE  /\ \A i \in 1..n : /\ out[i].sha # Blank /\ out[i].id = rs[i].id
                            /\ out[i].rev = rs[i].rev /\ out[i].text = rs[i].text
                            /\ rs[i].sha # Blank => Fits(Former(out, i), out[i])
                            /\ rs[i].sha = Blank /\ rs[i].version = CurrentVersion => ~Fits(Former(out, i), out[i])
         /\ \A m \in 0..n : (\A i \in 1..m : Fits(Former(rs, i), rs[i])) => \A i \in 1..m : out[i] = rs[i]
<1>1. Len(out) = n /\ \A i \in 1..n : out[i] = Made(Former(out, i), rs[i])
  BY DEF Remade
<1>2. \A i \in 1..n : rs[i] \in Row /\ out[i] \in Row
  BY <1>1
<1>3. \A i \in 1..n : Former(out, i) \in Seq(Link)
  <2> SUFFICES ASSUME NEW i \in 1..n PROVE Former(out, i) \in Seq(Link)
    OBVIOUS
  <2>1. CASE i = 1
    BY <2>1 DEF Former
  <2>2. CASE i # 1
    <3>1. out[i - 1] \in Row
      BY <2>2, <1>2
    <3> QED BY <2>2, <3>1 DEF Former, Row
  <2> QED BY <2>1, <2>2
<1>4. \A i \in 1..n : /\ out[i].sha # Blank /\ out[i].id = rs[i].id
                      /\ out[i].rev = rs[i].rev /\ out[i].text = rs[i].text
                      /\ rs[i].sha # Blank => Fits(Former(out, i), out[i])
                      /\ rs[i].sha = Blank /\ rs[i].version = CurrentVersion => ~Fits(Former(out, i), out[i])
  BY <1>1, <1>2, <1>3, MadeIs
<1>5. ASSUME NEW m \in 0..n, \A i \in 1..m : Fits(Former(rs, i), rs[i]) PROVE \A i \in 1..m : out[i] = rs[i]
  <2> DEFINE A == {i \in 0..m : i = 0 \/ out[i] = rs[i]}
  <2>0. m \in Nat /\ \A i \in 1..m : i \in 1..n
    OBVIOUS
  <2>1. 0 \in A
    OBVIOUS
  <2>2. ASSUME NEW i \in 1..m, i - 1 \in A PROVE i \in A
    <3>0. i \in 1..n
      BY <2>0
    <3>1. Former(out, i) = Former(rs, i)
      <4>1. i = 1 \/ i - 1 # 0
        OBVIOUS
      <4>2. i # 1 => out[i - 1] = rs[i - 1]
        BY <2>2, <4>1
      <4> QED BY <4>2 DEF Former
    <3>2. out[i] = Made(Former(rs, i), rs[i]) /\ Fits(Former(rs, i), rs[i])
      BY <1>1, <1>5, <3>0, <3>1
    <3>3. Former(rs, i) \in Seq(Link) /\ rs[i] \in Row
      BY <1>2, <1>3, <3>0, <3>1
    <3>4. out[i] = rs[i]
      BY <3>2, <3>3, MadeIs
    <3> QED BY <3>4
  <2>3. \A i \in 0..m : i \in A
    <3> HIDE DEF A
    <3> QED BY <2>0, <2>1, <2>2, RangeInduction
  <2> QED BY <2>3
<1> QED BY <1>4, <1>5

-----------------------------------------------------------------------------
(* The chain: its invariant                                                *)

Tidy(rs, next) ==
  /\ rs \in Seq(Row) /\ next \in Nat
  /\ \A i \in 1..Len(rs) : rs[i].id < next
  /\ \A i, j \in 1..Len(rs) : i < j => rs[i].id < rs[j].id

\* The hash of event_revisions is that of the content.
RevisionFits(row) == row.rev \in {"none", row.text}

Whole(rs) ==
  \A i \in 1..Len(rs) : Fits(Former(rs, i), rs[i]) /\ RevisionFits(rs[i]) /\ rs[i].version = CurrentVersion

\* Row d is the first that does not fit.
BadAt(rs, d) ==
  /\ \A i \in 1..Len(rs) : i < d => Fits(Former(rs, i), rs[i]) /\ RevisionFits(rs[i])
  /\ ~Fits(Former(rs, d), rs[d])

\* And every row has its hashes.
NoBlanks(rs) == \A i \in 1..Len(rs) : rs[i].sha # Blank
FirstBad(rs, d) == NoBlanks(rs) /\ BadAt(rs, d)

AnchorFor(rs, a) ==
  IF rs = <<>> THEN a.count = 0
  ELSE a = [first |-> rs[1].id, last |-> rs[Len(rs)].id, count |-> Len(rs), tip |-> Tip(rs)]

\* What each kind of damage leaves to be seen.
Told(rs, a, dm) ==
  /\ dm.what \in {"nothing", "mode"} => Whole(rs) /\ AnchorFor(rs, a)
  /\ dm.what \in {"text", "hash", "meta"} => \E d \in 1..Len(rs) : FirstBad(rs, d) /\ rs[d].id = dm.id
  /\ dm.what = "lost" => \E d \in 1..Len(rs) : FirstBad(rs, d) /\ rs[d].id > dm.id
  /\ dm.what = "tail" /\ ~dm.opened => a.count = Len(rs) + 1
  /\ dm.what = "stripped" => \E d \in 1..Len(rs) :
       /\ BadAt(rs, d) /\ rs[d].id = dm.id
       /\ IF dm.opened THEN NoBlanks(rs) ELSE rs[d].sha = Blank /\ rs[d].version = CurrentVersion

Kinds == {"nothing", "text", "hash", "meta", "mode", "stripped", "lost", "tail"}

ChainInv ==
  /\ Tidy(rows, nextId) /\ anchor.count \in Nat
  /\ damage \in [what : Kinds, id : Nat, opened : BOOLEAN]
  /\ Told(rows, anchor, damage)

LEMMA ChainStart == ChainInit => ChainInv
<1> SUFFICES ASSUME ChainInit PROVE ChainInv
  OBVIOUS
<1>1. rows = <<>> /\ anchor = NoAnchor /\ nextId = 1 /\ damage = Intact
  BY DEF ChainInit
<1>2. Tidy(rows, nextId)
  BY <1>1 DEF Tidy
<1>3. anchor.count = 0
  BY <1>1 DEF NoAnchor
<1>4. damage \in [what : Kinds, id : Nat, opened : BOOLEAN] /\ damage.what = "nothing"
  BY <1>1 DEF Intact, Kinds
<1>5. Told(rows, anchor, damage)
  <2>1. Whole(rows) /\ AnchorFor(rows, anchor)
    BY <1>1, <1>3 DEF Whole, AnchorFor
  <2> QED BY <1>4, <2>1 DEF Told
<1> QED BY <1>2, <1>3, <1>4, <1>5 DEF ChainInv

\* In a ledger without damage the last row that has a hash is the last.
LEMMA PreviousIs ==
  ASSUME NEW rs \in Seq(Row)
  PROVE  Previous(rs) \in Seq(Link) /\ (Whole(rs) => Previous(rs) = Tip(rs))
<1> DEFINE n == Len(rs)
           chained == {i \in DOMAIN rs : rs[i].chain # <<>>}
<1>1. n \in Nat /\ DOMAIN rs = 1..n /\ \A i \in 1..n : rs[i] \in Row
  OBVIOUS
<1> HIDE DEF n
<1>2. chained \in SUBSET (0..n)
  BY <1>1
<1>3. Previous(rs) = IF chained = {} THEN <<>> ELSE rs[Max(chained)].chain
  BY DEF Previous
<1>4. chained # {} => Max(chained) \in chained /\ \A i \in chained : i <= Max(chained)
  <2> HIDE DEF chained
  <2> QED BY <1>1, <1>2, MaxIs
<1>5. Previous(rs) \in Seq(Link)
  <2>1. CASE chained = {}
    BY <1>3, <2>1
  <2>2. CASE chained # {}
    <3>1. rs[Max(chained)] \in Row
      BY <1>1, <1>4, <2>2
    <3> QED BY <1>3, <2>2, <3>1 DEF Row
  <2> QED BY <2>1, <2>2
<1>6. ASSUME Whole(rs) PROVE Previous(rs) = Tip(rs)
  <2>1. CASE rs = <<>>
    BY <2>1, <1>3 DEF Tip
  <2>2. CASE rs # <<>>
    <3>1. n \in 1..n /\ rs[n] \in Row
      BY <2>2, <1>1 DEF n
    <3>2. rs[n].chain # <<>>
      <4>1. Fits(Former(rs, n), rs[n])
        BY <1>6, <3>1 DEF Whole, n
      <4>2. rs[n].prev \in Seq(Link) /\ rs[n].chain = Append(rs[n].prev, <<rs[n].id, rs[n].meta, rs[n].sha, rs[n].version>>)
        BY <3>1, <4>1 DEF Fits, ChainHash, Row
      <4> QED BY <4>2
    <3>3. n \in chained /\ \A i \in chained : i <= n
      BY <1>1, <3>1, <3>2
    <3>4. Max(chained) = n
      <4> HIDE DEF chained
      <4>1. PICK top : top = Max(chained)
        OBVIOUS
      <4>2. top \in chained /\ n <= top /\ top <= n
        BY <1>4, <3>3, <4>1
      <4>3. top \in 0..n
        BY <1>2, <4>2
      <4> QED BY <1>1, <4>1, <4>2, <4>3
    <3>5. chained # {}
      BY <3>3
    <3> QED BY <2>2, <1>3, <3>4, <3>5 DEF Tip, n
  <2> QED BY <2>1, <2>2
<1> QED BY <1>5, <1>6

\* A row that follows the last with a hash is added at the end.
Adds(rs, next, row, new) ==
  /\ Tidy(rs, next) /\ row \in Row /\ row.id = next /\ Fits(Previous(rs), row) /\ RevisionFits(row)
  /\ row.version = CurrentVersion
  /\ new = Append(rs, row)

LEMMA RowAdded ==
  ASSUME NEW rs, NEW next, NEW row, NEW new, Adds(rs, next, row, new)
  PROVE  /\ Tidy(new, next + 1) /\ Len(new) = Len(rs) + 1 /\ new[Len(rs) + 1] = row /\ new # <<>>
         /\ \A i \in 1..Len(rs) : new[i] = rs[i]
         /\ Whole(rs) => Whole(new)
         /\ NoBlanks(rs) => NoBlanks(new)
         /\ \A d \in 1..Len(rs) : BadAt(rs, d) => BadAt(new, d)
<1> DEFINE n == Len(rs)
<1> /\ Tidy(rs, next) /\ row \in Row /\ row.id = next /\ Fits(Previous(rs), row) /\ RevisionFits(row)
    /\ row.version = CurrentVersion /\ new = Append(rs, row)
  BY DEF Adds
<1>1. rs \in Seq(Row) /\ n \in Nat /\ next \in Nat
  BY DEF Tidy
<1>2. new \in Seq(Row) /\ Len(new) = n + 1 /\ new[n + 1] = row /\ \A i \in 1..n : new[i] = rs[i]
  BY <1>1
<1>3. /\ \A i \in 1..n : rs[i].id < next
      /\ \A i, j \in 1..n : i < j => rs[i].id < rs[j].id
  BY DEF Tidy
<1>4. \A i \in 1..(n + 1) : i = n + 1 \/ (i \in 1..n /\ i < n + 1)
  BY <1>1
<1>5. \A i \in 1..n : rs[i].id \in Nat
  <2>1. \A i \in 1..n : rs[i] \in Row
    BY <1>1
  <2> QED BY <2>1 DEF Row
<1>6. \A i \in 1..n : Former(new, i) = Former(rs, i)
  <2>1. \A i \in 1..n : i # 1 => i - 1 \in 1..n
    BY <1>1
  <2> QED BY <1>2, <2>1 DEF Former
<1>7. Former(new, n + 1) = Tip(rs)
  <2>1. CASE n = 0
    BY <2>1, <1>1 DEF Former, Tip
  <2>2. CASE n # 0
    <3>1. n \in 1..n /\ n + 1 # 1 /\ n + 1 - 1 = n /\ rs # <<>>
      BY <2>2, <1>1
    <3>2. Former(new, n + 1) = new[n].chain
      BY <3>1 DEF Former
    <3> QED BY <3>1, <3>2, <1>2 DEF Tip
  <2> QED BY <2>1, <2>2
<1>8. new # <<>>
  BY <1>1, <1>2
<1>9. row.sha # Blank
  <2>1. row.text \in Payloads
    BY DEF Row
  <2> QED BY <2>1, ChainAssumption DEF Fits
<1> HIDE DEF n
<1>10. Tidy(new, next + 1)
  <2>1. \A i \in 1..(n + 1) : new[i].id < next + 1
    BY <1>1, <1>2, <1>3, <1>4, <1>5
  <2>2. \A i, j \in 1..(n + 1) : i < j => new[i].id < new[j].id
    <3> SUFFICES ASSUME NEW i \in 1..(n + 1), NEW j \in 1..(n + 1), i < j PROVE new[i].id < new[j].id
      OBVIOUS
    <3>1. i \in 1..n
      BY <1>1
    <3> QED BY <1>2, <1>3, <1>4, <3>1
  <2> QED BY <1>1, <1>2, <2>1, <2>2 DEF Tidy
<1>11. ASSUME Whole(rs) PROVE Whole(new)
  <2>1. Fits(Former(new, n + 1), new[n + 1])
    BY <1>1, <1>2, <1>7, <1>11, PreviousIs
  <2> QED BY <1>2, <1>4, <1>6, <1>11, <2>1 DEF Whole, n
<1>13. NoBlanks(rs) => NoBlanks(new)
  BY <1>2, <1>4, <1>9 DEF NoBlanks, n
<1>12. ASSUME NEW d \in 1..n, BadAt(rs, d) PROVE BadAt(new, d)
  <2>1. \A i \in 1..(n + 1) : i < d => i \in 1..n
    BY <1>1
  <2>2. \A i \in 1..(n + 1) : i < d => Fits(Former(new, i), new[i]) /\ RevisionFits(new[i])
    BY <1>2, <1>6, <1>12, <2>1 DEF BadAt, n
  <2> QED BY <1>2, <1>6, <1>12, <2>2 DEF BadAt
<1> QED BY <1>2, <1>8, <1>10, <1>11, <1>12, <1>13 DEF n

LEMMA InsertKeeps ==
  ASSUME ChainInv, NEW said \in Payloads, NEW meta \in Columns, NEW external \in BOOLEAN,
         Insert(said, meta, external)
  PROVE  ChainInv'
<1> DEFINE chain == ChainHash(Previous(rows), nextId, [meta |-> meta, sha |-> said, version |-> CurrentVersion])
           rev == IF external THEN said ELSE "none"
           row == [id |-> nextId, text |-> said, meta |-> meta, mode |-> "work", sha |-> said,
                   version |-> CurrentVersion, rev |-> rev, prev |-> Previous(rows), chain |-> chain]
<1>1. rows' = Append(rows, row) /\ anchor' = Anchored(nextId, chain) /\ nextId' = nextId + 1 /\ damage' = damage
  BY DEF Insert
<1>2. Tidy(rows, nextId) /\ anchor.count \in Nat /\ Told(rows, anchor, damage)
      /\ damage \in [what : Kinds, id : Nat, opened : BOOLEAN]
  BY DEF ChainInv
<1>3. rows \in Seq(Row) /\ nextId \in Nat /\ Len(rows) \in Nat
  BY <1>2 DEF Tidy
<1>4. Previous(rows) \in Seq(Link)
  BY <1>3, PreviousIs
<1>5. chain \in Seq(Link)
  <2>1. <<nextId, meta, said, CurrentVersion>> \in Link
    BY <1>3 DEF Link, Hashed, Versions
  <2> QED BY <1>4, <2>1 DEF ChainHash
<1>6. chain = ChainHash(Previous(rows), row.id, row)
  BY DEF ChainHash
<1> HIDE DEF chain
<1>7. row \in Row /\ rev \in {"none", said}
  <2>1. /\ rev \in Payloads \cup {"none"} /\ rev \in {"none", said} /\ said \in Hashed
        /\ CurrentVersion \in Versions
    BY DEF Hashed, Versions
  <2> HIDE DEF rev
  <2> QED BY <1>3, <1>4, <1>5, <2>1 DEF Row
<1>8. Fits(Previous(rows), row) /\ RevisionFits(row) /\ row.id = nextId /\ row.chain = chain
      /\ row.version = CurrentVersion
  BY <1>6, <1>7 DEF Fits, RevisionFits
<1>9. PICK new : new = rows'
  OBVIOUS
<1> HIDE DEF row
<1>10. /\ Tidy(new, nextId + 1) /\ Len(new) = Len(rows) + 1 /\ new[Len(rows) + 1] = row /\ new # <<>>
       /\ \A i \in 1..Len(rows) : new[i] = rows[i]
       /\ Whole(rows) => Whole(new)
       /\ NoBlanks(rows) => NoBlanks(new)
       /\ \A d \in 1..Len(rows) : BadAt(rows, d) => BadAt(new, d)
  <2>1. Adds(rows, nextId, row, new)
    BY <1>1, <1>2, <1>7, <1>8, <1>9, Zenon DEF Adds
  <2> QED BY <2>1, RowAdded, Zenon
<1>11. PICK a : a = Anchored(nextId, chain)
  OBVIOUS
<1>12. a.count = anchor.count + 1
  BY <1>11 DEF Anchored
<1>13. AnchorFor(rows, anchor) => AnchorFor(new, a)
  <2> SUFFICES ASSUME AnchorFor(rows, anchor) PROVE AnchorFor(new, a)
    OBVIOUS
  <2>1. Tip(new) = chain
    BY <1>8, <1>10 DEF Tip
  <2>2. a = [first |-> new[1].id, last |-> nextId, count |-> Len(rows) + 1, tip |-> chain]
    <3>1. CASE rows = <<>>
      <4>1. anchor.count = 0 /\ Len(rows) = 0 /\ new[1].id = nextId
        BY <1>8, <1>10, <3>1 DEF AnchorFor
      <4> QED BY <1>11, <4>1 DEF Anchored
    <3>2. CASE rows # <<>>
      <4>1. Len(rows) # 0 /\ 1 \in 1..Len(rows)
        BY <1>3, <3>2
      <4>2. anchor.count = Len(rows) /\ anchor.first = rows[1].id
        BY <3>2 DEF AnchorFor
      <4>3. new[1].id = rows[1].id
        BY <1>10, <4>1
      <4> QED BY <1>11, <4>1, <4>2, <4>3 DEF Anchored
    <3> QED BY <3>1, <3>2
  <2>3. new[Len(new)].id = nextId
    BY <1>8, <1>10
  <2> QED BY <1>10, <2>1, <2>2, <2>3 DEF AnchorFor
<1>14. \A d \in 1..Len(rows) : d \in 1..Len(new) /\ new[d].id = rows[d].id
  BY <1>3, <1>10
<1>15. Told(new, a, damage)
  <2>0. \A d \in 1..Len(rows) : FirstBad(rows, d) => FirstBad(new, d)
    BY <1>10 DEF FirstBad
  <2>1. damage.what \in {"text", "hash", "meta"} => \E d \in 1..Len(new) : FirstBad(new, d) /\ new[d].id = damage.id
    BY <1>2, <1>14, <2>0 DEF Told
  <2>2. damage.what = "lost" => \E d \in 1..Len(new) : FirstBad(new, d) /\ new[d].id > damage.id
    BY <1>2, <1>14, <2>0 DEF Told
  <2>3. damage.what = "tail" /\ ~damage.opened => a.count = Len(new) + 1
    BY <1>2, <1>10, <1>12 DEF Told
  <2>4. damage.what = "stripped" => \E d \in 1..Len(new) :
          /\ BadAt(new, d) /\ new[d].id = damage.id
          /\ IF damage.opened THEN NoBlanks(new) ELSE new[d].sha = Blank /\ new[d].version = CurrentVersion
    <3> SUFFICES ASSUME damage.what = "stripped"
                 PROVE  \E d \in 1..Len(new) :
                          /\ BadAt(new, d) /\ new[d].id = damage.id
                          /\ IF damage.opened THEN NoBlanks(new)
                             ELSE new[d].sha = Blank /\ new[d].version = CurrentVersion
      OBVIOUS
    <3>1. PICK d \in 1..Len(rows) :
            /\ BadAt(rows, d) /\ rows[d].id = damage.id
            /\ IF damage.opened THEN NoBlanks(rows) ELSE rows[d].sha = Blank /\ rows[d].version = CurrentVersion
      BY <1>2 DEF Told
    <3>2. BadAt(new, d) /\ d \in 1..Len(new) /\ new[d] = rows[d]
      BY <1>10, <1>14, <3>1
    <3> QED BY <1>10, <3>1, <3>2
  <2>5. damage.what \in {"nothing", "mode"} => Whole(new) /\ AnchorFor(new, a)
    BY <1>2, <1>10, <1>13 DEF Told
  <2> QED BY <2>1, <2>2, <2>3, <2>4, <2>5 DEF Told
<1>16. anchor' = a /\ a.count \in Nat
  BY <1>1, <1>2, <1>11, <1>12
<1> QED BY <1>1, <1>2, <1>9, <1>10, <1>15, <1>16 DEF ChainInv

\* Row i is another one of the same id.
Changes(rs, next, i, row, new) ==
  /\ Tidy(rs, next) /\ Whole(rs) /\ i \in 1..Len(rs) /\ row \in Row /\ row.id = rs[i].id
  /\ new = [rs EXCEPT ![i] = row]

Changed(rs, next, i, row, new) ==
  /\ Tidy(new, next) /\ Len(new) = Len(rs) /\ new[i] = row /\ \A j \in 1..Len(rs) : j # i => new[j] = rs[j]
  /\ ~Fits(Former(rs, i), row) => BadAt(new, i)
  /\ row.sha # Blank => NoBlanks(new)

LEMMA RowChanged ==
  ASSUME NEW rs, NEW next, NEW i, NEW row, NEW new, Changes(rs, next, i, row, new)
  PROVE  Changed(rs, next, i, row, new)
<1> DEFINE n == Len(rs)
<1> /\ Tidy(rs, next) /\ Whole(rs) /\ i \in 1..n /\ row \in Row /\ row.id = rs[i].id
    /\ new = [rs EXCEPT ![i] = row]
  BY DEF Changes
<1>1. rs \in Seq(Row) /\ n \in Nat /\ next \in Nat
  BY DEF Tidy
<1>2. new \in Seq(Row) /\ Len(new) = n /\ new[i] = row /\ \A j \in 1..n : j # i => new[j] = rs[j]
  BY <1>1
<1>3. \A j \in 1..n : new[j].id = rs[j].id
  BY <1>2
<1>4. Tidy(new, next)
  <2>1. /\ \A j \in 1..n : rs[j].id < next
        /\ \A j, k \in 1..n : j < k => rs[j].id < rs[k].id
    BY DEF Tidy
  <2> QED BY <1>1, <1>2, <1>3, <2>1 DEF Tidy
<1>5. ASSUME row.sha # Blank PROVE NoBlanks(new)
  <2>1. \A j \in 1..n : rs[j] \in Row /\ rs[j].sha = rs[j].text
    BY <1>1 DEF Whole, Fits
  <2>2. \A j \in 1..n : rs[j].sha # Blank
    BY <2>1, ChainAssumption DEF Row
  <2> QED BY <1>2, <1>5, <2>2 DEF NoBlanks
<1>8. ASSUME ~Fits(Former(rs, i), row) PROVE BadAt(new, i)
  <2>1. \A j \in 1..n : j <= i => Former(new, j) = Former(rs, j)
    <3>1. \A j \in 1..n : j <= i /\ j # 1 => j - 1 \in 1..n /\ j - 1 # i
      BY <1>1
    <3> QED BY <1>2, <3>1 DEF Former
  <2>3. \A j \in 1..n : j < i => Fits(Former(new, j), new[j]) /\ RevisionFits(new[j])
    <3> SUFFICES ASSUME NEW j \in 1..n, j < i PROVE Fits(Former(new, j), new[j]) /\ RevisionFits(new[j])
      OBVIOUS
    <3>1. j <= i /\ j # i
      BY <1>1
    <3>2. new[j] = rs[j] /\ Former(new, j) = Former(rs, j)
      BY <3>1, <1>2, <2>1
    <3> QED BY <3>2 DEF Whole
  <2>4. ~Fits(Former(new, i), new[i])
    <3>1. i <= i
      BY <1>1
    <3> QED BY <1>2, <1>8, <2>1, <3>1
  <2> QED BY <1>2, <2>3, <2>4 DEF BadAt
<1> HIDE DEF n
<1> QED BY <1>2, <1>4, <1>5, <1>8 DEF n, Changed

\* Row i is lost.
LEMMA RowLost ==
  ASSUME NEW rs, NEW next, Tidy(rs, next), Whole(rs), NEW i \in 1..Len(rs), NEW new, new = RemoveAt(rs, i)
  PROVE  /\ Tidy(new, next) /\ Len(new) = Len(rs) - 1
         /\ i # Len(rs) => i \in 1..Len(new) /\ FirstBad(new, i) /\ new[i].id > rs[i].id
<1> DEFINE n == Len(rs)
<1>1. rs \in Seq(Row) /\ n \in Nat /\ next \in Nat /\ i \in Nat /\ 1 <= i /\ i <= n
  BY DEF Tidy
<1>2. /\ new \in Seq(Row) /\ Len(new) = n - 1
      /\ \A j \in 1..(n - 1) : new[j] = IF j < i THEN rs[j] ELSE rs[j + 1]
  BY <1>1, RemoveAtIs
<1>3. /\ \A j \in 1..n : rs[j].id < next
      /\ \A j, k \in 1..n : j < k => rs[j].id < rs[k].id
  BY DEF Tidy
<1>4. \A j \in 1..n : rs[j] \in Row /\ rs[j].sha = rs[j].text /\ rs[j].sha # Blank
  <2>1. \A j \in 1..n : rs[j] \in Row /\ rs[j].sha = rs[j].text
    BY <1>1 DEF Whole, Fits
  <2> QED BY <2>1, ChainAssumption DEF Row
<1> HIDE DEF n
<1>5. \A j \in 1..(n - 1) : j \in 1..n /\ j + 1 \in 1..n
  BY <1>1
<1>6. Tidy(new, next)
  <2>1. \A j \in 1..(n - 1) : new[j].id < next
    BY <1>2, <1>3, <1>5
  <2>2. ASSUME NEW j \in 1..(n - 1), NEW k \in 1..(n - 1), j < k PROVE new[j].id < new[k].id
    <3>1. CASE k < i
      BY <2>2, <3>1, <1>1, <1>2, <1>3, <1>5
    <3>2. CASE j < i /\ ~(k < i)
      <4>1. new[j] = rs[j] /\ new[k] = rs[k + 1] /\ j < k + 1
        BY <2>2, <3>2, <1>2
      <4> QED BY <4>1, <1>3, <1>5
    <3>3. CASE ~(j < i)
      <4>1. new[j] = rs[j + 1] /\ new[k] = rs[k + 1] /\ j + 1 < k + 1
        BY <2>2, <3>3, <1>1, <1>2
      <4> QED BY <4>1, <1>3, <1>5
    <3> QED BY <3>1, <3>2, <3>3, <2>2, <1>1
  <2> QED BY <1>1, <1>2, <2>1, <2>2 DEF Tidy
<1>7. ASSUME i # n PROVE i \in 1..(n - 1) /\ FirstBad(new, i) /\ new[i].id > rs[i].id
  <2>1. i \in 1..(n - 1) /\ i + 1 \in 1..n /\ i < i + 1 /\ i \in 1..n
    BY <1>1, <1>7
  <2>2. new[i] = rs[i + 1] /\ rs[i].id < rs[i + 1].id
    BY <1>2, <1>3, <2>1
  <2>3. \A j \in 1..(n - 1) : new[j].sha # Blank
    BY <1>2, <1>4, <1>5
  <2>4. \A j \in 1..(n - 1) : j <= i => Former(new, j) = Former(rs, j)
    <3> SUFFICES ASSUME NEW j \in 1..(n - 1), j <= i, j # 1 PROVE new[j - 1] = rs[j - 1]
      BY DEF Former
    <3>1. j - 1 \in 1..(n - 1) /\ j - 1 < i
      BY <1>1
    <3> QED BY <3>1, <1>2
  <2>5. \A j \in 1..(n - 1) : j < i => Fits(Former(new, j), new[j]) /\ RevisionFits(new[j])
    <3> SUFFICES ASSUME NEW j \in 1..(n - 1), j < i PROVE Fits(Former(new, j), new[j]) /\ RevisionFits(new[j])
      OBVIOUS
    <3>1. j <= i /\ j \in 1..n
      BY <1>1
    <3>2. new[j] = rs[j] /\ Former(new, j) = Former(rs, j)
      BY <3>1, <1>2, <2>4
    <3> QED BY <3>1, <3>2 DEF Whole, n
  <2>6. ~Fits(Former(new, i), new[i])
    <3>1. Former(new, i) = Former(rs, i)
      <4>1. i <= i
        BY <1>1
      <4> QED BY <4>1, <2>1, <2>4
    <3>2. Fits(Former(rs, i), rs[i]) /\ Fits(Former(rs, i + 1), rs[i + 1])
      BY <2>1 DEF Whole, n
    <3>3. Former(rs, i + 1) = rs[i].chain
      <4>1. i + 1 # 1 /\ (i + 1) - 1 = i
        BY <1>1
      <4> QED BY <4>1 DEF Former
    <3>4. rs[i].chain # Former(rs, i)
      <4>1. rs[i] \in Row /\ Former(rs, i) \in Seq(Link) /\ rs[i].chain = ChainHash(Former(rs, i), rs[i].id, rs[i])
        BY <1>4, <2>1, <3>2 DEF Fits, Row
      <4> QED BY <4>1, HashTells
    <3> QED BY <2>2, <3>1, <3>2, <3>3, <3>4 DEF Fits
  <2>7. new[i].id > rs[i].id
    <3>1. rs[i].id \in Nat /\ rs[i + 1].id \in Nat
      BY <1>4, <2>1 DEF Row
    <3> QED BY <2>2, <3>1
  <2> QED BY <1>2, <2>1, <2>3, <2>5, <2>6, <2>7 DEF FirstBad, BadAt, NoBlanks
<1> HIDE DEF n
<1> QED BY <1>2, <1>6, <1>7 DEF n

\* The ledger is damaged, and what is left tells.
LEMMA DamagedKeeps ==
  ASSUME ChainInv, NEW what \in Kinds, NEW i \in 1..Len(rows), NEW new, Damaged(what, i, new),
         Tidy(new, nextId), Told(new, anchor, [what |-> what, id |-> rows[i].id, opened |-> FALSE])
  PROVE  ChainInv'
<1>1. rows' = new /\ damage' = [what |-> what, id |-> rows[i].id, opened |-> FALSE]
      /\ anchor' = anchor /\ nextId' = nextId
  BY DEF Damaged
<1>2. rows[i].id \in Nat
  <2>1. rows[i] \in Row
    BY DEF ChainInv, Tidy
  <2> QED BY <2>1 DEF Row
<1>3. anchor.count \in Nat
  BY DEF ChainInv
<1> QED BY <1>1, <1>2, <1>3 DEF ChainInv

LEMMA DamageKeeps ==
  ASSUME ChainInv, NEW i \in DOMAIN rows, Damage(i)
  PROVE  ChainInv'
<1> DEFINE old == rows[i]
           prev == Former(rows, i)
<1>1. damage = Intact /\ damage.what = "nothing"
  <2>1. damage = Intact
    BY Zenon DEF Damage, Damaged
  <2> QED BY <2>1 DEF Intact
<1>2. /\ Tidy(rows, nextId) /\ Whole(rows) /\ AnchorFor(rows, anchor) /\ anchor.count \in Nat
      /\ rows \in Seq(Row) /\ Len(rows) \in Nat /\ i \in 1..Len(rows) /\ rows # <<>> /\ old \in Row
  <2>1. Tidy(rows, nextId) /\ Whole(rows) /\ AnchorFor(rows, anchor) /\ anchor.count \in Nat
    BY <1>1 DEF ChainInv, Told
  <2>2. rows \in Seq(Row)
    BY <2>1 DEF Tidy
  <2>3. Len(rows) \in Nat /\ i \in 1..Len(rows) /\ rows # <<>> /\ old \in Row
    BY <2>2
  <2> QED BY <2>1, <2>2, <2>3
<1>3. Fits(prev, old) /\ prev \in Seq(Link) /\ old.sha = old.text /\ old.chain = ChainHash(prev, old.id, old)
  BY <1>2 DEF Whole, Fits, Row
<1> HIDE DEF prev
<1>4. ASSUME NEW what \in {"text", "hash", "meta"}, NEW row \in Row, row.id = old.id, row.sha # Blank,
             ~Fits(prev, row), Damaged(what, i, [rows EXCEPT ![i] = row])
      PROVE  ChainInv'
  <2>1. PICK new : new = [rows EXCEPT ![i] = row]
    OBVIOUS
  <2>2. Changes(rows, nextId, i, row, new)
    BY <1>2, <1>4, <2>1, Zenon DEF Changes
  <2>3. Tidy(new, nextId) /\ i \in 1..Len(new) /\ FirstBad(new, i) /\ new[i].id = old.id
    <3>1. ~Fits(Former(rows, i), row)
      BY <1>4 DEF prev
    <3>2. Changed(rows, nextId, i, row, new)
      BY <2>2, RowChanged, Zenon
    <3> QED BY <1>2, <1>4, <3>1, <3>2 DEF Changed, FirstBad
  <2>4. Told(new, anchor, [what |-> what, id |-> old.id, opened |-> FALSE])
    BY <2>3 DEF Told
  <2>5. what \in Kinds
    BY DEF Kinds
  <2> QED BY <1>2, <1>4, <2>1, <2>3, <2>4, <2>5, DamagedKeeps
<1>5. ASSUME NEW x \in Payloads, x # old.text, Damaged("text", i, [rows EXCEPT ![i].text = x]) PROVE ChainInv'
  <2>1. PICK row : row = [old EXCEPT !.text = x]
    OBVIOUS
  <2>2. row \in Row
    BY <1>2, <2>1, Zenon DEF Row
  <2>3. row.id = old.id /\ row.sha = old.sha /\ row.text = x
    BY <1>2, <2>1 DEF Row
  <2>4. row.sha # Blank /\ ~Fits(prev, row)
    <3>1. old.text \in Payloads
      BY <1>2 DEF Row
    <3> QED BY <1>3, <1>5, <2>3, <3>1, ChainAssumption DEF Fits
  <2>5. Damaged("text", i, [rows EXCEPT ![i] = row])
    BY <1>5, <2>1
  <2> QED BY <1>4, <2>2, <2>3, <2>4, <2>5
<1>6. ASSUME NEW x \in Payloads, x # old.text, Damaged("hash", i, [rows EXCEPT ![i].text = x, ![i].sha = x])
      PROVE  ChainInv'
  <2>1. PICK row : row = [old EXCEPT !.text = x, !.sha = x]
    OBVIOUS
  <2>2. row \in Row /\ x # Blank
    <3>1. x \in Hashed /\ x # Blank
      BY ChainAssumption DEF Hashed
    <3> QED BY <1>2, <2>1, <3>1, Zenon DEF Row
  <2>3. row.id = old.id /\ row.sha = x /\ row.chain = old.chain
    BY <1>2, <2>1 DEF Row
  <2>4. ~Fits(prev, row)
    <3> SUFFICES ASSUME Fits(prev, row) PROVE FALSE
      OBVIOUS
    <3>1. ChainHash(prev, row.id, row) = ChainHash(prev, old.id, old)
      BY <1>3, <2>3 DEF Fits
    <3> HIDE DEF old
    <3>2. row.sha = old.sha
      BY <1>2, <1>3, <2>2, <3>1, HashTells
    <3> QED BY <1>3, <1>6, <2>3, <3>2
  <2>5. [rows EXCEPT ![i].text = x, ![i].sha = x] = [rows EXCEPT ![i] = row]
    BY <1>2, <2>1
  <2> QED BY <1>4, <1>6, <2>2, <2>3, <2>4, <2>5
<1>7. ASSUME NEW v \in Columns, v # old.meta, Damaged("meta", i, [rows EXCEPT ![i].meta = v]) PROVE ChainInv'
  <2>1. PICK row : row = [old EXCEPT !.meta = v]
    OBVIOUS
  <2>2. row \in Row
    BY <1>2, <2>1, Zenon DEF Row
  <2>3. row.id = old.id /\ row.sha = old.sha /\ row.chain = old.chain /\ row.meta = v
    BY <1>2, <2>1 DEF Row
  <2>4. row.sha # Blank
    <3>1. old.text \in Payloads
      BY <1>2 DEF Row
    <3> QED BY <1>3, <2>3, <3>1, ChainAssumption
  <2>5. ~Fits(prev, row)
    <3> SUFFICES ASSUME Fits(prev, row) PROVE FALSE
      OBVIOUS
    <3>1. ChainHash(prev, row.id, row) = ChainHash(prev, old.id, old)
      BY <1>3, <2>3 DEF Fits
    <3> HIDE DEF old
    <3>2. row.meta = old.meta
      BY <1>2, <1>3, <2>2, <3>1, HashTells
    <3> QED BY <1>7, <2>3, <3>2
  <2>6. Damaged("meta", i, [rows EXCEPT ![i] = row])
    BY <1>7, <2>1
  <2> QED BY <1>4, <2>2, <2>3, <2>4, <2>5, <2>6
<1>8. ASSUME Damaged("mode", i, [rows EXCEPT ![i].mode = "daily"]) PROVE ChainInv'
  <2>1. PICK row : row = [old EXCEPT !.mode = "daily"]
    OBVIOUS
  <2>2. row \in Row
    <3>1. "daily" \in {"work", "daily"}
      OBVIOUS
    <3> QED BY <1>2, <2>1, <3>1, Zenon DEF Row
  <2>3. row.id = old.id /\ row.text = old.text /\ row.meta = old.meta /\ row.sha = old.sha /\ row.rev = old.rev
        /\ row.prev = old.prev /\ row.chain = old.chain /\ row.version = old.version
    BY <1>2, <2>1 DEF Row
  <2>4. PICK new : new = [rows EXCEPT ![i] = row]
    OBVIOUS
  <2>5. Changes(rows, nextId, i, row, new)
    BY <1>2, <2>2, <2>3, <2>4, Zenon DEF Changes
  <2>6. Tidy(new, nextId) /\ Len(new) = Len(rows) /\ new[i] = row /\ \A j \in 1..Len(rows) : j # i => new[j] = rows[j]
    <3>1. Changed(rows, nextId, i, row, new)
      BY <2>5, RowChanged, Zenon
    <3> QED BY <3>1 DEF Changed
  <2>7. \A j \in 1..Len(rows) : /\ new[j].id = rows[j].id /\ new[j].text = rows[j].text /\ new[j].meta = rows[j].meta
                                /\ new[j].sha = rows[j].sha /\ new[j].rev = rows[j].rev
                                /\ new[j].prev = rows[j].prev /\ new[j].chain = rows[j].chain
                                /\ new[j].version = rows[j].version
    BY <2>3, <2>6
  <2>8. \A j \in 1..Len(rows) : Former(new, j) = Former(rows, j)
    <3>1. \A j \in 1..Len(rows) : j # 1 => j - 1 \in 1..Len(rows)
      BY <1>2
    <3> QED BY <2>7, <3>1 DEF Former
  <2>9. Whole(new)
    <3> SUFFICES ASSUME NEW j \in 1..Len(rows)
                 PROVE  Fits(Former(new, j), new[j]) /\ RevisionFits(new[j]) /\ new[j].version = CurrentVersion
      BY <2>6 DEF Whole
    <3>1. Fits(Former(rows, j), rows[j]) /\ RevisionFits(rows[j]) /\ rows[j].version = CurrentVersion
      BY <1>2 DEF Whole
    <3>2. \A p : ChainHash(p, new[j].id, new[j]) = ChainHash(p, rows[j].id, rows[j])
      BY <2>7 DEF ChainHash
    <3> QED BY <2>7, <2>8, <3>1, <3>2 DEF Fits, RevisionFits
  <2>10. AnchorFor(new, anchor)
    <3>1. 1 \in 1..Len(rows) /\ Len(rows) \in 1..Len(rows) /\ new # <<>>
      BY <1>2, <2>6
    <3>2. Tip(new) = Tip(rows)
      BY <1>2, <2>6, <2>7, <3>1 DEF Tip
    <3> QED BY <1>2, <2>6, <2>7, <3>1, <3>2 DEF AnchorFor
  <2>11. Told(new, anchor, [what |-> "mode", id |-> old.id, opened |-> FALSE])
    BY <2>9, <2>10 DEF Told
  <2>12. "mode" \in Kinds /\ Damaged("mode", i, new)
    BY <1>8, <2>1, <2>4 DEF Kinds
  <2> QED BY <1>2, <2>6, <2>11, <2>12, DamagedKeeps
<1>9. ASSUME Damaged("stripped", i, [rows EXCEPT ![i].sha = Blank, ![i].prev = <<>>, ![i].chain = <<>>])
      PROVE  ChainInv'
  <2>1. PICK row : row = [old EXCEPT !.sha = Blank, !.prev = <<>>, !.chain = <<>>]
    OBVIOUS
  <2>2. row \in Row
    <3>1. Blank \in Hashed /\ <<>> \in Seq(Link)
      BY DEF Hashed
    <3> QED BY <1>2, <2>1, <3>1, Zenon DEF Row
  <2>3. row.id = old.id /\ row.sha = Blank /\ row.text = old.text /\ row.version = old.version
    BY <1>2, <2>1 DEF Row
  <2>4. PICK new : new = [rows EXCEPT ![i] = row]
    OBVIOUS
  <2>5. Changes(rows, nextId, i, row, new)
    BY <1>2, <2>2, <2>3, <2>4, Zenon DEF Changes
  <2>6. ~Fits(prev, row)
    <3>1. row.text \in Payloads
      BY <2>2 DEF Row
    <3> QED BY <2>3, <3>1, ChainAssumption DEF Fits
  <2>7. Tidy(new, nextId) /\ Len(new) = Len(rows) /\ new[i] = row /\ BadAt(new, i)
    <3>1. Changed(rows, nextId, i, row, new)
      BY <2>5, RowChanged, Zenon
    <3> QED BY <2>6, <3>1 DEF Changed, prev
  <2>8. Told(new, anchor, [what |-> "stripped", id |-> old.id, opened |-> FALSE])
    <3>1. row.version = CurrentVersion
      BY <1>2, <2>3 DEF Whole
    <3> QED BY <1>2, <2>3, <2>7, <3>1 DEF Told
  <2>9. [rows EXCEPT ![i].sha = Blank, ![i].prev = <<>>, ![i].chain = <<>>] = new
    BY <1>2, <2>1, <2>4
  <2>10. "stripped" \in Kinds /\ Damaged("stripped", i, new)
    BY <1>9, <2>9 DEF Kinds
  <2> QED BY <1>2, <2>7, <2>8, <2>10, DamagedKeeps
<1>10. ASSUME Damaged(IF i = Len(rows) THEN "tail" ELSE "lost", i, RemoveAt(rows, i)) PROVE ChainInv'
  <2>1. PICK new : new = RemoveAt(rows, i)
    OBVIOUS
  <2>2. /\ Tidy(new, nextId) /\ Len(new) = Len(rows) - 1
        /\ i # Len(rows) => i \in 1..Len(new) /\ FirstBad(new, i) /\ new[i].id > rows[i].id
    BY <1>2, <2>1, RowLost
  <2>3. anchor.count = Len(new) + 1
    BY <1>2, <2>2 DEF AnchorFor
  <2>4. CASE i = Len(rows)
    <3>1. Told(new, anchor, [what |-> "tail", id |-> old.id, opened |-> FALSE])
      BY <2>3 DEF Told
    <3>2. "tail" \in Kinds /\ Damaged("tail", i, new)
      BY <1>10, <2>1, <2>4 DEF Kinds
    <3> QED BY <1>2, <2>2, <3>1, <3>2, DamagedKeeps
  <2>5. CASE i # Len(rows)
    <3>1. Told(new, anchor, [what |-> "lost", id |-> old.id, opened |-> FALSE])
      BY <2>2, <2>5 DEF Told
    <3>2. "lost" \in Kinds /\ Damaged("lost", i, new)
      BY <1>10, <2>1, <2>5 DEF Kinds
    <3> QED BY <1>2, <2>2, <3>1, <3>2, DamagedKeeps
  <2> QED BY <2>4, <2>5
<1> QED BY <1>5, <1>6, <1>7, <1>8, <1>9, <1>10 DEF Damage

\* The rows that have their hashes are those that are made again.
LEMMA AgreesIs ==
  ASSUME rows \in Seq(Row), Agrees, \A i \in 1..Len(rows) : rows[i].sha # Blank
  PROVE  \A i \in 1..Len(rows) : Fits(Former(rows, i), rows[i])
<1> DEFINE n == Len(rows)
<1>1. PICK enr : enr = Enrolled
  OBVIOUS
<1>2. n \in Nat /\ enr \in Seq(Row) /\ Remade(rows, enr, n)
  BY <1>1, EnrolledIs
<1>3. \A i \in 1..n : Fits(Former(enr, i), enr[i])
  BY <1>2, RemadeFits
<1>4. \A i \in 1..n : rows[i] = enr[i]
  BY <1>1 DEF Agrees, Stripped
<1> SUFFICES ASSUME NEW i \in 1..n PROVE Fits(Former(rows, i), rows[i])
  OBVIOUS
<1>5. Former(rows, i) = Former(enr, i)
  <2>1. i # 1 => i - 1 \in 1..n
    BY <1>2
  <2> HIDE DEF n
  <2> QED BY <1>4, <2>1 DEF Former
<1> QED BY <1>3, <1>4, <1>5

LEMMA OpenKeeps ==
  ASSUME ChainInv, Open
  PROVE  ChainInv'
<1> DEFINE n == Len(rows)
<1>1. PICK enr : enr = Enrolled
  OBVIOUS
<1>2. PICK held : held = [first |-> rows[1].id, last |-> rows[n].id, count |-> n, tip |-> Tip(enr)]
  OBVIOUS
<1>3. rows # <<>> /\ Agrees /\ rows' = enr /\ anchor' = held /\ nextId' = nextId
      /\ damage' = [damage EXCEPT !.opened = damage # Intact]
  BY <1>1, <1>2 DEF Open
<1>4. Tidy(rows, nextId) /\ damage \in [what : Kinds, id : Nat, opened : BOOLEAN] /\ Told(rows, anchor, damage)
  BY DEF ChainInv
<1>5. rows \in Seq(Row) /\ n \in Nat \ {0} /\ enr \in Seq(Row) /\ Remade(rows, enr, n) /\ Len(enr) = n
  <2>1. rows \in Seq(Row)
    BY <1>4 DEF Tidy
  <2>2. enr \in Seq(Row) /\ Remade(rows, enr, n)
    BY <1>1, <2>1, EnrolledIs
  <2>3. Len(enr) = n
    BY <2>2 DEF Remade
  <2> QED BY <1>3, <2>1, <2>2, <2>3
<1>6. /\ \A i \in 1..n :
           /\ enr[i].sha # Blank /\ enr[i].id = rows[i].id
           /\ rows[i].sha = Blank /\ rows[i].version = CurrentVersion => ~Fits(Former(enr, i), enr[i])
      /\ \A m \in 0..n : (\A i \in 1..m : Fits(Former(rows, i), rows[i])) => \A i \in 1..m : enr[i] = rows[i]
  <2>1. PICK rs : rs = rows
    OBVIOUS
  <2>2. rs \in Seq(Row) /\ Len(rs) = n /\ n \in Nat /\ Remade(rs, enr, n)
    BY <1>5, <2>1
  <2> HIDE DEF n
  <2>3. \A i \in 1..n :
          /\ enr[i].sha # Blank /\ enr[i].id = rs[i].id
          /\ rs[i].sha = Blank /\ rs[i].version = CurrentVersion => ~Fits(Former(enr, i), enr[i])
    BY <1>5, <2>2, RemadeFits
  <2>4. \A m \in 0..n : (\A i \in 1..m : Fits(Former(rs, i), rs[i])) => \A i \in 1..m : enr[i] = rs[i]
    BY <1>5, <2>2, RemadeFits, Zenon
  <2> QED BY <2>1, <2>3, <2>4, Zenon
<1>7. Tidy(enr, nextId)
  <2>1. /\ nextId \in Nat /\ \A i \in 1..n : rows[i].id < nextId
        /\ \A i, j \in 1..n : i < j => rows[i].id < rows[j].id
    BY <1>4 DEF Tidy
  <2>2. \A i \in 1..n : enr[i].id < nextId
    BY <1>6, <2>1
  <2>3. \A i, j \in 1..n : i < j => enr[i].id < enr[j].id
    BY <1>6, <2>1
  <2> HIDE DEF n
  <2> QED BY <1>5, <2>1, <2>2, <2>3 DEF Tidy
<1>8. AnchorFor(enr, held) /\ held.count \in Nat
  <2>1. 1 \in 1..n /\ n \in 1..n /\ enr # <<>>
    BY <1>5
  <2> QED BY <1>2, <1>5, <1>6, <2>1 DEF AnchorFor
<1> DEFINE seen == [damage EXCEPT !.opened = damage # Intact]
<1>9. seen \in [what : Kinds, id : Nat, opened : BOOLEAN] /\ seen.what = damage.what /\ seen.id = damage.id
      /\ (damage.what # "nothing" => seen.opened)
  <2>1. PICK now \in BOOLEAN : now = (damage # Intact)
    OBVIOUS
  <2>2. seen = [damage EXCEPT !.opened = now]
    BY <2>1
  <2>3. seen \in [what : Kinds, id : Nat, opened : BOOLEAN]
    BY <1>4, <2>2, Zenon
  <2>4. seen.what = damage.what /\ seen.id = damage.id /\ seen.opened = now
    <3> HIDE DEF seen
    <3> QED BY <1>4, <2>2
  <2>5. damage.what # "nothing" => now
    <3>1. damage.what # "nothing" => damage # Intact
      BY DEF Intact
    <3> QED BY <2>1, <3>1, Zenon
  <2> HIDE DEF seen
  <2> QED BY <2>3, <2>4, <2>5
<1> HIDE DEF seen
<1>10. ~(\E d \in 1..n : FirstBad(rows, d))
  <2> SUFFICES ASSUME NEW d \in 1..n, FirstBad(rows, d) PROVE FALSE
    OBVIOUS
  <2>1. \A i \in 1..n : rows[i].sha # Blank
    BY DEF FirstBad, NoBlanks
  <2>2. Fits(Former(rows, d), rows[d])
    BY <1>3, <1>5, <2>1, AgreesIs
  <2> QED BY <2>2 DEF FirstBad, BadAt
<1>11. damage.what \notin {"text", "hash", "meta", "lost"}
  BY <1>4, <1>10 DEF Told
<1>12. ASSUME damage.what \in {"nothing", "mode"} PROVE Whole(enr)
  <2>1. Whole(rows)
    BY <1>4, <1>12 DEF Told
  <2>2. n \in 0..n /\ \A i \in 1..n : Fits(Former(rows, i), rows[i])
    BY <1>5, <2>1 DEF Whole
  <2>3. \A i \in 1..n : enr[i] = rows[i]
    BY <1>6, <2>2
  <2>4. \A i \in 1..n : Former(enr, i) = Former(rows, i)
    <3>1. \A i \in 1..n : i # 1 => i - 1 \in 1..n
      BY <1>5
    <3> HIDE DEF n
    <3> QED BY <2>3, <3>1 DEF Former
  <2> QED BY <1>5, <2>1, <2>3, <2>4 DEF Whole
<1>15. ASSUME damage.what = "stripped"
       PROVE  NoBlanks(enr) /\ \E d \in 1..n : BadAt(enr, d) /\ enr[d].id = damage.id
  <2>1. PICK d \in 1..n :
          /\ BadAt(rows, d) /\ rows[d].id = damage.id
          /\ IF damage.opened THEN NoBlanks(rows) ELSE rows[d].sha = Blank /\ rows[d].version = CurrentVersion
    BY <1>4, <1>15 DEF Told
  <2>2. rows[d].sha = Blank /\ rows[d].version = CurrentVersion
    <3>1. ~NoBlanks(rows)
      BY <1>10, <2>1 DEF FirstBad
    <3> QED BY <2>1, <3>1
  <2>3. d - 1 \in 0..n /\ d \in Nat /\ \A i \in 1..n : i < d => i \in 1..(d - 1)
    BY <1>5
  <2>4. \A i \in 1..(d - 1) : i \in 1..n /\ i < d
    BY <1>5
  <2> HIDE DEF n
  <2>5. \A i \in 1..(d - 1) : Fits(Former(rows, i), rows[i]) /\ RevisionFits(rows[i])
    BY <2>1, <2>4 DEF BadAt, n
  <2>6. \A i \in 1..(d - 1) : enr[i] = rows[i]
    BY <1>6, <2>3, <2>5
  <2>7. \A i \in 1..n : i < d => Fits(Former(enr, i), enr[i]) /\ RevisionFits(enr[i])
    <3> SUFFICES ASSUME NEW i \in 1..n, i < d PROVE Fits(Former(enr, i), enr[i]) /\ RevisionFits(enr[i])
      OBVIOUS
    <3>1. i \in 1..(d - 1) /\ (i # 1 => i - 1 \in 1..(d - 1))
      BY <2>3
    <3>2. Former(enr, i) = Former(rows, i)
      BY <2>6, <3>1 DEF Former
    <3> QED BY <2>5, <2>6, <3>1, <3>2
  <2>8. ~Fits(Former(enr, d), enr[d]) /\ enr[d].id = damage.id
    BY <1>6, <2>1, <2>2
  <2>9. BadAt(enr, d)
    BY <1>5, <2>7, <2>8 DEF BadAt
  <2>10. NoBlanks(enr)
    BY <1>5, <1>6 DEF NoBlanks
  <2> QED BY <2>8, <2>9, <2>10
<1>13. Told(enr, held, seen)
  <2>1. damage.what \in {"nothing", "mode", "stripped", "tail"}
    BY <1>4, <1>11 DEF Kinds
  <2> HIDE DEF n
  <2>2. CASE damage.what \in {"nothing", "mode"}
    BY <2>2, <1>8, <1>9, <1>12 DEF Told
  <2>3. CASE damage.what = "stripped"
    BY <2>3, <1>5, <1>9, <1>15 DEF Told
  <2>4. CASE damage.what = "tail"
    BY <2>4, <1>9 DEF Told
  <2> QED BY <2>1, <2>2, <2>3, <2>4
<1>14. damage' = seen
  BY <1>3 DEF seen
<1> QED BY <1>3, <1>7, <1>8, <1>9, <1>13, <1>14 DEF ChainInv

LEMMA ChainSteps == ChainInv /\ [ChainNext]_chainVars => ChainInv'
<1> SUFFICES ASSUME ChainInv, [ChainNext]_chainVars PROVE ChainInv'
  OBVIOUS
<1>1. ASSUME NEW x \in Payloads, NEW v \in Columns, NEW external \in BOOLEAN, Insert(x, v, external) PROVE ChainInv'
  BY <1>1, InsertKeeps
<1>2. ASSUME NEW i \in DOMAIN rows, Damage(i) PROVE ChainInv'
  BY <1>2, DamageKeeps
<1>3. CASE Open
  BY <1>3, OpenKeeps
<1>4. CASE UNCHANGED chainVars
  <2>1. rows' = rows /\ anchor' = anchor /\ nextId' = nextId /\ damage' = damage
    BY <1>4, Zenon DEF chainVars
  <2> QED BY <2>1 DEF ChainInv
<1> QED BY <1>1, <1>2, <1>3, <1>4, Zenon DEF ChainNext

\* A row is sound that fits after the one before and has its revision.
LEMMA UnsoundIs ==
  ASSUME rows \in Seq(Row)
  PROVE  Unsound(rows) = {i \in 1..Len(rows) : ~(Fits(Former(rows, i), rows[i]) /\ RevisionFits(rows[i]))}
<1>1. DOMAIN rows = 1..Len(rows)
  OBVIOUS
<1>2. ASSUME NEW i \in DOMAIN rows
      PROVE  Sound(IF i = 1 THEN <<>> ELSE rows[i - 1].chain, rows[i])
               <=> Fits(Former(rows, i), rows[i]) /\ RevisionFits(rows[i])
  <2>1. (IF i = 1 THEN <<>> ELSE rows[i - 1].chain) = Former(rows, i)
    BY DEF Former
  <2>2. \A p : Sound(p, rows[i]) <=> Fits(p, rows[i]) /\ RevisionFits(rows[i])
    BY DEF Sound, Fits, RevisionFits
  <2> QED BY <2>1, <2>2
<1> QED BY <1>1, <1>2, Zenon DEF Unsound

\* Where row d is the first bad one it is named, and if every row has its hashes
\* the store cannot be opened.
LEMMA FirstIsNamed ==
  ASSUME rows \in Seq(Row), NEW d \in 1..Len(rows), BadAt(rows, d)
  PROVE  ~Verify.ok /\ Verify.first = rows[d].id /\ (NoBlanks(rows) => ~Agrees)
<1> DEFINE n == Len(rows)
           bad == Unsound(rows)
           least == CHOOSE i \in bad : \A j \in bad : i <= j
<1>1. bad = {i \in 1..n : ~(Fits(Former(rows, i), rows[i]) /\ RevisionFits(rows[i]))}
  BY UnsoundIs
<1>2. n \in Nat /\ d \in bad /\ \A i \in bad : i \in 1..n /\ ~(i < d)
  BY <1>1 DEF BadAt
<1> HIDE DEF bad
<1>3. least = d
  <2>1. \A j \in bad : d <= j
    BY <1>2
  <2>2. least \in bad /\ \A j \in bad : least <= j
    BY <1>2, <2>1
  <2> HIDE DEF least
  <2> QED BY <1>2, <2>1, <2>2
<1>4. Verify = [ok |-> FALSE, first |-> rows[least].id]
  BY <1>2 DEF Verify, bad
<1>5. NoBlanks(rows) => ~Agrees
  <2> SUFFICES ASSUME NoBlanks(rows), Agrees PROVE FALSE
    OBVIOUS
  <2>1. \A i \in 1..n : rows[i].sha # Blank
    BY DEF NoBlanks
  <2>2. Fits(Former(rows, d), rows[d])
    BY <2>1, AgreesIs
  <2> QED BY <2>2 DEF BadAt
<1> HIDE DEF least
<1> QED BY <1>3, <1>4, <1>5

LEMMA DamageSeen == ChainInv => DamageIsSeen
<1> SUFFICES ASSUME ChainInv PROVE DamageIsSeen
  OBVIOUS
<1> DEFINE n == Len(rows)
<1>1. Tidy(rows, nextId) /\ damage \in [what : Kinds, id : Nat, opened : BOOLEAN] /\ Told(rows, anchor, damage)
  BY DEF ChainInv
<1>2. rows \in Seq(Row) /\ n \in Nat
  BY <1>1 DEF Tidy
<1>3. Unsound(rows) = {i \in 1..n : ~(Fits(Former(rows, i), rows[i]) /\ RevisionFits(rows[i]))}
  BY <1>2, UnsoundIs
<1>4. AnchorHolds <=> AnchorFor(rows, anchor)
  BY DEF AnchorHolds, AnchorFor
<1>5. ASSUME Whole(rows), AnchorFor(rows, anchor) PROVE Verify.ok
  <2>1. Unsound(rows) = {}
    BY <1>3, <1>5 DEF Whole
  <2>2. Verify = [ok |-> AnchorHolds, first |-> 0]
    BY <2>1 DEF Verify
  <2> QED BY <1>4, <1>5, <2>2
<1>6. ASSUME Whole(rows) PROVE Agrees
  <2>1. PICK enr : enr = Enrolled
    OBVIOUS
  <2>2. enr \in Seq(Row) /\ Remade(rows, enr, n)
    BY <1>2, <2>1, EnrolledIs
  <2>3. \A i \in 1..n : Fits(Former(rows, i), rows[i])
    BY <1>6 DEF Whole
  <2>4. \A i \in 1..n : enr[i] = rows[i]
    <3>1. n \in 0..n
      BY <1>2
    <3> QED BY <1>2, <2>2, <2>3, <3>1, RemadeFits
  <2> QED BY <1>2, <2>1, <2>4 DEF Agrees
<1>7. damage.what \in {"nothing", "mode"} => Verify.ok /\ Agrees
  BY <1>1, <1>5, <1>6 DEF Told
<1>8. damage.what \in {"text", "hash", "meta"} => ~Verify.ok /\ Verify.first = damage.id /\ ~Agrees
  <2> SUFFICES ASSUME damage.what \in {"text", "hash", "meta"}
               PROVE  ~Verify.ok /\ Verify.first = damage.id /\ ~Agrees
    OBVIOUS
  <2>1. PICK d \in 1..n : FirstBad(rows, d) /\ rows[d].id = damage.id
    BY <1>1 DEF Told
  <2> QED BY <1>2, <2>1, FirstIsNamed DEF FirstBad
<1>9. damage.what = "lost" => ~Verify.ok /\ Verify.first > damage.id /\ ~Agrees
  <2> SUFFICES ASSUME damage.what = "lost"
               PROVE  ~Verify.ok /\ Verify.first > damage.id /\ ~Agrees
    OBVIOUS
  <2>1. PICK d \in 1..n : FirstBad(rows, d) /\ rows[d].id > damage.id
    BY <1>1 DEF Told
  <2>2. ~Verify.ok /\ Verify.first = rows[d].id /\ ~Agrees
    BY <1>2, <2>1, FirstIsNamed DEF FirstBad
  <2> QED BY <2>1, <2>2
<1>10. (\E i \in 1..n : ~(Fits(Former(rows, i), rows[i]) /\ RevisionFits(rows[i]))) \/ ~AnchorHolds => ~Verify.ok
  <2>1. Verify.ok => Unsound(rows) = {} /\ AnchorHolds
    <3>1. CASE Unsound(rows) = {}
      BY <3>1 DEF Verify
    <3>2. CASE Unsound(rows) # {}
      BY <3>2 DEF Verify
    <3> QED BY <3>1, <3>2
  <2> QED BY <1>3, <2>1
<1>11. damage.what = "tail" /\ ~damage.opened => ~Verify.ok
  <2> SUFFICES ASSUME damage.what = "tail", ~damage.opened PROVE ~AnchorHolds
    BY <1>10
  <2>1. anchor.count = n + 1
    BY <1>1 DEF Told
  <2>2. CASE rows = <<>>
    BY <1>2, <1>4, <2>1, <2>2 DEF AnchorFor
  <2>3. CASE rows # <<>>
    <3> SUFFICES ASSUME AnchorHolds PROVE FALSE
      OBVIOUS
    <3>1. anchor = [first |-> rows[1].id, last |-> rows[n].id, count |-> n, tip |-> Tip(rows)]
      BY <1>4, <2>3 DEF AnchorFor
    <3>2. anchor.count = n
      BY <3>1
    <3> QED BY <1>2, <2>1, <3>2
  <2> QED BY <2>2, <2>3
<1>12. damage.what = "stripped" => ~Verify.ok /\ Verify.first = damage.id /\ (damage.opened => ~Agrees)
  <2> SUFFICES ASSUME damage.what = "stripped"
               PROVE  ~Verify.ok /\ Verify.first = damage.id /\ (damage.opened => ~Agrees)
    OBVIOUS
  <2>1. PICK d \in 1..n : /\ BadAt(rows, d) /\ rows[d].id = damage.id
                          /\ damage.opened => NoBlanks(rows)
    BY <1>1 DEF Told
  <2> QED BY <1>2, <2>1, FirstIsNamed
<1> HIDE DEF n
<1> QED BY <1>7, <1>8, <1>9, <1>11, <1>12 DEF DamageIsSeen

-----------------------------------------------------------------------------
(* The chunks: where each ends, and that they leave out nothing            *)

Span == [start : Nat, end : Nat]

\* Where the chunk that begins at start ends.
Cut(t, start) == PreferredEnd(t, start, Min({Len(t), start + MaxChars}))

LEMMA EndsAre ==
  ASSUME NEW t, NEW start \in Nat, NEW end \in Nat, NEW e \in Ends(t, start, end)
  PROVE  e \in Nat /\ start < e /\ e <= end /\ Before(t, e) \in {e - 1, e - 2}
<1>1. (\E i \in start..(end - 1) : e = i + 1) \/ (\E i \in start..(end - 2) : e = i + 2)
  BY DEF Ends
<1>2. e \in Nat /\ start < e /\ e <= end
  BY <1>1
<1>3. Before(t, e) \in {e - 1, e - 2}
  BY DEF Before
<1> QED BY <1>2, <1>3

\* Of the cuts there is one that begins last.
LEMMA LastCut ==
  ASSUME NEW t, NEW start \in Nat, NEW hard \in Nat, NEW cuts \in SUBSET Ends(t, start, hard), cuts # {}
  PROVE  (CHOOSE e \in cuts : \A d \in cuts : Before(t, d) <= Before(t, e)) \in cuts
<1> DEFINE at == {Before(t, e) + 2 : e \in cuts}
<1>1. \A e \in cuts : Before(t, e) \in Int /\ Before(t, e) + 2 \in 0..(hard + 1)
  <2> SUFFICES ASSUME NEW e \in cuts PROVE Before(t, e) \in Int /\ Before(t, e) + 2 \in 0..(hard + 1)
    OBVIOUS
  <2>1. e \in Nat /\ start < e /\ e <= hard /\ Before(t, e) \in {e - 1, e - 2}
    BY EndsAre
  <2> QED BY <2>1
<1>2. hard + 1 \in Nat /\ at \in SUBSET (0..(hard + 1)) /\ at # {}
  BY <1>1
<1>3. Max(at) \in at /\ \A y \in at : y <= Max(at)
  <2> HIDE DEF at
  <2> QED BY <1>2, MaxIs
<1>4. PICK e \in cuts : Max(at) = Before(t, e) + 2
  BY <1>3
<1>5. \A d \in cuts : Before(t, d) <= Before(t, e)
  <2> SUFFICES ASSUME NEW d \in cuts PROVE Before(t, d) <= Before(t, e)
    OBVIOUS
  <2>1. Before(t, d) + 2 \in at
    OBVIOUS
  <2>2. Before(t, d) + 2 <= Before(t, e) + 2
    BY <1>3, <1>4, <2>1
  <2> QED BY <1>1, <2>2
<1> QED BY <1>5

LEMMA CutIs ==
  ASSUME NEW S, NEW t \in Seq(S), NEW start \in 0..(Len(t) - 1)
  PROVE  /\ Cut(t, start) \in 1..Len(t) /\ start < Cut(t, start) /\ Cut(t, start) <= start + MaxChars
         /\ NextStart(start, Cut(t, start)) \in 0..Cut(t, start) /\ start < NextStart(start, Cut(t, start))
<1> DEFINE n == Len(t)
           hard == Min({n, start + MaxChars})
           cut == Cut(t, start)
<1>0. MaxChars \in Nat \ {0} /\ OverlapChars \in Nat
  BY ChunkerAssumption
<1>1. n \in Nat /\ start \in Nat /\ start < n
  OBVIOUS
<1> HIDE DEF n
<1>2. hard \in Nat /\ start < hard /\ hard <= n /\ hard <= start + MaxChars /\ (hard >= n => hard = n)
  <2>1. CASE n <= start + MaxChars
    <3>1. hard = n
      BY <1>0, <1>1, <2>1 DEF Min
    <3> QED BY <1>0, <1>1, <2>1, <3>1
  <2>2. CASE ~(n <= start + MaxChars)
    <3>1. hard = start + MaxChars
      BY <1>0, <1>1, <2>2 DEF Min
    <3> QED BY <1>0, <1>1, <2>2, <3>1
  <2> QED BY <2>1, <2>2
<1> HIDE DEF hard
<1>3. cut \in Nat /\ start < cut /\ cut <= hard
  <2> DEFINE from == start + Max({1, (hard - start) \div 2})
             cuts == {e \in Ends(t, start, hard) : Before(t, e) >= from}
  <2>1. cut = IF hard >= n THEN n ELSE IF cuts = {} THEN hard
              ELSE CHOOSE e \in cuts : \A d \in cuts : Before(t, d) <= Before(t, e)
    BY DEF Cut, PreferredEnd, hard, n
  <2>2. cuts \in SUBSET Ends(t, start, hard)
    OBVIOUS
  <2> HIDE DEF cuts
  <2>3. CASE hard >= n
    BY <1>1, <1>2, <2>1, <2>3
  <2>4. CASE ~(hard >= n) /\ cuts = {}
    BY <1>2, <2>1, <2>4
  <2>5. CASE ~(hard >= n) /\ cuts # {}
    <3> DEFINE last == CHOOSE e \in cuts : \A d \in cuts : Before(t, d) <= Before(t, e)
    <3>0. last \in cuts
      BY <1>1, <1>2, <2>2, <2>5, LastCut, Zenon
    <3> HIDE DEF last
    <3>1. cut \in cuts
      BY <2>1, <2>5, <3>0, Zenon DEF last
    <3>2. cut \in Ends(t, start, hard)
      BY <2>2, <3>1
    <3> HIDE DEF cut
    <3> QED BY <1>1, <1>2, <3>2, EndsAre
  <2> QED BY <2>3, <2>4, <2>5
<1> HIDE DEF cut
<1>4. cut \in 1..n /\ cut <= start + MaxChars
  BY <1>0, <1>1, <1>2, <1>3
<1> DEFINE back == IF cut >= OverlapChars THEN cut - OverlapChars ELSE 0
<1>5. back \in Nat /\ back <= cut
  BY <1>0, <1>3
<1>6. NextStart(start, cut) = Max({start + 1, back})
  BY DEF NextStart
<1> HIDE DEF back
<1>7. Max({start + 1, back}) \in {start + 1, back} /\ \A y \in {start + 1, back} : y <= Max({start + 1, back})
  <2>1. {start + 1, back} \in SUBSET (0..cut) /\ {start + 1, back} # {}
    BY <1>1, <1>3, <1>5
  <2>2. PICK both : both = {start + 1, back}
    OBVIOUS
  <2> QED BY <1>3, <2>1, <2>2, MaxIs
<1>8. NextStart(start, cut) \in 0..cut /\ start < NextStart(start, cut)
  <2>1. PICK m : m = Max({start + 1, back})
    OBVIOUS
  <2> QED BY <1>1, <1>3, <1>5, <1>6, <1>7, <2>1
<1> QED BY <1>3, <1>4, <1>8 DEF cut, n

\* The chunks of t from each start on.
FromRule(f, t) ==
  \A start \in 0..Len(t) :
    f[start] = IF start >= Len(t) THEN <<>>
               ELSE IF Cut(t, start) >= Len(t) THEN <<[start |-> start, end |-> Cut(t, start)]>>
               ELSE <<[start |-> start, end |-> Cut(t, start)]>> \o f[NextStart(start, Cut(t, start))]

\* From the end of the text back there is a function that gives them.
LEMMA FromExists ==
  ASSUME NEW S, NEW t \in Seq(S)
  PROVE  \E f \in [0..Len(t) -> Seq(Span)] : FromRule(f, t)
<1> DEFINE n == Len(t)
           one(start) == <<[start |-> start, end |-> Cut(t, start)]>>
           next(start) == NextStart(start, Cut(t, start))
           Rule(f, start) == IF start >= n THEN <<>> ELSE IF Cut(t, start) >= n THEN one(start)
                             ELSE one(start) \o f[next(start)]
           Good(m) == \E f \in [(n - m)..n -> Seq(Span)] : \A start \in (n - m)..n : f[start] = Rule(f, start)
           A == {m \in 0..n : Good(m)}
<1>1. n \in Nat
  OBVIOUS
<1>2. \A start \in 0..(n - 1) : Cut(t, start) \in Nat /\ start < next(start) /\ next(start) <= Cut(t, start) /\ next(start) \in Nat
  <2> SUFFICES ASSUME NEW start \in 0..(n - 1)
               PROVE  Cut(t, start) \in Nat /\ start < next(start) /\ next(start) <= Cut(t, start) /\ next(start) \in Nat
    OBVIOUS
  <2>1. /\ Cut(t, start) \in 1..n
        /\ next(start) \in 0..Cut(t, start) /\ start < next(start)
    BY CutIs
  <2> HIDE DEF next, n
  <2> QED BY <1>1, <2>1
<1>3. \A start \in 0..(n - 1) : one(start) \in Seq(Span)
  BY <1>1, <1>2 DEF Span
<1> HIDE DEF n, one, next
<1>4. Good(0)
  <2> DEFINE f == [start \in n..n |-> <<>>]
  <2>1. f \in [(n - 0)..n -> Seq(Span)] /\ \A start \in (n - 0)..n : f[start] = Rule(f, start)
    BY <1>1
  <2> QED BY <2>1
<1>5. ASSUME NEW m \in 1..n, Good(m - 1) PROVE Good(m)
  <2> PICK old \in [(n - (m - 1))..n -> Seq(Span)] : \A start \in (n - (m - 1))..n : old[start] = Rule(old, start)
    BY <1>5
  <2> DEFINE s == n - m
             here == IF Cut(t, s) >= n THEN one(s) ELSE one(s) \o old[next(s)]
             new == [start \in (n - m)..n |-> IF start = s THEN here ELSE old[start]]
  <2>1. s \in 0..(n - 1) /\ \A start \in (n - m)..n : start = s \/ start \in (n - (m - 1))..n
    BY <1>1
  <2>2. \A start \in (n - m)..n : /\ start \in Nat
                                  /\ ~(start >= n) /\ ~(Cut(t, start) >= n) => /\ next(start) \in (n - (m - 1))..n
                                                                               /\ next(start) # s
    <3> SUFFICES ASSUME NEW start \in (n - m)..n, ~(start >= n), ~(Cut(t, start) >= n)
                 PROVE  next(start) \in (n - (m - 1))..n /\ next(start) # s
      BY <1>1
    <3>1. start \in 0..(n - 1) /\ n - m <= start
      BY <1>1
    <3>2. Cut(t, start) \in Nat /\ start < next(start) /\ next(start) <= Cut(t, start) /\ next(start) \in Nat
      BY <1>2, <3>1
    <3>3. Cut(t, start) < n
      BY <1>1, <3>2
    <3>4. PICK x \in Nat : x = next(start)
      BY <3>2
    <3> QED BY <1>1, <3>1, <3>2, <3>3, <3>4
  <2>3. here \in Seq(Span)
    <3>1. CASE Cut(t, s) >= n
      BY <1>3, <2>1, <3>1
    <3>2. CASE ~(Cut(t, s) >= n)
      <4>1. old[next(s)] \in Seq(Span)
        BY <1>1, <2>1, <2>2, <3>2
      <4> HIDE DEF s
      <4> QED BY <1>3, <2>1, <3>2, <4>1
    <3> QED BY <3>1, <3>2
  <2> HIDE DEF here
  <2>4. new \in [(n - m)..n -> Seq(Span)]
    BY <2>1, <2>3
  <2>5. \A start \in (n - (m - 1))..n : start \in (n - m)..n /\ start # s /\ new[start] = old[start]
    BY <1>1
  <2>6. new[s] = here
    BY <1>1
  <2> HIDE DEF new
  <2>7. ASSUME NEW start \in (n - m)..n PROVE new[start] = Rule(new, start)
    <3>1. CASE start = s
      <4>1. ~(s >= n)
        BY <1>1, <2>1
      <4>2. ~(Cut(t, s) >= n) => new[next(s)] = old[next(s)]
        BY <2>2, <2>5, <3>1, <4>1
      <4> QED BY <2>6, <3>1, <4>1, <4>2 DEF here
    <3>2. CASE start # s
      <4>1. start \in (n - (m - 1))..n /\ new[start] = old[start] /\ old[start] = Rule(old, start)
        BY <2>1, <2>5, <3>2
      <4>2. ~(start >= n) /\ ~(Cut(t, start) >= n) => new[next(start)] = old[next(start)]
        BY <2>2, <2>5
      <4> QED BY <4>1, <4>2
    <3> QED BY <3>1, <3>2
  <2> QED BY <2>4, <2>7
<1>6. \A m \in 0..n : m \in A
  <2>1. 0 \in A
    <3> HIDE DEF Good
    <3> QED BY <1>1, <1>4
  <2>2. \A m \in 1..n : m - 1 \in A => m \in A
    <3> SUFFICES ASSUME NEW m \in 1..n, m - 1 \in A PROVE Good(m) /\ m \in 0..n
      OBVIOUS
    <3> HIDE DEF Good
    <3> QED BY <1>1, <1>5
  <2> HIDE DEF A
  <2> QED BY <1>1, <2>1, <2>2, RangeInduction
<1>7. Good(n) /\ (n - n)..n = 0..n
  <2>1. n \in 0..n /\ (n - n)..n = 0..n
    BY <1>1
  <2> HIDE DEF Good
  <2> QED BY <1>6, <2>1
<1>8. PICK f \in [0..n -> Seq(Span)] : \A start \in 0..n : f[start] = Rule(f, start)
  BY <1>7
<1>9. FromRule(f, t)
  BY <1>8, Zenon DEF FromRule, n, one, next
<1> QED BY <1>8, <1>9 DEF n

\* Spans from start to n that leave out nothing.
Spans(list, start, n) ==
  /\ list \in Seq(Span)
  /\ start < n => list # <<>> /\ list[1].start = start /\ list[Len(list)].end = n
  /\ \A i \in 1..Len(list) : list[i].start < list[i].end /\ list[i].end <= list[i].start + MaxChars
  /\ \A i \in 1..(Len(list) - 1) : list[i].start < list[i + 1].start /\ list[i + 1].start <= list[i].end

LEMMA OneSpan ==
  ASSUME NEW n \in Nat, NEW start \in 0..(n - 1), start + MaxChars >= n,
         NEW list, list = <<[start |-> start, end |-> n]>>
  PROVE  Spans(list, start, n)
<1>1. [start |-> start, end |-> n] \in Span
  BY DEF Span
<1>2. list \in Seq(Span) /\ Len(list) = 1 /\ list[1].start = start /\ list[1].end = n /\ list # <<>>
  BY <1>1
<1>3. start < n
  OBVIOUS
<1> QED BY <1>2, <1>3 DEF Spans

LEMMA SpanBefore ==
  ASSUME NEW n \in Nat, NEW start \in 0..(n - 1), NEW end \in Nat, NEW next \in Nat, NEW rest, NEW list,
         Spans(rest, next, n), start < next, next <= end, end < n, end <= start + MaxChars,
         list = <<[start |-> start, end |-> end]>> \o rest
  PROVE  Spans(list, start, n)
<1> DEFINE one == [start |-> start, end |-> end]
           k == Len(rest)
<1>1. rest \in Seq(Span) /\ k \in Nat /\ next < n
  BY DEF Spans
<1>2. /\ rest # <<>> /\ rest[1].start = next /\ rest[k].end = n
      /\ \A i \in 1..k : rest[i].start < rest[i].end /\ rest[i].end <= rest[i].start + MaxChars
      /\ \A i \in 1..(k - 1) : rest[i].start < rest[i + 1].start /\ rest[i + 1].start <= rest[i].end
  BY <1>1 DEF Spans
<1>3. k \in Nat \ {0}
  BY <1>1, <1>2
<1>4. one \in Span /\ one.start = start /\ one.end = end
  BY DEF Span
<1> HIDE DEF one
<1>5. /\ list \in Seq(Span) /\ Len(list) = k + 1 /\ list[1] = one /\ list # <<>>
      /\ \A i \in 2..(k + 1) : list[i] = rest[i - 1]
  <2>1. list = <<one>> \o rest
    BY DEF one
  <2>2. <<one>> \in Seq(Span) /\ Len(<<one>>) = 1 /\ <<one>>[1] = one
    BY <1>4
  <2> QED BY <1>1, <1>3, <1>4, <2>1, <2>2
<1> HIDE DEF k
<1>6. list[1].start = start /\ list[k + 1].end = n
  <2>1. k + 1 \in 2..(k + 1) /\ (k + 1) - 1 = k
    BY <1>3
  <2> QED BY <1>2, <1>4, <1>5, <2>1
<1>7. ASSUME NEW i \in 1..(k + 1) PROVE list[i].start < list[i].end /\ list[i].end <= list[i].start + MaxChars
  <2>1. CASE i = 1
    <3>1. start < end
      OBVIOUS
    <3> QED BY <2>1, <3>1, <1>4, <1>5
  <2>2. CASE i # 1
    <3>1. i \in 2..(k + 1) /\ i - 1 \in 1..k
      BY <2>2, <1>3
    <3> QED BY <3>1, <1>2, <1>5
  <2> QED BY <2>1, <2>2
<1>8. ASSUME NEW i \in 1..k PROVE list[i].start < list[i + 1].start /\ list[i + 1].start <= list[i].end
  <2>1. CASE i = 1
    <3>1. i + 1 \in 2..(k + 1) /\ (i + 1) - 1 = 1
      BY <2>1, <1>3
    <3> QED BY <2>1, <3>1, <1>2, <1>4, <1>5
  <2>2. CASE i # 1
    <3>1. i \in 2..(k + 1) /\ i + 1 \in 2..(k + 1) /\ (i + 1) - 1 = (i - 1) + 1 /\ i - 1 \in 1..(k - 1)
      BY <2>2, <1>3
    <3>2. list[i] = rest[i - 1] /\ list[i + 1] = rest[(i - 1) + 1]
      BY <3>1, <1>5
    <3> QED BY <3>1, <3>2, <1>2
  <2> QED BY <2>1, <2>2
<1>9. (k + 1) - 1 = k
  BY <1>3
<1> QED BY <1>5, <1>6, <1>7, <1>8, <1>9 DEF Spans

LEMMA ChunksAre ==
  ASSUME NEW S, NEW t \in Seq(S)
  PROVE  Spans(Chunks(t), 0, Len(t))
<1> DEFINE P(f) == f = [start \in 0..Len(t) |->
                          IF start >= Len(t) THEN <<>>
                          ELSE IF Cut(t, start) >= Len(t) THEN <<[start |-> start, end |-> Cut(t, start)]>>
                          ELSE <<[start |-> start, end |-> Cut(t, start)]>> \o f[NextStart(start, Cut(t, start))]]
           from == CHOOSE f : P(f)
<1>1. Chunks(t) = from[0]
  BY Zenon DEF Chunks, Cut
<1>2. \E f : P(f)
  <2>1. PICK f \in [0..Len(t) -> Seq(Span)] : FromRule(f, t)
    BY FromExists
  <2> DEFINE g(start) == IF start >= Len(t) THEN <<>>
                         ELSE IF Cut(t, start) >= Len(t) THEN <<[start |-> start, end |-> Cut(t, start)]>>
                         ELSE <<[start |-> start, end |-> Cut(t, start)]>> \o f[NextStart(start, Cut(t, start))]
  <2>2. \A start \in 0..Len(t) : f[start] = g(start)
    BY <2>1, Zenon DEF FromRule
  <2>3. f = [start \in 0..Len(t) |-> g(start)]
    <3> HIDE DEF g
    <3> QED BY <2>2
  <2>4. P(f)
    BY <2>3, Zenon
  <2> QED BY <2>4
<1>3. P(from)
  BY <1>2, Zenon
<1> HIDE DEF from
<1>4. FromRule(from, t)
  BY <1>3 DEF FromRule
<1> HIDE DEF P
<1> DEFINE n == Len(t)
           A == {m \in 0..n : \A start \in (n - m)..n : Spans(from[start], start, n)}
<1>5. n \in Nat
  OBVIOUS
<1>6. 0 \in A
  <2>1. from[n] = <<>>
    <3>1. n \in 0..n /\ n >= n
      BY <1>5
    <3> QED BY <1>4, <3>1, Zenon DEF FromRule
  <2>2. Spans(<<>>, n, n)
    BY <1>5 DEF Spans
  <2> HIDE DEF n
  <2>3. \A start \in (n - 0)..n : start = n
    BY <1>5
  <2> QED BY <1>5, <2>1, <2>2, <2>3
<1>7. ASSUME NEW m \in 1..n, m - 1 \in A PROVE m \in A
  <2>1. \A start \in (n - (m - 1))..n : Spans(from[start], start, n)
    BY <1>7
  <2> SUFFICES ASSUME NEW start \in (n - m)..n PROVE Spans(from[start], start, n)
    BY <1>5
  <2>2. CASE start # n - m
    <3>1. start \in (n - (m - 1))..n
      BY <2>2, <1>5
    <3> QED BY <2>1, <3>1
  <2>3. CASE start = n - m
    <3> DEFINE end == Cut(t, start)
               next == NextStart(start, end)
    <3>1. start \in 0..(n - 1)
      BY <2>3, <1>5
    <3>2. /\ end \in 1..n /\ start < end /\ end <= start + MaxChars
          /\ next \in 0..end /\ start < next
      BY <3>1, CutIs
    <3>3. from[start] = IF end >= n THEN <<[start |-> start, end |-> end]>>
                        ELSE <<[start |-> start, end |-> end]>> \o from[next]
      <4>1. ~(start >= n) /\ start \in 0..n
        BY <1>5, <3>1
      <4> QED BY <1>4, <4>1 DEF FromRule
    <3> HIDE DEF n, end, next
    <3>4. CASE end >= n
      <4>1. end = n /\ start + MaxChars >= n
        BY <1>5, <3>1, <3>2, <3>4, ChunkerAssumption
      <4> QED BY <1>5, <3>1, <3>3, <3>4, <4>1, OneSpan
    <3>5. CASE ~(end >= n)
      <4>1. next \in (n - (m - 1))..n /\ next \in Nat /\ end \in Nat /\ next <= end /\ end < n
        BY <1>5, <2>3, <3>2, <3>5
      <4>2. Spans(from[next], next, n)
        BY <2>1, <4>1
      <4> QED BY <1>5, <3>1, <3>2, <3>3, <3>5, <4>1, <4>2, SpanBefore
    <3> QED BY <3>4, <3>5
  <2> QED BY <2>2, <2>3
<1>8. \A m \in 0..n : m \in A
  <2> HIDE DEF A, n
  <2> QED BY <1>5, <1>6, <1>7, RangeInduction
<1>9. Spans(from[0], 0, n)
  <2> HIDE DEF n
  <2>1. n \in A /\ 0 \in (n - n)..n
    BY <1>5, <1>8
  <2> QED BY <2>1
<1> QED BY <1>1, <1>9

\* The walk over the chunks that meet the quote.
Acc == [whole : BOOLEAN, until : Nat]
Meets(c, start, end) == c.start < end /\ c.end > start
Advance(acc, c, start, end) ==
  IF ~Meets(c, start, end) \/ ~acc.whole \/ acc.until >= end THEN acc
  ELSE IF c.start > acc.until THEN [acc EXCEPT !.whole = FALSE]
  ELSE [acc EXCEPT !.until = Max({acc.until, c.end})]

LEMMA AdvanceIs ==
  ASSUME NEW acc \in Acc, NEW c \in Span, NEW start \in Nat, NEW end \in Nat
  PROVE  /\ Advance(acc, c, start, end) \in Acc
         /\ (~Meets(c, start, end) \/ acc.until >= end) => Advance(acc, c, start, end) = acc
         /\ acc.whole /\ c.start <= acc.until => /\ Advance(acc, c, start, end).whole
                                                 /\ acc.until <= Advance(acc, c, start, end).until
                                                 /\ Meets(c, start, end) => \/ Advance(acc, c, start, end).until >= end
                                                                            \/ Advance(acc, c, start, end).until >= c.end
<1>1. acc.until \in Nat /\ acc.whole \in BOOLEAN /\ c.start \in Nat /\ c.end \in Nat
  BY DEF Acc, Span
<1>2. PICK m : m = Max({acc.until, c.end})
  OBVIOUS
<1>3. m \in {acc.until, c.end} /\ m \in Nat /\ m >= acc.until /\ m >= c.end
  <2>1. CASE acc.until <= c.end
    <3>1. {acc.until, c.end} \in SUBSET (0..c.end) /\ {acc.until, c.end} # {}
      BY <1>1, <2>1
    <3>2. m \in {acc.until, c.end} /\ \A y \in {acc.until, c.end} : y <= m
      BY <1>1, <1>2, <3>1, MaxIs
    <3> QED BY <1>1, <3>2
  <2>2. CASE ~(acc.until <= c.end)
    <3>1. {acc.until, c.end} \in SUBSET (0..acc.until) /\ {acc.until, c.end} # {}
      BY <1>1, <2>2
    <3>2. m \in {acc.until, c.end} /\ \A y \in {acc.until, c.end} : y <= m
      BY <1>1, <1>2, <3>1, MaxIs
    <3> QED BY <1>1, <3>2
  <2> QED BY <2>1, <2>2
<1>4. PICK stop : stop = [acc EXCEPT !.whole = FALSE]
  OBVIOUS
<1>5. PICK on : on = [acc EXCEPT !.until = m]
  OBVIOUS
<1>6. stop \in Acc /\ on \in Acc /\ on.until = m /\ on.whole = acc.whole
  BY <1>3, <1>4, <1>5 DEF Acc
<1>7. Advance(acc, c, start, end) = IF ~Meets(c, start, end) \/ ~acc.whole \/ acc.until >= end THEN acc
                                    ELSE IF c.start > acc.until THEN stop ELSE on
  BY <1>2, <1>4, <1>5 DEF Advance
<1> QED BY <1>1, <1>3, <1>6, <1>7

\* The walk, one chunk after the other.
WalkRule(h, t, start, end) ==
  /\ h[0] = [whole |-> TRUE, until |-> start]
  /\ Quotable(t, start, end) <=> /\ \E i \in 1..Len(Chunks(t)) : Meets(Chunks(t)[i], start, end)
                                 /\ h[Len(Chunks(t))].whole /\ h[Len(Chunks(t))].until >= end
  /\ \A k \in 1..Len(Chunks(t)) : h[k] = Advance(h[k - 1], Chunks(t)[k], start, end)

LEMMA WalkSteps ==
  ASSUME NEW t, Chunks(t) \in Seq(Span), NEW start \in Nat, NEW end \in Nat
  PROVE  \E h \in [0..Len(Chunks(t)) -> Acc] : WalkRule(h, t, start, end)
<1> DEFINE n == Len(Chunks(t))
           T == Acc
           base == [whole |-> TRUE, until |-> start]
           G == [k \in 1..n |-> [a \in T |-> Advance(a, Chunks(t)[k], start, end)]]
           P(iter) == iter = [s \in SUBSET (1..n) |->
                                IF s = {} THEN base ELSE Advance(iter[s \ {Max(s)}], Chunks(t)[Max(s)], start, end)]
           f == CHOOSE iter : P(iter)
<1>1. n \in Nat /\ 1..n \in SUBSET (0..n) /\ DOMAIN Chunks(t) = 1..n /\ base \in T
  BY DEF Acc
<1>2. Quotable(t, start, end) <=> /\ \E i \in 1..n : Meets(Chunks(t)[i], start, end)
                                  /\ f[1..n].whole /\ f[1..n].until >= end
  BY <1>1, Zenon DEF Quotable, FoldLeft, MapThenFoldSet, Advance, Meets
<1>3. \A k \in 1..n : Chunks(t)[k] \in Span
  BY <1>1
<1>4. \A k \in 1..n, a \in T : Advance(a, Chunks(t)[k], start, end) \in T
  BY <1>3, AdvanceIs
<1>5. G \in [1..n -> [T -> T]]
  <2> HIDE DEF T
  <2> QED BY <1>4
<1>6. \E iter : P(iter)
  <2>1. PICK iter \in [SUBSET (1..n) -> T] : FoldRule(1..n, base, G, iter)
    <3> HIDE DEF G, n, T, base
    <3> QED BY <1>1, <1>5, FoldExists, Zenon
  <2>2. ASSUME NEW s \in SUBSET (1..n), s # {}
        PROVE  G[Max(s)][iter[s \ {Max(s)}]] = Advance(iter[s \ {Max(s)}], Chunks(t)[Max(s)], start, end)
    <3>1. Max(s) \in 1..n
      BY <1>1, <2>2, MaxIs
    <3>2. iter[s \ {Max(s)}] \in T
      OBVIOUS
    <3> HIDE DEF T
    <3> QED BY <3>1, <3>2
  <2>3. P(iter)
    <3> HIDE DEF G, T, base
    <3> QED BY <2>1, <2>2 DEF FoldRule
  <2> QED BY <2>3
<1>7. P(f)
  BY <1>6, Zenon
<1> HIDE DEF f
<1>8. f[{}] = base /\ 1..0 = {}
  BY <1>7
<1>9. \A k \in 1..n : f[1..k] = Advance(f[1..(k - 1)], Chunks(t)[k], start, end)
  <2> SUFFICES ASSUME NEW k \in 1..n
               PROVE  f[1..k] = Advance(f[1..(k - 1)], Chunks(t)[k], start, end)
    OBVIOUS
  <2>0. k \in Nat \ {0}
    BY <1>1
  <2>1. Max(1..k) = k /\ (1..k) \ {Max(1..k)} = 1..(k - 1) /\ 1..k # {}
    BY <2>0, MaxOfPrefix
  <2>2. 1..k \in SUBSET (1..n)
    OBVIOUS
  <2> QED BY <1>7, <2>1, <2>2
<1> DEFINE h == [k \in 0..n |-> f[1..k]]
           A == {k \in 0..n : f[1..k] \in T}
<1>10. \A k \in 0..n : k \in A
  <2>1. 0 \in A
    <3>1. f[1..0] \in T /\ 0 \in 0..n
      <4> HIDE DEF T
      <4> QED BY <1>1, <1>8
    <3> QED BY <3>1
  <2>2. ASSUME NEW k \in 1..n, k - 1 \in A PROVE k \in A
    <3>1. f[1..(k - 1)] \in T
      BY <2>2
    <3>2. f[1..k] \in T
      <4> HIDE DEF T, n
      <4> QED BY <1>4, <1>9, <3>1, Zenon
    <3>3. k \in 0..n
      BY <1>1
    <3> QED BY <3>2, <3>3
  <2> HIDE DEF A
  <2> QED BY <1>1, <2>1, <2>2, RangeInduction
<1>11. h \in [0..n -> T]
  BY <1>10
<1>12. h[0] = base /\ h[n] = f[1..n] /\ \A k \in 1..n : h[k] = f[1..k] /\ h[k - 1] = f[1..(k - 1)]
  BY <1>1, <1>8
<1> HIDE DEF h
<1>13. WalkRule(h, t, start, end)
  <2> HIDE DEF f
  <2> QED BY <1>2, <1>9, <1>12 DEF WalkRule
<1> QED BY <1>11, <1>13

\* As far as the chunks have been walked that meet the quote, it is covered.
CoveredTo(acc, cs, k, start, end) ==
  /\ acc.whole /\ start <= acc.until
  /\ \A i \in 1..k : Meets(cs[i], start, end) => acc.until >= end \/ acc.until >= cs[i].end

LEMMA CoveredOn ==
  ASSUME NEW n \in Nat, NEW cs, Spans(cs, 0, n), NEW start \in Nat, NEW end \in Nat, start < n,
         NEW k \in 1..Len(cs), NEW acc \in Acc, CoveredTo(acc, cs, k - 1, start, end)
  PROVE  CoveredTo(Advance(acc, cs[k], start, end), cs, k, start, end)
<1> DEFINE c == cs[k]
           next == Advance(acc, c, start, end)
<1>1. cs \in Seq(Span) /\ Len(cs) \in Nat /\ k \in Nat /\ 1 <= k /\ k <= Len(cs)
  BY DEF Spans
<1>2. /\ cs[1].start = 0
      /\ \A i \in 1..Len(cs) : cs[i].start < cs[i].end
      /\ \A i \in 1..(Len(cs) - 1) : cs[i].start < cs[i + 1].start /\ cs[i + 1].start <= cs[i].end
  BY DEF Spans
<1>3. \A i \in 1..Len(cs) : cs[i] \in Span /\ cs[i].start \in Nat /\ cs[i].end \in Nat
  <2>1. \A i \in 1..Len(cs) : cs[i] \in Span
    BY <1>1
  <2> QED BY <2>1 DEF Span
<1>4. /\ acc.whole /\ start <= acc.until /\ acc.until \in Nat
      /\ \A i \in 1..(k - 1) : Meets(cs[i], start, end) => acc.until >= end \/ acc.until >= cs[i].end
  BY DEF CoveredTo, Acc
<1>5. CASE ~Meets(c, start, end) \/ acc.until >= end
  <2>1. next = acc
    BY <1>1, <1>3, <1>5, AdvanceIs
  <2>2. \A i \in 1..k : i = k \/ i \in 1..(k - 1)
    BY <1>1
  <2> HIDE DEF next
  <2> QED BY <1>4, <1>5, <2>1, <2>2 DEF CoveredTo, next
<1>6. CASE Meets(c, start, end) /\ ~(acc.until >= end)
  <2>1. c.start <= acc.until
    <3>1. CASE k = 1
      BY <3>1, <1>2, <1>4
    <3>2. CASE k # 1
      <4>1. k - 1 \in 1..(Len(cs) - 1) /\ k - 1 \in 1..Len(cs) /\ (k - 1) + 1 = k /\ k - 1 \in 1..(k - 1)
        BY <3>2, <1>1
      <4>2. cs[k - 1].start < c.start /\ c.start <= cs[k - 1].end
        BY <1>2, <4>1
      <4>3. c.start < end
        BY <1>6 DEF Meets
      <4>4. PICK b : b = cs[k - 1]
        OBVIOUS
      <4>5. b.start \in Nat /\ b.end \in Nat /\ c.start \in Nat /\ k \in 1..Len(cs)
        BY <1>3, <4>1, <4>4
      <4>6. CASE Meets(b, start, end)
        <5>1. acc.until >= b.end
          BY <1>4, <1>6, <4>1, <4>4, <4>6
        <5> QED BY <1>4, <4>2, <4>4, <4>5, <5>1
      <4>7. CASE ~Meets(b, start, end)
        <5>1. b.end <= start
          BY <4>2, <4>3, <4>4, <4>5, <4>7 DEF Meets
        <5> QED BY <1>4, <4>2, <4>4, <4>5, <5>1
      <4> QED BY <4>6, <4>7
    <3> QED BY <3>1, <3>2
  <2>2. /\ next \in Acc /\ next.whole /\ acc.until <= next.until
        /\ next.until >= end \/ next.until >= c.end
    BY <1>1, <1>3, <1>4, <1>6, <2>1, AdvanceIs
  <2>3. next.until \in Nat
    BY <2>2 DEF Acc
  <2> HIDE DEF next
  <2>4. ASSUME NEW i \in 1..k, Meets(cs[i], start, end) PROVE next.until >= end \/ next.until >= cs[i].end
    <3>1. CASE i = k
      BY <3>1, <2>2
    <3>2. CASE i # k
      <4>1. i \in 1..(k - 1) /\ i \in 1..Len(cs)
        BY <3>2, <1>1
      <4>2. acc.until >= end \/ acc.until >= cs[i].end
        BY <1>4, <2>4, <4>1
      <4>3. cs[i].end \in Nat
        BY <1>3, <4>1
      <4> QED BY <1>4, <2>2, <2>3, <4>2, <4>3
    <3> QED BY <3>1, <3>2
  <2>5. start <= next.until
    BY <1>4, <2>2, <2>3
  <2> QED BY <2>2, <2>4, <2>5 DEF CoveredTo, next
<1> QED BY <1>5, <1>6

\* The last chunk that begins before the end of the quote reaches it.
LEMMA SomeChunkReaches ==
  ASSUME NEW n \in Nat, NEW cs, Spans(cs, 0, n), NEW start \in Nat, NEW end \in 1..n, start < end
  PROVE  \E i \in 1..Len(cs) : Meets(cs[i], start, end) /\ cs[i].end >= end
<1> DEFINE k == Len(cs)
           before == {i \in 1..k : cs[i].start < end}
<1>1. cs \in Seq(Span) /\ k \in Nat /\ 0 < n /\ end \in Nat
  BY DEF Spans
<1>2. /\ cs # <<>> /\ cs[1].start = 0 /\ cs[k].end = n
      /\ \A i \in 1..(k - 1) : cs[i + 1].start <= cs[i].end
  BY <1>1 DEF Spans
<1>3. 1 \in before
  BY <1>1, <1>2
<1>4. before \in SUBSET (0..k) /\ before # {}
  BY <1>3
<1>5. Max(before) \in before /\ \A i \in before : i <= Max(before)
  <2> HIDE DEF before
  <2> QED BY <1>1, <1>4, MaxIs
<1>6. PICK i \in before : \A j \in before : j <= i
  BY <1>5
<1>7. cs[i].end >= end
  <2>1. CASE i = k
    BY <2>1, <1>1, <1>2
  <2>2. CASE i # k
    <3>1. i \in 1..(k - 1) /\ i + 1 \in 1..k /\ ~(i + 1 <= i) /\ i \in 1..k
      BY <2>2, <1>1
    <3>2. ~(cs[i + 1].start < end)
      BY <1>6, <3>1
    <3>3. cs[i] \in Span /\ cs[i + 1] \in Span
      BY <1>1, <3>1
    <3>4. cs[i].end \in Nat /\ cs[i + 1].start \in Nat
      BY <3>3 DEF Span
    <3> QED BY <1>1, <1>2, <3>1, <3>2, <3>4
  <2> QED BY <2>1, <2>2
<1>8. cs[i].end > start
  <2>1. cs[i] \in Span
    BY <1>1
  <2> QED BY <1>1, <1>7, <2>1 DEF Span
<1> QED BY <1>7, <1>8 DEF Meets

LEMMA QuoteFound ==
  ASSUME NEW S, NEW t \in Seq(S), NEW start \in Nat, NEW end \in 1..Len(t), start < end
  PROVE  Quotable(t, start, end)
<1>1. PICK cs : cs = Chunks(t)
  OBVIOUS
<1>2. PICK n \in Nat : n = Len(t)
  OBVIOUS
<1>3. Spans(cs, 0, n) /\ cs \in Seq(Span) /\ Len(cs) \in Nat /\ end \in Nat /\ end <= n /\ start < n
  <2>1. Spans(cs, 0, n)
    BY <1>1, <1>2, ChunksAre
  <2>2. cs \in Seq(Span)
    BY <2>1 DEF Spans
  <2> QED BY <1>2, <2>1, <2>2
<1>4. PICK h \in [0..Len(cs) -> Acc] : WalkRule(h, t, start, end)
  <2>1. \E h \in [0..Len(Chunks(t)) -> Acc] : WalkRule(h, t, start, end)
    BY <1>1, <1>3, WalkSteps, Zenon
  <2> QED BY <1>1, <2>1
<1>5. /\ h[0] = [whole |-> TRUE, until |-> start]
      /\ Quotable(t, start, end) <=> /\ \E i \in 1..Len(cs) : Meets(cs[i], start, end)
                                     /\ h[Len(cs)].whole /\ h[Len(cs)].until >= end
      /\ \A k \in 1..Len(cs) : h[k] = Advance(h[k - 1], cs[k], start, end)
  BY <1>1, <1>4, Zenon DEF WalkRule
<1> DEFINE A == {k \in 0..Len(cs) : CoveredTo(h[k], cs, k, start, end)}
<1>6. 0 \in A
  BY <1>3, <1>5 DEF CoveredTo
<1>7. ASSUME NEW k \in 1..Len(cs), k - 1 \in A PROVE k \in A
  <2>1. h[k - 1] \in Acc /\ CoveredTo(h[k - 1], cs, k - 1, start, end) /\ k \in 0..Len(cs)
    BY <1>3, <1>7
  <2>2. CoveredTo(Advance(h[k - 1], cs[k], start, end), cs, k, start, end)
    BY <1>3, <2>1, CoveredOn
  <2> QED BY <1>5, <2>1, <2>2
<1>8. \A k \in 0..Len(cs) : k \in A
  <2> HIDE DEF A
  <2> QED BY <1>3, <1>6, <1>7, RangeInduction
<1>9. Len(cs) \in 0..Len(cs) /\ CoveredTo(h[Len(cs)], cs, Len(cs), start, end)
  BY <1>3, <1>8
<1>10. PICK i \in 1..Len(cs) : Meets(cs[i], start, end) /\ cs[i].end >= end
  BY <1>2, <1>3, SomeChunkReaches
<1>11. h[Len(cs)].until >= end
  <2>1. h[Len(cs)].until >= end \/ h[Len(cs)].until >= cs[i].end
    BY <1>9, <1>10 DEF CoveredTo
  <2>2. h[Len(cs)] \in Acc /\ cs[i] \in Span
    BY <1>3, <1>9
  <2>3. h[Len(cs)].until \in Nat /\ cs[i].end \in Nat
    BY <2>2 DEF Acc, Span
  <2> QED BY <1>3, <1>10, <2>1, <2>3
<1> QED BY <1>5, <1>9, <1>10, <1>11 DEF CoveredTo

LEMMA QuotesFound == text \in Seq(Characters) => EveryQuoteIsFound
<1> SUFFICES ASSUME text \in Seq(Characters) PROVE EveryQuoteIsFound
  OBVIOUS
<1>1. PICK cs : cs = Chunks(text)
  OBVIOUS
<1>2. Spans(cs, 0, Len(text))
  BY <1>1, ChunksAre
<1>3. cs \in Seq(Span) /\ DOMAIN cs = 1..Len(cs)
  BY <1>2 DEF Spans
<1>4. /\ \A i \in DOMAIN cs : cs[i].start < cs[i].end /\ cs[i].end <= cs[i].start + MaxChars
      /\ \A i \in 1..(Len(cs) - 1) : cs[i].start < cs[i + 1].start /\ cs[i + 1].start <= cs[i].end
  BY <1>2, <1>3, Zenon DEF Spans
<1>5. \A start \in 0..(Len(text) - 1), end \in 1..Len(text) : start < end => Quotable(text, start, end)
  <2> SUFFICES ASSUME NEW start \in 0..(Len(text) - 1), NEW end \in 1..Len(text), start < end
               PROVE  Quotable(text, start, end)
    OBVIOUS
  <2>1. start \in Nat
    OBVIOUS
  <2> QED BY <2>1, QuoteFound
<1> QED BY <1>1, <1>4, <1>5, Zenon DEF EveryQuoteIsFound

(***************************************************************************)
(* What is said of every behaviour: damage to the file is seen by whoever  *)
(* looks (verify_event_chain, _backfill_legacy_evidence), and any quote of *)
(* an event can be found in its chunks (chunk_transcript,                  *)
(* search_exact_evidence).                                                 *)
(***************************************************************************)
THEOREM QuotesAlwaysHold == TranscriptSpec => []QuotesHold
<1> DEFINE Inv == ChainInv /\ text \in Seq(Characters)
<1>1. TranscriptInit => Inv
  <2> SUFFICES ASSUME TranscriptInit PROVE Inv
    OBVIOUS
  <2>1. ChainInit /\ text = <<>>
    BY DEF TranscriptInit, TextInit
  <2> QED BY <2>1, ChainStart
<1>2. Inv /\ [TranscriptNext]_transcriptVars => Inv'
  <2> SUFFICES ASSUME Inv, [TranscriptNext]_transcriptVars PROVE Inv'
    OBVIOUS
  <2>1. ASSUME UNCHANGED chainVars PROVE ChainInv'
    BY <2>1, ChainSteps
  <2>2. ASSUME text' = text PROVE (text \in Seq(Characters))'
    BY <2>2
  <2>3. CASE RunLedger
    <3>1. UNCHANGED chainVars /\ text' = text
      BY <2>3, Zenon DEF RunLedger, others
    <3> QED BY <2>1, <2>2, <3>1
  <2>4. CASE RunChain
    <3>1. ChainNext /\ text' = text
      BY <2>4, Zenon DEF RunChain
    <3> QED BY <2>2, <3>1, ChainSteps
  <2>5. CASE RunText
    <3>1. TextNext /\ UNCHANGED chainVars
      BY <2>5, Zenon DEF RunText
    <3>2. PICK c \in Characters : text' = Append(text, c)
      BY <3>1 DEF TextNext
    <3> QED BY <2>1, <3>1, <3>2
  <2>6. CASE UNCHANGED transcriptVars
    <3>1. UNCHANGED chainVars /\ text' = text
      BY <2>6, Zenon DEF transcriptVars
    <3> QED BY <2>1, <2>2, <3>1
  <2> QED BY <2>3, <2>4, <2>5, <2>6, Zenon DEF TranscriptNext
<1>3. Inv => QuotesHold
  BY DamageSeen, QuotesFound DEF QuotesHold
<1> QED BY <1>1, <1>2, <1>3, PTL DEF TranscriptSpec

=============================================================================

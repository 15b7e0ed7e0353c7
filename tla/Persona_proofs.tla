--------------------------- MODULE Persona_proofs ---------------------------
(***************************************************************************)
(* Proofs about what runs beside the host in a turn: the loading of the    *)
(* neural model, the emotion file, the turn hooks, the model router, the   *)
(* routing of a message, and the turns of the provider.  Each part has its *)
(* own inductive invariant; MCPersona runs one of them.                    *)
(***************************************************************************)
EXTENDS MCPersona, FiniteSetTheorems, SequenceTheorems, WellFoundedInduction, TLAPS

-----------------------------------------------------------------------------
(* The neural model: SentimentLoader                                       *)

\* A load is under way only behind the lock and for a model that is not there,
\* and the last load is under way, has succeeded, or its failure is remembered.
LoadInv ==
    /\ LoadTypeOK
    /\ loads \in Seq(Nat)
    /\ \A t \in Threads : thread[t] \in {"inside", "loading"} => holder = t
    /\ \A t \in Threads : thread[t] = "loading" => ~model.available
    /\ loads # <<>> =>
         /\ model.attempted
         /\ loads[Len(loads)] <= now
         /\ \/ model.available
            \/ \E t \in Threads : thread[t] = "loading"
            \/ model.failedAt # NoFailure /\ loads[Len(loads)] <= model.failedAt
    /\ \A i \in 1..Len(loads) - 1 : loads[i + 1] - loads[i] >= Cooldown

\* Nothing has been loaded at first.
LEMMA LoadInitially == LoadInit => LoadInv
  BY LoadAssumption, SMT DEF LoadInit, LoadInv, LoadTypeOK, NoFailure

\* Every step of the loader keeps its invariant.
LEMMA LoadStep ==
  ASSUME LoadInv, [LoadNext]_loadVars
  PROVE  LoadInv'
<1> USE LoadAssumption DEF LoadInv, LoadTypeOK, NoFailure, At, Cooling, Unlock
<1>1. CASE Pass
  BY <1>1, SMT DEF Pass
<1>2. ASSUME NEW t \in Threads, NEW blocking \in BOOLEAN, Look(t, blocking)
      PROVE  LoadInv'
  BY <1>2, SMT DEF Look
<1>3. ASSUME NEW t \in Threads, Lock(t)
      PROVE  LoadInv'
  BY <1>3, SMT DEF Lock
<1>4. ASSUME NEW t \in Threads, LookAgain(t)
      PROVE  LoadInv'
  <2>1. CASE model.available \/ Cooling
    BY <1>4, <2>1, SMT DEF LookAgain
  <2>2. CASE ~(model.available \/ Cooling)
    <3>1. /\ thread[t] = "inside" /\ thread' = [thread EXCEPT ![t] = "loading"]
          /\ model' = [model EXCEPT !.attempted = TRUE, !.failedAt = NoFailure]
          /\ loads' = Append(loads, now)
          /\ UNCHANGED <<holder, now>>
      BY <1>4, <2>2 DEF LookAgain
    <3>2. \A u \in Threads : thread[u] # "loading"
      BY <3>1, SMT
    <3>3. loads # <<>> => now - loads[Len(loads)] >= Cooldown
      BY <2>2, <3>2, SMT
    <3>4. /\ loads' \in Seq(Nat) /\ Len(loads') = Len(loads) + 1
          /\ loads'[Len(loads')] = now /\ loads' # <<>>
          /\ \A i \in 1..Len(loads) : loads'[i] = loads[i]
      BY <3>1, SMT
    <3>5. \A i \in 1..Len(loads') - 1 : loads'[i + 1] - loads'[i] >= Cooldown
      <4> TAKE i \in 1..Len(loads') - 1
      <4>1. CASE i = Len(loads)
        BY <3>3, <3>4, <4>1, SMT
      <4>2. CASE i < Len(loads)
        <5>1. i \in 1..Len(loads) - 1 /\ i + 1 \in 1..Len(loads)
          BY <3>4, <4>2, SMT
        <5>2. loads'[i] = loads[i] /\ loads'[i + 1] = loads[i + 1]
          BY <3>4, <5>1
        <5> QED BY <5>1, <5>2
      <4> QED BY <3>4, <4>1, <4>2, SMT
    <3>6. LoadTypeOK'
      <4>1. model' \in [available : BOOLEAN, attempted : BOOLEAN, failedAt : 0..NoFailure]
        <5>1. NoFailure \in 0..NoFailure
          BY SMT
        <5>2. model \in [available : BOOLEAN, attempted : BOOLEAN, failedAt : 0..NoFailure]
          OBVIOUS
        <5> HIDE DEF NoFailure, LoadInv, LoadTypeOK, Cooling
        <5> QED BY <3>1, <5>1, <5>2
      <4>2. thread' \in [Threads -> {"out", "waiting", "inside", "loading", "served", "refused"}]
        BY <3>1, SMT
      <4> QED BY <3>1, <4>1, <4>2
    <3>7. /\ \A u \in Threads : thread'[u] \in {"inside", "loading"} => holder' = u
          /\ \A u \in Threads : thread'[u] = "loading" => ~model'.available
          /\ model'.attempted /\ \E u \in Threads : thread'[u] = "loading"
      BY <2>2, <3>1, SMT
    <3>8. loads' # <<>> =>
            /\ model'.attempted /\ loads'[Len(loads')] <= now'
            /\ \E u \in Threads : thread'[u] = "loading"
      BY <3>1, <3>4, <3>7, SMT
    <3> HIDE DEF NoFailure, LoadTypeOK, Cooling
    <3> QED BY <3>4, <3>5, <3>6, <3>7, <3>8
  <2> QED BY <2>1, <2>2
<1>5. ASSUME NEW t \in Threads, Loaded(t)
      PROVE  LoadInv'
  <2>1. /\ thread[t] = "loading" /\ thread' = [thread EXCEPT ![t] = "served"]
        /\ model' = [model EXCEPT !.available = TRUE]
        /\ holder' = NoThread /\ UNCHANGED <<now, loads>>
    BY <1>5 DEF Loaded
  <2>2. LoadTypeOK'
    <3>1. model' \in [available : BOOLEAN, attempted : BOOLEAN, failedAt : 0..NoFailure]
      <4>1. model \in [available : BOOLEAN, attempted : BOOLEAN, failedAt : 0..NoFailure]
        OBVIOUS
      <4> HIDE DEF NoFailure, LoadInv, LoadTypeOK, Cooling
      <4> QED BY <2>1, <4>1
    <3>2. thread' \in [Threads -> {"out", "waiting", "inside", "loading", "served", "refused"}]
      BY <2>1, SMT
    <3> QED BY <2>1, <3>1, <3>2
  <2>3. \A u \in Threads : thread'[u] \notin {"inside", "loading"}
    <3> TAKE u \in Threads
    <3>1. CASE u = t
      BY <2>1, <3>1
    <3>2. CASE u # t
      <4>1. holder = t
        BY <2>1
      <4>2. thread[u] \notin {"inside", "loading"}
        BY <3>2, <4>1
      <4> QED BY <2>1, <3>2, <4>2
    <3> QED BY <3>1, <3>2
  <2>4. model'.available /\ model'.attempted = model.attempted
    BY <2>1, SMT
  <2> QED BY <2>1, <2>2, <2>3, <2>4, SMT
<1>6. ASSUME NEW t \in Threads, LoadFails(t)
      PROVE  LoadInv'
  BY <1>6, SMT DEF LoadFails
<1>7. ASSUME NEW t \in Threads, AskAgain(t)
      PROVE  LoadInv'
  BY <1>7, SMT DEF AskAgain
<1>8. CASE UNCHANGED loadVars
  BY <1>8, SMT DEF loadVars
<1> QED BY <1>1, <1>2, <1>3, <1>4, <1>5, <1>6, <1>7, <1>8 DEF LoadNext

-----------------------------------------------------------------------------
(* The emotion file: EmotionState                                          *)

FileOK(f, t) ==
    /\ f \in Files
    /\ f.since = Never => f.faded = 0
    /\ f.since # Never => f.since <= t /\ f.born + f.faded <= f.since
    /\ f.since # Never => f.body \in {<<f.since, f.deviation>>, LegacyState.body}

JobOK(j) ==
    /\ j.pc \in {"update", "decay", "repair"}
    /\ j.now \in 0..clock
    /\ FileOK(j.snap, j.now)
    /\ j.event \in Events \cup {"none"}
    /\ j.event # "none" => j.pc = "update"
    /\ j.event = "none" => j.snap.since # Never

EmoInv ==
    /\ EmoTypeOK
    /\ FileOK(file, clock)
    /\ mgr = [p \in Managers |-> [job |-> mgr[p].job, inertia |-> mgr[p].inertia]]
    /\ \A p \in Managers : mgr[p].job # Idle => JobOK(mgr[p].job)
    /\ acked \subseteq file.events

\* A new file and one of an older version are as a file has to be.
LEMMA NoStateOK == \A f \in {NoState, LegacyState} : FileOK(f, 0)
<1>1. NoState \in Files
  BY EmoAssumption, SMT DEF NoState, Files, Never, MaxDeviation, MaxInertia
<1>2. FileOK(NoState, 0)
  BY <1>1, SMT DEF NoState, FileOK
<1>3. 1 \in 0..MaxDeviation /\ 0 \in 0..Never /\ NoState.faded = 0 /\ NoState.born = 0
  BY EmoAssumption, SMT DEF NoState, Never, MaxDeviation
<1> HIDE DEF NoState
<1>4. /\ LegacyState \in Files /\ LegacyState.since = 0
      /\ LegacyState.faded = NoState.faded /\ LegacyState.born = NoState.born
      /\ LegacyState.body = NoState.body
  <2>1. LegacyState = [NoState EXCEPT !.deviation = 1, !.since = 0, !.trigger = "decay"]
    BY DEF LegacyState
  <2>2. LegacyState \in Files
    BY <1>1, <1>3, <2>1, Zenon DEF Files
  <2> HIDE DEF LegacyState
  <2> QED BY <1>1, <2>1, <2>2, SMT DEF Files
<1>5. 0 # Never
  BY EmoAssumption, SMT DEF Never
<1>6. FileOK(LegacyState, 0)
  BY <1>3, <1>4, <1>5, SMT DEF FileOK
<1> QED BY <1>2, <1>6

\* Every manager starts idle, on one of those files.
LEMMA EmoInitially == EmoInit => EmoInv
<1> SUFFICES ASSUME EmoInit PROVE EmoInv
  OBVIOUS
<1>1. FileOK(file, clock)
  BY NoStateOK DEF EmoInit
<1>2. file \in Files
  BY <1>1 DEF FileOK
<1>3. \A p \in Managers : mgr[p] = [job |-> Idle, inertia |-> 0]
  BY DEF EmoInit
<1> QED BY <1>1, <1>2, <1>3, EmoAssumption, SMT DEF EmoInit, EmoInv, EmoTypeOK, MaxInertia

\* What holds of a file at a moment holds of it later.
LEMMA FileLater ==
  ASSUME NEW f, NEW t \in Nat, NEW u \in Nat, t <= u, FileOK(f, t)
  PROVE  FileOK(f, u)
  BY EmoAssumption, SMT DEF FileOK, Files, Never

\* Decay takes each half-hour off once.
LEMMA DecayedOK ==
  ASSUME NEW f, NEW t \in 0..MaxTime, FileOK(f, t), f.since # Never
  PROVE  /\ Decayed(f, t) = [f EXCEPT !.deviation = Less(f.deviation, t - f.since),
                                     !.faded = f.faded + (t - f.since)]
         /\ Less(f.deviation, t - f.since) \in 0..MaxDeviation
         /\ f.born + (f.faded + (t - f.since)) <= t
<1>1. f \in Files /\ f.since <= t /\ f.born + f.faded <= f.since
  BY DEF FileOK
<1>2. /\ f.since \in Nat /\ f.born \in Nat /\ f.faded \in Nat /\ f.deviation \in 0..MaxDeviation
  BY <1>1, EmoAssumption, SMT DEF Files, Never
<1>3. Less(t, f.since) = t - f.since
  BY <1>1, <1>2, EmoAssumption, SMT DEF Less
<1>4. Less(f.deviation, t - f.since) \in 0..MaxDeviation
  BY <1>1, <1>2, EmoAssumption, SMT DEF Less, MaxDeviation
<1> QED BY <1>1, <1>2, <1>3, <1>4, SMT DEF Decayed

\* A file whose text is rendered from its values is as a file has to be.
LEMMA WithBodyOK ==
  ASSUME NEW f \in Files, NEW t \in 0..MaxTime,
         f.since # Never, f.since <= t, f.born + f.faded <= f.since
  PROVE  /\ FileOK(WithBody(f), t)
         /\ WithBody(f).events = f.events
<1> DEFINE g == WithBody(f)
<1>1. g = [f EXCEPT !.body = <<f.since, f.deviation>>]
  BY DEF WithBody
<1>2. <<f.since, f.deviation>> \in (0..Never) \X (0..MaxDeviation)
  BY SMT DEF Files
<1>3. g \in Files
  BY <1>1, <1>2, SMT DEF Files
<1>4. /\ g.since = f.since /\ g.deviation = f.deviation /\ g.born = f.born /\ g.faded = f.faded
      /\ g.events = f.events /\ g.body = <<f.since, f.deviation>>
  BY <1>1, SMT DEF Files
<1> HIDE DEF g
<1>5. FileOK(g, t)
  BY <1>3, <1>4 DEF FileOK
<1> QED BY <1>4, <1>5 DEF g

\* What a manager writes over the file it has read.
LEMMA ContentOK ==
  ASSUME EmoInv, NEW p \in Managers, mgr[p].job # Idle
  PROVE  /\ FileOK(Content(p), clock)
         /\ Content(p).events = IF mgr[p].job.event = "none" THEN mgr[p].job.snap.events
                                ELSE mgr[p].job.snap.events \cup {mgr[p].job.event}
<1> DEFINE j == mgr[p].job
           s == j.snap
           f == Decayed(s, j.now)
<1> SUFFICES /\ FileOK(Content(p), clock)
             /\ Content(p).events = IF j.event = "none" THEN s.events ELSE s.events \cup {j.event}
  OBVIOUS
<1>1. JobOK(j) /\ clock \in 0..MaxTime /\ mgr[p].inertia \in 0..MaxInertia
  BY DEF EmoInv, EmoTypeOK
<1>2. /\ j.now \in 0..clock /\ j.now \in 0..MaxTime /\ FileOK(s, j.now) /\ s \in Files
      /\ j.pc \in {"update", "decay", "repair"} /\ j.event \in Events \cup {"none"}
      /\ j.event # "none" => j.pc = "update"
      /\ j.event = "none" => s.since # Never
  BY <1>1, EmoAssumption, SMT DEF JobOK, FileOK
<1>3. clock # Never /\ j.now # Never
  BY <1>1, <1>2, EmoAssumption, SMT DEF Never
<1> DEFINE repaired == WithBody(s)
           decayed == [f EXCEPT !.trigger = "decay", !.since = j.now]
           timed == [f EXCEPT !.since = clock]
           d == Capped(f.deviation + 1, MaxDeviation)
           b == IF s.since = Never THEN clock ELSE f.born
           i == Capped(mgr[p].inertia + 1, MaxInertia)
           moved == [f EXCEPT !.deviation = d, !.trigger = "event", !.since = clock,
                              !.events = f.events \cup {j.event}, !.born = b, !.inertia = i]
<1>4. Content(p) = CASE j.pc = "repair" -> repaired
                     [] j.pc = "decay"  -> WithBody(decayed)
                     [] j.pc = "update" /\ j.event = "none" -> WithBody(timed)
                     [] OTHER -> WithBody(moved)
  BY DEF Content
<1> HIDE DEF repaired, decayed, timed, moved
<1> HIDE DEF f, s, j
<1>5. s.since # Never => /\ f \in Files /\ f.events = s.events /\ f.since = s.since
                         /\ f.born = s.born /\ f.born + f.faded <= j.now
  <2>1. SUFFICES ASSUME s.since # Never
                 PROVE  /\ f \in Files /\ f.events = s.events /\ f.since = s.since
                         /\ f.born = s.born /\ f.born + f.faded <= j.now
    OBVIOUS
  <2>2. f = [s EXCEPT !.deviation = Less(s.deviation, j.now - s.since), !.faded = s.faded + (j.now - s.since)]
    BY <1>2, <2>1, DecayedOK DEF f
  <2>3. s.since \in Nat /\ s.since <= j.now /\ s.born \in Nat /\ s.faded \in Nat
    BY <1>2, <2>1, EmoAssumption, SMT DEF FileOK, Files, Never
  <2>4. s.faded + (j.now - s.since) \in 0..MaxTime
    <3>1. s.born + (s.faded + (j.now - s.since)) <= j.now
      BY <1>2, <2>1, DecayedOK
    <3> QED BY <1>2, <2>3, <3>1, EmoAssumption, SMT
  <2>5. Less(s.deviation, j.now - s.since) \in 0..MaxDeviation
    BY <1>2, <2>1, DecayedOK
  <2>6. f \in Files /\ f.events = s.events /\ f.since = s.since /\ f.born = s.born
        /\ f.faded = s.faded + (j.now - s.since)
    <3>1. f \in Files
      BY <1>2, <2>2, <2>4, <2>5, Zenon DEF Files
    <3> QED BY <1>2, <2>2, <3>1, SMT DEF Files
  <2> QED BY <1>2, <2>1, <2>6, DecayedOK
<1>6. s.since = Never => f = s /\ s.faded = 0
  BY <1>2 DEF Decayed, FileOK, f
<1>7. CASE j.pc = "repair"
  <2>1. s.since # Never /\ s.since <= clock /\ s.born + s.faded <= s.since /\ j.event = "none"
    BY <1>1, <1>2, <1>7, EmoAssumption, SMT DEF FileOK, Files, Never
  <2>2. Content(p) = WithBody(s)
    BY <1>4, <1>7, SMT DEF repaired
  <2> QED BY <1>1, <1>2, <2>1, <2>2, WithBodyOK
<1>8. CASE j.pc = "decay"
  <2>1. s.since # Never /\ j.event = "none"
    BY <1>2, <1>8
  <2>2. Content(p) = WithBody(decayed)
    BY <1>4, <1>8, SMT
  <2>3. j.now \in 0..Never
    BY <1>2, EmoAssumption, SMT DEF Never
  <2>4. decayed \in Files /\ decayed.since = j.now /\ decayed.born = f.born /\ decayed.faded = f.faded /\ decayed.events = f.events
    <3>1. decayed \in Files
      BY <1>5, <2>1, <2>3, Zenon DEF Files, decayed
    <3>2. decayed = [f EXCEPT !.trigger = "decay", !.since = j.now]
      BY DEF decayed
    <3> QED BY <1>5, <2>1, <3>1, <3>2, SMT DEF Files
  <2> QED BY <1>1, <1>2, <1>3, <1>5, <2>1, <2>2, <2>4, WithBodyOK
<1>9. CASE j.pc = "update" /\ j.event = "none"
  <2>1. s.since # Never
    BY <1>2, <1>9
  <2>2. Content(p) = WithBody(timed)
    BY <1>4, <1>9, SMT
  <2>3. clock \in 0..Never
    BY <1>1, EmoAssumption, SMT DEF Never
  <2>4. timed \in Files /\ timed.since = clock /\ timed.born = f.born /\ timed.faded = f.faded /\ timed.events = f.events
    BY <1>5, <2>1, <2>3, SMT DEF Files, timed
  <2>5. f.born + f.faded <= clock
    BY <1>1, <1>2, <1>5, <2>1, EmoAssumption, SMT DEF Files
  <2> QED BY <1>1, <1>2, <1>3, <1>5, <1>9, <2>1, <2>2, <2>4, <2>5, WithBodyOK
<1>10. CASE j.pc = "update" /\ j.event # "none"
  <2>2. Content(p) = WithBody(moved)
    BY <1>4, <1>10, SMT
  <2>3. clock \in 0..Never
    BY <1>1, EmoAssumption, SMT DEF Never
  <2>4. f \in Files /\ f.events = s.events
    BY <1>2, <1>5, <1>6
  <2>5. d \in 0..MaxDeviation /\ i \in 0..MaxInertia /\ b \in 0..MaxTime
    BY <1>1, <2>4, EmoAssumption, SMT DEF Files, Capped, MaxDeviation, MaxInertia
  <2>6. f.events \cup {j.event} \in SUBSET Events
    BY <1>2, <1>10, <2>4, SMT DEF Files
  <2>7. b + f.faded <= clock
    <3>1. CASE s.since = Never
      BY <1>1, <1>6, <3>1, SMT
    <3>2. CASE s.since # Never
      BY <1>1, <1>2, <1>5, <2>4, <3>2, EmoAssumption, SMT DEF Files
    <3> QED BY <3>1, <3>2
  <2> HIDE DEF d, b, i
  <2>8. moved \in Files /\ moved.since = clock /\ moved.born = b /\ moved.faded = f.faded
        /\ moved.events = f.events \cup {j.event}
    <3>1. moved \in Files
      BY <2>3, <2>4, <2>5, <2>6, Zenon DEF Files, moved
    <3>2. moved = [f EXCEPT !.deviation = d, !.trigger = "event", !.since = clock,
                            !.events = f.events \cup {j.event}, !.born = b, !.inertia = i]
      BY DEF moved
    <3> QED BY <2>4, <3>1, <3>2, SMT DEF Files
  <2> QED BY <1>1, <1>2, <1>3, <1>10, <2>2, <2>4, <2>7, <2>8, WithBodyOK
<1> QED BY <1>2, <1>7, <1>8, <1>9, <1>10

\* A step that changes one manager at most, and neither the file nor the clock.
LEMMA ManagerStep ==
  ASSUME EmoInv, NEW p \in Managers, NEW job, NEW n \in 0..MaxInertia,
         job = Idle \/ JobOK(job),
         mgr' = [mgr EXCEPT ![p] = [job |-> job, inertia |-> n]],
         FileOK(file', clock), acked' \subseteq file'.events, acked' \subseteq Events,
         clock' = clock, lost' \in 0..MaxLost
  PROVE  EmoInv'
<1>1. mgr' = [q \in Managers |-> [job |-> mgr'[q].job, inertia |-> mgr'[q].inertia]]
  BY DEF EmoInv
<1>2. mgr'[p].job = job /\ mgr'[p].inertia = n
  BY DEF EmoInv
<1>3. \A q \in Managers : q # p => mgr'[q] = mgr[q]
  BY DEF EmoInv
<1>4. \A q \in Managers : mgr'[q].inertia \in 0..MaxInertia
  BY <1>2, <1>3 DEF EmoInv, EmoTypeOK
<1>5. \A q \in Managers : (mgr[q].job # Idle => JobOK(mgr[q].job))'
  <2> TAKE q \in Managers
  <2>1. mgr'[q].job = Idle \/ JobOK(mgr'[q].job)
    BY <1>2, <1>3 DEF EmoInv
  <2> QED BY <2>1 DEF JobOK
<1>6. file' \in Files
  BY DEF FileOK
<1> QED BY <1>1, <1>4, <1>5, <1>6 DEF EmoInv, EmoTypeOK, Idle

\* Every step of a manager keeps the invariant: a write that finds the file it
\* had read keeps the acknowledged updates, and every other one changes nothing.
LEMMA EmoStep ==
  ASSUME EmoInv, [EmoNext]_emoVars
  PROVE  EmoInv'
<1>0. \A p \in Managers : mgr[p] = [job |-> mgr[p].job, inertia |-> mgr[p].inertia]
  BY DEF EmoInv
<1> USE DEF EmoInv, EmoTypeOK
<1>1. CASE Tick
  <2>1. clock' = clock + 1 /\ clock' \in 0..MaxTime /\ UNCHANGED <<file, mgr, acked, lost>>
    BY <1>1, EmoAssumption, SMT DEF Tick
  <2>2. FileOK(file, clock')
    <3>1. clock \in Nat /\ clock' \in Nat /\ clock <= clock'
      BY <2>1, EmoAssumption, SMT
    <3> HIDE DEF EmoInv
    <3> QED BY <3>1, FileLater DEF EmoInv
  <2>3. \A j : JobOK(j) => JobOK(j)'
    <3> TAKE j
    <3>1. j.now \in 0..clock => j.now \in 0..clock'
      BY <2>1, EmoAssumption, SMT
    <3> QED BY <2>1, <3>1 DEF JobOK
  <2> QED BY <2>1, <2>2, <2>3 DEF Idle
<1>2. ASSUME NEW p \in Managers, NEW e \in Events \cup {"none"}, ReadForUpdate(p, e)
      PROVE  EmoInv'
  <2> DEFINE job == [pc |-> "update", snap |-> file, now |-> clock, event |-> e]
  <2>1. JobOK(job)
    BY <1>2, EmoAssumption, SMT DEF ReadForUpdate, JobOK
  <2>2. mgr' = [mgr EXCEPT ![p] = [job |-> job, inertia |-> mgr[p].inertia]]
    <3>1. mgr' = [mgr EXCEPT ![p] = [mgr[p] EXCEPT !.job = job]]
      BY <1>2 DEF ReadForUpdate
    <3>2. [mgr[p] EXCEPT !.job = job] = [job |-> job, inertia |-> mgr[p].inertia]
      BY <1>0
    <3> QED BY <3>1, <3>2
  <2> QED BY <1>2, <2>1, <2>2, ManagerStep DEF ReadForUpdate
<1>3. ASSUME NEW p \in Managers, ReadForDecay(p)
      PROVE  EmoInv'
  <2> DEFINE job == [pc |-> "decay", snap |-> file, now |-> clock, event |-> "none"]
  <2>1. JobOK(job)
    BY <1>3, EmoAssumption, SMT DEF ReadForDecay, JobOK
  <2>2. mgr' = [mgr EXCEPT ![p] = [job |-> job, inertia |-> mgr[p].inertia]]
    <3>1. mgr' = [mgr EXCEPT ![p] = [mgr[p] EXCEPT !.job = job]]
      BY <1>3 DEF ReadForDecay
    <3>2. [mgr[p] EXCEPT !.job = job] = [job |-> job, inertia |-> mgr[p].inertia]
      BY <1>0
    <3> QED BY <3>1, <3>2
  <2> QED BY <1>3, <2>1, <2>2, ManagerStep DEF ReadForDecay
<1>4. ASSUME NEW p \in Managers, ReadForRepair(p)
      PROVE  EmoInv'
  <2> DEFINE job == [pc |-> "repair", snap |-> file, now |-> clock, event |-> "none"]
  <2>1. JobOK(job)
    BY <1>4, EmoAssumption, SMT DEF ReadForRepair, JobOK
  <2>2. mgr' = [mgr EXCEPT ![p] = [job |-> job, inertia |-> mgr[p].inertia]]
    <3>1. mgr' = [mgr EXCEPT ![p] = [mgr[p] EXCEPT !.job = job]]
      BY <1>4 DEF ReadForRepair
    <3>2. [mgr[p] EXCEPT !.job = job] = [job |-> job, inertia |-> mgr[p].inertia]
      BY <1>0
    <3> QED BY <3>1, <3>2
  <2> QED BY <1>4, <2>1, <2>2, ManagerStep DEF ReadForRepair
<1>5. ASSUME NEW p \in Managers, Load(p)
      PROVE  EmoInv'
  <2>1. mgr' = [mgr EXCEPT ![p] = [job |-> mgr[p].job, inertia |-> file.inertia]]
    <3>1. mgr' = [mgr EXCEPT ![p] = [mgr[p] EXCEPT !.inertia = file.inertia]]
      BY <1>5 DEF Load
    <3>2. [mgr[p] EXCEPT !.inertia = file.inertia] = [job |-> mgr[p].job, inertia |-> file.inertia]
      BY <1>0
    <3> QED BY <3>1, <3>2
  <2>2. file.inertia \in 0..MaxInertia
    BY DEF Files
  <2> QED BY <1>5, <2>1, <2>2, ManagerStep DEF Load
<1>6. ASSUME NEW p \in Managers, mgr[p].job # Idle
      PROVE  Moved(p) \in 0..MaxInertia
  BY SMT DEF Moved, Capped, MaxInertia
<1>7. ASSUME NEW p \in Managers, Write(p)
      PROVE  EmoInv'
  <2>1. mgr[p].job # Idle /\ JobOK(mgr[p].job) /\ clock' = clock /\ lost' = lost
        /\ mgr' = [mgr EXCEPT ![p] = [job |-> Idle, inertia |-> Moved(p)]]
    BY <1>7 DEF Write, Return
  <2>2. CASE file = mgr[p].job.snap
    <3>1. file' = Content(p)
          /\ acked' = IF mgr[p].job.event = "none" THEN acked ELSE acked \cup {mgr[p].job.event}
      BY <1>7, <2>2 DEF Write
    <3>2. acked' \subseteq file'.events /\ FileOK(file', clock)
      BY <2>1, <2>2, <3>1, ContentOK
    <3>3. acked' \subseteq Events
      BY <2>1, <3>1 DEF JobOK
    <3> QED BY <1>6, <2>1, <3>2, <3>3, ManagerStep
  <2>3. CASE file # mgr[p].job.snap
    BY <1>6, <1>7, <2>1, <2>3, ManagerStep DEF Write
  <2> QED BY <2>2, <2>3
<1>8. ASSUME NEW p \in Managers, WriteFails(p)
      PROVE  EmoInv'
  <2>1. lost' \in 0..MaxLost
    BY <1>8, EmoAssumption, SMT DEF WriteFails
  <2>2. mgr' = [mgr EXCEPT ![p] = [job |-> Idle, inertia |-> Moved(p)]]
    BY <1>8 DEF WriteFails, Return
  <2> QED BY <1>6, <1>8, <2>1, <2>2, ManagerStep DEF WriteFails
<1>9. ASSUME NEW p \in Managers, Restart(p)
      PROVE  EmoInv'
  <2> DEFINE n == IF file.since = Never THEN 0 ELSE file.inertia
  <2>1. n \in 0..MaxInertia
    BY SMT DEF Files, MaxInertia
  <2>2. mgr' = [mgr EXCEPT ![p] = [job |-> Idle, inertia |-> n]]
    BY <1>9 DEF Restart
  <2> HIDE DEF n
  <2> QED BY <1>9, <2>1, <2>2, ManagerStep DEF Restart
<1>10. CASE UNCHANGED emoVars
  BY <1>10 DEF emoVars, JobOK
<1> QED BY <1>1, <1>2, <1>3, <1>4, <1>5, <1>7, <1>8, <1>9, <1>10 DEF EmoNext

\* What the invariant of the emotion file promises.
LEMMA EmoFollows == EmoInv => EmoTypeOK /\ EmotionSafe
<1> SUFFICES ASSUME EmoInv PROVE EmoTypeOK /\ EmotionSafe
  OBVIOUS
<1>1. file.since # Never => file.faded <= file.since - file.born
  BY EmoAssumption, SMT DEF EmoInv, FileOK, Files, Never
<1> QED BY <1>1 DEF EmoInv, EmotionSafe, UpdatesAreKept, BodyFollows, FileOK

-----------------------------------------------------------------------------
(* The hooks of a host: HostHooks                                          *)

StopsInv ==
    /\ hook \in [HostSessions -> [pc : {"idle", "mood", "decide", "temp", "replace", "log", "answer"},
                                  strong : BOOLEAN]]
    /\ log \in [HostSessions -> Nat] /\ granted \in [HostSessions -> Nat]
    /\ \A s \in HostSessions :
         /\ log[s] <= Limit
         /\ granted[s] <= log[s]
         /\ hook[s].pc = "log" => log[s] < Limit
         /\ hook[s].pc = "answer" => granted[s] < log[s]

MoodInv ==
    /\ enabled \in BOOLEAN /\ flag \in BOOLEAN /\ mood \in {"calm", "strong"}
    /\ temp \in {{}, {TRUE}, {FALSE}}

BoundsInv == turns \in 0..MaxCalls /\ hookFaults \in 0..MaxHookFaults

HooksInv == StopsInv /\ MoodInv /\ BoundsInv /\ WritesAuthorised

\* No session has been kept going at first.
LEMMA HooksInitially == HooksInit => HooksInv
<1> SUFFICES ASSUME HooksInit PROVE HooksInv
  OBVIOUS
<1> USE HooksAssumption DEF HooksInit
<1>1. StopsInv
  BY SMT DEF StopsInv, NoHook
<1>2. MoodInv /\ WritesAuthorised
  BY DEF MoodInv, WritesAuthorised
<1>3. BoundsInv
  BY SMT DEF BoundsInv
<1> QED BY <1>1, <1>2, <1>3 DEF HooksInv

\* A hook moves on, and neither counts nor answers.
LEMMA HookMoves ==
  ASSUME StopsInv, NEW s \in HostSessions,
         NEW pc \in {"idle", "mood", "decide", "temp", "replace", "log"}, NEW strong \in BOOLEAN,
         pc = "log" => log[s] < Limit,
         hook' = [hook EXCEPT ![s] = [pc |-> pc, strong |-> strong]],
         UNCHANGED <<log, granted>>
  PROVE  StopsInv'
<1>1. hook' \in [HostSessions -> [pc : {"idle", "mood", "decide", "temp", "replace", "log", "answer"},
                                 strong : BOOLEAN]]
  BY SMT DEF StopsInv
<1>2. hook'[s].pc = pc /\ \A u \in HostSessions \ {s} : hook'[u] = hook[u]
  BY SMT DEF StopsInv
<1> QED BY <1>1, <1>2 DEF StopsInv

\* To changes the counter of a hook and keeps its finding.
LEMMA ToStep ==
  ASSUME StopsInv, NEW s \in HostSessions, NEW pc, To(s, pc)
  PROVE  hook' = [hook EXCEPT ![s] = [pc |-> pc, strong |-> hook[s].strong]] /\ hook[s].strong \in BOOLEAN
<1>1. hook[s] \in [pc : {"idle", "mood", "decide", "temp", "replace", "log", "answer"}, strong : BOOLEAN]
  BY DEF StopsInv
<1>2. [hook[s] EXCEPT !.pc = pc] = [pc |-> pc, strong |-> hook[s].strong]
  BY <1>1
<1>3. hook' = [hook EXCEPT ![s] = [hook[s] EXCEPT !.pc = pc]]
  BY DEF To
<1> QED BY <1>1, <1>2, <1>3

\* Every step of the hooks keeps their invariant.
LEMMA HooksStep ==
  ASSUME HooksInv, [HooksNext]_hookVars
  PROVE  HooksInv'
<1>0. StopsInv /\ MoodInv /\ BoundsInv /\ WritesAuthorised
  BY DEF HooksInv
<1> USE DEF AtHook, Call, HookFault, moodVars, toolVars, stopVars
<1>1. ASSUME NEW s \in HostSessions, Prompt(s)
      PROVE  HooksInv'
  <2>1. CASE enabled
    <3>1. StopsInv'
      BY <1>0, <1>1, <2>1, ToStep, HookMoves DEF Prompt
    <3>2. BoundsInv'
      BY <1>0, <1>1, HooksAssumption, SMT DEF Prompt, BoundsInv
    <3> QED BY <1>0, <1>1, <3>1, <3>2 DEF Prompt, HooksInv, MoodInv, WritesAuthorised
  <2>2. CASE ~enabled
    <3>1. StopsInv'
      BY <1>0, <1>1, <2>2 DEF Prompt, StopsInv
    <3>2. BoundsInv'
      BY <1>0, <1>1, HooksAssumption, SMT DEF Prompt, BoundsInv
    <3> QED BY <1>0, <1>1, <3>1, <3>2 DEF Prompt, HooksInv, MoodInv, WritesAuthorised
  <2> QED BY <2>1, <2>2
<1>2. ASSUME NEW s \in HostSessions, UpdateMood(s)
      PROVE  HooksInv'
  <2>1. StopsInv'
    BY <1>0, <1>2, ToStep, HookMoves DEF UpdateMood
  <2> QED BY <1>0, <1>2, <2>1 DEF UpdateMood, HooksInv, MoodInv, BoundsInv, WritesAuthorised
<1>3. ASSUME NEW s \in HostSessions, DecideContinue(s)
      PROVE  HooksInv'
  <2>1. StopsInv'
    BY <1>0, <1>3, HookMoves DEF DecideContinue
  <2> QED BY <1>0, <1>3, <2>1 DEF DecideContinue, HooksInv, MoodInv, BoundsInv, WritesAuthorised
<1>4. ASSUME NEW s \in HostSessions, WriteTemp(s)
      PROVE  HooksInv'
  <2>1. StopsInv' /\ hook[s].strong \in BOOLEAN
    BY <1>0, <1>4, ToStep, HookMoves DEF WriteTemp
  <2>2. temp' \in {{TRUE}, {FALSE}}
    BY <1>4, <2>1 DEF WriteTemp
  <2> QED BY <1>0, <1>4, <2>1, <2>2 DEF WriteTemp, HooksInv, MoodInv, BoundsInv, WritesAuthorised
<1>5. ASSUME NEW s \in HostSessions, ReplaceFlag(s)
      PROVE  HooksInv'
  <2>1. StopsInv'
    BY <1>0, <1>5, HookMoves DEF ReplaceFlag, NoHook
  <2>2. MoodInv'
    BY <1>0, <1>5 DEF ReplaceFlag, MoodInv
  <2> QED BY <1>0, <1>5, <2>1, <2>2 DEF ReplaceFlag, HooksInv, BoundsInv, WritesAuthorised
<1>6. ASSUME NEW s \in HostSessions, StopHook(s)
      PROVE  HooksInv'
  <2>1. CASE flag /\ log[s] < Limit
    <3>1. StopsInv'
      BY <1>0, <1>6, <2>1, ToStep, HookMoves DEF StopHook
    <3>2. BoundsInv'
      BY <1>0, <1>6, HooksAssumption, SMT DEF StopHook, BoundsInv
    <3> QED BY <1>0, <1>6, <3>1, <3>2 DEF StopHook, HooksInv, MoodInv, WritesAuthorised
  <2>2. CASE ~(flag /\ log[s] < Limit)
    <3>1. StopsInv'
      BY <1>0, <1>6, <2>2 DEF StopHook, StopsInv
    <3>2. BoundsInv'
      BY <1>0, <1>6, HooksAssumption, SMT DEF StopHook, BoundsInv
    <3> QED BY <1>0, <1>6, <3>1, <3>2 DEF StopHook, HooksInv, MoodInv, WritesAuthorised
  <2> QED BY <2>1, <2>2
<1>7. ASSUME NEW s \in HostSessions, LogContinued(s)
      PROVE  HooksInv'
  <2>1. /\ hook[s].pc = "log" /\ log' = [log EXCEPT ![s] = log[s] + 1] /\ granted' = granted
        /\ hook' = [hook EXCEPT ![s] = [pc |-> "answer", strong |-> hook[s].strong]]
        /\ hook[s].strong \in BOOLEAN
    BY <1>0, <1>7, ToStep DEF LogContinued
  <2>2. StopsInv'
    <3>1. hook' \in [HostSessions -> [pc : {"idle", "mood", "decide", "temp", "replace", "log", "answer"},
                                     strong : BOOLEAN]]
      BY <1>0, <2>1, SMT DEF StopsInv
    <3>2. log' \in [HostSessions -> Nat] /\ granted' \in [HostSessions -> Nat]
      BY <1>0, <2>1, SMT DEF StopsInv
    <3>3. /\ log'[s] = log[s] + 1 /\ log'[s] <= Limit /\ granted'[s] < log'[s]
          /\ hook'[s].pc = "answer"
      BY <1>0, <2>1, HooksAssumption, SMT DEF StopsInv
    <3>4. \A u \in HostSessions \ {s} : log'[u] = log[u] /\ hook'[u] = hook[u] /\ granted'[u] = granted[u]
      BY <1>0, <2>1, SMT DEF StopsInv
    <3>5. granted'[s] <= log'[s]
      BY <1>0, <2>1, <3>2, <3>3, SMT DEF StopsInv
    <3> QED BY <1>0, <3>1, <3>2, <3>3, <3>4, <3>5 DEF StopsInv
  <2> QED BY <1>0, <1>7, <2>2 DEF LogContinued, HooksInv, MoodInv, BoundsInv, WritesAuthorised
<1>8. ASSUME NEW s \in HostSessions, AnswerStop(s)
      PROVE  HooksInv'
  <2>1. /\ hook[s].pc = "answer" /\ granted' = [granted EXCEPT ![s] = granted[s] + 1] /\ log' = log
        /\ hook' = [hook EXCEPT ![s] = NoHook]
    BY <1>8 DEF AnswerStop
  <2>2. StopsInv'
    <3>1. hook' \in [HostSessions -> [pc : {"idle", "mood", "decide", "temp", "replace", "log", "answer"},
                                     strong : BOOLEAN]]
      BY <1>0, <2>1, SMT DEF StopsInv, NoHook
    <3>2. log' \in [HostSessions -> Nat] /\ granted' \in [HostSessions -> Nat]
      BY <1>0, <2>1, SMT DEF StopsInv
    <3>3. granted'[s] <= log'[s] /\ hook'[s].pc = "idle"
      BY <1>0, <2>1, SMT DEF StopsInv, NoHook
    <3>4. \A u \in HostSessions \ {s} : granted'[u] = granted[u] /\ hook'[u] = hook[u]
      BY <1>0, <2>1, SMT DEF StopsInv
    <3> QED BY <1>0, <2>1, <3>1, <3>2, <3>3, <3>4 DEF StopsInv
  <2> QED BY <1>0, <1>8, <2>2 DEF AnswerStop, HooksInv, MoodInv, BoundsInv, WritesAuthorised
<1>9. ASSUME NEW s \in HostSessions, HookFails(s)
      PROVE  HooksInv'
  <2>1. StopsInv'
    BY <1>0, <1>9, HookMoves DEF HookFails, NoHook
  <2>2. BoundsInv'
    BY <1>0, <1>9, HooksAssumption, SMT DEF HookFails, BoundsInv
  <2> QED BY <1>0, <1>9, <2>1, <2>2 DEF HookFails, HooksInv, MoodInv, WritesAuthorised
<1>10. ASSUME NEW s \in HostSessions, PreToolUse(s)
       PROVE  HooksInv'
  <2>1. BoundsInv' /\ UNCHANGED <<moodVars, written, stopVars, hook>>
    BY <1>0, <1>10, HooksAssumption, SMT DEF PreToolUse, BoundsInv
  <2> QED BY <1>0, <2>1 DEF HooksInv, StopsInv, MoodInv, WritesAuthorised
<1>11. ASSUME NEW s \in HostSessions, RememberTool(s)
       PROVE  HooksInv'
  <2>1. UNCHANGED <<moodVars, stopVars, hook, turns, hookFaults>> /\ WritesAuthorised'
    BY <1>0, <1>11 DEF RememberTool, WritesAuthorised
  <2> QED BY <1>0, <2>1 DEF HooksInv, StopsInv, MoodInv, BoundsInv
<1>12. ASSUME NEW s \in HostSessions, PostToolUse(s)
       PROVE  HooksInv'
  <2>1. BoundsInv' /\ UNCHANGED <<moodVars, written, stopVars, hook>>
    BY <1>0, <1>12, HooksAssumption, SMT DEF PostToolUse, BoundsInv
  <2> QED BY <1>0, <2>1 DEF HooksInv, StopsInv, MoodInv, WritesAuthorised
<1>13. CASE SwitchSetting
  <2>1. BoundsInv' /\ UNCHANGED <<mood, temp, flag, written, stopVars, hook>>
    BY <1>0, <1>13, HooksAssumption, SMT DEF SwitchSetting, BoundsInv
  <2>2. enabled' \in BOOLEAN
    BY <1>0, <1>13 DEF SwitchSetting, MoodInv
  <2> QED BY <1>0, <2>1, <2>2 DEF HooksInv, StopsInv, MoodInv, WritesAuthorised
<1>14. CASE UNCHANGED hookVars
  BY <1>0, <1>14 DEF hookVars, HooksInv, StopsInv, MoodInv, BoundsInv, WritesAuthorised
<1> QED BY <1>1, <1>2, <1>3, <1>4, <1>5, <1>6, <1>7, <1>8, <1>9, <1>10, <1>11, <1>12, <1>13, <1>14
        DEF HooksNext

\* What the invariant of the hooks promises.
LEMMA HooksFollow == HooksInv => HooksTypeOK /\ ContinuationsBounded /\ WritesAuthorised
<1> SUFFICES ASSUME HooksInv PROVE HooksTypeOK /\ ContinuationsBounded /\ WritesAuthorised
  OBVIOUS
<1>1. StopsInv /\ MoodInv /\ BoundsInv /\ WritesAuthorised
  BY DEF HooksInv
<1>2. ContinuationsBounded
  BY <1>1, HooksAssumption, SMT DEF StopsInv, ContinuationsBounded
<1>3. Cardinality(temp) <= 1 /\ temp \in SUBSET BOOLEAN
  <2>1. Cardinality({}) = 0 /\ Cardinality({TRUE}) = 1 /\ Cardinality({FALSE}) = 1
    BY FS_EmptySet, FS_Singleton
  <2>2. CASE temp = {}
    BY <2>1, <2>2
  <2>3. CASE temp = {TRUE}
    BY <2>1, <2>3
  <2>4. CASE temp = {FALSE}
    BY <2>1, <2>4
  <2> QED BY <1>1, <2>2, <2>3, <2>4 DEF MoodInv
<1> QED BY <1>1, <1>2, <1>3 DEF MoodInv, BoundsInv, HooksTypeOK

-----------------------------------------------------------------------------
(* The model router: ModelRouter                                           *)

Configs == {Version(n) : n \in 1..MaxEdits + 1}
Decisions == [route : {"none", "default", "technical", "sex", "explicit"}, model : Nat \cup {"virtual", "explicit"}]
Rows == [model : Nat \cup {"virtual", "explicit"}, status : Nat]
Threaded ==
    [pc : {"start", "set", "upstream", "decide", "call", "audit", "inner", "outer", "send", "sendError",
           "sendLast", "closed", "done"},
     payload : Payloads, text : Configs \cup {Unreadable}, base : Nat, key : Nat,
     decision : Decisions, status : Nat, gone : BOOLEAN, called : BOOLEAN]

\* The statuses of an upstream that answers, and of one that does not.
Answered == {200, 429}
BadGateway == 502

\* What a request at q has recorded in the rows r and answered in a.
Recorded(q, r, a) ==
    /\ q.pc \in {"start", "set", "upstream", "decide", "call", "audit", "inner"} => r = <<>>
    /\ q.pc = "set" => q.text # Unreadable
    /\ q.pc \in {"audit", "send"} => q.status \in Answered
    /\ q.pc = "send" => Len(r) = 1 /\ r[1] = [model |-> q.decision.model, status |-> q.status]
    /\ q.pc = "sendError" => Len(r) = 1 /\ r[1].status = None
    /\ q.pc = "outer" => Len(r) <= 1
    /\ q.pc = "sendLast" => Len(r) \in 1..2 /\ r[Len(r)].status = None
    /\ q.pc # "done" => a = <<>>
    /\ q.pc = "done" =>
         /\ Len(a) = 1 /\ Len(r) \in 1..2
         /\ a[1] = BadGateway <=> r[Len(r)].status = None
         /\ a[1] # BadGateway => r[Len(r)] = [model |-> q.decision.model, status |-> a[1]]
    /\ Len(r) <= 2
    /\ q.base = q.key

RequestInv ==
    /\ edits \in 0..MaxEdits
    /\ configFile \in Configs \cup {Unreadable}
    /\ loaded \in Configs
    /\ req \in [Requests -> Threaded]
    /\ rows \in [Requests -> Seq(Rows)]
    /\ answers \in [Requests -> Seq(Nat)]
    /\ \A t \in Requests : Recorded(req[t], rows[t], answers[t])
    /\ routerFaults \in 0..MaxRouterFaults

\* The fields of a version that a request reads.
LEMMA ConfigFields ==
  ASSUME NEW c \in Configs
  PROVE  /\ c.base = c.key /\ c.base \in Nat /\ c.key \in Nat
         /\ c.default \in Nat /\ c.work \in Nat /\ c.enabled \in BOOLEAN
<1>1. PICK n \in 1..MaxEdits + 1 : c = Version(n)
  BY DEF Configs
<1>2. n \in Nat
  BY RouterAssumption, SMT
<1> QED BY <1>1, <1>2, SMT DEF Version, None

\* A decision is a route and a model.
LEMMA DecisionOK ==
  ASSUME NEW p \in Payloads, NEW c \in Configs
  PROVE  DecideRoute(p, c) \in Decisions
<1>1. /\ c.default \in Nat /\ c.work \in Nat /\ p.model \in {"virtual", "explicit"}
      /\ p.bucket \in {"none", "task", "daily", "sex", "other"}
  BY ConfigFields DEF Payloads
<1>2. \A r \in {"none", "default", "technical", "sex", "explicit"}, m \in Nat \cup {"virtual", "explicit"} :
         [route |-> r, model |-> m] \in Decisions
  BY DEF Decisions
<1>3. DecideRoute(p, c) \in {[route |-> "default", model |-> c.default],
                             [route |-> "technical", model |-> c.work],
                             [route |-> "sex", model |-> c.default],
                             [route |-> "explicit", model |-> p.model]}
  BY <1>1, SMT DEF DecideRoute
<1> QED BY <1>1, <1>2, <1>3

\* No request has read a configuration at first.
LEMMA RequestInitially == RouterInit => RequestInv
<1> SUFFICES ASSUME RouterInit PROVE RequestInv
  OBVIOUS
<1>1. PICK p \in Payloads : req = [t \in Requests |-> NewRequest(p)]
  BY DEF RouterInit
<1>2. NewRequest(p) \in Threaded
  BY DEF NewRequest, Threaded, Decisions, None
<1>3. Recorded(NewRequest(p), <<>>, <<>>)
  BY SMT DEF NewRequest, Recorded
<1>4. Version(1) \in Configs
  <2>1. 1 \in 1..MaxEdits + 1
    BY RouterAssumption, SMT
  <2> QED BY <2>1 DEF Configs
<1>5. edits \in 0..MaxEdits /\ routerFaults \in 0..MaxRouterFaults
  BY RouterAssumption, SMT DEF RouterInit
<1>6. rows \in [Requests -> Seq(Rows)] /\ answers \in [Requests -> Seq(Nat)]
  BY SMT DEF RouterInit
<1> QED BY <1>1, <1>2, <1>3, <1>4, <1>5, <1>6 DEF RouterInit, RequestInv

\* A step of one thread, which may set the shared configuration.
LEMMA ThreadStep ==
  ASSUME RequestInv, NEW t \in Requests, NEW q \in Threaded, NEW r \in Seq(Rows), NEW a \in Seq(Nat),
         Recorded(q, r, a),
         req' = [req EXCEPT ![t] = q], rows' = [rows EXCEPT ![t] = r], answers' = [answers EXCEPT ![t] = a],
         loaded' \in Configs, routerFaults' \in 0..MaxRouterFaults, UNCHANGED <<configFile, edits>>
  PROVE  RequestInv'
<1>1. /\ req' \in [Requests -> Threaded] /\ rows' \in [Requests -> Seq(Rows)]
      /\ answers' \in [Requests -> Seq(Nat)]
  BY DEF RequestInv
<1>2. \A u \in Requests : Recorded(req'[u], rows'[u], answers'[u])
  <2> TAKE u \in Requests
  <2>1. CASE u = t
    BY <2>1 DEF RequestInv
  <2>2. CASE u # t
    BY <2>2 DEF RequestInv
  <2> QED BY <2>1, <2>2
<1> QED BY <1>1, <1>2 DEF RequestInv

\* The record of a thread that moves to pc.
LEMMA Moves ==
  ASSUME RequestInv, NEW t \in Requests,
         NEW pc \in {"start", "set", "upstream", "decide", "call", "audit", "inner", "outer", "send", "sendError",
                     "sendLast", "closed", "done"},
         NEW q, q = [req[t] EXCEPT !.pc = pc]
  PROVE  /\ q \in Threaded /\ q.pc = pc
         /\ q.text = req[t].text /\ q.base = req[t].base /\ q.key = req[t].key
         /\ q.decision = req[t].decision /\ q.status = req[t].status /\ q.gone = req[t].gone
         /\ q.called = req[t].called /\ q.payload = req[t].payload
<1>1. req[t] \in Threaded
  BY DEF RequestInv
<1>2. q \in Threaded
  BY <1>1, Zenon DEF Threaded
<1> QED BY <1>1, <1>2, SMT DEF Threaded

\* A history that a step leaves alone.
LEMMA Kept ==
  ASSUME RequestInv, NEW t \in Requests
  PROVE  /\ rows = [rows EXCEPT ![t] = rows[t]] /\ answers = [answers EXCEPT ![t] = answers[t]]
         /\ rows[t] \in Seq(Rows) /\ answers[t] \in Seq(Nat)
         /\ req[t] \in Threaded /\ Recorded(req[t], rows[t], answers[t])
         /\ loaded \in Configs /\ routerFaults \in 0..MaxRouterFaults
  BY DEF RequestInv

\* A row is added, or the file cannot be written.
LEMMA AuditStep ==
  ASSUME RequestInv, NEW t \in Requests, NEW row \in Rows,
         NEW onward \in {"send", "sendError", "sendLast"}, NEW onFailure \in {"inner", "outer", "closed"},
         Audit(t, row, onward, onFailure), answers[t] = <<>>, Len(rows[t]) <= 1,
         onward = "send" =>
            /\ rows[t] = <<>> /\ req[t].status \in Answered /\ onFailure = "inner"
            /\ row = [model |-> req[t].decision.model, status |-> req[t].status],
         onward = "sendError" => rows[t] = <<>> /\ row.status = None /\ onFailure = "outer",
         onward = "sendLast" => row.status = None /\ onFailure = "closed"
  PROVE  RequestInv'
<1>0. /\ req[t] \in Threaded /\ rows[t] \in Seq(Rows) /\ answers[t] \in Seq(Nat) /\ req[t].base = req[t].key
  BY Kept DEF Recorded
<1>1. CASE /\ rows' = [rows EXCEPT ![t] = Append(rows[t], row)] /\ Goto(t, onward)
           /\ UNCHANGED <<configFile, loaded, edits, answers, routerFaults>>
  <2> DEFINE q == [req[t] EXCEPT !.pc = onward]
             r == Append(rows[t], row)
  <2>1. req' = [req EXCEPT ![t] = q]
    BY <1>1 DEF Goto
  <2>2. q \in Threaded /\ q.pc = onward /\ q.base = q.key /\ q.status = req[t].status /\ q.decision = req[t].decision
    BY <1>0, Moves
  <2>3. r \in Seq(Rows) /\ Len(r) = Len(rows[t]) + 1 /\ r[Len(r)] = row
    BY <1>0, SMT
  <2> HIDE DEF q
  <2>4. Recorded(q, r, answers[t])
    <3>1. CASE onward = "send"
      <4>1. Len(r) = 1 /\ r[1] = [model |-> q.decision.model, status |-> q.status] /\ q.status \in Answered
        BY <2>2, <2>3, <3>1, SMT
      <4> HIDE DEF r
      <4> QED BY <2>2, <3>1, <4>1, SMT DEF Recorded
    <3>2. CASE onward = "sendError"
      <4>1. Len(r) = 1 /\ r[1].status = None
        BY <2>2, <2>3, <3>2, SMT
      <4> HIDE DEF r
      <4> QED BY <2>2, <3>2, <4>1, SMT DEF Recorded
    <3>3. CASE onward = "sendLast"
      <4>1. Len(r) \in 1..2 /\ r[Len(r)].status = None
        BY <1>0, <2>2, <2>3, <3>3, SMT
      <4> HIDE DEF r
      <4> QED BY <2>2, <3>3, <4>1, SMT DEF Recorded
    <3> QED BY <3>1, <3>2, <3>3
  <2> HIDE DEF r
  <2>5. rows' = [rows EXCEPT ![t] = r]
    BY <1>1 DEF r
  <2> QED BY <1>0, <1>1, <2>1, <2>2, <2>3, <2>4, <2>5, Kept, ThreadStep
<1>2. CASE RouterFault /\ Goto(t, onFailure) /\ UNCHANGED <<configFile, loaded, edits, rows, answers>>
  <2> DEFINE q == [req[t] EXCEPT !.pc = onFailure]
  <2>1. req' = [req EXCEPT ![t] = q]
    BY <1>2 DEF Goto
  <2>2. q \in Threaded /\ q.pc = onFailure /\ q.base = q.key
    BY <1>0, Moves
  <2> HIDE DEF q
  <2>3. onFailure = "inner" => rows[t] = <<>>
    BY SMT
  <2>4. Recorded(q, rows[t], answers[t])
    BY <1>0, <2>2, <2>3, SMT DEF Recorded
  <2>5. routerFaults' \in 0..MaxRouterFaults
    BY <1>2, Kept, RouterAssumption, SMT DEF RouterFault
  <2> QED BY <1>0, <1>2, <2>1, <2>2, <2>4, <2>5, Kept, ThreadStep
<1> QED BY <1>1, <1>2 DEF Audit

\* An answer is sent, or the client is gone.
LEMMA SendStep ==
  ASSUME RequestInv, NEW t \in Requests, NEW at \in {"send", "sendError", "sendLast"}, NEW code \in Nat,
         NEW onFailure \in {"outer", "closed"},
         Send(t, at, code, onFailure),
         at = "send" => code = req[t].status /\ onFailure = "outer",
         at = "sendError" => code = BadGateway /\ onFailure = "outer",
         at = "sendLast" => code = BadGateway /\ onFailure = "closed"
  PROVE  RequestInv'
<1>0. /\ req[t] \in Threaded /\ rows[t] \in Seq(Rows) /\ answers[t] = <<>> /\ req[t].base = req[t].key
      /\ Recorded(req[t], rows[t], answers[t]) /\ req[t].pc = at /\ Len(rows[t]) \in 1..2
  <2>1. req[t].pc = at /\ Recorded(req[t], rows[t], answers[t]) /\ rows[t] \in Seq(Rows)
    BY Kept DEF Send
  <2> QED BY <2>1, Kept, SMT DEF Recorded
<1>1. CASE req[t].gone
  <2> DEFINE q == [req[t] EXCEPT !.pc = onFailure]
  <2>1. req' = [req EXCEPT ![t] = q] /\ UNCHANGED <<configFile, loaded, edits, rows, answers, routerFaults>>
    BY <1>1 DEF Goto, Send
  <2>2. q \in Threaded /\ q.pc = onFailure /\ q.base = q.key
    BY <1>0, Moves
  <2> HIDE DEF q
  <2>3. onFailure = "outer" => Len(rows[t]) <= 1
    <3>1. CASE at = "send"
      <4>1. Len(rows[t]) = 1
        BY <1>0, <3>1 DEF Recorded
      <4> QED BY <4>1, SMT
    <3>2. CASE at = "sendError"
      <4>1. Len(rows[t]) = 1
        BY <1>0, <3>2 DEF Recorded
      <4> QED BY <4>1, SMT
    <3>3. CASE at = "sendLast"
      BY <3>3
    <3> QED BY <3>1, <3>2, <3>3
  <2>4. Recorded(q, rows[t], answers[t])
    BY <1>0, <2>2, <2>3, SMT DEF Recorded
  <2>5. loaded' \in Configs /\ routerFaults' \in 0..MaxRouterFaults /\ UNCHANGED <<configFile, edits>>
        /\ rows' = [rows EXCEPT ![t] = rows[t]] /\ answers' = [answers EXCEPT ![t] = answers[t]]
    BY <2>1, Kept
  <2> QED BY <1>0, <2>1, <2>2, <2>4, <2>5, Kept, ThreadStep
<1>2. CASE ~req[t].gone
  <2> DEFINE q == [req[t] EXCEPT !.pc = "done"]
             a == Append(answers[t], code)
  <2>1. /\ req' = [req EXCEPT ![t] = q] /\ answers' = [answers EXCEPT ![t] = a]
        /\ UNCHANGED <<configFile, loaded, edits, rows, routerFaults>>
    BY <1>2 DEF Goto, Send
  <2>2. q \in Threaded /\ q.pc = "done" /\ q.base = q.key /\ q.status = req[t].status /\ q.decision = req[t].decision
    BY <1>0, Moves
  <2>3. a \in Seq(Nat) /\ Len(a) = 1 /\ a[1] = code
    BY <1>0, SMT
  <2> HIDE DEF q, a
  <2>4. /\ code = BadGateway <=> rows[t][Len(rows[t])].status = None
        /\ code # BadGateway => rows[t][Len(rows[t])] = [model |-> q.decision.model, status |-> code]
    <3>1. CASE at = "send"
      <4>1. /\ Len(rows[t]) = 1 /\ rows[t][1] = [model |-> req[t].decision.model, status |-> req[t].status]
            /\ code = req[t].status /\ code \in Answered
        BY <1>0, <3>1, SMT DEF Recorded
      <4>2. rows[t][Len(rows[t])].status = code
        BY <4>1
      <4> QED BY <2>2, <4>1, <4>2, SMT DEF None, Answered, BadGateway
    <3>2. CASE at = "sendError"
      BY <1>0, <3>2, SMT DEF Recorded, BadGateway
    <3>3. CASE at = "sendLast"
      BY <1>0, <3>3, SMT DEF Recorded, BadGateway
    <3> QED BY <3>1, <3>2, <3>3
  <2>5. Recorded(q, rows[t], a)
    BY <1>0, <2>2, <2>3, <2>4, SMT DEF Recorded
  <2> QED BY <1>0, <2>1, <2>2, <2>3, <2>5, Kept, ThreadStep
<1> QED BY <1>1, <1>2

\* Every step of the request threads keeps the invariant.
LEMMA RequestStep ==
  ASSUME RequestInv, RequestNext
  PROVE  RequestInv'
<1>1. CASE EditConfig
  <2>1. edits' \in 0..MaxEdits /\ 1 + edits' \in 1..MaxEdits + 1
    BY <1>1, RouterAssumption, SMT DEF EditConfig, RequestInv
  <2>2. configFile' \in Configs \cup {Unreadable}
    BY <1>1, <2>1 DEF EditConfig, Configs
  <2> QED BY <1>1, <2>1, <2>2 DEF EditConfig, RequestInv
<1>2. CASE Health
  BY <1>2 DEF Health, RequestInv
<1> USE DEF Goto
<1>3. ASSUME NEW t \in Requests, ClientGone(t)
      PROVE  RequestInv'
  <2> DEFINE q == [req[t] EXCEPT !.gone = TRUE]
  <2>1. q \in Threaded
    BY Kept, Zenon DEF Threaded
  <2>2. /\ q.pc = req[t].pc /\ q.text = req[t].text /\ q.base = req[t].base /\ q.key = req[t].key
        /\ q.decision = req[t].decision /\ q.status = req[t].status
    BY Kept, SMT DEF Threaded
  <2>3. req' = [req EXCEPT ![t] = q] /\ UNCHANGED <<configFile, loaded, edits, rows, answers>>
    BY <1>3 DEF ClientGone
  <2> HIDE DEF q
  <2>4. Recorded(q, rows[t], answers[t])
    BY <2>2, Kept DEF Recorded
  <2>5. routerFaults' \in 0..MaxRouterFaults
    BY <1>3, Kept, RouterAssumption, SMT DEF ClientGone, RouterFault
  <2> QED BY <2>1, <2>3, <2>4, <2>5, Kept, ThreadStep
<1>4. ASSUME NEW t \in Requests, ReadConfig(t)
      PROVE  RequestInv'
  <2>0. req[t].pc = "start" /\ rows[t] = <<>> /\ answers[t] = <<>> /\ req[t].base = req[t].key
    BY <1>4, Kept DEF ReadConfig, Recorded
  <2>1. CASE configFile = Unreadable
    <3> DEFINE q == [req[t] EXCEPT !.pc = "outer"]
    <3>1. req' = [req EXCEPT ![t] = q] /\ UNCHANGED <<configFile, loaded, edits, rows, answers, routerFaults>>
      BY <1>4, <2>1 DEF ReadConfig
    <3>2. q \in Threaded /\ q.pc = "outer" /\ q.base = q.key
      BY <2>0, Moves
    <3> HIDE DEF q
    <3>3. Recorded(q, rows[t], answers[t])
      BY <2>0, <3>2, SMT DEF Recorded
    <3> QED BY <3>1, <3>2, <3>3, Kept, ThreadStep
  <2>2. CASE configFile # Unreadable
    <3> DEFINE q == [req[t] EXCEPT !.pc = "set", !.text = configFile]
    <3>1. req' = [req EXCEPT ![t] = q] /\ UNCHANGED <<configFile, loaded, edits, rows, answers, routerFaults>>
      BY <1>4, <2>2 DEF ReadConfig
    <3>2. q \in Threaded
      <4>1. req[t] \in Threaded /\ configFile \in Configs \cup {Unreadable}
        BY Kept DEF RequestInv
      <4>2. [req[t] EXCEPT !.pc = "set"] \in Threaded
        BY <4>1, Moves
      <4>3. [[req[t] EXCEPT !.pc = "set"] EXCEPT !.text = configFile] \in Threaded
        BY <4>1, <4>2, Zenon DEF Threaded
      <4> QED BY <4>3, Zenon
    <3>3. q.pc = "set" /\ q.text = configFile /\ q.base = q.key
      BY <2>0, Kept, SMT DEF Threaded
    <3> HIDE DEF q
    <3>4. Recorded(q, rows[t], answers[t])
      BY <2>0, <2>2, <3>3, SMT DEF Recorded
    <3> QED BY <3>1, <3>2, <3>4, Kept, ThreadStep
  <2> QED BY <2>1, <2>2
<1>5. ASSUME NEW t \in Requests, SetConfig(t)
      PROVE  RequestInv'
  <2>0. req[t].pc = "set" /\ rows[t] = <<>> /\ answers[t] = <<>> /\ req[t].base = req[t].key /\ req[t].text # Unreadable
    BY <1>5, Kept DEF SetConfig, Recorded
  <2> DEFINE q == [req[t] EXCEPT !.pc = "upstream"]
  <2>1. req' = [req EXCEPT ![t] = q] /\ loaded' = req[t].text /\ UNCHANGED <<configFile, edits, rows, answers, routerFaults>>
    BY <1>5 DEF SetConfig
  <2>2. q \in Threaded /\ q.pc = "upstream" /\ q.base = q.key
    BY <2>0, Moves
  <2>3. loaded' \in Configs
    BY <2>0, <2>1, Kept DEF Threaded
  <2> HIDE DEF q
  <2>4. Recorded(q, rows[t], answers[t])
    BY <2>0, <2>2, SMT DEF Recorded
  <2> QED BY <2>1, <2>2, <2>3, <2>4, Kept, ThreadStep
<1>6. ASSUME NEW t \in Requests, Upstream(t)
      PROVE  RequestInv'
  <2>0. req[t].pc = "upstream" /\ rows[t] = <<>> /\ answers[t] = <<>>
    BY <1>6, Kept DEF Upstream, Recorded
  <2> DEFINE q == [req[t] EXCEPT !.pc = "decide", !.base = loaded.base, !.key = loaded.key]
  <2>1. req' = [req EXCEPT ![t] = q] /\ UNCHANGED <<configFile, loaded, edits, rows, answers, routerFaults>>
    BY <1>6 DEF Upstream
  <2>2. loaded.base = loaded.key /\ loaded.base \in Nat /\ loaded.key \in Nat
    BY Kept, ConfigFields
  <2>3. q \in Threaded
    BY <2>2, Kept, Zenon DEF Threaded
  <2>4. q.pc = "decide" /\ q.base = q.key
    BY <2>2, Kept, SMT DEF Threaded
  <2> HIDE DEF q
  <2>5. Recorded(q, rows[t], answers[t])
    BY <2>0, <2>4, SMT DEF Recorded
  <2> QED BY <2>1, <2>3, <2>5, Kept, ThreadStep
<1>7. ASSUME NEW t \in Requests, Decide(t)
      PROVE  RequestInv'
  <2>0. req[t].pc = "decide" /\ rows[t] = <<>> /\ answers[t] = <<>> /\ req[t].base = req[t].key
    BY <1>7, Kept DEF Decide, Recorded
  <2>1. CASE loaded.default = None
    <3> DEFINE q == [req[t] EXCEPT !.pc = "outer"]
    <3>1. req' = [req EXCEPT ![t] = q] /\ UNCHANGED <<configFile, loaded, edits, rows, answers, routerFaults>>
      BY <1>7, <2>1 DEF Decide
    <3>2. q \in Threaded /\ q.pc = "outer" /\ q.base = q.key
      BY <2>0, Moves
    <3> HIDE DEF q
    <3>3. Recorded(q, rows[t], answers[t])
      BY <2>0, <3>2, SMT DEF Recorded
    <3> QED BY <3>1, <3>2, <3>3, Kept, ThreadStep
  <2>2. CASE loaded.default # None
    <3> DEFINE d == DecideRoute(req[t].payload, loaded)
               q == [req[t] EXCEPT !.pc = "call", !.decision = d]
    <3>1. req' = [req EXCEPT ![t] = q] /\ UNCHANGED <<configFile, loaded, edits, rows, answers, routerFaults>>
      BY <1>7, <2>2 DEF Decide
    <3>2. d \in Decisions
      BY Kept, DecisionOK DEF Threaded
    <3> HIDE DEF d
    <3>3. q \in Threaded
      BY <3>2, Kept, Zenon DEF Threaded
    <3>4. q.pc = "call" /\ q.base = q.key
      BY <2>0, Kept, SMT DEF Threaded
    <3> HIDE DEF q
    <3>5. Recorded(q, rows[t], answers[t])
      BY <2>0, <3>4, SMT DEF Recorded
    <3> QED BY <3>1, <3>3, <3>5, Kept, ThreadStep
  <2> QED BY <2>1, <2>2
<1>8. ASSUME NEW t \in Requests, CallUpstream(t)
      PROVE  RequestInv'
  <2>0. req[t].pc = "call" /\ rows[t] = <<>> /\ answers[t] = <<>> /\ req[t].base = req[t].key
        /\ UNCHANGED <<configFile, loaded, edits, rows, answers, routerFaults>>
    BY <1>8, Kept DEF CallUpstream, Recorded
  <2>1. ASSUME NEW code \in Nat, NEW b \in BOOLEAN,
               req' = [req EXCEPT ![t].pc = "audit", ![t].status = code, ![t].called = b]
        PROVE  \E q \in Threaded :
                 /\ req' = [req EXCEPT ![t] = q]
                 /\ q.pc = "audit" /\ q.status = code /\ q.base = q.key
    <3> DEFINE q == [req[t] EXCEPT !.pc = "audit", !.status = code, !.called = b]
    <3>1. req' = [req EXCEPT ![t] = q]
      BY <2>1
    <3>2. q \in Threaded
      BY Kept, Zenon DEF Threaded
    <3>3. q.pc = "audit" /\ q.status = code /\ q.base = q.key
      BY <2>0, Kept, SMT DEF Threaded
    <3> QED BY <3>1, <3>2, <3>3
  <2>3. ASSUME NEW code \in Answered,
               req' = [req EXCEPT ![t].pc = "audit", ![t].status = code, ![t].called = TRUE]
        PROVE  RequestInv'
    <3>1. PICK q \in Threaded : req' = [req EXCEPT ![t] = q] /\ q.pc = "audit" /\ q.status = code /\ q.base = q.key
      <4>1. code \in Nat
        BY SMT DEF Answered
      <4> QED BY <2>1, <2>3, <4>1
    <3>2. Recorded(q, rows[t], answers[t])
      BY <2>0, <3>1, SMT DEF Recorded
    <3> QED BY <2>0, <3>1, <3>2, Kept, ThreadStep
  <2>2. CASE req' = [req EXCEPT ![t].pc = "inner"]
    <3> DEFINE q == [req[t] EXCEPT !.pc = "inner"]
    <3>1. req' = [req EXCEPT ![t] = q]
      BY <2>2
    <3>2. q \in Threaded /\ q.pc = "inner" /\ q.base = q.key
      BY <2>0, Moves
    <3> HIDE DEF q
    <3>3. Recorded(q, rows[t], answers[t])
      BY <2>0, <3>2, SMT DEF Recorded
    <3> QED BY <2>0, <3>1, <3>2, <3>3, Kept, ThreadStep
  <2> QED BY <1>8, <2>2, <2>3 DEF CallUpstream, Answered
<1>9. ASSUME NEW t \in Requests, AuditCall(t)
      PROVE  RequestInv'
  <2>1. /\ req[t].pc = "audit" /\ rows[t] = <<>> /\ answers[t] = <<>> /\ req[t].status \in Answered
        /\ Audit(t, Row(t, req[t].status), "send", "inner")
    BY <1>9, Kept DEF AuditCall, Recorded
  <2>2. Row(t, req[t].status) \in Rows
    BY <2>1, Kept DEF Row, Rows, Threaded, Decisions
  <2>3. Row(t, req[t].status) = [model |-> req[t].decision.model, status |-> req[t].status]
    BY DEF Row
  <2>4. Len(rows[t]) <= 1
    BY <2>1, SMT
  <2> QED BY <2>1, <2>2, <2>3, <2>4, AuditStep
<1>10. ASSUME NEW t \in Requests, AuditInner(t)
       PROVE  RequestInv'
  <2>1. /\ req[t].pc = "inner" /\ rows[t] = <<>> /\ answers[t] = <<>>
        /\ Audit(t, Row(t, None), "sendError", "outer")
    BY <1>10, Kept DEF AuditInner, Recorded
  <2>2. Row(t, None) \in Rows /\ Row(t, None).status = None
    BY Kept DEF Row, Rows, Threaded, Decisions, None
  <2>4. Len(rows[t]) <= 1
    BY <2>1, SMT
  <2> QED BY <2>1, <2>2, <2>4, AuditStep
<1>11. ASSUME NEW t \in Requests, AuditOuter(t)
       PROVE  RequestInv'
  <2> DEFINE row == [model |-> None, status |-> None]
  <2>1. /\ req[t].pc = "outer" /\ Len(rows[t]) <= 1 /\ answers[t] = <<>>
        /\ Audit(t, row, "sendLast", "closed")
    BY <1>11, Kept DEF AuditOuter, Recorded
  <2>2. row \in Rows /\ row.status = None
    BY DEF Rows, None
  <2> QED BY <2>1, <2>2, AuditStep
<1>12. ASSUME NEW t \in Requests, SendAnswer(t)
       PROVE  RequestInv'
  <2>1. req[t].status \in Nat
    BY Kept DEF Threaded
  <2> QED BY <1>12, <2>1, SendStep DEF SendAnswer
<1>13. ASSUME NEW t \in Requests, SendError(t)
       PROVE  RequestInv'
  <2>1. Send(t, "sendError", BadGateway, "outer") /\ BadGateway \in Nat
    BY <1>13, SMT DEF SendError, BadGateway
  <2> QED BY <2>1, SendStep
<1>14. ASSUME NEW t \in Requests, SendLast(t)
       PROVE  RequestInv'
  <2>1. Send(t, "sendLast", BadGateway, "closed") /\ BadGateway \in Nat
    BY <1>14, SMT DEF SendLast, BadGateway
  <2> QED BY <2>1, SendStep
<1> QED BY <1>1, <1>2, <1>3, <1>4, <1>5, <1>6, <1>7, <1>8, <1>9, <1>10, <1>11, <1>12, <1>13, <1>14
        DEF RequestNext

\* What the invariant of the requests promises.
LEMMA RequestsFollow ==
  RequestInv => KeyGoesHome /\ AnswerIsAudited /\ (\A t \in Requests : Len(rows[t]) <= 3)
<1> SUFFICES ASSUME RequestInv
             PROVE  KeyGoesHome /\ AnswerIsAudited /\ (\A t \in Requests : Len(rows[t]) <= 3)
  OBVIOUS
<1>1. KeyGoesHome
  BY Kept DEF KeyGoesHome, Recorded
<1>2. ASSUME NEW t \in Requests
      PROVE  /\ Len(answers[t]) <= 1 /\ Len(rows[t]) <= 3
             /\ answers[t] # <<>> =>
                  LET row == rows[t][Len(rows[t])] IN
                    /\ rows[t] # <<>>
                    /\ answers[t][1] = 502 <=> row.status = None
                    /\ answers[t][1] # 502 => row = [model |-> req[t].decision.model, status |-> answers[t][1]]
  <2>1. Recorded(req[t], rows[t], answers[t]) /\ rows[t] \in Seq(Rows) /\ answers[t] \in Seq(Nat)
    BY Kept
  <2>2. CASE req[t].pc = "done"
    BY <2>1, <2>2, SMT DEF Recorded, BadGateway
  <2>3. CASE req[t].pc # "done"
    BY <2>1, <2>3, SMT DEF Recorded
  <2> QED BY <2>2, <2>3
<1>3. AnswerIsAudited
  BY <1>2, SMT DEF AnswerIsAudited
<1>4. ASSUME NEW t \in Requests
      PROVE  Len(rows[t]) <= 3
  <2>1. Recorded(req[t], rows[t], answers[t]) /\ rows[t] \in Seq(Rows)
    BY Kept
  <2> QED BY <2>1, SMT DEF Recorded
<1> QED BY <1>1, <1>3, <1>4

-----------------------------------------------------------------------------
ServiceInv ==
    /\ proc \in Seq({"booting", "serving", "dead"}) /\ Len(proc) <= MaxPids
    /\ pidfile \in 0..Len(proc)
    /\ op \in [Operators -> [pc : {"idle", "spawn", "wait"}, pid : 0..Len(proc)]]
    /\ \A o \in Operators : op[o].pc = "wait" => op[o].pid \in 1..Len(proc)
    /\ routerFaults \in 0..MaxRouterFaults

\* With one operator who waits, a router is the only one that is not dead.
OnlyRouter ==
    /\ \A o \in Operators :
         /\ op[o].pc = "idle" => \A p \in DOMAIN proc : proc[p] # "booting"
         /\ op[o].pc = "spawn" => \A p \in DOMAIN proc : proc[p] = "dead"
         /\ op[o].pc = "wait" => pidfile = op[o].pid /\ \A p \in DOMAIN proc : p # pidfile => proc[p] = "dead"
    /\ \A r \in reported : r.serves /\ r.file = r.pid

\* There is no router process at first.
LEMMA ServiceInitially == RouterInit => ServiceInv /\ OnlyRouter
  BY RouterAssumption, SMT DEF RouterInit, ServiceInv, OnlyRouter, None

\* A router process is spawned in a state.
LEMMA Spawned ==
  ASSUME ServiceInv, NEW s \in {"booting", "serving", "dead"}, proc' = Append(proc, s)
  PROVE  /\ proc' \in Seq({"booting", "serving", "dead"}) /\ Len(proc') = Len(proc) + 1
         /\ \A p \in 1..Len(proc) : proc'[p] = proc[p]
         /\ proc'[Len(proc')] = s /\ Len(proc) \in Nat
         /\ DOMAIN proc = 1..Len(proc) /\ DOMAIN proc' = 1..Len(proc) + 1
  BY SMT DEF ServiceInv

\* A router process changes its state.
LEMMA Changed ==
  ASSUME ServiceInv, NEW p \in DOMAIN proc, NEW s \in {"booting", "serving", "dead"},
         proc' = [proc EXCEPT ![p] = s]
  PROVE  /\ proc' \in Seq({"booting", "serving", "dead"}) /\ Len(proc') = Len(proc)
         /\ DOMAIN proc' = DOMAIN proc /\ proc'[p] = s
         /\ \A q \in DOMAIN proc : q # p => proc'[q] = proc[q]
  BY SMT DEF ServiceInv

\* Every step of the commands and the routers keeps the types.
LEMMA ServiceStep ==
  ASSUME ServiceInv, ServiceNext
  PROVE  ServiceInv'
<1>0. Len(proc) \in Nat /\ DOMAIN proc = 1..Len(proc)
  BY SMT DEF ServiceInv
<1>1. ASSUME NEW p \in DOMAIN proc, Boot(p)
      PROVE  ServiceInv'
  <2>1. PICK s \in {"serving", "dead"} : proc' = [proc EXCEPT ![p] = s]
    BY <1>1 DEF Boot
  <2> QED BY <1>1, <2>1, Changed DEF Boot, ServiceInv
<1>2. ASSUME NEW p \in DOMAIN proc, Die(p)
      PROVE  ServiceInv'
  <2>1. proc' = [proc EXCEPT ![p] = "dead"]
    BY <1>2 DEF Die
  <2>2. routerFaults' \in 0..MaxRouterFaults
    BY <1>2, RouterAssumption, SMT DEF Die, RouterFault, ServiceInv
  <2> QED BY <1>2, <2>1, <2>2, Changed DEF Die, ServiceInv
<1> USE DEF OpTo, None
<1>3. ASSUME NEW o \in Operators, StartRouter(o)
      PROVE  ServiceInv'
  BY <1>0, <1>3, SMT DEF StartRouter, ServiceInv
<1>4. ASSUME NEW o \in Operators, Spawn(o)
      PROVE  ServiceInv'
  <2>1. proc' = Append(proc, "booting")
    BY <1>4 DEF Spawn
  <2>2. Len(proc') \in 1..Len(proc') /\ Len(proc) <= Len(proc') /\ Len(proc') \in Nat
    BY <1>0, <2>1, Spawned, SMT
  <2>3. Len(proc') <= MaxPids
    BY <1>0, <1>4, <2>1, Spawned, RouterAssumption, SMT DEF Spawn
  <2>4. pidfile' \in 0..Len(proc')
    BY <1>4, <2>2, SMT DEF Spawn
  <2>5. op' = [op EXCEPT ![o] = [pc |-> "wait", pid |-> Len(proc')]]
    BY <1>4 DEF Spawn
  <2>6. \A n : n \in 0..Len(proc) => n \in 0..Len(proc')
    BY <1>0, <2>2, SMT
  <2>7. \A n : n \in 1..Len(proc) => n \in 1..Len(proc')
    BY <1>0, <2>2, SMT
  <2>8. Len(proc') \in 0..Len(proc')
    BY <2>2, SMT
  <2>9. op' \in [Operators -> [pc : {"idle", "spawn", "wait"}, pid : 0..Len(proc')]]
    BY <2>5, <2>6, <2>8, Zenon DEF ServiceInv
  <2>10. \A u \in Operators : op'[u].pc = "wait" => op'[u].pid \in 1..Len(proc')
    BY <2>2, <2>5, <2>7, SMT DEF ServiceInv
  <2> QED BY <1>4, <2>1, <2>3, <2>4, <2>9, <2>10, Spawned DEF Spawn, ServiceInv
<1>5. ASSUME NEW o \in Operators, StartSeen(o)
      PROVE  ServiceInv'
  BY <1>0, <1>5, SMT DEF StartSeen, ServiceInv
<1>6. ASSUME NEW o \in Operators, StartGivenUp(o)
      PROVE  ServiceInv'
  BY <1>0, <1>6, SMT DEF StartGivenUp, ServiceInv
<1>7. ASSUME NEW o \in Operators, StopRouter(o)
      PROVE  ServiceInv'
  <2>1. pidfile \in DOMAIN proc
    BY <1>0, <1>7, SMT DEF StopRouter, ServiceInv
  <2>2. CASE proc[pidfile] # "dead"
    <3>1. proc' = [proc EXCEPT ![pidfile] = "dead"] /\ pidfile' = None
      BY <1>7, <2>2 DEF StopRouter
    <3>2. pidfile' \in 0..Len(proc)
      BY <1>0, <3>1, SMT
    <3> QED BY <1>7, <2>1, <3>1, <3>2, Changed DEF StopRouter, ServiceInv
  <2>3. CASE proc[pidfile] = "dead"
    BY <1>7, <2>3 DEF StopRouter, ServiceInv
  <2> QED BY <2>2, <2>3
<1>8. CASE RunForeground
  <2>1. PICK s \in {"serving", "dead"} : proc' = Append(proc, s)
    BY <1>8 DEF RunForeground
  <2>2. Len(proc') = Len(proc) + 1
    BY <2>1, Spawned
  <2>3. Len(proc') <= MaxPids /\ pidfile' \in 0..Len(proc')
    BY <1>0, <1>8, <2>2, RouterAssumption, SMT DEF RunForeground
  <2>4. /\ \A n : n \in 0..Len(proc) => n \in 0..Len(proc')
        /\ \A n : n \in 1..Len(proc) => n \in 1..Len(proc')
    BY <1>0, <2>2, SMT
  <2>5. op' \in [Operators -> [pc : {"idle", "spawn", "wait"}, pid : 0..Len(proc')]]
    BY <1>8, <2>4 DEF RunForeground, ServiceInv
  <2> QED BY <1>8, <2>1, <2>3, <2>4, <2>5, Spawned DEF RunForeground, ServiceInv
<1> QED BY <1>1, <1>2, <1>3, <1>4, <1>5, <1>6, <1>7, <1>8 DEF ServiceNext

\* With one operator who waits, every step keeps the router the only one.
LEMMA OnlyRouterStep ==
  ASSUME ServiceInv, OnlyRouter, Orderly, OneOperator, ServiceNext
  PROVE  OnlyRouter'
<1>0. Len(proc) \in Nat /\ DOMAIN proc = 1..Len(proc) /\ \A p \in DOMAIN proc : proc[p] \in {"booting", "serving", "dead"}
  BY SMT DEF ServiceInv
<1>1. ASSUME NEW p \in DOMAIN proc, Boot(p)
      PROVE  OnlyRouter'
  <2>1. PICK s \in {"serving", "dead"} : proc' = [proc EXCEPT ![p] = s]
    BY <1>1 DEF Boot
  <2>2. DOMAIN proc' = DOMAIN proc /\ proc'[p] # "booting" /\ \A q \in DOMAIN proc : q # p => proc'[q] = proc[q]
    BY <2>1, Changed
  <2>3. proc[p] = "booting" /\ UNCHANGED <<pidfile, op, reported>>
    BY <1>1 DEF Boot
  <2> QED BY <2>2, <2>3 DEF OnlyRouter
<1>2. ASSUME NEW p \in DOMAIN proc, Die(p)
      PROVE  OnlyRouter'
  <2>1. proc' = [proc EXCEPT ![p] = "dead"] /\ UNCHANGED <<pidfile, op, reported>>
    BY <1>2 DEF Die
  <2>2. DOMAIN proc' = DOMAIN proc /\ proc'[p] = "dead" /\ \A q \in DOMAIN proc : q # p => proc'[q] = proc[q]
    BY <2>1, Changed
  <2> QED BY <2>1, <2>2 DEF OnlyRouter
<1> USE DEF OpTo, None, Serving
<1>3. ASSUME NEW o \in Operators, StartRouter(o)
      PROVE  OnlyRouter'
  <2>1. op[o].pc = "idle" /\ Serving = {} /\ op' = [op EXCEPT ![o] = [pc |-> "spawn", pid |-> None]]
        /\ UNCHANGED <<proc, reported>>
    BY <1>3 DEF StartRouter
  <2>2. \A p \in DOMAIN proc : proc[p] = "dead"
    BY <1>0, <2>1 DEF OnlyRouter
  <2>3. op'[o].pc = "spawn"
    BY <2>1 DEF ServiceInv
  <2> QED BY <2>1, <2>2, <2>3 DEF OnlyRouter, OneOperator
<1>4. ASSUME NEW o \in Operators, Spawn(o)
      PROVE  OnlyRouter'
  <2>1. /\ op[o].pc = "spawn" /\ proc' = Append(proc, "booting") /\ pidfile' = Len(proc')
        /\ op' = [op EXCEPT ![o] = [pc |-> "wait", pid |-> Len(proc')]] /\ UNCHANGED reported
    BY <1>4 DEF Spawn
  <2>2. op'[o] = [pc |-> "wait", pid |-> Len(proc')]
    BY <2>1 DEF ServiceInv
  <2>3. \A p \in DOMAIN proc' : p # pidfile' => proc'[p] = "dead"
    <3> TAKE p \in DOMAIN proc'
    <3>1. p # Len(proc') => p \in 1..Len(proc)
      BY <1>0, <2>1, Spawned, SMT
    <3> QED BY <1>0, <2>1, <3>1, Spawned DEF OnlyRouter
  <2> QED BY <2>1, <2>2, <2>3 DEF OnlyRouter, OneOperator
<1>5. ASSUME NEW o \in Operators, StartSeen(o)
      PROVE  OnlyRouter'
  <2>1. /\ op[o].pc = "wait" /\ Serving # {} /\ op' = [op EXCEPT ![o] = [pc |-> "idle", pid |-> None]]
        /\ reported' = reported \cup {[pid |-> op[o].pid, serves |-> op[o].pid \in Serving, file |-> pidfile]}
        /\ UNCHANGED <<proc, pidfile>>
    BY <1>5 DEF StartSeen
  <2>2. pidfile = op[o].pid /\ \A p \in DOMAIN proc : p # pidfile => proc[p] = "dead"
    BY <2>1 DEF OnlyRouter
  <2>3. PICK p \in DOMAIN proc : proc[p] = "serving"
    BY <2>1
  <2>4. p = pidfile
    BY <2>2, <2>3
  <2>5. op[o].pid \in Serving
    BY <2>2, <2>3, <2>4
  <2>6. \A q \in DOMAIN proc : proc[q] # "booting"
    BY <2>2, <2>3, <2>4
  <2>7. op'[o].pc = "idle"
    BY <2>1 DEF ServiceInv
  <2>8. \A r \in reported' : r.serves /\ r.file = r.pid
    <3> DEFINE new == [pid |-> op[o].pid, serves |-> op[o].pid \in Serving, file |-> pidfile]
    <3>1. new.serves /\ new.file = new.pid
      BY <2>2, <2>5
    <3>2. \A r \in reported : r.serves /\ r.file = r.pid
      BY DEF OnlyRouter
    <3> HIDE DEF new
    <3>3. reported' = reported \cup {new}
      BY <2>1 DEF new
    <3> QED BY <3>1, <3>2, <3>3
  <2> QED BY <2>1, <2>6, <2>7, <2>8 DEF OnlyRouter, OneOperator
<1>6. ASSUME NEW o \in Operators, StartGivenUp(o)
      PROVE  OnlyRouter'
  <2>1. /\ op[o].pc = "wait" /\ proc[op[o].pid] = "dead" /\ op' = [op EXCEPT ![o] = [pc |-> "idle", pid |-> None]]
        /\ UNCHANGED <<proc, reported>>
    BY <1>6 DEF StartGivenUp
  <2>2. \A p \in DOMAIN proc : proc[p] = "dead"
    BY <2>1 DEF OnlyRouter
  <2>3. op'[o].pc = "idle"
    BY <2>1 DEF ServiceInv
  <2> QED BY <2>1, <2>2, <2>3 DEF OnlyRouter, OneOperator
<1>7. ASSUME NEW o \in Operators, StopRouter(o)
      PROVE  OnlyRouter'
  <2>1. op[o].pc = "idle" /\ UNCHANGED <<op, reported>>
    BY <1>7 DEF StopRouter
  <2>2. \A p \in DOMAIN proc' : proc'[p] # "booting"
    <3>1. pidfile \in DOMAIN proc
      BY <1>0, <1>7, SMT DEF StopRouter, ServiceInv
    <3>2. \A p \in DOMAIN proc : proc[p] # "booting"
      BY <2>1 DEF OnlyRouter
    <3>3. CASE proc' = proc
      BY <3>2, <3>3
    <3>4. CASE proc' = [proc EXCEPT ![pidfile] = "dead"]
      BY <3>1, <3>2, <3>4, Changed
    <3> QED BY <1>7, <3>3, <3>4 DEF StopRouter
  <2> QED BY <2>1, <2>2 DEF OnlyRouter, OneOperator
<1>8. CASE RunForeground
  <2>1. /\ \A p \in DOMAIN proc : proc[p] = "dead"
        /\ \A o \in Operators : op[o].pc = "idle"
        /\ UNCHANGED <<op, reported>>
    BY <1>8 DEF RunForeground
  <2>2. PICK s \in {"serving", "dead"} : proc' = Append(proc, s)
    BY <1>8 DEF RunForeground
  <2>3. \A p \in DOMAIN proc' : proc'[p] # "booting"
    <3> TAKE p \in DOMAIN proc'
    <3>1. p # Len(proc') => p \in 1..Len(proc)
      BY <1>0, <2>2, Spawned, SMT
    <3> QED BY <1>0, <2>1, <2>2, <3>1, Spawned
  <2> QED BY <2>1, <2>3 DEF OnlyRouter
<1> QED BY <1>1, <1>2, <1>3, <1>4, <1>5, <1>6, <1>7, <1>8 DEF ServiceNext

RouterInv == RequestInv /\ ServiceInv /\ (Orderly /\ OneOperator => OnlyRouter)

\* Both halves of the router's invariant hold at first.
LEMMA RouterInitially == RouterInit => RouterInv
  BY RequestInitially, ServiceInitially DEF RouterInv

\* A step of a request leaves the commands and the processes alone.
LEMMA RequestKeeps ==
  ASSUME RouterInv, RequestNext
  PROVE  RouterInv'
<1>1. UNCHANGED serviceVars
  BY DEF RequestNext, EditConfig, Health, ClientGone, ReadConfig, SetConfig, Upstream, Decide, CallUpstream,
         AuditCall, AuditInner, AuditOuter, Audit, SendAnswer, SendError, SendLast, Send
<1>2. RequestInv'
  BY RequestStep DEF RouterInv
<1> QED BY <1>1, <1>2 DEF RouterInv, RequestInv, ServiceInv, OnlyRouter, serviceVars

\* A step of a command leaves the requests alone.
LEMMA ServiceKeeps ==
  ASSUME RouterInv, ServiceNext
  PROVE  RouterInv'
<1>1. UNCHANGED requestVars
  BY DEF ServiceNext, Boot, Die, StartRouter, Spawn, StartSeen, StartGivenUp, StopRouter, RunForeground
<1>2. ServiceInv'
  BY ServiceStep DEF RouterInv
<1>3. Orderly /\ OneOperator => OnlyRouter'
  BY OnlyRouterStep DEF RouterInv
<1>4. RequestInv'
  BY <1>1, <1>2 DEF RouterInv, RequestInv, ServiceInv, requestVars
<1> QED BY <1>2, <1>3, <1>4 DEF RouterInv, OneOperator

\* What the router's invariant promises.
LEMMA RouterFollows ==
  RouterInv => RouterTypeOK /\ KeyGoesHome /\ AnswerIsAudited /\ StartedIsOurs
<1> SUFFICES ASSUME RouterInv PROVE RouterTypeOK /\ KeyGoesHome /\ AnswerIsAudited /\ StartedIsOurs
  OBVIOUS
<1>1. KeyGoesHome /\ AnswerIsAudited /\ \A t \in Requests : Len(rows[t]) <= 3
  BY RequestsFollow DEF RouterInv
<1>2. pidfile \in 0..MaxPids /\ Len(proc) <= MaxPids
  BY RouterAssumption, SMT DEF RouterInv, ServiceInv
<1>3. StartedIsOurs
  BY DEF RouterInv, OnlyRouter, StartedIsOurs
<1> QED BY <1>1, <1>2, <1>3 DEF RouterInv, RequestInv, RouterTypeOK

-----------------------------------------------------------------------------
(* The routing of a message: PersonaRouting                                *)

\* A set of natural numbers that is not empty has a least one.
LEMMA LeastNumber ==
  ASSUME NEW T \in SUBSET Nat, T # {}
  PROVE  \E x \in T : \A y \in T : x <= y
<1>1. \E x \in T : \A y \in T : ~(<<y, x>> \in OpToRel(<, Nat))
  BY NatLessThanWellFounded, WFMin, Zenon
<1>2. PICK x \in T : \A y \in T : ~(<<y, x>> \in OpToRel(<, Nat))
  BY <1>1
<1>3. \A y \in T : y \in Nat
  OBVIOUS
<1>4. \A y \in T : ~(y < x)
  BY <1>2, <1>3 DEF OpToRel
<1> QED
  BY <1>3, <1>4

\* The list that decides is the first one the message matches.
LEMMA SubmodeIsFirst ==
  ASSUME NEW m
  PROVE  /\ Submode(m) \in Deciding \cup {"default"}
         /\ "crisis" \in m => Submode(m) \in {"meta", "crisis"}
         /\ Submode(m) \in Deciding => Submode(m) \in m
         /\ Submode(m) = "default" => m \cap Deciding = {}
<1> DEFINE hits == {i \in 1..Len(Priority) : Priority[i] \in m}
<1>1. Len(Priority) = 11 /\ Priority[1] = "meta" /\ Priority[2] = "crisis"
  BY SMT DEF Priority
<1>0. "default" \notin Deciding
  BY SMT DEF Deciding, Priority
<1>2. CASE ~Has(m, Deciding)
  <2>1. Submode(m) = "default"
    BY <1>2, Zenon DEF Submode
  <2>2. "crisis" \notin m
    BY <1>1, <1>2, SMT DEF Has, Deciding
  <2> QED
    BY <2>1, <2>2, <1>0, <1>2, Zenon DEF Has
<1>3. CASE Has(m, Deciding)
  <2> DEFINE First(i) == Priority[i] \in m /\ \A j \in 1..(i - 1) : Priority[j] \notin m
  <2>1. hits \in SUBSET Nat /\ hits # {}
    BY <1>1, <1>3, SMT DEF Has, Deciding
  <2>2. PICK x \in hits : \A y \in hits : x <= y
    BY <2>1, LeastNumber, Zenon
  <2>3. x \in 1..Len(Priority) /\ First(x)
    BY <1>1, <2>2, SMT
  <2> DEFINE i == CHOOSE k \in 1..Len(Priority) : First(k)
  <2>4. i \in 1..Len(Priority) /\ First(i)
    BY <2>3, Zenon
  <2>5. Submode(m) = Priority[i]
    BY <1>3, Zenon DEF Submode
  <2> HIDE DEF i
  <2>6. Submode(m) \in Deciding /\ Submode(m) \in m
    BY <2>4, <2>5, Zenon DEF Deciding
  <2>7. "crisis" \in m => i \in {1, 2}
    BY <1>1, <2>4, SMT
  <2> QED
    BY <1>0, <1>1, <2>5, <2>6, <2>7, Zenon
<1> QED
  BY <1>2, <1>3

(***************************************************************************)
(* What the layers make of a message.                                      *)
(***************************************************************************)
Judged == {"mode", "sub", "conf", "system", "task", "close", "goOn", "aftercare", "stop", "crisis",
           "flagged", "held", "exhausted", "released"}

\* A message that matches a crisis list is one, or asks about the system.
Sound(d) ==
    /\ DOMAIN d = Judged
    /\ d.mode \in Modes
    /\ d.stop => d.flagged /\ (d.crisis \/ d.system)
    /\ d.crisis => d.flagged
    /\ d.sub = "intimacy" => d.conf = 78

\* The keyword layer: the first list that decides gives the mode, crisis lists
\* flag the message, and the lists of work ask for work.
LEMMA ClassifiedSound ==
  ASSUME NEW m \in Messages
  PROVE  LET d == Classified[m] IN
         /\ Sound(d)
         /\ d.mode = ModeOf(d.sub) /\ d.sub = Submode(m)
         /\ d.system <=> Has(m, {"meta", "system"})
         /\ d.task <=> Has(m, {"finance", "technical"})
         /\ d.close <=> "close" \in m /\ "negated" \notin m
         /\ d.stop <=> "crisis" \in m
         /\ d.crisis <=> (d.sub = "crisis")
         /\ d.flagged <=> (d.sub \in {"meta", "crisis", "conflict", "sex", "hint"})
         /\ d.sub = "default" => d.conf = DefaultConfidence(m)
         /\ ~d.held /\ ~d.exhausted /\ ~d.released
<1> DEFINE d == Classified[m]
<1>1. d = Classify(m)
  BY Zenon DEF Classified
<1>0. /\ DOMAIN d = Judged
      /\ d.mode = ModeOf(d.sub) /\ d.sub = Submode(m)
      /\ d.conf = IF d.sub = "default" THEN DefaultConfidence(m) ELSE Confidence[d.sub]
      /\ d.held = FALSE /\ d.exhausted = FALSE /\ d.released = FALSE
  BY <1>1, SMT DEF Classify, Judged
<1>a. /\ d.system = Has(m, {"meta", "system"})
      /\ d.task = Has(m, {"finance", "technical"})
      /\ d.close = ("close" \in m /\ "negated" \notin m)
      /\ d.stop = ("crisis" \in m)
      /\ d.crisis = (d.sub = "crisis")
      /\ d.flagged = (d.sub \in {"meta", "crisis", "conflict", "sex", "hint"})
  BY <1>1, SMT DEF Classify
<1> HIDE DEF d
<1>2. /\ DOMAIN d = Judged
      /\ d.mode = ModeOf(d.sub) /\ d.sub = Submode(m)
      /\ d.system <=> Has(m, {"meta", "system"})
      /\ d.task <=> Has(m, {"finance", "technical"})
      /\ d.close <=> "close" \in m /\ "negated" \notin m
      /\ d.stop <=> "crisis" \in m
      /\ d.crisis <=> (d.sub = "crisis")
      /\ d.flagged <=> (d.sub \in {"meta", "crisis", "conflict", "sex", "hint"})
      /\ d.conf = IF d.sub = "default" THEN DefaultConfidence(m) ELSE Confidence[d.sub]
      /\ ~d.held /\ ~d.exhausted /\ ~d.released
  BY <1>0, <1>a, Zenon
<1>3. d.mode \in Modes
  BY <1>2, SMT DEF ModeOf, Modes
<1>4. d.stop => d.flagged /\ (d.crisis \/ d.system)
  <2>1. "meta" \in Deciding
    BY SMT DEF Deciding, Priority
  <2>2. d.stop => d.sub = "crisis" \/ (d.sub = "meta" /\ "meta" \in m)
    <3>1. d.stop => "crisis" \in m
      BY <1>2, SMT
    <3> QED
      <4>1. "crisis" \in m => Submode(m) \in {"meta", "crisis"}
        BY SubmodeIsFirst, Zenon
      <4>2. Submode(m) \in Deciding => Submode(m) \in m
        BY SubmodeIsFirst, Zenon
      <4> QED
        BY <1>2, <2>1, <3>1, <4>1, <4>2, SMT
  <2>3. d.sub = "crisis" => d.crisis
    BY <1>2, SMT
  <2>4. "meta" \in m => d.system
    BY <1>2, SMT DEF Has
  <2>5. d.sub \in {"meta", "crisis"} => d.flagged
    BY <1>2, SMT
  <2> QED
    BY <2>2, <2>3, <2>4, <2>5, SMT
<1>5. d.sub = "intimacy" => d.conf = 78
  BY <1>2, SMT DEF Confidence
<1>6. Sound(d)
  BY <1>2, <1>3, <1>4, <1>5, Zenon DEF Sound
<1> QED
  BY <1>2, <1>6, Zenon DEF d

\* Counting the turns of a held context changes no judgement.
LEMMA AnnotateKeeps ==
  ASSUME NEW d, Sound(d), NEW m, NEW previous, NEW o
  PROVE  LET e == Annotate(d, m, previous, o) IN
         /\ Sound(e)
         /\ e.mode = d.mode /\ e.sub = d.sub /\ e.conf = d.conf /\ e.system = d.system /\ e.task = d.task
         /\ e.close = d.close /\ e.stop = d.stop /\ e.crisis = d.crisis /\ e.flagged = d.flagged
         /\ e.aftercare = d.aftercare /\ e.goOn = d.goOn /\ e.released = d.released
  BY SMT DEF Annotate, Sound, Judged

\* The opinion is heard on the mode only: it does not unsay a boundary, and
\* plain talk alone unsays a request.
LEMMA FuseKeeps ==
  ASSUME NEW d, Sound(d), NEW opinion \in Opinions
  PROVE  LET e == Fuse(d, opinion) IN
         /\ Sound(e)
         /\ e.stop = d.stop
         /\ opinion = "crisis" => e.crisis
         /\ opinion # "talk" => (Asked(e) <=> Asked(d))
         /\ d.crisis => e.crisis
  BY SMT DEF Fuse, OpinionMode, Opinions, Sound, Judged, Modes, Asked

\* The judgement of the keyword and the semantic layer together.
LEMMA DecisionSound ==
  ASSUME NEW m \in Messages, NEW opinion \in Opinions, NEW previous, NEW o
  PROVE  LET d == Decision(m, opinion, previous, o) IN
         /\ Sound(d)
         /\ "crisis" \in m => d.stop
         /\ opinion = "crisis" => d.crisis
         /\ Has(m, {"meta", "system", "finance", "technical"}) /\ opinion # "talk" => Asked(d)
<1> DEFINE c == Classified[m]
           a == Annotate(c, m, previous, o)
           d == Fuse(a, opinion)
<1>1. /\ Sound(c) /\ (c.stop <=> "crisis" \in m)
      /\ (c.system <=> Has(m, {"meta", "system"})) /\ (c.task <=> Has(m, {"finance", "technical"}))
  BY ClassifiedSound, Zenon
<1>2. Has(m, {"meta", "system", "finance", "technical"}) => Asked(c)
  <2>1. Has(m, {"meta", "system", "finance", "technical"})
          => Has(m, {"meta", "system"}) \/ Has(m, {"finance", "technical"})
    BY SMT DEF Has
  <2> QED
    BY <1>1, <2>1, Zenon DEF Asked
<1> HIDE DEF c
<1>3. Sound(a) /\ a.stop = c.stop /\ a.system = c.system /\ a.task = c.task
  BY <1>1, AnnotateKeeps
<1>4. Asked(a) <=> Asked(c)
  BY <1>3, Zenon DEF Asked
<1> HIDE DEF a
<1>5. /\ Sound(d) /\ d.stop = a.stop /\ (opinion = "crisis" => d.crisis)
      /\ opinion # "talk" => (Asked(d) <=> Asked(a))
  BY <1>3, FuseKeeps, Zenon
<1>6. d = Decision(m, opinion, previous, o)
  BY Zenon DEF Decision, a, c
<1> HIDE DEF d
<1> QED
  BY <1>1, <1>2, <1>3, <1>4, <1>5, <1>6, Zenon

\* The router keeps the signals, settles a boundary as daily unless work is
\* asked for, and a request as work.
LEMMA ResolveKeeps ==
  ASSUME NEW d, Sound(d), NEW tier, NEW o
  PROVE  LET e == Resolve(d, Route(d, tier, o), tier) IN
         /\ DOMAIN e = Judged /\ e.mode \in Modes
         /\ e.sub = "intimacy" => e.conf = 78
         /\ e.crisis = d.crisis /\ (Asked(e) <=> Asked(d))
         /\ d.stop \/ d.crisis => e.mode # "sex"
         /\ Asked(d) => e.mode = "work"
         /\ e.mode # "sex" \/ d.mode = "sex"
<1> DEFINE r == Route(d, tier, o)
           e == Resolve(d, r, tier)
<1> SUFFICES /\ DOMAIN e = Judged /\ e.mode \in Modes
             /\ e.sub = "intimacy" => e.conf = 78
             /\ e.crisis = d.crisis /\ (Asked(e) <=> Asked(d))
             /\ d.stop \/ d.crisis => e.mode # "sex"
             /\ Asked(d) => e.mode = "work"
             /\ e.mode # "sex" \/ d.mode = "sex"
  BY Zenon
<1>1. r \in {"boundary", "work", "confirmed", "candidate", "low"}
  BY Zenon DEF Route
<1>2. d.stop \/ d.crisis => r = "boundary"
  BY Zenon DEF Route, Boundary
<1>3. Asked(d) => r \in {"boundary", "work"}
  BY Zenon DEF Route
<1>4. r = "work" => Asked(d)
  BY Zenon DEF Route
<1> HIDE DEF r
<1>5. CASE r = "work"
  <2>1. e = [d EXCEPT !.mode = "work"]
    BY <1>5, Zenon DEF Resolve
  <2> HIDE DEF e
  <2> QED
    BY <2>1, SMT DEF Sound, Asked, Judged, Modes
<1>6. CASE r = "boundary"
  <2>1. CASE Asked(d)
    <3>1. e = [d EXCEPT !.mode = "work"]
      BY <1>6, <2>1 DEF Resolve
    <3> HIDE DEF e
    <3> QED
      BY <3>1, SMT DEF Sound, Asked, Judged, Modes
  <2>2. CASE ~Asked(d)
    <3>1. \E s \in {"crisis", "cooldown"} : e = [d EXCEPT !.mode = "daily", !.sub = s]
      BY <1>6, <2>2 DEF Resolve
    <3> HIDE DEF e
    <3> QED
      BY <2>2, <3>1, SMT DEF Sound, Asked, Judged, Modes
  <2> QED
    BY <2>1, <2>2
<1>7. CASE r \in {"confirmed", "candidate", "low"}
  BY <1>7, <1>2, <1>3, SMT DEF Resolve, Sound, Asked, Judged, Modes
<1> QED
  BY <1>1, <1>5, <1>6, <1>7, Zenon

\* What the four layers agree on before the transition.
LEMMA ResolvedSound ==
  ASSUME NEW m \in Messages, NEW opinion \in Opinions, NEW tier, NEW previous, NEW o
  PROVE  LET d == Resolved(m, opinion, tier, previous, o) IN
         /\ DOMAIN d = Judged /\ d.mode \in Modes
         /\ d.sub = "intimacy" => d.conf = 78
         /\ "crisis" \in m \/ opinion = "crisis" => d.mode # "sex" /\ (d.crisis \/ Asked(d))
         /\ Has(m, {"meta", "system", "finance", "technical"}) /\ opinion # "talk" => Asked(d)
         /\ Asked(d) => d.mode = "work"
<1> DEFINE c == Decision(m, opinion, previous, o)
           d == Resolve(c, Route(c, tier, o), tier)
<1>1. /\ Sound(c)
      /\ "crisis" \in m => c.stop
      /\ opinion = "crisis" => c.crisis
      /\ Has(m, {"meta", "system", "finance", "technical"}) /\ opinion # "talk" => Asked(c)
  BY DecisionSound, Zenon
<1>2. d = Resolved(m, opinion, tier, previous, o)
  BY Zenon DEF Resolved
<1> HIDE DEF c
<1>3. /\ DOMAIN d = Judged /\ d.mode \in Modes
      /\ d.sub = "intimacy" => d.conf = 78
      /\ d.crisis = c.crisis /\ (Asked(d) <=> Asked(c))
      /\ c.stop \/ c.crisis => d.mode # "sex"
      /\ Asked(c) => d.mode = "work"
  BY <1>1, ResolveKeeps
<1>4. c.stop => c.crisis \/ Asked(c)
  BY <1>1, Zenon DEF Sound, Asked
<1> HIDE DEF d
<1> QED
  BY <1>1, <1>2, <1>3, <1>4, Zenon

(***************************************************************************)
(* The transition manager.                                                 *)
(***************************************************************************)
LEMMA LegacyIsMode ==
  ASSUME NEW d, d.mode \in Modes, NEW m, NEW previous \in Modes \cup {"none"}, NEW tier
  PROVE  /\ Legacy(d, m, previous, tier) \in Modes
         /\ d.mode = "work" /\ (d.crisis => Asked(d)) => Legacy(d, m, previous, tier) = "work"
         /\ d.crisis /\ ~(d.mode = "work" /\ Asked(d)) => Legacy(d, m, previous, tier) = "daily"
         /\ previous # "sex" /\ ~Gate(tier) => Legacy(d, m, previous, tier) # "sex"
<1>1. previous # "none" => previous \in Modes
  BY Zenon
<1>2. "daily" \in Modes /\ "work" \in Modes /\ "sex" \in Modes
  BY SMT DEF Modes
<1>3. /\ EnterScene(d, m, previous, tier) \in Modes
      /\ previous # "sex" /\ ~Gate(tier) => EnterScene(d, m, previous, tier) # "sex"
  BY <1>1, <1>2, SMT DEF EnterScene
<1>4. LeaveScene(d, m) \in Modes /\ (d.mode = "work" => LeaveScene(d, m) = "work")
  BY <1>2, SMT DEF LeaveScene
<1>5. LeaveWork(d, m) \in {"daily", "work"}
  BY Zenon DEF LeaveWork
<1> QED
  <2>1. CASE d.crisis /\ ~(d.mode = "work" /\ Asked(d))
    BY <1>2, <2>1 DEF Legacy
  <2>2. CASE ~(d.crisis /\ ~(d.mode = "work" /\ Asked(d))) /\ d.mode = "sex"
    BY <1>2, <1>3, <2>2 DEF Legacy
  <2>3. CASE ~(d.crisis /\ ~(d.mode = "work" /\ Asked(d))) /\ d.mode # "sex"
    BY <1>2, <1>4, <1>5, <2>3 DEF Legacy
  <2> QED
    BY <2>1, <2>2, <2>3

-----------------------------------------------------------------------------
(* The decision table: TransitionTable                                     *)

\* A rule's name, its answer and its place in the order.
Says(rule, id, active, priority) == rule.id = id /\ rule.active = active /\ rule.priority = priority

\* A condition on two modes leaves the rest open.
LEMMA OnFields ==
  ASSUME NEW a, NEW b
  PROVE  /\ DOMAIN On(a, b) = {"from", "to", "force", "target", "gate", "sub"}
         /\ On(a, b).from = a /\ On(a, b).to = b /\ On(a, b).force = Anything
         /\ On(a, b).target = Anything /\ On(a, b).gate = Anything /\ On(a, b).sub = Anything
  BY SMT DEF On

\* A condition is met by what leaves open, or is, each part of the input.
Reads(c, x) ==
    /\ c.from \in {Anything, x.from} /\ c.to \in {Anything, x.to} /\ c.force \in {Anything, x.force}
    /\ c.target \in {Anything, x.target} /\ c.gate \in {Anything, x.gate} /\ c.sub \in {Anything, x.sub}

\* A rule matches an input that its condition reads.
LEMMA Reading ==
  ASSUME NEW rule, NEW c, rule.on = c, NEW x \in TableInputs
  PROVE  Matches(rule, x) <=> Reads(c, x)
<1>1. DOMAIN x = {"from", "to", "force", "target", "gate", "sub"}
  BY SMT DEF TableInputs
<1>2. Matches(rule, x) <=> \A f \in DOMAIN x : c[f] \in {Anything, x[f]}
  BY Zenon DEF Matches
<1>3. Reads(c, x) <=> \A f \in DOMAIN x : c[f] \in {Anything, x[f]}
  BY <1>1, SMT DEF Reads
<1> QED
  BY <1>2, <1>3

\* The table's rules by their place: twelve guards, then ten of work.
LEMMA Places ==
  /\ Len(Rules) = 22
  /\ \A i \in 1..12 : Rules[i] = GuardRules[i]
  /\ \A i \in 13..22 : Rules[i] = WorkRules[i - 12]
<1> DEFINE all == {GuardRules[i] : i \in 1..12} \cup {WorkRules[i] : i \in 1..10}
<1>1. GuardRules = [i \in 1..12 |-> GuardRules[i]] /\ Len(GuardRules) = 12
  BY SMT DEF GuardRules
<1>2. WorkRules = [i \in 1..10 |-> WorkRules[i]] /\ Len(WorkRules) = 10
  BY SMT DEF WorkRules
<1>3. GuardRules \in Seq(all) /\ WorkRules \in Seq(all)
  BY <1>1, <1>2, SMT
<1> HIDE DEF all
<1> QED
  BY <1>1, <1>2, <1>3, ConcatProperties, SMT DEF Rules

\* Each rule of the table: its name, its answer, its priority, and when it
\* matches.
LEMMA RulesSay ==
  ASSUME NEW x \in TableInputs
  PROVE
         /\ Says(Rules[1], "crisis", "daily", 1000) /\ (Matches(Rules[1], x) <=> x.force = "crisis")
         /\ Says(Rules[2], "task", "work", 650) /\ (Matches(Rules[2], x) <=> x.to = "work" /\ x.force = "task")
         /\ Says(Rules[3], "hintAtWork", "work", 900) /\ (Matches(Rules[3], x) <=> x.from = "work" /\ x.to = "sex" /\ x.gate = "pass" /\ x.sub = "hint")
         /\ Says(Rules[4], "hint", "daily", 900) /\ (Matches(Rules[4], x) <=> x.to = "sex" /\ x.sub = "hint")
         /\ Says(Rules[5], "sceneGoesOn", "sex", 900) /\ (Matches(Rules[5], x) <=> x.from = "sex" /\ x.to = "sex" /\ x.target = "scene")
         /\ Says(Rules[6], "enterScene", "sex", 900) /\ (Matches(Rules[6], x) <=> x.to = "sex" /\ x.gate = "pass")
         /\ Says(Rules[7], "blockScene", "daily", 900) /\ (Matches(Rules[7], x) <=> x.to = "sex" /\ x.gate = "fail")
         /\ Says(Rules[8], "start", "nominated", 800) /\ (Matches(Rules[8], x) <=> x.from = "none")
         /\ Says(Rules[9], "sceneToTask", "work", 700) /\ (Matches(Rules[9], x) <=> x.from = "sex" /\ x.force = "task")
         /\ Says(Rules[10], "sceneToWork", "work", 700) /\ (Matches(Rules[10], x) <=> x.from = "sex" /\ x.to = "daily" /\ x.target = "work")
         /\ Says(Rules[11], "sceneCloses", "daily", 700) /\ (Matches(Rules[11], x) <=> x.from = "sex" /\ x.to = "daily" /\ x.force = "close")
         /\ Says(Rules[12], "sceneHolds", "sex", 700) /\ (Matches(Rules[12], x) <=> x.from = "sex" /\ x.to = "daily")
         /\ Says(Rules[13], "holdAction", "work", 600) /\ (Matches(Rules[13], x) <=> x.from = "work" /\ x.to = "daily" /\ x.target = "work")
         /\ Says(Rules[14], "closeness", "daily", 550) /\ (Matches(Rules[14], x) <=> x.from = "work" /\ x.to = "daily" /\ x.sub = "intimacy")
         /\ Says(Rules[15], "holdWork", "work", 540) /\ (Matches(Rules[15], x) <=> x.from = "work" /\ x.to = "daily")
         /\ Says(Rules[16], "toWork", "work", 550) /\ (Matches(Rules[16], x) <=> x.from = "daily" /\ x.to = "work")
         /\ Says(Rules[17], "holdShort", "previous", 500) /\ (Matches(Rules[17], x) <=> x.to = "daily")
         /\ Says(Rules[18], "enterWork", "work", 400) /\ (Matches(Rules[18], x) <=> x.to = "work")
         /\ Says(Rules[19], "machine", "work", 300) /\ (Matches(Rules[19], x) <=> x.from = "work" /\ x.to = "daily")
         /\ Says(Rules[20], "exitWork", "daily", 200) /\ (Matches(Rules[20], x) <=> x.from = "work" /\ x.to = "daily")
         /\ Says(Rules[21], "holdUnsure", "previous", 100) /\ (Matches(Rules[21], x) <=> TRUE)
         /\ Says(Rules[22], "accept", "nominated", 0) /\ (Matches(Rules[22], x) <=> TRUE)
<1>1. Says(Rules[1], "crisis", "daily", 1000) /\ (Matches(Rules[1], x) <=> x.force = "crisis")
  <2> DEFINE c == [On(Anything, Anything) EXCEPT !.force = "crisis"]
  <2>1. Rules[1] = Rule("crisis", c, "daily", 1000)
    BY Places, SMT DEF GuardRules
  <2>2. Reads(c, x) <=> x.force = "crisis"
    BY OnFields, SMT DEF Reads, Anything
  <2> HIDE DEF c
  <2> QED
    BY <2>1, <2>2, Reading, SMT DEF Says, Rule
<1>2. Says(Rules[2], "task", "work", 650) /\ (Matches(Rules[2], x) <=> x.to = "work" /\ x.force = "task")
  <2> DEFINE c == [On(Anything, "work") EXCEPT !.force = "task"]
  <2>1. Rules[2] = Rule("task", c, "work", 650)
    BY Places, SMT DEF GuardRules
  <2>2. Reads(c, x) <=> x.to = "work" /\ x.force = "task"
    BY OnFields, SMT DEF Reads, Anything
  <2> HIDE DEF c
  <2> QED
    BY <2>1, <2>2, Reading, SMT DEF Says, Rule
<1>3. Says(Rules[3], "hintAtWork", "work", 900) /\ (Matches(Rules[3], x) <=> x.from = "work" /\ x.to = "sex" /\ x.gate = "pass" /\ x.sub = "hint")
  <2> DEFINE c == [On("work", "sex") EXCEPT !.sub = "hint", !.gate = "pass"]
  <2>1. Rules[3] = Rule("hintAtWork", c, "work", 900)
    BY Places, SMT DEF GuardRules
  <2>2. Reads(c, x) <=> x.from = "work" /\ x.to = "sex" /\ x.gate = "pass" /\ x.sub = "hint"
    BY OnFields, SMT DEF Reads, Anything
  <2> HIDE DEF c
  <2> QED
    BY <2>1, <2>2, Reading, SMT DEF Says, Rule
<1>4. Says(Rules[4], "hint", "daily", 900) /\ (Matches(Rules[4], x) <=> x.to = "sex" /\ x.sub = "hint")
  <2> DEFINE c == [On(Anything, "sex") EXCEPT !.sub = "hint"]
  <2>1. Rules[4] = Rule("hint", c, "daily", 900)
    BY Places, SMT DEF GuardRules
  <2>2. Reads(c, x) <=> x.to = "sex" /\ x.sub = "hint"
    BY OnFields, SMT DEF Reads, Anything
  <2> HIDE DEF c
  <2> QED
    BY <2>1, <2>2, Reading, SMT DEF Says, Rule
<1>5. Says(Rules[5], "sceneGoesOn", "sex", 900) /\ (Matches(Rules[5], x) <=> x.from = "sex" /\ x.to = "sex" /\ x.target = "scene")
  <2> DEFINE c == [On("sex", "sex") EXCEPT !.target = "scene"]
  <2>1. Rules[5] = Rule("sceneGoesOn", c, "sex", 900)
    BY Places, SMT DEF GuardRules
  <2>2. Reads(c, x) <=> x.from = "sex" /\ x.to = "sex" /\ x.target = "scene"
    BY OnFields, SMT DEF Reads, Anything
  <2> HIDE DEF c
  <2> QED
    BY <2>1, <2>2, Reading, SMT DEF Says, Rule
<1>6. Says(Rules[6], "enterScene", "sex", 900) /\ (Matches(Rules[6], x) <=> x.to = "sex" /\ x.gate = "pass")
  <2> DEFINE c == [On(Anything, "sex") EXCEPT !.gate = "pass"]
  <2>1. Rules[6] = Rule("enterScene", c, "sex", 900)
    BY Places, SMT DEF GuardRules
  <2>2. Reads(c, x) <=> x.to = "sex" /\ x.gate = "pass"
    BY OnFields, SMT DEF Reads, Anything
  <2> HIDE DEF c
  <2> QED
    BY <2>1, <2>2, Reading, SMT DEF Says, Rule
<1>7. Says(Rules[7], "blockScene", "daily", 900) /\ (Matches(Rules[7], x) <=> x.to = "sex" /\ x.gate = "fail")
  <2> DEFINE c == [On(Anything, "sex") EXCEPT !.gate = "fail"]
  <2>1. Rules[7] = Rule("blockScene", c, "daily", 900)
    BY Places, SMT DEF GuardRules
  <2>2. Reads(c, x) <=> x.to = "sex" /\ x.gate = "fail"
    BY OnFields, SMT DEF Reads, Anything
  <2> HIDE DEF c
  <2> QED
    BY <2>1, <2>2, Reading, SMT DEF Says, Rule
<1>8. Says(Rules[8], "start", "nominated", 800) /\ (Matches(Rules[8], x) <=> x.from = "none")
  <2> DEFINE c == On("none", Anything)
  <2>1. Rules[8] = Rule("start", c, "nominated", 800)
    BY Places, SMT DEF GuardRules
  <2>2. Reads(c, x) <=> x.from = "none"
    BY OnFields, SMT DEF Reads, Anything
  <2> HIDE DEF c
  <2> QED
    BY <2>1, <2>2, Reading, SMT DEF Says, Rule
<1>9. Says(Rules[9], "sceneToTask", "work", 700) /\ (Matches(Rules[9], x) <=> x.from = "sex" /\ x.force = "task")
  <2> DEFINE c == [On("sex", Anything) EXCEPT !.force = "task"]
  <2>1. Rules[9] = Rule("sceneToTask", c, "work", 700)
    BY Places, SMT DEF GuardRules
  <2>2. Reads(c, x) <=> x.from = "sex" /\ x.force = "task"
    BY OnFields, SMT DEF Reads, Anything
  <2> HIDE DEF c
  <2> QED
    BY <2>1, <2>2, Reading, SMT DEF Says, Rule
<1>10. Says(Rules[10], "sceneToWork", "work", 700) /\ (Matches(Rules[10], x) <=> x.from = "sex" /\ x.to = "daily" /\ x.target = "work")
  <2> DEFINE c == [On("sex", "daily") EXCEPT !.target = "work"]
  <2>1. Rules[10] = Rule("sceneToWork", c, "work", 700)
    BY Places, SMT DEF GuardRules
  <2>2. Reads(c, x) <=> x.from = "sex" /\ x.to = "daily" /\ x.target = "work"
    BY OnFields, SMT DEF Reads, Anything
  <2> HIDE DEF c
  <2> QED
    BY <2>1, <2>2, Reading, SMT DEF Says, Rule
<1>11. Says(Rules[11], "sceneCloses", "daily", 700) /\ (Matches(Rules[11], x) <=> x.from = "sex" /\ x.to = "daily" /\ x.force = "close")
  <2> DEFINE c == [On("sex", "daily") EXCEPT !.force = "close"]
  <2>1. Rules[11] = Rule("sceneCloses", c, "daily", 700)
    BY Places, SMT DEF GuardRules
  <2>2. Reads(c, x) <=> x.from = "sex" /\ x.to = "daily" /\ x.force = "close"
    BY OnFields, SMT DEF Reads, Anything
  <2> HIDE DEF c
  <2> QED
    BY <2>1, <2>2, Reading, SMT DEF Says, Rule
<1>12. Says(Rules[12], "sceneHolds", "sex", 700) /\ (Matches(Rules[12], x) <=> x.from = "sex" /\ x.to = "daily")
  <2> DEFINE c == On("sex", "daily")
  <2>1. Rules[12] = Rule("sceneHolds", c, "sex", 700)
    BY Places, SMT DEF GuardRules
  <2>2. Reads(c, x) <=> x.from = "sex" /\ x.to = "daily"
    BY OnFields, SMT DEF Reads, Anything
  <2> HIDE DEF c
  <2> QED
    BY <2>1, <2>2, Reading, SMT DEF Says, Rule
<1>13. Says(Rules[13], "holdAction", "work", 600) /\ (Matches(Rules[13], x) <=> x.from = "work" /\ x.to = "daily" /\ x.target = "work")
  <2> DEFINE c == [On("work", "daily") EXCEPT !.target = "work"]
  <2>1. Rules[13] = Rule("holdAction", c, "work", 600)
    BY Places, SMT DEF WorkRules
  <2>2. Reads(c, x) <=> x.from = "work" /\ x.to = "daily" /\ x.target = "work"
    BY OnFields, SMT DEF Reads, Anything
  <2> HIDE DEF c
  <2> QED
    BY <2>1, <2>2, Reading, SMT DEF Says, Rule
<1>14. Says(Rules[14], "closeness", "daily", 550) /\ (Matches(Rules[14], x) <=> x.from = "work" /\ x.to = "daily" /\ x.sub = "intimacy")
  <2> DEFINE c == [On("work", "daily") EXCEPT !.sub = "intimacy"]
  <2>1. Rules[14] = Rule("closeness", c, "daily", 550)
    BY Places, SMT DEF WorkRules
  <2>2. Reads(c, x) <=> x.from = "work" /\ x.to = "daily" /\ x.sub = "intimacy"
    BY OnFields, SMT DEF Reads, Anything
  <2> HIDE DEF c
  <2> QED
    BY <2>1, <2>2, Reading, SMT DEF Says, Rule
<1>15. Says(Rules[15], "holdWork", "work", 540) /\ (Matches(Rules[15], x) <=> x.from = "work" /\ x.to = "daily")
  <2> DEFINE c == On("work", "daily")
  <2>1. Rules[15] = Rule("holdWork", c, "work", 540)
    BY Places, SMT DEF WorkRules
  <2>2. Reads(c, x) <=> x.from = "work" /\ x.to = "daily"
    BY OnFields, SMT DEF Reads, Anything
  <2> HIDE DEF c
  <2> QED
    BY <2>1, <2>2, Reading, SMT DEF Says, Rule
<1>16. Says(Rules[16], "toWork", "work", 550) /\ (Matches(Rules[16], x) <=> x.from = "daily" /\ x.to = "work")
  <2> DEFINE c == On("daily", "work")
  <2>1. Rules[16] = Rule("toWork", c, "work", 550)
    BY Places, SMT DEF WorkRules
  <2>2. Reads(c, x) <=> x.from = "daily" /\ x.to = "work"
    BY OnFields, SMT DEF Reads, Anything
  <2> HIDE DEF c
  <2> QED
    BY <2>1, <2>2, Reading, SMT DEF Says, Rule
<1>17. Says(Rules[17], "holdShort", "previous", 500) /\ (Matches(Rules[17], x) <=> x.to = "daily")
  <2> DEFINE c == On(Anything, "daily")
  <2>1. Rules[17] = Rule("holdShort", c, "previous", 500)
    BY Places, SMT DEF WorkRules
  <2>2. Reads(c, x) <=> x.to = "daily"
    BY OnFields, SMT DEF Reads, Anything
  <2> HIDE DEF c
  <2> QED
    BY <2>1, <2>2, Reading, SMT DEF Says, Rule
<1>18. Says(Rules[18], "enterWork", "work", 400) /\ (Matches(Rules[18], x) <=> x.to = "work")
  <2> DEFINE c == On(Anything, "work")
  <2>1. Rules[18] = Rule("enterWork", c, "work", 400)
    BY Places, SMT DEF WorkRules
  <2>2. Reads(c, x) <=> x.to = "work"
    BY OnFields, SMT DEF Reads, Anything
  <2> HIDE DEF c
  <2> QED
    BY <2>1, <2>2, Reading, SMT DEF Says, Rule
<1>19. Says(Rules[19], "machine", "work", 300) /\ (Matches(Rules[19], x) <=> x.from = "work" /\ x.to = "daily")
  <2> DEFINE c == On("work", "daily")
  <2>1. Rules[19] = Rule("machine", c, "work", 300)
    BY Places, SMT DEF WorkRules
  <2>2. Reads(c, x) <=> x.from = "work" /\ x.to = "daily"
    BY OnFields, SMT DEF Reads, Anything
  <2> HIDE DEF c
  <2> QED
    BY <2>1, <2>2, Reading, SMT DEF Says, Rule
<1>20. Says(Rules[20], "exitWork", "daily", 200) /\ (Matches(Rules[20], x) <=> x.from = "work" /\ x.to = "daily")
  <2> DEFINE c == On("work", "daily")
  <2>1. Rules[20] = Rule("exitWork", c, "daily", 200)
    BY Places, SMT DEF WorkRules
  <2>2. Reads(c, x) <=> x.from = "work" /\ x.to = "daily"
    BY OnFields, SMT DEF Reads, Anything
  <2> HIDE DEF c
  <2> QED
    BY <2>1, <2>2, Reading, SMT DEF Says, Rule
<1>21. Says(Rules[21], "holdUnsure", "previous", 100) /\ (Matches(Rules[21], x) <=> TRUE)
  <2> DEFINE c == On(Anything, Anything)
  <2>1. Rules[21] = Rule("holdUnsure", c, "previous", 100)
    BY Places, SMT DEF WorkRules
  <2>2. Reads(c, x) <=> TRUE
    BY OnFields, SMT DEF Reads, Anything
  <2> HIDE DEF c
  <2> QED
    BY <2>1, <2>2, Reading, SMT DEF Says, Rule
<1>22. Says(Rules[22], "accept", "nominated", 0) /\ (Matches(Rules[22], x) <=> TRUE)
  <2> DEFINE c == On(Anything, Anything)
  <2>1. Rules[22] = Rule("accept", c, "nominated", 0)
    BY Places, SMT DEF WorkRules
  <2>2. Reads(c, x) <=> TRUE
    BY OnFields, SMT DEF Reads, Anything
  <2> HIDE DEF c
  <2> QED
    BY <2>1, <2>2, Reading, SMT DEF Says, Rule
<1> QED
  BY <1>1, <1>2, <1>3, <1>4, <1>5, <1>6, <1>7, <1>8, <1>9, <1>10, <1>11, <1>12, <1>13, <1>14, <1>15, <1>16, <1>17, <1>18, <1>19, <1>20, <1>21, <1>22

\* The stable sort, as one number: the smaller, the further ahead.
Scale == 0..1000
Key(priority, i) == (1000 - priority) * 23 + i

\* The key of a rule is a natural number.
LEMMA KeyIsNatural ==
  ASSUME NEW p \in Scale, NEW i \in 1..22
  PROVE  Key(p, i) \in Nat
  BY SMT DEF Scale, Key

\* A smaller key is a higher priority, or the same and an earlier place.
LEMMA KeyOrders ==
  ASSUME NEW p \in Scale, NEW i \in 1..22, NEW q \in Scale, NEW j \in 1..22, Key(p, i) <= Key(q, j)
  PROVE  p > q \/ (p = q /\ i <= j)
  BY SMT DEF Scale, Key

\* A rule ahead has no lower a priority.
LEMMA AheadIsHigher ==
  ASSUME NEW p \in Scale, NEW i \in 1..22, NEW q \in Scale, NEW j \in 1..22, p > q \/ (p = q /\ i <= j)
  PROVE  p >= q
  BY SMT DEF Scale

\* Every rule has a priority on the scale.
LEMMA PrioritiesBounded == \A i \in 1..22 : Rules[i].priority \in Scale
<1>1. PICK x : x \in TableInputs
  <2>1. [from |-> "none", to |-> "daily", force |-> "none", target |-> "none", gate |-> "none", sub |-> "other"]
          \in TableInputs
    BY SMT DEF TableInputs, Forces, Targets, Gates
  <2> QED
    BY <2>1
<1> QED
  BY <1>1, RulesSay, SMT DEF Says, Scale

\* Among the matching rules there is one ahead of all others.
LEMMA StrongestExists ==
  ASSUME NEW x \in TableInputs
  PROVE  \E i \in 1..22 : /\ Decided[x] = Rules[i] /\ Matches(Rules[i], x)
                          /\ \A j \in 1..22 : Matches(Rules[j], x) => Rules[i].priority >= Rules[j].priority
<1> DEFINE hits == {i \in 1..Len(Rules) : Matches(Rules[i], x)}
           key(i) == Key(Rules[i].priority, i)
           keys == {key(i) : i \in hits}
           best == CHOOSE i \in hits : \A j \in hits : Ahead(i, j)
<1>1. hits \subseteq 1..22 /\ 22 \in hits
  <2>1. Matches(Rules[22], x)
    BY RulesSay
  <2> QED
    BY <2>1, Places
<1>2. \A i \in 1..22 : key(i) \in Nat
  <2> TAKE i \in 1..22
  <2>1. Rules[i].priority \in Scale
    BY PrioritiesBounded
  <2> QED
    BY <2>1, KeyIsNatural, Zenon
<1>3. \A i, j \in 1..22 : key(i) <= key(j) => Ahead(i, j)
  <2> TAKE i, j \in 1..22
  <2>1. Rules[i].priority \in Scale /\ Rules[j].priority \in Scale
    BY PrioritiesBounded
  <2> QED
    BY <2>1, KeyOrders, Zenon DEF Ahead
<1> HIDE DEF key
<1>4. keys \in SUBSET Nat /\ keys # {}
  BY <1>1, <1>2
<1>5. PICK k \in keys : \A l \in keys : k <= l
  BY <1>4, LeastNumber, Zenon
<1>6. PICK i \in hits : \A j \in hits : key(i) <= key(j)
  BY <1>5
<1>7. \E h \in hits : \A j \in hits : Ahead(h, j)
  BY <1>1, <1>3, <1>6
<1>8. best \in hits /\ \A j \in hits : Ahead(best, j)
  BY <1>7, Zenon
<1>9. Decided[x] = Rules[best]
  BY Zenon DEF Decided, Strongest
<1> HIDE DEF best
<1>10. \A j \in hits : Rules[best].priority >= Rules[j].priority
  <2> TAKE j \in hits
  <2>1. Rules[best].priority \in Scale /\ Rules[j].priority \in Scale
    BY <1>1, <1>8, PrioritiesBounded, Zenon
  <2>2. Ahead(best, j)
    BY <1>8
  <2> QED
    BY <1>1, <1>8, <2>1, <2>2, AheadIsHigher, Zenon DEF Ahead
<1> QED
  BY <1>1, <1>8, <1>9, <1>10, Places

\* The rule that decides, by what the input asks.
LEMMA DecidingRule ==
  ASSUME NEW x \in TableInputs
  PROVE  \E i \in 1..22 :
           /\ Decided[x] = Rules[i] /\ Matches(Rules[i], x)
           /\ x.force = "crisis" => i = 1
           /\ x.to = "sex" /\ x.gate # "pass" /\ x.from # "sex" => i \in {1, 4, 7}
           /\ x.force = "task" /\ x.to = "work" => i \in {2, 8, 9}
           /\ x.from = "none" /\ x.to \in {"daily", "work"} => i \in {1, 8}
           /\ x.from = "daily" /\ x.to = "work" => i \in {1, 2, 16}
           /\ x.from = "work" /\ x.to = "daily" => i \in {1, 13, 14, 15}
<1>1. PICK i \in 1..22 : /\ Decided[x] = Rules[i] /\ Matches(Rules[i], x)
                        /\ \A j \in 1..22 : Matches(Rules[j], x) => Rules[i].priority >= Rules[j].priority
  BY StrongestExists
<1>2. /\ x.from \in {"none", "daily", "work", "sex"} /\ x.to \in {"daily", "work", "sex"}
      /\ x.gate \in {"none", "pass", "fail"} /\ (x.to = "sex" <=> x.gate # "none")
  BY SMT DEF TableInputs, Gates
<1>3. x.force = "crisis" => i = 1
  BY <1>1, RulesSay, SMT DEF Says
<1>4. x.to = "sex" /\ x.gate # "pass" /\ x.from # "sex" => i \in {1, 4, 7}
  BY <1>1, <1>2, RulesSay, SMT DEF Says
<1>5. x.force = "task" /\ x.to = "work" => i \in {2, 8, 9}
  BY <1>1, <1>2, RulesSay, SMT DEF Says
<1>6. x.from = "none" /\ x.to \in {"daily", "work"} => i \in {1, 8}
  BY <1>1, <1>2, RulesSay, SMT DEF Says
<1>7. x.from = "daily" /\ x.to = "work" => i \in {1, 2, 16}
  BY <1>1, <1>2, RulesSay, SMT DEF Says
<1>8. x.from = "work" /\ x.to = "daily" => i \in {1, 13, 14, 15}
  BY <1>1, <1>2, RulesSay, SMT DEF Says
<1> QED
  BY <1>1, <1>3, <1>4, <1>5, <1>6, <1>7, <1>8

\* What the table answers with, by the rule that decides.
LEMMA ActiveIs ==
  ASSUME NEW rule, NEW x, NEW tells
  PROVE  /\ rule.active = "nominated" /\ rule.id # "closeness" => ActiveMode(rule, x, tells) = x.to
         /\ rule.active = "previous" /\ rule.id # "closeness"
              => ActiveMode(rule, x, tells) = IF x.from = "none" THEN "daily" ELSE x.from
         /\ rule.active \notin {"nominated", "previous"} /\ rule.id # "closeness"
              => ActiveMode(rule, x, tells) = rule.active
         /\ rule.active = "daily" /\ rule.id = "closeness"
              => ActiveMode(rule, x, tells) = IF tells.conf < 90 THEN "work" ELSE "daily"
<1>1. CASE rule.id # "closeness"
  BY <1>1, SMT DEF ActiveMode
<1>2. CASE rule.id = "closeness"
  BY <1>2, SMT DEF ActiveMode
<1> QED
  BY <1>1, <1>2

\* What the deciding rule makes of an input.
LEMMA TableAnswers ==
  ASSUME NEW x \in TableInputs, NEW tells
  PROVE  LET a == TableAnswer(x, tells) IN
         /\ a \in Modes \cup {Abstains}
         /\ x.force = "crisis" => a = "daily"
         /\ a = "sex" => x.from = "sex" \/ x.gate = "pass"
         /\ x.force = "task" /\ x.to = "work" => a = "work"
         /\ x.force # "crisis" =>
              /\ x.from = "none" /\ x.to \in {"daily", "work"} => a = x.to
              /\ x.from = "daily" /\ x.to = "work" => a \in {"work", Abstains}
              /\ x.from = "work" /\ x.to = "daily" =>
                   a \in {"work", Abstains} \/ (x.sub = "intimacy" /\ ~(tells.conf < 90))
<1> DEFINE a == TableAnswer(x, tells)
           active == ActiveMode(Decided[x], x, tells)
           holds == Holds(Decided[x].id, x, tells)
<1>1. PICK i \in 1..22 :
           /\ Decided[x] = Rules[i] /\ Matches(Rules[i], x)
           /\ x.force = "crisis" => i = 1
           /\ x.to = "sex" /\ x.gate # "pass" /\ x.from # "sex" => i \in {1, 4, 7}
           /\ x.force = "task" /\ x.to = "work" => i \in {2, 8, 9}
           /\ x.from = "none" /\ x.to \in {"daily", "work"} => i \in {1, 8}
           /\ x.from = "daily" /\ x.to = "work" => i \in {1, 2, 16}
           /\ x.from = "work" /\ x.to = "daily" => i \in {1, 13, 14, 15}
  BY DecidingRule
<1>2. /\ x.from \in {"none", "daily", "work", "sex"} /\ x.to \in {"daily", "work", "sex"}
      /\ x.gate \in {"none", "pass", "fail"} /\ (x.to = "sex" <=> x.gate # "none")
  BY SMT DEF TableInputs, Gates
<1>3. a = IF holds THEN active ELSE Abstains
  BY Zenon DEF TableAnswer
<1>4. /\ i \in {1, 4, 7, 11, 20} => active = "daily"
      /\ i \in {2, 3, 9, 10, 13, 15, 16, 18, 19} => active = "work"
      /\ i \in {5, 6, 12} => active = "sex"
      /\ i \in {8, 22} => active = x.to
      /\ i \in {17, 21} => active = IF x.from = "none" THEN "daily" ELSE x.from
      /\ i = 14 => active = IF tells.conf < 90 THEN "work" ELSE "daily"
  BY <1>1, ActiveIs, RulesSay, SMT DEF Says
<1>5. i \notin {13, 16, 17, 18, 21} => holds
  BY <1>1, RulesSay, SMT DEF Says, Holds
<1> HIDE DEF a, active, holds
<1>6. i \in {5, 12} => x.from = "sex"
  BY <1>1, RulesSay
<1>7. i = 6 => x.gate = "pass"
  BY <1>1, RulesSay
<1>8. i = 14 => x.sub = "intimacy"
  BY <1>1, RulesSay
<1>9. i = 1 => x.force = "crisis"
  BY <1>1, RulesSay
<1> SUFFICES /\ a \in Modes \cup {Abstains}
             /\ x.force = "crisis" => a = "daily"
             /\ a = "sex" => x.from = "sex" \/ x.gate = "pass"
             /\ x.force = "task" /\ x.to = "work" => a = "work"
             /\ x.force # "crisis" =>
                  /\ x.from = "none" /\ x.to \in {"daily", "work"} => a = x.to
                  /\ x.from = "daily" /\ x.to = "work" => a \in {"work", Abstains}
                  /\ x.from = "work" /\ x.to = "daily" =>
                       a \in {"work", Abstains} \/ (x.sub = "intimacy" /\ ~(tells.conf < 90))
  BY Zenon DEF a
<1>10. a \in Modes \cup {Abstains}
  BY <1>2, <1>3, <1>4, SMT DEF Modes
<1>11. x.force = "crisis" => a = "daily"
  BY <1>1, <1>3, <1>4, <1>5, SMT
<1>12. a = "sex" => x.from = "sex" \/ x.gate = "pass"
  BY <1>1, <1>2, <1>3, <1>4, <1>6, <1>7, SMT DEF Abstains
<1>13. x.force = "task" /\ x.to = "work" => a = "work"
  BY <1>1, <1>3, <1>4, <1>5, SMT
<1>14. x.force # "crisis" =>
                  /\ x.from = "none" /\ x.to \in {"daily", "work"} => a = x.to
                  /\ x.from = "daily" /\ x.to = "work" => a \in {"work", Abstains}
                  /\ x.from = "work" /\ x.to = "daily" =>
                       a \in {"work", Abstains} \/ (x.sub = "intimacy" /\ ~(tells.conf < 90))
  BY <1>1, <1>3, <1>4, <1>5, <1>8, <1>9, SMT
<1> QED
  BY <1>10, <1>11, <1>12, <1>13, <1>14

\* TableGuards of TransitionTable: true of every input.
LEMMA TableIsGuarded == TableGuards
  BY TableAnswers, Zenon DEF TableGuards

(***************************************************************************)
(* The answer to a message.                                                *)
(***************************************************************************)
LEMMA TableInput ==
  ASSUME NEW d, d.mode \in {"daily", "work"}, NEW m, NEW previous \in Modes \cup {"none"}, NEW tier
  PROVE  [from |-> previous, to |-> d.mode, force |-> ForceEvent(d),
          target |-> ContinuationTarget(d, m), gate |-> GateResult(d, tier),
          sub |-> IF d.sub \in {"hint", "intimacy"} THEN d.sub ELSE "other"] \in TableInputs
<1>1. ForceEvent(d) \in Forces
  BY SMT DEF ForceEvent, Forces
<1>2. ContinuationTarget(d, m) \in Targets
  BY SMT DEF ContinuationTarget, Targets
<1>3. GateResult(d, tier) = "none"
  BY SMT DEF GateResult
<1> QED
  BY <1>1, <1>2, <1>3, SMT DEF TableInputs, Gates, Modes

\* Where the table decides it moves between daily and work only, gives a
\* request what it asks for, and errs only by holding the work context.
LEMMA TableDecision ==
  ASSUME NEW d, d.mode \in Modes, d.sub = "intimacy" => d.conf = 78, Asked(d) => d.mode = "work",
         NEW m, NEW previous \in Modes \cup {"none"}, NEW tier, TableDecides(d, previous)
  PROVE  LET a == Table(d, m, previous, tier) IN
         /\ a \in Modes \cup {Abstains} /\ a # "sex"
         /\ Asked(d) => a = "work"
         /\ ~(previous = "work" /\ a = "work") => a \in {Abstains, d.mode}
         /\ previous = "work" => a \in {Abstains, "work"}
<1> DEFINE x == [from |-> previous, to |-> d.mode, force |-> ForceEvent(d),
                 target |-> ContinuationTarget(d, m), gate |-> GateResult(d, tier),
                 sub |-> IF d.sub \in {"hint", "intimacy"} THEN d.sub ELSE "other"]
           tells == [conf |-> d.conf, short |-> "short" \in m, goesOn |-> Continues(m)]
           a == TableAnswer(x, tells)
<1>1. /\ ~d.crisis
      /\ \/ previous = "daily" /\ d.mode = "work"
         \/ previous = "work" /\ d.mode = "daily"
         \/ previous = "none" /\ d.mode \in {"daily", "work"}
  BY SMT DEF TableDecides, LowRisk
<1>2. x \in TableInputs
  BY <1>1, TableInput
<1>3. /\ x.from = previous /\ x.to = d.mode /\ x.force = ForceEvent(d) /\ x.gate = "none"
      /\ x.sub = "intimacy" => d.sub = "intimacy"
  BY <1>1, SMT DEF GateResult
<1>4. x.force # "crisis" /\ (Asked(d) => x.force = "task")
  BY <1>1, <1>3, SMT DEF ForceEvent
<1>5. tells.conf = d.conf
  BY SMT
<1>6. a = Table(d, m, previous, tier)
  BY Zenon DEF Table
<1> HIDE DEF x, tells
<1>7. /\ a \in Modes \cup {Abstains}
      /\ a = "sex" => x.from = "sex" \/ x.gate = "pass"
      /\ x.force = "task" /\ x.to = "work" => a = "work"
      /\ x.from = "none" /\ x.to \in {"daily", "work"} => a = x.to
      /\ x.from = "daily" /\ x.to = "work" => a \in {"work", Abstains}
      /\ x.from = "work" /\ x.to = "daily" =>
           a \in {"work", Abstains} \/ (x.sub = "intimacy" /\ ~(tells.conf < 90))
  BY <1>2, <1>4, TableAnswers
<1> HIDE DEF a
<1>8. /\ a \in Modes \cup {Abstains} /\ a # "sex"
      /\ Asked(d) => a = "work"
      /\ ~(previous = "work" /\ a = "work") => a \in {Abstains, d.mode}
      /\ previous = "work" => a \in {Abstains, "work"}
  BY <1>1, <1>3, <1>4, <1>5, <1>7, SMT
<1> QED
  BY <1>6, <1>8

-----------------------------------------------------------------------------
(* The answer to every message: PersonaRouting                             *)

\* The answer to a message is a mode: work for one that asks for it, daily for a
\* crisis that does not, and the table's only where the table decides.
LEMMA AnswerIsMode ==
  ASSUME NEW m \in Messages, NEW opinion \in Opinions, NEW tier, NEW previous \in Modes \cup {"none"}, NEW o
  PROVE  LET d == Resolved(m, opinion, tier, previous, o)
             answer == Answer(m, opinion, tier, previous, o)
         IN  /\ answer \in Modes
             /\ Asked(d) => answer = "work"
             /\ d.crisis /\ ~Asked(d) => answer = "daily"
             /\ previous # "sex" /\ ~Gate(tier) => answer # "sex"
             /\ answer = "sex" => d.mode = "sex" \/ previous = "sex"
             /\ answer \in {Table(d, m, previous, tier), Legacy(d, m, previous, tier)}
             /\ ~bounded => answer = Legacy(d, m, previous, tier)
<1> DEFINE d == Resolved(m, opinion, tier, previous, o)
           answer == Answer(m, opinion, tier, previous, o)
           t == Table(d, m, previous, tier)
           l == Legacy(d, m, previous, tier)
<1>1. /\ d.mode \in Modes
      /\ d.sub = "intimacy" => d.conf = 78
      /\ Asked(d) => d.mode = "work"
  BY ResolvedSound
<1>2. answer = IF TableDecides(d, previous) /\ t # Abstains THEN t ELSE l
  BY Zenon DEF Answer, Transition
<1> HIDE DEF answer, d
<1>3. /\ l \in Modes
      /\ d.mode = "work" /\ (d.crisis => Asked(d)) => l = "work"
      /\ d.crisis /\ ~(d.mode = "work" /\ Asked(d)) => l = "daily"
      /\ previous # "sex" /\ ~Gate(tier) => l # "sex"
  BY <1>1, LegacyIsMode
<1>4. TableDecides(d, previous) =>
        /\ t \in Modes \cup {Abstains} /\ t # "sex"
        /\ Asked(d) => t = "work"
        /\ ~d.crisis
  BY <1>1, TableDecision DEF TableDecides
<1>5. d.mode # "sex" /\ previous # "sex" => l # "sex"
  BY SMT DEF Legacy, LeaveWork
<1>6. ~bounded => ~TableDecides(d, previous)
  BY DEF TableDecides
<1> HIDE DEF t, l
<1>7. /\ answer \in Modes
      /\ Asked(d) => answer = "work"
      /\ d.crisis /\ ~Asked(d) => answer = "daily"
      /\ previous # "sex" /\ ~Gate(tier) => answer # "sex"
      /\ answer = "sex" => d.mode = "sex" \/ previous = "sex"
      /\ answer \in {t, l}
      /\ ~bounded => answer = l
  BY <1>1, <1>2, <1>3, <1>4, <1>5, <1>6, SMT
<1> QED
  BY <1>7, Zenon DEF d, answer, t, l

\* SceneIsGuarded: a boundary leads to work or to daily, and without the gate
\* neither the manager nor the table enters a scene.
LEMMA SceneGuarded == RouteTypeOK => SceneIsGuarded
<1> SUFFICES ASSUME RouteTypeOK,
                    NEW m \in Messages, NEW opinion \in Opinions, NEW tier \in Tiers,
                    "crisis" \in m \/ opinion = "crisis" \/ (mode # "sex" /\ ~Gate(tier))
             PROVE  Answer(m, opinion, tier, mode, orch) # "sex"
  BY Zenon DEF SceneIsGuarded
<1> DEFINE d == Resolved(m, opinion, tier, mode, orch)
           answer == Answer(m, opinion, tier, mode, orch)
<1>1. mode \in Modes \cup {"none"}
  BY DEF RouteTypeOK
<1>2. "crisis" \in m \/ opinion = "crisis" => d.crisis \/ Asked(d)
  BY ResolvedSound
<1>3. /\ Asked(d) => answer = "work"
      /\ d.crisis /\ ~Asked(d) => answer = "daily"
      /\ mode # "sex" /\ ~Gate(tier) => answer # "sex"
  BY <1>1, AnswerIsMode
<1> QED
  BY <1>2, <1>3

\* WorkRequestWins: no layer unsays a request, and the router makes it work.
LEMMA RequestWins == RouteTypeOK => WorkRequestWins
<1> SUFFICES ASSUME RouteTypeOK,
                    NEW m \in Messages, NEW opinion \in Opinions \ {"talk", "daily"}, NEW tier \in Tiers,
                    Has(m, {"meta", "system", "finance", "technical"})
             PROVE  Answer(m, opinion, tier, mode, orch) = "work"
  BY Zenon DEF WorkRequestWins
<1>1. mode \in Modes \cup {"none"}
  BY DEF RouteTypeOK
<1>2. Asked(Resolved(m, opinion, tier, mode, orch))
  BY ResolvedSound
<1> QED
  BY <1>1, <1>2, AnswerIsMode

\* TableOnlyHolds: where they differ the table keeps the work context.
LEMMA OnlyHolds == RouteTypeOK => TableOnlyHolds
<1> SUFFICES ASSUME RouteTypeOK,
                    NEW m \in Messages, NEW opinion \in Opinions, NEW tier \in Tiers,
                    TableDecides(Resolved(m, opinion, tier, mode, orch), mode),
                    ~(mode = "work" /\ Table(Resolved(m, opinion, tier, mode, orch), m, mode, tier) = "work")
             PROVE  Table(Resolved(m, opinion, tier, mode, orch), m, mode, tier)
                      \in {Abstains, Legacy(Resolved(m, opinion, tier, mode, orch), m, mode, tier)}
  BY Zenon DEF TableOnlyHolds
<1> DEFINE d == Resolved(m, opinion, tier, mode, orch)
           t == Table(d, m, mode, tier)
           l == Legacy(d, m, mode, tier)
<1>1. mode \in Modes \cup {"none"}
  BY DEF RouteTypeOK
<1>2. /\ d.mode \in Modes
      /\ d.sub = "intimacy" => d.conf = 78
      /\ Asked(d) => d.mode = "work"
  BY ResolvedSound
<1> HIDE DEF d
<1>3. /\ t \in {Abstains, d.mode}
      /\ mode = "work" => t \in {Abstains, "work"}
  BY <1>1, <1>2, TableDecision DEF d
<1>4. mode # "work" => l = d.mode
  BY <1>2, SMT DEF Legacy, TableDecides, LowRisk, d
<1> QED
  BY <1>3, <1>4 DEF d

\* What a work context is held for is counted: the vague messages in a row are
\* never more than the holds, which are bounded.
RouteInv ==
    /\ RouteTypeOK
    /\ ~bounded /\ mode = "work" => vague <= orch.holds /\ vague <= 2

\* A message of TurnProvider's handful is a message.
LEMMA ShortAreMessages == Short \subseteq Messages
<1>1. \A a, b \in Lists : {a, b} = {a, b, b}
  OBVIOUS
<1> QED
  BY <1>1 DEF Short, Messages

\* The memory stays one, and counts a message it holds.
LEMMA RememberOK ==
  ASSUME NEW m, NEW opinion, NEW previous, NEW answer \in Modes,
         NEW o \in [turns : 0..2, last : Modes \cup {"none"}, holds : 0..HoldLimit]
  PROVE  /\ Remember(m, opinion, previous, o, answer) \in [turns : 0..2, last : Modes \cup {"none"}, holds : 0..HoldLimit]
         /\ Decision(m, opinion, previous, o).held /\ o.holds < HoldLimit
              => Remember(m, opinion, previous, o, answer).holds = o.holds + 1
<1>1. o.turns \in 0..2 /\ o.holds \in 0..2 /\ HoldLimit = 2
  BY SMT DEF HoldLimit
<1>2. Remember(m, opinion, previous, o, answer).turns \in 0..2
  BY <1>1, SMT DEF Remember
<1>3. Remember(m, opinion, previous, o, answer).holds \in 0..HoldLimit
  BY <1>1, SMT DEF Remember
<1>4. Decision(m, opinion, previous, o).held /\ o.holds < HoldLimit
        => Remember(m, opinion, previous, o, answer).holds = o.holds + 1
  BY <1>1, SMT DEF Remember
<1>5. Remember(m, opinion, previous, o, answer).last = answer
  BY SMT DEF Remember
<1>6. \E t, l, h : Remember(m, opinion, previous, o, answer) = [turns |-> t, last |-> l, holds |-> h]
  BY Zenon DEF Remember
<1> QED
  BY <1>2, <1>3, <1>4, <1>5, <1>6, SMT

\* A message that says nothing is held, and counted, or lets go of the work.
LEMMA VagueIsCounted ==
  ASSUME NEW m \in Messages, m \subseteq {"machine", "continue", "negated"}, NEW tier,
         NEW o \in [turns : 0..2, last : Modes \cup {"none"}, holds : 0..HoldLimit]
  PROVE  LET d == Resolved(m, "off", tier, "work", o) IN
         \/ Decision(m, "off", "work", o).held /\ o.holds < HoldLimit
         \/ Legacy(d, m, "work", tier) = "daily"
<1> DEFINE c == Classified[m]
           a == Annotate(c, m, "work", o)
           r == Route(a, tier, o)
           d == Resolve(a, r, tier)
<1>1. /\ "close" \notin m /\ "short" \notin m /\ ~Continues(m) /\ ~Has(m, {"reference", "question"})
      /\ "reference" \notin m /\ "question" \notin m /\ "crisis" \notin m
      /\ ~Has(m, {"meta", "system"}) /\ ~Has(m, {"finance", "technical"})
  BY SMT DEF Has, Continues
<1>2. Submode(m) = "default"
  <2>1. ~Has(m, Deciding)
    BY SMT DEF Has, Deciding, Priority
  <2> QED
    BY <2>1, Zenon DEF Submode
<1>3. /\ Sound(c) /\ c.mode = ModeOf(c.sub) /\ c.sub = "default"
      /\ ~c.system /\ ~c.task /\ ~c.close /\ ~c.stop
      /\ ~c.crisis
      /\ c.conf = DefaultConfidence(m)
      /\ ~c.held /\ ~c.exhausted /\ ~c.released
  <2>1. /\ Sound(c) /\ c.mode = ModeOf(c.sub) /\ c.sub = "default"
        /\ c.sub = "default" => c.conf = DefaultConfidence(m)
        /\ ~c.held /\ ~c.exhausted /\ ~c.released
    BY <1>2, ClassifiedSound
  <2>2. ~c.system /\ ~c.task /\ ~c.close /\ ~c.stop
    BY <1>1, ClassifiedSound
  <2>3. ~c.crisis
    BY <2>1, ClassifiedSound
  <2> QED
    BY <2>1, <2>2, <2>3
<1>4. c.mode = "daily" /\ c.conf < AntiFlap
  BY <1>1, <1>3, SMT DEF ModeOf, DefaultConfidence, AntiFlap
<1> HIDE DEF c
<1>5. CASE o.holds < HoldLimit
  <2>1. a = [c EXCEPT !.held = TRUE]
    BY <1>1, <1>3, <1>5 DEF Annotate
  <2>2. a.held
    BY <1>3, <2>1, SMT DEF Sound, Judged
  <2>3. Decision(m, "off", "work", o) = a
    BY SMT DEF Decision, Fuse, c
  <2> QED
    BY <1>5, <2>2, <2>3, Zenon
<1>6. CASE ~(o.holds < HoldLimit)
  <2>1. a = [c EXCEPT !.exhausted = TRUE]
    BY <1>1, <1>3, <1>6 DEF Annotate
  <2> HIDE DEF a
  <2>2. /\ a.mode = "daily" /\ a.exhausted /\ a.conf < AntiFlap /\ ~a.crisis
        /\ ~a.stop /\ ~a.close /\ ~a.system /\ ~a.task
    BY <1>3, <1>4, <2>1, SMT DEF Sound, Judged
  <2>3. r \notin {"boundary", "work"}
    BY <2>2, Zenon DEF Route, Boundary, Asked
  <2> HIDE DEF r
  <2>4. d = a
    BY <2>2, <2>3, SMT DEF Resolve
  <2>5. Legacy(a, m, "work", tier) = "daily"
    BY <1>1, <2>2, SMT DEF Legacy, LeaveWork
  <2>6. d = Resolved(m, "off", tier, "work", o)
    BY SMT DEF Resolved, Decision, Fuse, c, a, r
  <2> QED
    BY <2>4, <2>5, <2>6, Zenon
<1> QED
  BY <1>5, <1>6

\* The state machine starts with an empty memory.
LEMMA RouteInitially == RouteInit => RouteInv
  BY SMT DEF RouteInit, RouteInv, RouteTypeOK, NewOrch, Modes, HoldLimit

\* Every message keeps the invariant.
LEMMA RouteStep ==
  ASSUME RouteInv, [RouteNext]_routeVars
  PROVE  RouteInv'
<1> USE DEF RouteInv, RouteTypeOK
<1>1. ASSUME NEW m \in Short, NEW opinion \in Opinions, NEW tier \in Tiers, Turn(m, opinion, tier)
      PROVE  RouteInv'
  <2> DEFINE answer == Answer(m, opinion, tier, mode, orch)
             empty == mode = "work" /\ m \subseteq {"machine", "continue", "negated"} /\ opinion = "off"
  <2>0. m \in Messages
    BY ShortAreMessages
  <2>1. /\ mode' = answer /\ orch' = Remember(m, opinion, mode, orch, answer) /\ bounded' = bounded
        /\ vague' = IF empty THEN IF vague < 3 THEN vague + 1 ELSE vague ELSE 0
    BY <1>1, Zenon DEF Turn
  <2>2. answer \in Modes /\ (~bounded => answer = Legacy(Resolved(m, opinion, tier, mode, orch), m, mode, tier))
    BY <2>0, AnswerIsMode
  <2> HIDE DEF answer
  <2>3. /\ orch' \in [turns : 0..2, last : Modes \cup {"none"}, holds : 0..HoldLimit]
        /\ Decision(m, opinion, mode, orch).held /\ orch.holds < HoldLimit => orch'.holds = orch.holds + 1
    BY <2>1, <2>2, RememberOK
  <2>4. orch.holds \in 0..2 /\ orch'.holds \in 0..2 /\ vague \in 0..3
    BY <2>3, SMT DEF HoldLimit
  <2>5. RouteTypeOK'
    <3>1. bounded' \in BOOLEAN /\ mode' \in Modes \cup {"none"}
      BY <2>1, <2>2
    <3>2. vague' \in 0..3
      BY <2>1, <2>4, SMT
    <3> QED
      BY <2>3, <3>1, <3>2
  <2>6. ~bounded /\ answer = "work" /\ empty => Decision(m, opinion, mode, orch).held /\ orch.holds < HoldLimit
    BY <2>0, <2>2, VagueIsCounted, Zenon
  <2>7. ~bounded' /\ mode' = "work" => vague' <= orch'.holds /\ vague' <= 2
    BY <2>1, <2>3, <2>4, <2>6, SMT
  <2> QED
    BY <2>5, <2>7
<1>2. ASSUME NEW v \in Modes \cup {"none"}, OtherSession(v)
      PROVE  RouteInv'
  BY <1>2, SMT DEF OtherSession, HoldLimit
<1>3. CASE UNCHANGED routeVars
  BY <1>3, Zenon DEF routeVars
<1> QED
  BY <1>1, <1>2, <1>3, Zenon DEF RouteNext

\* What the invariant of the routing promises.
LEMMA RouteFollows ==
  RouteInv => SceneIsGuarded /\ WorkRequestWins /\ AmbiguityExpires /\ TableGuards /\ TableOnlyHolds
<1> SUFFICES ASSUME RouteInv
             PROVE  SceneIsGuarded /\ WorkRequestWins /\ AmbiguityExpires /\ TableGuards /\ TableOnlyHolds
  OBVIOUS
<1>1. RouteTypeOK
  BY DEF RouteInv
<1>2. AmbiguityExpires
  BY SMT DEF RouteInv, RouteTypeOK, AmbiguityExpires
<1> QED
  BY <1>1, <1>2, SceneGuarded, RequestWins, OnlyHolds, TableIsGuarded

-----------------------------------------------------------------------------
(* The turns of the provider: TurnProvider                                 *)

\* The modes remembered for sessions.
Entry == [session : Sessions, mode : Modes]

\* A session is remembered once.
Once(ms) == \A i, j \in 1..Len(ms) : ms[i].session = ms[j].session => i = j

\* A sequence without its k-th element.
LEMMA RemoveAtIs ==
  ASSUME NEW S, NEW ms \in Seq(S), NEW k \in 1..Len(ms)
  PROVE  /\ RemoveAt(ms, k) \in Seq(S) /\ Len(RemoveAt(ms, k)) = Len(ms) - 1
         /\ \A i \in 1..(Len(ms) - 1) : RemoveAt(ms, k)[i] = IF i < k THEN ms[i] ELSE ms[i + 1]
<1> DEFINE a == SubSeq(ms, 1, k - 1)
           b == SubSeq(ms, k + 1, Len(ms))
<1>1. a \in Seq(S) /\ Len(a) = k - 1 /\ \A i \in 1..(k - 1) : a[i] = ms[i]
  BY SMT
<1>2. b \in Seq(S) /\ Len(b) = Len(ms) - k /\ \A i \in 1..(Len(ms) - k) : b[i] = ms[k + i]
  BY SMT
<1>3. RemoveAt(ms, k) = a \o b
  BY DEF RemoveAt
<1> HIDE DEF a, b
<1>4. /\ a \o b \in Seq(S) /\ Len(a \o b) = Len(ms) - 1
      /\ \A i \in 1..(Len(ms) - 1) : (a \o b)[i] = IF i <= Len(a) THEN a[i] ELSE b[i - Len(a)]
  <2>1. /\ a \o b \in Seq(S) /\ Len(a \o b) = Len(a) + Len(b)
        /\ \A i \in 1..(Len(a) + Len(b)) : (a \o b)[i] = IF i <= Len(a) THEN a[i] ELSE b[i - Len(a)]
    BY <1>1, <1>2, ConcatProperties, Zenon
  <2>2. Len(a) + Len(b) = Len(ms) - 1
    BY <1>1, <1>2, SMT
  <2> QED
    BY <2>1, <2>2, SMT
<1>5. ASSUME NEW i \in 1..(Len(ms) - 1)
      PROVE  (a \o b)[i] = IF i < k THEN ms[i] ELSE ms[i + 1]
  <2>1. CASE i < k
    BY <1>1, <1>4, <2>1, SMT
  <2>2. CASE ~(i < k)
    <3>1. ~(i <= Len(a)) /\ i - Len(a) \in 1..(Len(ms) - k) /\ k + (i - Len(a)) = i + 1
      BY <1>1, <2>2, SMT
    <3> QED
      BY <1>2, <1>4, <2>2, <3>1
  <2> QED
    BY <2>1, <2>2
<1> QED
  BY <1>3, <1>4, <1>5, Zenon

\* The entry of a session is taken out, and no other.
LEMMA WithoutIs ==
  ASSUME NEW ms \in Seq(Entry), Once(ms), NEW s
  PROVE  LET w == Without(ms, s) IN
         /\ w \in Seq(Entry) /\ Once(w) /\ Len(w) <= Len(ms)
         /\ \A i \in 1..Len(w) : w[i].session # s /\ \E j \in 1..Len(ms) : w[i] = ms[j]
<1>1. CASE ~\E i \in 1..Len(ms) : ms[i].session = s
  BY <1>1 DEF Without
<1>2. CASE \E i \in 1..Len(ms) : ms[i].session = s
  <2> DEFINE k == CHOOSE i \in 1..Len(ms) : ms[i].session = s
             w == RemoveAt(ms, k)
  <2>1. k \in 1..Len(ms) /\ ms[k].session = s
    BY <1>2
  <2>2. Without(ms, s) = w
    BY <1>2 DEF Without
  <2> HIDE DEF k
  <2>3. /\ w \in Seq(Entry) /\ Len(w) = Len(ms) - 1
        /\ \A i \in 1..(Len(ms) - 1) : w[i] = IF i < k THEN ms[i] ELSE ms[i + 1]
    BY <2>1, RemoveAtIs
  <2> HIDE DEF w
  <2>4. \A i \in 1..Len(w) : w[i].session # s
    BY <2>1, <2>3, SMT DEF Once
  <2>5. \A i \in 1..Len(w) : \E j \in 1..Len(ms) : w[i] = ms[j]
    BY <2>1, <2>3, SMT
  <2>6. Once(w)
    BY <2>1, <2>3, SMT DEF Once
  <2> QED
    BY <2>2, <2>3, <2>4, <2>5, <2>6
<1> QED
  BY <1>1, <1>2

\* A mode is stored for its session, in place of what was, or of the oldest.
LEMMA StoredIs ==
  ASSUME NEW ms \in Seq(Entry), Once(ms), Len(ms) <= MaxModes, NEW s \in Sessions, NEW v \in Modes
  PROVE  LET st == Stored(ms, s, v) IN
         /\ st \in Seq(Entry) /\ Once(st) /\ Len(st) <= MaxModes
         /\ \A i \in 1..Len(st) : \/ st[i] = [session |-> s, mode |-> v]
                                  \/ st[i].session # s /\ \E j \in 1..Len(ms) : st[i] = ms[j]
<1> DEFINE w == Without(ms, s)
           e == [session |-> s, mode |-> v]
           longer == Append(w, e)
           st == Stored(ms, s, v)
<1>1. /\ w \in Seq(Entry) /\ Once(w) /\ Len(w) <= Len(ms)
      /\ \A i \in 1..Len(w) : w[i].session # s /\ \E j \in 1..Len(ms) : w[i] = ms[j]
  BY WithoutIs
<1>2. e \in Entry /\ e.session = s
  BY DEF Entry
<1>3. st = IF Len(longer) > MaxModes THEN Tail(longer) ELSE longer
  BY DEF Stored
<1> HIDE DEF w, e
<1>4. /\ longer \in Seq(Entry) /\ Len(longer) = Len(w) + 1
      /\ \A i \in 1..Len(w) : longer[i] = w[i]
      /\ longer[Len(w) + 1] = e
  BY <1>1, <1>2, SMT
<1> HIDE DEF longer
<1>5. Once(longer)
  BY <1>1, <1>2, <1>4, SMT DEF Once
<1>6. \A i \in 1..Len(longer) : \/ longer[i] = e
                                \/ longer[i].session # s /\ \E j \in 1..Len(ms) : longer[i] = ms[j]
  BY <1>1, <1>4, SMT
<1>7. CASE Len(longer) > MaxModes
  <2>1. /\ st \in Seq(Entry) /\ Len(st) = Len(longer) - 1
        /\ \A i \in 1..Len(st) : st[i] = longer[i + 1]
    BY <1>3, <1>4, <1>7, SMT
  <2> HIDE DEF st
  <2>2. Once(st)
    BY <1>4, <1>5, <2>1, SMT DEF Once
  <2>3. Len(st) <= MaxModes
    BY <1>1, <1>4, <2>1, ProvAssumption, SMT
  <2>4. \A i \in 1..Len(st) : \/ st[i] = e
                              \/ st[i].session # s /\ \E j \in 1..Len(ms) : st[i] = ms[j]
    BY <1>4, <1>6, <2>1, SMTT(30)
  <2> QED
    BY <2>1, <2>2, <2>3, <2>4 DEF st, e
<1>8. CASE ~(Len(longer) > MaxModes)
  BY <1>1, <1>3, <1>4, <1>5, <1>6, <1>8, ProvAssumption DEF e
<1> QED
  BY <1>7, <1>8

\* A mode found for a session is the one of an entry of it.
LEMMA ModeInIs ==
  ASSUME NEW ms \in Seq(Entry), NEW s
  PROVE  \/ ModeIn(ms, s) = "none"
         \/ \E i \in 1..Len(ms) : ms[i].session = s /\ ModeIn(ms, s) = ms[i].mode
  BY Zenon DEF ModeIn

Fields == {"key", "context", "memory", "capture", "captured", "answered"}

\* The fields belong to the turn they name, and a turn whose key is set is done.
FieldsInv ==
    /\ turn \in [n : 0..MaxTurns, blank : BOOLEAN, started : BOOLEAN, over : BOOLEAN]
    /\ fields \in [Fields -> 0..MaxTurns]
    /\ turn.over => turn.started
    /\ turn.started => turn.n > 0 /\ fields.context \in {0, turn.n}
    /\ fields.key <= turn.n
    /\ turn.n > 0 /\ fields.key = turn.n => turn.started
    /\ fields.answered \in {0, turn.n}

\* The emotion is updated once for a turn, and again only for a failure.
FeltInv ==
    /\ failures \in 0..MaxFailures
    /\ felt \in [1..MaxTurns -> Nat]
    /\ \A n \in 1..MaxTurns :
         /\ felt[n] <= 1 + failures
         /\ n > turn.n => felt[n] = 0
         /\ n = turn.n /\ ~turn.over /\ fields.key # n => felt[n] <= failures

\* What is remembered for a session is what its own turns have led to.
ModesInv ==
    /\ session \in Sessions
    /\ own \in [Sessions -> Modes \cup {"none"}]
    /\ modes \in Seq(Entry) /\ Len(modes) <= MaxModes /\ Once(modes)
    /\ \A i \in 1..Len(modes) : modes[i].mode = own[modes[i].session]
    /\ mode \in {"none", own[session]}

\* The turns are played without the table.
ProvInv == RouteTypeOK /\ ~bounded /\ FieldsInv /\ FeltInv /\ ModesInv

\* No session has had a turn at first.
LEMMA ProvInitially == ProvInit /\ ~bounded => ProvInv
<1> SUFFICES ASSUME ProvInit, ~bounded
             PROVE  ProvInv
  OBVIOUS
<1>1. RouteTypeOK
  BY RouteInitially DEF ProvInit, RouteInv
<1>2. FieldsInv
  BY ProvAssumption, SMT DEF ProvInit, FieldsInv, Empty, Fields
<1>3. FeltInv
  BY ProvAssumption, SMT DEF ProvInit, FeltInv
<1>4. ModesInv
  BY ProvAssumption, SMT DEF ProvInit, RouteInit, ModesInv, Once
<1> QED
  BY <1>1, <1>2, <1>3, <1>4 DEF ProvInv

\* A hook that leaves the modes and what a turn felt alone.
LEMMA OthersKeep ==
  ASSUME ProvInv
  PROVE  /\ UNCHANGED <<session, modes, own, mode>> => ModesInv'
         /\ UNCHANGED routeVars => RouteTypeOK' /\ bounded' = bounded /\ mode' = mode
<1>1. UNCHANGED <<session, modes, own, mode>> => ModesInv'
  BY Zenon DEF ProvInv, ModesInv, Once
<1>2. UNCHANGED routeVars => RouteTypeOK' /\ bounded' = bounded /\ mode' = mode
  BY Zenon DEF ProvInv, RouteTypeOK, routeVars
<1> QED
  BY <1>1, <1>2

\* A turn that reaches the state machine gets a mode from it.
LEMMA AdvanceOK ==
  ASSUME ProvInv, NEW m \in Spoken, NEW tier \in Tiers, Advance(m, tier)
  PROVE  /\ Answer(m, "off", tier, mode, orch) \in Modes
         /\ ~bounded' /\ (mode' \in Modes \cup {"none"} => RouteTypeOK')
<1>1. m \in Messages /\ "off" \in Opinions
  BY ProvAssumption DEF Opinions
<1>2. /\ ~bounded /\ bounded \in BOOLEAN /\ mode \in Modes \cup {"none"} /\ vague \in 0..3
      /\ orch \in [turns : 0..2, last : Modes \cup {"none"}, holds : 0..HoldLimit]
  BY Zenon DEF ProvInv, RouteTypeOK
<1> DEFINE answer == Answer(m, "off", tier, mode, orch)
<1>3. answer \in Modes
  BY <1>1, <1>2, AnswerIsMode
<1>4. bounded' = bounded /\ vague' = vague /\ orch' = Remember(m, "off", mode, orch, answer)
  BY Zenon DEF Advance
<1> HIDE DEF answer
<1>5. orch' \in [turns : 0..2, last : Modes \cup {"none"}, holds : 0..HoldLimit]
  BY <1>2, <1>3, <1>4, RememberOK
<1>6. mode' \in Modes \cup {"none"} => RouteTypeOK'
  BY <1>2, <1>4, <1>5 DEF RouteTypeOK
<1> QED
  BY <1>2, <1>3, <1>4, <1>6 DEF answer

\* A turn of the session is remembered for it.
LEMMA StoreKeeps ==
  ASSUME ModesInv, NEW v \in Modes, session' = session, mode' = v,
         modes' = Stored(modes, session, v), own' = [own EXCEPT ![session] = v]
  PROVE  ModesInv'
<1>1. /\ session \in Sessions /\ own \in [Sessions -> Modes \cup {"none"}]
      /\ modes \in Seq(Entry) /\ Len(modes) <= MaxModes /\ Once(modes)
      /\ \A i \in 1..Len(modes) : modes[i].mode = own[modes[i].session]
  BY DEF ModesInv
<1>2. /\ modes' \in Seq(Entry) /\ Once(modes') /\ Len(modes') <= MaxModes
      /\ \A i \in 1..Len(modes') : \/ modes'[i] = [session |-> session, mode |-> v]
                                   \/ modes'[i].session # session /\ \E j \in 1..Len(modes) : modes'[i] = modes[j]
  BY <1>1, StoredIs
<1>3. own' \in [Sessions -> Modes \cup {"none"}] /\ own'[session] = v
  BY <1>1
<1>4. ASSUME NEW i \in 1..Len(modes')
      PROVE  modes'[i].mode = own'[modes'[i].session]
  <2>1. CASE modes'[i] = [session |-> session, mode |-> v]
    BY <1>3, <2>1, SMT
  <2>2. CASE modes'[i].session # session /\ \E j \in 1..Len(modes) : modes'[i] = modes[j]
    <3>1. PICK j \in 1..Len(modes) : modes'[i] = modes[j]
      BY <2>2
    <3>2. modes[j].session \in Sessions /\ modes[j].mode = own[modes[j].session]
      <4>1. modes[j] \in Entry
        BY <1>1
      <4> QED
        BY <1>1, <4>1 DEF Entry
    <3> QED
      BY <1>1, <2>2, <3>1, <3>2, SMT
  <2> QED
    BY <1>2, <2>1, <2>2
<1> QED
  BY <1>1, <1>2, <1>3, <1>4 DEF ModesInv, Once

\* A switch binds the session to its own mode, or to the one it continues.
LEMMA SwitchKeeps ==
  ASSUME ModesInv, NEW s \in Sessions, NEW parent, NEW reset \in BOOLEAN, Switch(s, parent, reset)
  PROVE  ModesInv' /\ mode' \in Modes \cup {"none"}
<1> DEFINE inherited == IF parent = NoSession THEN "none" ELSE ModeIn(modes, parent)
           kept == IF reset THEN Without(modes, s) ELSE modes
<1>1. /\ own \in [Sessions -> Modes \cup {"none"}]
      /\ modes \in Seq(Entry) /\ Len(modes) <= MaxModes /\ Once(modes)
      /\ \A i \in 1..Len(modes) : modes[i].mode = own[modes[i].session]
  BY DEF ModesInv
<1>2. /\ session' = s /\ mode' = ModeIn(modes', s)
      /\ modes' = IF inherited = "none" THEN kept ELSE Stored(kept, s, inherited)
      /\ own' = [own EXCEPT ![s] = IF inherited # "none" THEN inherited ELSE IF reset THEN "none" ELSE @]
  BY Zenon DEF Switch
<1>3. inherited \in Modes \cup {"none"}
  <2>1. \A i \in 1..Len(modes) : modes[i].mode \in Modes
    <3>1. \A i \in 1..Len(modes) : modes[i] \in Entry
      BY <1>1
    <3> QED
      BY <3>1 DEF Entry
  <2> QED
    BY <1>1, <2>1, ModeInIs
<1>4. /\ kept \in Seq(Entry) /\ Len(kept) <= MaxModes /\ Once(kept)
      /\ \A i \in 1..Len(kept) : \E j \in 1..Len(modes) : kept[i] = modes[j]
      /\ reset => \A i \in 1..Len(kept) : kept[i].session # s
  <2>1. CASE reset
    <3>1. /\ kept \in Seq(Entry) /\ Once(kept) /\ Len(kept) <= Len(modes)
          /\ \A i \in 1..Len(kept) : kept[i].session # s /\ \E j \in 1..Len(modes) : kept[i] = modes[j]
      BY <1>1, <2>1, WithoutIs
    <3>2. Len(kept) <= MaxModes
      BY <1>1, <3>1, ProvAssumption, SMT
    <3> QED
      BY <3>1, <3>2
  <2>2. CASE ~reset
    BY <1>1, <2>2
  <2> QED
    BY <2>1, <2>2
<1> HIDE DEF inherited, kept
<1>5. /\ modes' \in Seq(Entry) /\ Len(modes') <= MaxModes /\ Once(modes')
      /\ \A i \in 1..Len(modes') :
           \/ inherited # "none" /\ modes'[i] = [session |-> s, mode |-> inherited]
           \/ (inherited # "none" => modes'[i].session # s) /\ \E j \in 1..Len(kept) : modes'[i] = kept[j]
  <2>1. CASE inherited = "none"
    BY <1>2, <1>4, <2>1
  <2>2. CASE inherited # "none"
    <3>1. modes' = Stored(kept, s, inherited) /\ inherited \in Modes
      BY <1>2, <1>3, <2>2
    <3> QED
      BY <1>4, <2>2, <3>1, StoredIs
  <2> QED
    BY <2>1, <2>2
<1>6. /\ own' \in [Sessions -> Modes \cup {"none"}]
      /\ inherited # "none" => own'[s] = inherited
      /\ inherited = "none" /\ ~reset => own'[s] = own[s]
      /\ \A r \in Sessions : r # s => own'[r] = own[r]
  BY <1>1, <1>2, <1>3, SMT
<1>7. ASSUME NEW i \in 1..Len(modes')
      PROVE  modes'[i].mode = own'[modes'[i].session]
  <2>1. CASE inherited # "none" /\ modes'[i] = [session |-> s, mode |-> inherited]
    BY <1>6, <2>1, SMT
  <2>2. CASE (inherited # "none" => modes'[i].session # s) /\ \E j \in 1..Len(kept) : modes'[i] = kept[j]
    <3>1. PICK j \in 1..Len(kept) : modes'[i] = kept[j]
      BY <2>2
    <3>2. PICK h \in 1..Len(modes) : kept[j] = modes[h]
      BY <1>4
    <3>3. modes[h].session \in Sessions /\ modes[h].mode = own[modes[h].session]
      <4>1. modes[h] \in Entry
        BY <1>1
      <4> QED
        BY <1>1, <4>1 DEF Entry
    <3>4. reset => modes[h].session # s
      BY <1>4, <3>2
    <3> QED
      BY <1>6, <2>2, <3>1, <3>2, <3>3, <3>4
  <2> QED
    BY <1>5, <2>1, <2>2
<1>8. mode' \in {"none", own'[s]} /\ own'[s] \in Modes \cup {"none"}
  <2>1. \/ mode' = "none"
        \/ \E i \in 1..Len(modes') : modes'[i].session = s /\ mode' = modes'[i].mode
    <3>1. PICK ms \in Seq(Entry) : ms = modes'
      BY <1>5
    <3>2. \/ ModeIn(ms, s) = "none"
          \/ \E i \in 1..Len(ms) : ms[i].session = s /\ ModeIn(ms, s) = ms[i].mode
      BY ModeInIs
    <3> QED
      BY <1>2, <3>1, <3>2, Zenon
  <2> QED
    BY <1>6, <1>7, <2>1
<1> QED
  BY <1>2, <1>5, <1>6, <1>7, <1>8 DEF ModesInv, Once

\* No field names a turn.
LEMMA EmptyFields ==
  /\ Empty \in [Fields -> 0..MaxTurns]
  /\ \A f \in Fields : Empty[f] = 0
<1>1. Empty \in [Fields -> {0}] /\ \A f \in Fields : Empty[f] = 0
  BY SMT DEF Empty, Fields
<1>2. 0 \in 0..MaxTurns
  BY ProvAssumption, SMT
<1> QED
  BY <1>1, <1>2

\* One field after the other.
LEMMA FieldSet ==
  ASSUME NEW f \in [Fields -> 0..MaxTurns], NEW g \in Fields, NEW v \in 0..MaxTurns
  PROVE  /\ [f EXCEPT ![g] = v] \in [Fields -> 0..MaxTurns]
         /\ [f EXCEPT ![g] = v][g] = v
         /\ \A h \in Fields : h # g => [f EXCEPT ![g] = v][h] = f[h]
  BY Zenon

\* Two fields that name a turn are changed: the context and the memory.
LEMMA FieldsDropped ==
  ASSUME NEW f \in [Fields -> 0..MaxTurns], NEW v \in 0..MaxTurns, NEW w \in 0..MaxTurns, NEW u \in 0..MaxTurns
  PROVE  LET h == [f EXCEPT !.context = v, !.memory = w] IN
            /\ h \in [Fields -> 0..MaxTurns]
            /\ h.context = v /\ h.key = f.key /\ h.answered = f.answered
  BY Zenon DEF Fields

\* What prefetch has answered.
LEMMA FieldsAnswered ==
  ASSUME NEW f \in [Fields -> 0..MaxTurns], NEW v \in 0..MaxTurns, NEW w \in 0..MaxTurns, NEW u \in 0..MaxTurns
  PROVE  LET h == [f EXCEPT !.memory = v, !.answered = w] IN
            /\ h \in [Fields -> 0..MaxTurns]
            /\ h.answered = w /\ h.key = f.key /\ h.context = f.context
  BY Zenon DEF Fields

\* A turn that is at an end is let go of.
LEMMA FieldsUnbound ==
  ASSUME NEW f \in [Fields -> 0..MaxTurns], NEW v \in 0..MaxTurns, NEW w \in 0..MaxTurns, NEW u \in 0..MaxTurns
  PROVE  LET h == [f EXCEPT !.key = v, !.context = v, !.capture = v, !.captured = v, !.answered = v] IN
            /\ h \in [Fields -> 0..MaxTurns]
            /\ h.key = v /\ h.context = v /\ h.answered = v
  BY Zenon DEF Fields

Turns == [n : 0..MaxTurns, blank : BOOLEAN, started : BOOLEAN, over : BOOLEAN]

\* A turn's start has come.
LEMMA TurnStarts ==
  ASSUME NEW t \in Turns, NEW v \in BOOLEAN
  PROVE  LET u == [t EXCEPT !.started = v] IN
         u \in Turns /\ u.n = t.n /\ u.over = t.over /\ u.started = v
<1>1. [t EXCEPT !.started = v] \in Turns
  BY SMT DEF Turns
<1> QED
  BY <1>1, SMT DEF Turns

\* A turn is over.
LEMMA TurnLeft ==
  ASSUME NEW t \in Turns
  PROVE  LET u == [t EXCEPT !.over = t.started] IN
         u \in Turns /\ u.n = t.n /\ u.over = t.started /\ u.started = t.started
<1>1. ASSUME NEW v \in BOOLEAN
      PROVE  LET u == [t EXCEPT !.over = v] IN
             u \in Turns /\ u.n = t.n /\ u.over = v /\ u.started = t.started
  <2>1. [t EXCEPT !.over = v] \in Turns
    BY SMT DEF Turns
  <2> QED
    BY <2>1, SMT DEF Turns
<1>2. t.started \in BOOLEAN
  BY DEF Turns
<1> QED
  BY <1>1, <1>2, Zenon

\* Whatever the host calls, in whichever order and however often, the fields
\* stay those of one turn, and it feels no more than its failures allow.
LEMMA FieldsStep ==
  ASSUME ProvInv, ProvNext
  PROVE  FieldsInv' /\ FeltInv'
<1> USE ProvAssumption
<1>0. FieldsInv /\ FeltInv
  BY DEF ProvInv
<1>n. MaxTurns \in Nat /\ MaxFailures \in Nat
  BY ProvAssumption
<1>z. 0 \in 0..MaxTurns
  BY <1>n, SMT
<1>t. /\ turn \in Turns
      /\ turn' = [turn EXCEPT !.started = TRUE]
           => turn' \in Turns /\ turn'.n = turn.n /\ turn'.started = TRUE /\ turn'.over = turn.over
      /\ turn' = [turn EXCEPT !.over = turn.started]
           => turn' \in Turns /\ turn'.n = turn.n /\ turn'.started = turn.started /\ turn'.over = turn.started
  <2>1. turn \in Turns
    BY <1>0 DEF FieldsInv, Turns
  <2>2. turn.started \in BOOLEAN
    BY <2>1 DEF Turns
  <2> QED
    <3>1. /\ [turn EXCEPT !.started = TRUE] \in Turns /\ [turn EXCEPT !.started = TRUE].n = turn.n
          /\ [turn EXCEPT !.started = TRUE].over = turn.over /\ [turn EXCEPT !.started = TRUE].started = TRUE
      BY <2>1, TurnStarts, Zenon
    <3>2. /\ [turn EXCEPT !.over = turn.started] \in Turns /\ [turn EXCEPT !.over = turn.started].n = turn.n
          /\ [turn EXCEPT !.over = turn.started].started = turn.started
          /\ [turn EXCEPT !.over = turn.started].over = turn.started
      BY <2>1, TurnLeft, Zenon
    <3> QED
      BY <2>1, <3>1, <3>2, Zenon
<1>f. /\ fields \in [Fields -> 0..MaxTurns] /\ fields.key \in 0..MaxTurns /\ fields.context \in 0..MaxTurns
      /\ fields.memory \in 0..MaxTurns /\ fields.answered \in 0..MaxTurns /\ turn.n \in 0..MaxTurns
  <2>1. fields \in [Fields -> 0..MaxTurns]
    BY <1>0 DEF FieldsInv
  <2> QED
    BY <1>t, <2>1, SMT DEF Fields, Turns
<1>1. ASSUME NEW blank \in BOOLEAN, NewTurn(blank)
      PROVE  FieldsInv' /\ FeltInv'
  <2>1. /\ turn.n < MaxTurns /\ turn' = [n |-> turn.n + 1, blank |-> blank, started |-> FALSE, over |-> FALSE]
        /\ fields' = [fields EXCEPT !.answered = 0] /\ felt' = felt /\ failures' = failures
    BY <1>1, Zenon DEF NewTurn
  <2>2. FieldsInv'
    BY <1>0, <1>n, <2>1, SMT DEF FieldsInv, Fields
  <2>3. FeltInv'
    BY <1>0, <1>n, <2>1, SMTT(30) DEF FeltInv, FieldsInv, Fields
  <2> QED
    BY <2>2, <2>3
<1>2. CASE StartBlank
  <2>1. /\ turn.n > 0 /\ turn.blank /\ ~turn.over /\ turn' = [turn EXCEPT !.started = TRUE]
        /\ fields' = [fields EXCEPT !.context = 0, !.memory = 0] /\ felt' = felt /\ failures' = failures
    BY <1>2, Zenon DEF StartBlank, Delivered
  <2>a. /\ fields' \in [Fields -> 0..MaxTurns] /\ fields'.context = 0
        /\ fields'.key = fields.key /\ fields'.answered = fields.answered
    BY <1>f, <1>z, <2>1, FieldsDropped, FieldsAnswered, FieldSet, Zenon DEF Fields
  <2>2. FieldsInv'
    BY <1>0, <1>n, <1>t, <1>f, <2>1, <2>a, SMT DEF FieldsInv, Turns
  <2>3. FeltInv'
    BY <1>0, <1>n, <1>t, <1>f, <2>1, <2>a, SMT DEF FeltInv, FieldsInv
  <2> QED
    BY <2>2, <2>3
<1>3. CASE StartAgain
  <2>1. /\ turn.n > 0 /\ ~turn.over /\ fields.key = turn.n /\ turn' = [turn EXCEPT !.started = TRUE]
        /\ fields' = fields /\ felt' = felt /\ failures' = failures
    BY <1>3, Zenon DEF StartAgain, Delivered
  <2>a. fields' = fields
    BY <1>f, <1>z, <2>1, FieldsDropped, FieldsAnswered, FieldSet, Zenon DEF Fields
  <2>2. FieldsInv'
    BY <1>0, <1>n, <1>t, <1>f, <2>1, <2>a, SMT DEF FieldsInv, Turns
  <2>3. FeltInv'
    BY <1>0, <1>n, <1>t, <1>f, <2>1, <2>a, SMT DEF FeltInv, FieldsInv
  <2> QED
    BY <2>2, <2>3
<1>4. CASE StartWithoutEmotion
  <2>1. /\ turn.n > 0 /\ ~turn.over /\ fields.key # turn.n /\ turn' = [turn EXCEPT !.started = TRUE]
        /\ failures < MaxFailures /\ failures' = failures + 1
        /\ fields' = [fields EXCEPT !.context = 0, !.memory = 0] /\ felt' = felt
    BY <1>4, Zenon DEF StartWithoutEmotion, Delivered, Starting, Fails
  <2>a. /\ fields' \in [Fields -> 0..MaxTurns] /\ fields'.context = 0
        /\ fields'.key = fields.key /\ fields'.answered = fields.answered
    BY <1>f, <1>z, <2>1, FieldsDropped, FieldsAnswered, FieldSet, Zenon DEF Fields
  <2>2. FieldsInv'
    BY <1>0, <1>n, <1>t, <1>f, <2>1, <2>a, SMT DEF FieldsInv, Turns
  <2>3. FeltInv'
    BY <1>0, <1>n, <1>t, <1>f, <2>1, <2>a, SMTT(30) DEF FeltInv, FieldsInv
  <2> QED
    BY <2>2, <2>3
<1>5. ASSUME NEW m \in Spoken, NEW tier \in Tiers, StartWithoutLayer(m, tier)
      PROVE  FieldsInv' /\ FeltInv'
  <2>1. /\ turn.n > 0 /\ ~turn.over /\ fields.key # turn.n /\ turn' = [turn EXCEPT !.started = TRUE]
        /\ failures < MaxFailures /\ failures' = failures + 1 /\ felt' = [felt EXCEPT ![turn.n] = @ + 1]
        /\ fields' = [fields EXCEPT !.context = 0, !.memory = 0]
    BY <1>5, Zenon DEF StartWithoutLayer, Delivered, Starting, Fails, FeltAgain
  <2>a. /\ fields' \in [Fields -> 0..MaxTurns] /\ fields'.context = 0
        /\ fields'.key = fields.key /\ fields'.answered = fields.answered
    BY <1>f, <1>z, <2>1, FieldsDropped, FieldsAnswered, FieldSet, Zenon DEF Fields
  <2>2. FieldsInv'
    BY <1>0, <1>n, <1>t, <1>f, <2>1, <2>a, SMT DEF FieldsInv, Turns
  <2>3. FeltInv'
    BY <1>0, <1>n, <1>t, <1>f, <2>1, <2>a, SMTT(30) DEF FeltInv, FieldsInv
  <2> QED
    BY <2>2, <2>3
<1>6. ASSUME NEW m \in Spoken, NEW tier \in Tiers, NEW saved \in BOOLEAN, Start(m, tier, saved)
      PROVE  FieldsInv' /\ FeltInv'
  <2> DEFINE key == IF saved THEN turn.n ELSE fields.key
  <2>1. /\ turn.n > 0 /\ ~turn.over /\ fields.key # turn.n /\ turn' = [turn EXCEPT !.started = TRUE]
        /\ IF saved THEN failures' = failures ELSE failures < MaxFailures /\ failures' = failures + 1
        /\ felt' = [felt EXCEPT ![turn.n] = @ + 1]
        /\ fields' = [Empty EXCEPT !.key = key, !.context = turn.n, !.capture = turn.n]
    BY <1>6, Zenon DEF Start, Delivered, Starting, Fails, FeltAgain
  <2>2. /\ turn.n \in 1..MaxTurns /\ key \in 0..turn.n /\ fields.key <= turn.n
        /\ saved => key = turn.n
    BY <1>0, <1>n, <2>1, SMT DEF FieldsInv, Fields
  <2> HIDE DEF key
  <2>3. /\ fields' \in [Fields -> 0..MaxTurns] /\ fields'.key = key /\ fields'.context = turn.n
        /\ fields'.answered = 0
    <3>1. key \in 0..MaxTurns /\ turn.n \in 0..MaxTurns
      BY <1>n, <2>2, SMT
    <3>2. Empty.answered = 0
      BY SMT DEF Empty
    <3> QED
      <4>1. Empty \in [Fields -> 0..MaxTurns]
        BY EmptyFields
      <4>2. PICK k \in 0..MaxTurns, n \in 0..MaxTurns : k = key /\ n = turn.n
        BY <3>1
      <4>3. PICK g : g = [Empty EXCEPT !.key = k, !.context = n, !.capture = n]
        OBVIOUS
      <4>4. fields' = g
        BY <2>1, <4>2, <4>3, Zenon
      <4> HIDE DEF Empty
      <4>5. g \in [Fields -> 0..MaxTurns] /\ g.key = k /\ g.context = n /\ g.answered = Empty.answered
        BY <4>1, <4>3, Zenon DEF Fields
      <4> QED
        BY <3>2, <4>2, <4>4, <4>5, Zenon
  <2>4. FieldsInv'
    BY <1>0, <1>n, <1>t, <1>f, <2>1, <2>2, <2>3, SMT DEF FieldsInv, Turns
  <2>5. FeltInv'
    <3>1. failures' \in failures..(failures + 1) /\ failures' \in 0..MaxFailures
          /\ (~saved => failures' = failures + 1)
      BY <1>0, <1>n, <2>1, SMT DEF FeltInv
    <3>2. turn'.n = turn.n /\ fields'.key = key
      BY <1>t, <2>1, <2>3
    <3>3. felt' = [felt EXCEPT ![turn.n] = @ + 1] /\ fields.key # turn.n /\ ~turn.over
      BY <2>1
    <3> QED
      BY <1>0, <1>n, <2>2, <3>1, <3>2, <3>3, SMTT(30) DEF FeltInv
  <2> QED
    BY <2>4, <2>5
<1>7. ASSUME NEW found \in BOOLEAN, Prefetch(found)
      PROVE  FieldsInv' /\ FeltInv'
  <2>1. /\ turn.started /\ turn' = turn /\ felt' = felt /\ failures' = failures
        /\ fields' = [fields EXCEPT !.memory = IF found THEN turn.n ELSE 0, !.answered = fields.context]
    BY <1>7, Zenon DEF Prefetch
  <2>a. /\ fields' \in [Fields -> 0..MaxTurns] /\ fields'.context = fields.context
        /\ fields'.key = fields.key /\ fields'.answered = fields.context
    BY <1>f, <1>z, <2>1, FieldsDropped, FieldsAnswered, FieldSet, Zenon DEF Fields
  <2>2. FieldsInv'
    BY <1>0, <1>n, <1>t, <1>f, <2>1, <2>a, SMT DEF FieldsInv, Turns
  <2>3. FeltInv'
    BY <1>0, <1>n, <1>t, <1>f, <2>1, <2>a, SMT DEF FeltInv, FieldsInv
  <2> QED
    BY <2>2, <2>3
<1>8. CASE PrefetchFails
  <2>1. /\ turn' = turn /\ felt' = felt /\ failures < MaxFailures /\ failures' = failures + 1
        /\ fields' = [fields EXCEPT !.answered = 0]
    BY <1>8, Zenon DEF PrefetchFails, Fails
  <2>a. /\ fields' \in [Fields -> 0..MaxTurns] /\ fields'.context = fields.context
        /\ fields'.key = fields.key /\ fields'.answered = 0
    BY <1>f, <1>z, <2>1, FieldsDropped, FieldsAnswered, FieldSet, Zenon DEF Fields
  <2>2. FieldsInv'
    BY <1>0, <1>n, <1>t, <1>f, <2>1, <2>a, SMT DEF FieldsInv, Turns
  <2>3. FeltInv'
    BY <1>0, <1>n, <1>t, <1>f, <2>1, <2>a, SMTT(30) DEF FeltInv, FieldsInv
  <2> QED
    BY <2>2, <2>3
<1>9. CASE Forward
  <2>1. /\ turn' = turn /\ felt' = felt /\ failures' = failures
        /\ fields' = [fields EXCEPT !.captured = fields.memory]
    BY <1>9, Zenon DEF Forward
  <2>2. FieldsInv'
    BY <1>0, <1>n, <2>1, SMT DEF FieldsInv, Fields
  <2>3. FeltInv'
    BY <1>0, <1>n, <2>1, SMT DEF FeltInv, FieldsInv, Fields
  <2> QED
    BY <2>2, <2>3
<1>10. ASSUME turn' = [turn EXCEPT !.over = turn.started], fields' = Unbound, felt' = felt, failures' = failures
       PROVE  FieldsInv' /\ FeltInv'
  <2>1. /\ fields' \in [Fields -> 0..MaxTurns] /\ fields'.context = 0
        /\ fields'.key = 0 /\ fields'.answered = 0
    BY <1>f, <1>z, <1>10, FieldsUnbound, Zenon DEF Unbound
  <2>2. FieldsInv'
    BY <1>0, <1>n, <1>t, <1>f, <1>10, <2>1, SMT DEF FieldsInv, Turns
  <2>3. FeltInv'
    BY <1>0, <1>n, <1>t, <1>f, <1>10, <2>1, SMT DEF FeltInv, FieldsInv
  <2> QED
    BY <2>2, <2>3
<1>11. ASSUME NEW s \in Sessions, NEW parent, NEW reset \in BOOLEAN, Switch(s, parent, reset)
       PROVE  FieldsInv' /\ FeltInv'
  BY <1>10, <1>11, Zenon DEF Switch, Left
<1>12. ASSUME NEW s \in Sessions, Initialize(s)
       PROVE  FieldsInv' /\ FeltInv'
  BY <1>10, <1>12, Zenon DEF Initialize, Left
<1> QED
  BY <1>1, <1>2, <1>3, <1>4, <1>5, <1>6, <1>7, <1>8, <1>9, <1>11, <1>12, Zenon DEF ProvNext

\* Whatever the host calls, each session keeps its own mode.
LEMMA ModesStep ==
  ASSUME ProvInv, ProvNext
  PROVE  RouteTypeOK' /\ ~bounded' /\ ModesInv'
<1>0. RouteTypeOK /\ ~bounded /\ ModesInv
  BY DEF ProvInv
<1>1. ASSUME UNCHANGED <<routeVars, session, modes, own>>
      PROVE  RouteTypeOK' /\ ~bounded' /\ ModesInv'
  <2>1. UNCHANGED routeVars /\ UNCHANGED <<session, modes, own>>
    BY <1>1
  <2>2. RouteTypeOK' /\ bounded' = bounded /\ mode' = mode
    BY <2>1, OthersKeep
  <2>3. ModesInv'
    BY <2>1, <2>2, OthersKeep
  <2> QED
    BY <1>0, <2>2, <2>3
<1>2. ASSUME NEW blank \in BOOLEAN, NewTurn(blank)
      PROVE  UNCHANGED <<routeVars, session, modes, own>>
  BY <1>2, Zenon DEF NewTurn
<1>3. StartBlank \/ StartAgain \/ StartWithoutEmotion \/ PrefetchFails \/ Forward
        => UNCHANGED <<routeVars, session, modes, own>>
  BY Zenon DEF StartBlank, StartAgain, StartWithoutEmotion, PrefetchFails, Forward
<1>4. ASSUME NEW found \in BOOLEAN, Prefetch(found)
      PROVE  UNCHANGED <<routeVars, session, modes, own>>
  BY <1>4, Zenon DEF Prefetch
<1>5. ASSUME NEW m \in Spoken, NEW tier \in Tiers, StartWithoutLayer(m, tier)
      PROVE  RouteTypeOK' /\ ~bounded' /\ ModesInv'
  <2>1. Advance(m, tier) /\ UNCHANGED <<session, modes, own, mode>>
    BY <1>5, Zenon DEF StartWithoutLayer
  <2>2. mode \in Modes \cup {"none"}
    BY <1>0 DEF RouteTypeOK
  <2> QED
    BY <1>0, <2>1, <2>2, AdvanceOK, OthersKeep, Zenon
<1>6. ASSUME NEW m \in Spoken, NEW tier \in Tiers, NEW saved \in BOOLEAN, Start(m, tier, saved)
      PROVE  RouteTypeOK' /\ ~bounded' /\ ModesInv'
  <2> DEFINE answer == Answer(m, "off", tier, mode, orch)
  <2>1. /\ Advance(m, tier) /\ mode' = answer /\ session' = session
        /\ modes' = Stored(modes, session, mode') /\ own' = [own EXCEPT ![session] = mode']
    BY <1>6, Zenon DEF Start
  <2>2. answer \in Modes /\ ~bounded' /\ (mode' \in Modes \cup {"none"} => RouteTypeOK')
    BY <2>1, AdvanceOK, Zenon
  <2> HIDE DEF answer
  <2>3. ModesInv'
    <3>1. modes' = Stored(modes, session, answer) /\ own' = [own EXCEPT ![session] = answer]
      BY <2>1
    <3> QED
      BY <1>0, <2>1, <2>2, <3>1, StoreKeeps, Zenon
  <2> QED
    BY <2>1, <2>2, <2>3
<1>7. ASSUME NEW s \in Sessions, NEW parent \in Sessions \cup {NoSession}, NEW reset \in BOOLEAN,
             Switch(s, parent, reset)
      PROVE  RouteTypeOK' /\ ~bounded' /\ ModesInv'
  <2>1. ModesInv' /\ mode' \in Modes \cup {"none"}
    BY <1>0, <1>7, SwitchKeeps, Zenon
  <2>2. UNCHANGED <<bounded, orch, vague>>
    BY <1>7, Zenon DEF Switch
  <2> QED
    BY <1>0, <2>1, <2>2, Zenon DEF RouteTypeOK
<1>8. ASSUME NEW s \in Sessions, Initialize(s)
      PROVE  RouteTypeOK' /\ ~bounded' /\ ModesInv'
  <2>1. session' = s /\ mode' = "none" /\ UNCHANGED <<bounded, orch, vague, modes, own>>
    BY <1>8, Zenon DEF Initialize
  <2>2. ModesInv'
    BY <1>0, <2>1, Zenon DEF ModesInv, Once
  <2>3. RouteTypeOK'
    BY <1>0, <2>1, Zenon DEF RouteTypeOK
  <2> QED
    BY <1>0, <2>1, <2>2, <2>3
<1> QED
  BY <1>1, <1>2, <1>3, <1>4, <1>5, <1>6, <1>7, <1>8, Zenon DEF ProvNext

\* Every step of the provider keeps the invariant.
LEMMA ProvStep ==
  ASSUME ProvInv, [ProvNext]_provVars
  PROVE  ProvInv'
<1>1. CASE ProvNext
  BY <1>1, FieldsStep, ModesStep, Zenon DEF ProvInv
<1>2. CASE UNCHANGED provVars
  <2>1. UNCHANGED routeVars /\ UNCHANGED <<session, modes, own>> /\ UNCHANGED <<turn, fields, felt, failures>>
    BY <1>2, Zenon DEF provVars, turnVars
  <2>2. FieldsInv'
    BY <2>1, Zenon DEF ProvInv, FieldsInv
  <2>3. FeltInv'
    BY <2>1, Zenon DEF ProvInv, FeltInv
  <2>4. RouteTypeOK' /\ bounded' = bounded /\ mode' = mode
    BY <2>1, OthersKeep
  <2>5. ModesInv'
    BY <2>1, <2>4, OthersKeep
  <2>6. ~bounded'
    BY <2>4 DEF ProvInv
  <2> QED
    BY <2>2, <2>3, <2>4, <2>5, <2>6 DEF ProvInv
<1> QED
  BY <1>1, <1>2

\* What the provider's invariant promises.
LEMMA ProvFollows == ProvInv => ProvTypeOK /\ TurnsStaySeparate /\ ModeIsTheSessions
<1> SUFFICES ASSUME ProvInv
             PROVE  ProvTypeOK /\ TurnsStaySeparate /\ ModeIsTheSessions
  OBVIOUS
<1>1. \A i \in 1..Len(modes) : modes[i] \in Entry
  BY DEF ProvInv, ModesInv
<1>2. DOMAIN Empty = Fields
  BY SMT DEF Empty, Fields
<1>3. ProvTypeOK
  BY <1>1, <1>2, Zenon DEF ProvInv, ModesInv, FieldsInv, FeltInv, ProvTypeOK, Entry
<1>4. TurnsStaySeparate
  BY Zenon DEF ProvInv, FieldsInv, FeltInv, TurnsStaySeparate
<1>5. ModeIsTheSessions
  BY DEF ProvInv, ModesInv, ModeIsTheSessions
<1> QED
  BY <1>3, <1>4, <1>5

\* What the loader's invariant promises.
LEMMA LoadFollows == LoadInv => LoadTypeOK /\ LoadsOnce
<1> SUFFICES ASSUME LoadInv PROVE LoadTypeOK /\ LoadsOnce
  OBVIOUS
<1> QED
  BY LoadAssumption, SMT DEF LoadInv, LoadTypeOK, LoadsOnce

\* A router that does nothing keeps its invariant.
LEMMA RouterStutters ==
  ASSUME RouterInv, UNCHANGED routerVars
  PROVE  RouterInv'
<1>1. UNCHANGED requestVars /\ UNCHANGED serviceVars /\ routerFaults' = routerFaults
  BY Zenon DEF routerVars
<1>2. RequestInv'
  BY <1>1 DEF RouterInv, RequestInv, requestVars
<1>3. ServiceInv' /\ (Orderly /\ OneOperator => OnlyRouter')
  BY <1>1 DEF RouterInv, ServiceInv, OnlyRouter, OneOperator, serviceVars
<1> QED
  BY <1>2, <1>3, Zenon DEF RouterInv, OneOperator

-----------------------------------------------------------------------------
(* The parts together: MCPersona *)

\* The invariant of the part that runs.
PersonaInv ==
    /\ part = "routing" => RouteInv
    /\ part = "turns" => ProvInv
    /\ part = "emotion" => EmoInv
    /\ part = "loader" => LoadInv
    /\ part = "hooks" => HooksInv
    /\ part \in {"requests", "service"} => RouterInv

\* The part that runs starts in its invariant.
LEMMA PersonaInitially == PersonaInit => PersonaInv
<1> SUFFICES ASSUME PersonaInit PROVE PersonaInv
  OBVIOUS
<1>1. part = "routing" => RouteInv
  BY RouteInitially, Zenon DEF PersonaInit, ProvInit
<1>2. part = "turns" => ProvInv
  <2>1. part = "turns" => ~bounded
    BY DEF PersonaInit
  <2> QED
    BY <2>1, ProvInitially, Zenon DEF PersonaInit
<1>3. EmoInv /\ LoadInv
  BY EmoInitially, LoadInitially, Zenon DEF PersonaInit
<1>4. part = "hooks" => HooksInv
  BY HooksInitially, Zenon DEF PersonaInit
<1>5. part \in {"requests", "service"} => RouterInv
  BY RouterInitially, Zenon DEF PersonaInit
<1> QED
  BY <1>1, <1>2, <1>3, <1>4, <1>5, Zenon DEF PersonaInv

\* Only one part takes steps, and each of its steps keeps its invariant.
LEMMA PersonaStep ==
  ASSUME PersonaInv, [PersonaNext]_personaVars
  PROVE  PersonaInv'
<1>1. CASE RunRouting
  <2>1. part = "routing" /\ part' = "routing" /\ RouteNext
    BY <1>1, Zenon DEF RunRouting
  <2>2. RouteInv'
    BY <2>1, RouteStep, Zenon DEF PersonaInv
  <2> QED
    BY <2>1, <2>2 DEF PersonaInv
<1>2. CASE RunTurns
  <2>1. part = "turns" /\ part' = "turns" /\ ProvNext
    BY <1>2, Zenon DEF RunTurns
  <2>2. ProvInv'
    BY <2>1, ProvStep, Zenon DEF PersonaInv
  <2> QED
    BY <2>1, <2>2 DEF PersonaInv
<1>3. CASE RunEmotion
  <2>1. part = "emotion" /\ part' = "emotion" /\ EmoNext
    BY <1>3, Zenon DEF RunEmotion
  <2>2. EmoInv'
    BY <2>1, EmoStep, Zenon DEF PersonaInv
  <2> QED
    BY <2>1, <2>2 DEF PersonaInv
<1>4. CASE RunLoader
  <2>1. part = "loader" /\ part' = "loader" /\ LoadNext
    BY <1>4, Zenon DEF RunLoader
  <2>2. LoadInv'
    BY <2>1, LoadStep, Zenon DEF PersonaInv
  <2> QED
    BY <2>1, <2>2 DEF PersonaInv
<1>5. CASE RunHooks
  <2>1. part = "hooks" /\ part' = "hooks" /\ HooksNext
    BY <1>5, Zenon DEF RunHooks
  <2>2. HooksInv'
    BY <2>1, HooksStep, Zenon DEF PersonaInv
  <2> QED
    BY <2>1, <2>2 DEF PersonaInv
<1>6. CASE RunRequests
  <2>1. part = "requests" /\ part' = "requests" /\ RequestNext
    BY <1>6, Zenon DEF RunRequests
  <2>2. RouterInv'
    BY <2>1, RequestKeeps, Zenon DEF PersonaInv
  <2> QED
    BY <2>1, <2>2 DEF PersonaInv
<1>7. CASE RunService
  <2>1. part = "service" /\ part' = "service" /\ ServiceNext
    BY <1>7, Zenon DEF RunService
  <2>2. RouterInv'
    BY <2>1, ServiceKeeps, Zenon DEF PersonaInv
  <2> QED
    BY <2>1, <2>2 DEF PersonaInv
<1>8. CASE UNCHANGED personaVars
  <2>1. /\ part' = part /\ UNCHANGED provVars /\ UNCHANGED emoVars /\ UNCHANGED loadVars
        /\ UNCHANGED hookVars /\ UNCHANGED routerVars
    BY <1>8, Zenon DEF personaVars, engineVars
  <2>2. UNCHANGED routeVars
    BY <2>1, Zenon DEF provVars
  <2>3. part = "routing" => RouteInv'
    BY <2>2, RouteStep, Zenon DEF PersonaInv
  <2>4. part = "turns" => ProvInv'
    BY <2>1, ProvStep, Zenon DEF PersonaInv
  <2>5. part = "emotion" => EmoInv'
    BY <2>1, EmoStep, Zenon DEF PersonaInv
  <2>6. part = "loader" => LoadInv'
    BY <2>1, LoadStep, Zenon DEF PersonaInv
  <2>7. part = "hooks" => HooksInv'
    BY <2>1, HooksStep, Zenon DEF PersonaInv
  <2>8. part \in {"requests", "service"} => RouterInv'
    BY <2>1, RouterStutters, Zenon DEF PersonaInv
  <2> QED
    BY <2>1, <2>3, <2>4, <2>5, <2>6, <2>7, <2>8, Zenon DEF PersonaInv
<1> QED
  BY <1>1, <1>2, <1>3, <1>4, <1>5, <1>6, <1>7, <1>8, Zenon DEF PersonaNext

\* Every behaviour keeps the invariant of the part that runs.
THEOREM PersonaInductive == PersonaSpec => []PersonaInv
<1>1. PersonaInit => PersonaInv
  BY PersonaInitially
<1>2. PersonaInv /\ [PersonaNext]_personaVars => PersonaInv'
  BY PersonaStep
<1> QED
  BY <1>1, <1>2, PTL DEF PersonaSpec

(***************************************************************************)
(* RoutingSafe: whatever the words of a message, the reading of the model, *)
(* the tier of intimacy and the memory of the state machine, words of      *)
(* crisis and a closed gate keep a scene out, a request for work gets the  *)
(* work mode, the third vague message in a row leaves it, the rules of the *)
(* table guard the same things over each other, and the table differs from *)
(* the legacy manager only by holding the work context                     *)
(* (state_orchestrator.py, transition_manager.py, transition_policy.py).    *)
(***************************************************************************)
THEOREM RoutingHolds == PersonaSpec => []RoutingSafe
<1>1. PersonaInv => RoutingSafe
  BY RouteFollows, Zenon DEF PersonaInv, RoutingSafe
<1> QED
  BY <1>1, PersonaInductive, PTL

(***************************************************************************)
(* TurnsSafe: for any number of sessions and turns, whatever call of a     *)
(* turn fails or is delivered again, what prefetch answers with belongs to *)
(* the turn at hand or to none, the emotion is updated once for a turn and *)
(* for each failure after it, and a turn starts from the mode that its own *)
(* session has led to (the provider of the Hermes plugin).                 *)
(***************************************************************************)
THEOREM TurnsHold == PersonaSpec => []TurnsSafe
<1>1. PersonaInv => TurnsSafe
  BY ProvFollows, Zenon DEF PersonaInv, TurnsSafe
<1> QED
  BY <1>1, PersonaInductive, PTL

(***************************************************************************)
(* SharedSafe: for any number of managers, threads, sessions, requests and *)
(* operators, an acknowledged update stays in the emotion file and no half *)
(* hour fades twice, the model is loaded by one thread and not again       *)
(* within the cooldown, no session is kept going past the limit, nothing   *)
(* is remembered without permission, a key is sent only to its own         *)
(* upstream, an answer is the one its audit row records, and the router a  *)
(* lone operator is told of is the one that serves.                        *)
(***************************************************************************)
THEOREM SharedHolds == PersonaSpec => []SharedSafe
<1>1. part = "turns" /\ PersonaInv => ProvTypeOK
  BY ProvFollows, Zenon DEF PersonaInv
<1>2. part = "emotion" /\ PersonaInv => EmoTypeOK /\ EmotionSafe
  BY EmoFollows, Zenon DEF PersonaInv
<1>3. part = "loader" /\ PersonaInv => LoadTypeOK /\ LoadsOnce
  BY LoadFollows, Zenon DEF PersonaInv
<1>4. part = "hooks" /\ PersonaInv => HooksTypeOK /\ ContinuationsBounded /\ WritesAuthorised
  BY HooksFollow, Zenon DEF PersonaInv
<1>5. part \in {"requests", "service"} /\ PersonaInv
        => RouterTypeOK /\ KeyGoesHome /\ AnswerIsAudited /\ StartedIsOurs
  BY RouterFollows, Zenon DEF PersonaInv
<1>6. PersonaInv => SharedSafe
  BY <1>1, <1>2, <1>3, <1>4, <1>5, Zenon DEF SharedSafe
<1> QED
  BY <1>6, PersonaInductive, PTL
=============================================================================

---------------------------- MODULE EmotionState ----------------------------
(***************************************************************************)
(* STATE.md, the emotion file that several processes share                 *)
(* (packages/persona_engine/emotion_state_manager.py and                   *)
(* emotion_calculator.py).                                                 *)
(*                                                                         *)
(* A manager reads the file, computes for as long as the neural model      *)
(* takes, and writes its result if the file still holds the bytes it read. *)
(* Between the two another manager may write, or the clock may pass.  The  *)
(* inertia that scales an event is kept in memory and in the file.         *)
(*                                                                         *)
(* The four dimensions are abstracted to one deviation from the baseline,  *)
(* which an event raises and an hour lowers; the revision, a hash, to the  *)
(* content it is the hash of.                                              *)
(***************************************************************************)
EXTENDS Naturals

CONSTANTS
    Managers,   \* processes that hold an EmotionStateManager
    Events,     \* bound: emotion events, each detected once
    MaxTime,    \* bound: half-hours of the clock
    MaxLost     \* bound: writes that fail with an I/O error

ASSUME EmoAssumption == MaxTime \in Nat /\ MaxLost \in Nat /\ "none" \notin Events

VARIABLES
    file,       \* STATE.md
    clock,
    mgr,        \* mgr[p]: what manager p is doing and its inertia
    acked,      \* history: events whose update answered True
    lost        \* writes failed so far

emoVars == <<file, clock, mgr, acked, lost>>

Never == MaxTime + 1
MaxDeviation == 3
MaxInertia == 4

(***************************************************************************)
(* "since" is last_update, Never in a file without an emotion state.       *)
(* "events" and "faded" are history: the events the values include and the *)
(* half-hours of decay they have been through since the first of them.     *)
(***************************************************************************)
Files == [deviation : 0..MaxDeviation, since : 0..Never, trigger : {"none", "event", "decay"},
          body : (0..Never) \X (0..MaxDeviation), inertia : 0..MaxInertia,
          events : SUBSET Events, faded : 0..MaxTime, born : 0..MaxTime]

Idle == [pc |-> "idle"]
Less(a, b) == IF a > b THEN a - b ELSE 0
Capped(n, limit) == IF n > limit THEN limit ELSE n

NoState == [deviation |-> 0, since |-> Never, trigger |-> "none", body |-> <<Never, 0>>,
            inertia |-> 0, events |-> {}, faded |-> 0, born |-> 0]
\* What a version that forgot the body in a decay has left behind.
LegacyState == [NoState EXCEPT !.deviation = 1, !.since = 0, !.trigger = "decay"]

EmoInit ==
    /\ file \in {NoState, LegacyState}
    /\ clock = 0
    /\ mgr = [p \in Managers |-> [job |-> Idle, inertia |-> 0]]
    /\ acked = {}
    /\ lost = 0

Tick == clock < MaxTime /\ clock' = clock + 1 /\ UNCHANGED <<file, mgr, acked, lost>>

-----------------------------------------------------------------------------
(* Reading and computing *)

\* apply_decay, to the moment "now" was taken.
Decayed(f, now) ==
    IF f.since = Never THEN f
    ELSE [f EXCEPT !.deviation = Less(@, Less(now, f.since)), !.faded = @ + Less(now, f.since)]

\* update_emotion_state up to the write.  Without an event there is nothing to do
\* unless time has changed the values.
ReadForUpdate(p, e) ==
    /\ mgr[p].job = Idle
    /\ e \notin UNION {file.events, acked} \/ e = "none"
    /\ \A q \in Managers : mgr[q].job # Idle => mgr[q].job.event # e \/ e = "none"
    /\ e = "none" => file.since # Never /\ Decayed(file, clock).deviation # file.deviation
    /\ mgr' = [mgr EXCEPT ![p].job = [pc |-> "update", snap |-> file, now |-> clock, event |-> e]]
    /\ UNCHANGED <<file, clock, acked, lost>>

\* apply_time_decay_if_needed, from half an hour on.
ReadForDecay(p) ==
    /\ mgr[p].job = Idle
    /\ file.since # Never /\ clock > file.since
    /\ Decayed(file, clock).deviation # file.deviation
    /\ mgr' = [mgr EXCEPT ![p].job = [pc |-> "decay", snap |-> file, now |-> clock, event |-> "none"]]
    /\ UNCHANGED <<file, clock, acked, lost>>

\* The body is derived again when an earlier decay has left it stale.
ReadForRepair(p) ==
    /\ mgr[p].job = Idle
    /\ file.since # Never /\ clock = file.since /\ file.trigger = "decay"
    /\ file.body # <<file.since, file.deviation>>
    /\ mgr' = [mgr EXCEPT ![p].job = [pc |-> "repair", snap |-> file, now |-> clock, event |-> "none"]]
    /\ UNCHANGED <<file, clock, acked, lost>>

\* get_current_emotion_state, and the constructor: the inertia comes from the file.
Load(p) ==
    /\ mgr[p].job = Idle
    /\ file.since # Never
    /\ mgr' = [mgr EXCEPT ![p].inertia = file.inertia]
    /\ UNCHANGED <<file, clock, acked, lost>>

-----------------------------------------------------------------------------
(* Writing *)

WithBody(f) == [f EXCEPT !.body = <<f.since, f.deviation>>]

\* Fault: the decay leaves the body it found.
ContentNoBody(p) ==
    LET j == mgr[p].job
        f == Decayed(j.snap, j.now) IN
    CASE j.pc = "repair" -> WithBody(j.snap)
      [] j.pc = "decay"  -> [f EXCEPT !.trigger = "decay", !.since = j.now]
      [] OTHER -> WithBody([f EXCEPT !.since = clock])

\* What a manager writes.  A decay stamps the moment it decayed to, an update the
\* moment it writes; only an event moves the inertia.
Content(p) ==
    LET j == mgr[p].job
        f == Decayed(j.snap, j.now) IN
    CASE j.pc = "repair" -> WithBody(j.snap)
      [] j.pc = "decay"  -> WithBody([f EXCEPT !.trigger = "decay", !.since = j.now])
      [] j.pc = "update" /\ j.event = "none" -> WithBody([f EXCEPT !.since = clock])
      [] OTHER -> WithBody([f EXCEPT !.deviation = Capped(@ + 1, MaxDeviation), !.trigger = "event",
                                     !.since = clock, !.events = @ \cup {j.event},
                                     !.born = IF j.snap.since = Never THEN clock ELSE @,
                                     !.inertia = Capped(mgr[p].inertia + 1, MaxInertia)])

\* The inertia in memory has moved whether or not the write succeeds.
Moved(p) ==
    IF mgr[p].job.event = "none" THEN mgr[p].inertia ELSE Capped(mgr[p].inertia + 1, MaxInertia)

Return(p) == mgr' = [mgr EXCEPT ![p] = [job |-> Idle, inertia |-> Moved(p)]]

\* Fault: the file is replaced without a look at what it holds now.
WriteBlind(p) ==
    /\ mgr[p].job # Idle
    /\ file' = Content(p)
    /\ acked' = IF mgr[p].job.event = "none" THEN acked ELSE acked \cup {mgr[p].job.event}
    /\ Return(p)
    /\ UNCHANGED <<clock, lost>>

\* _write_state: compare and replace under the file lock.
Write(p) ==
    /\ mgr[p].job # Idle
    /\ IF file = mgr[p].job.snap
         THEN /\ file' = Content(p)
              /\ acked' = IF mgr[p].job.event = "none" THEN acked ELSE acked \cup {mgr[p].job.event}
         ELSE UNCHANGED <<file, acked>>
    /\ Return(p)
    /\ UNCHANGED <<clock, lost>>

\* The temporary file is removed and the old content stays.
WriteFails(p) ==
    /\ mgr[p].job # Idle
    /\ lost < MaxLost
    /\ lost' = lost + 1
    /\ Return(p)
    /\ UNCHANGED <<file, clock, acked>>

\* A process dies and is started again.
Restart(p) ==
    /\ mgr[p].job # Idle
    /\ mgr' = [mgr EXCEPT ![p] = [job |-> Idle, inertia |-> IF file.since = Never THEN 0 ELSE file.inertia]]
    /\ UNCHANGED <<file, clock, acked, lost>>

EmoNext ==
    \/ Tick
    \/ \E p \in Managers :
         \/ \E e \in Events \cup {"none"} : ReadForUpdate(p, e)
         \/ ReadForDecay(p) \/ ReadForRepair(p) \/ Load(p)
         \/ Write(p) \/ WriteFails(p) \/ Restart(p)

EmoSpec == EmoInit /\ [][EmoNext]_emoVars

-----------------------------------------------------------------------------
(* Properties *)

EmoTypeOK ==
    /\ file \in Files
    /\ clock \in 0..MaxTime
    /\ \A p \in Managers : mgr[p].inertia \in 0..MaxInertia
    /\ acked \subseteq Events
    /\ lost \in 0..MaxLost

(***************************************************************************)
(* An update that answered True stays in the file, whoever else wrote      *)
(* meanwhile; and no half-hour is taken off the values twice, although     *)
(* several managers may find it due.                                       *)
(***************************************************************************)
UpdatesAreKept ==
    /\ acked \subseteq file.events
    /\ file.since # Never => file.faded <= file.since - file.born

\* The text a reader of STATE.md sees is the one of the values above it, but for
\* the one an older version has left.
BodyFollows ==
    file.since # Never => file.body \in {<<file.since, file.deviation>>, LegacyState.body}

EmotionSafe == UpdatesAreKept /\ BodyFollows
=============================================================================

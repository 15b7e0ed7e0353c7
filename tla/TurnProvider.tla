---------------------------- MODULE TurnProvider ----------------------------
(***************************************************************************)
(* The turn hooks of the Hermes memory provider                            *)
(* (soul_link/hermes_plugin/memory_provider.py): on_turn_start, prefetch,  *)
(* on_before_model_forward, on_session_switch and initialize.              *)
(*                                                                         *)
(* One provider object serves every session of the host.  What belongs to  *)
(* a turn (its emotion and mode text, its memory context, its capture),    *)
(* what belongs to a session (its mode) and what belongs to nobody (the    *)
(* memory of the state machine) live side by side in its fields.           *)
(*                                                                         *)
(* The host is external: it may deliver the start of a turn again, goes on *)
(* with a turn whose start has failed, and switches sessions between or    *)
(* within turns.  The mode of PersonaRouting is the provider's _active_mode.  *)
(***************************************************************************)
EXTENDS PersonaRouting, SequencesExt

CONSTANTS
    Sessions,
    Spoken,       \* bound: the messages a user may send
    MaxTurns,     \* bound: turns of a behaviour
    MaxFailures,  \* bound: hooks that fail
    MaxModes,     \* sessions whose mode is remembered, 128 in the code
    NoSession

ASSUME ProvAssumption ==
    /\ Spoken \subseteq Messages
    /\ MaxTurns \in Nat /\ MaxFailures \in Nat /\ MaxModes \in Nat
    /\ NoSession \notin Sessions

VARIABLES
    session,    \* the session the provider is bound to
    modes,      \* the remembered modes, the least recent first
    turn,       \* the turn the host is at: number, text, whether its start was delivered,
                \* and whether the session has been left since
    fields,     \* the per-turn fields, each by the turn it was made for, 0 when empty
    felt,       \* history: emotion updates made for each turn
    failures,   \* hooks that failed so far
    own         \* history: the mode each session's own turns have led to

turnVars == <<session, modes, turn, fields, felt, failures, own>>
provVars == <<routeVars, turnVars>>

Empty == [key |-> 0, context |-> 0, memory |-> 0, capture |-> 0, captured |-> 0, answered |-> 0]

ProvInit ==
    /\ RouteInit
    /\ session \in Sessions
    /\ modes = <<>>
    /\ turn = [n |-> 0, blank |-> TRUE, started |-> FALSE, over |-> FALSE]
    /\ fields = Empty
    /\ felt = [n \in 1..MaxTurns |-> 0]
    /\ failures = 0
    /\ own = [s \in Sessions |-> "none"]

-----------------------------------------------------------------------------
(* The remembered modes: an OrderedDict with a bound *)

Without(ms, s) ==
    IF \E i \in 1..Len(ms) : ms[i].session = s
      THEN RemoveAt(ms, CHOOSE i \in 1..Len(ms) : ms[i].session = s) ELSE ms

\* Fault: nothing is dropped.
StoredUnbounded(ms, s, v) == Append(Without(ms, s), [session |-> s, mode |-> v])

\* The session becomes the most recent one, and the least recent is dropped.
Stored(ms, s, v) ==
    LET longer == Append(Without(ms, s), [session |-> s, mode |-> v])
    IN  IF Len(longer) > MaxModes THEN Tail(longer) ELSE longer

ModeIn(ms, s) ==
    IF \E i \in 1..Len(ms) : ms[i].session = s
      THEN ms[CHOOSE i \in 1..Len(ms) : ms[i].session = s].mode ELSE "none"

-----------------------------------------------------------------------------
(* The host *)

\* A skill command reaches the hook as a blank text.
NewTurn(blank) ==
    /\ turn.n < MaxTurns
    /\ turn' = [n |-> turn.n + 1, blank |-> blank, started |-> FALSE, over |-> FALSE]
    /\ fields' = [fields EXCEPT !.answered = 0]
    /\ UNCHANGED <<routeVars, session, modes, felt, failures, own>>

-----------------------------------------------------------------------------
(* on_turn_start *)

Delivered == turn' = [turn EXCEPT !.started = TRUE]
Fails == failures < MaxFailures /\ failures' = failures + 1
FeltAgain == felt' = [felt EXCEPT ![turn.n] = @ + 1]

StartBlank ==
    /\ turn.n > 0 /\ turn.blank /\ ~turn.over
    /\ Delivered
    /\ fields' = [fields EXCEPT !.context = 0, !.memory = 0]
    /\ UNCHANGED <<routeVars, session, modes, felt, failures, own>>

\* The turn's key says that it has been answered for.
StartAgain ==
    /\ turn.n > 0 /\ ~turn.blank /\ ~turn.over /\ fields.key = turn.n
    /\ Delivered
    /\ UNCHANGED <<routeVars, session, modes, fields, felt, failures, own>>

Starting == turn.n > 0 /\ ~turn.blank /\ ~turn.over /\ fields.key # turn.n

\* Fault: what the turn before left is dropped only when the update succeeds.
StartWithoutEmotionKeeps ==
    /\ Starting /\ Fails
    /\ Delivered
    /\ UNCHANGED <<routeVars, session, modes, fields, felt, own>>

\* The emotion update fails: nothing of the turn before may be left.
StartWithoutEmotion ==
    /\ Starting /\ Fails
    /\ Delivered
    /\ fields' = [fields EXCEPT !.context = 0, !.memory = 0]
    /\ UNCHANGED <<routeVars, session, modes, felt, own>>

Advance(m, tier) ==
    LET answer == Answer(m, "off", tier, mode, orch) IN
    /\ orch' = Remember(m, "off", mode, orch, answer)
    /\ UNCHANGED <<bounded, vague>>

\* The state machine has moved and the template of the mode cannot be read.
StartWithoutLayer(m, tier) ==
    /\ Starting /\ Fails
    /\ Delivered /\ FeltAgain
    /\ Advance(m, tier)
    /\ fields' = [fields EXCEPT !.context = 0, !.memory = 0]
    /\ UNCHANGED <<mode, session, modes, own>>

\* Fault: the turn is not remembered as answered for.
StartForgets(m, tier, written) ==
    /\ Starting /\ Delivered /\ FeltAgain
    /\ Advance(m, tier)
    /\ mode' = Answer(m, "off", tier, mode, orch)
    /\ modes' = Stored(modes, session, mode')
    /\ own' = [own EXCEPT ![session] = mode']
    /\ IF written THEN UNCHANGED failures ELSE Fails
    /\ fields' = [Empty EXCEPT !.key = fields.key, !.context = turn.n, !.capture = turn.n]
    /\ UNCHANGED session

\* The key is the last thing set, after the capture file is written.
Start(m, tier, written) ==
    /\ Starting /\ Delivered /\ FeltAgain
    /\ Advance(m, tier)
    /\ mode' = Answer(m, "off", tier, mode, orch)
    /\ modes' = Stored(modes, session, mode')
    /\ own' = [own EXCEPT ![session] = mode']
    /\ IF written THEN UNCHANGED failures ELSE Fails
    /\ fields' = [Empty EXCEPT !.key = IF written THEN turn.n ELSE fields.key,
                               !.context = turn.n, !.capture = turn.n]
    /\ UNCHANGED session

-----------------------------------------------------------------------------
(* prefetch and on_before_model_forward *)

\* The context handed to the host is the memory context and the turn's own.
Prefetch(found) ==
    /\ turn.started
    /\ fields' = [fields EXCEPT !.memory = IF found THEN turn.n ELSE 0, !.answered = fields.context]
    /\ UNCHANGED <<routeVars, session, modes, turn, felt, failures, own>>

\* A failure leaves the memory context as it was and is raised to the host.
PrefetchFails ==
    /\ turn.started /\ Fails
    /\ fields' = [fields EXCEPT !.answered = 0]
    /\ UNCHANGED <<routeVars, session, modes, turn, felt, own>>

\* The capture of the last turn, whichever that was, gets the memory selection.
Forward ==
    /\ turn.started /\ fields.capture # 0
    /\ fields' = [fields EXCEPT !.captured = fields.memory]
    /\ UNCHANGED <<routeVars, session, modes, turn, felt, failures, own>>

-----------------------------------------------------------------------------
(* Sessions *)

\* A turn may be under way: a compression switches the session in its middle.
Left == turn' = [turn EXCEPT !.over = turn.started]

Unbound == [fields EXCEPT !.key = 0, !.context = 0, !.capture = 0, !.captured = 0, !.answered = 0]

\* Fault: the mode of the session before is kept.
SwitchKeepsMode(s, parent, reset) ==
    /\ Left
    /\ session' = s
    /\ fields' = Unbound
    /\ modes' = IF reset THEN Without(modes, s) ELSE modes
    /\ own' = IF reset THEN [own EXCEPT ![s] = "none"] ELSE own
    /\ UNCHANGED <<routeVars, felt, failures>>

\* A session that continues a compressed one takes its mode over.
Switch(s, parent, reset) ==
    LET inherited == IF parent = NoSession THEN "none" ELSE ModeIn(modes, parent)
        kept == IF reset THEN Without(modes, s) ELSE modes
    IN
    /\ Left
    /\ session' = s
    /\ fields' = Unbound
    /\ modes' = IF inherited = "none" THEN kept ELSE Stored(kept, s, inherited)
    /\ mode' = ModeIn(modes', s)
    /\ own' = [own EXCEPT ![s] = IF inherited # "none" THEN inherited ELSE IF reset THEN "none" ELSE @]
    /\ UNCHANGED <<bounded, orch, vague, felt, failures>>

\* initialize forgets the active mode; the remembered ones stay.
Initialize(s) ==
    /\ Left
    /\ session' = s
    /\ mode' = "none"
    /\ fields' = Unbound
    /\ UNCHANGED <<bounded, orch, vague, modes, felt, failures, own>>

ProvNext ==
    \/ \E blank \in BOOLEAN : NewTurn(blank)
    \/ StartBlank \/ StartAgain \/ StartWithoutEmotion
    \/ \E m \in Spoken, tier \in Tiers : StartWithoutLayer(m, tier)
    \/ \E m \in Spoken, tier \in Tiers, written \in BOOLEAN : Start(m, tier, written)
    \/ \E found \in BOOLEAN : Prefetch(found)
    \/ PrefetchFails \/ Forward
    \/ \E s \in Sessions, parent \in Sessions \cup {NoSession}, reset \in BOOLEAN :
         s # parent /\ Switch(s, parent, reset)
    \/ \E s \in Sessions : Initialize(s)

ProvSpec == ProvInit /\ [][ProvNext]_provVars

-----------------------------------------------------------------------------
(* Properties *)

ProvTypeOK ==
    /\ RouteTypeOK
    /\ session \in Sessions
    /\ Len(modes) <= MaxModes
    /\ \A i \in 1..Len(modes) : modes[i] \in [session : Sessions, mode : Modes]
    /\ turn \in [n : 0..MaxTurns, blank : BOOLEAN, started : BOOLEAN, over : BOOLEAN]
    /\ fields \in [DOMAIN Empty -> 0..MaxTurns]
    /\ failures \in 0..MaxFailures

(***************************************************************************)
(* "Never let a failed new-turn update reuse the preceding turn's state":  *)
(* what prefetch answers with belongs to the turn the host is at, or to no *)
(* turn.  And the emotion is updated once for a turn, however often its    *)
(* start is delivered; only a failure after the update repeats it.         *)
(***************************************************************************)
TurnsStaySeparate ==
    /\ turn.started => fields.context \in {0, turn.n} /\ fields.answered \in {0, turn.n}
    /\ \A n \in 1..MaxTurns : felt[n] <= 1 + failures

\* The next turn starts from the mode its own session has led to, or was given by
\* the session it continues; never from the mode of the session before.
ModeIsTheSessions == mode \in {"none", own[session]}

(***************************************************************************)
(* "Never let a failed new-turn update reuse the preceding turn's state":  *)
(* the capture of a turn does not name the memories selected for another.  *)
(***************************************************************************)
CaptureIsOneTurn == fields.captured \in {0, fields.capture}
=============================================================================

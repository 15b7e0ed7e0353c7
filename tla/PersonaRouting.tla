--------------------------- MODULE PersonaRouting ---------------------------
(***************************************************************************)
(* One turn of the persona state machine                                   *)
(* (packages/persona_engine/persona_orchestrator).                         *)
(*                                                                         *)
(* Four layers vote on the mode of the reply: a first-match classifier, an *)
(* optional semantic classifier, a router that looks at the continuity of  *)
(* the conversation, and a transition manager that knows the mode before.  *)
(* Each layer can overrule the one before it, so what a message leads to   *)
(* is a property of their composition.                                     *)
(*                                                                         *)
(* A message is the set of term lists of routing_rules.yaml it matches; at *)
(* most three, which is a bound; a step reads a message of two, and the     *)
(* properties ask what the answer to each message of three would be.       *)
(* Confidences are the constants of that file, in hundredths.              *)
(***************************************************************************)
EXTENDS TransitionTable

CONSTANT EnableActive  \* enable_active_sex

ASSUME EnableAssumption == EnableActive \in BOOLEAN

VARIABLES
    bounded,  \* the configuration: the decision table rules low-risk pairs
    mode,     \* the mode of the last reply, "none" before the first
    orch,     \* what the orchestrator remembers between turns
    vague     \* history: turns in a row that said nothing a work context is held for

routeVars == <<bounded, mode, orch, vague>>

Modes == {"daily", "work", "sex"}
\* An unknown score closes the gate as a restrained one does.
Tiers == {"restrained", "ambivalent", "uninhibited"}
\* What the semantic classifier says with confidence, if it is heard at all;
\* "talk" is daily with an explicit intent.
Opinions == {"off", "daily", "talk", "work", "sex", "crisis"}

(***************************************************************************)
(* The term lists that decide the mode, in the order they are tried, and   *)
(* those that only add a signal.                                           *)
(***************************************************************************)
Priority == <<"meta", "crisis", "conflict", "system", "creative", "finance", "sex",
              "hint", "technical", "intimacy", "creativeTask">>
Deciding == {Priority[i] : i \in 1..Len(Priority)}
Signals == {"reference", "question", "close", "negated", "continue", "aftercare",
            "cue", "ask", "act", "machine", "short"}
Lists == Deciding \cup Signals
Messages == {{}} \cup {{a, b, c} : a, b, c \in Lists}
Short == {{}} \cup {{a, b} : a, b \in Lists}

Confidence == [meta |-> 86, crisis |-> 90, conflict |-> 92, system |-> 90, creative |-> 80,
               finance |-> 88, sex |-> 90, hint |-> 82, technical |-> 88, intimacy |-> 78,
               creativeTask |-> 76]
AntiFlap == 65
WorkOverride == 75
WorkExit == 90
HoldLimit == 2

Has(m, kinds) == m \cap kinds # {}

-----------------------------------------------------------------------------
(* The classifier *)

\* The submode is the first list that matches.
Submode(m) ==
    IF Has(m, Deciding)
      THEN Priority[CHOOSE i \in 1..Len(Priority) :
                      Priority[i] \in m /\ \A j \in 1..(i - 1) : Priority[j] \notin m]
      ELSE "default"

ModeOf(sub) ==
    CASE sub \in {"meta", "system", "creative", "finance", "technical", "creativeTask"} -> "work"
      [] sub \in {"sex", "hint"} -> "sex"
      [] OTHER -> "daily"

\* A default is never as confident as the anti-flap threshold.
DefaultConfidence(m) ==
    LET c == 55 + (IF "reference" \in m THEN 8 ELSE 0) + (IF "question" \in m THEN 5 ELSE 0)
    IN  IF c > 64 THEN 64 ELSE c

Classify(m) ==
    LET sub == Submode(m) IN
    [mode |-> ModeOf(sub), sub |-> sub,
     conf |-> IF sub = "default" THEN DefaultConfidence(m) ELSE Confidence[sub],
     system |-> Has(m, {"meta", "system"}), task |-> Has(m, {"finance", "technical"}),
     close |-> "close" \in m /\ "negated" \notin m,
     goOn |-> Has(m, {"negated", "continue", "sex", "hint"}),
     aftercare |-> "aftercare" \in m, stop |-> "crisis" \in m,
     crisis |-> sub = "crisis", flagged |-> sub \in {"meta", "crisis", "conflict", "sex", "hint"},
     held |-> FALSE, exhausted |-> FALSE, released |-> FALSE]

Classified == [m \in Messages |-> Classify(m)]

Asked(d) == d.task \/ d.system

\* Two turns in a row may lean on the work before them without saying so.
Annotate(d, m, previous, o) ==
    IF previous # "work" \/ d.sub # "default" THEN d
    ELSE IF Has(m, {"reference", "question"}) \/ o.holds < HoldLimit
           THEN [d EXCEPT !.held = TRUE]
           ELSE [d EXCEPT !.exhausted = TRUE]

-----------------------------------------------------------------------------
(* The semantic opinion *)

\* Fault: a crisis the semantic layer sees is not kept.
FuseDeaf(d, opinion) ==
    IF opinion \in {"off", "crisis", "talk"} \/ d.flagged THEN d ELSE [d EXCEPT !.mode = opinion]

OpinionMode(opinion) == IF opinion = "talk" THEN "daily" ELSE opinion

\* A flag, of either side, leaves the rules in force; so does a technical message.
Fuse(d, opinion) ==
    IF opinion = "off" THEN d
    ELSE IF opinion = "crisis" THEN [d EXCEPT !.crisis = TRUE, !.flagged = TRUE]
    ELSE IF \/ d.flagged
            \/ OpinionMode(opinion) # d.mode /\ d.sub \in {"technical", "finance", "creative", "creativeTask"}
           THEN d
    ELSE LET heard == [d EXCEPT !.mode = OpinionMode(opinion), !.sub = "semantic", !.conf = 80]
         IN  IF opinion = "talk"
               THEN [heard EXCEPT !.released = TRUE, !.held = FALSE, !.task = FALSE, !.system = FALSE]
               ELSE heard

-----------------------------------------------------------------------------
(* The context router: boundary, then work, then closeness *)

Context(d) ==
    d.mode = "sex" \/ d.goOn \/ d.aftercare \/ (d.mode = "daily" /\ d.sub \in {"intimacy", "default"})
Progression(d) ==
    d.mode = "sex" \/ (d.goOn /\ (~d.close \/ d.sub = "intimacy"))
Boundary(d) == d.stop \/ d.crisis \/ (d.close /\ d.mode # "work" /\ ~Asked(d))

\* The flap guard only turns a confirmed switch into a candidate.
Route(d, tier, o) ==
    IF Boundary(d) THEN "boundary"
    ELSE IF Asked(d) THEN "work"
    ELSE IF Progression(d) /\ Context(d)
           THEN IF tier = "uninhibited" /\ o.turns >= 2 THEN "confirmed" ELSE "candidate"
           ELSE "low"

\* Fault: a boundary is final even for a message that asks for work.
ResolveBoundaryFirst(d, route, tier) ==
    IF route = "boundary" THEN [d EXCEPT !.mode = "daily", !.sub = "cooldown"]
    ELSE IF route = "work" THEN [d EXCEPT !.mode = "work"] ELSE d

\* The router settles work and boundaries, and may veto a confirmed scene;
\* everything else stays as it was classified.
Resolve(d, route, tier) ==
    CASE route = "work" -> [d EXCEPT !.mode = "work"]
      [] route = "boundary" ->
           IF Asked(d) THEN [d EXCEPT !.mode = "work"]
           ELSE [d EXCEPT !.mode = "daily", !.sub = IF d.crisis THEN "crisis" ELSE "cooldown"]
      [] route = "confirmed" /\ d.mode = "sex" /\ ~EnableActive ->
           [d EXCEPT !.mode = "daily", !.sub = "affectionate"]
      [] OTHER -> d

-----------------------------------------------------------------------------
(* The transition manager *)

Continues(m) == Has(m, {"cue", "ask", "act"})
Gate(tier) == EnableActive /\ tier \in {"ambivalent", "uninhibited"}

\* A hint of a scene carries the signal that continues one.
EnterScene(d, m, previous, tier) ==
    IF previous # "sex" /\ d.sub = "hint" /\ ~d.goOn
      THEN IF previous = "none" THEN "daily" ELSE previous
    ELSE IF previous = "work" /\ d.sub = "hint" /\ tier \in {"ambivalent", "uninhibited"} THEN "work"
    ELSE IF previous = "sex" /\ (d.goOn \/ Continues(m)) THEN "sex"
    ELSE IF Gate(tier) THEN "sex" ELSE "daily"

\* A scene ends on a request for work, a question about it, or a close.
LeaveScene(d, m) ==
    IF d.mode = "work" THEN "work"
    ELSE IF ~d.goOn /\ "ask" \in m THEN "work"
    ELSE IF d.close /\ (d.aftercare \/ ~d.goOn) THEN "daily" ELSE "sex"

\* Fault: nobody counts how often a vague message has held the work context.
LeaveWorkNever(d, m) == IF d.released \/ d.close \/ d.stop \/ d.aftercare THEN "daily" ELSE "work"

\* Work is left on evidence, and never for lack of it.
LeaveWork(d, m) ==
    LET unsure == d.conf < AntiFlap IN
    IF unsure /\ ("short" \in m \/ Continues(m)) THEN "work"
    ELSE IF d.released \/ d.exhausted \/ d.close \/ d.stop \/ d.aftercare THEN "daily"
    ELSE IF "machine" \in m \/ d.conf < WorkExit \/ d.sub \notin {"intimacy", "conflict", "crisis"}
           THEN "work"
           ELSE "daily"

\* TransitionManager.transition, the authority by default.
Legacy(d, m, previous, tier) ==
    IF d.crisis /\ ~(d.mode = "work" /\ Asked(d)) THEN "daily"
    ELSE IF d.mode = "sex" THEN EnterScene(d, m, previous, tier)
    ELSE IF previous = "sex" THEN LeaveScene(d, m)
    ELSE IF previous = "work" /\ d.mode = "daily" THEN LeaveWork(d, m)
    ELSE d.mode

(***************************************************************************)
(* The decision table of TransitionTable.  It answers in place of the      *)
(* legacy manager between daily and work, if the configuration says so;    *)
(* for everything else it is only compared.                                *)
(***************************************************************************)
ForceEvent(d) ==
    IF d.crisis THEN "crisis" ELSE IF Asked(d) THEN "task"
    ELSE IF d.sub = "sex" THEN "progression" ELSE IF d.close THEN "close" ELSE "none"

ContinuationTarget(d, m) ==
    IF d.goOn THEN "scene" ELSE IF Has(m, {"ask", "act"}) THEN "work"
    ELSE IF "cue" \in m THEN "ambiguous" ELSE "none"

GateResult(d, tier) == IF d.mode # "sex" THEN "none" ELSE IF Gate(tier) THEN "pass" ELSE "fail"

Table(d, m, previous, tier) ==
    TableAnswer([from |-> previous, to |-> d.mode, force |-> ForceEvent(d),
                 target |-> ContinuationTarget(d, m), gate |-> GateResult(d, tier),
                 sub |-> IF d.sub \in {"hint", "intimacy"} THEN d.sub ELSE "other"],
                [conf |-> d.conf, short |-> "short" \in m, goesOn |-> Continues(m)])

LowRisk == {<<"daily", "work">>, <<"work", "daily">>, <<"none", "daily">>, <<"none", "work">>}

TableDecides(d, previous) == bounded /\ ~d.crisis /\ ~d.released /\ <<previous, d.mode>> \in LowRisk

Transition(d, m, previous, tier) ==
    LET answer == IF TableDecides(d, previous) THEN Table(d, m, previous, tier) ELSE Abstains
    IN  IF answer # Abstains THEN answer ELSE Legacy(d, m, previous, tier)

-----------------------------------------------------------------------------
(* A turn *)

Decision(m, opinion, previous, o) == Fuse(Annotate(Classified[m], m, previous, o), opinion)

Resolved(m, opinion, tier, previous, o) ==
    LET d == Decision(m, opinion, previous, o) IN Resolve(d, Route(d, tier, o), tier)

Answer(m, opinion, tier, previous, o) ==
    Transition(Resolved(m, opinion, tier, previous, o), m, previous, tier)

\* Turns since the last switch, and the ambiguous turns the work context has been
\* held through, both as far as they are ever compared.
Remember(m, opinion, previous, o, answer) ==
    [turns |-> IF o.last # "none" /\ answer # o.last THEN 0
               ELSE IF o.turns < 2 THEN o.turns + 1 ELSE 2,
     last |-> answer,
     holds |-> IF ~Decision(m, opinion, previous, o).held THEN 0
               ELSE IF o.holds < HoldLimit THEN o.holds + 1 ELSE HoldLimit]

NewOrch == [turns |-> 2, last |-> "none", holds |-> 0]

Turn(m, opinion, tier) ==
    LET answer == Answer(m, opinion, tier, mode, orch) IN
    /\ mode' = answer
    /\ orch' = Remember(m, opinion, mode, orch, answer)
    /\ vague' = IF mode = "work" /\ m \subseteq {"machine", "continue", "negated"} /\ opinion = "off"
                  THEN IF vague < 3 THEN vague + 1 ELSE vague
                  ELSE 0
    /\ UNCHANGED bounded

\* One orchestrator serves every session: the mode before is the session's own,
\* what the orchestrator remembers is not.
OtherSession(v) == v # mode /\ mode' = v /\ vague' = 0 /\ UNCHANGED <<bounded, orch>>

RouteInit == bounded \in BOOLEAN /\ mode = "none" /\ orch = NewOrch /\ vague = 0
RouteNext ==
    \/ \E m \in Short, opinion \in Opinions, tier \in Tiers : Turn(m, opinion, tier)
    \/ \E v \in Modes \cup {"none"} : OtherSession(v)
RouteSpec == RouteInit /\ [][RouteNext]_routeVars

-----------------------------------------------------------------------------
(* Properties *)

RouteTypeOK ==
    /\ bounded \in BOOLEAN
    /\ mode \in Modes \cup {"none"}
    /\ orch \in [turns : 0..2, last : Modes \cup {"none"}, holds : 0..HoldLimit]
    /\ vague \in 0..3

(***************************************************************************)
(* Whatever else a message says, and whichever layer saw it: words of      *)
(* crisis end a scene or keep it from starting, and a scene starts only    *)
(* when it is enabled and the desire gate is open.                         *)
(***************************************************************************)
SceneIsGuarded ==
    \A m \in Messages, opinion \in Opinions, tier \in Tiers :
        ("crisis" \in m \/ opinion = "crisis" \/ (mode # "sex" /\ ~Gate(tier)))
            => Answer(m, opinion, tier, mode, orch) # "sex"

(***************************************************************************)
(* A message that asks for work gets the work mode, next to words of       *)
(* crisis, conflict, closeness or a scene, and in every mode: only a       *)
(* confident semantic reading of it as plain talk says otherwise.          *)
(***************************************************************************)
WorkRequestWins ==
    \A m \in Messages, opinion \in Opinions \ {"talk", "daily"}, tier \in Tiers :
        Has(m, {"meta", "system", "finance", "technical"})
            => Answer(m, opinion, tier, mode, orch) = "work"

(***************************************************************************)
(* "Bounded ambiguous work continuation": the third message in a row that  *)
(* gives no reason to stay at work leaves it.                              *)
(***************************************************************************)
AmbiguityExpires == ~bounded => vague < 3 \/ mode # "work"

(***************************************************************************)
(* The decision table "preserves the current behavior exactly"             *)
(* (transition_policy.py, build_legacy_transition_table): where it decides,*)
(* it decides as the legacy manager does.                                  *)
(***************************************************************************)
TableKeepsBehaviour ==
    \A m \in Messages, opinion \in Opinions, tier \in Tiers :
        LET d == Resolved(m, opinion, tier, mode, orch) IN
        TableDecides(d, mode)
            => Table(d, m, mode, tier) \in {Abstains, Legacy(d, m, mode, tier)}

(***************************************************************************)
(* What is true of it: the table errs only by holding the work context.    *)
(***************************************************************************)
TableOnlyHolds ==
    bounded =>
        \A m \in Messages, opinion \in Opinions, tier \in Tiers :
            LET d == Resolved(m, opinion, tier, mode, orch)
                answer == Table(d, m, mode, tier)
            IN  TableDecides(d, mode) /\ ~(mode = "work" /\ answer = "work")
                  => answer \in {Abstains, Legacy(d, m, mode, tier)}
=============================================================================

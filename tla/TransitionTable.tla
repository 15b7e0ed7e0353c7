--------------------------- MODULE TransitionTable ---------------------------
(***************************************************************************)
(* The decision table of mode transitions                                  *)
(* (packages/persona_engine/persona_orchestrator/transition_policy.py): the *)
(* branches of the transition manager written as rules, of which the       *)
(* matching one of highest priority decides; and the conditions on the     *)
(* message that are applied to the rule afterwards, after which the table  *)
(* may have no answer.                                                     *)
(***************************************************************************)
EXTENDS Naturals, Sequences

Anything == "any"
Abstains == "abstains"

Forces == {"none", "crisis", "task", "progression", "close"}
Targets == {"none", "work", "scene", "ambiguous"}
Gates == {"none", "pass", "fail"}

\* What a rule is matched against: the mode before, the nominated mode, the
\* event, what the message continues, the desire gate, and the submode.  The
\* gate is asked for a nominated scene only.
TableInputs ==
    {x \in [from : {"none", "daily", "work", "sex"}, to : {"daily", "work", "sex"}, force : Forces,
            target : Targets, gate : Gates, sub : {"hint", "intimacy", "other"}] :
        x.to = "sex" <=> x.gate # "none"}

\* A condition leaves open what it does not name.
On(from, to) == [from |-> from, to |-> to, force |-> Anything, target |-> Anything, gate |-> Anything, sub |-> Anything]
Rule(id, condition, active, priority) ==
    [id |-> id, on |-> condition, active |-> active, priority |-> priority]

\* Boundaries and protected modes.
GuardRules == <<
    Rule("crisis", [On(Anything, Anything) EXCEPT !.force = "crisis"], "daily", 1000),
    Rule("task", [On(Anything, "work") EXCEPT !.force = "task"], "work", 650),
    Rule("hintAtWork", [On("work", "sex") EXCEPT !.sub = "hint", !.gate = "pass"], "work", 900),
    Rule("hint", [On(Anything, "sex") EXCEPT !.sub = "hint"], "daily", 900),
    Rule("sceneGoesOn", [On("sex", "sex") EXCEPT !.target = "scene"], "sex", 900),
    Rule("enterScene", [On(Anything, "sex") EXCEPT !.gate = "pass"], "sex", 900),
    Rule("blockScene", [On(Anything, "sex") EXCEPT !.gate = "fail"], "daily", 900),
    Rule("start", On("none", Anything), "nominated", 800),
    Rule("sceneToTask", [On("sex", Anything) EXCEPT !.force = "task"], "work", 700),
    Rule("sceneToWork", [On("sex", "daily") EXCEPT !.target = "work"], "work", 700),
    Rule("sceneCloses", [On("sex", "daily") EXCEPT !.force = "close"], "daily", 700),
    Rule("sceneHolds", On("sex", "daily"), "sex", 700) >>

\* Between daily and work.
WorkRules == <<
    Rule("holdAction", [On("work", "daily") EXCEPT !.target = "work"], "work", 600),
    Rule("closeness", [On("work", "daily") EXCEPT !.sub = "intimacy"], "daily", 550),
    Rule("holdWork", On("work", "daily"), "work", 540),
    Rule("toWork", On("daily", "work"), "work", 550),
    Rule("holdShort", On(Anything, "daily"), "previous", 500),
    Rule("enterWork", On(Anything, "work"), "work", 400),
    Rule("machine", On("work", "daily"), "work", 300),
    Rule("exitWork", On("work", "daily"), "daily", 200),
    Rule("holdUnsure", On(Anything, Anything), "previous", 100),
    Rule("accept", On(Anything, Anything), "nominated", 0) >>

Rules == GuardRules \o WorkRules

Matches(rule, x) == \A field \in DOMAIN x : rule.on[field] \in {Anything, x[field]}

\* The rules are sorted by priority, and the sort is stable.
Ahead(i, j) ==
    Rules[i].priority > Rules[j].priority \/ (Rules[i].priority = Rules[j].priority /\ i <= j)

Strongest(x) ==
    LET hits == {i \in 1..Len(Rules) : Matches(Rules[i], x)}
    IN  Rules[CHOOSE i \in hits : \A j \in hits : Ahead(i, j)]
Decided == [x \in TableInputs |-> Strongest(x)]

\* What of the message the rules do not say, and the table reads afterwards:
\* its confidence in hundredths, whether it is short, and whether it goes on.
Tells == [conf : {60, 70, 80, 95}, short : BOOLEAN, goesOn : BOOLEAN]

Holds(id, x, tells) ==
    CASE id = "holdShort" -> tells.short /\ tells.conf < 65 /\ x.from # "sex"
      [] id = "holdAction" -> tells.conf < 65 /\ tells.goesOn
      [] id = "enterWork" -> tells.conf >= 75
      [] id = "toWork" -> tells.conf >= 65
      [] id = "holdUnsure" -> tells.conf < 65 /\ x.from # "sex"
      [] OTHER -> TRUE

ActiveMode(rule, x, tells) ==
    CASE rule.active = "nominated" -> x.to
      [] rule.active = "previous" -> IF x.from = "none" THEN "daily" ELSE x.from
      [] rule.id = "closeness" /\ tells.conf < 90 -> "work"
      [] OTHER -> rule.active

TableAnswer(x, tells) ==
    LET rule == Decided[x]
    IN  IF Holds(rule.id, x, tells) THEN ActiveMode(rule, x, tells) ELSE Abstains

-----------------------------------------------------------------------------
(* Properties *)

(***************************************************************************)
(* Whatever else matches: a crisis leads to daily; a scene is entered only *)
(* through the gate; a request for work that is nominated as work gets it. *)
(***************************************************************************)
TableGuards ==
    \A x \in TableInputs, tells \in Tells :
        LET answer == TableAnswer(x, tells) IN
        /\ x.force = "crisis" => answer = "daily"
        /\ answer = "sex" => x.from = "sex" \/ x.gate = "pass"
        /\ x.force = "task" /\ x.to = "work" => answer = "work"

(***************************************************************************)
(* "Each input combination must match exactly one rule" (transition_policy,*)
(* class TransitionTable).                                                 *)
(***************************************************************************)
MatchIsUnique ==
    \A x \in TableInputs : \A i, j \in 1..Len(Rules) :
        Matches(Rules[i], x) /\ Matches(Rules[j], x) => i = j
=============================================================================

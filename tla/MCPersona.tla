----------------------------- MODULE MCPersona -----------------------------
(***************************************************************************)
(* What runs beside the host in a turn.  The persona engine: the routing   *)
(* of one message, the turn hooks that call it, the emotion file, and the  *)
(* loading of the neural model.  The hooks of the ZCode adapter.  The      *)
(* model router: its request threads, and the commands around it.          *)
(*                                                                         *)
(* A behaviour runs one of them.  "routing" answers every message in       *)
(* every memory the state machine can have; "turns" lets the provider of   *)
(* TurnProvider advance the same state machine with a handful of messages. *)
(***************************************************************************)
EXTENDS TurnProvider, EmotionState, SentimentLoader, HostHooks, ModelRouter, TLC

VARIABLE part

engineVars == <<provVars, emoVars, loadVars>>
personaVars == <<part, engineVars, hookVars, routerVars>>
besideVars == <<hookVars, routerVars>>

SpokenHere == {{}, {"technical"}, {"intimacy"}, {"sex"}}

\* The variables of a part that does not run have no value that matters.
NoHooks ==
    /\ enabled = "off" /\ mood = "off" /\ temp = "off" /\ flag = "off" /\ tool = "off" /\ allowed = "off"
    /\ capsules = "off" /\ written = "off" /\ log = "off" /\ granted = "off" /\ hook = "off" /\ io = "off"
    /\ turns = "off" /\ hookFaults = "off"
NoRouter ==
    /\ configFile = "off" /\ loaded = "off" /\ edits = "off" /\ req = "off" /\ rows = "off" /\ answers = "off"
    /\ routerFaults = "off" /\ proc = "off" /\ pidfile = "off" /\ op = "off" /\ reported = "off"

PersonaInit ==
    /\ part \in {"routing", "turns", "emotion", "loader", "hooks", "requests", "service"}
    /\ ProvInit
    /\ session = CHOOSE s \in Sessions : TRUE
    /\ part # "routing" => ~bounded
    /\ EmoInit /\ (part # "emotion" => file = NoState)
    /\ LoadInit
    /\ IF part = "hooks" THEN HooksInit ELSE NoHooks
    /\ IF part \in {"requests", "service"} THEN RouterInit ELSE NoRouter
    /\ part = "service" => \A t \in Requests : req[t].payload = [model |-> "virtual", bucket |-> "none"]

RunRouting == part = "routing" /\ RouteNext /\ UNCHANGED <<part, turnVars, emoVars, loadVars, besideVars>>
RunTurns == part = "turns" /\ ProvNext /\ UNCHANGED <<part, emoVars, loadVars, besideVars>>
RunEmotion == part = "emotion" /\ EmoNext /\ UNCHANGED <<part, provVars, loadVars, besideVars>>
RunLoader == part = "loader" /\ LoadNext /\ UNCHANGED <<part, provVars, emoVars, besideVars>>

RunHooks == part = "hooks" /\ HooksNext /\ UNCHANGED <<part, engineVars, routerVars>>
RunRequests == part = "requests" /\ RequestNext /\ UNCHANGED <<part, engineVars, hookVars>>
RunService == part = "service" /\ ServiceNext /\ UNCHANGED <<part, engineVars, hookVars>>

PersonaNext == RunRouting \/ RunTurns \/ RunEmotion \/ RunLoader \/ RunHooks \/ RunRequests \/ RunService
PersonaSpec == PersonaInit /\ [][PersonaNext]_personaVars

(***************************************************************************)
(* SceneIsGuarded, WorkRequestWins, AmbiguityExpires and TableOnlyHolds of *)
(* PersonaRouting, for every message, and TableGuards of its table.  They  *)
(* ask for the answers to all messages, so they are asked only where       *)
(* "routing" runs, which reaches every memory that "turns" reaches.        *)
(***************************************************************************)
RoutingSafe ==
    part = "routing" =>
        SceneIsGuarded /\ WorkRequestWins /\ AmbiguityExpires /\ TableGuards /\ TableOnlyHolds

\* TurnsStaySeparate and ModeIsTheSessions of TurnProvider: a turn and a session
\* get what is theirs.
TurnsSafe == part = "turns" => TurnsStaySeparate /\ ModeIsTheSessions

(***************************************************************************)
(* EmotionSafe of EmotionState, LoadsOnce of SentimentLoader,              *)
(* ContinuationsBounded and WritesAuthorised of HostHooks, KeyGoesHome,    *)
(* AnswerIsAudited and StartedIsOurs of ModelRouter: what several          *)
(* processes or threads share is neither lost, nor done twice, nor used    *)
(* for what it was not granted for.                                        *)
(***************************************************************************)
SharedSafe ==
    /\ part = "turns" => ProvTypeOK
    /\ part = "emotion" => EmoTypeOK /\ EmotionSafe
    /\ part = "loader" => LoadTypeOK /\ LoadsOnce
    /\ part = "hooks" => HooksTypeOK /\ ContinuationsBounded /\ WritesAuthorised
    /\ part \in {"requests", "service"} => RouterTypeOK /\ KeyGoesHome /\ AnswerIsAudited /\ StartedIsOurs
=============================================================================

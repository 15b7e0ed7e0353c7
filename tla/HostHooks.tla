----------------------------- MODULE HostHooks -----------------------------
(***************************************************************************)
(* SoulLink beside the ZCode host: the lifecycle hooks, each a process of  *)
(* its own that fails open (soul_link/zcode_hook.py), the emotion bridge   *)
(* they share through files (zcode_emotion.py), the tool server with its   *)
(* own environment (zcode_mcp.py) and the log of the host's model calls    *)
(* that an observer reads (zcode_observer.py).                             *)
(*                                                                         *)
(* The hooks of one session follow each other; those of two sessions do    *)
(* not.  What is recalled and injected is GovernedRecall; how the emotion  *)
(* is computed and stored is EmotionState: here it is calm or strong.      *)
(***************************************************************************)
EXTENDS Integers, FiniteSets, Sequences, SequencesExt

CONSTANTS
    HostSessions,
    Limit,         \* STOP_CONTINUE_LIMIT
    Scan,          \* records the observer looks at
    MaxCalls,      \* bound: prompts, tool calls and stops
    MaxHookFaults  \* bound: hooks killed or failing, and switches thrown

ASSUME HooksAssumption == Limit \in Nat /\ MaxCalls \in Nat /\ MaxHookFaults \in Nat

VARIABLES
    enabled,     \* adapter.json: emotion_enabled
    mood,        \* STATE.md
    temp,        \* the flag's temporary file, one name for all processes
    flag,        \* emotion-state.json: continue
    log,         \* hook-events.jsonl: continued stops of each session
    hook,        \* the hook at work for each session
    tool,        \* the tool call of each session
    allowed,     \* ALLOW_MEMORY_WRITES in the hooks' and in the server's environment
    capsules,    \* transient evidence, [key -> call]
    io,          \* the host's log of each session's model calls
    granted,     \* history: continuations each session was given
    written,     \* history: the server's permission at each write
    turns, hookFaults

moodVars == <<enabled, mood, temp, flag>>
toolVars == <<tool, allowed, capsules, written>>
stopVars == <<log, granted>>
hookVars == <<moodVars, toolVars, stopVars, hook, io, turns, hookFaults>>

NoHook == [pc |-> "idle", strong |-> FALSE]
NoTool == [pc |-> "idle", name |-> "none", id |-> 0]

HooksInit ==
    /\ enabled = TRUE /\ mood = "calm" /\ temp = {} /\ flag = FALSE
    /\ log = [s \in HostSessions |-> 0] /\ granted = [s \in HostSessions |-> 0]
    /\ hook = [s \in HostSessions |-> NoHook] /\ tool = [s \in HostSessions |-> NoTool]
    /\ allowed \in [hooks : BOOLEAN, server : BOOLEAN]
    /\ capsules = {} /\ io = [s \in HostSessions |-> <<>>] /\ written = {}
    /\ turns = 0 /\ hookFaults = 0

Call == turns < MaxCalls /\ turns' = turns + 1
HookFault == hookFaults < MaxHookFaults /\ hookFaults' = hookFaults + 1
AtHook(s, pc) == hook[s].pc = pc
To(s, pc) == hook' = [hook EXCEPT ![s].pc = pc]

-----------------------------------------------------------------------------
(* UserPromptSubmit and EmotionBridge.update *)

\* The prompt reaches the model after its hook; without the emotion layer the hook only recalls.
Prompt(s) ==
    /\ Call
    /\ AtHook(s, "idle") /\ tool[s] = NoTool
    /\ IF enabled THEN To(s, "mood") ELSE UNCHANGED hook
    /\ io' = [io EXCEPT ![s] = Append(@, turns')]
    /\ UNCHANGED <<moodVars, toolVars, stopVars, hookFaults>>

UpdateMood(s) ==
    /\ AtHook(s, "mood")
    /\ mood' \in {"calm", "strong"}
    /\ To(s, "decide")
    /\ UNCHANGED <<enabled, temp, flag, toolVars, stopVars, io, turns, hookFaults>>

\* _decide_continue reads the state's tone once more.
DecideContinue(s) ==
    /\ AtHook(s, "decide")
    /\ hook' = [hook EXCEPT ![s] = [pc |-> "temp", strong |-> mood = "strong"]]
    /\ UNCHANGED <<moodVars, toolVars, stopVars, io, turns, hookFaults>>

WriteTemp(s) ==
    /\ AtHook(s, "temp")
    /\ temp' = {hook[s].strong}
    /\ To(s, "replace")
    /\ UNCHANGED <<enabled, mood, flag, toolVars, stopVars, io, turns, hookFaults>>

\* Another process may have moved the temporary file away: the error is swallowed.
ReplaceFlag(s) ==
    /\ AtHook(s, "replace")
    /\ IF temp = {} THEN UNCHANGED <<flag, temp>> ELSE flag' \in temp /\ temp' = {}
    /\ hook' = [hook EXCEPT ![s] = NoHook]
    /\ UNCHANGED <<enabled, mood, toolVars, stopVars, io, turns, hookFaults>>

-----------------------------------------------------------------------------
(* Stop *)

\* Fault: the answer is given although its record is not in the log.
StopUnlogged(s) ==
    /\ Call
    /\ AtHook(s, "idle") /\ tool[s] = NoTool
    /\ IF flag /\ log[s] < Limit THEN To(s, "answer") ELSE UNCHANGED hook
    /\ UNCHANGED <<moodVars, toolVars, stopVars, io, hookFaults>>

\* The flag is asked first, whether or not the layer is enabled, and then the log.
StopHook(s) ==
    /\ Call
    /\ AtHook(s, "idle") /\ tool[s] = NoTool
    /\ IF flag /\ log[s] < Limit THEN To(s, "log") ELSE UNCHANGED hook
    /\ UNCHANGED <<moodVars, toolVars, stopVars, io, hookFaults>>

LogContinued(s) ==
    /\ AtHook(s, "log")
    /\ log' = [log EXCEPT ![s] = @ + 1]
    /\ To(s, "answer")
    /\ UNCHANGED <<moodVars, toolVars, granted, io, turns, hookFaults>>

AnswerStop(s) ==
    /\ AtHook(s, "answer")
    /\ granted' = [granted EXCEPT ![s] = @ + 1]
    /\ hook' = [hook EXCEPT ![s] = NoHook]
    /\ UNCHANGED <<moodVars, toolVars, log, io, turns, hookFaults>>

\* A hook that is killed, or whose audit record cannot be written, answers nothing.
HookFails(s) ==
    /\ HookFault
    /\ hook[s] # NoHook
    /\ hook' = [hook EXCEPT ![s] = NoHook]
    /\ UNCHANGED <<moodVars, toolVars, stopVars, io, turns>>

-----------------------------------------------------------------------------
(* PreToolUse, PermissionRequest, the tool server and PostToolUse *)

\* The hook knows the write tool by its bare name; a host may qualify it.
Names == {"search", "remember", "server__remember"}

\* A hook that fails lets the call through.
PreToolUse(s) ==
    /\ Call
    /\ AtHook(s, "idle") /\ tool[s] = NoTool
    /\ \E name \in Names, id \in {0, turns'} :
         \/ /\ name = "remember" /\ ~allowed.hooks
            /\ UNCHANGED <<tool, hookFaults>>
         \/ /\ name = "remember" => allowed.hooks
            /\ tool' = [tool EXCEPT ![s] = [pc |-> "called", name |-> name, id |-> id]]
            /\ UNCHANGED hookFaults
         \/ /\ HookFault
            /\ tool' = [tool EXCEPT ![s] = [pc |-> "called", name |-> name, id |-> id]]
    /\ UNCHANGED <<moodVars, allowed, capsules, written, stopVars, hook, io>>

\* Fault: the server trusts the hook to have asked.
RememberTrusting(s) ==
    /\ tool[s].pc = "called"
    /\ tool' = [tool EXCEPT ![s].pc = "returned"]
    /\ written' = IF tool[s].name # "search" THEN written \cup {allowed.server} ELSE written
    /\ UNCHANGED <<moodVars, allowed, capsules, stopVars, hook, io, turns, hookFaults>>

\* The server looks at its own environment; the write itself is MemoryAuthority.
RememberTool(s) ==
    /\ tool[s].pc = "called"
    /\ tool' = [tool EXCEPT ![s].pc = "returned"]
    /\ written' = IF tool[s].name # "search" /\ allowed.server THEN written \cup {allowed.server} ELSE written
    /\ UNCHANGED <<moodVars, allowed, capsules, stopVars, hook, io, turns, hookFaults>>

\* The evidence of a call lies under its id, or under the tool's name.
CapsuleKey(call) == IF call.id # 0 THEN <<"call", call.id>> ELSE <<"name", call.name>>

PostToolUse(s) ==
    /\ tool[s].pc = "returned"
    /\ tool' = [tool EXCEPT ![s] = NoTool]
    /\ \/ /\ LET key == CapsuleKey(tool[s]) IN
             capsules' = {c \in capsules : c.key # key} \cup {[key |-> key, id |-> tool[s].id, session |-> s]}
          /\ UNCHANGED hookFaults
       \/ HookFault /\ UNCHANGED capsules
    /\ UNCHANGED <<moodVars, allowed, written, stopVars, hook, io, turns>>

\* The operator switches the emotion layer, or a process starts in another environment.
SwitchSetting ==
    /\ HookFault
    /\ \/ enabled' = ~enabled /\ UNCHANGED allowed
       \/ allowed' = [allowed EXCEPT !.hooks = ~@] /\ UNCHANGED enabled
       \/ allowed' = [allowed EXCEPT !.server = ~@] /\ UNCHANGED enabled
    /\ UNCHANGED <<mood, temp, flag, tool, capsules, written, stopVars, hook, io, turns>>

HooksNext ==
    \/ \E s \in HostSessions :
         \/ Prompt(s) \/ UpdateMood(s) \/ DecideContinue(s) \/ WriteTemp(s) \/ ReplaceFlag(s)
         \/ StopHook(s) \/ LogContinued(s) \/ AnswerStop(s) \/ HookFails(s)
         \/ PreToolUse(s) \/ RememberTool(s) \/ PostToolUse(s)
    \/ SwitchSetting

HooksSpec == HooksInit /\ [][HooksNext]_hookVars

-----------------------------------------------------------------------------
(* Properties *)

HooksTypeOK ==
    /\ enabled \in BOOLEAN /\ flag \in BOOLEAN /\ mood \in {"calm", "strong"}
    /\ temp \in SUBSET BOOLEAN /\ Cardinality(temp) <= 1
    /\ turns \in 0..MaxCalls /\ hookFaults \in 0..MaxHookFaults

(***************************************************************************)
(* No session is kept going more than Limit times, though the flag stands  *)
(* for as long as the mood of any session keeps it, hooks are killed       *)
(* between counting and answering, and sessions run side by side           *)
(* (zcode_hook.py: "optional emotion-driven continuation (bounded to 3)"). *)
(***************************************************************************)
ContinuationsBounded == \A s \in HostSessions : granted[s] <= Limit

(***************************************************************************)
(* Nothing is remembered without the server's permission, whichever way    *)
(* the call got past the hook: by another name, or because the hook failed *)
(* open.                                                                   *)
(***************************************************************************)
WritesAuthorised == written \subseteq {TRUE}

(***************************************************************************)
(* Not kept.  "false strips the emotion layer for the deployment"          *)
(* (zcode_emotion.py): the flag left behind still keeps sessions going.    *)
(* The flag tells the mood once no hook is at work: two sessions may leave *)
(* an older decision.  The observer looks at the newest records of a       *)
(* session (zcode_observer.py): it takes the oldest of the newest file.    *)
(***************************************************************************)
DisabledIsSilent == [][\A s \in HostSessions : granted'[s] # granted[s] => enabled]_hookVars
FlagTellsMood == hookFaults = 0 /\ (\A s \in HostSessions : hook[s] = NoHook) => (flag <=> mood = "strong")

Scanned(s) == SubSeq(io[s], 1, Min({Len(io[s]), Scan}))
ObserverSeesNewest == \A s \in HostSessions : io[s] # <<>> => Last(io[s]) = Last(Scanned(s))
=============================================================================

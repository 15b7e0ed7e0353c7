--------------------------- MODULE SentimentLoader ---------------------------
(***************************************************************************)
(* The lazy load of the neural model                                       *)
(* (packages/persona_engine/sentiment_analyzer.py, _try_load).             *)
(*                                                                         *)
(* Every detector of a process shares one analyzer.  A thread that needs   *)
(* it looks without the lock first, takes the lock, looks again, and       *)
(* loads.  A failed load is not repeated before a cooldown has passed, a   *)
(* failure being forgotten while the next load runs.                       *)
(***************************************************************************)
EXTENDS Naturals, Sequences

CONSTANTS
    Threads,
    Cooldown,   \* ticks a failure is remembered for
    MaxTicks    \* bound: ticks of the clock

VARIABLES
    model,      \* the analyzer's flags
    holder,     \* the thread that holds the load lock, or NoThread
    thread,     \* thread[t]: where t stands, and what it was answered
    now,
    loads       \* history: the moments loads began at

CONSTANT NoThread

ASSUME LoadAssumption == Cooldown \in Nat /\ MaxTicks \in Nat /\ NoThread \notin Threads

loadVars == <<model, holder, thread, now, loads>>

NoFailure == MaxTicks + 1

LoadInit ==
    /\ model = [available |-> FALSE, attempted |-> FALSE, failedAt |-> NoFailure]
    /\ holder = NoThread
    /\ thread = [t \in Threads |-> "out"]
    /\ now = 0
    /\ loads = <<>>

Cooling == model.attempted /\ model.failedAt # NoFailure /\ now - model.failedAt < Cooldown
At(t, here, there) == thread[t] = here /\ thread' = [thread EXCEPT ![t] = there]

\* The unlocked look; a caller that may not block goes no further.
Look(t, blocking) ==
    /\ At(t, "out", IF model.available THEN "served"
                    ELSE IF ~blocking \/ Cooling THEN "refused" ELSE "waiting")
    /\ UNCHANGED <<model, holder, now, loads>>

Lock(t) ==
    /\ holder = NoThread
    /\ At(t, "waiting", "inside")
    /\ holder' = t
    /\ UNCHANGED <<model, now, loads>>

Unlock == holder' = NoThread

\* Fault: the flags are not read again under the lock.
LookAgainNot(t) ==
    /\ At(t, "inside", "loading")
    /\ model' = [model EXCEPT !.attempted = TRUE, !.failedAt = NoFailure]
    /\ loads' = Append(loads, now)
    /\ UNCHANGED <<holder, now>>

LookAgain(t) ==
    /\ IF model.available \/ Cooling
         THEN /\ At(t, "inside", IF model.available THEN "served" ELSE "refused")
              /\ Unlock
              /\ UNCHANGED <<model, loads>>
         ELSE /\ At(t, "inside", "loading")
              /\ model' = [model EXCEPT !.attempted = TRUE, !.failedAt = NoFailure]
              /\ loads' = Append(loads, now)
              /\ UNCHANGED holder
    /\ UNCHANGED now

Loaded(t) ==
    /\ At(t, "loading", "served")
    /\ model' = [model EXCEPT !.available = TRUE]
    /\ Unlock
    /\ UNCHANGED <<now, loads>>

LoadFails(t) ==
    /\ At(t, "loading", "refused")
    /\ model' = [model EXCEPT !.failedAt = now]
    /\ Unlock
    /\ UNCHANGED <<now, loads>>

\* The next message of the thread's conversation.
AskAgain(t) ==
    /\ thread[t] \in {"served", "refused"}
    /\ thread' = [thread EXCEPT ![t] = "out"]
    /\ UNCHANGED <<model, holder, now, loads>>

Pass == now < MaxTicks /\ now' = now + 1 /\ UNCHANGED <<model, holder, thread, loads>>

LoadNext ==
    \/ Pass
    \/ \E t \in Threads :
         \/ \E blocking \in BOOLEAN : Look(t, blocking)
         \/ Lock(t) \/ LookAgain(t) \/ Loaded(t) \/ LoadFails(t) \/ AskAgain(t)

LoadSpec == LoadInit /\ [][LoadNext]_loadVars

-----------------------------------------------------------------------------
(* Properties *)

LoadTypeOK ==
    /\ model \in [available : BOOLEAN, attempted : BOOLEAN, failedAt : 0..NoFailure]
    /\ holder \in Threads \cup {NoThread}
    /\ thread \in [Threads -> {"out", "waiting", "inside", "loading", "served", "refused"}]
    /\ now \in 0..MaxTicks

(***************************************************************************)
(* However many threads meet at the first message, the weights are loaded  *)
(* by one of them at a time and once only, and a failed load is repeated   *)
(* by nobody within the cooldown, not even by a thread that was already    *)
(* waiting for the lock.                                                   *)
(***************************************************************************)
LoadsOnce ==
    /\ \A t, u \in Threads : thread[t] = "loading" /\ thread[u] = "loading" => t = u
    /\ model.available => \A t \in Threads : thread[t] # "loading"
    /\ \A i \in 1..Len(loads) - 1 : loads[i + 1] - loads[i] >= Cooldown
=============================================================================

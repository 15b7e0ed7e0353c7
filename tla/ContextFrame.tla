---------------------------- MODULE ContextFrame ----------------------------
(***************************************************************************)
(* The active frame: what compress makes of a conversation                 *)
(* (soul_link/hermes_plugin/context_engine.py, with the sanitizer and the  *)
(* reading of the request of packages/pcltm/context_engine.py).            *)
(*                                                                         *)
(* The host appends messages and calls compress when the prompt is too     *)
(* long, in the middle of a tool loop as well as between turns; what       *)
(* compress returns is the conversation from then on.                      *)
(*                                                                         *)
(* Texts are identities.  A size is a number of units of 64 tokens, the    *)
(* smallest amount the engine compares with.                               *)
(***************************************************************************)
EXTENDS Selections

CONSTANTS
    Texts,       \* bound: what a user may ask for
    Calls,       \* bound: identifiers of tool calls
    Budgets,     \* message budgets of a request, 0 when the host gives none
    Reach,       \* continuity_turns: items of older dialogue the capsule may list
    MaxMessages  \* bound: length of a conversation

ASSUME FrameAssumption == "none" \notin Texts /\ Budgets \subseteq Nat /\ Reach \in Nat /\ MaxMessages \in Nat

VARIABLES
    msgs,     \* the conversation
    tried,    \* keys of tool evidence this engine has handed to the archive
    removed   \* history: keys of failed results that compress has taken out

ctxVars == <<msgs, tried, removed>>

(***************************************************************************)
(* A user message is a request, a continuation ("weak"), a request that    *)
(* quotes a marker of a handoff, or "synthetic": a handoff or runtime      *)
(* control text.  A tool result is short, or long and about a failure.     *)
(* The system messages that carry a text are this engine's own.            *)
(***************************************************************************)
User(kind, text) == [role |-> "user", kind |-> kind, text |-> text, calls |-> {}, size |-> 1]
Assistant(calls, size) == [role |-> "assistant", kind |-> "say", text |-> "none", calls |-> calls, size |-> size]
Tool(kind, call) == [role |-> "tool", kind |-> kind, text |-> call, calls |-> {},
                     size |-> IF kind = "failed" THEN 40 ELSE 1]
System(kind, text, size) == [role |-> "system", kind |-> kind, text |-> text, calls |-> {}, size |-> size]

NoBudget == 64     \* the message budget without a request budget
Threshold == 128   \* the request limit without one

Cap(n, limit) == IF n > limit THEN limit ELSE n
Size(ms) == FoldLeft(LAMBDA n, m : n + m.size, 0, ms)

-----------------------------------------------------------------------------
(* Reading the conversation *)

(***************************************************************************)
(* sanitize_tool_chain: a result stays if the assistant message before it  *)
(* asked for it and it is the first; any other message closes the run.     *)
(***************************************************************************)
Sanitize(ms) ==
    LET step(acc, m) ==
          CASE m.role = "assistant" -> [open |-> m.calls, out |-> Append(acc.out, m)]
            [] m.role = "tool" /\ m.text \in acc.open ->
                 [open |-> acc.open \ {m.text}, out |-> Append(acc.out, m)]
            [] m.role = "tool" /\ m.text \notin acc.open -> acc
            [] OTHER -> [open |-> {}, out |-> Append(acc.out, m)]
    IN  FoldLeft(step, [open |-> {}, out |-> <<>>], ms).out

Synthetic(m) == m.kind = "synthetic"

\* The engine looks for the markers of a handoff anywhere in the text.
Real(m) == m.role = "user" /\ m.kind \in {"request", "weak"}
LatestUser(ms) == SelectLastInSeq(ms, Real)

\* Fault: a continuation is taken for the request.
ReadRequestWeak(ms) ==
    LET step(acc, m) ==
          IF m.role # "user" \/ Synthetic(m) THEN acc ELSE [latest |-> m.text, asked |-> m.text]
    IN  FoldLeft(step, [latest |-> "none", asked |-> "none"], ms)

(***************************************************************************)
(* build_shadow_context: the latest user text, and the request it names; a *)
(* continuation is no request of its own.                                  *)
(***************************************************************************)
ReadRequest(ms) ==
    LET step(acc, m) ==
          IF m.role # "user" \/ Synthetic(m) THEN acc
          ELSE [latest |-> m.text, asked |-> IF m.kind = "weak" THEN acc.asked ELSE m.text]
    IN  FoldLeft(step, [latest |-> "none", asked |-> "none"], ms)

Requested(ms) ==
    LET r == ReadRequest(ms) IN IF r.asked = "none" THEN r.latest ELSE r.asked

\* _active_frame_message
Frame(ms) == System("frame", <<ReadRequest(ms).latest, Requested(ms)>>, 3)

-----------------------------------------------------------------------------
(* The tail: the current turn *)

\* _clean_tail_message and _tool_result_capsule
Kept(m) == ~Synthetic(m)
Cleaned(m) ==
    IF m.role = "tool" THEN [m EXCEPT !.size = Cap(@, 5)] ELSE [m EXCEPT !.size = Cap(@, 16)]

\* Fault: the frame is built from everything that fits.
TailFromAll(ms, latest, budget) ==
    LET step(out, m) ==
          IF ~Kept(m) \/ m.kind = "quote" THEN out
          ELSE IF Len(out) > 1 /\ Size(out) + Cleaned(m).size > budget THEN out
          ELSE Append(out, Cleaned(m))
    IN  FoldLeft(step, <<Frame(ms)>>, ms)

\* What does not fit is left out, except the user's own message.
CurrentTail(ms, latest, budget) ==
    LET step(out, m) ==
          IF ~Kept(m) \/ m.kind = "quote" THEN out
          ELSE IF Len(out) > 1 /\ Size(out) + Cleaned(m).size > budget THEN out
          ELSE Append(out, Cleaned(m))
    IN  FoldLeft(step, <<Frame(ms)>>, SubSeq(ms, latest, Len(ms)))

-----------------------------------------------------------------------------
(* The continuity capsule: a bounded list of what went before *)

LineSize(m) == Cap(m.size, IF m.role = "system" THEN 3 ELSE 4)
Listable(m) ==
    Kept(m) /\ m.kind # "quote" /\ (m.role = "system" => m.kind \in {"frame", "capsule", "pending"})

\* One step of the walk back: repeated requests are listed once, dialogue and
\* other items have their own limits, and what is too long is passed over.
Listed(acc, m, budget) ==
    IF ~Listable(m) THEN acc
    ELSE IF m.role = "user" /\ m.text \in acc.seen THEN acc
    ELSE IF m.role \in {"user", "assistant"} /\ (acc.turns >= Reach \/ Cardinality(acc.seen) >= Reach)
      THEN acc
    ELSE IF m.role \in {"tool", "system"} /\ Len(acc.items) >= Reach THEN acc
    ELSE IF acc.size + LineSize(Cleaned(m)) > budget THEN acc
    ELSE [items |-> <<m>> \o acc.items,
          size |-> acc.size + LineSize(Cleaned(m)),
          turns |-> IF m.role \in {"user", "assistant"} THEN acc.turns + 1 ELSE acc.turns,
          seen |-> IF m.role = "user" THEN acc.seen \cup {m.text} ELSE acc.seen]

CapsuleHeader == 4

\* <<>> when there is nothing to list or no room; the room is a fifth of the
\* budget, and at most what the tail has left.
Capsule(ms, latest, budget, tail) ==
    LET left == budget - Size(tail)
        room == LET r == Cap(budget \div 5, 37) IN Cap(IF r < 2 THEN 2 ELSE r, left)
        walk == FoldLeft(LAMBDA acc, m : Listed(acc, m, room),
                         [items |-> <<>>, size |-> 0, turns |-> 0, seen |-> {}],
                         Reverse(SubSeq(ms, 1, latest - 1)))
        item == System("capsule", walk.seen, CapsuleHeader + walk.size)
    IN  IF latest = 1 \/ budget < 8 \/ Size(tail) + 4 > budget \/ walk.items = <<>>
             \/ Size(tail) + item.size > budget
          THEN <<>> ELSE <<item>>

-----------------------------------------------------------------------------
(* compress *)

Pending(ms) == Only(ms, {m \in ToSet(ms) : m.role = "system" /\ m.kind = "pending"})

\* The first message that is not a system message, or the last one.
DropOne(ms) ==
    LET i == SelectInSeq(ms, LAMBDA m : m.role # "system") IN RemoveAt(ms, IF i = 0 THEN Len(ms) ELSE i)

\* The message budget that a request budget leaves, a margin of 512 tokens aside.
MessageBudget(request) ==
    IF request = 0 THEN NoBudget
    ELSE LET b == request - Cap(8, request - 1) IN IF b < 1 THEN 1 ELSE b
Limit(request) == IF request = 0 THEN Threshold ELSE request

Assembled(ms, request) ==
    LET clean == Sanitize(ms)
        latest == LatestUser(clean)
        budget == MessageBudget(request)
        tail == CurrentTail(clean, latest, budget)
        frame == IF latest = 0 THEN <<>>
                 ELSE <<Head(tail)>> \o Capsule(clean, latest, budget, tail) \o Tail(tail)
        pending == Pending(clean)
    IN  IF pending # <<>> /\ (frame = <<>> \/ Size(frame) + pending[1].size <= budget)
          THEN <<pending[1]>> \o frame ELSE frame

\* A frame no shorter than the conversation loses a message.
Converged(ms, frame) ==
    IF Len(frame) >= Len(ms) /\ Len(frame) > 1 /\ \E i \in 1..Len(frame) : frame[i].role # "system"
      THEN DropOne(frame) ELSE frame

\* Fault: the frame is sent as it was assembled.
FittedNot(frame, request) == frame

\* _fit_messages_to_request_budget
Fitted(frame, request) ==
    IF request = 0 THEN frame
    ELSE FoldLeft(LAMBDA f, i : IF Len(f) > 1 /\ Size(f) > request THEN DropOne(f) ELSE f,
                  frame, frame)

Compressed(ms, request) == Fitted(Converged(ms, Assembled(ms, request)), request)
Fails(ms, request) == Size(Compressed(ms, request)) > Limit(request)

\* Fault: whatever is long is evidence.
FailedOrLong(ms) == {ms[i].text : i \in {j \in 1..Len(ms) : ms[j].size >= 16}}

Failed(ms) == {ms[i].text : i \in {j \in 1..Len(ms) : ms[j].role = "tool" /\ ms[j].kind = "failed"}}

\* Fault: only what stays in the frame is archived.
ArchivedTail(ms) ==
    LET clean == Sanitize(ms) IN
    IF LatestUser(clean) = 0 THEN {} ELSE Failed(SubSeq(clean, LatestUser(clean), Len(clean)))

\* Evidence is archived before the frame is built, from the whole conversation.
Archived(ms) ==
    LET clean == Sanitize(ms) IN IF LatestUser(clean) = 0 THEN {} ELSE Failed(clean)

\* A key is tried once, whether or not it can be written, and a frame over the
\* limit is an error with the evidence archived all the same.  What the two
\* stores keep is read by nobody here.
Compress(request) ==
    LET clean == Sanitize(msgs)
        out == Compressed(msgs, request)
    IN
    /\ tried' = tried \cup Archived(msgs)
    /\ IF Fails(msgs, request)
         THEN UNCHANGED <<msgs, removed>>
         ELSE /\ msgs' = out
              /\ removed' = IF LatestUser(clean) = 0 THEN removed
                            ELSE removed \cup (Failed(clean) \ Failed(out))

\* on_session_reset
ResetEngine == msgs' = <<>> /\ tried' = {} /\ removed' = {}

-----------------------------------------------------------------------------
(* The host *)

Say(m) ==
    /\ Len(msgs) < MaxMessages
    /\ msgs' = Append(msgs, m)
    /\ UNCHANGED <<tried, removed>>

\* The user may speak at any moment; a result may come late, or twice.
Sayings ==
    {User("request", t) : t \in Texts} \cup {User("quote", t) : t \in Texts}
    \cup {[User("request", t) EXCEPT !.size = 16] : t \in Texts}
    \cup {User("weak", "go on"), User("synthetic", "none")}
    \cup {Assistant({}, 1)} \cup {Assistant({c}, 1) : c \in Calls} \cup {Assistant({c}, 12) : c \in Calls}
    \cup {Tool("short", c) : c \in Calls} \cup {Tool("failed", c) : c \in Calls}
    \cup {System("pending", "none", 2)}

CtxInit == msgs = <<>> /\ tried = {} /\ removed = {}

CtxNext ==
    \/ \E m \in Sayings : Say(m)
    \/ \E request \in Budgets : msgs # <<>> /\ Compress(request)
    \/ ResetEngine

CtxSpec == CtxInit /\ [][CtxNext]_ctxVars

-----------------------------------------------------------------------------
(* Properties *)

CtxTypeOK ==
    /\ Len(msgs) <= MaxMessages + 3
    /\ \A i \in 1..Len(msgs) : msgs[i].role \in {"user", "assistant", "tool", "system"}
    /\ tried \subseteq Calls /\ removed \subseteq Calls

Turns(ms) == Only(ms, {m \in ToSet(ms) : m.role # "system"})

\* The messages of out, cleaned, in the order of ms.
Within(out, ms) ==
    FoldLeft(LAMBDA rest, m : IF rest # <<>> /\ Cleaned(m) = Head(rest) THEN Tail(rest) ELSE rest,
             out, ms) = <<>>

(***************************************************************************)
(* "The latest real user request is not replaced by a summary"; "tool      *)
(* evidence expires when the active assistant-tool chain closes"           *)
(* (README.md, Security Model).  Of the messages before the latest real    *)
(* user message none is in the frame; what is in it is in its order, and   *)
(* the frame names a text the user has written.                            *)
(***************************************************************************)
FrameIsCurrent ==
    \A request \in Budgets :
        LET clean == Sanitize(msgs)
            latest == LatestUser(clean)
        IN  latest # 0 => Within(Turns(Compressed(msgs, request)),
                                 Turns(SubSeq(clean, latest, Len(clean))))

(***************************************************************************)
(* A continuation is bound to the latest request before it, and no text of *)
(* a handoff or of the runtime ever becomes the request.                   *)
(***************************************************************************)
RequestIsTheUsers ==
    LET by(kinds) == {m \in ToSet(msgs) : m.role = "user" /\ m.kind \in kinds}
        requests == Only(msgs, by({"request", "quote"}))
    IN  /\ requests # <<>> => Requested(msgs) = requests[Len(requests)].text
        /\ requests = <<>> => Requested(msgs) = IF by({"weak"}) = {} THEN "none" ELSE "go on"

\* A conversation is refused only when not even the frame alone would fit.
FailsOnlyAlone ==
    \A request \in Budgets : Fails(msgs, request) => Len(Compressed(msgs, request)) = 1

\* Of every failed call that compress takes out of the conversation the archive
\* was told.
EvidenceKept == removed \subseteq tried

(***************************************************************************)
(* "The active model-call message list is rebuilt from the latest real     *)
(* user turn plus any current assistant/tool chain that follows it"        *)
(* (compress): the user's message is in the list.                          *)
(***************************************************************************)
LatestUserStays ==
    \A request \in Budgets :
        LET clean == Sanitize(msgs)
            out == Compressed(msgs, request)
        IN  LatestUser(clean) # 0 /\ ~Fails(msgs, request) => LatestUser(out) # 0
=============================================================================

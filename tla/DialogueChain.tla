--------------------------- MODULE DialogueChain ---------------------------
(***************************************************************************)
(* What a session is about, computed from its turns: the active dialogue   *)
(* state (packages/pcltm/state/update_active_dialogue.py) and the session  *)
(* summary chain (packages/pcltm/session/session_summary_chain.py and      *)
(* segmenter.py).                                                          *)
(*                                                                         *)
(* Both are folds over the raw turns and are made again from all of them   *)
(* for every frame.  Every list of texts is short: what is added to a full *)
(* one pushes the oldest text out.  A text is an identity with the markers *)
(* it contains; clipping a text is left out.                               *)
(***************************************************************************)
EXTENDS Selections, FiniteSets

CONSTANTS
    Tasks,        \* bound: requests a user may make
    SegmentSize,  \* segment_size
    MaxSegments,  \* max_segments
    MaxItems,     \* what _append_unique keeps of a list when nothing else is said: 8
    MaxClosed,    \* what a segment keeps of its closed items: 6
    MaxThreads,   \* what the active dialogue state keeps of its threads: 4
    MaxTurnsSaid  \* bound: turns of a session

ASSUME DialogueAssumption ==
    /\ "none" \notin Tasks /\ SegmentSize \in Nat /\ MaxSegments \in Nat \ {0}
    /\ MaxItems \in Nat \ {0} /\ MaxClosed \in Nat \ {0} /\ MaxThreads \in Nat \ {0}

VARIABLE said     \* the turns of the session

(***************************************************************************)
(* A user text is a request, a continuation, an aside, or a cancellation   *)
(* with ("fix") or without ("cancel") a word of continuation.  What the    *)
(* assistant answers may say that something is done, paused or revoked.    *)
(***************************************************************************)
Cancels == {"fix", "cancel"}
UserTexts == Tasks \cup {"go", "aside"} \cup Cancels
Dialogue == [user : UserTexts, says : {"nothing", "done", "pause", "revoke"}]

Continuation(t) == t.user \in {"go", "fix"}

\* The last n of s and x.  A text that is there already keeps its place.
AppendUnique(s, x, n) ==
    LET out == IF Contains(s, x) THEN s ELSE Append(s, x)
    IN  IF Len(out) > n THEN SubSeq(out, Len(out) - n + 1, Len(out)) ELSE out

Minus(s, x) == Only(s, ToSet(s) \ {x})

-----------------------------------------------------------------------------
(* The active dialogue state *)

NewDialogue == [task |-> "none", goal |-> "none", threads |-> <<>>]

\* A continuation keeps the task unless it corrects it; an aside is a thread.
UpdateDialogue(ads, t) ==
    CASE ads.task # "none" /\ t.user = "go" -> ads
      [] ads.task # "none" /\ t.user = "aside" -> [ads EXCEPT !.threads = AppendUnique(@, t.user, MaxThreads)]
      [] OTHER -> [task |-> t.user,
                   goal |-> IF ads.goal = "none" THEN t.user ELSE ads.goal,
                   threads |-> AppendUnique(ads.threads, t.user, MaxThreads)]

\* Fault: an aside takes over the task.
UpdateFromTurnsAside(ts) ==
    FoldLeft(LAMBDA ads, t : IF t.user = "aside" THEN [ads EXCEPT !.task = t.user]
                             ELSE UpdateDialogue(ads, t), NewDialogue, ts)

UpdateFromTurns(ts) == FoldLeft(UpdateDialogue, NewDialogue, ts)

-----------------------------------------------------------------------------
(* The segments *)

EventBoundary(t) == t.user \in Cancels \/ t.says \in {"pause", "revoke"}

\* Fault: a turn that ends a segment also begins the next one.
SegmentsOverlap(ts) ==
    LET step(acc, i) ==
          IF i + 1 - acc.start >= SegmentSize \/ (i > acc.start /\ EventBoundary(ts[i]))
            THEN [start |-> i, out |-> Append(acc.out, <<acc.start, i>>)]
            ELSE acc
        cut == FoldLeft(step, [start |-> 1, out |-> <<>>], [i \in 1..Len(ts) |-> i])
    IN  IF cut.start <= Len(ts) THEN Append(cut.out, <<cut.start, Len(ts)>>) ELSE cut.out

\* segment_turns: a segment ends with the turn that fills it or that is an event.
Segments(ts) ==
    LET step(acc, i) ==
          IF i + 1 - acc.start >= SegmentSize \/ (i > acc.start /\ EventBoundary(ts[i]))
            THEN [start |-> i + 1, out |-> Append(acc.out, <<acc.start, i>>)]
            ELSE acc
        cut == FoldLeft(step, [start |-> 1, out |-> <<>>], [i \in 1..Len(ts) |-> i])
    IN  IF cut.start <= Len(ts) THEN Append(cut.out, <<cut.start, Len(ts)>>) ELSE cut.out

-----------------------------------------------------------------------------
(* The chain *)

\* Fault: what is revoked is not noted.
SummaryStepForgets(acc, t) ==
    LET victim == IF t.user \in Cancels /\ acc.task # "none" THEN acc.task ELSE t.user
        open == AppendUnique(acc.open, t.user, MaxItems)
    IN  [task |-> t.user,
         open |-> IF t.user \in Cancels \/ t.says = "revoke" THEN Minus(open, victim) ELSE open,
         done |-> IF t.says = "done" THEN AppendUnique(acc.done, t.user, MaxClosed) ELSE acc.done,
         paused |-> IF t.says = "pause" THEN AppendUnique(acc.paused, t.user, MaxClosed) ELSE acc.paused,
         revoked |-> acc.revoked]

(***************************************************************************)
(* summarize_segment.  Every user text is the task from then on, and what  *)
(* is said in a turn closes it; a user who revokes closes the task before. *)
(***************************************************************************)
SummaryStep(acc, t) ==
    LET victim == IF t.user \in Cancels /\ acc.task # "none" THEN acc.task ELSE t.user
        open == AppendUnique(acc.open, t.user, MaxItems)
        afterDone == IF t.says = "done" THEN Minus(open, t.user) ELSE open
        revokes == t.user \in Cancels \/ t.says = "revoke"
    IN  [task |-> t.user,
         open |-> IF revokes THEN Minus(afterDone, victim) ELSE afterDone,
         done |-> IF t.says = "done" THEN AppendUnique(acc.done, t.user, MaxClosed) ELSE acc.done,
         paused |-> IF t.says = "pause" THEN AppendUnique(acc.paused, t.user, MaxClosed) ELSE acc.paused,
         revoked |-> IF revokes THEN AppendUnique(acc.revoked, victim, MaxClosed) ELSE acc.revoked]

Summarize(ts, prior) ==
    FoldLeft(SummaryStep, [task |-> prior, open |-> <<>>, done |-> <<>>, paused |-> <<>>, revoked |-> <<>>], ts)

AllAppended(s, more) == FoldLeft(LAMBDA out, x : AppendUnique(out, x, MaxItems), s, more)

\* _chain_from_segments: what the segment closes leaves the open items, and what it
\* leaves open joins them unless the chain has it among the closed ones.
ChainStep(acc, seg) ==
    LET done == AllAppended(acc.done, seg.done)
        paused == AllAppended(acc.paused, seg.paused)
        revoked == AllAppended(acc.revoked, seg.revoked)
        closes == ToSet(seg.done) \cup ToSet(seg.paused) \cup ToSet(seg.revoked)
        closed == ToSet(done) \cup ToSet(paused) \cup ToSet(revoked)
    IN  [open |-> AllAppended(Only(acc.open, ToSet(acc.open) \ closes),
                              Only(seg.open, ToSet(seg.open) \ closed)),
         done |-> done, paused |-> paused, revoked |-> revoked]

\* The segments that are kept are the last ones.
KeptFrom(ts) ==
    LET cuts == Segments(ts) IN IF Len(cuts) > MaxSegments THEN Len(cuts) - MaxSegments + 1 ELSE 1

Chain(ts) ==
    LET cuts == Segments(ts)
        summaries == FoldLeft(LAMBDA acc, c :
                         Append(acc, Summarize(SubSeq(ts, c[1], c[2]),
                                               IF acc = <<>> THEN "none" ELSE acc[Len(acc)].task)),
                         <<>>, cuts)
    IN  FoldLeft(ChainStep, [open |-> <<>>, done |-> <<>>, paused |-> <<>>, revoked |-> <<>>],
                 SubSeq(summaries, KeptFrom(ts), Len(summaries)))

-----------------------------------------------------------------------------

DlgInit == said = <<>>
DlgNext == Len(said) < MaxTurnsSaid /\ \E t \in Dialogue : said' = Append(said, t)
DlgSpec == DlgInit /\ [][DlgNext]_said

(***************************************************************************)
(* "Side interruptions are tracked as open threads without stealing the    *)
(* main task" (update_active_dialogue): the task is the latest text that   *)
(* names one, whatever has been said since.                                *)
(***************************************************************************)
TaskIsTheLatestNamed ==
    LET names(i) == said[i].user \notin {"go", "aside"} \/ \A j \in 1..(i - 1) : FALSE
        named == {i \in 1..Len(said) : names(i)}
    IN  said # <<>> =>
          UpdateFromTurns(said).task = said[CHOOSE i \in named : \A j \in named : j <= i].user

(***************************************************************************)
(* "Every segment is derived from raw user/assistant turns and keeps raw   *)
(* refs": the segments are the session's turns, each once and in order,    *)
(* and no text is at once open and closed.  As long as the turns that are  *)
(* kept, with the one before them, have no more texts than a list holds,   *)
(* each thing asked for in them is open or closed; with more, the lists    *)
(* push the oldest out and nothing is claimed.                             *)
(***************************************************************************)
ChainAccounts ==
    LET cuts == Segments(said)
        c == Chain(said)
        closed == ToSet(c.done) \cup ToSet(c.paused) \cup ToSet(c.revoked)
        first == IF said = <<>> THEN 1 ELSE cuts[KeptFrom(said)][1]
        texts == {said[i].user : i \in (first - 1)..Len(said) \ {0}}
    IN  /\ said # <<>> => cuts[1][1] = 1 /\ cuts[Len(cuts)][2] = Len(said)
        /\ \A k \in 1..(Len(cuts) - 1) : cuts[k + 1][1] = cuts[k][2] + 1
        /\ ToSet(c.open) \cap closed = {}
        /\ Cardinality(texts) <= MaxItems /\ Cardinality(texts) <= MaxClosed =>
               \A i \in first..Len(said) : said[i].user \in ToSet(c.open) \cup closed
=============================================================================

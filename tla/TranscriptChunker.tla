-------------------------- MODULE TranscriptChunker --------------------------
(***************************************************************************)
(* Cutting an event into chunks (packages/pcltm/transcript_chunker.py) and *)
(* finding a quote in them again (packages/pcltm/transcript_search.py).    *)
(*                                                                         *)
(* A text is a sequence of characters of which only those at which a chunk *)
(* may end are told apart: a line feed, a full stop of the CJK kind, and a *)
(* dot with a space.  Offsets count from 0 and an end is exclusive.        *)
(***************************************************************************)
EXTENDS Naturals, SequencesExt, FiniteSetsExt

CONSTANTS
    MaxChars,     \* max_chars
    OverlapChars, \* overlap_chars
    MaxText       \* bound: length of a text

ASSUME ChunkerAssumption == MaxChars \in Nat \ {0} /\ OverlapChars \in 0..(MaxChars - 1)

VARIABLE text

Characters == {"letter", "feed", "stop", "dot", "space"}
At(t, i) == t[i + 1]

\* The offsets of window [start, end) after which it may be cut.
Ends(t, start, end) ==
    {i + 1 : i \in {j \in start..(end - 1) : At(t, j) \in {"feed", "stop"}}}
    \cup {i + 2 : i \in {j \in start..(end - 2) : At(t, j) = "dot" /\ At(t, j + 1) = "space"}}

\* How far before its end a cut begins.
Before(t, e) == IF At(t, e - 1) = "space" THEN e - 2 ELSE e - 1

\* _preferred_end: the cut that begins last in the second half of the window.
PreferredEnd(t, start, hard) ==
    LET from == start + Max({1, (hard - start) \div 2})
        cuts == {e \in Ends(t, start, hard) : Before(t, e) >= from}
    IN  IF hard >= Len(t) THEN Len(t)
        ELSE IF cuts = {} THEN hard
        ELSE CHOOSE e \in cuts : \A d \in cuts : Before(t, d) <= Before(t, e)

\* Fault: the next chunk begins where a window that is not cut would end.
NextStartSkips(start, end) == start + MaxChars

\* The next chunk begins within this one and after its beginning.
NextStart(start, end) == Max({start + 1, IF end >= OverlapChars THEN end - OverlapChars ELSE 0})

\* chunk_transcript, from each start on.
Chunks(t) ==
    LET from[start \in 0..Len(t)] ==
          LET end == PreferredEnd(t, start, Min({Len(t), start + MaxChars}))
          IN  IF start >= Len(t) THEN <<>>
              ELSE IF end >= Len(t) THEN <<[start |-> start, end |-> end]>>
              ELSE <<[start |-> start, end |-> end]>> \o from[NextStart(start, end)]
    IN  from[0]

(***************************************************************************)
(* search_exact_evidence: the chunks that meet the quote, by their start,  *)
(* must cover it without a gap.                                            *)
(***************************************************************************)
Quotable(t, start, end) ==
    LET cs == Chunks(t)
        meets(c) == c.start < end /\ c.end > start
        step(acc, c) ==
          IF ~meets(c) \/ ~acc.whole \/ acc.until >= end THEN acc
          ELSE IF c.start > acc.until THEN [acc EXCEPT !.whole = FALSE]
          ELSE [acc EXCEPT !.until = Max({acc.until, c.end})]
        walk == FoldLeft(step, [whole |-> TRUE, until |-> start], cs)
    IN  (\E i \in DOMAIN cs : meets(cs[i])) /\ walk.whole /\ walk.until >= end

TextInit == text = <<>>
TextNext == Len(text) < MaxText /\ \E c \in Characters : text' = Append(text, c)
TextSpec == TextInit /\ [][TextNext]_text

(***************************************************************************)
(* "Split text without normalization so every chunk remains an exact span" *)
(* (chunk_transcript): the chunks are spans of at most MaxChars, in order, *)
(* that between them leave out nothing, and a quote of any part of the     *)
(* text, however many chunks it runs over, can be shown from them.         *)
(***************************************************************************)
EveryQuoteIsFound ==
    LET cs == Chunks(text)
    IN  /\ \A i \in DOMAIN cs : cs[i].start < cs[i].end /\ cs[i].end <= cs[i].start + MaxChars
        /\ \A i \in 1..(Len(cs) - 1) : cs[i].start < cs[i + 1].start /\ cs[i + 1].start <= cs[i].end
        /\ \A start \in 0..(Len(text) - 1), end \in 1..Len(text) :
             start < end => Quotable(text, start, end)
=============================================================================

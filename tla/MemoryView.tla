----------------------------- MODULE MemoryView -----------------------------
(***************************************************************************)
(* What a projection of governed memory promises, with nothing of how it   *)
(* is done: truth is what the authority says of each claim (NoView for a   *)
(* claim that is not in force), shown is what the projection holds, and    *)
(* done are the claims whose projection work is recorded as finished.      *)
(*                                                                         *)
(* The projection may lag behind the authority, may be cleared and may     *)
(* redo work, but it never shows anything the authority is not saying at   *)
(* that moment, and no claim counts as done while it shows something else. *)
(***************************************************************************)
CONSTANTS Claims, Views, NoView

VARIABLES truth, shown, done

viewVars == <<truth, shown, done>>

ViewInit ==
  /\ truth = [c \in Claims |-> NoView]
  /\ shown = [c \in Claims |-> NoView]
  /\ done = {}

\* The authority changes; the claims it changes have work to do again.
Change ==
  /\ truth' \in [Claims -> Views]
  /\ done' \subseteq {c \in done : truth'[c] = truth[c]}
  /\ UNCHANGED shown

\* The projection of one claim is brought up to date ...
Show(c) ==
  /\ shown' = [shown EXCEPT ![c] = truth[c]]
  /\ done' \in {done, done \cup {c}}
  /\ UNCHANGED truth

\* ... and its work is recorded as finished, then or later.
Finish(c) ==
  /\ shown[c] = truth[c]
  /\ done' = done \cup {c}
  /\ UNCHANGED <<truth, shown>>

\* Projections are dropped, to be built again.
Clear ==
  /\ shown' \in [Claims -> Views]
  /\ \A c \in Claims : shown'[c] \in {shown[c], NoView}
  /\ done' \subseteq {c \in done : shown'[c] = shown[c]}
  /\ UNCHANGED truth

ViewNext == Change \/ Clear \/ \E c \in Claims : Show(c) \/ Finish(c)

ViewSpec == ViewInit /\ [][ViewNext]_viewVars

\* What a reader of the projection relies on: work that is finished has shown
\* the authority's present word on the claim.
Faithful == \A c \in done : shown[c] = truth[c]
=============================================================================

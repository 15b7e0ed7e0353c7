------------------------------ MODULE Selections ------------------------------
(***************************************************************************)
(* A part of a sequence, and a set of numbers in order, as folds: the      *)
(* filter and the sort of the standard modules have no definition that a   *)
(* proof can look into.                                                    *)
(***************************************************************************)
EXTENDS Naturals, SequencesExt

\* The elements of seq that are in set, in their order.
Only(seq, set) == FoldLeft(LAMBDA out, x : IF x \in set THEN Append(out, x) ELSE out, <<>>, seq)

\* A set of numbers, least first.
Ascending(set) ==
    MapThenFoldSet(LAMBDA x, out : Append(out, x), <<>>, LAMBDA x : x, LAMBDA s : Max(s), set)
=============================================================================

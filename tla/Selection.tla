------------------------------ MODULE Selection ------------------------------
(***************************************************************************)
(* The filter of a list, by the set of elements that stay.  It is a fold,  *)
(* so that FoldFacts can say what it returns.                              *)
(***************************************************************************)
EXTENDS SequencesExt

Keep(set, kept, x) == IF x \in set THEN Append(kept, x) ELSE kept
Only(seq, set) == FoldLeft(LAMBDA kept, x : Keep(set, kept, x), <<>>, seq)
==============================================================================

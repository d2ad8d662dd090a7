------------------------------- MODULE Lists -------------------------------
(***************************************************************************)
(* Lists as the code makes them by going through one (slices.DeleteFunc    *)
(* and its like), as recursive functions.                                  *)
(***************************************************************************)
EXTENDS Naturals, Sequences, FiniteSets, SequencesExt

IsSequence(s) == s \in Seq(Range(s))

\* What a sequence holds of S, in its order.
Kept(s, S) ==
  LET kept[n \in 0..Len(s)] ==
        IF n = 0 THEN <<>> ELSE IF s[n] \in S THEN Append(kept[n - 1], s[n]) ELSE kept[n - 1] IN
  kept[Len(s)]
=============================================================================

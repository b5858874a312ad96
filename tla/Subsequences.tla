----------------------------- MODULE Subsequences -----------------------------
(***************************************************************************)
(* The elements of a sequence that lie in a set, and a sequence without    *)
(* the element at one place; TapQueueProofs has their laws.                *)
(***************************************************************************)
EXTENDS Naturals, Sequences

\* For each n the elements of T among the first n of seq, in their order.
Kept(seq, T) ==
  LET kept[n \in 0 .. Len(seq)] ==
        IF n = 0 THEN <<>>
        ELSE IF seq[n] \in T THEN Append(kept[n - 1], seq[n])
        ELSE kept[n - 1]
  IN  kept

Keep(seq, T) == Kept(seq, T)[Len(seq)]

OmitAt(seq, k) ==
  [i \in 1 .. Len(seq) - 1 |-> seq[IF i < k THEN i ELSE i + 1]]
=============================================================================

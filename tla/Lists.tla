------------------------------- MODULE Lists -------------------------------
(* A filter for lists. *)
EXTENDS Naturals, Sequences

(* The elements of s that are in S, in their order. *)
Kept(s, S) ==
  LET upTo[i \in 0..Len(s)] ==
        IF i = 0 THEN <<>>
        ELSE IF s[i] \in S THEN Append(upTo[i - 1], s[i]) ELSE upTo[i - 1]
  IN  upTo[Len(s)]
=============================================================================

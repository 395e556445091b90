-------------------------------- MODULE Filters --------------------------------
(***************************************************************************)
(* The list comprehensions of the code: what a sequence holds of a set, in *)
(* order.  Sequences!SelectSeq gives the same, but nothing can be proved   *)
(* about an operator that takes a test.                                    *)
(***************************************************************************)
EXTENDS Naturals, Sequences

Filter(s, S) ==
    LET upTo[n \in 0 .. Len(s)] ==
            IF n = 0 THEN <<>>
            ELSE IF s[n] \in S THEN Append(upTo[n - 1], s[n]) ELSE upTo[n - 1]
    IN  upTo[Len(s)]
================================================================================

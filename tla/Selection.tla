----------------------------- MODULE Selection ------------------------------
(***************************************************************************)
(* The loop the program filters with: for every element of a slice, in     *)
(* order, one that meets a condition is appended to another slice.         *)
(* Sequences' SelectSeq is the same with an operator for the condition,    *)
(* of which nothing can be proved; a set of elements can be reasoned about.*)
(***************************************************************************)
EXTENDS Integers, Sequences

Select(s, kept) ==
  LET upto[n \in 0 .. Len(s)] ==
        IF n = 0 THEN << >>
        ELSE IF s[n] \in kept THEN Append(upto[n - 1], s[n]) ELSE upto[n - 1]
  IN  upto[Len(s)]
=============================================================================

---------------------------- MODULE Subsequences ----------------------------
(***************************************************************************)
(* The part of a sequence at some of its positions.  Filtering a sequence   *)
(* is taking the positions whose element passes; unlike SelectSeq, which    *)
(* the provers cannot expand, it is defined without recursion.              *)
(***************************************************************************)
EXTENDS Naturals, Sequences, FiniteSets

\* How many of the positions I are before p.
Before(I, p) == Cardinality({q \in I : q < p})

\* The elements of s at the positions I, in order.
At(s, I) == [n \in 1 .. Cardinality(I) |-> s[CHOOSE p \in I : Before(I, p) = n - 1]]
=============================================================================

------------------------------- MODULE NlsRuns ------------------------------
(***************************************************************************)
(* Ways to write the tables of libunls.                                    *)
(***************************************************************************)
EXTENDS Integers, Sequences

\* n characters in a row, no character n times, and the first half of most sets.
From(first, n) == [k \in 1 .. n |-> first + k - 1]
None(n)        == [k \in 1 .. n |-> 0]
Ascii          == From(0, 128)

=============================================================================

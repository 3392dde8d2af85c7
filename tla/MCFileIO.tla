------------------------------ MODULE MCFileIO ------------------------------
(* A small instance of FileIO: words of six bits, sectors of four bytes.   *)
EXTENDS FileIO

\* A file of several sectors, one that ends with a sector, an empty one, one that the
\* image does not hold to its end, and one at the last offset that fits a LONG.
SmallFiles ==
  {[iExtent |-> e[1], iSize |-> e[2]] : e \in {<<1, 7>>, <<3, 8>>, <<2, 0>>, <<8, 6>>, <<7, 6>>}}

SmallOffsets == {-32, -3, -1, 0, 2, 5, 31}

=============================================================================

--------------------------- MODULE MCFindBuffers ---------------------------
(* A small instance of FindBuffers: sizes are one or two bytes.            *)
EXTENDS FindBuffers

Entry(cbName, fName, fNon83, flFlags) ==
  [cbName |-> cbName, fName |-> fName, fNon83 |-> fNon83, flFlags |-> flFlags]

\* "." and ".." of a directory, a long name, one that does not match, and others.
SmallDirectory ==
  <<Entry(1, TRUE, FALSE, {"DIRECTORY"}), Entry(2, TRUE, FALSE, {"DIRECTORY"}),
    Entry(3, TRUE, TRUE, {}), Entry(1, FALSE, FALSE, {}), Entry(1, TRUE, FALSE, {}),
    Entry(2, TRUE, FALSE, {"DIRECTORY"})>>

SmallAttrs == {{}, {"DIRECTORY", "NON83"}, {"DIRECTORY", "MUST_DIRECTORY"}, {"NON83", "MUST_HIDDEN"}}

\* One entry takes 5 to 7 bytes without attributes, one byte more with their size, and
\* one with its position.  A list of ten bytes does not fit with it where its size does.
SmallCalls ==
  {c \in [cMatch : {0, 1, 3}, cbData : {0, 5, 8, 12, 15, 24}, usLevel : 1 .. 3,
          fPosition : BOOLEAN, cbEAs : {0, 4, 10}] : c.usLevel = 3 <=> c.cbEAs > 0}

Positions == {0, 7}

=============================================================================

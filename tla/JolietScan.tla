----------------------------- MODULE JolietScan -----------------------------
(***************************************************************************)
(* Looking for the Joliet descriptor when a volume is attached (attach.c). *)
(* An image is the sequence of its blocks from 16 on.  A block is "bad" if *)
(* it cannot be read, and else the kind of its descriptor: "@", "C" and    *)
(* "E" are the Joliet ones, by the third character of the escape sequence, *)
(* "supplementary" another of that type, "end" the terminator, "other" any *)
(* other.                                                                  *)
(***************************************************************************)
EXTENDS Integers, Sequences

Joliet == {"@", "C", "E"}

\* What ipd holds after the k-th read: all zeros at first, and when a read fails, what
\* it held before.  All reads beyond the end of the image fail.
Ipd(image, n) ==
  LET held[k \in 0 .. n] ==
        IF k = 0 THEN "other" ELSE IF k > Len(image) \/ image[k] = "bad" THEN held[k - 1] ELSE image[k]
  IN  held

BugScan(image) ==
  LET n     == Len(image) + 1
      ipd   == Ipd(image, n)
      stops == {k \in 1 .. n : ipd[k] \in Joliet \cup {"end", "supplementary"}}
  IN  IF stops = {} THEN "never"
      ELSE ipd[CHOOSE k \in stops : \A j \in stops : k =< j]

\* The loop over the descriptors: its descriptor when it stops, or "never".
Scan(image) ==
  LET n     == Len(image) + 1
      ipd   == Ipd(image, n)
      stops == {k \in 1 .. n : ipd[k] \in Joliet \cup {"end"}}
  IN  IF stops = {} THEN "never"
      ELSE ipd[CHOOSE k \in stops : \A j \in stops : k =< j]

\* ucs_level, or how attachVolume() fails.
UcsLevel(image) ==
  CASE Scan(image) = "@"   -> 1
    [] Scan(image) = "C"   -> 2
    [] Scan(image) = "E"   -> 3
    [] Scan(image) = "end" -> -1
    [] OTHER               -> -2

NoJoliet == -1
Hangs    == -2

=============================================================================

-------------------------------- MODULE Nls --------------------------------
(***************************************************************************)
(* The registry of character sets (libunls/nls_base.c), and how a volume   *)
(* gets its own and converts names with it (attach.c, isoaccess.c).        *)
(*                                                                         *)
(* A table is <<charset, charset2uni, page_uni2charset>>.                  *)
(***************************************************************************)
EXTENDS NlsCodepages, NlsCharsets, SequencesExt

NoTable == <<"", <<>>, <<>>>>

\* init_nls() registers every table once, and register_nls() puts it first.  Their names
\* differ, so nothing depends on the order.
init_nls == Reverse(CharsetTables \o CodepageTables)

find_nls(charset) ==
  LET found == SelectSeq(init_nls, LAMBDA t : t[1] = charset)
  IN  IF found = <<>> THEN NoTable ELSE found[1]

\* checkCpSupport(): the code pages that are looked for when none is named.
SupportedCps == {437, 737, 775, 850, 852, 855, 857, 860, 861, 862, 863, 864, 865, 866, 869, 874}

\* The table of a volume: the one that was named, or that of the code page of the
\* system, or none.
VolumeTable(szCharSet, cp) ==
  IF szCharSet # "" THEN find_nls(szCharSet)
  ELSE IF cp \in SupportedCps THEN find_nls("cp" \o ToString(cp))
  ELSE NoTable

\* A table as two functions.
ToUni(table) == [b \in 0 .. 255 |-> table[2][b + 1]]

Covered(run) == run[1] .. run[1] + run[3] - 1

ToByte(table) ==
  LET runs == table[3]
      At(u) == CHOOSE k \in 1 .. Len(runs) : u \in Covered(runs[k])
  IN  [u \in UNION {Covered(runs[k]) : k \in 1 .. Len(runs)} |->
         runs[At(u)][2] + u - runs[At(u)][1]]

BugBack(table, chars) ==
  LET toByte == ToByte(table)
  IN  [u \in chars |-> IF u % 256 \in DOMAIN toByte THEN toByte[u % 256] ELSE 0]

\* How getDirEntries() converts characters: without a table to their low bytes, and
\* with one to 0 those that it does not have.
Back(table, chars) ==
  IF table = NoTable THEN [u \in chars |-> u % 256]
  ELSE LET toByte == ToByte(table)
       IN  [u \in chars |-> IF u \in DOMAIN toByte THEN toByte[u] ELSE 0]

=============================================================================

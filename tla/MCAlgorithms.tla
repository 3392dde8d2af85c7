----------------------------- MODULE MCAlgorithms -----------------------------
(***************************************************************************)
(* Inputs for Algorithms, and the character sets of libunls.               *)
(***************************************************************************)
EXTENDS Algorithms, Nls

UpTo(S, n) == UNION {[1 .. k -> S] : k \in 0 .. n}

SmallPatterns     == UpTo({"a", "A", "*", "?", "."}, 4)
SmallPatternNames == UpTo({"a", "b", "."}, 3)
SmallNames        == UpTo({"a", "+", "."}, 6)
SmallFullPaths    == {<<first>> \o rest : first \in Separators, rest \in UpTo({"a", "/", "\\"}, 6)}
SmallDates        == (0 .. 255) \X {1, 12} \X {1, 31} \X {0, 23} \X {0, 59} \X {0, 1, 58, 59}
SmallBuffers      == [1 .. 7 -> 0 .. 2] \cup UpTo({0, 1}, 8)
SmallImages       == UpTo({"@", "E", "supplementary", "end", "other", "bad"}, 4)

\* Lists of names with their own length, and longer and shorter ones.  ListMax = 24.
NameLists(names, more) ==
  {[names |-> ns, cbList |-> NamesSize(ns) + m] : ns \in names, m \in more}
  \cup [names : names, cbList : {CbList - 1}]

SmallEaQueries ==
  [gea : NameLists(UpTo(0 .. 2, 4), {0, 1}), left : NameLists({<<1>>}, {0}), capacity : 0 .. 26,
   bad : {{}}]
  \cup [gea : NameLists(UpTo({0, 2}, 2) \cup {[k \in 1 .. 10 |-> 0]}, {0, 1}),
        left : NameLists({<<>>, <<0, 1>>, [k \in 1 .. 4 |-> 2]}, {0, 1}),
        capacity : {0, 4, 9, 14, 24}, bad : SUBSET Unusable]

\* Directories of two sectors of SectorBytes = 7, with records of 2 and 3 bytes.  The
\* character 2 is one that the set does not have.
RecordNames == {<<0>>, <<3>>, <<3, 2, 4>>}
Record(length, name) == [length |-> length, name |-> name, isDir |-> FALSE, iExtent |-> 9, iSize |-> 1]
SectorContents ==
  {rs \in UpTo({Record(2, n) : n \in RecordNames} \cup {Record(3, <<4>>)}, 3) :
     Begin(rs, Len(rs) + 1) =< SectorBytes}
SomeSet == [u \in 2 .. 4 |-> IF u = 2 THEN 0 ELSE u]

FewContents == UpTo({Record(2, <<3>>), Record(3, <<4>>)}, 2) \cup {[k \in 1 .. 3 |-> Record(2, <<0>>)]}

\* Directories from sector 5 on, of which some sectors cannot be read.
ListingsOf(sectors, contents, memory, size) ==
  UNION {[memory : memory, back : {SomeSet}, iExtent : {5}, iSize : {size}, place : {5},
          image : [sectors \ bad -> contents]] : bad \in SUBSET sectors}

\* Directories in and around what lseek() cannot reach: SeekMax = 8, and 8 and 9 are other
\* places where the file may stand.
FarListings ==
  UNION {[memory : {Plenty}, back : {SomeSet}, iExtent : {0, 6, 7, 8, 14, 15, 16}, iSize : {2 * SectorBytes},
          place : {0, 6, 8}, image : [S -> FewContents]] : S \in {{0, 7}, {6, 7}, {7, 8}, {0, 8, 9}}}

SmallListings == ListingsOf({5, 6}, SectorContents, {0, 1, 3, Plenty}, 2 * SectorBytes)
                 \cup ListingsOf({5, 6, 7}, FewContents, {4, Plenty}, 2 * SectorBytes + 1)
                 \cup FarListings

\* Volumes of a root in sector 1, and two more sectors.
Node(name, isDir, iExtent) ==
  [length |-> 2, name |-> name, isDir |-> isDir, iExtent |-> iExtent, iSize |-> SectorBytes]
Nodes(extents) == {Node(n, d, e) : n \in {<<3>>, <<4>>}, d \in BOOLEAN, e \in extents}
Volume(root, two, three) ==
  [image |-> <<root, two, three>>, place |-> 0,
   root |-> [chrName |-> <<>>, isDir |-> TRUE, iExtent |-> 1, iSize |-> SectorBytes],
   back |-> SomeSet]

SmallVolumes == {Volume(root, two, three) : root \in UpTo(Nodes({2, 3}), 2),
                                            two \in UpTo(Nodes({3}), 1),
                                            three \in UpTo({Node(<<3>>, d, e) : d \in BOOLEAN, e \in {1, 2}}, 1)}
SmallPaths == UpTo({<<3>>, <<4>>, <<5>>}, 3)

FoldSmall == [b \in 3 .. 5 |-> IF b = 5 THEN 3 ELSE b]

-----------------------------------------------------------------------------
(* Character sets *)

Ascii128 == 0 .. 127

\* The sets that "mntisofs --help" lists, and the code pages of the system.
Advertised ==
  {"cp437", "cp737", "cp775", "cp850", "cp852", "cp855", "cp857", "cp860", "cp861", "cp862",
   "cp863", "cp864", "cp865", "cp866", "cp869", "cp874", "iso8859-1", "iso8859-2", "iso8859-3",
   "iso8859-4", "iso8859-5", "iso8859-6", "iso8859-7", "iso8859-8", "iso8859-9", "iso8859-14",
   "iso8859-15", "koi8-r"}

\* What a volume may ask for: a set by its name, or that of the system's code page.
DoCharset ==
  \/ \E charset \in Advertised \cup {init_nls[k][1] : k \in 1 .. Len(init_nls)} :
       job' = [kind |-> "charset", charset |-> charset, cp |-> 850]
  \/ \E cp \in SupportedCps : job' = [kind |-> "charset", charset |-> "", cp |-> cp]

MCNext == Next \/ (job = Idle /\ DoCharset)

MCSpec == Init /\ [][MCNext]_job

\* A volume gets the table of the set that was named, if it is one that the mount tool
\* says there are, and else that of every code page that the daemon says it supports.
\* Between the characters of that set and its bytes there is no way but there and back:
\* two names that a set can write stay two names.  iso8859-14 is not like that
\* (ExactMappings); and a letter of ASCII is itself, but for the digits of iso8859-6 and
\* the percent sign of cp864, at which names are cut.
CharsetsExact ==
  job.kind = "charset" =>
    LET table == VolumeTable(job.charset, job.cp)
        uni   == ToUni(table)
        all   == {uni[b] : b \in 0 .. 255} \cup DOMAIN ToByte(table)
        back  == Back(table, all \cup Ascii128)
    IN  /\ table[1] = IF job.charset = "" THEN "cp" \o ToString(job.cp) ELSE job.charset
        /\ table[1] # "iso8859-14" =>
             /\ \A b \in 0 .. 255 : uni[b] # 0 => back[uni[b]] = b
             /\ \A u \in all : uni[back[u]] = u
             /\ \A u \in Ascii128 : \/ back[u] = u
                                    \/ table[1] = "iso8859-6" /\ u \in 48 .. 57
                                    \/ table[1] = "cp864" /\ u = 37

\* "The Unicode to charset table has only exact mappings": what a set converts, it
\* converts to the byte of that character.
ExactMappings ==
  job.kind = "charset" =>
    LET table == VolumeTable(job.charset, job.cp)
    IN  \A u \in DOMAIN ToByte(table) : ToUni(table)[ToByte(table)[u]] = u

=============================================================================

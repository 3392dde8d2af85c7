------------------------------ MODULE Algorithms ------------------------------
(***************************************************************************)
(* The daemon's algorithms on one input at a time: a state is an algorithm *)
(* and an input for it, and the invariants say what the result must be.    *)
(* The algorithms are those of Names, IsoDir, JolietScan and EaCopy; the   *)
(* character sets are the subject of MCAlgorithms.                         *)
(***************************************************************************)
EXTENDS Names, IsoDir, JolietScan, EaCopy

CONSTANTS
  Patterns, PatternNames,  \* search specifications, and names to compare with them
  PlainNames,              \* names of which a DOS program may or may not see
  FullPaths,               \* paths before they are split; each begins with a separator
  Dates,                   \* year, month, day, hours, minutes, seconds of a record
  ParamBuffers,
  Images,                  \* descriptors of images
  EaQueries,               \* queries of attributes, see EaCopy
  Listings,                \* directories: [image, place, back, memory, iExtent, iSize]
  Volumes, Paths           \* volumes, and paths to walk along

ASSUME PatternAssumption == Patterns \subseteq Seq(STRING) /\ PatternNames \subseteq Seq(STRING)

ASSUME NameAssumption == PlainNames \subseteq Seq(STRING)

ASSUME PathAssumption ==
  FullPaths \subseteq Seq(STRING) /\ \A full \in FullPaths : full # <<>> /\ full[1] \in Separators

ASSUME DateAssumption ==
  \A date \in Dates : /\ date[1] \in 0 .. 255 /\ date[2] \in 1 .. 12 /\ date[3] \in 1 .. 31
                      /\ date[4] \in 0 .. 23 /\ date[5] \in 0 .. 59 /\ date[6] \in 0 .. 59

ASSUME ImageAssumption ==
  Images \subseteq Seq(Joliet \cup {"supplementary", "end", "other", "bad"})

\* A list of names is as long as its length says, or shorter, or the length is nonsense.
ASSUME QueryAssumption ==
  \A q \in EaQueries :
    /\ q.capacity \in Nat /\ q.bad \subseteq Unusable
    /\ \A gea \in {q.gea, q.left} :
         /\ gea.names \in Seq(Nat) /\ gea.cbList \in Nat
         /\ gea.cbList < CbList \/ gea.cbList >= NamesSize(gea.names)

ASSUME BufferAssumption == ParamBuffers \subseteq Seq(Nat)

\* All records of an image.
Records(image) == UNION {ToSet(image[sector]) : sector \in DOMAIN image}

\* lseek() does not fail on what e stands for.
Reachable(e) == e.iExtent + Sectors(e.iSize) =< SeekMax

\* A directory is not where the image begins; a component of a path is not empty.
ASSUME VolumeAssumption ==
  /\ \A volume \in Volumes :
       /\ volume.root \in [chrName : {<<>>}, isDir : {TRUE}, iExtent : Nat \ {0}, iSize : Nat]
       /\ volume.place \in Nat /\ Reachable(volume.root)
       /\ \A sector \in DOMAIN volume.image : volume.image[sector] \in Seq(Records(volume.image))
       /\ \A r \in Records(volume.image) :
            /\ r.isDir \in BOOLEAN /\ r.iExtent \in Nat /\ r.iSize \in Nat
            /\ (r.isDir => r.iExtent # 0) /\ Reachable(r)
  /\ \A path \in Paths : path \in Seq(Seq(Nat)) /\ \A k \in DOMAIN path : path[k] # <<>>

ASSUME ListingAssumption ==
  \A listing \in Listings :
    /\ listing.iExtent \in Nat /\ listing.iSize \in Nat
    /\ listing.memory \in Nat /\ listing.place \in Nat
    /\ \A sector \in DOMAIN listing.image : listing.image[sector] \in Seq(Records(listing.image))
    /\ \A r \in Records(listing.image) : r.length \in Nat

VARIABLE job    \* the algorithm, "kind", and its input

Idle == [kind |-> "none"]

DoPattern == \E exp \in Patterns, name \in PatternNames :
               job' = [kind |-> "pattern", exp |-> exp, name |-> name]

DoName == \E name \in PlainNames : job' = [kind |-> "name", name |-> name]

DoPath == \E full \in FullPaths : job' = [kind |-> "path", full |-> full]

DoDate == \E date \in Dates : job' = [kind |-> "date", date |-> date]

DoParams == \E buf \in ParamBuffers : job' = [kind |-> "params", buf |-> buf]

DoScan == \E image \in Images : job' = [kind |-> "scan", image |-> image]

DoEas == \E query \in EaQueries : job' = [kind |-> "eas", query |-> query]

DoList == \E listing \in Listings : job' = [kind |-> "list", listing |-> listing]

DoVolume == \E volume \in Volumes : job' = [kind |-> "volume", volume |-> volume]

Init == job = Idle

Done == job # Idle /\ job' = Idle

Next == \/ job = Idle /\ \/ DoPattern \/ DoName \/ DoPath \/ DoDate \/ DoParams
                         \/ DoScan \/ DoEas \/ DoList \/ DoVolume
        \/ Done

Spec == Init /\ [][Next]_job

-----------------------------------------------------------------------------

Least(a, b) == IF a < b THEN a ELSE b

\* A ? of the pattern may meet the end of the name while a letter has still to come.
RunsShort(exp, name) ==
  \E i, j \in 1 .. Len(exp) :
    /\ i < j /\ exp[i] = "?" /\ Len(name) \in Tails(exp, name)[i - 1]
    /\ exp[j] \notin {"?", "*", "."}

\* A search misses no name that the meta-character rules give it, and finds no other, but
\* perhaps a name that runs short of the pattern.
PatternsMatch ==
  job.kind = "pattern" =>
    /\ MatchesRules(job.exp, job.name) => NameMatches(job.exp, job.name)
    /\ NameMatches(job.exp, job.name) /\ ~RunsShort(job.exp, job.name)
         => MatchesRules(job.exp, job.name)

\* "Determine whether the name matches with the search specification according to OS/2's
\* meta-character rules": short names included.
PatternsFollowRules ==
  job.kind = "pattern" => (NameMatches(job.exp, job.name) <=> MatchesRules(job.exp, job.name))

\* A name is hidden from DOS programs exactly when it is no base with an extension of
\* the lengths and characters of DOS.
DosNamesTold == job.kind = "name" => (HasNon83Name(job.name) <=> ~IsDosName(job.name))

\* A path is split after its directory, with however many separators between and after,
\* and in no other way.
PathsSplit ==
  job.kind = "path" =>
    LET full == job.full
    IN  \A i, j \in 0 .. Len(full) :
          LET prefix == SubSeq(full, 1, i)
              last   == SubSeq(full, j + 1, Len(full))
          IN  IsSplit(full, prefix, last) <=> SplitPath(full) = <<prefix, last>>

\* From 1980 to 2107, which is what the seven bits of OS/2 can say, programs see the date
\* of a file, to two seconds.
DatesKept ==
  job.kind = "date" /\ job.date[1] \in 80 .. 207 =>
    LET shown    == Shown(IsoEntryTimeToOS2(job.date))
        recorded == Recorded(job.date)
    IN  /\ \A k \in 1 .. 5 : shown[k] = recorded[k]
        /\ recorded[6] - shown[6] \in {0, 1}

\* The parameters in a buffer are those that were put there: they and their NULs are
\* what it starts with, and it is refused only if it has another size or no end to them.
ParamsWhole ==
  job.kind = "params" =>
    LET argv == SetParams(job.buf)
    IN  IF argv = <<>>
        THEN \/ Len(job.buf) # ParamBytes
             \/ \A p \in 1 .. Len(job.buf) - 1 : <<job.buf[p], job.buf[p + 1]>> # <<Nul, Nul>>
        ELSE /\ Len(job.buf) = ParamBytes
             /\ \A k \in 1 .. Len(argv) : Nul \notin ToSet(argv[k]) /\ (argv[k] = <<>> => k = 1)
             /\ IsPrefix(FlattenSeq([k \in 1 .. Len(argv) |-> Append(argv[k], Nul)]) \o <<Nul>>, job.buf)

\* An attach gets the first Joliet descriptor that can be read, if the terminator is not
\* before it.  The daemon hangs only on an image that has neither.
JolietFound ==
  job.kind = "scan" =>
    LET image   == job.image
        marks   == {k \in 1 .. Len(image) : image[k] \in Joliet \cup {"end"}}
        level   == UcsLevel(image)
    IN  /\ level = Hangs <=> marks = {}
        /\ \A k \in marks : (\A j \in marks : k =< j) =>
             (level = NoJoliet <=> image[k] = "end") /\ (level = 3 <=> image[k] = "E")

\* Attributes that were asked for in a list the driver could read reach the program, the
\* whole of them when its buffer has room and they are less than ListMax bytes; nothing is
\* written beyond the buffer or to one that cannot be written, and memory that cannot be
\* used is reported.
EasDelivered ==
  job.kind = "eas" =>
    LET q    == job.query
        r    == QueryEAsFromList(q)
        size == ListSize(q.gea.names)
    IN  /\ r.copied =< q.capacity
        /\ q.bad \cap {"eaop", "oerror", "length"} # {} => r.rc # "NO_ERROR"
        /\ q.bad \cap {"eaop", "oerror", "length", "buffer"} # {} => r.copied = 0
        /\ NamesCopied(q) /\ r.rc = "NO_ERROR" =>
             /\ r.cbList = size /\ q.gea.cbList = NamesSize(q.gea.names)
             /\ size =< q.capacity /\ size < ListMax => r.copied = size
        /\ NamesCopied(q) /\ q.bad = {} /\ q.gea.cbList = NamesSize(q.gea.names)
             /\ size =< q.capacity /\ size =< ListMax => r.rc = "NO_ERROR"

\* "Is the FEA buffer big enough?  In not, we copy as much as possible and return an
\* overflow error."
OverflowTold ==
  job.kind = "eas" =>
    LET r == QueryEAsFromList(job.query)
    IN  r.cbList > job.query.capacity => r.rc # "NO_ERROR"

\* "Is cbList not too small or too big?"  A length that is not refused is copied.
LongestCopied ==
  job.kind = "eas" =>
    LET r == QueryEAsFromList(job.query)
    IN  r.rc = "NO_ERROR" /\ r.cbList =< job.query.capacity => r.copied = r.cbList

\* "For querying level 3 info, we copy the GEALIST pointed to by the EAOP structure in
\* pData to pFSData on entry": a query that succeeds has had its names copied.
NamesRead ==
  job.kind = "eas" =>
    (QueryEAsFromList(job.query).rc = "NO_ERROR" => NamesCopied(job.query))

\* The sectors of a directory, and the entries in one of them.
SectorsOf(l)    == l.iExtent .. l.iExtent + Sectors(l.iSize) - 1
EntriesIn(l, s)   == [k \in 1 .. Len(l.image[s]) |-> Entry(l.image[s][k], l.back)]

\* A record begins so late in its sector that one with the longest name would not fit.
BeginsLate(records) == \E k \in 2 .. Len(records) : Begin(records, k) + RecordBytes > SectorBytes

\* What a directory is listed as consists of entries of it, if lseek() can reach it, and is
\* no longer than memory lasts.  If moreover no record begins late, the directory is listed
\* in its order, and what could be read of it is not missing but for want of memory.  No
\* entry is listed twice unless a sector cannot be read, when the one before is repeated.
ListingWhole ==
  job.kind = "list" =>
    LET l        == job.listing
        sectors  == SectorsOf(l)
        readable == sectors \cap DOMAIN l.image
        listed   == DirEntries(l.image, l.place, l.iExtent, l.iSize, l.back, l.memory)
        whole    == FlattenSeq([k \in 1 .. Sectors(l.iSize) |-> EntriesIn(l, l.iExtent + k - 1)])
    IN  /\ Len(listed) =< l.memory
        /\ Reachable(l) =>
             \A e \in ToSet(listed) : \E s \in readable : e \in ToSet(EntriesIn(l, s))
        /\ Reachable(l) /\ (\A s \in readable : ~BeginsLate(l.image[s])) =>
             /\ readable = sectors => listed = SubSeq(whole, 1, Least(Len(whole), l.memory))
             /\ Len(listed) < l.memory =>
                  \E at \in [readable -> 0 .. Len(listed)] :
                    \A s \in readable :
                      /\ \A k \in DOMAIN EntriesIn(l, s) :
                           at[s] + k \in DOMAIN listed /\ listed[at[s] + k] = EntriesIn(l, s)[k]
                      /\ \A t \in readable : s < t => at[s] + Len(EntriesIn(l, s)) =< at[t]

\* "We cannot use sizeof (struct iso_path_table) or sizeof (struct iso_directory_record) to
\* compute on disk sizes": each record of a directory that can be read is listed.
AllListed ==
  job.kind = "list" =>
    LET l      == job.listing
        listed == DirEntries(l.image, l.place, l.iExtent, l.iSize, l.back, l.memory)
    IN  Reachable(l) /\ SectorsOf(l) \subseteq DOMAIN l.image /\ l.memory = Plenty =>
          \A s \in SectorsOf(l) : ToSet(EntriesIn(l, s)) \subseteq ToSet(listed)

\* No file looks like a directory inside.
PlainFiles(volume) ==
  \A r \in Records(volume.image) :
    r.isDir \/ DirEntries(volume.image, volume.place, r.iExtent, r.iSize, volume.back, Plenty) = <<>>

\* Both walks along a path end where it leads, or nowhere if it leads nowhere, in any
\* graph of directories, as long as no file looks like a directory: the first of them
\* walks through files as well (isoaccess.c:325).
PathsResolve ==
  job.kind = "volume" =>
    (PlainFiles(job.volume) =>
       \A path \in Paths :
         LET to == Resolved(job.volume, path)
         IN  /\ IsoEntryFromPath(job.volume, path) = to
             /\ DirExtentFromPath(job.volume, path) = IF to.isDir THEN to.iExtent ELSE 0)

\* A query that has room for its answer, or lacks a byte of it.
Query(v, path, set, level, lack) ==
  PathInfo(v, path, set, level, Needed(level) - lack, IF lack = 0 THEN "NO_ERROR" ELSE "BUFFER_OVERFLOW")

\* Requests agree on what a path is.  A directory can be changed to, a file can be opened
\* for reading, the attributes say which it is, queries with room for the answer are
\* answered, and no request on it writes; whatever the files look like inside, what is
\* opened is what the attributes say is a file.
RequestsAgree ==
  job.kind = "volume" =>
    \A path \in Paths :
      LET v    == job.volume
          attr == FileAttribute(v, path, FALSE)
      IN  /\ \A access \in {"read", "write", "readwrite", "execute"}, flag \in {"open", "replace", "fail"} :
               OpenCreate(v, path, access, flag) = "NO_ERROR" <=>
                 attr = <<"NO_ERROR", FALSE>> /\ flag = "open" /\ access \in {"read", "execute"}
          /\ FileAttribute(v, path, TRUE)[1] # "NO_ERROR" /\ Query(v, path, TRUE, 1, 0) # "NO_ERROR"
          /\ \A level \in 1 .. 5, lack \in {0, 1} :
               LET rc == Query(v, path, FALSE, level, lack)
               IN  /\ rc = "PATH_NOT_FOUND" <=> attr[1] # "NO_ERROR"
                   /\ rc = "NO_ERROR" <=>
                        attr[1] = "NO_ERROR" /\ level < 5 /\ (lack = 0 \/ level = 4)
          /\ PlainFiles(v) =>
               (ChangeDir(v, path) = "NO_ERROR" <=> attr = <<"NO_ERROR", TRUE>>)

=============================================================================

------------------------------- MODULE IsoDir -------------------------------
(***************************************************************************)
(* Directories of an ISO 9660 image, as isoaccess.c reads them, and what   *)
(* the daemon answers to the requests that name a path.                    *)
(*                                                                         *)
(* An image is a function from the places that can be read to sequences of *)
(* directory records; what follows the last record of a sector is zero.    *)
(* Places below SeekMax are the sectors; from SeekMax on, they are others  *)
(* where a read of the file may have left it, a sector apart.              *)
(* A record is [length, name, isDir, iExtent, iSize].  Its name is a       *)
(* sequence of Unicode characters; the single bytes 0 and 1 stand for the  *)
(* directory itself and the one above it.  The contents of a file may look *)
(* like records too.  A path is the sequence of its components.            *)
(***************************************************************************)
EXTENDS Integers, Sequences, SequencesExt, FiniteSets

CONSTANTS
  SectorBytes,  \* 2048
  SeekMax,      \* 2^20: the sectors that lseek() can be told of in 31 bits
  RecordBytes,  \* sizeof(struct iso_directory_record), with room for a long name
  Folded        \* strnicmp(): a function that maps a byte to its lower case

ASSUME IsoDirAssumption == /\ RecordBytes \in Nat /\ SectorBytes \in Nat \ {0} /\ SeekMax \in Nat \ {0}
                           /\ RecordBytes =< SectorBytes

-----------------------------------------------------------------------------
\* Reading a directory

DotName == 46

\* A name in the character set of the volume.  back gives zero for a character that the
\* set does not have, and what follows a zero is lost.
Converted(name, back) ==
  IF name = <<0>> THEN <<DotName>>
  ELSE IF name = <<1>> THEN <<DotName, DotName>>
  ELSE LET bytes == [k \in 1 .. Len(name) |-> back[name[k]]]
       IN  IF \E k \in 1 .. Len(name) : bytes[k] = 0
           THEN SubSeq(bytes, 1, SelectInSeq(bytes, LAMBDA b : b = 0) - 1) ELSE bytes

\* Where the k-th record of a sector begins.
Begin(records, k) ==
  LET begin[j \in 1 .. k] == IF j = 1 THEN 0 ELSE begin[j - 1] + records[j - 1].length
  IN  begin[k]

BugParsed(records) ==
  SelectSeq(records, LAMBDA r : \E k \in 1 .. Len(records) :
                        records[k] = r /\ Begin(records, k) < SectorBytes - RecordBytes)

\* The loop goes on only to a record that would fit if its name were the longest.
Parsed(records) ==
  SubSeq(records, 1,
         Cardinality({k \in 1 .. Len(records) :
                        k = 1 \/ Begin(records, k) =< SectorBytes - RecordBytes}))

\* Where lseek() goes.  Its offset is taken in 32 bits, and with a negative one it fails.
Seek(extent, place) ==
  LET sector == extent % (2 * SeekMax) IN IF sector < SeekMax THEN sector ELSE place

\* After k reads, where the file is, what is in the buffer and the records found so far.  A
\* read is tried after a failed lseek() too; a failed read leaves the buffer as it was.
Read(image, place, extent, n) ==
  LET after[k \in 0 .. n] ==
        IF k = 0 THEN [place |-> place, buffer |-> <<>>, records |-> <<>>]
        ELSE LET at     == Seek(extent + k - 1, after[k - 1].place)
                 ok     == at \in DOMAIN image
                 buffer == IF ok THEN image[at] ELSE after[k - 1].buffer
             IN  [place |-> IF ok THEN at + 1 ELSE at, buffer |-> buffer,
                  records |-> after[k - 1].records \o Parsed(buffer)]
  IN  after

Sectors(len) == (len + SectorBytes - 1) \div SectorBytes

Entry(r, back) == [chrName |-> Converted(r.name, back), isDir |-> r.isDir,
                   iExtent |-> r.iExtent, iSize |-> r.iSize]

EntriesOf(records, back) == [k \in 1 .. Len(records) |-> Entry(records[k], back)]

\* The list of entries ends where memory does.  An empty one is NULL.
Allocated(all, memory) == SubSeq(all, 1, IF Len(all) < memory THEN Len(all) ELSE memory)

DirEntries(image, place, extent, len, back, memory) ==
  Allocated(EntriesOf(Read(image, place, extent, Sectors(len))[Sectors(len)].records, back), memory)

-----------------------------------------------------------------------------
\* Walking along a path.  A volume is [image, place, root, back], the root an entry.  Each
\* directory on the way is read from the same place: lseek() does not fail on such volumes
\* as the walks are checked on.

Plenty == 1000

Missing == [chrName |-> <<>>, isDir |-> FALSE, iExtent |-> 0, iSize |-> 0]

Same(name, component) ==
  /\ Len(name) = Len(component)
  /\ \A k \in 1 .. Len(name) : Folded[name[k]] = Folded[component[k]]

Find(volume, extent, size, component) ==
  LET entries == DirEntries(volume.image, volume.place, extent, size, volume.back, Plenty)
      k       == SelectInSeq(entries, LAMBDA e : Same(e.chrName, component))
  IN  IF k = 0 THEN Missing ELSE entries[k]

\* Nothing here looks at what kind of entry the walk goes through.
EntryStep(volume, e, component) ==
  IF e = Missing THEN Missing ELSE Find(volume, e.iExtent, e.iSize, component)

IsoEntryFromPath(volume, path) ==
  LET at[k \in 0 .. Len(path)] ==
        IF k = 0 THEN volume.root ELSE EntryStep(volume, at[k - 1], path[k])
  IN  at[Len(path)]

BugFails(e) == e = Missing

\* The walk along directories ends where there is none.
Fails(e) == e = Missing \/ ~e.isDir

\* One component of it.  A zero extent is where the walk starts, and stands for the root.
DirStep(volume, at, component) ==
  IF at.fail THEN at
  ELSE LET from == IF at.iExtent = 0 THEN volume.root ELSE at
           e    == Find(volume, from.iExtent, from.iSize, component)
       IN  [fail |-> Fails(e), iExtent |-> e.iExtent, iSize |-> e.iSize]

\* The extent of a directory, and zero if there is none.
DirExtentFromPath(volume, path) ==
  LET start == [fail |-> FALSE, iExtent |-> 0, iSize |-> volume.root.iSize]
      at[k \in 0 .. Len(path)] == IF k = 0 THEN start ELSE DirStep(volume, at[k - 1], path[k])
      end   == at[Len(path)]
  IN  IF end.fail THEN 0 ELSE IF end.iExtent = 0 THEN volume.root.iExtent ELSE end.iExtent

-----------------------------------------------------------------------------
\* Requests

\* changeDir(), the part of fsChDir() that looks at the image.
ChangeDir(volume, path) ==
  IF DirExtentFromPath(volume, path) = 0 THEN "PATH_NOT_FOUND" ELSE "NO_ERROR"

\* The result, and whether the path is said to be a directory.
FileAttribute(volume, path, set) ==
  LET e == IsoEntryFromPath(volume, path)
  IN  IF e = Missing THEN <<"PATH_NOT_FOUND", FALSE>>
      ELSE IF set THEN <<"WRITE_PROTECT", FALSE>> ELSE <<"NO_ERROR", e.isDir>>

FileStatusBytes == 22   \* sizeof(FILESTATUS)
UlongBytes      == 4

\* What a query of levels 1 and 2 needs of its buffer.
Needed(level) == IF level = 1 THEN FileStatusBytes ELSE FileStatusBytes + UlongBytes

\* doFileInfo() for a query, eas being what storeEAsInFEAList() says of level 3.  At level 4
\* it has no names to store.
FileInfo(level, cbData, eas) ==
  CASE level \in {1, 2} -> IF cbData < Needed(level) THEN "BUFFER_OVERFLOW" ELSE "NO_ERROR"
    [] level = 3        -> eas
    [] level = 4        -> "NO_ERROR"
    [] OTHER            -> "NOT_SUPPORTED"

PathInfo(volume, path, set, level, cbData, eas) ==
  LET e == IsoEntryFromPath(volume, path)
  IN  IF e = Missing THEN "PATH_NOT_FOUND"
      ELSE IF set THEN "WRITE_PROTECT" ELSE FileInfo(level, cbData, eas)

BugOpenCreate(volume, path, access, flag) ==
  LET e == IsoEntryFromPath(volume, path)
  IN  CASE access = "dasd"                   -> "NOT_SUPPORTED"
        [] e = Missing                       -> "OPEN_FAILED"
        [] flag = "fail"                     -> "OPEN_FAILED"
        [] flag = "replace"                  -> "ACCESS_DENIED"
        [] flag # "open"                     -> "NOT_SUPPORTED"
        [] access \in {"write", "readwrite"} -> "ACCESS_DENIED"
        [] OTHER                             -> "NO_ERROR"

\* Access "execute" is what the kernel uses to load programs.  Whether a file is to be
\* created where there is none makes no difference.
OpenCreate(volume, path, access, flag) ==
  LET e == IsoEntryFromPath(volume, path)
  IN  CASE access = "dasd"                   -> "NOT_SUPPORTED"
        [] e = Missing                       -> "OPEN_FAILED"
        [] flag = "fail"                     -> "OPEN_FAILED"
        [] e.isDir                           -> "ACCESS_DENIED"
        [] flag = "replace"                  -> "ACCESS_DENIED"
        [] flag # "open"                     -> "NOT_SUPPORTED"
        [] access \in {"write", "readwrite"} -> "ACCESS_DENIED"
        [] OTHER                             -> "NO_ERROR"

-----------------------------------------------------------------------------
\* What they are for

\* Where the path leads if only directories are walked through: Missing if nowhere.
Enter(volume, e, component) ==
  IF e.isDir THEN Find(volume, e.iExtent, e.iSize, component) ELSE Missing

Resolved(volume, path) ==
  LET at[k \in 0 .. Len(path)] == IF k = 0 THEN volume.root ELSE Enter(volume, at[k - 1], path[k])
  IN  at[Len(path)]

=============================================================================

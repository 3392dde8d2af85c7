------------------------------- MODULE FileIO -------------------------------
(***************************************************************************)
(* Reading a file that is open (ifsdaemon/fileio.c, and the entries of the *)
(* driver that call it).  A file is a run of sectors of the image that     *)
(* begins at its extent.  The position is the kernel's, which hands it to  *)
(* every call and takes it back.                                           *)
(*                                                                         *)
(* A byte is represented by its place in the image, so that two bytes are  *)
(* the same only if they come from the same place.  ULONG and int have     *)
(* their widths: numbers are modulo Word, and half of Word and above is    *)
(* negative when they are signed.                                          *)
(***************************************************************************)
EXTENDS Integers, Sequences

CONSTANTS
  Word,       \* 2^32
  Sector,     \* 2048
  ImageSize,  \* bytes in the image
  Files,      \* the files that may be open: records of an extent and a size
  Lengths,    \* the lengths that programs ask for (USHORT)
  Offsets,    \* the offsets they seek to (LONG)
  Faults      \* "badresult": what is read may not be deliverable,
              \* "negative": programs give FILE_BEGIN negative offsets

ASSUME WordAssumption == /\ Sector \in Nat \ {0} /\ Word \in Nat \ {0}
                         /\ Word % (2 * Sector) = 0
ASSUME FileAssumption ==
  /\ ImageSize \in Nat
  /\ Files \subseteq [iExtent : Nat, iSize : 0 .. Word - 1]
  /\ Lengths \subseteq 0 .. Word - 1
  /\ Offsets \subseteq -(Word \div 2) .. (Word \div 2) - 1

VARIABLES
  file,          \* the entry of the file that is open
  sfi_position,  \* where the kernel has it
  call,          \* the last call: "read", the type of a seek, or another,
  asked,         \* the length or the offset it was given,
  rc, cbLen,     \* its result, and the length it returned
  pData,         \* what the program got
  since,         \* history: the position after the last seek,
  got            \* and what was read since then, when that is in the file

sffsi  == <<file, sfi_position>>
result == <<call, asked, rc, cbLen, pData>>
past   == <<since, got>>
vars   == <<sffsi, result, past>>

Least(a, b) == IF a < b THEN a ELSE b
Signed(n) == IF n >= Word \div 2 THEN n - Word ELSE n

Unknown == -1

sfi_size == file.iSize

Init ==
  /\ file \in Files /\ sfi_position = 0
  /\ call = "open" /\ asked = 0 /\ rc = "NO_ERROR" /\ cbLen = 0 /\ pData = <<>>
  /\ since = 0 /\ got = <<>>

-----------------------------------------------------------------------------

\* What fread() puts at `offset` of the buffer after fseek() to a sector.  When the
\* image has ended, what is there is left from before; when fseek() has failed, it
\* comes from anywhere.
Byte(sector, offset) ==
  LET seek == Signed((sector * Sector) % Word)
  IN  IF seek >= 0 /\ seek + offset < ImageSize THEN seek + offset ELSE Unknown

\* How much is read.  The difference is unsigned: beyond the end it is large.
Clipped(n) == Least(Least(n, sfi_size), (sfi_size - sfi_position) % Word)

BugCopied(n) ==
  LET start  == file.iExtent + sfi_position \div Sector
      offset == sfi_position % Sector
      first  == Least(Sector - offset, n)
  IN  [i \in 1 .. n |->
         IF i =< first THEN Byte(start, offset + i - 1)
         ELSE Byte(start + 1 + (i - first - 1) \div Sector, (offset + i - first - 1) % Sector)]

\* What is read: the rest of the first sector, then whole sectors from their start.
Copied(n) ==
  LET start  == file.iExtent + sfi_position \div Sector
      offset == sfi_position % Sector
      first  == Least(Sector - offset, n)
  IN  [i \in 1 .. n |->
         IF i =< first THEN Byte(start, offset + i - 1)
         ELSE Byte(start + 1 + (i - first - 1) \div Sector, (i - first - 1) % Sector)]

\* fsRead() for n bytes, and FS_READ as it hands over the result.
Read(n) ==
  LET data == Copied(Clipped(n))
  IN  /\ call' = "read" /\ asked' = n /\ rc' = "NO_ERROR"
      /\ cbLen' = Len(data) /\ pData' = data
      /\ sfi_position' = (sfi_position + Len(data)) % Word
      /\ got' = IF since =< sfi_size THEN got \o data ELSE <<>>
      /\ UNCHANGED <<file, since>>

\* FS_READ finds that it cannot write to the program's buffer when it has already
\* stored the new position.
ReadUndelivered(n) ==
  /\ "badresult" \in Faults /\ Clipped(n) > 0
  /\ call' = "read" /\ asked' = n /\ rc' = "ERROR_INVALID_PARAMETER"
  /\ cbLen' = Clipped(n) /\ pData' = <<>>
  /\ sfi_position' = (sfi_position + Clipped(n)) % Word
  /\ since' = sfi_position' /\ got' = <<>>
  /\ UNCHANGED file

-----------------------------------------------------------------------------

\* A call that fails, or has no effect.
Refuse(request, argument, error) ==
  /\ call' = request /\ asked' = argument /\ rc' = error /\ cbLen' = 0 /\ pData' = <<>>
  /\ UNCHANGED <<sffsi, past>>

MoveTo(usType, ibOffset, position) ==
  /\ call' = usType /\ asked' = ibOffset /\ rc' = "NO_ERROR" /\ cbLen' = 0 /\ pData' = <<>>
  /\ sfi_position' = position /\ since' = position /\ got' = <<>>
  /\ UNCHANGED file

BugMoveBy(usType, from, ibOffset) == MoveTo(usType, ibOffset, (from + ibOffset) % Word)

\* FILE_CURRENT and FILE_END: the sum is a LONG, and must not be negative.
MoveBy(usType, from, ibOffset) ==
  LET lNewPos == Signed((from + ibOffset) % Word)
  IN  IF lNewPos < 0 THEN Refuse(usType, ibOffset, "ERROR_NEGATIVE_SEEK")
      ELSE MoveTo(usType, ibOffset, lNewPos)

\* fsChgFilePtr().  FILE_BEGIN takes any offset, negative ones included.
ChgFilePtr(usType, ibOffset) ==
  CASE usType = "FILE_BEGIN"   -> MoveTo(usType, ibOffset, ibOffset % Word)
    [] usType = "FILE_CURRENT" -> MoveBy(usType, sfi_position, ibOffset)
    [] usType = "FILE_END"     -> MoveBy(usType, sfi_size, ibOffset)
    [] OTHER                   -> Refuse(usType, ibOffset, "ERROR_NOT_SUPPORTED")

Write   == Refuse("write", 0, "ERROR_WRITE_PROTECT")
NewSize == Refuse("newsize", 0, "ERROR_WRITE_PROTECT")
IOCtl   == Refuse("ioctl", 0, "ERROR_NOT_SUPPORTED")
Commit  == Refuse("commit", 0, "NO_ERROR")

SeekTypes == {"FILE_BEGIN", "FILE_CURRENT", "FILE_END", "unknown"}

\* What programs seek to.
Sought(usType, ibOffset) ==
  usType = "FILE_BEGIN" /\ ibOffset < 0 => "negative" \in Faults

Next ==
  \/ \E n \in Lengths : Read(n) \/ ReadUndelivered(n)
  \/ \E t \in SeekTypes, o \in Offsets : Sought(t, o) /\ ChgFilePtr(t, o)
  \/ Write \/ NewSize \/ IOCtl \/ Commit

Spec == Init /\ [][Next]_vars

-----------------------------------------------------------------------------
(* Properties *)

\* Every variable has its type; a length that is returned is at most the file's.
TypeOK ==
  /\ file \in Files /\ sfi_position \in 0 .. Word - 1
  /\ call \in {"open", "read", "write", "newsize", "ioctl", "commit"} \cup SeekTypes
  /\ asked \in Lengths \cup Offsets \cup {0}
  /\ rc \in {"NO_ERROR", "ERROR_INVALID_PARAMETER", "ERROR_WRITE_PROTECT",
             "ERROR_NOT_SUPPORTED", "ERROR_NEGATIVE_SEEK"}
  /\ cbLen \in 0 .. sfi_size
  /\ DOMAIN pData = 1 .. Len(pData) /\ Len(pData) \in {0, cbLen}
  /\ since \in 0 .. Word - 1

\* The bytes of the file.  Those that the image does not hold, or that lie where an
\* offset of the image no longer fits a LONG (fsRead() computes it in an int), are Unknown.
contents ==
  [i \in 1 .. sfi_size |->
     LET place == file.iExtent * Sector + i - 1
     IN  IF place < Least(ImageSize, Word \div 2) THEN place ELSE Unknown]

\* A program that seeks into a file and reads it piece by piece, in pieces of any
\* lengths, gets exactly the bytes between where it began and where it is:
\* fsRead() neither skips, repeats nor reorders any, whatever sectors they are in.
PiecesAddUp ==
  since =< sfi_size =>
    /\ sfi_position = since + Len(got) /\ sfi_position =< sfi_size
    /\ \A i \in DOMAIN got : contents[since + i] \in {Unknown, got[i]}

\* A length that FS_READ returns is a number of bytes that were read from the image.
OnlyBytesRead ==
  call = "read" /\ rc = "NO_ERROR" => \A i \in 1 .. cbLen : pData[i] # Unknown

Promise == INSTANCE ReadOnlyFile WITH position <- sfi_position

\* The file behaves like a ReadOnlyFile: fsRead() returns all that it can of what was
\* asked for and nothing else, fsChgFilePtr() goes where it is told or refuses, and what
\* is refused or lost moves nothing else.
ImplementsReadOnlyFile == Promise!Spec

=============================================================================

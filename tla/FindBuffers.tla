---------------------------- MODULE FindBuffers ----------------------------
(***************************************************************************)
(* The results of a directory search (ifsdaemon/find.c and storeFileInfo() *)
(* in fileinfo.c): each call stores as many entries as were asked for and  *)
(* fit in the caller's buffer, and the next one goes on where it ended.    *)
(* Entries vary in length, may be preceded by a position, and may have to  *)
(* be stored without their extended attributes.                            *)
(*                                                                         *)
(* Of an entry the module keeps its place in the directory, the length of  *)
(* its name, and what decides whether it matches; whether its name fits    *)
(* the search specification is the subject of Names.  The life of a search *)
(* in the daemon is the subject of Volumes.                                *)
(***************************************************************************)
EXTENDS Integers, Sequences

CONSTANTS
  Directory,  \* the entries that getDirEntries() returned: a sequence of records
              \*   cbName    the length of the name
              \*   fName     the name matches the search specification
              \*   fNon83    hasNon83Name()
              \*   flFlags   a subset of {"HIDDEN", "SYSTEM", "DIRECTORY"}
  Attrs,      \* the attributes of searches: subsets of
              \*   {"HIDDEN", "SYSTEM", "DIRECTORY", "NON83"}, what may be found, and
              \*   {"MUST_HIDDEN", "MUST_SYSTEM", "MUST_DIRECTORY", "MUST_ARCHIVED"}
  Calls,      \* what callers ask for: records of
              \*   cMatch    how many entries
              \*   cbData    the size of the buffer
              \*   usLevel   1, 2 or 3
              \*   fPosition FF_GETPOS
              \*   cbEAs     the size of the list of extended attributes, for level 3
  CbPosition, CbStatus, CbSize,   \* sizeof ULONG, FILESTATUS, and ULONG again
  FirstPosition, \* what iNext may hold in a new SearchData, as nothing sets it
  Faults      \* "badresult": results may not be deliverable

None == {"none"}

ASSUME SizeAssumption == {CbPosition, CbStatus, CbSize} \subseteq Nat
ASSUME DirectoryAssumption ==
  Directory \in Seq([cbName : Nat, fName : BOOLEAN, fNon83 : BOOLEAN,
                     flFlags : SUBSET {"HIDDEN", "SYSTEM", "DIRECTORY"}])
ASSUME SearchAssumption ==
  /\ Calls \subseteq [cMatch : Nat, cbData : Nat, usLevel : 1 .. 3, fPosition : BOOLEAN,
                      cbEAs : Nat]
  /\ None \notin Attrs
  /\ FirstPosition \subseteq Int

VARIABLES
  flAttr,     \* the attributes of the search, or None
  pIsoNext,   \* the place in the directory where it goes on
  iNext,
  rc, items,  \* the result of the last call, and the places of the entries returned
  delivered   \* history: all that this search has returned, with positions

search == <<flAttr, pIsoNext, iNext>>
vars   == <<search, rc, items, delivered>>

End == Len(Directory) + 1

Init ==
  /\ flAttr = None /\ pIsoNext = End /\ iNext \in FirstPosition
  /\ rc = "NO_ERROR" /\ items = <<>> /\ delivered = <<>>

-----------------------------------------------------------------------------

\* entryMatches() and fileMatches2().  No entry of a CD is archived.
Matches(e, attr) ==
  /\ "HIDDEN" \in e.flFlags => "HIDDEN" \in attr
  /\ "MUST_HIDDEN" \in attr => "HIDDEN" \in e.flFlags
  /\ e.fNon83 => "NON83" \in attr
  /\ e.fName
  /\ "DIRECTORY" \in e.flFlags => "DIRECTORY" \in attr
  /\ "MUST_DIRECTORY" \in attr => "DIRECTORY" \in e.flFlags
  /\ "SYSTEM" \in e.flFlags => "SYSTEM" \in attr
  /\ "MUST_SYSTEM" \in attr => "SYSTEM" \in e.flFlags
  /\ "MUST_ARCHIVED" \notin attr

\* storeFileInfo(): how the entry fares in a buffer of which `room` bytes are left.
\* When the list of attributes does not fit, their size is stored in its stead.
Stored(e, call, room) ==
  LET head  == (IF call.fPosition THEN CbPosition ELSE 0) + CbStatus
      noEAs == call.usLevel = 3 /\ head + call.cbEAs > room
      eas   == CASE call.usLevel = 1 -> 0
                 [] call.usLevel = 2 \/ noEAs -> CbSize
                 [] OTHER -> call.cbEAs
      size  == head + eas + e.cbName + 2
  IN  [size |-> size,
       rc |-> IF size > room THEN "ERROR_BUFFER_OVERFLOW"
              ELSE IF noEAs THEN "ERROR_EAS_DIDNT_FIT" ELSE "NO_ERROR"]

BugBreaks(error, cAdded) == TRUE

\* The loop ends with what it has stored, instead of with the error.
Breaks(error, cAdded) ==
  /\ cAdded > 0
  /\ error \in {"ERROR_BUFFER_OVERFLOW", "ERROR_EAS_DIDNT_FIT", "ERROR_NO_MORE_FILES"}

BugStay(i, error) == i

BugSkip(i, error) == i + 1

\* Where the search goes on when its first entry could not be stored as asked:
\* "In the case that the EAs for the first entry don't fit, advance anyway".
AfterFailure(i, error) == IF error = "ERROR_EAS_DIDNT_FIT" THEN i + 1 ELSE i

Result(error, entries, then) == [rc |-> error, items |-> entries, next |-> then]

\* The loop of storeDirContents() comes to the end of the directory, whatever room is left.
AtEnd(call) ==
  [room \in Nat |-> [cAdded \in 0 .. call.cMatch |->
     Result(IF Breaks("ERROR_NO_MORE_FILES", cAdded) THEN "NO_ERROR" ELSE "ERROR_NO_MORE_FILES",
            <<>>, End)]]

\* It comes to entry i, when `room` bytes of the buffer are left and cAdded entries are
\* stored.  `further` is what comes of it when it goes on behind i.
AtEntry(attr, call, i, further) ==
  [room \in Nat |-> [cAdded \in 0 .. call.cMatch |->
     LET one  == Stored(Directory[i], call, room)
         more == further[room - one.size][cAdded + 1]
     IN  IF ~Matches(Directory[i], attr) THEN further[room][cAdded]
         ELSE CASE one.rc = "NO_ERROR" /\ cAdded + 1 < call.cMatch ->
                     Result(more.rc, <<i>> \o more.items, more.next)
                [] one.rc = "NO_ERROR" /\ cAdded + 1 >= call.cMatch ->
                     Result("NO_ERROR", <<i>>, i + 1)
                [] one.rc # "NO_ERROR" /\ Breaks(one.rc, cAdded) -> Result("NO_ERROR", <<>>, i)
                [] OTHER ->
                     Result(one.rc, IF one.rc = "ERROR_EAS_DIDNT_FIT" THEN <<i>> ELSE <<>>,
                            AfterFailure(i, one.rc))]]

\* From entry i on.
Fill(attr, call) ==
  LET From[i \in 1 .. End] ==
        IF i = End THEN AtEnd(call) ELSE AtEntry(attr, call, i, From[i + 1])
  IN  From

\* storeDirContents() for the search that goes on at `next`: the result, the entries
\* stored, and where the search goes on then.
Answer(attr, next, call) ==
  IF call.cMatch = 0 THEN Result("ERROR_INVALID_PARAMETER", <<>>, next)
  ELSE Fill(attr, call)[next][call.cbData][0]

Succeeds(answer) == answer.rc \in {"NO_ERROR", "ERROR_EAS_DIDNT_FIT"}

\* The entries with the positions that FF_GETPOS stores.
Numbered(answer) ==
  [k \in DOMAIN answer.items |-> <<answer.items[k], iNext + answer.items[k] - pIsoNext>>]

BugMoveBeyond(next) == pIsoNext' = next + 1 /\ iNext' = iNext + next + 1 - pIsoNext

BugCountItems(next) == pIsoNext' = next /\ iNext' = iNext + Len(items')

\* advanceSearch(), once for each entry that was passed
MoveOn(next) == pIsoNext' = next /\ iNext' = iNext + next - pIsoNext

-----------------------------------------------------------------------------

\* fsFindFirst() refuses, or finds no directory, or an empty one.
FindFirstRefused ==
  /\ flAttr = None
  /\ rc' \in {"ERROR_INVALID_PARAMETER", "ERROR_NOT_SUPPORTED", "ERROR_NOT_ENOUGH_MEMORY",
              "ERROR_PATH_NOT_FOUND", "ERROR_FILE_NOT_FOUND"}
  /\ items' = <<>>
  /\ UNCHANGED <<search, delivered>>

\* fsFindFirst() with its directory at hand.  The search stays only if it succeeds.
FindFirst(attr, call) ==
  LET answer == Answer(attr, 1, call)
  IN  /\ flAttr = None /\ Directory # <<>>
      /\ rc' = answer.rc /\ items' = answer.items
      /\ IF Succeeds(answer)
         THEN \E i \in FirstPosition :
                /\ flAttr' = attr /\ pIsoNext' = answer.next
                /\ iNext' = i + answer.next - 1
                /\ delivered' = [k \in DOMAIN answer.items |->
                                   <<answer.items[k], i + answer.items[k] - 1>>]
         ELSE UNCHANGED <<search, delivered>>

\* FS_FINDFIRST cannot deliver the results: it closes the search.
FindFirstUndelivered(attr, call) ==
  /\ "badresult" \in Faults /\ flAttr = None /\ Directory # <<>>
  /\ Succeeds(Answer(attr, 1, call))
  /\ rc' = "ERROR_INVALID_PARAMETER" /\ items' = <<>>
  /\ UNCHANGED <<search, delivered>>

\* fsFindNext(), and fsFindFromName(): the position and the name are not looked at.
FindNext(call) ==
  LET answer == Answer(flAttr, pIsoNext, call)
  IN  /\ flAttr # None
      /\ rc' = answer.rc /\ items' = answer.items
      /\ MoveOn(answer.next)
      /\ delivered' = delivered \o Numbered(answer)
      /\ UNCHANGED flAttr

\* FS_FINDNEXT cannot deliver the results, but the search has gone on.
FindNextUndelivered(call) ==
  LET answer == Answer(flAttr, pIsoNext, call)
  IN  /\ "badresult" \in Faults /\ flAttr # None /\ Succeeds(answer)
      /\ rc' = "ERROR_INVALID_PARAMETER" /\ items' = <<>>
      /\ MoveOn(answer.next)
      /\ UNCHANGED <<flAttr, delivered>>

FindClose ==
  /\ flAttr # None
  /\ flAttr' = None /\ pIsoNext' = End /\ iNext' \in FirstPosition
  /\ rc' = "NO_ERROR" /\ items' = <<>> /\ delivered' = <<>>

Next ==
  \/ FindFirstRefused \/ FindClose
  \/ \E call \in Calls :
       \/ \E attr \in Attrs : FindFirst(attr, call) \/ FindFirstUndelivered(attr, call)
       \/ FindNext(call) \/ FindNextUndelivered(call)

\* A buffer that holds any entry with the size of its attributes, if need be.
Adequate(call) ==
  /\ call.cMatch > 0
  /\ \A i \in DOMAIN Directory : Stored(Directory[i], call, call.cbData).rc # "ERROR_BUFFER_OVERFLOW"

Spec == Init /\ [][Next]_vars

-----------------------------------------------------------------------------
(* Properties *)

MatchingEntries(attr) == {i \in DOMAIN Directory : Matches(Directory[i], attr)}

\* Types; a search that is not open has no place and has returned nothing; and only a
\* call that succeeds returns entries.
TypeOK ==
  /\ flAttr \in Attrs \cup {None} /\ pIsoNext \in 1 .. End
  /\ flAttr = None => pIsoNext = End /\ delivered = <<>>
  /\ iNext \in Int
  /\ \A k \in DOMAIN items : items[k] \in DOMAIN Directory
  /\ rc \in {"NO_ERROR", "ERROR_EAS_DIDNT_FIT"} \/ items = <<>>

\* Two entries are as far apart in their positions as in the directory, also when
\* they come from different calls, whatever the first position happened to be and
\* whatever was skipped or lost in between.
PositionsAgree ==
  \A j, k \in DOMAIN delivered :
    delivered[j][2] - delivered[k][2] = delivered[j][1] - delivered[k][1]

\* No entry is returned that does not match, none twice, and none out of order, over
\* all calls of a search, failed and lost ones included.
EachOnceInOrder ==
  \A k \in DOMAIN delivered :
    /\ Matches(Directory[delivered[k][1]], flAttr)
    /\ \A j \in 1 .. k - 1 : delivered[j][1] < delivered[k][1]

Promise == INSTANCE Enumeration WITH
  Matching <- [attr \in Attrs |-> MatchingEntries(attr)],
  left <- IF flAttr = None THEN {0} ELSE {i \in MatchingEntries(flAttr) : i >= pIsoNext}

\* Searches implement Enumeration: an overflow loses nothing, the end is reported when
\* everything was returned and not before.
ImplementsEnumeration == Promise!Spec

\* Every call with an adequate buffer gets on, whatever calls came before it: it passes
\* an entry, or all are passed already, and it says so.
AdequateAdvances ==
  [][\A call \in Calls : Adequate(call) /\ FindNext(call) =>
       pIsoNext' > pIsoNext \/ (pIsoNext = End /\ rc' = "ERROR_NO_MORE_FILES")]_vars

=============================================================================

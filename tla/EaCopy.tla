------------------------------- MODULE EaCopy -------------------------------
(***************************************************************************)
(* Extended attributes on their way to a program.  ea.c makes a list of    *)
(* them in the exchange buffer, and the driver copies it to the program's  *)
(* (copyEAOP() in stubfsd.c).  An image has no attributes: for each name   *)
(* that is asked for there is an empty one.  Of a name only its length     *)
(* counts.                                                                 *)
(***************************************************************************)
EXTENDS Integers, Sequences

CONSTANT ListMax    \* 65536, the longest list, and the size of the exchange buffer

ASSUME EaAssumption == ListMax \in Nat /\ ListMax > 8

CbList == 4   \* sizeof(ULONG), the length at the start of a list
CbFea  == 4   \* sizeof(FEA), without the name
CbNul  == 1

\* What a list of these attributes takes.
ListSizes(names) ==
  LET size[k \in 0 .. Len(names)] ==
        IF k = 0 THEN CbList ELSE size[k - 1] + CbFea + names[k] + CbNul
  IN  size

ListSize(names) == ListSizes(names)[Len(names)]

-----------------------------------------------------------------------------
\* In the daemon

\* One attribute after those stored so far.
StoreEA(s, cbName) ==
  IF s.rc # "NO_ERROR" THEN s
  ELSE IF s.cbData < CbFea + cbName + CbNul THEN [s EXCEPT !.rc = "BUFFER_OVERFLOW"]
  ELSE [s EXCEPT !.cbData = @ - (CbFea + cbName + CbNul)]

\* The loop over the names.
StoreEAs(names, cbData) ==
  LET after[k \in 0 .. Len(names)] ==
        IF k = 0 THEN [rc |-> "NO_ERROR", cbData |-> cbData] ELSE StoreEA(after[k - 1], names[k])
  IN  after[Len(names)]

\* A list of names, [names, cbList]: cbList is the length that it begins with.  A name
\* takes three bytes less in it than its attribute takes in the answer.
NamesSize(names) == ListSize(names) - 3 * Len(names)

\* The length may be less than its own size, or end in the middle of a name.
StoreEAsInFEAList(gea, cbData) ==
  LET all == StoreEAs(gea.names, cbData - CbList)
      rc  == IF cbData < CbList THEN "BUFFER_OVERFLOW"
             ELSE IF gea.cbList < CbList THEN "EA_LIST_INCONSISTENT"
             ELSE IF all.rc # "NO_ERROR" THEN all.rc
             ELSE IF gea.cbList # NamesSize(gea.names) THEN "EA_LIST_INCONSISTENT" ELSE "NO_ERROR"
  IN  [rc |-> rc, cbList |-> IF rc = "NO_ERROR" THEN cbData - all.cbData ELSE 0]

-----------------------------------------------------------------------------
\* In the driver.  A query is a record of
\*   gea       the program's list of names
\*   left      the list that the exchange buffer holds from earlier requests
\*   capacity  the length that the program has put at the start of its own buffer
\*   bad       what of the program's memory cannot be used: its EAOP ("eaop"), the
\*             EAOP's oError ("oerror"), the list of names ("names"), the length of its
\*             buffer ("length"), the buffer ("buffer")
\* The lengths that are probed and copied have 16 bits: of ListMax bytes none is left.

Unusable == {"eaop", "oerror", "names", "length", "buffer"}

\* copyEAOP(CEA_GEAS_TO_BUF) succeeds, and copies something.
NamesCopied(q) ==
  /\ q.bad \cap {"eaop", "names"} = {}
  /\ q.gea.cbList \in CbList .. ListMax /\ q.gea.cbList % ListMax # 0

\* What the daemon finds in the exchange buffer.  FS_FILEINFO does not look at the result
\* of copyFileInfoBufPre().
CopyIn(q) == IF NamesCopied(q) THEN q.gea ELSE q.left

BugCopyOut(cbList, q) ==
  LET cb == IF cbList > ListMax THEN q.capacity ELSE cbList
  IN  IF q.bad \cap {"eaop", "oerror", "length"} # {} \/ ("buffer" \in q.bad /\ cb % ListMax # 0)
      THEN [rc |-> "INVALID_PARAMETER", copied |-> 0]
      ELSE [rc |-> "NO_ERROR", copied |-> cb % ListMax]

\* copyEAOP(CEA_BUF_TO_FEAS | CEA_SET_OERROR) on the daemon's list.  An overflow is noted
\* in rcfinal, and rc is returned.
CopyOut(cbList, q) ==
  LET cb == IF cbList > ListMax \/ cbList > q.capacity THEN q.capacity ELSE cbList
  IN  IF q.bad \cap {"eaop", "oerror", "length"} # {} \/ ("buffer" \in q.bad /\ cb % ListMax # 0)
      THEN [rc |-> "INVALID_PARAMETER", copied |-> 0]
      ELSE [rc |-> "NO_ERROR", copied |-> cb % ListMax]

\* A query of the attributes in a list, from its arguments to its result: doFileInfo()
\* takes the exchange buffer to be ListMax bytes long, and FS_FILEINFO copies whatever
\* is in it, also when the daemon reports an error.
QueryEAsFromList(q) ==
  LET daemon == StoreEAsInFEAList(CopyIn(q), ListMax)
      driver == CopyOut(daemon.cbList, q)
  IN  [rc |-> IF daemon.rc # "NO_ERROR" THEN daemon.rc ELSE driver.rc,
       cbList |-> daemon.cbList, copied |-> driver.copied]

=============================================================================

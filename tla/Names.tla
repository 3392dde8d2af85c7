------------------------------- MODULE Names -------------------------------
(***************************************************************************)
(* Names, paths, dates and parameters: the pattern rules of a search       *)
(* (find.c), the helpers of ifsdaemon/utils.c and a loop of attach.c, each *)
(* beside a definition of what it is for.  A name is a sequence of         *)
(* characters.                                                             *)
(***************************************************************************)
EXTENDS Integers, Sequences, SequencesExt, FiniteSets

CONSTANTS
  BaseMax, ExtMax,  \* 8 and 3: the parts of a DOS name
  BadChars,         \* DOSBADCHARS, the dot among them
  ParamBytes        \* sizeof(AEFS_SETPARAMS)

ASSUME NamesAssumption == BaseMax \in Nat /\ ExtMax \in Nat /\ "." \in BadChars

\* tolower() of the characters that occur.
Lower(c) == IF c = "A" THEN "a" ELSE c

-----------------------------------------------------------------------------
\* Patterns

BugLeftOver(name) == [j \in 1 .. Len(name) + 1 |-> j = Len(name) + 1]

\* The pattern is at its end: whether the name is, from each place on.
LeftOver(name) == [j \in 1 .. Len(name) + 1 |-> \A k \in j .. Len(name) : name[k] = "."]

\* The pattern goes on with c, and with what compares with the name as `rest` says.
Compared(c, name, rest) ==
  LET end == Len(name) + 1
      from[j \in 1 .. end] ==
        CASE c = "*" -> (j < end /\ from[j + 1]) \/ rest[j]
          [] c = "?" -> \/ j = end
                        \/ name[j] = "." /\ rest[j]
                        \/ name[j] # "." /\ rest[j + 1]
          [] c = "." -> \/ j = end /\ rest[j]
                        \/ j < end /\ name[j] = "." /\ rest[j + 1]
          [] OTHER -> j < end /\ Lower(c) = Lower(name[j]) /\ rest[j + 1]
  IN  from

\* The comparison of exp from i on, with the name from each place on.
Comparison(exp, name) ==
  LET match[i \in 1 .. Len(exp) + 1] ==
        IF i > Len(exp) THEN LeftOver(name) ELSE Compared(exp[i], name, match[i + 1])
  IN  match

NameMatches(exp, name) == Comparison(exp, name)[1][1]

\* The rules themselves: the name is cut into one piece for each character of the
\* pattern, and dots that are left over.  A ? stands for one character other than a
\* dot, or for nothing before a dot or the end; a dot for itself, or for nothing at the
\* end; a * for anything.  Tails gives the ends of what i characters can stand for.
Stands(c, name, from, to) ==
  LET atEnd == from = Len(name)
  IN  CASE c = "*" -> from =< to
        [] c = "?" -> \/ from = to /\ (atEnd \/ name[to + 1] = ".")
                      \/ to = from + 1 /\ name[to] # "."
        [] c = "." -> (from = to /\ atEnd) \/ (to = from + 1 /\ name[to] = ".")
        [] OTHER -> to = from + 1 /\ Lower(name[to]) = Lower(c)

Tails(exp, name) ==
  LET tails[i \in 0 .. Len(exp)] ==
        IF i = 0 THEN {0}
        ELSE {to \in 0 .. Len(name) : \E from \in tails[i - 1] : Stands(exp[i], name, from, to)}
  IN  tails

MatchesRules(exp, name) ==
  \E t \in Tails(exp, name)[Len(exp)] : \A k \in t + 1 .. Len(name) : name[k] = "."

-----------------------------------------------------------------------------
\* DOS names

BugRefused(s, c) == s.i + 1 > (IF s.ext THEN ExtMax ELSE BaseMax)

Refused(s, c) == s.i + 1 > (IF s.ext THEN ExtMax ELSE BaseMax) \/ c \in BadChars

\* One turn of the loop of hasNon83Name(), which ends at the first bad character.
ScanChar(s, c) ==
  IF s.bad THEN s
  ELSE IF c = "." THEN [ext |-> TRUE, i |-> 0, bad |-> s.ext]
  ELSE [ext |-> s.ext, i |-> s.i + 1, bad |-> Refused(s, c)]

ScanName(name) ==
  LET scan[k \in 0 .. Len(name)] ==
        IF k = 0 THEN [ext |-> FALSE, i |-> 0, bad |-> FALSE] ELSE ScanChar(scan[k - 1], name[k])
  IN  scan

HasNon83Name(name) == name \notin {<<".">>, <<".", ".">>} /\ ScanName(name)[Len(name)].bad

\* A base and perhaps an extension, neither of them too long.
IsDosName(name) ==
  LET Fine(part, max) == Len(part) =< max /\ \A k \in 1 .. Len(part) : part[k] \notin BadChars
  IN  \/ name \in {<<".">>, <<".", ".">>}
      \/ Fine(name, BaseMax)
      \/ \E k \in 1 .. Len(name) : /\ name[k] = "."
                                   /\ Fine(SubSeq(name, 1, k - 1), BaseMax)
                                   /\ Fine(SubSeq(name, k + 1, Len(name)), ExtMax)

-----------------------------------------------------------------------------
\* Paths

Separators == {"/", "\\"}

BugSplitPath(full) ==
  LET p2 == SelectLastInSeq(full, LAMBDA c : c \in Separators)
  IN  <<SubSeq(full, 1, p2 - 1), SubSeq(full, p2 + 1, Len(full))>>

\* The last separator, and before the separators that precede it, what is left.  The
\* walk back stops at the start of the path.
SplitPath(full) ==
  LET p2   == SelectLastInSeq(full, LAMBDA c : c \in Separators)
      back == SelectLastInSeq(SubSeq(full, 1, p2), LAMBDA c : c \notin Separators)
  IN  <<SubSeq(full, 1, back), SubSeq(full, p2 + 1, Len(full))>>

\* "its last component and the stuff that precedes it (minus the separating
\* (back)slash)".
IsSplit(full, prefix, last) ==
  /\ \E gap \in 1 .. Len(full) :
       /\ Len(prefix) + gap + Len(last) = Len(full)
       /\ \A k \in Len(prefix) + 1 .. Len(prefix) + gap : full[k] \in Separators
  /\ IsPrefix(prefix, full) /\ IsSuffix(last, full)
  /\ \A k \in 1 .. Len(last) : last[k] \notin Separators
  /\ prefix = <<>> \/ prefix[Len(prefix)] \notin Separators

-----------------------------------------------------------------------------
\* Dates

BugIsoEntryTimeToOS2(date) ==
  [year |-> (date[1] + 80) % 128, month |-> date[2] % 16, day |-> date[3] % 32,
   hours |-> date[4] % 32, minutes |-> date[5] % 64, twosecs |-> (date[6] \div 2) % 32]

\* From a record of a directory, years since 1900, to the bit fields of OS/2, years
\* since 1980.  The distance from Greenwich, the seventh byte, is not looked at.
IsoEntryTimeToOS2(date) ==
  [year |-> (date[1] - 80) % 128, month |-> date[2] % 16, day |-> date[3] % 32,
   hours |-> date[4] % 32, minutes |-> date[5] % 64, twosecs |-> (date[6] \div 2) % 32]

\* What a program makes of the fields.
Shown(d) == <<1980 + d.year, d.month, d.day, d.hours, d.minutes, 2 * d.twosecs>>

\* The record's own meaning.
Recorded(date) == <<1900 + date[1], date[2], date[3], date[4], date[5], date[6]>>

-----------------------------------------------------------------------------
\* Parameters of the daemon (FSCTL_AEFS_SETPARAMS): strings, each with its NUL, and
\* another NUL.  The last place of the buffer is not looked at but as that other NUL.

Nul == 0

BugStop(buf) ==
  LET stops == {p \in 1 .. Len(buf) - 1 : buf[p] = Nul /\ buf[p + 1] = Nul}
  IN  IF stops = {} THEN 0 ELSE CHOOSE p \in stops : \A q \in stops : q =< p

\* Where the first loop ends; zero if the buffer is not as it should be.
Stop(buf) ==
  LET stops == {p \in 1 .. Len(buf) - 1 : buf[p] = Nul /\ buf[p + 1] = Nul}
  IN  IF stops = {} THEN 0 ELSE CHOOSE p \in stops : \A q \in stops : p =< q

\* The NULs that it has counted at p.
Nuls(buf, p) == {q \in 1 .. p : buf[q] = Nul}

\* The end of the string that begins at p, which the second loop walks to without
\* looking for the end of the buffer.
EndOf(buf, p) ==
  CHOOSE q \in p .. Len(buf) : buf[q] = Nul /\ \A r \in p .. q - 1 : buf[r] # Nul

\* Where the first n strings begin.
Begins(buf, n) ==
  LET begin[k \in 1 .. n] == IF k = 1 THEN 1 ELSE EndOf(buf, begin[k - 1]) + 1
  IN  begin

\* argv[1] and on, or nothing if no end was found.
Params(buf) ==
  LET n     == Cardinality(Nuls(buf, Stop(buf)))
      begin == Begins(buf, n)
  IN  [k \in 1 .. n |-> SubSeq(buf, begin[k], EndOf(buf, begin[k]) - 1)]

\* The same, and nothing too if the buffer has not the size of the structure.
SetParams(buf) == IF Len(buf) # ParamBytes THEN <<>> ELSE Params(buf)

=============================================================================

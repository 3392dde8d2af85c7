-------------------------- MODULE FindBuffers_proofs --------------------------
(* Proofs about FindBuffers: for any directory, any buffers and any attributes,  *)
(* a search returns each entry that matches once and in order.                   *)
EXTENDS FindBuffers, NumberFacts

InOrder(s, entries) == Promise!InOrder(s, entries)

-----------------------------------------------------------------------------
(* Sequences in the order of the directory *)

\* The empty sequence is in order,
LEMMA NothingInOrder == InOrder(<<>>, {})
BY DEF InOrder, Promise!InOrder

\* and that of one entry.
LEMMA OneInOrder ==
  ASSUME NEW i \in Int
  PROVE  InOrder(<<i>>, {i}) /\ Len(<<i>>) = 1
BY DEF InOrder, Promise!InOrder

\* A sequence of places, and one before them all.
LEMMA MoreInOrder ==
  ASSUME NEW entries \in SUBSET Int, NEW s, InOrder(s, entries),
         NEW i \in Int, \A j \in entries : i < j
  PROVE  InOrder(<<i>> \o s, {i} \cup entries) /\ <<i>> \o s # <<>>
<1> DEFINE t == <<i>> \o s
<1>1. /\ s \in Seq(entries) /\ \A j \in entries : \E k \in DOMAIN s : s[k] = j
      /\ \A j, k \in DOMAIN s : j < k => s[j] < s[k]
  BY DEF InOrder, Promise!InOrder
<1>2. s \in Seq({i} \cup entries) /\ <<i>> \in Seq({i} \cup entries) /\ Len(<<i>>) = 1
      /\ <<i>>[1] = i
  BY <1>1
<1>3. /\ t \in Seq({i} \cup entries) /\ Len(t) = 1 + Len(s) /\ t[1] = i
      /\ \A k \in 1 .. Len(s) : t[k + 1] = s[k]
  BY <1>2
<1>4. Len(s) \in Nat /\ DOMAIN s = 1 .. Len(s) /\ DOMAIN t = 1 .. Len(s) + 1
      /\ \A k \in 1 .. Len(s) : s[k] \in entries
  BY <1>1, <1>3
<1> HIDE DEF t
<1>5. ASSUME NEW k \in DOMAIN t
      PROVE  k = 1 \/ \E m \in 1 .. Len(s) : k = m + 1 /\ t[k] = s[m]
  <2>1. k = 1 \/ k - 1 \in 1 .. Len(s)
    BY <1>4
  <2>2. CASE k - 1 \in 1 .. Len(s)
    <3>1. k = (k - 1) + 1
      BY <1>4
    <3> QED
      BY <1>3, <2>2, <3>1
  <2> QED
    BY <2>1, <2>2
<1>6. ASSUME NEW j \in {i} \cup entries PROVE \E k \in DOMAIN t : t[k] = j
  <2>1. CASE j = i
    BY <1>3, <1>4, <2>1
  <2>2. CASE j \in entries
    <3>1. PICK m \in 1 .. Len(s) : s[m] = j
      BY <1>1, <1>4, <2>2
    <3>2. m + 1 \in DOMAIN t /\ t[m + 1] = j
      BY <1>3, <1>4, <3>1
    <3> QED
      BY <3>2
  <2> QED
    BY <2>1, <2>2
<1>7. ASSUME NEW j \in DOMAIN t, NEW k \in DOMAIN t, j < k PROVE t[j] < t[k]
  <2>1. k # 1
    BY <1>4, <1>7
  <2>2. PICK n \in 1 .. Len(s) : k = n + 1 /\ t[k] = s[n]
    BY <1>5, <2>1
  <2>3. CASE j = 1
    BY <1>3, <1>4, <2>2, <2>3
  <2>4. CASE j # 1
    <3>1. PICK m \in 1 .. Len(s) : j = m + 1 /\ t[j] = s[m]
      BY <1>5, <2>4
    <3>2. m < n
      BY <1>4, <1>7, <2>2, <3>1
    <3> QED
      BY <1>1, <1>4, <2>2, <3>1, <3>2
  <2> QED
    BY <2>3, <2>4
<1>8. t # <<>>
  BY <1>4
<1> QED
  BY <1>3, <1>6, <1>7, <1>8 DEF InOrder, Promise!InOrder, t

-----------------------------------------------------------------------------
(* What the loop of storeDirContents() returns *)

\* Ranges of the places of a directory.
LEMMA PlaceFacts ==
  /\ Len(Directory) \in Nat /\ End \in Nat /\ End = Len(Directory) + 1
  /\ DOMAIN Directory = 1 .. End - 1
  /\ \A i \in 1 .. End - 1 : Directory[i].cbName \in Nat
<1>1. Len(Directory) \in Nat /\ DOMAIN Directory = 1 .. Len(Directory)
  BY DirectoryAssumption
<1>2. /\ End \in Nat /\ End = Len(Directory) + 1
      /\ 1 .. End - 1 = DOMAIN Directory
  BY <1>1 DEF End
<1>3. \A i \in DOMAIN Directory : Directory[i].cbName \in Nat
  <2> DEFINE Entries == [cbName : Nat, fName : BOOLEAN, fNon83 : BOOLEAN,
                         flFlags : SUBSET {"HIDDEN", "SYSTEM", "DIRECTORY"}]
  <2>1. Directory \in Seq(Entries)
    BY DirectoryAssumption
  <2>2. \A e \in Entries : e.cbName \in Nat
    OBVIOUS
  <2> HIDE DEF Entries
  <2>3. \A i \in DOMAIN Directory : Directory[i] \in Entries
    BY <1>1, <2>1
  <2> QED
    BY <2>2, <2>3
<1> QED
  BY <1>1, <1>2, <1>3

\* Ranges of the arguments of a call.
LEMMA CallFacts ==
  ASSUME NEW call \in Calls
  PROVE  /\ call.cMatch \in Nat /\ call.cbData \in Nat /\ call.cbEAs \in Nat
         /\ call.usLevel \in 1 .. 3 /\ call.fPosition \in BOOLEAN
BY SearchAssumption

\* An entry that is stored has fitted.
LEMMA StoredFacts ==
  ASSUME NEW i \in 1 .. End - 1, NEW call \in Calls, NEW room \in Nat
  PROVE  LET one == Stored(Directory[i], call, room)
         IN  /\ one.rc \in {"NO_ERROR", "ERROR_EAS_DIDNT_FIT", "ERROR_BUFFER_OVERFLOW"}
             /\ one.rc = "NO_ERROR" => room - one.size \in Nat
<1> DEFINE e     == Directory[i]
           head  == (IF call.fPosition THEN CbPosition ELSE 0) + CbStatus
           noEAs == call.usLevel = 3 /\ head + call.cbEAs > room
           eas   == CASE call.usLevel = 1 -> 0
                      [] call.usLevel = 2 \/ noEAs -> CbSize
                      [] OTHER -> call.cbEAs
           size  == head + eas + e.cbName + 2
           one   == Stored(e, call, room)
<1>1. e.cbName \in Nat /\ CbPosition \in Nat /\ CbStatus \in Nat /\ CbSize \in Nat
  BY PlaceFacts, SizeAssumption
<1>2. head \in Nat
  BY <1>1
<1>3. one.size = size
      /\ one.rc = IF size > room THEN "ERROR_BUFFER_OVERFLOW"
                  ELSE IF noEAs THEN "ERROR_EAS_DIDNT_FIT" ELSE "NO_ERROR"
  BY DEF Stored
<1> HIDE DEF head, noEAs
<1>4. eas \in Nat
  BY <1>1, CallFacts
<1> HIDE DEF eas, e
<1>5. size \in Nat
  BY <1>1, <1>2, <1>4
<1> HIDE DEF size, one
<1>6. one.rc = "NO_ERROR" => room - one.size \in Nat
  BY <1>3, <1>5
<1>7. one.rc \in {"NO_ERROR", "ERROR_EAS_DIDNT_FIT", "ERROR_BUFFER_OVERFLOW"}
  BY <1>3
<1> QED
  BY <1>6, <1>7 DEF one, e

\* The definition of Fill by recursion has a solution: one that begins at an entry
\* begins at the entry before as well.
LEMMA FillExists ==
  ASSUME NEW attr, NEW call
  PROVE  \E F : F = [i \in 1 .. End |->
                       IF i = End THEN AtEnd(call) ELSE AtEntry(attr, call, i, F[i + 1])]
<1> DEFINE Solves(F, n) == F = [i \in n .. End |->
                                  IF i = End THEN AtEnd(call) ELSE AtEntry(attr, call, i, F[i + 1])]
           T == {n \in Nat : n < End /\ ~\E F : Solves(F, End - n)}
<1>1. End \in Nat /\ End >= 1
  BY PlaceFacts
<1>2. T = {}
  <2> SUFFICES ASSUME T # {} PROVE FALSE
    OBVIOUS
  <2>1. PICK n \in T : \A m \in T : n =< m
    BY LeastNatural
  <2>2. n \in Nat /\ n < End /\ ~\E F : Solves(F, End - n)
    BY <2>1
  <2>3. CASE n = 0
    <3> DEFINE G == [i \in End .. End |-> AtEnd(call)]
    <3>1. Solves(G, End)
      BY <1>1
    <3>2. End - n = End
      BY <1>1, <2>3
    <3> QED
      BY <2>2, <3>1, <3>2, Zenon
  <2>4. CASE n # 0
    <3>1. n - 1 \in Nat /\ n - 1 < End /\ ~(n =< n - 1)
      BY <1>1, <2>2, <2>4
    <3>2. n - 1 \notin T
      BY <2>1, <3>1
    <3> DEFINE first == End - n
    <3>3. PICK F : Solves(F, End - (n - 1))
      BY <3>1, <3>2, Zenon
    <3>4. End - (n - 1) = first + 1 /\ first \in Nat /\ first < End
      BY <1>1, <2>2, <2>4
    <3> DEFINE G == [i \in first .. End |->
                       IF i = first THEN AtEntry(attr, call, i, F[i + 1]) ELSE F[i]]
    <3>5. Solves(F, first + 1)
      BY <3>3, <3>4, Zenon
    <3> HIDE DEF first
    <3>6. G = [i \in first .. End |->
                 IF i = End THEN AtEnd(call) ELSE AtEntry(attr, call, i, G[i + 1])]
      <4> SUFFICES ASSUME NEW i \in first .. End
                   PROVE  G[i] = IF i = End THEN AtEnd(call) ELSE AtEntry(attr, call, i, G[i + 1])
        BY Zenon
      <4>1. CASE i = End
        BY <1>1, <3>4, <3>5, <4>1
      <4>2. CASE i # End
        <5>1. i + 1 \in first .. End /\ i + 1 # first
          BY <1>1, <3>4, <4>2
        <5>2. G[i + 1] = F[i + 1]
          BY <5>1
        <5>3. G[i] = AtEntry(attr, call, i, F[i + 1])
          <6>1. CASE i = first
            BY <6>1
          <6>2. CASE i # first
            <7>1. i \in first + 1 .. End
              BY <3>4, <6>2
            <7>2. F[i] = AtEntry(attr, call, i, F[i + 1])
              BY <3>5, <4>2, <7>1
            <7> QED
              BY <6>2, <7>2
          <6> QED
            BY <6>1, <6>2
        <5> QED
          BY <4>2, <5>2, <5>3
      <4> QED
        BY <4>1, <4>2
    <3>7. Solves(G, first)
      BY <3>6, Zenon
    <3> QED
      BY <2>2, <3>7, Zenon DEF first
  <2> QED
    BY <2>3, <2>4
<1>3. End - 1 \in Nat /\ End - 1 < End /\ End - (End - 1) = 1
  BY <1>1
<1>4. \E F : Solves(F, End - (End - 1))
  BY <1>2, <1>3, Zenon
<1> QED
  BY <1>3, <1>4, Zenon

\* storeDirContents() from an entry on is what it does there, and then from the next one on.
LEMMA FillUnfolds ==
  ASSUME NEW attr, NEW call
  PROVE  \A i \in 1 .. End :
           Fill(attr, call)[i] = IF i = End THEN AtEnd(call)
                                 ELSE AtEntry(attr, call, i, Fill(attr, call)[i + 1])
<1> DEFINE From == CHOOSE F : F = [i \in 1 .. End |->
                     IF i = End THEN AtEnd(call) ELSE AtEntry(attr, call, i, F[i + 1])]
<1>1. From = [i \in 1 .. End |->
                IF i = End THEN AtEnd(call) ELSE AtEntry(attr, call, i, From[i + 1])]
  <2>1. PICK F : F = [i \in 1 .. End |->
                        IF i = End THEN AtEnd(call) ELSE AtEntry(attr, call, i, F[i + 1])]
    BY FillExists
  <2> QED
    BY <2>1
<1>2. Fill(attr, call) = From
  BY DEF Fill
<1> HIDE DEF From
<1> QED
  BY <1>1, <1>2


-----------------------------------------------------------------------------
(* What a call returns *)

\* The entries from i on and before n that match.
Between(attr, i, n) == {j \in i .. n - 1 : Matches(Directory[j], attr)}

\* A result of the loop from entry i on, when cAdded entries are stored already: it has
\* returned the entries that match, up to where it ends.  It fails only with nothing
\* stored, so that it loses none.
Good(answer, attr, i, cAdded) ==
  /\ answer.next \in i .. End
  /\ InOrder(answer.items, Between(attr, i, answer.next))
  /\ cAdded > 0 => answer.rc = "NO_ERROR"
  /\ answer.rc = "NO_ERROR" => cAdded > 0 \/ answer.items # <<>>
  /\ answer.rc = "ERROR_EAS_DIDNT_FIT" => Len(answer.items) = 1
  /\ answer.rc \notin {"NO_ERROR", "ERROR_EAS_DIDNT_FIT"} => answer.items = <<>>
  /\ answer.rc = "ERROR_NO_MORE_FILES" => answer.next = End

\* The parts of a result.
LEMMA ResultFacts ==
  ASSUME NEW error, NEW entries, NEW then
  PROVE  /\ Result(error, entries, then).rc = error
         /\ Result(error, entries, then).items = entries
         /\ Result(error, entries, then).next = then
BY DEF Result

\* It ends well at the end of the directory,
LEMMA GoodAtEnd ==
  ASSUME NEW attr, NEW call \in Calls, NEW room \in Nat, NEW cAdded \in 0 .. call.cMatch
  PROVE  Good(AtEnd(call)[room][cAdded], attr, End, cAdded)
<1> DEFINE error == IF Breaks("ERROR_NO_MORE_FILES", cAdded) THEN "NO_ERROR"
                    ELSE "ERROR_NO_MORE_FILES"
           answer == AtEnd(call)[room][cAdded]
<1>1. answer = Result(error, <<>>, End)
  BY DEF AtEnd
<1>2. error = IF cAdded > 0 THEN "NO_ERROR" ELSE "ERROR_NO_MORE_FILES"
  BY DEF Breaks
<1>3. Between(attr, End, End) = {} /\ End \in End .. End
  BY PlaceFacts DEF Between
<1>4. cAdded \in Nat
  BY CallFacts
<1> HIDE DEF answer, error
<1>5. answer.rc = error /\ answer.items = <<>> /\ answer.next = End
  BY <1>1, ResultFacts
<1> QED
  BY <1>2, <1>3, <1>4, <1>5, NothingInOrder DEF Good, answer

\* and at an entry, if it does from the next one on;
LEMMA GoodAtEntry ==
  ASSUME NEW attr, NEW call \in Calls, NEW i \in 1 .. End - 1, NEW further,
         \A room \in Nat : \A cAdded \in 0 .. call.cMatch :
           Good(further[room][cAdded], attr, i + 1, cAdded),
         NEW room \in Nat, NEW cAdded \in 0 .. call.cMatch
  PROVE  Good(AtEntry(attr, call, i, further)[room][cAdded], attr, i, cAdded)
<1> DEFINE one    == Stored(Directory[i], call, room)
           more   == further[room - one.size][cAdded + 1]
           answer == AtEntry(attr, call, i, further)[room][cAdded]
<1>1. answer =
        IF ~Matches(Directory[i], attr) THEN further[room][cAdded]
        ELSE CASE one.rc = "NO_ERROR" /\ cAdded + 1 < call.cMatch ->
                    Result(more.rc, <<i>> \o more.items, more.next)
               [] one.rc = "NO_ERROR" /\ cAdded + 1 >= call.cMatch ->
                    Result("NO_ERROR", <<i>>, i + 1)
               [] one.rc # "NO_ERROR" /\ Breaks(one.rc, cAdded) -> Result("NO_ERROR", <<>>, i)
               [] OTHER ->
                    Result(one.rc, IF one.rc = "ERROR_EAS_DIDNT_FIT" THEN <<i>> ELSE <<>>,
                           AfterFailure(i, one.rc))
  BY DEF AtEntry
<1>2. /\ one.rc \in {"NO_ERROR", "ERROR_EAS_DIDNT_FIT", "ERROR_BUFFER_OVERFLOW"}
      /\ one.rc = "NO_ERROR" => room - one.size \in Nat
  BY StoredFacts
<1>3. End \in Nat /\ i \in Nat /\ i + 1 \in 1 .. End /\ call.cMatch \in Nat /\ cAdded \in Nat
  BY PlaceFacts, CallFacts
<1>4. Between(attr, i, i) = {}
  BY <1>3 DEF Between
<1>5. ASSUME Matches(Directory[i], attr), NEW n \in i + 1 .. End
      PROVE  Between(attr, i, n) = {i} \cup Between(attr, i + 1, n)
  BY <1>3, <1>5 DEF Between
<1>6. \A n \in i + 1 .. End : Between(attr, i + 1, n) \in SUBSET Int
                              /\ \A j \in Between(attr, i + 1, n) : i < j
  BY <1>3 DEF Between
<1> HIDE DEF one, answer
<1>7. CASE ~Matches(Directory[i], attr)
  <2> DEFINE same == further[room][cAdded]
  <2>1. Good(same, attr, i + 1, cAdded) /\ answer = same
    BY <1>1, <1>7
  <2> HIDE DEF same
  <2>2. same.next \in i + 1 .. End
    BY <2>1 DEF Good
  <2>3. same.next \in i .. End /\ Between(attr, i, same.next) = Between(attr, i + 1, same.next)
    BY <1>3, <1>7, <2>2 DEF Between
  <2>4. Good(same, attr, i, cAdded)
    BY <2>1, <2>3 DEF Good
  <2> QED
    BY <2>1, <2>4 DEF answer
<1>8. ASSUME Matches(Directory[i], attr), one.rc = "NO_ERROR", cAdded + 1 < call.cMatch
      PROVE  Good(answer, attr, i, cAdded)
  <2>1. answer = Result(more.rc, <<i>> \o more.items, more.next)
    <3>1. ~(cAdded + 1 >= call.cMatch)
      BY <1>3, <1>8
    <3> QED
      BY <1>1, <1>8, <3>1, Zenon
  <2>2. Good(more, attr, i + 1, cAdded + 1)
    <3>1. cAdded + 1 \in 0 .. call.cMatch /\ room - one.size \in Nat
      BY <1>2, <1>3, <1>8
    <3> QED
      BY <3>1
  <2> HIDE DEF more
  <2>3. answer.rc = more.rc /\ answer.items = <<i>> \o more.items /\ answer.next = more.next
    BY <2>1 DEF Result
  <2>4. /\ more.next \in i + 1 .. End
        /\ InOrder(more.items, Between(attr, i + 1, more.next))
        /\ more.rc = "NO_ERROR"
    BY <1>3, <2>2 DEF Good
  <2>5. InOrder(<<i>> \o more.items, {i} \cup Between(attr, i + 1, more.next))
        /\ <<i>> \o more.items # <<>>
    BY <1>3, <1>6, <2>4, MoreInOrder
  <2>6. InOrder(answer.items, Between(attr, i, answer.next)) /\ answer.items # <<>>
    BY <1>5, <1>8, <2>3, <2>4, <2>5
  <2>7. answer.next \in i .. End
    BY <1>3, <2>3, <2>4
  <2> QED
    BY <2>3, <2>4, <2>6, <2>7 DEF Good
\* The last entry that was asked for, or one whose attributes did not fit.
<1>9. ASSUME Matches(Directory[i], attr), answer.items = <<i>>, answer.next = i + 1,
             \/ answer.rc = "NO_ERROR"
             \/ answer.rc = "ERROR_EAS_DIDNT_FIT" /\ ~(cAdded > 0)
      PROVE  Good(answer, attr, i, cAdded)
  <2>1. InOrder(<<i>>, {i}) /\ Len(<<i>>) = 1 /\ <<i>> # <<>>
    BY <1>3, OneInOrder
  <2>2. Between(attr, i + 1, i + 1) = {} /\ i + 1 \in i + 1 .. End /\ i + 1 \in i .. End
    BY <1>3 DEF Between
  <2>3. Between(attr, i, i + 1) = {i}
    BY <1>5, <1>9, <2>2
  <2> QED
    BY <1>9, <2>1, <2>2, <2>3 DEF Good
\* The entry was not stored.
<1>10. ASSUME answer.items = <<>>, answer.next = i,
              \/ answer.rc = "NO_ERROR" /\ cAdded > 0
              \/ answer.rc = "ERROR_BUFFER_OVERFLOW" /\ ~(cAdded > 0)
       PROVE  Good(answer, attr, i, cAdded)
  <2>1. i \in i .. End
    BY <1>3
  <2> QED
    BY <1>4, <1>10, <2>1, NothingInOrder DEF Good
<1>11. CASE Matches(Directory[i], attr)
  <2>1. CASE one.rc = "NO_ERROR" /\ cAdded + 1 < call.cMatch
    BY <1>8, <1>11, <2>1 DEF answer
  <2>2. CASE one.rc = "NO_ERROR" /\ ~(cAdded + 1 < call.cMatch)
    <3>1. cAdded + 1 >= call.cMatch
      BY <1>3, <2>2
    <3>2. answer = Result("NO_ERROR", <<i>>, i + 1)
      BY <1>1, <1>11, <2>2, <3>1, Zenon
    <3>3. answer.rc = "NO_ERROR" /\ answer.items = <<i>> /\ answer.next = i + 1
      BY <3>2 DEF Result
    <3>4. Good(answer, attr, i, cAdded)
      BY <1>9, <1>11, <3>3, Zenon
    <3> QED
      BY <3>4 DEF answer
  <2>3. CASE one.rc # "NO_ERROR" /\ cAdded > 0
    <3>1. Breaks(one.rc, cAdded)
      BY <1>2, <2>3 DEF Breaks
    <3>2. answer = Result("NO_ERROR", <<>>, i)
      BY <1>1, <1>11, <2>3, <3>1, Zenon
    <3> QED
      BY <1>10, <2>3, <3>2, ResultFacts DEF answer
  <2>4. CASE one.rc # "NO_ERROR" /\ ~(cAdded > 0)
    <3>1. ~Breaks(one.rc, cAdded)
      BY <2>4 DEF Breaks
    <3>2. answer = Result(one.rc, IF one.rc = "ERROR_EAS_DIDNT_FIT" THEN <<i>> ELSE <<>>,
                          AfterFailure(i, one.rc))
      BY <1>1, <1>11, <2>4, <3>1
    <3>3. CASE one.rc = "ERROR_EAS_DIDNT_FIT"
      BY <1>9, <1>11, <2>4, <3>2, <3>3, ResultFacts DEF answer, AfterFailure
    <3>4. CASE one.rc = "ERROR_BUFFER_OVERFLOW"
      BY <1>10, <2>4, <3>2, <3>4, ResultFacts DEF answer, AfterFailure
    <3> QED
      BY <1>2, <2>4, <3>3, <3>4
  <2> QED
    BY <2>1, <2>2, <2>3, <2>4
<1> QED
  BY <1>7, <1>11 DEF answer

\* so wherever it starts.
LEMMA GoodFill ==
  ASSUME NEW attr, NEW call \in Calls
  PROVE  \A i \in 1 .. End, room \in Nat, cAdded \in 0 .. call.cMatch :
           Good(Fill(attr, call)[i][room][cAdded], attr, i, cAdded)
<1> DEFINE From == Fill(attr, call)
           Fine(i) == \A room \in Nat : \A cAdded \in 0 .. call.cMatch :
                        Good(From[i][room][cAdded], attr, i, cAdded)
           T == {n \in Nat : n < End /\ ~Fine(End - n)}
<1>1. End \in Nat /\ End >= 1
  BY PlaceFacts
<1>2. \A i \in 1 .. End : From[i] = IF i = End THEN AtEnd(call)
                                    ELSE AtEntry(attr, call, i, From[i + 1])
  BY FillUnfolds
<1> HIDE DEF From
<1>3. T = {}
  <2> SUFFICES ASSUME T # {} PROVE FALSE
    OBVIOUS
  <2>1. PICK n \in T : \A m \in T : n =< m
    BY LeastNatural
  <2>2. n \in Nat /\ n < End /\ ~Fine(End - n)
    BY <2>1
  <2>3. CASE n = 0
    <3>1. From[End] = AtEnd(call) /\ End - n = End
      BY <1>1, <1>2, <2>3
    <3>2. Fine(End)
      BY <3>1, GoodAtEnd
    <3> QED
      BY <2>2, <3>1, <3>2, Zenon
  <2>4. CASE n # 0
    <3> DEFINE i == End - n
    <3>1. n - 1 \in Nat /\ n - 1 < End /\ ~(n =< n - 1)
      BY <1>1, <2>2, <2>4
    <3>2. n - 1 \notin T
      BY <2>1, <3>1
    <3>3. i \in 1 .. End - 1 /\ i \in 1 .. End /\ i # End /\ End - (n - 1) = i + 1
      BY <1>1, <2>2, <2>4
    <3>4. Fine(i + 1)
      BY <3>1, <3>2, <3>3, Zenon
    <3> HIDE DEF i
    <3>5. From[i] = AtEntry(attr, call, i, From[i + 1])
      BY <1>2, <3>3
    <3>6. ASSUME NEW room \in Nat, NEW cAdded \in 0 .. call.cMatch
          PROVE  Good(From[i][room][cAdded], attr, i, cAdded)
      BY <3>3, <3>4, <3>5, GoodAtEntry
    <3> QED
      BY <2>2, <3>6, Zenon DEF i
  <2> QED
    BY <2>3, <2>4
<1>4. ASSUME NEW i \in 1 .. End PROVE Fine(i)
  <2>1. End - i \in Nat /\ End - i < End /\ End - (End - i) = i
    BY <1>1
  <2> QED
    BY <1>3, <2>1, Zenon
<1> QED
  BY <1>4, Zenon DEF From

\* What any call returns, whatever its buffer.
LEMMA GoodAnswer ==
  ASSUME NEW attr, NEW next \in 1 .. End, NEW call \in Calls
  PROVE  Good(Answer(attr, next, call), attr, next, 0)
<1>1. End \in Nat /\ call.cMatch \in Nat /\ call.cbData \in Nat
  BY PlaceFacts, CallFacts
<1>2. CASE call.cMatch = 0
  <2>1. Answer(attr, next, call) = Result("ERROR_INVALID_PARAMETER", <<>>, next)
    BY <1>2 DEF Answer
  <2>2. Between(attr, next, next) = {} /\ next \in next .. End
    BY <1>1 DEF Between
  <2> QED
    <3> DEFINE answer == Answer(attr, next, call)
    <3>1. /\ answer.rc = "ERROR_INVALID_PARAMETER" /\ answer.items = <<>>
          /\ answer.next = next
      BY <2>1 DEF Result
    <3> HIDE DEF answer
    <3>2. InOrder(answer.items, Between(attr, next, answer.next))
      BY <2>2, <3>1, NothingInOrder, Zenon
    <3>3. answer.next \in next .. End
      BY <2>2, <3>1, Zenon
    <3>4. Good(answer, attr, next, 0)
      BY <3>1, <3>2, <3>3 DEF Good
    <3> QED
      BY <3>4 DEF answer
<1>3. CASE call.cMatch # 0
  <2>1. Answer(attr, next, call) = Fill(attr, call)[next][call.cbData][0]
    BY <1>3 DEF Answer
  <2>2. 0 \in 0 .. call.cMatch
    BY <1>1
  <2> QED
    BY <1>1, <2>1, <2>2, GoodFill, Zenon
<1> QED
  BY <1>2, <1>3


-----------------------------------------------------------------------------
(* What a search has returned over all its calls *)

\* What was returned to a search that goes on at `next` with position i: entries before
\* that, which match, in order, and each as far from its position as the search is.
Delivered(d, attr, next, i) ==
  /\ d \in Seq((1 .. End - 1) \X Int)
  /\ \A k \in DOMAIN d : /\ d[k][1] < next /\ d[k][2] - d[k][1] = i - next
                         /\ Matches(Directory[d[k][1]], attr)
  /\ \A j, k \in DOMAIN d : j < k => d[j][1] < d[k][1]

SearchInv ==
  /\ TypeOK
  /\ flAttr # None => Delivered(delivered, flAttr, pIsoNext, iNext)

\* What a call returns is worth having delivered, and comes behind what was delivered.
LEMMA GoodItems ==
  ASSUME NEW attr, NEW next \in 1 .. End, NEW answer, Good(answer, attr, next, 0)
  PROVE  /\ answer.next \in next .. End /\ answer.next \in 1 .. End
         /\ answer.items \in Seq(1 .. End - 1)
         /\ \A k \in DOMAIN answer.items :
              /\ answer.items[k] \in next .. answer.next - 1
              /\ Matches(Directory[answer.items[k]], attr)
         /\ \A j, k \in DOMAIN answer.items : j < k => answer.items[j] < answer.items[k]
<1> DEFINE places == Between(attr, next, answer.next)
           s == answer.items
<1>1. End \in Nat /\ answer.next \in next .. End /\ answer.next \in 1 .. End
  BY PlaceFacts DEF Good
<1>2. s \in Seq(places) /\ \A j, k \in DOMAIN s : j < k => s[j] < s[k]
  BY DEF Good, InOrder, Promise!InOrder
<1>3. \A p \in places : /\ p \in next .. answer.next - 1 /\ p \in 1 .. End - 1
                        /\ Matches(Directory[p], attr)
  BY <1>1 DEF Between
<1> HIDE DEF places, s
<1>4. \A k \in DOMAIN s : s[k] \in places
  BY <1>2
<1>5. s \in Seq(1 .. End - 1)
  <2> DEFINE entries == 1 .. End - 1
  <2>1. Len(s) \in Nat /\ s \in [1 .. Len(s) -> entries]
    BY <1>2, <1>3, <1>4
  <2> HIDE DEF entries
  <2>2. s \in Seq(entries)
    BY <2>1
  <2> QED
    BY <2>2 DEF entries
<1> QED
  BY <1>1, <1>2, <1>3, <1>4, <1>5 DEF s

\* What the first call delivers is in order, up to where the cursor is then.
LEMMA DeliveredFirst ==
  ASSUME NEW attr, NEW next \in 1 .. End, NEW i \in Int,
         NEW answer, Good(answer, attr, next, 0)
  PROVE  LET e == [k \in DOMAIN answer.items |->
                     <<answer.items[k], i + answer.items[k] - next>>]
         IN  /\ Delivered(e, attr, answer.next, i + answer.next - next)
             /\ \A k \in DOMAIN e : e[k][1] >= next
<1> DEFINE s == answer.items
           e == [k \in DOMAIN s |-> <<s[k], i + s[k] - next>>]
           n == answer.next
<1>1. /\ n \in 1 .. End /\ s \in Seq(1 .. End - 1) /\ End \in Nat
      /\ \A k \in DOMAIN s : s[k] \in next .. n - 1 /\ Matches(Directory[s[k]], attr)
      /\ \A j, k \in DOMAIN s : j < k => s[j] < s[k]
  BY GoodItems, PlaceFacts
<1> HIDE DEF s, n
<1>2. Len(s) \in Nat /\ DOMAIN s = 1 .. Len(s) /\ \A k \in DOMAIN s : s[k] \in 1 .. End - 1
  BY <1>1
<1>3. DOMAIN e = DOMAIN s
      /\ \A k \in DOMAIN s : e[k][1] = s[k] /\ e[k][2] = i + s[k] - next
                             /\ e[k] \in (1 .. End - 1) \X Int
  BY <1>2
<1>4. e \in Seq((1 .. End - 1) \X Int)
  <2>1. e \in [1 .. Len(s) -> (1 .. End - 1) \X Int]
    BY <1>2, <1>3
  <2> HIDE DEF e
  <2> QED
    BY <1>2, <2>1
<1> HIDE DEF e
<1>5. \A k \in DOMAIN e : /\ e[k][1] < n /\ e[k][2] - e[k][1] = (i + n - next) - n
                          /\ Matches(Directory[e[k][1]], attr) /\ e[k][1] >= next
  <2> SUFFICES ASSUME NEW k \in DOMAIN s
               PROVE  /\ s[k] < n /\ (i + s[k] - next) - s[k] = (i + n - next) - n
                      /\ Matches(Directory[s[k]], attr) /\ s[k] >= next
    BY <1>3
  <2>1. s[k] \in next .. n - 1 /\ Matches(Directory[s[k]], attr) /\ s[k] \in 1 .. End - 1
    BY <1>1, <1>2
  <2> QED
    BY <1>1, <2>1
<1>6. \A j, k \in DOMAIN e : j < k => e[j][1] < e[k][1]
  BY <1>1, <1>3
<1>7. Delivered(e, attr, n, i + n - next)
  BY <1>4, <1>5, <1>6 DEF Delivered
<1> QED
  BY <1>5, <1>7 DEF e, s, n

\* What a further call delivers goes on from there.
LEMMA DeliveredMore ==
  ASSUME NEW attr, NEW next \in 1 .. End, NEW i \in Int, NEW d, Delivered(d, attr, next, i),
         NEW n \in next .. End, NEW e, Delivered(e, attr, n, i + n - next),
         \A k \in DOMAIN e : e[k][1] >= next
  PROVE  Delivered(d \o e, attr, n, i + n - next)
<1> DEFINE Pairs == (1 .. End - 1) \X Int
           t == d \o e
<1>1. d \in Seq(Pairs) /\ e \in Seq(Pairs) /\ End \in Nat
  BY PlaceFacts DEF Delivered
<1>2. \A p \in Pairs : p[1] \in Int /\ p[2] \in Int
  BY <1>1
<1> HIDE DEF Pairs
<1>3. /\ t \in Seq(Pairs) /\ Len(d) \in Nat /\ Len(e) \in Nat
      /\ DOMAIN d = 1 .. Len(d) /\ DOMAIN e = 1 .. Len(e) /\ DOMAIN t = 1 .. Len(d) + Len(e)
      /\ \A k \in DOMAIN d : t[k] = d[k] /\ d[k][1] \in Int /\ d[k][2] \in Int
      /\ \A k \in DOMAIN e : e[k][1] \in Int
  BY <1>1, <1>2
<1>4. \A k \in DOMAIN t : \/ k \in DOMAIN d /\ t[k] = d[k]
                          \/ k - Len(d) \in DOMAIN e /\ t[k] = e[k - Len(d)] /\ k > Len(d)
  BY <1>1, <1>3
<1> HIDE DEF t
<1>5. ASSUME NEW k \in DOMAIN t
      PROVE  /\ t[k][1] < n /\ t[k][2] - t[k][1] = (i + n - next) - n
             /\ Matches(Directory[t[k][1]], attr)
  <2>1. CASE k \in DOMAIN d /\ t[k] = d[k]
    <3>1. d[k][1] < next /\ d[k][2] - d[k][1] = i - next /\ Matches(Directory[d[k][1]], attr)
      BY <2>1 DEF Delivered
    <3>2. t[k][1] = d[k][1] /\ t[k][2] = d[k][2] /\ d[k][1] \in Int /\ d[k][2] \in Int
      BY <1>3, <2>1
    <3>3. (i + n - next) - n = i - next /\ d[k][1] < n
      BY <1>1, <3>1, <3>2
    <3> QED
      BY <3>1, <3>2, <3>3
  <2>2. CASE k - Len(d) \in DOMAIN e /\ t[k] = e[k - Len(d)]
    BY <2>2 DEF Delivered
  <2> QED
    BY <1>4, <2>1, <2>2
<1>6. ASSUME NEW j \in DOMAIN t, NEW k \in DOMAIN t, j < k PROVE t[j][1] < t[k][1]
  <2>1. CASE k \in DOMAIN d /\ t[k] = d[k]
    <3>1. j \in DOMAIN d
      BY <1>3, <1>6, <2>1
    <3>2. t[j] = d[j] /\ d[j][1] < d[k][1]
      BY <1>3, <1>6, <2>1, <3>1 DEF Delivered
    <3> QED
      BY <2>1, <3>2
  <2>2. CASE k - Len(d) \in DOMAIN e /\ t[k] = e[k - Len(d)] /\ k > Len(d)
    <3>1. CASE j \in DOMAIN d /\ t[j] = d[j]
      <4>1. d[j][1] < next /\ e[k - Len(d)][1] >= next /\ d[j][1] \in Int /\ e[k - Len(d)][1] \in Int
        BY <1>3, <2>2, <3>1 DEF Delivered
      <4> QED
        BY <1>1, <2>2, <3>1, <4>1
    <3>2. CASE j - Len(d) \in DOMAIN e /\ t[j] = e[j - Len(d)]
      <4>1. j - Len(d) < k - Len(d)
        BY <1>3, <1>6
      <4> QED
        BY <2>2, <3>2, <4>1 DEF Delivered
    <3> QED
      BY <1>4, <3>1, <3>2
  <2> QED
    BY <1>4, <2>1, <2>2
<1> QED
  BY <1>3, <1>5, <1>6 DEF Delivered, Pairs, t

\* A search that has passed more than it delivered, because that was lost.
LEMMA DeliveredLess ==
  ASSUME NEW attr, NEW next \in 1 .. End, NEW i \in Int, NEW d, Delivered(d, attr, next, i),
         NEW n \in next .. End
  PROVE  Delivered(d, attr, n, i + n - next)
<1>1. d \in Seq((1 .. End - 1) \X Int) /\ End \in Nat
  BY PlaceFacts DEF Delivered
<1>2. \A k \in DOMAIN d : d[k][1] \in Int /\ d[k][2] \in Int
  BY <1>1
<1>3. ASSUME NEW k \in DOMAIN d
      PROVE  d[k][1] < n /\ d[k][2] - d[k][1] = (i + n - next) - n
  <2>1. d[k][1] < next /\ d[k][2] - d[k][1] = i - next
    BY DEF Delivered
  <2> DEFINE a == d[k][1]
             b == d[k][2]
  <2>2. a \in Int /\ b \in Int /\ a < next /\ b - a = i - next /\ End \in Nat
    BY <1>1, <1>2, <2>1
  <2> HIDE DEF a, b
  <2>3. a < n /\ b - a = (i + n - next) - n
    BY <2>2
  <2> QED
    BY <2>3 DEF a, b
<1> QED
  BY <1>3 DEF Delivered


-----------------------------------------------------------------------------
(* The invariant *)

\* The invariant holds initially.
LEMMA SearchInit == Init => SearchInv
BY PlaceFacts, SearchAssumption DEF Init, SearchInv, TypeOK

\* fsFindFirst() keeps it,
LEMMA FindFirstKeeps ==
  ASSUME SearchInv, NEW attr \in Attrs, NEW call \in Calls, FindFirst(attr, call)
  PROVE  SearchInv'
<1> DEFINE answer == Answer(attr, 1, call)
<1>1. 1 \in 1 .. End /\ End \in Nat
  BY PlaceFacts
<1>2. Good(answer, attr, 1, 0)
  BY <1>1, GoodAnswer
<1>3. /\ answer.next \in 1 .. End /\ answer.items \in Seq(1 .. End - 1)
      /\ answer.rc \notin {"NO_ERROR", "ERROR_EAS_DIDNT_FIT"} => answer.items = <<>>
  BY <1>1, <1>2, GoodItems DEF Good
<1>4. /\ rc' = answer.rc /\ items' = answer.items
      /\ IF Succeeds(answer)
         THEN \E i \in FirstPosition :
                /\ flAttr' = attr /\ pIsoNext' = answer.next
                /\ iNext' = i + answer.next - 1
                /\ delivered' = [k \in DOMAIN answer.items |->
                                   <<answer.items[k], i + answer.items[k] - 1>>]
         ELSE UNCHANGED <<search, delivered>>
  BY DEF FindFirst
<1> HIDE DEF answer
<1>5. /\ \A k \in DOMAIN items' : items'[k] \in DOMAIN Directory
      /\ rc' \in {"NO_ERROR", "ERROR_EAS_DIDNT_FIT"} \/ items' = <<>>
  BY <1>3, <1>4, PlaceFacts
<1>6. CASE Succeeds(answer)
  <2>1. PICK i \in FirstPosition :
          /\ flAttr' = attr /\ pIsoNext' = answer.next
          /\ iNext' = i + answer.next - 1
          /\ delivered' = [k \in DOMAIN answer.items |->
                             <<answer.items[k], i + answer.items[k] - 1>>]
    BY <1>4, <1>6
  <2>2. i \in Int /\ attr # None
    BY SearchAssumption
  <2>3. Delivered(delivered', attr, answer.next, i + answer.next - 1)
    BY <1>1, <1>2, <2>1, <2>2, DeliveredFirst
  <2>4. TypeOK'
    BY <1>1, <1>3, <1>5, <2>1, <2>2 DEF TypeOK
  <2> QED
    BY <2>1, <2>2, <2>3, <2>4 DEF SearchInv
<1>7. CASE ~Succeeds(answer)
  BY <1>4, <1>5, <1>7 DEF SearchInv, TypeOK, search
<1> QED
  BY <1>6, <1>7

\* so does fsFindNext(),
LEMMA FindNextKeeps ==
  ASSUME SearchInv, NEW call \in Calls, FindNext(call)
  PROVE  SearchInv'
<1> DEFINE answer == Answer(flAttr, pIsoNext, call)
           more == Numbered(answer)
<1>1. /\ flAttr # None /\ pIsoNext \in 1 .. End /\ iNext \in Int /\ End \in Nat
      /\ Delivered(delivered, flAttr, pIsoNext, iNext) /\ flAttr \in Attrs \cup {None}
  BY PlaceFacts DEF FindNext, SearchInv, TypeOK
<1>2. Good(answer, flAttr, pIsoNext, 0)
  BY <1>1, GoodAnswer
<1>3. /\ answer.next \in pIsoNext .. End /\ answer.next \in 1 .. End
      /\ answer.items \in Seq(1 .. End - 1)
      /\ answer.rc \notin {"NO_ERROR", "ERROR_EAS_DIDNT_FIT"} => answer.items = <<>>
  BY <1>1, <1>2, GoodItems DEF Good
<1>4. /\ rc' = answer.rc /\ items' = answer.items /\ flAttr' = flAttr
      /\ pIsoNext' = answer.next /\ iNext' = iNext + answer.next - pIsoNext
      /\ delivered' = delivered \o more
  BY DEF FindNext, MoveOn
<1>5. more = [k \in DOMAIN answer.items |-> <<answer.items[k], iNext + answer.items[k] - pIsoNext>>]
  BY DEF Numbered
<1> HIDE DEF answer, more
<1>6. /\ Delivered(more, flAttr, answer.next, iNext + answer.next - pIsoNext)
      /\ \A k \in DOMAIN more : more[k][1] >= pIsoNext
  BY <1>1, <1>2, <1>5, DeliveredFirst
<1>7. Delivered(delivered', flAttr, answer.next, iNext + answer.next - pIsoNext)
  BY <1>1, <1>3, <1>4, <1>6, DeliveredMore
<1>8. TypeOK'
  <2>1. /\ \A k \in DOMAIN items' : items'[k] \in DOMAIN Directory
        /\ rc' \in {"NO_ERROR", "ERROR_EAS_DIDNT_FIT"} \/ items' = <<>>
    BY <1>3, <1>4, PlaceFacts
  <2>2. iNext' \in Int
    BY <1>1, <1>3, <1>4
  <2> QED
    BY <1>1, <1>3, <1>4, <2>1, <2>2 DEF TypeOK
<1> QED
  BY <1>1, <1>4, <1>7, <1>8 DEF SearchInv

\* and one whose results are lost.
LEMMA FindNextUndeliveredKeeps ==
  ASSUME SearchInv, NEW call \in Calls, FindNextUndelivered(call)
  PROVE  SearchInv'
<1> DEFINE answer == Answer(flAttr, pIsoNext, call)
<1>1. /\ flAttr # None /\ pIsoNext \in 1 .. End /\ iNext \in Int /\ End \in Nat
      /\ Delivered(delivered, flAttr, pIsoNext, iNext) /\ flAttr \in Attrs \cup {None}
  BY PlaceFacts DEF FindNextUndelivered, SearchInv, TypeOK
<1>2. answer.next \in pIsoNext .. End /\ answer.next \in 1 .. End
  BY <1>1, GoodAnswer, GoodItems
<1>3. /\ rc' = "ERROR_INVALID_PARAMETER" /\ items' = <<>>
      /\ pIsoNext' = answer.next /\ iNext' = iNext + answer.next - pIsoNext
      /\ flAttr' = flAttr /\ delivered' = delivered
  BY DEF FindNextUndelivered, MoveOn
<1> HIDE DEF answer
<1>4. Delivered(delivered, flAttr, answer.next, iNext + answer.next - pIsoNext)
  BY <1>1, <1>2, DeliveredLess
<1>5. TypeOK'
  <2>1. iNext' \in Int
    BY <1>1, <1>2, <1>3
  <2> QED
    BY <1>1, <1>2, <1>3, <2>1 DEF TypeOK
<1> QED
  BY <1>1, <1>3, <1>4, <1>5 DEF SearchInv

\* It is inductive.
LEMMA SearchNext == SearchInv /\ [Next]_vars => SearchInv'
<1> SUFFICES ASSUME SearchInv, [Next]_vars PROVE SearchInv'
  OBVIOUS
<1>1. CASE FindFirstRefused
  BY <1>1 DEF FindFirstRefused, SearchInv, TypeOK, search
<1>2. CASE FindClose
  BY <1>2, PlaceFacts, SearchAssumption DEF FindClose, SearchInv, TypeOK
<1>3. ASSUME NEW call \in Calls, NEW attr \in Attrs, FindFirst(attr, call)
      PROVE  SearchInv'
  BY <1>3, FindFirstKeeps
<1>4. ASSUME NEW call \in Calls, NEW attr \in Attrs, FindFirstUndelivered(attr, call)
      PROVE  SearchInv'
  BY <1>4 DEF FindFirstUndelivered, SearchInv, TypeOK, search
<1>5. ASSUME NEW call \in Calls, FindNext(call) PROVE SearchInv'
  BY <1>5, FindNextKeeps
<1>6. ASSUME NEW call \in Calls, FindNextUndelivered(call) PROVE SearchInv'
  BY <1>6, FindNextUndeliveredKeeps
<1>7. CASE UNCHANGED vars
  BY <1>7 DEF vars, search, SearchInv, TypeOK
<1> QED
  BY <1>1, <1>2, <1>3, <1>4, <1>5, <1>6, <1>7 DEF Next

\* A search never leaves its directory, has no place when it is not open, and returns
\* nothing with an error, for any directory, any buffers and any attributes.
THEOREM SearchTypeCorrect == Spec => []TypeOK
<1>1. SearchInv => TypeOK
  BY DEF SearchInv
<1> QED
  BY <1>1, SearchInit, SearchNext, PTL DEF Spec

\* The positions that storeFileInfo() stores are as far apart as the entries, over all
\* calls of a search, whatever was skipped or lost in between.
THEOREM PositionsAlwaysAgree == Spec => []PositionsAgree
<1>1. SearchInv => PositionsAgree
  <2> SUFFICES ASSUME SearchInv, NEW j \in DOMAIN delivered, NEW k \in DOMAIN delivered
               PROVE  delivered[j][2] - delivered[k][2] = delivered[j][1] - delivered[k][1]
    BY DEF PositionsAgree
  <2>1. flAttr # None /\ Delivered(delivered, flAttr, pIsoNext, iNext)
    BY DEF SearchInv, TypeOK
  <2>2. /\ delivered[j] \in (1 .. End - 1) \X Int /\ delivered[k] \in (1 .. End - 1) \X Int
        /\ pIsoNext \in Int /\ iNext \in Int /\ End \in Nat
    BY <2>1, PlaceFacts DEF Delivered, SearchInv, TypeOK
  <2>3. /\ delivered[j][2] - delivered[j][1] = iNext - pIsoNext
        /\ delivered[k][2] - delivered[k][1] = iNext - pIsoNext
    BY <2>1 DEF Delivered
  <2> QED
    BY <2>2, <2>3
<1> QED
  BY <1>1, SearchInit, SearchNext, PTL DEF Spec

\* storeDirContents() returns no entry that does not match, none twice and none out of
\* order, however the calls of a search divide the directory, and whichever of them fail.
THEOREM EachOnceAlways == Spec => []EachOnceInOrder
<1>1. SearchInv => EachOnceInOrder
  <2> SUFFICES ASSUME SearchInv, NEW k \in DOMAIN delivered
               PROVE  /\ Matches(Directory[delivered[k][1]], flAttr)
                      /\ \A j \in 1 .. k - 1 : delivered[j][1] < delivered[k][1]
    BY DEF EachOnceInOrder
  <2>1. flAttr # None /\ Delivered(delivered, flAttr, pIsoNext, iNext)
    BY DEF SearchInv, TypeOK
  <2>2. Len(delivered) \in Nat /\ DOMAIN delivered = 1 .. Len(delivered)
    BY <2>1 DEF Delivered
  <2>3. \A j \in 1 .. k - 1 : j \in DOMAIN delivered /\ j < k
    BY <2>2
  <2> QED
    BY <2>1, <2>3 DEF Delivered
<1> QED
  BY <1>1, SearchInit, SearchNext, PTL DEF Spec


-----------------------------------------------------------------------------
(* What callers are promised *)

\* What a search that goes on at `next` has still to return.
Remaining(attr, next) == {i \in MatchingEntries(attr) : i >= next}

\* What remains to be returned, at two places of a directory.
LEMMA RemainingFacts ==
  ASSUME NEW attr, NEW next \in 1 .. End, NEW n \in next .. End
  PROVE  /\ Remaining(attr, next) = Between(attr, next, n) \cup Remaining(attr, n)
         /\ Remaining(attr, End) = {}
         /\ Remaining(attr, 1) = MatchingEntries(attr)
         /\ Between(attr, next, n) \subseteq next .. n - 1
         /\ \A i \in Remaining(attr, n) : i \in Int /\ i >= n
         /\ Remaining(attr, next) # {0}
BY PlaceFacts DEF Remaining, MatchingEntries, Between

\* The entries of a set up to one of them, and those behind it.
UpTo(entries, last)   == {i \in entries : i =< last}
Behind(entries, last) == {i \in entries : i > last}

\* A result with entries is a portion of `all`, and leaves the rest of it.
IsPortion(error, entries, all, rest) ==
  \E last \in all :
    /\ error = "NO_ERROR" \/ (error = "ERROR_EAS_DIDNT_FIT" /\ \A i \in all : i >= last)
    /\ InOrder(entries, UpTo(all, last))
    /\ rest = Behind(all, last)

\* What a call returns is a portion of what remains.
LEMMA PortionReturned ==
  ASSUME NEW attr, NEW next \in 1 .. End, NEW answer, Good(answer, attr, next, 0),
         Succeeds(answer)
  PROVE  IsPortion(answer.rc, answer.items, Remaining(attr, next), Remaining(attr, answer.next))
<1> DEFINE s      == answer.items
           n      == answer.next
           all    == Remaining(attr, next)
           passed == Between(attr, next, n)
           rest   == Remaining(attr, n)
           last   == s[Len(s)]
<1>1. /\ n \in next .. End /\ End \in Nat /\ next \in Nat
      /\ all = passed \cup rest /\ passed \subseteq next .. n - 1
      /\ \A i \in rest : i \in Int /\ i >= n
  <2>1. n \in next .. End
    BY DEF Good
  <2>2. End \in Nat /\ next \in Nat
    BY PlaceFacts
  <2>3. /\ all = passed \cup rest /\ passed \subseteq next .. n - 1
        /\ \A i \in rest : i \in Int /\ i >= n
    <3> HIDE DEF n
    <3> QED
      BY <2>1, RemainingFacts
  <2> QED
    BY <2>1, <2>2, <2>3, Zenon
<1>2. /\ s \in Seq(passed) /\ \A i \in passed : \E k \in DOMAIN s : s[k] = i
      /\ \A j, k \in DOMAIN s : j < k => s[j] < s[k]
      /\ InOrder(s, passed)
  BY DEF Good, InOrder, Promise!InOrder
<1>3. /\ answer.rc = "NO_ERROR" \/ answer.rc = "ERROR_EAS_DIDNT_FIT"
      /\ answer.rc = "NO_ERROR" => s # <<>>
      /\ answer.rc = "ERROR_EAS_DIDNT_FIT" => Len(s) = 1
  BY DEF Good, Succeeds
<1> HIDE DEF s, n, all, passed, rest
<1>4. Len(s) \in Nat /\ Len(s) >= 1 /\ DOMAIN s = 1 .. Len(s)
  BY <1>2, <1>3
<1>5. last \in passed /\ last \in Int /\ last < n
  <2>1. last \in passed
    BY <1>2, <1>4
  <2> HIDE DEF last
  <2>2. last \in next .. n - 1
    BY <1>1, <2>1
  <2> QED
    BY <1>1, <2>1, <2>2
<1>6. ASSUME NEW i \in passed PROVE i \in Int /\ i =< last
  <2>1. PICK k \in DOMAIN s : s[k] = i
    BY <1>2
  <2>2. k = Len(s) \/ k < Len(s)
    BY <1>4, <2>1
  <2>3. i \in Int
    BY <1>1
  <2> QED
    BY <1>2, <1>4, <1>5, <2>1, <2>2, <2>3
<1> HIDE DEF last
<1>7. UpTo(all, last) = passed
  <2>1. \A i \in rest : ~(i =< last)
    BY <1>1, <1>5
  <2> QED
    BY <1>1, <1>6, <2>1 DEF UpTo
<1>8. Behind(all, last) = rest
  <2>1. \A i \in rest : i > last
    BY <1>1, <1>5
  <2>2. \A i \in passed : ~(i > last)
    BY <1>5, <1>6
  <2> QED
    BY <1>1, <2>1, <2>2 DEF Behind
<1>9. ASSUME answer.rc = "ERROR_EAS_DIDNT_FIT", NEW i \in all PROVE i >= last
  <2>1. CASE i \in rest
    BY <1>1, <1>5, <2>1
  <2>2. CASE i \in passed
    <3>1. PICK k \in DOMAIN s : s[k] = i
      BY <1>2, <2>2
    <3>2. k = Len(s)
      BY <1>3, <1>4, <1>9, <3>1
    <3> QED
      BY <1>5, <3>1, <3>2 DEF last
  <2> QED
    BY <1>1, <2>1, <2>2
<1>10. last \in all
  BY <1>1, <1>5
<1> QED
  BY <1>2, <1>3, <1>7, <1>8, <1>9, <1>10, Zenon DEF IsPortion, s, n, all, passed, rest

\* An answer without any has passed nothing that was left.
LEMMA NothingReturned ==
  ASSUME NEW attr, NEW next \in 1 .. End, NEW answer, Good(answer, attr, next, 0),
         ~Succeeds(answer)
  PROVE  /\ answer.rc \notin {"NO_ERROR", "ERROR_EAS_DIDNT_FIT"} /\ answer.items = <<>>
         /\ Remaining(attr, answer.next) = Remaining(attr, next)
         /\ answer.rc = "ERROR_NO_MORE_FILES" => Remaining(attr, next) = {}
<1>1. answer.rc \notin {"NO_ERROR", "ERROR_EAS_DIDNT_FIT"} /\ answer.items = <<>>
  BY DEF Succeeds, Good
<1>2. /\ InOrder(<<>>, Between(attr, next, answer.next)) /\ answer.next \in next .. End
      /\ answer.rc = "ERROR_NO_MORE_FILES" => answer.next = End
  BY <1>1 DEF Good
<1>3. Between(attr, next, answer.next) = {}
  BY <1>2 DEF InOrder, Promise!InOrder
<1>4. Remaining(attr, next) = Remaining(attr, answer.next) /\ Remaining(attr, End) = {}
  <2>1. Remaining(attr, next) = Between(attr, next, answer.next) \cup Remaining(attr, answer.next)
        /\ Remaining(attr, End) = {}
    BY <1>2, RemainingFacts, Zenon
  <2> QED
    BY <1>3, <2>1
<1> QED
  BY <1>1, <1>2, <1>4, Zenon

\* An answer that is lost has passed what was left up to some entry.
LEMMA PortionLost ==
  ASSUME NEW attr, NEW next \in 1 .. End, NEW answer, Good(answer, attr, next, 0),
         Succeeds(answer)
  PROVE  \E last \in Remaining(attr, next) :
           Remaining(attr, answer.next) = Behind(Remaining(attr, next), last)
<1>1. IsPortion(answer.rc, answer.items, Remaining(attr, next), Remaining(attr, answer.next))
  BY PortionReturned
<1> QED
  BY <1>1, Zenon DEF IsPortion

left == IF flAttr = None THEN {0} ELSE Remaining(flAttr, pIsoNext)

USE DEF Promise!Closed

\* A first call is a step of Enumeration,
LEMMA FindFirstStep ==
  ASSUME SearchInv, NEW attr \in Attrs, NEW call \in Calls, FindFirst(attr, call)
  PROVE  Promise!Next
<1> DEFINE answer == Answer(attr, 1, call)
           Matching == [a \in Attrs |-> MatchingEntries(a)]
<1>1. 1 \in 1 .. End /\ End \in 1 .. End /\ attr # None
  BY PlaceFacts, SearchAssumption
<1>2. Good(answer, attr, 1, 0) /\ answer.next \in 1 .. End
  BY <1>1, GoodAnswer, GoodItems
<1>3. Matching[attr] = Remaining(attr, 1) /\ attr \in DOMAIN Matching
  BY <1>1, RemainingFacts
<1>4. flAttr = None /\ rc' = answer.rc /\ items' = answer.items
  BY DEF FindFirst
<1>5. CASE Succeeds(answer)
  <2>1. flAttr' = attr /\ pIsoNext' = answer.next
    BY <1>5 DEF FindFirst
  <2> HIDE DEF answer
  <2>2. left = {0} /\ left' = Remaining(attr, answer.next)
    BY <1>1, <1>4, <2>1 DEF left
  <2>3. IsPortion(rc', items', Remaining(attr, 1), left')
    <3>1. IsPortion(answer.rc, answer.items, Remaining(attr, 1), Remaining(attr, answer.next))
      BY <1>1, <1>2, <1>5, PortionReturned, Zenon
    <3> QED
      BY <1>4, <2>2, <3>1, Zenon
  <2>4. Promise!Portion(Remaining(attr, 1))
    BY <2>3, Zenon DEF Promise!Portion, IsPortion, UpTo, Behind, InOrder, left, Remaining
  <2> HIDE DEF Matching
  <2>5. Promise!Begin
    BY <1>3, <1>4, <2>4 DEF Promise!Begin, Matching
  <2> QED
    BY <2>5 DEF Promise!Next
<1>6. CASE ~Succeeds(answer)
  <2>1. UNCHANGED <<flAttr, pIsoNext>>
    BY <1>6 DEF FindFirst, search
  <2> HIDE DEF answer
  <2>2. rc' \notin {"NO_ERROR", "ERROR_EAS_DIDNT_FIT"} /\ items' = <<>>
    BY <1>1, <1>2, <1>4, <1>6, NothingReturned
  <2> QED
    BY <1>4, <2>1, <2>2 DEF Promise!Next, Promise!Fail
<1> QED
  BY <1>5, <1>6

\* and a further one,
LEMMA FindNextStep ==
  ASSUME SearchInv, NEW call \in Calls, FindNext(call)
  PROVE  Promise!Next
<1> DEFINE answer == Answer(flAttr, pIsoNext, call)
           all == Remaining(flAttr, pIsoNext)
<1>1. flAttr # None /\ pIsoNext \in 1 .. End
  BY DEF FindNext, SearchInv, TypeOK
<1>2. Good(answer, flAttr, pIsoNext, 0) /\ answer.next \in pIsoNext .. End
  BY <1>1, GoodAnswer, GoodItems
<1>3. /\ rc' = answer.rc /\ items' = answer.items /\ flAttr' = flAttr /\ pIsoNext' = answer.next
  BY DEF FindNext, MoveOn
<1> HIDE DEF answer
<1>4. left = all /\ left' = Remaining(flAttr, answer.next) /\ all # {0}
  BY <1>1, <1>2, <1>3, RemainingFacts DEF left
<1>5. CASE Succeeds(answer)
  <2>1. IsPortion(rc', items', all, left')
    <3>1. IsPortion(answer.rc, answer.items, all, Remaining(flAttr, answer.next))
      BY <1>1, <1>2, <1>5, PortionReturned, Zenon
    <3> QED
      BY <1>3, <1>4, <3>1, Zenon
  <2>2. Promise!Continue
    BY <1>4, <2>1, Zenon
       DEF Promise!Continue, Promise!Portion, IsPortion, UpTo, Behind, InOrder, left, Remaining
  <2> QED
    BY <2>2 DEF Promise!Next
<1>6. CASE ~Succeeds(answer)
  <2>1. /\ rc' \notin {"NO_ERROR", "ERROR_EAS_DIDNT_FIT"} /\ items' = <<>>
        /\ left' = left
        /\ rc' = "ERROR_NO_MORE_FILES" => left = {}
    BY <1>1, <1>2, <1>3, <1>4, <1>6, NothingReturned
  <2>2. Promise!Exhausted \/ Promise!Fail
    BY <2>1 DEF Promise!Exhausted, Promise!Fail, left, Remaining
  <2> QED
    BY <2>2 DEF Promise!Next
<1> QED
  BY <1>5, <1>6

\* and one whose results are lost,
LEMMA FindNextUndeliveredStep ==
  ASSUME SearchInv, NEW call \in Calls, FindNextUndelivered(call)
  PROVE  Promise!Next
<1> DEFINE answer == Answer(flAttr, pIsoNext, call)
           all == Remaining(flAttr, pIsoNext)
<1>1. flAttr # None /\ pIsoNext \in 1 .. End /\ Succeeds(answer)
  BY DEF FindNextUndelivered, SearchInv, TypeOK
<1>2. Good(answer, flAttr, pIsoNext, 0) /\ answer.next \in pIsoNext .. End
  BY <1>1, GoodAnswer, GoodItems
<1>3. /\ rc' = "ERROR_INVALID_PARAMETER" /\ items' = <<>>
      /\ flAttr' = flAttr /\ pIsoNext' = answer.next
  BY DEF FindNextUndelivered, MoveOn
<1> HIDE DEF answer
<1>4. left = all /\ left' = Remaining(flAttr, answer.next) /\ all # {0}
  BY <1>1, <1>2, <1>3, RemainingFacts DEF left
<1>5. PICK last \in all : Remaining(flAttr, answer.next) = Behind(all, last)
  BY <1>1, <1>2, PortionLost, Zenon
<1>6. last \in all /\ left' = Behind(all, last)
  BY <1>4, <1>5, Zenon
<1>7. Promise!Lose
  BY <1>3, <1>4, <1>6, Zenon DEF Promise!Lose, left, Remaining, Behind
<1> QED
  BY <1>7 DEF Promise!Next

\* and a close.
LEMMA CloseStep ==
  ASSUME SearchInv, FindClose
  PROVE  Promise!Next
<1>1. flAttr # None /\ pIsoNext \in 1 .. End /\ flAttr' = None /\ rc' = "NO_ERROR" /\ items' = <<>>
  BY DEF FindClose, SearchInv, TypeOK
<1>2. left # {0} /\ left' = {0}
  BY <1>1, PlaceFacts, RemainingFacts DEF left
<1>3. Promise!Close
  BY <1>1, <1>2 DEF Promise!Close, left, Remaining
<1> QED
  BY <1>3 DEF Promise!Next

\* Every step is a step of Enumeration or a stutter.
LEMMA EnumerationStep == SearchInv /\ [Next]_vars => [Promise!Next]_(Promise!vars)
<1> SUFFICES ASSUME SearchInv, [Next]_vars PROVE [Promise!Next]_(Promise!vars)
  OBVIOUS
<1>1. CASE FindFirstRefused
  BY <1>1 DEF FindFirstRefused, search, Promise!Next, Promise!Fail
<1>2. CASE FindClose
  BY <1>2, CloseStep
<1>3. ASSUME NEW call \in Calls, NEW attr \in Attrs, FindFirst(attr, call)
      PROVE  Promise!Next
  BY <1>3, FindFirstStep
<1>4. ASSUME NEW call \in Calls, NEW attr \in Attrs, FindFirstUndelivered(attr, call)
      PROVE  Promise!Next
  BY <1>4 DEF FindFirstUndelivered, search, Promise!Next, Promise!Fail
<1>5. ASSUME NEW call \in Calls, FindNext(call) PROVE Promise!Next
  BY <1>5, FindNextStep
<1>6. ASSUME NEW call \in Calls, FindNextUndelivered(call) PROVE Promise!Next
  BY <1>6, FindNextUndeliveredStep
<1>7. CASE UNCHANGED vars
  BY <1>7 DEF vars, search, Promise!vars
<1> QED
  BY <1>1, <1>2, <1>3, <1>4, <1>5, <1>6, <1>7 DEF Next

\* find.c implements Enumeration: each entry that matches is returned once, an error
\* takes nothing from what is left, and the end is reported only when nothing is, for
\* any directory and any sequence of buffers.
THEOREM SearchImplemented == Spec => ImplementsEnumeration
<1>1. Init => Promise!Init
  BY DEF Init, Promise!Init
<1> QED
  BY <1>1, SearchInit, SearchNext, EnumerationStep, PTL
     DEF Spec, ImplementsEnumeration, Promise!Spec

-----------------------------------------------------------------------------
(* No call gets stuck *)

\* A buffer that holds the next entry, or the size of its attributes, is answered from
\* behind that entry.
LEMMA AdequateMoves ==
  ASSUME NEW attr, NEW i \in 1 .. End, NEW call \in Calls, Adequate(call)
  PROVE  LET answer == Answer(attr, i, call)
         IN  answer.next > i \/ (i = End /\ answer.rc = "ERROR_NO_MORE_FILES")
<1> DEFINE answer  == Answer(attr, i, call)
           further == Fill(attr, call)[i + 1]
           room    == call.cbData
           one     == Stored(Directory[i], call, room)
           more    == further[room - one.size][0 + 1]
<1>1. /\ End \in Nat /\ room \in Nat /\ call.cMatch \in Nat /\ call.cMatch > 0
      /\ 0 \in 0 .. call.cMatch /\ 1 \in 0 .. call.cMatch
  BY PlaceFacts, CallFacts DEF Adequate
<1>2. answer = Fill(attr, call)[i][room][0]
  BY <1>1 DEF Answer
<1>3. CASE i = End
  <2>1. answer = AtEnd(call)[room][0]
    BY <1>2, <1>3, FillUnfolds
  <2>2. answer = Result("ERROR_NO_MORE_FILES", <<>>, End)
    BY <1>1, <2>1 DEF AtEnd, Breaks
  <2> QED
    BY <1>3, <2>2, ResultFacts
<1>4. CASE i # End
  <2>1. i \in 1 .. End - 1 /\ i + 1 \in 1 .. End /\ i \in Nat
    BY <1>1, <1>4
  <2>2. answer = AtEntry(attr, call, i, further)[room][0]
    BY <1>2, <1>4, FillUnfolds
  <2>3. answer =
          IF ~Matches(Directory[i], attr) THEN further[room][0]
          ELSE CASE one.rc = "NO_ERROR" /\ 0 + 1 < call.cMatch ->
                      Result(more.rc, <<i>> \o more.items, more.next)
                 [] one.rc = "NO_ERROR" /\ 0 + 1 >= call.cMatch ->
                      Result("NO_ERROR", <<i>>, i + 1)
                 [] one.rc # "NO_ERROR" /\ Breaks(one.rc, 0) -> Result("NO_ERROR", <<>>, i)
                 [] OTHER ->
                      Result(one.rc, IF one.rc = "ERROR_EAS_DIDNT_FIT" THEN <<i>> ELSE <<>>,
                             AfterFailure(i, one.rc))
    BY <1>1, <2>2 DEF AtEntry
  <2>4. /\ one.rc \in {"NO_ERROR", "ERROR_EAS_DIDNT_FIT"}
        /\ one.rc = "NO_ERROR" => room - one.size \in Nat
    BY <1>1, <2>1, StoredFacts, PlaceFacts DEF Adequate
  <2>5. further[room][0].next \in i + 1 .. End
    BY <1>1, <2>1, GoodFill DEF Good
  <2>6. one.rc = "NO_ERROR" => more.next \in i + 1 .. End
    BY <1>1, <2>1, <2>4, GoodFill DEF Good
  <2> HIDE DEF answer, further, one, more, room
  <2>7. ~Breaks(one.rc, 0)
    BY DEF Breaks
  <2>8. answer.next \in {further[room][0].next, i + 1} \/ (one.rc = "NO_ERROR" /\ answer.next = more.next)
    BY <1>1, <2>3, <2>4, <2>7, ResultFacts DEF AfterFailure
  <2> QED
    BY <1>1, <2>1, <2>5, <2>6, <2>8 DEF answer
<1> QED
  BY <1>3, <1>4

\* fsFindNext() never gets stuck: with a buffer that holds any entry it passes one, or
\* reports the end when it is there, for any directory and after any calls.
THEOREM AdequateAlwaysAdvances == Spec => AdequateAdvances
<1>1. ASSUME SearchInv, NEW call \in Calls, Adequate(call), FindNext(call)
      PROVE  pIsoNext' > pIsoNext \/ (pIsoNext = End /\ rc' = "ERROR_NO_MORE_FILES")
  <2> DEFINE answer == Answer(flAttr, pIsoNext, call)
  <2>1. pIsoNext \in 1 .. End /\ pIsoNext' = answer.next /\ rc' = answer.rc
    BY <1>1 DEF FindNext, MoveOn, SearchInv, TypeOK
  <2> QED
    BY <1>1, <2>1, AdequateMoves
<1>2. SearchInv =>
        [\A call \in Calls : Adequate(call) /\ FindNext(call) =>
           pIsoNext' > pIsoNext \/ (pIsoNext = End /\ rc' = "ERROR_NO_MORE_FILES")]_vars
  BY <1>1
<1> QED
  BY <1>2, SearchInit, SearchNext, PTL DEF Spec, AdequateAdvances

=============================================================================

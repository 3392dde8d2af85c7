-------------------------- MODULE Algorithms_proofs --------------------------
(* Proofs about the daemon's algorithms: what TLC checks on short inputs holds *)
(* for inputs of any length.                                                   *)
EXTENDS Algorithms, NumberFacts, FiniteSetTheorems

\* An algorithm has one of its inputs.
JobInv ==
  /\ job.kind = "pattern" => job.exp \in Patterns /\ job.name \in PatternNames
  /\ job.kind = "name"    => job.name \in PlainNames
  /\ job.kind = "path"    => job.full \in FullPaths
  /\ job.kind = "date"    => job.date \in Dates
  /\ job.kind = "params"  => job.buf \in ParamBuffers
  /\ job.kind = "scan"    => job.image \in Images
  /\ job.kind = "eas"     => job.query \in EaQueries
  /\ job.kind = "list"    => job.listing \in Listings
  /\ job.kind = "volume"  => job.volume \in Volumes

\* Every job has its input from the set for its algorithm.
LEMMA JobAlways == Spec => []JobInv
<1>1. Init => JobInv
  BY DEF Init, JobInv, Idle
<1>2. JobInv /\ [Next]_job => JobInv'
  <2> SUFFICES ASSUME JobInv, [Next]_job PROVE JobInv'
    OBVIOUS
  <2>1. CASE DoPattern
    BY <2>1 DEF JobInv, DoPattern
  <2>2. CASE DoName \/ DoPath \/ DoDate
    BY <2>2 DEF JobInv, DoName, DoPath, DoDate
  <2>3. CASE DoParams \/ DoScan \/ DoEas
    BY <2>3 DEF JobInv, DoParams, DoScan, DoEas
  <2>4. CASE DoList \/ DoVolume \/ Done
    BY <2>4 DEF JobInv, DoList, DoVolume, Done, Idle
  <2>5. CASE UNCHANGED job
    BY <2>5 DEF JobInv
  <2> QED
    BY <2>1, <2>2, <2>3, <2>4, <2>5 DEF Next
<1> QED
  BY <1>1, <1>2, PTL DEF Spec

-----------------------------------------------------------------------------
(* Dates *)

\* Every date that a record can hold, of the years that OS/2 has.
LEMMA DateIsKept ==
  ASSUME NEW date \in Dates, date[1] \in 80 .. 207
  PROVE  LET shown    == Shown(IsoEntryTimeToOS2(date))
             recorded == Recorded(date)
         IN  /\ \A k \in 1 .. 5 : shown[k] = recorded[k]
             /\ recorded[6] - shown[6] \in {0, 1}
<1> DEFINE shown    == Shown(IsoEntryTimeToOS2(date))
           recorded == Recorded(date)
<1>1. /\ date[2] \in 1 .. 12 /\ date[3] \in 1 .. 31 /\ date[4] \in 0 .. 23
      /\ date[5] \in 0 .. 59 /\ date[6] \in 0 .. 59
  BY DateAssumption
<1>2. /\ (date[1] - 80) % 128 = date[1] - 80 /\ date[2] % 16 = date[2] /\ date[3] % 32 = date[3]
      /\ date[4] % 32 = date[4] /\ date[5] % 64 = date[5]
  BY <1>1
<1>3. /\ (date[6] \div 2) % 32 = date[6] \div 2
      /\ date[6] - 2 * (date[6] \div 2) \in {0, 1}
  BY <1>1
<1>4. /\ shown[1] = 1980 + (date[1] - 80) /\ shown[2] = date[2] /\ shown[3] = date[3]
      /\ shown[4] = date[4] /\ shown[5] = date[5] /\ shown[6] = 2 * (date[6] \div 2)
  BY <1>2, <1>3 DEF Shown, IsoEntryTimeToOS2
<1>5. /\ recorded[1] = 1900 + date[1] /\ recorded[2] = date[2] /\ recorded[3] = date[3]
      /\ recorded[4] = date[4] /\ recorded[5] = date[5] /\ recorded[6] = date[6]
  BY DEF Recorded
<1>6. shown[1] = recorded[1]
  <2> HIDE DEF shown, recorded
  <2> QED
    BY <1>4, <1>5
<1>7. \A k \in 1 .. 5 : k = 1 \/ k = 2 \/ k = 3 \/ k = 4 \/ k = 5
  OBVIOUS
<1> HIDE DEF shown, recorded
<1>8. (\A k \in 1 .. 5 : shown[k] = recorded[k]) /\ recorded[6] - shown[6] \in {0, 1}
  BY <1>3, <1>4, <1>5, <1>6, <1>7
<1> QED
  BY <1>8 DEF shown, recorded

\* From 1980 to 2107 a program sees the date that the image has, to two seconds.
THEOREM DatesAlwaysKept == Spec => []DatesKept
<1>1. JobInv => DatesKept
  BY DateIsKept DEF JobInv, DatesKept
<1> QED
  BY <1>1, JobAlways, PTL

-----------------------------------------------------------------------------
(* The search for the Joliet descriptor *)

\* What the buffer holds: a block that can be read, or what it held before.
LEMMA IpdUnfolds ==
  ASSUME NEW image \in Images, NEW n \in Nat
  PROVE  /\ Ipd(image, n)[0] = "other"
         /\ \A k \in 1 .. n :
              Ipd(image, n)[k] = IF k > Len(image) \/ image[k] = "bad" THEN Ipd(image, n)[k - 1]
                                 ELSE image[k]
<1> DEFINE Held(k, before) == IF k > Len(image) \/ image[k] = "bad" THEN before ELSE image[k]
           S == Joliet \cup {"supplementary", "end", "other", "bad"}
           Step == [k \in 1 .. n |-> [s \in S |-> Held(k, s)]]
           Def(f) == f = [k \in 0 .. n |-> IF k = 0 THEN "other" ELSE Held(k, f[k - 1])]
<1>1. Step \in [1 .. n -> [S -> S]]
  <2>1. \A k \in 1 .. n : k > Len(image) \/ image[k] \in S
    BY ImageAssumption
  <2> QED
    BY <2>1
<1>2. PICK f : Runs(f, n, S, "other", Step)
  <2>1. "other" \in S
    OBVIOUS
  <2> HIDE DEF S, Step
  <2> QED
    BY <1>1, <2>1, LoopExists
<1>3. Def(f)
  <2>1. /\ f = [k \in 0 .. n |-> f[k]] /\ f[0] = "other"
        /\ \A k \in 0 .. n : k = 0 \/ k \in 1 .. n
        /\ \A k \in 1 .. n : f[k] = Step[k][f[k - 1]] /\ f[k - 1] \in S
    <3> HIDE DEF S, Step
    <3> QED
      BY <1>2, RunsFacts
  <2>2. \A k \in 1 .. n : f[k] = Held(k, f[k - 1])
    BY <2>1
  <2>3. \A k \in 0 .. n : f[k] = IF k = 0 THEN "other" ELSE Held(k, f[k - 1])
    <3> HIDE DEF Held
    <3> QED
      BY <2>1, <2>2
  <2> HIDE DEF Held
  <2> QED
    BY <2>1, <2>3, Zenon
<1>4. Ipd(image, n) = CHOOSE g : Def(g)
  BY DEF Ipd
<1>5. Def(Ipd(image, n))
  <2> HIDE DEF Def
  <2> QED
    BY <1>3, <1>4
<1>6. \A k \in 1 .. n : k \in 0 .. n /\ k # 0
  OBVIOUS
<1> HIDE DEF Ipd
<1> QED
  BY <1>5, <1>6

Dull == {"other", "supplementary"}

\* The blocks that end the loop.
Marks(image) == {k \in 1 .. Len(image) : image[k] \in Joliet \cup {"end"}}

\* Until one of them is read, nothing in the buffer ends it.
LEMMA DullBefore ==
  ASSUME NEW image \in Images, NEW n \in Nat, NEW m \in 0 .. n,
         \A k \in Marks(image) : k > m
  PROVE  \A k \in 0 .. m : Ipd(image, n)[k] \in Dull
<1> DEFINE ipd == Ipd(image, n)
           T == {k \in 0 .. m : ipd[k] \in Dull}
<1>1. 0 \in T
  BY IpdUnfolds DEF Dull
<1>2. ASSUME NEW k \in 1 .. m, k - 1 \in T PROVE k \in T
  <2>1. k \in 1 .. n /\ k \in 0 .. m
    OBVIOUS
  <2>2. ipd[k] = IF k > Len(image) \/ image[k] = "bad" THEN ipd[k - 1] ELSE image[k]
    BY <2>1, IpdUnfolds
  <2>3. k > Len(image) \/ image[k] \in Dull \cup {"bad"}
    BY <2>1, ImageAssumption DEF Marks, Dull
  <2> HIDE DEF ipd
  <2> QED
    BY <1>2, <2>1, <2>2, <2>3
<1>3. m \in Nat /\ T \in SUBSET (0 .. m)
  OBVIOUS
<1> HIDE DEF T
<1>4. T = 0 .. m
  BY <1>1, <1>2, <1>3, Induction
<1> QED
  BY <1>4 DEF T

\* attachVolume() stops at the first of them, and at none other.
LEMMA ScanStops ==
  ASSUME NEW image \in Images
  PROVE  /\ Marks(image) = {} => Scan(image) = "never"
         /\ \A m \in Marks(image) : (\A k \in Marks(image) : m =< k) => Scan(image) = image[m]
<1> DEFINE n     == Len(image) + 1
           ipd   == Ipd(image, n)
           stops == {k \in 1 .. n : ipd[k] \in Joliet \cup {"end"}}
<1>0. Len(image) \in Nat /\ n \in Nat
  BY ImageAssumption
<1>1. Scan(image) = IF stops = {} THEN "never"
                    ELSE ipd[CHOOSE k \in stops : \A j \in stops : k =< j]
  BY DEF Scan
<1>2. ASSUME NEW m \in 0 .. n, \A k \in Marks(image) : k > m, NEW k \in 1 .. m
      PROVE  k \notin stops
  <2>1. ipd[k] \in Dull
    <3> HIDE DEF n
    <3> QED
      BY <1>0, <1>2, DullBefore
  <2> QED
    BY <2>1 DEF Dull, Joliet
<1>3. ASSUME Marks(image) = {} PROVE Scan(image) = "never"
  <2>1. n \in 0 .. n
    BY <1>0
  <2>2. \A k \in 1 .. n : k \notin stops
    <3> HIDE DEF n, stops
    <3> QED
      BY <1>2, <1>3, <2>1
  <2>3. stops = {}
    BY <2>2
  <2> QED
    BY <1>1, <2>3
<1>4. ASSUME NEW m \in Marks(image), \A k \in Marks(image) : m =< k
      PROVE  Scan(image) = image[m]
  <2>1. m \in 1 .. Len(image) /\ image[m] \in Joliet \cup {"end"}
    BY DEF Marks
  <2>2. m \in 1 .. n /\ m - 1 \in 0 .. n /\ ~(m > Len(image))
    BY <1>0, <2>1
  <2>3. ipd[m] = image[m]
    <3>1. image[m] # "bad"
      BY <2>1 DEF Joliet
    <3> HIDE DEF n
    <3> QED
      BY <1>0, <2>2, <3>1, IpdUnfolds
  <2>4. m \in stops
    BY <2>1, <2>2, <2>3
  <2>5. ASSUME NEW j \in stops PROVE m =< j
    <3> SUFFICES ASSUME j < m PROVE FALSE
      BY <2>2
    <3>1. j \in 1 .. m - 1
      BY <2>2
    <3>2. \A k \in Marks(image) : k > m - 1
      BY <1>4, <2>2 DEF Marks
    <3> HIDE DEF n, stops
    <3> QED
      BY <1>2, <2>2, <3>1, <3>2
  <2>6. ASSUME NEW k \in stops, \A j \in stops : k =< j PROVE k = m
    <3>1. k \in Int /\ m \in Int /\ k =< m /\ m =< k
      BY <1>0, <2>1, <2>4, <2>5, <2>6
    <3> QED
      BY <3>1
  <2> HIDE DEF stops, n, ipd
  <2>7. (CHOOSE k \in stops : \A j \in stops : k =< j) = m
    BY <2>4, <2>5, <2>6
  <2> QED
    BY <1>1, <2>3, <2>4, <2>7
<1> QED
  BY <1>3, <1>4

\* For every image, of any length and with any blocks that cannot be read, an attach gets
\* the first Joliet descriptor that can be, if the terminator is not before it; the loop
\* does not end where there is neither.
THEOREM JolietAlwaysFound == Spec => []JolietFound
<1>1. ASSUME NEW image \in Images
      PROVE  LET marks == {k \in 1 .. Len(image) : image[k] \in Joliet \cup {"end"}}
                 level == UcsLevel(image)
             IN  /\ level = Hangs <=> marks = {}
                 /\ \A k \in marks : (\A j \in marks : k =< j) =>
                      (level = NoJoliet <=> image[k] = "end") /\ (level = 3 <=> image[k] = "E")
  <2> DEFINE level == UcsLevel(image)
  <2>1. CASE Marks(image) = {}
    <3>1. level = Hangs
      BY <2>1, ScanStops DEF UcsLevel, Hangs
    <3> QED
      BY <2>1, <3>1 DEF Marks
  <2>2. CASE Marks(image) # {}
    <3>1. PICK m \in Marks(image) : \A k \in Marks(image) : m =< k
      <4>1. \A k \in Marks(image) : k \in Nat
        BY DEF Marks
      <4> QED
        BY <2>2, <4>1, LeastNatural
    <3>2. Scan(image) = image[m] /\ image[m] \in Joliet \cup {"end"}
      BY <3>1, ScanStops DEF Marks
    <3>3. /\ level # Hangs
          /\ level = NoJoliet <=> image[m] = "end"
          /\ level = 3 <=> image[m] = "E"
      BY <3>2 DEF UcsLevel, Joliet, Hangs, NoJoliet
    <3>4. ASSUME NEW k \in Marks(image), \A j \in Marks(image) : k =< j PROVE k = m
      BY <3>1, <3>4 DEF Marks
    <3> QED
      BY <2>2, <3>3, <3>4 DEF Marks
  <2> QED
    BY <2>1, <2>2
<1>2. JobInv => JolietFound
  BY <1>1 DEF JobInv, JolietFound
<1> QED
  BY <1>2, JobAlways, PTL

-----------------------------------------------------------------------------
(* Paths *)

\* The last place in s up to n where a character is, or is not, a separator: zero if
\* there is none.
IsLast(k, s, n, sep) ==
  /\ k \in 0 .. n /\ (k = 0 \/ ((s[k] \in Separators) <=> sep))
  /\ \A m \in k + 1 .. n : ~((s[m] \in Separators) <=> sep)

\* There is one last place of a kind.
LEMMA LastIsOne ==
  ASSUME NEW s, NEW n \in Nat, NEW sep \in BOOLEAN, NEW k, NEW l,
         IsLast(k, s, n, sep), IsLast(l, s, n, sep)
  PROVE  k = l
BY DEF IsLast

\* The greatest element of a set of places, or zero.
LEMMA GreatestPlace ==
  ASSUME NEW n \in Nat, NEW T \in SUBSET (1 .. n)
  PROVE  LET k == IF T # {} THEN Max(T) ELSE 0
         IN  k \in 0 .. n /\ (k = 0 \/ k \in T) /\ \A m \in k + 1 .. n : m \notin T
<1>1. CASE T = {}
  BY <1>1
<1>2. CASE T # {}
  <2>1. T \in SUBSET (0 .. n)
    OBVIOUS
  <2>2. PICK x \in T : \A y \in T : y =< x
    BY <1>2, <2>1, GreatestNatural
  <2>3. \A x1 \in T : x1 \in Int
    OBVIOUS
  <2>4. \E x1 \in T : \A y \in T : x1 >= y
    BY <2>2, <2>3
  <2>5. Max(T) \in T /\ \A y \in T : Max(T) >= y
    BY <2>4 DEF Max
  <2>6. Max(T) \in 1 .. n
    BY <2>5
  <2>7. ASSUME NEW m \in Max(T) + 1 .. n PROVE m \notin T
    BY <2>5, <2>6
  <2> QED
    BY <1>2, <2>5, <2>6, <2>7
<1> QED
  BY <1>1, <1>2

\* The two walks of splitPath(), to the last separator and back from it.
LEMMA SplitPlaces ==
  ASSUME NEW full \in FullPaths
  PROVE  \E back, p2 \in 0 .. Len(full) :
           /\ SplitPath(full) = <<SubSeq(full, 1, back), SubSeq(full, p2 + 1, Len(full))>>
           /\ p2 # 0 /\ IsLast(p2, full, Len(full), TRUE) /\ IsLast(back, full, p2, FALSE)
<1> DEFINE seps == {i \in 1 .. Len(full) : full[i] \in Separators}
           p2   == IF seps # {} THEN Max(seps) ELSE 0
           head == SubSeq(full, 1, p2)
           rest == {i \in 1 .. Len(head) : head[i] \notin Separators}
           back == IF rest # {} THEN Max(rest) ELSE 0
<1>1. full \in Seq(STRING) /\ Len(full) \in Nat /\ 1 \in seps
  BY PathAssumption
<1>2. p2 \in 0 .. Len(full) /\ (p2 = 0 \/ p2 \in seps) /\ \A m \in p2 + 1 .. Len(full) : m \notin seps
  <2>1. seps \in SUBSET (1 .. Len(full))
    OBVIOUS
  <2> HIDE DEF seps
  <2> QED
    BY <1>1, <2>1, GreatestPlace
<1>3. p2 # 0
  <2>1. seps # {}
    BY <1>1
  <2> HIDE DEF p2, seps
  <2>2. p2 = 0 => 1 \in 0 + 1 .. Len(full)
    BY <1>1 DEF seps
  <2> QED
    BY <1>1, <1>2, <2>2
<1>4. IsLast(p2, full, Len(full), TRUE)
  <2> HIDE DEF p2
  <2> QED
    BY <1>1, <1>2 DEF IsLast
<1>5. Len(head) = p2 /\ \A i \in 1 .. p2 : head[i] = full[i]
  <2> HIDE DEF p2
  <2> QED
    BY <1>1, <1>2
<1>6. back \in 0 .. p2 /\ (back = 0 \/ back \in rest) /\ \A m \in back + 1 .. p2 : m \notin rest
  <2>1. rest \in SUBSET (1 .. p2) /\ p2 \in Nat
    <3> HIDE DEF p2, head
    <3> QED
      BY <1>2, <1>5
  <2> HIDE DEF rest, p2
  <2> QED
    BY <2>1, GreatestPlace
<1>7. IsLast(back, full, p2, FALSE) /\ back \in 0 .. Len(full)
  <2> HIDE DEF back, p2, head
  <2> QED
    BY <1>1, <1>2, <1>5, <1>6 DEF IsLast
<1>8. SplitPath(full) = <<SubSeq(full, 1, back), SubSeq(full, p2 + 1, Len(full))>>
  BY DEF SplitPath, SelectLastInSeq
<1> HIDE DEF back, p2
<1> QED
  BY <1>2, <1>3, <1>4, <1>7, <1>8

\* Length and places of a part of a string.
LEMMA PartOf ==
  ASSUME NEW s \in Seq(STRING), NEW a \in 1 .. Len(s) + 1, NEW b \in 0 .. Len(s), a =< b + 1
  PROVE  /\ SubSeq(s, a, b) \in Seq(STRING) /\ Len(SubSeq(s, a, b)) = b - a + 1
         /\ \A k \in 1 .. b - a + 1 : SubSeq(s, a, b)[k] = s[a + k - 1]
OBVIOUS

\* What IsSplit says of a prefix that ends at i and a last component that begins behind j.
LEMMA SplitsAt ==
  ASSUME NEW full \in FullPaths, NEW i \in 0 .. Len(full), NEW j \in 0 .. Len(full)
  PROVE  IsSplit(full, SubSeq(full, 1, i), SubSeq(full, j + 1, Len(full)))
           <=> j # 0 /\ IsLast(j, full, Len(full), TRUE) /\ IsLast(i, full, j, FALSE) /\ i # j
<1> DEFINE prefix == SubSeq(full, 1, i)
           last   == SubSeq(full, j + 1, Len(full))
           n      == Len(full)
<1>1. full \in Seq(STRING) /\ n \in Nat
  BY PathAssumption
<1>2. /\ prefix \in Seq(STRING) /\ Len(prefix) = i
      /\ \A k \in 1 .. i : prefix[k] = full[k]
  BY <1>1
<1>3. /\ last \in Seq(STRING) /\ Len(last) = n - j
      /\ \A k \in 1 .. n - j : last[k] = full[j + k]
  BY <1>1
<1> HIDE DEF prefix, last
<1>4. IsPrefix(prefix, full)
  BY <1>1, <1>2 DEF IsPrefix
<1>5. IsSuffix(last, full)
  <2> DEFINE r == Reverse(last)
             f == Reverse(full)
  <2>1. /\ r \in Seq(STRING) /\ Len(r) = n - j
        /\ \A k \in 1 .. n - j : r[k] = last[n - j - k + 1]
    BY <1>1, <1>3 DEF Reverse
  <2>2. /\ f \in Seq(STRING) /\ Len(f) = n
        /\ \A k \in 1 .. n : f[k] = full[n - k + 1]
    BY <1>1 DEF Reverse
  <2>3. ASSUME NEW k \in 1 .. n - j PROVE r[k] = f[k]
    <3>1. n - j - k + 1 \in 1 .. n - j /\ j + (n - j - k + 1) = n - k + 1 /\ k \in 1 .. n
      BY <1>1
    <3>2. last[n - j - k + 1] = full[n - k + 1]
      BY <1>3, <3>1
    <3> QED
      BY <2>1, <2>2, <3>1, <3>2
  <2> HIDE DEF r, f
  <2>4. IsPrefix(r, f)
    BY <1>1, <2>1, <2>2, <2>3 DEF IsPrefix
  <2> QED
    BY <2>4 DEF IsSuffix, r, f
<1>6. (\A k \in 1 .. Len(last) : last[k] \notin Separators)
        <=> \A m \in j + 1 .. n : full[m] \notin Separators
  <2>1. ASSUME NEW m \in j + 1 .. n PROVE m - j \in 1 .. n - j /\ j + (m - j) = m
    BY <1>1
  <2>2. ASSUME NEW k \in 1 .. n - j PROVE j + k \in j + 1 .. n
    BY <1>1
  <2> QED
    BY <1>3, <2>1, <2>2
<1>7. (prefix = <<>> \/ prefix[Len(prefix)] \notin Separators) <=> (i = 0 \/ full[i] \notin Separators)
  BY <1>2
<1>8. (\E gap \in 1 .. n : i + gap + (n - j) = n) <=> i < j
  <2>1. ASSUME i < j PROVE \E gap \in 1 .. n : i + gap + (n - j) = n
    <3>1. j - i \in 1 .. n /\ i + (j - i) + (n - j) = n
      BY <1>1, <2>1
    <3> QED
      BY <3>1
  <2>2. ASSUME NEW gap \in 1 .. n, i + gap + (n - j) = n PROVE i < j
    BY <1>1, <2>2
  <2> QED
    BY <2>1, <2>2
<1>9. ASSUME NEW gap \in 1 .. n, i + gap + (n - j) = n PROVE i + gap = j
  BY <1>1, <1>9
<1>10. IsSplit(full, prefix, last)
        <=> /\ i < j /\ \A k \in i + 1 .. j : full[k] \in Separators
            /\ \A m \in j + 1 .. n : full[m] \notin Separators
            /\ i = 0 \/ full[i] \notin Separators
  BY <1>2, <1>3, <1>4, <1>5, <1>6, <1>7, <1>8, <1>9 DEF IsSplit
<1>11. (j # 0 /\ IsLast(j, full, n, TRUE) /\ IsLast(i, full, j, FALSE) /\ i # j)
        <=> /\ i < j /\ \A k \in i + 1 .. j : full[k] \in Separators
            /\ \A m \in j + 1 .. n : full[m] \notin Separators
            /\ i = 0 \/ full[i] \notin Separators
  BY <1>1 DEF IsLast
<1> QED
  BY <1>10, <1>11 DEF prefix, last

\* A part of a path says where it ends, or begins.
LEMMA PartsTell ==
  ASSUME NEW full \in FullPaths, NEW i \in 0 .. Len(full), NEW k \in 0 .. Len(full)
  PROVE  /\ SubSeq(full, 1, i) = SubSeq(full, 1, k) => i = k
         /\ SubSeq(full, i + 1, Len(full)) = SubSeq(full, k + 1, Len(full)) => i = k
<1>1. full \in Seq(STRING) /\ Len(full) \in Nat
  BY PathAssumption
<1>2. \A m \in 0 .. Len(full) : /\ Len(SubSeq(full, 1, m)) = m
                               /\ Len(SubSeq(full, m + 1, Len(full))) = Len(full) - m
  BY <1>1
<1>3. Len(full) - i = Len(full) - k => i = k
  BY <1>1
<1> QED
  BY <1>2, <1>3

\* splitPath() gives, for every path that begins with a separator, the last component and
\* what precedes it, without any of the separators between them, and there is no other way
\* to split it so.
THEOREM PathsAlwaysSplit == Spec => []PathsSplit
<1>1. ASSUME NEW full \in FullPaths, NEW i \in 0 .. Len(full), NEW j \in 0 .. Len(full)
      PROVE  IsSplit(full, SubSeq(full, 1, i), SubSeq(full, j + 1, Len(full)))
               <=> SplitPath(full) = <<SubSeq(full, 1, i), SubSeq(full, j + 1, Len(full))>>
  <2>1. PICK back \in 0 .. Len(full), p2 \in 0 .. Len(full) :
          /\ SplitPath(full) = <<SubSeq(full, 1, back), SubSeq(full, p2 + 1, Len(full))>>
          /\ p2 # 0 /\ IsLast(p2, full, Len(full), TRUE) /\ IsLast(back, full, p2, FALSE)
    BY SplitPlaces
  <2>2. SplitPath(full) = <<SubSeq(full, 1, i), SubSeq(full, j + 1, Len(full))>> <=> i = back /\ j = p2
    <3>1. SubSeq(full, 1, back) = SubSeq(full, 1, i) => i = back
      BY PartsTell
    <3>2. SubSeq(full, p2 + 1, Len(full)) = SubSeq(full, j + 1, Len(full)) => j = p2
      BY PartsTell
    <3>3. \A a, b, c, d : <<a, b>> = <<c, d>> => a = c /\ b = d
      OBVIOUS
    <3>4. ASSUME SplitPath(full) = <<SubSeq(full, 1, i), SubSeq(full, j + 1, Len(full))>>
          PROVE  i = back /\ j = p2
      <4>1. <<SubSeq(full, 1, back), SubSeq(full, p2 + 1, Len(full))>>
              = <<SubSeq(full, 1, i), SubSeq(full, j + 1, Len(full))>>
        BY <2>1, <3>4
      <4>2. /\ SubSeq(full, 1, back) = SubSeq(full, 1, i)
            /\ SubSeq(full, p2 + 1, Len(full)) = SubSeq(full, j + 1, Len(full))
        BY <3>3, <4>1
      <4> QED
        BY <3>1, <3>2, <4>2
    <3> QED
      BY <2>1, <3>4
  <2>3. back # p2
    BY <2>1 DEF IsLast
  <2>4. Len(full) \in Nat
    BY PathAssumption
  <2>5. IsLast(j, full, Len(full), TRUE) => j = p2
    BY <2>1, <2>4, LastIsOne
  <2>6. ASSUME j = p2, IsLast(i, full, j, FALSE) PROVE i = back
    <3>1. p2 \in Nat
      BY <2>4
    <3>2. IsLast(i, full, p2, FALSE)
      BY <2>6, Zenon
    <3> QED
      BY <2>1, <3>1, <3>2, LastIsOne
  <2> QED
    BY <2>1, <2>2, <2>3, <2>5, <2>6, SplitsAt
<1>2. JobInv => PathsSplit
  BY <1>1 DEF JobInv, PathsSplit
<1> QED
  BY <1>2, JobAlways, PTL

-----------------------------------------------------------------------------
(* DOS names *)

ScanStates == [ext : BOOLEAN, i : Nat, bad : BOOLEAN]

\* One turn of the loop of hasNon83Name() leads from states to states.
LEMMA ScanCharType ==
  ASSUME NEW s \in ScanStates, NEW c
  PROVE  ScanChar(s, c) \in ScanStates
BY NamesAssumption DEF ScanStates, ScanChar, Refused

\* The loop of hasNon83Name(), turn by turn.
LEMMA ScanNameUnfolds ==
  ASSUME NEW name \in Seq(STRING)
  PROVE  /\ ScanName(name)[0] = [ext |-> FALSE, i |-> 0, bad |-> FALSE]
         /\ \A k \in 1 .. Len(name) :
              /\ ScanName(name)[k - 1] \in ScanStates
              /\ ScanName(name)[k] = ScanChar(ScanName(name)[k - 1], name[k])
<1> DEFINE n     == Len(name)
           start == [ext |-> FALSE, i |-> 0, bad |-> FALSE]
           Step  == [k \in 1 .. n |-> [s \in ScanStates |-> ScanChar(s, name[k])]]
           Def(f) == f = [k \in 0 .. n |-> IF k = 0 THEN start ELSE ScanChar(f[k - 1], name[k])]
<1>1. Step \in [1 .. n -> [ScanStates -> ScanStates]] /\ n \in Nat /\ start \in ScanStates
  <2>1. start \in ScanStates
    BY DEF ScanStates
  <2> HIDE DEF start
  <2> QED
    BY <2>1, ScanCharType
<1>2. PICK f : Runs(f, n, ScanStates, start, Step)
  <2> HIDE DEF Step, n, start
  <2> QED
    BY <1>1, LoopExists
<1>3. Def(f)
  <2>1. /\ f = [k \in 0 .. n |-> f[k]] /\ f[0] = start
        /\ \A k \in 0 .. n : k = 0 \/ k \in 1 .. n
        /\ \A k \in 1 .. n : f[k] = Step[k][f[k - 1]] /\ f[k - 1] \in ScanStates
    <3> HIDE DEF n, start, Step
    <3> QED
      BY <1>1, <1>2, RunsFacts
  <2> HIDE DEF n, start
  <2>2. \A k \in 1 .. n : f[k] = ScanChar(f[k - 1], name[k])
    BY <2>1
  <2>3. \A k \in 0 .. n : f[k] = IF k = 0 THEN start ELSE ScanChar(f[k - 1], name[k])
    BY <2>1, <2>2
  <2> QED
    BY <2>1, <2>3, Zenon
<1>4. ScanName(name) = CHOOSE g : Def(g)
  BY DEF ScanName
<1>5. Def(ScanName(name))
  <2> HIDE DEF Def
  <2> QED
    BY <1>3, <1>4
<1>6. \A k \in 1 .. n : k \in 0 .. n /\ k # 0
  OBVIOUS
<1> DEFINE g == ScanName(name)
<1> HIDE DEF g
<1>7. g = [k \in 0 .. n |-> IF k = 0 THEN start ELSE ScanChar(g[k - 1], name[k])]
  BY <1>5 DEF g
<1>8. g[0] = start /\ \A k \in 1 .. n : g[k] = ScanChar(g[k - 1], name[k])
  <2> HIDE DEF start, n
  <2>1. 0 \in 0 .. n
    BY <1>1
  <2> QED
    BY <1>6, <1>7, <2>1
<1>9. \A k \in 0 .. n : g[k] \in ScanStates
  <2> DEFINE T == {k \in 0 .. n : g[k] \in ScanStates}
  <2>1. 0 \in T
    BY <1>1, <1>8
  <2>2. ASSUME NEW k \in 1 .. n, k - 1 \in T PROVE k \in T
    BY <1>6, <1>8, <2>2, ScanCharType
  <2>3. T \in SUBSET (0 .. n)
    OBVIOUS
  <2> HIDE DEF T, n
  <2>4. T = 0 .. n
    BY <1>1, <2>1, <2>2, <2>3, Induction
  <2> QED
    BY <2>4 DEF T
<1>10. \A k \in 1 .. n : k - 1 \in 0 .. n
  BY <1>1
<1> QED
  BY <1>8, <1>9, <1>10 DEF g

\* The first k characters are a base, or a base and an extension behind the dot at d.
Base(name, k) == k =< BaseMax /\ \A m \in 1 .. k : name[m] \notin BadChars
WithExt(name, d, k) ==
  /\ name[d] = "." /\ Base(name, d - 1)
  /\ k - d =< ExtMax /\ \A m \in d + 1 .. k : name[m] \notin BadChars

\* What hasNon83Name() knows of them.
Knows(s, name, k) ==
  /\ ~s.bad /\ ~s.ext => s.i = k /\ Base(name, k)
  /\ ~s.bad /\ s.ext => \E d \in 1 .. k : WithExt(name, d, k) /\ s.i = k - d
  /\ s.bad => ~Base(name, k) /\ \A d \in 1 .. k : ~WithExt(name, d, k)

\* A base or a dot of less than k characters are parts of one of k.
LEMMA ShorterName ==
  ASSUME NEW name \in Seq(STRING), NEW k \in 1 .. Len(name)
  PROVE  /\ Base(name, k) <=> Base(name, k - 1) /\ k =< BaseMax /\ name[k] \notin BadChars
         /\ \A d \in 1 .. k - 1 :
              WithExt(name, d, k) <=> /\ WithExt(name, d, k - 1)
                                      /\ k - d =< ExtMax /\ name[k] \notin BadChars
         /\ WithExt(name, k, k) <=> name[k] = "." /\ Base(name, k - 1)
         /\ \A d \in 1 .. k - 1 : name[d] = "." => ~Base(name, k - 1)
<1>1. k \in Nat /\ k - 1 \in Nat /\ BaseMax \in Nat /\ ExtMax \in Nat /\ "." \in BadChars
  BY NamesAssumption
<1>2. \A m \in 1 .. k : m = k \/ m \in 1 .. k - 1
  OBVIOUS
<1>3. Base(name, k) <=> Base(name, k - 1) /\ k =< BaseMax /\ name[k] \notin BadChars
  <2>1. k \in 1 .. k /\ \A m \in 1 .. k - 1 : m \in 1 .. k
    OBVIOUS
  <2>2. k =< BaseMax => k - 1 =< BaseMax
    BY <1>1
  <2> QED
    BY <1>2, <2>1, <2>2 DEF Base
<1>4. ASSUME NEW d \in 1 .. k - 1
      PROVE  WithExt(name, d, k) <=> /\ WithExt(name, d, k - 1)
                                     /\ k - d =< ExtMax /\ name[k] \notin BadChars
  <2>1. k \in d + 1 .. k /\ (\A m \in d + 1 .. k - 1 : m \in d + 1 .. k)
        /\ \A m \in d + 1 .. k : m = k \/ m \in d + 1 .. k - 1
    OBVIOUS
  <2>2. k - d =< ExtMax => k - 1 - d =< ExtMax
    BY <1>1
  <2> QED
    BY <2>1, <2>2 DEF WithExt
<1>5. WithExt(name, k, k) <=> name[k] = "." /\ Base(name, k - 1)
  <2>1. k - k =< ExtMax /\ \A m \in k + 1 .. k : FALSE
    BY <1>1
  <2> QED
    BY <2>1 DEF WithExt
<1>6. ASSUME NEW d \in 1 .. k - 1, name[d] = "." PROVE ~Base(name, k - 1)
  BY <1>1, <1>6 DEF Base
<1> QED
  BY <1>3, <1>4, <1>5, <1>6

\* One turn of the loop keeps what hasNon83Name() knows.
LEMMA KnowsMore ==
  ASSUME NEW name \in Seq(STRING), NEW k \in 1 .. Len(name), NEW s \in ScanStates,
         Knows(s, name, k - 1)
  PROVE  Knows(ScanChar(s, name[k]), name, k)
<1> DEFINE c == name[k]
           t == ScanChar(s, c)
<1> SUFFICES Knows(t, name, k)
  OBVIOUS
<1>0. /\ k \in Nat /\ k \in 1 .. k /\ BaseMax \in Nat /\ ExtMax \in Nat /\ "." \in BadChars
      /\ \A d \in 1 .. k : d = k \/ d \in 1 .. k - 1
      /\ \A d \in 1 .. k - 1 : d \in 1 .. k
      /\ s.i \in Nat /\ s.ext \in BOOLEAN /\ s.bad \in BOOLEAN
  BY NamesAssumption DEF ScanStates
<1>1. CASE s.bad
  <2>1. t = s
    BY <1>1 DEF ScanChar
  <2>2. ~Base(name, k - 1) /\ \A d \in 1 .. k - 1 : ~WithExt(name, d, k - 1)
    BY <1>1 DEF Knows
  <2>3. ~Base(name, k) /\ \A d \in 1 .. k : ~WithExt(name, d, k)
    BY <1>0, <2>2, ShorterName
  <2> QED
    BY <1>1, <2>1, <2>3 DEF Knows
<1>2. CASE ~s.bad /\ ~s.ext
  <2>1. s.i = k - 1 /\ Base(name, k - 1)
    BY <1>2 DEF Knows
  <2>2. \A d \in 1 .. k - 1 : ~WithExt(name, d, k)
    BY <2>1, ShorterName DEF WithExt
  <2>3. CASE c = "."
    <3>1. ~t.bad /\ t.ext /\ t.i = 0
      BY <1>2, <2>3 DEF ScanChar
    <3>2. WithExt(name, k, k) /\ k - k = 0
      BY <1>0, <2>1, <2>3, ShorterName
    <3> QED
      BY <1>0, <3>1, <3>2 DEF Knows
  <2>4. CASE c # "."
    <3>1. ~t.ext /\ t.i = k /\ (t.bad <=> k > BaseMax \/ c \in BadChars)
      <4>1. t = [ext |-> s.ext, i |-> s.i + 1, bad |-> Refused(s, c)]
        BY <1>2, <2>4 DEF ScanChar
      <4>2. Refused(s, c) <=> s.i + 1 > BaseMax \/ c \in BadChars
        BY <1>2 DEF Refused
      <4>3. t.bad = Refused(s, c)
        BY <4>1
      <4>4. s.i + 1 = k
        BY <1>0, <2>1
      <4>5. t.bad <=> k > BaseMax \/ c \in BadChars
        BY <4>2, <4>3, <4>4
      <4> QED
        BY <1>2, <4>1, <4>4, <4>5
    <3>2. ~WithExt(name, k, k) /\ (Base(name, k) <=> ~(k > BaseMax \/ c \in BadChars))
      BY <1>0, <2>1, <2>4, ShorterName
    <3> HIDE DEF t
    <3> QED
      BY <1>0, <2>2, <3>1, <3>2 DEF Knows
  <2> QED
    BY <2>3, <2>4
<1>3. CASE ~s.bad /\ s.ext
  <2>1. PICK d \in 1 .. k - 1 : WithExt(name, d, k - 1) /\ s.i = k - 1 - d
    BY <1>3 DEF Knows
  <2>2. name[d] = "." /\ ~Base(name, k - 1) /\ d \in 1 .. k
    BY <1>0, <2>1, ShorterName DEF WithExt
  <2>3. ~Base(name, k) /\ ~WithExt(name, k, k)
    BY <2>2, ShorterName
  <2>4. ASSUME NEW e \in 1 .. k - 1, WithExt(name, e, k) PROVE e = d
    <3>1. WithExt(name, e, k - 1)
      BY <2>4, ShorterName
    <3>2. CASE e < d
      <4>1. d \in e + 1 .. k - 1
        BY <3>2
      <4> QED
        BY <1>0, <2>2, <3>1, <4>1 DEF WithExt
    <3>3. CASE d < e
      <4>1. d \in 1 .. e - 1
        BY <3>3
      <4> QED
        BY <1>0, <2>2, <3>1, <4>1 DEF WithExt, Base
    <3> QED
      BY <3>2, <3>3
  <2>5. CASE c = "."
    <3>1. t.bad
      BY <1>3, <2>5 DEF ScanChar
    <3>2. \A e \in 1 .. k - 1 : ~WithExt(name, e, k)
      BY <1>0, <2>5, ShorterName
    <3> HIDE DEF t
    <3> QED
      BY <1>0, <2>3, <3>1, <3>2 DEF Knows
  <2>6. CASE c # "."
    <3>1. t.ext /\ t.i = k - d /\ (t.bad <=> k - d > ExtMax \/ c \in BadChars)
      <4>1. t = [ext |-> s.ext, i |-> s.i + 1, bad |-> Refused(s, c)]
        BY <1>3, <2>6 DEF ScanChar
      <4>2. Refused(s, c) <=> s.i + 1 > ExtMax \/ c \in BadChars
        BY <1>3 DEF Refused
      <4>3. t.bad = Refused(s, c)
        BY <4>1
      <4>4. s.i + 1 = k - d
        BY <1>0, <2>1
      <4>5. t.bad <=> k - d > ExtMax \/ c \in BadChars
        BY <4>2, <4>3, <4>4
      <4> QED
        BY <1>3, <4>1, <4>4, <4>5
    <3>2. WithExt(name, d, k) <=> ~(k - d > ExtMax \/ c \in BadChars)
      <4>1. WithExt(name, d, k) <=> k - d =< ExtMax /\ name[k] \notin BadChars
        BY <2>1, ShorterName
      <4> QED
        BY <1>0, <4>1
    <3> HIDE DEF t
    <3>3. CASE t.bad
      <4>1. \A e \in 1 .. k : ~WithExt(name, e, k)
        BY <1>0, <2>3, <2>4, <3>1, <3>2, <3>3
      <4> QED
        BY <2>3, <3>3, <4>1 DEF Knows
    <3>4. CASE ~t.bad
      BY <2>2, <3>1, <3>2, <3>4 DEF Knows
    <3> QED
      BY <3>3, <3>4
  <2> QED
    BY <2>5, <2>6
<1> QED
  BY <1>0, <1>1, <1>2, <1>3

\* At the end of the name it knows what the whole name is.
LEMMA ScanKnows ==
  ASSUME NEW name \in Seq(STRING)
  PROVE  Knows(ScanName(name)[Len(name)], name, Len(name))
<1> DEFINE n == Len(name)
           T == {k \in 0 .. n : Knows(ScanName(name)[k], name, k)}
<1>1. 0 \in T
  <2>1. Base(name, 0)
    BY NamesAssumption DEF Base
  <2>2. Knows([ext |-> FALSE, i |-> 0, bad |-> FALSE], name, 0)
    BY <2>1 DEF Knows
  <2> QED
    BY <2>2, ScanNameUnfolds
<1>2. ASSUME NEW k \in 1 .. n, k - 1 \in T PROVE k \in T
  BY <1>2, ScanNameUnfolds, KnowsMore
<1>3. n \in Nat /\ T \in SUBSET (0 .. n)
  OBVIOUS
<1> HIDE DEF T, n
<1>4. n \in T
  BY <1>1, <1>2, <1>3, Induction
<1> QED
  BY <1>4 DEF T, n

\* IsDosName says the same of the whole name.
LEMMA DosNameParts ==
  ASSUME NEW name \in Seq(STRING)
  PROVE  IsDosName(name) <=> \/ name \in {<<".">>, <<".", ".">>}
                             \/ Base(name, Len(name))
                             \/ \E d \in 1 .. Len(name) : WithExt(name, d, Len(name))
<1> DEFINE n == Len(name)
           Fine(part, max) == Len(part) =< max /\ \A k \in 1 .. Len(part) : part[k] \notin BadChars
<1>1. Fine(name, BaseMax) <=> Base(name, n)
  BY DEF Base
<1>2. ASSUME NEW d \in 1 .. n
      PROVE  /\ Fine(SubSeq(name, 1, d - 1), BaseMax) <=> Base(name, d - 1)
             /\ Fine(SubSeq(name, d + 1, n), ExtMax)
                  <=> n - d =< ExtMax /\ \A m \in d + 1 .. n : name[m] \notin BadChars
  <2> DEFINE base == SubSeq(name, 1, d - 1)
             ext  == SubSeq(name, d + 1, n)
  <2>1. Len(base) = d - 1 /\ \A k \in 1 .. d - 1 : base[k] = name[k]
    OBVIOUS
  <2>2. Len(ext) = n - d /\ \A k \in 1 .. n - d : ext[k] = name[d + k]
    OBVIOUS
  <2>3. ASSUME NEW m \in d + 1 .. n PROVE m - d \in 1 .. n - d /\ d + (m - d) = m
    OBVIOUS
  <2>4. ASSUME NEW k \in 1 .. n - d PROVE d + k \in d + 1 .. n
    OBVIOUS
  <2> HIDE DEF base, ext
  <2>5. Fine(base, BaseMax) <=> Base(name, d - 1)
    BY <2>1 DEF Base
  <2>6. Fine(ext, ExtMax) <=> n - d =< ExtMax /\ \A m \in d + 1 .. n : name[m] \notin BadChars
    <3>1. (\A k \in 1 .. Len(ext) : ext[k] \notin BadChars)
            <=> \A m \in d + 1 .. n : name[m] \notin BadChars
      BY <2>2, <2>3, <2>4
    <3> QED
      BY <2>2, <3>1
  <2> QED
    BY <2>5, <2>6 DEF base, ext
<1> HIDE DEF Fine
<1>3. IsDosName(name) <=> \/ name \in {<<".">>, <<".", ".">>}
                          \/ Fine(name, BaseMax)
                          \/ \E d \in 1 .. n : /\ name[d] = "."
                                               /\ Fine(SubSeq(name, 1, d - 1), BaseMax)
                                               /\ Fine(SubSeq(name, d + 1, n), ExtMax)
  BY DEF IsDosName, Fine
<1> QED
  BY <1>1, <1>2, <1>3 DEF WithExt

\* hasNon83Name() refuses exactly the names that are no base with an extension, of any
\* length, for any limits and any set of bad characters that has the dot.
THEOREM DosNamesAlwaysTold == Spec => []DosNamesTold
<1>1. ASSUME NEW name \in PlainNames PROVE HasNon83Name(name) <=> ~IsDosName(name)
  <2> DEFINE s == ScanName(name)[Len(name)]
             n == Len(name)
  <2>1. name \in Seq(STRING)
    BY NameAssumption
  <2>2. Knows(s, name, n)
    BY <2>1, ScanKnows
  <2>3. s.bad <=> ~(Base(name, n) \/ \E d \in 1 .. n : WithExt(name, d, n))
    BY <2>2 DEF Knows
  <2> QED
    BY <2>1, <2>3, DosNameParts DEF HasNon83Name
<1>2. JobInv => DosNamesTold
  BY <1>1 DEF JobInv, DosNamesTold
<1> QED
  BY <1>2, JobAlways, PTL

-----------------------------------------------------------------------------
(* Patterns *)

\* Whether the rest of a pattern compares with the name, from each place on.
Rows(name) == [1 .. Len(name) + 1 -> BOOLEAN]

\* What one character of the pattern makes of it, a * without its loop.
OtherRow(c, name, rest, j) ==
  LET end == Len(name) + 1
  IN  CASE c = "?" -> \/ j = end
                      \/ name[j] = "." /\ rest[j]
                      \/ name[j] # "." /\ rest[j + 1]
        [] c = "." -> \/ j = end /\ rest[j]
                      \/ j < end /\ name[j] = "." /\ rest[j + 1]
        [] OTHER -> j < end /\ Lower(c) = Lower(name[j]) /\ rest[j + 1]

Row(c, name, rest, j) ==
  IF c = "*" THEN \E k \in j .. Len(name) + 1 : rest[k] ELSE OtherRow(c, name, rest, j)

\* A row holds truth values.
LEMMA RowType ==
  ASSUME NEW c, NEW name, NEW rest, NEW j
  PROVE  Row(c, name, rest, j) \in BOOLEAN
<1>1. CASE c = "*"
  BY <1>1 DEF Row
<1>2. CASE c = "?"
  BY <1>2 DEF Row, OtherRow
<1>3. CASE c = "."
  BY <1>3 DEF Row, OtherRow
<1>4. CASE c \notin {"*", "?", "."}
  BY <1>4 DEF Row, OtherRow
<1> QED
  BY <1>1, <1>2, <1>3, <1>4

\* The loop of a * looks at every place from here to the end.
LEMMA StarRow ==
  ASSUME NEW end \in Nat \ {0}, NEW rest \in [1 .. end -> BOOLEAN], NEW g,
         \A j \in 1 .. end : g[j] = ((j < end /\ g[j + 1]) \/ rest[j])
  PROVE  \A j \in 1 .. end : g[j] = \E k \in j .. end : rest[k]
<1> DEFINE R(j) == \E k \in j .. end : rest[k]
<1>1. ASSUME NEW j \in 1 .. end PROVE R(j) <=> (j < end /\ R(j + 1)) \/ rest[j]
  <2>1. \A k : k \in j .. end <=> k = j \/ (j < end /\ k \in j + 1 .. end)
    OBVIOUS
  <2> QED
    BY <2>1
<1> DEFINE T == {m \in 0 .. end - 1 : g[end - m] = R(end - m)}
<1> HIDE DEF R
<1>2. 0 \in T
  <2>1. end - 0 = end /\ end \in 1 .. end /\ 0 \in 0 .. end - 1
    OBVIOUS
  <2>2. g[end] = rest[end]
    BY <2>1
  <2>3. R(end) = rest[end]
    <3>1. R(end) <=> rest[end]
      BY <1>1, <2>1
    <3>2. R(end) \in BOOLEAN /\ rest[end] \in BOOLEAN
      BY <2>1 DEF R
    <3> QED
      BY <3>1, <3>2
  <2> QED
    BY <2>1, <2>2, <2>3
<1>3. ASSUME NEW m \in 1 .. end - 1, m - 1 \in T PROVE m \in T
  <2> DEFINE j == end - m
  <2>1. j \in 1 .. end /\ j < end /\ end - (m - 1) = j + 1 /\ m \in 0 .. end - 1
    OBVIOUS
  <2>2. g[j + 1] = R(j + 1)
    BY <1>3, <2>1
  <2> HIDE DEF j
  <2>3. g[j] = (g[j + 1] \/ rest[j])
    BY <2>1
  <2>4. R(j) \in BOOLEAN /\ R(j + 1) \in BOOLEAN
    BY DEF R
  <2>5. g[j] = R(j)
    BY <1>1, <2>1, <2>2, <2>3, <2>4
  <2> QED
    BY <2>1, <2>5 DEF j
<1>4. T = 0 .. end - 1
  <2>1. T \in SUBSET (0 .. end - 1) /\ end - 1 \in Nat
    OBVIOUS
  <2> DEFINE n == end - 1
  <2>2. \A m \in 1 .. n : m - 1 \in T => m \in T
    BY <1>3
  <2> HIDE DEF T, n
  <2>3. n \in Nat /\ T \in SUBSET (0 .. n) /\ 0 \in T
    BY <1>2, <2>1 DEF n
  <2>4. T = 0 .. n
    BY <2>2, <2>3, Induction
  <2> QED
    BY <2>4 DEF n
<1>5. ASSUME NEW j \in 1 .. end PROVE g[j] = R(j)
  <2>1. end - j \in 0 .. end - 1 /\ end - (end - j) = j
    OBVIOUS
  <2>2. end - j \in T
    BY <1>4, <2>1
  <2> QED
    BY <2>1, <2>2
<1> QED
  BY <1>5 DEF R

\* Compared(), the loop of a * included, gives just these rows.
LEMMA ComparedIs ==
  ASSUME NEW c, NEW name \in Seq(STRING), NEW rest \in Rows(name)
  PROVE  Compared(c, name, rest) = [j \in 1 .. Len(name) + 1 |-> Row(c, name, rest, j)]
<1> DEFINE end == Len(name) + 1
           Next1(f, j) ==
             CASE c = "*" -> (j < end /\ f[j + 1]) \/ rest[j]
               [] c = "?" -> \/ j = end
                             \/ name[j] = "." /\ rest[j]
                             \/ name[j] # "." /\ rest[j + 1]
               [] c = "." -> \/ j = end /\ rest[j]
                             \/ j < end /\ name[j] = "." /\ rest[j + 1]
               [] OTHER -> j < end /\ Lower(c) = Lower(name[j]) /\ rest[j + 1]
           Def(f) == f = [j \in 1 .. end |-> Next1(f, j)]
           row == [j \in 1 .. end |-> Row(c, name, rest, j)]
<1>1. end \in Nat \ {0} /\ rest \in [1 .. end -> BOOLEAN]
  BY DEF Rows
<1>2. ASSUME c = "*", NEW f PROVE \A j : Next1(f, j) = ((j < end /\ f[j + 1]) \/ rest[j])
  BY <1>2
<1>3. ASSUME c # "*", NEW f PROVE \A j : Next1(f, j) = Row(c, name, rest, j)
  <2> SUFFICES ASSUME NEW j PROVE Next1(f, j) = Row(c, name, rest, j)
    OBVIOUS
  <2>1. CASE c = "?"
    BY <2>1 DEF Row, OtherRow
  <2>2. CASE c = "."
    BY <2>2 DEF Row, OtherRow
  <2>3. CASE c \notin {"*", "?", "."}
    BY <2>3 DEF Row, OtherRow
  <2> QED
    BY <1>3, <2>1, <2>2, <2>3
<1> HIDE DEF Next1, end
<1>4. Def(row)
  <2>1. CASE c = "*"
    <3>1. ASSUME NEW j \in 1 .. end PROVE row[j] = ((j < end /\ row[j + 1]) \/ rest[j])
      <4>1. row[j] = \E k \in j .. end : rest[k]
        BY <2>1 DEF Row, end
      <4>2. j < end => row[j + 1] = \E k \in j + 1 .. end : rest[k]
        <5> SUFFICES ASSUME j < end PROVE row[j + 1] = \E k \in j + 1 .. end : rest[k]
          OBVIOUS
        <5>1. j + 1 \in 1 .. end
          BY <1>1
        <5> QED
          BY <2>1, <5>1 DEF Row, end
      <4>3. \A k : k \in j .. end <=> k = j \/ (j < end /\ k \in j + 1 .. end)
        BY <1>1
      <4>4. (\E k \in j .. end : rest[k]) = ((j < end /\ \E k \in j + 1 .. end : rest[k]) \/ rest[j])
        <5>1. (\E k \in j .. end : rest[k]) <=> ((j < end /\ \E k \in j + 1 .. end : rest[k]) \/ rest[j])
          BY <4>3
        <5> QED
          BY <5>1, Zenon
      <4> HIDE DEF row
      <4> QED
        BY <4>1, <4>2, <4>4
    <3>2. \A j \in 1 .. end : row[j] = Next1(row, j)
      <4> HIDE DEF row
      <4> QED
        BY <1>2, <2>1, <3>1
    <3>3. row = [j \in 1 .. end |-> row[j]]
      OBVIOUS
    <3> HIDE DEF row
    <3> QED
      BY <3>2, <3>3, Zenon
  <2>2. CASE c # "*"
    <3>1. \A j \in 1 .. end : Row(c, name, rest, j) = Next1(row, j)
      <4> HIDE DEF row
      <4> QED
        BY <1>3, <2>2
    <3>2. [j \in 1 .. end |-> Row(c, name, rest, j)] = [j \in 1 .. end |-> Next1(row, j)]
      <4> HIDE DEF row
      <4> QED
        BY <3>1, Zenon
    <3> QED
      BY <3>2
  <2> QED
    BY <2>1, <2>2
<1> DEFINE g == CHOOSE h : Def(h)
<1>5. Compared(c, name, rest) = g
  BY DEF Compared, Next1, end
<1>6. Def(g)
  <2> HIDE DEF Def
  <2> QED
    BY <1>4
<1> HIDE DEF g
<1>7. \A j \in 1 .. end : g[j] = Row(c, name, rest, j)
  <2>1. CASE c = "*"
    <3>1. \A j \in 1 .. end : g[j] = ((j < end /\ g[j + 1]) \/ rest[j])
      BY <1>2, <1>6, <2>1
    <3>2. \A j \in 1 .. end : g[j] = \E k \in j .. end : rest[k]
      BY <1>1, <3>1, StarRow
    <3> QED
      BY <2>1, <3>2 DEF Row, end
  <2>2. CASE c # "*"
    BY <1>3, <1>6, <2>2
  <2> QED
    BY <2>1, <2>2
<1>8. g = [j \in 1 .. end |-> g[j]]
  BY <1>6
<1>9. g = row
  BY <1>7, <1>8, Zenon
<1> QED
  BY <1>5, <1>9 DEF end

\* Compared() turns rows into rows, and says of each place what the character can stand for.
LEMMA ComparedStands ==
  ASSUME NEW c, NEW name \in Seq(STRING), NEW rest \in Rows(name)
  PROVE  /\ Compared(c, name, rest) \in Rows(name)
         /\ \A t \in 0 .. Len(name) :
              Compared(c, name, rest)[t + 1] <=>
                \/ \E to \in 0 .. Len(name) : Stands(c, name, t, to) /\ rest[to + 1]
                \/ c = "?" /\ t = Len(name)
<1> DEFINE n   == Len(name)
           row == Compared(c, name, rest)
<1>1. row = [j \in 1 .. n + 1 |-> Row(c, name, rest, j)] /\ n \in Nat
  BY ComparedIs
<1> HIDE DEF row
<1>2. row \in Rows(name)
  BY <1>1, RowType DEF Rows
<1>3. ASSUME NEW t \in 0 .. n
      PROVE  row[t + 1] <=> \/ \E to \in 0 .. n : Stands(c, name, t, to) /\ rest[to + 1]
                            \/ c = "?" /\ t = n
  <2>1. t + 1 \in 1 .. n + 1 /\ row[t + 1] = Row(c, name, rest, t + 1)
    BY <1>1
  <2>2. CASE c = "*"
    <3>1. row[t + 1] = \E k \in t + 1 .. n + 1 : rest[k]
      BY <2>1, <2>2 DEF Row
    <3>2. \A to : Stands(c, name, t, to) <=> t =< to
      BY <2>2 DEF Stands
    <3>3. (\E k \in t + 1 .. n + 1 : rest[k]) <=> \E to \in 0 .. n : t =< to /\ rest[to + 1]
      <4>1. ASSUME NEW k \in t + 1 .. n + 1, rest[k] PROVE \E to \in 0 .. n : t =< to /\ rest[to + 1]
        <5>1. k - 1 \in 0 .. n /\ t =< k - 1 /\ k - 1 + 1 = k
          BY <1>1
        <5> QED
          BY <4>1, <5>1
      <4>2. ASSUME NEW to \in 0 .. n, t =< to PROVE to + 1 \in t + 1 .. n + 1
        BY <1>1, <4>2
      <4> QED
        BY <4>1, <4>2
    <3> QED
      BY <2>2, <3>1, <3>2, <3>3
  <2>3. CASE c = "?"
    <3>1. row[t + 1] <=> \/ t = n
                         \/ name[t + 1] = "." /\ rest[t + 1]
                         \/ name[t + 1] # "." /\ rest[t + 2]
      BY <1>1, <2>1, <2>3 DEF Row, OtherRow
    <3>2. \A to \in 0 .. n : Stands(c, name, t, to) <=>
                               \/ t = to /\ (t = n \/ name[to + 1] = ".")
                               \/ to = t + 1 /\ name[to] # "."
      BY <2>3 DEF Stands
    <3>3. CASE t = n
      BY <2>3, <3>1, <3>3
    <3>4. CASE t # n
      <4>1. t + 1 \in 0 .. n /\ t + 1 + 1 = t + 2
        BY <1>1, <3>4
      <4> QED
        BY <3>1, <3>2, <3>4, <4>1
    <3> QED
      BY <3>3, <3>4
  <2>4. CASE c = "."
    <3>1. row[t + 1] <=> \/ t = n /\ rest[t + 1]
                         \/ t # n /\ name[t + 1] = "." /\ rest[t + 2]
      BY <1>1, <2>1, <2>4 DEF Row, OtherRow
    <3>2. \A to \in 0 .. n : Stands(c, name, t, to) <=>
                               (t = to /\ t = n) \/ (to = t + 1 /\ name[to] = ".")
      BY <2>4 DEF Stands
    <3>3. t # n => t + 1 \in 0 .. n /\ t + 1 + 1 = t + 2
      BY <1>1
    <3>4. t = n => t + 1 \notin 0 .. n
      BY <1>1
    <3> QED
      BY <2>4, <3>1, <3>2, <3>3, <3>4
  <2>5. CASE c \notin {"*", "?", "."}
    <3>1. row[t + 1] <=> t # n /\ Lower(c) = Lower(name[t + 1]) /\ rest[t + 2]
      <4>1. Row(c, name, rest, t + 1) =
              (t + 1 < n + 1 /\ Lower(c) = Lower(name[t + 1]) /\ rest[t + 1 + 1])
        BY <2>5 DEF Row, OtherRow
      <4>2. (t + 1 < n + 1 <=> t # n) /\ t + 1 + 1 = t + 2
        BY <1>1
      <4> QED
        BY <2>1, <4>1, <4>2
    <3>2. \A to \in 0 .. n : Stands(c, name, t, to) <=> to = t + 1 /\ Lower(name[to]) = Lower(c)
      BY <2>5 DEF Stands
    <3>3. t # n => t + 1 \in 0 .. n /\ t + 1 + 1 = t + 2
      BY <1>1
    <3>4. t = n => t + 1 \notin 0 .. n
      BY <1>1
    <3> QED
      BY <2>5, <3>1, <3>2, <3>3, <3>4
  <2> QED
    BY <2>2, <2>3, <2>4, <2>5
<1> QED
  BY <1>2, <1>3 DEF row

\* So does the end of the pattern.
LEMMA LeftOverRow ==
  ASSUME NEW name \in Seq(STRING)
  PROVE  LeftOver(name) \in Rows(name)
BY DEF LeftOver, Rows

\* The comparison, from the end of the pattern back.
LEMMA ComparisonUnfolds ==
  ASSUME NEW exp \in Seq(STRING), NEW name \in Seq(STRING)
  PROVE  /\ Comparison(exp, name)[Len(exp) + 1] = LeftOver(name)
         /\ \A k \in 1 .. Len(exp) :
              /\ Comparison(exp, name)[k + 1] \in Rows(name)
              /\ Comparison(exp, name)[k] = Compared(exp[k], name, Comparison(exp, name)[k + 1])
<1> DEFINE n      == Len(exp)
           S      == Rows(name)
           start  == LeftOver(name)
           Go(k, rest) == Compared(exp[k], name, rest)
           Step   == [k \in 1 .. n |-> [rest \in S |-> Go(k, rest)]]
           Def(f) == f = [k \in 1 .. n + 1 |-> IF k > n THEN start ELSE Go(k, f[k + 1])]
<1>1. n \in Nat /\ start \in S
  BY LeftOverRow
<1>2. \A k \in 1 .. n, rest \in S : Go(k, rest) \in S
  BY ComparedStands
<1> HIDE DEF n, S, start, Go
<1>3. Step \in [1 .. n -> [S -> S]]
  BY <1>2
<1>4. PICK f : RunsBack(f, n, S, start, Step)
  <2> HIDE DEF Step
  <2> QED
    BY <1>1, <1>3, LoopBackExists
<1>5. f \in [1 .. n + 1 -> S] /\ f[n + 1] = start /\ \A k \in 1 .. n : f[k] = Step[k][f[k + 1]]
  <2> HIDE DEF Step
  <2> QED
    BY <1>4 DEF RunsBack
<1>6. Def(f)
  <2>1. ASSUME NEW k \in 1 .. n + 1 PROVE f[k] = IF k > n THEN start ELSE Go(k, f[k + 1])
    <3>1. CASE k > n
      <4>1. k = n + 1
        BY <1>1, <3>1
      <4> QED
        BY <1>5, <3>1, <4>1
    <3>2. CASE ~(k > n)
      <4>1. k \in 1 .. n /\ k + 1 \in 1 .. n + 1
        BY <1>1, <3>2
      <4>2. f[k + 1] \in S
        BY <1>5, <4>1
      <4>3. f[k] = Step[k][f[k + 1]]
        BY <1>5, <4>1
      <4> QED
        BY <3>2, <4>1, <4>2, <4>3
    <3> QED
      BY <3>1, <3>2
  <2>2. f = [k \in 1 .. n + 1 |-> f[k]]
    BY <1>5
  <2> QED
    BY <2>1, <2>2, Zenon
<1> DEFINE g == Comparison(exp, name)
<1>7. g = CHOOSE h : Def(h)
  BY DEF Comparison, n, start, Go
<1>8. Def(g)
  <2> HIDE DEF Def, g
  <2> QED
    BY <1>6, <1>7
<1> HIDE DEF g
<1>9. /\ n + 1 \in 1 .. n + 1 /\ n + 1 > n
      /\ \A k \in 1 .. n : k \in 1 .. n + 1 /\ ~(k > n) /\ k + 1 \in 1 .. n + 1
  BY <1>1
<1>10. g[n + 1] = start /\ \A k \in 1 .. n : g[k] = Go(k, g[k + 1])
  BY <1>8, <1>9
<1>11. \A k \in 1 .. n + 1 : g[k] \in S
  <2> DEFINE T == {m \in 0 .. n : g[n + 1 - m] \in S}
  <2>1. 0 \in T
    BY <1>1, <1>10
  <2>2. ASSUME NEW m \in 1 .. n, m - 1 \in T PROVE m \in T
    <3> DEFINE k == n + 1 - m
    <3>1. k \in 1 .. n /\ n + 1 - (m - 1) = k + 1 /\ m \in 0 .. n
      BY <1>1
    <3>2. g[k + 1] \in S
      BY <2>2, <3>1
    <3> HIDE DEF k
    <3>3. g[k] \in S
      BY <1>2, <1>10, <3>1, <3>2
    <3> QED
      BY <3>1, <3>3 DEF k
  <2>3. T \in SUBSET (0 .. n)
    OBVIOUS
  <2> HIDE DEF T
  <2>4. T = 0 .. n
    BY <1>1, <2>1, <2>2, <2>3, Induction
  <2>5. ASSUME NEW k \in 1 .. n + 1 PROVE g[k] \in S
    <3>1. n + 1 - k \in 0 .. n /\ n + 1 - (n + 1 - k) = k
      BY <1>1
    <3>2. n + 1 - k \in T
      BY <2>4, <3>1
    <3> QED
      BY <3>1, <3>2 DEF T
  <2> QED
    BY <2>5
<1> QED
  BY <1>9, <1>10, <1>11 DEF g, n, S, start, Go

\* What the first characters of a pattern can stand for, one by one.
LEMMA TailsUnfold ==
  ASSUME NEW exp \in Seq(STRING), NEW name \in Seq(STRING)
  PROVE  /\ Tails(exp, name)[0] = {0}
         /\ \A k \in 0 .. Len(exp) : Tails(exp, name)[k] \in SUBSET (0 .. Len(name))
         /\ \A k \in 1 .. Len(exp) :
              Tails(exp, name)[k] =
                {to \in 0 .. Len(name) : \E from \in Tails(exp, name)[k - 1] : Stands(exp[k], name, from, to)}
<1> DEFINE n      == Len(exp)
           S      == SUBSET (0 .. Len(name))
           start  == {0}
           Go(k, s) == {to \in 0 .. Len(name) : \E from \in s : Stands(exp[k], name, from, to)}
           Step   == [k \in 1 .. n |-> [s \in S |-> Go(k, s)]]
           Def(f) == f = [k \in 0 .. n |-> IF k = 0 THEN start ELSE Go(k, f[k - 1])]
<1>1. n \in Nat /\ start \in S /\ \A k \in 1 .. n, s \in S : Go(k, s) \in S
  OBVIOUS
<1> HIDE DEF n, S, start, Go
<1>2. Step \in [1 .. n -> [S -> S]]
  BY <1>1
<1>3. PICK f : Runs(f, n, S, start, Step)
  <2> HIDE DEF Step
  <2> QED
    BY <1>1, <1>2, LoopExists
<1>4. /\ f = [k \in 0 .. n |-> f[k]] /\ f[0] = start
      /\ \A k \in 0 .. n : k = 0 \/ k \in 1 .. n
      /\ \A k \in 1 .. n : f[k] = Step[k][f[k - 1]] /\ f[k - 1] \in S
  <2> HIDE DEF Step
  <2> QED
    BY <1>1, <1>3, RunsFacts
<1>5. Def(f)
  <2>1. \A k \in 0 .. n : f[k] = IF k = 0 THEN start ELSE Go(k, f[k - 1])
    BY <1>4
  <2> QED
    BY <1>4, <2>1, Zenon
<1> DEFINE g == Tails(exp, name)
<1>6. g = CHOOSE h : Def(h)
  BY DEF Tails, n, start, Go
<1>7. Def(g)
  <2> HIDE DEF Def, g
  <2> QED
    BY <1>5, <1>6
<1> HIDE DEF g
<1>8. 0 \in 0 .. n /\ \A k \in 1 .. n : k \in 0 .. n /\ k # 0
  BY <1>1
<1>9. g[0] = start /\ \A k \in 1 .. n : g[k] = Go(k, g[k - 1])
  BY <1>7, <1>8
<1>10. \A k \in 0 .. n : k = 0 \/ k \in 1 .. n
  BY <1>1
<1>11. \A k \in 0 .. n : g[k] \in S
  <2>1. \A k \in 1 .. n : Go(k, g[k - 1]) \in S
    BY DEF Go, S
  <2> QED
    BY <1>1, <1>9, <1>10, <2>1
<1> QED
  BY <1>9, <1>11 DEF g, n, S, start, Go

\* Where the comparison finds a name, after k characters of the pattern: the rest of the
\* pattern compares with the rest of the name, or a ? was at the end of the name.
LEMMA NameMatchesRules ==
  ASSUME NEW exp \in Seq(STRING), NEW name \in Seq(STRING)
  PROVE  NameMatches(exp, name) <=>
           \/ MatchesRules(exp, name)
           \/ \E i \in 1 .. Len(exp) : exp[i] = "?" /\ Len(name) \in Tails(exp, name)[i - 1]
<1> DEFINE n     == Len(exp)
           end   == Len(name)
           match == Comparison(exp, name)
           tails == Tails(exp, name)
           Goes(k)   == \E t \in tails[k] : match[k + 1][t + 1]
           Forgot(k) == \E i \in 1 .. k : exp[i] = "?" /\ end \in tails[i - 1]
           Holds(k)  == match[1][1] <=> Goes(k) \/ Forgot(k)
<1>1. /\ match[n + 1] = LeftOver(name)
      /\ \A k \in 1 .. n : match[k + 1] \in Rows(name) /\ match[k] = Compared(exp[k], name, match[k + 1])
  BY ComparisonUnfolds
<1>2. /\ tails[0] = {0}
      /\ \A k \in 0 .. n : tails[k] \in SUBSET (0 .. end)
      /\ \A k \in 1 .. n :
           tails[k] = {to \in 0 .. end : \E from \in tails[k - 1] : Stands(exp[k], name, from, to)}
  BY TailsUnfold
<1> HIDE DEF match, tails
<1>3. n \in Nat /\ end \in Nat
  OBVIOUS
<1>4. Holds(0)
  <2>1. Goes(0) <=> match[1][1]
    BY <1>2
  <2>2. ~Forgot(0)
    OBVIOUS
  <2> QED
    BY <2>1, <2>2
<1>5. ASSUME NEW k \in 1 .. n, Holds(k - 1) PROVE Holds(k)
  <2>1. k - 1 \in 0 .. n /\ k - 1 + 1 = k
    BY <1>3
  <2>2. ASSUME NEW t \in tails[k - 1]
        PROVE  match[k][t + 1] <=> \/ \E to \in 0 .. end : Stands(exp[k], name, t, to) /\ match[k + 1][to + 1]
                                   \/ exp[k] = "?" /\ t = end
    <3>1. t \in 0 .. end
      BY <1>2, <2>1
    <3>2. match[k + 1] \in Rows(name) /\ match[k] = Compared(exp[k], name, match[k + 1])
      BY <1>1
    <3> DEFINE c    == exp[k]
               rest == match[k + 1]
    <3>3. rest \in Rows(name)
      BY <3>2
    <3> HIDE DEF c, rest
    <3>4. Compared(c, name, rest)[t + 1] <=>
            \/ \E to \in 0 .. Len(name) : Stands(c, name, t, to) /\ rest[to + 1]
            \/ c = "?" /\ t = Len(name)
      BY <3>1, <3>3, ComparedStands
    <3> QED
      BY <3>2, <3>4 DEF c, rest
  <2>3. Goes(k - 1) <=> \E t \in tails[k - 1] : match[k][t + 1]
    BY <2>1
  <2>4. Goes(k) <=> \E to \in 0 .. end : /\ \E t \in tails[k - 1] : Stands(exp[k], name, t, to)
                                         /\ match[k + 1][to + 1]
    BY <1>2
  <2>5. Goes(k - 1) <=> Goes(k) \/ (exp[k] = "?" /\ end \in tails[k - 1])
    <3> HIDE DEF Goes, end
    <3> QED
      BY <2>2, <2>3, <2>4
  <2>6. \A i : i \in 1 .. k <=> i \in 1 .. k - 1 \/ i = k
    BY <1>3
  <2>7. Forgot(k) <=> Forgot(k - 1) \/ (exp[k] = "?" /\ end \in tails[k - 1])
    BY <2>6
  <2> HIDE DEF Goes, Forgot
  <2> QED
    BY <1>5, <2>5, <2>7
<1>6. Holds(n)
  <2> DEFINE T == {k \in 0 .. n : Holds(k)}
  <2> HIDE DEF Holds, n
  <2>1. 0 \in T /\ \A k \in 1 .. n : k - 1 \in T => k \in T
    BY <1>3, <1>4, <1>5
  <2>2. T \in SUBSET (0 .. n)
    OBVIOUS
  <2> HIDE DEF T
  <2>3. T = 0 .. n
    BY <1>3, <2>1, <2>2, Induction
  <2>4. n \in T
    BY <1>3, <2>3
  <2> QED
    BY <2>4 DEF T
<1>7. Goes(n) <=> MatchesRules(exp, name)
  <2>1. ASSUME NEW t \in tails[n] PROVE LeftOver(name)[t + 1] <=> \A k \in t + 1 .. end : name[k] = "."
    <3>1. t + 1 \in 1 .. end + 1
      BY <1>2, <1>3
    <3> QED
      BY <3>1 DEF LeftOver
  <2>2. MatchesRules(exp, name) <=> \E t \in tails[n] : \A k \in t + 1 .. end : name[k] = "."
    BY DEF MatchesRules, tails
  <2> HIDE DEF n, end
  <2> QED
    BY <1>1, <2>1, <2>2
<1>8. NameMatches(exp, name) = match[1][1]
  BY DEF NameMatches, match
<1> QED
  BY <1>6, <1>7, <1>8 DEF tails

\* When a ? meets the end of the name and only ?, * and dots follow it, these stand for
\* nothing, and the name matches by the rules.
LEMMA EndMatches ==
  ASSUME NEW exp \in Seq(STRING), NEW name \in Seq(STRING), NEW i \in 1 .. Len(exp),
         exp[i] = "?", Len(name) \in Tails(exp, name)[i - 1],
         \A j \in 1 .. Len(exp) : i < j => exp[j] \in {"?", "*", "."}
  PROVE  MatchesRules(exp, name)
<1> DEFINE n     == Len(exp)
           end   == Len(name)
           tails == Tails(exp, name)
           T     == {k \in 0 .. n : k >= i - 1 => end \in tails[k]}
<1>1. /\ tails[0] = {0}
      /\ \A k \in 1 .. n :
           tails[k] = {to \in 0 .. end : \E from \in tails[k - 1] : Stands(exp[k], name, from, to)}
  BY TailsUnfold
<1>2. n \in Nat /\ end \in Nat /\ i \in 1 .. n /\ end \in tails[i - 1]
  OBVIOUS
<1>3. \A c \in {"?", "*", "."} : Stands(c, name, end, end)
  BY <1>2 DEF Stands
<1>4. \A k \in 1 .. n : k >= i => Stands(exp[k], name, end, end)
  BY <1>2, <1>3
<1> HIDE DEF tails, n, end
<1>5. 0 \in T
  BY <1>2
<1>6. ASSUME NEW k \in 1 .. n, k - 1 \in T PROVE k \in T
  <2>1. CASE k = i - 1
    BY <1>2, <2>1
  <2>2. CASE k >= i
    <3>1. end \in tails[k - 1] /\ end \in 0 .. end /\ Stands(exp[k], name, end, end)
      BY <1>2, <1>4, <1>6, <2>2
    <3>2. end \in tails[k]
      BY <1>1, <3>1
    <3> QED
      BY <3>2
  <2> QED
    BY <1>2, <2>1, <2>2
<1>7. T = 0 .. n
  <2>1. T \in SUBSET (0 .. n)
    OBVIOUS
  <2> HIDE DEF T
  <2> QED
    BY <1>2, <1>5, <1>6, <2>1, Induction
<1>8. end \in tails[n]
  BY <1>2, <1>7
<1>9. end + 1 .. end = {}
  BY <1>2
<1> QED
  BY <1>8, <1>9 DEF MatchesRules, tails, n, end

\* A search misses no name that the meta-character rules give it, and finds more only
\* where a ? meets the end of a name that should go on (find.c:54), for patterns and
\* names of any length.
THEOREM PatternsAlwaysMatch == Spec => []PatternsMatch
<1>1. JobInv => PatternsMatch
  <2> SUFFICES ASSUME JobInv, job.kind = "pattern" PROVE PatternsMatch
    BY DEF PatternsMatch
  <2>1. job.exp \in Seq(STRING) /\ job.name \in Seq(STRING)
    BY PatternAssumption DEF JobInv
  <2>2. NameMatches(job.exp, job.name) <=>
          \/ MatchesRules(job.exp, job.name)
          \/ \E i \in 1 .. Len(job.exp) :
               job.exp[i] = "?" /\ Len(job.name) \in Tails(job.exp, job.name)[i - 1]
    BY <2>1, NameMatchesRules
  <2>3. ASSUME NEW i \in 1 .. Len(job.exp), job.exp[i] = "?",
               Len(job.name) \in Tails(job.exp, job.name)[i - 1],
               ~RunsShort(job.exp, job.name)
        PROVE  MatchesRules(job.exp, job.name)
    <3>1. \A j \in 1 .. Len(job.exp) : i < j => job.exp[j] \in {"?", "*", "."}
      BY <2>3 DEF RunsShort
    <3> QED
      BY <2>1, <2>3, <3>1, EndMatches
  <2> QED
    BY <2>2, <2>3 DEF PatternsMatch
<1> QED
  BY <1>1, JobAlways, PTL

-----------------------------------------------------------------------------
(* Extended attributes *)

CbEa(cbName) == CbFea + cbName + CbNul

\* The size of a list grows by the size of each attribute.
LEMMA ListSizesUnfold ==
  ASSUME NEW names \in Seq(Nat)
  PROVE  /\ ListSizes(names)[0] = CbList
         /\ \A k \in 0 .. Len(names) : ListSizes(names)[k] \in Nat
         /\ \A k \in 1 .. Len(names) : ListSizes(names)[k] = ListSizes(names)[k - 1] + CbEa(names[k])
<1> DEFINE n      == Len(names)
           Step   == [k \in 1 .. n |-> [s \in Nat |-> s + CbFea + names[k] + CbNul]]
           Def(f) == f = [k \in 0 .. n |-> IF k = 0 THEN CbList ELSE f[k - 1] + CbFea + names[k] + CbNul]
<1>1. Step \in [1 .. n -> [Nat -> Nat]] /\ n \in Nat /\ CbList \in Nat
  <2>1. \A k \in 1 .. n : names[k] \in Nat
    OBVIOUS
  <2> QED
    BY <2>1 DEF CbFea, CbNul, CbList
<1>2. PICK f : Runs(f, n, Nat, CbList, Step)
  <2> HIDE DEF Step, n
  <2> QED
    BY <1>1, LoopExists
<1>3. Def(f)
  <2>1. /\ f = [k \in 0 .. n |-> f[k]] /\ f[0] = CbList
        /\ \A k \in 0 .. n : k = 0 \/ k \in 1 .. n
        /\ \A k \in 1 .. n : f[k] = Step[k][f[k - 1]] /\ f[k - 1] \in Nat
    <3> DEFINE S == Nat
    <3>1. Runs(f, n, S, CbList, Step)
      BY <1>2
    <3> HIDE DEF n, Step, S
    <3>2. /\ f = [k \in 0 .. n |-> f[k]] /\ f[0] = CbList
          /\ \A k \in 0 .. n : k = 0 \/ k \in 1 .. n
          /\ \A k \in 1 .. n : f[k] = Step[k][f[k - 1]] /\ f[k - 1] \in S
      BY <1>1, <3>1, RunsFacts
    <3> QED
      BY <3>2 DEF S
  <2> HIDE DEF n
  <2>2. \A k \in 1 .. n : f[k] = f[k - 1] + CbFea + names[k] + CbNul
    BY <2>1
  <2>3. \A k \in 0 .. n : f[k] = IF k = 0 THEN CbList ELSE f[k - 1] + CbFea + names[k] + CbNul
    BY <2>1, <2>2
  <2> QED
    BY <2>1, <2>3, Zenon
<1>4. ListSizes(names) = CHOOSE g : Def(g)
  BY DEF ListSizes
<1>5. Def(ListSizes(names))
  <2> HIDE DEF Def
  <2> QED
    BY <1>3, <1>4
<1> DEFINE g == ListSizes(names)
<1> HIDE DEF g
<1>6. g = [k \in 0 .. n |-> IF k = 0 THEN CbList ELSE g[k - 1] + CbFea + names[k] + CbNul]
  BY <1>5 DEF g
<1>7. /\ \A k \in 1 .. n : k \in 0 .. n /\ k # 0 /\ names[k] \in Nat
      /\ 0 \in 0 .. n
  OBVIOUS
<1>8. g[0] = CbList /\ \A k \in 1 .. n : g[k] = g[k - 1] + CbFea + names[k] + CbNul
  <2> HIDE DEF n
  <2> QED
    BY <1>6, <1>7
<1>9. \A k \in 0 .. n : g[k] \in Nat
  <2> DEFINE T == {k \in 0 .. n : g[k] \in Nat}
  <2>1. 0 \in T
    BY <1>1, <1>7, <1>8
  <2>2. ASSUME NEW k \in 1 .. n, k - 1 \in T PROVE k \in T
    <3>1. g[k - 1] \in Nat /\ names[k] \in Nat /\ k \in 0 .. n
      BY <1>7, <2>2
    <3>2. g[k] = g[k - 1] + CbFea + names[k] + CbNul
      BY <1>8
    <3>3. g[k] \in Nat
      <4> HIDE DEF n
      <4> QED
        BY <3>1, <3>2 DEF CbFea, CbNul
    <3> QED
      BY <3>1, <3>3
  <2>3. T \in SUBSET (0 .. n)
    OBVIOUS
  <2> HIDE DEF T, n
  <2>4. T = 0 .. n
    BY <1>1, <2>1, <2>2, <2>3, Induction
  <2> QED
    BY <2>4 DEF T
<1>10. ASSUME NEW k \in 1 .. n PROVE g[k] = g[k - 1] + CbEa(names[k])
  <2>1. k - 1 \in 0 .. n
    OBVIOUS
  <2>2. g[k - 1] \in Nat /\ names[k] \in Nat /\ g[k] = g[k - 1] + CbFea + names[k] + CbNul
    BY <1>7, <1>8, <1>9, <2>1
  <2> DEFINE a == g[k - 1]
             b == names[k]
  <2>3. a \in Nat /\ b \in Nat /\ g[k] = a + CbFea + b + CbNul
    BY <2>2
  <2> HIDE DEF n, a, b
  <2>4. g[k] = a + CbEa(b)
    BY <2>3 DEF CbEa, CbFea, CbNul
  <2> QED
    BY <2>4 DEF a, b
<1> QED
  BY <1>8, <1>9, <1>10 DEF g

StoreStates == [rc : {"NO_ERROR", "BUFFER_OVERFLOW"}, cbData : Nat]

\* storeEA() leads from states of the loop to states.
LEMMA StoreEAType ==
  ASSUME NEW s \in StoreStates, NEW cbName \in Nat
  PROVE  StoreEA(s, cbName) \in StoreStates
BY DEF StoreStates, StoreEA, CbFea, CbNul

\* The loop over the names stores them for as long as the list still fits.
LEMMA StoresWhatFits ==
  ASSUME NEW names \in Seq(Nat), NEW cbData \in Nat
  PROVE  LET all == StoreEAs(names, cbData)
         IN  /\ all.rc \in {"NO_ERROR", "BUFFER_OVERFLOW"}
             /\ all.rc = "NO_ERROR" <=> ListSize(names) - CbList =< cbData
             /\ all.rc = "NO_ERROR" => all.cbData = cbData - (ListSize(names) - CbList)
<1> DEFINE n     == Len(names)
           start == [rc |-> "NO_ERROR", cbData |-> cbData]
           Step  == [k \in 1 .. n |-> [s \in StoreStates |-> StoreEA(s, names[k])]]
           Def(f) == f = [k \in 0 .. n |-> IF k = 0 THEN start ELSE StoreEA(f[k - 1], names[k])]
<1>0. \A k \in 1 .. n : names[k] \in Nat /\ k \in 0 .. n /\ k # 0 /\ k - 1 \in 0 .. n
  OBVIOUS
<1>1. Step \in [1 .. n -> [StoreStates -> StoreStates]] /\ n \in Nat /\ start \in StoreStates
  <2>1. start \in StoreStates
    BY DEF StoreStates
  <2> HIDE DEF start
  <2> QED
    BY <1>0, <2>1, StoreEAType
<1>2. PICK f : Runs(f, n, StoreStates, start, Step)
  <2> HIDE DEF Step, n, start
  <2> QED
    BY <1>1, LoopExists
<1>3. Def(f)
  <2>1. /\ f = [k \in 0 .. n |-> f[k]] /\ f[0] = start
        /\ \A k \in 0 .. n : k = 0 \/ k \in 1 .. n
        /\ \A k \in 1 .. n : f[k] = Step[k][f[k - 1]] /\ f[k - 1] \in StoreStates
    <3> HIDE DEF n, start, Step
    <3> QED
      BY <1>1, <1>2, RunsFacts
  <2> HIDE DEF n, start
  <2>2. \A k \in 1 .. n : f[k] = StoreEA(f[k - 1], names[k])
    BY <2>1
  <2>3. \A k \in 0 .. n : f[k] = IF k = 0 THEN start ELSE StoreEA(f[k - 1], names[k])
    BY <2>1, <2>2
  <2> QED
    BY <2>1, <2>3, Zenon
<1> DEFINE g == CHOOSE g : Def(g)
<1>4. StoreEAs(names, cbData) = g[n]
  BY DEF StoreEAs
<1>5. Def(g)
  <2> HIDE DEF Def
  <2> QED
    BY <1>3
<1> HIDE DEF g
<1>6. g[0] = start /\ \A k \in 1 .. n : g[k] = StoreEA(g[k - 1], names[k])
  <2> HIDE DEF start, n
  <2>1. 0 \in 0 .. n
    BY <1>1
  <2> QED
    BY <1>0, <1>5, <2>1
<1> DEFINE size == ListSizes(names)
           Fine(k) == /\ g[k] \in StoreStates
                      /\ (g[k].rc = "NO_ERROR" <=> size[k] - CbList =< cbData)
                      /\ (g[k].rc = "NO_ERROR" => g[k].cbData = cbData - (size[k] - CbList))
<1>7. /\ size[0] = CbList /\ \A k \in 0 .. n : size[k] \in Nat
      /\ \A k \in 1 .. n : size[k] = size[k - 1] + CbEa(names[k])
  BY ListSizesUnfold
<1> HIDE DEF size
<1>8. Fine(0)
  <2>1. g[0].rc = "NO_ERROR" /\ g[0].cbData = cbData /\ g[0] \in StoreStates
    BY <1>1, <1>6
  <2>2. size[0] - CbList = 0
    BY <1>7 DEF CbList
  <2> QED
    BY <2>1, <2>2
<1>9. ASSUME NEW k \in 1 .. n, Fine(k - 1) PROVE Fine(k)
  <2> DEFINE s == g[k - 1]
             c == CbEa(names[k])
  <2>1. /\ s \in StoreStates /\ names[k] \in Nat /\ c \in Nat
        /\ (s.rc = "NO_ERROR" <=> size[k - 1] - CbList =< cbData)
        /\ (s.rc = "NO_ERROR" => s.cbData = cbData - (size[k - 1] - CbList))
        /\ size[k] = size[k - 1] + c /\ size[k] \in Nat /\ size[k - 1] \in Nat /\ CbList \in Nat
        /\ g[k] = StoreEA(s, names[k])
    <3>1. /\ names[k] \in Nat /\ k \in 0 .. n /\ k - 1 \in 0 .. n
          /\ g[k] = StoreEA(s, names[k])
          /\ size[k] = size[k - 1] + c
      BY <1>0, <1>6, <1>7
    <3>2. size[k] \in Nat /\ size[k - 1] \in Nat
      BY <1>7, <3>1
    <3>3. c \in Nat /\ CbList \in Nat
      BY <3>1 DEF CbEa, CbFea, CbNul, CbList
    <3>4. /\ s \in StoreStates
          /\ (s.rc = "NO_ERROR" <=> size[k - 1] - CbList =< cbData)
          /\ (s.rc = "NO_ERROR" => s.cbData = cbData - (size[k - 1] - CbList))
      BY <1>9, Zenon
    <3> QED
      BY <3>1, <3>2, <3>3, <3>4, Zenon
  <2>2. StoreEA(s, names[k]) = IF s.rc # "NO_ERROR" THEN s
                               ELSE IF s.cbData < c THEN [s EXCEPT !.rc = "BUFFER_OVERFLOW"]
                               ELSE [s EXCEPT !.cbData = s.cbData - c]
    BY DEF StoreEA, CbEa
  <2>3. g[k] \in StoreStates
    BY <2>1, StoreEAType
  <2> HIDE DEF s, c
  <2>4. CASE s.rc # "NO_ERROR"
    <3>1. g[k] = s
      BY <2>1, <2>2, <2>4
    <3>2. ~(size[k - 1] - CbList =< cbData)
      BY <2>1, <2>4
    <3>3. ~(size[k] - CbList =< cbData)
      BY <2>1, <3>2
    <3> QED
      BY <2>3, <2>4, <3>1, <3>3
  <2>5. CASE s.rc = "NO_ERROR" /\ s.cbData < c
    <3>1. g[k].rc = "BUFFER_OVERFLOW"
      BY <2>1, <2>2, <2>5 DEF StoreStates
    <3>2. s.cbData \in Nat
      BY <2>1 DEF StoreStates
    <3>3. s.cbData = cbData - (size[k - 1] - CbList)
      BY <2>1, <2>5
    <3>4. ~(size[k] - CbList =< cbData)
      <4> DEFINE a == size[k - 1]
      <4>1. a \in Nat /\ size[k] = a + c /\ s.cbData = cbData - (a - CbList)
        BY <2>1, <3>3
      <4> HIDE DEF a
      <4> QED
        BY <2>1, <2>5, <3>2, <4>1
    <3> QED
      BY <2>3, <3>1, <3>4
  <2>6. CASE s.rc = "NO_ERROR" /\ ~(s.cbData < c)
    <3>1. g[k].rc = "NO_ERROR" /\ g[k].cbData = s.cbData - c
      BY <2>1, <2>2, <2>6 DEF StoreStates
    <3>2. s.cbData \in Nat
      BY <2>1 DEF StoreStates
    <3>3. s.cbData = cbData - (size[k - 1] - CbList)
      BY <2>1, <2>6
    <3>4. size[k] - CbList =< cbData /\ s.cbData - c = cbData - (size[k] - CbList)
      <4> DEFINE a == size[k - 1]
             t == s.cbData
      <4>1. a \in Nat /\ size[k] = a + c /\ t = cbData - (a - CbList) /\ c \in Nat /\ t \in Nat
        BY <2>1, <3>2, <3>3
      <4>2. ~(t < c)
        BY <2>6
      <4> HIDE DEF a, t
      <4>3. size[k] - CbList =< cbData /\ t - c = cbData - (size[k] - CbList)
        BY <4>1, <4>2 DEF CbList
      <4> QED
        BY <4>3 DEF t
    <3> QED
      BY <2>3, <3>1, <3>4
  <2> QED
    BY <2>4, <2>5, <2>6
<1>10. Fine(n)
  <2> DEFINE T == {k \in 0 .. n : Fine(k)}
  <2> HIDE DEF Fine, n
  <2>1. 0 \in T /\ \A k \in 1 .. n : k - 1 \in T => k \in T
    BY <1>0, <1>1, <1>8, <1>9
  <2>2. T \in SUBSET (0 .. n)
    OBVIOUS
  <2> HIDE DEF T
  <2>3. T = 0 .. n
    BY <1>1, <2>1, <2>2, Induction
  <2>4. n \in T
    BY <1>1, <2>3
  <2> QED
    BY <2>4 DEF T
<1>11. ListSize(names) = size[n]
  BY DEF ListSize, size
<1> QED
  BY <1>4, <1>10, <1>11 DEF StoreStates

\* What the daemon makes of a list of names.
LEMMA DaemonStores ==
  ASSUME NEW gea, gea.names \in Seq(Nat), gea.cbList \in Nat
  PROVE  LET daemon == StoreEAsInFEAList(gea, ListMax)
             size   == ListSize(gea.names)
         IN  /\ size \in Nat
             /\ daemon.rc = "NO_ERROR" <=>
                  CbList =< gea.cbList /\ size =< ListMax /\ gea.cbList = NamesSize(gea.names)
             /\ daemon.cbList = IF daemon.rc = "NO_ERROR" THEN size ELSE 0
<1> DEFINE daemon == StoreEAsInFEAList(gea, ListMax)
           all    == StoreEAs(gea.names, ListMax - CbList)
           size   == ListSize(gea.names)
<1>1. ListMax \in Nat /\ ListMax - CbList \in Nat /\ CbList = 4 /\ ~(ListMax < CbList)
  BY EaAssumption DEF CbList
<1>2. size \in Nat
  <2>1. Len(gea.names) \in 0 .. Len(gea.names)
    OBVIOUS
  <2> QED
    BY <2>1, ListSizesUnfold DEF ListSize
<1>3. /\ all.rc \in {"NO_ERROR", "BUFFER_OVERFLOW"}
      /\ (all.rc = "NO_ERROR" <=> size =< ListMax)
      /\ (all.rc = "NO_ERROR" => all.cbData = ListMax - size)
  <2> DEFINE room == ListMax - CbList
  <2>1. /\ all.rc \in {"NO_ERROR", "BUFFER_OVERFLOW"}
        /\ (all.rc = "NO_ERROR" <=> size - CbList =< room)
        /\ (all.rc = "NO_ERROR" => all.cbData = room - (size - CbList))
    <3>1. room \in Nat
      BY <1>1
    <3> HIDE DEF room
    <3>2. LET a == StoreEAs(gea.names, room)
          IN  /\ a.rc \in {"NO_ERROR", "BUFFER_OVERFLOW"}
              /\ a.rc = "NO_ERROR" <=> ListSize(gea.names) - CbList =< room
              /\ a.rc = "NO_ERROR" => a.cbData = room - (ListSize(gea.names) - CbList)
      BY <3>1, StoresWhatFits
    <3> QED
      BY <3>2 DEF room
  <2> HIDE DEF all, size
  <2> QED
    BY <1>1, <1>2, <2>1
<1>4. daemon.rc = IF gea.cbList < CbList THEN "EA_LIST_INCONSISTENT"
                  ELSE IF all.rc # "NO_ERROR" THEN all.rc
                  ELSE IF gea.cbList # NamesSize(gea.names) THEN "EA_LIST_INCONSISTENT"
                  ELSE "NO_ERROR"
  BY <1>1 DEF StoreEAsInFEAList
<1>5. daemon.cbList = IF daemon.rc = "NO_ERROR" THEN ListMax - all.cbData ELSE 0
  BY <1>1 DEF StoreEAsInFEAList
<1> HIDE DEF all, size, daemon
<1>6. CbList =< gea.cbList <=> ~(gea.cbList < CbList)
  BY <1>1
<1>7. daemon.rc = "NO_ERROR" <=>
        CbList =< gea.cbList /\ size =< ListMax /\ gea.cbList = NamesSize(gea.names)
  BY <1>3, <1>4, <1>6
<1>8. daemon.cbList = IF daemon.rc = "NO_ERROR" THEN size ELSE 0
  BY <1>1, <1>2, <1>3, <1>5, <1>7
<1> QED
  BY <1>2, <1>7, <1>8 DEF daemon, size

\* What the driver makes of a list of attributes.
LEMMA DriverCopies ==
  ASSUME NEW q, q.capacity \in Nat, NEW cbList \in 0 .. ListMax
  PROVE  LET driver == CopyOut(cbList, q)
         IN  /\ driver.copied \in Nat /\ driver.copied =< q.capacity
             /\ q.bad \cap {"eaop", "oerror", "length"} # {} => driver.rc # "NO_ERROR"
             /\ q.bad \cap {"eaop", "oerror", "length", "buffer"} # {} => driver.copied = 0
             /\ driver.rc = "NO_ERROR" /\ cbList =< q.capacity /\ cbList < ListMax
                  => driver.copied = cbList
             /\ q.bad = {} => driver.rc = "NO_ERROR"
<1> DEFINE driver == CopyOut(cbList, q)
           cb     == IF cbList > ListMax \/ cbList > q.capacity THEN q.capacity ELSE cbList
           rest   == cb % ListMax
           bad    == \/ q.bad \cap {"eaop", "oerror", "length"} # {}
                     \/ "buffer" \in q.bad /\ rest # 0
<1>1. driver = IF bad THEN [rc |-> "INVALID_PARAMETER", copied |-> 0]
               ELSE [rc |-> "NO_ERROR", copied |-> rest]
  BY DEF CopyOut
<1>2. cb \in Nat /\ cb =< ListMax /\ cb =< q.capacity /\ ListMax \in Nat \ {0}
      /\ (cbList =< q.capacity => cb = cbList)
  BY EaAssumption
<1>3. rest \in Nat /\ rest =< cb /\ (cb < ListMax => rest = cb)
  <2> HIDE DEF cb
  <2>1. CASE cb < ListMax
    <3>1. cb \in 0 .. ListMax - 1
      BY <1>2, <2>1
    <3>2. rest = cb
      BY <1>2, <3>1, ModSmall
    <3> QED
      BY <1>2, <3>2
  <2>2. CASE cb = ListMax
    <3>1. rest \in 0 .. ListMax - 1
      BY <1>2, DivMod
    <3> HIDE DEF rest
    <3> QED
      BY <1>2, <2>2, <3>1
  <2> QED
    BY <1>2, <2>1, <2>2
<1>4. q.bad = {} => ~bad
  OBVIOUS
<1>5. q.bad \cap {"eaop", "oerror", "length"} # {} => bad
  OBVIOUS
<1>6. q.bad \cap {"eaop", "oerror", "length", "buffer"} # {} => bad \/ rest = 0
  OBVIOUS
<1> HIDE DEF bad, rest, cb, driver
<1>7. driver.rc = "NO_ERROR" <=> ~bad
  BY <1>1
<1>8. driver.copied = IF bad THEN 0 ELSE rest
  BY <1>1
<1>9. driver.copied \in Nat /\ driver.copied =< q.capacity
  BY <1>2, <1>3, <1>8
<1>10. driver.rc = "NO_ERROR" /\ cbList =< q.capacity /\ cbList < ListMax => driver.copied = cbList
  BY <1>2, <1>3, <1>7, <1>8
<1> QED
  BY <1>4, <1>5, <1>6, <1>7, <1>8, <1>9, <1>10 DEF driver

\* Attributes that were asked for in a list that the driver could read reach the program
\* whole when they fit, never more than fits, and memory that cannot be used is reported,
\* for any list of names and any buffer.
THEOREM EasAlwaysDelivered == Spec => []EasDelivered
<1>1. JobInv => EasDelivered
  <2> SUFFICES ASSUME JobInv, job.kind = "eas" PROVE EasDelivered
    BY DEF EasDelivered
  <2> DEFINE q      == job.query
             gea    == CopyIn(q)
             daemon == StoreEAsInFEAList(gea, ListMax)
             driver == CopyOut(daemon.cbList, q)
             r      == QueryEAsFromList(q)
             size   == ListSize(q.gea.names)
  <2>1. /\ q.capacity \in Nat /\ gea.names \in Seq(Nat) /\ gea.cbList \in Nat
        /\ q.gea.names \in Seq(Nat)
    BY QueryAssumption DEF JobInv, CopyIn
  <2>2. /\ ListSize(gea.names) \in Nat
        /\ daemon.rc = "NO_ERROR" <=>
             /\ CbList =< gea.cbList /\ ListSize(gea.names) =< ListMax
             /\ gea.cbList = NamesSize(gea.names)
        /\ daemon.cbList = IF daemon.rc = "NO_ERROR" THEN ListSize(gea.names) ELSE 0
    <3> HIDE DEF gea
    <3> QED
      BY <2>1, DaemonStores
  <2>3. NamesCopied(q) => gea = q.gea /\ CbList =< q.gea.cbList
    BY DEF CopyIn, NamesCopied
  <2>4. /\ r.rc = IF daemon.rc # "NO_ERROR" THEN daemon.rc ELSE driver.rc
        /\ r.cbList = daemon.cbList /\ r.copied = driver.copied
    BY DEF QueryEAsFromList
  <2>5. daemon.cbList \in 0 .. ListMax
    <3> HIDE DEF gea, daemon
    <3> QED
      BY <2>2, EaAssumption
  <2>6. /\ driver.copied =< q.capacity
        /\ q.bad \cap {"eaop", "oerror", "length"} # {} => driver.rc # "NO_ERROR"
        /\ q.bad \cap {"eaop", "oerror", "length", "buffer"} # {} => driver.copied = 0
        /\ driver.rc = "NO_ERROR" /\ daemon.cbList =< q.capacity /\ daemon.cbList < ListMax
             => driver.copied = daemon.cbList
        /\ q.bad = {} => driver.rc = "NO_ERROR"
    <3> HIDE DEF q, daemon
    <3> QED
      BY <2>1, <2>5, DriverCopies
  <2> HIDE DEF q, gea, daemon, driver, r
  <2>7. /\ r.copied =< q.capacity
        /\ q.bad \cap {"eaop", "oerror", "length"} # {} => r.rc # "NO_ERROR"
        /\ q.bad \cap {"eaop", "oerror", "length", "buffer"} # {} => r.copied = 0
    BY <2>4, <2>6
  <2>8. NamesCopied(q) /\ r.rc = "NO_ERROR" =>
          /\ r.cbList = size /\ q.gea.cbList = NamesSize(q.gea.names)
          /\ size =< q.capacity /\ size < ListMax => r.copied = size
    BY <2>2, <2>3, <2>4, <2>6
  <2>9. NamesCopied(q) /\ q.bad = {} /\ q.gea.cbList = NamesSize(q.gea.names)
          /\ size =< q.capacity /\ size =< ListMax => r.rc = "NO_ERROR"
    BY <2>2, <2>3, <2>4, <2>6
  <2> QED
    BY <2>7, <2>8, <2>9 DEF EasDelivered, q, r
<1> QED
  BY <1>1, JobAlways, PTL

-----------------------------------------------------------------------------
(* Walks along a path *)

\* What can be found on a volume.
Found(volume)   == {Entry(r, volume.back) : r \in Records(volume.image)}
Entries(volume) == {volume.root, Missing} \cup Found(volume)

\* A directory that can be found is not where the image begins.
LEMMA EntryFacts ==
  ASSUME NEW volume \in Volumes
  PROVE  /\ volume.root.isDir = TRUE /\ volume.root.iExtent \in Nat \ {0} /\ volume.root.iSize \in Nat
         /\ Missing.isDir = FALSE
         /\ \A e \in Entries(volume) :
              /\ e.isDir \in BOOLEAN /\ e.iExtent \in Nat /\ e.iSize \in Nat
              /\ e.isDir => e.iExtent # 0
              /\ e # Missing /\ ~e.isDir => e \in Found(volume)
<1>1. ASSUME NEW e \in Found(volume)
      PROVE  e.isDir \in BOOLEAN /\ e.iExtent \in Nat /\ e.iSize \in Nat /\ (e.isDir => e.iExtent # 0)
  <2>1. PICK r \in Records(volume.image) : e = Entry(r, volume.back)
    BY DEF Found
  <2>2. r.isDir \in BOOLEAN /\ r.iExtent \in Nat /\ r.iSize \in Nat /\ (r.isDir => r.iExtent # 0)
    BY VolumeAssumption
  <2>3. e.isDir = r.isDir /\ e.iExtent = r.iExtent /\ e.iSize = r.iSize
    BY <2>1 DEF Entry
  <2> QED
    BY <2>2, <2>3
<1>2. /\ Missing.isDir = FALSE /\ Missing.iExtent = 0 /\ Missing.iSize = 0
  BY DEF Missing
<1>3. /\ volume.root.isDir = TRUE /\ volume.root.iExtent \in Nat \ {0} /\ volume.root.iSize \in Nat
  BY VolumeAssumption
<1>4. ASSUME NEW e \in Entries(volume)
      PROVE  /\ e.isDir \in BOOLEAN /\ e.iExtent \in Nat /\ e.iSize \in Nat
             /\ e.isDir => e.iExtent # 0
             /\ e # Missing /\ ~e.isDir => e \in Found(volume)
  <2>1. CASE e = volume.root
    BY <1>3, <2>1
  <2>2. CASE e = Missing
    <3>1. e.isDir = FALSE /\ e.iExtent = 0 /\ e.iSize = 0
      BY <1>2, <2>2, Zenon
    <3>2. e.isDir \in BOOLEAN /\ ~e.isDir
      BY <3>1, Zenon
    <3>3. e.iExtent \in Nat /\ e.iSize \in Nat
      BY <3>1
    <3> QED
      BY <2>2, <3>2, <3>3, Zenon
  <2>3. CASE e \in Found(volume)
    BY <1>1, <2>3
  <2> QED
    BY <2>1, <2>2, <2>3 DEF Entries
<1> QED
  BY <1>2, <1>3, <1>4

\* The start of a sequence has the elements of the sequence.
LEMMA PrefixType ==
  ASSUME NEW S, NEW s \in Seq(S), NEW m \in 0 .. Len(s)
  PROVE  SubSeq(s, 1, m) \in Seq(S)
<1>1. \A i \in 1 .. m : s[i] \in S
  OBVIOUS
<1>2. SubSeq(s, 1, m) = [i \in 1 .. m |-> s[i]]
  OBVIOUS
<1> QED
  BY <1>1, <1>2

\* What is parsed of a sector are records of it.
LEMMA ParsedType ==
  ASSUME NEW S, NEW records \in Seq(S)
  PROVE  Parsed(records) \in Seq(S)
<1> DEFINE n == Len(records)
           I == {k \in 1 .. n : k = 1 \/ Begin(records, k) =< SectorBytes - RecordBytes}
<1>1. n \in Nat /\ I \subseteq 1 .. n
  OBVIOUS
<1>2. Cardinality(I) \in 0 .. n
  <2> HIDE DEF I, n
  <2>1. IsFiniteSet(1 .. n) /\ Cardinality(1 .. n) = n
    BY <1>1, FS_Interval
  <2>2. IsFiniteSet(I) /\ Cardinality(I) =< n
    BY <1>1, <2>1, FS_Subset
  <2> QED
    BY <1>1, <2>2, FS_CardinalityType
<1>3. Parsed(records) = SubSeq(records, 1, Cardinality(I))
  BY DEF Parsed
<1> DEFINE c == Cardinality(I)
<1> HIDE DEF c
<1>4. SubSeq(records, 1, c) \in Seq(S)
  <2>1. c \in 0 .. Len(records)
    BY <1>2 DEF c
  <2> QED
    BY <2>1, PrefixType
<1> QED
  BY <1>3, <1>4 DEF c

\* A directory takes a number of sectors.
LEMMA SectorsType ==
  ASSUME NEW len \in Nat
  PROVE  Sectors(len) \in Nat
<1>1. len + SectorBytes - 1 \in Nat /\ SectorBytes \in Nat \ {0}
  BY IsoDirAssumption
<1> QED
  BY <1>1, DivNatural DEF Sectors

\* What the image of a directory, or of a volume, consists of.
IsImage(image) == \A sector \in DOMAIN image : image[sector] \in Seq(Records(image))

\* Where a seek leads is a place.
LEMMA SeekType ==
  ASSUME NEW extent \in Int, NEW place \in Int
  PROVE  Seek(extent, place) \in Int
<1> DEFINE m == 2 * SeekMax
<1>1. m \in Nat \ {0}
  BY IsoDirAssumption
<1> HIDE DEF m
<1>2. extent % m \in Int
  BY <1>1
<1>3. Seek(extent, place) = IF extent % m < SeekMax THEN extent % m ELSE place
  BY DEF Seek, m
<1> QED
  BY <1>2, <1>3

\* A sector that lseek() can reach is the place where it leads.
LEMMA SeekReaches ==
  ASSUME NEW extent \in 0 .. SeekMax - 1, NEW place
  PROVE  Seek(extent, place) = extent
<1> DEFINE m == 2 * SeekMax
<1>1. m \in Nat \ {0} /\ extent \in 0 .. m - 1 /\ extent < SeekMax
  BY IsoDirAssumption
<1> HIDE DEF m
<1>2. extent % m = extent
  BY <1>1, ModSmall
<1> QED
  BY <1>1, <1>2 DEF Seek, m

\* The buffer after the k-th read, and the records found so far.
LEMMA ReadUnfolds ==
  ASSUME NEW image, IsImage(image), NEW place \in Int, NEW extent \in Nat, NEW n \in Nat
  PROVE  LET R      == Seq(Records(image))
             g      == Read(image, place, extent, n)
         IN  /\ g[0] = [place |-> place, buffer |-> <<>>, records |-> <<>>]
             /\ \A k \in 0 .. n : g[k] \in [place : Int, buffer : R, records : R]
             /\ \A k \in 1 .. n :
                  /\ LET at == Seek(extent + k - 1, g[k - 1].place)
                     IN  g[k].buffer = IF at \in DOMAIN image THEN image[at] ELSE g[k - 1].buffer
                  /\ g[k].records = g[k - 1].records \o Parsed(g[k].buffer)
                  /\ Parsed(g[k].buffer) \in R
<1> DEFINE R      == Seq(Records(image))
           S      == [place : Int, buffer : R, records : R]
           start  == [place |-> place, buffer |-> <<>>, records |-> <<>>]
           At(k, s) == Seek(extent + k - 1, s.place)
           Buffer(k, s) == IF At(k, s) \in DOMAIN image THEN image[At(k, s)] ELSE s.buffer
           Place(k, s) == IF At(k, s) \in DOMAIN image THEN At(k, s) + 1 ELSE At(k, s)
           Turn(k, s) == [place |-> Place(k, s), buffer |-> Buffer(k, s),
                          records |-> s.records \o Parsed(Buffer(k, s))]
           Step   == [k \in 1 .. n |-> [s \in S |-> Turn(k, s)]]
           Def(f) == f = [k \in 0 .. n |-> IF k = 0 THEN start ELSE Turn(k, f[k - 1])]
<1>1. ASSUME NEW k \in 1 .. n, NEW s \in S PROVE Turn(k, s) \in S
  <2> DEFINE b == Buffer(k, s)
  <2>0. At(k, s) \in Int /\ s.buffer \in R
    BY SeekType
  <2>1. b \in R /\ Place(k, s) \in Int
    <3> HIDE DEF At
    <3> QED
      BY <2>0 DEF IsImage
  <2>2. Parsed(b) \in R
    <3> DEFINE T == Records(image)
    <3> HIDE DEF T, b
    <3> QED
      BY <2>1, ParsedType DEF T
  <2>3. s.records \o Parsed(b) \in R
    <3> DEFINE T == Records(image)
               c == Parsed(b)
    <3>1. s.records \in Seq(T) /\ c \in Seq(T)
      BY <2>2
    <3> HIDE DEF T, c
    <3>2. s.records \o c \in Seq(T)
      BY <3>1
    <3> QED
      BY <3>2 DEF T, c
  <2> HIDE DEF Buffer, Place, R
  <2> QED
    BY <2>1, <2>3
<1>2. start \in S
  <2> DEFINE T == Records(image)
  <2> HIDE DEF T
  <2>1. <<>> \in Seq(T)
    OBVIOUS
  <2> QED
    BY <2>1 DEF T
<1>3. Step \in [1 .. n -> [S -> S]]
  <2> HIDE DEF S, Turn
  <2> QED
    BY <1>1
<1>4. PICK f : Runs(f, n, S, start, Step)
  <2> HIDE DEF Step, S, start
  <2> QED
    BY <1>2, <1>3, LoopExists
<1>5. Def(f)
  <2>1. /\ f = [k \in 0 .. n |-> f[k]] /\ f[0] = start
        /\ \A k \in 0 .. n : k = 0 \/ k \in 1 .. n
        /\ \A k \in 1 .. n : f[k] = Step[k][f[k - 1]] /\ f[k - 1] \in S
    <3> HIDE DEF start, Step, S
    <3> QED
      BY <1>4, RunsFacts
  <2> HIDE DEF start, Turn, S
  <2>2. \A k \in 1 .. n : f[k] = Turn(k, f[k - 1])
    BY <2>1
  <2>3. \A k \in 0 .. n : f[k] = IF k = 0 THEN start ELSE Turn(k, f[k - 1])
    BY <2>1, <2>2
  <2> QED
    BY <2>1, <2>3, Zenon
<1> DEFINE g == Read(image, place, extent, n)
<1>6. g = CHOOSE h : Def(h)
  BY DEF Read
<1>7. Def(g)
  <2> HIDE DEF Def, g
  <2> QED
    BY <1>5, <1>6
<1> HIDE DEF g
<1>8. /\ g[0] = start
      /\ \A k \in 1 .. n : g[k] = Turn(k, g[k - 1]) /\ k - 1 \in 0 .. n /\ k \in 0 .. n
  <2>1. 0 \in 0 .. n /\ \A k \in 1 .. n : k \in 0 .. n /\ k # 0 /\ k - 1 \in 0 .. n
    OBVIOUS
  <2> HIDE DEF start, Turn
  <2> QED
    BY <1>7, <2>1
<1>9. \A k \in 0 .. n : g[k] \in S
  <2> DEFINE T == {k \in 0 .. n : g[k] \in S}
  <2> HIDE DEF S, start, Turn
  <2>1. 0 \in T
    BY <1>2, <1>8
  <2>2. ASSUME NEW k \in 1 .. n, k - 1 \in T PROVE k \in T
    BY <1>1, <1>8, <2>2
  <2>3. T \in SUBSET (0 .. n)
    OBVIOUS
  <2> HIDE DEF T
  <2>4. T = 0 .. n
    BY <2>1, <2>2, <2>3, Induction
  <2> QED
    BY <2>4 DEF T
<1>10. ASSUME NEW k \in 1 .. n
       PROVE  /\ g[k].buffer = Buffer(k, g[k - 1])
              /\ g[k].records = g[k - 1].records \o Parsed(g[k].buffer)
              /\ Parsed(g[k].buffer) \in R
  <2>1. g[k] = Turn(k, g[k - 1]) /\ g[k] \in S
    BY <1>8, <1>9
  <2>2. /\ g[k].buffer = Buffer(k, g[k - 1])
        /\ g[k].records = g[k - 1].records \o Parsed(Buffer(k, g[k - 1]))
    <3> DEFINE b == Buffer(k, g[k - 1])
               r == g[k - 1].records \o Parsed(b)
               p == Place(k, g[k - 1])
    <3>1. g[k] = [place |-> p, buffer |-> b, records |-> r]
      BY <2>1
    <3> HIDE DEF b, r, p
    <3>2. g[k].buffer = b /\ g[k].records = r
      BY <3>1
    <3> QED
      BY <3>2 DEF b, r
  <2>3. g[k].buffer \in R
    <3> HIDE DEF R
    <3> QED
      BY <2>1
  <2>4. Parsed(g[k].buffer) \in R
    <3> DEFINE T == Records(image)
               b == g[k].buffer
    <3>1. b \in Seq(T)
      BY <2>3
    <3> HIDE DEF T, b
    <3>2. Parsed(b) \in Seq(T)
      BY <3>1, ParsedType
    <3> QED
      BY <3>2 DEF T, b
  <2> HIDE DEF R, Buffer
  <2> QED
    BY <2>2, <2>4
<1> HIDE DEF R
<1> QED
  BY <1>8, <1>9, <1>10 DEF g, R

\* Whatever the reads of a directory leave in the buffer are records of the image.
LEMMA ReadType ==
  ASSUME NEW volume \in Volumes, NEW extent \in Nat, NEW n \in Nat
  PROVE  Read(volume.image, volume.place, extent, n)[n].records \in Seq(Records(volume.image))
<1> DEFINE R == Seq(Records(volume.image))
           g == Read(volume.image, volume.place, extent, n)
<1>1. IsImage(volume.image) /\ volume.place \in Int
  <2>1. IsImage(volume.image)
    BY VolumeAssumption DEF IsImage
  <2>2. volume.place \in Nat
    BY VolumeAssumption
  <2> QED
    BY <2>1, <2>2
<1>2. \A k \in 0 .. n : g[k] \in [place : Int, buffer : R, records : R]
  <2> DEFINE image == volume.image
             place == volume.place
  <2>1. IsImage(image) /\ place \in Int
    BY <1>1
  <2> HIDE DEF image, place
  <2>2. \A k \in 0 .. n :
          Read(image, place, extent, n)[k] \in [place : Int, buffer : Seq(Records(image)), records : Seq(Records(image))]
    BY <2>1, ReadUnfolds
  <2> QED
    BY <2>2 DEF image, place
<1> HIDE DEF g, R
<1>3. n \in 0 .. n
  OBVIOUS
<1>4. g[n].records \in R
  BY <1>2, <1>3
<1> QED
  BY <1>4 DEF g, R

\* A list of directory entries is made of the records of the image.
LEMMA DirEntriesType ==
  ASSUME NEW volume \in Volumes, NEW extent \in Nat, NEW size \in Nat
  PROVE  LET entries == DirEntries(volume.image, volume.place, extent, size, volume.back, Plenty)
         IN  Len(entries) \in Nat /\ \A k \in 1 .. Len(entries) : entries[k] \in Found(volume)
<1> DEFINE n       == Sectors(size)
           records == Read(volume.image, volume.place, extent, n)[n].records
           all     == [k \in 1 .. Len(records) |-> Entry(records[k], volume.back)]
           m       == IF Len(all) < Plenty THEN Len(all) ELSE Plenty
           F       == Found(volume)
<1>1. records \in Seq(Records(volume.image))
  <2>1. n \in Nat
    BY SectorsType
  <2> HIDE DEF n
  <2> QED
    BY <2>1, ReadType
<1> HIDE DEF records
<1>2. all \in Seq(F) /\ Len(all) \in Nat
  BY <1>1 DEF Found
<1> HIDE DEF all, F
<1>3. m \in 0 .. Len(all)
  BY <1>2 DEF Plenty
<1> HIDE DEF m
<1>4. /\ Len(SubSeq(all, 1, m)) \in Nat
      /\ \A k \in 1 .. Len(SubSeq(all, 1, m)) : SubSeq(all, 1, m)[k] \in F
  BY <1>2, <1>3
<1>5. DirEntries(volume.image, volume.place, extent, size, volume.back, Plenty) = SubSeq(all, 1, m)
  BY DEF DirEntries, Allocated, EntriesOf, all, m, records
<1> QED
  BY <1>4, <1>5 DEF F

\* What is found under a name is an entry of the directory; where there are none,
\* nothing is found.
LEMMA FindFinds ==
  ASSUME NEW volume \in Volumes, NEW extent \in Nat, NEW size \in Nat, NEW component \in Seq(Nat),
         component # <<>>
  PROVE  LET e       == Find(volume, extent, size, component)
             entries == DirEntries(volume.image, volume.place, extent, size, volume.back, Plenty)
         IN  /\ e = Missing \/ (e \in Found(volume) /\ e # Missing)
             /\ entries = <<>> => e = Missing
<1> DEFINE entries == DirEntries(volume.image, volume.place, extent, size, volume.back, Plenty)
           I == {i \in 1 .. Len(entries) : Same(entries[i].chrName, component)}
           k == IF I # {} THEN Min(I) ELSE 0
<1>1. Len(entries) \in Nat /\ \A i \in 1 .. Len(entries) : entries[i] \in Found(volume)
  BY DirEntriesType
<1>2. Find(volume, extent, size, component) = IF k = 0 THEN Missing ELSE entries[k]
  BY DEF Find, SelectInSeq
<1> HIDE DEF entries
<1>3. ASSUME I # {} PROVE k \in I
  <2> HIDE DEF I
  <2>1. I \in SUBSET Nat
    BY <1>1 DEF I
  <2>2. PICK x \in I : \A y \in I : x =< y
    BY <1>3, <2>1, LeastNatural
  <2>3. Min(I) \in I
    BY <2>2 DEF Min
  <2> QED
    BY <1>3, <2>3
<1>4. ASSUME k \in I PROVE entries[k] # Missing
  <2>1. Len(entries[k].chrName) = Len(component)
    BY <1>4 DEF Same
  <2>2. Len(component) # 0
    OBVIOUS
  <2>3. Len(Missing.chrName) = 0
    BY DEF Missing
  <2> QED
    BY <2>1, <2>2, <2>3
<1>5. CASE I = {}
  <2>1. k = 0
    BY <1>5
  <2> QED
    BY <1>2, <2>1
<1>6. CASE I # {}
  <2>1. k \in 1 .. Len(entries) /\ k # 0 /\ entries[k] # Missing
    BY <1>1, <1>3, <1>4, <1>6
  <2>2. entries # <<>>
    BY <2>1
  <2> HIDE DEF k
  <2> QED
    BY <1>1, <1>2, <2>1, <2>2 DEF entries
<1> QED
  BY <1>5, <1>6

\* Steps of the walks stay among what can be found.
LEMMA StepsFind ==
  ASSUME NEW volume \in Volumes, NEW e \in Entries(volume), NEW component \in Seq(Nat),
         component # <<>>
  PROVE  /\ EntryStep(volume, e, component) \in Entries(volume)
         /\ Enter(volume, e, component) \in Entries(volume)
         /\ PlainFiles(volume) => EntryStep(volume, e, component) = Enter(volume, e, component)
<1> DEFINE next == Find(volume, e.iExtent, e.iSize, component)
<1>1. e.iExtent \in Nat /\ e.iSize \in Nat /\ e.isDir \in BOOLEAN /\ (e # Missing /\ ~e.isDir => e \in Found(volume))
  BY EntryFacts
<1>2. /\ next \in Entries(volume)
      /\ DirEntries(volume.image, volume.place, e.iExtent, e.iSize, volume.back, Plenty) = <<>> => next = Missing
  BY <1>1, FindFinds DEF Entries
<1>3. Missing \in Entries(volume) /\ Missing.isDir = FALSE
  BY EntryFacts DEF Entries
<1>4. EntryStep(volume, e, component) = IF e = Missing THEN Missing ELSE next
  BY DEF EntryStep
<1>5. Enter(volume, e, component) = IF e.isDir THEN next ELSE Missing
  BY DEF Enter
<1>6. ASSUME PlainFiles(volume), e # Missing, ~e.isDir PROVE next = Missing
  <2>1. PICK r \in Records(volume.image) : e = Entry(r, volume.back)
    BY <1>1, <1>6 DEF Found
  <2>2. e.isDir = r.isDir /\ e.iExtent = r.iExtent /\ e.iSize = r.iSize
    BY <2>1 DEF Entry
  <2>3. DirEntries(volume.image, volume.place, r.iExtent, r.iSize, volume.back, Plenty) = <<>>
    BY <1>6, <2>2 DEF PlainFiles
  <2> QED
    BY <1>2, <2>2, <2>3
<1> HIDE DEF next
<1>7. e = Missing => ~e.isDir
  BY <1>3
<1> QED
  BY <1>2, <1>3, <1>4, <1>5, <1>6, <1>7

\* A path is made of components that are not empty.
LEMMA PathFacts ==
  ASSUME NEW path \in Paths
  PROVE  Len(path) \in Nat /\ \A k \in 1 .. Len(path) : path[k] \in Seq(Nat) /\ path[k] # <<>>
BY VolumeAssumption

\* The walk that opens files is the one that goes through directories only.
LEMMA WalkResolves ==
  ASSUME NEW volume \in Volumes, NEW path \in Paths
  PROVE  \E at :
           /\ at[0] = volume.root
           /\ \A k \in 0 .. Len(path) : at[k] \in Entries(volume)
           /\ \A k \in 1 .. Len(path) : at[k] = Enter(volume, at[k - 1], path[k])
           /\ Resolved(volume, path) = at[Len(path)]
           /\ PlainFiles(volume) => IsoEntryFromPath(volume, path) = at[Len(path)]
<1> DEFINE n      == Len(path)
           S      == Entries(volume)
           root   == volume.root
           Go(k, e) == Enter(volume, e, path[k])
           GoOn(k, e) == EntryStep(volume, e, path[k])
           Step   == [k \in 1 .. n |-> [e \in S |-> Go(k, e)]]
           Def(f) == f = [k \in 0 .. n |-> IF k = 0 THEN root ELSE Go(k, f[k - 1])]
           DefOn(f) == f = [k \in 0 .. n |-> IF k = 0 THEN root ELSE GoOn(k, f[k - 1])]
<1>1. n \in Nat /\ root \in S
  BY PathFacts DEF Entries
<1>2. ASSUME NEW k \in 1 .. n, NEW e \in S
      PROVE  Go(k, e) \in S /\ GoOn(k, e) \in S /\ (PlainFiles(volume) => GoOn(k, e) = Go(k, e))
  BY PathFacts, StepsFind
<1>3. Step \in [1 .. n -> [S -> S]]
  <2> HIDE DEF n, S, Go
  <2> QED
    BY <1>2
<1>4. PICK f : Runs(f, n, S, root, Step)
  <2> HIDE DEF n, S, root, Step
  <2> QED
    BY <1>1, <1>3, LoopExists
<1>5. /\ f = [k \in 0 .. n |-> f[k]] /\ f[0] = root
      /\ \A k \in 0 .. n : f[k] \in S /\ (k = 0 \/ k \in 1 .. n)
      /\ \A k \in 1 .. n : f[k] = Step[k][f[k - 1]] /\ f[k - 1] \in S /\ k - 1 \in 0 .. n
  <2> HIDE DEF n, S, root, Step
  <2> QED
    BY <1>1, <1>4, RunsFacts
<1> HIDE DEF n, S, root, Go, GoOn
<1>6. \A k \in 1 .. n : f[k] = Go(k, f[k - 1])
  BY <1>5
<1>7. \A k \in 0 .. n : f[k] = IF k = 0 THEN root ELSE Go(k, f[k - 1])
  BY <1>5, <1>6
<1>8. Def(f)
  BY <1>5, <1>7, Zenon
<1>9. PlainFiles(volume) => DefOn(f)
  <2> SUFFICES ASSUME PlainFiles(volume) PROVE DefOn(f)
    OBVIOUS
  <2>1. \A k \in 0 .. n : f[k] = IF k = 0 THEN root ELSE GoOn(k, f[k - 1])
    BY <1>2, <1>5, <1>7
  <2> QED
    BY <1>5, <2>1, Zenon
<1>10. ASSUME NEW g, Def(g) PROVE g[n] = f[n]
  <2> DEFINE T == {k \in 0 .. n : g[k] = f[k]}
  <2>1. 0 \in T
    BY <1>1, <1>5, <1>10
  <2>2. ASSUME NEW k \in 1 .. n, k - 1 \in T PROVE k \in T
    <3>1. k \in 0 .. n /\ k # 0 /\ g[k - 1] = f[k - 1]
      BY <1>1, <2>2
    <3>2. g[k] = Go(k, g[k - 1])
      BY <1>10, <3>1
    <3> QED
      BY <1>6, <3>1, <3>2
  <2>3. T \in SUBSET (0 .. n)
    OBVIOUS
  <2> HIDE DEF T
  <2>4. T = 0 .. n
    BY <1>1, <2>1, <2>2, <2>3, Induction
  <2>5. n \in T
    BY <1>1, <2>4
  <2> QED
    BY <2>5 DEF T
<1>11. ASSUME NEW g, DefOn(g), DefOn(f) PROVE g[n] = f[n]
  <2> DEFINE T == {k \in 0 .. n : g[k] = f[k]}
  <2>1. 0 \in T
    BY <1>1, <1>5, <1>11
  <2>2. ASSUME NEW k \in 1 .. n, k - 1 \in T PROVE k \in T
    <3>1. k \in 0 .. n /\ k # 0 /\ g[k - 1] = f[k - 1]
      BY <1>1, <2>2
    <3>2. g[k] = GoOn(k, g[k - 1]) /\ f[k] = GoOn(k, f[k - 1])
      BY <1>11, <3>1
    <3> QED
      BY <3>1, <3>2
  <2>3. T \in SUBSET (0 .. n)
    OBVIOUS
  <2> HIDE DEF T
  <2>4. T = 0 .. n
    BY <1>1, <2>1, <2>2, <2>3, Induction
  <2>5. n \in T
    BY <1>1, <2>4
  <2> QED
    BY <2>5 DEF T
<1>12. Resolved(volume, path) = f[n]
  <2> DEFINE g == CHOOSE h : Def(h)
  <2>1. Resolved(volume, path) = g[n]
    BY DEF Resolved, n, root, Go
  <2> HIDE DEF Def
  <2>2. Def(g)
    BY <1>8
  <2> HIDE DEF g
  <2> QED
    BY <1>10, <2>1, <2>2
<1>13. ASSUME PlainFiles(volume) PROVE IsoEntryFromPath(volume, path) = f[n]
  <2> DEFINE g == CHOOSE h : DefOn(h)
  <2>1. IsoEntryFromPath(volume, path) = g[n]
    BY DEF IsoEntryFromPath, n, root, GoOn
  <2>2. DefOn(f)
    BY <1>9, <1>13
  <2> HIDE DEF DefOn
  <2>3. DefOn(g)
    BY <2>2
  <2> HIDE DEF g
  <2> QED
    BY <1>11, <2>1, <2>2, <2>3
<1> QED
  BY <1>5, <1>6, <1>12, <1>13 DEF n, S, root, Go

\* One step along directories: it fails where the path leads to none, and knows it else.
LEMMA DirStepKeeps ==
  ASSUME NEW volume \in Volumes, NEW d \in [fail : BOOLEAN, iExtent : Nat, iSize : Nat],
         NEW e \in Entries(volume), NEW component \in Seq(Nat), component # <<>>,
         d.fail <=> ~e.isDir,
         e.isDir => \/ d.iExtent = 0 /\ e = volume.root
                    \/ d.iExtent # 0 /\ d.iExtent = e.iExtent /\ d.iSize = e.iSize
  PROVE  LET d2 == DirStep(volume, d, component)
             e2 == Enter(volume, e, component)
         IN  /\ d2 \in [fail : BOOLEAN, iExtent : Nat, iSize : Nat]
             /\ d2.fail <=> ~e2.isDir
             /\ e2.isDir => d2.iExtent # 0 /\ d2.iExtent = e2.iExtent /\ d2.iSize = e2.iSize
<1> DEFINE d2 == DirStep(volume, d, component)
           e2 == Enter(volume, e, component)
           from == IF d.iExtent = 0 THEN volume.root ELSE d
           found == Find(volume, from.iExtent, from.iSize, component)
<1>1. /\ e.isDir \in BOOLEAN /\ Missing.isDir = FALSE /\ e2 \in Entries(volume)
      /\ e2.isDir \in BOOLEAN /\ e2.iExtent \in Nat /\ e2.iSize \in Nat
      /\ e2.isDir => e2.iExtent # 0
  <2>1. e2 \in Entries(volume)
    BY StepsFind
  <2> HIDE DEF e2
  <2> QED
    BY <2>1, EntryFacts
<1>2. CASE d.fail
  <2>1. d2 = d
    BY <1>2 DEF DirStep
  <2>2. e2 = Missing
    BY <1>2 DEF Enter
  <2> QED
    BY <1>1, <1>2, <2>1, <2>2
<1>3. CASE ~d.fail
  <2>1. e.isDir /\ from.iExtent = e.iExtent /\ from.iSize = e.iSize
    BY <1>1, <1>3
  <2>2. d2 = [fail |-> Fails(found), iExtent |-> found.iExtent, iSize |-> found.iSize]
    BY <1>3 DEF DirStep
  <2>3. e2 = found
    BY <2>1 DEF Enter
  <2>4. Fails(found) <=> ~found.isDir
    BY <1>1 DEF Fails
  <2>5. Fails(found) \in BOOLEAN
    BY DEF Fails
  <2> HIDE DEF found, d2, e2
  <2>6. d2.fail = Fails(found) /\ d2.iExtent = found.iExtent /\ d2.iSize = found.iSize
    BY <2>2
  <2>7. d2 \in [fail : BOOLEAN, iExtent : Nat, iSize : Nat]
    BY <1>1, <2>2, <2>3, <2>5
  <2>8. d2.fail <=> ~e2.isDir
    BY <2>3, <2>4, <2>6
  <2>9. e2.isDir => d2.iExtent # 0 /\ d2.iExtent = e2.iExtent /\ d2.iSize = e2.iSize
    BY <1>1, <2>3, <2>6
  <2> QED
    BY <2>7, <2>8, <2>9 DEF d2, e2
<1> QED
  BY <1>2, <1>3

\* The walk along directories ends where the path leads, if that is a directory.
LEMMA WalkFindsDir ==
  ASSUME NEW volume \in Volumes, NEW path \in Paths
  PROVE  LET to == Resolved(volume, path)
         IN  /\ to \in Entries(volume)
             /\ DirExtentFromPath(volume, path) = IF to.isDir THEN to.iExtent ELSE 0
             /\ PlainFiles(volume) => IsoEntryFromPath(volume, path) = to
<1> DEFINE n      == Len(path)
           S      == [fail : BOOLEAN, iExtent : Nat, iSize : Nat]
           root   == volume.root
           start  == [fail |-> FALSE, iExtent |-> 0, iSize |-> root.iSize]
           Go(k, d) == DirStep(volume, d, path[k])
           Def(f) == f = [k \in 0 .. n |-> IF k = 0 THEN start ELSE Go(k, f[k - 1])]
<1>1. /\ n \in Nat /\ \A k \in 1 .. n : path[k] \in Seq(Nat) /\ path[k] # <<>> /\ k \in 0 .. n /\ k # 0
      /\ 0 \in 0 .. n /\ n \in 0 .. n
  BY PathFacts
<1>2. PICK at : /\ at[0] = root
                /\ \A k \in 0 .. n : at[k] \in Entries(volume)
                /\ \A k \in 1 .. n : at[k] = Enter(volume, at[k - 1], path[k])
                /\ Resolved(volume, path) = at[n]
                /\ PlainFiles(volume) => IsoEntryFromPath(volume, path) = at[n]
  BY WalkResolves
<1>3. /\ root.isDir = TRUE /\ root.iExtent \in Nat \ {0} /\ root.iSize \in Nat /\ start \in S
      /\ root \in Entries(volume)
  BY EntryFacts DEF Entries
<1> DEFINE Steps == [k \in 1 .. n |-> [d \in S |-> Go(k, d)]]
<1>4. ASSUME NEW k \in 1 .. n, NEW d \in S PROVE Go(k, d) \in S
  <2> DEFINE from  == IF d.iExtent = 0 THEN root ELSE d
             found == Find(volume, from.iExtent, from.iSize, path[k])
  <2>1. from.iExtent \in Nat /\ from.iSize \in Nat
    BY <1>3
  <2>2. found \in Entries(volume)
    <3> HIDE DEF from
    <3> QED
      BY <1>1, <2>1, FindFinds DEF Entries
  <2>3. found.iExtent \in Nat /\ found.iSize \in Nat
    <3> HIDE DEF found
    <3> QED
      BY <2>2, EntryFacts
  <2>4. Go(k, d) = IF d.fail THEN d
                   ELSE [fail |-> Fails(found), iExtent |-> found.iExtent, iSize |-> found.iSize]
    BY DEF DirStep
  <2>5. Fails(found) \in BOOLEAN
    BY DEF Fails
  <2> HIDE DEF found, Go
  <2> QED
    BY <2>3, <2>4, <2>5
<1>5. Steps \in [1 .. n -> [S -> S]]
  <2> HIDE DEF n, S, Go
  <2> QED
    BY <1>4
<1>6. PICK f : Runs(f, n, S, start, Steps)
  <2> HIDE DEF n, S, start, Steps
  <2> QED
    BY <1>1, <1>3, <1>5, LoopExists
<1>7. /\ f = [k \in 0 .. n |-> f[k]] /\ f[0] = start
      /\ \A k \in 0 .. n : f[k] \in S /\ (k = 0 \/ k \in 1 .. n)
      /\ \A k \in 1 .. n : f[k] = Steps[k][f[k - 1]] /\ f[k - 1] \in S /\ k - 1 \in 0 .. n
  <2> HIDE DEF n, S, start, Steps
  <2> QED
    BY <1>1, <1>6, RunsFacts
<1>8. Def(f)
  <2> HIDE DEF n, S, start, Go
  <2>1. \A k \in 0 .. n : f[k] = IF k = 0 THEN start ELSE Go(k, f[k - 1])
    BY <1>7
  <2> QED
    BY <1>7, <2>1, Zenon
<1> DEFINE g == CHOOSE h : Def(h)
<1>9. Def(g)
  <2> HIDE DEF Def
  <2> QED
    BY <1>8
<1>10. DirExtentFromPath(volume, path) =
         IF g[n].fail THEN 0 ELSE IF g[n].iExtent = 0 THEN root.iExtent ELSE g[n].iExtent
  BY DEF DirExtentFromPath
<1> HIDE DEF g
<1>11. g[0] = start /\ \A k \in 1 .. n : g[k] = DirStep(volume, g[k - 1], path[k])
  <2> HIDE DEF n, start
  <2> QED
    BY <1>1, <1>9
<1> DEFINE There(d, e) == /\ d \in S /\ (d.fail <=> ~e.isDir)
                          /\ e.isDir => \/ d.iExtent = 0 /\ e = root
                                        \/ d.iExtent # 0 /\ d.iExtent = e.iExtent /\ d.iSize = e.iSize
<1>12. There(g[0], at[0])
  BY <1>2, <1>3, <1>11
<1>13. ASSUME NEW k \in 1 .. n, There(g[k - 1], at[k - 1]) PROVE There(g[k], at[k])
  <2> DEFINE d == g[k - 1]
             e == at[k - 1]
             c == path[k]
  <2>1. k - 1 \in 0 .. n
    BY <1>1
  <2>2. e \in Entries(volume) /\ c \in Seq(Nat) /\ c # <<>>
    BY <1>1, <1>2, <2>1
  <2>3. g[k] = DirStep(volume, d, c) /\ at[k] = Enter(volume, e, c)
    BY <1>2, <1>11
  <2> HIDE DEF d, e, c
  <2>4. There(d, e)
    BY <1>13 DEF d, e
  <2> DEFINE d2 == DirStep(volume, d, c)
             e2 == Enter(volume, e, c)
  <2>5. /\ d2 \in S /\ (d2.fail <=> ~e2.isDir)
        /\ e2.isDir => d2.iExtent # 0 /\ d2.iExtent = e2.iExtent /\ d2.iSize = e2.iSize
    BY <2>2, <2>4, DirStepKeeps
  <2> HIDE DEF d2, e2
  <2>6. There(d2, e2)
    BY <2>5
  <2> QED
    BY <2>3, <2>6 DEF d2, e2
<1>14. There(g[n], at[n])
  <2> DEFINE T == {k \in 0 .. n : There(g[k], at[k])}
  <2> HIDE DEF There, n
  <2>1. 0 \in T /\ \A k \in 1 .. n : k - 1 \in T => k \in T
    BY <1>1, <1>12, <1>13
  <2>2. T \in SUBSET (0 .. n)
    OBVIOUS
  <2> HIDE DEF T
  <2>3. T = 0 .. n
    BY <1>1, <2>1, <2>2, Induction
  <2>4. n \in T
    BY <1>1, <2>3
  <2> QED
    BY <2>4 DEF T
<1>15. at[n] \in Entries(volume) /\ at[n].isDir \in BOOLEAN /\ (at[n].isDir => at[n].iExtent # 0)
  BY <1>1, <1>2, EntryFacts
<1> HIDE DEF n, S
<1>16. DirExtentFromPath(volume, path) = IF at[n].isDir THEN at[n].iExtent ELSE 0
  BY <1>10, <1>14, <1>15
<1> QED
  BY <1>2, <1>15, <1>16

\* Both walks along a path of any length end where it leads, in any graph of directories
\* in which no file looks like one (isoaccess.c:263 and :355).
THEOREM PathsAlwaysResolve == Spec => []PathsResolve
<1>1. JobInv => PathsResolve
  <2> SUFFICES ASSUME JobInv, job.kind = "volume", PlainFiles(job.volume), NEW path \in Paths
               PROVE  LET to == Resolved(job.volume, path)
                      IN  /\ IsoEntryFromPath(job.volume, path) = to
                          /\ DirExtentFromPath(job.volume, path) = IF to.isDir THEN to.iExtent ELSE 0
    BY DEF PathsResolve
  <2>1. job.volume \in Volumes
    BY DEF JobInv
  <2> QED
    BY <2>1, WalkFindsDir
<1> QED
  BY <1>1, JobAlways, PTL

\* The walk that opens files ends at an entry or nowhere, whatever files look like inside.
LEMMA WalkEnds ==
  ASSUME NEW volume \in Volumes, NEW path \in Paths
  PROVE  IsoEntryFromPath(volume, path) \in Entries(volume)
<1> DEFINE n      == Len(path)
           S      == Entries(volume)
           root   == volume.root
           Go(k, e) == EntryStep(volume, e, path[k])
           Step   == [k \in 1 .. n |-> [e \in S |-> Go(k, e)]]
           Def(f) == f = [k \in 0 .. n |-> IF k = 0 THEN root ELSE Go(k, f[k - 1])]
<1>1. n \in Nat /\ root \in S
  BY PathFacts DEF Entries
<1>2. ASSUME NEW k \in 1 .. n, NEW e \in S PROVE Go(k, e) \in S
  BY PathFacts, StepsFind
<1>3. Step \in [1 .. n -> [S -> S]]
  <2> HIDE DEF n, S, Go
  <2> QED
    BY <1>2
<1>4. PICK f : Runs(f, n, S, root, Step)
  <2> HIDE DEF n, S, root, Step
  <2> QED
    BY <1>1, <1>3, LoopExists
<1>5. /\ f = [k \in 0 .. n |-> f[k]] /\ f[0] = root
      /\ \A k \in 0 .. n : k = 0 \/ k \in 1 .. n
      /\ \A k \in 1 .. n : f[k] = Step[k][f[k - 1]] /\ f[k - 1] \in S
  <2> HIDE DEF n, S, root, Step
  <2> QED
    BY <1>1, <1>4, RunsFacts
<1>6. Def(f)
  <2> HIDE DEF n, S, root, Go
  <2>1. \A k \in 0 .. n : f[k] = IF k = 0 THEN root ELSE Go(k, f[k - 1])
    BY <1>5
  <2> QED
    BY <1>5, <2>1, Zenon
<1> DEFINE g == CHOOSE h : Def(h)
<1>7. Def(g)
  <2> HIDE DEF Def
  <2> QED
    BY <1>6
<1>8. IsoEntryFromPath(volume, path) = g[n]
  BY DEF IsoEntryFromPath
<1> HIDE DEF g, n, S, root, Go
<1>9. g[n] \in S
  <2> DEFINE T == {k \in 0 .. n : g[k] \in S}
  <2>1. 0 \in T
    BY <1>1, <1>7
  <2>2. ASSUME NEW k \in 1 .. n, k - 1 \in T PROVE k \in T
    <3>1. k \in 0 .. n /\ k # 0 /\ g[k - 1] \in S
      BY <1>1, <2>2
    <3>2. g[k] = Go(k, g[k - 1])
      BY <1>7, <3>1
    <3> QED
      BY <1>2, <3>1, <3>2
  <2>3. T \in SUBSET (0 .. n)
    OBVIOUS
  <2> HIDE DEF T
  <2>4. T = 0 .. n
    BY <1>1, <2>1, <2>2, <2>3, Induction
  <2>5. n \in T
    BY <1>1, <2>4
  <2> QED
    BY <2>5 DEF T
<1> QED
  BY <1>8, <1>9 DEF S

\* What the requests make of the entry e, attr being the answer about its attributes.
RequestsTell(v, path, e, attr) ==
  /\ e.isDir \in BOOLEAN
  /\ \A is \in BOOLEAN : attr = <<"NO_ERROR", is>> <=> e # Missing /\ e.isDir = is
  /\ attr[1] = "NO_ERROR" <=> e # Missing
  /\ \A access \in {"read", "write", "readwrite", "execute"}, flag \in {"open", "replace", "fail"} :
       OpenCreate(v, path, access, flag) = "NO_ERROR" <=>
         e # Missing /\ ~e.isDir /\ flag = "open" /\ access \in {"read", "execute"}
  /\ FileAttribute(v, path, TRUE)[1] # "NO_ERROR"
  /\ \A level \in 1 .. 5, lack \in {0, 1} :
       /\ Query(v, path, TRUE, level, lack) # "NO_ERROR"
       /\ Query(v, path, FALSE, level, lack) = "PATH_NOT_FOUND" <=> e = Missing
       /\ Query(v, path, FALSE, level, lack) = "NO_ERROR" <=>
            e # Missing /\ level < 5 /\ (lack = 0 \/ level = 4)

\* The requests look at nothing but the entry.
LEMMA RequestsOnEntry ==
  ASSUME NEW v \in Volumes, NEW path \in Paths
  PROVE  RequestsTell(v, path, IsoEntryFromPath(v, path), FileAttribute(v, path, FALSE))
<1> DEFINE e    == IsoEntryFromPath(v, path)
           attr == FileAttribute(v, path, FALSE)
<1>1. e.isDir \in BOOLEAN
  <2>1. e \in Entries(v)
    BY WalkEnds
  <2> HIDE DEF e
  <2> QED
    BY <2>1, EntryFacts
<1>2. attr = IF e = Missing THEN <<"PATH_NOT_FOUND", FALSE>> ELSE <<"NO_ERROR", e.isDir>>
  BY DEF FileAttribute
<1>3. FileAttribute(v, path, TRUE)[1] # "NO_ERROR"
  BY DEF FileAttribute
<1>4. ASSUME NEW level \in 1 .. 5, NEW lack \in {0, 1}
      PROVE  /\ Query(v, path, TRUE, level, lack) # "NO_ERROR"
             /\ Query(v, path, FALSE, level, lack) = "PATH_NOT_FOUND" <=> e = Missing
             /\ Query(v, path, FALSE, level, lack) = "NO_ERROR" <=>
                  e # Missing /\ level < 5 /\ (lack = 0 \/ level = 4)
  <2> DEFINE room == Needed(level) - lack
             eas  == IF lack = 0 THEN "NO_ERROR" ELSE "BUFFER_OVERFLOW"
             rc   == FileInfo(level, room, eas)
  <2>1. Query(v, path, TRUE, level, lack) = IF e = Missing THEN "PATH_NOT_FOUND" ELSE "WRITE_PROTECT"
    BY DEF Query, PathInfo
  <2>2. Query(v, path, FALSE, level, lack) = IF e = Missing THEN "PATH_NOT_FOUND" ELSE rc
    BY DEF Query, PathInfo
  <2>3. rc # "PATH_NOT_FOUND" /\ (rc = "NO_ERROR" <=> level < 5 /\ (lack = 0 \/ level = 4))
    <3>1. room < Needed(level) <=> lack = 1
      BY DEF Needed, FileStatusBytes, UlongBytes
    <3> HIDE DEF room
    <3>2. rc = CASE level \in {1, 2} -> IF lack = 1 THEN "BUFFER_OVERFLOW" ELSE "NO_ERROR"
                 [] level = 3        -> eas
                 [] level = 4        -> "NO_ERROR"
                 [] OTHER            -> "NOT_SUPPORTED"
      BY <3>1 DEF FileInfo
    <3>3. level = 1 \/ level = 2 \/ level = 3 \/ level = 4 \/ level = 5
      OBVIOUS
    <3> HIDE DEF rc
    <3> QED
      BY <3>2, <3>3
  <2> HIDE DEF e, rc
  <2> QED
    BY <2>1, <2>2, <2>3
<1>5. ASSUME NEW access \in {"read", "write", "readwrite", "execute"}, NEW flag \in {"open", "replace", "fail"}
      PROVE  OpenCreate(v, path, access, flag) = "NO_ERROR" <=>
               /\ e # Missing /\ ~e.isDir
               /\ flag = "open" /\ access \in {"read", "execute"}
  <2> HIDE DEF e
  <2> QED
    BY <1>1 DEF OpenCreate, e
<1> HIDE DEF e, attr
<1>6. /\ \A is \in BOOLEAN : attr = <<"NO_ERROR", is>> <=> e # Missing /\ e.isDir = is
      /\ attr[1] = "NO_ERROR" <=> e # Missing
  BY <1>1, <1>2
<1> QED
  BY <1>1, <1>3, <1>4, <1>5, <1>6 DEF RequestsTell, e, attr

\* Requests agree on what a path is, for any volume and any path.
THEOREM RequestsAlwaysAgree == Spec => []RequestsAgree
<1>1. JobInv => RequestsAgree
  <2> SUFFICES ASSUME JobInv, job.kind = "volume", NEW path \in Paths
               PROVE
                 LET v    == job.volume
                     attr == FileAttribute(v, path, FALSE)
                 IN  /\ \A access \in {"read", "write", "readwrite", "execute"}, flag \in {"open", "replace", "fail"} :
                          OpenCreate(v, path, access, flag) = "NO_ERROR" <=>
                            attr = <<"NO_ERROR", FALSE>> /\ flag = "open" /\ access \in {"read", "execute"}
                     /\ FileAttribute(v, path, TRUE)[1] # "NO_ERROR" /\ Query(v, path, TRUE, 1, 0) # "NO_ERROR"
                     /\ \A level \in 1 .. 5, lack \in {0, 1} :
                          LET rc == Query(v, path, FALSE, level, lack)
                          IN  /\ rc = "PATH_NOT_FOUND" <=> attr[1] # "NO_ERROR"
                              /\ rc = "NO_ERROR" <=>
                                   attr[1] = "NO_ERROR" /\ level < 5 /\ (lack = 0 \/ level = 4)
                     /\ PlainFiles(v) =>
                          (ChangeDir(v, path) = "NO_ERROR" <=> attr = <<"NO_ERROR", TRUE>>)
    BY DEF RequestsAgree
  <2> DEFINE v    == job.volume
             attr == FileAttribute(v, path, FALSE)
             e    == IsoEntryFromPath(v, path)
             to   == Resolved(v, path)
  <2>1. v \in Volumes
    BY DEF JobInv
  <2> HIDE DEF v
  <2>2. RequestsTell(v, path, e, attr)
    BY <2>1, RequestsOnEntry
  <2>3. /\ to \in Entries(v)
        /\ DirExtentFromPath(v, path) = IF to.isDir THEN to.iExtent ELSE 0
        /\ PlainFiles(v) => e = to
    BY <2>1, WalkFindsDir
  <2>4. to.isDir \in BOOLEAN /\ (to.isDir => to.iExtent # 0) /\ Missing.isDir = FALSE
    <3> HIDE DEF to
    <3> QED
      BY <2>1, <2>3, EntryFacts
  <2>5. ChangeDir(v, path) = "NO_ERROR" <=> to.isDir
    BY <2>3, <2>4 DEF ChangeDir
  <2> HIDE DEF attr, e, to
  <2>6. PlainFiles(v) => (ChangeDir(v, path) = "NO_ERROR" <=> attr = <<"NO_ERROR", TRUE>>)
    <3>1. e.isDir = TRUE => e # Missing
      BY <2>4
    <3>2. attr = <<"NO_ERROR", TRUE>> <=> e.isDir = TRUE
      BY <2>2, <3>1 DEF RequestsTell
    <3>3. e.isDir \in BOOLEAN
      BY <2>2 DEF RequestsTell
    <3> QED
      BY <2>3, <2>4, <2>5, <3>2, <3>3
  <2>7. attr = <<"NO_ERROR", FALSE>> <=> e # Missing /\ ~e.isDir
    BY <2>2 DEF RequestsTell
  <2>8. FileAttribute(v, path, TRUE)[1] # "NO_ERROR" /\ Query(v, path, TRUE, 1, 0) # "NO_ERROR"
    <3>1. 1 \in 1 .. 5 /\ 0 \in {0, 1}
      OBVIOUS
    <3> QED
      BY <2>2, <3>1 DEF RequestsTell
  <2>9. ASSUME NEW level \in 1 .. 5, NEW lack \in {0, 1}
        PROVE  LET rc == Query(v, path, FALSE, level, lack)
               IN  /\ rc = "PATH_NOT_FOUND" <=> attr[1] # "NO_ERROR"
                   /\ rc = "NO_ERROR" <=>
                        attr[1] = "NO_ERROR" /\ level < 5 /\ (lack = 0 \/ level = 4)
    BY <2>2 DEF RequestsTell
  <2>10. ASSUME NEW access \in {"read", "write", "readwrite", "execute"}, NEW flag \in {"open", "replace", "fail"}
         PROVE  OpenCreate(v, path, access, flag) = "NO_ERROR" <=>
                  attr = <<"NO_ERROR", FALSE>> /\ flag = "open" /\ access \in {"read", "execute"}
    BY <2>2, <2>7 DEF RequestsTell
  <2> QED
    BY <2>6, <2>8, <2>9, <2>10 DEF attr, v
<1> QED
  BY <1>1, JobAlways, PTL

-----------------------------------------------------------------------------
(* Sequences put behind one another *)

\* FlattenSeq() puts its sequences behind one another.
LEMMA FlattenUnfolds ==
  ASSUME NEW S, NEW seqs \in Seq(Seq(S))
  PROVE  \E f : /\ f \in [0 .. Len(seqs) -> Seq(S)] /\ f[0] = <<>>
                /\ \A k \in 1 .. Len(seqs) : f[k] = f[k - 1] \o seqs[k]
                /\ FlattenSeq(seqs) = f[Len(seqs)]
<1> DEFINE n      == Len(seqs)
           Q      == Seq(S)
           Step   == [k \in 1 .. n |-> [s \in Q |-> s \o seqs[k]]]
           Def(f) == f = [i \in 1 .. n |-> IF i = 1 THEN seqs[i] ELSE f[i - 1] \o seqs[i]]
<1>1. n \in Nat /\ <<>> \in Q /\ \A k \in 1 .. n : seqs[k] \in Q
  OBVIOUS
<1>2. \A s \in Q : <<>> \o s = s
  OBVIOUS
<1>3. ASSUME NEW s \in Q, NEW t \in Q PROVE s \o t \in Q
  OBVIOUS
<1>4. Step \in [1 .. n -> [Q -> Q]]
  <2> HIDE DEF n, Q
  <2> QED
    BY <1>1, <1>3
<1>5. PICK h : Runs(h, n, Q, <<>>, Step)
  <2> HIDE DEF n, Q, Step
  <2> QED
    BY <1>1, <1>4, LoopExists
<1>6. /\ h[0] = <<>>
      /\ \A k \in 0 .. n : h[k] \in Q /\ (k = 0 \/ k \in 1 .. n)
      /\ \A k \in 1 .. n : h[k] = Step[k][h[k - 1]] /\ h[k - 1] \in Q /\ k - 1 \in 0 .. n
  <2> HIDE DEF n, Q, Step
  <2> QED
    BY <1>1, <1>5, RunsFacts
<1>7. \A k \in 1 .. n : h[k] = h[k - 1] \o seqs[k]
  <2> HIDE DEF n, Q
  <2> QED
    BY <1>6
<1>8. \A i \in 1 .. n : /\ i \in 0 .. n /\ i # 0 /\ i - 1 \in 0 .. n
                         /\ (i # 1 => i - 1 \in 1 .. n /\ i - 1 # 0) /\ (i = 1 => i - 1 = 0)
  OBVIOUS
<1> DEFINE d == [i \in 1 .. n |-> h[i]]
<1>9. Def(d)
  <2> HIDE DEF n, Q
  <2>1. ASSUME NEW i \in 1 .. n PROVE d[i] = IF i = 1 THEN seqs[i] ELSE d[i - 1] \o seqs[i]
    <3>1. CASE i = 1
      <4>1. h[i] = <<>> \o seqs[i] /\ seqs[i] \in Q
        BY <1>1, <1>6, <1>7, <1>8, <3>1
      <4> QED
        BY <1>2, <3>1, <4>1
    <3>2. CASE i # 1
      BY <1>7, <1>8, <3>2
    <3> QED
      BY <3>1, <3>2
  <2>2. d = [i \in 1 .. n |-> d[i]]
    OBVIOUS
  <2> HIDE DEF d
  <2> QED
    BY <2>1, <2>2, Zenon
<1> DEFINE g == CHOOSE f : Def(f)
<1>10. Def(g)
  <2> HIDE DEF Def, d
  <2> QED
    BY <1>9
<1>11. FlattenSeq(seqs) = IF n = 0 THEN seqs ELSE g[n]
  BY DEF FlattenSeq
<1>12. n = 0 => seqs = <<>>
  OBVIOUS
<1> HIDE DEF g, n, Q
<1>13. \A i \in 1 .. n : g[i] = IF i = 1 THEN seqs[i] ELSE g[i - 1] \o seqs[i]
  BY <1>10
<1> DEFINE f == [k \in 0 .. n |-> IF k = 0 THEN <<>> ELSE g[k]]
<1>14. f[0] = <<>>
  BY <1>1
<1>15. ASSUME NEW k \in 1 .. n PROVE f[k] = f[k - 1] \o seqs[k]
  <2>1. f[k] = g[k]
    BY <1>8
  <2>2. CASE k = 1
    <3>1. g[k] = seqs[k] /\ seqs[k] \in Q /\ f[k - 1] = <<>>
      BY <1>1, <1>8, <1>13, <1>14, <2>2
    <3> QED
      BY <1>2, <2>1, <3>1
  <2>3. CASE k # 1
    <3>1. f[k - 1] = g[k - 1]
      BY <1>8, <2>3
    <3> QED
      BY <1>13, <2>1, <2>3, <3>1
  <2> QED
    BY <2>2, <2>3
<1>16. FlattenSeq(seqs) = f[n]
  BY <1>1, <1>11, <1>12
<1>17. f = [k \in 0 .. n |-> f[k]]
  OBVIOUS
<1> HIDE DEF f
<1>18. \A k \in 0 .. n : f[k] \in Q
  <2> DEFINE T == {k \in 0 .. n : f[k] \in Q}
  <2>1. 0 \in T
    BY <1>1, <1>14
  <2>2. ASSUME NEW k \in 1 .. n, k - 1 \in T PROVE k \in T
    <3>1. k \in 0 .. n
      OBVIOUS
    <3> QED
      BY <1>1, <1>3, <1>15, <2>2, <3>1
  <2>3. T \in SUBSET (0 .. n)
    OBVIOUS
  <2> HIDE DEF T
  <2>4. T = 0 .. n
    BY <1>1, <2>1, <2>2, <2>3, Induction
  <2> QED
    BY <2>4 DEF T
<1>19. f \in [0 .. n -> Q]
  BY <1>17, <1>18
<1> QED
  BY <1>14, <1>15, <1>16, <1>19 DEF n, Q

-----------------------------------------------------------------------------
(* Parameters *)

\* Where the parameters end, if they do.
Stops(buf) == {p \in 1 .. Len(buf) - 1 : buf[p] = Nul /\ buf[p + 1] = Nul}

\* The k-th parameter begins at b: it is before the end, and k - 1 NULs are before it.
Placed(buf, k, b) == b \in 1 .. Stop(buf) /\ Cardinality(Nuls(buf, b - 1)) = k - 1

\* The first loop ends at the first NUL that has another behind it.
LEMMA StopIs ==
  ASSUME NEW buf \in Seq(Nat)
  PROVE  /\ Stops(buf) = {} => Stop(buf) = 0
         /\ Stops(buf) # {} => Stop(buf) \in Stops(buf) /\ \A q \in Stops(buf) : Stop(buf) =< q
<1>1. Stop(buf) = IF Stops(buf) = {} THEN 0
                  ELSE CHOOSE p \in Stops(buf) : \A q \in Stops(buf) : p =< q
  BY DEF Stop, Stops
<1>2. ASSUME Stops(buf) # {} PROVE \E p \in Stops(buf) : \A q \in Stops(buf) : p =< q
  <2>1. Stops(buf) \in SUBSET Nat
    BY DEF Stops
  <2> QED
    BY <1>2, <2>1, LeastNatural
<1> QED
  BY <1>1, <1>2

\* NULs are counted.
LEMMA NulsCount ==
  ASSUME NEW buf \in Seq(Nat), NEW p \in Nat, NEW q \in Nat, p =< q
  PROVE  /\ IsFiniteSet(Nuls(buf, p)) /\ Cardinality(Nuls(buf, p)) \in Nat
         /\ Nuls(buf, p) \subseteq Nuls(buf, q)
         /\ Cardinality(Nuls(buf, p)) = Cardinality(Nuls(buf, q)) => Nuls(buf, p) = Nuls(buf, q)
<1>1. ASSUME NEW r \in Nat PROVE IsFiniteSet(Nuls(buf, r))
  <2>1. Nuls(buf, r) \in SUBSET (1 .. r)
    BY DEF Nuls
  <2>2. IsFiniteSet(1 .. r)
    BY FS_Interval
  <2> QED
    BY <2>1, <2>2, FS_Subset
<1>2. Nuls(buf, p) \in SUBSET Nuls(buf, q)
  BY DEF Nuls
<1> QED
  BY <1>1, <1>2, FS_Subset, FS_CardinalityType

\* The second loop finds the end of a string that begins before the end of all.
LEMMA EndIs ==
  ASSUME NEW buf \in Seq(Nat), Stops(buf) # {}, NEW b \in 1 .. Stop(buf)
  PROVE  LET e == EndOf(buf, b)
         IN  /\ e \in b .. Stop(buf) /\ e \in 1 .. Len(buf) - 1
             /\ buf[e] = Nul /\ \A r \in b .. e - 1 : buf[r] # Nul
<1> DEFINE stop == Stop(buf)
           e    == EndOf(buf, b)
           T    == {q \in b .. Len(buf) : buf[q] = Nul}
<1>1. stop \in 1 .. Len(buf) - 1 /\ buf[stop] = Nul /\ Len(buf) \in Nat
  BY StopIs DEF Stops
<1>2. stop \in T /\ T \in SUBSET Nat
  BY <1>1
<1>3. PICK q \in T : \A r \in T : q =< r
  BY <1>2, LeastNatural
<1>4. q \in b .. Len(buf) /\ buf[q] = Nul /\ \A r \in b .. q - 1 : buf[r] # Nul
  BY <1>1, <1>3
<1>5. e \in b .. Len(buf) /\ buf[e] = Nul /\ \A r \in b .. e - 1 : buf[r] # Nul
  BY <1>4 DEF EndOf
<1> HIDE DEF e
<1>6. e =< stop
  <2>1. b \in 1 .. stop
    OBVIOUS
  <2> HIDE DEF stop
  <2> QED
    BY <1>1, <1>5, <2>1
<1>7. e \in b .. stop /\ e \in 1 .. Len(buf) - 1
  <2>1. b \in 1 .. stop
    OBVIOUS
  <2> HIDE DEF stop
  <2> QED
    BY <1>1, <1>5, <1>6, <2>1
<1> QED
  BY <1>5, <1>7 DEF e

\* The string that begins at b ends with the k-th NUL, at the end of all if that is the
\* last NUL there, and before the place where the next string begins if it is not.
LEMMA NextPlaced ==
  ASSUME NEW buf \in Seq(Nat), Stops(buf) # {}, NEW k \in Nat \ {0}, NEW b, Placed(buf, k, b)
  PROVE  LET e == EndOf(buf, b)
             n == Cardinality(Nuls(buf, Stop(buf)))
         IN  /\ k = n => e = Stop(buf)
             /\ k < n => Placed(buf, k + 1, e + 1)
<1> DEFINE e    == EndOf(buf, b)
           stop == Stop(buf)
           N(p) == Nuls(buf, p)
<1>1. b \in 1 .. stop /\ Cardinality(N(b - 1)) = k - 1
  BY DEF Placed
<1>2. e \in b .. stop /\ buf[e] = Nul /\ \A r \in b .. e - 1 : buf[r] # Nul
  BY <1>1, EndIs
<1>3. stop \in Nat /\ buf[stop] = Nul
  BY StopIs DEF Stops
<1> HIDE DEF e, stop
<1>4. b \in Nat /\ b - 1 \in Nat /\ e \in Nat
  BY <1>1, <1>2, <1>3
<1>5. N(e) = N(b - 1) \cup {e}
  <2>1. ASSUME NEW q PROVE q \in N(e) <=> q \in N(b - 1) \/ q = e
    <3>1. q \in 1 .. e <=> q \in 1 .. b - 1 \/ q \in b .. e - 1 \/ q = e
      BY <1>1, <1>2, <1>3, <1>4
    <3> QED
      BY <1>2, <1>4, <3>1 DEF Nuls
  <2> QED
    BY <2>1
<1>6. Cardinality(N(e)) = k
  <2>1. IsFiniteSet(N(b - 1)) /\ e \notin N(b - 1)
    <3>1. IsFiniteSet(N(b - 1))
      BY <1>4, NulsCount
    <3>2. e \notin 1 .. b - 1
      BY <1>1, <1>2, <1>3
    <3> QED
      BY <3>1, <3>2 DEF Nuls
  <2> HIDE DEF N
  <2>2. Cardinality(N(b - 1) \cup {e}) = Cardinality(N(b - 1)) + 1
    BY <2>1, FS_AddElement
  <2> QED
    BY <1>1, <1>5, <2>2
<1>7. Cardinality(N(e)) = Cardinality(N(stop)) => e = stop
  <2> SUFFICES ASSUME Cardinality(N(e)) = Cardinality(N(stop)), e # stop PROVE FALSE
    OBVIOUS
  <2>1. e =< stop /\ stop \in 1 .. stop /\ stop \notin 1 .. e
    BY <1>1, <1>2, <1>3
  <2>2. N(e) = N(stop)
    BY <1>3, <1>4, <2>1, NulsCount
  <2> QED
    BY <1>3, <2>1, <2>2 DEF Nuls
<1>8. k = Cardinality(N(stop)) => e = stop
  BY <1>6, <1>7
<1>9. k < Cardinality(N(stop)) => Placed(buf, k + 1, e + 1)
  <2> SUFFICES ASSUME k < Cardinality(N(stop)) PROVE Placed(buf, k + 1, e + 1)
    OBVIOUS
  <2>1. e # stop
    BY <1>6
  <2>2. e + 1 \in 1 .. stop /\ e + 1 - 1 = e
    BY <1>1, <1>2, <1>3, <2>1
  <2>3. Cardinality(Nuls(buf, e + 1 - 1)) = k + 1 - 1
    <3>1. Cardinality(Nuls(buf, e + 1 - 1)) = k
      BY <1>6, <2>2
    <3> QED
      BY <3>1
  <2>4. stop = Stop(buf)
    BY DEF stop
  <2> QED
    BY <1>4, <2>2, <2>3, <2>4 DEF Placed
<1> QED
  BY <1>8, <1>9 DEF e, stop

\* Where the parameters begin, one after the other.
LEMMA BeginsUnfold ==
  ASSUME NEW buf \in Seq(Nat), Stops(buf) # {}
  PROVE  LET n == Cardinality(Nuls(buf, Stop(buf)))
             g == Begins(buf, n)
         IN  /\ n \in Nat \ {0} /\ g[1] = 1
             /\ \A k \in 1 .. n - 1 : g[k + 1] = EndOf(buf, g[k]) + 1
             /\ \A k \in 1 .. n : Placed(buf, k, g[k])
<1> DEFINE n      == Cardinality(Nuls(buf, Stop(buf)))
           m      == n - 1
           Nx(b)  == EndOf(buf, b) + 1
           Step   == [j \in 1 .. m |-> [b \in Nat |-> IF b \in 1 .. Stop(buf) THEN Nx(b) ELSE 0]]
           Def(f) == f = [j \in 1 .. n |-> IF j = 1 THEN 1 ELSE EndOf(buf, f[j - 1]) + 1]
<1>1. Stop(buf) \in 1 .. Len(buf) - 1 /\ Stop(buf) \in Nat /\ buf[Stop(buf)] = Nul
  BY StopIs DEF Stops
<1>2. n \in Nat \ {0}
  <2>1. IsFiniteSet(Nuls(buf, Stop(buf))) /\ n \in Nat
    BY <1>1, NulsCount
  <2>2. Stop(buf) \in Nuls(buf, Stop(buf))
    BY <1>1 DEF Nuls
  <2>3. n # 0
    BY <2>1, <2>2, FS_EmptySet
  <2> QED
    BY <2>1, <2>3
<1>3. ASSUME NEW b, NEW k \in 1 .. m, Placed(buf, k, b)
      PROVE  b \in 1 .. Stop(buf) /\ Nx(b) \in Nat /\ Placed(buf, k + 1, Nx(b))
  <2>1. b \in 1 .. Stop(buf)
    BY <1>3 DEF Placed
  <2>2. Placed(buf, k + 1, Nx(b))
    <3> HIDE DEF n
    <3>1. k \in Nat \ {0} /\ k < n
      BY <1>2
    <3> QED
      BY <1>3, <3>1, NextPlaced DEF n
  <2>3. Nx(b) \in 1 .. Stop(buf)
    BY <2>2 DEF Placed
  <2> QED
    BY <1>1, <2>1, <2>2, <2>3
<1>4. ASSUME NEW b \in 1 .. Stop(buf) PROVE Nx(b) \in Nat
  <2>1. EndOf(buf, b) \in 1 .. Len(buf) - 1
    BY EndIs
  <2> QED
    BY <2>1
<1> HIDE DEF Nx, n
<1>5. /\ m \in Nat /\ 0 + 1 = 1 /\ 1 \in 1 .. n /\ n = m + 1
      /\ \A j \in 1 .. m : j + 1 \in 1 .. n /\ j + 1 # 1 /\ j + 1 - 1 = j /\ j \in 1 .. n
      /\ \A j \in 1 .. n : j - 1 \in 0 .. m /\ (j # 1 => j - 1 \in 1 .. m) /\ (j = 1 => j - 1 = 0)
  BY <1>2
<1> HIDE DEF m
<1>6. Placed(buf, 1, 1)
  <2>1. Nuls(buf, 1 - 1) = {}
    BY DEF Nuls
  <2>2. Cardinality(Nuls(buf, 1 - 1)) = 1 - 1
    <3>1. Cardinality(Nuls(buf, 1 - 1)) = 0
      BY <2>1, FS_EmptySet, Zenon
    <3> QED
      BY <3>1
  <2>3. 1 \in 1 .. Stop(buf)
    BY <1>1
  <2> QED
    BY <2>2, <2>3 DEF Placed
<1>7. Step \in [1 .. m -> [Nat -> Nat]]
  BY <1>4
<1>8. PICK h : Runs(h, m, Nat, 1, Step)
  <2> HIDE DEF Step
  <2> QED
    BY <1>5, <1>7, LoopExists
<1>9. /\ h[0] = 1
      /\ \A j \in 1 .. m : h[j] = Step[j][h[j - 1]] /\ h[j - 1] \in Nat
  <2> DEFINE N == Nat
  <2>1. Runs(h, m, N, 1, Step)
    BY <1>8
  <2> HIDE DEF N, Step
  <2>2. /\ h[0] = 1
        /\ \A j \in 1 .. m : h[j] = Step[j][h[j - 1]] /\ h[j - 1] \in N
    BY <1>5, <2>1, RunsFacts
  <2> QED
    BY <2>2 DEF N
<1>10. \A j \in 0 .. m : Placed(buf, j + 1, h[j])
  <2> DEFINE T == {j \in 0 .. m : Placed(buf, j + 1, h[j])}
  <2>1. 0 \in T
    BY <1>5, <1>6, <1>9
  <2>2. ASSUME NEW j \in 1 .. m, j - 1 \in T PROVE j \in T
    <3>1. j \in 0 .. m /\ j - 1 + 1 = j
      BY <1>5
    <3>2. Placed(buf, j, h[j - 1])
      BY <2>2, <3>1
    <3>3. h[j - 1] \in 1 .. Stop(buf) /\ Placed(buf, j + 1, Nx(h[j - 1]))
      BY <1>3, <3>2
    <3>4. h[j] = Nx(h[j - 1])
      BY <1>9, <3>3
    <3> QED
      BY <3>1, <3>3, <3>4
  <2>3. T \in SUBSET (0 .. m)
    OBVIOUS
  <2> HIDE DEF T
  <2>4. T = 0 .. m
    BY <1>5, <2>1, <2>2, <2>3, Induction
  <2> QED
    BY <2>4 DEF T
<1>11. \A j \in 1 .. m : h[j] = EndOf(buf, h[j - 1]) + 1
  <2> SUFFICES ASSUME NEW j \in 1 .. m PROVE h[j] = EndOf(buf, h[j - 1]) + 1
    OBVIOUS
  <2>1. j \in 1 .. n /\ j - 1 \in 0 .. m
    BY <1>5
  <2>2. h[j - 1] \in 1 .. Stop(buf)
    BY <1>10, <2>1 DEF Placed
  <2> QED
    BY <1>9, <2>2 DEF Nx
<1> DEFINE d == [j \in 1 .. n |-> h[j - 1]]
<1>12. Def(d)
  <2>1. ASSUME NEW j \in 1 .. n PROVE d[j] = IF j = 1 THEN 1 ELSE EndOf(buf, d[j - 1]) + 1
    <3>1. CASE j = 1
      BY <1>5, <1>9, <3>1
    <3>2. CASE j # 1
      <4>1. j - 1 \in 1 .. m /\ j - 1 \in 1 .. n
        BY <1>5, <3>2
      <4> QED
        BY <1>11, <3>2, <4>1
    <3> QED
      BY <3>1, <3>2
  <2>2. d = [j \in 1 .. n |-> d[j]]
    OBVIOUS
  <2> HIDE DEF d
  <2> QED
    BY <2>1, <2>2, Zenon
<1> DEFINE g == Begins(buf, n)
<1>13. g = CHOOSE f : Def(f)
  BY DEF Begins
<1>14. Def(g)
  <2> HIDE DEF Def, d, g
  <2> QED
    BY <1>12, <1>13
<1> HIDE DEF g
<1>15. g[1] = 1 /\ \A j \in 1 .. m : g[j + 1] = EndOf(buf, g[j]) + 1
  <2>1. g[1] = 1
    BY <1>5, <1>14
  <2>2. ASSUME NEW j \in 1 .. m PROVE g[j + 1] = EndOf(buf, g[j]) + 1
    BY <1>5, <1>14
  <2> QED
    BY <2>1, <2>2
<1>16. \A j \in 0 .. m : Placed(buf, j + 1, g[j + 1])
  <2> DEFINE T == {j \in 0 .. m : Placed(buf, j + 1, g[j + 1])}
  <2>1. 0 \in T
    BY <1>5, <1>6, <1>15
  <2>2. ASSUME NEW j \in 1 .. m, j - 1 \in T PROVE j \in T
    <3>1. j \in 0 .. m /\ j - 1 + 1 = j
      BY <1>5
    <3>2. Placed(buf, j, g[j])
      BY <2>2, <3>1
    <3>3. Placed(buf, j + 1, Nx(g[j]))
      BY <1>3, <3>2
    <3>4. g[j + 1] = Nx(g[j])
      BY <1>15 DEF Nx
    <3> QED
      BY <3>1, <3>3, <3>4
  <2>3. T \in SUBSET (0 .. m)
    OBVIOUS
  <2> HIDE DEF T
  <2>4. T = 0 .. m
    BY <1>5, <2>1, <2>2, <2>3, Induction
  <2> QED
    BY <2>4 DEF T
<1>17. \A k \in 1 .. n : Placed(buf, k, g[k])
  <2> SUFFICES ASSUME NEW k \in 1 .. n PROVE Placed(buf, k, g[k])
    OBVIOUS
  <2>1. k - 1 \in 0 .. m /\ k - 1 + 1 = k
    BY <1>5
  <2> QED
    BY <1>16, <2>1
<1>18. n = Cardinality(Nuls(buf, Stop(buf))) /\ m = n - 1 /\ g = Begins(buf, Cardinality(Nuls(buf, Stop(buf))))
  BY DEF n, m, g
<1> QED
  BY <1>2, <1>15, <1>17, <1>18

\* What lies between two places of a buffer.
LEMMA BufferPart ==
  ASSUME NEW buf \in Seq(Nat), NEW a \in 1 .. Len(buf) + 1, NEW b \in 0 .. Len(buf), a =< b + 1
  PROVE  /\ SubSeq(buf, a, b) \in Seq(Nat) /\ Len(SubSeq(buf, a, b)) = b - a + 1
         /\ \A k \in 1 .. b - a + 1 : SubSeq(buf, a, b)[k] = buf[a + k - 1]
OBVIOUS

\* A string with one more character.
LEMMA StringAppended ==
  ASSUME NEW y \in Seq(Nat), NEW v \in Nat
  PROVE  /\ Append(y, v) \in Seq(Nat) /\ Len(Append(y, v)) = Len(y) + 1
         /\ Append(y, v)[Len(y) + 1] = v /\ \A k \in 1 .. Len(y) : Append(y, v)[k] = y[k]
OBVIOUS

\* A string behind another.
LEMMA StringsJoined ==
  ASSUME NEW x \in Seq(Nat), NEW y \in Seq(Nat)
  PROVE  /\ x \o y \in Seq(Nat) /\ Len(x \o y) = Len(x) + Len(y)
         /\ \A k \in 1 .. Len(x) : (x \o y)[k] = x[k]
         /\ \A k \in 1 .. Len(y) : (x \o y)[Len(x) + k] = y[k]
OBVIOUS

\* A string with its NUL, behind what is before it.
LEMMA BufferGrows ==
  ASSUME NEW buf \in Seq(Nat), NEW a \in 1 .. Len(buf), NEW e \in a .. Len(buf), buf[e] = Nul
  PROVE  /\ Append(SubSeq(buf, a, e - 1), Nul) \in Seq(Nat)
         /\ SubSeq(buf, 1, a - 1) \o Append(SubSeq(buf, a, e - 1), Nul) = SubSeq(buf, 1, e)
<1> DEFINE x == SubSeq(buf, 1, a - 1)
           y == SubSeq(buf, a, e - 1)
           z == Append(y, Nul)
           w == SubSeq(buf, 1, e)
           n == Len(buf)
<1>0. n \in Nat /\ a \in Nat /\ e \in Nat /\ 1 =< a /\ a =< e /\ e =< n /\ Nul \in Nat
  BY DEF Nul
<1>1. x \in Seq(Nat) /\ Len(x) = a - 1 /\ \A k \in 1 .. a - 1 : x[k] = buf[k]
  <2>1. /\ SubSeq(buf, 1, a - 1) \in Seq(Nat) /\ Len(SubSeq(buf, 1, a - 1)) = a - 1 - 1 + 1
        /\ \A k \in 1 .. a - 1 - 1 + 1 : SubSeq(buf, 1, a - 1)[k] = buf[1 + k - 1]
    <3>1. 1 \in 1 .. n + 1 /\ a - 1 \in 0 .. n /\ 1 =< a - 1 + 1
      BY <1>0
    <3> QED
      BY <3>1, BufferPart
  <2>2. a - 1 - 1 + 1 = a - 1 /\ \A k \in 1 .. a - 1 : 1 + k - 1 = k
    BY <1>0
  <2> QED
    BY <2>1, <2>2
<1>2. y \in Seq(Nat) /\ Len(y) = e - a /\ \A k \in 1 .. e - a : y[k] = buf[a + k - 1]
  <2>1. /\ SubSeq(buf, a, e - 1) \in Seq(Nat) /\ Len(SubSeq(buf, a, e - 1)) = e - 1 - a + 1
        /\ \A k \in 1 .. e - 1 - a + 1 : SubSeq(buf, a, e - 1)[k] = buf[a + k - 1]
    <3>1. a \in 1 .. n + 1 /\ e - 1 \in 0 .. n /\ a =< e - 1 + 1
      BY <1>0
    <3> QED
      BY <3>1, BufferPart
  <2>2. e - 1 - a + 1 = e - a
    BY <1>0
  <2> QED
    BY <2>1, <2>2
<1>3. w \in Seq(Nat) /\ Len(w) = e /\ \A k \in 1 .. e : w[k] = buf[k]
  <2>1. /\ SubSeq(buf, 1, e) \in Seq(Nat) /\ Len(SubSeq(buf, 1, e)) = e - 1 + 1
        /\ \A k \in 1 .. e - 1 + 1 : SubSeq(buf, 1, e)[k] = buf[1 + k - 1]
    <3>1. 1 \in 1 .. n + 1 /\ e \in 0 .. n /\ 1 =< e + 1
      BY <1>0
    <3> QED
      BY <3>1, BufferPart
  <2>2. e - 1 + 1 = e /\ \A k \in 1 .. e : 1 + k - 1 = k
    BY <1>0
  <2> QED
    BY <2>1, <2>2
<1> HIDE DEF x, y, w, n
<1>4. /\ z \in Seq(Nat) /\ Len(z) = e - a + 1 /\ z[e - a + 1] = Nul
      /\ \A k \in 1 .. e - a : z[k] = y[k]
  <2>1. /\ z \in Seq(Nat) /\ Len(z) = Len(y) + 1 /\ z[Len(y) + 1] = Nul
        /\ \A k \in 1 .. Len(y) : z[k] = y[k]
    BY <1>0, <1>2, StringAppended
  <2> QED
    BY <1>2, <2>1
<1> HIDE DEF z
<1>5. /\ x \o z \in Seq(Nat) /\ Len(x \o z) = e
      /\ \A k \in 1 .. a - 1 : (x \o z)[k] = x[k]
      /\ \A k \in 1 .. e - a + 1 : (x \o z)[a - 1 + k] = z[k]
  <2>1. /\ x \o z \in Seq(Nat) /\ Len(x \o z) = Len(x) + Len(z)
        /\ \A k \in 1 .. Len(x) : (x \o z)[k] = x[k]
        /\ \A k \in 1 .. Len(z) : (x \o z)[Len(x) + k] = z[k]
    BY <1>1, <1>4, StringsJoined
  <2>2. a - 1 + (e - a + 1) = e
    BY <1>0
  <2> QED
    BY <1>1, <1>4, <2>1, <2>2
<1>6. \A k \in 1 .. e : (x \o z)[k] = w[k]
  <2> SUFFICES ASSUME NEW k \in 1 .. e PROVE (x \o z)[k] = buf[k]
    BY <1>3
  <2>1. CASE k < a
    <3>1. k \in 1 .. a - 1
      BY <1>0, <2>1
    <3> QED
      BY <1>1, <1>5, <3>1
  <2>2. CASE a =< k
    <3>1. k - (a - 1) \in 1 .. e - a + 1 /\ a - 1 + (k - (a - 1)) = k /\ a + (k - (a - 1)) - 1 = k
      BY <1>0, <2>2
    <3>2. (x \o z)[k] = z[k - (a - 1)]
      BY <1>5, <3>1
    <3>3. CASE k = e
      <4>1. k - (a - 1) = e - a + 1
        BY <1>0, <3>3
      <4> QED
        BY <1>4, <3>2, <3>3, <4>1
    <3>4. CASE k # e
      <4>1. k - (a - 1) \in 1 .. e - a
        BY <1>0, <2>2, <3>4
      <4> QED
        BY <1>2, <1>4, <3>1, <3>2, <4>1
    <3> QED
      BY <3>3, <3>4
  <2>3. k < a \/ a =< k
    BY <1>0
  <2> QED
    BY <2>1, <2>2, <2>3
<1>7. x \o z = w
  <2> DEFINE u == x \o z
  <2>1. u \in Seq(Nat) /\ Len(u) = e /\ \A k \in 1 .. e : u[k] = w[k]
    BY <1>5, <1>6
  <2> HIDE DEF u
  <2>2. u = w
    BY <1>3, <2>1
  <2> QED
    BY <2>2 DEF u
<1> QED
  BY <1>4, <1>7 DEF x, y, z, w

\* The parameters and their NULs are what a buffer starts with.
LEMMA ParamsAre ==
  ASSUME NEW buf \in Seq(Nat), Stops(buf) # {}
  PROVE  LET argv == Params(buf)
         IN  /\ argv # <<>>
             /\ \A k \in 1 .. Len(argv) : Nul \notin ToSet(argv[k]) /\ (argv[k] = <<>> => k = 1)
             /\ IsPrefix(FlattenSeq([k \in 1 .. Len(argv) |-> Append(argv[k], Nul)]) \o <<Nul>>, buf)
<1> DEFINE stop == Stop(buf)
           n    == Cardinality(Nuls(buf, Stop(buf)))
           g    == Begins(buf, n)
           e(k) == EndOf(buf, g[k])
           argv == Params(buf)
           put  == [k \in 1 .. Len(argv) |-> Append(argv[k], Nul)]
<1>1. /\ n \in Nat \ {0} /\ g[1] = 1
      /\ \A k \in 1 .. n - 1 : g[k + 1] = e(k) + 1
      /\ \A k \in 1 .. n : Placed(buf, k, g[k])
  BY BeginsUnfold
<1>2. argv = [k \in 1 .. n |-> SubSeq(buf, g[k], e(k) - 1)]
  BY DEF Params
<1> HIDE DEF g
<1>3. /\ stop \in Stops(buf) /\ \A q \in Stops(buf) : stop =< q
      /\ stop \in 1 .. Len(buf) - 1 /\ buf[stop] = Nul /\ buf[stop + 1] = Nul /\ Len(buf) \in Nat
  <2>1. stop \in Stops(buf) /\ \A q \in Stops(buf) : stop =< q
    BY StopIs
  <2> HIDE DEF stop
  <2> QED
    BY <2>1 DEF Stops
<1>4. ASSUME NEW k \in 1 .. n
      PROVE  /\ g[k] \in 1 .. stop /\ e(k) \in g[k] .. stop /\ e(k) \in 1 .. Len(buf) - 1
             /\ buf[e(k)] = Nul /\ \A r \in g[k] .. e(k) - 1 : buf[r] # Nul
             /\ g[k] \in Nat /\ e(k) \in Nat /\ g[k] =< e(k) /\ 1 =< g[k] /\ e(k) + 1 =< Len(buf)
  <2>1. g[k] \in 1 .. stop
    BY <1>1 DEF Placed
  <2> DEFINE G == g[k]
             E == e(k)
  <2>2. /\ G \in 1 .. stop /\ E \in G .. stop /\ E \in 1 .. Len(buf) - 1
        /\ buf[E] = Nul /\ \A r \in G .. E - 1 : buf[r] # Nul
    BY <2>1, EndIs
  <2> HIDE DEF G, E, stop
  <2>3. G \in Nat /\ E \in Nat /\ G =< E /\ 1 =< G /\ E + 1 =< Len(buf)
    BY <1>3, <2>2
  <2> QED
    BY <2>2, <2>3 DEF G, E
<1>5. e(n) = stop
  <2>1. Placed(buf, n, g[n])
    BY <1>1
  <2> QED
    BY <1>1, <2>1, NextPlaced
<1> HIDE DEF e, stop, n
<1>6. ASSUME NEW k \in 1 .. n
      PROVE  /\ SubSeq(buf, g[k], e(k) - 1) \in Seq(Nat) /\ Len(SubSeq(buf, g[k], e(k) - 1)) = e(k) - g[k]
             /\ \A i \in 1 .. e(k) - g[k] : SubSeq(buf, g[k], e(k) - 1)[i] = buf[g[k] + i - 1]
  <2>0. /\ g[k] \in Nat /\ e(k) \in Nat /\ g[k] =< e(k) /\ 1 =< g[k] /\ e(k) + 1 =< Len(buf)
        /\ Len(buf) \in Nat
    BY <1>3, <1>4
  <2>1. g[k] \in 1 .. Len(buf) + 1 /\ e(k) - 1 \in 0 .. Len(buf) /\ g[k] =< e(k) - 1 + 1
    BY <2>0
  <2>2. e(k) - 1 - g[k] + 1 = e(k) - g[k]
    BY <2>0
  <2> HIDE DEF argv
  <2>3. /\ SubSeq(buf, g[k], e(k) - 1) \in Seq(Nat)
        /\ Len(SubSeq(buf, g[k], e(k) - 1)) = e(k) - 1 - g[k] + 1
        /\ \A i \in 1 .. e(k) - 1 - g[k] + 1 : SubSeq(buf, g[k], e(k) - 1)[i] = buf[g[k] + i - 1]
    BY <2>1, BufferPart
  <2> QED
    BY <2>2, <2>3
<1> HIDE DEF argv
<1>7. argv \in Seq(Seq(Nat)) /\ Len(argv) = n /\ \A k \in 1 .. n : argv[k] = SubSeq(buf, g[k], e(k) - 1)
  <2> DEFINE Q == Seq(Nat)
             part(k) == SubSeq(buf, g[k], e(k) - 1)
  <2>1. \A k \in 1 .. n : part(k) \in Q
    BY <1>6
  <2>2. argv = [k \in 1 .. n |-> part(k)]
    BY <1>2
  <2> HIDE DEF Q, part
  <2>3. argv \in Seq(Q) /\ Len(argv) = n /\ \A k \in 1 .. n : argv[k] = part(k)
    BY <1>1, <2>1, <2>2
  <2> QED
    BY <2>3 DEF Q, part
<1>8. argv # <<>>
  BY <1>1, <1>7
<1>9. ASSUME NEW k \in 1 .. n PROVE Nul \notin ToSet(argv[k])
  <2> SUFFICES ASSUME NEW i \in 1 .. e(k) - g[k] PROVE buf[g[k] + i - 1] # Nul
    <3> DEFINE s == argv[k]
    <3>0. s = SubSeq(buf, g[k], e(k) - 1)
      BY <1>7
    <3>1. /\ s \in Seq(Nat) /\ Len(s) = e(k) - g[k]
          /\ \A i \in 1 .. e(k) - g[k] : s[i] = buf[g[k] + i - 1]
      <4> HIDE DEF s
      <4> QED
        BY <1>6, <3>0
    <3> HIDE DEF s
    <3>2. DOMAIN s = 1 .. e(k) - g[k]
      BY <3>1
    <3>3. Nul \notin ToSet(s)
      BY <3>1, <3>2 DEF ToSet
    <3> QED
      BY <3>3 DEF s
  <2>1. g[k] + i - 1 \in g[k] .. e(k) - 1
    <3>1. g[k] \in Nat /\ e(k) \in Nat
      BY <1>4
    <3> QED
      BY <3>1
  <2> QED
    BY <1>4, <2>1
<1>10. ASSUME NEW k \in 1 .. n, argv[k] = <<>>, k # 1 PROVE FALSE
  <2>1. k - 1 \in 1 .. n - 1 /\ k - 1 \in 1 .. n /\ k - 1 + 1 = k
    BY <1>1, <1>10
  <2>2. g[k] = e(k - 1) + 1
    BY <1>1, <2>1 DEF n, e
  <2>3. Len(argv[k]) = 0
    BY <1>10
  <2>4. e(k) = g[k]
    <3>1. e(k) - g[k] = 0
      BY <1>6, <1>7, <2>3
    <3>2. g[k] \in Nat /\ e(k) \in Nat
      BY <1>4
    <3> QED
      BY <3>1, <3>2
  <2>5. e(k - 1) \in 1 .. Len(buf) - 1 /\ buf[e(k - 1)] = Nul /\ buf[e(k - 1) + 1] = Nul
    BY <1>4, <2>1, <2>2, <2>4
  <2>6. stop =< e(k - 1)
    BY <1>3, <2>5 DEF Stops
  <2> QED
    BY <1>3, <1>4, <2>2, <2>4, <2>5, <2>6
<1>11. put \in Seq(Seq(Nat)) /\ Len(put) = n /\ \A k \in 1 .. n : put[k] = Append(argv[k], Nul)
  <2> DEFINE Q == Seq(Nat)
             part(k) == Append(argv[k], Nul)
  <2>1. \A k \in 1 .. n : part(k) \in Q
    <3>1. \A s \in Seq(Nat) : Append(s, Nul) \in Seq(Nat)
      <4>1. Nul \in Nat
        BY DEF Nul
      <4> QED
        BY <4>1
    <3> QED
      BY <1>6, <1>7, <3>1
  <2>2. put = [k \in 1 .. n |-> part(k)]
    BY <1>7
  <2> HIDE DEF Q, part, put
  <2>3. put \in Seq(Q) /\ Len(put) = n /\ \A k \in 1 .. n : put[k] = part(k)
    BY <1>1, <2>1, <2>2
  <2> QED
    BY <2>3 DEF Q, part
<1> HIDE DEF put
<1>12. PICK f : /\ f[0] = <<>>
                /\ \A k \in 1 .. Len(put) : f[k] = f[k - 1] \o put[k]
                /\ FlattenSeq(put) = f[Len(put)]
  BY <1>11, FlattenUnfolds
<1>13. \A k \in 1 .. n : f[k] = SubSeq(buf, 1, e(k))
  <2> DEFINE T == {k \in 0 .. n : k = 0 \/ f[k] = SubSeq(buf, 1, e(k))}
  <2>1. 0 \in T
    BY <1>1
  <2>2. ASSUME NEW k \in 1 .. n, k - 1 \in T PROVE k \in T
    <3>1. k \in 0 .. n
      OBVIOUS
    <3>2. f[k] = f[k - 1] \o Append(SubSeq(buf, g[k], e(k) - 1), Nul)
      BY <1>7, <1>11, <1>12
    <3>3. f[k - 1] = SubSeq(buf, 1, g[k] - 1)
      <4>1. CASE k = 1
        <5>1. SubSeq(buf, 1, 0) = <<>>
          OBVIOUS
        <5>2. f[k - 1] = <<>> /\ g[k] - 1 = 0
          BY <1>1, <1>12, <4>1
        <5> QED
          BY <5>1, <5>2
      <4>2. CASE k # 1
        <5>1. k - 1 \in 1 .. n - 1 /\ k - 1 \in 1 .. n /\ k - 1 + 1 = k /\ k - 1 # 0
          BY <1>1, <4>2
        <5>2. g[k] = e(k - 1) + 1
          BY <1>1, <5>1 DEF n, e
        <5>3. e(k - 1) \in Int
          BY <1>4, <5>1
        <5>4. g[k] - 1 = e(k - 1)
          BY <5>2, <5>3
        <5> QED
          BY <2>2, <5>1, <5>4
      <4> QED
        BY <4>1, <4>2
    <3>4. g[k] \in 1 .. Len(buf) /\ e(k) \in g[k] .. Len(buf) /\ buf[e(k)] = Nul
      <4>1. /\ g[k] \in Nat /\ e(k) \in Nat /\ g[k] =< e(k) /\ 1 =< g[k] /\ e(k) + 1 =< Len(buf)
            /\ buf[e(k)] = Nul /\ Len(buf) \in Nat
        BY <1>3, <1>4
      <4> QED
        BY <4>1
    <3>5. SubSeq(buf, 1, g[k] - 1) \o Append(SubSeq(buf, g[k], e(k) - 1), Nul) = SubSeq(buf, 1, e(k))
      BY <3>4, BufferGrows
    <3> QED
      BY <3>1, <3>2, <3>3, <3>5
  <2>3. T \in SUBSET (0 .. n)
    OBVIOUS
  <2> HIDE DEF T
  <2>4. T = 0 .. n
    BY <1>1, <2>1, <2>2, <2>3, Induction
  <2> QED
    BY <2>4 DEF T
<1>14. FlattenSeq(put) = SubSeq(buf, 1, stop)
  BY <1>1, <1>5, <1>11, <1>12, <1>13
<1>15. SubSeq(buf, 1, stop) \o <<Nul>> = SubSeq(buf, 1, stop + 1)
  <2>1. /\ stop + 1 \in 1 .. Len(buf) /\ stop + 1 \in stop + 1 .. Len(buf)
        /\ stop + 1 - 1 = stop
    BY <1>3
  <2>2. SubSeq(buf, 1, stop + 1 - 1) \o Append(SubSeq(buf, stop + 1, stop + 1 - 1), Nul) = SubSeq(buf, 1, stop + 1)
    BY <1>3, <2>1, BufferGrows
  <2>3. Append(SubSeq(buf, stop + 1, stop), Nul) = <<Nul>>
    <3>1. SubSeq(buf, stop + 1, stop) = <<>>
      BY <1>3
    <3>2. Append(<<>>, Nul) = <<Nul>>
      BY DEF Nul
    <3> QED
      BY <3>1, <3>2
  <2> QED
    BY <2>1, <2>2, <2>3
<1>16. IsPrefix(SubSeq(buf, 1, stop + 1), buf)
  <2>1. Len(SubSeq(buf, 1, stop + 1)) = stop + 1 /\ stop + 1 =< Len(buf)
    BY <1>3
  <2>2. SubSeq(SubSeq(buf, 1, stop + 1), 1, stop + 1) = SubSeq(buf, 1, stop + 1)
    BY <1>3
  <2> QED
    BY <2>1, <2>2 DEF IsPrefix
<1> QED
  BY <1>7, <1>8, <1>9, <1>10, <1>14, <1>15, <1>16 DEF put, argv

\* The parameters in a buffer are those that were put there, and no others are refused.
THEOREM ParamsAlwaysWhole == Spec => []ParamsWhole
<1>1. JobInv => ParamsWhole
  <2> SUFFICES ASSUME JobInv, job.kind = "params" PROVE ParamsWhole
    BY DEF ParamsWhole
  <2> DEFINE buf == job.buf
  <2>1. buf \in Seq(Nat)
    BY BufferAssumption DEF JobInv
  <2> HIDE DEF buf
  <2>0. CASE Len(buf) # ParamBytes
    BY <2>0 DEF ParamsWhole, SetParams, buf
  <2> SUFFICES ASSUME Len(buf) = ParamBytes PROVE ParamsWhole
    BY <2>0
  <2>4. SetParams(buf) = Params(buf)
    BY DEF SetParams
  <2>2. CASE Stops(buf) = {}
    <3>1. Nuls(buf, Stop(buf)) = {}
      BY <2>1, <2>2, StopIs DEF Nuls
    <3>2. Cardinality(Nuls(buf, Stop(buf))) = 0
      BY <3>1, FS_EmptySet
    <3>3. Params(buf) = <<>>
      BY <3>2 DEF Params
    <3>4. \A p \in 1 .. Len(buf) - 1 : <<buf[p], buf[p + 1]>> # <<Nul, Nul>>
      BY <2>2 DEF Stops
    <3> QED
      BY <2>4, <3>3, <3>4 DEF ParamsWhole, buf
  <2>3. CASE Stops(buf) # {}
    BY <2>1, <2>3, <2>4, ParamsAre DEF ParamsWhole, buf
  <2> QED
    BY <2>2, <2>3
<1> QED
  BY <1>1, JobAlways, PTL

-----------------------------------------------------------------------------
(* Lists of directories *)

\* A record begins somewhere, the first one at the start of its sector.
LEMMA BeginIs ==
  ASSUME NEW S, NEW records \in Seq(S), \A r \in S : r.length \in Nat,
         NEW k \in 1 .. Len(records)
  PROVE  Begin(records, k) \in Nat /\ (k = 1 => Begin(records, k) = 0)
<1> DEFINE n      == k - 1
           Step   == [j \in 1 .. n |-> [b \in Nat |-> b + records[j].length]]
           Def(f) == f = [j \in 1 .. k |-> IF j = 1 THEN 0 ELSE f[j - 1] + records[j - 1].length]
<1>1. /\ n \in Nat /\ k \in 1 .. k
      /\ \A j \in 1 .. n : j + 1 \in 1 .. k /\ j + 1 # 1 /\ j + 1 - 1 = j /\ j \in 1 .. k
      /\ \A j \in 1 .. k : j - 1 \in 0 .. n /\ (j # 1 => j - 1 \in 1 .. n) /\ (j = 1 => j - 1 = 0)
      /\ 0 + 1 = 1 /\ 1 \in 1 .. k /\ k = n + 1
  OBVIOUS
<1>2. \A j \in 1 .. n : records[j].length \in Nat
  <2>1. \A j \in 1 .. n : j \in 1 .. Len(records)
    OBVIOUS
  <2> QED
    BY <2>1
<1> HIDE DEF n
<1>3. Step \in [1 .. n -> [Nat -> Nat]]
  <2>1. \A j \in 1 .. n, b \in Nat : b + records[j].length \in Nat
    BY <1>2
  <2> QED
    BY <2>1
<1>4. PICK h : Runs(h, n, Nat, 0, Step)
  <2> HIDE DEF Step
  <2> QED
    BY <1>1, <1>3, LoopExists
<1>5. /\ h[0] = 0
      /\ \A j \in 1 .. n : h[j] = Step[j][h[j - 1]] /\ h[j - 1] \in Nat
  <2> DEFINE N == Nat
  <2>1. Runs(h, n, N, 0, Step)
    BY <1>4
  <2> HIDE DEF N, Step
  <2>2. /\ h[0] = 0
        /\ \A j \in 1 .. n : h[j] = Step[j][h[j - 1]] /\ h[j - 1] \in N
    BY <1>1, <2>1, RunsFacts
  <2> QED
    BY <2>2 DEF N
<1> DEFINE d == [j \in 1 .. k |-> h[j - 1]]
<1>6. Def(d)
  <2>1. ASSUME NEW j \in 1 .. k
        PROVE  d[j] = IF j = 1 THEN 0 ELSE d[j - 1] + records[j - 1].length
    <3>1. CASE j = 1
      BY <1>1, <1>5, <3>1
    <3>2. CASE j # 1
      <4>1. j - 1 \in 1 .. n /\ j - 1 \in 1 .. k
        BY <1>1, <3>2
      <4>2. h[j - 1] = h[j - 1 - 1] + records[j - 1].length
        BY <1>5, <4>1
      <4> QED
        BY <3>2, <4>1, <4>2
    <3> QED
      BY <3>1, <3>2
  <2>2. d = [j \in 1 .. k |-> d[j]]
    OBVIOUS
  <2> HIDE DEF d
  <2> QED
    BY <2>1, <2>2, Zenon
<1> DEFINE g == CHOOSE f : Def(f)
<1>7. Def(g)
  <2> HIDE DEF Def, d
  <2> QED
    BY <1>6
<1>8. Begin(records, k) = g[k]
  BY DEF Begin
<1> HIDE DEF g
<1>9. g[1] = 0 /\ \A j \in 1 .. n : g[j + 1] = g[j] + records[j].length
  BY <1>1, <1>7
<1>10. g[k] \in Nat
  <2> DEFINE T == {j \in 0 .. n : g[j + 1] \in Nat}
  <2>1. 0 \in T
    BY <1>1, <1>9
  <2>2. ASSUME NEW j \in 1 .. n, j - 1 \in T PROVE j \in T
    <3>1. j \in 0 .. n /\ j - 1 + 1 = j
      BY <1>1
    <3>2. g[j] \in Nat /\ records[j].length \in Nat
      BY <1>2, <2>2, <3>1
    <3>3. g[j + 1] \in Nat
      BY <1>9, <3>2
    <3> QED
      BY <3>1, <3>3
  <2>3. T \in SUBSET (0 .. n)
    OBVIOUS
  <2> HIDE DEF T
  <2>4. T = 0 .. n
    BY <1>1, <2>1, <2>2, <2>3, Induction
  <2>5. n \in T
    BY <1>1, <2>4
  <2> QED
    BY <1>1, <2>5 DEF T
<1> QED
  BY <1>8, <1>9, <1>10

\* What a sequence of records becomes, and what can become of a directory.
Shows(records, back) == [k \in 1 .. Len(records) |-> Entry(records[k], back)]
Showable(l)          == {Entry(r, l.back) : r \in Records(l.image)}

\* Records become entries one by one.
LEMMA ShowsFacts ==
  ASSUME NEW l, NEW a \in Seq(Records(l.image)), NEW b \in Seq(Records(l.image))
  PROVE  /\ Shows(a, l.back) \in Seq(Showable(l)) /\ Len(Shows(a, l.back)) = Len(a)
         /\ Shows(a \o b, l.back) = Shows(a, l.back) \o Shows(b, l.back)
<1> DEFINE R == Records(l.image)
           E == Showable(l)
           Sh(s) == Shows(s, l.back)
<1>1. \A r \in R : Entry(r, l.back) \in E
  BY DEF Showable
<1> HIDE DEF R, E
<1>2. a \in Seq(R) /\ b \in Seq(R)
  BY DEF R
<1>3. ASSUME NEW s \in Seq(R)
      PROVE  Sh(s) \in Seq(E) /\ Len(Sh(s)) = Len(s) /\ \A k \in 1 .. Len(s) : Sh(s)[k] = Entry(s[k], l.back)
  <2>1. \A k \in 1 .. Len(s) : Entry(s[k], l.back) \in E
    BY <1>1
  <2> DEFINE w(r) == Entry(r, l.back)
  <2>2. Sh(s) = [k \in 1 .. Len(s) |-> w(s[k])]
    BY DEF Shows
  <2>3. \A k \in 1 .. Len(s) : w(s[k]) \in E
    BY <2>1
  <2> HIDE DEF w, Sh
  <2>4. Sh(s) \in Seq(E) /\ Len(Sh(s)) = Len(s) /\ \A k \in 1 .. Len(s) : Sh(s)[k] = w(s[k])
    BY <2>2, <2>3
  <2> QED
    BY <2>4 DEF w
<1>4. a \o b \in Seq(R) /\ Len(a \o b) = Len(a) + Len(b)
  BY <1>2
<1> DEFINE x == Sh(a)
           y == Sh(b)
           z == Sh(a \o b)
<1>5. /\ x \in Seq(E) /\ y \in Seq(E) /\ z \in Seq(E)
      /\ Len(x) = Len(a) /\ Len(y) = Len(b) /\ Len(z) = Len(a) + Len(b)
  BY <1>2, <1>3, <1>4
<1>6. \A k \in 1 .. Len(a) + Len(b) : z[k] = (x \o y)[k]
  <2> SUFFICES ASSUME NEW k \in 1 .. Len(a) + Len(b) PROVE z[k] = (x \o y)[k]
    OBVIOUS
  <2> HIDE DEF Sh
  <2>1. z[k] = Entry((a \o b)[k], l.back)
    BY <1>3, <1>4
  <2>2. CASE k =< Len(a)
    <3>1. k \in 1 .. Len(a) /\ (a \o b)[k] = a[k]
      BY <1>2, <2>2
    <3>2. x[k] = Entry(a[k], l.back)
      BY <1>2, <1>3, <3>1
    <3>3. (x \o y)[k] = x[k]
      <4> HIDE DEF x, y
      <4> QED
        BY <1>5, <3>1
    <3> QED
      BY <2>1, <3>1, <3>2, <3>3
  <2>3. CASE k > Len(a)
    <3>1. k - Len(a) \in 1 .. Len(b) /\ (a \o b)[k] = b[k - Len(a)]
      BY <1>2, <2>3
    <3>2. y[k - Len(a)] = Entry(b[k - Len(a)], l.back)
      BY <1>2, <1>3, <3>1
    <3>3. (x \o y)[k] = y[k - Len(a)]
      <4> HIDE DEF x, y
      <4>1. Len(a) \in Nat /\ Len(b) \in Nat
        BY <1>2
      <4> QED
        BY <1>5, <2>3, <3>1, <4>1
    <3> QED
      BY <2>1, <3>1, <3>2, <3>3
  <2>4. Len(a) \in Nat
    BY <1>2
  <2>5. k =< Len(a) \/ k > Len(a)
    BY <2>4
  <2> HIDE DEF x, y, z
  <2> QED
    BY <2>2, <2>3, <2>5
<1>7. z = x \o y
  <2> HIDE DEF x, y, z
  <2>1. Len(a) \in Nat /\ Len(b) \in Nat /\ x \o y \in Seq(E) /\ Len(x \o y) = Len(a) + Len(b)
    BY <1>2, <1>5
  <2> QED
    BY <1>5, <1>6, <2>1
<1> QED
  BY <1>5, <1>7 DEF E

\* The entries of a sector that are listed: those of the records that begin early.
Kept(l, s) ==
  LET records == l.image[s]
      fit     == {k \in 1 .. Len(records) : Begin(records, k) + RecordBytes =< SectorBytes}
  IN  [k \in 1 .. Cardinality(fit) |-> Entry(records[k], l.back)]

\* The directory is the entries of what was in the buffer, one read after the other.
ShownAs(l, n, buffer, W) ==
  /\ buffer \in [0 .. n -> Seq(Records(l.image))] /\ buffer[0] = <<>>
  /\ W \in [0 .. n -> Seq(Showable(l))] /\ W[0] = <<>>
  /\ \A k \in 1 .. n :
       /\ buffer[k] = IF l.iExtent + k - 1 \in DOMAIN l.image THEN l.image[l.iExtent + k - 1]
                      ELSE buffer[k - 1]
       /\ W[k] = W[k - 1] \o Shows(Parsed(buffer[k]), l.back)
  /\ DirEntries(l.image, l.place, l.iExtent, l.iSize, l.back, l.memory) =
       SubSeq(W[n], 1, Least(Len(W[n]), l.memory))

\* What ListingAssumption says of one directory.
LEMMA ListingType ==
  ASSUME NEW l \in Listings
  PROVE  /\ Sectors(l.iSize) \in Nat /\ IsImage(l.image)
         /\ l.place \in Int /\ l.iExtent \in Nat /\ l.memory \in Nat
<1>1. /\ l.iExtent \in Nat /\ l.iSize \in Nat /\ l.memory \in Nat /\ l.place \in Nat
  BY ListingAssumption
<1>2. IsImage(l.image)
  BY ListingAssumption DEF IsImage
<1>3. Sectors(l.iSize) \in Nat
  BY <1>1, SectorsType
<1>4. l.place \in Int
  BY <1>1
<1> QED
  BY <1>1, <1>2, <1>3, <1>4

\* getDirEntries() returns such a list.
LEMMA DirEntriesUnfold ==
  ASSUME NEW l \in Listings, Reachable(l)
  PROVE  Sectors(l.iSize) \in Nat /\ \E buffer, W : ShownAs(l, Sectors(l.iSize), buffer, W)
<1> DEFINE n == Sectors(l.iSize)
           g == Read(l.image, l.place, l.iExtent, n)
           R == Seq(Records(l.image))
           buffer == [k \in 0 .. n |-> g[k].buffer]
           W == [k \in 0 .. n |-> Shows(g[k].records, l.back)]
<1>1. n \in Nat /\ IsImage(l.image) /\ l.place \in Int /\ l.iExtent \in Nat
  BY ListingType
<1>0. l.iExtent + n =< SeekMax
  BY DEF Reachable
<1> HIDE DEF n
<1>2. /\ g[0] = [place |-> l.place, buffer |-> <<>>, records |-> <<>>]
      /\ \A k \in 0 .. n : g[k] \in [place : Int, buffer : R, records : R]
      /\ \A k \in 1 .. n :
           /\ g[k].buffer = IF l.iExtent + k - 1 \in DOMAIN l.image THEN l.image[l.iExtent + k - 1]
                            ELSE g[k - 1].buffer
           /\ g[k].records = g[k - 1].records \o Parsed(g[k].buffer)
           /\ Parsed(g[k].buffer) \in R
  <2>1. /\ g[0] = [place |-> l.place, buffer |-> <<>>, records |-> <<>>]
        /\ \A k \in 0 .. n : g[k] \in [place : Int, buffer : R, records : R]
        /\ \A k \in 1 .. n :
             /\ LET at == Seek(l.iExtent + k - 1, g[k - 1].place)
                IN  g[k].buffer = IF at \in DOMAIN l.image THEN l.image[at] ELSE g[k - 1].buffer
             /\ g[k].records = g[k - 1].records \o Parsed(g[k].buffer)
             /\ Parsed(g[k].buffer) \in R
    BY <1>1, ReadUnfolds
  <2>2. \A k \in 1 .. n : l.iExtent + k - 1 \in 0 .. SeekMax - 1
    BY <1>0, <1>1, IsoDirAssumption
  <2> HIDE DEF g, R
  <2>3. \A k \in 1 .. n : Seek(l.iExtent + k - 1, g[k - 1].place) = l.iExtent + k - 1
    BY <2>2, SeekReaches
  <2> QED
    BY <2>1, <2>3
<1>3. DirEntries(l.image, l.place, l.iExtent, l.iSize, l.back, l.memory) =
        SubSeq(Shows(g[n].records, l.back), 1,
               IF Len(Shows(g[n].records, l.back)) < l.memory THEN Len(Shows(g[n].records, l.back)) ELSE l.memory)
  BY DEF DirEntries, Allocated, EntriesOf, Shows, n
<1> HIDE DEF g, R
<1>4. \A k \in 0 .. n : g[k].buffer \in R /\ g[k].records \in R
  BY <1>2
<1>5. /\ 0 \in 0 .. n /\ n \in 0 .. n
      /\ \A k \in 1 .. n : k \in 0 .. n /\ k - 1 \in 0 .. n
  BY <1>1
<1>6. ASSUME NEW k \in 0 .. n PROVE Shows(g[k].records, l.back) \in Seq(Showable(l))
  BY <1>4, ShowsFacts DEF R
<1>7. buffer \in [0 .. n -> R] /\ W \in [0 .. n -> Seq(Showable(l))]
  BY <1>4, <1>6
<1>8. buffer[0] = <<>> /\ W[0] = <<>>
  <2>1. g[0].buffer = <<>> /\ g[0].records = <<>>
    BY <1>2
  <2>2. Shows(<<>>, l.back) = <<>>
    BY DEF Shows
  <2> QED
    BY <1>5, <2>1, <2>2
<1>9. ASSUME NEW k \in 1 .. n
      PROVE  W[k] = W[k - 1] \o Shows(Parsed(buffer[k]), l.back)
  <2>1. g[k].records = g[k - 1].records \o Parsed(g[k].buffer) /\ Parsed(g[k].buffer) \in R
    BY <1>2
  <2>2. g[k - 1].records \in R
    BY <1>4, <1>5
  <2> DEFINE x == g[k - 1].records
             y == Parsed(g[k].buffer)
  <2>3. x \in R /\ y \in R
    BY <2>1, <2>2
  <2> HIDE DEF x, y
  <2>4. Shows(x \o y, l.back) = Shows(x, l.back) \o Shows(y, l.back)
    BY <2>3, ShowsFacts DEF R
  <2> QED
    BY <1>5, <2>1, <2>4 DEF x, y
<1>10. ASSUME NEW k \in 1 .. n
       PROVE  buffer[k] = IF l.iExtent + k - 1 \in DOMAIN l.image THEN l.image[l.iExtent + k - 1]
                          ELSE buffer[k - 1]
  BY <1>2, <1>5
<1>11. DirEntries(l.image, l.place, l.iExtent, l.iSize, l.back, l.memory) =
         SubSeq(W[n], 1, Least(Len(W[n]), l.memory))
  BY <1>3, <1>5 DEF Least
<1>12. ShownAs(l, n, buffer, W)
  <2> HIDE DEF buffer, W
  <2> QED
    BY <1>7, <1>8, <1>9, <1>10, <1>11 DEF ShownAs, R
<1>13. \E b, w : ShownAs(l, n, b, w)
  <2> HIDE DEF buffer, W
  <2> QED
    BY <1>12
<1> QED
  BY <1>1, <1>13 DEF n

\* No list is longer than memory lasts, whatever was read.
LEMMA ListLength ==
  ASSUME NEW l \in Listings
  PROVE  Len(DirEntries(l.image, l.place, l.iExtent, l.iSize, l.back, l.memory)) =< l.memory
<1> DEFINE n == Sectors(l.iSize)
           g == Read(l.image, l.place, l.iExtent, n)
           R == Seq(Records(l.image))
           w == Shows(g[n].records, l.back)
           m == IF Len(w) < l.memory THEN Len(w) ELSE l.memory
<1>1. /\ n \in Nat /\ IsImage(l.image) /\ l.place \in Int /\ l.iExtent \in Nat
      /\ l.memory \in Nat
  BY ListingType
<1>2. DirEntries(l.image, l.place, l.iExtent, l.iSize, l.back, l.memory) = SubSeq(w, 1, m)
  BY DEF DirEntries, Allocated, EntriesOf, Shows
<1> HIDE DEF n
<1>3. \A k \in 0 .. n : g[k] \in [place : Int, buffer : R, records : R]
  BY <1>1, ReadUnfolds
<1>4. g[n].records \in R
  <2>1. n \in 0 .. n
    BY <1>1
  <2> HIDE DEF g, R
  <2> QED
    BY <1>3, <2>1
<1>5. w \in Seq(Showable(l))
  <2> HIDE DEF g
  <2> QED
    BY <1>4, ShowsFacts
<1> HIDE DEF w
<1>6. Len(SubSeq(w, 1, m)) =< l.memory
  BY <1>1, <1>5
<1> QED
  BY <1>2, <1>6

\* A sector is listed in part, and whole if no record of it begins late.
LEMMA KeptIsPart ==
  ASSUME NEW l \in Listings, NEW s \in DOMAIN l.image
  PROVE  /\ ToSet(Kept(l, s)) \subseteq ToSet(EntriesIn(l, s))
         /\ ~BeginsLate(l.image[s]) => Kept(l, s) = EntriesIn(l, s)
<1> DEFINE records == l.image[s]
           n   == Len(records)
           fit == {k \in 1 .. n : Begin(records, k) + RecordBytes =< SectorBytes}
           c   == Cardinality(fit)
           R   == Records(l.image)
<1>1. records \in Seq(R) /\ \A r \in R : r.length \in Nat
  BY ListingAssumption
<1>2. n \in Nat
  BY <1>1
<1>3. c \in 0 .. n /\ Cardinality(1 .. n) = n
  <2>0. fit \subseteq 1 .. n
    OBVIOUS
  <2> HIDE DEF fit, n
  <2>1. IsFiniteSet(1 .. n) /\ Cardinality(1 .. n) = n
    BY <1>2, FS_Interval
  <2>2. IsFiniteSet(fit) /\ Cardinality(fit) =< n
    BY <2>0, <2>1, FS_Subset
  <2> QED
    BY <1>2, <2>1, <2>2, FS_CardinalityType
<1>4. Kept(l, s) = [k \in 1 .. c |-> Entry(records[k], l.back)]
  BY DEF Kept
<1>5. EntriesIn(l, s) = [k \in 1 .. n |-> Entry(records[k], l.back)]
  BY DEF EntriesIn
<1>6. ToSet(Kept(l, s)) \subseteq ToSet(EntriesIn(l, s))
  <2> HIDE DEF c, n, records
  <2>1. DOMAIN Kept(l, s) \subseteq DOMAIN EntriesIn(l, s)
    BY <1>2, <1>3, <1>4, <1>5
  <2>2. \A k \in DOMAIN Kept(l, s) : Kept(l, s)[k] = EntriesIn(l, s)[k]
    BY <1>4, <1>5, <2>1
  <2> QED
    BY <2>1, <2>2 DEF ToSet
<1>7. ASSUME ~BeginsLate(records) PROVE fit = 1 .. n
  <2> SUFFICES ASSUME NEW k \in 1 .. n PROVE Begin(records, k) + RecordBytes =< SectorBytes
    OBVIOUS
  <2>1. Begin(records, k) \in Nat /\ (k = 1 => Begin(records, k) = 0)
    <3> HIDE DEF records, R
    <3> QED
      BY <1>1, BeginIs
  <2>2. k = 1 \/ k \in 2 .. n
    BY <1>2
  <2>3. k \in 2 .. n => ~(Begin(records, k) + RecordBytes > SectorBytes)
    BY <1>7 DEF BeginsLate
  <2> DEFINE b == Begin(records, k)
  <2> HIDE DEF b, records, n
  <2>4. b \in Nat /\ (k = 1 => b = 0) /\ (k \in 2 .. n => ~(b + RecordBytes > SectorBytes))
    BY <2>1, <2>3 DEF b
  <2>5. b + RecordBytes =< SectorBytes
    BY <2>2, <2>4, IsoDirAssumption
  <2> QED
    BY <2>5 DEF b
<1> HIDE DEF fit, records, n
<1> QED
  BY <1>3, <1>4, <1>5, <1>6, <1>7 DEF records

\* The entries of a sector that are not lost are those of what is parsed of it.
LEMMA KeptIsShown ==
  ASSUME NEW l \in Listings, NEW s \in DOMAIN l.image
  PROVE  Kept(l, s) = Shows(Parsed(l.image[s]), l.back) /\ Parsed(l.image[s]) \in Seq(Records(l.image))
<1> DEFINE records == l.image[s]
           n   == Len(records)
           I   == {k \in 1 .. n : k = 1 \/ Begin(records, k) =< SectorBytes - RecordBytes}
           fit == {k \in 1 .. n : Begin(records, k) + RecordBytes =< SectorBytes}
           R   == Records(l.image)
           c   == Cardinality(I)
<1>1. records \in Seq(R) /\ \A r \in R : r.length \in Nat
  BY ListingAssumption
<1>2. n \in Nat /\ Parsed(records) \in Seq(R)
  <2> HIDE DEF records, R
  <2> QED
    BY <1>1, ParsedType
<1>3. fit = I
  <2>1. ASSUME NEW k \in 1 .. n
        PROVE  k \in fit <=> k \in I
    <3>1. Begin(records, k) \in Nat /\ (k = 1 => Begin(records, k) = 0)
      <4> HIDE DEF records, R
      <4> QED
        BY <1>1, BeginIs
    <3> DEFINE b == Begin(records, k)
    <3>2. b \in Nat /\ (k = 1 => b = 0)
      BY <3>1
    <3> HIDE DEF b
    <3>3. b + RecordBytes =< SectorBytes <=> k = 1 \/ b =< SectorBytes - RecordBytes
      BY <3>2, IsoDirAssumption
    <3> QED
      BY <3>3 DEF b
  <2>2. fit \subseteq 1 .. n /\ I \subseteq 1 .. n
    OBVIOUS
  <2> HIDE DEF fit, I
  <2> QED
    BY <2>1, <2>2
<1>4. c \in 0 .. n
  <2>0. I \subseteq 1 .. n
    OBVIOUS
  <2> HIDE DEF I, n
  <2>1. IsFiniteSet(1 .. n) /\ Cardinality(1 .. n) = n
    BY <1>2, FS_Interval
  <2>2. IsFiniteSet(I) /\ Cardinality(I) =< n
    BY <1>2, <2>0, <2>1, FS_Subset
  <2> QED
    BY <1>2, <2>2, FS_CardinalityType
<1>5. Parsed(records) = SubSeq(records, 1, c)
  BY DEF Parsed
<1>6. Kept(l, s) = [k \in 1 .. Cardinality(fit) |-> Entry(records[k], l.back)]
  BY DEF Kept
<1>7. Kept(l, s) = [k \in 1 .. c |-> Entry(records[k], l.back)]
  BY <1>3, <1>6
<1> HIDE DEF c, fit, I, records
<1>8. Len(SubSeq(records, 1, c)) = c /\ \A k \in 1 .. c : SubSeq(records, 1, c)[k] = records[k]
  <2> HIDE DEF R
  <2> QED
    BY <1>1, <1>4
<1>9. Kept(l, s) = Shows(SubSeq(records, 1, c), l.back)
  BY <1>7, <1>8 DEF Shows
<1> QED
  BY <1>2, <1>5, <1>9 DEF records

\* Lists of elements of E that grow by more[k] in the k-th turn.
Grow(W, n, E, more) ==
  /\ n \in Nat /\ W \in [0 .. n -> Seq(E)] /\ more \in [1 .. n -> Seq(E)]
  /\ \A k \in 1 .. n : W[k] = W[k - 1] \o more[k]

\* What was listed stays where it is when more is listed.
LEMMA ListGrows ==
  ASSUME NEW W, NEW n, NEW E, NEW more, Grow(W, n, E, more)
  PROVE  \A m \in 0 .. n : \A k \in 0 .. m :
           Len(W[k]) =< Len(W[m]) /\ \A i \in 1 .. Len(W[k]) : W[m][i] = W[k][i]
<1> DEFINE Grown(k, m) == Len(W[k]) =< Len(W[m]) /\ \A i \in 1 .. Len(W[k]) : W[m][i] = W[k][i]
           T == {m \in 0 .. n : \A k \in 0 .. m : Grown(k, m)}
<1>0. /\ n \in Nat /\ W \in [0 .. n -> Seq(E)] /\ more \in [1 .. n -> Seq(E)]
      /\ \A k \in 1 .. n : W[k] = W[k - 1] \o more[k]
  BY DEF Grow
<1>1. \A k \in 0 .. n : W[k] \in Seq(E) /\ Len(W[k]) \in Nat
  BY <1>0
<1>2. \A k \in 0 .. n : Grown(k, k)
  BY <1>1
<1>3. 0 \in T
  <2>1. 0 \in 0 .. n /\ \A k \in 0 .. 0 : k = 0
    BY <1>0
  <2> HIDE DEF Grown
  <2> QED
    BY <1>2, <2>1
<1>4. ASSUME NEW m \in 1 .. n, m - 1 \in T PROVE m \in T
  <2>1. m - 1 \in 0 .. n /\ m \in 0 .. n /\ \A k \in 0 .. m : k = m \/ k \in 0 .. m - 1
    BY <1>0
  <2>2. ASSUME NEW k \in 0 .. m - 1 PROVE Grown(k, m)
    <3>1. Grown(k, m - 1) /\ k \in 0 .. n
      BY <1>0, <1>4
    <3> DEFINE a == W[m - 1]
               b == more[m]
               c == W[k]
    <3>2. a \in Seq(E) /\ b \in Seq(E) /\ c \in Seq(E) /\ W[m] = a \o b
      BY <1>0, <1>1, <2>1, <3>1
    <3>3. Len(c) =< Len(a) /\ \A i \in 1 .. Len(c) : a[i] = c[i]
      BY <3>1
    <3> HIDE DEF a, b, c
    <3>4. Len(c) =< Len(a \o b) /\ \A i \in 1 .. Len(c) : (a \o b)[i] = c[i]
      <4>1. Len(a) \in Nat /\ Len(b) \in Nat /\ Len(c) \in Nat /\ Len(a \o b) = Len(a) + Len(b)
        BY <3>2
      <4>2. \A i \in 1 .. Len(a) : (a \o b)[i] = a[i]
        BY <3>2
      <4>3. \A i \in 1 .. Len(c) : i \in 1 .. Len(a)
        BY <3>3, <4>1
      <4>4. Len(c) =< Len(a \o b)
        BY <3>3, <4>1
      <4> QED
        BY <3>3, <4>2, <4>3, <4>4
    <3> QED
      BY <3>2, <3>4 DEF c
  <2> HIDE DEF Grown
  <2> QED
    BY <1>2, <2>1, <2>2
<1>5. T \in SUBSET (0 .. n)
  OBVIOUS
<1> HIDE DEF T
<1>6. T = 0 .. n
  BY <1>0, <1>3, <1>4, <1>5, Induction
<1> QED
  BY <1>6 DEF T

\* Where every sector can be read, the list is what is kept of them, in their order.
LEMMA ListInOrder ==
  ASSUME NEW l \in Listings, NEW buffer, NEW W, ShownAs(l, Sectors(l.iSize), buffer, W),
         \A s \in l.iExtent .. l.iExtent + Sectors(l.iSize) - 1 : s \in DOMAIN l.image
  PROVE  FlattenSeq([k \in 1 .. Sectors(l.iSize) |-> Kept(l, l.iExtent + k - 1)]) = W[Sectors(l.iSize)]
<1> DEFINE n    == Sectors(l.iSize)
           E    == Showable(l)
           kept == [k \in 1 .. n |-> Kept(l, l.iExtent + k - 1)]
<1>1. n \in Nat /\ l.iExtent \in Nat
  BY ListingAssumption, SectorsType
<1>2. ASSUME NEW k \in 1 .. n
      PROVE  /\ l.iExtent + k - 1 \in DOMAIN l.image
             /\ Kept(l, l.iExtent + k - 1) = Shows(Parsed(buffer[k]), l.back)
             /\ Kept(l, l.iExtent + k - 1) \in Seq(E)
  <2> DEFINE s == l.iExtent + k - 1
  <2>1. s \in l.iExtent .. l.iExtent + Sectors(l.iSize) - 1
    BY <1>1
  <2>2. s \in DOMAIN l.image
    BY <2>1
  <2>3. buffer[k] = l.image[s]
    BY <2>2 DEF ShownAs
  <2> HIDE DEF s, n, E
  <2>4. Kept(l, s) = Shows(Parsed(l.image[s]), l.back) /\ Parsed(l.image[s]) \in Seq(Records(l.image))
    BY <2>2, KeptIsShown
  <2>5. Shows(Parsed(l.image[s]), l.back) \in Seq(E)
    BY <2>4, ShowsFacts DEF E
  <2> QED
    BY <2>2, <2>3, <2>4, <2>5 DEF s
<1>3. /\ W \in [0 .. n -> Seq(E)] /\ W[0] = <<>>
      /\ \A k \in 1 .. n : W[k] = W[k - 1] \o Shows(Parsed(buffer[k]), l.back)
  BY DEF ShownAs
<1> HIDE DEF n, E
<1>4. kept \in Seq(Seq(E)) /\ Len(kept) = n /\ \A k \in 1 .. n : kept[k] = Shows(Parsed(buffer[k]), l.back)
  <2> DEFINE Q == Seq(E)
             part(k) == Kept(l, l.iExtent + k - 1)
  <2>1. \A k \in 1 .. n : part(k) \in Q /\ part(k) = Shows(Parsed(buffer[k]), l.back)
    BY <1>2
  <2>2. kept = [k \in 1 .. n |-> part(k)]
    OBVIOUS
  <2> HIDE DEF Q, part, kept
  <2>3. kept \in Seq(Q) /\ Len(kept) = n /\ \A k \in 1 .. n : kept[k] = part(k)
    BY <1>1, <2>1, <2>2
  <2> QED
    BY <2>1, <2>3 DEF Q
<1> HIDE DEF kept
<1>5. PICK f : /\ f[0] = <<>>
               /\ \A k \in 1 .. Len(kept) : f[k] = f[k - 1] \o kept[k]
               /\ FlattenSeq(kept) = f[Len(kept)]
  BY <1>4, FlattenUnfolds
<1>6. f[n] = W[n]
  <2> DEFINE T == {k \in 0 .. n : f[k] = W[k]}
  <2>1. 0 \in T
    BY <1>1, <1>3, <1>5
  <2>2. ASSUME NEW k \in 1 .. n, k - 1 \in T PROVE k \in T
    <3>1. k \in 0 .. n
      OBVIOUS
    <3>2. f[k] = f[k - 1] \o kept[k] /\ f[k - 1] = W[k - 1]
      BY <1>4, <1>5, <2>2
    <3> QED
      BY <1>3, <1>4, <3>1, <3>2
  <2>3. T \in SUBSET (0 .. n)
    OBVIOUS
  <2> HIDE DEF T
  <2>4. T = 0 .. n
    BY <1>1, <2>1, <2>2, <2>3, Induction
  <2>5. n \in 0 .. n
    BY <1>1
  <2> QED
    BY <2>4, <2>5 DEF T
<1> QED
  BY <1>4, <1>5, <1>6 DEF kept, n

\* The sectors of a directory that can be read.
Readable(l) == (l.iExtent .. l.iExtent + Sectors(l.iSize) - 1) \cap DOMAIN l.image

\* The entries of those sectors are found in a list, in their order.
HasAll(l, list) ==
  \E at \in [Readable(l) -> 0 .. Len(list)] :
    \A s \in Readable(l) :
      /\ \A k \in DOMAIN Kept(l, s) : at[s] + k \in DOMAIN list /\ list[at[s] + k] = Kept(l, s)[k]
      /\ \A t \in Readable(l) : s < t => at[s] + Len(Kept(l, s)) =< at[t]

\* A list has no entries but those.
MadeOf(l, list) ==
  \A i \in DOMAIN list : \E s \in Readable(l) : \E k \in DOMAIN Kept(l, s) : list[i] = Kept(l, s)[k]

\* No entry of a sector that can be read is missing.
LEMMA ListHasAll ==
  ASSUME NEW l \in Listings, NEW buffer, NEW W, ShownAs(l, Sectors(l.iSize), buffer, W)
  PROVE  HasAll(l, W[Sectors(l.iSize)])
<1> DEFINE n        == Sectors(l.iSize)
           E        == Showable(l)
           sectors  == l.iExtent .. l.iExtent + n - 1
           readable == sectors \cap DOMAIN l.image
           whole    == W[n]
           at       == [s \in readable |-> Len(W[s - l.iExtent])]
<1>1. n \in Nat /\ l.iExtent \in Nat
  BY ListingAssumption, SectorsType
<1>2. /\ W \in [0 .. n -> Seq(E)]
      /\ \A k \in 1 .. n : W[k] = W[k - 1] \o Shows(Parsed(buffer[k]), l.back)
      /\ buffer \in [0 .. n -> Seq(Records(l.image))]
  BY DEF ShownAs
<1>3. ASSUME NEW s \in readable
      PROVE  /\ s \in Nat /\ s - l.iExtent \in 0 .. n /\ s - l.iExtent + 1 \in 1 .. n
             /\ W[s - l.iExtent + 1] = W[s - l.iExtent] \o Kept(l, s)
             /\ Kept(l, s) \in Seq(E)
  <2>1. /\ s \in Nat /\ s - l.iExtent \in 0 .. n /\ s - l.iExtent + 1 \in 1 .. n
        /\ l.iExtent + (s - l.iExtent + 1) - 1 = s /\ s - l.iExtent + 1 - 1 = s - l.iExtent
    BY <1>1
  <2>2. buffer[s - l.iExtent + 1] = l.image[s]
    BY <2>1 DEF ShownAs
  <2> HIDE DEF n, E
  <2>3. Kept(l, s) = Shows(Parsed(l.image[s]), l.back) /\ Parsed(l.image[s]) \in Seq(Records(l.image))
    BY KeptIsShown
  <2>4. Shows(Parsed(l.image[s]), l.back) \in Seq(E)
    BY <2>3, ShowsFacts DEF E
  <2> DEFINE k == s - l.iExtent + 1
             shows(j) == Shows(Parsed(buffer[j]), l.back)
  <2>5. \A j \in 1 .. n : W[j] = W[j - 1] \o shows(j)
    BY <1>2
  <2>6. shows(k) = Kept(l, s) /\ k \in 1 .. n /\ k - 1 = s - l.iExtent
    BY <2>1, <2>2, <2>3
  <2> HIDE DEF k, shows
  <2>7. W[k] = W[s - l.iExtent] \o Kept(l, s)
    BY <2>5, <2>6
  <2> QED
    BY <2>1, <2>3, <2>4, <2>7 DEF k
<1>4. \A m \in 0 .. n : \A k \in 0 .. m :
        Len(W[k]) =< Len(W[m]) /\ \A i \in 1 .. Len(W[k]) : W[m][i] = W[k][i]
  <2> DEFINE add == [k \in 1 .. n |-> Shows(Parsed(buffer[k]), l.back)]
  <2>1. add \in [1 .. n -> Seq(E)]
    <3>1. ASSUME NEW k \in 1 .. n PROVE Shows(Parsed(buffer[k]), l.back) \in Seq(E)
      <4> DEFINE R == Records(l.image)
                 b == buffer[k]
      <4>1. b \in Seq(R)
        BY <1>1, <1>2
      <4> HIDE DEF R, b
      <4>2. Parsed(b) \in Seq(R)
        BY <4>1, ParsedType
      <4> QED
        BY <4>2, ShowsFacts DEF R, b
    <3> QED
      BY <3>1
  <2>2. \A k \in 1 .. n : W[k] = W[k - 1] \o add[k]
    BY <1>2
  <2>3. W \in [0 .. n -> Seq(E)]
    BY <1>2
  <2>4. n \in Nat
    BY <1>1
  <2> HIDE DEF add, n, E
  <2>5. Grow(W, n, E, add)
    BY <2>1, <2>2, <2>3, <2>4 DEF Grow
  <2> QED
    BY <2>5, ListGrows
<1>5. n \in 0 .. n /\ \A k \in 0 .. n : W[k] \in Seq(E) /\ Len(W[k]) \in Nat
  BY <1>1, <1>2
<1>6. ASSUME NEW s \in readable, NEW k \in DOMAIN Kept(l, s)
      PROVE  at[s] + k \in DOMAIN whole /\ whole[at[s] + k] = Kept(l, s)[k]
  <2> DEFINE a == W[s - l.iExtent]
             b == Kept(l, s)
             c == W[s - l.iExtent + 1]
  <2>1. /\ a \in Seq(E) /\ b \in Seq(E) /\ c \in Seq(E) /\ c = a \o b /\ at[s] = Len(a) /\ whole \in Seq(E)
        /\ Len(c) =< Len(whole) /\ \A i \in 1 .. Len(c) : whole[i] = c[i]
    <3>1. s - l.iExtent + 1 \in 0 .. n /\ s - l.iExtent \in 0 .. n
      BY <1>3
    <3> HIDE DEF n, E
    <3> QED
      BY <1>3, <1>4, <1>5, <3>1
  <2>2. k \in DOMAIN b
    OBVIOUS
  <2> HIDE DEF a, b, c, at, whole
  <2>3. Len(a) + k \in 1 .. Len(c) /\ c[Len(a) + k] = b[k]
    BY <2>1, <2>2
  <2>4. Len(a) + k \in DOMAIN whole
    BY <2>1, <2>3
  <2> QED
    BY <2>1, <2>3, <2>4 DEF b
<1>7. ASSUME NEW s \in readable, NEW t \in readable, s < t
      PROVE  at[s] + Len(Kept(l, s)) =< at[t]
  <2>1. s - l.iExtent + 1 \in 0 .. t - l.iExtent /\ t - l.iExtent \in 0 .. n
    <3> DEFINE e == l.iExtent
               i == s - e
               j == t - e
    <3>1. i \in 0 .. n /\ j \in 0 .. n /\ s \in Nat /\ t \in Nat /\ e \in Nat
      BY <1>1, <1>3
    <3> HIDE DEF e, n
    <3>2. i < j
      BY <1>7, <3>1
    <3> HIDE DEF i, j
    <3>3. i + 1 \in 0 .. j
      BY <3>1, <3>2
    <3> QED
      BY <3>1, <3>3 DEF i, j, e
  <2>2. Len(W[s - l.iExtent + 1]) =< Len(W[t - l.iExtent])
    BY <1>4, <2>1
  <2>3. W[s - l.iExtent + 1] = W[s - l.iExtent] \o Kept(l, s) /\ Kept(l, s) \in Seq(E) /\ W[s - l.iExtent] \in Seq(E)
    BY <1>3, <1>5
  <2> DEFINE a == W[s - l.iExtent]
             b == Kept(l, s)
  <2> HIDE DEF n, E, a, b
  <2>4. Len(a \o b) = Len(a) + Len(b)
    BY <2>3 DEF a, b
  <2> QED
    BY <2>2, <2>3, <2>4 DEF a, b
<1>8. at \in [readable -> 0 .. Len(whole)]
  <2>1. \A s \in readable : Len(W[s - l.iExtent]) \in 0 .. Len(whole)
    BY <1>3, <1>4, <1>5
  <2> QED
    BY <2>1
<1>9. readable = Readable(l)
  BY DEF Readable
<1> HIDE DEF at, readable, whole
<1>10. HasAll(l, whole)
  BY <1>6, <1>7, <1>8, <1>9 DEF HasAll
<1> QED
  BY <1>10 DEF whole

\* No entry is listed but those of the sectors that can be read.
LEMMA ListMadeOf ==
  ASSUME NEW l \in Listings, NEW buffer, NEW W, ShownAs(l, Sectors(l.iSize), buffer, W)
  PROVE  MadeOf(l, W[Sectors(l.iSize)])
<1> DEFINE n        == Sectors(l.iSize)
           E        == Showable(l)
           sectors  == l.iExtent .. l.iExtent + n - 1
           readable == sectors \cap DOMAIN l.image
           shows(k) == Shows(Parsed(buffer[k]), l.back)
           Made(e)  == \E s \in readable : \E k \in DOMAIN Kept(l, s) : e = Kept(l, s)[k]
           Whole(k) == buffer[k] = <<>> \/ \E s \in readable : buffer[k] = l.image[s]
           Fine(k)  == Whole(k) /\ \A i \in DOMAIN W[k] : Made(W[k][i])
           T        == {k \in 0 .. n : Fine(k)}
<1>1. n \in Nat /\ l.iExtent \in Nat
  BY ListingAssumption, SectorsType
<1>2. /\ W \in [0 .. n -> Seq(E)] /\ W[0] = <<>> /\ buffer[0] = <<>>
      /\ \A k \in 1 .. n : W[k] = W[k - 1] \o shows(k)
      /\ buffer \in [0 .. n -> Seq(Records(l.image))]
      /\ \A k \in 1 .. n : buffer[k] = IF l.iExtent + k - 1 \in DOMAIN l.image
                                       THEN l.image[l.iExtent + k - 1] ELSE buffer[k - 1]
  BY DEF ShownAs
<1>3. 0 \in T
  <2>1. DOMAIN W[0] = {} /\ 0 \in 0 .. n
    BY <1>1, <1>2
  <2> HIDE DEF Made, n
  <2> QED
    BY <1>2, <2>1
<1>4. ASSUME NEW k \in 1 .. n, k - 1 \in T PROVE k \in T
  <2>1. /\ k \in 0 .. n /\ k - 1 \in 0 .. n
        /\ l.iExtent + k - 1 \in sectors
    BY <1>1
  <2>2. Fine(k - 1)
    BY <1>4
  <2>3. Whole(k)
    <3>1. CASE l.iExtent + k - 1 \in DOMAIN l.image
      <4>1. buffer[k] = l.image[l.iExtent + k - 1] /\ l.iExtent + k - 1 \in readable
        BY <1>2, <2>1, <3>1
      <4> HIDE DEF readable
      <4> QED
        BY <4>1
    <3>2. CASE l.iExtent + k - 1 \notin DOMAIN l.image
      <4> HIDE DEF readable
      <4> QED
        BY <1>2, <2>2, <3>2
    <3> QED
      BY <3>1, <3>2
  <2>4. ASSUME NEW i \in DOMAIN shows(k) PROVE Made(shows(k)[i])
    <3>1. CASE buffer[k] = <<>>
      <4>1. Parsed(<<>>) = <<>>
        <5> DEFINE I == {j \in 1 .. Len(<<>>) : j = 1 \/ Begin(<<>>, j) =< SectorBytes - RecordBytes}
        <5>1. Parsed(<<>>) = SubSeq(<<>>, 1, Cardinality(I))
          BY DEF Parsed
        <5>2. I = {}
          OBVIOUS
        <5>3. Cardinality(I) = 0
          BY <5>2, FS_EmptySet
        <5> HIDE DEF I
        <5> QED
          BY <5>1, <5>3
      <4>2. Shows(<<>>, l.back) = <<>>
        BY DEF Shows
      <4>3. DOMAIN shows(k) = {}
        BY <3>1, <4>1, <4>2
      <4> QED
        BY <4>3
    <3>2. CASE \E s \in readable : buffer[k] = l.image[s]
      <4>1. PICK s \in readable : buffer[k] = l.image[s]
        BY <3>2
      <4>2. s \in DOMAIN l.image
        BY <4>1
      <4>3. Kept(l, s) = shows(k)
        BY <4>1, <4>2, KeptIsShown
      <4> HIDE DEF readable, shows
      <4> QED
        BY <4>1, <4>3
    <3> QED
      BY <2>3, <3>1, <3>2
  <2>5. shows(k) \in Seq(E)
    <3> DEFINE R == Records(l.image)
               b == buffer[k]
    <3>1. b \in Seq(R)
      BY <1>2, <2>1
    <3> HIDE DEF R, b
    <3>2. Parsed(b) \in Seq(R)
      BY <3>1, ParsedType
    <3> QED
      BY <3>2, ShowsFacts DEF R, b
  <2>6. \A i \in DOMAIN W[k] : Made(W[k][i])
    <3> DEFINE a == W[k - 1]
               b == shows(k)
    <3>1. a \in Seq(E) /\ b \in Seq(E) /\ W[k] = a \o b
      BY <1>2, <2>1, <2>5
    <3>2. (\A i \in DOMAIN a : Made(a[i])) /\ \A i \in DOMAIN b : Made(b[i])
      BY <2>2, <2>4
    <3> HIDE DEF a, b, Made, E
    <3>3. ASSUME NEW i \in DOMAIN (a \o b) PROVE Made((a \o b)[i])
      <4>0. /\ Len(a) \in Nat /\ Len(b) \in Nat /\ i \in 1 .. Len(a) + Len(b)
            /\ DOMAIN a = 1 .. Len(a) /\ DOMAIN b = 1 .. Len(b)
        BY <3>1
      <4>1. CASE i =< Len(a)
        <5>1. i \in DOMAIN a /\ (a \o b)[i] = a[i]
          BY <3>1, <4>0, <4>1
        <5> QED
          BY <3>2, <5>1
      <4>2. CASE i > Len(a)
        <5>1. i - Len(a) \in DOMAIN b /\ (a \o b)[i] = b[i - Len(a)]
          BY <3>1, <4>0, <4>2
        <5> QED
          BY <3>2, <5>1
      <4>3. i =< Len(a) \/ i > Len(a)
        BY <4>0
      <4> QED
        BY <4>1, <4>2, <4>3
    <3> QED
      BY <3>1, <3>3
  <2> HIDE DEF Made, Whole
  <2> QED
    BY <2>1, <2>3, <2>6
<1>5. T \in SUBSET (0 .. n)
  OBVIOUS
<1> HIDE DEF T
<1>6. T = 0 .. n
  BY <1>1, <1>3, <1>4, <1>5, Induction
<1>7. n \in T
  BY <1>1, <1>6
<1>8. readable = Readable(l)
  BY DEF Readable
<1> HIDE DEF readable
<1> QED
  BY <1>7, <1>8 DEF T, MadeOf

\* A directory within lseek()'s reach is listed as entries of it; in its order, and whole as
\* far as it can be read and memory lasts, if no record begins late.
THEOREM ListingAlwaysWhole == Spec => []ListingWhole
<1>1. JobInv => ListingWhole
  <2> SUFFICES ASSUME JobInv, job.kind = "list" PROVE ListingWhole
    BY DEF ListingWhole
  <2> DEFINE l        == job.listing
             n        == Sectors(l.iSize)
             sectors  == SectorsOf(l)
             readable == sectors \cap DOMAIN l.image
             listed   == DirEntries(l.image, l.place, l.iExtent, l.iSize, l.back, l.memory)
             all      == [k \in 1 .. n |-> EntriesIn(l, l.iExtent + k - 1)]
             whole    == FlattenSeq(all)
             kept     == [k \in 1 .. n |-> Kept(l, l.iExtent + k - 1)]
  <2>1. l \in Listings
    BY DEF JobInv
  <2>2. n \in Nat /\ l.memory \in Nat /\ l.iExtent \in Nat
    BY <2>1, ListingAssumption, SectorsType
  <2>3. Len(listed) =< l.memory
    <3> HIDE DEF l
    <3> QED
      BY <2>1, ListLength
  <2> HIDE DEF l
  <2>4. ASSUME Reachable(l)
        PROVE  /\ \A e \in ToSet(listed) : \E s \in readable : e \in ToSet(EntriesIn(l, s))
               /\ (\A s \in readable : ~BeginsLate(l.image[s])) =>
                    /\ readable = sectors => listed = SubSeq(whole, 1, Least(Len(whole), l.memory))
                    /\ Len(listed) < l.memory =>
                         \E at \in [readable -> 0 .. Len(listed)] :
                           \A s \in readable :
                             /\ \A k \in DOMAIN EntriesIn(l, s) :
                                  at[s] + k \in DOMAIN listed /\ listed[at[s] + k] = EntriesIn(l, s)[k]
                             /\ \A t \in readable : s < t => at[s] + Len(EntriesIn(l, s)) =< at[t]
    <3>1. PICK buffer, W : ShownAs(l, n, buffer, W)
      BY <2>1, <2>4, DirEntriesUnfold
    <3> DEFINE w == W[n]
               E == Showable(l)
               m == Least(Len(w), l.memory)
    <3>2. w \in Seq(E) /\ listed = SubSeq(w, 1, m)
      BY <2>2, <3>1 DEF ShownAs
    <3>3. Len(w) \in Nat /\ m \in 0 .. Len(w) /\ m =< l.memory /\ (m < l.memory => m = Len(w))
      <4>1. Len(w) \in Nat
        BY <3>2
      <4> HIDE DEF w
      <4> QED
        BY <2>2, <4>1 DEF Least
    <3>4. /\ Len(listed) = m /\ (m = Len(w) => listed = w)
          /\ \A i \in DOMAIN listed : i \in DOMAIN w /\ listed[i] = w[i]
      <4>1. SubSeq(w, 1, m) \in Seq(E) /\ Len(SubSeq(w, 1, m)) = m
            /\ \A i \in 1 .. m : SubSeq(w, 1, m)[i] = w[i]
        <5> HIDE DEF w, m, E
        <5> QED
          BY <3>2, <3>3
      <4> HIDE DEF w, m, E, listed
      <4>2. DOMAIN listed = 1 .. m /\ DOMAIN w = 1 .. Len(w)
        BY <3>2, <4>1
      <4>3. m = Len(w) => listed = w
        BY <3>2, <3>3, <4>1, <4>2
      <4>4. Len(listed) = m
        BY <3>2, <4>1
      <4>5. \A i \in 1 .. m : i \in 1 .. Len(w) /\ listed[i] = w[i]
        BY <3>2, <3>3, <4>1
      <4> QED
        BY ONLY <4>2, <4>3, <4>4, <4>5
    <3>5. ASSUME NEW e \in ToSet(listed)
          PROVE  \E s \in readable : e \in ToSet(EntriesIn(l, s))
      <4>1. PICK i \in DOMAIN listed : e = listed[i]
        <5> HIDE DEF listed
        <5> QED
          BY DEF ToSet
      <4>2. i \in DOMAIN w /\ e = w[i]
        <5> HIDE DEF listed, w, m
        <5> QED
          BY <3>4, <4>1
      <4>3. MadeOf(l, w)
        BY <2>1, <3>1, ListMadeOf
      <4>4. \E s \in readable : \E k \in DOMAIN Kept(l, s) : e = Kept(l, s)[k]
        <5>1. readable = Readable(l)
          BY DEF Readable, SectorsOf
        <5> HIDE DEF readable, w
        <5> QED
          BY <4>2, <4>3, <5>1 DEF MadeOf
      <4>5. PICK s \in readable : e \in ToSet(Kept(l, s))
        <5> HIDE DEF readable
        <5> QED
          BY <4>4 DEF ToSet
      <4>6. s \in DOMAIN l.image
        OBVIOUS
      <4>7. e \in ToSet(EntriesIn(l, s))
        BY <2>1, <4>5, <4>6, KeptIsPart
      <4> HIDE DEF readable
      <4> QED
        BY <4>7
    <3>6. ASSUME \A s \in readable : ~BeginsLate(l.image[s])
          PROVE  /\ readable = sectors => listed = SubSeq(whole, 1, Least(Len(whole), l.memory))
                 /\ Len(listed) < l.memory =>
                      \E at \in [readable -> 0 .. Len(listed)] :
                        \A s \in readable :
                          /\ \A k \in DOMAIN EntriesIn(l, s) :
                               at[s] + k \in DOMAIN listed /\ listed[at[s] + k] = EntriesIn(l, s)[k]
                          /\ \A t \in readable : s < t => at[s] + Len(EntriesIn(l, s)) =< at[t]
      <4>1. \A s \in readable : Kept(l, s) = EntriesIn(l, s)
        <5> SUFFICES ASSUME NEW s \in readable PROVE Kept(l, s) = EntriesIn(l, s)
          OBVIOUS
        <5>1. s \in DOMAIN l.image /\ ~BeginsLate(l.image[s])
          BY <3>6
        <5> QED
          BY <2>1, <5>1, KeptIsPart
      <4>2. ASSUME readable = sectors
            PROVE  listed = SubSeq(whole, 1, Least(Len(whole), l.memory))
        <5> SUFFICES whole = w
          BY <3>2
        <5>1. \A s \in l.iExtent .. l.iExtent + Sectors(l.iSize) - 1 : s \in DOMAIN l.image
          BY <4>2 DEF SectorsOf
        <5>2. FlattenSeq(kept) = w
          <6> HIDE DEF sectors, readable
          <6> QED
            BY <2>1, <3>1, <5>1, ListInOrder
        <5>3. \A k \in 1 .. n : l.iExtent + k - 1 \in sectors
          <6> HIDE DEF n
          <6> QED
            BY <2>2 DEF SectorsOf, n
        <5>4. \A k \in 1 .. n : Kept(l, l.iExtent + k - 1) = EntriesIn(l, l.iExtent + k - 1)
          <6> HIDE DEF n, sectors, readable
          <6> QED
            BY <4>1, <4>2, <5>3
        <5>5. kept = all
          <6> HIDE DEF n
          <6> QED
            BY <5>4
        <5> HIDE DEF kept, all
        <5> QED
          BY <5>2, <5>5
      <4>3. ASSUME Len(listed) < l.memory
            PROVE  \E at \in [readable -> 0 .. Len(listed)] :
                     \A s \in readable :
                       /\ \A k \in DOMAIN EntriesIn(l, s) :
                            at[s] + k \in DOMAIN listed /\ listed[at[s] + k] = EntriesIn(l, s)[k]
                       /\ \A t \in readable : s < t => at[s] + Len(EntriesIn(l, s)) =< at[t]
        <5>1. listed = w
          <6> HIDE DEF listed, w, m
          <6> QED
            BY <3>3, <3>4, <4>3
        <5>2. HasAll(l, w)
          BY <2>1, <3>1, ListHasAll
        <5>3. readable = Readable(l)
          BY DEF Readable, SectorsOf
        <5> HIDE DEF listed, w, readable
        <5>4. PICK at \in [readable -> 0 .. Len(listed)] :
                \A s \in readable :
                  /\ \A k \in DOMAIN Kept(l, s) :
                       at[s] + k \in DOMAIN listed /\ listed[at[s] + k] = Kept(l, s)[k]
                  /\ \A t \in readable : s < t => at[s] + Len(Kept(l, s)) =< at[t]
          BY <5>1, <5>2, <5>3 DEF HasAll
        <5>5. \A s \in readable :
                /\ \A k \in DOMAIN EntriesIn(l, s) :
                     at[s] + k \in DOMAIN listed /\ listed[at[s] + k] = EntriesIn(l, s)[k]
                /\ \A t \in readable : s < t => at[s] + Len(EntriesIn(l, s)) =< at[t]
          BY <4>1, <5>4
        <5> QED
          BY <5>5
      <4> QED
        BY <4>2, <4>3
    <3> QED
      BY <3>5, <3>6
  <2> HIDE DEF n
  <2> QED
    BY <2>3, <2>4 DEF ListingWhole, l, n
<1> QED
  BY <1>1, JobAlways, PTL

=============================================================================

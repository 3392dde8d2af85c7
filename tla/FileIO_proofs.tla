---------------------------- MODULE FileIO_proofs ----------------------------
(* Proofs about FileIO: whatever is read, sought, refused or lost, a program    *)
(* gets the bytes of the file, for words, sectors and images of any size.       *)
EXTENDS FileIO, NumberFacts

\* The width of ULONG is a natural, and half of it is in between.
LEMMA WordFacts == /\ Word \in Nat \ {0} /\ Sector \in Nat \ {0} /\ ImageSize \in Nat
                   /\ Word \div 2 \in 0 .. Word - 1
<1>1. Word \in Nat \ {0} /\ Sector \in Nat \ {0} /\ ImageSize \in Nat
  BY WordAssumption, FileAssumption
<1>2. Word \div 2 \in Nat /\ Word % 2 \in 0 .. 1 /\ Word = 2 * (Word \div 2) + (Word % 2)
  BY <1>1, DivMod, DivNatural
<1> QED
  BY <1>1, <1>2

\* A natural is so many sectors, and an offset in the next.
LEMMA SectorDivMod ==
  ASSUME NEW n \in Nat
  PROVE  /\ n \div Sector \in Nat /\ n % Sector \in 0 .. Sector - 1 /\ n % Sector \in Nat
         /\ n = Sector * (n \div Sector) + (n % Sector)
<1>1. Sector \in Nat \ {0} /\ n \in Int
  BY WordFacts
<1>2. n \div Sector \in Nat
  BY <1>1, DivNatural, Zenon
<1>3. n % Sector \in 0 .. Sector - 1 /\ n = Sector * (n \div Sector) + (n % Sector)
  BY <1>1, DivMod, Zenon
<1>4. n % Sector \in Nat
  BY <1>1, <1>3
<1> QED
  BY <1>2, <1>3, <1>4, Zenon

\* What a ULONG means when it is signed.
LEMMA SignedFacts ==
  ASSUME NEW n \in 0 .. Word - 1
  PROVE  /\ Signed(n) \in Int
         /\ n < Word \div 2 => Signed(n) = n
         /\ Signed(n) >= 0 => Signed(n) \in 0 .. Word - 1
BY WordFacts DEF Signed

\* A remainder modulo Word is a ULONG.
LEMMA WordMod ==
  ASSUME NEW n \in Int
  PROVE  /\ n % Word \in 0 .. Word - 1
         /\ n \in 0 .. Word - 1 => n % Word = n
BY WordFacts, DivMod, ModSmall

\* The image is read from where the sector begins, when an offset there fits a LONG.
LEMMA ByteAt ==
  ASSUME NEW sector \in Nat, NEW offset \in Nat
  PROVE  /\ Byte(sector, offset) \in Int
         /\ sector * Sector + offset < Least(ImageSize, Word \div 2)
              => Byte(sector, offset) = sector * Sector + offset
<1> DEFINE place == sector * Sector
           seek  == Signed(place % Word)
           half  == Word \div 2
<1>1. place \in Nat /\ place % Word \in 0 .. Word - 1
  BY WordFacts, Products, WordMod
<1>2. seek \in Int
  BY <1>1, SignedFacts
<1>3. ImageSize \in Nat /\ Word \div 2 \in 0 .. Word - 1
  BY WordFacts
<1>4. Byte(sector, offset) = IF seek >= 0 /\ seek + offset < ImageSize THEN seek + offset ELSE -1
  BY DEF Byte, Unknown
<1>5. ASSUME place + offset < Least(ImageSize, Word \div 2)
      PROVE  seek = place /\ place + offset < ImageSize
  <2>0. Word \in Nat /\ half \in 0 .. Word - 1 /\ place + offset < Least(ImageSize, half)
    BY <1>5, WordFacts
  <2> HIDE DEF place, seek, half
  <2>1. place + offset < ImageSize /\ place < half /\ place \in 0 .. Word - 1
    BY <1>1, <1>3, <2>0 DEF Least
  <2>2. place % Word = place
    BY <2>1, WordMod
  <2> QED
    BY <2>1, <2>2, SignedFacts DEF seek, half
<1> HIDE DEF place, seek
<1>6. Byte(sector, offset) \in Int
  BY <1>2, <1>3, <1>4
<1>7. ASSUME place + offset < Least(ImageSize, Word \div 2)
      PROVE  Byte(sector, offset) = place + offset
  BY <1>1, <1>4, <1>5, <1>7
<1> QED
  BY <1>6, <1>7 DEF place

\* What is read are bytes, as many as were asked for.
FileTyped == file \in Files /\ sfi_position \in 0 .. Word - 1

\* Ranges of the file's fields and of the position.
LEMMA FileFacts ==
  ASSUME FileTyped
  PROVE  /\ file.iExtent \in Nat /\ sfi_size \in 0 .. Word - 1
         /\ sfi_position \in 0 .. Word - 1
         /\ sfi_position \div Sector \in Nat
         /\ sfi_position % Sector \in 0 .. Sector - 1
         /\ sfi_position = Sector * (sfi_position \div Sector) + (sfi_position % Sector)
<1>1. /\ file.iExtent \in Nat /\ file.iSize \in 0 .. Word - 1
      /\ sfi_position \in 0 .. Word - 1
  BY FileAssumption DEF FileTyped
<1>2. sfi_position \in Nat
  BY <1>1, WordFacts
<1> QED
  BY <1>1, <1>2, SectorDivMod, Zenon DEF sfi_size

\* The loop over sectors gives as many bytes as were asked for.
LEMMA CopiedFacts ==
  ASSUME FileTyped, NEW n \in Nat
  PROVE  Copied(n) \in [1 .. n -> Int] /\ Copied(n) \in Seq(Int) /\ Len(Copied(n)) = n
<1> DEFINE start  == file.iExtent + sfi_position \div Sector
           offset == sfi_position % Sector
           first  == Least(Sector - offset, n)
<1>1. start \in Nat /\ offset \in 0 .. Sector - 1 /\ Sector \in Nat \ {0}
  <2>1. start \in Nat
    <3>1. file.iExtent \in Nat /\ sfi_position \div Sector \in Nat
      BY FileFacts, Zenon
    <3> DEFINE quotient == sfi_position \div Sector
    <3> HIDE DEF quotient
    <3>2. file.iExtent + quotient \in Nat
      BY <3>1 DEF quotient
    <3> QED
      BY <3>2 DEF quotient
  <2> QED
    BY <2>1, FileFacts, WordFacts, Zenon
<1>2. first \in 0 .. n
  BY <1>1 DEF Least
<1>3. Copied(n) = [i \in 1 .. n |->
         IF i =< first THEN Byte(start, offset + i - 1)
         ELSE Byte(start + 1 + (i - first - 1) \div Sector, (i - first - 1) % Sector)]
  BY DEF Copied
<1> HIDE DEF start, offset, first
<1>4. ASSUME NEW i \in 1 .. n PROVE Copied(n)[i] \in Int
  <2>1. CASE i =< first
    <3>1. offset + i - 1 \in Nat
      BY <1>1
    <3> QED
      BY <1>1, <1>3, <2>1, <3>1, ByteAt
  <2>2. CASE ~(i =< first)
    <3>1. i - first - 1 \in Nat
      BY <1>2, <2>2
    <3>2. (i - first - 1) \div Sector \in Nat /\ (i - first - 1) % Sector \in Nat
      BY <3>1, SectorDivMod, Zenon
    <3>3. start + 1 + (i - first - 1) \div Sector \in Nat
      BY <1>1, <3>2
    <3>4. Byte(start + 1 + (i - first - 1) \div Sector, (i - first - 1) % Sector) \in Int
      BY <3>2, <3>3, ByteAt
    <3> QED
      BY <1>3, <2>2, <3>4
  <2> QED
    BY <2>1, <2>2
<1>5. Copied(n) \in [1 .. n -> Int]
  BY <1>3, <1>4
<1> QED
  BY <1>5

\* No more is read than was asked for and the file has; from inside the file, as much
\* as there is up to its end.
LEMMA ClippedFacts ==
  ASSUME FileTyped, NEW n \in Nat
  PROVE  /\ Clipped(n) \in 0 .. sfi_size /\ Clipped(n) =< n
         /\ sfi_position =< sfi_size
              => /\ Clipped(n) = Least(n, sfi_size - sfi_position)
                 /\ Clipped(n) =< sfi_size - sfi_position
         /\ sfi_position > sfi_size => Clipped(n) = Least(n, sfi_size)
<1>1. /\ sfi_size \in 0 .. Word - 1 /\ sfi_position \in 0 .. Word - 1
      /\ Word \in Nat \ {0}
  BY FileFacts, WordFacts
<1>2. /\ (sfi_size - sfi_position) % Word \in Nat
      /\ sfi_position =< sfi_size => (sfi_size - sfi_position) % Word = sfi_size - sfi_position
  BY <1>1, WordMod
<1>3. ASSUME sfi_position > sfi_size
      PROVE  (sfi_size - sfi_position) % Word = sfi_size - sfi_position + Word
  <2>1. sfi_size - sfi_position \in -Word .. -1
    BY <1>1, <1>3
  <2> QED
    BY <1>1, <2>1, ModBelow
<1> QED
  BY <1>1, <1>2, <1>3 DEF Clipped, Least

\* What is read from inside the file are its bytes from the position on.
LEMMA CopiedIsContents ==
  ASSUME FileTyped, NEW n \in Nat, sfi_position + n =< sfi_size, NEW i \in 1 .. n
  PROVE  contents[sfi_position + i] \in {Unknown, Copied(n)[i]}
<1> DEFINE quotient == sfi_position \div Sector
           offset   == sfi_position % Sector
           start    == file.iExtent + quotient
           first    == Least(Sector - offset, n)
           bound    == Least(ImageSize, Word \div 2)
           base     == file.iExtent * Sector
           rest     == i - first - 1
<1>1. /\ Sector \in Nat \ {0} /\ file.iExtent \in Nat /\ quotient \in Nat
      /\ sfi_position \in Nat /\ offset \in 0 .. Sector - 1 /\ sfi_size \in Nat
      /\ sfi_position = Sector * quotient + offset
  BY FileFacts, WordFacts
<1>2. /\ start \in Nat
      /\ base \in Nat /\ start * Sector = base + quotient * Sector
      /\ quotient * Sector = sfi_position - offset /\ start * Sector \in Nat
  BY <1>1, Products
<1>3. sfi_position + i \in 1 .. sfi_size
  BY <1>1
<1>4. contents[sfi_position + i] =
        IF base + (sfi_position + i) - 1 < bound THEN base + (sfi_position + i) - 1 ELSE Unknown
  BY <1>3 DEF contents
<1>5. Copied(n)[i] = IF i =< first THEN Byte(start, offset + i - 1)
                     ELSE Byte(start + 1 + rest \div Sector, rest % Sector)
  BY DEF Copied
<1> SUFFICES ASSUME base + (sfi_position + i) - 1 < bound
             PROVE  Copied(n)[i] = base + (sfi_position + i) - 1
  BY <1>4
<1> HIDE DEF quotient, offset, start, first, bound, base, rest
<1>6. CASE i =< first
  <2>1. offset + i - 1 \in Nat
    BY <1>1
  <2>2. start * Sector + (offset + i - 1) = base + (sfi_position + i) - 1
    BY <1>1, <1>2
  <2>3. Byte(start, offset + i - 1) = start * Sector + (offset + i - 1)
    BY <1>2, <2>1, <2>2, ByteAt DEF bound
  <2> QED
    BY <1>5, <1>6, <2>2, <2>3
<1>7. CASE ~(i =< first)
  <2>1. first = Sector - offset
    BY <1>1, <1>7 DEF first, Least
  <2>2. rest \in Nat
    BY <1>1, <1>7, <2>1 DEF rest
  <2> DEFINE q == rest \div Sector
             r == rest % Sector
  <2>3. q \in Nat /\ r \in Nat /\ rest = Sector * q + r
    BY <2>2, SectorDivMod, Zenon
  <2> HIDE DEF q, r
  <2>4. start + 1 \in Nat /\ start + 1 + q \in Nat
    BY <1>2, <2>3
  <2>5. (start + 1 + q) * Sector = (start + 1) * Sector + q * Sector
    BY <1>1, <2>3, <2>4, Products
  <2>6. (start + 1) * Sector = start * Sector + Sector
    BY <1>1, <1>2, Products
  <2>7. q * Sector = Sector * q /\ q * Sector \in Nat
    BY <1>1, <2>3
  <2>8. (start + 1 + q) * Sector + r = base + (sfi_position + i) - 1
    BY <1>1, <1>2, <2>1, <2>3, <2>5, <2>6, <2>7 DEF rest
  <2>9. Byte(start + 1 + q, r) = (start + 1 + q) * Sector + r
    BY <2>3, <2>4, <2>8, ByteAt DEF bound
  <2> QED
    BY <1>5, <1>7, <2>8, <2>9 DEF q, r
<1> QED
  BY <1>6, <1>7


-----------------------------------------------------------------------------
(* Reading in pieces *)

\* What has been read since the last seek is a sequence; so long as that seek did not go
\* beyond the end, it is as long as the position has moved, and holds what is there.
ReadingInv ==
  /\ TypeOK
  /\ got \in Seq(Int)
  /\ PiecesAddUp

\* The data of a call that returns none.
LEMMA NoData == /\ DOMAIN <<>> = {} /\ Len(<<>>) = 0 /\ DOMAIN <<>> = 1 .. Len(<<>>)
                /\ <<>> \in Seq(Int)
OBVIOUS

\* The types are part of the invariant.
LEMMA ReadingTyped == ReadingInv => FileTyped
BY DEF ReadingInv, TypeOK, FileTyped

\* It holds initially.
LEMMA ReadingInit == Init => ReadingInv
<1> SUFFICES ASSUME Init PROVE ReadingInv
  OBVIOUS
<1> USE DEF Init
<1>1. FileTyped
  BY WordFacts DEF FileTyped
<1>2. sfi_size \in 0 .. Word - 1
  BY <1>1, FileFacts
<1>3. got \in Seq(Int) /\ Len(got) = 0 /\ DOMAIN got = {}
  OBVIOUS
<1>4. TypeOK
  BY <1>1, <1>2 DEF TypeOK, FileTyped
<1>5. PiecesAddUp
  BY <1>2, <1>3 DEF PiecesAddUp
<1> QED
  BY <1>3, <1>4, <1>5 DEF ReadingInv

\* A program that has lost its place, or has just sought, begins anew.
LEMMA BeginAnew ==
  ASSUME FileTyped, UNCHANGED file, sfi_position' \in 0 .. Word - 1,
         since' = sfi_position', got' = <<>>
  PROVE  (got \in Seq(Int))' /\ PiecesAddUp'
<1>1. sfi_position' \in Int
  BY WordFacts
<1>2. got' \in Seq(Int) /\ Len(got') = 0 /\ DOMAIN got' = {}
  BY NoData
<1>3. sfi_position' = since' + Len(got')
  <2>1. \A p \in Int : p = p + 0
    OBVIOUS
  <2> QED
    BY <1>1, <1>2, <2>1, Zenon
<1>4. PiecesAddUp'
  BY <1>2, <1>3 DEF PiecesAddUp
<1> QED
  BY <1>2, <1>4

\* What a call leaves alone stays as it is.
LEMMA Untouched ==
  ASSUME ReadingInv, UNCHANGED <<sffsi, past>>
  PROVE  (got \in Seq(Int))' /\ PiecesAddUp'
BY DEF ReadingInv, PiecesAddUp, contents, sfi_size, sffsi, past

\* fsRead() keeps it.
LEMMA ReadKeeps ==
  ASSUME ReadingInv, NEW n \in Lengths, Read(n)
  PROVE  ReadingInv'
<1> DEFINE size  == Clipped(n)
           data  == Copied(size)
<1>1. FileTyped /\ n \in Nat
  BY ReadingTyped, FileAssumption, WordFacts
<1>2. /\ size \in 0 .. sfi_size /\ size \in Nat
      /\ sfi_position =< sfi_size => size =< sfi_size - sfi_position
      /\ sfi_size \in 0 .. Word - 1 /\ sfi_position \in 0 .. Word - 1 /\ Word \in Nat
  BY <1>1, ClippedFacts, FileFacts, WordFacts
<1>3. data \in Seq(Int) /\ Len(data) = size /\ data \in [1 .. size -> Int]
  BY <1>1, <1>2, CopiedFacts, Zenon
<1>4. /\ call' = "read" /\ asked' = n /\ rc' = "NO_ERROR" /\ cbLen' = size /\ pData' = data
      /\ sfi_position' = (sfi_position + size) % Word
      /\ got' = IF since =< sfi_size THEN got \o data ELSE <<>>
      /\ UNCHANGED <<file, since>>
  BY <1>3 DEF Read
<1>5. sfi_size' = sfi_size /\ contents' = contents
  BY <1>4 DEF contents, sfi_size
<1>6. ASSUME NEW i \in 1 .. size, sfi_position =< sfi_size
      PROVE  contents[sfi_position + i] \in {Unknown, data[i]}
  <2>1. sfi_position + size =< sfi_size
    BY <1>2, <1>6
  <2> QED
    BY <1>1, <1>2, <2>1, CopiedIsContents, Zenon
<1> HIDE DEF size, data
<1>7. sfi_position' \in 0 .. Word - 1
  BY <1>2, <1>4, WordMod
<1>8. TypeOK'
  BY <1>2, <1>3, <1>4, <1>5, <1>7 DEF TypeOK, ReadingInv
<1>9. got \in Seq(Int) /\ got' \in Seq(Int)
  BY <1>3, <1>4 DEF ReadingInv
<1>10. PiecesAddUp'
  <2> SUFFICES ASSUME since =< sfi_size
               PROVE  /\ sfi_position' = since + Len(got') /\ sfi_position' =< sfi_size
                      /\ \A i \in DOMAIN got' : contents[since + i] \in {Unknown, got'[i]}
    BY <1>4, <1>5 DEF PiecesAddUp
  <2>1. /\ sfi_position = since + Len(got) /\ sfi_position =< sfi_size
        /\ \A i \in DOMAIN got : contents[since + i] \in {Unknown, got[i]}
    BY DEF ReadingInv, PiecesAddUp
  <2>2. got' = got \o data /\ Len(got') = Len(got) + size
    BY <1>3, <1>4, <1>9
  <2>3. since \in Int /\ Len(got) \in Nat
    <3>1. since \in 0 .. Word - 1
      BY DEF ReadingInv, TypeOK
    <3> QED
      BY <1>2, <1>9, <3>1
  <2>4. sfi_position + size \in 0 .. Word - 1
    BY <1>2, <2>1
  <2>5. sfi_position' = sfi_position + size
    BY <1>4, <2>4, WordMod
  <2>6. ASSUME NEW i \in DOMAIN got'
        PROVE  contents[since + i] \in {Unknown, got'[i]}
    <3>1. i \in 1 .. Len(got) + size
      BY <1>2, <1>9, <2>2
    <3>2. CASE i =< Len(got)
      <4>1. i \in DOMAIN got /\ got'[i] = got[i]
        BY <1>3, <1>9, <2>2, <3>1, <3>2
      <4> QED
        BY <2>1, <4>1
    <3>3. CASE i > Len(got)
      <4>1. i - Len(got) \in 1 .. size /\ got'[i] = data[i - Len(got)]
        BY <1>2, <1>3, <1>9, <2>2, <2>3, <3>1, <3>3
      <4>2. sfi_position + (i - Len(got)) = since + i
        BY <2>1, <2>3, <3>1, <1>2
      <4> QED
        BY <1>6, <2>1, <4>1, <4>2
    <3> QED
      BY <1>2, <2>3, <3>1, <3>2, <3>3
  <2>7. sfi_position' = since + Len(got') /\ sfi_position' =< sfi_size
    <3>1. size =< sfi_size - sfi_position /\ size \in Nat /\ sfi_size \in Int /\ sfi_position \in Int
      BY <1>2, <2>1
    <3>2. sfi_position = since + Len(got) /\ Len(got') = Len(got) + size
      BY <2>1, <2>2
    <3> QED
      BY <2>3, <2>5, <3>1, <3>2
  <2> QED
    BY <2>6, <2>7
<1> QED
  BY <1>8, <1>9, <1>10 DEF ReadingInv

\* So does a read whose result cannot be delivered,
LEMMA ReadUndeliveredKeeps ==
  ASSUME ReadingInv, NEW n \in Lengths, ReadUndelivered(n)
  PROVE  ReadingInv'
<1>1. FileTyped /\ n \in Nat
  BY ReadingTyped, FileAssumption, WordFacts
<1>2. Clipped(n) \in 0 .. sfi_size /\ sfi_size \in 0 .. Word - 1 /\ sfi_position \in 0 .. Word - 1
  BY <1>1, ClippedFacts, FileFacts
<1>3. /\ rc' = "ERROR_INVALID_PARAMETER" /\ call' = "read" /\ asked' = n /\ pData' = <<>>
      /\ cbLen' = Clipped(n) /\ sfi_position' = (sfi_position + Clipped(n)) % Word
      /\ since' = sfi_position' /\ got' = <<>> /\ UNCHANGED file
  BY DEF ReadUndelivered
<1>4. sfi_position' \in 0 .. Word - 1
  <2> DEFINE size == Clipped(n)
  <2> HIDE DEF size
  <2>1. sfi_position + size \in Int
    BY <1>2, WordFacts DEF size
  <2> QED
    BY <1>3, <2>1, WordMod DEF size
<1>5. (got \in Seq(Int))' /\ PiecesAddUp'
  BY <1>1, <1>3, <1>4, BeginAnew
<1>6. TypeOK'
  BY <1>2, <1>3, <1>4, NoData DEF TypeOK, ReadingInv, sfi_size
<1> QED
  BY <1>5, <1>6 DEF ReadingInv

\* a request that is refused,
LEMMA RefuseKeeps ==
  ASSUME ReadingInv,
         NEW request \in {"write", "newsize", "ioctl", "commit"} \cup SeekTypes,
         NEW argument \in Offsets \cup {0},
         NEW error \in {"NO_ERROR", "ERROR_WRITE_PROTECT", "ERROR_NOT_SUPPORTED",
                        "ERROR_NEGATIVE_SEEK"},
         Refuse(request, argument, error)
  PROVE  ReadingInv'
<1>1. FileTyped
  BY ReadingTyped
<1>2. sfi_size \in 0 .. Word - 1 /\ Word \in Nat
  BY <1>1, FileFacts, WordFacts
<1>3. (got \in Seq(Int))' /\ PiecesAddUp'
  BY Untouched DEF Refuse
<1>4. TypeOK'
  <2>1. 0 \in 0 .. sfi_size /\ sfi_size' = sfi_size
    BY <1>2 DEF Refuse, sffsi, sfi_size
  <2>2. pData' = <<>> /\ cbLen' = 0 /\ call' = request /\ asked' = argument /\ rc' = error
        /\ UNCHANGED <<file, sfi_position, since>>
    BY DEF Refuse, sffsi, past
  <2>3. DOMAIN pData' = 1 .. Len(pData') /\ Len(pData') \in {0, cbLen'}
    BY <2>2, NoData, Zenon
  <2> QED
    BY <2>1, <2>2, <2>3 DEF TypeOK, ReadingInv
<1> QED
  BY <1>3, <1>4 DEF ReadingInv

\* and a seek.
LEMMA MoveToKeeps ==
  ASSUME ReadingInv, NEW t \in SeekTypes, NEW o \in Offsets,
         NEW position \in 0 .. Word - 1, MoveTo(t, o, position)
  PROVE  ReadingInv'
<1>1. FileTyped
  BY ReadingTyped
<1>2. sfi_size \in 0 .. Word - 1 /\ Word \in Nat
  BY <1>1, FileFacts, WordFacts
<1>3. (got \in Seq(Int))' /\ PiecesAddUp'
  BY <1>1, BeginAnew DEF MoveTo
<1>4. TypeOK'
  <2>1. 0 \in 0 .. sfi_size /\ sfi_size' = sfi_size
    BY <1>2 DEF MoveTo, sfi_size
  <2>2. /\ pData' = <<>> /\ cbLen' = 0 /\ call' = t /\ asked' = o /\ rc' = "NO_ERROR"
        /\ sfi_position' = position /\ since' = position /\ UNCHANGED file
    BY DEF MoveTo
  <2>3. DOMAIN pData' = 1 .. Len(pData') /\ Len(pData') \in {0, cbLen'}
    BY <2>2, NoData, Zenon
  <2> QED
    BY <2>1, <2>2, <2>3 DEF TypeOK, ReadingInv
<1> QED
  BY <1>3, <1>4 DEF ReadingInv

\* FILE_CURRENT and FILE_END are refused, or move to where their sum is, as it is or
\* is not negative in a LONG.
LEMMA MoveByFacts ==
  ASSUME NEW t, NEW from \in 0 .. Word - 1, NEW o \in Offsets, MoveBy(t, from, o)
  PROVE  /\ (from + o) % Word \in 0 .. Word - 1
         /\ \/ (from + o) % Word < Word \div 2 /\ MoveTo(t, o, (from + o) % Word)
            \/ (from + o) % Word >= Word \div 2 /\ Refuse(t, o, "ERROR_NEGATIVE_SEEK")
<1> DEFINE sum == (from + o) % Word
<1>1. o \in Int /\ Word \in Nat /\ Word \div 2 \in 0 .. Word - 1
  BY FileAssumption, WordFacts
<1>2. sum \in 0 .. Word - 1
  BY <1>1, WordMod
<1>3. IF Signed(sum) < 0 THEN Refuse(t, o, "ERROR_NEGATIVE_SEEK") ELSE MoveTo(t, o, Signed(sum))
  BY DEF MoveBy
<1> HIDE DEF sum
<1>4. sum < Word \div 2 => Signed(sum) = sum /\ ~(Signed(sum) < 0)
  BY <1>1, <1>2 DEF Signed
<1>5. sum >= Word \div 2 => Signed(sum) < 0
  BY <1>1, <1>2 DEF Signed
<1>6. sum < Word \div 2 \/ sum >= Word \div 2
  BY <1>1, <1>2
<1> QED
  BY <1>2, <1>3, <1>4, <1>5, <1>6, Zenon DEF sum

\* A seek is refused, or moves to where a ULONG can say.
LEMMA SeekMovesOrRefuses ==
  ASSUME FileTyped, NEW t \in SeekTypes, NEW o \in Offsets, ChgFilePtr(t, o)
  PROVE  \/ \E position \in 0 .. Word - 1 : MoveTo(t, o, position)
         \/ \E error \in {"ERROR_NOT_SUPPORTED", "ERROR_NEGATIVE_SEEK"} : Refuse(t, o, error)
<1>1. /\ o \in Int /\ sfi_position \in 0 .. Word - 1 /\ sfi_size \in 0 .. Word - 1
  BY FileAssumption, FileFacts, WordFacts
<1>2. CASE t = "FILE_BEGIN"
  <2>1. o % Word \in 0 .. Word - 1
    BY <1>1, WordMod
  <2>2. MoveTo(t, o, o % Word)
    BY <1>2 DEF ChgFilePtr
  <2> QED
    BY <2>1, <2>2, Zenon
<1>3. CASE t = "FILE_CURRENT"
  <2>1. MoveBy(t, sfi_position, o)
    BY <1>3 DEF ChgFilePtr
  <2> QED
    BY <1>1, <2>1, MoveByFacts, Zenon
<1>4. CASE t = "FILE_END"
  <2>1. MoveBy(t, sfi_size, o)
    BY <1>4 DEF ChgFilePtr
  <2> QED
    BY <1>1, <2>1, MoveByFacts, Zenon
<1>5. CASE t = "unknown"
  BY <1>5 DEF ChgFilePtr
<1> QED
  BY <1>2, <1>3, <1>4, <1>5 DEF SeekTypes

\* It is inductive.
LEMMA ReadingNext == ReadingInv /\ [Next]_vars => ReadingInv'
<1> SUFFICES ASSUME ReadingInv, [Next]_vars PROVE ReadingInv'
  OBVIOUS
<1>1. ASSUME NEW n \in Lengths, Read(n) PROVE ReadingInv'
  BY <1>1, ReadKeeps
<1>2. ASSUME NEW n \in Lengths, ReadUndelivered(n) PROVE ReadingInv'
  BY <1>2, ReadUndeliveredKeeps
<1>3. ASSUME NEW t \in SeekTypes, NEW o \in Offsets, ChgFilePtr(t, o) PROVE ReadingInv'
  <2>1. CASE \E position \in 0 .. Word - 1 : MoveTo(t, o, position)
    BY <2>1, MoveToKeeps, Zenon
  <2>2. ASSUME NEW error \in {"ERROR_NOT_SUPPORTED", "ERROR_NEGATIVE_SEEK"}, Refuse(t, o, error)
        PROVE  ReadingInv'
    BY <2>2, RefuseKeeps
  <2> QED
    BY <1>3, <2>1, <2>2, ReadingTyped, SeekMovesOrRefuses, Zenon
<1>4. CASE Write \/ NewSize \/ IOCtl \/ Commit
  BY <1>4, RefuseKeeps DEF Write, NewSize, IOCtl, Commit
<1>5. CASE UNCHANGED vars
  BY <1>5 DEF ReadingInv, TypeOK, PiecesAddUp, contents, sfi_size, vars, sffsi, result, past
<1> QED
  BY <1>1, <1>2, <1>3, <1>4, <1>5 DEF Next

\* Whatever the widths, the files, the lengths and the offsets, every variable keeps its
\* type, and fsRead() never returns more than the file has.
THEOREM ReadingTypeCorrect == Spec => []TypeOK
<1>1. ReadingInv => TypeOK
  BY DEF ReadingInv
<1> QED
  BY <1>1, ReadingInit, ReadingNext, PTL DEF Spec

\* A file that is read in pieces, in pieces of any lengths from any place inside it, is
\* what fsRead() returned for them, one after the other: none of its bytes is skipped,
\* repeated or taken from elsewhere.
THEOREM PiecesAlwaysAddUp == Spec => []PiecesAddUp
<1>1. ReadingInv => PiecesAddUp
  BY DEF ReadingInv
<1> QED
  BY <1>1, ReadingInit, ReadingNext, PTL DEF Spec


-----------------------------------------------------------------------------
(* What programs are promised *)

\* The contents that are promised are as long as the file.
LEMMA ContentsFacts ==
  ASSUME FileTyped
  PROVE  contents \in Seq(Int) /\ Len(contents) = sfi_size
<1> DEFINE base == file.iExtent * Sector
           bound == Least(ImageSize, Word \div 2)
<1>1. sfi_size \in Nat /\ base \in Nat /\ bound \in Nat
  <2>1. /\ sfi_size \in 0 .. Word - 1 /\ file.iExtent \in Nat
        /\ Word \in Nat /\ Sector \in Nat /\ ImageSize \in Nat /\ Word \div 2 \in 0 .. Word - 1
    BY FileFacts, WordFacts
  <2>2. base \in Nat
    BY <2>1, Products
  <2>3. \A a, b \in Nat : Least(a, b) \in Nat
    BY DEF Least
  <2>4. sfi_size \in Nat /\ Word \div 2 \in Nat
    BY <2>1
  <2> QED
    BY <2>1, <2>2, <2>3, <2>4, Zenon
<1>2. contents = [i \in 1 .. sfi_size |-> IF base + i - 1 < bound THEN base + i - 1 ELSE -1]
  BY DEF contents, Unknown
<1> HIDE DEF base, bound
<1>3. contents \in [1 .. sfi_size -> Int]
  BY <1>1, <1>2
<1> QED
  BY <1>1, <1>3

\* What fsRead() takes is what is promised.
LEMMA ClippedIsTaken ==
  ASSUME FileTyped, NEW n \in Nat
  PROVE  Clipped(n) = Promise!Taken(n)
<1>1. Len(contents) = sfi_size /\ sfi_size \in Nat /\ sfi_position \in Nat
  BY ContentsFacts, FileFacts, WordFacts
<1> QED
  BY <1>1, ClippedFacts DEF Promise!Taken, Promise!Least, Least

\* A read is a read of ReadOnlyFile.
LEMMA ReadStep ==
  ASSUME ReadingInv, NEW n \in Lengths, Read(n)
  PROVE  Promise!Next
<1> DEFINE size  == Clipped(n)
           data  == Copied(size)
<1>1. FileTyped /\ n \in Nat
  BY ReadingTyped, FileAssumption, WordFacts
<1>2. /\ size \in Nat /\ size = Promise!Taken(n)
      /\ sfi_position =< sfi_size => size =< sfi_size - sfi_position
      /\ sfi_size \in Nat /\ sfi_position \in Nat
  BY <1>1, ClippedFacts, ClippedIsTaken, FileFacts, WordFacts
<1>3. data \in [1 .. size -> Int] /\ Len(data) = size
  BY <1>1, <1>2, CopiedFacts, Zenon
<1>4. /\ call' = "read" /\ asked' = n /\ rc' = "NO_ERROR" /\ pData' = data
      /\ sfi_position' = (sfi_position + size) % Word /\ UNCHANGED file
  BY <1>3 DEF Read
<1>5. Len(contents) = sfi_size /\ contents' = contents
  BY <1>1, <1>4, ContentsFacts DEF contents, sfi_size
<1>6. ASSUME NEW i \in 1 .. size, sfi_position =< sfi_size
      PROVE  contents[sfi_position + i] \in {Unknown, data[i]}
  <2>1. sfi_position + size =< sfi_size
    BY <1>2, <1>6
  <2> QED
    BY <1>1, <1>2, <2>1, CopiedIsContents, Zenon
<1> HIDE DEF size, data
<1>7. sfi_position =< Len(contents) => Promise!Agrees(pData')
  BY <1>3, <1>4, <1>5, <1>6 DEF Promise!Agrees, Promise!Unknown, Unknown
<1>8. Promise!Read
  BY <1>2, <1>3, <1>4, <1>7 DEF Promise!Read
<1> QED
  BY <1>5, <1>8 DEF Promise!Next

\* A read whose result is lost is one there.
LEMMA ReadUndeliveredStep ==
  ASSUME ReadingInv, NEW n \in Lengths, ReadUndelivered(n)
  PROVE  Promise!Next
<1>1. FileTyped /\ n \in Nat
  BY ReadingTyped, FileAssumption, WordFacts
<1>2. Clipped(n) = Promise!Taken(n) /\ Clipped(n) > 0
  BY <1>1, ClippedIsTaken DEF ReadUndelivered
<1>3. /\ rc' = "ERROR_INVALID_PARAMETER" /\ call' = "read" /\ asked' = n /\ pData' = <<>>
      /\ sfi_position' = (sfi_position + Clipped(n)) % Word /\ UNCHANGED file
  BY DEF ReadUndelivered
<1>4. contents' = contents
  BY <1>3 DEF contents, sfi_size
<1>5. Promise!ReadLost
  BY <1>2, <1>3 DEF Promise!ReadLost
<1> QED
  BY <1>4, <1>5 DEF Promise!Next

\* So is a request that is refused or has no effect,
LEMMA OtherStep ==
  ASSUME NEW request \in {"unknown", "write", "newsize", "ioctl", "commit"},
         NEW argument, NEW error, Refuse(request, argument, error),
         request \in {"write", "newsize"} => error = "ERROR_WRITE_PROTECT"
  PROVE  Promise!Next
BY DEF Refuse, sffsi, past, contents, sfi_size, Promise!Next, Promise!Other

\* a seek that moves to the place it was told,
LEMMA MoveToStep ==
  ASSUME NEW t \in {"FILE_BEGIN", "FILE_CURRENT", "FILE_END"}, NEW o, NEW position,
         MoveTo(t, o, position), position < Word \div 2,
         position = (Promise!Origins[t] + o) % Word
  PROVE  Promise!Next
<1>1. /\ call' = t /\ asked' = o /\ rc' = "NO_ERROR" /\ pData' = <<>>
      /\ sfi_position' = position /\ UNCHANGED file
  BY DEF MoveTo
<1>2. contents' = contents /\ Promise!Place = position
  BY <1>1 DEF contents, sfi_size, Promise!Place
<1>3. call' \in DOMAIN Promise!Origins
  BY <1>1 DEF Promise!Origins
<1> QED
  BY <1>1, <1>2, <1>3 DEF Promise!Next, Promise!Seek

\* and one that is refused because that is before the beginning.
LEMMA SeekRefusedStep ==
  ASSUME NEW t \in {"FILE_BEGIN", "FILE_CURRENT", "FILE_END"}, NEW o,
         Refuse(t, o, "ERROR_NEGATIVE_SEEK"),
         (Promise!Origins[t] + o) % Word >= Word \div 2
  PROVE  Promise!Next
<1>1. /\ call' = t /\ asked' = o /\ rc' = "ERROR_NEGATIVE_SEEK" /\ pData' = <<>>
      /\ sfi_position' = sfi_position /\ UNCHANGED file
  BY DEF Refuse, sffsi
<1>2. contents' = contents /\ Promise!Place >= Word \div 2
  BY <1>1 DEF contents, sfi_size, Promise!Place
<1>3. call' \in DOMAIN Promise!Origins
  BY <1>1 DEF Promise!Origins
<1> QED
  BY <1>1, <1>2, <1>3 DEF Promise!Next, Promise!SeekRefused

\* A seek is one of these, if programs do not ask for a negative place outright.
LEMMA SeekStep ==
  ASSUME "negative" \notin Faults, FileTyped,
         NEW t \in SeekTypes, NEW o \in Offsets, Sought(t, o), ChgFilePtr(t, o)
  PROVE  Promise!Next
<1>1. /\ o \in -(Word \div 2) .. (Word \div 2) - 1 /\ Word \in Nat \ {0}
      /\ Word \div 2 \in 0 .. Word - 1
      /\ sfi_position \in 0 .. Word - 1 /\ sfi_size \in 0 .. Word - 1 /\ Len(contents) = sfi_size
  BY FileAssumption, FileFacts, WordFacts, ContentsFacts
<1>2. ASSUME NEW from \in 0 .. Word - 1, t \in {"FILE_BEGIN", "FILE_CURRENT", "FILE_END"},
             Promise!Origins[t] = from, MoveBy(t, from, o)
      PROVE  Promise!Next
  <2> DEFINE sum == (from + o) % Word
  <2>1. \/ sum < Word \div 2 /\ MoveTo(t, o, sum)
        \/ sum >= Word \div 2 /\ Refuse(t, o, "ERROR_NEGATIVE_SEEK")
    BY <1>2, MoveByFacts, Zenon
  <2>2. sum = (Promise!Origins[t] + o) % Word
    BY <1>2
  <2> HIDE DEF sum
  <2> QED
    BY <1>2, <2>1, <2>2, MoveToStep, SeekRefusedStep
<1>3. CASE t = "FILE_BEGIN"
  <2>1. o \in 0 .. Word - 1 /\ o < Word \div 2
    BY <1>1, <1>3 DEF Sought
  <2>2. o % Word = o
    BY <1>1, <2>1, WordMod
  <2>3. Promise!Origins[t] + o = o
    BY <1>3, <2>1 DEF Promise!Origins
  <2>4. MoveTo(t, o, o)
    BY <1>3, <2>2 DEF ChgFilePtr
  <2> QED
    BY <1>3, <2>1, <2>2, <2>3, <2>4, MoveToStep
<1>4. CASE t = "FILE_CURRENT"
  BY <1>1, <1>2, <1>4 DEF ChgFilePtr, Promise!Origins
<1>5. CASE t = "FILE_END"
  BY <1>1, <1>2, <1>5 DEF ChgFilePtr, Promise!Origins
<1>6. CASE t = "unknown"
  <2>1. Refuse("unknown", o, "ERROR_NOT_SUPPORTED")
    BY <1>6 DEF ChgFilePtr
  <2> QED
    BY <2>1, OtherStep
<1> QED
  BY <1>3, <1>4, <1>5, <1>6 DEF SeekTypes

\* Every step is a step of ReadOnlyFile or a stutter.
LEMMA PromiseStep ==
  "negative" \notin Faults /\ ReadingInv /\ [Next]_vars => [Promise!Next]_(Promise!vars)
<1> SUFFICES ASSUME "negative" \notin Faults, ReadingInv, [Next]_vars
             PROVE  [Promise!Next]_(Promise!vars)
  OBVIOUS
<1>1. ASSUME NEW n \in Lengths, Read(n) PROVE Promise!Next
  BY <1>1, ReadStep
<1>2. ASSUME NEW n \in Lengths, ReadUndelivered(n) PROVE Promise!Next
  BY <1>2, ReadUndeliveredStep
<1>3. ASSUME NEW t \in SeekTypes, NEW o \in Offsets, Sought(t, o), ChgFilePtr(t, o)
      PROVE  Promise!Next
  BY <1>3, ReadingTyped, SeekStep
<1>4. CASE Write \/ NewSize \/ IOCtl \/ Commit
  BY <1>4, OtherStep DEF Write, NewSize, IOCtl, Commit
<1>5. CASE UNCHANGED vars
  BY <1>5 DEF contents, sfi_size, vars, sffsi, result, past, Promise!vars
<1> QED
  BY <1>1, <1>2, <1>3, <1>4, <1>5 DEF Next

\* fileio.c implements ReadOnlyFile, for programs that do not seek to a negative place
\* outright (FILE_BEGIN does not refuse that): a read takes neither more nor less than
\* what was asked for and is there, and a seek moves there or is refused.
THEOREM ReadingImplemented ==
  ASSUME "negative" \notin Faults
  PROVE  Spec => ImplementsReadOnlyFile
<1>1. Init => Promise!Init
  BY DEF Init, Promise!Init
<1>2. ReadingInv /\ [Next]_vars => [Promise!Next]_(Promise!vars)
  BY PromiseStep
<1> QED
  BY <1>1, <1>2, ReadingInit, ReadingNext, PTL
     DEF Spec, ImplementsReadOnlyFile, Promise!Spec

=============================================================================

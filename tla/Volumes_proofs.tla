--------------------------- MODULE Volumes_proofs ---------------------------
(* Proofs about Volumes, for any drives, handles and addresses: the list and the *)
(* counters agree with what the kernel holds; then that nothing is left behind,  *)
(* and that the kernel is told the truth about drives in use.                    *)
EXTENDS Volumes, FiniteSetTheorems, NumberFacts

\* Every definition that says what a step leaves alone.
USE DEF kernel, list, counts, vars

-----------------------------------------------------------------------------
(* Counting the handles of a volume *)

\* Finitely many handles are open on a volume.
LEMMA OnVolumeFinite ==
  ASSUME NEW kind, NEW v
  PROVE  IsFiniteSet(OnVolume(kind, v)) /\ Cardinality(OnVolume(kind, v)) \in Nat
<1>1. OnVolume(kind, v) \subseteq Handles
  BY DEF OnVolume
<1> QED
  BY <1>1, FiniteAssumption, FS_Subset, FS_CardinalityType

\* A volume that has just been allocated has no handles yet.
LEMMA OnNewVolume ==
  ASSUME TypeOK, PointersValid, running, NEW kind \in {"file", "search"},
         NEW v \in Vols, v \notin volumes
  PROVE  Cardinality(OnVolume(kind, v)) = 0
<1>1. OnVolume(kind, v) = {}
  BY DEF OnVolume, PointersValid, Closed, Handle
<1> QED
  BY <1>1, FS_EmptySet

\* A volume that is not busy has none.
LEMMA OnIdleVolume ==
  ASSUME TypeOK, CountersCover, running, NEW v \in volumes, ~Busy(v),
         NEW h \in Handles, handle[h] # Closed
  PROVE  handle[h].vol # v
<1> DEFINE files == OnVolume("file", v)
           searches == OnVolume("search", v)
<1>1. Cardinality(files) =< 0 /\ Cardinality(searches) =< 0
  BY DEF CountersCover, Busy, TypeOK
<1>2. files = {} /\ searches = {}
  BY <1>1, OnVolumeFinite, FS_EmptySet
<1>3. handle[h].kind \in {"file", "search"}
  BY DEF TypeOK, HandleTypes
<1> QED
  BY <1>2, <1>3 DEF OnVolume

\* Opening a handle adds it to those of its volume.
LEMMA OnVolumeOpens ==
  ASSUME TypeOK, NEW d \in Drives, NEW h \in Handles, NEW o \in Objs,
         NEW kind \in {"file", "search"},
         handle[h] = Closed, Mounted(d), Remember(d, h, kind, o),
         NEW k \in {"file", "search"}, NEW v \in Vols
  PROVE  Cardinality(OnVolume(k, v))' = Cardinality(OnVolume(k, v))
           + (IF k = kind /\ v = vpfsd[d] THEN 1 ELSE 0)
<1>1. h \notin OnVolume(k, v)
  BY DEF OnVolume, Closed, Handle
<1>2. CASE k = kind /\ v = vpfsd[d]
  <2>1. \A g \in Handles : handle'[g] = IF g = h THEN Handle(kind, d, vpfsd[d], o) ELSE handle[g]
    BY DEF Remember, TypeOK
  <2>2. OnVolume(k, v)' = OnVolume(k, v) \cup {h}
    BY <1>2, <2>1 DEF OnVolume, Handle
  <2>3. Cardinality(OnVolume(k, v) \cup {h}) = Cardinality(OnVolume(k, v)) + 1
    BY <1>1, OnVolumeFinite, FS_AddElement
  <2> QED
    BY <1>2, <2>2, <2>3
<1>3. CASE ~(k = kind /\ v = vpfsd[d])
  <2>1. OnVolume(k, v)' = OnVolume(k, v)
    BY <1>1, <1>3 DEF OnVolume, Remember, Handle, TypeOK
  <2> QED
    BY <1>3, <2>1, OnVolumeFinite
<1> QED
  BY <1>2, <1>3

\* Closing a handle takes it from those of its volume.
LEMMA OnVolumeCloses ==
  ASSUME TypeOK, NEW h \in Handles, handle[h] # Closed,
         handle' = [handle EXCEPT ![h] = Closed],
         NEW k \in {"file", "search"}, NEW v \in Vols
  PROVE  Cardinality(OnVolume(k, v))' = Cardinality(OnVolume(k, v))
           - (IF k = handle[h].kind /\ v = handle[h].vol THEN 1 ELSE 0)
<1>1. OnVolume(k, v)' = OnVolume(k, v) \ {h}
  BY DEF OnVolume, Closed, Handle, TypeOK
<1>2. h \in OnVolume(k, v) <=> k = handle[h].kind /\ v = handle[h].vol
  BY DEF OnVolume
<1>3. /\ IsFiniteSet(OnVolume(k, v)) /\ Cardinality(OnVolume(k, v)) \in Nat
      /\ Cardinality(OnVolume(k, v))' = Cardinality(OnVolume(k, v) \ {h})
  BY <1>1, OnVolumeFinite
<1>4. Cardinality(OnVolume(k, v) \ {h}) =
        IF h \in OnVolume(k, v) THEN Cardinality(OnVolume(k, v)) - 1
                                ELSE Cardinality(OnVolume(k, v))
  BY <1>3, FS_RemoveElement
<1> QED
  BY <1>2, <1>3, <1>4

-----------------------------------------------------------------------------
(* The inductive invariant *)

\* The invariant holds initially.
LEMMA VolumesInit == Init => VolumesInv
<1> SUFFICES ASSUME Init PROVE VolumesInv
  OBVIOUS
<1>1. TypeOK
  BY DEF Init, TypeOK, HandleTypes
<1>2. PointersValid /\ CountersCover
  BY DEF Init, PointersValid, CountersCover, Mounted
<1>3. IsFiniteSet(volumes) /\ Cardinality(volumes) =< isoFiles
  BY FS_EmptySet DEF Init
<1> QED
  BY <1>1, <1>2, <1>3 DEF Init, VolumesInv, Mounted

\* A step that changes neither pointers nor counters nor what is allocated.
LEMMA VolumesQuiet ==
  ASSUME VolumesInv, UNCHANGED <<kernel, running, list, counts, objects>>,
         isoFiles' \in {isoFiles, isoFiles + 1},
         reply' \in {"ok", "error", "locked"}
  PROVE  VolumesInv'
<1>1. TypeOK'
  BY DEF VolumesInv, TypeOK
<1>2. PointersValid' /\ CountersCover'
  BY DEF VolumesInv, PointersValid, CountersCover, Mounted, OnVolume
<1>3. Cardinality(volumes)' =< isoFiles'
  BY FS_CardinalityType DEF VolumesInv, TypeOK
<1> QED
  BY <1>1, <1>2, <1>3 DEF VolumesInv, Mounted

\* A mount keeps it,
LEMMA AttachStep ==
  ASSUME VolumesInv, NEW d \in Drives, NEW v \in Vols, Attach(d, v)
  PROVE  VolumesInv'
<1>1. TypeOK'
  BY NullAssumption DEF VolumesInv, TypeOK, Attach, Link
<1>2. PointersValid'
  BY NullAssumption DEF VolumesInv, TypeOK, PointersValid, Attach, Mounted
<1>3. CountersCover'
  <2> SUFFICES ASSUME NEW w \in volumes'
               PROVE  /\ (Cardinality(OnVolume("file", w)) =< cOpenFiles[w])'
                      /\ (Cardinality(OnVolume("search", w)) =< cSearches[w])'
    BY DEF CountersCover
  <2>1. /\ OnVolume("file", w)' = OnVolume("file", w)
        /\ OnVolume("search", w)' = OnVolume("search", w)
    BY DEF OnVolume, Attach
  <2>2. CASE w = v
    BY <2>1, <2>2, OnNewVolume DEF VolumesInv, TypeOK, Attach
  <2>3. CASE w # v
    BY <2>1, <2>3 DEF VolumesInv, TypeOK, CountersCover, Attach
  <2> QED
    BY <2>2, <2>3
<1>4. IsFiniteSet(volumes') /\ Cardinality(volumes') =< isoFiles'
  <2>1. Cardinality(volumes \cup {v}) = Cardinality(volumes) + 1
        /\ IsFiniteSet(volumes \cup {v})
    BY FS_AddElement DEF VolumesInv, Attach
  <2> QED
    BY <2>1, FS_CardinalityType DEF VolumesInv, TypeOK, Attach
<1>5. \A e, f \in Drives : Mounted(e)' /\ vpfsd'[e] = vpfsd'[f] => e = f
  BY NullAssumption DEF VolumesInv, TypeOK, PointersValid, Attach, Mounted
<1> QED
  BY <1>1, <1>2, <1>3, <1>4, <1>5 DEF VolumesInv, Attach

\* and a detach,
LEMMA DetachStep ==
  ASSUME KeepsPointers, VolumesInv, NEW d \in Drives, Detach(d)
  PROVE  VolumesInv'
<1> DEFINE v == vpfsd[d]
<1>1. v \in volumes /\ ~Busy(v) /\ vpfsd' = [vpfsd EXCEPT ![d] = Null]
  BY DEF KeepsPointers, VolumesInv, PointersValid, Detach
<1>2. \A h \in Handles : handle[h] # Closed => handle[h].vol # v
  BY <1>1, OnIdleVolume DEF VolumesInv, Detach
<1>3. Cardinality(volumes') = Cardinality(volumes) - 1 /\ IsFiniteSet(volumes')
  BY <1>1, FS_RemoveElement DEF VolumesInv, Detach
<1>4. Cardinality(volumes') =< isoFiles' /\ isoFiles' \in Nat
  BY <1>3, FS_CardinalityType DEF VolumesInv, TypeOK, Detach
<1>5. TypeOK'
  BY <1>1, <1>4 DEF VolumesInv, TypeOK, Detach, Unlink
<1>6. PointersValid'
  BY <1>1, <1>2 DEF VolumesInv, TypeOK, PointersValid, Detach, Mounted
<1>7. CountersCover'
  BY DEF VolumesInv, CountersCover, OnVolume, Detach
<1> QED
  BY <1>1, <1>3, <1>4, <1>5, <1>6, <1>7 DEF VolumesInv, TypeOK, Detach, Mounted

\* and one when there is no daemon,
LEMMA DetachWithoutDaemonStep ==
  ASSUME VolumesInv, NEW d \in Drives, DetachWithoutDaemon(d)
  PROVE  VolumesInv'
<1>1. TypeOK'
  BY DEF VolumesInv, TypeOK, DetachWithoutDaemon
<1> QED
  BY <1>1 DEF VolumesInv, PointersValid, CountersCover, DetachWithoutDaemon

\* A step that leaves the volumes alone, and keeps what the handles need.
LEMMA HandleStep ==
  ASSUME VolumesInv, UNCHANGED <<vpfsd, running, list, isoFiles>>,
         TypeOK', PointersValid', CountersCover'
  PROVE  VolumesInv'
BY DEF VolumesInv, Mounted

\* Opening a file and beginning a search are the same step but for the counter.
LEMMA OpenStep ==
  ASSUME VolumesInv, NEW d \in Drives, NEW h \in Handles, NEW o \in Objs,
         NEW kind \in {"file", "search"},
         running, Mounted(d), handle[h] = Closed, o \notin objects,
         objects' = objects \cup {o}, Count(kind, vpfsd[d], 1),
         Remember(d, h, kind, o) \/ (reply' = "error" /\ UNCHANGED handle),
         UNCHANGED <<vpfsd, running, list, isoFiles>>
  PROVE  VolumesInv'
<1> USE DEF VolumesInv
<1> DEFINE v == vpfsd[d]
<1>1. v \in volumes /\ v \in Vols
  BY DEF PointersValid, TypeOK
<1>2. TypeOK'
  <2>1. cOpenFiles' \in [Vols -> Int] /\ cSearches' \in [Vols -> Int]
    BY <1>1 DEF TypeOK, Count
  <2>2. handle' \in [Handles -> HandleTypes]
    BY <1>1 DEF TypeOK, HandleTypes, Remember, Handle
  <2> QED
    BY <2>1, <2>2 DEF TypeOK, Remember
<1>3. PointersValid'
  <2>1. \A e \in Drives : Mounted(e)' => vpfsd'[e] \in volumes'
    BY DEF PointersValid, Mounted
  <2>2. CASE Remember(d, h, kind, o)
    <3>1. /\ handle'[h].vol = v /\ handle'[h].obj = o
          /\ \A g \in Handles \ {h} : handle'[g] = handle[g]
      BY <2>2 DEF TypeOK, Remember, Handle
    <3>2. \A g \in Handles \ {h} : handle[g].obj # o
      BY NullAssumption DEF PointersValid, Closed, Handle
    <3> QED
      BY <1>1, <2>1, <3>1, <3>2 DEF PointersValid
  <2>3. CASE UNCHANGED handle
    BY <2>1, <2>3 DEF PointersValid
  <2> QED
    BY <2>2, <2>3
<1>4. CountersCover'
  <2> SUFFICES ASSUME NEW w \in volumes
               PROVE  /\ (Cardinality(OnVolume("file", w)) =< cOpenFiles[w])'
                      /\ (Cardinality(OnVolume("search", w)) =< cSearches[w])'
    BY DEF CountersCover
  <2>1. w \in Vols /\ cOpenFiles[w] \in Int /\ cSearches[w] \in Int
    BY DEF TypeOK
  <2>2. /\ Cardinality(OnVolume("file", w)) =< cOpenFiles[w]
        /\ Cardinality(OnVolume("search", w)) =< cSearches[w]
        /\ Cardinality(OnVolume("file", w)) \in Nat
        /\ Cardinality(OnVolume("search", w)) \in Nat
    BY OnVolumeFinite DEF CountersCover
  <2>3. /\ cOpenFiles'[w] = cOpenFiles[w] + (IF kind = "file" /\ w = v THEN 1 ELSE 0)
        /\ cSearches'[w] = cSearches[w] + (IF kind = "search" /\ w = v THEN 1 ELSE 0)
    BY <1>1, <2>1 DEF TypeOK, Count
  <2>4. CASE Remember(d, h, kind, o)
    <3>1. /\ Cardinality(OnVolume("file", w))' = Cardinality(OnVolume("file", w))
                 + (IF "file" = kind /\ w = v THEN 1 ELSE 0)
          /\ Cardinality(OnVolume("search", w))' = Cardinality(OnVolume("search", w))
                 + (IF "search" = kind /\ w = v THEN 1 ELSE 0)
      BY <2>1, <2>4, OnVolumeOpens
    <3> QED
      BY <2>1, <2>2, <2>3, <3>1
  <2>5. CASE UNCHANGED handle
    <3>1. /\ OnVolume("file", w)' = OnVolume("file", w)
          /\ OnVolume("search", w)' = OnVolume("search", w)
      BY <2>5 DEF OnVolume
    <3> QED
      BY <2>1, <2>2, <2>3, <3>1
  <2> QED
    BY <2>4, <2>5
<1> QED
  BY <1>2, <1>3, <1>4, HandleStep

\* and a close,
LEMMA CloseStep ==
  ASSUME VolumesInv, NEW h \in Handles, Close(h)
  PROVE  VolumesInv'
<1> USE DEF VolumesInv
<1> DEFINE kind == handle[h].kind
           v == handle[h].vol
<1>1. v \in Vols /\ kind \in {"file", "search"}
  BY DEF TypeOK, HandleTypes, Close
<1>2. TypeOK'
  <2>1. cOpenFiles' \in [Vols -> Int] /\ cSearches' \in [Vols -> Int]
    BY <1>1 DEF TypeOK, Close, Release, Count
  <2>2. handle' \in [Handles -> HandleTypes]
    BY DEF TypeOK, HandleTypes, Close
  <2> QED
    BY <2>1, <2>2 DEF TypeOK, Close, Release
<1>3. PointersValid'
  <2> SUFFICES ASSUME running PROVE PointersValid'
    BY DEF PointersValid, Close
  <2>1. \A e \in Drives : Mounted(e)' => vpfsd'[e] \in volumes'
    BY DEF PointersValid, Mounted, Close
  <2>2. /\ handle'[h] = Closed /\ Closed.obj = Null
        /\ \A g \in Handles \ {h} : handle'[g] = handle[g]
    BY DEF TypeOK, Close, Closed, Handle
  <2>3. objects \ {handle[h].obj} \subseteq objects' /\ volumes' = volumes
    BY DEF Close, Release
  <2>4. \A g \in Handles \ {h} : handle[g] # Closed =>
          /\ handle[g].vol \in volumes /\ handle[g].obj \in objects'
          /\ \A f \in Handles \ {g} : handle[f].obj # handle[g].obj
    BY <2>3 DEF PointersValid, Close
  <2>5. \A g \in Handles \ {h} : handle[g] # Closed => handle[g].obj # Null
    BY NullAssumption DEF PointersValid, TypeOK
  <2> QED
    BY <2>1, <2>2, <2>3, <2>4, <2>5 DEF PointersValid
<1>4. CountersCover'
  <2> SUFFICES ASSUME running, NEW w \in volumes
               PROVE  /\ (Cardinality(OnVolume("file", w)) =< cOpenFiles[w])'
                      /\ (Cardinality(OnVolume("search", w)) =< cSearches[w])'
    BY DEF CountersCover, Close
  <2>1. w \in Vols /\ cOpenFiles[w] \in Int /\ cSearches[w] \in Int
    BY DEF TypeOK
  <2>2. /\ Cardinality(OnVolume("file", w)) =< cOpenFiles[w]
        /\ Cardinality(OnVolume("search", w)) =< cSearches[w]
        /\ Cardinality(OnVolume("file", w)) \in Nat
        /\ Cardinality(OnVolume("search", w)) \in Nat
    BY OnVolumeFinite DEF CountersCover
  <2>3. /\ cOpenFiles'[w] >= cOpenFiles[w] - (IF "file" = kind /\ w = v THEN 1 ELSE 0)
        /\ cSearches'[w] >= cSearches[w] - (IF "search" = kind /\ w = v THEN 1 ELSE 0)
    BY <1>1, <2>1 DEF TypeOK, Close, Release, Count
  <2>4. /\ Cardinality(OnVolume("file", w))' = Cardinality(OnVolume("file", w))
               - (IF "file" = kind /\ w = v THEN 1 ELSE 0)
        /\ Cardinality(OnVolume("search", w))' = Cardinality(OnVolume("search", w))
               - (IF "search" = kind /\ w = v THEN 1 ELSE 0)
    BY <2>1, OnVolumeCloses DEF Close
  <2>5. cOpenFiles'[w] \in Int /\ cSearches'[w] \in Int
    BY <1>2, <2>1 DEF TypeOK
  <2> QED
    BY <2>1, <2>2, <2>3, <2>4, <2>5
<1> QED
  BY <1>2, <1>3, <1>4, HandleStep DEF Close

\* and the daemon's death and restart.
LEMMA DaemonStep ==
  ASSUME KeepsPointers, VolumesInv, Die \/ Restart
  PROVE  VolumesInv'
<1>1. TypeOK'
  <2>1. CASE Die
    BY <2>1 DEF VolumesInv, TypeOK, Die
  <2>2. CASE Restart
    BY <2>2 DEF VolumesInv, TypeOK, Restart
  <2> QED
    BY <2>1, <2>2
<1>2. CASE Die
  BY <1>1, <1>2, FS_EmptySet DEF VolumesInv, PointersValid, CountersCover, Die
<1>3. CASE Restart
  BY <1>1, <1>3
     DEF KeepsPointers, VolumesInv, PointersValid, CountersCover, Restart, Mounted
<1> QED
  BY <1>2, <1>3

\* It is inductive.
LEMMA VolumesStep ==
  ASSUME KeepsPointers
  PROVE  VolumesInv /\ [Next]_vars => VolumesInv'
<1> SUFFICES ASSUME VolumesInv, [Next]_vars PROVE VolumesInv'
  OBVIOUS
<1>1. ASSUME NEW d \in Drives,
             AttachFails(d) \/ AttachWithoutJoliet(d) \/ DetachRefused(d)
      PROVE  VolumesInv'
  BY <1>1, VolumesQuiet DEF AttachFails, AttachWithoutJoliet, DetachRefused
<1>2. ASSUME NEW d \in Drives,
             (\E v \in Vols : Attach(d, v)) \/ Detach(d) \/ DetachWithoutDaemon(d)
      PROVE  VolumesInv'
  BY <1>2, AttachStep, DetachStep, DetachWithoutDaemonStep
<1>3. ASSUME NEW d \in Drives, NEW h \in Handles,
             OpenFails(d, h) \/ \E o \in Objs : FindUndelivered(d, h, o)
      PROVE  VolumesInv'
  BY <1>3, VolumesQuiet DEF OpenFails, FindUndelivered
<1>4. ASSUME NEW d \in Drives, NEW h \in Handles, NEW o \in Objs, OpenCreate(d, h, o)
      PROVE  VolumesInv'
  BY <1>4, OpenStep DEF OpenCreate
<1>5. ASSUME NEW d \in Drives, NEW h \in Handles, NEW o \in Objs, FindFirst(d, h, o)
      PROVE  VolumesInv'
  BY <1>5, OpenStep DEF FindFirst
<1>6. ASSUME NEW h \in Handles, Close(h)
      PROVE  VolumesInv'
  BY <1>6, CloseStep
<1>7. ASSUME NEW h \in Handles, CloseReference(h)
      PROVE  VolumesInv'
  BY <1>7, VolumesQuiet DEF CloseReference
<1>8. CASE Die \/ Restart
  BY <1>8, DaemonStep
<1>9. CASE UNCHANGED vars
  BY <1>9, VolumesQuiet DEF VolumesInv, TypeOK
<1> QED
  BY <1>1, <1>2, <1>3, <1>4, <1>5, <1>6, <1>7, <1>8, <1>9 DEF Next

\* Where no volume is detached by force, no detach is interrupted, and the daemon is
\* not restarted with drives mounted, every pointer that the kernel gives back to
\* the daemon names memory that is allocated, whatever else fails.
THEOREM PointersAreValid ==
  ASSUME KeepsPointers
  PROVE  Spec => []PointersValid
<1>1. Init => VolumesInv
  BY VolumesInit
<1>2. VolumesInv /\ [Next]_vars => VolumesInv'
  BY VolumesStep
<1>3. VolumesInv => PointersValid
  BY DEF VolumesInv
<1> QED
  BY <1>1, <1>2, <1>3, PTL DEF Spec

\* In the same environments the counters by which detachVolume() decides cover what
\* the kernel has open on the volume.
THEOREM CountersAlwaysCover ==
  ASSUME KeepsPointers
  PROVE  Spec => []CountersCover
<1>1. Init => VolumesInv
  BY VolumesInit
<1>2. VolumesInv /\ [Next]_vars => VolumesInv'
  BY VolumesStep
<1>3. VolumesInv => CountersCover
  BY DEF VolumesInv
<1> QED
  BY <1>1, <1>2, <1>3, PTL DEF Spec

\* The type invariant in the same environments: in the others a volume may be detached
\* twice, and its image closed twice.
THEOREM VolumesTypeCorrect ==
  ASSUME KeepsPointers
  PROVE  Spec => []TypeOK
<1>1. VolumesInv => TypeOK
  BY DEF VolumesInv
<1> QED
  BY <1>1, VolumesInit, VolumesStep, PTL DEF Spec

-----------------------------------------------------------------------------
(* The list as a sequence *)

\* s holds the k allocated volumes in the order of the list, and pNext and pPrev lead
\* from each to its neighbours.
Listed(k, s) ==
  /\ k \in Nat /\ s \in [1 .. k -> volumes]
  /\ \A i, j \in 1 .. k : s[i] = s[j] => i = j
  /\ \A v \in volumes : \E i \in 1 .. k : s[i] = v
  /\ pFirstVolume = IF k = 0 THEN Null ELSE s[1]
  /\ \A i \in 1 .. k : /\ pNext[s[i]] = IF i = k THEN Null ELSE s[i + 1]
                       /\ pPrev[s[i]] = IF i = 1 THEN Null ELSE s[i - 1]

ListInv == \E k \in Nat : \E s \in [1 .. k -> volumes] : Listed(k, s)

\* A list is no longer than there are addresses.
LEMMA ListIsShort ==
  ASSUME TypeOK, NEW k \in Nat, NEW s \in [1 .. k -> volumes], Listed(k, s)
  PROVE  /\ Cardinality(Vols) \in Nat /\ k =< Cardinality(Vols)
         /\ \A i \in 1 .. k : s[i] \in Vols /\ s[i] # Null
<1>1. s \in Injection(1 .. k, Vols)
  BY DEF Listed, TypeOK, Injection, IsInjective
<1>2. IsFiniteSet(1 .. k) /\ Cardinality(1 .. k) = k
  BY FS_Interval
<1>3. Cardinality(1 .. k) =< Cardinality(Vols)
  BY <1>1, FiniteAssumption, FS_Injection
<1> QED
  BY <1>2, <1>3, FiniteAssumption, FS_CardinalityType, NullAssumption DEF TypeOK

\* Walk follows the list and stays at its end.
LEMMA WalkListed ==
  ASSUME TypeOK, NEW k \in Nat, NEW s \in [1 .. k -> volumes], Listed(k, s)
  PROVE  /\ DOMAIN Walk = 0 .. Cardinality(Vols)
         /\ \A n \in 0 .. Cardinality(Vols) : Walk[n] = IF n < k THEN s[n + 1] ELSE Null
<1> DEFINE N == Cardinality(Vols)
           g == [n \in 0 .. N |-> IF n < k THEN s[n + 1] ELSE Null]
<1>1. N \in Nat /\ \A i \in 1 .. k : s[i] # Null
  BY ListIsShort
<1> HIDE DEF N
<1>2. g = [n \in 0 .. N |-> IF n = 0 THEN pFirstVolume
                            ELSE IF g[n - 1] = Null THEN Null ELSE pNext[g[n - 1]]]
  <2> SUFFICES ASSUME NEW n \in 0 .. N
               PROVE  g[n] = IF n = 0 THEN pFirstVolume
                             ELSE IF g[n - 1] = Null THEN Null ELSE pNext[g[n - 1]]
    BY Zenon
  <2>1. CASE n = 0
    BY <1>1, <2>1 DEF Listed
  <2>2. CASE n # 0
    <3>1. n - 1 \in 0 .. N /\ g[n - 1] = IF n - 1 < k THEN s[n] ELSE Null
      BY <1>1, <2>2
    <3>2. CASE n - 1 < k
      BY <1>1, <2>2, <3>1, <3>2 DEF Listed
    <3>3. CASE ~(n - 1 < k)
      BY <1>1, <2>2, <3>1, <3>3
    <3> QED
      BY <3>2, <3>3
  <2> QED
    BY <2>1, <2>2
<1> HIDE DEF g
<1>3. Walk = [n \in 0 .. N |-> IF n = 0 THEN pFirstVolume
                               ELSE IF Walk[n - 1] = Null THEN Null ELSE pNext[Walk[n - 1]]]
  BY <1>2 DEF Walk, N
<1>4. \A n \in 0 .. N : Walk[n] = g[n]
  <2> DEFINE T == {n \in 0 .. N : Walk[n] # g[n]}
  <2> SUFFICES ASSUME T # {} PROVE FALSE
    OBVIOUS
  <2>1. PICK n \in T : \A m \in T : n =< m
    <3>1. T \in SUBSET Nat
      BY <1>1
    <3> HIDE DEF T
    <3> QED
      BY <3>1, LeastNatural
  <2>2. CASE n = 0
    BY <1>1, <1>2, <1>3, <2>1, <2>2
  <2>3. CASE n # 0
    <3>1. n - 1 \in 0 .. N /\ Walk[n - 1] = g[n - 1]
      BY <1>1, <2>1, <2>3
    <3> QED
      BY <1>2, <1>3, <2>1, <2>3, <3>1
  <2> QED
    BY <2>2, <2>3
<1> QED
  BY <1>3, <1>4 DEF g, N

-----------------------------------------------------------------------------
(* Every step keeps it *)

\* The list is whole initially.
LEMMA ListInit == Init => ListInv
<1> SUFFICES ASSUME Init PROVE ListInv
  OBVIOUS
<1> DEFINE s == [i \in 1 .. 0 |-> Null]
<1>1. 0 \in Nat /\ s \in [1 .. 0 -> volumes] /\ Listed(0, s)
  BY DEF Init, Listed
<1> HIDE DEF s
<1>2. \E k \in Nat : \E t \in [1 .. k -> volumes] : Listed(k, t)
  BY <1>1, Zenon
<1> QED
  BY <1>2, Zenon DEF ListInv

\* What does not touch the list leaves it whole.
LEMMA ListQuiet ==
  ASSUME ListInv, UNCHANGED list
  PROVE  ListInv'
<1>1. \A k, s : Listed(k, s)' = Listed(k, s)
  BY DEF Listed
<1> QED
  BY <1>1, Zenon DEF ListInv

\* Linking a volume at its head keeps it whole,
LEMMA ListAttach ==
  ASSUME VolumesInv, ListInv, NEW d \in Drives, NEW v \in Vols, Attach(d, v)
  PROVE  ListInv'
<1>0. PICK k \in Nat : \E s \in [1 .. k -> volumes] : Listed(k, s)
  BY DEF ListInv
<1>1. PICK s \in [1 .. k -> volumes] : Listed(k, s)
  BY <1>0
<1> DEFINE t == [i \in 1 .. k + 1 |-> IF i = 1 THEN v ELSE s[i - 1]]
<1>2. /\ v \notin volumes /\ volumes' = volumes \cup {v} /\ volumes \subseteq Vols
      /\ pFirstVolume' = v /\ pNext' = [pNext EXCEPT ![v] = pFirstVolume]
      /\ \A w \in Vols : pPrev'[w] = IF w = v THEN Null
                                     ELSE IF w = pFirstVolume THEN v ELSE pPrev[w]
      /\ DOMAIN pNext = Vols
  BY DEF Attach, Link, VolumesInv, TypeOK
<1>3. \A i \in 1 .. k : s[i] \in volumes /\ s[i] # v /\ s[i] \in Vols /\ s[i] # Null
  BY <1>2, NullAssumption
<1>4. \A i \in 1 .. k + 1 : t[i] = IF i = 1 THEN v ELSE s[i - 1]
  OBVIOUS
<1>5. \A i \in 1 .. k + 1 : i # 1 => i - 1 \in 1 .. k
  OBVIOUS
<1>6. t \in [1 .. k + 1 -> volumes']
  BY <1>2, <1>3, <1>5
<1> HIDE DEF t
<1>7. \A i, j \in 1 .. k + 1 : t[i] = t[j] => i = j
  <2>1. \A i, j \in 1 .. k : s[i] = s[j] => i = j
    BY <1>1 DEF Listed
  <2> QED
    BY <2>1, <1>3, <1>4, <1>5
<1>8. \A w \in volumes' : \E i \in 1 .. k + 1 : t[i] = w
  <2> SUFFICES ASSUME NEW w \in volumes' PROVE \E i \in 1 .. k + 1 : t[i] = w
    OBVIOUS
  <2>1. CASE w = v
    <3>1. 1 \in 1 .. k + 1
      OBVIOUS
    <3> QED
      BY <1>4, <2>1, <3>1
  <2>2. CASE w # v
    <3>1. PICK j \in 1 .. k : s[j] = w
      BY <1>1, <1>2, <2>2 DEF Listed
    <3>2. j + 1 \in 1 .. k + 1 /\ j + 1 # 1 /\ (j + 1) - 1 = j
      OBVIOUS
    <3> QED
      BY <1>4, <3>1, <3>2
  <2> QED
    BY <2>1, <2>2
<1>9. ASSUME NEW i \in 1 .. k + 1
      PROVE  /\ pNext'[t[i]] = IF i = k + 1 THEN Null ELSE t[i + 1]
             /\ pPrev'[t[i]] = IF i = 1 THEN Null ELSE t[i - 1]
  <2>1. CASE i = 1
    <3>1. t[1] = v /\ pNext'[v] = pFirstVolume /\ pPrev'[v] = Null
      BY <1>2, <1>4
    <3>2. CASE k = 0
      BY <1>1, <2>1, <3>1, <3>2 DEF Listed
    <3>3. CASE k # 0
      <4>1. t[2] = s[1] /\ pFirstVolume = s[1] /\ 1 # k + 1
        BY <1>1, <1>4, <3>3 DEF Listed
      <4> QED
        BY <2>1, <3>1, <4>1
    <3> QED
      BY <3>2, <3>3
  <2>2. CASE i # 1
    <3> DEFINE j == i - 1
    <3>1. j \in 1 .. k /\ t[i] = s[j] /\ s[j] \in Vols /\ s[j] # v
      BY <1>3, <1>4, <1>5, <2>2
    <3>2. /\ pNext'[s[j]] = IF j = k THEN Null ELSE s[j + 1]
          /\ pPrev[s[j]] = IF j = 1 THEN Null ELSE s[j - 1]
      BY <1>1, <1>2, <3>1 DEF Listed
    <3>3. i # k + 1 => t[i + 1] = s[j + 1]
      BY <1>4
    <3>4. pNext'[t[i]] = IF i = k + 1 THEN Null ELSE t[i + 1]
      BY <3>1, <3>2, <3>3
    <3>5. k # 0 /\ pFirstVolume = s[1]
      BY <1>1, <3>1 DEF Listed
    <3>6. s[j] = s[1] <=> j = 1
      BY <1>1, <3>1, <3>5 DEF Listed
    <3>7. t[i - 1] = IF j = 1 THEN v ELSE s[j - 1]
      BY <1>4, <3>1
    <3>8. pPrev'[t[i]] = t[i - 1]
      BY <1>2, <3>1, <3>2, <3>5, <3>6, <3>7
    <3> QED
      BY <2>2, <3>4, <3>8
  <2> QED
    BY <2>1, <2>2
<1>10. k + 1 \in Nat /\ pFirstVolume' = t[1]
  BY <1>2, <1>4
<1>11. Listed(k + 1, t)'
  BY <1>6, <1>7, <1>8, <1>9, <1>10 DEF Listed
<1> QED
  BY <1>6, <1>10, <1>11 DEF ListInv

\* and unlinking one from any place.
LEMMA ListDetach ==
  ASSUME KeepsPointers, VolumesInv, ListInv, NEW d \in Drives, Detach(d)
  PROVE  ListInv'
<1> DEFINE v == vpfsd[d]
<1>0. PICK k \in Nat : \E s \in [1 .. k -> volumes] : Listed(k, s)
  BY DEF ListInv
<1>1. PICK s \in [1 .. k -> volumes] : Listed(k, s)
  BY <1>0
<1>2. /\ v \in volumes /\ volumes' = volumes \ {v} /\ volumes \subseteq Vols
      /\ \A w \in Vols : /\ pPrev'[w] = IF w = pNext[v] THEN pPrev[v] ELSE pPrev[w]
                         /\ pNext'[w] = IF w = pPrev[v] THEN pNext[v] ELSE pNext[w]
      /\ pFirstVolume' = IF pPrev[v] = Null THEN pNext[v] ELSE pFirstVolume
  BY DEF Detach, Unlink, VolumesInv, PointersValid, TypeOK
<1>3. \A i \in 1 .. k : s[i] \in volumes /\ s[i] \in Vols /\ s[i] # Null
  BY <1>2, NullAssumption
<1>4. PICK m \in 1 .. k : s[m] = v
  BY <1>1, <1>2 DEF Listed
<1>5. /\ \A i, j \in 1 .. k : s[i] = s[j] => i = j
      /\ pFirstVolume = s[1]
      /\ \A i \in 1 .. k : /\ pNext[s[i]] = IF i = k THEN Null ELSE s[i + 1]
                           /\ pPrev[s[i]] = IF i = 1 THEN Null ELSE s[i - 1]
  BY <1>1, <1>4 DEF Listed
\* Where the i-th volume of the list that remains was.
<1> DEFINE at(i) == IF i < m THEN i ELSE i + 1
           t == [i \in 1 .. k - 1 |-> s[at(i)]]
<1>6. \A i \in 1 .. k - 1 : at(i) \in 1 .. k /\ at(i) # m /\ t[i] = s[at(i)]
  BY <1>4
<1>7. t \in [1 .. k - 1 -> volumes']
  BY <1>2, <1>3, <1>4, <1>5, <1>6
<1>8. \A i, j \in 1 .. k - 1 : t[i] = t[j] => i = j
  BY <1>4, <1>5, <1>6
<1> HIDE DEF t
<1>9. \A w \in volumes' : \E i \in 1 .. k - 1 : t[i] = w
  <2> SUFFICES ASSUME NEW w \in volumes' PROVE \E i \in 1 .. k - 1 : t[i] = w
    OBVIOUS
  <2>1. PICK j \in 1 .. k : s[j] = w /\ j # m
    BY <1>1, <1>2, <1>4 DEF Listed
  <2> DEFINE i == IF j < m THEN j ELSE j - 1
  <2>2. i \in 1 .. k - 1 /\ at(i) = j
    BY <1>4, <2>1
  <2> QED
    BY <1>6, <2>1, <2>2
<1>10. /\ pNext[v] = IF m = k THEN Null ELSE s[m + 1]
       /\ pPrev[v] = IF m = 1 THEN Null ELSE s[m - 1]
  BY <1>4, <1>5
<1>11. ASSUME NEW i \in 1 .. k - 1
       PROVE  pNext'[t[i]] = IF i = k - 1 THEN Null ELSE t[i + 1]
  <2> DEFINE j == at(i)
  <2>1. j \in 1 .. k /\ t[i] = s[j] /\ s[j] \in Vols
    BY <1>3, <1>6
  <2>2. i # k - 1 => i + 1 \in 1 .. k - 1 /\ t[i + 1] = s[at(i + 1)]
    BY <1>6
  <2>3. s[j] = pPrev[v] <=> j = m - 1
    <3>1. CASE m = 1
      BY <1>3, <1>10, <2>1, <3>1
    <3>2. CASE m # 1
      <4>1. m - 1 \in 1 .. k
        BY <1>4, <3>2
      <4> HIDE DEF j
      <4>2. s[j] = s[m - 1] <=> j = m - 1
        BY <1>5, <2>1, <4>1
      <4> QED
        BY <1>10, <3>2, <4>2
    <3> QED
      BY <3>1, <3>2
  <2>4. CASE j = m - 1
    <3>1. pNext'[s[j]] = pNext[v]
      BY <1>2, <2>1, <2>3, <2>4
    <3>2. i = m - 1 /\ at(i + 1) = m + 1
      BY <1>4, <2>4
    <3> QED
      BY <1>4, <1>10, <2>1, <2>2, <3>1, <3>2
  <2>5. CASE j # m - 1
    <3>1. pNext'[s[j]] = pNext[s[j]] /\ pNext[s[j]] = IF j = k THEN Null ELSE s[j + 1]
      BY <1>2, <1>5, <2>1, <2>3, <2>5
    <3>2. (j = k <=> i = k - 1) /\ (i # k - 1 => at(i + 1) = j + 1)
      BY <1>4, <2>5
    <3> QED
      BY <2>1, <2>2, <3>1, <3>2
  <2> QED
    BY <2>4, <2>5
<1>12. ASSUME NEW i \in 1 .. k - 1
       PROVE  pPrev'[t[i]] = IF i = 1 THEN Null ELSE t[i - 1]
  <2> DEFINE j == at(i)
  <2>1. j \in 1 .. k /\ t[i] = s[j] /\ s[j] \in Vols
    BY <1>3, <1>6
  <2>2. i # 1 => i - 1 \in 1 .. k - 1 /\ t[i - 1] = s[at(i - 1)]
    BY <1>6
  <2>3. s[j] = pNext[v] <=> j = m + 1
    <3>1. CASE m = k
      BY <1>3, <1>10, <2>1, <3>1
    <3>2. CASE m # k
      <4>1. m + 1 \in 1 .. k
        BY <1>4, <3>2
      <4> HIDE DEF j
      <4>2. s[j] = s[m + 1] <=> j = m + 1
        BY <1>5, <2>1, <4>1
      <4> QED
        BY <1>10, <3>2, <4>2
    <3> QED
      BY <3>1, <3>2
  <2>4. CASE j = m + 1
    <3>1. pPrev'[s[j]] = pPrev[v]
      BY <1>2, <2>1, <2>3, <2>4
    <3>2. i = m /\ (i # 1 => at(i - 1) = m - 1)
      BY <1>4, <2>4
    <3> QED
      BY <1>4, <1>10, <2>1, <2>2, <3>1, <3>2
  <2>5. CASE j # m + 1
    <3>1. pPrev'[s[j]] = pPrev[s[j]] /\ pPrev[s[j]] = IF j = 1 THEN Null ELSE s[j - 1]
      BY <1>2, <1>5, <2>1, <2>3, <2>5
    <3>2. (j = 1 <=> i = 1) /\ (i # 1 => at(i - 1) = j - 1)
      BY <1>4, <2>5
    <3> QED
      BY <2>1, <2>2, <3>1, <3>2
  <2> QED
    BY <2>4, <2>5
<1>13. k - 1 \in Nat /\ pFirstVolume' = IF k - 1 = 0 THEN Null ELSE t[1]
  <2>1. CASE m = 1
    <3>1. pFirstVolume' = pNext[v] /\ (k # 1 => t[1] = s[2])
      BY <1>2, <1>6, <1>10, <2>1
    <3> QED
      BY <1>4, <1>10, <2>1, <3>1
  <2>2. CASE m # 1
    <3>1. pPrev[v] # Null /\ 1 \in 1 .. k - 1 /\ at(1) = 1
      BY <1>3, <1>4, <1>10, <2>2
    <3> QED
      BY <1>2, <1>4, <1>5, <1>6, <3>1
  <2> QED
    BY <2>1, <2>2
<1>14. Listed(k - 1, t)'
  BY <1>7, <1>8, <1>9, <1>11, <1>12, <1>13 DEF Listed
<1> QED
  BY <1>7, <1>13, <1>14 DEF ListInv

\* The invariant of the list is inductive, given that of the volumes.
LEMMA ListStep ==
  ASSUME KeepsPointers
  PROVE  VolumesInv /\ ListInv /\ [Next]_vars => ListInv'
<1> SUFFICES ASSUME VolumesInv, ListInv, [Next]_vars PROVE ListInv'
  OBVIOUS
<1>1. ASSUME NEW d \in Drives, (\E v \in Vols : Attach(d, v)) \/ Detach(d)
      PROVE  ListInv'
  BY <1>1, ListAttach, ListDetach
<1>2. ASSUME NEW d \in Drives,
             \/ AttachFails(d) \/ AttachWithoutJoliet(d) \/ DetachRefused(d)
             \/ DetachWithoutDaemon(d)
      PROVE  UNCHANGED list
  BY <1>2 DEF AttachFails, AttachWithoutJoliet, DetachRefused, DetachWithoutDaemon
<1>3. ASSUME NEW d \in Drives, NEW h \in Handles,
             \/ OpenFails(d, h)
             \/ \E o \in Objs : \/ OpenCreate(d, h, o) \/ FindFirst(d, h, o)
                                \/ FindUndelivered(d, h, o)
      PROVE  UNCHANGED list
  BY <1>3 DEF OpenFails, OpenCreate, FindFirst, FindUndelivered
<1>4. ASSUME NEW h \in Handles, Close(h) \/ CloseReference(h) PROVE UNCHANGED list
  BY <1>4 DEF Close, CloseReference
<1>5. CASE Die
  <2> DEFINE s == [i \in 1 .. 0 |-> Null]
  <2>1. 0 \in Nat /\ s \in [1 .. 0 -> volumes'] /\ Listed(0, s)'
    BY <1>5 DEF Die, Listed
  <2> QED
    BY <2>1 DEF ListInv
<1>6. CASE Restart \/ UNCHANGED vars
  BY <1>6, ListQuiet DEF Restart
<1> QED
  BY <1>1, <1>2, <1>3, <1>4, <1>5, <1>6, ListQuiet DEF Next

\* It says what ListWellFormed says.
LEMMA ListedIsWellFormed == VolumesInv /\ ListInv => ListWellFormed
<1> SUFFICES ASSUME VolumesInv, ListInv PROVE ListWellFormed
  OBVIOUS
<1>0. PICK k \in Nat : \E s \in [1 .. k -> volumes] : Listed(k, s)
  BY DEF ListInv
<1>1. PICK s \in [1 .. k -> volumes] : Listed(k, s)
  BY <1>0
<1>2. TypeOK
  BY DEF VolumesInv
<1> DEFINE N == Cardinality(Vols)
<1>3. N \in Nat /\ k =< N /\ \A i \in 1 .. k : s[i] # Null
  BY <1>1, <1>2, ListIsShort
<1>4. /\ DOMAIN Walk = 0 .. N
      /\ \A n \in 0 .. N : Walk[n] = IF n < k THEN s[n + 1] ELSE Null
  BY <1>1, <1>2, WalkListed
<1> HIDE DEF N
<1>5. Walk[N] = Null
  BY <1>3, <1>4
<1>6. volumes = {Walk[n] : n \in DOMAIN Walk} \ {Null}
  <2>1. ASSUME NEW v \in volumes PROVE v # Null /\ \E n \in DOMAIN Walk : v = Walk[n]
    <3>1. PICK i \in 1 .. k : s[i] = v
      BY <1>1 DEF Listed
    <3>2. i - 1 \in 0 .. N /\ i - 1 < k /\ (i - 1) + 1 = i
      BY <1>3
    <3> QED
      BY <1>3, <1>4, <3>1, <3>2
  <2>2. ASSUME NEW n \in DOMAIN Walk, Walk[n] # Null PROVE Walk[n] \in volumes
    <3>1. n \in 0 .. N /\ n < k /\ n + 1 \in 1 .. k
      BY <1>3, <1>4, <2>2
    <3> QED
      BY <1>4, <3>1
  <2> QED
    BY <2>1, <2>2
<1>7. ASSUME NEW v \in volumes
      PROVE  IF v = pFirstVolume THEN pPrev[v] = Null
             ELSE pPrev[v] \in volumes /\ pNext[pPrev[v]] = v
  <2>1. PICK i \in 1 .. k : s[i] = v
    BY <1>1 DEF Listed
  <2>2. pFirstVolume = s[1] /\ (v = s[1] <=> i = 1)
    BY <1>1, <2>1 DEF Listed
  <2>3. CASE i = 1
    BY <1>1, <2>1, <2>2, <2>3 DEF Listed
  <2>4. CASE i # 1
    <3>1. i - 1 \in 1 .. k /\ i - 1 # k /\ (i - 1) + 1 = i
      BY <2>4
    <3>2. pPrev[v] = s[i - 1] /\ pNext[s[i - 1]] = s[i]
      BY <1>1, <2>1, <2>4, <3>1 DEF Listed
    <3> QED
      BY <2>1, <2>2, <2>4, <3>1, <3>2
  <2> QED
    BY <2>3, <2>4
<1> QED
  BY <1>5, <1>6, <1>7 DEF ListWellFormed, N

\* As long as the volumes that the kernel detaches are there, the list is whole after any
\* attaches and detaches in any order: it ends, holds exactly the volumes that are
\* allocated, and pPrev leads back.
THEOREM ListIsWellFormed ==
  ASSUME KeepsPointers
  PROVE  Spec => []ListWellFormed
<1>1. VolumesInv /\ [Next]_vars => VolumesInv'
  BY VolumesStep
<1>2. VolumesInv /\ ListInv /\ [Next]_vars => ListInv'
  BY ListStep
<1> QED
  BY <1>1, <1>2, VolumesInit, ListInit, ListedIsWellFormed, PTL DEF Spec

-----------------------------------------------------------------------------
(* What the daemon has is what the kernel knows of *)

\* The environments in which it is: no call is interrupted in the daemon, of what cannot
\* be delivered only searches (FS_FINDFIRST closes them), and every image is Joliet.
KeepsTrack == Lost = {} /\ Undelivered \subseteq {"find"} /\ Faults \subseteq {"die"}

Exact(v) ==
  /\ cOpenFiles[v] = Cardinality(OnVolume("file", v))
  /\ cSearches[v] = Cardinality(OnVolume("search", v))

\* The counters are exact, and a handle is on the volume that its drive still has.
TrackInv ==
  /\ NothingLeft
  /\ running =>
       /\ \A v \in volumes : Exact(v)
       /\ \A h \in Handles : handle[h] # Closed => vpfsd[handle[h].drive] = handle[h].vol
  /\ ~running => isoFiles = 0 /\ objects = {}

\* Where nothing is interrupted, the environment is one of Volumes_proofs.
LEMMA TrackKeeps == KeepsTrack => KeepsPointers
BY DEF KeepsTrack, KeepsPointers

\* The invariant holds initially.
LEMMA TrackInit == Init => TrackInv
<1> SUFFICES ASSUME Init PROVE TrackInv
  OBVIOUS
<1>1. Cardinality(volumes) = 0
  BY FS_EmptySet DEF Init
<1> QED
  BY <1>1 DEF Init, TrackInv, NothingLeft, Closed, Handle

\* What an open handle says of itself.
LEMMA HandleFields ==
  ASSUME TypeOK, NEW h \in Handles
  PROVE  /\ handle[h] # Closed =>
              /\ handle[h].kind \in {"file", "search"} /\ handle[h].drive \in Drives
              /\ handle[h].vol \in Vols /\ handle[h].obj \in Objs
              /\ handle[h].drive # Null /\ handle[h].vol # Null /\ handle[h].obj # Null
         /\ Closed.drive = Null /\ Closed.obj = Null /\ Closed.kind = "closed"
BY NullAssumption DEF TypeOK, HandleTypes, Closed, Handle

\* What touches none of its variables keeps it.
LEMMA TrackQuiet ==
  ASSUME TrackInv, UNCHANGED <<kernel, running, list, counts, objects, isoFiles>>
  PROVE  TrackInv'
BY DEF TrackInv, NothingLeft, Exact, OnVolume

\* A mount keeps it,
LEMMA TrackAttach ==
  ASSUME KeepsTrack, VolumesInv, TrackInv, NEW d \in Drives, NEW v \in Vols, Attach(d, v)
  PROVE  TrackInv'
<1>1. /\ running /\ running' /\ vpfsd[d] = Null /\ v \notin volumes
      /\ volumes' = volumes \cup {v} /\ vpfsd' = [vpfsd EXCEPT ![d] = v]
      /\ isoFiles' = isoFiles + 1 /\ UNCHANGED <<handle, objects>>
      /\ cOpenFiles' = [cOpenFiles EXCEPT ![v] = 0]
      /\ cSearches' = [cSearches EXCEPT ![v] = 0]
  BY DEF Attach, KeepsTrack, Mounted
<1>2. isoFiles' = Cardinality(volumes')
  BY <1>1, FS_AddElement DEF VolumesInv, TrackInv, NothingLeft
<1>3. volumes' = {vpfsd'[e] : e \in Drives} \ {Null}
  <2>1. \A e \in Drives : vpfsd'[e] = IF e = d THEN v ELSE vpfsd[e]
    BY <1>1 DEF VolumesInv, TypeOK
  <2> QED
    BY <1>1, <2>1, NullAssumption DEF TrackInv, NothingLeft
<1>4. \A w \in volumes' : Exact(w)'
  <2> SUFFICES ASSUME NEW w \in volumes' PROVE Exact(w)'
    OBVIOUS
  <2>1. \A k : OnVolume(k, w)' = OnVolume(k, w)
    BY <1>1 DEF OnVolume
  <2>2. CASE w = v
    BY <1>1, <2>1, <2>2, OnNewVolume DEF VolumesInv, TypeOK, Exact
  <2>3. CASE w # v
    BY <1>1, <2>1, <2>3 DEF VolumesInv, TypeOK, TrackInv, Exact
  <2> QED
    BY <2>2, <2>3
<1>5. \A h \in Handles : handle'[h] # Closed => vpfsd'[handle'[h].drive] = handle'[h].vol
  BY <1>1, HandleFields DEF VolumesInv, TypeOK, TrackInv
<1> QED
  BY <1>1, <1>2, <1>3, <1>4, <1>5 DEF TrackInv, NothingLeft

\* and a detach,
LEMMA TrackDetach ==
  ASSUME KeepsTrack, VolumesInv, TrackInv, NEW d \in Drives, Detach(d)
  PROVE  TrackInv'
<1> DEFINE v == vpfsd[d]
<1>1. /\ running /\ running' /\ v \in volumes /\ ~Busy(v)
      /\ volumes' = volumes \ {v} /\ vpfsd' = [vpfsd EXCEPT ![d] = Null]
      /\ isoFiles' = isoFiles - 1 /\ UNCHANGED <<handle, objects, counts>>
  BY DEF Detach, KeepsTrack, VolumesInv, PointersValid
<1>2. isoFiles' = Cardinality(volumes')
  BY <1>1, FS_RemoveElement DEF VolumesInv, TrackInv, NothingLeft
<1>3. volumes' = {vpfsd'[e] : e \in Drives} \ {Null}
  <2>1. \A e \in Drives : vpfsd'[e] = IF e = d THEN Null ELSE vpfsd[e]
    BY <1>1 DEF VolumesInv, TypeOK
  <2>2. \A e \in Drives : vpfsd[e] = v => e = d
    BY <1>1 DEF VolumesInv, Mounted, Detach
  <2> QED
    BY <1>1, <2>1, <2>2 DEF TrackInv, NothingLeft
<1>4. \A w \in volumes' : Exact(w)'
  BY <1>1 DEF TrackInv, Exact, OnVolume
<1>5. \A h \in Handles : handle'[h] # Closed => vpfsd'[handle'[h].drive] = handle'[h].vol
  <2>1. \A h \in Handles : handle[h] # Closed => handle[h].vol # v
    BY <1>1, OnIdleVolume DEF VolumesInv
  <2> QED
    BY <1>1, <2>1, HandleFields DEF VolumesInv, TypeOK, TrackInv
<1> QED
  BY <1>1, <1>2, <1>3, <1>4, <1>5 DEF TrackInv, NothingLeft

\* and an open or a search,
LEMMA TrackOpen ==
  ASSUME VolumesInv, TrackInv, NEW d \in Drives, NEW h \in Handles, NEW o \in Objs,
         NEW kind \in {"file", "search"},
         running, Mounted(d), handle[h] = Closed,
         objects' = objects \cup {o}, Count(kind, vpfsd[d], 1), Remember(d, h, kind, o),
         UNCHANGED <<vpfsd, running, list, isoFiles>>
  PROVE  TrackInv'
<1> USE DEF VolumesInv
<1> DEFINE v == vpfsd[d]
<1>1. v \in volumes /\ v \in Vols
  BY DEF PointersValid, TypeOK
<1>2. /\ handle'[h] = Handle(kind, d, v, o) /\ \A g \in Handles \ {h} : handle'[g] = handle[g]
      /\ handle'[h].obj = o /\ handle'[h].drive = d /\ handle'[h].vol = v
  BY DEF TypeOK, Remember, Handle
<1>3. objects' = {handle'[g].obj : g \in Handles} \ {Null}
  BY <1>2, HandleFields, NullAssumption DEF TrackInv, NothingLeft
<1>4. \A w \in volumes : Exact(w)'
  <2> SUFFICES ASSUME NEW w \in volumes PROVE Exact(w)'
    OBVIOUS
  <2>1. w \in Vols /\ Exact(w)
    BY DEF TypeOK, TrackInv
  <2>2. /\ Cardinality(OnVolume("file", w))' = Cardinality(OnVolume("file", w))
               + (IF "file" = kind /\ w = v THEN 1 ELSE 0)
        /\ Cardinality(OnVolume("search", w))' = Cardinality(OnVolume("search", w))
               + (IF "search" = kind /\ w = v THEN 1 ELSE 0)
    BY <2>1, OnVolumeOpens
  <2>3. /\ cOpenFiles'[w] = cOpenFiles[w] + (IF kind = "file" /\ w = v THEN 1 ELSE 0)
        /\ cSearches'[w] = cSearches[w] + (IF kind = "search" /\ w = v THEN 1 ELSE 0)
    BY <1>1, <2>1 DEF TypeOK, Count
  <2> QED
    BY <2>1, <2>2, <2>3 DEF Exact
<1>5. \A g \in Handles : handle'[g] # Closed => vpfsd'[handle'[g].drive] = handle'[g].vol
  BY <1>2 DEF TrackInv
<1> QED
  BY <1>3, <1>4, <1>5 DEF TrackInv, NothingLeft

\* and a close,
LEMMA TrackClose ==
  ASSUME KeepsTrack, VolumesInv, TrackInv, NEW h \in Handles, Close(h)
  PROVE  TrackInv'
<1> USE DEF VolumesInv
<1> DEFINE kind == handle[h].kind
           v == handle[h].vol
<1>1. /\ handle[h] # Closed /\ UNCHANGED <<vpfsd, running, list, isoFiles>>
      /\ handle' = [handle EXCEPT ![h] = Closed]
      /\ handle'[h] = Closed /\ \A g \in Handles \ {h} : handle'[g] = handle[g]
  BY DEF Close, TypeOK
<1>2. CASE running
  <2>1. Release(h) /\ v \in volumes /\ v \in Vols /\ kind \in {"file", "search"}
    BY <1>1, <1>2, HandleFields DEF Close, KeepsTrack, PointersValid
  <2>2. objects' = {handle'[g].obj : g \in Handles} \ {Null}
    <3>1. \A g \in Handles \ {h} : handle[g].obj # handle[h].obj
      BY <1>1, <1>2 DEF PointersValid
    <3> QED
      BY <1>1, <1>2, <2>1, <3>1, HandleFields DEF TrackInv, NothingLeft, Release
  <2>3. \A w \in volumes : Exact(w)'
    <3> SUFFICES ASSUME NEW w \in volumes PROVE Exact(w)'
      OBVIOUS
    <3>1. w \in Vols /\ Exact(w)
      BY <1>2 DEF TypeOK, TrackInv
    <3>2. /\ Cardinality(OnVolume("file", w))' = Cardinality(OnVolume("file", w))
                 - (IF "file" = kind /\ w = v THEN 1 ELSE 0)
          /\ Cardinality(OnVolume("search", w))' = Cardinality(OnVolume("search", w))
                 - (IF "search" = kind /\ w = v THEN 1 ELSE 0)
      BY <1>1, <3>1, OnVolumeCloses
    <3>3. /\ cOpenFiles'[w] = cOpenFiles[w] - (IF "file" = kind /\ w = v THEN 1 ELSE 0)
          /\ cSearches'[w] = cSearches[w] - (IF "search" = kind /\ w = v THEN 1 ELSE 0)
      BY <2>1, <3>1 DEF TypeOK, Release, Count
    <3> QED
      BY <3>1, <3>2, <3>3 DEF Exact
  <2>4. \A g \in Handles : handle'[g] # Closed => vpfsd'[handle'[g].drive] = handle'[g].vol
    BY <1>1, <1>2 DEF TrackInv
  <2> QED
    BY <1>1, <1>2, <2>2, <2>3, <2>4 DEF TrackInv, NothingLeft
<1>3. CASE ~running
  BY <1>1, <1>3 DEF Close, TrackInv, NothingLeft
<1> QED
  BY <1>2, <1>3

\* and the daemon's death and restart.
LEMMA TrackDaemon ==
  ASSUME KeepsTrack, VolumesInv, TrackInv, Die \/ Restart
  PROVE  TrackInv'
<1>1. CASE Die
  BY <1>1 DEF Die, TrackInv, NothingLeft
<1>2. CASE Restart
  <2>1. /\ ~running /\ UNCHANGED <<kernel, list, counts, objects, isoFiles>>
        /\ \A d \in Drives : vpfsd[d] = Null
        /\ \A h \in Handles : handle[h] = Closed
    BY <1>2 DEF Restart, KeepsTrack, Mounted
  <2>2. volumes = {} /\ objects = {} /\ isoFiles = 0 /\ Cardinality(volumes) = 0
    BY <2>1, FS_EmptySet DEF VolumesInv, TrackInv
  <2> QED
    BY <2>1, <2>2 DEF TrackInv, NothingLeft, Closed, Handle
<1> QED
  BY <1>1, <1>2

\* It is inductive, given that of the volumes.
LEMMA TrackStep ==
  ASSUME KeepsTrack
  PROVE  VolumesInv /\ TrackInv /\ [Next]_vars => TrackInv'
<1> SUFFICES ASSUME VolumesInv, TrackInv, [Next]_vars PROVE TrackInv'
  OBVIOUS
<1>1. ASSUME NEW d \in Drives,
             \/ AttachFails(d) \/ AttachWithoutJoliet(d) \/ DetachRefused(d)
             \/ (\E v \in Vols : Attach(d, v)) \/ Detach(d)
      PROVE  TrackInv'
  BY <1>1, TrackQuiet, TrackAttach, TrackDetach
     DEF KeepsTrack, AttachFails, AttachWithoutJoliet, DetachRefused
<1>2. ASSUME NEW d \in Drives, DetachWithoutDaemon(d) PROVE TrackInv'
  BY <1>2 DEF DetachWithoutDaemon, TrackInv, NothingLeft
<1>3. ASSUME NEW d \in Drives, NEW h \in Handles,
             OpenFails(d, h) \/ \E o \in Objs : FindUndelivered(d, h, o)
      PROVE  TrackInv'
  BY <1>3, TrackQuiet DEF OpenFails, FindUndelivered
<1>4. ASSUME NEW d \in Drives, NEW h \in Handles, NEW o \in Objs, OpenCreate(d, h, o)
      PROVE  TrackInv'
  BY <1>4, TrackOpen DEF OpenCreate, KeepsTrack
<1>5. ASSUME NEW d \in Drives, NEW h \in Handles, NEW o \in Objs, FindFirst(d, h, o)
      PROVE  TrackInv'
  BY <1>5, TrackOpen DEF FindFirst, KeepsTrack
<1>6. ASSUME NEW h \in Handles, Close(h) \/ CloseReference(h)
      PROVE  TrackInv'
  BY <1>6, TrackClose, TrackQuiet DEF CloseReference
<1>7. CASE Die \/ Restart
  BY <1>7, TrackDaemon
<1>8. CASE UNCHANGED vars
  BY <1>8, TrackQuiet
<1> QED
  BY <1>1, <1>2, <1>3, <1>4, <1>5, <1>6, <1>7, <1>8 DEF Next

\* So both always hold.
LEMMA TrackAlways ==
  ASSUME KeepsTrack
  PROVE  Spec => [](VolumesInv /\ TrackInv)
<1>1. VolumesInv /\ [Next]_vars => VolumesInv'
  BY VolumesStep, TrackKeeps
<1>2. VolumesInv /\ TrackInv /\ [Next]_vars => TrackInv'
  BY TrackStep
<1> QED
  BY <1>1, <1>2, VolumesInit, TrackInit, PTL DEF Spec

\* Where calls are not interrupted, the daemon has one image open per mounted drive and
\* memory for exactly what the kernel has open, after any calls, failed ones included,
\* and any deaths and restarts of the daemon.
THEOREM NothingIsLeft ==
  ASSUME KeepsTrack
  PROVE  Spec => []NothingLeft
<1>1. TrackInv => NothingLeft
  BY DEF TrackInv
<1> QED
  BY <1>1, TrackAlways, PTL

-----------------------------------------------------------------------------
(* The driver and the daemon implement Mounts *)

\* A drive whose volume is busy has something open on it, and one whose is not has not.
LEMMA BusyIsInUse ==
  ASSUME VolumesInv, TrackInv, running, NEW d \in Drives, Mounted(d)
  PROVE  Busy(vpfsd[d]) <=> \E h \in Handles : handle[h].drive = d
<1> DEFINE v == vpfsd[d]
<1> USE DEF VolumesInv
<1>1. v \in volumes /\ Exact(v)
  BY DEF PointersValid, TrackInv
<1>2. ASSUME Busy(v) PROVE \E h \in Handles : handle[h].drive = d
  <2>1. PICK kind \in {"file", "search"} : Cardinality(OnVolume(kind, v)) # 0
    BY <1>1, <1>2 DEF Busy, Exact
  <2>2. PICK h \in OnVolume(kind, v) : TRUE
    BY <2>1, FS_EmptySet
  <2>3. h \in Handles /\ handle[h] # Closed /\ handle[h].vol = v
    BY <2>2, HandleFields DEF OnVolume
  <2>4. handle[h].drive \in Drives /\ vpfsd[handle[h].drive] = v
    BY <2>3, HandleFields DEF TrackInv
  <2> QED
    BY <2>3, <2>4
<1>3. ASSUME NEW h \in Handles, handle[h].drive = d, ~Busy(v) PROVE FALSE
  <2>1. handle[h] # Closed
    BY <1>3, HandleFields, NullAssumption
  <2> QED
    BY <1>1, <1>3, <2>1, OnIdleVolume DEF TrackInv
<1> QED
  BY <1>2, <1>3

\* What Mounts sees of a step that opens or closes the handle h, or none.
LEMMA PromiseOpens ==
  ASSUME NEW h \in Handles, NEW entry, handle \in [Handles -> HandleTypes],
         handle' = [handle EXCEPT ![h] = entry]
  PROVE  [g \in Handles |-> handle[g].drive]'
           = [[g \in Handles |-> handle[g].drive] EXCEPT ![h] = entry.drive]
OBVIOUS

\* What happens to a drive is a step of Mounts,
LEMMA PromiseDrive ==
  ASSUME KeepsTrack, VolumesInv, TrackInv, NEW d \in Drives,
         \/ AttachFails(d) \/ AttachWithoutJoliet(d) \/ DetachRefused(d)
         \/ (\E v \in Vols : Attach(d, v)) \/ Detach(d) \/ DetachWithoutDaemon(d)
  PROVE  Promise!Next
<1> USE DEF VolumesInv, TypeOK
<1>1. CASE AttachFails(d)
  BY <1>1 DEF AttachFails, Mounted, Promise!Next, Promise!Other
<1>2. ~AttachWithoutJoliet(d)
  BY DEF AttachWithoutJoliet, KeepsTrack
<1>3. ASSUME NEW v \in Vols, Attach(d, v) PROVE Promise!Next
  <2>1. /\ running /\ ~Mounted(d) /\ vpfsd' = [vpfsd EXCEPT ![d] = v] /\ v # Null
        /\ reply' = "ok" /\ UNCHANGED <<running, handle>>
    BY <1>3, NullAssumption DEF Attach, KeepsTrack
  <2>2. {e \in Drives : Mounted(e)}' = {e \in Drives : Mounted(e)} \cup {d}
    BY <2>1 DEF Mounted
  <2> QED
    BY <2>1, <2>2 DEF Promise!Next, Promise!Mount
<1>4. CASE DetachRefused(d)
  <2>1. \E h \in Handles : handle[h].drive = d
    BY <1>4, BusyIsInUse DEF DetachRefused
  <2> QED
    BY <1>4, <2>1 DEF DetachRefused, Mounted, Promise!Next, Promise!Refuse, Promise!InUse
<1>5. ASSUME Mounted(d), vpfsd' = [vpfsd EXCEPT ![d] = Null]
      PROVE  {e \in Drives : Mounted(e)}' = {e \in Drives : Mounted(e)} \ {d}
  BY <1>5 DEF Mounted
<1>6. CASE Detach(d)
  <2>1. /\ running /\ Mounted(d) /\ ~Busy(vpfsd[d]) /\ vpfsd' = [vpfsd EXCEPT ![d] = Null]
        /\ reply' = "ok" /\ UNCHANGED <<running, handle>>
    BY <1>6 DEF Detach, KeepsTrack
  <2>2. ~ \E h \in Handles : handle[h].drive = d
    BY <2>1, BusyIsInUse
  <2> QED
    BY <1>5, <2>1, <2>2 DEF Promise!Next, Promise!Unmount, Promise!InUse
<1>7. CASE DetachWithoutDaemon(d)
  BY <1>5, <1>7 DEF DetachWithoutDaemon, Promise!Next, Promise!Unmount
<1> QED
  BY <1>1, <1>2, <1>3, <1>4, <1>6, <1>7

\* and what is opened,
LEMMA PromiseHandle ==
  ASSUME KeepsTrack, VolumesInv, NEW d \in Drives, NEW h \in Handles,
         \/ OpenFails(d, h)
         \/ \E o \in Objs : OpenCreate(d, h, o) \/ FindFirst(d, h, o) \/ FindUndelivered(d, h, o)
  PROVE  Promise!Next
<1> USE DEF VolumesInv, TypeOK
<1>1. CASE OpenFails(d, h) \/ \E o \in Objs : FindUndelivered(d, h, o)
  BY <1>1 DEF OpenFails, FindUndelivered, Mounted, Promise!Next, Promise!Other
<1>2. ASSUME NEW o \in Objs, OpenCreate(d, h, o) \/ FindFirst(d, h, o) PROVE Promise!Next
  <2>1. /\ running /\ Mounted(d) /\ handle[h] = Closed /\ UNCHANGED <<running, vpfsd>>
        /\ Remember(d, h, "file", o) \/ Remember(d, h, "search", o)
    BY <1>2 DEF OpenCreate, FindFirst, KeepsTrack
  <2>2. PICK kind \in {"file", "search"} : Remember(d, h, kind, o)
    BY <2>1
  <2>3. [g \in Handles |-> handle[g].drive]'
          = [[g \in Handles |-> handle[g].drive] EXCEPT ![h] = d]
    BY <2>2, PromiseOpens DEF Remember, Handle
  <2>4. handle[h].drive = Null /\ reply' = "ok"
    BY <2>1, <2>2, HandleFields DEF Remember
  <2> QED
    BY <2>1, <2>3, <2>4 DEF Mounted, Promise!Next, Promise!Open
<1> QED
  BY <1>1, <1>2

\* and closed.
LEMMA PromiseClose ==
  ASSUME KeepsTrack, VolumesInv, NEW h \in Handles, Close(h)
  PROVE  Promise!Next
<1>1. /\ handle[h] # Closed /\ handle' = [handle EXCEPT ![h] = Closed]
      /\ UNCHANGED <<vpfsd, running>>
      /\ reply' = IF running THEN "ok" ELSE "error"
  BY DEF Close, KeepsTrack
<1>2. handle[h].drive # Null /\ Closed.drive = Null
  BY <1>1, HandleFields DEF VolumesInv
<1>3. [g \in Handles |-> handle[g].drive]'
        = [[g \in Handles |-> handle[g].drive] EXCEPT ![h] = Null]
  BY <1>1, <1>2, PromiseOpens DEF VolumesInv, TypeOK
<1> QED
  BY <1>1, <1>2, <1>3 DEF Mounted, Promise!Next, Promise!Close

\* Every step is a step of Mounts or a stutter.
LEMMA PromiseStep ==
  ASSUME KeepsTrack
  PROVE  VolumesInv /\ TrackInv /\ [Next]_vars => [Promise!Next]_Promise!vars
<1> SUFFICES ASSUME VolumesInv, TrackInv, [Next]_vars PROVE [Promise!Next]_Promise!vars
  OBVIOUS
<1>1. ASSUME NEW h \in Handles, CloseReference(h) PROVE Promise!Next
  BY <1>1 DEF CloseReference, Mounted, Promise!Next, Promise!Other
<1>2. CASE Die
  BY <1>2 DEF Die, Mounted, Promise!Next, Promise!Stop
<1>3. CASE Restart
  <2>1. Closed.drive = Null
    BY DEF Closed, Handle
  <2> QED
    BY <1>3, <2>1 DEF KeepsTrack, Restart, Mounted, Promise!Next, Promise!Restart
<1>4. CASE UNCHANGED vars
  BY <1>4 DEF Mounted, Promise!vars
<1> QED
  BY <1>1, <1>2, <1>3, <1>4, PromiseDrive, PromiseHandle, PromiseClose DEF Next

\* In the environments of NothingIsLeft the driver and the daemon implement Mounts: a
\* drive is unmounted only when nothing is open on it, and refused only when something
\* is, for any number of drives, files and searches.
THEOREM MountsImplemented ==
  ASSUME KeepsTrack
  PROVE  Spec => ImplementsMounts
<1>1. Init => Promise!Init
  BY DEF Init, Promise!Init, Mounted, Closed, Handle
<1>2. VolumesInv /\ TrackInv /\ [Next]_vars => [Promise!Next]_Promise!vars
  BY PromiseStep
<1> QED
  BY <1>1, <1>2, TrackAlways, PTL DEF Spec, ImplementsMounts, Promise!Spec

=============================================================================

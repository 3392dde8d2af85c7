------------------------------ MODULE Volumes ------------------------------
(***************************************************************************)
(* The daemon's volumes, open files and searches (ifsdaemon/attach.c,      *)
(* openclose.c, find.c), and the pointers to them that the kernel keeps    *)
(* for it in the file system dependent parts of its own structures.        *)
(*                                                                         *)
(* Nothing in the daemon checks a pointer that comes back from the kernel: *)
(* what keeps them valid is that a volume with open files or searches is   *)
(* not detached, and whether it has any is known from two counters.        *)
(*                                                                         *)
(* A step is one call of the kernel from its entry into the driver to its  *)
(* return.  That the daemon performs calls one at a time, and each at most *)
(* once, is what StubFsd shows of the driver.  A call that is interrupted  *)
(* as it waits for the daemon returns an error whatever the daemon does    *)
(* about it.                                                               *)
(*                                                                         *)
(* A definition whose name begins with Bug is a planted defect, as in      *)
(* StubFsd.                                                                *)
(***************************************************************************)
EXTENDS Integers, FiniteSets

CONSTANTS
  Drives,   \* drive letters
  Handles,  \* places in the kernel's tables of open files and of searches
  Vols,     \* addresses that malloc() may give to a VolData
  Objs,     \* addresses that it may give to an OpenFileData or a SearchData
  Null,     \* no address
  MaxFiles, \* how many files a process may have open
  Lost,     \* the calls that may be interrupted while the daemon has them
  Undelivered, \* the calls whose results may not be deliverable to the caller
  Faults    \* a subset of:
            \* "force"     a volume is detached with DP_FORCE
            \* "nojoliet"  an image has no Joliet descriptor
            \* "die"       the daemon ends, or is told to quit
            \* "stale"     it is restarted with drives still mounted
            \* "handles"   it is restarted with files or searches still open

ASSUME NullAssumption   == Null \notin Drives \cup Vols \cup Objs
ASSUME FiniteAssumption == IsFiniteSet(Handles) /\ IsFiniteSet(Vols)
ASSUME FilesAssumption  == MaxFiles \in Nat
ASSUME FaultAssumption  == /\ Lost \subseteq {"attach", "detach", "open", "find", "close"}
                           /\ Undelivered \subseteq {"open", "find"}
                           /\ Faults \subseteq {"force", "nojoliet", "die", "stale", "handles"}

VARIABLES
  vpfsd,        \* kernel, per drive: pVolData of the volume attached to it
  handle,       \* kernel, per place: what is open, and the pointers given for it
  running,      \* the daemon is attached to the driver
  volumes,      \* the VolData that are allocated
  pFirstVolume, \* the list of volumes
  pNext, pPrev,
  cOpenFiles, cSearches,  \* per VolData
  objects,      \* the OpenFileData and SearchData that are allocated
  isoFiles,     \* the image files the daemon has open
  reply         \* the result of the last call

kernel == <<vpfsd, handle>>
list   == <<volumes, pFirstVolume, pNext, pPrev>>
counts == <<cOpenFiles, cSearches>>
vars   == <<kernel, running, list, counts, objects, isoFiles, reply>>

Handle(kind, drive, vol, obj) == [kind |-> kind, drive |-> drive, vol |-> vol, obj |-> obj]
Closed  == Handle("closed", Null, Null, Null)
HandleTypes == {Closed} \cup
  [kind : {"file", "search"}, drive : Drives, vol : Vols, obj : Objs]

Init ==
  /\ vpfsd = [d \in Drives |-> Null]
  /\ handle = [h \in Handles |-> Closed]
  /\ running = TRUE
  /\ volumes = {} /\ pFirstVolume = Null
  /\ pNext = [v \in Vols |-> Null] /\ pPrev = [v \in Vols |-> Null]
  /\ cOpenFiles = [v \in Vols |-> 0] /\ cSearches = [v \in Vols |-> 0]
  /\ objects = {}
  /\ isoFiles = 0
  /\ reply = "ok"

OnVolume(kind, v) == {h \in Handles : handle[h].kind = kind /\ handle[h].vol = v}

Mounted(d) == vpfsd[d] # Null

-----------------------------------------------------------------------------
(* FS_ATTACH *)

BugLinkForward(v) ==
  /\ pNext' = [pNext EXCEPT ![v] = pFirstVolume]
  /\ pPrev' = [pPrev EXCEPT ![v] = Null]
  /\ pFirstVolume' = v

\* Put a new VolData at the head of the list.
Link(v) ==
  /\ pNext' = [pNext EXCEPT ![v] = pFirstVolume]
  /\ pPrev' = [w \in Vols |-> IF w = v THEN Null
                              ELSE IF w = pFirstVolume THEN v ELSE pPrev[w]]
  /\ pFirstVolume' = v

Unlink(v) ==
  /\ pPrev' = [w \in Vols |-> IF w = pNext[v] THEN pPrev[v] ELSE pPrev[w]]
  /\ pNext' = [w \in Vols |-> IF w = pPrev[v] THEN pNext[v] ELSE pNext[w]]
  /\ pFirstVolume' = IF pPrev[v] = Null THEN pNext[v] ELSE pFirstVolume

\* attachVolume() fails before it has opened the image, or for want of memory.
AttachFails(d) ==
  /\ ~Mounted(d)
  /\ reply' = "error"
  /\ UNCHANGED <<kernel, running, list, counts, objects, isoFiles>>

BugCloseImageTwice(d) ==
  /\ running /\ ~Mounted(d) /\ Vols # volumes /\ isoFiles < MaxFiles
  /\ "nojoliet" \in Faults
  /\ isoFiles' = isoFiles - 1
  /\ reply' = "error"
  /\ UNCHANGED <<kernel, running, list, counts, objects>>

\* There is no Joliet descriptor: the image stays open.
AttachWithoutJoliet(d) ==
  /\ running /\ ~Mounted(d) /\ Vols # volumes /\ isoFiles < MaxFiles
  /\ "nojoliet" \in Faults
  /\ isoFiles' = isoFiles + 1
  /\ reply' = "error"
  /\ UNCHANGED <<kernel, running, list, counts, objects>>

\* attachVolume() succeeds; the kernel may not hear of it.
Attach(d, v) ==
  /\ running /\ ~Mounted(d) /\ v \notin volumes /\ isoFiles < MaxFiles
  /\ volumes' = volumes \cup {v}
  /\ Link(v)
  /\ cOpenFiles' = [cOpenFiles EXCEPT ![v] = 0]
  /\ cSearches' = [cSearches EXCEPT ![v] = 0]
  /\ isoFiles' = isoFiles + 1
  /\ \/ vpfsd' = [vpfsd EXCEPT ![d] = v] /\ reply' = "ok"
     \/ "attach" \in Lost /\ reply' = "error" /\ UNCHANGED vpfsd
  /\ UNCHANGED <<handle, running, objects>>

BugBusy(v) == cOpenFiles[v] # 0

\* "Open files or searches?"
Busy(v) == cOpenFiles[v] # 0 \/ cSearches[v] # 0

\* detachVolume() refuses.
DetachRefused(d) ==
  /\ running /\ Mounted(d) /\ Busy(vpfsd[d])
  /\ reply' = "locked"
  /\ UNCHANGED <<kernel, running, list, counts, objects, isoFiles>>

\* detachVolume() frees the volume, with DP_FORCE whether it is busy or not.
Detach(d) ==
  /\ running /\ Mounted(d)
  /\ "force" \in Faults \/ ~Busy(vpfsd[d])
  /\ Unlink(vpfsd[d])
  /\ volumes' = volumes \ {vpfsd[d]}
  /\ isoFiles' = isoFiles - 1
  /\ \/ vpfsd' = [vpfsd EXCEPT ![d] = Null] /\ reply' = "ok"
     \/ "detach" \in Lost /\ reply' = "error" /\ UNCHANGED vpfsd
  /\ UNCHANGED <<handle, running, counts, objects>>

\* "this allows us to unmount a drive after the daemon died"
DetachWithoutDaemon(d) ==
  /\ ~running /\ Mounted(d)
  /\ vpfsd' = [vpfsd EXCEPT ![d] = Null]
  /\ reply' = "ok"
  /\ UNCHANGED <<handle, running, list, counts, objects, isoFiles>>

-----------------------------------------------------------------------------
(* Open files and searches *)

Count(kind, v, n) ==
  IF kind = "file"
  THEN cOpenFiles' = [cOpenFiles EXCEPT ![v] = @ + n] /\ UNCHANGED cSearches
  ELSE cSearches' = [cSearches EXCEPT ![v] = @ + n] /\ UNCHANGED cOpenFiles

\* An open or a search that the daemon refuses or has no memory for, or no daemon.
OpenFails(d, h) ==
  /\ Mounted(d) /\ handle[h] = Closed
  /\ reply' = "error"
  /\ UNCHANGED <<kernel, running, list, counts, objects, isoFiles>>

Remember(d, h, kind, o) ==
  /\ handle' = [handle EXCEPT ![h] = Handle(kind, d, vpfsd[d], o)]
  /\ reply' = "ok"

\* fsOpenCreate().  When its results cannot be delivered FS_OPENCREATE returns an
\* error, and leaves the file open in the daemon.
OpenCreate(d, h, o) ==
  /\ running /\ Mounted(d) /\ handle[h] = Closed /\ o \notin objects
  /\ objects' = objects \cup {o}
  /\ Count("file", vpfsd[d], 1)
  /\ \/ Remember(d, h, "file", o)
     \/ /\ "open" \in Lost \cup Undelivered
        /\ reply' = "error" /\ UNCHANGED handle
  /\ UNCHANGED <<vpfsd, running, list, isoFiles>>

\* fsFindFirst()
FindFirst(d, h, o) ==
  /\ running /\ Mounted(d) /\ handle[h] = Closed /\ o \notin objects
  /\ objects' = objects \cup {o}
  /\ Count("search", vpfsd[d], 1)
  /\ \/ Remember(d, h, "search", o)
     \/ "find" \in Lost /\ reply' = "error" /\ UNCHANGED handle
  /\ UNCHANGED <<vpfsd, running, list, isoFiles>>

BugFindUndelivered(d, h, o) ==
  /\ running /\ Mounted(d) /\ handle[h] = Closed /\ o \notin objects
  /\ "find" \in Undelivered
  /\ reply' = "error"
  /\ Count("search", vpfsd[d], 1)
  /\ objects' = objects \cup {o}
  /\ UNCHANGED <<kernel, running, list, isoFiles>>

\* FS_FINDFIRST closes a search whose results it cannot deliver: undoFindFirst().
FindUndelivered(d, h, o) ==
  /\ running /\ Mounted(d) /\ handle[h] = Closed /\ o \notin objects
  /\ "find" \in Undelivered
  /\ reply' = "error"
  /\ UNCHANGED <<kernel, running, list, counts, objects, isoFiles>>

BugRelease(h) ==
  /\ objects' = objects \ {handle[h].obj}
  /\ UNCHANGED counts

\* fsClose() of a last reference, and fsFindClose(): free what the handle points
\* to, and count down in its volume, allocated or not.
Release(h) ==
  /\ objects' = objects \ {handle[h].obj}
  /\ Count(handle[h].kind, handle[h].vol, -1)

\* FS_CLOSE of a last reference and FS_FINDCLOSE.  The kernel forgets the handle
\* whatever the result.  An interrupted call may not have reached the daemon.
Close(h) ==
  /\ handle[h] # Closed
  /\ handle' = [handle EXCEPT ![h] = Closed]
  /\ \/ running /\ Release(h) /\ reply' = "ok"
     \/ /\ ~running \/ "close" \in Lost
        /\ reply' = "error" /\ UNCHANGED <<counts, objects>>
  /\ UNCHANGED <<vpfsd, running, list, isoFiles>>

BugCloseReference(h) ==
  /\ running /\ handle[h].kind = "file"
  /\ Release(h)
  /\ reply' = "ok"
  /\ UNCHANGED <<kernel, running, list, isoFiles>>

\* FS_CLOSE of a reference that is not the last in the system.
CloseReference(h) ==
  /\ running /\ handle[h].kind = "file"
  /\ reply' = "ok"
  /\ UNCHANGED <<kernel, running, list, counts, objects, isoFiles>>

-----------------------------------------------------------------------------
(* The daemon *)

\* The daemon process ends: all its memory and files go with it.
Die ==
  /\ "die" \in Faults /\ running
  /\ running' = FALSE
  /\ volumes' = {} /\ pFirstVolume' = Null
  /\ objects' = {} /\ isoFiles' = 0
  /\ UNCHANGED <<kernel, pNext, pPrev, counts, reply>>

\* "we cannot safely restart the daemon while there are previously mounted drives".
\* The comment does not speak of what is still open on a drive that was unmounted
\* without the daemon; closing it would give the new daemon as bad a pointer.
Restart ==
  /\ ~running
  /\ "stale" \in Faults \/ \A d \in Drives : ~Mounted(d)
  /\ "handles" \in Faults \/ \A h \in Handles : handle[h] = Closed
  /\ running' = TRUE
  /\ UNCHANGED <<kernel, list, counts, objects, isoFiles, reply>>

Next ==
  \/ \E d \in Drives : \/ AttachFails(d) \/ AttachWithoutJoliet(d)
                       \/ \E v \in Vols : Attach(d, v)
                       \/ DetachRefused(d) \/ Detach(d) \/ DetachWithoutDaemon(d)
  \/ \E d \in Drives, h \in Handles :
       \/ OpenFails(d, h)
       \/ \E o \in Objs : OpenCreate(d, h, o) \/ FindFirst(d, h, o) \/ FindUndelivered(d, h, o)
  \/ \E h \in Handles : Close(h) \/ CloseReference(h)
  \/ Die \/ Restart

Spec == Init /\ [][Next]_vars

-----------------------------------------------------------------------------
(* Properties *)

TypeOK ==
  /\ vpfsd \in [Drives -> Vols \cup {Null}]
  /\ handle \in [Handles -> HandleTypes]
  /\ running \in BOOLEAN
  /\ volumes \subseteq Vols /\ pFirstVolume \in Vols \cup {Null}
  /\ pNext \in [Vols -> Vols \cup {Null}] /\ pPrev \in [Vols -> Vols \cup {Null}]
  /\ cOpenFiles \in [Vols -> Int] /\ cSearches \in [Vols -> Int]
  /\ objects \subseteq Objs
  /\ isoFiles \in Nat
  /\ reply \in {"ok", "error", "locked"}

\* Every pointer that the kernel can send the daemon names a block that is
\* allocated, and no two handles would free the same one.
PointersValid ==
  running =>
    /\ \A d \in Drives : Mounted(d) => vpfsd[d] \in volumes
    /\ \A h \in Handles : handle[h] # Closed =>
         /\ handle[h].vol \in volumes
         /\ handle[h].obj \in objects
         /\ \A g \in Handles \ {h} : handle[g].obj # handle[h].obj

\* No volume counts fewer open files or searches than the kernel has for it.
CountersCover ==
  running => \A v \in volumes :
    /\ Cardinality(OnVolume("file", v)) =< cOpenFiles[v]
    /\ Cardinality(OnVolume("search", v)) =< cSearches[v]

\* The environments in which the two properties above hold: no volume is detached
\* under the kernel's feet, and whoever restarts the daemon has first unmounted every
\* drive and closed every file and search.
KeepsPointers == Faults \cap {"force", "stale", "handles"} = {} /\ "detach" \notin Lost

\* Two drives share no volume, there is an open image for each volume, and a
\* daemon that is not running has none: with this, the invariants are inductive.
VolumesInv ==
  /\ TypeOK /\ PointersValid /\ CountersCover
  /\ running => \A d, e \in Drives : Mounted(d) /\ vpfsd[d] = vpfsd[e] => d = e
  /\ IsFiniteSet(volumes) /\ Cardinality(volumes) =< isoFiles
  /\ ~running => volumes = {}

\* The n-th volume of the list that begins at pFirstVolume, or Null after its end.
Walk[n \in 0 .. Cardinality(Vols)] ==
  IF n = 0 THEN pFirstVolume
  ELSE IF Walk[n - 1] = Null THEN Null ELSE pNext[Walk[n - 1]]

\* The list ends, holds the volumes that are allocated, and pPrev leads back.
ListWellFormed ==
  /\ Walk[Cardinality(Vols)] = Null
  /\ volumes = {Walk[n] : n \in DOMAIN Walk} \ {Null}
  /\ \A v \in volumes :
       IF v = pFirstVolume THEN pPrev[v] = Null
       ELSE pPrev[v] \in volumes /\ pNext[pPrev[v]] = v

\* The daemon holds open one image per volume, and one OpenFileData or SearchData for
\* each handle of the kernel: nothing that failed or has been closed is left behind.
\* (The smaller blocks that such a structure points to are not modelled.)
NothingLeft ==
  running =>
    /\ isoFiles = Cardinality(volumes)
    /\ volumes = {vpfsd[d] : d \in Drives} \ {Null}
    /\ objects = {handle[h].obj : h \in Handles} \ {Null}

\* "It is possible to receive FS_FINDCLOSE _after_ the volume that the search
\* applies to has been detached!  So it is important that FS_ATTACH[detach] is not
\* over-zealous": what FS_FINDCLOSE counts down is still allocated.
FindCloseTouchesVolumes ==
  [][\A h \in Handles :
       running /\ handle[h].kind = "search" /\ handle'[h] = Closed
         => handle[h].vol \in volumes]_vars

-----------------------------------------------------------------------------
(* What the daemon promises the kernel: see Mounts *)

Promise == INSTANCE Mounts WITH
             mounted <- {d \in Drives : Mounted(d)},
             open <- [h \in Handles |-> handle[h].drive]

\* The driver and the daemon implement Mounts.
ImplementsMounts == Promise!Spec

=============================================================================

# ISOFS for OS/2: a verification project

ISOFS mounts ISO 9660 images on OS/2 drives. It consists of a small ring 0 file
system driver, which does nothing but pass the kernel's calls on, and a ring 3
daemon, which does the work. This directory holds TLA+ models of the program in
`src/`, configurations that check them with TLC on small instances, and proofs
checked by TLAPS.

## The system

| component | state it keeps | operations | correct when |
|---|---|---|---|
| stub driver `ifsdriver/stubfsd.c` | pid of the daemon, three RAM semaphores, two lock handles, two mapped buffers | one `FS_` entry per file system call, the `FSCTL_STUBFSD_` calls of the daemon, `FS_EXIT` | one thread at a time uses the buffers; answers reach who asked; no thread and no daemon hangs; buffers are locked while they are touched |
| daemon main loop `ifsdaemon/isofsdmn.c` | the buffers, `fQuit`, a mutex | start, get a request, execute it, signal completion, stop | a request is executed once, for a thread that waits |
| volumes `ifsdaemon/attach.c` | list of volumes; per volume the image file, the translation table, the root, two counters | attach, detach, info | counters agree with what is open; nothing leaks; attaching ends |
| files `openclose.c`, `fileio.c` | an open file record per open, the kernel's `sffsi` | open, close, read, seek | a read returns the bytes of the file at its position and never more |
| searches `find.c`, `fileinfo.c` | a search record with the entries of a directory and a cursor | find first, next, from name, close | every matching entry is returned exactly once, in order, over any sequence of calls |
| extended attributes `ea.c`, `copyEAOP` | none | build and copy EA lists | no list is longer than its buffer |
| directories, other requests `dir.c`, `misc.c`, `fileop.c` | none | change directory, refuse everything that writes | all requests agree on what a path is |
| paths `utils.c`, ISO 9660 `corefs/isoaccess.c` | none | split a path, parse directory records, walk a path | agree with their reference definitions |
| character sets `libunls` | registry of tables | find a table, convert | a set converts only what it has, to the bytes of it |
| tools `ifsutils`, option parsing `misc`, `system`, debugging aids | | | not part of the running file system |

A thread that calls the file system enters the driver in ring 0. The driver takes a
mutex (`semSerialize`), copies the arguments into two buffers that belong to the
daemon and are locked and mapped for the driver, wakes the daemon through
`semRqAvail` and waits for `semRqDone`. The daemon is a process that calls the
driver: `GET_REQUEST` waits for `semRqAvail`, `DONE_REQUEST` clears `semRqDone`.
When the daemon stops (`DAEMON_STOPPED`), dies (the kernel calls `FS_EXIT`) or is
detached by force (`RESET`), the driver clears `pidDaemon`, wakes whoever waits,
waits for `semSerialize`, and unlocks the buffers. Inside the daemon everything is
sequential: volumes, files and searches are only touched by `handleRequest()`.

What is hard here: RAM semaphores have no owner and no memory, so the order in which
they are set, cleared and waited for is all there is; the daemon may die between any
two steps; a signal ends a wait while its request is still being executed; touching
the caller's memory may block, though ring 0 is otherwise not preempted; every entry
has error paths of its own; one daemon may start before the previous one has
stopped; and the kernel's handles may outlive what they name in the daemon.
`PROJECT.json` lists these hazards, each at its line.

## The modules

| module | what it is |
|---|---|
| `StubFsd` | the driver, the threads that call it, and the daemon's main loop |
| `RemoteCall` | what the driver promises its callers; `StubFsd` implements it |
| `MCStubFsd` | the instances of `StubFsd` that TLC checks |
| `StubFsd_proofs` | theorems about `StubFsd`: types, exclusion, locks |
| `StubFsd_answers` | theorems about `StubFsd`: requests and their answers, `RemoteCall` |
| `StubFsd_liveness` | theorems about `StubFsd`: waits end, threads return, daemons stop |
| `Volumes` | the daemon's volumes, open files and searches, with the kernel's pointers to them |
| `Mounts` | what the kernel is promised about drives; `Volumes` implements it |
| `MCVolumes` | the instances of `Volumes` that TLC checks |
| `Volumes_proofs` | theorems about `Volumes`: pointers, counters, the list of volumes, nothing left behind, `Mounts` |
| `FileIO` | reads and seeks on an open file |
| `ReadOnlyFile` | what a program is promised of them; `FileIO` implements it |
| `MCFileIO` | the instance of `FileIO` that TLC checks |
| `FileIO_proofs` | theorems about `FileIO` |
| `FindBuffers` | the results of a directory search, over all its calls |
| `Enumeration` | what a search promises; `FindBuffers` implements it |
| `MCFindBuffers` | the instance of `FindBuffers` that TLC checks |
| `FindBuffers_proofs` | theorems about `FindBuffers` |
| `Names` | patterns, DOS names, paths, dates and parameters |
| `IsoDir` | directories of an image, walks along a path, and the requests that name one |
| `JolietScan` | the search for the Joliet descriptor |
| `EaCopy` | lists of extended attributes on their way through daemon and driver |
| `Algorithms` | the last four on one input at a time, and what their results must be |
| `Algorithms_proofs` | theorems about `Algorithms` |
| `Nls` | the registry of character sets and the conversion of names |
| `NlsCodepages`, `NlsCharsets`, `NlsRuns` | the tables of `libunls`, and ways to write them |
| `MCAlgorithms` | the inputs for `Algorithms` that TLC tries, and the character sets |
| `NumberFacts` | lemmas about integers and loops that several proofs need |

### StubFsd

`pidDaemon`, `semSerialize`, `semRqAvail`, `semRqDone` are the driver's variables of
these names (TRUE: set, FALSE: clear). `ahvmlock[i]` tells whose memory lock handle
i holds, `sel[i]` whose memory `pRequest` (0) and `pFSData` (1) map, and `locked[d]`
which buffers of daemon d are locked. `rq[d]` is the request in the buffer of d and
`rc[d]` the thread that the result in it answers. `pc`, `op`, `ret` say where a
calling thread is, which entry it called, and what it got; `dpc`, `fQuit`, `dreq`
where a daemon is, its `fQuit`, and the request it works on. A daemon process is
used once: a restart is another member of `Daemons`.

An action is what a thread does in ring 0 between two points where it can block.
`requestExchangeXS()` is `Enter` up to `FSH_SEMREQUEST` and `Acquire` after it, and
`DaemonEnters` its refusal of a call that the daemon itself makes; then
the thread copies arguments (`"marshal"`), and `Submit` is the end of that with the
first half of `signalDaemonAndWait()`; `Wake` is the second half, and `CopyOut` the
end of every entry. The entries differ in their error paths, and that is how the
model tells them apart: each `FS_` definition lists what happens when its arguments
cannot be copied in (`release`, `leak`, `ignore`, `unlock`) or its results out
(`release`, `undo`). `Start` to `Exit` are the daemon's: `initDaemon()` with
`daemonStarted()` in two steps, as `DevHelp_VMLock` may block; the loop of
`runDaemon()`; `doneDaemon()` with `daemonStopped()` in two steps. `Kill` is the
death of the process with the driver's `FS_EXIT`, `Reset` the forced detach.

Requests carry the thread they come from, so that "its own answer" can be said. The
program has no such label: `Forget` renames it once the thread has made its next
request, so that a leftover cannot pass for a current request.

`Faults` says what the environment of an instance does besides the normal course:
`kill`, `signal`, `stopsignal`, `badarg`, `badresult`, `initfail`, `pagefault`,
`overlap`, `reset` (each explained in the module). Everything the code does in such
a case is in the model; a run names the environments in which its property holds.

Assumed of what is outside `src/`: semaphores behave as the comments in `stubfsd.c`
and `stubfsd.h` say; a wait ends when the waiting thread runs while the semaphore is
clear, so a semaphore that is set again in between is missed; the kernel calls
`FS_EXIT` for every process that dies. `daemonStarted()` ends without a `return`
after its last call succeeded; the model takes the result to be that of that call,
zero, which is what the 16 bit compilers leave in the result register.

### RemoteCall

A call is idle, called, or done. `Perform` happens at most once per call and only
when the result of every other call has been collected; `Answer` only after
`Perform`; an error comes only without a daemon (`NoDaemon`) or for arguments or
results that cannot be passed (`Reject`). The mapping takes a thread to be done once
the answer in a buffer is its own, or an undo is under way.

### Volumes

The layer above: what the requests do. A step is one call of the kernel, from its
entry into the driver to its return. That the daemon executes calls one at a time,
each at most once, and that a caller gets the answer to its own call unless it is
interrupted, is what `StubFsd` and `RemoteCall` are about; that calls do not overlap
otherwise is what allows them to be single steps here.

The kernel keeps `vpfsd[d]`, the `pVolData` it was given for drive d, and
`handle[h]`, an open file or search with its drive and the two pointers it sends
with each call on it. The daemon has `volumes` and `objects` (the `VolData`, and the
`OpenFileData` and `SearchData`, that are allocated), the list `pFirstVolume`,
`pNext`, `pPrev`, the counters `cOpenFiles` and `cSearches`, and `isoFiles`, the
number of images it has open. `malloc()` returns any address that is free, so an
address can be used again at once: a stale pointer may name another volume. Memory
that is freed keeps its contents, which is one of the things it may do; the
properties forbid that it is touched, not what is found there.

`Attach`, `AttachWithoutJoliet` and `AttachFails` are the ends of `attachVolume()`:
success, the error return that frees the volume and leaves the image open, and those
that leave nothing. `Detach` and `DetachRefused` are those of `detachVolume()`, and
`DetachWithoutDaemon` is the driver's early return. `OpenCreate`, `FindFirst` and
`OpenFails`, `Close` and `CloseReference` are the operations on files and searches;
`FindUndelivered` is a search that `FS_FINDFIRST` closes itself as it cannot deliver
its results. `FS_OPENCREATE` has no such undo, so an undeliverable open leaves the
file open in the daemon. `Die` ends the process and all it has; `Restart` starts
another.

Three constants say what the environment does: `Lost`, the calls that may be
interrupted while the daemon executes them, so that the kernel sees an error and the
daemon's work stays done; `Undelivered`, the calls whose results may not fit the
caller's memory; and `Faults`.

Assumed of the kernel: a call names a drive that is attached, or for a close, a
handle that is open; it forgets a handle when it has closed it, whatever the result;
it keeps a drive whose detach fails and forgets one whose attach fails. The comment
at `stubfsd.c:486` says that a daemon must not be restarted with drives mounted;
that it is not is an assumption about the operator (`Restart`), which the fault
`stale` drops. It says nothing of files and searches that programs still have open,
although what the kernel has for them is as stale after a restart. That there are none
is an assumption of its own, which the fault `handles` drops; with either, `PointersValid`
does not hold.

### Mounts

A drive is mounted or not, a handle is open on a drive or not. A drive is unmounted
only when no handle is open on it, refused only when one is, and a close succeeds
whenever the daemon is there.

### FileIO and ReadOnlyFile

A file is open; `file` is its entry and `sfi_position` the position, which the kernel
hands to every call and takes back. `rc`, `cbLen` and `pData` are the result of the
last call. A byte is represented by its place in the image, so that two bytes are the
same only if they come from the same place; `Unknown` is what is not promised.

`Read` is `fsRead()`: `Clipped` is what it makes of the length, with the unsigned
difference that wraps around beyond the end, and `Copied` the loop over sectors; a
sector that the image does not hold, or that lies where the offset no longer fits an
`int`, gives `Unknown` bytes. `ReadUndelivered` is the error path of `FS_READ` after the
position was stored. `ChgFilePtr` has its three types, with the wrap-around of a
`LONG`; the remaining requests refuse or do nothing. `FILE_BEGIN` takes a negative offset
and goes far beyond the end (`fileio.c:123`), where the other types refuse one. `Sought`
keeps programs from that, unless `Faults` has `negative`, with which the code does not
implement `ReadOnlyFile`; nothing in the repository says what it should do. `Word` stands for 2^32, `Sector`
for 2048.

`ReadOnlyFile` says that a read inside the file returns its bytes from the position on,
exactly as many as were asked for or are there, and advances by their number; that a seek
goes to the place that its origin and offset give, or is refused when that is negative;
that nothing else moves the position but a read whose result is lost, which moves it as far
as the read would have. Beyond the end, where a program has to seek to first, as many bytes
come as are asked for, up to the size of the file, and none of them is promised.

### FindBuffers and Enumeration

The other half of a search, whose life is in `Volumes`: which entries each call
returns. `Directory` is what `getDirEntries()` returned, `pIsoNext` and `iNext` the
cursor of `SearchData`. `Answer` is `storeDirContents()` with `storeNextFileInfo()`: a
recursive function, `Fill`, over the entries that are left, whose value for each room in
the buffer and number of entries stored is what comes of it (`AtEntry`, `AtEnd`).
`Stored` is `storeFileInfo()`: an entry takes as many bytes as its parts, and its
attributes may give way to their size. `FindFirst` keeps a search only if it succeeds;
`FindNext` is also `fsFindFromName()`, which looks at neither name nor position.
`FindFirstUndelivered` and `FindNextUndelivered` are the driver's error paths; the first
closes the search, and after the second the entries are lost.

`iNext` of a new search may be anything in `FirstPosition`, as nothing sets it. A list
of attributes that fits where the name behind it does not gives
`ERROR_BUFFER_OVERFLOW`, though in a smaller buffer the entry would be stored without
them; a call with such a buffer is not `Adequate`. Lists of attribute names are taken
to be well formed here (`EaCopy` has the others), and `cbData` to be what is left
behind the `EAOP`.

`Enumeration` promises each matching entry once and in order, in portions; an error
takes nothing, `ERROR_NO_MORE_FILES` comes when everything was returned and not
before, and only what could not be handed over is lost.

### Names, IsoDir, JolietScan, EaCopy, Nls

Algorithms without state: operators that follow the code, each beside a definition of
what it is for. A loop of the code is a recursive function whose argument counts its
turns. In `Algorithms` a state is an algorithm with one input for it, the inputs are
constants, and each invariant compares a result with its definition.

- `Names`: `nameMatches()` against the rules for `*`, `?` and `.` (`MatchesRules`);
  `Comparison` goes back from the end of the pattern, and has for each of its places
  what comes of comparing the rest with the name from each place on. `hasNon83Name()`
  (`ScanChar` is a turn of its loop), `splitPath()`, `isoEntryTimeToOS2()` and the parameter
  strings of `FSCTL_AEFS_SETPARAMS`: `Stop` and `Nuls` are the first loop over the buffer,
  which counts them, `Begins` and `EndOf` the second, which walks along them without looking
  at the end of the buffer; `SetParams` has the check of the size of the whole buffer
  before them (`ParamBytes`). `BaseMax` and `ExtMax` stand for 8 and 3.
- `IsoDir`: `DirEntries` is `getDirEntries()`: `Read` is where the file stands, what is in
  the buffer and what was found after each read, `Seek` the `lseek()` before it, `Parsed`
  the loop over a sector with its early end, `Converted` the name. An `lseek()` beyond 2 GB
  (`SeekMax` sectors) wraps around or fails; a read is tried all the same, from where the
  file stands, and if that fails too, the buffer keeps what it had.
  `IsoEntryFromPath` and `DirExtentFromPath` are the two walks along a path (`EntryStep`
  and `DirStep` a component of each), against `Resolved`, and `ChangeDir`, `FileAttribute`, `PathInfo`
  (with `FileInfo`, its levels and the sizes of their answers) and `OpenCreate` the requests
  built on them.
- `JolietScan`: the loop of `attachVolume()` over descriptors, where `Ipd` is what is
  in `ipd` after a read that may fail.
- `EaCopy`: `StoreEAsInFEAList` of the daemon and `copyEAOP()` of the driver, in (`CopyIn`)
  and out (`CopyOut`), with each of the five pieces of the program's memory usable or not.
  Where the names cannot be copied in, the daemon works on what the buffer had. What is
  probed and copied is a `USHORT`; the overflow that is kept in `rcfinal` is lost.
- `Nls`: `init_nls()`, `find_nls()` and the choice in `attachVolume()`. The tables are
  transcribed: `charset2uni` is a sequence, and `page_uni2charset` is written as runs
  `<<u, b, n>>`, n characters from u on that become the bytes from b on.

## The runs

The bounds are the numbers in the column "instance", and `MaxFiles` of `Volumes`;
nothing else is bounded. Two daemons are one restart, the least for which what an
incarnation leaves behind can meet the next; three threads are one that has the
buffers, one that waits for them, and one that comes in between.

| run | instance | environment | shows |
|---|---|---|---|
| `Exclusion` | 2 threads, 2 daemons, `FS_FINDFIRST` | kill, signal, badarg, badresult, pagefault, reset | `TypeOK`, `ExchangeExclusive` |
| `Answers` | 3 threads, 2 daemons, `FS_FSCTL`, `FS_FINDFIRST` | kill, badresult, pagefault | `NoOrphanLock`, `OwnAnswer`, `StopReleases`, `BuffersPinned`, `ExecutesOnce`, `ImplementsRemoteCall`, also across an undo |
| `Anything` | 1 thread, 2 daemons, `FS_FILEINFO` | kill, stopsignal, badarg, pagefault, overlap, reset | `AttachedDaemonRuns`, `RequestTaken` |
| `Drain` | 2 threads, 2 daemons, `FS_FSCTL`, `FS_ATTACH` | kill, badarg, badresult, initfail | `NobodyWaitsInVain`, `BlockedThreadsReturn`, `StopCompletes`, `WaitEnds` |
| `Pointers` | 2 drives, 2 handles, 2 volumes, 3 objects | interrupted attach, open, find, close; undeliverable open, find; no Joliet descriptor; death and restart | `TypeOK`, `PointersValid`, `CountersCover` |
| `Mounting` | 3 drives, 2 handles, 3 volumes, 2 objects | undeliverable find; death and restart | `NothingLeft`, `ListWellFormed`, `ImplementsMounts` |
| `Reading` | words of 6 bits, sectors of 4 bytes, an image of 34; 5 files; 5 lengths, 7 offsets | undeliverable reads | `PiecesAddUp`, `ImplementsReadOnlyFile` |
| `Searching` | 6 entries, 4 sets of attributes, buffers of 6 sizes at 3 levels | undeliverable results | `TypeOK`, `PositionsAgree`, `EachOnceInOrder`, `AdequateAdvances`, `ImplementsEnumeration` |
| `Algorithms` | see below | | ten invariants of `Algorithms`, and `CharsetsExact` |

Of `Volumes`: in `Pointers` one object more than there are handles leaves one to be
leaked while both handles are in use; the volumes are as few as the drives, so that
a freed address is given out again at once; the three volumes of `Mounting` are a
list with a head, a middle and an end; `MaxFiles`, the limit of open images, is
reached.

The entries of a run are those with the error paths the question is about:
`FS_FINDFIRST` releases, leaks and undoes (it leaks the semaphore on a bad argument,
so `Answers` has none); `FS_FSCTL` can tell the daemon to quit, and `FS_ATTACH`
returns at once without a daemon; `FS_FILEINFO` ignores a failure and sends a
request after the release; the entries that are not named share their error paths
with one that is, except `FS_PATHINFO`, whose are those of `FS_ATTACH` and
`FS_FILEINFO` together.

`Exclusion`, `Answers` and `Anything` do not check for deadlock: in their environments
the system can really come to rest with threads that wait for ever, as in `LostWakeup`
(which, like `Unlocked`, does not check for it either). All other runs do.

Of `FileIO`: the files are one of several sectors, one that ends with a sector, an
empty one, one that the image does not hold to its end, and one that crosses the last
offset that fits an `int` (32 in this instance); `got` grows with each read, but no
further than the file inside it. Lengths go from zero over less, more and several times
a sector to the largest, and offsets to both ends of a `LONG`, so that the unsigned
difference and both additions wrap around. Of `FindBuffers`: the directory has "." and
"..", a long name, one that does not match, and others behind it; the sizes are such
that an entry fits or not, alone, behind others, with a position, with its attributes or
with their size alone.

`Algorithms` has a state for each algorithm and input:

| inputs | bound | property |
|---|---|---|
| patterns and names | 4 and 3 characters | `PatternsMatch` |
| names, with parts of 3 and 2 | 6 characters | `DosNamesTold` |
| paths | 7 characters | `PathsSplit` |
| dates | every year of a record, the ends of the other fields | `DatesKept` |
| parameter buffers, of which those of 7 bytes have the right size | 8 bytes | `ParamsWhole` |
| images as sequences of descriptors | 4 blocks | `JolietFound` |
| lists of attribute names, of the right length and of wrong ones, with every length of the program's buffer from 0 to more than the longest list | 4 names | `EasDelivered` |
| a few of these, with every set of unusable pieces of the program's memory, and lists left from earlier requests | 10 names | `EasDelivered` |
| directories of 2 sectors, with every set of unreadable ones, and memory that ends | 3 records in a sector, of every length and name | `ListingWhole` |
| directories of 3 sectors, with every set of unreadable ones, and memory that ends | a few contents of a sector | `ListingWhole` |
| directories before, across and behind what `lseek()` reaches (`SeekMax` is 8), and places where the file may stand | a few contents of a sector | `ListingWhole` |
| volumes of a root and 2 more sectors, with cycles and files that look like directories | paths of 3 components | `PathsResolve`, `RequestsAgree` |
| all 29 character sets, by the names that the mount tool lists and by the code pages of the system | every byte, and every character of the tables | `CharsetsExact` |

Where the code does less than one would expect, the property says where it applies. A `?`
at the end of a name swallows the rest of the pattern: `PatternsMatch` asks for the rules
but for names that run short of the pattern. The daemon hangs on an image that has neither
a Joliet descriptor nor a terminator. `ListingWhole` asks for whole listings of directories
in which no record begins too late in its sector; of the others, and of all that `lseek()`
reaches, only that nothing is made up, and beyond that reach nothing. A sector that cannot
be read lists the one before it again. Files that look like directories can be walked
through. Names are cut at characters that the set does not have. `EasDelivered` says
nothing of the return code when a list does not fit the program's buffer, nor of what is
copied of a list of 65536 bytes, but that it stays in the buffer.

Three runs show where the code does not do what its comments say. Each is a
counterexample to one property, and the finding in `PROJECT.json` quotes the
comment.

| run | what happens |
|---|---|
| `LostWakeup` | the daemon dies while the thread that has the buffers is blocked in a page fault; the thread then sets `semRqDone`, which `daemonStopped()` had already cleared, and waits for ever |
| `Unlocked` | `copyFileInfoBufPre()` releases the buffers on an error that its callers ignore, and the request is sent without them |
| `Latin8` | `page01` and `page1e` of iso8859-14 are copies of each other, so that characters become the bytes of others |

The models hold twelve more such cases. Each has a configuration of its own, which is not
among the runs above: TLC finds a counterexample to the property in it, at once or after
some thousand states. They are why the runs that pass are as narrow as they are. To see
one, run TLC on the module of the table with the configuration of that name.

| configuration | module | property | what happens |
|---|---|---|---|
| `Signalled` | `MCStubFsd` | `OwnAnswer` | a thread interrupted in its wait gives up the buffers while the daemon works on its request, and the next thread takes that completion for its own (`stubfsd.c:164`; `:58` says what the semaphore means) |
| `LeakedLock` | `MCStubFsd` | `BlockedThreadsReturn` | `FS_IOCTL` returns with the semaphore set on a bad argument (`stubfsd.c:569`), and the next thread waits for ever, after the end of the daemon too (`:257` says that it returns) |
| `ResetDaemon` | `MCStubFsd` | `DetachedDaemonReturns` | a forced detach leaves the daemon blocked for a request (`stubfsd.c:402`), although `:240` says that all blocked threads are unblocked |
| `Overlap` | `MCStubFsd` | `BuffersPinned` | a daemon starts while its predecessor waits in `daemonStopped()`, which then unlocks the buffers of the new one (`stubfsd.c:376`) |
| `ClearedLock` | `MCStubFsd` | `ExchangeExclusive` | a daemon that starts in such a moment clears the semaphore of a thread that is inside (`stubfsd.c:235`) |
| `ForcedDetach` | `MCVolumes` | `FindCloseTouchesVolumes` | a search is closed after its volume was detached by force, and counts down in the freed volume (`find.c:535`), the case that the comment at `:528` speaks of |
| `StaleBytes` | `MCFileIO` | `OnlyBytesRead` | where the image ends, the length that is returned counts bytes that were never read (`fileio.c:79`) |
| `ShortNames` | `MCAlgorithms` | `PatternsFollowRules` | the pattern `?a` finds a name of one letter (`find.c:54`), against the rules that the comment at `:38` claims |
| `EaOverflow` | `MCAlgorithms` | `OverflowTold` | a list is cut off, and `NO_ERROR` returned (`stubfsd.c:766`, `:801`), where the comment at `:762` has an overflow error |
| `LongestList` | `MCAlgorithms` | `LongestCopied` | a list of 65536 bytes is not refused, and nothing of it is copied (`stubfsd.c:749`, `:775`) |
| `UnreadNames` | `MCAlgorithms` | `NamesRead` | a list of names cannot be read, and the query succeeds for an earlier one (`stubfsd.c:1202`), although `:1103` says that it is copied |
| `LateRecords` | `MCAlgorithms` | `AllListed` | a record that begins where one with the longest name would not fit is not listed (`isoaccess.c:229`), the use of `sizeof` that `iso9660.h:136` warns of |

Fairness: every thread and every daemon that stays able to take a step takes one
(weak fairness): OS/2 runs ready threads. Calls, starts of daemons and everything in
`Faults` need not happen. Searches need no fairness: that they end, for a caller who goes
on asking with buffers that hold an entry, is stated call by call (`AdequateAdvances`).
`FSH_SEMREQUEST` is not known to be fair, so no strong
fairness is assumed, and no property says that a thread that asks for the buffers
gets them while others keep asking.

## The proofs

Every theorem but the liveness of `StubFsd` is about `Spec` without fairness, and each
holds for all values of the constants that satisfy the modules' assumptions. Where a property needs a peaceful environment the
hypothesis is a condition on `Faults` and the like, of the kind that the column
"environment" of the runs gives; each has instances, those runs among them. Behind each
property stands an inductive invariant, whose proof has a lemma per action or group of
actions.

`StubFsd_proofs`, for every set of threads and of daemons:

- `TypeCorrect`: `TypeOK`.
- `AttachedDaemonAlwaysRuns`: `AttachedDaemonRuns`, in every environment. The property
  is inductive given the types: each step that moves a daemon out of the states it
  allows either clears `pidDaemon` or has found it to be another.
- `ExchangeIsExclusive`: `ExchangeExclusive` under `KeepsExclusive`: no start while
  another daemon stops, no interrupted stop, no entry that sends a request after it has
  released the buffers; `Unlocked` shows that the last is needed, and `"overlap"` that
  the first is. The property is not inductive, as `daemonStarted()` clears
  `semSerialize` whoever has it. `ExclusionInv` adds that a thread inside holds the
  semaphore and that, when no daemon is attached, somebody is still waiting in
  `daemonStopped()` for that thread to leave; with that nobody is inside when a daemon
  starts.
- `LockIsNeverOrphaned`: `NoOrphanLock` under `KeepsLock`: if arguments may be bad, no
  entry returns with the semaphore on that account, as `FS_IOCTL` does. Starts, stops,
  resets and deaths may come as they like. `OrphanInv` needs to know besides which
  entries are called.
- `StopAlwaysReleases`: `StopReleases` under `KeepsLocks`: starts and stops do not
  overlap, are not interrupted and do not fail, and nobody forces a detach.
  `ReleasesInv` says that a daemon which runs is attached, that one which does not has
  nothing locked, and that the lock handles know whose locks they are; `LoneDaemon`,
  proved first, that there is one daemon at a time.
- `BuffersStayPinned`: `BuffersPinned` under `KeepsPinned`, which is `KeepsExclusive`
  without the forced detach: `RESET` waits for the semaphore, and unlocks what the
  handles name by then, which may be the buffers of a daemon that has started
  meanwhile. `MappedInv` says that the buffers of the attached daemon are the mapped
  ones, `PinnedInv` that they are locked from its start on and while anybody is inside.

`StubFsd_answers`, likewise:

- `AnswerIsOwn`: `OwnAnswer` under `KeepsAnswers`, which is `KeepsExclusive` without
  signals, with which the property is false (see above). `AnswersInv` follows the one
  request there can be, from the buffer over the daemon's work to the answer, by the two
  semaphores (`Sent`, `Taken`, `Answered`), and says that a thread leaves no trace of
  its request behind (`Quiet`).
- `RequestsExecuteOnce`: `ExecutesOnce`, and `RemoteCallImplemented`:
  `ImplementsRemoteCall`, under `KeepsCalls`: no forced detach besides, after which a
  daemon would go on with a request that its thread has given up. `OrderlyInv` adds that
  a daemon which runs is the attached one.

`StubFsd_liveness`, likewise:

- `NobodyEverWaitsInVain`: `NobodyWaitsInVain` under `KeepsAwake`: `KeepsExclusive` without
  page faults, with which a thread submits its request after the daemon has gone (the run
  `LostWakeup`). Deaths, forced detaches, signals and bad arguments may come as they like.
  `AwakeInv` adds that a thread that copies its arguments still has its daemon.
- `EveryWaitEnds`: `WaitEnds` in these environments. The measure is `StepsLeft`, at most
  six: how far the attached daemon is from `DONE_REQUEST`, or from stopping. Its next step
  shortens it (`OwnerApproaches`), nobody else makes it longer or detaches it without
  waking the thread (`OthersLeave`), and it is never blocked while somebody waits for it,
  by `AwakeInv` (`WaitShortens`). A thread whose semaphore is clear is not held up by
  anybody (`WokenGoes`).
- `StopAlwaysCompletes`: `StopCompletes`, and `BlockedThreadsAlwaysReturn`:
  `BlockedThreadsReturn`, under `KeepsLock` besides: a thread that waits when the daemon
  goes is awake, and gives the semaphore back; nobody takes it without a daemon
  (`SemaphoreFrees`, `FreeStaysFree`); so each that waits for it gets it.
- `RequestAlwaysTaken`: `RequestTaken` with page faults and anything else in `Faults`, by a
  measure of the same kind (`StepsToTake`). Without page faults a thread that copies keeps
  the daemon from running, and weak fairness does not say that the daemon gets a turn
  between two such threads.

All of these but the first are about `Scheduled`: `FairSpec`, together with
`[]ReadyIsEnabled`. Weak fairness speaks of `ENABLED`, which the provers know nothing of, so
its meaning for the actions of `FairSpec` is a hypothesis: `ReadyIsEnabled` says that a
thread in a call, and a daemon, can take a step unless one of the three semaphores or a
thread that is copying holds it up (`ClientReady`, `DaemonReady`). It restates the guards
of the actions, and says nothing of the code that they do not; TLC, which evaluates
`ENABLED`, finds it true in all states of the instances of `Drain` and `Anything`. What follows from
it, that somebody clears the semaphore, is proved.

`Volumes_proofs`, for any finite number of handles, any drives, and any finite number of
addresses:

- `VolumesTypeCorrect`: `TypeOK`; `PointersAreValid`: `PointersValid`;
  `CountersAlwaysCover`: `CountersCover`;
  all under `KeepsPointers`, which excludes forced and interrupted detaches and a restart
  with mounted drives, open files or open searches. Calls that are interrupted or undeliverable, failing mounts and
  the death of the daemon are all included. None of these is inductive alone: pointers
  stay valid because a volume that the counters call idle has no handles, and the
  counters of a new volume start right because no pointer can name an address that is
  free. `VolumesInv` joins them and adds that no two drives share a volume (else
  detaching one would free the other's) and that each volume has an open image (for the
  type of `isoFiles`).
- `ListIsWellFormed`: `ListWellFormed` in the same environments. `ListInv` says that some
  sequence without repetition runs through all volumes, linked both ways; linking puts
  one before it, unlinking takes one out. That following `pNext` reaches every volume
  and ends follows along the sequence.
- `NothingIsLeft`: `NothingLeft`, and `MountsImplemented`: `ImplementsMounts`, under
  `KeepsTrack`: no call is interrupted, only a search may be undeliverable, and the
  daemon may die. `TrackInv` says that the counters are exact and not only large enough,
  and that a handle is on the volume its drive has; from that a detach is refused exactly
  when `Mounts` lets it be.

`FileIO_proofs`, for any sector size, any word that is a multiple of
two sectors, any image, files, lengths and offsets:

- `ReadingTypeCorrect`: `TypeOK`; `PiecesAlwaysAddUp`: `PiecesAddUp`;
  `ReadingImplemented`: `ImplementsReadOnlyFile`, for programs that do not give
  `FILE_BEGIN` a negative offset (`"negative" \notin Faults`), the only hypothesis here.
  `PiecesAddUp` is inductive with the types (`ReadingInv`); the work is in what `Copied` and
  `Clipped` return, with the wrap-around of a word and of a `LONG`.

`FindBuffers_proofs`, likewise, for any directory, attributes, buffers and sizes:

- `SearchTypeCorrect`: `TypeOK`; `PositionsAlwaysAgree`: `PositionsAgree`;
  `EachOnceAlways`: `EachOnceInOrder`; `SearchImplemented`: `ImplementsEnumeration`.
  `Good` is what a result of the loop has to be wherever it starts: the matching entries
  between there and where it stops, in order, and the return code that goes with them.
  It is shown from the end of the directory backwards, for every room in the buffer and
  number of entries stored. `SearchInv` says that what was delivered lies before the
  cursor, in order, each entry with the position that the cursor gives it.
- `AdequateAlwaysAdvances`: `AdequateAdvances`, that a call with an adequate buffer passes
  an entry or says that there is none: with nothing stored yet the loop stops at the first
  entry that matches only for lack of room (`AdequateMoves`).

`Algorithms_proofs`, for inputs of any size; `JobInv`, that the input is one of those
given, is all there is to the states:

- `PatternsAlwaysMatch`: `PatternsMatch`, in both directions: what the rules give is found,
  always, and what is found is given by the rules, but for names that run short. The pattern is compared from its end, the rules
  are stated from its beginning; the proof goes through the places where the rest of the
  pattern can match the rest of the name, backwards.
- `DosNamesAlwaysTold`: `DosNamesTold`, from what the loop knows after each character.
- `PathsAlwaysSplit`: `PathsSplit`; `DatesAlwaysKept`: `DatesKept`.
- `JolietAlwaysFound`: `JolietFound`: before the first descriptor or terminator that can
  be read, what the buffer holds is neither, however many blocks fail.
- `EasAlwaysDelivered`: `EasDelivered`, for attributes of any sizes, lists of any length,
  true or not, any unusable memory, and any `ListMax` that is more than eight.
- `PathsAlwaysResolve`: `PathsResolve`, and `RequestsAlwaysAgree`: `RequestsAgree`. Of
  volumes they assume (`VolumeAssumption`) that the root and the directories do not lie in
  sector zero, which the code takes for "no directory", and of paths that no component
  is empty.
- `ParamsAlwaysWhole`: `ParamsWhole`, for buffers of any length. `Placed` is the invariant
  of the second loop: the k-th string begins before the end that the first loop found, and
  k - 1 NULs are before it; so the loop, which only counts, ends exactly there.
- `ListingAlwaysWhole`: `ListingWhole`, for any number of sectors, any set of unreadable
  ones, records of any length (`ListingAssumption`), any memory and any place where the
  file stands. `ShownAs` has the
  buffer and the list after each read; what was listed stays where it is when more is
  listed (`ListGrows`), and what is in the buffer is nothing, or a sector that was read.

The library's induction theorems cannot be used here, so a recursive function is unfolded
by hand: `NumberFacts` shows that a set of numbers with the first and with the successor of
each member has all of them (from its least counterexample), and with that, that a loop
over a range has a state after each turn (`LoopExists`, `LoopBackExists`). A lemma
`...Unfolds` of each recursive function then gives its equations.

Only model-checked is `CharsetsExact`, which is about the tables of `libunls`: the run
looks at every byte and character, so there is nothing left to prove. Of `Scheduled`, the
part that says what `ENABLED` means is not proved.

## Not modelled

- The contents of results other than those above: dates apart, the fields of
  `FILESTATUS` are copied; `FS_FSINFO` and `FSCTL_MAX_EASIZE` answer with constants.
  Names folded to upper case for DOS programs (`strupr()` in `find.c`).
- The syntax checks of paths (`verifyPathName()`, the path of the image), and logging.
- Memory that is not given back: a closed search leaves its directory entries allocated
  (`find.c:32`), an open that
  fails for want of memory the entry of its file (`openclose.c:63`), and a mount that finds no
  Joliet descriptor the image open (`attach.c:270`). Only the last is in `Volumes`;
  `NothingLeft` counts images, volumes, `OpenFileData` and `SearchData`, and nothing
  smaller. Nothing in the repository says otherwise.
- What `daemonStarted()` and `daemonStopped()` say they do not recover from: a failed
  lock and an interrupted wait leave buffers locked (`stubfsd.c:187`, `:267`).
- An interrupted detach, which the kernel takes for a failure (`stubfsd.c:515`): it is
  in `Volumes` (`"detach"` in `Lost`), and breaks `PointersValid`.
- `FS_SHUTDOWN` and the entries that return `ERROR_NOT_SUPPORTED` at once do not touch the
  state, and `fsMkDir()`, `fsDelete()`, `fsMove()` and the like only refuse. The daemon's
  mutex is never contended, as the lazy writer that would share it is commented out.
- The use counts of character sets are macros without effect, no table is ever
  unregistered, and `load_nls_default()` is not called. `coreTimeToOS2()`,
  `os2TimeToCore()`, `makeDOSAttr()`, `extractDOSAttr()` and `coreToSffsi()` of `utils.c` are
  left from a file system that writes.
- Option parsing is third-party code (`getopt`); options are carried out as they are
  parsed, so `--quit` before an unknown option ends the daemon though the call fails.
  The mount tools parse options and make one call; `debug.c` and `except.c` are not
  compiled into the daemon, `isoinfo.c` is another tool, and `system/` wraps the
  operating system.

## Plan

The parts of the file system whose behaviour depends on more than a table or a field are
modelled, with the limits above, and the properties of the passing runs are proved but for
`CharsetsExact`, in the environments named with each theorem and, for liveness, from
`ReadyIsEnabled`. What could be added: the fields of `FILESTATUS`; names folded to upper
case for DOS programs; the memory that is not given back; handles that outlive a restart,
for which the code would first have to say what they should be.

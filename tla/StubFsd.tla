------------------------------- MODULE StubFsd -------------------------------
(***************************************************************************)
(* The ring 0 stub driver (ifsdriver/stubfsd.c) and the main loop of the   *)
(* ring 3 daemon (ifsdaemon/isofsdmn.c), which exchange file system        *)
(* requests through one pair of buffers that the daemon owns and the       *)
(* driver locks in memory.                                                 *)
(*                                                                         *)
(* A step is what one thread does in ring 0 between two points where it    *)
(* can block: the kernel never preempts a thread in ring 0.  The points    *)
(* are FSH_SEMREQUEST, FSH_SEMWAIT, DevHelp_VMLock, and every access to    *)
(* the caller's own memory, which may have to be paged in.                 *)
(*                                                                         *)
(* Semaphores are OS/2 RAM semaphores: TRUE stands for set, FALSE for      *)
(* clear.  They have no owner, clearing one is unconditional, and a wait   *)
(* ends when the waiting thread is run while the semaphore is clear.       *)
(*                                                                         *)
(* A definition whose name begins with Bug is a planted defect.  Next uses *)
(* none of them: each takes the place of the definition that follows it,   *)
(* to see that a property can fail.                                        *)
(***************************************************************************)
EXTENDS Naturals, FiniteSets

CONSTANTS
  Clients,   \* threads of other processes, as the callers of the FS_ entries
  Daemons,   \* process ids: each names one incarnation of the daemon
  NoPid,     \* the pid 0: no daemon is attached
  Ops,       \* the entry points the threads call (records of AllOps, below)
  Faults     \* what may happen besides the normal course, a subset of:
             \* "kill"      a daemon process dies at any point in ring 3
             \* "signal"    a signal interrupts a call or GET_REQUEST as it blocks
             \* "stopsignal" a signal interrupts daemonStopped() as it blocks
             \* "badarg"    a caller passes an unreadable buffer or too long a name
             \* "badresult" a caller passes a result buffer that is not writeable
             \* "initfail"  locking a buffer or initializing a daemon fails
             \* "pagefault" an access to the caller's memory blocks
             \* "overlap"   a daemon starts while an earlier one still stops, or another one starts
             \* "reset"     somebody issues FSCTL_STUBFSD_RESET

AllFaults == {"kill", "signal", "stopsignal", "badarg", "badresult", "initfail",
              "pagefault", "overlap", "reset"}

(***************************************************************************)
(* The entry points.  "in" holds the ways copying the arguments into the   *)
(* exchange buffers may fail:                                              *)
(*   "release"  release the exchange buffers and return an error           *)
(*   "leak"     return an error and keep them                              *)
(*   "ignore"   go on as if nothing had happened                           *)
(*   "unlock"   release them and go on as if nothing had happened          *)
(* "out" holds the ways copying the results to the caller may fail:        *)
(*   "release"  as above                                                   *)
(*   "undo"     send the daemon a FINDCLOSE first                          *)
(***************************************************************************)
Entry(name, in, out) == [name |-> name, in |-> in, out |-> out]

FS_FSCTL           == Entry("FSCTL", {}, {"release"})
FS_ATTACH          == Entry("ATTACH", {"release"}, {"release"})
FS_IOCTL           == Entry("IOCTL", {"leak"}, {"release"})
FS_FSINFO          == Entry("FSINFO", {"release"}, {"release"})
FS_FLUSHBUF        == Entry("FLUSHBUF", {}, {})
FS_OPENCREATE      == Entry("OPENCREATE", {"release"}, {"release"})
FS_CLOSE           == Entry("CLOSE", {}, {})
FS_READ            == Entry("READ", {}, {"release"})
FS_WRITE           == Entry("WRITE", {"release"}, {})
FS_CHGFILEPTR      == Entry("CHGFILEPTR", {}, {})
FS_NEWSIZE         == Entry("NEWSIZE", {}, {})
FS_FILEATTRIBUTE   == Entry("FILEATTRIBUTE", {"release"}, {})
FS_FILEINFO        == Entry("FILEINFO", {"ignore", "unlock"}, {"release"})
FS_COMMIT          == Entry("COMMIT", {}, {})
FS_PATHINFO        == Entry("PATHINFO", {"release", "ignore", "unlock"}, {"release"})
FS_DELETE          == Entry("DELETE", {"release"}, {})
FS_COPY            == Entry("COPY", {}, {})
FS_MOVE            == Entry("MOVE", {"release"}, {})
FS_CHDIR           == Entry("CHDIR", {"release"}, {})
FS_MKDIR           == Entry("MKDIR", {"release"}, {"release"})
FS_RMDIR           == Entry("RMDIR", {"release"}, {})
FS_FINDFIRST       == Entry("FINDFIRST", {"release", "leak"}, {"undo"})
FS_FINDNEXT        == Entry("FINDNEXT", {"leak"}, {"release"})
FS_FINDFROMNAME    == Entry("FINDFROMNAME", {"release", "leak"}, {"release"})
FS_FINDCLOSE       == Entry("FINDCLOSE", {}, {})
FS_FINDNOTIFYFIRST == Entry("FINDNOTIFYFIRST", {}, {})
FS_FINDNOTIFYNEXT  == Entry("FINDNOTIFYNEXT", {}, {})
FS_FINDNOTIFYCLOSE == Entry("FINDNOTIFYCLOSE", {}, {})
FS_PROCESSNAME     == Entry("PROCESSNAME", {"release"}, {})

AllOps ==
  {FS_FSCTL, FS_ATTACH, FS_IOCTL, FS_FSINFO, FS_FLUSHBUF, FS_OPENCREATE, FS_CLOSE,
   FS_READ, FS_WRITE, FS_CHGFILEPTR, FS_NEWSIZE, FS_FILEATTRIBUTE, FS_FILEINFO,
   FS_COMMIT, FS_PATHINFO, FS_DELETE, FS_COPY, FS_MOVE, FS_CHDIR, FS_MKDIR, FS_RMDIR,
   FS_FINDFIRST, FS_FINDNEXT, FS_FINDFROMNAME, FS_FINDCLOSE, FS_FINDNOTIFYFIRST,
   FS_FINDNOTIFYNEXT, FS_FINDNOTIFYCLOSE, FS_PROCESSNAME}

\* What a thread that is in no call is calling.
NoOp == Entry("none", {}, {})

ASSUME ProcessAssumption == NoPid \notin Clients \cup Daemons
ASSUME OpsAssumption     == Ops \subseteq AllOps
ASSUME FaultsAssumption  == Faults \subseteq AllFaults

\* A request in the buffers, labelled with the thread whose current request it
\* is.  Once that thread makes another request the label is NoPid: it is then a
\* request of the past (see Forget).
Request(c, o) == [who |-> c, op |-> o]
Requests      == [who : Clients \cup {NoPid}, op : AllOps \cup {NoOp}]
NoRequest     == Request(NoPid, NoOp)

\* The two exchange buffers: 0 the request buffer, 1 the data buffer.
Bufs == {0, 1}

VARIABLES
  pidDaemon,     \* the attached daemon, or NoPid
  semSerialize,  \* set while a thread has the exchange buffers
  semRqAvail,    \* clear when a request awaits the daemon
  semRqDone,     \* clear when the daemon has completed the request
  ahvmlock,      \* per buffer: the daemon whose memory the lock handle locks
  sel,           \* per buffer: the daemon whose memory pRequest, pFSData map
  locked,        \* per daemon: which of its buffers are locked in memory
  rq,            \* per daemon: the request in its buffer
  rc,            \* per daemon: the thread whose request the result in it answers
  pc, op, ret,   \* per thread: where it is, the entry it calls, what it returned
  dpc,           \* per daemon: where it is
  fQuit,         \* per daemon: it has been told to quit
  dreq,          \* per daemon: the request it is executing, when it is "busy"
  reset          \* where the process that issued the reset is

sems    == <<semSerialize, semRqAvail, semRqDone>>
driver  == <<pidDaemon, ahvmlock, sel, locked>>
buffers == <<rq, rc>>
threads == <<pc, op, ret>>
daemons == <<dpc, fQuit, dreq>>
vars    == <<sems, driver, buffers, threads, daemons, reset>>

Init ==
  /\ pidDaemon = NoPid
  /\ semSerialize = FALSE /\ semRqAvail = FALSE /\ semRqDone = FALSE
  /\ ahvmlock = [i \in Bufs |-> NoPid]
  /\ sel = [i \in Bufs |-> NoPid]
  /\ locked = [d \in Daemons |-> {}]
  /\ rq = [d \in Daemons |-> NoRequest]
  /\ rc = [d \in Daemons |-> NoPid]
  /\ pc = [c \in Clients |-> "idle"]
  /\ op = [c \in Clients |-> NoOp]
  /\ ret = [c \in Clients |-> "none"]
  /\ dpc = [d \in Daemons |-> "off"]
  /\ fQuit = [d \in Daemons |-> FALSE]
  /\ dreq = [d \in Daemons |-> NoRequest]
  /\ reset = "idle"

\* A thread that touches the caller's memory keeps the processor, unless the
\* access faults: without page faults nobody else runs meanwhile.
CanRun(self) ==
  "pagefault" \in Faults \/ \A c \in Clients \ {self} : pc[c] \notin {"marshal", "copyout"}

-----------------------------------------------------------------------------
(* The calling threads *)

At(c, from) == pc[c] = from /\ CanRun(c)

Goto(c, to) == pc' = [pc EXCEPT ![c] = to] /\ UNCHANGED <<op, ret>>

Return(c, result) ==
  /\ pc' = [pc EXCEPT ![c] = "idle"]
  /\ op' = [op EXCEPT ![c] = NoOp]
  /\ ret' = [ret EXCEPT ![c] = result]

BugKeepSemaphore == UNCHANGED semSerialize

releaseExchangeXS == semSerialize' = FALSE

\* The thread c makes a new request: those of its past lose their label.  (The
\* labels are not part of the program: only this renames them.)
Forget(f, c)       == [d \in Daemons |-> IF f[d].who = c THEN Request(NoPid, f[d].op) ELSE f[d]]
ForgetAnswer(f, c) == [d \in Daemons |-> IF f[d] = c THEN NoPid ELSE f[d]]

\* The first half of requestExchangeXS(), up to its FSH_SEMREQUEST.  With no
\* daemon the call ends at once: FS_ATTACH lets a detach succeed, and a bad
\* argument is found by FS_FSCTL before it asks for the buffers.
Enter(c, o) ==
  /\ At(c, "idle")
  /\ \/ /\ pidDaemon # NoPid
        /\ pc' = [pc EXCEPT ![c] = "request"]
        /\ op' = [op EXCEPT ![c] = o]
        /\ ret' = [ret EXCEPT ![c] = "none"]
        /\ rq' = Forget(rq, c) /\ rc' = ForgetAnswer(rc, c) /\ dreq' = Forget(dreq, c)
     \/ /\ pidDaemon = NoPid \/ (o = FS_FSCTL /\ "badarg" \in Faults)
        /\ Return(c, "error")
        /\ UNCHANGED <<buffers, dreq>>
     \/ /\ pidDaemon = NoPid /\ o = FS_ATTACH
        /\ Return(c, "skipped")
        /\ UNCHANGED <<buffers, dreq>>
  /\ UNCHANGED <<sems, driver, dpc, fQuit, reset>>

\* (FSH_SEMWAIT in place of FSH_SEMREQUEST)
BugAcquireByWaiting(c) ==
  /\ At(c, "request") /\ ~semSerialize
  /\ IF pidDaemon = NoPid THEN Return(c, "error") ELSE Goto(c, "marshal")
  /\ UNCHANGED <<driver, sems, buffers, daemons, reset>>

\* The second half of requestExchangeXS(): the daemon may have died meanwhile.
Acquire(c) ==
  /\ At(c, "request") /\ ~semSerialize
  /\ IF pidDaemon = NoPid
     THEN Return(c, "error") /\ UNCHANGED semSerialize
     ELSE Goto(c, "marshal") /\ semSerialize' = TRUE
  /\ UNCHANGED <<driver, semRqAvail, semRqDone, buffers, daemons, reset>>

BugKeepDone(c, waitpc) == semRqAvail' = FALSE /\ Goto(c, waitpc) /\ UNCHANGED semRqDone

BugKeepAvail(c, waitpc) == semRqDone' = TRUE /\ Goto(c, waitpc) /\ UNCHANGED semRqAvail

\* The first half of signalDaemonAndWait(), up to its FSH_SEMWAIT.
signalDaemon(c, waitpc) ==
  /\ semRqDone' = TRUE
  /\ semRqAvail' = FALSE
  /\ Goto(c, waitpc)

\* Copy the arguments in and hand the request to the daemon.
Submit(c) ==
  /\ At(c, "marshal")
  /\ rq' = [rq EXCEPT ![sel[0]] = Request(c, op[c])]
  /\ signalDaemon(c, "wait")
  /\ UNCHANGED <<driver, semSerialize, rc, daemons, reset>>

BadArgument(c, handling) ==
  /\ At(c, "marshal")
  /\ "badarg" \in Faults /\ handling \in op[c].in
  /\ rq' = [rq EXCEPT ![sel[0]] = Request(c, op[c])]
  /\ UNCHANGED <<driver, rc, daemons, reset>>

RejectArguments(c) ==
  /\ BadArgument(c, "release")
  /\ releaseExchangeXS
  /\ Return(c, "error")
  /\ UNCHANGED <<semRqAvail, semRqDone>>

\* FS_IOCTL and the FS_FIND entries return without releasing the buffers.
LeakArguments(c) ==
  /\ BadArgument(c, "leak")
  /\ Return(c, "error")
  /\ UNCHANGED sems

\* copyFileInfoBufPre() fails, and its callers do not look at its result ...
IgnoreArguments(c) ==
  /\ BadArgument(c, "ignore")
  /\ signalDaemon(c, "wait")
  /\ UNCHANGED semSerialize

\* ... even when it has released the exchange buffers.
SubmitUnlocked(c) ==
  /\ BadArgument(c, "unlock")
  /\ releaseExchangeXS
  /\ signalDaemon(c, "wait")

BugWakeUnchecked(c) ==
  /\ At(c, "wait") /\ ~semRqDone
  /\ Goto(c, "copyout")
  /\ UNCHANGED <<driver, sems, buffers, daemons, reset>>

\* The end of signalDaemonAndWait() once semRqDone is clear.
Wake(c) ==
  /\ At(c, "wait") /\ ~semRqDone
  /\ IF pidDaemon = NoPid
     THEN Return(c, "error") /\ releaseExchangeXS
     ELSE Goto(c, "copyout") /\ UNCHANGED semSerialize
  /\ UNCHANGED <<driver, semRqAvail, semRqDone, buffers, daemons, reset>>

\* Copy the results out, release the buffers and return the daemon's code.
CopyOut(c) ==
  /\ At(c, "copyout")
  /\ releaseExchangeXS
  /\ \/ Return(c, "answer")
     \/ /\ "badresult" \in Faults /\ "release" \in op[c].out
        /\ Return(c, "error")
  /\ UNCHANGED <<driver, semRqAvail, semRqDone, buffers, daemons, reset>>

\* undoFindFirst() closes a search whose first results cannot be delivered,
\* in the same hold of the exchange buffers.
undoFindFirst(c) ==
  /\ At(c, "copyout")
  /\ "badresult" \in Faults /\ "undo" \in op[c].out
  /\ rq' = [Forget(rq, c) EXCEPT ![sel[0]] = Request(c, FS_FINDCLOSE)]
  /\ rc' = ForgetAnswer(rc, c) /\ dreq' = Forget(dreq, c)
  /\ signalDaemon(c, "undowait")
  /\ UNCHANGED <<driver, semSerialize, dpc, fQuit, reset>>

UndoWake(c) ==
  /\ At(c, "undowait") /\ ~semRqDone
  /\ releaseExchangeXS
  /\ Return(c, "error")
  /\ UNCHANGED <<driver, semRqAvail, semRqDone, buffers, daemons, reset>>

\* A signal ends FSH_SEMREQUEST or FSH_SEMWAIT with an error.
Interrupted(c) ==
  /\ "signal" \in Faults /\ CanRun(c)
  /\ \/ pc[c] = "request" /\ UNCHANGED semSerialize
     \/ pc[c] \in {"wait", "undowait"} /\ releaseExchangeXS
  /\ Return(c, "error")
  /\ UNCHANGED <<driver, semRqAvail, semRqDone, buffers, daemons, reset>>

ClientRuns(c) ==
  \/ Acquire(c)
  \/ Submit(c) \/ RejectArguments(c) \/ LeakArguments(c) \/ IgnoreArguments(c) \/ SubmitUnlocked(c)
  \/ Wake(c) \/ CopyOut(c) \/ undoFindFirst(c) \/ UndoWake(c)

-----------------------------------------------------------------------------
(* The daemon process and its FSCTLs *)

DaemonAt(d, from) == dpc[d] = from /\ CanRun(NoPid)

DaemonGoto(d, to) == dpc' = [dpc EXCEPT ![d] = to]

StoppedOrOff(d) == dpc[d] \in {"off", "dead"}

\* initDaemon() and FSCTL_STUBFSD_DAEMON_STARTED, up to the first VMLock.
Start(d) ==
  /\ DaemonAt(d, "off")
  /\ \/ /\ pidDaemon = NoPid
        /\ "overlap" \in Faults \/ (reset = "idle" /\ \A e \in Daemons : StoppedOrOff(e))
        /\ DaemonGoto(d, "lock0")
     \/ /\ pidDaemon # NoPid
        /\ DaemonGoto(d, "free")
  /\ UNCHANGED <<sems, driver, buffers, threads, fQuit, dreq, reset>>

BugPinNext(d, i) ==
  /\ ahvmlock' = [ahvmlock EXCEPT ![i] = d]
  /\ sel' = [sel EXCEPT ![i] = d]
  /\ locked' = [locked EXCEPT ![d] = @ \cup {i + 1}]

PinBuffer(d, i) ==
  /\ ahvmlock' = [ahvmlock EXCEPT ![i] = d]
  /\ sel' = [sel EXCEPT ![i] = d]
  /\ locked' = [locked EXCEPT ![d] = @ \cup {i}]

\* daemonStarted(): lock and map the request buffer, block on the data buffer.
LockRequestBuffer(d) ==
  /\ DaemonAt(d, "lock0")
  /\ PinBuffer(d, 0)
  /\ DaemonGoto(d, "lock1")
  /\ UNCHANGED <<pidDaemon, sems, buffers, threads, fQuit, dreq, reset>>

BugAttachKeepsRequest(d) ==
  /\ DaemonAt(d, "lock1")
  /\ PinBuffer(d, 1)
  /\ pidDaemon' = d
  /\ semSerialize' = FALSE
  /\ DaemonGoto(d, "up")
  /\ UNCHANGED <<semRqAvail, semRqDone, buffers, threads, fQuit, dreq, reset>>

\* daemonStarted(): lock and map the data buffer, and attach the daemon.  It
\* clears semSerialize whoever has it.
LockDataBuffer(d) ==
  /\ DaemonAt(d, "lock1")
  /\ PinBuffer(d, 1)
  /\ pidDaemon' = d
  /\ semRqAvail' = TRUE
  /\ semSerialize' = FALSE
  /\ DaemonGoto(d, "up")
  /\ UNCHANGED <<semRqDone, buffers, threads, fQuit, dreq, reset>>

\* ERROR_STUBFSD_INIT_FAILED, when locking a buffer fails or when mapping it does
\* after it has been locked: what was locked stays locked.
LockFails(d) ==
  /\ "initfail" \in Faults
  /\ \E i \in Bufs :
       /\ DaemonAt(d, IF i = 0 THEN "lock0" ELSE "lock1")
       /\ \/ UNCHANGED <<ahvmlock, locked>>
          \/ /\ ahvmlock' = [ahvmlock EXCEPT ![i] = d]
             /\ locked' = [locked EXCEPT ![d] = @ \cup {i}]
  /\ DaemonGoto(d, "free")
  /\ UNCHANGED <<sems, pidDaemon, sel, buffers, threads, fQuit, dreq, reset>>

\* The rest of initDaemon(): its error path detaches the daemon again.
Initialized(d) ==
  /\ DaemonAt(d, "up")
  /\ \/ DaemonGoto(d, "run")
     \/ "initfail" \in Faults /\ DaemonGoto(d, "quit")
  /\ UNCHANGED <<sems, driver, buffers, threads, fQuit, dreq, reset>>

\* The head of the loop of runDaemon(), and FSCTL_STUBFSD_GET_REQUEST up to its
\* FSH_SEMWAIT.
GetRequest(d) ==
  /\ DaemonAt(d, "run")
  /\ DaemonGoto(d, IF ~fQuit[d] /\ pidDaemon = d THEN "getwait" ELSE "quit")
  /\ UNCHANGED <<sems, driver, buffers, threads, fQuit, dreq, reset>>

BugTakeAndKeep(d) ==
  /\ DaemonAt(d, "getwait") /\ ~semRqAvail
  /\ DaemonGoto(d, "work")
  /\ UNCHANGED <<sems, driver, buffers, threads, fQuit, dreq, reset>>

\* The rest of FSCTL_STUBFSD_GET_REQUEST, and the return to ring 3.
TakeRequest(d) ==
  /\ DaemonAt(d, "getwait") /\ ~semRqAvail
  /\ semRqAvail' = TRUE
  /\ DaemonGoto(d, "work")
  /\ UNCHANGED <<semSerialize, semRqDone, driver, buffers, threads, fQuit, dreq, reset>>

\* handleRequest() up to its switch on pRequest->rq.
BeginRequest(d) ==
  /\ DaemonAt(d, "work")
  /\ dreq' = [dreq EXCEPT ![d] = rq[d]]
  /\ DaemonGoto(d, "busy")
  /\ UNCHANGED <<sems, driver, buffers, threads, fQuit, reset>>

\* The rest of handleRequest() answers the request; an FSCTL may have been the
\* one that sets fQuit.  A failing DosRequestMutexSem answers it with its error.
FinishRequest(d) ==
  /\ DaemonAt(d, "busy")
  /\ rc' = [rc EXCEPT ![d] = dreq[d].who]
  /\ dreq' = [dreq EXCEPT ![d] = NoRequest]
  /\ \/ UNCHANGED fQuit
     \/ dreq[d].op = FS_FSCTL /\ fQuit' = [fQuit EXCEPT ![d] = TRUE]
  /\ DaemonGoto(d, "done")
  /\ UNCHANGED <<sems, driver, rq, threads, reset>>

\* FSCTL_STUBFSD_DONE_REQUEST: refused when d is not, or no longer, the daemon.
DoneRequest(d) ==
  /\ DaemonAt(d, "done")
  /\ \/ /\ pidDaemon = d
        /\ semRqDone' = FALSE
        /\ DaemonGoto(d, "run")
     \/ /\ pidDaemon # d
        /\ DaemonGoto(d, "quit")
        /\ UNCHANGED semRqDone
  /\ UNCHANGED <<semSerialize, semRqAvail, driver, buffers, threads, fQuit, dreq, reset>>

BugDaemonEnters(d) ==
  /\ DaemonAt(d, "busy") /\ pidDaemon = d
  /\ DaemonGoto(d, "request")
  /\ UNCHANGED <<sems, driver, buffers, threads, fQuit, dreq, reset>>

\* The daemon uses a path on a drive of its own while it handles a request:
\* requestExchangeXS() refuses it, rather than let it wait for itself.
DaemonEnters(d) == DaemonAt(d, "busy") /\ pidDaemon = d /\ UNCHANGED vars

\* A signal ends the FSH_SEMWAIT of FSCTL_STUBFSD_GET_REQUEST; runDaemon() returns.
GetInterrupted(d) ==
  /\ "signal" \in Faults
  /\ DaemonAt(d, "getwait")
  /\ DaemonGoto(d, "quit")
  /\ UNCHANGED <<sems, driver, buffers, threads, fQuit, dreq, reset>>

-----------------------------------------------------------------------------
(* daemonStopped() *)

BugDetachQuietly == pidDaemon' = NoPid /\ UNCHANGED semRqDone

BugDetachKeepsPid == semRqDone' = FALSE /\ UNCHANGED pidDaemon

\* daemonStopped() up to its FSH_SEMREQUEST: wake the thread that waits.
Detach == pidDaemon' = NoPid /\ semRqDone' = FALSE

BugUnlockAtOnce == locked' = [d \in Daemons |-> locked[d] \ {i \in Bufs : ahvmlock[i] = d}]

BugUnlockFirst ==
  /\ ~semSerialize
  /\ locked' = [d \in Daemons |-> locked[d] \ {i \in {0} : ahvmlock[i] = d}]

\* The rest of daemonStopped(): it has semSerialize for an instant only.
UnlockBuffers ==
  /\ ~semSerialize
  /\ locked' = [d \in Daemons |-> locked[d] \ {i \in Bufs : ahvmlock[i] = d}]

\* doneDaemon() and FSCTL_STUBFSD_DAEMON_STOPPED.
Stop(d) ==
  /\ DaemonAt(d, "quit")
  /\ \/ /\ pidDaemon = d
        /\ Detach
        /\ DaemonGoto(d, "stopwait")
     \/ /\ pidDaemon # d
        /\ DaemonGoto(d, "free")
        /\ UNCHANGED <<pidDaemon, semRqDone>>
  /\ UNCHANGED <<semSerialize, semRqAvail, ahvmlock, sel, locked, buffers, threads,
                 fQuit, dreq, reset>>

Unlock(d) ==
  /\ DaemonAt(d, "stopwait")
  /\ UnlockBuffers
  /\ DaemonGoto(d, "free")
  /\ UNCHANGED <<pidDaemon, sems, ahvmlock, sel, buffers, threads, fQuit, dreq, reset>>

\* A signal ends the FSH_SEMREQUEST of daemonStopped(): the buffers stay locked.
StopInterrupted(d) ==
  /\ "stopsignal" \in Faults
  /\ DaemonAt(d, "stopwait")
  /\ DaemonGoto(d, "free")
  /\ UNCHANGED <<sems, driver, buffers, threads, fQuit, dreq, reset>>

\* freeExchangeBuffers() and the end of main().
Exit(d) ==
  /\ DaemonAt(d, "free")
  /\ DaemonGoto(d, "dead")
  /\ UNCHANGED <<sems, driver, buffers, threads, fQuit, dreq, reset>>

\* The process dies, and the kernel calls FS_EXIT with its pid.
Kill(d) ==
  /\ "kill" \in Faults /\ CanRun(NoPid)
  /\ dpc[d] \in {"up", "run", "getwait", "work", "busy", "done", "quit", "free"}
  /\ \/ /\ pidDaemon = d
        /\ Detach
        /\ DaemonGoto(d, "stopwait")
     \/ /\ pidDaemon # d
        /\ DaemonGoto(d, "dead")
        /\ UNCHANGED <<pidDaemon, semRqDone>>
  /\ UNCHANGED <<semSerialize, semRqAvail, ahvmlock, sel, locked, buffers, threads,
                 fQuit, dreq, reset>>

\* FSCTL_STUBFSD_RESET, by any process and whether or not a daemon is attached.
Reset ==
  /\ "reset" \in Faults /\ CanRun(NoPid) /\ reset = "idle"
  /\ Detach
  /\ reset' = "stopwait"
  /\ UNCHANGED <<semSerialize, semRqAvail, ahvmlock, sel, locked, buffers, threads, daemons>>

ResetUnlock ==
  /\ reset = "stopwait" /\ CanRun(NoPid)
  /\ UnlockBuffers
  /\ reset' = "idle"
  /\ UNCHANGED <<pidDaemon, sems, ahvmlock, sel, buffers, threads, daemons>>

DaemonRuns(d) ==
  \/ LockRequestBuffer(d) \/ LockDataBuffer(d) \/ Initialized(d) \/ GetRequest(d)
  \/ TakeRequest(d) \/ BeginRequest(d) \/ FinishRequest(d) \/ DoneRequest(d)
  \/ Stop(d) \/ Unlock(d) \/ Exit(d)

-----------------------------------------------------------------------------
Next ==
  \/ \E c \in Clients : \/ \E o \in Ops : Enter(c, o)
                        \/ ClientRuns(c)
                        \/ Interrupted(c)
  \/ \E d \in Daemons : \/ Start(d) \/ LockFails(d) \/ GetInterrupted(d)
                        \/ StopInterrupted(d) \/ Kill(d)
                        \/ DaemonRuns(d) \/ DaemonEnters(d)
  \/ Reset \/ ResetUnlock

Spec == Init /\ [][Next]_vars

\* The kernel runs every thread that is ready.  Nothing is assumed of the order
\* in which FSH_SEMREQUEST serves the threads, nor that a caller ever calls, a
\* daemon is ever started, or anything fails.
ClientFair(c) == WF_vars(ClientRuns(c))
DaemonFair(d) == WF_vars(DaemonRuns(d))
ResetFair     == WF_vars(ResetUnlock)

Fairness ==
  /\ \A c \in Clients : ClientFair(c)
  /\ \A d \in Daemons : DaemonFair(d)
  /\ ResetFair

FairSpec == Spec /\ Fairness

-----------------------------------------------------------------------------
(* Properties *)

TypeOK ==
  /\ pidDaemon \in Daemons \cup {NoPid}
  /\ semSerialize \in BOOLEAN /\ semRqAvail \in BOOLEAN /\ semRqDone \in BOOLEAN
  /\ ahvmlock \in [Bufs -> Daemons \cup {NoPid}]
  /\ sel \in [Bufs -> Daemons \cup {NoPid}]
  /\ locked \in [Daemons -> SUBSET Bufs]
  /\ rq \in [Daemons -> Requests] /\ rc \in [Daemons -> Clients \cup {NoPid}]
  /\ pc \in [Clients -> {"idle", "request", "marshal", "wait", "copyout", "undowait"}]
  /\ op \in [Clients -> AllOps \cup {NoOp}]
  /\ ret \in [Clients -> {"none", "answer", "error", "skipped"}]
  /\ dpc \in [Daemons -> {"off", "lock0", "lock1", "up", "run", "getwait", "work", "busy",
                         "done", "quit", "stopwait", "free", "dead"}]
  /\ fQuit \in [Daemons -> BOOLEAN]
  /\ dreq \in [Daemons -> Requests]
  /\ reset \in {"idle", "stopwait"}

\* A thread is inside from the moment requestExchangeXS() has succeeded until
\* the call returns: it takes the exchange buffers and semRqDone for its own.
Inside(c) == pc[c] \in {"marshal", "wait", "copyout", "undowait"}

\* It waits for the daemon to complete its request.
Waits(c) == pc[c] \in {"wait", "undowait"}

\* "This mutex semaphore serializes access to the exchange buffers": no two
\* threads are inside, whatever becomes of the daemon meanwhile.
ExchangeExclusive == \A c, e \in Clients : Inside(c) /\ Inside(e) => c = e

\* The semaphore is set only while some thread is inside: no call has returned
\* with it, which would shut the file system and daemonStopped() for good.
NoOrphanLock == semSerialize => \E c \in Clients : Inside(c)

\* The driver never takes a process for the daemon that has begun to stop, or has
\* died, in whatever order daemons start, stop, die and are reset.
AttachedDaemonRuns ==
  pidDaemon # NoPid =>
    dpc[pidDaemon] \in {"up", "run", "getwait", "work", "busy", "done", "quit"}

\* What a thread finds in the buffers when it copies results out is the answer
\* to its own request, not to an earlier one or to that of another thread.
OwnAnswer == \A c \in Clients : pc[c] = "copyout" => rc[sel[0]] = c

\* daemonStopped() waits for the semaphore lest a thread touch a buffer that is
\* unlocked: the buffers the driver maps stay locked while a thread copies to or
\* from them, and as long as their daemon is attached.
BuffersPinned ==
  /\ \A c \in Clients : pc[c] \in {"marshal", "copyout"} =>
       \A i \in Bufs : sel[i] # NoPid /\ i \in locked[sel[i]]
  /\ pidDaemon # NoPid => \A i \in Bufs : sel[i] = pidDaemon /\ i \in locked[pidDaemon]

\* No daemon process frees its buffers, or ends, with a buffer still locked.
StopReleases == \A d \in Daemons : dpc[d] \in {"free", "dead"} => locked[d] = {}

\* The daemon executes a request at most once, and only while the thread that
\* sent it waits for it: never one left over from a thread that has gone or from
\* the time of an earlier daemon.
ExecutesOnce ==
  [][\A d \in Daemons : dpc[d] = "busy" /\ dpc'[d] = "done" =>
       \E c \in Clients : /\ dreq[d].who = c
                         /\ pc[c] \in {"wait", "undowait"}
                         /\ \A e \in Daemons : rc[e] # c]_vars

\* A request that is available is taken, unless the daemon is detached.
RequestTaken == ~semRqAvail ~> semRqAvail \/ pidDaemon = NoPid

\* signalDaemonAndWait() returns: a thread that waits for the daemon does not wait
\* for ever.
WaitEnds == \A c \in Clients : Waits(c) ~> ~Waits(c)

\* "Thus, all blocked threads will unblock and return": when the daemon has gone,
\* every call that was under way returns, unless another daemon is attached first.
BlockedThreadsReturn ==
  \A c \in Clients : pidDaemon = NoPid /\ pc[c] # "idle" ~> pidDaemon # NoPid \/ pc[c] = "idle"

\* daemonStopped() returns: it gets exclusive access to the exchange buffers.
StopCompletes == \A d \in Daemons : dpc[d] = "stopwait" ~> dpc[d] # "stopwait"

\* "Unblock all threads that are blocked in the FSD": a daemon that has been detached
\* does not stay blocked in FSCTL_STUBFSD_GET_REQUEST, where it would take a request
\* that is meant for its successor.
DetachedDaemonReturns ==
  \A d \in Daemons : dpc[d] = "getwait" /\ pidDaemon # d ~> dpc[d] # "getwait"

\* What the callers and the system must keep from for the exchange buffers to be
\* exclusive: the run Unlocked shows what a bad argument does otherwise.
KeepsExclusive ==
  /\ {"overlap", "stopsignal"} \cap Faults = {}
  /\ "badarg" \in Faults => \A o \in Ops : "unlock" \notin o.in

Starting(d) == dpc[d] \in {"lock0", "lock1"}

\* Why the exchange buffers are exclusive then.  daemonStarted() clears semSerialize
\* whoever has it, so nobody may be inside while a daemon starts: a daemon starts
\* only when none stops, and one stops as long as anybody is inside without one.
ExclusionInv ==
  /\ \A c \in Clients : op[c] \in Ops \cup {NoOp, FS_FINDCLOSE}
  /\ ExchangeExclusive
  /\ \A c \in Clients : Inside(c) =>
       /\ semSerialize
       /\ pidDaemon # NoPid \/ reset = "stopwait" \/ \E d \in Daemons : dpc[d] = "stopwait"
  /\ \A d \in Daemons : Starting(d) =>
       /\ pidDaemon = NoPid
       /\ \A c \in Clients : ~Inside(c)
       /\ \A e \in Daemons : Starting(e) => e = d

\* Whoever waits in signalDaemonAndWait() for its answer is still waited for: a daemon
\* is attached, and its request is either still to be taken by GET_REQUEST or in the
\* hands of that very daemon.  So neither daemonStopped(), nor a reset, nor a thread
\* that was interrupted leaves a thread behind that nobody will wake.
NobodyWaitsInVain ==
  \A c \in Clients : Waits(c) /\ semRqDone =>
    /\ pidDaemon # NoPid
    /\ ~semRqAvail \/ dpc[pidDaemon] \in {"work", "busy", "done"}

-----------------------------------------------------------------------------
(* What the driver promises its callers: see RemoteCall *)

\* Where the call of c is, for RemoteCall: the daemon has performed it once the
\* answer in a buffer is its own, and before an undo.
callState ==
  [c \in Clients |->
     CASE pc[c] = "idle" -> "idle"
       [] pc[c] = "undowait" \/ (pc[c] # "idle" /\ \E d \in Daemons : rc[d] = c) -> "done"
       [] OTHER -> "called"]

Remote == INSTANCE RemoteCall WITH
            Callers <- Clients, up <- pidDaemon # NoPid, state <- callState, result <- ret,
            MayReject <- {"badarg", "badresult"} \cap Faults # {}

\* The driver and the daemon implement RemoteCall.
ImplementsRemoteCall == Remote!Spec

=============================================================================

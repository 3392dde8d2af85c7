--------------------------- MODULE StubFsd_proofs ---------------------------
(* Proofs about StubFsd, for any threads, daemons, entry points and faults. *)
EXTENDS StubFsd, TLAPS

-----------------------------------------------------------------------------
(* Type correctness *)

\* Every definition that says what a step leaves alone.
USE DEF sems, driver, buffers, threads, daemons, vars

\* The entries of an instance are entries, and their requests are requests.
LEMMA OpsAreEntries ==
  /\ Ops \subseteq AllOps
  /\ FS_FINDCLOSE \in AllOps
  /\ \A c, o : Request(c, o) = [who |-> c, op |-> o]
  /\ NoRequest \in Requests
BY OpsAssumption DEF AllOps, Request, NoRequest, Requests

\* Renaming a request of the past leaves a request.
LEMMA ForgetType ==
  ASSUME NEW c \in Clients,
         NEW f \in [Daemons -> Requests], NEW g \in [Daemons -> Clients \cup {NoPid}]
  PROVE  /\ Forget(f, c) \in [Daemons -> Requests]
         /\ ForgetAnswer(g, c) \in [Daemons -> Clients \cup {NoPid}]
BY DEF Forget, ForgetAnswer, Request, Requests

\* The types hold initially.
LEMMA InitType == Init => TypeOK
<1> SUFFICES ASSUME Init PROVE TypeOK
  OBVIOUS
<1>1. /\ ahvmlock \in [Bufs -> Daemons \cup {NoPid}]
      /\ sel \in [Bufs -> Daemons \cup {NoPid}]
      /\ locked \in [Daemons -> SUBSET Bufs]
  BY DEF Init
<1>2. /\ rq \in [Daemons -> Requests] /\ dreq \in [Daemons -> Requests]
      /\ rc \in [Daemons -> Clients \cup {NoPid}]
  BY OpsAreEntries DEF Init
<1>3. /\ pc \in [Clients -> {"idle", "request", "marshal", "wait", "copyout", "undowait"}]
      /\ op \in [Clients -> AllOps \cup {NoOp}]
      /\ ret \in [Clients -> {"none", "answer", "error", "skipped"}]
  BY DEF Init
<1>4. /\ dpc \in [Daemons -> {"off", "lock0", "lock1", "up", "run", "getwait", "work", "busy",
                            "done", "quit", "stopwait", "free", "dead"}]
      /\ fQuit \in [Daemons -> BOOLEAN]
  BY DEF Init
<1> QED
  BY <1>1, <1>2, <1>3, <1>4 DEF Init, TypeOK

\* Steps of a thread keep the types,
LEMMA ClientStepType ==
  ASSUME TypeOK, NEW c \in Clients,
         (\E o \in Ops : Enter(c, o)) \/ ClientRuns(c) \/ Interrupted(c)
  PROVE  TypeOK'
<1> USE OpsAreEntries DEF TypeOK, At, Goto, Return, releaseExchangeXS, Bufs
<1>1. CASE \E o \in Ops : Enter(c, o)
  BY <1>1, ForgetType DEF Enter
<1>2. CASE Acquire(c)
  BY <1>2 DEF Acquire
<1>3. CASE Submit(c)
  BY <1>3 DEF Submit, signalDaemon, Requests
<1>4. CASE RejectArguments(c)
  BY <1>4 DEF RejectArguments, BadArgument, Requests
<1>5. CASE LeakArguments(c)
  BY <1>5 DEF LeakArguments, BadArgument, Requests
<1>6. CASE IgnoreArguments(c)
  BY <1>6 DEF IgnoreArguments, BadArgument, signalDaemon, Requests
<1>7. CASE SubmitUnlocked(c)
  BY <1>7 DEF SubmitUnlocked, BadArgument, signalDaemon, Requests
<1>8. CASE Wake(c)
  BY <1>8 DEF Wake
<1>9. CASE CopyOut(c)
  BY <1>9 DEF CopyOut
<1>10. CASE undoFindFirst(c)
  <2>1. Request(c, FS_FINDCLOSE) \in Requests
    BY DEF Requests
  <2>2. /\ Forget(rq, c) \in [Daemons -> Requests]
        /\ Forget(dreq, c) \in [Daemons -> Requests]
        /\ ForgetAnswer(rc, c) \in [Daemons -> Clients \cup {NoPid}]
    BY ForgetType
  <2> QED
    BY <1>10, <2>1, <2>2 DEF undoFindFirst, signalDaemon
<1>11. CASE UndoWake(c)
  BY <1>11 DEF UndoWake
<1>12. CASE Interrupted(c)
  BY <1>12 DEF Interrupted
<1> QED
  BY <1>1, <1>2, <1>3, <1>4, <1>5, <1>6, <1>7, <1>8, <1>9, <1>10, <1>11, <1>12
     DEF ClientRuns

\* and those of a daemon.
LEMMA DaemonStepType ==
  ASSUME TypeOK, NEW d \in Daemons,
         \/ Start(d) \/ LockFails(d) \/ GetInterrupted(d) \/ StopInterrupted(d) \/ Kill(d)
         \/ DaemonRuns(d)
  PROVE  TypeOK'
<1> USE OpsAreEntries DEF TypeOK, DaemonAt, DaemonGoto, Detach, UnlockBuffers, Bufs
<1>1. CASE Start(d)
  BY <1>1 DEF Start
<1>2. CASE LockFails(d)
  BY <1>2 DEF LockFails
<1>3. CASE GetInterrupted(d) \/ StopInterrupted(d)
  BY <1>3 DEF GetInterrupted, StopInterrupted
<1>4. CASE Kill(d)
  BY <1>4 DEF Kill
<1>5. CASE LockRequestBuffer(d)
  BY <1>5 DEF LockRequestBuffer, PinBuffer
<1>6. CASE LockDataBuffer(d)
  BY <1>6 DEF LockDataBuffer, PinBuffer
<1>7. CASE Initialized(d) \/ GetRequest(d) \/ TakeRequest(d)
  BY <1>7 DEF Initialized, GetRequest, TakeRequest
<1>8. CASE BeginRequest(d)
  BY <1>8 DEF BeginRequest
<1>9. CASE FinishRequest(d)
  BY <1>9 DEF FinishRequest, Requests
<1>10. CASE DoneRequest(d)
  BY <1>10 DEF DoneRequest
<1>11. CASE Stop(d)
  BY <1>11 DEF Stop
<1>12. CASE Unlock(d)
  BY <1>12 DEF Unlock
<1>13. CASE Exit(d)
  BY <1>13 DEF Exit
<1> QED
  BY <1>1, <1>2, <1>3, <1>4, <1>5, <1>6, <1>7, <1>8, <1>9, <1>10, <1>11, <1>12, <1>13
     DEF DaemonRuns

\* The types are inductive.
LEMMA StepType == TypeOK /\ [Next]_vars => TypeOK'
<1> SUFFICES ASSUME TypeOK, [Next]_vars PROVE TypeOK'
  OBVIOUS
<1>1. CASE Reset
  BY <1>1 DEF TypeOK, Reset, Detach
<1>2. CASE ResetUnlock
  <2>1. locked' \in [Daemons -> SUBSET Bufs]
    BY <1>2 DEF TypeOK, ResetUnlock, UnlockBuffers
  <2> QED
    BY <1>2, <2>1 DEF TypeOK, ResetUnlock
<1>3. CASE UNCHANGED vars
  BY <1>3 DEF TypeOK
<1> QED
  BY <1>1, <1>2, <1>3, ClientStepType, DaemonStepType DEF Next, DaemonEnters

\* Every variable keeps its type.
THEOREM TypeCorrect == Spec => []TypeOK
BY InitType, StepType, PTL DEF Spec

-----------------------------------------------------------------------------
(* The attached daemon is one that runs *)

\* That the attached daemon runs is inductive, given the types.
LEMMA AttachedStep == TypeOK /\ AttachedDaemonRuns /\ [Next]_vars => AttachedDaemonRuns'
<1> SUFFICES ASSUME TypeOK, AttachedDaemonRuns, [Next]_vars PROVE AttachedDaemonRuns'
  OBVIOUS
<1> USE DEF TypeOK, AttachedDaemonRuns, DaemonAt, DaemonGoto, Detach
<1>1. ASSUME NEW c \in Clients,
             (\E o \in Ops : Enter(c, o)) \/ ClientRuns(c) \/ Interrupted(c)
      PROVE  UNCHANGED <<pidDaemon, dpc>>
  BY <1>1 DEF Enter, ClientRuns, Acquire, Submit, RejectArguments, LeakArguments,
              IgnoreArguments, SubmitUnlocked, BadArgument, Wake, CopyOut, undoFindFirst,
              UndoWake, Interrupted
<1>2. ASSUME NEW d \in Daemons, LockDataBuffer(d) PROVE AttachedDaemonRuns'
  BY <1>2, ProcessAssumption DEF LockDataBuffer
<1>3. ASSUME NEW d \in Daemons, Stop(d) \/ Kill(d) PROVE AttachedDaemonRuns'
  BY <1>3 DEF Stop, Kill
<1>4. ASSUME NEW d \in Daemons,
             \/ Start(d) \/ LockFails(d) \/ LockRequestBuffer(d)
             \/ Unlock(d) \/ StopInterrupted(d) \/ Exit(d)
      PROVE  AttachedDaemonRuns'
  BY <1>4 DEF Start, LockFails, LockRequestBuffer, Unlock, StopInterrupted, Exit
<1>5. ASSUME NEW d \in Daemons,
             \/ Initialized(d) \/ GetRequest(d) \/ GetInterrupted(d) \/ TakeRequest(d)
             \/ BeginRequest(d) \/ FinishRequest(d) \/ DoneRequest(d)
      PROVE  AttachedDaemonRuns'
  BY <1>5 DEF Initialized, GetRequest, GetInterrupted, TakeRequest, BeginRequest,
              FinishRequest, DoneRequest
<1>6. CASE Reset \/ ResetUnlock
  BY <1>6 DEF Reset, ResetUnlock
<1> QED
  BY <1>1, <1>2, <1>3, <1>4, <1>5, <1>6 DEF Next, DaemonEnters, DaemonRuns

\* In whatever order daemons start, stop, die and are reset, pidDaemon never names
\* a process that has begun to stop: nothing is assumed of the environment.
THEOREM AttachedDaemonAlwaysRuns == Spec => []AttachedDaemonRuns
<1>1. Init => AttachedDaemonRuns
  BY DEF Init, AttachedDaemonRuns
<1> QED
  BY <1>1, AttachedStep, TypeCorrect, PTL DEF Spec

-----------------------------------------------------------------------------
(* The exchange buffers are exclusive *)

\* The invariant holds initially.
LEMMA ExclusionInit == Init => ExclusionInv
BY DEF Init, ExclusionInv, ExchangeExclusive, Inside, Starting

\* A thread that does not pass from the outside to the inside, while the driver
\* and the daemons do nothing, disturbs nobody's exclusion.
LEMMA ExclusionLeave ==
  ASSUME TypeOK, ExclusionInv, NEW c \in Clients, NEW to,
         pc' = [pc EXCEPT ![c] = to],
         op'[c] \in Ops \cup {NoOp, FS_FINDCLOSE},
         \A e \in Clients \ {c} : op'[e] = op[e],
         Inside(c)' => Inside(c) /\ semSerialize',
         semSerialize' # semSerialize => Inside(c),
         UNCHANGED <<pidDaemon, dpc, reset>>
  PROVE  ExclusionInv'
<1>1. \A e \in Clients \ {c} : Inside(e)' = Inside(e)
  BY DEF TypeOK, Inside
<1>2. \A e \in Clients : Inside(e)' => Inside(e)
  BY <1>1
<1>3. \A e \in Clients : Inside(e)' => semSerialize'
  BY <1>1 DEF ExclusionInv, ExchangeExclusive
<1>4. \A e \in Clients : op'[e] \in Ops \cup {NoOp, FS_FINDCLOSE}
  BY DEF ExclusionInv
<1> QED
  BY <1>2, <1>3, <1>4 DEF ExclusionInv, ExchangeExclusive, Starting

\* Steps of a thread keep it,
LEMMA ExclusionClient ==
  ASSUME KeepsExclusive, TypeOK, ExclusionInv, NEW c \in Clients,
         (\E o \in Ops : Enter(c, o)) \/ ClientRuns(c) \/ Interrupted(c)
  PROVE  ExclusionInv'
<1> USE DEF TypeOK, At, Goto, Return, releaseExchangeXS, Inside
<1>0. op[c] \in Ops \cup {NoOp, FS_FINDCLOSE} /\ (Inside(c) => semSerialize)
  BY DEF ExclusionInv
<1>1. CASE \E o \in Ops : Enter(c, o)
  BY <1>0, <1>1, ExclusionLeave DEF Enter
<1>2. CASE Acquire(c)
  <2>1. CASE pidDaemon = NoPid
    BY <1>0, <1>2, <2>1, ExclusionLeave DEF Acquire
  <2>2. CASE pidDaemon # NoPid
    <3>1. /\ semSerialize' /\ pidDaemon' # NoPid
          /\ UNCHANGED <<pidDaemon, op, dpc, reset>>
          /\ pc' = [pc EXCEPT ![c] = "marshal"]
      BY <1>2, <2>2 DEF Acquire
    <3>2. \A e \in Clients : ~Inside(e)
      BY <1>2 DEF Acquire, ExclusionInv
    <3>3. \A e \in Clients : Inside(e)' => e = c
      BY <3>1, <3>2
    <3>4. \A d \in Daemons : ~Starting(d)'
      BY <2>2, <3>1 DEF ExclusionInv, Starting
    <3>5. \A e \in Clients : op'[e] \in Ops \cup {NoOp, FS_FINDCLOSE}
      BY <3>1 DEF ExclusionInv
    <3>6. ExchangeExclusive'
      BY <3>3 DEF ExchangeExclusive
    <3> HIDE DEF Inside, TypeOK
    <3> QED
      BY <3>1, <3>3, <3>4, <3>5, <3>6 DEF ExclusionInv
  <2> QED
    BY <2>1, <2>2
<1>3. CASE Submit(c)
  BY <1>0, <1>3, ExclusionLeave DEF Submit, signalDaemon
<1>4. CASE RejectArguments(c)
  BY <1>0, <1>4, ExclusionLeave DEF RejectArguments, BadArgument
<1>5. CASE LeakArguments(c)
  BY <1>0, <1>5, ExclusionLeave DEF LeakArguments, BadArgument
<1>6. CASE IgnoreArguments(c)
  BY <1>0, <1>6, ExclusionLeave DEF IgnoreArguments, BadArgument, signalDaemon
<1>7. ~SubmitUnlocked(c)
  BY <1>0 DEF SubmitUnlocked, BadArgument, KeepsExclusive, NoOp, FS_FINDCLOSE, Entry
<1>8. CASE Wake(c)
  <2>1. CASE pidDaemon = NoPid
    <3>1. /\ pc' = [pc EXCEPT ![c] = "idle"] /\ op'[c] = NoOp
          /\ \A e \in Clients \ {c} : op'[e] = op[e]
          /\ UNCHANGED <<pidDaemon, dpc, reset>>
      BY <1>8, <2>1 DEF Wake
    <3>2. Inside(c) /\ ~Inside(c)'
      BY <1>8, <3>1 DEF Wake
    <3> QED
      BY <3>1, <3>2, ExclusionLeave
  <2>2. CASE pidDaemon # NoPid
    BY <1>0, <1>8, <2>2, ExclusionLeave DEF Wake
  <2> QED
    BY <2>1, <2>2
<1>9. CASE CopyOut(c)
  <2>1. /\ pc' = [pc EXCEPT ![c] = "idle"] /\ op' = [op EXCEPT ![c] = NoOp]
        /\ ~Inside(c)' /\ Inside(c)
        /\ UNCHANGED <<pidDaemon, dpc, reset>>
    BY <1>9 DEF CopyOut
  <2> QED
    BY <2>1, ExclusionLeave
<1>10. CASE undoFindFirst(c)
  BY <1>0, <1>10, ExclusionLeave DEF undoFindFirst, signalDaemon
<1>11. CASE UndoWake(c)
  BY <1>0, <1>11, ExclusionLeave DEF UndoWake
<1>12. CASE Interrupted(c)
  BY <1>0, <1>12, ExclusionLeave DEF Interrupted
<1> QED
  BY <1>1, <1>2, <1>3, <1>4, <1>5, <1>6, <1>7, <1>8, <1>9, <1>10, <1>11, <1>12
     DEF ClientRuns

\* A step of a daemon that leaves semSerialize alone and neither attaches it nor
\* ends a stop or a start disturbs nobody's exclusion.
LEMMA ExclusionQuiet ==
  ASSUME TypeOK, ExclusionInv, NEW d \in Daemons, NEW to,
         dpc' = [dpc EXCEPT ![d] = to],
         to \notin {"lock0", "lock1"} \/ Starting(d),
         pidDaemon' = pidDaemon \/ (pidDaemon' = NoPid /\ to = "stopwait"),
         dpc[d] = "stopwait" => \A c \in Clients : ~Inside(c),
         UNCHANGED <<semSerialize, pc, op, reset>>
  PROVE  ExclusionInv'
<1>1. \A c \in Clients : Inside(c)' = Inside(c)
  BY DEF Inside
<1>2. \A e \in Daemons : Starting(e)' => Starting(e)
  BY DEF TypeOK, Starting
<1>3. ASSUME NEW c \in Clients, Inside(c)
      PROVE  \/ pidDaemon' # NoPid \/ reset' = "stopwait"
             \/ \E e \in Daemons : dpc'[e] = "stopwait"
  BY <1>3 DEF ExclusionInv, TypeOK
<1> QED
  BY <1>1, <1>2, <1>3 DEF ExclusionInv, ExchangeExclusive

\* and those of a daemon,
LEMMA ExclusionDaemon ==
  ASSUME KeepsExclusive, TypeOK, ExclusionInv, NEW d \in Daemons,
         \/ Start(d) \/ LockFails(d) \/ GetInterrupted(d) \/ StopInterrupted(d) \/ Kill(d)
         \/ DaemonRuns(d)
  PROVE  ExclusionInv'
<1> USE DEF DaemonAt, DaemonGoto
<1>1. CASE Start(d)
  <2>1. CASE pidDaemon = NoPid
    <3>1. /\ reset = "idle" /\ \A e \in Daemons : dpc[e] \in {"off", "dead"}
          /\ dpc' = [dpc EXCEPT ![d] = "lock0"]
          /\ UNCHANGED <<pidDaemon, semSerialize, pc, op, reset>>
      BY <1>1, <2>1 DEF Start, KeepsExclusive, StoppedOrOff
    <3>2. \A c \in Clients : ~Inside(c)
      BY <2>1, <3>1 DEF ExclusionInv
    <3>3. \A c \in Clients : ~Inside(c)'
      BY <3>1, <3>2 DEF Inside
    <3>4. \A e \in Daemons : Starting(e)' => e = d
      BY <3>1 DEF TypeOK, Starting
    <3> QED
      BY <2>1, <3>1, <3>3, <3>4 DEF ExclusionInv, ExchangeExclusive
  <2>2. CASE pidDaemon # NoPid
    BY <1>1, <2>2, ExclusionQuiet DEF Start
  <2> QED
    BY <2>1, <2>2
<1>2. CASE LockFails(d)
  BY <1>2, ExclusionQuiet DEF LockFails, Bufs
<1>3. CASE GetInterrupted(d)
  BY <1>3, ExclusionQuiet DEF GetInterrupted
<1>4. ~StopInterrupted(d)
  BY DEF StopInterrupted, KeepsExclusive
<1>5. CASE Kill(d)
  BY <1>5, ExclusionQuiet DEF Kill, Detach
<1>6. CASE LockRequestBuffer(d)
  BY <1>6, ExclusionQuiet DEF LockRequestBuffer, Starting
<1>7. CASE LockDataBuffer(d)
  <2>1. /\ Starting(d) /\ pidDaemon' = d
        /\ dpc' = [dpc EXCEPT ![d] = "up"]
        /\ UNCHANGED <<pc, op, reset>>
    BY <1>7 DEF LockDataBuffer, Starting
  <2>2. \A c \in Clients : ~Inside(c)'
    BY <2>1 DEF ExclusionInv, Inside
  <2>3. \A e \in Daemons : ~Starting(e)'
    BY <2>1 DEF ExclusionInv, TypeOK, Starting
  <2> QED
    BY <2>1, <2>2, <2>3 DEF ExclusionInv, ExchangeExclusive
<1>8. CASE Initialized(d) \/ GetRequest(d) \/ TakeRequest(d)
  BY <1>8, ExclusionQuiet DEF Initialized, GetRequest, TakeRequest
<1>9. CASE BeginRequest(d) \/ FinishRequest(d) \/ DoneRequest(d)
  BY <1>9, ExclusionQuiet DEF BeginRequest, FinishRequest, DoneRequest
<1>10. CASE Stop(d)
  BY <1>10, ExclusionQuiet DEF Stop, Detach
<1>11. CASE Unlock(d)
  <2>1. \A c \in Clients : ~Inside(c)
    BY <1>11 DEF Unlock, UnlockBuffers, ExclusionInv
  <2> QED
    BY <1>11, <2>1, ExclusionQuiet DEF Unlock
<1>12. CASE Exit(d)
  BY <1>12, ExclusionQuiet DEF Exit
<1> QED
  BY <1>1, <1>2, <1>3, <1>4, <1>5, <1>6, <1>7, <1>8, <1>9, <1>10, <1>11, <1>12
     DEF DaemonRuns

\* and the forced detach.
LEMMA ExclusionReset ==
  ASSUME TypeOK, ExclusionInv, Reset \/ ResetUnlock
  PROVE  ExclusionInv'
<1>1. UNCHANGED <<semSerialize, pc, op, dpc>> /\ \A c \in Clients : Inside(c)' = Inside(c)
  BY DEF Reset, ResetUnlock, Inside
<1>2. CASE Reset
  BY <1>1, <1>2 DEF Reset, Detach, ExclusionInv, ExchangeExclusive, Starting
<1>3. CASE ResetUnlock
  <2>1. \A c \in Clients : ~Inside(c)
    BY <1>3 DEF ResetUnlock, UnlockBuffers, ExclusionInv
  <2> QED
    BY <1>1, <1>3, <2>1 DEF ResetUnlock, ExclusionInv, ExchangeExclusive, Starting
<1> QED
  BY <1>2, <1>3

\* It is inductive, given the types.
LEMMA ExclusionStep ==
  ASSUME KeepsExclusive
  PROVE  TypeOK /\ ExclusionInv /\ [Next]_vars => ExclusionInv'
<1> SUFFICES ASSUME TypeOK, ExclusionInv, [Next]_vars PROVE ExclusionInv'
  OBVIOUS
<1>1. CASE UNCHANGED vars
  BY <1>1 DEF ExclusionInv, ExchangeExclusive, Inside, Starting
<1> QED
  BY <1>1, ExclusionClient, ExclusionDaemon, ExclusionReset DEF Next, DaemonEnters

\* Where daemons start one after the other and nobody hands FS_FILEINFO or
\* FS_PATHINFO a buffer that cannot be read, semSerialize does what it is for: no
\* two threads are inside the exchange at once, though daemons are killed and
\* reset, calls interrupted, and calls return without releasing it.
THEOREM ExchangeIsExclusive ==
  ASSUME KeepsExclusive
  PROVE  Spec => []ExchangeExclusive
<1>1. Init => ExclusionInv
  BY ExclusionInit
<1>2. TypeOK /\ ExclusionInv /\ [Next]_vars => ExclusionInv'
  BY ExclusionStep
<1>3. ExclusionInv => ExchangeExclusive
  BY DEF ExclusionInv
<1> QED
  BY <1>1, <1>2, <1>3, TypeCorrect, PTL DEF Spec

-----------------------------------------------------------------------------
(* What a step leaves alone *)

\* What threads do never changes which daemon is attached, nor what it has locked.
LEMMA ClientLeaves ==
  ASSUME NEW c \in Clients,
         (\E o \in Ops : Enter(c, o)) \/ ClientRuns(c) \/ Interrupted(c)
  PROVE  UNCHANGED <<driver, dpc, fQuit, reset>>
<1>1. CASE \E o \in Ops : Enter(c, o)
  BY <1>1 DEF Enter
<1>2. CASE Interrupted(c)
  BY <1>2 DEF Interrupted
<1>3. CASE ClientRuns(c)
  BY <1>3 DEF ClientRuns, Acquire, Submit, RejectArguments, LeakArguments, IgnoreArguments,
              SubmitUnlocked, BadArgument, Wake, CopyOut, undoFindFirst, UndoWake
<1> QED
  BY <1>1, <1>2, <1>3

\* A thread moves alone, and only Enter gives it something to call.
LEMMA ClientMoves ==
  ASSUME TypeOK, NEW c \in Clients,
         (\E o \in Ops : Enter(c, o)) \/ ClientRuns(c) \/ Interrupted(c)
  PROVE  /\ \A e \in Clients \ {c} : pc'[e] = pc[e] /\ op'[e] = op[e] /\ ret'[e] = ret[e]
         /\ op'[c] \in Ops \cup {NoOp, op[c]}
<1> USE DEF TypeOK, Goto, Return
<1>1. CASE \E o \in Ops : Enter(c, o)
  BY <1>1 DEF Enter
<1>2. CASE Interrupted(c)
  BY <1>2 DEF Interrupted
<1>3. CASE Acquire(c) \/ Submit(c) \/ RejectArguments(c) \/ LeakArguments(c)
  BY <1>3 DEF Acquire, Submit, RejectArguments, LeakArguments, signalDaemon
<1>4. CASE IgnoreArguments(c) \/ SubmitUnlocked(c) \/ Wake(c) \/ CopyOut(c)
  BY <1>4 DEF IgnoreArguments, SubmitUnlocked, Wake, CopyOut, signalDaemon
<1>5. CASE undoFindFirst(c) \/ UndoWake(c)
  BY <1>5 DEF undoFindFirst, UndoWake, signalDaemon
<1> QED
  BY <1>1, <1>2, <1>3, <1>4, <1>5 DEF ClientRuns

\* Daemons leave the threads and the request buffers alone, never set semSerialize,
\* and move alone.
LEMMA DaemonLeaves ==
  ASSUME TypeOK, NEW d \in Daemons,
         \/ Start(d) \/ LockFails(d) \/ GetInterrupted(d) \/ StopInterrupted(d) \/ Kill(d)
         \/ DaemonRuns(d)
  PROVE  /\ UNCHANGED <<threads, rq, reset>>
         /\ semSerialize' => semSerialize
         /\ \A e \in Daemons \ {d} : dpc'[e] = dpc[e]
<1> USE DEF TypeOK, DaemonGoto
<1>1. CASE Start(d) \/ LockFails(d) \/ GetInterrupted(d) \/ StopInterrupted(d) \/ Kill(d)
  BY <1>1 DEF Start, LockFails, GetInterrupted, StopInterrupted, Kill, Detach
<1>2. CASE LockRequestBuffer(d) \/ LockDataBuffer(d) \/ Initialized(d) \/ GetRequest(d)
  BY <1>2 DEF LockRequestBuffer, LockDataBuffer, Initialized, GetRequest
<1>3. CASE TakeRequest(d) \/ BeginRequest(d) \/ FinishRequest(d) \/ DoneRequest(d)
  BY <1>3 DEF TakeRequest, BeginRequest, FinishRequest, DoneRequest
<1>4. CASE Stop(d) \/ Unlock(d) \/ Exit(d)
  BY <1>4 DEF Stop, Unlock, Exit, Detach
<1> QED
  BY <1>1, <1>2, <1>3, <1>4 DEF DaemonRuns

\* The forced detach leaves threads and daemons, what is mapped, and two of the semaphores.
LEMMA ResetLeaves ==
  ASSUME Reset \/ ResetUnlock
  PROVE  UNCHANGED <<threads, daemons, buffers, semSerialize, semRqAvail, sel, ahvmlock>>
BY DEF Reset, ResetUnlock, Detach

-----------------------------------------------------------------------------
(* Nobody returns with the exchange buffers *)

\* The environment in which no entry returns without releasing them.
KeepsLock == "badarg" \in Faults => \A o \in Ops : "leak" \notin o.in

OrphanInv == NoOrphanLock /\ \A c \in Clients : op[c] \in Ops \cup {NoOp}

\* A thread that was outside and stays outside does not take the semaphore away from
\* whoever is inside.
LEMMA OrphanOutside ==
  ASSUME NoOrphanLock, NEW c \in Clients, ~Inside(c), UNCHANGED semSerialize,
         \A e \in Clients \ {c} : pc'[e] = pc[e]
  PROVE  NoOrphanLock'
BY DEF NoOrphanLock, Inside

\* Steps of a thread leave no semaphore behind.
LEMMA OrphanClient ==
  ASSUME KeepsLock, TypeOK, OrphanInv, NEW c \in Clients,
         (\E o \in Ops : Enter(c, o)) \/ ClientRuns(c) \/ Interrupted(c)
  PROVE  NoOrphanLock'
<1> USE DEF TypeOK, At, Goto, Return, releaseExchangeXS, Inside
<1>0. NoOrphanLock /\ op[c] \in Ops \cup {NoOp} /\ \A e \in Clients \ {c} : pc'[e] = pc[e]
  BY ClientMoves DEF OrphanInv
<1>1. ASSUME Inside(c)' \/ ~semSerialize' PROVE NoOrphanLock'
  BY <1>1 DEF NoOrphanLock
<1>2. CASE \E o \in Ops : Enter(c, o)
  BY <1>0, <1>2, OrphanOutside DEF Enter
<1>3. CASE Acquire(c)
  BY <1>0, <1>1, <1>3, OrphanOutside DEF Acquire
<1>4. CASE Submit(c) \/ IgnoreArguments(c) \/ undoFindFirst(c)
  BY <1>1, <1>4 DEF Submit, IgnoreArguments, BadArgument, undoFindFirst, signalDaemon
<1>5. CASE RejectArguments(c) \/ SubmitUnlocked(c) \/ CopyOut(c) \/ UndoWake(c)
  BY <1>1, <1>5 DEF RejectArguments, SubmitUnlocked, CopyOut, UndoWake
<1>6. ~LeakArguments(c)
  BY <1>0 DEF LeakArguments, BadArgument, KeepsLock, NoOp, Entry
<1>7. CASE Wake(c)
  BY <1>1, <1>7 DEF Wake
<1>8. CASE Interrupted(c)
  BY <1>0, <1>1, <1>8, OrphanOutside DEF Interrupted
<1> QED
  BY <1>2, <1>3, <1>4, <1>5, <1>6, <1>7, <1>8 DEF ClientRuns

\* The invariant is inductive, given the types.
LEMMA OrphanStep ==
  ASSUME KeepsLock
  PROVE  TypeOK /\ OrphanInv /\ [Next]_vars => OrphanInv'
<1> SUFFICES ASSUME TypeOK, OrphanInv, [Next]_vars PROVE OrphanInv'
  OBVIOUS
<1>1. ASSUME NEW c \in Clients,
             (\E o \in Ops : Enter(c, o)) \/ ClientRuns(c) \/ Interrupted(c)
      PROVE  OrphanInv'
  <2>1. \A e \in Clients : op'[e] \in Ops \cup {NoOp}
    BY <1>1, ClientMoves DEF OrphanInv
  <2> QED
    BY <1>1, <2>1, OrphanClient DEF OrphanInv
<1>2. ASSUME UNCHANGED <<pc, op>>, semSerialize' => semSerialize PROVE OrphanInv'
  BY <1>2 DEF OrphanInv, NoOrphanLock, Inside
<1>3. ASSUME NEW d \in Daemons,
             \/ Start(d) \/ LockFails(d) \/ GetInterrupted(d) \/ StopInterrupted(d) \/ Kill(d)
             \/ DaemonRuns(d)
      PROVE  OrphanInv'
  BY <1>2, <1>3, DaemonLeaves
<1> QED
  BY <1>1, <1>2, <1>3, ResetLeaves DEF Next, DaemonEnters

\* Unless an entry with an error path that forgets them is called with such arguments,
\* no call returns with the exchange buffers, whatever becomes of threads and daemons:
\* even where they are not exclusive, semSerialize is set only while somebody is inside.
THEOREM LockIsNeverOrphaned ==
  ASSUME KeepsLock
  PROVE  Spec => []NoOrphanLock
<1>1. Init => OrphanInv
  BY DEF Init, OrphanInv, NoOrphanLock
<1>2. TypeOK /\ OrphanInv /\ [Next]_vars => OrphanInv'
  BY OrphanStep
<1>3. OrphanInv => NoOrphanLock
  BY DEF OrphanInv
<1> QED
  BY <1>1, <1>2, <1>3, TypeCorrect, PTL DEF Spec

-----------------------------------------------------------------------------
(* One daemon at a time *)

Active(d) == dpc[d] \notin {"off", "free", "dead"}

LoneDaemon == \A d, e \in Daemons : Active(d) /\ Active(e) => d = e

\* Where starts do not overlap, at most one daemon is between start and end.
LEMMA LoneStep ==
  ASSUME "overlap" \notin Faults
  PROVE  TypeOK /\ AttachedDaemonRuns /\ LoneDaemon /\ [Next]_vars => LoneDaemon'
<1> SUFFICES ASSUME TypeOK, AttachedDaemonRuns, LoneDaemon, [Next]_vars PROVE LoneDaemon'
  OBVIOUS
<1>1. ASSUME UNCHANGED dpc PROVE LoneDaemon'
  BY <1>1 DEF LoneDaemon, Active
<1>2. ASSUME NEW c \in Clients,
             (\E o \in Ops : Enter(c, o)) \/ ClientRuns(c) \/ Interrupted(c)
      PROVE  LoneDaemon'
  BY <1>1, <1>2, ClientLeaves
<1>3. ASSUME NEW d \in Daemons,
             \/ Start(d) \/ LockFails(d) \/ GetInterrupted(d) \/ StopInterrupted(d) \/ Kill(d)
             \/ DaemonRuns(d)
      PROVE  LoneDaemon'
  <2> USE DEF TypeOK, Active, DaemonAt, DaemonGoto
  <2>1. \A e \in Daemons \ {d} : dpc'[e] = dpc[e]
    BY <1>3, DaemonLeaves
  <2>2. ASSUME Active(d)' => Active(d) PROVE LoneDaemon'
    BY <2>1, <2>2 DEF LoneDaemon
  <2>3. CASE Start(d)
    BY <2>1, <2>2, <2>3 DEF Start, StoppedOrOff, LoneDaemon
  <2>4. CASE LockFails(d) \/ GetInterrupted(d) \/ StopInterrupted(d)
    BY <2>2, <2>4 DEF LockFails, GetInterrupted, StopInterrupted
  <2>5. CASE Kill(d)
    BY <2>2, <2>5, ProcessAssumption DEF Kill, AttachedDaemonRuns
  <2>6. CASE LockRequestBuffer(d) \/ LockDataBuffer(d) \/ Initialized(d) \/ GetRequest(d)
    BY <2>2, <2>6 DEF LockRequestBuffer, LockDataBuffer, Initialized, GetRequest
  <2>7. CASE TakeRequest(d) \/ BeginRequest(d) \/ FinishRequest(d) \/ DoneRequest(d)
    BY <2>2, <2>7 DEF TakeRequest, BeginRequest, FinishRequest, DoneRequest
  <2>8. CASE Stop(d) \/ Unlock(d) \/ Exit(d)
    BY <2>2, <2>8 DEF Stop, Unlock, Exit
  <2> QED
    BY <1>3, <2>3, <2>4, <2>5, <2>6, <2>7, <2>8 DEF DaemonRuns
<1> QED
  BY <1>1, <1>2, <1>3, ResetLeaves DEF Next, DaemonEnters

\* As long as daemons do not overlap, at most one process is anywhere between the
\* start of daemonStarted() and the end of daemonStopped().
LEMMA LoneAlways ==
  ASSUME "overlap" \notin Faults
  PROVE  Spec => []LoneDaemon
<1>1. Init => LoneDaemon
  BY DEF Init, LoneDaemon, Active
<1>2. TypeOK /\ AttachedDaemonRuns /\ LoneDaemon /\ [Next]_vars => LoneDaemon'
  BY LoneStep
<1> QED
  BY <1>1, <1>2, TypeCorrect, AttachedDaemonAlwaysRuns, PTL DEF Spec

-----------------------------------------------------------------------------
(* What a daemon locked is unlocked before it ends *)

\* Where daemonStarted() and daemonStopped() are neither interrupted nor fail, and
\* only the daemon's end detaches it.
KeepsLocks == {"overlap", "initfail", "stopsignal", "reset"} \cap Faults = {}

Running(d) == dpc[d] \in {"up", "run", "getwait", "work", "busy", "done", "quit"}

\* Only daemonStopped() detaches the daemon: one that runs is attached, and what it
\* locked is known by the lock handles, which nobody overwrites.
ReleasesInv ==
  /\ reset = "idle"
  /\ \A d \in Daemons : Running(d) => pidDaemon = d
  /\ \A d \in Daemons : ~Active(d) => locked[d] = {}
  /\ \A d \in Daemons : \A i \in locked[d] : ahvmlock[i] = d

\* Steps of a daemon keep locks with those who release them.
LEMMA ReleasesDaemon ==
  ASSUME KeepsLocks, TypeOK, AttachedDaemonRuns, LoneDaemon, ReleasesInv, NEW d \in Daemons,
         \/ Start(d) \/ LockFails(d) \/ GetInterrupted(d) \/ StopInterrupted(d) \/ Kill(d)
         \/ DaemonRuns(d)
  PROVE  ReleasesInv'
<1> USE DEF TypeOK, Active, Running, DaemonAt, DaemonGoto, Detach
<1>0. /\ \A e \in Daemons \ {d} : dpc'[e] = dpc[e]
      /\ UNCHANGED reset
  BY DaemonLeaves
<1>1. ASSUME UNCHANGED <<ahvmlock, locked>>,
             Running(d)' => pidDaemon' = d,
             \A e \in Daemons \ {d} : Running(e) => pidDaemon' = pidDaemon,
             ~Active(d)' => ~Active(d)
      PROVE  ReleasesInv'
  BY <1>0, <1>1 DEF ReleasesInv
<1>2. \A e \in Daemons \ {d} : Active(d) => ~Active(e) /\ locked[e] = {}
  BY DEF LoneDaemon, ReleasesInv
<1>3. Running(d) => pidDaemon = d
  BY DEF ReleasesInv
<1>4. CASE Start(d) \/ GetInterrupted(d)
  BY <1>1, <1>3, <1>4 DEF Start, GetInterrupted
<1>5. ~LockFails(d) /\ ~StopInterrupted(d)
  BY DEF KeepsLocks, LockFails, StopInterrupted
<1>6. CASE Kill(d)
  BY <1>1, <1>2, <1>3, <1>6, ProcessAssumption DEF Kill, AttachedDaemonRuns
<1>7. CASE LockRequestBuffer(d) \/ LockDataBuffer(d)
  <2>1. PICK i \in Bufs : PinBuffer(d, i)
    BY <1>7 DEF LockRequestBuffer, LockDataBuffer, Bufs
  <2>2. /\ Active(d) /\ Active(d)'
        /\ Running(d)' => pidDaemon' = d
    BY <1>7 DEF LockRequestBuffer, LockDataBuffer
  <2>3. \A e \in Daemons : \A j \in locked'[e] : ahvmlock'[j] = e
    BY <1>2, <2>1, <2>2 DEF PinBuffer, ReleasesInv, Bufs
  <2>4. \A e \in Daemons \ {d} : locked'[e] = {} /\ ~Running(e)'
    BY <1>0, <1>2, <2>1, <2>2 DEF PinBuffer
  <2> QED
    BY <1>0, <2>2, <2>3, <2>4 DEF ReleasesInv
<1>8. CASE Initialized(d) \/ GetRequest(d) \/ TakeRequest(d)
  BY <1>1, <1>3, <1>8 DEF Initialized, GetRequest, TakeRequest
<1>9. CASE BeginRequest(d) \/ FinishRequest(d) \/ DoneRequest(d)
  BY <1>1, <1>3, <1>9 DEF BeginRequest, FinishRequest, DoneRequest
<1>10. CASE Stop(d)
  BY <1>1, <1>2, <1>3, <1>10 DEF Stop
<1>11. CASE Unlock(d)
  <2>1. locked'[d] = {} /\ \A e \in Daemons : locked'[e] \subseteq locked[e]
    BY <1>11 DEF Unlock, UnlockBuffers, ReleasesInv
  <2>2. ~Running(d)' /\ UNCHANGED <<ahvmlock, pidDaemon>>
    BY <1>11 DEF Unlock
  <2> QED
    BY <1>0, <2>1, <2>2 DEF ReleasesInv
<1>12. CASE Exit(d)
  BY <1>1, <1>12 DEF Exit
<1> QED
  BY <1>4, <1>5, <1>6, <1>7, <1>8, <1>9, <1>10, <1>11, <1>12 DEF DaemonRuns

\* The invariant is inductive, given the earlier ones.
LEMMA ReleasesStep ==
  ASSUME KeepsLocks
  PROVE  TypeOK /\ AttachedDaemonRuns /\ LoneDaemon /\ ReleasesInv /\ [Next]_vars => ReleasesInv'
<1> SUFFICES ASSUME TypeOK, AttachedDaemonRuns, LoneDaemon, ReleasesInv, [Next]_vars
             PROVE  ReleasesInv'
  OBVIOUS
<1>1. ASSUME UNCHANGED <<driver, dpc, reset>> PROVE ReleasesInv'
  BY <1>1 DEF ReleasesInv, Active, Running
<1>2. ASSUME NEW c \in Clients,
             (\E o \in Ops : Enter(c, o)) \/ ClientRuns(c) \/ Interrupted(c)
      PROVE  ReleasesInv'
  BY <1>1, <1>2, ClientLeaves
<1>3. ~Reset /\ ~ResetUnlock
  BY DEF KeepsLocks, ReleasesInv, Reset, ResetUnlock
<1> QED
  BY <1>1, <1>2, <1>3, ReleasesDaemon DEF Next, DaemonEnters

\* Where daemonStarted() and daemonStopped() do not fail, are not interrupted, and do
\* not overlap, no daemon frees its buffers or ends while one of them is locked, though
\* it is killed at any point, or any of its threads' calls.
THEOREM StopAlwaysReleases ==
  ASSUME KeepsLocks
  PROVE  Spec => []StopReleases
<1>1. Init => ReleasesInv
  BY DEF Init, ReleasesInv, Running
<1>2. TypeOK /\ AttachedDaemonRuns /\ LoneDaemon /\ ReleasesInv /\ [Next]_vars => ReleasesInv'
  BY ReleasesStep
<1>3. ReleasesInv => StopReleases
  BY DEF ReleasesInv, StopReleases, Active
<1>4. Spec => []LoneDaemon
  BY LoneAlways DEF KeepsLocks
<1> QED
  BY <1>1, <1>2, <1>3, <1>4, TypeCorrect, AttachedDaemonAlwaysRuns, PTL DEF Spec

-----------------------------------------------------------------------------
(* The buffers stay locked while they are touched *)

\* While one daemon is active no other is attached.
LEMMA AttachedIsActive ==
  ASSUME TypeOK, AttachedDaemonRuns, LoneDaemon, NEW d \in Daemons, Active(d)
  PROVE  pidDaemon # NoPid => pidDaemon = d /\ Running(d)
BY DEF TypeOK, AttachedDaemonRuns, LoneDaemon, Active, Running

\* The pointers of the driver: they are those of the attached daemon, and still those
\* of the last one while a thread is inside.
MappedInv ==
  /\ \A c \in Clients : Inside(c) => \A i \in Bufs : sel[i] \in Daemons
  /\ pidDaemon # NoPid => \A i \in Bufs : sel[i] = pidDaemon
  /\ \A d \in Daemons : dpc[d] = "lock1" => sel[0] = d

\* Nobody gets inside but while a daemon is attached.
LEMMA ClientEnters ==
  ASSUME TypeOK, NEW c \in Clients,
         (\E o \in Ops : Enter(c, o)) \/ ClientRuns(c) \/ Interrupted(c)
  PROVE  \A e \in Clients : Inside(e)' => Inside(e) \/ pidDaemon # NoPid
<1> USE DEF TypeOK, At, Goto, Return, Inside
<1>0. \A e \in Clients \ {c} : pc'[e] = pc[e]
  BY ClientMoves
<1> SUFFICES Inside(c)' => Inside(c) \/ pidDaemon # NoPid
  BY <1>0
<1>1. CASE \E o \in Ops : Enter(c, o)
  BY <1>1 DEF Enter
<1>2. CASE Interrupted(c)
  BY <1>2 DEF Interrupted
<1>3. CASE Acquire(c)
  BY <1>3 DEF Acquire
<1>4. CASE Submit(c) \/ RejectArguments(c) \/ LeakArguments(c) \/ IgnoreArguments(c)
           \/ SubmitUnlocked(c)
  BY <1>4 DEF Submit, RejectArguments, LeakArguments, IgnoreArguments, SubmitUnlocked, BadArgument
<1>5. CASE Wake(c) \/ CopyOut(c) \/ undoFindFirst(c) \/ UndoWake(c)
  BY <1>5 DEF Wake, CopyOut, undoFindFirst, UndoWake
<1> QED
  BY <1>1, <1>2, <1>3, <1>4, <1>5 DEF ClientRuns

\* Steps of a thread leave the mapping of the buffers as it is.
LEMMA MappedClient ==
  ASSUME TypeOK, MappedInv, NEW c \in Clients,
         (\E o \in Ops : Enter(c, o)) \/ ClientRuns(c) \/ Interrupted(c)
  PROVE  MappedInv'
<1>1. UNCHANGED <<pidDaemon, sel, dpc>>
  BY ClientLeaves
<1>2. \A e \in Clients : Inside(e)' => Inside(e) \/ pidDaemon # NoPid
  BY ClientEnters
<1>3. pidDaemon # NoPid => pidDaemon \in Daemons
  BY DEF TypeOK
<1> QED
  BY <1>1, <1>2, <1>3 DEF MappedInv

\* A daemon maps its buffers when none is attached and nobody is inside.
LEMMA MappedDaemon ==
  ASSUME TypeOK, ExclusionInv, AttachedDaemonRuns, LoneDaemon, MappedInv, NEW d \in Daemons,
         \/ Start(d) \/ LockFails(d) \/ GetInterrupted(d) \/ StopInterrupted(d) \/ Kill(d)
         \/ DaemonRuns(d)
  PROVE  MappedInv'
<1> USE DEF DaemonAt, DaemonGoto, Detach
<1>0. /\ \A e \in Daemons \ {d} : dpc'[e] = dpc[e]
      /\ UNCHANGED pc
  BY DaemonLeaves
<1>1. \A c \in Clients : Inside(c)' = Inside(c)
  BY <1>0 DEF Inside
<1>2. ASSUME UNCHANGED sel, pidDaemon' \in {pidDaemon, NoPid}, dpc'[d] # "lock1"
      PROVE  MappedInv'
  BY <1>0, <1>1, <1>2 DEF MappedInv
<1>3. CASE LockRequestBuffer(d) \/ LockDataBuffer(d)
  <2>1. Starting(d) /\ Active(d) /\ ~Running(d)
    BY <1>3 DEF LockRequestBuffer, LockDataBuffer, Starting, Active, Running
  <2>2. \A c \in Clients : ~Inside(c)'
    BY <1>1, <2>1 DEF ExclusionInv
  <2>3. \A e \in Daemons \ {d} : dpc'[e] # "lock1"
    BY <1>0, <2>1 DEF LoneDaemon, Active
  <2>4. CASE LockRequestBuffer(d)
    <3>1. pidDaemon' = NoPid /\ sel'[0] = d
      BY <2>1, <2>4, AttachedIsActive DEF LockRequestBuffer, PinBuffer, TypeOK, Bufs
    <3> QED
      BY <2>2, <2>3, <3>1 DEF MappedInv
  <2>5. CASE LockDataBuffer(d)
    <3>1. pidDaemon' = d /\ \A i \in Bufs : sel'[i] = d
      BY <2>5 DEF LockDataBuffer, PinBuffer, TypeOK, Bufs, MappedInv
    <3>2. dpc'[d] # "lock1"
      BY <2>5 DEF LockDataBuffer, TypeOK
    <3> QED
      BY <2>2, <2>3, <3>1, <3>2 DEF MappedInv
  <2> QED
    BY <1>3, <2>4, <2>5
<1> USE DEF TypeOK
<1>4. CASE Start(d) \/ LockFails(d) \/ GetInterrupted(d) \/ StopInterrupted(d) \/ Kill(d)
  BY <1>2, <1>4 DEF Start, LockFails, GetInterrupted, StopInterrupted, Kill
<1>5. CASE Initialized(d) \/ GetRequest(d) \/ TakeRequest(d) \/ BeginRequest(d)
  BY <1>2, <1>5 DEF Initialized, GetRequest, TakeRequest, BeginRequest
<1>6. CASE FinishRequest(d) \/ DoneRequest(d) \/ Stop(d) \/ Unlock(d) \/ Exit(d)
  BY <1>2, <1>6 DEF FinishRequest, DoneRequest, Stop, Unlock, Exit
<1> QED
  BY <1>3, <1>4, <1>5, <1>6 DEF DaemonRuns

\* That the attached daemon's buffers are mapped is inductive.
LEMMA MappedStep ==
  TypeOK /\ ExclusionInv /\ AttachedDaemonRuns /\ LoneDaemon /\ MappedInv /\ [Next]_vars
    => MappedInv'
<1> SUFFICES ASSUME TypeOK, ExclusionInv, AttachedDaemonRuns, LoneDaemon, MappedInv, [Next]_vars
             PROVE  MappedInv'
  OBVIOUS
<1>1. CASE Reset \/ ResetUnlock
  BY <1>1, ResetLeaves DEF MappedInv, Inside, Reset, ResetUnlock, Detach
<1>2. CASE UNCHANGED vars
  BY <1>2 DEF MappedInv, Inside
<1> QED
  BY <1>1, <1>2, MappedClient, MappedDaemon DEF Next, DaemonEnters

\* What must be kept from besides for the buffers to stay locked: a forced detach,
\* which unlocks those of a daemon that starts meanwhile.
KeepsPinned == KeepsExclusive /\ "reset" \notin Faults

PinnedInv ==
  /\ reset = "idle"
  /\ \A c \in Clients : Inside(c) => \A i \in Bufs : i \in locked[sel[i]]
  /\ pidDaemon # NoPid => locked[pidDaemon] = Bufs
  /\ \A d \in Daemons : dpc[d] = "lock1" => 0 \in locked[d]

\* Steps of a daemon keep the buffers locked that a thread touches.
LEMMA PinnedDaemon ==
  ASSUME TypeOK, ExclusionInv, AttachedDaemonRuns, LoneDaemon, MappedInv, PinnedInv,
         NEW d \in Daemons,
         \/ Start(d) \/ LockFails(d) \/ GetInterrupted(d) \/ StopInterrupted(d) \/ Kill(d)
         \/ DaemonRuns(d)
  PROVE  PinnedInv'
<1> USE DEF DaemonAt, DaemonGoto, Detach
<1>0. /\ \A e \in Daemons \ {d} : dpc'[e] = dpc[e]
      /\ UNCHANGED <<pc, reset>>
  BY DaemonLeaves
<1>1. \A c \in Clients : Inside(c)' = Inside(c)
  BY <1>0 DEF Inside
<1>2. ASSUME UNCHANGED <<sel, locked>>, pidDaemon' \in {pidDaemon, NoPid}, dpc'[d] # "lock1"
      PROVE  PinnedInv'
  BY <1>0, <1>1, <1>2 DEF PinnedInv
<1>3. CASE LockRequestBuffer(d) \/ LockDataBuffer(d)
  <2>1. Starting(d) /\ Active(d) /\ ~Running(d)
    BY <1>3 DEF LockRequestBuffer, LockDataBuffer, Starting, Active, Running
  <2>2. \A c \in Clients : ~Inside(c)'
    BY <1>1, <2>1 DEF ExclusionInv
  <2>3. \A e \in Daemons \ {d} : dpc'[e] # "lock1"
    BY <1>0, <2>1 DEF LoneDaemon, Active
  <2>4. CASE LockRequestBuffer(d)
    <3>1. pidDaemon' = NoPid /\ 0 \in locked'[d]
      BY <2>1, <2>4, AttachedIsActive DEF LockRequestBuffer, PinBuffer, TypeOK, Bufs
    <3> QED
      BY <1>0, <2>2, <2>3, <3>1 DEF PinnedInv
  <2>5. CASE LockDataBuffer(d)
    <3>1. pidDaemon' = d /\ locked'[d] = Bufs
      BY <2>5 DEF LockDataBuffer, PinBuffer, TypeOK, Bufs, PinnedInv
    <3>2. dpc'[d] # "lock1"
      BY <2>5 DEF LockDataBuffer, TypeOK
    <3> QED
      BY <1>0, <2>2, <2>3, <3>1, <3>2 DEF PinnedInv
  <2> QED
    BY <1>3, <2>4, <2>5
<1>4. CASE LockFails(d)
  <2>1. \A e \in Daemons : locked[e] \subseteq locked'[e] /\ locked'[e] \subseteq Bufs
    BY <1>4 DEF LockFails, TypeOK, Bufs
  <2>2. UNCHANGED <<sel, pidDaemon>> /\ dpc'[d] # "lock1"
    BY <1>4 DEF LockFails, TypeOK
  <2>3. \A c \in Clients : Inside(c)' => \A i \in Bufs : i \in locked'[sel[i]]
    BY <1>1, <2>1 DEF PinnedInv, MappedInv
  <2>4. ASSUME pidDaemon # NoPid PROVE locked'[pidDaemon] = Bufs
    <3>1. pidDaemon \in Daemons
      BY <2>4 DEF TypeOK
    <3>2. locked[pidDaemon] = Bufs
      BY <2>4 DEF PinnedInv
    <3> QED
      BY <2>1, <3>1, <3>2
  <2>5. \A e \in Daemons : dpc'[e] = "lock1" => 0 \in locked'[e]
    BY <1>0, <2>1, <2>2 DEF PinnedInv
  <2> QED
    BY <1>0, <2>2, <2>3, <2>4, <2>5 DEF PinnedInv
<1>5. CASE Unlock(d)
  <2>1. \A c \in Clients : ~Inside(c)'
    BY <1>1, <1>5 DEF Unlock, UnlockBuffers, ExclusionInv
  <2>2. Active(d) /\ ~Running(d)
    BY <1>5 DEF Unlock, Active, Running
  <2>3. pidDaemon' = NoPid
    BY <1>5, <2>2, AttachedIsActive DEF Unlock
  <2>4. \A e \in Daemons : dpc'[e] # "lock1"
    BY <1>0, <1>5, <2>2 DEF LoneDaemon, Active, Unlock, TypeOK
  <2> QED
    BY <1>0, <2>1, <2>3, <2>4 DEF PinnedInv
<1> USE DEF TypeOK
<1>6. CASE Start(d) \/ GetInterrupted(d) \/ StopInterrupted(d) \/ Kill(d)
  BY <1>2, <1>6 DEF Start, GetInterrupted, StopInterrupted, Kill
<1>7. CASE Initialized(d) \/ GetRequest(d) \/ TakeRequest(d) \/ BeginRequest(d)
  BY <1>2, <1>7 DEF Initialized, GetRequest, TakeRequest, BeginRequest
<1>8. CASE FinishRequest(d) \/ DoneRequest(d) \/ Stop(d) \/ Exit(d)
  BY <1>2, <1>8 DEF FinishRequest, DoneRequest, Stop, Exit
<1> QED
  BY <1>3, <1>4, <1>5, <1>6, <1>7, <1>8 DEF DaemonRuns

\* The invariant is inductive, given the earlier ones.
LEMMA PinnedStep ==
  ASSUME KeepsPinned
  PROVE  TypeOK /\ ExclusionInv /\ AttachedDaemonRuns /\ LoneDaemon /\ MappedInv /\ PinnedInv
           /\ [Next]_vars => PinnedInv'
<1> SUFFICES ASSUME TypeOK, ExclusionInv, AttachedDaemonRuns, LoneDaemon, MappedInv, PinnedInv,
                    [Next]_vars
             PROVE  PinnedInv'
  OBVIOUS
<1>1. ASSUME NEW c \in Clients,
             (\E o \in Ops : Enter(c, o)) \/ ClientRuns(c) \/ Interrupted(c)
      PROVE  PinnedInv'
  <2>1. UNCHANGED <<driver, dpc, reset>>
    BY <1>1, ClientLeaves
  <2>2. \A e \in Clients : Inside(e)' => Inside(e) \/ pidDaemon # NoPid
    BY <1>1, ClientEnters
  <2> QED
    BY <2>1, <2>2 DEF PinnedInv, MappedInv
<1>2. ~Reset /\ ~ResetUnlock
  BY DEF KeepsPinned, PinnedInv, Reset, ResetUnlock
<1>3. CASE UNCHANGED vars
  BY <1>3 DEF PinnedInv, Inside
<1> QED
  BY <1>1, <1>2, <1>3, PinnedDaemon DEF Next, DaemonEnters

\* The pointers are those of the attached daemon, in every environment of
\* ExchangeIsExclusive.
LEMMA MappedAlways ==
  ASSUME KeepsExclusive
  PROVE  Spec => [](TypeOK /\ ExclusionInv /\ AttachedDaemonRuns /\ LoneDaemon /\ MappedInv)
<1>1. Init => ExclusionInv
  BY ExclusionInit
<1>2. TypeOK /\ ExclusionInv /\ [Next]_vars => ExclusionInv'
  BY ExclusionStep
<1>3. Spec => []LoneDaemon
  BY LoneAlways DEF KeepsExclusive
<1>4. Init => MappedInv
  BY DEF Init, MappedInv, Inside
<1>5. TypeOK /\ ExclusionInv /\ AttachedDaemonRuns /\ LoneDaemon /\ MappedInv /\ [Next]_vars
        => MappedInv'
  BY MappedStep
<1> QED
  BY <1>1, <1>2, <1>3, <1>4, <1>5, TypeCorrect, AttachedDaemonAlwaysRuns, PTL DEF Spec

\* Unless somebody forces a detach, a thread never touches a buffer that has been
\* unlocked, and those of the attached daemon are locked and mapped: daemonStopped()
\* gets semSerialize only when nobody is inside, whatever is killed or interrupted.
THEOREM BuffersStayPinned ==
  ASSUME KeepsPinned
  PROVE  Spec => []BuffersPinned
<1>1. Init => PinnedInv
  BY DEF Init, PinnedInv, Inside
<1>2. TypeOK /\ ExclusionInv /\ AttachedDaemonRuns /\ LoneDaemon /\ MappedInv /\ PinnedInv
        /\ [Next]_vars => PinnedInv'
  BY PinnedStep
<1>3. Spec => [](TypeOK /\ ExclusionInv /\ AttachedDaemonRuns /\ LoneDaemon /\ MappedInv)
  BY MappedAlways DEF KeepsPinned
<1>4. MappedInv /\ PinnedInv => BuffersPinned
  BY ProcessAssumption DEF MappedInv, PinnedInv, BuffersPinned, Inside
<1> QED
  BY <1>1, <1>2, <1>3, <1>4, PTL DEF Spec

=============================================================================

-------------------------- MODULE StubFsd_liveness --------------------------
(* Proofs about StubFsd: that waits end, that threads return and daemons stop.   *)
(* They rest on the fairness that FairSpec states.  ENABLED, which that is about, *)
(* is out of the provers' reach: what it means here, which is no more than what  *)
(* the guards of the actions say, is a hypothesis, ReadyIsEnabled.               *)
EXTENDS StubFsd_answers

USE DEF sems, driver, buffers, threads, daemons, vars

-----------------------------------------------------------------------------
(* Who can run *)

\* None of the three semaphores blocks the thread c, nor the daemon d, and no thread that
\* copies keeps them from running.
ClientReady(c) ==
  /\ CanRun(c)
  /\ \/ pc[c] \in {"marshal", "copyout"}
     \/ pc[c] = "request" /\ ~semSerialize
     \/ Waits(c) /\ ~semRqDone

DaemonReady(d) ==
  /\ CanRun(NoPid)
  /\ dpc[d] \notin {"off", "dead"}
  /\ dpc[d] = "getwait" => ~semRqAvail
  /\ dpc[d] = "stopwait" => ~semSerialize

\* What ENABLED means for the actions whose fairness is assumed.
ReadyIsEnabled ==
  /\ \A c \in Clients : ClientReady(c) => ENABLED <<ClientRuns(c)>>_vars
  /\ \A d \in Daemons : DaemonReady(d) => ENABLED <<DaemonRuns(d)>>_vars

\* What the kernel's scheduling gives.
Scheduled == FairSpec /\ []ReadyIsEnabled

-----------------------------------------------------------------------------
(* Nobody waits in vain *)

\* The environment of this proof: that of ExchangeIsExclusive, without page faults.
\* With them, a thread may hand over a request after the daemon has gone.
KeepsAwake == KeepsExclusive /\ "pagefault" \notin Faults

\* Between its look at pidDaemon and its wait nothing runs that could detach the daemon.
AwakeInv ==
  /\ NobodyWaitsInVain
  /\ \A c \in Clients : pc[c] \in {"marshal", "copyout"} => pidDaemon # NoPid

\* Steps of a thread keep it,
LEMMA AwakeClient ==
  ASSUME TypeOK, AwakeInv, NEW c \in Clients,
         (\E o \in Ops : Enter(c, o)) \/ ClientRuns(c) \/ Interrupted(c)
  PROVE  AwakeInv'
<1> USE DEF TypeOK, At, Goto, Return, Waits
<1>0. /\ UNCHANGED <<pidDaemon, dpc>>
      /\ \A e \in Clients \ {c} : pc'[e] = pc[e]
  BY ClientLeaves, ClientMoves
<1>1. ASSUME UNCHANGED <<semRqAvail, semRqDone>>, ~Waits(c)',
             pc'[c] \in {"marshal", "copyout"} => pidDaemon # NoPid
      PROVE  AwakeInv'
  BY <1>0, <1>1 DEF AwakeInv, NobodyWaitsInVain
<1>2. ASSUME semRqAvail' = FALSE, Waits(c)', pidDaemon # NoPid PROVE AwakeInv'
  BY <1>0, <1>2 DEF AwakeInv, NobodyWaitsInVain
<1>3. CASE \E o \in Ops : Enter(c, o)
  BY <1>1, <1>3 DEF Enter
<1>4. CASE Interrupted(c) \/ CopyOut(c) \/ UndoWake(c)
  BY <1>1, <1>4 DEF Interrupted, CopyOut, UndoWake
<1>5. CASE Acquire(c) \/ Wake(c)
  BY <1>1, <1>5 DEF Acquire, Wake
<1>6. CASE RejectArguments(c) \/ LeakArguments(c)
  BY <1>1, <1>6 DEF RejectArguments, LeakArguments, BadArgument
<1>7. CASE Submit(c) \/ IgnoreArguments(c) \/ SubmitUnlocked(c) \/ undoFindFirst(c)
  BY <1>2, <1>7 DEF Submit, IgnoreArguments, SubmitUnlocked, BadArgument, undoFindFirst,
                    signalDaemon, AwakeInv
<1> QED
  BY <1>3, <1>4, <1>5, <1>6, <1>7 DEF ClientRuns

\* and those of a daemon.
LEMMA AwakeDaemon ==
  ASSUME KeepsAwake, Grounds, AwakeInv, NEW d \in Daemons,
         \/ Start(d) \/ LockFails(d) \/ GetInterrupted(d) \/ StopInterrupted(d) \/ Kill(d)
         \/ DaemonRuns(d)
  PROVE  AwakeInv'
<1> USE DEF DaemonAt, DaemonGoto, Detach
<1>0. /\ UNCHANGED pc /\ \A e \in Daemons \ {d} : dpc'[e] = dpc[e]
      /\ TypeOK /\ pidDaemon \in Daemons \cup {NoPid}
      /\ \A c \in Clients : Waits(c)' = Waits(c)
  BY DaemonLeaves DEF Grounds, TypeOK, Waits
<1>1. ASSUME UNCHANGED <<pidDaemon, semRqAvail, semRqDone>>,
             pidDaemon = d /\ Handling(d) => Handling(d)'
      PROVE  AwakeInv'
  BY <1>0, <1>1 DEF AwakeInv, NobodyWaitsInVain, Handling
<1>2. ASSUME pidDaemon' = NoPid, semRqDone' = FALSE, CanRun(NoPid) PROVE AwakeInv'
  BY <1>0, <1>2, ProcessAssumption DEF AwakeInv, NobodyWaitsInVain, CanRun, KeepsAwake
<1>3. Active(d) /\ pidDaemon # NoPid => pidDaemon = d
  BY AttachedIsActive DEF Grounds
<1> USE DEF TypeOK, Active, Handling
<1>4. CASE Kill(d) \/ Stop(d)
  BY <1>0, <1>1, <1>2, <1>4 DEF Kill, Stop
<1>5. CASE LockDataBuffer(d)
  <2>1. \A c \in Clients : pc[c] \in {"idle", "request"}
    BY <1>0, <1>5 DEF LockDataBuffer, Grounds, ExclusionInv, Starting, Inside
  <2> QED
    BY <1>0, <2>1 DEF AwakeInv, NobodyWaitsInVain, Waits
<1>6. CASE TakeRequest(d)
  BY <1>0, <1>3, <1>6 DEF TakeRequest, AwakeInv, NobodyWaitsInVain
<1>7. CASE DoneRequest(d)
  <2>1. CASE pidDaemon = d
    BY <1>0, <1>7, <2>1 DEF DoneRequest, AwakeInv, NobodyWaitsInVain
  <2>2. CASE pidDaemon # d
    BY <1>0, <1>1, <1>7, <2>2 DEF DoneRequest
  <2> QED
    BY <2>1, <2>2
<1>8. CASE BeginRequest(d) \/ FinishRequest(d)
  BY <1>0, <1>1, <1>8 DEF BeginRequest, FinishRequest
<1>9. CASE Start(d) \/ LockFails(d) \/ GetInterrupted(d) \/ StopInterrupted(d)
  BY <1>0, <1>1, <1>9 DEF Start, LockFails, GetInterrupted, StopInterrupted, Bufs
<1>10. CASE LockRequestBuffer(d) \/ Initialized(d) \/ GetRequest(d) \/ Unlock(d) \/ Exit(d)
  BY <1>0, <1>1, <1>10 DEF LockRequestBuffer, Initialized, GetRequest, Unlock, Exit
<1> QED
  BY <1>4, <1>5, <1>6, <1>7, <1>8, <1>9, <1>10 DEF DaemonRuns

\* So they always do.
LEMMA AwakeAlways ==
  ASSUME KeepsAwake
  PROVE  Spec => [](Grounds /\ AwakeInv)
<1>1. Init => AwakeInv
  BY DEF Init, AwakeInv, NobodyWaitsInVain, Waits
<1>2. Grounds /\ AwakeInv /\ [Next]_vars => AwakeInv'
  <2> SUFFICES ASSUME Grounds, AwakeInv, [Next]_vars PROVE AwakeInv'
    OBVIOUS
  <2>1. CASE Reset
    BY <2>1, ProcessAssumption
       DEF Reset, Detach, CanRun, KeepsAwake, AwakeInv, NobodyWaitsInVain
  <2>2. CASE ResetUnlock \/ UNCHANGED vars
    BY <2>2 DEF ResetUnlock, AwakeInv, NobodyWaitsInVain, Waits
  <2> QED
    BY <2>1, <2>2, AwakeClient, AwakeDaemon DEF Next, DaemonEnters, Grounds
<1>3. Spec => []Grounds
  BY MappedAlways, PTL DEF Grounds, KeepsAwake
<1> QED
  BY <1>1, <1>2, <1>3, PTL DEF Spec

\* Whoever waits for a daemon has one that will take its request or is at it, however
\* daemons start, stop, die and are reset and threads are interrupted meanwhile.
THEOREM NobodyEverWaitsInVain ==
  ASSUME KeepsAwake
  PROVE  Spec => []NobodyWaitsInVain
<1>1. AwakeInv => NobodyWaitsInVain
  BY DEF AwakeInv
<1> QED
  BY <1>1, AwakeAlways, PTL

-----------------------------------------------------------------------------
(* Every wait ends *)

\* How many steps the daemon d is from clearing semRqDone, at most.
StepsLeft(d) ==
  CASE dpc[d] \in {"done", "quit"} -> 1
    [] dpc[d] = "busy" -> 2
    [] dpc[d] = "work" -> 3
    [] dpc[d] = "getwait" -> 4
    [] dpc[d] = "run" -> 5
    [] OTHER -> 6

\* The thread c waits for d, which is at most k steps from waking it; or not any more.
Awaits(c, d, k) == Waits(c) /\ semRqDone /\ pidDaemon = d /\ StepsLeft(d) =< k
Settled(c)      == ~Waits(c) \/ ~semRqDone

\* Each step of the daemon that c waits for brings the end of the wait nearer.
LEMMA OwnerApproaches ==
  ASSUME Grounds, NEW c \in Clients, NEW d \in Daemons, pidDaemon = d, semRqDone,
         \/ Start(d) \/ LockFails(d) \/ GetInterrupted(d) \/ StopInterrupted(d) \/ Kill(d)
         \/ DaemonRuns(d)
  PROVE  Settled(c)' \/ (pidDaemon' = d /\ semRqDone' /\ StepsLeft(d)' < StepsLeft(d))
<1> USE DEF DaemonAt, DaemonGoto, Detach
<1>1. /\ dpc[d] \in {"up", "run", "getwait", "work", "busy", "done", "quit"}
      /\ DOMAIN dpc = Daemons
  BY ProcessAssumption DEF Grounds, TypeOK, AttachedDaemonRuns
<1>2. CASE Kill(d) \/ Stop(d) \/ DoneRequest(d)
  BY <1>2 DEF Kill, Stop, DoneRequest, Settled
<1>3. CASE GetInterrupted(d) \/ Initialized(d) \/ GetRequest(d) \/ TakeRequest(d)
  <2>1. /\ UNCHANGED <<pidDaemon, semRqDone>>
        /\ \/ dpc[d] = "up" /\ dpc'[d] \in {"run", "quit"}
           \/ dpc[d] = "run" /\ dpc'[d] \in {"getwait", "quit"}
           \/ dpc[d] = "getwait" /\ dpc'[d] \in {"work", "quit"}
    BY <1>1, <1>3 DEF GetInterrupted, Initialized, GetRequest, TakeRequest
  <2> QED
    BY <2>1 DEF StepsLeft
<1>4. CASE BeginRequest(d) \/ FinishRequest(d)
  <2>1. /\ UNCHANGED <<pidDaemon, semRqDone>>
        /\ (dpc[d] = "work" /\ dpc'[d] = "busy") \/ (dpc[d] = "busy" /\ dpc'[d] = "done")
    BY <1>1, <1>4 DEF BeginRequest, FinishRequest
  <2> QED
    BY <2>1 DEF StepsLeft
<1>5. ~Start(d) /\ ~LockFails(d) /\ ~StopInterrupted(d) /\ ~LockRequestBuffer(d)
  BY <1>1 DEF Start, LockFails, StopInterrupted, LockRequestBuffer, Bufs
<1>6. ~LockDataBuffer(d) /\ ~Unlock(d) /\ ~Exit(d)
  BY <1>1 DEF LockDataBuffer, Unlock, Exit
<1> QED
  BY <1>2, <1>3, <1>4, <1>5, <1>6 DEF DaemonRuns

\* Everybody else leaves that daemon where it is, or wakes c.
LEMMA OthersLeave ==
  ASSUME Grounds, NEW c \in Clients, NEW d \in Daemons, pidDaemon = d, semRqDone,
         [Next]_vars,
         ~ \/ Start(d) \/ LockFails(d) \/ GetInterrupted(d) \/ StopInterrupted(d) \/ Kill(d)
           \/ DaemonRuns(d)
  PROVE  Settled(c)' \/ (pidDaemon' = d /\ semRqDone' /\ dpc'[d] = dpc[d])
<1>1. CASE UNCHANGED vars
  BY <1>1
<1>2. CASE Reset \/ ResetUnlock
  BY <1>2 DEF Reset, ResetUnlock, Detach, Settled
<1>3. ASSUME NEW e \in Clients,
             (\E o \in Ops : Enter(e, o)) \/ ClientRuns(e) \/ Interrupted(e)
      PROVE  pidDaemon' = d /\ semRqDone' /\ dpc'[d] = dpc[d]
  <2>1. UNCHANGED <<pidDaemon, dpc>>
    BY <1>3, ClientLeaves
  <2>2. semRqDone'
    BY <1>3 DEF Enter, Interrupted, ClientRuns, Acquire, Submit, RejectArguments, LeakArguments,
                IgnoreArguments, SubmitUnlocked, BadArgument, Wake, CopyOut, undoFindFirst,
                UndoWake, signalDaemon
  <2> QED
    BY <2>1, <2>2
<1>4. ASSUME NEW e \in Daemons \ {d},
             \/ Start(e) \/ LockFails(e) \/ GetInterrupted(e) \/ StopInterrupted(e) \/ Kill(e)
             \/ DaemonRuns(e)
      PROVE  pidDaemon' = d /\ semRqDone' /\ dpc'[d] = dpc[d]
  <2>1. dpc[e] \in {"off", "free", "dead"}
    BY AttachedIsActive, ProcessAssumption DEF Grounds, Active
  <2>2. dpc'[d] = dpc[d]
    BY <1>4, DaemonLeaves DEF Grounds
  <2>3. Start(e) \/ Kill(e) \/ Exit(e)
    BY <1>4, <2>1
       DEF DaemonAt, LockFails, GetInterrupted, StopInterrupted, DaemonRuns, LockRequestBuffer,
           LockDataBuffer, Initialized, GetRequest, TakeRequest, BeginRequest, FinishRequest,
           DoneRequest, Stop, Unlock, Bufs
  <2> QED
    BY <2>2, <2>3 DEF Start, Kill, Exit
<1> QED
  BY <1>1, <1>2, <1>3, <1>4 DEF Next, DaemonEnters

\* So the wait gets shorter with each step of the daemon, which can always take one.
LEMMA WaitShortens ==
  ASSUME KeepsAwake, Grounds, AwakeInv, NEW c \in Clients, NEW d \in Daemons,
         NEW k \in 1 .. 6, NEW j \in 0 .. 5, j = k - 1, Awaits(c, d, k)
  PROVE  /\ DaemonReady(d)
         /\ [Next]_vars => Awaits(c, d, k)' \/ Settled(c)'
         /\ DaemonRuns(d) => Awaits(c, d, j)' \/ Settled(c)'
<1>1. /\ pidDaemon = d /\ semRqDone /\ Waits(c) /\ Inside(c) /\ d # NoPid
      /\ StepsLeft(d) =< k
  BY ProcessAssumption DEF Awaits, Waits, Inside
<1>2. StepsLeft(d) \in 1 .. 6 /\ StepsLeft(d)' \in 1 .. 6
  BY DEF StepsLeft
<1>3. DaemonReady(d)
  <2>1. CanRun(NoPid)
    BY <1>1, Alone DEF CanRun, Waits
  <2>2. dpc[d] \in {"up", "run", "getwait", "work", "busy", "done", "quit"}
    BY <1>1 DEF Grounds, AttachedDaemonRuns
  <2>3. dpc[d] = "getwait" => ~semRqAvail
    BY <1>1 DEF AwakeInv, NobodyWaitsInVain
  <2> QED
    BY <2>1, <2>2, <2>3 DEF DaemonReady
<1>4. ASSUME Settled(c)' \/ (pidDaemon' = d /\ semRqDone' /\ StepsLeft(d)' < StepsLeft(d))
      PROVE  Awaits(c, d, j)' \/ Settled(c)'
  <2>1. StepsLeft(d)' < StepsLeft(d) => StepsLeft(d)' =< j
    BY <1>1, <1>2
  <2> QED
    BY <1>4, <2>1 DEF Awaits, Settled
<1>5. ASSUME pidDaemon' = d, semRqDone', dpc'[d] = dpc[d]
      PROVE  Awaits(c, d, k)' \/ Settled(c)'
  <2>1. StepsLeft(d)' = StepsLeft(d)
    BY <1>5 DEF StepsLeft
  <2> QED
    BY <1>1, <1>5, <2>1 DEF Awaits, Settled
<1>6. Awaits(c, d, j)' => Awaits(c, d, k)'
  BY <1>2 DEF Awaits
<1>7. DaemonRuns(d) => Awaits(c, d, j)' \/ Settled(c)'
  BY <1>1, <1>4, OwnerApproaches
<1>8. [Next]_vars => Awaits(c, d, k)' \/ Settled(c)'
  BY <1>1, <1>4, <1>5, <1>6, OwnerApproaches, OthersLeave
<1> QED
  BY <1>3, <1>7, <1>8

\* A thread whose request is done goes on, and nobody takes that from it.
LEMMA WokenGoes ==
  ASSUME KeepsAwake, Grounds, NEW c \in Clients, Waits(c), ~semRqDone
  PROVE  /\ ClientReady(c)
         /\ [Next]_vars => (Waits(c) /\ ~semRqDone)' \/ ~Waits(c)'
         /\ ClientRuns(c) => ~Waits(c)'
<1> USE DEF At, Goto, Return
<1>0. Inside(c) /\ semSerialize /\ DOMAIN pc = Clients /\ TypeOK
  BY DEF Waits, Inside, Grounds, ExclusionInv, TypeOK
<1>1. \A e \in Clients \ {c} : pc[e] \in {"idle", "request"}
  BY <1>0, Alone
<1>2. ClientReady(c)
  BY <1>1 DEF ClientReady, CanRun
<1>3. ClientRuns(c) => ~Waits(c)'
  BY <1>0 DEF ClientRuns, Waits, Acquire, Submit, RejectArguments, LeakArguments, IgnoreArguments,
              SubmitUnlocked, BadArgument, Wake, CopyOut, undoFindFirst, UndoWake
<1>4. ASSUME NEW e \in Clients \ {c},
             (\E o \in Ops : Enter(e, o)) \/ ClientRuns(e) \/ Interrupted(e)
      PROVE  ~semRqDone'
  BY <1>0, <1>1, <1>4
     DEF Enter, Interrupted, ClientRuns, Acquire, Submit, RejectArguments, LeakArguments,
         IgnoreArguments, SubmitUnlocked, BadArgument, Wake, CopyOut, undoFindFirst, UndoWake
<1>5. ASSUME (\E o \in Ops : Enter(c, o)) \/ Interrupted(c) PROVE ~Waits(c)'
  BY <1>0, <1>5 DEF Enter, Interrupted, Waits
<1>6. ASSUME NEW d \in Daemons,
             \/ Start(d) \/ LockFails(d) \/ GetInterrupted(d) \/ StopInterrupted(d) \/ Kill(d)
             \/ DaemonRuns(d)
      PROVE  ~semRqDone'
  BY <1>6 DEF Start, LockFails, GetInterrupted, StopInterrupted, Kill, DaemonRuns,
              LockRequestBuffer, LockDataBuffer, Initialized, GetRequest, TakeRequest,
              BeginRequest, FinishRequest, DoneRequest, Stop, Unlock, Exit, Detach
<1>7. [Next]_vars => ~semRqDone' \/ ~Waits(c)'
  BY <1>3, <1>4, <1>5, <1>6 DEF Next, DaemonEnters, Reset, ResetUnlock, Detach
<1> QED
  BY <1>2, <1>3, <1>7

\* The kernel runs a thread, and a daemon, that stays ready.
LEMMA ReadyRuns ==
  /\ \A c \in Clients : Scheduled => ([]<>~ClientReady(c) \/ []<><<ClientRuns(c)>>_vars)
  /\ \A d \in Daemons : Scheduled => ([]<>~DaemonReady(d) \/ []<><<DaemonRuns(d)>>_vars)
<1>1. ASSUME NEW c \in Clients
      PROVE  Scheduled => ([]<>~ClientReady(c) \/ []<><<ClientRuns(c)>>_vars)
  <2>1. Fairness => ClientFair(c)
    BY DEF Fairness
  <2>2. ReadyIsEnabled => (ClientReady(c) => ENABLED <<ClientRuns(c)>>_vars)
    BY DEF ReadyIsEnabled
  <2> QED
    BY <2>1, <2>2, PTL DEF Scheduled, FairSpec, ClientFair
<1>2. ASSUME NEW d \in Daemons
      PROVE  Scheduled => ([]<>~DaemonReady(d) \/ []<><<DaemonRuns(d)>>_vars)
  <2>1. Fairness => DaemonFair(d)
    BY DEF Fairness
  <2>2. ReadyIsEnabled => (DaemonReady(d) => ENABLED <<DaemonRuns(d)>>_vars)
    BY DEF ReadyIsEnabled
  <2> QED
    BY <2>1, <2>2, PTL DEF Scheduled, FairSpec, DaemonFair
<1> QED
  BY <1>1, <1>2

\* One of the six steps.
LEMMA DaemonWakes ==
  ASSUME KeepsAwake, NEW c \in Clients, NEW d \in Daemons
  PROVE  Scheduled => (Awaits(c, d, 6) ~> Settled(c))
<1> DEFINE Step(k, j) ==
      /\ Grounds /\ AwakeInv /\ Awaits(c, d, k) => DaemonReady(d)
      /\ Grounds /\ AwakeInv /\ Awaits(c, d, k) /\ [Next]_vars => Awaits(c, d, k)' \/ Settled(c)'
      /\ Grounds /\ AwakeInv /\ Awaits(c, d, k) /\ DaemonRuns(d) => Awaits(c, d, j)' \/ Settled(c)'
<1>1. Step(6, 5) /\ Step(5, 4) /\ Step(4, 3) /\ Step(3, 2) /\ Step(2, 1) /\ Step(1, 0)
  BY WaitShortens
<1>2. ~Awaits(c, d, 0)
  BY DEF Awaits, StepsLeft
<1>3. Scheduled => ([]<>~DaemonReady(d) \/ []<><<DaemonRuns(d)>>_vars)
  BY ReadyRuns
<1>4. Scheduled => [](Grounds /\ AwakeInv) /\ [][Next]_vars
  BY AwakeAlways, PTL DEF Scheduled, FairSpec, Spec
<1>5. Scheduled => (Awaits(c, d, 6) ~> Awaits(c, d, 5) \/ Settled(c))
  BY <1>1, <1>3, <1>4, PTL
<1>6. Scheduled => (Awaits(c, d, 5) ~> Awaits(c, d, 4) \/ Settled(c))
  BY <1>1, <1>3, <1>4, PTL
<1>7. Scheduled => (Awaits(c, d, 4) ~> Awaits(c, d, 3) \/ Settled(c))
  BY <1>1, <1>3, <1>4, PTL
<1>8. Scheduled => (Awaits(c, d, 3) ~> Awaits(c, d, 2) \/ Settled(c))
  BY <1>1, <1>3, <1>4, PTL
<1>9. Scheduled => (Awaits(c, d, 2) ~> Awaits(c, d, 1) \/ Settled(c))
  BY <1>1, <1>3, <1>4, PTL
<1>10. Scheduled => (Awaits(c, d, 1) ~> Awaits(c, d, 0) \/ Settled(c))
  BY <1>1, <1>3, <1>4, PTL
<1> QED
  BY <1>2, <1>5, <1>6, <1>7, <1>8, <1>9, <1>10, PTL

\* signalDaemonAndWait() returns: each step of the daemon brings it nearer to
\* DONE_REQUEST, or to daemonStopped(), and nobody else takes it back.
THEOREM EveryWaitEnds ==
  ASSUME KeepsAwake
  PROVE  Scheduled => WaitEnds
<1>1. ASSUME NEW c \in Clients PROVE Scheduled => (Waits(c) ~> ~Waits(c))
  <2>1. Scheduled => [](Grounds /\ AwakeInv) /\ [][Next]_vars
    BY AwakeAlways, PTL DEF Scheduled, FairSpec, Spec
  <2>2. Scheduled => ([]<>~ClientReady(c) \/ []<><<ClientRuns(c)>>_vars)
    BY ReadyRuns
  <2>3. /\ Grounds /\ Waits(c) /\ ~semRqDone => ClientReady(c)
        /\ Grounds /\ Waits(c) /\ ~semRqDone /\ [Next]_vars => (Waits(c) /\ ~semRqDone)' \/ ~Waits(c)'
        /\ Grounds /\ Waits(c) /\ ~semRqDone /\ ClientRuns(c) => ~Waits(c)'
    BY WokenGoes
  <2>4. Scheduled => (Waits(c) /\ ~semRqDone ~> ~Waits(c))
    BY <2>1, <2>2, <2>3, PTL
  <2>5. ASSUME NEW d \in Daemons PROVE Scheduled => [](Awaits(c, d, 6) => <>Settled(c))
    BY DaemonWakes, PTL
  <2>6. Scheduled => \A d \in Daemons : [](Awaits(c, d, 6) => <>Settled(c))
    BY <2>5
  <2>7. (\A d \in Daemons : [](Awaits(c, d, 6) => <>Settled(c)))
          => [](\A d \in Daemons : Awaits(c, d, 6) => <>Settled(c))
    OBVIOUS
  <2>8. Grounds /\ AwakeInv =>
          ((\A d \in Daemons : Awaits(c, d, 6) => <>Settled(c)) =>
             (Waits(c) /\ semRqDone => <>Settled(c)))
    <3>1. ASSUME Grounds, AwakeInv, Waits(c), semRqDone
          PROVE  pidDaemon \in Daemons /\ Awaits(c, pidDaemon, 6)
      BY <3>1 DEF Grounds, TypeOK, AwakeInv, NobodyWaitsInVain, Awaits, StepsLeft
    <3> QED
      BY <3>1
  <2> QED
    BY <2>1, <2>4, <2>6, <2>7, <2>8, PTL DEF Settled
<1>2. Scheduled => \A c \in Clients : (Waits(c) ~> ~Waits(c))
  BY <1>1
<1> QED
  BY <1>2 DEF WaitEnds

-----------------------------------------------------------------------------
(* When the daemon has gone *)

Gone        == pidDaemon = NoPid
Free        == ~semSerialize
Stopping(d) == dpc[d] = "stopwait"
Home(c)     == pc[c] = "idle"

\* A thread that waits then goes on and releases the exchange buffers.
LEMMA WaiterReleases ==
  ASSUME KeepsAwake, Grounds, AwakeInv, NEW c \in Clients, Waits(c), Gone
  PROVE  /\ ClientReady(c)
         /\ [Next]_vars => Waits(c)' \/ Free'
         /\ ClientRuns(c) => Free'
<1> USE DEF At, Goto, Return, releaseExchangeXS, Gone, Free
<1>1. ClientReady(c)
  BY WokenGoes DEF AwakeInv, NobodyWaitsInVain
<1>2. ClientRuns(c) => Free'
  BY DEF ClientRuns, Waits, Acquire, Submit, RejectArguments, LeakArguments, IgnoreArguments,
         SubmitUnlocked, BadArgument, Wake, CopyOut, undoFindFirst, UndoWake
<1>3. Interrupted(c) => Free'
  BY DEF Interrupted, Waits
<1>4. ~ \E o \in Ops : Enter(c, o)
  BY DEF Enter, Waits
<1>5. ASSUME NEW e \in Clients \ {c},
             (\E o \in Ops : Enter(e, o)) \/ ClientRuns(e) \/ Interrupted(e)
      PROVE  Waits(c)'
  BY <1>5, ClientMoves DEF Waits, Grounds
<1>6. ASSUME UNCHANGED pc PROVE Waits(c)'
  BY <1>6 DEF Waits
<1>7. [Next]_vars => Waits(c)' \/ Free'
  BY <1>2, <1>3, <1>4, <1>5, <1>6, DaemonLeaves, ResetLeaves DEF Next, DaemonEnters, Grounds
<1> QED
  BY <1>1, <1>2, <1>7

\* Nobody takes the semaphore while no daemon is attached.
LEMMA FreeStaysFree ==
  ASSUME TypeOK, Gone, Free, [Next]_vars
  PROVE  ~Gone' \/ Free'
<1> USE DEF Gone, Free
<1>1. ASSUME NEW c \in Clients,
             (\E o \in Ops : Enter(c, o)) \/ ClientRuns(c) \/ Interrupted(c)
      PROVE  Free'
  BY <1>1 DEF Enter, Interrupted, ClientRuns, Acquire, Submit, RejectArguments, LeakArguments,
              IgnoreArguments, SubmitUnlocked, BadArgument, Wake, CopyOut, undoFindFirst,
              UndoWake, releaseExchangeXS
<1> QED
  BY <1>1, DaemonLeaves, ResetLeaves DEF Next, DaemonEnters

\* Nobody is in the buffers to copy, so that whoever finds the semaphore clear can run.
LEMMA NobodyCopies ==
  ASSUME AwakeInv, Gone
  PROVE  \A x : CanRun(x)
BY DEF AwakeInv, CanRun, Gone

\* daemonStopped() then gets the semaphore that is free,
LEMMA StopGoes ==
  ASSUME KeepsAwake, Grounds, AwakeInv, NEW d \in Daemons, Stopping(d)
  PROVE  /\ Gone
         /\ Free => DaemonReady(d)
         /\ DaemonRuns(d) => ~Stopping(d)'
<1> USE DEF Gone, Free, Stopping
<1>1. Gone
  BY AttachedIsActive DEF Grounds, Active, Running
<1>2. Free => DaemonReady(d)
  BY <1>1, NobodyCopies DEF DaemonReady
<1>3. DaemonRuns(d) => ~Stopping(d)'
  BY DEF DaemonRuns, DaemonAt, DaemonGoto, Grounds, TypeOK, LockRequestBuffer, LockDataBuffer,
         Initialized, GetRequest, TakeRequest, BeginRequest, FinishRequest, DoneRequest, Stop,
         Unlock, Exit
<1> QED
  BY <1>1, <1>2, <1>3

\* and requestExchangeXS() returns.
LEMMA QueuedReturns ==
  ASSUME KeepsAwake, Grounds, AwakeInv, NEW c \in Clients, ~Home(c), Gone, Free
  PROVE  /\ ClientReady(c)
         /\ ClientRuns(c) => Home(c)'
<1> USE DEF Gone, Free, Home
<1>1. pc[c] = "request"
  BY DEF Grounds, TypeOK, ExclusionInv, Inside
<1>2. ClientReady(c)
  BY <1>1, NobodyCopies DEF ClientReady
<1>3. ClientRuns(c) => Home(c)'
  BY <1>1 DEF ClientRuns, At, Return, Grounds, TypeOK, Acquire, Submit, RejectArguments,
              LeakArguments, IgnoreArguments, SubmitUnlocked, BadArgument, Wake, CopyOut,
              undoFindFirst, UndoWake
<1> QED
  BY <1>2, <1>3

\* So the semaphore gets free, or another daemon is attached.
LEMMA SemaphoreFrees ==
  ASSUME KeepsAwake, KeepsLock
  PROVE  Scheduled => (Gone ~> ~Gone \/ Free)
<1>1. Scheduled => [](Grounds /\ AwakeInv /\ NoOrphanLock) /\ [][Next]_vars
  BY AwakeAlways, LockIsNeverOrphaned, PTL DEF Scheduled, FairSpec, Spec
<1>2. ASSUME NEW c \in Clients
      PROVE  Scheduled => [](Waits(c) /\ Gone => <>(~Gone \/ Free))
  <2>1. Scheduled => ([]<>~ClientReady(c) \/ []<><<ClientRuns(c)>>_vars)
    BY ReadyRuns
  <2>2. /\ Grounds /\ AwakeInv /\ Waits(c) /\ Gone => ClientReady(c)
        /\ Grounds /\ AwakeInv /\ Waits(c) /\ Gone /\ [Next]_vars
             => Waits(c)' \/ Free'
        /\ Grounds /\ AwakeInv /\ Waits(c) /\ Gone /\ ClientRuns(c)
             => Free'
    BY WaiterReleases
  <2> QED
    BY <1>1, <2>1, <2>2, PTL
<1>3. Scheduled =>
        \A c \in Clients :
          [](Waits(c) /\ Gone => <>(~Gone \/ Free))
  BY <1>2
<1>4. (\A c \in Clients :
         [](Waits(c) /\ Gone => <>(~Gone \/ Free)))
      => [](\A c \in Clients :
              Waits(c) /\ Gone => <>(~Gone \/ Free))
  OBVIOUS
<1>5. Grounds /\ AwakeInv /\ NoOrphanLock =>
        ((\A c \in Clients :
            Waits(c) /\ Gone => <>(~Gone \/ Free)) =>
           (Gone /\ ~Free => <>(~Gone \/ Free)))
  <2>1. ASSUME AwakeInv, NoOrphanLock, Gone, ~Free PROVE \E c \in Clients : Waits(c)
    BY <2>1 DEF Gone, Free, NoOrphanLock, AwakeInv, Inside, Waits
  <2> QED
    BY <2>1
<1> QED
  BY <1>1, <1>3, <1>4, <1>5, PTL

\* daemonStopped() gets semSerialize: the thread that has it is woken, and releases it,
\* and no other takes it while no daemon is attached.
THEOREM StopAlwaysCompletes ==
  ASSUME KeepsAwake, KeepsLock
  PROVE  Scheduled => StopCompletes
<1>1. ASSUME NEW d \in Daemons
      PROVE  Scheduled => (dpc[d] = "stopwait" ~> dpc[d] # "stopwait")
  <2>1. Scheduled => [](Grounds /\ AwakeInv) /\ [][Next]_vars
    BY AwakeAlways, PTL DEF Scheduled, FairSpec, Spec
  <2>2. Scheduled => ([]<>~DaemonReady(d) \/ []<><<DaemonRuns(d)>>_vars)
    BY ReadyRuns
  <2>3. /\ Grounds /\ AwakeInv /\ Stopping(d) => Gone
        /\ Grounds /\ AwakeInv /\ Stopping(d) /\ Free => DaemonReady(d)
        /\ Grounds /\ AwakeInv /\ Stopping(d) /\ DaemonRuns(d) => ~Stopping(d)'
    BY StopGoes
  <2>4. Grounds /\ Gone /\ Free /\ [Next]_vars => ~Gone' \/ Free'
    BY FreeStaysFree DEF Grounds
  <2>5. Scheduled => (Gone ~> ~Gone \/ Free)
    BY SemaphoreFrees
  <2>6. (Stopping(d) <=> dpc[d] = "stopwait") /\ (~Stopping(d) <=> dpc[d] # "stopwait")
    BY DEF Stopping
  <2> QED
    BY <2>1, <2>2, <2>3, <2>4, <2>5, <2>6, PTL
<1>2. Scheduled => \A d \in Daemons : (dpc[d] = "stopwait" ~> dpc[d] # "stopwait")
  BY <1>1
<1> QED
  BY <1>2 DEF StopCompletes

\* When the daemon has gone, every thread in a call gets semSerialize in turn and returns
\* with an error, unless another daemon is attached first.
THEOREM BlockedThreadsAlwaysReturn ==
  ASSUME KeepsAwake, KeepsLock
  PROVE  Scheduled => BlockedThreadsReturn
<1>1. ASSUME NEW c \in Clients
      PROVE  Scheduled => (pidDaemon = NoPid /\ pc[c] # "idle" ~> pidDaemon # NoPid \/ pc[c] = "idle")
  <2>1. Scheduled => [](Grounds /\ AwakeInv) /\ [][Next]_vars
    BY AwakeAlways, PTL DEF Scheduled, FairSpec, Spec
  <2>2. Scheduled => ([]<>~ClientReady(c) \/ []<><<ClientRuns(c)>>_vars)
    BY ReadyRuns
  <2>3. /\ Grounds /\ AwakeInv /\ Gone /\ ~Home(c) /\ Free
             => ClientReady(c)
        /\ Grounds /\ AwakeInv /\ Gone /\ ~Home(c) /\ Free
             /\ ClientRuns(c) => Home(c)'
    BY QueuedReturns
  <2>4. Grounds /\ Gone /\ Free /\ [Next]_vars => ~Gone' \/ Free'
    BY FreeStaysFree DEF Grounds
  <2>5. Scheduled => (Gone ~> ~Gone \/ Free)
    BY SemaphoreFrees
  <2>6. /\ (Gone <=> pidDaemon = NoPid) /\ (~Gone <=> pidDaemon # NoPid)
        /\ (Home(c) <=> pc[c] = "idle") /\ (~Home(c) <=> pc[c] # "idle")
    BY DEF Gone, Home
  <2> QED
    BY <2>1, <2>2, <2>3, <2>4, <2>5, <2>6, PTL
<1>2. Scheduled => \A c \in Clients :
        (pidDaemon = NoPid /\ pc[c] # "idle" ~> pidDaemon # NoPid \/ pc[c] = "idle")
  BY <1>1
<1> QED
  BY <1>2 DEF BlockedThreadsReturn

-----------------------------------------------------------------------------
(* A request is taken *)

\* How many steps the daemon d is from taking a request that is available, at most.
StepsToTake(d) ==
  CASE dpc[d] = "quit" -> 1
    [] dpc[d] = "getwait" -> 2
    [] dpc[d] = "run" -> 3
    [] dpc[d] \in {"up", "done"} -> 4
    [] dpc[d] = "busy" -> 5
    [] OTHER -> 6

Offered(d, k) == ~semRqAvail /\ pidDaemon = d /\ StepsToTake(d) =< k
TakenOrGone   == semRqAvail \/ pidDaemon = NoPid

\* Each step of the attached daemon brings it nearer to the request,
LEMMA TakerApproaches ==
  ASSUME TypeOK, AttachedDaemonRuns, NEW d \in Daemons, pidDaemon = d, ~semRqAvail,
         \/ Start(d) \/ LockFails(d) \/ GetInterrupted(d) \/ StopInterrupted(d) \/ Kill(d)
         \/ DaemonRuns(d)
  PROVE  \/ TakenOrGone'
         \/ pidDaemon' = d /\ ~semRqAvail' /\ StepsToTake(d)' < StepsToTake(d)
<1> USE DEF DaemonAt, DaemonGoto, Detach
<1>1. /\ dpc[d] \in {"up", "run", "getwait", "work", "busy", "done", "quit"}
      /\ DOMAIN dpc = Daemons
  BY ProcessAssumption DEF TypeOK, AttachedDaemonRuns
<1>2. CASE Kill(d) \/ Stop(d) \/ TakeRequest(d)
  BY <1>2 DEF Kill, Stop, TakeRequest, TakenOrGone
<1>3. CASE GetInterrupted(d) \/ Initialized(d) \/ GetRequest(d)
  <2>1. /\ UNCHANGED <<pidDaemon, semRqAvail>>
        /\ \/ dpc[d] = "up" /\ dpc'[d] \in {"run", "quit"}
           \/ dpc[d] = "run" /\ dpc'[d] \in {"getwait", "quit"}
           \/ dpc[d] = "getwait" /\ dpc'[d] = "quit"
    BY <1>1, <1>3 DEF GetInterrupted, Initialized, GetRequest
  <2> QED
    BY <2>1 DEF StepsToTake
<1>4. CASE BeginRequest(d) \/ FinishRequest(d) \/ DoneRequest(d)
  <2>1. /\ UNCHANGED <<pidDaemon, semRqAvail>>
        /\ \/ dpc[d] = "work" /\ dpc'[d] = "busy"
           \/ dpc[d] = "busy" /\ dpc'[d] = "done"
           \/ dpc[d] = "done" /\ dpc'[d] = "run"
    BY <1>1, <1>4 DEF BeginRequest, FinishRequest, DoneRequest
  <2> QED
    BY <2>1 DEF StepsToTake
<1>5. ~Start(d) /\ ~LockFails(d) /\ ~StopInterrupted(d) /\ ~LockRequestBuffer(d)
  BY <1>1 DEF Start, LockFails, StopInterrupted, LockRequestBuffer, Bufs
<1>6. ~LockDataBuffer(d) /\ ~Unlock(d) /\ ~Exit(d)
  BY <1>1 DEF LockDataBuffer, Unlock, Exit
<1> QED
  BY <1>2, <1>3, <1>4, <1>5, <1>6 DEF DaemonRuns

\* and nobody else takes that back, though a daemon that was reset may take the request.
LEMMA OthersOffer ==
  ASSUME TypeOK, NEW d \in Daemons, pidDaemon = d, ~semRqAvail, [Next]_vars,
         ~ \/ Start(d) \/ LockFails(d) \/ GetInterrupted(d) \/ StopInterrupted(d) \/ Kill(d)
           \/ DaemonRuns(d)
  PROVE  TakenOrGone' \/ (pidDaemon' = d /\ ~semRqAvail' /\ dpc'[d] = dpc[d])
<1>1. CASE UNCHANGED vars
  BY <1>1
<1>2. CASE Reset \/ ResetUnlock
  BY <1>2 DEF Reset, ResetUnlock, Detach, TakenOrGone
<1>3. ASSUME NEW e \in Clients,
             (\E o \in Ops : Enter(e, o)) \/ ClientRuns(e) \/ Interrupted(e)
      PROVE  pidDaemon' = d /\ ~semRqAvail' /\ dpc'[d] = dpc[d]
  <2>1. UNCHANGED <<pidDaemon, dpc>>
    BY <1>3, ClientLeaves
  <2>2. ~semRqAvail'
    BY <1>3 DEF Enter, Interrupted, ClientRuns, Acquire, Submit, RejectArguments, LeakArguments,
                IgnoreArguments, SubmitUnlocked, BadArgument, Wake, CopyOut, undoFindFirst,
                UndoWake, signalDaemon
  <2> QED
    BY <2>1, <2>2
<1>4. ASSUME NEW e \in Daemons \ {d},
             \/ Start(e) \/ LockFails(e) \/ GetInterrupted(e) \/ StopInterrupted(e) \/ Kill(e)
             \/ DaemonRuns(e)
      PROVE  TakenOrGone' \/ (pidDaemon' = d /\ ~semRqAvail' /\ dpc'[d] = dpc[d])
  <2>1. dpc'[d] = dpc[d]
    BY <1>4, DaemonLeaves
  <2>2. TakenOrGone' \/ UNCHANGED <<pidDaemon, semRqAvail>>
    BY <1>4 DEF Start, LockFails, GetInterrupted, StopInterrupted, Kill, DaemonRuns,
                LockRequestBuffer, LockDataBuffer, Initialized, GetRequest, TakeRequest,
                BeginRequest, FinishRequest, DoneRequest, Stop, Unlock, Exit, Detach, TakenOrGone
  <2> QED
    BY <2>1, <2>2
<1> QED
  BY <1>1, <1>2, <1>3, <1>4 DEF Next, DaemonEnters

\* One step, as WaitShortens.
LEMMA OfferShortens ==
  ASSUME "pagefault" \in Faults, TypeOK, AttachedDaemonRuns, NEW d \in Daemons,
         NEW k \in 1 .. 6, NEW j \in 0 .. 5, j = k - 1, Offered(d, k)
  PROVE  /\ DaemonReady(d)
         /\ [Next]_vars => Offered(d, k)' \/ TakenOrGone'
         /\ DaemonRuns(d) => Offered(d, j)' \/ TakenOrGone'
<1>1. pidDaemon = d /\ ~semRqAvail /\ d # NoPid /\ StepsToTake(d) =< k
  BY ProcessAssumption DEF Offered
<1>2. StepsToTake(d) \in 1 .. 6 /\ StepsToTake(d)' \in 1 .. 6
  BY DEF StepsToTake
<1>3. DaemonReady(d)
  BY <1>1 DEF DaemonReady, CanRun, AttachedDaemonRuns
<1>4. ASSUME \/ TakenOrGone'
             \/ pidDaemon' = d /\ ~semRqAvail' /\ StepsToTake(d)' < StepsToTake(d)
      PROVE  Offered(d, j)' \/ TakenOrGone'
  <2>1. StepsToTake(d)' < StepsToTake(d) => StepsToTake(d)' =< j
    BY <1>1, <1>2
  <2> QED
    BY <1>4, <2>1 DEF Offered
<1>5. ASSUME pidDaemon' = d, ~semRqAvail', dpc'[d] = dpc[d] PROVE Offered(d, k)'
  <2>1. StepsToTake(d)' = StepsToTake(d)
    BY <1>5 DEF StepsToTake
  <2> QED
    BY <1>1, <1>5, <2>1 DEF Offered
<1>6. Offered(d, j)' => Offered(d, k)'
  BY <1>2 DEF Offered
<1>7. DaemonRuns(d) => Offered(d, j)' \/ TakenOrGone'
  BY <1>1, <1>4, TakerApproaches
<1>8. [Next]_vars => Offered(d, k)' \/ TakenOrGone'
  BY <1>1, <1>4, <1>5, <1>6, TakerApproaches, OthersOffer
<1> QED
  BY <1>3, <1>7, <1>8

\* A request that is available is taken, or the daemon is detached: an attached daemon
\* always comes round to GET_REQUEST, or stops.  With page faults, where the thread that
\* copies does not keep the daemon from running.
THEOREM RequestAlwaysTaken ==
  ASSUME "pagefault" \in Faults
  PROVE  Scheduled => RequestTaken
<1> DEFINE Step(d, k, j) ==
      /\ TypeOK /\ AttachedDaemonRuns /\ Offered(d, k) => DaemonReady(d)
      /\ TypeOK /\ AttachedDaemonRuns /\ Offered(d, k) /\ [Next]_vars
           => Offered(d, k)' \/ TakenOrGone'
      /\ TypeOK /\ AttachedDaemonRuns /\ Offered(d, k) /\ DaemonRuns(d)
           => Offered(d, j)' \/ TakenOrGone'
<1>1. Scheduled => [](TypeOK /\ AttachedDaemonRuns) /\ [][Next]_vars
  BY TypeCorrect, AttachedDaemonAlwaysRuns, PTL DEF Scheduled, FairSpec, Spec
<1>2. ASSUME NEW d \in Daemons PROVE Scheduled => [](Offered(d, 6) => <>TakenOrGone)
  <2>1. /\ Step(d, 6, 5) /\ Step(d, 5, 4) /\ Step(d, 4, 3)
        /\ Step(d, 3, 2) /\ Step(d, 2, 1) /\ Step(d, 1, 0)
    BY OfferShortens
  <2>2. ~Offered(d, 0)
    BY DEF Offered, StepsToTake
  <2>3. Scheduled => ([]<>~DaemonReady(d) \/ []<><<DaemonRuns(d)>>_vars)
    BY ReadyRuns
  <2>4. Scheduled => (Offered(d, 6) ~> Offered(d, 5) \/ TakenOrGone)
    BY <1>1, <2>1, <2>3, PTL
  <2>5. Scheduled => (Offered(d, 5) ~> Offered(d, 4) \/ TakenOrGone)
    BY <1>1, <2>1, <2>3, PTL
  <2>6. Scheduled => (Offered(d, 4) ~> Offered(d, 3) \/ TakenOrGone)
    BY <1>1, <2>1, <2>3, PTL
  <2>7. Scheduled => (Offered(d, 3) ~> Offered(d, 2) \/ TakenOrGone)
    BY <1>1, <2>1, <2>3, PTL
  <2>8. Scheduled => (Offered(d, 2) ~> Offered(d, 1) \/ TakenOrGone)
    BY <1>1, <2>1, <2>3, PTL
  <2>9. Scheduled => (Offered(d, 1) ~> Offered(d, 0) \/ TakenOrGone)
    BY <1>1, <2>1, <2>3, PTL
  <2> QED
    BY <2>2, <2>4, <2>5, <2>6, <2>7, <2>8, <2>9, PTL
<1>3. Scheduled => \A d \in Daemons : [](Offered(d, 6) => <>TakenOrGone)
  BY <1>2
<1>4. (\A d \in Daemons : [](Offered(d, 6) => <>TakenOrGone))
      => [](\A d \in Daemons : Offered(d, 6) => <>TakenOrGone)
  OBVIOUS
<1>5. TypeOK =>
        ((\A d \in Daemons : Offered(d, 6) => <>TakenOrGone) => (~semRqAvail => <>TakenOrGone))
  <2>1. ASSUME TypeOK, ~semRqAvail, ~TakenOrGone
        PROVE  pidDaemon \in Daemons /\ Offered(pidDaemon, 6)
    BY <2>1 DEF TypeOK, TakenOrGone, Offered, StepsToTake
  <2>2. TakenOrGone => <>TakenOrGone
    BY PTL
  <2> QED
    BY <2>1, <2>2
<1> QED
  BY <1>1, <1>3, <1>4, <1>5, PTL DEF RequestTaken, TakenOrGone

=============================================================================

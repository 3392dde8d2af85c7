-------------------------- MODULE StubFsd_answers --------------------------
(* Proofs about StubFsd: whose answer a thread finds, how often a request is *)
(* executed, and that the driver and the daemon implement RemoteCall.        *)
EXTENDS StubFsd_proofs

USE DEF sems, driver, buffers, threads, daemons, vars

-----------------------------------------------------------------------------
(* Where a request is *)

Handling(d) == dpc[d] \in {"work", "busy", "done"}

\* No request awaits the daemon, and none is being executed.
Quiet == semRqAvail /\ \A d \in Daemons : ~Handling(d)

\* The current request of c has not been answered; or is nowhere at all.
NoAnswer(c) == \A d \in Daemons : rc[d] # c
Fresh(c)    == NoAnswer(c) /\ \A d \in Daemons : rq[d].who # c /\ dreq[d].who # c

\* The request of c, which waits: handed to the daemon d, being executed, answered.
Sent(c, d) == ~semRqAvail /\ semRqDone /\ ~Handling(d) /\ rq[d].who = c /\ NoAnswer(c)

Taken(c, d) ==
  /\ semRqAvail /\ semRqDone
  /\ \/ dpc[d] = "work" /\ rq[d].who = c /\ NoAnswer(c)
     \/ dpc[d] = "busy" /\ dreq[d].who = c /\ NoAnswer(c)
     \/ dpc[d] = "done" /\ rc[d] = c

Answered(c, d) == semRqAvail /\ ~semRqDone /\ ~Handling(d) /\ rc[d] = c

Pending(c, d) == Sent(c, d) \/ Taken(c, d) \/ Answered(c, d)

\* Why the answer is the thread's own.  The two semaphores follow the one request
\* there is, and a thread leaves the buffers behind with no request in them.
AnswersInv ==
  /\ \A c \in Clients : pc[c] \in {"request", "marshal"} => Fresh(c)
  /\ pidDaemon # NoPid =>
       /\ \A c \in Clients : Waits(c) => Pending(c, pidDaemon)
       /\ (\A c \in Clients : ~Waits(c)) => Quiet
  /\ \A c \in Clients : pc[c] = "copyout" => rc[sel[0]] = c /\ Quiet

\* What AnswersInv rests on: proved in StubFsd_proofs.
Grounds == TypeOK /\ ExclusionInv /\ AttachedDaemonRuns /\ LoneDaemon /\ MappedInv

\* The environment of this proof: that of ExchangeIsExclusive, without signals.  A
\* thread whose wait is interrupted leaves its request behind.
KeepsAnswers == KeepsExclusive /\ "signal" \notin Faults

\* The attached daemon is the only one that may handle a request.
LEMMA OnlyAttachedHandles ==
  ASSUME Grounds, pidDaemon # NoPid
  PROVE  /\ pidDaemon \in Daemons /\ sel[0] = pidDaemon
         /\ \A d \in Daemons : Handling(d) => d = pidDaemon
BY DEF Grounds, TypeOK, AttachedDaemonRuns, LoneDaemon, MappedInv, Active, Handling, Bufs

\* Forgetting the past of c takes nothing from another thread, and leaves c fresh.
LEMMA ForgetFresh ==
  ASSUME TypeOK, NEW c \in Clients,
         rq' = Forget(rq, c), rc' = ForgetAnswer(rc, c), dreq' = Forget(dreq, c)
  PROVE  /\ Fresh(c)'
         /\ \A d \in Daemons, e \in Clients \ {c} :
              /\ (rq'[d].who = e) = (rq[d].who = e)
              /\ (dreq'[d].who = e) = (dreq[d].who = e)
              /\ (rc'[d] = e) = (rc[d] = e)
BY ProcessAssumption DEF TypeOK, Forget, ForgetAnswer, Request, Requests, Fresh, NoAnswer

-----------------------------------------------------------------------------
(* A thread finds its own answer *)

\* A request of c that has just been written: another thread's request is as fresh as
\* it was.
LEMMA WriteRequest ==
  ASSUME TypeOK, NEW c \in Clients, NEW o,
         rq' = [rq EXCEPT ![sel[0]] = Request(c, o)], UNCHANGED <<rc, dreq>>
  PROVE  /\ \A e \in Clients \ {c} : Fresh(e) => Fresh(e)'
         /\ \A e \in Clients : NoAnswer(e)' = NoAnswer(e)
         /\ sel[0] \in Daemons => rq'[sel[0]].who = c
BY DEF TypeOK, Request, Fresh, NoAnswer

\* A thread inside is alone there.
LEMMA Alone ==
  ASSUME Grounds, NEW c \in Clients, Inside(c), NEW e \in Clients \ {c}
  PROVE  pc[e] \in {"idle", "request"} /\ ~Waits(e)
BY DEF Grounds, ExclusionInv, ExchangeExclusive, TypeOK, Inside, Waits

\* A thread that is alone inside hands its request to the daemon.
LEMMA AnswersSent ==
  ASSUME Grounds, AnswersInv, NEW c \in Clients, Inside(c), ~Waits(c),
         \A e \in Clients \ {c} : pc'[e] = pc[e] /\ (Fresh(e) => Fresh(e)'),
         Waits(c)', semRqDone' = TRUE, semRqAvail' = FALSE, NoAnswer(c)',
         sel[0] \in Daemons => rq'[sel[0]].who = c,
         UNCHANGED <<driver, dpc>>
  PROVE  AnswersInv'
<1>1. \A e \in Clients \ {c} : pc'[e] \in {"idle", "request"} /\ ~Waits(e)' /\ ~Waits(e)
  BY Alone DEF Waits
<1>2. \A e \in Clients : pc'[e] \in {"request", "marshal"} => Fresh(e)'
  BY <1>1 DEF AnswersInv, Waits
<1>3. ASSUME pidDaemon # NoPid PROVE Sent(c, pidDaemon)'
  <2>1. pidDaemon \in Daemons /\ sel[0] = pidDaemon /\ ~Handling(pidDaemon)
    BY <1>1, <1>3, OnlyAttachedHandles DEF AnswersInv, Quiet
  <2> QED
    BY <2>1 DEF Sent, Handling
<1> QED
  BY <1>1, <1>2, <1>3 DEF AnswersInv, Pending, Waits

\* A thread that has been inside leaves, with no request left behind if a daemon is
\* attached.
LEMMA AnswersLeave ==
  ASSUME Grounds, AnswersInv, NEW c \in Clients, Inside(c), pc'[c] = "idle",
         \A e \in Clients \ {c} : pc'[e] = pc[e] /\ (Fresh(e) => Fresh(e)'),
         pidDaemon # NoPid => Quiet,
         UNCHANGED <<driver, dpc, semRqAvail>>
  PROVE  AnswersInv'
<1>1. \A e \in Clients : pc'[e] \in {"idle", "request"} /\ ~Waits(e)'
  BY Alone DEF Waits
<1>2. \A e \in Clients : pc'[e] \in {"request", "marshal"} => Fresh(e)'
  BY <1>1 DEF AnswersInv
<1> QED
  BY <1>1, <1>2 DEF AnswersInv, Quiet, Handling

\* Entering the driver keeps the invariant.
LEMMA AnswersEnter ==
  ASSUME Grounds, AnswersInv, NEW c \in Clients, NEW o \in Ops, Enter(c, o)
  PROVE  AnswersInv'
<1>1. /\ pc[c] = "idle" /\ ~Waits(c) /\ pc'[c] \in {"idle", "request"} /\ ~Waits(c)'
      /\ \A e \in Clients \ {c} : pc'[e] = pc[e] /\ Waits(e)' = Waits(e)
  BY DEF Grounds, TypeOK, Enter, At, Return, Waits
<1>2. UNCHANGED <<semRqAvail, semRqDone, pidDaemon, sel, dpc>> /\ Quiet' = Quiet
  BY DEF Enter, Quiet, Handling
<1>3. CASE UNCHANGED <<buffers, dreq>> /\ pc'[c] = "idle"
  <2>1. \A e \in Clients : Fresh(e)' = Fresh(e)
    BY <1>3 DEF Fresh, NoAnswer
  <2>2. \A e \in Clients, d \in Daemons : Pending(e, d)' = Pending(e, d)
    BY <1>2, <1>3 DEF Pending, Sent, Taken, Answered, NoAnswer, Handling
  <2> QED
    BY <1>1, <1>2, <1>3, <2>1, <2>2 DEF AnswersInv, Grounds, TypeOK
<1>4. CASE rq' = Forget(rq, c) /\ rc' = ForgetAnswer(rc, c) /\ dreq' = Forget(dreq, c)
  <2>1. /\ Fresh(c)'
        /\ \A d \in Daemons, e \in Clients \ {c} :
             /\ (rq'[d].who = e) = (rq[d].who = e)
             /\ (dreq'[d].who = e) = (dreq[d].who = e)
             /\ (rc'[d] = e) = (rc[d] = e)
    BY <1>4, ForgetFresh DEF Grounds
  <2>2. \A e \in Clients \ {c} : Fresh(e) => Fresh(e)'
    BY <2>1 DEF Fresh, NoAnswer
  <2>3. \A e \in Clients \ {c}, d \in Daemons : Pending(e, d) => Pending(e, d)'
    BY <1>2, <2>1 DEF Pending, Sent, Taken, Answered, NoAnswer, Handling
  <2>4. ASSUME NEW e \in Clients \ {c}, pc[e] = "copyout" PROVE rc'[sel[0]] = e
    BY <2>1, <2>4 DEF AnswersInv, Grounds, MappedInv, Inside, Bufs
  <2> QED
    BY <1>1, <1>2, <2>1, <2>2, <2>3, <2>4 DEF AnswersInv, Grounds, TypeOK
<1> QED
  BY <1>3, <1>4 DEF Enter, Return, Grounds, TypeOK, At

\* The reply that a thread takes is its own, and nothing is left for the daemon to do.
LEMMA AnswersCollected ==
  ASSUME Grounds, AnswersInv, NEW c \in Clients, Waits(c), ~semRqDone, pidDaemon # NoPid
  PROVE  rc[sel[0]] = c /\ Quiet
BY OnlyAttachedHandles
   DEF AnswersInv, Pending, Sent, Taken, Answered, Quiet

\* All steps of a thread do,
LEMMA AnswersClient ==
  ASSUME KeepsAnswers, Grounds, AnswersInv, NEW c \in Clients,
         (\E o \in Ops : Enter(c, o)) \/ ClientRuns(c) \/ Interrupted(c)
  PROVE  AnswersInv'
<1> USE DEF At, Goto, Return
<1>0. /\ UNCHANGED <<driver, dpc>>
      /\ \A e \in Clients \ {c} : pc'[e] = pc[e]
  BY ClientLeaves, ClientMoves DEF Grounds
<1>1. TypeOK /\ DOMAIN pc = Clients
  BY DEF Grounds, TypeOK
<1>2. CASE \E o \in Ops : Enter(c, o)
  BY <1>2, AnswersEnter
<1>3. ~Interrupted(c)
  BY DEF Interrupted, KeepsAnswers
<1>4. CASE Acquire(c)
  <2>1. pc[c] = "request" /\ pc'[c] \in {"idle", "marshal"}
    BY <1>1, <1>4 DEF Acquire
  <2>2. /\ UNCHANGED <<semRqAvail, semRqDone, buffers, dreq>>
        /\ \A e \in Clients : Waits(e)' = Waits(e)
    BY <1>0, <1>4, <2>1 DEF Acquire, Waits
  <2> QED
    BY <1>0, <2>1, <2>2
       DEF AnswersInv, Pending, Sent, Taken, Answered, Quiet, NoAnswer, Fresh, Handling
<1>5. ASSUME NEW e \in Clients \ {c}, Fresh(e), UNCHANGED <<rq, rc, dreq>> PROVE Fresh(e)'
  BY <1>5 DEF Fresh, NoAnswer
<1>6. CASE Submit(c) \/ IgnoreArguments(c)
  <2>1. /\ pc[c] = "marshal" /\ pc'[c] = "wait"
        /\ semRqDone' = TRUE /\ semRqAvail' = FALSE
        /\ rq' = [rq EXCEPT ![sel[0]] = Request(c, op[c])] /\ UNCHANGED <<rc, dreq>>
    BY <1>1, <1>6 DEF Submit, IgnoreArguments, BadArgument, signalDaemon
  <2>2. NoAnswer(c)
    BY <2>1 DEF AnswersInv, Fresh
  <2> QED
    BY <1>0, <1>1, <2>1, <2>2, WriteRequest, AnswersSent DEF Inside, Waits
<1>7. CASE RejectArguments(c) \/ LeakArguments(c)
  <2>1. /\ pc[c] = "marshal" /\ pc'[c] = "idle" /\ UNCHANGED semRqAvail
        /\ rq' = [rq EXCEPT ![sel[0]] = Request(c, op[c])] /\ UNCHANGED <<rc, dreq>>
    BY <1>1, <1>7 DEF RejectArguments, LeakArguments, BadArgument
  <2>2. \A e \in Clients : ~Waits(e)
    BY <2>1, Alone DEF Inside, Waits
  <2>3. pidDaemon # NoPid => Quiet
    BY <2>2 DEF AnswersInv
  <2>4. \A e \in Clients \ {c} : Fresh(e) => Fresh(e)'
    BY <1>1, <2>1, WriteRequest
  <2> QED
    BY <1>0, <2>1, <2>3, <2>4, AnswersLeave DEF Inside
<1>8. ~SubmitUnlocked(c)
  BY DEF SubmitUnlocked, BadArgument, KeepsAnswers, KeepsExclusive, Grounds, ExclusionInv, NoOp,
         FS_FINDCLOSE, Entry
<1>9. CASE Wake(c)
  <2>1. /\ Waits(c) /\ Inside(c) /\ ~semRqDone
        /\ UNCHANGED <<semRqAvail, semRqDone, rq, rc, dreq>>
    BY <1>9 DEF Wake, Waits, Inside
  <2>2. CASE pidDaemon = NoPid
    BY <1>0, <1>1, <1>5, <1>9, <2>1, <2>2, AnswersLeave DEF Wake
  <2>3. CASE pidDaemon # NoPid
    <3>1. pc'[c] = "copyout" /\ rc[sel[0]] = c /\ Quiet
      BY <1>1, <1>9, <2>1, <2>3, AnswersCollected DEF Wake
    <3>2. \A e \in Clients \ {c} : pc'[e] \in {"idle", "request"}
      BY <1>0, <2>1, Alone
    <3>3. Quiet' /\ rc'[sel'[0]] = c
      BY <1>0, <2>1, <3>1 DEF Quiet, Handling
    <3>4. \A e \in Clients : ~Waits(e)' /\ (pc'[e] \in {"request", "marshal"} => Fresh(e)')
      BY <1>0, <1>5, <2>1, <3>1, <3>2 DEF Waits, AnswersInv
    <3> QED
      BY <3>1, <3>2, <3>3, <3>4 DEF AnswersInv
  <2> QED
    BY <2>2, <2>3
<1>10. CASE CopyOut(c)
  <2>1. /\ pc[c] = "copyout" /\ pc'[c] = "idle"
        /\ UNCHANGED <<semRqAvail, rq, rc, dreq>>
    BY <1>1, <1>10 DEF CopyOut
  <2> QED
    BY <1>0, <1>5, <2>1, AnswersLeave DEF AnswersInv, Inside
<1>11. CASE undoFindFirst(c)
  <2>1. /\ pc[c] = "copyout" /\ pc'[c] = "undowait"
        /\ semRqDone' = TRUE /\ semRqAvail' = FALSE
        /\ rq' = [Forget(rq, c) EXCEPT ![sel[0]] = Request(c, FS_FINDCLOSE)]
        /\ rc' = ForgetAnswer(rc, c) /\ dreq' = Forget(dreq, c)
    BY <1>1, <1>11 DEF undoFindFirst, signalDaemon
  <2>2. NoAnswer(c)'
    BY <1>1, <2>1, ProcessAssumption DEF ForgetAnswer, TypeOK, NoAnswer
  <2>3. \A e \in Clients \ {c} : Fresh(e) => Fresh(e)'
    BY <1>1, <2>1, ProcessAssumption
       DEF TypeOK, Forget, ForgetAnswer, Request, Requests, Fresh, NoAnswer
  <2>4. sel[0] \in Daemons => rq'[sel[0]].who = c
    BY <2>1 DEF Forget, Request
  <2> QED
    BY <1>0, <2>1, <2>2, <2>3, <2>4, AnswersSent DEF Inside, Waits
<1>12. CASE UndoWake(c)
  <2>1. /\ Waits(c) /\ Inside(c) /\ ~semRqDone /\ pc'[c] = "idle"
        /\ UNCHANGED <<semRqAvail, rq, rc, dreq>>
    BY <1>1, <1>12 DEF UndoWake, Waits, Inside
  <2> QED
    BY <1>0, <1>5, <2>1, AnswersCollected, AnswersLeave
<1> QED
  BY <1>2, <1>3, <1>4, <1>6, <1>7, <1>8, <1>9, <1>10, <1>11, <1>12 DEF ClientRuns

\* A step of a daemon that has nothing to do with a request.
LEMMA AnswersApart ==
  ASSUME Grounds, AnswersInv, NEW d \in Daemons, ~Handling(d)',
         \A e \in Daemons \ {d} : dpc'[e] = dpc[e],
         UNCHANGED <<pc, rq, rc, dreq, semRqAvail, sel>>,
         \/ pidDaemon' = NoPid
         \/ pidDaemon' = pidDaemon /\ UNCHANGED semRqDone /\ ~Handling(d)
  PROVE  AnswersInv'
<1>1. \A c \in Clients : Fresh(c)' = Fresh(c) /\ Waits(c)' = Waits(c)
  BY DEF Fresh, NoAnswer, Waits
<1>2. Quiet => Quiet'
  BY DEF Quiet, Handling
<1>3. ASSUME pidDaemon' = pidDaemon, UNCHANGED semRqDone, ~Handling(d), pidDaemon # NoPid,
             NEW c \in Clients, Pending(c, pidDaemon)
      PROVE  Pending(c, pidDaemon)'
  <2>1. pidDaemon \in Daemons
    BY <1>3 DEF Grounds, TypeOK
  <2>2. CASE pidDaemon = d
    BY <1>3, <2>1, <2>2 DEF Pending, Sent, Taken, Answered, NoAnswer, Handling
  <2>3. CASE pidDaemon # d
    BY <1>3, <2>1, <2>3 DEF Pending, Sent, Taken, Answered, NoAnswer, Handling
  <2> QED
    BY <2>2, <2>3
<1> QED
  BY <1>1, <1>2, <1>3 DEF AnswersInv

\* A step of the daemon that handles the request: nobody copies a result out, and if
\* the daemon is attached it is the request of the thread that waits.
LEMMA AnswersHandled ==
  ASSUME Grounds, AnswersInv, NEW d \in Daemons, Active(d), ~Quiet,
         UNCHANGED <<pc, pidDaemon>>,
         \A c \in Clients : Fresh(c) => Fresh(c)',
         ASSUME pidDaemon = d, NEW c \in Clients, Pending(c, d) PROVE Pending(c, d)'
  PROVE  AnswersInv'
<1>1. pidDaemon # NoPid => pidDaemon = d
  BY AttachedIsActive DEF Grounds
<1>2. \A c \in Clients : pc[c] # "copyout"
  BY DEF AnswersInv
<1>3. pidDaemon # NoPid => ~ \A c \in Clients : ~Waits(c)'
  BY DEF AnswersInv, Waits
<1>4. \A c \in Clients : Waits(c)' = Waits(c)
  BY DEF Waits
<1> QED
  BY <1>1, <1>2, <1>3, <1>4 DEF AnswersInv

\* and those of a daemon.
LEMMA AnswersDaemon ==
  ASSUME KeepsAnswers, Grounds, AnswersInv, NEW d \in Daemons,
         \/ Start(d) \/ LockFails(d) \/ GetInterrupted(d) \/ StopInterrupted(d) \/ Kill(d)
         \/ DaemonRuns(d)
  PROVE  AnswersInv'
<1> USE DEF DaemonAt, DaemonGoto, Detach
<1>0. /\ \A e \in Daemons \ {d} : dpc'[e] = dpc[e]
      /\ UNCHANGED <<pc, rq>>
      /\ DOMAIN dpc = Daemons /\ DOMAIN rc = Daemons /\ DOMAIN dreq = Daemons
  BY DaemonLeaves DEF Grounds, TypeOK
<1>1. CASE Start(d) \/ LockFails(d) \/ Initialized(d) \/ GetRequest(d) \/ Unlock(d) \/ Exit(d)
  <2>1. /\ UNCHANGED <<rc, dreq, semRqAvail, semRqDone, sel, pidDaemon>>
        /\ ~Handling(d) /\ ~Handling(d)'
    BY <1>0, <1>1
       DEF Start, LockFails, Initialized, GetRequest, Unlock, Exit, Handling, Bufs
  <2> QED
    BY <1>0, <2>1, AnswersApart
<1>2. ~GetInterrupted(d) /\ ~StopInterrupted(d)
  BY DEF GetInterrupted, StopInterrupted, KeepsAnswers, KeepsExclusive
<1>3. CASE Kill(d) \/ Stop(d)
  <2>1. pidDaemon' = NoPid \/ (pidDaemon' = pidDaemon /\ UNCHANGED semRqDone /\ pidDaemon # d)
    BY <1>0, <1>3 DEF Kill, Stop, Handling, Active
  <2>2. /\ UNCHANGED <<rc, dreq, semRqAvail, sel>> /\ ~Handling(d)'
    BY <1>0, <1>3 DEF Kill, Stop, Handling
  <2>3. pidDaemon # NoPid /\ pidDaemon # d => ~Handling(d)
    BY OnlyAttachedHandles
  <2> QED
    BY <1>0, <2>1, <2>2, <2>3, AnswersApart
<1>4. CASE LockRequestBuffer(d) \/ LockDataBuffer(d)
  <2>1. Starting(d) /\ Active(d) /\ ~Running(d) /\ ~Handling(d)'
    BY <1>0, <1>4 DEF LockRequestBuffer, LockDataBuffer, Starting, Active, Running, Handling
  <2>2. \A c \in Clients : ~Inside(c) /\ ~Waits(c)' /\ pc'[c] # "copyout"
    BY <1>0, <2>1 DEF Grounds, ExclusionInv, Inside, Waits
  <2>3. \A c \in Clients : Fresh(c)' = Fresh(c)
    BY <1>0, <1>4 DEF LockRequestBuffer, LockDataBuffer, Fresh, NoAnswer
  <2>4. \A e \in Daemons : ~Handling(e)'
    BY <1>0, <2>1 DEF Grounds, LoneDaemon, Active, Handling
  <2>5. pidDaemon' = NoPid \/ semRqAvail' = TRUE
    BY <1>4, <2>1, AttachedIsActive DEF Grounds, LockRequestBuffer, LockDataBuffer
  <2> QED
    BY <1>0, <2>2, <2>3, <2>4, <2>5 DEF AnswersInv, Quiet
<1>5. CASE TakeRequest(d)
  <2>1. /\ ~semRqAvail /\ semRqAvail' /\ dpc'[d] = "work" /\ Active(d)
        /\ UNCHANGED <<rc, dreq, semRqDone, pidDaemon>>
    BY <1>0, <1>5 DEF TakeRequest, Active
  <2>2. \A c \in Clients : (Fresh(c) => Fresh(c)') /\ (Pending(c, d) => Pending(c, d)')
    BY <1>0, <2>1 DEF Fresh, NoAnswer, Pending, Sent, Taken, Answered
  <2> QED
    BY <1>0, <2>1, <2>2, AnswersHandled DEF Quiet
<1>6. CASE BeginRequest(d)
  <2>1. /\ dpc[d] = "work" /\ dpc'[d] = "busy" /\ dreq' = [dreq EXCEPT ![d] = rq[d]]
        /\ UNCHANGED <<rc, semRqAvail, semRqDone, pidDaemon>>
    BY <1>0, <1>6 DEF BeginRequest
  <2>2. \A c \in Clients : (Fresh(c) => Fresh(c)') /\ (Pending(c, d) => Pending(c, d)')
    BY <1>0, <2>1 DEF Fresh, NoAnswer, Pending, Sent, Taken, Answered, Handling
  <2> QED
    BY <1>0, <2>1, <2>2, AnswersHandled DEF Quiet, Active, Handling
<1>7. CASE FinishRequest(d)
  <2>1. /\ dpc[d] = "busy" /\ dpc'[d] = "done" /\ rc' = [rc EXCEPT ![d] = dreq[d].who]
        /\ dreq' = [dreq EXCEPT ![d] = NoRequest] /\ NoRequest.who = NoPid
        /\ UNCHANGED <<semRqAvail, semRqDone, pidDaemon>>
    BY <1>0, <1>7 DEF FinishRequest, NoRequest, Request
  <2>2. \A c \in Clients : Fresh(c) => Fresh(c)'
    BY <1>0, <2>1, ProcessAssumption DEF Fresh, NoAnswer
  <2>3. \A c \in Clients : Pending(c, d) => Pending(c, d)'
    BY <1>0, <2>1 DEF Pending, Sent, Taken, Answered, Handling
  <2> QED
    BY <1>0, <2>1, <2>2, <2>3, AnswersHandled DEF Quiet, Active, Handling
<1>8. CASE DoneRequest(d)
  <2>1. /\ dpc[d] = "done" /\ dpc'[d] \in {"run", "quit"}
        /\ pidDaemon = d => ~semRqDone'
        /\ UNCHANGED <<rc, dreq, semRqAvail, pidDaemon>>
    BY <1>0, <1>8 DEF DoneRequest
  <2>2. \A c \in Clients : Fresh(c) => Fresh(c)'
    BY <1>0, <2>1 DEF Fresh, NoAnswer
  <2>3. \A c \in Clients : pidDaemon = d /\ Pending(c, d) => Pending(c, d)'
    BY <1>0, <2>1 DEF Pending, Sent, Taken, Answered, Handling
  <2> QED
    BY <1>0, <2>1, <2>2, <2>3, AnswersHandled DEF Quiet, Active, Handling
<1> QED
  BY <1>1, <1>2, <1>3, <1>4, <1>5, <1>6, <1>7, <1>8 DEF DaemonRuns

\* It is inductive, given the grounds.
LEMMA AnswersStep ==
  ASSUME KeepsAnswers
  PROVE  Grounds /\ AnswersInv /\ [Next]_vars => AnswersInv'
<1> SUFFICES ASSUME Grounds, AnswersInv, [Next]_vars PROVE AnswersInv'
  OBVIOUS
<1>1. ASSUME UNCHANGED <<threads, daemons, buffers, semRqAvail, sel>>,
             pidDaemon' = NoPid \/ UNCHANGED <<pidDaemon, semRqDone>>
      PROVE  AnswersInv'
  BY <1>1 DEF AnswersInv, Waits, Pending, Sent, Taken, Answered, NoAnswer, Fresh, Quiet, Handling
<1>2. CASE Reset \/ ResetUnlock
  BY <1>1, <1>2, ResetLeaves DEF Reset, ResetUnlock, Detach
<1>3. CASE UNCHANGED vars
  BY <1>1, <1>3
<1> QED
  BY <1>2, <1>3, AnswersClient, AnswersDaemon DEF Next, DaemonEnters

\* So it always holds.
LEMMA AnswersAlways ==
  ASSUME KeepsAnswers
  PROVE  Spec => [](Grounds /\ AnswersInv)
<1>1. Init => AnswersInv
  BY DEF Init, AnswersInv, Fresh, NoAnswer, Waits
<1>2. Grounds /\ AnswersInv /\ [Next]_vars => AnswersInv'
  BY AnswersStep
<1>3. Spec => []Grounds
  BY MappedAlways DEF KeepsAnswers, Grounds
<1> QED
  BY <1>1, <1>2, <1>3, PTL DEF Spec

\* Where the buffers are exclusive and no wait is interrupted, what a thread copies
\* out is the answer to its own request, though daemons die, fail to start and are
\* reset while they hold a request, and calls fail on either side of it.
THEOREM AnswerIsOwn ==
  ASSUME KeepsAnswers
  PROVE  Spec => []OwnAnswer
<1>1. AnswersInv => OwnAnswer
  BY DEF AnswersInv, OwnAnswer
<1> QED
  BY <1>1, AnswersAlways, PTL

-----------------------------------------------------------------------------
(* A request is executed once *)

\* ... and in whose absence only its own end detaches a daemon.
KeepsCalls == KeepsAnswers /\ "reset" \notin Faults

\* A daemon that runs is the attached one; only a result that could not be delivered
\* has undoFindFirst() wait.
OrderlyInv ==
  /\ reset = "idle"
  /\ \A d \in Daemons : Running(d) => pidDaemon = d
  /\ \A c \in Clients : pc[c] = "undowait" => "badresult" \in Faults

\* Steps of a thread keep requests in order,
LEMMA OrderlyClient ==
  ASSUME TypeOK, OrderlyInv, NEW c \in Clients,
         (\E o \in Ops : Enter(c, o)) \/ ClientRuns(c) \/ Interrupted(c)
  PROVE  OrderlyInv'
<1> USE DEF TypeOK, At, Goto, Return
<1>0. /\ UNCHANGED <<driver, dpc, reset>>
      /\ \A e \in Clients \ {c} : pc'[e] = pc[e]
  BY ClientLeaves, ClientMoves
<1> SUFFICES pc'[c] = "undowait" => "badresult" \in Faults
  BY <1>0 DEF OrderlyInv, Running
<1>1. CASE \E o \in Ops : Enter(c, o)
  BY <1>1 DEF Enter
<1>2. CASE Interrupted(c)
  BY <1>2 DEF Interrupted
<1>3. CASE Acquire(c) \/ Submit(c) \/ RejectArguments(c) \/ LeakArguments(c)
  BY <1>3 DEF Acquire, Submit, RejectArguments, LeakArguments, signalDaemon
<1>4. CASE IgnoreArguments(c) \/ SubmitUnlocked(c) \/ Wake(c) \/ CopyOut(c)
  BY <1>4 DEF IgnoreArguments, SubmitUnlocked, Wake, CopyOut, signalDaemon
<1>5. CASE undoFindFirst(c) \/ UndoWake(c)
  BY <1>5 DEF undoFindFirst, UndoWake
<1> QED
  BY <1>1, <1>2, <1>3, <1>4, <1>5 DEF ClientRuns

\* and those of a daemon.
LEMMA OrderlyDaemon ==
  ASSUME TypeOK, AttachedDaemonRuns, LoneDaemon, OrderlyInv, NEW d \in Daemons,
         \/ Start(d) \/ LockFails(d) \/ GetInterrupted(d) \/ StopInterrupted(d) \/ Kill(d)
         \/ DaemonRuns(d)
  PROVE  OrderlyInv'
<1> USE DEF TypeOK, Running, DaemonAt, DaemonGoto, Detach
<1>0. /\ \A e \in Daemons \ {d} : dpc'[e] = dpc[e]
      /\ UNCHANGED <<pc, reset>>
  BY DaemonLeaves
<1>1. ASSUME Running(d)' => pidDaemon' = d,
             UNCHANGED pidDaemon \/ Active(d)
      PROVE  OrderlyInv'
  <2>1. \A e \in Daemons \ {d} : Running(e)' => pidDaemon' = e
    BY <1>0, <1>1 DEF OrderlyInv, LoneDaemon, Active
  <2> QED
    BY <1>0, <1>1, <2>1 DEF OrderlyInv
<1>2. Running(d) => pidDaemon = d
  BY DEF OrderlyInv
<1>3. CASE Start(d) \/ LockFails(d) \/ GetInterrupted(d) \/ StopInterrupted(d)
  BY <1>1, <1>2, <1>3 DEF Start, LockFails, GetInterrupted, StopInterrupted
<1>4. CASE Kill(d) \/ Stop(d)
  BY <1>1, <1>2, <1>4, ProcessAssumption DEF Kill, Stop, AttachedDaemonRuns, Active
<1>5. CASE LockRequestBuffer(d) \/ LockDataBuffer(d)
  BY <1>1, <1>5 DEF LockRequestBuffer, LockDataBuffer, Active
<1>6. CASE Initialized(d) \/ GetRequest(d) \/ TakeRequest(d)
  BY <1>1, <1>2, <1>6 DEF Initialized, GetRequest, TakeRequest
<1>7. CASE BeginRequest(d) \/ FinishRequest(d) \/ DoneRequest(d)
  BY <1>1, <1>2, <1>7 DEF BeginRequest, FinishRequest, DoneRequest
<1>8. CASE Unlock(d) \/ Exit(d)
  BY <1>1, <1>2, <1>8 DEF Unlock, Exit
<1> QED
  BY <1>3, <1>4, <1>5, <1>6, <1>7, <1>8 DEF DaemonRuns

\* So they always are.
LEMMA OrderlyAlways ==
  ASSUME KeepsCalls
  PROVE  Spec => [](Grounds /\ AnswersInv /\ OrderlyInv)
<1>1. Init => OrderlyInv
  BY DEF Init, OrderlyInv, Running
<1>2. Grounds /\ OrderlyInv /\ [Next]_vars => OrderlyInv'
  <2> SUFFICES ASSUME Grounds, OrderlyInv, [Next]_vars PROVE OrderlyInv'
    OBVIOUS
  <2>1. ~Reset /\ ~ResetUnlock
    BY DEF KeepsCalls, OrderlyInv, Reset, ResetUnlock
  <2>2. CASE UNCHANGED vars
    BY <2>2 DEF OrderlyInv, Running
  <2> QED
    BY <2>1, <2>2, OrderlyClient, OrderlyDaemon DEF Next, DaemonEnters, Grounds
<1>3. Spec => [](Grounds /\ AnswersInv)
  BY AnswersAlways DEF KeepsCalls
<1> QED
  BY <1>1, <1>2, <1>3, PTL DEF Spec

\* The daemon that executes a request does it for the thread that waits for it.
LEMMA BusyForWaiting ==
  ASSUME Grounds, AnswersInv, OrderlyInv, NEW d \in Daemons, dpc[d] = "busy"
  PROVE  /\ pidDaemon = d /\ d # NoPid
         /\ \E c \in Clients : Waits(c) /\ dreq[d].who = c /\ NoAnswer(c)
<1>1. pidDaemon = d /\ d # NoPid
  BY ProcessAssumption DEF OrderlyInv, Running
<1>2. ~Quiet
  BY DEF Quiet, Handling
<1>3. PICK c \in Clients : Waits(c) /\ Pending(c, d)
  BY <1>1, <1>2 DEF AnswersInv
<1> QED
  BY <1>1, <1>3 DEF Pending, Sent, Taken, Answered, Handling

\* Without a forced detach besides, the daemon executes each request at most once, and
\* only while the thread that made it waits: one that it took before it died, or that
\* a thread left behind, is never executed for another.
THEOREM RequestsExecuteOnce ==
  ASSUME KeepsCalls
  PROVE  Spec => ExecutesOnce
<1>1. Grounds /\ AnswersInv /\ OrderlyInv /\ [Next]_vars
        => [\A d \in Daemons : dpc[d] = "busy" /\ dpc'[d] = "done" =>
              \E c \in Clients : /\ dreq[d].who = c
                                /\ pc[c] \in {"wait", "undowait"}
                                /\ \A e \in Daemons : rc[e] # c]_vars
  BY BusyForWaiting DEF Waits, NoAnswer
<1>2. Spec => [](Grounds /\ AnswersInv /\ OrderlyInv)
  BY OrderlyAlways
<1> QED
  BY <1>1, <1>2, PTL DEF Spec, ExecutesOnce

-----------------------------------------------------------------------------
(* The driver and the daemon implement RemoteCall *)

\* What callState makes of a thread.
LEMMA CallStates ==
  ASSUME NEW c \in Clients
  PROVE  /\ pc[c] = "idle" => callState[c] = "idle"
         /\ pc[c] = "undowait" => callState[c] = "done"
         /\ pc[c] \notin {"idle", "undowait"} /\ NoAnswer(c) => callState[c] = "called"
         /\ pc[c] # "idle" /\ ~NoAnswer(c) => callState[c] = "done"
         /\ pc'[c] = "idle" => callState'[c] = "idle"
         /\ pc'[c] = "undowait" => callState'[c] = "done"
         /\ pc'[c] \notin {"idle", "undowait"} /\ NoAnswer(c)' => callState'[c] = "called"
         /\ pc'[c] # "idle" /\ ~NoAnswer(c)' => callState'[c] = "done"
BY DEF callState, NoAnswer

\* The mapped state has the type that RemoteCall expects.
LEMMA CallFunction ==
  /\ callState \in [Clients -> {"idle", "called", "done"}]
  /\ callState' \in [Clients -> {"idle", "called", "done"}]
BY DEF callState

\* A step in which only c moves changes the call of c alone.
LEMMA CallMoves ==
  ASSUME NEW c \in Clients,
         \A e \in Clients \ {c} : pc'[e] = pc[e] /\ NoAnswer(e)' = NoAnswer(e)
  PROVE  callState' = [callState EXCEPT ![c] = callState'[c]]
<1>1. \A e \in Clients \ {c} : callState'[e] = callState[e]
  BY DEF callState, NoAnswer
<1> QED
  BY <1>1, CallFunction

\* A step in which no thread moves, and nobody is answered, changes no call.
LEMMA CallStays ==
  ASSUME UNCHANGED <<pc, rc>>
  PROVE  callState' = callState
BY DEF callState

\* A call that returns finishes.
LEMMA CallReturns ==
  ASSUME NEW c \in Clients, NEW r, Return(c, r), DOMAIN pc = Clients, UNCHANGED <<rc, pidDaemon>>
  PROVE  Remote!Finish(c, r)
<1>1. pc'[c] = "idle" /\ \A e \in Clients \ {c} : pc'[e] = pc[e]
  BY DEF Return
<1>2. \A e \in Clients : NoAnswer(e)' = NoAnswer(e)
  BY DEF NoAnswer
<1>3. callState' = [callState EXCEPT ![c] = "idle"]
  BY <1>1, <1>2, CallMoves, CallStates
<1> QED
  BY <1>3 DEF Return, Remote!Finish

\* A thread that goes from one place inside a call to another.
LEMMA CallGoes ==
  ASSUME NEW c \in Clients, UNCHANGED <<ret, pidDaemon>>,
         \A e \in Clients \ {c} : pc'[e] = pc[e] /\ NoAnswer(e)' = NoAnswer(e),
         callState'[c] = callState[c]
  PROVE  UNCHANGED Remote!vars
<1>1. callState' = callState
  BY CallMoves, CallFunction
<1> QED
  BY <1>1 DEF Remote!vars

\* Entering the driver is a call,
LEMMA RemoteEnter ==
  ASSUME Grounds, NEW c \in Clients, NEW o \in Ops, Enter(c, o)
  PROVE  [Remote!Next]_Remote!vars
<1>0. pc[c] = "idle" /\ DOMAIN pc = Clients /\ UNCHANGED pidDaemon
  BY DEF Grounds, TypeOK, Enter, At
<1>1. CASE pidDaemon # NoPid /\ pc' = [pc EXCEPT ![c] = "request"]
             /\ ret' = [ret EXCEPT ![c] = "none"]
             /\ rq' = Forget(rq, c) /\ rc' = ForgetAnswer(rc, c) /\ dreq' = Forget(dreq, c)
  <2>1. /\ NoAnswer(c)'
        /\ \A e \in Clients \ {c} : pc'[e] = pc[e] /\ NoAnswer(e)' = NoAnswer(e)
    BY <1>0, <1>1, ForgetFresh DEF Grounds, Fresh, NoAnswer
  <2>2. callState[c] = "idle" /\ callState'[c] = "called"
    BY <1>0, <1>1, <2>1, CallStates
  <2>3. callState' = [callState EXCEPT ![c] = "called"]
    BY <2>1, <2>2, CallMoves
  <2> QED
    BY <1>0, <1>1, <2>2, <2>3 DEF Remote!Next, Remote!Call
<1>2. CASE (pidDaemon = NoPid \/ "badarg" \in Faults) /\ Return(c, "error") /\ UNCHANGED buffers
  BY <1>0, <1>2, CallReturns DEF Remote!Next, Remote!NoDaemon, Remote!Reject
<1>3. CASE pidDaemon = NoPid /\ Return(c, "skipped") /\ UNCHANGED buffers
  BY <1>0, <1>3, CallReturns DEF Remote!Next, Remote!NoDaemon
<1> QED
  BY <1>1, <1>2, <1>3 DEF Enter

\* the other steps of a thread are answers, rejections or stutters,
LEMMA RemoteClient ==
  ASSUME KeepsCalls, Grounds, AnswersInv, OrderlyInv, NEW c \in Clients,
         (\E o \in Ops : Enter(c, o)) \/ ClientRuns(c) \/ Interrupted(c)
  PROVE  [Remote!Next]_Remote!vars
<1> USE DEF At, Goto
<1>0. /\ UNCHANGED pidDaemon
      /\ \A e \in Clients \ {c} : pc'[e] = pc[e]
      /\ DOMAIN pc = Clients
  BY ClientLeaves, ClientMoves DEF Grounds, TypeOK
<1>1. UNCHANGED rc => \A e \in Clients : NoAnswer(e)' = NoAnswer(e)
  BY DEF NoAnswer
<1>2. CASE \E o \in Ops : Enter(c, o)
  BY <1>2, RemoteEnter
<1>3. ~Interrupted(c) /\ ~SubmitUnlocked(c)
  BY DEF Interrupted, SubmitUnlocked, BadArgument, KeepsCalls, KeepsAnswers, KeepsExclusive,
         Grounds, ExclusionInv, NoOp, FS_FINDCLOSE, Entry
<1>4. CASE Acquire(c)
  <2>1. pc[c] = "request" /\ NoAnswer(c) /\ UNCHANGED rc
    BY <1>4 DEF Acquire, AnswersInv, Fresh
  <2>2. CASE pidDaemon = NoPid
    BY <1>0, <1>4, <2>1, <2>2, CallReturns DEF Acquire, Remote!Next, Remote!NoDaemon
  <2>3. CASE pidDaemon # NoPid
    <3>1. pc'[c] = "marshal" /\ UNCHANGED ret
      BY <1>0, <1>4, <2>3 DEF Acquire
    <3> QED
      BY <1>0, <1>1, <2>1, <3>1, CallStates, CallGoes
  <2> QED
    BY <2>2, <2>3
<1>5. CASE Submit(c) \/ IgnoreArguments(c)
  <2>1. pc[c] = "marshal" /\ NoAnswer(c) /\ pc'[c] = "wait" /\ UNCHANGED <<rc, ret>>
    BY <1>0, <1>5 DEF Submit, IgnoreArguments, BadArgument, signalDaemon, AnswersInv, Fresh
  <2> QED
    BY <1>0, <1>1, <2>1, CallStates, CallGoes
<1>6. CASE RejectArguments(c) \/ LeakArguments(c)
  BY <1>0, <1>6, CallReturns
     DEF RejectArguments, LeakArguments, BadArgument, Remote!Next, Remote!Reject
<1>7. CASE Wake(c)
  <2>1. pc[c] = "wait" /\ Waits(c) /\ ~semRqDone /\ UNCHANGED rc
    BY <1>7 DEF Wake, Waits
  <2>2. CASE pidDaemon = NoPid
    BY <1>0, <1>7, <2>1, <2>2, CallReturns DEF Wake, Remote!Next, Remote!NoDaemon
  <2>3. CASE pidDaemon # NoPid
    <3>1. pc'[c] = "copyout" /\ UNCHANGED ret
      BY <1>0, <1>7, <2>3 DEF Wake
    <3> QED
      BY <1>0, <1>1, <2>1, <3>1, CallStates, CallGoes
  <2> QED
    BY <2>2, <2>3
<1>8. ASSUME pc[c] = "copyout" PROVE callState[c] = "done"
  <2>1. sel[0] \in Daemons /\ rc[sel[0]] = c
    BY <1>8 DEF Grounds, MappedInv, Inside, Bufs, AnswersInv
  <2> QED
    BY <1>8, <2>1, CallStates DEF NoAnswer
<1>9. CASE CopyOut(c)
  <2>1. pc[c] = "copyout" /\ UNCHANGED rc
    BY <1>9 DEF CopyOut
  <2> QED
    BY <1>0, <1>8, <1>9, <2>1, CallReturns
       DEF CopyOut, Remote!Next, Remote!Answer, Remote!Reject
<1>10. CASE undoFindFirst(c)
  <2>1. /\ pc[c] = "copyout" /\ pc'[c] = "undowait" /\ UNCHANGED ret
        /\ rc' = ForgetAnswer(rc, c)
    BY <1>0, <1>10 DEF undoFindFirst, signalDaemon
  <2>2. \A e \in Clients \ {c} : NoAnswer(e)' = NoAnswer(e)
    BY <2>1, ProcessAssumption DEF Grounds, TypeOK, ForgetAnswer, NoAnswer
  <2>3. callState'[c] = "done"
    BY <2>1, CallStates
  <2> QED
    BY <1>0, <1>8, <2>1, <2>2, <2>3, CallGoes
<1>11. CASE UndoWake(c)
  <2>1. pc[c] = "undowait" /\ Return(c, "error") /\ UNCHANGED rc
    BY <1>11 DEF UndoWake
  <2> QED
    BY <1>0, <2>1, CallReturns DEF OrderlyInv, Remote!Next, Remote!Reject
<1> QED
  BY <1>2, <1>3, <1>4, <1>5, <1>6, <1>7, <1>9, <1>10, <1>11 DEF ClientRuns

\* The daemon performs a call when it finishes the request of the thread that waits.
LEMMA RemoteFinish ==
  ASSUME Grounds, AnswersInv, OrderlyInv, NEW d \in Daemons, FinishRequest(d)
  PROVE  [Remote!Next]_Remote!vars
<1>1. /\ dpc[d] = "busy" /\ rc' = [rc EXCEPT ![d] = dreq[d].who]
      /\ UNCHANGED <<threads, pidDaemon>> /\ DOMAIN rc = Daemons
  BY DEF FinishRequest, DaemonAt, Grounds, TypeOK
<1>2. PICK c \in Clients : Waits(c) /\ dreq[d].who = c /\ NoAnswer(c)
  BY <1>1, BusyForWaiting
<1>3. pidDaemon # NoPid
  BY <1>1, BusyForWaiting
<1>4. ~NoAnswer(c)' /\ \A e \in Clients \ {c} : NoAnswer(e) => NoAnswer(e)'
  BY <1>1, <1>2 DEF NoAnswer
<1>5. \A e \in Clients \ {c} : pc[e] = "idle" \/ (pc[e] = "request" /\ NoAnswer(e))
  <2>1. Inside(c)
    BY <1>2 DEF Inside, Waits
  <2> QED
    BY <2>1, Alone DEF AnswersInv, Fresh
<1>6. \A e \in Clients \ {c} : callState'[e] = callState[e] /\ callState[e] # "done"
  BY <1>1, <1>4, <1>5, CallStates
<1>7. callState'[c] = "done" /\ callState[c] \in {"called", "done"}
  BY <1>1, <1>2, <1>4, CallStates DEF Waits
<1>8. callState' = [callState EXCEPT ![c] = "done"]
  BY <1>6, <1>7, CallFunction
<1>9. CASE callState[c] = "called"
  BY <1>1, <1>3, <1>6, <1>8, <1>9 DEF Remote!Next, Remote!Perform
<1>10. CASE callState[c] = "done"
  <2>1. callState' = callState
    BY <1>8, <1>10, CallFunction
  <2> QED
    BY <1>1, <2>1 DEF Remote!vars
<1> QED
  BY <1>7, <1>9, <1>10

\* those of a daemon perform calls or are stutters.
LEMMA RemoteDaemon ==
  ASSUME Grounds, AnswersInv, OrderlyInv, NEW d \in Daemons,
         \/ Start(d) \/ LockFails(d) \/ GetInterrupted(d) \/ StopInterrupted(d) \/ Kill(d)
         \/ DaemonRuns(d)
  PROVE  [Remote!Next]_Remote!vars
<1> USE DEF DaemonAt, DaemonGoto, Detach
<1>0. UNCHANGED threads
  BY DaemonLeaves DEF Grounds
<1>1. ASSUME UNCHANGED <<rc, pidDaemon>> PROVE UNCHANGED Remote!vars
  BY <1>0, <1>1, CallStays DEF Remote!vars
<1>2. CASE FinishRequest(d)
  BY <1>2, RemoteFinish
<1>3. CASE LockDataBuffer(d)
  <2>1. Active(d) /\ ~Running(d) /\ pidDaemon' = d /\ UNCHANGED rc
    BY <1>3 DEF LockDataBuffer, Active, Running
  <2>2. pidDaemon = NoPid /\ pidDaemon' # NoPid
    BY <2>1, AttachedIsActive, ProcessAssumption DEF Grounds
  <2> QED
    BY <1>0, <2>1, <2>2, CallStays DEF Remote!Next, Remote!Attach
<1>4. CASE Kill(d) \/ Stop(d)
  <2>1. CASE pidDaemon = d
    <3>1. pidDaemon # NoPid /\ pidDaemon' = NoPid /\ UNCHANGED rc
      BY <1>4, <2>1, ProcessAssumption DEF Kill, Stop
    <3> QED
      BY <1>0, <3>1, CallStays DEF Remote!Next, Remote!Detach
  <2>2. CASE pidDaemon # d
    BY <1>1, <1>4, <2>2 DEF Kill, Stop
  <2> QED
    BY <2>1, <2>2
<1>5. CASE Start(d) \/ LockFails(d) \/ GetInterrupted(d) \/ StopInterrupted(d)
  BY <1>1, <1>5 DEF Start, LockFails, GetInterrupted, StopInterrupted
<1>6. CASE LockRequestBuffer(d) \/ Initialized(d) \/ GetRequest(d) \/ TakeRequest(d)
  BY <1>1, <1>6 DEF LockRequestBuffer, Initialized, GetRequest, TakeRequest
<1>7. CASE BeginRequest(d) \/ DoneRequest(d) \/ Unlock(d) \/ Exit(d)
  BY <1>1, <1>7 DEF BeginRequest, DoneRequest, Unlock, Exit
<1> QED
  BY <1>2, <1>3, <1>4, <1>5, <1>6, <1>7 DEF DaemonRuns

\* Every step is a step of RemoteCall or a stutter.
LEMMA RemoteStep ==
  ASSUME KeepsCalls
  PROVE  Grounds /\ AnswersInv /\ OrderlyInv /\ [Next]_vars => [Remote!Next]_Remote!vars
<1> SUFFICES ASSUME Grounds, AnswersInv, OrderlyInv, [Next]_vars
             PROVE  [Remote!Next]_Remote!vars
  OBVIOUS
<1>1. ~Reset /\ ~ResetUnlock
  BY DEF KeepsCalls, OrderlyInv, Reset, ResetUnlock
<1>2. CASE UNCHANGED vars
  BY <1>2, CallStays DEF Remote!vars
<1> QED
  BY <1>1, <1>2, RemoteClient, RemoteDaemon DEF Next, DaemonEnters

\* The driver and the daemon implement RemoteCall, for any number of threads and of
\* successive daemons: every call is performed at most once and one at a time, and a
\* thread gets a result only for a call that was performed, an error only when no
\* daemon is attached or an argument cannot be accepted.
THEOREM RemoteCallImplemented ==
  ASSUME KeepsCalls
  PROVE  Spec => ImplementsRemoteCall
<1>1. Init => Remote!Init
  BY DEF Init, Remote!Init, callState
<1>2. Grounds /\ AnswersInv /\ OrderlyInv /\ [Next]_vars => [Remote!Next]_Remote!vars
  BY RemoteStep
<1>3. Spec => [](Grounds /\ AnswersInv /\ OrderlyInv)
  BY OrderlyAlways
<1> QED
  BY <1>1, <1>2, <1>3, PTL DEF Spec, ImplementsRemoteCall, Remote!Spec

=============================================================================

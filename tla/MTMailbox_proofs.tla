-------------------------- MODULE MTMailbox_proofs --------------------------
(***************************************************************************)
(* Theorems about the mailboxes of dos/mthread.c, for any number of threads *)
(* and mailboxes.  A thread that waits in a mailbox must not be killed:     *)
(* MTKillThread looks for it in a semaphore's queue.  As long as none is,   *)
(* the kernel's queues are as sound as without mailboxes and every call     *)
(* that blocks moves one message.                                           *)
(***************************************************************************)
EXTENDS MTMailbox, MicroThread_proofs, FiniteSetTheorems

mailVars == <<vars, mbVars>>

\* MTKillThread is not called for a thread inside a mailbox call.
SparesCallers ==
  \A t \in Threads : KillBody(t) => mbCall[frame[t].arg].op = "none"
NoCallerKilled == [][SparesCallers]_mailVars

-----------------------------------------------------------------------------
(* The inductive invariant.                                                  *)

Sides == {"send", "receive"}
Call == {NoCall} \union [op : Sides, box : Mailboxes]
Message == [from : Threads, to : Threads, size : Nat]

BoxesTyped ==
  /\ mbInUse \in [Mailboxes -> BOOLEAN]
  /\ numSenders \in [Mailboxes -> Nat]
  /\ numReceivers \in [Mailboxes -> Nat]
  /\ mbQ \in [Mailboxes -> Seq(Threads)]
  /\ msgSize \in [Threads -> Nat]
  /\ mbCall \in [Threads -> Call]
  /\ moved \in [Threads -> Seq(Message)]

\* The threads that wait in a mailbox, where no semaphore's queue knows them.
Away == {t \in Threads : status[t] = "WAITING" /\ mbCall[t].op # "none"}

\* A thread inside a mailbox call is on its way to the scheduler or back.
Inside(t) == pc[t] = "leave" \/ (pc[t] = "go" /\ frame[t].resume = "leave")
CallsInside ==
  \A t \in Threads :
    IF mbCall[t].op = "none"
    THEN moved[t] = <<>>
    ELSE /\ bMTInitialised /\ Inside(t)
         /\ status[t] \notin {"INVALID", "TERMINATED"}

MailInv == /\ TypeInv /\ SchedBut(Away) /\ BoxesTyped /\ CallsInside
           /\ OneSided /\ OneMessagePerCall

-----------------------------------------------------------------------------
(* The mailbox calls and the kernel's queues.                                *)

LEMMA BlockType ==
  ASSUME TypeInv, NEW t \in Threads, NEW m, NEW size, NEW op,
         Block(m, t, size, op), CallKeeps
  PROVE  TypeInv'
<1> USE DEF TypeInv, TypeOK
<1>1. /\ UNCHANGED <<priority, semaphore, wakeUpTime, ownStack, readyQ, sleepQ,
                     semValue, semInUse, semQ, held, depth>>
      /\ UNCHANGED <<bMTInitialised, bMTPreemptive, bMultiThreading, bCtrlBreak,
                     returnCode, clockTick, priorityIdx, curThreadID,
                     iCriticalSection, cpu>>
      /\ status' = [status EXCEPT ![t] = "WAITING"]
      /\ Suspend(t, "leave", "app", 0, 0)
  BY DEF Block, CallKeeps, semVars, globalVars, modeVars, stopVars, schedVars
<1>2. ThreadsTyped'
  BY <1>1 DEF ThreadsTyped, ThreadStatus
<1>3. QueuesTyped' /\ SemasTyped' /\ GlobalsTyped' /\ NestOK'
  BY <1>1 DEF QueuesTyped, SemasTyped, GlobalsTyped, NestOK
<1>4. pc' \in [Threads -> Labels] /\ frame' \in [Threads -> Frame] /\ FramesOK'
  <2>1. "app" \in Labels /\ 0 \in 0..NSemas /\ 0 \in Nat
    BY ConstantsAssumption DEF Labels
  <2> QED BY <1>1, <2>1, SuspendType
<1>5. StacksTyped'
  BY <1>1, <1>4 DEF StacksTyped
<1>6. ReadyQueued'
  BY <1>1, ReadyKept DEF ThreadsTyped
<1> QED BY <1>2, <1>3, <1>4, <1>5, <1>6

LEMMA MeetType ==
  ASSUME TypeInv, NEW t, NEW m, NEW size, NEW op, Head(mbQ[m]) \in Threads,
         Meet(m, t, size, op), CallKeeps
  PROVE  TypeInv'
<1> USE DEF TypeInv, TypeOK
<1> DEFINE w == Head(mbQ[m])
<1>1. /\ UNCHANGED <<priority, semaphore, wakeUpTime, ownStack, sleepQ,
                     semValue, semInUse, semQ, pc, frame, held, depth>>
      /\ UNCHANGED <<bMTInitialised, bMTPreemptive, bMultiThreading, bCtrlBreak,
                     returnCode, clockTick, priorityIdx, curThreadID,
                     iCriticalSection, cpu>>
      /\ status' = [status EXCEPT ![w] = "READY"]
      /\ readyQ' = EnqueueReady(readyQ, w, priority[w])
  BY DEF Meet, CallKeeps, semVars, globalVars, modeVars, stopVars, schedVars
<1>2. w \in Threads
  OBVIOUS
<1> HIDE DEF w
<1>3. /\ status' \in [Threads -> ThreadStatus]
      /\ readyQ' \in [Priorities -> Seq(Threads)] /\ ReadyQueued'
  BY <1>1, <1>2, ReadyJoins
<1>4. ThreadsTyped' /\ QueuesTyped'
  BY <1>1, <1>3 DEF ThreadsTyped, QueuesTyped
<1>5. SemasTyped' /\ GlobalsTyped' /\ NestOK' /\ StacksTyped' /\ FramesOK'
  BY <1>1 DEF SemasTyped, GlobalsTyped, NestOK, StacksTyped, FramesOK
<1> QED BY <1>3, <1>4, <1>5

\* Who blocks is in no queue of the kernel any more; who is met is again.
LEMMA BlockPlaced ==
  ASSUME NEW W, TypeInv, PlacedBut(W), NEW t \in Threads, status[t] = "CURRENT",
         status' = [status EXCEPT ![t] = "WAITING"],
         UNCHANGED <<priority, semaphore, wakeUpTime, ownStack, readyQ, sleepQ,
                     semQ>>
  PROVE  PlacedBut(W \union {t})'
<1> USE DEF TypeInv, TypeOK
<1>1. Only(t, "WAITING")
  BY OnlyHolds
<1>2. ReadyDiscipline' /\ SleepDiscipline'
  BY <1>1, ReadySame, SleepSame DEF Only, PlacedBut
<1>3. SemaPlaced(W \union {t})'
  BY <1>1 DEF Only, PlacedBut, SemaPlaced
<1>4. StacksOwned'
  BY <1>1 DEF Only, PlacedBut, StacksOwned
<1>5. WaitersKnown(W \union {t})'
  BY <1>1 DEF Only, PlacedBut, WaitersKnown
<1>6. Sorted(sleepQ, wakeUpTime)'
  BY DEF PlacedBut
<1> QED BY <1>2, <1>3, <1>4, <1>5, <1>6 DEF PlacedBut

LEMMA MeetPlaced ==
  ASSUME NEW W, TypeInv, PlacedBut(W), NEW w \in Threads, w \in W,
         status' = [status EXCEPT ![w] = "READY"],
         readyQ' = EnqueueReady(readyQ, w, priority[w]),
         UNCHANGED <<priority, semaphore, wakeUpTime, ownStack, sleepQ, semQ>>
  PROVE  PlacedBut(W \ {w})'
<1> USE DEF TypeInv, TypeOK
<1>1. Only(w, "READY") /\ status[w] = "WAITING" /\ priority[w] \in Priorities
  BY OnlyHolds DEF PlacedBut, WaitersKnown, ThreadsTyped
<1>2. ReadyDiscipline'
  BY <1>1, ReadyJoin DEF Only, PlacedBut
<1>3. SleepDiscipline'
  BY <1>1, SleepSame DEF Only, PlacedBut
<1>4. SemaPlaced(W \ {w})'
  BY <1>1 DEF Only, PlacedBut, SemaPlaced
<1>5. StacksOwned'
  BY <1>1 DEF Only, PlacedBut, StacksOwned
<1>6. WaitersKnown(W \ {w})'
  BY <1>1 DEF Only, PlacedBut, WaitersKnown
<1>7. Sorted(sleepQ, wakeUpTime)'
  BY DEF PlacedBut
<1> QED BY <1>2, <1>3, <1>4, <1>5, <1>6, <1>7 DEF PlacedBut
-----------------------------------------------------------------------------
(* The kernel's steps and the mailbox calls in progress.                     *)

\* A step leaves thread u where it is; it may make it READY or CURRENT.
Stays(u) ==
  /\ pc'[u] = pc[u] /\ frame'[u] = frame[u]
  /\ status'[u] \in {status[u], "READY", "CURRENT"}

\* MTSignal and MTWait of another thread.
LEMMA OthersStay ==
  ASSUME TypeInv, NEW t \in Threads, NEW u \in Threads, u # t,
         NEW s \in Semaphores, NEW k, NEW a \in Nat,
         MTSignal(t, s, k) \/ MTWait(t, s, k, a)
  PROVE  Stays(u)
<1>1. pc'[u] = pc[u] /\ frame'[u] = frame[u]
  <2>1. (\E b \in Nat : Continue(t, k, b)) \/ (\E z, b : Suspend(t, "leave", k, z, b))
    <3>1. 0 \in Nat
      OBVIOUS
    <3> QED BY <3>1 DEF MTSignal, MTWait, WaitFree, WaitBusy, WaitUnused
  <2> QED BY <2>1, ContinueFrame, SuspendFrame
<1>2. \/ UNCHANGED status
      \/ status' = [status EXCEPT ![t] = "WAITING"]
      \/ \E h : status' = [status EXCEPT ![h] = "READY"]
  BY DEF MTSignal, MTWait, WaitFree, WaitBusy, WaitUnused, WakeUpThreads
<1>3. status'[u] \in {status[u], "READY"}
  BY <1>2 DEF TypeInv, TypeOK, ThreadsTyped
<1> QED BY <1>1, <1>3 DEF Stays

LEMMA StaysInApplication ==
  ASSUME TypeInv, NEW t \in Threads, NEW u \in Threads, Application(t), pc[u] # "app"
  PROVE  Stays(u)
<1>1. u # t
  BY DEF Application, EnterDos, AppWait, AppSignal, MTTestAndSet, MTCreateSema,
     MTDestroySema, MTEnterCritical, MTLeaveCritical, MTYield,
     MTEndMultiThreading, MTSleep, MTEndThread, MTKillThread, MTAddNewThread,
     AppCall, InThread
<1>2. /\ 1 \in Semaphores /\ held[t] \subseteq Semaphores
      /\ Threads \subseteq Nat /\ AppPriorities \subseteq Nat /\ 0 \in Nat
  BY ConstantsAssumption DEF Semaphores, Threads, TypeInv, TypeOK, StacksTyped
<1>3. CASE AppWait(t) \/ MTEndThread(t) \/ MTKillThread(t) \/ MTAddNewThread(t)
  <2>1. PICK s \in Semaphores, k \in {"app", "kill", "add"}, a \in Nat :
          MTWait(t, s, k, a)
    BY <1>2, <1>3 DEF AppWait, MTEndThread, MTKillThread, MTAddNewThread,
       semaCRunTimeLib
  <2> QED BY <1>1, <2>1, OthersStay
<1>4. CASE AppSignal(t)
  <2>1. PICK s \in Semaphores : MTSignal(t, s, "app")
    BY <1>2, <1>4 DEF AppSignal
  <2> QED BY <1>1, <1>2, <2>1, OthersStay
<1>5. CASE MTEndMultiThreading(t) \/ MTSleep(t)
  <2>1. Suspend(t, "app", "app", 0, 0)
    BY <1>5 DEF MTEndMultiThreading, MTSleep
  <2>2. pc'[u] = pc[u] /\ frame'[u] = frame[u]
    BY <1>1, <2>1, SuspendFrame
  <2>3. UNCHANGED status \/ status' = [status EXCEPT ![t] = "SLEEPING"]
    BY <1>5 DEF MTEndMultiThreading, MTSleep, threadVars
  <2> QED BY <1>1, <2>2, <2>3 DEF Stays, TypeInv, TypeOK, ThreadsTyped
<1>6. CASE \/ MTTestAndSet(t) \/ MTCreateSema(t) \/ MTDestroySema(t)
           \/ MTEnterCritical(t) \/ MTLeaveCritical(t) \/ MTYield(t)
  BY <1>6 DEF Stays, MTTestAndSet, MTCreateSema, MTDestroySema, MTEnterCritical,
     MTLeaveCritical, MTYield, threadVars, appVars
<1>7. CASE EnterDos(t)
  <2>1. /\ t # u /\ UNCHANGED <<status, frame>>
        /\ pc' = [pc EXCEPT ![t] = "dos"]
    BY <1>1, <1>7 DEF EnterDos, threadVars
  <2> QED BY <2>1 DEF Stays, TypeInv, TypeOK, StacksTyped
<1> QED BY <1>3, <1>4, <1>5, <1>6, <1>7 DEF Application

\* The thread that runs goes to the scheduler; no other one's call moves, but for
\* a victim's.
LEMMA InsideKernel ==
  ASSUME TypeInv, NEW t \in Threads, NEW u \in Threads, Kernel(t), Inside(u),
         status[u] \notin {"INVALID", "TERMINATED"},
         ~LeaveResumed(u), KillBody(t) => frame[t].arg # u
  PROVE  Stays(u) \/ (Inside(u)' /\ status'[u] = status[u])
<1> USE DEF InThread
<1>1. pc[u] \in {"leave", "go"}
  BY DEF Inside
<1>2. CASE GotoScheduler(t)
  <2>1. UNCHANGED status
    BY <1>2 DEF GotoScheduler, threadVars
  <2>2. CASE t = u
    <3>1. pc[u] = "go" /\ frame[u].resume = "leave"
      BY <1>1, <1>2, <2>2 DEF GotoScheduler, Inside
    <3>2. pc'[u] = "leave"
      BY <1>2, <2>2, <3>1 DEF GotoScheduler, TypeInv, TypeOK, StacksTyped
    <3> QED BY <2>1, <3>2 DEF Inside
  <2>3. CASE t # u
    BY <1>2, <2>1, <2>3, GotoFrame DEF Stays
  <2> QED BY <2>2, <2>3
<1>3. CASE LeaveResumed(t)
  <2>1. t # u /\ UNCHANGED status
    BY <1>3 DEF LeaveResumed, threadVars
  <2>2. Continue(t, frame[t].ret, frame[t].arg) /\ frame[t].arg \in Nat
    BY <1>3 DEF LeaveResumed, TypeInv, TypeOK, StacksTyped, Frame
  <2> QED BY <2>1, <2>2, ContinueFrame DEF Stays
<1>4. CASE EnterTooDeep(t)
  BY <1>4 DEF EnterTooDeep, Stays, threadVars, appVars
<1>5. CASE KillBody(t)
  <2> DEFINE v == frame[t].arg
  <2>0. v \in Threads
    BY <1>5 DEF KillBody, TypeInv, FramesOK, FrameOK, Threads
  <2>1. /\ t # u /\ v # u /\ v \in Threads
        /\ status' = [status EXCEPT ![v] = "TERMINATED"]
        /\ DropFrames(t, v)
    BY <1>1, <1>5, <2>0 DEF KillBody
  <2> HIDE DEF v
  <2>2. pc'[u] = pc[u] /\ frame'[u] = frame[u]
    BY <2>1 DEF DropFrames
  <2> QED BY <2>1, <2>2 DEF Stays, TypeInv, TypeOK, ThreadsTyped
<1>6. CASE KillSignal(t) \/ KillSignalAgain(t) \/ AddSignal(t)
  <2>1. t # u /\ 1 \in Semaphores /\ 0 \in Nat
    BY <1>1, <1>6, ConstantsAssumption
       DEF KillSignal, KillSignalAgain, AddSignal, Semaphores
  <2>2. PICK k \in {"killGo", "app"} : MTSignal(t, 1, k)
    BY <1>6 DEF KillSignal, KillSignalAgain, AddSignal, semaCRunTimeLib
  <2> QED BY <2>1, <2>2, OthersStay
<1>7. CASE KillLeave(t) \/ AddFails(t) \/ KillRefused(t) \/ LeaveDos(t)
  <2>1. /\ t # u /\ UNCHANGED <<status, frame>>
        /\ \E label \in {"killSignal2", "addSignal", "app"} :
              pc' = [pc EXCEPT ![t] = label]
    BY <1>1, <1>7 DEF KillLeave, AddFails, KillRefused, LeaveDos, threadVars
  <2> QED BY <2>1 DEF Stays, TypeInv, TypeOK, StacksTyped
<1>8. CASE AddBody(t)
  <2>1. PICK slot \in FirstSlots :
          /\ NewThread(slot, frame[t].arg)
          /\ pc' = [pc EXCEPT ![t] = "addSignal", ![slot] = "app"]
          /\ frame' = [frame EXCEPT ![slot] = NoFrame]
    BY <1>8 DEF AddBody
  <2>2. t # u /\ slot # u
    BY <1>1, <1>8 DEF AddBody, FirstSlots, UsableSlots
  <2>3. status' = [status EXCEPT ![slot] = "READY"]
    BY <2>1 DEF NewThread
  <2> QED BY <2>1, <2>2, <2>3
          DEF Stays, TypeInv, TypeOK, ThreadsTyped, StacksTyped
<1> QED BY <1>2, <1>3, <1>4, <1>5, <1>6, <1>7, <1>8 DEF Kernel

\* A thread inside a mailbox call stays inside, and starts no second wait.
LEMMA InsideKept ==
  ASSUME TypeInv, [Next]_vars, ~MTInitialise, ~TidyUp, NEW u \in Threads, Inside(u),
         status[u] \notin {"INVALID", "TERMINATED"}, ~LeaveResumed(u),
         \A t \in Threads : KillBody(t) => frame[t].arg # u
  PROVE  /\ Inside(u)'
         /\ status'[u] \in {status[u], "READY", "CURRENT"}
<1>1. Stays(u) \/ (Inside(u)' /\ status'[u] = status[u])
  <2>1. CASE Main
    <3>1. CASE MTSetPreemptive \/ MainCreateSema \/ MainDestroySema \/ MTStartMultiThreading
      BY <3>1 DEF MTSetPreemptive, MainCreateSema, MainDestroySema, MTStartMultiThreading, Stays,
         threadVars, appVars
    <3>2. CASE MainAddNewThread
      <4>1. PICK slot \in FirstSlots, p \in AppPriorities :
              /\ NewThread(slot, p)
              /\ pc' = [pc EXCEPT ![slot] = "app"]
              /\ frame' = [frame EXCEPT ![slot] = NoFrame]
        BY <3>2 DEF MainAddNewThread
      <4>2. slot # u /\ status' = [status EXCEPT ![slot] = "READY"]
        BY <4>1 DEF FirstSlots, UsableSlots, NewThread
      <4> QED BY <4>1, <4>2 DEF Stays, TypeInv, TypeOK, ThreadsTyped, StacksTyped
    <3> QED BY <2>1, <3>1, <3>2 DEF Main
  <2>2. ASSUME NEW t \in Threads, Application(t) PROVE Stays(u)
    BY <2>2, StaysInApplication DEF Inside
  <2>3. ASSUME NEW t \in Threads, Kernel(t)
        PROVE  Stays(u) \/ (Inside(u)' /\ status'[u] = status[u])
    BY <2>3, InsideKernel
  <2>4. CASE Scheduler
    <3>1. /\ UNCHANGED <<pc, frame>>
          /\ \/ UNCHANGED status
             \/ \E t, x : x \in {"READY", "CURRENT"} /\ status' = [status EXCEPT ![t] = x]
      BY <2>4 DEF Scheduler, SchedulerTop, WakeUpSleepingThread, SleepersWoken,
         Dispatch, IdleTurn, Deadlocked, StopMultiThreading, threadVars, appVars
    <3> QED BY <3>1 DEF Stays, TypeInv, TypeOK, ThreadsTyped
  <2>5. CASE TimerTick \/ TimerPreempt \/ CtrlBreak \/ UNCHANGED vars
    BY <2>5 DEF TimerTick, TimerPreempt, CtrlBreak, Stays, vars, threadVars, appVars
  <2> QED BY <2>1, <2>2, <2>3, <2>4, <2>5 DEF Next
<1> QED BY <1>1 DEF Stays, Inside

LEMMA InitialisedKept ==
  ASSUME [Next]_vars, ~MTInitialise, ~TidyUp
  PROVE  UNCHANGED bMTInitialised
BY DEF Next, Main, MTSetPreemptive, MainAddNewThread, MainCreateSema, MainDestroySema,
   MTStartMultiThreading, Application, EnterDos, AppWait, AppSignal, MTTestAndSet,
   MTCreateSema, MTDestroySema, MTEnterCritical, MTLeaveCritical, MTYield,
   MTEndMultiThreading, MTSleep, MTEndThread, MTKillThread, MTAddNewThread,
   MTWait, MTSignal, Kernel, LeaveDos, KillRefused, GotoScheduler, LeaveResumed,
   EnterTooDeep, KillBody, KillSignal, KillLeave, KillSignalAgain, AddFails,
   AddBody, AddSignal, Scheduler, SchedulerTop, WakeUpSleepingThread,
   SleepersWoken, Dispatch, IdleTurn, Deadlocked, StopMultiThreading, TimerTick,
   TimerPreempt, CtrlBreak, globalVars, modeVars, vars

\* Who waits in which mailbox depends on no more than this.
LEMMA WaitingSame ==
  ASSUME \A u \in Threads : \/ /\ mbCall'[u] = mbCall[u]
                               /\ mbCall[u].op # "none" =>
                                    (status'[u] = "WAITING" <=> status[u] = "WAITING")
                            \/ mbCall'[u] = NoCall /\ status[u] # "WAITING"
  PROVE  /\ \A m : \A o \in Sides : Waiting(m, o)' = Waiting(m, o)
         /\ Away' = Away
<1>1. /\ NoCall.op = "none"
      /\ \A m : \A o \in Sides : [op |-> o, box |-> m].op # "none"
  BY DEF NoCall, Sides
<1> QED BY <1>1 DEF Waiting, Away

\* A step of the kernel alone, by which at most a call that was met returns.
LEMMA KernelKept ==
  ASSUME MailInv, [Next]_vars, ~MTInitialise, ~TidyUp,
         [SparesSleepers]_vars, UNCHANGED vars \/ SparesCallers,
         UNCHANGED <<numSenders, numReceivers, mbQ, msgSize>>, BoxesTyped',
         \A u \in Threads :
           \/ /\ UNCHANGED vars \/ ~LeaveResumed(u)
              /\ mbCall'[u] = mbCall[u] /\ moved'[u] = moved[u]
           \/ LeaveResumed(u) /\ mbCall'[u] = NoCall /\ moved'[u] = <<>>
  PROVE  MailInv'
<1> USE DEF MailInv
<1>1. TypeInv'
  BY TypeNext
<1>2. PICK W : W = Away
  OBVIOUS
<1>3. [Spares(W)]_vars
  BY <1>2 DEF SparesCallers, Spares, Away
<1>4. SchedBut(W)'
  BY <1>2, <1>3, SchedStep
<1>5. bMTInitialised' = bMTInitialised
  BY InitialisedKept
<1>6. ASSUME NEW u \in Threads, LeaveResumed(u)
      PROVE  status[u] = "CURRENT"
  BY <1>6, RunnerBut DEF LeaveResumed, InThread, SchedBut
<1>7. ASSUME NEW u \in Threads, mbCall'[u] = mbCall[u], mbCall[u].op # "none",
             UNCHANGED vars \/ ~LeaveResumed(u)
      PROVE  /\ Inside(u)' /\ status'[u] \notin {"INVALID", "TERMINATED"}
             /\ status'[u] = "WAITING" <=> status[u] = "WAITING"
  <2>1. bMTInitialised /\ Inside(u) /\ status[u] \notin {"INVALID", "TERMINATED"}
    BY <1>7 DEF CallsInside
  <2>2. CASE UNCHANGED vars
    BY <2>1, <2>2 DEF vars, threadVars, appVars, Inside
  <2>3. CASE ~UNCHANGED vars
    <3>1. \A t \in Threads : KillBody(t) => frame[t].arg # u
      BY <1>7, <2>3 DEF SparesCallers
    <3>2. Inside(u)' /\ status'[u] \in {status[u], "READY", "CURRENT"}
      BY <1>7, <2>1, <2>3, <3>1, InsideKept
    <3>3. ASSUME status[u] = "WAITING" PROVE status'[u] = "WAITING"
      <4>1. u \in W
        BY <1>2, <1>7, <3>3 DEF Away
      <4> QED BY <1>4, <1>5, <2>1, <4>1
              DEF SchedBut, PlacedInvBut, PlacedBut, WaitersKnown
    <3> QED BY <2>1, <3>2, <3>3
  <2> QED BY <2>2, <2>3
<1>8. /\ \A m : \A o \in Sides : Waiting(m, o)' = Waiting(m, o)
      /\ Away' = Away
  <2>1. ASSUME NEW u \in Threads
        PROVE  \/ /\ mbCall'[u] = mbCall[u]
                  /\ mbCall[u].op # "none" =>
                       (status'[u] = "WAITING" <=> status[u] = "WAITING")
               \/ mbCall'[u] = NoCall /\ status[u] # "WAITING"
    <3>1. CASE /\ mbCall'[u] = mbCall[u]
               /\ UNCHANGED vars \/ ~LeaveResumed(u)
      <4>1. ASSUME mbCall[u].op # "none"
            PROVE  status'[u] = "WAITING" <=> status[u] = "WAITING"
        BY <1>7, <3>1, <4>1
      <4> QED BY <3>1, <4>1
    <3>2. CASE LeaveResumed(u) /\ mbCall'[u] = NoCall
      <4>1. status[u] = "CURRENT"
        BY <1>6, <3>2
      <4> QED BY <3>2, <4>1
    <3> QED BY <3>1, <3>2
  <2> QED BY <2>1, WaitingSame
<1>9. SchedBut(Away)'
  BY <1>2, <1>4, <1>8
<1>10. CallsInside'
  <2>1. ASSUME NEW u \in Threads
        PROVE  IF mbCall'[u].op = "none"
               THEN moved'[u] = <<>>
               ELSE /\ bMTInitialised' /\ Inside(u)'
                    /\ status'[u] \notin {"INVALID", "TERMINATED"}
    <3>1. CASE mbCall'[u] = NoCall /\ moved'[u] = <<>>
      BY <3>1 DEF NoCall
    <3>2. CASE /\ mbCall'[u] = mbCall[u] /\ moved'[u] = moved[u]
               /\ UNCHANGED vars \/ ~LeaveResumed(u)
      BY <1>5, <1>7, <3>2 DEF CallsInside
    <3> QED BY <3>1, <3>2
  <2> QED BY <2>1 DEF CallsInside
<1>11. OneSided'
  BY <1>5, <1>8 DEF OneSided, Sides
<1>12. OneMessagePerCall'
  <2>1. ASSUME NEW u \in Threads, mbCall'[u].op # "none"
        PROVE  /\ mbCall'[u] = mbCall[u] /\ moved'[u] = moved[u]
               /\ status'[u] = "WAITING" <=> status[u] = "WAITING"
    BY <1>7, <2>1 DEF NoCall
  <2> QED BY <2>1 DEF OneMessagePerCall
<1> QED BY <1>1, <1>9, <1>10, <1>11, <1>12
-----------------------------------------------------------------------------
(* The mailbox calls of the running thread t.                                *)

LEMMA WaitingFinite ==
  ASSUME NEW m, NEW o
  PROVE  /\ IsFiniteSet(Waiting(m, o)) /\ Cardinality(Waiting(m, o)) \in Nat
         /\ Cardinality(Waiting(m, o)) = 0 <=> Waiting(m, o) = {}
<1>1. IsFiniteSet(Threads)
  BY FS_Interval, ConstantsAssumption DEF Threads
<1>2. IsFiniteSet(Waiting(m, o))
  BY <1>1, FS_Subset DEF Waiting
<1> QED BY <1>2, FS_EmptySet, FS_CardinalityType

LEMMA LesserSize ==
  ASSUME NEW a \in Nat, NEW b \in Nat
  PROVE  Min({a, b}) \in Nat
<1>1. \E x \in {a, b} : \A y \in {a, b} : x =< y
  BY a <= b \/ b <= a
<1> QED BY <1>1 DEF Min

\* Where t stands when it calls.
LEMMA Caller ==
  ASSUME MailInv, NEW t \in Threads, NEW c, MailboxCall(t, c)
  PROVE  /\ bMTInitialised /\ PlacedBut(Away)
         /\ status[t] = "CURRENT" /\ cpu = "thread" /\ curThreadID = t
         /\ mbCall[t].op = "none" /\ moved[t] = <<>>
<1>1. cpu = "thread" /\ curThreadID = t /\ pc[t] = "app"
  BY DEF MailboxCall, InThread
<1>2. mbCall[t].op = "none" /\ moved[t] = <<>>
  BY <1>1 DEF MailInv, CallsInside, Inside
<1> QED BY <1>1, <1>2, RunnerBut DEF MailInv, SchedBut

\* The first thread of a mailbox's queue, of those on side o, is met: it leaves.
BoxLeft(m, o) ==
  /\ Head(mbQ[m]) \in Waiting(m, o)
  /\ Waiting(m, o)' = Waiting(m, o) \ {Head(mbQ[m])}
  /\ \A l \in Mailboxes, p \in Sides :
       l # m \/ p # o => Waiting(l, p)' = Waiting(l, p)
  /\ Away' = Away \ {Head(mbQ[m])}
  /\ IsInjective(mbQ'[m])
  /\ ToSet(mbQ'[m]) = ToSet(mbQ[m]) \ {Head(mbQ[m])}
  /\ \A l \in Mailboxes : l # m => mbQ'[l] = mbQ[l]
  /\ mbQ' \in [Mailboxes -> Seq(Threads)]

\* Thread t joins a mailbox's queue on side o.
BoxJoined(m, t, o) ==
  /\ t \notin Waiting(m, o)
  /\ Waiting(m, o)' = Waiting(m, o) \union {t}
  /\ \A l \in Mailboxes, p \in Sides :
       l # m \/ p # o => Waiting(l, p)' = Waiting(l, p)
  /\ Away' = Away \union {t}
  /\ IsInjective(mbQ'[m])
  /\ ToSet(mbQ'[m]) = ToSet(mbQ[m]) \union {t}
  /\ \A l \in Mailboxes : l # m => mbQ'[l] = mbQ[l]
  /\ mbQ' \in [Mailboxes -> Seq(Threads)]

\* The one who is met is the first of those waiting on the other side.
LEMMA MeetBoxes ==
  ASSUME MailInv, bMTInitialised, NEW m \in Mailboxes, NEW t \in Threads,
         NEW size \in Nat, NEW op \in Sides, NEW o \in Sides, o # op,
         Waiting(m, o) # {}, Meet(m, t, size, op)
  PROVE  BoxLeft(m, o)
<1> DEFINE w == Head(mbQ[m])
<1> USE DEF MailInv, BoxesTyped
<1>1. /\ mbQ' = [mbQ EXCEPT ![m] = Tail(@)]
      /\ status' = [status EXCEPT ![w] = "READY"]
      /\ UNCHANGED mbCall
  BY DEF Meet
<1>2. /\ ToSet(mbQ[m]) = Waiting(m, o) /\ IsInjective(mbQ[m])
      /\ mbQ[m] \in Seq(Threads)
  <2>1. Cardinality(Waiting(m, o)) # 0
    BY WaitingFinite
  <2>2. Cardinality(Waiting(m, op)) = 0
    BY <2>1 DEF OneSided, Sides
  <2>3. Waiting(m, op) = {}
    BY <2>2, WaitingFinite
  <2>4. {o, op} = Sides
    BY DEF Sides
  <2>5. ToSet(mbQ[m]) = Waiting(m, o) \union Waiting(m, op)
    BY <2>4 DEF OneSided, Sides
  <2> QED BY <2>3, <2>5 DEF OneSided
<1>3. mbQ[m] # <<>>
  BY <1>2 DEF ToSet
<1>4. /\ w \in Waiting(m, o)
      /\ ToSet(Tail(mbQ[m])) = ToSet(mbQ[m]) \ {w} /\ IsInjective(Tail(mbQ[m]))
      /\ Tail(mbQ[m]) \in Seq(Threads)
  BY <1>2, <1>3, TailSet
<1>5. /\ mbQ'[m] = Tail(mbQ[m])
      /\ \A l \in Mailboxes : l # m => mbQ'[l] = mbQ[l]
      /\ mbQ' \in [Mailboxes -> Seq(Threads)]
  BY <1>1, <1>4
<1> HIDE DEF w
<1>6. w \in Threads /\ status[w] = "WAITING" /\ mbCall[w] = [op |-> o, box |-> m]
  BY <1>4 DEF Waiting
<1>7. \A u \in Threads : status'[u] = IF u = w THEN "READY" ELSE status[u]
  BY <1>1, <1>6 DEF TypeInv, TypeOK, ThreadsTyped
<1>8. /\ Waiting(m, o)' = Waiting(m, o) \ {w}
      /\ Away' = Away \ {w}
  BY <1>1, <1>7 DEF Waiting, Away
<1>9. ASSUME NEW l \in Mailboxes, NEW p \in Sides, l # m \/ p # o
      PROVE  Waiting(l, p)' = Waiting(l, p)
  <2>1. mbCall[w] # [op |-> p, box |-> l]
    BY <1>6, <1>9
  <2> QED BY <1>1, <1>7, <2>1 DEF Waiting
<1> QED BY <1>4, <1>5, <1>8, <1>9 DEF w, BoxLeft

LEMMA BlockBoxes ==
  ASSUME MailInv, bMTInitialised, NEW m \in Mailboxes, NEW t \in Threads,
         NEW size \in Nat, NEW op \in Sides, status[t] = "CURRENT",
         Block(m, t, size, op)
  PROVE  BoxJoined(m, t, op)
<1> USE DEF MailInv, BoxesTyped
<1>1. /\ mbQ' = [mbQ EXCEPT ![m] = Append(@, t)]
      /\ mbCall' = [mbCall EXCEPT ![t] = [op |-> op, box |-> m]]
      /\ status' = [status EXCEPT ![t] = "WAITING"]
  BY DEF Block
<1>2. \A l, p : t \notin Waiting(l, p)
  BY DEF Waiting
<1>3. IsInjective(mbQ[m]) /\ t \notin ToSet(mbQ[m]) /\ mbQ[m] \in Seq(Threads)
  BY <1>2 DEF OneSided
<1>4. /\ ToSet(Append(mbQ[m], t)) = ToSet(mbQ[m]) \union {t}
      /\ IsInjective(Append(mbQ[m], t)) /\ Append(mbQ[m], t) \in Seq(Threads)
  BY <1>3, AppendSet
<1>5. /\ mbQ'[m] = Append(mbQ[m], t)
      /\ \A l \in Mailboxes : l # m => mbQ'[l] = mbQ[l]
      /\ mbQ' \in [Mailboxes -> Seq(Threads)]
  BY <1>1, <1>4
<1>6. \A u \in Threads :
        /\ status'[u] = IF u = t THEN "WAITING" ELSE status[u]
        /\ mbCall'[u] = IF u = t THEN [op |-> op, box |-> m] ELSE mbCall[u]
  BY <1>1 DEF TypeInv, TypeOK, ThreadsTyped
<1>7. Waiting(m, op)' = Waiting(m, op) \union {t}
  BY <1>6 DEF Waiting
<1>8. Away' = Away \union {t}
  BY <1>6 DEF Away, Sides
<1>9. ASSUME NEW l \in Mailboxes, NEW p \in Sides, l # m \/ p # op
      PROVE  Waiting(l, p)' = Waiting(l, p)
  <2>1. [op |-> op, box |-> m] # [op |-> p, box |-> l]
    BY <1>9
  <2> QED BY <1>2, <1>6, <2>1 DEF Waiting
<1> QED BY <1>2, <1>4, <1>5, <1>7, <1>8, <1>9 DEF BoxJoined

\* What is in a mailbox call besides its counters.
CallInv == TypeInv /\ SchedBut(Away) /\ CallsInside /\ OneMessagePerCall

LEMMA MeetKept ==
  ASSUME MailInv, NEW c, NEW m \in Mailboxes, NEW t \in Threads, MailboxCall(t, c),
         NEW size \in Nat, NEW op \in Sides, NEW o \in Sides, o # op,
         Waiting(m, o) # {}, Meet(m, t, size, op), CallKeeps
  PROVE  /\ CallInv'
         /\ msgSize' \in [Threads -> Nat] /\ mbCall' \in [Threads -> Call]
         /\ moved' \in [Threads -> Seq(Message)]
<1> DEFINE w == Head(mbQ[m])
           n == Min({size, msgSize[w]})
           msg == [from |-> IF op = "send" THEN t ELSE w,
                   to |-> IF op = "send" THEN w ELSE t, size |-> n]
<1> USE DEF MailInv, BoxesTyped
<1>1. /\ bMTInitialised /\ PlacedBut(Away)
      /\ status[t] = "CURRENT" /\ cpu = "thread" /\ curThreadID = t
  BY Caller
<1>2. w \in Waiting(m, o) /\ Away' = Away \ {w}
  <2>1. BoxLeft(m, o)
    BY <1>1, MeetBoxes
  <2> QED BY <2>1 DEF BoxLeft
<1>3. /\ msgSize' = [msgSize EXCEPT ![w] = n]
      /\ moved' = [moved EXCEPT ![w] = Append(@, msg)]
      /\ status' = [status EXCEPT ![w] = "READY"]
      /\ readyQ' = EnqueueReady(readyQ, w, priority[w])
      /\ UNCHANGED <<pc, frame, mbCall>>
  BY DEF Meet
<1>4. /\ UNCHANGED <<priority, semaphore, wakeUpTime, ownStack, sleepQ, semQ>>
      /\ UNCHANGED <<curThreadID, bMTInitialised, returnCode, cpu>>
  BY DEF CallKeeps, semVars, globalVars, modeVars, stopVars
<1>5. TypeInv'
  BY <1>2, MeetType DEF Waiting
<1>6. w \in Threads /\ status[w] = "WAITING" /\ mbCall[w] = [op |-> o, box |-> m]
  BY <1>2 DEF Waiting
<1>7. n \in Nat
  BY <1>6, LesserSize
<1> HIDE DEF n
<1>8. msg \in Message /\ msg.size = n
      /\ w = IF o = "send" THEN msg.from ELSE msg.to
  BY <1>6, <1>7 DEF Message, Sides
<1> HIDE DEF w, msg
<1>9. mbCall[w].op = o /\ o # "none" /\ moved[w] = <<>>
  BY <1>6 DEF Sides, OneMessagePerCall
<1>10. \A u \in Threads :
         /\ status'[u] = IF u = w THEN "READY" ELSE status[u]
         /\ msgSize'[u] = IF u = w THEN n ELSE msgSize[u]
         /\ moved'[u] = IF u = w THEN <<msg>> ELSE moved[u]
  BY <1>3, <1>6, <1>9 DEF TypeInv, TypeOK, ThreadsTyped
<1>11. /\ msgSize' \in [Threads -> Nat] /\ mbCall' \in [Threads -> Call]
       /\ moved' \in [Threads -> Seq(Message)]
  <2>1. <<msg>> \in Seq(Message)
    BY <1>8
  <2> QED BY <1>3, <1>6, <1>7, <1>9, <1>10, <2>1
<1>12. SchedBut(Away)'
  <2>1. PICK W : W = Away
    OBVIOUS
  <2>2. PICK v : v = w
    OBVIOUS
  <2>3. PlacedBut(W \ {v})'
    <3>1. v \in Threads /\ v \in W
      BY <1>6, <1>9, <2>1, <2>2 DEF Away
    <3>2. PlacedBut(W)
      BY <1>1, <2>1
    <3>3. /\ status' = [status EXCEPT ![v] = "READY"]
          /\ readyQ' = EnqueueReady(readyQ, v, priority[v])
      BY <1>3, <2>2
    <3> QED BY <1>4, <3>1, <3>2, <3>3, MeetPlaced
  <2>4. RunsOnward(t)
    BY <1>1, <1>4, <1>6, <1>10 DEF RunsOnward
  <2>5. RunInv'
    BY <1>1, <2>4, RunKept DEF SchedBut
  <2>6. Away' = W \ {v}
    BY <1>2, <2>1, <2>2
  <2>7. PlacedBut(Away)'
    BY <2>3, <2>6
  <2> QED BY <2>5, <2>7 DEF SchedBut, PlacedInvBut
<1>13. CallsInside'
  BY <1>3, <1>4, <1>9, <1>10 DEF CallsInside, Inside
<1>14. OneMessagePerCall'
  <2>1. ASSUME NEW u \in Threads, mbCall'[u].op # "none"
        PROVE  IF status'[u] = "WAITING" THEN moved'[u] = <<>>
               ELSE /\ Len(moved'[u]) = 1
                    /\ moved'[u][1].size = msgSize'[u]
                    /\ u = IF mbCall'[u].op = "send" THEN moved'[u][1].from
                                                     ELSE moved'[u][1].to
    <3>1. CASE u = w
      <4>1. moved'[u] = <<msg>> /\ msgSize'[u] = n /\ status'[u] = "READY"
        BY <1>6, <1>10, <3>1
      <4>2. Len(<<msg>>) = 1 /\ <<msg>>[1] = msg
        OBVIOUS
      <4> QED BY <1>3, <1>8, <1>9, <3>1, <4>1, <4>2
    <3>2. CASE u # w
      BY <1>3, <1>10, <2>1, <3>2 DEF OneMessagePerCall
    <3> QED BY <3>1, <3>2
  <2> QED BY <2>1 DEF OneMessagePerCall
<1> QED BY <1>5, <1>11, <1>12, <1>13, <1>14 DEF CallInv

LEMMA BlockKept ==
  ASSUME MailInv, NEW c, NEW m \in Mailboxes, NEW t \in Threads, MailboxCall(t, c),
         NEW size \in Nat, NEW op \in Sides, Block(m, t, size, op), CallKeeps
  PROVE  /\ CallInv'
         /\ msgSize' \in [Threads -> Nat] /\ mbCall' \in [Threads -> Call]
         /\ moved' \in [Threads -> Seq(Message)]
<1> USE DEF MailInv, BoxesTyped
<1>1. /\ bMTInitialised /\ PlacedBut(Away)
      /\ status[t] = "CURRENT" /\ cpu = "thread" /\ curThreadID = t
      /\ moved[t] = <<>>
  BY Caller
<1>2. Away' = Away \union {t}
  <2>1. BoxJoined(m, t, op)
    BY <1>1, BlockBoxes
  <2> QED BY <2>1 DEF BoxJoined
<1>3. /\ msgSize' = [msgSize EXCEPT ![t] = size]
      /\ mbCall' = [mbCall EXCEPT ![t] = [op |-> op, box |-> m]]
      /\ status' = [status EXCEPT ![t] = "WAITING"]
      /\ Suspend(t, "leave", "app", 0, 0)
      /\ UNCHANGED <<readyQ, moved>>
  BY DEF Block
<1>4. /\ UNCHANGED <<priority, semaphore, wakeUpTime, ownStack, sleepQ, semQ>>
      /\ UNCHANGED <<curThreadID, bMTInitialised, returnCode, cpu>>
  BY DEF CallKeeps, semVars, globalVars, modeVars, stopVars
<1>5. TypeInv'
  BY BlockType
<1>6. /\ pc'[t] = "go" /\ frame'[t].resume = "leave"
      /\ \A u \in Threads : u # t => pc'[u] = pc[u] /\ frame'[u] = frame[u]
  <2>1. /\ pc'[t] = "go"
        /\ frame'[t] = [resume |-> "leave", ret |-> "app", acq |-> 0, arg |-> 0]
        /\ \A u \in Threads : u # t => pc'[u] = pc[u] /\ frame'[u] = frame[u]
    BY <1>3, SuspendFrame
  <2> QED BY <2>1
<1>7. /\ [op |-> op, box |-> m] \in Call
      /\ [op |-> op, box |-> m].op # "none"
  BY DEF Call, Sides
<1>8. \A u \in Threads :
        /\ status'[u] = IF u = t THEN "WAITING" ELSE status[u]
        /\ msgSize'[u] = IF u = t THEN size ELSE msgSize[u]
        /\ mbCall'[u] = IF u = t THEN [op |-> op, box |-> m] ELSE mbCall[u]
  BY <1>3 DEF TypeInv, TypeOK, ThreadsTyped
<1>9. /\ msgSize' \in [Threads -> Nat] /\ mbCall' \in [Threads -> Call]
      /\ moved' \in [Threads -> Seq(Message)]
  BY <1>3, <1>7
<1>10. SchedBut(Away)'
  <2>1. PICK W : W = Away
    OBVIOUS
  <2>2. PlacedBut(W \union {t})'
    BY <1>1, <1>3, <1>4, <2>1, BlockPlaced
  <2>3. RunsOnward(t)
    BY <1>1, <1>4, <1>6, <1>8 DEF RunsOnward
  <2>4. RunInv'
    BY <1>1, <2>3, RunKept DEF SchedBut
  <2> QED BY <1>2, <2>1, <2>2, <2>4 DEF SchedBut, PlacedInvBut
<1>11. CallsInside'
  <2>1. ASSUME NEW u \in Threads
        PROVE  IF mbCall'[u].op = "none"
               THEN moved'[u] = <<>>
               ELSE /\ bMTInitialised' /\ Inside(u)'
                    /\ status'[u] \notin {"INVALID", "TERMINATED"}
    <3>1. CASE u = t
      <4>1. mbCall'[u].op # "none" /\ status'[u] = "WAITING"
        BY <1>7, <1>8, <3>1
      <4>2. bMTInitialised' /\ Inside(u)'
        BY <1>1, <1>4, <1>6, <3>1 DEF Inside
      <4> QED BY <4>1, <4>2
    <3>2. CASE u # t
      <4>1. /\ status'[u] = status[u] /\ mbCall'[u] = mbCall[u]
            /\ moved'[u] = moved[u]
        BY <1>3, <1>8, <3>2
      <4>2. Inside(u)' <=> Inside(u)
        BY <1>6, <3>2 DEF Inside
      <4> QED BY <1>1, <1>4, <4>1, <4>2 DEF CallsInside
    <3> QED BY <3>1, <3>2
  <2> QED BY <2>1 DEF CallsInside
<1>12. OneMessagePerCall'
  BY <1>1, <1>3, <1>8 DEF OneMessagePerCall
<1> QED BY <1>5, <1>9, <1>10, <1>11, <1>12 DEF CallInv

\* The queues after a meeting, and how many wait.
Queued(l) ==
  /\ IsInjective(mbQ[l])
  /\ ToSet(mbQ[l]) = Waiting(l, "send") \union Waiting(l, "receive")

LEMMA MeetCounts ==
  ASSUME MailInv, bMTInitialised, NEW m \in Mailboxes, NEW t \in Threads,
         NEW size \in Nat, NEW op \in Sides, NEW o \in Sides, o # op,
         Waiting(m, o) # {}, Meet(m, t, size, op)
  PROVE  /\ \A l \in Mailboxes : Queued(l)'
         /\ mbQ' \in [Mailboxes -> Seq(Threads)]
         /\ Cardinality(Waiting(m, o)') = Cardinality(Waiting(m, o)) - 1
         /\ \A l \in Mailboxes, p \in Sides :
              l # m \/ p # o =>
                Cardinality(Waiting(l, p)') = Cardinality(Waiting(l, p))
<1> DEFINE w == Head(mbQ[m])
<1>1. /\ w \in Waiting(m, o)
      /\ Waiting(m, o)' = Waiting(m, o) \ {w}
      /\ \A l \in Mailboxes, p \in Sides :
           l # m \/ p # o => Waiting(l, p)' = Waiting(l, p)
      /\ IsInjective(mbQ'[m])
      /\ ToSet(mbQ'[m]) = ToSet(mbQ[m]) \ {w}
      /\ \A l \in Mailboxes : l # m => mbQ'[l] = mbQ[l]
      /\ mbQ' \in [Mailboxes -> Seq(Threads)]
  <2>1. BoxLeft(m, o)
    BY MeetBoxes
  <2> QED BY <2>1 DEF BoxLeft
<1> HIDE DEF w
<1>2. \A l \in Mailboxes : Queued(l)
  BY DEF MailInv, OneSided, Queued
<1>3. o \in {"send", "receive"} /\ op \in {"send", "receive"} /\ o # op
  BY DEF Sides
<1>4. Queued(m)'
  <2>1. w \notin Waiting(m, op)
    BY <1>1 DEF Waiting
  <2>2. Waiting(m, op)' = Waiting(m, op)
    BY <1>1
  <2>3. /\ ToSet(mbQ[m]) = Waiting(m, o) \union Waiting(m, op)
        /\ Waiting(m, o)' \union Waiting(m, op)'
             = Waiting(m, "send")' \union Waiting(m, "receive")'
    BY <1>2, <1>3 DEF Queued
  <2> QED BY <1>1, <2>1, <2>2, <2>3 DEF Queued
<1>5. ASSUME NEW l \in Mailboxes, l # m PROVE Queued(l)'
  <2>1. /\ Waiting(l, "send")' = Waiting(l, "send")
        /\ Waiting(l, "receive")' = Waiting(l, "receive")
        /\ mbQ'[l] = mbQ[l]
    BY <1>1, <1>5 DEF Sides
  <2> QED BY <1>2, <2>1 DEF Queued
<1>6. Cardinality(Waiting(m, o)') = Cardinality(Waiting(m, o)) - 1
  BY <1>1, WaitingFinite, FS_RemoveElement
<1> QED BY <1>1, <1>4, <1>5, <1>6

LEMMA BlockCounts ==
  ASSUME MailInv, bMTInitialised, NEW m \in Mailboxes, NEW t \in Threads,
         NEW size \in Nat, NEW op \in Sides, status[t] = "CURRENT",
         Block(m, t, size, op)
  PROVE  /\ \A l \in Mailboxes : Queued(l)'
         /\ mbQ' \in [Mailboxes -> Seq(Threads)]
         /\ Cardinality(Waiting(m, op)') = Cardinality(Waiting(m, op)) + 1
         /\ \A l \in Mailboxes, p \in Sides :
              l # m \/ p # op =>
                Cardinality(Waiting(l, p)') = Cardinality(Waiting(l, p))
<1>1. /\ t \notin Waiting(m, op)
      /\ Waiting(m, op)' = Waiting(m, op) \union {t}
      /\ \A l \in Mailboxes, p \in Sides :
           l # m \/ p # op => Waiting(l, p)' = Waiting(l, p)
      /\ IsInjective(mbQ'[m])
      /\ ToSet(mbQ'[m]) = ToSet(mbQ[m]) \union {t}
      /\ \A l \in Mailboxes : l # m => mbQ'[l] = mbQ[l]
      /\ mbQ' \in [Mailboxes -> Seq(Threads)]
  <2>1. BoxJoined(m, t, op)
    BY BlockBoxes
  <2> QED BY <2>1 DEF BoxJoined
<1>2. \A l \in Mailboxes : Queued(l)
  BY DEF MailInv, OneSided, Queued
<1>3. Queued(m)'
  <2>1. CASE op = "send"
    <3>1. Waiting(m, "receive")' = Waiting(m, "receive")
      BY <1>1, <2>1 DEF Sides
    <3> QED BY <1>1, <1>2, <2>1, <3>1 DEF Queued
  <2>2. CASE op = "receive"
    <3>1. Waiting(m, "send")' = Waiting(m, "send")
      BY <1>1, <2>2 DEF Sides
    <3> QED BY <1>1, <1>2, <2>2, <3>1 DEF Queued
  <2> QED BY <2>1, <2>2 DEF Sides
<1>4. ASSUME NEW l \in Mailboxes, l # m PROVE Queued(l)'
  <2>1. /\ Waiting(l, "send")' = Waiting(l, "send")
        /\ Waiting(l, "receive")' = Waiting(l, "receive")
        /\ mbQ'[l] = mbQ[l]
    BY <1>1, <1>4 DEF Sides
  <2> QED BY <1>2, <2>1 DEF Queued
<1>5. Cardinality(Waiting(m, op)') = Cardinality(Waiting(m, op)) + 1
  BY <1>1, WaitingFinite, FS_AddElement
<1> QED BY <1>1, <1>3, <1>4, <1>5

\* What the counters of a mailbox say.
Counted(m) ==
  /\ numSenders[m] = Cardinality(Waiting(m, "send"))
  /\ numReceivers[m] = Cardinality(Waiting(m, "receive"))
  /\ numSenders[m] = 0 \/ numReceivers[m] = 0

LEMMA SendKept ==
  ASSUME MailInv, NEW t \in Threads, MTSendMsg(t)
  PROVE  MailInv'
<1>1. /\ MailboxCall(t, "Send") /\ bMTInitialised /\ status[t] = "CURRENT"
      /\ CallKeeps /\ mbInUse' = mbInUse
  BY Caller DEF MTSendMsg, CallKeeps
<1>2. PICK m \in Mailboxes, size \in MsgSizes :
        IF numReceivers[m] > 0
        THEN /\ Meet(m, t, size, "send")
             /\ numReceivers' = [numReceivers EXCEPT ![m] = @ - 1]
             /\ UNCHANGED numSenders
        ELSE /\ Block(m, t, size, "send")
             /\ numSenders' = [numSenders EXCEPT ![m] = @ + 1]
             /\ UNCHANGED numReceivers
  BY DEF MTSendMsg
<1>3. size \in Nat /\ "send" \in Sides /\ "receive" \in Sides
  BY MailboxAssumption DEF Sides
<1>4. /\ \A l \in Mailboxes : Counted(l)
      /\ numSenders \in [Mailboxes -> Nat] /\ numReceivers \in [Mailboxes -> Nat]
      /\ mbInUse \in [Mailboxes -> BOOLEAN]
  BY <1>1 DEF MailInv, OneSided, Counted, BoxesTyped
<1>5. CASE numReceivers[m] > 0
  <2>1. numReceivers[m] - 1 \in Nat /\ numSenders[m] = 0
    BY <1>4, <1>5 DEF Counted
  <2>2. Waiting(m, "receive") # {}
    BY <1>4, <1>5, WaitingFinite DEF Counted
  <2>3. Meet(m, t, size, "send")
    BY <1>2, <1>5
  <2>4. /\ CallInv'
        /\ msgSize' \in [Threads -> Nat] /\ mbCall' \in [Threads -> Call]
        /\ moved' \in [Threads -> Seq(Message)]
    BY <1>1, <1>3, <2>2, <2>3, MeetKept
  <2>5. /\ \A l \in Mailboxes : Queued(l)'
        /\ mbQ' \in [Mailboxes -> Seq(Threads)]
        /\ Cardinality(Waiting(m, "receive")') = Cardinality(Waiting(m, "receive")) - 1
        /\ \A l \in Mailboxes, p \in Sides :
             l # m \/ p # "receive" =>
               Cardinality(Waiting(l, p)') = Cardinality(Waiting(l, p))
    BY <1>1, <1>3, <2>2, <2>3, MeetCounts
  <2>6. /\ numReceivers' = [numReceivers EXCEPT ![m] = @ - 1]
        /\ numSenders' = numSenders
    BY <1>2, <1>5
  <2>7. ASSUME NEW l \in Mailboxes PROVE Counted(l)'
    BY <1>3, <1>4, <2>1, <2>5, <2>6 DEF Counted
  <2>8. OneSided'
    BY <2>5, <2>7 DEF OneSided, Queued, Counted
  <2>9. BoxesTyped'
    BY <1>1, <1>4, <2>1, <2>4, <2>5, <2>6 DEF BoxesTyped
  <2> QED BY <2>4, <2>8, <2>9 DEF MailInv, CallInv
<1>6. CASE ~(numReceivers[m] > 0)
  <2>1. numReceivers[m] = 0 /\ numSenders[m] + 1 \in Nat
    BY <1>4, <1>6
  <2>2. Block(m, t, size, "send")
    BY <1>2, <1>6
  <2>3. /\ CallInv'
        /\ msgSize' \in [Threads -> Nat] /\ mbCall' \in [Threads -> Call]
        /\ moved' \in [Threads -> Seq(Message)]
    BY <1>1, <1>3, <2>2, BlockKept
  <2>4. /\ \A l \in Mailboxes : Queued(l)'
        /\ mbQ' \in [Mailboxes -> Seq(Threads)]
        /\ Cardinality(Waiting(m, "send")') = Cardinality(Waiting(m, "send")) + 1
        /\ \A l \in Mailboxes, p \in Sides :
             l # m \/ p # "send" =>
               Cardinality(Waiting(l, p)') = Cardinality(Waiting(l, p))
    BY <1>1, <1>3, <2>2, BlockCounts
  <2>5. /\ numSenders' = [numSenders EXCEPT ![m] = @ + 1]
        /\ numReceivers' = numReceivers
    BY <1>2, <1>6
  <2>6. ASSUME NEW l \in Mailboxes PROVE Counted(l)'
    BY <1>3, <1>4, <2>1, <2>4, <2>5 DEF Counted
  <2>7. OneSided'
    BY <2>4, <2>6 DEF OneSided, Queued, Counted
  <2>8. BoxesTyped'
    BY <1>1, <1>4, <2>1, <2>3, <2>4, <2>5 DEF BoxesTyped
  <2> QED BY <2>3, <2>7, <2>8 DEF MailInv, CallInv
<1> QED BY <1>5, <1>6

LEMMA ReceiveKept ==
  ASSUME MailInv, NEW t \in Threads, MTReceiveMsg(t)
  PROVE  MailInv'
<1>1. /\ MailboxCall(t, "Receive") /\ bMTInitialised /\ status[t] = "CURRENT"
      /\ CallKeeps /\ mbInUse' = mbInUse
  BY Caller DEF MTReceiveMsg, CallKeeps
<1>2. PICK m \in Mailboxes, size \in MsgSizes :
        IF numSenders[m] > 0
        THEN /\ Meet(m, t, size, "receive")
             /\ numSenders' = [numSenders EXCEPT ![m] = @ - 1]
             /\ UNCHANGED numReceivers
        ELSE /\ Block(m, t, size, "receive")
             /\ numReceivers' = [numReceivers EXCEPT ![m] = @ + 1]
             /\ UNCHANGED numSenders
  BY DEF MTReceiveMsg, SenderWaits
<1>3. size \in Nat /\ "receive" \in Sides /\ "send" \in Sides
  BY MailboxAssumption DEF Sides
<1>4. /\ \A l \in Mailboxes : Counted(l)
      /\ numReceivers \in [Mailboxes -> Nat] /\ numSenders \in [Mailboxes -> Nat]
      /\ mbInUse \in [Mailboxes -> BOOLEAN]
  BY <1>1 DEF MailInv, OneSided, Counted, BoxesTyped
<1>5. CASE numSenders[m] > 0
  <2>1. numSenders[m] - 1 \in Nat /\ numReceivers[m] = 0
    BY <1>4, <1>5 DEF Counted
  <2>2. Waiting(m, "send") # {}
    BY <1>4, <1>5, WaitingFinite DEF Counted
  <2>3. Meet(m, t, size, "receive")
    BY <1>2, <1>5
  <2>4. /\ CallInv'
        /\ msgSize' \in [Threads -> Nat] /\ mbCall' \in [Threads -> Call]
        /\ moved' \in [Threads -> Seq(Message)]
    BY <1>1, <1>3, <2>2, <2>3, MeetKept
  <2>5. /\ \A l \in Mailboxes : Queued(l)'
        /\ mbQ' \in [Mailboxes -> Seq(Threads)]
        /\ Cardinality(Waiting(m, "send")') = Cardinality(Waiting(m, "send")) - 1
        /\ \A l \in Mailboxes, p \in Sides :
             l # m \/ p # "send" =>
               Cardinality(Waiting(l, p)') = Cardinality(Waiting(l, p))
    BY <1>1, <1>3, <2>2, <2>3, MeetCounts
  <2>6. /\ numSenders' = [numSenders EXCEPT ![m] = @ - 1]
        /\ numReceivers' = numReceivers
    BY <1>2, <1>5
  <2>7. ASSUME NEW l \in Mailboxes PROVE Counted(l)'
    BY <1>3, <1>4, <2>1, <2>5, <2>6 DEF Counted
  <2>8. OneSided'
    BY <2>5, <2>7 DEF OneSided, Queued, Counted
  <2>9. BoxesTyped'
    BY <1>1, <1>4, <2>1, <2>4, <2>5, <2>6 DEF BoxesTyped
  <2> QED BY <2>4, <2>8, <2>9 DEF MailInv, CallInv
<1>6. CASE ~(numSenders[m] > 0)
  <2>1. numSenders[m] = 0 /\ numReceivers[m] + 1 \in Nat
    BY <1>4, <1>6
  <2>2. Block(m, t, size, "receive")
    BY <1>2, <1>6
  <2>3. /\ CallInv'
        /\ msgSize' \in [Threads -> Nat] /\ mbCall' \in [Threads -> Call]
        /\ moved' \in [Threads -> Seq(Message)]
    BY <1>1, <1>3, <2>2, BlockKept
  <2>4. /\ \A l \in Mailboxes : Queued(l)'
        /\ mbQ' \in [Mailboxes -> Seq(Threads)]
        /\ Cardinality(Waiting(m, "receive")') = Cardinality(Waiting(m, "receive")) + 1
        /\ \A l \in Mailboxes, p \in Sides :
             l # m \/ p # "receive" =>
               Cardinality(Waiting(l, p)') = Cardinality(Waiting(l, p))
    BY <1>1, <1>3, <2>2, BlockCounts
  <2>5. /\ numReceivers' = [numReceivers EXCEPT ![m] = @ + 1]
        /\ numSenders' = numSenders
    BY <1>2, <1>6
  <2>6. ASSUME NEW l \in Mailboxes PROVE Counted(l)'
    BY <1>3, <1>4, <2>1, <2>4, <2>5 DEF Counted
  <2>7. OneSided'
    BY <2>4, <2>6 DEF OneSided, Queued, Counted
  <2>8. BoxesTyped'
    BY <1>1, <1>4, <2>1, <2>3, <2>4, <2>5 DEF BoxesTyped
  <2> QED BY <2>3, <2>7, <2>8 DEF MailInv, CallInv
<1> QED BY <1>5, <1>6
-----------------------------------------------------------------------------
(* The other steps.                                                          *)

\* Creating or destroying a mailbox, and a step of something else.
LEMMA BoxesKept ==
  ASSUME MailInv, UNCHANGED vars, UNCHANGED <<numSenders, numReceivers, mbQ,
         callVars>>, mbInUse' \in [Mailboxes -> BOOLEAN]
  PROVE  MailInv'
<1>1. BoxesTyped'
  BY DEF MailInv, BoxesTyped, callVars
<1>2. ~MTInitialise /\ ~TidyUp
  BY DEF MTInitialise, TidyUp, vars, globalVars, modeVars
<1>3. /\ UNCHANGED <<numSenders, numReceivers, mbQ, msgSize>>
      /\ \A u \in Threads : mbCall'[u] = mbCall[u] /\ moved'[u] = moved[u]
  BY DEF callVars
<1> QED BY <1>1, <1>2, <1>3, KernelKept

\* MTInitialise, and the tidying up that follows a run: nobody is in a call.
LEMMA NobodyCalls ==
  ASSUME MailInv, SchedBut({})', TypeInv', BoxesTyped',
         \A u \in Threads : mbCall'[u] = NoCall /\ moved'[u] = <<>>,
         bMTInitialised' => \A m \in Mailboxes : /\ mbQ'[m] = <<>>
                                                 /\ numSenders'[m] = 0
                                                 /\ numReceivers'[m] = 0
  PROVE  MailInv'
<1>1. NoCall.op = "none" /\ \A m : \A o \in Sides : [op |-> o, box |-> m] # NoCall
  BY DEF NoCall, Sides
<1>2. Away' = {} /\ \A m : \A o \in Sides : Waiting(m, o)' = {}
  BY <1>1 DEF Away, Waiting
<1>3. SchedBut(Away)'
  BY <1>2
<1>4. CallsInside' /\ OneMessagePerCall'
  BY <1>1 DEF CallsInside, OneMessagePerCall
<1>5. OneSided'
  <2>1. IsInjective(<<>>) /\ ToSet(<<>>) = {}
    BY DEF IsInjective, ToSet
  <2>2. Cardinality({}) = 0
    BY FS_EmptySet
  <2> QED BY <1>2, <2>1, <2>2 DEF OneSided, Sides
<1> QED BY <1>3, <1>4, <1>5 DEF MailInv

LEMMA InitialiseKept ==
  ASSUME MailInv, MTInitialise, ResetMailboxes, UNCHANGED <<mbCall, moved>>
  PROVE  MailInv'
<1>1. TypeInv'
  <2>1. Next
    BY DEF Next, Main
  <2> QED BY <2>1, TypeNext DEF MailInv
<1>2. SchedBut({})'
  <2>1. PICK W : W = Away
    OBVIOUS
  <2>2. SchedBut(W)
    BY <2>1 DEF MailInv
  <2> QED BY <2>2, SchedStarts, NoneAway
<1>3. \A u \in Threads : mbCall[u] = NoCall /\ moved[u] = <<>>
  <2>1. ~bMTInitialised
    BY DEF MTInitialise
  <2>2. \A u \in Threads : mbCall[u].op = "none" /\ mbCall[u] \in Call
    BY <2>1 DEF MailInv, CallsInside, BoxesTyped
  <2>3. \A x \in Call : x.op = "none" => x = NoCall
    BY DEF Call, Sides
  <2> QED BY <2>2, <2>3 DEF MailInv, CallsInside
<1>4. /\ BoxesTyped'
      /\ \A m \in Mailboxes : /\ mbQ'[m] = <<>>
                              /\ numSenders'[m] = 0 /\ numReceivers'[m] = 0
  BY DEF MailInv, BoxesTyped, ResetMailboxes
<1> QED BY <1>1, <1>2, <1>3, <1>4, NobodyCalls

LEMMA TidyKept ==
  ASSUME MailInv, TidyUp, SparesCallers, [SparesSleepers]_vars,
         mbCall' = [t \in Threads |-> NoCall], moved' = [t \in Threads |-> <<>>],
         UNCHANGED <<boxVars, msgSize>>
  PROVE  MailInv'
<1>1. Next /\ ~MTInitialise /\ ~bMTInitialised'
  BY DEF Next, Main, TidyUp, MTInitialise
<1>2. TypeInv'
  BY <1>1, TypeNext DEF MailInv
<1>3. SchedBut({})'
  <2>1. PICK W : W = Away
    OBVIOUS
  <2>2. SchedBut(W) /\ Spares(W)
    BY <2>1 DEF MailInv, SparesCallers, Spares, Away
  <2>3. SchedBut(W)'
    BY <1>1, <2>2, SchedStep DEF MailInv
  <2> QED BY <1>1, <2>3 DEF SchedBut, PlacedInvBut
<1>4. BoxesTyped'
  <2>1. NoCall \in Call /\ <<>> \in Seq(Message)
    BY DEF Call
  <2> QED BY <2>1 DEF MailInv, BoxesTyped, boxVars
<1> QED BY <1>1, <1>2, <1>3, <1>4, NobodyCalls

LEMMA ReturnKept ==
  ASSUME MailInv, [SparesSleepers]_vars, SparesCallers, NEW t \in Threads,
         LeaveResumed(t), Returns(t), UNCHANGED boxVars
  PROVE  MailInv'
<1>1. Next /\ ~MTInitialise /\ ~TidyUp
  BY DEF Next, Kernel, LeaveResumed, InThread, MTInitialise, TidyUp
<1>2. BoxesTyped'
  <2>1. NoCall \in Call /\ <<>> \in Seq(Message)
    BY DEF Call
  <2> QED BY <2>1 DEF MailInv, BoxesTyped, boxVars, Returns
<1>3. \A u \in Threads : LeaveResumed(u) => u = t
  BY DEF LeaveResumed, InThread
<1>4. ASSUME NEW u \in Threads
      PROVE  \/ /\ UNCHANGED vars \/ ~LeaveResumed(u)
                /\ mbCall'[u] = mbCall[u] /\ moved'[u] = moved[u]
             \/ LeaveResumed(u) /\ mbCall'[u] = NoCall /\ moved'[u] = <<>>
  BY <1>3 DEF MailInv, BoxesTyped, Returns
<1>5. UNCHANGED <<numSenders, numReceivers, mbQ, msgSize>>
  BY DEF Returns, boxVars
<1> QED BY <1>1, <1>2, <1>4, <1>5, KernelKept

LEMMA MailInit == MailboxInit => MailInv
<1> SUFFICES ASSUME MailboxInit PROVE MailInv
  OBVIOUS
<1>1. Init /\ ~bMTInitialised
  BY DEF MailboxInit, Init
<1>2. TypeInv /\ SchedInv
  BY <1>1, TypeInit, SchedInit
<1>3. SchedBut(Away)
  BY <1>1, <1>2 DEF SchedBut, SchedInv, PlacedInvBut
<1>4. BoxesTyped
  <2>1. NoCall \in Call /\ <<>> \in Seq(Message) /\ <<>> \in Seq(Threads) /\ 0 \in Nat
    BY DEF Call
  <2> QED BY <2>1 DEF MailboxInit, BoxesTyped
<1>5. CallsInside /\ OneSided /\ OneMessagePerCall
  BY <1>1 DEF MailboxInit, CallsInside, OneSided, OneMessagePerCall, NoCall
<1> QED BY <1>2, <1>3, <1>4, <1>5 DEF MailInv

LEMMA MailNext ==
  /\ MailInv
  /\ [MailboxNext]_mailVars
  /\ [SparesSleepers]_vars
  /\ [SparesCallers]_mailVars
  => MailInv'
<1> SUFFICES ASSUME MailInv, [MailboxNext]_mailVars, [SparesSleepers]_vars,
                    [SparesCallers]_mailVars
             PROVE  MailInv'
  OBVIOUS
<1>1. CASE UNCHANGED mailVars
  BY <1>1, BoxesKept DEF mailVars, mbVars, boxVars, MailInv, BoxesTyped
<1>2. CASE MTCreateMailbox \/ \E t \in Threads : MTDestroyMailbox(t)
  BY <1>2, BoxesKept DEF MTCreateMailbox, MTDestroyMailbox, MailInv, BoxesTyped
<1>3. CASE \E t \in Threads : MTSendMsg(t) \/ MTReceiveMsg(t)
  BY <1>3, SendKept, ReceiveKept
<1>4. CASE SparesCallers /\ KernelStep
  <2>1. CASE MTInitialise /\ ResetMailboxes /\ UNCHANGED <<mbCall, moved>>
    BY <2>1, InitialiseKept
  <2>2. CASE \E t \in Threads : LeaveResumed(t) /\ Returns(t) /\ UNCHANGED boxVars
    BY <1>4, <2>2, ReturnKept
  <2>3. CASE /\ TidyUp
             /\ mbCall' = [t \in Threads |-> NoCall]
             /\ moved' = [t \in Threads |-> <<>>]
             /\ UNCHANGED <<boxVars, msgSize>>
    BY <1>4, <2>3, TidyKept
  <2>4. CASE /\ Next /\ ~MTInitialise /\ ~TidyUp /\ ~\E t \in Threads : LeaveResumed(t)
             /\ UNCHANGED mbVars
    <3>1. BoxesTyped' /\ UNCHANGED <<numSenders, numReceivers, mbQ, msgSize>>
      BY <2>4 DEF MailInv, BoxesTyped, mbVars, boxVars, callVars
    <3>2. \A u \in Threads : /\ ~LeaveResumed(u)
                             /\ mbCall'[u] = mbCall[u] /\ moved'[u] = moved[u]
      BY <2>4 DEF mbVars, callVars
    <3> QED BY <1>4, <2>4, <3>1, <3>2, KernelKept
  <2> QED BY <1>4, <2>1, <2>2, <2>3, <2>4 DEF KernelStep
<1> QED BY <1>1, <1>2, <1>3, <1>4 DEF MailboxNext

\* As long as no thread is killed in its sleep or inside a mailbox call, a mailbox's
\* one queue holds its senders or its receivers, once each and as many as the counters
\* say, and a thread that blocked in MTSendMsg or MTReceiveMsg runs on with exactly
\* one message moved, of the size it returns.
THEOREM MailboxesSound ==
  MailboxSpec /\ NoSleeperKilled /\ NoCallerKilled =>
    [](OneSided /\ OneMessagePerCall)
<1>1. MailInv => OneSided /\ OneMessagePerCall
  BY DEF MailInv
<1> QED BY <1>1, MailInit, MailNext, PTL
        DEF MailboxSpec, NoSleeperKilled, NoCallerKilled, mailVars

\* The mailboxes leave the kernel as sound as it was: what the scheduler loads is the
\* stack of a thread that has one, and DEADLOCKED still means that nobody can run,
\* although threads now wait where no semaphore's queue knows them.
THEOREM MailboxesKeepKernel ==
  MailboxSpec /\ NoSleeperKilled /\ NoCallerKilled =>
    [](NoWildDispatch /\ DeadlockSound)
<1>1. MailInv => NoWildDispatch /\ DeadlockSound
  BY DEF MailInv, SchedBut, RunInv
<1> QED BY <1>1, MailInit, MailNext, PTL
        DEF MailboxSpec, NoSleeperKilled, NoCallerKilled, mailVars

\* A thread that kills itself does so outside any mailbox call.
LEMMA CallersSpared ==
  ASSUME "KillThread" \notin Calls, MailInv, OwnKills
  PROVE  SparesSleepers /\ SparesCallers
<1>1. ASSUME NEW t \in Threads, KillBody(t)
      PROVE  status[frame[t].arg] # "SLEEPING" /\ mbCall[frame[t].arg].op = "none"
  <2>1. cpu = "thread" /\ curThreadID = t /\ pc[t] = "kill"
    BY <1>1 DEF KillBody, InThread
  <2>2. frame[t].arg = t
    BY <2>1 DEF OwnKills, OwnKill
  <2>3. status[t] = "CURRENT"
    BY <2>1, RunnerBut DEF MailInv, SchedBut
  <2>4. mbCall[t].op = "none"
    BY <2>1 DEF MailInv, CallsInside, Inside
  <2> QED BY <2>2, <2>3, <2>4
<1> QED BY <1>1 DEF SparesSleepers, SparesCallers

LEMMA MailOwnKills ==
  ASSUME "KillThread" \notin Calls, MailInv, OwnKills, [MailboxNext]_mailVars
  PROVE  OwnKills'
<1>1. CASE [Next]_vars
  BY <1>1, OwnKillsKept DEF MailInv
<1>2. CASE UNCHANGED <<pc, frame>>
  BY <1>2 DEF OwnKills, OwnKill
<1>3. ASSUME NEW t \in Threads, NEW m, NEW size, NEW op, Block(m, t, size, op)
      PROVE  OwnKills'
  <2>1. /\ pc'[t] = "go"
        /\ frame'[t] = [resume |-> "leave", ret |-> "app", acq |-> 0, arg |-> 0]
        /\ \A u \in Threads : u # t => pc'[u] = pc[u] /\ frame'[u] = frame[u]
    BY <1>3, SuspendFrame DEF Block, MailInv
  <2> QED BY <2>1 DEF OwnKills, OwnKill
<1>4. CASE \E t \in Threads : MTSendMsg(t) \/ MTReceiveMsg(t)
  <2>1. PICK t \in Threads, m \in Mailboxes, size \in MsgSizes, op \in Sides :
          Meet(m, t, size, op) \/ Block(m, t, size, op)
    BY <1>4 DEF MTSendMsg, MTReceiveMsg, Sides
  <2>2. CASE Meet(m, t, size, op)
    BY <1>2, <2>2 DEF Meet
  <2> QED BY <1>3, <2>1, <2>2
<1>5. CASE UNCHANGED vars
  BY <1>1, <1>5
<1>6. CASE KernelStep
  <2>1. ASSUME NEW t \in Threads, LeaveResumed(t) PROVE Next
    BY <2>1 DEF Next, Kernel
  <2>2. MTInitialise \/ TidyUp => Next
    BY DEF Next, Main
  <2> QED BY <1>1, <1>6, <2>1, <2>2 DEF KernelStep
<1> QED BY <1>4, <1>5, <1>6
        DEF MailboxNext, MTCreateMailbox, MTDestroyMailbox, mailVars

\* In an application whose threads end only themselves nothing more is asked.
COROLLARY MailboxesSoundByCalls ==
  ASSUME "KillThread" \notin Calls
  PROVE  MailboxSpec => [](OneSided /\ OneMessagePerCall)
<1>1. MailInv /\ OwnKills /\ [MailboxNext]_mailVars => (MailInv /\ OwnKills)'
  BY CallersSpared, MailNext, MailOwnKills
<1>2. MailboxInit => OwnKills
  BY CallsInit DEF MailboxInit
<1>3. MailInv => OneSided /\ OneMessagePerCall
  BY DEF MailInv
<1> QED BY <1>1, <1>2, <1>3, MailInit, PTL DEF MailboxSpec, mailVars
=============================================================================

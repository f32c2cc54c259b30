------------------------ MODULE MicroThread_proofs ------------------------
(***************************************************************************)
(* Theorems about MicroThread, for any number of threads and semaphores,   *)
(* any clock and whatever calls the threads make: first types and critical *)
(* sections, then the queues and the scheduler.                            *)
(***************************************************************************)
EXTENDS MicroThread, QueueLemmas

\* Joining a ready queue.
LEMMA EnqueueReadyType ==
  ASSUME NEW rq \in [Priorities -> Seq(Threads)],
         NEW t \in Threads, NEW p \in Priorities
  PROVE  /\ EnqueueReady(rq, t, p) \in [Priorities -> Seq(Threads)]
         /\ ToSet(EnqueueReady(rq, t, p)[p]) = ToSet(rq[p]) \union {t}
         /\ \A r \in Priorities : r # p => EnqueueReady(rq, t, p)[r] = rq[r]
<1>1. rq[p] \in Seq(Threads) /\ Append(rq[p], t) \in Seq(Threads)
  OBVIOUS
<1>2. EnqueueReady(rq, t, p)[p] = Append(rq[p], t)
  BY DEF EnqueueReady
<1>3. ToSet(Append(rq[p], t)) = ToSet(rq[p]) \union {t}
  BY <1>1, AppendSet
<1> QED BY <1>1, <1>2, <1>3 DEF EnqueueReady

\* Taking a member out of a queue.
LEMMA ExtractThreadType ==
  ASSUME NEW q \in Seq(Threads), NEW t \in ToSet(q)
  PROVE  /\ ExtractThread(q, t) \in Seq(Threads)
         /\ \A u \in ToSet(q) : u # t => u \in ToSet(ExtractThread(q, t))
<1> DEFINE i == CHOOSE i \in DOMAIN q : q[i] = t
           r == RemoveAt(q, i)
<1>1. i \in 1..Len(q) /\ q[i] = t /\ DOMAIN q = 1..Len(q) /\ Len(q) \in Nat
  BY DEF ToSet
<1> HIDE DEF i
<1>2. /\ r \in Seq(Threads) /\ Len(r) = Len(q) - 1
      /\ \A j \in 1..i-1 : r[j] = q[j]
      /\ \A j \in i..Len(q)-1 : r[j] = q[j+1]
  BY <1>1, RemoveAtElements
<1> HIDE DEF r
<1>3. ASSUME NEW u \in ToSet(q), u # t PROVE u \in ToSet(r)
  <2>1. PICK j \in 1..Len(q) : q[j] = u /\ j # i
    BY <1>1, <1>3 DEF ToSet
  <2>2. CASE j < i
    <3>1. j \in 1..Len(q)-1 /\ r[j] = u BY <1>1, <1>2, <2>1, <2>2
    <3> QED BY <1>1, <1>2, <3>1 DEF ToSet
  <2>3. CASE j > i
    <3>1. j-1 \in 1..Len(q)-1 /\ r[j-1] = u BY <1>1, <1>2, <2>1, <2>3
    <3> QED BY <1>1, <1>2, <3>1 DEF ToSet
  <2> QED BY <1>1, <2>1, <2>2, <2>3
<1> QED BY <1>2, <1>3 DEF ExtractThread, r, i

\* Tail takes out no element other than the head.
LEMMA TailKeeps ==
  ASSUME NEW q \in Seq(Threads), q # <<>>
  PROVE  \A u \in ToSet(q) : u # Head(q) => u \in ToSet(Tail(q))
<1>1. /\ Tail(q) \in Seq(Threads) /\ Len(Tail(q)) = Len(q) - 1
      /\ \A i \in 1..Len(q)-1 : Tail(q)[i] = q[i+1]
      /\ Head(q) = q[1] /\ Len(q) \in Nat \ {0}
  OBVIOUS
<1>2. SUFFICES ASSUME NEW u \in ToSet(q), u # Head(q) PROVE u \in ToSet(Tail(q))
  OBVIOUS
<1>3. PICK i \in 1..Len(q) : q[i] = u
  BY Member
<1>4. i # 1 BY <1>1, <1>2, <1>3
<1>5. i - 1 \in 1..Len(Tail(q)) /\ Tail(q)[i-1] = u
  BY <1>1, <1>3, <1>4
<1> QED BY <1>1, <1>5, Member

-----------------------------------------------------------------------------
(* Type correctness.  Its inductive strengthening says that the count of     *)
(* critical sections reaches its limit only where multi-threading stops,     *)
(* that a call in progress keeps an operand of the right kind, and that a    *)
(* READY thread can be extracted from the ready queue of its priority.       *)

NestOK == cpu # "stopping" => iCriticalSection < MAX_CRITICAL_NESTING

FrameOK(f, l) ==
  /\ f.resume \in {"app", "leave"}
  /\ "kill" \in {l, f.ret} => f.arg \in 0..NThreads
  /\ "add" \in {l, f.ret} => f.arg \in Priorities
FramesOK == \A t \in Threads : FrameOK(frame[t], pc[t])

ReadyQueued ==
  \A t \in Threads : status[t] = "READY" => t \in ToSet(readyQ[priority[t]])

TypeInv == TypeOK /\ NestOK /\ FramesOK /\ ReadyQueued

LEMMA NoFrameOK ==
  /\ NoFrame \in Frame /\ FrameOK(NoFrame, "app")
  /\ \A a \in Nat : [NoFrame EXCEPT !.arg = a] =
                      [resume |-> "app", ret |-> "app", acq |-> 0, arg |-> a]
BY ConstantsAssumption DEF NoFrame, Frame, FrameOK, Labels

LEMMA TypeInit == Init => TypeInv
<1> SUFFICES ASSUME Init PROVE TypeInv
  OBVIOUS
<1> USE ConstantsAssumption DEF Init
<1>1. /\ 0 \in 0..NSemas /\ 0 \in 0..ClockMod-1 /\ 0 \in 0..NThreads
      /\ 0 \in 0..MAX_CRITICAL_NESTING /\ 15 \in 0..15 /\ 1 \in Priorities
      /\ 0 < MAX_CRITICAL_NESTING
  BY DEF Priorities
<1>2. ThreadsTyped
  BY <1>1 DEF ThreadsTyped, ThreadStatus
<1>3. QueuesTyped /\ SemasTyped
  BY DEF QueuesTyped, SemasTyped
<1>4. GlobalsTyped
  BY <1>1 DEF GlobalsTyped, MTReturnCode, Cpu
<1>5. StacksTyped
  BY NoFrameOK DEF StacksTyped, Labels
<1>6. NestOK /\ FramesOK /\ ReadyQueued
  BY <1>1, NoFrameOK DEF NestOK, FramesOK, ReadyQueued
<1> QED BY <1>2, <1>3, <1>4, <1>5, <1>6 DEF TypeInv, TypeOK

\* Where a call in progress goes on, the operand it keeps is of the right kind.
LEMMA ContinueType ==
  ASSUME StacksTyped, FramesOK, NEW t \in Threads, NEW k \in Labels,
         NEW a \in Nat, k = "kill" => a \in 0..NThreads,
         k = "add" => a \in Priorities, Continue(t, k, a)
  PROVE  pc' \in [Threads -> Labels] /\ frame' \in [Threads -> Frame] /\ FramesOK'
<1> DEFINE f == [resume |-> "app", ret |-> "app", acq |-> 0, arg |-> a]
<1>1. pc' = [pc EXCEPT ![t] = k] /\ frame' = [frame EXCEPT ![t] = f]
  BY NoFrameOK DEF Continue
<1>2. f \in Frame /\ FrameOK(f, k)
  BY ConstantsAssumption DEF Frame, Labels, FrameOK
<1> HIDE DEF f
<1>3. pc' \in [Threads -> Labels] /\ frame' \in [Threads -> Frame]
  BY <1>1, <1>2 DEF StacksTyped
<1>4. \A u \in Threads : pc'[u] = (IF u = t THEN k ELSE pc[u])
                      /\ frame'[u] = (IF u = t THEN f ELSE frame[u])
  BY <1>1 DEF StacksTyped
<1> QED BY <1>2, <1>3, <1>4 DEF FramesOK

LEMMA SuspendType ==
  ASSUME StacksTyped, FramesOK, NEW t \in Threads, NEW r \in {"app", "leave"},
         NEW k \in Labels \ {"dos"}, NEW s \in 0..NSemas, NEW a \in Nat,
         k = "kill" => a \in 0..NThreads, k = "add" => a \in Priorities,
         Suspend(t, r, k, s, a)
  PROVE  pc' \in [Threads -> Labels] /\ frame' \in [Threads -> Frame] /\ FramesOK'
<1> DEFINE f == [resume |-> r, ret |-> k, acq |-> s, arg |-> a]
<1>1. pc' = [pc EXCEPT ![t] = "go"] /\ frame' = [frame EXCEPT ![t] = f]
  BY DEF Suspend
<1>2. f \in Frame /\ FrameOK(f, "go")
  BY ConstantsAssumption DEF Frame, Labels, FrameOK
<1> HIDE DEF f
<1>3. pc' \in [Threads -> Labels] /\ frame' \in [Threads -> Frame]
  BY <1>1, <1>2 DEF StacksTyped, Labels
<1>4. \A u \in Threads : pc'[u] = (IF u = t THEN "go" ELSE pc[u])
                      /\ frame'[u] = (IF u = t THEN f ELSE frame[u])
  BY <1>1 DEF StacksTyped
<1> QED BY <1>2, <1>3, <1>4 DEF FramesOK

\* A thread that becomes READY joins the ready queue of its priority.
LEMMA ReadyJoins ==
  ASSUME ThreadsTyped, QueuesTyped, ReadyQueued, NEW t \in Threads,
         status' = [status EXCEPT ![t] = "READY"], UNCHANGED priority,
         readyQ' = EnqueueReady(readyQ, t, priority[t])
  PROVE  /\ status' \in [Threads -> ThreadStatus]
         /\ readyQ' \in [Priorities -> Seq(Threads)]
         /\ ReadyQueued'
<1> DEFINE p == priority[t]
<1>1. p \in Priorities /\ readyQ \in [Priorities -> Seq(Threads)]
  BY DEF ThreadsTyped, QueuesTyped
<1>2. /\ readyQ' \in [Priorities -> Seq(Threads)]
      /\ ToSet(readyQ'[p]) = ToSet(readyQ[p]) \union {t}
      /\ \A r \in Priorities : r # p => readyQ'[r] = readyQ[r]
  BY <1>1, EnqueueReadyType
<1>3. status' \in [Threads -> ThreadStatus]
      /\ \A u \in Threads : u # t => status'[u] = status[u]
  BY DEF ThreadsTyped, ThreadStatus
<1>4. \A u \in Threads : priority[u] \in Priorities
  BY DEF ThreadsTyped
<1> QED BY <1>1, <1>2, <1>3, <1>4 DEF ReadyQueued

\* A step that touches neither the ready queues nor a READY thread.
LEMMA ReadyKept ==
  ASSUME ReadyQueued, UNCHANGED <<priority, readyQ>>,
         \A t \in Threads : status'[t] = "READY" => status[t] = "READY"
  PROVE  ReadyQueued'
BY DEF ReadyQueued

LEMMA WakeUpType ==
  ASSUME ThreadsTyped, QueuesTyped, ReadyQueued, NEW s \in Semaphores,
         WakeUpThreads(s), UNCHANGED <<priority, wakeUpTime, ownStack, sleepQ>>
  PROVE  ThreadsTyped' /\ QueuesTyped' /\ ReadyQueued'
<1>1. CASE semQ[s] = <<>>
  BY <1>1, ReadyKept DEF WakeUpThreads, ThreadsTyped, QueuesTyped
<1>2. CASE semQ[s] # <<>>
  <2> DEFINE t == Head(semQ[s])
  <2>1. semQ[s] \in Seq(Threads)
    BY DEF QueuesTyped
  <2>2. t \in Threads /\ Tail(semQ[s]) \in Seq(Threads)
    BY <1>2, <2>1
  <2>3. /\ semQ' = [semQ EXCEPT ![s] = Tail(@)]
        /\ status' = [status EXCEPT ![t] = "READY"]
        /\ semaphore' = [semaphore EXCEPT ![t] = 0]
        /\ readyQ' = EnqueueReady(readyQ, t, priority[t])
    BY <1>2 DEF WakeUpThreads
  <2> HIDE DEF t
  <2>4. /\ status' \in [Threads -> ThreadStatus]
        /\ readyQ' \in [Priorities -> Seq(Threads)]
        /\ ReadyQueued'
    BY <2>2, <2>3, ReadyJoins
  <2>5. semaphore' \in [Threads -> 0..NSemas]
    <3>1. 0 \in 0..NSemas BY ConstantsAssumption
    <3> QED BY <2>3, <3>1 DEF ThreadsTyped
  <2>6. semQ' \in [Semaphores -> Seq(Threads)]
    BY <2>2, <2>3 DEF QueuesTyped
  <2> QED BY <2>4, <2>5, <2>6 DEF ThreadsTyped, QueuesTyped
<1> QED BY <1>1, <1>2

\* MTWait and MTSignal, wherever they are called from.
LEMMA WaitType ==
  ASSUME TypeInv, NEW t \in Threads, NEW s \in Semaphores, NEW k \in Labels \ {"dos"},
         NEW a \in Nat, k = "kill" => a \in 0..NThreads,
         k = "add" => a \in Priorities, MTWait(t, s, k, a)
  PROVE  TypeInv'
<1> USE DEF TypeInv, TypeOK, MTWait
<1>1. /\ UNCHANGED <<priority, wakeUpTime, ownStack, readyQ, sleepQ, semInUse>>
      /\ UNCHANGED <<bMTInitialised, bMTPreemptive, bMultiThreading, bCtrlBreak,
                     returnCode, clockTick, priorityIdx, curThreadID, cpu, depth>>
      /\ UNCHANGED iCriticalSection
  BY DEF queueVars, globalVars, modeVars, stopVars, schedVars, WaitCritical
<1>2. GlobalsTyped' /\ NestOK'
  BY <1>1 DEF GlobalsTyped, NestOK
<1>3. s \in 0..NSemas
  BY ConstantsAssumption DEF Semaphores
<1>4. CASE WaitFree(t, s, k, a)
  <2> USE <1>4 DEF WaitFree
  <2>1. ThreadsTyped' BY <1>1, <1>3 DEF ThreadsTyped
  <2>2. QueuesTyped' BY <1>1 DEF QueuesTyped
  <2>3. SemasTyped' BY <1>1 DEF SemasTyped
  <2>4. pc' \in [Threads -> Labels] /\ frame' \in [Threads -> Frame] /\ FramesOK'
    BY ContinueType
  <2>5. held' \in [Threads -> SUBSET Semaphores]
    BY DEF StacksTyped
  <2>6. StacksTyped' BY <1>1, <2>4, <2>5 DEF StacksTyped
  <2>7. ReadyQueued' BY <1>1, ReadyKept
  <2> QED BY <1>2, <2>1, <2>2, <2>3, <2>4, <2>6, <2>7
<1>5. CASE WaitBusy(t, s, k, a)
  <2> USE <1>5 DEF WaitBusy
  <2>1. ThreadsTyped' BY <1>1, <1>3 DEF ThreadsTyped, ThreadStatus
  <2>2. QueuesTyped' BY <1>1 DEF QueuesTyped
  <2>3. SemasTyped' BY <1>1 DEF SemasTyped
  <2>4. pc' \in [Threads -> Labels] /\ frame' \in [Threads -> Frame] /\ FramesOK'
    BY <1>3, SuspendType
  <2>5. StacksTyped' BY <1>1, <2>4 DEF StacksTyped
  <2>6. ReadyQueued' BY <1>1, ReadyKept DEF ThreadsTyped
  <2> QED BY <1>2, <2>1, <2>2, <2>3, <2>4, <2>5, <2>6
<1>6. CASE WaitUnused(t, s, k, a)
  <2> USE <1>6 DEF WaitUnused
  <2>1. pc' \in [Threads -> Labels] /\ frame' \in [Threads -> Frame] /\ FramesOK'
    BY ContinueType
  <2>2. ThreadsTyped' /\ QueuesTyped' /\ SemasTyped' /\ StacksTyped'
    BY <1>1, <2>1 DEF ThreadsTyped, QueuesTyped, SemasTyped, StacksTyped
  <2>3. ReadyQueued' BY <1>1, ReadyKept
  <2> QED BY <1>2, <2>1, <2>2, <2>3
<1> QED BY <1>4, <1>5, <1>6

LEMMA SignalType ==
  ASSUME TypeInv, NEW t \in Threads, NEW s \in Semaphores,
         NEW k \in Labels \ {"kill", "add", "dos"}, MTSignal(t, s, k)
  PROVE  TypeInv'
<1> USE DEF TypeInv, TypeOK, MTSignal
<1>1. /\ UNCHANGED <<priority, wakeUpTime, ownStack, sleepQ, semInUse>>
      /\ UNCHANGED <<bMTInitialised, bMTPreemptive, bMultiThreading, bCtrlBreak,
                     returnCode, clockTick, priorityIdx, curThreadID, cpu, depth,
                     iCriticalSection>>
  BY DEF globalVars, modeVars, stopVars, schedVars
<1>2. GlobalsTyped' /\ NestOK'
  BY <1>1 DEF GlobalsTyped, NestOK
<1>3. ThreadsTyped' /\ QueuesTyped' /\ SemasTyped' /\ ReadyQueued'
  <2>1. CASE semInUse[s] /\ semValue[s] > 0
    BY <2>1, <1>1, WakeUpType DEF SemasTyped
  <2>2. CASE ~(semInUse[s] /\ semValue[s] > 0)
    BY <2>2, <1>1, ReadyKept DEF ThreadsTyped, QueuesTyped, SemasTyped
  <2> QED BY <2>1, <2>2
<1>4. pc' \in [Threads -> Labels] /\ frame' \in [Threads -> Frame] /\ FramesOK'
  BY ContinueType, SuspendType, ConstantsAssumption
<1>5. held' \in [Threads -> SUBSET Semaphores]
  BY DEF StacksTyped
<1>6. StacksTyped'
  BY <1>1, <1>4, <1>5 DEF StacksTyped
<1> QED BY <1>2, <1>3, <1>4, <1>6

\* A slot that a new thread takes.
LEMMA NewThreadType ==
  ASSUME ThreadsTyped, QueuesTyped, ReadyQueued, NEW t \in Threads,
         NEW p \in Priorities, NewThread(t, p), UNCHANGED semQ
  PROVE  ThreadsTyped' /\ QueuesTyped' /\ ReadyQueued'
<1> USE DEF NewThread
<1>1. /\ readyQ' \in [Priorities -> Seq(Threads)]
      /\ ToSet(readyQ'[p]) = ToSet(readyQ[p]) \union {t}
      /\ \A r \in Priorities : r # p => readyQ'[r] = readyQ[r]
  BY EnqueueReadyType DEF QueuesTyped
<1>2. ThreadsTyped'
  BY DEF ThreadsTyped, ThreadStatus
<1>3. \A u \in Threads : /\ priority'[u] \in Priorities
                         /\ u # t => status'[u] = status[u] /\ priority'[u] = priority[u]
  BY DEF ThreadsTyped
<1>4. priority'[t] = p
  BY DEF ThreadsTyped
<1> QED BY <1>1, <1>2, <1>3, <1>4 DEF QueuesTyped, ReadyQueued

\* A thread's frame that is dropped with its stack.
LEMMA FramesDropped ==
  ASSUME FramesOK, StacksTyped, NEW t \in Threads,
         pc' = [pc EXCEPT ![t] = "app"], frame' = [frame EXCEPT ![t] = NoFrame]
  PROVE  pc' \in [Threads -> Labels] /\ frame' \in [Threads -> Frame] /\ FramesOK'
<1>1. pc' \in [Threads -> Labels] /\ frame' \in [Threads -> Frame]
  BY NoFrameOK DEF StacksTyped, Labels
<1>2. \A u \in Threads : pc'[u] = (IF u = t THEN "app" ELSE pc[u])
                      /\ frame'[u] = (IF u = t THEN NoFrame ELSE frame[u])
  BY DEF StacksTyped
<1> QED BY <1>1, <1>2, NoFrameOK DEF FramesOK

LEMMA MainType == TypeInv /\ Main => TypeInv'
<1> SUFFICES ASSUME TypeInv, Main PROVE TypeInv'
  OBVIOUS
<1> USE ConstantsAssumption
    DEF TypeInv, TypeOK, threadVars, queueVars, semVars, modeVars, stopVars,
        schedVars, globalVars, appVars
<1>0. 0 \in 0..NSemas /\ 0 \in 0..ClockMod-1 /\ 0 \in 0..NThreads
      /\ 0 \in 0..MAX_CRITICAL_NESTING /\ 0 < MAX_CRITICAL_NESTING
  OBVIOUS
<1>1. CASE MTInitialise
  <2> USE <1>1 DEF MTInitialise, ResetSleepQ
  <2>1. ThreadsTyped' BY <1>0 DEF ThreadsTyped, ThreadStatus
  <2>2. QueuesTyped' /\ SemasTyped' BY DEF QueuesTyped, SemasTyped
  <2>3. GlobalsTyped' BY <1>0 DEF GlobalsTyped, MTReturnCode
  <2>4. StacksTyped' /\ FramesOK' BY DEF StacksTyped, FramesOK
  <2>5. NestOK' /\ ReadyQueued' BY <1>0 DEF NestOK, ReadyQueued
  <2> QED BY <2>1, <2>2, <2>3, <2>4, <2>5
<1>2. CASE MTSetPreemptive
  <2> USE <1>2 DEF MTSetPreemptive
  <2>1. ThreadsTyped' /\ QueuesTyped' /\ SemasTyped' /\ StacksTyped'
    BY DEF ThreadsTyped, QueuesTyped, SemasTyped, StacksTyped
  <2>2. GlobalsTyped' BY DEF GlobalsTyped
  <2>3. NestOK' /\ FramesOK' /\ ReadyQueued' BY DEF NestOK, FramesOK, ReadyQueued
  <2> QED BY <2>1, <2>2, <2>3
<1>3. CASE MainAddNewThread
  <2>1. PICK slot \in FirstSlots, p \in AppPriorities :
          /\ NewThread(slot, p)
          /\ pc' = [pc EXCEPT ![slot] = "app"]
          /\ frame' = [frame EXCEPT ![slot] = NoFrame]
    BY <1>3 DEF MainAddNewThread
  <2>2. slot \in Threads /\ p \in Priorities
    BY DEF FirstSlots, UsableSlots, Priorities
  <2>3. UNCHANGED <<semVars, globalVars, iCriticalSection, cpu>>
    BY <1>3 DEF MainAddNewThread
  <2>4. ThreadsTyped' /\ QueuesTyped' /\ ReadyQueued'
    BY <2>1, <2>2, <2>3, NewThreadType
  <2>5. pc' \in [Threads -> Labels] /\ frame' \in [Threads -> Frame] /\ FramesOK'
    BY <2>1, <2>2, FramesDropped
  <2>6. StacksTyped' BY <2>1, <2>2, <2>5 DEF StacksTyped, NewThread
  <2>7. SemasTyped' /\ GlobalsTyped' /\ NestOK'
    BY <2>3 DEF SemasTyped, GlobalsTyped, NestOK
  <2> QED BY <2>4, <2>5, <2>6, <2>7
<1>4. CASE MainCreateSema \/ MainDestroySema
  <2> USE <1>4 DEF MainCreateSema, CreateSema, MainDestroySema, DestroySema
  <2>1. ThreadsTyped' /\ QueuesTyped' /\ StacksTyped' /\ GlobalsTyped'
    BY DEF ThreadsTyped, QueuesTyped, StacksTyped, GlobalsTyped
  <2>2. SemasTyped' BY DEF SemasTyped
  <2>3. NestOK' /\ FramesOK' /\ ReadyQueued' BY DEF NestOK, FramesOK, ReadyQueued
  <2> QED BY <2>1, <2>2, <2>3
<1>5. CASE MTStartMultiThreading
  <2> USE <1>5 DEF MTStartMultiThreading
  <2>1. ThreadsTyped' /\ QueuesTyped' /\ SemasTyped' /\ StacksTyped'
    BY DEF ThreadsTyped, QueuesTyped, SemasTyped, StacksTyped
  <2>2. GlobalsTyped' BY DEF GlobalsTyped, MTReturnCode, Cpu, InScheduler
  <2>3. NestOK' /\ FramesOK' /\ ReadyQueued' BY DEF NestOK, FramesOK, ReadyQueued
  <2> QED BY <2>1, <2>2, <2>3
<1>6. CASE TidyUp
  <2> USE <1>6 DEF TidyUp
  <2>1. ThreadsTyped' BY <1>0 DEF ThreadsTyped, ThreadStatus
  <2>2. QueuesTyped' /\ SemasTyped' BY DEF QueuesTyped, SemasTyped
  <2>3. GlobalsTyped' BY <1>0 DEF GlobalsTyped, Cpu, InScheduler
  <2>4. StacksTyped' /\ FramesOK' BY NoFrameOK DEF StacksTyped, FramesOK, Labels
  <2>5. NestOK' /\ ReadyQueued' BY <1>0 DEF NestOK, ReadyQueued
  <2> QED BY <2>1, <2>2, <2>3, <2>4, <2>5
<1> QED BY <1>1, <1>2, <1>3, <1>4, <1>5, <1>6 DEF Main

LEMMA ApplicationType ==
  ASSUME TypeInv, NEW t \in Threads, Application(t)
  PROVE  TypeInv'
<1> USE ConstantsAssumption
    DEF TypeInv, TypeOK, threadVars, queueVars, semVars, modeVars, stopVars,
        schedVars, globalVars, appVars
<1>0. 1 \in Semaphores /\ {"app", "kill", "add"} \subseteq Labels \ {"dos"} /\ 0 \in Nat
      /\ Threads \subseteq 0..NThreads /\ 0..NThreads \subseteq Nat /\ AppPriorities \subseteq Priorities
      /\ Priorities \subseteq Nat
  BY DEF Semaphores, Labels, Threads, Priorities
<1>1. CASE AppWait(t)
  BY <1>0, <1>1, WaitType DEF AppWait
<1>2. CASE AppSignal(t)
  <2>1. held[t] \subseteq Semaphores BY DEF StacksTyped
  <2> QED BY <1>0, <1>2, <2>1, SignalType DEF AppSignal
<1>3. CASE MTTestAndSet(t)
  <2>1. PICK s \in Semaphores :
          /\ semaphore' = [semaphore EXCEPT ![t] = s]
          /\ IF semValue[s] = 0
             THEN /\ semValue' = [semValue EXCEPT ![s] = 1]
                  /\ held' = [held EXCEPT ![t] = @ \union {s}]
             ELSE UNCHANGED <<semValue, held>>
    BY <1>3 DEF MTTestAndSet
  <2>2. UNCHANGED <<status, priority, wakeUpTime, ownStack, queueVars, semInUse,
                    semQ, globalVars, iCriticalSection, cpu, pc, frame, depth>>
    BY <1>3 DEF MTTestAndSet
  <2>3. s \in 0..NSemas BY DEF Semaphores
  <2>4. ThreadsTyped' BY <2>1, <2>2, <2>3 DEF ThreadsTyped
  <2>5. SemasTyped' BY <2>1, <2>2 DEF SemasTyped
  <2>6. StacksTyped' BY <2>1, <2>2 DEF StacksTyped
  <2>7. QueuesTyped' /\ GlobalsTyped' BY <2>2 DEF QueuesTyped, GlobalsTyped
  <2>8. NestOK' /\ FramesOK' /\ ReadyQueued'
    BY <2>2 DEF NestOK, FramesOK, ReadyQueued
  <2> QED BY <2>4, <2>5, <2>6, <2>7, <2>8
<1>4. CASE MTCreateSema(t) \/ MTDestroySema(t)
  <2> USE <1>4 DEF MTCreateSema, CreateSema, MTDestroySema, DestroySema
  <2>1. UNCHANGED <<threadVars, queueVars, semValue, semQ, globalVars,
                    iCriticalSection, cpu, appVars>>
    OBVIOUS
  <2>2. ThreadsTyped' /\ QueuesTyped' /\ StacksTyped' /\ GlobalsTyped'
    BY <2>1 DEF ThreadsTyped, QueuesTyped, StacksTyped, GlobalsTyped
  <2>3. SemasTyped' BY DEF SemasTyped
  <2>4. NestOK' /\ FramesOK' /\ ReadyQueued'
    BY <2>1 DEF NestOK, FramesOK, ReadyQueued
  <2> QED BY <2>2, <2>3, <2>4
<1>5. CASE MTEnterCritical(t) \/ MTLeaveCritical(t)
  <2> USE <1>5 DEF MTEnterCritical, MTLeaveCritical, CanEnter, Decremented
  <2>1. UNCHANGED <<threadVars, queueVars, semVars, globalVars, cpu, pc, frame,
                    held>>
    OBVIOUS
  <2>2. ThreadsTyped' /\ QueuesTyped' /\ SemasTyped' /\ FramesOK' /\ ReadyQueued'
    BY <2>1 DEF ThreadsTyped, QueuesTyped, SemasTyped, FramesOK, ReadyQueued
  <2>3. iCriticalSection' \in 0..MAX_CRITICAL_NESTING /\ NestOK'
    BY <2>1 DEF GlobalsTyped, NestOK
  <2>4. GlobalsTyped' BY <2>1, <2>3 DEF GlobalsTyped
  <2>5. depth[t] \in Nat /\ depth' \in [Threads -> Nat]
    BY DEF StacksTyped
  <2>6. StacksTyped' BY <2>1, <2>5 DEF StacksTyped
  <2> QED BY <2>2, <2>3, <2>4, <2>6
<1>6. CASE MTYield(t)
  <2> USE <1>6 DEF MTYield
  <2>1. ThreadsTyped' /\ QueuesTyped' /\ SemasTyped' /\ StacksTyped'
    BY DEF ThreadsTyped, QueuesTyped, SemasTyped, StacksTyped
  <2>2. GlobalsTyped' BY DEF GlobalsTyped, Cpu, InScheduler
  <2>3. NestOK' /\ FramesOK' /\ ReadyQueued'
    BY DEF NestOK, FramesOK, ReadyQueued, AppCall, InThread
  <2> QED BY <2>1, <2>2, <2>3
<1>7. CASE MTEndMultiThreading(t)
  <2>1. /\ bMultiThreading' = FALSE /\ Suspend(t, "app", "app", 0, 0)
        /\ UNCHANGED <<threadVars, queueVars, semVars, modeVars, bCtrlBreak,
                       returnCode, schedVars, curThreadID, iCriticalSection, cpu,
                       held, depth>>
    BY <1>7 DEF MTEndMultiThreading
  <2>2. 0 \in 0..NSemas OBVIOUS
  <2>3. pc' \in [Threads -> Labels] /\ frame' \in [Threads -> Frame] /\ FramesOK'
    BY <1>0, <2>1, <2>2, SuspendType
  <2>4. ThreadsTyped' /\ QueuesTyped' /\ SemasTyped' /\ NestOK' /\ ReadyQueued'
    BY <2>1 DEF ThreadsTyped, QueuesTyped, SemasTyped, NestOK, ReadyQueued
  <2>5. GlobalsTyped' BY <2>1 DEF GlobalsTyped
  <2>6. StacksTyped' BY <2>1, <2>3 DEF StacksTyped
  <2> QED BY <2>3, <2>4, <2>5, <2>6
<1>8. CASE MTSleep(t)
  <2>1. PICK ticks \in SleepTicks : LET due == (clockTick + ticks) % ClockMod IN
          /\ wakeUpTime' = [wakeUpTime EXCEPT ![t] = due]
          /\ \E i \in 0..Len(sleepQ) : sleepQ' = InsertAt(sleepQ, i + 1, t)
    BY <1>8 DEF MTSleep
  <2>2. /\ status' = [status EXCEPT ![t] = "SLEEPING"]
        /\ Suspend(t, "app", "app", 0, 0)
        /\ UNCHANGED <<priority, semaphore, ownStack, readyQ, semVars,
                       globalVars, iCriticalSection, cpu, held, depth>>
    BY <1>8 DEF MTSleep
  <2>3. (clockTick + ticks) % ClockMod \in 0..ClockMod-1
    BY DEF GlobalsTyped
  <2>4. ThreadsTyped' BY <2>1, <2>2, <2>3 DEF ThreadsTyped, ThreadStatus
  <2>5. sleepQ' \in Seq(Threads)
    <3>1. PICK i \in 0..Len(sleepQ) : sleepQ' = InsertAt(sleepQ, i + 1, t)
      BY <2>1
    <3>2. i + 1 \in 1..Len(sleepQ)+1 /\ sleepQ \in Seq(Threads)
      BY DEF QueuesTyped
    <3> QED BY <3>1, <3>2, InsertAtElements
  <2>6. QueuesTyped' /\ SemasTyped' /\ GlobalsTyped' /\ NestOK'
    BY <2>2, <2>5 DEF QueuesTyped, SemasTyped, GlobalsTyped, NestOK
  <2>7. 0 \in 0..NSemas OBVIOUS
  <2>8. pc' \in [Threads -> Labels] /\ frame' \in [Threads -> Frame] /\ FramesOK'
    BY <1>0, <2>2, <2>7, SuspendType
  <2>9. StacksTyped' BY <2>2, <2>8 DEF StacksTyped
  <2>10. ReadyQueued' BY <2>2, ReadyKept DEF ThreadsTyped
  <2> QED BY <2>4, <2>6, <2>8, <2>9, <2>10
<1>9. CASE MTEndThread(t)
  BY <1>0, <1>9, WaitType DEF MTEndThread, semaCRunTimeLib
<1>10. CASE MTKillThread(t)
  BY <1>0, <1>10, WaitType DEF MTKillThread, semaCRunTimeLib
<1>11. CASE MTAddNewThread(t)
  BY <1>0, <1>11, WaitType DEF MTAddNewThread, semaCRunTimeLib
<1>12. CASE EnterDos(t)
  <2>1. /\ UNCHANGED <<threadVars, queueVars, semVars, globalVars, iCriticalSection,
                       cpu, frame, held, depth>>
        /\ pc' = [pc EXCEPT ![t] = "dos"]
    BY <1>12 DEF EnterDos
  <2>2. ThreadsTyped' /\ QueuesTyped' /\ SemasTyped' /\ GlobalsTyped' /\ ReadyQueued'
    BY <2>1 DEF ThreadsTyped, QueuesTyped, SemasTyped, GlobalsTyped, ReadyQueued
  <2>3. StacksTyped' /\ FramesOK' /\ NestOK'
    BY <2>1 DEF StacksTyped, FramesOK, FrameOK, Labels, NestOK
  <2> QED BY <2>2, <2>3
<1> QED BY <1>1, <1>2, <1>3, <1>4, <1>5, <1>6, <1>7, <1>8, <1>9, <1>10, <1>11, <1>12
        DEF Application

\* A kill takes the victim's thread, and no other READY thread, out of a queue.
LEMMA KillType ==
  ASSUME TypeInv, NEW t \in Threads, KillBody(t)
  PROVE  TypeInv'
<1> USE DEF TypeInv, TypeOK
<1> DEFINE v == frame[t].arg
<1>1. /\ pc[t] = "kill" /\ v \in Threads
      /\ status' = [status EXCEPT ![v] = "TERMINATED"]
      /\ ownStack' = [ownStack EXCEPT ![v] = FALSE]
      /\ DropFrames(t, v)
      /\ UNCHANGED <<priority, semaphore, wakeUpTime, sleepQ, semValue, semInUse,
                     globalVars, iCriticalSection>>
      /\ cpu = "thread"
  BY DEF KillBody, InThread, FramesOK, FrameOK, Threads
<1>2. ThreadsTyped'
  BY <1>1 DEF ThreadsTyped, ThreadStatus
<1>3. readyQ' \in [Priorities -> Seq(Threads)] /\ ReadyQueued'
  <2>1. CASE v # t /\ status[v] = "READY"
    <3> DEFINE p == priority[v]
    <3>1. readyQ' = [readyQ EXCEPT ![p] = ExtractThread(@, v)]
      BY <2>1 DEF KillBody, KillReady
    <3>2. p \in Priorities /\ readyQ[p] \in Seq(Threads) /\ v \in ToSet(readyQ[p])
      BY <1>1, <2>1 DEF ThreadsTyped, QueuesTyped, ReadyQueued
    <3>3. /\ ExtractThread(readyQ[p], v) \in Seq(Threads)
          /\ \A u \in ToSet(readyQ[p]) : u # v => u \in ToSet(ExtractThread(readyQ[p], v))
      BY <3>2, ExtractThreadType
    <3> HIDE DEF p
    <3>4. readyQ' \in [Priorities -> Seq(Threads)]
      BY <3>1, <3>2, <3>3 DEF QueuesTyped
    <3>5. \A r \in Priorities : \A u \in ToSet(readyQ[r]) :
            u # v => u \in ToSet(readyQ'[r])
      BY <3>1, <3>2, <3>3 DEF QueuesTyped
    <3>6. \A u \in Threads : status'[u] = "READY" => status[u] = "READY" /\ u # v
      BY <1>1 DEF ThreadsTyped
    <3>7. \A u \in Threads : priority[u] \in Priorities
      BY DEF ThreadsTyped
    <3> QED BY <1>1, <3>4, <3>5, <3>6, <3>7 DEF ReadyQueued
  <2>2. CASE ~(v # t /\ status[v] = "READY")
    <3>1. UNCHANGED readyQ
      BY <2>2 DEF KillBody
    <3> QED BY <1>1, <3>1, ReadyKept DEF ThreadsTyped, QueuesTyped
  <2> QED BY <2>1, <2>2
<1>4. semQ' \in [Semaphores -> Seq(Threads)] /\ cpu' \in {cpu, "undefined"}
  <2>1. CASE v # t /\ status[v] = "WAITING"
    <3> DEFINE s == semaphore[v]
    <3>1. KillWaiting(v) BY <2>1 DEF KillBody
    <3>2. CASE s # 0 /\ v \in ToSet(semQ[s])
      <4>1. s \in Semaphores
        BY <1>1, <3>2, ConstantsAssumption DEF ThreadsTyped, Semaphores
      <4>2. semQ' = [semQ EXCEPT ![s] = ExtractThread(@, v)] /\ cpu' = cpu
        BY <3>1, <3>2 DEF KillWaiting
      <4>3. ExtractThread(semQ[s], v) \in Seq(Threads)
        BY <3>2, <4>1, ExtractThreadType DEF QueuesTyped
      <4> QED BY <4>1, <4>2, <4>3 DEF QueuesTyped
    <3>3. CASE ~(s # 0 /\ v \in ToSet(semQ[s]))
      BY <3>1, <3>3 DEF KillWaiting, QueuesTyped
    <3> QED BY <3>2, <3>3
  <2>2. CASE ~(v # t /\ status[v] = "WAITING")
    BY <2>2 DEF KillBody, QueuesTyped
  <2> QED BY <2>1, <2>2
<1>5. QueuesTyped' /\ SemasTyped'
  BY <1>1, <1>3, <1>4 DEF QueuesTyped, SemasTyped
<1>6. GlobalsTyped' /\ NestOK'
  BY <1>1, <1>4 DEF GlobalsTyped, NestOK, Cpu, globalVars, modeVars, stopVars,
     schedVars
<1>7. \A u \in Threads :
        /\ pc'[u] = (IF u = t THEN "killSignal" ELSE IF u = v THEN "app" ELSE pc[u])
        /\ frame'[u] = (IF u # t /\ u = v THEN NoFrame ELSE frame[u])
        /\ held'[u] = (IF u # t /\ u = v THEN {} ELSE held[u])
        /\ depth'[u] = (IF u # t /\ u = v THEN 0 ELSE depth[u])
  BY <1>1 DEF DropFrames
<1>8. /\ pc' = [u \in Threads |-> pc'[u]] /\ frame' = [u \in Threads |-> frame'[u]]
      /\ held' = [u \in Threads |-> held'[u]] /\ depth' = [u \in Threads |-> depth'[u]]
  BY <1>1 DEF DropFrames
<1>9. StacksTyped'
  <2>1. \A u \in Threads : pc'[u] \in Labels /\ held'[u] \in SUBSET Semaphores
                           /\ depth'[u] \in Nat
    BY <1>7 DEF StacksTyped, Labels
  <2>2. \A u \in Threads : frame'[u] \in Frame
    BY <1>7, NoFrameOK DEF StacksTyped
  <2> QED BY <1>8, <2>1, <2>2 DEF StacksTyped
<1>10. FramesOK'
  <2>1. ASSUME NEW u \in Threads PROVE FrameOK(frame'[u], pc'[u])
    <3>1. CASE u = t
      BY <1>1, <1>7, <3>1 DEF FramesOK, FrameOK
    <3>2. CASE u # t /\ u = v
      BY <1>7, <3>2, NoFrameOK
    <3>3. CASE u # t /\ u # v
      BY <1>7, <3>3 DEF FramesOK
    <3> QED BY <3>1, <3>2, <3>3
  <2> QED BY <2>1 DEF FramesOK
<1> QED BY <1>2, <1>3, <1>5, <1>6, <1>9, <1>10

LEMMA KernelType ==
  ASSUME TypeInv, NEW t \in Threads, Kernel(t)
  PROVE  TypeInv'
<1> USE ConstantsAssumption
    DEF TypeInv, TypeOK, threadVars, queueVars, semVars, modeVars, stopVars,
        schedVars, globalVars, appVars
<1>0. 1 \in Semaphores /\ {"app", "killGo"} \subseteq Labels \ {"kill", "add", "dos"}
  BY DEF Semaphores, Labels
<1>1. CASE GotoScheduler(t)
  <2>1. /\ cpu = "thread" /\ cpu' = "sched"
        /\ pc' = [pc EXCEPT ![t] = IF @ = "killGo" THEN "killLeave"
                                                   ELSE frame[t].resume]
        /\ frame' = [frame EXCEPT ![t].resume = "app"]
        /\ UNCHANGED <<threadVars, queueVars, semVars, globalVars,
                       iCriticalSection, held, depth>>
    BY <1>1 DEF GotoScheduler, InThread
  <2>2. ThreadsTyped' /\ QueuesTyped' /\ SemasTyped' /\ NestOK' /\ ReadyQueued'
    BY <2>1 DEF ThreadsTyped, QueuesTyped, SemasTyped, NestOK, ReadyQueued
  <2>3. GlobalsTyped' BY <2>1 DEF GlobalsTyped, Cpu, InScheduler
  <2>4. /\ frame[t] \in Frame /\ FrameOK(frame[t], pc[t])
        /\ pc \in [Threads -> Labels] /\ frame \in [Threads -> Frame]
    BY DEF StacksTyped, FramesOK
  <2> DEFINE f == [resume |-> "app", ret |-> frame[t].ret, acq |-> frame[t].acq,
                   arg |-> frame[t].arg]
             l == IF pc[t] = "killGo" THEN "killLeave" ELSE frame[t].resume
  <2>5. [frame[t] EXCEPT !.resume = "app"] = f /\ f \in Frame
    BY <2>4 DEF Frame, Labels
  <2>6. l \in Labels /\ FrameOK(f, l)
    BY <2>4 DEF Labels, FrameOK
  <2> HIDE DEF f, l
  <2>7. pc' = [pc EXCEPT ![t] = l] /\ frame' = [frame EXCEPT ![t] = f]
    BY <2>1, <2>4, <2>5 DEF l
  <2>8. \A u \in Threads : pc'[u] = (IF u = t THEN l ELSE pc[u])
                        /\ frame'[u] = (IF u = t THEN f ELSE frame[u])
    BY <2>4, <2>7
  <2>9. FramesOK' BY <2>6, <2>8 DEF FramesOK
  <2>10. StacksTyped' BY <2>1, <2>4, <2>5, <2>6, <2>7 DEF StacksTyped
  <2> QED BY <2>2, <2>3, <2>9, <2>10
<1>2. CASE LeaveResumed(t)
  <2>1. /\ cpu = "thread"
        /\ iCriticalSection' = Decremented(iCriticalSection)
        /\ held' = [held EXCEPT ![t] = @ \union ({frame[t].acq} \ {0})]
        /\ Continue(t, frame[t].ret, frame[t].arg)
        /\ UNCHANGED <<threadVars, queueVars, semVars, globalVars, cpu, depth>>
    BY <1>2 DEF LeaveResumed, InThread
  <2>2. /\ frame[t].ret \in Labels /\ frame[t].arg \in Nat
        /\ frame[t].acq \in 0..NSemas /\ FrameOK(frame[t], pc[t])
    BY DEF StacksTyped, FramesOK, Frame
  <2>3. pc' \in [Threads -> Labels] /\ frame' \in [Threads -> Frame] /\ FramesOK'
    BY <2>1, <2>2, ContinueType DEF FrameOK
  <2>4. {frame[t].acq} \ {0} \subseteq Semaphores
    BY <2>2 DEF Semaphores
  <2>5. held' \in [Threads -> SUBSET Semaphores]
    BY <2>1, <2>4 DEF StacksTyped
  <2>6. StacksTyped' BY <2>1, <2>3, <2>5 DEF StacksTyped
  <2>7. ThreadsTyped' /\ QueuesTyped' /\ SemasTyped' /\ ReadyQueued'
    BY <2>1 DEF ThreadsTyped, QueuesTyped, SemasTyped, ReadyQueued
  <2>8. iCriticalSection' \in 0..MAX_CRITICAL_NESTING /\ NestOK'
    BY <2>1 DEF GlobalsTyped, NestOK, Decremented
  <2>9. GlobalsTyped' BY <2>1, <2>8 DEF GlobalsTyped
  <2> QED BY <2>3, <2>6, <2>7, <2>8, <2>9
<1>3. CASE EnterTooDeep(t)
  <2>1. /\ cpu = "thread" /\ cpu' = "stopping"
        /\ iCriticalSection' = iCriticalSection + 1
        /\ returnCode' = "TOO_DEEP_CRITICAL_NEST"
        /\ UNCHANGED <<threadVars, queueVars, semVars, modeVars, bMultiThreading,
                       bCtrlBreak, schedVars, curThreadID, appVars>>
    BY <1>3 DEF EnterTooDeep, AppCall, InThread
  <2>2. ThreadsTyped' /\ QueuesTyped' /\ SemasTyped' /\ StacksTyped'
    BY <2>1 DEF ThreadsTyped, QueuesTyped, SemasTyped, StacksTyped
  <2>3. iCriticalSection' \in 0..MAX_CRITICAL_NESTING
    BY <2>1 DEF NestOK, GlobalsTyped
  <2>4. GlobalsTyped' BY <2>1, <2>3 DEF GlobalsTyped, Cpu, InScheduler, MTReturnCode
  <2>5. NestOK' /\ FramesOK' /\ ReadyQueued'
    BY <2>1 DEF NestOK, FramesOK, ReadyQueued
  <2> QED BY <2>2, <2>4, <2>5
<1>4. CASE KillBody(t)
  BY <1>4, KillType
<1>5. CASE KillSignal(t) \/ KillSignalAgain(t) \/ AddSignal(t)
  BY <1>0, <1>5, SignalType DEF KillSignal, KillSignalAgain, AddSignal,
     semaCRunTimeLib
<1>6. CASE KillLeave(t) \/ AddFails(t) \/ KillRefused(t) \/ LeaveDos(t)
  <2>1. /\ UNCHANGED <<threadVars, queueVars, semVars, globalVars, cpu, frame,
                       held, depth>>
        /\ \E l \in {"killSignal2", "addSignal", "app"} : pc' = [pc EXCEPT ![t] = l]
        /\ iCriticalSection' \in {iCriticalSection, Decremented(iCriticalSection)}
    BY <1>6 DEF KillLeave, AddFails, KillRefused, LeaveDos
  <2>2. ThreadsTyped' /\ QueuesTyped' /\ SemasTyped' /\ ReadyQueued'
    BY <2>1 DEF ThreadsTyped, QueuesTyped, SemasTyped, ReadyQueued
  <2>3. iCriticalSection' \in 0..MAX_CRITICAL_NESTING /\ NestOK'
    BY <2>1 DEF GlobalsTyped, NestOK, Decremented
  <2>4. GlobalsTyped' BY <2>1, <2>3 DEF GlobalsTyped
  <2>5. StacksTyped' /\ FramesOK'
    BY <2>1 DEF StacksTyped, FramesOK, FrameOK, Labels
  <2> QED BY <2>2, <2>3, <2>4, <2>5
<1>7. CASE AddBody(t)
  <2>1. PICK slot \in FirstSlots :
          /\ NewThread(slot, frame[t].arg)
          /\ pc' = [pc EXCEPT ![t] = "addSignal", ![slot] = "app"]
          /\ frame' = [frame EXCEPT ![slot] = NoFrame]
          /\ cpu' = IF slot \in ToSet(sleepQ) THEN "undefined" ELSE cpu
    BY <1>7 DEF AddBody
  <2>2. /\ UNCHANGED <<semVars, globalVars, iCriticalSection>>
        /\ pc[t] = "add" /\ cpu = "thread"
    BY <1>7 DEF AddBody, InThread
  <2>3. slot \in Threads /\ frame[t].arg \in Priorities /\ FrameOK(frame[t], "add")
    BY <2>2 DEF FirstSlots, UsableSlots, FramesOK, FrameOK
  <2>4. ThreadsTyped' /\ QueuesTyped' /\ ReadyQueued'
    BY <2>1, <2>2, <2>3, NewThreadType
  <2>5. \A u \in Threads :
          /\ pc'[u] = (IF u = slot THEN "app"
                       ELSE IF u = t THEN "addSignal" ELSE pc[u])
          /\ frame'[u] = (IF u = slot THEN NoFrame ELSE frame[u])
    BY <2>1, <2>3 DEF StacksTyped
  <2>6. FramesOK'
    <3>1. \A u \in Threads : FrameOK(frame'[u], pc'[u])
      <4> TAKE u \in Threads
      <4>1. CASE u = slot BY <2>5, <4>1, NoFrameOK
      <4>2. CASE u # slot /\ u = t BY <2>3, <2>5, <4>2 DEF FrameOK
      <4>3. CASE u # slot /\ u # t BY <2>5, <4>3 DEF FramesOK
      <4> QED BY <4>1, <4>2, <4>3
    <3> QED BY <3>1 DEF FramesOK
  <2>7. pc' \in [Threads -> Labels] /\ frame' \in [Threads -> Frame]
    BY <2>1, <2>3, NoFrameOK DEF StacksTyped, Labels
  <2>8. held' \in [Threads -> SUBSET Semaphores] /\ depth' \in [Threads -> Nat]
    BY <2>1, <2>3 DEF StacksTyped, NewThread
  <2>9. StacksTyped' BY <2>7, <2>8 DEF StacksTyped
  <2>10. SemasTyped' /\ GlobalsTyped' /\ NestOK'
    BY <2>1, <2>2 DEF SemasTyped, GlobalsTyped, NestOK, Cpu
  <2> QED BY <2>4, <2>6, <2>9, <2>10
<1> QED BY <1>1, <1>2, <1>3, <1>4, <1>5, <1>6, <1>7 DEF Kernel

\* ChooseNextThread takes the head of a ready queue.
LEMMA DispatchedFrom ==
  ASSUME TypeInv, Dispatch
  PROVE  \E p \in Priorities :
           /\ readyQ[p] # <<>> /\ curThreadID' = Head(readyQ[p])
           /\ readyQ' = [readyQ EXCEPT ![p] = Tail(@)]
           /\ status' = [status EXCEPT ![Head(readyQ[p])] = "CURRENT"]
           /\ cpu' = IF ownStack[Head(readyQ[p])] THEN "thread" ELSE "undefined"
<1>1. PICK d \in 1..15 :
        /\ ChosenAfter(d)
        /\ LET p == PriorityAt(priorityIdx, d)
               t == Head(readyQ[p]) IN
             /\ readyQ' = [readyQ EXCEPT ![p] = Tail(@)]
             /\ curThreadID' = t
             /\ status' = [status EXCEPT ![t] = "CURRENT"]
             /\ cpu' = IF ownStack[t] THEN "thread" ELSE "undefined"
  BY DEF Dispatch
<1> DEFINE p == PriorityAt(priorityIdx, d)
<1>2. IdxAfter(priorityIdx, d) \in 0..14
  BY DEF IdxAfter, TypeInv, TypeOK, GlobalsTyped
<1>3. \A i \in 0..14 : scheduleMap[i + 1] \in 1..5
  BY DEF scheduleMap
<1>4. p \in Priorities
  BY <1>2, <1>3 DEF PriorityAt, Priorities
<1> QED BY <1>1, <1>4 DEF ChosenAfter

LEMMA SchedulerType == TypeInv /\ Scheduler => TypeInv'
<1> SUFFICES ASSUME TypeInv, Scheduler PROVE TypeInv'
  OBVIOUS
<1> USE ConstantsAssumption
    DEF TypeInv, TypeOK, threadVars, queueVars, semVars, modeVars, stopVars,
        schedVars, globalVars, appVars
<1>1. CASE SchedulerTop
  <2>1. /\ cpu = "sched" /\ cpu' = "wake"
        /\ returnCode' \in {returnCode, "CTRLBREAK"}
        /\ bMultiThreading' \in {bMultiThreading, FALSE}
        /\ UNCHANGED <<priority, semaphore, wakeUpTime, ownStack, sleepQ, semVars,
                       modeVars, bCtrlBreak, schedVars, curThreadID,
                       iCriticalSection, appVars>>
    BY <1>1 DEF SchedulerTop
  <2>2. /\ status' \in [Threads -> ThreadStatus]
        /\ readyQ' \in [Priorities -> Seq(Threads)]
        /\ ReadyQueued'
    <3>1. CASE RunsOn
      <4>1. curThreadID \in Threads
        BY <3>1 DEF RunsOn, GlobalsTyped, Threads
      <4> QED BY <1>1, <2>1, <3>1, <4>1, ReadyJoins DEF SchedulerTop
    <3>2. CASE ~RunsOn
      <4>1. UNCHANGED <<status, readyQ>> BY <1>1, <3>2 DEF SchedulerTop
      <4> QED BY <2>1, <4>1, ReadyKept DEF ThreadsTyped, QueuesTyped
    <3> QED BY <3>1, <3>2
  <2>3. ThreadsTyped' /\ QueuesTyped' /\ SemasTyped' /\ StacksTyped'
    BY <2>1, <2>2 DEF ThreadsTyped, QueuesTyped, SemasTyped, StacksTyped
  <2>4. GlobalsTyped' BY <2>1 DEF GlobalsTyped, Cpu, InScheduler, MTReturnCode
  <2>5. NestOK' /\ FramesOK' BY <2>1 DEF NestOK, FramesOK
  <2> QED BY <2>2, <2>3, <2>4, <2>5
<1>2. CASE WakeUpSleepingThread
  <2> DEFINE t == Head(sleepQ)
  <2>1. /\ sleepQ # <<>> /\ sleepQ' = Tail(sleepQ)
        /\ status' = [status EXCEPT ![t] = "READY"]
        /\ readyQ' = EnqueueReady(readyQ, t, priority[t])
        /\ UNCHANGED <<priority, semaphore, wakeUpTime, ownStack, semVars,
                       globalVars, iCriticalSection, cpu, appVars>>
    BY <1>2 DEF WakeUpSleepingThread, SleeperDue
  <2>2. t \in Threads /\ sleepQ' \in Seq(Threads)
    BY <2>1 DEF QueuesTyped
  <2> HIDE DEF t
  <2>3. /\ status' \in [Threads -> ThreadStatus]
        /\ readyQ' \in [Priorities -> Seq(Threads)]
        /\ ReadyQueued'
    BY <2>1, <2>2, ReadyJoins
  <2>4. ThreadsTyped' /\ QueuesTyped' /\ SemasTyped' /\ StacksTyped' /\ GlobalsTyped'
    BY <2>1, <2>2, <2>3
       DEF ThreadsTyped, QueuesTyped, SemasTyped, StacksTyped, GlobalsTyped
  <2>5. NestOK' /\ FramesOK' BY <2>1 DEF NestOK, FramesOK
  <2> QED BY <2>3, <2>4, <2>5
<1>3. CASE Dispatch
  <2>1. PICK d \in 1..15 :
          /\ ChosenAfter(d)
          /\ priorityIdx' = IdxAfter(priorityIdx, d)
          /\ LET p == PriorityAt(priorityIdx, d)
                 t == Head(readyQ[p]) IN
               /\ readyQ' = [readyQ EXCEPT ![p] = Tail(@)]
               /\ curThreadID' = t
               /\ status' = [status EXCEPT ![t] = "CURRENT"]
               /\ cpu' = IF ownStack[t] THEN "thread" ELSE "undefined"
    BY <1>3 DEF Dispatch
  <2> DEFINE p == PriorityAt(priorityIdx, d)
             q == readyQ[p]
             t == Head(q)
  <2>2. /\ cpu = "choose"
        /\ UNCHANGED <<priority, semaphore, wakeUpTime, ownStack, sleepQ, semVars,
                       modeVars, stopVars, clockTick, iCriticalSection, appVars>>
    BY <1>3 DEF Dispatch
  <2>3. IdxAfter(priorityIdx, d) \in 0..14
    BY DEF IdxAfter, GlobalsTyped
  <2>4. p \in Priorities
    <3>1. \A i \in 0..14 : scheduleMap[i + 1] \in 1..5
      BY DEF scheduleMap
    <3> QED BY <2>3, <3>1 DEF PriorityAt, Priorities
  <2>5. q \in Seq(Threads) /\ q # <<>>
    BY <2>1, <2>4 DEF QueuesTyped, ChosenAfter
  <2>6. t \in Threads /\ Tail(q) \in Seq(Threads)
    BY <2>5
  <2>7. \A u \in ToSet(q) : u # t => u \in ToSet(Tail(q))
    BY <2>5, TailKeeps
  <2>8. /\ readyQ' = [readyQ EXCEPT ![p] = Tail(q)]
        /\ curThreadID' = t
        /\ status' = [status EXCEPT ![t] = "CURRENT"]
        /\ cpu' \in {"thread", "undefined"}
    BY <2>1
  <2> HIDE DEF p, t
  <2>9. ThreadsTyped' BY <2>2, <2>6, <2>8 DEF ThreadsTyped, ThreadStatus
  <2>10. readyQ' \in [Priorities -> Seq(Threads)]
    BY <2>4, <2>6, <2>8 DEF QueuesTyped
  <2>11. t \in 0..NThreads BY <2>6 DEF Threads
  <2>12. priorityIdx' \in 0..15 BY <2>1, <2>3
  <2>13. GlobalsTyped' BY <2>2, <2>8, <2>11, <2>12 DEF GlobalsTyped, Cpu, InScheduler
  <2>14. QueuesTyped' /\ SemasTyped' /\ StacksTyped' /\ NestOK' /\ FramesOK'
    BY <2>2, <2>10 DEF QueuesTyped, SemasTyped, StacksTyped, NestOK, FramesOK
  <2>15. ReadyQueued'
    <3>1. \A u \in Threads : status'[u] = "READY" => u # t /\ status[u] = "READY"
      BY <2>6, <2>8 DEF ThreadsTyped
    <3>2. \A r \in Priorities : \A u \in ToSet(readyQ[r]) :
            u # t => u \in ToSet(readyQ'[r])
      BY <2>4, <2>7, <2>8 DEF QueuesTyped
    <3>3. \A u \in Threads : priority[u] \in Priorities
      BY DEF ThreadsTyped
    <3> QED BY <2>2, <3>1, <3>2, <3>3 DEF ReadyQueued
  <2> QED BY <2>9, <2>13, <2>14, <2>15
<1>4. CASE SleepersWoken \/ IdleTurn \/ Deadlocked \/ StopMultiThreading
  <2>1. /\ UNCHANGED <<threadVars, queueVars, semVars, modeVars, bCtrlBreak,
                       clockTick, iCriticalSection, appVars>>
        /\ cpu \in InScheduler /\ cpu' \in {"sched", "choose", "stopping"}
        /\ curThreadID' \in {curThreadID, 0} /\ priorityIdx' \in {priorityIdx, 0}
        /\ bMultiThreading' \in {bMultiThreading, FALSE}
        /\ returnCode' \in {returnCode, "DEADLOCKED"}
    BY <1>4 DEF SleepersWoken, IdleTurn, Deadlocked, StopMultiThreading,
       InScheduler
  <2>2. ThreadsTyped' /\ QueuesTyped' /\ SemasTyped' /\ StacksTyped'
    BY <2>1 DEF ThreadsTyped, QueuesTyped, SemasTyped, StacksTyped
  <2>3. curThreadID' \in 0..NThreads /\ priorityIdx' \in 0..15
    BY <2>1 DEF GlobalsTyped
  <2>4. GlobalsTyped'
    BY <2>1, <2>3 DEF GlobalsTyped, Cpu, InScheduler, MTReturnCode
  <2>5. NestOK' /\ FramesOK' /\ ReadyQueued'
    BY <2>1 DEF NestOK, FramesOK, ReadyQueued, InScheduler
  <2> QED BY <2>2, <2>4, <2>5
<1> QED BY <1>1, <1>2, <1>3, <1>4 DEF Scheduler

LEMMA InterruptType ==
  TypeInv /\ (TimerTick \/ TimerPreempt \/ CtrlBreak) => TypeInv'
<1> SUFFICES ASSUME TypeInv, TimerTick \/ TimerPreempt \/ CtrlBreak
             PROVE  TypeInv'
  OBVIOUS
<1> USE ConstantsAssumption
    DEF TypeInv, TypeOK, threadVars, queueVars, semVars, modeVars, stopVars,
        schedVars, globalVars, appVars
<1>1. /\ UNCHANGED <<threadVars, queueVars, semVars, modeVars, bMultiThreading,
                     returnCode, priorityIdx, curThreadID, iCriticalSection, appVars>>
      /\ clockTick' \in {clockTick, NextTick}
      /\ bCtrlBreak' \in {bCtrlBreak, TRUE}
      /\ cpu' \in {cpu, "sched"} /\ cpu # "stopping"
  BY DEF TimerTick, TimerPreempt, CtrlBreak, TimerHooked, InScheduler
<1>2. clockTick' \in 0..ClockMod-1
  BY <1>1 DEF NextTick, GlobalsTyped
<1>3. GlobalsTyped'
  BY <1>1, <1>2 DEF GlobalsTyped, Cpu, InScheduler
<1>4. ThreadsTyped' /\ QueuesTyped' /\ SemasTyped' /\ StacksTyped'
  BY <1>1 DEF ThreadsTyped, QueuesTyped, SemasTyped, StacksTyped
<1>5. NestOK' /\ FramesOK' /\ ReadyQueued'
  BY <1>1 DEF NestOK, FramesOK, ReadyQueued
<1> QED BY <1>3, <1>4, <1>5

LEMMA TypeNext == TypeInv /\ [Next]_vars => TypeInv'
<1> SUFFICES ASSUME TypeInv, [Next]_vars PROVE TypeInv'
  OBVIOUS
<1>1. CASE Main BY <1>1, MainType
<1>2. CASE \E t \in Threads : Application(t) \/ Kernel(t)
  BY <1>2, ApplicationType, KernelType
<1>3. CASE Scheduler BY <1>3, SchedulerType
<1>4. CASE TimerTick \/ TimerPreempt \/ CtrlBreak
  BY <1>4, InterruptType
<1>5. CASE UNCHANGED vars
  BY <1>5 DEF vars, threadVars, queueVars, semVars, modeVars, stopVars,
     schedVars, globalVars, appVars, TypeInv, TypeOK, ThreadsTyped, QueuesTyped,
     SemasTyped, GlobalsTyped, StacksTyped, NestOK, FramesOK, ReadyQueued
<1> QED BY <1>1, <1>2, <1>3, <1>4, <1>5 DEF Next

\* Type correctness, whatever the threads call: with it goes that a kill finds
\* its READY victim in a ready queue and a call its operand.
THEOREM TypeCorrect == Spec => []TypeInv
BY TypeInit, TypeNext, PTL DEF Spec

COROLLARY TypeOKHolds == Spec => []TypeOK
<1>1. TypeInv => TypeOK
  BY DEF TypeInv
<1> QED BY <1>1, TypeCorrect, PTL
-----------------------------------------------------------------------------
(* Critical sections.  The count is shared by all threads and each call on   *)
(* the way enters and leaves it; the invariant needs besides the two         *)
(* properties that a thread in a section of its own is in its own code, or DOS. *)

RunnerKnown == cpu = "thread" => curThreadID \in Threads
MainFree    == cpu = "main" => iCriticalSection = 0
InsideInApp == \A t \in Threads : depth[t] > 0 => pc[t] \in {"app", "dos"}

CriticalInv == /\ CriticalFreezes /\ CriticalBalanced
               /\ RunnerKnown /\ MainFree /\ InsideInApp

LEMMA CriticalInit == Init => CriticalInv
BY DEF Init, CriticalInv, CriticalFreezes, CriticalBalanced, RunnerKnown,
       MainFree, InsideInApp

\* A step of a thread that is in no critical section, into or out of a call.
LEMMA OutsideKept ==
  ASSUME TypeInv, CriticalInv, cpu = "thread", depth[curThreadID] = 0,
         \A u \in Threads : depth'[u] \in {0, depth[u]},
         cpu' \in {"thread", "sched", "undefined"},
         iCriticalSection' \in {iCriticalSection, Decremented(iCriticalSection)},
         UNCHANGED curThreadID
  PROVE  CriticalInv'
<1>1. curThreadID \in Threads /\ iCriticalSection = 0 /\ iCriticalSection' = 0
  BY DEF CriticalInv, CriticalBalanced, RunnerKnown, Decremented
<1>2. \A u \in Threads : depth[u] = 0
  <2>1. \A u \in Threads : depth[u] \in Nat
    BY DEF TypeInv, TypeOK, StacksTyped
  <2> QED BY <2>1 DEF CriticalInv, CriticalFreezes
<1>3. \A u \in Threads : depth'[u] = 0
  BY <1>2
<1> QED BY <1>1, <1>3 DEF CriticalInv, CriticalFreezes, CriticalBalanced,
           InScheduler, RunnerKnown, MainFree, InsideInApp

LEMMA CriticalApplication ==
  ASSUME TypeInv, CriticalInv, NEW t \in Threads, Application(t)
  PROVE  CriticalInv'
<1> USE DEF AppCall, InThread, NonYielding
<1>0. cpu = "thread" /\ curThreadID = t /\ depth[t] \in Nat /\ pc[t] = "app"
  BY DEF TypeInv, TypeOK, StacksTyped, Application, EnterDos, AppWait, AppSignal,
     MTTestAndSet, MTCreateSema, MTDestroySema, MTEnterCritical, MTLeaveCritical,
     MTYield, MTEndMultiThreading, MTSleep, MTEndThread, MTKillThread,
     MTAddNewThread
<1>1. CASE \/ AppWait(t) \/ AppSignal(t) \/ MTYield(t) \/ MTEndMultiThreading(t)
           \/ MTSleep(t) \/ MTEndThread(t) \/ MTKillThread(t) \/ MTAddNewThread(t)
  <2>1. /\ depth[t] = 0 /\ cpu' \in {"thread", "sched"}
        /\ UNCHANGED <<curThreadID, iCriticalSection, depth>>
    BY <1>0, <1>1 DEF AppWait, AppSignal, MTYield, MTEndMultiThreading, MTSleep,
       MTEndThread, MTKillThread, MTAddNewThread, MTWait, MTSignal, WaitCritical,
       globalVars, appVars
  <2> QED BY <1>0, <2>1, OutsideKept
<1>2. CASE MTTestAndSet(t) \/ MTCreateSema(t) \/ MTDestroySema(t)
  <2>1. UNCHANGED <<curThreadID, iCriticalSection, cpu, pc, depth>>
    BY <1>2 DEF MTTestAndSet, MTCreateSema, MTDestroySema, globalVars, appVars
  <2> QED BY <2>1 DEF CriticalInv, CriticalFreezes, CriticalBalanced,
           InScheduler, RunnerKnown, MainFree, InsideInApp
<1>3. CASE MTEnterCritical(t) \/ MTLeaveCritical(t)
  <2>1. \E d \in Nat : /\ depth' = [depth EXCEPT ![t] = d]
                       /\ iCriticalSection' = d
    <3>1. iCriticalSection = depth[t]
      BY <1>0 DEF CriticalInv, CriticalBalanced
    <3> QED BY <1>0, <1>3, <3>1 DEF MTEnterCritical, MTLeaveCritical, Decremented
  <2>2. UNCHANGED <<curThreadID, cpu, pc>>
    BY <1>3 DEF MTEnterCritical, MTLeaveCritical, globalVars
  <2>3. depth'[t] = iCriticalSection' /\ \A u \in Threads : u # t => depth'[u] = depth[u]
    BY <2>1 DEF TypeInv, TypeOK, StacksTyped
  <2> QED BY <1>0, <2>2, <2>3 DEF InScheduler, CriticalInv, CriticalFreezes,
             CriticalBalanced, RunnerKnown, MainFree, InsideInApp
<1>4. CASE EnterDos(t)
  <2>1. UNCHANGED <<curThreadID, iCriticalSection, cpu, depth>>
        /\ pc' = [pc EXCEPT ![t] = "dos"]
    BY <1>4 DEF EnterDos, globalVars
  <2>2. \A u \in Threads : pc'[u] \in {"dos", pc[u]}
    BY <2>1 DEF TypeInv, TypeOK, StacksTyped
  <2> QED BY <2>1, <2>2 DEF CriticalInv, CriticalFreezes, CriticalBalanced,
           InScheduler, RunnerKnown, MainFree, InsideInApp
<1> QED BY <1>1, <1>2, <1>3, <1>4 DEF Application

LEMMA CriticalKernel ==
  ASSUME TypeInv, CriticalInv, NEW t \in Threads, Kernel(t)
  PROVE  CriticalInv'
<1> USE DEF InThread, globalVars, appVars
<1>1. CASE EnterTooDeep(t)
  <2>1. /\ cpu = "thread" /\ cpu' = "stopping" /\ curThreadID = t
        /\ UNCHANGED <<curThreadID, depth, pc>>
    BY <1>1 DEF EnterTooDeep, AppCall
  <2> QED BY <2>1 DEF CriticalInv, CriticalFreezes, CriticalBalanced,
           InScheduler, RunnerKnown, MainFree, InsideInApp
<1>2. CASE LeaveDos(t)
  <2>1. UNCHANGED <<curThreadID, iCriticalSection, cpu, depth>>
        /\ pc' = [pc EXCEPT ![t] = "app"]
    BY <1>2 DEF LeaveDos
  <2>2. \A u \in Threads : pc'[u] \in {"app", pc[u]}
    BY <2>1 DEF TypeInv, TypeOK, StacksTyped
  <2> QED BY <2>1, <2>2 DEF CriticalInv, CriticalFreezes, CriticalBalanced,
           InScheduler, RunnerKnown, MainFree, InsideInApp
<1>3. CASE ~EnterTooDeep(t) /\ ~LeaveDos(t)
  <2>1. cpu = "thread" /\ curThreadID = t /\ pc[t] \notin {"app", "dos"} /\ depth[t] \in Nat
    BY <1>3 DEF Kernel, KillRefused, GotoScheduler, LeaveResumed, KillBody,
       KillSignal, KillLeave, KillSignalAgain, AddFails, AddBody, AddSignal,
       TypeInv, TypeOK, StacksTyped
  <2>2. depth[t] = 0
    BY <2>1 DEF CriticalInv, InsideInApp
  <2>3. UNCHANGED curThreadID
        /\ iCriticalSection' \in {iCriticalSection, Decremented(iCriticalSection)}
    BY <1>3 DEF Kernel, KillRefused, GotoScheduler, LeaveResumed, KillBody,
       KillSignal, KillLeave, KillSignalAgain, AddFails, AddBody, AddSignal, MTSignal
  <2>4. cpu' \in {"thread", "sched", "undefined"}
    BY <1>3, <2>1 DEF Kernel, KillRefused, GotoScheduler, LeaveResumed, KillBody,
       KillWaiting, KillSignal, KillLeave, KillSignalAgain, AddFails, AddBody,
       AddSignal, MTSignal
  <2>5. \A u \in Threads : depth'[u] \in {0, depth[u]}
    <3>1. CASE KillBody(t) BY <3>1 DEF KillBody, DropFrames
    <3>2. CASE AddBody(t)
      BY <3>2 DEF AddBody, NewThread, TypeInv, TypeOK, StacksTyped
    <3>3. CASE ~KillBody(t) /\ ~AddBody(t)
      <4>1. UNCHANGED depth
        BY <1>3, <3>3 DEF Kernel, KillRefused, GotoScheduler, LeaveResumed,
           KillSignal, KillLeave, KillSignalAgain, AddFails, AddSignal, MTSignal
      <4> QED BY <4>1
    <3> QED BY <3>1, <3>2, <3>3
  <2> QED BY <2>1, <2>2, <2>3, <2>4, <2>5, OutsideKept
<1> QED BY <1>1, <1>2, <1>3

LEMMA CriticalNext == TypeInv /\ CriticalInv /\ [Next]_vars => CriticalInv'
<1> SUFFICES ASSUME TypeInv, CriticalInv, [Next]_vars PROVE CriticalInv'
  OBVIOUS
<1> USE DEF globalVars, modeVars, stopVars, schedVars, appVars
<1>1. CASE Main
  <2>1. CASE TidyUp
    BY <2>1 DEF TidyUp, CriticalInv, CriticalFreezes, CriticalBalanced,
         InScheduler, RunnerKnown, MainFree, InsideInApp
  <2>2. CASE ~TidyUp
    <3>1. /\ cpu = "main" /\ cpu' \in {"main", "sched"}
          /\ iCriticalSection' \in {0, iCriticalSection}
      BY <1>1, <2>2 DEF Main, MTInitialise, MTSetPreemptive, MainAddNewThread,
         MainCreateSema, MainDestroySema, MTStartMultiThreading
    <3>2. \A u \in Threads : depth'[u] \in {0, depth[u]}
      <4>1. depth' = depth \/ \E s \in Threads : depth' = [depth EXCEPT ![s] = 0]
        BY <1>1, <2>2 DEF Main, MTInitialise, MTSetPreemptive,
           MainAddNewThread, MainCreateSema, MainDestroySema, MTStartMultiThreading, NewThread,
           FirstSlots, UsableSlots
      <4> QED BY <4>1 DEF TypeInv, TypeOK, StacksTyped
    <3>3. \A u \in Threads : ~(depth'[u] > 0)
      BY <3>1, <3>2 DEF CriticalInv, CriticalFreezes
    <3> QED BY <3>1, <3>3 DEF CriticalInv, CriticalFreezes, CriticalBalanced,
         InScheduler, RunnerKnown, MainFree, InsideInApp
  <2> QED BY <2>1, <2>2
<1>2. CASE \E t \in Threads : Application(t) \/ Kernel(t)
  BY <1>2, CriticalApplication, CriticalKernel
<1>3. CASE Scheduler
  <2>1. /\ cpu \in InScheduler /\ UNCHANGED <<iCriticalSection, depth, pc>>
        /\ cpu' \in {"thread", "stopping", "undefined"} \union InScheduler
    BY <1>3 DEF InScheduler, Scheduler, SchedulerTop, WakeUpSleepingThread,
       SleepersWoken, Dispatch, IdleTurn, Deadlocked, StopMultiThreading
  <2>2. \A u \in Threads : depth[u] = 0
    BY <2>1 DEF InScheduler, CriticalInv, CriticalFreezes, TypeInv, TypeOK,
       StacksTyped
  <2>3. cpu' = "thread" => curThreadID' \in Threads
    <3>1. ASSUME cpu' = "thread" PROVE Dispatch
      BY <1>3, <3>1 DEF Scheduler, SchedulerTop, WakeUpSleepingThread,
         SleepersWoken, IdleTurn, Deadlocked, StopMultiThreading
    <3>2. ASSUME Dispatch PROVE curThreadID' \in Threads
      <4>1. PICK p \in Priorities : readyQ[p] # <<>> /\ curThreadID' = Head(readyQ[p])
        BY <3>2, DispatchedFrom
      <4> QED BY <4>1 DEF TypeInv, TypeOK, QueuesTyped
    <3> QED BY <3>1, <3>2
  <2> QED BY <2>1, <2>2, <2>3 DEF CriticalInv, CriticalFreezes,
             CriticalBalanced, RunnerKnown, MainFree, InsideInApp
<1>4. CASE TimerTick \/ TimerPreempt \/ CtrlBreak
  <2>1. UNCHANGED <<iCriticalSection, depth, pc, curThreadID>>
    BY <1>4 DEF TimerTick, TimerPreempt, CtrlBreak
  <2>2. UNCHANGED cpu \/ (cpu = "thread" /\ cpu' = "sched" /\ iCriticalSection = 0)
    BY <1>4 DEF TimerTick, TimerPreempt, CtrlBreak, Preemptible
  <2> QED BY <2>1, <2>2 DEF CriticalInv, CriticalFreezes, CriticalBalanced,
         InScheduler, RunnerKnown, MainFree, InsideInApp
<1>5. CASE UNCHANGED vars
  BY <1>5 DEF vars, CriticalInv, CriticalFreezes, CriticalBalanced,
         InScheduler, RunnerKnown, MainFree, InsideInApp
<1> QED BY <1>1, <1>2, <1>3, <1>4, <1>5 DEF Next

LEMMA CriticalCorrect == Spec => []CriticalInv
BY CriticalInit, CriticalNext, TypeCorrect, PTL DEF Spec

\* A thread in a critical section it entered runs alone, and the count is that
\* thread's own, for any nesting, threads and calls.
THEOREM CriticalSections == Spec => [](CriticalFreezes /\ CriticalBalanced)
<1>1. CriticalInv => CriticalFreezes /\ CriticalBalanced
  BY DEF CriticalInv
<1> QED BY <1>1, CriticalCorrect, PTL

-----------------------------------------------------------------------------
(* DOS.  A thread in DOS runs, as the timer leaves it there, and makes no    *)
(* call of the kernel.                                                       *)

DosRuns == \A t \in Threads : pc[t] = "dos" => cpu = "thread" /\ curThreadID = t

\* No thread other than t comes to be in DOS, and t stays there only on the processor.
LEMMA DosKept ==
  ASSUME DosRuns, NEW t \in Threads, cpu = "thread", curThreadID = t,
         pc'[t] = "dos" => cpu' = "thread" /\ curThreadID' = t,
         \A u \in Threads : u # t => pc'[u] \in {"app", pc[u]}
  PROVE  DosRuns'
BY DEF DosRuns

LEMMA DosNext == TypeInv /\ DosRuns /\ [Next]_vars => DosRuns'
<1> SUFFICES ASSUME TypeInv, DosRuns, [Next]_vars PROVE DosRuns'
  OBVIOUS
<1> USE DEF globalVars, appVars
<1>0. pc \in [Threads -> Labels] /\ frame \in [Threads -> Frame]
  BY DEF TypeInv, TypeOK, StacksTyped
<1>1. CASE Main
  <2>1. cpu # "thread"
    BY <1>1 DEF Main, MTInitialise, MTSetPreemptive, MainAddNewThread, MainCreateSema, MainDestroySema,
       MTStartMultiThreading, TidyUp
  <2>2. \A u \in Threads : pc'[u] \in {"app", pc[u]}
    BY <1>0, <1>1 DEF Main, MTInitialise, MTSetPreemptive, MainAddNewThread,
       MainCreateSema, MainDestroySema, MTStartMultiThreading, TidyUp
  <2> QED BY <2>1, <2>2 DEF DosRuns
<1>2. ASSUME NEW t \in Threads, Application(t) PROVE DosRuns'
  <2>1. cpu = "thread" /\ curThreadID = t
    BY <1>2 DEF Application, EnterDos, AppWait, AppSignal, MTTestAndSet, MTCreateSema,
       MTDestroySema, MTEnterCritical, MTLeaveCritical, MTYield, MTEndMultiThreading,
       MTSleep, MTEndThread, MTKillThread, MTAddNewThread, AppCall, InThread
  <2>2. CASE EnterDos(t)
    BY <1>0, <2>1, <2>2, DosKept DEF EnterDos
  <2>3. CASE ~EnterDos(t)
    <3>1. \E l \in {pc[t], "app", "kill", "add", "go"} : pc' = [pc EXCEPT ![t] = l]
      BY <1>0, <1>2, <2>3 DEF Application, AppWait, AppSignal, MTTestAndSet,
         MTCreateSema, MTDestroySema, MTEnterCritical, MTLeaveCritical, MTYield,
         MTEndMultiThreading, MTSleep, MTEndThread, MTKillThread, MTAddNewThread,
         MTWait, WaitFree, WaitBusy, WaitUnused, MTSignal, Continue, Suspend
    <3>2. pc[t] = "app"
      BY <1>2, <2>3 DEF Application, AppWait, AppSignal, MTTestAndSet, MTCreateSema,
         MTDestroySema, MTEnterCritical, MTLeaveCritical, MTYield,
         MTEndMultiThreading, MTSleep, MTEndThread, MTKillThread, MTAddNewThread,
         AppCall, InThread
    <3> QED BY <1>0, <2>1, <3>1, <3>2, DosKept
  <2> QED BY <2>2, <2>3
<1>3. ASSUME NEW t \in Threads, Kernel(t) PROVE DosRuns'
  <2>1. cpu = "thread" /\ curThreadID = t
    BY <1>3 DEF Kernel, LeaveDos, KillRefused, GotoScheduler, LeaveResumed,
       EnterTooDeep, KillBody, KillSignal, KillLeave, KillSignalAgain, AddFails,
       AddBody, AddSignal, AppCall, InThread
  <2>2. \A u \in Threads : u # t => pc'[u] \in {"app", pc[u]}
    <3>1. CASE KillBody(t)
      BY <1>0, <3>1 DEF KillBody, DropFrames
    <3>2. CASE ~KillBody(t)
      BY <1>0, <1>3, <3>2 DEF Kernel, LeaveDos, KillRefused, GotoScheduler,
         LeaveResumed, EnterTooDeep, KillSignal, KillLeave, KillSignalAgain,
         AddFails, AddBody, AddSignal, MTSignal, Continue, Suspend
    <3> QED BY <3>1, <3>2
  <2>3. pc'[t] # "dos"
    <3>1. CASE KillBody(t)
      BY <1>0, <3>1 DEF KillBody, DropFrames
    <3>2. CASE GotoScheduler(t)
      BY <1>0, <3>2 DEF GotoScheduler, TypeInv, FramesOK, FrameOK
    <3>3. CASE LeaveResumed(t)
      BY <1>0, <3>3 DEF LeaveResumed, Continue, Frame
    <3>4. CASE EnterTooDeep(t)
      BY <1>0, <3>4 DEF EnterTooDeep, AppCall, InThread
    <3>5. CASE AddBody(t)
      BY <1>0, <3>5 DEF AddBody
    <3>6. CASE \/ LeaveDos(t) \/ KillRefused(t) \/ KillSignal(t) \/ KillLeave(t)
               \/ KillSignalAgain(t) \/ AddFails(t) \/ AddSignal(t)
      BY <1>0, <3>6 DEF LeaveDos, KillRefused, KillSignal, KillLeave, KillSignalAgain,
         AddFails, AddSignal, MTSignal, Continue, Suspend
    <3> QED BY <1>3, <3>1, <3>2, <3>3, <3>4, <3>5, <3>6 DEF Kernel
  <2> QED BY <2>1, <2>2, <2>3, DosKept
<1>4. CASE Scheduler
  <2>1. cpu # "thread" /\ UNCHANGED pc
    BY <1>4 DEF Scheduler, SchedulerTop, WakeUpSleepingThread, SleepersWoken,
       Dispatch, IdleTurn, Deadlocked, StopMultiThreading, InScheduler
  <2> QED BY <2>1 DEF DosRuns
<1>5. CASE TimerPreempt
  <2>1. pc[curThreadID] # "dos" /\ cpu = "thread" /\ UNCHANGED pc
    BY <1>5 DEF TimerPreempt, Preemptible, OutsideDos
  <2> QED BY <2>1 DEF DosRuns
<1>6. CASE TimerTick \/ CtrlBreak \/ UNCHANGED vars
  <2>1. UNCHANGED <<pc, cpu, curThreadID>>
    BY <1>6 DEF TimerTick, CtrlBreak, vars
  <2> QED BY <2>1 DEF DosRuns
<1> QED BY <1>1, <1>2, <1>3, <1>4, <1>5, <1>6 DEF Next

\* The timer never takes the processor from a thread in DOS, nor does the thread give it
\* away: DOS is not entered a second time.
THEOREM DosEnteredOnce == Spec => []DosNotReentered
<1>1. Init => DosRuns
  BY DEF Init, DosRuns
<1>2. DosRuns => DosNotReentered
  BY DEF DosRuns, DosNotReentered
<1> QED BY <1>1, <1>2, DosNext, TypeCorrect, PTL DEF Spec
-----------------------------------------------------------------------------
(* Queues and scheduler.  A thread that sleeps must not be killed:           *)
(* MTKillThread leaves it in the sleep queue, and the slot may be used again *)
(* while it is there.  As long as none is, and so for every application that *)
(* does not both sleep and kill, each thread is in the one queue its status  *)
(* names and only owned stacks are dispatched.                               *)

\* MTKillThread is not called for a thread that sleeps, or for one of W.
SparesSleepers ==
  \A t \in Threads : KillBody(t) => status[frame[t].arg] # "SLEEPING"
Spares(W) == \A t \in Threads : KillBody(t) => frame[t].arg \notin W
NoSleeperKilled == [][SparesSleepers]_vars

-----------------------------------------------------------------------------
(* The inductive invariant.                                                  *)

\* Every thread that is not free has its stack, and waits for some semaphore if
\* it waits: with the disciplines of the queues, what MTKillThread relies on.  W
\* are threads that wait for something else, in the kernel alone none.
StacksOwned ==
  \A t \in Threads : ownStack[t] <=> status[t] \notin {"INVALID", "TERMINATED"}
WaitersKnown(W) ==
  \A t \in Threads : IF t \in W
                    THEN status[t] = "WAITING"
                    ELSE status[t] = "WAITING" => semaphore[t] \in Semaphores
SemaPlaced(W) ==
  \A s \in Semaphores :
    /\ IsInjective(semQ[s])
    /\ \A t \in Threads :
         t \in ToSet(semQ[s]) <=>
           status[t] = "WAITING" /\ semaphore[t] = s /\ t \notin W

PlacedBut(W) == /\ ReadyDiscipline /\ SemaPlaced(W) /\ SleepDiscipline
                /\ StacksOwned /\ WaitersKnown(W)
                /\ Sorted(sleepQ, wakeUpTime)
Placed == /\ ReadyDiscipline /\ SemaDiscipline /\ SleepDiscipline
          /\ StacksOwned /\ WaitersKnown({})
          /\ Sorted(sleepQ, wakeUpTime)

\* TidyUp leaves the sleep queue as it is, so nothing holds before MTInitialise.
PlacedInvBut(W) == bMTInitialised => PlacedBut(W)
PlacedInv == bMTInitialised => Placed

\* Who may be CURRENT, by what the processor does.  A thread is not only before
\* a GotoScheduler, and after it has killed itself.
MainIdle ==
  cpu = "main" /\ bMTInitialised =>
    \A t \in Threads : status[t] \in {"INVALID", "READY"}
NoneCurrent ==
  cpu \in {"wake", "choose"} => \A t \in Threads : status[t] # "CURRENT"
EndsItself(t) == pc[t] = "killSignal" /\ status[t] = "TERMINATED"
RunnerCurrent ==
  cpu = "thread" /\ pc[curThreadID] \notin {"go", "killGo"} =>
    status[curThreadID] = "CURRENT" \/ EndsItself(curThreadID)

RunInv ==
  /\ bMTInitialised => CurrentDiscipline
  /\ NoWildDispatch
  /\ cpu # "main" => bMTInitialised
  /\ MainIdle /\ NoneCurrent /\ RunnerCurrent
  /\ cpu \notin {"main", "stopping"} => returnCode # "DEADLOCKED"
  /\ DeadlockSound

SchedBut(W) == PlacedInvBut(W) /\ RunInv
SchedInv == PlacedInv /\ RunInv

LEMMA NoneAway ==
  /\ Placed <=> PlacedBut({})
  /\ Placed' <=> PlacedBut({})'
  /\ SchedInv <=> SchedBut({})
  /\ SchedInv' <=> SchedBut({})'
BY DEF Placed, PlacedBut, SemaDiscipline, SemaPlaced, PlacedInv, PlacedInvBut,
       SchedInv, SchedBut

-----------------------------------------------------------------------------
(* What a step does to one kind of queue.                                    *)

LEMMA ReadySame ==
  ASSUME ReadyDiscipline, UNCHANGED readyQ,
         \A u \in Threads : status'[u] = "READY" <=> status[u] = "READY",
         \A u \in Threads : status[u] = "READY" => priority'[u] = priority[u]
  PROVE  ReadyDiscipline'
BY DEF ReadyDiscipline

LEMMA ReadyJoin ==
  ASSUME QueuesTyped, ReadyDiscipline, NEW t \in Threads, NEW p \in Priorities,
         status[t] # "READY", readyQ' = EnqueueReady(readyQ, t, p),
         status'[t] = "READY", priority'[t] = p,
         \A u \in Threads : u # t => /\ status'[u] = "READY" <=> status[u] = "READY"
                                     /\ priority'[u] = priority[u]
  PROVE  ReadyDiscipline'
<1>1. readyQ \in [Priorities -> Seq(Threads)]
  BY DEF QueuesTyped
<1>2. readyQ'[p] = Append(readyQ[p], t)
      /\ \A r \in Priorities : r # p => readyQ'[r] = readyQ[r]
  BY <1>1 DEF EnqueueReady
<1>3. IsInjective(readyQ[p]) /\ t \notin ToSet(readyQ[p])
  BY DEF ReadyDiscipline
<1>4. ToSet(readyQ'[p]) = ToSet(readyQ[p]) \union {t} /\ IsInjective(readyQ'[p])
  <2>1. readyQ[p] \in Seq(Threads) BY <1>1
  <2> QED BY <2>1, <1>2, <1>3, AppendSet
<1>5. ASSUME NEW r \in Priorities
      PROVE  /\ IsInjective(readyQ'[r])
             /\ \A u \in Threads : u \in ToSet(readyQ'[r]) <=>
                                     status'[u] = "READY" /\ priority'[u] = r
  <2>1. CASE r = p BY <2>1, <1>4 DEF ReadyDiscipline
  <2>2. CASE r # p BY <2>2, <1>2 DEF ReadyDiscipline
  <2> QED BY <2>1, <2>2
<1> QED BY <1>5 DEF ReadyDiscipline

\* Whoever takes a READY thread out of its queue, wherever it stands there.
LEMMA ReadyLeave ==
  ASSUME QueuesTyped, ReadyDiscipline, NEW t \in Threads, NEW p \in Priorities,
         NEW r, readyQ' = [readyQ EXCEPT ![p] = r],
         ToSet(r) = ToSet(readyQ[p]) \ {t}, IsInjective(r),
         t \in ToSet(readyQ[p]), status'[t] # "READY", UNCHANGED priority,
         \A u \in Threads : u # t => (status'[u] = "READY" <=> status[u] = "READY")
  PROVE  ReadyDiscipline'
<1>1. readyQ'[p] = r /\ \A q \in Priorities : q # p => readyQ'[q] = readyQ[q]
  BY DEF QueuesTyped
<1>2. status[t] = "READY" /\ priority[t] = p
  BY DEF ReadyDiscipline
<1> QED BY <1>1, <1>2 DEF ReadyDiscipline

LEMMA SemaSame ==
  ASSUME NEW W, SemaPlaced(W), UNCHANGED semQ,
         \A u \in Threads : status'[u] = "WAITING" <=> status[u] = "WAITING",
         \A u \in Threads : status[u] = "WAITING" => semaphore'[u] = semaphore[u]
  PROVE  SemaPlaced(W)'
BY DEF SemaPlaced

LEMMA SemaJoin ==
  ASSUME NEW W, QueuesTyped, SemaPlaced(W), NEW t \in Threads, NEW s \in Semaphores,
         status[t] # "WAITING", t \notin W,
         semQ' = [semQ EXCEPT ![s] = Append(@, t)],
         status'[t] = "WAITING", semaphore'[t] = s,
         \A u \in Threads : u # t =>
           /\ status'[u] = "WAITING" <=> status[u] = "WAITING"
           /\ semaphore'[u] = semaphore[u]
  PROVE  SemaPlaced(W)'
<1>1. semQ \in [Semaphores -> Seq(Threads)]
  BY DEF QueuesTyped
<1>2. semQ'[s] = Append(semQ[s], t)
      /\ \A r \in Semaphores : r # s => semQ'[r] = semQ[r]
  BY <1>1
<1>3. IsInjective(semQ[s]) /\ t \notin ToSet(semQ[s])
  BY DEF SemaPlaced
<1>4. ToSet(semQ'[s]) = ToSet(semQ[s]) \union {t} /\ IsInjective(semQ'[s])
  <2>1. semQ[s] \in Seq(Threads) BY <1>1
  <2> QED BY <2>1, <1>2, <1>3, AppendSet
<1> QED BY <1>2, <1>4 DEF SemaPlaced

LEMMA SemaLeave ==
  ASSUME NEW W, QueuesTyped, SemaPlaced(W), NEW t \in Threads, NEW s \in Semaphores,
         NEW r, semQ' = [semQ EXCEPT ![s] = r],
         ToSet(r) = ToSet(semQ[s]) \ {t}, IsInjective(r),
         t \in ToSet(semQ[s]), status'[t] # "WAITING",
         \A u \in Threads : u # t =>
           /\ status'[u] = "WAITING" <=> status[u] = "WAITING"
           /\ semaphore'[u] = semaphore[u]
  PROVE  SemaPlaced(W)'
<1>1. semQ'[s] = r /\ \A q \in Semaphores : q # s => semQ'[q] = semQ[q]
  BY DEF QueuesTyped
<1>2. status[t] = "WAITING" /\ semaphore[t] = s
  BY DEF SemaPlaced
<1> QED BY <1>1, <1>2 DEF SemaPlaced

LEMMA SleepSame ==
  ASSUME SleepDiscipline, UNCHANGED sleepQ,
         \A u \in Threads : status'[u] = "SLEEPING" <=> status[u] = "SLEEPING"
  PROVE  SleepDiscipline'
BY DEF SleepDiscipline

\* Every thread is as it was, apart from t whose status is now x.
Only(t, x) ==
  \A u \in Threads : status'[u] = IF u = t THEN x ELSE status[u]

LEMMA OnlyHolds ==
  ASSUME ThreadsTyped, NEW t \in Threads, NEW x,
         status' = [status EXCEPT ![t] = x]
  PROVE  Only(t, x)
BY DEF Only, ThreadsTyped

\* A step that changes neither the queues nor what they depend on.
LEMMA PlacedSame ==
  ASSUME NEW W, PlacedBut(W),
         UNCHANGED <<status, priority, wakeUpTime, ownStack, readyQ, sleepQ, semQ>>,
         \A u \in Threads : status[u] = "WAITING" => semaphore'[u] = semaphore[u]
  PROVE  PlacedBut(W)'
<1>1. ReadyDiscipline' /\ SemaPlaced(W)' /\ SleepDiscipline'
  BY ReadySame, SemaSame, SleepSame DEF PlacedBut
<1>2. StacksOwned' /\ WaitersKnown(W)'
  BY DEF PlacedBut, StacksOwned, WaitersKnown
<1>3. Sorted(sleepQ, wakeUpTime)'
  BY DEF PlacedBut
<1> QED BY <1>1, <1>2, <1>3 DEF PlacedBut

-----------------------------------------------------------------------------
(* What each operation does to the queues together.                          *)

\* MTWait of the running thread.
LEMMA WaitPlaced ==
  ASSUME NEW W, TypeInv, PlacedBut(W), NEW t \in Threads, NEW s \in Semaphores,
         NEW k, NEW a,
         status[t] = "CURRENT", MTWait(t, s, k, a)
  PROVE  PlacedBut(W)'
<1> USE DEF TypeInv, TypeOK
<1>1. UNCHANGED <<priority, wakeUpTime, ownStack, readyQ, sleepQ>>
  BY DEF MTWait, queueVars
<1>2. CASE WaitFree(t, s, k, a) \/ WaitUnused(t, s, k, a)
  <2>1. UNCHANGED <<status, semQ>>
    BY <1>2 DEF WaitFree, WaitUnused
  <2>2. \A u \in Threads : u # t => semaphore'[u] = semaphore[u]
    BY <1>2 DEF WaitFree, WaitUnused, ThreadsTyped
  <2> QED BY <1>1, <2>1, <2>2, PlacedSame
<1>3. CASE WaitBusy(t, s, k, a)
  <2>1. /\ semQ' = [semQ EXCEPT ![s] = Append(@, t)]
        /\ semaphore' = [semaphore EXCEPT ![t] = s]
        /\ status' = [status EXCEPT ![t] = "WAITING"]
    BY <1>3 DEF WaitBusy
  <2>2. Only(t, "WAITING")
    BY <2>1, OnlyHolds
  <2>3. \A u \in Threads : semaphore'[u] = IF u = t THEN s ELSE semaphore[u]
    BY <2>1 DEF ThreadsTyped
  <2>4. ReadyDiscipline'
    BY <1>1, <2>2, ReadySame DEF Only, PlacedBut
  <2>5. SemaPlaced(W)'
    <3>1. status[t] # "WAITING" /\ t \notin W
      BY DEF PlacedBut, WaitersKnown
    <3> QED BY <2>1, <2>2, <2>3, <3>1, SemaJoin DEF Only, PlacedBut
  <2>6. SleepDiscipline'
    BY <1>1, <2>2, SleepSame DEF Only, PlacedBut
  <2>7. StacksOwned' /\ WaitersKnown(W)'
    BY <1>1, <2>2, <2>3 DEF Only, PlacedBut, StacksOwned, WaitersKnown
  <2> QED BY <1>1, <2>4, <2>5, <2>6, <2>7 DEF PlacedBut
<1> QED BY <1>2, <1>3 DEF MTWait

\* MTSignal, wherever it is called from: the first waiter changes queues.
LEMMA SignalPlaced ==
  ASSUME NEW W, TypeInv, PlacedBut(W), NEW t \in Threads, NEW s \in Semaphores, NEW k,
         MTSignal(t, s, k)
  PROVE  PlacedBut(W)'
<1> USE DEF TypeInv, TypeOK
<1>1. UNCHANGED <<priority, wakeUpTime, ownStack, sleepQ>>
  BY DEF MTSignal
<1>2. CASE UNCHANGED <<status, semaphore, readyQ, semQ>>
  BY <1>1, <1>2, PlacedSame
<1>3. CASE semQ[s] # <<>> /\ WakeUpThreads(s)
  <2> DEFINE h == Head(semQ[s])
  <2>1. /\ semQ' = [semQ EXCEPT ![s] = Tail(@)]
        /\ status' = [status EXCEPT ![h] = "READY"]
        /\ semaphore' = [semaphore EXCEPT ![h] = 0]
        /\ readyQ' = EnqueueReady(readyQ, h, priority[h])
    BY <1>3 DEF WakeUpThreads
  <2>2. semQ[s] \in Seq(Threads) /\ IsInjective(semQ[s])
    BY DEF QueuesTyped, PlacedBut, SemaPlaced
  <2>3. /\ h \in Threads /\ h \in ToSet(semQ[s])
        /\ ToSet(Tail(semQ[s])) = ToSet(semQ[s]) \ {h}
        /\ IsInjective(Tail(semQ[s]))
    BY <1>3, <2>2, TailSet
  <2> HIDE DEF h
  <2>4. status[h] = "WAITING" /\ semaphore[h] = s /\ h \notin W
    BY <2>3 DEF PlacedBut, SemaPlaced
  <2>5. Only(h, "READY")
    BY <2>1, <2>3, OnlyHolds
  <2>6. \A u \in Threads : u # h => semaphore'[u] = semaphore[u]
    BY <2>1 DEF ThreadsTyped
  <2>7. ReadyDiscipline'
    <3>1. priority[h] \in Priorities
      BY <2>3 DEF ThreadsTyped
    <3> QED BY <1>1, <2>1, <2>3, <2>4, <2>5, <3>1, ReadyJoin DEF Only, PlacedBut
  <2>8. SemaPlaced(W)'
    <3>1. semQ' = [semQ EXCEPT ![s] = Tail(semQ[s])]
      BY <2>1
    <3>2. status'[h] # "WAITING" /\ \A u \in Threads : u # h =>
            /\ status'[u] = "WAITING" <=> status[u] = "WAITING"
            /\ semaphore'[u] = semaphore[u]
      BY <2>3, <2>5, <2>6 DEF Only
    <3> QED BY <2>3, <3>1, <3>2, SemaLeave DEF PlacedBut
  <2>9. SleepDiscipline'
    BY <1>1, <2>4, <2>5, SleepSame DEF Only, PlacedBut
  <2>10. StacksOwned' /\ WaitersKnown(W)'
    <3>1. StacksOwned'
      BY <1>1, <2>4, <2>5 DEF Only, PlacedBut, StacksOwned
    <3>2. WaitersKnown(W)'
      BY <2>4, <2>5, <2>6 DEF Only, PlacedBut, WaitersKnown
    <3> QED BY <3>1, <3>2
  <2> QED BY <1>1, <2>7, <2>8, <2>9, <2>10 DEF PlacedBut
<1> QED BY <1>2, <1>3 DEF MTSignal, WakeUpThreads

\* MTAddNewThread takes a slot that is in no queue.
LEMMA NewThreadPlaced ==
  ASSUME NEW W, TypeInv, PlacedBut(W), NEW t \in FirstSlots, NEW p \in Priorities,
         NewThread(t, p), UNCHANGED semQ
  PROVE  PlacedBut(W)' /\ t \notin ToSet(sleepQ)
<1> USE DEF TypeInv, TypeOK
<1>1. t \in Threads /\ status[t] \in {"INVALID", "TERMINATED"}
  BY DEF FirstSlots, UsableSlots
<1>2. /\ status' = [status EXCEPT ![t] = "READY"]
      /\ priority' = [priority EXCEPT ![t] = p]
      /\ ownStack' = [ownStack EXCEPT ![t] = TRUE]
      /\ readyQ' = EnqueueReady(readyQ, t, p)
      /\ UNCHANGED <<semaphore, wakeUpTime, sleepQ>>
  BY DEF NewThread
<1>3. Only(t, "READY")
  BY <1>1, <1>2, OnlyHolds
<1>4. /\ priority'[t] = p /\ ownStack'[t] = TRUE
      /\ \A u \in Threads : u # t => /\ priority'[u] = priority[u]
                                    /\ ownStack'[u] = ownStack[u]
  BY <1>1, <1>2 DEF ThreadsTyped
<1>5. ReadyDiscipline'
  BY <1>1, <1>2, <1>3, <1>4, ReadyJoin DEF Only, PlacedBut
<1>6. SemaPlaced(W)' /\ SleepDiscipline'
  BY <1>1, <1>2, <1>3, SemaSame, SleepSame DEF Only, PlacedBut
<1>7. StacksOwned' /\ WaitersKnown(W)'
  <2>1. StacksOwned'
    BY <1>2, <1>3, <1>4 DEF Only, PlacedBut, StacksOwned
  <2>2. WaitersKnown(W)'
    BY <1>1, <1>2, <1>3 DEF Only, PlacedBut, WaitersKnown
  <2> QED BY <2>1, <2>2
<1>8. t \notin ToSet(sleepQ)
  BY <1>1 DEF PlacedBut, SleepDiscipline
<1> QED BY <1>2, <1>5, <1>6, <1>7, <1>8 DEF PlacedBut

\* MTSleep: behind the threads due no later, in front of those due later.
LEMMA SleepPlaced ==
  ASSUME NEW W, TypeInv, PlacedBut(W), NEW t \in Threads,
         status[t] = "CURRENT", MTSleep(t)
  PROVE  PlacedBut(W)'
<1> USE DEF TypeInv, TypeOK
<1>1. PICK ticks \in SleepTicks : LET due == (clockTick + ticks) % ClockMod IN
        /\ wakeUpTime' = [wakeUpTime EXCEPT ![t] = due]
        /\ \E i \in 0..Len(sleepQ) :
             SleepBehind(i, due) /\ sleepQ' = InsertAt(sleepQ, i + 1, t)
  BY DEF MTSleep
<1> DEFINE due == (clockTick + ticks) % ClockMod
<1>2. PICK i \in 0..Len(sleepQ) :
        SleepBehind(i, due) /\ sleepQ' = InsertAt(sleepQ, i + 1, t)
  BY <1>1
<1>3. wakeUpTime' = [wakeUpTime EXCEPT ![t] = due]
  BY <1>1
<1>4. due \in Nat /\ due \in 0..ClockMod-1
  BY ConstantsAssumption DEF GlobalsTyped
<1> HIDE DEF due
<1>5. /\ status' = [status EXCEPT ![t] = "SLEEPING"]
      /\ UNCHANGED <<priority, semaphore, ownStack, readyQ, semQ>>
  BY DEF MTSleep, semVars
<1>6. Only(t, "SLEEPING")
  BY <1>5, OnlyHolds
<1>7. /\ sleepQ \in Seq(Threads) /\ IsInjective(sleepQ) /\ t \notin ToSet(sleepQ)
      /\ i + 1 \in 1..Len(sleepQ)+1
  BY DEF QueuesTyped, PlacedBut, SleepDiscipline
<1>8. ReadyDiscipline' /\ SemaPlaced(W)'
  BY <1>5, <1>6, ReadySame, SemaSame DEF Only, PlacedBut
<1>9. SleepDiscipline'
  <2>1. /\ ToSet(sleepQ') = ToSet(sleepQ) \union {t}
        /\ IsInjective(sleepQ')
    BY <1>2, <1>7, InsertAtSet
  <2> QED BY <2>1, <1>6 DEF Only, PlacedBut, SleepDiscipline
<1>10. StacksOwned' /\ WaitersKnown(W)'
  BY <1>5, <1>6 DEF Only, PlacedBut, StacksOwned, WaitersKnown
<1>11. Sorted(sleepQ', wakeUpTime')
  <2>1. /\ wakeUpTime' \in [Threads -> Nat] /\ wakeUpTime'[t] = due
        /\ \A u \in Threads : u # t => wakeUpTime'[u] = wakeUpTime[u]
    BY <1>3, <1>4 DEF ThreadsTyped
  <2>2. \A j \in 1..Len(sleepQ) : sleepQ[j] \in Threads /\ sleepQ[j] # t
    BY <1>7, Member, SeqElements
  <2>3. Sorted(sleepQ, wakeUpTime')
    <3>1. \A e \in ToSet(sleepQ) : wakeUpTime'[e] = wakeUpTime[e]
      BY <1>7, <2>1, <2>2, Member
    <3> QED BY <1>7, <3>1, SortedKept DEF PlacedBut
  <2>4. \A j \in 1..Len(sleepQ) : wakeUpTime'[sleepQ[j]] = wakeUpTime[sleepQ[j]]
    BY <2>1, <2>2
  <2>5. Len(sleepQ) \in Nat
    BY <1>7
  <2>6. i + 1 > 1 => wakeUpTime'[sleepQ[i + 1 - 1]] <= wakeUpTime'[t]
    <3>1. SUFFICES ASSUME i + 1 > 1
                   PROVE  wakeUpTime'[sleepQ[i + 1 - 1]] <= wakeUpTime'[t]
      OBVIOUS
    <3>2. i \in 1..Len(sleepQ) /\ i > 0 /\ i + 1 - 1 = i
      BY <2>5, <3>1
    <3>3. wakeUpTime[sleepQ[i]] <= due
      BY <1>2, <3>2 DEF SleepBehind
    <3> QED BY <2>1, <2>4, <3>2, <3>3
  <2>7. \A j \in i+1..Len(sleepQ) : wakeUpTime'[sleepQ[j]] > wakeUpTime'[t]
    <3>1. \A j \in i+1..Len(sleepQ) : j \in 1..Len(sleepQ)
      BY <2>5
    <3>2. \A j \in i+1..Len(sleepQ) : wakeUpTime[sleepQ[j]] > due
      BY <1>2 DEF SleepBehind
    <3> QED BY <2>1, <2>4, <3>1, <3>2
  <2>8. sleepQ' = InsertAt(sleepQ, i + 1, t)
    BY <1>2
  <2> DEFINE q == sleepQ
             w == wakeUpTime'
             k == i + 1
  <2>9. /\ q \in Seq(Threads) /\ k \in 1..Len(q)+1 /\ w \in [Threads -> Nat]
        /\ Sorted(q, w)
        /\ k > 1 => w[q[k-1]] <= w[t]
        /\ \A j \in k..Len(q) : w[q[j]] > w[t]
    BY <1>7, <2>1, <2>3, <2>6, <2>7
  <2> HIDE DEF q, w, k
  <2>10. Sorted(InsertAt(q, k, t), w)
    BY <2>9, SortedInsert
  <2> QED BY <2>8, <2>10 DEF q, w, k
<1> QED BY <1>8, <1>9, <1>10, <1>11 DEF PlacedBut

\* MTKillThread takes its victim out of the queue it is in, unless that is the
\* sleep queue; ExtractSema always finds it.
LEMMA KillPlaced ==
  ASSUME NEW W, TypeInv, PlacedBut(W), NEW t \in Threads,
         status[t] \notin {"READY", "WAITING"},
         KillBody(t), status[frame[t].arg] # "SLEEPING", frame[t].arg \notin W
  PROVE  PlacedBut(W)' /\ cpu' = cpu
<1> USE DEF TypeInv, TypeOK
<1> DEFINE v == frame[t].arg
<1>1. /\ v \in Threads
      /\ status' = [status EXCEPT ![v] = "TERMINATED"]
      /\ ownStack' = [ownStack EXCEPT ![v] = FALSE]
      /\ UNCHANGED <<priority, semaphore, wakeUpTime, sleepQ>>
  BY DEF KillBody, InThread, FramesOK, FrameOK, Threads
<1>2. /\ IF v # t /\ status[v] = "READY" THEN KillReady(v) ELSE UNCHANGED readyQ
      /\ IF v # t /\ status[v] = "WAITING" THEN KillWaiting(v)
                                           ELSE UNCHANGED <<semQ, cpu>>
  BY DEF KillBody
<1>3. status[v] # "SLEEPING" /\ v \notin W
  OBVIOUS
<1> HIDE DEF v
<1>4. Only(v, "TERMINATED")
  BY <1>1, OnlyHolds
<1>5. ReadyDiscipline'
  <2>1. CASE status[v] = "READY"
    <3> DEFINE p == priority[v]
    <3>1. readyQ' = [readyQ EXCEPT ![p] = ExtractThread(readyQ[p], v)]
      BY <1>2, <2>1 DEF KillReady
    <3>2. p \in Priorities /\ readyQ[p] \in Seq(Threads) /\ IsInjective(readyQ[p])
          /\ v \in ToSet(readyQ[p])
      BY <1>1, <2>1 DEF ThreadsTyped, QueuesTyped, PlacedBut, ReadyDiscipline
    <3> HIDE DEF p
    <3>3. /\ ToSet(ExtractThread(readyQ[p], v)) = ToSet(readyQ[p]) \ {v}
          /\ IsInjective(ExtractThread(readyQ[p], v))
      BY <3>2, ExtractSet DEF ExtractThread
    <3>4. status'[v] # "READY"
          /\ \A u \in Threads : u # v => (status'[u] = "READY" <=> status[u] = "READY")
      BY <1>1, <1>4 DEF Only
    <3> QED BY <1>1, <3>1, <3>2, <3>3, <3>4, ReadyLeave DEF PlacedBut
  <2>2. CASE status[v] # "READY"
    BY <1>1, <1>2, <1>4, <2>2, ReadySame DEF Only, PlacedBut
  <2> QED BY <2>1, <2>2
<1>6. SemaPlaced(W)' /\ cpu' = cpu
  <2>1. CASE status[v] = "WAITING"
    <3> DEFINE s == semaphore[v]
    <3>1. s \in Semaphores /\ s # 0 /\ v \in ToSet(semQ[s])
      BY <1>1, <1>3, <2>1 DEF PlacedBut, WaitersKnown, SemaPlaced, Semaphores
    <3>2. semQ' = [semQ EXCEPT ![s] = ExtractThread(semQ[s], v)] /\ cpu' = cpu
      BY <1>2, <2>1, <3>1 DEF KillWaiting
    <3>3. semQ[s] \in Seq(Threads) /\ IsInjective(semQ[s])
      BY <3>1 DEF QueuesTyped, PlacedBut, SemaPlaced
    <3> HIDE DEF s
    <3>4. /\ ToSet(ExtractThread(semQ[s], v)) = ToSet(semQ[s]) \ {v}
          /\ IsInjective(ExtractThread(semQ[s], v))
      BY <3>1, <3>3, ExtractSet DEF ExtractThread
    <3>5. status'[v] # "WAITING" /\ \A u \in Threads : u # v =>
            /\ status'[u] = "WAITING" <=> status[u] = "WAITING"
            /\ semaphore'[u] = semaphore[u]
      BY <1>1, <1>4 DEF Only
    <3> QED BY <1>1, <3>1, <3>2, <3>4, <3>5, SemaLeave DEF PlacedBut
  <2>2. CASE status[v] # "WAITING"
    BY <1>1, <1>2, <1>4, <2>2, SemaSame DEF Only, PlacedBut
  <2> QED BY <2>1, <2>2
<1>7. SleepDiscipline'
  BY <1>1, <1>3, <1>4, SleepSame DEF Only, PlacedBut
<1>8. StacksOwned' /\ WaitersKnown(W)'
  <2>1. ~ownStack'[v] /\ \A u \in Threads : u # v => ownStack'[u] = ownStack[u]
    BY <1>1 DEF ThreadsTyped
  <2>2. StacksOwned'
    BY <1>4, <2>1 DEF Only, PlacedBut, StacksOwned
  <2>3. WaitersKnown(W)'
    BY <1>1, <1>3, <1>4 DEF Only, PlacedBut, WaitersKnown
  <2> QED BY <2>2, <2>3
<1>9. Sorted(sleepQ, wakeUpTime)'
  BY <1>1 DEF PlacedBut
<1> QED BY <1>5, <1>6, <1>7, <1>8, <1>9 DEF PlacedBut

\* The current thread goes to the back of its ready queue.
LEMMA SchedulerTopPlaced ==
  ASSUME NEW W, TypeInv, PlacedBut(W), SchedulerTop
  PROVE  PlacedBut(W)'
<1> USE DEF TypeInv, TypeOK
<1>1. UNCHANGED <<priority, semaphore, wakeUpTime, ownStack, sleepQ, semQ>>
  BY DEF SchedulerTop, semVars
<1>2. CASE RunsOn
  <2> DEFINE t == curThreadID
  <2>1. t \in Threads /\ status[t] = "CURRENT"
    BY <1>2 DEF RunsOn, GlobalsTyped, Threads
  <2>2. /\ status' = [status EXCEPT ![t] = "READY"]
        /\ readyQ' = EnqueueReady(readyQ, t, priority[t])
    BY <1>2 DEF SchedulerTop
  <2> HIDE DEF t
  <2>3. Only(t, "READY")
    BY <2>1, <2>2, OnlyHolds
  <2>4. priority[t] \in Priorities
    BY <2>1 DEF ThreadsTyped
  <2>5. ReadyDiscipline'
    BY <1>1, <2>1, <2>2, <2>3, <2>4, ReadyJoin DEF Only, PlacedBut
  <2>6. SemaPlaced(W)' /\ SleepDiscipline'
    BY <1>1, <2>1, <2>3, SemaSame, SleepSame DEF Only, PlacedBut
  <2>7. StacksOwned' /\ WaitersKnown(W)'
    BY <1>1, <2>1, <2>3 DEF Only, PlacedBut, StacksOwned, WaitersKnown
  <2> QED BY <1>1, <2>5, <2>6, <2>7 DEF PlacedBut
<1>3. CASE ~RunsOn
  <2>1. UNCHANGED <<status, readyQ>>
    BY <1>3 DEF SchedulerTop
  <2> QED BY <1>1, <2>1, PlacedSame
<1> QED BY <1>2, <1>3

\* The first sleeping thread becomes READY.
LEMMA WakeUpPlaced ==
  ASSUME NEW W, TypeInv, PlacedBut(W), WakeUpSleepingThread
  PROVE  PlacedBut(W)'
<1> USE DEF TypeInv, TypeOK
<1> DEFINE t == Head(sleepQ)
<1>1. /\ sleepQ # <<>> /\ sleepQ' = Tail(sleepQ)
      /\ status' = [status EXCEPT ![t] = "READY"]
      /\ readyQ' = EnqueueReady(readyQ, t, priority[t])
      /\ UNCHANGED <<priority, semaphore, wakeUpTime, ownStack, semQ>>
  BY DEF WakeUpSleepingThread, SleeperDue, semVars
<1>2. sleepQ \in Seq(Threads) /\ IsInjective(sleepQ)
  BY DEF QueuesTyped, PlacedBut, SleepDiscipline
<1>3. /\ t \in Threads /\ t \in ToSet(sleepQ)
      /\ ToSet(Tail(sleepQ)) = ToSet(sleepQ) \ {t} /\ IsInjective(Tail(sleepQ))
  BY <1>1, <1>2, TailSet
<1> HIDE DEF t
<1>4. status[t] = "SLEEPING"
  BY <1>3 DEF PlacedBut, SleepDiscipline
<1>5. Only(t, "READY")
  BY <1>1, <1>3, OnlyHolds
<1>6. priority[t] \in Priorities
  BY <1>3 DEF ThreadsTyped
<1>7. ReadyDiscipline'
  BY <1>1, <1>3, <1>4, <1>5, <1>6, ReadyJoin DEF Only, PlacedBut
<1>8. SemaPlaced(W)'
  BY <1>1, <1>4, <1>5, SemaSame DEF Only, PlacedBut
<1>9. SleepDiscipline'
  BY <1>1, <1>3, <1>5 DEF Only, PlacedBut, SleepDiscipline
<1>10. StacksOwned' /\ WaitersKnown(W)'
  BY <1>1, <1>4, <1>5 DEF Only, PlacedBut, StacksOwned, WaitersKnown
<1>11. Sorted(sleepQ', wakeUpTime')
  BY <1>1, <1>2, SortedTail DEF PlacedBut
<1> QED BY <1>7, <1>8, <1>9, <1>10, <1>11 DEF PlacedBut

\* ChooseNextThread takes a thread that has its stack.
LEMMA DispatchPlaced ==
  ASSUME NEW W, TypeInv, PlacedBut(W), Dispatch
  PROVE  /\ PlacedBut(W)' /\ cpu' = "thread"
         /\ curThreadID' \in Threads /\ Only(curThreadID', "CURRENT")
<1> USE DEF TypeInv, TypeOK
<1>1. PICK p \in Priorities :
        /\ readyQ[p] # <<>> /\ curThreadID' = Head(readyQ[p])
        /\ readyQ' = [readyQ EXCEPT ![p] = Tail(@)]
        /\ status' = [status EXCEPT ![Head(readyQ[p])] = "CURRENT"]
        /\ cpu' = IF ownStack[Head(readyQ[p])] THEN "thread" ELSE "undefined"
  BY DispatchedFrom
<1> DEFINE t == Head(readyQ[p])
<1>2. UNCHANGED <<priority, semaphore, wakeUpTime, ownStack, sleepQ, semQ>>
  BY DEF Dispatch, semVars
<1>3. readyQ[p] \in Seq(Threads) /\ IsInjective(readyQ[p])
  BY DEF QueuesTyped, PlacedBut, ReadyDiscipline
<1>4. /\ t \in Threads /\ t \in ToSet(readyQ[p])
      /\ ToSet(Tail(readyQ[p])) = ToSet(readyQ[p]) \ {t}
      /\ IsInjective(Tail(readyQ[p]))
  BY <1>1, <1>3, TailSet
<1>5. /\ readyQ' = [readyQ EXCEPT ![p] = Tail(readyQ[p])]
      /\ status' = [status EXCEPT ![t] = "CURRENT"] /\ curThreadID' = t
      /\ cpu' = IF ownStack[t] THEN "thread" ELSE "undefined"
  BY <1>1
<1> HIDE DEF t
<1>6. status[t] = "READY"
  BY <1>4 DEF PlacedBut, ReadyDiscipline
<1>7. cpu' = "thread"
  BY <1>4, <1>5, <1>6 DEF PlacedBut, StacksOwned
<1>8. Only(t, "CURRENT")
  BY <1>4, <1>5, OnlyHolds
<1>9. ReadyDiscipline'
  <2>1. status'[t] # "READY"
        /\ \A u \in Threads : u # t => (status'[u] = "READY" <=> status[u] = "READY")
    BY <1>4, <1>8 DEF Only
  <2> QED BY <1>2, <1>4, <1>5, <2>1, ReadyLeave DEF PlacedBut
<1>10. SemaPlaced(W)' /\ SleepDiscipline'
  BY <1>2, <1>6, <1>8, SemaSame, SleepSame DEF Only, PlacedBut
<1>11. StacksOwned' /\ WaitersKnown(W)'
  BY <1>2, <1>6, <1>8 DEF Only, PlacedBut, StacksOwned, WaitersKnown
<1>12. Sorted(sleepQ, wakeUpTime)'
  BY <1>2 DEF PlacedBut
<1> QED BY <1>4, <1>5, <1>7, <1>8, <1>9, <1>10, <1>11, <1>12 DEF PlacedBut

-----------------------------------------------------------------------------
(* Each action preserves the invariant.                                      *)

LEMMA SchedInit == Init => SchedInv
BY DEF Init, SchedInv, PlacedInv, RunInv, NoWildDispatch, MainIdle, NoneCurrent,
       RunnerCurrent, DeadlockSound

\* A step of the running thread t, to a point where it may be interrupted.
RunsOnward(t) ==
  /\ cpu' \in {"thread", "sched", "stopping"}
  /\ UNCHANGED <<curThreadID, bMTInitialised>>
  /\ returnCode' \in {returnCode, "TOO_DEEP_CRITICAL_NEST"}
  /\ \A u \in Threads : status'[u] = "CURRENT" => status[u] = "CURRENT"
  /\ cpu' = "thread" => \/ status'[t] = "CURRENT" \/ pc'[t] \in {"go", "killGo"}
                        \/ EndsItself(t)'

LEMMA RunKept ==
  ASSUME RunInv, NEW t \in Threads, cpu = "thread", curThreadID = t, RunsOnward(t)
  PROVE  RunInv'
<1>1. /\ bMTInitialised /\ CurrentDiscipline /\ returnCode # "DEADLOCKED"
      /\ bMTInitialised' /\ curThreadID' = t /\ returnCode' # "DEADLOCKED"
  BY DEF RunInv, RunsOnward
<1>2. CurrentDiscipline'
  BY <1>1 DEF CurrentDiscipline, RunsOnward
<1>3. NoWildDispatch' /\ MainIdle' /\ NoneCurrent'
  BY DEF RunsOnward, NoWildDispatch, MainIdle, NoneCurrent
<1>4. RunnerCurrent'
  BY <1>1 DEF RunsOnward, RunnerCurrent
<1>5. DeadlockSound'
  BY <1>1 DEF DeadlockSound
<1> QED BY <1>1, <1>2, <1>3, <1>4, <1>5 DEF RunInv, RunsOnward

LEMMA WaitRuns ==
  ASSUME TypeInv, NEW t \in Threads, NEW s, NEW k, NEW a, cpu = "thread",
         status[t] = "CURRENT", MTWait(t, s, k, a)
  PROVE  RunsOnward(t)
<1>1. UNCHANGED <<curThreadID, bMTInitialised, returnCode, cpu>>
  BY DEF MTWait, globalVars, modeVars, stopVars
<1>2. CASE UNCHANGED status
  BY <1>1, <1>2 DEF RunsOnward
<1>3. CASE WaitBusy(t, s, k, a)
  BY <1>1, <1>3
     DEF WaitBusy, Suspend, RunsOnward, TypeInv, TypeOK, ThreadsTyped, StacksTyped
<1> QED BY <1>2, <1>3 DEF MTWait, WaitFree, WaitUnused

\* t itself is not among the waiters, so it is not the thread that is woken.
LEMMA SignalRuns ==
  ASSUME NEW W, TypeInv, PlacedBut(W), NEW t \in Threads, NEW s \in Semaphores, NEW k,
         cpu = "thread", status[t] = "CURRENT" \/ k \in {"go", "killGo"},
         MTSignal(t, s, k)
  PROVE  RunsOnward(t)
<1> USE DEF TypeInv, TypeOK
<1>1. UNCHANGED <<curThreadID, bMTInitialised, returnCode, cpu>>
  BY DEF MTSignal, globalVars, modeVars, stopVars
<1>2. pc'[t] \in {"go", k}
  BY DEF MTSignal, Suspend, Continue, StacksTyped
<1>3. \/ UNCHANGED status
      \/ \E u \in Threads : status[u] = "WAITING" /\ status' = [status EXCEPT ![u] = "READY"]
  <2>1. CASE semQ[s] # <<>> /\ WakeUpThreads(s)
    <3>1. semQ[s] \in Seq(Threads)
      BY DEF QueuesTyped
    <3>2. Head(semQ[s]) \in Threads /\ Head(semQ[s]) \in ToSet(semQ[s])
      BY <2>1, <3>1, TailSet
    <3>3. status[Head(semQ[s])] = "WAITING"
      BY <3>2 DEF PlacedBut, SemaPlaced
    <3>4. status' = [status EXCEPT ![Head(semQ[s])] = "READY"]
      BY <2>1 DEF WakeUpThreads
    <3> QED BY <3>2, <3>3, <3>4
  <2> QED BY <2>1 DEF MTSignal, WakeUpThreads
<1>4. /\ \A u \in Threads : status'[u] = "CURRENT" => status[u] = "CURRENT"
      /\ status[t] = "CURRENT" => status'[t] = "CURRENT"
  BY <1>3 DEF ThreadsTyped
<1> QED BY <1>1, <1>2, <1>4 DEF RunsOnward

\* What the running thread's place in its own code says about it.
LEMMA RunnerBut ==
  ASSUME NEW W, RunInv, PlacedInvBut(W), NEW t \in Threads,
         cpu = "thread", curThreadID = t
  PROVE  /\ bMTInitialised /\ PlacedBut(W)
         /\ pc[t] \notin {"go", "killGo", "killSignal"} => status[t] = "CURRENT"
         /\ pc[t] = "killSignal" => status[t] \in {"CURRENT", "TERMINATED"}
BY DEF RunInv, PlacedInvBut, RunnerCurrent, EndsItself

LEMMA Runner ==
  ASSUME RunInv, PlacedInv, NEW t \in Threads, cpu = "thread", curThreadID = t
  PROVE  /\ bMTInitialised /\ Placed
         /\ pc[t] \notin {"go", "killGo", "killSignal"} => status[t] = "CURRENT"
         /\ pc[t] = "killSignal" => status[t] \in {"CURRENT", "TERMINATED"}
BY DEF RunInv, PlacedInv, RunnerCurrent, EndsItself

LEMMA SchedApplication ==
  ASSUME NEW W, TypeInv, SchedBut(W), NEW t \in Threads, Application(t)
  PROVE  SchedBut(W)'
<1> USE DEF SchedBut, semaCRunTimeLib
<1>0. cpu = "thread" /\ curThreadID = t /\ pc[t] = "app"
  BY DEF Application, EnterDos, AppWait, AppSignal, MTTestAndSet, MTCreateSema,
     MTDestroySema, MTEnterCritical, MTLeaveCritical, MTYield,
     MTEndMultiThreading, MTSleep, MTEndThread, MTKillThread, MTAddNewThread,
     AppCall, InThread
<1>1. PlacedBut(W) /\ status[t] = "CURRENT"
  BY <1>0, RunnerBut
<1>2. 1 \in Semaphores /\ held[t] \subseteq Semaphores
  BY ConstantsAssumption DEF Semaphores, TypeInv, TypeOK, StacksTyped
<1>3. PlacedBut(W)' /\ RunsOnward(t)
  <2>1. CASE AppWait(t) \/ MTEndThread(t) \/ MTKillThread(t) \/ MTAddNewThread(t)
    <3>1. PICK s \in Semaphores, k \in {"app", "kill", "add"}, a \in Nat :
            MTWait(t, s, k, a)
      <4>1. Threads \subseteq Nat /\ AppPriorities \subseteq Nat /\ 0 \in Nat
        BY ConstantsAssumption DEF Threads
      <4> QED BY <1>2, <2>1, <4>1
              DEF AppWait, MTEndThread, MTKillThread, MTAddNewThread
    <3> QED BY <1>0, <1>1, <3>1, WaitPlaced, WaitRuns
  <2>2. CASE AppSignal(t)
    <3>1. PICK s \in Semaphores : MTSignal(t, s, "app")
      BY <1>2, <2>2 DEF AppSignal
    <3> QED BY <1>0, <1>1, <3>1, SignalPlaced, SignalRuns
  <2>3. CASE MTTestAndSet(t)
    <3>1. /\ UNCHANGED <<status, priority, wakeUpTime, ownStack, readyQ, sleepQ,
                         semQ, curThreadID, bMTInitialised, returnCode, cpu>>
          /\ \E s \in Semaphores : semaphore' = [semaphore EXCEPT ![t] = s]
      BY <2>3 DEF MTTestAndSet, queueVars, globalVars, modeVars, stopVars
    <3>2. \A u \in Threads : u # t => semaphore'[u] = semaphore[u]
      BY <3>1 DEF TypeInv, TypeOK, ThreadsTyped
    <3> QED BY <1>0, <1>1, <3>1, <3>2, PlacedSame DEF RunsOnward
  <2>4. CASE \/ MTCreateSema(t) \/ MTDestroySema(t) \/ MTEnterCritical(t)
             \/ MTLeaveCritical(t) \/ MTYield(t) \/ MTEndMultiThreading(t) \/ EnterDos(t)
    <3>1. /\ UNCHANGED <<threadVars, queueVars, semQ, curThreadID, bMTInitialised,
                         returnCode>>
          /\ cpu' \in {"thread", "sched"}
      BY <1>0, <2>4 DEF MTCreateSema, MTDestroySema, MTEnterCritical,
         MTLeaveCritical, MTYield, MTEndMultiThreading, EnterDos, semVars,
         globalVars, modeVars, stopVars
    <3> QED BY <1>1, <3>1, PlacedSame DEF RunsOnward, threadVars, queueVars
  <2>5. CASE MTSleep(t)
    <3>1. /\ UNCHANGED <<curThreadID, bMTInitialised, returnCode, cpu>>
          /\ status' = [status EXCEPT ![t] = "SLEEPING"]
          /\ pc' = [pc EXCEPT ![t] = "go"]
      BY <2>5 DEF MTSleep, Suspend, globalVars, modeVars, stopVars
    <3>2. RunsOnward(t)
      BY <1>0, <3>1
         DEF RunsOnward, TypeInv, TypeOK, ThreadsTyped, StacksTyped
    <3> QED BY <1>1, <2>5, <3>2, SleepPlaced
  <2> QED BY <2>1, <2>2, <2>3, <2>4, <2>5 DEF Application
<1>4. PlacedInvBut(W)' /\ RunInv'
  BY <1>0, <1>3, RunKept DEF PlacedInvBut
<1> QED BY <1>4

LEMMA SchedKernel ==
  ASSUME NEW W, TypeInv, SchedBut(W), SparesSleepers, Spares(W),
         NEW t \in Threads, Kernel(t)
  PROVE  SchedBut(W)'
<1> USE DEF SchedBut, InThread, semaCRunTimeLib
<1>0. cpu = "thread" /\ curThreadID = t
  BY DEF Kernel, LeaveDos, KillRefused, GotoScheduler, LeaveResumed, EnterTooDeep,
     KillBody, KillSignal, KillLeave, KillSignalAgain, AddFails, AddBody,
     AddSignal, AppCall
<1>1. PlacedBut(W)
  BY <1>0, RunnerBut
<1>2. 1 \in Semaphores
  BY ConstantsAssumption DEF Semaphores
<1>3. PlacedBut(W)' /\ RunsOnward(t)
  <2>1. CASE GotoScheduler(t) \/ EnterTooDeep(t)
    <3>1. /\ UNCHANGED <<threadVars, queueVars, semQ, curThreadID, bMTInitialised>>
          /\ returnCode' \in {returnCode, "TOO_DEEP_CRITICAL_NEST"}
          /\ cpu' \in {"sched", "stopping"}
      BY <2>1 DEF GotoScheduler, EnterTooDeep, semVars, globalVars, modeVars,
         stopVars
    <3> QED BY <1>1, <3>1, PlacedSame DEF RunsOnward, threadVars, queueVars
  <2>2. CASE LeaveResumed(t) \/ KillLeave(t) \/ AddFails(t) \/ KillRefused(t) \/ LeaveDos(t)
    <3>1. UNCHANGED <<threadVars, queueVars, semQ, curThreadID, bMTInitialised,
                      returnCode, cpu>>
      BY <2>2 DEF LeaveResumed, KillLeave, AddFails, KillRefused, LeaveDos, semVars,
         globalVars, modeVars, stopVars
    <3>2. status[t] = "CURRENT"
      BY <1>0, <2>2, RunnerBut DEF LeaveResumed, KillLeave, AddFails, KillRefused,
         LeaveDos
    <3> QED BY <1>0, <1>1, <3>1, <3>2, PlacedSame
            DEF RunsOnward, threadVars, queueVars
  <2>3. CASE KillBody(t)
    <3> DEFINE v == frame[t].arg
    <3>1. status[t] = "CURRENT" /\ status[v] # "SLEEPING" /\ v \notin W
      BY <1>0, <2>3, RunnerBut DEF KillBody, SparesSleepers, Spares
    <3>2. PlacedBut(W)' /\ cpu' = cpu
      BY <1>1, <2>3, <3>1, KillPlaced
    <3>3. /\ v \in Threads /\ status' = [status EXCEPT ![v] = "TERMINATED"]
          /\ UNCHANGED <<curThreadID, bMTInitialised, returnCode>>
          /\ DropFrames(t, v)
      BY <2>3 DEF KillBody, TypeInv, FramesOK, FrameOK, Threads, globalVars, modeVars,
         stopVars
    <3> HIDE DEF v
    <3>4. Only(v, "TERMINATED")
      BY <3>3, OnlyHolds DEF TypeInv, TypeOK
    <3>5. pc'[t] = "killSignal"
      BY <3>3 DEF DropFrames
    <3> QED BY <1>0, <3>1, <3>2, <3>3, <3>4, <3>5 DEF RunsOnward, Only, EndsItself
  <2>4. CASE KillSignal(t) \/ KillSignalAgain(t) \/ AddSignal(t)
    <3>1. PICK k \in {"killGo", "app"} :
            /\ MTSignal(t, 1, k)
            /\ k = "app" => pc[t] \in {"killSignal2", "addSignal"}
      BY <2>4 DEF KillSignal, KillSignalAgain, AddSignal
    <3>2. status[t] = "CURRENT" \/ k \in {"go", "killGo"}
      BY <1>0, <3>1, RunnerBut
    <3> QED BY <1>0, <1>1, <1>2, <3>1, <3>2, SignalPlaced, SignalRuns
  <2>5. CASE AddBody(t)
    <3>1. PICK slot \in FirstSlots :
            /\ NewThread(slot, frame[t].arg)
            /\ cpu' = IF slot \in ToSet(sleepQ) THEN "undefined" ELSE cpu
      BY <2>5 DEF AddBody
    <3>2. /\ UNCHANGED <<semQ, curThreadID, bMTInitialised, returnCode>>
          /\ pc[t] = "add"
      BY <2>5 DEF AddBody, semVars, globalVars, modeVars, stopVars
    <3>3. frame[t].arg \in Priorities
      BY <3>2 DEF TypeInv, FramesOK, FrameOK
    <3>4. PlacedBut(W)' /\ cpu' = cpu
      BY <1>1, <3>1, <3>2, <3>3, NewThreadPlaced
    <3>5. status[t] = "CURRENT"
      BY <1>0, <3>2, RunnerBut
    <3>6. /\ slot \in Threads /\ slot # t
          /\ status' = [status EXCEPT ![slot] = "READY"]
      BY <3>1, <3>5 DEF FirstSlots, UsableSlots, NewThread
    <3>7. Only(slot, "READY")
      BY <3>6, OnlyHolds DEF TypeInv, TypeOK
    <3> QED BY <1>0, <3>2, <3>4, <3>5, <3>6, <3>7 DEF RunsOnward, Only
  <2> QED BY <2>1, <2>2, <2>3, <2>4, <2>5 DEF Kernel
<1>4. PlacedInvBut(W)' /\ RunInv'
  BY <1>0, <1>3, RunKept DEF PlacedInvBut
<1> QED BY <1>4

\* Where it starts anew nobody is away.
LEMMA SchedStarts ==
  ASSUME NEW W, SchedBut(W), MTInitialise
  PROVE  SchedInv'
<1> USE DEF SchedBut, SchedInv, RunInv
<1> USE DEF MTInitialise, ResetSleepQ
<1>1. /\ \A u \in Threads : status'[u] = "INVALID" /\ ~ownStack'[u]
      /\ \A p \in Priorities : readyQ'[p] = <<>>
      /\ \A s \in Semaphores : semQ'[s] = <<>>
      /\ sleepQ' = <<>> /\ cpu' = "main"
  OBVIOUS
<1>2. IsInjective(<<>>) /\ ToSet(<<>>) = {} /\ Len(<<>>) = 0
  BY DEF IsInjective, ToSet
<1>3. ReadyDiscipline' /\ SemaDiscipline' /\ SleepDiscipline'
  BY <1>1, <1>2 DEF ReadyDiscipline, SemaDiscipline, SleepDiscipline
<1>4. StacksOwned' /\ WaitersKnown({})'
  BY <1>1 DEF StacksOwned, WaitersKnown
<1>5. Sorted(sleepQ', wakeUpTime')
  BY <1>1, <1>2 DEF Sorted
<1>6. PlacedInv'
  BY <1>3, <1>4, <1>5 DEF PlacedInv, Placed
<1> QED BY <1>1, <1>6 DEF CurrentDiscipline, NoWildDispatch, MainIdle,
           NoneCurrent, RunnerCurrent, DeadlockSound

LEMMA SchedMain ==
  ASSUME NEW W, TypeInv, SchedBut(W), Main, ~MTInitialise
  PROVE  SchedBut(W)'
<1> USE DEF SchedBut, RunInv
<1>2. CASE TidyUp
  BY <1>2 DEF TidyUp, PlacedInvBut, NoWildDispatch, MainIdle, NoneCurrent,
     RunnerCurrent, DeadlockSound
<1>3. CASE MTSetPreemptive \/ MainCreateSema \/ MainDestroySema \/ MTStartMultiThreading
  <2>1. /\ UNCHANGED <<threadVars, queueVars, semQ, bMTInitialised, curThreadID>>
        /\ cpu = "main" /\ cpu' \in {"main", "sched"}
        /\ cpu' = "sched" => bMTInitialised /\ returnCode' = "NORMAL"
    BY <1>3 DEF MTSetPreemptive, MainCreateSema, MainDestroySema, MTStartMultiThreading, semVars,
       globalVars, modeVars
  <2>2. PlacedInvBut(W)'
    BY <2>1, PlacedSame DEF PlacedInvBut, threadVars, queueVars
  <2> QED BY <2>1, <2>2 DEF CurrentDiscipline, NoWildDispatch, MainIdle,
             NoneCurrent, RunnerCurrent, DeadlockSound, threadVars
<1>4. CASE MainAddNewThread
  <2>1. PICK slot \in FirstSlots, p \in AppPriorities : NewThread(slot, p)
    BY <1>4 DEF MainAddNewThread
  <2>2. /\ UNCHANGED <<semQ, bMTInitialised, curThreadID, cpu>>
        /\ cpu = "main" /\ bMTInitialised
    BY <1>4 DEF MainAddNewThread, semVars, globalVars, modeVars
  <2>3. p \in Priorities
    BY ConstantsAssumption DEF Priorities
  <2>4. PlacedBut(W)'
    BY <2>1, <2>2, <2>3, NewThreadPlaced DEF PlacedInvBut
  <2>5. slot \in Threads /\ status' = [status EXCEPT ![slot] = "READY"]
    BY <2>1 DEF FirstSlots, UsableSlots, NewThread
  <2>6. Only(slot, "READY")
    BY <2>5, OnlyHolds DEF TypeInv, TypeOK
  <2>7. \A u \in Threads : status'[u] \in {"INVALID", "READY"}
    BY <2>2, <2>6 DEF Only, MainIdle
  <2> QED BY <2>2, <2>4, <2>7 DEF PlacedInvBut, CurrentDiscipline, NoWildDispatch,
             MainIdle, NoneCurrent, RunnerCurrent, DeadlockSound
<1> QED BY <1>2, <1>3, <1>4 DEF Main

LEMMA SchedScheduler ==
  ASSUME NEW W, TypeInv, SchedBut(W), Scheduler
  PROVE  SchedBut(W)'
<1> USE DEF SchedBut, RunInv
<1>0. cpu \in InScheduler /\ UNCHANGED bMTInitialised
  BY DEF Scheduler, SchedulerTop, WakeUpSleepingThread, SleepersWoken, Dispatch,
     IdleTurn, Deadlocked, StopMultiThreading, InScheduler, globalVars, modeVars
<1>1. bMTInitialised /\ PlacedBut(W) /\ CurrentDiscipline /\ returnCode # "DEADLOCKED"
  BY <1>0 DEF InScheduler, PlacedInvBut
<1>2. CASE SchedulerTop
  <2>1. PlacedBut(W)'
    BY <1>1, <1>2, SchedulerTopPlaced
  <2>2. cpu' = "wake" /\ returnCode' \in {returnCode, "CTRLBREAK"}
    BY <1>2 DEF SchedulerTop
  <2>3. \A u \in Threads : status'[u] # "CURRENT"
    <3>1. CASE RunsOn
      <4>1. curThreadID \in Threads
        BY <3>1 DEF RunsOn, TypeInv, TypeOK, GlobalsTyped, Threads
      <4>2. Only(curThreadID, "READY")
        BY <1>2, <3>1, <4>1, OnlyHolds DEF SchedulerTop, TypeInv, TypeOK
      <4> QED BY <1>1, <4>2 DEF Only, CurrentDiscipline
    <3>2. CASE ~RunsOn
      <4>1. UNCHANGED status
        BY <1>2, <3>2 DEF SchedulerTop
      <4>2. \A u \in Threads : u > 0
        BY DEF Threads
      <4> QED BY <1>1, <3>2, <4>1, <4>2 DEF RunsOn, CurrentDiscipline
    <3> QED BY <3>1, <3>2
  <2> QED BY <1>0, <1>1, <2>1, <2>2, <2>3 DEF PlacedInvBut, CurrentDiscipline,
             NoWildDispatch, MainIdle, NoneCurrent, RunnerCurrent, DeadlockSound
<1>3. CASE WakeUpSleepingThread
  <2>1. PlacedBut(W)'
    BY <1>1, <1>3, WakeUpPlaced
  <2>2. /\ cpu = "wake" /\ UNCHANGED <<cpu, returnCode>>
        /\ sleepQ # <<>>
        /\ status' = [status EXCEPT ![Head(sleepQ)] = "READY"]
    BY <1>3 DEF WakeUpSleepingThread, SleeperDue, globalVars, stopVars
  <2>3. \A u \in Threads : status'[u] # "CURRENT"
    <3>1. \A u \in Threads : status[u] # "CURRENT"
      BY <2>2 DEF NoneCurrent
    <3>2. sleepQ \in Seq(Threads)
      BY DEF TypeInv, TypeOK, QueuesTyped
    <3>3. Head(sleepQ) \in Threads
      BY <2>2, <3>2
    <3> QED BY <2>2, <3>1, <3>3 DEF TypeInv, TypeOK, ThreadsTyped
  <2> QED BY <1>0, <1>1, <2>1, <2>2, <2>3 DEF PlacedInvBut, CurrentDiscipline,
             NoWildDispatch, MainIdle, NoneCurrent, RunnerCurrent, DeadlockSound
<1>4. CASE Dispatch
  <2>1. /\ PlacedBut(W)' /\ cpu' = "thread"
        /\ curThreadID' \in Threads /\ Only(curThreadID', "CURRENT")
    BY <1>1, <1>4, DispatchPlaced
  <2>2. cpu = "choose" /\ UNCHANGED returnCode
    BY <1>4 DEF Dispatch, stopVars
  <2>3. \A u \in Threads : status'[u] = "CURRENT" <=> u = curThreadID'
    BY <2>1, <2>2 DEF Only, NoneCurrent
  <2> QED BY <1>0, <1>1, <2>1, <2>2, <2>3 DEF PlacedInvBut, CurrentDiscipline,
             NoWildDispatch, MainIdle, NoneCurrent, RunnerCurrent, DeadlockSound
<1>5. CASE SleepersWoken \/ IdleTurn \/ Deadlocked \/ StopMultiThreading
  <2>1. UNCHANGED <<threadVars, queueVars, semQ>>
    BY <1>5 DEF SleepersWoken, IdleTurn, Deadlocked, StopMultiThreading, semVars
  <2>2. PlacedBut(W)'
    BY <1>1, <2>1, PlacedSame DEF threadVars, queueVars
  <2>3. \A u \in Threads : status'[u] # "CURRENT"
    <3>1. cpu \in {"wake", "choose"}
      BY <1>5 DEF SleepersWoken, IdleTurn, Deadlocked, StopMultiThreading
    <3> QED BY <2>1, <3>1 DEF NoneCurrent, threadVars
  <2>4. CASE Deadlocked
    <3>1. NoThreadLeft /\ cpu' = "stopping"
      BY <2>4 DEF Deadlocked
    <3>2. \A u \in Threads : status[u] \notin {"READY", "SLEEPING"}
      <4>1. \A u : u \notin ToSet(<<>>)
        BY DEF ToSet
      <4>2. \A u \in Threads : priority[u] \in Priorities
        BY DEF TypeInv, TypeOK, ThreadsTyped
      <4> QED BY <1>1, <3>1, <4>1, <4>2
              DEF NoThreadLeft, NoneReady, PlacedBut, ReadyDiscipline, SleepDiscipline
    <3>3. \A u \in Threads : status'[u] \in {"WAITING", "INVALID", "TERMINATED"}
      BY <2>1, <2>3, <3>2 DEF threadVars, TypeInv, TypeOK, ThreadsTyped, ThreadStatus
    <3> QED BY <1>0, <1>1, <2>2, <2>3, <3>1, <3>3 DEF PlacedInvBut,
               CurrentDiscipline, NoWildDispatch, MainIdle, NoneCurrent,
               RunnerCurrent, DeadlockSound
  <2>5. CASE SleepersWoken \/ IdleTurn \/ StopMultiThreading
    <3>1. cpu' \in {"choose", "sched", "stopping"} /\ UNCHANGED returnCode
      BY <2>5 DEF SleepersWoken, IdleTurn, StopMultiThreading, globalVars, stopVars
    <3> QED BY <1>0, <1>1, <2>2, <2>3, <3>1 DEF PlacedInvBut, CurrentDiscipline,
               NoWildDispatch, MainIdle, NoneCurrent, RunnerCurrent, DeadlockSound
  <2> QED BY <1>5, <2>4, <2>5
<1> QED BY <1>2, <1>3, <1>4, <1>5 DEF Scheduler

LEMMA SchedInterrupt ==
  ASSUME NEW W, SchedBut(W), TimerTick \/ TimerPreempt \/ CtrlBreak
  PROVE  SchedBut(W)'
<1> USE DEF SchedBut, RunInv
<1>1. /\ UNCHANGED <<threadVars, queueVars, semQ, bMTInitialised, returnCode,
                     curThreadID, pc>>
      /\ cpu # "main" /\ (cpu' = cpu \/ cpu' = "sched")
      /\ cpu' = "sched" => cpu \in {"thread", "sched"}
  BY DEF TimerTick, TimerPreempt, CtrlBreak, TimerHooked, InScheduler, semVars,
     modeVars, stopVars, appVars
<1>2. PlacedInvBut(W)'
  BY <1>1, PlacedSame DEF PlacedInvBut, threadVars, queueVars
<1> QED BY <1>1, <1>2 DEF CurrentDiscipline, NoWildDispatch, MainIdle,
           NoneCurrent, RunnerCurrent, EndsItself, DeadlockSound, threadVars
\* A step of the kernel keeps its queues, whoever waits for something else.
LEMMA SchedStep ==
  ASSUME NEW W, TypeInv, SchedBut(W), [Next]_vars, ~MTInitialise,
         [SparesSleepers]_vars, [Spares(W)]_vars
  PROVE  SchedBut(W)'
<1>1. CASE UNCHANGED vars
  <2>1. UNCHANGED <<status, priority, semaphore, wakeUpTime, ownStack, readyQ,
                    sleepQ, semQ, bMTInitialised, returnCode, curThreadID, cpu, pc>>
    BY <1>1 DEF vars, threadVars, queueVars, semVars, globalVars, modeVars,
       stopVars, appVars
  <2>2. PlacedInvBut(W)'
    BY <2>1, PlacedSame DEF SchedBut, PlacedInvBut
  <2> QED BY <2>1, <2>2 DEF SchedBut, RunInv, CurrentDiscipline, NoWildDispatch,
             MainIdle, NoneCurrent, RunnerCurrent, EndsItself, DeadlockSound
<1>2. CASE Next /\ SparesSleepers /\ Spares(W)
  BY <1>2, SchedMain, SchedApplication, SchedKernel, SchedScheduler,
     SchedInterrupt DEF Next
<1> QED BY <1>1, <1>2

LEMMA SchedNext ==
  TypeInv /\ SchedInv /\ [Next]_vars /\ [SparesSleepers]_vars => SchedInv'
<1> SUFFICES ASSUME TypeInv, SchedInv, [Next]_vars, [SparesSleepers]_vars
             PROVE  SchedInv'
  OBVIOUS
<1>1. SchedBut({}) /\ Spares({})
  BY NoneAway DEF Spares
<1> QED BY <1>1, SchedStarts, SchedStep, NoneAway

LEMMA SchedCorrect == Spec /\ NoSleeperKilled => []SchedInv
BY SchedInit, SchedNext, TypeCorrect, PTL DEF Spec, NoSleeperKilled

\* In every application that kills no sleeping thread, each thread is in the one
\* queue its status names, once, and in no other, and what the scheduler loads is
\* the stack of a thread that has one.
THEOREM QueuesSound ==
  Spec /\ NoSleeperKilled => [](QueueDiscipline /\ NoWildDispatch)
<1>1. SchedInv => QueueDiscipline /\ NoWildDispatch
  BY DEF SchedInv, PlacedInv, Placed, RunInv, QueueDiscipline
<1> QED BY <1>1, SchedCorrect, PTL

\* ChooseNextThread returns DEADLOCKED only when every thread that is left waits
\* for a semaphore, so that none could have run again.
THEOREM DeadlockIsReal == Spec /\ NoSleeperKilled => []DeadlockSound
<1>1. SchedInv => DeadlockSound
  BY DEF SchedInv, RunInv
<1> QED BY <1>1, SchedCorrect, PTL

\* WakeUpSleepingThreads stops at the first thread that is not due, and leaves none
\* that is.
THEOREM NobodyOversleeps == Spec /\ NoSleeperKilled => NoOversleep
<1> DEFINE A == cpu = "wake" /\ cpu' = "choose" =>
                  \A t \in Threads : status'[t] = "SLEEPING" => wakeUpTime[t] > clockTick
<1>1. TypeInv /\ SchedInv /\ [Next]_vars => [A]_vars
  <2>1. SUFFICES ASSUME TypeInv, SchedInv, Next, cpu = "wake", cpu' = "choose",
                        NEW t \in Threads, status'[t] = "SLEEPING"
                 PROVE  wakeUpTime[t] > clockTick
    OBVIOUS
  <2>2. SleepersWoken
    <3>1. ~Main /\ ~(TimerTick \/ TimerPreempt \/ CtrlBreak)
      BY <2>1 DEF Main, MTInitialise, MTSetPreemptive, MainAddNewThread,
         MainCreateSema, MainDestroySema, MTStartMultiThreading, TidyUp, TimerTick, TimerPreempt,
         CtrlBreak
    <3>2. ~ \E u \in Threads : Application(u)
      BY <2>1 DEF Application, EnterDos, AppWait, AppSignal, MTTestAndSet,
         MTCreateSema, MTDestroySema, MTEnterCritical, MTLeaveCritical, MTYield,
         MTEndMultiThreading, MTSleep, MTEndThread, MTKillThread, MTAddNewThread,
         AppCall, InThread
    <3>3. ~ \E u \in Threads : Kernel(u)
      BY <2>1 DEF Kernel, LeaveDos, KillRefused, GotoScheduler, LeaveResumed,
         EnterTooDeep, KillBody, KillSignal, KillLeave, KillSignalAgain, AddFails,
         AddBody, AddSignal, AppCall, InThread
    <3>4. Scheduler
      BY <2>1, <3>1, <3>2, <3>3 DEF Next
    <3> QED BY <2>1, <3>4 DEF Scheduler, SchedulerTop, WakeUpSleepingThread,
               Dispatch, IdleTurn, Deadlocked, StopMultiThreading
  <2>3. status[t] = "SLEEPING" /\ ~SleeperDue
    BY <2>1, <2>2 DEF SleepersWoken, threadVars
  <2>4. Placed
    BY <2>1 DEF SchedInv, PlacedInv, RunInv
  <2>5. sleepQ \in Seq(Threads) /\ t \in ToSet(sleepQ) /\ Sorted(sleepQ, wakeUpTime)
    BY <2>1, <2>3, <2>4 DEF TypeInv, TypeOK, QueuesTyped, Placed, SleepDiscipline
  <2>6. PICK j \in 1..Len(sleepQ) : sleepQ[j] = t
    BY <2>5, Member
  <2>7. sleepQ # <<>> /\ Head(sleepQ) = sleepQ[1] /\ 1 \in 1..Len(sleepQ)
        /\ (j = 1 \/ 1 < j)
    BY <2>5, <2>6
  <2>8. sleepQ[1] \in Threads
    BY <2>5, <2>7
  <2>9. /\ wakeUpTime[t] \in Nat /\ wakeUpTime[sleepQ[1]] \in Nat
        /\ clockTick \in Nat
    BY <2>1, <2>8, ConstantsAssumption DEF TypeInv, TypeOK, ThreadsTyped, GlobalsTyped
  <2>10. wakeUpTime[sleepQ[1]] <= wakeUpTime[t]
    BY <2>5, <2>6, <2>7, <2>9 DEF Sorted
  <2>11. wakeUpTime[sleepQ[1]] > clockTick
    BY <2>3, <2>7, <2>9 DEF SleeperDue
  <2> QED BY <2>9, <2>10, <2>11
<1> QED BY <1>1, SchedCorrect, TypeCorrect, PTL DEF Spec, NoOversleep
-----------------------------------------------------------------------------
(* Applications that do not both sleep and kill.  Without MTSleep nobody     *)
(* sleeps; without MTKillThread a thread ends only itself, while it runs.    *)

NoSleepers == "Sleep" \notin Calls => \A t \in Threads : status[t] # "SLEEPING"
OwnKill(f, l, t) == "kill" \in {l, f.ret} => f.arg = t
OwnKills ==
  "KillThread" \notin Calls => \A t \in Threads : OwnKill(frame[t], pc[t], t)

LEMMA CallsInit == Init => NoSleepers /\ OwnKills
BY DEF Init, NoSleepers, OwnKills, OwnKill, NoFrame

\* How the status of a thread changes.
LEMMA StatusStep ==
  [Next]_vars =>
    \/ UNCHANGED status \/ status' = [t \in Threads |-> "INVALID"]
    \/ \E t, x : /\ x \in {"READY", "CURRENT", "WAITING", "TERMINATED"}
                 /\ status' = [status EXCEPT ![t] = x]
    \/ \E t \in Threads : MTSleep(t)
<1> SUFFICES ASSUME [Next]_vars, ~ \E t \in Threads : MTSleep(t)
             PROVE  \/ UNCHANGED status \/ status' = [t \in Threads |-> "INVALID"]
                    \/ \E t, x : /\ x \in {"READY", "CURRENT", "WAITING", "TERMINATED"}
                                 /\ status' = [status EXCEPT ![t] = x]
  OBVIOUS
<1> USE DEF threadVars
<1>1. CASE Main
  BY <1>1 DEF Main, MTInitialise, MTSetPreemptive, MainAddNewThread,
     MainCreateSema, MainDestroySema, MTStartMultiThreading, TidyUp, NewThread
<1>2. ASSUME NEW t \in Threads, Application(t)
      PROVE  UNCHANGED status \/ status' = [status EXCEPT ![t] = "WAITING"]
             \/ \E u : status' = [status EXCEPT ![u] = "READY"]
  BY <1>2 DEF Application, EnterDos, AppWait, AppSignal, MTTestAndSet, MTCreateSema,
     MTDestroySema, MTEnterCritical, MTLeaveCritical, MTYield,
     MTEndMultiThreading, MTEndThread, MTKillThread, MTAddNewThread, MTWait,
     WaitFree, WaitBusy, WaitUnused, MTSignal, WakeUpThreads
<1>3. ASSUME NEW t \in Threads, Kernel(t)
      PROVE  UNCHANGED status \/ status' = [status EXCEPT ![frame[t].arg] = "TERMINATED"]
             \/ \E u : status' = [status EXCEPT ![u] = "READY"]
  BY <1>3 DEF Kernel, LeaveDos, KillRefused, GotoScheduler, LeaveResumed,
     EnterTooDeep, KillBody, KillSignal, KillLeave, KillSignalAgain, AddFails,
     AddBody, AddSignal, NewThread, MTSignal, WakeUpThreads
<1>4. CASE Scheduler
  BY <1>4 DEF Scheduler, SchedulerTop, WakeUpSleepingThread, SleepersWoken,
     Dispatch, IdleTurn, Deadlocked, StopMultiThreading
<1>5. CASE TimerTick \/ TimerPreempt \/ CtrlBreak
  BY <1>5 DEF TimerTick, TimerPreempt, CtrlBreak
<1>6. CASE UNCHANGED vars
  BY <1>6 DEF vars
<1>7. CASE \E t \in Threads : Application(t) \/ Kernel(t)
  BY <1>2, <1>3, <1>7
<1> QED BY <1>1, <1>4, <1>5, <1>6, <1>7 DEF Next

LEMMA NoSleepersKept == TypeInv /\ NoSleepers /\ [Next]_vars => NoSleepers'
<1> SUFFICES ASSUME TypeInv, NoSleepers, [Next]_vars, "Sleep" \notin Calls,
                    NEW u \in Threads
             PROVE  status'[u] # "SLEEPING"
  BY DEF NoSleepers
<1>1. ~ \E t \in Threads : MTSleep(t)
  BY DEF MTSleep, AppCall
<1>2. status[u] # "SLEEPING"
  BY DEF NoSleepers
<1> QED BY <1>1, <1>2, StatusStep DEF TypeInv, TypeOK, ThreadsTyped

\* Where the running thread goes on, and what it keeps; other threads' calls stay.
LEMMA ContinueFrame ==
  ASSUME TypeInv, NEW t \in Threads, NEW k, NEW a \in Nat, Continue(t, k, a)
  PROVE  /\ pc'[t] = k
         /\ frame'[t] = [resume |-> "app", ret |-> "app", acq |-> 0, arg |-> a]
         /\ \A u \in Threads : u # t => pc'[u] = pc[u] /\ frame'[u] = frame[u]
BY NoFrameOK DEF Continue, TypeInv, TypeOK, StacksTyped

LEMMA SuspendFrame ==
  ASSUME TypeInv, NEW t \in Threads, NEW r, NEW k, NEW s, NEW a,
         Suspend(t, r, k, s, a)
  PROVE  /\ pc'[t] = "go"
         /\ frame'[t] = [resume |-> r, ret |-> k, acq |-> s, arg |-> a]
         /\ \A u \in Threads : u # t => pc'[u] = pc[u] /\ frame'[u] = frame[u]
BY DEF Suspend, TypeInv, TypeOK, StacksTyped

LEMMA GotoFrame ==
  ASSUME TypeInv, NEW t \in Threads, GotoScheduler(t)
  PROVE  /\ pc'[t] \in {"app", "leave", "killLeave"}
         /\ frame'[t].ret = frame[t].ret /\ frame'[t].acq = frame[t].acq
         /\ frame'[t].arg = frame[t].arg
         /\ \A u \in Threads : u # t => pc'[u] = pc[u] /\ frame'[u] = frame[u]
<1>1. /\ frame[t] \in Frame /\ FrameOK(frame[t], pc[t])
      /\ pc \in [Threads -> Labels] /\ frame \in [Threads -> Frame]
  BY DEF TypeInv, TypeOK, StacksTyped, FramesOK
<1>2. /\ pc' = [pc EXCEPT ![t] = IF @ = "killGo" THEN "killLeave"
                                                 ELSE frame[t].resume]
      /\ frame' = [frame EXCEPT ![t] = [frame[t] EXCEPT !.resume = "app"]]
  BY <1>1 DEF GotoScheduler
<1>3. pc'[t] \in {"app", "leave", "killLeave"}
  BY <1>1, <1>2 DEF FrameOK
<1>4. frame'[t] = [frame[t] EXCEPT !.resume = "app"]
  BY <1>1, <1>2
<1>5. /\ frame'[t].ret = frame[t].ret /\ frame'[t].acq = frame[t].acq
      /\ frame'[t].arg = frame[t].arg
  BY <1>1, <1>4 DEF Frame
<1> QED BY <1>1, <1>2, <1>3, <1>5

LEMMA OwnKillsKept == TypeInv /\ OwnKills /\ [Next]_vars => OwnKills'
<1> SUFFICES ASSUME TypeInv, \A t \in Threads : OwnKill(frame[t], pc[t], t),
                    [Next]_vars, "KillThread" \notin Calls
             PROVE  \A t \in Threads : OwnKill(frame'[t], pc'[t], t)
  BY DEF OwnKills
<1>0. OwnKill(NoFrame, "app", 0) /\ \A t : OwnKill(NoFrame, "app", t)
  BY DEF OwnKill, NoFrame
<1>1. CASE UNCHANGED <<pc, frame>>
  BY <1>1
<1>2. ASSUME NEW t \in Threads, NEW k, NEW a \in Nat, Continue(t, k, a),
             k = "kill" => a = t
      PROVE  \A u \in Threads : OwnKill(frame'[u], pc'[u], u)
  <2>1. OwnKill(frame'[t], pc'[t], t)
    <3>1. pc'[t] = k
          /\ frame'[t] = [resume |-> "app", ret |-> "app", acq |-> 0, arg |-> a]
      BY <1>2, ContinueFrame
    <3>2. frame'[t].ret = "app" /\ frame'[t].arg = a
      BY <3>1
    <3> QED BY <1>2, <3>1, <3>2 DEF OwnKill
  <2>2. \A u \in Threads : u # t => pc'[u] = pc[u] /\ frame'[u] = frame[u]
    BY <1>2, ContinueFrame
  <2> QED BY <2>1, <2>2
<1>3. ASSUME NEW t \in Threads, NEW r, NEW k, NEW s, NEW a,
             Suspend(t, r, k, s, a), k = "kill" => a = t
      PROVE  \A u \in Threads : OwnKill(frame'[u], pc'[u], u)
  <2>1. OwnKill(frame'[t], pc'[t], t)
    <3>1. pc'[t] = "go"
          /\ frame'[t] = [resume |-> r, ret |-> k, acq |-> s, arg |-> a]
      BY <1>3, SuspendFrame
    <3>2. frame'[t].ret = k /\ frame'[t].arg = a
      BY <3>1
    <3> QED BY <1>3, <3>1, <3>2 DEF OwnKill
  <2>2. \A u \in Threads : u # t => pc'[u] = pc[u] /\ frame'[u] = frame[u]
    BY <1>3, SuspendFrame
  <2> QED BY <2>1, <2>2
<1>4. ASSUME NEW t \in Threads, NEW s, NEW k, NEW a \in Nat, MTWait(t, s, k, a),
             k = "kill" => a = t
      PROVE  \A u \in Threads : OwnKill(frame'[u], pc'[u], u)
  BY <1>2, <1>3, <1>4 DEF MTWait, WaitFree, WaitBusy, WaitUnused
<1>5. ASSUME NEW t \in Threads, NEW s, NEW k, MTSignal(t, s, k), k # "kill"
      PROVE  \A u \in Threads : OwnKill(frame'[u], pc'[u], u)
  <2>1. 0 \in Nat
    OBVIOUS
  <2> QED BY <1>2, <1>3, <1>5, <2>1 DEF MTSignal
<1>6. CASE Main
  <2>1. \A u \in Threads : \/ pc'[u] = pc[u] /\ frame'[u] = frame[u]
                           \/ pc'[u] = "app" /\ frame'[u] = NoFrame
    BY <1>6 DEF Main, MTInitialise, MTSetPreemptive, MainAddNewThread,
       MainCreateSema, MainDestroySema, MTStartMultiThreading, TidyUp, appVars, FirstSlots,
       UsableSlots, TypeInv, TypeOK, StacksTyped
  <2> QED BY <1>0, <2>1
<1>7. ASSUME NEW t \in Threads, Application(t)
      PROVE  \A u \in Threads : OwnKill(frame'[u], pc'[u], u)
  <2>1. CASE AppWait(t) \/ MTEndThread(t) \/ MTAddNewThread(t)
    <3>1. t \in Nat /\ AppPriorities \subseteq Nat /\ 0 \in Nat
      BY ConstantsAssumption DEF Threads
    <3>2. CASE AppWait(t)
      <4>1. PICK s : MTWait(t, s, "app", 0)
        BY <3>2 DEF AppWait
      <4> QED BY <1>4, <3>1, <4>1
    <3>3. CASE MTEndThread(t)
      <4>1. MTWait(t, semaCRunTimeLib, "kill", t)
        BY <3>3 DEF MTEndThread
      <4> QED BY <1>4, <3>1, <4>1
    <3>4. CASE MTAddNewThread(t)
      <4>1. PICK p \in AppPriorities : MTWait(t, semaCRunTimeLib, "add", p)
        BY <3>4 DEF MTAddNewThread
      <4> QED BY <1>4, <3>1, <4>1
    <3> QED BY <2>1, <3>2, <3>3, <3>4
  <2>2. CASE AppSignal(t)
    BY <1>5, <2>2 DEF AppSignal
  <2>3. CASE MTEndMultiThreading(t) \/ MTSleep(t)
    BY <1>3, <2>3 DEF MTEndMultiThreading, MTSleep
  <2>4. ~MTKillThread(t)
    BY DEF MTKillThread, AppCall
  <2>5. CASE \/ MTTestAndSet(t) \/ MTCreateSema(t) \/ MTDestroySema(t)
             \/ MTEnterCritical(t) \/ MTLeaveCritical(t) \/ MTYield(t)
    BY <1>1, <2>5 DEF MTTestAndSet, MTCreateSema, MTDestroySema,
       MTEnterCritical, MTLeaveCritical, MTYield, appVars
  <2>6. CASE EnterDos(t)
    <3>1. \A u \in Threads : pc'[u] \in {"dos", pc[u]} /\ frame'[u] = frame[u]
      BY <2>6 DEF EnterDos, TypeInv, TypeOK, StacksTyped
    <3> QED BY <3>1 DEF OwnKill
  <2> QED BY <1>7, <2>1, <2>2, <2>3, <2>4, <2>5, <2>6 DEF Application
<1>8. ASSUME NEW t \in Threads, Kernel(t)
      PROVE  \A u \in Threads : OwnKill(frame'[u], pc'[u], u)
  <2>0. OwnKill(frame[t], pc[t], t) /\ frame[t].arg \in Nat
    BY DEF TypeInv, TypeOK, StacksTyped, Frame
  <2>1. CASE GotoScheduler(t)
    <3>1. OwnKill(frame'[t], pc'[t], t)
      BY <2>0, <2>1, GotoFrame DEF OwnKill
    <3>2. \A u \in Threads : u # t => pc'[u] = pc[u] /\ frame'[u] = frame[u]
      BY <2>1, GotoFrame
    <3> QED BY <3>1, <3>2
  <2>2. CASE LeaveResumed(t)
    <3>1. Continue(t, frame[t].ret, frame[t].arg)
      BY <2>2 DEF LeaveResumed
    <3>2. frame[t].ret = "kill" => frame[t].arg = t
      BY <2>0 DEF OwnKill
    <3> QED BY <1>2, <2>0, <3>1, <3>2
  <2>3. CASE EnterTooDeep(t)
    BY <1>1, <2>3 DEF EnterTooDeep, appVars
  <2>4. CASE KillBody(t)
    <3>1. \A u \in Threads :
            \/ pc'[u] = "app" /\ frame'[u] = NoFrame
            \/ pc'[u] \in {"killSignal", pc[u]} /\ frame'[u] = frame[u]
      BY <2>4 DEF KillBody, DropFrames, TypeInv, TypeOK, StacksTyped
    <3> QED BY <1>0, <3>1 DEF OwnKill
  <2>5. CASE KillSignal(t) \/ KillSignalAgain(t) \/ AddSignal(t)
    <3>1. \E s, k : MTSignal(t, s, k) /\ k # "kill"
      <4>1. "killGo" # "kill" /\ "app" # "kill"
        OBVIOUS
      <4> QED BY <2>5, <4>1 DEF KillSignal, KillSignalAgain, AddSignal
    <3> QED BY <1>5, <3>1
  <2>6. CASE KillLeave(t) \/ AddFails(t) \/ AddBody(t) \/ KillRefused(t) \/ LeaveDos(t)
    <3>1. \A u \in Threads :
            \/ pc'[u] = "app" /\ frame'[u] = NoFrame
            \/ /\ pc'[u] \in {"killSignal2", "addSignal", "app", pc[u]}
               /\ frame'[u] = frame[u]
      BY <2>6 DEF KillLeave, AddFails, AddBody, KillRefused, LeaveDos, TypeInv,
         TypeOK, StacksTyped
    <3> QED BY <1>0, <3>1 DEF OwnKill
  <2> QED BY <1>8, <2>1, <2>2, <2>3, <2>4, <2>5, <2>6 DEF Kernel
<1>9. CASE Scheduler \/ TimerTick \/ TimerPreempt \/ CtrlBreak
  BY <1>1, <1>9 DEF Scheduler, SchedulerTop, WakeUpSleepingThread,
     SleepersWoken, Dispatch, IdleTurn, Deadlocked, StopMultiThreading,
     TimerTick, TimerPreempt, CtrlBreak, appVars
<1>10. CASE UNCHANGED vars
  BY <1>1, <1>10 DEF vars, appVars
<1> QED BY <1>6, <1>7, <1>8, <1>9, <1>10 DEF Next

\* Such an application kills no sleeping thread.
LEMMA SleepersSpared ==
  ASSUME "Sleep" \notin Calls \/ "KillThread" \notin Calls
  PROVE  TypeInv /\ SchedInv /\ NoSleepers /\ OwnKills => SparesSleepers
<1> SUFFICES ASSUME TypeInv, SchedInv, NoSleepers, OwnKills, NEW t \in Threads,
                    KillBody(t)
             PROVE  status[frame[t].arg] # "SLEEPING"
  BY DEF SparesSleepers
<1>1. cpu = "thread" /\ curThreadID = t /\ pc[t] = "kill"
  BY DEF KillBody, InThread
<1>2. CASE "Sleep" \notin Calls
  <2>1. frame[t].arg \in Threads
    BY <1>1 DEF TypeInv, FramesOK, FrameOK, KillBody, Threads
  <2> QED BY <1>2, <2>1 DEF NoSleepers
<1>3. CASE "KillThread" \notin Calls
  <2>1. frame[t].arg = t
    BY <1>1, <1>3 DEF OwnKills, OwnKill
  <2>2. status[t] = "CURRENT"
    BY <1>1, Runner DEF SchedInv
  <2> QED BY <2>1, <2>2
<1> QED BY <1>2, <1>3

LEMMA SchedByCalls ==
  ASSUME "Sleep" \notin Calls \/ "KillThread" \notin Calls
  PROVE  Spec => [](SchedInv /\ NoSleepers /\ OwnKills)
<1>1. TypeInv /\ SchedInv /\ NoSleepers /\ OwnKills /\ [Next]_vars
        => (SchedInv /\ NoSleepers /\ OwnKills)'
  BY SchedNext, NoSleepersKept, OwnKillsKept, SleepersSpared
<1> QED BY <1>1, SchedInit, CallsInit, TypeCorrect, PTL DEF Spec

\* For such an application, then, the queues are sound whatever else it calls.
COROLLARY QueuesSoundByCalls ==
  ASSUME "Sleep" \notin Calls \/ "KillThread" \notin Calls
  PROVE  Spec => [](QueueDiscipline /\ NoWildDispatch /\ DeadlockSound)
<1>1. SchedInv => QueueDiscipline /\ NoWildDispatch /\ DeadlockSound
  BY DEF SchedInv, PlacedInv, Placed, RunInv, QueueDiscipline
<1> QED BY <1>1, SchedByCalls, PTL
-----------------------------------------------------------------------------
(* Semaphores.  A thread that is killed by another takes what it has waited  *)
(* for with it; apart from that a busy semaphore has a holder.               *)

\* MTKillThread is not called for another thread that holds a semaphore.
SparesHolders ==
  \A t \in Threads : KillBody(t) => frame[t].arg = t \/ held[frame[t].arg] = {}
NoHolderKilled == [][SparesHolders]_vars

\* A semaphore is not destroyed while it is busy.
BusyInUse == \A s \in Semaphores : semValue[s] = 1 => semInUse[s]

\* A thread that is about to end itself holds the runtime semaphore at most, and
\* nothing once it has signalled it.
EndOK(f, l, t, h) ==
  /\ f.ret = "kill" => /\ l = "leave" \/ (l = "go" /\ f.resume = "leave")
                       /\ f.acq \in {0, semaCRunTimeLib}
  /\ "kill" \in {l, f.ret} /\ f.arg = t => h \subseteq {semaCRunTimeLib}
EndersHold == \A t \in Threads : EndOK(frame[t], pc[t], t, held[t])
EndedOK(l, h) == \/ l = "killSignal" /\ h \subseteq {semaCRunTimeLib}
                 \/ l \in {"go", "killGo"} /\ h = {}
EndedHolds ==
  cpu = "thread" /\ status[curThreadID] \in {"INVALID", "TERMINATED"} =>
    EndedOK(pc[curThreadID], held[curThreadID])

HeldInv == BusyInUse /\ EndersHold /\ EndedHolds /\ BusyMeansHeld

LEMMA HeldInit == Init => HeldInv
BY DEF Init, HeldInv, BusyInUse, EndersHold, EndOK, NoFrame, EndedHolds,
       BusyMeansHeld

\* A busy semaphore keeps its holder, or has a new one.
LEMMA HolderKept ==
  ASSUME BusyMeansHeld,
         \A s \in Semaphores : semValue'[s] = 1 =>
           \/ \E u \in Threads : Alive(u)' /\ s \in held'[u]
           \/ /\ semValue[s] = 1
              /\ \A u \in Threads : Alive(u) /\ s \in held[u] =>
                                      Alive(u)' /\ s \in held'[u]
  PROVE  BusyMeansHeld'
BY DEF BusyMeansHeld

LEMMA NoFrameEnds == \A t : EndOK(NoFrame, "app", t, {})
BY DEF EndOK, NoFrame

\* Nothing of what the invariant is about changes, but perhaps statuses of threads
\* that live on.
LEMMA HeldSame ==
  ASSUME HeldInv, UNCHANGED <<semValue, semInUse, pc, frame, held>>,
         \A u \in Threads : Alive(u) /\ held[u] # {} => Alive(u)',
         EndedHolds'
  PROVE  HeldInv'
<1>1. BusyMeansHeld'
  BY HolderKept DEF HeldInv
<1> QED BY <1>1 DEF HeldInv, BusyInUse, EndersHold

\* MTWait of the running thread.
LEMMA WaitHeld ==
  ASSUME TypeInv, HeldInv, NEW t \in Threads, NEW s \in Semaphores, NEW k,
         NEW a \in Nat, cpu = "thread", curThreadID = t, status[t] = "CURRENT",
         k = "kill" => s = semaCRunTimeLib /\ (a = t => held[t] = {}),
         MTWait(t, s, k, a)
  PROVE  HeldInv'
<1> USE DEF HeldInv
<1>1. UNCHANGED <<cpu, curThreadID, semInUse>>
  BY DEF MTWait, globalVars
<1>2. \A u \in Threads : /\ u # t => pc'[u] = pc[u] /\ frame'[u] = frame[u]
                         /\ u # t => held'[u] = held[u]
  <2>1. Continue(t, k, a) \/ Suspend(t, "leave", k, s, a)
    BY DEF MTWait, WaitFree, WaitBusy, WaitUnused
  <2>2. \A u \in Threads : u # t => pc'[u] = pc[u] /\ frame'[u] = frame[u]
    BY <2>1, ContinueFrame, SuspendFrame
  <2>3. \A u \in Threads : u # t => held'[u] = held[u]
    BY DEF MTWait, WaitFree, WaitBusy, WaitUnused, TypeInv, TypeOK, StacksTyped
  <2> QED BY <2>2, <2>3
<1>3. CASE WaitFree(t, s, k, a) \/ WaitUnused(t, s, k, a)
  <2>1. UNCHANGED status
    BY <1>3 DEF WaitFree, WaitUnused
  <2>2. /\ held[t] \subseteq held'[t] /\ held'[t] \subseteq held[t] \union {s}
        /\ \A r \in Semaphores : semValue'[r] = 1 => semValue[r] = 1
                                   \/ (r = s /\ semInUse[s] /\ s \in held'[t])
    BY <1>3 DEF WaitFree, WaitUnused, TypeInv, TypeOK, StacksTyped, SemasTyped
  <2>3. pc'[t] = k /\ frame'[t].ret = "app" /\ frame'[t].arg = a
    <3>1. Continue(t, k, a)
      BY <1>3 DEF WaitFree, WaitUnused
    <3>2. frame'[t] = [resume |-> "app", ret |-> "app", acq |-> 0, arg |-> a]
          /\ pc'[t] = k
      BY <3>1, ContinueFrame
    <3> QED BY <3>2
  <2>4. EndOK(frame'[t], pc'[t], t, held'[t])
    BY <2>2, <2>3 DEF EndOK
  <2>5. EndersHold'
    BY <1>2, <2>4 DEF EndersHold
  <2>6. BusyInUse' /\ EndedHolds'
    BY <1>1, <2>1, <2>2 DEF BusyInUse, EndedHolds
  <2>7. BusyMeansHeld'
    <3>1. Alive(t)'
      BY <2>1 DEF Alive
    <3>2. \A u \in Threads : held[u] \subseteq held'[u]
      BY <1>2, <2>2
    <3> QED BY <1>1, <2>1, <2>2, <3>1, <3>2, HolderKept DEF Alive
  <2> QED BY <2>5, <2>6, <2>7
<1>4. CASE WaitBusy(t, s, k, a)
  <2>1. UNCHANGED <<held, semValue>> /\ Only(t, "WAITING")
    BY <1>4, OnlyHolds DEF WaitBusy, TypeInv, TypeOK
  <2>2. /\ pc'[t] = "go" /\ frame'[t].resume = "leave" /\ frame'[t].ret = k
        /\ frame'[t].acq = s /\ frame'[t].arg = a
    <3>1. Suspend(t, "leave", k, s, a)
      BY <1>4 DEF WaitBusy
    <3>2. frame'[t] = [resume |-> "leave", ret |-> k, acq |-> s, arg |-> a]
          /\ pc'[t] = "go"
      BY <3>1, SuspendFrame
    <3> QED BY <3>2
  <2>3. EndOK(frame'[t], pc'[t], t, held'[t])
    BY <2>1, <2>2 DEF EndOK
  <2>4. EndersHold'
    BY <1>2, <2>3 DEF EndersHold
  <2>5. BusyInUse' /\ EndedHolds'
    BY <1>1, <2>1 DEF BusyInUse, EndedHolds, Only
  <2>6. BusyMeansHeld'
    BY <1>1, <2>1, HolderKept DEF Alive, Only
  <2> QED BY <2>4, <2>5, <2>6
<1> QED BY <1>3, <1>4 DEF MTWait

\* MTSignal: a thread that has ended itself signals the semaphore it still has.
LEMMA SignalHeld ==
  ASSUME TypeInv, Placed, HeldInv, NEW t \in Threads, NEW s \in Semaphores,
         NEW k \in {"app", "killGo"}, cpu = "thread", curThreadID = t,
         \/ status[t] = "CURRENT"
         \/ pc[t] = "killSignal" /\ k = "killGo" /\ s = semaCRunTimeLib,
         MTSignal(t, s, k)
  PROVE  HeldInv'
<1> USE DEF HeldInv
<1>1. UNCHANGED <<cpu, curThreadID, semInUse>>
      /\ held' = [held EXCEPT ![t] = @ \ {s}]
  BY DEF MTSignal, globalVars
<1>2. \A u \in Threads : held'[u] = IF u = t THEN held[t] \ {s} ELSE held[u]
  BY <1>1 DEF TypeInv, TypeOK, StacksTyped
<1>3. /\ pc'[t] \in {"go", k} /\ frame'[t].ret \in {"app", "killGo"}
      /\ \A u \in Threads : u # t => pc'[u] = pc[u] /\ frame'[u] = frame[u]
  <2>1. 0 \in Nat
    OBVIOUS
  <2>2. CASE Continue(t, k, 0)
    <3>1. frame'[t] = [resume |-> "app", ret |-> "app", acq |-> 0, arg |-> 0]
          /\ pc'[t] = k
      BY <2>1, <2>2, ContinueFrame
    <3> QED BY <2>1, <2>2, <3>1, ContinueFrame
  <2>3. CASE Suspend(t, "leave", k, 0, 0)
    <3>1. frame'[t] = [resume |-> "leave", ret |-> k, acq |-> 0, arg |-> 0]
          /\ pc'[t] = "go"
      BY <2>3, SuspendFrame
    <3> QED BY <2>3, <3>1, SuspendFrame
  <2> QED BY <2>2, <2>3 DEF MTSignal
<1>4. EndersHold'
  <2>1. EndOK(frame'[t], pc'[t], t, held'[t])
    BY <1>3 DEF EndOK
  <2> QED BY <1>2, <1>3, <2>1 DEF EndersHold
<1>5. \A r \in Semaphores : semValue'[r] = 1 => semValue[r] = 1 /\ r # s
  BY DEF MTSignal, BusyInUse, TypeInv, TypeOK, SemasTyped
<1>6. \A u \in Threads :
        status'[u] = status[u] \/ (status[u] = "WAITING" /\ status'[u] = "READY")
  <2>1. CASE UNCHANGED status
    BY <2>1
  <2>2. CASE semQ[s] # <<>> /\ WakeUpThreads(s)
    <3>1. semQ[s] \in Seq(Threads)
      BY DEF TypeInv, TypeOK, QueuesTyped
    <3>2. Head(semQ[s]) \in Threads /\ Head(semQ[s]) \in ToSet(semQ[s])
      BY <2>2, <3>1, TailSet
    <3>3. status[Head(semQ[s])] = "WAITING"
      BY <3>2 DEF Placed, SemaDiscipline
    <3>4. Only(Head(semQ[s]), "READY")
      BY <2>2, <3>2, OnlyHolds DEF WakeUpThreads, TypeInv, TypeOK
    <3> QED BY <3>3, <3>4 DEF Only
  <2> QED BY <2>1, <2>2 DEF MTSignal, WakeUpThreads
<1>7. EndedHolds'
  <2>1. SUFFICES ASSUME status'[t] \in {"INVALID", "TERMINATED"}
                 PROVE  EndedOK(pc'[t], held'[t])
    BY <1>1 DEF EndedHolds
  <2>2. status[t] \in {"INVALID", "TERMINATED"}
    BY <1>6, <2>1
  <2>3. pc[t] = "killSignal" /\ k = "killGo" /\ s = semaCRunTimeLib
    BY <2>2
  <2>4. held[t] \subseteq {semaCRunTimeLib}
    BY <2>2, <2>3 DEF EndedHolds, EndedOK
  <2> QED BY <1>2, <1>3, <2>3, <2>4 DEF EndedOK
<1>8. BusyInUse'
  BY <1>1, <1>5 DEF BusyInUse
<1>9. BusyMeansHeld'
  <2>1. \A u \in Threads : Alive(u) => Alive(u)'
    BY <1>1, <1>6 DEF Alive
  <2>2. \A r \in Semaphores, u \in Threads : r # s /\ r \in held[u] => r \in held'[u]
    BY <1>2
  <2> QED BY <1>5, <2>1, <2>2, HolderKept
<1> QED BY <1>4, <1>7, <1>8, <1>9

LEMMA HeldApplication ==
  ASSUME TypeInv, SchedInv, HeldInv, NEW t \in Threads, Application(t)
  PROVE  HeldInv'
<1>0. cpu = "thread" /\ curThreadID = t /\ pc[t] = "app"
  BY DEF Application, EnterDos, AppWait, AppSignal, MTTestAndSet, MTCreateSema,
     MTDestroySema, MTEnterCritical, MTLeaveCritical, MTYield,
     MTEndMultiThreading, MTSleep, MTEndThread, MTKillThread, MTAddNewThread,
     AppCall, InThread
<1>1. Placed /\ status[t] = "CURRENT"
  BY <1>0, Runner DEF SchedInv
<1>2. semaCRunTimeLib \in Semaphores /\ held[t] \subseteq Semaphores
  BY ConstantsAssumption DEF Semaphores, semaCRunTimeLib, TypeInv, TypeOK, StacksTyped
<1>3. CASE AppWait(t) \/ MTEndThread(t) \/ MTKillThread(t) \/ MTAddNewThread(t)
  <2>1. Threads \subseteq Nat /\ AppPriorities \subseteq Nat /\ 0 \in Nat
    BY ConstantsAssumption DEF Threads
  <2>2. CASE AppWait(t)
    <3>1. PICK s \in Semaphores : MTWait(t, s, "app", 0)
      BY <2>2 DEF AppWait
    <3> QED BY <1>0, <1>1, <2>1, <3>1, WaitHeld
  <2>3. CASE MTEndThread(t)
    BY <1>0, <1>1, <1>2, <2>1, <2>3, WaitHeld DEF MTEndThread
  <2>4. CASE MTKillThread(t)
    <3>1. PICK v \in 0..NThreads : v # t /\ MTWait(t, semaCRunTimeLib, "kill", v)
      BY <2>4 DEF MTKillThread
    <3>2. v \in Nat
      OBVIOUS
    <3> QED BY <1>0, <1>1, <1>2, <2>1, <3>1, <3>2, WaitHeld
  <2>5. CASE MTAddNewThread(t)
    <3>1. PICK p \in AppPriorities : MTWait(t, semaCRunTimeLib, "add", p)
      BY <2>5 DEF MTAddNewThread
    <3> QED BY <1>0, <1>1, <1>2, <2>1, <3>1, WaitHeld
  <2> QED BY <1>3, <2>2, <2>3, <2>4, <2>5
<1>4. CASE AppSignal(t)
  <2>1. PICK s \in Semaphores : MTSignal(t, s, "app")
    BY <1>2, <1>4 DEF AppSignal
  <2> QED BY <1>0, <1>1, <2>1, SignalHeld
<1>5. CASE MTTestAndSet(t)
  <2>1. PICK s \in Semaphores :
          /\ semInUse[s]
          /\ \/ /\ semValue' = [semValue EXCEPT ![s] = 1]
                /\ held' = [held EXCEPT ![t] = @ \union {s}]
             \/ UNCHANGED <<semValue, held>>
    BY <1>5 DEF MTTestAndSet
  <2>2. UNCHANGED <<status, semInUse, cpu, curThreadID, pc, frame>>
    BY <1>5 DEF MTTestAndSet, globalVars
  <2>3. /\ \A u \in Threads : held[u] \subseteq held'[u]
        /\ \A u \in Threads : u # t => held'[u] = held[u]
        /\ \A r \in Semaphores : semValue'[r] = 1 => semValue[r] = 1
                                   \/ (r = s /\ s \in held'[t])
    BY <2>1 DEF TypeInv, TypeOK, StacksTyped, SemasTyped
  <2>4. EndersHold'
    <3>1. frame[t].ret # "kill"
      BY <1>0 DEF HeldInv, EndersHold, EndOK
    <3>2. EndOK(frame[t], pc[t], t, held'[t])
      BY <1>0, <3>1 DEF EndOK
    <3> QED BY <2>2, <2>3, <3>2 DEF HeldInv, EndersHold
  <2>5. BusyInUse' /\ EndedHolds'
    BY <1>0, <1>1, <2>1, <2>2, <2>3 DEF HeldInv, BusyInUse, EndedHolds
  <2>6. BusyMeansHeld'
    BY <1>1, <2>2, <2>3, HolderKept DEF HeldInv, Alive
  <2> QED BY <2>4, <2>5, <2>6 DEF HeldInv
<1>6. CASE MTCreateSema(t) \/ MTDestroySema(t)
  <2>1. UNCHANGED <<status, semValue, pc, frame, held, cpu, curThreadID>>
    BY <1>6 DEF MTCreateSema, MTDestroySema, threadVars, globalVars, appVars
  <2>2. \A s \in Semaphores : semInUse'[s] = semInUse[s] \/ semInUse'[s]
                              \/ semValue[s] = 0
    BY <1>6 DEF MTCreateSema, CreateSema, MTDestroySema, DestroySema, TypeInv, TypeOK, SemasTyped
  <2>3. BusyInUse' /\ EndersHold' /\ EndedHolds'
    BY <2>1, <2>2 DEF HeldInv, BusyInUse, EndersHold, EndedHolds
  <2>4. BusyMeansHeld'
    BY <2>1, HolderKept DEF HeldInv, Alive
  <2> QED BY <2>3, <2>4 DEF HeldInv
<1>7. CASE MTEnterCritical(t) \/ MTLeaveCritical(t) \/ MTYield(t)
  <2>1. UNCHANGED <<status, semValue, semInUse, pc, frame, held, curThreadID>>
    BY <1>7 DEF MTEnterCritical, MTLeaveCritical, MTYield, threadVars, semVars,
       globalVars, appVars
  <2>2. \A u \in Threads : Alive(u) => Alive(u)'
    BY <1>0, <1>1, <2>1 DEF Alive
  <2>3. EndedHolds'
    BY <1>0, <1>1, <2>1 DEF EndedHolds
  <2> QED BY <2>1, <2>2, <2>3, HeldSame
<1>8. CASE MTEndMultiThreading(t) \/ MTSleep(t)
  <2>1. /\ UNCHANGED <<semValue, semInUse, held, cpu, curThreadID>>
        /\ Suspend(t, "app", "app", 0, 0)
        /\ UNCHANGED status \/ status' = [status EXCEPT ![t] = "SLEEPING"]
    BY <1>8 DEF MTEndMultiThreading, MTSleep, threadVars, semVars, globalVars
  <2>2. \A u \in Threads : status'[u] \in {status[u], "SLEEPING"}
    BY <2>1 DEF TypeInv, TypeOK, ThreadsTyped
  <2>3. /\ pc'[t] = "go"
        /\ frame'[t] = [resume |-> "app", ret |-> "app", acq |-> 0, arg |-> 0]
        /\ \A u \in Threads : u # t => pc'[u] = pc[u] /\ frame'[u] = frame[u]
    BY <2>1, SuspendFrame
  <2>4. EndOK(frame'[t], pc'[t], t, held'[t])
    BY <2>3 DEF EndOK
  <2>5. EndersHold'
    BY <2>1, <2>3, <2>4 DEF HeldInv, EndersHold
  <2>6. BusyInUse' /\ EndedHolds'
    BY <1>0, <1>1, <2>1, <2>2 DEF HeldInv, BusyInUse, EndedHolds
  <2>7. BusyMeansHeld'
    BY <2>1, <2>2, HolderKept DEF HeldInv, Alive
  <2> QED BY <2>5, <2>6, <2>7 DEF HeldInv
<1>9. CASE EnterDos(t)
  <2>1. /\ UNCHANGED <<status, semValue, semInUse, frame, held, cpu, curThreadID>>
        /\ pc' = [pc EXCEPT ![t] = "dos"]
    BY <1>9 DEF EnterDos, threadVars, semVars, globalVars
  <2>2. \A u \in Threads : pc'[u] = (IF u = t THEN "dos" ELSE pc[u])
    BY <2>1 DEF TypeInv, TypeOK, StacksTyped
  <2>3. EndOK(frame[t], "dos", t, held[t])
    <3>1. EndOK(frame[t], pc[t], t, held[t])
      BY DEF HeldInv, EndersHold
    <3> QED BY <1>0, <3>1 DEF EndOK
  <2>4. EndersHold'
    BY <2>1, <2>2, <2>3 DEF HeldInv, EndersHold
  <2>5. BusyInUse' /\ EndedHolds' /\ BusyMeansHeld'
    BY <1>0, <1>1, <2>1, HolderKept DEF HeldInv, BusyInUse, EndedHolds, Alive
  <2> QED BY <2>4, <2>5 DEF HeldInv
<1> QED BY <1>3, <1>4, <1>5, <1>6, <1>7, <1>8, <1>9 DEF Application

LEMMA HeldKernel ==
  ASSUME TypeInv, SchedInv, CriticalInv, HeldInv, SparesHolders,
         NEW t \in Threads, Kernel(t)
  PROVE  HeldInv'
<1>0. cpu = "thread" /\ curThreadID = t
  BY DEF Kernel, LeaveDos, KillRefused, GotoScheduler, LeaveResumed, EnterTooDeep,
     KillBody, KillSignal, KillLeave, KillSignalAgain, AddFails, AddBody,
     AddSignal, AppCall, InThread
<1>1. /\ Placed
      /\ pc[t] \notin {"go", "killGo", "killSignal"} => status[t] = "CURRENT"
  BY <1>0, Runner DEF SchedInv
<1>2. semaCRunTimeLib \in Semaphores
  BY ConstantsAssumption DEF Semaphores, semaCRunTimeLib
<1>3. CASE GotoScheduler(t)
  <2>1. /\ UNCHANGED <<status, semValue, semInUse, held, curThreadID>>
        /\ cpu' = "sched" /\ pc[t] \in {"go", "killGo"}
    BY <1>3 DEF GotoScheduler, InThread, threadVars, semVars, globalVars
  <2>2. EndersHold'
    <3>1. EndOK(frame'[t], pc'[t], t, held'[t])
      <4>1. EndOK(frame[t], pc[t], t, held[t])
        BY DEF HeldInv, EndersHold
      <4>2. frame[t].ret = "kill" => pc'[t] = "leave"
        <5>1. /\ frame[t] \in Frame
              /\ pc \in [Threads -> Labels] /\ frame \in [Threads -> Frame]
          BY DEF TypeInv, TypeOK, StacksTyped
        <5>2. pc' = [pc EXCEPT ![t] = IF @ = "killGo" THEN "killLeave"
                                                      ELSE frame[t].resume]
          BY <1>3 DEF GotoScheduler
        <5> QED BY <2>1, <4>1, <5>1, <5>2 DEF EndOK
      <4> QED BY <1>3, <2>1, <4>1, <4>2, GotoFrame DEF EndOK
    <3>2. \A u \in Threads : u # t => pc'[u] = pc[u] /\ frame'[u] = frame[u]
      BY <1>3, GotoFrame
    <3> QED BY <2>1, <3>1, <3>2 DEF HeldInv, EndersHold
  <2>3. \A u \in Threads : Alive(u) /\ held[u] # {} => Alive(u)'
    <3>1. status[t] \in {"INVALID", "TERMINATED"} => held[t] = {}
      BY <1>0, <2>1 DEF HeldInv, EndedHolds, EndedOK
    <3> QED BY <1>0, <2>1, <3>1 DEF Alive
  <2>4. BusyInUse' /\ EndedHolds' /\ BusyMeansHeld'
    BY <2>1, <2>3, HolderKept DEF HeldInv, BusyInUse, EndedHolds
  <2> QED BY <2>2, <2>4 DEF HeldInv
<1>4. CASE LeaveResumed(t)
  <2>1. /\ UNCHANGED <<status, semValue, semInUse, cpu, curThreadID>>
        /\ held' = [held EXCEPT ![t] = @ \union ({frame[t].acq} \ {0})]
        /\ Continue(t, frame[t].ret, frame[t].arg)
        /\ pc[t] = "leave"
    BY <1>4 DEF LeaveResumed, InThread, threadVars, semVars, globalVars
  <2>2. /\ \A u \in Threads : u # t => held'[u] = held[u]
        /\ held'[t] = held[t] \union ({frame[t].acq} \ {0})
        /\ frame[t].arg \in Nat
    BY <2>1 DEF TypeInv, TypeOK, StacksTyped, Frame
  <2>3. /\ pc'[t] = frame[t].ret
        /\ frame'[t] = [resume |-> "app", ret |-> "app", acq |-> 0,
                        arg |-> frame[t].arg]
        /\ \A u \in Threads : u # t => pc'[u] = pc[u] /\ frame'[u] = frame[u]
    BY <2>1, <2>2, ContinueFrame
  <2>4. EndOK(frame'[t], pc'[t], t, held'[t])
    <3>1. frame'[t].ret = "app" /\ frame'[t].arg = frame[t].arg
      BY <2>3
    <3>2. EndOK(frame[t], pc[t], t, held[t])
      BY DEF HeldInv, EndersHold
    <3> QED BY <2>2, <2>3, <3>1, <3>2 DEF EndOK
  <2>5. EndersHold'
    BY <2>2, <2>3, <2>4 DEF HeldInv, EndersHold
  <2>6. BusyInUse' /\ EndedHolds'
    BY <1>0, <1>1, <2>1 DEF HeldInv, BusyInUse, EndedHolds
  <2>7. BusyMeansHeld'
    BY <2>1, <2>2, HolderKept DEF HeldInv, Alive
  <2> QED BY <2>5, <2>6, <2>7 DEF HeldInv
<1>5. CASE EnterTooDeep(t)
  <2>1. /\ UNCHANGED <<status, semValue, semInUse, pc, frame, held, curThreadID>>
        /\ cpu' = "stopping" /\ ~CanEnter
        /\ pc[t] \in {"app", "kill", "killSignal", "killSignal2", "add", "addSignal"}
    BY <1>5 DEF EnterTooDeep, AppCall, InThread, threadVars, semVars, schedVars,
       appVars
  <2>2. pc[t] = "app"
    <3>1. iCriticalSection = depth[t]
      BY <1>0 DEF CriticalInv, CriticalBalanced
    <3>2. depth[t] # 0
      BY <2>1, <3>1, ConstantsAssumption DEF CanEnter
    <3> QED BY <2>1, <3>2 DEF CriticalInv, InsideInApp, TypeInv, TypeOK, StacksTyped
  <2>3. status[t] = "CURRENT"
    BY <1>1, <2>2
  <2>4. \A u \in Threads : Alive(u) => Alive(u)'
    BY <1>0, <2>1, <2>3 DEF Alive
  <2>5. EndedHolds'
    BY <2>1 DEF EndedHolds
  <2> QED BY <2>1, <2>4, <2>5, HeldSame
<1>6. CASE KillBody(t)
  <2> DEFINE v == frame[t].arg
  <2>1. /\ v \in Threads /\ pc[t] = "kill"
        /\ status' = [status EXCEPT ![v] = "TERMINATED"]
        /\ UNCHANGED <<semValue, semInUse, curThreadID>>
        /\ DropFrames(t, v)
        /\ v = t \/ held[v] = {}
    <3>1. v \in Threads
      BY <1>6 DEF KillBody, InThread, TypeInv, FramesOK, FrameOK, Threads
    <3> QED BY <1>6, <3>1 DEF KillBody, InThread, globalVars, SparesHolders
  <2>2. cpu' \in {cpu, "undefined"}
    BY <1>6 DEF KillBody, KillWaiting
  <2>3. v = t => UNCHANGED cpu
    BY <1>6 DEF KillBody
  <2>4. EndOK(frame[t], pc[t], t, held[t])
    BY DEF HeldInv, EndersHold
  <2>5. v = t => held[t] \subseteq {semaCRunTimeLib}
    BY <2>1, <2>4 DEF EndOK
  <2> HIDE DEF v
  <2>6. Only(v, "TERMINATED")
    BY <2>1, OnlyHolds DEF TypeInv, TypeOK
  <2>7. \A u \in Threads :
          /\ held'[u] = held[u]
          /\ \/ pc'[u] = "app" /\ frame'[u] = NoFrame /\ held[u] = {} /\ u # t
             \/ pc'[u] = (IF u = t THEN "killSignal" ELSE pc[u]) /\ frame'[u] = frame[u]
    BY <2>1 DEF DropFrames, TypeInv, TypeOK, StacksTyped
  <2>8. EndersHold'
    <3>1. EndOK(frame[t], "killSignal", t, held[t])
      BY <2>1, <2>4 DEF EndOK
    <3> QED BY <2>7, <3>1, NoFrameEnds DEF HeldInv, EndersHold
  <2>9. BusyInUse'
    BY <2>1 DEF HeldInv, BusyInUse
  <2>10. EndedHolds'
    <3>1. status[t] = "CURRENT"
      BY <1>1, <2>1
    <3>2. SUFFICES ASSUME status'[t] = "TERMINATED" PROVE EndedOK(pc'[t], held'[t])
      BY <1>0, <2>1, <2>6, <3>1 DEF EndedHolds, Only
    <3>3. v = t
      BY <2>6, <3>1, <3>2 DEF Only
    <3> QED BY <2>5, <2>7, <3>3 DEF EndedOK
  <2>11. BusyMeansHeld'
    <3>1. status[t] = "CURRENT"
      BY <1>1, <2>1
    <3>2. \A u \in Threads : Alive(u) /\ held[u] # {} => Alive(u)'
      BY <1>0, <2>1, <2>3, <2>6, <3>1 DEF Alive, Only
    <3> QED BY <2>1, <2>7, <3>2, HolderKept DEF HeldInv
  <2> QED BY <2>8, <2>9, <2>10, <2>11 DEF HeldInv
<1>7. CASE KillSignal(t) \/ KillSignalAgain(t) \/ AddSignal(t)
  <2>1. PICK k \in {"killGo", "app"} :
          /\ MTSignal(t, semaCRunTimeLib, k)
          /\ \/ k = "killGo" /\ pc[t] = "killSignal"
             \/ k = "app" /\ pc[t] \in {"killSignal2", "addSignal"}
    BY <1>7 DEF KillSignal, KillSignalAgain, AddSignal, InThread
  <2> QED BY <1>0, <1>1, <1>2, <2>1, SignalHeld
<1>8. CASE KillLeave(t) \/ AddFails(t) \/ KillRefused(t) \/ LeaveDos(t)
  <2>1. /\ UNCHANGED <<status, semValue, semInUse, frame, held, cpu, curThreadID>>
        /\ \E l \in {"killSignal2", "addSignal", "app"} : pc' = [pc EXCEPT ![t] = l]
        /\ pc[t] \in {"killLeave", "add", "kill", "dos"}
    BY <1>8 DEF KillLeave, AddFails, KillRefused, LeaveDos, InThread, threadVars,
       semVars, globalVars
  <2>2. /\ pc'[t] \in {"killSignal2", "addSignal", "app"}
        /\ \A u \in Threads : u # t => pc'[u] = pc[u]
    BY <2>1 DEF TypeInv, TypeOK, StacksTyped
  <2>3. EndOK(frame'[t], pc'[t], t, held'[t])
    <3>1. EndOK(frame[t], pc[t], t, held[t])
      BY DEF HeldInv, EndersHold
    <3> QED BY <2>1, <2>2, <3>1 DEF EndOK
  <2>4. EndersHold'
    BY <2>1, <2>2, <2>3 DEF HeldInv, EndersHold
  <2>5. BusyInUse' /\ EndedHolds' /\ BusyMeansHeld'
    BY <1>0, <1>1, <2>1, HolderKept DEF HeldInv, BusyInUse, EndedHolds, Alive
  <2> QED BY <2>4, <2>5 DEF HeldInv
<1>9. CASE AddBody(t)
  <2>1. PICK slot \in FirstSlots :
          /\ NewThread(slot, frame[t].arg)
          /\ pc' = [pc EXCEPT ![t] = "addSignal", ![slot] = "app"]
          /\ frame' = [frame EXCEPT ![slot] = NoFrame]
          /\ cpu' = IF slot \in ToSet(sleepQ) THEN "undefined" ELSE cpu
    BY <1>9 DEF AddBody
  <2>2. UNCHANGED <<semValue, semInUse, curThreadID>> /\ pc[t] = "add"
    BY <1>9 DEF AddBody, InThread, semVars, globalVars
  <2>3. status[t] = "CURRENT"
    BY <1>1, <2>2
  <2>4. /\ slot \in Threads /\ slot # t /\ ~Alive(slot)
        /\ status' = [status EXCEPT ![slot] = "READY"]
        /\ held' = [held EXCEPT ![slot] = {}]
    BY <1>0, <2>1, <2>3 DEF FirstSlots, UsableSlots, NewThread, Alive
  <2>5. Only(slot, "READY")
    BY <2>4, OnlyHolds DEF TypeInv, TypeOK
  <2>6. /\ pc'[slot] = "app" /\ frame'[slot] = NoFrame /\ held'[slot] = {}
        /\ pc'[t] = "addSignal" /\ frame'[t] = frame[t] /\ held'[t] = held[t]
        /\ \A u \in Threads : u \notin {slot, t} =>
             pc'[u] = pc[u] /\ frame'[u] = frame[u] /\ held'[u] = held[u]
    BY <2>1, <2>4 DEF TypeInv, TypeOK, StacksTyped
  <2>7. EndersHold'
    <3>1. EndOK(frame[t], pc[t], t, held[t])
      BY DEF HeldInv, EndersHold
    <3>2. EndOK(frame'[t], pc'[t], t, held'[t])
      BY <2>2, <2>6, <3>1 DEF EndOK
    <3>3. EndOK(frame'[slot], pc'[slot], slot, held'[slot])
      BY <2>6, NoFrameEnds
    <3> QED BY <2>6, <3>2, <3>3 DEF HeldInv, EndersHold
  <2>8. BusyInUse' /\ EndedHolds'
    BY <1>0, <2>2, <2>3, <2>4, <2>5 DEF HeldInv, BusyInUse, EndedHolds, Only
  <2>9. BusyMeansHeld'
    <3>1. \A u \in Threads : Alive(u) => u # slot /\ Alive(u)'
      BY <1>0, <2>2, <2>3, <2>4, <2>5 DEF Alive, Only
    <3>2. \A u \in Threads : u # slot => held'[u] = held[u]
      BY <2>6
    <3> QED BY <2>2, <3>1, <3>2, HolderKept DEF HeldInv
  <2> QED BY <2>7, <2>8, <2>9 DEF HeldInv
<1> QED BY <1>3, <1>4, <1>5, <1>6, <1>7, <1>8, <1>9 DEF Kernel

LEMMA HeldMain == TypeInv /\ SchedInv /\ HeldInv /\ Main => HeldInv'
<1> SUFFICES ASSUME TypeInv, HeldInv, Main PROVE HeldInv'
  OBVIOUS
<1>1. CASE MTInitialise \/ TidyUp
  <2>1. /\ cpu' = "main"
        /\ \A s \in Semaphores : semValue'[s] = 0
    BY <1>1 DEF MTInitialise, TidyUp
  <2>2. EndersHold'
    <3>1. CASE MTInitialise
      BY <3>1 DEF MTInitialise, appVars, HeldInv, EndersHold
    <3>2. CASE TidyUp
      BY <3>2, NoFrameEnds DEF TidyUp, EndersHold
    <3> QED BY <1>1, <3>1, <3>2
  <2> QED BY <2>1, <2>2 DEF HeldInv, BusyInUse, EndedHolds, BusyMeansHeld
<1>2. CASE MTSetPreemptive \/ MTStartMultiThreading
  <2>1. /\ UNCHANGED <<status, semValue, semInUse, pc, frame, held>>
        /\ cpu = "main" /\ cpu' \in {"main", "sched"}
    BY <1>2 DEF MTSetPreemptive, MTStartMultiThreading, threadVars, semVars, appVars
  <2>2. \A u \in Threads : Alive(u) => Alive(u)'
    BY <2>1 DEF Alive
  <2>3. EndedHolds'
    BY <2>1 DEF EndedHolds
  <2> QED BY <2>1, <2>2, <2>3, HeldSame
<1>3. CASE MainCreateSema \/ MainDestroySema
  <2>1. /\ UNCHANGED <<status, semValue, pc, frame, held>>
        /\ cpu = "main" /\ UNCHANGED cpu
        /\ \A s \in Semaphores : semInUse[s] => semInUse'[s] \/ semValue[s] = 0
    BY <1>3 DEF MainCreateSema, CreateSema, MainDestroySema, DestroySema, threadVars, appVars, TypeInv, TypeOK,
       SemasTyped
  <2>2. BusyInUse' /\ EndersHold' /\ EndedHolds'
    BY <2>1 DEF HeldInv, BusyInUse, EndersHold, EndedHolds
  <2>3. BusyMeansHeld'
    BY <2>1, HolderKept DEF HeldInv, Alive
  <2> QED BY <2>2, <2>3 DEF HeldInv
<1>4. CASE MainAddNewThread
  <2>1. PICK slot \in FirstSlots, p \in AppPriorities :
          /\ NewThread(slot, p)
          /\ pc' = [pc EXCEPT ![slot] = "app"]
          /\ frame' = [frame EXCEPT ![slot] = NoFrame]
    BY <1>4 DEF MainAddNewThread
  <2>2. UNCHANGED <<semValue, semInUse, cpu>> /\ cpu = "main"
    BY <1>4 DEF MainAddNewThread, semVars
  <2>3. /\ slot \in Threads /\ ~Alive(slot)
        /\ status' = [status EXCEPT ![slot] = "READY"]
        /\ held' = [held EXCEPT ![slot] = {}]
    BY <2>1, <2>2 DEF FirstSlots, UsableSlots, NewThread, Alive
  <2>4. Only(slot, "READY")
    BY <2>3, OnlyHolds DEF TypeInv, TypeOK
  <2>5. /\ pc'[slot] = "app" /\ frame'[slot] = NoFrame /\ held'[slot] = {}
        /\ \A u \in Threads : u # slot =>
             pc'[u] = pc[u] /\ frame'[u] = frame[u] /\ held'[u] = held[u]
    BY <2>1, <2>3 DEF TypeInv, TypeOK, StacksTyped
  <2>6. EndersHold'
    BY <2>5, NoFrameEnds DEF HeldInv, EndersHold
  <2>7. BusyInUse' /\ EndedHolds'
    BY <2>2 DEF HeldInv, BusyInUse, EndedHolds
  <2>8. BusyMeansHeld'
    <3>1. \A u \in Threads : Alive(u) => u # slot /\ Alive(u)'
      BY <2>2, <2>3, <2>4 DEF Alive, Only
    <3> QED BY <2>2, <2>5, <3>1, HolderKept DEF HeldInv
  <2> QED BY <2>6, <2>7, <2>8 DEF HeldInv
<1> QED BY <1>1, <1>2, <1>3, <1>4 DEF Main

LEMMA HeldScheduler == TypeInv /\ SchedInv /\ HeldInv /\ Scheduler => HeldInv'
<1> SUFFICES ASSUME TypeInv, SchedInv, HeldInv, Scheduler PROVE HeldInv'
  OBVIOUS
<1>1. /\ cpu \in InScheduler
      /\ UNCHANGED <<semValue, semInUse, pc, frame, held>>
  BY DEF Scheduler, SchedulerTop, WakeUpSleepingThread, SleepersWoken, Dispatch,
     IdleTurn, Deadlocked, StopMultiThreading, InScheduler, semVars, appVars
<1>2. Placed
  BY <1>1 DEF SchedInv, PlacedInv, RunInv, InScheduler
<1>3. CASE Dispatch
  <2>1. curThreadID' \in Threads /\ Only(curThreadID', "CURRENT")
    BY <1>2, <1>3, NoneAway, DispatchPlaced
  <2>2. \A u \in Threads : Alive(u) => Alive(u)'
    BY <1>1, <2>1 DEF Alive, Only, InScheduler
  <2>3. EndedHolds'
    BY <2>1 DEF EndedHolds, Only
  <2> QED BY <1>1, <2>2, <2>3, HeldSame
<1>4. CASE ~Dispatch
  <2>1. cpu' # "thread"
    BY <1>4 DEF Scheduler, SchedulerTop, WakeUpSleepingThread, SleepersWoken,
       IdleTurn, Deadlocked, StopMultiThreading
  <2>2. \A u \in Threads : status'[u] \in {status[u], "READY"}
                           /\ (status[u] \in {"INVALID", "TERMINATED"} =>
                                 status'[u] = status[u])
    <3>1. CASE WakeUpSleepingThread
      <4>1. sleepQ # <<>> /\ status' = [status EXCEPT ![Head(sleepQ)] = "READY"]
        BY <3>1 DEF WakeUpSleepingThread, SleeperDue
      <4>2. sleepQ \in Seq(Threads)
        BY DEF TypeInv, TypeOK, QueuesTyped
      <4>3. Head(sleepQ) \in Threads /\ Head(sleepQ) \in ToSet(sleepQ)
        BY <4>1, <4>2, TailSet
      <4>4. status[Head(sleepQ)] = "SLEEPING"
        BY <1>2, <4>3 DEF Placed, SleepDiscipline
      <4> QED BY <4>1, <4>4 DEF TypeInv, TypeOK, ThreadsTyped
    <3>2. CASE SchedulerTop
      BY <3>2 DEF SchedulerTop, RunsOn, TypeInv, TypeOK, ThreadsTyped
    <3>3. CASE ~WakeUpSleepingThread /\ ~SchedulerTop
      BY <1>4, <3>3 DEF Scheduler, SleepersWoken, IdleTurn, Deadlocked,
         StopMultiThreading, threadVars
    <3> QED BY <3>1, <3>2, <3>3
  <2>3. \A u \in Threads : Alive(u) => Alive(u)'
    BY <1>1, <2>2 DEF Alive, InScheduler
  <2>4. EndedHolds'
    BY <2>1 DEF EndedHolds
  <2> QED BY <1>1, <2>3, <2>4, HeldSame
<1> QED BY <1>3, <1>4

\* The timer takes no thread that is ending itself off its stack: its slot no longer
\* names the stack it runs on.
LEMMA HeldInterrupt ==
  TypeInv /\ SchedInv /\ HeldInv /\ (TimerTick \/ TimerPreempt \/ CtrlBreak)
    => HeldInv'
<1> SUFFICES ASSUME TypeInv, SchedInv, HeldInv,
                    TimerTick \/ TimerPreempt \/ CtrlBreak
             PROVE  HeldInv'
  OBVIOUS
<1>1. UNCHANGED <<status, semValue, semInUse, pc, frame, held, curThreadID>>
  BY DEF TimerTick, TimerPreempt, CtrlBreak, threadVars, semVars, appVars
<1>2. CASE TimerTick \/ CtrlBreak
  <2>1. UNCHANGED cpu
    BY <1>2 DEF TimerTick, CtrlBreak
  <2>2. EndedHolds'
    BY <1>1, <2>1 DEF HeldInv, EndedHolds
  <2> QED BY <1>1, <2>1, <2>2, HeldSame DEF Alive
<1>3. CASE TimerPreempt
  <2>1. cpu = "thread" /\ cpu' = "sched" /\ ownStack[curThreadID]
    BY <1>3 DEF TimerPreempt, Preemptible
  <2>2. \A u \in Threads : u = curThreadID =>
                             status[u] \notin {"INVALID", "TERMINATED"}
    BY <2>1 DEF SchedInv, PlacedInv, RunInv, Placed, StacksOwned
  <2>3. \A u \in Threads : Alive(u) => Alive(u)'
    BY <1>1, <2>1, <2>2 DEF Alive
  <2>4. EndedHolds'
    BY <2>1 DEF EndedHolds
  <2> QED BY <1>1, <2>3, <2>4, HeldSame
<1> QED BY <1>2, <1>3

LEMMA HeldNext ==
  TypeInv /\ SchedInv /\ CriticalInv /\ HeldInv /\ [Next]_vars /\ [SparesHolders]_vars
    => HeldInv'
<1> SUFFICES ASSUME TypeInv, SchedInv, CriticalInv, HeldInv, [Next]_vars,
                    [SparesHolders]_vars
             PROVE  HeldInv'
  OBVIOUS
<1>1. CASE UNCHANGED vars
  <2>1. UNCHANGED <<status, semValue, semInUse, pc, frame, held, cpu, curThreadID>>
    BY <1>1 DEF vars, threadVars, semVars, globalVars, appVars
  <2> QED BY <2>1, HeldSame DEF Alive, HeldInv, EndedHolds
<1>2. CASE Next /\ SparesHolders
  BY <1>2, HeldMain, HeldApplication, HeldKernel, HeldScheduler,
     HeldInterrupt DEF Next
<1> QED BY <1>1, <1>2

\* As long as no thread is killed in its sleep or while it holds a semaphore, a busy
\* semaphore has a holder that can still signal it: neither a preemption, nor a wait
\* that gives the processor away, nor a thread's own end locks one for ever.
THEOREM SemaphoresHeld ==
  Spec /\ NoSleeperKilled /\ NoHolderKilled => []BusyMeansHeld
<1>1. HeldInv => BusyMeansHeld
  BY DEF HeldInv
<1> QED BY <1>1, HeldInit, HeldNext, SchedCorrect, CriticalCorrect, TypeCorrect, PTL
        DEF Spec, NoHolderKilled

\* That is so in every application whose threads end only themselves, as the rules of
\* MTEndThread ask: with nothing held.
COROLLARY SemaphoresHeldByCalls ==
  ASSUME "KillThread" \notin Calls
  PROVE  Spec => []BusyMeansHeld
<1>1. TypeInv /\ OwnKills => SparesHolders
  BY DEF OwnKills, OwnKill, SparesHolders, KillBody, InThread
<1>2. TypeInv /\ SchedInv /\ CriticalInv /\ OwnKills /\ HeldInv /\ [Next]_vars
        => HeldInv'
  BY <1>1, HeldNext
<1>3. HeldInv => BusyMeansHeld
  BY DEF HeldInv
<1> QED BY <1>2, <1>3, HeldInit, SchedByCalls, CriticalCorrect, TypeCorrect, PTL
        DEF Spec
=============================================================================

---------------------------- MODULE MicroThread ----------------------------
(***************************************************************************)
(* The MicroThread kernel of dos/mthread.c: threads, priorities, binary    *)
(* semaphores, critical sections, sleeping, killing, and the scheduler     *)
(* that the timer interrupt or a thread's own call enters.                 *)
(*                                                                         *)
(* Thread 0 is the scheduler, so 0 is the null thread, as in the code.     *)
(* The intrusive prevID/nextID queues are sequences here; module           *)
(* ThreadQueues models the links.  A step of a thread ends where another   *)
(* thread, the timer or Ctrl-Break can be observed: at iCriticalSection=0  *)
(* between two calls, and around each GotoScheduler.                       *)
(***************************************************************************)
EXTENDS Naturals, Sequences, SequencesExt

CONSTANTS
  NThreads,              \* MAX_THREADS - 1: slots for application threads
  NSemas,                \* MAX_SEMAPHORES - 1
  MAX_CRITICAL_NESTING,  \* 64000 in the code
  ClockMod,              \* clockTick is an unsigned long: 2^32 values
  MaxClock,              \* bound: ticks after which the model's clock stops
  SleepTicks,            \* arguments the application passes to MTSleep
  AppPriorities,         \* priorities the application gives its threads
  Calls                  \* the calls the application makes

AllCalls == {"Wait", "Signal", "TestAndSet", "Yield", "Sleep", "Enter",
             "EndThread", "KillThread", "AddThread", "EndMT", "CreateSema",
             "DestroySema", "SetPreemptive", "CtrlBreak", "Dos"}

ASSUME ConstantsAssumption ==
  /\ NThreads \in Nat \ {0}
  /\ NSemas \in Nat \ {0}
  /\ MAX_CRITICAL_NESTING \in Nat \ {0, 1}
  /\ ClockMod \in Nat \ {0}
  /\ MaxClock \in Nat /\ MaxClock < ClockMod
  /\ SleepTicks \subseteq Nat
  /\ AppPriorities \subseteq 1..5
  /\ Calls \subseteq AllCalls

Threads    == 1..NThreads
Semaphores == 1..NSemas
Priorities == 1..5

\* MTInitialise creates the C runtime semaphore first, so it gets the first id.
semaCRunTimeLib == 1

ThreadStatus == {"INVALID", "CURRENT", "READY", "WAITING", "SLEEPING",
                 "TERMINATED"}
MTReturnCode == {"NORMAL", "DEADLOCKED", "CTRLBREAK", "NOT_INITIALISED",
                 "TOO_DEEP_CRITICAL_NEST"}

\* Where a thread is in the call it makes: in its own code, in DOS, before or after a
\* GotoScheduler, or between the calls that MTKillThread and MTAddNewThread make.
Labels == {"app", "dos", "go", "leave", "kill", "killSignal", "killGo", "killLeave",
           "killSignal2", "add", "addSignal"}
Frame  == [resume : Labels,            \* label after GotoScheduler returns
           ret    : Labels \ {"dos"},  \* label after MTWait/MTSignal returns
           acq    : 0..NSemas,         \* semaphore a blocked MTWait is for
           arg    : Nat]               \* thread to kill or priority to give
NoFrame == [resume |-> "app", ret |-> "app", acq |-> 0, arg |-> 0]

\* On which stack the processor runs: the caller of MTStartMultiThreading, a
\* thread, TheScheduler (at its top, in WakeUpSleepingThreads, or past it),
\* StopMultiThreading; "undefined" once a freed stack or a broken link is used.
InScheduler == {"sched", "wake", "choose"}
Cpu == {"main", "thread", "stopping", "undefined"} \union InScheduler

VARIABLES
  status, priority, semaphore, wakeUpTime, ownStack,      \* threads[]
  readyQ, sleepQ,                                         \* thread queues
  semValue, semInUse, semQ,                               \* semaphores[]
  curThreadID, iCriticalSection, bMultiThreading, bMTInitialised,
  bMTPreemptive, bCtrlBreak, returnCode, clockTick, priorityIdx,
  cpu, pc, frame,                                         \* stacks
  held, depth        \* what each thread has waited for / entered, by itself

threadVars == <<status, priority, semaphore, wakeUpTime, ownStack>>
queueVars  == <<readyQ, sleepQ>>
semVars    == <<semValue, semInUse, semQ>>
modeVars   == <<bMTInitialised, bMTPreemptive>>
stopVars   == <<bMultiThreading, bCtrlBreak, returnCode>>
schedVars  == <<clockTick, priorityIdx>>
globalVars == <<modeVars, stopVars, schedVars, curThreadID>>
appVars    == <<pc, frame, held, depth>>
vars == <<threadVars, queueVars, semVars, globalVars, iCriticalSection, cpu,
          appVars>>

ThreadsTyped ==
  /\ status     \in [Threads -> ThreadStatus]
  /\ priority   \in [Threads -> Priorities]
  /\ semaphore  \in [Threads -> 0..NSemas]
  /\ wakeUpTime \in [Threads -> 0..ClockMod-1]
  /\ ownStack   \in [Threads -> BOOLEAN]
QueuesTyped ==
  /\ readyQ     \in [Priorities -> Seq(Threads)]
  /\ sleepQ     \in Seq(Threads)
  /\ semQ       \in [Semaphores -> Seq(Threads)]
SemasTyped ==
  /\ semValue   \in [Semaphores -> {0, 1}]
  /\ semInUse   \in [Semaphores -> BOOLEAN]
GlobalsTyped ==
  /\ curThreadID \in 0..NThreads
  /\ iCriticalSection \in 0..MAX_CRITICAL_NESTING
  /\ bMultiThreading \in BOOLEAN
  /\ bMTInitialised  \in BOOLEAN
  /\ bMTPreemptive   \in BOOLEAN
  /\ bCtrlBreak      \in BOOLEAN
  /\ returnCode  \in MTReturnCode
  /\ clockTick   \in 0..ClockMod-1
  /\ priorityIdx \in 0..15
  /\ cpu \in Cpu
StacksTyped ==
  /\ pc    \in [Threads -> Labels]
  /\ frame \in [Threads -> Frame]
  /\ held  \in [Threads -> SUBSET Semaphores]
  /\ depth \in [Threads -> Nat]

TypeOK == ThreadsTyped /\ QueuesTyped /\ SemasTyped /\ GlobalsTyped /\ StacksTyped

-----------------------------------------------------------------------------
(* The static initialisers, before any call.                               *)

Init ==
  /\ status = [t \in Threads |-> "INVALID"]
  /\ priority = [t \in Threads |-> 1]
  /\ semaphore = [t \in Threads |-> 0]
  /\ wakeUpTime = [t \in Threads |-> 0]
  /\ ownStack = [t \in Threads |-> FALSE]
  /\ readyQ = [p \in Priorities |-> <<>>]
  /\ sleepQ = <<>>
  /\ semValue = [s \in Semaphores |-> 0]
  /\ semInUse = [s \in Semaphores |-> FALSE]
  /\ semQ = [s \in Semaphores |-> <<>>]
  /\ curThreadID = 0
  /\ iCriticalSection = 0
  /\ bMultiThreading = FALSE
  /\ bMTInitialised = FALSE
  /\ bMTPreemptive = TRUE
  /\ bCtrlBreak = FALSE
  /\ returnCode = "NORMAL"
  /\ clockTick = 0
  /\ priorityIdx = 15
  /\ cpu = "main"
  /\ pc = [t \in Threads |-> "app"]
  /\ frame = [t \in Threads |-> NoFrame]
  /\ held = [t \in Threads |-> {}]
  /\ depth = [t \in Threads |-> 0]

(* Helpers: queues and critical sections.                                  *)

\* EnqueueReady on a ready-queue table: join the back of the thread's priority.
EnqueueReady(rq, t, p) == [rq EXCEPT ![p] = Append(@, t)]

\* ExtractThread: take t out of a queue that holds it.
ExtractThread(q, t) == RemoveAt(q, CHOOSE i \in DOMAIN q : q[i] = t)

\* MTEnterCritical; MTLeaveCritical around a step: the count must not hit the
\* limit on entry, where MTEnterCritical stops multi-threading instead.
CanEnter == iCriticalSection + 1 < MAX_CRITICAL_NESTING

\* Variant: the count is not tested before it is decremented.
DecrementedUntested(n) == n - 1
\* The trailing MTLeaveCritical that a resumed MTWait or MTSignal runs.
Decremented(n) == IF n > 0 THEN n - 1 ELSE 0

\* The slots MTAddNewThread may use; it takes the first.
UsableSlots == {t \in Threads : status[t] \in {"INVALID", "TERMINATED"}}
FirstSlots  == {t \in UsableSlots : \A u \in UsableSlots : t <= u}

\* Thread t executes and is at label l.
InThread(t, l) == cpu = "thread" /\ curThreadID = t /\ pc[t] = l

NonYielding == {"Enter", "TestAndSet", "CreateSema", "DestroySema", "Dos"}

\* The application code of thread t makes call c.  Inside a critical section it
\* makes none that gives the processor away ("Go to single-threading mode").
AppCall(t, c) ==
  /\ InThread(t, "app")
  /\ c \in Calls
  /\ depth[t] = 0 \/ c \in NonYielding
-----------------------------------------------------------------------------
(* Calls of the main program, before multi-threading starts.               *)

\* Variant: the sleep queue is left as TidyUp leaves it.
KeepSleepQ == UNCHANGED sleepQ
\* TidyUp does not empty the sleep queue: the next MTInitialise does.
ResetSleepQ == sleepQ' = <<>>

MTInitialise ==
  /\ cpu = "main" /\ ~bMTInitialised
  /\ bMTInitialised' = TRUE
  /\ bMTPreemptive' = TRUE
  /\ bMultiThreading' = FALSE /\ bCtrlBreak' = FALSE /\ returnCode' = "NORMAL"
  /\ curThreadID' = 0 /\ iCriticalSection' = 0 /\ clockTick' = 0
  /\ status' = [t \in Threads |-> "INVALID"]
  /\ semaphore' = [t \in Threads |-> 0]
  /\ ownStack' = [t \in Threads |-> FALSE]
  /\ readyQ' = [p \in Priorities |-> <<>>]
  /\ ResetSleepQ
  /\ semValue' = [s \in Semaphores |-> 0]
  /\ semInUse' = [s \in Semaphores |-> s = semaCRunTimeLib]
  /\ semQ' = [s \in Semaphores |-> <<>>]
  /\ UNCHANGED <<priority, wakeUpTime, priorityIdx, cpu, appVars>>

MTSetPreemptive ==
  /\ cpu = "main" /\ "SetPreemptive" \in Calls
  /\ \E b \in BOOLEAN : bMTPreemptive' = b
  /\ UNCHANGED <<threadVars, queueVars, semVars, stopVars, schedVars,
                 bMTInitialised, curThreadID, iCriticalSection, cpu, appVars>>

\* What MTAddNewThread does once it has found slot t.
NewThread(t, p) ==
  /\ status' = [status EXCEPT ![t] = "READY"]
  /\ priority' = [priority EXCEPT ![t] = p]
  /\ ownStack' = [ownStack EXCEPT ![t] = TRUE]
  /\ readyQ' = EnqueueReady(readyQ, t, p)
  /\ held' = [held EXCEPT ![t] = {}]
  /\ depth' = [depth EXCEPT ![t] = 0]
  /\ UNCHANGED <<semaphore, wakeUpTime, sleepQ>>

\* MTAddNewThread before the start: its MTWait and MTSignal do nothing.
MainAddNewThread ==
  /\ cpu = "main" /\ bMTInitialised
  /\ \E slot \in FirstSlots, p \in AppPriorities :
       /\ NewThread(slot, p)
       /\ pc' = [pc EXCEPT ![slot] = "app"]
       /\ frame' = [frame EXCEPT ![slot] = NoFrame]
  /\ UNCHANGED <<semVars, globalVars, iCriticalSection, cpu>>

\* MTCreateSema takes the first semaphore not in use.
CreateSema ==
  \E s \in Semaphores :
    /\ ~semInUse[s] /\ \A r \in 1..s-1 : semInUse[r]
    /\ semInUse' = [semInUse EXCEPT ![s] = TRUE]

\* MTDestroySema refuses a semaphore whose value is not 0.
DestroySema ==
  \E s \in Semaphores :
    /\ semInUse[s] /\ semValue[s] = 0
    /\ semInUse' = [semInUse EXCEPT ![s] = FALSE]

MainCreateSema ==
  /\ cpu = "main" /\ bMTInitialised
  /\ CreateSema
  /\ UNCHANGED <<threadVars, queueVars, semValue, semQ, globalVars,
                 iCriticalSection, cpu, appVars>>

MainDestroySema ==
  /\ cpu = "main" /\ "DestroySema" \in Calls
  /\ DestroySema
  /\ UNCHANGED <<threadVars, queueVars, semValue, semQ, globalVars,
                 iCriticalSection, cpu, appVars>>

MTStartMultiThreading ==
  /\ cpu = "main" /\ bMTInitialised /\ ~bMultiThreading
  /\ bMultiThreading' = TRUE
  /\ returnCode' = "NORMAL"
  /\ cpu' = "sched"
  /\ UNCHANGED <<threadVars, queueVars, semVars, modeVars, bCtrlBreak,
                 schedVars, curThreadID, iCriticalSection, appVars>>

\* The rest of MTStartMultiThreading once StopMultiThreading has put the
\* original stack back: TidyUp.  It leaves the sleep queue as it is.
TidyUp ==
  /\ cpu = "stopping"
  /\ cpu' = "main"
  /\ status' = [t \in Threads |-> "INVALID"]
  /\ semaphore' = [t \in Threads |-> 0]
  /\ ownStack' = [t \in Threads |-> FALSE]
  /\ readyQ' = [p \in Priorities |-> <<>>]
  /\ semValue' = [s \in Semaphores |-> 0]
  /\ semInUse' = [s \in Semaphores |-> FALSE]
  /\ semQ' = [s \in Semaphores |-> <<>>]
  /\ curThreadID' = 0 /\ iCriticalSection' = 0
  /\ bMultiThreading' = FALSE /\ bMTInitialised' = FALSE /\ bCtrlBreak' = FALSE
  /\ pc' = [t \in Threads |-> "app"]
  /\ frame' = [t \in Threads |-> NoFrame]
  /\ held' = [t \in Threads |-> {}]
  /\ depth' = [t \in Threads |-> 0]
  /\ UNCHANGED <<priority, wakeUpTime, sleepQ, bMTPreemptive, returnCode,
                 schedVars>>
-----------------------------------------------------------------------------
(* Primitives a running thread executes.  k is the label their caller       *)
(* continues at, a the operand it keeps.                                    *)

Continue(t, k, a) ==
  /\ pc' = [pc EXCEPT ![t] = k]
  /\ frame' = [frame EXCEPT ![t] = [NoFrame EXCEPT !.arg = a]]

\* Leave the processor with GotoScheduler: resume at r, then return to k.
Suspend(t, r, k, s, a) ==
  /\ pc' = [pc EXCEPT ![t] = "go"]
  /\ frame' = [frame EXCEPT
       ![t] = [resume |-> r, ret |-> k, acq |-> s, arg |-> a]]

\* MTWait on a free semaphore takes it.
WaitFree(t, s, k, a) ==
  /\ semInUse[s] /\ semValue[s] = 0
  /\ semValue' = [semValue EXCEPT ![s] = 1]
  /\ semaphore' = [semaphore EXCEPT ![t] = s]
  /\ held' = [held EXCEPT ![t] = @ \union {s}]
  /\ Continue(t, k, a)
  /\ UNCHANGED <<status, semQ>>

\* MTWait on a busy semaphore joins the back of its queue.
WaitBusy(t, s, k, a) ==
  /\ semInUse[s] /\ semValue[s] > 0
  /\ semaphore' = [semaphore EXCEPT ![t] = s]
  /\ status' = [status EXCEPT ![t] = "WAITING"]
  /\ semQ' = [semQ EXCEPT ![s] = Append(@, t)]
  /\ Suspend(t, "leave", k, s, a)
  /\ UNCHANGED <<semValue, held>>

WaitUnused(t, s, k, a) ==
  /\ ~semInUse[s]
  /\ Continue(t, k, a)
  /\ UNCHANGED <<status, semaphore, semValue, semQ, held>>

\* Variant: a MTWait that does not block forgets its MTLeaveCritical.
WaitCriticalLeaks(s) ==
  iCriticalSection' = iCriticalSection + (IF semValue[s] = 0 THEN 1 ELSE 0)
\* Each MTEnterCritical of a MTWait meets one MTLeaveCritical before it returns
\* or yields.
WaitCritical(s) == UNCHANGED iCriticalSection

MTWait(t, s, k, a) ==
  /\ CanEnter
  /\ WaitFree(t, s, k, a) \/ WaitBusy(t, s, k, a) \/ WaitUnused(t, s, k, a)
  /\ WaitCritical(s)
  /\ UNCHANGED <<priority, wakeUpTime, ownStack, queueVars, semInUse,
                 globalVars, cpu, depth>>

\* WakeUpThreads: the first waiter becomes READY.
WakeUpThreads(s) ==
  IF semQ[s] = <<>>
  THEN UNCHANGED <<status, semaphore, readyQ, semQ>>
  ELSE LET t == Head(semQ[s]) IN
       /\ semQ' = [semQ EXCEPT ![s] = Tail(@)]
       /\ status' = [status EXCEPT ![t] = "READY"]
       /\ semaphore' = [semaphore EXCEPT ![t] = 0]
       /\ readyQ' = EnqueueReady(readyQ, t, priority[t])

MTSignal(t, s, k) ==
  /\ CanEnter
  /\ held' = [held EXCEPT ![t] = @ \ {s}]
  /\ IF semInUse[s] /\ semValue[s] > 0
     THEN /\ semValue' = [semValue EXCEPT ![s] = 0]
          /\ WakeUpThreads(s)
     ELSE UNCHANGED <<semValue, status, semaphore, readyQ, semQ>>
  /\ IF semInUse[s]
     THEN Suspend(t, "leave", k, 0, 0)
     ELSE Continue(t, k, 0)
  /\ UNCHANGED <<priority, wakeUpTime, ownStack, sleepQ, semInUse, globalVars,
                 iCriticalSection, cpu, depth>>

\* GotoScheduler: save the thread's stack and continue on the scheduler's.
GotoScheduler(t) ==
  /\ InThread(t, "go") \/ InThread(t, "killGo")
  /\ cpu' = "sched"
  /\ pc' = [pc EXCEPT
       ![t] = IF @ = "killGo" THEN "killLeave" ELSE frame[t].resume]
  /\ frame' = [frame EXCEPT ![t].resume = "app"]
  /\ UNCHANGED <<threadVars, queueVars, semVars, globalVars, iCriticalSection,
                 held, depth>>

\* The end of a MTWait or MTSignal that gave the processor away.
LeaveResumed(t) ==
  /\ InThread(t, "leave")
  /\ iCriticalSection' = Decremented(iCriticalSection)
  /\ held' = [held EXCEPT ![t] = @ \union ({frame[t].acq} \ {0})]
  /\ Continue(t, frame[t].ret, frame[t].arg)
  /\ UNCHANGED <<threadVars, queueVars, semVars, globalVars, cpu, depth>>
-----------------------------------------------------------------------------
(* The calls of the application's threads.                                 *)

\* "A thread must NOT wait for the same semaphore recursively."
AppWait(t) ==
  /\ AppCall(t, "Wait")
  /\ \E s \in Semaphores \ held[t] : MTWait(t, s, "app", 0)

AppSignal(t) ==
  /\ AppCall(t, "Signal")
  /\ \E s \in held[t] : MTSignal(t, s, "app")

\* On a busy semaphore only threads[t].semaphore changes.
MTTestAndSet(t) ==
  /\ AppCall(t, "TestAndSet") /\ CanEnter
  /\ \E s \in Semaphores \ held[t] :
       /\ semInUse[s]
       /\ semaphore' = [semaphore EXCEPT ![t] = s]
       /\ IF semValue[s] = 0
          THEN /\ semValue' = [semValue EXCEPT ![s] = 1]
               /\ held' = [held EXCEPT ![t] = @ \union {s}]
          ELSE UNCHANGED <<semValue, held>>
  /\ UNCHANGED <<status, priority, wakeUpTime, ownStack, queueVars, semInUse,
                 semQ, globalVars, iCriticalSection, cpu, pc, frame, depth>>

MTCreateSema(t) ==
  /\ AppCall(t, "CreateSema") /\ CanEnter
  /\ CreateSema
  /\ UNCHANGED <<threadVars, queueVars, semValue, semQ, globalVars,
                 iCriticalSection, cpu, appVars>>

MTDestroySema(t) ==
  /\ AppCall(t, "DestroySema") /\ CanEnter
  /\ DestroySema
  /\ UNCHANGED <<threadVars, queueVars, semValue, semQ, globalVars,
                 iCriticalSection, cpu, appVars>>

MTEnterCritical(t) ==
  /\ AppCall(t, "Enter") /\ CanEnter
  /\ iCriticalSection' = iCriticalSection + 1
  /\ depth' = [depth EXCEPT ![t] = @ + 1]
  /\ UNCHANGED <<threadVars, queueVars, semVars, globalVars, cpu, pc, frame,
                 held>>

MTLeaveCritical(t) ==
  /\ InThread(t, "app") /\ depth[t] > 0
  /\ iCriticalSection' = Decremented(iCriticalSection)
  /\ depth' = [depth EXCEPT ![t] = @ - 1]
  /\ UNCHANGED <<threadVars, queueVars, semVars, globalVars, cpu, pc, frame,
                 held>>

\* Any call that enters a critical section at the limit ends multi-threading.
EnterTooDeep(t) ==
  /\ \/ \E c \in Calls \ {"Yield", "EndMT", "CtrlBreak", "SetPreemptive", "Dos"} :
          AppCall(t, c)
     \/ \E l \in {"kill", "killSignal", "killSignal2", "add", "addSignal"} :
          InThread(t, l)
  /\ ~CanEnter
  /\ iCriticalSection' = iCriticalSection + 1
  /\ returnCode' = "TOO_DEEP_CRITICAL_NEST"
  /\ cpu' = "stopping"
  /\ UNCHANGED <<threadVars, queueVars, semVars, modeVars, bMultiThreading,
                 bCtrlBreak, schedVars, curThreadID, appVars>>

\* The application calls DOS by interrupt 21H, and the call returns: InDOS is not 0
\* meanwhile.  The kernel's own calls of DOS are in critical sections.
EnterDos(t) ==
  /\ AppCall(t, "Dos")
  /\ pc' = [pc EXCEPT ![t] = "dos"]
  /\ UNCHANGED <<threadVars, queueVars, semVars, globalVars, iCriticalSection,
                 cpu, frame, held, depth>>
LeaveDos(t) ==
  /\ InThread(t, "dos")
  /\ pc' = [pc EXCEPT ![t] = "app"]
  /\ UNCHANGED <<threadVars, queueVars, semVars, globalVars, iCriticalSection,
                 cpu, frame, held, depth>>

MTYield(t) ==
  /\ AppCall(t, "Yield")
  /\ cpu' = "sched"
  /\ UNCHANGED <<threadVars, queueVars, semVars, globalVars, iCriticalSection,
                 appVars>>

MTEndMultiThreading(t) ==
  /\ AppCall(t, "EndMT")
  /\ bMultiThreading' = FALSE
  /\ Suspend(t, "app", "app", 0, 0)
  /\ UNCHANGED <<threadVars, queueVars, semVars, modeVars, bCtrlBreak,
                 returnCode, schedVars, curThreadID, iCriticalSection, cpu,
                 held, depth>>

\* Variant: join the back of the sleep queue.
SleepLast(i, due) == i = Len(sleepQ)
\* The sleep queue is ordered by wake-up time: walk from its tail to the last
\* thread that is due no later than this one, and join behind it.
SleepBehind(i, due) ==
  /\ i > 0 => wakeUpTime[sleepQ[i]] <= due
  /\ \A j \in i+1..Len(sleepQ) : wakeUpTime[sleepQ[j]] > due

MTSleep(t) ==
  /\ AppCall(t, "Sleep") /\ CanEnter
  /\ \E ticks \in SleepTicks :
       LET due == (clockTick + ticks) % ClockMod IN
       /\ due <= MaxClock
       /\ wakeUpTime' = [wakeUpTime EXCEPT ![t] = due]
       /\ \E i \in 0..Len(sleepQ) :
            /\ SleepBehind(i, due)
            /\ sleepQ' = InsertAt(sleepQ, i + 1, t)
  /\ status' = [status EXCEPT ![t] = "SLEEPING"]
  /\ Suspend(t, "app", "app", 0, 0)
  /\ UNCHANGED <<priority, semaphore, ownStack, readyQ, semVars, globalVars,
                 iCriticalSection, cpu, held, depth>>
-----------------------------------------------------------------------------
(* MTKillThread(v), and MTEndThread = MTKillThread of the caller.  A thread  *)
(* function that returns ends in MTEndThread too (ThreadShell).             *)

\* A thread ends itself with nothing held and no critical section entered.
MTEndThread(t) ==
  /\ AppCall(t, "EndThread")
  /\ held[t] = {} /\ depth[t] = 0
  /\ MTWait(t, semaCRunTimeLib, "kill", t)

\* Thread 0 stands for each number that is no thread's.
MTKillThread(t) ==
  /\ AppCall(t, "KillThread")
  /\ semaCRunTimeLib \notin held[t]
  /\ \E v \in (0..NThreads) \ {t} : MTWait(t, semaCRunTimeLib, "kill", v)

\* Variant: the victim stays in the semaphore's queue.
KillWaitingInPlace(v) == UNCHANGED <<semQ, cpu>>
\* ExtractSema works on the queue of threads[v].semaphore, whether or not v is
\* in it: if it is not, "we are in trouble".
KillWaiting(v) ==
  LET s == semaphore[v] IN
  IF s # 0 /\ v \in ToSet(semQ[s])
  THEN semQ' = [semQ EXCEPT ![s] = ExtractThread(@, v)] /\ UNCHANGED cpu
  ELSE cpu' = "undefined" /\ UNCHANGED semQ

\* Variant: the head of the victim's ready queue is taken out instead of it.
KillReadyHead(v) == readyQ' = [readyQ EXCEPT ![priority[v]] = Tail(@)]
KillReady(v) == readyQ' = [readyQ EXCEPT ![priority[v]] = ExtractThread(@, v)]

\* With its stack go the calls a victim other than t was in.
DropFrames(t, v) ==
  LET others == {v} \ {t}
      Drop(f, e) == [u \in Threads |-> IF u \in others THEN e ELSE f[u]]
  IN /\ pc' = [Drop(pc, "app") EXCEPT ![t] = "killSignal"]
     /\ frame' = Drop(frame, NoFrame)
     /\ held' = Drop(held, {})
     /\ depth' = Drop(depth, 0)

\* Take the victim out of its queue and free its stack.
KillBody(t) ==
  /\ InThread(t, "kill") /\ CanEnter
  /\ bMultiThreading /\ frame[t].arg # 0
  /\ LET v == frame[t].arg IN
       /\ IF v # t /\ status[v] = "READY"
          THEN KillReady(v)
          ELSE UNCHANGED readyQ
       /\ IF v # t /\ status[v] = "WAITING"
          THEN KillWaiting(v)
          ELSE UNCHANGED <<semQ, cpu>>
       /\ status' = [status EXCEPT ![v] = "TERMINATED"]
       /\ ownStack' = [ownStack EXCEPT ![v] = FALSE]
       /\ DropFrames(t, v)
  /\ UNCHANGED <<priority, semaphore, wakeUpTime, sleepQ, semValue, semInUse,
                 globalVars, iCriticalSection>>

\* There is no such thread.
KillRefused(t) ==
  /\ InThread(t, "kill") /\ CanEnter
  /\ ~bMultiThreading \/ frame[t].arg = 0
  /\ pc' = [pc EXCEPT ![t] = "killSignal2"]
  /\ UNCHANGED <<threadVars, queueVars, semVars, globalVars, iCriticalSection,
                 cpu, frame, held, depth>>

KillSignal(t) ==
  /\ InThread(t, "killSignal")
  /\ MTSignal(t, semaCRunTimeLib, "killGo")

\* Back from its own GotoScheduler, the killer leaves and signals once more.
KillLeave(t) ==
  /\ InThread(t, "killLeave")
  /\ iCriticalSection' = Decremented(iCriticalSection)
  /\ pc' = [pc EXCEPT ![t] = "killSignal2"]
  /\ UNCHANGED <<threadVars, queueVars, semVars, globalVars, cpu, frame, held,
                 depth>>

KillSignalAgain(t) ==
  /\ InThread(t, "killSignal2")
  /\ MTSignal(t, semaCRunTimeLib, "app")
-----------------------------------------------------------------------------
(* MTAddNewThread from a running thread.                                   *)

MTAddNewThread(t) ==
  /\ AppCall(t, "AddThread")
  /\ semaCRunTimeLib \notin held[t]
  /\ \E p \in AppPriorities : MTWait(t, semaCRunTimeLib, "add", p)

\* No slot, or no memory for the stack or the argument.
AddFails(t) ==
  /\ InThread(t, "add") /\ CanEnter
  /\ pc' = [pc EXCEPT ![t] = "addSignal"]
  /\ UNCHANGED <<threadVars, queueVars, semVars, globalVars, iCriticalSection,
                 cpu, frame, held, depth>>

\* Enqueueing a slot that some queue still holds breaks that queue's links.
AddBody(t) ==
  /\ InThread(t, "add") /\ CanEnter
  /\ \E slot \in FirstSlots :
       /\ NewThread(slot, frame[t].arg)
       /\ pc' = [pc EXCEPT ![t] = "addSignal", ![slot] = "app"]
       /\ frame' = [frame EXCEPT ![slot] = NoFrame]
       /\ cpu' = IF slot \in ToSet(sleepQ) THEN "undefined" ELSE cpu
  /\ UNCHANGED <<semVars, globalVars, iCriticalSection>>

AddSignal(t) ==
  /\ InThread(t, "addSignal")
  /\ MTSignal(t, semaCRunTimeLib, "app")
-----------------------------------------------------------------------------
(* TheScheduler: one turn of its loop.                                     *)

\* Variant: whatever thread gave the processor away is made READY.
RunsOnAny == curThreadID > 0
RunsOn == curThreadID > 0 /\ status[curThreadID] = "CURRENT"

\* Variant: Ctrl-Break is looked at only where no thread is READY.
BreakSeenIdle == bCtrlBreak /\ \A p \in Priorities : readyQ[p] = <<>>
BreakSeen == bCtrlBreak

\* Requeue the current thread if it is still CURRENT; look at Ctrl-Break.
SchedulerTop ==
  /\ cpu = "sched"
  /\ IF RunsOn
     THEN /\ status' = [status EXCEPT ![curThreadID] = "READY"]
          /\ readyQ' = EnqueueReady(readyQ, curThreadID, priority[curThreadID])
     ELSE UNCHANGED <<status, readyQ>>
  /\ IF BreakSeen
     THEN bMultiThreading' = FALSE /\ returnCode' = "CTRLBREAK"
     ELSE UNCHANGED <<bMultiThreading, returnCode>>
  /\ cpu' = "wake"
  /\ UNCHANGED <<priority, semaphore, wakeUpTime, ownStack, sleepQ, semVars,
                 modeVars, bCtrlBreak, schedVars, curThreadID,
                 iCriticalSection, appVars>>

\* Variant: a thread is due at its tick only, not after it.
SleeperDueNow == sleepQ # <<>> /\ wakeUpTime[Head(sleepQ)] = clockTick
SleeperDue == sleepQ # <<>> /\ wakeUpTime[Head(sleepQ)] <= clockTick

\* One round of the loop in WakeUpSleepingThreads.
WakeUpSleepingThread ==
  /\ cpu = "wake" /\ SleeperDue
  /\ LET t == Head(sleepQ) IN
       /\ sleepQ' = Tail(sleepQ)
       /\ status' = [status EXCEPT ![t] = "READY"]
       /\ readyQ' = EnqueueReady(readyQ, t, priority[t])
  /\ UNCHANGED <<priority, semaphore, wakeUpTime, ownStack, semVars,
                 globalVars, iCriticalSection, cpu, appVars>>

\* The loop ends; a tick from here on is for the next turn.
SleepersWoken ==
  /\ cpu = "wake" /\ ~SleeperDue
  /\ cpu' = "choose"
  /\ UNCHANGED <<threadVars, queueVars, semVars, globalVars, iCriticalSection,
                 appVars>>

scheduleMap == <<5, 4, 3, 5, 4, 2, 5, 3, 4, 5, 1, 4, 5, 3, 2>>

\* Variant: every search starts from the top of the map.
IdxFromTop(i, d) == d - 1
\* priorityIdx after d increments from i; 15 only before the first one.
IdxAfter(i, d) == IF i = 15 THEN d - 1 ELSE (i + d) % 15
PriorityAt(i, d) == scheduleMap[IdxAfter(i, d) + 1]

\* ChooseNextThread finds the first non-empty queue d places along the map.
ChosenAfter(d) ==
  /\ readyQ[PriorityAt(priorityIdx, d)] # <<>>
  /\ \A e \in 1..d-1 : readyQ[PriorityAt(priorityIdx, e)] = <<>>

NoneReady == \A p \in Priorities : readyQ[p] = <<>>

\* DispatchCurThread loads the chosen thread's stack, wherever it points.
Dispatch ==
  /\ cpu = "choose" /\ bMultiThreading
  /\ \E d \in 1..15 :
       /\ ChosenAfter(d)
       /\ priorityIdx' = IdxAfter(priorityIdx, d)
       /\ LET p == PriorityAt(priorityIdx, d)
              t == Head(readyQ[p]) IN
            /\ readyQ' = [readyQ EXCEPT ![p] = Tail(@)]
            /\ curThreadID' = t
            /\ status' = [status EXCEPT ![t] = "CURRENT"]
            /\ cpu' = IF ownStack[t] THEN "thread" ELSE "undefined"
  /\ UNCHANGED <<priority, semaphore, wakeUpTime, ownStack, sleepQ, semVars,
                 modeVars, stopVars, clockTick, iCriticalSection, appVars>>

\* Two turns of the map found no thread, but some thread sleeps.
IdleTurn ==
  /\ cpu = "choose" /\ bMultiThreading
  /\ NoneReady /\ sleepQ # <<>>
  /\ curThreadID' = 0
  /\ priorityIdx' = 0
  /\ cpu' = "sched"
  /\ UNCHANGED <<threadVars, queueVars, semVars, modeVars, stopVars,
                 clockTick, iCriticalSection, appVars>>

\* Variant: sleeping threads are not taken into account.
NoThreadLeftAwake == NoneReady
NoThreadLeft == NoneReady /\ sleepQ = <<>>

Deadlocked ==
  /\ cpu = "choose" /\ bMultiThreading
  /\ NoThreadLeft
  /\ curThreadID' = 0
  /\ priorityIdx' = 0
  /\ bMultiThreading' = FALSE
  /\ returnCode' = "DEADLOCKED"
  /\ cpu' = "stopping"
  /\ UNCHANGED <<threadVars, queueVars, semVars, modeVars, bCtrlBreak,
                 clockTick, iCriticalSection, appVars>>

\* Multi-threading was ended by MTEndMultiThreading or by Ctrl-Break.
StopMultiThreading ==
  /\ cpu = "choose" /\ ~bMultiThreading
  /\ cpu' = "stopping"
  /\ UNCHANGED <<threadVars, queueVars, semVars, globalVars, iCriticalSection,
                 appVars>>
-----------------------------------------------------------------------------
(* Interrupts.                                                             *)

\* The handler is installed from RealStart to StopMultiThreading, and only in
\* preemptive mode.
TimerHooked == bMTPreemptive /\ cpu \in {"thread"} \union InScheduler

\* The clock stops at MaxClock (bound).
NextTick == IF clockTick < MaxClock THEN clockTick + 1 ELSE clockTick

\* OurTimerIntHandler inside DOS, in a critical section or in the scheduler.
TimerTick ==
  /\ TimerHooked
  /\ clockTick < MaxClock
  /\ clockTick' = NextTick
  /\ UNCHANGED <<threadVars, queueVars, semVars, modeVars, stopVars,
                 priorityIdx, curThreadID, iCriticalSection, cpu, appVars>>

OutsideDos == pc[curThreadID] # "dos"
\* Variants: the stack, the critical section, or InDOS is not looked at.
PreemptsKilled   == OutsideDos /\ iCriticalSection = 0
PreemptsCritical == OutsideDos /\ ownStack[curThreadID]
PreemptsInDos    == iCriticalSection = 0 /\ ownStack[curThreadID]
\* Outside DOS and critical sections, on the stack the thread table names: a thread
\* that ends itself has cleared that.
Preemptible == OutsideDos /\ iCriticalSection = 0 /\ ownStack[curThreadID]

\* OurTimerIntHandler in a preemptible thread.
TimerPreempt ==
  /\ TimerHooked
  /\ cpu = "thread" /\ Preemptible
  /\ clockTick' = NextTick
  /\ cpu' = "sched"
  /\ UNCHANGED <<threadVars, queueVars, semVars, modeVars, stopVars,
                 priorityIdx, curThreadID, iCriticalSection, appVars>>

CtrlBreak ==
  /\ "CtrlBreak" \in Calls
  /\ cpu \in {"thread"} \union InScheduler /\ bMultiThreading
  /\ bCtrlBreak' = TRUE
  /\ UNCHANGED <<threadVars, queueVars, semVars, modeVars, bMultiThreading,
                 returnCode, schedVars, curThreadID, iCriticalSection, cpu,
                 appVars>>
-----------------------------------------------------------------------------
Main == \/ MTInitialise \/ MTSetPreemptive \/ MainAddNewThread
        \/ MainCreateSema \/ MainDestroySema \/ MTStartMultiThreading \/ TidyUp

Application(t) ==
  \/ AppWait(t) \/ AppSignal(t) \/ MTTestAndSet(t) \/ MTCreateSema(t)
  \/ MTDestroySema(t) \/ MTEnterCritical(t) \/ MTLeaveCritical(t)
  \/ MTYield(t) \/ MTEndMultiThreading(t) \/ MTSleep(t) \/ MTEndThread(t)
  \/ MTKillThread(t) \/ MTAddNewThread(t) \/ EnterDos(t)

\* What a thread does inside a call it has made.
Kernel(t) ==
  \/ GotoScheduler(t) \/ LeaveResumed(t) \/ EnterTooDeep(t) \/ LeaveDos(t)
  \/ KillBody(t) \/ KillRefused(t) \/ KillSignal(t) \/ KillLeave(t) \/ KillSignalAgain(t)
  \/ AddFails(t) \/ AddBody(t) \/ AddSignal(t)

Scheduler == \/ SchedulerTop \/ WakeUpSleepingThread \/ SleepersWoken
             \/ Dispatch \/ IdleTurn \/ Deadlocked \/ StopMultiThreading

Next == \/ Main
        \/ \E t \in Threads : Application(t) \/ Kernel(t)
        \/ Scheduler
        \/ TimerTick \/ TimerPreempt \/ CtrlBreak

Spec == Init /\ [][Next]_vars

\* The processor keeps running kernel and scheduler code, and the timer keeps
\* interrupting; a main program that has initialised starts; a call of DOS returns.
\* The timer knows nothing of the threads: one that is preemptible again and again is
\* so at some tick.  Nothing else is assumed of what the threads call or when.
FairSpec ==
  /\ Spec
  /\ WF_vars(MTStartMultiThreading) /\ WF_vars(Scheduler) /\ WF_vars(TidyUp)
  /\ \A t \in Threads : WF_vars(Kernel(t))
  /\ WF_vars(TimerTick)
  /\ SF_vars(TimerPreempt)
-----------------------------------------------------------------------------
(* Safety.                                                                 *)

\* A thread that can still execute: not freed, or freed while it runs.
Alive(t) == \/ status[t] \notin {"INVALID", "TERMINATED"}
            \/ cpu = "thread" /\ curThreadID = t

\* Each thread is in the one queue its status names, once, and in no other:
\* what lets every queue share the thread's single pair of links.
ReadyDiscipline ==
  \A p \in Priorities :
    /\ IsInjective(readyQ[p])
    /\ \A t \in Threads : t \in ToSet(readyQ[p]) <=>
                            status[t] = "READY" /\ priority[t] = p
SemaDiscipline ==
  \A s \in Semaphores :
    /\ IsInjective(semQ[s])
    /\ \A t \in Threads : t \in ToSet(semQ[s]) <=>
                            status[t] = "WAITING" /\ semaphore[t] = s
SleepDiscipline ==
  /\ IsInjective(sleepQ)
  /\ \A t \in Threads : t \in ToSet(sleepQ) <=> status[t] = "SLEEPING"
CurrentDiscipline ==
  \A t \in Threads : status[t] = "CURRENT" => t = curThreadID
QueueDiscipline ==
  bMTInitialised => /\ ReadyDiscipline /\ SemaDiscipline
                    /\ SleepDiscipline /\ CurrentDiscipline

\* No thread is dispatched on a freed stack and no queue's links are broken.
NoWildDispatch == cpu # "undefined"

\* A busy semaphore has a holder that can still signal it: neither the timer,
\* nor a thread's own end, leaves one locked for ever.
BusyMeansHeld ==
  \A s \in Semaphores :
    semValue[s] = 1 => \E t \in Threads : Alive(t) /\ s \in held[t]

\* While a thread is in a critical section it entered, it alone runs
\* (MTEnterCritical: "freezes all other threads").
CriticalFreezes ==
  \A t \in Threads :
    depth[t] > 0 => cpu \in {"thread", "stopping"} /\ curThreadID = t

\* The count is what the running thread itself has entered, so that the last
\* MTLeaveCritical, and no earlier one, resumes multi-threading.
CriticalBalanced ==
  /\ cpu = "thread" => iCriticalSection = depth[curThreadID]
  /\ cpu \in InScheduler => iCriticalSection = 0

\* One thread at a time is in DOS, which is not reentrant, however the timer and the
\* threads' own calls switch between them.
DosNotReentered ==
  \A t, u \in Threads : pc[t] = "dos" /\ pc[u] = "dos" => t = u

\* DEADLOCKED is returned only if no thread could ever have run again.
DeadlockSound ==
  cpu = "stopping" /\ returnCode = "DEADLOCKED" =>
    \A t \in Threads : status[t] \in {"WAITING", "INVALID", "TERMINATED"}

\* When the scheduler has woken the threads that are due, none is left sleeping
\* past its time, although it looked no further than the first that was not due.
NoOversleep ==
  [][cpu = "wake" /\ cpu' = "choose" =>
       \A t \in Threads : status'[t] = "SLEEPING" => wakeUpTime[t] > clockTick]_vars

(* Liveness, in preemptive mode.                                           *)
Preemptive == bMultiThreading /\ bMTPreemptive

\* Every READY thread is dispatched (or killed, or all threads stop).
NoStarvation ==
  \A t \in Threads :
    Preemptive /\ status[t] = "READY" ~> status[t] # "READY"

\* Every sleeping thread wakes up.
SleepersWake ==
  \A t \in Threads :
    Preemptive /\ status[t] = "SLEEPING" ~> status[t] # "SLEEPING"

\* Ctrl-Break ends multi-threading.
CtrlBreakStops == Preemptive /\ bCtrlBreak ~> ~bMultiThreading
-----------------------------------------------------------------------------
(* What MTGetCRTLibSema's comment says ("the semaphore used to serialise    *)
(* access to Turbo C's runtime libraries"), and the code does not do: two   *)
(* threads never both hold a semaphore.                                     *)
MutualExclusion ==
  \A s \in Semaphores : \A t, u \in Threads :
    s \in held[t] /\ s \in held[u] => t = u

\* What mthread.h says of MTSignal ("wakes up a thread waiting for the
\* semaphore"), and the code does not do: when the running thread signals a
\* semaphore it has waited for, the queue of its waiters gets shorter.
SignalWakes ==
  [][\A t \in Threads, s \in Semaphores :
       (/\ cpu = "thread" /\ curThreadID = t
        /\ s \in held[t] \ held'[t] /\ semQ[s] # <<>>)
       => Len(semQ'[s]) < Len(semQ[s])]_vars
=============================================================================

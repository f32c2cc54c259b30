--------------------------- MODULE MTFairShare_proofs ---------------------------
(***************************************************************************)
(* Theorems of MTFairShare: how often ChooseNextThread may pass a priority *)
(* over, and how many dispatches a READY thread waits, for every number of *)
(* threads.                                                                *)
(***************************************************************************)
EXTENDS MTFairShare, MicroThread_proofs, FiniteSetTheorems

-----------------------------------------------------------------------------
(* The map.                                                                  *)

\* The index e places before i in scheduleMap; 15 is the state before index 0.
Before(i, e) == IF i = 15 THEN (29 - e) % 15 ELSE (i + 15 - e) % 15

\* The last k indices up to i are none of priority p's.
Unserved(p, i, k) ==
  \A e \in 0..14 : e < k => scheduleMap[Before(i, e) + 1] # p

LEMMA MapEntries ==
  /\ scheduleMap[1] = 5 /\ scheduleMap[2] = 4 /\ scheduleMap[3] = 3
  /\ scheduleMap[4] = 5 /\ scheduleMap[5] = 4 /\ scheduleMap[6] = 2
  /\ scheduleMap[7] = 5 /\ scheduleMap[8] = 3 /\ scheduleMap[9] = 4
  /\ scheduleMap[10] = 5 /\ scheduleMap[11] = 1 /\ scheduleMap[12] = 4
  /\ scheduleMap[13] = 5 /\ scheduleMap[14] = 3 /\ scheduleMap[15] = 2
BY DEF scheduleMap

LEMMA Gaps == /\ MaxGap[1] = 15 /\ MaxGap[2] = 9 /\ MaxGap[3] = 6
              /\ MaxGap[4] = 5 /\ MaxGap[5] = 3
BY DEF MaxGap

\* The remainders of the indices that occur.
LEMMA Mod15 == \A n \in 0..29 : n % 15 = IF n < 15 THEN n ELSE n - 15
OBVIOUS

LEMMA BeforeIndex ==
  ASSUME NEW i \in 0..15, NEW e \in 0..14
  PROVE  Before(i, e) = LET j == IF i = 15 THEN 14 ELSE i
                        IN IF e <= j THEN j - e ELSE j + 15 - e
BY Mod15 DEF Before

\* Among MaxGap[p] consecutive indices there is one of priority p.
LEMMA WithinGap ==
  ASSUME NEW i \in 0..15, NEW p \in Priorities, NEW k \in Nat, Unserved(p, i, k)
  PROVE  k < MaxGap[p]
<1>1. SUFFICES ASSUME k >= MaxGap[p] PROVE FALSE
  BY Gaps DEF Priorities
<1>2. \A e \in 0..14 : e < MaxGap[p] => scheduleMap[Before(i, e) + 1] # p
  BY <1>1, Gaps DEF Unserved, Priorities
<1> DEFINE j == IF i = 15 THEN 14 ELSE i
           at(e) == (IF e <= j THEN j - e ELSE j + 15 - e) + 1
<1>3. \A e \in 0..14 : e < MaxGap[p] => scheduleMap[at(e)] # p
  BY <1>2, BeforeIndex
<1>4. j \in 0..14
  OBVIOUS
<1>5. CASE p = 5
  <2>1. scheduleMap[at(0)] # 5 /\ scheduleMap[at(1)] # 5 /\ scheduleMap[at(2)] # 5
    BY <1>3, <1>5, Gaps
  <2> QED BY <1>4, <2>1, MapEntries
<1>6. CASE p = 4
  <2>1. /\ scheduleMap[at(0)] # 4 /\ scheduleMap[at(1)] # 4 /\ scheduleMap[at(2)] # 4
        /\ scheduleMap[at(3)] # 4 /\ scheduleMap[at(4)] # 4
    BY <1>3, <1>6, Gaps
  <2> QED BY <1>4, <2>1, MapEntries
<1>7. CASE p = 3
  <2>1. /\ scheduleMap[at(0)] # 3 /\ scheduleMap[at(1)] # 3 /\ scheduleMap[at(2)] # 3
        /\ scheduleMap[at(3)] # 3 /\ scheduleMap[at(4)] # 3 /\ scheduleMap[at(5)] # 3
    BY <1>3, <1>7, Gaps
  <2> QED BY <1>4, <2>1, MapEntries
<1>8. CASE p = 2
  <2>1. /\ scheduleMap[at(0)] # 2 /\ scheduleMap[at(1)] # 2 /\ scheduleMap[at(2)] # 2
        /\ scheduleMap[at(3)] # 2 /\ scheduleMap[at(4)] # 2 /\ scheduleMap[at(5)] # 2
        /\ scheduleMap[at(6)] # 2 /\ scheduleMap[at(7)] # 2 /\ scheduleMap[at(8)] # 2
    BY <1>3, <1>8, Gaps
  <2> QED BY <1>4, <2>1, MapEntries
<1>9. CASE p = 1
  <2> DEFINE e == IF j >= 10 THEN j - 10 ELSE j + 5
  <2>1. e \in 0..14 /\ at(e) = 11
    BY <1>4
  <2> QED BY <1>3, <1>9, <2>1, MapEntries, Gaps
<1> QED BY <1>5, <1>6, <1>7, <1>8, <1>9 DEF Priorities

\* A priority with READY threads that a search from index i passes over, d places
\* along the map, has gone unserved for one dispatch more.
LEMMA PassedOver ==
  ASSUME NEW i \in 0..15, NEW d \in 1..15, NEW p \in Priorities, NEW k \in Nat,
         Unserved(p, i, k), \A e \in 1..d : PriorityAt(i, e) # p
  PROVE  Unserved(p, IdxAfter(i, d), k + 1)
<1>1. SUFFICES ASSUME NEW e \in 0..14, e < k + 1
               PROVE  scheduleMap[Before(IdxAfter(i, d), e) + 1] # p
  BY DEF Unserved
<1>2. \A n \in 1..15 : IdxAfter(i, n) = LET j == IF i = 15 THEN 14 ELSE i
                                        IN IF j + n < 15 THEN j + n ELSE j + n - 15
  BY Mod15 DEF IdxAfter
<1>3. IdxAfter(i, d) \in 0..14
  BY <1>2
<1>4. CASE e < d
  <2>1. d - e \in 1..d /\ d - e \in 1..15
    BY <1>4
  <2>2. Before(IdxAfter(i, d), e) = IdxAfter(i, d - e)
    BY <1>2, <1>3, <1>4, <2>1, BeforeIndex
  <2> QED BY <2>1, <2>2 DEF PriorityAt
<1>5. CASE e >= d
  <2>1. e - d \in 0..14 /\ e - d < k
    BY <1>1, <1>5
  <2>2. Before(IdxAfter(i, d), e) = Before(i, e - d)
    BY <1>2, <1>3, <1>5, <2>1, BeforeIndex
  <2> QED BY <2>1, <2>2 DEF Unserved
<1> QED BY <1>4, <1>5
-----------------------------------------------------------------------------
(* The inductive invariant: a priority that has READY threads has gone       *)
(* unserved since its last entry, and the thread at place j of its queue has *)
(* waited for the places it has gone forward, one gap each.                  *)

FairTyped == passedOver \in [Priorities -> Nat] /\ waited \in [Threads -> Nat]

GapInv ==
  \A p \in Priorities : /\ Unserved(p, priorityIdx, passedOver[p])
                        /\ readyQ[p] = <<>> => passedOver[p] = 0

Allowed(j, p) == (NThreads - j) * MaxGap[p]
PlaceInv ==
  \A p \in Priorities : \A j \in 1..Len(readyQ[p]) :
    waited[readyQ[p][j]] <= Allowed(j, p) + passedOver[p]

NoQueues == ~bMTInitialised => NoneReady

FairInv == FairTyped /\ GapInv /\ PlaceInv /\ NoQueues

\* One gap for each place.
LEMMA AllowedSteps ==
  ASSUME NEW p \in Priorities, NEW i \in 1..NThreads, NEW j \in 1..NThreads
  PROVE  /\ Allowed(j, p) \in Nat
         /\ j <= i => Allowed(i, p) <= Allowed(j, p)
         /\ i = j + 1 => Allowed(j, p) = Allowed(i, p) + MaxGap[p]
         /\ Allowed(j, p) <= NThreads * MaxGap[p] - MaxGap[p]
<1> NThreads \in Nat
  BY ConstantsAssumption
<1>1. CASE p = 1 BY <1>1, Gaps DEF Allowed
<1>2. CASE p = 2 BY <1>2, Gaps DEF Allowed
<1>3. CASE p = 3 BY <1>3, Gaps DEF Allowed
<1>4. CASE p = 4 BY <1>4, Gaps DEF Allowed
<1>5. CASE p = 5 BY <1>5, Gaps DEF Allowed
<1> QED BY <1>1, <1>2, <1>3, <1>4, <1>5 DEF Priorities

\* A queue that holds each thread once has no more places than there are threads.
LEMMA QueueFits ==
  ASSUME NEW q \in Seq(Threads), IsInjective(q)
  PROVE  Len(q) \in Nat /\ Len(q) <= NThreads
<1>1. Len(q) \in Nat /\ q \in [1..Len(q) -> Threads]
  OBVIOUS
<1>2. q \in Injection(1..Len(q), Threads)
  BY <1>1 DEF Injection, IsInjective
<1>3. /\ IsFiniteSet(Threads) /\ Cardinality(Threads) = NThreads
      /\ Cardinality(1..Len(q)) = Len(q)
  <2>1. 1 \in Int /\ NThreads \in Int /\ Len(q) \in Int /\ NThreads >= 1 /\ Len(q) >= 0
    BY <1>1, ConstantsAssumption
  <2>2. \A b \in Int : b >= 0 => IsFiniteSet(1..b) /\ Cardinality(1..b) = b
    BY <2>1, FS_Interval
  <2> QED BY <2>1, <2>2 DEF Threads
<1> QED BY <1>1, <1>2, <1>3, FS_Injection

\* A wait within one bound is within a larger one; one dispatch more fits in a gap.
LEMMA NoLonger ==
  ASSUME NEW w \in Nat, NEW v \in {0, w}, NEW a \in Nat, NEW b \in Nat, NEW n \in Nat,
         w <= a + n, a <= b
  PROVE  v <= b + n
OBVIOUS

LEMMA OneMore ==
  ASSUME NEW w \in Nat, NEW v \in Nat, NEW a \in Nat, NEW n \in Nat, NEW g \in Nat,
         w <= a + n, v <= w + 1
  PROVE  v <= a + (n + 1) /\ (n < g => v <= (a + g) + 0)
OBVIOUS

-----------------------------------------------------------------------------
(* How the ready queues change between two dispatches: a thread joins at the *)
(* back, and those that are READY go forward.                                *)

ReadyMoves ==
  \A p \in Priorities : \A j \in 1..Len(readyQ'[p]) :
    \/ status[readyQ'[p][j]] # "READY"
    \/ \E i \in j..Len(readyQ[p]) : readyQ[p][i] = readyQ'[p][j]

LEMMA MovesSame ==
  ASSUME TypeInv, UNCHANGED readyQ
  PROVE  ReadyMoves
<1> SUFFICES ASSUME NEW p \in Priorities, NEW j \in 1..Len(readyQ[p])
             PROVE  j \in j..Len(readyQ[p])
  BY DEF ReadyMoves
<1>1. readyQ[p] \in Seq(Threads)
  BY DEF TypeInv, TypeOK, QueuesTyped
<1> QED BY <1>1

LEMMA MovesJoin ==
  ASSUME TypeInv, NEW t \in Threads, NEW r \in Priorities, status[t] # "READY",
         readyQ' = EnqueueReady(readyQ, t, r)
  PROVE  ReadyMoves
<1> SUFFICES ASSUME NEW p \in Priorities, NEW j \in 1..Len(readyQ'[p]),
                    readyQ'[p][j] # t
             PROVE  \E i \in j..Len(readyQ[p]) : readyQ[p][i] = readyQ'[p][j]
  BY DEF ReadyMoves
<1>1. readyQ[p] \in Seq(Threads) /\ Len(readyQ[p]) \in Nat
  BY DEF TypeInv, TypeOK, QueuesTyped
<1>2. readyQ'[p] = readyQ[p] \/ readyQ'[p] = Append(readyQ[p], t)
  BY DEF EnqueueReady, TypeInv, TypeOK, QueuesTyped
<1>3. j \in 1..Len(readyQ[p]) /\ readyQ'[p][j] = readyQ[p][j]
  BY <1>1, <1>2
<1> QED BY <1>1, <1>3

LEMMA MovesLeave ==
  ASSUME TypeInv, NEW r \in Priorities, NEW t \in ToSet(readyQ[r]),
         readyQ' = [readyQ EXCEPT ![r] = ExtractThread(@, t)]
  PROVE  ReadyMoves
<1> SUFFICES ASSUME NEW p \in Priorities, NEW j \in 1..Len(readyQ'[p])
             PROVE  \E i \in j..Len(readyQ[p]) : readyQ[p][i] = readyQ'[p][j]
  BY DEF ReadyMoves
<1>1. readyQ[p] \in Seq(Threads) /\ Len(readyQ[p]) \in Nat
  BY DEF TypeInv, TypeOK, QueuesTyped
<1>2. CASE p # r
  <2>1. readyQ'[p] = readyQ[p]
    BY <1>2 DEF TypeInv, TypeOK, QueuesTyped
  <2> QED BY <1>1, <2>1
<1>3. CASE p = r
  <2> DEFINE x == CHOOSE i \in DOMAIN readyQ[p] : readyQ[p][i] = t
  <2>1. x \in 1..Len(readyQ[p])
    BY <1>1, <1>3, Member
  <2>2. readyQ'[p] = RemoveAt(readyQ[p], x)
    BY <1>3 DEF ExtractThread, TypeInv, TypeOK, QueuesTyped
  <2> HIDE DEF x
  <2>3. /\ Len(readyQ'[p]) = Len(readyQ[p]) - 1
        /\ \A i \in 1..x-1 : readyQ'[p][i] = readyQ[p][i]
        /\ \A i \in x..Len(readyQ[p])-1 : readyQ'[p][i] = readyQ[p][i+1]
    BY <1>1, <2>1, <2>2, RemoveAtElements
  <2>4. CASE j < x
    BY <1>1, <2>1, <2>3, <2>4
  <2>5. CASE j >= x
    <3>1. j + 1 \in j..Len(readyQ[p]) /\ readyQ[p][j+1] = readyQ'[p][j]
      BY <1>1, <2>1, <2>3, <2>5
    <3> QED BY <3>1
  <2> QED BY <2>1, <2>4, <2>5
<1> QED BY <1>2, <1>3

LEMMA MovesSignal ==
  ASSUME TypeInv, Placed, NEW t \in Threads, NEW s \in Semaphores, NEW k,
         MTSignal(t, s, k)
  PROVE  ReadyMoves
<1>1. CASE UNCHANGED readyQ
  BY <1>1, MovesSame
<1>2. CASE semQ[s] # <<>> /\ WakeUpThreads(s)
  <2> DEFINE u == Head(semQ[s])
  <2>1. semQ[s] \in Seq(Threads)
    BY DEF TypeInv, TypeOK, QueuesTyped
  <2>2. u \in Threads /\ u \in ToSet(semQ[s])
    BY <1>2, <2>1, TailSet
  <2>3. status[u] = "WAITING" /\ priority[u] \in Priorities
    BY <2>2 DEF Placed, SemaDiscipline, TypeInv, TypeOK, ThreadsTyped
  <2>4. readyQ' = EnqueueReady(readyQ, u, priority[u])
    BY <1>2 DEF WakeUpThreads
  <2> QED BY <2>2, <2>3, <2>4, MovesJoin
<1> QED BY <1>1, <1>2 DEF MTSignal, WakeUpThreads

LEMMA MovesNew ==
  ASSUME TypeInv, NEW t \in FirstSlots, NEW p \in Priorities, NewThread(t, p)
  PROVE  ReadyMoves
<1>1. t \in Threads /\ status[t] # "READY" /\ readyQ' = EnqueueReady(readyQ, t, p)
  BY DEF FirstSlots, UsableSlots, NewThread
<1> QED BY <1>1, MovesJoin

LEMMA ThreadMoves ==
  ASSUME TypeInv, SchedInv, NEW t \in Threads, Application(t) \/ Kernel(t)
  PROVE  ReadyMoves /\ UNCHANGED <<priorityIdx, bMTInitialised>>
<1>0. cpu = "thread" /\ curThreadID = t
  BY DEF Application, EnterDos, AppWait, AppSignal, MTTestAndSet, MTCreateSema,
     MTDestroySema, MTEnterCritical, MTLeaveCritical, MTYield,
     MTEndMultiThreading, MTSleep, MTEndThread, MTKillThread, MTAddNewThread,
     Kernel, LeaveDos, KillRefused, GotoScheduler, LeaveResumed, EnterTooDeep,
     KillBody, KillSignal, KillLeave, KillSignalAgain, AddFails, AddBody,
     AddSignal, AppCall, InThread
<1>1. Placed /\ semaCRunTimeLib \in Semaphores /\ held[t] \subseteq Semaphores
  BY <1>0, Runner, ConstantsAssumption
     DEF SchedInv, Semaphores, semaCRunTimeLib, TypeInv, TypeOK, StacksTyped
<1>2. CASE AppWait(t) \/ MTEndThread(t) \/ MTKillThread(t) \/ MTAddNewThread(t)
  <2>1. PICK s, k, a : MTWait(t, s, k, a)
    BY <1>2 DEF AppWait, MTEndThread, MTKillThread, MTAddNewThread
  <2> QED BY <2>1, MovesSame DEF MTWait, queueVars, globalVars, schedVars, modeVars
<1>3. CASE AppSignal(t) \/ KillSignal(t) \/ KillSignalAgain(t) \/ AddSignal(t)
  <2>1. PICK s \in Semaphores, k \in {"killGo", "app"} : MTSignal(t, s, k)
    BY <1>1, <1>3 DEF AppSignal, KillSignal, KillSignalAgain, AddSignal
  <2> QED BY <1>1, <2>1, MovesSignal DEF MTSignal, globalVars, schedVars, modeVars
<1>4. CASE \/ MTTestAndSet(t) \/ MTCreateSema(t) \/ MTDestroySema(t)
           \/ MTEnterCritical(t) \/ MTLeaveCritical(t) \/ MTYield(t)
           \/ MTEndMultiThreading(t) \/ MTSleep(t) \/ GotoScheduler(t)
           \/ LeaveResumed(t) \/ EnterTooDeep(t) \/ KillLeave(t) \/ AddFails(t)
           \/ EnterDos(t) \/ LeaveDos(t) \/ KillRefused(t)
  BY <1>4, MovesSame
     DEF MTTestAndSet, MTCreateSema, MTDestroySema, MTEnterCritical,
         MTLeaveCritical, MTYield, MTEndMultiThreading, MTSleep, GotoScheduler,
         LeaveResumed, EnterTooDeep, KillLeave, AddFails, EnterDos, LeaveDos,
         KillRefused, queueVars, globalVars, schedVars, modeVars
<1>5. CASE KillBody(t)
  <2> DEFINE v == frame[t].arg
  <2>1. v \in Threads
    BY <1>5 DEF KillBody, InThread, TypeInv, FramesOK, FrameOK, Threads
  <2>2. UNCHANGED readyQ \/ (status[v] = "READY" /\ KillReady(v))
    BY <1>5 DEF KillBody
  <2>3. UNCHANGED <<priorityIdx, bMTInitialised>>
    BY <1>5 DEF KillBody, globalVars, schedVars, modeVars
  <2> HIDE DEF v
  <2>4. CASE status[v] = "READY" /\ KillReady(v)
    <3>1. priority[v] \in Priorities /\ v \in ToSet(readyQ[priority[v]])
      BY <1>1, <2>1, <2>4 DEF Placed, ReadyDiscipline, TypeInv, TypeOK, ThreadsTyped
    <3> QED BY <2>3, <2>4, <3>1, MovesLeave DEF KillReady
  <2> QED BY <2>2, <2>3, <2>4, MovesSame
<1>6. CASE AddBody(t)
  <2>1. PICK slot \in FirstSlots : NewThread(slot, frame[t].arg)
    BY <1>6 DEF AddBody
  <2>2. frame[t].arg \in Priorities
    BY <1>6 DEF AddBody, InThread, TypeInv, FramesOK, FrameOK
  <2> QED BY <1>6, <2>1, <2>2, MovesNew DEF AddBody, globalVars, schedVars, modeVars
<1> QED BY <1>2, <1>3, <1>4, <1>5, <1>6 DEF Application, Kernel

\* Between two dispatches the scheduler's place in the map stays, unless no thread is
\* READY; the ready queues of a kernel that is not initialised are empty.
LEMMA NextMoves ==
  ASSUME TypeInv, SchedInv, NoQueues, Next, ~Dispatch
  PROVE  /\ ReadyMoves /\ NoQueues'
         /\ UNCHANGED priorityIdx \/ NoneReady'
<1>1. CASE Main
  <2>1. CASE MTInitialise \/ TidyUp
    <3>1. \A p \in Priorities : readyQ'[p] = <<>>
      BY <2>1 DEF MTInitialise, TidyUp
    <3>2. ReadyMoves
      BY <3>1 DEF ReadyMoves
    <3> QED BY <3>1, <3>2 DEF NoneReady, NoQueues
  <2>2. CASE MTSetPreemptive \/ MainCreateSema \/ MainDestroySema \/ MTStartMultiThreading
    <3>1. UNCHANGED <<readyQ, priorityIdx, bMTInitialised>>
      BY <2>2 DEF MTSetPreemptive, MainCreateSema, MainDestroySema, MTStartMultiThreading,
         queueVars, globalVars, schedVars, modeVars
    <3> QED BY <3>1, MovesSame DEF NoneReady, NoQueues
  <2>3. CASE MainAddNewThread
    <3>1. PICK slot \in FirstSlots, p \in AppPriorities : NewThread(slot, p)
      BY <2>3 DEF MainAddNewThread
    <3>2. UNCHANGED <<priorityIdx, bMTInitialised>> /\ bMTInitialised
      BY <2>3 DEF MainAddNewThread, globalVars, schedVars, modeVars
    <3>3. p \in Priorities
      BY ConstantsAssumption DEF Priorities
    <3> QED BY <3>1, <3>2, <3>3, MovesNew DEF NoQueues
  <2> QED BY <1>1, <2>1, <2>2, <2>3 DEF Main
<1>2. CASE \E t \in Threads : Application(t) \/ Kernel(t)
  <2>1. PICK t \in Threads : Application(t) \/ Kernel(t)
    BY <1>2
  <2>2. bMTInitialised
    <3>1. cpu = "thread"
      BY <2>1 DEF Application, EnterDos, AppWait, AppSignal, MTTestAndSet,
         MTCreateSema, MTDestroySema, MTEnterCritical, MTLeaveCritical, MTYield,
         MTEndMultiThreading, MTSleep, MTEndThread, MTKillThread, MTAddNewThread,
         Kernel, LeaveDos, KillRefused, GotoScheduler, LeaveResumed, EnterTooDeep,
         KillBody, KillSignal, KillLeave, KillSignalAgain, AddFails, AddBody,
         AddSignal, AppCall, InThread
    <3> QED BY <3>1 DEF SchedInv, RunInv
  <2> QED BY <2>1, <2>2, ThreadMoves DEF NoQueues
<1>3. CASE Scheduler
  <2>1. cpu \in InScheduler /\ UNCHANGED bMTInitialised
    BY <1>3 DEF Scheduler, SchedulerTop, WakeUpSleepingThread, SleepersWoken,
       Dispatch, IdleTurn, Deadlocked, StopMultiThreading, InScheduler, globalVars,
       modeVars
  <2>2. bMTInitialised /\ Placed
    BY <2>1 DEF SchedInv, PlacedInv, RunInv, InScheduler
  <2>3. CASE SchedulerTop
    <3>1. UNCHANGED priorityIdx
      BY <2>3 DEF SchedulerTop, schedVars
    <3>2. CASE RunsOn
      <4>1. curThreadID \in Threads /\ status[curThreadID] # "READY"
        BY <3>2 DEF RunsOn, TypeInv, TypeOK, GlobalsTyped, Threads
      <4>2. readyQ' = EnqueueReady(readyQ, curThreadID, priority[curThreadID])
        BY <2>3, <3>2 DEF SchedulerTop
      <4>3. priority[curThreadID] \in Priorities
        BY <4>1 DEF TypeInv, TypeOK, ThreadsTyped
      <4> QED BY <2>1, <2>2, <3>1, <4>1, <4>2, <4>3, MovesJoin DEF NoQueues
    <3>3. CASE ~RunsOn
      <4>1. UNCHANGED readyQ
        BY <2>3, <3>3 DEF SchedulerTop
      <4> QED BY <2>1, <2>2, <3>1, <4>1, MovesSame DEF NoQueues
    <3> QED BY <3>2, <3>3
  <2>4. CASE WakeUpSleepingThread
    <3> DEFINE t == Head(sleepQ)
    <3>1. sleepQ # <<>> /\ readyQ' = EnqueueReady(readyQ, t, priority[t])
          /\ UNCHANGED priorityIdx
      BY <2>4 DEF WakeUpSleepingThread, SleeperDue, globalVars, schedVars
    <3>2. sleepQ \in Seq(Threads)
      BY DEF TypeInv, TypeOK, QueuesTyped
    <3>3. t \in Threads /\ t \in ToSet(sleepQ)
      BY <3>1, <3>2, TailSet
    <3>4. status[t] # "READY" /\ priority[t] \in Priorities
      BY <2>2, <3>3 DEF Placed, SleepDiscipline, TypeInv, TypeOK, ThreadsTyped
    <3> HIDE DEF t
    <3> QED BY <2>1, <2>2, <3>1, <3>3, <3>4, MovesJoin DEF NoQueues
  <2>5. CASE SleepersWoken \/ StopMultiThreading
    <3>1. UNCHANGED <<readyQ, priorityIdx>>
      BY <2>5 DEF SleepersWoken, StopMultiThreading, queueVars, globalVars, schedVars
    <3> QED BY <2>1, <2>2, <3>1, MovesSame DEF NoQueues
  <2>6. CASE IdleTurn \/ Deadlocked
    <3>1. UNCHANGED readyQ /\ NoneReady
      BY <2>6 DEF IdleTurn, Deadlocked, NoThreadLeft, queueVars
    <3> QED BY <2>1, <2>2, <3>1, MovesSame DEF NoQueues, NoneReady
  <2> QED BY <1>3, <2>3, <2>4, <2>5, <2>6 DEF Scheduler
<1>4. CASE TimerTick \/ TimerPreempt \/ CtrlBreak
  <2>1. UNCHANGED <<readyQ, priorityIdx, bMTInitialised>>
    BY <1>4 DEF TimerTick, TimerPreempt, CtrlBreak, queueVars, schedVars, modeVars
  <2> QED BY <2>1, MovesSame DEF NoQueues, NoneReady
<1> QED BY <1>1, <1>2, <1>3, <1>4 DEF Next

-----------------------------------------------------------------------------
(* The invariant is kept.                                                    *)

LEMMA FairStart == FairInit => FairInv
<1> SUFFICES ASSUME FairInit PROVE FairInv
  OBVIOUS
<1>1. FairTyped /\ \A p \in Priorities : passedOver[p] = 0 /\ readyQ[p] = <<>>
  BY DEF FairInit, Init, FairTyped
<1>2. GapInv
  BY <1>1 DEF GapInv, Unserved
<1>3. PlaceInv
  BY <1>1 DEF PlaceInv
<1> QED BY <1>1, <1>2, <1>3 DEF FairInv, NoQueues, NoneReady

\* Between two dispatches nobody waits any longer.
LEMMA FairBetween ==
  ASSUME TypeInv, TypeInv', SchedInv, SchedInv', FairInv, Next, ~Dispatch, FairNext
  PROVE  FairInv'
<1> USE DEF FairInv
<1>1. ReadyMoves /\ NoQueues' /\ (UNCHANGED priorityIdx \/ NoneReady')
  BY NextMoves
<1>2. /\ passedOver' = [p \in Priorities |->
                          IF readyQ'[p] = <<>> THEN 0 ELSE passedOver[p]]
      /\ waited' = [t \in Threads |->
           IF status'[t] = "READY" /\ status[t] = "READY" THEN waited[t] ELSE 0]
  BY DEF FairNext
<1>3. FairTyped'
  BY <1>2 DEF FairTyped
<1>4. GapInv'
  <2> SUFFICES ASSUME NEW p \in Priorities
               PROVE  /\ Unserved(p, priorityIdx', passedOver'[p])
                      /\ readyQ'[p] = <<>> => passedOver'[p] = 0
    BY DEF GapInv
  <2>1. CASE readyQ'[p] = <<>>
    BY <1>2, <2>1 DEF Unserved
  <2>2. CASE readyQ'[p] # <<>>
    <3>1. UNCHANGED priorityIdx
      BY <1>1, <2>2 DEF NoneReady
    <3> QED BY <1>2, <2>2, <3>1 DEF GapInv
  <2> QED BY <2>1, <2>2
<1>5. PlaceInv'
  <2> SUFFICES ASSUME NEW p \in Priorities, NEW j \in 1..Len(readyQ'[p])
               PROVE  waited'[readyQ'[p][j]] <= Allowed(j, p) + passedOver'[p]
    BY DEF PlaceInv, Allowed
  <2>1. readyQ'[p] \in Seq(Threads) /\ Len(readyQ'[p]) \in Nat /\ readyQ'[p] # <<>>
    BY DEF TypeInv, TypeOK, QueuesTyped
  <2>2. bMTInitialised'
    BY <1>1, <2>1 DEF NoQueues, NoneReady
  <2>3. Len(readyQ'[p]) <= NThreads
    <3>1. IsInjective(readyQ'[p])
      BY <2>2 DEF SchedInv, PlacedInv, Placed, ReadyDiscipline
    <3> QED BY <2>1, <3>1, QueueFits
  <2>4. j \in 1..NThreads /\ readyQ'[p][j] \in Threads
    BY <2>1, <2>3, ConstantsAssumption
  <2>5. passedOver'[p] = passedOver[p] /\ passedOver[p] \in Nat
    BY <1>2, <2>1 DEF FairTyped
  <2>6. CASE status[readyQ'[p][j]] # "READY"
    <3>1. waited'[readyQ'[p][j]] = 0
      BY <1>2, <2>4, <2>6
    <3>2. Allowed(j, p) \in Nat
      BY <2>4, AllowedSteps
    <3> QED BY <2>5, <3>1, <3>2
  <2>7. ASSUME NEW i \in j..Len(readyQ[p]), readyQ[p][i] = readyQ'[p][j]
        PROVE  waited'[readyQ'[p][j]] <= Allowed(j, p) + passedOver'[p]
    <3>1. Len(readyQ[p]) \in Nat /\ readyQ[p] \in Seq(Threads)
      BY DEF TypeInv, TypeOK, QueuesTyped
    <3>2. i \in 1..Len(readyQ[p]) /\ readyQ[p] # <<>> /\ j <= i
      BY <2>4, <3>1
    <3>3. waited[readyQ[p][i]] <= Allowed(i, p) + passedOver[p]
      BY <3>2 DEF PlaceInv
    <3>4. bMTInitialised
      BY <3>2 DEF NoQueues, NoneReady
    <3>5. IsInjective(readyQ[p])
      BY <3>4 DEF SchedInv, PlacedInv, Placed, ReadyDiscipline
    <3>6. i \in 1..NThreads
      BY <3>1, <3>2, <3>5, QueueFits, ConstantsAssumption
    <3>7. Allowed(i, p) \in Nat /\ Allowed(j, p) \in Nat /\ Allowed(i, p) <= Allowed(j, p)
      BY <2>4, <3>2, <3>6, AllowedSteps
    <3>8. waited'[readyQ'[p][j]] \in {0, waited[readyQ[p][i]]}
          /\ waited[readyQ[p][i]] \in Nat
      BY <1>2, <2>4, <2>7 DEF FairTyped
    <3> QED BY <2>5, <3>3, <3>7, <3>8, NoLonger
  <2> QED BY <1>1, <2>6, <2>7 DEF ReadyMoves
<1> QED BY <1>1, <1>3, <1>4, <1>5

\* A dispatch serves one priority, whose threads go forward; those of the others wait
\* for one dispatch more, and their priorities are passed over once more.
LEMMA FairDispatch ==
  ASSUME TypeInv, SchedInv, FairInv, Dispatch, FairNext
  PROVE  FairInv'
<1> USE DEF FairInv
<1>1. bMTInitialised /\ Placed /\ priorityIdx \in 0..15 /\ UNCHANGED bMTInitialised
  BY DEF Dispatch, SchedInv, PlacedInv, RunInv, TypeInv, TypeOK, GlobalsTyped,
     modeVars
<1>2. PICK d \in 1..15 :
        /\ ChosenAfter(d)
        /\ priorityIdx' = IdxAfter(priorityIdx, d)
        /\ LET p == PriorityAt(priorityIdx, d)
               t == Head(readyQ[p]) IN
             /\ readyQ' = [readyQ EXCEPT ![p] = Tail(@)]
             /\ curThreadID' = t
  BY DEF Dispatch
<1> DEFINE r == PriorityAt(priorityIdx, d)
<1>3. r \in Priorities
  <2>1. IdxAfter(priorityIdx, d) + 1 \in 1..15
    BY <1>1, Mod15 DEF IdxAfter
  <2> QED BY <2>1, MapEntries DEF PriorityAt, Priorities
<1>4. /\ readyQ[r] # <<>> /\ \A e \in 1..d-1 : readyQ[PriorityAt(priorityIdx, e)] = <<>>
      /\ readyQ' = [readyQ EXCEPT ![r] = Tail(@)] /\ curThreadID' = Head(readyQ[r])
  BY <1>2 DEF ChosenAfter
<1>5. \A p \in Priorities : p # r /\ readyQ[p] # <<>> =>
        \A e \in 1..d : PriorityAt(priorityIdx, e) # p
  BY <1>4
<1> HIDE DEF r
<1>6. \A p \in Priorities : readyQ[p] \in Seq(Threads) /\ Len(readyQ[p]) \in Nat
  BY DEF TypeInv, TypeOK, QueuesTyped
<1>7. Head(readyQ[r]) \in Threads /\ priority[Head(readyQ[r])] = r
  <2>1. Head(readyQ[r]) \in Threads /\ Head(readyQ[r]) \in ToSet(readyQ[r])
    BY <1>3, <1>4, <1>6, TailSet
  <2> QED BY <1>1, <1>3, <2>1 DEF Placed, ReadyDiscipline
<1>8. /\ passedOver' = [p \in Priorities |->
           IF readyQ[p] = <<>> \/ p = r THEN 0 ELSE passedOver[p] + 1]
      /\ waited' = [t \in Threads |->
           IF status'[t] = "READY" THEN waited[t] + 1 ELSE 0]
  BY <1>4, <1>7 DEF FairNext
<1>9. \A p \in Priorities :
        readyQ'[p] = IF p = r THEN Tail(readyQ[p]) ELSE readyQ[p]
  BY <1>3, <1>4 DEF TypeInv, TypeOK, QueuesTyped
<1>10. FairTyped'
  BY <1>8 DEF FairTyped
<1>11. GapInv'
  <2> SUFFICES ASSUME NEW p \in Priorities
               PROVE  /\ Unserved(p, priorityIdx', passedOver'[p])
                      /\ readyQ'[p] = <<>> => passedOver'[p] = 0
    BY DEF GapInv
  <2>1. CASE readyQ[p] = <<>> \/ p = r
    <3>1. passedOver'[p] = 0
      BY <1>8, <2>1
    <3> QED BY <3>1 DEF Unserved
  <2>2. CASE readyQ[p] # <<>> /\ p # r
    <3>1. passedOver'[p] = passedOver[p] + 1 /\ passedOver[p] \in Nat
      BY <1>8, <2>2 DEF FairTyped
    <3>2. Unserved(p, priorityIdx, passedOver[p])
      BY DEF GapInv
    <3>3. \A e \in 1..d : PriorityAt(priorityIdx, e) # p
      BY <1>5, <2>2
    <3>4. Unserved(p, IdxAfter(priorityIdx, d), passedOver[p] + 1)
      BY <1>1, <3>1, <3>2, <3>3, PassedOver
    <3> QED BY <1>2, <1>9, <2>2, <3>1, <3>4
  <2> QED BY <2>1, <2>2
<1>12. PlaceInv'
  <2> SUFFICES ASSUME NEW p \in Priorities, NEW j \in 1..Len(readyQ'[p])
               PROVE  waited'[readyQ'[p][j]] <= Allowed(j, p) + passedOver'[p]
    BY DEF PlaceInv, Allowed
  <2> DEFINE i == IF p = r THEN j + 1 ELSE j
  <2>1. i \in 1..Len(readyQ[p]) /\ readyQ'[p][j] = readyQ[p][i] /\ j \in 1..Len(readyQ[p])
    <3>1. CASE p # r
      BY <1>9, <3>1
    <3>2. CASE p = r
      <4>1. readyQ'[p] = Tail(readyQ[p]) /\ readyQ[p] # <<>> /\ i = j + 1
        BY <1>4, <1>9, <3>2
      <4>2. /\ Len(Tail(readyQ[p])) = Len(readyQ[p]) - 1
            /\ \A k \in 1..Len(readyQ[p]) - 1 : Tail(readyQ[p])[k] = readyQ[p][k+1]
        BY <1>6, <4>1
      <4> HIDE DEF i
      <4> QED BY <1>6, <4>1, <4>2
    <3> QED BY <3>1, <3>2
  <2>2. /\ p = r => i = j + 1
        /\ p # r => i = j
    OBVIOUS
  <2> HIDE DEF i
  <2>3. Len(readyQ[p]) <= NThreads
    <3>1. IsInjective(readyQ[p])
      BY <1>1 DEF Placed, ReadyDiscipline
    <3> QED BY <1>6, <3>1, QueueFits
  <2>4. i \in 1..NThreads /\ j \in 1..NThreads /\ readyQ[p][i] \in Threads
        /\ readyQ[p] # <<>>
    BY <1>6, <2>1, <2>3, ConstantsAssumption
  <2>5. waited[readyQ[p][i]] <= Allowed(i, p) + passedOver[p]
    BY <2>1 DEF PlaceInv
  <2>6. waited'[readyQ'[p][j]] <= waited[readyQ[p][i]] + 1
        /\ waited'[readyQ'[p][j]] \in Nat /\ waited[readyQ[p][i]] \in Nat
    BY <1>8, <2>1, <2>4 DEF FairTyped
  <2>7. passedOver[p] \in Nat /\ passedOver[p] < MaxGap[p] /\ MaxGap[p] \in Nat
    <3>1. passedOver[p] \in Nat /\ Unserved(p, priorityIdx, passedOver[p])
      BY DEF FairTyped, GapInv
    <3>2. MaxGap[p] \in Nat
      BY Gaps DEF Priorities
    <3> QED BY <1>1, <3>1, <3>2, WithinGap
  <2>8. /\ Allowed(i, p) \in Nat /\ Allowed(j, p) \in Nat
        /\ i = j + 1 => Allowed(j, p) = Allowed(i, p) + MaxGap[p]
    BY <2>4, AllowedSteps
  <2> DEFINE w == waited[readyQ[p][i]]
             v == waited'[readyQ'[p][j]]
             a == Allowed(i, p)
             n == passedOver[p]
             g == MaxGap[p]
  <2>9. /\ w \in Nat /\ v \in Nat /\ a \in Nat /\ n \in Nat /\ g \in Nat
        /\ w <= a + n /\ v <= w + 1 /\ n < g
    BY <2>5, <2>6, <2>7, <2>8
  <2>10. /\ p = r => passedOver'[p] = 0 /\ Allowed(j, p) = a + g
         /\ p # r => passedOver'[p] = n + 1 /\ Allowed(j, p) = a
    <3>1. passedOver'[p] = IF p = r THEN 0 ELSE n + 1
      BY <1>8, <2>4
    <3>2. p = r => Allowed(j, p) = a + g
      BY <2>2, <2>8
    <3>3. p # r => Allowed(j, p) = a
      BY <2>2
    <3> QED BY <3>1, <3>2, <3>3
  <2> HIDE DEF w, v, a, n, g
  <2>11. v <= a + (n + 1) /\ v <= (a + g) + 0
    BY <2>9, OneMore
  <2>12. v <= Allowed(j, p) + passedOver'[p]
    <3>1. CASE p = r BY <2>10, <2>11, <3>1
    <3>2. CASE p # r BY <2>10, <2>11, <3>2
    <3> QED BY <3>1, <3>2
  <2> QED BY <2>12 DEF v
<1>13. NoQueues'
  BY <1>1 DEF NoQueues
<1> QED BY <1>10, <1>11, <1>12, <1>13

LEMMA FairKept ==
  TypeInv /\ TypeInv' /\ SchedInv /\ SchedInv' /\ FairInv /\ [FairNext]_fairVars
    => FairInv'
<1> SUFFICES ASSUME TypeInv, TypeInv', SchedInv, SchedInv', FairInv,
                    [FairNext]_fairVars
             PROVE  FairInv'
  OBVIOUS
<1>1. CASE Dispatch /\ FairNext
  BY <1>1, FairDispatch
<1>2. CASE ~Dispatch /\ FairNext
  BY <1>2, FairBetween DEF FairNext
<1>3. CASE UNCHANGED fairVars
  <2>1. UNCHANGED <<passedOver, waited, readyQ, priorityIdx, bMTInitialised>>
    BY <1>3 DEF fairVars, vars, queueVars, globalVars, schedVars, modeVars
  <2> QED BY <2>1 DEF FairInv, FairTyped, GapInv, PlaceInv, NoQueues, NoneReady
<1> QED BY <1>1, <1>2, <1>3

\* The history variables leave the kernel as it is.
LEMMA FairIsKernel == FairShareSpec => Spec
<1>1. FairInit => Init
  BY DEF FairInit
<1>2. [FairNext]_fairVars => [Next]_vars
  BY DEF FairNext, fairVars, Next, Scheduler
<1> QED BY <1>1, <1>2, PTL DEF FairShareSpec, Spec

LEMMA FairSound ==
  FairInv /\ TypeInv /\ SchedInv => ServedWithinGap /\ BoundedWaiting
<1> SUFFICES ASSUME FairInv, TypeInv, SchedInv PROVE ServedWithinGap /\ BoundedWaiting
  OBVIOUS
<1>1. ASSUME NEW p \in Priorities
      PROVE  /\ passedOver[p] \in Nat /\ passedOver[p] < MaxGap[p]
             /\ MaxGap[p] \in Nat
  <2>1. priorityIdx \in 0..15 /\ MaxGap[p] \in Nat
    BY Gaps DEF TypeInv, TypeOK, GlobalsTyped, Priorities
  <2>2. passedOver[p] \in Nat /\ Unserved(p, priorityIdx, passedOver[p])
    BY DEF FairInv, FairTyped, GapInv
  <2> QED BY <2>1, <2>2, WithinGap
<1>2. ASSUME bMTInitialised, NEW t \in Threads, status[t] = "READY"
      PROVE  waited[t] < NThreads * MaxGap[priority[t]]
  <2> DEFINE p == priority[t]
  <2>1. p \in Priorities /\ readyQ[p] \in Seq(Threads)
    BY DEF TypeInv, TypeOK, ThreadsTyped, QueuesTyped
  <2>2. t \in ToSet(readyQ[p]) /\ IsInjective(readyQ[p])
    BY <1>2, <2>1 DEF SchedInv, PlacedInv, Placed, ReadyDiscipline
  <2>3. PICK j \in 1..Len(readyQ[p]) : readyQ[p][j] = t
    BY <2>1, <2>2, Member
  <2>4. j \in 1..NThreads
    BY <2>1, <2>2, QueueFits, ConstantsAssumption
  <2>5. waited[t] <= Allowed(j, p) + passedOver[p] /\ waited[t] \in Nat
    BY <2>1, <2>3 DEF FairInv, FairTyped, PlaceInv
  <2>6. Allowed(j, p) \in Nat /\ Allowed(j, p) <= NThreads * MaxGap[p] - MaxGap[p]
    BY <2>1, <2>4, AllowedSteps
  <2>7. NThreads * MaxGap[p] \in Nat
    BY <1>1, <2>1, ConstantsAssumption
  <2> HIDE DEF p
  <2> DEFINE b == NThreads * MaxGap[p]
  <2>8. b \in Nat /\ Allowed(j, p) <= b - MaxGap[p]
    BY <2>6, <2>7
  <2> HIDE DEF b
  <2>9. waited[t] < b
    BY <1>1, <2>1, <2>5, <2>6, <2>8
  <2> QED BY <2>9 DEF b, p
<1> QED BY <1>1, <1>2 DEF ServedWithinGap, BoundedWaiting

\* scheduleMap starves no priority and no thread: a priority that has READY threads is
\* passed over for less than the largest gap between its entries, and a READY thread
\* is dispatched before each place of its queue has been served so late, for any
\* number of threads.
THEOREM FairShare ==
  FairShareSpec /\ NoSleeperKilled => [](ServedWithinGap /\ BoundedWaiting)
<1>1. Spec /\ NoSleeperKilled => [](TypeInv /\ SchedInv)
  BY SchedCorrect, TypeCorrect, PTL
<1>2. FairInit /\ [][FairNext]_fairVars /\ [](TypeInv /\ SchedInv) => []FairInv
  BY FairStart, FairKept, PTL
<1> QED BY <1>1, <1>2, FairIsKernel, FairSound, PTL DEF FairShareSpec

\* So it is in every application that does not both sleep and kill.
COROLLARY FairShareByCalls ==
  ASSUME "Sleep" \notin Calls \/ "KillThread" \notin Calls
  PROVE  FairShareSpec => [](ServedWithinGap /\ BoundedWaiting)
<1>1. Spec => [](TypeInv /\ SchedInv)
  BY SchedByCalls, TypeCorrect, PTL
<1>2. FairInit /\ [][FairNext]_fairVars /\ [](TypeInv /\ SchedInv) => []FairInv
  BY FairStart, FairKept, PTL
<1> QED BY <1>1, <1>2, FairIsKernel, FairSound, PTL DEF FairShareSpec
=============================================================================

---------------------------- MODULE ThreadQueues ----------------------------
(***************************************************************************)
(* The intrusive doubly-linked queues of dos/mthread.c.  All queues thread *)
(* through the one prevID/nextID pair of each thread context, and a thread *)
(* that has been dequeued keeps its old links.  The auxiliary variable     *)
(* queue records the calls; the links are what the code computes.          *)
(***************************************************************************)
EXTENDS Naturals, Sequences, SequencesExt

CONSTANTS
  Threads,   \* thread IDs; 0 is none
  Queues,    \* the queues that are first in, first out
  SleepQ,    \* the queue MTSleep keeps in order of wake-up time
  Times      \* values of wakeUpTime (bound)

AllQueues == Queues \union {SleepQ}

ASSUME LinksAssumption ==
  /\ Threads \subseteq Nat \ {0}
  /\ SleepQ \notin Queues
  /\ Times \subseteq Nat

VARIABLES
  prevID, nextID, wakeUpTime,   \* of threads[]
  QHead, QTail,                 \* of each queue
  sleeper, threadIdx,           \* of a MTSleep in its loop; 0 outside it
  out,                          \* what the last DequeueThread returned
  queue                         \* auxiliary: the sequence each queue stands for

walkVars == <<sleeper, threadIdx>>
linkVars == <<prevID, nextID, wakeUpTime, QHead, QTail, walkVars, out, queue>>

ThreadID == Threads \union {0}

Queued(t) == \E q \in AllQueues : t \in ToSet(queue[q])

LinkTypeOK ==
  /\ prevID \in [Threads -> ThreadID]
  /\ nextID \in [Threads -> ThreadID]
  /\ wakeUpTime \in [Threads -> Nat]
  /\ QHead \in [AllQueues -> ThreadID]
  /\ QTail \in [AllQueues -> ThreadID]
  /\ sleeper \in ThreadID
  /\ threadIdx \in ThreadID
  /\ out \in ThreadID
  /\ queue \in [AllQueues -> Seq(Threads)]

Init ==
  /\ prevID = [t \in Threads |-> 0]
  /\ nextID = [t \in Threads |-> 0]
  /\ wakeUpTime = [t \in Threads |-> 0]
  /\ QHead = [q \in AllQueues |-> 0]
  /\ QTail = [q \in AllQueues |-> 0]
  /\ sleeper = 0
  /\ threadIdx = 0
  /\ out = 0
  /\ queue = [q \in AllQueues |-> <<>>]

\* Variant: the second thread of a queue does not learn who is before it.
EnqueueOneWay(t, q) ==
  /\ QTail' = [QTail EXCEPT ![q] = t]
  /\ nextID' = [nextID EXCEPT ![QTail[q]] = t, ![t] = 0]
  /\ UNCHANGED <<QHead, prevID>>
\* EnqueueThread behind the tail.
EnqueueLast(t, q) ==
  /\ QTail' = [QTail EXCEPT ![q] = t]
  /\ nextID' = [nextID EXCEPT ![QTail[q]] = t, ![t] = 0]
  /\ prevID' = [prevID EXCEPT ![t] = QTail[q]]
  /\ UNCHANGED QHead

EnqueueFirst(t, q) ==
  /\ QHead' = [QHead EXCEPT ![q] = t]
  /\ QTail' = [QTail EXCEPT ![q] = t]
  /\ prevID' = [prevID EXCEPT ![t] = 0]
  /\ nextID' = [nextID EXCEPT ![t] = 0]

EnqueueThread(t, q) ==
  /\ sleeper = 0 /\ ~Queued(t)
  /\ IF QHead[q] = 0 THEN EnqueueFirst(t, q) ELSE EnqueueLast(t, q)
  /\ queue' = [queue EXCEPT ![q] = Append(@, t)]
  /\ out' = 0
  /\ UNCHANGED <<wakeUpTime, walkVars>>

DequeueThread(q) ==
  /\ sleeper = 0
  /\ out' = QHead[q]
  /\ \/ QHead[q] = 0 /\ UNCHANGED <<QHead, QTail, prevID, queue>>
     \/ /\ QHead[q] # 0 /\ QHead[q] = QTail[q]
        /\ QHead' = [QHead EXCEPT ![q] = 0]
        /\ QTail' = [QTail EXCEPT ![q] = 0]
        /\ queue' = [queue EXCEPT ![q] = Tail(@)]
        /\ UNCHANGED prevID
     \/ /\ QHead[q] # 0 /\ QHead[q] # QTail[q]
        /\ QHead' = [QHead EXCEPT ![q] = nextID[QHead[q]]]
        /\ prevID' = [prevID EXCEPT ![nextID[QHead[q]]] = 0]
        /\ queue' = [queue EXCEPT ![q] = Tail(@)]
        /\ UNCHANGED QTail
  /\ UNCHANGED <<nextID, wakeUpTime, walkVars>>

\* Variant: the queue's tail is left alone.
ExtractKeepsTail(t, q) == UNCHANGED QTail
\* ExtractThread moves the tail back when the last thread goes.
ExtractTail(t, q) ==
  IF nextID[t] = 0 THEN QTail' = [QTail EXCEPT ![q] = prevID[t]]
                   ELSE UNCHANGED QTail

ExtractThread(t, q) ==
  /\ sleeper = 0 /\ t \in ToSet(queue[q])
  /\ IF prevID[t] = 0
     THEN QHead' = [QHead EXCEPT ![q] = nextID[t]] /\ UNCHANGED nextID
     ELSE nextID' = [nextID EXCEPT ![prevID[t]] = nextID[t]] /\ UNCHANGED QHead
  /\ ExtractTail(t, q)
  /\ IF nextID[t] = 0
     THEN UNCHANGED prevID
     ELSE prevID' = [prevID EXCEPT ![nextID[t]] = prevID[t]]
  /\ \E i \in DOMAIN queue[q] :
       queue[q][i] = t /\ queue' = [queue EXCEPT ![q] = RemoveAt(@, i)]
  /\ out' = 0
  /\ UNCHANGED <<wakeUpTime, walkVars>>
-----------------------------------------------------------------------------
(* MTSleep, all of it in one critical section: no other queue operation     *)
(* starts before its loop has ended.                                       *)

SleepFirst(t, due) ==
  /\ sleeper = 0 /\ ~Queued(t) /\ QHead[SleepQ] = 0
  /\ wakeUpTime' = [wakeUpTime EXCEPT ![t] = due]
  /\ EnqueueFirst(t, SleepQ)
  /\ queue' = [queue EXCEPT ![SleepQ] = <<t>>]
  /\ out' = 0
  /\ UNCHANGED walkVars

SleepWalk(t, due) ==
  /\ sleeper = 0 /\ ~Queued(t) /\ QHead[SleepQ] # 0
  /\ wakeUpTime' = [wakeUpTime EXCEPT ![t] = due]
  /\ sleeper' = t
  /\ threadIdx' = QTail[SleepQ]
  /\ UNCHANGED <<prevID, nextID, QHead, QTail, out, queue>>

\* Variants: the wake-up times are not compared; equals are walked past.
WalksToHead == threadIdx # QHead[SleepQ]
WalksPastEquals == /\ threadIdx # QHead[SleepQ]
                   /\ wakeUpTime[threadIdx] >= wakeUpTime[sleeper]
\* The condition of the while loop: later than the sleeper, and not the head.
WalksOn == /\ threadIdx # QHead[SleepQ]
           /\ wakeUpTime[threadIdx] > wakeUpTime[sleeper]

SleepWalkOn ==
  /\ sleeper # 0 /\ WalksOn
  /\ threadIdx' = prevID[threadIdx]
  /\ UNCHANGED <<prevID, nextID, wakeUpTime, QHead, QTail, sleeper, out, queue>>

\* The loop reached the head, and the head is later too.
InFront == /\ threadIdx = QHead[SleepQ]
           /\ wakeUpTime[QHead[SleepQ]] > wakeUpTime[sleeper]

SleepInFront ==
  /\ sleeper # 0 /\ ~WalksOn /\ InFront
  /\ QHead' = [QHead EXCEPT ![SleepQ] = sleeper]
  /\ prevID' = [prevID EXCEPT ![sleeper] = 0, ![threadIdx] = sleeper]
  /\ nextID' = [nextID EXCEPT ![sleeper] = threadIdx]
  /\ queue' = [queue EXCEPT ![SleepQ] = <<sleeper>> \o @]
  /\ UNCHANGED QTail

\* The thread behind the sleeper, if there is one, gets it as predecessor.
SleepPrev ==
  IF threadIdx = QTail[SleepQ]
  THEN [prevID EXCEPT ![sleeper] = threadIdx]
  ELSE [prevID EXCEPT ![sleeper] = threadIdx, ![nextID[threadIdx]] = sleeper]

SleepBehind ==
  /\ sleeper # 0 /\ ~WalksOn /\ ~InFront
  /\ QTail' = IF threadIdx = QTail[SleepQ]
              THEN [QTail EXCEPT ![SleepQ] = sleeper] ELSE QTail
  /\ prevID' = SleepPrev
  /\ nextID' = [nextID EXCEPT ![sleeper] = nextID[threadIdx],
                              ![threadIdx] = sleeper]
  /\ \E i \in DOMAIN queue[SleepQ] :
       /\ queue[SleepQ][i] = threadIdx
       /\ queue' = [queue EXCEPT ![SleepQ] = InsertAt(@, i + 1, sleeper)]
  /\ UNCHANGED QHead

SleepInsert ==
  /\ SleepInFront \/ SleepBehind
  /\ sleeper' = 0 /\ threadIdx' = 0 /\ out' = 0
  /\ UNCHANGED wakeUpTime
-----------------------------------------------------------------------------
Next ==
  \/ \E t \in Threads, q \in Queues : EnqueueThread(t, q) \/ ExtractThread(t, q)
  \/ \E q \in AllQueues : DequeueThread(q)
  \/ \E t \in Threads, due \in Times : SleepFirst(t, due) \/ SleepWalk(t, due)
  \/ SleepWalkOn \/ SleepInsert

Spec == Init /\ [][Next]_linkVars

\* The links of queue q are those of the sequence s.
Represents(q, s) ==
  /\ IF s = <<>> THEN QHead[q] = 0
     ELSE /\ QHead[q] = s[1] /\ QTail[q] = s[Len(s)]
          /\ prevID[s[1]] = 0 /\ nextID[s[Len(s)]] = 0
  /\ \A i \in 1..Len(s)-1 : nextID[s[i]] = s[i+1] /\ prevID[s[i+1]] = s[i]

\* Whatever operations were called in whatever order on however many queues that
\* share the links, each queue's links spell out its sequence, both ways.
LinksRepresent == \A q \in AllQueues : Represents(q, queue[q])

\* A thread is in one queue at most, and there once: what ~Queued protects.
QueuedOnce ==
  /\ \A q \in AllQueues : IsInjective(queue[q])
  /\ \A q, r \in AllQueues :
       q # r => ToSet(queue[q]) \intersect ToSet(queue[r]) = {}

\* WakeUpSleepingThreads may stop at the first thread that is not due.
SleepSorted ==
  \A i, j \in DOMAIN queue[SleepQ] :
    i < j => wakeUpTime[queue[SleepQ][i]] <= wakeUpTime[queue[SleepQ][j]]

\* Threads due at the same time wake up in the order they went to sleep, and the
\* walk has only threads due later than the sleeper behind it.
WalkBetween ==
  sleeper # 0 =>
    /\ ~Queued(sleeper)
    /\ \E i \in DOMAIN queue[SleepQ] :
         /\ queue[SleepQ][i] = threadIdx
         /\ \A j \in i+1..Len(queue[SleepQ]) :
              wakeUpTime[queue[SleepQ][j]] > wakeUpTime[sleeper]

Fifo == INSTANCE FifoQueues WITH Queues <- AllQueues

\* The links implement the queues: what DequeueThread returns is the head.
ImplementsFifo == Fifo!Spec
=============================================================================

----------------------------- MODULE FifoQueues -----------------------------
(***************************************************************************)
(* What the thread queues of dos/mthread.c promise their callers: each     *)
(* queue is a sequence of threads, a thread is in at most one of them, and *)
(* the first in is the first out.                                          *)
(***************************************************************************)
EXTENDS Naturals, Sequences, SequencesExt

CONSTANTS
  Threads,   \* thread IDs, not 0
  Queues     \* the ready queues, semaphores and mailboxes, and the sleep queue

VARIABLES
  queue,     \* contents of each queue, front first
  out        \* what the last DequeueThread returned

Queued(t) == \E q \in Queues : t \in ToSet(queue[q])

Init == queue = [q \in Queues |-> <<>>] /\ out = 0

Enqueue(t, q) ==
  /\ ~Queued(t)
  /\ queue' = [queue EXCEPT ![q] = Append(@, t)]
  /\ out' = 0

Dequeue(q) ==
  IF queue[q] = <<>>
  THEN out' = 0 /\ UNCHANGED queue
  ELSE out' = Head(queue[q]) /\ queue' = [queue EXCEPT ![q] = Tail(@)]

Extract(t, q) ==
  \E i \in DOMAIN queue[q] :
    /\ queue[q][i] = t
    /\ queue' = [queue EXCEPT ![q] = RemoveAt(@, i)]
    /\ out' = 0

\* MTSleep may join anywhere.
Insert(t, q) ==
  /\ ~Queued(t)
  /\ \E i \in 1..Len(queue[q]) + 1 :
       queue' = [queue EXCEPT ![q] = InsertAt(@, i, t)]
  /\ out' = 0

Next == \E q \in Queues :
          \/ Dequeue(q)
          \/ \E t \in Threads : Enqueue(t, q) \/ Extract(t, q) \/ Insert(t, q)

Spec == Init /\ [][Next]_<<queue, out>>
=============================================================================

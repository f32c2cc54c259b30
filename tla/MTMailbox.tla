----------------------------- MODULE MTMailbox -----------------------------
(***************************************************************************)
(* The mailboxes of dos/mthread.c on top of the MicroThread kernel: send   *)
(* and receive meet, whoever comes first waits in the mailbox's one queue. *)
(* A message is its sender and its size; names are left out, a thread      *)
(* knows the handles.  A call on a mailbox not in use returns 0 and changes *)
(* nothing.                                                                *)
(***************************************************************************)
EXTENDS MicroThread, FiniteSets, FiniteSetsExt

CONSTANTS
  NMailboxes,     \* MAX_MAILBOXES - 1
  MsgSizes,       \* sizes of the messages and of the receivers' buffers
  MailboxCalls    \* the mailbox calls the application makes

ASSUME MailboxAssumption ==
  /\ NMailboxes \in Nat \ {0}
  /\ MsgSizes \subseteq Nat
  /\ MailboxCalls \subseteq {"Send", "Receive", "CreateMailbox", "DestroyMailbox"}

Mailboxes == 1..NMailboxes

VARIABLES
  mbInUse, numSenders, numReceivers, mbQ,   \* mailboxes[]
  msgSize,                                  \* of threads[]
  mbCall,   \* the mailbox call a thread is blocked in, and on which mailbox
  moved     \* history: the messages moved by that call, in its absence

boxVars  == <<mbInUse, numSenders, numReceivers, mbQ>>
callVars == <<msgSize, mbCall, moved>>
mbVars   == <<boxVars, callVars>>

NoCall == [op |-> "none", box |-> 0]

MailboxInit ==
  /\ Init
  /\ mbInUse = [m \in Mailboxes |-> FALSE]
  /\ numSenders = [m \in Mailboxes |-> 0]
  /\ numReceivers = [m \in Mailboxes |-> 0]
  /\ mbQ = [m \in Mailboxes |-> <<>>]
  /\ msgSize = [t \in Threads |-> 0]
  /\ mbCall = [t \in Threads |-> NoCall]
  /\ moved = [t \in Threads |-> <<>>]

\* A mailbox call of thread t, made outside the critical sections it enters.
MailboxCall(t, c) == InThread(t, "app") /\ depth[t] = 0 /\ c \in MailboxCalls
-----------------------------------------------------------------------------
\* MTCreateMailbox takes the first mailbox not in use, as it was left.
MTCreateMailbox ==
  /\ cpu = "main" \/ \E t \in Threads : MailboxCall(t, "CreateMailbox")
  /\ "CreateMailbox" \in MailboxCalls
  /\ \E m \in Mailboxes :
       /\ ~mbInUse[m] /\ \A l \in 1..m-1 : mbInUse[l]
       /\ mbInUse' = [mbInUse EXCEPT ![m] = TRUE]
  /\ UNCHANGED <<vars, numSenders, numReceivers, mbQ, callVars>>

\* "Is it still in use?": the mailbox goes only if some thread waits on it.
MTDestroyMailbox(t) ==
  /\ MailboxCall(t, "DestroyMailbox")
  /\ \E m \in Mailboxes :
       /\ numSenders[m] > 0 \/ numReceivers[m] > 0
       /\ mbInUse' = [mbInUse EXCEPT ![m] = FALSE]
  /\ UNCHANGED <<vars, numSenders, numReceivers, mbQ, callVars>>

\* Caller t meets the first thread waiting on m: n bytes, the shorter of message
\* and buffer, go over, and the waiting thread becomes READY.
Meet(m, t, size, op) ==
  LET w == Head(mbQ[m])
      n == Min({size, msgSize[w]})
  IN /\ mbQ' = [mbQ EXCEPT ![m] = Tail(@)]
     /\ msgSize' = [msgSize EXCEPT ![w] = n]
     /\ moved' = [moved EXCEPT ![w] = Append(@,
          [from |-> IF op = "send" THEN t ELSE w,
           to   |-> IF op = "send" THEN w ELSE t, size |-> n])]
     /\ status' = [status EXCEPT ![w] = "READY"]
     /\ readyQ' = EnqueueReady(readyQ, w, priority[w])
     /\ UNCHANGED <<pc, frame, mbCall>>

\* Nobody to meet: wait in the mailbox's queue and leave the processor.
Block(m, t, size, op) ==
  /\ mbQ' = [mbQ EXCEPT ![m] = Append(@, t)]
  /\ msgSize' = [msgSize EXCEPT ![t] = size]
  /\ mbCall' = [mbCall EXCEPT ![t] = [op |-> op, box |-> m]]
  /\ status' = [status EXCEPT ![t] = "WAITING"]
  /\ Suspend(t, "leave", "app", 0, 0)
  /\ UNCHANGED <<readyQ, moved>>

\* What a mailbox call leaves alone.
CallKeeps == UNCHANGED <<priority, semaphore, wakeUpTime, ownStack, sleepQ,
                         semVars, globalVars, iCriticalSection, cpu, held, depth,
                         mbInUse>>

MTSendMsg(t) ==
  /\ MailboxCall(t, "Send") /\ CanEnter
  /\ \E m \in Mailboxes, size \in MsgSizes :
       /\ mbInUse[m]
       /\ IF numReceivers[m] > 0
          THEN /\ Meet(m, t, size, "send")
               /\ numReceivers' = [numReceivers EXCEPT ![m] = @ - 1]
               /\ UNCHANGED numSenders
          ELSE /\ Block(m, t, size, "send")
               /\ numSenders' = [numSenders EXCEPT ![m] = @ + 1]
               /\ UNCHANGED numReceivers
  /\ CallKeeps

\* Variant: a receiver meets whoever waits.
AnyoneWaits(m) == mbQ[m] # <<>>
SenderWaits(m) == numSenders[m] > 0

MTReceiveMsg(t) ==
  /\ MailboxCall(t, "Receive") /\ CanEnter
  /\ \E m \in Mailboxes, size \in MsgSizes :
       /\ mbInUse[m]
       /\ IF SenderWaits(m)
          THEN /\ Meet(m, t, size, "receive")
               /\ numSenders' = [numSenders EXCEPT ![m] = @ - 1]
               /\ UNCHANGED numReceivers
          ELSE /\ Block(m, t, size, "receive")
               /\ numReceivers' = [numReceivers EXCEPT ![m] = @ + 1]
               /\ UNCHANGED numSenders
  /\ CallKeeps
-----------------------------------------------------------------------------
(* The kernel's own steps.                                                 *)

\* Variant: the mailboxes are left as the last run left them.
KeepMailboxes == UNCHANGED <<boxVars, msgSize>>
\* MTInitialise empties the mailboxes; TidyUp does not.
ResetMailboxes ==
  /\ mbInUse' = [m \in Mailboxes |-> FALSE]
  /\ numSenders' = [m \in Mailboxes |-> 0]
  /\ numReceivers' = [m \in Mailboxes |-> 0]
  /\ mbQ' = [m \in Mailboxes |-> <<>>]
  /\ msgSize' = [t \in Threads |-> 0]

\* A blocked call returns msgSize, wherever in the meantime the thread was.
Returns(t) ==
  /\ mbCall' = [mbCall EXCEPT ![t] = NoCall]
  /\ moved' = [moved EXCEPT ![t] = <<>>]
  /\ UNCHANGED msgSize

KernelStep ==
  \/ MTInitialise /\ ResetMailboxes /\ UNCHANGED <<mbCall, moved>>
  \/ \E t \in Threads : LeaveResumed(t) /\ Returns(t) /\ UNCHANGED boxVars
  \/ /\ TidyUp
     /\ mbCall' = [t \in Threads |-> NoCall]
     /\ moved' = [t \in Threads |-> <<>>]
     /\ UNCHANGED <<boxVars, msgSize>>
  \/ /\ Next /\ ~MTInitialise /\ ~TidyUp /\ ~\E t \in Threads : LeaveResumed(t)
     /\ UNCHANGED mbVars

MailboxNext ==
  \/ MTCreateMailbox
  \/ \E t \in Threads : MTSendMsg(t) \/ MTReceiveMsg(t) \/ MTDestroyMailbox(t)
  \/ KernelStep

MailboxSpec == MailboxInit /\ [][MailboxNext]_<<vars, mbVars>>
-----------------------------------------------------------------------------
Waiting(m, op) == {t \in Threads :
                     status[t] = "WAITING" /\ mbCall[t] = [op |-> op, box |-> m]}

\* The two counters say who is in a mailbox's one queue: senders or receivers,
\* never both, each of them once.  A send that met a sender would copy over its
\* message.
OneSided ==
  bMTInitialised =>
    \A m \in Mailboxes :
      /\ IsInjective(mbQ[m])
      /\ ToSet(mbQ[m]) = Waiting(m, "send") \union Waiting(m, "receive")
      /\ numSenders[m] = Cardinality(Waiting(m, "send"))
      /\ numReceivers[m] = Cardinality(Waiting(m, "receive"))
      /\ numSenders[m] = 0 \/ numReceivers[m] = 0

\* A thread that blocks in MTSendMsg or MTReceiveMsg runs on only when exactly one
\* message has moved, from the sender to the receiver, and the size it returns is
\* that message's.
OneMessagePerCall ==
  \A t \in Threads : mbCall[t].op # "none" =>
    IF status[t] = "WAITING" THEN moved[t] = <<>>
    ELSE /\ Len(moved[t]) = 1
         /\ moved[t][1].size = msgSize[t]
         /\ t = IF mbCall[t].op = "send" THEN moved[t][1].from ELSE moved[t][1].to
=============================================================================

---------------------------- MODULE MTFairShare ----------------------------
(***************************************************************************)
(* How long ChooseNextThread lets a READY thread wait: MicroThread with    *)
(* two history variables that count dispatches and change nothing else.    *)
(***************************************************************************)
EXTENDS MicroThread

VARIABLES
  passedOver,  \* per priority: dispatches since its queue was served or empty
  waited       \* per thread: dispatches since it became READY

fairVars == <<vars, passedOver, waited>>

\* The largest distance between two entries of a priority in scheduleMap, the
\* map being read round and round.
MaxGap == <<15, 9, 6, 5, 3>>

FairInit ==
  /\ Init
  /\ passedOver = [p \in Priorities |-> 0]
  /\ waited = [t \in Threads |-> 0]

FairNext ==
  \/ /\ Dispatch
     /\ passedOver' = [p \in Priorities |->
          IF readyQ[p] = <<>> \/ priority[curThreadID'] = p THEN 0
          ELSE passedOver[p] + 1]
     /\ waited' = [t \in Threads |->
          IF status'[t] = "READY" THEN waited[t] + 1 ELSE 0]
  \/ /\ Next /\ ~Dispatch
     /\ passedOver' = [p \in Priorities |->
          IF readyQ'[p] = <<>> THEN 0 ELSE passedOver[p]]
     /\ waited' = [t \in Threads |->
          IF status'[t] = "READY" /\ status[t] = "READY" THEN waited[t] ELSE 0]

FairShareSpec == FairInit /\ [][FairNext]_fairVars

\* scheduleMap serves a priority that has READY threads at the latest at its
\* next entry: at most MaxGap - 1 dispatches pass it over.
ServedWithinGap ==
  \A p \in Priorities : passedOver[p] < MaxGap[p]

\* So a READY thread of any priority, with any number of threads before it, is
\* dispatched within a bounded number of dispatches.
BoundedWaiting ==
  bMTInitialised =>
    \A t \in Threads : status[t] = "READY" =>
      waited[t] < NThreads * MaxGap[priority[t]]
=============================================================================

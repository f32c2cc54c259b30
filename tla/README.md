# FamilyAPI: a verification project

FamilyAPI lets programs written to the 16-bit OS/2 API run under DOS: a set of
static and dynamic libraries whose entry points (DOSCALLS, VIOCALLS, KBDCALLS, ...)
are implemented over INT 21H, the BIOS, DPMI and, for threads, a small kernel of
its own (`dos/mthread.c`, "MicroThread"). This directory holds TLA+ models of its
parts, the TLC runs that check them, and proofs that TLAPS checks.

## The system: inventory

| part | state it keeps | operations | who it talks to | what is hard | what makes it correct |
|---|---|---|---|---|---|
| MicroThread kernel, `dos/mthread.c` | thread table (status, priority, stack, wake-up time, queue links), semaphores, mailboxes, five ready queues, sleep queue, current thread, critical nesting, clock | start, stop, add/kill/end thread, wait, signal, test-and-set, critical sections, sleep, yield, mailboxes; scheduler; timer and Ctrl-Break handlers | memory manager (stacks), BIOS timer vector, DOS busy flag | preemption at any instruction, handing over the processor in the middle of a call, links shared by all queues, killing a thread in any state | one queue per thread, no dead thread dispatched, critical sections freeze the others, no starvation, sleepers wake, sound deadlock report |
| Process services, `dos/Dos*.asm` (exit list, signals, exec, exit) | exit routine slot, signal handler tables, interrupt vectors | DosExitList, DosSetSigHandler, DosHoldSignal, DosExecPgm, DosExit | interrupt vectors, DOS | two of the handlers share the vector of INT 21H and remove themselves at the process's end, tables that go stale | vectors lead over what is installed to DOS, each routine runs once at the end |
| System information, path search, environment | none of its own | DosSearchPath, DosScanEnv, DosGetEnv, DosDevConfig, ... | KAL segments, FM | string edges | the first match in the path wins |
| DosCopy, `dos/DosCopy.c` | open handles, buffer, find handle | copy file, copy tree | FM | an error between any two calls, handles and a selector that were never set | everything opened is closed on every path, an error reaches the caller |
| Kernel API layer, `kal/` | global and local information segments, boot drive, environment, DPMI/LFN/SHARE flags | initialisation | DOS, DPMI | early exits, order of steps | initialised means all steps done |
| File manager, `fm/` | default drive, DTA, search handles; DOS keeps the handle table | open, read, write, seek, find, rename, info, ... | DOS INT 21H (external) | carry and error paths, buffers, find handles | handles and buffers balanced, errors passed on |
| Memory manager, `mem/dos/16bit/` | shared-segment slot per mode, suballocation lists | segments, huge segments, shared segments, suballocation, in real and in DPMI mode | DOS/DPMI memory (external) | one slot for all names, sizes of 64 KiB | what is got was allocated and not freed |
| Module manager, loader, `mm/`, `loader/` | module block with its segment table, segments in DOS memory | read headers and tables, allocate, load, relocate | DOS INT 21H (external) | chains that run through the words they overwrite, a table pointer and a number that drift apart, refused memory taken for a handle | each loaded segment is in its block and relocated, nothing else is written, the loader ends |
| Video router and base video, `vio/`, `bvs/` | alternate subsystem handle and mask, cursor, mode | register, deregister, route; 41 functions | MM, BIOS | routing by return code, partial registration | a call reaches the subsystem registered for it |
| Device control, `ioctl/` | a few saved settings | DosDevIOCtl by category and function | BIOS, DOS | bounds of the dispatch tables | a function code reaches its own handler |
| National language, `nls/` | none | case map, messages, code page, country | DOS | buffer edges | truncation is reported |
| Keyboard, mouse (`kbd/ mou/ bks/ bms/`) | - | - | - | - | no code in the repository |

`PROJECT.json` lists each component with its files and status, and under
`hazards` every place where this code can go wrong in a way a test would hardly
reach. `src/tests/fapi.c` tests single calls; nothing in it runs two threads.

## Modules

| module | stands for | extends |
|---|---|---|
| `MicroThread` | threads, scheduler, semaphores, critical sections, sleep, kill, timer, Ctrl-Break: `dos/mthread.c` without mailboxes | |
| `MTMailbox` | mailboxes: create, destroy, send, receive, and what start and stop do to them | `MicroThread` |
| `MTFairShare` | the kernel with two history variables that count dispatches, for the policy of `ChooseNextThread` | `MicroThread` |
| `ThreadQueues` | the intrusive queues: `EnqueueThread`, `DequeueThread`, `ExtractThread` and the insertion loop of `MTSleep`, on `prevID`/`nextID` | |
| `FifoQueues` | abstract: what the queues promise | |
| `Loader`, `MCLoader` | the NE loader: `main` and `apply_relocations` of `loader/loader.c` with `GlobalAlloc` (`ginterf.c`) and `_lread` (`file.c`); the small executables it is run on | |
| `DosCopy` | `dos/DosCopy.c` composed with `fm/DosOpen.asm` | |
| `ExitSignals` | `dos/DosExitList.asm` and `dos/DosSetSigHandler.asm` on the interrupt vectors they share | |
| `QueueLemmas` | facts about sequences without repetition, and in order, used by the proofs | |
| `MicroThread_proofs` | theorems of `MicroThread`: types, critical sections, queues, dispatching, deadlock, sleep, semaphores | `MicroThread`, `QueueLemmas` |
| `MTMailbox_proofs` | theorems of `MTMailbox` | `MTMailbox`, `MicroThread_proofs` |
| `MTFairShare_proofs` | theorems of `MTFairShare` | `MTFairShare`, `MicroThread_proofs` |
| `ThreadQueues_proofs` | theorems of `ThreadQueues`, the refinement of `FifoQueues` among them | `ThreadQueues`, `QueueLemmas` |
| `Loader_proofs` | theorems of `Loader` | `Loader` |
| `DosCopy_proofs` | theorems of `DosCopy` | `DosCopy` |
| `ExitSignals_proofs` | theorems of `ExitSignals` | `ExitSignals` |

### How MicroThread corresponds to the code

* `threads[]` becomes functions from thread IDs: `status`, `priority`,
  `semaphore`, `wakeUpTime`, and `ownStack` (the thread's stack is allocated, `ss`
  is valid). Thread 0 is the scheduler. `semaphores[]` becomes `semValue`,
  `semInUse`, `semQ`. Queues are sequences; `ThreadQueues` shows that the links
  implement them, as long as no thread is enqueued while it is in a queue, and
  `QueueDiscipline` is exactly that condition on the kernel side.
* `cpu` says on whose stack the processor runs: the main program, a thread, the
  scheduler (in three places: the top of its loop, `WakeUpSleepingThreads`, after
  it), `StopMultiThreading`, or `"undefined"` when the code has loaded a freed
  stack or unlinked a thread that is not in the queue.
* A thread's place inside a call is its `pc`, its pending return its `frame`.
  `GotoScheduler` saves that place; whoever is dispatched resumes at its own.
* Granularity. `iCriticalSection` is what the timer handler tests, so the code
  between `MTEnterCritical` and the matching `MTLeaveCritical` is one action and
  every place where the count is 0 between two of them is a state of its own.
  This includes the two instants that are easy to overlook: after the
  leave and before `GotoScheduler`, where the timer may preempt a thread that is
  already WAITING, SLEEPING or TERMINATED; and in the scheduler, where ticks (but
  no switch) may arrive before, during and after the wake-up loop.
  A tick that does not switch (in DOS, in a critical section, on the scheduler's
  stack) is `TimerTick`; one that does is `TimerPreempt`.
* A call of DOS by the application is two steps, `EnterDos` and `LeaveDos`, with the
  thread at label `"dos"` between them: what the InDOS flag says of it (`OutsideDos`).
  The kernel's own calls of DOS, for memory, lie in critical sections.
* `held` and `depth` are history variables: which semaphores a thread has waited
  for and not signalled, and how many critical sections it has entered, counted
  per thread. The code has only the global value and the global count.
* The application is nondeterministic: any thread makes any call of `Calls` at
  any time. What is assumed of it is what the interface says: no recursive wait
  ("A thread must NOT wait for the same semaphore recursively", `mthread.c:811`),
  it signals what it holds, it ends itself holding nothing; and one thing the interface
  does not say, that it does not give the processor away inside a critical section it
  has entered (`NonYielding`).
* `MTKillThread` and `MTDestroySema` take any number: a thread that does not exist is
  refused (`KillRefused`), and the runtime library's semaphore can be destroyed, before
  the start by the main program (`MainDestroySema`).

### How MTMailbox corresponds

`MTSendMsg` and `MTReceiveMsg` each either meet the first thread of the mailbox's
queue or block in it; both are one critical section, as in the code. A blocked call
is `mbCall`; its return is the kernel's `LeaveResumed` step, which ends the call and
returns `msgSize`. `moved` is the history of the messages copied to or from a thread
while it was blocked. Names are left out.

### How ThreadQueues corresponds

All queues thread through one `prevID`/`nextID` pair per thread, as in the code;
a dequeued thread keeps its stale links. `queue` is an auxiliary variable that
records the sequence the calls should have produced. `MTSleep`'s loop is one
action per iteration, and the queue is not touched by others meanwhile (it runs in
a critical section). `Fifo == INSTANCE FifoQueues` is the refinement: what
`DequeueThread` returns (`out`) is the head of the abstract queue.

### How Loader corresponds

Memory is linear, as in real mode: a handle is a paragraph number, a far pointer
is a paragraph and an offset, and a write past a block lands in the next. `B` is
the number of values of a byte and `P` the bytes of a paragraph, so that words,
chains, `0xffff` and the truncation of 64K to 0 keep their meaning at a small
scale. `main`'s loops are the actions `ReadEntry` and `LoadPlain`/`LoadRelocated`,
one per iteration; `apply_relocations` is `StartRecord`, `FollowChain` (one link)
and `RecordsDone`. The two places the code keeps for "the current segment", the
loop's number and `pData`, are `i` and `entry`. What the code leaves undone is so in
the model: imports write the address of the record before, a movable target is the
module's own segment (`@todo` in the code), and after a segment without relocations
`pData` is not moved, so all later segments stay unloaded.

`WellFormed` says which executables the properties are about, by their structure and
not by their origin: chains that stay inside their segment and come back to no place,
records of segments that exist, no byte named twice, no 64K segment. What must stand in
memory is stated place by place: `Chain` is the least set that has the first place and
with each place the one it links to, `Sites` are all the places of a segment's records,
and `PatchedAt` wants the fixup at each and the file's byte everywhere else.

Kept simple: the segment table and the relocation records are not in linear memory
(only a write outside the blocks could reach them), and the file is complete (a
short read, which `main` takes for a success, is left out). Each read may report an
error, and each seek may seem to (`ReadError`: `_llseek` does not look at the carry,
and `main` compares the position's low word with `HFILE_ERROR`); each allocation may
be refused.

### How DosCopy corresponds

Handles and segments are named by what they denote: `"src"`, `"dst"`, `"buffer"` are
the copy's own, `"other"` is the rest of the process, `"junk"` denotes nothing. One
action is one call that may fail with what the code does about it. `DosOpen` is
modelled as it is: its test for creation looks at `AL`, where
`ERROR_INVALID_PARAMETER` (57H) was put, so it always creates the file, which empties
it; when that fails it returns `CX`, the attribute 0, which `DosCopy` takes for
success although no handle was stored; and it refuses any sharing mode unless SHARE is
installed. `DosRead` is given the address of the selector `pIOBuf`, so what is read
goes over the selector and, if there is more of it, over the other locals of the frame
and what is saved behind them. `clobbered` counts how far a read got: 1 the selector,
2 the locals, so that `hSrc` and `hDst` may name any file from then on (`Overwrite`),
3 the return address, so that the copy cannot return. The order of the locals is the
compiler's, and so left open. Only a device, or a stray handle, has anything to read:
an ordinary source was emptied when it was opened. What a find call lists is left
open; the two directories have the same names at every level; source and target are
different files. The list of subdirectories is written through a pointer of which only
the offset was set: that such a write may be the end is in `ListDirs`, what else it
hits, and the segments of the list's nodes, are not.

### How ExitSignals corresponds

A vector is the name of the handler it points to: that of DOS or the BIOS, named by its
interrupt, `"exitlist"`, `"event1"` to `"event3"`, `"null"` (segment 0) or `"junk"` (a
segment that was in `CX`, see `ResIntVec`). `at` is who has control; an interrupt goes
from handler to handler until DOS or the BIOS serves it.

Interrupts are disabled in most of this code, but not in all of it. `setintvec` ends in
`sti`, before the table entry is written, offset first: `SetAction`, `WriteOffset` and
`WriteSegment` are three steps. `dispatchevent` writes `defvec` and jumps through it
some instructions later, after a routine or a `sti`: `CallRoutine` and `Leave` are two.
Between these Ctrl-Break may come in (`Break`), run its own handler through the same
tables and `defvec`, and return to what it came into (`under`, `Served`). It comes from
the keyboard's interrupt, which is not acknowledged before its handler returns, so it
does not nest in itself. A routine may return with any `BX`, which is the index that
`dispatchevent` goes on with.

`due`, `ran` and `disorder` are history: what was to run at this exit, how often it ran,
and which of the things that can go wrong in this code did (`Causes`). The routines
themselves do nothing but return (signal) or end with function 3 (exit). Left out: what
DosSetSigHandler returns of the older handler, and the failure of INT 31H/000AH in
`savevektor`, after which nothing is saved.

## Runs

| run | bounds | shows |
|---|---|---|
| `MT_sync` | 3 threads, 1 semaphore, nesting limit 3 | synchronisation calls, calls of DOS, threads created, the semaphore destroyed and created again, preemption everywhere: types, queues, no orphaned semaphore, critical sections freeze and balance, DOS is not reentered |
| `MT_threads` | 3 threads, the runtime library's semaphore | creation, killing, ending: queues, no wild dispatch |
| `MT_live` | 2 threads of two priorities, clock up to 2 | sleep, calls of DOS, end, Ctrl-Break, restarts: sound deadlock, nobody oversleeps; fair: no starvation, sleepers wake, Ctrl-Break stops |
| `MT_fairshare` | 3 threads, priorities 2 and 5 | a priority with ready threads is passed over fewer than `MaxGap` times, a ready thread waits fewer than `NThreads * MaxGap` dispatches |
| `MT_mailbox` | 3 threads, 1 mailbox, 2 message sizes | senders or receivers wait, never both, and are counted right; a blocked call returns after exactly one message |
| `ThreadQueues` | 3 threads, 3 queues, 2 wake-up times | links spell the queues, sleep queue sorted and stable, refinement of `FifoQueues` |
| `Loader` | bytes of 8 values, paragraphs of 4, all images of 2 and 3 segments out of six kinds, some that no linker writes, arenas of three sizes | what is loaded is in place and relocated, records go to their own segment, writes stay in the blocks, the loader ends on well-formed images |
| `DosCopy` | 2 files, a subdirectory, 2 levels, with and without SHARE | handles given back on every path but a short write until a read has gone over them, the buffer until one has gone over its selector, errors of the top directory returned |
| `ExitSignals` | 3 signals, 6 kinds of interrupt, Ctrl-Break one deep, no call after a removal out of order | vectors lead home over what is installed, routines run once at the end, control is lost only for the causes named, interrupts end |
| `MT_mutex` | 3 threads, 1 semaphore | **violated**: two threads hold one semaphore |
| `MT_signal` | 3 threads, 1 semaphore | **violated**: a signal by the holder wakes no waiter |
| `MT_killsleeper` | 2 threads, clock up to 1 | **violated**: a killed sleeper is dispatched |

Why the bounds are enough. Three threads give a holder, a first and a second
waiter, or a killer, a victim and a thread in the victim's queue on either side.
A nesting limit of 3 is reached by two nested sections and a call, so every
`MTEnterCritical` meets the limit (`EnterTooDeep`). Two priorities far apart in
`scheduleMap` make `ChooseNextThread` skip empty queues and wrap. A clock of 2
lets two sleepers be due at the same, the next and a past tick; the clock stops at
`MaxClock`, which is why only sleeps due by then are admitted. `clockTick` is taken
modulo `ClockMod`; the wrap itself is out of bounds (see below). `CHECK_DEADLOCK`
is on in these runs: the main program can always initialise or start again. It is
off for `Loader`, `DosCopy` and `ExitSignals`, which end: `main` returns, the call
returns or crashes, the process ends or control is lost.

The images of `MCLoader` contain chains that run through three words, a link to
itself, two words that link to each other, far pointers, additive records of every
width, chains of single bytes, a movable target, an unknown type, an import and a 64K
segment, and a chain of bytes that leads back; the arenas hold all of them, some, or
not even the module's block. In `DosCopy` two files suffice for one that fails before
one that succeeds, two levels for a nested call whose result is lost. The state of
`ExitSignals` is finite by itself; `Onward` is FALSE, so that the program makes no
further call once a vector was put back out of order, after which the safety
properties claim nothing. One semaphore is enough in `MT_sync` and `MT_threads`: it is
the runtime library's, which creation, ending and killing use, and in `MT_sync` the
application too, which destroys and creates it before the start and between a wait and
the next.

### What the violations mean

* `MT_mutex` and `MT_signal` have one root: `MTSignal` sets the value to 0, then
  wakes a waiter, and the woken `MTWait` returns without taking the semaphore. So
  the semaphore is free while the woken thread believes it holds it (a third
  thread gets in), and when that thread signals, the value is 0 and the next
  waiter is not woken. The documentation says the semaphore serialises access and
  that a signal wakes a waiter.
* `MT_killsleeper`: `MTKillThread` unlinks READY and WAITING victims, not SLEEPING
  ones. The passing runs therefore do not combine `KillThread` with `Sleep`.

### What the conditions of the other properties mean

Some properties hold only under a condition, which names something the code does
wrong. Where it can be reached in the model, the runs reach it, and the property stops
there: it does not show that this case is harmless, and the list of hazards says so.

* `CriticalFreezes` and `CriticalBalanced` are about threads that do not wait or signal
  inside a section they entered (`NonYielding`). `MTSignal` and a blocking `MTWait` leave
  their own critical section and go to the scheduler, whatever else the thread has
  entered. The next thread inherits the count, runs although another is inside its
  section, and the first comes back to one `MTLeaveCritical` too many: of such threads
  "freezes all other threads" (`mthread.c:860`) is false.
* `OneSided` counts the threads that wait in a mailbox, in use or not. The condition of
  `MTDestroyMailbox` is inverted: a mailbox is destroyed exactly when threads wait in it;
  they are not woken, and `MTSendMsg` and `MTReceiveMsg` refuse the mailbox from then on
  until `MTCreateMailbox` hands it out, with its queue, to somebody else.
* `Loader`: after a refused allocation (`refused`) DOS's error code is used as a
  handle, so low memory is cleared and loaded over. A 64K segment gets one paragraph,
  since its size does not fit a WORD. Only the segments up to the first one without
  relocations are loaded at all. `Terminates` and the properties of memory are about
  `WellFormed` images. One that is not can keep `main` from returning: a fixup of a
  single byte leaves the high byte of the link it went by; two places that link to each
  other, and whose low byte is the byte written, stay linked, and the loop never meets a
  place that links to itself, which is all it looks for ("avoid infinite loop",
  `loader.c:387`). The run has such an image (`LoopImages`), and without the condition
  TLC shows it go round for ever.
* `DosCopy`: a short write (`faulted`) leaves the files open and the buffer allocated;
  a failed open (`uninit`) makes the copy close, or read, whatever handle was on the
  stack; a read (`clobbered`) destroys the selector, and when it reaches the handles
  (2 and more) the calls of DosClose that follow close whatever they name by then, so
  that `HandlesClosed` says nothing any more. Errors in subdirectories are not reported.
  With SHARE installed both files are emptied whatever the options: no property says
  otherwise.
* `ExitSignals`: the two owners of INT 21H must be removed in the reverse order of
  their installation (`"vector"`, which also stands for a saved vector that `ResIntVec`
  made junk). An ignored signal (`"ignored"`), a table entry of which half is written
  (`"torn"`), a routine that changes `BX` (`"register"`) and Ctrl-Break between the
  setting and the use of `defvec` (`"raced"`) each make the dispatch leave by a vector
  that is not the signal's, or none; `"code"` is function code 0 of DosExitList, which
  jumps by the word before its table. `StrayExplained` does not excuse these: it says
  that the list is complete. Without the exception for ignored signals TLC finds a run that
  goes round for ever: the routine for signal 3, installed over the exit routine,
  runs at a child's end; the exit routine is removed and signal 3 ignored; at its own
  end the process then goes from `event2` to the exit routine, which was removed, and
  from its completion back to `event2`.

### Fairness

`FairSpec` assumes weak fairness of the scheduler's steps, of kernel code inside a
call, of the timer, and of the main program's start and clean-up. The processor
executes the one instruction stream `cpu` names, so an enabled kernel or scheduler
step stays enabled until it is taken; the timer interrupts about 18 times a
second. Of DOS it is assumed that its calls return. `TimerPreempt` is strongly fair: a
tick inside DOS or a critical section does not switch, so a thread that calls DOS again
and again is not always preemptible, but its calls know nothing of the timer and some
tick comes outside of them (a thread that never leaves DOS is never preempted: the code
gives no promise there). Nothing is assumed of the application: a thread may never call again, and
the liveness properties hold because the timer preempts it. They are restricted to
preemptive mode (`bMTPreemptive`): without the timer nothing obliges a thread to
yield and `clockTick` does not advance, so a sleeper then never wakes. A thread
that stays inside a critical section is out of scope of `MT_live` (its `Calls` do
not include `Enter`), since the code gives no promise there.

`Loader` is weakly fair in `Next` (`main` is one sequential program that nothing else
stops), `ExitSignals` in the steps of the handlers, which do not wait; the program
need never make a call. What Ctrl-Break interrupts is strongly fair: it goes on after
each interrupt, and keys do not come as fast as instructions.

## Proofs

`MicroThread_proofs` holds for every number of threads and semaphores, every
nesting limit above 1, any clock and any set of calls (`ConstantsAssumption` is all
that is assumed).

* `TypeCorrect == Spec => []TypeInv`, and `TypeOKHolds == Spec => []TypeOK`.
  `TypeOK` alone is not inductive. `iCriticalSection + 1` stays in range only
  because kernel code enters below the limit and stops at it (`NestOK`); the labels
  and operands of a suspended frame decide what a resumed thread will do with them
  (`FramesOK`: the operand of a kill is a thread, that of an add a priority); and
  `RemoveAt` stays a sequence of threads only if the READY thread to be extracted
  is in the queue of its priority (`ReadyQueued`). `TypeInv` is the conjunction.
* `CriticalSections == Spec => [](CriticalFreezes /\ CriticalBalanced)`. The
  invariant adds that the running thread is known (`RunnerKnown`), that the main
  program has nothing entered (`MainFree`), and that a thread inside a section it
  entered is at the application's label (`InsideInApp`), which is what makes the
  decrements after a resumed wait harmless: they find the count at 0.
* `DosEnteredOnce == Spec => []DosNotReentered`, by `DosRuns`: a thread in DOS is the one
  that runs, on the processor, because neither the timer nor a call of its own takes
  it away.
* `QueueLemmas`: what appending, removing the head, removing from and inserting in the
  middle do to the set of members, to injectivity and to an order by time.

What `MicroThread_proofs` says of queues and scheduler needs one condition beyond
`Spec`, as an action property: `NoSleeperKilled`, that `MTKillThread` is not called for a thread that sleeps. It
cannot be dropped: the code leaves such a thread in the sleep queue, and the run
`MT_killsleeper` shows where that leads. Every application that does not both sleep
and kill meets it (`SleepersSpared`), so for those each theorem has a corollary with no
condition but on the constant `Calls` (`...ByCalls`).

* `QueuesSound == Spec /\ NoSleeperKilled => [](QueueDiscipline /\ NoWildDispatch)`,
  `DeadlockIsReal`, `NobodyOversleeps`. `QueueDiscipline` is not inductive. What is,
  is `SchedInv`: `Placed` (the disciplines, the sleep queue in order, a stack for
  exactly the threads that are not free, a semaphore for each that waits) from
  `MTInitialise` on, since `TidyUp` leaves the sleep queue as it is; and `RunInv`, who may be
  CURRENT at each place of the processor: nobody after the top of the scheduler's
  loop, and the running thread everywhere but between the change of its status and
  `GotoScheduler`, or between killing itself and signalling the runtime semaphore. The
  argument goes queue by queue (`ReadyJoin`, `SemaLeave`, `SleepSame`, ...), then
  operation by operation (`WaitPlaced`, `KillPlaced`, ...), then over `Next`.
* `SemaphoresHeld == Spec /\ NoSleeperKilled /\ NoHolderKilled => []BusyMeansHeld`, and
  without either condition when no thread kills another. A victim takes what it holds
  with it, so the second condition is needed too. `HeldInv` adds that a busy
  semaphore is in use (`MTDestroySema` refuses a busy one); that a thread about to end
  itself holds the runtime semaphore at most (`EndersHold`); and that a TERMINATED
  thread which still runs has signalled it before it leaves the processor
  (`EndedHolds`). That the timer does not preempt it in between rests on its stack
  being no longer its own, and that it does not stop at the nesting limit on
  `CriticalInv`.

`MTFairShare_proofs`: `FairShare` bounds how long `ChooseNextThread` passes a priority
over and how long a READY thread waits, for any number of threads. `FairInv` says that
none of the last `passedOver[p]` entries of `scheduleMap` up to `priorityIdx` is `p`
while `p` has READY threads, which any window of `MaxGap[p]` entries refutes
(`WithinGap`), and that the thread at place `j` of its queue has waited at most
`(NThreads - j) * MaxGap[p] + passedOver[p]` dispatches: between two dispatches a READY
thread only goes forward (`ReadyMoves`). `FairIsKernel` carries the kernel's
invariants over the history variables.

`MTMailbox_proofs`: a thread blocked in a mailbox is WAITING but in no semaphore's
queue, so the kernel's `Placed` is false with mailboxes. The invariant is therefore
stated with a set aside: `PlacedBut(W)` and `SchedBut(W)` in `MicroThread_proofs` hold
the threads of `W` to be WAITING and in no queue of the kernel, `Placed` is
`PlacedBut({})`, and a step of the kernel keeps `SchedBut(W)` for every `W` of which it
kills no member (`SchedStep`). A mailbox call adds its caller to `W` (`BlockPlaced`) or
takes the thread it meets out of it (`MeetPlaced`).

* `MailboxesSound == MailboxSpec /\ NoSleeperKilled /\ NoCallerKilled =>
  [](OneSided /\ OneMessagePerCall)`. `NoCallerKilled` says that `MTKillThread` is not
  called for a thread inside a mailbox call: the code would look for it in a
  semaphore's queue. `MailInv` takes for `W` the threads that wait in a mailbox
  (`Away`), and adds that a thread inside a call is on its way to the scheduler or back,
  so that its next step out of there is the call's return, and that nobody is inside a
  call before `MTInitialise`, which is what lets it empty the mailboxes (`CallsInside`).
* `MailboxesKeepKernel`: under the same conditions the kernel's `NoWildDispatch` and
  `DeadlockSound` survive the mailboxes, which no run checks.
* `MailboxesSoundByCalls`: neither condition when no thread kills another, as in the
  run `MT_mailbox`.

`ThreadQueues_proofs` has no condition: `LinksCorrect`, `SleepQueueSorted`,
`WalkStaysInQueue`, and `FifoImplemented`, each step of the links being a step of
`FifoQueues` or none. The links of a queue are read through its sequence
(each neighbour names the other, the ends name none), and a call changes the links of
at most two neighbours, which belong to this queue only because no thread is in two.

`Loader_proofs` holds for every executable made of the segments and records of
`ImagesAssumption`, every arena, and every sequence of failures and refusals;
`LoaderAssumption` is what else is assumed. The properties' own conditions, a
`WellFormed` executable and no refused allocation, stay in their statements.

* `OwnSegment == Spec => []RelocatesOwnSegment`. The number and the entry need not
  agree between segments; the invariant `EntryInv` adds that where they do not, the
  entry has no relocations, so that only `LoadPlain` can follow.
* `SegmentsInPlace == Spec => []ImageInPlace`, by the invariant `LoadInv`. The blocks lie
  one after the other, each behind its control block (`BlocksInv`), and the table names
  them, each with the size its segment asked for (`TableInv`); the segments before the
  current one are in place (`PlacedBefore`); and of the current one the records done so
  far, and the links of a chain followed so far, are patched, while every other byte is
  the file's (`RecordInv`, `ChainInv`). A place not yet patched therefore still holds its
  link, because no byte belongs to two sites; following the link takes exactly one place
  out of what is left of the chain, and at the end of the chain nothing is left. Since the
  chain is a least set and what is left is a difference of two chains, no induction over
  the data is needed. A fixup stays inside its segment, its segment inside the block, and
  the blocks are apart, so whatever is in place stays.
* `WritesContained == Spec => WritesStayInBlocks`, from the same invariant: each action's
  writes are located, the control block of an allocation and the 0s behind it, what is
  read of the file, a fixup.

`DosCopy_proofs` holds for every tree and every sequence of failures.

* `HandlesReturned` and `BufferReturned` share `CopyInv`: at each call of
  `InternalCopyFile`, what the process holds beyond its own is in `hSrc`, `hDst` and
  `pIOBuf`, until an open stored no handle or a read went over them.
* `ErrorsReported`: the error stands in the outermost frame (`ErrorInv`) until it is
  returned. `CopyAssumption` is used here.

`ExitSignals_proofs` has no condition either: the run covers nearly every state, and the
proof shows why there is no other. Its invariant has these parts, which hold until
something is done out of order.

* `Vectors`: interrupt 21H is in one of five arrangements of its vector and of what the
  two owners saved, neither installed, one of them, or both in either order; the other
  two interrupts in one of two. From it `VectorsLeadHome == Spec => []ChainsIntact`.
* `Control`: a handler that has control finds in its table somewhere to pass it on to,
  and `defvec` is on the request's own chain (`WayOut`) when it is left by; the same of
  what Ctrl-Break came into (`Nesting`, `under`), whose `defvec` it has left as it was, or
  `"raced"` says so. Hence `NeverAstray == Spec => []StrayExplained`.
* `Ending`: while the process ends, what is due and has not run is what is still
  installed, and the vector points to whoever has control, or will have it when
  Ctrl-Break is over (`Outer`), as each handler takes itself out before it passes on;
  hence `RoutinesRunOnce == Spec => []EachRunsOnce`.

Only model-checked: all liveness, that is `Terminates` of `Loader`, `InterruptsEnd` of
`ExitSignals`, and `NoStarvation`, `SleepersWake` and `CtrlBreakStops` of the kernel.
Fairness, and the ENABLED it is defined by, are outside the prover. Of the violated
properties `NoWildDispatch` has its theorem under the condition that its run breaks;
the others have none.

## Plan

In order of weight:

1. Done: the MicroThread kernel with its mailboxes, queues and policy; the loader;
   DosCopy over DosOpen; exit list and signal handlers. Left of the kernel: the
   lookup of a mailbox by name (`StrMatch` compares prefixes only).
2. Proofs. Done: types, critical sections, queues, dispatching, deadlock, sleep,
   semaphores, mailboxes and policy of the kernel; links and their refinement;
   DosCopy; the loader; exit routine and signals. Every safety property that a passing
   run checks has its theorem. New modules below come with theirs.
3. **Memory**: segments, the shared segment slot in both modes, suballocation.
4. **Startup**: the KAL initialisation sequence with its failing steps.
5. **Video** and **IOCtl**: registration and routing; the dispatch tables with the
   width of their arithmetic, against a reference table.
6. **Files**: search handles, drive and directory.

## Not modelled, and why

* All components marked `not_modelled` in `PROJECT.json`: see the
  plan. Most of `fm/`, `ioctl/` and `nls/` is one DOS or BIOS call per entry point,
  with no state and no order of steps to check. The DOSCALLS stubs return a constant; `kbd mou bks bms` contain no code;
  `tests/greatest.h` is vendored.
* Of MicroThread: the contents of stacks and arguments (`ownStack` stands for the
  address; the misplaced initial stack pointer of `mthread.c:561` and the
  uninitialised selector pointer of `mthread.c:539` are below this level),
  `MTKillThread` called by the main program before the start, a torn read of the
  32-bit `clockTick` by 16-bit code, and its wrap-around after 7.5 years. A failed
  allocation of a thread's stack is modelled (`AddFails`), of the scheduler's is not.
* Of the loader: short reads, imports by ordinal (the code resolves none), the
  tables the code does not read yet, and the start of the program (the jump is
  commented out). The module's block is taken to be large enough for the table.
* Of DosCopy: copying a file onto itself, paths longer than their buffers, `ulNeedDel`
  (never set), the append pointer, which is moved in a file that was just emptied, and
  what a write through the list's unset pointer, or a read behind the frame, hits.
* Of the process services: DosExecPgm, one DOS call with its arguments copied to the
  stack, and DosHoldSignal, DosFlagProcess and DosError, which do nothing.

---------------------------- MODULE ExitSignals ----------------------------
(***************************************************************************)
(* DosExitList and DosSetSigHandler: both put handlers of their own into   *)
(* interrupt vectors, two of them into that of interrupt 21H, each keeping *)
(* the vector it found and putting it back when it leaves.                 *)
(*                                                                         *)
(* A vector is the handler it points to, that of DOS or the BIOS named by  *)
(* its interrupt; "null" has segment 0, which both take for "not           *)
(* installed", and "junk" points nowhere in particular.                    *)
(*                                                                         *)
(* Ctrl-Break comes from the keyboard, also into this code: between two    *)
(* steps where interrupts are enabled and what it uses is half changed.    *)
(***************************************************************************)
EXTENDS Naturals, FiniteSets

CONSTANT Onward   \* the program goes on after a vector was put back out of order: a bound

Signals == {1, 3, 4}   \* Ctrl-C, program terminated, Ctrl-Break

\* getintno and getintval: the interrupt of a signal and the handler put there.
Int(s)   == CASE s = 1 -> "int16" [] s = 3 -> "int21" [] s = 4 -> "int1B"
Event(s) == CASE s = 1 -> "event1" [] s = 3 -> "event2" [] s = 4 -> "event3"
Ints == {"int16", "int21", "int1B"}

\* No interrupt has come into another's handler.
Nobody == [at |-> "none", req |-> "none", defvec |-> "null"]
\* No call of DosSetSigHandler is under way.
Nothing == [sig |-> 1, to |-> "none"]

VARIABLES
  ivt,            \* the interrupt vectors
  vector,         \* DosExitList: the saved vector; procad is set along with it
  tab0, tab1,     \* DosSetSigHandler: routines and saved vectors, by signal
  defvec,         \* the vector dispatchevent leaves by
  at, req,        \* who has control, and the interrupt it was given for
  setting,        \* DosSetSigHandler: the table entry to be written, and what to
  under,          \* what Ctrl-Break came into: who had control, for what, and defvec
  due, ran,       \* history: what is to run at this exit, how often it ran
  disorder        \* history, see Causes

\* "vector": a vector was put back over another's, or a saved one became junk.  While
\* one interrupt is handled: "ignored", its signal has no routine; "torn", it has half
\* of one; "register", a routine did not give BX back; "raced", Ctrl-Break changed
\* defvec before it was used.  "code": CodeZero.
Causes == {"vector", "ignored", "torn", "register", "raced", "code"}

exitVars == <<vector>>
sigVars  == <<tab0, tab1, defvec>>
calling  == <<setting, under>>
vars     == <<ivt, exitVars, sigVars, at, req, calling, due, ran, disorder>>

Init ==
  /\ ivt = [n \in Ints |-> n]
  /\ vector = "null" /\ defvec = "null"
  /\ tab0 = [s \in Signals |-> "none"] /\ tab1 = [s \in Signals |-> "null"]
  /\ at = "program" /\ req = "none"
  /\ setting = Nothing /\ under = Nobody
  /\ due = {} /\ ran = [x \in {"exit", "signal"} |-> 0] /\ disorder = {}

\* The program runs.
Calls == at = "program" /\ ("vector" \in disorder => Onward)

\* setintvec, unless installed: the vector found is kept, the handler put in.
Hook(n, handler) == ivt' = [ivt EXCEPT ![n] = handler]
\* The saved vector goes back, whoever is there by now.
Unhook(n, saved, handler) ==
  /\ ivt' = [ivt EXCEPT ![n] = saved]
  /\ disorder' = disorder \union {d \in {"vector"} : ivt[n] # handler}
-----------------------------------------------------------------------------
(* DosExitList                                                             *)

AddToList ==
  /\ Calls
  /\ IF vector = "null"
     THEN vector' = ivt["int21"] /\ Hook("int21", "exitlist")
     ELSE UNCHANGED <<ivt, vector>>
  /\ UNCHANGED <<sigVars, at, req, calling, due, ran, disorder>>

RestoreInt21 ==
  IF vector = "null" THEN UNCHANGED <<ivt, vector, disorder>>
  ELSE Unhook("int21", vector, "exitlist") /\ vector' = "null"

Remove ==
  /\ Calls
  /\ RestoreInt21
  /\ UNCHANGED <<sigVars, at, req, calling, due, ran>>

\* Function code 0 passes the check against 3 and jumps by the word before the table.
CodeZero ==
  /\ Calls /\ at' = "wild"
  /\ disorder' = disorder \union {"code"}
  /\ UNCHANGED <<ivt, vector, sigVars, req, calling, due, ran>>

\* Variant: the hook stays for the DosExit that follows.
CompleteHooked == UNCHANGED <<ivt, vector, disorder>>
CompleteRestores == RestoreInt21
\* The exit routine has control; it ends with function 3, which ends the process.
Complete ==
  /\ at = "exitroutine"
  /\ CompleteRestores
  /\ at' = ivt'["int21"]
  /\ ran' = [ran EXCEPT !["exit"] = IF @ < 2 THEN @ + 1 ELSE @]
  /\ UNCHANGED <<sigVars, req, calling, due>>
-----------------------------------------------------------------------------
(* DosSetSigHandler                                                        *)

\* resintvec clears CX with DX's zero instead of its own: what the caller, or the
\* routine, had in CX stays as the segment of the saved vector.  So far is what else is
\* out of order.
ResIntVec(s, soFar) ==
  \E cx \in {"null", "junk"} :
    /\ tab1' = [tab1 EXCEPT ![s] = cx]
    /\ ivt' = [ivt EXCEPT ![Int(s)] = tab1[s]]
    /\ disorder' = disorder \union soFar
                     \union {d \in {"vector"} : ivt[Int(s)] # Event(s) \/ cx = "junk"}

\* Variant: a handler that is installed is installed again.
AlwaysSet(s) == TRUE
NotSet(s) == tab1[s] = "null"

SetIntVec(s) ==
  IF NotSet(s)
  THEN tab1' = [tab1 EXCEPT ![s] = ivt[Int(s)]] /\ Hook(Int(s), Event(s))
  ELSE UNCHANGED <<ivt, tab1>>

DefaultAction(s) ==
  /\ Calls
  /\ IF tab1[s] = "null" THEN UNCHANGED <<ivt, tab1, disorder>> ELSE ResIntVec(s, {})
  /\ UNCHANGED <<exitVars, tab0, defvec, at, req, calling, due, ran>>

\* The vector is set and interrupts are enabled again before the table entry is written.
SetAction(s, to) ==
  /\ Calls /\ at' = "setting"
  /\ SetIntVec(s)
  /\ setting' = [sig |-> s, to |-> to]
  /\ UNCHANGED <<exitVars, tab0, defvec, req, under, due, ran, disorder>>
IgnoreSignal(s)   == SetAction(s, "none")
ReceiveControl(s) == SetAction(s, "routine")

\* The entry's offset, then its segment: without the segment it reads as none at all.
WriteOffset ==
  /\ at = "setting" /\ at' = "torn"
  /\ tab0' = [tab0 EXCEPT ![setting.sig] = IF @ = "none" THEN "none" ELSE "torn"]
  /\ UNCHANGED <<ivt, exitVars, tab1, defvec, req, calling, due, ran, disorder>>
WriteSegment ==
  /\ at = "torn" /\ at' = "program"
  /\ tab0' = [tab0 EXCEPT ![setting.sig] = setting.to]
  /\ setting' = Nothing
  /\ UNCHANGED <<ivt, exitVars, tab1, defvec, req, under, due, ran, disorder>>
-----------------------------------------------------------------------------
(* Interrupts.  "exit" is function 4CH of interrupt 21H by this process,   *)
(* "child" the same by a program it started, "call" any other function;    *)
(* "key" and "read" are calls of interrupt 16H with and without the code   *)
(* of Ctrl-C; "break" is Ctrl-Break.                                       *)

IntOf(q) == CASE q \in {"exit", "child", "call"} -> "int21"
              [] q \in {"key", "read"} -> "int16"
              [] q = "break" -> "int1B"

Interrupt ==
  /\ Calls
  /\ req' \in {"exit", "child", "call", "key", "read", "break"}
  /\ at' = ivt[IntOf(req')]
  /\ due' = IF req' # "exit" THEN {}
            ELSE {x \in {"exit"} : vector # "null"}
                   \union {x \in {"signal"} : tab0[3] # "none" /\ tab1[3] # "null"}
  /\ UNCHANGED <<ivt, exitVars, sigVars, calling, ran, disorder>>

\* Ctrl-Break inside DosSetSigHandler, after the sti of setintvec, and inside
\* dispatchevent, after that of resintvec or of the routine.  The keyboard's interrupt
\* is not acknowledged before its handler returns: no second one comes meanwhile.
Break ==
  /\ at \in {"setting", "torn", "leaving"} /\ under = Nobody /\ req # "break"
  /\ under' = [at |-> at, req |-> req, defvec |-> defvec]
  /\ req' = "break" /\ at' = ivt["int1B"]
  /\ UNCHANGED <<ivt, exitVars, sigVars, setting, due, ran, disorder>>

\* myint21: the routine for this process's own end, else on to the saved vector.
MyInt21 ==
  /\ at = "exitlist"
  /\ at' = IF req = "exit" THEN "exitroutine" ELSE vector
  /\ UNCHANGED <<ivt, exitVars, sigVars, req, calling, due, ran, disorder>>

\* event1 .. event3 look for Ctrl-C in AL, for the end of a program in AH, or for
\* nothing.  What another interrupt has in AX may look like either.
Catches(s) ==
  CASE s = 4 -> {TRUE}
    [] s # 4 /\ Int(s) = IntOf(req) -> {req \in {"key", "exit", "child"}}
    [] OTHER -> BOOLEAN

\* A routine is called; it returns with BX anything (0: none of the signals), by which
\* the vector to leave by is taken, and signal 3, whosever end it is, taken out.
CallRoutine(s) ==
  \E bx \in Signals \union {0} :
    /\ defvec' = IF bx \in Signals THEN tab1[bx] ELSE "junk"
    /\ at' = "leaving"
    /\ ran' = IF req = "exit" /\ ran["signal"] < 2
              THEN [ran EXCEPT !["signal"] = @ + 1] ELSE ran
    /\ LET soFar == {d \in {"register"} : bx # s}
       IN IF bx = 3 THEN ResIntVec(3, soFar)
          ELSE disorder' = disorder \union soFar /\ UNCHANGED <<ivt, tab1>>

\* event1 .. event3 and dispatchevent.  An ignored signal leaves by what defvec held
\* before, with interrupts disabled.  event1 passes RETURN on in place of Ctrl-C.
Dispatch(s) ==
  /\ at = Event(s)
  /\ \E caught \in Catches(s) :
       /\ \/ /\ ~caught /\ at' = tab1[s]
             /\ UNCHANGED <<ivt, tab1, defvec, ran, disorder>>
          \/ /\ caught /\ tab0[s] = "none" /\ at' = defvec
             /\ disorder' = disorder \union {"ignored"}
             /\ UNCHANGED <<ivt, tab1, defvec, ran>>
          \/ /\ caught /\ tab0[s] = "torn" /\ at' = "wild"
             /\ disorder' = disorder \union {"torn"}
             /\ UNCHANGED <<ivt, tab1, defvec, ran>>
          \/ caught /\ tab0[s] = "routine" /\ CallRoutine(s)
       /\ req' = IF s = 1 /\ caught /\ req # "break" THEN "read" ELSE req
  /\ UNCHANGED <<exitVars, tab0, calling, due>>

Leave ==
  /\ at = "leaving" /\ at' = defvec
  /\ UNCHANGED <<ivt, exitVars, sigVars, req, calling, due, ran, disorder>>

\* DOS ends the process, or, when the request is another interrupt's, does anything.
Ended ==
  /\ at = "int21"
  /\ \/ req = "exit" /\ at' = "ended"
     \/ IntOf(req) # "int21" /\ at' = "wild"
  /\ UNCHANGED <<ivt, exitVars, sigVars, req, calling, due, ran, disorder>>

\* DOS or the BIOS returns, to the program or to what Ctrl-Break came into; that may
\* have been between the two words of defvec.
Changed == under.at = "leaving" /\ defvec # under.defvec
Served ==
  /\ at \in Ints /\ ~(at = "int21" /\ req = "exit")
  /\ at' = IF under = Nobody THEN "program" ELSE under.at
  /\ req' = under.req /\ under' = Nobody
  /\ defvec' \in {defvec} \union {v \in {"junk"} : Changed}
  /\ IF under.at = "leaving"
     THEN disorder' = disorder \union {d \in {"raced"} : Changed} /\ UNCHANGED <<due, ran>>
     ELSE /\ disorder' = disorder \intersect {"vector"} /\ due' = {}
          /\ ran' = [x \in DOMAIN ran |-> 0]
  /\ UNCHANGED <<ivt, exitVars, tab0, tab1, setting>>

Next ==
  \/ AddToList \/ Remove \/ Complete \/ CodeZero
  \/ \E s \in Signals : DefaultAction(s) \/ IgnoreSignal(s) \/ ReceiveControl(s)
  \/ WriteOffset \/ WriteSegment
  \/ Interrupt \/ Break \/ MyInt21 \/ (\E s \in Signals : Dispatch(s)) \/ Leave
  \/ Ended \/ Served

\* An interrupt is handled without waiting; the program need never make a call.  What
\* Ctrl-Break came into goes on: keys are slower than instructions.
Handling == \/ Complete \/ MyInt21 \/ (\E s \in Signals : Dispatch(s))
            \/ (Leave /\ under # Nobody) \/ Ended \/ Served

Spec == /\ Init /\ [][Next]_vars /\ WF_vars(Handling)
        /\ SF_vars(WriteOffset) /\ SF_vars(WriteSegment) /\ SF_vars(Leave /\ under = Nobody)
-----------------------------------------------------------------------------
Saved(h) == CASE h = "exitlist" -> vector
              [] h = "event1" -> tab1[1]
              [] h = "event2" -> tab1[3]
              [] h = "event3" -> tab1[4]
              [] OTHER -> h

\* The handlers on the way from a vector, three saved vectors deep.
Chain(n) == LET h == ivt[n]
            IN <<h, Saved(h), Saved(Saved(h)), Saved(Saved(Saved(h)))>>
Met(n) == {Chain(n)[k] : k \in 1..4}

\* Each vector leads to its own interrupt, over every handler that counts as installed and no other,
\* each once, until the first removal that was not in reverse order or that left a
\* saved vector junk: no handler is lost, called twice or chained to itself.
ChainsIntact ==
  "vector" \notin disorder => \A n \in Ints :
    /\ Chain(n)[4] = n
    /\ Met(n) \ {n} = {h \in {"exitlist"} : n = "int21" /\ vector # "null"}
                     \union {Event(s) : s \in {u \in Signals : Int(u) = n /\ tab1[u] # "null"}}
    /\ \A j, k \in 1..4 : j < k /\ Chain(n)[j] = Chain(n)[k] => Chain(n)[j] = n

\* At the end of the process the exit routine and the routine for signal 3 run at most
\* once, only if they are due, and when it is gone they have run, whichever was
\* installed first: the way through one handler's removal leads to the other.
EachRunsOnce ==
  disorder = {} /\ req = "exit" => \A x \in {"exit", "signal"} :
    /\ ran[x] <= (IF x \in due THEN 1 ELSE 0)
    /\ at = "ended" /\ x \in due => ran[x] = 1

\* Control goes astray, to no handler or to that of another interrupt, only for one of
\* the causes: a saved vector put back out of order, a signal without a routine or with
\* half of one, a routine that changed BX, Ctrl-Break between setting defvec and using it.
Astray == \/ at \in {"null", "junk", "wild"}
          \/ at \in Ints /\ at # IntOf(req)
StrayExplained == Astray => disorder # {}

\* Every interrupt comes to an end, and DosSetSigHandler returns: control is where it
\* was, or the process has ended, or control is lost, never passed round for ever, as
\* long as none of the causes is there.
InterruptsEnd ==
  (at # "program") ~> (at \in {"program", "ended", "null", "junk", "wild"} \/ disorder # {})
=============================================================================

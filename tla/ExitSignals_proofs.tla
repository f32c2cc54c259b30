------------------------- MODULE ExitSignals_proofs -------------------------
(***************************************************************************)
(* Theorems of ExitSignals: why the handlers that share a vector lead to   *)
(* each other and to the end of each interrupt's own chain, and what       *)
(* Ctrl-Break inside them leaves as it was.                                *)
(***************************************************************************)
EXTENDS ExitSignals, TLAPS

Handlers == {"exitlist", "event1", "event2", "event3"}
Values   == Ints \union Handlers \union {"null", "junk"}
Requests == {"exit", "child", "call", "key", "read", "break"}
\* Where control is the program's, or DosSetSigHandler's.
Window   == {"program", "setting", "torn"}
NoneRan  == [x \in {"exit", "signal"} |-> 0]

TypeInv ==
  /\ ivt \in [Ints -> Values] /\ tab1 \in [Signals -> Values] /\ DOMAIN tab0 = Signals
  /\ vector \in Values /\ defvec \in Values /\ under.defvec \in Values
  /\ ran \in [{"exit", "signal"} -> 0..2]
  /\ disorder \subseteq Causes

\* What Ctrl-Break came into, and nothing goes on inside the program.
Nesting ==
  /\ at \in Window => req = "none" /\ under = Nobody /\ ran = NoneRan
  /\ \/ under = Nobody
     \/ under.at \in {"setting", "torn"} /\ under.req = "none"
     \/ under.at = "leaving"

\* What a vector and what was saved from it may be: nothing installed, one handler, or,
\* for interrupt 21H, the two in either order.
Vectors ==
  /\ <<ivt["int16"], tab1[1]>> \in {<<"int16", "null">>, <<"event1", "int16">>}
  /\ <<ivt["int1B"], tab1[4]>> \in {<<"int1B", "null">>, <<"event3", "int1B">>}
  /\ <<ivt["int21"], vector, tab1[3]>> \in
       {<<"int21", "null", "null">>,
        <<"exitlist", "int21", "null">>, <<"event2", "null", "int21">>,
        <<"exitlist", "event2", "int21">>, <<"event2", "int21", "exitlist">>}

\* What defvec may be when it is left by: the end of the request's own chain, or the
\* other handler of interrupt 21H.
WayOut(v, q) ==
  /\ q \in Requests
  /\ v = IntOf(q) \/ (v = "exitlist" /\ vector # "null" /\ IntOf(q) = "int21")

\* Who has control is where the request belongs, with the saved vector it needs.
Control ==
  /\ at \in Window \union {"leaving", "exitroutine", "ended"} \union Ints \union Handlers
  /\ at \notin Window => req \in Requests
  /\ at = "exitlist" => vector # "null" /\ IntOf(req) = "int21"
  /\ at = "event1" => tab1[1] # "null" /\ IntOf(req) = "int16"
  /\ at = "event2" => tab1[3] # "null" /\ IntOf(req) = "int21"
  /\ at = "event3" => tab1[4] # "null" /\ req = "break"
  /\ at \in Ints => at = IntOf(req)
  /\ at \in {"exitroutine", "ended"} => req = "exit"
  /\ at = "leaving" => WayOut(defvec, req)
  /\ under # Nobody => /\ req = "break"
                       /\ under.at = "leaving" => WayOut(under.defvec, under.req)

\* The interrupt Ctrl-Break came into, or else the one that is handled.
Outer == IF under = Nobody THEN [at |-> at, req |-> req, defvec |-> defvec] ELSE under

\* While the process ends, what is due and has not run is still installed, and the
\* handler that has control, or gets it next, is the one the vector points to.
Ending ==
  /\ ivt["int21"] = (CASE Outer.at = "exitroutine" -> "exitlist"
                       [] Outer.at = "ended" -> "int21"
                       [] Outer.at = "leaving" -> Outer.defvec
                       [] OTHER -> Outer.at)
  /\ vector # "null" <=> "exit" \in due /\ ran["exit"] = 0
  /\ tab1[3] # "null" /\ tab0[3] # "none" <=> "signal" \in due /\ ran["signal"] = 0
  /\ \A x \in {"exit", "signal"} : ran[x] <= (IF x \in due THEN 1 ELSE 0)

Inv ==
  /\ TypeInv /\ Nesting
  /\ "vector" \notin disorder => Vectors
  /\ disorder = {} => Control /\ (Outer.req = "exit" => Ending)

LEMMA InitInv == Init => Inv
<1> SUFFICES ASSUME Init PROVE Inv
  OBVIOUS
<1>1. TypeInv
  BY DEF Init, TypeInv, Values, Ints, Nobody
<1>2. Nesting /\ Vectors
  BY DEF Init, Nesting, NoneRan, Vectors, Ints, Signals
<1>3. Control /\ Outer.req # "exit"
  BY DEF Init, Control, Window, Outer, Ints, Handlers
<1> QED BY <1>1, <1>2, <1>3 DEF Inv

\* The calls, in the program.
LEMMA RestoreVectors ==
  ASSUME TypeInv, "vector" \notin disorder => Vectors, RestoreInt21, UNCHANGED tab1
  PROVE  /\ ivt' \in [Ints -> Values] /\ vector' \in Values
         /\ disorder' \subseteq Causes /\ disorder \subseteq disorder'
         /\ "vector" \notin disorder' => Vectors' /\ vector' = "null"
         /\ "vector" \notin disorder' /\ vector # "null" => ivt["int21"] = "exitlist"
<1>1. CASE vector = "null"
  BY <1>1 DEF TypeInv, Vectors, RestoreInt21
<1>2. CASE vector # "null"
  <2>1. /\ ivt' = [ivt EXCEPT !["int21"] = vector] /\ vector' = "null"
        /\ disorder' = disorder \union {d \in {"vector"} : ivt["int21"] # "exitlist"}
    BY <1>2 DEF RestoreInt21, Unhook
  <2>2. ivt' \in [Ints -> Values] /\ vector' \in Values /\ disorder' \subseteq Causes
    BY <2>1 DEF TypeInv, Values, Causes
  <2>3. ASSUME "vector" \notin disorder'
        PROVE  Vectors' /\ ivt["int21"] = "exitlist"
    BY <2>1, <2>3 DEF TypeInv, Vectors, Ints
  <2> QED BY <2>1, <2>2, <2>3
<1> QED BY <1>1, <1>2

\* In the program, Control says no more than that.
LEMMA RestingNext ==
  ASSUME at' \in Window, req' = "none", under' = Nobody, ran' = NoneRan
  PROVE  Control' /\ Nesting' /\ Outer'.req # "exit"
<1>1. at' \notin {"leaving", "exitroutine", "ended"} \union Ints \union Handlers
  BY DEF Window, Ints, Handlers
<1> QED BY <1>1 DEF Control, Nesting, Outer, Handlers

LEMMA AddInv == ASSUME Inv, AddToList PROVE Inv'
<1> USE DEF Inv, AddToList, Calls, sigVars, calling
<1>1. TypeInv'
  BY DEF TypeInv, Hook, Values, Handlers, Ints
<1>2. "vector" \notin disorder' => Vectors'
  BY DEF TypeInv, Vectors, Hook, Ints, Signals
<1>3. at' \in Window /\ req' = "none" /\ under' = Nobody /\ ran' = NoneRan
  BY DEF Nesting, Window
<1> QED BY <1>1, <1>2, <1>3, RestingNext

LEMMA RemoveInv == ASSUME Inv, Remove PROVE Inv'
<1> USE DEF Inv, Remove, Calls, sigVars, calling
<1>1. /\ ivt' \in [Ints -> Values] /\ vector' \in Values
      /\ disorder' \subseteq Causes /\ disorder \subseteq disorder'
      /\ "vector" \notin disorder' => Vectors'
  BY RestoreVectors
<1>2. TypeInv'
  BY <1>1 DEF TypeInv
<1>3. at' \in Window /\ req' = "none" /\ under' = Nobody /\ ran' = NoneRan
  BY DEF Nesting, Window
<1> QED BY <1>1, <1>2, <1>3, RestingNext

LEMMA CodeZeroInv == ASSUME Inv, CodeZero PROVE Inv'
<1> USE DEF Inv, CodeZero, Calls, sigVars, calling
<1>1. TypeInv' /\ disorder' # {}
  BY DEF TypeInv, Causes
<1>2. "vector" \notin disorder' => Vectors'
  BY DEF Vectors
<1>3. Nesting'
  BY DEF Nesting, Window
<1> QED BY <1>1, <1>2, <1>3

\* resintvec and setintvec, for each of the signals.
LEMMA ResetVectors ==
  ASSUME TypeInv, "vector" \notin disorder => Vectors, NEW s \in Signals,
         NEW soFar \in SUBSET Causes, ResIntVec(s, soFar), UNCHANGED vector
  PROVE  /\ ivt' \in [Ints -> Values] /\ tab1' \in [Signals -> Values]
         /\ disorder' \subseteq Causes /\ disorder \union soFar \subseteq disorder'
         /\ "vector" \notin disorder' =>
              /\ Vectors' /\ tab1' = [tab1 EXCEPT ![s] = "null"]
              /\ ivt[Int(s)] = Event(s) /\ ivt'[Int(s)] = tab1[s]
<1>3. s = 1 \/ s = 3 \/ s = 4
  BY DEF Signals
<1>4. Int(s) \in Ints
  BY <1>3 DEF Int, Ints
<1>1. /\ ivt' \in [Ints -> Values] /\ tab1' \in [Signals -> Values]
      /\ disorder' \subseteq Causes /\ disorder \union soFar \subseteq disorder'
  BY <1>4 DEF TypeInv, ResIntVec, Values, Causes
<1> SUFFICES ASSUME "vector" \notin disorder'
             PROVE  /\ Vectors' /\ tab1' = [tab1 EXCEPT ![s] = "null"]
                    /\ ivt[Int(s)] = Event(s) /\ ivt'[Int(s)] = tab1[s]
  BY <1>1
<1>2. /\ Vectors /\ tab1' = [tab1 EXCEPT ![s] = "null"] /\ ivt[Int(s)] = Event(s)
      /\ ivt' = [ivt EXCEPT ![Int(s)] = tab1[s]]
  BY DEF ResIntVec
<1>8. DOMAIN ivt = {"int16", "int21", "int1B"} /\ DOMAIN tab1 = {1, 3, 4}
  BY DEF TypeInv, Ints, Signals
<1>5. CASE s = 1
  <2>1. /\ tab1' = [tab1 EXCEPT ![1] = "null"] /\ ivt["int16"] = Event(1)
        /\ ivt' = [ivt EXCEPT !["int16"] = tab1[1]]
    BY <1>2, <1>5 DEF Int
  <2> QED BY <1>2, <1>8, <2>1, <1>5 DEF Vectors, Event
<1>6. CASE s = 3
  <2>1. /\ tab1' = [tab1 EXCEPT ![3] = "null"] /\ ivt["int21"] = Event(3)
        /\ ivt' = [ivt EXCEPT !["int21"] = tab1[3]]
    BY <1>2, <1>6 DEF Int
  <2> QED BY <1>2, <1>8, <2>1, <1>6 DEF Vectors, Event
<1>7. CASE s = 4
  <2>1. /\ tab1' = [tab1 EXCEPT ![4] = "null"] /\ ivt["int1B"] = Event(4)
        /\ ivt' = [ivt EXCEPT !["int1B"] = tab1[4]]
    BY <1>2, <1>7 DEF Int
  <2> QED BY <1>2, <1>8, <2>1, <1>7 DEF Vectors, Event
<1>9. ivt'[Int(s)] = tab1[s]
  BY <1>2, <1>4 DEF TypeInv
<1> QED BY <1>2, <1>3, <1>5, <1>6, <1>7, <1>9

LEMMA SetVectors ==
  ASSUME TypeInv, "vector" \notin disorder => Vectors, NEW s \in Signals, SetIntVec(s),
         UNCHANGED <<vector, disorder>>
  PROVE  /\ ivt' \in [Ints -> Values] /\ tab1' \in [Signals -> Values]
         /\ "vector" \notin disorder' => Vectors'
<1>2. s = 1 \/ s = 3 \/ s = 4
  BY DEF Signals
<1>1. ivt' \in [Ints -> Values] /\ tab1' \in [Signals -> Values]
  <2>1. Int(s) \in Ints /\ Event(s) \in Values
    BY <1>2 DEF Int, Event, Ints, Values, Handlers
  <2> QED BY <2>1 DEF TypeInv, SetIntVec, Hook
<1>6. CASE tab1[s] # "null"
  <2>1. UNCHANGED <<ivt, tab1>>
    BY <1>6 DEF SetIntVec, NotSet
  <2> QED BY <1>1, <2>1 DEF Vectors
<1>7. CASE tab1[s] = "null"
  <2>1. ivt' = [ivt EXCEPT ![Int(s)] = Event(s)] /\ tab1' = [tab1 EXCEPT ![s] = ivt[Int(s)]]
    BY <1>7 DEF SetIntVec, NotSet, Hook
  <2>2. DOMAIN ivt = {"int16", "int21", "int1B"} /\ DOMAIN tab1 = {1, 3, 4}
    BY DEF TypeInv, Ints, Signals
  <2>3. CASE s = 1
    <3>1. /\ ivt' = [ivt EXCEPT !["int16"] = "event1"] /\ tab1' = [tab1 EXCEPT ![1] = ivt["int16"]]
          /\ tab1[1] = "null"
      BY <1>7, <2>1, <2>3 DEF Int, Event
    <3> QED BY <1>1, <2>2, <3>1 DEF Vectors
  <2>4. CASE s = 3
    <3>1. /\ ivt' = [ivt EXCEPT !["int21"] = "event2"] /\ tab1' = [tab1 EXCEPT ![3] = ivt["int21"]]
          /\ tab1[3] = "null"
      BY <1>7, <2>1, <2>4 DEF Int, Event
    <3> QED BY <1>1, <2>2, <3>1 DEF Vectors
  <2>5. CASE s = 4
    <3>1. /\ ivt' = [ivt EXCEPT !["int1B"] = "event3"] /\ tab1' = [tab1 EXCEPT ![4] = ivt["int1B"]]
          /\ tab1[4] = "null"
      BY <1>7, <2>1, <2>5 DEF Int, Event
    <3> QED BY <1>1, <2>2, <3>1 DEF Vectors
  <2> QED BY <1>2, <2>3, <2>4, <2>5
<1> QED BY <1>6, <1>7

LEMMA DefaultInv == ASSUME Inv, NEW s \in Signals, DefaultAction(s) PROVE Inv'
<1> USE DEF Inv, DefaultAction, Calls, exitVars, calling
<1>1. /\ ivt' \in [Ints -> Values] /\ tab1' \in [Signals -> Values]
      /\ disorder' \subseteq Causes
      /\ "vector" \notin disorder' => Vectors'
  <2>1. CASE tab1[s] = "null"
    BY <2>1 DEF TypeInv, Vectors
  <2>2. CASE tab1[s] # "null"
    <3>1. ResIntVec(s, {}) /\ {} \in SUBSET Causes /\ UNCHANGED vector
      BY <2>2
    <3> QED BY <3>1, ResetVectors
  <2> QED BY <2>1, <2>2
<1>2. TypeInv'
  BY <1>1 DEF TypeInv
<1>3. at' \in Window /\ req' = "none" /\ under' = Nobody /\ ran' = NoneRan
  BY DEF Nesting, Window
<1> QED BY <1>1, <1>2, <1>3, RestingNext

LEMMA SetInv ==
  ASSUME Inv, NEW s \in Signals, IgnoreSignal(s) \/ ReceiveControl(s)
  PROVE  Inv'
<1> USE DEF Inv, IgnoreSignal, ReceiveControl, SetAction, Calls, exitVars
<1>1. /\ ivt' \in [Ints -> Values] /\ tab1' \in [Signals -> Values]
      /\ "vector" \notin disorder' => Vectors'
  BY SetVectors
<1>2. TypeInv'
  BY <1>1 DEF TypeInv
<1>3. at' \in Window /\ req' = "none" /\ under' = Nobody /\ ran' = NoneRan
  BY DEF Nesting, Window
<1> QED BY <1>1, <1>2, <1>3, RestingNext

LEMMA WriteInv == ASSUME Inv, WriteOffset \/ WriteSegment PROVE Inv'
<1> USE DEF Inv, WriteOffset, WriteSegment, exitVars, calling
<1>1. TypeInv'
  BY DEF TypeInv
<1>2. "vector" \notin disorder' => Vectors'
  BY DEF Vectors
<1>3. at' \in Window /\ req' = "none" /\ under' = Nobody /\ ran' = NoneRan
  BY DEF Nesting, Window
<1> QED BY <1>1, <1>2, <1>3, RestingNext

\* An interrupt begins.
LEMMA Begun ==
  ASSUME Vectors, TypeInv, NEW q \in Requests, at' = ivt[IntOf(q)], req' = q,
         UNCHANGED <<ivt, vector, tab1>>
  PROVE  /\ at' \in Ints \union Handlers
         /\ at' = "exitlist" => vector' # "null" /\ IntOf(req') = "int21"
         /\ at' = "event1" => tab1'[1] # "null" /\ IntOf(req') = "int16"
         /\ at' = "event2" => tab1'[3] # "null" /\ IntOf(req') = "int21"
         /\ at' = "event3" => tab1'[4] # "null" /\ req' = "break"
         /\ at' \in Ints => at' = IntOf(req')
<1>1. CASE q \in {"exit", "child", "call"}
  <2>1. IntOf(q) = "int21"
    BY <1>1 DEF IntOf
  <2> QED BY <2>1 DEF Vectors, Ints, Handlers
<1>2. CASE q \in {"key", "read"}
  <2>1. IntOf(q) = "int16"
    BY <1>2 DEF IntOf
  <2> QED BY <2>1 DEF Vectors, Ints, Handlers
<1>3. CASE q = "break"
  <2>1. IntOf(q) = "int1B"
    BY <1>3 DEF IntOf
  <2> QED BY <1>3, <2>1 DEF Vectors, Ints, Handlers
<1> QED BY <1>1, <1>2, <1>3 DEF Requests

LEMMA InterruptInv == ASSUME Inv, Interrupt PROVE Inv'
<1> USE DEF Inv, Interrupt, Calls, exitVars, sigVars, calling
<1>1. TypeInv'
  BY DEF TypeInv
<1>2. "vector" \notin disorder' => Vectors'
  BY DEF Vectors
<1>3. req' \in Requests /\ at = "program" /\ under = Nobody
  BY DEF Nesting, Window, Requests
<1>4. Nesting'
  <2>1. IntOf(req') \in Ints
    BY <1>3 DEF IntOf, Requests, Ints
  <2>2. at' \in Values
    BY <2>1 DEF TypeInv
  <2> QED BY <1>3, <2>2 DEF Nesting, Window, Values, Ints, Handlers
<1>5. ASSUME disorder' = {}
      PROVE  Control' /\ (Outer'.req = "exit" => Ending')
  <2>1. Vectors
    BY <1>5
  <2>2. /\ at' \in Ints \union Handlers
        /\ at' = "exitlist" => vector' # "null" /\ IntOf(req') = "int21"
        /\ at' = "event1" => tab1'[1] # "null" /\ IntOf(req') = "int16"
        /\ at' = "event2" => tab1'[3] # "null" /\ IntOf(req') = "int21"
        /\ at' = "event3" => tab1'[4] # "null" /\ req' = "break"
        /\ at' \in Ints => at' = IntOf(req')
    BY <1>3, <2>1, Begun
  <2>3. at' \notin Window \union {"leaving", "exitroutine", "ended"}
    BY <2>2 DEF Ints, Handlers, Window
  <2>4. Control'
    BY <1>3, <2>2, <2>3 DEF Control
  <2>5. Outer' = [at |-> at', req |-> req', defvec |-> defvec']
    BY <1>3 DEF Outer
  <2>6. ASSUME req' = "exit"
        PROVE  Ending'
    <3>1. at' = ivt'["int21"]
      BY <2>6 DEF IntOf
    <3>2. ran'["exit"] = 0 /\ ran'["signal"] = 0
      BY <1>3 DEF Nesting, Window, NoneRan
    <3> QED BY <2>3, <2>5, <2>6, <3>1, <3>2 DEF Ending
  <2> QED BY <2>4, <2>5, <2>6
<1> QED BY <1>1, <1>2, <1>4, <1>5

\* Ctrl-Break leaves what it came into as it was.
LEMMA BreakInv == ASSUME Inv, Break PROVE Inv'
<1> USE DEF Inv, Break, exitVars, sigVars
<1>1. TypeInv'
  BY DEF TypeInv
<1>2. "vector" \notin disorder' => Vectors'
  BY DEF Vectors
<1>3. under' # Nobody /\ under'.at = at /\ under'.req = req /\ under'.defvec = defvec
  BY DEF Nobody
<1>4. Nesting'
  <2>1. at' = ivt["int1B"] /\ at' \in Values
    BY DEF TypeInv, IntOf, Ints
  <2>2. at \in {"setting", "torn"} => req = "none"
    BY DEF Nesting, Window
  <2> QED BY <1>3, <2>1, <2>2 DEF Nesting, Window, Values, Ints, Handlers
<1>5. ASSUME disorder' = {}
      PROVE  Control' /\ (Outer'.req = "exit" => Ending')
  <2>1. Vectors /\ "break" \in Requests /\ at' = ivt[IntOf("break")]
    BY <1>5 DEF Requests, IntOf
  <2>2. /\ at' \in Ints \union Handlers
        /\ at' = "exitlist" => vector' # "null" /\ IntOf(req') = "int21"
        /\ at' = "event1" => tab1'[1] # "null" /\ IntOf(req') = "int16"
        /\ at' = "event2" => tab1'[3] # "null" /\ IntOf(req') = "int21"
        /\ at' = "event3" => tab1'[4] # "null" /\ req' = "break"
        /\ at' \in Ints => at' = IntOf(req')
    BY <2>1, Begun
  <2>3. at' \notin Window \union {"leaving", "exitroutine", "ended"}
    BY <2>2 DEF Ints, Handlers, Window
  <2>4. under'.at = "leaving" => WayOut(under.defvec, under.req)'
    BY <1>3, <1>5 DEF Control, WayOut
  <2>5. Control'
    BY <2>1, <2>2, <2>3, <2>4 DEF Control
  <2>6. Outer' = Outer
    BY <1>3 DEF Outer
  <2>7. Ending <=> Ending'
    BY <2>6 DEF Ending
  <2> QED BY <1>5, <2>5, <2>6, <2>7
<1> QED BY <1>1, <1>2, <1>4, <1>5

\* The routines of the exit list, which only the program's own calls come to.
LEMMA MyInt21Inv == ASSUME Inv, MyInt21 PROVE Inv'
<1> USE DEF Inv, MyInt21, exitVars, sigVars, calling
<1>1. TypeInv'
  BY DEF TypeInv
<1>2. "vector" \notin disorder' => Vectors'
  BY DEF Vectors
<1>4. Nesting'
  BY DEF Nesting, Window, TypeInv, Values, Ints, Handlers
<1>5. ASSUME disorder' = {}
      PROVE  Control' /\ (Outer'.req = "exit" => Ending')
  <2>1. /\ Vectors /\ Control /\ vector # "null" /\ IntOf(req) = "int21" /\ req \in Requests
    BY <1>5 DEF Control, Window
  <2>2. under = Nobody
    BY <2>1 DEF Control, IntOf
  <2>3. at' \in {"exitroutine", "int21", "event2"} /\ (at' = "exitroutine" <=> req = "exit")
    BY <2>1 DEF Vectors
  <2>4. at' = "event2" => tab1[3] # "null"
    BY <2>1, <2>3 DEF Vectors
  <2>5. Control'
    BY <2>1, <2>2, <2>3, <2>4 DEF Control, Window, Ints, Handlers
  <2>6. ASSUME req = "exit"
        PROVE  Ending'
    BY <1>5, <2>2, <2>3, <2>6 DEF Ending, Outer
  <2>7. Outer'.req = req
    BY <2>2 DEF Outer
  <2> QED BY <2>5, <2>6, <2>7
<1> QED BY <1>1, <1>2, <1>4, <1>5

LEMMA CompleteInv == ASSUME Inv, Complete PROVE Inv'
<1> USE DEF Inv, Complete, CompleteRestores, sigVars, calling
<1>1. /\ ivt' \in [Ints -> Values] /\ vector' \in Values
      /\ disorder' \subseteq Causes /\ disorder \subseteq disorder'
      /\ "vector" \notin disorder' => Vectors' /\ vector' = "null"
      /\ "vector" \notin disorder' /\ vector # "null" => ivt["int21"] = "exitlist"
  BY RestoreVectors
<1>2. TypeInv'
  <2>1. ran' \in [{"exit", "signal"} -> 0..2]
    BY DEF TypeInv
  <2> QED BY <1>1, <2>1 DEF TypeInv
<1>4. Nesting'
  <2>1. at' \in Values
    BY <1>1 DEF Ints
  <2> QED BY <2>1 DEF Nesting, Window, Values, Ints, Handlers
<1>5. ASSUME disorder' = {}
      PROVE  Control' /\ (Outer'.req = "exit" => Ending')
  <2>1. Vectors /\ Vectors' /\ Control /\ req = "exit" /\ vector' = "null" /\ disorder = {}
    BY <1>1, <1>5 DEF Control
  <2>2. under = Nobody /\ Outer.req = "exit" /\ Outer.at = "exitroutine"
    BY <2>1 DEF Control, Outer
  <2>3. Ending /\ vector # "null" /\ "exit" \in due /\ ran["exit"] = 0
    BY <2>1, <2>2 DEF Ending, Vectors
  <2>4. at' = ivt'["int21"] /\ at' \in {"int21", "event2"}
        /\ (at' = "event2" => tab1[3] # "null")
    BY <2>1 DEF Vectors
  <2>5. Control'
    BY <2>1, <2>2, <2>4 DEF Control, Window, Ints, Handlers, IntOf, Requests
  <2>6. ran'["exit"] = 1 /\ ran'["signal"] = ran["signal"]
    BY <2>3 DEF TypeInv
  <2>7. Ending'
    BY <2>1, <2>2, <2>3, <2>4, <2>6 DEF Ending, Outer
  <2> QED BY <2>5, <2>7
<1> QED BY <1>1, <1>2, <1>4, <1>5

\* The handlers that look for a signal.
LEMMA DispatchInv == ASSUME Inv, NEW s \in Signals, Dispatch(s) PROVE Inv'
<1> USE DEF Inv, exitVars, calling
<1>1. PICK caught \in Catches(s) :
       /\ \/ /\ ~caught /\ at' = tab1[s]
             /\ UNCHANGED <<ivt, tab1, defvec, ran, disorder>>
          \/ /\ caught /\ tab0[s] = "none" /\ at' = defvec
             /\ disorder' = disorder \union {"ignored"}
             /\ UNCHANGED <<ivt, tab1, defvec, ran>>
          \/ /\ caught /\ tab0[s] = "torn" /\ at' = "wild"
             /\ disorder' = disorder \union {"torn"}
             /\ UNCHANGED <<ivt, tab1, defvec, ran>>
          \/ caught /\ tab0[s] = "routine" /\ CallRoutine(s)
       /\ req' = IF s = 1 /\ caught /\ req # "break" THEN "read" ELSE req
  BY DEF Dispatch
<1>2. at = Event(s) /\ UNCHANGED <<vector, tab0, setting, under, due>>
  BY DEF Dispatch
<1>3. s = 1 \/ s = 3 \/ s = 4
  BY DEF Signals
<1>4. at \in {"event1", "event2", "event3"}
  BY <1>2, <1>3 DEF Event
<1> HIDE DEF Inv
<1>5. CASE ~caught /\ at' = tab1[s] /\ UNCHANGED <<ivt, tab1, defvec, ran, disorder>>
  <2>1. req' = req
    BY <1>1, <1>5
  <2>2. TypeInv' /\ ("vector" \notin disorder' => Vectors')
    BY <1>2, <1>5 DEF Inv, TypeInv, Vectors
  <2>3. Nesting'
    <3>1. at' \in Values
      BY <1>5 DEF Inv, TypeInv
    <3> QED BY <1>2, <1>5, <2>1, <3>1 DEF Inv, Nesting, Window, Values, Ints, Handlers
  <2>4. ASSUME disorder' = {}
        PROVE  Control' /\ (Outer'.req = "exit" => Ending')
    <3>1. /\ Vectors /\ Control /\ req \in Requests /\ disorder = {}
          /\ (Outer.req = "exit" => Ending)
      BY <1>4, <1>5, <2>4 DEF Inv, Control, Window
    <3>2. CASE s = 1
      <4>1. at' = "int16" /\ IntOf(req) = "int16"
        BY <1>2, <1>5, <3>1, <3>2 DEF Vectors, Control, Event
      <4>2. Control'
        BY <1>2, <1>5, <2>1, <3>1, <4>1 DEF Control, Window, Ints, Handlers, WayOut
      <4>3. Outer'.req = "exit" => Outer' = Outer
        BY <1>2, <1>5, <2>1, <4>1 DEF Outer, IntOf
      <4>4. Outer'.req = "exit" => Ending'
        BY <1>2, <1>5, <3>1, <4>3 DEF Ending
      <4> QED BY <4>2, <4>4
    <3>3. CASE s = 4
      <4>1. at' = "int1B" /\ req = "break"
        BY <1>2, <1>5, <3>1, <3>3 DEF Vectors, Control, Event
      <4>2. Control'
        BY <1>2, <1>5, <2>1, <3>1, <4>1 DEF Control, Window, Ints, Handlers, WayOut, IntOf
      <4>3. Outer'.req = "exit" => Outer' = Outer
        BY <1>2, <1>5, <2>1, <4>1 DEF Outer
      <4>4. Outer'.req = "exit" => Ending'
        BY <1>2, <1>5, <3>1, <4>3 DEF Ending
      <4> QED BY <4>2, <4>4
    <3>4. CASE s = 3
      <4>1. /\ IntOf(req) = "int21" /\ tab1[3] # "null" /\ at = "event2"
            /\ at' = "int21" \/ (at' = "exitlist" /\ vector # "null")
        BY <1>2, <1>5, <3>1, <3>4 DEF Vectors, Control, Event
      <4>2. under = Nobody
        BY <3>1, <4>1 DEF Control, IntOf
      <4>3. Control'
        BY <1>2, <1>5, <2>1, <3>1, <4>1, <4>2 DEF Control, Window, Ints, Handlers
      <4>4. caught \in BOOLEAN /\ req # "exit"
        <5>1. Int(s) = IntOf(req)
          BY <3>4, <4>1 DEF Int
        <5> QED BY <1>5, <5>1, <3>4 DEF Catches
      <4>5. Outer'.req # "exit"
        BY <1>2, <2>1, <4>2, <4>4 DEF Outer
      <4> QED BY <4>3, <4>5
    <3> QED BY <1>3, <3>2, <3>3, <3>4
  <2> QED BY <2>2, <2>3, <2>4 DEF Inv
<1>6. CASE \/ /\ at' = defvec /\ disorder' = disorder \union {"ignored"}
              /\ UNCHANGED <<ivt, tab1, defvec, ran>>
           \/ /\ at' = "wild" /\ disorder' = disorder \union {"torn"}
              /\ UNCHANGED <<ivt, tab1, defvec, ran>>
  <2>1. TypeInv' /\ ("vector" \notin disorder' => Vectors') /\ disorder' # {}
    BY <1>2, <1>6 DEF Inv, TypeInv, Vectors, Causes
  <2>2. Nesting'
    <3>1. at' \in Values \union {"wild"}
      BY <1>6 DEF Inv, TypeInv
    <3> QED BY <1>2, <1>6, <3>1 DEF Inv, Nesting, Window, Values, Ints, Handlers
  <2> QED BY <2>1, <2>2 DEF Inv
<1>7. CASE caught /\ tab0[s] = "routine" /\ CallRoutine(s)
  <2>1. PICK bx \in Signals \union {0} :
          /\ defvec' = IF bx \in Signals THEN tab1[bx] ELSE "junk"
          /\ at' = "leaving"
          /\ ran' = IF req = "exit" /\ ran["signal"] < 2
                    THEN [ran EXCEPT !["signal"] = @ + 1] ELSE ran
          /\ LET soFar == {d \in {"register"} : bx # s}
             IN IF bx = 3 THEN ResIntVec(3, soFar)
                ELSE disorder' = disorder \union soFar /\ UNCHANGED <<ivt, tab1>>
    BY <1>7 DEF CallRoutine
  <2> DEFINE soFar == {d \in {"register"} : bx # s}
  <2>2. soFar \in SUBSET Causes /\ (soFar = {} => bx = s)
    BY DEF Causes
  <2>3. CASE bx = 3 /\ ResIntVec(3, soFar)
    <3>1. /\ ivt' \in [Ints -> Values] /\ tab1' \in [Signals -> Values]
          /\ disorder' \subseteq Causes /\ disorder \union soFar \subseteq disorder'
          /\ "vector" \notin disorder' =>
               /\ Vectors' /\ tab1' = [tab1 EXCEPT ![3] = "null"]
               /\ ivt[Int(3)] = Event(3) /\ ivt'[Int(3)] = tab1[3]
      <4>1. 3 \in Signals
        BY DEF Signals
      <4> QED BY <1>2, <2>2, <2>3, <4>1, ResetVectors DEF Inv
    <3>2. TypeInv'
      BY <1>2, <2>1, <2>3, <3>1 DEF Inv, TypeInv
    <3>3. Nesting'
      BY <1>2, <2>1 DEF Inv, Nesting, Window
    <3>4. ASSUME disorder' = {}
          PROVE  Control' /\ (Outer'.req = "exit" => Ending')
      <4>1. /\ disorder = {} /\ s = 3 /\ Vectors /\ Control /\ Vectors'
            /\ tab1' = [tab1 EXCEPT ![3] = "null"] /\ ivt["int21"] = "event2"
            /\ ivt'["int21"] = tab1[3] /\ (Outer.req = "exit" => Ending)
        BY <2>2, <2>3, <3>1, <3>4 DEF Inv, Int, Event
      <4>2. /\ at = "event2" /\ req \in Requests /\ IntOf(req) = "int21" /\ req' = req
            /\ under = Nobody /\ defvec' = tab1[3]
        <5>1. at = "event2" /\ req' = req
          BY <1>1, <1>2, <4>1 DEF Event
        <5>2. req \in Requests /\ IntOf(req) = "int21"
          BY <4>1, <5>1 DEF Control, Window
        <5>3. req # "break"
          BY <5>2 DEF IntOf
        <5>4. defvec' = tab1[3]
          BY <2>1, <2>3 DEF Signals
        <5> QED BY <4>1, <5>1, <5>2, <5>3, <5>4 DEF Control
      <4>3. defvec' = "int21" \/ (defvec' = "exitlist" /\ vector # "null")
        BY <4>1, <4>2 DEF Vectors
      <4>4. Control'
        BY <1>2, <2>1, <4>2, <4>3 DEF Control, WayOut, Window, Ints, Handlers
      <4>5. ASSUME req = "exit"
            PROVE  Ending'
        <5>1. Ending /\ tab1[3] # "null" /\ tab0[3] # "none"
          BY <1>2, <1>7, <4>1, <4>2, <4>5 DEF Outer, Control
        <5>2. "signal" \in due /\ ran["signal"] = 0
          BY <5>1 DEF Ending
        <5>3. ran'["signal"] = 1 /\ ran'["exit"] = ran["exit"] /\ tab1'[3] = "null"
          BY <2>1, <4>1, <4>5, <5>2 DEF Inv, TypeInv, Signals
        <5> QED BY <1>2, <2>1, <4>1, <4>2, <5>1, <5>2, <5>3 DEF Ending, Outer
      <4>6. Outer'.req = req
        BY <1>2, <4>2 DEF Outer
      <4> QED BY <4>4, <4>5, <4>6
    <3> QED BY <3>1, <3>2, <3>3, <3>4 DEF Inv
  <2>4. CASE bx # 3 /\ disorder' = disorder \union soFar /\ UNCHANGED <<ivt, tab1>>
    <3>1. TypeInv' /\ ("vector" \notin disorder' => Vectors')
      <4>1. defvec' \in Values
        BY <2>1 DEF Inv, TypeInv, Values
      <4>2. ran' \in [{"exit", "signal"} -> 0..2]
        BY <2>1 DEF Inv, TypeInv
      <4> QED BY <1>2, <2>2, <2>4, <4>1, <4>2 DEF Inv, TypeInv, Vectors
    <3>3. Nesting'
      BY <1>2, <2>1 DEF Inv, Nesting, Window
    <3>4. ASSUME disorder' = {}
          PROVE  Control' /\ (Outer'.req = "exit" => Ending')
      <4>1. /\ disorder = {} /\ bx = s /\ s # 3 /\ Vectors /\ Control
            /\ (Outer.req = "exit" => Ending)
        BY <2>2, <2>4, <3>4 DEF Inv
      <4>2. /\ req \in Requests /\ IntOf(req) # "int21" /\ tab1[s] = IntOf(req) /\ req # "exit"
            /\ (s = 1 => at = "event1" /\ tab1[s] = "int16")
            /\ (s = 4 => req = "break" /\ tab1[s] = "int1B")
        <5>1. req \in Requests
          BY <1>4, <4>1 DEF Control, Window
        <5>2. CASE s = 1
          <6>1. at = "event1" /\ IntOf(req) = "int16" /\ tab1[1] = "int16"
            BY <1>2, <4>1, <5>2 DEF Event, Control, Vectors
          <6>2. req # "exit" /\ IntOf(req) # "int21"
            BY <6>1 DEF IntOf
          <6> QED BY <1>2, <5>1, <5>2, <6>1, <6>2
        <5>3. CASE s = 4
          <6>1. req = "break" /\ tab1[4] = "int1B"
            BY <1>2, <4>1, <5>3 DEF Event, Control, Vectors
          <6> QED BY <5>1, <5>3, <6>1 DEF IntOf
        <5> QED BY <1>3, <4>1, <5>2, <5>3
      <4>3. req' \in Requests /\ IntOf(req') = IntOf(req) /\ (req = "break" => req' = "break")
            /\ req' # "exit"
        BY <1>1, <4>1, <4>2, <1>3 DEF Requests, IntOf
      <4>4. defvec' = IntOf(req')
        BY <2>1, <4>1, <4>2, <4>3
      <4>5. Control'
        BY <1>2, <2>1, <2>4, <4>1, <4>3, <4>4 DEF Control, WayOut, Window, Ints, Handlers
      <4>6. Outer'.req = "exit" => Outer' = Outer
        BY <1>2, <4>3 DEF Outer
      <4>7. Outer'.req = "exit" => ran' = ran
        BY <2>1, <4>2
      <4>8. Outer'.req = "exit" => Ending'
        BY <1>2, <2>4, <4>1, <4>6, <4>7 DEF Ending
      <4> QED BY <4>5, <4>8
    <3> QED BY <3>1, <3>3, <3>4 DEF Inv
  <2> QED BY <2>1, <2>3, <2>4
<1> QED BY <1>1, <1>5, <1>6, <1>7

LEMMA LeaveInv == ASSUME Inv, Leave PROVE Inv'
<1> USE DEF Inv, Leave, exitVars, sigVars, calling
<1>1. TypeInv'
  BY DEF TypeInv
<1>2. "vector" \notin disorder' => Vectors'
  BY DEF Vectors
<1>3. Nesting'
  BY DEF Nesting, Window, TypeInv, Values, Ints, Handlers
<1>4. ASSUME disorder' = {}
      PROVE  Control' /\ (Outer'.req = "exit" => Ending')
  <2>1. Control /\ WayOut(defvec, req) /\ (Outer.req = "exit" => Ending)
    BY <1>4 DEF Control
  <2>2. at' = IntOf(req) \/ (at' = "exitlist" /\ vector # "null" /\ IntOf(req) = "int21")
    BY <2>1 DEF WayOut
  <2>3. IntOf(req) \in Ints
    BY <2>1 DEF WayOut, Requests, IntOf, Ints
  <2>4. Control'
    BY <2>1, <2>2, <2>3 DEF Control, WayOut, Window, Ints, Handlers
  <2>5. CASE under = Nobody
    <3>1. Outer'.req = req /\ Outer.req = req
      BY <2>5 DEF Outer
    <3>2. ASSUME req = "exit"
          PROVE  Ending'
      <4>1. at' \in {"int21", "exitlist"}
        BY <2>2, <3>2 DEF IntOf
      <4> QED BY <2>1, <2>5, <3>1, <3>2, <4>1 DEF Ending, Outer
    <3> QED BY <2>4, <3>1, <3>2
  <2>6. CASE under # Nobody
    <3>1. Outer' = Outer
      BY <2>6 DEF Outer
    <3> QED BY <2>1, <2>4, <3>1 DEF Ending
  <2> QED BY <2>5, <2>6
<1> QED BY <1>1, <1>2, <1>3, <1>4

LEMMA EndedInv == ASSUME Inv, Ended PROVE Inv'
<1> USE DEF Inv, Ended, exitVars, sigVars, calling
<1>1. TypeInv'
  BY DEF TypeInv
<1>2. "vector" \notin disorder' => Vectors'
  BY DEF Vectors
<1>3. Nesting'
  BY DEF Nesting, Window
<1>4. ASSUME disorder' = {}
      PROVE  Control' /\ (Outer'.req = "exit" => Ending')
  <2>1. Control /\ req = "exit" /\ at' = "ended" /\ disorder = {}
    BY <1>4 DEF Control, Ints
  <2>2. under = Nobody
    BY <2>1 DEF Control
  <2>3. Control'
    BY <2>1, <2>2 DEF Control, Window, Ints, Handlers, Requests
  <2>4. Ending'
    BY <2>1, <2>2 DEF Ending, Outer
  <2> QED BY <2>3, <2>4
<1> QED BY <1>1, <1>2, <1>3, <1>4

LEMMA ServedInv == ASSUME Inv, Served PROVE Inv'
<1> USE DEF Inv, exitVars
<1>1. UNCHANGED <<ivt, vector, tab0, tab1, setting>> /\ at \in Ints
  BY DEF Served
<1>2. TypeInv'
  <2>1. defvec' \in Values /\ under'.defvec \in Values
    BY DEF Served, TypeInv, Values, Nobody
  <2>2. ran' \in [{"exit", "signal"} -> 0..2] /\ disorder' \subseteq Causes
    <3>1. ran' = ran \/ ran' = [x \in DOMAIN ran |-> 0]
      BY DEF Served
    <3>2. disorder' \subseteq disorder \union {"raced"}
      BY DEF Served
    <3> QED BY <3>1, <3>2 DEF TypeInv, Causes
  <2> QED BY <1>1, <2>1, <2>2 DEF TypeInv
<1>3. CASE under.at = "leaving"
  <2>1. /\ at' = "leaving" /\ req' = under.req /\ under' = Nobody
        /\ disorder' = disorder \union {d \in {"raced"} : Changed} /\ UNCHANGED <<due, ran>>
        /\ defvec' \in {defvec} \union {v \in {"junk"} : Changed}
    BY <1>3 DEF Served, Nobody
  <2>2. "vector" \notin disorder' => Vectors'
    BY <1>1, <2>1 DEF Vectors
  <2>3. Nesting'
    BY <2>1 DEF Nesting, Window
  <2>4. ASSUME disorder' = {}
        PROVE  Control' /\ (Outer'.req = "exit" => Ending')
    <3>1. disorder = {} /\ ~Changed /\ under # Nobody
      BY <1>3, <2>1, <2>4 DEF Nobody
    <3>2. defvec' = under.defvec /\ WayOut(under.defvec, under.req) /\ Control
      BY <1>3, <2>1, <3>1 DEF Control, Changed
    <3>3. Control'
      BY <1>1, <2>1, <3>2 DEF Control, WayOut, Window, Ints, Handlers
    <3>4. /\ Outer'.at = Outer.at /\ Outer'.req = Outer.req /\ Outer'.defvec = Outer.defvec
      BY <1>3, <2>1, <3>1, <3>2 DEF Outer
    <3> QED BY <1>1, <2>1, <3>1, <3>3, <3>4 DEF Ending
  <2> QED BY <1>2, <2>2, <2>3, <2>4
<1>4. CASE under.at # "leaving"
  <2>1. /\ at' = (IF under = Nobody THEN "program" ELSE under.at)
        /\ req' = under.req /\ under' = Nobody
        /\ disorder' = disorder \intersect {"vector"} /\ ran' = [x \in DOMAIN ran |-> 0]
    BY <1>4 DEF Served
  <2>2. "vector" \notin disorder' => Vectors'
    BY <1>1, <2>1 DEF Vectors
  <2>3. at' \in Window /\ req' = "none" /\ under' = Nobody /\ ran' = NoneRan
    BY <1>4, <2>1 DEF Nesting, Nobody, Window, TypeInv, NoneRan
  <2> QED BY <1>2, <2>2, <2>3, RestingNext
<1> QED BY <1>3, <1>4

LEMMA NextInv == Inv /\ [Next]_vars => Inv'
<1> SUFFICES ASSUME Inv, [Next]_vars PROVE Inv'
  OBVIOUS
<1>1. CASE Next
  BY <1>1, AddInv, RemoveInv, CompleteInv, CodeZeroInv, DefaultInv, SetInv, WriteInv,
     InterruptInv, BreakInv, MyInt21Inv, DispatchInv, LeaveInv, EndedInv, ServedInv DEF Next
<1>2. CASE UNCHANGED vars
  BY <1>2 DEF vars, exitVars, sigVars, calling, Inv, TypeInv, Nesting, Vectors, Control, WayOut,
     Outer, Ending
<1> QED BY <1>1, <1>2

LEMMA InvHolds == Spec => []Inv
<1> QED BY InitInv, NextInv, PTL DEF Spec

\* Whatever order exit routine and signal handlers are put in and taken out in, each
\* vector leads over what is installed to DOS or the BIOS, until one is taken out from
\* under another.
THEOREM VectorsLeadHome == Spec => []ChainsIntact
<1>1. Inv => ChainsIntact
  <2> SUFFICES ASSUME Vectors, NEW n \in Ints
               PROVE  /\ Chain(n)[4] = n
                      /\ Met(n) \ {n} =
                           {h \in {"exitlist"} : n = "int21" /\ vector # "null"}
                             \union {Event(s) : s \in {u \in Signals :
                                                         Int(u) = n /\ tab1[u] # "null"}}
                      /\ \A j, k \in 1..4 :
                           j < k /\ Chain(n)[j] = Chain(n)[k] => Chain(n)[j] = n
    BY DEF Inv, ChainsIntact
  <2> DEFINE Here == {Event(s) : s \in {u \in Signals : Int(u) = n /\ tab1[u] # "null"}}
  <2>1. Saved(n) = n
    BY DEF Saved, Ints
  <2>2. /\ Chain(n) = <<ivt[n], Saved(ivt[n]), Saved(Saved(ivt[n])),
                        Saved(Saved(Saved(ivt[n])))>>
        /\ Met(n) = {ivt[n], Saved(ivt[n]), Saved(Saved(ivt[n])), Saved(Saved(Saved(ivt[n])))}
    <3>1. Chain(n) = <<ivt[n], Saved(ivt[n]), Saved(Saved(ivt[n])),
                        Saved(Saved(Saved(ivt[n])))>>
      BY DEF Chain
    <3>2. Met(n) = {Chain(n)[1], Chain(n)[2], Chain(n)[3], Chain(n)[4]}
      <4>1. 1..4 = {1, 2, 3, 4}
        OBVIOUS
      <4> QED BY <4>1 DEF Met
    <3> QED BY <3>1, <3>2
  <2>3. /\ n = "int16" => Here = {h \in {"event1"} : tab1[1] # "null"}
        /\ n = "int21" => Here = {h \in {"event2"} : tab1[3] # "null"}
        /\ n = "int1B" => Here = {h \in {"event3"} : tab1[4] # "null"}
    BY DEF Signals, Int, Event
  <2>4. n \in {"int16", "int21", "int1B"} /\ 1..4 = {1, 2, 3, 4}
    BY DEF Ints
  <2> HIDE DEF Here
  <2>5. CASE ivt[n] = n
    <3>1. Chain(n) = <<n, n, n, n>> /\ Met(n) = {n}
      BY <2>1, <2>2, <2>5
    <3>2. Here = {} /\ (n = "int21" => vector = "null")
      BY <2>3, <2>4, <2>5 DEF Vectors
    <3> QED BY <2>4, <3>1, <3>2 DEF Here
  <2>6. CASE ivt[n] # n /\ Saved(ivt[n]) = n
    <3>1. Chain(n) = <<ivt[n], n, n, n>> /\ Met(n) = {ivt[n], n}
      BY <2>1, <2>2, <2>6
    <3>2. {ivt[n]} = {h \in {"exitlist"} : n = "int21" /\ vector # "null"} \union Here
      BY <2>3, <2>4, <2>6 DEF Vectors, Saved
    <3> QED BY <2>4, <2>6, <3>1, <3>2 DEF Here
  <2>7. CASE ivt[n] # n /\ Saved(ivt[n]) # n
    <3>1. /\ n = "int21" /\ vector # "null" /\ tab1[3] # "null"
          /\ \/ ivt[n] = "exitlist" /\ Saved("exitlist") = "event2" /\ Saved("event2") = n
             \/ ivt[n] = "event2" /\ Saved("event2") = "exitlist" /\ Saved("exitlist") = n
      BY <2>4, <2>7 DEF Vectors, Saved
    <3>2. /\ Chain(n) \in {<<"exitlist", "event2", n, n>>,
                           <<"event2", "exitlist", n, n>>}
          /\ Met(n) = {"exitlist", "event2", n}
      BY <2>1, <2>2, <3>1
    <3>3. Here = {"event2"}
      BY <2>3, <3>1
    <3> QED BY <2>4, <3>1, <3>2, <3>3 DEF Here
  <2> QED BY <2>5, <2>6, <2>7
<1> QED BY <1>1, InvHolds, PTL

\* At the end of the process nothing runs twice or that is not due, and nothing due is
\* left out, in whichever order the two handlers of interrupt 21H were put in.
THEOREM RoutinesRunOnce == Spec => []EachRunsOnce
<1>1. Inv => EachRunsOnce
  <2> SUFFICES ASSUME Inv, disorder = {}, req = "exit", NEW x \in {"exit", "signal"}
               PROVE  /\ ran[x] <= (IF x \in due THEN 1 ELSE 0)
                      /\ at = "ended" /\ x \in due => ran[x] = 1
    BY DEF EachRunsOnce
  <2>1. Ending /\ Vectors /\ ran[x] \in 0..2 /\ Outer.at = at
    <3>1. under = Nobody
      BY DEF Inv, Control
    <3>2. Outer.req = "exit" /\ Outer.at = at
      BY <3>1 DEF Outer
    <3> QED BY <3>2 DEF Inv, TypeInv
  <2>2. ran[x] <= (IF x \in due THEN 1 ELSE 0)
    BY <2>1 DEF Ending
  <2>3. ASSUME at = "ended", x \in due
        PROVE  ran[x] # 0
    <3>1. vector = "null" /\ tab1[3] = "null"
      BY <2>1, <2>3 DEF Ending, Vectors
    <3> QED BY <2>1, <2>3, <3>1 DEF Ending
  <2> QED BY <2>1, <2>2, <2>3
<1> QED BY <1>1, InvHolds, PTL

\* Control comes to no handler, or to that of another interrupt, only after a removal
\* out of order or that spoilt a saved vector, or, until the interrupt is served, by a
\* signal with no routine or half of one, a routine that changed BX, or Ctrl-Break
\* between setting defvec and using it.
THEOREM NeverAstray == Spec => []StrayExplained
<1>1. Inv => StrayExplained
  <2> SUFFICES ASSUME Inv, disorder = {} PROVE ~Astray
    BY DEF StrayExplained
  <2>1. Control
    BY DEF Inv
  <2>2. at \notin {"null", "junk", "wild"}
    BY <2>1 DEF Control, Window, Ints, Handlers
  <2> QED BY <2>1, <2>2 DEF Astray, Control
<1> QED BY <1>1, InvHolds, PTL
=============================================================================

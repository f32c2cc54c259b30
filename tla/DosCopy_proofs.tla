--------------------------- MODULE DosCopy_proofs ---------------------------
(***************************************************************************)
(* Theorems of DosCopy, for any files and trees of any size.               *)
(***************************************************************************)
EXTENDS DosCopy, SequenceTheorems, TLAPS

\* What InternalCopyFile holds at each of its calls.  An open that stored no handle
\* leaves hSrc or hDst what the stack held, a read leaves pIOBuf what the file held and
\* a longer one the handles too; the invariant says nothing of a handle or buffer after
\* that.
Inside == pc \in {"source", "dest", "read", "write"}
Held == CASE pc = "dest" -> {hSrc}
          [] pc \in {"read", "write"} -> {hSrc, hDst}
          [] pc = "crashed" -> {"src", "dst"}
          [] OTHER -> {}

HandlesInv ==
  clobbered < 2 =>
    /\ ~faulted => open \intersect {"src", "dst"} \subseteq Held
    /\ ~uninit => /\ "other" \in open
                  /\ pc \in {"dest", "read", "write"} => hSrc = "src"
                  /\ pc \in {"read", "write"} => hDst = "dst"

BufferInv ==
  ~faulted /\ clobbered = 0 =>
    /\ Inside => segs = {"other", "buffer"} /\ pIOBuf = "buffer"
    /\ ~Inside /\ pc # "crashed" => segs = {"other"}

CopyInv == clobbered \in 0..3 /\ HandlesInv /\ BufferInv

\* How far reads have gone is never taken back, and beyond the selector the handles
\* are no longer spoken of.
LEMMA OverwriteReach ==
  ASSUME clobbered \in 0..3, NEW n \in Reach \ {0}, Overwrite(n)
  PROVE  /\ clobbered' \in 1..3
         /\ clobbered' < 2 => clobbered < 2 /\ UNCHANGED <<hSrc, hDst>>
<1>1. n \in 1..3
  BY DEF Reach
<1>2. Max({clobbered, n}) \in {clobbered, n}
      /\ \A m \in {clobbered, n} : Max({clobbered, n}) >= m
  <2> DEFINE m == IF clobbered >= n THEN clobbered ELSE n
  <2>1. m \in {clobbered, n} /\ \A k \in {clobbered, n} : m >= k
    BY <1>1
  <2> QED
    BY <2>1 DEF Max
<1> QED
  BY <1>1, <1>2 DEF Overwrite

LEMMA CopyInit == Init => CopyInv
  BY DEF Init, CopyInv, HandlesInv, BufferInv, Inside, Held

\* One step per action: the calls outside InternalCopyFile hold nothing, each call
\* inside adds what it got or gives back what is held.
LEMMA CopyNextInv == CopyInv /\ [Next]_vars => CopyInv'
<1> SUFFICES ASSUME CopyInv, [Next]_vars PROVE CopyInv'
  OBVIOUS
<1> USE DEF CopyInv, HandlesInv, BufferInv, Inside, Held
<1>1. CASE Call
  BY <1>1 DEF Call, fileVars, procVars, localVars, histVars
<1>2. CASE AllocBuffer
  BY <1>2 DEF AllocBuffer, ReturnFile, fileVars
<1>3. CASE OpenSource
  <2>1. PICK o \in Opens("src", src[file]) :
          /\ uninit' = (uninit \/ o.handle = "none")
          /\ IF o.rc = "ok"
             THEN /\ pc' = "dest"
                  /\ hSrc' = IF o.handle = "none" THEN hSrc ELSE o.handle
                  /\ open' = (open \union {o.handle}) \ {"none"}
                  /\ UNCHANGED <<hDst, pIOBuf, segs>>
             ELSE CloseAll({hSrc}) /\ FreeBuffer /\ ReturnFile(o.rc)
    BY <1>3 DEF OpenSource
  <2>2. (o.rc = "ok" /\ o.handle = "src") \/ o.handle = "none"
    BY DEF Opens
  <2>3. pc = "source" /\ UNCHANGED <<clobbered, faulted>>
    BY <1>3 DEF OpenSource
  <2>4. CASE o.rc = "ok"
    BY <2>1, <2>2, <2>3, <2>4
  <2>5. CASE o.rc # "ok"
    BY <2>1, <2>2, <2>3, <2>5 DEF CloseAll, FreeBuffer, ReturnFile
  <2> QED
    BY <2>4, <2>5
<1>4. CASE OpenDest
  <2>1. PICK o \in Opens("dst", dst[file]) :
          /\ uninit' = (uninit \/ o.handle = "none")
          /\ IF o.rc = "ok"
             THEN /\ pc' = "read"
                  /\ hDst' = IF o.handle = "none" THEN hDst ELSE o.handle
                  /\ open' = (open \union {o.handle}) \ {"none"}
                  /\ UNCHANGED <<hSrc, pIOBuf, segs>>
             ELSE CloseAll(CloseBoth) /\ FreeBuffer /\ ReturnFile(o.rc)
    BY <1>4 DEF OpenDest
  <2>2. (o.rc = "ok" /\ o.handle = "dst") \/ o.handle = "none"
    BY DEF Opens
  <2>3. pc = "dest" /\ UNCHANGED <<clobbered, faulted>>
    BY <1>4 DEF OpenDest
  <2>4. CASE o.rc = "ok"
    BY <2>1, <2>2, <2>3, <2>4
  <2>5. CASE o.rc # "ok"
    BY <2>1, <2>2, <2>3, <2>5 DEF CloseAll, CloseBoth, FreeBuffer, ReturnFile
  <2> QED
    BY <2>4, <2>5
<1>5. CASE Read
  <2>1. ASSUME NEW n \in Reach \ {0}, Overwrite(n), UNCHANGED procVars,
               pc' \in {"write", "crashed"}, UNCHANGED <<uninit, faulted>>
        PROVE  CopyInv'
    <3>1. clobbered' \in 1..3 /\ (clobbered' < 2 => clobbered < 2 /\ UNCHANGED <<hSrc, hDst>>)
      BY <2>1, OverwriteReach
    <3> QED
      BY <1>5, <2>1, <3>1 DEF Read, procVars
  <2>2. ASSUME CloseAll(CloseBoth), FreeBuffer, ReturnFile("ok") \/ ReturnFile("error"),
               UNCHANGED <<uninit, clobbered, faulted>>
        PROVE  CopyInv'
    BY <1>5, <2>2 DEF Read, CloseAll, CloseBoth, FreeBuffer, ReturnFile
  <2> QED
    BY <1>5, <2>1, <2>2 DEF Read
<1>6. CASE Write
  BY <1>6 DEF Write, CloseAll, CloseBoth, FreeBuffer, ReturnFile, procVars, localVars
<1>7. CASE ListDirs \/ Descend \/ ListFiles \/ CopyNext \/ ReturnTree
  <2>1. UNCHANGED <<procVars, localVars, histVars>> /\ ~Inside /\ pc # "crashed"
    BY <1>7 DEF ListDirs, Descend, ListFiles, CopyNext, ReturnTree
  <2>2. pc' \in {"dirs", "descend", "files", "alloc", "done", "crashed"}
    BY <1>7 DEF ListDirs, Descend, ListFiles, CopyNext, ReturnTree
  <2>3. pc \notin {"dest", "read", "write", "crashed"}
    BY <2>1
  <2> QED
    BY <2>1, <2>2, <2>3 DEF procVars, localVars, histVars
<1>8. CASE UNCHANGED vars
  BY <1>8 DEF vars, fileVars, procVars, localVars, histVars
<1> QED
  BY <1>1, <1>2, <1>3, <1>4, <1>5, <1>6, <1>7, <1>8 DEF Next

\* Whatever fails in whatever order, in a tree of any depth, until a read has gone over
\* the handles: only a short write leaves a file of the copy open, and no handle of the
\* rest of the process is closed before a DosOpen has returned without storing one.
THEOREM HandlesReturned == Spec => []HandlesClosed
<1>1. CopyInv => HandlesClosed
  BY DEF CopyInv, HandlesInv, HandlesClosed, Outside, Held
<1> QED
  BY <1>1, CopyInit, CopyNextInv, PTL DEF Spec

\* The buffer is given back, and nothing else is, until a read has gone over it.
THEOREM BufferReturned == Spec => []BufferFreed
<1>1. CopyInv => BufferFreed
  BY DEF CopyInv, BufferInv, BufferFreed, Outside, Inside
<1> QED
  BY <1>1, CopyInit, CopyNextInv, PTL DEF Spec
-----------------------------------------------------------------------------
Frame == [dirs : Nat, files : SUBSET Names, result : {"ok", "error"}]

\* An error of the top directory stands in the outermost frame until DosCopy returns it.
ErrorInv ==
  /\ frames \in Seq(Frame)
  /\ pc \in {"descend", "files"} => Len(frames) > 0
  /\ topError => IF pc = "done" THEN rc = "error"
                 ELSE Len(frames) > 0 /\ frames[1].result = "error"

\* Counting down a frame's directories or choosing its files leaves its result.
LEMMA FrameChanged ==
  ASSUME NEW r \in Frame
  PROVE  /\ r.dirs \in Nat
         /\ \A n \in Nat : [r EXCEPT !.dirs = n] \in Frame
                           /\ [r EXCEPT !.dirs = n].result = r.result
         /\ \A F \in SUBSET Names : [r EXCEPT !.files = F] \in Frame
                                    /\ [r EXCEPT !.files = F].result = r.result
         /\ r.files \in SUBSET Names
  BY DEF Frame

\* What becomes of the frames when a file's result is entered in the innermost one.
LEMMA ReturnFileError ==
  ASSUME ErrorInv, pc # "done", NEW code \in {"ok", "error"}, ReturnFile(code)
  PROVE  ErrorInv'
<1>0. CASE pc' = "crashed"
  BY <1>0 DEF ReturnFile, ErrorInv
<1>1. CASE pc' # "crashed" /\ frames = <<>>
  <2>1. pc' = "done" /\ UNCHANGED <<frames, topError>>
    BY <1>1 DEF ReturnFile
  <2>2. ~topError
    BY <1>1 DEF ErrorInv
  <2> QED
    BY <2>1, <2>2 DEF ErrorInv
<1>2. CASE pc' # "crashed" /\ frames # <<>>
  <2> DEFINE n == Len(frames)
             f == [frames[n] EXCEPT !.result = Result(frames[n].result)]
  <2>1. n \in Nat /\ n > 0 /\ frames[n] \in Frame
    BY <1>2 DEF ErrorInv
  <2>2. Result(frames[n].result) \in {"ok", "error"} /\ rc' = code
    BY <2>1, <1>2 DEF Result, ReturnFile, Frame
  <2>3. f \in Frame /\ f.result = Result(frames[n].result)
    BY <2>1, <2>2 DEF Frame
  <2>4. frames' = [frames EXCEPT ![n] = f] /\ pc' = "files"
    BY <1>2 DEF ReturnFile
  <2>5. topError' = (topError \/ (n = 1 /\ code # "ok"))
    BY <1>2 DEF ReturnFile
  <2> HIDE DEF f
  <2>6. frames' \in Seq(Frame) /\ Len(frames') = n /\ (n # 1 => frames'[1] = frames[1])
        /\ (n = 1 => frames'[1] = f)
    BY <2>1, <2>3, <2>4 DEF ErrorInv
  <2>7. topError => frames[1].result = "error"
    BY DEF ErrorInv
  <2>8. n = 1 /\ (topError \/ code # "ok") => f.result = "error"
    BY <2>2, <2>3, <2>7 DEF Result
  <2> QED
    BY <2>1, <2>4, <2>5, <2>6, <2>7, <2>8 DEF ErrorInv
<1> QED
  BY <1>0, <1>1, <1>2

LEMMA ErrorNext == ErrorInv /\ [Next]_vars => ErrorInv'
<1> SUFFICES ASSUME ErrorInv, [Next]_vars PROVE ErrorInv'
  OBVIOUS
<1> USE DEF ErrorInv
<1>1. CASE Call
  BY <1>1 DEF Call, histVars
<1>2. CASE AllocBuffer
  BY <1>2, ReturnFileError DEF AllocBuffer
<1>3. CASE OpenSource
  <2>1. PICK o \in Opens("src", src[file]) :
          IF o.rc = "ok" THEN pc' = "dest" /\ UNCHANGED <<rc, frames, topError>>
          ELSE ReturnFile(o.rc)
    BY <1>3 DEF OpenSource
  <2>2. o.rc \in {"ok", "error"} /\ pc = "source"
    BY <1>3 DEF Opens, OpenSource
  <2> QED
    BY <2>1, <2>2, ReturnFileError
<1>4. CASE OpenDest
  <2>1. PICK o \in Opens("dst", dst[file]) :
          IF o.rc = "ok" THEN pc' = "read" /\ UNCHANGED <<rc, frames, topError>>
          ELSE ReturnFile(o.rc)
    BY <1>4 DEF OpenDest
  <2>2. o.rc \in {"ok", "error"} /\ pc = "dest"
    BY <1>4 DEF Opens, OpenDest
  <2> QED
    BY <2>1, <2>2, ReturnFileError
<1>5. CASE Read
  BY <1>5, ReturnFileError DEF Read
<1>6. CASE Write
  BY <1>6, ReturnFileError DEF Write
<1>7. CASE ListDirs
  <2>1. PICK n \in IF Len(frames) + 1 < MaxDepth THEN 0..MaxDirs ELSE {0} :
          frames' = Append(frames, [dirs |-> n, files |-> {}, result |-> "ok"])
    BY <1>7 DEF ListDirs
  <2>4. n \in Nat
    BY <2>1, CopyAssumption
  <2>2. [dirs |-> n, files |-> {}, result |-> "ok"] \in Frame
    BY <2>4 DEF Frame
  <2>3. pc = "dirs" /\ pc' \in {"descend", "crashed"} /\ UNCHANGED topError
    BY <1>7 DEF ListDirs, histVars
  <2> QED
    BY <2>1, <2>2, <2>3
<1>8. CASE Descend \/ ListFiles \/ CopyNext
  <2> DEFINE n == Len(frames)
  <2>1. n \in Nat /\ n > 0 /\ frames[n] \in Frame /\ Top = frames[n]
    BY <1>8 DEF Descend, ListFiles, CopyNext, Top, Last
  <2>2. PICK f \in Frame : frames' = [frames EXCEPT ![n] = f] /\ f.result = frames[n].result
    <3>1. CASE Descend
      <4>1. frames' = [frames EXCEPT ![n] = [frames[n] EXCEPT !.dirs = frames[n].dirs - 1]]
        BY <3>1 DEF Descend
      <4>2. frames[n].dirs > 0
        BY <2>1, <3>1 DEF Descend
      <4>3. frames[n].dirs - 1 \in Nat
        BY <2>1, <4>2, FrameChanged
      <4> QED
        BY <2>1, <4>1, <4>3, FrameChanged
    <3>2. CASE ListFiles
      <4>1. PICK F \in SUBSET Names : frames' = [frames EXCEPT ![n] = [frames[n] EXCEPT !.files = F]]
        BY <3>2 DEF ListFiles
      <4> QED
        BY <2>1, <4>1, FrameChanged
    <3>3. CASE CopyNext
      <4>1. PICK f \in Top.files :
              frames' = [frames EXCEPT ![n] = [frames[n] EXCEPT !.files = frames[n].files \ {f}]]
        BY <3>3 DEF CopyNext
      <4>2. frames[n].files \ {f} \in SUBSET Names
        BY <2>1, FrameChanged
      <4> QED
        BY <2>1, <4>1, <4>2, FrameChanged
    <3> QED
      BY <1>8, <3>1, <3>2, <3>3
  <2>3. frames' \in Seq(Frame) /\ Len(frames') = n /\ frames'[1].result = frames[1].result
    BY <2>1, <2>2
  <2>4. pc \in {"descend", "files"} /\ pc' \in {"dirs", "files", "alloc"} /\ UNCHANGED topError
    BY <1>8 DEF Descend, ListFiles, CopyNext, histVars
  <2> QED
    BY <2>1, <2>3, <2>4
<1>9. CASE ReturnTree
  <2>1. Len(frames) \in Nat /\ Len(frames) > 0 /\ pc = "files" /\ UNCHANGED topError
    BY <1>9 DEF ReturnTree, histVars
  <2>2. frames' = SubSeq(frames, 1, Len(frames) - 1)
    BY <1>9 DEF ReturnTree, Front
  <2>3. frames' \in Seq(Frame) /\ Len(frames') = Len(frames) - 1
        /\ (Len(frames) > 1 => frames'[1] = frames[1])
    <3> DEFINE m == Len(frames) - 1
               q == SubSeq(frames, 1, m)
    <3>1. m \in Nat /\ \A k \in 1 .. m : frames[k] \in Frame
      BY <2>1
    <3> HIDE DEF m
    <3>2. /\ q \in Seq(Frame)
          /\ Len(q) = IF 1 <= m THEN m - 1 + 1 ELSE 0
          /\ \A k \in 1 .. m - 1 + 1 : q[k] = frames[1 + k - 1]
      BY <3>1, SubSeqProperties
    <3> HIDE DEF q
    <3>3. q \in Seq(Frame) /\ Len(q) = m /\ (m > 0 => q[1] = frames[1])
      BY <3>1, <3>2
    <3> QED
      BY <2>1, <2>2, <3>3 DEF m, q
  <2>4. CASE Len(frames) = 1
    BY <1>9, <2>1, <2>3, <2>4 DEF ReturnTree, Top, Last
  <2>5. CASE Len(frames) # 1
    BY <1>9, <2>1, <2>3, <2>5 DEF ReturnTree
  <2> QED
    BY <2>4, <2>5
<1>10. CASE UNCHANGED vars
  BY <1>10 DEF vars, histVars
<1> QED
  BY <1>1, <1>2, <1>3, <1>4, <1>5, <1>6, <1>7, <1>8, <1>9, <1>10 DEF Next

\* However deep the tree and however many files follow: a failure in the directory
\* DosCopy was called for is what it returns.
THEOREM ErrorsReported == Spec => []FileErrorsReported
<1>1. Init => ErrorInv
  BY DEF Init, ErrorInv
<1>2. ErrorInv => FileErrorsReported
  BY DEF ErrorInv, FileErrorsReported
<1> QED
  BY <1>1, <1>2, ErrorNext, PTL DEF Spec
=============================================================================

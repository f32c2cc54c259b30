------------------------------ MODULE DosCopy ------------------------------
(***************************************************************************)
(* DosCopy (dos/DosCopy.c) over DosOpen, DosRead, DosWrite and DosClose as *)
(* fm/ has them: a file is copied through a buffer, a directory one        *)
(* subdirectory and one file after the other.  Contents are what matters   *)
(* of them; what a find call lists is left open.  A handle or selector is  *)
(* named by what it denotes: "other" belongs to the rest of the process,   *)
(* "junk" denotes nothing.                                                 *)
(***************************************************************************)
EXTENDS Naturals, Sequences, SequencesExt, FiniteSets

CONSTANTS
  Names,      \* files of a directory
  MaxDirs,    \* subdirectories a find call lists
  MaxDepth    \* nested directories

ASSUME CopyAssumption == MaxDirs \in Nat /\ MaxDepth \in Nat \ {0}

VARIABLES
  share,                     \* SHARE = 0FFFFH: file sharing is installed
  src, dst,                  \* the files, by name
  open, segs,                \* handles and segments the process holds
  pc, frames,                \* where DosCopy is; a frame per InternalCopyTree
  file, hSrc, hDst, pIOBuf,  \* the locals of InternalCopyFile
  rc,
  uninit, faulted, topError, \* history: an open left its handle unset, a write fell
                             \* short, a file of the top directory failed
  clobbered                  \* how far a read went over the frame: 0 not at all, 1 the
                             \* selector, 2 the other locals, 3 what is saved behind them

fileVars  == <<src, dst>>
procVars  == <<open, segs>>
localVars == <<hSrc, hDst, pIOBuf>>
histVars  == <<uninit, clobbered, faulted, topError>>
vars == <<share, fileVars, procVars, pc, frames, file, localVars, rc, histVars>>

\* What two bytes that were not meant as a handle may denote.
Anything == {"src", "dst", "other", "junk"}

Init ==
  /\ share \in BOOLEAN
  /\ src \in [Names -> {"data", "device"}]
  /\ dst \in [Names -> {"absent", "old"}]
  /\ open = {"other"} /\ segs = {"other"}
  /\ pc = "call" /\ frames = <<>>
  /\ file \in Names /\ hSrc = "junk" /\ hDst = "junk" /\ pIOBuf = "junk"
  /\ rc = "ok"
  /\ uninit = FALSE /\ clobbered = 0 /\ faulted = FALSE /\ topError = FALSE

\* DosCopy: the arguments are checked, DosQFileMode tells file from directory.  The
\* options reach no more than DosOpen, which does not look at them.
Call ==
  /\ pc = "call"
  /\ \/ pc' = "alloc" /\ UNCHANGED rc
     \/ pc' = "dirs" /\ UNCHANGED rc
     \/ pc' = "done" /\ rc' = "error"
  /\ UNCHANGED <<share, fileVars, procVars, frames, file, localVars, histVars>>
-----------------------------------------------------------------------------
(* InternalCopyFile                                                        *)

\* Variant: a file's error is lost with the next file that is copied.
LastResult(result) == rc'
Result(result) == IF rc' = "ok" THEN result ELSE rc'

\* It returns code and its locals are gone.  It returns to DosCopy or to the innermost
\* InternalCopyTree, unless a read went over the address.
ReturnFile(code) ==
  /\ rc' = code
  /\ hSrc' = "junk" /\ hDst' = "junk" /\ pIOBuf' = "junk"
  /\ \/ clobbered = 3 /\ pc' = "crashed" /\ UNCHANGED <<frames, topError>>
     \/ clobbered < 3 /\ frames = <<>> /\ pc' = "done" /\ UNCHANGED <<frames, topError>>
     \/ /\ clobbered < 3 /\ frames # <<>>
        /\ pc' = "files"
        /\ frames' = [frames EXCEPT ![Len(frames)].result = Result(@)]
        /\ topError' = (topError \/ (Len(frames) = 1 /\ code # "ok"))

\* Variant: the buffer stays.
KeepBuffer == UNCHANGED segs
\* The handles closed and the selector freed on the way out.  Junk may be any segment.
CloseAll(handles) == open' = open \ handles
FreeBuffer ==
  \/ pIOBuf = "buffer" /\ segs' = segs \ {"buffer"}
  \/ pIOBuf = "junk" /\ \E s \in segs \union {"junk"} : segs' = segs \ {s}

\* The stack holds anything where the handles will be.
AllocBuffer ==
  /\ pc = "alloc"
  /\ \/ segs' = segs \union {"buffer"} /\ pIOBuf' = "buffer" /\ pc' = "source"
        /\ hSrc' \in Anything /\ hDst' \in Anything
        /\ UNCHANGED <<rc, frames, topError>>
     \/ ReturnFile("error") /\ UNCHANGED segs
  /\ UNCHANGED <<share, fileVars, open, file, uninit, clobbered, faulted>>

\* Both calls of DosOpen ask for a sharing mode, which it refuses without SHARE.
ModeAllowed == share

\* DosOpen tests AL, where an error code was put, instead of the open function:
\* whatever was asked for, the file is created, and what it held is gone.
Created(content) == CASE content = "device" -> "device"
                      [] content = "absent" -> "new"
                      [] OTHER -> "emptied"

\* Creating or opening may fail; DosOpen then returns what is in CX, the flags or the
\* attribute 0 for the creation, which reads as success, and stores no handle.
Opens(handle, content) ==
  IF ~ModeAllowed THEN {[rc |-> "error", handle |-> "none", content |-> content]}
  ELSE {[rc |-> "ok", handle |-> handle, content |-> Created(content)]}
         \union [rc : {"ok", "error"}, handle : {"none"},
                 content : {content, Created(content)}]

OpenSource ==
  /\ pc = "source"
  /\ \E o \in Opens("src", src[file]) :
       /\ src' = [src EXCEPT ![file] = o.content]
       /\ uninit' = (uninit \/ o.handle = "none")
       /\ IF o.rc = "ok"
          THEN /\ pc' = "dest"
               /\ hSrc' = IF o.handle = "none" THEN hSrc ELSE o.handle
               /\ open' = (open \union {o.handle}) \ {"none"}
               /\ UNCHANGED <<hDst, pIOBuf, segs, rc, frames, topError>>
          ELSE CloseAll({hSrc}) /\ FreeBuffer /\ ReturnFile(o.rc)
  /\ UNCHANGED <<share, dst, file, clobbered, faulted>>

\* Variant: the source stays open when the destination cannot be opened.
CloseDest == {hDst}
CloseBoth == {hDst, hSrc}

\* The open type that DCPY_EXISTING selects, and moving the pointer to the end for
\* DCPY_APPEND, make no difference: the file was just emptied.
OpenDest ==
  /\ pc = "dest"
  /\ \E o \in Opens("dst", dst[file]) :
       /\ dst' = [dst EXCEPT ![file] = o.content]
       /\ uninit' = (uninit \/ o.handle = "none")
       /\ IF o.rc = "ok"
          THEN /\ pc' = "read"
               /\ hDst' = IF o.handle = "none" THEN hDst ELSE o.handle
               /\ open' = (open \union {o.handle}) \ {"none"}
               /\ UNCHANGED <<hSrc, pIOBuf, segs, rc, frames, topError>>
          ELSE CloseAll(CloseBoth) /\ FreeBuffer /\ ReturnFile(o.rc)
  /\ UNCHANGED <<share, src, file, clobbered, faulted>>

\* How far what DosRead returns can reach, as clobbered counts: a file was emptied
\* when it was opened, a device or a file of the rest of the process was not.
Reach == CASE hSrc \notin open -> {}
           [] hSrc = "src" -> IF src[file] = "device" THEN 0..3 ELSE {0}
           [] hSrc = "dst" -> {0}
           [] OTHER -> 0..3

\* DosRead is given the address of pIOBuf, not of the buffer: what is read goes over
\* the selector, over the locals behind it, which the compiler orders, and over what
\* was saved before them.
Overwrite(n) ==
  /\ pIOBuf' = "junk" /\ clobbered' = Max({clobbered, n})
  /\ IF n = 1 THEN UNCHANGED <<hSrc, hDst>> ELSE hSrc' \in Anything /\ hDst' \in Anything

Read ==
  /\ pc = "read"
  /\ \/ \E n \in Reach \ {0} :
          /\ Overwrite(n)
          /\ pc' \in {"write"} \union (IF n = 3 THEN {"crashed"} ELSE {})
          /\ UNCHANGED <<procVars, rc, frames, topError>>
     \/ /\ 0 \in Reach
        /\ CloseAll(CloseBoth) /\ FreeBuffer /\ ReturnFile("ok") /\ UNCHANGED clobbered
     \/ CloseAll(CloseBoth) /\ FreeBuffer /\ ReturnFile("error") /\ UNCHANGED clobbered
  /\ UNCHANGED <<share, fileVars, file, uninit, faulted>>

\* The destination is opened with its attribute for an access mode, read only: only
\* a stray handle can be written to.  A short write returns at once.
Write ==
  /\ pc = "write"
  /\ \/ CloseAll(CloseBoth) /\ FreeBuffer /\ ReturnFile("error") /\ UNCHANGED faulted
     \/ /\ hDst \in open \ {"src", "dst"} /\ pc' = "read"
        /\ UNCHANGED <<procVars, localVars, rc, frames, topError, faulted>>
     \/ /\ hDst \in open \ {"src", "dst"} /\ ReturnFile("error") /\ faulted' = TRUE
        /\ UNCHANGED procVars
  /\ UNCHANGED <<share, fileVars, file, uninit, clobbered>>
-----------------------------------------------------------------------------
(* InternalCopyTree                                                        *)

Top == Last(frames)

\* All subdirectories are listed first.  A list node is reached through a pointer of
\* which only the offset was set, to a selector.  The write to it may be the end; if
\* it is not, any part of the list may be left.  What it hits is left open, and the
\* nodes' own segments are not among segs.
ListDirs ==
  /\ pc = "dirs"
  /\ \E n \in IF Len(frames) + 1 < MaxDepth THEN 0..MaxDirs ELSE {0} :
       /\ frames' = Append(frames, [dirs |-> n, files |-> {}, result |-> "ok"])
       /\ pc' \in {"descend"} \union (IF n > 0 THEN {"crashed"} ELSE {})
  /\ UNCHANGED <<share, fileVars, procVars, file, localVars, rc, histVars>>

\* InternalCheckPath finds every destination directory in order: it does nothing.
Descend ==
  /\ pc = "descend" /\ Top.dirs > 0
  /\ frames' = [frames EXCEPT ![Len(frames)].dirs = @ - 1]
  /\ pc' = "dirs"
  /\ UNCHANGED <<share, fileVars, procVars, file, localVars, rc, histVars>>

\* Then the files; a find call that fails lists none.
ListFiles ==
  /\ pc = "descend" /\ Top.dirs = 0
  /\ \E F \in SUBSET Names : frames' = [frames EXCEPT ![Len(frames)].files = F]
  /\ pc' = "files"
  /\ UNCHANGED <<share, fileVars, procVars, file, localVars, rc, histVars>>

CopyNext ==
  /\ pc = "files"
  /\ \E f \in Top.files :
       /\ file' = f
       /\ frames' = [frames EXCEPT ![Len(frames)].files = @ \ {f}]
  /\ pc' = "alloc"
  /\ UNCHANGED <<share, fileVars, procVars, localVars, rc, histVars>>

\* The result of a nested call is not looked at.
ReturnTree ==
  /\ pc = "files" /\ Top.files = {}
  /\ IF Len(frames) = 1 THEN pc' = "done" /\ rc' = Top.result
                        ELSE pc' = "descend" /\ UNCHANGED rc
  /\ frames' = Front(frames)
  /\ UNCHANGED <<share, fileVars, procVars, file, localVars, histVars>>
-----------------------------------------------------------------------------
Next ==
  \/ Call
  \/ AllocBuffer \/ OpenSource \/ OpenDest \/ Read \/ Write
  \/ ListDirs \/ Descend \/ ListFiles \/ CopyNext \/ ReturnTree

Spec == Init /\ [][Next]_vars
-----------------------------------------------------------------------------
Outside == pc \in {"call", "dirs", "descend", "files", "done"}

\* Every way out of InternalCopyFile but a short write frees its buffer and nothing
\* else, unless DosRead has been writing over the selector.
BufferFreed ==
  Outside /\ ~faulted /\ clobbered = 0 => segs = {"other"}

\* Until a read has gone over the locals: every way out but a short write closes the
\* files it opened, and it closes a handle that is not its own only after a DosOpen
\* that stored none.
HandlesClosed ==
  clobbered < 2 =>
    /\ Outside /\ ~faulted => open \intersect {"src", "dst"} = {}
    /\ ~uninit => "other" \in open

\* An error of a file of the directory DosCopy was called for is not covered up by the
\* files copied after it.  (Those of its subdirectories are.)
FileErrorsReported == pc = "done" /\ topError => rc = "error"
=============================================================================

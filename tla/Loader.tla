------------------------------- MODULE Loader -------------------------------
(***************************************************************************)
(* The NE loader of src/loader: main reads the headers, reads the segment  *)
(* table and allocates a block for each entry, then loads each segment and *)
(* applies its relocations.  Real-mode memory is linear: a handle is a     *)
(* paragraph number, a far pointer handle:offset, little endian, and what  *)
(* is written past a block lands in the next one.  Widths scale with B.    *)
(*                                                                         *)
(* Kept out of linear memory: the module table and the relocation records  *)
(* (table, rlcs), which a stray write therefore leaves readable, and the   *)
(* header fields that only size the module's block.  The file is complete. *)
(***************************************************************************)
EXTENDS Integers, Sequences, SequencesExt, FiniteSets

CONSTANTS
  B,             \* values of a byte (256)
  P,             \* bytes of a paragraph (16)
  LowParas,      \* paragraphs below the arena: vectors, DOS
  ErrNoMemory,   \* DOS error 8, which is also a paragraph of low memory
  ModuleSize,    \* bytes of the module's block
  RecordSize,    \* sizeof(struct new_rlc)
  Images,        \* the executables to load
  ArenaTops      \* first paragraphs past the arena

W == B * B       \* values of a WORD
END == W - 1     \* 0xffff, the end of a relocation chain
Mcb == B - 1     \* the signature of a DOS memory control block
Movable == B - 1 \* the segment number of a reference through the entry table

ASSUME LoaderAssumption ==
  /\ B \in Nat \ {0, 1} /\ P \in Nat \ {0} /\ LowParas \in Nat
  /\ ErrNoMemory \in 1..LowParas-1
  /\ ModuleSize \in Nat /\ RecordSize \in Nat
  /\ \A top \in ArenaTops : top \in LowParas..END

\* What main and apply_relocations read of a file: relocation records, segments with
\* their entries in the segment table, and whether the headers are as expected.
Record == [type : STRING, stype : STRING, additive : BOOLEAN, soff : 0..W-1,
           segno : 0..B-1, entry : 0..W-1]
Segment == [data : Seq(0..B-1), cbseg : 0..W-1, minalloc : 0..W-1, reloc : BOOLEAN,
            rlcs : Seq(Record)]
ASSUME ImagesAssumption == Images \subseteq [valid : BOOLEAN, segs : Seq(Segment)]

VARIABLES
  image, top,          \* the executable and the size of the arena, chosen at the start
  mem, blocks, refused,   \* memory, DOS's blocks in order, whether DOS refused one
  pc, status,          \* where main is, and its exit code
  mte, table,          \* the module's handle and the handles in its segment table
  i, entry,            \* the loop's segment number and the entry pData points to
  r, offset, address   \* the record, the place and the target of apply_relocations

memVars   == <<mem, blocks, refused>>
fixVars   == <<r, offset, address>>
vars == <<image, top, memVars, pc, status, mte, table, i, entry, fixVars>>

NSegs == Len(image.segs)
Seg   == image.segs[entry]
Rec   == Seg.rlcs[r]

Init ==
  /\ image \in Images /\ top \in ArenaTops
  /\ mem = [a \in 0 .. top * P + W |-> 1]
  /\ blocks = <<>> /\ refused = FALSE
  /\ pc = "headers" /\ status = -1
  /\ mte = 0 /\ table = <<>> /\ i = 1 /\ entry = 1
  /\ r = 1 /\ offset = 0 /\ address = <<0, 0>>
-----------------------------------------------------------------------------
(* Memory.                                                                 *)

Word(m, h, o) == m[h * P + o] + B * m[h * P + o + 1]
Bytes(v) == <<v % B, v \div B>>

\* m with the bytes s at h:o.
Store(m, h, o, s) ==
  [a \in DOMAIN m |-> LET k == a - (h * P + o) + 1
                      IN IF k \in DOMAIN s THEN s[k] ELSE m[a]]

\* Interrupt 21H/48H: the next free paragraphs, unless they are too few or a
\* control block was overwritten.  Then AX is the error code.
FreePara == IF blocks = <<>> THEN LowParas ELSE Last(blocks).base + Last(blocks).paras
DosGrants(m, paras) ==
  /\ FreePara + 1 + paras <= top
  /\ \A k \in DOMAIN blocks : m[(blocks[k].base - 1) * P] = Mcb

\* Variant: the paragraphs that hold the bytes, one too few for a remainder.
RoundedDown(size) == size \div P
Paragraphs(size) == size \div P + 1

\* GlobalAlloc does not look at the carry flag: the error code becomes the
\* handle, and the memory it denotes is cleared like a block.
GlobalAlloc(m, size) ==
  LET paras == Paragraphs(size)
      h     == IF DosGrants(m, paras) THEN FreePara + 1 ELSE ErrNoMemory
      made  == IF DosGrants(m, paras) THEN Store(m, h - 1, 0, <<Mcb>>) ELSE m
  IN /\ mem' = Store(made, h, 0, [k \in 1..size |-> 0])
     /\ IF DosGrants(m, paras)
        THEN blocks' = Append(blocks, [base |-> h, paras |-> paras]) /\ UNCHANGED refused
        ELSE refused' = TRUE /\ UNCHANGED blocks

\* The handle the allocation of this step returned.
NewHandle == IF blocks' = blocks THEN ErrNoMemory ELSE Last(blocks').base
-----------------------------------------------------------------------------
(* main                                                                    *)

Exit(code) == pc' = "done" /\ status' = code

\* The DOS version, the file, the two headers' sizes and magics, the target system:
\* whatever is wrong ends main.  Else the module gets its block.
ReadHeaders ==
  /\ pc = "headers"
  /\ IF image.valid
     THEN /\ GlobalAlloc(mem, ModuleSize) /\ mte' = NewHandle
          /\ pc' = "table" /\ UNCHANGED status
     ELSE Exit(1) /\ UNCHANGED <<memVars, mte>>
  /\ UNCHANGED <<image, top, table, i, entry, fixVars>>

\* A size in the table; 0 stands for 64K, which a WORD does not hold.
SizeWord(n) == IF n = 0 THEN W % W ELSE n

ReadEntry ==
  /\ pc = "table" /\ i <= NSegs
  /\ GlobalAlloc(mem, SizeWord(image.segs[i].minalloc))
  /\ table' = Append(table, NewHandle)
  /\ i' = i + 1
  /\ UNCHANGED <<image, top, pc, status, mte, entry, fixVars>>

TableRead ==
  /\ pc = "table" /\ i > NSegs
  /\ pc' = "segments" /\ i' = 1 /\ entry' = 1
  /\ UNCHANGED <<image, top, memVars, status, mte, table, fixVars>>

\* _lread of the segment pData points to, straight into its block.
Loaded == Store(mem, table[entry], 0, SubSeq(Seg.data, 1, SizeWord(Seg.cbseg)))

\* Without relocations there is nothing more to do; pData stays where it is.
LoadPlain ==
  /\ pc = "segments" /\ i <= NSegs /\ ~Seg.reloc
  /\ mem' = Loaded
  /\ i' = i + 1
  /\ UNCHANGED <<image, top, blocks, refused, pc, status, mte, table, entry, fixVars>>

\* With relocations, the records are read into a block of their own.
LoadRelocated ==
  /\ pc = "segments" /\ i <= NSegs /\ Seg.reloc
  /\ GlobalAlloc(Loaded, (Len(Seg.rlcs) * RecordSize) % W)
  /\ pc' = "fixups" /\ r' = 1 /\ address' = <<0, 0>>
  /\ UNCHANGED <<image, top, status, mte, table, i, entry, offset>>

\* The file is closed; running the program is not written yet.
Finish ==
  /\ pc = "segments" /\ i > NSegs
  /\ \E code \in {0, 1} : Exit(code)
  /\ UNCHANGED <<image, top, memVars, mte, table, i, entry, fixVars>>

\* DOS reports an error (carry) for the read of a header, a table entry, a segment or
\* its relocations.  _llseek does not look at the carry; it seems to fail, in the same
\* places and before the table is read, where the position's low word is HFILE_ERROR.
\* (What was loaded of the segment is left out: nothing follows.)
ReadError ==
  /\ \/ pc = "headers"
     \/ pc = "table" /\ i = 1
     \/ pc \in {"table", "segments"} /\ i <= NSegs
  /\ Exit(1)
  /\ UNCHANGED <<image, top, memVars, mte, table, i, entry, fixVars>>
-----------------------------------------------------------------------------
(* apply_relocations(mte, the records, their count, i)                     *)

\* Where pSeg points: the entry of the segment number passed.
Handle == table[i]

\* Only an internal reference computes a target; imports and the rest keep the
\* one of the record before.
Internal(rec) ==
  <<rec.entry, IF rec.segno = Movable THEN mte ELSE table[rec.segno]>>
Target == IF Rec.type = "int" THEN Internal(Rec) ELSE address

\* The bytes a fixup writes, over the word w for an additive one.
Fixup(rec, to) ==
  CASE rec.stype = "byt" -> <<rec.entry % B>>
    [] rec.stype = "off" -> Bytes(rec.entry)
    [] rec.stype = "ptr" -> Bytes(to[1]) \o Bytes(to[2])
    [] rec.stype = "seg" -> Bytes(to[2])
AddedFixup(rec, to, w) ==
  CASE rec.stype = "byt" -> <<(w + rec.entry) % B>>
    [] rec.stype = "off" -> Bytes((w + rec.entry) % W)
    [] rec.stype = "ptr" -> Bytes((w + to[1]) % W) \o Bytes(to[2])
    [] rec.stype = "seg" -> IF w = 0 THEN Bytes(to[2]) ELSE <<>>

Known(rec) == rec.stype \in {"byt", "off", "ptr", "seg"}

\* Variants: pData is not moved; the next segment number goes with it.
EntryKept == entry' = entry
NextEntry == entry' = entry + 1

\* apply_relocations returns and pData moves on.
Return == pc' = "segments" /\ i' = i + 1 /\ NextEntry
NextRecord == pc' = "fixups" /\ r' = r + 1 /\ UNCHANGED <<i, entry>>

StartRecord ==
  /\ pc = "fixups" /\ r <= Len(Seg.rlcs)
  /\ address' = Target
  /\ IF ~Rec.additive
     THEN pc' = "chain" /\ offset' = Rec.soff /\ UNCHANGED <<mem, i, entry, r>>
     ELSE /\ offset' = Rec.soff
          /\ IF Known(Rec)
             THEN /\ mem' = Store(mem, Handle, Rec.soff,
                                  AddedFixup(Rec, Target, Word(mem, Handle, Rec.soff)))
                  /\ NextRecord
             ELSE Return /\ UNCHANGED <<mem, r>>
  /\ UNCHANGED <<image, top, blocks, refused, status, mte, table>>

\* Variant: a link to itself is followed like any other.
EndsAtEnd(next) == next = END
ChainEnds(next) == next = offset \/ next = END

\* Variant: the chain is read after the place was patched.
LinkAfter == Word(Store(mem, Handle, offset, Fixup(Rec, address)), Handle, offset)
\* The place of the next fixup stands where this one is written.
Link == Word(mem, Handle, offset)

FollowChain ==
  /\ pc = "chain"
  /\ IF ~Known(Rec) THEN Return /\ UNCHANGED <<mem, r, offset>>
     ELSE /\ mem' = Store(mem, Handle, offset, Fixup(Rec, address))
          /\ IF ChainEnds(Link)
             THEN NextRecord /\ UNCHANGED offset
             ELSE offset' = Link /\ UNCHANGED <<pc, r, i, entry>>
  /\ UNCHANGED <<image, top, blocks, refused, status, mte, table, address>>

RecordsDone ==
  /\ pc = "fixups" /\ r > Len(Seg.rlcs)
  /\ Return
  /\ UNCHANGED <<image, top, memVars, status, mte, table, fixVars>>
-----------------------------------------------------------------------------
Next ==
  \/ ReadHeaders \/ ReadEntry \/ TableRead \/ LoadPlain \/ LoadRelocated \/ Finish
  \/ ReadError \/ StartRecord \/ FollowChain \/ RecordsDone

\* main is a sequential program: it goes on until it returns.
Spec == Init /\ [][Next]_vars /\ WF_vars(Next)
-----------------------------------------------------------------------------
(* Properties.                                                             *)

LinkIn(data, o) == data[o + 1] + B * data[o + 2]

\* The places of the chain that starts at o in the file: what is in every set that has
\* o and, with a place, the next one.
Linked(data, S) == \A p \in S : LinkIn(data, p) \in S \union {p, END}
Chain(data, o) ==
  LET Words == 0 .. Len(data) - 2
  IN {p \in Words : \A S \in SUBSET Words : o \in S /\ Linked(data, S) => p \in S}

\* The places a record names, and the bytes it takes up at each.
Places(data, rec) == IF rec.additive THEN {rec.soff} ELSE Chain(data, rec.soff)
Width(rec) == IF rec.stype = "ptr" THEN 4 ELSE 2

\* A record as a linker writes it, in segment s of n: it refers to a segment, its chain
\* stays inside the segment and comes back to no place.
WellFormedRecord(s, n, rec) ==
  /\ rec.type = "int" /\ Known(rec) /\ rec.segno \in 1..n \union {Movable}
  /\ rec.soff \in 0 .. s.cbseg - 2
  /\ \A o \in Places(s.data, rec) : o + Width(rec) <= s.cbseg
  /\ ~rec.additive =>
       /\ Linked(s.data, Chain(s.data, rec.soff))
       /\ \A o \in Chain(s.data, rec.soff) :
            LinkIn(s.data, o) \in {o, END} \/ o \notin Chain(s.data, LinkIn(s.data, o))

\* A segment that is not of 64K, no byte of which is named twice.
WellFormedSegment(s, n) ==
  /\ 0 < s.cbseg /\ s.cbseg <= s.minalloc /\ s.cbseg = Len(s.data)
  /\ s.reloc <=> s.rlcs # <<>>
  /\ \A j \in DOMAIN s.rlcs : WellFormedRecord(s, n, s.rlcs[j])
  /\ \A j, k \in DOMAIN s.rlcs :
       \A o \in Places(s.data, s.rlcs[j]), p \in Places(s.data, s.rlcs[k]) :
         <<j, o>> # <<k, p>> =>
           o + Width(s.rlcs[j]) <= p \/ p + Width(s.rlcs[k]) <= o

\* An image as the format has it, without segments of 64K and without imports.
WellFormed(im) ==
  \A k \in DOMAIN im.segs : WellFormedSegment(im.segs[k], Len(im.segs))

\* What must stand at place o of a record of segment s.
Want(s, rec, o) ==
  IF rec.additive THEN AddedFixup(rec, Internal(rec), LinkIn(s.data, o))
                  ELSE Fixup(rec, Internal(rec))

\* Segment k is in its block, relocated at sites D, pairs of a record and a place: each
\* holds what is wanted there, every other byte is the file's.
PatchedAt(k, D) ==
  LET s == image.segs[k]
      Byte(o) == mem[table[k] * P + o]
  IN /\ \A d \in D : \A n \in DOMAIN Want(s, s.rlcs[d[1]], d[2]) :
          Byte(d[2] + n - 1) = Want(s, s.rlcs[d[1]], d[2])[n]
     /\ \A o \in 0 .. s.cbseg - 1 :
          (\A d \in D : o + 1 - d[2] \notin DOMAIN Want(s, s.rlcs[d[1]], d[2]))
            => Byte(o) = s.data[o + 1]

\* Its sites, of the records up to number n.
Sites(k, n) ==
  LET s == image.segs[k]
  IN {d \in (1..n) \X (0..s.cbseg) : d[2] \in Places(s.data, s.rlcs[d[1]])}
InPlace(k) == PatchedAt(k, Sites(k, Len(image.segs[k].rlcs)))

\* When main returns 0 and DOS refused it no memory, every segment up to and including
\* the first one without relocations is in its block, relocated: each link of a chain
\* was read before it was overwritten, with the target of its own record, and nothing
\* loaded later disturbed it.  (The segments after that one are never loaded.)
ImageInPlace ==
  status = 0 /\ ~refused /\ WellFormed(image) =>
    \A k \in 1 .. NSegs : (\A j \in 1 .. k - 1 : image.segs[j].reloc) => InPlace(k)

\* The segment number passed to apply_relocations comes from the loop, the records
\* from the entry pData points to: they are the same segment's, although pData stays
\* behind after a segment without relocations.
RelocatesOwnSegment == pc \in {"fixups", "chain"} => i = entry

\* The loader writes only into blocks DOS gave it, as long as DOS gave it all it asked
\* for and the image has no 64K segment.
InBlock(a, b) == a \in (b.base - 1) * P .. (b.base + b.paras) * P - 1
StrayWrite ==
  \E a \in DOMAIN mem :
    mem'[a] # mem[a] /\ \A k \in DOMAIN blocks' : ~InBlock(a, blocks'[k])
WritesStayInBlocks == [][StrayWrite => refused' \/ ~WellFormed(image)]_vars

\* main returns for every image as the format has it, unless DOS refused it memory and
\* a segment was relocated in a block that was cleared meanwhile: what fixups write into
\* a chain does not lead it back.  Of other images it need not be so: a fixup of single
\* bytes leaves the high byte of the link it went by, and places that link to each other
\* through that byte are gone round for ever (the test for it, loader.c:387, only sees a
\* place that links to itself).
Terminates == WellFormed(image) => <>(pc = "done" \/ refused)
=============================================================================

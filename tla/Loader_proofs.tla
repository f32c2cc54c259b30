--------------------------- MODULE Loader_proofs ---------------------------
(***************************************************************************)
(* Theorems of Loader, for every executable and every arena.               *)
(***************************************************************************)
EXTENDS Loader, SequenceTheorems, TLAPS

-----------------------------------------------------------------------------
(* The inductive invariant.                                                  *)

\* The blocks DOS gave lie in the arena, one after the other, each behind its
\* control block.
Block == [base : Nat \ {0}, paras : Nat]
BlocksInv ==
  /\ blocks \in Seq(Block)
  /\ \A k \in DOMAIN blocks : blocks[k].base + blocks[k].paras <= top
  /\ \A j, k \in DOMAIN blocks :
       j < k => blocks[j].base + blocks[j].paras < blocks[k].base

\* The first block is the module's, the next ones are the segments'.
TableInv ==
  /\ table \in Seq(Nat) /\ Len(table) <= NSegs
  /\ \A k \in DOMAIN table :
       /\ k + 1 \in DOMAIN blocks /\ table[k] = blocks[k + 1].base
       /\ blocks[k + 1].paras = Paragraphs(image.segs[k].minalloc)
  /\ pc = "headers" => blocks = <<>> /\ table = <<>> /\ i = 1
  /\ pc = "table" => i \in Nat \ {0} /\ Len(blocks) = i /\ Len(table) = i - 1
  /\ pc \in {"segments", "fixups", "chain"} => Len(table) = NSegs

\* The segments before k are in place, and each of them had relocations.
PlacedBefore(k) == \A j \in 1..k-1 : image.segs[j].reloc /\ InPlace(j)

\* Between two segments pData is at the segment to load, or stays at the first one
\* without relocations, which is in place.
BetweenInv ==
  /\ i \in 1..NSegs+1 /\ entry \in 1..i /\ PlacedBefore(entry)
  /\ entry # i => ~Seg.reloc /\ InPlace(entry)

\* The records before r are applied.
RecordInv ==
  /\ i \in 1..NSegs /\ entry = i /\ PlacedBefore(i) /\ Seg.reloc
  /\ r \in 1..Len(Seg.rlcs)+1

\* The places of record r that come before offset in its chain.
Followed == {<<r, o>> : o \in Chain(Seg.data, Rec.soff) \ Chain(Seg.data, offset)}
ChainInv ==
  /\ r \in DOMAIN Seg.rlcs /\ ~Rec.additive
  /\ offset \in Chain(Seg.data, Rec.soff) /\ address = Internal(Rec)
  /\ PatchedAt(i, Sites(i, r - 1) \union Followed)

ProgressInv ==
  /\ pc \in {"headers", "table", "segments", "fixups", "chain", "done"}
  /\ pc # "done" => status = -1
  /\ pc = "segments" => BetweenInv
  /\ pc \in {"fixups", "chain"} => RecordInv
  /\ pc = "fixups" => PatchedAt(i, Sites(i, r - 1))
  /\ pc = "chain" => ChainInv

\* As long as DOS refuses nothing, for an image as a linker writes it.
LoadInv ==
  /\ image \in Images /\ top \in ArenaTops /\ DOMAIN mem = 0 .. top * P + W
  /\ WellFormed(image) /\ ~refused =>
       BlocksInv /\ TableInv /\ ProgressInv /\ ImageInPlace

\* While a segment is relocated its number and its entry agree.  Between two segments
\* they may not: pData stays at the first entry without relocations, and with it the
\* loop can do nothing but load that segment again.
EntryInv ==
  /\ RelocatesOwnSegment
  /\ pc = "segments" => i = entry \/ ~image.segs[entry].reloc

LEMMA EntryInit == Init => EntryInv
  BY DEF Init, EntryInv, RelocatesOwnSegment

LEMMA EntryNext == EntryInv /\ [Next]_vars => EntryInv'
<1> SUFFICES ASSUME EntryInv, [Next]_vars PROVE EntryInv'
  OBVIOUS
<1> USE DEF EntryInv, RelocatesOwnSegment
<1>1. CASE ReadHeaders
  BY <1>1 DEF ReadHeaders, Exit, GlobalAlloc
<1>2. CASE ReadEntry
  BY <1>2 DEF ReadEntry, GlobalAlloc
<1>3. CASE TableRead
  BY <1>3 DEF TableRead
<1>4. CASE LoadPlain
  BY <1>4 DEF LoadPlain, Seg
<1>5. CASE LoadRelocated
  BY <1>5 DEF LoadRelocated, Seg
<1>6. CASE Finish
  BY <1>6 DEF Finish, Exit
<1>7. CASE ReadError
  BY <1>7 DEF ReadError, Exit
<1>8. CASE StartRecord
  BY <1>8 DEF StartRecord, Return, NextEntry, NextRecord
<1>9. CASE FollowChain
  BY <1>9 DEF FollowChain, Return, NextEntry, NextRecord
<1>10. CASE RecordsDone
  BY <1>10 DEF RecordsDone, Return, NextEntry
<1>11. CASE UNCHANGED vars
  BY <1>11 DEF vars
<1> QED
  BY <1>1, <1>2, <1>3, <1>4, <1>5, <1>6, <1>7, <1>8, <1>9, <1>10, <1>11 DEF Next

\* apply_relocations is given the records and the number of one and the same segment,
\* whatever mixture of segments with and without relocations the executable has.
THEOREM OwnSegment == Spec => []RelocatesOwnSegment
<1>1. EntryInv => RelocatesOwnSegment
  BY DEF EntryInv
<1> QED
  BY <1>1, EntryInit, EntryNext, PTL DEF Spec
-----------------------------------------------------------------------------
(* Chains.                                                                   *)

Words(data) == 0 .. Len(data) - 2

\* A chain that stays in the segment is the least set it is stated to be: from each of
\* its places on, it is that place and the rest.
LEMMA ChainHas ==
  ASSUME NEW data, NEW o \in Words(data)
  PROVE  o \in Chain(data, o) /\ Chain(data, o) \subseteq Words(data)
BY DEF Chain, Words

LEMMA ChainLeast ==
  ASSUME NEW data, NEW o, NEW S \in SUBSET Words(data), o \in S, Linked(data, S)
  PROVE  Chain(data, o) \subseteq S
BY DEF Chain, Words

LEMMA ChainFrom ==
  ASSUME NEW data, NEW o \in Words(data), Linked(data, Chain(data, o)),
         NEW p \in Chain(data, o)
  PROVE  /\ Chain(data, p) \subseteq Chain(data, o)
         /\ Linked(data, Chain(data, p))
<1>1. Chain(data, o) \in SUBSET Words(data) /\ p \in Words(data)
  BY ChainHas
<1>2. Chain(data, p) \subseteq Chain(data, o)
  BY <1>1, ChainLeast
<1>3. ASSUME NEW q \in Chain(data, p), LinkIn(data, q) \notin {q, END}
      PROVE  LinkIn(data, q) \in Chain(data, p)
  <2>1. LinkIn(data, q) \in Words(data)
    BY <1>1, <1>2, <1>3 DEF Linked
  <2>2. ASSUME NEW S \in SUBSET Words(data), p \in S, Linked(data, S)
        PROVE  LinkIn(data, q) \in S
    <3>1. q \in S
      BY <2>2, ChainLeast
    <3> QED BY <1>3, <2>2, <3>1 DEF Linked
  <2> QED BY <2>1, <2>2 DEF Chain, Words
<1> QED BY <1>2, <1>3 DEF Linked

LEMMA ChainUnfold ==
  ASSUME NEW data, NEW o \in Words(data), Linked(data, Chain(data, o))
  PROVE  IF LinkIn(data, o) \in {o, END}
         THEN Chain(data, o) = {o}
         ELSE Chain(data, o) = {o} \union Chain(data, LinkIn(data, o))
<1>1. o \in Chain(data, o) /\ Chain(data, o) \subseteq Words(data)
  BY ChainHas
<1>2. CASE LinkIn(data, o) \in {o, END}
  <2>1. Linked(data, {o})
    BY <1>2 DEF Linked
  <2>2. Chain(data, o) \subseteq {o}
    BY <2>1, ChainLeast
  <2> QED BY <1>1, <1>2, <2>2
<1>3. CASE LinkIn(data, o) \notin {o, END}
  <2> DEFINE q == LinkIn(data, o)
  <2>1. q \in Chain(data, o)
    BY <1>1, <1>3 DEF Linked
  <2>2. Chain(data, q) \subseteq Chain(data, o) /\ Linked(data, Chain(data, q))
    BY <2>1, ChainFrom
  <2>3. q \in Chain(data, q)
    BY <1>1, <2>1, ChainHas
  <2>4. Linked(data, {o} \union Chain(data, q))
    BY <2>2, <2>3 DEF Linked
  <2>5. {o} \union Chain(data, q) \in SUBSET Words(data)
    BY <1>1, <2>2
  <2>6. Chain(data, o) \subseteq {o} \union Chain(data, q)
    BY <2>4, <2>5, ChainLeast
  <2> QED BY <1>1, <1>3, <2>2, <2>6
<1> QED BY <1>2, <1>3

-----------------------------------------------------------------------------
(* Memory and blocks.                                                        *)

LEMMA Scale ==
  ASSUME NEW a \in Int, NEW b \in Int, a <= b
  PROVE  a * P <= b * P
BY LoaderAssumption

LEMMA ParagraphsHold ==
  ASSUME NEW size \in Nat
  PROVE  Paragraphs(size) \in Nat /\ size < Paragraphs(size) * P
BY LoaderAssumption DEF Paragraphs

\* Store changes the bytes it is given the values of, and no other.
LEMMA StoreKeeps ==
  ASSUME NEW m, NEW h, NEW o, NEW s, NEW a \in DOMAIN m,
         a - (h * P + o) + 1 \notin DOMAIN s
  PROVE  Store(m, h, o, s)[a] = m[a]
BY DEF Store

LEMMA StorePuts ==
  ASSUME NEW m, NEW h \in Nat, NEW o \in Nat, NEW s, NEW n \in DOMAIN s, n \in Nat,
         h * P + o + n - 1 \in DOMAIN m
  PROVE  Store(m, h, o, s)[h * P + o + n - 1] = s[n]
<1>1. h * P + o \in Int
  BY LoaderAssumption
<1>2. (h * P + o + n - 1) - (h * P + o) + 1 = n
  BY <1>1
<1> QED BY <1>2 DEF Store

\* The place o of a block at h of enough paragraphs is one of its bytes.
LEMMA BytesInBlock ==
  ASSUME NEW b \in Block, NEW size \in Nat,
         b.paras = Paragraphs(size), NEW o \in 0 .. size - 1
  PROVE  InBlock(b.base * P + o, b)
<1>1. size < b.paras * P
  BY ParagraphsHold
<1> USE DEF Block
<1>2. (b.base - 1) * P <= b.base * P
  BY Scale
<1>3. b.base * P \in Nat /\ b.paras * P \in Nat /\ (b.base - 1) * P \in Int
  BY LoaderAssumption
<1>4. (b.base + b.paras) * P = b.base * P + b.paras * P
  BY LoaderAssumption
<1> QED BY <1>1, <1>2, <1>3, <1>4 DEF InBlock

LEMMA BlocksApart ==
  ASSUME NEW b \in Block,
         NEW c \in Block,
         b.base + b.paras < c.base, NEW a, InBlock(a, b)
  PROVE  ~InBlock(a, c)
<1> USE DEF Block
<1>1. (b.base + b.paras) * P <= (c.base - 1) * P
  BY Scale
<1>2. (b.base + b.paras) * P \in Int /\ (c.base - 1) * P \in Int
      /\ (b.base - 1) * P \in Int /\ (c.base + c.paras) * P \in Int
  BY LoaderAssumption
<1> QED BY <1>1, <1>2 DEF InBlock

LEMMA InOneBlock ==
  ASSUME BlocksInv, NEW j \in DOMAIN blocks, NEW k \in DOMAIN blocks, j # k,
         NEW a, InBlock(a, blocks[j])
  PROVE  ~InBlock(a, blocks[k])
<1>1. /\ blocks[j] \in Block /\ blocks[k] \in Block
      /\ j \in Nat /\ k \in Nat
  BY DEF BlocksInv
<1>2. CASE j < k
  BY <1>1, <1>2, BlocksApart DEF BlocksInv
<1>3. CASE k < j
  BY <1>1, <1>3, BlocksApart DEF BlocksInv
<1> QED BY <1>1, <1>2, <1>3

\* Behind the last block the arena is free.
LEMMA FreeAbove ==
  ASSUME BlocksInv
  PROVE  /\ FreePara \in Nat
         /\ \A k \in DOMAIN blocks : blocks[k].base + blocks[k].paras <= FreePara
<1>1. CASE blocks = <<>>
  BY <1>1, LoaderAssumption DEF FreePara
<1>2. CASE blocks # <<>>
  <2>1. /\ Len(blocks) \in DOMAIN blocks /\ Last(blocks) = blocks[Len(blocks)]
        /\ \A k \in DOMAIN blocks : blocks[k] \in Block /\ k \in Nat /\ k <= Len(blocks)
    BY <1>2 DEF BlocksInv, Last
  <2>2. FreePara = blocks[Len(blocks)].base + blocks[Len(blocks)].paras
    BY <1>2, <2>1 DEF FreePara
  <2>3. ASSUME NEW k \in DOMAIN blocks
        PROVE  blocks[k].base + blocks[k].paras <= FreePara
    <3>1. blocks[k] \in Block /\ blocks[Len(blocks)] \in Block
      BY <2>1
    <3>2. CASE k < Len(blocks)
      BY <2>1, <2>2, <3>1, <3>2 DEF BlocksInv, Block
    <3>3. CASE k = Len(blocks)
      BY <2>2, <3>1, <3>3 DEF Block
    <3> QED BY <2>1, <3>2, <3>3
  <2> QED BY <2>1, <2>2, <2>3 DEF Block
<1> QED BY <1>1, <1>2

\* What an allocation writes, its control block included.
LEMMA ClearsBlock ==
  ASSUME NEW m, NEW h \in Nat \ {0}, NEW size \in Nat, NEW a \in DOMAIN m, a \in Int,
         ~InBlock(a, [base |-> h, paras |-> Paragraphs(size)])
  PROVE  Store(Store(m, h - 1, 0, <<Mcb>>), h, 0, [k \in 1..size |-> 0])[a] = m[a]
<1> DEFINE b == [base |-> h, paras |-> Paragraphs(size)]
           made == Store(m, h - 1, 0, <<Mcb>>)
<1>1. Paragraphs(size) \in Nat /\ b \in Block
  BY ParagraphsHold DEF Block
<1>2. /\ h * P \in Nat /\ (h - 1) * P \in Nat /\ Paragraphs(size) * P \in Nat
      /\ (h - 1) * P = h * P - P
      /\ (h + Paragraphs(size)) * P = h * P + Paragraphs(size) * P
      /\ size < Paragraphs(size) * P /\ P \in Nat \ {0}
  BY <1>1, ParagraphsHold, LoaderAssumption
<1>3. a # (h - 1) * P
  BY <1>2 DEF InBlock
<1>4. a \notin h * P .. h * P + size - 1
  BY <1>2 DEF InBlock
<1>5. made[a] = m[a] /\ a \in DOMAIN made
  <2>1. a - ((h - 1) * P + 0) + 1 \notin DOMAIN <<Mcb>>
    BY <1>2, <1>3
  <2>2. made[a] = m[a]
    BY <2>1, StoreKeeps
  <2> QED BY <2>2 DEF Store
<1> HIDE DEF made
<1>6. a - (h * P + 0) + 1 \notin DOMAIN [k \in 1..size |-> 0]
  BY <1>2, <1>4
<1>7. Store(made, h, 0, [k \in 1..size |-> 0])[a] = made[a]
  BY <1>5, <1>6, StoreKeeps
<1> QED BY <1>5, <1>7 DEF made

\* An allocation that is granted: a block behind the others, and nothing written
\* elsewhere.
LEMMA Allocates ==
  ASSUME BlocksInv, top \in Nat, top' = top, NEW m, NEW size \in Nat,
         \A a \in DOMAIN m : a \in Int,
         GlobalAlloc(m, size), ~refused'
  PROVE  /\ BlocksInv' /\ ~refused
         /\ blocks' = Append(blocks, [base |-> FreePara + 1, paras |-> Paragraphs(size)])
         /\ NewHandle = FreePara + 1
         /\ DOMAIN mem' = DOMAIN m
         /\ \A a \in DOMAIN m : mem'[a] # m[a] =>
              /\ InBlock(a, blocks'[Len(blocks) + 1])
              /\ \A k \in DOMAIN blocks : ~InBlock(a, blocks[k])
<1> DEFINE b == [base |-> FreePara + 1, paras |-> Paragraphs(size)]
<1>1. DosGrants(m, Paragraphs(size))
  BY DEF GlobalAlloc
<1>10. blocks' = Append(blocks, b) /\ ~refused
  BY <1>1 DEF GlobalAlloc
<1> DEFINE h == IF DosGrants(m, Paragraphs(size)) THEN FreePara + 1 ELSE ErrNoMemory
           one == <<Mcb>>
           zeros == [k \in 1..size |-> 0]
<1>11. /\ mem' = Store(IF DosGrants(m, Paragraphs(size)) THEN Store(m, h - 1, 0, one) ELSE m,
                       h, 0, zeros)
       /\ h = FreePara + 1
  BY <1>1 DEF GlobalAlloc
<1>12. mem' = Store(Store(m, (FreePara + 1) - 1, 0, one), FreePara + 1, 0, zeros)
  <2> HIDE DEF h, one, zeros
  <2> QED BY <1>1, <1>11
<1>2. FreePara \in Nat /\ Paragraphs(size) \in Nat /\ b \in Block
      /\ FreePara + 1 + Paragraphs(size) <= top
  <2>1. FreePara \in Nat /\ Paragraphs(size) \in Nat
    BY FreeAbove, ParagraphsHold
  <2>2. b \in Block
    BY <2>1 DEF Block
  <2> QED BY <1>1, <2>1, <2>2 DEF DosGrants
<1>3. /\ blocks \in Seq(Block) /\ blocks' \in Seq(Block)
      /\ Len(blocks') = Len(blocks) + 1 /\ blocks'[Len(blocks) + 1] = b
      /\ DOMAIN blocks' = DOMAIN blocks \union {Len(blocks) + 1}
      /\ \A k \in DOMAIN blocks : blocks'[k] = blocks[k] /\ k < Len(blocks) + 1
                                 /\ k \in Nat
  BY <1>10, <1>2 DEF BlocksInv
<1>4. \A k \in DOMAIN blocks' : blocks'[k].base + blocks'[k].paras <= top
  BY <1>2, <1>3 DEF BlocksInv
<1>5. ASSUME NEW j \in DOMAIN blocks', NEW k \in DOMAIN blocks', j < k
      PROVE  blocks'[j].base + blocks'[j].paras < blocks'[k].base
  <2>1. j \in DOMAIN blocks
    BY <1>3, <1>5
  <2>2. blocks[j] \in Block
    BY <1>3, <2>1
  <2>3. CASE k \in DOMAIN blocks
    BY <1>3, <1>5, <2>1, <2>3 DEF BlocksInv
  <2>4. CASE k = Len(blocks) + 1
    <3>1. blocks[j].base + blocks[j].paras <= FreePara
      BY <2>1, FreeAbove
    <3>2. blocks'[k].base = FreePara + 1 /\ blocks'[j] = blocks[j]
      BY <1>3, <2>1, <2>4
    <3>3. blocks[j].base + blocks[j].paras \in Nat
      BY <2>2 DEF Block
    <3> QED BY <1>2, <3>1, <3>2, <3>3
  <2> QED BY <1>3, <2>3, <2>4
<1>6. BlocksInv'
  BY <1>3, <1>4, <1>5 DEF BlocksInv
<1>7. NewHandle = FreePara + 1
  <2>1. blocks' # blocks /\ Last(blocks') = b
    BY <1>3 DEF Last
  <2> QED BY <2>1 DEF NewHandle
<1>8. DOMAIN mem' = DOMAIN m
  BY <1>12 DEF Store
<1>9. ASSUME NEW a \in DOMAIN m, ~InBlock(a, b)
      PROVE  mem'[a] = m[a]
  BY <1>12, <1>2, <1>9, ClearsBlock
<1>13. ASSUME NEW k \in DOMAIN blocks, NEW a, InBlock(a, b)
       PROVE  ~InBlock(a, blocks[k])
  <2>1. blocks[k] \in Block /\ blocks[k].base + blocks[k].paras <= FreePara
    BY <1>3, FreeAbove
  <2>2. blocks[k].base + blocks[k].paras < b.base
    BY <1>2, <2>1 DEF Block
  <2> QED BY <1>2, <1>13, <2>1, <2>2, BlocksApart
<1> QED BY <1>10, <1>3, <1>6, <1>7, <1>8, <1>9, <1>13

-----------------------------------------------------------------------------
(* A relocated segment, as a relation of constants: in memory m its bytes start *)
(* at address a, and w has the bytes wanted at each of its sites.            *)

Holds(m, a, s, w, D) ==
  /\ \A d \in D : \A n \in DOMAIN w[d] : m[a + (d[2] + n - 1)] = w[d][n]
  /\ \A o \in 0 .. s.cbseg - 1 :
       (\A d \in D : o + 1 - d[2] \notin DOMAIN w[d]) => m[a + o] = s.data[o + 1]

\* The sites S lie in the segment, and no two of them have a byte in common.
SitesApart(s, w, S) ==
  /\ \A d \in S : /\ d[2] \in Nat /\ Width(s.rlcs[d[1]]) \in {2, 4}
                  /\ DOMAIN w[d] \subseteq 1 .. Width(s.rlcs[d[1]])
                  /\ d[2] + Width(s.rlcs[d[1]]) <= s.cbseg
  /\ \A d, e \in S : d # e => \/ d[2] + Width(s.rlcs[d[1]]) <= e[2]
                              \/ e[2] + Width(s.rlcs[e[1]]) <= d[2]

LEMMA HoldsKept ==
  ASSUME NEW s \in Segment, NEW w, NEW S, SitesApart(s, w, S), NEW D \in SUBSET S,
         NEW a \in Int, NEW m, NEW m2, Holds(m, a, s, w, D),
         \A o \in 0 .. s.cbseg - 1 : m2[a + o] = m[a + o]
  PROVE  Holds(m2, a, s, w, D)
<1>0. s.cbseg \in Nat
  BY DEF Segment
<1>1. ASSUME NEW d \in D, NEW n \in DOMAIN w[d]
      PROVE  m2[a + (d[2] + n - 1)] = w[d][n]
  <2>1. d[2] + n - 1 \in 0 .. s.cbseg - 1
    BY <1>0 DEF SitesApart
  <2>2. m[a + (d[2] + n - 1)] = w[d][n]
    BY DEF Holds
  <2> QED BY <2>1, <2>2
<1>2. ASSUME NEW o \in 0 .. s.cbseg - 1, \A d \in D : o + 1 - d[2] \notin DOMAIN w[d]
      PROVE  m2[a + o] = s.data[o + 1]
  BY <1>2 DEF Holds
<1> QED BY <1>1, <1>2 DEF Holds

\* One more site is patched.
LEMMA HoldsMore ==
  ASSUME NEW s \in Segment, NEW w, NEW S, SitesApart(s, w, S), NEW D \in SUBSET S,
         NEW a \in Int, NEW m, NEW m2, Holds(m, a, s, w, D), NEW d \in S \ D,
         \A n \in DOMAIN w[d] : m2[a + (d[2] + n - 1)] = w[d][n],
         \A o \in 0 .. s.cbseg - 1 : o + 1 - d[2] \notin DOMAIN w[d] => m2[a + o] = m[a + o]
  PROVE  Holds(m2, a, s, w, D \union {d})
<1>0. s.cbseg \in Nat
  BY DEF Segment
<1>1. ASSUME NEW e \in D, NEW n \in DOMAIN w[e]
      PROVE  m2[a + (e[2] + n - 1)] = w[e][n]
  <2> DEFINE o == e[2] + n - 1
  <2>1. /\ e[2] \in Nat /\ n \in 1 .. Width(s.rlcs[e[1]])
        /\ Width(s.rlcs[e[1]]) \in {2, 4} /\ e[2] + Width(s.rlcs[e[1]]) <= s.cbseg
        /\ d[2] \in Nat /\ Width(s.rlcs[d[1]]) \in {2, 4}
        /\ DOMAIN w[d] \subseteq 1 .. Width(s.rlcs[d[1]])
        /\ \/ d[2] + Width(s.rlcs[d[1]]) <= e[2]
           \/ e[2] + Width(s.rlcs[e[1]]) <= d[2]
    BY DEF SitesApart
  <2>2. o \in 0 .. s.cbseg - 1
    BY <1>0, <2>1
  <2>3. o + 1 - d[2] \notin 1 .. Width(s.rlcs[d[1]])
    BY <2>1
  <2>4. m[a + o] = w[e][n]
    BY DEF Holds
  <2> HIDE DEF o
  <2>5. m2[a + o] = m[a + o]
    BY <2>1, <2>2, <2>3
  <2> QED BY <2>4, <2>5 DEF o
<1>2. ASSUME NEW o \in 0 .. s.cbseg - 1,
             \A e \in D \union {d} : o + 1 - e[2] \notin DOMAIN w[e]
      PROVE  m2[a + o] = s.data[o + 1]
  <2>1. m[a + o] = s.data[o + 1]
    BY <1>2 DEF Holds
  <2> QED BY <1>2, <2>1
<1> QED BY <1>1, <1>2 DEF Holds

\* At a site that is not patched yet stands the file's word.
FileWord(m, a, s, o) == m[a + o] = s.data[o + 1] /\ m[a + (o + 1)] = s.data[o + 2]

LEMMA WordOfFile ==
  ASSUME NEW s \in Segment, NEW w, NEW S, SitesApart(s, w, S), NEW D \in SUBSET S,
         NEW a \in Int, NEW m, Holds(m, a, s, w, D), NEW d \in S \ D
  PROVE  FileWord(m, a, s, d[2])
<1>0. s.cbseg \in Nat
  BY DEF Segment
<1>1. ASSUME NEW o \in {d[2], d[2] + 1}
      PROVE  o \in 0 .. s.cbseg - 1 /\ m[a + o] = s.data[o + 1]
  <2>1. /\ d[2] \in Nat /\ Width(s.rlcs[d[1]]) \in {2, 4}
        /\ d[2] + Width(s.rlcs[d[1]]) <= s.cbseg
    BY DEF SitesApart
  <2>2. o \in 0 .. s.cbseg - 1
    BY <1>0, <2>1
  <2>3. ASSUME NEW e \in D
        PROVE  o + 1 - e[2] \notin DOMAIN w[e]
    <3>1. /\ e[2] \in Nat /\ DOMAIN w[e] \subseteq 1 .. Width(s.rlcs[e[1]])
          /\ Width(s.rlcs[e[1]]) \in {2, 4}
          /\ \/ d[2] + Width(s.rlcs[d[1]]) <= e[2]
             \/ e[2] + Width(s.rlcs[e[1]]) <= d[2]
      BY DEF SitesApart
    <3>2. o + 1 - e[2] \notin 1 .. Width(s.rlcs[e[1]])
      BY <2>1, <3>1
    <3> QED BY <3>1, <3>2
  <2> QED BY <2>2, <2>3 DEF Holds
<1>2. d[2] \in Nat
  BY DEF SitesApart
<1>3. d[2] + 1 + 1 = d[2] + 2
  BY <1>2
<1> QED BY <1>1, <1>3 DEF FileWord

\* Before the first fixup the segment is the file's.
LEMMA HoldsFile ==
  ASSUME NEW s, NEW w, NEW a, NEW m, \A o \in 0 .. s.cbseg - 1 : m[a + o] = s.data[o + 1]
  PROVE  Holds(m, a, s, w, {})
BY DEF Holds

-----------------------------------------------------------------------------
(* The relation and the state.                                               *)

LEMMA ImageFacts ==
  ASSUME image \in Images
  PROVE  image.segs \in Seq(Segment) /\ NSegs \in Nat
         /\ \A k \in 1..NSegs : image.segs[k] \in Segment
<1>1. image.segs \in Seq(Segment)
  BY ImagesAssumption
<1> QED BY <1>1 DEF NSegs

LEMMA SegmentFacts ==
  ASSUME NEW s \in Segment
  PROVE  /\ s.cbseg \in Nat /\ s.minalloc \in Nat /\ s.data \in Seq(0..B-1)
         /\ s.cbseg < W /\ s.minalloc < W
         /\ s.rlcs \in Seq(Record) /\ Len(s.rlcs) \in Nat
         /\ \A j \in DOMAIN s.rlcs : s.rlcs[j] \in Record
<1>1. W \in Nat
  BY LoaderAssumption DEF W
<1> QED BY <1>1 DEF Segment

LEMMA WellFormedFacts ==
  ASSUME image \in Images, WellFormed(image), NEW k \in 1..NSegs
  PROVE  WellFormedSegment(image.segs[k], NSegs)
<1>1. k \in DOMAIN image.segs
  BY ImageFacts DEF NSegs
<1> QED BY <1>1 DEF WellFormed, NSegs

\* The places of a record are words of the segment, with room for the fixup.
LEMMA PlacesInside ==
  ASSUME NEW s \in Segment, NEW n, WellFormedSegment(s, n), NEW j \in DOMAIN s.rlcs,
         NEW o \in Places(s.data, s.rlcs[j])
  PROVE  o \in Nat /\ o + Width(s.rlcs[j]) <= s.cbseg
<1>1. WellFormedRecord(s, n, s.rlcs[j])
  BY DEF WellFormedSegment
<1>2. CASE s.rlcs[j].additive
  BY <1>1, <1>2, SegmentFacts DEF WellFormedRecord, Places
<1>3. CASE ~s.rlcs[j].additive
  BY <1>1, <1>3, SegmentFacts DEF WellFormedRecord, Places, Chain
<1> QED BY <1>2, <1>3

LEMMA ConcatDomain ==
  ASSUME NEW A, NEW x \in Seq(A), NEW y \in Seq(A), Len(x) = 2, Len(y) = 2
  PROVE  DOMAIN (x \o y) = 1..4
<1>1. x \o y \in Seq(A)
  OBVIOUS
<1>2. Len(x \o y) = Len(x) + Len(y)
  BY ConcatProperties, Zenon
<1>3. Len(x \o y) = 4
  BY <1>2
<1> QED BY <1>1, <1>3

LEMMA FixupWidth ==
  ASSUME NEW rec, Known(rec), NEW to, NEW word
  PROVE  /\ DOMAIN Fixup(rec, to) \subseteq 1 .. Width(rec)
         /\ DOMAIN AddedFixup(rec, to, word) \subseteq 1 .. Width(rec)
         /\ Width(rec) \in {2, 4}
<1>1. \A u, v : DOMAIN (Bytes(u) \o Bytes(v)) = 1..4
  <2> TAKE u, v
  <2> DEFINE A == {u % B, u \div B, v % B, v \div B}
  <2>1. Bytes(u) \in Seq(A) /\ Bytes(v) \in Seq(A) /\ Len(Bytes(u)) = 2 /\ Len(Bytes(v)) = 2
    BY DEF Bytes
  <2> HIDE DEF A
  <2> QED BY <2>1, ConcatDomain
<1>2. \A u : DOMAIN Bytes(u) = 1..2
  BY DEF Bytes
<1>3. \A u : DOMAIN <<u>> = 1..1
  OBVIOUS
<1>4. DOMAIN <<>> = {}
  OBVIOUS
<1>5. CASE rec.stype = "byt"
  BY <1>3, <1>5 DEF Fixup, AddedFixup, Width
<1>6. CASE rec.stype = "off"
  BY <1>2, <1>6 DEF Fixup, AddedFixup, Width
<1>7. CASE rec.stype = "ptr"
  BY <1>1, <1>7 DEF Fixup, AddedFixup, Width
<1>8. CASE rec.stype = "seg"
  BY <1>2, <1>4, <1>8 DEF Fixup, AddedFixup, Width
<1> QED BY <1>5, <1>6, <1>7, <1>8 DEF Known

LEMMA RecordsApart ==
  ASSUME NEW s, NEW n, WellFormedSegment(s, n),
         NEW j \in DOMAIN s.rlcs, NEW l \in DOMAIN s.rlcs,
         NEW o \in Places(s.data, s.rlcs[j]), NEW p \in Places(s.data, s.rlcs[l]),
         <<j, o>> # <<l, p>>
  PROVE  o + Width(s.rlcs[j]) <= p \/ p + Width(s.rlcs[l]) <= o
<1>1. \A jj, ll \in DOMAIN s.rlcs :
        \A oo \in Places(s.data, s.rlcs[jj]), pp \in Places(s.data, s.rlcs[ll]) :
          <<jj, oo>> # <<ll, pp>> =>
             oo + Width(s.rlcs[jj]) <= pp \/ pp + Width(s.rlcs[ll]) <= oo
  BY DEF WellFormedSegment
<1>2. \A oo \in Places(s.data, s.rlcs[j]), pp \in Places(s.data, s.rlcs[l]) :
          <<j, oo>> # <<l, pp>> =>
             oo + Width(s.rlcs[j]) <= pp \/ pp + Width(s.rlcs[l]) <= oo
  BY <1>1, Zenon
<1> QED BY <1>2, Zenon

\* All the sites of segment k and the bytes wanted at each.
AllSites(k) == Sites(k, Len(image.segs[k].rlcs))
Wants(k) ==
  [d \in AllSites(k) |-> Want(image.segs[k], image.segs[k].rlcs[d[1]], d[2])]

LEMMA SitesAreApart ==
  ASSUME image \in Images, WellFormed(image), NEW k \in 1..NSegs
  PROVE  SitesApart(image.segs[k], Wants(k), AllSites(k))
<1> PICK s \in Segment : s = image.segs[k]
  BY ImageFacts
<1> DEFINE S == AllSites(k)
<1>1. /\ WellFormedSegment(s, NSegs) /\ s.cbseg \in Nat
      /\ s.rlcs \in Seq(Record) /\ Len(s.rlcs) \in Nat
  BY WellFormedFacts, SegmentFacts
<1>2. ASSUME NEW d \in S
      PROVE  /\ d = <<d[1], d[2]>> /\ d[1] \in DOMAIN s.rlcs
             /\ d[2] \in Places(s.data, s.rlcs[d[1]])
             /\ Known(s.rlcs[d[1]])
  <2>1. d \in (1..Len(s.rlcs)) \X (0..s.cbseg) /\ d[2] \in Places(s.data, s.rlcs[d[1]])
    BY DEF AllSites, Sites
  <2>2. d[1] \in DOMAIN s.rlcs /\ d = <<d[1], d[2]>>
    BY <1>1, <2>1
  <2> QED BY <1>1, <2>1, <2>2 DEF WellFormedSegment, WellFormedRecord
<1>3. ASSUME NEW d \in S
      PROVE  /\ d[2] \in Nat /\ Width(s.rlcs[d[1]]) \in {2, 4}
             /\ DOMAIN Wants(k)[d] \subseteq 1 .. Width(s.rlcs[d[1]])
             /\ d[2] + Width(s.rlcs[d[1]]) <= s.cbseg
  <2>1. Wants(k)[d] = Want(s, s.rlcs[d[1]], d[2])
    BY DEF Wants
  <2>2. DOMAIN Want(s, s.rlcs[d[1]], d[2]) \subseteq 1 .. Width(s.rlcs[d[1]])
        /\ Width(s.rlcs[d[1]]) \in {2, 4}
    BY <1>2, FixupWidth DEF Want
  <2>3. d[2] \in Nat /\ d[2] + Width(s.rlcs[d[1]]) <= s.cbseg
    BY <1>1, <1>2, PlacesInside
  <2> QED BY <2>1, <2>2, <2>3
<1>4. ASSUME NEW d \in S, NEW e \in S, d # e
      PROVE  \/ d[2] + Width(s.rlcs[d[1]]) <= e[2]
             \/ e[2] + Width(s.rlcs[e[1]]) <= d[2]
  <2>1. <<d[1], d[2]>> # <<e[1], e[2]>>
    BY <1>2, <1>4
  <2>2. PICK j, l, o, p : j = d[1] /\ l = e[1] /\ o = d[2] /\ p = e[2]
    OBVIOUS
  <2>3. /\ j \in DOMAIN s.rlcs /\ o \in Places(s.data, s.rlcs[j])
        /\ l \in DOMAIN s.rlcs /\ p \in Places(s.data, s.rlcs[l])
    BY <1>2, <2>2
  <2>4. <<j, o>> # <<l, p>>
    BY <2>1, <2>2
  <2>5. o + Width(s.rlcs[j]) <= p \/ p + Width(s.rlcs[l]) <= o
    BY <1>1, <2>3, <2>4, RecordsApart
  <2> QED BY <2>2, <2>5
<1> QED BY <1>3, <1>4 DEF SitesApart

LEMMA PatchedHolds ==
  ASSUME NEW k, NEW D, D \subseteq AllSites(k)
  PROVE  PatchedAt(k, D) <=> Holds(mem, table[k] * P, image.segs[k], Wants(k), D)
<1>1. \A d \in D : Wants(k)[d] = Want(image.segs[k], image.segs[k].rlcs[d[1]], d[2])
  BY DEF Wants
<1> QED BY <1>1 DEF PatchedAt, Holds

LEMMA WantSame ==
  ASSUME table' = table, mte' = mte, NEW s, NEW rec, NEW o
  PROVE  Want(s, rec, o)' = Want(s, rec, o)
BY DEF Want, Internal

LEMMA PatchedHoldsAfter ==
  ASSUME image' = image, table' = table, mte' = mte, NEW k, NEW D, D \subseteq AllSites(k)
  PROVE  PatchedAt(k, D)' <=> Holds(mem', table[k] * P, image.segs[k], Wants(k), D)
<1>1. \A d \in D : Wants(k)[d] = Want(image.segs[k], image.segs[k].rlcs[d[1]], d[2])
  BY DEF Wants
<1> PICK s : s = image.segs[k]
  OBVIOUS
<1>2. s = image'.segs[k]
  OBVIOUS
<1>3. \A d \in D : Wants(k)[d] = Want(s, s.rlcs[d[1]], d[2])'
  BY <1>1, WantSame
<1>4. PatchedAt(k, D)' <=>
        /\ \A d \in D : \A n \in DOMAIN Want(s, s.rlcs[d[1]], d[2])' :
             mem'[table[k] * P + (d[2] + n - 1)] = Want(s, s.rlcs[d[1]], d[2])'[n]
        /\ \A o \in 0 .. s.cbseg - 1 :
             (\A d \in D : o + 1 - d[2] \notin DOMAIN Want(s, s.rlcs[d[1]], d[2])')
               => mem'[table[k] * P + o] = s.data[o + 1]
  BY <1>2 DEF PatchedAt, Want, Internal
<1> QED BY <1>3, <1>4 DEF Holds

-----------------------------------------------------------------------------
(* Segments in memory.                                                       *)

\* What the lemmas below are told of a state.
Sound ==
  /\ image \in Images /\ WellFormed(image)
  /\ top \in Nat /\ DOMAIN mem = 0 .. top * P + W
  /\ BlocksInv /\ TableInv

LEMMA TableFacts ==
  ASSUME Sound, NEW k \in DOMAIN table
  PROVE  /\ k \in 1..NSegs /\ k + 1 \in DOMAIN blocks /\ table[k] = blocks[k + 1].base
         /\ blocks[k + 1].paras = Paragraphs(image.segs[k].minalloc)
         /\ blocks[k + 1] \in Block /\ table[k] \in Nat /\ table[k] * P \in Nat
         /\ image.segs[k] \in Segment /\ WellFormedSegment(image.segs[k], NSegs)
<1>1. k \in 1..NSegs
  BY ImageFacts DEF Sound, TableInv
<1>2. /\ k + 1 \in DOMAIN blocks /\ table[k] = blocks[k + 1].base
      /\ blocks[k + 1].paras = Paragraphs(image.segs[k].minalloc)
  BY DEF Sound, TableInv
<1>3. blocks[k + 1] \in Block
  BY <1>2 DEF Sound, BlocksInv
<1>4. table[k] \in Nat /\ table[k] * P \in Nat
  BY <1>2, <1>3, LoaderAssumption DEF Block
<1> QED BY <1>1, <1>2, <1>3, <1>4, ImageFacts, WellFormedFacts DEF Sound

\* The bytes of a segment are in its block.
LEMMA SegmentAddress ==
  ASSUME Sound, NEW k \in DOMAIN table, NEW o \in 0 .. image.segs[k].cbseg - 1
  PROVE  InBlock(table[k] * P + o, blocks[k + 1]) /\ table[k] * P + o \in DOMAIN mem
<1> PICK s \in Segment : s = image.segs[k]
  BY TableFacts
<1> PICK b \in Block : b = blocks[k + 1]
  BY TableFacts
<1>1. /\ table[k] = b.base /\ b.paras = Paragraphs(s.minalloc)
      /\ k + 1 \in DOMAIN blocks
  BY TableFacts
<1>2. s.cbseg <= s.minalloc /\ s.cbseg \in Nat /\ s.minalloc \in Nat
  BY TableFacts, SegmentFacts DEF WellFormedSegment
<1>3. InBlock(b.base * P + o, b)
  BY <1>1, <1>2, BytesInBlock
<1>4. b.base + b.paras <= top /\ b.base \in Nat /\ b.paras \in Nat /\ top \in Nat
  BY <1>1 DEF Sound, BlocksInv, Block
<1>5. (b.base + b.paras) * P <= top * P
  BY <1>4, Scale
<1>6. /\ b.base * P \in Nat /\ top * P \in Nat /\ (b.base + b.paras) * P \in Nat /\ W \in Nat
      /\ (b.base - 1) * P \in Int
  BY <1>4, LoaderAssumption DEF W
<1>7. b.base * P + o \in 0 .. top * P + W
  BY <1>2, <1>3, <1>5, <1>6 DEF InBlock
<1> QED BY <1>1, <1>3, <1>7 DEF Sound

\* A step that writes to no segment but segment k.
SparesOthers(k) ==
  \A a \in DOMAIN mem : mem'[a] # mem[a] =>
    \A j \in DOMAIN table \ {k} : ~InBlock(a, blocks[j + 1])

LEMMA OthersInPlace ==
  ASSUME Sound, image' = image, table' = table, mte' = mte, NEW k, SparesOthers(k),
         NEW j \in DOMAIN table, j # k, InPlace(j)
  PROVE  InPlace(j)'
<1> PICK D : D = AllSites(j)
  OBVIOUS
<1> PICK s \in Segment : s = image.segs[j]
  BY TableFacts
<1> PICK a : a = table[j] * P
  OBVIOUS
<1>1. PatchedAt(j, D) /\ D \in SUBSET AllSites(j)
  BY DEF InPlace, AllSites
<1>2. Holds(mem, a, s, Wants(j), D)
  BY <1>1, PatchedHolds
<1>3. SitesApart(s, Wants(j), AllSites(j)) /\ a \in Int
  BY SitesAreApart, TableFacts DEF Sound
<1>4. \A o \in 0 .. s.cbseg - 1 : mem'[a + o] = mem[a + o]
  BY SegmentAddress DEF SparesOthers
<1>5. Holds(mem', a, s, Wants(j), D)
  BY <1>1, <1>2, <1>3, <1>4, HoldsKept
<1>6. PatchedAt(j, D)'
  BY <1>1, <1>5, PatchedHoldsAfter
<1>7. InPlace(j)' <=> PatchedAt(j, D)'
  BY DEF InPlace, AllSites, Sites
<1> QED BY <1>6, <1>7

\* A write into the block of a segment.
LEMMA WritesOneBlock ==
  ASSUME Sound, NEW k \in DOMAIN table,
         NEW a \in DOMAIN mem, InBlock(a, blocks[k + 1])
  PROVE  \A j \in DOMAIN table \ {k} : ~InBlock(a, blocks[j + 1])
<1> TAKE j \in DOMAIN table \ {k}
<1>1. k + 1 \in DOMAIN blocks /\ j + 1 \in DOMAIN blocks /\ j \in Nat /\ k \in Nat
  BY TableFacts, ImageFacts DEF Sound
<1>2. j + 1 # k + 1
  BY <1>1
<1> QED BY <1>1, <1>2, InOneBlock DEF Sound

\* Where no fixup was applied stands the word the file has.
LEMMA ReadsFile ==
  ASSUME Sound, NEW k \in DOMAIN table, NEW D \in SUBSET AllSites(k), PatchedAt(k, D),
         NEW d \in AllSites(k) \ D
  PROVE  Word(mem, table[k], d[2]) = LinkIn(image.segs[k].data, d[2])
<1> PICK s \in Segment : s = image.segs[k]
  BY TableFacts
<1> PICK a, w, S : a = table[k] * P /\ w = Wants(k) /\ S = AllSites(k)
  OBVIOUS
<1>1. SitesApart(s, w, S) /\ a \in Int /\ d[2] \in Nat
  BY SitesAreApart, TableFacts DEF Sound, SitesApart
<1>2. Holds(mem, a, s, w, D)
  BY PatchedHolds
<1>3. FileWord(mem, a, s, d[2])
  <2>1. D \in SUBSET S /\ d \in S \ D
    OBVIOUS
  <2> QED BY <1>1, <1>2, <2>1, WordOfFile
<1>4. a + d[2] + 1 = a + (d[2] + 1)
  BY <1>1
<1> QED BY <1>3, <1>4 DEF FileWord, Word, LinkIn

\* One fixup, written at a site that had none.
LEMMA Patches ==
  ASSUME Sound, image' = image, table' = table, mte' = mte,
         NEW k \in DOMAIN table, NEW D \in SUBSET AllSites(k), PatchedAt(k, D),
         NEW d \in AllSites(k) \ D,
         mem' = Store(mem, table[k], d[2],
                      Want(image.segs[k], image.segs[k].rlcs[d[1]], d[2]))
  PROVE  /\ PatchedAt(k, D \union {d})' /\ SparesOthers(k)
         /\ \A a \in DOMAIN mem : mem'[a] # mem[a] => InBlock(a, blocks[k + 1])
<1> PICK s \in Segment : s = image.segs[k]
  BY TableFacts
<1> PICK h : h = table[k]
  OBVIOUS
<1> PICK v : v = Want(image.segs[k], image.segs[k].rlcs[d[1]], d[2])
  OBVIOUS
<1> DEFINE a == h * P
<1>1. SitesApart(s, Wants(k), AllSites(k)) /\ a \in Nat /\ h \in Nat /\ s.cbseg \in Nat
  BY SitesAreApart, TableFacts, SegmentFacts DEF Sound
<1>2. v = Wants(k)[d]
  BY DEF Wants
<1>3. /\ d[2] \in Nat /\ Width(s.rlcs[d[1]]) \in {2, 4}
      /\ DOMAIN v \subseteq 1 .. Width(s.rlcs[d[1]])
      /\ d[2] + Width(s.rlcs[d[1]]) <= s.cbseg
  BY <1>1, <1>2 DEF SitesApart
<1>4. mem' = Store(mem, h, d[2], v)
  OBVIOUS
<1>5. ASSUME NEW n \in DOMAIN v
      PROVE  mem'[a + (d[2] + n - 1)] = v[n]
  <2>1. n \in Nat /\ d[2] + n - 1 \in 0 .. s.cbseg - 1
    BY <1>1, <1>3
  <2>2. a + (d[2] + n - 1) \in DOMAIN mem
    BY <2>1, SegmentAddress
  <2>3. a + (d[2] + n - 1) = h * P + d[2] + n - 1
    BY <1>1, <1>3, <2>1
  <2> QED BY <1>1, <1>3, <1>4, <2>1, <2>2, <2>3, StorePuts
<1>6. ASSUME NEW o \in 0 .. s.cbseg - 1, o + 1 - d[2] \notin DOMAIN v
      PROVE  mem'[a + o] = mem[a + o]
  <2>1. a + o \in DOMAIN mem
    BY SegmentAddress
  <2>2. (a + o) - (h * P + d[2]) + 1 = o + 1 - d[2]
    BY <1>1, <1>3
  <2> QED BY <1>4, <1>6, <2>1, <2>2, StoreKeeps
<1>7. PatchedAt(k, D \union {d})'
  <2>1. Holds(mem, a, s, Wants(k), D)
    BY PatchedHolds
  <2>2. Holds(mem', a, s, Wants(k), D \union {d})
    BY <1>1, <1>2, <1>5, <1>6, <2>1, HoldsMore
  <2> QED BY <2>2, PatchedHoldsAfter
<1>8. ASSUME NEW x \in DOMAIN mem, mem'[x] # mem[x]
      PROVE  InBlock(x, blocks[k + 1])
  <2> DEFINE n == x - (h * P + d[2]) + 1
  <2>1. n \in DOMAIN v
    BY <1>4, <1>8, StoreKeeps
  <2>2. x \in Int
    BY LoaderAssumption DEF Sound
  <2>3. d[2] + n - 1 \in 0 .. s.cbseg - 1
    BY <1>1, <1>3, <2>1, <2>2
  <2>4. x = a + (d[2] + n - 1)
    BY <1>1, <1>3, <2>2
  <2> HIDE DEF n, a
  <2>5. x = table[k] * P + (d[2] + n - 1)
    BY <2>4 DEF a
  <2> QED BY <2>3, <2>5, SegmentAddress
<1>9. SparesOthers(k)
  BY <1>8, WritesOneBlock DEF SparesOthers
<1> QED BY <1>7, <1>8, <1>9

LEMMA Loads ==
  ASSUME Sound, NEW k \in DOMAIN table, k = entry, NEW m, m = Loaded
  PROVE  /\ DOMAIN m = DOMAIN mem
         /\ \A o \in 0 .. Seg.cbseg - 1 : m[table[k] * P + o] = Seg.data[o + 1]
         /\ \A a \in DOMAIN mem : m[a] # mem[a] => InBlock(a, blocks[k + 1])
<1> PICK s \in Segment : s = image.segs[k]
  BY TableFacts
<1> PICK h : h = table[k]
  OBVIOUS
<1> DEFINE a == h * P
<1>1. /\ a \in Nat /\ h \in Nat /\ s.cbseg \in Nat /\ s.data \in Seq(0..B-1)
      /\ s.cbseg > 0 /\ s.cbseg = Len(s.data) /\ s = Seg
  BY TableFacts, SegmentFacts DEF WellFormedSegment, Seg
<1> PICK v : v = SubSeq(s.data, 1, s.cbseg)
  OBVIOUS
<1>2. /\ DOMAIN v = 1 .. s.cbseg /\ \A n \in 1 .. s.cbseg : v[n] = s.data[n]
  BY <1>1
<1>3. m = Store(mem, h, 0, v)
  BY <1>1 DEF Loaded, SizeWord
<1>7. ASSUME NEW x \in DOMAIN mem
      PROVE  m[x] = IF x - a + 1 \in 1 .. s.cbseg THEN s.data[x - a + 1] ELSE mem[x]
  <2>1. h * P + 0 = a
    BY <1>1
  <2>2. m[x] = LET n == x - a + 1 IN IF n \in DOMAIN v THEN v[n] ELSE mem[x]
    BY <1>3, <2>1 DEF Store
  <2> QED BY <1>2, <2>2
<1>4. DOMAIN m = DOMAIN mem
  BY <1>3 DEF Store
<1>5. ASSUME NEW o \in 0 .. s.cbseg - 1
      PROVE  m[a + o] = s.data[o + 1]
  <2>1. a + o \in DOMAIN mem
    BY SegmentAddress
  <2>2. (a + o) - a + 1 = o + 1 /\ o + 1 \in 1 .. s.cbseg
    BY <1>1
  <2> HIDE DEF a
  <2> QED BY <1>7, <2>1, <2>2
<1>6. ASSUME NEW x \in DOMAIN mem, m[x] # mem[x]
      PROVE  InBlock(x, blocks[k + 1])
  <2> DEFINE n == x - a + 1
  <2>1. n \in 1 .. s.cbseg
    BY <1>6, <1>7
  <2>2. x \in Int
    BY LoaderAssumption DEF Sound
  <2>3. n - 1 \in 0 .. s.cbseg - 1 /\ x = a + (n - 1)
    BY <1>1, <2>1, <2>2
  <2> HIDE DEF n, a
  <2>4. x = table[k] * P + (n - 1)
    BY <2>3 DEF a
  <2> QED BY <2>3, <2>4, SegmentAddress
<1> QED BY <1>1, <1>4, <1>5, <1>6

\* A segment that was read and not relocated yet.
LEMMA PatchedNowhere ==
  ASSUME Sound, image' = image, table' = table, mte' = mte, NEW k \in DOMAIN table,
         \A o \in 0 .. image.segs[k].cbseg - 1 :
           mem'[table[k] * P + o] = image.segs[k].data[o + 1]
  PROVE  PatchedAt(k, {})'
<1>1. Holds(mem', table[k] * P, image.segs[k], Wants(k), {})
  BY HoldsFile
<1> QED BY <1>1, PatchedHoldsAfter

LEMMA SoundState ==
  ASSUME LoadInv, WellFormed(image), ~refused
  PROVE  Sound /\ BlocksInv /\ TableInv /\ ProgressInv /\ ImageInPlace
         /\ image \in Images /\ top \in Nat /\ \A a \in DOMAIN mem : a \in Int
<1>1. top \in Nat
  BY LoaderAssumption DEF LoadInv
<1>2. top * P \in Nat /\ W \in Nat
  BY <1>1, LoaderAssumption DEF W
<1> QED BY <1>1, <1>2 DEF LoadInv, Sound

-----------------------------------------------------------------------------
(* One lemma per action.                                                     *)

Progress == BlocksInv /\ TableInv /\ ProgressInv /\ ImageInPlace

LEMMA StepHeaders ==
  ASSUME LoadInv, WellFormed(image), ~refused, ReadHeaders, ~refused'
  PROVE  Progress' /\ ~StrayWrite
<1> USE DEF ReadHeaders
<1>1. /\ BlocksInv /\ TableInv /\ ProgressInv /\ image \in Images /\ top \in Nat
      /\ \A a \in DOMAIN mem : a \in Int
  BY SoundState
<1>2. /\ pc = "headers" /\ blocks = <<>> /\ table = <<>> /\ i = 1 /\ status = -1
      /\ UNCHANGED <<image, top, table, i>>
  BY <1>1 DEF TableInv, ProgressInv
<1>3. CASE image.valid
  <2>1. GlobalAlloc(mem, ModuleSize) /\ pc' = "table" /\ status' = status
    BY <1>3
  <2> PICK m : m = mem
    OBVIOUS
  <2>2. /\ BlocksInv'
        /\ \E b : blocks' = Append(blocks, b)
        /\ DOMAIN mem' = DOMAIN mem
        /\ \A a \in DOMAIN mem : mem'[a] # mem[a] => InBlock(a, blocks'[Len(blocks) + 1])
    BY <1>1, <1>2, <2>1, Allocates, LoaderAssumption
  <2>3. Len(blocks') = 1 /\ 1 \in DOMAIN blocks' /\ Len(blocks) + 1 = 1
    BY <1>2, <2>2 DEF BlocksInv
  <2>4. TableInv'
    BY <1>2, <2>1, <2>3, ImageFacts, <1>1 DEF TableInv, NSegs
  <2>5. ProgressInv' /\ ImageInPlace'
    BY <1>2, <2>1 DEF ProgressInv, ImageInPlace
  <2>6. ~StrayWrite
    BY <2>2, <2>3 DEF StrayWrite
  <2> QED BY <2>2, <2>4, <2>5, <2>6 DEF Progress
<1>4. CASE ~image.valid
  <2>1. pc' = "done" /\ status' = 1 /\ UNCHANGED <<mem, blocks, refused>>
    BY <1>4 DEF Exit, memVars
  <2>2. BlocksInv'
    BY <1>1, <1>2, <2>1 DEF BlocksInv
  <2>3. TableInv'
    BY <1>1, <1>2, <2>1 DEF TableInv, NSegs
  <2>4. ProgressInv' /\ ImageInPlace'
    BY <1>2, <2>1 DEF ProgressInv, ImageInPlace
  <2>5. ~StrayWrite
    BY <2>1 DEF StrayWrite
  <2> QED BY <2>2, <2>3, <2>4, <2>5 DEF Progress
<1> QED BY <1>3, <1>4

LEMMA StepEntry ==
  ASSUME LoadInv, WellFormed(image), ~refused, ReadEntry, ~refused'
  PROVE  Progress' /\ ~StrayWrite
<1> USE DEF ReadEntry
<1>1. /\ BlocksInv /\ TableInv /\ ProgressInv /\ image \in Images /\ top \in Nat
      /\ \A a \in DOMAIN mem : a \in Int
  BY SoundState
<1>2. /\ pc = "table" /\ status = -1 /\ i \in 1..NSegs
      /\ Len(blocks) = i /\ Len(table) = i - 1 /\ NSegs \in Nat
      /\ UNCHANGED <<image, top, pc, status>>
  BY <1>1, ImageFacts DEF TableInv, ProgressInv
<1> PICK m, k, size : m = mem /\ k = i /\ size = image.segs[i].minalloc
  OBVIOUS
<1>3. size \in Nat /\ SizeWord(size) = size
  BY <1>1, <1>2, ImageFacts, SegmentFacts, WellFormedFacts DEF WellFormedSegment, SizeWord
<1>4. GlobalAlloc(m, size)
  BY <1>3
<1>5. /\ BlocksInv'
      /\ blocks' = Append(blocks, [base |-> FreePara + 1, paras |-> Paragraphs(size)])
      /\ NewHandle = FreePara + 1 /\ FreePara \in Nat
      /\ DOMAIN mem' = DOMAIN mem
      /\ \A a \in DOMAIN mem : mem'[a] # mem[a] => InBlock(a, blocks'[Len(blocks) + 1])
  BY <1>1, <1>2, <1>3, <1>4, Allocates, FreeAbove
<1>6. /\ Len(blocks') = k + 1 /\ blocks'[k + 1].base = NewHandle
      /\ blocks'[k + 1].paras = Paragraphs(size)
      /\ DOMAIN blocks' = 1..k+1
      /\ \A j \in DOMAIN blocks : blocks'[j] = blocks[j]
  BY <1>1, <1>2, <1>5 DEF BlocksInv
<1>7. /\ table' \in Seq(Nat) /\ Len(table') = k
      /\ table'[k] = NewHandle /\ DOMAIN table' = 1..k
      /\ \A j \in 1..k-1 : j \in DOMAIN table /\ table'[j] = table[j]
  BY <1>1, <1>2, <1>5 DEF TableInv
<1>8. ASSUME NEW j \in DOMAIN table'
      PROVE  /\ j + 1 \in DOMAIN blocks' /\ table'[j] = blocks'[j + 1].base
             /\ blocks'[j + 1].paras = Paragraphs(image'.segs[j].minalloc)
  <2>1. CASE j = k
    BY <1>2, <1>6, <1>7, <2>1
  <2>2. CASE j \in 1..k-1
    <3>1. /\ j + 1 \in DOMAIN blocks /\ table[j] = blocks[j + 1].base
          /\ blocks[j + 1].paras = Paragraphs(image.segs[j].minalloc)
      BY <1>1, <1>7, <2>2 DEF TableInv
    <3> QED BY <1>2, <1>6, <1>7, <2>2, <3>1
  <2> QED BY <1>2, <1>7, <2>1, <2>2
<1>9. TableInv'
  BY <1>2, <1>6, <1>7, <1>8 DEF TableInv, NSegs
<1>10. ProgressInv' /\ ImageInPlace'
  BY <1>2 DEF ProgressInv, ImageInPlace
<1>11. ~StrayWrite
  BY <1>2, <1>5, <1>6 DEF StrayWrite
<1> QED BY <1>5, <1>9, <1>10, <1>11 DEF Progress

LEMMA StepTableRead ==
  ASSUME LoadInv, WellFormed(image), ~refused, TableRead, ~refused'
  PROVE  Progress' /\ ~StrayWrite
<1> USE DEF TableRead
<1>1. /\ BlocksInv /\ TableInv /\ ProgressInv /\ image \in Images /\ top \in Nat
  BY SoundState
<1>2. /\ pc = "table" /\ status = -1 /\ i \in Nat /\ i > NSegs /\ NSegs \in Nat
      /\ Len(table) = i - 1 /\ Len(table) <= NSegs
      /\ pc' = "segments" /\ i' = 1 /\ entry' = 1
      /\ UNCHANGED <<image, top, mem, blocks, status, table>>
  BY <1>1, ImageFacts DEF TableInv, ProgressInv, memVars
<1>3. BlocksInv' /\ NSegs' = NSegs
  BY <1>1, <1>2 DEF BlocksInv, NSegs
<1>4. TableInv'
  BY <1>1, <1>2, <1>3 DEF TableInv
<1>5. BetweenInv'
  BY <1>2, <1>3 DEF BetweenInv, PlacedBefore
<1>6. ProgressInv' /\ ImageInPlace'
  BY <1>2, <1>5 DEF ProgressInv, ImageInPlace
<1>7. ~StrayWrite
  BY <1>2 DEF StrayWrite
<1> QED BY <1>3, <1>4, <1>6, <1>7 DEF Progress

LEMMA StepPlain ==
  ASSUME LoadInv, WellFormed(image), ~refused, LoadPlain, ~refused'
  PROVE  Progress' /\ ~StrayWrite
<1> USE DEF LoadPlain
<1>1. /\ Sound /\ BlocksInv /\ TableInv /\ ProgressInv /\ image \in Images /\ top \in Nat
  BY SoundState
<1>2. /\ pc = "segments" /\ status = -1 /\ NSegs \in Nat /\ Len(table) = NSegs
      /\ UNCHANGED <<image, top, blocks, pc, status, table, mte, entry>>
      /\ i' = i + 1 /\ i <= NSegs /\ BetweenInv
  BY <1>1, ImageFacts DEF TableInv, ProgressInv
<1>3. DOMAIN table = 1..NSegs /\ entry \in DOMAIN table /\ i \in Nat
      /\ entry \in 1..i /\ PlacedBefore(entry)
  BY <1>1, <1>2 DEF TableInv, BetweenInv
<1> PICK k \in DOMAIN table : k = entry
  BY <1>3
<1> PICK s : s = image.segs[k]
  OBVIOUS
<1>4. /\ DOMAIN mem' = DOMAIN mem
      /\ \A o \in 0 .. s.cbseg - 1 : mem'[table[k] * P + o] = s.data[o + 1]
      /\ \A a \in DOMAIN mem : mem'[a] # mem[a] => InBlock(a, blocks[k + 1])
  <2> PICK m : m = Loaded
    OBVIOUS
  <2>1. s = Seg
    BY DEF Seg
  <2> QED BY <1>1, <2>1, Loads
<1>5. SparesOthers(k)
  BY <1>1, <1>4, WritesOneBlock DEF SparesOthers
<1>6. InPlace(k)'
  <2>1. PatchedAt(k, {})'
    BY <1>1, <1>2, <1>4, PatchedNowhere
  <2>2. ~s.reloc /\ s.rlcs = <<>>
    BY <1>1, TableFacts DEF Seg, WellFormedSegment
  <2>3. AllSites(k)' = {}
    BY <1>2, <2>2 DEF AllSites, Sites
  <2> QED BY <2>1, <2>3 DEF InPlace, AllSites
<1>7. PlacedBefore(k)'
  <2> SUFFICES ASSUME NEW j \in 1..k-1
               PROVE  image'.segs[j].reloc /\ InPlace(j)'
    BY DEF PlacedBefore
  <2>1. j # k /\ j \in DOMAIN table
    BY <1>2, <1>3
  <2>2. image.segs[j].reloc /\ InPlace(j)
    BY <1>3 DEF PlacedBefore
  <2> QED BY <1>1, <1>2, <1>5, <2>1, <2>2, OthersInPlace
<1>8. BlocksInv' /\ NSegs' = NSegs
  BY <1>1, <1>2 DEF BlocksInv, NSegs
<1>9. TableInv'
  BY <1>1, <1>2, <1>8 DEF TableInv
<1>10. BetweenInv'
  <2>1. ~Seg'.reloc /\ InPlace(entry)' /\ PlacedBefore(entry)'
    BY <1>2, <1>6, <1>7 DEF Seg
  <2>2. i' \in 1 .. NSegs' + 1 /\ entry' \in 1 .. i'
    BY <1>2, <1>3, <1>8
  <2> QED BY <2>1, <2>2 DEF BetweenInv
<1>11. ProgressInv' /\ ImageInPlace'
  BY <1>2, <1>10 DEF ProgressInv, ImageInPlace
<1>12. ~StrayWrite
  BY <1>1, <1>2, <1>4, TableFacts DEF StrayWrite
<1> QED BY <1>8, <1>9, <1>11, <1>12 DEF Progress

LEMMA StepRelocated ==
  ASSUME LoadInv, WellFormed(image), ~refused, LoadRelocated, ~refused'
  PROVE  Progress' /\ ~StrayWrite
<1> USE DEF LoadRelocated
<1>1. /\ Sound /\ BlocksInv /\ TableInv /\ ProgressInv /\ image \in Images /\ top \in Nat
      /\ \A a \in DOMAIN mem : a \in Int
  BY SoundState
<1>2. /\ pc = "segments" /\ status = -1 /\ NSegs \in Nat /\ Len(table) = NSegs
      /\ UNCHANGED <<image, top, status, table, mte, entry, i>>
      /\ pc' = "fixups" /\ r' = 1
      /\ i <= NSegs /\ BetweenInv
  BY <1>1, ImageFacts DEF TableInv, ProgressInv
<1>3. /\ DOMAIN table = 1..NSegs /\ entry = i /\ entry \in DOMAIN table /\ i \in 1..NSegs
      /\ PlacedBefore(entry)
  BY <1>1, <1>2 DEF TableInv, BetweenInv
<1> PICK k \in DOMAIN table : k = entry
  BY <1>3
<1> PICK s : s = image.segs[k]
  OBVIOUS
<1> PICK m, size : m = Loaded /\ size = (Len(Seg.rlcs) * RecordSize) % W
  OBVIOUS
<1>4. /\ DOMAIN m = DOMAIN mem
      /\ \A o \in 0 .. s.cbseg - 1 : m[table[k] * P + o] = s.data[o + 1]
      /\ \A a \in DOMAIN mem : m[a] # mem[a] => InBlock(a, blocks[k + 1])
  <2>1. s = Seg
    BY DEF Seg
  <2> QED BY <1>1, <2>1, Loads
<1>5. size \in Nat
  <2>1. Len(Seg.rlcs) \in Nat
    BY <1>1, TableFacts, SegmentFacts DEF Seg
  <2>2. Len(Seg.rlcs) * RecordSize \in Nat /\ W \in Nat \ {0}
    BY <2>1, LoaderAssumption DEF W
  <2> QED BY <2>2
<1>6. /\ BlocksInv'
      /\ \E b : blocks' = Append(blocks, b)
      /\ DOMAIN mem' = DOMAIN mem
      /\ \A a \in DOMAIN mem : mem'[a] # m[a] =>
           /\ InBlock(a, blocks'[Len(blocks) + 1])
           /\ \A j \in DOMAIN blocks : ~InBlock(a, blocks[j])
  BY <1>1, <1>2, <1>4, <1>5, Allocates
<1>7. /\ Len(blocks) + 1 \in DOMAIN blocks'
      /\ \A j \in DOMAIN blocks : j \in DOMAIN blocks' /\ blocks'[j] = blocks[j]
  BY <1>1, <1>6 DEF BlocksInv
<1>8. ASSUME NEW a \in DOMAIN mem, mem'[a] # mem[a]
      PROVE  /\ \/ InBlock(a, blocks[k + 1]) /\ mem'[a] = m[a]
                \/ InBlock(a, blocks'[Len(blocks) + 1])
             /\ \A j \in DOMAIN table \ {k} : ~InBlock(a, blocks[j + 1])
  <2>1. CASE mem'[a] # m[a]
    BY <1>1, <1>6, <2>1, TableFacts
  <2>2. CASE mem'[a] = m[a]
    <3>1. InBlock(a, blocks[k + 1])
      BY <1>4, <1>8, <2>2
    <3> QED BY <1>1, <2>2, <3>1, WritesOneBlock
  <2> QED BY <2>1, <2>2
<1>9. SparesOthers(k)
  BY <1>8 DEF SparesOthers
<1>10. PatchedAt(k, {})'
  <2>1. ASSUME NEW o \in 0 .. s.cbseg - 1
        PROVE  mem'[table[k] * P + o] = s.data[o + 1]
    <3> PICK a : a = table[k] * P + o
      OBVIOUS
    <3>1. a \in DOMAIN mem /\ InBlock(a, blocks[k + 1]) /\ k + 1 \in DOMAIN blocks
      BY <1>1, SegmentAddress, TableFacts
    <3>2. mem'[a] = m[a]
      BY <1>6, <3>1
    <3> QED BY <1>4, <3>2
  <2> QED BY <1>1, <1>2, <2>1, PatchedNowhere
<1>11. PlacedBefore(k)'
  <2> SUFFICES ASSUME NEW j \in 1..k-1
               PROVE  image'.segs[j].reloc /\ InPlace(j)'
    BY DEF PlacedBefore
  <2>1. j # k /\ j \in DOMAIN table
    BY <1>2, <1>3
  <2>2. image.segs[j].reloc /\ InPlace(j)
    BY <1>3 DEF PlacedBefore
  <2> QED BY <1>1, <1>2, <1>9, <2>1, <2>2, OthersInPlace
<1>12. NSegs' = NSegs /\ Seg' = Seg
  BY <1>2 DEF NSegs, Seg
<1>13. TableInv'
  BY <1>1, <1>2, <1>7, <1>12 DEF TableInv
<1>14. RecordInv'
  <2>1. Seg.reloc /\ Len(Seg.rlcs) \in Nat
    BY <1>1, TableFacts, SegmentFacts DEF Seg
  <2>2. r' \in 1 .. Len(Seg'.rlcs) + 1
    BY <1>2, <1>12, <2>1
  <2>3. i' \in 1 .. NSegs' /\ entry' = i' /\ Seg'.reloc
    BY <1>2, <1>3, <1>12, <2>1
  <2>4. PlacedBefore(i)'
    BY <1>2, <1>3, <1>11
  <2> QED BY <2>2, <2>3, <2>4 DEF RecordInv
<1>15. PatchedAt(i, Sites(i, r - 1))'
  <2>1. Sites(i, r - 1)' = {}
    BY <1>2 DEF Sites
  <2> QED BY <1>2, <1>3, <1>10, <2>1
<1>16. ProgressInv' /\ ImageInPlace'
  BY <1>2, <1>14, <1>15 DEF ProgressInv, ImageInPlace
<1>17. ~StrayWrite
  BY <1>1, <1>7, <1>8, TableFacts DEF StrayWrite
<1> QED BY <1>6, <1>13, <1>16, <1>17 DEF Progress

LEMMA StepFinish ==
  ASSUME LoadInv, WellFormed(image), ~refused, Finish, ~refused'
  PROVE  Progress' /\ ~StrayWrite
<1> USE DEF Finish
<1>1. /\ Sound /\ BlocksInv /\ TableInv /\ ProgressInv /\ image \in Images /\ top \in Nat
  BY SoundState
<1>2. /\ pc = "segments" /\ NSegs \in Nat /\ Len(table) = NSegs
      /\ UNCHANGED <<image, top, mem, blocks, table, mte, entry, i>>
      /\ pc' = "done" /\ i > NSegs /\ BetweenInv
  BY <1>1, ImageFacts DEF TableInv, ProgressInv, Exit, memVars
<1>3. BlocksInv' /\ NSegs' = NSegs
  BY <1>1, <1>2 DEF BlocksInv, NSegs
<1>4. TableInv'
  BY <1>1, <1>2, <1>3 DEF TableInv
<1>5. ProgressInv'
  BY <1>2 DEF ProgressInv
<1>6. ASSUME NEW k \in 1..NSegs, \A j \in 1..k-1 : image.segs[j].reloc
      PROVE  InPlace(k)
  <2>1. /\ entry \in 1..i /\ i = NSegs + 1 /\ entry \in Nat /\ PlacedBefore(entry)
        /\ entry # i => ~image.segs[entry].reloc /\ InPlace(entry)
    BY <1>2 DEF BetweenInv, Seg
  <2>2. CASE k < entry
    BY <2>1, <2>2 DEF PlacedBefore
  <2>3. CASE k = entry
    BY <1>2, <2>1, <2>3
  <2>4. CASE k > entry
    <3>1. entry \in 1..k-1 /\ entry # i
      BY <1>2, <2>1, <2>4
    <3> QED BY <1>6, <2>1, <3>1
  <2> QED BY <2>1, <2>2, <2>3, <2>4
<1>7. ASSUME NEW k \in 1..NSegs, InPlace(k)
      PROVE  InPlace(k)'
  <2>1. k \in DOMAIN table
    BY <1>1, <1>2 DEF TableInv
  <2> PICK n : n = NSegs + 1
    OBVIOUS
  <2>2. SparesOthers(n) /\ k # n
    BY <1>2 DEF SparesOthers
  <2> QED BY <1>1, <1>2, <1>7, <2>1, <2>2, OthersInPlace
<1>8. ImageInPlace'
  BY <1>2, <1>3, <1>6, <1>7 DEF ImageInPlace
<1>9. ~StrayWrite
  BY <1>2 DEF StrayWrite
<1> QED BY <1>3, <1>4, <1>5, <1>8, <1>9 DEF Progress

LEMMA StepReadError ==
  ASSUME LoadInv, WellFormed(image), ~refused, ReadError, ~refused'
  PROVE  Progress' /\ ~StrayWrite
<1> USE DEF ReadError
<1>1. BlocksInv /\ TableInv
  BY SoundState
<1>2. pc' = "done" /\ status' = 1 /\ UNCHANGED <<image, top, mem, blocks, table>>
  BY DEF Exit, memVars
<1>3. BlocksInv' /\ NSegs' = NSegs
  BY <1>1, <1>2 DEF BlocksInv, NSegs
<1>4. TableInv'
  BY <1>1, <1>2, <1>3 DEF TableInv
<1>5. ProgressInv' /\ ImageInPlace'
  BY <1>2 DEF ProgressInv, ImageInPlace
<1>6. ~StrayWrite
  BY <1>2 DEF StrayWrite
<1> QED BY <1>3, <1>4, <1>5, <1>6 DEF Progress

\* What every step of apply_relocations starts from.
LEMMA Relocating ==
  ASSUME LoadInv, WellFormed(image), ~refused, pc \in {"fixups", "chain"}
  PROVE  /\ Sound /\ BlocksInv /\ TableInv /\ image \in Images /\ top \in Nat
         /\ NSegs \in Nat /\ status = -1 /\ RecordInv
         /\ DOMAIN table = 1..NSegs /\ i \in DOMAIN table /\ entry = i
         /\ Seg = image.segs[i] /\ Seg \in Segment /\ WellFormedSegment(Seg, NSegs)
         /\ Len(Seg.rlcs) \in Nat /\ DOMAIN Seg.rlcs = 1..Len(Seg.rlcs)
<1>1. /\ Sound /\ BlocksInv /\ TableInv /\ ProgressInv /\ image \in Images /\ top \in Nat
  BY SoundState
<1>2. /\ NSegs \in Nat /\ status = -1 /\ RecordInv /\ DOMAIN table = 1..NSegs
  BY <1>1, ImageFacts DEF ProgressInv, TableInv
<1>3. i \in DOMAIN table /\ entry = i /\ Seg = image.segs[i]
  BY <1>2 DEF RecordInv, Seg
<1>4. Seg \in Segment /\ WellFormedSegment(Seg, NSegs)
  BY <1>1, <1>3, TableFacts
<1> QED BY <1>1, <1>2, <1>3, <1>4, SegmentFacts

\* And what it ends with, when it writes only into the segment it relocates.
LEMMA StepInSegment ==
  ASSUME LoadInv, WellFormed(image), ~refused, pc \in {"fixups", "chain"},
         UNCHANGED <<image, top, blocks, refused, status, mte, table>>,
         SparesOthers(i), DOMAIN mem' = DOMAIN mem,
         \A a \in DOMAIN mem : mem'[a] # mem[a] => InBlock(a, blocks[i + 1]),
         pc' \in {"segments", "fixups", "chain"}
  PROVE  /\ BlocksInv' /\ TableInv' /\ ImageInPlace' /\ ~StrayWrite /\ NSegs' = NSegs
         /\ status' = -1 /\ PlacedBefore(i) /\ \A j \in 1..i-1 : j \in DOMAIN table
         /\ \A j \in 1..i-1 : image'.segs[j].reloc /\ InPlace(j)'
<1>1. /\ Sound /\ BlocksInv /\ TableInv /\ NSegs \in Nat /\ status = -1 /\ RecordInv
      /\ DOMAIN table = 1..NSegs /\ i \in DOMAIN table
  BY Relocating
<1>2. BlocksInv' /\ NSegs' = NSegs
  BY <1>1 DEF BlocksInv, NSegs
<1>3. TableInv'
  BY <1>1, <1>2 DEF TableInv
<1>4. ImageInPlace'
  BY <1>1 DEF ImageInPlace
<1>5. ~StrayWrite
  BY <1>1, TableFacts DEF StrayWrite
<1>6. PlacedBefore(i)
  BY <1>1 DEF RecordInv
<1>7. ASSUME NEW j \in 1..i-1
      PROVE  j \in DOMAIN table /\ image'.segs[j].reloc /\ InPlace(j)'
  <2>1. j # i /\ j \in DOMAIN table
    BY <1>1
  <2>2. image.segs[j].reloc /\ InPlace(j)
    BY <1>6 DEF PlacedBefore
  <2> QED BY <1>1, <2>1, <2>2, OthersInPlace
<1> QED BY <1>1, <1>2, <1>3, <1>4, <1>5, <1>6, <1>7

\* apply_relocations returned: the segment is in place, the next one is next.
LEMMA Returned ==
  ASSUME BlocksInv', TableInv', ImageInPlace', ~StrayWrite, NSegs' = NSegs, NSegs \in Nat,
         status' = -1, image' = image, RecordInv, Return,
         \A j \in 1..i-1 : image'.segs[j].reloc /\ InPlace(j)',
         NEW k, k = i, InPlace(k)'
  PROVE  Progress' /\ ~StrayWrite
<1>1. /\ pc' = "segments" /\ i' = i + 1 /\ entry' = i' /\ i \in 1..NSegs
      /\ image'.segs[i].reloc
  BY DEF Return, NextEntry, RecordInv, Seg
<1>2. PlacedBefore(entry)'
  <2> SUFFICES ASSUME NEW j \in 1 .. i' - 1
               PROVE  image'.segs[j].reloc /\ InPlace(j)'
    BY <1>1 DEF PlacedBefore
  <2>1. j = k \/ j \in 1..i-1
    BY <1>1
  <2> QED BY <1>1, <2>1
<1>3. BetweenInv'
  BY <1>1, <1>2 DEF BetweenInv
<1>4. ProgressInv'
  BY <1>1, <1>3 DEF ProgressInv
<1> QED BY <1>4 DEF Progress

LEMMA StepDone ==
  ASSUME LoadInv, WellFormed(image), ~refused, RecordsDone, ~refused'
  PROVE  Progress' /\ ~StrayWrite
<1>1. /\ pc = "fixups" /\ r > Len(Seg.rlcs) /\ Return
      /\ UNCHANGED <<image, top, mem, blocks, refused, status, mte, table, r>>
  BY DEF RecordsDone, memVars, fixVars
<1>2. pc' = "segments"
  BY <1>1 DEF Return
<1>3. SparesOthers(i)
  BY <1>1 DEF SparesOthers
<1>4. /\ BlocksInv' /\ TableInv' /\ ImageInPlace' /\ ~StrayWrite /\ NSegs' = NSegs
      /\ status' = -1
      /\ \A j \in 1..i-1 : image'.segs[j].reloc /\ InPlace(j)'
  BY <1>1, <1>2, <1>3, StepInSegment
<1>5. /\ Sound /\ RecordInv /\ NSegs \in Nat /\ i \in DOMAIN table /\ Seg = image.segs[i]
      /\ Len(Seg.rlcs) \in Nat
  BY <1>1, Relocating
<1>6. PatchedAt(i, Sites(i, r - 1))
  BY <1>1, SoundState DEF ProgressInv
<1>7. r - 1 = Len(image.segs[i].rlcs)
  BY <1>1, <1>5 DEF RecordInv
<1>8. InPlace(i)
  BY <1>6, <1>7 DEF InPlace
<1> PICK k \in DOMAIN table : k = i
  BY <1>5
<1>9. InPlace(k)'
  <2> PICK n : n = NSegs + 1
    OBVIOUS
  <2>1. SparesOthers(n) /\ k # n
    BY <1>1, <1>5 DEF SparesOthers, RecordInv
  <2> QED BY <1>1, <1>5, <1>8, <2>1, OthersInPlace
<1> QED BY <1>1, <1>4, <1>5, <1>9, Returned

\* The sites of the records up to n are those up to n - 1 and the places of record n.
LEMMA SitesOfRecord ==
  ASSUME Sound, NEW k \in DOMAIN table, NEW s, s = image.segs[k], NEW n \in DOMAIN s.rlcs
  PROVE  /\ Sites(k, n) =
              Sites(k, n - 1) \union {<<n, o>> : o \in Places(s.data, s.rlcs[n])}
         /\ Sites(k, n - 1) \subseteq AllSites(k)
         /\ \A o : <<n, o>> \notin Sites(k, n - 1)
         /\ \A o \in Places(s.data, s.rlcs[n]) : <<n, o>> \in AllSites(k)
<1>1. /\ s \in Segment /\ WellFormedSegment(s, NSegs) /\ s.cbseg \in Nat
      /\ Len(s.rlcs) \in Nat /\ n \in 1..Len(s.rlcs)
  BY TableFacts, SegmentFacts
<1>2. \A o \in Places(s.data, s.rlcs[n]) : o \in 0..s.cbseg
  <2> TAKE o \in Places(s.data, s.rlcs[n])
  <2>1. o \in Nat /\ o + Width(s.rlcs[n]) <= s.cbseg
    BY <1>1, PlacesInside
  <2>2. Width(s.rlcs[n]) \in Nat
    BY DEF Width
  <2> QED BY <1>1, <2>1, <2>2
<1> DEFINE Pairs(b) == (1..b) \X (0..s.cbseg)
           Len_ == Len(s.rlcs)
<1>3. /\ \A b : Sites(k, b) = {d \in Pairs(b) : d[2] \in Places(s.data, s.rlcs[d[1]])}
      /\ AllSites(k) = Sites(k, Len_)
  BY DEF Sites, AllSites
<1>4. Pairs(n) = Pairs(n - 1) \union {<<n, o>> : o \in 0..s.cbseg}
  <2>1. 1..n = 1..n-1 \union {n}
    BY <1>1
  <2> QED BY <2>1
<1>5. Pairs(n - 1) \subseteq Pairs(Len_) /\ Pairs(n) \subseteq Pairs(Len_)
  <2>1. 1..n-1 \subseteq 1..Len_ /\ 1..n \subseteq 1..Len_
    BY <1>1
  <2> QED BY <2>1
<1>6. \A o : <<n, o>> \notin Pairs(n - 1)
  BY <1>1
<1> HIDE DEF Pairs, Len_
<1>7. \A o \in Places(s.data, s.rlcs[n]) : <<n, o>> \in Pairs(n)
  BY <1>2, <1>4
<1>8. \A o : <<n, o>>[1] = n /\ <<n, o>>[2] = o
  OBVIOUS
<1>9. Sites(k, n) = Sites(k, n - 1) \union {<<n, o>> : o \in Places(s.data, s.rlcs[n])}
  <2>1. ASSUME NEW d \in Sites(k, n)
        PROVE  d \in Sites(k, n - 1) \union {<<n, o>> : o \in Places(s.data, s.rlcs[n])}
    BY <1>3, <1>4, <1>8
  <2>2. ASSUME NEW d \in Sites(k, n - 1)
        PROVE  d \in Sites(k, n)
    BY <1>3, <1>4
  <2>3. ASSUME NEW o \in Places(s.data, s.rlcs[n])
        PROVE  <<n, o>> \in Sites(k, n)
    BY <1>3, <1>7, <1>8
  <2> QED BY <2>1, <2>2, <2>3
<1> QED BY <1>3, <1>5, <1>6, <1>7, <1>8, <1>9

LEMMA RecordFacts ==
  ASSUME LoadInv, WellFormed(image), ~refused, pc \in {"fixups", "chain"},
         r \in DOMAIN Seg.rlcs
  PROVE  /\ WellFormedRecord(Seg, NSegs, Rec) /\ Rec = Seg.rlcs[r] /\ r \in Nat
         /\ Known(Rec) /\ Rec.type = "int"
         /\ Target = Internal(Rec) /\ Handle = table[i] /\ Rec.soff \in Words(Seg.data)
<1>1. WellFormedSegment(Seg, NSegs) /\ DOMAIN Seg.rlcs = 1..Len(Seg.rlcs)
  BY Relocating
<1>2. WellFormedRecord(Seg, NSegs, Rec) /\ Rec = Seg.rlcs[r]
  BY <1>1 DEF WellFormedSegment, Rec
<1>3. Known(Rec) /\ Rec.type = "int"
  BY <1>2 DEF WellFormedRecord
<1>4. Rec.soff \in Words(Seg.data)
  BY <1>1, <1>2 DEF WellFormedSegment, WellFormedRecord, Words
<1> QED BY <1>1, <1>2, <1>3, <1>4 DEF Target, Handle

LEMMA StepStart ==
  ASSUME LoadInv, WellFormed(image), ~refused, StartRecord, ~refused'
  PROVE  Progress' /\ ~StrayWrite
<1> USE DEF StartRecord
<1>1. /\ pc = "fixups" /\ r <= Len(Seg.rlcs)
      /\ UNCHANGED <<image, top, blocks, refused, status, mte, table>>
      /\ offset' = Rec.soff
  OBVIOUS
<1>2. /\ Sound /\ RecordInv /\ NSegs \in Nat /\ i \in DOMAIN table /\ Seg = image.segs[i]
      /\ Len(Seg.rlcs) \in Nat /\ DOMAIN Seg.rlcs = 1..Len(Seg.rlcs)
      /\ entry = i
  BY <1>1, Relocating
<1>3. r \in DOMAIN Seg.rlcs
  BY <1>1, <1>2 DEF RecordInv
<1>4. /\ Rec = Seg.rlcs[r] /\ Known(Rec) /\ Target = Internal(Rec) /\ Handle = table[i]
      /\ r \in Nat /\ Rec.soff \in Words(Seg.data)
  BY <1>1, <1>3, RecordFacts
<1>5. PatchedAt(i, Sites(i, r - 1))
  BY <1>1, SoundState DEF ProgressInv
<1> PICK k \in DOMAIN table : k = i
  BY <1>2
<1> PICK s, n, D : s = image.segs[k] /\ n = r /\ D = Sites(k, r - 1)
  OBVIOUS
<1>6. /\ Sites(k, n) = D \union {<<n, o>> : o \in Places(s.data, s.rlcs[n])}
      /\ D \in SUBSET AllSites(k) /\ \A o : <<n, o>> \notin D
      /\ \A o \in Places(s.data, s.rlcs[n]) : <<n, o>> \in AllSites(k)
  BY <1>2, <1>3, SitesOfRecord
<1>7. CASE ~Rec.additive
  <2>1. /\ pc' = "chain" /\ address' = Internal(Rec)
        /\ UNCHANGED <<mem, i, entry, r>>
    BY <1>4, <1>7
  <2>2. SparesOthers(i)
    BY <2>1 DEF SparesOthers
  <2>3. /\ BlocksInv' /\ TableInv' /\ ImageInPlace' /\ ~StrayWrite /\ NSegs' = NSegs
        /\ status' = -1
        /\ \A j \in 1..i-1 : image'.segs[j].reloc /\ InPlace(j)'
    BY <1>1, <2>1, <2>2, StepInSegment
  <2>4. Seg' = Seg /\ Rec' = Rec
    BY <1>1, <2>1 DEF Seg, Rec
  <2>5. RecordInv'
    BY <1>1, <1>2, <2>1, <2>3, <2>4 DEF RecordInv, PlacedBefore
  <2>6. PatchedAt(k, D)'
    <3>1. Holds(mem', table[k] * P, image.segs[k], Wants(k), D)
      BY <1>5, <1>6, <2>1, PatchedHolds
    <3> QED BY <1>1, <1>6, <3>1, PatchedHoldsAfter
  <2>7. Followed' = {} /\ offset' \in Chain(Seg'.data, Rec'.soff)
    BY <1>1, <1>4, <2>4, ChainHas DEF Followed
  <2>8. D = Sites(i, r - 1)'
    BY <1>1, <2>1 DEF Sites
  <2>9. PatchedAt(i, Sites(i, r - 1) \union Followed)'
    BY <2>1, <2>6, <2>7, <2>8
  <2>10. address' = Internal(Rec)'
    BY <1>1, <2>1, <2>4 DEF Internal
  <2>11. ChainInv'
    BY <1>3, <1>7, <2>1, <2>4, <2>7, <2>9, <2>10 DEF ChainInv
  <2>12. ProgressInv'
    BY <2>1, <2>3, <2>5, <2>11 DEF ProgressInv
  <2> QED BY <2>3, <2>12 DEF Progress
<1>8. CASE Rec.additive
  <2> PICK d : d = <<n, Rec.soff>>
    OBVIOUS
  <2>1. d[1] = n /\ d[2] = Rec.soff
    OBVIOUS
  <2>2. Places(s.data, s.rlcs[n]) = {Rec.soff}
    BY <1>2, <1>4, <1>8 DEF Places
  <2>3. d \in AllSites(k) \ D /\ Sites(k, n) = D \union {d}
    BY <1>6, <2>2
  <2>4. /\ pc' = "fixups" /\ r' = r + 1 /\ UNCHANGED <<i, entry>>
        /\ mem' = Store(mem, table[i], Rec.soff,
                        AddedFixup(Rec, Internal(Rec), Word(mem, table[i], Rec.soff)))
    BY <1>4, <1>8 DEF NextRecord
  <2>5. Word(mem, table[k], Rec.soff) = LinkIn(s.data, Rec.soff)
    BY <1>2, <1>5, <1>6, <2>1, <2>3, ReadsFile
  <2>6. mem' = Store(mem, table[k], d[2], Want(s, s.rlcs[d[1]], d[2]))
    BY <1>2, <1>4, <1>8, <2>1, <2>4, <2>5 DEF Want
  <2>7. /\ PatchedAt(k, D \union {d})' /\ SparesOthers(k)
        /\ \A a \in DOMAIN mem : mem'[a] # mem[a] => InBlock(a, blocks[k + 1])
    BY <1>1, <1>2, <1>5, <1>6, <2>3, <2>6, Patches
  <2>8. DOMAIN mem' = DOMAIN mem
    BY <2>6 DEF Store
  <2>9. /\ BlocksInv' /\ TableInv' /\ ImageInPlace' /\ ~StrayWrite /\ NSegs' = NSegs
        /\ status' = -1
        /\ \A j \in 1..i-1 : image'.segs[j].reloc /\ InPlace(j)'
    BY <1>1, <2>4, <2>7, <2>8, StepInSegment
  <2>10. Seg' = Seg
    BY <1>1, <2>4 DEF Seg
  <2>11. RecordInv'
    <3>1. r' \in 1 .. Len(Seg'.rlcs) + 1
      BY <1>2, <1>3, <2>4, <2>10
    <3> QED BY <1>1, <1>2, <2>4, <2>9, <2>10, <3>1 DEF RecordInv, PlacedBefore
  <2>12. D \union {d} = Sites(i, r - 1)'
    <3>1. r' - 1 = n
      BY <1>4, <2>4
    <3>2. Sites(i, r - 1)' = Sites(k, n)
      BY <1>1, <2>4, <3>1 DEF Sites
    <3> QED BY <2>3, <3>2
  <2>13. PatchedAt(i, Sites(i, r - 1))'
    BY <2>4, <2>7, <2>12
  <2>14. ProgressInv'
    BY <2>4, <2>9, <2>11, <2>13 DEF ProgressInv
  <2> QED BY <2>9, <2>14 DEF Progress
<1> QED BY <1>7, <1>8

LEMMA StepChain ==
  ASSUME LoadInv, WellFormed(image), ~refused, FollowChain, ~refused'
  PROVE  Progress' /\ ~StrayWrite
<1>1. /\ pc = "chain"
      /\ UNCHANGED <<image, top, blocks, refused, status, mte, table, address>>
  BY DEF FollowChain
<1>2. /\ Sound /\ RecordInv /\ NSegs \in Nat /\ i \in DOMAIN table /\ Seg = image.segs[i]
      /\ Len(Seg.rlcs) \in Nat /\ DOMAIN Seg.rlcs = 1..Len(Seg.rlcs)
      /\ entry = i
  BY <1>1, Relocating
<1>3. ChainInv
  BY <1>1, SoundState DEF ProgressInv
<1>4. /\ r \in DOMAIN Seg.rlcs /\ ~Rec.additive /\ address = Internal(Rec)
      /\ offset \in Chain(Seg.data, Rec.soff)
      /\ PatchedAt(i, Sites(i, r - 1) \union Followed)
  BY <1>3 DEF ChainInv
<1>5. /\ Rec = Seg.rlcs[r] /\ Known(Rec) /\ Handle = table[i]
      /\ r \in Nat /\ Rec.soff \in Words(Seg.data) /\ WellFormedRecord(Seg, NSegs, Rec)
  BY <1>1, <1>4, RecordFacts
<1> PICK k \in DOMAIN table : k = i
  BY <1>2
<1> PICK s, n, rec, F, o : /\ s = image.segs[k] /\ n = r /\ rec = Rec
                           /\ F = Followed /\ o = offset
  OBVIOUS
<1> PICK D, d : D = Sites(k, r - 1) \union Followed /\ d = <<n, o>>
  OBVIOUS
<1>6. d[1] = n /\ d[2] = o
  OBVIOUS
<1> DEFINE C(p) == Chain(s.data, p)
\* The chain from here on.
<1>7. /\ Linked(s.data, C(rec.soff)) /\ C(o) \subseteq C(rec.soff) /\ Linked(s.data, C(o))
      /\ o \in C(o) /\ o \in Words(s.data) /\ C(rec.soff) \subseteq Words(s.data)
      /\ LinkIn(s.data, o) \in {o, END} \/ o \notin C(LinkIn(s.data, o))
  <2>1. /\ Linked(s.data, C(rec.soff))
        /\ \A p \in C(rec.soff) :
             LinkIn(s.data, p) \in {p, END} \/ p \notin C(LinkIn(s.data, p))
    BY <1>2, <1>4, <1>5 DEF WellFormedRecord
  <2>2. C(rec.soff) \subseteq Words(s.data) /\ o \in C(rec.soff)
    BY <1>2, <1>4, <1>5, ChainHas
  <2>3. C(o) \subseteq C(rec.soff) /\ Linked(s.data, C(o))
    BY <1>2, <1>5, <2>1, <2>2, ChainFrom
  <2>4. o \in C(o)
    BY <2>2, ChainHas
  <2> QED BY <2>1, <2>2, <2>3, <2>4
<1>8. /\ Places(s.data, s.rlcs[n]) = C(rec.soff)
      /\ F = {<<n, p>> : p \in C(rec.soff) \ C(o)}
  BY <1>2, <1>4, <1>5 DEF Places, Followed
<1>9. /\ Sites(k, n) = Sites(k, n - 1) \union {<<n, p>> : p \in C(rec.soff)}
      /\ Sites(k, n - 1) \subseteq AllSites(k) /\ \A p : <<n, p>> \notin Sites(k, n - 1)
      /\ \A p \in C(rec.soff) : <<n, p>> \in AllSites(k)
  BY <1>2, <1>4, <1>8, SitesOfRecord
<1> HIDE DEF C
\* This place has no fixup yet, so the link is the file's.
<1>10. D \in SUBSET AllSites(k) /\ d \in AllSites(k) \ D
  <2>1. F \subseteq AllSites(k) /\ d \in AllSites(k)
    BY <1>7, <1>8, <1>9
  <2>2. d \notin F
    BY <1>7, <1>8
  <2> QED BY <1>9, <2>1, <2>2
<1>11. PatchedAt(k, D)
  BY <1>4
<1>12. Word(mem, table[k], o) = LinkIn(s.data, o)
  BY <1>2, <1>6, <1>10, <1>11, ReadsFile
<1>13. Link = LinkIn(s.data, o)
  BY <1>5, <1>12 DEF Link
<1>14. mem' = Store(mem, table[k], d[2], Want(s, s.rlcs[d[1]], d[2]))
  <2>1. mem' = Store(mem, table[k], o, Fixup(rec, Internal(rec)))
    BY <1>4, <1>5 DEF FollowChain
  <2>2. Want(s, s.rlcs[n], o) = Fixup(rec, Internal(rec))
    BY <1>2, <1>4, <1>5 DEF Want
  <2> QED BY <1>6, <2>1, <2>2
<1>15. /\ PatchedAt(k, D \union {d})' /\ SparesOthers(k)
       /\ \A a \in DOMAIN mem : mem'[a] # mem[a] => InBlock(a, blocks[k + 1])
  <2>1. Sound /\ image' = image /\ table' = table /\ mte' = mte
    BY <1>1, <1>2
  <2>2. mem' = Store(mem, table[k], d[2],
                     Want(image.segs[k], image.segs[k].rlcs[d[1]], d[2]))
    BY <1>14
  <2> QED BY <1>10, <1>11, <2>1, <2>2, Patches
<1>16. DOMAIN mem' = DOMAIN mem
  BY <1>14 DEF Store
<1>17. pc' \in {"fixups", "chain"} /\ UNCHANGED <<i, entry>>
  BY <1>1, <1>5 DEF FollowChain, NextRecord
<1>18. /\ BlocksInv' /\ TableInv' /\ ImageInPlace' /\ ~StrayWrite /\ NSegs' = NSegs
       /\ status' = -1
       /\ \A j \in 1..i-1 : image'.segs[j].reloc /\ InPlace(j)'
  BY <1>1, <1>15, <1>16, <1>17, StepInSegment
<1>19. Seg' = Seg
  BY <1>1, <1>17 DEF Seg
<1>20. ASSUME r' \in 1 .. Len(Seg.rlcs) + 1
       PROVE  RecordInv'
  BY <1>1, <1>2, <1>17, <1>18, <1>19, <1>20 DEF RecordInv, PlacedBefore
<1>21. CASE ChainEnds(Link)
  <2>1. pc' = "fixups" /\ r' = r + 1
    BY <1>5, <1>21 DEF FollowChain, NextRecord
  <2>2. RecordInv'
    BY <1>2, <1>4, <1>20, <2>1
  <2>3. LinkIn(s.data, o) \in {o, END}
    BY <1>13, <1>21 DEF ChainEnds
  <2>4. C(o) = {o}
    BY <1>7, <2>3, ChainUnfold DEF C
  <2>5. D \union {d} = Sites(k, n)
    <3>1. F \union {d} = {<<n, p>> : p \in C(rec.soff)}
      BY <1>7, <1>8, <2>4
    <3> QED BY <1>9, <3>1
  <2>6. Sites(i, r - 1)' = Sites(k, n)
    <3>1. r' - 1 = n
      BY <1>5, <2>1
    <3> QED BY <1>1, <1>17, <3>1 DEF Sites
  <2>7. PatchedAt(i, Sites(i, r - 1))'
    BY <1>15, <1>17, <2>5, <2>6
  <2>8. ProgressInv'
    BY <1>18, <2>1, <2>2, <2>7 DEF ProgressInv
  <2> QED BY <1>18, <2>8 DEF Progress
<1>22. CASE ~ChainEnds(Link)
  <2>1. pc' = "chain" /\ r' = r /\ offset' = LinkIn(s.data, o)
    BY <1>1, <1>5, <1>13, <1>22 DEF FollowChain
  <2>2. RecordInv'
    BY <1>2, <1>4, <1>20, <2>1
  <2>3. LinkIn(s.data, o) \notin {o, END}
    BY <1>13, <1>22 DEF ChainEnds
  <2> PICK q : q = LinkIn(s.data, o)
    OBVIOUS
  <2>4. C(o) = {o} \union C(q) /\ o \notin C(q)
    BY <1>7, <2>3, ChainUnfold DEF C
  <2>5. q \in C(rec.soff)
    BY <1>7, <2>3 DEF Linked
  <2>6. Rec' = Rec
    BY <1>19, <2>1 DEF Rec
  <2>7. Followed' = {<<n, p>> : p \in C(rec.soff) \ C(q)}
    BY <1>2, <1>19, <2>1, <2>6 DEF Followed, C
  <2>8. Followed' = F \union {d}
    <3>1. C(rec.soff) \ C(q) = (C(rec.soff) \ C(o)) \union {o}
      BY <1>7, <2>4
    <3> QED BY <1>8, <2>7, <3>1
  <2>9. Sites(i, r - 1)' = Sites(k, r - 1)
    BY <1>1, <1>17, <2>1 DEF Sites
  <2>10. PatchedAt(i, Sites(i, r - 1) \union Followed)'
    BY <1>15, <1>17, <2>8, <2>9
  <2>11. address' = Internal(Rec)'
    BY <1>1, <1>4, <2>6 DEF Internal
  <2>12. offset' \in Chain(Seg'.data, Rec'.soff)
    BY <1>2, <1>19, <2>1, <2>5, <2>6 DEF C
  <2>13. ChainInv'
    BY <1>4, <1>19, <2>1, <2>6, <2>10, <2>11, <2>12 DEF ChainInv
  <2>14. ProgressInv'
    BY <1>18, <2>1, <2>2, <2>13 DEF ProgressInv
  <2> QED BY <1>18, <2>14 DEF Progress
<1> QED BY <1>21, <1>22

-----------------------------------------------------------------------------
(* The invariant and what follows.                                           *)

LEMMA LoadInit == Init => LoadInv
<1> SUFFICES ASSUME Init PROVE LoadInv
  OBVIOUS
<1>1. NSegs \in Nat
  BY ImageFacts DEF Init
<1>2. BlocksInv
  BY DEF Init, BlocksInv
<1>3. TableInv
  BY <1>1 DEF Init, TableInv
<1>4. ProgressInv /\ ImageInPlace
  BY DEF Init, ProgressInv, ImageInPlace
<1> QED BY <1>2, <1>3, <1>4 DEF Init, LoadInv

\* A refusal stays, and the memory keeps its size.
LEMMA StepFrame ==
  ASSUME Next
  PROVE  /\ image' = image /\ top' = top /\ DOMAIN mem' = DOMAIN mem
         /\ refused => refused'
<1> USE DEF Store, GlobalAlloc
<1>1. CASE ReadHeaders
  BY <1>1 DEF ReadHeaders, memVars
<1>2. CASE ReadEntry
  BY <1>2 DEF ReadEntry
<1>3. CASE TableRead
  BY <1>3 DEF TableRead, memVars
<1>4. CASE LoadPlain
  BY <1>4 DEF LoadPlain, Loaded
<1>5. CASE LoadRelocated
  BY <1>5 DEF LoadRelocated, Loaded
<1>6. CASE Finish
  BY <1>6 DEF Finish, memVars
<1>7. CASE ReadError
  BY <1>7 DEF ReadError, memVars
<1>8. CASE StartRecord
  BY <1>8 DEF StartRecord
<1>9. CASE FollowChain
  BY <1>9 DEF FollowChain
<1>10. CASE RecordsDone
  BY <1>10 DEF RecordsDone, memVars
<1> QED
  BY <1>1, <1>2, <1>3, <1>4, <1>5, <1>6, <1>7, <1>8, <1>9, <1>10 DEF Next

LEMMA StepProgress ==
  ASSUME LoadInv, WellFormed(image), Next, ~refused'
  PROVE  Progress' /\ ~StrayWrite
<1>1. ~refused
  BY StepFrame
<1>2. CASE ReadHeaders
  BY <1>1, <1>2, StepHeaders
<1>3. CASE ReadEntry
  BY <1>1, <1>3, StepEntry
<1>4. CASE TableRead
  BY <1>1, <1>4, StepTableRead
<1>5. CASE LoadPlain
  BY <1>1, <1>5, StepPlain
<1>6. CASE LoadRelocated
  BY <1>1, <1>6, StepRelocated
<1>7. CASE Finish
  BY <1>1, <1>7, StepFinish
<1>8. CASE ReadError
  BY <1>1, <1>8, StepReadError
<1>9. CASE StartRecord
  BY <1>1, <1>9, StepStart
<1>10. CASE FollowChain
  BY <1>1, <1>10, StepChain
<1>11. CASE RecordsDone
  BY <1>1, <1>11, StepDone
<1> QED
  BY <1>2, <1>3, <1>4, <1>5, <1>6, <1>7, <1>8, <1>9, <1>10, <1>11 DEF Next

LEMMA LoadNext == LoadInv /\ [Next]_vars => LoadInv'
<1> SUFFICES ASSUME LoadInv, [Next]_vars PROVE LoadInv'
  OBVIOUS
<1>1. CASE Next
  <2>1. WellFormed(image') /\ ~refused' => Progress'
    BY <1>1, StepFrame, StepProgress
  <2> QED BY <1>1, <2>1, StepFrame DEF LoadInv, Progress
<1>2. CASE UNCHANGED vars
  <2>1. UNCHANGED <<image, top, mem, blocks, refused, pc, status, mte, table, i, entry, r,
                    offset, address>>
    BY <1>2 DEF vars, memVars, fixVars
  <2>2. NSegs' = NSegs /\ Seg' = Seg /\ Rec' = Rec
    BY <2>1 DEF NSegs, Seg, Rec
  <2>3. \A k, D : PatchedAt(k, D)' <=> PatchedAt(k, D)
    BY <2>1 DEF PatchedAt, Want, Internal
  <2>4. \A k, n : Sites(k, n)' = Sites(k, n)
    BY <2>1 DEF Sites
  <2>5. \A k : InPlace(k)' <=> InPlace(k)
    BY <2>1, <2>3, <2>4 DEF InPlace
  <2>6. \A k : PlacedBefore(k)' <=> PlacedBefore(k)
    BY <2>1, <2>5 DEF PlacedBefore
  <2>7. Followed' = Followed /\ Internal(Rec)' = Internal(Rec)
    BY <2>1, <2>2 DEF Followed, Internal
  <2>8. BetweenInv' <=> BetweenInv
    BY <2>1, <2>2, <2>5, <2>6 DEF BetweenInv
  <2>9. RecordInv' <=> RecordInv
    BY <2>1, <2>2, <2>6 DEF RecordInv
  <2>10. ChainInv' <=> ChainInv
    BY <2>1, <2>2, <2>3, <2>4, <2>7 DEF ChainInv
  <2>11. ProgressInv' <=> ProgressInv
    BY <2>1, <2>3, <2>4, <2>8, <2>9, <2>10 DEF ProgressInv
  <2>12. ImageInPlace' <=> ImageInPlace
    BY <2>1, <2>2, <2>5 DEF ImageInPlace
  <2>13. BlocksInv' <=> BlocksInv
    BY <2>1 DEF BlocksInv
  <2>14. TableInv' <=> TableInv
    BY <2>1, <2>2 DEF TableInv
  <2> QED BY <2>1, <2>11, <2>12, <2>13, <2>14 DEF LoadInv
<1> QED BY <1>1, <1>2

\* What main returns 0 for is in memory as a linker meant it, for every executable of
\* the format and every arena that holds it: whatever the order of the records and the
\* length of their chains, each link was read before it was overwritten, each fixup has
\* its own record's target, and no segment disturbed another.
THEOREM SegmentsInPlace == Spec => []ImageInPlace
<1>1. LoadInv => (~refused /\ WellFormed(image) => ImageInPlace)
  BY DEF LoadInv
<1>2. LoadInv => ImageInPlace
  BY <1>1 DEF ImageInPlace
<1> QED
  BY <1>2, LoadInit, LoadNext, PTL DEF Spec

\* Every byte the loader writes is of a block DOS gave it, its control block included.
THEOREM WritesContained == Spec => WritesStayInBlocks
<1>1. LoadInv /\ [Next]_vars => [StrayWrite => refused' \/ ~WellFormed(image)]_vars
  <2> SUFFICES ASSUME LoadInv, Next, WellFormed(image), ~refused'
               PROVE  ~StrayWrite
    OBVIOUS
  <2> QED BY StepProgress
<1> QED
  BY <1>1, LoadInit, LoadNext, PTL DEF Spec, WritesStayInBlocks
=============================================================================

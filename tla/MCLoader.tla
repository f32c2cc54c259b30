------------------------------ MODULE MCLoader ------------------------------
(* Small executables for Loader: bytes of 3 bits, words of 6, END = 63.     *)
EXTENDS Loader

Rlc(stype, soff, segno, ent) ==
  [type |-> "int", stype |-> stype, additive |-> FALSE, soff |-> soff,
   segno |-> segno, entry |-> ent]
Add(rec) == [rec EXCEPT !.additive = TRUE]
Import(rec) == [rec EXCEPT !.type = "ord"]

SegOf(data, minalloc, rlcs) ==
  [data |-> data, cbseg |-> Len(data), minalloc |-> minalloc,
   reloc |-> rlcs # <<>>, rlcs |-> rlcs]

\* A chain 0 -> 4 -> 2 -> END of words, and one link to itself at 6.
Chained == <<4, 0, 7, 7, 2, 0, 6, 0>>
\* Two links to each other, as no linker writes them, at 0 and 2.
Looped  == <<2, 0, 0, 0, 5, 0, 0, 0>>
\* Two more, at 2 and 10, whose low byte is 2.
ByteLoop == <<0, 0, 2, 1, 0, 0, 0, 0, 0, 0, 2, 0>>
\* Far pointers chained 0 -> 4 -> END.
Far     == <<4, 0, 3, 3, 7, 7, 3, 3>>

Segments == {
  SegOf(<<5, 6, 7>>, 4, <<>>),
  SegOf(<<>>, 4, <<>>),
  SegOf(Chained, 8, <<Rlc("seg", 0, 1, 0), Rlc("off", 6, 2, 9)>>),
  SegOf(Chained, 9, <<Rlc("off", 0, 2, 13), Add(Rlc("byt", 6, 1, 11))>>),
  SegOf(Far, 8, <<Rlc("ptr", 0, 2, 20)>>),
  SegOf(<<0, 0, 7, 7, 6, 0>>, 6,
        <<Add(Rlc("seg", 0, Movable, 5)), Add(Rlc("off", 4, 1, 61)),
          Rlc("byt", 2, 1, 12)>>) }

\* What a linker writes, but for imports, and for the empty segment, of 64K.
ASSUME SegmentsWellFormed ==
  \A s \in Segments : s.cbseg > 0 => WellFormedSegment(s, 2)
Made(n) == [valid : {TRUE}, segs : [1..n -> Segments]]

Odd(s1, s2) == [valid |-> TRUE, segs |-> <<s1, s2>>]
OddImages == {
  Odd(SegOf(Looped, 8, <<Rlc("off", 0, 1, 30)>>), SegOf(Looped, 8, <<Rlc("seg", 0, 1, 0)>>)),
  Odd(SegOf(Far, 0, <<Rlc("ptr", 0, 2, 20)>>), SegOf(<<5, 6, 7>>, 4, <<>>)),
  Odd(SegOf(Chained, 8, <<Rlc("seg", 0, 1, 0), Import(Rlc("ptr", 4, 1, 0))>>),
      SegOf(Chained, 8, <<Rlc("ptr48", 0, 1, 0), Rlc("off", 6, 1, 9)>>)),
  Odd(SegOf(Far, 8, <<Add(Rlc("ptr", 0, 2, 20)), Add(Rlc("ptr48", 0, 1, 0))>>),
      SegOf(<<5, 6, 7>>, 4, <<>>)),
  Odd(SegOf(Chained, 8, <<Rlc("byt", 0, 1, 2), Rlc("seg", 6, 2, 0)>>),
      SegOf(Chained, 8, <<Rlc("byt", 0, 1, 4), Rlc("byt", 6, 2, 6)>>)) }

\* A chain of bytes that leads back to its first place when it is patched.
LoopImages == {Odd(SegOf(ByteLoop, 12, <<Rlc("byt", 2, 1, 2)>>), SegOf(<<5, 6, 7>>, 4, <<>>))}
MCImages == Made(2) \union Made(3) \union OddImages \union LoopImages
              \union {[valid |-> FALSE, segs |-> <<>>]}
=============================================================================

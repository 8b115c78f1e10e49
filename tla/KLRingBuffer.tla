---------------------------- MODULE KLRingBuffer ----------------------------
(***************************************************************************)
(* The growing ring of bytes of klringbuffer.c, as rb_new makes it: one    *)
(* caller at a time.  The bytes written are 1, 2, 3, ... in order; a cell  *)
(* nobody wrote to holds 0.                                                *)
(***************************************************************************)
EXTENDS Integers, Sequences

CONSTANTS
  SizeInitial, SizeMax,
  GrowFactor,  \* lengths added by a growth (128 in the code)
  RingWord,    \* 2^64: size_t arithmetic is modulo RingWord
  RingLengths, \* the lengths callers write
  RingBytes    \* bound: bytes written

ASSUME RingAssumption ==
  /\ SizeInitial \in Nat \ {0} /\ SizeMax \in Nat /\ SizeInitial <= SizeMax
  /\ GrowFactor \in Nat \ {0}
  /\ RingWord \in Nat /\ 2 * SizeMax < RingWord
  /\ RingLengths \subseteq Nat \ {0} /\ RingBytes \in Nat

(* Callers write at most half of the ring at a time: packets of some 184   *)
(* bytes, buffers of a network read.  A longer write that overflows takes  *)
(* fill below 0, and (head + fill) % size is then a cell of its own unless *)
(* size divides RingWord; a write as long as the ring leaves the memory.   *)
ASSUME ShortWrites == \A n \in RingLengths : 2 * n <= SizeInitial

VARIABLES
  data, size, head, fill,
  overrun,   \* a memcpy has left data: nothing more is said of what follows
  torn,      \* history: grown while the content was wrapped, and not empty since
  written,   \* history: bytes written
  content,   \* history: the bytes a first in, first out ring would hold
  read, want  \* history: what the last read returned, and what it should have

ringVars == <<data, size, head, fill, overrun, torn, written, content, read, want>>

Blank(n) == [p \in 0 .. n - 1 |-> 0]

RingInit ==
  /\ data = Blank(SizeInitial) /\ size = SizeInitial
  /\ head = 0 /\ fill = 0
  /\ overrun = FALSE /\ torn = FALSE
  /\ written = 0 /\ content = << >> /\ read = << >> /\ want = << >>

(* _rb_remain_in_seg and _rb_grow: when a write fits, and what it fits in. *)
Fits(n) == n <= size - fill
Grows(n) == ~Fits(n) /\ size + GrowFactor * n <= SizeMax
Overflows(n) == ~Fits(n) /\ ~Grows(n)

(* Deviation (used by mutation tests only): the new bytes begin one cell   *)
(* behind the tail.                                                        *)
WriteStartPast(h, f, s) == ((h + f + 1) % RingWord) % s
WriteStart(h, f, s) == ((h + f) % RingWord) % s

(* The ring a write of n bytes finds after _rb_grow or, if it may not      *)
(* grow, after rb_discard of as many bytes as are coming: fill wraps       *)
(* around when fewer are there.                                            *)
WriteSize(n) == IF Grows(n) THEN size + GrowFactor * n ELSE size
WriteHead(n) == IF Overflows(n) THEN (head + n) % size ELSE head
WriteFill(n) == IF Overflows(n) THEN (fill - n) % RingWord ELSE fill

(* Cell of byte k of a write of n bytes: one memcpy, or two.               *)
Cell(n, k) ==
  LET s    == WriteSize(n)
      tail == WriteStart(WriteHead(n), WriteFill(n), s)
      end  == ((WriteHead(n) + WriteFill(n) + n) % RingWord) % s
  IN  IF tail <= end \/ k < s - tail THEN tail + k ELSE k - (s - tail)

NewBytes(n) == [k \in 1 .. n |-> written + k]

(* rb_write_with_state.  realloc leaves the bytes where they are.          *)
rb_write_with_state(n) ==
  /\ ~overrun
  /\ written + n <= RingBytes
  /\ size' = WriteSize(n)
  /\ head' = WriteHead(n)
  /\ fill' = (WriteFill(n) + n) % RingWord
  /\ overrun' = \E k \in 0 .. n - 1 : Cell(n, k) >= WriteSize(n)
  /\ data' = [p \in 0 .. WriteSize(n) - 1 |->
                IF \E k \in 0 .. n - 1 : Cell(n, k) = p
                THEN written + 1 + CHOOSE k \in 0 .. n - 1 : Cell(n, k) = p
                ELSE IF p < size THEN data[p] ELSE 0]
  /\ content' = IF Overflows(n)
                THEN SubSeq(content \o NewBytes(n), n + 1, Len(content) + n)
                ELSE content \o NewBytes(n)
  /\ torn' = (torn \/ (Grows(n) /\ head + fill > size))
  /\ written' = written + n
  /\ UNCHANGED <<read, want>>

(* Deviation: the first part of a read that wraps around is a byte short.  *)
FirstReadShort == size - head - 1
FirstRead == size - head

(* The bytes rb_reader copies: one memcpy, or two.  Behind data is nothing *)
(* that was written.                                                       *)
ReadBytes(n) ==
  LET wraps == (head + n) % size <= head
      cell(k) == IF wraps /\ k >= FirstRead THEN k - FirstRead ELSE head + k
  IN  [k \in 1 .. n |-> IF cell(k - 1) < size THEN data[cell(k - 1)] ELSE 0]

Least(a, b) == IF a <= b THEN a ELSE b

Shrinks(f) == f = 0 /\ size > SizeInitial

(* rb_reader with the read head advanced: rb_read and rb_read_alloc.       *)
rb_read(len) ==
  /\ ~overrun /\ fill > 0
  /\ LET n == Least(len, fill)
     IN  /\ read' = ReadBytes(n)
         /\ want' = SubSeq(content, 1, n)
         /\ content' = SubSeq(content, n + 1, Len(content))
         /\ fill' = fill - n
         /\ \/ /\ Shrinks(fill - n)
               /\ size' = SizeInitial
               /\ data' = [p \in 0 .. SizeInitial - 1 |-> data[p]]
               /\ head' = 0
            \/ /\ ~Shrinks(fill - n)
               /\ head' = (head + n) % size
               /\ UNCHANGED <<size, data>>
         /\ torn' = (torn /\ fill > n)
  /\ UNCHANGED <<overrun, written>>

rb_peek(len) ==
  /\ ~overrun /\ fill > 0
  /\ read' = ReadBytes(Least(len, fill))
  /\ want' = SubSeq(content, 1, Least(len, fill))
  /\ UNCHANGED <<data, size, head, fill, overrun, torn, written, content>>

rb_discard(n) ==
  /\ ~overrun /\ n <= fill
  /\ head' = (head + n) % size
  /\ fill' = fill - n
  /\ content' = SubSeq(content, n + 1, Len(content))
  /\ torn' = (torn /\ fill > n)
  /\ UNCHANGED <<data, size, overrun, written, read, want>>

rb_empty ==
  /\ ~overrun
  /\ head' = 0 /\ fill' = 0
  /\ content' = << >>
  /\ torn' = FALSE
  /\ UNCHANGED <<data, size, overrun, written, read, want>>

RingNext ==
  \/ \E n \in RingLengths : rb_write_with_state(n) \/ rb_discard(n)
  \/ \E n \in RingLengths \cup {fill} : rb_read(n) \/ rb_peek(n)
  \/ rb_empty

RingSpec == RingInit /\ [][RingNext]_ringVars

------------------------------------------------------------------------------

(* Every variable has the type of its declaration in klringbuffer.h, and   *)
(* the read head is a cell of the memory.                                  *)
RingTypeOK ==
  /\ size \in Nat /\ SizeInitial <= size /\ size <= SizeMax
  /\ data \in [0 .. size - 1 -> Nat]
  /\ head \in 0 .. size - 1 /\ fill \in Nat
  /\ overrun \in BOOLEAN /\ torn \in BOOLEAN
  /\ written \in Nat
  /\ content \in Seq(Nat) /\ read \in Seq(Nat) /\ want \in Seq(Nat)

(* "Write data into the ring, growing it if necessary": the cells from     *)
(* head on hold the bytes written last and not yet read or discarded.      *)
ContentInOrder ==
  \A i \in 1 .. Len(content) : data[(head + i - 1) % size] = content[i]

(* rb_used counts the bytes that are there, and never more than the        *)
(* allocation has; and the cells hold them in order, wherever the ring has *)
(* wrapped around, overflowed, grown and shrunk before, unless it grew     *)
(* while its content was wrapped.  No write leaves the memory.             *)
RingIsFifo ==
  /\ ~overrun
  /\ fill = Len(content) /\ fill <= size
  /\ ~torn => ContentInOrder

(* With the same exception, rb_read and rb_peek return the oldest bytes,   *)
(* in order.                                                               *)
ReadsOldest ==
  [][~torn /\ <<read, want>>' # <<read, want>> => read' = want']_ringVars

==============================================================================

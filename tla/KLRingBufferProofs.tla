------------------------- MODULE KLRingBufferProofs -------------------------
(***************************************************************************)
(* Proofs about KLRingBuffer, for rings of any sizes and any sequence of   *)
(* calls that writes at most half of the ring at a time.                   *)
(***************************************************************************)
EXTENDS KLRingBuffer, SequenceTheorems, TLAPS

(* The cell of place i of a ring of s cells whose first place is h.        *)
Place(h, i, s) == (h + i) % s

LEMMA PlaceIs ==
  ASSUME NEW s \in Nat \ {0}, NEW h \in 0 .. s - 1, NEW i \in 0 .. s
  PROVE  /\ Place(h, i, s) = IF h + i < s THEN h + i ELSE h + i - s
         /\ Place(h, i, s) \in 0 .. s - 1
BY DEF Place

LEMMA ModSmall == ASSUME NEW s \in Nat \ {0}, NEW a \in Nat, a < s PROVE a % s = a
OBVIOUS

(* Up to a full round, different places of a ring are different cells.     *)
LEMMA PlacesDiffer ==
  ASSUME NEW s \in Nat \ {0}, NEW h \in 0 .. s - 1, NEW i \in 0 .. s - 1,
         NEW j \in 0 .. s - 1, i # j
  PROVE  Place(h, i, s) # Place(h, j, s)
<1>1. Place(h, i, s) = IF h + i < s THEN h + i ELSE h + i - s
  BY PlaceIs
<1>2. Place(h, j, s) = IF h + j < s THEN h + j ELSE h + j - s
  BY PlaceIs
<1> QED BY <1>1, <1>2

(* Moving the head by n moves every place by n.                            *)
LEMMA PlacesMove ==
  ASSUME NEW s \in Nat \ {0}, NEW h \in 0 .. s - 1, NEW n \in 0 .. s, NEW i \in 0 .. s,
         n + i <= s
  PROVE  Place(Place(h, n, s), i, s) = Place(h, n + i, s)
<1>1. Place(h, n, s) = (IF h + n < s THEN h + n ELSE h + n - s)
      /\ Place(h, n, s) \in 0 .. s - 1
  BY PlaceIs
<1>2. Place(h, n + i, s) = IF h + (n + i) < s THEN h + (n + i) ELSE h + (n + i) - s
  BY PlaceIs
<1>3. Place(Place(h, n, s), i, s) =
        IF Place(h, n, s) + i < s THEN Place(h, n, s) + i ELSE Place(h, n, s) + i - s
  BY <1>1, PlaceIs
<1> QED BY <1>1, <1>2, <1>3

(* The constants as numbers.                                               *)
LEMMA Sizes ==
  /\ SizeInitial \in Nat \ {0} /\ SizeMax \in Nat /\ SizeInitial <= SizeMax
  /\ RingWord \in Nat \ {0} /\ 2 * SizeMax < RingWord
  /\ \A n \in RingLengths : n \in Nat \ {0} /\ 2 * n <= SizeInitial
BY RingAssumption, ShortWrites

(* What a write finds: a ring with room for it behind fill.                *)
LEMMA Room ==
  ASSUME RingTypeOK, RingIsFifo, NEW n \in RingLengths
  PROVE  /\ WriteSize(n) \in Nat \ {0} /\ size <= WriteSize(n) /\ WriteSize(n) <= SizeMax
         /\ WriteHead(n) \in 0 .. WriteSize(n) - 1
         /\ WriteFill(n) \in Nat /\ WriteFill(n) + n <= WriteSize(n)
         /\ 2 * n <= WriteSize(n)
         /\ Overflows(n) => /\ WriteSize(n) = size /\ WriteHead(n) = Place(head, n, size)
                            /\ WriteFill(n) = fill - n
         /\ ~Overflows(n) => WriteHead(n) = head /\ WriteFill(n) = fill
         /\ ~Grows(n) => WriteSize(n) = size
<1>1. /\ n \in Nat \ {0} /\ size \in Nat \ {0} /\ head \in 0 .. size - 1 /\ fill \in 0 .. size
      /\ 2 * n <= size /\ size <= SizeMax /\ 2 * SizeMax < RingWord
      /\ SizeMax \in Nat /\ RingWord \in Nat \ {0}
  BY Sizes DEF RingTypeOK, RingIsFifo
<1>2. GrowFactor * n \in Nat /\ GrowFactor * n >= n
  BY <1>1, RingAssumption
<1>3. CASE Fits(n)
  BY <1>1, <1>3 DEF Fits, Grows, Overflows, WriteSize, WriteHead, WriteFill
<1>4. CASE Grows(n)
  BY <1>1, <1>2, <1>4 DEF Grows, Overflows, WriteSize, WriteHead, WriteFill
<1>5. CASE Overflows(n)
  <2>1. ~Grows(n) /\ n > size - fill
    BY <1>1, <1>5 DEF Overflows, Fits
  <2>2. fill - n \in Nat /\ fill - n < RingWord
    BY <1>1, <2>1
  <2>3. WriteFill(n) = fill - n
    BY <1>1, <1>5, <2>2, ModSmall DEF WriteFill
  <2>4. Place(head, n, size) \in 0 .. size - 1
    BY <1>1, PlaceIs
  <2>5. WriteHead(n) = Place(head, n, size)
    BY <1>5 DEF WriteHead, Place
  <2>6. WriteSize(n) = size
    BY <2>1 DEF WriteSize
  <2> QED BY <1>1, <1>5, <2>1, <2>2, <2>3, <2>4, <2>5, <2>6
<1> QED BY <1>3, <1>4, <1>5 DEF Overflows

(* Byte k of a write goes to the k-th cell behind fill.                    *)
LEMMA CellIs ==
  ASSUME RingTypeOK, RingIsFifo, NEW n \in RingLengths, NEW k \in 0 .. n - 1
  PROVE  /\ Cell(n, k) = Place(WriteHead(n), WriteFill(n) + k, WriteSize(n))
         /\ Cell(n, k) \in 0 .. WriteSize(n) - 1
<1> DEFINE s == WriteSize(n)
           h == WriteHead(n)
           f == WriteFill(n)
           tail == WriteStart(h, f, s)
           end  == ((h + f + n) % RingWord) % s
<1>1. /\ s \in Nat \ {0} /\ h \in 0 .. s - 1 /\ f \in Nat /\ f + n <= s /\ 2 * s < RingWord
      /\ n \in Nat \ {0} /\ 2 * n <= s /\ RingWord \in Nat \ {0}
  BY Room, Sizes
<1>2. Cell(n, k) = IF tail <= end \/ k < s - tail THEN tail + k ELSE k - (s - tail)
  BY DEF Cell
<1> HIDE DEF s, h, f
<1>3. tail = Place(h, f, s)
  <2>1. h + f \in Nat /\ h + f < RingWord
    BY <1>1
  <2>2. (h + f) % RingWord = h + f
    BY <1>1, <2>1, ModSmall
  <2> QED BY <2>2 DEF WriteStart, Place
<1>4. end = Place(h, f + n, s)
  <2>1. h + f + n \in Nat /\ h + f + n < RingWord /\ h + f + n = h + (f + n)
    BY <1>1
  <2>2. (h + f + n) % RingWord = h + f + n
    BY <1>1, <2>1, ModSmall
  <2> QED BY <2>1, <2>2 DEF Place
<1> HIDE DEF tail, end
<1>5. f \in 0 .. s /\ f + n \in 0 .. s /\ f + k \in 0 .. s
  BY <1>1
<1>6. /\ tail = IF h + f < s THEN h + f ELSE h + f - s
      /\ end = IF h + (f + n) < s THEN h + (f + n) ELSE h + (f + n) - s
      /\ Place(h, f + k, s) = IF h + (f + k) < s THEN h + (f + k) ELSE h + (f + k) - s
  BY <1>1, <1>3, <1>4, <1>5, PlaceIs
<1>7. Cell(n, k) = Place(h, f + k, s)
  BY <1>1, <1>2, <1>6
<1>8. Place(h, f + k, s) \in 0 .. s - 1
  BY <1>1, <1>5, PlaceIs
<1> QED BY <1>7, <1>8 DEF s, h, f

(* The memory after a write: the new bytes in their cells, and the old     *)
(* ones in all others.                                                     *)
LEMMA Stored ==
  ASSUME RingTypeOK, RingIsFifo, NEW n \in RingLengths, rb_write_with_state(n)
  PROVE  /\ data' \in [0 .. WriteSize(n) - 1 -> Nat]
         /\ \A k \in 0 .. n - 1 :
              data'[Place(WriteHead(n), WriteFill(n) + k, WriteSize(n))] = written + 1 + k
         /\ \A i \in 0 .. WriteFill(n) - 1 :
              Place(WriteHead(n), i, WriteSize(n)) < size
                => data'[Place(WriteHead(n), i, WriteSize(n))]
                     = data[Place(WriteHead(n), i, WriteSize(n))]
<1> DEFINE s == WriteSize(n)
           P(i) == Place(WriteHead(n), i, s)
           f == WriteFill(n)
           W(p) == \E k \in 0 .. n - 1 : Cell(n, k) = p
           K(p) == CHOOSE k \in 0 .. n - 1 : Cell(n, k) = p
<1>1. /\ s \in Nat \ {0} /\ WriteHead(n) \in 0 .. s - 1 /\ f \in Nat /\ f + n <= s
      /\ n \in Nat \ {0} /\ size \in Nat /\ size <= s
  BY Room, Sizes DEF RingTypeOK
<1>2. \A k \in 0 .. n - 1 : Cell(n, k) = P(f + k) /\ Cell(n, k) \in 0 .. s - 1
  BY CellIs
<1>3. data' = [p \in 0 .. s - 1 |->
                 IF W(p) THEN written + 1 + K(p) ELSE IF p < size THEN data[p] ELSE 0]
  BY DEF rb_write_with_state
<1>4. written \in Nat /\ data \in [0 .. size - 1 -> Nat]
  BY DEF RingTypeOK
<1>5. ASSUME NEW p, W(p) PROVE K(p) \in 0 .. n - 1 /\ Cell(n, K(p)) = p
  BY <1>5
<1> HIDE DEF K, P, s, f
<1>6. data' \in [0 .. s - 1 -> Nat]
  <2>1. ASSUME NEW p \in 0 .. s - 1
        PROVE  (IF W(p) THEN written + 1 + K(p) ELSE IF p < size THEN data[p] ELSE 0) \in Nat
    <3>1. CASE W(p)
      <4>1. K(p) \in Nat
        BY <1>1, <1>5, <3>1
      <4> QED BY <1>4, <3>1, <4>1
    <3>2. CASE ~W(p)
      BY <1>1, <1>4, <3>2
    <3> QED BY <3>1, <3>2
  <2> QED BY <1>3, <2>1
<1>7. ASSUME NEW k \in 0 .. n - 1 PROVE data'[P(f + k)] = written + 1 + k
  <2>1. W(P(f + k)) /\ P(f + k) \in 0 .. s - 1
    BY <1>2
  <2>2. K(P(f + k)) \in 0 .. n - 1 /\ P(f + K(P(f + k))) = P(f + k)
    BY <1>2, <1>5, <2>1
  <2>3. K(P(f + k)) = k
    <3> DEFINE j == K(P(f + k))
    <3>1. j \in 0 .. n - 1 /\ P(f + j) = P(f + k)
      BY <2>2
    <3> HIDE DEF j
    <3>2. f + j \in 0 .. s - 1 /\ f + k \in 0 .. s - 1
      BY <1>1, <3>1
    <3>3. f + j = f + k
      BY <1>1, <3>1, <3>2, PlacesDiffer DEF P
    <3>4. j = k
      BY <1>1, <3>1, <3>3
    <3> QED BY <3>4 DEF j
  <2> QED BY <1>3, <2>1, <2>3
<1>8. ASSUME NEW i \in 0 .. f - 1, P(i) < size PROVE data'[P(i)] = data[P(i)]
  <2>0. i \in 0 .. s - 1 /\ i \in 0 .. s
    BY <1>1
  <2>1. i \in 0 .. s - 1 /\ P(i) \in 0 .. s - 1
    BY <1>1, <2>0, PlaceIs DEF P
  <2>2. ASSUME NEW k \in 0 .. n - 1 PROVE Cell(n, k) # P(i)
    <3>1. f + k \in 0 .. s - 1 /\ f + k # i
      BY <1>1, <2>1
    <3> QED BY <1>1, <1>2, <2>1, <3>1, PlacesDiffer DEF P
  <2> QED BY <1>3, <1>8, <2>1, <2>2
<1> QED BY <1>6, <1>7, <1>8 DEF P, s, f

(* The bytes that come.                                                    *)
LEMMA Coming ==
  ASSUME RingTypeOK, NEW n \in RingLengths
  PROVE  /\ NewBytes(n) \in Seq(Nat) /\ Len(NewBytes(n)) = n
         /\ \A k \in 1 .. n : NewBytes(n)[k] = written + k
<1>1. n \in Nat /\ written \in Nat
  BY Sizes DEF RingTypeOK
<1> QED BY <1>1 DEF NewBytes

(* What the ring should hold after a write.                                *)
LEMMA Holds ==
  ASSUME RingTypeOK, RingIsFifo, NEW n \in RingLengths, rb_write_with_state(n)
  PROVE  /\ content' \in Seq(Nat) /\ Len(content') = WriteFill(n) + n
         /\ \A i \in 1 .. WriteFill(n) :
              content'[i] = content[IF Overflows(n) THEN n + i ELSE i]
         /\ \A k \in 0 .. n - 1 : content'[WriteFill(n) + k + 1] = written + 1 + k
<1> DEFINE all == content \o NewBytes(n)
<1>1. /\ n \in Nat \ {0} /\ content \in Seq(Nat) /\ fill = Len(content) /\ fill \in Nat
      /\ WriteFill(n) \in Nat /\ written \in Nat
      /\ Overflows(n) => WriteFill(n) = fill - n
      /\ ~Overflows(n) => WriteFill(n) = fill
  BY Room, Sizes DEF RingTypeOK, RingIsFifo
<1>2. /\ all \in Seq(Nat) /\ Len(all) = fill + n
      /\ \A i \in 1 .. fill : all[i] = content[i]
      /\ \A k \in 0 .. n - 1 : all[fill + k + 1] = written + 1 + k
  <2>1. /\ all \in Seq(Nat) /\ Len(all) = fill + n
        /\ \A i \in 1 .. fill + n :
             all[i] = IF i <= fill THEN content[i] ELSE NewBytes(n)[i - fill]
    <3>1. NewBytes(n) \in Seq(Nat) /\ Len(NewBytes(n)) = n
      BY Coming
    <3>2. /\ all \in Seq(Nat) /\ Len(all) = Len(content) + Len(NewBytes(n))
          /\ \A i \in 1 .. Len(content) + Len(NewBytes(n)) :
               all[i] = IF i <= Len(content) THEN content[i] ELSE NewBytes(n)[i - Len(content)]
      BY ONLY Zenon, <1>1, <3>1, ConcatProperties DEF all
    <3> HIDE DEF all
    <3> QED BY <1>1, <3>1, <3>2
  <2> HIDE DEF all
  <2>2. ASSUME NEW k \in 0 .. n - 1 PROVE all[fill + k + 1] = written + 1 + k
    <3>1. fill + k + 1 \in 1 .. fill + n /\ ~(fill + k + 1 <= fill)
          /\ fill + k + 1 - fill = k + 1 /\ k + 1 \in 1 .. n
      BY <1>1
    <3>2. all[fill + k + 1] = NewBytes(n)[k + 1]
      <4> DEFINE i == fill + k + 1
      <4>1. i \in 1 .. fill + n /\ ~(i <= fill) /\ i - fill = k + 1
        BY <1>1, <3>1
      <4> HIDE DEF i
      <4>2. all[i] = NewBytes(n)[i - fill]
        BY <2>1, <4>1
      <4> QED BY <4>1, <4>2 DEF i
    <3>3. NewBytes(n)[k + 1] = written + (k + 1)
      BY <3>1, Coming
    <3> QED BY <1>1, <3>2, <3>3
  <2>3. \A i \in 1 .. fill : all[i] = content[i]
    BY <1>1, <2>1
  <2> QED BY <2>1, <2>2, <2>3
<1> HIDE DEF all
<1>3. CASE ~Overflows(n)
  <2>1. content' = all
    BY <1>3 DEF rb_write_with_state, all
  <2> QED BY <1>1, <1>2, <1>3, <2>1
<1>4. CASE Overflows(n)
  <2>1. content' = SubSeq(all, n + 1, fill + n)
    BY <1>1, <1>4 DEF rb_write_with_state, all
  <2>2. \A i \in n + 1 .. fill + n : all[i] \in Nat
    BY <1>1, <1>2
  <2>3. n <= fill
    BY <1>1, <1>4
  <2>4. /\ content' \in Seq(Nat) /\ Len(content') = fill
        /\ \A i \in 1 .. fill : content'[i] = all[n + i]
    <3>1. n + 1 \in Int /\ fill + n \in Int /\ fill + n - (n + 1) + 1 = fill
          /\ (n + 1 <= fill + n \/ fill = 0)
      BY <1>1, <2>3
    <3>2. /\ SubSeq(all, n + 1, fill + n) \in Seq(Nat)
          /\ Len(SubSeq(all, n + 1, fill + n)) = fill
          /\ \A i \in 1 .. fill : SubSeq(all, n + 1, fill + n)[i] = all[n + 1 + i - 1]
      BY <1>1, <2>2, <2>3, <3>1, SubSeqProperties
    <3>3. \A i \in 1 .. fill : n + 1 + i - 1 = n + i
      BY <1>1
    <3> QED BY <2>1, <3>2, <3>3
  <2>5. \A i \in 1 .. fill - n : content'[i] = content[n + i]
    <3> SUFFICES ASSUME NEW i \in 1 .. fill - n PROVE content'[i] = content[n + i]
      OBVIOUS
    <3>1. i \in 1 .. fill /\ n + i \in 1 .. fill
      BY <1>1
    <3> QED BY <1>2, <2>4, <3>1
  <2>6. ASSUME NEW k \in 0 .. n - 1 PROVE content'[fill - n + k + 1] = written + 1 + k
    <3>1. fill - n + k + 1 \in 1 .. fill /\ n + (fill - n + k + 1) = fill + k + 1
      BY <1>1, <2>3
    <3> QED BY <1>2, <2>4, <3>1
  <2> QED BY <1>1, <1>4, <2>3, <2>4, <2>5, <2>6
<1> QED BY <1>3, <1>4

------------------------------------------------------------------------------
(* ContentInOrder, of any ring, and in the words of places.                *)
InOrder(d, c, h, s) == \A i \in 1 .. Len(c) : d[(h + i - 1) % s] = c[i]
InPlace(d, c, h, s) == \A i \in 0 .. Len(c) - 1 : d[Place(h, i, s)] = c[i + 1]

LEMMA OrderOfPlaces ==
  ASSUME NEW d, NEW c, NEW h \in Int, NEW s, Len(c) \in Nat
  PROVE  InOrder(d, c, h, s) <=> InPlace(d, c, h, s)
<1>2. \A i \in Int : (h + (i + 1) - 1) % s = Place(h, i, s)
  <2> SUFFICES ASSUME NEW i \in Int PROVE (h + (i + 1) - 1) % s = Place(h, i, s)
    OBVIOUS
  <2>1. h + (i + 1) - 1 = h + i
    OBVIOUS
  <2> QED BY <2>1 DEF Place
<1>3. ASSUME \A i \in 1 .. Len(c) : d[(h + i - 1) % s] = c[i], NEW i \in 0 .. Len(c) - 1
      PROVE  d[Place(h, i, s)] = c[i + 1]
  <2>1. i + 1 \in 1 .. Len(c) /\ i \in Int
    OBVIOUS
  <2>2. d[(h + (i + 1) - 1) % s] = c[i + 1]
    BY <1>3, <2>1
  <2> QED BY <1>2, <2>1, <2>2
<1>4. ASSUME \A i \in 0 .. Len(c) - 1 : d[Place(h, i, s)] = c[i + 1],
             NEW j \in 1 .. Len(c)
      PROVE  d[(h + j - 1) % s] = c[j]
  <2>1. j - 1 \in 0 .. Len(c) - 1 /\ (j - 1) + 1 = j /\ j - 1 \in Int
    OBVIOUS
  <2>2. d[Place(h, j - 1, s)] = c[j]
    BY <1>4, <2>1
  <2>3. (h + j - 1) % s = Place(h, j - 1, s)
    BY <1>2, <2>1
  <2> QED BY <2>2, <2>3
<1> QED BY <1>3, <1>4 DEF InOrder, InPlace

(* A write keeps the types and the order of the bytes.                     *)
LEMMA WriteStep ==
  ASSUME RingTypeOK, RingIsFifo, NEW n \in RingLengths, rb_write_with_state(n)
  PROVE  RingTypeOK' /\ RingIsFifo'
<1>1. /\ size' = WriteSize(n) /\ head' = WriteHead(n) /\ written' = written + n
      /\ fill' = (WriteFill(n) + n) % RingWord /\ UNCHANGED <<read, want>>
      /\ torn' = (torn \/ (Grows(n) /\ head + fill > size))
      /\ overrun' = \E k \in 0 .. n - 1 : Cell(n, k) >= WriteSize(n)
  BY DEF rb_write_with_state
<1>2. /\ WriteSize(n) \in Nat \ {0} /\ size <= WriteSize(n) /\ WriteSize(n) <= SizeMax
      /\ WriteHead(n) \in 0 .. WriteSize(n) - 1 /\ WriteFill(n) \in Nat
      /\ WriteFill(n) + n <= WriteSize(n) /\ n \in Nat \ {0}
      /\ SizeInitial \in Nat /\ SizeMax \in Nat /\ RingWord \in Nat \ {0} /\ 2 * SizeMax < RingWord
      /\ size \in Nat \ {0} /\ head \in 0 .. size - 1 /\ SizeInitial <= size
      /\ fill = Len(content) /\ fill \in 0 .. size
  BY Room, Sizes DEF RingTypeOK, RingIsFifo
<1>3. fill' = WriteFill(n) + n
  <2>1. WriteFill(n) + n \in Nat /\ WriteFill(n) + n < RingWord
    BY <1>2
  <2> QED BY <1>1, <1>2, <2>1, ModSmall
<1>4. overrun' = FALSE
  <2>1. \A k \in 0 .. n - 1 : ~(Cell(n, k) >= WriteSize(n))
    BY <1>2, CellIs
  <2> QED BY <1>1, <2>1
<1>5. RingTypeOK'
  <2>1. data' \in [0 .. size' - 1 -> Nat] /\ content' \in Seq(Nat)
    BY <1>1, Stored, Holds
  <2>2. /\ size' \in Nat /\ SizeInitial <= size' /\ size' <= SizeMax
        /\ head' \in 0 .. size' - 1 /\ fill' \in Nat
    <3>1. size' = WriteSize(n) /\ head' = WriteHead(n)
      BY <1>1
    <3> QED BY ONLY <1>2, <1>3, <3>1
  <2>3. torn' \in BOOLEAN /\ written' \in Nat /\ read' \in Seq(Nat) /\ want' \in Seq(Nat)
    BY <1>1, <1>2 DEF RingTypeOK
  <2> QED BY <1>4, <2>1, <2>2, <2>3 DEF RingTypeOK
<1>6. fill' = Len(content)' /\ fill' <= size'
  BY <1>1, <1>2, <1>3, Holds
<1>7. ASSUME ~torn', NEW i \in 0 .. Len(content') - 1
      PROVE  data'[Place(head', i, size')] = content'[i + 1]
  <2>0. ~torn /\ (Grows(n) => head + fill <= size)
    <3>1. ~torn /\ ~(Grows(n) /\ head + fill > size)
      BY <1>1, <1>7
    <3> QED BY <1>2, <3>1
  <2>1. \A j \in 0 .. fill - 1 : data[Place(head, j, size)] = content[j + 1]
    <3>1. head \in Int /\ Len(content) \in Nat
      BY <1>2
    <3>2. InOrder(data, content, head, size)
      BY <2>0 DEF RingIsFifo, ContentInOrder, InOrder
    <3>3. InPlace(data, content, head, size)
      BY <3>1, <3>2, OrderOfPlaces
    <3> QED BY <1>2, <3>3 DEF InPlace
  <2>2. i \in Int /\ 0 <= i /\ i < WriteFill(n) + n
    BY <1>2, <1>3, <1>6
  <2>3. CASE i >= WriteFill(n)
    <3>1. i - WriteFill(n) \in 0 .. n - 1 /\ WriteFill(n) + (i - WriteFill(n)) = i
          /\ WriteFill(n) + (i - WriteFill(n)) + 1 = i + 1
      BY <1>2, <2>2, <2>3
    <3>2. data'[Place(WriteHead(n), WriteFill(n) + (i - WriteFill(n)), WriteSize(n))]
            = written + 1 + (i - WriteFill(n))
      BY <3>1, Stored
    <3>3. content'[WriteFill(n) + (i - WriteFill(n)) + 1] = written + 1 + (i - WriteFill(n))
      BY <3>1, Holds
    <3> QED BY <1>1, <3>1, <3>2, <3>3
  <2>4. CASE i < WriteFill(n)
    <3>1. i \in 0 .. WriteFill(n) - 1 /\ i + 1 \in 1 .. WriteFill(n) /\ i \in 0 .. WriteSize(n)
      BY <1>2, <2>2, <2>4
    <3>2. content'[i + 1] = content[IF Overflows(n) THEN n + (i + 1) ELSE i + 1]
      BY <3>1, Holds
    <3>3. SUFFICES Place(WriteHead(n), i, WriteSize(n)) < size
                   /\ data[Place(WriteHead(n), i, WriteSize(n))] = content'[i + 1]
      BY <1>1, <3>1, Stored
    <3>4. CASE Overflows(n)
      <4>1. /\ WriteSize(n) = size /\ WriteHead(n) = Place(head, n, size)
            /\ WriteFill(n) = fill - n
        BY <3>4, Room
      <4>2. n + i \in 0 .. fill - 1 /\ (n + i) + 1 = n + (i + 1) /\ n \in 0 .. size
            /\ i \in 0 .. size /\ n + i <= size /\ n + i \in 0 .. size
        BY <1>2, <3>1, <4>1
      <4>3. Place(Place(head, n, size), i, size) = Place(head, n + i, size)
        BY <1>2, <4>2, PlacesMove
      <4>6. Place(head, n + i, size) \in 0 .. size - 1
        BY <1>2, <4>2, PlaceIs
      <4>4. Place(head, n + i, size) < size
        BY <1>2, <4>6
      <4>5. data[Place(head, n + i, size)] = content[(n + i) + 1]
        BY <2>1, <4>2
      <4> QED BY <3>2, <3>4, <4>1, <4>2, <4>3, <4>4, <4>5
    <3>5. CASE ~Overflows(n)
      <4>1. WriteHead(n) = head /\ WriteFill(n) = fill
        BY <3>5, Room
      <4>2. i \in 0 .. fill - 1 /\ i \in 0 .. size
        BY <1>2, <3>1, <4>1
      <4>3. data[Place(head, i, size)] = content'[i + 1]
        BY <2>1, <3>2, <3>5, <4>2
      <4>6. Place(head, i, size) \in 0 .. size - 1
        BY <1>2, <4>2, PlaceIs
      <4>4. Place(head, i, size) < size
        BY <1>2, <4>6
      <4>5. Place(head, i, WriteSize(n)) = Place(head, i, size)
        <5>1. CASE Grows(n)
          <6>1. head + i < size /\ head \in 0 .. WriteSize(n) - 1
            BY <1>2, <2>0, <4>2, <5>1
          <6>2. Place(head, i, size) = head + i
            BY <1>2, <4>2, <6>1, PlaceIs
          <6>4. head + i < WriteSize(n)
            BY <1>2, <3>1, <6>1
          <6>3. Place(head, i, WriteSize(n)) = head + i
            BY <1>2, <3>1, <6>1, <6>4, PlaceIs
          <6> QED BY <6>2, <6>3
        <5>2. CASE ~Grows(n)
          BY <5>2, Room
        <5> QED BY <5>1, <5>2
      <4> QED BY <4>1, <4>3, <4>4, <4>5
    <3> QED BY <3>4, <3>5
  <2> QED BY <1>2, <2>2, <2>3, <2>4
<1>8. ~torn' => ContentInOrder'
  <2>1. head' \in Int /\ Len(content') \in Nat
    <3>1. head' = WriteHead(n) /\ Len(content') = WriteFill(n) + n
      BY <1>1, <1>3, <1>6
    <3> QED BY ONLY <1>2, <3>1
  <2>2. ~torn' => InPlace(data', content', head', size')
    BY <1>7 DEF InPlace
  <2>3. ~torn' => InOrder(data', content', head', size')
    BY <2>1, <2>2, OrderOfPlaces
  <2> QED BY <2>3 DEF ContentInOrder, InOrder
<1> QED BY <1>4, <1>5, <1>6, <1>8 DEF RingIsFifo

------------------------------------------------------------------------------
(* What is left when the n oldest bytes go.                                *)
LEMMA Rest ==
  ASSUME NEW c \in Seq(Nat), NEW n \in 0 .. Len(c)
  PROVE  /\ SubSeq(c, n + 1, Len(c)) \in Seq(Nat)
         /\ Len(SubSeq(c, n + 1, Len(c))) = Len(c) - n
         /\ \A i \in 0 .. Len(c) - n - 1 : SubSeq(c, n + 1, Len(c))[i + 1] = c[n + i + 1]
<1>1. n + 1 \in Int /\ Len(c) \in Nat /\ \A i \in n + 1 .. Len(c) : c[i] \in Nat
  OBVIOUS
<1>2. /\ SubSeq(c, n + 1, Len(c)) \in Seq(Nat)
      /\ Len(SubSeq(c, n + 1, Len(c))) = IF n + 1 <= Len(c) THEN Len(c) - (n + 1) + 1 ELSE 0
      /\ \A i \in 1 .. Len(c) - (n + 1) + 1 :
           SubSeq(c, n + 1, Len(c))[i] = c[n + 1 + i - 1]
  BY <1>1, SubSeqProperties
<1>3. Len(SubSeq(c, n + 1, Len(c))) = Len(c) - n
  BY <1>1, <1>2
<1>4. ASSUME NEW i \in 0 .. Len(c) - n - 1
      PROVE  SubSeq(c, n + 1, Len(c))[i + 1] = c[n + i + 1]
  <2>1. i + 1 \in 1 .. Len(c) - (n + 1) + 1 /\ n + 1 + (i + 1) - 1 = n + i + 1
    BY <1>1
  <2> QED BY <1>2, <2>1
<1> QED BY <1>2, <1>3, <1>4

LEMMA RestInPlace ==
  ASSUME NEW d, NEW c \in Seq(Nat), NEW n \in 0 .. Len(c), NEW s \in Nat \ {0},
         NEW h \in 0 .. s - 1, Len(c) <= s, InPlace(d, c, h, s)
  PROVE  InPlace(d, SubSeq(c, n + 1, Len(c)), Place(h, n, s), s)
<1> DEFINE r == SubSeq(c, n + 1, Len(c))
<1>1. /\ Len(r) = Len(c) - n /\ Len(c) \in Nat
      /\ \A i \in 0 .. Len(c) - n - 1 : r[i + 1] = c[n + i + 1]
  BY Rest
<1> HIDE DEF r
<1>2. ASSUME NEW i \in 0 .. Len(r) - 1 PROVE d[Place(Place(h, n, s), i, s)] = r[i + 1]
  <2>1. i \in 0 .. Len(c) - n - 1 /\ n + i \in 0 .. Len(c) - 1 /\ n \in 0 .. s /\ i \in 0 .. s
        /\ n + i <= s
    BY <1>1
  <2>2. Place(Place(h, n, s), i, s) = Place(h, n + i, s)
    BY <2>1, PlacesMove
  <2>3. d[Place(h, n + i, s)] = c[n + i + 1]
    BY <2>1 DEF InPlace
  <2> QED BY <1>1, <2>1, <2>2, <2>3
<1> QED BY <1>2 DEF InPlace, r

(* The state of the ring, in the words of places.                          *)
LEMMA RingFacts ==
  ASSUME RingTypeOK, RingIsFifo
  PROVE  /\ size \in Nat \ {0} /\ head \in 0 .. size - 1 /\ fill \in 0 .. size
         /\ content \in Seq(Nat) /\ fill = Len(content)
         /\ SizeInitial \in Nat \ {0} /\ SizeInitial <= size
         /\ data \in [0 .. size - 1 -> Nat]
         /\ ~torn => InPlace(data, content, head, size)
<1>1. /\ size \in Nat \ {0} /\ head \in 0 .. size - 1 /\ fill \in 0 .. size
      /\ content \in Seq(Nat) /\ fill = Len(content)
      /\ SizeInitial \in Nat \ {0} /\ SizeInitial <= size
      /\ data \in [0 .. size - 1 -> Nat]
  BY Sizes DEF RingTypeOK, RingIsFifo
<1>2. ~torn => InOrder(data, content, head, size)
  BY DEF RingIsFifo, ContentInOrder, InOrder
<1>3. head \in Int /\ Len(content) \in Nat
  BY <1>1
<1>4. ~torn => InPlace(data, content, head, size)
  BY <1>2, <1>3, OrderOfPlaces
<1> QED BY <1>1, <1>4

(* A ring that has its head in a cell, its count right and its content in  *)
(* place is as it should be.                                               *)
LEMMA RingBack ==
  ASSUME /\ ~overrun' /\ fill' = Len(content') /\ fill' \in Nat /\ size' \in Nat
         /\ fill' <= size' /\ head' \in Int,
         ~torn' => InPlace(data', content', head', size')
  PROVE  RingIsFifo'
<1>1. Len(content') \in Nat
  OBVIOUS
<1>2. ~torn' => InOrder(data', content', head', size')
  BY <1>1, OrderOfPlaces
<1>3. ~torn' => ContentInOrder'
  BY <1>2 DEF InOrder, ContentInOrder
<1> QED BY <1>3 DEF RingIsFifo

(* rb_reader copies the n oldest bytes.                                    *)
LEMMA ReadIs ==
  ASSUME RingTypeOK, RingIsFifo, NEW n \in 1 .. fill
  PROVE  /\ ReadBytes(n) \in Seq(Nat) /\ SubSeq(content, 1, n) \in Seq(Nat)
         /\ ~torn => ReadBytes(n) = SubSeq(content, 1, n)
<1> DEFINE wraps == (head + n) % size <= head
           cell(k) == IF wraps /\ k >= size - head THEN k - (size - head) ELSE head + k
<1>1. /\ size \in Nat \ {0} /\ head \in 0 .. size - 1 /\ fill \in 0 .. size
      /\ content \in Seq(Nat) /\ fill = Len(content) /\ data \in [0 .. size - 1 -> Nat]
      /\ ~torn => InPlace(data, content, head, size)
  BY RingFacts
<1>2. n \in 0 .. size /\ n \in Nat \ {0}
  BY <1>1
<1>3. (head + n) % size = IF head + n < size THEN head + n ELSE head + n - size
  <2>1. Place(head, n, size) = IF head + n < size THEN head + n ELSE head + n - size
    BY <1>1, <1>2, PlaceIs
  <2> QED BY <2>1 DEF Place
<1>4. ReadBytes(n) = [k \in 1 .. n |-> IF cell(k - 1) < size THEN data[cell(k - 1)] ELSE 0]
  BY DEF ReadBytes, FirstRead
<1>5. wraps <=> head + n >= size
  <2> DEFINE e == (head + n) % size
  <2>1. e = IF head + n < size THEN head + n ELSE head + n - size
    BY <1>3
  <2> HIDE DEF e
  <2>2. e <= head <=> head + n >= size
    BY <1>1, <1>2, <2>1
  <2> QED BY <2>2 DEF e
<1> HIDE DEF wraps
<1>6. ASSUME NEW k \in 0 .. n - 1
      PROVE  cell(k) = Place(head, k, size) /\ cell(k) \in 0 .. size - 1
  <2>1. k \in 0 .. size
    BY <1>1, <1>2
  <2>2. /\ Place(head, k, size) = IF head + k < size THEN head + k ELSE head + k - size
        /\ Place(head, k, size) \in 0 .. size - 1
    BY <1>1, <2>1, PlaceIs
  <2> QED BY <1>1, <1>2, <1>5, <2>2
<1> HIDE DEF cell
<1>7. ASSUME NEW k \in 1 .. n
      PROVE  ReadBytes(n)[k] = data[Place(head, k - 1, size)] /\ ReadBytes(n)[k] \in Nat
  <2>1. k - 1 \in 0 .. n - 1
    BY <1>2
  <2>2. cell(k - 1) = Place(head, k - 1, size) /\ cell(k - 1) \in 0 .. size - 1
    BY <1>6, <2>1
  <2>3. cell(k - 1) < size
    BY <1>1, <2>2
  <2> QED BY <1>1, <1>4, <2>2, <2>3
<1>8. ReadBytes(n) \in Seq(Nat) /\ Len(ReadBytes(n)) = n
  BY <1>2, <1>4, <1>7
<1>9. /\ SubSeq(content, 1, n) \in Seq(Nat) /\ Len(SubSeq(content, 1, n)) = n
      /\ \A k \in 1 .. n : SubSeq(content, 1, n)[k] = content[k]
  <2>1. 1 \in Int /\ n \in Int /\ \A i \in 1 .. n : content[i] \in Nat
    BY <1>1, <1>2
  <2>2. /\ SubSeq(content, 1, n) \in Seq(Nat)
        /\ Len(SubSeq(content, 1, n)) = IF 1 <= n THEN n - 1 + 1 ELSE 0
        /\ \A i \in 1 .. n - 1 + 1 : SubSeq(content, 1, n)[i] = content[1 + i - 1]
    BY <2>1, SubSeqProperties
  <2>3. n - 1 + 1 = n /\ \A i \in 1 .. n : 1 + i - 1 = i
    BY <1>2
  <2> QED BY <1>2, <2>2, <2>3
<1>10. ASSUME ~torn PROVE ReadBytes(n) = SubSeq(content, 1, n)
  <2>1. ASSUME NEW k \in 1 .. n PROVE ReadBytes(n)[k] = SubSeq(content, 1, n)[k]
    <3>1. k - 1 \in 0 .. Len(content) - 1 /\ (k - 1) + 1 = k
      BY <1>1, <1>2
    <3>2. data[Place(head, k - 1, size)] = content[k]
      BY <1>1, <1>10, <3>1 DEF InPlace
    <3> QED BY <1>7, <1>9, <3>2
  <2> QED BY <1>8, <1>9, <2>1, SeqEqual
<1> QED BY <1>8, <1>9, <1>10

(* A read takes the oldest bytes and leaves the others in order.           *)
LEMMA TakeStep ==
  ASSUME RingTypeOK, RingIsFifo, NEW n \in 0 .. fill,
         /\ ~overrun' /\ fill' = fill - n
         /\ content' = SubSeq(content, n + 1, Len(content))
         /\ torn' = (torn /\ fill > n) /\ written' = written
         /\ read' \in Seq(Nat) /\ want' \in Seq(Nat) /\ overrun' \in BOOLEAN,
         \/ size' = size /\ data' = data /\ head' = (head + n) % size
         \/ /\ fill' = 0 /\ size' = SizeInitial /\ head' = 0
            /\ data' = [p \in 0 .. SizeInitial - 1 |-> data[p]]
  PROVE  RingTypeOK' /\ RingIsFifo'
<1>1. /\ size \in Nat \ {0} /\ head \in 0 .. size - 1 /\ fill \in 0 .. size
      /\ content \in Seq(Nat) /\ fill = Len(content) /\ data \in [0 .. size - 1 -> Nat]
      /\ SizeInitial \in Nat \ {0} /\ SizeInitial <= size
      /\ ~torn => InPlace(data, content, head, size)
  BY RingFacts
<1>2. n \in 0 .. Len(content) /\ n \in 0 .. size /\ n \in Nat
  BY <1>1
<1>3. /\ content' \in Seq(Nat) /\ Len(content') = fill - n
  BY <1>1, <1>2, Rest
<1>4. fill' \in Nat /\ fill' = Len(content') /\ fill' <= size
  BY <1>1, <1>2, <1>3
<1>5. /\ SizeMax \in Nat /\ SizeInitial <= SizeMax /\ size <= SizeMax
      /\ torn' \in BOOLEAN /\ written' \in Nat
  BY Sizes DEF RingTypeOK
<1>6. CASE size' = size /\ data' = data /\ head' = (head + n) % size
  <2>1. head' = Place(head, n, size)
    BY <1>6 DEF Place
  <2>2. head' \in 0 .. size - 1
    BY <1>1, <1>2, <2>1, PlaceIs
  <2>3. RingTypeOK'
    BY <1>1, <1>3, <1>4, <1>5, <1>6, <2>2 DEF RingTypeOK
  <2>4. ASSUME ~torn' PROVE InPlace(data', content', head', size')
    <3>1. CASE ~torn
      <4>1. Len(content) <= size /\ InPlace(data, content, head, size)
        BY <1>1, <3>1
      <4> QED BY <1>1, <1>2, <1>6, <2>1, <4>1, RestInPlace
    <3>2. CASE torn
      <4>1. Len(content') = 0
        <5>1. ~(fill > n)
          BY <2>4, <3>2
        <5> QED BY <1>1, <1>2, <1>3, <5>1
      <4> QED BY <4>1 DEF InPlace
    <3> QED BY <3>1, <3>2
  <2>5. head' \in Int /\ size' \in Nat /\ fill' <= size'
    BY <1>1, <1>4, <1>6, <2>2
  <2> QED BY <1>4, <2>3, <2>4, <2>5, RingBack
<1>7. CASE /\ fill' = 0 /\ size' = SizeInitial /\ head' = 0
           /\ data' = [p \in 0 .. SizeInitial - 1 |-> data[p]]
  <2>1. data' \in [0 .. SizeInitial - 1 -> Nat]
    <3>1. \A p \in 0 .. SizeInitial - 1 : p \in 0 .. size - 1
      BY <1>1
    <3>2. \A p \in 0 .. SizeInitial - 1 : data[p] \in Nat
      BY ONLY <1>1, <3>1
    <3> QED BY <1>7, <3>2
  <2>2. 0 \in 0 .. SizeInitial - 1
    BY <1>1
  <2>3. RingTypeOK'
    <3>1. /\ size' \in Nat /\ SizeInitial <= size' /\ size' <= SizeMax
          /\ data' \in [0 .. size' - 1 -> Nat] /\ head' \in 0 .. size' - 1
      <4>1. size' = SizeInitial /\ head' = 0
        BY <1>7
      <4>2. size' \in Nat /\ SizeInitial <= size' /\ size' <= SizeMax
        BY ONLY <1>1, <1>5, <4>1
      <4> QED BY ONLY <2>1, <2>2, <4>1, <4>2
    <3> QED BY <1>3, <1>4, <1>5, <3>1 DEF RingTypeOK
  <2>4. InPlace(data', content', head', size')
    BY <1>4, <1>7 DEF InPlace
  <2> QED BY <1>1, <1>4, <1>7, <2>3, <2>4, RingBack
<1> QED BY <1>6, <1>7

(* What a call of rb_read or rb_peek asks for.                             *)
LEMMA Asked ==
  ASSUME RingTypeOK, RingIsFifo, NEW len \in RingLengths \cup {fill}, fill > 0
  PROVE  Least(len, fill) \in 1 .. fill
<1>1. fill \in Nat /\ len \in Nat /\ len > 0
  BY Sizes DEF RingTypeOK
<1> QED BY <1>1 DEF Least

LEMMA ReadStep ==
  ASSUME RingTypeOK, RingIsFifo, NEW len \in RingLengths \cup {fill}, rb_read(len) \/ rb_peek(len)
  PROVE  RingTypeOK' /\ RingIsFifo' /\ (~torn => read' = want')
<1> DEFINE n == Least(len, fill)
<1>0. n \in 1 .. fill /\ n \in 0 .. fill
  <2>1. fill > 0 /\ fill \in Nat
    BY DEF rb_read, rb_peek, RingTypeOK
  <2>2. n \in 1 .. fill
    BY <2>1, Asked
  <2> QED BY <2>1, <2>2
<1>1. /\ read' = ReadBytes(n) /\ want' = SubSeq(content, 1, n)
      /\ ~overrun /\ overrun' = overrun /\ written' = written
  BY DEF rb_read, rb_peek
<1>2. /\ read' \in Seq(Nat) /\ want' \in Seq(Nat)
      /\ ~torn => read' = want'
  BY <1>0, <1>1, ReadIs
<1>3. CASE rb_read(len)
  <2>1. /\ content' = SubSeq(content, n + 1, Len(content)) /\ fill' = fill - n
        /\ torn' = (torn /\ fill > n)
        /\ \/ /\ Shrinks(fill - n) /\ size' = SizeInitial
              /\ data' = [p \in 0 .. SizeInitial - 1 |-> data[p]] /\ head' = 0
           \/ head' = (head + n) % size /\ size' = size /\ data' = data
    BY <1>3 DEF rb_read
  <2> HIDE DEF n
  <2>2. overrun' \in BOOLEAN /\ ~overrun'
    BY <1>1 DEF RingTypeOK
  <2>3. Shrinks(fill - n) => fill' = 0
    BY <2>1 DEF Shrinks
  <2>4. RingTypeOK' /\ RingIsFifo'
    BY <1>0, <1>1, <1>2, <2>1, <2>2, <2>3, TakeStep
  <2> QED BY <1>2, <2>4
<1>4. CASE rb_peek(len)
  <2>1. UNCHANGED <<data, size, head, fill, overrun, torn, written, content>>
    BY <1>4 DEF rb_peek
  <2>2. RingTypeOK'
    BY <1>2, <2>1 DEF RingTypeOK
  <2>3. RingIsFifo'
    BY <2>1 DEF RingIsFifo, ContentInOrder
  <2> QED BY <1>2, <2>2, <2>3
<1> QED BY <1>3, <1>4

LEMMA RingStep == RingTypeOK /\ RingIsFifo /\ [RingNext]_ringVars => RingTypeOK' /\ RingIsFifo'
<1> SUFFICES ASSUME RingTypeOK, RingIsFifo, [RingNext]_ringVars PROVE RingTypeOK' /\ RingIsFifo'
  OBVIOUS
<1>1. ASSUME NEW n \in RingLengths, rb_write_with_state(n) PROVE RingTypeOK' /\ RingIsFifo'
  BY <1>1, WriteStep
<1>2. ASSUME NEW n \in RingLengths, rb_discard(n) PROVE RingTypeOK' /\ RingIsFifo'
  <2>1. n \in 0 .. fill
    BY <1>2, Sizes DEF rb_discard, RingTypeOK
  <2>2. /\ ~overrun' /\ overrun' \in BOOLEAN /\ fill' = fill - n
        /\ content' = SubSeq(content, n + 1, Len(content))
        /\ torn' = (torn /\ fill > n) /\ written' = written
        /\ read' \in Seq(Nat) /\ want' \in Seq(Nat)
        /\ size' = size /\ data' = data /\ head' = (head + n) % size
    BY <1>2 DEF rb_discard, RingTypeOK
  <2> QED BY <2>1, <2>2, TakeStep
<1>3. ASSUME NEW len \in RingLengths \cup {fill}, rb_read(len) \/ rb_peek(len)
      PROVE  RingTypeOK' /\ RingIsFifo'
  BY <1>3, ReadStep
<1>4. CASE rb_empty
  <2>1. /\ ~overrun' /\ head' = 0 /\ fill' = 0 /\ content' = << >> /\ ~torn'
        /\ UNCHANGED <<data, size, overrun, written, read, want>>
    BY <1>4 DEF rb_empty
  <2>2. size \in Nat \ {0}
    BY RingFacts
  <2>3. 0 \in 0 .. size - 1 /\ 0 <= size
    BY <2>2
  <2>4. RingTypeOK'
    <3>1. torn' \in BOOLEAN /\ overrun' \in BOOLEAN
      BY <1>4 DEF RingTypeOK, rb_empty
    <3>2. content' \in Seq(Nat) /\ fill' \in Nat
      BY <2>1
    <3>3. head' \in 0 .. size' - 1
      BY <2>1, <2>3
    <3> QED BY <2>1, <3>1, <3>2, <3>3 DEF RingTypeOK
  <2>5. RingIsFifo'
    BY <2>1, <2>3 DEF RingIsFifo, ContentInOrder
  <2> QED BY <2>4, <2>5
<1>5. CASE UNCHANGED ringVars
  BY <1>5 DEF ringVars, RingTypeOK, RingIsFifo, ContentInOrder
<1> QED BY <1>1, <1>2, <1>3, <1>4, <1>5 DEF RingNext

LEMMA RingHolds == RingSpec => [](RingTypeOK /\ RingIsFifo)
<1>1. RingInit => RingTypeOK /\ RingIsFifo
  <2> SUFFICES ASSUME RingInit PROVE RingTypeOK /\ RingIsFifo
    OBVIOUS
  <2>1. /\ size = SizeInitial /\ head = 0 /\ fill = 0 /\ content = << >> /\ ~overrun
        /\ data \in [0 .. SizeInitial - 1 -> Nat] /\ written = 0
        /\ overrun = FALSE /\ torn = FALSE /\ read = << >> /\ want = << >>
    BY DEF RingInit, Blank
  <2>2. SizeInitial \in Nat /\ 0 \in 0 .. SizeInitial - 1 /\ SizeInitial <= SizeMax
    BY Sizes
  <2>3. RingTypeOK
    <3>1. content \in Seq(Nat) /\ read \in Seq(Nat) /\ want \in Seq(Nat)
      BY <2>1
    <3>2. overrun \in BOOLEAN /\ torn \in BOOLEAN
      BY <2>1
    <3>3. /\ size \in Nat /\ SizeInitial <= size /\ size <= SizeMax
          /\ data \in [0 .. size - 1 -> Nat] /\ head \in 0 .. size - 1 /\ fill \in Nat
          /\ written \in Nat
      BY <2>1, <2>2
    <3> QED BY <3>1, <3>2, <3>3 DEF RingTypeOK
  <2>4. RingIsFifo
    BY <2>1, <2>2 DEF RingIsFifo, ContentInOrder
  <2> QED BY <2>3, <2>4
<1> QED BY <1>1, RingStep, PTL DEF RingSpec

(* The ring is a first in, first out queue that drops its oldest bytes     *)
(* when it is full: no write leaves the memory, fill counts what is there, *)
(* and the cells from head on hold it in order, for every ring and every   *)
(* sequence of calls, unless the ring grew while its content was wrapped.  *)
THEOREM RingInOrder == RingSpec => []RingIsFifo
BY RingHolds, PTL

(* With the same exception, rb_read and rb_peek return the oldest bytes.   *)
THEOREM OldestRead == RingSpec => ReadsOldest
<1>1. RingTypeOK /\ RingIsFifo /\ [RingNext]_ringVars
        => [~torn /\ <<read, want>>' # <<read, want>> => read' = want']_ringVars
  <2> SUFFICES ASSUME RingTypeOK, RingIsFifo, RingNext, ~torn, <<read, want>>' # <<read, want>>
               PROVE  read' = want'
    OBVIOUS
  <2>1. PICK len \in RingLengths \cup {fill} : rb_read(len) \/ rb_peek(len)
    BY DEF RingNext, rb_write_with_state, rb_discard, rb_empty
  <2> QED BY <2>1, ReadStep
<1> QED BY <1>1, RingHolds, PTL DEF RingSpec, ReadsOldest
=============================================================================

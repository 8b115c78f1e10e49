-------------------------- MODULE SmootherPcrProofs --------------------------
(***************************************************************************)
(* Proofs about SmootherPcr, for every stream, pool size, chunk length,    *)
(* clock and number of resets.                                             *)
(***************************************************************************)
EXTENDS SmootherPcr, SequenceTheorems, TLAPS

(* C division, the PCR arithmetic of ts.h and the schedule are integers.   *)
LEMMA QuotInt == \A a \in Int, b \in Nat \ {0} : Quot(a, b) \in Int
BY DEF Quot

LEMMA ScrInt == \A a, b \in Int : ScrDiff(a, b) \in Int /\ ScrAdd(a, b) \in Int
BY SmootherAssumption DEF ScrDiff, ScrAdd

LEMMA LengthInt == \A e \in ItemRec : Length(e) \in Int /\ ItemReset(e) \in ItemRec
BY DEF Length, ItemRec, ItemReset, BlankItem

LEMMA ProductInt == \A a, b \in Int : a * b \in Int
OBVIOUS

(* The lists are short sequences of item numbers: what the list operations *)
(* of xorg-list do to their elements.                                      *)
LEMMA TailFacts ==
  ASSUME NEW S, NEW s \in Seq(S), s # << >>
  PROVE  /\ Head(s) = s[1] /\ s[1] \in S /\ Len(s) \in Nat \ {0}
         /\ Tail(s) \in Seq(S) /\ Len(Tail(s)) = Len(s) - 1
         /\ \A i \in 1 .. Len(Tail(s)) : Tail(s)[i] = s[i + 1]
BY HeadTailProperties, EmptySeq, ElementOfSeq, LenProperties

LEMMA SplitFacts ==
  ASSUME NEW S, NEW s \in Seq(S), NEW n \in 0 .. Len(s)
  PROVE  /\ SubSeq(s, 1, n) \in Seq(S) /\ Len(SubSeq(s, 1, n)) = n
         /\ \A i \in 1 .. n : SubSeq(s, 1, n)[i] = s[i]
         /\ SubSeq(s, n + 1, Len(s)) \in Seq(S)
         /\ Len(SubSeq(s, n + 1, Len(s))) = Len(s) - n
         /\ \A i \in 1 .. Len(s) - n : SubSeq(s, n + 1, Len(s))[i] = s[n + i]
<1>1. Len(s) \in Nat /\ \A i \in 1 .. Len(s) : s[i] \in S
  BY LenProperties, ElementOfSeq
<1>2. /\ SubSeq(s, 1, n) \in Seq(S) /\ Len(SubSeq(s, 1, n)) = n
      /\ \A i \in 1 .. n : SubSeq(s, 1, n)[i] = s[i]
  <2>1. \A i \in 1 .. n : s[i] \in S
    BY <1>1
  <2>2. /\ SubSeq(s, 1, n) \in Seq(S)
        /\ Len(SubSeq(s, 1, n)) = IF 1 <= n THEN n - 1 + 1 ELSE 0
        /\ \A i \in 1 .. n - 1 + 1 : SubSeq(s, 1, n)[i] = s[1 + i - 1]
    BY <1>1, <2>1, SubSeqProperties
  <2>3. QED
    BY <1>1, <2>2
<1>3. /\ SubSeq(s, n + 1, Len(s)) \in Seq(S)
      /\ Len(SubSeq(s, n + 1, Len(s))) = Len(s) - n
      /\ \A i \in 1 .. Len(s) - n : SubSeq(s, n + 1, Len(s))[i] = s[n + i]
  <2>1. \A i \in n + 1 .. Len(s) : s[i] \in S
    BY <1>1
  <2>2. n + 1 \in Int /\ Len(s) \in Int
    BY <1>1
  <2>3. /\ SubSeq(s, n + 1, Len(s)) \in Seq(S)
        /\ Len(SubSeq(s, n + 1, Len(s)))
             = IF n + 1 <= Len(s) THEN Len(s) - (n + 1) + 1 ELSE 0
        /\ \A i \in 1 .. Len(s) - (n + 1) + 1 :
             SubSeq(s, n + 1, Len(s))[i] = s[n + 1 + i - 1]
    BY <2>1, <2>2, SubSeqProperties
  <2>4. QED
    BY <1>1, <2>3
<1>4. QED
  BY <1>2, <1>3

(* xorg_list_append of one list to another, and cutting a list in two, in  *)
(* the terms of ItemsInOnePlace.                                           *)
LEMMA JoinFacts ==
  ASSUME NEW S, NEW s \in Seq(S), NEW t \in Seq(S),
         NoRepeats(s), NoRepeats(t), Apart(s, t)
  PROVE  /\ s \o t \in Seq(S) /\ Len(s \o t) = Len(s) + Len(t)
         /\ NoRepeats(s \o t)
         /\ \A x : In(x, s \o t) <=> In(x, s) \/ In(x, t)
<1> DEFINE u == s \o t
<1>1. /\ u \in Seq(S) /\ Len(u) = Len(s) + Len(t) /\ Len(s) \in Nat /\ Len(t) \in Nat
      /\ \A i \in 1 .. Len(s) + Len(t) :
           u[i] = IF i <= Len(s) THEN s[i] ELSE t[i - Len(s)]
  BY ConcatProperties, LenProperties
<1> HIDE DEF u
<1>2. \A i \in 1 .. Len(u) :
        \/ i \in 1 .. Len(s) /\ u[i] = s[i]
        \/ i - Len(s) \in 1 .. Len(t) /\ u[i] = t[i - Len(s)]
  BY <1>1
<1>3. NoRepeats(u)
  <2> SUFFICES ASSUME NEW i \in 1 .. Len(u), NEW j \in 1 .. Len(u), u[i] = u[j]
               PROVE  i = j
    BY DEF NoRepeats
  <2>1. CASE i \in 1 .. Len(s) /\ j \in 1 .. Len(s)
    BY <1>1, <2>1 DEF NoRepeats
  <2>2. CASE i - Len(s) \in 1 .. Len(t) /\ j - Len(s) \in 1 .. Len(t)
    <3>1. u[i] = t[i - Len(s)] /\ u[j] = t[j - Len(s)]
      BY <1>1, <2>2
    <3>2. i - Len(s) = j - Len(s)
      BY <2>2, <3>1 DEF NoRepeats
    <3>3. QED
      BY <1>1, <3>2
  <2>3. CASE i \in 1 .. Len(s) /\ j - Len(s) \in 1 .. Len(t)
    <3>1. u[i] = s[i] /\ u[j] = t[j - Len(s)]
      BY <1>1, <2>3
    <3>2. QED
      BY <2>3, <3>1 DEF Apart
  <2>4. CASE j \in 1 .. Len(s) /\ i - Len(s) \in 1 .. Len(t)
    <3>1. u[j] = s[j] /\ u[i] = t[i - Len(s)]
      BY <1>1, <2>4
    <3>2. QED
      BY <2>4, <3>1 DEF Apart
  <2>5. QED
    BY <1>2, <2>1, <2>2, <2>3, <2>4
<1>4. ASSUME NEW x PROVE In(x, u) <=> In(x, s) \/ In(x, t)
  <2>1. In(x, u) => In(x, s) \/ In(x, t)
    BY <1>2 DEF In
  <2>2. In(x, s) => In(x, u)
    <3>1. \A i \in 1 .. Len(s) : i \in 1 .. Len(u) /\ u[i] = s[i]
      BY <1>1
    <3>2. QED
      BY <3>1 DEF In
  <2>3. In(x, t) => In(x, u)
    <3>1. \A i \in 1 .. Len(t) : i + Len(s) \in 1 .. Len(u) /\ u[i + Len(s)] = t[i]
      BY <1>1
    <3>2. QED
      BY <3>1 DEF In
  <2>4. QED
    BY <2>1, <2>2, <2>3
<1>5. QED
  BY <1>1, <1>3, <1>4 DEF u

LEMMA CutFacts ==
  ASSUME NEW S, NEW s \in Seq(S), NEW n \in 0 .. Len(s), NoRepeats(s)
  PROVE  LET a == SubSeq(s, 1, n)
             b == SubSeq(s, n + 1, Len(s))
         IN  /\ NoRepeats(a) /\ NoRepeats(b) /\ Apart(b, a)
             /\ \A x : In(x, s) <=> In(x, a) \/ In(x, b)
<1> DEFINE a == SubSeq(s, 1, n)
           b == SubSeq(s, n + 1, Len(s))
<1>1. /\ Len(s) \in Nat /\ n \in Nat /\ n <= Len(s)
      /\ Len(a) = n /\ Len(b) = Len(s) - n
      /\ \A i \in 1 .. Len(a) : i \in 1 .. Len(s) /\ a[i] = s[i] /\ i <= n
      /\ \A i \in 1 .. Len(b) : n + i \in 1 .. Len(s) /\ b[i] = s[n + i] /\ n + i > n
  BY SplitFacts, LenProperties
<1> HIDE DEF a, b
<1>2. NoRepeats(a)
  BY <1>1 DEF NoRepeats
<1>3. NoRepeats(b)
  <2> SUFFICES ASSUME NEW i \in 1 .. Len(b), NEW j \in 1 .. Len(b), b[i] = b[j]
               PROVE  i = j
    BY DEF NoRepeats
  <2>1. n + i \in 1 .. Len(s) /\ n + j \in 1 .. Len(s) /\ s[n + i] = s[n + j]
    BY <1>1
  <2>2. n + i = n + j
    BY <2>1, Zenon DEF NoRepeats
  <2>3. QED
    BY <1>1, <2>2
<1>4. Apart(b, a)
  <2> SUFFICES ASSUME NEW i \in 1 .. Len(b), NEW j \in 1 .. Len(a), b[i] = a[j]
               PROVE  FALSE
    BY DEF Apart
  <2>1. n + i = j
    BY <1>1 DEF NoRepeats
  <2>2. QED
    BY <1>1, <2>1
<1>5. ASSUME NEW x PROVE In(x, s) <=> In(x, a) \/ In(x, b)
  <2>1. In(x, a) \/ In(x, b) => In(x, s)
    BY <1>1 DEF In
  <2>2. ASSUME In(x, s) PROVE In(x, a) \/ In(x, b)
    <3>1. PICK i \in 1 .. Len(s) : s[i] = x
      BY <2>2 DEF In
    <3>2. CASE i <= n
      BY <1>1, <3>1, <3>2 DEF In
    <3>3. CASE i > n
      <4>1. i - n \in 1 .. Len(b) /\ n + (i - n) = i
        BY <1>1, <3>3
      <4>2. b[i - n] = x
        BY <1>1, <3>1, <4>1
      <4>3. QED
        BY <4>1, <4>2 DEF In
    <3>4. QED
      BY <1>1, <3>2, <3>3
  <2>3. QED
    BY <2>1, <2>2
<1>6. QED
  BY <1>2, <1>3, <1>4, <1>5 DEF a, b

(* Two lists are apart when they have no common element.                   *)
LEMMA ApartIn ==
  ASSUME NEW s, NEW t
  PROVE  Apart(s, t) <=> \A x : ~(In(x, s) /\ In(x, t))
BY DEF Apart, In

(* The packets of an item, as a sequence.                                  *)
LEMMA RunFacts ==
  ASSUME NEW a \in Int, NEW n \in Int
  PROVE  LET run == [i \in 1 .. n |-> a + i - 1]
         IN  run \in Seq(Int) /\ Len(run) = IF n > 0 THEN n ELSE 0
<1>1. CASE n > 0
  <2>1. n \in Nat
    BY <1>1
  <2>2. QED
    BY <1>1, <2>1
<1>2. CASE ~(n > 0)
  <2>1. 1 .. n = 1 .. 0
    BY <1>2
  <2>2. [i \in 1 .. n |-> a + i - 1] = << >>
    BY <2>1
  <2>3. QED
    BY <1>2, <2>2, EmptySeq
<1>3. QED
  BY <1>1, <1>2

------------------------------------------------------------------------------
(* The first inductive invariant: types, control state and places.  Types  *)
(* alone are not inductive: the item a thread works on must be on its      *)
(* list, and a list must not change under it.                              *)
PlaceInv ==
  TypeOK /\ WriterShape /\ ThreadShape /\ ItemsInOnePlace /\ CountersMatch

LEMMA PlaceInit == Init => PlaceInv
<1> SUFFICES ASSUME Init PROVE PlaceInv
  OBVIOUS
<1> USE SmootherAssumption DEF Init
<1>1. TypeOK
  <2>1. stream \in Seq(0 .. MaxScr \cup {NoPcr})
    OBVIOUS
  <2>2. iv \in IntervalRec
    BY DEF IntervalRec, NoInterval
  <2>3. BlankItem \in ItemRec
    BY DEF ItemRec, BlankItem
  <2>4. item \in [1 .. totalItems -> ItemRec] /\ totalItems \in Nat
    BY <2>3
  <2>5. itemsFree \in Seq(1 .. totalItems)
    OBVIOUS
  <2>6. itemsBusy \in Seq(1 .. totalItems) /\ loclist \in Seq(1 .. totalItems)
        /\ sent \in Seq(Int)
    OBVIOUS
  <2>7. hand \in 0 .. totalItems
    BY DEF NoItem
  <2>8. wpc \in WriterPc /\ tpc \in ThreadPc
    BY DEF WriterPc, ThreadPc
  <2>9. /\ blockingWrites \in BOOLEAN /\ didPcrReset \in BOOLEAN
        /\ threadRunning \in BOOLEAN /\ threadTerminate \in BOOLEAN
        /\ threadTerminated \in BOOLEAN
    OBVIOUS
  <2>10. /\ baStart \in Nat /\ baEnd \in Nat
         /\ pcrFirst \in Int /\ walltimeFirst \in Int /\ pcrTail \in Int
         /\ pcrHead \in Int /\ lastPcrResetTime \in Int /\ ipptLast \in Int
         /\ latencyHwm \in Int /\ qFreeCount \in Int /\ qBusyCount \in Int
         /\ totalUserPackets \in Int /\ seqno \in Nat /\ last_seqno \in Int
         /\ lpos \in Nat /\ now \in Int /\ resets \in Nat
    BY DEF Unset
  <2>11. QED
    BY <2>1, <2>2, <2>4, <2>5, <2>6, <2>7, <2>8, <2>9, <2>10 DEF TypeOK
<1>2. WriterShape /\ ThreadShape
  BY DEF WriterShape, ThreadShape, Filling, Chunking, NoItem
<1>3. ItemsInOnePlace /\ CountersMatch
  BY DEF ItemsInOnePlace, CountersMatch, NoRepeats, Apart, In, NoItem, Freed
<1>4. QED
  BY <1>1, <1>2, <1>3 DEF PlaceInv

(* The steps that leave the lists and the items alone.                     *)
LEMMA PlaceQuiet ==
  ASSUME PlaceInv,
         \/ SetBlockingWrites \/ Write \/ Scan \/ ScanBail \/ StampWalltime
         \/ FinishInterval \/ FreeCall \/ FreeWait \/ ThreadStart \/ ThreadLoop
         \/ ThreadExit \/ Emit \/ Tick \/ UNCHANGED vars
  PROVE  PlaceInv'
<1> USE DEF vars, writer, timebase, pacing, pool, queue, account, output, flags, world
<1>1. UNCHANGED <<itemsFree, itemsBusy, loclist, totalItems, item, hand,
                  qFreeCount, qBusyCount, lpos>>
  BY DEF SetBlockingWrites, Write, Scan, ScanBail, StampWalltime, FinishInterval,
         FreeCall, FreeWait, ThreadStart, ThreadLoop, ThreadExit, Emit, Tick
<1>2. Freed' = Freed
  BY DEF SetBlockingWrites, Write, Scan, ScanBail, StampWalltime, FinishInterval,
         FreeCall, FreeWait, ThreadStart, ThreadLoop, ThreadExit, Emit, Tick, Freed
<1>3. ItemsInOnePlace' /\ CountersMatch'
  BY <1>1, <1>2 DEF PlaceInv, ItemsInOnePlace, CountersMatch, NoRepeats, Apart, In
<1>4. CASE SetBlockingWrites
  <2>1. TypeOK'
    BY <1>1, <1>4 DEF SetBlockingWrites, PlaceInv, TypeOK
  <2>2. WriterShape'
    BY <1>1, <1>4 DEF SetBlockingWrites, PlaceInv, WriterShape, Filling, Chunking
  <2>3. ThreadShape'
    BY <1>1, <1>4 DEF SetBlockingWrites, PlaceInv, ThreadShape
  <2>4. QED
    BY <1>3, <2>1, <2>2, <2>3 DEF PlaceInv
<1>5. CASE Write
  <2>1. TypeOK'
    BY <1>1, <1>5 DEF Write, PlaceInv, TypeOK, WriterPc
  <2>2. WriterShape'
    BY <1>1, <1>5 DEF Write, PlaceInv, TypeOK, WriterShape, Filling, Chunking
  <2>3. ThreadShape'
    BY <1>1, <1>5 DEF Write, PlaceInv, ThreadShape
  <2>4. QED
    BY <1>3, <2>1, <2>2, <2>3 DEF PlaceInv
<1>6. CASE Scan
  <2>1. PICK f \in baStart + 1 .. baEnd, s \in baStart + 1 .. baEnd :
          /\ FirstTwoPcrs(f, s)
          /\ iv' = [first |-> f, end |-> s, cur |-> f, pcr |-> stream[f],
                    ippt |-> IF ScrDiff(stream[f], stream[s]) > JumpTicks THEN ipptLast
                             ELSE Quot(ScrDiff(stream[f], stream[s]), s - f),
                    more |-> \E p \in s + 1 .. baEnd : stream[p] # NoPcr]
    BY <1>6 DEF Scan
  <2>2. f \in 1 .. Len(stream) /\ s \in 1 .. Len(stream) /\ f < s /\ baStart < f
    <3>1. baStart \in Nat /\ baEnd \in Nat /\ Len(stream) \in Nat
      BY LenProperties DEF PlaceInv, TypeOK
    <3>2. baEnd <= Len(stream)
      BY DEF PlaceInv, WriterShape
    <3>3. f < s /\ baStart < f
      BY <2>1 DEF FirstTwoPcrs
    <3>4. QED
      BY <3>1, <3>2, <3>3
  <2>3. stream[f] \in Int /\ stream[s] \in Int
    <3>1. stream \in Seq(0 .. MaxScr \cup {NoPcr})
      BY DEF PlaceInv, TypeOK
    <3>2. stream[f] \in 0 .. MaxScr \cup {NoPcr} /\ stream[s] \in 0 .. MaxScr \cup {NoPcr}
      BY <2>2, <3>1, ElementOfSeq
    <3>3. QED
      BY <3>2, SmootherAssumption DEF NoPcr
  <2>4. s - f \in Nat \ {0}
    BY <2>2
  <2>5. iv' \in IntervalRec
    <3>1. ScrDiff(stream[f], stream[s]) \in Int
      BY <2>3, ScrInt
    <3>2. Quot(ScrDiff(stream[f], stream[s]), s - f) \in Int
      BY <2>4, <3>1, QuotInt
    <3>3. ipptLast \in Int
      BY DEF PlaceInv, TypeOK
    <3>4. f \in Int /\ s \in Int
      BY <2>2
    <3>5. QED
      BY <2>1, <2>3, <3>2, <3>3, <3>4 DEF IntervalRec
  <2>6. TypeOK'
    BY <1>1, <1>6, <2>5, ScrInt DEF Scan, PlaceInv, TypeOK, WriterPc
  <2>7. WriterShape' /\ ThreadShape'
    BY <1>1, <1>6, <2>1, <2>2 DEF Scan, PlaceInv, TypeOK, WriterShape, ThreadShape,
       Filling, Chunking
  <2>8. QED
    BY <1>3, <2>6, <2>7 DEF PlaceInv
<1>7. CASE ScanBail
  <2>1. TypeOK'
    BY <1>1, <1>7 DEF ScanBail, PlaceInv, TypeOK, WriterPc
  <2>2. WriterShape'
    BY <1>1, <1>7 DEF ScanBail, PlaceInv, WriterShape, Filling, Chunking
  <2>3. ThreadShape'
    BY <1>1, <1>7 DEF ScanBail, PlaceInv, ThreadShape
  <2>4. QED
    BY <1>3, <2>1, <2>2, <2>3 DEF PlaceInv
<1>8. CASE StampWalltime
  <2>1. hand \in 1 .. totalItems /\ item[hand] \in ItemRec
    BY <1>8 DEF StampWalltime, PlaceInv, TypeOK, WriterShape, Filling, NoItem
  <2>2. TypeOK'
    BY <1>1, <1>8, <2>1 DEF StampWalltime, PlaceInv, TypeOK, WriterPc, ItemRec
  <2>3. QED
    BY <1>1, <1>3, <1>8, <2>2 DEF StampWalltime, PlaceInv, WriterShape, ThreadShape,
       Filling, Chunking
<1>9. CASE FinishInterval
  <2>1. iv.end \in Nat /\ baStart < iv.end /\ iv.end <= baEnd /\ baEnd \in Nat
        /\ baStart \in Nat
    BY <1>9 DEF FinishInterval, PlaceInv, TypeOK, WriterShape, IntervalRec
  <2>2. baStart' \in Nat /\ baStart' <= baEnd /\ baEnd' = baEnd /\ stream' = stream
    BY <1>9, <2>1 DEF FinishInterval, TrimPoint
  <2>3. iv' \in IntervalRec
    BY <1>9 DEF FinishInterval, IntervalRec, NoInterval
  <2>4. iv.ippt \in Int
    BY DEF PlaceInv, TypeOK, IntervalRec
  <2>5. TypeOK'
    <3>1. pcrFirst' \in Int /\ lastPcrResetTime' \in Int /\ ipptLast' \in Int
      BY <1>9, <2>4 DEF FinishInterval, PlaceInv, TypeOK, Unset
    <3>2. wpc' \in WriterPc /\ didPcrReset' \in BOOLEAN
      BY <1>9 DEF FinishInterval, WriterPc
    <3>3. QED
      BY <1>1, <1>9, <2>2, <2>3, <3>1, <3>2 DEF FinishInterval, PlaceInv, TypeOK
  <2>6. WriterShape' /\ ThreadShape'
    BY <1>1, <1>9, <2>2 DEF FinishInterval, PlaceInv, WriterShape, ThreadShape,
       Filling, Chunking
  <2>7. QED
    BY <1>3, <2>5, <2>6 DEF PlaceInv
<1>10. CASE FreeCall
  <2>1. TypeOK'
    BY <1>1, <1>10 DEF FreeCall, PlaceInv, TypeOK, WriterPc
  <2>2. WriterShape'
    BY <1>1, <1>10 DEF FreeCall, PlaceInv, WriterShape, Filling, Chunking
  <2>3. ThreadShape'
    BY <1>1, <1>10 DEF FreeCall, PlaceInv, ThreadShape
  <2>4. QED
    BY <1>3, <2>1, <2>2, <2>3 DEF PlaceInv
<1>11. CASE FreeWait
  <2>1. TypeOK'
    BY <1>1, <1>11 DEF FreeWait, PlaceInv, TypeOK, WriterPc
  <2>2. WriterShape'
    BY <1>1, <1>11 DEF FreeWait, PlaceInv, WriterShape, Filling, Chunking
  <2>3. ThreadShape'
    BY <1>1, <1>11 DEF FreeWait, PlaceInv, ThreadShape
  <2>4. QED
    BY <1>3, <2>1, <2>2, <2>3 DEF PlaceInv
<1>12a. CASE ThreadStart
  <2>1. TypeOK'
    BY <1>1, <1>12a DEF ThreadStart, PlaceInv, TypeOK, ThreadPc
  <2>2. WriterShape'
    BY <1>1, <1>12a DEF ThreadStart, PlaceInv, WriterShape, Filling, Chunking
  <2>3. ThreadShape'
    BY <1>1, <1>12a DEF ThreadStart, PlaceInv, ThreadShape
  <2>4. QED
    BY <1>3, <2>1, <2>2, <2>3 DEF PlaceInv
<1>12b. CASE ThreadLoop
  <2>1. TypeOK'
    BY <1>1, <1>12b DEF ThreadLoop, PlaceInv, TypeOK, ThreadPc
  <2>2. WriterShape'
    BY <1>1, <1>12b DEF ThreadLoop, PlaceInv, WriterShape, Filling, Chunking
  <2>3. ThreadShape'
    BY <1>1, <1>12b DEF ThreadLoop, PlaceInv, ThreadShape
  <2>4. QED
    BY <1>3, <2>1, <2>2, <2>3 DEF PlaceInv
<1>12c. CASE ThreadExit
  <2>1. TypeOK'
    BY <1>1, <1>12c DEF ThreadExit, PlaceInv, TypeOK, ThreadPc
  <2>2. WriterShape'
    BY <1>1, <1>12c DEF ThreadExit, PlaceInv, WriterShape, Filling, Chunking
  <2>3. ThreadShape'
    BY <1>1, <1>12c DEF ThreadExit, PlaceInv, ThreadShape
  <2>4. QED
    BY <1>3, <2>1, <2>2, <2>3 DEF PlaceInv
<1>13. CASE Emit
  <2> DEFINE e == item[loclist[lpos]]
             run == [i \in 1 .. Length(e) |-> e.from + i - 1]
  <2>1. lpos \in 1 .. Len(loclist)
    BY <1>13 DEF Emit, PlaceInv, ThreadShape
  <2>2. e \in ItemRec
    BY <2>1, ElementOfSeq DEF PlaceInv, TypeOK
  <2>3. run \in Seq(Int)
    BY <2>2, LengthInt, RunFacts DEF ItemRec
  <2>4. sent' = sent \o run
    BY <1>13 DEF Emit
  <2>5. sent' \in Seq(Int)
    BY <2>3, <2>4, ConcatProperties DEF PlaceInv, TypeOK
  <2>6. TypeOK'
    BY <1>1, <1>13, <2>5 DEF Emit, PlaceInv, TypeOK, ThreadPc
  <2>7. QED
    BY <1>1, <1>3, <1>13, <2>6 DEF Emit, PlaceInv, WriterShape, ThreadShape
<1>14. CASE Tick
  <2>1. TypeOK'
    BY <1>1, <1>14 DEF Tick, PlaceInv, TypeOK
  <2>2. WriterShape'
    BY <1>1, <1>14 DEF Tick, PlaceInv, WriterShape, Filling, Chunking
  <2>3. ThreadShape'
    BY <1>1, <1>14 DEF Tick, PlaceInv, ThreadShape
  <2>4. QED
    BY <1>3, <2>1, <2>2, <2>3 DEF PlaceInv
<1>15. CASE UNCHANGED vars
  <2>1. TypeOK'
    BY <1>15 DEF PlaceInv, TypeOK
  <2>2. WriterShape' /\ ThreadShape'
    BY <1>15 DEF PlaceInv, WriterShape, ThreadShape
  <2>3. QED
    BY <1>3, <2>1, <2>2 DEF PlaceInv
<1>16. QED
  BY <1>4, <1>5, <1>6, <1>7, <1>8, <1>9, <1>10, <1>11, <1>12a, <1>12b, <1>12c,
     <1>13, <1>14, <1>15

(* smoother_pcr_write2 up to the first unlock.                             *)
LEMMA PlaceTake == ASSUME PlaceInv, TakeItem PROVE PlaceInv'
<1> USE DEF timebase, pacing, queue, account, output, flags, world
<1>0. /\ TypeOK /\ WriterShape /\ ThreadShape /\ ItemsInOnePlace /\ CountersMatch
      /\ GrowBy \in Nat \ {0}
  BY SmootherAssumption DEF PlaceInv
<1>1. /\ wpc' = "stamp"
      /\ UNCHANGED <<stream, baStart, baEnd, iv, itemsBusy, loclist, lpos, tpc, qBusyCount>>
      /\ hand = NoItem /\ ~Freed
  BY <1>0 DEF TakeItem, WriterShape, Filling, Freed
<1>u. UNCHANGED <<blockingWrites, pcrFirst, walltimeFirst, pcrTail, pcrHead,
                  didPcrReset, lastPcrResetTime, ipptLast, latencyHwm,
                  totalUserPackets, seqno, last_seqno, sent, threadRunning,
                  threadTerminate, threadTerminated, now, resets>>
  BY DEF TakeItem
<1>2. CASE itemsFree # << >>
  <2>1. /\ hand' = itemsFree[1] /\ itemsFree[1] \in 1 .. totalItems
        /\ itemsFree' = Tail(itemsFree) /\ qFreeCount' = qFreeCount - 1
        /\ UNCHANGED <<totalItems, item>>
    BY <1>0, <1>2, TailFacts DEF TakeItem, TypeOK, FreeAfterTake
  <2>2. /\ Len(itemsFree) \in Nat \ {0}
        /\ itemsFree' \in Seq(1 .. totalItems) /\ Len(itemsFree') = Len(itemsFree) - 1
        /\ \A i \in 1 .. Len(itemsFree') : itemsFree'[i] = itemsFree[i + 1]
    BY <1>0, <1>2, <2>1, TailFacts DEF TypeOK
  <2>3. TypeOK'
    <3>1. /\ wpc' \in WriterPc /\ hand' \in 0 .. totalItems'
          /\ itemsFree' \in Seq(1 .. totalItems') /\ qFreeCount' \in Int
      BY <1>0, <1>1, <2>1, <2>2 DEF TypeOK, WriterPc
    <3>2. QED
      BY <1>0, <1>1, <1>u, <2>1, <3>1 DEF TypeOK
  <2>4. WriterShape' /\ ThreadShape'
    BY <1>0, <1>1, <2>1 DEF WriterShape, ThreadShape, TakeItem, Filling, Chunking,
       NoItem, TypeOK
  <2>5. ItemsInOnePlace'
    <3>1. NoRepeats(itemsFree)' /\ Apart(itemsFree, itemsBusy)' /\ Apart(itemsFree, loclist)'
      <4>1. \A i \in 1 .. Len(itemsFree') :
              i + 1 \in 1 .. Len(itemsFree) /\ itemsFree'[i] = itemsFree[i + 1]
        BY <2>2
      <4>2. \A i, j \in 1 .. Len(itemsFree') : itemsFree'[i] = itemsFree'[j] => i = j
        <5> TAKE i, j \in 1 .. Len(itemsFree')
        <5>1. itemsFree[i + 1] = itemsFree[j + 1] => i + 1 = j + 1
          BY <1>0, <4>1 DEF ItemsInOnePlace, NoRepeats
        <5>2. QED
          BY <2>2, <4>1, <5>1
      <4>3. NoRepeats(itemsFree)'
        BY <4>2 DEF NoRepeats
      <4>4. Apart(itemsFree, itemsBusy)'
        BY <1>0, <1>1, <4>1 DEF ItemsInOnePlace, Apart
      <4>5. Apart(itemsFree, loclist)'
        BY <1>0, <1>1, <4>1 DEF ItemsInOnePlace, Apart
      <4>6. QED
        BY <4>3, <4>4, <4>5
    <3>2. ~In(hand, itemsFree)' /\ ~In(hand, itemsBusy)' /\ ~In(hand, loclist)'
      BY <1>0, <1>1, <2>1, <2>2 DEF ItemsInOnePlace, NoRepeats, Apart, In
    <3>3. ASSUME NEW i \in 1 .. totalItems, In(i, itemsFree)
          PROVE  i = hand' \/ In(i, itemsFree')
      <4>1. PICK j \in 1 .. Len(itemsFree) : itemsFree[j] = i
        BY <3>3 DEF In
      <4>2. CASE j = 1
        BY <2>1, <4>1, <4>2
      <4>3. CASE j # 1
        <5>1. j - 1 \in 1 .. Len(itemsFree') /\ (j - 1) + 1 = j
          BY <2>2, <4>3
        <5>2. itemsFree'[j - 1] = i
          BY <2>2, <4>1, <5>1
        <5>3. QED
          BY <5>1, <5>2 DEF In
      <4>4. QED
        BY <4>2, <4>3
    <3>4. ASSUME NEW i \in 1 .. totalItems
          PROVE  i = hand' \/ In(i, itemsFree') \/ In(i, itemsBusy) \/ In(i, loclist)
      <4>1. i # hand
        BY <1>0, <1>1 DEF NoItem, TypeOK
      <4>2. QED
        BY <1>0, <1>1, <3>3, <4>1 DEF ItemsInOnePlace
    <3>5. QED
      BY <1>0, <1>1, <2>1, <3>1, <3>2, <3>4 DEF ItemsInOnePlace, NoRepeats, Apart, In
  <2>6. CountersMatch'
    BY <1>0, <1>1, <2>1, <2>2 DEF CountersMatch
  <2>7. QED
    BY <2>3, <2>4, <2>5, <2>6 DEF PlaceInv
<1>3. CASE itemsFree = << >>
  <2>1. /\ hand' = totalItems + 1 /\ totalItems' = totalItems + GrowBy
        /\ itemsFree' = [i \in 1 .. GrowBy - 1 |-> totalItems + 1 + i]
        /\ qFreeCount' = qFreeCount + GrowBy - 1
        /\ item' = GrownItems
        /\ totalItems \in Nat
    BY <1>0, <1>3 DEF TakeItem, FreeCountGrown, TypeOK
  <2>2. /\ itemsFree' \in Seq(1 .. totalItems') /\ Len(itemsFree') = GrowBy - 1
        /\ \A i \in 1 .. GrowBy - 1 : itemsFree'[i] = totalItems + 1 + i
    BY <1>0, <2>1
  <2>3. itemsBusy \in Seq(1 .. totalItems') /\ loclist \in Seq(1 .. totalItems')
    BY <1>0, <2>1, SeqMonotonic DEF TypeOK
  <2>4. BlankItem \in ItemRec
    BY DEF BlankItem, ItemRec
  <2>5. item' \in [1 .. totalItems' -> ItemRec]
    BY <1>0, <2>1, <2>4 DEF GrownItems, TypeOK
  <2>6. TypeOK'
    BY <1>0, <1>1, <1>u, <2>1, <2>2, <2>3, <2>5 DEF TypeOK, WriterPc
  <2>7. WriterShape' /\ ThreadShape'
    BY <1>0, <1>1, <2>1 DEF WriterShape, ThreadShape, TakeItem, Filling, Chunking,
       NoItem
  <2>8. /\ Len(itemsBusy) \in Nat /\ \A i \in 1 .. Len(itemsBusy) : itemsBusy[i] \in 1 .. totalItems
        /\ Len(loclist) \in Nat /\ \A i \in 1 .. Len(loclist) : loclist[i] \in 1 .. totalItems
    BY <1>0, ElementOfSeq, LenProperties DEF TypeOK
  <2>9. ItemsInOnePlace'
    <3>1. NoRepeats(itemsFree)' /\ Apart(itemsFree, itemsBusy)' /\ Apart(itemsFree, loclist)'
      BY <1>0, <1>1, <2>1, <2>2, <2>8 DEF NoRepeats, Apart
    <3>2. ~In(hand, itemsFree)' /\ ~In(hand, itemsBusy)' /\ ~In(hand, loclist)'
      BY SMTT(30), <1>0, <1>1, <2>1, <2>2, <2>8 DEF In
    <3>3. ASSUME NEW i \in 1 .. totalItems'
          PROVE  i = hand' \/ In(i, itemsFree') \/ In(i, itemsBusy) \/ In(i, loclist)
      <4>1. CASE i <= totalItems
        <5>1. i \in 1 .. totalItems /\ i # hand
          BY <1>1, <2>1, <4>1 DEF NoItem
        <5>2. ~In(i, itemsFree)
          BY <1>3 DEF In
        <5>3. QED
          BY <1>0, <1>1, <5>1, <5>2 DEF ItemsInOnePlace
      <4>2. CASE i > totalItems + 1
        <5>1. i - totalItems - 1 \in 1 .. GrowBy - 1
          BY <1>0, <2>1, <4>2
        <5>2. itemsFree'[i - totalItems - 1] = i
          BY <2>1, <2>2, <5>1
        <5>3. QED
          BY <2>2, <5>1, <5>2 DEF In
      <4>3. CASE i = totalItems + 1
        BY <2>1, <4>3
      <4>4. QED
        BY <2>1, <4>1, <4>2, <4>3
    <3>4. QED
      BY <1>0, <1>1, <3>1, <3>2, <3>3 DEF ItemsInOnePlace, NoRepeats, Apart, In
  <2>10. CountersMatch'
    BY <1>0, <1>1, <1>3, <2>1, <2>2 DEF CountersMatch, TypeOK
  <2>11. QED
    BY <2>6, <2>7, <2>9, <2>10 DEF PlaceInv
<1>4. QED
  BY <1>2, <1>3

(* smoother_pcr_write2 outside the mutex: the item in hand is on no list.  *)
LEMMA PlaceFill == ASSUME PlaceInv, StampItem \/ ScheduleItem PROVE PlaceInv'
<1> USE DEF timebase, pacing, pool, queue, account, output, flags, world
<1>0. TypeOK /\ WriterShape /\ ThreadShape /\ ItemsInOnePlace /\ CountersMatch
  BY DEF PlaceInv
<1>1. /\ UNCHANGED <<stream, baStart, baEnd, iv, hand, itemsFree, itemsBusy, loclist,
                     totalItems, lpos, tpc, qFreeCount, qBusyCount>>
      /\ wpc \in Filling /\ wpc' \in Filling /\ ~Freed /\ ~Freed'
  BY DEF StampItem, ScheduleItem, Filling, Freed
<1>2. hand \in 1 .. totalItems /\ item[hand] \in ItemRec
  BY <1>0, <1>1 DEF WriterShape, TypeOK, NoItem
<1>3. ItemsInOnePlace' /\ CountersMatch'
  BY <1>0, <1>1 DEF ItemsInOnePlace, CountersMatch, NoRepeats, Apart, In
<1>4. WriterShape' /\ ThreadShape'
  BY <1>0, <1>1 DEF WriterShape, ThreadShape, Chunking, Filling
<1>5. iv.cur \in Int /\ iv.end \in Int /\ iv.pcr \in Int
  BY <1>0 DEF TypeOK, IntervalRec
<1>6. UNCHANGED <<blockingWrites, pcrHead, didPcrReset, lastPcrResetTime, ipptLast,
                  latencyHwm, walltimeFirst, totalUserPackets, seqno, last_seqno, sent,
                  threadRunning, threadTerminate, threadTerminated, now, resets>>
  BY DEF StampItem, ScheduleItem
<1>7. CASE StampItem
  <2>1. ChunkEnd \in Int
    BY <1>5, SmootherAssumption DEF ChunkEnd
  <2>2. item' \in [1 .. totalItems -> ItemRec]
    BY <1>0, <1>2, <1>5, <1>7, <2>1 DEF StampItem, TypeOK, ItemRec
  <2>3. wpc' \in WriterPc /\ pcrFirst' \in Int /\ pcrTail' = pcrTail
    BY <1>0, <1>5, <1>7 DEF StampItem, TypeOK, WriterPc
  <2>4. TypeOK'
    BY <1>0, <1>1, <1>6, <2>2, <2>3 DEF TypeOK
  <2>5. QED
    BY <1>3, <1>4, <2>4 DEF PlaceInv
<1>8. CASE ScheduleItem
  <2>1. ScheduledOutput(iv.pcr) \in Int
    <3>1. ScrDiff(pcrFirst, iv.pcr) \in Int
      BY <1>0, <1>5, ScrInt DEF TypeOK
    <3>2. Quot(ScrDiff(pcrFirst, iv.pcr), TicksPerUs) \in Int
      BY <3>1, QuotInt, SmootherAssumption
    <3>3. QED
      BY <1>0, <3>2, SmootherAssumption DEF ScheduledOutput, TypeOK
  <2>2. item' \in [1 .. totalItems -> ItemRec]
    BY <1>0, <1>2, <1>8, <2>1 DEF ScheduleItem, TypeOK, ItemRec
  <2>3. wpc' \in WriterPc /\ pcrTail' \in Int /\ pcrFirst' = pcrFirst
    BY <1>5, <1>8 DEF ScheduleItem, WriterPc
  <2>4. TypeOK'
    BY <1>0, <1>1, <1>6, <2>2, <2>3 DEF TypeOK
  <2>5. QED
    BY <1>3, <1>4, <2>4 DEF PlaceInv
<1>9. QED
  BY <1>7, <1>8

(* Account only advances along the local list.                             *)
LEMMA PlaceAccount == ASSUME PlaceInv, Account PROVE PlaceInv'
<1> USE DEF writer, timebase, pacing, pool, queue, flags, world
<1>0. TypeOK /\ WriterShape /\ ThreadShape /\ ItemsInOnePlace /\ CountersMatch
  BY DEF PlaceInv
<1>1. lpos \in 1 .. Len(loclist) /\ Len(loclist) \in Nat /\ item[loclist[lpos]] \in ItemRec
  <2>1. lpos \in 1 .. Len(loclist) /\ Len(loclist) \in Nat
    BY <1>0, LenProperties DEF Account, ThreadShape, TypeOK
  <2>2. loclist[lpos] \in 1 .. totalItems
    BY <1>0, <2>1, ElementOfSeq DEF TypeOK
  <2>3. QED
    BY <1>0, <2>1, <2>2 DEF TypeOK
<1>2. totalUserPackets' \in Int /\ last_seqno' \in Int /\ lpos' \in Nat /\ tpc' \in ThreadPc
  <2>1. Spent \in Int /\ totalUserPackets \in Int
    BY <1>0, <1>1, LengthInt DEF Spent, TypeOK
  <2>2. item[loclist[lpos]].seqno \in Int
    BY <1>1 DEF ItemRec
  <2>3. QED
    BY <1>1, <2>1, <2>2 DEF Account, ThreadPc
<1>3. TypeOK'
  BY <1>0, <1>2 DEF Account, TypeOK
<1>4. WriterShape' /\ ThreadShape'
  BY <1>0, <1>1 DEF Account, WriterShape, ThreadShape
<1>5. ItemsInOnePlace' /\ CountersMatch'
  BY <1>0 DEF Account, ItemsInOnePlace, CountersMatch, NoRepeats, Apart, In, Freed
<1>6. QED
  BY <1>3, <1>4, <1>5 DEF PlaceInv

(* smoother_pcr_write2's second critical section: hand becomes the tail of *)
(* the busy list.                                                          *)
LEMMA PlaceEnqueue == ASSUME PlaceInv, HandFilled, EnqueueItem PROVE PlaceInv'
<1> USE DEF timebase, pacing, pool, output, flags, world
<1>0. TypeOK /\ WriterShape /\ ThreadShape /\ ItemsInOnePlace /\ CountersMatch
  BY DEF PlaceInv
<1>1. hand \in 1 .. totalItems /\ item[hand] \in ItemRec /\ ~Freed /\ ~Freed'
  <2>1. wpc = "enqueue" /\ wpc' \in {"take", "finish"}
    BY DEF EnqueueItem
  <2>2. hand \in 1 .. totalItems
    BY <1>0, <2>1 DEF WriterShape, Filling, NoItem, TypeOK
  <2>3. QED
    BY <1>0, <2>1, <2>2 DEF TypeOK, Freed
<1>2. /\ itemsBusy' \in Seq(1 .. totalItems) /\ Len(itemsBusy') = Len(itemsBusy) + 1
      /\ \A i \in 1 .. Len(itemsBusy) : itemsBusy'[i] = itemsBusy[i]
      /\ itemsBusy'[Len(itemsBusy) + 1] = hand /\ Len(itemsBusy) \in Nat
  BY <1>0, <1>1, AppendProperties, LenProperties DEF EnqueueItem, Enqueued, TypeOK
<1>3. UNCHANGED <<stream, baStart, baEnd, itemsFree, loclist, totalItems, lpos, tpc,
                  qFreeCount, blockingWrites, pcrFirst, walltimeFirst, pcrTail, pcrHead,
                  didPcrReset, lastPcrResetTime, ipptLast, latencyHwm, last_seqno, sent,
                  threadRunning, threadTerminate, threadTerminated, now, resets>>
  BY DEF EnqueueItem
<1>4. Length(item[hand]) \in Int /\ iv \in IntervalRec /\ ipptLast \in Int
  BY <1>0, <1>1, LengthInt DEF TypeOK
<1>5. EnqueueTime \in Int
  <2>1. item[hand].sched \in Int
    BY <1>1 DEF ItemRec
  <2>2. Quot(ipptLast * Length(item[hand]), TicksPerUs) \in Int
    BY <1>4, ProductInt, QuotInt, SmootherAssumption
  <2>3. CASE itemsBusy = << >>
    BY <2>1, <2>3 DEF EnqueueTime
  <2>4. CASE itemsBusy # << >>
    <3>1. Len(itemsBusy) \in 1 .. Len(itemsBusy)
      BY <1>0, <2>4, EmptySeq DEF TypeOK
    <3>2. itemsBusy[Len(itemsBusy)] \in 1 .. totalItems
      BY <1>0, <3>1, ElementOfSeq DEF TypeOK
    <3>3. item[itemsBusy[Len(itemsBusy)]].sched \in Int
      BY <1>0, <3>2 DEF TypeOK, ItemRec
    <3>4. QED
      BY <2>1, <2>2, <3>3 DEF EnqueueTime
  <2>5. QED
    BY <2>3, <2>4
<1>6. item' \in [1 .. totalItems -> ItemRec]
  <2>1. [item[hand] EXCEPT !.seqno = seqno, !.sched = EnqueueTime] \in ItemRec
    <3>1. seqno \in Int
      BY <1>0 DEF TypeOK
    <3>2. QED
      BY <1>1, <1>5, <3>1 DEF ItemRec
  <2>2. item' = [item EXCEPT ![hand] =
                   [item[hand] EXCEPT !.seqno = seqno, !.sched = EnqueueTime]]
    BY <1>0, <1>1 DEF EnqueueItem, TypeOK
  <2>3. QED
    BY <1>0, <1>1, <2>1, <2>2 DEF TypeOK
<1>7. iv' \in IntervalRec
  <2>1. iv.ippt * Length(item[hand]) \in Int /\ iv.pcr \in Int
    BY <1>4, ProductInt DEF IntervalRec
  <2>2. ScrAdd(iv.pcr, iv.ippt * Length(item[hand])) \in Int
    BY <2>1, ScrInt
  <2>3. item[hand].to + 1 \in Int
    BY <1>1 DEF ItemRec
  <2>4. QED
    BY <1>4, <2>2, <2>3 DEF EnqueueItem, IntervalRec
<1>8. TypeOK'
  <2>1. /\ wpc' \in WriterPc /\ hand' \in 0 .. totalItems /\ qBusyCount' \in Int
        /\ seqno' \in Nat /\ totalUserPackets' \in Int
    <3>1. /\ qBusyCount \in Int /\ seqno \in Nat /\ totalUserPackets \in Int
          /\ totalItems \in Nat
      BY <1>0 DEF TypeOK
    <3>2. /\ qBusyCount' = qBusyCount + 1 /\ seqno' = seqno + 1 /\ hand' = 0
          /\ totalUserPackets' = totalUserPackets + Length(item[hand])
          /\ wpc' \in {"take", "finish"}
      BY DEF EnqueueItem, NoItem, NextSeqno
    <3>3. QED
      BY <1>4, <3>1, <3>2 DEF WriterPc
  <2>2. QED
    BY <1>0, <1>2, <1>3, <1>6, <1>7, <2>1 DEF TypeOK
<1>9. ItemsInOnePlace'
  <2>1. NoRepeats(itemsBusy)' /\ Apart(itemsFree, itemsBusy)' /\ Apart(itemsBusy, loclist)'
    BY SMTT(30), <1>0, <1>2, <1>3 DEF ItemsInOnePlace, NoRepeats, Apart, In
  <2>2. hand' = 0
    BY DEF EnqueueItem, NoItem
  <2>3. ~In(hand, itemsFree)' /\ ~In(hand, itemsBusy)' /\ ~In(hand, loclist)'
    <3>1. /\ \A i \in 1 .. Len(itemsFree) : itemsFree[i] \in 1 .. totalItems
          /\ \A i \in 1 .. Len(itemsBusy') : itemsBusy'[i] \in 1 .. totalItems
          /\ \A i \in 1 .. Len(loclist) : loclist[i] \in 1 .. totalItems
      BY <1>0, <1>2, ElementOfSeq DEF TypeOK
    <3>2. 0 \notin 1 .. totalItems
      OBVIOUS
    <3>3. QED
      BY <1>3, <2>2, <3>1, <3>2 DEF In
  <2>4. ASSUME NEW i \in 1 .. totalItems
        PROVE  In(i, itemsFree) \/ In(i, itemsBusy') \/ In(i, loclist)
    <3>1. i = hand => In(i, itemsBusy')
      BY <1>2 DEF In
    <3>2. In(i, itemsBusy) => In(i, itemsBusy')
      BY <1>2 DEF In
    <3>3. QED
      BY <1>0, <1>1, <3>1, <3>2 DEF ItemsInOnePlace
  <2>5. QED
    BY <1>0, <1>1, <1>3, <2>1, <2>3, <2>4 DEF ItemsInOnePlace, NoRepeats, Apart, In
<1>10. CountersMatch'
  BY <1>0, <1>2, <1>3 DEF CountersMatch, EnqueueItem
<1>11. WriterShape'
  <2>1. /\ hand' = NoItem /\ iv'.cur = item[hand].to + 1 /\ iv'.end = iv.end
        /\ wpc = "enqueue"
        /\ wpc' = IF item[hand].to + 1 < iv.end THEN "take" ELSE "finish"
    BY <1>4 DEF EnqueueItem, IntervalRec
  <2>2. /\ iv.cur <= item[hand].to /\ item[hand].to < iv.end
        /\ item[hand].to \in Int /\ iv.end \in Int /\ iv.cur \in Int
    BY <1>1, <1>4, <2>1 DEF HandFilled, Filled, Filling, ItemRec, IntervalRec
  <2>3. /\ baStart < iv.cur /\ iv.end <= baEnd /\ baStart <= baEnd
        /\ baEnd <= Len(stream) /\ baStart \in Nat /\ baEnd \in Nat
    BY <1>0, <2>1 DEF WriterShape, Chunking, Filling, TypeOK
  <2>4. QED
    BY <1>3, <2>1, <2>2, <2>3 DEF WriterShape, Chunking, Filling
<1>12. ThreadShape'
  BY <1>0, <1>3 DEF ThreadShape
<1>13. QED
  BY <1>8, <1>9, <1>10, <1>11, <1>12 DEF PlaceInv

(* smoother_pcr_free's last part: both lists are emptied.                  *)
LEMMA PlaceFreeLists == ASSUME PlaceInv, FreeLists PROVE PlaceInv'
<1> USE DEF timebase, pacing, account, output, flags, world
<1>0. TypeOK /\ WriterShape /\ ThreadShape /\ ItemsInOnePlace /\ CountersMatch
  BY DEF PlaceInv
<1>1. /\ UNCHANGED <<stream, baEnd, iv, hand, loclist, totalItems, item, lpos, tpc>>
      /\ itemsFree' = << >> /\ itemsBusy' = << >> /\ baStart' = baEnd
      /\ wpc = "freeLists" /\ wpc' = "freed"
      /\ qFreeCount' = qFreeCount - Len(itemsFree)
      /\ qBusyCount' = qBusyCount - Len(itemsBusy)
  BY DEF FreeLists
<1>2. UNCHANGED <<blockingWrites, pcrFirst, walltimeFirst, pcrTail, pcrHead,
                  didPcrReset, lastPcrResetTime, ipptLast, latencyHwm,
                  totalUserPackets, seqno, last_seqno, sent, threadRunning,
                  threadTerminate, threadTerminated, now, resets>>
  BY DEF FreeLists
<1>3. Len(itemsFree) \in Nat /\ Len(itemsBusy) \in Nat
  BY <1>0, LenProperties DEF TypeOK
<1>4. CountersMatch' /\ qFreeCount' \in Int /\ qBusyCount' \in Int
  <2>1. qFreeCount = Len(itemsFree) /\ qBusyCount = Len(itemsBusy)
    BY <1>0 DEF CountersMatch
  <2>2. qFreeCount' = 0 /\ qBusyCount' = 0
    BY <1>1, <1>3, <2>1
  <2>3. QED
    BY <1>1, <2>2 DEF CountersMatch
<1>5. TypeOK'
  <2>1. itemsFree' \in Seq(1 .. totalItems) /\ itemsBusy' \in Seq(1 .. totalItems)
    BY <1>1
  <2>2. wpc' \in WriterPc
    BY <1>1 DEF WriterPc
  <2>3. QED
    BY <1>0, <1>1, <1>2, <1>4, <2>1, <2>2 DEF TypeOK
<1>6. WriterShape' /\ ThreadShape'
  <2>1. baEnd \in Nat
    BY <1>0 DEF TypeOK
  <2>2. QED
    BY <1>0, <1>1, <2>1 DEF WriterShape, ThreadShape, Filling, Chunking
<1>7. ItemsInOnePlace'
  BY <1>0, <1>1 DEF ItemsInOnePlace, NoRepeats, Apart, In, Freed
<1>8. QED
  BY <1>4, <1>5, <1>6, <1>7 DEF PlaceInv

(* The items of a list, reset in place, are items.                         *)
LEMMA ResetItems ==
  ASSUME TypeOK, NEW s,
         item' = [i \in 1 .. totalItems |->
                    IF \E b \in 1 .. Len(s) : s[b] = i
                    THEN ItemReset(item[i]) ELSE item[i]]
  PROVE  item' \in [1 .. totalItems -> ItemRec]
<1>1. \A i \in 1 .. totalItems : item[i] \in ItemRec /\ ItemReset(item[i]) \in ItemRec
  BY LengthInt DEF TypeOK
<1>2. QED
  BY <1>1

(* smoother_pcr_reset: the busy list moves behind the free list.           *)
LEMMA PlaceReset == ASSUME PlaceInv, Reset PROVE PlaceInv'
<1> USE DEF writer, pacing, output, flags
<1>0. TypeOK /\ WriterShape /\ ThreadShape /\ ItemsInOnePlace /\ CountersMatch
  BY DEF PlaceInv
<1>1. /\ UNCHANGED <<stream, baStart, baEnd, wpc, iv, hand, loclist, totalItems, lpos, tpc>>
      /\ itemsFree' = itemsFree \o itemsBusy /\ itemsBusy' = << >>
      /\ qFreeCount' = qFreeCount + Len(itemsBusy)
      /\ qBusyCount' = qBusyCount - Len(itemsBusy)
      /\ Freed' = Freed /\ ~Freed
  BY DEF Reset, Freed
<1>2. UNCHANGED <<blockingWrites, didPcrReset, lastPcrResetTime, ipptLast, latencyHwm,
                  seqno, last_seqno, sent, threadRunning, threadTerminate,
                  threadTerminated, now>>
  BY DEF Reset
<1>3. item' \in [1 .. totalItems -> ItemRec]
  BY <1>0, ResetItems DEF Reset
<1>4. /\ itemsFree' \in Seq(1 .. totalItems)
      /\ Len(itemsFree') = Len(itemsFree) + Len(itemsBusy)
      /\ NoRepeats(itemsFree')
      /\ \A x : In(x, itemsFree') <=> In(x, itemsFree) \/ In(x, itemsBusy)
  <2>1. /\ itemsFree \in Seq(1 .. totalItems) /\ itemsBusy \in Seq(1 .. totalItems)
        /\ NoRepeats(itemsFree) /\ NoRepeats(itemsBusy) /\ Apart(itemsFree, itemsBusy)
    BY <1>0 DEF TypeOK, ItemsInOnePlace
  <2>2. QED
    BY <1>1, <2>1, JoinFacts
<1>5. \A x : ~In(x, << >>)
  BY DEF In
<1>6. ItemsInOnePlace'
  <2>1. Apart(itemsFree', loclist')
    BY <1>0, <1>1, <1>4, ApartIn DEF ItemsInOnePlace
  <2>2. Apart(itemsFree', itemsBusy') /\ Apart(itemsBusy', loclist') /\ NoRepeats(itemsBusy')
    BY <1>1 DEF Apart, NoRepeats
  <2>3. ~In(hand', itemsFree') /\ ~In(hand', itemsBusy') /\ ~In(hand', loclist')
    BY <1>0, <1>1, <1>4, <1>5 DEF ItemsInOnePlace
  <2>4. \A i \in 1 .. totalItems' :
          i = hand' \/ In(i, itemsFree') \/ In(i, itemsBusy') \/ In(i, loclist')
    BY <1>0, <1>1, <1>4 DEF ItemsInOnePlace
  <2>5. NoRepeats(loclist')
    BY <1>0, <1>1 DEF ItemsInOnePlace
  <2>6. QED
    BY <1>4, <2>1, <2>2, <2>3, <2>4, <2>5 DEF ItemsInOnePlace, NoRepeats, Apart, In
<1>7. CountersMatch' /\ qFreeCount' \in Int /\ qBusyCount' \in Int
  <2>1. Len(itemsFree) \in Nat /\ Len(itemsBusy) \in Nat
    BY <1>0, LenProperties DEF TypeOK
  <2>2. qFreeCount = Len(itemsFree) /\ qBusyCount = Len(itemsBusy)
    BY <1>0 DEF CountersMatch
  <2>3. qFreeCount' = Len(itemsFree) + Len(itemsBusy) /\ qBusyCount' = 0
    BY <1>1, <2>1, <2>2
  <2>4. QED
    BY <1>1, <1>4, <2>1, <2>3 DEF CountersMatch
<1>8. TypeOK'
  <2>1. /\ walltimeFirst' \in Int /\ pcrFirst' \in Int /\ pcrHead' \in Int
        /\ pcrTail' \in Int /\ totalUserPackets' \in Int
    BY DEF Reset, Unset
  <2>2. resets' \in Nat
    BY <1>0 DEF Reset, TypeOK
  <2>3. itemsBusy' \in Seq(1 .. totalItems)
    BY <1>1
  <2>4. QED
    BY <1>0, <1>1, <1>2, <1>3, <1>4, <1>7, <2>1, <2>2, <2>3 DEF TypeOK
<1>9. WriterShape' /\ ThreadShape'
  BY <1>0, <1>1 DEF WriterShape, ThreadShape
<1>10. QED
  BY <1>6, <1>7, <1>8, <1>9 DEF PlaceInv

(* The output thread's last critical section: the batch is recycled.       *)
LEMMA PlaceRecycle == ASSUME PlaceInv, Recycle PROVE PlaceInv'
<1> USE DEF writer, timebase, pacing, queue, account, flags, world
<1>0. TypeOK /\ WriterShape /\ ThreadShape /\ ItemsInOnePlace /\ CountersMatch
  BY DEF PlaceInv
<1>1. /\ UNCHANGED <<stream, baStart, baEnd, wpc, iv, hand, itemsBusy, totalItems, qBusyCount>>
      /\ itemsFree' = itemsFree \o loclist /\ loclist' = << >> /\ lpos' = 1
      /\ tpc' = "loop" /\ qFreeCount' = qFreeCount + Len(loclist)
      /\ Freed' = Freed /\ ~Freed
  BY DEF Recycle, Recycled, Freed
<1>2. UNCHANGED <<blockingWrites, pcrFirst, walltimeFirst, pcrTail, pcrHead,
                  didPcrReset, lastPcrResetTime, ipptLast, latencyHwm,
                  totalUserPackets, seqno, last_seqno, sent, threadRunning,
                  threadTerminate, threadTerminated, now, resets>>
  BY DEF Recycle
<1>3. item' \in [1 .. totalItems -> ItemRec]
  BY <1>0, ResetItems DEF Recycle
<1>4. /\ itemsFree' \in Seq(1 .. totalItems)
      /\ Len(itemsFree') = Len(itemsFree) + Len(loclist)
      /\ NoRepeats(itemsFree')
      /\ \A x : In(x, itemsFree') <=> In(x, itemsFree) \/ In(x, loclist)
  <2>1. /\ itemsFree \in Seq(1 .. totalItems) /\ loclist \in Seq(1 .. totalItems)
        /\ NoRepeats(itemsFree) /\ NoRepeats(loclist) /\ Apart(itemsFree, loclist)
    BY <1>0 DEF TypeOK, ItemsInOnePlace
  <2>2. QED
    BY <1>1, <2>1, JoinFacts
<1>5. \A x : ~In(x, << >>)
  BY DEF In
<1>6. ItemsInOnePlace'
  <2>1. Apart(itemsFree', itemsBusy')
    <3>1. \A x : ~(In(x, itemsFree) /\ In(x, itemsBusy)) /\ ~(In(x, itemsBusy) /\ In(x, loclist))
      BY <1>0, ApartIn DEF ItemsInOnePlace
    <3>2. QED
      BY <1>1, <1>4, <3>1, ApartIn
  <2>2. Apart(itemsFree', loclist') /\ Apart(itemsBusy', loclist') /\ NoRepeats(loclist')
    BY <1>1 DEF Apart, NoRepeats
  <2>3. ~In(hand', itemsFree') /\ ~In(hand', itemsBusy') /\ ~In(hand', loclist')
    BY <1>0, <1>1, <1>4, <1>5 DEF ItemsInOnePlace
  <2>4. \A i \in 1 .. totalItems' :
          i = hand' \/ In(i, itemsFree') \/ In(i, itemsBusy') \/ In(i, loclist')
    BY <1>0, <1>1, <1>4 DEF ItemsInOnePlace
  <2>5. NoRepeats(itemsBusy')
    BY <1>0, <1>1 DEF ItemsInOnePlace
  <2>6. QED
    BY <1>4, <2>1, <2>2, <2>3, <2>4, <2>5 DEF ItemsInOnePlace, NoRepeats, Apart, In
<1>7. CountersMatch' /\ qFreeCount' \in Int
  <2>1. Len(itemsFree) \in Nat /\ Len(loclist) \in Nat
    BY <1>0, LenProperties DEF TypeOK
  <2>2. qFreeCount = Len(itemsFree) /\ qBusyCount = Len(itemsBusy)
    BY <1>0 DEF CountersMatch
  <2>3. QED
    BY <1>1, <1>4, <2>1, <2>2 DEF CountersMatch
<1>8. TypeOK'
  <2>1. loclist' \in Seq(1 .. totalItems) /\ lpos' \in Nat /\ tpc' \in ThreadPc
    BY <1>1 DEF ThreadPc
  <2>2. QED
    BY <1>0, <1>1, <1>2, <1>3, <1>4, <1>7, <2>1 DEF TypeOK
<1>9. WriterShape' /\ ThreadShape'
  BY <1>0, <1>1 DEF WriterShape, ThreadShape
<1>10. QED
  BY <1>6, <1>7, <1>8, <1>9 DEF PlaceInv

(* _queueProcess_makeloc: a prefix of the busy list becomes the batch.     *)
LEMMA PlaceCollect == ASSUME PlaceInv, Collect PROVE PlaceInv'
<1> USE DEF writer, timebase, pacing, pool, account, flags, world
<1>0. TypeOK /\ WriterShape /\ ThreadShape /\ ItemsInOnePlace /\ CountersMatch
  BY DEF PlaceInv
<1>1. /\ UNCHANGED <<stream, baStart, baEnd, wpc, iv, hand, itemsFree, totalItems,
                     item, qFreeCount>>
      /\ lpos' = 1 /\ loclist = << >> /\ Freed' = Freed /\ ~Freed
  BY <1>0 DEF Collect, ThreadShape, Freed
<1>2. UNCHANGED <<blockingWrites, pcrFirst, walltimeFirst, pcrTail,
                  didPcrReset, lastPcrResetTime, ipptLast, latencyHwm,
                  totalUserPackets, seqno, last_seqno, sent, threadRunning,
                  threadTerminate, threadTerminated, now, resets>>
  BY DEF Collect
<1>3. PICK n \in 0 .. Len(itemsBusy) :
        /\ loclist' = SubSeq(itemsBusy, 1, n)
        /\ itemsBusy' = SubSeq(itemsBusy, n + 1, Len(itemsBusy))
        /\ qBusyCount' = qBusyCount - n
        /\ tpc' = IF n = 0 THEN "loop" ELSE "emit"
  BY DEF Collect, Batch
<1>4. itemsBusy \in Seq(1 .. totalItems) /\ NoRepeats(itemsBusy) /\ Len(itemsBusy) \in Nat
  BY <1>0, LenProperties DEF TypeOK, ItemsInOnePlace
<1>5. /\ loclist' \in Seq(1 .. totalItems) /\ Len(loclist') = n
      /\ itemsBusy' \in Seq(1 .. totalItems) /\ Len(itemsBusy') = Len(itemsBusy) - n
  BY <1>3, <1>4, SplitFacts
<1>6. /\ NoRepeats(loclist') /\ NoRepeats(itemsBusy') /\ Apart(itemsBusy', loclist')
      /\ \A x : In(x, itemsBusy) <=> In(x, loclist') \/ In(x, itemsBusy')
  BY <1>3, <1>4, CutFacts
<1>7. ItemsInOnePlace'
  <2>1. \A x : ~(In(x, itemsFree) /\ In(x, itemsBusy))
    BY <1>0, ApartIn DEF ItemsInOnePlace
  <2>2. Apart(itemsFree', itemsBusy') /\ Apart(itemsFree', loclist')
    BY <1>1, <1>6, <2>1, ApartIn
  <2>3. ~In(hand', itemsFree') /\ ~In(hand', itemsBusy') /\ ~In(hand', loclist')
    BY <1>0, <1>1, <1>6 DEF ItemsInOnePlace
  <2>4. \A i \in 1 .. totalItems' :
          i = hand' \/ In(i, itemsFree') \/ In(i, itemsBusy') \/ In(i, loclist')
    <3>1. \A i : ~In(i, loclist)
      BY <1>1 DEF In
    <3>2. QED
      BY <1>0, <1>1, <1>6, <3>1 DEF ItemsInOnePlace
  <2>5. NoRepeats(itemsFree')
    BY <1>0, <1>1 DEF ItemsInOnePlace
  <2>6. QED
    BY <1>6, <2>2, <2>3, <2>4, <2>5 DEF ItemsInOnePlace, NoRepeats, Apart, In
<1>8. CountersMatch' /\ qBusyCount' \in Int
  <2>1. qFreeCount = Len(itemsFree) /\ qBusyCount = Len(itemsBusy)
    BY <1>0 DEF CountersMatch
  <2>2. QED
    BY <1>1, <1>3, <1>4, <1>5, <2>1 DEF CountersMatch
<1>9. TypeOK'
  <2>1. pcrHead' \in Int
    <3>1. CASE itemsBusy = << >>
      BY <1>0, <3>1 DEF Collect, TypeOK
    <3>2. CASE itemsBusy # << >>
      <4>1. itemsBusy[1] \in 1 .. totalItems
        BY <1>4, <3>2, TailFacts
      <4>2. item[itemsBusy[1]] \in ItemRec
        BY <1>0, <4>1 DEF TypeOK
      <4>3. QED
        BY <3>2, <4>2 DEF Collect, ItemRec
    <3>3. QED
      BY <3>1, <3>2
  <2>2. tpc' \in ThreadPc /\ lpos' \in Nat
    BY <1>1, <1>3 DEF ThreadPc
  <2>3. QED
    BY <1>0, <1>1, <1>2, <1>5, <1>8, <2>1, <2>2 DEF TypeOK
<1>10. WriterShape'
  BY <1>0, <1>1 DEF WriterShape
<1>11. ThreadShape'
  <2>1. CASE n = 0
    <3>1. loclist' = << >>
      BY <1>5, <2>1, EmptySeq
    <3>2. QED
      BY <1>1, <1>3, <2>1, <3>1 DEF ThreadShape
  <2>2. CASE n # 0
    BY <1>1, <1>3, <1>4, <1>5, <2>2 DEF ThreadShape
  <2>3. QED
    BY <2>1, <2>2
<1>12. QED
  BY <1>7, <1>8, <1>9, <1>10, <1>11 DEF PlaceInv

(* While smoother_pcr_write2 works on an item outside the mutex, nobody    *)
(* else touches it: it keeps the packets it was filled with.               *)
LEMMA HandStep == ASSUME PlaceInv, HandFilled, [Next]_vars PROVE HandFilled'
<1> USE DEF vars, writer, timebase, pacing, pool, queue, account, output, flags, world
<1>0. TypeOK /\ WriterShape /\ ItemsInOnePlace
  BY DEF PlaceInv
<1>1. CASE \/ SetBlockingWrites \/ Write \/ Scan \/ ScanBail \/ TakeItem \/ EnqueueItem
           \/ FinishInterval \/ FreeCall \/ FreeWait \/ FreeLists
  <2>1. wpc' \notin Filled
    BY <1>1 DEF SetBlockingWrites, Write, Scan, ScanBail, TakeItem, EnqueueItem,
       FinishInterval, FreeCall, FreeWait, FreeLists, Filled, Filling
  <2>2. QED
    BY <2>1 DEF HandFilled
<1>2. CASE \/ ThreadStart \/ ThreadLoop \/ ThreadExit \/ Collect \/ Emit \/ Account
           \/ Tick \/ UNCHANGED vars
  <2>1. UNCHANGED <<wpc, iv, hand, item>>
    BY <1>2 DEF ThreadStart, ThreadLoop, ThreadExit, Collect, Emit, Account, Tick
  <2>2. QED
    BY <2>1 DEF HandFilled
<1>3. CASE StampItem
  <2>0. wpc = "stamp" /\ hand' = hand /\ iv' = iv
    BY <1>3 DEF StampItem
  <2>1. /\ hand \in 1 .. totalItems /\ hand' = hand /\ iv' = iv
        /\ iv.cur \in Int /\ iv.end \in Int /\ iv.cur < iv.end
    BY <1>0, <2>0 DEF WriterShape, TypeOK, NoItem, Filling, Chunking, IntervalRec
  <2>2. iv.cur <= ChunkEnd /\ ChunkEnd < iv.end
    BY <2>1, SmootherAssumption DEF ChunkEnd
  <2>3. item'[hand].from = iv.cur /\ item'[hand].to = ChunkEnd
    <3>1. item \in [1 .. totalItems -> ItemRec]
      BY <1>0 DEF TypeOK
    <3>2. item'[hand] = [item[hand] EXCEPT !.received = now, !.from = iv.cur,
                                           !.to = ChunkEnd, !.pcr = iv.pcr]
      BY <1>3, <2>1, <3>1 DEF StampItem
    <3>3. item[hand] \in ItemRec
      BY <2>1, <3>1
    <3>4. QED
      BY <3>2, <3>3 DEF ItemRec
  <2>4. QED
    BY <2>1, <2>2, <2>3 DEF HandFilled
<1>4. CASE StampWalltime
  BY <1>4 DEF StampWalltime, HandFilled, Filled, Filling
<1>5. CASE ScheduleItem
  <2>0. wpc = "schedule" /\ hand' = hand /\ iv' = iv
    BY <1>5 DEF ScheduleItem
  <2>1. hand \in 1 .. totalItems /\ hand' = hand /\ iv' = iv /\ wpc \in Filled
    BY <1>0, <2>0 DEF WriterShape, TypeOK, NoItem, Filling, Filled
  <2>2. item'[hand].from = item[hand].from /\ item'[hand].to = item[hand].to
    <3>1. item \in [1 .. totalItems -> ItemRec]
      BY <1>0 DEF TypeOK
    <3>2. item'[hand] = [item[hand] EXCEPT !.sched = ScheduledOutput(iv.pcr)]
      BY <1>5, <2>1, <3>1 DEF ScheduleItem
    <3>3. item[hand] \in ItemRec
      BY <2>1, <3>1
    <3>4. QED
      BY <3>2, <3>3 DEF ItemRec
  <2>3. QED
    BY <2>1, <2>2 DEF HandFilled
<1>6. CASE Reset \/ Recycle
  <2>1. UNCHANGED <<wpc, iv, hand>>
    BY <1>6 DEF Reset, Recycle
  <2>2. wpc \in Filled => hand \in 1 .. totalItems
    BY <1>0 DEF WriterShape, TypeOK, NoItem, Filled
  <2>3. wpc \in Filled => item'[hand] = item[hand]
    BY <1>0, <1>6, <2>2 DEF Reset, Recycle, ItemsInOnePlace, In
  <2>4. QED
    BY <2>1, <2>3 DEF HandFilled
<1>7. QED
  BY <1>1, <1>2, <1>3, <1>4, <1>5, <1>6 DEF Next, WriteCall, FreeReturn, Thread, Stopped

(* The invariant of the pool of items is preserved by every step.          *)
LEMMA PlaceStep ==
  ASSUME PlaceInv, HandFilled, [Next]_vars PROVE PlaceInv' /\ HandFilled'
BY PlaceQuiet, PlaceTake, PlaceFill, PlaceAccount, PlaceEnqueue, PlaceFreeLists,
   PlaceReset, PlaceRecycle, PlaceCollect, HandStep
   DEF Next, WriteCall, FreeReturn, Thread, Stopped

LEMMA PlaceAlways == Spec => [](PlaceInv /\ HandFilled)
<1>1. Init => PlaceInv /\ HandFilled
  BY PlaceInit DEF Init, HandFilled, Filled, Filling
<1>2. PlaceInv /\ HandFilled /\ [Next]_vars => (PlaceInv /\ HandFilled)'
  BY PlaceStep
<1>3. QED
  BY <1>1, <1>2, PTL DEF Spec

(* Type correctness of the smoother, for every stream and configuration.   *)
THEOREM TypeCorrect == Spec => []TypeOK
<1>1. PlaceInv => TypeOK
  BY DEF PlaceInv
<1>2. QED
  BY <1>1, PlaceAlways, PTL

(* No item of smoother-pcr.c is ever on two lists, or on a list while it   *)
(* is being filled outside the mutex, and none leaks, whatever the two     *)
(* threads and any number of resets do.                                    *)
THEOREM PlacesHold == Spec => []ItemsInOnePlace
<1>1. PlaceInv => ItemsInOnePlace
  BY DEF PlaceInv
<1>2. QED
  BY <1>1, PlaceAlways, PTL

(* The counters smoother_pcr_write2, _queueProcess and smoother_pcr_reset  *)
(* keep by hand always equal the lengths of the lists.                     *)
THEOREM CountersHold == Spec => []CountersMatch
<1>1. PlaceInv => CountersMatch
  BY DEF PlaceInv
<1>2. QED
  BY <1>1, PlaceAlways, PTL

------------------------------------------------------------------------------
(* The second inductive invariant: DeliveryOrder puts the delivered        *)
(* packets, the rest of the batch, the busy list and the writer's position *)
(* in one line.  DeliveredInOrder alone is not inductive, it says nothing  *)
(* about the packets that are still to come.                               *)

(* The writer's position in the stream never moves back.                   *)
LEMMA PositionGrows ==
  ASSUME PlaceInv, HandFilled, [Next]_vars
  PROVE  Position \in Int /\ Position' \in Int /\ Position <= Position'
<1> USE DEF vars, writer, timebase, pacing, pool, queue, account, output, flags, world
<1>0. TypeOK /\ WriterShape /\ TypeOK'
  BY PlaceStep DEF PlaceInv
<1>1. Position \in Int /\ Position' \in Int
  <2>1. iv.cur \in Int /\ iv'.cur \in Int /\ baStart \in Nat /\ baStart' \in Nat
        /\ iv.end \in Int
    BY <1>0 DEF TypeOK, IntervalRec
  <2>2. QED
    BY <2>1 DEF Position
<1>2. CASE \/ SetBlockingWrites \/ Write \/ ScanBail \/ FreeCall \/ FreeWait
  <2>1. baStart' = baStart /\ wpc \notin Chunking \cup {"finish"}
        /\ wpc' \notin Chunking \cup {"finish"}
    BY <1>2 DEF SetBlockingWrites, Write, ScanBail, FreeCall, FreeWait, Chunking, Filling
  <2>2. QED
    BY <1>1, <2>1 DEF Position
<1>3. CASE \/ TakeItem \/ StampItem \/ StampWalltime \/ ScheduleItem
  <2>1. iv' = iv /\ wpc \in Chunking \cup {"finish"} /\ wpc' \in Chunking \cup {"finish"}
    BY <1>3 DEF TakeItem, StampItem, StampWalltime, ScheduleItem, Chunking, Filling
  <2>2. QED
    BY <1>1, <2>1 DEF Position
<1>4. CASE Scan
  <2>1. PICK f \in baStart + 1 .. baEnd, s \in baStart + 1 .. baEnd : iv'.cur = f
    BY <1>4 DEF Scan
  <2>2. wpc = "scan" /\ wpc' = "take"
    BY <1>4 DEF Scan
  <2>3. Position = baStart + 1 /\ Position' = f
    BY <2>1, <2>2 DEF Position, Chunking, Filling
  <2>4. QED
    BY <1>0, <1>1, <2>1, <2>3 DEF TypeOK
<1>5. CASE EnqueueItem
  <2>1. wpc = "enqueue" /\ wpc' \in {"take", "finish"} /\ iv'.cur = item[hand].to + 1
    BY <1>0, <1>5 DEF EnqueueItem, TypeOK, IntervalRec
  <2>2. Position = iv.cur /\ Position' = item[hand].to + 1
    BY <2>1 DEF Position, Chunking, Filling
  <2>3. iv.cur <= item[hand].to
    BY <2>1 DEF HandFilled, Filled, Filling
  <2>4. item[hand].to \in Int
    <3>1. hand \in 1 .. totalItems
      BY <1>0, <2>1 DEF TypeOK, WriterShape, Filling, NoItem
    <3>2. item[hand] \in ItemRec
      BY <1>0, <3>1 DEF TypeOK
    <3>3. QED
      BY <3>2 DEF ItemRec
  <2>5. QED
    BY <1>1, <2>2, <2>3, <2>4
<1>6. CASE FinishInterval
  <2>1. /\ wpc = "finish" /\ wpc' \in {"scan", "idle"} /\ baStart' = iv.end - 1
    BY <1>6 DEF FinishInterval, TrimPoint
  <2>2. Position = iv.cur /\ Position' = iv.end - 1 + 1 /\ iv.cur = iv.end
    BY <1>0, <2>1 DEF Position, Chunking, Filling, WriterShape
  <2>3. iv.end \in Int
    BY <1>0 DEF TypeOK, IntervalRec
  <2>4. QED
    BY <1>1, <2>2, <2>3
<1>7. CASE FreeLists
  <2>1. wpc = "freeLists" /\ wpc' = "freed" /\ baStart' = baEnd
    BY <1>7 DEF FreeLists
  <2>2. Position = baStart + 1 /\ Position' = baEnd + 1
    BY <2>1 DEF Position, Chunking, Filling
  <2>3. QED
    BY <1>0, <2>2 DEF WriterShape, TypeOK
<1>8. CASE \/ Reset \/ Thread \/ Tick \/ UNCHANGED vars
  <2>1. UNCHANGED <<wpc, iv, baStart>>
    BY <1>8 DEF Reset, Thread, ThreadStart, ThreadLoop, ThreadExit, Collect, Emit,
       Account, Recycle, Tick
  <2>2. QED
    BY <1>1, <2>1 DEF Position
<1>9. QED
  BY <1>1, <1>2, <1>3, <1>4, <1>5, <1>6, <1>7, <1>8
     DEF Next, WriteCall, FreeReturn, Stopped

(* Items on a list are items, and their packets are integers.              *)
LEMMA ListedItems ==
  ASSUME TypeOK
  PROVE  /\ Len(itemsBusy) \in Nat /\ Len(loclist) \in Nat /\ Len(sent) \in Nat
         /\ \A b \in 1 .. Len(itemsBusy) :
              /\ itemsBusy[b] \in 1 .. totalItems
              /\ item[itemsBusy[b]].from \in Int /\ item[itemsBusy[b]].to \in Int
         /\ \A l \in 1 .. Len(loclist) :
              /\ loclist[l] \in 1 .. totalItems
              /\ item[loclist[l]].from \in Int /\ item[loclist[l]].to \in Int
         /\ \A i \in 1 .. Len(sent) : sent[i] \in Int
<1>1. Len(itemsBusy) \in Nat /\ Len(loclist) \in Nat /\ Len(sent) \in Nat
  BY LenProperties DEF TypeOK
<1>2. /\ \A b \in 1 .. Len(itemsBusy) : itemsBusy[b] \in 1 .. totalItems
      /\ \A l \in 1 .. Len(loclist) : loclist[l] \in 1 .. totalItems
      /\ \A i \in 1 .. Len(sent) : sent[i] \in Int
  BY ElementOfSeq DEF TypeOK
<1>3. \A x \in 1 .. totalItems : item[x].from \in Int /\ item[x].to \in Int
  BY DEF TypeOK, ItemRec
<1>4. QED
  BY <1>1, <1>2, <1>3

(* A step that delivers nothing and keeps the lists, or empties one of     *)
(* them, keeps the order.                                                  *)
LEMMA OrderKept ==
  ASSUME TypeOK, DeliveryOrder, sent' = sent,
         Position \in Int, Position' \in Int, Position <= Position',
         \/ loclist' = loclist /\ FirstUnsent' = FirstUnsent
         \/ loclist' = << >>,
         \/ itemsBusy' = itemsBusy
         \/ itemsBusy' = << >>,
         \A l \in 1 .. Len(loclist') :
           /\ item'[loclist[l]].from = item[loclist[l]].from
           /\ item'[loclist[l]].to = item[loclist[l]].to,
         \A b \in 1 .. Len(itemsBusy') :
           /\ item'[itemsBusy[b]].from = item[itemsBusy[b]].from
           /\ item'[itemsBusy[b]].to = item[itemsBusy[b]].to,
         FirstUnsent' \in Nat \ {0}
  PROVE  DeliveryOrder'
<1>1. /\ loclist' = loclist \/ \A l \in 1 .. Len(loclist') : FALSE
      /\ itemsBusy' = itemsBusy \/ \A b \in 1 .. Len(itemsBusy') : FALSE
  OBVIOUS
<1>2. /\ \A l \in 1 .. Len(loclist') :
           /\ l \in 1 .. Len(loclist) /\ loclist'[l] = loclist[l]
           /\ item'[loclist'[l]].from = item[loclist[l]].from
           /\ item'[loclist'[l]].to = item[loclist[l]].to
      /\ \A l \in FirstUnsent' .. Len(loclist') : l \in FirstUnsent .. Len(loclist)
      /\ \A b \in 1 .. Len(itemsBusy') :
           /\ b \in 1 .. Len(itemsBusy) /\ itemsBusy'[b] = itemsBusy[b]
           /\ item'[itemsBusy'[b]].from = item[itemsBusy[b]].from
           /\ item'[itemsBusy'[b]].to = item[itemsBusy[b]].to
  OBVIOUS
<1>3. /\ \A l \in 1 .. Len(loclist) : item[loclist[l]].to \in Int
      /\ \A b \in 1 .. Len(itemsBusy) : item[itemsBusy[b]].to \in Int
      /\ \A i \in 1 .. Len(sent) : sent[i] \in Int
      /\ Len(loclist') \in Nat
  BY ListedItems
<1>4. /\ \A i \in 1 .. Len(sent) : sent[i] < Position'
      /\ \A l \in 1 .. Len(loclist) : item[loclist[l]].to < Position'
      /\ \A b \in 1 .. Len(itemsBusy) : item[itemsBusy[b]].to < Position'
  BY <1>3 DEF DeliveryOrder
<1>5. \A l \in FirstUnsent' .. Len(loclist') : l \in 1 .. Len(loclist')
  BY <1>3
<1>6. /\ \A i, j \in 1 .. Len(sent') : i < j => sent'[i] < sent'[j]
      /\ \A i \in 1 .. Len(sent') : sent'[i] < Position'
  BY <1>4 DEF DeliveryOrder
<1>7. \A i \in 1 .. Len(sent') : \A l \in FirstUnsent' .. Len(loclist') :
        sent'[i] < item'[loclist'[l]].from
  BY <1>2, <1>5 DEF DeliveryOrder
<1>8. \A i \in 1 .. Len(sent') : \A b \in 1 .. Len(itemsBusy') :
        sent'[i] < item'[itemsBusy'[b]].from
  BY <1>2 DEF DeliveryOrder
<1>9. /\ \A l \in 1 .. Len(loclist') :
           /\ item'[loclist'[l]].from <= item'[loclist'[l]].to
           /\ item'[loclist'[l]].to < Position'
      /\ \A b \in 1 .. Len(itemsBusy') :
           /\ item'[itemsBusy'[b]].from <= item'[itemsBusy'[b]].to
           /\ item'[itemsBusy'[b]].to < Position'
  BY <1>2, <1>4 DEF DeliveryOrder
<1>10. /\ \A l, m \in 1 .. Len(loclist') :
            l < m => item'[loclist'[l]].to < item'[loclist'[m]].from
       /\ \A b, c \in 1 .. Len(itemsBusy') :
            b < c => item'[itemsBusy'[b]].to < item'[itemsBusy'[c]].from
       /\ \A l \in 1 .. Len(loclist') : \A b \in 1 .. Len(itemsBusy') :
            item'[loclist'[l]].to < item'[itemsBusy'[b]].from
  BY <1>2 DEF DeliveryOrder
<1>11. QED
  BY <1>6, <1>7, <1>8, <1>9, <1>10 DEF DeliveryOrder

(* The entry of the batch the output thread serves next exists.            *)
LEMMA FirstUnsentPositive ==
  ASSUME TypeOK', ThreadShape' PROVE FirstUnsent' \in Nat \ {0}
<1>1. lpos' \in Nat /\ lpos' # 0
  <2>1. lpos' \in Nat /\ Len(loclist') \in Nat
    BY LenProperties DEF TypeOK
  <2>2. QED
    BY <2>1 DEF ThreadShape
<1>2. FirstUnsent' = lpos' \/ FirstUnsent' = lpos' + 1
  BY DEF FirstUnsent
<1>3. QED
  BY <1>1, <1>2

(* The steps that deliver nothing and queue nothing.                       *)
LEMMA OrderQuiet ==
  ASSUME PlaceInv, HandFilled, DeliveryOrder, [Next]_vars,
         ~EnqueueItem, ~Collect, ~Emit
  PROVE  DeliveryOrder'
<1> USE DEF vars, writer, timebase, pacing, pool, queue, account, output, flags, world
<1>0. TypeOK /\ WriterShape /\ ThreadShape /\ ItemsInOnePlace
  BY DEF PlaceInv
<1>1. Position \in Int /\ Position' \in Int /\ Position <= Position'
  BY PositionGrows
<1>2. FirstUnsent' \in Nat \ {0}
  BY PlaceStep, FirstUnsentPositive DEF PlaceInv
<1>3. /\ \A b \in 1 .. Len(itemsBusy) : itemsBusy[b] \in 1 .. totalItems
      /\ \A l \in 1 .. Len(loclist) : loclist[l] \in 1 .. totalItems
      /\ item \in [1 .. totalItems -> ItemRec] /\ totalItems \in Nat
  BY <1>0, ListedItems DEF TypeOK
<1>4. CASE \/ SetBlockingWrites \/ Write \/ Scan \/ ScanBail \/ StampWalltime
           \/ FinishInterval \/ FreeCall \/ FreeWait \/ FreeLists \/ ThreadStart
           \/ ThreadLoop \/ ThreadExit \/ Tick \/ UNCHANGED vars
  <2>1. /\ UNCHANGED <<sent, loclist, lpos, item>>
        /\ itemsBusy' = itemsBusy \/ itemsBusy' = << >>
        /\ tpc = "account" <=> tpc' = "account"
    BY <1>4 DEF SetBlockingWrites, Write, Scan, ScanBail, StampWalltime,
       FinishInterval, FreeCall, FreeWait, FreeLists, ThreadStart, ThreadLoop,
       ThreadExit, Tick
  <2>2. FirstUnsent' = FirstUnsent
    BY <2>1 DEF FirstUnsent
  <2>3. QED
    BY <1>0, <1>1, <1>2, <2>1, <2>2, OrderKept
<1>5. CASE TakeItem \/ StampItem \/ ScheduleItem
  <2>1. UNCHANGED <<sent, loclist, lpos, tpc, itemsBusy>>
    BY <1>5 DEF TakeItem, StampItem, ScheduleItem
  <2>2. FirstUnsent' = FirstUnsent
    BY <2>1 DEF FirstUnsent
  <2>3. \A x \in 1 .. totalItems : x # hand => item'[x] = item[x]
    <3>1. CASE TakeItem
      <4>1. CASE item' = GrownItems
        BY <1>3, <4>1, SmootherAssumption DEF GrownItems
      <4>2. QED
        BY <3>1, <4>1 DEF TakeItem
    <3>2. CASE StampItem \/ ScheduleItem
      BY <1>3, <3>2 DEF StampItem, ScheduleItem
    <3>3. QED
      BY <1>5, <3>1, <3>2
  <2>4. /\ \A b \in 1 .. Len(itemsBusy) : item'[itemsBusy[b]] = item[itemsBusy[b]]
        /\ \A l \in 1 .. Len(loclist) : item'[loclist[l]] = item[loclist[l]]
    BY <1>0, <1>3, <2>3 DEF ItemsInOnePlace, In
  <2>5. QED
    BY <1>0, <1>1, <1>2, <2>1, <2>2, <2>4, OrderKept
<1>6. CASE Account
  <2>1. UNCHANGED <<sent, loclist, item, itemsBusy>> /\ tpc = "account" /\ tpc' # "account"
        /\ lpos' = lpos + 1
    BY <1>6 DEF Account
  <2>2. FirstUnsent' = FirstUnsent
    BY <2>1 DEF FirstUnsent
  <2>3. QED
    BY <1>0, <1>1, <1>2, <2>1, <2>2, OrderKept
<1>7. CASE Reset
  <2>1. UNCHANGED <<sent, loclist, lpos, tpc>> /\ itemsBusy' = << >>
    BY <1>7 DEF Reset
  <2>2. FirstUnsent' = FirstUnsent
    BY <2>1 DEF FirstUnsent
  <2>3. \A x \in 1 .. totalItems : ~In(x, itemsBusy) => item'[x] = item[x]
    BY <1>7 DEF Reset, In
  <2>4. \A l \in 1 .. Len(loclist) : ~In(loclist[l], itemsBusy)
    BY <1>0 DEF ItemsInOnePlace, Apart, In
  <2>5. \A l \in 1 .. Len(loclist) : item'[loclist[l]] = item[loclist[l]]
    BY <1>3, <2>3, <2>4
  <2>6. QED
    BY <1>0, <1>1, <1>2, <2>1, <2>2, <2>5, OrderKept
<1>8. CASE Recycle
  <2>1. UNCHANGED <<sent, itemsBusy>> /\ loclist' = << >>
    BY <1>8 DEF Recycle
  <2>2. \A x \in 1 .. totalItems : ~In(x, loclist) => item'[x] = item[x]
    BY <1>8 DEF Recycle, In
  <2>3. \A b \in 1 .. Len(itemsBusy) : ~In(itemsBusy[b], loclist)
    BY <1>0 DEF ItemsInOnePlace, Apart, In
  <2>4. \A b \in 1 .. Len(itemsBusy) : item'[itemsBusy[b]] = item[itemsBusy[b]]
    BY <1>3, <2>2, <2>3
  <2>5. QED
    BY <1>0, <1>1, <1>2, <2>1, <2>4, OrderKept
<1>9. QED
  BY <1>4, <1>5, <1>6, <1>7, <1>8 DEF Next, WriteCall, FreeReturn, Thread, Stopped

(* The chunk in hand starts at the writer's position, behind every other.  *)
LEMMA OrderEnqueue ==
  ASSUME PlaceInv, HandFilled, DeliveryOrder, EnqueueItem
  PROVE  DeliveryOrder'
<1> USE DEF timebase, pacing, pool, output, flags, world
<1>0. TypeOK /\ WriterShape /\ ThreadShape /\ ItemsInOnePlace
  BY DEF PlaceInv
<1>1. UNCHANGED <<sent, loclist, lpos, tpc>> /\ FirstUnsent' = FirstUnsent
  BY DEF EnqueueItem, FirstUnsent
<1>2. hand \in 1 .. totalItems /\ item[hand] \in ItemRec /\ wpc = "enqueue"
  <2>1. wpc = "enqueue"
    BY DEF EnqueueItem
  <2>2. hand \in 1 .. totalItems
    BY <1>0, <2>1 DEF WriterShape, Filling, NoItem, TypeOK
  <2>3. QED
    BY <1>0, <2>1, <2>2 DEF TypeOK
<1>3. /\ Position = item[hand].from /\ item[hand].from <= item[hand].to
      /\ Position' = item[hand].to + 1
      /\ item[hand].from \in Int /\ item[hand].to \in Int
  <2>1. wpc' \in {"take", "finish"} /\ iv'.cur = item[hand].to + 1
    BY <1>0 DEF EnqueueItem, TypeOK, IntervalRec
  <2>2. Position = iv.cur /\ Position' = item[hand].to + 1
    BY <1>2, <2>1 DEF Position, Chunking, Filling
  <2>3. item[hand].from = iv.cur /\ iv.cur <= item[hand].to
    BY <1>2 DEF HandFilled, Filled, Filling
  <2>4. QED
    BY <1>2, <2>2, <2>3 DEF ItemRec
<1>4. /\ \A x \in 1 .. totalItems : x # hand => item'[x] = item[x]
      /\ item'[hand].from = item[hand].from /\ item'[hand].to = item[hand].to
  <2>1. item \in [1 .. totalItems -> ItemRec]
    BY <1>0 DEF TypeOK
  <2>2. item' = [item EXCEPT ![hand] =
                   [item[hand] EXCEPT !.seqno = seqno, !.sched = EnqueueTime]]
    BY <1>2, <2>1 DEF EnqueueItem
  <2>3. item'[hand] = [item[hand] EXCEPT !.seqno = seqno, !.sched = EnqueueTime]
    BY <1>2, <2>1, <2>2
  <2>4. item'[hand].from = item[hand].from /\ item'[hand].to = item[hand].to
    BY <1>2, <2>3 DEF ItemRec
  <2>5. QED
    BY <2>1, <2>2, <2>4
<1> DEFINE n == Len(itemsBusy)
<1>5. /\ n \in Nat /\ Len(itemsBusy') = n + 1 /\ itemsBusy'[n + 1] = hand
      /\ \A b \in 1 .. n : itemsBusy'[b] = itemsBusy[b]
  BY <1>0, <1>2, AppendProperties, LenProperties DEF EnqueueItem, Enqueued, TypeOK
<1>6. /\ \A b \in 1 .. n : item'[itemsBusy'[b]] = item[itemsBusy[b]]
      /\ \A l \in 1 .. Len(loclist) : item'[loclist'[l]] = item[loclist[l]]
  <2>1. /\ \A b \in 1 .. n : itemsBusy[b] \in 1 .. totalItems /\ itemsBusy[b] # hand
        /\ \A l \in 1 .. Len(loclist) : loclist[l] \in 1 .. totalItems /\ loclist[l] # hand
    BY <1>0, ListedItems DEF ItemsInOnePlace, In
  <2>2. QED
    BY <1>1, <1>4, <1>5, <2>1
<1>7. /\ \A i \in 1 .. Len(sent) : sent[i] \in Int /\ sent[i] < item[hand].from
      /\ \A l \in 1 .. Len(loclist) : item[loclist[l]].to \in Int
                                      /\ item[loclist[l]].to < item[hand].from
      /\ \A b \in 1 .. n : item[itemsBusy[b]].to \in Int
                           /\ item[itemsBusy[b]].to < item[hand].from
  BY <1>0, <1>3, ListedItems DEF DeliveryOrder
<1> HIDE DEF n
<1>8. \A b \in 1 .. n + 1 : b \in 1 .. n \/ b = n + 1
  BY <1>5
<1>9. /\ \A i, j \in 1 .. Len(sent') : i < j => sent'[i] < sent'[j]
      /\ \A i \in 1 .. Len(sent') : sent'[i] < Position'
      /\ \A i \in 1 .. Len(sent') : \A l \in FirstUnsent' .. Len(loclist') :
           sent'[i] < item'[loclist'[l]].from
  <2>1. \A l \in FirstUnsent .. Len(loclist) : l \in 1 .. Len(loclist)
    BY <1>0, <1>1, PlaceEnqueue, FirstUnsentPositive, ListedItems DEF PlaceInv
  <2>2. \A i \in 1 .. Len(sent') : sent'[i] < Position'
    BY <1>1, <1>3, <1>7
  <2>3. \A i \in 1 .. Len(sent') : \A l \in FirstUnsent' .. Len(loclist') :
          sent'[i] < item'[loclist'[l]].from
    <3>1. \A i \in 1 .. Len(sent) : \A l \in FirstUnsent .. Len(loclist) :
            sent[i] < item[loclist[l]].from
      BY DEF DeliveryOrder
    <3>2. QED
      BY <1>1, <1>6, <2>1, <3>1
  <2>4. QED
    BY <1>1, <2>2, <2>3 DEF DeliveryOrder
<1>10. \A i \in 1 .. Len(sent') : \A b \in 1 .. n + 1 :
         sent'[i] < item'[itemsBusy'[b]].from
  BY <1>1, <1>4, <1>5, <1>6, <1>7, <1>8 DEF DeliveryOrder, n
<1>11. \A l \in 1 .. Len(loclist') :
            /\ item'[loclist'[l]].from <= item'[loclist'[l]].to
            /\ item'[loclist'[l]].to < Position'
  BY <1>1, <1>3, <1>6, <1>7 DEF DeliveryOrder
<1>12. \A b \in 1 .. n + 1 :
            /\ item'[itemsBusy'[b]].from <= item'[itemsBusy'[b]].to
            /\ item'[itemsBusy'[b]].to < Position'
  <2>1. \A b \in 1 .. n :
            /\ item'[itemsBusy'[b]].from <= item'[itemsBusy'[b]].to
            /\ item'[itemsBusy'[b]].to < Position'
    BY <1>3, <1>6, <1>7 DEF DeliveryOrder, n
  <2>2. QED
    BY <1>3, <1>4, <1>5, <1>8, <2>1
<1>13. \A l, m \in 1 .. Len(loclist') :
         l < m => item'[loclist'[l]].to < item'[loclist'[m]].from
  BY <1>1, <1>6 DEF DeliveryOrder
<1>14. \A b, c \in 1 .. n + 1 :
         b < c => item'[itemsBusy'[b]].to < item'[itemsBusy'[c]].from
  <2>1. \A b, c \in 1 .. n :
          b < c => item'[itemsBusy'[b]].to < item'[itemsBusy'[c]].from
    BY <1>6 DEF DeliveryOrder, n
  <2>2. \A b \in 1 .. n : item'[itemsBusy'[b]].to < item'[itemsBusy'[n + 1]].from
    BY <1>4, <1>5, <1>6, <1>7
  <2>3. \A b, c \in 1 .. n + 1 : b < c => b \in 1 .. n
    BY <1>5
  <2>4. QED
    BY <1>8, <2>1, <2>2, <2>3
<1>15. \A l \in 1 .. Len(loclist') : \A b \in 1 .. n + 1 :
         item'[loclist'[l]].to < item'[itemsBusy'[b]].from
  BY <1>1, <1>4, <1>5, <1>6, <1>7, <1>8 DEF DeliveryOrder, n
<1>16. QED
  BY <1>5, <1>9, <1>10, <1>11, <1>12, <1>13, <1>14, <1>15 DEF DeliveryOrder

(* A prefix of the busy list becomes the batch; nothing overtakes.         *)
LEMMA OrderCollect ==
  ASSUME PlaceInv, DeliveryOrder, Collect
  PROVE  DeliveryOrder'
<1> USE DEF writer, timebase, pacing, pool, account, flags, world
<1>0. TypeOK /\ ThreadShape
  BY DEF PlaceInv
<1>1. /\ UNCHANGED <<sent, item>> /\ Position' = Position /\ FirstUnsent' = 1
  BY DEF Collect, Position, FirstUnsent
<1>2. PICK n \in 0 .. Len(itemsBusy) :
        /\ loclist' = SubSeq(itemsBusy, 1, n)
        /\ itemsBusy' = SubSeq(itemsBusy, n + 1, Len(itemsBusy))
  BY DEF Collect, Batch
<1>3. itemsBusy \in Seq(1 .. totalItems) /\ Len(itemsBusy) \in Nat
  BY <1>0, LenProperties DEF TypeOK
<1>4. /\ Len(loclist') = n /\ Len(itemsBusy') = Len(itemsBusy) - n
      /\ \A l \in 1 .. Len(loclist') :
           l \in 1 .. Len(itemsBusy) /\ loclist'[l] = itemsBusy[l] /\ l <= n
      /\ \A b \in 1 .. Len(itemsBusy') :
           n + b \in 1 .. Len(itemsBusy) /\ itemsBusy'[b] = itemsBusy[n + b]
      /\ \A b, c \in 1 .. Len(itemsBusy') : b < c => n + b < n + c
      /\ \A l \in 1 .. Len(loclist'), b \in 1 .. Len(itemsBusy') : l < n + b
  <2>1. /\ Len(loclist') = n /\ Len(itemsBusy') = Len(itemsBusy) - n
        /\ \A l \in 1 .. n : loclist'[l] = itemsBusy[l]
        /\ \A b \in 1 .. Len(itemsBusy) - n : itemsBusy'[b] = itemsBusy[n + b]
    BY <1>2, <1>3, SplitFacts
  <2>2. QED
    BY <1>3, <2>1
<1>5. /\ \A i, j \in 1 .. Len(sent') : i < j => sent'[i] < sent'[j]
      /\ \A i \in 1 .. Len(sent') : sent'[i] < Position'
  BY <1>1 DEF DeliveryOrder
<1>6. /\ \A i \in 1 .. Len(sent') : \A l \in FirstUnsent' .. Len(loclist') :
           sent'[i] < item'[loclist'[l]].from
      /\ \A i \in 1 .. Len(sent') : \A b \in 1 .. Len(itemsBusy') :
           sent'[i] < item'[itemsBusy'[b]].from
  BY <1>1, <1>4 DEF DeliveryOrder
<1>7. /\ \A l \in 1 .. Len(loclist') :
           /\ item'[loclist'[l]].from <= item'[loclist'[l]].to
           /\ item'[loclist'[l]].to < Position'
      /\ \A b \in 1 .. Len(itemsBusy') :
           /\ item'[itemsBusy'[b]].from <= item'[itemsBusy'[b]].to
           /\ item'[itemsBusy'[b]].to < Position'
  BY <1>1, <1>4 DEF DeliveryOrder
<1>8. /\ \A l, m \in 1 .. Len(loclist') :
           l < m => item'[loclist'[l]].to < item'[loclist'[m]].from
      /\ \A b, c \in 1 .. Len(itemsBusy') :
           b < c => item'[itemsBusy'[b]].to < item'[itemsBusy'[c]].from
      /\ \A l \in 1 .. Len(loclist') : \A b \in 1 .. Len(itemsBusy') :
           item'[loclist'[l]].to < item'[itemsBusy'[b]].from
  <2>1. \A b, c \in 1 .. Len(itemsBusy) :
          b < c => item[itemsBusy[b]].to < item[itemsBusy[c]].from
    BY DEF DeliveryOrder
  <2>2. QED
    BY <1>1, <1>4, <2>1
<1>9. QED
  BY <1>5, <1>6, <1>7, <1>8 DEF DeliveryOrder

(* The callback gets the packets of the next item of the batch, which      *)
(* follow all delivered ones and precede all others.                       *)
LEMMA OrderEmit ==
  ASSUME PlaceInv, DeliveryOrder, Emit
  PROVE  DeliveryOrder'
<1> USE DEF writer, timebase, pacing, pool, queue, account, flags, world
<1>0. TypeOK /\ ThreadShape
  BY DEF PlaceInv
<1> DEFINE e == item[loclist[lpos]]
           run == [i \in 1 .. Length(e) |-> e.from + i - 1]
<1>1. /\ UNCHANGED <<loclist, lpos, itemsBusy, item>> /\ Position' = Position
      /\ FirstUnsent = lpos /\ FirstUnsent' = lpos + 1 /\ sent' = sent \o run
      /\ lpos \in 1 .. Len(loclist)
  BY <1>0 DEF Emit, Position, FirstUnsent, ThreadShape
<1>2. /\ e \in ItemRec /\ e.from \in Int /\ e.to \in Int /\ e.from <= e.to
      /\ e.to < Position /\ Length(e) = e.to - e.from + 1
  <2>1. loclist[lpos] \in 1 .. totalItems
    BY <1>0, <1>1, ListedItems
  <2>2. e \in ItemRec
    BY <1>0, <2>1 DEF TypeOK
  <2>3. e.from <= e.to /\ e.to < Position
    BY <1>1 DEF DeliveryOrder
  <2>4. QED
    BY <2>2, <2>3 DEF ItemRec, Length
<1> DEFINE n == Len(sent)
           k == Length(e)
<1>3. run \in Seq(Int) /\ Len(run) = k /\ k \in Nat
  <2>1. k \in Int /\ k > 0
    BY <1>2
  <2>2. run \in Seq(Int) /\ Len(run) = IF k > 0 THEN k ELSE 0
    BY <1>2, <2>1, RunFacts
  <2>3. QED
    BY <2>1, <2>2
<1>4. /\ n \in Nat /\ Len(sent') = n + k
      /\ \A i \in 1 .. n + k : sent'[i] = IF i <= n THEN sent[i] ELSE run[i - n]
  BY <1>0, <1>1, <1>3, ConcatProperties, LenProperties DEF TypeOK
<1>5. \A i \in 1 .. k : run[i] = e.from + i - 1
  OBVIOUS
<1>6. \A i \in 1 .. n : sent[i] \in Int /\ sent[i] < e.from /\ sent[i] < Position
  BY <1>0, <1>1, ListedItems DEF DeliveryOrder
<1>t. /\ e.from \in Int /\ e.to \in Int /\ k = e.to - e.from + 1 /\ k \in Nat /\ n \in Nat
      /\ e.from <= e.to /\ e.to < Position
  BY <1>2, <1>3, <1>4
<1>l. \A l \in 1 .. Len(loclist) : lpos < l => e.to < item[loclist[l]].from
  BY <1>1 DEF DeliveryOrder
<1>b. \A b \in 1 .. Len(itemsBusy) : e.to < item[itemsBusy[b]].from
  BY <1>1 DEF DeliveryOrder
<1> HIDE DEF n, k, e, run
<1>u. ASSUME NEW i \in 1 .. n + k, i <= n
      PROVE  i \in 1 .. n /\ sent'[i] = sent[i]
  BY <1>4, <1>t, <1>u
<1>v. ASSUME NEW i \in 1 .. n + k, i > n
      PROVE  sent'[i] = e.from + (i - n) - 1 /\ sent'[i] \in e.from .. e.to
  <2>1. i - n \in 1 .. k /\ sent'[i] = run[i - n]
    BY <1>4, <1>t, <1>v
  <2>2. sent'[i] = e.from + (i - n) - 1
    BY <1>5, <2>1
  <2>3. QED
    BY <1>t, <2>1, <2>2
<1>7. \A i \in 1 .. n + k : sent'[i] \in Int /\ sent'[i] <= e.to
  <2> TAKE i \in 1 .. n + k
  <2>1. CASE i <= n
    BY <1>6, <1>t, <1>u, <2>1
  <2>2. CASE i > n
    BY <1>t, <1>v, <2>2
  <2>3. QED
    BY <1>t, <2>1, <2>2
<1>8. \A i, j \in 1 .. Len(sent') : i < j => sent'[i] < sent'[j]
  <2> SUFFICES ASSUME NEW i \in 1 .. n + k, NEW j \in 1 .. n + k, i < j
               PROVE  sent'[i] < sent'[j]
    BY <1>4
  <2>1. CASE j <= n
    <3>1. sent'[i] = sent[i] /\ sent'[j] = sent[j] /\ i \in 1 .. n /\ j \in 1 .. n
      BY <1>t, <1>u, <2>1
    <3>2. \A a, b \in 1 .. n : a < b => sent[a] < sent[b]
      BY DEF DeliveryOrder, n
    <3>3. QED
      BY <3>1, <3>2
  <2>2. CASE i <= n /\ j > n
    <3>1. sent'[i] = sent[i] /\ i \in 1 .. n
      BY <1>u, <2>2
    <3>2. sent'[j] \in e.from .. e.to
      BY <1>v, <2>2
    <3>3. QED
      BY <1>6, <1>t, <3>1, <3>2
  <2>3. CASE i > n
    <3>1. j > n
      BY <1>t, <2>3
    <3>2. sent'[i] = e.from + (i - n) - 1 /\ sent'[j] = e.from + (j - n) - 1
      BY <1>v, <2>3, <3>1
    <3>3. QED
      BY <1>t, <3>2
  <2>4. QED
    BY <1>t, <2>1, <2>2, <2>3
<1>9. \A i \in 1 .. Len(sent') : sent'[i] < Position'
  <2>1. Position \in Int
    <3>1. iv.cur \in Int /\ baStart \in Nat
      BY <1>0 DEF TypeOK, IntervalRec
    <3>2. QED
      BY <3>1 DEF Position
  <2>2. QED
    BY SMTT(30), <1>1, <1>4, <1>7, <1>t, <2>1
<1>10. \A i \in 1 .. Len(sent') : \A l \in FirstUnsent' .. Len(loclist') :
         sent'[i] < item'[loclist'[l]].from
  <2>1. \A l \in lpos + 1 .. Len(loclist) : l \in 1 .. Len(loclist) /\ lpos < l
    BY <1>0, <1>1, ListedItems
  <2>2. \A l \in lpos + 1 .. Len(loclist) :
          e.to < item[loclist[l]].from /\ item[loclist[l]].from \in Int
    BY <1>0, <1>l, <2>1, ListedItems
  <2>3. \A i \in 1 .. n + k : \A l \in lpos + 1 .. Len(loclist) :
          sent'[i] < item[loclist[l]].from
    BY SMTT(30), <1>7, <1>t, <2>2
  <2>4. QED
    BY <1>1, <1>4, <2>3
<1>11. \A i \in 1 .. Len(sent') : \A b \in 1 .. Len(itemsBusy') :
         sent'[i] < item'[itemsBusy'[b]].from
  <2>1. \A b \in 1 .. Len(itemsBusy) :
          e.to < item[itemsBusy[b]].from /\ item[itemsBusy[b]].from \in Int
    BY <1>0, <1>b, ListedItems
  <2>2. \A i \in 1 .. n + k : \A b \in 1 .. Len(itemsBusy) :
          sent'[i] < item[itemsBusy[b]].from
    BY <1>7, <1>t, <2>1
  <2>3. QED
    BY <1>1, <1>4, <2>2
<1>12. QED
  BY <1>1, <1>8, <1>9, <1>10, <1>11 DEF DeliveryOrder

LEMMA OrderAlways == Spec => [](PlaceInv /\ HandFilled /\ DeliveryOrder)
<1> DEFINE Inv == PlaceInv /\ HandFilled /\ DeliveryOrder
<1>1. Init => Inv
  <2>1. Init => DeliveryOrder
    BY DEF Init, DeliveryOrder
  <2>2. QED
    BY <2>1, PlaceInit DEF Init, HandFilled, Filled, Filling
<1>2. Inv /\ [Next]_vars => Inv'
  <2> SUFFICES ASSUME Inv, [Next]_vars PROVE Inv'
    OBVIOUS
  <2>1. PlaceInv' /\ HandFilled'
    BY PlaceStep
  <2>2. DeliveryOrder'
    BY OrderQuiet, OrderEnqueue, OrderCollect, OrderEmit
  <2>3. QED
    BY <2>1, <2>2
<1>3. QED
  BY <1>1, <1>2, PTL DEF Spec

(* Packets are delivered in stream order and at most once: for every       *)
(* stream, every split of it into writes, every chunk length and pool      *)
(* size, and any number of resets at any point.                            *)
THEOREM InOrder == Spec => []DeliveredInOrder
<1>1. DeliveryOrder => DeliveredInOrder
  BY DEF DeliveryOrder, DeliveredInOrder
<1>2. QED
  BY <1>1, OrderAlways, PTL

------------------------------------------------------------------------------
(* The shutdown handshake: threadTerminate is only raised for a thread     *)
(* that announced itself, and threadTerminated is the thread's last write. *)
Handshake ==
  /\ threadRunning => tpc # "start"
  /\ threadTerminated => tpc = "done"
  /\ threadTerminate => wpc \in {"waitTerminated", "freeLists", "freed"} /\ tpc # "start"
  /\ wpc = "waitTerminated" => threadTerminate
  /\ threadTerminate /\ wpc \in {"freeLists", "freed"} => tpc = "done"

LEMMA HandshakeStep ==
  ASSUME TypeOK, Handshake, [Next]_vars PROVE Handshake'
<1> USE DEF vars, writer, timebase, pacing, pool, queue, account, output, flags, world,
            Handshake
<1>1. CASE \/ SetBlockingWrites \/ Write \/ Scan \/ ScanBail \/ TakeItem \/ StampItem
           \/ StampWalltime \/ ScheduleItem \/ EnqueueItem \/ FinishInterval
  <2>1. /\ UNCHANGED <<tpc, flags>>
        /\ wpc \notin {"waitTerminated", "freeLists", "freed"}
        /\ wpc' \notin {"waitTerminated", "freeLists", "freed"}
    BY <1>1 DEF SetBlockingWrites, Write, Scan, ScanBail, TakeItem, StampItem,
       StampWalltime, ScheduleItem, EnqueueItem, FinishInterval
  <2>2. QED
    BY <2>1
<1>2. CASE FreeCall
  BY <1>2 DEF FreeCall
<1>3. CASE FreeWait \/ FreeLists
  BY <1>3 DEF FreeWait, FreeLists, ThreadGone
<1>4. CASE Reset \/ Tick \/ UNCHANGED vars
  BY <1>4 DEF Reset, Tick
<1>5. CASE ThreadStart
  BY <1>5 DEF ThreadStart
<1>6. CASE ThreadLoop \/ ThreadExit
  BY <1>6 DEF ThreadLoop, ThreadExit, LoopEnds
<1>7. CASE Collect \/ Emit \/ Account \/ Recycle
  <2>1. /\ UNCHANGED <<wpc, flags>> /\ tpc \notin {"start", "done"}
        /\ tpc' \notin {"start", "done"}
    BY <1>7 DEF Collect, Emit, Account, Recycle
  <2>2. QED
    BY <2>1
<1>8. QED
  BY <1>1, <1>2, <1>3, <1>4, <1>5, <1>6, <1>7
     DEF Next, WriteCall, FreeReturn, Thread, Stopped

(* smoother_pcr_free never frees the context while the output thread it    *)
(* asked to terminate can still use it.                                    *)
THEOREM FreeWaitsForThread == Spec => []FreedAfterThread
<1>1. Init => Handshake
  BY DEF Init, Handshake
<1>2. TypeOK /\ Handshake /\ [Next]_vars => Handshake'
  BY HandshakeStep
<1>3. Handshake => FreedAfterThread
  BY DEF Handshake, FreedAfterThread, Freed
<1>4. QED
  BY <1>1, <1>2, <1>3, TypeCorrect, PTL DEF Spec

------------------------------------------------------------------------------
(* The refinement of DelayFifo.  What is pending is read off the rest of   *)
(* the batch, from its entry f on, and the busy list.                      *)
Runs(l, f, b, m) ==
  LET q == SubSeq(l, f, Len(l)) \o b
  IN  [i \in 1 .. Len(q) |-> [from |-> m[q[i]].from, to |-> m[q[i]].to]]
Run(m, x) == [from |-> m[x].from, to |-> m[x].to]
RunRecs == [from : Int, to : Int]

LEMMA PendingRuns ==
  /\ Pending = Runs(loclist, FirstUnsent, itemsBusy, item)
  /\ Pending' = Runs(loclist', FirstUnsent', itemsBusy', item')
BY DEF Pending, Runs, LocRest

(* Entry by entry.                                                         *)
LEMMA RunsAre ==
  ASSUME NEW n \in Nat, NEW l \in Seq(1 .. n), NEW b \in Seq(1 .. n),
         NEW f \in 1 .. Len(l) + 1, NEW m \in [1 .. n -> ItemRec]
  PROVE  LET r == Runs(l, f, b, m)
             k == Len(l) - f + 1
         IN  /\ k \in Nat /\ Len(b) \in Nat
             /\ r \in Seq(RunRecs) /\ Len(r) = k + Len(b)
             /\ \A i \in 1 .. k : f + i - 1 \in 1 .. Len(l) /\ r[i] = Run(m, l[f + i - 1])
             /\ \A i \in 1 .. Len(b) : k + i \in 1 .. Len(r) /\ r[k + i] = Run(m, b[i])
<1> DEFINE k == Len(l) - f + 1
           a == SubSeq(l, f, Len(l))
           q == a \o b
           r == Runs(l, f, b, m)
<1>1. Len(l) \in Nat /\ Len(b) \in Nat /\ f \in Int /\ f >= 1 /\ k \in Nat
  BY LenProperties
<1>2. /\ a \in Seq(1 .. n) /\ Len(a) = k /\ \A i \in 1 .. k : a[i] = l[f + i - 1]
  <2>1. f - 1 \in 0 .. Len(l) /\ f - 1 + 1 = f
    BY <1>1
  <2>2. /\ SubSeq(l, f - 1 + 1, Len(l)) \in Seq(1 .. n)
        /\ Len(SubSeq(l, f - 1 + 1, Len(l))) = Len(l) - (f - 1)
        /\ \A i \in 1 .. Len(l) - (f - 1) : SubSeq(l, f - 1 + 1, Len(l))[i] = l[f - 1 + i]
    BY <2>1, SplitFacts
  <2>3. Len(l) - (f - 1) = k /\ \A i \in 1 .. k : f - 1 + i = f + i - 1
    BY <1>1
  <2> QED BY <2>1, <2>2, <2>3
<1> HIDE DEF a
<1>3. /\ q \in Seq(1 .. n) /\ Len(q) = k + Len(b)
      /\ \A i \in 1 .. k + Len(b) : q[i] = IF i <= k THEN a[i] ELSE b[i - k]
  <2>1. /\ q \in Seq(1 .. n) /\ Len(q) = Len(a) + Len(b)
        /\ \A i \in 1 .. Len(a) + Len(b) : q[i] = IF i <= Len(a) THEN a[i] ELSE b[i - Len(a)]
    BY <1>2, ConcatProperties
  <2> QED BY <1>2, <2>1
<1>4. r = [i \in 1 .. Len(q) |-> Run(m, q[i])]
  BY DEF Runs, Run, a
<1> HIDE DEF q, r, k
<1>5. \A i \in 1 .. Len(q) : Run(m, q[i]) \in RunRecs
  <2> TAKE i \in 1 .. Len(q)
  <2>1. q[i] \in 1 .. n
    BY <1>3, ElementOfSeq
  <2>2. m[q[i]] \in ItemRec
    BY <2>1
  <2> QED BY <2>2 DEF Run, RunRecs, ItemRec
<1>6. Len(q) \in Nat
  BY <1>1, <1>3
<1>7. r \in Seq(RunRecs) /\ Len(r) = Len(q) /\ \A i \in 1 .. Len(q) : r[i] = Run(m, q[i])
  <2> DEFINE g == Len(q)
  <2> HIDE DEF Run, RunRecs
  <2>1. r = [i \in 1 .. g |-> Run(m, q[i])] /\ g \in Nat
    BY <1>4, <1>6
  <2>2. \A i \in 1 .. g : Run(m, q[i]) \in RunRecs
    BY <1>5
  <2> HIDE DEF g
  <2>3. r \in [1 .. g -> RunRecs]
    BY <2>1, <2>2
  <2>4. r \in Seq(RunRecs)
    BY <2>1, <2>3
  <2>5. Len(r) = g
    BY <2>1, <2>3, <2>4, LenProperties
  <2> QED BY <2>1, <2>4, <2>5 DEF g
<1>8. \A i \in 1 .. k : i \in 1 .. Len(q) /\ q[i] = l[f + i - 1] /\ f + i - 1 \in 1 .. Len(l)
  <2> TAKE i \in 1 .. k
  <2>1. i \in 1 .. k + Len(b) /\ i <= k
    BY <1>1
  <2>2. f + i - 1 \in 1 .. Len(l)
    BY <1>1 DEF k
  <2> QED BY <1>2, <1>3, <2>1, <2>2
<1>9. \A i \in 1 .. Len(b) : k + i \in 1 .. Len(q) /\ q[k + i] = b[i]
  <2> TAKE i \in 1 .. Len(b)
  <2>1. k + i \in 1 .. k + Len(b) /\ ~(k + i <= k) /\ (k + i) - k = i
    BY <1>1
  <2> QED BY <1>3, <2>1
<1> QED BY <1>1, <1>3, <1>7, <1>8, <1>9 DEF r, k

LEMMA UnsentRange ==
  /\ TypeOK /\ ThreadShape => FirstUnsent \in 1 .. Len(loclist) + 1
  /\ TypeOK' /\ ThreadShape' => FirstUnsent' \in 1 .. Len(loclist') + 1
<1>1. ASSUME TypeOK, ThreadShape PROVE FirstUnsent \in 1 .. Len(loclist) + 1
  <2>1. lpos \in Nat /\ Len(loclist) \in Nat
    BY <1>1, LenProperties DEF TypeOK
  <2>2. QED
    BY <1>1, <2>1 DEF ThreadShape, FirstUnsent
<1>2. ASSUME TypeOK', ThreadShape' PROVE FirstUnsent' \in 1 .. Len(loclist') + 1
  <2>1. lpos' \in Nat /\ Len(loclist') \in Nat
    BY <1>2, LenProperties DEF TypeOK
  <2>2. CASE tpc' \in {"emit", "account"}
    <3>1. lpos' \in 1 .. Len(loclist')
      BY <1>2, <2>2 DEF ThreadShape
    <3>2. FirstUnsent' = lpos' \/ FirstUnsent' = lpos' + 1
      BY DEF FirstUnsent
    <3>3. QED
      BY <2>1, <3>1, <3>2
  <2>3. CASE tpc' \notin {"emit", "account"}
    <3>1. FirstUnsent' = lpos'
      BY <2>3 DEF FirstUnsent
    <3>2. CASE tpc' = "recycle"
      BY <1>2, <2>1, <3>1, <3>2 DEF ThreadShape
    <3>3. CASE tpc' # "recycle"
      BY <1>2, <2>1, <2>3, <3>1, <3>3 DEF ThreadShape
    <3>4. QED
      BY <3>2, <3>3
  <2>4. QED
    BY <2>2, <2>3
<1>3. QED
  BY <1>1, <1>2

(* Pending before and after a step, entry by entry.                        *)
LEMMA PendingBefore ==
  ASSUME PlaceInv
  PROVE  LET k == Len(loclist) - FirstUnsent + 1
         IN  /\ k \in Nat /\ Len(itemsBusy) \in Nat /\ FirstUnsent \in Nat
             /\ Pending \in Seq(RunRecs) /\ Len(Pending) = k + Len(itemsBusy)
             /\ \A i \in 1 .. k : FirstUnsent + i - 1 \in 1 .. Len(loclist)
                                  /\ Pending[i] = Run(item, loclist[FirstUnsent + i - 1])
             /\ \A i \in 1 .. Len(itemsBusy) : k + i \in 1 .. Len(Pending)
                                              /\ Pending[k + i] = Run(item, itemsBusy[i])
<1>1. /\ totalItems \in Nat /\ loclist \in Seq(1 .. totalItems)
      /\ itemsBusy \in Seq(1 .. totalItems) /\ item \in [1 .. totalItems -> ItemRec]
  BY DEF PlaceInv, TypeOK
<1>2. FirstUnsent \in 1 .. Len(loclist) + 1 /\ FirstUnsent \in Nat
  BY <1>1, UnsentRange, LenProperties DEF PlaceInv
<1> DEFINE f == FirstUnsent
<1> HIDE DEF f
<1>3. f \in 1 .. Len(loclist) + 1
  BY <1>2 DEF f
<1>4. LET r == Runs(loclist, f, itemsBusy, item)
          k == Len(loclist) - f + 1
      IN  /\ k \in Nat /\ Len(itemsBusy) \in Nat
          /\ r \in Seq(RunRecs) /\ Len(r) = k + Len(itemsBusy)
          /\ \A i \in 1 .. k : f + i - 1 \in 1 .. Len(loclist)
                               /\ r[i] = Run(item, loclist[f + i - 1])
          /\ \A i \in 1 .. Len(itemsBusy) : k + i \in 1 .. Len(r)
                                           /\ r[k + i] = Run(item, itemsBusy[i])
  BY ONLY <1>1, <1>3, RunsAre
<1>5. QED
  BY <1>2, <1>4, PendingRuns DEF f

LEMMA PendingAfter ==
  ASSUME PlaceInv'
  PROVE  LET k == Len(loclist') - FirstUnsent' + 1
         IN  /\ k \in Nat /\ Len(itemsBusy') \in Nat /\ FirstUnsent' \in Nat
             /\ Pending' \in Seq(RunRecs) /\ Len(Pending') = k + Len(itemsBusy')
             /\ \A i \in 1 .. k : FirstUnsent' + i - 1 \in 1 .. Len(loclist')
                                  /\ Pending'[i] = Run(item', loclist'[FirstUnsent' + i - 1])
             /\ \A i \in 1 .. Len(itemsBusy') : k + i \in 1 .. Len(Pending')
                                               /\ Pending'[k + i] = Run(item', itemsBusy'[i])
<1>1. /\ totalItems' \in Nat /\ loclist' \in Seq(1 .. totalItems')
      /\ itemsBusy' \in Seq(1 .. totalItems') /\ item' \in [1 .. totalItems' -> ItemRec]
  BY DEF PlaceInv, TypeOK
<1>2. FirstUnsent' \in 1 .. Len(loclist') + 1 /\ FirstUnsent' \in Nat
  BY <1>1, UnsentRange, LenProperties DEF PlaceInv
<1> DEFINE f == FirstUnsent'
           l == loclist'
           b == itemsBusy'
           m == item'
           n == totalItems'
<1>3. /\ f \in 1 .. Len(l) + 1 /\ n \in Nat /\ l \in Seq(1 .. n) /\ b \in Seq(1 .. n)
      /\ m \in [1 .. n -> ItemRec]
  BY <1>1, <1>2
<1> HIDE DEF f, l, b, m, n
<1>4. LET r == Runs(l, f, b, m)
          k == Len(l) - f + 1
      IN  /\ k \in Nat /\ Len(b) \in Nat
          /\ r \in Seq(RunRecs) /\ Len(r) = k + Len(b)
          /\ \A i \in 1 .. k : f + i - 1 \in 1 .. Len(l) /\ r[i] = Run(m, l[f + i - 1])
          /\ \A i \in 1 .. Len(b) : k + i \in 1 .. Len(r) /\ r[k + i] = Run(m, b[i])
  BY ONLY <1>3, RunsAre
<1>5. QED
  BY <1>2, <1>4, PendingRuns DEF f, l, b, m, n

LEMMA SameSeq ==
  ASSUME NEW S, NEW r \in Seq(S), NEW s \in Seq(S), Len(r) = Len(s),
         \A i \in 1 .. Len(r) : r[i] = s[i]
  PROVE  r = s
BY SeqEqual

(* A step that leaves both lists, and the packets of their items, alone.   *)
LEMMA PendingKept ==
  ASSUME PlaceInv, PlaceInv', loclist' = loclist, FirstUnsent' = FirstUnsent,
         itemsBusy' = itemsBusy,
         \A l \in 1 .. Len(loclist) : Run(item', loclist[l]) = Run(item, loclist[l]),
         \A b \in 1 .. Len(itemsBusy) : Run(item', itemsBusy[b]) = Run(item, itemsBusy[b])
  PROVE  Pending' = Pending
<1> DEFINE k == Len(loclist) - FirstUnsent + 1
           n == Len(itemsBusy)
<1>1. /\ k \in Nat /\ n \in Nat /\ Pending \in Seq(RunRecs) /\ Len(Pending) = k + n
      /\ \A i \in 1 .. k : FirstUnsent + i - 1 \in 1 .. Len(loclist)
                           /\ Pending[i] = Run(item, loclist[FirstUnsent + i - 1])
      /\ \A i \in 1 .. n : Pending[k + i] = Run(item, itemsBusy[i])
  BY PendingBefore
<1>2. /\ Pending' \in Seq(RunRecs) /\ Len(Pending') = k + n
      /\ \A i \in 1 .. k : Pending'[i] = Run(item', loclist[FirstUnsent + i - 1])
      /\ \A i \in 1 .. n : Pending'[k + i] = Run(item', itemsBusy[i])
  BY PendingAfter
<1>3. /\ \A i \in 1 .. k : Pending'[i] = Pending[i]
      /\ \A i \in 1 .. n : Pending'[k + i] = Pending[k + i]
  BY <1>1, <1>2
<1> HIDE DEF k, n
<1>4. \A i \in 1 .. k + n : Pending'[i] = Pending[i]
  <2> TAKE i \in 1 .. k + n
  <2>1. CASE i <= k
    BY <1>1, <1>3, <2>1
  <2>2. CASE i > k
    <3>1. i - k \in 1 .. n /\ k + (i - k) = i
      BY <1>1, <2>2
    <3>2. Pending'[k + (i - k)] = Pending[k + (i - k)]
      BY <1>3, <3>1
    <3>3. QED
      BY <3>1, <3>2
  <2>3. QED
    BY <1>1, <2>1, <2>2
<1> DEFINE r == Pending
           s == Pending'
<1>5. r \in Seq(RunRecs) /\ s \in Seq(RunRecs) /\ Len(s) = Len(r) /\ \A i \in 1 .. Len(s) : s[i] = r[i]
  BY <1>1, <1>2, <1>4
<1> HIDE DEF r, s
<1>6. s = r
  BY ONLY <1>5, SameSeq
<1>7. QED
  BY <1>6 DEF r, s

(* A step that empties the busy list drops the runs on it.                 *)
LEMMA PendingCut ==
  ASSUME PlaceInv, PlaceInv', loclist' = loclist, FirstUnsent' = FirstUnsent,
         itemsBusy' = << >>,
         \A l \in 1 .. Len(loclist) : Run(item', loclist[l]) = Run(item, loclist[l])
  PROVE  \E n \in 0 .. Len(Pending) : Pending' = SubSeq(Pending, 1, n)
<1> DEFINE k == Len(loclist) - FirstUnsent + 1
           r == Pending
           s == Pending'
<1>1. /\ k \in Nat /\ r \in Seq(RunRecs) /\ Len(r) = k + Len(itemsBusy)
      /\ Len(itemsBusy) \in Nat
      /\ \A i \in 1 .. k : FirstUnsent + i - 1 \in 1 .. Len(loclist)
                           /\ r[i] = Run(item, loclist[FirstUnsent + i - 1])
  BY PendingBefore
<1>2. /\ s \in Seq(RunRecs) /\ Len(s) = k
      /\ \A i \in 1 .. k : s[i] = Run(item', loclist[FirstUnsent + i - 1])
  BY <1>1, PendingAfter
<1>3. k \in 0 .. Len(r)
  BY <1>1
<1>4. \A i \in 1 .. k : s[i] = r[i]
  BY <1>1, <1>2
<1> HIDE DEF k, r, s
<1>5. /\ SubSeq(r, 1, k) \in Seq(RunRecs) /\ Len(SubSeq(r, 1, k)) = k
      /\ \A i \in 1 .. k : SubSeq(r, 1, k)[i] = r[i]
  BY <1>1, <1>3, SplitFacts
<1>6. s = SubSeq(r, 1, k)
  <2> DEFINE c == SubSeq(r, 1, k)
  <2>1. c \in Seq(RunRecs) /\ Len(s) = Len(c) /\ \A i \in 1 .. Len(s) : s[i] = c[i]
    BY <1>2, <1>4, <1>5
  <2> HIDE DEF c
  <2>2. s = c
    BY ONLY <1>2, <2>1, SameSeq
  <2>3. QED
    BY <2>2 DEF c
<1>7. QED
  BY <1>3, <1>6 DEF r, s

(* smoother_pcr_write2 queues a chunk: it is accepted behind all others.   *)
LEMMA EnqueueAccepts ==
  ASSUME PlaceInv, PlaceInv', HandFilled, DeliveryOrder, EnqueueItem
  PROVE  Fifo!Accept
<1> USE DEF timebase, pacing, pool, output, flags, world
<1>0. TypeOK /\ WriterShape /\ ItemsInOnePlace
  BY DEF PlaceInv
<1> DEFINE k == Len(loclist) - FirstUnsent + 1
           n == Len(itemsBusy)
           r == Pending
           s == Pending'
           x == Run(item, hand)
<1>1. /\ UNCHANGED <<sent, loclist, lpos, tpc, totalItems>> /\ FirstUnsent' = FirstUnsent
      /\ wpc = "enqueue" /\ itemsBusy' = Append(itemsBusy, hand)
  BY DEF EnqueueItem, FirstUnsent, Enqueued
<1>2. hand \in 1 .. totalItems /\ item[hand] \in ItemRec
  BY <1>0, <1>1 DEF TypeOK, WriterShape, Filling, NoItem
<1>3. x = [from |-> item[hand].from, to |-> item[hand].to] /\ x \in RunRecs
      /\ x.from = item[hand].from /\ x.to = item[hand].to
  BY <1>2 DEF Run, RunRecs, ItemRec
<1>4. /\ \A y \in 1 .. totalItems : y # hand => item'[y] = item[y]
      /\ Run(item', hand) = x
  <2>1. item \in [1 .. totalItems -> ItemRec]
    BY <1>0 DEF TypeOK
  <2>2. item' = [item EXCEPT ![hand] =
                   [item[hand] EXCEPT !.seqno = seqno, !.sched = EnqueueTime]]
    BY <1>2, <2>1 DEF EnqueueItem
  <2>3. item'[hand] = [item[hand] EXCEPT !.seqno = seqno, !.sched = EnqueueTime]
    BY <1>2, <2>1, <2>2
  <2>4. item'[hand].from = item[hand].from /\ item'[hand].to = item[hand].to
    BY <1>2, <2>3 DEF ItemRec
  <2>5. QED
    BY <2>1, <2>2, <2>4 DEF Run
<1>5. /\ k \in Nat /\ n \in Nat /\ r \in Seq(RunRecs) /\ Len(r) = k + n /\ FirstUnsent \in Nat
      /\ \A i \in 1 .. k : FirstUnsent + i - 1 \in 1 .. Len(loclist)
                           /\ r[i] = Run(item, loclist[FirstUnsent + i - 1])
      /\ \A i \in 1 .. n : r[k + i] = Run(item, itemsBusy[i])
  BY PendingBefore
<1>6. /\ Len(itemsBusy') = n + 1 /\ itemsBusy'[n + 1] = hand
      /\ \A b \in 1 .. n : itemsBusy'[b] = itemsBusy[b]
  BY <1>0, <1>1, AppendProperties DEF TypeOK
<1>7. /\ s \in Seq(RunRecs) /\ Len(s) = k + (n + 1)
      /\ \A i \in 1 .. k : s[i] = Run(item', loclist[FirstUnsent + i - 1])
      /\ \A i \in 1 .. n + 1 : s[k + i] = Run(item', itemsBusy'[i])
  BY <1>1, <1>6, PendingAfter
<1>8. /\ \A l \in 1 .. Len(loclist) : Run(item', loclist[l]) = Run(item, loclist[l])
      /\ \A b \in 1 .. n : Run(item', itemsBusy'[b]) = Run(item, itemsBusy[b])
  <2>1. /\ \A b \in 1 .. n : itemsBusy[b] \in 1 .. totalItems /\ itemsBusy[b] # hand
        /\ \A l \in 1 .. Len(loclist) : loclist[l] \in 1 .. totalItems /\ loclist[l] # hand
    BY <1>0, ListedItems DEF ItemsInOnePlace, In
  <2>2. QED
    BY <1>4, <1>6, <2>1 DEF Run
<1>9. /\ \A i \in 1 .. k : s[i] = r[i]
      /\ \A i \in 1 .. n : s[k + i] = r[k + i]
      /\ s[k + (n + 1)] = x
  <2>1. \A i \in 1 .. n : i \in 1 .. n + 1
    BY <1>5
  <2>2. n + 1 \in 1 .. n + 1
    BY <1>5
  <2>3. s[k + (n + 1)] = x
    BY <1>4, <1>6, <1>7, <2>2
  <2>4. \A i \in 1 .. k : s[i] = r[i]
    BY <1>5, <1>7, <1>8
  <2>5. \A i \in 1 .. n : s[k + i] = r[k + i]
    <3> TAKE i \in 1 .. n
    <3>1. s[k + i] = Run(item', itemsBusy'[i])
      BY <1>7, <2>1
    <3>2. r[k + i] = Run(item, itemsBusy[i])
      BY <1>5
    <3>3. QED
      BY <1>8, <3>1, <3>2
  <2>6. QED
    BY <2>3, <2>4, <2>5
<1>10. /\ \A i \in 1 .. k : r[i].to < x.from
       /\ \A i \in 1 .. n : r[k + i].to < x.from
       /\ \A i \in 1 .. Len(sent) : sent[i] < x.from /\ x.from <= x.to
       /\ x.from <= x.to
  <2>1. Position = item[hand].from /\ item[hand].from <= item[hand].to
    BY <1>1 DEF HandFilled, Filled, Filling, Position, Chunking
  <2>2. /\ \A l \in 1 .. Len(loclist) : item[loclist[l]].to < x.from
        /\ \A b \in 1 .. n : item[itemsBusy[b]].to < x.from
        /\ \A i \in 1 .. Len(sent) : sent[i] < x.from
    BY <1>3, <2>1 DEF DeliveryOrder
  <2>3. \A y : Run(item, y).to = item[y].to
    BY DEF Run
  <2>4. x.from <= x.to
    BY <1>3, <2>1
  <2> HIDE DEF k, n, r, s, x
  <2>5. ASSUME NEW i \in 1 .. k PROVE r[i].to < x.from
    BY <1>5, <2>2, <2>3
  <2>6. ASSUME NEW i \in 1 .. n PROVE r[k + i].to < x.from
    <3>1. r[k + i] = Run(item, itemsBusy[i]) /\ item[itemsBusy[i]].to < x.from
      BY <1>5, <2>2
    <3>2. QED
      BY <2>3, <3>1
  <2>7. QED
    BY <2>2, <2>4, <2>5, <2>6
<1> HIDE DEF k, n, r, s, x
<1>11. \A i \in 1 .. k + n : s[i] = r[i] /\ r[i].to < x.from
  <2> TAKE i \in 1 .. k + n
  <2>1. CASE i <= k
    BY <1>5, <1>9, <1>10, <2>1
  <2>2. CASE i > k
    <3>1. i - k \in 1 .. n /\ k + (i - k) = i
      BY <1>5, <2>2
    <3>2. s[k + (i - k)] = r[k + (i - k)] /\ r[k + (i - k)].to < x.from
      BY <1>9, <1>10, <3>1
    <3>3. QED
      BY <3>1, <3>2
  <2>3. QED
    BY <1>5, <2>1, <2>2
<1>12. Len(s) = Len(r) + 1 /\ Len(r) = k + n /\ s[Len(s)] = x
  <2>1. k + (n + 1) = k + n + 1
    BY <1>5
  <2>2. QED
    BY <1>5, <1>7, <1>9, <2>1
<1>13. s = Append(r, x)
  <2> DEFINE c == Append(r, x)
  <2>1. /\ c \in Seq(RunRecs) /\ Len(c) = Len(r) + 1 /\ c[Len(r) + 1] = x
        /\ \A i \in 1 .. Len(r) : c[i] = r[i]
    BY <1>3, <1>5, AppendProperties
  <2>2. \A i \in 1 .. Len(s) : i \in 1 .. Len(r) \/ i = Len(r) + 1
    BY <1>5, <1>12
  <2>3. \A i \in 1 .. Len(s) : s[i] = c[i]
    BY <1>11, <1>12, <2>1, <2>2
  <2>4. Len(s) = Len(c)
    BY <1>12, <2>1
  <2> HIDE DEF c
  <2>5. s = c
    BY ONLY <1>7, <2>1, <2>3, <2>4, SameSeq
  <2>6. QED
    BY <2>5 DEF c
<1>14. \A i \in 1 .. Len(r) : r[i].to < x.from
  BY <1>11, <1>12
<1>15. QED
  BY <1>1, <1>10, <1>12, <1>13, <1>14 DEF Fifo!Accept, r, s

(* The callback gets the first run, whole.                                 *)
LEMMA EmitDelivers ==
  ASSUME PlaceInv, PlaceInv', Emit
  PROVE  Fifo!Deliver
<1> USE DEF writer, timebase, pacing, pool, queue, account, flags, world
<1>0. TypeOK /\ ThreadShape
  BY DEF PlaceInv
<1> DEFINE k == Len(loclist) - lpos + 1
           n == Len(itemsBusy)
           r == Pending
           s == Pending'
           e == item[loclist[lpos]]
<1>1. /\ UNCHANGED <<loclist, lpos, itemsBusy, item>>
      /\ FirstUnsent = lpos /\ FirstUnsent' = lpos + 1 /\ lpos \in 1 .. Len(loclist)
      /\ sent' = sent \o [i \in 1 .. Length(e) |-> e.from + i - 1]
  BY <1>0 DEF Emit, FirstUnsent, ThreadShape
<1>2. /\ k \in Nat /\ n \in Nat /\ r \in Seq(RunRecs) /\ Len(r) = k + n
      /\ \A i \in 1 .. k : r[i] = Run(item, loclist[lpos + i - 1])
      /\ \A i \in 1 .. n : r[k + i] = Run(item, itemsBusy[i])
  BY <1>1, PendingBefore
<1>3. /\ s \in Seq(RunRecs) /\ Len(s) = (Len(loclist) - (lpos + 1) + 1) + n
      /\ \A i \in 1 .. Len(loclist) - (lpos + 1) + 1 :
           s[i] = Run(item, loclist[(lpos + 1) + i - 1])
      /\ \A i \in 1 .. n : s[(Len(loclist) - (lpos + 1) + 1) + i] = Run(item, itemsBusy[i])
  BY <1>1, PendingAfter
<1>4. Len(loclist) - (lpos + 1) + 1 = k - 1 /\ k >= 1 /\ lpos \in Nat
  BY <1>0, <1>1, <1>2, ListedItems
<1>5. r[1] = Run(item, loclist[lpos])
  <2>1. 1 \in 1 .. k /\ lpos + 1 - 1 = lpos
    BY <1>2, <1>4
  <2>2. QED
    BY <1>2, <2>1
<1>6. \A i \in 1 .. k - 1 : s[i] = r[i + 1]
  <2> TAKE i \in 1 .. k - 1
  <2>1. i + 1 \in 1 .. k /\ lpos + (i + 1) - 1 = (lpos + 1) + i - 1
    BY <1>2, <1>4
  <2>2. s[i] = Run(item, loclist[(lpos + 1) + i - 1])
    BY <1>3, <1>4
  <2>3. r[i + 1] = Run(item, loclist[lpos + (i + 1) - 1])
    BY <1>2, <2>1
  <2>4. QED
    BY <2>1, <2>2, <2>3
<1>7. \A i \in 1 .. n : s[(k - 1) + i] = r[k + i]
  BY <1>2, <1>3, <1>4
<1>8. Len(s) = (k - 1) + n
  BY <1>3, <1>4
<1>9. Fifo!Packets(Run(item, loclist[lpos])) = [i \in 1 .. Length(e) |-> e.from + i - 1]
  <2>1. Run(item, loclist[lpos]).from = e.from /\ Run(item, loclist[lpos]).to = e.to
    BY DEF Run
  <2>2. QED
    BY <2>1 DEF Fifo!Packets, Length
<1> HIDE DEF k, n, r, s, e
<1>10. \A i \in 1 .. Len(s) : s[i] = r[i + 1]
  <2> TAKE i \in 1 .. Len(s)
  <2>1. CASE i <= k - 1
    <3>1. i \in 1 .. k - 1
      BY <1>2, <1>4, <1>8, <2>1
    <3>2. QED
      BY <1>6, <3>1
  <2>2. CASE i > k - 1
    <3>1. i - (k - 1) \in 1 .. n /\ (k - 1) + (i - (k - 1)) = i /\ k + (i - (k - 1)) = i + 1
      BY <1>2, <1>4, <1>8, <2>2
    <3>2. s[(k - 1) + (i - (k - 1))] = r[k + (i - (k - 1))]
      BY <1>7, <3>1
    <3>3. QED
      BY <3>1, <3>2
  <2>3. QED
    BY <1>2, <1>4, <1>8, <2>1, <2>2
<1>11. r # << >> /\ Len(r) \in Nat /\ Len(s) = Len(r) - 1
  <2>1. Len(r) > 0 /\ Len(r) \in Nat /\ Len(s) = Len(r) - 1
    BY <1>2, <1>4, <1>8
  <2>2. QED
    BY <1>2, <2>1, EmptySeq
<1>12. /\ Head(r) = r[1] /\ Tail(r) \in Seq(RunRecs) /\ Len(Tail(r)) = Len(r) - 1
       /\ \A i \in 1 .. Len(Tail(r)) : Tail(r)[i] = r[i + 1]
  BY <1>2, <1>11, TailFacts
<1>13. s = Tail(r)
  <2> DEFINE c == Tail(r)
  <2>1. c \in Seq(RunRecs) /\ Len(s) = Len(c) /\ \A i \in 1 .. Len(s) : s[i] = c[i]
    BY <1>10, <1>11, <1>12
  <2> HIDE DEF c
  <2>2. s = c
    BY ONLY <1>3, <2>1, SameSeq
  <2>3. QED
    BY <2>2 DEF c
<1>14. sent' = sent \o Fifo!Packets(Head(r))
  BY <1>1, <1>5, <1>9, <1>12 DEF e
<1>15. QED
  BY <1>11, <1>13, <1>14 DEF Fifo!Deliver, r, s

(* _queueProcess_makeloc moves runs from one list to the other.            *)
LEMMA CollectKeeps ==
  ASSUME PlaceInv, PlaceInv', Collect
  PROVE  Pending' = Pending
<1> USE DEF writer, timebase, pacing, pool, account, flags, world
<1>0. TypeOK /\ ThreadShape
  BY DEF PlaceInv
<1>1. /\ UNCHANGED item /\ loclist = << >> /\ FirstUnsent = 1 /\ FirstUnsent' = 1
  BY <1>0 DEF Collect, FirstUnsent, ThreadShape
<1>2. PICK n \in 0 .. Len(itemsBusy) :
        /\ loclist' = SubSeq(itemsBusy, 1, n)
        /\ itemsBusy' = SubSeq(itemsBusy, n + 1, Len(itemsBusy))
  BY DEF Collect, Batch
<1> DEFINE g == Len(itemsBusy)
           r == Pending
           s == Pending'
<1>3. /\ Len(loclist') = n /\ Len(itemsBusy') = g - n /\ g \in Nat /\ n \in Nat /\ n <= g
      /\ \A i \in 1 .. n : loclist'[i] = itemsBusy[i]
      /\ \A i \in 1 .. g - n : itemsBusy'[i] = itemsBusy[n + i]
  <2>1. itemsBusy \in Seq(1 .. totalItems) /\ g \in Nat
    BY <1>0, LenProperties DEF TypeOK
  <2>2. QED
    BY <1>2, <2>1, SplitFacts
<1>4. r \in Seq(RunRecs) /\ Len(r) = g /\ \A i \in 1 .. g : r[i] = Run(item, itemsBusy[i])
  <2>1. Len(loclist) - FirstUnsent + 1 = 0
    BY <1>1
  <2>2. /\ r \in Seq(RunRecs) /\ Len(r) = 0 + g
        /\ \A i \in 1 .. g : r[0 + i] = Run(item, itemsBusy[i])
    BY <2>1, PendingBefore
  <2>3. 0 + g = g /\ \A i \in 1 .. g : 0 + i = i
    BY <1>3
  <2>4. QED
    BY <2>2, <2>3
<1>5. /\ s \in Seq(RunRecs) /\ Len(s) = g
      /\ \A i \in 1 .. n : s[i] = Run(item, itemsBusy[i])
      /\ \A i \in 1 .. g - n : s[n + i] = Run(item, itemsBusy[n + i])
  <2>1. Len(loclist') - FirstUnsent' + 1 = n /\ \A i \in 1 .. n : FirstUnsent' + i - 1 = i
    BY <1>1, <1>3
  <2>2. /\ s \in Seq(RunRecs) /\ Len(s) = n + Len(itemsBusy')
        /\ \A i \in 1 .. n : s[i] = Run(item', loclist'[FirstUnsent' + i - 1])
        /\ \A i \in 1 .. Len(itemsBusy') : s[n + i] = Run(item', itemsBusy'[i])
    BY <2>1, PendingAfter
  <2>3. Len(s) = g
    BY <1>3, <2>2
  <2>4. QED
    BY <1>1, <1>3, <2>1, <2>2, <2>3
<1> HIDE DEF g, r, s
<1>6. \A i \in 1 .. g : s[i] = r[i]
  <2> TAKE i \in 1 .. g
  <2>1. CASE i <= n
    BY <1>3, <1>4, <1>5, <2>1
  <2>2. CASE i > n
    <3>1. i - n \in 1 .. g - n /\ n + (i - n) = i
      BY <1>3, <2>2
    <3>2. s[n + (i - n)] = Run(item, itemsBusy[n + (i - n)])
      BY <1>5, <3>1
    <3>3. QED
      BY <1>4, <3>1, <3>2
  <2>3. QED
    BY <1>3, <2>1, <2>2
<1>7. s = r
  <2>1. Len(s) = Len(r) /\ \A i \in 1 .. Len(s) : s[i] = r[i]
    BY <1>4, <1>5, <1>6
  <2>2. QED
    BY ONLY <1>4, <1>5, <2>1, SameSeq
<1>8. QED
  BY <1>7 DEF r, s

(* The batch goes back to the pool when all of it has been delivered.      *)
LEMMA RecycleKeeps ==
  ASSUME PlaceInv, PlaceInv', Recycle
  PROVE  Pending' = Pending
<1> USE DEF writer, timebase, pacing, queue, account, flags, world
<1>0. TypeOK /\ ThreadShape /\ ItemsInOnePlace
  BY DEF PlaceInv
<1>1. /\ UNCHANGED itemsBusy /\ loclist' = << >> /\ FirstUnsent' = 1
      /\ FirstUnsent = Len(loclist) + 1
  BY <1>0 DEF Recycle, FirstUnsent, ThreadShape
<1> DEFINE g == Len(itemsBusy)
           r == Pending
           s == Pending'
<1>2. \A b \in 1 .. g : Run(item', itemsBusy[b]) = Run(item, itemsBusy[b])
  <2>1. \A x \in 1 .. totalItems : ~In(x, loclist) => item'[x] = item[x]
    BY DEF Recycle, In
  <2>2. \A b \in 1 .. g : ~In(itemsBusy[b], loclist) /\ itemsBusy[b] \in 1 .. totalItems
    BY <1>0, ListedItems DEF ItemsInOnePlace, Apart, In
  <2>3. QED
    BY <2>1, <2>2 DEF Run
<1>3. g \in Nat /\ Len(loclist) \in Nat
  BY <1>0, ListedItems
<1>4. 0 + g = g /\ \A i \in 1 .. g : 0 + i = i
  BY <1>3
<1>5. r \in Seq(RunRecs) /\ Len(r) = g /\ \A i \in 1 .. g : r[i] = Run(item, itemsBusy[i])
  <2>1. Len(loclist) - FirstUnsent + 1 = 0
    BY <1>1, <1>3
  <2>2. /\ r \in Seq(RunRecs) /\ Len(r) = 0 + g
        /\ \A i \in 1 .. g : r[0 + i] = Run(item, itemsBusy[i])
    BY <2>1, PendingBefore
  <2>3. QED
    BY <1>4, <2>2
<1>6. s \in Seq(RunRecs) /\ Len(s) = g /\ \A i \in 1 .. g : s[i] = Run(item', itemsBusy[i])
  <2>1. Len(loclist') - FirstUnsent' + 1 = 0
    BY <1>1
  <2>2. /\ s \in Seq(RunRecs) /\ Len(s) = 0 + g
        /\ \A i \in 1 .. g : s[0 + i] = Run(item', itemsBusy[i])
    BY <1>1, <2>1, PendingAfter
  <2>3. QED
    BY <1>4, <2>2
<1>7. Len(s) = Len(r) /\ \A i \in 1 .. Len(s) : s[i] = r[i]
  BY <1>2, <1>5, <1>6
<1> HIDE DEF g, r, s
<1>8. s = r
  BY ONLY <1>5, <1>6, <1>7, SameSeq
<1>9. QED
  BY <1>8 DEF r, s

(* Every other step leaves what is pending alone, or empties the busy      *)
(* list.                                                                   *)
LEMMA QuietStep ==
  ASSUME PlaceInv, PlaceInv', [Next]_vars, ~EnqueueItem, ~Collect, ~Emit, ~Recycle
  PROVE  /\ sent' = sent
         /\ Pending' = Pending \/ \E n \in 0 .. Len(Pending) : Pending' = SubSeq(Pending, 1, n)
         /\ ~Reset /\ ~FreeLists => Pending' = Pending
<1> USE DEF vars, writer, timebase, pacing, pool, queue, account, output, flags, world
<1>0. TypeOK /\ ItemsInOnePlace
  BY DEF PlaceInv
<1>1. /\ \A b \in 1 .. Len(itemsBusy) : itemsBusy[b] \in 1 .. totalItems
      /\ \A l \in 1 .. Len(loclist) : loclist[l] \in 1 .. totalItems
      /\ item \in [1 .. totalItems -> ItemRec] /\ totalItems \in Nat
  BY <1>0, ListedItems DEF TypeOK
<1>2. CASE \/ SetBlockingWrites \/ Write \/ Scan \/ ScanBail \/ StampWalltime
           \/ FinishInterval \/ FreeCall \/ FreeWait \/ ThreadStart
           \/ ThreadLoop \/ ThreadExit \/ Tick \/ UNCHANGED vars
  <2>1. /\ UNCHANGED <<sent, loclist, lpos, item, itemsBusy>>
        /\ tpc = "account" <=> tpc' = "account"
    BY <1>2 DEF SetBlockingWrites, Write, Scan, ScanBail, StampWalltime,
       FinishInterval, FreeCall, FreeWait, ThreadStart, ThreadLoop, ThreadExit, Tick
  <2>2. FirstUnsent' = FirstUnsent
    BY <2>1 DEF FirstUnsent
  <2>3. QED
    BY <2>1, <2>2, PendingKept
<1>3. CASE TakeItem \/ StampItem \/ ScheduleItem
  <2>1. UNCHANGED <<sent, loclist, lpos, tpc, itemsBusy>>
    BY <1>3 DEF TakeItem, StampItem, ScheduleItem
  <2>2. FirstUnsent' = FirstUnsent
    BY <2>1 DEF FirstUnsent
  <2>3. \A x \in 1 .. totalItems : x # hand => item'[x] = item[x]
    <3>1. CASE TakeItem
      <4>1. CASE item' = GrownItems
        BY <1>1, <4>1, SmootherAssumption DEF GrownItems
      <4>2. QED
        BY <3>1, <4>1 DEF TakeItem
    <3>2. CASE StampItem \/ ScheduleItem
      BY <1>1, <3>2 DEF StampItem, ScheduleItem
    <3>3. QED
      BY <1>3, <3>1, <3>2
  <2>4. /\ \A b \in 1 .. Len(itemsBusy) : Run(item', itemsBusy[b]) = Run(item, itemsBusy[b])
        /\ \A l \in 1 .. Len(loclist) : Run(item', loclist[l]) = Run(item, loclist[l])
    <3>1. /\ \A b \in 1 .. Len(itemsBusy) : item'[itemsBusy[b]] = item[itemsBusy[b]]
          /\ \A l \in 1 .. Len(loclist) : item'[loclist[l]] = item[loclist[l]]
      BY <1>0, <1>1, <2>3 DEF ItemsInOnePlace, In
    <3>2. QED
      BY <3>1 DEF Run
  <2>5. QED
    BY <2>1, <2>2, <2>4, PendingKept
<1>4. CASE Account
  <2>1. UNCHANGED <<sent, loclist, item, itemsBusy>> /\ tpc = "account" /\ tpc' # "account"
        /\ lpos' = lpos + 1
    BY <1>4 DEF Account
  <2>2. FirstUnsent' = FirstUnsent
    BY <2>1 DEF FirstUnsent
  <2>3. QED
    BY <2>1, <2>2, PendingKept
<1>5. CASE Reset \/ FreeLists
  <2>1. UNCHANGED <<sent, loclist, lpos, tpc>> /\ itemsBusy' = << >>
    BY <1>5 DEF Reset, FreeLists
  <2>2. FirstUnsent' = FirstUnsent
    BY <2>1 DEF FirstUnsent
  <2>3. \A x \in 1 .. totalItems : ~In(x, itemsBusy) => item'[x] = item[x]
    BY <1>5 DEF Reset, FreeLists, In
  <2>4. \A l \in 1 .. Len(loclist) : ~In(loclist[l], itemsBusy)
    BY <1>0 DEF ItemsInOnePlace, Apart, In
  <2>5. \A l \in 1 .. Len(loclist) : Run(item', loclist[l]) = Run(item, loclist[l])
    BY <1>1, <2>3, <2>4 DEF Run
  <2>6. QED
    BY <1>5, <2>1, <2>2, <2>5, PendingCut
<1>6. QED
  BY <1>2, <1>3, <1>4, <1>5 DEF Next, WriteCall, FreeReturn, Thread, Stopped

(* The smoother implements the delay queue, for every stream, pool, clock  *)
(* and number of resets: a chunk is accepted behind all others, delivered  *)
(* once, whole and in order, and smoother_pcr_reset and smoother_pcr_free  *)
(* only ever discard the newest.                                           *)
THEOREM Refinement == Spec => ImplementsFifo
<1> DEFINE Inv == PlaceInv /\ HandFilled /\ DeliveryOrder
<1>1. Init => Fifo!FifoInit
  <2> SUFFICES ASSUME Init PROVE Pending = << >> /\ sent = << >>
    BY DEF Fifo!FifoInit
  <2>1. loclist = << >> /\ itemsBusy = << >> /\ sent = << >> /\ FirstUnsent = 1
    BY DEF Init, FirstUnsent
  <2>2. Len(loclist) - FirstUnsent + 1 = 0 /\ Len(itemsBusy) = 0
    BY <2>1
  <2>3. Pending \in Seq(RunRecs) /\ Len(Pending) = 0 + 0
    BY <2>2, PlaceInit, PendingBefore
  <2>4. QED
    BY <2>1, <2>3, EmptySeq
<1>2. Inv /\ Inv' /\ [Next]_vars => [Fifo!FifoNext]_(Fifo!fifoVars)
  <2> SUFFICES ASSUME Inv, Inv', [Next]_vars
               PROVE  Fifo!FifoNext \/ (Pending' = Pending /\ sent' = sent)
    BY DEF Fifo!fifoVars
  <2>1. CASE EnqueueItem
    BY <2>1, EnqueueAccepts DEF Fifo!FifoNext
  <2>2. CASE Emit
    BY <2>2, EmitDelivers DEF Fifo!FifoNext
  <2>3. CASE Collect
    BY <2>3, CollectKeeps DEF Collect
  <2>4. CASE Recycle
    BY <2>4, RecycleKeeps DEF Recycle
  <2>5. CASE ~EnqueueItem /\ ~Emit /\ ~Collect /\ ~Recycle
    <3>1. /\ sent' = sent
          /\ Pending' = Pending \/ \E n \in 0 .. Len(Pending) : Pending' = SubSeq(Pending, 1, n)
      BY <2>5, QuietStep
    <3>2. QED
      BY <3>1 DEF Fifo!FifoNext, Fifo!Discard
  <2>6. QED
    BY <2>1, <2>2, <2>3, <2>4, <2>5
<1>3. QED
  BY <1>1, <1>2, OrderAlways, PTL DEF Spec, ImplementsFifo, Fifo!FifoSpec

------------------------------------------------------------------------------
(* The busy list is sorted by output time.  What is appended behind a      *)
(* later item gets that item's time and the ticks of its own packets, so   *)
(* the ticks per packet must not be negative: TicksForward.                *)
InTimeOrder ==
  \A i, j \in 1 .. Len(itemsBusy) :
    i < j => item[itemsBusy[i]].sched <= item[itemsBusy[j]].sched

(* A quotient of C of numbers that are not negative is not negative.       *)
LEMMA QuotNat == \A a \in Nat, b \in Nat \ {0} : Quot(a, b) \in Nat
BY DEF Quot

LEMMA ProductNat == \A a, b \in Nat : a * b \in Nat
OBVIOUS

(* The ticks per packet come from PCRs that follow each other in the       *)
(* stream, or from the interval before.                                    *)
LEMMA TicksStep ==
  ASSUME PlaceInv, TicksForward, [Next]_vars
  PROVE  TicksForward' /\ (StreamForward' <=> StreamForward)
<1> USE DEF vars, writer, timebase, pacing, pool, queue, account, output, flags, world
<1>1. stream' = stream
  BY DEF Next, WriteCall, FreeReturn, Thread, Stopped, SetBlockingWrites, Write,
     Scan, ScanBail, TakeItem, StampItem, StampWalltime, ScheduleItem, EnqueueItem,
     FinishInterval, FreeCall, FreeWait, FreeLists, Reset, ThreadStart, ThreadLoop,
     ThreadExit, Collect, Emit, Account, Recycle, Tick
<1>2. StreamForward' <=> StreamForward
  BY <1>1 DEF StreamForward
<1> SUFFICES ASSUME StreamForward PROVE ipptLast' >= 0 /\ iv'.ippt >= 0
  BY <1>2 DEF TicksForward
<1>3. ipptLast >= 0 /\ iv.ippt >= 0 /\ iv \in IntervalRec /\ ipptLast \in Int
  BY DEF TicksForward, PlaceInv, TypeOK
<1>4. CASE Scan
  <2>1. PICK f \in baStart + 1 .. baEnd, s \in baStart + 1 .. baEnd :
          /\ FirstTwoPcrs(f, s)
          /\ iv' = [first |-> f, end |-> s, cur |-> f, pcr |-> stream[f],
                    ippt |-> IF ScrDiff(stream[f], stream[s]) > JumpTicks THEN ipptLast
                             ELSE Quot(ScrDiff(stream[f], stream[s]), s - f),
                    more |-> \E p \in s + 1 .. baEnd : stream[p] # NoPcr]
    BY <1>4 DEF Scan
  <2>2. /\ f \in 1 .. Len(stream) /\ s \in 1 .. Len(stream) /\ f < s
        /\ f \in Int /\ s \in Int /\ baStart \in Nat /\ baStart < f
    <3>1. baStart \in Nat /\ baEnd \in Nat /\ Len(stream) \in Nat
      BY LenProperties DEF PlaceInv, TypeOK
    <3>2. baEnd <= Len(stream)
      BY DEF PlaceInv, WriterShape
    <3>3. f < s /\ baStart < f
      BY <2>1 DEF FirstTwoPcrs
    <3>4. QED
      BY <3>1, <3>2, <3>3
  <2> DEFINE ticks == ScrDiff(stream[f], stream[s])
  <2>3. ticks >= 0
    <3>1. stream[f] # NoPcr /\ stream[s] # NoPcr
      BY <2>1 DEF FirstTwoPcrs
    <3>2. \A p \in f + 1 .. s - 1 : p \in baStart + 1 .. s - 1 /\ p # f
      BY <2>2
    <3>3. \A p \in f + 1 .. s - 1 : stream[p] = NoPcr
      BY <2>1, <3>2 DEF FirstTwoPcrs
    <3>4. QED
      BY <2>2, <3>1, <3>3 DEF StreamForward
  <2>4. ticks \in Int
    <3>1. stream \in Seq(0 .. MaxScr \cup {NoPcr})
      BY DEF PlaceInv, TypeOK
    <3>2. stream[f] \in 0 .. MaxScr \cup {NoPcr} /\ stream[s] \in 0 .. MaxScr \cup {NoPcr}
      BY <2>2, <3>1, ElementOfSeq
    <3>3. stream[f] \in Int /\ stream[s] \in Int
      BY <3>2, SmootherAssumption DEF NoPcr
    <3>4. QED
      BY <3>3, ScrInt
  <2>5. iv'.ippt = IF ticks > JumpTicks THEN ipptLast ELSE Quot(ticks, s - f)
    BY <2>1
  <2> HIDE DEF ticks
  <2>6. ticks \in Nat /\ s - f \in Nat \ {0}
    BY <2>2, <2>3, <2>4
  <2>7. Quot(ticks, s - f) \in Nat
    BY <2>6, QuotNat
  <2>8. ipptLast' = ipptLast
    BY <1>4 DEF Scan
  <2>9. QED
    BY <1>3, <2>5, <2>7, <2>8
<1>5. CASE EnqueueItem
  BY <1>3, <1>5 DEF EnqueueItem, IntervalRec
<1>6. CASE FinishInterval
  BY <1>3, <1>6 DEF FinishInterval, NoInterval
<1>7. CASE ~Scan /\ ~EnqueueItem /\ ~FinishInterval
  <2>1. UNCHANGED <<iv, ipptLast>>
    BY <1>7 DEF Next, WriteCall, FreeReturn, Thread, Stopped, SetBlockingWrites, Write,
       ScanBail, TakeItem, StampItem, StampWalltime, ScheduleItem, FreeCall, FreeWait,
       FreeLists, Reset, ThreadStart, ThreadLoop, ThreadExit, Collect, Emit, Account,
       Recycle, Tick
  <2>2. QED
    BY <1>3, <2>1
<1>8. QED
  BY <1>4, <1>5, <1>6, <1>7

(* The item is appended with a time that is not before the last one's.     *)
LEMMA SortedEnqueue ==
  ASSUME PlaceInv, HandFilled, InTimeOrder, ipptLast >= 0, EnqueueItem
  PROVE  InTimeOrder'
<1>0. TypeOK /\ WriterShape /\ ItemsInOnePlace
  BY DEF PlaceInv
<1>1. hand \in 1 .. totalItems /\ item[hand] \in ItemRec /\ wpc = "enqueue"
  <2>1. wpc = "enqueue"
    BY DEF EnqueueItem
  <2>2. hand \in 1 .. totalItems
    BY <1>0, <2>1 DEF WriterShape, Filling, NoItem, TypeOK
  <2>3. QED
    BY <1>0, <2>1, <2>2 DEF TypeOK
<1>2. /\ \A x \in 1 .. totalItems : x # hand => item'[x] = item[x]
      /\ item'[hand].sched = EnqueueTime
  <2>1. item \in [1 .. totalItems -> ItemRec]
    BY <1>0 DEF TypeOK
  <2>2. item' = [item EXCEPT ![hand] =
                   [item[hand] EXCEPT !.seqno = seqno, !.sched = EnqueueTime]]
    BY <1>1, <2>1 DEF EnqueueItem
  <2>3. item'[hand] = [item[hand] EXCEPT !.seqno = seqno, !.sched = EnqueueTime]
    BY <1>1, <2>1, <2>2
  <2>4. item'[hand].sched = EnqueueTime
    BY <1>1, <2>3 DEF ItemRec
  <2>5. QED
    BY <2>1, <2>2, <2>4
<1> DEFINE n == Len(itemsBusy)
<1>3. /\ n \in Nat /\ Len(itemsBusy') = n + 1 /\ itemsBusy'[n + 1] = hand
      /\ \A b \in 1 .. n : itemsBusy'[b] = itemsBusy[b]
  BY SMTT(30), <1>0, <1>1, AppendProperties, LenProperties DEF EnqueueItem, Enqueued, TypeOK
<1>4. \A b \in 1 .. n : itemsBusy[b] \in 1 .. totalItems /\ itemsBusy[b] # hand
  BY <1>0, ListedItems DEF ItemsInOnePlace, In
<1>5. \A b \in 1 .. n : item[itemsBusy[b]].sched \in Int
  BY <1>0, <1>4 DEF TypeOK, ItemRec
<1>6. \A b \in 1 .. n : item'[itemsBusy'[b]].sched = item[itemsBusy[b]].sched
  BY <1>2, <1>3, <1>4
<1>7. \A b \in 1 .. n : item[itemsBusy[b]].sched <= EnqueueTime
  <2> SUFFICES ASSUME NEW b \in 1 .. n
               PROVE  item[itemsBusy[b]].sched <= EnqueueTime
    OBVIOUS
  <2> DEFINE last == item[itemsBusy[n]].sched
             mine == item[hand].sched
             more == Quot(ipptLast * Length(item[hand]), TicksPerUs)
  <2>1. n \in 1 .. n /\ last \in Int /\ mine \in Int
    BY <1>1, <1>3, <1>5 DEF ItemRec
  <2>2. item[itemsBusy[b]].sched <= last
    <3>1. b < n => item[itemsBusy[b]].sched <= last
      BY <2>1 DEF InTimeOrder
    <3>2. b < n \/ b = n
      BY <1>3
    <3>3. QED
      BY <2>1, <3>1, <3>2
  <2>3. more \in Nat
    <3>1. item[hand].from = iv.cur /\ iv.cur <= item[hand].to
      BY <1>1 DEF HandFilled, Filled, Filling
    <3>2. Length(item[hand]) \in Nat
      BY <1>1, <3>1 DEF Length, ItemRec
    <3>3. ipptLast \in Nat
      BY <1>0 DEF TypeOK
    <3>4. ipptLast * Length(item[hand]) \in Nat
      BY <3>2, <3>3, ProductNat
    <3>5. QED
      BY <3>4, QuotNat, SmootherAssumption
  <2>4. itemsBusy # << >>
    BY <2>1
  <2>5. EnqueueTime = IF last > mine THEN last + more ELSE mine
    BY <2>4 DEF EnqueueTime
  <2> HIDE DEF last, mine, more
  <2>6. item[itemsBusy[b]].sched \in Int
    BY <1>5
  <2>7. QED
    BY <2>1, <2>2, <2>3, <2>5, <2>6
<1> HIDE DEF n
<1>8. \A b \in 1 .. n + 1 : b \in 1 .. n \/ b = n + 1
  BY <1>3
<1>9. \A b, c \in 1 .. n + 1 : b < c => b \in 1 .. n
  BY <1>3
<1>10. \A i, j \in 1 .. n : i < j => item[itemsBusy[i]].sched <= item[itemsBusy[j]].sched
  BY DEF InTimeOrder, n
<1>11. SUFFICES ASSUME NEW i \in 1 .. n + 1, NEW j \in 1 .. n + 1, i < j
                PROVE  item'[itemsBusy'[i]].sched <= item'[itemsBusy'[j]].sched
  BY <1>3 DEF InTimeOrder
<1>12. i \in 1 .. n /\ item'[itemsBusy'[i]].sched = item[itemsBusy[i]].sched
  BY <1>6, <1>9, <1>11
<1>13. CASE j \in 1 .. n
  BY <1>6, <1>10, <1>11, <1>12, <1>13
<1>14. CASE j = n + 1
  BY <1>2, <1>3, <1>7, <1>12, <1>14
<1>15. QED
  BY <1>8, <1>13, <1>14

(* The other steps shorten the list, empty it or leave it alone.           *)
LEMMA SortedKept ==
  ASSUME PlaceInv, InTimeOrder, [Next]_vars, ~EnqueueItem
  PROVE  InTimeOrder'
<1> USE DEF vars, writer, timebase, pacing, pool, queue, account, output, flags, world
<1>0. TypeOK /\ WriterShape /\ ItemsInOnePlace
  BY DEF PlaceInv
<1>1. /\ \A b \in 1 .. Len(itemsBusy) : itemsBusy[b] \in 1 .. totalItems
      /\ item \in [1 .. totalItems -> ItemRec] /\ totalItems \in Nat
      /\ itemsBusy \in Seq(1 .. totalItems) /\ Len(itemsBusy) \in Nat
  BY <1>0, ListedItems DEF TypeOK
<1>2. ASSUME itemsBusy' = itemsBusy,
             \A b \in 1 .. Len(itemsBusy) : item'[itemsBusy[b]] = item[itemsBusy[b]]
      PROVE  InTimeOrder'
  BY <1>2 DEF InTimeOrder
<1>3. CASE \/ SetBlockingWrites \/ Write \/ Scan \/ ScanBail \/ StampWalltime
           \/ FinishInterval \/ FreeCall \/ FreeWait \/ ThreadStart \/ ThreadLoop
           \/ ThreadExit \/ Emit \/ Account \/ Tick \/ UNCHANGED vars
  <2>1. UNCHANGED <<itemsBusy, item>>
    BY <1>3 DEF SetBlockingWrites, Write, Scan, ScanBail, StampWalltime,
       FinishInterval, FreeCall, FreeWait, ThreadStart, ThreadLoop, ThreadExit, Emit,
       Account, Tick
  <2>2. QED
    BY <1>2, <2>1
<1>4. CASE TakeItem \/ StampItem \/ ScheduleItem
  <2>1. itemsBusy' = itemsBusy
    BY <1>4 DEF TakeItem, StampItem, ScheduleItem
  <2>2. \A x \in 1 .. totalItems : x # hand => item'[x] = item[x]
    <3>1. CASE TakeItem
      <4>1. CASE item' = GrownItems
        BY <1>1, <4>1, SmootherAssumption DEF GrownItems
      <4>2. QED
        BY <3>1, <4>1 DEF TakeItem
    <3>2. CASE StampItem \/ ScheduleItem
      BY <1>1, <3>2 DEF StampItem, ScheduleItem
    <3>3. QED
      BY <1>4, <3>1, <3>2
  <2>3. \A b \in 1 .. Len(itemsBusy) : itemsBusy[b] # hand
    BY <1>0 DEF ItemsInOnePlace, In
  <2>4. QED
    BY <1>1, <1>2, <2>1, <2>2, <2>3
<1>5. CASE FreeLists \/ Reset
  <2>1. itemsBusy' = << >>
    BY <1>5 DEF FreeLists, Reset
  <2>2. Len(itemsBusy') = 0
    BY <2>1
  <2>3. \A i \in 1 .. Len(itemsBusy') : FALSE
    BY <2>2
  <2>4. QED
    BY <2>3 DEF InTimeOrder
<1>6. CASE Recycle
  <2>1. itemsBusy' = itemsBusy
    BY <1>6 DEF Recycle
  <2>2. \A x \in 1 .. totalItems : ~In(x, loclist) => item'[x] = item[x]
    BY <1>6 DEF Recycle, In
  <2>3. \A b \in 1 .. Len(itemsBusy) : ~In(itemsBusy[b], loclist)
    BY <1>0 DEF ItemsInOnePlace, Apart, In
  <2>4. QED
    BY <1>1, <1>2, <2>1, <2>2, <2>3
<1>7. CASE Collect
  <2>1. PICK n \in 0 .. Len(itemsBusy) :
          itemsBusy' = SubSeq(itemsBusy, n + 1, Len(itemsBusy))
    BY <1>7 DEF Collect
  <2>2. item' = item
    BY <1>7 DEF Collect
  <2>3. /\ Len(itemsBusy') = Len(itemsBusy) - n
        /\ \A b \in 1 .. Len(itemsBusy) - n : itemsBusy'[b] = itemsBusy[n + b]
    BY <1>1, <2>1, SplitFacts
  <2>4. /\ \A b \in 1 .. Len(itemsBusy') :
             n + b \in 1 .. Len(itemsBusy) /\ itemsBusy'[b] = itemsBusy[n + b]
        /\ \A b, c \in 1 .. Len(itemsBusy') : b < c => n + b < n + c
    BY <1>1, <2>3
  <2>5. QED
    BY <2>2, <2>4 DEF InTimeOrder
<1>8. QED
  BY <1>3, <1>4, <1>5, <1>6, <1>7 DEF Next, WriteCall, FreeReturn, Thread, Stopped

(* The output times of the busy list never go backwards while the PCRs of  *)
(* the stream do not: for every stream, jumps, wraps and restarts of its   *)
(* clock included, and whatever resets do to the timebase the times are    *)
(* computed from.                                                          *)
THEOREM BusyStaysSorted == Spec => []BusySorted
<1> DEFINE Inv == PlaceInv /\ HandFilled /\ TicksForward /\ BusySorted
<1>1. Init => Inv
  <2> SUFFICES ASSUME Init PROVE Inv
    OBVIOUS
  <2>1. PlaceInv /\ HandFilled
    BY PlaceInit DEF Init, HandFilled, Filled, Filling
  <2>2. TicksForward
    BY DEF Init, NoInterval, TicksForward
  <2>3. BusySorted
    BY DEF Init, BusySorted
  <2>4. QED
    BY <2>1, <2>2, <2>3
<1>2. Inv /\ [Next]_vars => Inv'
  <2> SUFFICES ASSUME Inv, [Next]_vars PROVE Inv'
    OBVIOUS
  <2>1. PlaceInv' /\ HandFilled'
    BY PlaceStep
  <2>2. TicksForward' /\ (StreamForward' <=> StreamForward)
    BY TicksStep
  <2>3. BusySorted <=> (StreamForward => InTimeOrder)
    BY DEF BusySorted, InTimeOrder
  <2>4. BusySorted' <=> (StreamForward' => InTimeOrder')
    BY DEF BusySorted, InTimeOrder
  <2>5. ASSUME StreamForward PROVE InTimeOrder'
    <3>1. InTimeOrder /\ ipptLast >= 0
      BY <2>3, <2>5 DEF TicksForward
    <3>2. QED
      BY <3>1, SortedEnqueue, SortedKept
  <2>6. QED
    BY <2>1, <2>2, <2>4, <2>5
<1>3. QED
  BY <1>1, <1>2, PTL DEF Spec

------------------------------------------------------------------------------
(* Without a reset nothing is lost.  Gapless says of the delivered packets *)
(* and the runs of the refinement what NothingLost says of the lists; the  *)
(* first lemmas are about such sequences alone.                            *)
LEMMA JoinedAppend ==
  ASSUME NEW s \in Seq(Int), NEW r \in Seq(RunRecs), NEW x \in RunRecs,
         NEW t, t = Append(r, x),
         Joined(s, r), EndsBefore(s, r, x.from)
  PROVE  /\ Joined(s, t) /\ EndsBefore(s, t, x.to + 1)
         /\ Len(t) = Len(r) + 1
         /\ t[1] = IF Len(r) > 0 THEN r[1] ELSE x
<1>1. /\ Len(r) \in Nat /\ Len(s) \in Nat /\ t \in Seq(RunRecs) /\ Len(t) = Len(r) + 1
      /\ \A i \in 1 .. Len(r) : t[i] = r[i]
      /\ t[Len(r) + 1] = x
  BY AppendProperties, LenProperties
<1>2. t[1] = IF Len(r) > 0 THEN r[1] ELSE x
  BY <1>1
<1>3. \A i \in 1 .. Len(t) - 1 : t[i + 1].from = t[i].to + 1
  <2> TAKE i \in 1 .. Len(t) - 1
  <2>1. i \in 1 .. Len(r) /\ t[i] = r[i]
    BY <1>1
  <2>2. CASE i < Len(r)
    <3>1. i + 1 \in 1 .. Len(r) /\ i \in 1 .. Len(r) - 1
      BY <1>1, <2>1, <2>2
    <3>2. t[i + 1] = r[i + 1]
      BY <1>1, <3>1
    <3>3. r[i + 1].from = r[i].to + 1
      BY <3>1 DEF Joined
    <3>4. QED
      BY <2>1, <3>2, <3>3
  <2>3. CASE i = Len(r)
    <3>1. Len(r) > 0 /\ t[i + 1] = x
      BY <1>1, <2>1, <2>3
    <3>2. r[i].to + 1 = x.from
      BY <2>3, <3>1 DEF EndsBefore
    <3>3. QED
      BY <2>1, <3>1, <3>2
  <2>4. QED
    BY <1>1, <2>1, <2>2, <2>3
<1>4. Len(s) > 0 => t[1].from = s[Len(s)] + 1
  <2> SUFFICES ASSUME Len(s) > 0 PROVE t[1].from = s[Len(s)] + 1
    OBVIOUS
  <2>1. CASE Len(r) > 0
    BY <1>2, <2>1 DEF Joined
  <2>2. CASE Len(r) = 0
    BY <1>2, <2>2 DEF EndsBefore
  <2>3. QED
    BY <1>1, <2>1, <2>2
<1>5. Joined(s, t)
  BY <1>3, <1>4 DEF Joined
<1>6. Len(t) > 0 /\ t[Len(t)] = x
  BY <1>1
<1>7. EndsBefore(s, t, x.to + 1)
  BY <1>1, <1>6 DEF EndsBefore
<1>8. QED
  BY <1>1, <1>2, <1>5, <1>7

(* The first run x is delivered: d is s with its packets, and t the rest   *)
(* of the runs.                                                            *)
Extended(d, s, x) == d = s \o Fifo!Packets(x)
RestOf(t, r) == Len(t) = Len(r) - 1 /\ \A i \in 1 .. Len(t) : t[i] = r[i + 1]
EndsIn(d, v) == Len(d) > 0 /\ d[Len(d)] = v

LEMMA JoinedDeliver ==
  ASSUME NEW s \in Seq(Int), NEW r \in Seq(RunRecs), NEW p \in Int, NEW d,
         NEW t \in Seq(RunRecs),
         Len(r) > 0, r[1].from <= r[1].to,
         Extended(d, s, r[1]), RestOf(t, r), Joined(s, r), EndsBefore(s, r, p)
  PROVE  Joined(d, t) /\ EndsBefore(d, t, p) /\ EndsIn(d, r[1].to)
<1>0. /\ d = s \o Fifo!Packets(r[1])
      /\ Len(t) = Len(r) - 1 /\ \A i \in 1 .. Len(t) : t[i] = r[i + 1]
  BY DEF Extended, RestOf
<1> DEFINE a == r[1].from
           b == r[1].to
           n == b - a + 1
           g == [i \in 1 .. n |-> a + i - 1]
           m == Len(s)
<1>1. /\ Len(r) \in Nat /\ m \in Nat /\ r[1] \in RunRecs /\ Len(t) \in Nat
      /\ \A i \in 1 .. Len(r) : r[i] \in RunRecs
      /\ \A i \in 1 .. m : s[i] \in Int
  BY LenProperties, ElementOfSeq
<1>2. a \in Int /\ b \in Int /\ a <= b /\ n \in Nat /\ n > 0
  BY <1>1 DEF RunRecs
<1>3. g \in Seq(Int) /\ Len(g) = n /\ \A i \in 1 .. n : g[i] = a + i - 1
  <2> HIDE DEF a, n
  <2>1. g \in Seq(Int) /\ Len(g) = IF n > 0 THEN n ELSE 0
    BY <1>2, RunFacts
  <2>2. QED
    BY <1>2, <2>1
<1> HIDE DEF g
<1>4. /\ Len(d) = m + n
      /\ \A i \in 1 .. m + n : d[i] = IF i <= m THEN s[i] ELSE g[i - m]
  <2>1. d = s \o g
    BY <1>0 DEF g, Fifo!Packets
  <2>2. /\ Len(s \o g) = Len(s) + Len(g)
        /\ \A i \in 1 .. Len(s) + Len(g) :
             (s \o g)[i] = IF i <= Len(s) THEN s[i] ELSE g[i - Len(s)]
    BY <1>3, ConcatProperties
  <2>3. QED
    BY <1>3, <2>1, <2>2
<1>5. /\ \A i \in 1 .. m : d[i] = s[i]
      /\ \A i \in m + 1 .. m + n : d[i] = a + (i - m) - 1
  <2> HIDE DEF a, b, n, m
  <2>1. \A i \in 1 .. m : i \in 1 .. m + n /\ i <= m
    BY <1>1, <1>2
  <2>2. \A i \in m + 1 .. m + n : i \in 1 .. m + n /\ ~(i <= m) /\ i - m \in 1 .. n
    BY <1>1, <1>2
  <2>3. QED
    BY <1>3, <1>4, <2>1, <2>2
<1>6. Len(d) > 0 /\ d[Len(d)] = b
  <2>1. m + n \in m + 1 .. m + n /\ m + n > 0
    BY <1>1, <1>2
  <2>2. d[m + n] = a + ((m + n) - m) - 1
    BY <1>5, <2>1
  <2>3. a + ((m + n) - m) - 1 = b
    BY <1>1, <1>2
  <2>4. QED
    BY <1>4, <2>1, <2>2, <2>3
<1>7. \A i \in 1 .. Len(d) - 1 : d[i + 1] = d[i] + 1
  <2> TAKE i \in 1 .. Len(d) - 1
  <2>0. i \in Int /\ i >= 1 /\ i < m + n
    BY <1>1, <1>2, <1>4
  <2>1. CASE i < m
    <3>1. i \in 1 .. m - 1 /\ i \in 1 .. m /\ i + 1 \in 1 .. m
      BY <1>1, <2>0, <2>1
    <3>2. s[i + 1] = s[i] + 1
      BY <3>1 DEF Joined
    <3>3. QED
      BY <1>5, <3>1, <3>2
  <2>2. CASE i = m
    <3>1. m > 0 /\ m \in 1 .. m /\ m + 1 \in m + 1 .. m + n
      BY <1>1, <1>2, <2>0, <2>2
    <3>2. a = s[m] + 1
      BY <3>1 DEF Joined
    <3>3. d[m] = s[m] /\ d[m + 1] = a + ((m + 1) - m) - 1
      BY <1>5, <3>1
    <3>4. s[m] \in Int
      BY <1>1, <3>1
    <3> HIDE DEF a, b, n, m
    <3>5. a + ((m + 1) - m) - 1 = a
      BY <1>1, <1>2
    <3>6. QED
      BY <2>2, <3>2, <3>3, <3>5
  <2>3. CASE i > m
    <3> HIDE DEF a, b, n, m
    <3>1. i \in m + 1 .. m + n /\ i + 1 \in m + 1 .. m + n
      BY <1>1, <1>2, <2>0, <2>3
    <3>2. d[i] = a + (i - m) - 1 /\ d[i + 1] = a + ((i + 1) - m) - 1
      BY <1>5, <3>1
    <3>3. a + ((i + 1) - m) - 1 = (a + (i - m) - 1) + 1
      BY <1>1, <1>2, <2>0
    <3>4. QED
      BY <3>2, <3>3
  <2>4. i < m \/ i = m \/ i > m
    BY <1>1, <2>0
  <2>5. QED
    BY ONLY <2>1, <2>2, <2>3, <2>4
<1>8. \A i \in 1 .. Len(t) - 1 : t[i + 1].from = t[i].to + 1
  <2> TAKE i \in 1 .. Len(t) - 1
  <2>1. /\ i \in 1 .. Len(t) /\ i + 1 \in 1 .. Len(t) /\ i + 1 \in 1 .. Len(r) - 1
    BY <1>0, <1>1
  <2>2. r[(i + 1) + 1].from = r[i + 1].to + 1
    BY <2>1 DEF Joined
  <2>3. t[i] = r[i + 1] /\ t[i + 1] = r[(i + 1) + 1]
    BY <1>0, <2>1
  <2>4. QED
    BY <2>2, <2>3
<1>9. Len(t) > 0 => t[1].from = d[Len(d)] + 1
  <2> SUFFICES ASSUME Len(t) > 0 PROVE t[1].from = b + 1
    BY <1>6
  <2>1. 1 \in 1 .. Len(t) /\ 1 \in 1 .. Len(r) - 1
    BY <1>0, <1>1
  <2>2. t[1] = r[1 + 1] /\ r[1 + 1].from = r[1].to + 1
    BY <1>0, <2>1 DEF Joined
  <2>3. QED
    BY <2>2
<1>10. EndsBefore(d, t, p)
  <2>1. CASE Len(t) > 0
    <3>1. Len(t) \in 1 .. Len(t) /\ Len(t) + 1 = Len(r)
      BY <1>0, <1>1, <2>1
    <3>2. t[Len(t)] = r[Len(r)]
      BY <1>0, <3>1
    <3>3. r[Len(r)].to + 1 = p
      BY DEF EndsBefore
    <3>4. t[Len(t)].to + 1 = p
      BY <3>2, <3>3
    <3>5. QED
      BY ONLY <1>1, <2>1, <3>4 DEF EndsBefore
  <2>2. CASE Len(t) = 0
    <3>1. Len(r) = 1
      BY <1>0, <1>1, <2>2
    <3>2. b + 1 = p
      BY <3>1 DEF EndsBefore
    <3>3. QED
      BY ONLY <1>6, <2>2, <3>2 DEF EndsBefore
  <2>3. QED
    BY <1>1, <2>1, <2>2
<1>11. Joined(d, t)
  BY <1>7, <1>8, <1>9 DEF Joined
<1>12. QED
  BY <1>6, <1>10, <1>11 DEF EndsIn

(* Runs discarded from the back leave no gap.                              *)
LEMMA JoinedCut ==
  ASSUME NEW s, NEW r \in Seq(RunRecs), NEW n \in 0 .. Len(r), Joined(s, r)
  PROVE  Joined(s, SubSeq(r, 1, n))
<1> DEFINE t == SubSeq(r, 1, n)
<1>1. Len(r) \in Nat /\ n \in Nat /\ n <= Len(r)
  BY LenProperties
<1>2. Len(t) = n /\ \A i \in 1 .. n : t[i] = r[i]
  BY SplitFacts
<1> HIDE DEF t
<1>3. \A i \in 1 .. Len(t) - 1 : t[i + 1].from = t[i].to + 1
  <2> TAKE i \in 1 .. Len(t) - 1
  <2>1. i \in 1 .. n /\ i + 1 \in 1 .. n /\ i \in 1 .. Len(r) - 1
    BY <1>1, <1>2
  <2>2. r[i + 1].from = r[i].to + 1
    BY <2>1 DEF Joined
  <2>3. QED
    BY <1>2, <2>1, <2>2
<1>4. Len(t) > 0 => t[1] = r[1] /\ Len(r) > 0
  BY <1>1, <1>2
<1>5. Joined(s, t)
  BY <1>3, <1>4 DEF Joined
<1>6. QED
  BY <1>5 DEF t

(* The parts of Gapless after a step.                                      *)
LEMMA GaplessParts ==
  ASSUME Joined(sent', Pending'), AtPcr',
         tpc' = "account" => /\ Len(sent') > 0
                             /\ sent'[Len(sent')] = item'[loclist'[lpos']].to,
         ~Freed' => /\ EndsBefore(sent', Pending', Position')
                    /\ totalUserPackets' = Position' - HeldFrom'
  PROVE  Gapless'
<1>1. Joined(sent, Pending)'
  BY DEF Joined
<1>2. ~Freed' => EndsBefore(sent, Pending, Position)'
  BY DEF EndsBefore
<1>3. QED
  BY <1>1, <1>2 DEF Gapless

LEMMA HeldFromAfter ==
  HeldFrom' = IF tpc' = "account" THEN item'[loclist'[lpos']].from
              ELSE IF Len(Pending') > 0 THEN Pending'[1].from ELSE Position'
BY DEF HeldFrom

(* ba starts with a PCR again whenever smoother_pcr_write returns.         *)
LEMMA AtPcrStep ==
  ASSUME PlaceInv, AtPcr, [Next]_vars,
         Len(sent) + Len(Pending) > 0 \/ ~(Len(sent') + Len(Pending') > 0) \/ EnqueueItem
  PROVE  AtPcr'
<1> USE DEF vars, writer, timebase, pacing, pool, queue, account, output, flags, world
<1>0. TypeOK /\ WriterShape
  BY DEF PlaceInv
<1>1. baStart \in Nat /\ baEnd \in Nat /\ iv \in IntervalRec
  BY <1>0 DEF TypeOK
<1>2. CASE Scan
  <2>1. PICK f \in baStart + 1 .. baEnd, s \in baStart + 1 .. baEnd :
          /\ FirstTwoPcrs(f, s)
          /\ iv'.end = s
    BY <1>2 DEF Scan
  <2>2. wpc' = "take" /\ stream' = stream
    BY <1>2 DEF Scan
  <2>3. stream[s] # NoPcr
    BY <2>1 DEF FirstTwoPcrs
  <2>4. QED
    BY <2>1, <2>2, <2>3 DEF AtPcr
<1>3. CASE EnqueueItem
  <2>1. wpc = "enqueue" /\ wpc' \in {"take", "finish"} /\ stream' = stream
    BY <1>3 DEF EnqueueItem
  <2>2. iv'.end = iv.end
    BY <1>1, <1>3 DEF EnqueueItem, IntervalRec
  <2>3. QED
    BY <2>1, <2>2 DEF AtPcr, Chunking, Filling
<1>4. CASE TakeItem \/ StampItem \/ StampWalltime \/ ScheduleItem
  <2>1. /\ wpc \in Chunking /\ wpc' \notin {"idle", "scan"} /\ UNCHANGED <<iv, stream>>
    BY <1>4 DEF TakeItem, StampItem, StampWalltime, ScheduleItem, Chunking, Filling
  <2>2. QED
    BY <2>1 DEF AtPcr
<1>5. CASE FinishInterval
  <2>1. /\ wpc = "finish" /\ wpc' \in {"scan", "idle"} /\ baStart' = iv.end - 1
        /\ UNCHANGED <<stream, baEnd>>
    BY <1>5 DEF FinishInterval, TrimPoint
  <2>2. iv.end <= baEnd /\ iv.end \in Int
    BY <1>0, <1>1, <2>1 DEF WriterShape, IntervalRec
  <2>3. stream[iv.end] # NoPcr
    BY <2>1 DEF AtPcr
  <2>4. baStart' < baEnd' /\ baStart' + 1 = iv.end
    BY <1>1, <2>1, <2>2
  <2>5. stream'[baStart' + 1] # NoPcr
    BY <2>1, <2>3, <2>4
  <2>6. wpc' \notin Chunking \cup {"finish"}
    BY <2>1 DEF Chunking, Filling
  <2>7. QED
    BY <2>4, <2>5, <2>6 DEF AtPcr
<1>6. CASE SetBlockingWrites \/ Write \/ ScanBail
  <2>1. /\ wpc \in {"idle", "scan"} /\ wpc' \in {"idle", "scan"}
        /\ UNCHANGED <<stream, baStart>>
    BY <1>6 DEF SetBlockingWrites, Write, ScanBail
  <2>2. baEnd' \in Nat /\ baEnd <= baEnd'
    <3>1. CASE Write
      <4>1. PICK n \in baEnd + 1 .. Len(stream) : baEnd' = n
        BY <3>1 DEF Write
      <4>2. Len(stream) \in Nat
        BY <1>0, LenProperties DEF TypeOK
      <4>3. QED
        BY <1>1, <4>1, <4>2
    <3>2. CASE SetBlockingWrites \/ ScanBail
      BY <1>1, <3>2 DEF SetBlockingWrites, ScanBail
    <3>3. QED
      BY <1>6, <3>1, <3>2
  <2>3. wpc' \notin Chunking \cup {"finish"}
    BY <2>1 DEF Chunking, Filling
  <2>4. ASSUME Len(sent') + Len(Pending') > 0
        PROVE  baStart' < baEnd' /\ stream'[baStart' + 1] # NoPcr
    <3>1. ~EnqueueItem
      BY <2>1 DEF EnqueueItem
    <3>2. baStart < baEnd /\ stream[baStart + 1] # NoPcr
      BY <2>1, <2>4, <3>1 DEF AtPcr
    <3>3. QED
      BY <1>1, <2>1, <2>2, <3>2
  <2>5. QED
    BY <2>3, <2>4 DEF AtPcr
<1>7. CASE FreeCall \/ FreeWait \/ FreeLists
  <2>1. wpc' \in {"waitTerminated", "freeLists", "freed"}
    BY <1>7 DEF FreeCall, FreeWait, FreeLists
  <2>2. QED
    BY <2>1 DEF AtPcr, Chunking, Filling
<1>8. CASE Reset \/ Thread \/ Tick \/ UNCHANGED vars
  <2>1. UNCHANGED <<wpc, iv, stream, baStart, baEnd>>
    BY <1>8 DEF Reset, Thread, ThreadStart, ThreadLoop, ThreadExit, Collect, Emit,
       Account, Recycle, Tick
  <2>2. CASE EnqueueItem
    BY <1>3, <2>2
  <2>3. CASE ~EnqueueItem
    <3>1. Len(sent') + Len(Pending') > 0 => Len(sent) + Len(Pending) > 0
      BY <2>3
    <3>2. QED
      BY <2>1, <3>1 DEF AtPcr
  <2>4. QED
    BY <2>2, <2>3
<1>9. QED
  BY <1>2, <1>3, <1>4, <1>5, <1>6, <1>7, <1>8 DEF Next, WriteCall, FreeReturn, Stopped

(* Once something was queued, only queueing moves the position.            *)
LEMMA PositionStep ==
  ASSUME PlaceInv, AtPcr, [Next]_vars, ~EnqueueItem, ~FreeLists,
         Len(sent) + Len(Pending) > 0 \/ ~Scan
  PROVE  Position' = Position
<1> USE DEF vars, writer, timebase, pacing, pool, queue, account, output, flags, world
<1>0. TypeOK /\ WriterShape
  BY DEF PlaceInv
<1>1. baStart \in Nat /\ baEnd \in Nat /\ iv \in IntervalRec
  BY <1>0 DEF TypeOK
<1>2. CASE \/ SetBlockingWrites \/ Write \/ ScanBail \/ FreeCall \/ FreeWait
  <2>1. baStart' = baStart /\ wpc \notin Chunking \cup {"finish"}
        /\ wpc' \notin Chunking \cup {"finish"}
    BY <1>2 DEF SetBlockingWrites, Write, ScanBail, FreeCall, FreeWait, Chunking, Filling
  <2>2. QED
    BY <2>1 DEF Position
<1>3. CASE \/ TakeItem \/ StampItem \/ StampWalltime \/ ScheduleItem
  <2>1. iv' = iv /\ wpc \in Chunking \cup {"finish"} /\ wpc' \in Chunking \cup {"finish"}
    BY <1>3 DEF TakeItem, StampItem, StampWalltime, ScheduleItem, Chunking, Filling
  <2>2. QED
    BY <2>1 DEF Position
<1>4. CASE Scan
  <2>1. PICK f \in baStart + 1 .. baEnd, s \in baStart + 1 .. baEnd :
          FirstTwoPcrs(f, s) /\ iv'.cur = f
    BY <1>4 DEF Scan
  <2>2. wpc = "scan" /\ wpc' = "take"
    BY <1>4 DEF Scan
  <2>3. Position = baStart + 1 /\ Position' = f
    BY <2>1, <2>2 DEF Position, Chunking, Filling
  <2>4. stream[baStart + 1] # NoPcr
    BY <1>4, <2>2 DEF AtPcr
  <2>5. baStart + 1 \in baStart + 1 .. s - 1
    BY <1>1, <2>1 DEF FirstTwoPcrs
  <2>6. baStart + 1 = f
    BY <2>1, <2>4, <2>5 DEF FirstTwoPcrs
  <2>7. QED
    BY <2>3, <2>6
<1>5. CASE FinishInterval
  <2>1. /\ wpc = "finish" /\ wpc' \in {"scan", "idle"} /\ baStart' = iv.end - 1
    BY <1>5 DEF FinishInterval, TrimPoint
  <2>2. Position = iv.cur /\ Position' = baStart' + 1 /\ iv.cur = iv.end
    BY <1>0, <2>1 DEF Position, Chunking, Filling, WriterShape
  <2>3. iv.end \in Int
    BY <1>1 DEF IntervalRec
  <2>4. QED
    BY <2>1, <2>2, <2>3
<1>6. CASE \/ Reset \/ Thread \/ Tick \/ UNCHANGED vars
  <2>1. UNCHANGED <<wpc, iv, baStart>>
    BY <1>6 DEF Reset, Thread, ThreadStart, ThreadLoop, ThreadExit, Collect, Emit,
       Account, Recycle, Tick
  <2>2. QED
    BY <2>1 DEF Position
<1>7. QED
  BY <1>2, <1>3, <1>4, <1>5, <1>6 DEF Next, WriteCall, FreeReturn, Stopped

(* A step that leaves the runs, the delivered packets and the count alone. *)
LEMMA GaplessKept ==
  ASSUME PlaceInv, Gapless, AtPcr', sent' = sent, Pending' = Pending, Freed' = Freed,
         tpc = "account" <=> tpc' = "account",
         tpc = "account" => item'[loclist'[lpos']] = item[loclist[lpos]],
         totalUserPackets' = totalUserPackets,
         Position \in Int, Position' \in Int,
         Position' = Position \/ ~(Len(sent) + Len(Pending) > 0)
  PROVE  Gapless'
<1>1. Joined(sent', Pending')
  BY DEF Gapless
<1>2. tpc' = "account" => /\ Len(sent') > 0
                          /\ sent'[Len(sent')] = item'[loclist'[lpos']].to
  BY DEF Gapless
<1>3. CASE Position' = Position
  <2>1. HeldFrom' = HeldFrom
    BY <1>3, HeldFromAfter DEF HeldFrom
  <2>2. ~Freed' => /\ EndsBefore(sent', Pending', Position')
                   /\ totalUserPackets' = Position' - HeldFrom'
    BY <1>3, <2>1 DEF Gapless
  <2>3. QED
    BY <1>1, <1>2, <2>2, GaplessParts
<1>4. CASE ~(Len(sent) + Len(Pending) > 0)
  <2>1. Len(sent) \in Nat /\ Len(Pending) \in Nat
    BY PendingBefore, LenProperties DEF PlaceInv, TypeOK
  <2>2. Len(sent) = 0 /\ Len(Pending) = 0
    BY <1>4, <2>1
  <2>3. tpc # "account" /\ tpc' # "account"
    BY <2>2 DEF Gapless
  <2>4. HeldFrom = Position /\ HeldFrom' = Position'
    BY <2>2, <2>3, HeldFromAfter DEF HeldFrom
  <2>5. ~Freed => totalUserPackets = 0
    BY <2>4 DEF Gapless
  <2>6. ASSUME ~Freed' PROVE totalUserPackets' = Position' - HeldFrom'
    <3>1. totalUserPackets' = 0
      BY <2>5, <2>6
    <3>2. \A q \in Int : q - q = 0
      OBVIOUS
    <3>3. QED
      BY <2>4, <3>1, <3>2
  <2>7. EndsBefore(sent', Pending', Position')
    BY <2>2 DEF EndsBefore
  <2>8. QED
    BY <1>1, <1>2, <2>6, <2>7, GaplessParts
<1>5. QED
  BY <1>3, <1>4

LEMMA GaplessQuiet ==
  ASSUME PlaceInv, PlaceInv', HandFilled, Gapless, [Next]_vars,
         ~EnqueueItem, ~Emit, ~Account, ~FreeLists, ~Reset
  PROVE  Gapless'
<1> USE DEF vars, writer, timebase, pacing, pool, queue, account, output, flags, world
<1>0. TypeOK /\ ThreadShape /\ WriterShape /\ ItemsInOnePlace /\ AtPcr
  BY DEF PlaceInv, Gapless
<1>1. sent' = sent /\ Pending' = Pending
  <2>1. CASE Collect
    BY <2>1, CollectKeeps DEF Collect
  <2>2. CASE Recycle
    BY <2>2, RecycleKeeps DEF Recycle
  <2>3. CASE ~Collect /\ ~Recycle
    BY <2>3, QuietStep
  <2>4. QED
    BY <2>1, <2>2, <2>3
<1>2. AtPcr'
  BY <1>0, <1>1, AtPcrStep
<1>3. Position \in Int /\ Position' \in Int
  BY PositionGrows
<1>4. Position' = Position \/ ~(Len(sent) + Len(Pending) > 0)
  BY <1>0, PositionStep
<1>5. CASE \/ SetBlockingWrites \/ Write \/ Scan \/ ScanBail \/ StampWalltime
           \/ FinishInterval \/ FreeCall \/ FreeWait \/ ThreadStart
           \/ ThreadLoop \/ ThreadExit \/ Tick \/ UNCHANGED vars
  <2>1. /\ UNCHANGED <<loclist, lpos, item, totalUserPackets>> /\ Freed' = Freed
        /\ tpc = "account" <=> tpc' = "account"
    BY <1>5 DEF SetBlockingWrites, Write, Scan, ScanBail, StampWalltime, Freed,
       FinishInterval, FreeCall, FreeWait, ThreadStart, ThreadLoop, ThreadExit, Tick
  <2>2. QED
    BY <1>1, <1>2, <1>3, <1>4, <2>1, GaplessKept
<1>6. CASE TakeItem \/ StampItem \/ ScheduleItem
  <2>1. UNCHANGED <<loclist, lpos, tpc, totalUserPackets>> /\ Freed' = Freed
    BY <1>6 DEF TakeItem, StampItem, ScheduleItem, Freed
  <2>2. /\ \A l \in 1 .. Len(loclist) : loclist[l] \in 1 .. totalItems
        /\ item \in [1 .. totalItems -> ItemRec] /\ totalItems \in Nat
    BY <1>0, ListedItems DEF TypeOK
  <2>3. \A x \in 1 .. totalItems : x # hand => item'[x] = item[x]
    <3>1. CASE TakeItem
      <4>1. CASE item' = GrownItems
        BY <2>2, <4>1, SmootherAssumption DEF GrownItems
      <4>2. QED
        BY <3>1, <4>1 DEF TakeItem
    <3>2. CASE StampItem \/ ScheduleItem
      BY <2>2, <3>2 DEF StampItem, ScheduleItem
    <3>3. QED
      BY <1>6, <3>1, <3>2
  <2>4. \A l \in 1 .. Len(loclist) : item'[loclist[l]] = item[loclist[l]]
    BY <1>0, <2>2, <2>3 DEF ItemsInOnePlace, In
  <2>5. tpc = "account" => lpos \in 1 .. Len(loclist)
    BY <1>0 DEF ThreadShape
  <2>6. tpc = "account" => item'[loclist'[lpos']] = item[loclist[lpos]]
    BY <2>1, <2>4, <2>5
  <2>7. tpc = "account" <=> tpc' = "account"
    BY <2>1
  <2>8. QED
    BY <1>1, <1>2, <1>3, <1>4, <2>1, <2>6, <2>7, GaplessKept
<1>7. CASE Collect \/ Recycle
  <2>1. /\ tpc # "account" /\ tpc' # "account" /\ UNCHANGED totalUserPackets
        /\ Freed' = Freed
    BY <1>7 DEF Collect, Recycle, Freed
  <2>2. QED
    BY <1>1, <1>2, <1>3, <1>4, <2>1, GaplessKept
<1>8. QED
  BY <1>5, <1>6, <1>7 DEF Next, WriteCall, FreeReturn, Thread, Stopped

(* smoother_pcr_free drops the busy list, the newest packets.              *)
LEMMA GaplessFree ==
  ASSUME PlaceInv, PlaceInv', Gapless, FreeLists
  PROVE  Gapless'
<1> USE DEF pacing, timebase, output, flags, world, account
<1>1. /\ Freed' /\ wpc' = "freed" /\ UNCHANGED <<tpc, loclist, lpos, item, sent>>
  BY DEF FreeLists, Freed
<1>2. AtPcr'
  BY <1>1 DEF AtPcr, Chunking, Filling
<1>3. \E n \in 0 .. Len(Pending) : Pending' = SubSeq(Pending, 1, n)
  <2>1. itemsBusy' = << >> /\ FirstUnsent' = FirstUnsent
    BY <1>1 DEF FreeLists, FirstUnsent
  <2>2. QED
    BY <1>1, <2>1, PendingCut
<1>4. Joined(sent', Pending')
  <2>1. Pending \in Seq(RunRecs) /\ Joined(sent, Pending)
    BY PendingBefore DEF Gapless
  <2>2. QED
    BY <1>1, <1>3, <2>1, JoinedCut
<1>5. tpc' = "account" => /\ Len(sent') > 0
                          /\ sent'[Len(sent')] = item'[loclist'[lpos']].to
  BY <1>1 DEF Gapless
<1>6. QED
  BY <1>1, <1>2, <1>4, <1>5, GaplessParts

(* The packets of the served item leave the count.                         *)
LEMMA GaplessAccount ==
  ASSUME PlaceInv, PlaceInv', HandFilled, Gapless, [Next]_vars, Account
  PROVE  Gapless'
<1> USE DEF writer, timebase, pacing, pool, queue, flags, world
<1>0. TypeOK /\ ThreadShape /\ AtPcr
  BY DEF PlaceInv, Gapless
<1>1. /\ tpc = "account" /\ tpc' # "account" /\ ~Freed /\ UNCHANGED wpc
      /\ totalUserPackets' = totalUserPackets - Length(item[loclist[lpos]])
  BY DEF Account, Freed, Spent
<1>2. ~EnqueueItem /\ ~FreeLists /\ ~Scan /\ ~Reset /\ ~Collect /\ ~Emit /\ ~Recycle
  BY <1>1 DEF Account, EnqueueItem, FreeLists, Scan, Reset, Collect, Emit, Recycle, output
<1>3. sent' = sent /\ Pending' = Pending
  BY <1>2, QuietStep
<1>4. AtPcr'
  BY <1>0, <1>3, AtPcrStep
<1>5. Position' = Position /\ Position \in Int
  BY <1>0, <1>2, PositionStep, PositionGrows
<1> DEFINE e == item[loclist[lpos]]
<1>6. e.from \in Int /\ e.to \in Int /\ Length(e) = e.to - e.from + 1
  <2>1. lpos \in 1 .. Len(loclist)
    BY <1>0, <1>1 DEF ThreadShape
  <2>2. QED
    BY <1>0, <2>1, ListedItems DEF Length
<1>7. /\ Len(sent) > 0 /\ sent[Len(sent)] = e.to
      /\ EndsBefore(sent, Pending, Position) /\ Joined(sent, Pending)
      /\ totalUserPackets = Position - e.from
  BY <1>1 DEF Gapless, HeldFrom
<1>8. HeldFrom' = e.to + 1
  <2>1. Len(Pending) \in Nat
    BY PendingBefore, LenProperties
  <2>2. CASE Len(Pending) > 0
    <3>1. HeldFrom' = Pending[1].from
      BY <1>1, <1>3, <2>2, HeldFromAfter
    <3>2. QED
      BY <1>7, <2>2, <3>1 DEF Joined
  <2>3. CASE Len(Pending) = 0
    <3>1. HeldFrom' = Position
      BY <1>1, <1>3, <1>5, <2>3, HeldFromAfter
    <3>2. QED
      BY <1>7, <2>3, <3>1 DEF EndsBefore
  <2>4. QED
    BY <2>1, <2>2, <2>3
<1> DEFINE a == e.from
           b == e.to
<1>9. totalUserPackets' = Position' - HeldFrom'
  <2>1. /\ a \in Int /\ b \in Int /\ Position \in Int /\ Position' = Position
        /\ HeldFrom' = b + 1 /\ totalUserPackets = Position - a
        /\ totalUserPackets' = totalUserPackets - (b - a + 1)
    BY <1>1, <1>5, <1>6, <1>7, <1>8
  <2> HIDE DEF a, b
  <2>2. QED
    BY ONLY <2>1
<1>10. EndsBefore(sent', Pending', Position') /\ Joined(sent', Pending')
  BY <1>3, <1>5, <1>7
<1>11. QED
  BY <1>1, <1>4, <1>9, <1>10, GaplessParts

(* The callback gets the first run; the count still holds it.              *)
LEMMA GaplessEmit ==
  ASSUME PlaceInv, PlaceInv', HandFilled, DeliveryOrder, Gapless, [Next]_vars, Emit
  PROVE  Gapless'
<1> USE DEF writer, timebase, pacing, pool, queue, account, flags, world
<1>0. TypeOK /\ ThreadShape /\ AtPcr
  BY DEF PlaceInv, Gapless
<1>1. /\ tpc = "emit" /\ tpc' = "account" /\ ~Freed
      /\ UNCHANGED <<wpc, loclist, lpos, item, totalUserPackets>>
  BY DEF Emit
<1>2. ~EnqueueItem /\ ~FreeLists /\ ~Scan
  BY <1>1 DEF Emit, EnqueueItem, FreeLists, Scan
<1>3. Position' = Position /\ Position \in Int
  BY <1>0, <1>2, PositionStep, PositionGrows
<1> DEFINE r == Pending
           t == Pending'
           s == sent
           d == sent'
           p == Position
           e == item[loclist[lpos]]
<1>4. lpos \in 1 .. Len(loclist) /\ FirstUnsent = lpos
  BY <1>0, <1>1 DEF ThreadShape, FirstUnsent
<1>5. /\ r \in Seq(RunRecs) /\ Len(r) \in Nat /\ Len(r) > 0 /\ r[1] = Run(item, loclist[lpos])
  <2>1. /\ r \in Seq(RunRecs) /\ Len(loclist) - lpos + 1 \in Nat
        /\ Len(r) = (Len(loclist) - lpos + 1) + Len(itemsBusy) /\ Len(itemsBusy) \in Nat
        /\ \A i \in 1 .. Len(loclist) - lpos + 1 : r[i] = Run(item, loclist[lpos + i - 1])
    BY <1>4, PendingBefore
  <2>2. Len(loclist) \in Nat
    BY <1>0, ListedItems
  <2>3. 1 \in 1 .. Len(loclist) - lpos + 1 /\ lpos + 1 - 1 = lpos /\ Len(r) > 0
        /\ Len(r) \in Nat
    BY <1>4, <2>1, <2>2
  <2>4. QED
    BY <2>1, <2>3
<1>6. r[1].from = e.from /\ r[1].to = e.to
  BY <1>5 DEF Run
<1>7. e.from <= e.to
  BY <1>4 DEF DeliveryOrder
<1>8. d = s \o Fifo!Packets(Head(r)) /\ t = Tail(r)
  BY EmitDelivers DEF Fifo!Deliver
<1>9. /\ Head(r) = r[1] /\ t \in Seq(RunRecs) /\ Len(t) = Len(r) - 1
      /\ \A i \in 1 .. Len(t) : t[i] = r[i + 1]
  <2>1. r # << >>
    BY <1>5
  <2>2. QED
    BY <1>5, <1>8, <2>1, TailFacts
<1>10. d = s \o Fifo!Packets(r[1])
  BY <1>8, <1>9
<1>11. Joined(s, r) /\ EndsBefore(s, r, p) /\ totalUserPackets = Position - HeldFrom
  BY <1>1 DEF Gapless
<1>12. s \in Seq(Int) /\ d \in Seq(Int) /\ p \in Int /\ r[1].from <= r[1].to
  BY <1>0, <1>3, <1>6, <1>7 DEF TypeOK, PlaceInv
<1>13. HeldFrom = e.from /\ HeldFrom' = e.from
  <2>1. HeldFrom = Pending[1].from
    BY <1>1, <1>5 DEF HeldFrom
  <2>2. HeldFrom' = e.from
    BY <1>1, HeldFromAfter
  <2>3. QED
    BY <1>6, <2>1, <2>2
<1>14. totalUserPackets' = Position' - HeldFrom'
  BY <1>1, <1>3, <1>11, <1>13
<1>15. AtPcr'
  <2>1. Len(sent) + Len(Pending) > 0
    BY <1>0, <1>5, LenProperties DEF TypeOK
  <2>2. QED
    BY <1>0, <2>1, AtPcrStep
<1>16. r[1].to = item'[loclist'[lpos']].to
  BY <1>1, <1>6
<1> HIDE DEF r, t, s, d, p, e
<1>17. Joined(d, t) /\ EndsBefore(d, t, p) /\ EndsIn(d, r[1].to)
  <2>1. Joined(s, r) /\ EndsBefore(s, r, p)
    BY <1>11
  <2>2. r \in Seq(RunRecs) /\ Len(r) > 0
    BY <1>5
  <2>3. t \in Seq(RunRecs) /\ RestOf(t, r) /\ Extended(d, s, r[1])
    BY <1>9, <1>10 DEF RestOf, Extended
  <2>4. QED
    BY ONLY <1>12, <2>1, <2>2, <2>3, JoinedDeliver
<1>18. /\ Joined(sent', Pending') /\ EndsBefore(sent', Pending', Position')
       /\ Len(sent') > 0 /\ sent'[Len(sent')] = item'[loclist'[lpos']].to
  BY <1>3, <1>16, <1>17 DEF d, t, p, EndsIn
<1>19. QED
  BY <1>14, <1>15, <1>18, GaplessParts

(* A chunk is queued behind the last one, and counted.                     *)
LEMMA GaplessEnqueue ==
  ASSUME PlaceInv, PlaceInv', HandFilled, DeliveryOrder, Gapless, [Next]_vars, EnqueueItem
  PROVE  Gapless'
<1> USE DEF timebase, pacing, pool, output, flags, world
<1>0. TypeOK /\ WriterShape /\ ThreadShape /\ ItemsInOnePlace /\ AtPcr
  BY DEF PlaceInv, Gapless
<1>1. /\ UNCHANGED <<sent, loclist, lpos, tpc>> /\ wpc = "enqueue" /\ ~Freed
      /\ totalUserPackets' = totalUserPackets + Length(item[hand])
      /\ itemsBusy' = Append(itemsBusy, hand)
  BY DEF EnqueueItem, Freed, Enqueued
<1>2. hand \in 1 .. totalItems /\ item[hand] \in ItemRec
  BY <1>0, <1>1 DEF TypeOK, WriterShape, Filling, NoItem
<1>3. /\ Position = item[hand].from /\ item[hand].from <= item[hand].to
      /\ Position' = item[hand].to + 1
      /\ item[hand].from \in Int /\ item[hand].to \in Int
  <2>1. wpc' \in {"take", "finish"} /\ iv'.cur = item[hand].to + 1
    BY <1>0 DEF EnqueueItem, TypeOK, IntervalRec
  <2>2. Position = iv.cur /\ Position' = item[hand].to + 1
    BY <1>1, <2>1 DEF Position, Chunking, Filling
  <2>3. item[hand].from = iv.cur /\ iv.cur <= item[hand].to
    BY <1>1 DEF HandFilled, Filled, Filling
  <2>4. QED
    BY <1>2, <2>2, <2>3 DEF ItemRec
<1>4. /\ \A y \in 1 .. totalItems : y # hand => item'[y] = item[y]
      /\ item'[hand].from = item[hand].from /\ item'[hand].to = item[hand].to
  <2>1. item \in [1 .. totalItems -> ItemRec]
    BY <1>0 DEF TypeOK
  <2>2. item' = [item EXCEPT ![hand] =
                   [item[hand] EXCEPT !.seqno = seqno, !.sched = EnqueueTime]]
    BY <1>2, <2>1 DEF EnqueueItem
  <2>3. item'[hand] = [item[hand] EXCEPT !.seqno = seqno, !.sched = EnqueueTime]
    BY <1>2, <2>1, <2>2
  <2>4. item'[hand].from = item[hand].from /\ item'[hand].to = item[hand].to
    BY <1>2, <2>3 DEF ItemRec
  <2>5. QED
    BY <2>1, <2>2, <2>4
<1> DEFINE r == Pending
           t == Pending'
           s == sent
           x == Run(item, hand)
<1>5. /\ x = [from |-> item[hand].from, to |-> item[hand].to] /\ x \in RunRecs
      /\ x.from = item[hand].from /\ x.to = item[hand].to /\ Run(item', hand) = x
  BY <1>3, <1>4 DEF Run, RunRecs
<1>6. t = Append(r, x)
  <2>1. Len(t) = Len(r) + 1 /\ t = Append(r, t[Len(t)])
    BY EnqueueAccepts DEF Fifo!Accept
  <2>2. itemsBusy'[Len(itemsBusy')] = hand /\ Len(itemsBusy') \in 1 .. Len(itemsBusy')
    <3>1. /\ Len(itemsBusy) \in Nat /\ Len(itemsBusy') = Len(itemsBusy) + 1
          /\ itemsBusy'[Len(itemsBusy) + 1] = hand
      BY <1>0, <1>1, <1>2, AppendProperties, LenProperties DEF TypeOK
    <3>2. QED
      BY <3>1
  <2>3. /\ Len(t) = (Len(loclist') - FirstUnsent' + 1) + Len(itemsBusy')
        /\ \A i \in 1 .. Len(itemsBusy') :
             t[(Len(loclist') - FirstUnsent' + 1) + i] = Run(item', itemsBusy'[i])
    BY PendingAfter
  <2>4. t[Len(t)] = Run(item', hand)
    BY <2>2, <2>3
  <2>5. QED
    BY <1>5, <2>1, <2>4
<1>7. Joined(s, r) /\ EndsBefore(s, r, x.from) /\ totalUserPackets = Position - HeldFrom
  BY <1>1, <1>3, <1>5 DEF Gapless
<1>8. s \in Seq(Int) /\ r \in Seq(RunRecs)
  BY <1>0, PendingBefore DEF TypeOK
<1>9. tpc = "account" =>
        /\ item'[loclist'[lpos']] = item[loclist[lpos]]
        /\ item[loclist[lpos]].from \in Int
  <2> SUFFICES ASSUME tpc = "account"
               PROVE  /\ item'[loclist'[lpos']] = item[loclist[lpos]]
                      /\ item[loclist[lpos]].from \in Int
    OBVIOUS
  <2>1. lpos \in 1 .. Len(loclist)
    BY <1>0 DEF ThreadShape
  <2>2. loclist[lpos] \in 1 .. totalItems /\ loclist[lpos] # hand
        /\ item[loclist[lpos]].from \in Int
    BY <1>0, <2>1, ListedItems DEF ItemsInOnePlace, In
  <2>3. QED
    BY <1>1, <1>4, <2>2
<1> HIDE DEF r, t, s, x
<1>10. /\ Joined(s, t) /\ EndsBefore(s, t, x.to + 1) /\ Len(t) = Len(r) + 1
       /\ t[1] = IF Len(r) > 0 THEN r[1] ELSE x
  <2>1. x \in RunRecs /\ Joined(s, r) /\ EndsBefore(s, r, x.from)
    BY <1>5, <1>7
  <2>2. QED
    BY ONLY <1>6, <1>8, <2>1, JoinedAppend
<1>11. Len(r) \in Nat /\ (Len(r) > 0 => r[1].from \in Int)
  <2>1. Len(r) \in Nat /\ (Len(r) > 0 => r[1] \in RunRecs)
    BY <1>8, LenProperties, ElementOfSeq
  <2>2. QED
    BY <2>1 DEF RunRecs
<1>12. HeldFrom' = HeldFrom /\ HeldFrom \in Int
  <2>1. CASE tpc = "account"
    BY <1>1, <1>9, <2>1, HeldFromAfter DEF HeldFrom
  <2>2. CASE tpc # "account"
    <3>1. HeldFrom' = t[1].from
      BY <1>1, <1>10, <1>11, <2>2, HeldFromAfter DEF t
    <3>2. HeldFrom = IF Len(r) > 0 THEN r[1].from ELSE x.from
      BY <1>3, <1>5, <2>2 DEF HeldFrom, r
    <3>3. x.from \in Int
      BY <1>3, <1>5
    <3>4. QED
      BY <1>10, <1>11, <3>1, <3>2, <3>3
  <2>3. QED
    BY <2>1, <2>2
<1> DEFINE a == item[hand].from
           b == item[hand].to
<1>13. totalUserPackets' = Position' - HeldFrom'
  <2>1. /\ a \in Int /\ b \in Int /\ Position = a /\ Position' = b + 1
        /\ totalUserPackets' = totalUserPackets + (b - a + 1)
        /\ totalUserPackets = Position - HeldFrom
    BY <1>1, <1>3, <1>7 DEF Length
  <2> HIDE DEF a, b
  <2>2. QED
    BY ONLY <1>12, <2>1
<1>14. AtPcr'
  BY <1>0, AtPcrStep
<1>15. Joined(sent', Pending') /\ EndsBefore(sent', Pending', Position')
  BY <1>1, <1>3, <1>5, <1>10 DEF s, t
<1>16. tpc' = "account" => /\ Len(sent') > 0
                           /\ sent'[Len(sent')] = item'[loclist'[lpos']].to
  BY <1>1, <1>9 DEF Gapless
<1>17. QED
  BY <1>13, <1>14, <1>15, <1>16, GaplessParts

(* What Gapless says of the runs, StreamIntact says of the lists.          *)
LEMMA GaplessIntact ==
  ASSUME PlaceInv, HandFilled, Gapless PROVE StreamIntact
<1>0. TypeOK /\ ThreadShape /\ WriterShape
  BY DEF PlaceInv
<1>1. Joined(sent, Pending) /\ (~Freed => EndsBefore(sent, Pending, Position))
  BY DEF Gapless
<1>2. NothingLost
  <2> DEFINE q == LocRest \o itemsBusy
             r == Pending
  <2>1. q \in Seq(1 .. totalItems) /\ Len(q) \in Nat
    <3>1. FirstUnsent \in 1 .. Len(loclist) + 1 /\ Len(loclist) \in Nat
      BY <1>0, UnsentRange, ListedItems
    <3>2. FirstUnsent - 1 \in 0 .. Len(loclist) /\ FirstUnsent - 1 + 1 = FirstUnsent
      BY <3>1
    <3>3. SubSeq(loclist, FirstUnsent - 1 + 1, Len(loclist)) \in Seq(1 .. totalItems)
      BY <1>0, <3>2, SplitFacts DEF TypeOK
    <3>4. LocRest \in Seq(1 .. totalItems)
      BY <3>2, <3>3 DEF LocRest
    <3>5. QED
      BY <1>0, <3>4, ConcatProperties, LenProperties DEF TypeOK
  <2>2. r = [i \in 1 .. Len(q) |-> [from |-> item[q[i]].from, to |-> item[q[i]].to]]
    BY DEF Pending
  <2>3. r \in Seq(RunRecs)
    BY PendingBefore
  <2> HIDE DEF q, r
  <2>4. Len(r) = Len(q)
    <3>1. DOMAIN r = 1 .. Len(q)
      BY <2>2
    <3>2. QED
      BY <2>1, <2>3, <3>1, LenProperties
  <2>5. \A i \in 1 .. Len(q) : r[i].from = item[q[i]].from /\ r[i].to = item[q[i]].to
    BY <2>2
  <2>6. /\ q # << >> => Len(q) > 0 /\ 1 \in 1 .. Len(q) /\ Len(q) \in 1 .. Len(q)
        /\ sent # << >> => Len(sent) > 0
    <3>1. q # << >> => Len(q) # 0
      BY <2>1, EmptySeq
    <3>2. sent # << >> => Len(sent) # 0 /\ Len(sent) \in Nat
      BY <1>0, EmptySeq, LenProperties DEF TypeOK
    <3>3. QED
      BY <2>1, <3>1, <3>2
  <2>7. Joined(sent, r) /\ (~Freed => EndsBefore(sent, r, Position))
    BY <1>1 DEF r
  <2>8. \A i \in 1 .. Len(sent) - 1 : sent[i + 1] = sent[i] + 1
    BY <2>7 DEF Joined
  <2>9. \A i \in 1 .. Len(q) - 1 : item[q[i + 1]].from = item[q[i]].to + 1
    <3> TAKE i \in 1 .. Len(q) - 1
    <3>1. i \in 1 .. Len(q) /\ i + 1 \in 1 .. Len(q)
      BY <2>1
    <3>2. r[i + 1].from = r[i].to + 1
      BY <2>4, <2>7 DEF Joined
    <3>3. QED
      BY <2>5, <3>1, <3>2
  <2>10. sent # << >> /\ q # << >> => item[q[1]].from = sent[Len(sent)] + 1
    <3> SUFFICES ASSUME sent # << >>, q # << >>
                 PROVE  item[q[1]].from = sent[Len(sent)] + 1
      OBVIOUS
    <3>1. r[1].from = sent[Len(sent)] + 1
      BY <2>4, <2>6, <2>7 DEF Joined
    <3>2. QED
      BY <2>5, <2>6, <3>1
  <2>11. q # << >> /\ ~Freed => item[q[Len(q)]].to + 1 = Position
    <3> SUFFICES ASSUME q # << >>, ~Freed
                 PROVE  item[q[Len(q)]].to + 1 = Position
      OBVIOUS
    <3>1. r[Len(q)].to + 1 = Position
      BY <2>4, <2>6, <2>7 DEF EndsBefore
    <3>2. QED
      BY <2>5, <2>6, <3>1
  <2>12. ASSUME q # << >>, wpc \in Filled
         PROVE  item[hand].from = item[q[Len(q)]].to + 1
    <3>1. ~Freed /\ Position = iv.cur
      BY <2>12 DEF Freed, Filled, Filling, Position, Chunking
    <3>2. item[hand].from = iv.cur
      BY <2>12 DEF HandFilled
    <3>3. QED
      BY <2>11, <2>12, <3>1, <3>2
  <2>13. ASSUME q # << >>, wpc \in {"idle", "scan"}
         PROVE  baStart = item[q[Len(q)]].to
    <3>1. ~Freed /\ Position = baStart + 1
      BY <2>13 DEF Freed, Position, Chunking, Filling
    <3>2. item[q[Len(q)]].to \in Int
      <4>1. q[Len(q)] \in 1 .. totalItems
        BY <2>1, <2>6, <2>13, ElementOfSeq
      <4>2. item[q[Len(q)]] \in ItemRec
        BY <1>0, <4>1 DEF TypeOK
      <4>3. QED
        BY <4>2 DEF ItemRec
    <3>3. item[q[Len(q)]].to + 1 = baStart + 1 /\ baStart \in Nat
      BY <1>0, <2>11, <2>13, <3>1 DEF TypeOK
    <3>4. QED
      BY <3>2, <3>3
  <2>14. QED
    BY <2>8, <2>9, <2>10, <2>12, <2>13 DEF NothingLost, q
<1>3. SizeIsWhatIsHeld
  <2> SUFFICES ASSUME ~Freed, tpc \in {"loop", "collect", "done"}
               PROVE  totalUserPackets = IF itemsBusy = << >> THEN 0
                                         ELSE item[itemsBusy[Len(itemsBusy)]].to + 1
                                              - item[itemsBusy[1]].from
    BY DEF SizeIsWhatIsHeld
  <2> DEFINE n == Len(itemsBusy)
             r == Pending
  <2>1. loclist = << >> /\ FirstUnsent = 1 /\ n \in Nat
    BY <1>0, ListedItems DEF ThreadShape, FirstUnsent
  <2>2. Len(r) = n /\ \A i \in 1 .. n : r[i] = Run(item, itemsBusy[i])
    <3>1. Len(loclist) - FirstUnsent + 1 = 0
      BY <2>1
    <3>2. Len(r) = 0 + n /\ \A i \in 1 .. n : r[0 + i] = Run(item, itemsBusy[i])
      BY <3>1, PendingBefore
    <3>3. 0 + n = n /\ \A i \in 1 .. n : 0 + i = i
      BY <2>1
    <3>4. QED
      BY <3>2, <3>3
  <2>3. totalUserPackets = Position - HeldFrom
        /\ HeldFrom = IF Len(r) > 0 THEN r[1].from ELSE Position
    BY DEF Gapless, HeldFrom
  <2>4. Position \in Int
    BY <1>0 DEF Position, TypeOK, IntervalRec
  <2>5. CASE itemsBusy = << >>
    <3>1. Len(r) = 0
      BY <2>2, <2>5
    <3>2. totalUserPackets = Position - Position
      BY <2>3, <3>1
    <3>3. \A z \in Int : z - z = 0
      OBVIOUS
    <3>4. QED
      BY <2>4, <2>5, <3>2, <3>3
  <2>6. CASE itemsBusy # << >>
    <3>1. n > 0 /\ 1 \in 1 .. n /\ n \in 1 .. n
      <4>1. n # 0
        BY <1>0, <2>6, EmptySeq DEF TypeOK
      <4>2. QED
        BY <2>1, <4>1
    <3>2. r[1].from = item[itemsBusy[1]].from /\ r[n].to = item[itemsBusy[n]].to
      <4>1. r[1] = Run(item, itemsBusy[1]) /\ r[n] = Run(item, itemsBusy[n])
        BY <2>2, <3>1
      <4> HIDE DEF r, n
      <4>2. QED
        BY <4>1 DEF Run
    <3>3. r[n].to + 1 = Position
      BY <1>1, <2>2, <3>1 DEF EndsBefore
    <3>4. HeldFrom = r[1].from
      BY <2>2, <2>3, <3>1
    <3>5. item[itemsBusy[1]].from \in Int /\ item[itemsBusy[n]].to \in Int
      BY <1>0, <3>1, ListedItems
    <3> DEFINE a == item[itemsBusy[1]].from
               b == item[itemsBusy[n]].to
    <3>6. a \in Int /\ b \in Int /\ totalUserPackets = (b + 1) - a
      BY <2>3, <3>2, <3>3, <3>4, <3>5
    <3> HIDE DEF a, b
    <3>7. totalUserPackets = b + 1 - a
      BY ONLY <3>6
    <3>8. QED
      BY <2>6, <3>7 DEF a, b
  <2>7. QED
    BY <2>5, <2>6
<1>4. QED
  BY <1>2, <1>3 DEF StreamIntact

(* As long as smoother_pcr_reset is not called no packet is lost, whatever *)
(* the stream, its chunks, the size of the pool and the order in which the *)
(* two threads run; and smoother_pcr_get_size tells what is held.          *)
THEOREM Intact == Spec => [](resets = 0 => StreamIntact)
<1> DEFINE Inv == PlaceInv /\ HandFilled /\ DeliveryOrder
           Goal == resets = 0 => Gapless
<1>1. Init => Inv /\ Goal
  <2> SUFFICES ASSUME Init PROVE Inv /\ Gapless
    OBVIOUS
  <2>1. PlaceInv /\ HandFilled
    BY PlaceInit DEF Init, HandFilled, Filled, Filling
  <2>2. DeliveryOrder
    BY DEF Init, DeliveryOrder
  <2>3. /\ loclist = << >> /\ itemsBusy = << >> /\ sent = << >> /\ FirstUnsent = 1
        /\ wpc = "idle" /\ tpc = "start" /\ totalUserPackets = 0 /\ baStart = 0
    BY DEF Init, FirstUnsent
  <2>4. Len(loclist) - FirstUnsent + 1 = 0 /\ Len(itemsBusy) = 0 /\ Len(sent) = 0
    BY <2>3
  <2>5. Len(Pending) = 0
    BY <2>1, <2>4, PendingBefore
  <2>6. Joined(sent, Pending) /\ EndsBefore(sent, Pending, Position)
    BY <2>4, <2>5 DEF Joined, EndsBefore
  <2>7. AtPcr
    BY <2>3, <2>4, <2>5 DEF AtPcr, Chunking, Filling
  <2>8. Position = 1 /\ HeldFrom = Position
    BY <2>3, <2>5 DEF Position, HeldFrom, Chunking, Filling
  <2>9. totalUserPackets = Position - HeldFrom
    BY <2>3, <2>8
  <2>10. QED
    BY <2>1, <2>2, <2>3, <2>6, <2>7, <2>9 DEF Gapless
<1>2. Inv /\ Goal /\ [Next]_vars => (Inv /\ Goal)'
  <2> SUFFICES ASSUME Inv, Goal, [Next]_vars PROVE (Inv /\ Goal)'
    OBVIOUS
  <2>1. PlaceInv' /\ HandFilled'
    BY PlaceStep
  <2>2. DeliveryOrder'
    BY OrderQuiet, OrderEnqueue, OrderCollect, OrderEmit
  <2>3. ASSUME resets' = 0 PROVE resets = 0 /\ ~Reset
    <3>1. resets \in Nat
      BY DEF PlaceInv, TypeOK
    <3>2. CASE Reset
      BY <2>3, <3>1, <3>2 DEF Reset
    <3>3. CASE ~Reset
      <4>1. resets' = resets
        BY <3>3 DEF Next, WriteCall, FreeReturn, Thread, Stopped, SetBlockingWrites,
           Write, Scan, ScanBail, TakeItem, StampItem, StampWalltime, ScheduleItem,
           EnqueueItem, FinishInterval, FreeCall, FreeWait, FreeLists, ThreadStart,
           ThreadLoop, ThreadExit, Collect, Emit, Account, Recycle, Tick, vars, world
      <4>2. QED
        BY <2>3, <3>3, <4>1
    <3>4. QED
      BY <3>2, <3>3
  <2>4. ASSUME resets' = 0 PROVE Gapless'
    <3>1. Gapless /\ ~Reset
      BY <2>3, <2>4
    <3>2. QED
      BY <2>1, <3>1, GaplessQuiet, GaplessFree, GaplessAccount, GaplessEmit,
         GaplessEnqueue
  <2>5. QED
    BY <2>1, <2>2, <2>4
<1>3. Inv /\ Goal => (resets = 0 => StreamIntact)
  BY GaplessIntact
<1>4. QED
  BY <1>1, <1>2, <1>3, PTL DEF Spec
==============================================================================

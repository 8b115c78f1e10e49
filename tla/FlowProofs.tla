----------------------------- MODULE FlowProofs -----------------------------
(***************************************************************************)
(* Proofs about what is made of a stream on its way: KLQueue, RtpAnalyzer, *)
(* UdpReceiver, Vbv and SmootherRtp.                                       *)
(***************************************************************************)
EXTENDS KLQueue, RtpAnalyzer, UdpReceiver, Vbv, SmootherRtp, SequenceTheorems, TLAPS

-----------------------------------------------------------------------------
(* The queue, for any set of consumers, any timeout and any number of      *)
(* pushes.                                                                 *)

(* What a pop returns is a status and a pointer.                           *)
LEMMA ReturnedRecord ==
  /\ \A n \in Nat : [ret |-> "ok", item |-> n] \in Returned
  /\ [ret |-> "ok", item |-> NoItem] \in Returned
  /\ [ret |-> "none", item |-> NoItem] \in Returned
  /\ [ret |-> "timeout", item |-> NoItem] \in Returned
BY DEF Returned, NoItem

(* klqueue_pop_non_blocking's last part keeps the types.                   *)
LEMMA TakeTypes ==
  ASSUME QueueTypeOK, CountIsLength, NEW c \in Consumers, Take(c)
  PROVE  /\ head' \in Seq(Nat) /\ item_count' \in Nat
         /\ popped' \in Seq(Nat)
         /\ result' \in [Consumers -> Returned]
         /\ item_count' = Len(head')
<1>1. CASE head # << >>
  <2>1. Len(head) \in Nat \ {0} /\ Head(head) \in Nat /\ Tail(head) \in Seq(Nat)
        /\ Len(Tail(head)) = Len(head) - 1
    BY <1>1 DEF QueueTypeOK
  <2>2. /\ head' = Tail(head) /\ item_count' = item_count - 1
        /\ popped' = Append(popped, Head(head))
        /\ result' = [result EXCEPT ![c] = [ret |-> "ok", item |-> Head(head)]]
    BY <1>1 DEF Take
  <2>3. [ret |-> "ok", item |-> Head(head)] \in Returned
    BY <2>1, ReturnedRecord
  <2>4. result' \in [Consumers -> Returned]
    BY <2>2, <2>3 DEF QueueTypeOK
  <2>5. popped' \in Seq(Nat)
    BY <2>1, <2>2 DEF QueueTypeOK
  <2> QED BY <2>1, <2>2, <2>4, <2>5 DEF QueueTypeOK, CountIsLength
<1>2. CASE head = << >>
  <2>1. result' = [result EXCEPT ![c] = [ret |-> "ok", item |-> NoItem]]
        /\ UNCHANGED <<head, item_count, popped>>
    BY <1>2 DEF Take, list
  <2>2. result' \in [Consumers -> Returned]
    BY <2>1, ReturnedRecord DEF QueueTypeOK
  <2> QED BY <2>1, <2>2 DEF QueueTypeOK, CountIsLength
<1> QED BY <1>1, <1>2

(* The types and the counter are preserved together: the counter stays     *)
(* non-negative because it is the length of the list.                      *)
LEMMA CountStep == QueueTypeOK /\ CountIsLength /\ [QueueNext]_queueVars => (QueueTypeOK /\ CountIsLength)'
<1> SUFFICES ASSUME QueueTypeOK, CountIsLength, [QueueNext]_queueVars PROVE (QueueTypeOK /\ CountIsLength)'
  OBVIOUS
<1> USE QueueAssumption DEF QueueTypeOK, CountIsLength, list, consumer, queueVars
<1>1. CASE klqueue_push
  BY <1>1 DEF klqueue_push, Pushed, Waiting
<1>2. ASSUME NEW c \in Consumers, PopAtOnce(c) PROVE (QueueTypeOK /\ CountIsLength)'
  BY <1>2, TakeTypes DEF PopAtOnce
<1>3. ASSUME NEW c \in Consumers, PopWait(c) PROVE (QueueTypeOK /\ CountIsLength)'
  BY <1>3 DEF PopWait
<1>4. ASSUME NEW c \in Consumers, PopWake(c) PROVE (QueueTypeOK /\ CountIsLength)'
  BY <1>4, TakeTypes DEF PopWake
<1>5. ASSUME NEW c \in Consumers, PopTimeout(c) PROVE (QueueTypeOK /\ CountIsLength)'
  <2>1. result' \in [Consumers -> Returned]
    BY <1>5, ReturnedRecord DEF PopTimeout
  <2> QED BY <1>5, <2>1 DEF PopTimeout
<1>6. CASE klqueue_destroy
  BY <1>6 DEF klqueue_destroy, DestroyedCount
<1>7. CASE QueueTick
  BY <1>7 DEF QueueTick
<1>8. CASE Destroyed \/ UNCHANGED queueVars
  BY <1>8 DEF Destroyed
<1> QED BY <1>1, <1>2, <1>3, <1>4, <1>5, <1>6, <1>7, <1>8 DEF QueueNext, Pop

(* klqueue_count is the length of the list in every reachable state, for   *)
(* every number of consumers, and the unsigned counter never wraps.        *)
THEOREM CountHolds == QueueSpec => [](QueueTypeOK /\ CountIsLength)
<1>1. QueueInit => QueueTypeOK /\ CountIsLength
  <2> SUFFICES ASSUME QueueInit PROVE QueueTypeOK /\ CountIsLength
    OBVIOUS
  <2>1. result \in [Consumers -> Returned]
    BY ReturnedRecord DEF QueueInit
  <2>2. pc \in [Consumers -> {"idle", "waiting"}] /\ woken \subseteq Consumers
        /\ locked \in BOOLEAN
    BY DEF QueueInit
  <2> QED BY <2>1, <2>2, QueueAssumption DEF QueueInit, QueueTypeOK, CountIsLength
<1> QED BY <1>1, CountStep, PTL DEF QueueSpec

(* Taking the first pointer extends popped by the next pointer in order.   *)
LEMMA TakeOrder ==
  ASSUME QueueTypeOK, FifoOrder, ~locked, locked' = locked, pushed' = pushed,
         NEW c \in Consumers, Take(c)
  PROVE  FifoOrder'
<1> USE DEF QueueTypeOK, FifoOrder, list
<1>1. CASE head # << >>
  <2>0. Len(popped) \in Nat /\ pushed \in Nat /\ Len(popped) + Len(head) = pushed
    OBVIOUS
  <2>1. Len(head) \in Nat \ {0} /\ Head(head) = head[1]
        /\ Tail(head) \in Seq(Nat) /\ Len(Tail(head)) = Len(head) - 1
        /\ \A i \in 1 .. Len(Tail(head)) : Tail(head)[i] = head[i + 1]
    BY <1>1
  <2>2. /\ head' = Tail(head) /\ popped' = Append(popped, Head(head))
    BY <1>1 DEF Take
  <2>3. head[1] = Len(popped) + 1
    BY <2>1
  <2>4. /\ Len(popped') = Len(popped) + 1
        /\ \A i \in 1 .. Len(popped') : popped'[i] = i
    BY <2>1, <2>2, <2>3
  <2>5. \A i \in 1 .. Len(head') : head'[i] = Len(popped') + i
    <3> SUFFICES ASSUME NEW i \in 1 .. Len(head') PROVE head'[i] = Len(popped') + i
      OBVIOUS
    <3>1. i + 1 \in 1 .. Len(head)
      BY <2>1, <2>2
    <3>2. head[i + 1] = Len(popped) + (i + 1)
      BY <3>1
    <3> QED BY <2>1, <2>2, <2>4, <3>2
  <2>6. Len(popped') + Len(head') = pushed'
    <3> HIDE DEF QueueTypeOK, FifoOrder
    <3>1. Len(head') = Len(head) - 1 /\ Len(head) \in Nat
      BY <2>1, <2>2
    <3>2. Len(popped') = Len(popped) + 1
      BY <2>4
    <3> QED BY <2>0, <3>1, <3>2
  <2> QED BY <2>4, <2>5, <2>6, Zenon
<1>2. CASE head = << >>
  BY <1>2 DEF Take
<1> QED BY <1>1, <1>2

(* Every critical section keeps the order of the list and of what left it. *)
LEMMA OrderStep == QueueTypeOK /\ FifoOrder /\ [QueueNext]_queueVars => FifoOrder'
<1> SUFFICES ASSUME QueueTypeOK, FifoOrder, [QueueNext]_queueVars PROVE FifoOrder'
  OBVIOUS
<1> USE DEF list, consumer, queueVars
<1>1. CASE klqueue_push
  <2>1. /\ Len(head') = Len(head) + 1
        /\ \A i \in 1 .. Len(head) : head'[i] = head[i]
        /\ head'[Len(head) + 1] = pushed + 1
    BY <1>1 DEF klqueue_push, Pushed, QueueTypeOK
  <2>2. Len(popped) + Len(head) = pushed /\ ~locked /\ ~locked'
        /\ popped' = popped /\ pushed' = pushed + 1
    BY <1>1 DEF klqueue_push, FifoOrder
  <2>0. Len(head) \in Nat /\ Len(popped) \in Nat /\ pushed \in Nat
    BY DEF QueueTypeOK
  <2>3. \A i \in 1 .. Len(head) : head[i] = Len(popped) + i
    BY <2>2 DEF FifoOrder
  <2>4. \A i \in 1 .. Len(head') : head'[i] = Len(popped') + i
    <3> SUFFICES ASSUME NEW i \in 1 .. Len(head') PROVE head'[i] = Len(popped') + i
      OBVIOUS
    <3>1. CASE i \in 1 .. Len(head)
      BY <2>1, <2>2, <2>3, <3>1
    <3>2. CASE i = Len(head) + 1
      BY <2>0, <2>1, <2>2, <3>2
    <3> QED BY <2>0, <2>1, <3>1, <3>2
  <2>5. Len(popped') + Len(head') = pushed'
    BY <2>0, <2>1, <2>2
  <2>6. \A i \in 1 .. Len(popped') : popped'[i] = i
    BY <2>2 DEF FifoOrder
  <2> QED BY <2>4, <2>5, <2>6 DEF FifoOrder
<1>2. ASSUME NEW c \in Consumers, PopAtOnce(c) PROVE FifoOrder'
  BY <1>2, TakeOrder DEF PopAtOnce
<1>3. ASSUME NEW c \in Consumers, PopWait(c) PROVE FifoOrder'
  BY <1>3 DEF PopWait, FifoOrder
<1>4. ASSUME NEW c \in Consumers, PopWake(c) PROVE FifoOrder'
  BY <1>4, TakeOrder DEF PopWake
<1>5. ASSUME NEW c \in Consumers, PopTimeout(c) PROVE FifoOrder'
  BY <1>5 DEF PopTimeout, FifoOrder
<1>6. CASE klqueue_destroy
  BY <1>6 DEF klqueue_destroy, FifoOrder
<1>7. CASE QueueTick
  BY <1>7 DEF QueueTick, FifoOrder
<1>8. CASE Destroyed \/ UNCHANGED queueVars
  BY <1>8 DEF Destroyed, FifoOrder
<1> QED BY <1>1, <1>2, <1>3, <1>4, <1>5, <1>6, <1>7, <1>8 DEF QueueNext, Pop

(* The queue is first in, first out for any number of consumers: pointers  *)
(* reach them in the order of the pushes, each once, none skipped.         *)
THEOREM FifoHolds == QueueSpec => []FifoOrder
<1>1. QueueInit => FifoOrder
  BY DEF QueueInit, FifoOrder
<1> QED BY <1>1, OrderStep, CountHolds, PTL DEF QueueSpec

-----------------------------------------------------------------------------
(* Remainders.                                                             *)
LEMMA ModParts ==
  ASSUME NEW m \in Nat \ {0}, NEW a \in Nat
  PROVE  /\ a \div m \in Nat /\ a % m \in 0 .. m - 1
         /\ a = m * (a \div m) + (a % m)
OBVIOUS

LEMMA ModOf ==
  ASSUME NEW m \in Nat \ {0}, NEW q \in Nat, NEW r \in 0 .. m - 1
  PROVE  (m * q + r) % m = r
OBVIOUS

(* Reducing first makes no difference.                                     *)
LEMMA ModAdd ==
  ASSUME NEW m \in Nat \ {0}, NEW a \in Nat, NEW b \in Nat
  PROVE  ((a % m) + b) % m = (a + b) % m
<1> DEFINE q == a \div m  r == a % m  c == r + b  p == c \div m  s == c % m
<1>1. q \in Nat /\ r \in 0 .. m - 1 /\ a = m * q + r
  BY ModParts
<1>2. c \in Nat
  BY <1>1
<1>3. p \in Nat /\ s \in 0 .. m - 1 /\ c = m * p + s
  BY <1>2, ModParts
<1> HIDE DEF q, r, p, s
<1>4. a + b = m * (q + p) + s
  <2>1. m * (q + p) = m * q + m * p
    BY <1>1, <1>3
  <2>2. m * q \in Int /\ m * p \in Int
    BY <1>1, <1>3
  <2> QED BY <1>1, <1>3, <2>1, <2>2
<1>5. q + p \in Nat
  BY <1>1, <1>3
<1>6. (m * (q + p) + s) % m = s
  BY <1>3, <1>5, ModOf
<1>7. c % m = s
  BY DEF s
<1> QED BY <1>4, <1>6, <1>7 DEF r

(* Less than a round forward is somewhere else.                            *)
LEMMA ModMoves ==
  ASSUME NEW m \in Nat \ {0}, NEW a \in Nat, NEW b \in 0 .. m - 1
  PROVE  (a + b) % m = a % m <=> b = 0
<1> DEFINE r == a % m
<1>1. r \in 0 .. m - 1
  BY ModParts
<1>2. (r + b) % m = (a + b) % m
  <2>1. b \in Nat
    OBVIOUS
  <2> QED BY <2>1, ModAdd
<1> HIDE DEF r
<1>3. (r + b) % m = IF r + b < m THEN r + b ELSE r + b - m
  BY <1>1
<1> QED BY <1>1, <1>2, <1>3 DEF r

-----------------------------------------------------------------------------
(* The analyzer.                                                           *)
LEMMA AnalyzerSizes ==
  /\ SeqModulus \in Nat \ {0} /\ SeqModulus > 1 /\ TsModulus \in Nat \ {0} /\ PerMs \in Nat \ {0}
  /\ SeqModulus * PerMs < TsModulus
BY AnalyzerAssumption

LEMMA OneType == ASSUME NEW b \in BOOLEAN PROVE One(b) \in {0, 1} /\ (One(b) = 1 <=> b)
BY DEF One

(* What a header does to the counters the property is about.               *)
LEMMA HdrCounts ==
  ASSUME NEW a \in [n : Counts, last : Headers], NEW hdr \in Headers
  PROVE  LET w == HdrWrite(a, hdr)
             known == a.last.ts # 0
         IN  /\ w \in [n : Counts, last : Headers] /\ w.last = hdr
             /\ w.n.disc = a.n.disc + One(~IsContinuous(a.last, hdr))
             /\ w.n.moved2110 = a.n.moved2110 + One(known /\ MovedInFrame(a.last, hdr))
             /\ w.n.stalled2110 = a.n.stalled2110
                                  + One(known /\ a.last.ts = hdr.ts /\ a.last.m)
             /\ w.n.badPt = a.n.badPt + One(~IsPayloadTypeValid(hdr.pt))
<1>1. \A b : One(b) \in Int
  BY DEF One
<1>2. a.n \in Counts /\ \A f \in DOMAIN Zeroes : a.n[f] \in Int
  BY DEF Counts, Zeroes
<1> HIDE DEF One, Headers
<1>3. HdrWrite(a, hdr).n \in Counts
  BY ONLY <1>1, <1>2 DEF HdrWrite, Counts
<1> QED BY <1>3 DEF HdrWrite

LEMMA AnalyzerStarts == AnalyzerInit => AnalyzerInv
<1> SUFFICES ASSUME AnalyzerInit PROVE AnalyzerInv
  OBVIOUS
<1> USE DEF AnalyzerInit
<1>1. ra \in [n : Counts, last : Headers]
  BY AnalyzerSizes DEF AnalyzerStart, Zeroes, NoHdr, Hdr, Counts, Headers
<1>2. rsrc \in [seq : 0 .. SeqModulus - 1, ts : 0 .. TsModulus - 1]
  <2>1. 2 * PerMs <= SeqModulus * PerMs
    BY AnalyzerSizes
  <2>2. TsModulus - 2 * PerMs \in 0 .. TsModulus - 1
    BY <2>1, AnalyzerSizes
  <2> QED BY <2>2, AnalyzerAssumption
<1>3. AnalyzerTypes
  BY <1>1, <1>2, AnalyzerAssumption DEF AnalyzerTypes, AnalyzerStart
<1>4. AnalyzerAtLoss
  BY DEF AnalyzerAtLoss
<1>5. AnalyzerIsFair
  BY DEF AnalyzerIsFair, AnalyzerCountsGaps, AnalyzerBlamesLossOnly, AnalyzerStart, Zeroes
<1> QED BY <1>3, <1>4, <1>5 DEF AnalyzerInv

(* Where the sender is, one packet on.                                     *)
LEMMA SenderMoves ==
  ASSUME NEW seq \in Nat, NEW run \in Nat, NEW ts \in Nat, NEW ends \in Nat, NEW m \in BOOLEAN
  PROVE  /\ (((seq + run) % SeqModulus) + 1) % SeqModulus = (seq + (run + 1)) % SeqModulus
         /\ (IF m THEN (((ts + ends * PerMs) % TsModulus) + PerMs) % TsModulus
                  ELSE (ts + ends * PerMs) % TsModulus)
              = (ts + (ends + One(m)) * PerMs) % TsModulus
<1>1. (((seq + run) % SeqModulus) + 1) % SeqModulus = ((seq + run) + 1) % SeqModulus
  <2>1. seq + run \in Nat /\ 1 \in Nat /\ SeqModulus \in Nat \ {0}
    BY AnalyzerSizes
  <2> QED BY ONLY <2>1, ModAdd
<1>2. (seq + run) + 1 = seq + (run + 1)
  OBVIOUS
<1>3. ends * PerMs \in Nat /\ (ends + 1) * PerMs = ends * PerMs + PerMs /\ ends + 0 = ends
  BY AnalyzerSizes
<1> DEFINE e == ends * PerMs
<1> HIDE DEF e
<1>4. (((ts + e) % TsModulus) + PerMs) % TsModulus = ((ts + e) + PerMs) % TsModulus
  <2>1. ts + e \in Nat /\ PerMs \in Nat /\ TsModulus \in Nat \ {0}
    BY <1>3, AnalyzerSizes DEF e
  <2> QED BY ONLY <2>1, ModAdd
<1>5. (ts + e) + PerMs = ts + (e + PerMs)
  BY <1>3, AnalyzerSizes DEF e
<1>6. CASE m
  BY <1>1, <1>2, <1>3, <1>4, <1>5, <1>6 DEF e, One
<1>7. CASE ~m
  BY <1>1, <1>2, <1>3, <1>7 DEF e, One
<1> QED BY <1>6, <1>7

LEMMA AnalyzerFields ==
  ASSUME AnalyzerTypes
  PROVE  /\ ra \in [n : Counts, last : Headers]
         /\ ra.last \in Headers /\ ra.last.seq \in Nat /\ ra.last.ts \in Nat /\ ra.last.m \in BOOLEAN
         /\ ra.n.disc \in Int /\ ra.n.moved2110 \in Int /\ ra.n.stalled2110 \in Int
         /\ ra.n.badPt \in Int
         /\ rsrc.seq \in 0 .. SeqModulus - 1 /\ rsrc.ts \in 0 .. TsModulus - 1
         /\ raGhost.run \in 0 .. SeqModulus - 1 /\ raGhost.ends \in 0 .. raGhost.run
         /\ raGhost.gaps \in Nat /\ raGhost.hidden \in Nat /\ raGhost.badEnds \in Nat
         /\ raGhost.first \in BOOLEAN /\ raGhost.calls \in 0 .. AnalyzerCalls
         /\ raGhost.first => ra.last = NoHdr
<1> USE DEF AnalyzerTypes
<1>1. ra.last \in Headers /\ ra.n \in Counts
  OBVIOUS
<1>2. ra.last.seq \in Nat /\ ra.last.ts \in Nat /\ ra.last.m \in BOOLEAN
  BY <1>1 DEF Headers
<1>3. /\ ra.n.disc \in Int /\ ra.n.moved2110 \in Int /\ ra.n.stalled2110 \in Int
      /\ ra.n.badPt \in Int
  BY <1>1 DEF Counts
<1> QED BY <1>1, <1>2, <1>3

(* What the network does to a packet.                                      *)
LEMMA TransmitLost ==
  ASSUME AnalyzerInv, NEW m \in BOOLEAN,
         raGhost.calls < AnalyzerCalls, raGhost.run < SeqModulus - 1,
         rsrc' = [seq |-> (rsrc.seq + 1) % SeqModulus,
                  ts |-> IF m THEN (rsrc.ts + PerMs) % TsModulus ELSE rsrc.ts],
         UNCHANGED ra,
         raGhost' = [raGhost EXCEPT !.calls = @ + 1, !.run = @ + 1, !.ends = @ + One(m)]
  PROVE  AnalyzerInv'
<1>0. AnalyzerTypes /\ AnalyzerAtLoss /\ AnalyzerIsFair
  BY DEF AnalyzerInv
<1>1. One(m) \in {0, 1}
  BY DEF One
<1>2. /\ raGhost'.run = raGhost.run + 1 /\ raGhost'.ends = raGhost.ends + One(m)
      /\ raGhost'.first = raGhost.first /\ raGhost'.gaps = raGhost.gaps
      /\ raGhost'.hidden = raGhost.hidden /\ raGhost'.badEnds = raGhost.badEnds
  BY <1>0 DEF AnalyzerTypes
<1>3. AnalyzerTypes'
  <2>1. rsrc'.seq \in 0 .. SeqModulus - 1
    BY <1>0, AnalyzerFields, AnalyzerSizes
  <2>2. rsrc'.ts \in 0 .. TsModulus - 1
    BY <1>0, AnalyzerFields, AnalyzerSizes
  <2>3. rsrc' \in [seq : 0 .. SeqModulus - 1, ts : 0 .. TsModulus - 1]
    BY <2>1, <2>2
  <2>4. raGhost' \in [calls : 0 .. AnalyzerCalls, run : 0 .. SeqModulus - 1, ends : Nat, gaps : Nat,
                      hidden : Nat, badEnds : Nat, first : BOOLEAN]
    <3>1. raGhost.calls + 1 \in 0 .. AnalyzerCalls /\ raGhost.run + 1 \in 0 .. SeqModulus - 1
      BY <1>0, AnalyzerFields, AnalyzerAssumption
    <3>2. raGhost.ends + One(m) \in Nat
      BY <1>0, <1>1, AnalyzerFields
    <3> QED BY <1>0, <3>1, <3>2 DEF AnalyzerTypes
  <2>5. raGhost'.ends <= raGhost'.run
    BY <1>0, <1>1, <1>2, AnalyzerFields, AnalyzerSizes
  <2> QED BY <1>0, <1>2, <2>3, <2>4, <2>5 DEF AnalyzerTypes
<1>4. AnalyzerAtLoss'
  <2> SUFFICES ASSUME ~raGhost.first
               PROVE  /\ rsrc'.seq = (ra.last.seq + 1 + raGhost'.run) % SeqModulus
                      /\ rsrc'.ts = (ra.last.ts + (One(ra.last.m) + raGhost'.ends) * PerMs) % TsModulus
    BY <1>2 DEF AnalyzerAtLoss
  <2> DEFINE q == ra.last.seq + 1
             e == One(ra.last.m) + raGhost.ends
             t == ra.last.ts
             r == raGhost.run
  <2>1. q \in Nat /\ e \in Nat /\ t \in Nat /\ r \in Nat
    BY <1>0, AnalyzerFields, AnalyzerSizes DEF One
  <2>2. rsrc.seq = (q + r) % SeqModulus /\ rsrc.ts = (t + e * PerMs) % TsModulus
    BY <1>0 DEF AnalyzerAtLoss
  <2>3. rsrc'.seq = (rsrc.seq + 1) % SeqModulus
        /\ rsrc'.ts = IF m THEN (rsrc.ts + PerMs) % TsModulus ELSE rsrc.ts
    OBVIOUS
  <2>4. One(ra.last.m) + raGhost'.ends = e + One(m)
    BY <1>0, <1>1, <1>2, AnalyzerFields DEF One
  <2> HIDE DEF q, e, t, r
  <2>5. /\ (((q + r) % SeqModulus) + 1) % SeqModulus = (q + (r + 1)) % SeqModulus
        /\ (IF m THEN (((t + e * PerMs) % TsModulus) + PerMs) % TsModulus
                 ELSE (t + e * PerMs) % TsModulus) = (t + (e + One(m)) * PerMs) % TsModulus
    BY <2>1, SenderMoves
  <2> QED BY <1>2, <2>2, <2>3, <2>4, <2>5 DEF q, t, r
<1>5. AnalyzerIsFair'
  BY <1>0, <1>2 DEF AnalyzerIsFair, AnalyzerCountsGaps, AnalyzerBlamesLossOnly
<1> QED BY <1>3, <1>4, <1>5 DEF AnalyzerInv

(* A packet that is seen is compared with the last one seen.               *)
LEMMA ComparedRight ==
  ASSUME AnalyzerInv, NEW m \in BOOLEAN
  PROVE  LET hdr == Hdr(rsrc.seq, rsrc.ts, m, 96)
             noticed == raGhost.run > 0 /\ ~raGhost.first
             known == ra.last.ts # 0
         IN  /\ ~IsContinuous(ra.last, hdr) <=> noticed /\ ra.last.seq # 0
             /\ known /\ MovedInFrame(ra.last, hdr)
                  <=> ~raGhost.first /\ raGhost.ends > 0 /\ ~ra.last.m /\ ra.last.ts # 0
             /\ ~(known /\ ra.last.ts = hdr.ts /\ ra.last.m)
             /\ IsPayloadTypeValid(hdr.pt)
<1> DEFINE hdr == Hdr(rsrc.seq, rsrc.ts, m, 96)
           q == ra.last.seq
           t == ra.last.ts
           e == (One(ra.last.m) + raGhost.ends) * PerMs
<1>0. AnalyzerTypes /\ AnalyzerAtLoss
  BY DEF AnalyzerInv
<1>1. hdr.seq = rsrc.seq /\ hdr.ts = rsrc.ts /\ hdr.pt = 96
  BY DEF Hdr
<1>2. q \in Nat /\ t \in 0 .. TsModulus - 1 /\ ra.last.m \in BOOLEAN
      /\ raGhost.run \in 0 .. SeqModulus - 1 /\ raGhost.ends \in 0 .. raGhost.run
      /\ raGhost.first \in BOOLEAN
  <2>1. ra.last \in Headers
    BY <1>0, AnalyzerFields
  <2>2. t \in 0 .. TsModulus - 1
    BY <2>1 DEF Headers
  <2> QED BY <1>0, <2>2, AnalyzerFields
<1>3. IsPayloadTypeValid(hdr.pt)
  BY <1>1 DEF IsPayloadTypeValid
<1>4. CASE raGhost.first
  <2>1. q = 0 /\ t = 0
    BY <1>0, <1>4 DEF AnalyzerTypes, NoHdr, Hdr
  <2> QED BY <1>3, <1>4, <2>1 DEF IsContinuous
<1>5. CASE ~raGhost.first
  <2>1. rsrc.seq = (q + 1 + raGhost.run) % SeqModulus /\ rsrc.ts = (t + e) % TsModulus
    BY <1>0, <1>5 DEF AnalyzerAtLoss
  <2>2. rsrc.seq = (q + 1) % SeqModulus <=> raGhost.run = 0
    <3>1. q + 1 \in Nat /\ SeqModulus \in Nat \ {0} /\ raGhost.run \in 0 .. SeqModulus - 1
      BY <1>2, AnalyzerSizes
    <3> QED BY ONLY <2>1, <3>1, ModMoves
  <2>3. e \in 0 .. TsModulus - 1 /\ (e = 0 <=> ~ra.last.m /\ raGhost.ends = 0)
    <3> DEFINE k == One(ra.last.m) + raGhost.ends
    <3>1. k \in 0 .. SeqModulus /\ (k = 0 <=> ~ra.last.m /\ raGhost.ends = 0)
      BY <1>2, AnalyzerSizes DEF One
    <3> HIDE DEF k
    <3>2. k * PerMs >= 0 /\ k * PerMs <= SeqModulus * PerMs /\ k * PerMs \in Int
          /\ (k * PerMs = 0 <=> k = 0)
      BY <3>1, AnalyzerSizes
    <3>3. SeqModulus * PerMs \in Int
      BY AnalyzerSizes
    <3> QED BY <3>1, <3>2, <3>3, AnalyzerSizes DEF k
  <2>4. rsrc.ts = t <=> e = 0
    <3>1. t \in Nat /\ t % TsModulus = t /\ TsModulus \in Nat \ {0}
      BY <1>2, AnalyzerSizes
    <3>2. (t + e) % TsModulus = t % TsModulus <=> e = 0
      BY ONLY <2>3, <3>1, ModMoves
    <3> QED BY ONLY <2>1, <3>1, <3>2
  <2> HIDE DEF e
  <2>5. ~IsContinuous(ra.last, hdr) <=> raGhost.run > 0 /\ q # 0
    BY <1>1, <1>2, <2>2 DEF IsContinuous
  <2>6. MovedInFrame(ra.last, hdr) <=> raGhost.ends > 0 /\ ~ra.last.m
    BY <1>1, <1>2, <2>3, <2>4 DEF MovedInFrame
  <2>7. ~(t = hdr.ts /\ ra.last.m)
    BY <1>1, <2>3, <2>4
  <2> QED BY <1>3, <1>5, <2>5, <2>6, <2>7
<1> QED BY <1>2, <1>4, <1>5

LEMMA TransmitSeen ==
  ASSUME AnalyzerInv, NEW m \in BOOLEAN,
         raGhost.calls < AnalyzerCalls,
         rsrc' = [seq |-> (rsrc.seq + 1) % SeqModulus,
                  ts |-> IF m THEN (rsrc.ts + PerMs) % TsModulus ELSE rsrc.ts],
         ra' = HdrWrite(ra, Hdr(rsrc.seq, rsrc.ts, m, 96)),
         raGhost' = [raGhost EXCEPT !.calls = @ + 1, !.run = 0, !.ends = 0, !.first = FALSE,
            !.gaps = @ + One(raGhost.run > 0 /\ ~raGhost.first),
            !.hidden = @ + One((raGhost.run > 0 /\ ~raGhost.first) /\ ra.last.seq = 0),
            !.badEnds = @ + One(~raGhost.first /\ raGhost.ends > 0 /\ ~ra.last.m /\ ra.last.ts # 0)]
  PROVE  AnalyzerInv'
<1> DEFINE hdr == Hdr(rsrc.seq, rsrc.ts, m, 96)
           noticed == raGhost.run > 0 /\ ~raGhost.first
           known == ra.last.ts # 0
           blamed == ~raGhost.first /\ raGhost.ends > 0 /\ ~ra.last.m /\ ra.last.ts # 0
<1>0. AnalyzerTypes /\ AnalyzerAtLoss /\ AnalyzerIsFair
  BY DEF AnalyzerInv
<1>1. hdr \in Headers /\ hdr.seq = rsrc.seq /\ hdr.ts = rsrc.ts /\ hdr.m = m
  BY <1>0, AnalyzerFields DEF Headers, Hdr
<1>2. /\ ra' \in [n : Counts, last : Headers] /\ ra'.last = hdr
      /\ ra'.n.disc = ra.n.disc + One(~IsContinuous(ra.last, hdr))
      /\ ra'.n.moved2110 = ra.n.moved2110 + One(known /\ MovedInFrame(ra.last, hdr))
      /\ ra'.n.stalled2110 = ra.n.stalled2110 + One(known /\ ra.last.ts = hdr.ts /\ ra.last.m)
      /\ ra'.n.badPt = ra.n.badPt + One(~IsPayloadTypeValid(hdr.pt))
  BY <1>0, <1>1, AnalyzerFields, HdrCounts
<1>3. /\ ~IsContinuous(ra.last, hdr) <=> noticed /\ ra.last.seq # 0
      /\ known /\ MovedInFrame(ra.last, hdr) <=> blamed
      /\ ~(known /\ ra.last.ts = hdr.ts /\ ra.last.m)
      /\ IsPayloadTypeValid(hdr.pt)
  BY ComparedRight
<1> HIDE DEF hdr
<1>4. /\ raGhost'.run = 0 /\ raGhost'.ends = 0 /\ raGhost'.first = FALSE
      /\ raGhost'.calls = raGhost.calls + 1
      /\ raGhost'.gaps = raGhost.gaps + One(noticed)
      /\ raGhost'.hidden = raGhost.hidden + One(noticed /\ ra.last.seq = 0)
      /\ raGhost'.badEnds = raGhost.badEnds + One(blamed)
  BY <1>0 DEF AnalyzerTypes
<1>5. One(noticed) \in {0, 1} /\ One(noticed /\ ra.last.seq = 0) \in {0, 1} /\ One(blamed) \in {0, 1}
  BY DEF One
<1>6. AnalyzerTypes'
  <2>1. rsrc'.seq \in 0 .. SeqModulus - 1
    BY <1>0, AnalyzerFields, AnalyzerSizes
  <2>2. rsrc'.ts \in 0 .. TsModulus - 1
    BY <1>0, AnalyzerFields, AnalyzerSizes
  <2>3. rsrc' \in [seq : 0 .. SeqModulus - 1, ts : 0 .. TsModulus - 1]
    BY <2>1, <2>2
  <2>4. raGhost' \in [calls : 0 .. AnalyzerCalls, run : 0 .. SeqModulus - 1, ends : Nat, gaps : Nat,
                      hidden : Nat, badEnds : Nat, first : BOOLEAN]
    <3>1. raGhost.calls + 1 \in 0 .. AnalyzerCalls /\ 0 \in 0 .. SeqModulus - 1
      BY <1>0, AnalyzerFields, AnalyzerAssumption
    <3> DEFINE g1 == One(noticed)  g2 == One(noticed /\ ra.last.seq = 0)  g3 == One(blamed)
    <3>2. raGhost.gaps + g1 \in Nat /\ raGhost.hidden + g2 \in Nat /\ raGhost.badEnds + g3 \in Nat
      BY <1>0, <1>5, AnalyzerFields
    <3>3. raGhost' = [raGhost EXCEPT !.calls = @ + 1, !.run = 0, !.ends = 0, !.first = FALSE,
                        !.gaps = @ + g1, !.hidden = @ + g2, !.badEnds = @ + g3]
      OBVIOUS
    <3> HIDE DEF g1, g2, g3
    <3> QED BY ONLY <1>0, <3>1, <3>2, <3>3 DEF AnalyzerTypes
  <2>5. raGhost'.ends <= raGhost'.run /\ ~raGhost'.first
    BY <1>4
  <2> QED BY <1>2, <2>3, <2>4, <2>5 DEF AnalyzerTypes
<1>7. AnalyzerAtLoss'
  <2>1. rsrc'.seq = (ra'.last.seq + 1 + raGhost'.run) % SeqModulus
    <3>1. ra'.last.seq + 1 + raGhost'.run = rsrc.seq + 1
      BY <1>0, <1>1, <1>2, <1>4, AnalyzerFields
    <3> QED BY <3>1
  <2>2. rsrc'.ts = (ra'.last.ts + (One(ra'.last.m) + raGhost'.ends) * PerMs) % TsModulus
    <3>1. ra'.last.ts = rsrc.ts /\ ra'.last.m = m
      BY <1>1, <1>2
    <3>2. CASE m
      <4>1. (One(m) + 0) * PerMs = PerMs
        BY <3>2, AnalyzerSizes DEF One
      <4> QED BY <1>4, <3>1, <3>2, <4>1
    <3>3. CASE ~m
      <4>1. (One(m) + 0) * PerMs = 0
        BY <3>3, AnalyzerSizes DEF One
      <4>2. rsrc.ts + 0 = rsrc.ts /\ rsrc.ts % TsModulus = rsrc.ts
        BY <1>0, AnalyzerFields, AnalyzerSizes
      <4> QED BY <1>4, <3>1, <3>3, <4>1, <4>2
    <3> QED BY <3>2, <3>3
  <2> QED BY <2>1, <2>2 DEF AnalyzerAtLoss
<1>8. AnalyzerIsFair'
  <2>1. One(~IsContinuous(ra.last, hdr)) = One(noticed) - One(noticed /\ ra.last.seq = 0)
    BY <1>3 DEF One
  <2>2. One(known /\ MovedInFrame(ra.last, hdr)) = One(blamed)
    BY <1>3 DEF One
  <2>3. One(known /\ ra.last.ts = hdr.ts /\ ra.last.m) = 0 /\ One(~IsPayloadTypeValid(hdr.pt)) = 0
    BY <1>3 DEF One
  <2>4. AnalyzerCountsGaps'
    BY <1>0, <1>2, <1>4, <1>5, <2>1, AnalyzerFields DEF AnalyzerIsFair, AnalyzerCountsGaps
  <2>5. AnalyzerBlamesLossOnly'
    BY <1>0, <1>2, <1>4, <1>5, <2>2, <2>3, AnalyzerFields DEF AnalyzerIsFair, AnalyzerBlamesLossOnly
  <2> QED BY <2>4, <2>5 DEF AnalyzerIsFair
<1> QED BY <1>6, <1>7, <1>8 DEF AnalyzerInv

LEMMA ResetKeepsHeader ==
  ASSUME AnalyzerInv, AnalyzerCallReset
  PROVE  AnalyzerInv'
<1> USE DEF AnalyzerCallReset
<1>0. AnalyzerTypes /\ AnalyzerAtLoss /\ AnalyzerIsFair
  BY DEF AnalyzerInv
<1>1. ra'.last = ra.last /\ ra'.n = Zeroes /\ ra' \in [n : Counts, last : Headers]
  BY <1>0 DEF AnalyzerReset, AnalyzerTypes, Counts, Zeroes
<1>2. /\ raGhost'.run = raGhost.run /\ raGhost'.ends = raGhost.ends
      /\ raGhost'.first = raGhost.first /\ raGhost'.gaps = 0
      /\ raGhost'.hidden = 0 /\ raGhost'.badEnds = 0
  BY <1>0 DEF AnalyzerTypes
<1>3. AnalyzerTypes'
  <2>1. raGhost.calls + 1 \in 0 .. AnalyzerCalls
    BY <1>0, AnalyzerFields, AnalyzerAssumption
  <2>2. raGhost' \in [calls : 0 .. AnalyzerCalls, run : 0 .. SeqModulus - 1, ends : Nat, gaps : Nat,
                      hidden : Nat, badEnds : Nat, first : BOOLEAN]
    BY <1>0, <2>1 DEF AnalyzerTypes
  <2> QED BY <1>0, <1>1, <1>2, <2>2 DEF AnalyzerTypes
<1>4. AnalyzerAtLoss'
  BY <1>0, <1>1, <1>2 DEF AnalyzerAtLoss
<1>5. AnalyzerIsFair'
  BY <1>1, <1>2 DEF AnalyzerIsFair, AnalyzerCountsGaps, AnalyzerBlamesLossOnly, Zeroes
<1> QED BY <1>3, <1>4, <1>5 DEF AnalyzerInv

LEMMA AnalyzerStep == AnalyzerInv /\ [AnalyzerNext]_raVars => AnalyzerInv'
<1> SUFFICES ASSUME AnalyzerInv, [AnalyzerNext]_raVars PROVE AnalyzerInv'
  OBVIOUS
<1>1. CASE Transmit
  <2>1. PICK m \in BOOLEAN, lost \in BOOLEAN : Transmit!2!(m, lost)
    BY <1>1 DEF Transmit
  <2>2. CASE lost
    BY <1>1, <2>1, <2>2, TransmitLost DEF Transmit
  <2>3. CASE ~lost
    BY <1>1, <2>1, <2>3, TransmitSeen DEF Transmit
  <2> QED BY <2>2, <2>3
<1>2. CASE AnalyzerCallReset
  BY <1>2, ResetKeepsHeader
<1>3. CASE UNCHANGED raVars
  BY <1>3 DEF raVars, AnalyzerInv, AnalyzerTypes, AnalyzerAtLoss, AnalyzerIsFair,
              AnalyzerCountsGaps, AnalyzerBlamesLossOnly
<1> QED BY <1>1, <1>2, <1>3 DEF AnalyzerNext

(* Whatever the network loses, short of a whole round of sequence numbers  *)
(* at a time, rtp_hdr_write counts each gap of what it saw, save those     *)
(* after the number 0, and finds fault with the time stamps only where the *)
(* end of a frame was lost: for counters of any width, any frame rate and  *)
(* however often the numbers and the time stamps went round.               *)
THEOREM AnalyzerFair == AnalyzerSpec => []AnalyzerIsFair
<1>1. AnalyzerInv => AnalyzerIsFair
  BY DEF AnalyzerInv
<1> QED BY AnalyzerStarts, AnalyzerStep, <1>1, PTL DEF AnalyzerSpec

-----------------------------------------------------------------------------
(* The UDP receiver.                                                       *)

(* The whole packets behind the header of a datagram of n bytes.           *)
LEMMA GivenIsWhole ==
  ASSUME NEW n \in Int, n >= RtpHeader
  PROVE  \E k \in 0 .. n : /\ RtpHeader + k * TsPacket <= n
                           /\ RtpHeader + (k + 1) * TsPacket > n
                           /\ Given(n) = k * TsPacket
<1> DEFINE k == (n - RtpHeader) \div TsPacket  r == (n - RtpHeader) % TsPacket
<1>0. TsPacket \in Nat \ {0} /\ RtpHeader \in Nat
  BY UdpAssumption
<1>1. n - RtpHeader \in Nat
  BY <1>0
<1>2. k \in Nat /\ r \in 0 .. TsPacket - 1 /\ n - RtpHeader = TsPacket * k + r
  BY <1>0, <1>1, ModParts
<1>3. Given(n) = k * TsPacket
  BY <1>0 DEF Given
<1> HIDE DEF k, r
<1>4. k * TsPacket = TsPacket * k /\ (k + 1) * TsPacket = TsPacket * k + TsPacket
      /\ TsPacket * k \in Nat /\ TsPacket * k >= k
  BY <1>0, <1>2
<1>5. k \in 0 .. n
  BY <1>0, <1>2, <1>4
<1>6. RtpHeader + k * TsPacket <= n /\ RtpHeader + (k + 1) * TsPacket > n
  BY <1>0, <1>2, <1>4
<1> QED BY <1>3, <1>5, <1>6

LEMMA GivenType == ASSUME NEW n \in Int PROVE Given(n) \in Int
<1>0. TsPacket \in Nat \ {0} /\ RtpHeader \in Nat
  BY UdpAssumption
<1>1. CASE n >= RtpHeader
  <2>1. PICK k \in 0 .. n : Given(n) = k * TsPacket
    BY <1>1, GivenIsWhole
  <2> QED BY <1>0, <2>1
<1>2. CASE n < RtpHeader
  BY <1>2 DEF Given
<1> QED BY <1>0, <1>1, <1>2

LEMMA UdpStarts == UdpInit => UdpInv
<1> SUFFICES ASSUME UdpInit PROVE UdpInv
  OBVIOUS
<1> USE DEF UdpInit
<1>1. udp.running = FALSE /\ udp.terminate = FALSE /\ udp.complete = FALSE /\ udp.strip \in BOOLEAN
  OBVIOUS
<1>2. udp \in [running : BOOLEAN, terminate : BOOLEAN, complete : BOOLEAN, strip : BOOLEAN]
  OBVIOUS
<1>3. ughost \in [in : Seq(Int), out : Seq(Int), raced : BOOLEAN, calls : Nat]
  OBVIOUS
<1>4. UdpTypes
  BY <1>2, <1>3 DEF UdpTypes
<1>5. UdpFlags
  BY <1>1 DEF UdpFlags
<1>6. UdpGivesAndStops
  BY DEF UdpGivesAndStops, UdpQuietWhenFreed, UdpGivesPackets
<1> QED BY <1>4, <1>5, <1>6 DEF UdpInv

LEMMA GhostKept ==
  ASSUME NEW S, NEW g \in [in : S, out : S, raced : BOOLEAN, calls : Nat], NEW a \in S, NEW b \in S
  PROVE  /\ [g EXCEPT !.calls = @ + 1] \in [in : S, out : S, raced : BOOLEAN, calls : Nat]
         /\ [g EXCEPT !.calls = @ + 1, !.in = a, !.out = b]
              \in [in : S, out : S, raced : BOOLEAN, calls : Nat]
<1> DEFINE c == g.calls + 1
<1>1. g.calls \in Nat /\ c \in Nat
  OBVIOUS
<1>2. [g EXCEPT !.calls = @ + 1] = [g EXCEPT !.calls = c]
      /\ [g EXCEPT !.calls = @ + 1, !.in = a, !.out = b] = [g EXCEPT !.calls = c, !.in = a, !.out = b]
  OBVIOUS
<1> HIDE DEF c
<1> QED BY Zenon, <1>1, <1>2

LEMMA ReceiveGives ==
  ASSUME UdpInv, UdpReceive
  PROVE  UdpInv'
<1> USE DEF UdpReceive
<1>0. UdpTypes /\ UdpFlags /\ UdpQuietWhenFreed /\ UdpGivesPackets
  BY DEF UdpInv, UdpGivesAndStops
<1>1. PICK n \in Datagrams :
        ughost' = IF n = 0 THEN [ughost EXCEPT !.calls = @ + 1]
                  ELSE [ughost EXCEPT !.calls = @ + 1, !.in = Append(@, n),
                                      !.out = Append(@, IF udp.strip THEN Given(n) ELSE n)]
  OBVIOUS
<1>2. n \in Int /\ Given(n) \in Int
  BY GivenType, UdpAssumption
<1> DEFINE v == IF udp.strip THEN Given(n) ELSE n
<1>3. v \in Int
  BY <1>2
<1> HIDE DEF v
<1>4. ughost.in \in Seq(Int) /\ ughost.out \in Seq(Int)
  BY <1>0 DEF UdpTypes
<1>5. UdpTypes'
  <2> DEFINE G == [in : Seq(Int), out : Seq(Int), raced : BOOLEAN, calls : Nat]
  <2>0. ughost \in G /\ ughost.calls \in Nat
    BY <1>0 DEF UdpTypes
  <2>1. CASE n = 0
    <3>1. ughost' = [ughost EXCEPT !.calls = @ + 1]
      BY <1>1, <2>1
    <3>2. ughost' \in G
      BY <1>4, <2>0, <3>1, GhostKept
    <3> QED BY <1>0, <3>2 DEF UdpTypes
  <2>2. CASE n # 0
    <3>1. ughost' = [ughost EXCEPT !.calls = @ + 1, !.in = Append(@, n), !.out = Append(@, v)]
      BY <1>1, <2>2 DEF v
    <3>2. Append(ughost.in, n) \in Seq(Int) /\ Append(ughost.out, v) \in Seq(Int)
      BY <1>2, <1>3, <1>4
    <3> DEFINE a == Append(ughost.in, n)  b == Append(ughost.out, v)
    <3>3. ughost' = [ughost EXCEPT !.calls = @ + 1, !.in = a, !.out = b]
      BY <2>0, <3>1
    <3>4. a \in Seq(Int) /\ b \in Seq(Int)
      BY <3>2
    <3> HIDE DEF a, b
    <3>5. ughost' \in G
      BY <2>0, <3>3, <3>4, GhostKept
    <3> QED BY <1>0, <3>5 DEF UdpTypes
  <2> QED BY <2>1, <2>2
<1>6. UdpFlags' /\ UdpQuietWhenFreed'
  BY <1>0, <1>1 DEF UdpFlags, UdpQuietWhenFreed, UdpTypes
<1>7. UdpGivesPackets'
  <2> SUFFICES ASSUME udp.strip PROVE UdpGivesPackets'
    BY DEF UdpGivesPackets
  <2>1. CASE n = 0
    BY <1>0, <1>1, <2>1 DEF UdpGivesPackets, UdpTypes
  <2>2. CASE n # 0
    <3>1. ughost'.in = Append(ughost.in, n) /\ ughost'.out = Append(ughost.out, Given(n))
      BY <1>0, <1>1, <2>2 DEF UdpTypes
    <3>2. Len(ughost.out) = Len(ughost.in)
      BY <1>0 DEF UdpGivesPackets
    <3>3. Len(ughost'.out) = Len(ughost'.in)
      BY <1>2, <1>4, <3>1, <3>2
    <3>4. ASSUME NEW i \in DOMAIN ughost'.in, ughost'.in[i] >= RtpHeader
          PROVE  \E k \in 0 .. ughost'.in[i] :
                   /\ RtpHeader + k * TsPacket <= ughost'.in[i]
                   /\ RtpHeader + (k + 1) * TsPacket > ughost'.in[i]
                   /\ ughost'.out[i] = k * TsPacket
      <4>1. CASE i = Len(ughost.in) + 1
        <5>1. ughost'.in[i] = n /\ ughost'.out[i] = Given(n)
          BY <1>2, <1>4, <3>1, <3>2, <4>1
        <5>2. n >= RtpHeader
          BY <3>4, <5>1
        <5> QED BY <1>2, <5>1, <5>2, GivenIsWhole
      <4>2. CASE i # Len(ughost.in) + 1
        <5>1. i \in DOMAIN ughost.in /\ ughost'.in[i] = ughost.in[i] /\ ughost'.out[i] = ughost.out[i]
          BY <1>2, <1>4, <3>1, <3>2, <4>2
        <5> QED BY <1>0, <3>4, <5>1 DEF UdpGivesPackets
      <4> QED BY <4>1, <4>2
    <3> QED BY <3>3, <3>4 DEF UdpGivesPackets
  <2> QED BY <2>1, <2>2
<1> QED BY <1>5, <1>6, <1>7 DEF UdpInv, UdpGivesAndStops

LEMMA UdpStep == UdpInv /\ [UdpNext]_udpVars => UdpInv'
<1> SUFFICES ASSUME UdpInv, [UdpNext]_udpVars PROVE UdpInv'
  OBVIOUS
<1>0. UdpTypes /\ UdpFlags /\ UdpQuietWhenFreed /\ UdpGivesPackets
  BY DEF UdpInv, UdpGivesAndStops
<1>1. CASE UdpReceive
  BY <1>1, ReceiveGives
<1>2. CASE ~UdpReceive
  <2>1. UdpStart \/ UdpFree \/ UdpFreeEnd \/ UdpThreadStart \/ UdpLoopEnd \/ UdpThreadEnd
        \/ UNCHANGED udpVars
    BY <1>2 DEF UdpNext, UdpThread
  <2>2. ughost'.in = ughost.in /\ ughost'.out = ughost.out /\ udp'.strip = udp.strip
    BY <1>0, <2>1 DEF UdpStart, UdpFree, UdpFreeEnd, UdpThreadStart, UdpLoopEnd, UdpThreadEnd,
                      udpVars, UdpTypes
  <2>3. UdpGivesPackets'
    BY <1>0, <2>2 DEF UdpGivesPackets
  <2>4. UdpTypes'
    BY <1>0, <2>1 DEF UdpStart, UdpFree, UdpFreeEnd, UdpThreadStart, UdpLoopEnd, UdpThreadEnd,
                      udpVars, UdpTypes
  <2>5. UdpFlags' /\ UdpQuietWhenFreed'
    BY <1>0, <2>1 DEF UdpStart, UdpFree, UdpFreeEnd, UdpThreadStart, UdpLoopEnd, UdpThreadEnd,
                      udpVars, UdpTypes, UdpFlags, UdpQuietWhenFreed
  <2> QED BY <2>3, <2>4, <2>5 DEF UdpInv, UdpGivesAndStops
<1> QED BY <1>1, <1>2

(* Whatever comes in on the socket, the callback is given the whole        *)
(* packets of each datagram in the order of arrival, and once              *)
(* ltntstools_udp_receiver_free has returned the thread calls it no more   *)
(* (save when free came before the thread had announced itself), though    *)
(* the flags of the two are plain integers.                                *)
THEOREM UdpGives == UdpSpec => []UdpGivesAndStops
<1>1. UdpInv => UdpGivesAndStops
  BY DEF UdpInv
<1> QED BY UdpStarts, UdpStep, <1>1, PTL DEF UdpSpec

-----------------------------------------------------------------------------
(* The decoder's buffer.                                                   *)
LEMMA VbvNumbers ==
  /\ VbvSize \in Nat \ {0} /\ Delay \in Nat /\ ClockBack \in Nat \ {0}
  /\ \A n \in VbvSizes : n \in Nat
  /\ \A c \in VbvClocks : c \in Nat
BY VbvAssumption

LEMMA PesType ==
  ASSUME NEW pes \in Pess
  PROVE  pes.size \in Nat /\ pes.clk \in Nat
BY VbvNumbers DEF Pess

LEMMA ModelFields ==
  ASSUME NEW v \in Models
  PROVE  /\ v.list \in Seq(Pess) /\ v.used \in Int /\ v.lwm \in Nat \cup {-1} /\ v.hwm \in Nat
         /\ v.last \in Nat \cup {-1} /\ v.inputAt \in Nat \cup {-1} /\ v.generation \in Nat
         /\ v.terminate \in BOOLEAN /\ v.events \in Seq(VbvEvents)
BY DEF Models

LEMMA HistoryFields ==
  ASSUME NEW g \in Histories
  PROVE  g.in \in Seq(Pess) /\ g.out \in Seq(Pess) /\ g.upto \in Seq(Int) /\ g.writes \in Nat
         /\ g.raced \in BOOLEAN /\ g.refused \in BOOLEAN
BY DEF Histories

(* What the writer does to the model.                                      *)
LEMMA ResetFields ==
  ASSUME NEW v \in Models
  PROVE  LET w == ResetModel(v)
         IN  /\ w \in Models /\ w.list = << >> /\ w.used = 0 /\ w.lwm = -1 /\ w.hwm = 0
             /\ w.last = -1 /\ w.inputAt = -1 /\ w.generation = v.generation + 1
             /\ w.terminate = v.terminate
<1> DEFINE gen == v.generation + 1
<1>1. gen \in Nat
  BY ModelFields
<1>2. << >> \in Seq(Pess) /\ 0 \in Int /\ 0 \in Nat /\ -1 \in Nat \cup {-1}
  OBVIOUS
<1>3. ResetModel(v) = [v EXCEPT !.list = << >>, !.used = 0, !.lwm = -1, !.hwm = 0, !.last = -1,
                                !.inputAt = -1, !.generation = gen]
  BY DEF ResetModel, Models
<1> HIDE DEF gen
<1>4. ResetModel(v) \in Models
  BY <1>1, <1>2, <1>3 DEF Models
<1>5. /\ ResetModel(v).list = << >> /\ ResetModel(v).used = 0 /\ ResetModel(v).lwm = -1
      /\ ResetModel(v).hwm = 0 /\ ResetModel(v).last = -1 /\ ResetModel(v).inputAt = -1
      /\ ResetModel(v).generation = gen /\ ResetModel(v).terminate = v.terminate
  BY <1>3 DEF Models
<1> QED BY <1>4, <1>5 DEF gen

LEMMA AddFields ==
  ASSUME NEW v \in Models, NEW pes \in Pess, NEW at \in Nat, Fits(v, pes.size)
  PROVE  LET w == AddItem(v, pes, at)
         IN  /\ w \in Models /\ w.list = Append(v.list, pes) /\ w.used = v.used + pes.size
             /\ w.lwm = (IF pes.clk # 0 /\ (v.lwm = -1 \/ pes.clk <= v.lwm) THEN pes.clk ELSE v.lwm)
             /\ w.hwm = (IF pes.clk > v.hwm THEN pes.clk ELSE v.hwm)
             /\ w.inputAt = at /\ w.generation = v.generation
<1> DEFINE aus == Append(v.list, pes)
           used == v.used + pes.size
           lwm == IF pes.clk # 0 /\ (v.lwm = -1 \/ pes.clk <= v.lwm) THEN pes.clk ELSE v.lwm
           hwm == IF pes.clk > v.hwm THEN pes.clk ELSE v.hwm
           clk == pes.clk
           w == AddItem(v, pes, at)
<1>1. aus \in Seq(Pess)
  BY ModelFields
<1>2. used \in Int /\ lwm \in Nat \cup {-1} /\ hwm \in Nat /\ clk \in Nat \cup {-1}
      /\ at \in Nat \cup {-1}
  BY ModelFields, PesType
<1>3. w = [v EXCEPT !.list = aus, !.used = used, !.inputAt = at, !.last = clk, !.hwm = hwm,
                    !.events = << >>, !.lwm = lwm]
  BY DEF AddItem, Store, Models
<1>4. << >> \in Seq(VbvEvents)
  OBVIOUS
<1> HIDE DEF aus, used, lwm, hwm, w, clk
<1>5. w \in Models
  BY <1>1, <1>2, <1>3, <1>4 DEF Models
<1>6. w.list = aus /\ w.used = used /\ w.lwm = lwm /\ w.hwm = hwm /\ w.inputAt = at
      /\ w.generation = v.generation
  BY <1>3 DEF Models
<1> QED BY <1>5, <1>6 DEF aus, used, lwm, hwm, w

(* A queue: what went in is what came out and what is still there.         *)
LEMMA QueuePut ==
  ASSUME NEW out \in Seq(Pess), NEW aus \in Seq(Pess), NEW e \in Pess
  PROVE  Append(out \o aus, e) = out \o Append(aus, e)
<1>1. <<e>> \in Seq(Pess) /\ out \o aus \in Seq(Pess)
  BY ConcatProperties
<1>2. Append(out \o aus, e) = (out \o aus) \o <<e>>
  BY <1>1, AppendIsConcat
<1>3. Append(aus, e) = aus \o <<e>>
  BY AppendIsConcat
<1>4. (out \o aus) \o <<e>> = out \o (aus \o <<e>>)
  BY <1>1, ConcatAssociative
<1> QED BY ONLY <1>2, <1>3, <1>4

LEMMA QueueGet ==
  ASSUME NEW S, NEW in \in Seq(S), NEW out \in Seq(S), NEW aus \in Seq(S), aus # << >>,
         in = out \o aus
  PROVE  /\ in = Append(out, aus[1]) \o Tail(aus) /\ aus[1] \in S
         /\ Len(out) \in Nat /\ Len(out) + 1 \in 1 .. Len(in)
         /\ Len(Append(out, aus[1])) = Len(out) + 1
         /\ in[Len(out) + 1] = aus[1]
<1>1. aus[1] \in S /\ Tail(aus) \in Seq(S) /\ Len(aus) \in Nat \ {0} /\ Len(out) \in Nat
  OBVIOUS
<1>2. aus = <<aus[1]>> \o Tail(aus) /\ <<aus[1]>> \in Seq(S)
  BY <1>1
<1>3. Append(out, aus[1]) = out \o <<aus[1]>>
  BY <1>1, AppendIsConcat
<1>4. (out \o <<aus[1]>>) \o Tail(aus) = out \o (<<aus[1]>> \o Tail(aus))
  BY <1>1, <1>2, ConcatAssociative
<1>5. Len(in) = Len(out) + Len(aus)
      /\ \A i \in 1 .. Len(out) + Len(aus) :
           in[i] = IF i <= Len(out) THEN out[i] ELSE aus[i - Len(out)]
  BY ConcatProperties
<1>6. Len(Append(out, aus[1])) = Len(out) + 1
  BY <1>1, AppendProperties
<1>7. Len(out) + 1 \in 1 .. Len(in) /\ in[Len(out) + 1] = aus[1]
  BY <1>1, <1>5
<1> QED BY <1>1, <1>2, <1>3, <1>4, <1>6, <1>7

(* The buffer v holds what the history g says.                             *)
Sums(in, upto) ==
  /\ Len(upto) = Len(in)
  /\ \A k \in DOMAIN in : Total(upto, k) = Total(upto, k - 1) + in[k].size
HoldsOf(aus, used, in, out, upto) ==
  /\ in = out \o aus /\ Sums(in, upto)
  /\ used = Total(upto, Len(in)) - Total(upto, Len(out)) /\ used < VbvSize

LEMMA HoldsIs ==
  VbvTypes => (VbvHoldsStream <=> (vcpc # "freed" =>
                 HoldsOf(vbv.list, vbv.used, vghost.in, vghost.out, vghost.upto)))
BY DEF VbvTypes, VbvHoldsStream, VbvLevelIsHeld, VbvInOrder, HoldsOf, Sums

LEMMA TotalType ==
  ASSUME NEW upto \in Seq(Int), NEW k \in 0 .. Len(upto)
  PROVE  Total(upto, k) \in Int
BY DEF Total

LEMMA SumsGrow ==
  ASSUME NEW in \in Seq(Pess), NEW upto \in Seq(Int), Sums(in, upto), NEW pes \in Pess
  PROVE  LET n == Total(upto, Len(upto)) + pes.size
             u == Append(upto, n)
         IN  /\ u \in Seq(Int) /\ Sums(Append(in, pes), u)
             /\ Total(u, Len(in) + 1) = n
             /\ \A k \in 0 .. Len(in) : Total(u, k) = Total(upto, k)
<1> DEFINE n == Total(upto, Len(upto)) + pes.size
           u == Append(upto, n)
           i2 == Append(in, pes)
<1>1. Len(upto) = Len(in) /\ Len(in) \in Nat
  BY DEF Sums
<1>2. n \in Int
  BY TotalType, PesType, <1>1
<1>3. u \in Seq(Int) /\ Len(u) = Len(in) + 1 /\ u[Len(in) + 1] = n
      /\ \A k \in 1 .. Len(in) : u[k] = upto[k]
  BY <1>1, <1>2
<1>4. Len(i2) = Len(in) + 1 /\ DOMAIN i2 = 1 .. Len(in) + 1 /\ i2[Len(in) + 1] = pes
      /\ \A k \in 1 .. Len(in) : i2[k] = in[k]
  BY <1>1
<1>n. n = Total(upto, Len(in)) + pes.size
  BY <1>1
<1> HIDE DEF n, u, i2
<1>5. Total(u, Len(in) + 1) = n
  BY <1>1, <1>3 DEF Total
<1>6. ASSUME NEW k \in 0 .. Len(in) PROVE Total(u, k) = Total(upto, k)
  BY <1>1, <1>3 DEF Total
<1>7. ASSUME NEW k \in DOMAIN i2 PROVE Total(u, k) = Total(u, k - 1) + i2[k].size
  <2>1. CASE k = Len(in) + 1
    <3>1. k - 1 = Len(in) /\ Len(in) \in 0 .. Len(in)
      BY <1>1, <2>1
    <3>2. Total(u, k - 1) = Total(upto, Len(in))
      BY <1>6, <3>1
    <3> QED BY <1>4, <1>5, <1>n, <2>1, <3>2
  <2>2. CASE k # Len(in) + 1
    <3>1. k \in 1 .. Len(in) /\ k \in 0 .. Len(in) /\ k - 1 \in 0 .. Len(in) /\ k \in DOMAIN in
      BY <1>1, <1>4, <2>2
    <3>2. Total(u, k) = Total(upto, k) /\ Total(u, k - 1) = Total(upto, k - 1)
      BY <1>6, <3>1
    <3>3. Total(upto, k) = Total(upto, k - 1) + in[k].size
      BY <3>1 DEF Sums
    <3> QED BY <1>4, <3>1, <3>2, <3>3
  <2> QED BY <2>1, <2>2
<1>8. Sums(i2, u)
  BY <1>3, <1>4, <1>7 DEF Sums
<1> QED BY <1>3, <1>5, <1>6, <1>8 DEF n, u, i2

LEMMA StoredFields ==
  ASSUME NEW g \in Histories, NEW pes \in Pess, Sums(g.in, g.upto)
  PROVE  LET h == Stored(g, pes)
         IN  /\ h \in Histories /\ h.in = Append(g.in, pes) /\ h.out = g.out
             /\ h.upto = Append(g.upto, Total(g.upto, Len(g.upto)) + pes.size)
             /\ h.writes = g.writes /\ h.refused = g.refused
<1> DEFINE i == Append(g.in, pes)
           u == Append(g.upto, Total(g.upto, Len(g.upto)) + pes.size)
           h == Stored(g, pes)
<1>1. h = [g EXCEPT !.in = i, !.upto = u]
  BY DEF Stored, Histories
<1>2. i \in Seq(Pess)
  BY HistoryFields
<1>3. u \in Seq(Int)
  BY HistoryFields, SumsGrow
<1> HIDE DEF i, u, h
<1>4. h \in Histories
  BY <1>1, <1>2, <1>3 DEF Histories
<1>5. h.in = i /\ h.out = g.out /\ h.upto = u /\ h.writes = g.writes /\ h.refused = g.refused
  BY <1>1 DEF Histories
<1> QED BY <1>4, <1>5 DEF i, u, h

LEMMA AddHolds ==
  ASSUME NEW aus \in Seq(Pess), NEW used \in Int, NEW in \in Seq(Pess), NEW out \in Seq(Pess),
         NEW upto \in Seq(Int), HoldsOf(aus, used, in, out, upto),
         NEW pes \in Pess, used + pes.size < VbvSize
  PROVE  HoldsOf(Append(aus, pes), used + pes.size, Append(in, pes), out,
                 Append(upto, Total(upto, Len(upto)) + pes.size))
<1> DEFINE n == Total(upto, Len(upto)) + pes.size
           u == Append(upto, n)
           i2 == Append(in, pes)
           l2 == Append(aus, pes)
<1>0. in = out \o aus /\ Sums(in, upto) /\ Len(upto) = Len(in)
      /\ used = Total(upto, Len(in)) - Total(upto, Len(out))
  BY DEF HoldsOf, Sums
<1>1. i2 = out \o l2 /\ Len(i2) = Len(in) + 1 /\ Len(out) \in 0 .. Len(in)
  <2>1. in = out \o aus
    BY <1>0
  <2>2. Append(in, pes) = out \o Append(aus, pes)
        /\ Len(Append(in, pes)) = Len(in) + 1 /\ Len(out) \in 0 .. Len(in)
    <3> USE ONLY <2>1, in \in Seq(Pess), out \in Seq(Pess), aus \in Seq(Pess), pes \in Pess
    <3>1. Append(out \o aus, pes) = out \o Append(aus, pes)
      BY QueuePut
    <3>2. Len(Append(in, pes)) = Len(in) + 1
      BY AppendProperties
    <3>3. Len(out) \in 0 .. Len(in)
      <4>1. Len(in) = Len(out) + Len(aus) /\ Len(out) \in Nat /\ Len(aus) \in Nat
        BY ConcatProperties
      <4> QED BY ONLY <4>1
    <3> QED BY ONLY <2>1, <3>1, <3>2, <3>3
  <2> QED BY <2>2
<1>2. Sums(i2, u) /\ Total(u, Len(in) + 1) = n
      /\ \A k \in 0 .. Len(in) : Total(u, k) = Total(upto, k)
  BY <1>0, SumsGrow
<1>3. Total(upto, Len(in)) \in Int /\ Total(upto, Len(out)) \in Int /\ pes.size \in Int
  <2>1. Len(in) \in 0 .. Len(upto) /\ Len(out) \in 0 .. Len(upto)
    BY <1>0, <1>1
  <2> QED BY <2>1, TotalType, PesType
<1>4. n = Total(upto, Len(in)) + pes.size /\ Total(u, Len(out)) = Total(upto, Len(out))
  BY <1>0, <1>1, <1>2
<1> HIDE DEF n, u, i2, l2
<1>5. used + pes.size = Total(u, Len(i2)) - Total(u, Len(out))
  BY <1>0, <1>1, <1>2, <1>3, <1>4
<1>6. HoldsOf(l2, used + pes.size, i2, out, u)
  BY <1>1, <1>2, <1>5 DEF HoldsOf
<1> QED BY <1>6 DEF n, u, i2, l2

LEMMA TakeHolds ==
  ASSUME NEW aus \in Seq(Pess), NEW used \in Int, NEW in \in Seq(Pess), NEW out \in Seq(Pess),
         NEW upto \in Seq(Int), HoldsOf(aus, used, in, out, upto), aus # << >>
  PROVE  HoldsOf(Tail(aus), used - aus[1].size, in, Append(out, aus[1]), upto)
<1> DEFINE k == Len(out) + 1
           pes == aus[1]
           o2 == Append(out, pes)
<1>0. in = out \o aus /\ Sums(in, upto) /\ Len(upto) = Len(in) /\ used < VbvSize
      /\ used = Total(upto, Len(in)) - Total(upto, Len(out))
  BY DEF HoldsOf, Sums
<1>1. /\ in = o2 \o Tail(aus) /\ pes \in Pess /\ Len(out) \in Nat
      /\ k \in 1 .. Len(in) /\ Len(o2) = k /\ in[k] = pes
  <2>1. in = out \o aus
    BY <1>0
  <2>2. /\ in = Append(out, aus[1]) \o Tail(aus) /\ aus[1] \in Pess
        /\ Len(out) \in Nat /\ Len(out) + 1 \in 1 .. Len(in)
        /\ Len(Append(out, aus[1])) = Len(out) + 1
        /\ in[Len(out) + 1] = aus[1]
    BY ONLY <2>1, QueueGet, in \in Seq(Pess), out \in Seq(Pess), aus \in Seq(Pess), aus # << >>
  <2> QED BY <2>2
<1>2. Len(in) \in Nat /\ DOMAIN in = 1 .. Len(in)
  OBVIOUS
<1>3. k - 1 = Len(out) /\ k \in DOMAIN in
  BY <1>1, <1>2
<1> HIDE DEF k, pes, o2
<1>4. Total(upto, k) = Total(upto, Len(out)) + pes.size
  BY <1>0, <1>1, <1>3 DEF Sums
<1>5. Total(upto, Len(out)) \in Int /\ Total(upto, Len(in)) \in Int
  <2>1. Len(in) \in 0 .. Len(upto) /\ Len(out) \in 0 .. Len(upto)
    BY <1>0, <1>1, <1>2, <1>3
  <2> QED BY <2>1, TotalType
<1>6. pes.size \in Nat
  BY <1>1, PesType
<1>7. used - pes.size = Total(upto, Len(in)) - Total(upto, Len(o2)) /\ used - pes.size < VbvSize
  <2>1. used \in Int /\ VbvSize \in Int
    BY VbvNumbers
  <2>2. used = Total(upto, Len(in)) - Total(upto, Len(out)) /\ used < VbvSize
    BY <1>0
  <2>3. Total(upto, Len(o2)) = Total(upto, Len(out)) + pes.size
    BY <1>1, <1>4
  <2> QED BY ONLY <1>5, <1>6, <2>1, <2>2, <2>3
<1>8. HoldsOf(Tail(aus), used - pes.size, in, o2, upto)
  BY <1>0, <1>1, <1>7 DEF HoldsOf
<1> QED BY <1>8 DEF pes, o2

LEMMA EventSeq == \A e \in VbvEvents : <<e>> \in Seq(VbvEvents)
OBVIOUS

(* An event leaves the rest of the model.                                  *)
LEMMA EventFields ==
  ASSUME NEW v \in Models, NEW e \in Seq(VbvEvents)
  PROVE  LET w == [v EXCEPT !.events = e]
         IN  /\ w \in Models /\ w.list = v.list /\ w.used = v.used /\ w.lwm = v.lwm /\ w.hwm = v.hwm
             /\ w.inputAt = v.inputAt /\ w.generation = v.generation
BY DEF Models

(* The span grows with every PES.                                          *)
LEMMA AddSpans ==
  ASSUME NEW v \in Models, NEW pes \in Pess, NEW at \in Nat, Fits(v, pes.size)
  PROVE  LET w == AddItem(v, pes, at)
         IN  /\ Spans(v) => Spans(w)
             /\ v.lwm # -1 => w.lwm # -1 /\ w.lwm <= v.lwm
             /\ pes.clk # 0 => w.lwm # -1 /\ w.lwm <= pes.clk
<1> DEFINE w == AddItem(v, pes, at)
<1>1. /\ w.lwm = (IF pes.clk # 0 /\ (v.lwm = -1 \/ pes.clk <= v.lwm) THEN pes.clk ELSE v.lwm)
      /\ w.hwm = (IF pes.clk > v.hwm THEN pes.clk ELSE v.hwm)
  BY AddFields
<1>2. v.lwm \in Nat \cup {-1} /\ v.hwm \in Nat /\ pes.clk \in Nat /\ Delay \in Nat
  BY ModelFields, PesType, VbvNumbers
<1> HIDE DEF w
<1> QED BY <1>1, <1>2 DEF Spans, w

(* What a write finds, once it has looked at the clock.                    *)
LEMMA WriteBase ==
  ASSUME VbvInv, vcpc = "idle", NEW pes \in Pess
  PROVE  LET anew == BegunAnew(vbv, pes.clk)
             v == IF anew THEN ResetModel(vbv) ELSE vbv
             g == IF anew THEN Forgotten(vghost, ~Fits(v, pes.size)) ELSE vghost
         IN  /\ v \in Models /\ g \in Histories /\ g.writes = vghost.writes
             /\ HoldsOf(v.list, v.used, g.in, g.out, g.upto)
             /\ anew => /\ v.list = << >> /\ v.lwm = -1 /\ v.generation > vlocal.generation
                        /\ pes.clk # 0 /\ (g.refused <=> ~Fits(v, pes.size))
             /\ v.generation >= vlocal.generation /\ v.inputAt <= vnow
             /\ Len(g.out) <= Len(vghost.out)
<1> DEFINE anew == BegunAnew(vbv, pes.clk)
           v == IF anew THEN ResetModel(vbv) ELSE vbv
           g == IF anew THEN Forgotten(vghost, ~Fits(v, pes.size)) ELSE vghost
<1>0. vbv \in Models /\ vghost \in Histories /\ vlocal.generation \in Nat /\ vnow \in Nat
      /\ HoldsOf(vbv.list, vbv.used, vghost.in, vghost.out, vghost.upto)
      /\ vlocal.generation <= vbv.generation /\ vbv.inputAt <= vnow
  BY HoldsIs DEF VbvInv, VbvTypes, VbvTimes
<1>1. vbv.generation \in Nat /\ pes.size \in Nat
      /\ vghost.out \in Seq(Pess) /\ Len(vghost.out) \in Nat
  BY <1>0, ModelFields, HistoryFields, PesType
<1>2. CASE anew
  <2>1. /\ v \in Models /\ v.list = << >> /\ v.used = 0 /\ v.lwm = -1 /\ v.inputAt = -1
        /\ v.generation = vbv.generation + 1
    BY <1>0, <1>2, ResetFields
  <2> DEFINE r == ~Fits(v, pes.size)
  <2>2. g = [vghost EXCEPT !.in = << >>, !.out = << >>, !.upto = << >>, !.refused = r]
        /\ r \in BOOLEAN
    BY <1>2 DEF Forgotten
  <2> HIDE DEF r
  <2>3. g \in Histories /\ g.in = << >> /\ g.out = << >> /\ g.upto = << >> /\ g.writes = vghost.writes
        /\ g.refused = r
    <3>1. << >> \in Seq(Pess) /\ << >> \in Seq(Int)
      OBVIOUS
    <3> DEFINE e == << >>
    <3>2. e \in Seq(Pess) /\ e \in Seq(Int) /\ g = [vghost EXCEPT !.in = e, !.out = e, !.upto = e, !.refused = r]
      BY <2>2, <3>1
    <3> HIDE DEF e, g
    <3>3. g \in Histories
      BY <1>0, <2>2, <3>2 DEF Histories
    <3>4. g.in = e /\ g.out = e /\ g.upto = e /\ g.writes = vghost.writes /\ g.refused = r
      BY <1>0, <3>2 DEF Histories
    <3> QED BY <3>3, <3>4 DEF e
  <2>4. pes.clk # 0
    BY <1>2 DEF BegunAnew
  <2>5. g.refused <=> ~Fits(v, pes.size)
    BY <2>3 DEF r
  <2> HIDE DEF v, g, anew
  <2>6. HoldsOf(v.list, v.used, g.in, g.out, g.upto)
    <3>1. << >> = << >> \o << >> /\ Len(<< >>) = 0
      OBVIOUS
    <3>2. Sums(g.in, g.upto)
      BY <2>3 DEF Sums
    <3>3. Total(g.upto, 0) = 0 /\ 0 < VbvSize
      BY VbvNumbers DEF Total
    <3> QED BY <2>1, <2>3, <3>1, <3>2, <3>3 DEF HoldsOf
  <2>7. v.generation > vlocal.generation /\ v.inputAt <= vnow
    BY <1>0, <1>1, <2>1
  <2>8. Len(g.out) <= Len(vghost.out)
    BY <1>1, <2>3
  <2>9. v.generation >= vlocal.generation
    BY <1>0, <1>1, <2>1
  <2> QED BY <2>1, <2>3, <2>4, <2>5, <2>6, <2>7, <2>8, <2>9 DEF v, g, anew
<1>3. CASE ~anew
  BY <1>0, <1>1, <1>3
<1> QED BY <1>2, <1>3

(* Both halves of what lets the thread take a PES, after a write.          *)
LEMMA WritePermits ==
  ASSUME VbvInv, vcpc = "idle", NEW pes \in Pess, UNCHANGED <<vlocal, vtpc>>,
         LET anew == BegunAnew(vbv, pes.clk)
             v == IF anew THEN ResetModel(vbv) ELSE vbv
         IN  /\ vbv' = AddItem(v, pes, vnow)
             /\ anew => (vghost'.refused <=> ~Fits(v, pes.size))
             /\ ~anew => (vghost'.refused <=> vghost.refused)
  PROVE  VbvPermits'
<1> DEFINE anew == BegunAnew(vbv, pes.clk)
           v == IF anew THEN ResetModel(vbv) ELSE vbv
<1>0. vlocal.now \in Nat /\ vnow \in Nat /\ vlocal.now <= vnow /\ vlocal.generation \in Nat
      /\ VbvPermits /\ vbv \in Models
  BY DEF VbvInv, VbvTypes, VbvTimes
<1>1. /\ v \in Models
      /\ anew => /\ v.list = << >> /\ v.lwm = -1 /\ v.generation > vlocal.generation
                 /\ pes.clk # 0
  BY WriteBase
<1>2. /\ vbv' = AddItem(v, pes, vnow) /\ (~anew => v = vbv)
      /\ anew => (vghost'.refused <=> ~Fits(v, pes.size))
      /\ ~anew => (vghost'.refused <=> vghost.refused)
  OBVIOUS
<1> HIDE DEF v, anew
<1>3. Fits(v, pes.size) =>
        vbv'.list = Append(v.list, pes) /\ vbv'.inputAt = vnow /\ vbv'.generation = v.generation
  BY <1>0, <1>1, <1>2, AddFields
<1>4. Fits(v, pes.size) =>
        /\ Spans(v) => Spans(vbv')
        /\ v.lwm # -1 => vbv'.lwm # -1 /\ vbv'.lwm <= v.lwm
        /\ pes.clk # 0 => vbv'.lwm # -1 /\ vbv'.lwm <= pes.clk
  BY <1>0, <1>1, <1>2, AddSpans
<1>5. v.list \in Seq(Pess) /\ v.lwm \in Int /\ v.generation \in Nat /\ pes.clk \in Nat
  BY <1>1, ModelFields, PesType
<1>6. vlocal' = vlocal /\ vtpc' = vtpc
  OBVIOUS
<1>e. ~Fits(v, pes.size) =>
        /\ vbv'.list = v.list /\ vbv'.lwm = v.lwm /\ vbv'.hwm = v.hwm /\ vbv'.inputAt = v.inputAt
        /\ vbv'.generation = v.generation
  <2>1. <<"OVERFLOW">> \in Seq(VbvEvents)
    BY EventSeq DEF VbvEvents
  <2>2. ~Fits(v, pes.size) => vbv' = [v EXCEPT !.events = <<"OVERFLOW">>]
    BY <1>2 DEF AddItem, RaiseEvent
  <2> DEFINE w == [v EXCEPT !.events = <<"OVERFLOW">>]
  <2>3. /\ w.list = v.list /\ w.lwm = v.lwm /\ w.hwm = v.hwm /\ w.inputAt = v.inputAt
        /\ w.generation = v.generation
    BY <1>1, <2>1, EventFields
  <2> HIDE DEF w
  <2>4. ~Fits(v, pes.size) => vbv' = w
    BY <2>2 DEF w
  <2> QED BY <2>3, <2>4
<1>7. CASE anew /\ Fits(v, pes.size)
  <2>1. vbv'.generation # vlocal.generation
    BY <1>0, <1>1, <1>3, <1>5, <1>7
  <2>2. vbv'.list = <<pes>> /\ vbv'.lwm # -1 /\ vbv'.lwm <= pes.clk
    BY <1>1, <1>3, <1>4, <1>7
  <2>3. vbv'.lwm # -1 /\ vbv'.list # << >> /\ vbv'.lwm <= vbv'.list[1].clk
    BY <1>5, <2>2
  <2>4. vlocal.now <= vbv'.inputAt
    BY <1>0, <1>3, <1>7
  <2> QED BY <1>6, <2>1, <2>3, <2>4 DEF VbvPermits
<1>8. CASE anew /\ ~Fits(v, pes.size)
  <2>1. vbv'.generation # vlocal.generation
    BY <1>0, <1>1, <1>e, <1>5, <1>8
  <2>2. vbv'.list = << >> /\ vghost'.refused
    BY <1>1, <1>2, <1>e, <1>8
  <2> QED BY <1>6, <2>1, <2>2 DEF VbvPermits
<1>9. CASE ~anew /\ Fits(v, pes.size)
  <2>1. v = vbv /\ (vghost'.refused <=> vghost.refused)
    BY <1>2, <1>9
  <2>2. vlocal.permit /\ vlocal.generation = vbv'.generation => Spans(vbv')
    BY <1>0, <1>3, <1>4, <1>9, <2>1 DEF VbvPermits
  <2>3. ASSUME vtpc = "drain", ~Spans(vbv')
        PROVE  /\ vlocal.now <= vbv'.inputAt /\ vbv'.list # << >>
               /\ Unstamped' \/ (vbv'.lwm # -1 /\ vbv'.lwm <= vbv'.list[1].clk)
    <3>1. vlocal.now <= vbv'.inputAt /\ vbv'.list # << >>
      BY <1>0, <1>3, <1>5, <1>9
    <3>2. vbv'.lwm \in Int
      <4>1. vbv' \in Models
        BY <1>0, <1>1, <1>2, <1>9, AddFields
      <4> QED BY <4>1, ModelFields
    <3>3. CASE vghost.refused /\ vbv.list = << >>
      <4>1. vbv'.list = <<pes>> /\ vbv'.list[1] = pes /\ vghost'.refused
        BY <1>3, <1>9, <2>1, <3>3
      <4>2. CASE pes.clk = 0
        BY <3>1, <4>1, <4>2 DEF Unstamped
      <4>3. CASE pes.clk # 0
        BY <1>4, <1>9, <3>1, <4>1, <4>3
      <4> QED BY <3>1, <4>2, <4>3
    <3>4. CASE vbv.list # << >> /\ (Unstamped \/ (vbv.lwm # -1 /\ vbv.lwm <= vbv.list[1].clk))
      <4>1. vbv'.list[1] = vbv.list[1] /\ vbv.list[1] \in Pess
        BY <1>3, <1>5, <1>9, <2>1, <3>4
      <4>2. vbv.list[1].clk \in Nat
        BY <4>1, PesType
      <4>3. CASE Unstamped
        <5>1. vghost'.refused /\ vbv'.list[1].clk = 0
          BY <2>1, <4>1, <4>3 DEF Unstamped
        <5>2. Unstamped'
          BY <5>1, <3>1 DEF Unstamped
        <5> QED BY <3>1, <5>2
      <4>4. CASE vbv.lwm # -1 /\ vbv.lwm <= vbv.list[1].clk
        <5>1. vbv'.lwm # -1 /\ vbv'.lwm <= vbv.lwm
          BY <1>4, <1>9, <2>1, <4>4
        <5>2. vbv'.lwm <= vbv'.list[1].clk
          BY <1>5, <2>1, <3>2, <4>1, <4>2, <4>4, <5>1
        <5> QED BY <3>1, <5>1, <5>2
      <4> QED BY <3>4, <4>3, <4>4
    <3>5. (vghost.refused /\ vbv.list = << >>)
          \/ (vbv.list # << >> /\ (Unstamped \/ (vbv.lwm # -1 /\ vbv.lwm <= vbv.list[1].clk)))
      BY <1>0, <1>4, <1>9, <2>1, <2>3 DEF VbvPermits
    <3> QED BY <3>3, <3>4, <3>5
  <2> QED BY <1>6, <2>2, <2>3 DEF VbvPermits
<1>10. CASE ~anew /\ ~Fits(v, pes.size)
  <2>1. v = vbv /\ (vghost'.refused <=> vghost.refused)
    BY <1>2, <1>10
  <2>2. (Spans(vbv') <=> Spans(vbv)) /\ (Unstamped' <=> Unstamped)
    BY <1>10, <1>e, <2>1 DEF Spans, Unstamped
  <2> QED BY <1>0, <1>6, <1>10, <1>e, <2>1, <2>2 DEF VbvPermits
<1> QED BY <1>7, <1>8, <1>9, <1>10

LEMMA VbvStarts == VbvInit => VbvInv
<1> SUFFICES ASSUME VbvInit PROVE VbvInv
  OBVIOUS
<1> USE DEF VbvInit
<1>1. vbv \in Models
  <2>1. << >> \in Seq(Pess) /\ << >> \in Seq(VbvEvents) /\ 0 \in Int /\ 0 \in Nat /\ -1 \in Nat \cup {-1}
    OBVIOUS
  <2> QED BY <2>1 DEF VbvAlloc, Models
<1>2. vghost \in Histories
  <2>1. << >> \in Seq(Pess) /\ << >> \in Seq(Int)
    OBVIOUS
  <2> QED BY <2>1 DEF Histories
<1>3. VbvTypes
  BY <1>1, <1>2 DEF VbvTypes
<1>4. VbvTimes
  BY DEF VbvTimes, VbvAlloc
<1>5. VbvPermits
  BY DEF VbvPermits
<1>6. HoldsOf(vbv.list, vbv.used, vghost.in, vghost.out, vghost.upto)
  BY VbvNumbers DEF VbvAlloc, HoldsOf, Sums, Total
<1> QED BY <1>3, <1>4, <1>5, <1>6, HoldsIs DEF VbvInv

LEMMA WriteStep == ASSUME VbvInv, VbvWrite PROVE VbvInv' /\ Len(vghost'.out) <= Len(vghost.out)
<1> USE DEF VbvWrite
<1>1. PICK size \in VbvSizes, clk \in VbvClocks : VbvWrite!2!(size, clk)
  OBVIOUS
<1> DEFINE pes == [size |-> size, clk |-> clk]
           anew == BegunAnew(vbv, clk)
           v == IF anew THEN ResetModel(vbv) ELSE vbv
           g == IF anew THEN Forgotten(vghost, ~Fits(v, size)) ELSE vghost
           h == IF Fits(v, size) THEN Stored(g, pes) ELSE g
<1>2. vbv' = AddItem(v, pes, vnow) /\ vghost' = [h EXCEPT !.writes = @ + 1]
  BY <1>1
<1>3. pes \in Pess /\ pes.size = size /\ pes.clk = clk
  BY DEF Pess
<1>4. /\ v \in Models /\ g \in Histories /\ HoldsOf(v.list, v.used, g.in, g.out, g.upto)
      /\ anew => /\ v.list = << >> /\ v.lwm = -1 /\ v.generation > vlocal.generation
                 /\ clk # 0 /\ (g.refused <=> ~Fits(v, size))
      /\ v.generation >= vlocal.generation /\ v.inputAt <= vnow
      /\ Len(g.out) <= Len(vghost.out)
  BY <1>3, WriteBase
<1>u. UNCHANGED <<vcpc, vtpc, vlocal, vnow>> /\ vcpc = "idle"
  OBVIOUS
<1>n. vnow \in Nat /\ vlocal \in [now : Nat, permit : BOOLEAN, generation : Nat]
      /\ vlocal.now <= vnow /\ vcpc \in {"idle", "join", "freed"}
      /\ vtpc \in {"new", "loop", "permit", "drain", "done"} /\ VbvPermits
  BY DEF VbvInv, VbvTypes, VbvTimes
<1>h. ASSUME NEW k \in Histories
      PROVE  LET j == [k EXCEPT !.writes = @ + 1]
             IN  j \in Histories /\ j.in = k.in /\ j.out = k.out /\ j.upto = k.upto
                 /\ j.refused = k.refused
  <2> DEFINE n == k.writes + 1
  <2>1. n \in Nat
    BY HistoryFields
  <2>2. [k EXCEPT !.writes = @ + 1] = [k EXCEPT !.writes = n]
    OBVIOUS
  <2> HIDE DEF n
  <2> QED BY <2>1, <2>2 DEF Histories
<1>s. Sums(g.in, g.upto)
  BY <1>4 DEF HoldsOf
<1>r. g.refused = h.refused /\ h \in Histories
  <2> HIDE DEF g, pes, v, anew
  <2>1. g \in Histories /\ pes \in Pess
    BY <1>3, <1>4
  <2>2. Stored(g, pes) \in Histories /\ Stored(g, pes).refused = g.refused
    BY ONLY <2>1, <1>s, StoredFields
  <2> QED BY <2>1, <2>2
<1>p. VbvPermits'
  <2>1. vghost'.refused = g.refused
    BY <1>2, <1>h, <1>r
  <2>2. ~anew => g = vghost
    OBVIOUS
  <2>3. (anew => (vghost'.refused <=> ~Fits(v, pes.size))) /\ (~anew => (vghost'.refused <=> vghost.refused))
    BY <1>3, <1>4, <2>1, <2>2
  <2> QED BY <1>2, <1>3, <1>u, <2>3, WritePermits
<1>5. CASE Fits(v, size)
  <2>1. /\ vbv' \in Models /\ vbv'.list = Append(v.list, pes) /\ vbv'.used = v.used + size
        /\ vbv'.inputAt = vnow /\ vbv'.generation = v.generation
    BY <1>2, <1>3, <1>4, <1>5, <1>n, AddFields
  <2>h. h = Stored(g, pes)
    BY <1>5
  <2>2. h = Stored(g, pes) /\ h \in Histories /\ h.in = Append(g.in, pes) /\ h.out = g.out
        /\ h.upto = Append(g.upto, Total(g.upto, Len(g.upto)) + pes.size)
    <3> HIDE DEF h, g, pes, v, anew
    <3>1. g \in Histories /\ pes \in Pess
      BY <1>3, <1>4
    <3> QED BY ONLY <3>1, <2>h, <1>s, StoredFields
  <2>3. vghost' \in Histories /\ vghost'.in = h.in /\ vghost'.out = h.out /\ vghost'.upto = h.upto
    BY <1>2, <1>h, <2>2
  <2> HIDE DEF v, g, h, anew, pes
  <2>4. HoldsOf(vbv'.list, vbv'.used, vghost'.in, vghost'.out, vghost'.upto)
    <3>1. v.list \in Seq(Pess) /\ v.used \in Int /\ g.in \in Seq(Pess) /\ g.out \in Seq(Pess)
          /\ g.upto \in Seq(Int)
      BY <1>4, ModelFields, HistoryFields
    <3>2. v.used + pes.size < VbvSize
      BY <1>3, <1>5 DEF Fits
    <3>3. HoldsOf(Append(v.list, pes), v.used + pes.size, Append(g.in, pes), g.out,
                  Append(g.upto, Total(g.upto, Len(g.upto)) + pes.size))
      BY <1>3, <1>4, <3>1, <3>2, AddHolds
    <3> QED BY <1>3, <2>1, <2>2, <2>3, <3>3
  <2>5. Len(vghost'.upto) = Len(vghost'.in)
    BY <2>4 DEF HoldsOf, Sums
  <2>6. VbvTypes'
    BY <1>u, <1>n, <2>1, <2>3, <2>5 DEF VbvTypes
  <2>7. VbvTimes'
    <3>1. v.generation \in Nat /\ vlocal.generation \in Nat
      BY <1>4, <1>n, ModelFields
    <3> QED BY <1>4, <1>u, <1>n, <2>1, <3>1 DEF VbvTimes
  <2>8. VbvHoldsStream'
    BY <2>4 DEF HoldsOf, Sums, VbvHoldsStream, VbvLevelIsHeld, VbvInOrder
  <2> QED BY <1>4, <1>p, <2>2, <2>3, <2>6, <2>7, <2>8 DEF VbvInv
<1>6. CASE ~Fits(v, size)
  <2>1. h = g
    BY <1>6
  <2>2. vbv' = [v EXCEPT !.events = <<"OVERFLOW">>]
    BY <1>2, <1>3, <1>6 DEF AddItem, RaiseEvent
  <2>e. <<"OVERFLOW">> \in Seq(VbvEvents)
    BY EventSeq DEF VbvEvents
  <2> HIDE DEF v, g, h, anew, pes
  <2>3. /\ vbv' \in Models /\ vbv'.list = v.list /\ vbv'.used = v.used
        /\ vbv'.inputAt = v.inputAt /\ vbv'.generation = v.generation
    BY <1>4, <2>2, <2>e, EventFields
  <2>4. vghost' \in Histories /\ vghost'.in = g.in /\ vghost'.out = g.out /\ vghost'.upto = g.upto
    BY <1>2, <1>4, <1>h, <2>1
  <2>5. HoldsOf(vbv'.list, vbv'.used, vghost'.in, vghost'.out, vghost'.upto)
    BY <1>4, <2>3, <2>4
  <2>6. VbvTypes'
    <3>1. Len(vghost'.upto) = Len(vghost'.in)
      BY <2>5 DEF HoldsOf, Sums
    <3> QED BY <1>u, <1>n, <2>3, <2>4, <3>1 DEF VbvTypes
  <2>7. VbvTimes'
    <3>1. v.generation \in Nat /\ vlocal.generation \in Nat
      BY <1>4, <1>n, ModelFields
    <3> QED BY <1>4, <1>u, <1>n, <2>3, <3>1 DEF VbvTimes
  <2>8. VbvHoldsStream'
    BY <2>5 DEF HoldsOf, Sums, VbvHoldsStream, VbvLevelIsHeld, VbvInOrder
  <2>9. Len(vghost'.out) <= Len(vghost.out)
    BY <1>4, <2>4
  <2> QED BY <1>p, <2>6, <2>7, <2>8, <2>9 DEF VbvInv
<1> QED BY <1>5, <1>6

(* The thread takes the first PES: only with a span of the delay.          *)
LEMMA DrainStep ==
  ASSUME VbvInv, VbvDrain
  PROVE  /\ VbvInv'
         /\ Len(vghost'.out) > Len(vghost.out) => DelayIsSpanned \/ Unstamped
<1> USE DEF VbvDrain
<1>0. VbvTypes /\ VbvTimes /\ VbvPermits /\ VbvHoldsStream
  BY DEF VbvInv
<1>1. /\ vbv \in Models /\ vghost \in Histories /\ vtpc = "drain" /\ vtpc' = "loop" /\ vcpc # "freed"
      /\ UNCHANGED <<vcpc, vlocal, vnow>>
  BY <1>0 DEF VbvTypes, VbvTimes
<1>2. HoldsOf(vbv.list, vbv.used, vghost.in, vghost.out, vghost.upto)
  BY <1>0, <1>1, HoldsIs
<1>3. /\ vbv.list \in Seq(Pess) /\ vbv.used \in Int /\ vghost.in \in Seq(Pess)
      /\ vghost.out \in Seq(Pess) /\ vghost.upto \in Seq(Int) /\ Len(vghost.out) \in Nat
      /\ vbv.lwm \in Nat \cup {-1} /\ vbv.hwm \in Nat /\ vbv.inputAt \in Nat \cup {-1}
  BY <1>1, ModelFields, HistoryFields
<1>4. CASE vbv.list = << >>
  <2>1. <<"UNDERFLOW">> \in Seq(VbvEvents)
    BY EventSeq DEF VbvEvents
  <2>2. vbv' = [vbv EXCEPT !.events = <<"UNDERFLOW">>] /\ vghost' = vghost
    BY <1>4 DEF RaiseEvent
  <2>3. /\ vbv' \in Models /\ vbv'.list = vbv.list /\ vbv'.used = vbv.used /\ vbv'.lwm = vbv.lwm
        /\ vbv'.hwm = vbv.hwm /\ vbv'.inputAt = vbv.inputAt /\ vbv'.generation = vbv.generation
    BY <1>1, <2>1, <2>2, EventFields
  <2>4. VbvTypes' /\ VbvTimes'
    BY <1>0, <1>1, <2>2, <2>3 DEF VbvTypes, VbvTimes
  <2>5. VbvPermits'
    BY <1>0, <1>1, <2>3 DEF VbvPermits, Spans
  <2>6. VbvHoldsStream'
    BY <1>0, <1>1, <2>2, <2>3 DEF VbvHoldsStream, VbvLevelIsHeld, VbvInOrder
  <2> QED BY <1>3, <2>2, <2>4, <2>5, <2>6 DEF VbvInv
<1>5. CASE vbv.list # << >> /\ ~Due(vbv, vlocal, vbv.list[1].clk)
  <2>1. vbv' = vbv /\ vghost' = vghost
    BY <1>5
  <2>2. VbvTypes' /\ VbvTimes' /\ VbvPermits' /\ VbvHoldsStream'
    BY <1>0, <1>1, <2>1 DEF VbvTypes, VbvTimes, VbvPermits, VbvHoldsStream, VbvLevelIsHeld, VbvInOrder
  <2> QED BY <1>3, <2>1, <2>2 DEF VbvInv
<1>6. CASE vbv.list # << >> /\ Due(vbv, vlocal, vbv.list[1].clk)
  <2> DEFINE pes == vbv.list[1]
             v == [vbv EXCEPT !.list = Tail(@), !.used = @ - pes.size]
             e == LevelEvent(v)
             aus == Tail(vbv.list)
             used == vbv.used - pes.size
             out == Append(vghost.out, pes)
  <2>1. vbv' = [v EXCEPT !.events = e] /\ vghost' = [vghost EXCEPT !.out = Append(@, pes)]
    BY <1>6
  <2>2. pes \in Pess /\ pes.size \in Nat /\ pes.clk \in Nat
    BY <1>3, <1>6, PesType
  <2>3. aus \in Seq(Pess) /\ used \in Int /\ out \in Seq(Pess) /\ Len(out) = Len(vghost.out) + 1
    BY <1>3, <1>6, <2>2
  <2>4. v = [vbv EXCEPT !.list = aus, !.used = used]
    BY <1>1 DEF Models
  <2>5. vghost' = [vghost EXCEPT !.out = out]
    BY <1>1, <2>1 DEF Histories
  <2>6. e \in Seq(VbvEvents)
    <3>1. << >> \in Seq(VbvEvents) /\ <<"LT_10PCT">> \in Seq(VbvEvents) /\ <<"GT_90PCT">> \in Seq(VbvEvents)
      BY EventSeq DEF VbvEvents
    <3> QED BY <3>1 DEF LevelEvent
  <2>h. HoldsOf(aus, used, vghost.in, out, vghost.upto)
    BY <1>2, <1>3, <1>6, TakeHolds
  <2> HIDE DEF pes, v, e, aus, used, out
  <2>7. v \in Models /\ v.list = aus /\ v.used = used /\ v.lwm = vbv.lwm /\ v.hwm = vbv.hwm
        /\ v.inputAt = vbv.inputAt /\ v.generation = vbv.generation
    <3>1. v \in Models
      BY <1>1, <2>3, <2>4 DEF Models
    <3>2. v.list = aus /\ v.used = used /\ v.lwm = vbv.lwm /\ v.hwm = vbv.hwm
          /\ v.inputAt = vbv.inputAt /\ v.generation = vbv.generation
      BY <1>1, <2>4 DEF Models
    <3> QED BY <3>1, <3>2
  <2>8. /\ vbv' \in Models /\ vbv'.list = aus /\ vbv'.used = used /\ vbv'.lwm = vbv.lwm
        /\ vbv'.hwm = vbv.hwm /\ vbv'.inputAt = vbv.inputAt /\ vbv'.generation = vbv.generation
    BY <2>1, <2>6, <2>7, EventFields
  <2>9. vghost' \in Histories /\ vghost'.in = vghost.in /\ vghost'.out = out
        /\ vghost'.upto = vghost.upto
    BY <1>1, <2>3, <2>5 DEF Histories
  <2>10. VbvTypes' /\ VbvTimes'
    BY <1>0, <1>1, <2>8, <2>9 DEF VbvTypes, VbvTimes
  <2>11. VbvPermits'
    BY <1>0, <1>1, <2>8 DEF VbvPermits, Spans
  <2>12. VbvHoldsStream'
    BY <2>8, <2>9, <2>h DEF HoldsOf, Sums, VbvHoldsStream, VbvLevelIsHeld, VbvInOrder
  <2>13. DelayIsSpanned \/ Unstamped
    <3>1. vlocal.now \in Nat /\ Delay \in Nat
      BY <1>0, VbvNumbers DEF VbvTypes
    <3>2. CASE Spans(vbv)
      BY <1>3, <3>1, <3>2 DEF Spans, DelayIsSpanned
    <3>3. CASE ~Spans(vbv) /\ ~Unstamped
      <4>1. vbv.lwm # -1 /\ vbv.lwm <= pes.clk /\ vlocal.now <= vbv.inputAt
        BY <1>0, <1>1, <1>6, <3>3 DEF VbvPermits, pes
      <4>2. Elapsed(vbv, vlocal) = 0
        BY <1>3, <3>1, <4>1 DEF Elapsed
      <4>3. pes.clk + Delay <= vbv.hwm + Elapsed(vbv, vlocal)
        BY <1>6 DEF Due, pes
      <4> QED BY <1>3, <2>2, <3>1, <4>1, <4>2, <4>3 DEF DelayIsSpanned
    <3> QED BY <3>2, <3>3
  <2> QED BY <2>10, <2>11, <2>12, <2>13 DEF VbvInv
<1> QED BY <1>4, <1>5, <1>6

(* The steps that leave the buffer and its history alone.                  *)
LEMMA QuietStep ==
  ASSUME VbvInv,
         VbvFree \/ VbvFreeEnd \/ VbvThreadStart \/ VbvLoop \/ VbvPermit \/ VbvThreadEnd \/ VbvTick
           \/ UNCHANGED vbvVars
  PROVE  VbvInv' /\ vghost'.out = vghost.out
<1>0. VbvTypes /\ VbvTimes /\ VbvPermits /\ VbvHoldsStream
  BY DEF VbvInv
<1>1. /\ vbv \in Models /\ vghost \in Histories /\ Len(vghost.upto) = Len(vghost.in)
      /\ vcpc \in {"idle", "join", "freed"} /\ vtpc \in {"new", "loop", "permit", "drain", "done"}
      /\ vlocal \in [now : Nat, permit : BOOLEAN, generation : Nat] /\ vnow \in Nat
      /\ vlocal.now \in Nat /\ vlocal.permit \in BOOLEAN /\ vlocal.generation \in Nat
  BY <1>0 DEF VbvTypes
<1>2. vbv.generation \in Nat /\ vbv.inputAt \in Nat \cup {-1} /\ vbv.list \in Seq(Pess)
  BY <1>1, ModelFields
<1>3. CASE VbvFree \/ VbvThreadStart
  <2>1. PICK b \in BOOLEAN : vbv' = [vbv EXCEPT !.terminate = b]
    BY <1>3 DEF VbvFree, VbvThreadStart
  <2>2. vbv' \in Models
    BY <1>1, <2>1 DEF Models
  <2>3. /\ vbv'.list = vbv.list /\ vbv'.used = vbv.used /\ vbv'.lwm = vbv.lwm /\ vbv'.hwm = vbv.hwm
        /\ vbv'.inputAt = vbv.inputAt /\ vbv'.generation = vbv.generation
    BY <1>1, <2>1 DEF Models
  <2>4. vghost' \in Histories /\ vghost'.in = vghost.in /\ vghost'.out = vghost.out
        /\ vghost'.upto = vghost.upto /\ vghost'.refused = vghost.refused
    <3>1. CASE VbvThreadStart
      BY <1>1, <3>1 DEF VbvThreadStart
    <3>2. CASE VbvFree
      <4>1. PICK r \in BOOLEAN : vghost' = [vghost EXCEPT !.raced = r]
        BY <3>2 DEF VbvFree
      <4> QED BY <1>1, <4>1 DEF Histories
    <3> QED BY <1>3, <3>1, <3>2
  <2>5. /\ UNCHANGED <<vlocal, vnow>> /\ vcpc' \in {"idle", "join", "freed"}
        /\ vtpc' \in {"new", "loop", "permit", "drain", "done"}
        /\ (vcpc' = "freed" => vtpc' = "done") /\ (vcpc' # "freed" => vcpc # "freed")
        /\ (vtpc' = "drain" => vtpc = "drain")
    BY <1>0, <1>1, <1>3 DEF VbvFree, VbvThreadStart, VbvTimes
  <2>6. VbvTypes'
    BY <1>1, <2>2, <2>4, <2>5 DEF VbvTypes
  <2>7. VbvTimes'
    BY <1>0, <2>3, <2>5 DEF VbvTimes
  <2>8. VbvPermits'
    BY <1>0, <2>3, <2>4, <2>5 DEF VbvPermits, Spans, Unstamped
  <2>9. VbvHoldsStream'
    BY <1>0, <2>3, <2>4, <2>5 DEF VbvHoldsStream, VbvLevelIsHeld, VbvInOrder
  <2> QED BY <2>4, <2>6, <2>7, <2>8, <2>9 DEF VbvInv
<1>4. CASE VbvFreeEnd
  <2> USE <1>4 DEF VbvFreeEnd
  <2>1. << >> \in Seq(Pess)
    OBVIOUS
  <2> DEFINE e == << >>
  <2>2. vbv' = [vbv EXCEPT !.list = e] /\ e \in Seq(Pess)
    BY <2>1
  <2> HIDE DEF e
  <2>3. vbv' \in Models
    BY <1>1, <2>2 DEF Models
  <2>4. vbv'.lwm = vbv.lwm /\ vbv'.hwm = vbv.hwm /\ vbv'.inputAt = vbv.inputAt
        /\ vbv'.generation = vbv.generation
    BY <1>1, <2>2 DEF Models
  <2>5. VbvTypes'
    BY <1>1, <2>3 DEF VbvTypes
  <2>6. VbvTimes' /\ VbvPermits'
    BY <1>0, <2>4 DEF VbvTimes, VbvPermits, Spans
  <2>7. VbvHoldsStream'
    BY DEF VbvHoldsStream, VbvLevelIsHeld, VbvInOrder
  <2> QED BY <2>5, <2>6, <2>7 DEF VbvInv
<1>5. CASE VbvLoop
  <2> USE <1>5 DEF VbvLoop
  <2> DEFINE fresh == vlocal.generation = vbv.generation
             p == IF fresh THEN vlocal.permit ELSE FALSE
  <2>1. vlocal' \in [now : Nat, permit : BOOLEAN, generation : Nat]
        /\ vlocal'.now = vnow /\ vlocal'.permit = p /\ vlocal'.generation = vbv.generation
    <3>1. CASE fresh
      BY <1>1, <1>2, <3>1 DEF SeeReset
    <3>2. CASE ~fresh
      BY <1>1, <1>2, <3>2 DEF SeeReset
    <3> QED BY <3>1, <3>2
  <2>2. VbvTypes'
    BY <1>1, <2>1 DEF VbvTypes
  <2>3. VbvTimes'
    BY <1>0, <1>1, <1>2, <2>1 DEF VbvTimes
  <2>4. VbvPermits'
    <3>1. p => Spans(vbv)
      BY <1>0 DEF VbvPermits
    <3> QED BY <2>1, <3>1 DEF VbvPermits
  <2>5. VbvHoldsStream'
    BY <1>0 DEF VbvHoldsStream, VbvLevelIsHeld, VbvInOrder
  <2> QED BY <2>2, <2>3, <2>4, <2>5 DEF VbvInv
<1>6. CASE VbvPermit
  <2> USE <1>6 DEF VbvPermit
  <2> DEFINE p == vbv.lwm # -1 /\ vbv.hwm # 0 /\ vbv.hwm - vbv.lwm > Delay
  <2>1. vlocal' = [vlocal EXCEPT !.permit = p] /\ (vtpc' = IF p THEN "drain" ELSE "loop")
        /\ UNCHANGED <<vbv, vcpc, vnow, vghost>>
    OBVIOUS
  <2>2. p \in BOOLEAN /\ (p => Spans(vbv))
    BY DEF Spans
  <2> HIDE DEF p
  <2>3. vlocal' \in [now : Nat, permit : BOOLEAN, generation : Nat]
    BY Zenon, <1>1, <2>1, <2>2
  <2>4. vlocal'.now = vlocal.now /\ vlocal'.permit = p /\ vlocal'.generation = vlocal.generation
    BY <1>1, <2>1
  <2>5. VbvTypes'
    BY <1>1, <2>1, <2>3 DEF VbvTypes
  <2>6. VbvTimes'
    BY <1>0, <2>1, <2>4 DEF VbvTimes
  <2>7. VbvPermits'
    BY <2>1, <2>2, <2>4 DEF VbvPermits
  <2>8. VbvHoldsStream'
    BY <1>0, <2>1 DEF VbvHoldsStream, VbvLevelIsHeld, VbvInOrder
  <2> QED BY <2>1, <2>5, <2>6, <2>7, <2>8 DEF VbvInv
<1>7. CASE VbvThreadEnd \/ VbvTick \/ UNCHANGED vbvVars
  <2>1. /\ UNCHANGED <<vbv, vlocal, vghost, vcpc>> /\ vnow' \in Nat /\ vnow' >= vnow
        /\ vtpc' \in {"new", "loop", "permit", "drain", "done"}
        /\ (vtpc' = vtpc \/ vtpc' = "done")
    BY <1>1, <1>7 DEF VbvThreadEnd, VbvTick, vbvVars
  <2>2. VbvTypes'
    BY <1>1, <2>1 DEF VbvTypes
  <2>3. VbvTimes'
    BY <1>0, <1>1, <1>2, <2>1 DEF VbvTimes
  <2>4. VbvPermits'
    BY <1>0, <2>1 DEF VbvPermits, Unstamped
  <2>5. VbvHoldsStream'
    BY <1>0, <2>1 DEF VbvHoldsStream, VbvLevelIsHeld, VbvInOrder
  <2> QED BY <2>1, <2>2, <2>3, <2>4, <2>5 DEF VbvInv
<1> QED BY <1>3, <1>4, <1>5, <1>6, <1>7

LEMMA VbvStep ==
  VbvInv /\ [VbvNext]_vbvVars =>
    /\ VbvInv'
    /\ Len(vghost'.out) > Len(vghost.out) => DelayIsSpanned \/ Unstamped
<1> SUFFICES ASSUME VbvInv, [VbvNext]_vbvVars
             PROVE  /\ VbvInv'
                    /\ Len(vghost'.out) > Len(vghost.out) =>
                         DelayIsSpanned \/ Unstamped
  OBVIOUS
<1>1. VbvInv' => vghost'.out \in Seq(Pess) /\ Len(vghost'.out) \in Nat
  <2> SUFFICES ASSUME VbvInv' PROVE vghost'.out \in Seq(Pess)
    OBVIOUS
  <2>1. vghost' \in Histories
    BY DEF VbvInv, VbvTypes
  <2> QED BY <2>1, HistoryFields
<1>2. vghost.out \in Seq(Pess) /\ Len(vghost.out) \in Nat
  <2>1. vghost \in Histories
    BY DEF VbvInv, VbvTypes
  <2> QED BY <2>1, HistoryFields
<1>3. CASE VbvWrite
  <2>1. VbvInv' /\ Len(vghost'.out) <= Len(vghost.out)
    BY <1>3, WriteStep
  <2> QED BY <1>1, <1>2, <2>1
<1>4. CASE VbvDrain
  BY <1>4, DrainStep
<1>5. CASE VbvFree \/ VbvFreeEnd \/ VbvThreadStart \/ VbvLoop \/ VbvPermit \/ VbvThreadEnd \/ VbvTick
             \/ UNCHANGED vbvVars
  <2>1. VbvInv' /\ vghost'.out = vghost.out
    BY <1>5, QuietStep
  <2> QED BY <1>2, <2>1
<1> QED BY <1>3, <1>4, <1>5 DEF VbvNext, VbvCaller, VbvThread

(* The buffer of vbv.c is always what was written since the model was last *)
(* reset and not yet taken: each PES once, in order, with usedBytes their  *)
(* size and below vbv_buffer_size, however the caller's writes and resets  *)
(* fall between the steps of the thread.                                   *)
THEOREM VbvHolds == VbvSpec => []VbvHoldsStream
<1>1. VbvInv => VbvHoldsStream
  BY DEF VbvInv
<1>2. VbvInv /\ [VbvNext]_vbvVars => VbvInv'
  BY VbvStep
<1> QED BY VbvStarts, <1>1, <1>2, PTL DEF VbvSpec

(* vbv_threadFunc takes no PES before the buffer spans the initial delay,  *)
(* not even in the pass during which a clock that went back reset it: the  *)
(* permit of that pass is stale, but what it could take is not due.  The   *)
(* one exception is an unstamped PES after a PES that was refused although *)
(* it reset the model.                                                     *)
THEOREM VbvDrainsLate == VbvSpec => VbvDrainsAfterDelay
<1>1. VbvInv /\ [VbvNext]_vbvVars => VbvInv'
  BY VbvStep
<1>2. VbvInv /\ [VbvNext]_vbvVars =>
        [Len(vghost'.out) > Len(vghost.out) => DelayIsSpanned \/ Unstamped]_vbvVars
  BY VbvStep
<1> QED BY VbvStarts, <1>1, <1>2, PTL DEF VbvSpec, VbvDrainsAfterDelay

-----------------------------------------------------------------------------
(* The RTP smoother: the facts of DataLemmas for the search for frames and *)
(* for the walk over the busy list.                                        *)
FSearch == INSTANCE DataLemmas WITH Op <- Search
FSort == INSTANCE DataLemmas WITH Op <- Sort

LEMMA SameFlatten == ASSUME NEW s PROVE FlattenSeq(s) = FSearch!FlattenSeq(s)
BY Zenon DEF FlattenSeq, FSearch!FlattenSeq
LEMMA SameSearch ==
  ASSUME NEW s, NEW b, NEW in
  PROVE  FoldLeft(LAMBDA at, i : Search(at, i, in), b, s) = FSearch!Folded(b, s, in)
BY Zenon DEF FoldLeft, FSearch!Folded, FSearch!FoldLeft, MapThenFoldSet, FSearch!MapThenFoldSet, Max, FSearch!Max
LEMMA SameSort ==
  ASSUME NEW s, NEW b, NEW by
  PROVE  FoldLeft(LAMBDA w, e : Sort(w, e, by), b, s) = FSort!Folded(b, s, by)
BY Zenon DEF FoldLeft, FSort!Folded, FSort!FoldLeft, MapThenFoldSet, FSort!MapThenFoldSet, Max, FSort!Max

(* The bytes of a list.                                                    *)
DataSeq(items) == [i \in DOMAIN items |-> items[i].data]

LEMMA ItemFields ==
  ASSUME NEW e \in RtpItem PROVE e.data \in Seq(RtpUnit) /\ e.rx \in Nat /\ e.at \in Int
BY DEF RtpItem

LEMMA DataSeqType ==
  ASSUME NEW s \in Seq(RtpItem)
  PROVE  /\ DataSeq(s) \in Seq(Seq(RtpUnit)) /\ Len(DataSeq(s)) = Len(s)
         /\ \A i \in 1 .. Len(s) : DataSeq(s)[i] = s[i].data
<1>1. DOMAIN s = 1 .. Len(s) /\ Len(s) \in Nat
  OBVIOUS
<1>2. \A i \in 1 .. Len(s) : s[i].data \in Seq(RtpUnit)
  BY ElementOfSeq, ItemFields
<1>3. DataSeq(s) \in [1 .. Len(s) -> Seq(RtpUnit)]
  BY <1>1, <1>2 DEF DataSeq
<1>4. \A i \in 1 .. Len(s) : DataSeq(s)[i] = s[i].data
  BY <1>1 DEF DataSeq
<1> HIDE DEF DataSeq
<1> QED BY <1>1, <1>3, <1>4

LEMMA DataIs == ASSUME NEW s PROVE DataOf(s) = FSearch!FlattenSeq(DataSeq(s))
BY SameFlatten DEF DataOf, DataSeq

LEMMA DataType == ASSUME NEW s \in Seq(RtpItem) PROVE DataOf(s) \in Seq(RtpUnit)
BY DataIs, DataSeqType, FSearch!FlattenType

LEMMA DataOfBoth ==
  ASSUME NEW s \in Seq(RtpItem), NEW t \in Seq(RtpItem)
  PROVE  DataOf(s \o t) = DataOf(s) \o DataOf(t)
<1> DEFINE u == s \o t
           a == DataSeq(s)
           b == DataSeq(t)
           c == DataSeq(u)
<1>1. u \in Seq(RtpItem) /\ Len(u) = Len(s) + Len(t)
      /\ \A i \in 1 .. Len(s) + Len(t) : u[i] = IF i <= Len(s) THEN s[i] ELSE t[i - Len(s)]
  BY ConcatProperties
<1>2. a \in Seq(Seq(RtpUnit)) /\ Len(a) = Len(s) /\ \A i \in 1 .. Len(s) : a[i] = s[i].data
  BY DataSeqType
<1>3. b \in Seq(Seq(RtpUnit)) /\ Len(b) = Len(t) /\ \A i \in 1 .. Len(t) : b[i] = t[i].data
  BY DataSeqType
<1> HIDE DEF u
<1>4. c \in Seq(Seq(RtpUnit)) /\ Len(c) = Len(u) /\ \A i \in 1 .. Len(u) : c[i] = u[i].data
  BY <1>1, DataSeqType
<1>5. Len(s) \in Nat /\ Len(t) \in Nat
  OBVIOUS
<1> HIDE DEF a, b, c
<1>6. a \o b \in Seq(Seq(RtpUnit)) /\ Len(a \o b) = Len(s) + Len(t)
      /\ \A i \in 1 .. Len(s) + Len(t) : (a \o b)[i] = IF i <= Len(s) THEN a[i] ELSE b[i - Len(s)]
  <2>1. /\ a \o b \in Seq(Seq(RtpUnit)) /\ Len(a \o b) = Len(a) + Len(b)
        /\ \A i \in 1 .. Len(a) + Len(b) : (a \o b)[i] = IF i <= Len(a) THEN a[i] ELSE b[i - Len(a)]
    <3>1. a \in Seq(Seq(RtpUnit)) /\ b \in Seq(Seq(RtpUnit))
      BY <1>2, <1>3
    <3> QED BY <3>1, ConcatProperties
  <2> QED BY <1>2, <1>3, <2>1
<1>7. ASSUME NEW i \in 1 .. Len(s) + Len(t) PROVE c[i] = (a \o b)[i]
  <2>1. CASE i <= Len(s)
    <3>1. i \in 1 .. Len(s) /\ u[i] = s[i] /\ (a \o b)[i] = a[i]
      BY <1>1, <1>5, <1>6, <2>1
    <3> QED BY <1>1, <1>2, <1>4, <3>1
  <2>2. CASE ~(i <= Len(s))
    <3>1. i - Len(s) \in 1 .. Len(t)
      BY <1>5, <2>2
    <3>2. u[i] = t[i - Len(s)] /\ (a \o b)[i] = b[i - Len(s)]
      BY <1>1, <1>6, <2>2
    <3> QED BY <1>1, <1>3, <1>4, <3>1, <3>2
  <2> QED BY <2>1, <2>2
<1>8. c = a \o b
  BY <1>1, <1>4, <1>6, <1>7, SeqEqual
<1>9. FSearch!FlattenSeq(c) = FSearch!FlattenSeq(a) \o FSearch!FlattenSeq(b)
  BY <1>2, <1>3, <1>8, FSearch!FlattenOfConcat
<1> QED BY <1>9, DataIs DEF u, a, b, c

LEMMA DataOfOne == ASSUME NEW e \in RtpItem PROVE DataOf(<<e>>) = e.data
<1>1. <<e>> \in Seq(RtpItem) /\ Len(<<e>>) = 1 /\ <<e>>[1] = e
  OBVIOUS
<1> DEFINE s == <<e>>
           d == DataSeq(s)
<1>2. d \in Seq(Seq(RtpUnit)) /\ Len(d) = 1 /\ d[1] = e.data
  <2>1. s \in Seq(RtpItem) /\ Len(s) = 1 /\ s[1] = e /\ 1 \in 1 .. 1
    BY <1>1
  <2> HIDE DEF s
  <2> QED BY <2>1, DataSeqType
<1> HIDE DEF d
<1>3. d = <<e.data>> /\ e.data \in Seq(RtpUnit)
  BY <1>2, ItemFields
<1>4. FSearch!FlattenSeq(<<e.data>>) = e.data
  BY <1>3, FSearch!FlattenOfOne
<1> QED BY <1>3, <1>4, DataIs DEF d

LEMMA DataOfNone == DataOf(<< >>) = << >>
<1>1. DataSeq(<< >>) = << >>
  BY DEF DataSeq
<1> QED BY <1>1, DataIs, FSearch!FlattenOfNone

LEMMA DataOfFirst ==
  ASSUME NEW s \in Seq(RtpItem), s # << >>
  PROVE  DataOf(s) = s[1].data \o DataOf(Tail(s)) /\ Tail(s) \in Seq(RtpItem) /\ s[1] \in RtpItem
<1>1. s[1] \in RtpItem /\ <<s[1]>> \in Seq(RtpItem) /\ Tail(s) \in Seq(RtpItem) /\ s = <<s[1]>> \o Tail(s)
  OBVIOUS
<1>2. DataOf(<<s[1]>> \o Tail(s)) = DataOf(<<s[1]>>) \o DataOf(Tail(s))
  BY <1>1, DataOfBoth
<1> QED BY <1>1, <1>2, DataOfOne

-----------------------------------------------------------------------------
(* On a list in order of time the walk takes a first part of it.           *)
LEMMA WalkSplits ==
  ASSUME NEW s \in Seq(RtpItem), NEW by \in Int,
         \A i, j \in 1 .. Len(s) : i < j => s[i].at <= s[j].at
  PROVE  LET w == Walk(s, by)
         IN  \E p \in 0 .. Len(s) : w.due = SubSeq(s, 1, p) /\ w.kept = SubSeq(s, p + 1, Len(s))
<1> DEFINE b == [due |-> << >>, kept |-> << >>]
           n == Len(s)
           h == FSort!Stages(b, s, by)
           K == {k \in 1 .. n : s[k].at <= by}
           hd == [k \in 0 .. n |-> h[k].due]
           hk == [k \in 0 .. n |-> h[k].kept]
<1>1. /\ DOMAIN h = 0 .. n /\ h[0] = b
      /\ \A k \in 1 .. n : h[k] = Sort(h[k - 1], s[k], by)
      /\ FSort!Folded(b, s, by) = h[n]
  BY FSort!FoldSteps
<1>2. n \in Nat /\ Walk(s, by) = h[n]
  <2>1. Walk(s, by) = FSort!Folded(b, s, by)
    BY SameSort DEF Walk
  <2> QED BY <1>1, <2>1
<1> HIDE DEF h, n
<1>3. \A k \in 0 .. n : DOMAIN h[k] = {"due", "kept"}
  <2> DEFINE Q == {k \in 0 .. n : DOMAIN h[k] = {"due", "kept"}}
  <2>1. 0 \in Q
    BY <1>1, <1>2
  <2>2. ASSUME NEW m \in 0 .. n - 1, m \in Q PROVE m + 1 \in Q
    <3>1. m + 1 \in 1 .. n /\ (m + 1) - 1 = m /\ m + 1 \in 0 .. n
      BY <1>2
    <3>2. h[m + 1] = Sort(h[m], s[m + 1], by)
      BY <1>1, <3>1
    <3> QED BY <2>2, <3>1, <3>2 DEF Sort
  <2>3. \A k \in 0 .. n : k \in Q
    <3> HIDE DEF Q
    <3> QED BY <1>2, <2>1, <2>2, FSort!UpTo
  <2> QED BY <2>3
<1>4. ASSUME NEW k \in 0 .. n - 1
      PROVE  /\ k + 1 \in K => hd[k + 1] = Append(hd[k], s[k + 1]) /\ hk[k + 1] = hk[k]
             /\ k + 1 \notin K => hk[k + 1] = Append(hk[k], s[k + 1]) /\ hd[k + 1] = hd[k]
  <2>1. k + 1 \in 1 .. n /\ (k + 1) - 1 = k /\ k + 1 \in 0 .. n /\ k \in 0 .. n
    BY <1>2
  <2>2. h[k + 1] = Sort(h[k], s[k + 1], by) /\ DOMAIN h[k] = {"due", "kept"}
    BY <1>1, <1>3, <2>1
  <2>3. /\ k + 1 \in K => h[k + 1].due = Append(h[k].due, s[k + 1]) /\ h[k + 1].kept = h[k].kept
        /\ k + 1 \notin K => h[k + 1].kept = Append(h[k].kept, s[k + 1]) /\ h[k + 1].due = h[k].due
    BY <2>1, <2>2 DEF Sort
  <2>4. hd[k] = h[k].due /\ hk[k] = h[k].kept /\ hd[k + 1] = h[k + 1].due /\ hk[k + 1] = h[k + 1].kept
    BY <2>1
  <2> HIDE DEF K, hd, hk
  <2> QED BY <2>3, <2>4
<1>5. hd[0] = << >> /\ hk[0] = << >> /\ hd[n] = h[n].due /\ hk[n] = h[n].kept
  BY <1>1, <1>2
<1> DEFINE J == 1 .. n \ K
<1>6. FSort!Sifts(hd, s, K) /\ FSort!Sifts(hk, s, J)
  <2> SUFFICES ASSUME NEW k \in 0 .. n - 1
        PROVE  /\ k + 1 \in K => hd[k + 1] = Append(hd[k], s[k + 1])
               /\ k + 1 \notin K => hd[k + 1] = hd[k]
               /\ k + 1 \in J => hk[k + 1] = Append(hk[k], s[k + 1])
               /\ k + 1 \notin J => hk[k + 1] = hk[k]
    <3> HIDE DEF K, J, hd, hk
    <3> QED BY <1>5 DEF FSort!Sifts, n
  <2>1. k + 1 \in 1 .. n /\ (k + 1 \in J <=> k + 1 \notin K)
    BY <1>2
  <2> HIDE DEF K, J, hd, hk
  <2> QED BY <1>4, <2>1
<1>7. PICK p \in 0 .. n : \A k \in 1 .. n : k \in K <=> k <= p
  <2>1. \A i, j \in 1 .. n : i < j /\ j \in K => i \in K
    <3> SUFFICES ASSUME NEW i \in 1 .. n, NEW j \in 1 .. n, i < j, j \in K PROVE i \in K
      OBVIOUS
    <3>1. s[i].at <= s[j].at /\ s[j].at <= by
      BY DEF n
    <3>2. s[i].at \in Int /\ s[j].at \in Int
      BY ElementOfSeq, ItemFields DEF n
    <3> QED BY <3>1, <3>2
  <2>2. CASE K = {}
    <3>1. 0 \in 0 .. n /\ \A k \in 1 .. n : ~(k <= 0)
      BY <1>2
    <3> HIDE DEF K
    <3> QED BY <2>2, <3>1
  <2>3. CASE K # {}
    <3> DEFINE Z == {k \in 0 .. n : \A j \in 1 .. n : j <= k => j \in K}
               U == {n - k : k \in Z}
    <3>1. PICK k \in Z : \A l \in Z : l <= k
      <4>0. 0 \in Z
        BY <1>2
      <4>1. U \subseteq Nat /\ U # {}
        <5>1. \A l \in Z : n - l \in Nat
          BY <1>2
        <5>2. n - 0 \in U
          BY <4>0
        <5> HIDE DEF Z
        <5> QED BY <5>1, <5>2
      <4>2. PICK u \in U : \A v \in U : u <= v
        <5> HIDE DEF U
        <5> QED BY <4>1, FSort!LeastNatural
      <4>3. PICK k \in Z : u = n - k
        OBVIOUS
      <4>4. \A l \in Z : l <= k
        <5> TAKE l \in Z
        <5>1. n - l \in U
          OBVIOUS
        <5>2. u <= n - l
          BY <4>2, <5>1
        <5> QED BY <1>2, <4>3, <5>2
      <4> QED BY <4>4
    <3>2. ASSUME NEW j \in 1 .. n, j \in K PROVE j <= k
      <4>1. j \in Z
        <5> SUFFICES ASSUME NEW i \in 1 .. n, i <= j PROVE i \in K
          BY <1>2
        <5>1. i = j \/ i < j
          OBVIOUS
        <5> HIDE DEF K
        <5> QED BY <2>1, <3>2, <5>1
      <4> QED BY <3>1, <4>1
    <3>3. k \in 0 .. n /\ \A j \in 1 .. n : j <= k => j \in K
      OBVIOUS
    <3> HIDE DEF K, Z
    <3> QED BY <3>2, <3>3
  <2> QED BY <2>2, <2>3
<1>8. \A k \in 1 .. n : k \in J <=> k > p
  <2>1. \A k \in 1 .. n : k \in J <=> k \notin K
    OBVIOUS
  <2> HIDE DEF K, J
  <2> QED BY <1>2, <1>7, <2>1
<1> HIDE DEF K, J, hd, hk
<1>9. hd[n] = SubSeq(s, 1, p)
  BY <1>6, <1>7, FSort!SiftedFirst DEF n
<1>10. hk[n] = SubSeq(s, p + 1, n)
  BY <1>6, <1>7, <1>8, FSort!SiftedLast DEF n
<1> QED BY <1>2, <1>5, <1>7, <1>9, <1>10 DEF n

-----------------------------------------------------------------------------
(* The search finds frames in the order of the buffer, beginning with its  *)
(* first unit if that is one.                                              *)
LEMMA FramesFound ==
  ASSUME NEW ba \in Seq(RtpUnit), NEW ssrc
  PROVE  LET at == FramesAt(ba, ssrc)
         IN  /\ at \in Seq(Nat)
             /\ \A k \in 1 .. Len(at) : at[k] \in 1 .. Len(ba) /\ IsFrame(ba, ssrc, at[k])
             /\ \A k, l \in 1 .. Len(at) : k < l => at[k] < at[l]
             /\ Len(ba) > 0 /\ IsFrame(ba, ssrc, 1) => Len(at) > 0 /\ at[1] = 1
<1> DEFINE n == Len(ba)
           s == [i \in 1 .. n |-> i]
           in == [ba |-> ba, ssrc |-> ssrc]
           K == {k \in 1 .. n : IsFrame(ba, ssrc, k)}
           h == FSearch!Stages(<< >>, s, in)
           R == {r \in Nat \X Nat : r[1] < r[2]}
<1>1. n \in Nat
  OBVIOUS
<1> HIDE DEF n
<1>2. s \in Seq(Nat) /\ Len(s) = n /\ \A i \in 1 .. n : s[i] = i
  <2>1. s \in [1 .. n -> Nat] /\ \A i \in 1 .. n : s[i] = i
    BY <1>1
  <2> HIDE DEF s
  <2> QED BY <1>1, <2>1
<1>3. FramesAt(ba, ssrc) = FSearch!Folded(<< >>, s, in)
  BY SameSearch DEF FramesAt, n
<1> HIDE DEF s, in
<1>4. /\ DOMAIN h = 0 .. Len(s) /\ h[0] = << >>
      /\ \A k \in 1 .. Len(s) : h[k] = Search(h[k - 1], s[k], in)
      /\ FSearch!Folded(<< >>, s, in) = h[Len(s)]
  BY <1>2, FSearch!FoldSteps
<1> HIDE DEF h
<1>5. FSearch!Sifts(h, s, K)
  <2> SUFFICES ASSUME NEW k \in 0 .. Len(s) - 1
               PROVE  /\ k + 1 \in K => h[k + 1] = Append(h[k], s[k + 1])
                      /\ k + 1 \notin K => h[k + 1] = h[k]
    BY <1>4 DEF FSearch!Sifts
  <2>1. k + 1 \in 1 .. n /\ (k + 1) - 1 = k
    BY <1>1, <1>2
  <2>2. h[k + 1] = Search(h[k], s[k + 1], in) /\ s[k + 1] = k + 1
    BY <1>2, <1>4, <2>1
  <2>3. in.ba = ba /\ in.ssrc = ssrc
    BY DEF in
  <2>4. k + 1 \in K <=> IsFrame(in.ba, in.ssrc, k + 1)
    BY <2>1, <2>3
  <2> HIDE DEF K
  <2> QED BY <2>2, <2>4 DEF Search
<1>6. FSearch!InOrder(s, R)
  <2>1. ASSUME NEW i \in 1 .. n, NEW j \in 1 .. n, i < j PROVE <<i, j>> \in R
    BY <1>1, <2>1
  <2> HIDE DEF R
  <2> QED BY <1>2, <2>1 DEF FSearch!InOrder
<1> DEFINE at == h[n]
<1>7. n \in 0 .. Len(s)
  BY <1>1, <1>2
<1>8. FSearch!PartOf(at, s, K, n, Nat) /\ FSearch!InOrder(at, R)
  <2> HIDE DEF K, R
  <2> QED BY <1>2, <1>5, <1>6, <1>7, FSearch!SiftedIsPart, FSearch!SiftedInOrder
<1>9. at \in Seq(Nat) /\ \A k \in 1 .. Len(at) : at[k] \in 1 .. n /\ IsFrame(ba, ssrc, at[k])
  <2>1. at \in Seq(Nat) /\ \A k \in 1 .. Len(at) : \E j \in 1 .. n : j \in K /\ at[k] = s[j]
    BY <1>8 DEF FSearch!PartOf
  <2> HIDE DEF at
  <2> SUFFICES ASSUME NEW k \in 1 .. Len(at) PROVE at[k] \in 1 .. n /\ IsFrame(ba, ssrc, at[k])
    BY <2>1
  <2>2. PICK j \in 1 .. n : j \in K /\ at[k] = s[j]
    BY <2>1
  <2>3. at[k] = j /\ IsFrame(ba, ssrc, j)
    BY <1>2, <2>2
  <2> QED BY <2>3
<1>10. ASSUME NEW k \in 1 .. Len(at), NEW l \in 1 .. Len(at), k < l PROVE at[k] < at[l]
  <2>1. <<at[k], at[l]>> \in R
    BY <1>8, <1>10 DEF FSearch!InOrder
  <2> HIDE DEF at
  <2> QED BY <2>1
<1>11. ASSUME n > 0, IsFrame(ba, ssrc, 1) PROVE Len(at) > 0 /\ at[1] = 1
  <2> DEFINE Q == {m \in 0 .. n : m > 0 => Len(h[m]) > 0 /\ h[m][1] = 1}
  <2>1. 0 \in Q
    BY <1>1
  <2>2. ASSUME NEW m \in 0 .. n - 1, m \in Q PROVE m + 1 \in Q
    <3>1. m + 1 \in 0 .. n /\ m \in 0 .. Len(s) - 1 /\ m \in 0 .. Len(s)
      BY <1>1, <1>2
    <3>2. m + 1 \in K => h[m + 1] = Append(h[m], m + 1)
      BY <1>2, <1>5, <3>1 DEF FSearch!Sifts
    <3>3. m + 1 \notin K => h[m + 1] = h[m]
      BY <1>2, <1>5, <3>1 DEF FSearch!Sifts
    <3>4. h[m] \in Seq(Nat)
      <4> HIDE DEF K
      <4> QED BY <1>2, <1>5, <3>1, FSearch!SiftedIsPart DEF FSearch!PartOf
    <3>5. CASE m = 0
      <4>1. 1 \in K /\ h[0] = << >>
        BY <1>1, <1>4, <1>11
      <4>2. h[1] = Append(<< >>, 1)
        BY <3>2, <3>5, <4>1
      <4>3. Len(h[1]) > 0 /\ h[1][1] = 1
        BY <4>2
      <4> QED BY <3>1, <3>5, <4>3
    <3>6. CASE m # 0
      <4>1. Len(h[m]) > 0 /\ h[m][1] = 1
        BY <2>2, <3>6
      <4>2. Len(h[m + 1]) > 0 /\ h[m + 1][1] = 1
        <5>1. CASE m + 1 \in K
          <6> DEFINE t == h[m]
          <6>0. t \in Seq(Nat) /\ Len(t) > 0 /\ t[1] = 1 /\ h[m + 1] = Append(t, m + 1)
            BY <3>2, <3>4, <4>1, <5>1
          <6> HIDE DEF t
          <6>1. m + 1 \in Nat
            OBVIOUS
          <6> QED BY <6>0, <6>1, AppendProperties
        <5>2. CASE m + 1 \notin K
          BY <3>3, <4>1, <5>2
        <5> QED BY <5>1, <5>2
      <4> QED BY <3>1, <4>2
    <3> QED BY <3>5, <3>6
  <2>3. \A k \in 0 .. n : k \in Q
    <3> HIDE DEF Q
    <3> QED BY <1>1, <2>1, <2>2, FSearch!UpTo
  <2>4. n \in Q
    BY <1>1, <2>3
  <2> QED BY <1>11, <2>4
<1>12. FramesAt(ba, ssrc) = at
  BY <1>2, <1>3, <1>4
<1> HIDE DEF at
<1> QED BY <1>9, <1>10, <1>11, <1>12 DEF n

LEMMA RtpSizes ==
  /\ Half \in Nat \ {0, 1} /\ Modulus = 2 * RtpModulus /\ RtpModulus \in Nat \ {0}
  /\ RtpModulus = Half * Half /\ FramePackets \in Nat \ {0, 1}
  /\ JumpLimit \in 1 .. RtpModulus - 1 /\ RtpLatency \in Nat /\ RebaseTime \in Nat /\ RtpSteps \subseteq Nat
<1>1. Half * Half \in Nat \ {0} /\ 2 * (Half * Half) = 2 * Half * Half
  BY RtpAssumption
<1> QED BY <1>1, RtpAssumption DEF RtpModulus

(* Converting back and forth.                                              *)
LEMMA RtpNtohl ==
  ASSUME NEW ts \in 0 .. RtpModulus - 1
  PROVE  Ntohl(ts) \in Nat /\ Ntohl(Ntohl(ts)) = ts
<1> DEFINE q == ts \div Half
           r == ts % Half
           x == r * Half + q
<1>1. ts \in Nat /\ Half \in Nat \ {0}
  BY RtpSizes
<1>2. q \in Nat /\ r \in 0 .. Half - 1 /\ ts = Half * q + r
  BY <1>1
<1>3. q \in 0 .. Half - 1
  <2>1. ts < Half * Half
    BY RtpSizes
  <2> HIDE DEF q, r
  <2>2. q >= Half => Half * q >= Half * Half
    BY <1>1, <1>2
  <2>3. Half * q \in Int /\ Half * Half \in Int
    BY <1>1, <1>2
  <2> QED BY <1>1, <1>2, <2>1, <2>2, <2>3
<1>4. Ntohl(ts) = x
  BY DEF Ntohl
<1> HIDE DEF q, r
<1>5. x \in Nat /\ x = Half * r + q
  BY <1>1, <1>2, <1>3
<1>6. (Half * r + q) % Half = q /\ (Half * r + q) \div Half = r
  <2>1. r \in Nat
    BY <1>2
  <2> QED BY <1>1, <1>3, <2>1
<1>7. x % Half = q /\ x \div Half = r
  BY <1>5, <1>6
<1>8. Ntohl(x) = q * Half + r
  <2> HIDE DEF x
  <2> QED BY <1>7 DEF Ntohl
<1>9. q * Half + r = ts
  BY <1>1, <1>2, <1>3
<1> QED BY <1>4, <1>5, <1>8, <1>9

LEMMA UnitFields ==
  ASSUME NEW u \in RtpUnit
  PROVE  /\ u[1] \in {"h", "p"} /\ u[2] \in RtpFrame
         /\ u[2].n \in Nat /\ u[2].ts \in 0 .. RtpModulus - 1 /\ u[2].ssrc \in {1, 2}
BY DEF RtpUnit, RtpFrame

(* What a write goes through.                                              *)
LEMMA FramesRead ==
  ASSUME NEW ba \in Seq(RtpUnit), NEW ssrc
  PROVE  LET read == Converted(QueryPositions(ba, ssrc))
         IN  /\ read \in Seq(RtpPlace) /\ LaidOut(read, ba, ssrc)
             /\ Len(read) > 0 => ssrc \in {1, 2}
             /\ \A k \in 1 .. Len(read) : k <= 2 => read[k].ts = ba[read[k].first][2].ts
             /\ ba # << >> /\ ba[1][1] = "h" /\ ba[1][2].ssrc = ssrc /\ Len(read) > 0 => read[1].first = 1
<1> DEFINE at == FramesAt(ba, ssrc)
           n == Len(at)
           PlaceOf(k) == [first |-> at[k], len |-> IF k = n THEN 0 ELSE at[k + 1] - at[k],
                      ts |-> Ntohl(ba[at[k]][2].ts)]
           found == [k \in DOMAIN at |-> PlaceOf(k)]
           read == [k \in DOMAIN found |-> IF k > 2 THEN found[k] ELSE [found[k] EXCEPT !.ts = Ntohl(@)]]
<1>1. /\ at \in Seq(Nat)
      /\ \A k \in 1 .. n : at[k] \in 1 .. Len(ba) /\ IsFrame(ba, ssrc, at[k])
      /\ \A k, l \in 1 .. n : k < l => at[k] < at[l]
      /\ Len(ba) > 0 /\ IsFrame(ba, ssrc, 1) => n > 0 /\ at[1] = 1
  BY FramesFound
<1>2. Converted(QueryPositions(ba, ssrc)) = read
  BY Zenon DEF Converted, QueryPositions
<1>3. n \in Nat /\ DOMAIN at = 1 .. n
  BY <1>1
<1> HIDE DEF at, n
<1>4. ASSUME NEW k \in 1 .. n
      PROVE  LET u == ba[at[k]]
             IN  /\ at[k] \in Nat \ {0} /\ u[2].ts \in 0 .. RtpModulus - 1
                 /\ Ntohl(u[2].ts) \in Nat /\ Ntohl(Ntohl(u[2].ts)) = u[2].ts
  <2>1. at[k] \in 1 .. Len(ba)
    BY <1>1
  <2>2. ba[at[k]] \in RtpUnit
    BY <2>1, ElementOfSeq
  <2>3. ba[at[k]][2].ts \in 0 .. RtpModulus - 1
    BY <2>2, UnitFields
  <2>4. at[k] \in Nat \ {0}
    BY <2>1
  <2> QED BY <2>3, <2>4, RtpNtohl
<1>5. ASSUME NEW k \in 1 .. n
      PROVE  LET r == read[k]
             IN  /\ r \in RtpPlace /\ r.first = at[k] /\ r.len = IF k = n THEN 0 ELSE at[k + 1] - at[k]
                 /\ k <= 2 => r.ts = ba[at[k]][2].ts
  <2> DEFINE u == ba[at[k]][2].ts
             l == IF k = n THEN 0 ELSE at[k + 1] - at[k]
  <2>1. l \in Nat
    <3>1. CASE k = n
      BY <3>1
    <3>2. CASE k # n
      <4>1. k + 1 \in 1 .. n /\ k < k + 1
        BY <1>3, <3>2
      <4>2. at[k] < at[k + 1] /\ at[k] \in 1 .. Len(ba) /\ at[k + 1] \in 1 .. Len(ba)
        BY <1>1, <4>1
      <4> QED BY <3>2, <4>2
    <3> QED BY <3>1, <3>2
  <2>2. at[k] \in Nat \ {0} /\ Ntohl(u) \in Nat /\ Ntohl(Ntohl(u)) = u /\ u \in Nat
    BY <1>4
  <2>3. found[k] = [first |-> at[k], len |-> l, ts |-> Ntohl(u)]
    BY <1>3
  <2>4. read[k] = IF k > 2 THEN found[k] ELSE [found[k] EXCEPT !.ts = Ntohl(@)]
    BY <1>3
  <2> HIDE DEF u, l, found, read
  <2>5. CASE k > 2
    <3>1. read[k] = [first |-> at[k], len |-> l, ts |-> Ntohl(u)]
      BY <2>3, <2>4, <2>5
    <3> QED BY <2>1, <2>2, <2>5, <3>1 DEF RtpPlace, l, u
  <2>6. CASE ~(k > 2)
    <3>1. read[k] = [first |-> at[k], len |-> l, ts |-> u]
      BY <2>2, <2>3, <2>4, <2>6
    <3> QED BY <2>1, <2>2, <3>1 DEF RtpPlace, l, u
  <2> QED BY <2>5, <2>6
<1>6. DOMAIN read = 1 .. n
  BY <1>3
<1> HIDE DEF read, found
<1>7. read \in Seq(RtpPlace) /\ Len(read) = n
  <2>1. read \in [1 .. n -> RtpPlace]
    <3>1. \A k \in 1 .. n : read[k] \in RtpPlace
      BY <1>5
    <3>2. read = [k \in 1 .. n |-> read[k]]
      BY <1>6 DEF read
    <3> QED BY <3>1, <3>2
  <2> QED BY <1>3, <2>1
<1>8. LaidOut(read, ba, ssrc)
  <2> SUFFICES ASSUME NEW k \in 1 .. n
               PROVE  /\ read[k].first <= Len(ba)
                      /\ ba[read[k].first][1] = "h" /\ ba[read[k].first][2].ssrc = ssrc
                      /\ k = n => read[k].len = 0
                      /\ k < n => read[k].len > 0 /\ read[k].first + read[k].len = read[k + 1].first
    BY <1>7 DEF LaidOut
  <2>1. read[k].first = at[k] /\ read[k].len = IF k = n THEN 0 ELSE at[k + 1] - at[k]
    BY <1>5
  <2>2. at[k] \in 1 .. Len(ba) /\ ba[at[k]][1] = "h" /\ ba[at[k]][2].ssrc = ssrc
    BY <1>1 DEF IsFrame
  <2>3. ASSUME k < n PROVE read[k].len > 0 /\ read[k].first + read[k].len = read[k + 1].first
    <3>1. k + 1 \in 1 .. n /\ k < k + 1 /\ k # n
      BY <1>3, <2>3
    <3>2. at[k] < at[k + 1] /\ at[k + 1] \in 1 .. Len(ba) /\ read[k + 1].first = at[k + 1]
      BY <1>1, <1>5, <3>1
    <3> QED BY <2>1, <2>2, <3>1, <3>2
  <2> QED BY <2>1, <2>2, <2>3
<1>9. ASSUME ba # << >>, ba[1][1] = "h", ba[1][2].ssrc = ssrc, n > 0 PROVE read[1].first = 1
  <2>1. 1 \in 1 .. n
    BY <1>3, <1>9
  <2>2. IsFrame(ba, ssrc, at[1]) /\ at[1] \in 1 .. Len(ba)
    BY <1>1, <2>1
  <2>3. Len(ba) > 0 /\ IsFrame(ba, ssrc, 1)
    BY <1>9, <2>2 DEF IsFrame
  <2> QED BY <1>1, <1>5, <2>1, <2>3
<1>10. \A k \in 1 .. n : k <= 2 => read[k].ts = ba[read[k].first][2].ts
  BY <1>5
<1>11. ASSUME n > 0 PROVE ssrc \in {1, 2}
  <2>1. 1 \in 1 .. n
    BY <1>3, <1>11
  <2>2. at[1] \in 1 .. Len(ba) /\ ba[at[1]][2].ssrc = ssrc
    BY <1>1, <2>1 DEF IsFrame
  <2>3. ba[at[1]] \in RtpUnit
    BY <2>2, ElementOfSeq
  <2> QED BY <2>2, <2>3, UnitFields
<1> QED BY <1>2, <1>7, <1>8, <1>9, <1>10, <1>11

-----------------------------------------------------------------------------
(* Units that follow those of frame m and end with frame k.                *)
Follows(b, m, k) ==
  /\ Numbered(b)
  /\ \A i \in 1 .. Len(b) : /\ m <= b[i][2].n /\ b[i][2].n <= k
                            /\ b[i][1] = "h" => m < b[i][2].n

LEMMA UnitIn == ASSUME NEW b \in Seq(RtpUnit), NEW i \in 1 .. Len(b) PROVE b[i] \in RtpUnit /\ b[i][2].n \in Nat
<1>1. b[i] \in RtpUnit
  BY ElementOfSeq
<1> QED BY <1>1, UnitFields

LEMMA FollowsBoth ==
  ASSUME NEW a \in Seq(RtpUnit), NEW b \in Seq(RtpUnit), NEW m \in Int, NEW k \in Int, NEW l \in Int,
         m <= k, k <= l, Follows(a, m, k), Follows(b, k, l)
  PROVE  a \o b \in Seq(RtpUnit) /\ Follows(a \o b, m, l)
<1> DEFINE c == a \o b
<1>1. /\ c \in Seq(RtpUnit) /\ Len(c) = Len(a) + Len(b)
      /\ \A i \in 1 .. Len(a) + Len(b) : c[i] = IF i <= Len(a) THEN a[i] ELSE b[i - Len(a)]
  BY ConcatProperties
<1>2. Len(a) \in Nat /\ Len(b) \in Nat
  OBVIOUS
<1> HIDE DEF c
<1>3. \A i \in 1 .. Len(a) : /\ a[i][2].n \in Nat /\ m <= a[i][2].n /\ a[i][2].n <= k
                             /\ a[i][1] = "h" => m < a[i][2].n
  BY UnitIn DEF Follows
<1>4. \A i \in 1 .. Len(b) : /\ b[i][2].n \in Nat /\ k <= b[i][2].n /\ b[i][2].n <= l
                             /\ b[i][1] = "h" => k < b[i][2].n
  BY UnitIn DEF Follows
<1>5. ASSUME NEW i \in 1 .. Len(c)
      PROVE  \/ i \in 1 .. Len(a) /\ c[i] = a[i]
             \/ i > Len(a) /\ i - Len(a) \in 1 .. Len(b) /\ c[i] = b[i - Len(a)]
  <2>1. CASE i <= Len(a)
    BY <1>1, <1>2, <2>1
  <2>2. CASE ~(i <= Len(a))
    <3>1. i - Len(a) \in 1 .. Len(b) /\ i > Len(a) /\ i \in 1 .. Len(a) + Len(b)
      BY <1>1, <1>2, <2>2
    <3> QED BY <1>1, <2>2, <3>1
  <2> QED BY <2>1, <2>2
<1>6. ASSUME NEW i \in 1 .. Len(c)
      PROVE  m <= c[i][2].n /\ c[i][2].n <= l /\ (c[i][1] = "h" => m < c[i][2].n)
  <2>1. CASE i \in 1 .. Len(a) /\ c[i] = a[i]
    BY <1>3, <2>1
  <2>2. CASE i - Len(a) \in 1 .. Len(b) /\ c[i] = b[i - Len(a)]
    BY <1>4, <2>2
  <2> QED BY <1>5, <2>1, <2>2
<1>7. ASSUME NEW i \in 1 .. Len(c), NEW j \in 1 .. Len(c), i < j
      PROVE  c[i][2].n <= c[j][2].n /\ (c[j][1] = "h" => c[i][2].n < c[j][2].n)
  <2>1. CASE i \in 1 .. Len(a) /\ c[i] = a[i] /\ j \in 1 .. Len(a) /\ c[j] = a[j]
    BY <1>7, <2>1 DEF Follows, Numbered
  <2>2. CASE i \in 1 .. Len(a) /\ c[i] = a[i] /\ j - Len(a) \in 1 .. Len(b) /\ c[j] = b[j - Len(a)]
    BY <1>3, <1>4, <2>2
  <2>3. CASE /\ i - Len(a) \in 1 .. Len(b) /\ c[i] = b[i - Len(a)]
             /\ j - Len(a) \in 1 .. Len(b) /\ c[j] = b[j - Len(a)]
    <3>1. i - Len(a) < j - Len(a)
      BY <1>2, <1>7
    <3> QED BY <2>3, <3>1 DEF Follows, Numbered
  <2>4. ~(i > Len(a) /\ j \in 1 .. Len(a))
    BY <1>2, <1>7
  <2> QED BY <1>5, <2>1, <2>2, <2>3, <2>4
<1>8. Follows(c, m, l)
  BY <1>6, <1>7 DEF Follows, Numbered
<1> QED BY <1>1, <1>8 DEF c

LEMMA UnitsAre ==
  ASSUME NEW f \in RtpFrame
  PROVE  /\ Units(f) \in Seq(RtpUnit) /\ Len(Units(f)) = FramePackets + 1
         /\ \A i \in 1 .. FramePackets + 1 : Units(f)[i] = IF i = 1 THEN <<"h", f>> ELSE <<"p", f>>
<1> DEFINE a == <<<<"h", f>>>>
           b == [k \in 1 .. FramePackets |-> <<"p", f>>]
<1>1. <<"h", f>> \in RtpUnit /\ <<"p", f>> \in RtpUnit /\ FramePackets \in Nat \ {0, 1}
  BY RtpSizes DEF RtpUnit
<1>2. a \in Seq(RtpUnit) /\ Len(a) = 1 /\ a[1] = <<"h", f>>
  BY <1>1
<1>3. b \in Seq(RtpUnit) /\ Len(b) = FramePackets /\ \A k \in 1 .. FramePackets : b[k] = <<"p", f>>
  <2>1. b \in [1 .. FramePackets -> RtpUnit] /\ \A k \in 1 .. FramePackets : b[k] = <<"p", f>>
    BY <1>1
  <2> HIDE DEF b
  <2> QED BY <1>1, <2>1
<1>4. Units(f) = a \o b
  BY DEF Units
<1> HIDE DEF a, b
<1>5. /\ a \o b \in Seq(RtpUnit) /\ Len(a \o b) = Len(a) + Len(b)
      /\ \A i \in 1 .. Len(a) + Len(b) : (a \o b)[i] = IF i <= Len(a) THEN a[i] ELSE b[i - Len(a)]
  BY <1>2, <1>3, ConcatProperties
<1>6. ASSUME NEW i \in 1 .. FramePackets + 1
      PROVE  (a \o b)[i] = IF i = 1 THEN <<"h", f>> ELSE <<"p", f>>
  <2>1. CASE i = 1
    BY <1>1, <1>2, <1>3, <1>5, <2>1
  <2>2. CASE i # 1
    <3>1. i - 1 \in 1 .. FramePackets /\ ~(i <= 1) /\ i \in 1 .. 1 + FramePackets
      BY <1>1, <2>2
    <3>2. (a \o b)[i] = b[i - 1]
      BY <1>2, <1>3, <1>5, <3>1
    <3> QED BY <1>3, <2>2, <3>1, <3>2
  <2> QED BY <2>1, <2>2
<1>7. Len(a) + Len(b) = FramePackets + 1
  BY <1>1, <1>2, <1>3
<1> QED BY <1>4, <1>5, <1>6, <1>7

LEMMA FrameFollows ==
  ASSUME NEW f \in RtpFrame, NEW m \in Int, f.n = m + 1, NEW t \in Seq(RtpUnit),
         Len(t) <= FramePackets + 1, \A i \in 1 .. Len(t) : t[i] = Units(f)[i]
  PROVE  Follows(t, m, m + 1)
<1>1. ASSUME NEW i \in 1 .. Len(t) PROVE t[i][2].n = m + 1 /\ (i # 1 => t[i][1] = "p")
  <2>1. i \in 1 .. FramePackets + 1
    BY RtpSizes
  <2>2. t[i] = IF i = 1 THEN <<"h", f>> ELSE <<"p", f>>
    BY <2>1, UnitsAre
  <2> QED BY <2>2
<1>2. ASSUME NEW i \in 1 .. Len(t), NEW j \in 1 .. Len(t), i < j
      PROVE  t[i][2].n <= t[j][2].n /\ (t[j][1] = "h" => t[i][2].n < t[j][2].n)
  <2>1. j # 1
    BY <1>2
  <2> QED BY <1>1, <2>1
<1> QED BY <1>1, <1>2 DEF Follows, Numbered

LEMMA RestFollows ==
  ASSUME NEW f \in RtpFrame, NEW t \in Seq(RtpUnit), \A i \in 1 .. Len(t) : t[i] = <<"p", f>>
  PROVE  Follows(t, f.n, f.n) /\ f.n \in Nat
<1>1. f.n \in Nat
  BY DEF RtpFrame
<1>2. \A i \in 1 .. Len(t) : t[i][2].n = f.n /\ t[i][1] = "p"
  OBVIOUS
<1> QED BY <1>1, <1>2 DEF Follows, Numbered

(* The next frame.                                                         *)
LEMMA NextFrame ==
  ASSUME NEW f \in RtpFrame, NEW d \in Nat, NEW ssrc \in {1, 2}
  PROVE  LET g == Frame(f.n + 1, (f.ts + d) % RtpModulus, ssrc) IN g \in RtpFrame /\ g.n = f.n + 1
<1>1. f.n \in Nat /\ f.ts \in Nat
  BY DEF RtpFrame
<1>2. (f.ts + d) % RtpModulus \in 0 .. RtpModulus - 1
  BY <1>1, RtpSizes
<1> QED BY <1>1, <1>2 DEF Frame, RtpFrame

SenderOk(s) ==
  /\ s.last \in RtpFrame /\ s.rest \in Seq(RtpUnit)
  /\ \A i \in 1 .. Len(s.rest) : s.rest[i] = <<"p", s.last>>

LEMMA SentFollows ==
  ASSUME SenderOk(rsend), NEW s \in Sent
  PROVE  /\ SenderOk(s) /\ s.buf \in Seq(RtpUnit) /\ rsend.last.n \in Nat /\ rsend.last.n <= s.last.n
         /\ Follows(s.buf, rsend.last.n, s.last.n)
<1> DEFINE old == rsend.last
           rest == rsend.rest
           m == old.n
<1>1. old \in RtpFrame /\ rest \in Seq(RtpUnit) /\ \A i \in 1 .. Len(rest) : rest[i] = <<"p", old>>
  BY DEF SenderOk
<1>2. Follows(rest, m, m) /\ m \in Nat
  BY <1>1, RestFollows
<1>3. CASE s = [buf |-> rest, last |-> old, rest |-> << >>]
  <2>1. s.buf = rest /\ s.last = old /\ s.rest = << >> /\ << >> \in Seq(RtpUnit) /\ Len(<< >>) = 0
    BY <1>3
  <2> QED BY <1>1, <1>2, <2>1 DEF SenderOk
<1>4. ASSUME NEW d \in RtpSteps, NEW ssrc \in {old.ssrc, 2},
             s \in SentOf(d, ssrc)
      PROVE  /\ SenderOk(s) /\ s.buf \in Seq(RtpUnit) /\ m <= s.last.n /\ Follows(s.buf, m, s.last.n)
  <2> DEFINE f == Frame(old.n + 1, (old.ts + d) % RtpModulus, ssrc)
             g == Frame(f.n + 1, (f.ts + 1) % RtpModulus, ssrc)
             t == SubSeq(Units(f), 1, 2)
             v == SubSeq(Units(f), 3, FramePackets + 1)
  <2>0. ssrc \in {1, 2} /\ d \in Nat /\ 1 \in Nat
    <3>1. old.ssrc \in {1, 2}
      BY <1>1 DEF RtpFrame
    <3> QED BY <3>1, RtpSizes
  <2>1. f \in RtpFrame /\ f.n = m + 1
    BY <1>1, <2>0, NextFrame
  <2> HIDE DEF f
  <2>2. g \in RtpFrame /\ g.n = (m + 1) + 1
    BY <2>0, <2>1, NextFrame
  <2> HIDE DEF g
  <2>3. /\ Units(f) \in Seq(RtpUnit) /\ Len(Units(f)) = FramePackets + 1
        /\ \A i \in 1 .. FramePackets + 1 : Units(f)[i] = IF i = 1 THEN <<"h", f>> ELSE <<"p", f>>
    BY <2>1, UnitsAre
  <2>4. Units(g) \in Seq(RtpUnit) /\ Len(Units(g)) = FramePackets + 1
    BY <2>2, UnitsAre
  <2>5. Follows(Units(f), m, m + 1) /\ Follows(Units(g), m + 1, (m + 1) + 1)
    <3>1. m \in Int /\ m + 1 \in Int /\ FramePackets + 1 <= FramePackets + 1
      BY <1>2, RtpSizes
    <3> HIDE DEF m
    <3> QED BY <2>1, <2>2, <2>3, <2>4, <3>1, FrameFollows
  <2>6. FramePackets \in Nat /\ FramePackets >= 2
    BY RtpSizes
  <2> DEFINE w == Units(f)
  <2> HIDE DEF w
  <2>7. /\ t \in Seq(RtpUnit) /\ Len(t) = 2 /\ \A i \in 1 .. 2 : t[i] = w[i]
        /\ v \in Seq(RtpUnit) /\ Len(v) = FramePackets - 1
        /\ \A i \in 1 .. FramePackets - 1 : v[i] = w[i + 2]
    <3>1. /\ w \in Seq(RtpUnit) /\ Len(w) = FramePackets + 1
          /\ t = SubSeq(w, 1, 2) /\ v = SubSeq(w, 3, FramePackets + 1)
      BY <2>3 DEF w
    <3>2. \A i \in 1 .. FramePackets + 1 : w[i] \in RtpUnit
      BY <3>1, ElementOfSeq
    <3>3. SubSeq(w, 1, 2) \in Seq(RtpUnit) /\ Len(SubSeq(w, 1, 2)) = 2 /\ \A i \in 1 .. 2 : SubSeq(w, 1, 2)[i] = w[i]
      <4>1. \A i \in 1 .. 2 : w[i] \in RtpUnit
        BY <2>6, <3>2
      <4>2. \A i \in 1 .. 2 : i \in 1 .. 2 - 1 + 1 /\ 1 + i - 1 = i
        OBVIOUS
      <4> QED BY <4>1, <4>2, SubSeqProperties
    <3>4. /\ SubSeq(w, 3, FramePackets + 1) \in Seq(RtpUnit)
          /\ Len(SubSeq(w, 3, FramePackets + 1)) = FramePackets - 1
          /\ \A i \in 1 .. FramePackets - 1 : SubSeq(w, 3, FramePackets + 1)[i] = w[i + 2]
      <4>1. \A i \in 3 .. FramePackets + 1 : w[i] \in RtpUnit
        BY <2>6, <3>2
      <4>2. /\ 3 <= FramePackets + 1 /\ (FramePackets + 1) - 3 + 1 = FramePackets - 1
            /\ \A i \in 1 .. FramePackets - 1 : 3 + i - 1 = i + 2
        BY <2>6
      <4>3. FramePackets + 1 \in Int
        BY <2>6
      <4> QED BY <4>1, <4>2, <4>3, SubSeqProperties
    <3> QED BY <3>1, <3>3, <3>4
  <2>8. Follows(t, m, m + 1)
    <3>1. m \in Int /\ Len(t) <= FramePackets + 1 /\ \A i \in 1 .. Len(t) : t[i] = Units(f)[i]
      BY <1>2, <2>6, <2>7 DEF w
    <3> HIDE DEF m, t
    <3> QED BY <2>1, <2>7, <3>1, FrameFollows
  <2>9. \A i \in 1 .. Len(v) : v[i] = <<"p", f>>
    <3> SUFFICES ASSUME NEW i \in 1 .. FramePackets - 1 PROVE v[i] = <<"p", f>>
      BY <2>7
    <3>1. i + 2 \in 1 .. FramePackets + 1 /\ i + 2 # 1 /\ v[i] = w[i + 2]
      BY <2>6, <2>7
    <3> QED BY <2>3, <3>1 DEF w
  <2>10. m \in Int /\ m + 1 \in Int /\ (m + 1) + 1 \in Int /\ m <= m /\ m <= m + 1 /\ m + 1 <= (m + 1) + 1
         /\ m <= (m + 1) + 1
    BY <1>2
  <2> HIDE DEF m, t, v, old, rest
  <2>11. rest \o Units(f) \in Seq(RtpUnit) /\ Follows(rest \o Units(f), m, m + 1)
    BY <1>1, <1>2, <2>3, <2>5, <2>10, FollowsBoth
  <2>12. rest \o t \in Seq(RtpUnit) /\ Follows(rest \o t, m, m + 1)
    BY <1>1, <1>2, <2>7, <2>8, <2>10, FollowsBoth
  <2>13. /\ (rest \o Units(f)) \o Units(g) \in Seq(RtpUnit)
         /\ Follows((rest \o Units(f)) \o Units(g), m, (m + 1) + 1)
    BY <2>4, <2>5, <2>10, <2>11, FollowsBoth
  <2>14. << >> \in Seq(RtpUnit) /\ \A i \in 1 .. Len(<< >>) : FALSE
    OBVIOUS
  <2>15. CASE s = [buf |-> rest \o Units(f), last |-> f, rest |-> << >>]
    <3>1. s.buf = rest \o Units(f) /\ s.last = f /\ s.rest = << >>
      BY <2>15
    <3> QED BY <2>1, <2>10, <2>11, <2>14, <3>1 DEF SenderOk
  <2>16. CASE s = [buf |-> rest \o t, last |-> f, rest |-> v]
    <3>1. s.buf = rest \o t /\ s.last = f /\ s.rest = v
      BY <2>16
    <3> QED BY <2>1, <2>7, <2>9, <2>10, <2>12, <3>1 DEF SenderOk
  <2>17. CASE s = [buf |-> (rest \o Units(f)) \o Units(g), last |-> g, rest |-> << >>]
    <3>1. s.buf = (rest \o Units(f)) \o Units(g) /\ s.last = g /\ s.rest = << >>
      BY <2>17
    <3> QED BY <2>2, <2>10, <2>13, <2>14, <3>1 DEF SenderOk
  <2>18. \/ s = [buf |-> rest \o Units(f), last |-> f, rest |-> << >>]
         \/ s = [buf |-> rest \o t, last |-> f, rest |-> v]
         \/ s = [buf |-> (rest \o Units(f)) \o Units(g), last |-> g, rest |-> << >>]
    BY <1>4, Zenon DEF SentOf, f, g, t, v, old, rest
  <2> QED BY <2>15, <2>16, <2>17, <2>18
<1>5. \/ s = [buf |-> rest, last |-> old, rest |-> << >>]
      \/ \E d \in RtpSteps, ssrc \in {old.ssrc, 2} : s \in SentOf(d, ssrc)
  BY DEF Sent
<1> QED BY <1>2, <1>3, <1>4, <1>5

-----------------------------------------------------------------------------
LEMMA RtpFields ==
  ASSUME RtpTypes
  PROVE  /\ rtp.busy \in Seq(RtpItem) /\ rtp.tsFirst \in Int /\ rtp.wallFirst \in Nat /\ rtp.total \in Int
         /\ rtp.ba \in Seq(RtpUnit) /\ rtp.ssrc \in {-1, 0, 1, 2} /\ rtp.did \in BOOLEAN /\ rtp.resetAt \in Nat
         /\ rsend.last \in RtpFrame /\ rsend.rest \in Seq(RtpUnit) /\ rnow \in Nat
         /\ rghost.in \in Seq(RtpUnit) /\ rghost.out \in Seq(RtpUnit) /\ rghost.many \in BOOLEAN
         /\ rghost.late \in BOOLEAN /\ rghost.raced \in BOOLEAN
         /\ rfound \in Seq(RtpPlace) /\ rloc \in Seq(RtpItem)
BY DEF RtpTypes

LEMMA RtpStarts == RtpInit => RtpInv
<1> SUFFICES ASSUME RtpInit PROVE RtpInv
  OBVIOUS
<1> DEFINE f == Frame(0, RtpModulus - 2, 1)
<1>1. f \in RtpFrame /\ f.n = 0
  <2>1. RtpModulus - 2 \in 0 .. RtpModulus - 1
    <3>1. Half * Half >= 2
      <4>1. Half >= 2 /\ Half \in Nat
        BY RtpSizes
      <4>2. Half * Half >= 2 * Half
        BY <4>1
      <4>3. Half * Half \in Int
        BY <4>1
      <4> QED BY <4>1, <4>2, <4>3
    <3> QED BY <3>1, RtpSizes
  <2> QED BY <2>1 DEF Frame, RtpFrame
<1>2. rsend = [last |-> f, rest |-> << >>] \/ rsend = [last |-> f, rest |-> Tail(Units(f))]
  BY DEF RtpInit
<1> HIDE DEF f
<1>3. SenderOk(rsend) /\ rsend \in [last : RtpFrame, rest : Seq(RtpUnit)]
  <2>1. /\ Units(f) \in Seq(RtpUnit) /\ Len(Units(f)) = FramePackets + 1
        /\ \A i \in 1 .. FramePackets + 1 : Units(f)[i] = IF i = 1 THEN <<"h", f>> ELSE <<"p", f>>
    BY <1>1, UnitsAre
  <2> DEFINE u == Units(f)
             t == Tail(u)
  <2>2. u # << >> /\ FramePackets \in Nat
    BY <2>1, RtpSizes
  <2> HIDE DEF u
  <2>3. t \in Seq(RtpUnit) /\ Len(t) = FramePackets /\ \A i \in 1 .. FramePackets : t[i] = u[i + 1]
    <3>1. u \in Seq(RtpUnit) /\ Len(u) = FramePackets + 1
      BY <2>1 DEF u
    <3>2. Len(t) = FramePackets
      BY <2>2, <3>1
    <3> QED BY <2>2, <3>1, <3>2, HeadTailProperties
  <2>4. \A i \in 1 .. Len(t) : t[i] = <<"p", f>>
    <3> SUFFICES ASSUME NEW i \in 1 .. FramePackets PROVE t[i] = <<"p", f>>
      BY <2>3
    <3>1. i + 1 \in 1 .. FramePackets + 1 /\ i + 1 # 1
      BY <2>2
    <3> QED BY <2>1, <2>3, <3>1 DEF u
  <2>5. << >> \in Seq(RtpUnit) /\ \A i \in 1 .. Len(<< >>) : FALSE
    OBVIOUS
  <2> HIDE DEF t
  <2>6. CASE rsend = [last |-> f, rest |-> t]
    BY <1>1, <2>3, <2>4, <2>6 DEF SenderOk
  <2>7. CASE rsend = [last |-> f, rest |-> << >>]
    <3>1. rsend.last = f /\ rsend.rest = << >>
      BY <2>7
    <3> QED BY <1>1, <2>5, <2>7, <3>1 DEF SenderOk
  <2> QED BY <1>2, <2>6, <2>7 DEF t, u
<1>4. /\ rtp = RtpAlloc /\ rpc = "idle" /\ rfound = << >> /\ rtpc = "new" /\ rloc = << >> /\ rnow = 0
      /\ rghost = [in |-> << >>, out |-> << >>, many |-> FALSE, late |-> FALSE, raced |-> FALSE]
  BY DEF RtpInit
<1>5. /\ rtp.busy = << >> /\ rtp.tsFirst = -1 /\ rtp.wallFirst = 0 /\ rtp.total = 0 /\ rtp.ba = << >>
      /\ rtp.ssrc = -1 /\ rtp.did = FALSE /\ rtp.terminated = FALSE
      /\ rghost.in = << >> /\ rghost.out = << >>
  BY <1>4 DEF RtpAlloc
<1>6. << >> \in Seq(RtpUnit) /\ << >> \in Seq(RtpItem) /\ << >> \in Seq(RtpPlace)
  OBVIOUS
<1>7. RtpTypes
  BY <1>3, <1>4, <1>6 DEF RtpTypes, RtpAlloc
<1>8. RtpBuffer /\ RtpPlaces /\ RtpQueue /\ RtpFlags /\ RtpBase
  BY <1>3, <1>4, <1>5 DEF RtpBuffer, RtpPlaces, RtpQueue, RtpFlags, RtpBase, SenderOk, Numbered
<1>9. DataOf(rloc) = << >> /\ DataOf(rtp.busy) = << >>
  BY <1>4, <1>5, DataOfNone
<1>10. RtpBytes /\ RtpSizeIsHeld
  <2>1. SubSeq(rtp.ba, Unqueued, Len(rtp.ba)) = << >>
    BY <1>4, <1>5 DEF Unqueued
  <2>2. ((<< >> \o << >>) \o << >>) \o << >> = << >>
    BY <1>6, ConcatEmptySeq
  <2> QED BY <1>5, <1>9, <2>1, <2>2 DEF RtpBytes, RtpSizeIsHeld
<1>11. RtpDueSoon /\ RtpFreedAlone
  BY <1>4, <1>5 DEF RtpDueSoon, RtpFreedAlone
<1> QED BY <1>7, <1>8, <1>10, <1>11 DEF RtpInv

LEMMA PtsType == ASSUME NEW x \in Int, NEW y \in Int PROVE PtsDiff(x, y) \in Int
<1>1. Modulus \in Int
  BY RtpSizes
<1> QED BY <1>1 DEF PtsDiff, WrapOf

(* A write adds to the byte array what it adds to the history.             *)
LEMMA WriteKeeps == ASSUME RtpInv, RtpWrite PROVE RtpInv'
<1> DEFINE ba == rtp.ba
<1>1. PICK s \in Sent :
        LET ssrc == IF rtp.ssrc # -1 THEN rtp.ssrc
                    ELSE IF s.buf[1][1] = "h" THEN s.buf[1][2].ssrc ELSE 0
            read == Converted(QueryPositions(rtp.ba \o s.buf, ssrc))
        IN  /\ s.buf # << >>
            /\ rtp' = [rtp EXCEPT !.ba = rtp.ba \o s.buf, !.ssrc = ssrc, !.did = @ \/ Jumped(read)]
            /\ rsend' = [last |-> s.last, rest |-> s.rest]
            /\ rghost' = [rghost EXCEPT !.in = @ \o s.buf, !.many = @ \/ Len(read) > 2]
            /\ IF Len(read) < 2 THEN UNCHANGED <<rpc, rfound>>
               ELSE rpc' = "frames" /\ rfound' = read
  BY DEF RtpWrite
<1> DEFINE buf == s.buf
           new == ba \o buf
           ssrc == IF rtp.ssrc # -1 THEN rtp.ssrc
                   ELSE IF buf[1][1] = "h" THEN buf[1][2].ssrc ELSE 0
           read == Converted(QueryPositions(new, ssrc))
           n == rsend.last.n
<1>2. rpc = "idle" /\ UNCHANGED <<rtpc, rloc, rnow>>
  BY DEF RtpWrite
<1>3. SenderOk(rsend)
  BY RtpFields DEF SenderOk, RtpInv, RtpBuffer
<1>4. /\ SenderOk(s) /\ buf \in Seq(RtpUnit) /\ n \in Nat /\ n <= s.last.n /\ s.last.n \in Nat
      /\ Follows(buf, n, s.last.n)
  <2>1. SenderOk(s) => s.last.n \in Nat
    BY DEF SenderOk, RtpFrame
  <2> QED BY <1>3, <2>1, SentFollows
<1>5. ba \in Seq(RtpUnit) /\ Follows(ba, -1, n)
  <2>1. ba \in Seq(RtpUnit)
    BY RtpFields DEF RtpInv
  <2>2. \A i \in 1 .. Len(ba) : ba[i][2].n \in Nat /\ ba[i][2].n <= n
    BY <2>1, UnitIn DEF RtpInv, RtpBuffer
  <2>3. Numbered(ba)
    BY DEF RtpInv, RtpBuffer
  <2> QED BY <2>1, <2>2, <2>3 DEF Follows
<1>6. new \in Seq(RtpUnit) /\ Follows(new, -1, s.last.n)
  <2>1. -1 \in Int /\ -1 <= n /\ n \in Int /\ s.last.n \in Int
    BY <1>4
  <2> HIDE DEF ba, buf, n
  <2> QED BY <1>4, <1>5, <2>1, FollowsBoth
<1>7. /\ Len(new) = Len(ba) + Len(buf) /\ Len(ba) \in Nat /\ Len(buf) \in Nat \ {0}
      /\ \A i \in 1 .. Len(ba) : new[i] = ba[i]
      /\ ba = << >> => new[1] = buf[1]
  <2>1. buf # << >>
    BY <1>1
  <2> HIDE DEF ba, buf
  <2> QED BY <1>4, <1>5, <2>1, ConcatProperties
<1>8. ssrc \in {0, 1, 2} /\ (rtp.ssrc # -1 => ssrc = rtp.ssrc)
  <2>1. rtp.ssrc \in {-1, 0, 1, 2}
    BY RtpFields DEF RtpInv
  <2>2. 1 \in 1 .. Len(buf)
    BY <1>7
  <2>3. buf[1][2].ssrc \in {1, 2}
    <3> HIDE DEF buf
    <3>1. buf[1] \in RtpUnit
      BY <1>4, <2>2, UnitIn
    <3> QED BY <3>1, UnitFields
  <2> QED BY <2>1, <2>3
<1>9. ssrc \in {1, 2} => new # << >> /\ new[1][1] = "h" /\ new[1][2].ssrc = ssrc
  <2>0. new # << >>
    BY <1>6, <1>7
  <2>1. CASE rtp.ssrc # -1
    <3>1. ssrc = rtp.ssrc
      BY <2>1
    <3>2. ssrc \in {1, 2} => ba # << >> /\ ba[1][1] = "h" /\ ba[1][2].ssrc = ssrc
      BY <3>1 DEF RtpInv, RtpBuffer
    <3>3. ba # << >> => new[1] = ba[1]
      <4>1. ba # << >> => 1 \in 1 .. Len(ba)
        BY <1>5
      <4> HIDE DEF ba, new
      <4> QED BY <1>7, <4>1
    <3> HIDE DEF new, ba
    <3> QED BY <2>0, <3>2, <3>3
  <2>2. CASE rtp.ssrc = -1
    <3>1. ba = << >>
      BY <2>2 DEF RtpInv, RtpBuffer
    <3>2. new[1] = buf[1]
      BY <1>7, <3>1
    <3>3. ssrc = IF buf[1][1] = "h" THEN buf[1][2].ssrc ELSE 0
      BY <2>2
    <3> HIDE DEF new, ba, buf, ssrc
    <3> QED BY <2>0, <3>2, <3>3
  <2> QED BY <2>1, <2>2
<1> HIDE DEF ssrc
<1>10. /\ read \in Seq(RtpPlace) /\ LaidOut(read, new, ssrc) /\ (Len(read) > 0 => ssrc \in {1, 2})
       /\ \A k \in 1 .. Len(read) : k <= 2 => read[k].ts = new[read[k].first][2].ts
       /\ ssrc \in {1, 2} /\ Len(read) > 0 => read[1].first = 1
  <2> HIDE DEF new
  <2> QED BY <1>6, <1>9, FramesRead
<1>11. /\ rtp' = [rtp EXCEPT !.ba = new, !.ssrc = ssrc, !.did = @ \/ Jumped(read)]
       /\ rsend' = [last |-> s.last, rest |-> s.rest]
       /\ rghost' = [rghost EXCEPT !.in = @ \o buf, !.many = @ \/ Len(read) > 2]
       /\ Len(read) < 2 => UNCHANGED <<rpc, rfound>>
       /\ ~(Len(read) < 2) => rpc' = "frames" /\ rfound' = read
  BY <1>1 DEF ssrc
<1> HIDE DEF read
<1>12. Jumped(read) \in BOOLEAN /\ (Jumped(read) => ~(Len(read) < 2)) /\ Len(read) \in Nat
  BY <1>10 DEF Jumped
<1>13. /\ rtp'.ba = new /\ rtp'.ssrc = ssrc /\ rtp'.did = (rtp.did \/ Jumped(read)) /\ rtp'.busy = rtp.busy
       /\ rtp'.tsFirst = rtp.tsFirst /\ rtp'.wallFirst = rtp.wallFirst /\ rtp'.total = rtp.total
       /\ rtp'.terminated = rtp.terminated
       /\ rsend'.last = s.last /\ rsend'.rest = s.rest
       /\ rghost'.in = rghost.in \o buf /\ rghost'.out = rghost.out /\ rghost'.late = rghost.late
       /\ rghost'.many = (rghost.many \/ Len(read) > 2) /\ rghost'.raced = rghost.raced
  BY <1>11 DEF RtpInv, RtpTypes
<1>14. ~rtp.did
  BY <1>2 DEF RtpInv, RtpFlags
<1>15. RtpTypes'
  <2>1. rghost.in \o buf \in Seq(RtpUnit)
    <3> HIDE DEF buf
    <3>1. rghost.in \in Seq(RtpUnit)
      BY RtpFields DEF RtpInv
    <3> QED BY <1>4, <3>1, ConcatProperties
  <2>2. rghost' \in [in : Seq(RtpUnit), out : Seq(RtpUnit), many : BOOLEAN, late : BOOLEAN, raced : BOOLEAN]
    <3> HIDE DEF buf
    <3> QED BY <1>11, <1>12, <2>1 DEF RtpInv, RtpTypes
  <2>3. rsend' \in [last : RtpFrame, rest : Seq(RtpUnit)]
    BY <1>4, <1>11 DEF SenderOk
  <2>4. rtp' \in [busy : Seq(RtpItem), tsFirst : Int, wallFirst : Nat, total : Int, ba : Seq(RtpUnit),
              ssrc : {-1, 0, 1, 2}, did : BOOLEAN, resetAt : Nat, running : BOOLEAN,
              terminate : BOOLEAN, terminated : BOOLEAN]
    <3> HIDE DEF new
    <3> QED BY <1>6, <1>8, <1>11, <1>12, <1>14 DEF RtpInv, RtpTypes
  <2>5. rpc' \in {"idle", "frames", "wait", "freed"} /\ rfound' \in Seq(RtpPlace)
    BY <1>2, <1>10, <1>11 DEF RtpInv, RtpTypes
  <2> QED BY <1>2, <2>2, <2>3, <2>4, <2>5 DEF RtpInv, RtpTypes
<1>16. RtpBuffer'
  <2>1. Numbered(new) /\ \A i \in 1 .. Len(new) : new[i][2].n <= s.last.n
    BY <1>6 DEF Follows
  <2>2. \A i \in 1 .. Len(s.rest) : s.rest[i] = <<"p", s.last>>
    BY <1>4 DEF SenderOk
  <2>3. ssrc # -1
    BY <1>8
  <2> HIDE DEF new
  <2> QED BY <1>9, <1>13, <2>1, <2>2, <2>3 DEF RtpBuffer
<1>17. RtpPlaces'
  <2> SUFFICES ASSUME rpc' = "frames"
               PROVE  /\ rfound' # << >> /\ LaidOut(rfound', rtp'.ba, rtp'.ssrc)
                      /\ ~rghost'.many => /\ Len(rfound') <= 2
                             /\ \A k \in 1 .. Len(rfound') : rfound'[k].ts = rtp'.ba[rfound'[k].first][2].ts
    BY DEF RtpPlaces
  <2>1. ~(Len(read) < 2) /\ rfound' = read
    BY <1>2, <1>11
  <2> HIDE DEF new
  <2>2. read # << >>
    BY <1>10, <2>1
  <2>3. ASSUME ~rghost'.many PROVE Len(read) <= 2 /\ \A k \in 1 .. Len(read) : read[k].ts = new[read[k].first][2].ts
    <3>1. Len(read) <= 2
      <4>1. ~(Len(read) > 2)
        BY <1>13, <2>3, Zenon
      <4> QED BY <1>12, <4>1
    <3>2. \A k \in 1 .. Len(read) : k <= 2
      BY <1>12, <3>1
    <3> QED BY <1>10, <3>1, <3>2
  <2> QED BY <1>10, <1>13, <2>1, <2>2, <2>3
<1>18. Unqueued = 1 /\ Unqueued' = 1
  <2>1. CASE Len(read) < 2
    BY <1>2, <1>11, <2>1 DEF Unqueued
  <2>2. CASE ~(Len(read) < 2)
    <3>1. Len(read) > 0
      BY <1>12, <2>2
    <3> QED BY <1>2, <1>10, <1>11, <2>2, <3>1 DEF Unqueued
  <2> QED BY <2>1, <2>2
<1>19. RtpBytes'
  <2> DEFINE x == rghost.out \o DataOf(rloc) \o DataOf(rtp.busy)
  <2>1. x \in Seq(RtpUnit)
    <3>1. rghost.out \in Seq(RtpUnit) /\ DataOf(rloc) \in Seq(RtpUnit) /\ DataOf(rtp.busy) \in Seq(RtpUnit)
      BY RtpFields, DataType DEF RtpInv
    <3>2. rghost.out \o DataOf(rloc) \in Seq(RtpUnit)
      BY <3>1, ConcatProperties
    <3> QED BY <3>1, <3>2, ConcatProperties
  <2>2. SubSeq(ba, 1, Len(ba)) = ba /\ SubSeq(new, 1, Len(new)) = new
    <3> HIDE DEF ba, new
    <3> QED BY <1>5, <1>6, SubSeqFull
  <2>3. x \o ba = rghost.in
    BY <1>18, <2>2 DEF RtpInv, RtpBytes
  <2> HIDE DEF x, ba, buf
  <2>4. x \o new = (x \o ba) \o buf
    <3>1. x \in Seq(RtpUnit) /\ ba \in Seq(RtpUnit) /\ buf \in Seq(RtpUnit)
      BY <1>4, <1>5, <2>1
    <3> QED BY <3>1, ConcatAssociative
  <2>5. x \o new = rghost'.in
    BY <1>13, <2>3, <2>4
  <2> QED BY <1>2, <1>13, <1>18, <2>2, <2>5 DEF RtpBytes, x
<1>20. RtpQueue'
  BY <1>2, <1>13 DEF RtpInv, RtpQueue
<1>21. RtpFlags'
  BY <1>2, <1>11, <1>12, <1>13, <1>14 DEF RtpInv, RtpFlags
<1>22. RtpBase'
  <2> SUFFICES ASSUME ~rghost'.many
        PROVE /\ \A i \in 1 .. Len(rtp'.busy) :
                   Unqueued' <= Len(rtp'.ba) /\ rtp'.busy[i].data[1][2].n < rtp'.ba[Unqueued'][2].n
              /\ rtp'.tsFirst # -1 =>
                   /\ rtp'.tsFirst >= 0 /\ Unqueued' <= Len(rtp'.ba)
                   /\ \/ rtp'.did /\ Len(rfound') = 1
                      \/ LET f == rtp'.ba[Unqueued'][2]
                         IN  rtp'.tsFirst <= f.ts /\ f.ts <= rtp'.tsFirst + JumpLimit * f.n
              /\ rpc' = "frames" /\ Len(rfound') = 2 /\ ~rtp'.did
                   => PtsDiff(rfound'[1].ts, rfound'[2].ts) <= JumpLimit
    BY DEF RtpBase
  <2>1. ~rghost.many /\ Len(read) <= 2
    <3>1. ~rghost.many /\ ~(Len(read) > 2)
      BY <1>13, Zenon
    <3> QED BY <1>12, <3>1
  <2>2. 1 <= Len(ba) => 1 <= Len(new) /\ new[1] = ba[1]
    <3>1. 1 <= Len(ba) => 1 \in 1 .. Len(ba)
      BY <1>7
    <3> HIDE DEF ba, new
    <3> QED BY <1>7, <3>1
  <2> HIDE DEF ba, new
  <2>3. \A i \in 1 .. Len(rtp.busy) : 1 <= Len(ba) /\ rtp.busy[i].data[1][2].n < ba[1][2].n
    BY <1>18, <2>1 DEF RtpInv, RtpBase, ba
  <2>4. \A i \in 1 .. Len(rtp.busy) : 1 <= Len(new) /\ rtp.busy[i].data[1][2].n < new[1][2].n
    BY <2>2, <2>3
  <2>5. ASSUME rtp.tsFirst # -1
        PROVE  /\ rtp.tsFirst >= 0 /\ 1 <= Len(new)
               /\ rtp.tsFirst <= new[1][2].ts /\ new[1][2].ts <= rtp.tsFirst + JumpLimit * new[1][2].n
    <3>1. /\ rtp.tsFirst >= 0 /\ 1 <= Len(ba)
          /\ rtp.tsFirst <= ba[1][2].ts /\ ba[1][2].ts <= rtp.tsFirst + JumpLimit * ba[1][2].n
      BY <1>14, <1>18, <2>1, <2>5 DEF RtpInv, RtpBase, ba
    <3> QED BY <2>2, <3>1
  <2>6. ASSUME rpc' = "frames", Len(rfound') = 2, ~rtp'.did PROVE PtsDiff(rfound'[1].ts, rfound'[2].ts) <= JumpLimit
    <3>1. rfound' = read /\ Len(read) = 2 /\ ~Jumped(read)
      BY <1>2, <1>11, <1>13, <2>6
    <3>2. read[1].ts \in Int /\ read[2].ts \in Int
      <4>1. read[1] \in RtpPlace /\ read[2] \in RtpPlace
        BY <1>10, <3>1, ElementOfSeq
      <4> QED BY <4>1 DEF RtpPlace
    <3>3. PtsDiff(read[1].ts, read[2].ts) \in Int
      BY <3>2, PtsType
    <3>4. JumpLimit \in Int
      BY RtpSizes
    <3> QED BY <3>1, <3>3, <3>4 DEF Jumped
  <2> QED BY <1>13, <1>18, <2>4, <2>5, <2>6
<1>23. RtpDueSoon' /\ RtpSizeIsHeld' /\ RtpFreedAlone'
  <2>1. rpc' # "freed"
    BY <1>2, <1>11
  <2> QED BY <1>2, <1>13, <2>1 DEF RtpInv, RtpDueSoon, RtpSizeIsHeld, RtpFreedAlone
<1> QED BY <1>15, <1>16, <1>17, <1>19, <1>20, <1>21, <1>22, <1>23 DEF RtpInv

-----------------------------------------------------------------------------
LEMMA DataOfAppend ==
  ASSUME NEW s \in Seq(RtpItem), NEW e \in RtpItem
  PROVE  DataOf(Append(s, e)) = DataOf(s) \o e.data
<1>1. Append(s, e) = s \o <<e>> /\ <<e>> \in Seq(RtpItem)
  OBVIOUS
<1>2. DataOf(s \o <<e>>) = DataOf(s) \o DataOf(<<e>>)
  BY <1>1, DataOfBoth
<1> QED BY <1>1, <1>2, DataOfOne

LEMMA NotBackIs ==
  ASSUME NEW busy \in Seq(RtpItem), NEW t \in Int
  PROVE  LET a == NotBack(busy, t)
             l == busy[Len(busy)]
         IN  /\ a \in Int
             /\ a = t \/ (busy # << >> /\ a = l.at + 1)
             /\ busy # << >> => l \in RtpItem /\ a >= l.at
<1>1. CASE busy = << >>
  BY <1>1 DEF NotBack
<1>2. CASE busy # << >>
  <2>1. Len(busy) \in 1 .. Len(busy)
    BY <1>2
  <2> DEFINE l == busy[Len(busy)]
  <2>2. l \in RtpItem
    BY <2>1, ElementOfSeq
  <2>3. NotBack(busy, t) = IF l.at > t THEN l.at + 1 ELSE t
    BY <1>2 DEF NotBack, Last
  <2> HIDE DEF l
  <2>4. l.at \in Int
    BY <2>2, ItemFields
  <2> QED BY <1>2, <2>2, <2>3, <2>4 DEF l
<1> QED BY <1>1, <1>2

LEMMA LimitGrows ==
  ASSUME NEW a \in Nat, NEW b \in Nat, a < b
  PROVE  /\ JumpLimit * a \in Nat /\ JumpLimit * b \in Nat
         /\ JumpLimit * a + JumpLimit <= JumpLimit * b /\ JumpLimit >= 1 /\ JumpLimit \in Nat
<1>1. JumpLimit \in Nat /\ JumpLimit >= 1
  BY RtpSizes
<1> DEFINE k == b - a
<1>2. k \in Nat /\ k >= 1 /\ b = a + k
  OBVIOUS
<1> HIDE DEF k
<1>3. JumpLimit * b = JumpLimit * a + JumpLimit * k
  BY <1>1, <1>2
<1>4. JumpLimit * k >= JumpLimit
  BY <1>1, <1>2
<1>5. JumpLimit * a \in Nat /\ JumpLimit * b \in Nat /\ JumpLimit * k \in Nat
  BY <1>1, <1>2
<1> QED BY <1>1, <1>3, <1>4, <1>5

LEMMA PtsNear ==
  ASSUME NEW x \in 0 .. RtpModulus - 1, NEW y \in 0 .. RtpModulus - 1, PtsDiff(x, y) <= JumpLimit
  PROVE  x <= y /\ y <= x + JumpLimit
<1>1. Modulus = 2 * RtpModulus /\ RtpModulus \in Nat /\ JumpLimit \in 1 .. RtpModulus - 1
  BY RtpSizes
<1>2. PtsDiff(x, y) = IF x > y THEN (Modulus - 1) - x + y ELSE y - x
  BY DEF PtsDiff, WrapOf
<1> QED BY <1>1, <1>2

LEMMA BytesType ==
  ASSUME RtpTypes
  PROVE  /\ rghost.out \in Seq(RtpUnit) /\ DataOf(rloc) \in Seq(RtpUnit) /\ DataOf(rtp.busy) \in Seq(RtpUnit)
         /\ rghost.out \o DataOf(rloc) \in Seq(RtpUnit)
         /\ rghost.out \o DataOf(rloc) \o DataOf(rtp.busy) \in Seq(RtpUnit)
<1>1. rghost.out \in Seq(RtpUnit) /\ DataOf(rloc) \in Seq(RtpUnit) /\ DataOf(rtp.busy) \in Seq(RtpUnit)
  BY RtpFields, DataType
<1>2. rghost.out \o DataOf(rloc) \in Seq(RtpUnit)
  BY <1>1, ConcatProperties
<1>3. rghost.out \o DataOf(rloc) \o DataOf(rtp.busy) \in Seq(RtpUnit)
  BY <1>1, <1>2, ConcatProperties
<1> QED BY <1>1, <1>2, <1>3

LEMMA BaFields ==
  ASSUME RtpTypes, NEW i \in 1 .. Len(rtp.ba)
  PROVE  /\ rtp.ba[i] \in RtpUnit /\ rtp.ba[i][2].n \in Nat /\ rtp.ba[i][2].ts \in 0 .. RtpModulus - 1
<1>1. rtp.ba[i] \in RtpUnit
  BY RtpFields, ElementOfSeq
<1> QED BY <1>1, UnitFields

LEMMA PlaceFields ==
  ASSUME NEW r \in RtpPlace PROVE r.first \in Nat \ {0} /\ r.len \in Nat /\ r.ts \in Nat
BY DEF RtpPlace

LEMMA LaidFirst ==
  ASSUME NEW found \in Seq(RtpPlace), NEW ba \in Seq(RtpUnit), NEW ssrc,
         found # << >>, LaidOut(found, ba, ssrc), found[1].len > 0
  PROVE  /\ Len(found) \in Nat /\ Len(found) >= 2 /\ found[1] \in RtpPlace /\ found[2] \in RtpPlace
         /\ found[1].first + found[1].len = found[2].first /\ found[2].first <= Len(ba)
         /\ ba[found[2].first][1] = "h"
<1>1. Len(found) \in Nat /\ 1 \in 1 .. Len(found)
  OBVIOUS
<1>2. 1 = Len(found) => found[1].len = 0
  BY <1>1 DEF LaidOut
<1>3. Len(found) # 1
  BY <1>2
<1> DEFINE l == Len(found)
<1>4. l \in Nat /\ l >= 1 /\ l # 1
  BY <1>1, <1>3
<1> HIDE DEF l
<1>5. l >= 2 /\ 1 < l /\ 1 \in 1 .. l /\ 2 \in 1 .. l /\ 1 + 1 = 2
  BY <1>4
<1>6. 1 < Len(found) /\ 1 \in 1 .. Len(found) /\ 2 \in 1 .. Len(found) /\ Len(found) >= 2
  BY <1>5 DEF l
<1>7. found[1] \in RtpPlace /\ found[2] \in RtpPlace
  BY <1>6, ElementOfSeq
<1>8. found[1].first + found[1].len = found[1 + 1].first
  BY <1>6 DEF LaidOut
<1>9. found[2].first <= Len(ba) /\ ba[found[2].first][1] = "h"
  BY <1>6 DEF LaidOut
<1> QED BY <1>1, <1>5, <1>6, <1>7, <1>8, <1>9

(* A frame is queued: what was the first part of the rest of the byte      *)
(* array is now the last item.                                             *)
LEMMA Write2Keeps == ASSUME RtpInv, RtpWrite2 PROVE RtpInv'
<1> DEFINE f == rfound[1]
           g == rfound[2]
           ba == rtp.ba
           busy == rtp.busy
           c == IF rtp.tsFirst # -1 THEN rtp ELSE [rtp EXCEPT !.tsFirst = f.ts, !.wallFirst = rnow]
           data == SubSeq(ba, f.first, f.first + f.len - 1)
           at == NotBack(busy, ScheduledOutput(c, f.ts))
           item == [data |-> data, rx |-> rnow, at |-> at]
<1>1. /\ rpc = "frames" /\ f.len > 0 /\ rfound' = Tail(rfound)
      /\ UNCHANGED <<rpc, rtpc, rloc, rsend, rnow, rghost>>
  BY DEF RtpWrite2
<1>2. RtpTypes /\ ba \in Seq(RtpUnit) /\ busy \in Seq(RtpItem) /\ rfound \in Seq(RtpPlace) /\ rnow \in Nat
  BY RtpFields DEF RtpInv
<1>3. rfound # << >> /\ LaidOut(rfound, ba, rtp.ssrc)
  BY <1>1 DEF RtpInv, RtpPlaces
<1>4. /\ Len(rfound) \in Nat /\ Len(rfound) >= 2 /\ f \in RtpPlace /\ g \in RtpPlace
      /\ f.first + f.len = g.first /\ g.first <= Len(ba) /\ ba[g.first][1] = "h"
  <2> HIDE DEF ba
  <2> QED BY <1>1, <1>2, <1>3, LaidFirst
<1>5. /\ f.first \in Nat \ {0} /\ f.len \in Nat \ {0} /\ f.ts \in Nat /\ g.first \in Nat \ {0} /\ g.ts \in Nat
      /\ f.first + f.len = g.first /\ g.first <= Len(ba) /\ ba[g.first][1] = "h" /\ Len(ba) \in Nat
  <2>1. f.first \in Nat \ {0} /\ f.len \in Nat /\ f.ts \in Nat /\ g.first \in Nat \ {0} /\ g.ts \in Nat
    <3>1. f \in RtpPlace /\ g \in RtpPlace
      BY <1>4
    <3> HIDE DEF f, g
    <3> QED BY <3>1, PlaceFields
  <2>2. f.len \in Nat \ {0}
    <3> DEFINE l == f.len
    <3>1. l \in Nat /\ l > 0
      BY <1>1, <2>1
    <3> HIDE DEF l
    <3>2. l \in Nat \ {0}
      BY <3>1
    <3> QED BY <3>2 DEF l
  <2>3. Len(ba) \in Nat
    BY <1>2
  <2> QED BY <1>4, <2>1, <2>2, <2>3
<1>6. /\ c.ba = ba /\ c.busy = busy /\ c.total = rtp.total /\ c.did = rtp.did /\ c.ssrc = rtp.ssrc
      /\ c.terminated = rtp.terminated
      /\ c.tsFirst = (IF rtp.tsFirst # -1 THEN rtp.tsFirst ELSE f.ts)
      /\ c.wallFirst = (IF rtp.tsFirst # -1 THEN rtp.wallFirst ELSE rnow)
      /\ c \in [busy : Seq(RtpItem), tsFirst : Int, wallFirst : Nat, total : Int, ba : Seq(RtpUnit),
                ssrc : {-1, 0, 1, 2}, did : BOOLEAN, resetAt : Nat, running : BOOLEAN,
                terminate : BOOLEAN, terminated : BOOLEAN]
  <2>1. rtp \in [busy : Seq(RtpItem), tsFirst : Int, wallFirst : Nat, total : Int, ba : Seq(RtpUnit),
                ssrc : {-1, 0, 1, 2}, did : BOOLEAN, resetAt : Nat, running : BOOLEAN,
                terminate : BOOLEAN, terminated : BOOLEAN]
    BY <1>2 DEF RtpTypes
  <2>2. CASE rtp.tsFirst # -1
    BY <2>1, <2>2
  <2>3. CASE rtp.tsFirst = -1
    <3>1. c = [rtp EXCEPT !.tsFirst = f.ts, !.wallFirst = rnow]
      BY <2>3
    <3>2. f.ts \in Int /\ rnow \in Nat
      BY <1>2, <1>5
    <3> HIDE DEF c, f
    <3> QED BY <2>1, <2>3, <3>1, <3>2
  <2> QED BY <2>2, <2>3
<1>7. rtp' = [c EXCEPT !.busy = Append(@, item), !.total = @ + f.len]
  <2>1. rtp' = [c EXCEPT !.busy = Append(@, [data |-> SubSeq(c.ba, f.first, f.first + f.len - 1), rx |-> rnow,
                                            at |-> NotBack(c.busy, ScheduledOutput(c, f.ts))]),
                         !.total = @ + f.len]
    BY DEF RtpWrite2
  <2> HIDE DEF c
  <2> QED BY <1>6, <2>1
<1> HIDE DEF c
<1>8. /\ c.tsFirst \in Int /\ c.wallFirst \in Nat /\ c.wallFirst <= rnow
      /\ ScheduledOutput(c, f.ts) = c.wallFirst + PtsDiff(c.tsFirst, f.ts) + RtpLatency
      /\ PtsDiff(c.tsFirst, f.ts) \in Int /\ ScheduledOutput(c, f.ts) \in Int
  <2>1. c.tsFirst \in Int /\ c.wallFirst \in Nat
    BY <1>6
  <2>2. c.wallFirst <= rnow
    <3>1. rtp.wallFirst <= rnow /\ rnow <= rnow
      BY <1>2 DEF RtpInv, RtpQueue
    <3> QED BY <1>6, <3>1
  <2>3. f.ts \in Int
    BY <1>5
  <2>4. PtsDiff(c.tsFirst, f.ts) \in Int
    <3> HIDE DEF f
    <3> QED BY <2>1, <2>3, PtsType
  <2>5. RtpLatency \in Nat
    BY RtpSizes
  <2> QED BY <2>1, <2>2, <2>4, <2>5 DEF ScheduledOutput
<1>9. /\ at \in Int /\ (at = ScheduledOutput(c, f.ts) \/ (busy # << >> /\ at = busy[Len(busy)].at + 1))
      /\ busy # << >> => busy[Len(busy)] \in RtpItem /\ at >= busy[Len(busy)].at
  <2> HIDE DEF f, busy
  <2> QED BY <1>2, <1>8, NotBackIs
<1> HIDE DEF at
<1>10. /\ data \in Seq(RtpUnit) /\ Len(data) = f.len /\ data # << >> /\ data[1] = ba[f.first]
       /\ f.first \in 1 .. Len(ba) /\ f.first < g.first
  <2>1. \A i \in f.first .. f.first + f.len - 1 : ba[i] \in RtpUnit
    <3> SUFFICES ASSUME NEW i \in f.first .. f.first + f.len - 1 PROVE ba[i] \in RtpUnit
      OBVIOUS
    <3>1. i \in 1 .. Len(ba)
      BY <1>5
    <3> QED BY <1>2, <3>1, ElementOfSeq
  <2>2. /\ f.first \in Int /\ f.first + f.len - 1 \in Int /\ f.first <= f.first + f.len - 1
        /\ (f.first + f.len - 1) - f.first + 1 = f.len /\ f.first + 1 - 1 = f.first /\ 1 \in 1 .. f.len
    BY <1>5
  <2>3. data \in Seq(RtpUnit) /\ Len(data) = f.len /\ data[1] = ba[f.first]
    <3> HIDE DEF f, ba
    <3> QED BY <2>1, <2>2, SubSeqProperties
  <2>4. data # << >>
    <3> HIDE DEF data
    <3> QED BY <1>5, <2>3
  <2>5. f.first \in 1 .. Len(ba) /\ f.first < g.first
    <3> DEFINE p == f.first
               l == f.len
               q == g.first
               b == Len(ba)
    <3>1. p \in Nat \ {0} /\ l \in Nat \ {0} /\ p + l = q /\ q <= b /\ b \in Nat
      BY <1>5
    <3> HIDE DEF p, l, q, b
    <3>2. p \in 1 .. b /\ p < q
      BY <3>1
    <3> QED BY <3>2 DEF p, q, b
  <2> HIDE DEF data
  <2> QED BY <2>3, <2>4, <2>5
<1> HIDE DEF data
<1>11. item \in RtpItem /\ item.data = data /\ item.rx = rnow /\ item.at = at
  BY <1>2, <1>9, <1>10 DEF RtpItem
<1> HIDE DEF item
<1>12. /\ rtp'.busy = Append(busy, item) /\ rtp'.total = rtp.total + f.len /\ rtp'.ba = ba
       /\ rtp'.tsFirst = c.tsFirst /\ rtp'.wallFirst = c.wallFirst /\ rtp'.did = rtp.did
       /\ rtp'.ssrc = rtp.ssrc /\ rtp'.terminated = rtp.terminated
  BY <1>6, <1>7
<1>13. /\ rtp'.busy \in Seq(RtpItem) /\ Len(rtp'.busy) = Len(busy) + 1 /\ Len(busy) \in Nat
       /\ (\A i \in 1 .. Len(busy) : rtp'.busy[i] = busy[i]) /\ rtp'.busy[Len(busy) + 1] = item
  <2> HIDE DEF busy
  <2> QED BY <1>2, <1>11, <1>12, AppendProperties
<1>14. /\ rfound' \in Seq(RtpPlace) /\ Len(rfound') = Len(rfound) - 1 /\ rfound' # << >> /\ rfound'[1] = g
       /\ \A k \in 1 .. Len(rfound) - 1 : rfound'[k] = rfound[k + 1]
  <2>1. /\ rfound' \in Seq(RtpPlace) /\ Len(rfound') = Len(rfound) - 1
        /\ \A k \in 1 .. Len(rfound') : rfound'[k] = rfound[k + 1]
    BY <1>1, <1>2, <1>3, HeadTailProperties
  <2>2. 1 \in 1 .. Len(rfound) - 1
    BY <1>4
  <2> QED BY <1>4, <2>1, <2>2
<1>15. RtpTypes'
  <2>1. rtp' \in [busy : Seq(RtpItem), tsFirst : Int, wallFirst : Nat, total : Int, ba : Seq(RtpUnit),
                  ssrc : {-1, 0, 1, 2}, did : BOOLEAN, resetAt : Nat, running : BOOLEAN,
                  terminate : BOOLEAN, terminated : BOOLEAN]
    <3>1. Append(c.busy, item) \in Seq(RtpItem) /\ c.total + f.len \in Int
      BY <1>5, <1>6, <1>12, <1>13
    <3> QED BY <1>6, <1>7, <3>1
  <2> QED BY <1>1, <1>14, <2>1 DEF RtpInv, RtpTypes
<1>16. RtpBuffer'
  BY <1>1, <1>12 DEF RtpInv, RtpBuffer
<1>17. LaidOut(rfound', ba, rtp.ssrc)
  <2> SUFFICES ASSUME NEW k \in 1 .. Len(rfound')
               PROVE  /\ rfound'[k].first <= Len(ba)
                      /\ ba[rfound'[k].first][1] = "h" /\ ba[rfound'[k].first][2].ssrc = rtp.ssrc
                      /\ k = Len(rfound') => rfound'[k].len = 0
                      /\ k < Len(rfound') => /\ rfound'[k].len > 0
                                             /\ rfound'[k].first + rfound'[k].len = rfound'[k + 1].first
    BY DEF LaidOut
  <2>1. k + 1 \in 1 .. Len(rfound) /\ rfound'[k] = rfound[k + 1]
        /\ (k = Len(rfound') => k + 1 = Len(rfound))
        /\ (k < Len(rfound') => k + 1 < Len(rfound) /\ k + 1 \in 1 .. Len(rfound) - 1)
    BY <1>4, <1>14
  <2>2. k < Len(rfound') => rfound'[k + 1] = rfound[(k + 1) + 1]
    BY <1>14, <2>1
  <2> QED BY <1>3, <2>1, <2>2 DEF LaidOut
<1>18. RtpPlaces'
  <2>1. ASSUME ~rghost.many
        PROVE  Len(rfound') <= 2 /\ \A k \in 1 .. Len(rfound') : rfound'[k].ts = ba[rfound'[k].first][2].ts
    <3>1. Len(rfound) <= 2 /\ \A k \in 1 .. Len(rfound) : rfound[k].ts = ba[rfound[k].first][2].ts
      BY <1>1, <2>1 DEF RtpInv, RtpPlaces
    <3>2. \A k \in 1 .. Len(rfound') : k + 1 \in 1 .. Len(rfound) /\ rfound'[k] = rfound[k + 1]
      BY <1>4, <1>14
    <3>3. Len(rfound') <= 2
      BY <1>4, <1>14, <3>1
    <3> QED BY <3>1, <3>2, <3>3
  <2> QED BY <1>1, <1>12, <1>14, <1>17, <2>1 DEF RtpPlaces
<1>19. Unqueued = f.first /\ Unqueued' = g.first
  BY <1>1, <1>14 DEF Unqueued
<1>20. DataOf(rtp'.busy) = DataOf(busy) \o data
  <2> HIDE DEF busy
  <2> QED BY <1>2, <1>11, <1>12, DataOfAppend
<1>21. RtpBytes'
  <2> DEFINE x == rghost.out \o DataOf(rloc)
             y == DataOf(busy)
             z == SubSeq(ba, g.first, Len(ba))
  <2>1. x \in Seq(RtpUnit) /\ y \in Seq(RtpUnit) /\ x \o y \in Seq(RtpUnit)
    BY <1>2, BytesType
  <2>2. z \in Seq(RtpUnit)
    <3>1. \A i \in g.first .. Len(ba) : ba[i] \in RtpUnit
      <4> SUFFICES ASSUME NEW i \in g.first .. Len(ba) PROVE ba[i] \in RtpUnit
        OBVIOUS
      <4>1. i \in 1 .. Len(ba)
        BY <1>5
      <4> QED BY <1>2, <4>1, ElementOfSeq
    <3>2. g.first \in Int /\ Len(ba) \in Int
      BY <1>5
    <3> HIDE DEF g, ba
    <3> QED BY <3>1, <3>2, SubSeqProperties
  <2>3. SubSeq(ba, f.first, Len(ba)) = data \o z
    <3>1. /\ f.first \in 1 .. Len(ba) + 1 /\ f.first + f.len - 1 \in f.first - 1 .. Len(ba)
          /\ Len(ba) \in f.first + f.len - 1 .. Len(ba) /\ (f.first + f.len - 1) + 1 = g.first
      BY <1>5
    <3> DEFINE a == f.first
               b == f.first + f.len - 1
    <3>2. SubSeq(ba, a, b) \o SubSeq(ba, b + 1, Len(ba)) = SubSeq(ba, a, Len(ba))
      <4>1. a \in 1 .. Len(ba) + 1 /\ b \in a - 1 .. Len(ba) /\ Len(ba) \in b .. Len(ba)
        BY <3>1
      <4> HIDE DEF a, b, ba
      <4> QED BY <1>2, <4>1, ConcatAdjacentSubSeq
    <3>3. b + 1 = g.first
      BY <3>1
    <3> QED BY <3>2, <3>3 DEF data
  <2>4. (x \o y) \o SubSeq(ba, f.first, Len(ba)) = rghost.in
    BY <1>19 DEF RtpInv, RtpBytes
  <2> HIDE DEF x, y, z
  <2>5. data \in Seq(RtpUnit)
    BY <1>10
  <2>6. (x \o y) \o (data \o z) = (x \o (y \o data)) \o z
    <3> DEFINE d == data
    <3>1. x \in Seq(RtpUnit) /\ y \in Seq(RtpUnit) /\ d \in Seq(RtpUnit) /\ z \in Seq(RtpUnit)
      BY <2>1, <2>2, <2>5
    <3> HIDE DEF d, f, g, ba, busy
    <3> DEFINE xy == x \o y
    <3>2. xy \in Seq(RtpUnit)
      BY <2>1
    <3> HIDE DEF xy
    <3>3. xy \o (d \o z) = (xy \o d) \o z
      <4>1. xy \in Seq(RtpUnit) /\ d \in Seq(RtpUnit) /\ z \in Seq(RtpUnit)
        BY <3>1, <3>2
      <4> QED BY <4>1, ConcatAssociative
    <3>4. xy \o d = x \o (y \o d)
      BY <3>1, ConcatAssociative DEF xy
    <3> QED BY <3>3, <3>4 DEF d, xy
  <2>7. (x \o (y \o data)) \o z = rghost.in
    BY <2>3, <2>4, <2>6
  <2>8. DataOf(rtp'.busy) = y \o data
    BY <1>20 DEF y
  <2>9. SubSeq(rtp'.ba, Unqueued', Len(rtp'.ba)) = z
    BY <1>12, <1>19 DEF z
  <2>10. rghost'.out \o DataOf(rloc') = x /\ rghost'.in = rghost.in
    BY <1>1 DEF x
  <2> QED BY <2>7, <2>8, <2>9, <2>10 DEF RtpBytes
<1>22. RtpQueue'
  <2> DEFINE new == rtp'.busy
  <2>0. \A i \in 1 .. Len(busy) : busy[i] \in RtpItem /\ busy[i].at \in Int
    BY <1>2, ElementOfSeq, ItemFields
  <2>1. ASSUME NEW i \in 1 .. Len(new), NEW j \in 1 .. Len(new), i < j PROVE new[i].at <= new[j].at
    <3>1. i \in 1 .. Len(busy) /\ new[i] = busy[i]
      BY <1>13, <2>1
    <3>2. CASE j \in 1 .. Len(busy)
      BY <1>13, <2>1, <3>1, <3>2 DEF RtpInv, RtpQueue
    <3>3. CASE j \notin 1 .. Len(busy)
      <4>1. j = Len(busy) + 1 /\ new[j].at = at /\ busy # << >> /\ Len(busy) \in 1 .. Len(busy)
        BY <1>11, <1>13, <2>1, <3>1, <3>3
      <4>2. i = Len(busy) \/ i < Len(busy)
        BY <3>1
      <4>3. busy[i].at <= busy[Len(busy)].at
        BY <2>0, <3>1, <4>1, <4>2 DEF RtpInv, RtpQueue
      <4> QED BY <1>9, <2>0, <3>1, <4>1, <4>3
    <3> QED BY <3>2, <3>3
  <2>2. ASSUME NEW i \in 1 .. Len(new) PROVE new[i].data # << >> /\ new[i].rx <= rnow
    <3>1. CASE i \in 1 .. Len(busy)
      BY <1>13, <3>1 DEF RtpInv, RtpQueue
    <3>2. CASE i \notin 1 .. Len(busy)
      <4>1. i = Len(busy) + 1
        BY <1>13, <3>2
      <4>2. new[i] = item
        BY <1>13, <4>1
      <4> QED BY <1>2, <1>10, <1>11, <4>2
    <3> QED BY <3>1, <3>2
  <2> QED BY <1>1, <1>8, <1>12, <2>1, <2>2 DEF RtpQueue
<1>23. RtpFlags'
  BY <1>1, <1>12 DEF RtpInv, RtpFlags
<1> DEFINE n == ba[f.first][2].n
           m == ba[g.first][2].n
<1>24. /\ n \in Nat /\ m \in Nat /\ n < m /\ ba[f.first][2].ts \in 0 .. RtpModulus - 1
       /\ ba[g.first][2].ts \in 0 .. RtpModulus - 1 /\ f.first \in 1 .. Len(ba) /\ g.first \in 1 .. Len(ba)
  <2>1. f.first \in 1 .. Len(ba) /\ g.first \in 1 .. Len(ba)
    BY <1>5, <1>10
  <2>2. n < m
    BY <1>5, <1>10, <2>1 DEF RtpInv, RtpBuffer, Numbered
  <2> QED BY <1>2, <2>1, <2>2, BaFields
<1>25. ASSUME ~rghost.many
       PROVE  /\ Len(rfound) = 2 /\ f.ts = ba[f.first][2].ts /\ g.ts = ba[g.first][2].ts
              /\ c.tsFirst >= 0 /\ c.tsFirst <= f.ts /\ f.ts <= c.tsFirst + JumpLimit * n
              /\ \A i \in 1 .. Len(busy) : busy[i].data[1][2].n < n
  <2>1. /\ Len(rfound) <= 2 /\ \A k \in 1 .. Len(rfound) : rfound[k].ts = ba[rfound[k].first][2].ts
    BY <1>1, <1>25 DEF RtpInv, RtpPlaces
  <2>2. Len(rfound) = 2 /\ 1 \in 1 .. Len(rfound) /\ 2 \in 1 .. Len(rfound)
    <3> DEFINE l == Len(rfound)
    <3>1. l \in Nat /\ l >= 2 /\ l <= 2
      BY <1>4, <2>1
    <3> HIDE DEF l
    <3>2. l = 2 /\ 1 \in 1 .. l /\ 2 \in 1 .. l
      BY <3>1
    <3> QED BY <3>2 DEF l
  <2>3. f.ts = ba[f.first][2].ts /\ g.ts = ba[g.first][2].ts
    BY <2>1, <2>2
  <2>4. \A i \in 1 .. Len(busy) : busy[i].data[1][2].n < n
    BY <1>19, <1>25 DEF RtpInv, RtpBase
  <2>5. JumpLimit * n \in Nat
    BY <1>24, LimitGrows
  <2>6. CASE rtp.tsFirst # -1
    <3>1. /\ rtp.tsFirst >= 0
          /\ \/ rtp.did /\ Len(rfound) = 1
             \/ rtp.tsFirst <= ba[f.first][2].ts /\ ba[f.first][2].ts <= rtp.tsFirst + JumpLimit * n
      BY <1>19, <1>25, <2>6 DEF RtpInv, RtpBase
    <3>2. c.tsFirst = rtp.tsFirst
      BY <1>6, <2>6
    <3> QED BY <2>2, <2>3, <2>4, <3>1, <3>2
  <2>7. CASE rtp.tsFirst = -1
    <3>1. c.tsFirst = f.ts
      BY <1>6, <2>7
    <3> DEFINE t == f.ts
               e == JumpLimit * n
    <3>2. t >= 0 /\ t <= t /\ t <= t + e
      <4>1. t \in Nat /\ e \in Nat
        BY <1>5, <2>5
      <4> HIDE DEF t, e
      <4> QED BY <4>1
    <3> QED BY <2>2, <2>3, <2>4, <3>1, <3>2
  <2> QED BY <2>6, <2>7
<1>26. ASSUME ~rghost.many PROVE at <= rnow + RtpLatency + JumpLimit * n
  <2>0. JumpLimit * n \in Nat /\ RtpLatency \in Nat
    BY <1>24, LimitGrows, RtpSizes
  <2>1. CASE at = ScheduledOutput(c, f.ts)
    <3>1. PtsDiff(c.tsFirst, f.ts) = f.ts - c.tsFirst
      BY <1>5, <1>8, <1>25, <1>26 DEF PtsDiff
    <3> DEFINE e == JumpLimit * n
               t == f.ts
               b == c.tsFirst
               w == c.wallFirst
    <3>2. t \in Nat /\ b \in Int /\ w \in Nat /\ w <= rnow /\ t <= b + e /\ e \in Nat /\ rnow \in Nat
      BY <1>2, <1>5, <1>8, <1>25, <1>26, <2>0
    <3> HIDE DEF e, t, b, w
    <3>3. w + (t - b) + RtpLatency <= rnow + RtpLatency + e
      BY <2>0, <3>2
    <3>4. c.wallFirst + (f.ts - c.tsFirst) + RtpLatency <= rnow + RtpLatency + JumpLimit * n
      BY <3>3 DEF e, t, b, w
    <3> HIDE DEF n
    <3> QED BY <1>8, <2>1, <3>1, <3>4
  <2>2. CASE busy # << >> /\ at = busy[Len(busy)].at + 1
    <3> DEFINE l == busy[Len(busy)]
    <3>1. Len(busy) \in 1 .. Len(busy) /\ Len(busy) \in DOMAIN busy
      BY <1>2, <2>2
    <3>2. l \in RtpItem /\ l.rx <= rnow /\ l.data # << >> /\ l.data[1][2].n < n
      BY <1>2, <1>25, <1>26, <3>1, ElementOfSeq DEF RtpInv, RtpQueue
    <3>3. l.at <= l.rx + RtpLatency + JumpLimit * l.data[1][2].n
      BY <1>26, <3>1 DEF RtpInv, RtpDueSoon
    <3> DEFINE k == l.data[1][2].n
    <3>4. l.at = busy[Len(busy)].at
      OBVIOUS
    <3> HIDE DEF l
    <3>5. l.at \in Int /\ l.rx \in Nat /\ k \in Nat
      <4>1. l.data \in Seq(RtpUnit) /\ l.at \in Int /\ l.rx \in Nat
        BY <3>2, ItemFields
      <4>2. 1 \in 1 .. Len(l.data)
        BY <3>2, <4>1
      <4> QED BY <4>1, <4>2, UnitIn
    <3>6. JumpLimit * k \in Nat /\ JumpLimit * k + JumpLimit <= JumpLimit * n /\ JumpLimit >= 1 /\ JumpLimit \in Nat
      <4> HIDE DEF k, n
      <4> QED BY <1>24, <3>2, <3>5, LimitGrows DEF k
    <3> DEFINE d == JumpLimit * k
               e == JumpLimit * n
    <3>7. d \in Nat /\ e \in Nat /\ d + JumpLimit <= e /\ l.at <= l.rx + RtpLatency + d
      BY <2>0, <3>3, <3>6
    <3> HIDE DEF d, e, n, k
    <3> DEFINE a == l.at
               r == l.rx
    <3>9. a \in Int /\ r \in Nat /\ r <= rnow /\ rnow \in Nat /\ a <= r + RtpLatency + d /\ RtpLatency \in Nat
          /\ JumpLimit \in Nat /\ JumpLimit >= 1
      BY <1>2, <2>0, <3>2, <3>5, <3>6, <3>7
    <3> HIDE DEF a, r
    <3>8. a + 1 <= rnow + RtpLatency + e
      BY <3>7, <3>9
    <3> QED BY <2>2, <3>4, <3>8 DEF e, a
  <2> QED BY <1>9, <2>1, <2>2
<1>27. RtpDueSoon'
  <2> SUFFICES ASSUME ~rghost.many, NEW i \in 1 .. Len(rtp'.busy)
               PROVE  LET e == rtp'.busy[i] IN e.at <= e.rx + RtpLatency + JumpLimit * e.data[1][2].n
    <3>1. DOMAIN rtp'.busy = 1 .. Len(rtp'.busy)
      BY <1>13
    <3> QED BY <1>1, <3>1 DEF RtpDueSoon
  <2>1. CASE i \in 1 .. Len(busy)
    <3>1. rtp'.busy[i] = busy[i] /\ i \in DOMAIN busy
      BY <1>2, <1>13, <2>1
    <3> QED BY <3>1 DEF RtpInv, RtpDueSoon
  <2>2. CASE i \notin 1 .. Len(busy)
    <3>1. i = Len(busy) + 1
      BY <1>13, <2>2
    <3>2. rtp'.busy[i] = item
      BY <1>13, <3>1
    <3> QED BY <1>10, <1>11, <1>26, <3>2
  <2> QED BY <2>1, <2>2
<1>28. RtpBase'
  <2> SUFFICES ASSUME ~rghost.many
        PROVE /\ \A i \in 1 .. Len(rtp'.busy) : g.first <= Len(ba) /\ rtp'.busy[i].data[1][2].n < m
              /\ c.tsFirst >= 0 /\ g.first <= Len(ba)
              /\ \/ rtp.did
                 \/ c.tsFirst <= ba[g.first][2].ts /\ ba[g.first][2].ts <= c.tsFirst + JumpLimit * m
              /\ Len(rfound') = 1
    BY <1>1, <1>12, <1>19 DEF RtpBase
  <2>1. ASSUME NEW i \in 1 .. Len(rtp'.busy) PROVE rtp'.busy[i].data[1][2].n < m
    <3>1. CASE i \in 1 .. Len(busy)
      <4>1. rtp'.busy[i] = busy[i] /\ busy[i].data[1][2].n < n
        BY <1>13, <1>25, <3>1
      <4> DEFINE e == busy[i]
      <4>2. e \in RtpItem /\ e.data # << >>
        BY <1>2, <3>1, ElementOfSeq DEF RtpInv, RtpQueue
      <4> HIDE DEF e
      <4>3. e.data \in Seq(RtpUnit)
        BY <4>2, ItemFields
      <4>4. 1 \in 1 .. Len(e.data)
        BY <4>2, <4>3
      <4>5. e.data[1][2].n \in Nat
        BY <4>3, <4>4, UnitIn
      <4>6. e.data[1][2].n < n /\ rtp'.busy[i] = e
        BY <4>1 DEF e
      <4>7. n \in Nat /\ m \in Nat /\ n < m
        BY <1>24
      <4> HIDE DEF n, m
      <4>8. e.data[1][2].n < m
        BY <4>5, <4>6, <4>7
      <4> QED BY <4>6, <4>8
    <3>2. CASE i \notin 1 .. Len(busy)
      <4>1. i = Len(busy) + 1
        BY <1>13, <3>2
      <4>2. rtp'.busy[i] = item
        BY <1>13, <4>1
      <4> QED BY <1>10, <1>11, <1>24, <4>2
    <3> QED BY <3>1, <3>2
  <2>2. ASSUME ~rtp.did
        PROVE  c.tsFirst <= ba[g.first][2].ts /\ ba[g.first][2].ts <= c.tsFirst + JumpLimit * m
    <3>1. PtsDiff(f.ts, g.ts) <= JumpLimit
      BY <1>1, <1>25, <2>2 DEF RtpInv, RtpBase
    <3>2. /\ f.ts \in 0 .. RtpModulus - 1 /\ g.ts \in 0 .. RtpModulus - 1 /\ g.ts = ba[g.first][2].ts
          /\ c.tsFirst <= f.ts /\ f.ts <= c.tsFirst + JumpLimit * n
      BY <1>24, <1>25
    <3>3. f.ts <= g.ts /\ g.ts <= f.ts + JumpLimit
      <4> DEFINE x == f.ts
                 y == g.ts
      <4>1. x \in 0 .. RtpModulus - 1 /\ y \in 0 .. RtpModulus - 1 /\ PtsDiff(x, y) <= JumpLimit
        BY <3>1, <3>2
      <4> HIDE DEF x, y
      <4>2. x <= y /\ y <= x + JumpLimit
        BY <4>1, PtsNear
      <4> QED BY <4>2 DEF x, y
    <3> DEFINE d == JumpLimit * n
               e == JumpLimit * m
    <3>4. d \in Nat /\ e \in Nat /\ d + JumpLimit <= e /\ JumpLimit \in Nat
      <4> HIDE DEF n, m
      <4> QED BY <1>24, LimitGrows
    <3>5. f.ts <= c.tsFirst + d
      BY <3>2
    <3> HIDE DEF d, e
    <3> DEFINE x == f.ts
               y == g.ts
               b == c.tsFirst
    <3>6. x \in Nat /\ y \in Nat /\ b \in Int /\ b <= x /\ x <= b + d /\ x <= y /\ y <= x + JumpLimit
      BY <1>5, <1>8, <3>2, <3>3, <3>5
    <3> HIDE DEF x, y, b
    <3>7. b <= y /\ y <= b + e
      BY <3>4, <3>6
    <3>8. y = ba[g.first][2].ts
      BY <3>2 DEF y
    <3> QED BY <3>7, <3>8 DEF e, b
  <2>3. Len(rfound') = 1
    BY <1>14, <1>25
  <2> QED BY <1>5, <1>25, <2>1, <2>2, <2>3
<1>29. RtpSizeIsHeld' /\ RtpFreedAlone'
  <2>1. DataOf(rloc) \in Seq(RtpUnit) /\ DataOf(busy) \in Seq(RtpUnit)
    BY <1>2, BytesType
  <2> DEFINE y == DataOf(busy)
  <2> HIDE DEF y
  <2>2. Len(y \o data) = Len(y) + f.len
    BY <1>10, <2>1 DEF y
  <2>3. Len(DataOf(rloc)) \in Nat /\ Len(y) \in Nat
    BY <2>1 DEF y
  <2>4. ~rghost.late => rtp.total = Len(DataOf(rloc)) + Len(y)
    BY DEF RtpInv, RtpSizeIsHeld, y
  <2>5. ~rghost.late => rtp.total + f.len = Len(DataOf(rloc)) + Len(y \o data)
    BY <1>5, <2>2, <2>3, <2>4
  <2>6. DataOf(rtp'.busy) = y \o data
    BY <1>20 DEF y
  <2> QED BY <1>1, <1>12, <2>5, <2>6 DEF RtpInv, RtpSizeIsHeld, RtpFreedAlone
<1> QED BY <1>15, <1>16, <1>18, <1>21, <1>22, <1>23, <1>27, <1>28, <1>29 DEF RtpInv

LEMMA LaidLast ==
  ASSUME NEW found \in Seq(RtpPlace), NEW ba \in Seq(RtpUnit), NEW ssrc,
         found # << >>, LaidOut(found, ba, ssrc), found[1].len = 0
  PROVE  /\ Len(found) = 1 /\ found[1].first \in 1 .. Len(ba)
         /\ ba[found[1].first][1] = "h" /\ ba[found[1].first][2].ssrc = ssrc
<1>1. Len(found) \in Nat /\ 1 \in 1 .. Len(found)
  OBVIOUS
<1>2. 1 < Len(found) => found[1].len > 0
  BY <1>1 DEF LaidOut
<1>3. found[1].first <= Len(ba) /\ ba[found[1].first][1] = "h" /\ ba[found[1].first][2].ssrc = ssrc
  BY <1>1 DEF LaidOut
<1>4. found[1] \in RtpPlace
  BY <1>1, ElementOfSeq
<1>5. found[1].first \in Nat \ {0}
  BY <1>4, PlaceFields
<1>6. found[1].first \in 1 .. Len(ba)
  <2> DEFINE p == found[1].first
             b == Len(ba)
  <2>1. p \in Nat \ {0} /\ b \in Nat /\ p <= b
    BY <1>3, <1>5
  <2> HIDE DEF p, b
  <2>2. p \in 1 .. b
    BY <2>1
  <2> QED BY <2>2 DEF p, b
<1>7. Len(found) = 1
  <2> DEFINE l == Len(found)
  <2>1. l \in Nat /\ l >= 1 /\ ~(1 < l)
    BY <1>1, <1>2
  <2> HIDE DEF l
  <2>2. l = 1
    BY <2>1
  <2> QED BY <2>2 DEF l
<1> QED BY <1>3, <1>6, <1>7

LEMMA Trimmed ==
  ASSUME NEW ba \in Seq(RtpUnit), NEW p \in 1 .. Len(ba)
  PROVE  LET t == Trim(ba, p)
         IN  /\ t \in Seq(RtpUnit) /\ Len(t) = Len(ba) - p + 1 /\ t[1] = ba[p] /\ 1 \in 1 .. Len(t)
             /\ \A i \in 1 .. Len(t) : t[i] = ba[i + p - 1] /\ i + p - 1 \in 1 .. Len(ba)
             /\ SubSeq(t, 1, Len(t)) = t
<1> DEFINE t == SubSeq(ba, p, Len(ba))
<1>1. \A i \in p .. Len(ba) : ba[i] \in RtpUnit
  <2> SUFFICES ASSUME NEW i \in p .. Len(ba) PROVE ba[i] \in RtpUnit
    OBVIOUS
  <2>1. i \in 1 .. Len(ba)
    OBVIOUS
  <2> QED BY <2>1, ElementOfSeq
<1>2. p \in Int /\ Len(ba) \in Int /\ p <= Len(ba)
  OBVIOUS
<1>3. /\ t \in Seq(RtpUnit) /\ Len(t) = Len(ba) - p + 1
      /\ \A i \in 1 .. Len(ba) - p + 1 : t[i] = ba[p + i - 1]
  BY <1>1, <1>2, SubSeqProperties
<1> HIDE DEF t
<1>4. 1 \in 1 .. Len(t) /\ 1 \in 1 .. Len(ba) - p + 1 /\ p + 1 - 1 = p
  BY <1>2, <1>3
<1>5. t[1] = ba[p]
  BY <1>3, <1>4
<1>6. \A i \in 1 .. Len(t) : t[i] = ba[i + p - 1] /\ i + p - 1 \in 1 .. Len(ba)
  <2> SUFFICES ASSUME NEW i \in 1 .. Len(t) PROVE t[i] = ba[i + p - 1] /\ i + p - 1 \in 1 .. Len(ba)
    OBVIOUS
  <2>1. i \in 1 .. Len(ba) - p + 1 /\ p + i - 1 = i + p - 1 /\ i + p - 1 \in 1 .. Len(ba)
    BY <1>2, <1>3
  <2> QED BY <1>3, <2>1
<1>7. SubSeq(t, 1, Len(t)) = t
  BY <1>3, SubSeqFull
<1>8. t = Trim(ba, p)
  BY DEF t, Trim
<1> QED BY <1>3, <1>4, <1>5, <1>6, <1>7, <1>8

(* The end of a write: the byte array begins with the frame that was not   *)
(* queued.                                                                 *)
LEMMA WriteEndKeeps == ASSUME RtpInv, RtpWriteEnd PROVE RtpInv'
<1> DEFINE p == rfound[1].first
           ba == rtp.ba
           t == Trim(ba, p)
           late == rnow >= rtp.resetAt + RebaseTime
<1>1. /\ rpc = "frames" /\ rfound[1].len = 0 /\ rpc' = "idle" /\ rfound' = << >>
      /\ rtp' = [rtp EXCEPT !.ba = t, !.did = FALSE, !.resetAt = IF late THEN rnow ELSE @,
                            !.tsFirst = IF late \/ rtp.did THEN -1 ELSE @]
      /\ UNCHANGED <<rtpc, rloc, rsend, rnow, rghost>>
  BY DEF RtpWriteEnd
<1>2. RtpTypes /\ ba \in Seq(RtpUnit) /\ rfound \in Seq(RtpPlace) /\ rnow \in Nat
  BY RtpFields DEF RtpInv
<1>3. rfound # << >> /\ LaidOut(rfound, ba, rtp.ssrc)
  BY <1>1 DEF RtpInv, RtpPlaces
<1>4. Len(rfound) = 1 /\ p \in 1 .. Len(ba) /\ ba[p][1] = "h" /\ ba[p][2].ssrc = rtp.ssrc
  <2> HIDE DEF ba
  <2> QED BY <1>1, <1>2, <1>3, LaidLast
<1>5. /\ t \in Seq(RtpUnit) /\ Len(t) = Len(ba) - p + 1 /\ t[1] = ba[p] /\ 1 \in 1 .. Len(t)
      /\ \A i \in 1 .. Len(t) : t[i] = ba[i + p - 1] /\ i + p - 1 \in 1 .. Len(ba)
      /\ SubSeq(t, 1, Len(t)) = t
  <2> HIDE DEF p, ba
  <2> QED BY <1>2, <1>4, Trimmed
<1>6. ba[p] \in RtpUnit /\ ba[p][2].ssrc \in {1, 2}
  <2>1. ba[p] \in RtpUnit
    <3> HIDE DEF p, ba
    <3> QED BY <1>2, <1>4, ElementOfSeq
  <2> HIDE DEF p, ba
  <2> QED BY <2>1 DEF RtpUnit, RtpFrame
<1>7. /\ rtp'.busy = rtp.busy /\ rtp'.wallFirst = rtp.wallFirst /\ rtp'.total = rtp.total /\ rtp'.ba = t
      /\ rtp'.ssrc = rtp.ssrc /\ rtp'.did = FALSE /\ rtp'.terminated = rtp.terminated
      /\ rtp'.tsFirst = (IF late \/ rtp.did THEN -1 ELSE rtp.tsFirst)
  <2> HIDE DEF t, late
  <2> QED BY <1>1, <1>2 DEF RtpTypes
<1>8. RtpTypes'
  <2>1. rtp' \in [busy : Seq(RtpItem), tsFirst : Int, wallFirst : Nat, total : Int, ba : Seq(RtpUnit),
                  ssrc : {-1, 0, 1, 2}, did : BOOLEAN, resetAt : Nat, running : BOOLEAN,
                  terminate : BOOLEAN, terminated : BOOLEAN]
    <3> DEFINE at == IF late THEN rnow ELSE rtp.resetAt
               first == IF late \/ rtp.did THEN -1 ELSE rtp.tsFirst
    <3>1. at \in Nat /\ first \in Int
      BY <1>2, RtpFields
    <3>2. rtp' = [rtp EXCEPT !.ba = t, !.did = FALSE, !.resetAt = at, !.tsFirst = first]
      <4> HIDE DEF t, late
      <4> QED BY <1>1
    <3>3. t \in Seq(RtpUnit)
      BY <1>5
    <3> HIDE DEF t, at, first
    <3> QED BY <1>2, <3>1, <3>2, <3>3 DEF RtpTypes
  <2> QED BY <1>1, <1>2, <2>1 DEF RtpTypes
<1> HIDE DEF t
<1>9. RtpBuffer'
  <2>0. Len(t) \in Nat /\ Len(ba) \in Nat /\ p \in Nat
    BY <1>2, <1>4, <1>5
  <2>1. Numbered(ba) /\ \A i \in 1 .. Len(ba) : ba[i][2].n <= rsend.last.n
    BY DEF RtpInv, RtpBuffer
  <2>2. Numbered(t)
    <3> SUFFICES ASSUME NEW i \in 1 .. Len(t), NEW j \in 1 .. Len(t), i < j
                 PROVE  t[i][2].n <= t[j][2].n /\ (t[j][1] = "h" => t[i][2].n < t[j][2].n)
      BY DEF Numbered
    <3> DEFINE a == i + p - 1
               b == j + p - 1
    <3>1. t[i] = ba[a] /\ t[j] = ba[b] /\ a \in 1 .. Len(ba) /\ b \in 1 .. Len(ba)
      BY <1>5
    <3>2. a < b
      BY <2>0
    <3> HIDE DEF a, b
    <3> QED BY <2>1, <3>1, <3>2 DEF Numbered
  <2>3. \A i \in 1 .. Len(t) : t[i][2].n <= rsend.last.n
    BY <1>5, <2>1
  <2>4. \A i \in 1 .. Len(rsend.rest) : rsend.rest[i] = <<"p", rsend.last>>
    BY DEF RtpInv, RtpBuffer
  <2>5. rtp.ssrc # -1
    BY <1>4, <1>6
  <2>6. t # << >>
    BY <1>5
  <2> QED BY <1>1, <1>4, <1>5, <1>7, <2>2, <2>3, <2>4, <2>5, <2>6 DEF RtpBuffer
<1>10. RtpPlaces'
  BY <1>1 DEF RtpPlaces
<1>11. Unqueued = p /\ Unqueued' = 1
  BY <1>1 DEF Unqueued
<1>12. RtpBytes'
  <2>1. rghost.out \o DataOf(rloc) \o DataOf(rtp.busy) \o t = rghost.in
    BY <1>11 DEF RtpInv, RtpBytes, t, Trim
  <2>2. SubSeq(rtp'.ba, Unqueued', Len(rtp'.ba)) = t
    BY <1>5, <1>7, <1>11
  <2> QED BY <1>1, <1>7, <2>1, <2>2 DEF RtpBytes
<1>13. RtpQueue'
  BY <1>1, <1>7 DEF RtpInv, RtpQueue
<1>14. RtpFlags'
  BY <1>1, <1>7 DEF RtpInv, RtpFlags
<1>15. RtpBase'
  <2> SUFFICES ASSUME ~rghost.many
        PROVE /\ \A i \in 1 .. Len(rtp.busy) : 1 <= Len(t) /\ rtp.busy[i].data[1][2].n < t[1][2].n
              /\ rtp'.tsFirst # -1 =>
                   /\ rtp'.tsFirst >= 0 /\ 1 <= Len(t)
                   /\ rtp'.tsFirst <= t[1][2].ts /\ t[1][2].ts <= rtp'.tsFirst + JumpLimit * t[1][2].n
    BY <1>1, <1>7, <1>11 DEF RtpBase
  <2>1. 1 <= Len(t)
    BY <1>5
  <2>2. \A i \in 1 .. Len(rtp.busy) : rtp.busy[i].data[1][2].n < t[1][2].n
    BY <1>5, <1>11 DEF RtpInv, RtpBase
  <2>3. ASSUME rtp'.tsFirst # -1
        PROVE  /\ rtp'.tsFirst >= 0
               /\ rtp'.tsFirst <= t[1][2].ts /\ t[1][2].ts <= rtp'.tsFirst + JumpLimit * t[1][2].n
    <3>1. ~rtp.did /\ rtp'.tsFirst = rtp.tsFirst
      BY <1>7, <2>3
    <3>2. /\ rtp.tsFirst >= 0
          /\ rtp.tsFirst <= ba[p][2].ts /\ ba[p][2].ts <= rtp.tsFirst + JumpLimit * ba[p][2].n
      BY <1>11, <2>3, <3>1 DEF RtpInv, RtpBase
    <3> QED BY <1>5, <3>1, <3>2
  <2> QED BY <2>1, <2>2, <2>3
<1>16. RtpDueSoon' /\ RtpSizeIsHeld' /\ RtpFreedAlone'
  BY <1>1, <1>7 DEF RtpInv, RtpDueSoon, RtpSizeIsHeld, RtpFreedAlone
<1> QED BY <1>8, <1>9, <1>10, <1>12, <1>13, <1>14, <1>15, <1>16 DEF RtpInv

(* A step that leaves the bytes, the times and the base alone.             *)
LEMMA RestIsKept ==
  ASSUME RtpInv, RtpTypes',
         /\ rtp'.busy = rtp.busy /\ rtp'.tsFirst = rtp.tsFirst /\ rtp'.wallFirst = rtp.wallFirst
         /\ rtp'.total = rtp.total /\ rtp'.ba = rtp.ba /\ rtp'.ssrc = rtp.ssrc /\ rtp'.did = rtp.did,
         /\ rfound' = rfound /\ rsend' = rsend /\ rloc' = rloc /\ rnow' \in Nat /\ rnow <= rnow',
         /\ rghost'.in = rghost.in /\ rghost'.out = rghost.out /\ rghost'.many = rghost.many
         /\ rghost'.late = rghost.late,
         rpc' = rpc \/ (rpc # "frames" /\ rpc' # "frames"),
         RtpFlags', RtpFreedAlone'
  PROVE  RtpInv'
<1>1. (rpc' = "frames") <=> (rpc = "frames")
  OBVIOUS
<1>2. Unqueued' = Unqueued
  BY <1>1 DEF Unqueued
<1>3. RtpBuffer'
  BY DEF RtpInv, RtpBuffer
<1>4. RtpPlaces'
  BY <1>1 DEF RtpInv, RtpPlaces
<1>5. RtpBytes'
  BY <1>2 DEF RtpInv, RtpBytes
<1>6. RtpQueue'
  <2>1. rtp.busy \in Seq(RtpItem) /\ rnow \in Nat /\ rtp.wallFirst \in Nat
    BY RtpFields DEF RtpInv
  <2>2. \A i \in 1 .. Len(rtp.busy) : rtp.busy[i].rx \in Nat
    BY <2>1, ElementOfSeq, ItemFields
  <2>3. \A i \in 1 .. Len(rtp.busy) : rtp.busy[i].data # << >> /\ rtp.busy[i].rx <= rnow
    BY DEF RtpInv, RtpQueue
  <2>4. \A i \in 1 .. Len(rtp.busy) : rtp.busy[i].rx <= rnow'
    BY <2>1, <2>2, <2>3
  <2>5. rtp.wallFirst <= rnow'
    BY <2>1 DEF RtpInv, RtpQueue
  <2>6. \A i, j \in 1 .. Len(rtp.busy) : i < j => rtp.busy[i].at <= rtp.busy[j].at
    BY DEF RtpInv, RtpQueue
  <2> QED BY <2>3, <2>4, <2>5, <2>6 DEF RtpQueue
<1>7. RtpBase'
  BY <1>1, <1>2 DEF RtpInv, RtpBase
<1>8. RtpDueSoon' /\ RtpSizeIsHeld'
  BY DEF RtpInv, RtpDueSoon, RtpSizeIsHeld
<1> QED BY <1>3, <1>4, <1>5, <1>6, <1>7, <1>8 DEF RtpInv

LEMMA FreeKeeps == ASSUME RtpInv, RtpFree PROVE RtpInv'
<1>1. /\ rpc = "idle" /\ rpc' = (IF rtp.running THEN "wait" ELSE "freed")
      /\ rtp' = (IF rtp.running THEN [rtp EXCEPT !.terminated = FALSE, !.terminate = TRUE] ELSE rtp)
      /\ rghost' = [rghost EXCEPT !.raced = ~rtp.running]
      /\ UNCHANGED <<rfound, rtpc, rloc, rsend, rnow>>
  BY DEF RtpFree
<1>2. RtpTypes
  BY DEF RtpInv
<1>3. RtpTypes'
  <2>1. rtp' \in [busy : Seq(RtpItem), tsFirst : Int, wallFirst : Nat, total : Int, ba : Seq(RtpUnit),
                  ssrc : {-1, 0, 1, 2}, did : BOOLEAN, resetAt : Nat, running : BOOLEAN,
                  terminate : BOOLEAN, terminated : BOOLEAN]
    BY <1>1, <1>2 DEF RtpTypes
  <2>2. rghost' \in [in : Seq(RtpUnit), out : Seq(RtpUnit), many : BOOLEAN, late : BOOLEAN, raced : BOOLEAN]
    <3>1. (~rtp.running) \in BOOLEAN
      OBVIOUS
    <3> QED BY <1>1, <1>2, <3>1 DEF RtpTypes
  <2> QED BY <1>1, <1>2, <2>1, <2>2 DEF RtpTypes
<1>4. /\ rtp'.busy = rtp.busy /\ rtp'.tsFirst = rtp.tsFirst /\ rtp'.wallFirst = rtp.wallFirst
      /\ rtp'.total = rtp.total /\ rtp'.ba = rtp.ba /\ rtp'.ssrc = rtp.ssrc /\ rtp'.did = rtp.did
      /\ rtp'.terminated => rtp.terminated
  BY <1>1, <1>2 DEF RtpTypes
<1>5. /\ rghost'.in = rghost.in /\ rghost'.out = rghost.out /\ rghost'.many = rghost.many
      /\ rghost'.late = rghost.late /\ rghost'.raced = ~rtp.running
  BY <1>1, <1>2 DEF RtpTypes
<1>6. rpc' # "frames" /\ rnow' = rnow /\ rnow \in Nat /\ rnow <= rnow'
  BY <1>1, <1>2 DEF RtpTypes
<1>7. RtpFlags'
  BY <1>1, <1>4, <1>6 DEF RtpInv, RtpFlags
<1>8. RtpFreedAlone'
  BY <1>1, <1>5 DEF RtpFreedAlone
<1> QED BY <1>1, <1>3, <1>4, <1>5, <1>6, <1>7, <1>8, RestIsKept

LEMMA FreeEndKeeps == ASSUME RtpInv, RtpFreeEnd PROVE RtpInv'
<1>1. /\ rpc = "wait" /\ rtp.terminated /\ rpc' = "freed"
      /\ UNCHANGED <<rtp, rfound, rtpc, rloc, rsend, rnow, rghost>>
  BY DEF RtpFreeEnd
<1>2. RtpTypes' /\ rnow' \in Nat /\ rnow <= rnow'
  BY <1>1 DEF RtpInv, RtpTypes
<1>3. RtpFlags'
  BY <1>1 DEF RtpInv, RtpFlags
<1>4. RtpFreedAlone'
  BY <1>1 DEF RtpInv, RtpFlags, RtpFreedAlone
<1> QED BY <1>1, <1>2, <1>3, <1>4, RestIsKept

LEMMA ThreadStartKeeps == ASSUME RtpInv, RtpThreadStart, rpc # "freed" PROVE RtpInv'
<1>1. /\ rtpc = "new" /\ rtpc' = "loop" /\ rtp' = [rtp EXCEPT !.terminated = FALSE, !.running = TRUE]
      /\ UNCHANGED <<rpc, rfound, rloc, rsend, rnow, rghost>>
  BY DEF RtpThreadStart
<1>2. /\ rtp'.busy = rtp.busy /\ rtp'.tsFirst = rtp.tsFirst /\ rtp'.wallFirst = rtp.wallFirst
      /\ rtp'.total = rtp.total /\ rtp'.ba = rtp.ba /\ rtp'.ssrc = rtp.ssrc /\ rtp'.did = rtp.did
      /\ rtp'.terminated = FALSE
  BY <1>1 DEF RtpInv, RtpTypes
<1>3. RtpTypes' /\ rnow' \in Nat /\ rnow <= rnow'
  <2>1. rtp' \in [busy : Seq(RtpItem), tsFirst : Int, wallFirst : Nat, total : Int, ba : Seq(RtpUnit),
                  ssrc : {-1, 0, 1, 2}, did : BOOLEAN, resetAt : Nat, running : BOOLEAN,
                  terminate : BOOLEAN, terminated : BOOLEAN]
    BY <1>1 DEF RtpInv, RtpTypes
  <2>2. rnow \in Nat
    BY DEF RtpInv, RtpTypes
  <2>3. RtpTypes'
    BY <1>1, <2>1 DEF RtpInv, RtpTypes
  <2> QED BY <1>1, <2>2, <2>3
<1>4. RtpFlags'
  BY <1>1, <1>2 DEF RtpInv, RtpFlags
<1>5. RtpFreedAlone'
  BY <1>1 DEF RtpFreedAlone
<1> QED BY <1>1, <1>2, <1>3, <1>4, <1>5, RestIsKept

LEMMA ThreadEndKeeps == ASSUME RtpInv, RtpThreadEnd PROVE RtpInv'
<1>1. /\ rtpc = "loop" /\ rtpc' = "done" /\ rtp' = [rtp EXCEPT !.running = TRUE, !.terminated = TRUE]
      /\ UNCHANGED <<rpc, rfound, rloc, rsend, rnow, rghost>>
  BY DEF RtpThreadEnd
<1>2. /\ rtp'.busy = rtp.busy /\ rtp'.tsFirst = rtp.tsFirst /\ rtp'.wallFirst = rtp.wallFirst
      /\ rtp'.total = rtp.total /\ rtp'.ba = rtp.ba /\ rtp'.ssrc = rtp.ssrc /\ rtp'.did = rtp.did
  BY <1>1 DEF RtpInv, RtpTypes
<1>3. RtpTypes' /\ rnow' \in Nat /\ rnow <= rnow'
  <2>1. rtp' \in [busy : Seq(RtpItem), tsFirst : Int, wallFirst : Nat, total : Int, ba : Seq(RtpUnit),
                  ssrc : {-1, 0, 1, 2}, did : BOOLEAN, resetAt : Nat, running : BOOLEAN,
                  terminate : BOOLEAN, terminated : BOOLEAN]
    BY <1>1 DEF RtpInv, RtpTypes
  <2>2. rnow \in Nat
    BY DEF RtpInv, RtpTypes
  <2>3. RtpTypes'
    BY <1>1, <2>1 DEF RtpInv, RtpTypes
  <2> QED BY <1>1, <2>2, <2>3
<1>4. RtpFlags'
  BY <1>1, <1>2 DEF RtpInv, RtpFlags
<1>5. RtpFreedAlone'
  BY <1>1 DEF RtpFreedAlone
<1> QED BY <1>1, <1>2, <1>3, <1>4, <1>5, RestIsKept

LEMMA TickKeeps == ASSUME RtpInv, RtpTick PROVE RtpInv'
<1>1. rnow' = rnow + 1 /\ UNCHANGED <<rtp, rpc, rfound, rtpc, rloc, rsend, rghost>>
  BY DEF RtpTick
<1>2. RtpTypes' /\ rnow' \in Nat /\ rnow <= rnow'
  BY <1>1 DEF RtpInv, RtpTypes
<1>3. RtpFlags' /\ RtpFreedAlone'
  BY <1>1 DEF RtpInv, RtpFlags, RtpFreedAlone
<1> QED BY <1>1, <1>2, <1>3, RestIsKept

(* A reset drops the queue; the byte array and what the thread holds stay. *)
LEMMA ResetKeeps == ASSUME RtpInv, RtpReset PROVE RtpInv'
<1> DEFINE ba == rtp.ba
           x == rghost.out \o DataOf(rloc)
           y == DataOf(rtp.busy)
           kept == Len(rghost.out) + Len(DataOf(rloc))
           in == SubSeq(rghost.in, 1, kept) \o ba
<1>1. /\ rpc = "idle" /\ rtp' = [rtp EXCEPT !.busy = << >>, !.wallFirst = 0, !.tsFirst = -1, !.total = 0]
      /\ rghost' = [rghost EXCEPT !.late = @ \/ rloc # << >>, !.in = in]
      /\ UNCHANGED <<rpc, rfound, rtpc, rloc, rsend, rnow>>
  BY DEF RtpReset, DropQueue
<1>2. RtpTypes /\ ba \in Seq(RtpUnit) /\ rnow \in Nat /\ rghost.late \in BOOLEAN
  BY RtpFields DEF RtpInv
<1>3. /\ rghost.out \in Seq(RtpUnit) /\ DataOf(rloc) \in Seq(RtpUnit) /\ x \in Seq(RtpUnit) /\ y \in Seq(RtpUnit)
      /\ x \o y \in Seq(RtpUnit)
  BY <1>2, BytesType
<1>4. SubSeq(ba, 1, Len(ba)) = ba
  <2> HIDE DEF ba
  <2> QED BY <1>2, SubSeqFull
<1>5. Unqueued = 1 /\ Unqueued' = 1
  BY <1>1 DEF Unqueued
<1>6. rghost.in = (x \o y) \o ba
  BY <1>4, <1>5 DEF RtpInv, RtpBytes
<1>7. kept = Len(x) /\ Len(x) \in Nat
  BY <1>3, ConcatProperties
<1>8. in = x \o ba
  <2> HIDE DEF x, y, ba, kept
  <2> DEFINE z == y \o ba
  <2>1. x \in Seq(RtpUnit) /\ y \in Seq(RtpUnit) /\ ba \in Seq(RtpUnit)
    BY <1>2, <1>3
  <2>2. (x \o y) \o ba = x \o z
    BY <2>1, ConcatAssociative
  <2>3. z \in Seq(RtpUnit)
    BY <2>1, ConcatProperties
  <2> HIDE DEF z
  <2> DEFINE u == x \o z
             v == SubSeq(u, 1, Len(x))
  <2>4. /\ u \in Seq(RtpUnit) /\ Len(u) = Len(x) + Len(z) /\ Len(z) \in Nat
        /\ \A i \in 1 .. Len(x) + Len(z) : u[i] = IF i <= Len(x) THEN x[i] ELSE z[i - Len(x)]
    <3>1. x \in Seq(RtpUnit) /\ z \in Seq(RtpUnit)
      BY <2>1, <2>3
    <3> QED BY <3>1, ConcatProperties
  <2> HIDE DEF u
  <2>5. \A i \in 1 .. Len(x) : u[i] \in RtpUnit /\ u[i] = x[i]
    <3> SUFFICES ASSUME NEW i \in 1 .. Len(x) PROVE u[i] \in RtpUnit /\ u[i] = x[i]
      OBVIOUS
    <3>1. i \in 1 .. Len(x) + Len(z) /\ i <= Len(x)
      BY <1>7, <2>4
    <3>2. x[i] \in RtpUnit
      BY <2>1, ElementOfSeq
    <3> QED BY <2>4, <3>1, <3>2
  <2>6. v \in Seq(RtpUnit) /\ Len(v) = Len(x) /\ \A i \in 1 .. Len(x) : v[i] = u[i]
    <3> DEFINE l == Len(x)
    <3>1. l \in Nat /\ \A i \in 1 .. l : u[i] \in RtpUnit
      BY <1>7, <2>5
    <3> HIDE DEF l
    <3>2. /\ SubSeq(u, 1, l) \in Seq(RtpUnit)
          /\ Len(SubSeq(u, 1, l)) = (IF 1 <= l THEN l - 1 + 1 ELSE 0)
          /\ \A i \in 1 .. l - 1 + 1 : SubSeq(u, 1, l)[i] = u[1 + i - 1]
      BY <3>1, SubSeqProperties
    <3>3. (IF 1 <= l THEN l - 1 + 1 ELSE 0) = l /\ l - 1 + 1 = l /\ \A i \in 1 .. l : 1 + i - 1 = i
      BY <3>1
    <3> QED BY <3>2, <3>3 DEF l
  <2> HIDE DEF v
  <2>7. v = x
    <3>1. \A i \in 1 .. Len(v) : v[i] = x[i]
      BY <2>5, <2>6
    <3> QED BY <2>1, <2>6, <3>1, SeqEqual
  <2>8. in = v \o ba
    BY <1>6, <1>7, <2>2 DEF u, v
  <2> QED BY <2>7, <2>8
<1>9. in \in Seq(RtpUnit)
  <2> HIDE DEF x, ba, in
  <2>1. x \in Seq(RtpUnit) /\ ba \in Seq(RtpUnit)
    BY <1>2, <1>3
  <2> QED BY <1>8, <2>1, ConcatProperties
<1> HIDE DEF in
<1>10. /\ rtp'.busy = << >> /\ rtp'.tsFirst = -1 /\ rtp'.wallFirst = 0 /\ rtp'.total = 0
       /\ rtp'.ba = ba /\ rtp'.ssrc = rtp.ssrc /\ rtp'.did = rtp.did /\ rtp'.terminated = rtp.terminated
  BY <1>1, <1>2 DEF RtpTypes
<1>11. /\ rghost'.in = in /\ rghost'.out = rghost.out /\ rghost'.many = rghost.many /\ rghost'.raced = rghost.raced
       /\ rghost'.late = (rghost.late \/ rloc # << >>)
  BY <1>1, <1>2 DEF RtpTypes
<1>12. RtpTypes'
  <2>1. rtp' \in [busy : Seq(RtpItem), tsFirst : Int, wallFirst : Nat, total : Int, ba : Seq(RtpUnit),
                  ssrc : {-1, 0, 1, 2}, did : BOOLEAN, resetAt : Nat, running : BOOLEAN,
                  terminate : BOOLEAN, terminated : BOOLEAN]
    <3> DEFINE none == << >>
    <3>1. none \in Seq(RtpItem) /\ -1 \in Int /\ 0 \in Nat /\ 0 \in Int
      OBVIOUS
    <3>2. rtp' = [rtp EXCEPT !.busy = none, !.wallFirst = 0, !.tsFirst = -1, !.total = 0]
      BY <1>1
    <3> HIDE DEF none
    <3> QED BY <1>2, <3>1, <3>2 DEF RtpTypes
  <2>2. rghost' \in [in : Seq(RtpUnit), out : Seq(RtpUnit), many : BOOLEAN, late : BOOLEAN, raced : BOOLEAN]
    <3>1. (rghost.late \/ rloc # << >>) \in BOOLEAN
      OBVIOUS
    <3> QED BY <1>1, <1>2, <1>9, <3>1 DEF RtpTypes
  <2> QED BY <1>1, <1>2, <2>1, <2>2 DEF RtpTypes
<1>13. RtpBuffer'
  BY <1>1, <1>10 DEF RtpInv, RtpBuffer
<1>14. RtpPlaces'
  BY <1>1 DEF RtpPlaces
<1>15. DataOf(rtp'.busy) = << >>
  BY <1>10, DataOfNone
<1>16. RtpBytes'
  <2>1. rghost'.out \o DataOf(rloc') = x
    BY <1>1, <1>11
  <2>2. SubSeq(rtp'.ba, Unqueued', Len(rtp'.ba)) = ba
    BY <1>4, <1>5, <1>10
  <2> HIDE DEF x
  <2>3. x \o << >> = x
    <3>1. x \in Seq(RtpUnit)
      BY <1>3
    <3> QED BY <3>1
  <2> QED BY <1>8, <1>11, <1>15, <2>1, <2>2, <2>3 DEF RtpBytes
<1>17. RtpQueue'
  BY <1>1, <1>2, <1>10 DEF RtpQueue
<1>18. RtpFlags'
  BY <1>1, <1>10 DEF RtpInv, RtpFlags
<1>19. RtpBase'
  BY <1>1, <1>10 DEF RtpBase
<1>20. RtpDueSoon'
  BY <1>10 DEF RtpDueSoon
<1>21. RtpSizeIsHeld'
  <2> SUFFICES ASSUME ~rghost'.late PROVE rtp'.total = Len(DataOf(rloc')) + Len(DataOf(rtp'.busy))
    BY DEF RtpSizeIsHeld
  <2>1. rloc' = << >>
    BY <1>1, <1>11
  <2> QED BY <1>10, <1>15, <2>1, DataOfNone
<1>22. RtpFreedAlone'
  BY <1>1 DEF RtpFreedAlone
<1> QED BY <1>12, <1>13, <1>14, <1>16, <1>17, <1>18, <1>19, <1>20, <1>21, <1>22 DEF RtpInv

(* A pass of the thread takes the first items of the queue.                *)
LEMMA TakeDueKeeps == ASSUME RtpInv, RtpTakeDue PROVE RtpInv'
<1> DEFINE busy == rtp.busy
           n == Len(busy)
           w == Walk(busy, rnow)
<1>1. /\ rtpc = "loop" /\ rtpc' = "emit" /\ rloc' = w.due /\ w.due # << >>
      /\ rtp' = [rtp EXCEPT !.busy = w.kept]
      /\ UNCHANGED <<rpc, rfound, rsend, rnow, rghost>>
  BY DEF RtpTakeDue
<1>2. RtpTypes /\ busy \in Seq(RtpItem) /\ rnow \in Nat /\ n \in Nat /\ rloc = << >>
  BY <1>1, RtpFields DEF RtpInv, RtpFlags
<1>3. \A i, j \in 1 .. n : i < j => busy[i].at <= busy[j].at
  BY DEF RtpInv, RtpQueue
<1>4. PICK p \in 0 .. n : w.due = SubSeq(busy, 1, p) /\ w.kept = SubSeq(busy, p + 1, n)
  <2>1. rnow \in Int
    BY <1>2
  <2> HIDE DEF busy
  <2> QED BY <1>2, <1>3, <2>1, WalkSplits
<1> HIDE DEF w
<1> DEFINE d == SubSeq(busy, 1, p)
           k == SubSeq(busy, p + 1, n)
<1>5. d \in Seq(RtpItem) /\ k \in Seq(RtpItem) /\ busy = d \o k /\ Len(k) = n - p
      /\ \A i \in 1 .. n - p : k[i] = busy[i + p] /\ i + p \in 1 .. n
  <2> HIDE DEF busy
  <2>1. p \in Nat /\ p <= n /\ p \in 1 - 1 .. n /\ n \in p .. n /\ 1 \in 1 .. n + 1
    BY <1>2
  <2>2. \A i \in 1 .. n : busy[i] \in RtpItem
    BY <1>2, ElementOfSeq
  <2>3. d \in Seq(RtpItem)
    <3>1. \A i \in 1 .. p : busy[i] \in RtpItem
      BY <1>2, <2>1, <2>2
    <3> QED BY <2>1, <3>1, SubSeqProperties
  <2>4. /\ k \in Seq(RtpItem) /\ Len(k) = (IF p + 1 <= n THEN n - (p + 1) + 1 ELSE 0)
        /\ \A i \in 1 .. n - (p + 1) + 1 : k[i] = busy[(p + 1) + i - 1]
    <3> DEFINE a == p + 1
    <3>1. a \in Int /\ n \in Int /\ \A i \in a .. n : busy[i] \in RtpItem
      BY <1>2, <2>1, <2>2
    <3> HIDE DEF a, n
    <3>2. /\ SubSeq(busy, a, n) \in Seq(RtpItem) /\ Len(SubSeq(busy, a, n)) = (IF a <= n THEN n - a + 1 ELSE 0)
          /\ \A i \in 1 .. n - a + 1 : SubSeq(busy, a, n)[i] = busy[a + i - 1]
      BY <3>1, SubSeqProperties
    <3> QED BY <3>2 DEF a
  <2>5. busy = d \o k
    <3>1. d \o k = SubSeq(busy, 1, n)
      BY <1>2, <2>1, ConcatAdjacentSubSeq
    <3>2. SubSeq(busy, 1, n) = busy
      BY <1>2, SubSeqFull
    <3> QED BY <3>1, <3>2
  <2> HIDE DEF n, d, k
  <2>6. /\ (IF p + 1 <= n THEN n - (p + 1) + 1 ELSE 0) = n - p
        /\ n - (p + 1) + 1 = n - p /\ \A i \in 1 .. n - p : (p + 1) + i - 1 = i + p /\ i + p \in 1 .. n
    BY <1>2, <2>1
  <2> QED BY <2>3, <2>4, <2>5, <2>6
<1>6. DataOf(busy) = DataOf(d) \o DataOf(k) /\ DataOf(d) \in Seq(RtpUnit) /\ DataOf(k) \in Seq(RtpUnit)
  <2> HIDE DEF busy, d, k, n
  <2>1. DataOf(d \o k) = DataOf(d) \o DataOf(k)
    BY <1>5, DataOfBoth
  <2> QED BY <1>5, <2>1, DataType
<1>7. rloc' = d
  BY <1>1, <1>4
<1>8. rtp' = [rtp EXCEPT !.busy = k]
  BY <1>1, <1>4
<1>9. d # << >>
  BY <1>1, <1>4
<1> HIDE DEF d, k
<1>10. /\ rtp'.busy = k /\ rtp'.tsFirst = rtp.tsFirst /\ rtp'.wallFirst = rtp.wallFirst
       /\ rtp'.total = rtp.total /\ rtp'.ba = rtp.ba /\ rtp'.ssrc = rtp.ssrc /\ rtp'.did = rtp.did
       /\ rtp'.terminated = rtp.terminated
  BY <1>2, <1>8 DEF RtpTypes
<1>11. RtpTypes'
  <2>1. rtp' \in [busy : Seq(RtpItem), tsFirst : Int, wallFirst : Nat, total : Int, ba : Seq(RtpUnit),
                  ssrc : {-1, 0, 1, 2}, did : BOOLEAN, resetAt : Nat, running : BOOLEAN,
                  terminate : BOOLEAN, terminated : BOOLEAN]
    <3>1. k \in Seq(RtpItem)
      BY <1>5
    <3> QED BY <1>2, <1>8, <3>1 DEF RtpTypes
  <2>2. d \in Seq(RtpItem)
    BY <1>5
  <2> QED BY <1>1, <1>2, <1>7, <2>1, <2>2 DEF RtpTypes
<1>12. RtpBuffer'
  BY <1>1, <1>10 DEF RtpInv, RtpBuffer
<1>13. RtpPlaces'
  BY <1>1, <1>10 DEF RtpInv, RtpPlaces
<1>14. Unqueued' = Unqueued
  BY <1>1 DEF Unqueued
<1>15. RtpBytes'
  <2> DEFINE r == SubSeq(rtp.ba, Unqueued, Len(rtp.ba))
             o == rghost.out
             a == DataOf(d)
             b == DataOf(k)
  <2>1. o \in Seq(RtpUnit) /\ a \in Seq(RtpUnit) /\ b \in Seq(RtpUnit)
    BY <1>2, <1>6, BytesType
  <2>2. o \o DataOf(rloc) = o
    <3>1. DataOf(rloc) = << >>
      BY <1>2, DataOfNone
    <3> HIDE DEF o
    <3> QED BY <2>1, <3>1
  <2>3. o \o (a \o b) \o r = rghost.in
    BY <1>6, <2>2 DEF RtpInv, RtpBytes
  <2> HIDE DEF o, a, b
  <2>4. o \o (a \o b) = (o \o a) \o b
    BY <2>1, ConcatAssociative
  <2>5. SubSeq(rtp'.ba, Unqueued', Len(rtp'.ba)) = r
    BY <1>10, <1>14
  <2>6. rghost'.out = o /\ DataOf(rloc') = a /\ DataOf(rtp'.busy) = b /\ rghost'.in = rghost.in
    BY <1>1, <1>7, <1>10 DEF o, a, b
  <2> QED BY <2>3, <2>4, <2>5, <2>6 DEF RtpBytes
<1>16. Len(k) = n - p /\ \A i \in 1 .. Len(k) : k[i] = busy[i + p] /\ i + p \in 1 .. n
  <2> HIDE DEF n
  <2> QED BY <1>5
<1>17. RtpQueue'
  <2>1. ASSUME NEW i \in 1 .. Len(k), NEW j \in 1 .. Len(k), i < j PROVE k[i].at <= k[j].at
    <3>1. k[i] = busy[i + p] /\ k[j] = busy[j + p] /\ i + p \in 1 .. n /\ j + p \in 1 .. n
      BY <1>16
    <3>2. i + p < j + p
      BY <2>1
    <3> HIDE DEF busy, n
    <3> QED BY <1>3, <3>1, <3>2
  <2>2. \A i \in 1 .. Len(busy) : busy[i].data # << >> /\ busy[i].rx <= rnow
    BY DEF RtpInv, RtpQueue
  <2>3. \A i \in 1 .. Len(k) : k[i].data # << >> /\ k[i].rx <= rnow
    BY <1>16, <2>2
  <2>4. rtp.wallFirst <= rnow
    BY DEF RtpInv, RtpQueue
  <2> QED BY <1>1, <1>10, <2>1, <2>3, <2>4 DEF RtpQueue
<1>18. RtpFlags'
  BY <1>1, <1>7, <1>9, <1>10 DEF RtpInv, RtpFlags
<1>19. RtpBase'
  <2> SUFFICES ASSUME ~rghost.many PROVE RtpBase'
    BY <1>1 DEF RtpBase
  <2>1. \A i \in 1 .. Len(busy) : Unqueued <= Len(rtp.ba) /\ busy[i].data[1][2].n < rtp.ba[Unqueued][2].n
    BY DEF RtpInv, RtpBase
  <2>2. \A i \in 1 .. Len(k) : Unqueued <= Len(rtp.ba) /\ k[i].data[1][2].n < rtp.ba[Unqueued][2].n
    BY <1>16, <2>1
  <2>3. rtp.tsFirst # -1 =>
         /\ rtp.tsFirst >= 0 /\ Unqueued <= Len(rtp.ba)
         /\ \/ rtp.did /\ Len(rfound) = 1
            \/ LET f == rtp.ba[Unqueued][2]
               IN  rtp.tsFirst <= f.ts /\ f.ts <= rtp.tsFirst + JumpLimit * f.n
    BY DEF RtpInv, RtpBase
  <2>4. rpc = "frames" /\ Len(rfound) = 2 /\ ~rtp.did => PtsDiff(rfound[1].ts, rfound[2].ts) <= JumpLimit
    BY DEF RtpInv, RtpBase
  <2> QED BY <1>1, <1>10, <1>14, <2>2, <2>3, <2>4 DEF RtpBase
<1>20. RtpDueSoon'
  <2> SUFFICES ASSUME ~rghost.many, NEW i \in 1 .. Len(k)
               PROVE  LET e == k[i] IN e.at <= e.rx + RtpLatency + JumpLimit * e.data[1][2].n
    <3>1. DOMAIN k = 1 .. Len(k)
      BY <1>5
    <3> QED BY <1>1, <1>10, <3>1 DEF RtpDueSoon
  <2>1. k[i] = busy[i + p] /\ i + p \in 1 .. n
    BY <1>16
  <2>2. i + p \in DOMAIN rtp.busy
    BY <1>2, <2>1
  <2> QED BY <2>1, <2>2 DEF RtpInv, RtpDueSoon
<1>21. RtpSizeIsHeld'
  <2> DEFINE a == DataOf(d)
             b == DataOf(k)
  <2>1. a \in Seq(RtpUnit) /\ b \in Seq(RtpUnit) /\ DataOf(rtp.busy) = a \o b
    BY <1>6
  <2>2. DataOf(rloc') = a /\ DataOf(rtp'.busy) = b
    BY <1>7, <1>10
  <2>3. DataOf(rloc) = << >>
    BY <1>2, DataOfNone
  <2>4. ~rghost.late => rtp.total = Len(DataOf(rloc)) + Len(DataOf(rtp.busy))
    BY DEF RtpInv, RtpSizeIsHeld
  <2> HIDE DEF a, b
  <2>5. Len(a \o b) = Len(a) + Len(b) /\ Len(a) \in Nat /\ Len(b) \in Nat /\ Len(<< >>) = 0
    BY <2>1
  <2>6. ~rghost.late => rtp.total = Len(a) + Len(b)
    BY <2>1, <2>3, <2>4, <2>5
  <2> QED BY <1>1, <1>10, <2>2, <2>6 DEF RtpSizeIsHeld
<1>22. RtpFreedAlone'
  BY <1>1 DEF RtpInv, RtpFreedAlone
<1> QED BY <1>11, <1>12, <1>13, <1>15, <1>17, <1>18, <1>19, <1>20, <1>21, <1>22 DEF RtpInv

(* The thread passes its first item on.                                    *)
LEMMA EmitKeeps == ASSUME RtpInv, RtpEmit PROVE RtpInv'
<1> DEFINE e == rloc[1]
           d == e.data
           t == Tail(rloc)
<1>1. /\ rtpc = "emit" /\ rloc' = t /\ rtp' = [rtp EXCEPT !.total = @ - Len(d)]
      /\ rghost' = [rghost EXCEPT !.out = @ \o d] /\ rtpc' = (IF Len(rloc) = 1 THEN "loop" ELSE "emit")
      /\ UNCHANGED <<rpc, rfound, rsend, rnow>>
  BY DEF RtpEmit
<1>2. RtpTypes /\ rloc \in Seq(RtpItem) /\ rloc # << >> /\ rnow \in Nat /\ rtp.total \in Int
  BY <1>1, RtpFields DEF RtpInv, RtpFlags
<1>3. DataOf(rloc) = d \o DataOf(t) /\ t \in Seq(RtpItem) /\ e \in RtpItem
  BY <1>2, DataOfFirst
<1>4. d \in Seq(RtpUnit) /\ DataOf(t) \in Seq(RtpUnit) /\ Len(d) \in Nat
  <2>1. d \in Seq(RtpUnit)
    <3> HIDE DEF e
    <3> QED BY <1>3, ItemFields
  <2>2. DataOf(t) \in Seq(RtpUnit)
    <3> HIDE DEF t
    <3> QED BY <1>3, DataType
  <2> HIDE DEF d, t
  <2> QED BY <2>1, <2>2
<1>5. (t # << >>) <=> (rtpc' = "emit")
  <2>1. Len(t) = Len(rloc) - 1 /\ Len(rloc) \in Nat
    BY <1>2, HeadTailProperties
  <2> HIDE DEF t
  <2>2. t # << >> <=> Len(t) # 0
    BY <1>3
  <2> QED BY <1>1, <2>1, <2>2
<1> HIDE DEF d, t
<1>6. rghost.out \o d \in Seq(RtpUnit)
  <2>1. rghost.out \in Seq(RtpUnit) /\ d \in Seq(RtpUnit)
    BY <1>2, <1>4, RtpFields
  <2> QED BY <2>1, ConcatProperties
<1>7. /\ rtp'.busy = rtp.busy /\ rtp'.tsFirst = rtp.tsFirst /\ rtp'.wallFirst = rtp.wallFirst
      /\ rtp'.total = rtp.total - Len(d) /\ rtp'.ba = rtp.ba /\ rtp'.ssrc = rtp.ssrc /\ rtp'.did = rtp.did
      /\ rtp'.terminated = rtp.terminated
  BY <1>1, <1>2 DEF RtpTypes
<1>8. /\ rghost'.in = rghost.in /\ rghost'.out = rghost.out \o d /\ rghost'.many = rghost.many
      /\ rghost'.late = rghost.late /\ rghost'.raced = rghost.raced
  BY <1>1, <1>2 DEF RtpTypes
<1>9. RtpTypes'
  <2>1. rtp' \in [busy : Seq(RtpItem), tsFirst : Int, wallFirst : Nat, total : Int, ba : Seq(RtpUnit),
                  ssrc : {-1, 0, 1, 2}, did : BOOLEAN, resetAt : Nat, running : BOOLEAN,
                  terminate : BOOLEAN, terminated : BOOLEAN]
    <3> DEFINE left == rtp.total - Len(d)
    <3>1. left \in Int
      BY <1>2, <1>4
    <3>2. rtp' = [rtp EXCEPT !.total = left]
      BY <1>1
    <3> HIDE DEF left
    <3> QED BY <1>2, <3>1, <3>2 DEF RtpTypes
  <2>2. rghost' \in [in : Seq(RtpUnit), out : Seq(RtpUnit), many : BOOLEAN, late : BOOLEAN, raced : BOOLEAN]
    BY <1>1, <1>2, <1>6 DEF RtpTypes
  <2>3. t \in Seq(RtpItem)
    BY <1>3
  <2> QED BY <1>1, <1>2, <2>1, <2>2, <2>3 DEF RtpTypes
<1>10. RtpBuffer'
  BY <1>1, <1>7 DEF RtpInv, RtpBuffer
<1>11. RtpPlaces'
  BY <1>1, <1>7, <1>8 DEF RtpInv, RtpPlaces
<1>12. Unqueued' = Unqueued
  BY <1>1 DEF Unqueued
<1>13. RtpBytes'
  <2> DEFINE o == rghost.out
             r == DataOf(t)
  <2>1. o \in Seq(RtpUnit) /\ d \in Seq(RtpUnit) /\ r \in Seq(RtpUnit)
    BY <1>2, <1>4, RtpFields
  <2>2. o \o (d \o r) = (o \o d) \o r
    <3> HIDE DEF o, r
    <3> QED BY <2>1, ConcatAssociative
  <2>3. rghost'.out \o DataOf(rloc') = rghost.out \o DataOf(rloc)
    BY <1>1, <1>3, <1>8, <2>2
  <2>4. SubSeq(rtp'.ba, Unqueued', Len(rtp'.ba)) = SubSeq(rtp.ba, Unqueued, Len(rtp.ba))
    BY <1>7, <1>12
  <2> QED BY <1>7, <1>8, <2>3, <2>4 DEF RtpInv, RtpBytes
<1>14. RtpQueue'
  BY <1>1, <1>7 DEF RtpInv, RtpQueue
<1>15. RtpFlags'
  BY <1>1, <1>5, <1>7 DEF RtpInv, RtpFlags
<1>16. RtpBase'
  BY <1>1, <1>7, <1>8, <1>12 DEF RtpInv, RtpBase
<1>17. RtpDueSoon'
  BY <1>7, <1>8 DEF RtpInv, RtpDueSoon
<1>18. RtpSizeIsHeld'
  <2> DEFINE r == DataOf(t)
             b == DataOf(rtp.busy)
  <2>1. r \in Seq(RtpUnit) /\ d \in Seq(RtpUnit) /\ b \in Seq(RtpUnit)
    BY <1>2, <1>4, BytesType
  <2>2. ~rghost.late => rtp.total = Len(d \o r) + Len(b)
    BY <1>3 DEF RtpInv, RtpSizeIsHeld
  <2>3. rghost'.late = rghost.late /\ rtp'.total = rtp.total - Len(d) /\ DataOf(rloc') = r /\ DataOf(rtp'.busy) = b
    BY <1>1, <1>7, <1>8
  <2> HIDE DEF r, b
  <2>4. Len(d \o r) = Len(d) + Len(r) /\ Len(d) \in Nat /\ Len(r) \in Nat /\ Len(b) \in Nat
    BY <2>1
  <2>5. ~rghost.late => rtp.total - Len(d) = Len(r) + Len(b)
    BY <1>2, <2>2, <2>4
  <2> QED BY <2>3, <2>5 DEF RtpSizeIsHeld
<1>19. RtpFreedAlone'
  BY <1>1, <1>8 DEF RtpInv, RtpFreedAlone
<1> QED BY <1>9, <1>10, <1>11, <1>13, <1>14, <1>15, <1>16, <1>17, <1>18, <1>19 DEF RtpInv

LEMMA RtpStep == RtpInv /\ [RtpNext]_rtpVars => RtpInv'
<1> SUFFICES ASSUME RtpInv, [RtpNext]_rtpVars PROVE RtpInv'
  OBVIOUS
<1>1. CASE RtpNext
  <2>1. rpc # "freed" /\ (RtpCaller \/ RtpThread \/ RtpTick)
    BY <1>1 DEF RtpNext
  <2>2. CASE RtpCaller
    BY <2>2, WriteKeeps, Write2Keeps, WriteEndKeeps, ResetKeeps, FreeKeeps, FreeEndKeeps DEF RtpCaller
  <2>3. CASE RtpThread
    BY <2>1, <2>3, ThreadStartKeeps, TakeDueKeeps, EmitKeeps, ThreadEndKeeps DEF RtpThread
  <2>4. CASE RtpTick
    BY <2>4, TickKeeps
  <2> QED BY <2>1, <2>2, <2>3, <2>4
<1>2. CASE UNCHANGED rtpVars
  <2>1. UNCHANGED <<rtp, rpc, rfound, rtpc, rloc, rsend, rnow, rghost>>
    BY <1>2 DEF rtpVars
  <2>2. RtpTypes' /\ rnow' \in Nat /\ rnow <= rnow'
    BY <2>1 DEF RtpInv, RtpTypes
  <2>3. RtpFlags' /\ RtpFreedAlone'
    BY <2>1 DEF RtpInv, RtpFlags, RtpFreedAlone
  <2> QED BY <2>1, <2>2, <2>3, RestIsKept
<1> QED BY <1>1, <1>2

(* smoother-rtp.c: whatever the caller writes, resets and frees beside the *)
(* thread, the bytes of the stream leave the smoother as they came, each   *)
(* once and in order; a frame waits for the latency and a jump limit for   *)
(* each frame sent so far at most, unless a write found more than two      *)
(* frames; the size of the queue is right unless a reset fell into a pass; *)
(* and the thread is done when free returns, unless free did not see it.   *)
THEOREM RtpSmooth == RtpSpec => []RtpIsSmoothed
<1>1. RtpInv => RtpIsSmoothed
  <2> SUFFICES ASSUME RtpInv PROVE RtpKeepsBytes
    BY DEF RtpInv, RtpIsSmoothed
  <2> SUFFICES ASSUME rpc # "frames"
               PROVE  rghost.out \o DataOf(rloc) \o DataOf(rtp.busy) \o rtp.ba = rghost.in
    BY DEF RtpKeepsBytes
  <2>1. Unqueued = 1
    BY DEF Unqueued
  <2>2. rtp.ba \in Seq(RtpUnit)
    BY RtpFields DEF RtpInv
  <2>3. SubSeq(rtp.ba, 1, Len(rtp.ba)) = rtp.ba
    BY <2>2, SubSeqFull
  <2> QED BY <2>1, <2>3 DEF RtpInv, RtpBytes
<1> QED BY <1>1, RtpStarts, RtpStep, PTL DEF RtpSpec
=============================================================================

----------------------------- MODULE SmootherPcr -----------------------------
(***************************************************************************)
(* The PCR smoother of smoother-pcr.c.  An application thread hands        *)
(* transport packets to smoother_pcr_write, which cuts them at PCRs into   *)
(* chunks, gives every chunk an output time and queues it; an output       *)
(* thread hands due chunks to the user's callback.  Any thread may call    *)
(* smoother_pcr_reset meanwhile.                                           *)
(*                                                                         *)
(* A critical section of listMutex is one step.  What the code does        *)
(* outside the mutex on state another thread writes is a step of its own.  *)
(* Packets are positions of the stream the application holds; lengths are  *)
(* counted in packets of 188 bytes and the 27MHz clock in scaled ticks.    *)
(***************************************************************************)
EXTENDS Integers, Sequences, FiniteSets

CONSTANTS
  Streams,        \* the inputs: sequences of PCR values, NoPcr for a packet without
  ItemsPerSecond, \* items on the free list after smoother_pcr_alloc
  GrowBy,         \* items added when the free list is empty (64 in the code)
  ChunkPackets,   \* packets of one item (7 in the code)
  SyncPackets,    \* packets ltntstools_findSyncPosition wants to see (3)
  MaxScr,         \* MAX_SCR_VALUE
  WrapWindow,     \* the 5 seconds of ltntstools_scr_diff, in ticks
  JumpTicks,      \* the 15 seconds that make an interval a PCR jump, in ticks
  TicksPerUs,     \* 27
  Latency,        \* latencyuS
  ResyncUs,       \* the 10 seconds after which the timebase is resampled
  Epoch,          \* the wall clock when the smoother is allocated
  MaxTime,        \* bound: the wall clock stops here, unless an item waits
  MaxResets       \* bound: calls of smoother_pcr_reset

NoPcr == -1
Unset == -1
NoItem == 0

ASSUME SmootherAssumption ==
  /\ ItemsPerSecond \in Nat
  /\ GrowBy \in Nat \ {0}
  /\ ChunkPackets \in Nat \ {0}
  /\ SyncPackets \in Nat
  /\ MaxScr \in Nat
  /\ WrapWindow \in Nat
  /\ JumpTicks \in Nat
  /\ TicksPerUs \in Nat \ {0}
  /\ Latency \in Nat
  /\ ResyncUs \in Nat
  /\ Epoch \in Nat
  /\ MaxTime \in Nat
  /\ MaxResets \in Nat
  /\ Streams \subseteq Seq(0 .. MaxScr \cup {NoPcr})

VARIABLES
  stream,         \* the packets the application is going to write
  baStart, baEnd, \* ctx->ba holds the packets baStart + 1 .. baEnd
  wpc,            \* where the application thread is
  iv,             \* locals of smoother_pcr_write: the interval being chunked
  hand,           \* local of smoother_pcr_write2: the item being filled
  blockingWrites,
  pcrFirst, walltimeFirst, pcrTail, pcrHead,
  didPcrReset, lastPcrResetTime, ipptLast, latencyHwm,
  itemsFree, itemsBusy, item, totalItems,
  qFreeCount, qBusyCount, totalUserPackets, seqno,
  tpc,            \* where the output thread is
  loclist, lpos,  \* its local list and the entry being served
  last_seqno,
  threadRunning, threadTerminate, threadTerminated,
  now,            \* the wall clock
  resets,         \* number of resets so far
  sent            \* history: packets handed to outputCb

writer   == <<stream, baStart, baEnd, wpc, iv, hand, blockingWrites>>
timebase == <<pcrFirst, walltimeFirst, pcrTail>>
pacing   == <<didPcrReset, lastPcrResetTime, ipptLast, latencyHwm>>
pool     == <<itemsFree, totalItems, qFreeCount>>
queue    == <<itemsBusy, qBusyCount>>
account  == <<totalUserPackets, seqno>>
output   == <<tpc, loclist, lpos, last_seqno, sent>>
flags    == <<threadRunning, threadTerminate, threadTerminated>>
world    == <<now, resets>>
vars     == <<writer, timebase, pcrHead, pacing, pool, queue, item, account,
              output, flags, world>>

------------------------------------------------------------------------------
(* ltntstools_scr_diff and ltntstools_scr_add of ts.h; C division.         *)

ScrDiff(from, to) ==
  IF from > to /\ to < WrapWindow THEN MaxScr - from + to ELSE to - from

ScrAdd(scr, ticks) ==
  LET clock == scr + ticks
  IN  IF clock > MaxScr THEN clock - MaxScr
      ELSE IF clock < 0 THEN clock + MaxScr ELSE clock

Quot(a, b) == IF a >= 0 THEN a \div b ELSE -((-a) \div b)

(* getScheduledOutputuS, from the timebase as it is when it is called.     *)
ScheduledOutput(pcr) ==
  walltimeFirst + Quot(ScrDiff(pcrFirst, pcr), TicksPerUs) + Latency

------------------------------------------------------------------------------
(* An item of the pool carries packets from .. to of the stream.           *)

ItemRec ==
  [from : Int, to : Int, pcr : Int, received : Int, sched : Int, seqno : Int]

BlankItem ==
  [from |-> 1, to |-> 0, pcr |-> 0, received |-> 0, sched |-> 0, seqno |-> 0]

ItemReset(e) ==
  [from |-> 1, to |-> 0, pcr |-> 0, received |-> 0, sched |-> 0, seqno |-> e.seqno]

Length(e) == e.to - e.from + 1

NoInterval == [first |-> 0, end |-> 0, cur |-> 0, pcr |-> 0, ippt |-> 0, more |-> FALSE]

Freed == wpc = "freed"

(* smoother_pcr_alloc: the pool is filled, the thread is created.          *)
Init ==
  /\ stream \in Streams
  /\ baStart = 0 /\ baEnd = 0
  /\ wpc = "idle" /\ iv = NoInterval /\ hand = NoItem
  /\ blockingWrites = FALSE
  /\ pcrFirst = Unset /\ walltimeFirst = 0 /\ pcrTail = Unset /\ pcrHead = Unset
  /\ didPcrReset = FALSE /\ lastPcrResetTime = Epoch /\ ipptLast = 0
  /\ latencyHwm = 0
  /\ totalItems = ItemsPerSecond
  /\ itemsFree = [i \in 1 .. ItemsPerSecond |-> i]
  /\ item = [i \in 1 .. ItemsPerSecond |-> BlankItem]
  /\ itemsBusy = << >>
  /\ qFreeCount = ItemsPerSecond /\ qBusyCount = 0
  /\ totalUserPackets = 0 /\ seqno = 0
  /\ tpc = "start" /\ loclist = << >> /\ lpos = 1 /\ last_seqno = 0
  /\ threadRunning = FALSE /\ threadTerminate = FALSE /\ threadTerminated = FALSE
  /\ now = Epoch /\ resets = 0
  /\ sent = << >>

------------------------------------------------------------------------------
(* The application thread: smoother_pcr_write.                             *)

SetBlockingWrites ==
  /\ wpc = "idle"
  /\ blockingWrites' = ~blockingWrites
  /\ UNCHANGED <<stream, baStart, baEnd, wpc, iv, hand, timebase, pcrHead, pacing,
                 pool, queue, item, account, output, flags, world>>

(* byte_array_append of the packets of one call.                           *)
Write ==
  /\ wpc = "idle"
  /\ \E n \in baEnd + 1 .. Len(stream) : baEnd' = n
  /\ wpc' = "scan"
  /\ UNCHANGED <<stream, baStart, iv, hand, blockingWrites, timebase, pcrHead,
                 pacing, pool, queue, item, account, output, flags, world>>

(* f and s are the first two packets of ba with a PCR on pcrPID.           *)
FirstTwoPcrs(f, s) ==
  /\ baStart < f /\ f < s /\ s <= baEnd
  /\ stream[f] # NoPcr /\ stream[s] # NoPcr
  /\ \A p \in baStart + 1 .. s - 1 : p # f => stream[p] = NoPcr

(* The top of the loop: find the interval between the first two PCRs and   *)
(* its ticks per packet; a jump falls back on the previous interval's.     *)
Scan ==
  /\ wpc = "scan"
  /\ baEnd - baStart >= SyncPackets
  /\ \E f, s \in baStart + 1 .. baEnd :
       LET ticks == ScrDiff(stream[f], stream[s])
           jump  == ticks > JumpTicks
       IN  /\ FirstTwoPcrs(f, s)
           /\ iv' = [first |-> f, end |-> s, cur |-> f, pcr |-> stream[f],
                     ippt |-> IF jump THEN ipptLast ELSE Quot(ticks, s - f),
                     more |-> \E p \in s + 1 .. baEnd : stream[p] # NoPcr]
           /\ didPcrReset' = (didPcrReset \/ jump)
  /\ LET measured == ScrDiff(pcrHead, pcrTail)
     IN  latencyHwm' = IF measured > latencyHwm THEN measured ELSE latencyHwm
  /\ wpc' = "take"
  /\ UNCHANGED <<stream, baStart, baEnd, hand, blockingWrites, timebase, pcrHead,
                 lastPcrResetTime, ipptLast, pool, queue, item, account, output,
                 flags, world>>

(* Fewer packets than a sync search needs, or fewer than two PCRs: return. *)
ScanBail ==
  /\ wpc = "scan"
  /\ \/ baEnd - baStart < SyncPackets
     \/ ~ \E f, s \in baStart + 1 .. baEnd : FirstTwoPcrs(f, s)
  /\ wpc' = "idle"
  /\ UNCHANGED <<stream, baStart, baEnd, iv, hand, blockingWrites, timebase, pcrHead,
                 pacing, pool, queue, item, account, output, flags, world>>

------------------------------------------------------------------------------
(* The application thread: smoother_pcr_write2 for the chunk at iv.cur.    *)

(* Operators commented "Deviation" are not used by the specification: each *)
(* replaces the definition that follows it in a mutation test.             *)

(* Deviation: the item is handed out without xorg_list_del.                *)
FreeAfterTakeKept == itemsFree
FreeAfterTake == Tail(itemsFree)

(* Deviation: the item handed out of a grown list is still counted.        *)
FreeCountGrownAll == qFreeCount + GrowBy
FreeCountGrown == qFreeCount + GrowBy - 1

(* Deviation: the last item of the loop is not allocated.                  *)
GrownItemsShort ==
  [i \in 1 .. totalItems + GrowBy - 1 |-> IF i <= totalItems THEN item[i] ELSE BlankItem]
GrownItems ==
  [i \in 1 .. totalItems + GrowBy |-> IF i <= totalItems THEN item[i] ELSE BlankItem]

(* The first critical section.  A blocking writer spins, without effect,   *)
(* until the free list has an item; the other one grows the list.          *)
TakeItem ==
  /\ wpc = "take"
  /\ \/ /\ itemsFree # << >>
        /\ hand' = Head(itemsFree)
        /\ itemsFree' = FreeAfterTake
        /\ qFreeCount' = qFreeCount - 1
        /\ UNCHANGED <<totalItems, item>>
     \/ /\ itemsFree = << >>
        /\ ~blockingWrites
        /\ hand' = totalItems + 1
        /\ itemsFree' = [i \in 1 .. GrowBy - 1 |-> totalItems + 1 + i]
        /\ qFreeCount' = FreeCountGrown
        /\ totalItems' = totalItems + GrowBy
        /\ item' = GrownItems
  /\ wpc' = "stamp"
  /\ UNCHANGED <<stream, baStart, baEnd, iv, blockingWrites, timebase, pcrHead,
                 pacing, queue, account, output, flags, world>>

ChunkEnd ==
  IF iv.cur + ChunkPackets < iv.end THEN iv.cur + ChunkPackets - 1 ELSE iv.end - 1

(* Outside the mutex: the item is filled, and pcrFirst is sampled when it  *)
(* is unset.                                                               *)
StampItem ==
  /\ wpc = "stamp"
  /\ item' = [item EXCEPT ![hand] =
                [@ EXCEPT !.received = now, !.from = iv.cur, !.to = ChunkEnd,
                          !.pcr = iv.pcr]]
  /\ \/ /\ pcrFirst = Unset
        /\ pcrFirst' = iv.pcr
        /\ wpc' = "stampWall"
     \/ /\ pcrFirst # Unset
        /\ wpc' = "schedule"
        /\ UNCHANGED pcrFirst
  /\ UNCHANGED <<stream, baStart, baEnd, iv, hand, blockingWrites, walltimeFirst,
                 pcrTail, pcrHead, pacing, pool, queue, account, output, flags, world>>

(* The other half of the unlocked pair: the wall clock of that PCR.        *)
StampWalltime ==
  /\ wpc = "stampWall"
  /\ walltimeFirst' = item[hand].received
  /\ wpc' = "schedule"
  /\ UNCHANGED <<stream, baStart, baEnd, iv, hand, blockingWrites, pcrFirst, pcrTail,
                 pcrHead, pacing, pool, queue, item, account, output, flags, world>>

(* Still outside the mutex: the output time is computed from a timebase    *)
(* that a reset may have cleared since.                                    *)
ScheduleItem ==
  /\ wpc = "schedule"
  /\ pcrTail' = iv.pcr
  /\ item' = [item EXCEPT ![hand].sched = ScheduledOutput(iv.pcr)]
  /\ wpc' = "enqueue"
  /\ UNCHANGED <<stream, baStart, baEnd, iv, hand, blockingWrites, pcrFirst,
                 walltimeFirst, pcrHead, pacing, pool, queue, account, output,
                 flags, world>>

(* Deviation: the schedule is used as computed.                            *)
EnqueueTimeUnordered == item[hand].sched

(* The output time of the queued item: after the last one on the list.     *)
EnqueueTime ==
  LET mine == item[hand].sched
      last == item[itemsBusy[Len(itemsBusy)]].sched
  IN  IF itemsBusy # << >> /\ last > mine
      THEN last + Quot(ipptLast * Length(item[hand]), TicksPerUs)
      ELSE mine

(* Deviation: xorg_list_add, which puts the item at the head.              *)
EnqueuedAtHead == <<hand>> \o itemsBusy
Enqueued == Append(itemsBusy, hand)

NextSeqno == seqno + 1

(* The second critical section, and the chunk loop of smoother_pcr_write.  *)
EnqueueItem ==
  /\ wpc = "enqueue"
  /\ item' = [item EXCEPT ![hand] = [@ EXCEPT !.seqno = seqno, !.sched = EnqueueTime]]
  /\ seqno' = NextSeqno
  /\ totalUserPackets' = totalUserPackets + Length(item[hand])
  /\ itemsBusy' = Enqueued
  /\ qBusyCount' = qBusyCount + 1
  /\ hand' = NoItem
  /\ iv' = [iv EXCEPT !.cur = item[hand].to + 1,
                      !.pcr = ScrAdd(iv.pcr, iv.ippt * Length(item[hand]))]
  /\ wpc' = IF item[hand].to + 1 < iv.end THEN "take" ELSE "finish"
  /\ UNCHANGED <<stream, baStart, baEnd, blockingWrites, timebase, pcrHead, pacing,
                 pool, output, flags, world>>

(* Deviation: the second PCR is trimmed as well.                           *)
TrimPastPcr == iv.end
TrimPoint == iv.end - 1

(* The bottom of the loop: trim ba to the second PCR, ask for a new        *)
(* timebase after a jump or when the last one is ResyncUs old, and go      *)
(* round again if a third PCR was seen.                                    *)
FinishInterval ==
  /\ wpc = "finish"
  /\ LET due == now >= lastPcrResetTime + ResyncUs
     IN  /\ lastPcrResetTime' = IF due THEN now ELSE lastPcrResetTime
         /\ pcrFirst' = IF didPcrReset \/ due THEN Unset ELSE pcrFirst
  /\ baStart' = TrimPoint
  /\ ipptLast' = iv.ippt
  /\ didPcrReset' = FALSE
  /\ wpc' = IF iv.more THEN "scan" ELSE "idle"
  /\ iv' = NoInterval
  /\ UNCHANGED <<stream, baEnd, hand, blockingWrites, walltimeFirst, pcrTail, pcrHead,
                 latencyHwm, pool, queue, item, account, output, flags, world>>

------------------------------------------------------------------------------
(* smoother_pcr_free, called by the application thread between writes.     *)

(* Only a thread that has already announced itself is waited for.          *)
FreeCall ==
  /\ wpc = "idle"
  /\ \/ /\ threadRunning
        /\ threadTerminated' = FALSE
        /\ threadTerminate' = TRUE
        /\ wpc' = "waitTerminated"
     \/ /\ ~threadRunning
        /\ wpc' = "freeLists"
        /\ UNCHANGED <<threadTerminate, threadTerminated>>
  /\ UNCHANGED <<stream, baStart, baEnd, iv, hand, blockingWrites, timebase, pcrHead,
                 pacing, pool, queue, item, account, output, threadRunning, world>>

(* Deviation: smoother_pcr_free polls the other flag.                      *)
ThreadGoneEarly == threadRunning
ThreadGone == threadTerminated

FreeWait ==
  /\ wpc = "waitTerminated"
  /\ ThreadGone
  /\ wpc' = "freeLists"
  /\ UNCHANGED <<stream, baStart, baEnd, iv, hand, blockingWrites, timebase, pcrHead,
                 pacing, pool, queue, item, account, output, flags, world>>

FreeLists ==
  /\ wpc = "freeLists"
  /\ itemsFree' = << >> /\ itemsBusy' = << >>
  /\ qFreeCount' = qFreeCount - Len(itemsFree)
  /\ qBusyCount' = qBusyCount - Len(itemsBusy)
  /\ baStart' = baEnd
  /\ wpc' = "freed"
  /\ UNCHANGED <<stream, baEnd, iv, hand, blockingWrites, timebase, pcrHead, pacing,
                 totalItems, item, account, output, flags, world>>

------------------------------------------------------------------------------
(* smoother_pcr_reset, by any thread, one critical section.                *)
Reset ==
  /\ ~Freed
  /\ resets < MaxResets
  /\ walltimeFirst' = 0 /\ pcrFirst' = Unset /\ pcrHead' = Unset /\ pcrTail' = Unset
  /\ totalUserPackets' = 0
  /\ item' = [i \in 1 .. totalItems |->
                IF \E b \in 1 .. Len(itemsBusy) : itemsBusy[b] = i
                THEN ItemReset(item[i]) ELSE item[i]]
  /\ itemsFree' = itemsFree \o itemsBusy
  /\ itemsBusy' = << >>
  /\ qFreeCount' = qFreeCount + Len(itemsBusy)
  /\ qBusyCount' = qBusyCount - Len(itemsBusy)
  /\ resets' = resets + 1
  /\ UNCHANGED <<writer, pacing, totalItems, seqno, output, flags, now>>

------------------------------------------------------------------------------
(* The output thread: smoother_pcr_threadFunc and _queueProcess.  A pass   *)
(* over an empty busy list changes nothing: the absolute time it waits for *)
(* is in the past.  After the context is freed its steps are undefined and *)
(* the model stops it.                                                     *)

ThreadStart ==
  /\ tpc = "start" /\ ~Freed
  /\ threadTerminated' = FALSE
  /\ threadRunning' = TRUE
  /\ tpc' = "loop"
  /\ UNCHANGED <<writer, timebase, pcrHead, pacing, pool, queue, item, account,
                 loclist, lpos, last_seqno, sent, threadTerminate, world>>

LoopEnds == threadTerminate

ThreadLoop ==
  /\ tpc = "loop" /\ ~Freed
  /\ ~LoopEnds
  /\ tpc' = "collect"
  /\ UNCHANGED <<writer, timebase, pcrHead, pacing, pool, queue, item, account,
                 loclist, lpos, last_seqno, sent, flags, world>>

ThreadExit ==
  /\ tpc = "loop" /\ ~Freed
  /\ LoopEnds
  /\ threadRunning' = TRUE
  /\ threadTerminated' = TRUE
  /\ tpc' = "done"
  /\ UNCHANGED <<writer, timebase, pcrHead, pacing, pool, queue, item, account,
                 loclist, lpos, last_seqno, sent, threadTerminate, world>>

(* The first n items of the busy list are due, and the next one is not.    *)
DuePrefix(n) ==
  /\ \A i \in 1 .. n : item[itemsBusy[i]].sched <= now
  /\ n < Len(itemsBusy) => item[itemsBusy[n + 1]].sched > now

(* Deviation: one item of the due ones makes it to the local list.         *)
BatchOfOne(n) == SubSeq(itemsBusy, 1, IF n = 0 THEN 0 ELSE 1)
Batch(n) == SubSeq(itemsBusy, 1, n)

(* _queueProcess_makeloc: the due items move to the local list.            *)
Collect ==
  /\ tpc = "collect" /\ ~Freed
  /\ pcrHead' = IF itemsBusy = << >> THEN pcrHead ELSE item[itemsBusy[1]].pcr
  /\ \E n \in 0 .. Len(itemsBusy) :
       /\ DuePrefix(n)
       /\ loclist' = Batch(n)
       /\ itemsBusy' = SubSeq(itemsBusy, n + 1, Len(itemsBusy))
       /\ qBusyCount' = qBusyCount - n
       /\ tpc' = IF n = 0 THEN "loop" ELSE "emit"
  /\ lpos' = 1
  /\ UNCHANGED <<writer, timebase, pacing, pool, item, account, last_seqno, sent,
                 flags, world>>

(* The callback, outside the mutex, with whatever the item now holds.      *)
Emit ==
  /\ tpc = "emit" /\ ~Freed
  /\ LET e == item[loclist[lpos]]
     IN  sent' = sent \o [i \in 1 .. Length(e) |-> e.from + i - 1]
  /\ tpc' = "account"
  /\ UNCHANGED <<writer, timebase, pcrHead, pacing, pool, queue, item, account,
                 loclist, lpos, last_seqno, flags, world>>

Spent == Length(item[loclist[lpos]])

(* The mutex again for the byte count; then the sequence check.            *)
Account ==
  /\ tpc = "account" /\ ~Freed
  /\ totalUserPackets' = totalUserPackets - Spent
  /\ last_seqno' = item[loclist[lpos]].seqno
  /\ lpos' = lpos + 1
  /\ tpc' = IF lpos < Len(loclist) THEN "emit" ELSE "recycle"
  /\ UNCHANGED <<writer, timebase, pcrHead, pacing, pool, queue, item, seqno,
                 loclist, sent, flags, world>>

(* Deviation: the spent items are not returned.                            *)
RecycledNone == itemsFree
Recycled == itemsFree \o loclist

(* The mutex a third time: the spent items go back to the free list.       *)
Recycle ==
  /\ tpc = "recycle" /\ ~Freed
  /\ item' = [i \in 1 .. totalItems |->
                IF \E l \in 1 .. Len(loclist) : loclist[l] = i
                THEN ItemReset(item[i]) ELSE item[i]]
  /\ itemsFree' = Recycled
  /\ qFreeCount' = qFreeCount + Len(loclist)
  /\ loclist' = << >>
  /\ lpos' = 1
  /\ tpc' = "loop"
  /\ UNCHANGED <<writer, timebase, pcrHead, pacing, totalItems, queue, account,
                 last_seqno, sent, flags, world>>

------------------------------------------------------------------------------
(* The wall clock.  Past its bound it only runs on for items that wait.    *)
Tick ==
  /\ now < MaxTime \/ \E b \in 1 .. Len(itemsBusy) : item[itemsBusy[b]].sched > now
  /\ now' = now + 1
  /\ UNCHANGED <<writer, timebase, pcrHead, pacing, pool, queue, item, account,
                 output, flags, resets>>

(* After smoother_pcr_free nothing happens any more.                       *)
Stopped == Freed /\ UNCHANGED vars

WriteCall  == Scan \/ ScanBail \/ TakeItem \/ StampItem \/ StampWalltime
              \/ ScheduleItem \/ EnqueueItem \/ FinishInterval
FreeReturn == FreeWait \/ FreeLists
Thread     == ThreadStart \/ ThreadLoop \/ ThreadExit \/ Collect \/ Emit
              \/ Account \/ Recycle

Next ==
  \/ SetBlockingWrites \/ Write \/ WriteCall
  \/ FreeCall \/ FreeReturn
  \/ Reset
  \/ Thread
  \/ Tick \/ Stopped

Spec == Init /\ [][Next]_vars

(* The scheduler runs both threads and the clock advances.  Nothing forces *)
(* the application to make another call.                                   *)
Fairness ==
  /\ WF_vars(WriteCall)
  /\ WF_vars(FreeReturn)
  /\ WF_vars(Thread)
  /\ WF_vars(Tick)

FairSpec == Spec /\ Fairness

------------------------------------------------------------------------------
(* Properties.                                                             *)

WriterPc == {"idle", "scan", "take", "stamp", "stampWall", "schedule", "enqueue",
             "finish", "waitTerminated", "freeLists", "freed"}
ThreadPc == {"start", "loop", "collect", "emit", "account", "recycle", "done"}
Filling  == {"stamp", "stampWall", "schedule", "enqueue"}
Filled   == Filling \ {"stamp"}
Chunking == Filling \cup {"take"}

IntervalRec ==
  [first : Int, end : Int, cur : Int, pcr : Int, ippt : Int, more : BOOLEAN]

(* Every variable has the type its declaration in smoother-pcr.c gives it; *)
(* the lists hold pointers to allocated items.                             *)
TypeOK ==
  /\ stream \in Seq(0 .. MaxScr \cup {NoPcr})
  /\ baStart \in Nat /\ baEnd \in Nat
  /\ wpc \in WriterPc /\ tpc \in ThreadPc
  /\ iv \in IntervalRec
  /\ blockingWrites \in BOOLEAN /\ didPcrReset \in BOOLEAN
  /\ pcrFirst \in Int /\ walltimeFirst \in Int /\ pcrTail \in Int /\ pcrHead \in Int
  /\ lastPcrResetTime \in Int /\ ipptLast \in Int /\ latencyHwm \in Int
  /\ totalItems \in Nat
  /\ hand \in 0 .. totalItems
  /\ itemsFree \in Seq(1 .. totalItems)
  /\ itemsBusy \in Seq(1 .. totalItems)
  /\ loclist \in Seq(1 .. totalItems)
  /\ item \in [1 .. totalItems -> ItemRec]
  /\ qFreeCount \in Int /\ qBusyCount \in Int
  /\ totalUserPackets \in Int /\ seqno \in Nat /\ last_seqno \in Int
  /\ lpos \in Nat
  /\ threadRunning \in BOOLEAN /\ threadTerminate \in BOOLEAN
  /\ threadTerminated \in BOOLEAN
  /\ now \in Int /\ resets \in Nat
  /\ sent \in Seq(Int)

In(x, s) == \E i \in 1 .. Len(s) : s[i] = x
NoRepeats(s) == \A i, j \in 1 .. Len(s) : s[i] = s[j] => i = j
Apart(s, t) == \A i \in 1 .. Len(s), j \in 1 .. Len(t) : s[i] # t[j]

(* No item is ever on two lists, twice on one, or on a list while          *)
(* smoother_pcr_write2 fills it, whatever resets and passes of the output  *)
(* thread come between its two critical sections; and until the context is *)
(* freed every allocated item is somewhere (nothing leaks).                *)
ItemsInOnePlace ==
  /\ NoRepeats(itemsFree) /\ NoRepeats(itemsBusy) /\ NoRepeats(loclist)
  /\ Apart(itemsFree, itemsBusy) /\ Apart(itemsFree, loclist)
  /\ Apart(itemsBusy, loclist)
  /\ ~In(hand, itemsFree) /\ ~In(hand, itemsBusy) /\ ~In(hand, loclist)
  /\ ~Freed => \A i \in 1 .. totalItems :
       i = hand \/ In(i, itemsFree) \/ In(i, itemsBusy) \/ In(i, loclist)

(* qFreeCount and qBusyCount, kept by hand at every list operation, are    *)
(* the lengths of the lists they describe.                                 *)
CountersMatch == qFreeCount = Len(itemsFree) /\ qBusyCount = Len(itemsBusy)

(* Where the application thread is in its input: packets up to Position    *)
(* have been queued or skipped.                                            *)
Position == IF wpc \in Chunking \cup {"finish"} THEN iv.cur ELSE baStart + 1

(* The control state of the two threads agrees with the data they work on. *)
WriterShape ==
  /\ hand # NoItem <=> wpc \in Filling
  /\ baStart <= baEnd /\ baEnd <= Len(stream)
  /\ wpc \in Chunking =>
       baStart < iv.cur /\ iv.cur < iv.end /\ iv.end <= baEnd
  /\ wpc = "finish" => baStart < iv.cur /\ iv.cur = iv.end /\ iv.end <= baEnd

ThreadShape ==
  /\ tpc \in {"emit", "account"} => lpos \in 1 .. Len(loclist)
  /\ tpc = "recycle" => lpos = Len(loclist) + 1
  /\ tpc \notin {"emit", "account", "recycle"} => loclist = << >> /\ lpos = 1

HandFilled ==
  wpc \in Filled =>
    /\ item[hand].from = iv.cur
    /\ iv.cur <= item[hand].to /\ item[hand].to < iv.end

(* Packets reach the callback in stream order and no packet twice, across  *)
(* chunk boundaries, batches, PCR jumps and resets at any point.           *)
DeliveredInOrder == \A i, j \in 1 .. Len(sent) : i < j => sent[i] < sent[j]

FirstUnsent == IF tpc = "account" THEN lpos + 1 ELSE lpos

(* The items a consumer has still to get: the rest of loclist, then busy.  *)
LocRest == SubSeq(loclist, FirstUnsent, Len(loclist))

(* The inductive form of DeliveredInOrder: delivered packets, the rest of  *)
(* the batch, the busy list and the writer's position follow each other.   *)
DeliveryOrder ==
  /\ \A i, j \in 1 .. Len(sent) : i < j => sent[i] < sent[j]
  /\ \A i \in 1 .. Len(sent) : sent[i] < Position
  /\ \A i \in 1 .. Len(sent) : \A l \in FirstUnsent .. Len(loclist) :
       sent[i] < item[loclist[l]].from
  /\ \A i \in 1 .. Len(sent) : \A b \in 1 .. Len(itemsBusy) :
       sent[i] < item[itemsBusy[b]].from
  /\ \A l \in 1 .. Len(loclist) :
       item[loclist[l]].from <= item[loclist[l]].to /\ item[loclist[l]].to < Position
  /\ \A b \in 1 .. Len(itemsBusy) :
       item[itemsBusy[b]].from <= item[itemsBusy[b]].to
       /\ item[itemsBusy[b]].to < Position
  /\ \A l, m \in 1 .. Len(loclist) :
       l < m => item[loclist[l]].to < item[loclist[m]].from
  /\ \A b, c \in 1 .. Len(itemsBusy) :
       b < c => item[itemsBusy[b]].to < item[itemsBusy[c]].from
  /\ \A l \in 1 .. Len(loclist) : \A b \in 1 .. Len(itemsBusy) :
       item[loclist[l]].to < item[itemsBusy[b]].from

(* No packet is lost between two critical sections: what was delivered,    *)
(* what is in flight and what is queued are consecutive packets of the     *)
(* stream.  smoother_pcr_reset discards packets, so this is for runs       *)
(* without one.                                                            *)
NothingLost ==
  LET q == LocRest \o itemsBusy
  IN  /\ \A i \in 1 .. Len(sent) - 1 : sent[i + 1] = sent[i] + 1
      /\ \A i \in 1 .. Len(q) - 1 : item[q[i + 1]].from = item[q[i]].to + 1
      /\ sent # << >> /\ q # << >> => item[q[1]].from = sent[Len(sent)] + 1
      /\ q # << >> /\ wpc \in Filled => item[hand].from = item[q[Len(q)]].to + 1
      /\ q # << >> /\ wpc \in {"idle", "scan"} => baStart = item[q[Len(q)]].to

Pending ==
  LET q == LocRest \o itemsBusy
  IN  [i \in 1 .. Len(q) |-> [from |-> item[q[i]].from, to |-> item[q[i]].to]]

Fifo == INSTANCE DelayFifo WITH pending <- Pending, delivered <- sent

(* The smoother implements the delay queue of DelayFifo: whatever the two  *)
(* threads and concurrent resets do, a chunk is accepted behind all        *)
(* others, delivered once, whole and in order, and only the newest chunks  *)
(* are ever discarded.                                                     *)
ImplementsFifo == Fifo!FifoSpec

(* No two consecutive PCRs of the stream step back, as ltntstools_scr_diff *)
(* sees them: a clock that restarts counts as one that wrapped.            *)
StreamForward ==
  \A f, s \in 1 .. Len(stream) :
    /\ f < s /\ stream[f] # NoPcr /\ stream[s] # NoPcr
    /\ \A p \in f + 1 .. s - 1 : stream[p] = NoPcr
    => ScrDiff(stream[f], stream[s]) >= 0

(* "never append an item with the scheduled time that goes backwards": the *)
(* busy list is sorted by output time, which is what makes it sound for    *)
(* _queueProcess_makeloc to stop at the first item in the future.  A PCR   *)
(* that steps back makes the ticks per packet negative, and the time that  *)
(* the code derives from the last item's is then before it.                *)
BusySorted ==
  StreamForward =>
    \A i, j \in 1 .. Len(itemsBusy) :
      i < j => item[itemsBusy[i]].sched <= item[itemsBusy[j]].sched

(* Inductive companion: what is measured between two PCRs is not negative. *)
TicksForward ==
  StreamForward => ipptLast >= 0 /\ iv.ippt >= 0

(* "Under no circumstances should scheduled_TSuS be larger than (now + (4  *)
(* * ctx->latencyuS))": no reset may split the pair of a first PCR and its *)
(* wall clock so that a chunk, and all behind it, wait for a time far off. *)
ScheduledSoon ==
  \A b \in 1 .. Len(itemsBusy) : item[itemsBusy[b]].sched <= now + 4 * Latency

(* totalUserBytes, which smoother_pcr_get_size reports, is what the busy   *)
(* list and the batch being output still hold; it is exact whenever the    *)
(* output thread is between batches.                                       *)
SizeIsWhatIsHeld ==
  ~Freed /\ tpc \in {"loop", "collect", "done"} =>
    totalUserPackets = IF itemsBusy = << >> THEN 0
                       ELSE item[itemsBusy[Len(itemsBusy)]].to + 1
                            - item[itemsBusy[1]].from

(* smoother_pcr_free does not free the context under a thread it waited    *)
(* for, although the flags it waits on are plain ints set by both sides.   *)
FreedAfterThread == Freed /\ threadTerminate => tpc = "done"

Queued(p) ==
  \E b \in 1 .. Len(itemsBusy) :
    item[itemsBusy[b]].from <= p /\ p <= item[itemsBusy[b]].to

(* A blocking writer waiting for a free item gets one: the output thread   *)
(* never waits for the writer.                                             *)
BlockedWriterResumes == (wpc = "take") ~> (wpc = "stamp")

(* smoother_pcr_free returns.                                              *)
FreeReturns == (wpc = "waitTerminated") ~> Freed

(* Without a reset the stream is held whole and its size is told rightly.  *)
StreamIntact ==
  /\ NothingLost
  /\ SizeIsWhatIsHeld

(* The inductive form of StreamIntact.  Packets s and then the runs r are  *)
(* consecutive; the next packet after them is p.                           *)
Joined(s, r) ==
  /\ \A i \in 1 .. Len(s) - 1 : s[i + 1] = s[i] + 1
  /\ \A i \in 1 .. Len(r) - 1 : r[i + 1].from = r[i].to + 1
  /\ Len(s) > 0 /\ Len(r) > 0 => r[1].from = s[Len(s)] + 1

EndsBefore(s, r, p) ==
  /\ Len(r) > 0 => r[Len(r)].to + 1 = p
  /\ Len(r) = 0 /\ Len(s) > 0 => s[Len(s)] + 1 = p

(* Once anything was queued ba starts with the PCR that ended the last     *)
(* interval, so smoother_pcr_write skips no packet any more.               *)
AtPcr ==
  /\ wpc \in Chunking \cup {"finish"} => stream[iv.end] # NoPcr
  /\ Len(sent) + Len(Pending) > 0 /\ wpc \in {"idle", "scan"} =>
       baStart < baEnd /\ stream[baStart + 1] # NoPcr

(* The first packet totalUserBytes still counts: the thread takes an item  *)
(* off the count after the callback.                                       *)
HeldFrom ==
  IF tpc = "account" THEN item[loclist[lpos]].from
  ELSE IF Len(Pending) > 0 THEN Pending[1].from ELSE Position

Gapless ==
  /\ Joined(sent, Pending)
  /\ AtPcr
  /\ tpc = "account" => Len(sent) > 0 /\ sent[Len(sent)] = item[loclist[lpos]].to
  /\ ~Freed => EndsBefore(sent, Pending, Position)
               /\ totalUserPackets = Position - HeldFrom

(* No call of the application waits for ever: a blocked smoother_pcr_write *)
(* gets its item, smoother_pcr_free sees the thread end.                   *)
CallsReturn ==
  /\ BlockedWriterResumes
  /\ FreeReturns
==============================================================================

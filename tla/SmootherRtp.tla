----------------------------- MODULE SmootherRtp -----------------------------
(***************************************************************************)
(* smoother-rtp.c: a caller writes RTP frames in pieces; each frame is     *)
(* queued with the time at which the thread is to send it on.  The bytes   *)
(* of a frame are a header and FramePackets packets: a unit is <<"h", f>>  *)
(* or <<"p", f>>, f a record of the frame's time stamp, SSRC and number.   *)
(* The caller makes its calls one after the other, the thread runs beside  *)
(* them; a section under listMutex is one step.  The vote on the SSRC is   *)
(* left out: it counts, but the SSRC is that of the first write.  So are   *)
(* the histograms, the measured latency and the list of free items, which  *)
(* grows when it is empty.  Time is counted in ticks of the stream.        *)
(***************************************************************************)
EXTENDS ClockOps, Sequences, SequencesExt, FiniteSetsExt

CONSTANTS
  Half,           \* a time stamp has two halves of 0 .. Half - 1 (2^16)
  FramePackets,   \* packets in a frame (7)
  JumpLimit,      \* 15 s
  RebaseTime,     \* 60 s
  RtpLatency,     \* latencyuS
  RtpSteps,       \* from one time stamp to the next
  RtpFrames, RtpTicks  \* bounds: the frames sent, the time that goes by

ASSUME RtpAssumption ==
  /\ Half \in Nat \ {0, 1} /\ Modulus = 2 * Half * Half /\ FramePackets \in Nat \ {0, 1}
  /\ JumpLimit \in 1 .. Half * Half - 1 /\ RebaseTime \in Nat /\ RtpLatency \in Nat
  /\ RtpSteps \subseteq Nat

VARIABLES
  rtp,    \* the context
  rpc,    \* the caller: "idle", "frames" (of a write), "wait" (for the thread to end), "freed"
  rfound, \* the frames of the write that are still to be queued
  rtpc,   \* the thread: "new", "loop", "emit", "done"
  rloc,   \* its local list
  rsend,  \* the sender
  rnow,
  rghost  \* history: the units that came in and went out; a write found more than two frames;
          \* a reset fell into a pass of the thread; free did not see the thread

rtpVars == <<rtp, rpc, rfound, rtpc, rloc, rsend, rnow, rghost>>

RtpModulus == Half * Half
(* ntohl; a time stamp that is not converted is read with its bytes        *)
(* swapped.                                                                *)
Ntohl(ts) == (ts % Half) * Half + (ts \div Half)

(* smoother_rtp_alloc.                                                     *)
RtpAlloc ==
  [busy |-> << >>, tsFirst |-> -1, wallFirst |-> 0, total |-> 0, ba |-> << >>, ssrc |-> -1,
   did |-> FALSE, resetAt |-> 0, running |-> FALSE, terminate |-> FALSE, terminated |-> FALSE]

(* The sender begins close to the end of the time stamps, and may begin in *)
(* the middle of a frame.                                                  *)
Frame(n, ts, ssrc) == [n |-> n, ts |-> ts, ssrc |-> ssrc]
Units(f) == <<<<"h", f>>>> \o [k \in 1 .. FramePackets |-> <<"p", f>>]

RtpInit ==
  /\ rtp = RtpAlloc /\ rpc = "idle" /\ rfound = << >> /\ rtpc = "new" /\ rloc = << >>
  /\ \E f \in {Frame(0, RtpModulus - 2, 1)} :
       rsend = [last |-> f, rest |-> << >>] \/ rsend = [last |-> f, rest |-> Tail(Units(f))]
  /\ rnow = 0 /\ rghost = [in |-> << >>, out |-> << >>, many |-> FALSE, late |-> FALSE, raced |-> FALSE]

-----------------------------------------------------------------------------
(* rtp_frame_queryPositions: a header that two packets follow, up to the   *)
(* next one; the last has no length.                                       *)
IsFrame(ba, ssrc, i) == ba[i][1] = "h" /\ ba[i][2].ssrc = ssrc /\ i + 2 <= Len(ba)
Search(at, i, in) == IF IsFrame(in.ba, in.ssrc, i) THEN Append(at, i) ELSE at
FramesAt(ba, ssrc) ==
  FoldLeft(LAMBDA at, i : Search(at, i, [ba |-> ba, ssrc |-> ssrc]), << >>, [i \in 1 .. Len(ba) |-> i])
QueryPositions(ba, ssrc) ==
  LET at == FramesAt(ba, ssrc)
  IN  [k \in DOMAIN at |->
         [first |-> at[k], len |-> IF k = Len(at) THEN 0 ELSE at[k + 1] - at[k],
          ts |-> Ntohl(ba[at[k]][2].ts)]]

(* The caller's buffer: what is left of a frame, a frame, its first part,  *)
(* or two frames.                                                          *)
SentOf(d, ssrc) ==
  LET f == Frame(rsend.last.n + 1, (rsend.last.ts + d) % RtpModulus, ssrc)
      g == Frame(f.n + 1, (f.ts + 1) % RtpModulus, ssrc)
  IN  { [buf |-> rsend.rest \o Units(f), last |-> f, rest |-> << >>],
        [buf |-> rsend.rest \o SubSeq(Units(f), 1, 2), last |-> f,
         rest |-> SubSeq(Units(f), 3, FramePackets + 1)],
        [buf |-> rsend.rest \o Units(f) \o Units(g), last |-> g, rest |-> << >>] }
Sent ==
  {[buf |-> rsend.rest, last |-> rsend.last, rest |-> << >>]} \cup
  UNION {SentOf(d, ssrc) : d \in RtpSteps, ssrc \in {rsend.last.ssrc, 2}}

Jumped(read) == Len(read) >= 2 /\ PtsDiff(read[1].ts, read[2].ts) > JumpLimit

(* Only the first two time stamps are converted.                           *)
Converted(found) ==
  [k \in DOMAIN found |-> IF k > 2 THEN found[k] ELSE [found[k] EXCEPT !.ts = Ntohl(@)]]

(* smoother_rtp_write up to its loop.                                      *)
RtpWrite ==
  /\ rpc = "idle"
  /\ \E s \in {t \in Sent : t.buf # << >> /\ t.last.n <= RtpFrames} :
       LET ba == rtp.ba \o s.buf
           ssrc == IF rtp.ssrc # -1 THEN rtp.ssrc
                   ELSE IF s.buf[1][1] = "h" THEN s.buf[1][2].ssrc ELSE 0
           read == Converted(QueryPositions(ba, ssrc))
       IN  /\ rtp' = [rtp EXCEPT !.ba = ba, !.ssrc = ssrc, !.did = @ \/ Jumped(read)]
           /\ rsend' = [last |-> s.last, rest |-> s.rest]
           /\ rghost' = [rghost EXCEPT !.in = @ \o s.buf, !.many = @ \/ Len(read) > 2]
           /\ IF Len(read) < 2 THEN UNCHANGED <<rpc, rfound>>
              ELSE rpc' = "frames" /\ rfound' = read
  /\ UNCHANGED <<rtpc, rloc, rnow>>

(* getScheduledOutputuS.                                                   *)
ScheduledOutput(c, ts) == c.wallFirst + PtsDiff(c.tsFirst, ts) + RtpLatency

(* Deviation: a time may go back.                                          *)
NotBackEver(busy, at) == at
(* No item is scheduled before the one ahead of it.                        *)
NotBack(busy, at) ==
  IF busy # << >> /\ Last(busy).at > at THEN Last(busy).at + 1 ELSE at

(* smoother_rtp_write2.                                                    *)
RtpWrite2 ==
  /\ rpc = "frames" /\ rfound[1].len > 0
  /\ LET f == rfound[1]
         c == IF rtp.tsFirst # -1 THEN rtp
              ELSE [rtp EXCEPT !.tsFirst = f.ts, !.wallFirst = rnow]
         item == [data |-> SubSeq(c.ba, f.first, f.first + f.len - 1), rx |-> rnow,
                  at |-> NotBack(c.busy, ScheduledOutput(c, f.ts))]
     IN  rtp' = [c EXCEPT !.busy = Append(@, item), !.total = @ + f.len]
  /\ rfound' = Tail(rfound)
  /\ UNCHANGED <<rpc, rtpc, rloc, rsend, rnow, rghost>>

(* byte_array_trim: up to the frame that was not queued.                   *)
Trim(ba, first) == SubSeq(ba, first, Len(ba))

(* The end of smoother_rtp_write: the time base is taken anew after a jump *)
(* and after a minute.                                                     *)
RtpWriteEnd ==
  /\ rpc = "frames" /\ rfound[1].len = 0
  /\ LET late == rnow >= rtp.resetAt + RebaseTime
     IN  rtp' = [rtp EXCEPT !.ba = Trim(@, rfound[1].first), !.did = FALSE,
                            !.resetAt = IF late THEN rnow ELSE @,
                            !.tsFirst = IF late \/ rtp.did THEN -1 ELSE @]
  /\ rpc' = "idle" /\ rfound' = << >>
  /\ UNCHANGED <<rtpc, rloc, rsend, rnow, rghost>>

(* The bytes of a list of items.                                           *)
DataOf(items) == FlattenSeq([i \in DOMAIN items |-> items[i].data])

DropQueue(c) == [c EXCEPT !.busy = << >>, !.wallFirst = 0, !.tsFirst = -1, !.total = 0]

(* smoother_rtp_reset.                                                     *)
RtpReset ==
  /\ rpc = "idle"
  /\ rtp' = DropQueue(rtp)
  /\ LET kept == Len(rghost.out) + Len(DataOf(rloc))
     IN  rghost' = [rghost EXCEPT !.late = @ \/ rloc # << >>,
                      !.in = SubSeq(@, 1, kept) \o rtp.ba]
  /\ UNCHANGED <<rpc, rfound, rtpc, rloc, rsend, rnow>>

(* smoother_rtp_free waits for the thread when it sees one.                *)
RtpFree ==
  /\ rpc = "idle"
  /\ rtp' = IF rtp.running THEN [rtp EXCEPT !.terminated = FALSE, !.terminate = TRUE] ELSE rtp
  /\ rpc' = IF rtp.running THEN "wait" ELSE "freed"
  /\ rghost' = [rghost EXCEPT !.raced = ~rtp.running]
  /\ UNCHANGED <<rfound, rtpc, rloc, rsend, rnow>>
RtpFreeEnd ==
  /\ rpc = "wait" /\ rtp.terminated /\ rpc' = "freed"
  /\ UNCHANGED <<rtp, rfound, rtpc, rloc, rsend, rnow, rghost>>

-----------------------------------------------------------------------------
(* _threadFunc and _queueProcess: every item that is due, in the order of  *)
(* the list.                                                               *)
RtpThreadStart ==
  /\ rtpc = "new" /\ rtpc' = "loop"
  /\ rtp' = [rtp EXCEPT !.terminated = FALSE, !.running = TRUE]
  /\ UNCHANGED <<rpc, rfound, rloc, rsend, rnow, rghost>>

Sort(w, e, now) ==
  IF e.at <= now THEN [w EXCEPT !.due = Append(@, e)] ELSE [w EXCEPT !.kept = Append(@, e)]
Walk(busy, now) ==
  FoldLeft(LAMBDA w, e : Sort(w, e, now), [due |-> << >>, kept |-> << >>], busy)

RtpTakeDue ==
  /\ rtpc = "loop" /\ ~rtp.terminate
  /\ LET w == Walk(rtp.busy, rnow)
     IN  /\ w.due # << >> /\ rloc' = w.due /\ rtpc' = "emit"
         /\ rtp' = [rtp EXCEPT !.busy = w.kept]
  /\ UNCHANGED <<rpc, rfound, rsend, rnow, rghost>>

RtpEmit ==
  /\ rtpc = "emit" /\ rloc' = Tail(rloc)
  /\ rtp' = [rtp EXCEPT !.total = @ - Len(rloc[1].data)]
  /\ rghost' = [rghost EXCEPT !.out = @ \o rloc[1].data]
  /\ rtpc' = IF Len(rloc) = 1 THEN "loop" ELSE "emit"
  /\ UNCHANGED <<rpc, rfound, rsend, rnow>>

RtpThreadEnd ==
  /\ rtpc = "loop" /\ rtp.terminate /\ rtpc' = "done"
  /\ rtp' = [rtp EXCEPT !.running = TRUE, !.terminated = TRUE]
  /\ UNCHANGED <<rpc, rfound, rloc, rsend, rnow, rghost>>

RtpTick == rnow < RtpTicks /\ rnow' = rnow + 1
           /\ UNCHANGED <<rtp, rpc, rfound, rtpc, rloc, rsend, rghost>>

RtpCaller == RtpWrite \/ RtpWrite2 \/ RtpWriteEnd \/ RtpReset \/ RtpFree \/ RtpFreeEnd
RtpThread == RtpThreadStart \/ RtpTakeDue \/ RtpEmit \/ RtpThreadEnd
(* Once the context is freed a thread that was not seen runs on memory     *)
(* that is gone: the behaviour ends there.                                 *)
RtpNext == rpc # "freed" /\ (RtpCaller \/ RtpThread \/ RtpTick)

RtpSpec == RtpInit /\ [][RtpNext]_rtpVars

-----------------------------------------------------------------------------
(* The bytes of the stream leave the smoother as they came, each once and  *)
(* in their order, however the caller cut them up and however their time   *)
(* stamps jump: what is out, in the thread's hands, in the queue and in    *)
(* the buffer is what was written, less what a reset dropped.              *)
RtpKeepsBytes ==
  rpc # "frames" => rghost.out \o DataOf(rloc) \o DataOf(rtp.busy) \o rtp.ba = rghost.in

(* A frame waits for the latency and no more than a jump limit for each    *)
(* frame sent so far: a wrap or a longer jump of the time stamps does not  *)
(* leave it in the queue for hours, as long as no write found more than    *)
(* two frames.  (The third time stamp is not converted, and a wrap after   *)
(* the first pair is not seen.)                                            *)
RtpDueSoon ==
  ~rghost.many =>
    \A i \in DOMAIN rtp.busy :
      LET e == rtp.busy[i] IN e.at <= e.rx + RtpLatency + JumpLimit * e.data[1][2].n

(* The size of the queue is that of the items not yet sent, except after a *)
(* reset that fell into a pass of the thread, which is subtracted twice.   *)
RtpSizeIsHeld == ~rghost.late => rtp.total = Len(DataOf(rloc)) + Len(DataOf(rtp.busy))

(* When free returns the thread is done with the context, unless free was  *)
(* called before the thread had come to announce itself.                   *)
RtpFreedAlone == rpc = "freed" => rtpc = "done" \/ rghost.raced

(* The RTP smoother passes on what it was given, soon enough, knows how    *)
(* much it holds, and is not freed under its thread.                       *)
RtpIsSmoothed ==
  /\ RtpKeepsBytes
  /\ RtpDueSoon
  /\ RtpSizeIsHeld
  /\ RtpFreedAlone

-----------------------------------------------------------------------------
(* The inductive invariant.                                                *)
RtpFrame == [n : Nat, ts : 0 .. RtpModulus - 1, ssrc : {1, 2}]
RtpUnit == {"h", "p"} \X RtpFrame
RtpItem == [data : Seq(RtpUnit), rx : Nat, at : Int]
RtpPlace == [first : Nat \ {0}, len : Nat, ts : Nat]

RtpTypes ==
  /\ rtp \in [busy : Seq(RtpItem), tsFirst : Int, wallFirst : Nat, total : Int, ba : Seq(RtpUnit),
              ssrc : {-1, 0, 1, 2}, did : BOOLEAN, resetAt : Nat, running : BOOLEAN,
              terminate : BOOLEAN, terminated : BOOLEAN]
  /\ rpc \in {"idle", "frames", "wait", "freed"} /\ rfound \in Seq(RtpPlace)
  /\ rtpc \in {"new", "loop", "emit", "done"} /\ rloc \in Seq(RtpItem) /\ rnow \in Nat
  /\ rsend \in [last : RtpFrame, rest : Seq(RtpUnit)]
  /\ rghost \in [in : Seq(RtpUnit), out : Seq(RtpUnit), many : BOOLEAN, late : BOOLEAN, raced : BOOLEAN]

(* Frames are numbered in the order they are sent.                         *)
Numbered(units) ==
  \A i, j \in 1 .. Len(units) :
    i < j => /\ units[i][2].n <= units[j][2].n
             /\ units[j][1] = "h" => units[i][2].n < units[j][2].n

(* The byte array begins with a frame of the SSRC that is looked for.      *)
RtpBuffer ==
  /\ Numbered(rtp.ba) /\ \A i \in 1 .. Len(rtp.ba) : rtp.ba[i][2].n <= rsend.last.n
  /\ \A i \in 1 .. Len(rsend.rest) : rsend.rest[i] = <<"p", rsend.last>>
  /\ rtp.ssrc = -1 => rtp.ba = << >>
  /\ rtp.ssrc \in {1, 2} => rtp.ba # << >> /\ rtp.ba[1][1] = "h" /\ rtp.ba[1][2].ssrc = rtp.ssrc

(* What is still to be queued of a write lies end to end, and but for the  *)
(* last is not empty.                                                      *)
LaidOut(found, ba, ssrc) ==
  \A k \in 1 .. Len(found) :
    /\ found[k].first <= Len(ba)
    /\ ba[found[k].first][1] = "h" /\ ba[found[k].first][2].ssrc = ssrc
    /\ k = Len(found) => found[k].len = 0
    /\ k < Len(found) => found[k].len > 0 /\ found[k].first + found[k].len = found[k + 1].first
RtpPlaces ==
  rpc = "frames" =>
    /\ rfound # << >> /\ LaidOut(rfound, rtp.ba, rtp.ssrc)
    /\ ~rghost.many => /\ Len(rfound) <= 2
                       /\ \A k \in 1 .. Len(rfound) : rfound[k].ts = rtp.ba[rfound[k].first][2].ts

(* The first unit that is not queued yet.                                  *)
Unqueued == IF rpc = "frames" THEN rfound[1].first ELSE 1
RtpBytes ==
  rghost.out \o DataOf(rloc) \o DataOf(rtp.busy) \o SubSeq(rtp.ba, Unqueued, Len(rtp.ba)) = rghost.in

RtpQueue ==
  /\ \A i, j \in 1 .. Len(rtp.busy) : i < j => rtp.busy[i].at <= rtp.busy[j].at
  /\ \A i \in 1 .. Len(rtp.busy) : rtp.busy[i].data # << >> /\ rtp.busy[i].rx <= rnow
  /\ rtp.wallFirst <= rnow

RtpFlags ==
  /\ rloc # << >> <=> rtpc = "emit"
  /\ rtp.terminated => rtpc = "done"
  /\ rpc # "frames" => ~rtp.did

(* Until a jump the time stamps rise from the base by no more than the     *)
(* limit for each frame.                                                   *)
RtpBase ==
  ~rghost.many =>
    /\ \A i \in 1 .. Len(rtp.busy) :
         Unqueued <= Len(rtp.ba) /\ rtp.busy[i].data[1][2].n < rtp.ba[Unqueued][2].n
    /\ rtp.tsFirst # -1 =>
         /\ rtp.tsFirst >= 0 /\ Unqueued <= Len(rtp.ba)
         /\ \/ rtp.did /\ Len(rfound) = 1
            \/ LET f == rtp.ba[Unqueued][2]
               IN  rtp.tsFirst <= f.ts /\ f.ts <= rtp.tsFirst + JumpLimit * f.n
    /\ rpc = "frames" /\ Len(rfound) = 2 /\ ~rtp.did => PtsDiff(rfound[1].ts, rfound[2].ts) <= JumpLimit

RtpInv ==
  /\ RtpTypes /\ RtpBuffer /\ RtpPlaces /\ RtpBytes /\ RtpQueue /\ RtpFlags /\ RtpBase
  /\ RtpDueSoon /\ RtpSizeIsHeld /\ RtpFreedAlone
=============================================================================

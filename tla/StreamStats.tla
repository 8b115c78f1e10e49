----------------------------- MODULE StreamStats -----------------------------
(***************************************************************************)
(* stats.c: the statistics of one stream and of its PIDs, as operators on  *)
(* the whole object (a record S).  A packet is a record of the header      *)
(* fields the code looks at; pcr is -1 when it carries none.  Wall time    *)
(* and PCRs count the same ticks, TickRate to a second.  mbps is not kept: *)
(* it is pps in other units, and is set with it everywhere.  Allocations   *)
(* do not fail.                                                            *)
(***************************************************************************)
EXTENDS ClockOps, Sequences, SequencesExt, FiniteSetsExt

CONSTANTS
  Pids, NullPid,  \* the PIDs, and 0x1fff
  PcrWarmup,      \* PCRs passed over before the clock is based (100)
  PcrLimit,       \* ticks in 40 ms
  ScrWrapped,     \* ticks in 5 s: below it a PCR that went back has wrapped
  UdpPackets,     \* packets of a full datagram (7)
  IatSpan,        \* seconds for which a largest gap is reported (5)
  IatStart        \* where the low-water mark starts (50 s)

ASSUME StatsAssumption ==
  /\ NullPid \in Pids /\ PcrWarmup \in Nat /\ PcrLimit \in Nat /\ ScrWrapped \in Nat
  /\ UdpPackets \in Nat \ {0} /\ IatSpan \in Nat /\ IatStart \in Nat

Events == {"PUSI_DELIVERY_TIME", "PCR_EXCEEDS_40MS", "PCR_WALLTIME", "CC_COUNT", "TEI_COUNT",
           "SCRAMBLED_COUNT", "MBPS", "PCR_MBPS", "IAT_HWM"}

SecondOf(at) == at \div TickRate
With(f, x, v) == [y \in DOMAIN f \cup {x} |-> IF y = x THEN v ELSE f[y]]
Bump(b) == IF b THEN 1 ELSE 0

(* struct ltntstools_pid_statistics_s after ltntstools_pid_statistics_     *)
(* alloc; the histograms are the number of their samples.                  *)
PidStart ==
  [pkts |-> 0, cc |-> 0, tei |-> 0, scr |-> 0, exc |-> 0, prevExc |-> 0, pusiErr |-> 0,
   lastCC |-> 0, at |-> 0, pps |-> 0, win |-> 0, hasPCR |-> FALSE, seen |-> 0,
   clk |-> Initialized, drift |-> 0, first |-> 0, cur |-> 0, ms |-> 0, ticksH |-> 0, wallH |-> 0]

(* ltntstools_pid_statistics_reset: whether the PID carries PCRs is kept,  *)
(* and of its clock all but the marks and the wall clock.                  *)
PidReset(p) ==
  [PidStart EXCEPT !.hasPCR = p.hasPCR,
                   !.clk = [p.clk EXCEPT !.hwm = 0, !.lwm = 0, !.wall = FALSE]]

(* struct ltntstools_bc_ctx_s; ccAtFirst is a history field: the errors    *)
(* counted when the first PCR was taken.                                   *)
CalcStart == [pid |-> 0, first |-> -1, second |-> -1, between |-> 0, running |-> TRUE,
              rate |-> <<0, 1>>, perPacket |-> 0, stc |-> 0, ccSeen |-> 0, ccAtFirst |-> 0]

(* ltntstools_bitrate_calculator_reset.                                    *)
CalcReset(b) == [b EXCEPT !.first = -1, !.second = -1, !.between = 0, !.running = TRUE]

StreamStart ==
  [pkts |-> 0, tei |-> 0, cc |-> 0, history |-> 0, scr |-> 0, exc |-> 0, prevExc |-> 0,
   pusiErr |-> 0, ccAt |-> 0, at |-> 0, pps |-> 0, win |-> 0, seq |-> 0, BpsAt |-> 0, Bps |-> 0,
   Bwin |-> 0, ambps |-> 0, abps |-> 0, odd |-> 0, oddAt |-> 0, lwm |-> IatStart, hwm |-> -1,
   gap |-> 0, spanHwm |-> 0, spanAcc |-> 0, spanAt |-> 0, lastFrame |-> 0, iatH |-> 0]

(* ltntstools_pid_stats_alloc.                                             *)
StatsAlloc ==
  [st |-> StreamStart, bc |-> CalcStart, pids |-> << >>, array |-> << >>,
   on |-> {}, heard |-> [e \in Events |-> 0]]

(* ltntstools_pid_stats_reset.                                             *)
StatsReset(S) ==
  [S EXCEPT !.st = StreamStart, !.bc = CalcReset(S.bc),
            !.pids = [p \in DOMAIN S.pids |-> PidReset(S.pids[p])]]

(* ltntstools_pid_stats_clone: everything, the listeners too.              *)
StatsClone(S) == [S EXCEPT !.array = SubSeq(S.array, 1, Len(S.array)),
                           !.pids = [p \in DOMAIN S.pids |-> S.pids[p]]]

(* ltntstools_notification_register_callback and _unregister_callback(s).  *)
Register(S, e) == [S EXCEPT !.on = @ \cup {e}, !.heard[e] = 0]
Unregister(S, es) == [S EXCEPT !.on = @ \ es]
Notify(S, e) == IF e \in S.on THEN [S EXCEPT !.heard[e] = @ + 1] ELSE S

(* ltntstools_isCCInError, ltntstools_isPayloadPUSIInError.                *)
IsCCInError(pkt, old) ==
  IF pkt.cc = old THEN pkt.adap \in {1, 3} ELSE (old + 1) % 16 # pkt.cc
IsPayloadPUSIInError(pkt) == pkt.adap \in {0, 2} /\ pkt.pusi

(* _stream_increment_cc_errors.                                            *)
StreamCcError(S, at) ==
  Notify([S EXCEPT !.st.cc = @ + 1, !.st.ccAt = SecondOf(at), !.st.history = @ + 1], "CC_COUNT")

(* ltntstools_scr_diff.                                                    *)
ScrDiff(from, to) ==
  IF from > to /\ to < ScrWrapped THEN Modulus - from + to ELSE to - from

-----------------------------------------------------------------------------
(* ltntstools_bitrate_calculator_write.  r.done: it has returned.          *)
Measured(b) ==
  LET ticks == ScrDiff(b.first, b.second)
  IN  IF ticks <= 0 \/ b.between = 0 THEN CalcReset(b)
      ELSE [CalcReset(b) EXCEPT !.rate = <<b.between, ticks>>, !.perPacket = ticks \div b.between]

CcChanged(b, cc) == b.ccSeen # cc

CalcPacket(r, pkt) ==
  LET b == [r.b EXCEPT !.between = @ + Bump(r.b.first > -1 /\ r.b.second = -1)]
      taken == IF pkt.pcr = -1 THEN b
               ELSE IF b.first = -1
                    THEN [b EXCEPT !.first = pkt.pcr, !.between = 0, !.ccAtFirst = r.cc]
                    ELSE [b EXCEPT !.second = pkt.pcr, !.stc = pkt.pcr]
      whole == taken.first > -1 /\ taken.second > -1
      good == whole /\ ScrDiff(taken.first, taken.second) > 0 /\ taken.between > 0
  IN  IF r.done THEN r
      ELSE IF CcChanged(r.b, r.cc)
           THEN [r EXCEPT !.done = TRUE, !.b = [CalcReset(r.b) EXCEPT !.ccSeen = r.cc]]
      ELSE IF pkt.pid # b.pid /\ b.first = -1 THEN [r EXCEPT !.b = b]
      ELSE [r EXCEPT !.b = IF whole THEN Measured(taken) ELSE taken,
                     !.done = whole /\ ~good, !.complete = @ \/ good]

CalcWrite(b, cc, buf) ==
  FoldLeft(CalcPacket, [b |-> [b EXCEPT !.stc = @ + Len(buf) * b.perPacket],
                        cc |-> cc, done |-> ~b.running, complete |-> FALSE], buf)

(* ltntstools_bitrate_calculator_init, of set_contains_pcr.                *)
CalcInit(S, pid) == [S EXCEPT !.bc = CalcReset([@ EXCEPT !.pid = pid, !.ccSeen = S.st.cc])]

-----------------------------------------------------------------------------
(* The parts of ltntstools_pid_stats_update, in order.                     *)
OddLength(S, odd, at) ==
  IF odd THEN [S EXCEPT !.st.odd = @ + 1, !.st.oddAt = SecondOf(at)] ELSE S

Bitrate(S, buf) ==
  LET r == CalcWrite(S.bc, S.st.cc, buf)
      T == [S EXCEPT !.bc = r.b]
  IN  IF S.bc.pid = 0 THEN S ELSE IF r.complete THEN Notify(T, "PCR_MBPS") ELSE T

CountPacket(S, pkt, at) ==
  IF pkt.sync THEN [S EXCEPT !.st.pkts = @ + 1] ELSE StreamCcError(S, at)
SyncCount(S, buf, at) == FoldLeft(LAMBDA T, pkt : CountPacket(T, pkt, at), S, buf)

Window(S, n, at) ==
  LET T == IF SecondOf(at) = S.st.at THEN S
           ELSE Notify([S EXCEPT !.st.pps = S.st.win, !.st.win = 0, !.st.at = SecondOf(at)], "MBPS")
  IN  [T EXCEPT !.st.win = @ + n]

(* The gap between two calls, its marks, and the largest of each span.     *)
Gap(S, at) ==
  LET gap == at - S.st.lastFrame
      acc == Max({S.st.spanAcc, gap})
      over == S.st.spanAt + IatSpan <= SecondOf(at)
      T == [S EXCEPT !.st.gap = gap, !.st.lwm = Min({@, gap}), !.st.hwm = Max({@, gap}),
                     !.st.spanAcc = IF over THEN 0 ELSE acc,
                     !.st.spanHwm = IF over THEN acc ELSE @,
                     !.st.spanAt = IF over THEN SecondOf(at) ELSE @, !.st.iatH = @ + 1]
  IN  IF S.st.lastFrame < TickRate THEN S
      ELSE IF gap >= S.st.hwm THEN Notify(T, "IAT_HWM") ELSE T

(* The object of a PID is made with its first packet, and entered in the   *)
(* directory (_pidArrayAdd).                                               *)
Discover(S, pid) ==
  IF pid \in DOMAIN S.pids THEN S
  ELSE [S EXCEPT !.array = Append(@, pid), !.pids = With(@, pid, PidStart)]

Pusi(S, pkt, at) ==
  LET p == S.pids[pkt.pid]
      bad == Bump(IsPayloadPUSIInError(pkt))
      whole == pkt.pusi /\ p.first >= TickRate /\ p.cur >= TickRate
      T == [S EXCEPT !.st.pusiErr = @ + bad,
                     !.pids[pkt.pid] = [p EXCEPT !.pkts = @ + 1, !.pusiErr = @ + bad,
                        !.ms = IF whole THEN p.cur - p.first ELSE @,
                        !.first = IF pkt.pusi THEN at ELSE @, !.cur = at]]
  IN  IF whole THEN Notify(T, "PUSI_DELIVERY_TIME") ELSE T

PidWindow(S, pkt, at) ==
  LET p == S.pids[pkt.pid]
      turned == IF SecondOf(at) = p.at THEN p
                ELSE [p EXCEPT !.pps = p.win, !.win = 0, !.at = SecondOf(at)]
  IN  [S EXCEPT !.pids[pkt.pid] = [turned EXCEPT !.win = @ + 1]]

(* Deviation: the loss is counted for the PID alone.                       *)
ContinuityPidOnly(S, pkt, at) ==
  LET p == S.pids[pkt.pid]
      bad == IsCCInError(pkt, p.lastCC) /\ p.pkts > 1 /\ pkt.pid # NullPid
  IN  [S EXCEPT !.pids[pkt.pid].cc = @ + Bump(bad)]
Continuity(S, pkt, at) ==
  LET p == S.pids[pkt.pid]
      bad == IsCCInError(pkt, p.lastCC) /\ p.pkts > 1 /\ pkt.pid # NullPid
  IN  IF bad THEN StreamCcError([S EXCEPT !.pids[pkt.pid].cc = @ + 1], at) ELSE S

Scrambled(S, pkt, at) ==
  LET T == [S EXCEPT !.pids[pkt.pid].lastCC = pkt.cc]
  IN  IF pkt.sc = 0 THEN T
      ELSE Notify([T EXCEPT !.st.scr = @ + 1, !.pids[pkt.pid].scr = @ + 1], "SCRAMBLED_COUNT")

Tei(S, pkt, at) ==
  IF ~pkt.tei THEN S
  ELSE Notify([S EXCEPT !.st.tei = @ + 1, !.pids[pkt.pid].tei = @ + 1], "TEI_COUNT")

(* A PCR on a PID that is known to carry them, once it is warm.            *)
Pcr(S, pkt, at) ==
  LET p == S.pids[pkt.pid]
      based == IF p.clk.timebase THEN p.clk ELSE EstablishTimebase(Initialized, "PCR")
      walled == IF based.wall THEN based ELSE EstablishWallclock(based, pkt.pcr, at)
      delta == ComputeDelta(walled, pkt.pcr, walled.cur)
      late == delta > PcrLimit
      clock == GetDrift(SetTicks(walled, pkt.pcr, at), at)
      T == [S EXCEPT !.st.prevExc = S.st.exc, !.st.exc = @ + Bump(late),
              !.pids[pkt.pid] = [p EXCEPT !.seen = @ + 1, !.clk = clock, !.drift = clock.drift,
                 !.prevExc = p.exc, !.exc = @ + Bump(late), !.ticksH = @ + 1, !.wallH = @ + 1]]
      U == Notify(T, "PCR_WALLTIME")
  IN  IF ~p.hasPCR \/ pkt.pcr = -1 THEN S
      ELSE IF p.seen < PcrWarmup THEN [S EXCEPT !.pids[pkt.pid].seen = @ + 1]
      ELSE IF late THEN Notify(U, "PCR_EXCEEDS_40MS") ELSE U

OnePacket(S, pkt, at) ==
  Pcr(Tei(Scrambled(Continuity(PidWindow(Pusi(Discover(S, pkt.pid), pkt, at), pkt, at),
                               pkt, at), pkt, at), pkt, at), pkt, at)
EachPacket(S, buf, at) == FoldLeft(LAMBDA T, pkt : OnePacket(T, pkt, at), S, buf)

PidStatsUpdate(S, buf, at) ==
  LET T == Gap(Window(SyncCount(Bitrate(OddLength(S, Len(buf) # UdpPackets, at), buf),
                                buf, at), Len(buf), at), at)
  IN  [EachPacket(T, buf, at) EXCEPT !.st.lastFrame = at]

(* ltntstools_pid_stats_pid_set_contains_pcr.                              *)
SetContainsPcr(S, pid) == CalcInit([Discover(S, pid) EXCEPT !.pids[pid].hasPCR = TRUE], pid)

-----------------------------------------------------------------------------
(* The window of bytes of the two other kinds of stream.                   *)
ByteWindow(S, bytes, at) ==
  LET T == IF SecondOf(at) = S.st.BpsAt THEN S
           ELSE [S EXCEPT !.st.Bps = S.st.Bwin, !.st.Bwin = 0, !.st.abps = S.st.Bwin * 8,
                          !.st.ambps = S.st.Bwin * 8, !.st.BpsAt = SecondOf(at)]
  IN  [T EXCEPT !.st.Bwin = @ + bytes]

(* ltntstools_bytestream_stats_update.                                     *)
BytestreamUpdate(S, bytes, full, at) ==
  ByteWindow(OddLength([S EXCEPT !.st.pkts = @ + 1], ~full, at), bytes, at)

(* ltntstools_ctp_stats_update: seq is 16 bits wide, and a frame of less   *)
(* than 4 bytes has none.                                                  *)
CtpUpdate(S, bytes, full, seq, at) ==
  LET T == OddLength(S, ~full, at)
      U == IF (S.st.seq + 1) % 65536 # seq /\ S.st.pkts > 0 THEN StreamCcError(T, at) ELSE T
  IN  IF bytes < 4 THEN T
      ELSE ByteWindow([U EXCEPT !.st.seq = seq, !.st.pkts = @ + 1], bytes, at)

(* Deviation: the rate of a silent stream is kept.                         *)
ExpireStreamNever(S, at) == S
(* _expire_per_second_stream_stats and _expire_per_second_pid_stats, which *)
(* the queries of rates begin with.                                        *)
ExpireStream(S, at) ==
  IF S.st.Bwin > 0 /\ SecondOf(at) > S.st.BpsAt + 2
  THEN [S EXCEPT !.st.ambps = 0, !.st.Bps = 0, !.st.Bwin = 0]
  ELSE IF SecondOf(at) > S.st.at + 2 THEN [S EXCEPT !.st.pps = 0, !.st.win = 0] ELSE S
ExpirePid(S, pid, at) ==
  IF pid \in DOMAIN S.pids /\ SecondOf(at) > S.pids[pid].at + 2
  THEN [S EXCEPT !.pids[pid].pps = 0, !.pids[pid].win = 0] ELSE S

(* ltntstools_pid_stats_stream_padding_pct, after both queries.            *)
PaddingPct(S, at) ==
  LET T == ExpireStream(ExpirePid(S, NullPid, at), at)
  IN  IF T.st.pps = 0 \/ NullPid \notin DOMAIN T.pids THEN 0
      ELSE (T.pids[NullPid].pps * 100) \div T.st.pps

(* What the queries that change nothing return: of the stream, and of a    *)
(* PID, 0 for one that was not seen.                                       *)
StreamReport(S) ==
  [packet_count |-> S.st.pkts, ccerror_count |-> S.st.cc, tei_errors |-> S.st.tei,
   scrambled_count |-> S.st.scr, pcr_exceeds |-> S.st.exc, pusi_errors |-> S.st.pusiErr,
   notmultipleofseven |-> S.st.odd]
PidReport(S, pid) ==
  IF pid \notin DOMAIN S.pids THEN [packet_count |-> 0, cc_errors |-> 0, tei_errors |-> 0,
                                    scrambled |-> 0, pcr_exceeds |-> 0, pusi_errors |-> 0]
  ELSE LET p == S.pids[pid]
       IN  [packet_count |-> p.pkts, cc_errors |-> p.cc, tei_errors |-> p.tei,
            scrambled |-> p.scr, pcr_exceeds |-> p.exc, pusi_errors |-> p.pusiErr]
=============================================================================

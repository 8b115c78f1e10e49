------------------------------ MODULE MCStream ------------------------------
(***************************************************************************)
(* A stream that is measured (stats.c) and, in other behaviours, checked   *)
(* (tr101290-p1.c and -p2.c).  Each call brings one of a few buffers.      *)
(***************************************************************************)
EXTENDS TR101290Checks, TLC

CONSTANTS
  TsBuffers(_),  \* the buffers of call n of the measured stream
  TrBuffers(_),  \* and of the monitored one
  PcrPid,        \* the PID a caller says carries PCRs
  Models,        \* what the stream model may find in a write: programs
  Found,         \* and the tables whose CRC it checked
  MaxCalls, Epoch, Kinds

Packets ==
  [sync : BOOLEAN, pid : Pids, cc : 0 .. 15, adap : 0 .. 3, pusi : BOOLEAN, sc : 0 .. 3,
   tei : BOOLEAN, pcr : -1 .. Modulus - 1, tid : Nat]
Programs == [number : Nat, pmt : Pids \ {0, NullPid}, es : SUBSET Pids, pcr : Pids \cup {0}]

(* Calls bring packets.  There are as many timers as programs, the stream  *)
(* model looks for no CAT, and the wall clock is past its first seconds.   *)
ASSUME StreamAssumption ==
  /\ IsFiniteSet(Pids) /\ PcrPid \in Pids
  /\ \A n \in 0 .. MaxCalls : TsBuffers(n) \cup TrBuffers(n) \subseteq Seq(Packets) \ {<< >>}
  /\ Models \subseteq Seq(Programs)
  /\ \A m \in Models : Cardinality(Real(m)) <= PmtSlots
  /\ \A f \in Found : f \in Seq([table : {"PAT", "PMT", "SDT"}, valid : BOOLEAN])
  /\ MaxCalls \in Nat /\ Epoch \in Nat
  /\ Epoch >= PidSilence * TickRate /\ Epoch >= TableTime /\ Epoch >= TickRate

VARIABLES
  kind,   \* "ts", "ctp" or "bytes": a stream is of one kind; "tr": it is monitored
  S,      \* the statistics
  R,      \* the monitor
  ghost,  \* history
  now, calls,
  op      \* the last call

vars == <<kind, S, R, ghost, now, calls, op>>

-----------------------------------------------------------------------------
(* The packets and buffers of the instance that is checked.                *)
Plain(pid, cc) == [sync |-> TRUE, pid |-> pid, cc |-> cc, adap |-> 1, pusi |-> FALSE, sc |-> 0,
                   tei |-> FALSE, pcr |-> -1, tid |-> 0]
Video(cc) == Plain(2, cc)
Pat == [Plain(0, 0) EXCEPT !.pusi = TRUE]
BadPat == [Pat EXCEPT !.tid = 1]
Pmt == [Plain(1, 0) EXCEPT !.adap = 2]
Clocked(cc, pcr) == [Video(cc) EXCEPT !.adap = 3, !.pcr = pcr]
NoSync == [Plain(NullPid, 5) EXCEPT !.sync = FALSE]
Null == Plain(NullPid, 3)

(* Buffers of the measured stream.                                         *)
CheckedTs(n) ==
  { <<Video(n % 16), Null>>,
    <<Clocked(n % 16, (3 * n) % Modulus), Video((n + 1) % 16)>>,
    <<Clocked(n % 16, (3 * n + 1) % Modulus), Null, Clocked((n + 1) % 16, (3 * n + 2) % Modulus)>>,
    <<[Video(n % 16) EXCEPT !.tei = TRUE, !.sc = 2], [Plain(1, 0) EXCEPT !.adap = 2, !.pusi = TRUE]>>,
    <<NoSync>> }

(* Buffers of the monitored one.                                           *)
CheckedTr(n) ==
  { <<Pat, Pmt, Video(n % 16)>>, <<Video(n % 16)>>, <<BadPat, NoSync, NoSync>>,
    <<[Video(n % 16) EXCEPT !.sc = 1], Video((n + 1) % 16)>>,
    <<Video(n % 16), Pmt, Pat, Video((n + 1) % 16), Video((n + 2) % 16), Video((n + 3) % 16)>> }
CheckedModels == {<<[number |-> 0, pmt |-> 3, es |-> {}, pcr |-> 0], [number |-> 1, pmt |-> 1, es |-> {2}, pcr |-> 2]>>}
CheckedFound == {<< >>, <<[table |-> "SDT", valid |-> TRUE]>>, <<[table |-> "PAT", valid |-> FALSE]>>}

-----------------------------------------------------------------------------
GhostStart ==
  [unsynced |-> 0, ctpLost |-> 0, frames |-> 0, base |-> [e \in Events |-> 0],
   bySecond |-> << >>, rate |-> 0, errors |-> 0,
   run |-> 0, ok |-> 0, seen |-> << >>, next |-> << >>, lost |-> FALSE, scrambled |-> FALSE,
   patAt |-> 0, badPat |-> FALSE, modelAt |-> 0, hits |-> 0, loss |-> "none"]

Init ==
  /\ kind \in Kinds
  /\ S = StatsAlloc /\ R = ChecksStart /\ ghost = GhostStart /\ now = Epoch /\ calls = 0 /\ op = "alloc"

Call(name) == calls < MaxCalls /\ calls' = calls + 1 /\ op' = name /\ UNCHANGED kind
CountIn(buf, P(_)) == Cardinality({i \in DOMAIN buf : P(buf[i])})
Account(n) ==
  LET k == Len(ghost.bySecond)
  IN  IF k > 0 /\ ghost.bySecond[k][1] = SecondOf(now)
      THEN [ghost.bySecond EXCEPT ![k][2] = @ + n]
      ELSE Append(ghost.bySecond, <<SecondOf(now), n>>)

TsUpdate ==
  /\ kind = "ts" /\ Call("update")
  /\ \E buf \in TsBuffers(calls) :
       /\ S' = PidStatsUpdate(S, buf, now)
       /\ ghost' = [ghost EXCEPT !.unsynced = @ + CountIn(buf, LAMBDA p : ~p.sync),
                      !.bySecond = Account(Len(buf)),
                      !.errors = IF S'.bc.rate # S.bc.rate /\ S.bc.first # -1
                                 THEN S.st.cc - S.bc.ccAtFirst ELSE 0]
  /\ UNCHANGED <<R, now>>

Frame(bytes, skip) ==
  IF kind = "bytes"
  THEN /\ S' = BytestreamUpdate(S, bytes, bytes = 8, now)
       /\ ghost' = [ghost EXCEPT !.frames = @ + 1, !.bySecond = Account(bytes)]
  ELSE LET seq == (S.st.seq + 1 + skip) % 65536
       IN  /\ S' = CtpUpdate(S, bytes, bytes = 8, seq, now)
           /\ ghost' = IF bytes < 4 THEN ghost
                       ELSE [ghost EXCEPT !.frames = @ + 1, !.bySecond = Account(bytes),
                               !.ctpLost = @ + IF skip = 1 /\ ghost.frames > 0 THEN 1 ELSE 0]

FrameUpdate ==
  /\ kind \in {"ctp", "bytes"} /\ Call("update")
  /\ \E bytes \in {2, 8}, skip \in {0, 1} : Frame(bytes, skip)
  /\ UNCHANGED <<R, now>>

SetPcrPid ==
  /\ kind = "ts" /\ Call("update") /\ S' = SetContainsPcr(S, PcrPid) /\ UNCHANGED <<R, ghost, now>>

(* What a listener hears is counted from when it registered, or from the   *)
(* last reset.                                                             *)
ValueOf(T, e) == CASE e = "CC_COUNT" -> T.st.cc [] e = "TEI_COUNT" -> T.st.tei
                   [] e = "SCRAMBLED_COUNT" -> T.st.scr [] OTHER -> 0
Listen ==
  /\ kind \in {"ts", "ctp"} /\ Call("update")
  /\ \/ \E e \in {"CC_COUNT", "TEI_COUNT", "SCRAMBLED_COUNT"} :
          S' = Register(S, e) /\ ghost' = [ghost EXCEPT !.base[e] = ValueOf(S, e)]
     \/ S.on # {} /\ S' = Unregister(S, S.on) /\ UNCHANGED ghost
  /\ UNCHANGED <<R, now>>

Reset ==
  /\ kind # "tr" /\ Call("update")
  /\ S' = StatsReset([S EXCEPT !.heard = [e \in Events |-> 0]])
  /\ ghost' = GhostStart
  /\ UNCHANGED <<R, now>>

(* The caller goes on with a clone, and frees the original.                *)
UseClone == kind # "tr" /\ Call("update") /\ S' = StatsClone(S) /\ UNCHANGED <<R, ghost, now>>

Query ==
  /\ kind # "tr" /\ Call("query")
  /\ S' = ExpireStream(ExpirePid(S, NullPid, now), now)
  /\ ghost' = [ghost EXCEPT !.rate = PaddingPct(S, now),
                 !.bySecond = IF SecondOf(now) > (IF kind = "ts" THEN S.st.at ELSE S.st.BpsAt) + 2
                              THEN << >> ELSE @]
  /\ UNCHANGED <<R, now>>

-----------------------------------------------------------------------------
(* A write of the monitored stream.  The history is kept packet by packet, *)
(* from the packets alone: ok is the number of packets with a sync byte    *)
(* since the last one without, run that of those without since the last    *)
(* one with it, hits that of those without in this write, and loss what a  *)
(* loss of sync (two or more in a row, until six good ones in a row) last  *)
(* came to in this write.                                                  *)
Follow(g, pkt, at) ==
  LET known == pkt.pid \in DOMAIN g.next
      bad == known /\ pkt.pid # NullPid
             /\ ~(pkt.cc = g.next[pkt.pid] \/ (pkt.adap \in {0, 2} /\ (pkt.cc + 1) % 16 = g.next[pkt.pid]))
  IN  [g EXCEPT !.ok = IF pkt.sync THEN @ + 1 ELSE 0, !.run = IF pkt.sync THEN 0 ELSE @ + 1,
                !.next = With(@, pkt.pid, (pkt.cc + 1) % 16), !.seen = With(@, pkt.pid, at),
                !.lost = @ \/ bad \/ ~pkt.sync, !.scrambled = @ \/ pkt.sc # 0,
                !.patAt = IF pkt.pid = 0 THEN at ELSE @,
                !.badPat = @ \/ (pkt.pid = 0 /\ (pkt.tid # 0 \/ pkt.sc # 0)),
                !.hits = IF pkt.sync THEN @ ELSE @ + 1,
                !.loss = IF pkt.sync THEN IF g.ok + 1 > SyncClear THEN "clear" ELSE @
                         ELSE IF g.run + 1 >= SyncLossThreshold THEN "raise" ELSE @]
Followed(g, buf, at) ==
  FoldLeft(LAMBDA h, pkt : Follow(h, pkt, at),
           [g EXCEPT !.lost = FALSE, !.scrambled = FALSE, !.badPat = FALSE, !.hits = 0, !.loss = "none"], buf)

Monitor ==
  /\ kind = "tr" /\ Call("write")
  /\ \E buf \in TrBuffers(calls), crcs \in Found, model \in Models \cup {NoModel} :
       /\ R' = ChecksWrite(R, buf, crcs, model, now)
       /\ ghost' = [Followed(ghost, buf, now) EXCEPT !.modelAt = IF model = NoModel THEN @ ELSE now]
  /\ UNCHANGED <<S, now>>

Tick == Call("tick") /\ \E d \in {1, 4 * TickRate} : now' = now + d /\ UNCHANGED <<S, R, ghost>>

Next == TsUpdate \/ FrameUpdate \/ SetPcrPid \/ Listen \/ Reset \/ UseClone \/ Query \/ Monitor \/ Tick

Spec == Init /\ [][Next]_vars

-----------------------------------------------------------------------------
(* The counts of the stream are those of its PIDs, added up, and the       *)
(* errors that belong to no PID, whatever the order of packets, resets and *)
(* clones: no path of the update counts one and not the other.             *)
StatsAddUp ==
  LET r == StreamReport(S)
      sum(f) == SumFunctionOnSet([pid \in Pids |-> PidReport(S, pid)[f]], Pids)
  IN  /\ r.ccerror_count = sum("cc_errors") + ghost.unsynced + ghost.ctpLost
      /\ r.packet_count = sum("packet_count") - ghost.unsynced + ghost.frames
      /\ r.tei_errors = sum("tei_errors") /\ r.scrambled_count = sum("scrambled")
      /\ r.pcr_exceeds = sum("pcr_exceeds") /\ r.pusi_errors = sum("pusi_errors")

(* The directory of PIDs lists every PID there is an object for, once: a   *)
(* walk over it misses none and visits none twice.                         *)
DirectoryIsExact ==
  ToSet(S.array) = DOMAIN S.pids /\ Len(S.array) = Cardinality(DOMAIN S.pids)

(* A registered listener is called once for every error counted since it   *)
(* registered (or since the reset).                                        *)
HeardEveryError ==
  \A e \in S.on \cap {"CC_COUNT", "TEI_COUNT", "SCRAMBLED_COUNT"} :
    S.heard[e] = ValueOf(S, e) - ghost.base[e]

(* A rate that is read is that of the second before the last one in which  *)
(* anything was received, also when the query comes in a later second (the *)
(* next packet closes a second), and zero once more than two seconds went  *)
(* by in silence.  a324_bps, which the get_bps of the two other kinds of   *)
(* stream return, is that rate until then; the expiry does not touch it,   *)
(* and nothing is said of it afterwards.                                   *)
RateIsLastSecond ==
  [][op' = "query" =>
              LET k == Len(ghost.bySecond)
                  silent == SecondOf(now) > (IF kind = "ts" THEN S.st.at ELSE S.st.BpsAt) + 2
                  last == IF k < 2 THEN 0 ELSE ghost.bySecond[k - 1][2]
              IN  IF kind = "ts" THEN S'.st.pps = IF silent THEN 0 ELSE last
                  ELSE /\ S'.st.ambps = 8 * (IF silent THEN 0 ELSE last)
                       /\ ~silent /\ k > 1 => S'.st.abps = 8 * last]_vars

(* No bitrate is computed from two PCRs between which the stream lost      *)
(* packets, as far as errors of earlier calls go.                          *)
BitrateWithoutLoss == ghost.errors = 0

(* The sync alarms of a write follow the runs of packets with and without  *)
(* a sync byte, which may have begun in earlier writes.  P1.2 is raised by *)
(* a write with a lost sync byte, P1.1 with the second one in a row, both  *)
(* are cleared when more than five good packets in a row end the write,    *)
(* however long ago the last bad one was, and nothing is said of either    *)
(* otherwise: one lost byte after such a clear does not raise P1.1 again.  *)
SyncAlarmsFollowRuns ==
  kind = "tr" /\ R.out # << >> =>
    /\ Verdict(R.out, "P1_2") = IF ghost.ok > SyncClear THEN "clear"
                                ELSE IF ghost.hits > 0 THEN "raise" ELSE "none"
    /\ Verdict(R.out, "P1_1") = ghost.loss
    /\ ghost.run >= SyncLossThreshold => Verdict(R.out, "P1_1") = "raise"
    /\ ghost.ok > SyncClear => Verdict(R.out, "P1_1") = "clear"

(* P1.3 is raised by a write that brings a PAT with a wrong table id or    *)
(* scrambled, or by the first one 500 ms after the last packet of the      *)
(* PAT's PID, and by no other: a bad PAT still counts as one that came.    *)
PatErrorInTime ==
  [][op' = "write" => (Verdict(R'.out, "P1_3") = "raise"
                 <=> ghost'.badPat \/ now >= ghost'.patAt + TableTime)]_vars

(* P1.5 is raised as soon as a PMT of the model was not seen for 500 ms,   *)
(* counted from the model or from the last packet on its PID, and clear    *)
(* when all were.                                                          *)
PmtErrorInTime ==
  [][op' = "write" /\ R'.pat # NoModel =>
       LET since(pid) == Max({ghost'.modelAt} \cup
                             (IF pid \in DOMAIN ghost'.seen THEN {ghost'.seen[pid]} ELSE {}))
       IN  Verdict(R'.out, "P1_5") = "raise" <=>
             \E i \in DOMAIN R'.pat :
               R'.pat[i].number # 0 /\ now >= since(R'.pat[i].pmt) + TableTime]_vars

(* P1.6 is raised when a PID the model refers to, the network's and the    *)
(* PMTs' included, never had a packet or none for five seconds, and not    *)
(* when each of them had one within the last second.  How long a PID may   *)
(* be silent in between is left open: the code waits five seconds, its     *)
(* comments say 2 seconds (tr101290-p1.c:17) and 1000 ms (35).             *)
PidErrorIsSilence ==
  [][op' = "write" /\ R'.pat # NoModel =>
       LET referred == UNION {{R'.pat[i].pmt} \cup R'.pat[i].es : i \in DOMAIN R'.pat}
           gone(pid) == pid \in DOMAIN ghost'.seen =>
                          SecondOf(ghost'.seen[pid]) <= SecondOf(now) - PidSilence
           fresh(pid) == pid \in DOMAIN ghost'.seen /\ now <= ghost'.seen[pid] + TickRate
       IN  /\ (\E pid \in referred : gone(pid)) => Verdict(R'.out, "P1_6") = "raise"
           /\ (\A pid \in referred : fresh(pid)) => Verdict(R'.out, "P1_6") # "raise"]_vars

(* P1.4 is raised in exactly the writes in which packets were lost, and    *)
(* P2.6 only in those with scrambled packets, whether a CAT excuses them   *)
(* or not: the checks compare counts taken before and after the statistics *)
(* saw this buffer.                                                        *)
LossAndScramblingRaised ==
  [][op' = "write" =>
       /\ Verdict(R'.out, "P1_4") = "raise" <=> ghost'.lost
       /\ Verdict(R'.out, "P2_6") = "raise" => ghost'.scrambled]_vars

(* The statistics agree with each other and with what their listeners were *)
(* told.                                                                   *)
StatsAreRight ==
  /\ StatsAddUp
  /\ DirectoryIsExact
  /\ HeardEveryError
  /\ BitrateWithoutLoss

(* Each check raises its event in the write in which its reason arises,    *)
(* and without a reason in none.                                           *)
ChecksInTime ==
  /\ PatErrorInTime
  /\ PmtErrorInTime
  /\ PidErrorIsSilence
  /\ LossAndScramblingRaised
=============================================================================

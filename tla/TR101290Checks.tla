--------------------------- MODULE TR101290Checks ---------------------------
(***************************************************************************)
(* The priority 1 and 2 checks of the TR 101 290 monitor (tr101290-p1.c,   *)
(* tr101290-p2.c) on top of the stream statistics, as operators on what    *)
(* the monitor keeps (a record R).  R.out is the list of verdicts of one   *)
(* write, which the event table (TR101290Alarms) then goes through.  What  *)
(* the stream model finds in a write is an input: the tables whose CRC it  *)
(* checked, and a new model (a set of programs) or none.                   *)
(***************************************************************************)
EXTENDS StreamStats

CONSTANTS
  SyncLossThreshold,  \* SYNC_LOSS_THRESHOLD (2)
  SyncClear,          \* good packets after which the sync alarms clear (5)
  SyncWrap, SyncRestart, \* where the count of good packets stops, and goes on (50000, 16)
  TableTime,          \* ticks in 500 ms
  PidSilence,         \* seconds after which a PID is inactive (5)
  PmtSlots,           \* PMT_ARRAY_SIZE
  PcrArray            \* packets of a write from which P2.3 is not checked (31)

ASSUME ChecksAssumption ==
  /\ SyncLossThreshold \in Nat \ {0} /\ SyncClear \in Nat /\ SyncWrap \in Nat /\ SyncRestart \in Nat
  /\ SyncClear <= SyncRestart /\ SyncClear < SyncWrap
  /\ TableTime \in Nat \ {0} /\ PidSilence \in Nat \ {0, 1} /\ PmtSlots \in Nat /\ PcrArray \in Nat

NoModel == << >>

(* ltntstools_tr101290_alloc, of what the checks use.                      *)
ChecksStart ==
  [S |-> StatsAlloc, good |-> 0, bad |-> 0, lastPAT |-> 0, cc |-> 0, pmts |-> << >>,
   pat |-> NoModel, lastCAT |-> 0, out |-> << >>]

Say(R, e, v) == [R EXCEPT !.out = Append(@, <<e, v>>)]
SayBoth(R, e1, e2, v) == Say(Say(R, e1, v), e2, v)
Judged(R, e, wrong) == Say(R, e, IF wrong THEN "raise" ELSE "clear")

(* Deviation (used by mutation tests only): the count of good packets goes *)
(* on from zero.                                                           *)
GoodCountZero(n) == IF n + 1 >= SyncWrap THEN 0 ELSE n + 1
GoodCount(n) == IF n + 1 >= SyncWrap THEN SyncRestart ELSE n + 1

(* p1_write: P1.1 and P1.2, packet by packet.                              *)
SyncPacket(R, pkt) ==
  LET seen == [R EXCEPT !.good = GoodCount(@), !.bad = 0]
      lost == Say([R EXCEPT !.good = 0, !.bad = @ + 1], "P1_2", "raise")
  IN  IF pkt.sync
      THEN IF R.good + 1 > SyncClear THEN SayBoth(seen, "P1_2", "P1_1", "clear") ELSE seen
      ELSE IF lost.bad >= SyncLossThreshold THEN Say(lost, "P1_1", "raise") ELSE lost
SyncPackets(R, buf) == FoldLeft(SyncPacket, R, buf)

(* Deviation: a bad PAT does not count as one.                             *)
PatAtGood(R, buf, at) ==
  IF \E i \in DOMAIN buf : buf[i].pid = 0 /\ buf[i].tid = 0 THEN at ELSE R.lastPAT
PatAt(R, buf, at) == IF \E i \in DOMAIN buf : buf[i].pid = 0 THEN at ELSE R.lastPAT

(* p1_process_p1_3.                                                        *)
CheckPat(R, buf, at) ==
  LET pats == {i \in DOMAIN buf : buf[i].pid = 0}
      issue == \/ \E i \in pats : buf[i].tid # 0 \/ buf[i].sc # 0
               \/ pats = {} /\ at >= R.lastPAT + TableTime
      T == [R EXCEPT !.lastPAT = PatAt(R, buf, at)]
  IN  Judged(Judged(T, "P1_3", issue), "P1_3a", issue)

(* p1_process_p1_4.                                                        *)
CheckContinuity(R) == [Judged(R, "P1_4", R.cc # R.S.st.cc) EXCEPT !.cc = R.S.st.cc]

(* isPIDActive: the second of the last packet, 0 for a PID not seen.       *)
IsPIDActive(R, pid, at) ==
  (IF pid \in DOMAIN R.S.pids THEN R.S.pids[pid].at ELSE 0) > SecondOf(at) - PidSilence

Referred(pat) == UNION {{pat[i].pmt} \cup pat[i].es : i \in DOMAIN pat}

(* p1_process_p1_6.                                                        *)
CheckPids(R, at) == Judged(R, "P1_6", \E pid \in Referred(R.pat) : ~IsPIDActive(R, pid, at))

(* p2_process_pat_model, on every write once there is a model.             *)
ProgramPcr(S, prg, at) == IF prg.pcr = 0 THEN S ELSE SetContainsPcr(S, prg.pcr)
ProgramPcrs(S, pat, at) == FoldLeft(LAMBDA T, prg : ProgramPcr(T, prg, at), S, pat)
PatModel(R, at) == [R EXCEPT !.S = ProgramPcrs(R.S, R.pat, at)]

(* A new model: one timer for each program but number 0, as many as fit    *)
(* (lastPMTArray, by the place of the program in the PAT).                 *)
Real(pat) == {i \in DOMAIN pat : pat[i].number # 0}
PmtTimers(pat, at) ==
  [i \in {k \in Real(pat) : Cardinality({j \in Real(pat) : j <= k}) <= PmtSlots} |->
     [pid |-> pat[i].pmt, at |-> at]]

(* timer_expired, raise_alarm_p2_table: the callers want the opposite.     *)
Expired(then, at) == at >= then + TableTime

PmtSeen(pmts, buf, at) ==
  [i \in DOMAIN pmts |->
     IF \E k \in DOMAIN buf : buf[k].pid = pmts[i].pid /\ buf[k].pid \notin {0, NullPid}
     THEN [pmts[i] EXCEPT !.at = at] ELSE pmts[i]]

(* p2_streammodel_callback: P2.2, once for each table whose CRC was        *)
(* checked; of the times of the tables only the CAT's is used.             *)
CrcOf(R, c, at) ==
  [Judged(R, "P2_2", ~c.valid) EXCEPT !.lastCAT = IF c.table = "CAT" THEN at ELSE @]
CrcChecked(R, crcs, at) == FoldLeft(LAMBDA T, c : CrcOf(T, c, at), R, crcs)

(* p1_process_p1_56, the stream model's callbacks first.                   *)
CheckPmts(R0, buf, crcs, model, at) ==
  LET R1 == CrcChecked(R0, crcs, at)
      R2 == IF model = NoModel THEN R1
            ELSE [R1 EXCEPT !.pat = model, !.pmts = PmtTimers(model, at)]
      R3 == IF R2.pat = NoModel THEN R2
            ELSE CheckPids(PatModel(SayBoth(R2, "P1_5", "P1_5a", "clear"), at), at)
      R4 == [R3 EXCEPT !.pmts = PmtSeen(@, buf, at)]
      late == \E i \in DOMAIN R4.pmts : Expired(R4.pmts[i].at, at)
  IN  IF DOMAIN R4.pmts = {} THEN R4
      ELSE SayBoth(R4, "P1_5", "P1_5a", IF late THEN "raise" ELSE "clear")

(* p2_process_p2_3.                                                        *)
DidViolate(R, pid) == R.S.pids[pid].prevExc # R.S.pids[pid].exc
CheckPcr(R, buf) ==
  LET wrong == \E i \in DOMAIN buf :
                 R.S.pids[buf[i].pid].hasPCR /\ DidViolate(R, buf[i].pid)
  IN  IF Len(buf) >= PcrArray THEN R ELSE Judged(Judged(R, "P2_3", wrong), "P2_3a", wrong)

(* p2_write: tei and scr are the counts before the statistics saw buf.     *)
P2Write(R, buf, tei, scr, at) ==
  LET T == Judged(R, "P2_1", tei # R.S.st.tei)
  IN  CheckPcr(Judged(T, "P2_6", Expired(R.lastCAT, at) /\ scr # R.S.st.scr), buf)

(* ltntstools_tr101290_write, between the lock and the unlock.             *)
ChecksWrite(R, buf, crcs, model, at) ==
  LET counted == [R EXCEPT !.S = PidStatsUpdate(R.S, buf, at), !.out = << >>]
      P1 == CheckPmts(CheckContinuity(CheckPat(SyncPackets(counted, buf), buf, at)),
                      buf, crcs, model, at)
  IN  P2Write(P1, buf, R.S.st.tei, R.S.st.scr, at)

(* What the event table is left with: the last verdict on e of a write.    *)
Verdict(out, e) ==
  LET on == {i \in DOMAIN out : out[i][1] = e}
  IN  IF on = {} THEN "none" ELSE out[Max(on)][2]
=============================================================================

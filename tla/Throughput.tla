----------------------------- MODULE Throughput -----------------------------
(***************************************************************************)
(* The two throughput meters: throughput.c, which keeps the bytes of the   *)
(* current second and of the one before it, and throughput_hires.c, which  *)
(* keeps every sample with its time until it expires.  Time is in seconds. *)
(***************************************************************************)
EXTENDS Integers, Sequences, SequencesExt, FiniteSetsExt, Functions

CONSTANTS
  MeterValues,  \* sizes written
  Channels,     \* channels of the high resolution meter
  PoolStart,    \* items it is allocated with
  PoolGrowth,   \* items added when none is free (64 in the code)
  MeterCalls,   \* bound: calls
  MeterEpoch    \* time of the first call

ASSUME MeterAssumption ==
  /\ MeterValues \subseteq Nat \ {0} /\ PoolStart \in Nat /\ PoolGrowth \in Nat \ {0}
  /\ MeterCalls \in Nat /\ MeterEpoch \in Nat \ {0}

VARIABLES
  tp,        \* struct ltntstools_throughput_s
  got,       \* history: what the last query returned
  bySecond,  \* history: bytes written in each second, since the meter was cleared
  hr,        \* struct throughput_hires_context_s: busy, newest first, and free
  log,       \* history: the samples that should be held, how many items exist,
             \* whether samples came in order, and whether what is held is settled
  sum,       \* history: the last sum returned, and the true one
  meterNow, meterCalls

meterVars == <<tp, got, bySecond, hr, log, sum, meterNow, meterCalls>>

MeterCall == meterCalls < MeterCalls /\ meterCalls' = meterCalls + 1

(* ltntstools_throughput_write (scale 8) and _write_value (scale 1).       *)
TpWrite(t, value, scale, at) ==
  LET turned == IF at = t.last THEN t
                ELSE [t EXCEPT !.Bps = t.window, !.window = 0, !.mbps = t.window * scale,
                               !.last = at]
  IN  [turned EXCEPT !.window = @ + value]

(* ltntstools_throughput_reset: the window and the bytes of a second stay. *)
TpReset(t) == [t EXCEPT !.mbps = 0]

(* _expire_per_second_stats, which every query begins with.                *)
TpExpire(t, at) ==
  IF at > t.last + 2 THEN [t EXCEPT !.mbps = 0, !.Bps = 0, !.window = 0] ELSE t

-----------------------------------------------------------------------------
(* throughput_hires_write_i64: the pool grows when it is empty; the newest *)
(* sample is the head of the list.                                         *)
HrWrite(h, channel, value, ts) ==
  [busy |-> <<[ts |-> ts, channel |-> channel, value |-> value]>> \o h.busy,
   free |-> IF h.free = 0 THEN PoolGrowth - 1 ELSE h.free - 1]

(* A walk over a list that takes out what is older than before.            *)
Keep(kept, e, before) == IF e.ts >= before THEN Append(kept, e) ELSE kept
Unexpired(list, before) == FoldLeft(LAMBDA kept, e : Keep(kept, e, before), << >>, list)

(* Deviation: what expires is not returned to the pool.                    *)
HrExpireLeak(h, before) == [busy |-> Unexpired(h.busy, before), free |-> h.free]
(* throughput_hires_expire, over the whole list.                           *)
HrExpire(h, before) ==
  LET kept == Unexpired(h.busy, before)
  IN  [busy |-> kept, free |-> h.free + Len(h.busy) - Len(kept)]

Values(list) == [i \in DOMAIN list |-> list[i].value]

(* throughput_hires_sumtotal_i64: the walk ends at the first sample that   *)
(* is older than begin.                                                    *)
HrSum(h, channel, begin, end) ==
  LET older == {i \in DOMAIN h.busy : h.busy[i].ts < begin}
      n     == IF older = {} THEN Len(h.busy) ELSE Min(older) - 1
      in    == {i \in 1 .. n : h.busy[i].channel = channel /\ h.busy[i].ts \in begin .. end}
  IN  SumFunctionOnSet(Values(h.busy), in)

-----------------------------------------------------------------------------
MeterInit ==
  /\ tp = [last |-> 0, Bps |-> 0, window |-> 0, mbps |-> 0]
  /\ got = [op |-> "none", value |-> 0] /\ bySecond = << >>
  /\ hr = [busy |-> << >>, free |-> PoolStart]
  /\ log = [held |-> << >>, pool |-> PoolStart, ordered |-> TRUE, settled |-> TRUE]
  /\ sum = [is |-> 0, should |-> 0]
  /\ meterNow = MeterEpoch /\ meterCalls = 0

(* The bytes of each second are kept in order: <<second, bytes>>.          *)
Account(value) ==
  LET n == Len(bySecond)
  IN  IF n > 0 /\ bySecond[n][1] = meterNow
      THEN [bySecond EXCEPT ![n][2] = @ + value] ELSE Append(bySecond, <<meterNow, value>>)

TpWriteCall ==
  /\ MeterCall
  /\ \E value \in MeterValues, scale \in {1, 8} :
       tp' = TpWrite(tp, value, scale, meterNow) /\ bySecond' = Account(value)
  /\ UNCHANGED <<got, hr, log, sum, meterNow>>

TpResetCall == MeterCall /\ tp' = TpReset(tp) /\ UNCHANGED <<got, bySecond, hr, log, sum, meterNow>>

TpQuery ==
  /\ MeterCall
  /\ tp' = TpExpire(tp, meterNow)
  /\ \E op \in {"mbps", "value"} :
       got' = [op |-> op, value |-> IF op = "mbps" THEN tp'.mbps ELSE tp'.Bps]
  /\ bySecond' = IF meterNow > tp.last + 2 THEN << >> ELSE bySecond
  /\ UNCHANGED <<hr, log, sum, meterNow>>

HrWriteCall ==
  /\ MeterCall
  /\ \E c \in Channels, v \in MeterValues, late \in {0, 1} :
       LET ts == meterNow - late
       IN  /\ hr' = HrWrite(hr, c, v, ts)
           /\ log' = [held |-> Append(log.held, [ts |-> ts, channel |-> c, value |-> v]),
                      pool |-> log.pool + IF hr.free = 0 THEN PoolGrowth ELSE 0,
                      ordered |-> log.ordered /\ \A i \in DOMAIN log.held : log.held[i].ts <= ts,
                      settled |-> log.settled]
  /\ UNCHANGED <<tp, got, bySecond, sum, meterNow>>

HrExpireCall ==
  /\ MeterCall
  /\ \E before \in {meterNow - 1, meterNow} :
       /\ hr' = HrExpire(hr, before)
       /\ log' = [log EXCEPT !.held = Unexpired(@, before)]
  /\ UNCHANGED <<tp, got, bySecond, sum, meterNow>>

(* Without a time: makeTimestampFrom2SecondAgo goes back one second, and   *)
(* the header says two.  What is held is settled while no sample lies      *)
(* between the two.                                                        *)
HrExpireOld ==
  /\ MeterCall
  /\ hr' = HrExpire(hr, meterNow - 1)
  /\ log' = [log EXCEPT !.held = Unexpired(@, meterNow - 2),
                        !.settled = @ /\ \A i \in DOMAIN log.held :
                                           log.held[i].ts < meterNow - 1 => log.held[i].ts < meterNow - 2]
  /\ UNCHANGED <<tp, got, bySecond, sum, meterNow>>

(* Without times: from one second ago until now.                           *)
HrSumCall ==
  /\ MeterCall
  /\ \E c \in Channels, begin \in {meterNow - 1, meterNow} :
       sum' = [is |-> HrSum(hr, c, begin, meterNow),
               should |-> LET in == {i \in DOMAIN log.held : log.held[i].channel = c
                                       /\ log.held[i].ts \in begin .. meterNow}
                          IN  SumFunctionOnSet(Values(log.held), in)]
  /\ UNCHANGED <<tp, got, bySecond, hr, log, meterNow>>

MeterTick == MeterCall /\ meterNow' = meterNow + 1 /\ UNCHANGED <<tp, got, bySecond, hr, log, sum>>

(* The two meters have nothing in common: a behaviour uses one of them.    *)
TpNext == TpWriteCall \/ TpResetCall \/ TpQuery \/ MeterTick
HrNext == HrWriteCall \/ HrExpireCall \/ HrExpireOld \/ HrSumCall \/ MeterTick
MeterNext ==
  \/ hr.busy = << >> /\ log.pool = PoolStart /\ TpNext
  \/ bySecond = << >> /\ tp.last = 0 /\ HrNext

-----------------------------------------------------------------------------
(* A query returns the bytes of the last second that was written to before *)
(* the current one, and nothing once two seconds have gone by without a    *)
(* write: never a mixture of two seconds, nor a rate that is stale.        *)
TpIsLastSecond ==
  [][TpQuery /\ got'.op = "value" =>
       LET n == Len(bySecond)
       IN  got'.value = IF meterNow > tp.last + 2 \/ n < 2 THEN 0 ELSE bySecond[n - 1][2]
    ]_meterVars

(* Every item of the high resolution meter is in one of its two lists, and *)
(* the busy one holds the samples written that have not expired.  The      *)
(* header says that an expire without a time takes what is older than two  *)
(* seconds, the code what is older than one: of the samples it holds       *)
(* nothing is said once such an expire met one between the two.            *)
HrPoolIsWhole ==
  /\ Len(hr.busy) + hr.free = log.pool
  /\ log.settled => hr.busy = Reverse(log.held)

(* A sum over a window is the sum of the samples in it, as long as samples *)
(* were written in the order of their times (the walk stops early) and     *)
(* what is held is settled.                                                *)
HrSumIsExact == log.ordered /\ log.settled => sum.is = sum.should
=============================================================================

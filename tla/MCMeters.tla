------------------------------ MODULE MCMeters ------------------------------
(***************************************************************************)
(* The measuring objects and the ring of bytes, one at a time: a behaviour *)
(* is the life of one object of the kind "unit", the others are not used   *)
(* in it.                                                                  *)
(***************************************************************************)
EXTENDS Clocks, Histogram, Throughput, HistoryMetric, Reframer, KLRingBuffer

VARIABLE unit

Steps == {1, 4, -3, 100}
Adds == {5, 300, -4}
Ranges == {<<0, 4>>, <<2, 6>>, <<3, 3>>}

allVars == <<clockVars, histVars, meterVars, historyVars, reframerVars, ringVars, unit>>

Init ==
  /\ unit \in {"clock", "histogram", "throughput", "history", "reframer", "ring"}
  /\ ClockInit /\ HistInit /\ MeterInit /\ HistoryInit /\ RingInit
  /\ ReframerInit /\ (unit # "reframer" => frameSize = 0)

Next ==
  /\ UNCHANGED unit
  /\ \/ unit = "clock" /\ ClockNext
        /\ UNCHANGED <<histVars, meterVars, historyVars, reframerVars, ringVars>>
     \/ unit = "histogram" /\ HistNext
        /\ UNCHANGED <<clockVars, meterVars, historyVars, reframerVars, ringVars>>
     \/ unit = "throughput" /\ MeterNext
        /\ UNCHANGED <<clockVars, histVars, historyVars, reframerVars, ringVars>>
     \/ unit = "history" /\ HistoryNext
        /\ UNCHANGED <<clockVars, histVars, meterVars, reframerVars, ringVars>>
     \/ unit = "reframer" /\ ReframerNext
        /\ UNCHANGED <<clockVars, histVars, meterVars, historyVars, ringVars>>
     \/ unit = "ring" /\ RingNext
        /\ UNCHANGED <<clockVars, histVars, meterVars, historyVars, reframerVars>>

Spec == Init /\ [][Next]_allVars

-----------------------------------------------------------------------------

(* A meter holds what it was given, all of it and once: buckets of a       *)
(* histogram, samples of a throughput meter and their pool.                *)
MetersHoldAll ==
  /\ HistCountsAll
  /\ HrPoolIsWhole
  /\ HrSumIsExact

(* What a call returns, prints or passes on is so: clock and drift, the    *)
(* summary of a histogram, the rate of the last second, the frames of the  *)
(* reframer.                                                               *)
MetersTellTrue ==
  /\ ClockNeverBack
  /\ ClockDriftIsTrue
  /\ HistSummaryConserves
  /\ TpIsLastSecond
  /\ ReframerKeepsBytes
=============================================================================

------------------------------ MODULE Histogram ------------------------------
(***************************************************************************)
(* libltntstools/histogram.h: one bucket per millisecond between two       *)
(* limits, filled with values, with the time between two events, with the  *)
(* time of a sample or with a sum of times, and printed in full or in      *)
(* wider buckets.  Time is in milliseconds and Word stands for 2^32.       *)
(***************************************************************************)
EXTENDS Integers, FiniteSetsExt

CONSTANTS
  HistRanges,   \* limits a caller asks for: <<minValMs, maxValMs>>
  HistValues,   \* values and waits of the callers
  HistEvery,    \* "seconds" of a print, in ms; 0 prints always
  HistSizes,    \* bucket sizes of a summary
  Word,         \* 2^32
  HistCalls     \* bound: calls

ASSUME HistAssumption ==
  /\ HistRanges \subseteq Nat \X Nat /\ HistValues \subseteq Nat /\ HistEvery \subseteq Nat
  /\ HistSizes \subseteq Nat /\ Word \in Nat \ {0} /\ HistCalls \in Nat

VARIABLES
  hist,     \* struct ltn_histogram_s, or NULL
  printed,  \* history: what the last print showed
  seen,     \* history: samples offered since the counters were last cleared
  histNow, histCalls

histVars == <<hist, printed, seen, histNow, histCalls>>

NullHist == [min |-> 0, max |-> 0]
Allocated(h) == h.max > 0
BucketsOf(h) == h.min .. h.max
Counts(h) == MapThenSumSet(LAMBDA ms : h.count[ms], BucketsOf(h))

(* ltn_histogram_reset: the marks of the prints and of the samples stay.   *)
HistReset(h, at) ==
  [h EXCEPT !.count = [ms \in BucketsOf(h) |-> 0], !.last = [ms \in BucketsOf(h) |-> 0],
            !.intervalLast = at, !.miss = 0, !.cumulative = 0, !.total = 0]

(* ltn_histogram_alloc: frees what the handle held, even when it fails.    *)
HistAlloc(min, max, at) ==
  IF max <= min \/ max - min > Word - 2 THEN NullHist
  ELSE [min |-> min, max |-> max, total |-> 0, miss |-> 0, cumulative |-> 0,
        count |-> [ms \in min .. max |-> 0], last |-> [ms \in min .. max |-> 0],
        intervalLast |-> at, cumulativeLast |-> 0, sampleLast |-> 0,
        printLast |-> 0, summaryLast |-> 0]

(* ltn_histogram_interval_update_with_value, and the end of all the others.*)
Hit(h, ms, at) ==
  IF ms \notin BucketsOf(h) THEN [h EXCEPT !.miss = @ + 1]
  ELSE [h EXCEPT !.count[ms] = @ + 1, !.last[ms] = at, !.total = @ + 1]

(* ltn_histogram_interval_update: the difference is a uint32_t.            *)
IntervalUpdate(h, ts) == Hit([h EXCEPT !.intervalLast = ts], (ts - h.intervalLast) % Word, ts)

(* ltn_histogram_cumulative_begin, _end, _finalize and _initialize.        *)
CumulativeBegin(h, at) == [h EXCEPT !.cumulativeLast = at]
CumulativeEnd(h, at) == [h EXCEPT !.cumulative = @ + (at - h.cumulativeLast)]
CumulativeFinalize(h, at) == Hit(h, h.cumulative, at)
CumulativeInitialize(h, at) == [h EXCEPT !.cumulative = 0]

(* ltn_histogram_sample_begin and _end.                                    *)
SampleBegin(h, at) == [h EXCEPT !.sampleLast = at]
SampleEnd(h, at) == Hit(h, at - h.sampleLast, at)

(* A print asked for every so many seconds: the difference is a uint32_t.  *)
Due(last, every, at) == every = 0 \/ (at - last) % Word >= every

(* ltn_histogram_interval_print and _print_buf: the filled buckets.        *)
Shown(h) == [rows |-> {<<ms, h.count[ms], h.last[ms]>> : ms \in {b \in BucketsOf(h) : h.count[b] > 0}},
             total |-> Counts(h), miss |-> h.miss, size |-> 1]

(* ltn_histogram_summary_print: every bucket into the last one of its      *)
(* group of size, the last group cut at the upper limit.                   *)
Summary(h, size) ==
  LET top(ms) == Min({h.max, h.min + ((ms - h.min) \div size) * size + size - 1})
      from(b) == {ms \in BucketsOf(h) : top(ms) = b}
  IN  [h EXCEPT !.count = [b \in BucketsOf(h) |-> MapThenSumSet(LAMBDA ms : h.count[ms], from(b))],
                !.last = [b \in BucketsOf(h) |-> Max({0} \cup {h.last[ms] : ms \in from(b)})]]

-----------------------------------------------------------------------------
NothingShown == [rows |-> {}, total |-> 0, miss |-> 0, size |-> 0]
HistInit ==
  hist = NullHist /\ printed = NothingShown /\ seen = 0 /\ histNow = 1 /\ histCalls = 0

HistCall == histCalls < HistCalls /\ histCalls' = histCalls + 1

Alloc ==
  /\ HistCall
  /\ \E r \in HistRanges : hist' = HistAlloc(r[1], r[2], histNow)
  /\ seen' = 0 /\ UNCHANGED <<printed, histNow>>

Reset ==
  /\ Allocated(hist) /\ HistCall
  /\ hist' = HistReset(hist, histNow) /\ seen' = 0
  /\ UNCHANGED <<printed, histNow>>

(* The calls that offer a sample.                                          *)
Offer ==
  /\ Allocated(hist) /\ HistCall
  /\ \/ \E ms \in HistValues : hist' = Hit(hist, ms, histNow)
     \/ \E late \in {0, 1} : hist' = IntervalUpdate(hist, histNow - late)
     \/ hist' = CumulativeFinalize(hist, histNow)
     \/ hist' = SampleEnd(hist, histNow)
  /\ seen' = seen + 1 /\ UNCHANGED <<printed, histNow>>

(* The calls that only take a time.                                        *)
Mark ==
  /\ Allocated(hist) /\ HistCall
  /\ \E op \in {CumulativeBegin(hist, histNow), CumulativeEnd(hist, histNow),
                CumulativeInitialize(hist, histNow), SampleBegin(hist, histNow)} : hist' = op
  /\ UNCHANGED <<printed, seen, histNow>>

PrintInterval ==
  /\ Allocated(hist) /\ HistCall
  /\ \E every \in HistEvery :
       IF ~Due(hist.printLast, every, histNow) THEN UNCHANGED <<hist, printed>>
       ELSE /\ hist' = [hist EXCEPT !.printLast = IF every = 0 THEN @ ELSE histNow]
            /\ printed' = Shown(hist)
  /\ UNCHANGED <<seen, histNow>>

(* The histogram of the summary is new: its own print is due when the time *)
(* since the epoch is.                                                     *)
PrintSummary ==
  /\ Allocated(hist) /\ HistCall
  /\ \E every \in HistEvery, size \in HistSizes :
       IF size = 0 \/ ~Due(hist.summaryLast, every, histNow) THEN UNCHANGED <<hist, printed>>
       ELSE /\ hist' = [hist EXCEPT !.summaryLast = IF every = 0 THEN @ ELSE histNow]
            /\ printed' = IF Due(0, every, histNow)
                          THEN [Shown(Summary(hist, size)) EXCEPT !.size = size] ELSE printed
  /\ UNCHANGED <<seen, histNow>>

HistTick ==
  /\ HistCall /\ \E d \in HistValues \ {0} : histNow' = histNow + d
  /\ UNCHANGED <<hist, printed, seen>>

HistNext == Alloc \/ Reset \/ Offer \/ Mark \/ PrintInterval \/ PrintSummary \/ HistTick

-----------------------------------------------------------------------------
(* Every sample offered since the last reset, by whichever of the four     *)
(* ways, is in one bucket or is a miss, and totalCount, the divisor of     *)
(* every percentage printed, is the sum of the buckets.                    *)
HistCountsAll ==
  Allocated(hist) => hist.total = Counts(hist) /\ hist.total + hist.miss = seen

(* A summary neither loses nor repeats a sample, whether or not the bucket *)
(* size divides the range, and each of its rows has the latest time of the *)
(* buckets it stands for.                                                  *)
HistSummaryConserves ==
  [][PrintSummary /\ printed' # printed =>
       /\ printed'.total = hist.total
       /\ \A row \in printed'.rows :
            LET group == {ms \in BucketsOf(hist) :
                            ms <= row[1] /\ \A r \in printed'.rows : r[1] < row[1] => ms > r[1]}
            IN  /\ row[2] = MapThenSumSet(LAMBDA ms : hist.count[ms], group)
                /\ row[3] = Max({hist.last[ms] : ms \in group})]_histVars
=============================================================================

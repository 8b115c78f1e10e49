------------------------------- MODULE Clocks -------------------------------
(***************************************************************************)
(* The life of a clock and of a corrected clock (ClockOps).  Both are fed  *)
(* with what a sender of known time puts on the wire, so that what they    *)
(* make of it can be compared with the truth.  The counters of the code    *)
(* wrap after days; here after Modulus ticks.                              *)
(***************************************************************************)
EXTENDS ClockOps

CONSTANTS
  ClockStarts,  \* sender's times at which the clock is established
  ClockSteps,   \* steps of the sender; a negative one is a reordered frame
  ClockAdds,    \* ticks a caller adds by itself
  ClockCalls    \* bound: calls

(* The sender steps by less than half of its counter: 13 hours of a PTS.   *)
ASSUME ClockAssumption ==
  /\ ClockStarts \subseteq 0 .. Modulus - 1
  /\ ClockSteps \subseteq -(Modulus \div 2) .. (Modulus \div 2) - 1
  /\ ClockAdds \subseteq Int \ {0} /\ ClockCalls \in Nat

VARIABLES
  clk,     \* struct ltntstools_clock_s
  cor,     \* struct ltntstools_corrected_clock_s
  sent,    \* history: the sender, and what it has done since the clock was based
  clkNow   \* wall clock, in ticks

clockVars == <<clk, cor, sent, clkNow>>

(* The sender's time is t, and hi the latest it sent since the base t0.    *)
(* "plain": every crossing of the end of the counter was a small step      *)
(* forward, and the caller added nothing.  "own": the caller only added.   *)
ClockIdle == [t |-> 0, t0 |-> 0, hi |-> 0, plain |-> FALSE, own |-> FALSE,
              sum |-> 0, up |-> 0, top |-> 0, bad |-> 0, calls |-> 0]
ClockInit == clk = Initialized /\ cor = CorrectedInit /\ sent = ClockIdle /\ clkNow = 0

ClockCall == sent.calls < ClockCalls
Based(t) == [sent EXCEPT !.t = t, !.t0 = t, !.hi = t, !.plain = TRUE, !.own = TRUE,
                         !.sum = 0, !.up = 0, !.calls = @ + 1]

(* A stream appears: the caller names the clock, and bases it on its first *)
(* time stamp.                                                             *)
ClockEstablish ==
  /\ sent.calls = 0
  /\ \E t \in ClockStarts, type \in {"PCR", "PTS", "RTMP"} :
       LET based == IF type = "RTMP" THEN EstablishTimebase(Initialized, type)
                    ELSE SetMetadata(Initialized, type)
       IN  /\ clk' = EstablishWallclock(based, t, clkNow)
           /\ cor' = CorrectedUpdate(CorrectedInit, t)
           /\ sent' = [Based(t) EXCEPT !.top = t, !.bad = cor'.bad]
           /\ UNCHANGED clkNow

(* A time stamp arrives, as many ticks later as the sender stepped.  One   *)
(* that takes the sender below zero is from before its epoch: none.        *)
SmallStep(d) == d > 0 /\ d < Modulus \div 50
ClockTick ==
  /\ ClockCall /\ sent.calls > 0
  /\ \E d \in ClockSteps :
       LET t == sent.t + d
           crossed == t \div Modulus # sent.t \div Modulus
           far == d < 0 /\ t % Modulus < (sent.t % Modulus) \div 50
       IN  /\ t >= 0
           /\ clkNow' = clkNow + IF d > 0 THEN d ELSE 0
           /\ clk' = SetTicks(clk, t % Modulus, clkNow')
           /\ cor' = CorrectedUpdate(cor, t % Modulus)
           /\ sent' = [IF clk.pending THEN Based(t)
                       ELSE [sent EXCEPT !.t = t, !.hi = IF t > @ THEN t ELSE @,
                               !.plain = @ /\ (crossed => SmallStep(d)) /\ ~far,
                               !.own = FALSE, !.calls = @ + 1]
                       EXCEPT !.top = IF t > @ THEN t ELSE @]

ClockAdd ==
  /\ ClockCall /\ sent.calls > 0
  /\ \E d \in ClockAdds :
       /\ clk' = AddTicks(clk, d)
       /\ sent' = [sent EXCEPT !.sum = @ + d, !.up = @ + IF d > 0 THEN d ELSE 0,
                               !.plain = FALSE, !.calls = @ + 1,
                               !.own = @ /\ clk.est + sent.sum + d >= 0]
  /\ UNCHANGED <<cor, clkNow>>

ClockDiscontinuity ==
  /\ ClockCall /\ sent.calls > 0
  /\ clk' = MarkDiscontinuity(clk)
  /\ sent' = [sent EXCEPT !.plain = FALSE, !.own = FALSE, !.calls = @ + 1]
  /\ UNCHANGED <<cor, clkNow>>

ClockDrift ==
  /\ ClockCall /\ sent.calls > 0
  /\ clk' = GetDrift(clk, clkNow)
  /\ sent' = [sent EXCEPT !.calls = @ + 1]
  /\ UNCHANGED <<cor, clkNow>>

ClockNext == ClockEstablish \/ ClockTick \/ ClockAdd \/ ClockDiscontinuity \/ ClockDrift
ClockSpec == ClockInit /\ [][ClockNext]_clockVars

-----------------------------------------------------------------------------
(* The monotonic time is the sender's, however often its counter has       *)
(* wrapped and however frames were reordered between two wraps: only a     *)
(* PTS clock is behind, by one tick for each wrap (MAX_PTS_VALUE).         *)
ClockFollowsSender ==
  sent.plain => clk.mono - clk.est
                = (sent.hi - sent.t0) - clk.wraps * (Modulus - clk.wrapAt)

(* What a caller adds is counted in full: the raw counter and the number   *)
(* of wraps give the sum back, and the monotonic time is all that was      *)
(* added forwards.                                                         *)
ClockCountsAdds ==
  sent.own /\ sent.calls > 0 =>
    /\ clk.cur + clk.wraps * clk.wrapAt = clk.est + sent.sum
    /\ clk.mono = clk.est + sent.up

(* A drift a caller reads is the sender's time against the wall clock, and *)
(* lies between the marks, after wraps too.                                *)
ClockDriftIsTrue ==
  [][ClockDrift /\ sent.plain /\ clk.wall /\ clk.type # "PTS" =>
       /\ clk'.drift = (sent.hi - sent.t0) - (clkNow - clk.wallAt)
       /\ clk'.lwm <= clk'.drift /\ clk'.drift <= clk'.hwm]_clockVars

(* The monotonic time never goes back, whatever is received, unless the    *)
(* clock is based anew or the caller has moved it himself since.           *)
ClockMoved == sent.sum # 0 \/ sent.up # 0
ClockNeverBack ==
  [][clk'.mono >= clk.mono \/ clk.pending \/ ClockEstablish \/ ClockMoved]_clockVars

(* The corrected clock is the sender's time, extended over its wraps, with *)
(* reordered frames before and after a wrap too, for as long as it reports *)
(* no failure; its monotonic output is the latest of it.                   *)
CorrectedIsSender ==
  cor.bad = sent.bad => cor.un = sent.t /\ cor.corrected = sent.top

(* Both kinds of clock have the time of what moves them.                   *)
ClocksAreRight ==
  /\ ClockFollowsSender
  /\ ClockCountsAdds
  /\ CorrectedIsSender

(* The inductive invariant of these.                                       *)
ClockRecords ==
  [type : {"UNKNOWN", "PCR", "PTS", "RTMP"}, timebase : BOOLEAN, wall : BOOLEAN, wallAt : Int,
   est : Int, cur : Int, mono : Int, ref : Int, wraps : Nat, back : Int, fwd : Int, disc : Int,
   pending : BOOLEAN, wrapAt : Int, drift : Int, hwm : Int, lwm : Int]
SentRecords ==
  [t : Nat, t0 : Int, hi : Nat, plain : BOOLEAN, own : BOOLEAN, sum : Int, up : Nat, top : Nat,
   bad : Int, calls : Nat]
ClockTypes ==
  /\ clk \in ClockRecords /\ sent \in SentRecords /\ clkNow \in Nat
  /\ cor \in [last : Int, un : Int, corrected : Int, bad : Int]
ClockBased ==
  /\ sent.calls > 0 => clk.wrapAt = WrapOf(clk.type)
  /\ sent.calls = 0 => sent.t = 0 /\ ~sent.plain /\ ~sent.own
  /\ sent.sum <= sent.up
  /\ sent.plain \/ sent.own => ~clk.pending /\ sent.calls > 0
ClockAtSender ==
  sent.plain => /\ clk.cur = sent.t % Modulus /\ clk.ref = sent.hi % Modulus
                /\ sent.t \div Modulus = sent.hi \div Modulus /\ sent.t <= sent.hi
ClockInRange == ~ClockMoved => clk.cur \in 0 .. Modulus - 1 /\ clk.ref \in 0 .. Modulus - 1
CorrectedAtSender ==
  cor.bad = sent.bad /\ cor.un = sent.t /\ cor.corrected = sent.top /\ cor.last = sent.t % Modulus
ClockInv ==
  /\ ClockTypes /\ ClockBased /\ ClockAtSender /\ ClockInRange
  /\ CorrectedAtSender /\ ClocksAreRight
=============================================================================

------------------------------ MODULE ClockOps ------------------------------
(***************************************************************************)
(* clocks.c as operators on a clock: the clock that follows the wrapping   *)
(* counter of a stream (PCR or PTS) and gives a monotonic time, and the    *)
(* corrected clock that unwraps PTS values.  Wall time is counted in ticks *)
(* of the clock.                                                           *)
(***************************************************************************)
EXTENDS Integers

CONSTANTS
  Modulus,   \* 2^33 for a PTS: the counter on the wire runs in 0 .. Modulus - 1
  TickRate   \* ticks per second

ASSUME ClockOpsAssumption ==
  Modulus \in Nat \ {0} /\ Modulus % 2 = 0 /\ TickRate \in Nat \ {0}

(* MAX_PTS_VALUE is one short of the modulus; MAX_SCR_VALUE is exact.      *)
WrapOf(type) == IF type = "PTS" THEN Modulus - 1 ELSE Modulus

(* ltntstools_clock_establish_timebase, on a clock of memset zeroes or on  *)
(* an older one: everything but the wall clock and the drift begins again. *)
EstablishTimebase(c, type) ==
  [c EXCEPT !.type = type, !.timebase = TRUE, !.est = 0, !.cur = 0, !.mono = 0,
            !.ref = 0, !.wraps = 0, !.back = 0, !.fwd = 0, !.disc = 0,
            !.pending = FALSE, !.wrapAt = WrapOf(type)]

(* ltntstools_clock_set_metadata: only some types bring a timebase.        *)
SetMetadata(c, type) ==
  IF type \in {"PCR", "PTS"} THEN EstablishTimebase(c, type) ELSE [c EXCEPT !.type = type]

(* ltntstools_clock_initialize.                                            *)
Initialized ==
  SetMetadata([type |-> "UNKNOWN", timebase |-> FALSE, wall |-> FALSE, wallAt |-> 0,
               est |-> 0, cur |-> 0, mono |-> 0, ref |-> 0, wraps |-> 0, back |-> 0,
               fwd |-> 0, disc |-> 0, pending |-> FALSE, wrapAt |-> 0,
               drift |-> 0, hwm |-> 0, lwm |-> 0], "UNKNOWN")

(* ltntstools_clock_establish_wallclock.                                   *)
EstablishWallclock(c, ticks, at) ==
  [c EXCEPT !.wall = TRUE, !.wallAt = at, !.est = ticks, !.cur = ticks, !.mono = ticks,
            !.ref = ticks, !.wraps = 0, !.back = 0, !.fwd = 0, !.pending = FALSE]

(* Deviation (used by mutation tests only): a wrap as if the counter were  *)
(* one tick longer.                                                        *)
DeltaLong(c, new, old) == IF new >= old THEN new - old ELSE c.wrapAt + 1 - old + new
(* ltntstools_clock_compute_delta.                                         *)
ComputeDelta(c, new, old) == IF new >= old THEN new - old ELSE c.wrapAt - old + new

(* How far a time stamp is ahead of the latest one.                        *)
Ahead(c, ticks) == ticks - c.ref

(* ltntstools_clock_set_ticks.                                             *)
SetTicks(c, ticks, at) ==
  LET wrapped == ticks < c.cur \div 50
      w == IF wrapped THEN [c EXCEPT !.wraps = @ + 1] ELSE c
      moved(d) == [w EXCEPT !.mono = @ + d, !.ref = ticks, !.cur = ticks]
  IN  CASE c.pending ->
             [c EXCEPT !.pending = FALSE, !.wraps = 0, !.cur = ticks, !.mono = ticks,
                       !.ref = ticks, !.est = ticks, !.wallAt = at, !.wall = TRUE]
        [] ~c.pending /\ wrapped /\ c.wrapAt > 0 -> moved(ComputeDelta(c, ticks, c.ref))
        [] ~c.pending /\ ~(wrapped /\ c.wrapAt > 0) /\ ticks > c.ref ->
             [moved(Ahead(c, ticks)) EXCEPT
                !.fwd = @ + IF c.timebase /\ Ahead(c, ticks) > TickRate \div 5 THEN 1 ELSE 0]
        [] OTHER ->
             [w EXCEPT !.cur = ticks,
                !.back = @ + IF ticks < c.cur /\ c.timebase /\ c.cur - ticks < TickRate \div 2
                             THEN 1 ELSE 0]

(* ltntstools_clock_mark_discontinuity.                                    *)
MarkDiscontinuity(c) == [c EXCEPT !.disc = @ + 1, !.pending = TRUE]

(* ltntstools_clock_add_ticks.  The two loops take the raw counter back    *)
(* into 0 .. wrapAt - 1, which is what \div does.                          *)
AddTicks(c, ticks) ==
  LET q == IF c.wrapAt > 0 THEN (c.cur + ticks) \div c.wrapAt ELSE 0
      wraps == c.wraps + q
  IN  [c EXCEPT !.mono = @ + IF ticks > 0 THEN ticks ELSE 0,
                !.cur = @ + ticks - q * c.wrapAt, !.ref = @ + ticks - q * c.wrapAt,
                !.wraps = IF wraps < 0 THEN 0 ELSE wraps]

DriftOf(c, at) == c.mono - c.est - (at - c.wallAt)
(* ltntstools_clock_get_drift_us (in ticks): its marks are kept by queries.*)
GetDrift(c, at) ==
  LET d == DriftOf(c, at)
  IN  IF ~c.wall THEN c
      ELSE [c EXCEPT !.drift = d, !.hwm = IF d > @ THEN d ELSE @,
                     !.lwm = IF d <= @ THEN d ELSE @]

(* ltntstools_pts_diff: never negative.                                    *)
PtsDiff(from, to) == IF from > to THEN WrapOf("PTS") - from + to ELSE to - from

(* pts33_signed_delta.                                                     *)
SignedDelta(new, old) ==
  LET diff == (new - old) % Modulus
  IN  IF diff >= Modulus \div 2 THEN diff - Modulus ELSE diff

(* ltntstools_corrected_clock_init: "initialized" is set here already, so  *)
(* the first update is a step from 0.                                      *)
CorrectedInit == [last |-> 0, un |-> 0, corrected |-> 0, bad |-> 0]

(* ltntstools_corrected_clock_update.  "bad" counts its failures.  Beyond  *)
(* JITTER_MAX the output is held, and within it it is never taken back.    *)
CorrectedUpdate(k, ticks) ==
  LET un == k.un + SignedDelta(ticks, k.last)
  IN  IF un < 0 THEN [last |-> ticks, un |-> ticks, corrected |-> ticks, bad |-> k.bad + 1]
      ELSE [k EXCEPT !.last = ticks, !.un = un, !.corrected = IF un > @ THEN un ELSE @]
=============================================================================

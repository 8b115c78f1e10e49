---------------------------- MODULE MeterProofs ----------------------------
(***************************************************************************)
(* Proofs about the measuring objects of MCMeters, for any number of calls *)
(* and any values: clocks with counters of any length, histograms of any   *)
(* range, meters, histories and frames.                                    *)
(***************************************************************************)
EXTENDS MCMeters, Functions, FiniteSetTheorems, SequenceTheorems, TLAPS

-----------------------------------------------------------------------------
(* Clocks.                                                                 *)

LEMMA ClockNumbers ==
  /\ Modulus \in Nat \ {0} /\ Modulus >= 2 /\ TickRate \in Nat \ {0}
  /\ 2 * (Modulus \div 2) = Modulus /\ Modulus \div 2 \in Nat
  /\ \A d \in ClockSteps : d \in Int /\ -(Modulus \div 2) <= d /\ d < Modulus \div 2
  /\ \A d \in ClockAdds : d \in Int /\ d # 0
<1>1. Modulus \in Nat \ {0} /\ Modulus % 2 = 0 /\ TickRate \in Nat \ {0}
  BY ClockOpsAssumption
<1>2. Modulus = 2 * (Modulus \div 2) + (Modulus % 2) /\ Modulus \div 2 \in Nat
  BY <1>1
<1> DEFINE half == Modulus \div 2
<1> HIDE DEF half
<1>3. Modulus = 2 * half /\ half \in Nat
  BY <1>1, <1>2 DEF half
<1>4. \A d \in ClockSteps : d \in -half .. half - 1
  BY ClockAssumption DEF half
<1>5. \A d \in ClockAdds : d \in Int /\ d # 0
  BY ClockAssumption
<1> QED BY <1>1, <1>3, <1>4, <1>5 DEF half

LEMMA WrapType == ASSUME NEW type PROVE WrapOf(type) \in Modulus - 1 .. Modulus /\ WrapOf(type) > 0
BY ClockNumbers DEF WrapOf

LEMMA ClockFields ==
  ASSUME NEW c \in ClockRecords
  PROVE  /\ c.type \in {"UNKNOWN", "PCR", "PTS", "RTMP"} /\ c.wall \in BOOLEAN /\ c.wallAt \in Int
         /\ c.est \in Int /\ c.cur \in Int /\ c.mono \in Int /\ c.ref \in Int /\ c.wraps \in Nat
         /\ c.back \in Int /\ c.fwd \in Int /\ c.disc \in Int
         /\ c.pending \in BOOLEAN /\ c.wrapAt \in Int /\ c.hwm \in Int /\ c.lwm \in Int
BY DEF ClockRecords

LEMMA SentFields ==
  ASSUME NEW s \in SentRecords
  PROVE  /\ s.t \in Nat /\ s.t0 \in Int /\ s.hi \in Nat /\ s.plain \in BOOLEAN /\ s.own \in BOOLEAN
         /\ s.sum \in Int /\ s.up \in Nat /\ s.top \in Nat /\ s.bad \in Int /\ s.calls \in Nat
BY DEF SentRecords

-----------------------------------------------------------------------------
(* What each operation does to a clock.                                    *)

(* A clock is based on a time stamp.                                       *)
LEMMA BasedFields ==
  ASSUME NEW type \in {"PCR", "PTS", "RTMP"}, NEW t \in Nat, NEW at \in Nat
  PROVE  LET based == IF type = "RTMP" THEN EstablishTimebase(Initialized, type)
                      ELSE SetMetadata(Initialized, type)
             c == EstablishWallclock(based, t, at)
         IN  /\ c \in ClockRecords /\ c.type = type /\ c.wrapAt = WrapOf(type) /\ ~c.pending
             /\ c.est = t /\ c.cur = t /\ c.mono = t /\ c.ref = t /\ c.wraps = 0
<1> DEFINE based == IF type = "RTMP" THEN EstablishTimebase(Initialized, type)
                    ELSE SetMetadata(Initialized, type)
           w == WrapOf(type)
<1>1. w \in Int
  BY WrapType, ClockNumbers
<1>2. based = EstablishTimebase(Initialized, type)
  BY DEF SetMetadata
<1> HIDE DEF w, based
<1>3. based = [type |-> type, timebase |-> TRUE, wall |-> FALSE, wallAt |-> 0,
               est |-> 0, cur |-> 0, mono |-> 0, ref |-> 0, wraps |-> 0, back |-> 0,
               fwd |-> 0, disc |-> 0, pending |-> FALSE, wrapAt |-> w,
               drift |-> 0, hwm |-> 0, lwm |-> 0]
  BY <1>2 DEF EstablishTimebase, Initialized, SetMetadata, w
<1>4. based \in ClockRecords /\ based.type = type /\ based.wrapAt = w
  BY <1>1, <1>3 DEF ClockRecords
<1> DEFINE c == EstablishWallclock(based, t, at)
<1>5. c = [based EXCEPT !.wall = TRUE, !.wallAt = at, !.est = t, !.cur = t, !.mono = t,
                        !.ref = t, !.wraps = 0, !.back = 0, !.fwd = 0, !.pending = FALSE]
  BY DEF EstablishWallclock
<1> HIDE DEF c
<1>6. c \in ClockRecords
  <2>1. t \in Int /\ at \in Int /\ 0 \in Int /\ 0 \in Nat /\ TRUE \in BOOLEAN /\ FALSE \in BOOLEAN
    OBVIOUS
  <2> DEFINE z == 0
             yes == TRUE
             no == FALSE
  <2>2. c = [based EXCEPT !.wall = yes, !.wallAt = at, !.est = t, !.cur = t, !.mono = t,
                          !.ref = t, !.wraps = z, !.back = z, !.fwd = z, !.pending = no]
        /\ z \in Int /\ z \in Nat /\ yes \in BOOLEAN /\ no \in BOOLEAN
    BY <1>5
  <2> HIDE DEF z, yes, no
  <2> QED BY Zenon, <1>4, <2>1, <2>2 DEF ClockRecords
<1>7. /\ c.type = based.type /\ c.wrapAt = based.wrapAt /\ ~c.pending
      /\ c.est = t /\ c.cur = t /\ c.mono = t /\ c.ref = t /\ c.wraps = 0
  BY <1>4, <1>5 DEF ClockRecords
<1> QED BY <1>4, <1>6, <1>7 DEF based, c, w

Wrapped(c, ticks) == ticks < c.cur \div 50

LEMMA RebasedFields ==
  ASSUME NEW c \in ClockRecords, NEW ticks \in Int, NEW at \in Int, c.pending
  PROVE  LET e == SetTicks(c, ticks, at)
         IN  /\ e \in ClockRecords /\ e.type = c.type /\ e.wrapAt = c.wrapAt /\ ~e.pending
             /\ e.est = ticks /\ e.cur = ticks /\ e.mono = ticks /\ e.ref = ticks /\ e.wraps = 0
<1> DEFINE e == SetTicks(c, ticks, at)
<1>1. e = [c EXCEPT !.pending = FALSE, !.wraps = 0, !.cur = ticks, !.mono = ticks,
                    !.ref = ticks, !.est = ticks, !.wallAt = at, !.wall = TRUE]
  BY DEF SetTicks
<1> HIDE DEF e
<1>2. e \in ClockRecords
  BY <1>1 DEF ClockRecords
<1>3. /\ e.type = c.type /\ e.wrapAt = c.wrapAt /\ ~e.pending
      /\ e.est = ticks /\ e.cur = ticks /\ e.mono = ticks /\ e.ref = ticks /\ e.wraps = 0
  BY <1>1 DEF ClockRecords
<1> QED BY <1>2, <1>3 DEF e

LEMMA TicksFields ==
  ASSUME NEW c \in ClockRecords, NEW ticks \in Int, NEW at \in Int, ~c.pending, c.wrapAt > 0
  PROVE  LET e == SetTicks(c, ticks, at)
         IN  /\ e \in ClockRecords /\ e.type = c.type /\ e.wrapAt = c.wrapAt /\ ~e.pending
             /\ e.est = c.est /\ e.cur = ticks
             /\ Wrapped(c, ticks) => /\ e.wraps = c.wraps + 1 /\ e.ref = ticks
                                     /\ e.mono = c.mono + ComputeDelta(c, ticks, c.ref)
             /\ ~Wrapped(c, ticks) /\ ticks > c.ref =>
                  e.wraps = c.wraps /\ e.ref = ticks /\ e.mono = c.mono + (ticks - c.ref)
             /\ ~Wrapped(c, ticks) /\ ~(ticks > c.ref) =>
                  e.wraps = c.wraps /\ e.ref = c.ref /\ e.mono = c.mono
<1> DEFINE e == SetTicks(c, ticks, at)
           f == c.fwd + IF c.timebase /\ Ahead(c, ticks) > TickRate \div 5 THEN 1 ELSE 0
           b == c.back + IF ticks < c.cur /\ c.timebase /\ c.cur - ticks < TickRate \div 2
                         THEN 1 ELSE 0
           delta == ComputeDelta(c, ticks, c.ref)
           m1 == c.mono + delta
           m2 == c.mono + (ticks - c.ref)
           wr == c.wraps + 1
<1>0. /\ c.mono \in Int /\ c.ref \in Int /\ c.wraps \in Nat /\ c.back \in Int /\ c.fwd \in Int
      /\ c.wrapAt \in Int /\ c.cur \in Int
  BY ClockFields
<1>1. m1 \in Int /\ m2 \in Int /\ wr \in Nat
  BY <1>0 DEF ComputeDelta
<1>2. f \in Int /\ b \in Int
  BY <1>0
<1>3. CASE Wrapped(c, ticks)
  <2>1. e = [c EXCEPT !.wraps = wr, !.mono = m1, !.ref = ticks, !.cur = ticks]
    BY <1>3 DEF SetTicks, Wrapped, ClockRecords
  <2> HIDE DEF e, m1, wr
  <2>2. e \in ClockRecords
    BY <1>1, <2>1 DEF ClockRecords
  <2>3. /\ e.type = c.type /\ e.wrapAt = c.wrapAt /\ ~e.pending /\ e.est = c.est /\ e.cur = ticks
        /\ e.wraps = wr /\ e.ref = ticks /\ e.mono = m1
    BY <2>1 DEF ClockRecords
  <2> QED BY <1>3, <2>2, <2>3 DEF e, m1, wr
<1>4. CASE ~Wrapped(c, ticks) /\ ticks > c.ref
  <2>1. e = [c EXCEPT !.mono = m2, !.ref = ticks, !.cur = ticks, !.fwd = f]
    BY <1>4 DEF SetTicks, Wrapped, ClockRecords, Ahead
  <2> HIDE DEF e, m2, f
  <2>2. e \in ClockRecords
    BY <1>1, <1>2, <2>1 DEF ClockRecords
  <2>3. /\ e.type = c.type /\ e.wrapAt = c.wrapAt /\ ~e.pending /\ e.est = c.est /\ e.cur = ticks
        /\ e.wraps = c.wraps /\ e.ref = ticks /\ e.mono = m2
    BY <2>1 DEF ClockRecords
  <2> QED BY <1>4, <2>2, <2>3 DEF e, m2
<1>5. CASE ~Wrapped(c, ticks) /\ ~(ticks > c.ref)
  <2>1. e = [c EXCEPT !.cur = ticks, !.back = b]
    BY <1>5 DEF SetTicks, Wrapped, ClockRecords
  <2> HIDE DEF e, b
  <2>2. e \in ClockRecords
    BY <1>2, <2>1 DEF ClockRecords
  <2>3. /\ e.type = c.type /\ e.wrapAt = c.wrapAt /\ ~e.pending /\ e.est = c.est /\ e.cur = ticks
        /\ e.wraps = c.wraps /\ e.ref = c.ref /\ e.mono = c.mono
    BY <2>1 DEF ClockRecords
  <2> QED BY <1>5, <2>2, <2>3 DEF e
<1> QED BY <1>3, <1>4, <1>5

LEMMA AddTicksFields ==
  ASSUME NEW c \in ClockRecords, NEW d \in Int, c.wrapAt > 0
  PROVE  LET e == AddTicks(c, d)
             q == (c.cur + d) \div c.wrapAt
         IN  /\ e \in ClockRecords /\ e.type = c.type /\ e.wrapAt = c.wrapAt /\ e.pending = c.pending
             /\ e.est = c.est /\ e.cur = c.cur + d - q * c.wrapAt
             /\ e.mono = c.mono + (IF d > 0 THEN d ELSE 0)
             /\ e.wraps = IF c.wraps + q < 0 THEN 0 ELSE c.wraps + q
             /\ q \in Int
<1> DEFINE e == AddTicks(c, d)
           q == (c.cur + d) \div c.wrapAt
           m == c.mono + (IF d > 0 THEN d ELSE 0)
           cu == c.cur + d - q * c.wrapAt
           re == c.ref + d - q * c.wrapAt
           wr == IF c.wraps + q < 0 THEN 0 ELSE c.wraps + q
<1>0. /\ c.mono \in Int /\ c.ref \in Int /\ c.wraps \in Nat /\ c.wrapAt \in Int /\ c.cur \in Int
  BY ClockFields
<1>1. q \in Int
  BY <1>0
<1>2. e = [c EXCEPT !.mono = m, !.cur = cu, !.ref = re, !.wraps = wr]
  BY DEF AddTicks, ClockRecords
<1> HIDE DEF q
<1>3. m \in Int /\ cu \in Int /\ re \in Int /\ wr \in Nat
  BY <1>0, <1>1
<1> HIDE DEF e, m, cu, re, wr
<1>4. e \in ClockRecords
  BY <1>2, <1>3 DEF ClockRecords
<1>5. /\ e.type = c.type /\ e.wrapAt = c.wrapAt /\ e.pending = c.pending /\ e.est = c.est
      /\ e.cur = cu /\ e.mono = m /\ e.wraps = wr
  BY <1>2 DEF ClockRecords
<1> QED BY <1>1, <1>4, <1>5 DEF e, q, m, cu, wr

LEMMA DriftFields ==
  ASSUME NEW c \in ClockRecords, NEW at \in Int
  PROVE  LET e == GetDrift(c, at)
         IN  /\ e \in ClockRecords /\ e.type = c.type /\ e.wrapAt = c.wrapAt /\ e.pending = c.pending
             /\ e.est = c.est /\ e.cur = c.cur /\ e.mono = c.mono /\ e.ref = c.ref
             /\ e.wraps = c.wraps
             /\ c.wall => /\ e.drift = c.mono - c.est - (at - c.wallAt)
                          /\ e.lwm <= e.drift /\ e.drift <= e.hwm
<1> DEFINE e == GetDrift(c, at)
           d == DriftOf(c, at)
           hi == IF d > c.hwm THEN d ELSE c.hwm
           lo == IF d <= c.lwm THEN d ELSE c.lwm
<1>0. c.mono \in Int /\ c.est \in Int /\ c.wallAt \in Int /\ c.hwm \in Int /\ c.lwm \in Int
  BY ClockFields
<1>1. d \in Int /\ d = c.mono - c.est - (at - c.wallAt)
  BY <1>0 DEF DriftOf
<1>2. CASE c.wall
  <2>1. e = [c EXCEPT !.drift = d, !.hwm = hi, !.lwm = lo]
    BY <1>2 DEF GetDrift, ClockRecords
  <2> HIDE DEF d
  <2>2. hi \in Int /\ lo \in Int /\ lo <= d /\ d <= hi
    BY <1>0, <1>1
  <2> HIDE DEF e, hi, lo
  <2>3. e \in ClockRecords
    BY <1>1, <2>1, <2>2 DEF ClockRecords
  <2>4. /\ e.type = c.type /\ e.wrapAt = c.wrapAt /\ e.pending = c.pending
        /\ e.est = c.est /\ e.cur = c.cur /\ e.mono = c.mono /\ e.ref = c.ref /\ e.wraps = c.wraps
        /\ e.drift = d /\ e.hwm = hi /\ e.lwm = lo
    BY <2>1 DEF ClockRecords
  <2> QED BY <1>1, <2>2, <2>3, <2>4 DEF e
<1>3. CASE ~c.wall
  BY <1>3 DEF GetDrift
<1> QED BY <1>2, <1>3

LEMMA MarkFields ==
  ASSUME NEW c \in ClockRecords
  PROVE  LET e == MarkDiscontinuity(c)
         IN  /\ e \in ClockRecords /\ e.type = c.type /\ e.wrapAt = c.wrapAt /\ e.pending
             /\ e.est = c.est /\ e.cur = c.cur /\ e.mono = c.mono /\ e.ref = c.ref
             /\ e.wraps = c.wraps
<1> DEFINE n == c.disc + 1
           e == MarkDiscontinuity(c)
<1>1. n \in Int
  BY ClockFields
<1>2. e = [c EXCEPT !.disc = n, !.pending = TRUE]
  BY DEF MarkDiscontinuity, ClockRecords
<1> HIDE DEF n, e
<1>3. e \in ClockRecords
  BY <1>1, <1>2 DEF ClockRecords
<1>4. /\ e.type = c.type /\ e.wrapAt = c.wrapAt /\ e.pending
      /\ e.est = c.est /\ e.cur = c.cur /\ e.mono = c.mono /\ e.ref = c.ref /\ e.wraps = c.wraps
  BY <1>2 DEF ClockRecords
<1> QED BY <1>3, <1>4 DEF e

-----------------------------------------------------------------------------
(* The wire carries the sender's time without its rounds.                  *)
LEMMA DivMod ==
  ASSUME NEW m \in Nat \ {0}, NEW a \in Nat
  PROVE  /\ a \div m \in Nat /\ a % m \in 0 .. m - 1
         /\ a = m * (a \div m) + (a % m)
OBVIOUS

LEMMA Rounds ==
  ASSUME NEW t \in Nat
  PROVE  /\ t % Modulus \in 0 .. Modulus - 1 /\ t \div Modulus \in Nat
         /\ t = Modulus * (t \div Modulus) + (t % Modulus)
<1>1. Modulus \in Nat \ {0}
  BY ClockNumbers
<1> QED BY ONLY <1>1, t \in Nat, DivMod

LEMMA ModSmall ==
  /\ \A x \in 0 .. Modulus - 1 : x % Modulus = x
  /\ \A x \in -(Modulus - 1) .. -1 : x % Modulus = x + Modulus
<1>1. Modulus \in Nat \ {0}
  BY ClockNumbers
<1>2. ASSUME NEW x \in -(Modulus - 1) .. -1 PROVE x % Modulus = x + Modulus
  <2>1. x = Modulus * (-1) + (x + Modulus) /\ x + Modulus \in 0 .. Modulus - 1
    BY <1>1
  <2>2. \A q \in Int, r \in 0 .. Modulus - 1 : (Modulus * q + r) % Modulus = r
    BY <1>1
  <2> QED BY <2>1, <2>2
<1> QED BY <1>1, <1>2

(* A step of less than half the counter is known from the two values on    *)
(* the wire.                                                               *)
LEMMA SignedStep ==
  ASSUME NEW t \in Nat, NEW d \in ClockSteps, t + d >= 0
  PROVE  SignedDelta((t + d) % Modulus, t % Modulus) = d
<1> DEFINE u == t + d
           r == t % Modulus
           s == u % Modulus
           k == u \div Modulus - t \div Modulus
           half == Modulus \div 2
<1>0. Modulus \in Nat \ {0} /\ Modulus = 2 * half /\ half \in Nat
      /\ d \in Int /\ -half <= d /\ d < half
  BY ClockNumbers
<1>1. u \in Nat
  BY <1>0
<1>2. r \in 0 .. Modulus - 1 /\ t \div Modulus \in Nat /\ t = Modulus * (t \div Modulus) + r
  BY Rounds
<1>3. s \in 0 .. Modulus - 1 /\ u \div Modulus \in Nat /\ u = Modulus * (u \div Modulus) + s
  BY <1>1, Rounds
<1>4. k \in Int /\ Modulus * k = Modulus * (u \div Modulus) - Modulus * (t \div Modulus)
      /\ Modulus * (u \div Modulus) \in Int /\ Modulus * (t \div Modulus) \in Int
  BY <1>0, <1>2, <1>3
<1>5. u - t = d
  BY <1>0
<1> HIDE DEF u, r, s, k, half
<1>6. Modulus * k = d - (s - r)
  BY <1>1, <1>2, <1>3, <1>4, <1>5, <1>0
<1>7. k \in {-1, 0, 1}
  <2>1. k >= 2 => Modulus * k >= 2 * Modulus
    BY <1>0, <1>4
  <2>2. k <= -2 => Modulus * k <= -2 * Modulus
    BY <1>0, <1>4
  <2>3. Modulus * k < 2 * Modulus /\ Modulus * k > -2 * Modulus
    BY <1>0, <1>2, <1>3, <1>6
  <2> DEFINE mk == Modulus * k
  <2>4. mk \in Int /\ Modulus \in Int
    BY <1>0, <1>4
  <2> HIDE DEF mk
  <2>5. ~(k >= 2) /\ ~(k <= -2)
    <3>1. (k >= 2 => mk >= 2 * Modulus) /\ (k <= -2 => mk <= -2 * Modulus)
          /\ mk < 2 * Modulus /\ mk > -2 * Modulus
      BY ONLY <2>1, <2>2, <2>3 DEF mk
    <3> QED BY ONLY <3>1, <2>4
  <2>6. k \in Int
    BY <1>4
  <2> QED BY ONLY <2>5, <2>6
<1>8. d = s - r \/ d = s - r + Modulus \/ d = s - r - Modulus
  BY <1>0, <1>2, <1>3, <1>6, <1>7
<1> DEFINE x == (s - r) % Modulus
<1>9. x = IF s >= r THEN s - r ELSE s - r + Modulus
  <2>1. CASE s >= r
    <3>1. s - r \in 0 .. Modulus - 1
      BY ONLY <1>0, <1>2, <1>3, <2>1
    <3> QED BY <2>1, <3>1, ModSmall
  <2>2. CASE ~(s >= r)
    <3>1. s - r \in -(Modulus - 1) .. -1
      BY ONLY <1>0, <1>2, <1>3, <2>2
    <3> QED BY <2>2, <3>1, ModSmall
  <2> QED BY <2>1, <2>2
<1>10. SignedDelta(s, r) = IF x >= half THEN x - Modulus ELSE x
  BY DEF SignedDelta, half
<1> HIDE DEF x
<1>11. SignedDelta(s, r) = d
  <2>1. r \in 0 .. Modulus - 1 /\ s \in 0 .. Modulus - 1
    BY <1>2, <1>3
  <2> QED BY ONLY <1>0, <1>8, <1>9, <1>10, <2>1
<1> QED BY <1>11 DEF u, r, s

(* A plain step, as the clock sees it.                                     *)
LEMMA PlainStep ==
  ASSUME NEW t \in Nat, NEW hi \in Nat, NEW d \in Int, NEW u \in Nat, u = t + d,
         t \div Modulus = hi \div Modulus, t <= hi,
         u \div Modulus # t \div Modulus => SmallStep(d),
         ~(d < 0 /\ u % Modulus < (t % Modulus) \div 50)
  PROVE  LET s == u % Modulus
             h == hi % Modulus
             wrapped == s < (t % Modulus) \div 50
         IN  /\ wrapped => u > hi /\ s < h /\ u - hi = Modulus + s - h
             /\ ~wrapped => u - hi = s - h /\ u \div Modulus = hi \div Modulus
<1> DEFINE r == t % Modulus
           s == u % Modulus
           h == hi % Modulus
           a == t \div Modulus
           b == u \div Modulus
           K == Modulus \div 50
           w == r \div 50
<1>0. Modulus \in Nat \ {0}
  BY ClockNumbers
<1>1. u \in Nat
  OBVIOUS
<1>2. r \in 0 .. Modulus - 1 /\ a \in Nat /\ t = Modulus * a + r
  BY Rounds
<1>3. s \in 0 .. Modulus - 1 /\ b \in Nat /\ u = Modulus * b + s
  BY <1>1, Rounds
<1>4. h \in 0 .. Modulus - 1 /\ hi = Modulus * a + h
  BY Rounds
<1>5. K \in Nat /\ 50 * K <= Modulus /\ Modulus < 50 * K + 50
  BY <1>0
<1>6. w \in Nat /\ 50 * w <= r /\ r < 50 * w + 50
  BY <1>2
<1>7. (b # a => d > 0 /\ d < K) /\ ~(d < 0 /\ s < w)
  BY DEF SmallStep
<1>8. Modulus * a \in Int /\ Modulus * b \in Int /\ u - t = d
  BY <1>0, <1>2, <1>3
<1> HIDE DEF r, s, h, a, b, K, w
<1>9. r <= h
  BY <1>2, <1>4, <1>8
<1>10. CASE b = a
  <2>1. d = s - r
    BY <1>0, <1>2, <1>3, <1>8, <1>10
  <2>2. ~(s < w)
    BY <1>2, <1>3, <1>6, <1>7, <2>1
  <2>3. u - hi = s - h
    BY <1>0, <1>2, <1>3, <1>4, <1>8, <1>10
  <2>4. a = hi \div Modulus
    BY DEF a
  <2> QED BY <1>10, <2>2, <2>3, <2>4 DEF r, s, h, b, w
<1>11. CASE b # a
  <2>1. d > 0 /\ d < K
    BY <1>7, <1>11
  <2>2. b = a + 1
    <3>1. b - a \in Int /\ Modulus * (b - a) = Modulus * b - Modulus * a
      BY <1>0, <1>2, <1>3
    <3>2. b - a <= 0 => Modulus * (b - a) <= 0
      BY <1>0, <3>1
    <3>3. b - a <= -1 => Modulus * (b - a) <= -Modulus
      BY <1>0, <3>1
    <3>4. b - a >= 2 => Modulus * (b - a) >= 2 * Modulus
      BY <1>0, <3>1
    <3>5. Modulus * b - Modulus * a = d - (s - r)
      BY <1>0, <1>2, <1>3, <1>8
    <3>6. d < Modulus
      BY <1>0, <1>5, <2>1
    <3> HIDE DEF SmallStep
    <3>7. Modulus * (b - a) < 2 * Modulus /\ Modulus * (b - a) > -Modulus
      BY <1>0, <1>2, <1>3, <2>1, <3>1, <3>5, <3>6
    <3> QED BY <1>0, <1>2, <1>3, <1>11, <3>1, <3>3, <3>4, <3>7
  <2>3. Modulus * b = Modulus * a + Modulus
    BY <1>0, <1>2, <1>3, <2>2
  <2>4. s = r + d - Modulus
    BY <1>0, <1>2, <1>3, <1>8, <2>3
  <2>5. s < w
    BY <1>0, <1>2, <1>3, <1>5, <1>6, <2>1, <2>4
  <2>6. s < h
    BY <1>0, <1>2, <1>3, <1>4, <1>5, <1>9, <2>1, <2>4
  <2>7. u - hi = Modulus + s - h
    <3> DEFINE ma == Modulus * a
    <3>1. u = ma + Modulus + s /\ hi = ma + h
      BY <1>3, <1>4, <2>3
    <3>2. ma \in Int /\ s \in Int /\ h \in Int /\ Modulus \in Int
      BY <1>0, <1>3, <1>4, <1>8
    <3> HIDE DEF ma
    <3> QED BY ONLY <3>1, <3>2
  <2>8. u > hi
    BY <1>0, <1>1, <1>3, <1>4, <2>7
  <2> QED BY <2>5, <2>6, <2>7, <2>8 DEF r, s, h, w
<1> QED BY <1>10, <1>11

-----------------------------------------------------------------------------
(* What each step notes of the sender.                                     *)
LEMMA SentBased ==
  ASSUME NEW t \in Nat, sent \in SentRecords
  PROVE  LET e == Based(t)
         IN  /\ e \in SentRecords /\ e.t = t /\ e.t0 = t /\ e.hi = t /\ e.plain = TRUE
             /\ e.own = TRUE /\ e.sum = 0 /\ e.up = 0 /\ e.top = sent.top /\ e.bad = sent.bad
             /\ e.calls = sent.calls + 1
<1> DEFINE n == sent.calls + 1
           z == 0
           yes == TRUE
           e == Based(t)
<1>1. n \in Nat /\ z \in Nat /\ z \in Int /\ yes \in BOOLEAN /\ t \in Int
  BY SentFields
<1>2. e = [sent EXCEPT !.t = t, !.t0 = t, !.hi = t, !.plain = yes, !.own = yes,
                       !.sum = z, !.up = z, !.calls = n]
  BY DEF Based, SentRecords
<1> HIDE DEF e, n, z, yes
<1>3. e \in SentRecords
  BY Zenon, <1>1, <1>2 DEF SentRecords
<1>4. /\ e.t = t /\ e.t0 = t /\ e.hi = t /\ e.plain = yes /\ e.own = yes /\ e.sum = z /\ e.up = z
      /\ e.top = sent.top /\ e.bad = sent.bad /\ e.calls = n
  BY Zenon, <1>2 DEF SentRecords
<1> QED BY <1>3, <1>4 DEF e, n, z, yes

(* The corrected clock, stepped by the sender, is at the sender.           *)
LEMMA CorrectedStep ==
  ASSUME NEW d \in ClockSteps, ClockInv, sent.t + d >= 0,
         cor' = CorrectedUpdate(cor, (sent.t + d) % Modulus)
  PROVE  /\ cor' \in [last : Int, un : Int, corrected : Int, bad : Int]
         /\ cor'.last = (sent.t + d) % Modulus /\ cor'.un = sent.t + d /\ cor'.bad = cor.bad
         /\ cor'.corrected = IF sent.t + d > sent.top THEN sent.t + d ELSE sent.top
<1> DEFINE u == sent.t + d
           s == u % Modulus
           c == IF u > sent.top THEN u ELSE sent.top
<1>0. sent.t \in Nat /\ sent.top \in Nat /\ d \in Int /\ u \in Nat
  BY SentFields, ClockNumbers DEF ClockInv, ClockTypes
<1>1. s \in Int
  BY <1>0, Rounds
<1>2. SignedDelta(s, cor.last) = d
  BY <1>0, SignedStep DEF ClockInv, CorrectedAtSender
<1>3. cor.un + d = u /\ ~(u < 0) /\ cor.corrected = sent.top
  BY <1>0 DEF ClockInv, CorrectedAtSender
<1>4. cor \in [last : Int, un : Int, corrected : Int, bad : Int]
  BY DEF ClockInv, ClockTypes
<1>5. cor' = [cor EXCEPT !.last = s, !.un = u, !.corrected = c]
  <2> HIDE DEF u, s
  <2>1. cor' = CorrectedUpdate(cor, s)
    BY DEF u, s
  <2> QED BY <1>2, <1>3, <1>4, <2>1 DEF CorrectedUpdate
<1>6. c \in Int /\ u \in Int
  BY <1>0
<1> HIDE DEF c, u, s
<1>7. /\ cor' \in [last : Int, un : Int, corrected : Int, bad : Int]
      /\ cor'.last = s /\ cor'.un = u /\ cor'.bad = cor.bad /\ cor'.corrected = c
  BY <1>1, <1>4, <1>5, <1>6
<1> QED BY <1>7 DEF c, u, s

-----------------------------------------------------------------------------
(* The invariant, by action.                                               *)
LEMMA ClockInitInv == ClockInit => ClockInv
<1> SUFFICES ASSUME ClockInit PROVE ClockInv
  OBVIOUS
<1>0. 0 \in 0 .. Modulus - 1
  BY ClockNumbers
<1>1. 0 % Modulus = 0
  BY <1>0, ModSmall
<1>2. Initialized = [type |-> "UNKNOWN", timebase |-> FALSE, wall |-> FALSE, wallAt |-> 0,
               est |-> 0, cur |-> 0, mono |-> 0, ref |-> 0, wraps |-> 0, back |-> 0,
               fwd |-> 0, disc |-> 0, pending |-> FALSE, wrapAt |-> 0,
               drift |-> 0, hwm |-> 0, lwm |-> 0]
  BY DEF Initialized, SetMetadata
<1>3. clk \in ClockRecords /\ clk.cur = 0 /\ clk.ref = 0
  BY <1>2 DEF ClockInit, ClockRecords
<1>4. /\ sent \in SentRecords /\ sent.t = 0 /\ ~sent.plain /\ ~sent.own /\ sent.calls = 0
      /\ sent.bad = 0 /\ sent.top = 0 /\ sent.sum = 0 /\ sent.up = 0
  BY DEF ClockInit, ClockIdle, SentRecords
<1>5. /\ cor \in [last : Int, un : Int, corrected : Int, bad : Int]
      /\ cor.last = 0 /\ cor.un = 0 /\ cor.corrected = 0 /\ cor.bad = 0
  BY DEF ClockInit, CorrectedInit
<1>6. clkNow \in Nat
  BY DEF ClockInit
<1>7. ClockTypes
  BY <1>3, <1>4, <1>5, <1>6 DEF ClockTypes
<1>8. ClockBased /\ ClockAtSender /\ ClockInRange
  BY <1>0, <1>3, <1>4 DEF ClockBased, ClockAtSender, ClockInRange
<1>9. CorrectedAtSender
  BY <1>1, <1>4, <1>5 DEF CorrectedAtSender
<1>10. ClocksAreRight
  BY <1>4, <1>5 DEF ClocksAreRight, ClockFollowsSender, ClockCountsAdds, CorrectedIsSender
<1> QED BY <1>7, <1>8, <1>9, <1>10 DEF ClockInv

LEMMA EstablishInv == ASSUME ClockInv, ClockEstablish PROVE ClockInv'
<1> PICK t \in ClockStarts, type \in {"PCR", "PTS", "RTMP"} :
      LET based == IF type = "RTMP" THEN EstablishTimebase(Initialized, type)
                   ELSE SetMetadata(Initialized, type)
      IN  /\ clk' = EstablishWallclock(based, t, clkNow)
          /\ cor' = CorrectedUpdate(CorrectedInit, t)
          /\ sent' = [Based(t) EXCEPT !.top = t, !.bad = cor'.bad]
          /\ UNCHANGED clkNow
  BY DEF ClockEstablish
<1>0. /\ t \in 0 .. Modulus - 1 /\ t \in Nat /\ Modulus \in Nat \ {0} /\ clkNow \in Nat
      /\ sent \in SentRecords
  BY ClockAssumption, ClockNumbers DEF ClockInv, ClockTypes
<1>1. /\ clk' \in ClockRecords /\ clk'.type = type /\ clk'.wrapAt = WrapOf(type) /\ ~clk'.pending
      /\ clk'.est = t /\ clk'.cur = t /\ clk'.mono = t /\ clk'.ref = t /\ clk'.wraps = 0
  BY <1>0, BasedFields
<1>2. /\ cor' \in [last : Int, un : Int, corrected : Int, bad : Int]
      /\ cor'.last = t /\ cor'.un = t /\ cor'.corrected = t
  <2> DEFINE x == SignedDelta(t, 0)
  <2>1. t % Modulus = t /\ t - 0 = t
    BY <1>0, ModSmall
  <2>2. x = t \/ (x = t - Modulus /\ x < 0)
    BY <1>0, <2>1 DEF SignedDelta
  <2>3. x \in Int
    BY <1>0, <2>2
  <2>4. cor' = CorrectedUpdate([last |-> 0, un |-> 0, corrected |-> 0, bad |-> 0], t)
    BY DEF CorrectedInit
  <2> HIDE DEF x
  <2>5. CASE x < 0
    <3>1. cor' = [last |-> t, un |-> t, corrected |-> t, bad |-> 1]
      BY <2>3, <2>4, <2>5 DEF CorrectedUpdate, x
    <3> QED BY <1>0, <3>1
  <2>6. CASE ~(x < 0)
    <3>1. x = t
      BY <2>2, <2>6
    <3>2. cor' = [last |-> t, un |-> t, corrected |-> t, bad |-> 0]
      <4>1. 0 + SignedDelta(t, 0) = t /\ ~(t < 0) /\ (IF t > 0 THEN t ELSE 0) = t
        BY <1>0, <2>3, <3>1 DEF x
      <4> QED BY <2>4, <4>1 DEF CorrectedUpdate
    <3> QED BY <1>0, <3>2
  <2> QED BY <2>5, <2>6
<1>3. /\ sent' \in SentRecords /\ sent'.t = t /\ sent'.t0 = t /\ sent'.hi = t /\ sent'.plain
      /\ sent'.own /\ sent'.sum = 0 /\ sent'.up = 0 /\ sent'.top = t /\ sent'.bad = cor'.bad
      /\ sent'.calls = sent.calls + 1 /\ sent.calls \in Nat
  <2>1. cor'.bad \in Int
    BY <1>2
  <2> DEFINE b == Based(t)
             k == cor'.bad
  <2>2. /\ b \in SentRecords /\ b.t = t /\ b.t0 = t /\ b.hi = t /\ b.plain = TRUE
        /\ b.own = TRUE /\ b.sum = 0 /\ b.up = 0 /\ b.calls = sent.calls + 1
    BY <1>0, SentBased
  <2>3. sent' = [b EXCEPT !.top = t, !.bad = k]
    OBVIOUS
  <2> HIDE DEF b, k
  <2>4. k \in Int
    BY <2>1 DEF k
  <2>5. /\ sent' \in SentRecords /\ sent'.t = b.t /\ sent'.t0 = b.t0 /\ sent'.hi = b.hi
        /\ sent'.plain = b.plain /\ sent'.own = b.own /\ sent'.sum = b.sum /\ sent'.up = b.up
        /\ sent'.top = t /\ sent'.bad = k /\ sent'.calls = b.calls
    BY <1>0, <2>2, <2>3, <2>4 DEF SentRecords
  <2>6. sent.calls \in Nat
    BY <1>0, SentFields
  <2> QED BY <2>2, <2>5, <2>6 DEF k
<1>4. ClockTypes'
  BY <1>0, <1>1, <1>2, <1>3 DEF ClockTypes
<1>5. ClockBased'
  BY <1>1, <1>3 DEF ClockBased
<1>6. t % Modulus = t
  BY <1>0, ModSmall
<1>7. ClockAtSender' /\ ClockInRange'
  BY <1>0, <1>1, <1>3, <1>6 DEF ClockAtSender, ClockInRange
<1>8. CorrectedAtSender'
  BY <1>2, <1>3, <1>6 DEF CorrectedAtSender
<1>9. ClocksAreRight'
  <2> DEFINE w == WrapOf(type)
  <2>1. w \in Int /\ 0 * (Modulus - w) = 0 /\ 0 * w = 0
    BY <1>0, WrapType
  <2>2. clk'.wrapAt = w
    BY <1>1
  <2> HIDE DEF w
  <2>3. ClockFollowsSender' /\ ClockCountsAdds'
    BY <1>0, <1>1, <1>3, <2>1, <2>2 DEF ClockFollowsSender, ClockCountsAdds
  <2>4. CorrectedIsSender'
    BY <1>2, <1>3 DEF CorrectedIsSender
  <2> QED BY <2>3, <2>4 DEF ClocksAreRight
<1> QED BY <1>4, <1>5, <1>7, <1>8, <1>9 DEF ClockInv

(* A time stamp that a discontinuity announced: the clock begins anew.     *)
LEMMA RebaseInv ==
  ASSUME ClockInv, NEW d \in ClockSteps, sent.t + d >= 0, clk.pending, sent.calls > 0,
         clkNow' \in Nat, clk' = SetTicks(clk, (sent.t + d) % Modulus, clkNow'),
         cor' = CorrectedUpdate(cor, (sent.t + d) % Modulus),
         sent' = [Based(sent.t + d) EXCEPT !.top = IF sent.t + d > @ THEN sent.t + d ELSE @]
  PROVE  ClockInv'
<1> DEFINE u == sent.t + d
           s == u % Modulus
           top == IF u > sent.top THEN u ELSE sent.top
<1>0. /\ u \in Nat /\ sent \in SentRecords /\ Modulus \in Nat \ {0} /\ clk \in ClockRecords
      /\ sent.top \in Nat /\ sent.calls \in Nat /\ top \in Nat /\ sent.bad \in Int
  BY ClockNumbers, SentFields DEF ClockInv, ClockTypes
<1>1. s \in 0 .. Modulus - 1 /\ s \in Int /\ s \in Nat
  BY <1>0, Rounds
<1>2. /\ clk' \in ClockRecords /\ clk'.type = clk.type /\ clk'.wrapAt = clk.wrapAt /\ ~clk'.pending
      /\ clk'.est = s /\ clk'.cur = s /\ clk'.mono = s /\ clk'.ref = s /\ clk'.wraps = 0
  <2> DEFINE at == clkNow'
  <2>1. at \in Int /\ clk' = SetTicks(clk, s, at)
    OBVIOUS
  <2> HIDE DEF s, at
  <2> QED BY ONLY <1>0, <1>1, <2>1, clk.pending, RebasedFields
<1>3. /\ cor' \in [last : Int, un : Int, corrected : Int, bad : Int]
      /\ cor'.last = s /\ cor'.un = u /\ cor'.bad = cor.bad /\ cor'.corrected = top
  BY CorrectedStep
<1>4. /\ sent' \in SentRecords /\ sent'.t = u /\ sent'.t0 = u /\ sent'.hi = u /\ sent'.plain
      /\ sent'.own /\ sent'.sum = 0 /\ sent'.up = 0 /\ sent'.top = top /\ sent'.bad = sent.bad
      /\ sent'.calls = sent.calls + 1
  <2> DEFINE b == Based(u)
             k == sent.bad
  <2>1. /\ b \in SentRecords /\ b.t = u /\ b.t0 = u /\ b.hi = u /\ b.plain = TRUE
        /\ b.own = TRUE /\ b.sum = 0 /\ b.up = 0 /\ b.calls = sent.calls + 1
        /\ b.top = sent.top /\ b.bad = k
    BY <1>0, SentBased
  <2>2. sent' = [b EXCEPT !.top = IF u > @ THEN u ELSE @]
    OBVIOUS
  <2> HIDE DEF b, k, u
  <2>3. sent' = [b EXCEPT !.top = top, !.bad = k]
    BY <2>1, <2>2 DEF SentRecords
  <2>4. k \in Int
    BY <1>0 DEF k
  <2> HIDE DEF top
  <2>5. /\ sent' \in SentRecords /\ sent'.t = b.t /\ sent'.t0 = b.t0 /\ sent'.hi = b.hi
        /\ sent'.plain = b.plain /\ sent'.own = b.own /\ sent'.sum = b.sum /\ sent'.up = b.up
        /\ sent'.top = top /\ sent'.bad = k /\ sent'.calls = b.calls
    BY <1>0, <2>1, <2>3, <2>4 DEF SentRecords
  <2> QED BY <2>1, <2>5 DEF k
<1>5. CorrectedAtSender
  BY DEF ClockInv
<1>6. clk.wrapAt = WrapOf(clk.type)
  BY DEF ClockInv, ClockBased
<1>7. u % Modulus = s
  OBVIOUS
<1> HIDE DEF u, s, top
<1>8. ClockTypes'
  BY <1>2, <1>3, <1>4 DEF ClockTypes
<1>9. ClockBased'
  BY <1>0, <1>2, <1>4, <1>6 DEF ClockBased
<1>10. ClockAtSender' /\ ClockInRange'
  BY <1>0, <1>1, <1>2, <1>4, <1>7 DEF ClockAtSender, ClockInRange
<1>11. CorrectedAtSender'
  BY <1>3, <1>4, <1>5, <1>7 DEF CorrectedAtSender
<1>12. ClocksAreRight'
  <2> DEFINE w == WrapOf(clk.type)
  <2>1. w \in Int /\ 0 * (Modulus - w) = 0 /\ 0 * w = 0
    BY <1>0, WrapType
  <2>2. clk'.wrapAt = w
    BY <1>2, <1>6
  <2> HIDE DEF w
  <2>3. ClockFollowsSender' /\ ClockCountsAdds'
    BY <1>0, <1>1, <1>2, <1>4, <2>1, <2>2 DEF ClockFollowsSender, ClockCountsAdds
  <2>4. CorrectedIsSender'
    BY <1>3, <1>4 DEF CorrectedIsSender
  <2> QED BY <2>3, <2>4 DEF ClocksAreRight
<1> QED BY <1>8, <1>9, <1>10, <1>11, <1>12 DEF ClockInv

(* A time stamp of a clock that runs.                                      *)
LEMMA FollowInv ==
  ASSUME ClockInv, NEW d \in ClockSteps, sent.t + d >= 0, ~clk.pending, sent.calls > 0,
         clkNow' \in Nat, NEW keep \in BOOLEAN,
         keep => /\ (sent.t + d) \div Modulus # sent.t \div Modulus => SmallStep(d)
                 /\ ~(d < 0 /\ (sent.t + d) % Modulus < (sent.t % Modulus) \div 50),
         clk' = SetTicks(clk, (sent.t + d) % Modulus, clkNow'),
         cor' = CorrectedUpdate(cor, (sent.t + d) % Modulus),
         sent' = [[sent EXCEPT !.t = sent.t + d, !.hi = IF sent.t + d > @ THEN sent.t + d ELSE @,
                               !.plain = @ /\ keep, !.own = FALSE, !.calls = @ + 1]
                  EXCEPT !.top = IF sent.t + d > @ THEN sent.t + d ELSE @]
  PROVE  ClockInv' /\ (~ClockMoved => clk'.mono >= clk.mono)
<1> DEFINE t == sent.t
           u == sent.t + d
           s == u % Modulus
           top == IF u > sent.top THEN u ELSE sent.top
           hi == IF u > sent.hi THEN u ELSE sent.hi
           w == clk.wrapAt
           wrapped == Wrapped(clk, s)
<1>0. /\ u \in Nat /\ sent \in SentRecords /\ Modulus \in Nat \ {0} /\ clk \in ClockRecords
      /\ sent.top \in Nat /\ sent.hi \in Nat /\ sent.t0 \in Int /\ sent.calls \in Nat
      /\ t \in Nat /\ d \in Int
  BY ClockNumbers, SentFields DEF ClockInv, ClockTypes
<1>1. s \in 0 .. Modulus - 1 /\ s \in Int
  BY <1>0, Rounds
<1>2. w = WrapOf(clk.type) /\ w \in Modulus - 1 .. Modulus /\ w > 0 /\ w \in Int
  BY <1>0, WrapType DEF ClockInv, ClockBased
<1>3. /\ clk.mono \in Int /\ clk.est \in Int /\ clk.cur \in Int /\ clk.ref \in Int
      /\ clk.wraps \in Nat
  BY <1>0, ClockFields
<1>4. /\ clk' \in ClockRecords /\ clk'.type = clk.type /\ clk'.wrapAt = w /\ ~clk'.pending
      /\ clk'.est = clk.est /\ clk'.cur = s
      /\ wrapped => /\ clk'.wraps = clk.wraps + 1 /\ clk'.ref = s
                    /\ clk'.mono = clk.mono + ComputeDelta(clk, s, clk.ref)
      /\ ~wrapped /\ s > clk.ref =>
           clk'.wraps = clk.wraps /\ clk'.ref = s /\ clk'.mono = clk.mono + (s - clk.ref)
      /\ ~wrapped /\ ~(s > clk.ref) =>
           clk'.wraps = clk.wraps /\ clk'.ref = clk.ref /\ clk'.mono = clk.mono
  <2> DEFINE at == clkNow'
  <2>1. at \in Int /\ clk' = SetTicks(clk, s, at)
    OBVIOUS
  <2> HIDE DEF s, at
  <2> QED BY ONLY <1>0, <1>1, <1>2, <2>1, ~clk.pending, TicksFields DEF wrapped, w
<1>5. /\ cor' \in [last : Int, un : Int, corrected : Int, bad : Int]
      /\ cor'.last = s /\ cor'.un = u /\ cor'.bad = cor.bad /\ cor'.corrected = top
  BY CorrectedStep
<1>6. /\ sent' \in SentRecords /\ sent'.t = u /\ sent'.t0 = sent.t0 /\ sent'.hi = hi
      /\ sent'.plain = (sent.plain /\ keep) /\ sent'.own = FALSE /\ sent'.sum = sent.sum
      /\ sent'.up = sent.up /\ sent'.top = top /\ sent'.bad = sent.bad
      /\ sent'.calls = sent.calls + 1
  <2>1. sent' = [[sent EXCEPT !.t = u, !.hi = IF u > @ THEN u ELSE @,
                              !.plain = @ /\ keep, !.own = FALSE, !.calls = @ + 1]
                 EXCEPT !.top = IF u > @ THEN u ELSE @]
    OBVIOUS
  <2> HIDE DEF u
  <2> DEFINE n == sent.calls + 1
             p == sent.plain /\ keep
             no == FALSE
  <2>2. top \in Nat /\ hi \in Nat /\ n \in Nat /\ p \in BOOLEAN /\ no \in BOOLEAN
    BY <1>0
  <2>3. sent' = [sent EXCEPT !.t = u, !.hi = hi, !.plain = p, !.own = no, !.calls = n, !.top = top]
    BY <1>0, <2>1 DEF SentRecords
  <2> HIDE DEF top, hi, n, p, no
  <2>4. sent' \in SentRecords
    BY ZenonT(60), <1>0, <2>2, <2>3 DEF SentRecords
  <2>5. /\ sent'.t = u /\ sent'.t0 = sent.t0 /\ sent'.hi = hi /\ sent'.plain = p
        /\ sent'.own = no /\ sent'.sum = sent.sum /\ sent'.up = sent.up /\ sent'.top = top
        /\ sent'.bad = sent.bad /\ sent'.calls = n
    BY Zenon, <1>0, <2>3 DEF SentRecords
  <2> QED BY <2>4, <2>5 DEF n, p, no
<1>7. /\ CorrectedAtSender /\ ClockBased /\ ClockAtSender /\ ClockInRange /\ ClockFollowsSender
  BY DEF ClockInv, ClocksAreRight
<1>8. keep => (u \div Modulus # t \div Modulus => SmallStep(d))
              /\ ~(d < 0 /\ s < (t % Modulus) \div 50)
  OBVIOUS
<1>9. u % Modulus = s /\ u = t + d
  OBVIOUS
<1>10. wrapped = (s < clk.cur \div 50)
  BY DEF Wrapped
<1> HIDE DEF t, u, s, top, hi, w, wrapped
<1>11. ClockTypes'
  BY <1>4, <1>5, <1>6 DEF ClockTypes
<1>12. ClockBased'
  BY <1>0, <1>2, <1>4, <1>6, <1>7 DEF ClockBased
<1>13. CorrectedAtSender' /\ CorrectedIsSender'
  BY <1>5, <1>6, <1>7, <1>9 DEF CorrectedAtSender, CorrectedIsSender
<1>14. ClockCountsAdds'
  BY <1>6 DEF ClockCountsAdds
<1>15. ClockInRange' /\ (~ClockMoved => clk'.mono >= clk.mono)
  <2>1. ClockMoved' <=> ClockMoved
    BY <1>6 DEF ClockMoved
  <2>2. ASSUME ~ClockMoved
        PROVE  clk'.ref \in 0 .. Modulus - 1 /\ clk'.mono >= clk.mono
    <3>1. clk.ref \in 0 .. Modulus - 1
      BY <1>7, <2>2 DEF ClockInRange
    <3>2. ComputeDelta(clk, s, clk.ref) >= 0 /\ ComputeDelta(clk, s, clk.ref) \in Int
      BY <1>0, <1>1, <1>2, <1>3, <3>1 DEF ComputeDelta, w
    <3> QED BY <1>0, <1>1, <1>3, <1>4, <3>1, <3>2
  <2> QED BY <1>1, <1>4, <2>1, <2>2 DEF ClockInRange
<1>16. ASSUME sent'.plain
       PROVE  /\ clk'.cur = u % Modulus /\ clk'.ref = hi % Modulus
              /\ u \div Modulus = hi \div Modulus /\ u <= hi
              /\ clk'.mono - clk.est = (hi - sent.t0) - clk'.wraps * (Modulus - w)
  <2> DEFINE h == sent.hi % Modulus
             W == clk.wraps * (Modulus - w)
  <2>1. sent.plain /\ keep
    BY <1>6, <1>16
  <2>2. /\ clk.cur = t % Modulus /\ clk.ref = h /\ t \div Modulus = sent.hi \div Modulus
        /\ t <= sent.hi
    BY <1>7, <2>1 DEF ClockAtSender, t
  <2>3. clk.mono - clk.est = (sent.hi - sent.t0) - W
    BY <1>7, <2>1 DEF ClockFollowsSender, w
  <2>4. /\ wrapped => u > sent.hi /\ s < h /\ u - sent.hi = Modulus + s - h
        /\ ~wrapped => u - sent.hi = s - h /\ u \div Modulus = sent.hi \div Modulus
    <3>1. /\ u \div Modulus # t \div Modulus => SmallStep(d)
          /\ ~(d < 0 /\ u % Modulus < (t % Modulus) \div 50)
      BY <1>8, <1>9, <2>1
    <3>2. wrapped = (s < (t % Modulus) \div 50)
      BY <1>10, <2>2
    <3>3. sent.hi \in Nat /\ u \in Nat /\ u = t + d /\ s = u % Modulus
      BY <1>0, <1>9
    <3>4. t \in Nat /\ d \in Int /\ t \div Modulus = sent.hi \div Modulus /\ t <= sent.hi
      BY <1>0, <2>2
    <3> HIDE DEF SmallStep
    <3>5. LET s2 == u % Modulus
              h2 == sent.hi % Modulus
              wrapped2 == s2 < (t % Modulus) \div 50
          IN  /\ wrapped2 => u > sent.hi /\ s2 < h2 /\ u - sent.hi = Modulus + s2 - h2
              /\ ~wrapped2 => u - sent.hi = s2 - h2 /\ u \div Modulus = sent.hi \div Modulus
      BY ONLY <3>1, <3>3, <3>4, PlainStep
    <3> DEFINE q == (t % Modulus) \div 50
    <3>7. /\ s < q => u > sent.hi /\ s < h /\ u - sent.hi = Modulus + s - h
          /\ ~(s < q) => u - sent.hi = s - h /\ u \div Modulus = sent.hi \div Modulus
      BY Zenon, <3>3, <3>5 DEF h, q
    <3>8. wrapped = (s < q)
      BY <3>2
    <3> HIDE DEF q, h
    <3> QED BY Zenon, <3>7, <3>8
  <2>5. W \in Int /\ (clk.wraps + 1) * (Modulus - w) = W + (Modulus - w)
    BY <1>0, <1>2, <1>3
  <2>6. h \in Int
    BY <1>3, <2>2
  <2>7. CASE wrapped
    <3>1. hi = u
      BY <1>0, <2>4, <2>7 DEF hi
    <3>2. ComputeDelta(clk, s, clk.ref) = w - h + s
      BY <1>1, <2>2, <2>4, <2>6, <2>7 DEF ComputeDelta, w
    <3>3. clk'.mono = clk.mono + (w - h + s) /\ clk'.wraps = clk.wraps + 1 /\ clk'.ref = s
      BY <1>4, <2>7, <3>2
    <3>4. clk'.wraps * (Modulus - w) = W + (Modulus - w)
      BY <2>5, <3>3
    <3> HIDE DEF W, h
    <3>5. clk'.mono - clk.est = (u - sent.t0) - (W + (Modulus - w))
      <4>1. u - sent.hi = Modulus + s - h /\ clk'.mono = clk.mono + (w - h + s)
        BY <2>4, <2>7, <3>3
      <4>2. /\ u \in Int /\ sent.hi \in Int /\ Modulus \in Int /\ s \in Int /\ w \in Int
            /\ sent.t0 \in Int /\ W \in Int
        BY <1>0, <1>1, <1>2, <2>5
      <4> DEFINE m == clk.mono
                 m2 == clk'.mono
                 es == clk.est
                 t0 == sent.t0
                 sh == sent.hi
      <4>3. /\ m \in Int /\ es \in Int /\ m - es = (sh - t0) - W /\ h \in Int
            /\ u - sh = Modulus + s - h /\ m2 = m + (w - h + s) /\ Modulus \in Int /\ w \in Int
            /\ u \in Int /\ sh \in Int /\ s \in Int /\ t0 \in Int /\ W \in Int
        BY <1>3, <2>3, <2>6, <4>1, <4>2
      <4> HIDE DEF m, m2, es, t0, sh
      <4>4. m2 - es = (u - t0) - (W + (Modulus - w))
        BY ONLY <4>3
      <4> QED BY <4>4 DEF m2, es, t0
    <3> QED BY <1>0, <1>4, <1>9, <3>1, <3>3, <3>4, <3>5
  <2>8. CASE ~wrapped /\ s > clk.ref
    <3>1. hi = u /\ u > sent.hi
      BY <1>0, <1>1, <2>2, <2>4, <2>6, <2>8 DEF hi
    <3>2. clk'.mono = clk.mono + (s - h) /\ clk'.wraps = clk.wraps /\ clk'.ref = s
      BY <1>4, <2>2, <2>8
    <3>3. clk'.wraps * (Modulus - w) = W
      BY <3>2
    <3> HIDE DEF W, h
    <3>4. clk'.mono - clk.est = (u - sent.t0) - W
      <4>1. u - sent.hi = s - h /\ clk'.mono = clk.mono + (s - h)
        BY <2>4, <2>8, <3>2
      <4>2. u \in Int /\ sent.hi \in Int /\ s \in Int /\ sent.t0 \in Int /\ W \in Int
        BY <1>0, <1>1, <2>5
      <4> DEFINE m == clk.mono
                 m2 == clk'.mono
                 es == clk.est
                 t0 == sent.t0
                 sh == sent.hi
      <4>3. /\ m \in Int /\ es \in Int /\ m - es = (sh - t0) - W /\ h \in Int
            /\ u - sh = s - h /\ m2 = m + (s - h)
            /\ u \in Int /\ sh \in Int /\ s \in Int /\ t0 \in Int /\ W \in Int
        BY <1>3, <2>3, <2>6, <4>1, <4>2
      <4> HIDE DEF m, m2, es, t0, sh
      <4>4. m2 - es = (u - t0) - W
        BY ONLY <4>3
      <4> QED BY <4>4 DEF m2, es, t0
    <3> QED BY <1>0, <1>4, <1>9, <3>1, <3>2, <3>3, <3>4
  <2>9. CASE ~wrapped /\ ~(s > clk.ref)
    <3>1. hi = sent.hi /\ u <= sent.hi
      BY <1>0, <1>1, <2>2, <2>4, <2>6, <2>9 DEF hi
    <3>2. clk'.mono = clk.mono /\ clk'.wraps = clk.wraps /\ clk'.ref = h
      BY <1>4, <2>2, <2>9
    <3>3. clk'.wraps * (Modulus - w) = W
      BY <3>2
    <3>4. clk'.ref = hi % Modulus /\ u \div Modulus = hi \div Modulus
      BY <2>4, <2>9, <3>1, <3>2
    <3> HIDE DEF W, h
    <3> QED BY <1>4, <1>9, <2>3, <3>1, <3>2, <3>3, <3>4
  <2> QED BY <2>7, <2>8, <2>9
<1>17. ClockAtSender'
  BY <1>6, <1>16 DEF ClockAtSender
<1>18. ClockFollowsSender'
  BY <1>4, <1>6, <1>16 DEF ClockFollowsSender
<1> QED BY <1>11, <1>12, <1>13, <1>14, <1>15, <1>17, <1>18 DEF ClockInv, ClocksAreRight

LEMMA TickInv == ASSUME ClockInv, ClockTick
                 PROVE  ClockInv' /\ (~ClockMoved /\ ~clk.pending => clk'.mono >= clk.mono)
<1> PICK d \in ClockSteps :
      LET t == sent.t + d
          crossed == t \div Modulus # sent.t \div Modulus
          far == d < 0 /\ t % Modulus < (sent.t % Modulus) \div 50
      IN  /\ t >= 0
          /\ clkNow' = clkNow + IF d > 0 THEN d ELSE 0
          /\ clk' = SetTicks(clk, t % Modulus, clkNow')
          /\ cor' = CorrectedUpdate(cor, t % Modulus)
          /\ sent' = [IF clk.pending THEN Based(t)
                      ELSE [sent EXCEPT !.t = t, !.hi = IF t > @ THEN t ELSE @,
                              !.plain = @ /\ (crossed => SmallStep(d)) /\ ~far,
                              !.own = FALSE, !.calls = @ + 1]
                      EXCEPT !.top = IF t > @ THEN t ELSE @]
  BY DEF ClockTick
<1> DEFINE u == sent.t + d
           crossed == u \div Modulus # sent.t \div Modulus
           far == d < 0 /\ u % Modulus < (sent.t % Modulus) \div 50
           keep == (crossed => SmallStep(d)) /\ ~far
<1>0. sent.calls > 0 /\ clkNow' \in Nat
  BY ClockNumbers DEF ClockTick, ClockInv, ClockTypes
<1>1. CASE clk.pending
  <2>1. sent' = [Based(u) EXCEPT !.top = IF u > @ THEN u ELSE @]
    BY <1>1
  <2> QED BY <1>0, <1>1, <2>1, RebaseInv
<1>2. CASE ~clk.pending
  <2>1. sent' = [[sent EXCEPT !.t = u, !.hi = IF u > @ THEN u ELSE @, !.plain = @ /\ keep,
                              !.own = FALSE, !.calls = @ + 1]
                 EXCEPT !.top = IF u > @ THEN u ELSE @]
    BY <1>2
  <2>2. keep \in BOOLEAN /\ (keep => (crossed => SmallStep(d)) /\ ~far)
    OBVIOUS
  <2> HIDE DEF keep
  <2> QED BY ONLY ClockInv, <1>0, <1>2, <2>1, <2>2, FollowInv, d \in ClockSteps, u >= 0,
             clk' = SetTicks(clk, u % Modulus, clkNow'), cor' = CorrectedUpdate(cor, u % Modulus)
          DEF u, crossed, far
<1> QED BY <1>1, <1>2

(* Ticks a caller adds.                                                    *)
LEMMA AddInv == ASSUME ClockInv, ClockAdd PROVE ClockInv' /\ clk'.mono >= clk.mono
<1> PICK d \in ClockAdds :
       /\ clk' = AddTicks(clk, d)
       /\ sent' = [sent EXCEPT !.sum = @ + d, !.up = @ + IF d > 0 THEN d ELSE 0,
                               !.plain = FALSE, !.calls = @ + 1,
                               !.own = @ /\ clk.est + sent.sum + d >= 0]
  BY DEF ClockAdd
<1> DEFINE q == (clk.cur + d) \div clk.wrapAt
           x == clk.cur + d
           w == clk.wrapAt
           up == IF d > 0 THEN d ELSE 0
           sum2 == sent.sum + d
           up2 == sent.up + up
           n == sent.calls + 1
           own2 == sent.own /\ clk.est + sent.sum + d >= 0
           no == FALSE
<1>0. /\ d \in Int /\ d # 0 /\ clk \in ClockRecords /\ sent \in SentRecords /\ sent.calls > 0
      /\ Modulus \in Nat \ {0} /\ UNCHANGED <<cor, clkNow>>
  BY ClockNumbers DEF ClockInv, ClockTypes, ClockAdd
<1>1. /\ clk.mono \in Int /\ clk.est \in Int /\ clk.cur \in Int /\ clk.wraps \in Nat
      /\ sent.sum \in Int /\ sent.up \in Nat /\ sent.calls \in Nat /\ sent.own \in BOOLEAN
  BY <1>0, ClockFields, SentFields
<1>2. w = WrapOf(clk.type) /\ w \in Nat \ {0}
  BY <1>0, WrapType DEF ClockInv, ClockBased
<1>3. /\ clk' \in ClockRecords /\ clk'.type = clk.type /\ clk'.wrapAt = w
      /\ clk'.pending = clk.pending /\ clk'.est = clk.est /\ clk'.cur = x - q * w
      /\ clk'.mono = clk.mono + up
      /\ clk'.wraps = (IF clk.wraps + q < 0 THEN 0 ELSE clk.wraps + q) /\ q \in Int
  <2>1. clk' = AddTicks(clk, d) /\ w > 0
    BY <1>2
  <2>2. /\ clk' \in ClockRecords /\ clk'.type = clk.type /\ clk'.wrapAt = clk.wrapAt
        /\ clk'.pending = clk.pending /\ clk'.est = clk.est
        /\ clk'.cur = clk.cur + d - ((clk.cur + d) \div clk.wrapAt) * clk.wrapAt
        /\ clk'.mono = clk.mono + (IF d > 0 THEN d ELSE 0)
        /\ clk'.wraps = (IF clk.wraps + ((clk.cur + d) \div clk.wrapAt) < 0 THEN 0
                         ELSE clk.wraps + ((clk.cur + d) \div clk.wrapAt))
        /\ (clk.cur + d) \div clk.wrapAt \in Int
    BY ONLY <1>0, <2>1, AddTicksFields DEF w
  <2>3. clk'.cur = x - q * w
    <3> DEFINE y == q * w
               c == clk.cur
    <3>1. clk'.cur = c + (d - y) /\ x = c + d
      BY <2>2
    <3>2. y \in Int /\ c \in Int /\ d \in Int
      BY <1>0, <1>1, <1>2, <2>2
    <3> HIDE DEF y, c, x
    <3>3. c + (d - y) = x - y
      BY ONLY <3>1, <3>2
    <3> QED BY <3>1, <3>3 DEF y
  <2>4. clk'.wraps = (IF clk.wraps + q < 0 THEN 0 ELSE clk.wraps + q) /\ q \in Int
    BY ONLY <2>2 DEF q
  <2>5. clk'.mono = clk.mono + up /\ clk'.wrapAt = w
    BY ONLY <2>2 DEF up, w
  <2> HIDE DEF q, x, w, up
  <2> QED BY <2>2, <2>3, <2>4, <2>5
<1>4. /\ sent' \in SentRecords /\ sent'.plain = no /\ sent'.own = own2 /\ sent'.sum = sum2
      /\ sent'.up = up2 /\ sent'.calls = n /\ sent'.t = sent.t /\ sent'.bad = sent.bad
      /\ sent'.top = sent.top
  <2>1. sum2 \in Int /\ up2 \in Nat /\ n \in Nat /\ own2 \in BOOLEAN /\ no \in BOOLEAN
    BY <1>0, <1>1
  <2>2. sent' = [sent EXCEPT !.sum = sum2, !.up = up2, !.plain = no, !.calls = n, !.own = own2]
    BY <1>0 DEF SentRecords
  <2> HIDE DEF sum2, up2, n, own2, no
  <2>3. sent' \in SentRecords
    BY Zenon, <1>0, <2>1, <2>2 DEF SentRecords
  <2>4. /\ sent'.plain = no /\ sent'.own = own2 /\ sent'.sum = sum2 /\ sent'.up = up2
        /\ sent'.calls = n /\ sent'.t = sent.t /\ sent'.bad = sent.bad /\ sent'.top = sent.top
    BY Zenon, <1>0, <2>2 DEF SentRecords
  <2> QED BY <2>3, <2>4
<1>5. x \in Int /\ x - q * w \in 0 .. w - 1 /\ q * w \in Int
  <2>1. x \in Int
    BY <1>0, <1>1
  <2>2. x = w * (x \div w) + (x % w) /\ x % w \in 0 .. w - 1
    BY <1>2, <2>1
  <2>3. w * q = q * w /\ q * w \in Int /\ q = x \div w
    BY <1>2, <1>3
  <2> DEFINE r == x % w
             y == q * w
  <2>4. x = y + r /\ r \in 0 .. w - 1 /\ y \in Int
    BY <2>2, <2>3
  <2> HIDE DEF r, y, x, w, q
  <2>5. x - y \in 0 .. w - 1
    BY ONLY <1>2, <2>1, <2>4
  <2> QED BY <2>1, <2>3, <2>5 DEF y
<1>6. ClockTypes'
  BY <1>0, <1>3, <1>4 DEF ClockTypes, ClockInv
<1>7. ClockBased'
  <2>1. ClockBased
    BY DEF ClockInv
  <2>2. sum2 <= up2
    BY <1>0, <1>1, <2>1 DEF ClockBased
  <2> HIDE DEF sum2, up2
  <2>3. (sent'.own => sent.own) /\ ~sent'.plain
    BY <1>4
  <2> QED BY <1>0, <1>1, <1>2, <1>3, <1>4, <2>1, <2>2, <2>3 DEF ClockBased
<1>8. ClockAtSender' /\ ClockFollowsSender'
  BY <1>4 DEF ClockAtSender, ClockFollowsSender
<1>9. ClockInRange'
  <2>1. sent.sum <= sent.up
    BY DEF ClockInv, ClockBased
  <2>2. up2 # 0 \/ sum2 # 0
    BY <1>0, <1>1, <2>1
  <2> QED BY <1>4, <2>2 DEF ClockInRange, ClockMoved
<1>10. CorrectedAtSender' /\ CorrectedIsSender'
  BY <1>0, <1>4 DEF ClockInv, CorrectedAtSender, CorrectedIsSender
<1>11. ClockCountsAdds'
  <2> SUFFICES ASSUME sent'.own
               PROVE  /\ clk'.cur + clk'.wraps * clk'.wrapAt = clk'.est + sent'.sum
                      /\ clk'.mono = clk'.est + sent'.up
    BY DEF ClockCountsAdds
  <2>1. sent.own /\ clk.est + sent.sum + d >= 0
    BY <1>4
  <2> DEFINE W == clk.wraps * w
             Q == q * w
             V == (clk.wraps + q) * w
  <2>2. /\ clk.cur + W = clk.est + sent.sum /\ clk.mono = clk.est + sent.up
    BY <1>0, <2>1 DEF ClockInv, ClocksAreRight, ClockCountsAdds
  <2>3. V = W + Q /\ W \in Int /\ Q \in Int /\ V \in Int
    BY <1>1, <1>2, <1>3
  <2>4. clk.wraps + q < 0 => V <= -w
    <3>1. clk.wraps + q \in Int
      BY <1>1, <1>3
    <3>2. \A i \in Int : i < 0 => i * w <= -w
      BY ONLY <1>2
    <3> HIDE DEF q, w
    <3> QED BY <3>1, <3>2 DEF V
  <2>5. x - Q \in 0 .. w - 1
    BY <1>5
  <2>6. clk.est + sent.sum + d = x - Q + V
    <3> HIDE DEF W, Q, V
    <3> QED BY <1>0, <1>1, <1>5, <2>2, <2>3
  <2>7. ~(clk.wraps + q < 0)
    <3> HIDE DEF W, Q, V, w, q, x
    <3>1. x - Q + V >= 0
      BY <2>1, <2>6
    <3> QED BY <1>2, <1>5, <2>3, <2>4, <2>5, <3>1
  <2>8. clk'.wraps = clk.wraps + q
    BY <1>3, <2>7
  <2>9. clk'.wraps * clk'.wrapAt = V /\ clk'.cur = x - Q
    BY <1>3, <2>8
  <2>10. clk'.cur + clk'.wraps * clk'.wrapAt = clk.est + sent.sum + d
    <3> HIDE DEF Q, V, x
    <3> QED BY <2>6, <2>9
  <2>11. clk'.mono = clk.est + up2 /\ clk.est + sum2 = clk.est + sent.sum + d
    BY <1>0, <1>1, <1>3, <2>2
  <2> QED BY <1>3, <1>4, <2>10, <2>11
<1>12. clk'.mono >= clk.mono
  BY <1>0, <1>1, <1>3
<1> QED BY <1>6, <1>7, <1>8, <1>9, <1>10, <1>11, <1>12 DEF ClockInv, ClocksAreRight

(* A step that leaves the clock's time and the sender alone.               *)
LEMMA SameInv ==
  ASSUME ClockInv, clk' \in ClockRecords, sent' \in SentRecords, UNCHANGED <<cor, clkNow>>,
         clk'.type = clk.type, clk'.wrapAt = clk.wrapAt, clk'.est = clk.est, clk'.cur = clk.cur,
         clk'.mono = clk.mono, clk'.ref = clk.ref, clk'.wraps = clk.wraps,
         sent'.t = sent.t, sent'.t0 = sent.t0, sent'.hi = sent.hi, sent'.sum = sent.sum,
         sent'.up = sent.up, sent'.top = sent.top, sent'.bad = sent.bad,
         sent'.calls = sent.calls \/ (sent.calls > 0 /\ sent'.calls > 0),
         sent'.plain => sent.plain, sent'.own => sent.own,
         sent'.plain \/ sent'.own => ~clk'.pending
  PROVE  ClockInv'
<1>1. ClockTypes'
  BY DEF ClockInv, ClockTypes
<1>2. sent'.calls > 0 <=> sent.calls > 0
  OBVIOUS
<1>3. sent.calls \in Nat /\ sent'.calls \in Nat
  BY SentFields DEF ClockInv, ClockTypes
<1>4. ClockBased'
  BY <1>2, <1>3 DEF ClockInv, ClockBased
<1>5. ClockAtSender' /\ ClockFollowsSender'
  BY DEF ClockInv, ClocksAreRight, ClockAtSender, ClockFollowsSender
<1>6. ClockInRange' /\ CorrectedAtSender' /\ CorrectedIsSender'
  BY DEF ClockInv, ClocksAreRight, ClockInRange, ClockMoved, CorrectedAtSender, CorrectedIsSender
<1>7. ClockCountsAdds'
  BY <1>2 DEF ClockInv, ClocksAreRight, ClockCountsAdds
<1> QED BY <1>1, <1>4, <1>5, <1>6, <1>7 DEF ClockInv, ClocksAreRight

LEMMA DiscontinuityInv == ASSUME ClockInv, ClockDiscontinuity PROVE ClockInv' /\ clk'.mono = clk.mono
<1> DEFINE n == sent.calls + 1
           no == FALSE
<1>0. clk \in ClockRecords /\ sent \in SentRecords /\ sent.calls \in Nat /\ sent.calls > 0
  BY SentFields DEF ClockInv, ClockTypes, ClockDiscontinuity
<1>1. n \in Nat /\ n > 0 /\ no \in BOOLEAN
  BY <1>0
<1>2. sent' = [sent EXCEPT !.plain = no, !.own = no, !.calls = n] /\ UNCHANGED <<cor, clkNow>>
      /\ clk' = MarkDiscontinuity(clk)
  BY <1>0 DEF ClockDiscontinuity, SentRecords
<1> HIDE DEF n
<1>3. /\ clk' \in ClockRecords /\ clk'.type = clk.type /\ clk'.wrapAt = clk.wrapAt
      /\ clk'.est = clk.est /\ clk'.cur = clk.cur /\ clk'.mono = clk.mono /\ clk'.ref = clk.ref
      /\ clk'.wraps = clk.wraps
  BY <1>0, <1>2, MarkFields
<1>4. /\ sent' \in SentRecords /\ sent'.t = sent.t /\ sent'.t0 = sent.t0 /\ sent'.hi = sent.hi
      /\ ~sent'.plain /\ ~sent'.own /\ sent'.sum = sent.sum /\ sent'.up = sent.up
      /\ sent'.top = sent.top /\ sent'.bad = sent.bad /\ sent'.calls = n
  BY <1>0, <1>1, <1>2 DEF SentRecords
<1> QED BY <1>0, <1>1, <1>2, <1>3, <1>4, SameInv

LEMMA DriftInv ==
  ASSUME ClockInv, ClockDrift
  PROVE  /\ ClockInv' /\ clk'.mono = clk.mono
         /\ clk.wall => /\ clk'.drift = clk.mono - clk.est - (clkNow - clk.wallAt)
                        /\ clk'.lwm <= clk'.drift /\ clk'.drift <= clk'.hwm
<1> DEFINE n == sent.calls + 1
<1>0. /\ clk \in ClockRecords /\ sent \in SentRecords /\ sent.calls \in Nat /\ sent.calls > 0
      /\ clkNow \in Int
  BY SentFields DEF ClockInv, ClockTypes, ClockDrift
<1>1. n \in Nat /\ n > 0
  BY <1>0
<1>2. sent' = [sent EXCEPT !.calls = n] /\ UNCHANGED <<cor, clkNow>> /\ clk' = GetDrift(clk, clkNow)
  BY <1>0 DEF ClockDrift, SentRecords
<1> HIDE DEF n
<1>3. /\ clk' \in ClockRecords /\ clk'.type = clk.type /\ clk'.wrapAt = clk.wrapAt
      /\ clk'.est = clk.est /\ clk'.cur = clk.cur /\ clk'.mono = clk.mono /\ clk'.ref = clk.ref
      /\ clk'.wraps = clk.wraps /\ clk'.pending = clk.pending
      /\ clk.wall => /\ clk'.drift = clk.mono - clk.est - (clkNow - clk.wallAt)
                     /\ clk'.lwm <= clk'.drift /\ clk'.drift <= clk'.hwm
  BY <1>0, <1>2, DriftFields
<1>4. /\ sent' \in SentRecords /\ sent'.t = sent.t /\ sent'.t0 = sent.t0 /\ sent'.hi = sent.hi
      /\ sent'.plain = sent.plain /\ sent'.own = sent.own /\ sent'.sum = sent.sum
      /\ sent'.up = sent.up /\ sent'.top = sent.top /\ sent'.bad = sent.bad /\ sent'.calls = n
  BY <1>0, <1>1, <1>2 DEF SentRecords
<1>5. sent'.plain \/ sent'.own => ~clk'.pending
  BY <1>3, <1>4 DEF ClockInv, ClockBased
<1> QED BY <1>0, <1>1, <1>2, <1>3, <1>4, <1>5, SameInv

-----------------------------------------------------------------------------
LEMMA ClockStepInv == ClockInv /\ [ClockNext]_clockVars => ClockInv'
<1> SUFFICES ASSUME ClockInv, [ClockNext]_clockVars PROVE ClockInv'
  OBVIOUS
<1>1. CASE UNCHANGED clockVars
  BY <1>1 DEF clockVars, ClockInv, ClockTypes, ClockBased, ClockAtSender, ClockInRange, ClockMoved,
              CorrectedAtSender, ClocksAreRight, ClockFollowsSender, ClockCountsAdds,
              CorrectedIsSender
<1> QED BY <1>1, EstablishInv, TickInv, AddInv, DiscontinuityInv, DriftInv DEF ClockNext

LEMMA ClockInductive == ClockSpec => []ClockInv
BY ClockInitInv, ClockStepInv, PTL DEF ClockSpec

(* Whatever the length of the counter, the steps of the sender and the     *)
(* calls: ltntstools_clock_get_ticks_monotonic follows the sender over     *)
(* every wrap, ltntstools_clock_add_ticks loses nothing, and the corrected *)
(* clock's output is the unwrapped time of the sender.                     *)
THEOREM ClocksRight == ClockSpec => []ClocksAreRight
<1>1. ClockInv => ClocksAreRight
  BY DEF ClockInv
<1> QED BY <1>1, ClockInductive, PTL

(* The monotonic time of ltntstools_clock_set_ticks never goes back.       *)
THEOREM MonotonicNeverBack == ClockSpec => ClockNeverBack
<1>1. ClockInv /\ [ClockNext]_clockVars =>
        [clk'.mono >= clk.mono \/ clk.pending \/ ClockEstablish \/ ClockMoved]_clockVars
  <2> SUFFICES ASSUME ClockInv, ClockNext, ~ClockEstablish, ~ClockMoved, ~clk.pending
               PROVE  clk'.mono >= clk.mono
    BY DEF ClockNext
  <2>1. clk.mono \in Int
    BY ClockFields DEF ClockInv, ClockTypes
  <2> QED BY <2>1, TickInv, AddInv, DiscontinuityInv, DriftInv DEF ClockNext
<1> QED BY <1>1, ClockInductive, PTL DEF ClockSpec, ClockNeverBack

(* ltntstools_clock_get_drift_us reports the sender's time against the     *)
(* wall clock, between its marks.                                          *)
THEOREM DriftIsTrue == ClockSpec => ClockDriftIsTrue
<1> DEFINE P == ClockDrift /\ sent.plain /\ clk.wall /\ clk.type # "PTS" =>
                  /\ clk'.drift = (sent.hi - sent.t0) - (clkNow - clk.wallAt)
                  /\ clk'.lwm <= clk'.drift /\ clk'.drift <= clk'.hwm
<1>1. ClockInv /\ [ClockNext]_clockVars => [P]_clockVars
  <2> SUFFICES ASSUME ClockInv, ClockDrift, sent.plain, clk.wall, clk.type # "PTS"
               PROVE  /\ clk'.drift = (sent.hi - sent.t0) - (clkNow - clk.wallAt)
                      /\ clk'.lwm <= clk'.drift /\ clk'.drift <= clk'.hwm
    OBVIOUS
  <2>1. /\ clk'.drift = clk.mono - clk.est - (clkNow - clk.wallAt)
        /\ clk'.lwm <= clk'.drift /\ clk'.drift <= clk'.hwm
    BY DriftInv
  <2>2. clk.wrapAt = Modulus /\ clk.wraps \in Nat /\ Modulus \in Nat
    BY ClockNumbers, ClockFields DEF ClockInv, ClockTypes, ClockBased, WrapOf
  <2>3. clk.wraps * (Modulus - clk.wrapAt) = 0
    BY <2>2
  <2>4. clk.mono - clk.est = (sent.hi - sent.t0) - 0 /\ sent.hi \in Nat /\ sent.t0 \in Int
    BY <2>3, SentFields DEF ClockInv, ClockTypes, ClocksAreRight, ClockFollowsSender
  <2> QED BY <2>1, <2>4
<1> QED BY <1>1, ClockInductive, PTL DEF ClockSpec, ClockDriftIsTrue

-----------------------------------------------------------------------------
(* The facts of DataLemmas, with what the walk over a list of samples      *)
(* keeps as the folded operator, and that its operators are the ones used  *)
(* here.                                                                   *)
FKeep == INSTANCE DataLemmas WITH Op <- Keep

LEMMA SameSum == ASSUME NEW f, NEW A PROVE SumFunctionOnSet(f, A) = FKeep!SumFunctionOnSet(f, A)
BY Zenon DEF SumFunctionOnSet, FoldFunctionOnSet, MapThenFoldSet, FKeep!SumFunctionOnSet,
             FKeep!FoldFunctionOnSet, FKeep!MapThenFoldSet
LEMMA SameFinite == ASSUME NEW A PROVE IsFiniteSet(A) <=> FKeep!IsFiniteSet(A)
BY Zenon DEF IsFiniteSet, FKeep!IsFiniteSet
LEMMA SameReverse == ASSUME NEW s PROVE Reverse(s) = FKeep!Reverse(s)
BY Zenon DEF Reverse, FKeep!Reverse
LEMMA SameFlatten == ASSUME NEW s PROVE FlattenSeq(s) = FKeep!FlattenSeq(s)
BY Zenon DEF FlattenSeq, FKeep!FlattenSeq
LEMMA SameMax == ASSUME NEW A PROVE Max(A) = FKeep!Max(A)
BY Zenon DEF Max, FKeep!Max
LEMMA SameMin == ASSUME NEW A PROVE Min(A) = FKeep!Min(A)
BY Zenon DEF Min, FKeep!Min
LEMMA SameFold == ASSUME NEW s, NEW b, NEW before
  PROVE FoldLeft(LAMBDA kept, e : Keep(kept, e, before), b, s) = FKeep!Folded(b, s, before)
BY Zenon DEF FoldLeft, FKeep!Folded, FKeep!FoldLeft, MapThenFoldSet, FKeep!MapThenFoldSet, Max, FKeep!Max

-----------------------------------------------------------------------------
(* The histogram.  A bucket without samples has no time: that is what lets *)
(* a row of a summary stand for the empty buckets before it.               *)
HistFields == {"min", "max", "total", "miss", "cumulative", "count", "last", "intervalLast",
               "cumulativeLast", "sampleLast", "printLast", "summaryLast"}
IsHist(h, at) ==
  /\ DOMAIN h = HistFields
  /\ h.min \in Nat /\ h.max \in Nat /\ h.min < h.max
  /\ h.count \in [h.min .. h.max -> Nat] /\ h.last \in [h.min .. h.max -> 0 .. at]
  /\ \A ms \in h.min .. h.max : h.count[ms] = 0 => h.last[ms] = 0
  /\ h.total \in Nat /\ h.miss \in Nat
HistInv ==
  /\ histNow \in Nat \ {0} /\ seen \in Nat
  /\ hist = NullHist \/ IsHist(hist, histNow)
  /\ HistCountsAll

LEMMA CountsIsSum == ASSUME NEW h PROVE Counts(h) = SumFunctionOnSet(h.count, h.min .. h.max)
BY DEF Counts, BucketsOf, MapThenSumSet, SumFunctionOnSet, FoldFunctionOnSet

LEMMA BucketsFinite == ASSUME NEW h, NEW at \in Nat, IsHist(h, at) PROVE IsFiniteSet(h.min .. h.max)
<1>1. h.min \in Int /\ h.max \in Int
  BY DEF IsHist
<1> QED BY <1>1, FS_Interval

(* One sample is counted once.                                             *)
LEMMA HitCounts ==
  ASSUME NEW now \in Nat, NEW h, IsHist(h, now), h.total = Counts(h), NEW ms, NEW at \in 0 .. now
  PROVE  LET k == Hit(h, ms, at)
         IN  IsHist(k, now) /\ k.total = Counts(k) /\ k.total + k.miss = h.total + h.miss + 1
<1> DEFINE k == Hit(h, ms, at)
           B == h.min .. h.max
<1>1. CASE ms \notin B
  <2>1. k = [h EXCEPT !.miss = @ + 1]
    BY <1>1 DEF Hit, BucketsOf
  <2>2. DOMAIN k = HistFields /\ k.miss = h.miss + 1 /\ \A f \in HistFields \ {"miss"} : k[f] = h[f]
    BY <2>1 DEF IsHist, HistFields
  <2> HIDE DEF k
  <2>3. /\ k.min = h.min /\ k.max = h.max /\ k.total = h.total /\ k.count = h.count /\ k.last = h.last
    BY <2>2 DEF HistFields
  <2>4. IsHist(k, now) /\ k.total + k.miss = h.total + h.miss + 1
    <3>1. h.total \in Nat /\ h.miss \in Nat
      BY DEF IsHist
    <3>2. k.miss \in Nat /\ k.total + k.miss = h.total + h.miss + 1
      BY <2>2, <2>3, <3>1
    <3>3. IsHist(k, now)
      BY <2>2, <2>3, <3>2, Zenon DEF IsHist
    <3> QED BY <3>2, <3>3
  <2>5. Counts(k) = Counts(h)
    BY <2>3, CountsIsSum
  <2> QED BY <2>3, <2>4, <2>5 DEF k
<1>2. CASE ms \in B
  <2>1. k = [h EXCEPT !.count[ms] = @ + 1, !.last[ms] = at, !.total = @ + 1]
    BY <1>2 DEF Hit, BucketsOf
  <2>2. /\ DOMAIN k = HistFields /\ k.total = h.total + 1 /\ k.miss = h.miss
        /\ k.min = h.min /\ k.max = h.max
        /\ k.count = [h.count EXCEPT ![ms] = @ + 1] /\ k.last = [h.last EXCEPT ![ms] = at]
    BY <2>1 DEF IsHist, HistFields
  <2> HIDE DEF k
  <2>3. /\ \A x \in B \ {ms} : k.count[x] = h.count[x] /\ k.last[x] = h.last[x]
        /\ k.count[ms] = h.count[ms] + 1 /\ k.last[ms] = at
        /\ k.count \in [B -> Nat] /\ k.last \in [B -> 0 .. now]
    <3> DEFINE f == h.count
               l == h.last
    <3>1. f \in [B -> Nat] /\ l \in [B -> 0 .. now]
      BY DEF IsHist
    <3>2. k.count = [f EXCEPT ![ms] = @ + 1] /\ k.last = [l EXCEPT ![ms] = at]
      BY <2>2
    <3> HIDE DEF f, l, B
    <3>3. k.count \in [B -> Nat] /\ \A x \in B : k.count[x] = IF x = ms THEN f[ms] + 1 ELSE f[x]
      BY <1>2, <3>1, <3>2
    <3>4. k.last \in [B -> 0 .. now] /\ \A x \in B : k.last[x] = IF x = ms THEN at ELSE l[x]
      BY <1>2, <3>1, <3>2
    <3> QED BY <1>2, <3>3, <3>4 DEF f, l
  <2>4. \A x \in B : k.count[x] = 0 => k.last[x] = 0
    <3> SUFFICES ASSUME NEW x \in B, k.count[x] = 0 PROVE k.last[x] = 0
      OBVIOUS
    <3>0. h.count[ms] \in Nat
      BY <1>2 DEF IsHist
    <3>1. x # ms
      BY <2>3, <3>0
    <3>2. k.count[x] = h.count[x] /\ k.last[x] = h.last[x]
      BY <2>3, <3>1
    <3> QED BY <3>2 DEF IsHist
  <2>5. IsHist(k, now) /\ k.total + k.miss = h.total + h.miss + 1
    <3>1. h.total \in Nat /\ h.miss \in Nat
      BY DEF IsHist
    <3>2. k.total \in Nat /\ k.miss \in Nat /\ k.total + k.miss = h.total + h.miss + 1
      BY <2>2, <3>1
    <3>3. IsHist(k, now)
      BY <2>2, <2>3, <2>4, <3>2, Zenon DEF IsHist
    <3> QED BY <3>2, <3>3
  <2>6. Counts(k) = Counts(h) + 1
    <3> DEFINE f == h.count
               e == k.count
    <3>1. IsFiniteSet(B) /\ (\A x \in B : f[x] \in Int) /\ (\A x \in B \ {ms} : e[x] = f[x])
          /\ e[ms] \in Int /\ e[ms] - f[ms] = 1 /\ ms \in B
      <4>1. IsFiniteSet(B)
        BY BucketsFinite
      <4>2. f \in [B -> Nat] /\ e \in [B -> Nat] /\ e[ms] = f[ms] + 1
        BY <2>3 DEF IsHist
      <4>3. \A x \in B \ {ms} : e[x] = f[x]
        BY <2>3
      <4> HIDE DEF f, e, B
      <4> QED BY <1>2, <4>1, <4>2, <4>3
    <3> HIDE DEF f, e, B
    <3>2. FKeep!SumFunctionOnSet(e, B) = FKeep!SumFunctionOnSet(f, B) + (e[ms] - f[ms])
      BY <3>1, SameFinite, FKeep!SumChange
    <3>4. FKeep!SumFunctionOnSet(f, B) \in Int
      BY <3>1, SameFinite, FKeep!SumRemove
    <3>3. Counts(h) = SumFunctionOnSet(f, B) /\ Counts(k) = SumFunctionOnSet(e, B)
      BY <2>2, CountsIsSum DEF f, e, B
    <3> QED BY <3>1, <3>2, <3>3, <3>4, SameSum
  <2>7. k.total = Counts(k)
    BY <2>2, <2>6
  <2> QED BY <2>5, <2>7 DEF k
<1> QED BY <1>1, <1>2

LEMMA HistInvInit == HistInit => HistInv
<1> SUFFICES ASSUME HistInit PROVE HistInv
  OBVIOUS
<1>1. hist.max = 0
  BY DEF HistInit, NullHist
<1> QED BY <1>1 DEF HistInit, HistInv, HistCountsAll, Allocated

(* A histogram without samples.                                            *)
LEMMA EmptyHist ==
  ASSUME NEW now \in Nat, NEW h, DOMAIN h = HistFields, h.min \in Nat, h.max \in Nat, h.min < h.max,
         h.count = [ms \in h.min .. h.max |-> 0], h.last = [ms \in h.min .. h.max |-> 0],
         h.total = 0, h.miss = 0
  PROVE  IsHist(h, now) /\ Counts(h) = 0
<1>1. h.count \in [h.min .. h.max -> Nat] /\ h.last \in [h.min .. h.max -> 0 .. now]
      /\ \A ms \in h.min .. h.max : h.count[ms] = 0 /\ h.last[ms] = 0
  OBVIOUS
<1>2. IsHist(h, now)
  BY <1>1 DEF IsHist
<1>3. SumFunctionOnSet(h.count, h.min .. h.max) = 0
  <2> DEFINE f == h.count
             B == h.min .. h.max
  <2>1. IsFiniteSet(B) /\ \A x \in B : f[x] = 0
    BY <1>1, <1>2, BucketsFinite
  <2> HIDE DEF f, B
  <2>2. FKeep!SumFunctionOnSet(f, B) = 0
    BY <2>1, SameFinite, FKeep!SumZeros
  <2> QED BY <2>2, SameSum DEF f, B
<1> QED BY <1>2, <1>3, CountsIsSum

(* What leaves the counts alone.                                           *)
LEMMA HistKept ==
  ASSUME NEW now \in Nat, NEW h, IsHist(h, now), NEW k, DOMAIN k = HistFields,
         \A f \in {"min", "max", "count", "last", "total", "miss"} : k[f] = h[f], NEW at \in Nat, now <= at
  PROVE  IsHist(k, at) /\ Counts(k) = Counts(h)
<1>1. /\ k.min = h.min /\ k.max = h.max /\ k.total = h.total /\ k.count = h.count /\ k.last = h.last
      /\ k.miss = h.miss
  OBVIOUS
<1>2. h.last \in [h.min .. h.max -> 0 .. at]
  BY DEF IsHist
<1>3. IsHist(k, at)
  BY <1>1, <1>2 DEF IsHist
<1> QED BY <1>1, <1>3, CountsIsSum

LEMMA HistInvStep == HistInv /\ [HistNext]_histVars => HistInv'
<1> SUFFICES ASSUME HistInv, [HistNext]_histVars PROVE HistInv'
  OBVIOUS
<1>0. /\ histNow \in Nat /\ histNow > 0 /\ seen \in Nat
      /\ ~Allocated(NullHist)
      /\ Allocated(hist) => IsHist(hist, histNow) /\ hist.total = Counts(hist) /\ hist.total + hist.miss = seen
      /\ IsHist(hist, histNow) => Allocated(hist)
  BY DEF HistInv, HistCountsAll, Allocated, NullHist, IsHist
<1>1. CASE Alloc
  <2>1. PICK r \in HistRanges : hist' = HistAlloc(r[1], r[2], histNow)
    BY <1>1 DEF Alloc
  <2>2. r[1] \in Nat /\ r[2] \in Nat /\ histNow' = histNow /\ seen' = 0
    BY <1>1, HistAssumption DEF Alloc
  <2>3. CASE hist' = NullHist
    <3>1. ~Allocated(hist')
      BY <1>0, <2>3
    <3> QED BY <1>0, <2>2, <2>3, <3>1 DEF HistInv, HistCountsAll
  <2>4. CASE hist' # NullHist
    <3>1. ~(r[2] <= r[1])
      BY <2>1, <2>4 DEF HistAlloc
    <3> DEFINE k == hist'
    <3>2. k = [min |-> r[1], max |-> r[2], total |-> 0, miss |-> 0, cumulative |-> 0,
        count |-> [ms \in r[1] .. r[2] |-> 0], last |-> [ms \in r[1] .. r[2] |-> 0],
        intervalLast |-> histNow, cumulativeLast |-> 0, sampleLast |-> 0,
        printLast |-> 0, summaryLast |-> 0]
      BY <2>1, <2>4 DEF HistAlloc
    <3> HIDE DEF k
    <3>3. DOMAIN k = HistFields /\ k.min = r[1] /\ k.max = r[2] /\ k.total = 0 /\ k.miss = 0
          /\ k.count = [ms \in r[1] .. r[2] |-> 0] /\ k.last = [ms \in r[1] .. r[2] |-> 0]
      BY <3>2 DEF HistFields
    <3>4. IsHist(k, histNow) /\ Counts(k) = 0
      <4>1. k.min \in Nat /\ k.max \in Nat /\ k.min < k.max
        BY <2>2, <3>1, <3>3
      <4>2. k.count = [ms \in k.min .. k.max |-> 0] /\ k.last = [ms \in k.min .. k.max |-> 0]
        BY <3>3
      <4> QED BY <1>0, <3>3, <4>1, <4>2, EmptyHist
    <3> QED BY <1>0, <2>2, <3>3, <3>4 DEF HistInv, HistCountsAll, k
  <2> QED BY <2>3, <2>4
<1>2. CASE Reset
  <2> DEFINE k == hist'
             h == hist
  <2>1. k = HistReset(h, histNow) /\ histNow' = histNow /\ seen' = 0 /\ IsHist(h, histNow)
    BY <1>0, <1>2 DEF Reset
  <2>2. DOMAIN k = HistFields /\ k.min = h.min /\ k.max = h.max /\ k.total = 0 /\ k.miss = 0
          /\ k.count = [ms \in h.min .. h.max |-> 0] /\ k.last = [ms \in h.min .. h.max |-> 0]
    <3> HIDE DEF k, h
    <3> QED BY <2>1 DEF HistReset, IsHist, HistFields, BucketsOf
  <2> HIDE DEF k, h
  <2>3. IsHist(k, histNow) /\ Counts(k) = 0
    <3>1. k.min \in Nat /\ k.max \in Nat /\ k.min < k.max
      BY <2>1, <2>2 DEF IsHist
    <3>2. k.count = [ms \in k.min .. k.max |-> 0] /\ k.last = [ms \in k.min .. k.max |-> 0]
      BY <2>2
    <3> QED BY <1>0, <2>2, <3>1, <3>2, EmptyHist
  <2> QED BY <1>0, <2>1, <2>2, <2>3 DEF HistInv, HistCountsAll, k
<1>3. CASE Offer
  <2>1. IsHist(hist, histNow) /\ hist.total = Counts(hist) /\ hist.total + hist.miss = seen
        /\ seen' = seen + 1 /\ histNow' = histNow /\ hist.total \in Nat /\ hist.miss \in Nat
    BY <1>0, <1>3 DEF Offer, IsHist
  <2> DEFINE Good(k) == IsHist(k, histNow) /\ k.total = Counts(k) /\ k.total + k.miss = hist.total + hist.miss + 1
  <2>2. ASSUME NEW ms, NEW at \in 0 .. histNow PROVE Good(Hit(hist, ms, at))
    BY <1>0, <2>1, HitCounts
  <2>3. ASSUME NEW late \in {0, 1} PROVE Good(IntervalUpdate(hist, histNow - late))
    <3> DEFINE ts == histNow - late
               g == [hist EXCEPT !.intervalLast = ts]
               ms == (ts - hist.intervalLast) % Word
    <3>1. ts \in 0 .. histNow
      BY <1>0
    <3>2. DOMAIN g = HistFields /\ \A f \in HistFields \ {"intervalLast"} : g[f] = hist[f]
      BY <2>1 DEF IsHist, HistFields
    <3>3. IntervalUpdate(hist, histNow - late) = Hit(g, ms, ts)
      BY DEF IntervalUpdate
    <3> HIDE DEF g, ms, ts
    <3>4. IsHist(g, histNow) /\ Counts(g) = Counts(hist) /\ g.total = hist.total /\ g.miss = hist.miss
      <4>1. \A f \in {"min", "max", "count", "last", "total", "miss"} : g[f] = hist[f]
        BY <3>2 DEF HistFields
      <4> QED BY <1>0, <2>1, <3>2, <4>1, HistKept
    <3>5. IsHist(Hit(g, ms, ts), histNow) /\ Hit(g, ms, ts).total = Counts(Hit(g, ms, ts))
          /\ Hit(g, ms, ts).total + Hit(g, ms, ts).miss = g.total + g.miss + 1
      BY <1>0, <2>1, <3>1, <3>4, HitCounts
    <3> QED BY <3>3, <3>4, <3>5
  <2>4. Good(hist')
    <3>1. histNow \in 0 .. histNow
      BY <1>0
    <3>2. CASE \E ms \in HistValues : hist' = Hit(hist, ms, histNow)
      <4> HIDE DEF Good
      <4> QED BY <2>2, <3>1, <3>2
    <3>3. CASE \E late \in {0, 1} : hist' = IntervalUpdate(hist, histNow - late)
      <4> HIDE DEF Good
      <4> QED BY <2>3, <3>3
    <3>4. CASE hist' = CumulativeFinalize(hist, histNow)
      <4> HIDE DEF Good
      <4> QED BY <2>2, <3>1, <3>4 DEF CumulativeFinalize
    <3>5. CASE hist' = SampleEnd(hist, histNow)
      <4> HIDE DEF Good
      <4> QED BY <2>2, <3>1, <3>5 DEF SampleEnd
    <3> HIDE DEF Good
    <3> QED BY <1>3, <3>2, <3>3, <3>4, <3>5 DEF Offer
  <2> QED BY <1>0, <2>1, <2>4 DEF HistInv, HistCountsAll
<1>4. ASSUME Allocated(hist), DOMAIN hist' = HistFields, seen' = seen, histNow' = histNow,
             \A f \in {"min", "max", "count", "last", "total", "miss"} : hist'[f] = hist[f]
      PROVE  HistInv'
  <2> DEFINE k == hist'
  <2>1. \A f \in {"min", "max", "count", "last", "total", "miss"} : k[f] = hist[f]
    BY <1>4
  <2>2. DOMAIN k = HistFields
    BY <1>4
  <2> HIDE DEF k
  <2>3. IsHist(k, histNow) /\ Counts(k) = Counts(hist) /\ k.total = hist.total /\ k.miss = hist.miss
    BY <1>0, <1>4, <2>1, <2>2, HistKept
  <2> QED BY <1>0, <1>4, <2>3 DEF HistInv, HistCountsAll, k
<1>5. CASE Mark
  <2>1. Allocated(hist) /\ IsHist(hist, histNow)
    BY <1>0, <1>5 DEF Mark
  <2>2. DOMAIN hist' = HistFields /\ \A f \in {"min", "max", "count", "last", "total", "miss"} : hist'[f] = hist[f]
    BY <1>5, <2>1 DEF Mark, IsHist, HistFields, CumulativeBegin, CumulativeEnd, CumulativeInitialize, SampleBegin
  <2> QED BY <1>4, <1>5, <2>1, <2>2 DEF Mark
<1>6. CASE PrintInterval
  <2>1. Allocated(hist) /\ IsHist(hist, histNow)
    BY <1>0, <1>6 DEF PrintInterval
  <2>2. PICK every \in HistEvery : \/ hist' = hist
                                  \/ hist' = [hist EXCEPT !.printLast = IF every = 0 THEN @ ELSE histNow]
    BY <1>6 DEF PrintInterval
  <2>3. DOMAIN hist' = HistFields /\ \A f \in {"min", "max", "count", "last", "total", "miss"} : hist'[f] = hist[f]
    BY <2>1, <2>2 DEF IsHist, HistFields
  <2> QED BY <1>4, <1>6, <2>1, <2>3 DEF PrintInterval
<1>7. CASE PrintSummary
  <2>1. Allocated(hist) /\ IsHist(hist, histNow)
    BY <1>0, <1>7 DEF PrintSummary
  <2>2. PICK every \in HistEvery : \/ hist' = hist
                                  \/ hist' = [hist EXCEPT !.summaryLast = IF every = 0 THEN @ ELSE histNow]
    BY <1>7 DEF PrintSummary
  <2>3. DOMAIN hist' = HistFields /\ \A f \in {"min", "max", "count", "last", "total", "miss"} : hist'[f] = hist[f]
    BY <2>1, <2>2 DEF IsHist, HistFields
  <2> QED BY <1>4, <1>7, <2>1, <2>3 DEF PrintSummary
<1>8. CASE HistTick
  <2>1. PICK d \in HistValues \ {0} : histNow' = histNow + d
    BY <1>8 DEF HistTick
  <2>2. d \in Nat /\ hist' = hist /\ seen' = seen /\ histNow' \in Nat /\ histNow <= histNow'
    BY <1>0, <1>8, <2>1, HistAssumption DEF HistTick
  <2>3. IsHist(hist, histNow) => IsHist(hist, histNow')
    <3> SUFFICES ASSUME IsHist(hist, histNow) PROVE IsHist(hist, histNow')
      OBVIOUS
    <3>1. DOMAIN hist = HistFields
      BY DEF IsHist
    <3> QED BY <1>0, <2>2, <3>1, HistKept
  <2> QED BY <1>0, <2>1, <2>2, <2>3 DEF HistInv, HistCountsAll
<1>9. CASE UNCHANGED histVars
  BY <1>9 DEF histVars, HistInv, HistCountsAll
<1> QED BY <1>1, <1>2, <1>3, <1>5, <1>6, <1>7, <1>8, <1>9 DEF HistNext

-----------------------------------------------------------------------------
(* The high resolution meter: the busy list is the samples held, newest    *)
(* first, and as long as they came in order their times fall along it.     *)
Sample == [ts : Int, channel : Channels, value : Nat]
Rising == {p \in Sample \X Sample : p[1].ts <= p[2].ts}
HrInv ==
  /\ hr \in [busy : Seq(Sample), free : Nat]
  /\ log \in [held : Seq(Sample), pool : Nat, ordered : BOOLEAN, settled : BOOLEAN]
  /\ meterNow \in Nat
  /\ log.ordered => FKeep!InOrder(log.held, Rising)
  /\ HrPoolIsWhole /\ HrSumIsExact

LEMMA SampleFields ==
  ASSUME NEW s \in Seq(Sample), NEW i \in 1 .. Len(s)
  PROVE  s[i] \in Sample /\ s[i].ts \in Int /\ s[i].value \in Nat
<1>1. s[i] \in Sample
  BY ElementOfSeq
<1> DEFINE x == s[i]
<1> HIDE DEF x
<1>2. x \in Sample => x.ts \in Int /\ x.value \in Nat
  BY DEF Sample
<1> QED BY <1>1, <1>2 DEF x

Young(s, before) == {k \in 1 .. Len(s) : s[k].ts >= before}
LEMMA UnexpiredIs ==
  ASSUME NEW s \in Seq(Sample), NEW before \in Int
  PROVE  \E h : FKeep!Sifts(h, s, Young(s, before)) /\ Unexpired(s, before) = h[Len(s)]
<1> DEFINE h == FKeep!Stages(<< >>, s, before)
           K == Young(s, before)
<1>1. /\ DOMAIN h = 0 .. Len(s) /\ h[0] = << >>
      /\ \A k \in 1 .. Len(s) : h[k] = Keep(h[k - 1], s[k], before)
      /\ FKeep!Folded(<< >>, s, before) = h[Len(s)]
  BY FKeep!FoldSteps
<1>2. Unexpired(s, before) = FKeep!Folded(<< >>, s, before)
  BY SameFold DEF Unexpired
<1> HIDE DEF h
<1>3. FKeep!Sifts(h, s, K)
  <2> SUFFICES ASSUME NEW k \in 0 .. Len(s) - 1
               PROVE  /\ k + 1 \in K => h[k + 1] = Append(h[k], s[k + 1])
                      /\ k + 1 \notin K => h[k + 1] = h[k]
    BY <1>1 DEF FKeep!Sifts
  <2>1. k + 1 \in 1 .. Len(s) /\ (k + 1) - 1 = k
    OBVIOUS
  <2>2. h[k + 1] = Keep(h[k], s[k + 1], before)
    BY <1>1, <2>1
  <2> QED BY <2>1, <2>2 DEF Keep, Young
<1> QED BY <1>1, <1>2, <1>3

LEMMA UnexpiredPart ==
  ASSUME NEW s \in Seq(Sample), NEW before \in Int
  PROVE  /\ Unexpired(s, before) \in Seq(Sample) /\ Len(Unexpired(s, before)) <= Len(s)
         /\ FKeep!InOrder(s, Rising) => FKeep!InOrder(Unexpired(s, before), Rising)
<1>1. PICK h : FKeep!Sifts(h, s, Young(s, before)) /\ Unexpired(s, before) = h[Len(s)]
  BY UnexpiredIs
<1>2. Len(s) \in 0 .. Len(s)
  OBVIOUS
<1>3. FKeep!PartOf(h[Len(s)], s, Young(s, before), Len(s), Sample)
  BY <1>1, <1>2, FKeep!SiftedIsPart
<1>4. FKeep!InOrder(s, Rising) => FKeep!InOrder(h[Len(s)], Rising)
  BY <1>1, <1>2, FKeep!SiftedInOrder
<1> QED BY <1>1, <1>3, <1>4 DEF FKeep!PartOf

(* Both lists lose the same samples, also when they are cut at two times   *)
(* between which no sample lies.                                           *)
LEMMA UnexpiredReverse ==
  ASSUME NEW r \in Seq(Sample), NEW before \in Int, NEW at \in Int,
         \A i \in DOMAIN r : r[i].ts >= at <=> r[i].ts >= before
  PROVE  Unexpired(Reverse(r), at) = Reverse(Unexpired(r, before))
<1> DEFINE t == Reverse(r)
           K == Young(r, before)
           J == Young(t, at)
<1>1. t \in Seq(Sample) /\ Len(t) = Len(r) /\ \A i \in 1 .. Len(r) : t[i] = r[(Len(r) - i) + 1]
  BY SameReverse, FKeep!ReverseIs DEF FKeep!Turned
<1>2. PICK g : FKeep!Sifts(g, r, K) /\ Unexpired(r, before) = g[Len(r)]
  BY UnexpiredIs
<1> HIDE DEF t
<1>3. PICK h : FKeep!Sifts(h, t, J) /\ Unexpired(t, at) = h[Len(t)]
  BY <1>1, UnexpiredIs
<1>4. ASSUME NEW k \in 1 .. Len(r) PROVE k \in J <=> (Len(r) - k) + 1 \in K
  <2>1. (Len(r) - k) + 1 \in 1 .. Len(r)
    OBVIOUS
  <2>2. t[k] = r[(Len(r) - k) + 1]
    BY <1>1
  <2>3. r[(Len(r) - k) + 1].ts >= at <=> r[(Len(r) - k) + 1].ts >= before
    BY <2>1
  <2> QED BY <1>1, <2>1, <2>2, <2>3 DEF Young
<1>5. FKeep!Sifts(h, FKeep!Reverse(r), J)
  BY <1>3, SameReverse DEF t
<1> HIDE DEF J, K
<1>6. h[Len(r)] = FKeep!Reverse(g[Len(r)])
  BY <1>2, <1>4, <1>5, FKeep!SiftedBackwards
<1> QED BY <1>1, <1>2, <1>3, <1>6, SameReverse DEF t

-----------------------------------------------------------------------------
(* In a list whose times fall, the walk that ends at the first sample too  *)
(* old has met all the others.                                             *)
Within(list, c, begin, end) == {i \in DOMAIN list : list[i].channel = c /\ list[i].ts \in begin .. end}
LEMMA WalkMeetsAll ==
  ASSUME NEW h, NEW s \in Seq(Sample), h.busy = s, NEW c, NEW begin \in Int, NEW end \in Int,
         \A i, j \in 1 .. Len(s) : i < j => s[j].ts <= s[i].ts
  PROVE  HrSum(h, c, begin, end) = SumFunctionOnSet(Values(s), Within(s, c, begin, end))
<1> DEFINE older == {i \in DOMAIN s : s[i].ts < begin}
           n == IF older = {} THEN Len(s) ELSE Min(older) - 1
           in == {i \in 1 .. n : s[i].channel = c /\ s[i].ts \in begin .. end}
<1>1. HrSum(h, c, begin, end) = SumFunctionOnSet(Values(s), in)
  BY DEF HrSum
<1>2. DOMAIN s = 1 .. Len(s) /\ Len(s) \in Nat /\ \A i \in 1 .. Len(s) : s[i].ts \in Int
  BY SampleFields
<1>3. n \in 0 .. Len(s) /\ \A i \in 1 .. Len(s) : s[i].ts >= begin => i <= n
  <2>1. CASE older = {}
    BY <1>2, <2>1
  <2>2. CASE older # {}
    <3>1. older \in SUBSET Nat /\ older \subseteq 1 .. Len(s)
      BY <1>2
    <3>2. Min(older) \in older /\ \A y \in older : Min(older) <= y
      <4> HIDE DEF older
      <4> QED BY <2>2, <3>1, SameMin, FKeep!MinOfIndices
    <3> DEFINE m == Min(older)
    <3>3. m \in 1 .. Len(s) /\ s[m].ts < begin /\ n = m - 1
      BY <1>2, <2>2, <3>2
    <3> HIDE DEF m, older, n
    <3>4. ASSUME NEW i \in 1 .. Len(s), s[i].ts >= begin PROVE i <= n
      <4>1. i # m
        BY <1>2, <3>3, <3>4
      <4>2. ~(m < i)
        <5> SUFFICES ASSUME m < i PROVE FALSE
          OBVIOUS
        <5>1. s[i].ts <= s[m].ts
          BY <3>3
        <5> QED BY <1>2, <3>3, <3>4, <5>1
      <4> QED BY <3>3, <4>1, <4>2
    <3> QED BY <3>3, <3>4
  <2> QED BY <2>1, <2>2
<1>4. in = Within(s, c, begin, end)
  <2> HIDE DEF n
  <2>1. ASSUME NEW i \in Within(s, c, begin, end) PROVE i \in in
    <3>1. i \in 1 .. Len(s) /\ s[i].channel = c /\ s[i].ts \in begin .. end
      BY <1>2, <2>1 DEF Within
    <3>2. s[i].ts >= begin
      BY <1>2, <3>1
    <3>3. i <= n
      BY <1>3, <3>1, <3>2
    <3> QED BY <1>3, <3>1, <3>3
  <2>2. ASSUME NEW i \in in PROVE i \in Within(s, c, begin, end)
    BY <1>2, <1>3 DEF Within
  <2> QED BY <2>1, <2>2
<1> QED BY <1>1, <1>4

(* The samples of a window have one sum, in whichever order they are kept. *)
LEMMA SumBothWays ==
  ASSUME NEW r \in Seq(Sample), NEW c, NEW begin \in Int, NEW end \in Int
  PROVE  SumFunctionOnSet(Values(Reverse(r)), Within(Reverse(r), c, begin, end))
           = SumFunctionOnSet(Values(r), Within(r, c, begin, end))
<1> DEFINE t == Reverse(r)
           n == Len(r)
           S == Within(t, c, begin, end)
           f == Values(r)
           g == [i \in 1 .. n |-> (n - i) + 1]
           e == [x \in S |-> f[g[x]]]
<1>1. t \in Seq(Sample) /\ Len(t) = n /\ (\A i \in 1 .. n : t[i] = r[(n - i) + 1]) /\ n \in Nat
  BY SameReverse, FKeep!ReverseIs DEF FKeep!Turned
<1> HIDE DEF t
<1>2. DOMAIN t = 1 .. n /\ DOMAIN r = 1 .. n
  BY <1>1
<1>3. S \subseteq 1 .. n
  BY <1>2 DEF Within
<1>4. IsFiniteSet(S)
  <2>1. IsFiniteSet(1 .. n)
    BY <1>1, FS_Interval
  <2> HIDE DEF S
  <2> QED BY <1>3, <2>1, FS_Subset
<1>5. \A i \in 1 .. n : g[i] \in 1 .. n /\ g[i] = (n - i) + 1
  BY <1>1
<1>6. \A x, y \in S : g[x] = g[y] => x = y
  BY <1>1, <1>3, <1>5
<1>7. \A i \in 1 .. n : f[i] = r[i].value /\ f[i] \in Int
  <2>1. \A i \in 1 .. n : f[i] = r[i].value
    BY <1>2 DEF Values
  <2> QED BY <2>1, SampleFields
<1>8. \A x \in S : f[g[x]] \in Int
  BY <1>3, <1>5, <1>7
<1>9. {g[x] : x \in S} = Within(r, c, begin, end)
  <2>1. ASSUME NEW x \in S PROVE g[x] \in Within(r, c, begin, end)
    <3>1. x \in 1 .. n /\ t[x] = r[g[x]] /\ g[x] \in 1 .. n
      BY <1>1, <1>3, <1>5
    <3> QED BY <1>2, <3>1 DEF Within
  <2>2. ASSUME NEW y \in Within(r, c, begin, end) PROVE y \in {g[x] : x \in S}
    <3>1. y \in 1 .. n
      BY <1>2 DEF Within
    <3> DEFINE x == (n - y) + 1
    <3>2. x \in 1 .. n /\ (n - x) + 1 = y
      BY <1>1, <3>1
    <3> HIDE DEF x
    <3>3. g[x] = y
      BY <1>5, <3>2
    <3>4. t[x] = r[y]
      BY <1>1, <3>2
    <3>5. x \in S
      BY <1>2, <3>2, <3>4 DEF Within
    <3> QED BY <3>3, <3>5
  <2> HIDE DEF g, S
  <2> QED BY <2>1, <2>2
<1>10. \A x \in S : e[x] = Values(t)[x]
  <2> SUFFICES ASSUME NEW x \in S PROVE e[x] = Values(t)[x]
    OBVIOUS
  <2>1. x \in 1 .. n /\ t[x] = r[g[x]] /\ g[x] \in 1 .. n
    BY <1>1, <1>3, <1>5
  <2>2. Values(t)[x] = t[x].value
    BY <1>2, <2>1 DEF Values
  <2>3. e[x] = r[g[x]].value
    BY <1>7, <2>1
  <2> QED BY <2>1, <2>2, <2>3
<1> HIDE DEF f, g, S
<1>11. FKeep!SumFunctionOnSet(e, S) = FKeep!SumFunctionOnSet(f, {g[x] : x \in S})
  BY <1>4, <1>6, <1>8, SameFinite, FKeep!SumRenamed
<1> HIDE DEF e
<1>12. FKeep!SumFunctionOnSet(e, S) = FKeep!SumFunctionOnSet(Values(t), S)
  BY <1>4, <1>10, SameFinite, FKeep!SumSame
<1> QED BY <1>9, <1>11, <1>12, SameSum DEF S, f, t

LEMMA HrInvInit == MeterInit => HrInv
<1> SUFFICES ASSUME MeterInit PROVE HrInv
  OBVIOUS
<1>1. hr = [busy |-> << >>, free |-> PoolStart] /\ log = [held |-> << >>, pool |-> PoolStart, ordered |-> TRUE, settled |-> TRUE]
      /\ sum = [is |-> 0, should |-> 0] /\ meterNow \in Nat /\ PoolStart \in Nat
  BY MeterAssumption DEF MeterInit
<1>2. hr.busy = << >> /\ hr.free = PoolStart /\ log.held = << >> /\ log.pool = PoolStart /\ sum.is = sum.should
      /\ << >> \in Seq(Sample)
  BY <1>1
<1>3. hr \in [busy : Seq(Sample), free : Nat] /\ log \in [held : Seq(Sample), pool : Nat, ordered : BOOLEAN, settled : BOOLEAN]
  BY <1>1, <1>2
<1>4. FKeep!InOrder(log.held, Rising)
  BY <1>2 DEF FKeep!InOrder
<1>5. Reverse(<< >>) = << >>
  <2>1. Reverse(<< >>) \in Seq(Sample) /\ Len(Reverse(<< >>)) = Len(<< >>)
    BY <1>2, SameReverse, FKeep!ReverseIs DEF FKeep!Turned
  <2> QED BY <2>1, EmptySeq
<1>6. HrPoolIsWhole /\ HrSumIsExact
  <2>1. Len(<< >>) + PoolStart = PoolStart
    BY <1>1
  <2> QED BY <1>2, <1>5, <2>1 DEF HrPoolIsWhole, HrSumIsExact
<1> QED BY <1>1, <1>3, <1>4, <1>6 DEF HrInv

LEMMA HrWriteKeeps == HrInv /\ HrWriteCall => HrInv'
<1> SUFFICES ASSUME HrInv, HrWriteCall PROVE HrInv'
  OBVIOUS
<1>1. PICK c \in Channels, v \in MeterValues, late \in {0, 1} :
        LET ts == meterNow - late
       IN  /\ hr' = HrWrite(hr, c, v, ts)
           /\ log' = [held |-> Append(log.held, [ts |-> ts, channel |-> c, value |-> v]),
                      pool |-> log.pool + IF hr.free = 0 THEN PoolGrowth ELSE 0,
                      ordered |-> log.ordered /\ \A i \in DOMAIN log.held : log.held[i].ts <= ts,
                      settled |-> log.settled]
  BY DEF HrWriteCall
<1> DEFINE ts == meterNow - late
           e == [ts |-> ts, channel |-> c, value |-> v]
           held == log.held
           busy == hr.busy
           free == hr.free
           pool == log.pool
           more == IF free = 0 THEN PoolGrowth ELSE 0
           left == IF free = 0 THEN PoolGrowth - 1 ELSE free - 1
           rises == log.ordered /\ \A i \in DOMAIN held : held[i].ts <= ts
<1>2. hr' = [busy |-> <<e>> \o busy, free |-> left]
      /\ log' = [held |-> Append(held, e), pool |-> pool + more, ordered |-> rises,
                 settled |-> log.settled]
  BY <1>1 DEF HrWrite
<1>3. /\ held \in Seq(Sample) /\ busy \in Seq(Sample) /\ free \in Nat /\ pool \in Nat /\ meterNow \in Nat
      /\ Len(busy) + free = pool /\ (log.settled => busy = Reverse(held)) /\ meterNow' = meterNow /\ sum' = sum
      /\ rises \in BOOLEAN /\ log.settled \in BOOLEAN
  BY DEF HrInv, HrPoolIsWhole, HrWriteCall
<1>4. ts \in Int /\ v \in Nat /\ PoolGrowth \in Nat \ {0}
  BY <1>3, MeterAssumption
<1>5. e \in Sample /\ e.ts = ts
  BY <1>4 DEF Sample
<1>6. left \in Nat /\ pool + more \in Nat /\ Len(busy) + 1 + left = pool + more
  <2> HIDE DEF busy, free, pool
  <2>1. Len(busy) \in Nat
    BY <1>3
  <2> QED BY <1>3, <1>4, <2>1
<1> HIDE DEF e, ts, held, busy, free, pool, left, more, rises
<1>7. /\ Append(held, e) \in Seq(Sample) /\ <<e>> \o busy \in Seq(Sample)
      /\ Len(Append(held, e)) = Len(held) + 1 /\ Len(<<e>> \o busy) = Len(busy) + 1
      /\ Append(held, e)[Len(held) + 1] = e
      /\ \A i \in 1 .. Len(held) : Append(held, e)[i] = held[i]
  BY <1>3, <1>5, AppendProperties
<1>8. /\ hr' \in [busy : Seq(Sample), free : Nat] /\ hr'.busy = <<e>> \o busy /\ hr'.free = left
      /\ log' \in [held : Seq(Sample), pool : Nat, ordered : BOOLEAN, settled : BOOLEAN]
      /\ log'.held = Append(held, e) /\ log'.pool = pool + more /\ log'.ordered = rises
      /\ log'.settled = log.settled
  BY <1>2, <1>3, <1>6, <1>7
<1>9. log.settled => <<e>> \o busy = Reverse(Append(held, e))
  BY <1>3, <1>5, SameReverse, FKeep!ReverseOfAppend
<1>10. ASSUME rises PROVE FKeep!InOrder(Append(held, e), Rising)
  <2> DEFINE w == Append(held, e)
             n == Len(held)
  <2>1. FKeep!InOrder(held, Rising) /\ \A i \in DOMAIN held : held[i].ts <= ts
    BY <1>10 DEF HrInv, held, rises
  <2>2. DOMAIN held = 1 .. n /\ n \in Nat
    BY <1>3
  <2> SUFFICES ASSUME NEW i \in 1 .. Len(w), NEW j \in 1 .. Len(w), i < j PROVE <<w[i], w[j]>> \in Rising
    BY DEF FKeep!InOrder
  <2>3. i \in 1 .. n /\ w[i] = held[i]
    BY <1>7, <2>2
  <2>4. CASE j \in 1 .. n
    BY <1>7, <2>1, <2>3, <2>4 DEF FKeep!InOrder
  <2>5. CASE j = n + 1
    <3>1. w[j] = e /\ held[i] \in Sample /\ held[i].ts <= e.ts
      BY <1>3, <1>5, <1>7, <2>1, <2>2, <2>3, <2>5, SampleFields
    <3> QED BY <1>5, <2>3, <3>1 DEF Rising
  <2>6. j \in 1 .. n \/ j = n + 1
    BY <1>7, <2>2
  <2> QED BY <2>4, <2>5, <2>6
<1>11. log'.ordered => FKeep!InOrder(log'.held, Rising)
  BY <1>8, <1>10
<1>12. HrPoolIsWhole'
  <2>1. Len(hr'.busy) + hr'.free = log'.pool
    <3>1. Len(busy) \in Nat
      BY <1>3
    <3> QED BY <1>6, <1>7, <1>8, <3>1
  <2> QED BY <1>8, <1>9, <2>1 DEF HrPoolIsWhole
<1>13. HrSumIsExact'
  <2>1. rises => log.ordered
    BY DEF rises
  <2> QED BY <1>3, <1>8, <2>1 DEF HrInv, HrSumIsExact
<1> QED BY <1>3, <1>8, <1>11, <1>12, <1>13 DEF HrInv

(* What an expire does to both lists, cut at two times: they stay the same *)
(* samples when no sample held lies between the two.                       *)
LEMMA HrCut ==
  ASSUME HrInv, NEW before \in Int, NEW at \in Int, NEW whole \in BOOLEAN,
         whole => log.settled /\ \A i \in DOMAIN log.held : log.held[i].ts >= at <=> log.held[i].ts >= before,
         hr' = HrExpire(hr, at), sum' = sum, meterNow' = meterNow,
         log' = [log EXCEPT !.held = Unexpired(@, before), !.settled = whole]
  PROVE  HrInv'
<1> DEFINE held == log.held
           busy == hr.busy
           free == hr.free
           pool == log.pool
<1>2. /\ held \in Seq(Sample) /\ busy \in Seq(Sample) /\ free \in Nat /\ pool \in Nat /\ meterNow \in Nat
      /\ Len(busy) + free = pool /\ (log.settled => busy = Reverse(held))
      /\ log.ordered \in BOOLEAN /\ log.settled \in BOOLEAN
  BY DEF HrInv, HrPoolIsWhole
<1> DEFINE b == Unexpired(busy, at)
           a == Unexpired(held, before)
<1>4. hr' = [busy |-> b, free |-> free + Len(busy) - Len(b)]
  BY DEF HrExpire
<1>5. log' = [held |-> a, pool |-> pool, ordered |-> log.ordered, settled |-> whole]
  BY DEF HrInv
<1>6. b \in Seq(Sample) /\ a \in Seq(Sample) /\ Len(b) <= Len(busy)
      /\ (FKeep!InOrder(held, Rising) => FKeep!InOrder(a, Rising))
  <2> HIDE DEF held, busy
  <2> QED BY <1>2, UnexpiredPart
<1>7. log.ordered => FKeep!InOrder(held, Rising)
  BY DEF HrInv
<1>8. ASSUME whole PROVE b = Reverse(a) /\ log.settled
  <2>1. log.settled /\ \A i \in DOMAIN held : held[i].ts >= at <=> held[i].ts >= before
    BY <1>8
  <2>2. busy = Reverse(held)
    BY <1>2, <2>1
  <2> HIDE DEF held, busy
  <2>3. Unexpired(Reverse(held), at) = Reverse(Unexpired(held, before))
    BY <1>2, <2>1, UnexpiredReverse
  <2> QED BY <2>1, <2>2, <2>3
<1> HIDE DEF held, busy, free, pool, a, b
<1>9. free + Len(busy) - Len(b) \in Nat /\ Len(b) + (free + Len(busy) - Len(b)) = pool
  <2>1. Len(busy) \in Nat /\ Len(b) \in Nat
    BY <1>2, <1>6
  <2> QED BY <1>2, <1>6, <2>1
<1>10. /\ hr' \in [busy : Seq(Sample), free : Nat] /\ hr'.busy = b /\ hr'.free = free + Len(busy) - Len(b)
       /\ log' \in [held : Seq(Sample), pool : Nat, ordered : BOOLEAN, settled : BOOLEAN]
       /\ log'.held = a /\ log'.pool = pool /\ log'.ordered = log.ordered /\ log'.settled = whole
  <2>1. hr' \in [busy : Seq(Sample), free : Nat] /\ hr'.busy = b /\ hr'.free = free + Len(busy) - Len(b)
    BY <1>4, <1>6, <1>9
  <2> DEFINE ordered == log.ordered
             l == log'
  <2>2. ordered \in BOOLEAN /\ l = [held |-> a, pool |-> pool, ordered |-> ordered, settled |-> whole]
    BY <1>2, <1>5
  <2> HIDE DEF ordered, l
  <2>3. l \in [held : Seq(Sample), pool : Nat, ordered : BOOLEAN, settled : BOOLEAN]
        /\ l.held = a /\ l.pool = pool /\ l.ordered = ordered /\ l.settled = whole
    BY <1>2, <1>6, <2>2
  <2> QED BY <2>1, <2>3 DEF ordered, l
<1>11. HrPoolIsWhole' /\ HrSumIsExact'
  <2>1. HrPoolIsWhole'
    BY <1>8, <1>9, <1>10 DEF HrPoolIsWhole
  <2>2. HrSumIsExact'
    BY <1>8, <1>10 DEF HrSumIsExact, HrInv
  <2> QED BY <2>1, <2>2
<1> QED BY <1>2, <1>6, <1>7, <1>10, <1>11 DEF HrInv

LEMMA HrExpireKeeps == HrInv /\ HrExpireCall => HrInv'
<1> SUFFICES ASSUME HrInv, HrExpireCall PROVE HrInv'
  OBVIOUS
<1>1. PICK before \in {meterNow - 1, meterNow} :
        hr' = HrExpire(hr, before) /\ log' = [log EXCEPT !.held = Unexpired(@, before)]
  BY DEF HrExpireCall
<1>2. meterNow \in Nat /\ sum' = sum /\ meterNow' = meterNow /\ log.settled \in BOOLEAN
      /\ log \in [held : Seq(Sample), pool : Nat, ordered : BOOLEAN, settled : BOOLEAN]
  BY DEF HrInv, HrExpireCall
<1>3. before \in Int
  BY <1>2
<1>4. log' = [log EXCEPT !.held = Unexpired(@, before), !.settled = log.settled]
  BY <1>1, <1>2
<1> QED BY <1>1, <1>2, <1>3, <1>4, HrCut

(* Without a time the two readings agree when no sample lies between them. *)
LEMMA HrExpireOldKeeps == HrInv /\ HrExpireOld => HrInv'
<1> SUFFICES ASSUME HrInv, HrExpireOld PROVE HrInv'
  OBVIOUS
<1> DEFINE held == log.held
           at == meterNow - 1
           before == meterNow - 2
           whole == log.settled /\ \A i \in DOMAIN held : held[i].ts < at => held[i].ts < before
<1>1. hr' = HrExpire(hr, at) /\ log' = [log EXCEPT !.held = Unexpired(@, before), !.settled = whole]
      /\ sum' = sum /\ meterNow' = meterNow
  BY DEF HrExpireOld
<1>2. at \in Int /\ before \in Int /\ before < at /\ whole \in BOOLEAN /\ held \in Seq(Sample)
  BY DEF HrInv
<1>3. ASSUME whole PROVE log.settled /\ \A i \in DOMAIN held : held[i].ts >= at <=> held[i].ts >= before
  <2>1. log.settled
    BY <1>3
  <2>2. \A i \in DOMAIN held : held[i].ts \in Int /\ (held[i].ts < at => held[i].ts < before)
    BY <1>2, <1>3, SampleFields
  <2> HIDE DEF at, before, whole, held
  <2> QED BY <1>2, <2>1, <2>2
<1> HIDE DEF at, before, whole
<1> QED BY <1>1, <1>2, <1>3, HrCut

LEMMA HrSumKeeps == HrInv /\ HrSumCall => HrInv'
<1> SUFFICES ASSUME HrInv, HrSumCall PROVE HrInv'
  OBVIOUS
<1> DEFINE held == log.held
           busy == hr.busy
<1>1. PICK c \in Channels, begin \in {meterNow - 1, meterNow} :
        sum' = [is |-> HrSum(hr, c, begin, meterNow),
                should |-> SumFunctionOnSet(Values(held), Within(held, c, begin, meterNow))]
  BY DEF HrSumCall, Within
<1>2. /\ held \in Seq(Sample) /\ busy \in Seq(Sample) /\ meterNow \in Int /\ begin \in Int 
      /\ (log.settled => busy = Reverse(held))
      /\ UNCHANGED <<hr, log, meterNow>>
  BY DEF HrInv, HrPoolIsWhole, HrSumCall
<1>3. ASSUME log.ordered, log.settled PROVE sum'.is = sum'.should
  <2>1. FKeep!InOrder(held, Rising)
    BY <1>3 DEF HrInv
  <2>0. busy = Reverse(held)
    BY <1>2, <1>3
  <2> DEFINE n == Len(held)
  <2> HIDE DEF held, busy
  <2>2. Len(busy) = n /\ n \in Nat /\ \A i \in 1 .. n : busy[i] = held[(n - i) + 1]
    BY <1>2, <2>0, SameReverse, FKeep!ReverseIs DEF FKeep!Turned
  <2> HIDE DEF n
  <2>3. ASSUME NEW i \in 1 .. Len(busy), NEW j \in 1 .. Len(busy), i < j PROVE busy[j].ts <= busy[i].ts
    <3> DEFINE p == (n - j) + 1
               q == (n - i) + 1
    <3>1. p \in 1 .. n /\ q \in 1 .. n /\ p < q
      BY <2>2, <2>3
    <3>2. busy[j] = held[p] /\ busy[i] = held[q]
      BY <2>2
    <3> HIDE DEF p, q
    <3>3. <<held[p], held[q]>> \in Rising
      BY <2>1, <3>1 DEF FKeep!InOrder, n
    <3> QED BY <3>2, <3>3 DEF Rising
  <2>4. HrSum(hr, c, begin, meterNow) = SumFunctionOnSet(Values(busy), Within(busy, c, begin, meterNow))
    <3>1. hr.busy = busy
      BY DEF busy
    <3>2. \A i, j \in 1 .. Len(busy) : i < j => busy[j].ts <= busy[i].ts
      BY <2>3
    <3>3. busy \in Seq(Sample) /\ begin \in Int /\ meterNow \in Int
      BY <1>2
    <3> DEFINE h == hr
               x == meterNow
    <3>4. h.busy = busy /\ x \in Int
      BY <3>1, <3>3
    <3> HIDE DEF h, x
    <3>5. HrSum(h, c, begin, x) = SumFunctionOnSet(Values(busy), Within(busy, c, begin, x))
      BY <3>2, <3>3, <3>4, WalkMeetsAll
    <3> QED BY <3>5 DEF h, x
  <2>5. SumFunctionOnSet(Values(busy), Within(busy, c, begin, meterNow))
          = SumFunctionOnSet(Values(held), Within(held, c, begin, meterNow))
    BY <1>2, <2>0, SumBothWays
  <2> QED BY <1>1, <2>4, <2>5
<1> QED BY <1>2, <1>3 DEF HrInv, HrPoolIsWhole, HrSumIsExact

LEMMA HrInvStep == HrInv /\ [MeterNext]_meterVars => HrInv'
<1> SUFFICES ASSUME HrInv, [MeterNext]_meterVars PROVE HrInv'
  OBVIOUS
<1>1. ASSUME UNCHANGED <<hr, log, sum>>, meterNow' \in Nat PROVE HrInv'
  BY <1>1 DEF HrInv, HrPoolIsWhole, HrSumIsExact
<1>2. meterNow \in Nat
  BY DEF HrInv
<1>3. CASE TpNext
  BY <1>1, <1>2, <1>3 DEF TpNext, TpWriteCall, TpResetCall, TpQuery, MeterTick
<1>4. CASE HrNext
  <2>1. CASE MeterTick
    BY <1>1, <1>2, <2>1 DEF MeterTick
  <2> QED BY <1>4, <2>1, HrWriteKeeps, HrExpireKeeps, HrExpireOldKeeps, HrSumKeeps DEF HrNext
<1>5. CASE UNCHANGED meterVars
  BY <1>1, <1>2, <1>5 DEF meterVars
<1> QED BY <1>3, <1>4, <1>5 DEF MeterNext

-----------------------------------------------------------------------------
(* The meter of the last second: the open window belongs to the last       *)
(* second of the history, the bytes of a second to the one before it.      *)
TpInv ==
  /\ tp \in [last : Nat, Bps : Nat, window : Nat, mbps : Nat]
  /\ bySecond \in Seq(Nat \X Nat) /\ meterNow \in Nat
  /\ Len(bySecond) = 0 => tp.window = 0
  /\ Len(bySecond) < 2 => tp.Bps = 0
  /\ Len(bySecond) > 0 => bySecond[Len(bySecond)] = <<tp.last, tp.window>>
  /\ Len(bySecond) > 1 => tp.Bps = bySecond[Len(bySecond) - 1][2]

LEMMA TpInvInit == MeterInit => TpInv
<1> SUFFICES ASSUME MeterInit PROVE TpInv
  OBVIOUS
<1>1. bySecond = << >> /\ tp = [last |-> 0, Bps |-> 0, window |-> 0, mbps |-> 0] /\ meterNow \in Nat
  BY MeterAssumption DEF MeterInit
<1>2. bySecond \in Seq(Nat \X Nat) /\ Len(bySecond) = 0
  BY <1>1
<1>3. tp \in [last : Nat, Bps : Nat, window : Nat, mbps : Nat] /\ tp.window = 0 /\ tp.Bps = 0
  BY <1>1
<1> QED BY <1>1, <1>2, <1>3 DEF TpInv

LEMMA TpWriteKeeps == TpInv /\ TpWriteCall => TpInv'
<1> SUFFICES ASSUME TpInv, TpWriteCall PROVE TpInv'
  OBVIOUS
<1>1. PICK value \in MeterValues, scale \in {1, 8} :
        tp' = TpWrite(tp, value, scale, meterNow) /\ bySecond' = Account(value)
  BY DEF TpWriteCall
<1> DEFINE n == Len(bySecond)
           last == tp.last
           win == tp.window
           bps == tp.Bps
           fresh == meterNow # last
           bps1 == IF fresh THEN win ELSE bps
           win1 == (IF fresh THEN 0 ELSE win) + value
           mbps1 == IF fresh THEN win * scale ELSE tp.mbps
<1>2. /\ last \in Nat /\ win \in Nat /\ bps \in Nat /\ tp.mbps \in Nat /\ meterNow \in Nat /\ value \in Nat
      /\ n \in Nat /\ bySecond \in Seq(Nat \X Nat) /\ meterNow' = meterNow
      /\ DOMAIN tp = {"last", "Bps", "window", "mbps"}
      /\ tp \in [last : Nat, Bps : Nat, window : Nat, mbps : Nat]
  BY MeterAssumption DEF TpInv, TpWriteCall
<1>3. win1 \in Nat /\ bps1 \in Nat /\ mbps1 \in Nat
  <2> HIDE DEF win, bps
  <2>1. win * 1 \in Nat /\ win * 8 \in Nat
    BY <1>2
  <2>2. mbps1 \in Nat
    BY <1>2, <2>1
  <2> QED BY <1>2, <2>2
<1>4. tp' = [last |-> meterNow, Bps |-> bps1, window |-> win1, mbps |-> mbps1]
  BY <1>1, <1>2 DEF TpWrite
<1>5. tp' \in [last : Nat, Bps : Nat, window : Nat, mbps : Nat] /\ tp'.last = meterNow /\ tp'.Bps = bps1
      /\ tp'.window = win1
  <2> HIDE DEF bps1, win1, mbps1
  <2> QED BY <1>2, <1>3, <1>4
<1>6. /\ n = 0 => win = 0
      /\ n < 2 => bps = 0
      /\ n > 0 => bySecond[n] = <<last, win>> /\ bySecond[n][1] = last /\ bySecond[n][2] = win
      /\ n > 1 => bps = bySecond[n - 1][2]
  BY DEF TpInv
<1> DEFINE w == bySecond'
<1> HIDE DEF last, win, bps, w, n
<1>7. ASSUME NEW m \in Nat \ {0}, w \in Seq(Nat \X Nat), Len(w) = m, w[m] = <<meterNow, win1>>,
             m < 2 => bps1 = 0, m > 1 => bps1 = w[m - 1][2]
      PROVE  TpInv'
  <2> HIDE DEF bps1, win1
  <2>1. tp' \in [last : Nat, Bps : Nat, window : Nat, mbps : Nat] /\ meterNow' \in Nat
        /\ w \in Seq(Nat \X Nat) /\ Len(w) # 0
    BY <1>2, <1>5, <1>7
  <2>2. Len(w) < 2 => tp'.Bps = 0
    BY <1>5, <1>7
  <2>3. w[Len(w)] = <<tp'.last, tp'.window>>
    BY <1>5, <1>7
  <2>4. Len(w) > 1 => tp'.Bps = w[Len(w) - 1][2]
    BY <1>5, <1>7
  <2> QED BY <2>1, <2>2, <2>3, <2>4 DEF TpInv, w
<1>8. CASE n > 0 /\ ~fresh
  <2>1. w = [bySecond EXCEPT ![n][2] = @ + value]
    BY <1>1, <1>6, <1>8 DEF Account, w, n
  <2>2. n \in DOMAIN bySecond /\ bySecond[n] = <<last, win>>
    BY <1>2, <1>6, <1>8 DEF n
  <2> DEFINE x == bySecond[n]
  <2>3. w = [bySecond EXCEPT ![n] = [x EXCEPT ![2] = x[2] + value]]
    BY <2>1, Zenon
  <2>4. [x EXCEPT ![2] = x[2] + value] = <<last, win + value>>
    <3>1. x = <<last, win>>
      BY <2>2
    <3> HIDE DEF x
    <3> QED BY <3>1
  <2> HIDE DEF x
  <2>5. w = [bySecond EXCEPT ![n] = <<last, win + value>>]
    BY <2>3, <2>4
  <2>6. w \in Seq(Nat \X Nat) /\ Len(w) = n /\ w[n] = <<last, win + value>>
        /\ \A i \in 1 .. n : i # n => w[i] = bySecond[i]
    <3>1. <<last, win + value>> \in Nat \X Nat
      BY <1>2
    <3>2. n \in 1 .. Len(bySecond)
      BY <1>2, <1>8 DEF n
    <3> QED BY <1>2, <2>5, <3>1, <3>2, ExceptSeq DEF n
  <2>7. w[n] = <<meterNow, win1>> /\ bps1 = bps
    BY <1>2, <1>8, <2>6
  <2>8. n > 1 => w[n - 1] = bySecond[n - 1]
    <3> SUFFICES ASSUME n > 1 PROVE w[n - 1] = bySecond[n - 1]
      OBVIOUS
    <3>1. n - 1 \in 1 .. n /\ n - 1 # n
      BY <1>2
    <3> QED BY <2>6, <3>1
  <2>9. n \in Nat \ {0}
    BY <1>2, <1>8
  <2>10. (n < 2 => bps1 = 0) /\ (n > 1 => bps1 = w[n - 1][2])
    BY <1>6, <2>7, <2>8
  <2> HIDE DEF bps1, win1
  <2> QED BY <1>7, <2>6, <2>7, <2>9, <2>10
<1>9. CASE n = 0 \/ fresh
  <2>1. w = Append(bySecond, <<meterNow, value>>)
    <3>1. ~(n > 0 /\ bySecond[n][1] = meterNow)
      BY <1>2, <1>6, <1>9
    <3> QED BY <1>1, <3>1 DEF Account, w, n
  <2>2. <<meterNow, value>> \in Nat \X Nat
    BY <1>2
  <2>3. w \in Seq(Nat \X Nat) /\ Len(w) = n + 1 /\ w[n + 1] = <<meterNow, value>>
        /\ \A i \in 1 .. n : w[i] = bySecond[i]
    BY <1>2, <2>1, <2>2, AppendProperties DEF n
  <2>4. win1 = value
    <3>1. fresh \/ win = 0
      BY <1>6, <1>9
    <3> QED BY <1>2, <3>1
  <2>5. n + 1 < 2 => bps1 = 0
    <3>1. n + 1 < 2 => n = 0
      BY <1>2
    <3>2. n = 0 => win = 0 /\ bps = 0
      BY <1>6
    <3> QED BY <3>1, <3>2
  <2>6. n + 1 > 1 => bps1 = w[(n + 1) - 1][2]
    <3> SUFFICES ASSUME n + 1 > 1 PROVE bps1 = w[(n + 1) - 1][2]
      OBVIOUS
    <3>1. n > 0 /\ (n + 1) - 1 = n /\ n \in 1 .. n
      BY <1>2
    <3>2. w[n] = bySecond[n] /\ bySecond[n][2] = win
      BY <1>6, <2>3, <3>1
    <3>3. bps1 = win
      BY <1>9, <3>1
    <3> QED BY <3>1, <3>2, <3>3
  <2>7. n + 1 \in Nat \ {0}
    BY <1>2
  <2>8. w[n + 1] = <<meterNow, win1>>
    BY <2>3, <2>4
  <2> HIDE DEF bps1, win1
  <2> QED BY <1>7, <2>3, <2>5, <2>6, <2>7, <2>8
<1> QED BY <1>2, <1>8, <1>9

LEMMA TpQueryKeeps == TpInv /\ TpQuery => TpInv'
<1> SUFFICES ASSUME TpInv, TpQuery PROVE TpInv'
  OBVIOUS
<1>1. /\ tp' = TpExpire(tp, meterNow) /\ bySecond' = IF meterNow > tp.last + 2 THEN << >> ELSE bySecond
      /\ meterNow' = meterNow
  BY DEF TpQuery
<1>2. CASE meterNow > tp.last + 2
  <2>1. tp' = [last |-> tp.last, Bps |-> 0, window |-> 0, mbps |-> 0] /\ bySecond' = << >> /\ tp.last \in Nat
    BY <1>1, <1>2 DEF TpExpire, TpInv
  <2>2. tp' \in [last : Nat, Bps : Nat, window : Nat, mbps : Nat] /\ tp'.Bps = 0 /\ tp'.window = 0
    BY <2>1
  <2>3. bySecond' \in Seq(Nat \X Nat) /\ Len(bySecond') = 0
    BY <2>1
  <2> QED BY <1>1, <2>2, <2>3 DEF TpInv
<1>3. CASE ~(meterNow > tp.last + 2)
  BY <1>1, <1>3 DEF TpExpire, TpInv
<1> QED BY <1>2, <1>3

LEMMA TpInvStep == TpInv /\ [MeterNext]_meterVars => TpInv'
<1> SUFFICES ASSUME TpInv, [MeterNext]_meterVars PROVE TpInv'
  OBVIOUS
<1>1. ASSUME UNCHANGED <<tp, bySecond>>, meterNow' \in Nat PROVE TpInv'
  BY <1>1 DEF TpInv
<1>2. meterNow \in Nat
  BY DEF TpInv
<1>3. CASE TpResetCall
  <2> DEFINE t == tp'
  <2>1. t = [tp EXCEPT !.mbps = 0] /\ bySecond' = bySecond /\ meterNow' = meterNow
    BY <1>3 DEF TpResetCall, TpReset
  <2> HIDE DEF t
  <2>2. t \in [last : Nat, Bps : Nat, window : Nat, mbps : Nat] /\ t.last = tp.last /\ t.Bps = tp.Bps
        /\ t.window = tp.window
    BY <2>1 DEF TpInv
  <2> QED BY <2>1, <2>2 DEF TpInv, t
<1>4. CASE HrNext
  BY <1>1, <1>2, <1>4 DEF HrNext, HrWriteCall, HrExpireCall, HrExpireOld, HrSumCall, MeterTick
<1>5. CASE MeterTick
  BY <1>1, <1>2, <1>5 DEF MeterTick
<1>6. CASE UNCHANGED meterVars
  BY <1>1, <1>2, <1>6 DEF meterVars
<1> QED BY <1>3, <1>4, <1>5, <1>6, TpWriteKeeps, TpQueryKeeps DEF MeterNext, TpNext

LEMMA TpTold ==
  TpInv => (TpQuery /\ got'.op = "value" =>
       LET n == Len(bySecond)
       IN  got'.value = IF meterNow > tp.last + 2 \/ n < 2 THEN 0 ELSE bySecond[n - 1][2])
<1> SUFFICES ASSUME TpInv, TpQuery, got'.op = "value"
             PROVE  got'.value = IF meterNow > tp.last + 2 \/ Len(bySecond) < 2 THEN 0
                                 ELSE bySecond[Len(bySecond) - 1][2]
  OBVIOUS
<1>1. got'.value = tp'.Bps
  <2>1. PICK op \in {"mbps", "value"} : got' = [op |-> op, value |-> IF op = "mbps" THEN tp'.mbps ELSE tp'.Bps]
    BY DEF TpQuery
  <2> QED BY <2>1
<1>2. tp' = TpExpire(tp, meterNow)
  BY DEF TpQuery
<1>3. CASE meterNow > tp.last + 2
  BY <1>1, <1>2, <1>3 DEF TpExpire, TpInv
<1>4. CASE ~(meterNow > tp.last + 2)
  <2>1. Len(bySecond) \in Nat /\ tp' = tp
    BY <1>2, <1>4 DEF TpInv, TpExpire
  <2> QED BY <1>1, <1>4, <2>1 DEF TpInv
<1> QED BY <1>3, <1>4

-----------------------------------------------------------------------------
(* The reframer.  The bytes after a, n of them.                            *)
Run(a, n) == [i \in 1 .. n |-> a + i]

LEMMA RunIsSeq ==
  ASSUME NEW a \in Nat, NEW n \in Nat
  PROVE  Run(a, n) \in Seq(Nat) /\ Len(Run(a, n)) = n /\ \A i \in 1 .. n : Run(a, n)[i] = a + i
<1>1. Run(a, n) \in [1 .. n -> Nat] /\ \A i \in 1 .. n : Run(a, n)[i] = a + i
  BY DEF Run
<1> QED BY <1>1

LEMMA SameSeq ==
  ASSUME NEW n \in Nat, NEW s \in Seq(Nat), Len(s) = n, NEW t \in Seq(Nat), Len(t) = n,
         \A i \in 1 .. n : s[i] = t[i]
  PROVE  s = t
OBVIOUS

LEMMA RunsJoin ==
  ASSUME NEW a \in Nat, NEW k \in Nat, NEW m \in Nat
  PROVE  Run(a, k) \o Run(a + k, m) = Run(a, k + m)
<1> DEFINE x == Run(a, k)
           y == Run(a + k, m)
           z == Run(a, k + m)
<1>1. x \in Seq(Nat) /\ Len(x) = k /\ \A i \in 1 .. k : x[i] = a + i
  BY RunIsSeq
<1>2. y \in Seq(Nat) /\ Len(y) = m /\ \A i \in 1 .. m : y[i] = (a + k) + i
  <2> DEFINE b == a + k
  <2>1. b \in Nat
    OBVIOUS
  <2> HIDE DEF b
  <2>2. Run(b, m) \in Seq(Nat) /\ Len(Run(b, m)) = m /\ \A i \in 1 .. m : Run(b, m)[i] = b + i
    BY <2>1, RunIsSeq
  <2> QED BY <2>2 DEF b
<1>3. z \in Seq(Nat) /\ Len(z) = k + m /\ \A i \in 1 .. k + m : z[i] = a + i
  BY RunIsSeq
<1> HIDE DEF x, y, z
<1>4. /\ x \o y \in Seq(Nat) /\ Len(x \o y) = k + m
      /\ \A i \in 1 .. k + m : (x \o y)[i] = IF i <= k THEN x[i] ELSE y[i - k]
  BY <1>1, <1>2, ConcatProperties
<1>5. ASSUME NEW i \in 1 .. k + m PROVE (x \o y)[i] = z[i]
  <2>1. CASE i <= k
    BY <1>1, <1>3, <1>4, <2>1
  <2>2. CASE ~(i <= k)
    <3>1. i - k \in 1 .. m /\ (a + k) + (i - k) = a + i
      BY <2>2
    <3> QED BY <1>2, <1>3, <1>4, <2>2, <3>1
  <2> QED BY <2>1, <2>2
<1>6. k + m \in Nat
  OBVIOUS
<1>7. x \o y = z
  BY <1>3, <1>4, <1>5, <1>6, SameSeq
<1> QED BY <1>7 DEF x, y, z

LEMMA RunRest ==
  ASSUME NEW a \in Nat, NEW n \in Nat, NEW c \in 0 .. n
  PROVE  SubSeq(Run(a, n), c + 1, n) = Run(a + c, n - c)
<1> DEFINE x == Run(a, n)
           y == SubSeq(x, c + 1, n)
           z == Run(a + c, n - c)
<1>1. x \in Seq(Nat) /\ Len(x) = n /\ \A i \in 1 .. n : x[i] = a + i
  BY RunIsSeq
<1>2. z \in Seq(Nat) /\ Len(z) = n - c /\ \A i \in 1 .. n - c : z[i] = (a + c) + i
  <2> DEFINE b == a + c
             m == n - c
  <2>1. b \in Nat /\ m \in Nat
    OBVIOUS
  <2> HIDE DEF b, m
  <2>2. Run(b, m) \in Seq(Nat) /\ Len(Run(b, m)) = m /\ \A i \in 1 .. m : Run(b, m)[i] = b + i
    BY <2>1, RunIsSeq
  <2> QED BY <2>2 DEF b, m
<1> HIDE DEF x, z
<1>3. y \in Seq(Nat) /\ Len(y) = n - c /\ \A i \in 1 .. n - c : y[i] = x[c + i]
  BY <1>1
<1>4. ASSUME NEW i \in 1 .. n - c PROVE y[i] = z[i]
  <2>1. c + i \in 1 .. n /\ a + (c + i) = (a + c) + i
    OBVIOUS
  <2> QED BY <1>1, <1>2, <1>3, <2>1
<1>5. n - c \in Nat
  OBVIOUS
<1> HIDE DEF y
<1>6. y = z
  BY <1>2, <1>3, <1>4, <1>5, SameSeq
<1> QED BY <1>6 DEF x, y, z

(* Where the loop of a write is: the frames sent, the bytes in the buffer  *)
(* and the bytes left to take are those of the write, in order.            *)
Pass(r, from, to) ==
  /\ r.buf \in [1 .. frameSize -> Nat] /\ r.at \in 0 .. frameSize - 1
  /\ r.sent \in Seq(Seq(Nat)) /\ \A i \in DOMAIN r.sent : Len(r.sent[i]) = frameSize
  /\ \E k, m \in Nat : /\ FlattenSeq(r.sent) = Run(from, k)
                       /\ r.left = Run(from + k + r.at, m) /\ from + k + r.at + m = to
                       /\ \A i \in 1 .. r.at : r.buf[i] = from + k + i

LEMMA PassKept ==
  ASSUME frameSize \in Nat \ {0}, NEW r, NEW from \in Nat, NEW to \in Nat, Pass(r, from, to), NEW p,
         Len(r.left) # 0
  PROVE  Pass(Copy(r, p), from, to) /\ Len(Copy(r, p).left) < Len(r.left)
<1> DEFINE fs == frameSize
           at == r.at
           buf == r.buf
           left == r.left
           gone == r.sent
<1>1. PICK k \in Nat, m \in Nat :
        /\ FlattenSeq(gone) = Run(from, k) /\ left = Run(from + k + at, m) /\ from + k + at + m = to
        /\ \A i \in 1 .. at : buf[i] = from + k + i
  BY DEF Pass
<1>2. /\ fs \in Nat \ {0} /\ at \in 0 .. fs - 1 /\ buf \in [1 .. fs -> Nat] /\ gone \in Seq(Seq(Nat))
      /\ \A i \in DOMAIN gone : Len(gone[i]) = fs
  BY DEF Pass
<1> DEFINE a == from + k + at
           c == IF m > fs - at THEN fs - at ELSE m
           filled == [i \in 1 .. fs |-> IF i \in at + 1 .. at + c THEN left[i - at] ELSE buf[i]]
           full == at + c = fs
           w == [buf |-> filled, at |-> IF full THEN 0 ELSE at + c,
                 left |-> SubSeq(left, c + 1, m),
                 sent |-> IF full THEN Append(gone, filled) ELSE gone]
<1>3. Len(left) = m /\ a \in Nat /\ left \in Seq(Nat) /\ \A i \in 1 .. m : left[i] = a + i
  <2> HIDE DEF at, left
  <2>1. a \in Nat
    BY <1>2
  <2> HIDE DEF a
  <2>2. left = Run(a, m)
    BY <1>1 DEF a
  <2> QED BY <2>1, <2>2, RunIsSeq
<1>4. Copy(r, p) = w
  <2>1. CopyLength(r, Len(left)) = c
    BY <1>3 DEF CopyLength
  <2> QED BY <1>3, <2>1 DEF Copy
<1>5. m # 0
  BY <1>3
<1> HIDE DEF fs, at, buf, left, gone
<1>6. c \in 1 .. m /\ at + c \in 1 .. fs
  BY <1>2, <1>5
<1> HIDE DEF c
<1>7. /\ filled \in [1 .. fs -> Nat] /\ \A i \in 1 .. at + c : filled[i] = (from + k) + i
  <2>1. ASSUME NEW i \in 1 .. fs, i \in at + 1 .. at + c PROVE filled[i] = (from + k) + i
    <3>1. i - at \in 1 .. m /\ a + (i - at) = (from + k) + i
      BY <1>2, <1>6, <2>1
    <3>2. filled[i] = left[i - at]
      BY <2>1
    <3> QED BY <1>3, <3>1, <3>2
  <2>2. ASSUME NEW i \in 1 .. fs, i \notin at + 1 .. at + c PROVE filled[i] = buf[i] /\ buf[i] \in Nat
    BY <1>2, <2>2
  <2>3. ASSUME NEW i \in 1 .. fs PROVE filled[i] \in Nat
    <3>1. (from + k) + i \in Nat
      OBVIOUS
    <3> QED BY <2>1, <2>2, <3>1
  <2>4. ASSUME NEW i \in 1 .. at + c PROVE filled[i] = (from + k) + i
    <3>1. i \in 1 .. fs /\ (i \in 1 .. at \/ i \in at + 1 .. at + c)
      BY <1>2, <1>6
    <3>2. CASE i \in 1 .. at
      <4>1. i \notin at + 1 .. at + c
        BY <1>2, <3>2
      <4> QED BY <1>1, <2>2, <3>1, <3>2, <4>1
    <3> QED BY <2>1, <3>1, <3>2
  <2>5. filled = [i \in 1 .. fs |-> filled[i]]
    OBVIOUS
  <2> HIDE DEF filled
  <2> QED BY <2>3, <2>4, <2>5
<1> HIDE DEF filled
<1>8. SubSeq(left, c + 1, m) = Run(a + c, m - c)
  <2>1. left = Run(a, m) /\ c \in 0 .. m
    BY <1>1, <1>6
  <2> HIDE DEF a
  <2>2. SubSeq(Run(a, m), c + 1, m) = Run(a + c, m - c)
    BY <1>3, <2>1, RunRest
  <2> QED BY <2>1, <2>2
<1>9. Len(SubSeq(left, c + 1, m)) = m - c /\ m - c \in Nat /\ m - c < m
  <2>1. m - c \in Nat /\ a + c \in Nat /\ m - c < m
    BY <1>3, <1>6
  <2> DEFINE b == a + c
             d == m - c
  <2> HIDE DEF b, d
  <2>2. Len(Run(b, d)) = d
    BY <2>1, RunIsSeq DEF b, d
  <2> QED BY <1>8, <2>1, <2>2 DEF b, d
<1>10. CASE ~full
  <2>1. w.buf = filled /\ w.at = at + c /\ w.left = Run(a + c, m - c) /\ w.sent = gone
    BY <1>8, <1>10
  <2>2. w.at \in 0 .. fs - 1 /\ from + k + w.at = a + c /\ from + k + w.at + (m - c) = to
    BY <1>1, <1>2, <1>6, <1>10, <2>1
  <2> HIDE DEF w, a
  <2>3. \A i \in 1 .. w.at : w.buf[i] = from + k + i
    BY <1>7, <2>1
  <2>4. \E k1, m1 \in Nat : /\ FlattenSeq(w.sent) = Run(from, k1)
                       /\ w.left = Run(from + k1 + w.at, m1) /\ from + k1 + w.at + m1 = to
                       /\ \A i \in 1 .. w.at : w.buf[i] = from + k1 + i
    <3>1. FlattenSeq(w.sent) = Run(from, k) /\ w.left = Run(from + k + w.at, m - c)
      BY <1>1, <2>1, <2>2
    <3> QED BY <1>9, <2>2, <2>3, <3>1
  <2>5. Pass(w, from, to)
    BY <1>2, <1>7, <2>1, <2>2, <2>4 DEF Pass, fs
  <2>6. Len(w.left) < m
    BY <1>8, <1>9, <2>1
  <2> QED BY <1>3, <1>4, <2>5, <2>6 DEF left, w
<1>11. CASE full
  <2>1. w.buf = filled /\ w.at = 0 /\ w.left = Run(a + c, m - c) /\ w.sent = Append(gone, filled)
    BY <1>8, <1>11
  <2> DEFINE k1 == k + fs
  <2>2. w.at \in 0 .. fs - 1 /\ k1 \in Nat /\ from + k1 + w.at = a + c /\ from + k1 + w.at + (m - c) = to
    BY <1>1, <1>2, <1>6, <1>11, <2>1
  <2>3. filled = Run(from + k, fs) /\ filled \in Seq(Nat) /\ Len(filled) = fs
    <3>1. from + k \in Nat /\ fs \in Nat /\ at + c = fs
      BY <1>2, <1>11
    <3>2. filled \in Seq(Nat) /\ Len(filled) = fs
      BY <1>7, <3>1
    <3> DEFINE b == from + k
    <3> HIDE DEF b
    <3>3. Run(b, fs) \in Seq(Nat) /\ Len(Run(b, fs)) = fs /\ \A i \in 1 .. fs : Run(b, fs)[i] = b + i
      BY <3>1, RunIsSeq DEF b
    <3>4. \A i \in 1 .. fs : filled[i] = Run(b, fs)[i]
      BY <1>7, <3>1, <3>3 DEF b
    <3>5. filled = Run(b, fs)
      BY <3>1, <3>2, <3>3, <3>4, SameSeq
    <3> QED BY <3>2, <3>5 DEF b
  <2>4. FlattenSeq(Append(gone, filled)) = Run(from, k1)
    <3>1. FlattenSeq(Append(gone, filled)) = FlattenSeq(gone) \o filled
      BY <1>2, <2>3, SameFlatten, FKeep!FlattenOfAppend
    <3>2. Run(from, k) \o Run(from + k, fs) = Run(from, k + fs)
      BY <1>2, RunsJoin
    <3> QED BY <1>1, <2>3, <3>1, <3>2
  <2>5. Append(gone, filled) \in Seq(Seq(Nat))
        /\ \A i \in DOMAIN Append(gone, filled) : Len(Append(gone, filled)[i]) = fs
    <3> DEFINE q == Append(gone, filled)
    <3>1. q \in Seq(Seq(Nat)) /\ Len(q) = Len(gone) + 1 /\ q[Len(gone) + 1] = filled
          /\ \A i \in 1 .. Len(gone) : q[i] = gone[i]
      BY <1>2, <2>3, AppendProperties
    <3> HIDE DEF q
    <3>2. DOMAIN q = 1 .. Len(gone) + 1 /\ DOMAIN gone = 1 .. Len(gone) /\ Len(gone) \in Nat
      BY <1>2, <3>1
    <3>3. ASSUME NEW i \in DOMAIN q PROVE Len(q[i]) = fs
      <4>1. i = Len(gone) + 1 \/ i \in 1 .. Len(gone)
        BY <3>2
      <4> QED BY <1>2, <2>3, <3>1, <3>2, <4>1
    <3> QED BY <3>1, <3>3 DEF q
  <2> HIDE DEF w, a, k1
  <2>6. \A i \in 1 .. w.at : w.buf[i] = from + k1 + i
    BY <2>1
  <2>7. \E k2, m1 \in Nat : /\ FlattenSeq(w.sent) = Run(from, k2)
                       /\ w.left = Run(from + k2 + w.at, m1) /\ from + k2 + w.at + m1 = to
                       /\ \A i \in 1 .. w.at : w.buf[i] = from + k2 + i
    <3>1. FlattenSeq(w.sent) = Run(from, k1) /\ w.left = Run(from + k1 + w.at, m - c)
      BY <2>1, <2>2, <2>4
    <3> QED BY <1>9, <2>2, <2>6, <3>1
  <2>8. Pass(w, from, to)
    BY <1>2, <1>7, <2>1, <2>2, <2>5, <2>7 DEF Pass, fs
  <2>9. Len(w.left) < m
    BY <1>8, <1>9, <2>1
  <2> QED BY <1>3, <1>4, <2>8, <2>9 DEF left, w
<1> QED BY <1>10, <1>11

CopyPass(r, pass, none) == Copy(r, pass)
FCopy == INSTANCE DataLemmas WITH Op <- CopyPass

LEMMA SameCopies ==
  ASSUME NEW s, NEW b PROVE FoldLeft(Copy, b, s) = FCopy!Folded(b, s, 0)
BY Zenon DEF FoldLeft, FCopy!Folded, FCopy!FoldLeft, MapThenFoldSet, FCopy!MapThenFoldSet, Max, FCopy!Max,
             CopyPass

LEMMA CopySteps ==
  ASSUME NEW s \in Seq(Nat), NEW b
  PROVE  LET h == FCopy!Stages(b, s, 0)
         IN  /\ DOMAIN h = 0 .. Len(s) /\ h[0] = b
             /\ \A k \in 1 .. Len(s) : h[k] = CopyPass(h[k - 1], s[k], 0)
             /\ FCopy!Folded(b, s, 0) = h[Len(s)]
BY FCopy!FoldSteps

(* A pass for each byte is enough.                                         *)
LEMMA LoopEnds ==
  ASSUME frameSize \in Nat \ {0}, NEW n \in Nat, NEW b, NEW from \in Nat, NEW to \in Nat,
         Pass(b, from, to), Len(b.left) = n
  PROVE  LET r == FoldLeft(Copy, b, [i \in 1 .. n |-> i]) IN Pass(r, from, to) /\ Len(r.left) = 0
<1> DEFINE s == [i \in 1 .. n |-> i]
           h == FCopy!Stages(b, s, 0)
           L(j) == Len(h[j].left)
           Q == {j \in 0 .. n : Pass(h[j], from, to) /\ L(j) <= n - j}
<1>1. s \in Seq(Nat) /\ Len(s) = n
  <2>1. s \in [1 .. n -> Nat]
    OBVIOUS
  <2> HIDE DEF s
  <2> QED BY <2>1
<1> HIDE DEF s
<1>2. /\ DOMAIN h = 0 .. n /\ h[0] = b
      /\ \A k \in 1 .. n : h[k] = Copy(h[k - 1], s[k])
      /\ FoldLeft(Copy, b, s) = h[n]
  <2>1. /\ DOMAIN h = 0 .. Len(s) /\ h[0] = b
        /\ \A k \in 1 .. Len(s) : h[k] = CopyPass(h[k - 1], s[k], 0)
        /\ FCopy!Folded(b, s, 0) = h[Len(s)]
    BY <1>1, CopySteps
  <2> HIDE DEF h
  <2>2. \A k \in 1 .. Len(s) : h[k] = Copy(h[k - 1], s[k])
    BY <2>1 DEF CopyPass
  <2>3. FoldLeft(Copy, b, s) = FCopy!Folded(b, s, 0)
    BY SameCopies
  <2> QED BY <1>1, <2>1, <2>2, <2>3
<1> HIDE DEF h
<1>3. ASSUME NEW j \in 0 .. n, Pass(h[j], from, to) PROVE L(j) \in Nat
  <2> DEFINE r == h[j]
  <2>1. PICK k \in Nat, m \in Nat : r.left = Run(from + k + r.at, m) /\ from + k + r.at + m = to
    BY <1>3 DEF Pass
  <2>2. from + k + r.at \in Nat
    <3>1. r.at \in 0 .. frameSize - 1
      BY <1>3 DEF Pass
    <3> QED BY <3>1
  <2> DEFINE a == from + k + r.at
  <2> HIDE DEF a
  <2>3. Len(Run(a, m)) = m
    BY <2>2, RunIsSeq DEF a
  <2> QED BY <2>1, <2>3 DEF a
<1>4. 0 \in Q
  BY <1>2
<1>5. ASSUME NEW m \in 0 .. n - 1, m \in Q PROVE m + 1 \in Q
  <2> DEFINE r == h[m]
             p == s[m + 1]
  <2>1. m + 1 \in 1 .. n /\ (m + 1) - 1 = m /\ m \in 0 .. n /\ m + 1 \in 0 .. n
    OBVIOUS
  <2>2. h[m + 1] = Copy(r, p) /\ Pass(r, from, to) /\ Len(r.left) <= n - m /\ Len(r.left) \in Nat
    BY <1>2, <1>3, <1>5, <2>1
  <2> HIDE DEF r, p
  <2>3. CASE Len(r.left) = 0
    <3>1. h[m + 1] = r
      BY <2>2, <2>3 DEF Copy
    <3> QED BY <2>1, <2>2, <2>3, <3>1
  <2>4. CASE Len(r.left) # 0
    <3>1. Pass(Copy(r, p), from, to) /\ Len(Copy(r, p).left) < Len(r.left)
      BY <2>2, <2>4, PassKept
    <3>2. L(m + 1) \in Nat
      BY <1>3, <2>1, <2>2, <3>1
    <3> QED BY <2>1, <2>2, <3>1, <3>2
  <2> QED BY <2>3, <2>4
<1> HIDE DEF Q
<1>6. \A k \in 0 .. n : k \in Q
  BY <1>4, <1>5, FKeep!UpTo
<1>7. n \in Q
  BY <1>6
<1>8. Pass(h[n], from, to) /\ L(n) <= n - n /\ L(n) \in Nat
  BY <1>3, <1>7 DEF Q
<1>9. L(n) = 0
  BY <1>8
<1> QED BY <1>2, <1>8, <1>9 DEF s

(* Between two writes the buffer holds the bytes after those sent.         *)
ReframerInv ==
  /\ frameSize \in Nat /\ sendBuffer \in [1 .. frameSize -> Nat] /\ sendIndex \in 0 .. frameSize
  /\ frameSize # 0 => sendIndex < frameSize
  /\ put \in Nat /\ out \in Nat /\ put = out + sendIndex
  /\ \A i \in 1 .. sendIndex : sendBuffer[i] = out + i

LEMMA ReframerInvInit == Init => ReframerInv
<1> SUFFICES ASSUME Init PROVE ReframerInv
  OBVIOUS
<1>1. frameSize \in Nat /\ sendBuffer = [i \in 1 .. frameSize |-> 0] /\ sendIndex = 0 /\ put = 0 /\ out = 0
  BY ReframerAssumption DEF Init, ReframerInit
<1> QED BY <1>1 DEF ReframerInv

Kept ==
  /\ FlattenSeq(calls') = [i \in 1 .. out' - out |-> out + i]
  /\ frameSize > 0 => \A i \in DOMAIN calls' : Len(calls'[i]) = frameSize
  /\ SubSeq(sendBuffer', 1, sendIndex') = [i \in 1 .. put' - out' |-> out' + i]

LEMMA PlainWrite ==
  ASSUME ReframerInv, ReframerWrite, frameSize = 0
  PROVE  ReframerInv' /\ Kept
<1>1. PICK n \in WriteLengths :
        /\ calls' = <<[i \in 1 .. n |-> put + i]>> /\ UNCHANGED <<sendBuffer, sendIndex, frameSize>>
        /\ put' = put + n /\ out' = out + Len(FlattenSeq(calls'))
  BY DEF ReframerWrite
<1>2. n \in Nat /\ put \in Nat /\ out = put /\ sendIndex = 0 /\ sendBuffer \in [1 .. 0 -> Nat]
  BY ReframerAssumption DEF ReframerInv
<1>3. Run(put, n) \in Seq(Nat) /\ Len(Run(put, n)) = n
  BY <1>2, RunIsSeq
<1>4. calls' = <<Run(put, n)>>
  BY <1>1 DEF Run
<1>5. FlattenSeq(calls') = Run(put, n)
  BY <1>3, <1>4, SameFlatten, FKeep!FlattenOfOne
<1>6. out' = out + n /\ out' - out = n /\ put' - out' = 0
  <2>1. out' = out + n /\ put' = put + n
    BY <1>1, <1>3, <1>5
  <2> QED BY <1>2, <2>1
<1>7. FlattenSeq(calls') = [i \in 1 .. out' - out |-> out + i]
  BY <1>2, <1>5, <1>6 DEF Run
<1>8. SubSeq(sendBuffer', 1, sendIndex') = [i \in 1 .. put' - out' |-> out' + i]
  <2>1. SubSeq(sendBuffer, 1, 0) = << >>
    BY <1>2
  <2>2. [i \in 1 .. 0 |-> out' + i] = << >>
    BY <1>2, <1>6
  <2> QED BY <1>1, <1>2, <1>6, <2>1, <2>2
<1>9. ReframerInv'
  BY <1>1, <1>2, <1>6 DEF ReframerInv
<1> QED BY <1>7, <1>8, <1>9 DEF Kept

LEMMA FramedWrite ==
  ASSUME ReframerInv, ReframerWrite, frameSize # 0
  PROVE  ReframerInv' /\ Kept
<1> DEFINE b(n) == [buf |-> sendBuffer, at |-> sendIndex, left |-> [i \in 1 .. n |-> put + i], sent |-> << >>]
           r(n) == FoldLeft(Copy, b(n), [i \in 1 .. n |-> i])
<1>1. PICK n \in WriteLengths :
        /\ calls' = r(n).sent /\ sendBuffer' = r(n).buf /\ sendIndex' = r(n).at
        /\ put' = put + n /\ out' = out + Len(FlattenSeq(calls')) /\ frameSize' = frameSize
  BY DEF ReframerWrite
<1>2. /\ n \in Nat /\ put \in Nat /\ out \in Nat /\ put = out + sendIndex /\ frameSize \in Nat \ {0}
      /\ sendIndex \in 0 .. frameSize - 1 /\ sendBuffer \in [1 .. frameSize -> Nat]
      /\ \A i \in 1 .. sendIndex : sendBuffer[i] = out + i
  BY ReframerAssumption DEF ReframerInv
<1> DEFINE s == b(n)
           e == r(n)
<1>3. s.buf = sendBuffer /\ s.at = sendIndex /\ s.left = Run(put, n) /\ s.sent = << >>
  BY DEF Run
<1>4. e = FoldLeft(Copy, s, [i \in 1 .. n |-> i])
  OBVIOUS
<1>5. calls' = e.sent /\ sendBuffer' = e.buf /\ sendIndex' = e.at
  BY <1>1
<1> HIDE DEF s, e
<1>6. Len(s.left) = n
  BY <1>2, <1>3, RunIsSeq
<1>7. Pass(s, out, put + n)
  <2>1. FlattenSeq(s.sent) = Run(out, 0)
    <3>1. Run(out, 0) = << >>
      BY DEF Run
    <3> QED BY <1>3, <3>1, SameFlatten, FKeep!FlattenOfNone
  <2>2. out + 0 + s.at = put /\ out + 0 + s.at + n = put + n
    BY <1>2, <1>3
  <2>3. \A i \in 1 .. s.at : s.buf[i] = out + 0 + i
    BY <1>2, <1>3
  <2>4. s.sent \in Seq(Seq(Nat)) /\ \A i \in DOMAIN s.sent : Len(s.sent[i]) = frameSize
    BY <1>3
  <2>5. \E k, m \in Nat : /\ FlattenSeq(s.sent) = Run(out, k)
                       /\ s.left = Run(out + k + s.at, m) /\ out + k + s.at + m = put + n
                       /\ \A i \in 1 .. s.at : s.buf[i] = out + k + i
    <3>1. s.left = Run(out + 0 + s.at, n)
      BY <1>3, <2>2
    <3> QED BY <1>2, <2>1, <2>2, <2>3, <3>1
  <2> QED BY <1>2, <1>3, <2>4, <2>5 DEF Pass
<1>8. Pass(e, out, put + n) /\ Len(e.left) = 0
  <2>1. put + n \in Nat
    BY <1>2
  <2> DEFINE to == put + n
             o == out
  <2> HIDE DEF to, o
  <2>2. to \in Nat /\ o \in Nat /\ Pass(s, o, to)
    BY <1>2, <1>7, <2>1 DEF to, o
  <2>3. Pass(e, o, to) /\ Len(e.left) = 0
    BY <1>2, <1>4, <1>6, <2>2, LoopEnds
  <2> QED BY <2>3 DEF to, o
<1>9. PICK k \in Nat, m \in Nat :
        /\ FlattenSeq(e.sent) = Run(out, k) /\ e.left = Run(out + k + e.at, m) /\ out + k + e.at + m = put + n
        /\ \A i \in 1 .. e.at : e.buf[i] = out + k + i
  BY <1>8 DEF Pass
<1>10. /\ e.at \in 0 .. frameSize - 1 /\ e.buf \in [1 .. frameSize -> Nat] /\ e.sent \in Seq(Seq(Nat))
       /\ \A i \in DOMAIN e.sent : Len(e.sent[i]) = frameSize
  BY <1>8 DEF Pass
<1>11. m = 0
  <2> DEFINE a == out + k + e.at
  <2>1. a \in Nat
    BY <1>2, <1>10
  <2> HIDE DEF a
  <2>2. Len(Run(a, m)) = m
    BY <2>1, RunIsSeq
  <2> QED BY <1>8, <1>9, <2>2 DEF a
<1>12. Len(Run(out, k)) = k
  BY <1>2, RunIsSeq
<1>13. out' = out + k /\ out' - out = k /\ put' - out' = e.at /\ put' = put + n /\ put' = out' + e.at
  <2>1. out' = out + k
    BY <1>1, <1>5, <1>9, <1>12
  <2>2. put' = put + n /\ out + k + e.at = put + n /\ e.at \in Nat
    BY <1>1, <1>2, <1>9, <1>10, <1>11
  <2> QED BY <1>2, <2>1, <2>2
<1>14. FlattenSeq(calls') = [i \in 1 .. out' - out |-> out + i]
  BY <1>5, <1>9, <1>13 DEF Run
<1>15. SubSeq(sendBuffer', 1, sendIndex') = [i \in 1 .. put' - out' |-> out' + i]
  <2> DEFINE y == e.buf
             d == e.at
             z == SubSeq(y, 1, d)
             q == out + k
  <2>1. y \in Seq(Nat) /\ Len(y) = frameSize /\ d \in 0 .. frameSize - 1 /\ q \in Nat
        /\ (\A i \in 1 .. d : y[i] = q + i) /\ d \in Nat
    <3>1. d \in 0 .. frameSize - 1 /\ y \in [1 .. frameSize -> Nat] /\ frameSize \in Nat
      BY <1>2, <1>10
    <3>2. \A i \in 1 .. d : y[i] = q + i
      BY <1>9
    <3>3. q \in Nat
      BY <1>2
    <3> HIDE DEF y, d, q
    <3>4. y \in Seq(Nat) /\ Len(y) = frameSize
      BY <3>1
    <3>5. d \in Nat
      BY <3>1
    <3> QED BY <3>1, <3>2, <3>3, <3>4, <3>5
  <2> HIDE DEF y, d, q
  <2>2. z \in Seq(Nat) /\ Len(z) = d /\ \A i \in 1 .. d : z[i] = y[i]
    BY <1>2, <2>1
  <2> HIDE DEF z
  <2>3. Run(q, d) \in Seq(Nat) /\ Len(Run(q, d)) = d /\ \A i \in 1 .. d : Run(q, d)[i] = q + i
    BY <2>1, RunIsSeq
  <2>4. z = Run(q, d)
    BY <2>1, <2>2, <2>3, SameSeq
  <2>5. out' = q /\ put' - out' = d /\ sendBuffer' = y /\ sendIndex' = d
    BY <1>5, <1>13 DEF q, d, y
  <2> QED BY <2>4, <2>5 DEF z, Run
<1>16. \A i \in DOMAIN calls' : Len(calls'[i]) = frameSize
  BY <1>5, <1>10
<1>17. ReframerInv'
  <2>1. \A i \in 1 .. sendIndex' : sendBuffer'[i] = out' + i
    BY <1>5, <1>9, <1>13
  <2>2. frameSize' = frameSize /\ sendIndex' \in 0 .. frameSize - 1 /\ sendBuffer' \in [1 .. frameSize -> Nat]
    BY <1>1, <1>5, <1>10
  <2>3. put' \in Nat /\ out' \in Nat /\ put' = out' + sendIndex'
    BY <1>2, <1>5, <1>13
  <2>4. sendIndex' \in 0 .. frameSize' /\ sendIndex' < frameSize' /\ frameSize' \in Nat
    BY <1>2, <2>2
  <2>5. sendBuffer' \in [1 .. frameSize' -> Nat]
    BY <2>2
  <2> QED BY <2>1, <2>3, <2>4, <2>5 DEF ReframerInv
<1> QED BY <1>14, <1>15, <1>16, <1>17 DEF Kept

LEMMA ReframerStep == ReframerInv /\ ReframerNext => ReframerInv' /\ Kept
<1> SUFFICES ASSUME ReframerInv, ReframerNext PROVE ReframerInv' /\ Kept
  OBVIOUS
<1>1. ReframerWrite
  BY DEF ReframerNext
<1> QED BY <1>1, PlainWrite, FramedWrite

LEMMA Division ==
  ASSUME NEW x \in Nat, NEW s \in Nat \ {0}
  PROVE  /\ x \div s \in Nat /\ (x \div s) * s \in Nat
         /\ (x \div s) * s <= x /\ x < (x \div s) * s + s
OBVIOUS

LEMMA Times ==
  ASSUME NEW p \in Nat, NEW q \in Nat, NEW s \in Nat \ {0}, p < q
  PROVE  p * s + s <= q * s /\ p * s \in Nat /\ q * s \in Nat
<1>1. PICK d \in Nat : q = p + 1 + d
  <2>1. q - p - 1 \in Nat /\ q = p + 1 + (q - p - 1)
    OBVIOUS
  <2> QED BY <2>1
<1>2. (p + 1 + d) * s = p * s + s + d * s
  OBVIOUS
<1>3. p * s \in Nat /\ d * s \in Nat
  OBVIOUS
<1> QED BY <1>1, <1>2, <1>3

(* The last value of the group of size s that x is in.                     *)
End(x, s) == (x \div s) * s + s - 1
LEMMA Ends ==
  ASSUME NEW x \in Nat, NEW y \in Nat, NEW s \in Nat \ {0}, x <= y
  PROVE  /\ End(x, s) \in Nat /\ x <= End(x, s) /\ End(x, s) <= End(y, s)
         /\ y <= End(x, s) => End(y, s) = End(x, s)
<1> DEFINE p == x \div s
           q == y \div s
           a == p * s
           b == q * s
<1>1. p \in Nat /\ a \in Nat /\ a <= x /\ x < a + s
  BY Division
<1>2. q \in Nat /\ b \in Nat /\ b <= y /\ y < b + s
  BY Division
<1>3. End(x, s) = a + s - 1 /\ End(y, s) = b + s - 1
  BY DEF End
<1> HIDE DEF p, q
<1>4. p < q => a + s <= b
  BY <1>1, <1>2, Times
<1>5. q < p => b + s <= a
  BY <1>1, <1>2, Times
<1>6. p = q => a = b
  OBVIOUS
<1> HIDE DEF a, b
<1>7. ~(q < p)
  BY <1>1, <1>2, <1>5
<1>8. p = q \/ p < q
  BY <1>1, <1>2, <1>7
<1> QED BY <1>1, <1>2, <1>3, <1>4, <1>6, <1>8

(* The bucket of a summary that a bucket of the histogram goes into.       *)
Top(h, fsize, ms) == Min({h.max, h.min + ((ms - h.min) \div fsize) * fsize + fsize - 1})
From(h, fsize, b) == {ms \in h.min .. h.max : Top(h, fsize, ms) = b}

LEMMA Tops ==
  ASSUME NEW now \in Nat, NEW h, IsHist(h, now), NEW fsize \in Nat \ {0}
  PROVE  \A x \in h.min .. h.max :
           /\ Top(h, fsize, x) \in h.min .. h.max /\ x <= Top(h, fsize, x)
           /\ \A y \in h.min .. h.max :
                /\ x <= y => Top(h, fsize, x) <= Top(h, fsize, y)
                /\ x <= y /\ y <= Top(h, fsize, x) => Top(h, fsize, y) = Top(h, fsize, x)
<1> DEFINE lo == h.min
           hi == h.max
           B == lo .. hi
           Up(x) == lo + End(x - lo, fsize)
           T(x) == Top(h, fsize, x)
<1>1. lo \in Nat /\ hi \in Nat /\ lo < hi
  BY DEF IsHist
<1>2. ASSUME NEW x \in B PROVE T(x) = Min({hi, Up(x)})
  <2>1. lo + ((x - lo) \div fsize) * fsize + fsize - 1 = Up(x)
    <3> DEFINE q == ((x - lo) \div fsize) * fsize
    <3>1. x - lo \in Nat
      BY <1>1
    <3>2. q \in Nat
      <4> DEFINE d == x - lo
      <4> HIDE DEF d
      <4>1. (d \div fsize) * fsize \in Nat
        BY <3>1, Division DEF d
      <4> QED BY <4>1 DEF d
    <3>3. Up(x) = lo + (q + fsize - 1)
      BY DEF End
    <3> HIDE DEF q
    <3>4. lo + q + fsize - 1 = lo + (q + fsize - 1)
      BY <1>1, <3>2
    <3> QED BY <3>3, <3>4 DEF q
  <2> QED BY <2>1 DEF Top
<1>3. ASSUME NEW x \in B PROVE Up(x) \in Nat /\ x <= Up(x)
  <2> DEFINE d == x - lo
  <2>1. d \in Nat
    BY <1>1
  <2> HIDE DEF d
  <2>2. End(d, fsize) \in Nat /\ d <= End(d, fsize)
    BY <2>1, Ends
  <2> HIDE DEF lo, hi
  <2>3. x = lo + d
    BY <1>1 DEF d
  <2> QED BY <1>1, <2>1, <2>2, <2>3 DEF d
<1>4. ASSUME NEW x \in B, NEW y \in B, x <= y
      PROVE  Up(x) <= Up(y) /\ (y <= Up(x) => Up(y) = Up(x))
  <2> DEFINE d == x - lo
             e == y - lo
  <2>1. d \in Nat /\ e \in Nat /\ d <= e /\ y = lo + e
    BY <1>1, <1>4
  <2>2. Up(x) = lo + End(d, fsize) /\ Up(y) = lo + End(e, fsize)
    OBVIOUS
  <2> HIDE DEF d, e, Up
  <2>3. End(d, fsize) \in Nat /\ End(d, fsize) <= End(e, fsize) /\ (e <= End(d, fsize) => End(e, fsize) = End(d, fsize))
    BY <2>1, Ends
  <2>4. End(e, fsize) \in Nat
    BY <2>1, Ends
  <2> HIDE DEF lo, hi
  <2> QED BY <1>1, <2>1, <2>2, <2>3, <2>4
<1>5. ASSUME NEW x \in B PROVE T(x) = IF hi <= Up(x) THEN hi ELSE Up(x)
  <2> DEFINE u == Up(x)
             S == {hi, u}
  <2>1. S \in SUBSET Int /\ u \in Nat
    BY <1>1, <1>3, <1>5
  <2>2. T(x) = FKeep!Min(S)
    BY <1>2, <1>5, SameMin
  <2> HIDE DEF u, lo, hi, T
  <2>3. CASE hi <= u
    <3>1. \A y \in S : hi <= y
      BY <1>1, <2>3
    <3>2. hi \in S
      OBVIOUS
    <3> HIDE DEF S
    <3>3. FKeep!Min(S) = hi
      BY <2>1, <3>1, <3>2, FKeep!MinIs
    <3> QED BY <2>2, <2>3, <3>3 DEF u
  <2>4. CASE ~(hi <= u)
    <3>1. \A y \in S : u <= y
      BY <1>1, <2>1, <2>4
    <3>2. u \in S
      OBVIOUS
    <3> HIDE DEF S
    <3>3. FKeep!Min(S) = u
      BY <2>1, <3>1, <3>2, FKeep!MinIs
    <3> QED BY <2>2, <2>4, <3>3 DEF u
  <2> QED BY <2>3, <2>4
<1> SUFFICES ASSUME NEW x \in B
             PROVE  /\ T(x) \in B /\ x <= T(x)
                    /\ \A y \in B : /\ x <= y => T(x) <= T(y)
                                    /\ x <= y /\ y <= T(x) => T(y) = T(x)
  OBVIOUS
<1> HIDE DEF lo, hi, T, Up
<1>6. T(x) \in B /\ x <= T(x) /\ T(x) <= Up(x)
  BY <1>1, <1>3, <1>5
<1>7. ASSUME NEW y \in B, x <= y PROVE T(x) <= T(y) /\ (y <= T(x) => T(y) = T(x))
  <2>1. Up(x) \in Nat /\ Up(y) \in Nat /\ Up(x) <= Up(y) /\ (y <= Up(x) => Up(y) = Up(x))
    BY <1>3, <1>4, <1>7
  <2>2. T(x) <= T(y)
    BY <1>1, <1>5, <2>1
  <2>3. y <= T(x) => T(y) = T(x)
    BY <1>1, <1>5, <1>6, <2>1
  <2> QED BY <2>2, <2>3
<1> QED BY <1>6, <1>7

Lasts(h, S) == {h.last[ms] : ms \in S}

LEMMA SummaryIs ==
  ASSUME NEW now \in Nat, NEW h, IsHist(h, now), NEW fsize \in Nat \ {0}
  PROVE  LET k == Summary(h, fsize)
         IN  /\ k.min = h.min /\ k.max = h.max /\ k.miss = h.miss
             /\ k.count = [b \in h.min .. h.max |-> SumFunctionOnSet(h.count, From(h, fsize, b))]
             /\ k.last = [b \in h.min .. h.max |-> Max({0} \cup Lasts(h, From(h, fsize, b)))]
<1> DEFINE k == Summary(h, fsize)
           C == [b \in h.min .. h.max |-> SumFunctionOnSet(h.count, From(h, fsize, b))]
           L == [b \in h.min .. h.max |-> Max({0} \cup Lasts(h, From(h, fsize, b)))]
<1>1. \A S : MapThenSumSet(LAMBDA ms : h.count[ms], S) = SumFunctionOnSet(h.count, S)
  BY DEF MapThenSumSet, SumFunctionOnSet, FoldFunctionOnSet
<1>2. k = [h EXCEPT !.count = C, !.last = L]
  BY <1>1, Zenon DEF Summary, BucketsOf, From, Top, Lasts
<1> HIDE DEF k, C, L
<1>3. k.min = h.min /\ k.max = h.max /\ k.miss = h.miss /\ k.count = C /\ k.last = L
  BY <1>2 DEF IsHist, HistFields
<1> QED BY <1>3 DEF k, C, L

(* A summary has all the samples.                                          *)
LEMMA SummaryWhole ==
  ASSUME NEW now \in Nat, NEW h, IsHist(h, now), NEW fsize \in Nat \ {0}
  PROVE  Counts(Summary(h, fsize)) = Counts(h)
<1> DEFINE k == Summary(h, fsize)
           B == h.min .. h.max
           f == h.count
           g == [ms \in B |-> Top(h, fsize, ms)]
           C == [b \in B |-> SumFunctionOnSet(f, From(h, fsize, b))]
           D == [b \in B |-> FKeep!SumFunctionOnSet(f, {x \in B : g[x] = b})]
<1>1. k.min = h.min /\ k.max = h.max /\ k.count = C
  BY SummaryIs
<1>2. Counts(k) = SumFunctionOnSet(C, B) /\ Counts(h) = SumFunctionOnSet(f, B)
  BY <1>1, CountsIsSum
<1>3. IsFiniteSet(B) /\ \A x \in B : f[x] \in Int
  <2>1. IsFiniteSet(B)
    BY BucketsFinite
  <2>2. f \in [B -> Nat]
    BY DEF IsHist
  <2> HIDE DEF f, B
  <2> QED BY <2>1, <2>2
<1>4. \A x \in B : g[x] \in B /\ g[x] = Top(h, fsize, x)
  BY Tops
<1>5. C = D
  <2>1. \A b \in B : From(h, fsize, b) = {x \in B : g[x] = b}
    BY DEF From
  <2> HIDE DEF f, g, B
  <2> QED BY <2>1, SameSum
<1> HIDE DEF B, f, g, C
<1>6. FKeep!SumFunctionOnSet(D, B) = FKeep!SumFunctionOnSet(f, B)
  BY <1>3, <1>4, SameFinite, FKeep!SumInGroups
<1> QED BY <1>2, <1>5, <1>6, SameSum

(* A row of a summary stands for the buckets between the row before it and *)
(* itself.                                                                 *)
Group(h, k, b) == {ms \in h.min .. h.max :
                     ms <= b /\ \A c \in h.min .. h.max : k.count[c] > 0 /\ c < b => ms > c}
LEMMA RowTrue ==
  ASSUME NEW now \in Nat, NEW h, IsHist(h, now), NEW fsize \in Nat \ {0},
         NEW k, k = Summary(h, fsize), NEW b \in h.min .. h.max, k.count[b] > 0
  PROVE  k.count[b] = SumFunctionOnSet(h.count, Group(h, k, b))
         /\ k.last[b] = Max(Lasts(h, Group(h, k, b)))
<1> DEFINE B == h.min .. h.max
           f == h.count
           l == h.last
           F(c) == From(h, fsize, c)
           T(x) == Top(h, fsize, x)
           G == Group(h, k, b)
<1>1. \A c \in B : k.count[c] = SumFunctionOnSet(f, F(c)) /\ k.last[c] = Max({0} \cup Lasts(h, F(c)))
  <2>1. k.count = [c \in B |-> SumFunctionOnSet(f, F(c))]
        /\ k.last = [c \in B |-> Max({0} \cup Lasts(h, F(c)))]
    <3> DEFINE K == Summary(h, fsize)
    <3>1. K.count = [c \in B |-> SumFunctionOnSet(f, F(c))]
          /\ K.last = [c \in B |-> Max({0} \cup Lasts(h, F(c)))]
      BY SummaryIs
    <3> HIDE DEF K, B, f, F, l
    <3>2. k = K
      BY DEF K
    <3> QED BY <3>1, <3>2
  <2> QED BY <2>1
<1>2. IsFiniteSet(B) /\ B \subseteq Int
  <2>1. h.min \in Nat /\ h.max \in Nat
    BY DEF IsHist
  <2> QED BY <2>1, BucketsFinite
<1>3. f \in [B -> Nat] /\ l \in [B -> 0 .. now] /\ \A x \in B : f[x] = 0 => l[x] = 0
  BY DEF IsHist
<1>4. \A x \in B : /\ T(x) \in B /\ x <= T(x)
                   /\ \A y \in B : /\ x <= y => T(x) <= T(y)
                                   /\ x <= y /\ y <= T(x) => T(y) = T(x)
  BY Tops
<1>5. \A c \in B : F(c) = {x \in B : T(x) = c}
  BY DEF From
<1>6. G = {x \in B : x <= b /\ \A c \in B : k.count[c] > 0 /\ c < b => x > c}
  BY DEF Group
<1>7. b \in B /\ k.count[b] > 0
  OBVIOUS
<1> HIDE DEF B, f, l, F, T, G
<1>8. \A c \in B : F(c) \in SUBSET B /\ IsFiniteSet(F(c))
  <2> SUFFICES ASSUME NEW c \in B PROVE F(c) \in SUBSET B /\ IsFiniteSet(F(c))
    OBVIOUS
  <2>1. F(c) \in SUBSET B
    BY <1>5
  <2> QED BY <1>2, <2>1, FS_Subset
<1>20. ASSUME NEW c \in B, NEW x \in F(c) PROVE x \in B /\ T(x) = c /\ x <= c /\ x \in Int /\ c \in Int
  <2>1. F(c) = {y \in B : T(y) = c}
    BY <1>5
  <2>2. x \in B /\ T(x) = c
    BY <2>1
  <2>3. x <= T(x)
    BY <1>4, <2>2
  <2> QED BY <1>2, <2>2, <2>3
<1>9. ASSUME NEW c \in B, k.count[c] > 0 PROVE F(c) # {}
  <2> SUFFICES ASSUME F(c) = {} PROVE FALSE
    OBVIOUS
  <2>1. SumFunctionOnSet(f, {}) = 0
    BY SameSum, FKeep!SumOfNothing
  <2>2. k.count[c] = SumFunctionOnSet(f, F(c))
    BY <1>1
  <2>3. k.count[c] = 0
    BY <2>1, <2>2
  <2> QED BY <1>9, <2>3
<1>10. ASSUME NEW x \in B, f[x] # 0 PROVE k.count[T(x)] > 0
  <2>1. T(x) \in B /\ x \in F(T(x))
    BY <1>4, <1>5
  <2> DEFINE S == F(T(x))
  <2>2. IsFiniteSet(S) /\ (\A y \in S : f[y] \in Nat) /\ x \in S
    BY <1>3, <1>8, <2>1
  <2>3. k.count[T(x)] = SumFunctionOnSet(f, S)
    BY <1>1, <2>1
  <2> HIDE DEF S
  <2>4. FKeep!SumFunctionOnSet(f, S) \in Nat /\ f[x] <= FKeep!SumFunctionOnSet(f, S)
    BY <2>2, SameFinite, FKeep!SumIsNat
  <2>5. f[x] \in Nat
    BY <2>2
  <2>6. FKeep!SumFunctionOnSet(f, S) > 0
    BY <1>10, <2>4, <2>5
  <2> QED BY <2>3, <2>6, SameSum
<1>11. F(b) \subseteq G
  <2> SUFFICES ASSUME NEW x \in F(b) PROVE x \in G
    OBVIOUS
  <2>1. x \in B /\ T(x) = b /\ x <= b
    BY <1>7, <1>20
  <2>2. ASSUME NEW c \in B, k.count[c] > 0, c < b PROVE x > c
    <3> SUFFICES ASSUME ~(x > c) PROVE FALSE
      OBVIOUS
    <3>1. PICK y \in F(c) : TRUE
      BY <1>9, <2>2
    <3>2. y \in B /\ T(y) = c /\ y <= c
      BY <1>20, <2>2
    <3>3. T(c) = c
      BY <1>4, <3>2, <1>2
    <3>4. x <= c
      BY <1>2, <2>1
    <3>5. T(x) <= T(c)
      BY <1>4, <2>1, <3>4
    <3> QED BY <1>2, <1>7, <2>1, <2>2, <3>3, <3>5
  <2> QED BY <1>6, <2>1, <2>2
<1>12. T(b) = b
  <2>1. PICK y \in F(b) : TRUE
    BY <1>7, <1>9
  <2>2. y \in B /\ T(y) = b /\ y <= b
    BY <1>7, <1>20
  <2> QED BY <1>2, <1>4, <1>7, <2>2
<1>13. ASSUME NEW x \in G \ F(b) PROVE f[x] = 0
  <2> SUFFICES ASSUME f[x] # 0 PROVE FALSE
    OBVIOUS
  <2>1. x \in B /\ x <= b /\ T(x) # b
    BY <1>5, <1>6, <1>7, <1>13
  <2>2. T(x) \in B /\ x <= T(x) /\ T(x) <= b
    BY <1>4, <1>7, <1>12, <2>1
  <2>6. x \in Int /\ T(x) \in Int /\ b \in Int
    BY <1>2, <1>7, <2>1, <2>2
  <2>3. T(x) < b
    BY <2>1, <2>2, <2>6
  <2>4. k.count[T(x)] > 0
    BY <1>10, <2>1
  <2>5. x > T(x)
    BY <1>6, <2>2, <2>3, <2>4
  <2> QED BY <2>2, <2>5, <2>6
<1>14. G \subseteq B
  BY <1>6
<1>15. k.count[b] = SumFunctionOnSet(f, G)
  <2>1. IsFiniteSet(G)
    BY <1>2, <1>14, FS_Subset
  <2>2. \A x \in G : f[x] \in Int
    BY <1>3, <1>14
  <2> DEFINE R == F(b)
  <2>3. R \in SUBSET G /\ \A x \in G \ R : f[x] = 0
    BY <1>11, <1>13
  <2> HIDE DEF R
  <2>4. FKeep!SumFunctionOnSet(f, G) = FKeep!SumFunctionOnSet(f, R)
    BY <2>1, <2>2, <2>3, SameFinite, FKeep!SumOfPart
  <2> QED BY <1>1, <1>7, <2>4, SameSum DEF R
<1>21. \A S : Lasts(h, S) = {l[ms] : ms \in S}
  BY DEF Lasts, l
<1>16. k.last[b] = Max(Lasts(h, G))
  <2> DEFINE S == {0} \cup {l[ms] : ms \in F(b)}
             M == Max(S)
             U == {l[ms] : ms \in G}
  <2>0. F(b) \subseteq B
    BY <1>5, <1>7
  <2>1. S \in SUBSET (0 .. now) /\ S # {}
    BY <1>3, <2>0
  <2>2. M \in S /\ \A y \in S : y <= M
    <3> HIDE DEF S
    <3> QED BY <2>1, SameMax, FKeep!MaxOfIndices
  <2>3. U \subseteq 0 .. now /\ U \in SUBSET Int
    BY <1>3, <1>14
  <2>4. M \in 0 .. now
    BY <2>1, <2>2
  <2>5. ASSUME NEW y \in U PROVE y <= M
    <3>1. PICK x \in G : y = l[x]
      OBVIOUS
    <3>2. CASE x \in F(b)
      BY <2>2, <3>1, <3>2
    <3>3. CASE x \notin F(b)
      <4>1. y = 0
        BY <1>3, <1>13, <1>14, <3>1, <3>3
      <4> QED BY <2>4, <4>1
    <3> QED BY <3>2, <3>3
  <2>6. M \in U
    <3>1. CASE \E x \in F(b) : M = l[x]
      BY <1>11, <3>1
    <3>2. CASE ~\E x \in F(b) : M = l[x]
      <4>1. M = 0
        BY <2>2, <3>2
      <4>2. PICK x \in F(b) : TRUE
        BY <1>7, <1>9
      <4>3. l[x] \in S /\ l[x] \in 0 .. now /\ l[x] <= M
        BY <2>1, <2>2
      <4>4. l[x] = 0
        BY <4>1, <4>3
      <4>5. x \in G
        BY <1>11
      <4> QED BY <4>1, <4>4, <4>5
    <3> QED BY <3>1, <3>2
  <2>7. k.last[b] = M
    BY <1>1, <1>7, <1>21
  <2> HIDE DEF M, U
  <2>8. FKeep!Max(U) = M
    BY <2>3, <2>5, <2>6, FKeep!MaxIs
  <2> QED BY <1>21, <2>7, <2>8, SameMax DEF U
<1> QED BY <1>15, <1>16 DEF G, f

(* What a summary prints.                                                  *)
SummaryTrue ==
  /\ printed'.total = hist.total
  /\ \A row \in printed'.rows :
       LET group == {ms \in BucketsOf(hist) :
                       ms <= row[1] /\ \A r \in printed'.rows : r[1] < row[1] => ms > r[1]}
       IN  /\ row[2] = MapThenSumSet(LAMBDA ms : hist.count[ms], group)
           /\ row[3] = Max({hist.last[ms] : ms \in group})

LEMMA SummaryTold == HistInv /\ PrintSummary /\ printed' # printed => SummaryTrue
<1> SUFFICES ASSUME HistInv, PrintSummary, printed' # printed PROVE SummaryTrue
  OBVIOUS
<1>1. histNow \in Nat /\ IsHist(hist, histNow) /\ hist.total = Counts(hist)
  BY DEF HistInv, HistCountsAll, PrintSummary, Allocated, NullHist
<1>2. PICK fsize \in HistSizes : fsize # 0 /\ printed' = [Shown(Summary(hist, fsize)) EXCEPT !.size = fsize]
  BY DEF PrintSummary
<1> DEFINE h == hist
           k == Summary(hist, fsize)
           B == h.min .. h.max
           P == printed'
           R == {<<ms, k.count[ms], k.last[ms]>> : ms \in {b \in BucketsOf(k) : k.count[b] > 0}}
<1>3. fsize \in Nat \ {0}
  BY <1>2, HistAssumption
<1>4. P.rows = R /\ P.total = Counts(k)
  <2> HIDE DEF k
  <2>1. Shown(k) = [rows |-> R, total |-> Counts(k), miss |-> k.miss, size |-> 1]
    BY DEF Shown
  <2>2. P = [Shown(k) EXCEPT !.size = fsize]
    BY <1>2 DEF k
  <2> HIDE DEF R, P
  <2> QED BY <2>1, <2>2
<1>5. k.min = h.min /\ k.max = h.max
  BY <1>1, <1>3, SummaryIs
<1>6. Counts(k) = Counts(h)
  BY <1>1, <1>3, SummaryWhole
<1>7. R = {<<ms, k.count[ms], k.last[ms]>> : ms \in {b \in B : k.count[b] > 0}}
  BY <1>5 DEF BucketsOf
<1>8. ASSUME NEW b \in B, k.count[b] > 0
      PROVE  k.count[b] = SumFunctionOnSet(h.count, Group(h, k, b))
             /\ k.last[b] = Max(Lasts(h, Group(h, k, b)))
  <2> DEFINE now == histNow
  <2>1. now \in Nat /\ IsHist(h, now)
    BY <1>1
  <2>2. k = Summary(h, fsize)
    OBVIOUS
  <2> HIDE DEF now, h, k
  <2> QED BY <1>3, <1>8, <2>1, <2>2, RowTrue
<1>9. ASSUME NEW row \in P.rows
      PROVE  LET group == {ms \in BucketsOf(hist) :
                             ms <= row[1] /\ \A r \in P.rows : r[1] < row[1] => ms > r[1]}
             IN  /\ row[2] = MapThenSumSet(LAMBDA ms : hist.count[ms], group)
                 /\ row[3] = Max({hist.last[ms] : ms \in group})
  <2> DEFINE group == {ms \in BucketsOf(hist) : ms <= row[1] /\ \A r \in P.rows : r[1] < row[1] => ms > r[1]}
  <2> HIDE DEF P, k
  <2>1. PICK b \in B : k.count[b] > 0 /\ row = <<b, k.count[b], k.last[b]>>
    BY <1>4, <1>7, <1>9
  <2>2. group = Group(h, k, b)
    <3>1. \A ms : (\A r \in P.rows : r[1] < b => ms > r[1]) <=> (\A c \in B : k.count[c] > 0 /\ c < b => ms > c)
      <4> SUFFICES ASSUME NEW ms
                   PROVE  (\A r \in R : r[1] < b => ms > r[1]) <=> (\A c \in B : k.count[c] > 0 /\ c < b => ms > c)
        BY <1>4
      <4>1. ASSUME \A r \in R : r[1] < b => ms > r[1], NEW c \in B, k.count[c] > 0, c < b PROVE ms > c
        <5>1. <<c, k.count[c], k.last[c]>> \in R
          BY <1>7, <4>1
        <5> QED BY <4>1, <5>1
      <4>2. ASSUME \A c \in B : k.count[c] > 0 /\ c < b => ms > c, NEW r \in R, r[1] < b PROVE ms > r[1]
        <5>1. PICK c \in B : k.count[c] > 0 /\ r = <<c, k.count[c], k.last[c]>>
          BY <1>7, <4>2
        <5> QED BY <4>2, <5>1
      <4> QED BY <4>1, <4>2
    <3>2. row[1] = b
      BY <2>1
    <3> QED BY <3>1, <3>2 DEF Group, BucketsOf
  <2>3. row[2] = k.count[b] /\ row[3] = k.last[b]
    BY <2>1
  <2>4. MapThenSumSet(LAMBDA ms : hist.count[ms], group) = SumFunctionOnSet(hist.count, group)
    BY DEF MapThenSumSet, SumFunctionOnSet, FoldFunctionOnSet
  <2>5. /\ row[2] = MapThenSumSet(LAMBDA ms : hist.count[ms], group)
        /\ row[3] = Max({hist.last[ms] : ms \in group})
    <3>1. Lasts(hist, group) = {hist.last[ms] : ms \in group}
      BY DEF Lasts
    <3> HIDE DEF group
    <3> QED BY <1>8, <2>1, <2>2, <2>3, <2>4, <3>1
  <2> QED BY <2>5
<1> QED BY <1>1, <1>4, <1>6, <1>9 DEF SummaryTrue

-----------------------------------------------------------------------------
(* All of them together: a step of the system is a step of one object and  *)
(* leaves the others alone.                                                *)
MetersInv == ClockInv /\ HistInv /\ HrInv /\ TpInv /\ ReframerInv

LEMMA OneMoves ==
  [Next]_allVars => /\ [ClockNext]_clockVars /\ [HistNext]_histVars /\ [MeterNext]_meterVars
                    /\ [HistoryNext]_historyVars /\ [ReframerNext]_reframerVars
BY DEF Next, allVars

LEMMA ReframerInvStep == ReframerInv /\ [ReframerNext]_reframerVars => ReframerInv'
<1>1. ReframerInv /\ UNCHANGED reframerVars => ReframerInv'
  BY DEF ReframerInv, reframerVars
<1> QED BY <1>1, ReframerStep

LEMMA MetersInductive == Spec => []MetersInv
<1>1. Init => MetersInv
  BY ClockInitInv, HistInvInit, HrInvInit, TpInvInit, ReframerInvInit DEF Init, MetersInv
<1>2. MetersInv /\ [Next]_allVars => MetersInv'
  BY OneMoves, ClockStepInv, HistInvStep, HrInvStep, TpInvStep, ReframerInvStep
     DEF MetersInv
<1> QED BY <1>1, <1>2, PTL DEF Spec

(* Every sample offered to a histogram is counted once, every item of the  *)
(* high resolution meter is in one of its lists, and a sum over a window   *)
(* is the sum of its samples, whichever of the two expiries is meant.      *)
THEOREM MetersHold == Spec => []MetersHoldAll
<1>1. MetersInv => MetersHoldAll
  BY DEF MetersInv, HistInv, HrInv, MetersHoldAll
<1> QED BY <1>1, MetersInductive, PTL

(* What the calls return, print or pass on is so: the clock never goes     *)
(* back and its drift is true, a summary neither loses nor repeats a       *)
(* sample, a rate is that of the last second, and frames carry the bytes   *)
(* written.                                                                *)
THEOREM MetersTrue == Spec => MetersTellTrue
<1> DEFINE Told ==
       LET n == Len(bySecond)
       IN  got'.value = IF meterNow > tp.last + 2 \/ n < 2 THEN 0 ELSE bySecond[n - 1][2]
<1>1. Spec => HistSummaryConserves
  <2>1. MetersInv /\ [Next]_allVars => [PrintSummary /\ printed' # printed => SummaryTrue]_histVars
    BY SummaryTold DEF MetersInv
  <2> QED BY <2>1, MetersInductive, PTL DEF Spec, HistSummaryConserves, SummaryTrue
<1>2. Spec => TpIsLastSecond
  <2>1. MetersInv /\ [Next]_allVars => [TpQuery /\ got'.op = "value" => Told]_meterVars
    BY TpTold DEF MetersInv
  <2> QED BY <2>1, MetersInductive, PTL DEF Spec, TpIsLastSecond
<1>3. Spec => ReframerKeepsBytes
  <2>1. MetersInv /\ [Next]_allVars => [Kept]_reframerVars
    BY OneMoves, ReframerStep DEF MetersInv
  <2> QED BY <2>1, MetersInductive, PTL DEF Spec, ReframerKeepsBytes, Kept
<1>4. Spec => ClockSpec
  <2>1. Init => ClockInit
    BY DEF Init
  <2>2. [Next]_allVars => [ClockNext]_clockVars
    BY OneMoves
  <2> QED BY <2>1, <2>2, PTL DEF Spec, ClockSpec
<1> QED BY <1>1, <1>2, <1>3, <1>4, MonotonicNeverBack, DriftIsTrue, PTL DEF MetersTellTrue
=============================================================================

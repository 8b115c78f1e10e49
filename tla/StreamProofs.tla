----------------------------- MODULE StreamProofs -----------------------------
(***************************************************************************)
(* Proofs about the measured and the monitored stream (MCStream), for any  *)
(* buffers, programs, PIDs and thresholds.  First what each part of an     *)
(* update does to the counts of the stream and of its PIDs, then the folds *)
(* over the packets of a buffer (by induction, DataLemmas), then the       *)
(* inductive invariants: SInv of the counts, RateInv of the rates, MInv of *)
(* the monitor.                                                            *)
(***************************************************************************)
EXTENDS MCStream, FiniteSetTheorems, SequenceTheorems, TLAPS

-----------------------------------------------------------------------------
(* The statistics object, as far as the properties look at it.             *)
Top == {"st", "bc", "pids", "array", "on", "heard"}
Five == {"cc", "tei", "scr", "exc", "pusiErr"}
Six == {"pkts", "cc", "tei", "scr", "exc", "pusiErr"}
StOther == {"pkts", "at", "pps", "win", "seq", "BpsAt", "Bwin", "ambps", "abps"}
Errs == {"CC_COUNT", "TEI_COUNT", "SCRAMBLED_COUNT"}

IsStream(s) ==
  /\ Five \subseteq DOMAIN s /\ StOther \subseteq DOMAIN s
  /\ \A c \in Six : s[c] \in Int
IsPid(p) ==
  /\ Six \subseteq DOMAIN p /\ {"lastCC", "at"} \subseteq DOMAIN p
  /\ \A c \in Six : p[c] \in Int
IsHeard(h) == DOMAIN h = Events /\ \A e \in Events : h[e] \in Int
IsStats(X) ==
  /\ Top \subseteq DOMAIN X
  /\ IsStream(X.st)
  /\ DOMAIN X.pids \subseteq Pids /\ \A q \in DOMAIN X.pids : IsPid(X.pids[q])
  /\ IsHeard(X.heard)

(* What the counting of one packet of pid may do to it, in parts.          *)
Does(X, Y, pid) ==
  /\ IsStats(Y)
  /\ Y.on = X.on /\ Y.bc = X.bc /\ Y.array = X.array
  /\ DOMAIN Y.pids = DOMAIN X.pids /\ \A q \in DOMAIN X.pids \ {pid} : Y.pids[q] = X.pids[q]
  /\ \A f \in StOther : Y.st[f] = X.st[f]
  /\ \A c \in Five : Y.st[c] - X.st[c] = Y.pids[pid][c] - X.pids[pid][c]
  /\ \A e \in X.on \cap Errs : Y.heard[e] - ValueOf(Y, e) = X.heard[e] - ValueOf(X, e)

LEMMA DoesMore ==
  ASSUME NEW X, NEW Y, NEW Z, NEW pid, IsStats(X), pid \in DOMAIN X.pids,
         Does(X, Y, pid), Does(Y, Z, pid)
  PROVE  Does(X, Z, pid)
<1>1. \A T : IsStats(T) => \A c \in Five : T.st[c] \in Int /\ (pid \in DOMAIN T.pids => T.pids[pid][c] \in Int)
  BY DEF IsStats, IsStream, IsPid, Five, Six
<1>2. \A T : IsStats(T) => \A e \in Errs : T.heard[e] \in Int /\ ValueOf(T, e) \in Int
  BY DEF IsStats, IsStream, IsHeard, Errs, Events, Six, ValueOf
<1>3. ASSUME NEW c \in Five PROVE Z.st[c] - X.st[c] = Z.pids[pid][c] - X.pids[pid][c]
  BY <1>1 DEF Does
<1>4. ASSUME NEW e \in X.on \cap Errs PROVE Z.heard[e] - ValueOf(Z, e) = X.heard[e] - ValueOf(X, e)
  BY <1>2 DEF Does
<1> QED BY <1>3, <1>4 DEF Does

LEMMA Notified ==
  ASSUME NEW X, IsStats(X), NEW e \in Events
  PROVE  LET Y == Notify(X, e)
         IN  /\ IsStats(Y) /\ Y.st = X.st /\ Y.bc = X.bc /\ Y.pids = X.pids /\ Y.array = X.array
             /\ Y.on = X.on
             /\ \A d \in Events : Y.heard[d] = X.heard[d] + IF d = e /\ e \in X.on THEN 1 ELSE 0
<1>1. CASE e \in X.on
  <2>1. Notify(X, e) = [X EXCEPT !.heard[e] = @ + 1]
    BY <1>1 DEF Notify
  <2> QED BY <1>1, <2>1 DEF IsStats, IsHeard, Top
<1>2. CASE e \notin X.on
  BY <1>2 DEF Notify, IsStats, IsHeard
<1> QED BY <1>1, <1>2

(* Listeners of other events do not matter.                                *)
LEMMA NotifiedDoes ==
  ASSUME NEW X, NEW Y, NEW pid, NEW e \in Events \ Errs, IsStats(X), Does(X, Y, pid)
  PROVE  Does(X, Notify(Y, e), pid) /\ Notify(Y, e).pids = Y.pids /\ Notify(Y, e).st = Y.st
<1>1. IsStats(Y)
  BY DEF Does
<1> DEFINE Z == Notify(Y, e)
<1>2. /\ IsStats(Z) /\ Z.st = Y.st /\ Z.bc = Y.bc /\ Z.pids = Y.pids /\ Z.array = Y.array
      /\ Z.on = Y.on
      /\ \A d \in Events : Z.heard[d] = Y.heard[d] + IF d = e /\ e \in Y.on THEN 1 ELSE 0
  BY <1>1, Notified
<1> HIDE DEF Z
<1>3. \A d \in Errs : Z.heard[d] = Y.heard[d] /\ ValueOf(Z, d) = ValueOf(Y, d)
  BY <1>1, <1>2 DEF Errs, Events, ValueOf, IsStats, IsHeard
<1>4. Does(X, Z, pid)
  BY <1>2, <1>3 DEF Does
<1> QED BY <1>2, <1>4 DEF Z

-----------------------------------------------------------------------------
LEMMA PusiDoes ==
  ASSUME NEW X, IsStats(X), NEW pkt \in Packets, pkt.pid \in DOMAIN X.pids, NEW at
  PROVE  LET Y == Pusi(X, pkt, at)
         IN  /\ Does(X, Y, pkt.pid)
             /\ Y.pids[pkt.pid].pkts = X.pids[pkt.pid].pkts + 1
             /\ \A f \in {"cc", "scr", "lastCC", "at"} : Y.pids[pkt.pid][f] = X.pids[pkt.pid][f]
<1> DEFINE pid == pkt.pid
           p == X.pids[pkt.pid]
           bad == Bump(IsPayloadPUSIInError(pkt))
           whole == pkt.pusi /\ p.first >= TickRate /\ p.cur >= TickRate
           q == [p EXCEPT !.pkts = @ + 1, !.pusiErr = @ + bad,
                        !.ms = IF whole THEN p.cur - p.first ELSE @,
                        !.first = IF pkt.pusi THEN at ELSE @, !.cur = at]
           s == [X.st EXCEPT !.pusiErr = @ + bad]
           Y == [X EXCEPT !.st = s, !.pids[pid] = q]
<1>1. bad \in Int
  BY DEF Bump
<1>2. Pusi(X, pkt, at) = IF whole THEN Notify(Y, "PUSI_DELIVERY_TIME") ELSE Y
  BY DEF Pusi
<1>3. IsPid(p) /\ IsStream(X.st)
  BY DEF IsStats
<1>4. IsPid(q) /\ q.pkts = p.pkts + 1 /\ (\A f \in {"cc", "tei", "scr", "exc", "lastCC", "at"} : q[f] = p[f])
      /\ q.pusiErr = p.pusiErr + bad
  <2> HIDE DEF p, bad, whole
  <2> QED BY <1>1, <1>3 DEF IsPid, Six
<1>5. IsStream(s) /\ (\A f \in StOther : s[f] = X.st[f]) /\ (\A k \in Five \ {"pusiErr"} : s[k] = X.st[k])
      /\ s.pusiErr = X.st.pusiErr + bad
  <2> HIDE DEF bad
  <2> QED BY <1>1, <1>3 DEF IsStream, Six, Five, StOther
<1> HIDE DEF s, q, bad, whole
<1>6. \A k \in Five \ {"pusiErr"} : q[k] = p[k]
  BY <1>4 DEF Five
<1>7. Does(X, Y, pid) /\ Y.pids[pid] = q
  <2>1. Y.st = s /\ Y.pids[pid] = q /\ Y.heard = X.heard
        /\ IsStats(Y) /\ Y.on = X.on /\ Y.bc = X.bc /\ Y.array = X.array
        /\ DOMAIN Y.pids = DOMAIN X.pids /\ \A r \in DOMAIN X.pids \ {pid} : Y.pids[r] = X.pids[r]
    BY <1>4, <1>5 DEF IsStats, Top
  <2> HIDE DEF Y
  <2>2. \A k \in Five : X.st[k] \in Int /\ p[k] \in Int
    BY <1>3 DEF IsStream, IsPid, Five, Six
  <2>3. \A k \in Five : Y.st[k] - X.st[k] = Y.pids[pid][k] - X.pids[pid][k]
    BY <1>1, <1>4, <1>5, <1>6, <2>1, <2>2
  <2>4. \A e \in Errs : ValueOf(Y, e) = ValueOf(X, e)
    BY <1>5, <2>1 DEF ValueOf, Errs, Five
  <2> QED BY <1>5, <2>1, <2>3, <2>4 DEF Does
<1> HIDE DEF Y
<1>8. "PUSI_DELIVERY_TIME" \in Events \ Errs
  BY DEF Events, Errs
<1>9. Does(X, Notify(Y, "PUSI_DELIVERY_TIME"), pid) /\ Notify(Y, "PUSI_DELIVERY_TIME").pids = Y.pids
  BY <1>7, <1>8, NotifiedDoes
<1> QED BY <1>2, <1>4, <1>7, <1>9

LEMMA WindowDoes ==
  ASSUME NEW X, IsStats(X), NEW pkt \in Packets, pkt.pid \in DOMAIN X.pids, NEW at
  PROVE  LET Y == PidWindow(X, pkt, at)
         IN  /\ Does(X, Y, pkt.pid) /\ Y.pids[pkt.pid].at = SecondOf(at)
             /\ \A f \in {"pkts", "cc", "scr", "lastCC"} : Y.pids[pkt.pid][f] = X.pids[pkt.pid][f]
<1> DEFINE pid == pkt.pid
           p == X.pids[pkt.pid]
           turned == IF SecondOf(at) = p.at THEN p
                     ELSE [p EXCEPT !.pps = p.win, !.win = 0, !.at = SecondOf(at)]
           q == [turned EXCEPT !.win = @ + 1]
           Y == [X EXCEPT !.pids[pid] = q]
<1>1. IsPid(p) /\ IsStream(X.st)
  BY DEF IsStats
<1>2. IsPid(turned) /\ turned.at = SecondOf(at) /\ \A f \in {"pkts", "cc", "tei", "scr", "exc", "pusiErr", "lastCC"} : turned[f] = p[f]
  <2> HIDE DEF p
  <2> QED BY <1>1 DEF IsPid, Six
<1>3. IsPid(q) /\ q.at = SecondOf(at) /\ \A f \in {"pkts", "cc", "tei", "scr", "exc", "pusiErr", "lastCC"} : q[f] = p[f]
  <2> HIDE DEF p, turned
  <2> QED BY <1>1, <1>2 DEF IsPid, Six
<1> HIDE DEF q, turned
<1>4. Y.st = X.st /\ Y.pids[pid] = q /\ Y.heard = X.heard
      /\ IsStats(Y) /\ Y.on = X.on /\ Y.bc = X.bc /\ Y.array = X.array
      /\ DOMAIN Y.pids = DOMAIN X.pids /\ \A r \in DOMAIN X.pids \ {pid} : Y.pids[r] = X.pids[r]
  BY <1>3 DEF IsStats, Top
<1> HIDE DEF Y
<1>5. \A k \in Five : Y.st[k] - X.st[k] = Y.pids[pid][k] - X.pids[pid][k]
  <2>1. \A k \in Five : X.st[k] \in Int /\ p[k] \in Int /\ q[k] = p[k]
    BY <1>1, <1>3 DEF IsStream, IsPid, Five, Six
  <2> QED BY <1>4, <2>1
<1>6. \A e \in Errs : ValueOf(Y, e) = ValueOf(X, e)
  BY <1>4 DEF ValueOf
<1>7. Does(X, Y, pid)
  BY <1>4, <1>5, <1>6 DEF Does
<1>8. PidWindow(X, pkt, at) = Y
  BY DEF PidWindow, Y, q, turned
<1> QED BY <1>3, <1>4, <1>7, <1>8

(* An error that is counted for the stream and the PID, and its listeners  *)
(* hear of it.                                                             *)
Pairing(c, e) ==
  <<c, e>> \in {<<"cc", "CC_COUNT">>, <<"tei", "TEI_COUNT">>, <<"scr", "SCRAMBLED_COUNT">>}

LEMMA ErrorDoes ==
  ASSUME NEW X, IsStats(X), NEW pid \in DOMAIN X.pids, NEW c, NEW e, Pairing(c, e),
         NEW T, IsStats(T), T.on = X.on, T.bc = X.bc, T.array = X.array, T.heard = X.heard,
         DOMAIN T.pids = DOMAIN X.pids, \A q \in DOMAIN X.pids \ {pid} : T.pids[q] = X.pids[q],
         \A f \in StOther : T.st[f] = X.st[f],
         \A k \in Five : T.st[k] = X.st[k] + IF k = c THEN 1 ELSE 0,
         \A k \in Five : T.pids[pid][k] = X.pids[pid][k] + IF k = c THEN 1 ELSE 0
  PROVE  LET Y == Notify(T, e)
         IN  Does(X, Y, pid) /\ Y.pids = T.pids /\ Y.st = T.st
<1> DEFINE Y == Notify(T, e)
<1>1. e \in Events /\ e \in Errs /\ c \in Five
  BY DEF Pairing, Events, Errs, Five
<1>2. /\ IsStats(Y) /\ Y.st = T.st /\ Y.bc = T.bc /\ Y.pids = T.pids /\ Y.array = T.array
      /\ Y.on = T.on
      /\ \A d \in Events : Y.heard[d] = T.heard[d] + IF d = e /\ e \in T.on THEN 1 ELSE 0
  BY <1>1, Notified
<1> HIDE DEF Y
<1>3. \A k \in Five : X.st[k] \in Int /\ X.pids[pid][k] \in Int
  BY DEF IsStats, IsStream, IsPid, Five, Six
<1>4. \A k \in Five : Y.st[k] - X.st[k] = Y.pids[pid][k] - X.pids[pid][k]
  BY <1>2, <1>3
<1>5. ASSUME NEW d \in X.on \cap Errs
      PROVE  Y.heard[d] - ValueOf(Y, d) = X.heard[d] - ValueOf(X, d)
  <2>1. ValueOf(Y, d) = ValueOf(X, d) + IF d = e THEN 1 ELSE 0
    BY <1>2, <1>3 DEF ValueOf, Errs, Five, Pairing
  <2>2. Y.heard[d] = X.heard[d] + IF d = e THEN 1 ELSE 0
    BY <1>2 DEF Errs, Events
  <2>3. X.heard[d] \in Int /\ ValueOf(X, d) \in Int
    BY <1>3 DEF ValueOf, Errs, Five, IsStats, IsHeard, Events
  <2> QED BY <2>1, <2>2, <2>3
<1>6. Does(X, Y, pid)
  BY <1>2, <1>4, <1>5 DEF Does
<1> QED BY <1>2, <1>6 DEF Y

LEMMA DoesNothing == ASSUME NEW X, IsStats(X), NEW pid \in DOMAIN X.pids PROVE Does(X, X, pid)
<1>1. \A k \in Five : X.st[k] \in Int /\ X.pids[pid][k] \in Int
  BY DEF IsStats, IsStream, IsPid, Five, Six
<1> QED BY <1>1 DEF Does

LossHere(X, pkt) ==
  LET p == X.pids[pkt.pid]
  IN  IsCCInError(pkt, p.lastCC) /\ p.pkts > 1 /\ pkt.pid # NullPid

LEMMA CcCounted ==
  ASSUME NEW X, IsStats(X), NEW at
  PROVE  LET Y == StreamCcError(X, at)
         IN  /\ IsStats(Y) /\ Y.bc = X.bc /\ Y.pids = X.pids /\ Y.array = X.array /\ Y.on = X.on
             /\ \A f \in StOther : Y.st[f] = X.st[f]
             /\ \A k \in Five : Y.st[k] = X.st[k] + IF k = "cc" THEN 1 ELSE 0
             /\ \A e \in X.on \cap Errs : Y.heard[e] - ValueOf(Y, e) = X.heard[e] - ValueOf(X, e)
<1> DEFINE z == X.st
           s == [z EXCEPT !.cc = @ + 1, !.ccAt = SecondOf(at), !.history = @ + 1]
           T == [X EXCEPT !.st = s]
           Y == Notify(T, "CC_COUNT")
<1>1. StreamCcError(X, at) = Y
  BY DEF StreamCcError, IsStats, Top
<1>2. IsStream(z)
  BY DEF IsStats
<1>3. IsStream(s) /\ (\A f \in StOther : s[f] = z[f]) /\ \A k \in Five : s[k] = z[k] + IF k = "cc" THEN 1 ELSE 0
  <2> HIDE DEF z
  <2> QED BY <1>2 DEF IsStream, Six, Five, StOther
<1> HIDE DEF s
<1>4. T.st = s /\ T.heard = X.heard /\ IsStats(T) /\ T.on = X.on /\ T.bc = X.bc /\ T.array = X.array
      /\ T.pids = X.pids
  BY <1>3 DEF IsStats, Top
<1> HIDE DEF T
<1>5. /\ IsStats(Y) /\ Y.st = T.st /\ Y.bc = T.bc /\ Y.pids = T.pids /\ Y.array = T.array
      /\ Y.on = T.on
      /\ \A d \in Events : Y.heard[d] = T.heard[d] + IF d = "CC_COUNT" /\ "CC_COUNT" \in T.on THEN 1 ELSE 0
  <2>1. "CC_COUNT" \in Events
    BY DEF Events
  <2> QED BY <1>4, <2>1, Notified
<1> HIDE DEF Y
<1>6. ASSUME NEW d \in X.on \cap Errs
      PROVE  Y.heard[d] - ValueOf(Y, d) = X.heard[d] - ValueOf(X, d)
  <2>1. \A k \in Five : z[k] \in Int
    BY <1>2 DEF IsStream, Five, Six
  <2>2. ValueOf(Y, d) = ValueOf(X, d) + IF d = "CC_COUNT" THEN 1 ELSE 0
    BY <1>3, <1>4, <1>5, <2>1 DEF ValueOf, Errs, Five
  <2>3. Y.heard[d] = X.heard[d] + IF d = "CC_COUNT" THEN 1 ELSE 0
    BY <1>4, <1>5 DEF Errs, Events
  <2>4. X.heard[d] \in Int /\ ValueOf(X, d) \in Int
    BY <2>1 DEF ValueOf, Errs, Five, IsStats, IsHeard, Events
  <2> QED BY <2>2, <2>3, <2>4
<1> QED BY <1>1, <1>3, <1>4, <1>5, <1>6

LEMMA ContinuityDoes ==
  ASSUME NEW X, IsStats(X), NEW pkt \in Packets, pkt.pid \in DOMAIN X.pids, NEW at
  PROVE  LET Y == Continuity(X, pkt, at)
         IN  /\ Does(X, Y, pkt.pid)
             /\ \A f \in {"pkts", "scr", "lastCC", "at"} : Y.pids[pkt.pid][f] = X.pids[pkt.pid][f]
             /\ Y.pids[pkt.pid].cc = X.pids[pkt.pid].cc + IF LossHere(X, pkt) THEN 1 ELSE 0
<1> DEFINE pid == pkt.pid
           p == X.pids[pkt.pid]
           q == [p EXCEPT !.cc = @ + 1]
           T == [X EXCEPT !.pids[pid] = q]
           Y == StreamCcError(T, at)
<1>1. IsPid(p) /\ IsStream(X.st)
  BY DEF IsStats
<1>2. CASE ~LossHere(X, pkt)
  <2>1. Continuity(X, pkt, at) = X
    BY <1>2 DEF LossHere, Continuity
  <2>2. p.cc = p.cc + 0
    BY <1>1 DEF IsPid, Six
  <2> QED BY <1>2, <2>1, <2>2, DoesNothing
<1>3. CASE LossHere(X, pkt)
  <2>1. Continuity(X, pkt, at) = Y
    BY <1>3 DEF LossHere, Continuity
  <2>2. IsPid(q) /\ (\A f \in {"pkts", "tei", "scr", "exc", "pusiErr", "lastCC", "at"} : q[f] = p[f]) /\ q.cc = p.cc + 1
    <3> HIDE DEF p
    <3> QED BY <1>1 DEF IsPid, Six
  <2> HIDE DEF q
  <2>3. T.st = X.st /\ T.pids[pid] = q /\ T.heard = X.heard
        /\ IsStats(T) /\ T.on = X.on /\ T.bc = X.bc /\ T.array = X.array
        /\ DOMAIN T.pids = DOMAIN X.pids /\ \A r \in DOMAIN X.pids \ {pid} : T.pids[r] = X.pids[r]
    BY <2>2 DEF IsStats, Top
  <2> HIDE DEF T
  <2>4. /\ IsStats(Y) /\ Y.bc = T.bc /\ Y.pids = T.pids /\ Y.array = T.array /\ Y.on = T.on
        /\ \A f \in StOther : Y.st[f] = T.st[f]
        /\ \A k \in Five : Y.st[k] = T.st[k] + IF k = "cc" THEN 1 ELSE 0
        /\ \A e \in T.on \cap Errs : Y.heard[e] - ValueOf(Y, e) = T.heard[e] - ValueOf(T, e)
    BY <2>3, CcCounted
  <2> HIDE DEF Y
  <2>5. \A k \in Five : X.st[k] \in Int /\ p[k] \in Int /\ q[k] = p[k] + IF k = "cc" THEN 1 ELSE 0
    BY <1>1, <2>2 DEF IsStream, IsPid, Five, Six
  <2>6. \A k \in Five : Y.st[k] - X.st[k] = Y.pids[pid][k] - X.pids[pid][k]
    BY <2>3, <2>4, <2>5
  <2>7. \A e \in Errs : ValueOf(T, e) = ValueOf(X, e)
    BY <2>3 DEF ValueOf
  <2>8. Does(X, Y, pid)
    BY <2>3, <2>4, <2>6, <2>7 DEF Does
  <2> QED BY <1>3, <2>1, <2>2, <2>3, <2>4, <2>8
<1> QED BY <1>2, <1>3

LEMMA ScrambledDoes ==
  ASSUME NEW X, IsStats(X), NEW pkt \in Packets, pkt.pid \in DOMAIN X.pids, NEW at
  PROVE  LET Y == Scrambled(X, pkt, at)
         IN  /\ Does(X, Y, pkt.pid) /\ Y.pids[pkt.pid].lastCC = pkt.cc
             /\ \A f \in {"pkts", "cc", "at"} : Y.pids[pkt.pid][f] = X.pids[pkt.pid][f]
             /\ Y.pids[pkt.pid].scr = X.pids[pkt.pid].scr + IF pkt.sc = 0 THEN 0 ELSE 1
<1> DEFINE pid == pkt.pid
           p == X.pids[pkt.pid]
           n == IF pkt.sc = 0 THEN 0 ELSE 1
           o == [p EXCEPT !.lastCC = pkt.cc]
           q == [o EXCEPT !.scr = @ + 1]
           z == X.st
           s == [z EXCEPT !.scr = @ + 1]
           L == [X EXCEPT !.pids[pid] = o]
           T == [L EXCEPT !.st.scr = @ + 1, !.pids[pid].scr = @ + 1]
           Y == Notify(T, "SCRAMBLED_COUNT")
<1>1. IsPid(p) /\ IsStream(X.st)
  BY DEF IsStats
<1>2. IsPid(o) /\ o.lastCC = pkt.cc /\ (\A f \in {"pkts", "cc", "tei", "scr", "exc", "pusiErr", "at"} : o[f] = p[f])
  <2> HIDE DEF p
  <2> QED BY <1>1 DEF IsPid, Six
<1>3. IsPid(q) /\ q.lastCC = pkt.cc /\ (\A f \in {"pkts", "cc", "tei", "exc", "pusiErr", "at"} : q[f] = p[f])
      /\ q.scr = p.scr + 1
  <2> HIDE DEF p, o
  <2> QED BY <1>1, <1>2 DEF IsPid, Six
<1>4. IsStream(s) /\ (\A f \in StOther : s[f] = z[f]) /\ \A k \in Five : s[k] = z[k] + IF k = "scr" THEN 1 ELSE 0
  <2>1. IsStream(z)
    BY <1>1
  <2> HIDE DEF z
  <2> QED BY <2>1 DEF IsStream, Six, Five, StOther
<1>5. Scrambled(X, pkt, at) = IF pkt.sc = 0 THEN L ELSE Y
  BY DEF Scrambled
<1> HIDE DEF o
<1>20. L.st = X.st /\ L.pids[pid] = o /\ L.heard = X.heard
      /\ IsStats(L) /\ L.on = X.on /\ L.bc = X.bc /\ L.array = X.array
      /\ DOMAIN L.pids = DOMAIN X.pids /\ \A r \in DOMAIN X.pids \ {pid} : L.pids[r] = X.pids[r]
  BY <1>2 DEF IsStats, Top
<1> HIDE DEF L
<1>21. T.st = s /\ T.pids[pid] = q /\ T.heard = L.heard
      /\ T.on = L.on /\ T.bc = L.bc /\ T.array = L.array /\ DOMAIN T = DOMAIN L
      /\ DOMAIN T.pids = DOMAIN L.pids /\ \A r \in DOMAIN L.pids \ {pid} : T.pids[r] = L.pids[r]
  BY <1>20 DEF IsStats, Top
<1> HIDE DEF q, s
<1>6. CASE pkt.sc = 0
  <2>2. \A k \in Five : L.st[k] - X.st[k] = L.pids[pid][k] - X.pids[pid][k]
    <3>1. \A k \in Five : X.st[k] \in Int /\ p[k] \in Int /\ o[k] = p[k]
      BY <1>1, <1>2 DEF IsStream, IsPid, Five, Six
    <3> QED BY <1>20, <3>1
  <2>3. \A e \in Errs : ValueOf(L, e) = ValueOf(X, e)
    BY <1>20 DEF ValueOf
  <2>4. Does(X, L, pid)
    BY <1>20, <2>2, <2>3 DEF Does
  <2>5. p.scr = p.scr + 0
    BY <1>1 DEF IsPid, Six
  <2> QED BY <1>2, <1>5, <1>6, <1>20, <2>4, <2>5
<1>7. CASE pkt.sc # 0
  <2>1. T.st = s /\ T.pids[pid] = q /\ T.heard = X.heard
        /\ IsStats(T) /\ T.on = X.on /\ T.bc = X.bc /\ T.array = X.array
        /\ DOMAIN T.pids = DOMAIN X.pids /\ \A r \in DOMAIN X.pids \ {pid} : T.pids[r] = X.pids[r]
    BY <1>3, <1>4, <1>20, <1>21 DEF IsStats
  <2> HIDE DEF T
  <2>2. \A k \in Five : T.st[k] = X.st[k] + IF k = "scr" THEN 1 ELSE 0
    BY <1>4, <2>1
  <2>3. \A k \in Five : p[k] \in Int
    BY <1>1 DEF IsPid, Five, Six
  <2>4. \A k \in Five : T.pids[pid][k] = X.pids[pid][k] + IF k = "scr" THEN 1 ELSE 0
    BY <1>3, <2>1, <2>3 DEF Five
  <2>5. Pairing("scr", "SCRAMBLED_COUNT")
    BY DEF Pairing
  <2>6. \A f \in StOther : T.st[f] = X.st[f]
    BY <1>4, <2>1
  <2>7. Does(X, Y, pid) /\ Y.pids = T.pids
    BY <2>1, <2>2, <2>4, <2>5, <2>6, ErrorDoes
  <2> QED BY <1>3, <1>5, <1>7, <2>1, <2>7
<1> QED BY <1>6, <1>7

LEMMA TeiDoes ==
  ASSUME NEW X, IsStats(X), NEW pkt \in Packets, pkt.pid \in DOMAIN X.pids, NEW at
  PROVE  LET Y == Tei(X, pkt, at)
         IN  /\ Does(X, Y, pkt.pid)
             /\ \A f \in {"pkts", "cc", "scr", "lastCC", "at"} : Y.pids[pkt.pid][f] = X.pids[pkt.pid][f]
<1> DEFINE pid == pkt.pid
           p == X.pids[pkt.pid]
           q == [p EXCEPT !.tei = @ + 1]
           z == X.st
           s == [z EXCEPT !.tei = @ + 1]
           T == [X EXCEPT !.st.tei = @ + 1, !.pids[pid].tei = @ + 1]
           Y == Notify(T, "TEI_COUNT")
<1>1. IsPid(p) /\ IsStream(X.st)
  BY DEF IsStats
<1>2. IsPid(q) /\ (\A f \in {"pkts", "cc", "scr", "exc", "pusiErr", "lastCC", "at"} : q[f] = p[f])
      /\ q.tei = p.tei + 1
  <2> HIDE DEF p
  <2> QED BY <1>1 DEF IsPid, Six
<1>3. IsStream(s) /\ (\A f \in StOther : s[f] = z[f]) /\ \A k \in Five : s[k] = z[k] + IF k = "tei" THEN 1 ELSE 0
  <2>1. IsStream(z)
    BY <1>1
  <2> HIDE DEF z
  <2> QED BY <2>1 DEF IsStream, Six, Five, StOther
<1>4. Tei(X, pkt, at) = IF ~pkt.tei THEN X ELSE Y
  BY DEF Tei
<1>5. T.st = s /\ T.pids[pid] = q /\ T.heard = X.heard
      /\ T.on = X.on /\ T.bc = X.bc /\ T.array = X.array /\ DOMAIN T = DOMAIN X
      /\ DOMAIN T.pids = DOMAIN X.pids /\ \A r \in DOMAIN X.pids \ {pid} : T.pids[r] = X.pids[r]
  BY DEF IsStats, Top
<1> HIDE DEF q, s, T
<1>6. CASE ~pkt.tei
  BY <1>4, <1>6, DoesNothing
<1>7. CASE pkt.tei
  <2>1. IsStats(T)
    BY <1>2, <1>3, <1>5 DEF IsStats
  <2>2. \A k \in Five : T.st[k] = X.st[k] + IF k = "tei" THEN 1 ELSE 0
    BY <1>3, <1>5
  <2>3. \A k \in Five : p[k] \in Int
    BY <1>1 DEF IsPid, Five, Six
  <2>4. \A k \in Five : T.pids[pid][k] = X.pids[pid][k] + IF k = "tei" THEN 1 ELSE 0
    BY <1>2, <1>5, <2>3 DEF Five
  <2>5. Pairing("tei", "TEI_COUNT")
    BY DEF Pairing
  <2>6. \A f \in StOther : T.st[f] = X.st[f]
    BY <1>3, <1>5
  <2>7. Does(X, Y, pid) /\ Y.pids = T.pids
    BY <1>5, <2>1, <2>2, <2>4, <2>5, <2>6, ErrorDoes
  <2> QED BY <1>2, <1>4, <1>5, <1>7, <2>7
<1> QED BY <1>6, <1>7

LEMMA PcrDoes ==
  ASSUME NEW X, IsStats(X), NEW pkt \in Packets, pkt.pid \in DOMAIN X.pids, NEW at
  PROVE  LET Y == Pcr(X, pkt, at)
         IN  /\ Does(X, Y, pkt.pid)
             /\ \A f \in {"pkts", "cc", "scr", "lastCC", "at"} : Y.pids[pkt.pid][f] = X.pids[pkt.pid][f]
<1> DEFINE pid == pkt.pid
           p == X.pids[pkt.pid]
           based == IF p.clk.timebase THEN p.clk ELSE EstablishTimebase(Initialized, "PCR")
           walled == IF based.wall THEN based ELSE EstablishWallclock(based, pkt.pcr, at)
           delta == ComputeDelta(walled, pkt.pcr, walled.cur)
           late == delta > PcrLimit
           clock == GetDrift(SetTicks(walled, pkt.pcr, at), at)
           n == Bump(late)
           q == [p EXCEPT !.seen = @ + 1, !.clk = clock, !.drift = clock.drift,
                 !.prevExc = p.exc, !.exc = @ + n, !.ticksH = @ + 1, !.wallH = @ + 1]
           z == X.st
           s == [z EXCEPT !.prevExc = z.exc, !.exc = @ + n]
           T == [X EXCEPT !.st.prevExc = X.st.exc, !.st.exc = @ + n, !.pids[pid] = q]
           U == Notify(T, "PCR_WALLTIME")
           o == [p EXCEPT !.seen = @ + 1]
           W == [X EXCEPT !.pids[pid] = o]
<1>1. IsPid(p) /\ IsStream(X.st)
  BY DEF IsStats
<1>2. Pcr(X, pkt, at) = IF ~p.hasPCR \/ pkt.pcr = -1 THEN X
                        ELSE IF p.seen < PcrWarmup THEN W
                        ELSE IF late THEN Notify(U, "PCR_EXCEEDS_40MS") ELSE U
  BY DEF Pcr
<1>3. n \in Int
  BY DEF Bump
<1> HIDE DEF late, n, clock
<1>4. IsPid(q) /\ (\A f \in {"pkts", "cc", "tei", "scr", "pusiErr", "lastCC", "at"} : q[f] = p[f])
      /\ q.exc = p.exc + n
  <2> HIDE DEF p
  <2> QED BY <1>1, <1>3 DEF IsPid, Six
<1>5. IsStream(s) /\ (\A f \in StOther : s[f] = z[f]) /\ (\A k \in Five \ {"exc"} : s[k] = z[k]) /\ s.exc = z.exc + n
  <2>1. IsStream(z)
    BY <1>1
  <2> DEFINE m == [z EXCEPT !.prevExc = z.exc]
  <2> HIDE DEF z
  <2>2. IsStream(m) /\ (\A f \in StOther : m[f] = z[f]) /\ \A k \in Five : m[k] = z[k]
    BY <2>1 DEF IsStream, Six, Five, StOther
  <2>3. s = [m EXCEPT !.exc = @ + n]
    BY <2>1 DEF IsStream, Five
  <2> HIDE DEF m, s
  <2> QED BY <1>3, <2>2, <2>3 DEF IsStream, Six, Five, StOther
<1>6. IsPid(o) /\ \A f \in {"pkts", "cc", "tei", "scr", "exc", "pusiErr", "lastCC", "at"} : o[f] = p[f]
  <2> HIDE DEF p
  <2> QED BY <1>1 DEF IsPid, Six
<1> HIDE DEF q, s, o
<1>7. T.st = s /\ T.pids[pid] = q /\ T.heard = X.heard
      /\ T.on = X.on /\ T.bc = X.bc /\ T.array = X.array /\ IsStats(T)
      /\ DOMAIN T.pids = DOMAIN X.pids /\ \A r \in DOMAIN X.pids \ {pid} : T.pids[r] = X.pids[r]
  <2>1. T.st = s /\ T.pids = [X.pids EXCEPT ![pid] = q] /\ T.heard = X.heard
        /\ T.on = X.on /\ T.bc = X.bc /\ T.array = X.array /\ DOMAIN T = DOMAIN X
    BY DEF IsStats, Top, s
  <2> HIDE DEF T
  <2> QED BY <1>4, <1>5, <2>1 DEF IsStats, Top
<1>8. W.st = z /\ W.pids[pid] = o /\ W.heard = X.heard
      /\ W.on = X.on /\ W.bc = X.bc /\ W.array = X.array /\ IsStats(W)
      /\ DOMAIN W.pids = DOMAIN X.pids /\ \A r \in DOMAIN X.pids \ {pid} : W.pids[r] = X.pids[r]
  BY <1>6 DEF IsStats, Top
<1> HIDE DEF T, W
<1>9. \A k \in Five : z[k] \in Int /\ p[k] \in Int /\ o[k] = p[k]
  BY <1>1, <1>6 DEF IsStream, IsPid, Five, Six
<1>10. Does(X, W, pid)
  <2>1. \A k \in Five : W.st[k] - X.st[k] = W.pids[pid][k] - X.pids[pid][k]
    BY <1>8, <1>9
  <2>2. \A e \in Errs : ValueOf(W, e) = ValueOf(X, e)
    BY <1>8 DEF ValueOf
  <2> QED BY <1>8, <2>1, <2>2 DEF Does
<1>11. Does(X, T, pid)
  <2>1. \A k \in Five \ {"exc"} : q[k] = p[k]
    BY <1>4 DEF Five
  <2>2. \A k \in Five : T.st[k] - X.st[k] = T.pids[pid][k] - X.pids[pid][k]
    BY <1>3, <1>4, <1>5, <1>7, <1>9, <2>1
  <2>3. \A e \in Errs : ValueOf(T, e) = ValueOf(X, e)
    BY <1>5, <1>7 DEF ValueOf, Errs, Five
  <2> QED BY <1>5, <1>7, <2>2, <2>3 DEF Does
<1>12. {"PCR_WALLTIME", "PCR_EXCEEDS_40MS"} \subseteq Events \ Errs
  BY DEF Events, Errs
<1>13. Does(X, U, pid) /\ U.pids = T.pids
  BY <1>11, <1>12, NotifiedDoes
<1> HIDE DEF U
<1>14. Does(X, Notify(U, "PCR_EXCEEDS_40MS"), pid) /\ Notify(U, "PCR_EXCEEDS_40MS").pids = U.pids
  BY <1>12, <1>13, NotifiedDoes
<1>15. Does(X, X, pid)
  BY DoesNothing
<1> QED BY <1>2, <1>4, <1>6, <1>7, <1>8, <1>10, <1>13, <1>14, <1>15

(* What is counted for a PID, 0 for one that there is no object of.        *)
Val(X, pid, c) == IF pid \in DOMAIN X.pids THEN X.pids[pid][c] ELSE 0

LEMMA Discovered ==
  ASSUME NEW X, IsStats(X), NEW pid \in Pids
  PROVE  LET Y == Discover(X, pid)
         IN  /\ IsStats(Y) /\ Y.st = X.st /\ Y.bc = X.bc /\ Y.on = X.on /\ Y.heard = X.heard
             /\ DOMAIN Y.pids = DOMAIN X.pids \cup {pid}
             /\ \A q \in DOMAIN X.pids : Y.pids[q] = X.pids[q]
             /\ pid \notin DOMAIN X.pids => Y.pids[pid] = PidStart
             /\ Y.array = IF pid \in DOMAIN X.pids THEN X.array ELSE Append(X.array, pid)
             /\ \A c \in {"pkts", "cc", "tei", "scr", "exc", "pusiErr", "at"} :
                  Y.pids[pid][c] = Val(X, pid, c)
<1>1. CASE pid \in DOMAIN X.pids
  BY <1>1 DEF Discover, Val
<1>2. CASE pid \notin DOMAIN X.pids
  <2> DEFINE w == With(X.pids, pid, PidStart)
             Y == [X EXCEPT !.array = Append(X.array, pid), !.pids = w]
  <2>1. Discover(X, pid) = Y
    BY <1>2 DEF Discover
  <2>2. DOMAIN w = DOMAIN X.pids \cup {pid} /\ w[pid] = PidStart /\ \A q \in DOMAIN X.pids : w[q] = X.pids[q]
    BY <1>2 DEF With
  <2>3. IsPid(PidStart) /\ \A c \in {"pkts", "cc", "tei", "scr", "exc", "pusiErr", "at"} : PidStart[c] = 0
    BY DEF PidStart, IsPid, Six
  <2> HIDE DEF w
  <2>4. Y.st = X.st /\ Y.bc = X.bc /\ Y.on = X.on /\ Y.heard = X.heard /\ Y.pids = w
        /\ Y.array = Append(X.array, pid) /\ DOMAIN Y = DOMAIN X
    BY DEF IsStats, Top
  <2> HIDE DEF Y
  <2>5. IsStats(Y)
    BY <2>2, <2>3, <2>4 DEF IsStats
  <2>6. Y.pids[pid] = PidStart
    BY <2>2, <2>4
  <2>7. \A c \in {"pkts", "cc", "tei", "scr", "exc", "pusiErr", "at"} : Y.pids[pid][c] = Val(X, pid, c)
    BY <1>2, <2>3, <2>6 DEF Val
  <2> QED BY <1>2, <2>1, <2>2, <2>4, <2>5, <2>6, <2>7
<1> QED BY <1>1, <1>2

Lost(X, pkt) ==
  /\ pkt.pid \in DOMAIN X.pids /\ X.pids[pkt.pid].pkts > 0 /\ pkt.pid # NullPid
  /\ IsCCInError(pkt, X.pids[pkt.pid].lastCC)

LEMMA PacketFields ==
  ASSUME NEW pkt \in Packets
  PROVE  /\ pkt.pid \in Pids /\ pkt.sync \in BOOLEAN /\ pkt.cc \in 0 .. 15 /\ pkt.adap \in 0 .. 3
         /\ pkt.sc \in 0 .. 3
BY DEF Packets

(* What one packet does to the statistics.                                 *)
LEMMA OnePacketDoes ==
  ASSUME NEW X, IsStats(X), NEW pkt \in Packets, NEW at
  PROVE  LET Y == OnePacket(X, pkt, at)
             pid == pkt.pid
         IN  /\ IsStats(Y) /\ Y.on = X.on /\ Y.bc = X.bc
             /\ DOMAIN Y.pids = DOMAIN X.pids \cup {pid}
             /\ \A q \in DOMAIN X.pids \ {pid} : Y.pids[q] = X.pids[q]
             /\ Y.array = IF pid \in DOMAIN X.pids THEN X.array ELSE Append(X.array, pid)
             /\ \A f \in StOther : Y.st[f] = X.st[f]
             /\ \A c \in Five : Y.st[c] - X.st[c] = Y.pids[pid][c] - Val(X, pid, c)
             /\ \A e \in X.on \cap Errs : Y.heard[e] - ValueOf(Y, e) = X.heard[e] - ValueOf(X, e)
             /\ Y.pids[pid].pkts = Val(X, pid, "pkts") + 1
             /\ Y.pids[pid].lastCC = pkt.cc /\ Y.pids[pid].at = SecondOf(at)
             /\ Y.pids[pid].cc = Val(X, pid, "cc") + IF Lost(X, pkt) THEN 1 ELSE 0
             /\ Y.pids[pid].scr = Val(X, pid, "scr") + IF pkt.sc = 0 THEN 0 ELSE 1
<1> DEFINE pid == pkt.pid
           A == Discover(X, pid)
           B == Pusi(A, pkt, at)
           C == PidWindow(B, pkt, at)
           D == Continuity(C, pkt, at)
           E == Scrambled(D, pkt, at)
           F == Tei(E, pkt, at)
           Y == Pcr(F, pkt, at)
<1>0. OnePacket(X, pkt, at) = Y
  BY DEF OnePacket
<1>1. /\ IsStats(A) /\ A.st = X.st /\ A.bc = X.bc /\ A.on = X.on /\ A.heard = X.heard
      /\ DOMAIN A.pids = DOMAIN X.pids \cup {pid}
      /\ \A q \in DOMAIN X.pids : A.pids[q] = X.pids[q]
      /\ pid \notin DOMAIN X.pids => A.pids[pid] = PidStart
      /\ A.array = IF pid \in DOMAIN X.pids THEN X.array ELSE Append(X.array, pid)
      /\ \A c \in {"pkts", "cc", "tei", "scr", "exc", "pusiErr", "at"} : A.pids[pid][c] = Val(X, pid, c)
  BY PacketFields, Discovered
<1> HIDE DEF A
<1>2. pid \in DOMAIN A.pids
  BY <1>1
<1>3. /\ Does(A, B, pid) /\ B.pids[pid].pkts = A.pids[pid].pkts + 1
      /\ \A f \in {"cc", "scr", "lastCC", "at"} : B.pids[pid][f] = A.pids[pid][f]
  BY <1>1, <1>2, PusiDoes
<1> HIDE DEF B
<1>4. IsStats(B) /\ pid \in DOMAIN B.pids
  BY <1>2, <1>3 DEF Does
<1>5. /\ Does(B, C, pid) /\ C.pids[pid].at = SecondOf(at)
      /\ \A f \in {"pkts", "cc", "scr", "lastCC"} : C.pids[pid][f] = B.pids[pid][f]
  BY <1>4, WindowDoes
<1> HIDE DEF C
<1>6. IsStats(C) /\ pid \in DOMAIN C.pids
  BY <1>4, <1>5 DEF Does
<1>7. /\ Does(C, D, pid)
      /\ \A f \in {"pkts", "scr", "lastCC", "at"} : D.pids[pid][f] = C.pids[pid][f]
      /\ D.pids[pid].cc = C.pids[pid].cc + IF LossHere(C, pkt) THEN 1 ELSE 0
  BY <1>6, ContinuityDoes
<1> HIDE DEF D
<1>8. IsStats(D) /\ pid \in DOMAIN D.pids
  BY <1>6, <1>7 DEF Does
<1>9. /\ Does(D, E, pid) /\ E.pids[pid].lastCC = pkt.cc
      /\ \A f \in {"pkts", "cc", "at"} : E.pids[pid][f] = D.pids[pid][f]
      /\ E.pids[pid].scr = D.pids[pid].scr + IF pkt.sc = 0 THEN 0 ELSE 1
  BY <1>8, ScrambledDoes
<1> HIDE DEF E
<1>10. IsStats(E) /\ pid \in DOMAIN E.pids
  BY <1>8, <1>9 DEF Does
<1>11. /\ Does(E, F, pid)
       /\ \A f \in {"pkts", "cc", "scr", "lastCC", "at"} : F.pids[pid][f] = E.pids[pid][f]
  BY <1>10, TeiDoes
<1> HIDE DEF F
<1>12. IsStats(F) /\ pid \in DOMAIN F.pids
  BY <1>10, <1>11 DEF Does
<1>13. /\ Does(F, Y, pid)
       /\ \A f \in {"pkts", "cc", "scr", "lastCC", "at"} : Y.pids[pid][f] = F.pids[pid][f]
  BY <1>12, PcrDoes
<1> HIDE DEF Y
<1>14. Does(A, Y, pid)
  <2>1. Does(A, C, pid)
    BY <1>1, <1>2, <1>3, <1>5, DoesMore
  <2>2. Does(A, D, pid)
    BY <1>1, <1>2, <1>7, <2>1, DoesMore
  <2>3. Does(A, E, pid)
    BY <1>1, <1>2, <1>9, <2>2, DoesMore
  <2>4. Does(A, F, pid)
    BY <1>1, <1>2, <1>11, <2>3, DoesMore
  <2> QED BY <1>1, <1>2, <1>13, <2>4, DoesMore
<1>15. /\ Y.pids[pid].pkts = Val(X, pid, "pkts") + 1 /\ Y.pids[pid].lastCC = pkt.cc
       /\ Y.pids[pid].at = SecondOf(at)
       /\ Y.pids[pid].scr = Val(X, pid, "scr") + IF pkt.sc = 0 THEN 0 ELSE 1
       /\ Y.pids[pid].cc = Val(X, pid, "cc") + IF LossHere(C, pkt) THEN 1 ELSE 0
       /\ C.pids[pid].pkts = Val(X, pid, "pkts") + 1
       /\ C.pids[pid].lastCC = A.pids[pid].lastCC
  BY <1>1, <1>3, <1>5, <1>7, <1>9, <1>11, <1>13
<1>16. LossHere(C, pkt) <=> Lost(X, pkt)
  <2>1. CASE pid \in DOMAIN X.pids
    <3>1. X.pids[pid].pkts \in Int
      BY <2>1 DEF IsStats, IsPid, Six
    <3>2. Val(X, pid, "pkts") = X.pids[pid].pkts /\ A.pids[pid].lastCC = X.pids[pid].lastCC
      BY <1>1, <2>1 DEF Val
    <3> QED BY <1>15, <2>1, <3>1, <3>2 DEF LossHere, Lost
  <2>2. CASE pid \notin DOMAIN X.pids
    <3>1. C.pids[pid].pkts = 1
      BY <1>15, <2>2 DEF Val
    <3> QED BY <2>2, <3>1 DEF LossHere, Lost
  <2> QED BY <2>1, <2>2
<1>17. \A c \in Five : Y.st[c] - X.st[c] = Y.pids[pid][c] - Val(X, pid, c)
  BY <1>1, <1>14 DEF Does, Five
<1>18. \A e \in X.on \cap Errs : ValueOf(A, e) = ValueOf(X, e)
  BY <1>1 DEF ValueOf
<1>19. /\ IsStats(Y) /\ Y.on = X.on /\ Y.bc = X.bc
       /\ DOMAIN Y.pids = DOMAIN X.pids \cup {pid}
       /\ \A q \in DOMAIN X.pids \ {pid} : Y.pids[q] = X.pids[q]
       /\ Y.array = IF pid \in DOMAIN X.pids THEN X.array ELSE Append(X.array, pid)
       /\ \A f \in StOther : Y.st[f] = X.st[f]
       /\ \A e \in X.on \cap Errs : Y.heard[e] - ValueOf(Y, e) = X.heard[e] - ValueOf(X, e)
  BY <1>1, <1>14, <1>18 DEF Does
<1> QED BY <1>0, <1>15, <1>16, <1>17, <1>19

-----------------------------------------------------------------------------
(* The steps of an update before the walk over its packets.                *)
Same(X, Y) ==
  /\ IsStats(Y) /\ Y.on = X.on /\ Y.pids = X.pids /\ Y.array = X.array
  /\ \A f \in StOther : Y.st[f] = X.st[f]
  /\ \A c \in Five : Y.st[c] = X.st[c]
  /\ \A e \in X.on \cap Errs : Y.heard[e] - ValueOf(Y, e) = X.heard[e] - ValueOf(X, e)

LEMMA SameNotified ==
  ASSUME NEW X, NEW Y, NEW e \in Events \ Errs, IsStats(X), Same(X, Y)
  PROVE  Same(X, Notify(Y, e)) /\ Notify(Y, e).bc = Y.bc
<1>1. IsStats(Y)
  BY DEF Same
<1> DEFINE Z == Notify(Y, e)
<1>2. /\ IsStats(Z) /\ Z.st = Y.st /\ Z.bc = Y.bc /\ Z.pids = Y.pids /\ Z.array = Y.array
      /\ Z.on = Y.on
      /\ \A d \in Events : Z.heard[d] = Y.heard[d] + IF d = e /\ e \in Y.on THEN 1 ELSE 0
  BY <1>1, Notified
<1> HIDE DEF Z
<1>3. \A d \in Errs : Z.heard[d] = Y.heard[d] /\ ValueOf(Z, d) = ValueOf(Y, d)
  BY <1>1, <1>2 DEF Errs, Events, ValueOf, IsStats, IsHeard
<1>4. Same(X, Z)
  BY <1>2, <1>3 DEF Same
<1> QED BY <1>2, <1>4 DEF Z

(* Only fields of the stream change that no property looks at.             *)
LEMMA SameFields ==
  ASSUME NEW X, IsStats(X), NEW s, DOMAIN s = DOMAIN X.st,
         \A f \in StOther : s[f] = X.st[f], \A c \in Five : s[c] = X.st[c]
  PROVE  LET Y == [X EXCEPT !.st = s] IN Same(X, Y) /\ Y.bc = X.bc /\ Y.st = s
<1> DEFINE Y == [X EXCEPT !.st = s]
<1>1. Y.st = s /\ Y.on = X.on /\ Y.pids = X.pids /\ Y.array = X.array /\ Y.heard = X.heard
      /\ Y.bc = X.bc /\ DOMAIN Y = DOMAIN X
  BY DEF IsStats, Top
<1> HIDE DEF Y
<1>2. \A c \in Six : s[c] = X.st[c]
  BY DEF Six, Five, StOther
<1>3. IsStream(s)
  BY <1>2 DEF IsStats, IsStream
<1>4. IsStats(Y)
  BY <1>1, <1>3 DEF IsStats
<1>5. \A e \in Errs : ValueOf(Y, e) = ValueOf(X, e)
  BY <1>1 DEF ValueOf, Errs, Five
<1>6. Same(X, Y)
  BY <1>1, <1>4, <1>5 DEF Same
<1> QED BY <1>1, <1>6 DEF Y

LEMMA SameAgain ==
  ASSUME NEW X, NEW Y, NEW Z, Same(X, Y), Same(Y, Z)
  PROVE  Same(X, Z)
BY DEF Same

LEMMA SameSelf == ASSUME NEW X, IsStats(X) PROVE Same(X, X)
BY DEF Same

LEMMA OddLengthSame ==
  ASSUME NEW X, IsStats(X), NEW b, NEW at
  PROVE  Same(X, OddLength(X, b, at)) /\ OddLength(X, b, at).bc = X.bc
<1> DEFINE z == X.st
           s == [z EXCEPT !.odd = @ + 1, !.oddAt = SecondOf(at)]
<1>1. OddLength(X, b, at) = IF b THEN [X EXCEPT !.st = s] ELSE X
  BY DEF OddLength, IsStats, Top
<1>2. DOMAIN s = DOMAIN z /\ (\A f \in StOther : s[f] = z[f]) /\ \A c \in Five : s[c] = z[c]
  <2> HIDE DEF z
  <2> QED BY DEF StOther, Five
<1> HIDE DEF s
<1> QED BY <1>1, <1>2, SameFields, SameSelf

LEMMA GapSame ==
  ASSUME NEW X, IsStats(X), NEW at
  PROVE  Same(X, Gap(X, at)) /\ Gap(X, at).bc = X.bc
<1> DEFINE z == X.st
           gap == at - z.lastFrame
           acc == Max({z.spanAcc, gap})
           over == z.spanAt + IatSpan <= SecondOf(at)
           low == Min({z.lwm, gap})
           high == Max({z.hwm, gap})
           a == IF over THEN 0 ELSE acc
           b == IF over THEN acc ELSE z.spanHwm
           c == IF over THEN SecondOf(at) ELSE z.spanAt
           n == z.iatH + 1
           s == [z EXCEPT !.gap = gap, !.lwm = low, !.hwm = high, !.spanAcc = a, !.spanHwm = b,
                          !.spanAt = c, !.iatH = n]
           T == [X EXCEPT !.st.gap = gap, !.st.lwm = low, !.st.hwm = high, !.st.spanAcc = a,
                          !.st.spanHwm = b, !.st.spanAt = c, !.st.iatH = n]
<1>1. Gap(X, at) = IF X.st.lastFrame < TickRate THEN X
                   ELSE IF gap >= X.st.hwm THEN Notify(T, "IAT_HWM") ELSE T
  BY DEF Gap
<1> HIDE DEF gap, acc, over, low, high, a, b, c, n
<1>2. T = [X EXCEPT !.st = s]
  BY DEF IsStats, Top
<1>3. DOMAIN s = DOMAIN z /\ (\A h \in StOther : s[h] = z[h]) /\ \A h \in Five : s[h] = z[h]
  <2> HIDE DEF z
  <2> QED BY DEF StOther, Five
<1> HIDE DEF s, T
<1>4. Same(X, T) /\ T.bc = X.bc
  BY <1>2, <1>3, SameFields
<1>5. "IAT_HWM" \in Events \ Errs
  BY DEF Events, Errs
<1>6. Same(X, Notify(T, "IAT_HWM")) /\ Notify(T, "IAT_HWM").bc = T.bc
  BY <1>4, <1>5, SameNotified
<1> QED BY <1>1, <1>4, <1>6, SameSelf

LEMMA LastFrameSame ==
  ASSUME NEW X, IsStats(X), NEW at
  PROVE  LET Y == [X EXCEPT !.st.lastFrame = at] IN Same(X, Y) /\ Y.bc = X.bc
<1> DEFINE z == X.st
           s == [z EXCEPT !.lastFrame = at]
<1>1. [X EXCEPT !.st.lastFrame = at] = [X EXCEPT !.st = s]
  OBVIOUS
<1>2. DOMAIN s = DOMAIN z /\ (\A f \in StOther : s[f] = z[f]) /\ \A c \in Five : s[c] = z[c]
  <2> HIDE DEF z
  <2> QED BY DEF StOther, Five
<1> HIDE DEF s
<1> QED BY <1>1, <1>2, SameFields

-----------------------------------------------------------------------------
(* The bitrate calculator: the first PCR belongs to the count of errors    *)
(* that it looks at.                                                       *)
CalcOk(b) ==
  /\ {"first", "ccSeen", "ccAtFirst", "rate"} \subseteq DOMAIN b
  /\ b.first # -1 => b.ccAtFirst = b.ccSeen

LEMMA CalcResetOk ==
  ASSUME NEW b, CalcOk(b)
  PROVE  LET c == CalcReset(b)
         IN  CalcOk(c) /\ c.first = -1 /\ c.rate = b.rate /\ DOMAIN c = DOMAIN b /\ c.ccSeen = b.ccSeen
BY DEF CalcOk, CalcReset

LEMMA MeasuredOk == ASSUME NEW b, CalcOk(b) PROVE CalcOk(Measured(b))
<1> DEFINE c == CalcReset(b)
           x == <<b.between, ScrDiff(b.first, b.second)>>
           y == ScrDiff(b.first, b.second) \div b.between
           d == [c EXCEPT !.rate = x, !.perPacket = y]
<1>1. Measured(b) = c \/ Measured(b) = d
  BY DEF Measured
<1>2. CalcOk(c) /\ c.first = -1
  BY CalcResetOk
<1> HIDE DEF c, x, y
<1>3. CalcOk(d)
  BY <1>2 DEF CalcOk
<1> QED BY <1>1, <1>2, <1>3

IsCalc(r) == {"b", "cc", "done", "complete"} \subseteq DOMAIN r /\ CalcOk(r.b)

LEMMA CalcPacketOk ==
  ASSUME NEW r, IsCalc(r), NEW pkt
  PROVE  LET T == CalcPacket(r, pkt)
         IN  /\ IsCalc(T) /\ T.cc = r.cc
             /\ r.done => T = r
             /\ ~r.done /\ r.b.ccSeen # r.cc => T.done /\ T.b.rate = r.b.rate
<1> DEFINE n == r.b.between + Bump(r.b.first > -1 /\ r.b.second = -1)
           b == [r.b EXCEPT !.between = n]
           one == [b EXCEPT !.first = pkt.pcr, !.between = 0, !.ccAtFirst = r.cc]
           two == [b EXCEPT !.second = pkt.pcr, !.stc = pkt.pcr]
           taken == IF pkt.pcr = -1 THEN b ELSE IF b.first = -1 THEN one ELSE two
           whole == taken.first > -1 /\ taken.second > -1
           good == whole /\ ScrDiff(taken.first, taken.second) > 0 /\ taken.between > 0
           new == IF whole THEN Measured(taken) ELSE taken
           done == whole /\ ~good
           comp == r.complete \/ good
           c == [CalcReset(r.b) EXCEPT !.ccSeen = r.cc]
           stop == [r EXCEPT !.done = TRUE, !.b = c]
           skip == [r EXCEPT !.b = b]
           go == [r EXCEPT !.b = new, !.done = done, !.complete = comp]
<1>1. CalcPacket(r, pkt) = IF r.done THEN r ELSE IF r.b.ccSeen # r.cc THEN stop
                           ELSE IF pkt.pid # b.pid /\ b.first = -1 THEN skip ELSE go
  BY DEF CalcPacket, CcChanged
<1>2. CalcOk(r.b)
  BY DEF IsCalc
<1>3. IsCalc(stop) /\ stop.cc = r.cc /\ stop.done /\ stop.b.rate = r.b.rate
  <2> DEFINE e == CalcReset(r.b)
  <2>1. CalcOk(e) /\ e.first = -1 /\ e.rate = r.b.rate
    BY <1>2, CalcResetOk
  <2> HIDE DEF e
  <2>2. c = [e EXCEPT !.ccSeen = r.cc]
    BY DEF e
  <2>3. CalcOk(c) /\ c.rate = r.b.rate
    BY <2>1, <2>2 DEF CalcOk
  <2> HIDE DEF c
  <2> QED BY <2>3 DEF IsCalc
<1>4. CalcOk(b) /\ b.ccSeen = r.b.ccSeen
  <2> HIDE DEF n
  <2> QED BY <1>2 DEF CalcOk
<1> HIDE DEF b
<1>5. IsCalc(skip) /\ skip.cc = r.cc
  BY <1>4 DEF IsCalc
<1>6. r.b.ccSeen = r.cc => IsCalc(go) /\ go.cc = r.cc
  <2>1. CalcOk(two)
    BY <1>4 DEF CalcOk
  <2>2. r.b.ccSeen = r.cc => CalcOk(one)
    BY <1>4 DEF CalcOk
  <2> HIDE DEF one, two
  <2>3. r.b.ccSeen = r.cc => CalcOk(taken)
    BY <1>4, <2>1, <2>2
  <2> HIDE DEF taken
  <2>4. r.b.ccSeen = r.cc => CalcOk(new)
    BY <2>3, MeasuredOk
  <2> HIDE DEF new, done, comp
  <2> QED BY <2>4 DEF IsCalc
<1> HIDE DEF stop, skip, go
<1> QED BY <1>1, <1>3, <1>5, <1>6

-----------------------------------------------------------------------------
(* What is folded.                                                         *)
CalcStep(r, pkt, x) == CalcPacket(r, pkt)
SyncStep(M, pkt, x) == SyncPacket(M, pkt)

FCalc == INSTANCE DataLemmas WITH Op <- CalcStep
FCount == INSTANCE DataLemmas WITH Op <- CountPacket
FEach == INSTANCE DataLemmas WITH Op <- OnePacket

LEMMA CalcFolds ==
  ASSUME NEW b, NEW cc, NEW buf
  PROVE  CalcWrite(b, cc, buf) =
           FCalc!Folded([b |-> [b EXCEPT !.stc = @ + Len(buf) * b.perPacket], cc |-> cc,
                         done |-> ~b.running, complete |-> FALSE], buf, 0)
BY Zenon DEF CalcWrite, CalcStep, FoldLeft, MapThenFoldSet, Max, FCalc!Folded, FCalc!FoldLeft, FCalc!MapThenFoldSet, FCalc!Max
LEMMA CountFolds ==
  ASSUME NEW s, NEW b, NEW x PROVE SyncCount(b, s, x) = FCount!Folded(b, s, x)
BY Zenon DEF SyncCount, FoldLeft, MapThenFoldSet, Max, FCount!Folded, FCount!FoldLeft, FCount!MapThenFoldSet, FCount!Max
LEMMA EachFolds ==
  ASSUME NEW s, NEW b, NEW x PROVE EachPacket(b, s, x) = FEach!Folded(b, s, x)
BY Zenon DEF EachPacket, FoldLeft, MapThenFoldSet, Max, FEach!Folded, FEach!FoldLeft, FEach!MapThenFoldSet, FEach!Max

LEMMA CalcWriteOk ==
  ASSUME NEW b, CalcOk(b), NEW cc, NEW buf \in Seq(Packets)
  PROVE  LET r == CalcWrite(b, cc, buf)
         IN  CalcOk(r.b) /\ (b.ccSeen # cc => r.b.rate = b.rate)
<1> DEFINE x == b.stc + Len(buf) * b.perPacket
           c == [b EXCEPT !.stc = x]
           r0 == [b |-> c, cc |-> cc, done |-> ~b.running, complete |-> FALSE]
           h == FCalc!Stages(r0, buf, 0)
           n == Len(buf)
           Ok(r) == IsCalc(r) /\ r.cc = cc
                    /\ (b.ccSeen # cc => r.b.rate = b.rate /\ (r.done \/ r.b.ccSeen = b.ccSeen))
           T == {k \in Nat : k <= n => Ok(h[k])}
<1>1. n \in Nat
  OBVIOUS
<1>2. h[0] = r0 /\ (\A k \in 1 .. n : h[k] = CalcPacket(h[k - 1], buf[k])) /\ CalcWrite(b, cc, buf) = h[n]
  <2>1. CalcWrite(b, cc, buf) = FCalc!Folded(r0, buf, 0)
    BY CalcFolds, Zenon
  <2> HIDE DEF r0
  <2> QED BY <2>1, FCalc!FoldSteps DEF CalcStep
<1>3. Ok(r0)
  <2>1. CalcOk(c) /\ c.rate = b.rate /\ c.ccSeen = b.ccSeen
    <3> HIDE DEF x
    <3> QED BY DEF CalcOk
  <2> HIDE DEF c
  <2> QED BY <2>1 DEF IsCalc
<1> HIDE DEF h, n, r0
<1>5. 0 \in T
  BY <1>2, <1>3
<1>6. ASSUME NEW k \in Nat, k \in T PROVE k + 1 \in T
  <2> SUFFICES ASSUME k + 1 <= n PROVE Ok(h[k + 1])
    OBVIOUS
  <2>1. h[k + 1] = CalcPacket(h[k], buf[k + 1]) /\ Ok(h[k])
    <3>1. k + 1 \in 1 .. n /\ (k + 1) - 1 = k /\ k <= n
      BY <1>1
    <3> QED BY <1>2, <1>6, <3>1
  <2> DEFINE r == h[k]
             q == h[k + 1]
  <2>2. /\ IsCalc(q) /\ q.cc = r.cc
        /\ r.done => q = r
        /\ ~r.done /\ r.b.ccSeen # r.cc => q.done /\ q.b.rate = r.b.rate
    BY <2>1, CalcPacketOk
  <2> HIDE DEF r, q
  <2>3. Ok(q)
    BY <2>1, <2>2 DEF r, q
  <2> QED BY <2>3 DEF q
<1>7. n \in T
  <2> HIDE DEF T
  <2> QED BY <1>1, <1>5, <1>6, FCalc!SetInduction
<1> QED BY <1>1, <1>2, <1>7 DEF IsCalc

LEMMA BitrateSame ==
  ASSUME NEW X, IsStats(X), CalcOk(X.bc), NEW buf \in Seq(Packets)
  PROVE  LET Y == Bitrate(X, buf)
         IN  /\ Same(X, Y) /\ CalcOk(Y.bc)
             /\ X.bc.ccSeen # X.st.cc => Y.bc.rate = X.bc.rate
<1> DEFINE r == CalcWrite(X.bc, X.st.cc, buf)
           T == [X EXCEPT !.bc = r.b]
<1>1. CalcOk(r.b) /\ (X.bc.ccSeen # X.st.cc => r.b.rate = X.bc.rate)
  BY CalcWriteOk
<1>2. Bitrate(X, buf) = IF X.bc.pid = 0 THEN X ELSE IF r.complete THEN Notify(T, "PCR_MBPS") ELSE T
  BY DEF Bitrate
<1> HIDE DEF r
<1>3. T.st = X.st /\ T.on = X.on /\ T.pids = X.pids /\ T.array = X.array /\ T.heard = X.heard
      /\ T.bc = r.b /\ IsStats(T)
  BY DEF IsStats, Top
<1> HIDE DEF T
<1>4. Same(X, T)
  BY <1>3 DEF Same, ValueOf
<1>5. "PCR_MBPS" \in Events \ Errs
  BY DEF Events, Errs
<1>6. Same(X, Notify(T, "PCR_MBPS")) /\ Notify(T, "PCR_MBPS").bc = T.bc
  BY <1>4, <1>5, SameNotified
<1> QED BY <1>1, <1>2, <1>3, <1>4, <1>6, SameSelf

-----------------------------------------------------------------------------
(* The packets without a sync byte among the first k of a buffer.          *)
Unsynced(buf, k) == {i \in 1 .. k : ~buf[i].sync}

LEMMA UnsyncedCount ==
  ASSUME NEW buf, NEW k \in Nat, buf[k + 1].sync \in BOOLEAN
  PROVE  /\ Cardinality(Unsynced(buf, k)) \in Nat
         /\ Cardinality(Unsynced(buf, k + 1)) =
              Cardinality(Unsynced(buf, k)) + IF buf[k + 1].sync THEN 0 ELSE 1
<1> DEFINE a == Unsynced(buf, k)
<1>1. IsFiniteSet(a)
  <2>1. a \subseteq 1 .. k /\ IsFiniteSet(1 .. k)
    BY FS_Interval DEF Unsynced
  <2> QED BY <2>1, FS_Subset
<1>2. Cardinality(a) \in Nat
  BY <1>1, FS_CardinalityType
<1>3. CASE buf[k + 1].sync
  <2>1. Unsynced(buf, k + 1) = a
    BY <1>3 DEF Unsynced
  <2> QED BY <1>2, <1>3, <2>1
<1>4. CASE ~buf[k + 1].sync
  <2>1. Unsynced(buf, k + 1) = a \cup {k + 1} /\ k + 1 \notin a
    BY <1>4 DEF Unsynced
  <2>2. Cardinality(a \cup {k + 1}) = Cardinality(a) + 1
    BY <1>1, <2>1, FS_AddElement
  <2> QED BY <1>2, <1>4, <2>1, <2>2
<1> QED BY <1>3, <1>4

LEMMA UnsyncedAll ==
  ASSUME NEW buf \in Seq(Packets)
  PROVE  /\ CountIn(buf, LAMBDA p : ~p.sync) = Cardinality(Unsynced(buf, Len(buf)))
         /\ Cardinality(Unsynced(buf, 0)) = 0
<1>1. Unsynced(buf, 0) = {}
  BY DEF Unsynced
<1>2. DOMAIN buf = 1 .. Len(buf)
  OBVIOUS
<1> QED BY <1>1, <1>2, FS_EmptySet DEF CountIn, Unsynced

(* All that counting the packets of a buffer changes.                      *)
StRest == {"at", "pps", "win", "seq", "BpsAt", "Bwin", "ambps", "abps"}

LEMMA CountPacketDoes ==
  ASSUME NEW X, IsStats(X), NEW pkt, pkt.sync \in BOOLEAN, NEW at
  PROVE  LET Y == CountPacket(X, pkt, at)
         IN  /\ IsStats(Y) /\ Y.bc = X.bc /\ Y.pids = X.pids /\ Y.array = X.array /\ Y.on = X.on
             /\ \A f \in StRest : Y.st[f] = X.st[f]
             /\ \A k \in Five \ {"cc"} : Y.st[k] = X.st[k]
             /\ Y.st.pkts = X.st.pkts + (IF pkt.sync THEN 1 ELSE 0)
             /\ Y.st.cc = X.st.cc + (IF pkt.sync THEN 0 ELSE 1)
             /\ \A e \in X.on \cap Errs : Y.heard[e] - ValueOf(Y, e) = X.heard[e] - ValueOf(X, e)
<1> DEFINE z == X.st
           s == [z EXCEPT !.pkts = @ + 1]
           Y == [X EXCEPT !.st = s]
<1>1. CASE pkt.sync
  <2>1. CountPacket(X, pkt, at) = Y
    BY <1>1 DEF CountPacket
  <2>2. IsStream(z)
    BY DEF IsStats
  <2>3. IsStream(s) /\ (\A f \in StRest : s[f] = z[f]) /\ (\A k \in Five : s[k] = z[k]) /\ s.pkts = z.pkts + 1
        /\ z.cc = z.cc + 0
    <3> HIDE DEF z
    <3> QED BY <2>2 DEF IsStream, StRest, StOther, Five, Six
  <2> HIDE DEF s
  <2>4. Y.st = s /\ Y.on = X.on /\ Y.pids = X.pids /\ Y.array = X.array /\ Y.heard = X.heard
        /\ Y.bc = X.bc /\ IsStats(Y)
    BY <2>3 DEF IsStats, Top
  <2> HIDE DEF Y
  <2>5. \A e \in Errs : ValueOf(Y, e) = ValueOf(X, e)
    BY <2>3, <2>4 DEF ValueOf, Errs, Five
  <2>6. Y.st.cc = X.st.cc + 0
    BY <2>3, <2>4 DEF Five
  <2> QED BY <1>1, <2>1, <2>3, <2>4, <2>5, <2>6
<1>2. CASE ~pkt.sync
  <2> DEFINE U == StreamCcError(X, at)
  <2>1. CountPacket(X, pkt, at) = U
    BY <1>2 DEF CountPacket
  <2>2. /\ IsStats(U) /\ U.bc = X.bc /\ U.pids = X.pids /\ U.array = X.array /\ U.on = X.on
        /\ \A f \in StOther : U.st[f] = X.st[f]
        /\ \A k \in Five : U.st[k] = X.st[k] + IF k = "cc" THEN 1 ELSE 0
        /\ \A e \in X.on \cap Errs : U.heard[e] - ValueOf(U, e) = X.heard[e] - ValueOf(X, e)
    BY CcCounted
  <2> HIDE DEF U
  <2>3. \A k \in Six : X.st[k] \in Int
    BY DEF IsStats, IsStream
  <2>4. U.st.pkts = X.st.pkts + 0 /\ U.st.cc = X.st.cc + 1 /\ (\A k \in Five \ {"cc"} : U.st[k] = X.st[k])
        /\ \A f \in StRest : U.st[f] = X.st[f]
    BY <2>2, <2>3 DEF Five, Six, StOther, StRest
  <2> QED BY <1>2, <2>1, <2>2, <2>4
<1> QED BY <1>1, <1>2

LEMMA SyncCountDoes ==
  ASSUME NEW X, IsStats(X), NEW buf \in Seq(Packets), NEW at
  PROVE  LET Y == SyncCount(X, buf, at)
             n == Len(buf)
             u == Cardinality(Unsynced(buf, n))
         IN  /\ IsStats(Y) /\ Y.bc = X.bc /\ Y.pids = X.pids /\ Y.array = X.array /\ Y.on = X.on
             /\ \A f \in StRest : Y.st[f] = X.st[f]
             /\ \A k \in Five \ {"cc"} : Y.st[k] = X.st[k]
             /\ u \in Nat /\ Y.st.pkts = X.st.pkts + (n - u) /\ Y.st.cc = X.st.cc + u
             /\ \A e \in X.on \cap Errs : Y.heard[e] - ValueOf(Y, e) = X.heard[e] - ValueOf(X, e)
<1> DEFINE n == Len(buf)
           u(k) == Cardinality(Unsynced(buf, k))
           h == FCount!Stages(X, buf, at)
           Ok(Y, k) ==
             /\ IsStats(Y) /\ Y.bc = X.bc /\ Y.pids = X.pids /\ Y.array = X.array /\ Y.on = X.on
             /\ \A f \in StRest : Y.st[f] = X.st[f]
             /\ \A c \in Five \ {"cc"} : Y.st[c] = X.st[c]
             /\ u(k) \in Nat /\ Y.st.pkts = X.st.pkts + (k - u(k)) /\ Y.st.cc = X.st.cc + u(k)
             /\ \A e \in X.on \cap Errs : Y.heard[e] - ValueOf(Y, e) = X.heard[e] - ValueOf(X, e)
           T == {k \in Nat : k <= n => Ok(h[k], k)}
<1>1. n \in Nat /\ \A k \in 1 .. n : buf[k] \in Packets
  OBVIOUS
<1>2. h[0] = X /\ (\A k \in 1 .. n : h[k] = CountPacket(h[k - 1], buf[k], at)) /\ SyncCount(X, buf, at) = h[n]
  BY FCount!FoldSteps, CountFolds
<1>3. X.st.pkts \in Int /\ X.st.cc \in Int
  BY DEF IsStats, IsStream, Six
<1>4. 0 \in T
  <2>1. u(0) = 0
    BY UnsyncedAll
  <2> QED BY <1>2, <1>3, <2>1
<1> HIDE DEF h, n
<1>5. ASSUME NEW k \in Nat, k \in T PROVE k + 1 \in T
  <2> SUFFICES ASSUME k + 1 <= n PROVE Ok(h[k + 1], k + 1)
    OBVIOUS
  <2> DEFINE A == h[k]
             B == h[k + 1]
             p == buf[k + 1]
  <2>1. B = CountPacket(A, p, at) /\ Ok(A, k) /\ p.sync \in BOOLEAN
    <3>1. k + 1 \in 1 .. n /\ (k + 1) - 1 = k /\ k <= n
      BY <1>1
    <3>2. p.sync \in BOOLEAN
      BY <1>1, <3>1, PacketFields
    <3> QED BY <1>2, <1>5, <3>1, <3>2
  <2>2. /\ IsStats(B) /\ B.bc = A.bc /\ B.pids = A.pids /\ B.array = A.array /\ B.on = A.on
        /\ \A f \in StRest : B.st[f] = A.st[f]
        /\ \A c \in Five \ {"cc"} : B.st[c] = A.st[c]
        /\ B.st.pkts = A.st.pkts + (IF p.sync THEN 1 ELSE 0)
        /\ B.st.cc = A.st.cc + (IF p.sync THEN 0 ELSE 1)
        /\ \A e \in A.on \cap Errs : B.heard[e] - ValueOf(B, e) = A.heard[e] - ValueOf(A, e)
    BY <2>1, CountPacketDoes
  <2>3. u(k) \in Nat /\ u(k + 1) = u(k) + IF p.sync THEN 0 ELSE 1
    BY <2>1, UnsyncedCount
  <2> HIDE DEF A, B, p, u
  <2>4. Ok(B, k + 1)
    BY <1>3, <2>1, <2>2, <2>3
  <2> QED BY <2>4 DEF B, u
<1>6. n \in T
  <2> HIDE DEF T
  <2> QED BY <1>1, <1>4, <1>5, FCount!SetInduction
<1>7. Ok(h[n], n)
  BY <1>1, <1>6
<1> QED BY <1>2, <1>7 DEF n

LEMMA WindowTurns ==
  ASSUME NEW X, IsStats(X), NEW n, NEW at
  PROVE  LET Y == Window(X, n, at)
             turn == SecondOf(at) # X.st.at
         IN  /\ IsStats(Y) /\ Y.bc = X.bc /\ Y.pids = X.pids /\ Y.array = X.array /\ Y.on = X.on
             /\ Y.st.at = SecondOf(at) /\ Y.st.win = (IF turn THEN 0 ELSE X.st.win) + n
             /\ Y.st.pps = IF turn THEN X.st.win ELSE X.st.pps
             /\ \A f \in {"pkts", "seq", "BpsAt", "Bwin", "ambps", "abps"} : Y.st[f] = X.st[f]
             /\ \A k \in Five : Y.st[k] = X.st[k]
             /\ \A e \in X.on \cap Errs : Y.heard[e] - ValueOf(Y, e) = X.heard[e] - ValueOf(X, e)
<1> DEFINE turn == SecondOf(at) # X.st.at
           z == X.st
           s == [z EXCEPT !.pps = z.win, !.win = 0, !.at = SecondOf(at)]
           U == [X EXCEPT !.st = s]
           T == IF turn THEN Notify(U, "MBPS") ELSE X
           y == [T.st EXCEPT !.win = @ + n]
           Y == [T EXCEPT !.st = y]
<1>1. Window(X, n, at) = Y
  <2>1. [X EXCEPT !.st.pps = X.st.win, !.st.win = 0, !.st.at = SecondOf(at)] = U
    BY DEF IsStats, Top
  <2>2. T = IF SecondOf(at) = X.st.at THEN X
            ELSE Notify([X EXCEPT !.st.pps = X.st.win, !.st.win = 0, !.st.at = SecondOf(at)], "MBPS")
    BY <2>1
  <2> QED BY <2>2 DEF Window
<1>2. IsStream(z)
  BY DEF IsStats
<1>3. IsStream(s) /\ s.at = SecondOf(at) /\ s.win = 0 /\ s.pps = z.win
      /\ (\A f \in {"pkts", "seq", "BpsAt", "Bwin", "ambps", "abps"} : s[f] = z[f]) /\ \A k \in Five : s[k] = z[k]
  <2> HIDE DEF z
  <2> QED BY <1>2 DEF IsStream, StOther, Five, Six
<1> HIDE DEF s
<1>4. U.st = s /\ U.on = X.on /\ U.pids = X.pids /\ U.array = X.array /\ U.heard = X.heard
      /\ U.bc = X.bc /\ IsStats(U)
  BY <1>3 DEF IsStats, Top
<1> HIDE DEF U
<1>5. "MBPS" \in Events \ Errs
  BY DEF Events, Errs
<1>6. /\ IsStats(T) /\ T.bc = X.bc /\ T.pids = X.pids /\ T.array = X.array /\ T.on = X.on
      /\ T.st = (IF turn THEN s ELSE z) /\ \A e \in Errs : T.heard[e] = X.heard[e]
  <2> DEFINE V == Notify(U, "MBPS")
  <2>1. /\ IsStats(V) /\ V.st = U.st /\ V.bc = U.bc /\ V.pids = U.pids /\ V.array = U.array
        /\ V.on = U.on
        /\ \A d \in Events : V.heard[d] = U.heard[d] + IF d = "MBPS" /\ "MBPS" \in U.on THEN 1 ELSE 0
    BY <1>4, <1>5, Notified
  <2> HIDE DEF V
  <2>2. \A e \in Errs : V.heard[e] = U.heard[e]
    BY <1>4, <2>1 DEF Errs, Events, IsStats, IsHeard
  <2>3. T = IF turn THEN V ELSE X
    BY DEF V
  <2> HIDE DEF T
  <2> QED BY <1>4, <2>1, <2>2, <2>3
<1> HIDE DEF T
<1>7. IsStream(y) /\ y.at = SecondOf(at) /\ y.win = (IF turn THEN 0 ELSE z.win) + n
      /\ y.pps = (IF turn THEN z.win ELSE z.pps)
      /\ (\A f \in {"pkts", "seq", "BpsAt", "Bwin", "ambps", "abps"} : y[f] = z[f]) /\ \A k \in Five : y[k] = z[k]
  <2> DEFINE w == T.st
  <2>1. IsStream(w) /\ w.at = SecondOf(at) /\ w.win = (IF turn THEN 0 ELSE z.win)
        /\ w.pps = (IF turn THEN z.win ELSE z.pps)
        /\ (\A f \in {"pkts", "seq", "BpsAt", "Bwin", "ambps", "abps"} : w[f] = z[f]) /\ \A k \in Five : w[k] = z[k]
    BY <1>2, <1>3, <1>6
  <2> HIDE DEF w, z, turn
  <2>2. y = [w EXCEPT !.win = @ + n]
    BY DEF w
  <2> HIDE DEF y
  <2> QED BY <2>1, <2>2 DEF IsStream, StOther, Five, Six
<1> HIDE DEF y
<1>8. Y.st = y /\ Y.on = T.on /\ Y.pids = T.pids /\ Y.array = T.array /\ Y.heard = T.heard
      /\ Y.bc = T.bc /\ IsStats(Y)
  BY <1>6, <1>7 DEF IsStats, Top
<1> HIDE DEF Y
<1>9. \A e \in Errs : ValueOf(Y, e) = ValueOf(X, e)
  BY <1>7, <1>8 DEF ValueOf, Errs, Five
<1> QED BY <1>1, <1>6, <1>7, <1>8, <1>9

-----------------------------------------------------------------------------
(* A counter, added up over the PIDs.                                      *)
Total(X, c) == SumFunctionOnSet([pid \in Pids |-> Val(X, pid, c)], Pids)

LEMMA SameSum == ASSUME NEW f, NEW A PROVE SumFunctionOnSet(f, A) = FEach!SumFunctionOnSet(f, A)
BY Zenon DEF SumFunctionOnSet, FoldFunctionOnSet, MapThenFoldSet, FEach!SumFunctionOnSet,
             FEach!FoldFunctionOnSet, FEach!MapThenFoldSet
LEMMA SameFinite == ASSUME NEW A PROVE IsFiniteSet(A) <=> FEach!IsFiniteSet(A)
BY Zenon DEF IsFiniteSet, FEach!IsFiniteSet
LEMMA SameMax == ASSUME NEW A PROVE Max(A) = FEach!Max(A)
BY Zenon DEF Max, FEach!Max

LEMMA SumStep ==
  ASSUME NEW X, IsStats(X), NEW Y, IsStats(Y), NEW pid \in Pids, NEW c \in Six,
         DOMAIN Y.pids = DOMAIN X.pids \cup {pid},
         \A q \in DOMAIN X.pids \ {pid} : Y.pids[q] = X.pids[q]
  PROVE  Total(X, c) \in Int /\ Total(Y, c) = Total(X, c) + (Y.pids[pid][c] - Val(X, pid, c))
<1> DEFINE f == [q \in Pids |-> Val(X, q, c)]
           g == [q \in Pids |-> Val(Y, q, c)]
<1>1. \A q \in Pids : f[q] \in Int /\ g[q] \in Int
  BY DEF Val, IsStats, IsPid
<1>2. \A q \in Pids \ {pid} : g[q] = f[q]
  BY DEF Val
<1>3. f[pid] = Val(X, pid, c) /\ g[pid] = Y.pids[pid][c]
  BY DEF Val
<1>4. FEach!IsFiniteSet(Pids)
  BY SameFinite, StreamAssumption
<1> HIDE DEF f, g
<1>5. FEach!SumFunctionOnSet(g, Pids) = FEach!SumFunctionOnSet(f, Pids) + (g[pid] - f[pid])
  BY <1>1, <1>2, <1>4, FEach!SumChange
<1>6. FEach!SumFunctionOnSet(f, Pids) \in Int
  BY <1>1, <1>4, FEach!SumRemove
<1>7. Total(X, c) = FEach!SumFunctionOnSet(f, Pids) /\ Total(Y, c) = FEach!SumFunctionOnSet(g, Pids)
  BY SameSum DEF Total, f, g
<1> QED BY <1>3, <1>5, <1>6, <1>7

LEMMA SumKept ==
  ASSUME NEW X, NEW Y, NEW c, \A q \in Pids : Val(Y, q, c) = Val(X, q, c)
  PROVE  Total(Y, c) = Total(X, c)
<1>1. [q \in Pids |-> Val(Y, q, c)] = [q \in Pids |-> Val(X, q, c)]
  OBVIOUS
<1> QED BY <1>1 DEF Total

LEMMA SumZero ==
  ASSUME NEW X, NEW c, \A q \in Pids : Val(X, q, c) = 0
  PROVE  Total(X, c) = 0
<1> DEFINE f == [q \in Pids |-> Val(X, q, c)]
           o == [q \in {} |-> 0]
           Z == {n \in Nat : \A A \in SUBSET Pids : IsFiniteSet(A) /\ Cardinality(A) = n => FEach!SumFunctionOnSet(f, A) = 0}
<1>1. \A q \in Pids : f[q] = 0
  OBVIOUS
<1> HIDE DEF f
<1>2. 0 \in Z
  <2>1. \A A : IsFiniteSet(A) /\ Cardinality(A) = 0 => A = {}
    BY FS_EmptySet
  <2> QED BY <2>1, FEach!SumOfNothing
<1>3. ASSUME NEW n \in Nat, n \in Z PROVE n + 1 \in Z
  <2> SUFFICES ASSUME NEW A \in SUBSET Pids, IsFiniteSet(A), Cardinality(A) = n + 1
               PROVE  FEach!SumFunctionOnSet(f, A) = 0
    OBVIOUS
  <2>1. PICK a \in A : TRUE
    BY FS_EmptySet
  <2>2. IsFiniteSet(A \ {a}) /\ Cardinality(A \ {a}) = n
    BY FS_RemoveElement
  <2>3. FEach!SumFunctionOnSet(f, A \ {a}) = 0
    BY <1>3, <2>2
  <2>4. FEach!IsFiniteSet(A) /\ \A x \in A : f[x] \in Int
    BY <1>1, SameFinite
  <2>5. FEach!SumFunctionOnSet(f, A) = f[a] + FEach!SumFunctionOnSet(f, A \ {a})
    BY <2>1, <2>4, FEach!SumRemove
  <2> QED BY <1>1, <2>1, <2>3, <2>5
<1>4. Nat \subseteq Z
  <2> HIDE DEF Z
  <2> QED BY <1>2, <1>3, FEach!SetInduction
<1>5. FEach!SumFunctionOnSet(f, Pids) = 0
  <2>1. IsFiniteSet(Pids) /\ Cardinality(Pids) \in Nat /\ Pids \in SUBSET Pids
    BY StreamAssumption, FS_CardinalityType
  <2> QED BY <1>4, <2>1
<1> QED BY <1>5, SameSum DEF Total, f

(* The directory of PIDs.                                                  *)
Directory(X) ==
  /\ X.array \in Seq(Pids) /\ ToSet(X.array) = DOMAIN X.pids
  /\ Len(X.array) = Cardinality(DOMAIN X.pids)

LEMMA DirectoryStep ==
  ASSUME NEW X, IsStats(X), Directory(X), NEW Y, NEW pid \in Pids,
         DOMAIN Y.pids = DOMAIN X.pids \cup {pid},
         Y.array = IF pid \in DOMAIN X.pids THEN X.array ELSE Append(X.array, pid)
  PROVE  Directory(Y)
<1>1. CASE pid \in DOMAIN X.pids
  <2>1. DOMAIN Y.pids = DOMAIN X.pids
    BY <1>1
  <2> QED BY <1>1, <2>1 DEF Directory
<1>2. CASE pid \notin DOMAIN X.pids
  <2> DEFINE a == X.array
             b == Append(a, pid)
  <2>1. a \in Seq(Pids) /\ Y.array = b
    BY <1>2 DEF Directory
  <2>2. b \in Seq(Pids) /\ Len(b) = Len(a) + 1 /\ DOMAIN a = 1 .. Len(a) /\ Len(a) \in Nat
        /\ DOMAIN b = 1 .. Len(a) + 1 /\ b[Len(a) + 1] = pid /\ \A i \in 1 .. Len(a) : b[i] = a[i]
    <3> HIDE DEF a
    <3> QED BY <2>1
  <2> HIDE DEF a, b
  <2>3. ToSet(b) = ToSet(a) \cup {pid}
    BY <2>2 DEF ToSet
  <2>4. IsFiniteSet(DOMAIN X.pids)
    <3>1. DOMAIN X.pids \subseteq Pids /\ IsFiniteSet(Pids)
      BY StreamAssumption DEF IsStats
    <3> QED BY <3>1, FS_Subset
  <2>5. Cardinality(DOMAIN X.pids \cup {pid}) = Cardinality(DOMAIN X.pids) + 1
    BY <1>2, <2>4, FS_AddElement
  <2> QED BY <2>1, <2>2, <2>3, <2>5 DEF Directory, a
<1> QED BY <1>1, <1>2

LEMMA TotalInt ==
  ASSUME NEW Y, NEW c \in Six, IsStats(Y)
  PROVE  Total(Y, c) \in Int /\ Y.st[c] \in Int
<1> DEFINE f == [q \in Pids |-> Val(Y, q, c)]
<1>1. \A q \in Pids : f[q] \in Int
  BY DEF Val, IsStats, IsPid
<1> HIDE DEF f
<1>2. FEach!SumFunctionOnSet(f, Pids) \in Int
  BY <1>1, SameFinite, StreamAssumption, StatsAssumption, FEach!SumRemove
<1>3. Y.st[c] \in Int
  BY DEF IsStats, IsStream
<1> QED BY <1>2, <1>3, SameSum DEF Total, f

LEMMA EachDoes ==
  ASSUME NEW X, IsStats(X), NEW buf \in Seq(Packets), NEW at
  PROVE  LET Y == EachPacket(X, buf, at)
         IN  /\ IsStats(Y) /\ Y.bc = X.bc /\ Y.on = X.on
             /\ \A f \in StOther : Y.st[f] = X.st[f]
             /\ \A c \in Five : Y.st[c] - Total(Y, c) = X.st[c] - Total(X, c)
             /\ Total(Y, "pkts") = Total(X, "pkts") + Len(buf)
             /\ Directory(X) => Directory(Y)
             /\ \A e \in X.on \cap Errs : Y.heard[e] - ValueOf(Y, e) = X.heard[e] - ValueOf(X, e)
<1> DEFINE n == Len(buf)
           h == FEach!Stages(X, buf, at)
           Ok(Y, k) ==
             /\ IsStats(Y) /\ Y.bc = X.bc /\ Y.on = X.on
             /\ \A f \in StOther : Y.st[f] = X.st[f]
             /\ \A c \in Five : Y.st[c] - Total(Y, c) = X.st[c] - Total(X, c)
             /\ Total(Y, "pkts") = Total(X, "pkts") + k
             /\ Directory(X) => Directory(Y)
             /\ \A e \in X.on \cap Errs : Y.heard[e] - ValueOf(Y, e) = X.heard[e] - ValueOf(X, e)
           T == {k \in Nat : k <= n => Ok(h[k], k)}
<1>1. n \in Nat /\ \A k \in 1 .. n : buf[k] \in Packets
  OBVIOUS
<1>2. h[0] = X /\ (\A k \in 1 .. n : h[k] = OnePacket(h[k - 1], buf[k], at)) /\ EachPacket(X, buf, at) = h[n]
  BY FEach!FoldSteps, EachFolds
<1>3. \A Y, c : IsStats(Y) /\ c \in Six => Total(Y, c) \in Int /\ Y.st[c] \in Int
  BY TotalInt
<1>4. 0 \in T
  <2>1. "pkts" \in Six
    BY DEF Six
  <2>2. Total(X, "pkts") = Total(X, "pkts") + 0
    BY <1>3, <2>1
  <2> QED BY <1>2, <2>2
<1> HIDE DEF h, n
<1>5. ASSUME NEW k \in Nat, k \in T PROVE k + 1 \in T
  <2> SUFFICES ASSUME k + 1 <= n PROVE Ok(h[k + 1], k + 1)
    OBVIOUS
  <2> DEFINE A == h[k]
             B == h[k + 1]
             p == buf[k + 1]
             pid == p.pid
  <2>1. B = OnePacket(A, p, at) /\ Ok(A, k) /\ p \in Packets /\ pid \in Pids
    <3>1. k + 1 \in 1 .. n /\ (k + 1) - 1 = k /\ k <= n
      BY <1>1
    <3> QED BY <1>1, <1>2, <1>5, <3>1, PacketFields
  <2>2. /\ IsStats(B) /\ B.on = A.on /\ B.bc = A.bc
        /\ DOMAIN B.pids = DOMAIN A.pids \cup {pid}
        /\ \A q \in DOMAIN A.pids \ {pid} : B.pids[q] = A.pids[q]
        /\ B.array = IF pid \in DOMAIN A.pids THEN A.array ELSE Append(A.array, pid)
        /\ \A f \in StOther : B.st[f] = A.st[f]
        /\ \A c \in Five : B.st[c] - A.st[c] = B.pids[pid][c] - Val(A, pid, c)
        /\ \A e \in A.on \cap Errs : B.heard[e] - ValueOf(B, e) = A.heard[e] - ValueOf(A, e)
        /\ B.pids[pid].pkts = Val(A, pid, "pkts") + 1
    BY <2>1, OnePacketDoes
  <2> HIDE DEF A, B, p
  <2>3. \A c \in Six : Total(A, c) \in Int /\ Total(B, c) = Total(A, c) + (B.pids[pid][c] - Val(A, pid, c))
    BY <2>1, <2>2, SumStep
  <2>4. \A c \in Six : Val(A, pid, c) \in Int /\ B.pids[pid][c] \in Int
    BY <2>1, <2>2 DEF Val, IsStats, IsPid
  <2>5. Five \subseteq Six /\ "pkts" \in Six
    BY DEF Five, Six
  <2>6. ASSUME NEW c \in Five PROVE B.st[c] - Total(B, c) = X.st[c] - Total(X, c)
    <3>1. A.st[c] \in Int /\ B.st[c] \in Int /\ X.st[c] \in Int /\ Total(A, c) \in Int /\ Total(X, c) \in Int
      BY <1>3, <2>1, <2>2, <2>5
    <3>2. Val(A, pid, c) \in Int /\ B.pids[pid][c] \in Int
          /\ Total(B, c) = Total(A, c) + (B.pids[pid][c] - Val(A, pid, c))
      BY <2>3, <2>4, <2>5
    <3>3. A.st[c] - Total(A, c) = X.st[c] - Total(X, c)
      BY <2>1
    <3>4. B.st[c] - A.st[c] = B.pids[pid][c] - Val(A, pid, c)
      BY <2>2
    <3> QED BY <3>1, <3>2, <3>3, <3>4
  <2>7. Total(B, "pkts") = Total(X, "pkts") + (k + 1)
    BY <1>3, <2>1, <2>2, <2>3, <2>4, <2>5
  <2>8. Directory(X) => Directory(B)
    BY <2>1, <2>2, DirectoryStep
  <2>9. Ok(B, k + 1)
    BY <2>1, <2>2, <2>6, <2>7, <2>8
  <2> QED BY <2>9 DEF B
<1>6. n \in T
  <2> HIDE DEF T
  <2> QED BY <1>1, <1>4, <1>5, FEach!SetInduction
<1>7. Ok(h[n], n)
  BY <1>1, <1>6
<1> QED BY <1>2, <1>7 DEF n

-----------------------------------------------------------------------------
(* An update: first the steps for the buffer as a whole, then its packets. *)
Before(X, buf, at) ==
  Gap(Window(SyncCount(Bitrate(OddLength(X, Len(buf) # UdpPackets, at), buf), buf, at), Len(buf), at), at)

LEMMA BeforeDoes ==
  ASSUME NEW X, IsStats(X), CalcOk(X.bc), NEW buf \in Seq(Packets), NEW at
  PROVE  LET Y == Before(X, buf, at)
             n == Len(buf)
             u == Cardinality(Unsynced(buf, n))
             turn == SecondOf(at) # X.st.at
         IN  /\ IsStats(Y) /\ Y.pids = X.pids /\ Y.array = X.array /\ Y.on = X.on
             /\ CalcOk(Y.bc) /\ (X.bc.ccSeen # X.st.cc => Y.bc.rate = X.bc.rate)
             /\ Y.st.at = SecondOf(at) /\ Y.st.win = (IF turn THEN 0 ELSE X.st.win) + n
             /\ Y.st.pps = IF turn THEN X.st.win ELSE X.st.pps
             /\ \A f \in {"seq", "BpsAt", "Bwin", "ambps", "abps"} : Y.st[f] = X.st[f]
             /\ \A k \in Five \ {"cc"} : Y.st[k] = X.st[k]
             /\ u \in Nat /\ Y.st.pkts = X.st.pkts + (n - u) /\ Y.st.cc = X.st.cc + u
             /\ \A e \in X.on \cap Errs : Y.heard[e] - ValueOf(Y, e) = X.heard[e] - ValueOf(X, e)
<1> DEFINE n == Len(buf)
           u == Cardinality(Unsynced(buf, n))
           turn == SecondOf(at) # X.st.at
           A == OddLength(X, Len(buf) # UdpPackets, at)
           B == Bitrate(A, buf)
           C == SyncCount(B, buf, at)
           D == Window(C, Len(buf), at)
           Y == Gap(D, at)
<1>0. Before(X, buf, at) = Y
  BY DEF Before
<1>1. Same(X, A) /\ A.bc = X.bc
  BY OddLengthSame
<1>2. IsStats(A) /\ CalcOk(A.bc) /\ A.st.cc = X.st.cc
  BY <1>1 DEF Same, Five
<1> HIDE DEF A
<1>3. Same(A, B) /\ CalcOk(B.bc) /\ (A.bc.ccSeen # A.st.cc => B.bc.rate = A.bc.rate)
  BY <1>2, BitrateSame
<1>4. Same(X, B) /\ IsStats(B)
  BY <1>1, <1>3, SameAgain DEF Same
<1> HIDE DEF B
<1>5. /\ IsStats(C) /\ C.bc = B.bc /\ C.pids = B.pids /\ C.array = B.array /\ C.on = B.on
      /\ \A f \in StRest : C.st[f] = B.st[f]
      /\ \A k \in Five \ {"cc"} : C.st[k] = B.st[k]
      /\ u \in Nat /\ C.st.pkts = B.st.pkts + (n - u) /\ C.st.cc = B.st.cc + u
      /\ \A e \in B.on \cap Errs : C.heard[e] - ValueOf(C, e) = B.heard[e] - ValueOf(B, e)
  BY <1>4, SyncCountDoes
<1> HIDE DEF C
<1>6. /\ IsStats(D) /\ D.bc = C.bc /\ D.pids = C.pids /\ D.array = C.array /\ D.on = C.on
      /\ D.st.at = SecondOf(at) /\ D.st.win = (IF SecondOf(at) # C.st.at THEN 0 ELSE C.st.win) + n
      /\ D.st.pps = IF SecondOf(at) # C.st.at THEN C.st.win ELSE C.st.pps
      /\ \A f \in {"pkts", "seq", "BpsAt", "Bwin", "ambps", "abps"} : D.st[f] = C.st[f]
      /\ \A k \in Five : D.st[k] = C.st[k]
      /\ \A e \in C.on \cap Errs : D.heard[e] - ValueOf(D, e) = C.heard[e] - ValueOf(C, e)
  BY <1>5, WindowTurns
<1> HIDE DEF D, n, u
<1>7. Same(D, Y) /\ Y.bc = D.bc
  BY <1>6, GapSame
<1> HIDE DEF Y
<1>8. /\ IsStats(Y) /\ Y.pids = X.pids /\ Y.array = X.array /\ Y.on = X.on
      /\ CalcOk(Y.bc) /\ (X.bc.ccSeen # X.st.cc => Y.bc.rate = X.bc.rate)
  BY <1>1, <1>2, <1>3, <1>4, <1>5, <1>6, <1>7 DEF Same
<1>9. \A f \in StRest : C.st[f] = X.st[f]
  BY <1>4, <1>5 DEF Same, StRest, StOther
<1>10. \A f \in StOther : Y.st[f] = D.st[f]
  BY <1>7 DEF Same
<1>11. /\ Y.st.at = SecondOf(at) /\ Y.st.win = (IF turn THEN 0 ELSE X.st.win) + n
       /\ Y.st.pps = IF turn THEN X.st.win ELSE X.st.pps
       /\ \A f \in {"seq", "BpsAt", "Bwin", "ambps", "abps"} : Y.st[f] = X.st[f]
  BY <1>6, <1>9, <1>10 DEF StOther, StRest
<1>12. /\ \A k \in Five \ {"cc"} : Y.st[k] = X.st[k]
       /\ Y.st.pkts = X.st.pkts + (n - u) /\ Y.st.cc = X.st.cc + u
  BY <1>4, <1>5, <1>6, <1>7 DEF Same, Five, StOther
<1>13. \A e \in X.on \cap Errs : Y.heard[e] - ValueOf(Y, e) = X.heard[e] - ValueOf(X, e)
  BY <1>4, <1>5, <1>6, <1>7 DEF Same
<1> QED BY <1>0, <1>5, <1>8, <1>11, <1>12, <1>13 DEF n, u

LEMMA UpdateSplits ==
  ASSUME NEW X, NEW buf, NEW at
  PROVE  PidStatsUpdate(X, buf, at) = [EachPacket(Before(X, buf, at), buf, at) EXCEPT !.st.lastFrame = at]
BY DEF PidStatsUpdate, Before

LEMMA UpdateDoes ==
  ASSUME NEW X, IsStats(X), CalcOk(X.bc), NEW buf \in Seq(Packets), NEW at
  PROVE  LET Y == PidStatsUpdate(X, buf, at)
             n == Len(buf)
             u == Cardinality(Unsynced(buf, n))
             turn == SecondOf(at) # X.st.at
         IN  /\ IsStats(Y) /\ Y.on = X.on
             /\ CalcOk(Y.bc) /\ (X.bc.ccSeen # X.st.cc => Y.bc.rate = X.bc.rate)
             /\ Y.st.at = SecondOf(at) /\ Y.st.win = (IF turn THEN 0 ELSE X.st.win) + n
             /\ Y.st.pps = IF turn THEN X.st.win ELSE X.st.pps
             /\ \A f \in {"seq", "BpsAt", "Bwin", "ambps", "abps"} : Y.st[f] = X.st[f]
             /\ u \in Nat /\ Y.st.pkts = X.st.pkts + (n - u) /\ Total(Y, "pkts") = Total(X, "pkts") + n
             /\ Y.st.cc - Total(Y, "cc") = X.st.cc + u - Total(X, "cc")
             /\ \A k \in Five \ {"cc"} : Y.st[k] - Total(Y, k) = X.st[k] - Total(X, k)
             /\ Directory(X) => Directory(Y)
             /\ \A e \in X.on \cap Errs : Y.heard[e] - ValueOf(Y, e) = X.heard[e] - ValueOf(X, e)
<1> DEFINE n == Len(buf)
           u == Cardinality(Unsynced(buf, n))
           turn == SecondOf(at) # X.st.at
           A == Before(X, buf, at)
           B == EachPacket(A, buf, at)
           Y == [B EXCEPT !.st.lastFrame = at]
<1>0. PidStatsUpdate(X, buf, at) = Y
  BY UpdateSplits
<1>1. /\ IsStats(A) /\ A.pids = X.pids /\ A.array = X.array /\ A.on = X.on
      /\ CalcOk(A.bc) /\ (X.bc.ccSeen # X.st.cc => A.bc.rate = X.bc.rate)
      /\ A.st.at = SecondOf(at) /\ A.st.win = (IF turn THEN 0 ELSE X.st.win) + n
      /\ A.st.pps = IF turn THEN X.st.win ELSE X.st.pps
      /\ \A f \in {"seq", "BpsAt", "Bwin", "ambps", "abps"} : A.st[f] = X.st[f]
      /\ \A k \in Five \ {"cc"} : A.st[k] = X.st[k]
      /\ u \in Nat /\ A.st.pkts = X.st.pkts + (n - u) /\ A.st.cc = X.st.cc + u
      /\ \A e \in X.on \cap Errs : A.heard[e] - ValueOf(A, e) = X.heard[e] - ValueOf(X, e)
  BY BeforeDoes
<1> HIDE DEF A
<1>2. /\ IsStats(B) /\ B.bc = A.bc /\ B.on = A.on
      /\ \A f \in StOther : B.st[f] = A.st[f]
      /\ \A c \in Five : B.st[c] - Total(B, c) = A.st[c] - Total(A, c)
      /\ Total(B, "pkts") = Total(A, "pkts") + n
      /\ Directory(A) => Directory(B)
      /\ \A e \in A.on \cap Errs : B.heard[e] - ValueOf(B, e) = A.heard[e] - ValueOf(A, e)
  BY <1>1, EachDoes
<1> HIDE DEF B
<1>3. Same(B, Y) /\ Y.bc = B.bc
  BY <1>2, LastFrameSame
<1> HIDE DEF Y, n, u
<1>4. \A c : Total(A, c) = Total(X, c) /\ Total(Y, c) = Total(B, c)
  <2>1. \A c : \A q \in Pids : Val(A, q, c) = Val(X, q, c) /\ Val(Y, q, c) = Val(B, q, c)
    BY <1>1, <1>3 DEF Val, Same
  <2> QED BY <2>1, SumKept
<1>5. (Directory(X) => Directory(A)) /\ (Directory(B) => Directory(Y))
  BY <1>1, <1>3 DEF Directory, Same
<1>6. \A f \in StOther : Y.st[f] = A.st[f]
  BY <1>2, <1>3 DEF Same
<1>7. \A c \in Five : Y.st[c] = B.st[c]
  BY <1>3 DEF Same
<1>8. /\ IsStats(Y) /\ Y.on = X.on
      /\ CalcOk(Y.bc) /\ (X.bc.ccSeen # X.st.cc => Y.bc.rate = X.bc.rate)
      /\ \A e \in X.on \cap Errs : Y.heard[e] - ValueOf(Y, e) = X.heard[e] - ValueOf(X, e)
      /\ Directory(X) => Directory(Y)
  BY <1>1, <1>2, <1>3, <1>5 DEF Same
<1>9. /\ Y.st.at = SecondOf(at) /\ Y.st.win = (IF turn THEN 0 ELSE X.st.win) + n
      /\ Y.st.pps = IF turn THEN X.st.win ELSE X.st.pps
      /\ \A f \in {"seq", "BpsAt", "Bwin", "ambps", "abps"} : Y.st[f] = X.st[f]
      /\ u \in Nat /\ Y.st.pkts = X.st.pkts + (n - u) /\ Total(Y, "pkts") = Total(X, "pkts") + n
  BY <1>1, <1>2, <1>4, <1>6 DEF StOther
<1>10. /\ Y.st.cc - Total(Y, "cc") = X.st.cc + u - Total(X, "cc")
       /\ \A k \in Five \ {"cc"} : Y.st[k] - Total(Y, k) = X.st[k] - Total(X, k)
  <2>1. \A c \in Five : Y.st[c] - Total(Y, c) = A.st[c] - Total(X, c)
    BY <1>2, <1>4, <1>7
  <2>2. "cc" \in Five
    BY DEF Five
  <2>3. Y.st.cc - Total(Y, "cc") = A.st.cc - Total(X, "cc") /\ A.st.cc = X.st.cc + u
    BY <1>1, <2>1, <2>2
  <2>4. \A k \in Five \ {"cc"} : Y.st[k] - Total(Y, k) = X.st[k] - Total(X, k)
    BY <1>1, <2>1
  <2>5. X.st.cc \in Int /\ u \in Int /\ Total(X, "cc") \in Int /\ Total(Y, "cc") \in Int /\ Y.st.cc \in Int
    <3>1. "cc" \in Six
      BY DEF Six
    <3> QED BY <1>1, <1>8, <3>1, TotalInt
  <2> QED BY <2>3, <2>4, <2>5
<1> QED BY <1>0, <1>8, <1>9, <1>10 DEF n, u

-----------------------------------------------------------------------------
(* The other operations.                                                   *)
LEMMA PidsKept ==
  ASSUME NEW X, NEW Y, Y.pids = X.pids
  PROVE  \A c : Total(Y, c) = Total(X, c)
<1>1. \A c : \A q \in Pids : Val(Y, q, c) = Val(X, q, c)
  BY DEF Val
<1> QED BY <1>1, SumKept

LEMMA ByteWindowDoes ==
  ASSUME NEW X, IsStats(X), NEW bytes, NEW at
  PROVE  LET Y == ByteWindow(X, bytes, at)
             turn == SecondOf(at) # X.st.BpsAt
         IN  /\ IsStats(Y) /\ Y.bc = X.bc /\ Y.pids = X.pids /\ Y.array = X.array /\ Y.on = X.on
             /\ Y.heard = X.heard
             /\ Y.st.BpsAt = SecondOf(at) /\ Y.st.Bwin = (IF turn THEN 0 ELSE X.st.Bwin) + bytes
             /\ Y.st.ambps = IF turn THEN X.st.Bwin * 8 ELSE X.st.ambps
             /\ Y.st.abps = IF turn THEN X.st.Bwin * 8 ELSE X.st.abps
             /\ \A f \in {"pkts", "seq", "at", "pps", "win"} : Y.st[f] = X.st[f]
             /\ \A k \in Five : Y.st[k] = X.st[k]
<1> DEFINE turn == SecondOf(at) # X.st.BpsAt
           z == X.st
           m == z.Bwin * 8
           s == [z EXCEPT !.Bps = z.Bwin, !.Bwin = 0, !.abps = m, !.ambps = m, !.BpsAt = SecondOf(at)]
           t == IF turn THEN s ELSE z
           y == [t EXCEPT !.Bwin = @ + bytes]
           Y == [X EXCEPT !.st = y]
<1>1. ByteWindow(X, bytes, at) = Y
  <2> DEFINE U == [X EXCEPT !.st.Bps = X.st.Bwin, !.st.Bwin = 0, !.st.abps = X.st.Bwin * 8,
                            !.st.ambps = X.st.Bwin * 8, !.st.BpsAt = SecondOf(at)]
             T == IF SecondOf(at) = X.st.BpsAt THEN X ELSE U
  <2>1. U = [X EXCEPT !.st = s]
    BY DEF IsStats, Top
  <2>2. ByteWindow(X, bytes, at) = [T EXCEPT !.st.Bwin = @ + bytes]
    BY DEF ByteWindow
  <2>3. CASE turn
    <3>1. T = U /\ t = s
      BY <2>3
    <3> HIDE DEF U, T, s, t
    <3> QED BY <2>1, <2>2, <3>1 DEF IsStats, Top
  <2>4. CASE ~turn
    <3>1. T = X /\ t = z
      BY <2>4
    <3> HIDE DEF T, t
    <3> QED BY <2>2, <3>1
  <2> QED BY <2>3, <2>4
<1>2. IsStream(z)
  BY DEF IsStats
<1>3. IsStream(s) /\ s.BpsAt = SecondOf(at) /\ s.Bwin = 0 /\ s.ambps = z.Bwin * 8 /\ s.abps = z.Bwin * 8
      /\ (\A f \in {"pkts", "seq", "at", "pps", "win"} : s[f] = z[f]) /\ \A k \in Five : s[k] = z[k]
  <2>1. s.BpsAt = SecondOf(at) /\ s.Bwin = 0 /\ s.ambps = m /\ s.abps = m /\ DOMAIN s = DOMAIN z
        /\ (\A f \in {"pkts", "seq", "at", "pps", "win"} : s[f] = z[f]) /\ \A k \in Five : s[k] = z[k]
    <3> HIDE DEF z, m
    <3> QED BY <1>2 DEF IsStream, StOther, Five
  <2> HIDE DEF s, z
  <2>2. \A c \in Six : s[c] = z[c]
    BY <2>1 DEF Six, Five
  <2> QED BY <1>2, <2>1, <2>2 DEF IsStream
<1> HIDE DEF s
<1>4. IsStream(t) /\ t.BpsAt = SecondOf(at) /\ t.Bwin = (IF turn THEN 0 ELSE z.Bwin)
      /\ t.ambps = (IF turn THEN z.Bwin * 8 ELSE z.ambps)
      /\ t.abps = (IF turn THEN z.Bwin * 8 ELSE z.abps)
      /\ (\A f \in {"pkts", "seq", "at", "pps", "win"} : t[f] = z[f]) /\ \A k \in Five : t[k] = z[k]
  <2>1. CASE turn
    BY <1>3, <2>1
  <2>2. CASE ~turn
    BY <1>2, <2>2
  <2> QED BY <2>1, <2>2
<1> HIDE DEF t
<1>5. IsStream(y) /\ y.BpsAt = SecondOf(at) /\ y.Bwin = (IF turn THEN 0 ELSE z.Bwin) + bytes
      /\ y.ambps = (IF turn THEN z.Bwin * 8 ELSE z.ambps)
      /\ y.abps = (IF turn THEN z.Bwin * 8 ELSE z.abps)
      /\ (\A f \in {"pkts", "seq", "at", "pps", "win"} : y[f] = z[f]) /\ \A k \in Five : y[k] = z[k]
  <2> HIDE DEF z, turn
  <2> QED BY <1>4 DEF IsStream, StOther, Five, Six
<1> HIDE DEF y
<1>6. Y.st = y /\ Y.on = X.on /\ Y.pids = X.pids /\ Y.array = X.array /\ Y.heard = X.heard
      /\ Y.bc = X.bc /\ IsStats(Y)
  BY <1>5 DEF IsStats, Top
<1> HIDE DEF Y
<1> QED BY <1>1, <1>5, <1>6

(* A frame is counted, with its sequence number or without one.            *)
FrameMore(X, W, seq) ==
  /\ IsStats(W) /\ W.bc = X.bc /\ W.pids = X.pids /\ W.array = X.array /\ W.on = X.on
  /\ W.heard = X.heard
  /\ W.st.pkts = X.st.pkts + 1
  /\ \A f \in {"at", "pps", "win", "BpsAt", "Bwin", "ambps", "abps"} : W.st[f] = X.st[f]
  /\ W.st.seq = seq
  /\ \A k \in Five : W.st[k] = X.st[k]

LEMMA FrameCounted ==
  ASSUME NEW X, IsStats(X), NEW seq
  PROVE  FrameMore(X, [X EXCEPT !.st.seq = seq, !.st.pkts = @ + 1], seq)
<1> DEFINE z == X.st
           y == [z EXCEPT !.seq = seq, !.pkts = @ + 1]
           W == [X EXCEPT !.st.seq = seq, !.st.pkts = @ + 1]
<1>1. W = [X EXCEPT !.st = y]
  BY DEF IsStats, Top
<1>2. IsStream(z)
  BY DEF IsStats
<1>3. IsStream(y) /\ y.pkts = z.pkts + 1 /\ y.seq = seq
      /\ (\A f \in {"at", "pps", "win", "BpsAt", "Bwin", "ambps", "abps"} : y[f] = z[f]) /\ \A k \in Five : y[k] = z[k]
  <2> HIDE DEF z
  <2> QED BY <1>2 DEF IsStream, StOther, Five, Six
<1> HIDE DEF y, W
<1>5. W.st = y /\ W.on = X.on /\ W.pids = X.pids /\ W.array = X.array /\ W.heard = X.heard
      /\ W.bc = X.bc /\ IsStats(W)
  BY <1>1, <1>3 DEF IsStats, Top
<1>6. FrameMore(X, W, seq)
  BY <1>3, <1>5 DEF FrameMore
<1> QED BY <1>6 DEF W

LEMMA PacketCounted ==
  ASSUME NEW X, IsStats(X)
  PROVE  LET W == [X EXCEPT !.st.pkts = @ + 1]
         IN  /\ IsStats(W) /\ W.bc = X.bc /\ W.pids = X.pids /\ W.array = X.array /\ W.on = X.on
             /\ W.heard = X.heard
             /\ W.st.pkts = X.st.pkts + 1
             /\ \A f \in {"at", "pps", "win", "BpsAt", "Bwin", "ambps", "abps", "seq"} : W.st[f] = X.st[f]
             /\ \A k \in Five : W.st[k] = X.st[k]
<1> DEFINE z == X.st
           y == [z EXCEPT !.pkts = @ + 1]
           W == [X EXCEPT !.st.pkts = @ + 1]
<1>1. W = [X EXCEPT !.st = y]
  BY DEF IsStats, Top
<1>2. IsStream(z)
  BY DEF IsStats
<1>3. IsStream(y) /\ y.pkts = z.pkts + 1
      /\ (\A f \in {"at", "pps", "win", "BpsAt", "Bwin", "ambps", "abps", "seq"} : y[f] = z[f]) /\ \A k \in Five : y[k] = z[k]
  <2> HIDE DEF z
  <2> QED BY <1>2 DEF IsStream, StOther, Five, Six
<1> HIDE DEF y, W
<1>5. W.st = y /\ W.on = X.on /\ W.pids = X.pids /\ W.array = X.array /\ W.heard = X.heard
      /\ W.bc = X.bc /\ IsStats(W)
  BY <1>1, <1>3 DEF IsStats, Top
<1>6. /\ IsStats(W) /\ W.bc = X.bc /\ W.pids = X.pids /\ W.array = X.array /\ W.on = X.on
      /\ W.heard = X.heard
      /\ W.st.pkts = X.st.pkts + 1
      /\ \A f \in {"at", "pps", "win", "BpsAt", "Bwin", "ambps", "abps", "seq"} : W.st[f] = X.st[f]
      /\ \A k \in Five : W.st[k] = X.st[k]
  BY <1>3, <1>5
<1> QED BY <1>6 DEF W

LEMMA BytestreamDoes ==
  ASSUME NEW X, IsStats(X), NEW bytes, NEW full, NEW at
  PROVE  LET Y == BytestreamUpdate(X, bytes, full, at)
             turn == SecondOf(at) # X.st.BpsAt
         IN  /\ IsStats(Y) /\ Y.bc = X.bc /\ Y.pids = X.pids /\ Y.array = X.array /\ Y.on = X.on
             /\ Y.st.pkts = X.st.pkts + 1
             /\ Y.st.BpsAt = SecondOf(at) /\ Y.st.Bwin = (IF turn THEN 0 ELSE X.st.Bwin) + bytes
             /\ Y.st.ambps = IF turn THEN X.st.Bwin * 8 ELSE X.st.ambps
             /\ Y.st.abps = IF turn THEN X.st.Bwin * 8 ELSE X.st.abps
             /\ \A f \in {"seq", "at", "pps", "win"} : Y.st[f] = X.st[f]
             /\ \A k \in Five : Y.st[k] = X.st[k]
             /\ \A e \in X.on \cap Errs : Y.heard[e] - ValueOf(Y, e) = X.heard[e] - ValueOf(X, e)
<1> DEFINE A == [X EXCEPT !.st.pkts = @ + 1]
           B == OddLength(A, ~full, at)
           Y == ByteWindow(B, bytes, at)
<1>0. BytestreamUpdate(X, bytes, full, at) = Y
  BY DEF BytestreamUpdate
<1>1. /\ IsStats(A) /\ A.bc = X.bc /\ A.pids = X.pids /\ A.array = X.array /\ A.on = X.on
      /\ A.heard = X.heard
      /\ A.st.pkts = X.st.pkts + 1
      /\ \A f \in {"at", "pps", "win", "BpsAt", "Bwin", "ambps", "abps", "seq"} : A.st[f] = X.st[f]
      /\ \A k \in Five : A.st[k] = X.st[k]
  BY PacketCounted
<1> HIDE DEF A
<1>2. Same(A, B) /\ B.bc = A.bc
  BY <1>1, OddLengthSame
<1> HIDE DEF B
<1>3. IsStats(B)
  BY <1>2 DEF Same
<1>4. /\ IsStats(Y) /\ Y.bc = B.bc /\ Y.pids = B.pids /\ Y.array = B.array /\ Y.on = B.on
      /\ Y.heard = B.heard
      /\ Y.st.BpsAt = SecondOf(at) /\ Y.st.Bwin = (IF SecondOf(at) # B.st.BpsAt THEN 0 ELSE B.st.Bwin) + bytes
      /\ Y.st.ambps = IF SecondOf(at) # B.st.BpsAt THEN B.st.Bwin * 8 ELSE B.st.ambps
      /\ Y.st.abps = IF SecondOf(at) # B.st.BpsAt THEN B.st.Bwin * 8 ELSE B.st.abps
      /\ \A f \in {"pkts", "seq", "at", "pps", "win"} : Y.st[f] = B.st[f]
      /\ \A k \in Five : Y.st[k] = B.st[k]
  BY <1>3, ByteWindowDoes
<1> HIDE DEF Y
<1>5. \A f \in StOther : B.st[f] = A.st[f]
  BY <1>2 DEF Same
<1>6. \A k \in Five : Y.st[k] = X.st[k]
  BY <1>1, <1>2, <1>4 DEF Same
<1>7. \A e \in X.on \cap Errs : Y.heard[e] - ValueOf(Y, e) = X.heard[e] - ValueOf(X, e)
  <2>1. \A e \in Errs : ValueOf(Y, e) = ValueOf(B, e) /\ ValueOf(A, e) = ValueOf(X, e)
    BY <1>1, <1>4 DEF ValueOf, Errs, Five
  <2> QED BY <1>1, <1>2, <1>4, <2>1 DEF Same
<1>8. /\ Y.st.pkts = X.st.pkts + 1
      /\ Y.st.BpsAt = SecondOf(at)
      /\ Y.st.Bwin = (IF SecondOf(at) # X.st.BpsAt THEN 0 ELSE X.st.Bwin) + bytes
      /\ Y.st.ambps = IF SecondOf(at) # X.st.BpsAt THEN X.st.Bwin * 8 ELSE X.st.ambps
      /\ Y.st.abps = IF SecondOf(at) # X.st.BpsAt THEN X.st.Bwin * 8 ELSE X.st.abps
      /\ \A f \in {"seq", "at", "pps", "win"} : Y.st[f] = X.st[f]
  BY <1>1, <1>4, <1>5 DEF StOther
<1> QED BY <1>0, <1>1, <1>2, <1>4, <1>6, <1>7, <1>8 DEF Same

LEMMA CtpDoes ==
  ASSUME NEW X, IsStats(X), NEW bytes, NEW full, NEW seq, NEW at
  PROVE  LET Y == CtpUpdate(X, bytes, full, seq, at)
             turn == SecondOf(at) # X.st.BpsAt
             gone == (X.st.seq + 1) % 65536 # seq /\ X.st.pkts > 0
         IN  /\ IsStats(Y) /\ Y.bc = X.bc /\ Y.pids = X.pids /\ Y.array = X.array /\ Y.on = X.on
             /\ \A f \in {"at", "pps", "win"} : Y.st[f] = X.st[f]
             /\ \A k \in Five \ {"cc"} : Y.st[k] = X.st[k]
             /\ \A e \in X.on \cap Errs : Y.heard[e] - ValueOf(Y, e) = X.heard[e] - ValueOf(X, e)
             /\ IF bytes < 4
                THEN Y.st.cc = X.st.cc /\ \A f \in {"pkts", "seq", "BpsAt", "Bwin", "ambps", "abps"} : Y.st[f] = X.st[f]
                ELSE /\ Y.st.pkts = X.st.pkts + 1 /\ Y.st.seq = seq
                     /\ Y.st.cc = X.st.cc + (IF gone THEN 1 ELSE 0)
                     /\ Y.st.BpsAt = SecondOf(at) /\ Y.st.Bwin = (IF turn THEN 0 ELSE X.st.Bwin) + bytes
                     /\ Y.st.ambps = IF turn THEN X.st.Bwin * 8 ELSE X.st.ambps
                     /\ Y.st.abps = IF turn THEN X.st.Bwin * 8 ELSE X.st.abps
<1> DEFINE gone == (X.st.seq + 1) % 65536 # seq /\ X.st.pkts > 0
           A == OddLength(X, ~full, at)
           B == IF gone THEN StreamCcError(A, at) ELSE A
           C == [B EXCEPT !.st.seq = seq, !.st.pkts = @ + 1]
           Y == ByteWindow(C, bytes, at)
<1>0. CtpUpdate(X, bytes, full, seq, at) = IF bytes < 4 THEN A ELSE Y
  BY DEF CtpUpdate
<1>1. Same(X, A) /\ A.bc = X.bc
  BY OddLengthSame
<1> HIDE DEF A, gone
<1>2. IsStats(A) /\ A.pids = X.pids /\ A.array = X.array /\ A.on = X.on
  BY <1>1 DEF Same
<1>3. \A k \in Six : X.st[k] \in Int /\ A.st[k] \in Int
  BY <1>2 DEF IsStats, IsStream
<1>4. /\ IsStats(B) /\ B.bc = A.bc /\ B.pids = A.pids /\ B.array = A.array /\ B.on = A.on
      /\ \A f \in StOther : B.st[f] = A.st[f]
      /\ \A k \in Five \ {"cc"} : B.st[k] = A.st[k]
      /\ B.st.cc = A.st.cc + (IF gone THEN 1 ELSE 0)
      /\ \A e \in A.on \cap Errs : B.heard[e] - ValueOf(B, e) = A.heard[e] - ValueOf(A, e)
  <2>1. CASE gone
    <3> DEFINE U == StreamCcError(A, at)
    <3>1. /\ IsStats(U) /\ U.bc = A.bc /\ U.pids = A.pids /\ U.array = A.array /\ U.on = A.on
          /\ \A f \in StOther : U.st[f] = A.st[f]
          /\ \A k \in Five : U.st[k] = A.st[k] + IF k = "cc" THEN 1 ELSE 0
          /\ \A e \in A.on \cap Errs : U.heard[e] - ValueOf(U, e) = A.heard[e] - ValueOf(A, e)
      BY <1>2, CcCounted
    <3> HIDE DEF U
    <3>2. B = U
      BY <2>1 DEF U
    <3>3. U.st.cc = A.st.cc + 1 /\ \A k \in Five \ {"cc"} : U.st[k] = A.st[k]
      BY <1>3, <3>1 DEF Five, Six
    <3> HIDE DEF B
    <3> QED BY <2>1, <3>1, <3>2, <3>3
  <2>2. CASE ~gone
    <3>1. B = A
      BY <2>2
    <3>2. A.st.cc = A.st.cc + 0
      BY <1>3 DEF Six
    <3> HIDE DEF B
    <3> QED BY <1>2, <2>2, <3>1, <3>2
  <2> QED BY <2>1, <2>2
<1> HIDE DEF B
<1>5. /\ IsStats(C) /\ C.bc = B.bc /\ C.pids = B.pids /\ C.array = B.array /\ C.on = B.on
      /\ C.heard = B.heard
      /\ C.st.pkts = B.st.pkts + 1
      /\ \A f \in {"at", "pps", "win", "BpsAt", "Bwin", "ambps", "abps"} : C.st[f] = B.st[f]
      /\ C.st.seq = seq
      /\ \A k \in Five : C.st[k] = B.st[k]
  <2>1. IsStats(B)
    BY <1>4
  <2>2. FrameMore(B, C, seq)
    BY <2>1, FrameCounted
  <2> QED BY <2>2 DEF FrameMore
<1> HIDE DEF C
<1>6. /\ IsStats(Y) /\ Y.bc = C.bc /\ Y.pids = C.pids /\ Y.array = C.array /\ Y.on = C.on
      /\ Y.heard = C.heard
      /\ Y.st.BpsAt = SecondOf(at) /\ Y.st.Bwin = (IF SecondOf(at) # C.st.BpsAt THEN 0 ELSE C.st.Bwin) + bytes
      /\ Y.st.ambps = IF SecondOf(at) # C.st.BpsAt THEN C.st.Bwin * 8 ELSE C.st.ambps
      /\ Y.st.abps = IF SecondOf(at) # C.st.BpsAt THEN C.st.Bwin * 8 ELSE C.st.abps
      /\ \A f \in {"pkts", "seq", "at", "pps", "win"} : Y.st[f] = C.st[f]
      /\ \A k \in Five : Y.st[k] = C.st[k]
  BY <1>5, ByteWindowDoes
<1> HIDE DEF Y
<1>7. (\A f \in StOther : A.st[f] = X.st[f]) /\ \A k \in Five : A.st[k] = X.st[k]
  BY <1>1 DEF Same
<1>8. CASE bytes < 4
  BY <1>0, <1>1, <1>2, <1>7, <1>8 DEF Same, StOther, Five
<1>9. CASE ~(bytes < 4)
  <2>1. \A e \in Errs : ValueOf(Y, e) = ValueOf(B, e)
    BY <1>5, <1>6 DEF ValueOf, Errs, Five
  <2>2. \A e \in X.on \cap Errs : Y.heard[e] - ValueOf(Y, e) = X.heard[e] - ValueOf(X, e)
    BY <1>1, <1>2, <1>4, <1>5, <1>6, <2>1 DEF Same
  <2>3. \A f \in StOther : B.st[f] = X.st[f]
    BY <1>4, <1>7
  <2>4. /\ Y.st.pkts = X.st.pkts + 1 /\ Y.st.seq = seq
        /\ Y.st.BpsAt = SecondOf(at)
        /\ Y.st.Bwin = (IF SecondOf(at) # X.st.BpsAt THEN 0 ELSE X.st.Bwin) + bytes
        /\ Y.st.ambps = IF SecondOf(at) # X.st.BpsAt THEN X.st.Bwin * 8 ELSE X.st.ambps
        /\ Y.st.abps = IF SecondOf(at) # X.st.BpsAt THEN X.st.Bwin * 8 ELSE X.st.abps
        /\ \A f \in {"at", "pps", "win"} : Y.st[f] = X.st[f]
    BY <1>5, <1>6, <2>3 DEF StOther
  <2>5. Y.st.cc = X.st.cc + (IF gone THEN 1 ELSE 0) /\ \A k \in Five \ {"cc"} : Y.st[k] = X.st[k]
    <3>1. "cc" \in Five
      BY DEF Five
    <3> QED BY <1>4, <1>5, <1>6, <1>7, <3>1
  <2> QED BY <1>0, <1>1, <1>2, <1>4, <1>5, <1>6, <1>9, <2>2, <2>4, <2>5 DEF gone
<1> QED BY <1>8, <1>9

-----------------------------------------------------------------------------
(* Operations that count nothing.                                          *)
Kept(X, Y) ==
  /\ IsStats(Y) /\ Y.on = X.on /\ Y.heard = X.heard /\ Y.st = X.st
  /\ \A c \in Six : Total(Y, c) = Total(X, c)
  /\ Directory(X) => Directory(Y)

LEMMA SetPcrDoes ==
  ASSUME NEW X, IsStats(X), CalcOk(X.bc), NEW pid \in Pids
  PROVE  LET Y == SetContainsPcr(X, pid) IN Kept(X, Y) /\ CalcOk(Y.bc)
<1> DEFINE A == Discover(X, pid)
           p == A.pids[pid]
           q == [p EXCEPT !.hasPCR = TRUE]
           B == [A EXCEPT !.pids[pid] = q]
           b == [B.bc EXCEPT !.pid = pid, !.ccSeen = B.st.cc]
           c == CalcReset(b)
           Y == [B EXCEPT !.bc = c]
<1>0. SetContainsPcr(X, pid) = Y
  <2>1. B = [A EXCEPT !.pids[pid].hasPCR = TRUE]
    OBVIOUS
  <2>2. SetContainsPcr(X, pid) = CalcInit(B, pid)
    BY <2>1 DEF SetContainsPcr
  <2> HIDE DEF B
  <2> QED BY <2>2 DEF CalcInit
<1>1. /\ IsStats(A) /\ A.st = X.st /\ A.bc = X.bc /\ A.on = X.on /\ A.heard = X.heard
      /\ DOMAIN A.pids = DOMAIN X.pids \cup {pid}
      /\ \A r \in DOMAIN X.pids : A.pids[r] = X.pids[r]
      /\ pid \notin DOMAIN X.pids => A.pids[pid] = PidStart
      /\ A.array = IF pid \in DOMAIN X.pids THEN X.array ELSE Append(X.array, pid)
      /\ \A d \in {"pkts", "cc", "tei", "scr", "exc", "pusiErr", "at"} : A.pids[pid][d] = Val(X, pid, d)
  BY Discovered
<1> HIDE DEF A
<1>2. IsPid(p)
  BY <1>1 DEF IsStats
<1>3. IsPid(q) /\ \A d \in Six : q[d] = p[d]
  <2> HIDE DEF p
  <2> QED BY <1>2 DEF IsPid, Six
<1> HIDE DEF q
<1>4. B.st = A.st /\ B.pids[pid] = q /\ B.heard = A.heard
      /\ IsStats(B) /\ B.on = A.on /\ B.bc = A.bc /\ B.array = A.array
      /\ DOMAIN B.pids = DOMAIN A.pids /\ \A r \in DOMAIN A.pids \ {pid} : B.pids[r] = A.pids[r]
  BY <1>1, <1>3 DEF IsStats, Top
<1> HIDE DEF B
<1>5. CalcOk(c)
  <2>1. {"first", "ccSeen", "ccAtFirst", "rate"} \subseteq DOMAIN b
    BY <1>1, <1>4 DEF CalcOk
  <2> HIDE DEF b
  <2> QED BY <2>1 DEF CalcReset, CalcOk
<1> HIDE DEF c
<1>6. Y.st = B.st /\ Y.on = B.on /\ Y.pids = B.pids /\ Y.array = B.array /\ Y.heard = B.heard
      /\ Y.bc = c /\ IsStats(Y)
  BY <1>4 DEF IsStats, Top
<1> HIDE DEF Y
<1>7. \A d \in Six : Y.pids[pid][d] = Val(X, pid, d)
  BY <1>1, <1>3, <1>4, <1>6 DEF Six
<1>8. DOMAIN Y.pids = DOMAIN X.pids \cup {pid} /\ \A r \in DOMAIN X.pids \ {pid} : Y.pids[r] = X.pids[r]
  BY <1>1, <1>4, <1>6
<1>9. ASSUME NEW d \in Six PROVE Total(Y, d) = Total(X, d)
  <2>1. \A r \in Pids : Val(Y, r, d) = Val(X, r, d)
    BY <1>7, <1>8 DEF Val
  <2> QED BY <2>1, SumKept
<1>10. Directory(X) => Directory(Y)
  BY <1>1, <1>4, <1>6, <1>8, DirectoryStep
<1> QED BY <1>0, <1>1, <1>4, <1>5, <1>6, <1>9, <1>10 DEF Kept

LEMMA CloneDoes ==
  ASSUME NEW X, IsStats(X), Directory(X)
  PROVE  LET Y == StatsClone(X) IN Kept(X, Y) /\ Y.bc = X.bc
<1> DEFINE a == SubSeq(X.array, 1, Len(X.array))
           f == [p \in DOMAIN X.pids |-> X.pids[p]]
           Y == [X EXCEPT !.array = a, !.pids = f]
<1>0. StatsClone(X) = Y
  BY DEF StatsClone
<1>1. a = X.array
  <2> DEFINE s == X.array
  <2>1. s \in Seq(Pids)
    BY DEF Directory
  <2> HIDE DEF s
  <2>2. SubSeq(s, 1, Len(s)) = s
    BY <2>1
  <2> QED BY <2>2 DEF s
<1>2. DOMAIN f = DOMAIN X.pids /\ \A p \in DOMAIN X.pids : f[p] = X.pids[p]
  OBVIOUS
<1> HIDE DEF a, f
<1>3. Y.st = X.st /\ Y.on = X.on /\ Y.pids = f /\ Y.array = a /\ Y.heard = X.heard /\ Y.bc = X.bc
      /\ Top \subseteq DOMAIN Y
  BY DEF IsStats, Top
<1> HIDE DEF Y
<1>4. IsStats(Y)
  BY <1>2, <1>3 DEF IsStats
<1>5. ASSUME NEW d \in Six PROVE Total(Y, d) = Total(X, d)
  <2>1. \A r \in Pids : Val(Y, r, d) = Val(X, r, d)
    BY <1>2, <1>3 DEF Val
  <2> QED BY <2>1, SumKept
<1>6. Directory(Y)
  BY <1>1, <1>2, <1>3 DEF Directory
<1> QED BY <1>0, <1>3, <1>4, <1>5, <1>6 DEF Kept

LEMMA RegisterDoes ==
  ASSUME NEW X, IsStats(X), NEW e \in Events
  PROVE  LET Y == Register(X, e)
         IN  /\ IsStats(Y) /\ Y.st = X.st /\ Y.bc = X.bc /\ Y.pids = X.pids /\ Y.array = X.array
             /\ Y.on = X.on \cup {e} /\ Y.heard[e] = 0 /\ \A d \in Events \ {e} : Y.heard[d] = X.heard[d]
<1> DEFINE h == [X.heard EXCEPT ![e] = 0]
           Y == [X EXCEPT !.on = X.on \cup {e}, !.heard = h]
<1>0. Register(X, e) = Y
  BY DEF Register, IsStats, Top
<1>1. IsHeard(h) /\ h[e] = 0 /\ \A d \in Events \ {e} : h[d] = X.heard[d]
  BY DEF IsStats, IsHeard
<1> HIDE DEF h
<1>2. Y.st = X.st /\ Y.on = X.on \cup {e} /\ Y.pids = X.pids /\ Y.array = X.array /\ Y.heard = h
      /\ Y.bc = X.bc /\ IsStats(Y)
  BY <1>1 DEF IsStats, Top
<1> HIDE DEF Y
<1> QED BY <1>0, <1>1, <1>2

LEMMA UnregisterDoes ==
  ASSUME NEW X, IsStats(X)
  PROVE  LET Y == Unregister(X, X.on)
         IN  /\ IsStats(Y) /\ Y.st = X.st /\ Y.bc = X.bc /\ Y.pids = X.pids /\ Y.array = X.array
             /\ Y.on = {}
BY DEF Unregister, IsStats, Top

LEMMA ResetDoes ==
  ASSUME NEW X, IsStats(X), CalcOk(X.bc)
  PROVE  LET Y == StatsReset([X EXCEPT !.heard = [e \in Events |-> 0]])
         IN  /\ IsStats(Y) /\ CalcOk(Y.bc) /\ Y.st = StreamStart /\ Y.on = X.on
             /\ \A e \in Events : Y.heard[e] = 0
             /\ \A c \in Six : Total(Y, c) = 0
             /\ Directory(X) => Directory(Y)
<1> DEFINE o == [e \in Events |-> 0]
           A == [X EXCEPT !.heard = o]
           b == CalcReset(A.bc)
           f == [p \in DOMAIN A.pids |-> PidReset(A.pids[p])]
           Y == [A EXCEPT !.st = StreamStart, !.bc = b, !.pids = f]
<1>0. StatsReset(A) = Y
  BY DEF StatsReset
<1>1. A.bc = X.bc /\ A.pids = X.pids /\ A.array = X.array /\ A.on = X.on /\ A.heard = o /\ DOMAIN A = DOMAIN X
  BY DEF IsStats, Top
<1> HIDE DEF A
<1>2. CalcOk(b)
  BY <1>1, CalcResetOk
<1>3. \A p : IsPid(PidReset(p)) /\ \A c \in Six : PidReset(p)[c] = 0
  <2> TAKE p
  <2> DEFINE k == [p.clk EXCEPT !.hwm = 0, !.lwm = 0, !.wall = FALSE]
             q == [PidStart EXCEPT !.hasPCR = p.hasPCR, !.clk = k]
  <2>1. PidReset(p) = q
    BY DEF PidReset
  <2> HIDE DEF k
  <2>2. {"lastCC", "at"} \subseteq DOMAIN q /\ \A c \in Six : c \in DOMAIN q /\ q[c] = 0
    BY DEF PidStart, Six
  <2> HIDE DEF q
  <2> QED BY <2>1, <2>2 DEF IsPid
<1>4. DOMAIN f = DOMAIN X.pids /\ \A p \in DOMAIN X.pids : IsPid(f[p]) /\ \A c \in Six : f[p][c] = 0
  BY <1>1, <1>3
<1>5. IsStream(StreamStart)
  BY DEF StreamStart, IsStream, Five, StOther, Six
<1>6. IsHeard(o) /\ \A e \in Events : o[e] = 0
  BY DEF IsHeard
<1> HIDE DEF b, f, o
<1>7. Y.st = StreamStart /\ Y.on = A.on /\ Y.pids = f /\ Y.array = A.array /\ Y.heard = A.heard /\ Y.bc = b
      /\ Top \subseteq DOMAIN Y
  BY <1>1 DEF IsStats, Top
<1> HIDE DEF Y
<1>8. IsStats(Y)
  BY <1>1, <1>4, <1>5, <1>6, <1>7 DEF IsStats
<1>9. ASSUME NEW d \in Six PROVE Total(Y, d) = 0
  <2>1. \A r \in Pids : Val(Y, r, d) = 0
    BY <1>4, <1>7 DEF Val
  <2> QED BY <2>1, SumZero
<1>10. Directory(X) => Directory(Y)
  BY <1>1, <1>4, <1>7 DEF Directory
<1> QED BY <1>0, <1>1, <1>2, <1>6, <1>7, <1>8, <1>9, <1>10 DEF A, o

LEMMA ExpirePidDoes ==
  ASSUME NEW X, IsStats(X), NEW pid \in Pids, NEW at
  PROVE  LET Y == ExpirePid(X, pid, at) IN Kept(X, Y) /\ Y.bc = X.bc
<1> DEFINE p == X.pids[pid]
           q == [p EXCEPT !.pps = 0, !.win = 0]
           Y == [X EXCEPT !.pids[pid] = q]
           go == pid \in DOMAIN X.pids /\ SecondOf(at) > X.pids[pid].at + 2
<1>1. CASE ~go
  <2>1. ExpirePid(X, pid, at) = X
    BY <1>1 DEF ExpirePid
  <2> QED BY <2>1 DEF Kept
<1>2. CASE go
  <2>0. ExpirePid(X, pid, at) = Y
    BY <1>2 DEF ExpirePid, IsStats, Top
  <2>1. IsPid(p)
    BY <1>2 DEF IsStats
  <2>2. IsPid(q) /\ \A d \in Six : q[d] = p[d]
    <3> HIDE DEF p
    <3> QED BY <2>1 DEF IsPid, Six
  <2> HIDE DEF q
  <2>3. Y.st = X.st /\ Y.pids[pid] = q /\ Y.heard = X.heard
        /\ IsStats(Y) /\ Y.on = X.on /\ Y.bc = X.bc /\ Y.array = X.array
        /\ DOMAIN Y.pids = DOMAIN X.pids /\ \A r \in DOMAIN X.pids \ {pid} : Y.pids[r] = X.pids[r]
    BY <1>2, <2>2 DEF IsStats, Top
  <2> HIDE DEF Y
  <2>4. ASSUME NEW d \in Six PROVE Total(Y, d) = Total(X, d)
    <3>1. \A r \in Pids : Val(Y, r, d) = Val(X, r, d)
      BY <1>2, <2>2, <2>3 DEF Val
    <3> QED BY <3>1, SumKept
  <2>5. Directory(X) => Directory(Y)
    BY <2>3 DEF Directory
  <2> QED BY <2>0, <2>3, <2>4, <2>5 DEF Kept
<1> QED BY <1>1, <1>2

LEMMA ExpireStreamDoes ==
  ASSUME NEW X, IsStats(X), NEW at
  PROVE  LET Y == ExpireStream(X, at)
             b == X.st.Bwin > 0 /\ SecondOf(at) > X.st.BpsAt + 2
             t == SecondOf(at) > X.st.at + 2
         IN  /\ IsStats(Y) /\ Y.bc = X.bc /\ Y.pids = X.pids /\ Y.array = X.array /\ Y.on = X.on
             /\ Y.heard = X.heard
             /\ \A f \in {"pkts", "seq", "at", "BpsAt", "abps"} : Y.st[f] = X.st[f]
             /\ \A k \in Five : Y.st[k] = X.st[k]
             /\ Y.st.ambps = (IF b THEN 0 ELSE X.st.ambps) /\ Y.st.Bwin = (IF b THEN 0 ELSE X.st.Bwin)
             /\ Y.st.pps = (IF ~b /\ t THEN 0 ELSE X.st.pps) /\ Y.st.win = (IF ~b /\ t THEN 0 ELSE X.st.win)
<1> DEFINE z == X.st
           b == X.st.Bwin > 0 /\ SecondOf(at) > X.st.BpsAt + 2
           t == SecondOf(at) > X.st.at + 2
           s == [z EXCEPT !.ambps = 0, !.Bps = 0, !.Bwin = 0]
           w == [z EXCEPT !.pps = 0, !.win = 0]
           A == [X EXCEPT !.st.ambps = 0, !.st.Bps = 0, !.st.Bwin = 0]
           B == [X EXCEPT !.st.pps = 0, !.st.win = 0]
<1>0. ExpireStream(X, at) = IF b THEN A ELSE IF t THEN B ELSE X
  BY DEF ExpireStream
<1>1. A = [X EXCEPT !.st = s] /\ B = [X EXCEPT !.st = w]
  BY DEF IsStats, Top
<1>2. IsStream(z)
  BY DEF IsStats
<1>3. /\ IsStream(s) /\ (\A f \in {"pkts", "seq", "at", "BpsAt", "abps", "pps", "win"} : s[f] = z[f])
      /\ (\A k \in Five : s[k] = z[k]) /\ s.ambps = 0 /\ s.Bwin = 0
  <2> HIDE DEF z
  <2> QED BY <1>2 DEF IsStream, StOther, Five, Six
<1>4. /\ IsStream(w) /\ (\A f \in {"pkts", "seq", "at", "BpsAt", "ambps", "abps", "Bwin"} : w[f] = z[f])
      /\ (\A k \in Five : w[k] = z[k]) /\ w.pps = 0 /\ w.win = 0
  <2> HIDE DEF z
  <2> QED BY <1>2 DEF IsStream, StOther, Five, Six
<1> HIDE DEF s, w, A, B
<1>5. A.st = s /\ A.on = X.on /\ A.pids = X.pids /\ A.array = X.array /\ A.heard = X.heard /\ A.bc = X.bc
      /\ IsStats(A)
  BY <1>1, <1>3 DEF IsStats, Top
<1>6. B.st = w /\ B.on = X.on /\ B.pids = X.pids /\ B.array = X.array /\ B.heard = X.heard /\ B.bc = X.bc
      /\ IsStats(B)
  BY <1>1, <1>4 DEF IsStats, Top
<1> HIDE DEF b, t
<1>7. CASE b
  <2>1. ExpireStream(X, at) = A
    BY <1>0, <1>7
  <2> QED BY <1>3, <1>5, <1>7, <2>1 DEF b
<1>8. CASE ~b /\ t
  <2>1. ExpireStream(X, at) = B
    BY <1>0, <1>8
  <2> QED BY <1>4, <1>6, <1>8, <2>1 DEF b, t
<1>9. CASE ~b /\ ~t
  <2>1. ExpireStream(X, at) = X
    BY <1>0, <1>9
  <2> QED BY <1>9, <2>1 DEF b, t
<1> QED BY <1>7, <1>8, <1>9

-----------------------------------------------------------------------------
(* The history, as far as the statistics go.                               *)
GhostFields ==
  {"unsynced", "ctpLost", "frames", "base", "bySecond", "rate", "errors", "run", "ok", "seen", "next",
   "lost", "scrambled", "patAt", "badPat", "modelAt", "hits", "loss"}
IsGhost(g) ==
  /\ DOMAIN g = GhostFields
  /\ g.unsynced \in Nat /\ g.ctpLost \in Nat /\ g.frames \in Nat
  /\ DOMAIN g.base = Events /\ \A e \in Events : g.base[e] \in Int

(* What the counts are.                                                    *)
Balanced(X, g) ==
  /\ X.st.cc = Total(X, "cc") + g.unsynced + g.ctpLost
  /\ X.st.pkts = Total(X, "pkts") - g.unsynced + g.frames
  /\ \A k \in Five \ {"cc"} : X.st[k] = Total(X, k)
Told(X, g) == \A e \in X.on \cap Errs : X.heard[e] = ValueOf(X, e) - g.base[e]

(* The inductive invariant of the statistics: the calculator's first PCR   *)
(* belongs to the errors it has seen, and frames are counted once.         *)
SInv ==
  /\ IsStats(S) /\ IsGhost(ghost) /\ CalcOk(S.bc) /\ Directory(S)
  /\ Balanced(S, ghost) /\ Told(S, ghost)
  /\ ghost.errors = 0
  /\ kind # "ts" => S.st.pkts = ghost.frames /\ S.st.seq \in Nat
  /\ calls \in Nat /\ now \in Nat

LEMMA Allocated ==
  /\ IsStats(StatsAlloc) /\ CalcOk(StatsAlloc.bc) /\ Directory(StatsAlloc)
  /\ StatsAlloc.st = StreamStart /\ StatsAlloc.on = {}
  /\ \A c \in Six : Total(StatsAlloc, c) = 0
<1> DEFINE X == StatsAlloc
<1>1. X.st = StreamStart /\ X.bc = CalcStart /\ X.pids = << >> /\ X.array = << >> /\ X.on = {}
      /\ X.heard = [e \in Events |-> 0] /\ DOMAIN X = Top
  BY DEF StatsAlloc, Top
<1>2. DOMAIN X.pids = {}
  BY <1>1
<1>3. IsStream(StreamStart)
  BY DEF StreamStart, IsStream, Five, StOther, Six
<1> HIDE DEF X
<1>4. IsStats(X)
  BY <1>1, <1>2, <1>3 DEF IsStats, IsHeard
<1>5. CalcOk(CalcStart)
  BY DEF CalcStart, CalcOk
<1>6. Directory(X)
  <2>1. ToSet(<< >>) = {} /\ Len(<< >>) = 0 /\ << >> \in Seq(Pids) /\ Cardinality({}) = 0
    BY FS_EmptySet DEF ToSet
  <2> QED BY <1>1, <1>2, <2>1 DEF Directory
<1>7. ASSUME NEW c \in Six PROVE Total(X, c) = 0
  <2>1. \A r \in Pids : Val(X, r, c) = 0
    BY <1>2 DEF Val
  <2> QED BY <2>1, SumZero
<1> QED BY <1>1, <1>4, <1>5, <1>6, <1>7 DEF X

LEMMA GhostBegins ==
  /\ IsGhost(GhostStart) /\ GhostStart.unsynced = 0 /\ GhostStart.ctpLost = 0 /\ GhostStart.frames = 0
  /\ (\A e \in Events : GhostStart.base[e] = 0) /\ GhostStart.errors = 0 /\ GhostStart.bySecond = << >>
BY DEF GhostStart, IsGhost, GhostFields

LEMMA Zeroes ==
  /\ \A k \in Five : StreamStart[k] = 0
  /\ StreamStart.pkts = 0 /\ StreamStart.seq = 0 /\ StreamStart.at = 0 /\ StreamStart.win = 0
  /\ StreamStart.pps = 0 /\ StreamStart.BpsAt = 0 /\ StreamStart.Bwin = 0 /\ StreamStart.ambps = 0
  /\ StreamStart.abps = 0
BY DEF StreamStart, Five

LEMMA SInvInit == Init => SInv
<1> SUFFICES ASSUME Init PROVE SInv
  OBVIOUS
<1>1. S = StatsAlloc /\ ghost = GhostStart /\ now = Epoch /\ calls = 0
  BY DEF Init
<1>2. /\ IsStats(S) /\ CalcOk(S.bc) /\ Directory(S) /\ S.st = StreamStart /\ S.on = {}
      /\ \A c \in Six : Total(S, c) = 0
  BY <1>1, Allocated
<1>3. Balanced(S, ghost)
  BY <1>1, <1>2, GhostBegins, Zeroes DEF Balanced, Five, Six
<1> QED BY <1>1, <1>2, <1>3, GhostBegins, Zeroes, StreamAssumption DEF SInv, Told

LEMMA KeptInv ==
  ASSUME NEW X, NEW Y, NEW g, Kept(X, Y), Balanced(X, g), Told(X, g)
  PROVE  Balanced(Y, g) /\ Told(Y, g)
<1>1. "cc" \in Six /\ "pkts" \in Six /\ Five \subseteq Six
  BY DEF Six, Five
<1>2. Balanced(Y, g)
  BY <1>1 DEF Kept, Balanced
<1>3. Told(Y, g)
  BY DEF Kept, Told, ValueOf
<1> QED BY <1>2, <1>3

(* The buffers a call may bring.                                           *)
LEMMA BuffersArePackets ==
  ASSUME calls \in Nat, calls < MaxCalls, NEW buf \in TsBuffers(calls) \cup TrBuffers(calls)
  PROVE  buf \in Seq(Packets) /\ buf # << >>
BY StreamAssumption

LEMMA TsKeepsSInv == SInv /\ TsUpdate => SInv'
<1> SUFFICES ASSUME SInv, TsUpdate PROVE SInv'
  OBVIOUS
<1>1. PICK buf \in TsBuffers(calls) :
        /\ S' = PidStatsUpdate(S, buf, now)
        /\ ghost' = [ghost EXCEPT !.unsynced = @ + CountIn(buf, LAMBDA p : ~p.sync),
                      !.bySecond = Account(Len(buf)),
                      !.errors = IF S'.bc.rate # S.bc.rate /\ S.bc.first # -1
                                 THEN S.st.cc - S.bc.ccAtFirst ELSE 0]
  BY DEF TsUpdate
<1>2. buf \in Seq(Packets)
  BY BuffersArePackets DEF TsUpdate, Call, SInv
<1> DEFINE n == Len(buf)
           u == Cardinality(Unsynced(buf, n))
<1>3. /\ IsStats(S') /\ S'.on = S.on
      /\ CalcOk(S'.bc) /\ (S.bc.ccSeen # S.st.cc => S'.bc.rate = S.bc.rate)
      /\ u \in Nat /\ S'.st.pkts = S.st.pkts + (n - u) /\ Total(S', "pkts") = Total(S, "pkts") + n
      /\ S'.st.cc - Total(S', "cc") = S.st.cc + u - Total(S, "cc")
      /\ \A k \in Five \ {"cc"} : S'.st[k] - Total(S', k) = S.st[k] - Total(S, k)
      /\ Directory(S) => Directory(S')
      /\ \A e \in S.on \cap Errs : S'.heard[e] - ValueOf(S', e) = S.heard[e] - ValueOf(S, e)
  BY <1>1, <1>2, UpdateDoes DEF SInv
<1>4. n \in Nat
  BY <1>2
<1> HIDE DEF n
<1>5. CountIn(buf, LAMBDA p : ~p.sync) = u
  BY <1>2, UnsyncedAll DEF n
<1> HIDE DEF u
<1> DEFINE er == IF S'.bc.rate # S.bc.rate /\ S.bc.first # -1 THEN S.st.cc - S.bc.ccAtFirst ELSE 0
           ac == Account(Len(buf))
<1>6. ghost' = [ghost EXCEPT !.unsynced = @ + u, !.bySecond = ac, !.errors = er]
  BY <1>1, <1>5
<1>7. er = 0
  <2>1. S.st.cc \in Int
    BY DEF SInv, IsStats, IsStream, Six
  <2> QED BY <1>3, <2>1 DEF SInv, CalcOk
<1> HIDE DEF er, ac
<1>8. IsGhost(ghost') /\ ghost'.unsynced = ghost.unsynced + u /\ ghost'.ctpLost = ghost.ctpLost
      /\ ghost'.frames = ghost.frames /\ ghost'.base = ghost.base /\ ghost'.errors = 0
  BY <1>3, <1>6, <1>7 DEF SInv, IsGhost, GhostFields
<1>9. \A k \in Six : S.st[k] \in Int /\ Total(S, k) \in Int /\ S'.st[k] \in Int /\ Total(S', k) \in Int
  BY <1>3, TotalInt DEF SInv
<1>10. Balanced(S', ghost')
  <2>1. "cc" \in Six /\ "pkts" \in Six /\ Five \subseteq Six
    BY DEF Six, Five
  <2>2. S.st.cc = Total(S, "cc") + ghost.unsynced + ghost.ctpLost
        /\ S.st.pkts = Total(S, "pkts") - ghost.unsynced + ghost.frames
        /\ ghost.unsynced \in Nat /\ ghost.ctpLost \in Nat /\ ghost.frames \in Nat
    BY DEF SInv, Balanced, IsGhost
  <2>3. S'.st.cc = Total(S', "cc") + ghost'.unsynced + ghost'.ctpLost
    BY <1>3, <1>8, <1>9, <2>1, <2>2
  <2>4. S'.st.pkts = Total(S', "pkts") - ghost'.unsynced + ghost'.frames
    BY <1>3, <1>4, <1>8, <1>9, <2>1, <2>2
  <2>5. \A k \in Five \ {"cc"} : S'.st[k] = Total(S', k)
    <3> TAKE k \in Five \ {"cc"}
    <3>1. S.st[k] = Total(S, k)
      BY DEF SInv, Balanced
    <3>2. S'.st[k] - Total(S', k) = S.st[k] - Total(S, k)
      BY <1>3
    <3>3. S.st[k] \in Int /\ Total(S, k) \in Int /\ S'.st[k] \in Int /\ Total(S', k) \in Int
      BY <1>9, <2>1
    <3> QED BY <3>1, <3>2, <3>3
  <2> QED BY <2>3, <2>4, <2>5 DEF Balanced
<1>11. Told(S', ghost')
  <2> SUFFICES ASSUME NEW e \in S'.on \cap Errs PROVE S'.heard[e] = ValueOf(S', e) - ghost'.base[e]
    BY DEF Told
  <2>1. e \in S.on \cap Errs /\ e \in Events
    BY <1>3 DEF Errs, Events
  <2>2. S.heard[e] = ValueOf(S, e) - ghost.base[e]
    BY <2>1 DEF SInv, Told
  <2>3. S.heard[e] \in Int /\ S'.heard[e] \in Int /\ ghost.base[e] \in Int
    BY <1>3, <2>1 DEF SInv, IsStats, IsHeard, IsGhost
  <2>4. ValueOf(S, e) \in Int /\ ValueOf(S', e) \in Int
    BY <1>9 DEF ValueOf, Six
  <2> QED BY <1>3, <1>8, <2>1, <2>2, <2>3, <2>4
<1>12. kind' = "ts" /\ calls' \in Nat /\ now' = now
  BY DEF TsUpdate, Call, SInv
<1> QED BY <1>3, <1>8, <1>10, <1>11, <1>12 DEF SInv

(* An operation that only counts errors of the stream and frames.          *)
LEMMA FrameInv ==
  ASSUME NEW X, NEW Y, NEW g, NEW d, NEW x \in Nat, NEW y \in Nat,
         IsStats(X), IsGhost(g), Balanced(X, g), Told(X, g), Directory(X),
         IsStats(Y), IsGhost(d), Y.pids = X.pids, Y.array = X.array, Y.on = X.on,
         \A k \in Five \ {"cc"} : Y.st[k] = X.st[k],
         Y.st.pkts = X.st.pkts + x, Y.st.cc = X.st.cc + y,
         \A e \in X.on \cap Errs : Y.heard[e] - ValueOf(Y, e) = X.heard[e] - ValueOf(X, e),
         d.unsynced = g.unsynced, d.frames = g.frames + x, d.ctpLost = g.ctpLost + y, d.base = g.base
  PROVE  Balanced(Y, d) /\ Told(Y, d) /\ Directory(Y)
<1>1. \A k \in Six : X.st[k] \in Int /\ Total(X, k) \in Int /\ Y.st[k] \in Int /\ Total(Y, k) = Total(X, k)
  BY TotalInt, PidsKept
<1>2. "cc" \in Six /\ "pkts" \in Six /\ Five \subseteq Six
  BY DEF Six, Five
<1>3. /\ g.unsynced \in Nat /\ g.ctpLost \in Nat /\ g.frames \in Nat
      /\ X.st.cc = Total(X, "cc") + g.unsynced + g.ctpLost
      /\ X.st.pkts = Total(X, "pkts") - g.unsynced + g.frames
      /\ \A k \in Five \ {"cc"} : X.st[k] = Total(X, k)
  BY DEF IsGhost, Balanced
<1>4. Balanced(Y, d)
  <2>1. Y.st.cc = Total(Y, "cc") + d.unsynced + d.ctpLost
    BY <1>1, <1>2, <1>3
  <2>2. Y.st.pkts = Total(Y, "pkts") - d.unsynced + d.frames
    BY <1>1, <1>2, <1>3
  <2>3. \A k \in Five \ {"cc"} : Y.st[k] = Total(Y, k)
    BY <1>1, <1>2, <1>3
  <2> QED BY <2>1, <2>2, <2>3 DEF Balanced
<1>5. Told(Y, d)
  <2> SUFFICES ASSUME NEW e \in Y.on \cap Errs PROVE Y.heard[e] = ValueOf(Y, e) - d.base[e]
    BY DEF Told
  <2>1. e \in X.on \cap Errs /\ e \in Events
    BY DEF Errs, Events
  <2>2. X.heard[e] = ValueOf(X, e) - g.base[e]
    BY <2>1 DEF Told
  <2>3. X.heard[e] \in Int /\ Y.heard[e] \in Int /\ g.base[e] \in Int
    BY <2>1 DEF IsStats, IsHeard, IsGhost
  <2>4. ValueOf(X, e) \in Int /\ ValueOf(Y, e) \in Int
    BY <1>1 DEF ValueOf, Six
  <2>5. Y.heard[e] - ValueOf(Y, e) = X.heard[e] - ValueOf(X, e)
    BY <2>1
  <2> QED BY <2>2, <2>3, <2>4, <2>5
<1>6. Directory(Y)
  BY DEF Directory
<1> QED BY <1>4, <1>5, <1>6

LEMMA FrameKeepsSInv == SInv /\ FrameUpdate => SInv'
<1> SUFFICES ASSUME SInv, FrameUpdate PROVE SInv'
  OBVIOUS
<1>1. PICK bytes \in {2, 8}, skip \in {0, 1} : Frame(bytes, skip)
  BY DEF FrameUpdate
<1>2. /\ kind' = kind /\ kind # "ts" /\ calls' \in Nat /\ now' = now
  BY DEF FrameUpdate, Call, SInv
<1>3. /\ IsStats(S) /\ IsGhost(ghost) /\ CalcOk(S.bc) /\ Directory(S)
      /\ Balanced(S, ghost) /\ Told(S, ghost) /\ ghost.errors = 0
      /\ S.st.pkts = ghost.frames /\ S.st.seq \in Nat /\ now \in Nat
  BY <1>2 DEF SInv
<1>4. S.st.pkts \in Int /\ S.st.cc \in Int /\ ghost.frames \in Nat /\ ghost.ctpLost \in Nat
  BY <1>3 DEF IsStats, IsStream, IsGhost, Six
<1>5. CASE kind = "bytes"
  <2>1. /\ S' = BytestreamUpdate(S, bytes, bytes = 8, now)
        /\ ghost' = [ghost EXCEPT !.frames = @ + 1, !.bySecond = Account(bytes)]
    BY <1>1, <1>5 DEF Frame
  <2>2. /\ IsStats(S') /\ S'.bc = S.bc /\ S'.pids = S.pids /\ S'.array = S.array /\ S'.on = S.on
        /\ S'.st.pkts = S.st.pkts + 1
        /\ \A f \in {"seq", "at", "pps", "win"} : S'.st[f] = S.st[f]
        /\ \A k \in Five : S'.st[k] = S.st[k]
        /\ \A e \in S.on \cap Errs : S'.heard[e] - ValueOf(S', e) = S.heard[e] - ValueOf(S, e)
    BY <1>3, <2>1, BytestreamDoes
  <2> DEFINE ac == Account(bytes)
  <2> HIDE DEF ac
  <2>3. ghost' = [ghost EXCEPT !.frames = @ + 1, !.bySecond = ac]
    BY <2>1 DEF ac
  <2>4. IsGhost(ghost') /\ ghost'.unsynced = ghost.unsynced /\ ghost'.ctpLost = ghost.ctpLost + 0
        /\ ghost'.frames = ghost.frames + 1 /\ ghost'.base = ghost.base /\ ghost'.errors = 0
    BY <1>3, <1>4, <2>3 DEF IsGhost, GhostFields
  <2>5. S'.st.cc = S.st.cc + 0 /\ S'.st.seq = S.st.seq
    BY <1>4, <2>2 DEF Five
  <2>6. Balanced(S', ghost') /\ Told(S', ghost') /\ Directory(S')
    <3>1. \A k \in Five \ {"cc"} : S'.st[k] = S.st[k]
      BY <2>2
    <3> QED BY <1>3, <2>2, <2>4, <2>5, <3>1, FrameInv
  <2> QED BY <1>2, <1>3, <2>2, <2>4, <2>5, <2>6 DEF SInv
<1>6. CASE kind # "bytes" /\ bytes < 4
  <2> DEFINE seq == (S.st.seq + 1 + skip) % 65536
  <2>1. S' = CtpUpdate(S, bytes, bytes = 8, seq, now) /\ ghost' = ghost
    BY <1>1, <1>6 DEF Frame
  <2>2. /\ IsStats(S') /\ S'.bc = S.bc /\ S'.pids = S.pids /\ S'.array = S.array /\ S'.on = S.on
        /\ \A k \in Five \ {"cc"} : S'.st[k] = S.st[k]
        /\ \A e \in S.on \cap Errs : S'.heard[e] - ValueOf(S', e) = S.heard[e] - ValueOf(S, e)
        /\ S'.st.cc = S.st.cc /\ S'.st.pkts = S.st.pkts /\ S'.st.seq = S.st.seq
    BY <1>3, <1>6, <2>1, CtpDoes
  <2>3. S'.st.cc = S.st.cc + 0 /\ S'.st.pkts = S.st.pkts + 0 /\ ghost'.frames = ghost.frames + 0
        /\ ghost'.ctpLost = ghost.ctpLost + 0 /\ ghost'.unsynced = ghost.unsynced
        /\ ghost'.base = ghost.base /\ IsGhost(ghost')
    BY <1>3, <1>4, <2>1, <2>2
  <2> HIDE DEF seq
  <2>4. Balanced(S', ghost') /\ Told(S', ghost') /\ Directory(S')
    BY <1>3, <2>2, <2>3, FrameInv
  <2> QED BY <1>2, <1>3, <2>1, <2>2, <2>4 DEF SInv
<1>7. CASE kind # "bytes" /\ ~(bytes < 4)
  <2> DEFINE seq == (S.st.seq + 1 + skip) % 65536
             gone == (S.st.seq + 1) % 65536 # seq /\ S.st.pkts > 0
             y == IF gone THEN 1 ELSE 0
             o == ghost.ctpLost + IF skip = 1 /\ ghost.frames > 0 THEN 1 ELSE 0
             ac == Account(bytes)
  <2>1. S' = CtpUpdate(S, bytes, bytes = 8, seq, now)
        /\ ghost' = [ghost EXCEPT !.frames = @ + 1, !.bySecond = ac, !.ctpLost = o]
    BY <1>1, <1>7 DEF Frame
  <2>2. /\ IsStats(S') /\ S'.bc = S.bc /\ S'.pids = S.pids /\ S'.array = S.array /\ S'.on = S.on
        /\ \A k \in Five \ {"cc"} : S'.st[k] = S.st[k]
        /\ \A e \in S.on \cap Errs : S'.heard[e] - ValueOf(S', e) = S.heard[e] - ValueOf(S, e)
        /\ S'.st.cc = S.st.cc + y /\ S'.st.pkts = S.st.pkts + 1 /\ S'.st.seq = seq
    BY <1>3, <1>7, <2>1, CtpDoes
  <2>3. seq \in Nat /\ (skip = 0 => seq = (S.st.seq + 1) % 65536)
        /\ (skip = 1 => seq # (S.st.seq + 1) % 65536)
    BY <1>3
  <2>4. o = ghost.ctpLost + y /\ y \in Nat
    <3>1. gone <=> skip = 1 /\ ghost.frames > 0
      BY <1>3, <2>3
    <3> QED BY <3>1
  <2> HIDE DEF ac, o, y, seq
  <2>5. IsGhost(ghost') /\ ghost'.unsynced = ghost.unsynced /\ ghost'.ctpLost = ghost.ctpLost + y
        /\ ghost'.frames = ghost.frames + 1 /\ ghost'.base = ghost.base /\ ghost'.errors = 0
    BY <1>3, <1>4, <2>1, <2>4 DEF IsGhost, GhostFields
  <2>6. Balanced(S', ghost') /\ Told(S', ghost') /\ Directory(S')
    BY <1>3, <2>2, <2>4, <2>5, FrameInv
  <2> QED BY <1>2, <1>3, <2>2, <2>3, <2>5, <2>6 DEF SInv
<1> QED BY <1>5, <1>6, <1>7

LEMMA PcrKeepsSInv == SInv /\ SetPcrPid => SInv'
<1> SUFFICES ASSUME SInv, SetPcrPid PROVE SInv'
  OBVIOUS
<1>1. S' = SetContainsPcr(S, PcrPid) /\ ghost' = ghost /\ now' = now /\ kind' = kind /\ kind = "ts" /\ calls' \in Nat
  BY DEF SetPcrPid, Call, SInv
<1>2. Kept(S, S') /\ CalcOk(S'.bc)
  BY <1>1, SetPcrDoes, StreamAssumption DEF SInv
<1>3. Balanced(S', ghost') /\ Told(S', ghost')
  BY <1>1, <1>2, KeptInv DEF SInv
<1> QED BY <1>1, <1>2, <1>3 DEF SInv, Kept

LEMMA CloneKeepsSInv == SInv /\ UseClone => SInv'
<1> SUFFICES ASSUME SInv, UseClone PROVE SInv'
  OBVIOUS
<1>1. S' = StatsClone(S) /\ ghost' = ghost /\ now' = now /\ kind' = kind /\ calls' \in Nat
  BY DEF UseClone, Call, SInv
<1>2. Kept(S, S') /\ S'.bc = S.bc
  BY <1>1, CloneDoes DEF SInv
<1>3. Balanced(S', ghost') /\ Told(S', ghost')
  BY <1>1, <1>2, KeptInv DEF SInv
<1> QED BY <1>1, <1>2, <1>3 DEF SInv, Kept

LEMMA ListenKeepsSInv == SInv /\ Listen => SInv'
<1> SUFFICES ASSUME SInv, Listen PROVE SInv'
  OBVIOUS
<1>1. now' = now /\ kind' = kind /\ calls' \in Nat
  BY DEF Listen, Call, SInv
<1>2. IsStats(S) /\ IsGhost(ghost) /\ CalcOk(S.bc) /\ Directory(S) /\ Balanced(S, ghost) /\ Told(S, ghost)
      /\ ghost.errors = 0
  BY DEF SInv
<1>3. \A Y : IsStats(Y) /\ Y.st = S.st /\ Y.pids = S.pids /\ Y.array = S.array
             => Directory(Y) /\ Balanced(Y, ghost) /\ \A e : ValueOf(Y, e) = ValueOf(S, e)
  <2> TAKE Y
  <2> HAVE IsStats(Y) /\ Y.st = S.st /\ Y.pids = S.pids /\ Y.array = S.array
  <2>1. \A c : Total(Y, c) = Total(S, c)
    BY PidsKept
  <2>2. Balanced(Y, ghost)
    BY <1>2, <2>1 DEF Balanced
  <2>3. Directory(Y) /\ \A e : ValueOf(Y, e) = ValueOf(S, e)
    BY <1>2 DEF Directory, ValueOf
  <2> QED BY <2>2, <2>3
<1>4. ASSUME NEW e \in {"CC_COUNT", "TEI_COUNT", "SCRAMBLED_COUNT"},
             S' = Register(S, e), ghost' = [ghost EXCEPT !.base[e] = ValueOf(S, e)]
      PROVE  SInv'
  <2>1. e \in Events /\ e \in Errs
    BY DEF Events, Errs
  <2>2. /\ IsStats(S') /\ S'.st = S.st /\ S'.bc = S.bc /\ S'.pids = S.pids /\ S'.array = S.array
        /\ S'.on = S.on \cup {e} /\ S'.heard[e] = 0 /\ \A d \in Events \ {e} : S'.heard[d] = S.heard[d]
    BY <1>2, <1>4, <2>1, RegisterDoes
  <2>3. ValueOf(S, e) \in Int
    BY <1>2 DEF IsStats, IsStream, ValueOf, Six
  <2> DEFINE v == ValueOf(S, e)
             b == [ghost.base EXCEPT ![e] = v]
  <2>4. DOMAIN b = Events /\ b[e] = v /\ (\A d \in Events \ {e} : b[d] = ghost.base[d])
        /\ \A d \in Events : b[d] \in Int
    BY <1>2, <2>1, <2>3 DEF IsGhost
  <2>5. ghost' = [ghost EXCEPT !.base = b]
    BY <1>4
  <2> HIDE DEF b
  <2>6. /\ IsGhost(ghost') /\ ghost'.base = b /\ ghost'.unsynced = ghost.unsynced
        /\ ghost'.ctpLost = ghost.ctpLost /\ ghost'.frames = ghost.frames /\ ghost'.errors = 0
    BY <1>2, <2>4, <2>5 DEF IsGhost, GhostFields
  <2>7. Directory(S') /\ Balanced(S', ghost) /\ \A d : ValueOf(S', d) = ValueOf(S, d)
    BY <1>3, <2>2
  <2>8. Balanced(S', ghost')
    BY <2>6, <2>7 DEF Balanced
  <2>9. Told(S', ghost')
    <3> SUFFICES ASSUME NEW d \in S'.on \cap Errs PROVE S'.heard[d] = ValueOf(S', d) - ghost'.base[d]
      BY DEF Told
    <3>1. d \in Events
      BY DEF Errs, Events
    <3>2. CASE d = e
      BY <2>2, <2>3, <2>4, <2>6, <2>7, <3>2
    <3>3. CASE d # e
      <4>1. d \in S.on \cap Errs
        BY <2>2, <3>3
      <4>2. S.heard[d] = ValueOf(S, d) - ghost.base[d]
        BY <1>2, <4>1 DEF Told
      <4> QED BY <2>2, <2>4, <2>6, <2>7, <3>1, <3>3, <4>2
    <3> QED BY <3>2, <3>3
  <2> QED BY <1>1, <1>2, <2>2, <2>6, <2>7, <2>8, <2>9 DEF SInv
<1>5. ASSUME S' = Unregister(S, S.on), ghost' = ghost
      PROVE  SInv'
  <2>1. /\ IsStats(S') /\ S'.st = S.st /\ S'.bc = S.bc /\ S'.pids = S.pids /\ S'.array = S.array /\ S'.on = {}
    BY <1>2, <1>5, UnregisterDoes
  <2>2. Directory(S') /\ Balanced(S', ghost)
    BY <1>3, <2>1
  <2>3. Told(S', ghost)
    BY <2>1 DEF Told
  <2> QED BY <1>1, <1>2, <1>5, <2>1, <2>2, <2>3 DEF SInv
<1> QED BY <1>4, <1>5 DEF Listen

LEMMA ResetKeepsSInv == SInv /\ Reset => SInv'
<1> SUFFICES ASSUME SInv, Reset PROVE SInv'
  OBVIOUS
<1>1. S' = StatsReset([S EXCEPT !.heard = [e \in Events |-> 0]]) /\ ghost' = GhostStart
      /\ now' = now /\ kind' = kind /\ calls' \in Nat
  BY DEF Reset, Call, SInv
<1>2. /\ IsStats(S') /\ CalcOk(S'.bc) /\ S'.st = StreamStart /\ S'.on = S.on
      /\ \A e \in Events : S'.heard[e] = 0
      /\ \A c \in Six : Total(S', c) = 0
      /\ Directory(S) => Directory(S')
  BY <1>1, ResetDoes DEF SInv
<1>3. Balanced(S', ghost')
  BY <1>1, <1>2, GhostBegins, Zeroes DEF Balanced, Five, Six
<1>4. Told(S', ghost')
  <2> SUFFICES ASSUME NEW e \in Errs PROVE S'.heard[e] = ValueOf(S', e) - ghost'.base[e]
    BY DEF Told
  <2>1. e \in Events
    BY DEF Errs, Events
  <2>2. ValueOf(S', e) = 0
    BY <1>2, Zeroes DEF ValueOf, Errs, Five
  <2> QED BY <1>1, <1>2, <2>1, <2>2, GhostBegins
<1> QED BY <1>1, <1>2, <1>3, <1>4, GhostBegins, Zeroes DEF SInv

LEMMA QueryDoes ==
  ASSUME SInv, Query
  PROVE  LET b == S.st.Bwin > 0 /\ SecondOf(now) > S.st.BpsAt + 2
             t == SecondOf(now) > S.st.at + 2
         IN  /\ IsStats(S') /\ S'.bc = S.bc /\ S'.on = S.on /\ S'.heard = S.heard
             /\ \A f \in {"pkts", "seq", "at", "BpsAt", "abps"} : S'.st[f] = S.st[f]
             /\ \A k \in Five : S'.st[k] = S.st[k]
             /\ S'.st.ambps = (IF b THEN 0 ELSE S.st.ambps) /\ S'.st.Bwin = (IF b THEN 0 ELSE S.st.Bwin)
             /\ S'.st.pps = (IF ~b /\ t THEN 0 ELSE S.st.pps) /\ S'.st.win = (IF ~b /\ t THEN 0 ELSE S.st.win)
             /\ \A c \in Six : Total(S', c) = Total(S, c)
             /\ Directory(S')
             /\ IsGhost(ghost') /\ \A f \in GhostFields \ {"rate", "bySecond"} : ghost'[f] = ghost[f]
             /\ ghost'.bySecond = IF SecondOf(now) > (IF kind = "ts" THEN S.st.at ELSE S.st.BpsAt) + 2
                                  THEN << >> ELSE ghost.bySecond
<1> DEFINE X == ExpirePid(S, NullPid, now)
           Y == ExpireStream(X, now)
           b == S.st.Bwin > 0 /\ SecondOf(now) > S.st.BpsAt + 2
           t == SecondOf(now) > S.st.at + 2
           pad == PaddingPct(S, now)
           bs == IF SecondOf(now) > (IF kind = "ts" THEN S.st.at ELSE S.st.BpsAt) + 2
                 THEN << >> ELSE ghost.bySecond
<1>1. S' = Y /\ ghost' = [ghost EXCEPT !.rate = pad, !.bySecond = bs]
  BY DEF Query
<1>2. IsStats(S) /\ IsGhost(ghost) /\ Directory(S)
  BY DEF SInv
<1>3. Kept(S, X) /\ X.bc = S.bc
  BY <1>2, ExpirePidDoes, StatsAssumption
<1> HIDE DEF X
<1>4. IsStats(X) /\ X.on = S.on /\ X.heard = S.heard /\ X.st = S.st
      /\ (\A c \in Six : Total(X, c) = Total(S, c)) /\ Directory(X)
  BY <1>2, <1>3 DEF Kept
<1>5. /\ IsStats(Y) /\ Y.bc = X.bc /\ Y.pids = X.pids /\ Y.array = X.array /\ Y.on = X.on
      /\ Y.heard = X.heard
      /\ \A f \in {"pkts", "seq", "at", "BpsAt", "abps"} : Y.st[f] = X.st[f]
      /\ \A k \in Five : Y.st[k] = X.st[k]
      /\ Y.st.ambps = (IF b THEN 0 ELSE X.st.ambps) /\ Y.st.Bwin = (IF b THEN 0 ELSE X.st.Bwin)
      /\ Y.st.pps = (IF ~b /\ t THEN 0 ELSE X.st.pps) /\ Y.st.win = (IF ~b /\ t THEN 0 ELSE X.st.win)
  BY <1>4, ExpireStreamDoes
<1> HIDE DEF Y, b, t, pad, bs
<1>6. IsGhost(ghost') /\ (\A f \in GhostFields \ {"rate", "bySecond"} : ghost'[f] = ghost[f])
      /\ ghost'.bySecond = bs
  BY <1>1, <1>2 DEF IsGhost, GhostFields
<1>7. \A c \in Six : Total(Y, c) = Total(S, c)
  BY <1>4, <1>5, PidsKept
<1>8. Directory(Y)
  BY <1>4, <1>5 DEF Directory
<1> QED BY <1>1, <1>3, <1>4, <1>5, <1>6, <1>7, <1>8 DEF b, t, bs

LEMMA QueryKeepsSInv == SInv /\ Query => SInv'
<1> SUFFICES ASSUME SInv, Query PROVE SInv'
  OBVIOUS
<1>1. /\ IsStats(S') /\ S'.bc = S.bc /\ S'.on = S.on /\ S'.heard = S.heard
      /\ \A f \in {"pkts", "seq", "at", "BpsAt", "abps"} : S'.st[f] = S.st[f]
      /\ \A k \in Five : S'.st[k] = S.st[k]
      /\ \A c \in Six : Total(S', c) = Total(S, c)
      /\ Directory(S')
      /\ IsGhost(ghost') /\ \A f \in GhostFields \ {"rate", "bySecond"} : ghost'[f] = ghost[f]
  BY QueryDoes
<1>2. ghost'.unsynced = ghost.unsynced /\ ghost'.ctpLost = ghost.ctpLost /\ ghost'.frames = ghost.frames
      /\ ghost'.base = ghost.base /\ ghost'.errors = ghost.errors
  BY <1>1 DEF GhostFields
<1>3. Balanced(S', ghost')
  <2>1. "cc" \in Six /\ "pkts" \in Six /\ Five \subseteq Six /\ "cc" \in Five
    BY DEF Six, Five
  <2> QED BY <1>1, <1>2, <2>1 DEF SInv, Balanced
<1>4. Told(S', ghost')
  <2>1. \A e \in Errs : ValueOf(S', e) = ValueOf(S, e)
    BY <1>1 DEF ValueOf, Errs, Five
  <2> QED BY <1>1, <1>2, <2>1 DEF SInv, Told
<1>5. now' = now /\ kind' = kind /\ calls' \in Nat
  BY DEF Query, Call, SInv
<1> QED BY <1>1, <1>2, <1>3, <1>4, <1>5 DEF SInv

-----------------------------------------------------------------------------
(* The history of a write.                                                 *)
FFollow == INSTANCE DataLemmas WITH Op <- Follow
Unfollowed == {"unsynced", "ctpLost", "frames", "base", "bySecond", "rate", "errors", "modelAt"}
Cleared(g) == [g EXCEPT !.lost = FALSE, !.scrambled = FALSE, !.badPat = FALSE, !.hits = 0, !.loss = "none"]

LEMMA FollowFolds ==
  ASSUME NEW g, NEW buf, NEW x PROVE Followed(g, buf, x) = FFollow!Folded(Cleared(g), buf, x)
BY Zenon DEF Followed, Cleared, FoldLeft, MapThenFoldSet, Max, FFollow!Folded, FFollow!FoldLeft,
             FFollow!MapThenFoldSet, FFollow!Max

Bad(g, pkt) ==
  /\ pkt.pid \in DOMAIN g.next /\ pkt.pid # NullPid
  /\ ~(pkt.cc = g.next[pkt.pid] \/ (pkt.adap \in {0, 2} /\ (pkt.cc + 1) % 16 = g.next[pkt.pid]))

LEMMA FollowDoes ==
  ASSUME NEW g, DOMAIN g = GhostFields, NEW pkt, NEW at
  PROVE  LET h == Follow(g, pkt, at)
         IN  /\ DOMAIN h = GhostFields /\ \A f \in Unfollowed : h[f] = g[f]
             /\ h.ok = (IF pkt.sync THEN g.ok + 1 ELSE 0) /\ h.run = (IF pkt.sync THEN 0 ELSE g.run + 1)
             /\ h.next = With(g.next, pkt.pid, (pkt.cc + 1) % 16) /\ h.seen = With(g.seen, pkt.pid, at)
             /\ h.lost = (g.lost \/ Bad(g, pkt) \/ ~pkt.sync) /\ h.scrambled = (g.scrambled \/ pkt.sc # 0)
             /\ h.patAt = (IF pkt.pid = 0 THEN at ELSE g.patAt)
             /\ h.badPat = (g.badPat \/ (pkt.pid = 0 /\ (pkt.tid # 0 \/ pkt.sc # 0)))
             /\ h.hits = (IF pkt.sync THEN g.hits ELSE g.hits + 1)
             /\ h.loss = (IF pkt.sync THEN IF g.ok + 1 > SyncClear THEN "clear" ELSE g.loss
                          ELSE IF g.run + 1 >= SyncLossThreshold THEN "raise" ELSE g.loss)
<1> DEFINE bad == Bad(g, pkt)
           a1 == IF pkt.sync THEN g.ok + 1 ELSE 0
           a2 == IF pkt.sync THEN 0 ELSE g.run + 1
           a3 == With(g.next, pkt.pid, (pkt.cc + 1) % 16)
           a4 == With(g.seen, pkt.pid, at)
           a5 == g.lost \/ bad \/ ~pkt.sync
           a6 == g.scrambled \/ pkt.sc # 0
           a7 == IF pkt.pid = 0 THEN at ELSE g.patAt
           a8 == g.badPat \/ (pkt.pid = 0 /\ (pkt.tid # 0 \/ pkt.sc # 0))
           a9 == IF pkt.sync THEN g.hits ELSE g.hits + 1
           a10 == IF pkt.sync THEN IF g.ok + 1 > SyncClear THEN "clear" ELSE g.loss
                  ELSE IF g.run + 1 >= SyncLossThreshold THEN "raise" ELSE g.loss
           h == [g EXCEPT !.ok = a1, !.run = a2, !.next = a3, !.seen = a4, !.lost = a5, !.scrambled = a6,
                          !.patAt = a7, !.badPat = a8, !.hits = a9, !.loss = a10]
<1>1. Follow(g, pkt, at) = h
  BY Zenon DEF Follow, Bad
<1> HIDE DEF a1, a2, a3, a4, a5, a6, a7, a8, a9, a10
<1>2. DOMAIN h = GhostFields /\ \A f \in Unfollowed : h[f] = g[f]
  BY DEF GhostFields, Unfollowed
<1>3. h.ok = a1 /\ h.run = a2 /\ h.next = a3 /\ h.seen = a4 /\ h.lost = a5 /\ h.scrambled = a6
      /\ h.patAt = a7 /\ h.badPat = a8 /\ h.hits = a9 /\ h.loss = a10
  BY DEF GhostFields
<1> HIDE DEF h
<1> QED BY <1>1, <1>2, <1>3 DEF a1, a2, a3, a4, a5, a6, a7, a8, a9, a10

LEMMA ClearedIs ==
  ASSUME NEW g, DOMAIN g = GhostFields
  PROVE  LET h == Cleared(g)
         IN  /\ DOMAIN h = GhostFields /\ h.lost = FALSE /\ h.scrambled = FALSE /\ h.badPat = FALSE
             /\ h.hits = 0 /\ h.loss = "none"
             /\ \A f \in GhostFields \ {"lost", "scrambled", "badPat", "hits", "loss"} : h[f] = g[f]
BY DEF Cleared, GhostFields

LEMMA ClearedKeeps ==
  ASSUME NEW g, DOMAIN g = GhostFields
  PROVE  LET h == Cleared(g)
         IN  h.next = g.next /\ h.seen = g.seen /\ h.patAt = g.patAt
BY DEF Cleared, GhostFields

(* The stages of it.                                                       *)
LEMMA FollowStages ==
  ASSUME NEW g, DOMAIN g = GhostFields, NEW buf \in Seq(Packets), NEW at
  PROVE  LET h == FFollow!Stages(Cleared(g), buf, at)
             n == Len(buf)
         IN  /\ n \in Nat /\ h[0] = Cleared(g) /\ Followed(g, buf, at) = h[n]
             /\ \A k \in 1 .. n : h[k] = Follow(h[k - 1], buf[k], at)
             /\ \A k \in 0 .. n : DOMAIN h[k] = GhostFields /\ \A f \in Unfollowed : h[k][f] = g[f]
<1> DEFINE h == FFollow!Stages(Cleared(g), buf, at)
           n == Len(buf)
           T == {k \in Nat : k <= n => DOMAIN h[k] = GhostFields /\ \A f \in Unfollowed : h[k][f] = g[f]}
<1>1. h[0] = Cleared(g) /\ Followed(g, buf, at) = h[n] /\ \A k \in 1 .. n : h[k] = Follow(h[k - 1], buf[k], at)
  BY FFollow!FoldSteps, FollowFolds
<1>2. n \in Nat
  OBVIOUS
<1> HIDE DEF h, n
<1>3. 0 \in T
  <2>1. Unfollowed \subseteq GhostFields \ {"lost", "scrambled", "badPat", "hits", "loss"}
    BY DEF GhostFields, Unfollowed
  <2>2. DOMAIN Cleared(g) = GhostFields /\ \A f \in Unfollowed : Cleared(g)[f] = g[f]
    BY <2>1, ClearedIs
  <2> QED BY <1>1, <2>2
<1>4. ASSUME NEW k \in Nat, k \in T PROVE k + 1 \in T
  <2> SUFFICES ASSUME k + 1 <= n
               PROVE  DOMAIN h[k + 1] = GhostFields /\ \A f \in Unfollowed : h[k + 1][f] = g[f]
    OBVIOUS
  <2>1. k + 1 \in 1 .. n /\ (k + 1) - 1 = k /\ k <= n
    BY <1>2
  <2>2. h[k + 1] = Follow(h[k], buf[k + 1], at)
    BY <1>1, <2>1
  <2>3. DOMAIN h[k] = GhostFields /\ \A f \in Unfollowed : h[k][f] = g[f]
    BY <1>4, <2>1
  <2> DEFINE a == h[k]
             b == h[k + 1]
             p == buf[k + 1]
  <2>4. DOMAIN b = GhostFields /\ \A f \in Unfollowed : b[f] = a[f]
    BY <2>2, <2>3, FollowDoes
  <2> QED BY <2>3, <2>4
<1>5. Nat \subseteq T
  <2> HIDE DEF T
  <2> QED BY <1>3, <1>4, FFollow!SetInduction
<1>6. \A k \in 0 .. n : DOMAIN h[k] = GhostFields /\ \A f \in Unfollowed : h[k][f] = g[f]
  BY <1>2, <1>5
<1> QED BY <1>1, <1>2, <1>6 DEF h, n

LEMMA MonitorKeepsSInv == SInv /\ Monitor => SInv'
<1> SUFFICES ASSUME SInv, Monitor PROVE SInv'
  OBVIOUS
<1>1. PICK buf \in TrBuffers(calls), crcs \in Found, model \in Models \cup {NoModel} :
       /\ R' = ChecksWrite(R, buf, crcs, model, now)
       /\ ghost' = [Followed(ghost, buf, now) EXCEPT !.modelAt = IF model = NoModel THEN @ ELSE now]
  BY Zenon DEF Monitor
<1>2. S' = S /\ now' = now /\ kind' = kind /\ calls' \in Nat /\ calls < MaxCalls /\ calls \in Nat /\ now \in Nat
  BY DEF Monitor, Call, SInv
<1>3. buf \in Seq(Packets)
  BY <1>2, BuffersArePackets
<1> DEFINE h == FFollow!Stages(Cleared(ghost), buf, now)
           n == Len(buf)
           g == h[n]
           m == IF model = NoModel THEN g.modelAt ELSE now
<1>4. n \in Nat /\ Followed(ghost, buf, now) = g /\ DOMAIN g = GhostFields
      /\ \A f \in Unfollowed : g[f] = ghost[f]
  BY <1>3, FollowStages DEF SInv, IsGhost
<1> HIDE DEF g
<1>5. ghost' = [g EXCEPT !.modelAt = m]
  BY <1>1, <1>4
<1> HIDE DEF m
<1>6. DOMAIN ghost' = GhostFields /\ \A f \in Unfollowed \ {"modelAt"} : ghost'[f] = ghost[f]
  BY <1>4, <1>5 DEF GhostFields, Unfollowed
<1>7. ghost'.unsynced = ghost.unsynced /\ ghost'.ctpLost = ghost.ctpLost /\ ghost'.frames = ghost.frames
      /\ ghost'.base = ghost.base /\ ghost'.errors = ghost.errors
  BY <1>6 DEF Unfollowed
<1> QED BY <1>2, <1>6, <1>7 DEF SInv, IsGhost, Balanced, Told, ValueOf

LEMMA SInvStep == SInv /\ [Next]_vars => SInv'
<1> SUFFICES ASSUME SInv, [Next]_vars PROVE SInv'
  OBVIOUS
<1>1. CASE Tick
  <2>1. S' = S /\ ghost' = ghost /\ kind' = kind /\ calls' \in Nat /\ now' \in Nat
    BY <1>1, ClockOpsAssumption DEF Tick, Call, SInv
  <2> QED BY <2>1 DEF SInv, Balanced, Told, ValueOf
<1>2. CASE UNCHANGED vars
  BY <1>2 DEF vars, SInv, Balanced, Told, ValueOf
<1> QED BY <1>1, <1>2, TsKeepsSInv, FrameKeepsSInv, PcrKeepsSInv, ListenKeepsSInv, ResetKeepsSInv,
           CloneKeepsSInv, QueryKeepsSInv, MonitorKeepsSInv DEF Next

LEMMA ReportsAreTotals ==
  ASSUME NEW X, IsStats(X)
  PROVE  LET sum(f) == SumFunctionOnSet([pid \in Pids |-> PidReport(X, pid)[f]], Pids)
         IN  /\ sum("cc_errors") = Total(X, "cc") /\ sum("packet_count") = Total(X, "pkts")
             /\ sum("tei_errors") = Total(X, "tei") /\ sum("scrambled") = Total(X, "scr")
             /\ sum("pcr_exceeds") = Total(X, "exc") /\ sum("pusi_errors") = Total(X, "pusiErr")
<1>1. \A pid \in Pids :
        LET r == PidReport(X, pid)
        IN  /\ r["cc_errors"] = Val(X, pid, "cc") /\ r["packet_count"] = Val(X, pid, "pkts")
            /\ r["tei_errors"] = Val(X, pid, "tei") /\ r["scrambled"] = Val(X, pid, "scr")
            /\ r["pcr_exceeds"] = Val(X, pid, "exc") /\ r["pusi_errors"] = Val(X, pid, "pusiErr")
  BY DEF PidReport, Val
<1>2. \A f, c : (\A pid \in Pids : PidReport(X, pid)[f] = Val(X, pid, c)) =>
        SumFunctionOnSet([pid \in Pids |-> PidReport(X, pid)[f]], Pids) = Total(X, c)
  <2> TAKE f, c
  <2> HAVE \A pid \in Pids : PidReport(X, pid)[f] = Val(X, pid, c)
  <2>1. [pid \in Pids |-> PidReport(X, pid)[f]] = [pid \in Pids |-> Val(X, pid, c)]
    OBVIOUS
  <2> QED BY <2>1 DEF Total
<1> QED BY <1>1, <1>2

LEMMA SInvRight == SInv => StatsAreRight
<1> SUFFICES ASSUME SInv PROVE StatsAreRight
  OBVIOUS
<1>1. StatsAddUp
  <2> DEFINE sum(f) == SumFunctionOnSet([pid \in Pids |-> PidReport(S, pid)[f]], Pids)
             r == StreamReport(S)
  <2>1. /\ sum("cc_errors") = Total(S, "cc") /\ sum("packet_count") = Total(S, "pkts")
        /\ sum("tei_errors") = Total(S, "tei") /\ sum("scrambled") = Total(S, "scr")
        /\ sum("pcr_exceeds") = Total(S, "exc") /\ sum("pusi_errors") = Total(S, "pusiErr")
    BY ReportsAreTotals DEF SInv
  <2>2. r.ccerror_count = S.st.cc /\ r.packet_count = S.st.pkts /\ r.tei_errors = S.st.tei
        /\ r.scrambled_count = S.st.scr /\ r.pcr_exceeds = S.st.exc /\ r.pusi_errors = S.st.pusiErr
    BY DEF StreamReport
  <2>3. /\ S.st.cc = Total(S, "cc") + ghost.unsynced + ghost.ctpLost
        /\ S.st.pkts = Total(S, "pkts") - ghost.unsynced + ghost.frames
        /\ S.st.tei = Total(S, "tei") /\ S.st.scr = Total(S, "scr") /\ S.st.exc = Total(S, "exc")
        /\ S.st.pusiErr = Total(S, "pusiErr")
    BY DEF SInv, Balanced, Five
  <2> HIDE DEF sum, r
  <2>4. /\ r.ccerror_count = sum("cc_errors") + ghost.unsynced + ghost.ctpLost
        /\ r.packet_count = sum("packet_count") - ghost.unsynced + ghost.frames
        /\ r.tei_errors = sum("tei_errors") /\ r.scrambled_count = sum("scrambled")
        /\ r.pcr_exceeds = sum("pcr_exceeds") /\ r.pusi_errors = sum("pusi_errors")
    BY <2>1, <2>2, <2>3
  <2> QED BY <2>4 DEF StatsAddUp, sum, r
<1>2. DirectoryIsExact
  BY DEF SInv, Directory, DirectoryIsExact
<1>3. HeardEveryError
  BY DEF SInv, Told, HeardEveryError, Errs
<1> QED BY <1>1, <1>2, <1>3 DEF StatsAreRight, SInv, BitrateWithoutLoss

(* The counts of the stream are those of its PIDs added up, whatever the   *)
(* order of packets, frames, resets, clones, listeners and queries; the    *)
(* directory lists each PID once; a listener hears every error it counts;  *)
(* no bitrate spans a loss of an earlier call.                             *)
THEOREM StatsHold == Spec => []StatsAreRight
<1>1. Spec => []SInv
  BY SInvInit, SInvStep, PTL DEF Spec
<1> QED BY <1>1, SInvRight, PTL

-----------------------------------------------------------------------------
(* Rates.                                                                  *)
Seconds == Int \X Nat

LEMMA SecondIsInt == ASSUME NEW at \in Nat PROVE SecondOf(at) \in Nat
BY ClockOpsAssumption DEF SecondOf

(* The amounts of the last second and of the one before it.                *)
Follows(bs, at, win) == win \in Nat /\ IF Len(bs) = 0 THEN win = 0 ELSE bs[Len(bs)] = <<at, win>>
PrevOf(bs) == IF Len(bs) < 2 THEN 0 ELSE bs[Len(bs) - 1][2]

LEMMA AddedToLast ==
  ASSUME NEW s \in Seq(Seconds), NEW n \in Nat, Len(s) > 0
  PROVE  LET k == Len(s)
             t == [s EXCEPT ![k][2] = @ + n]
         IN  t \in Seq(Seconds) /\ Len(t) = k /\ t[k] = <<s[k][1], s[k][2] + n>> /\ \A i \in 1 .. k - 1 : t[i] = s[i]
<1> DEFINE k == Len(s)
           p == s[k]
           q == [p EXCEPT ![2] = @ + n]
           t == [s EXCEPT ![k] = q]
<1>1. k \in 1 .. Len(s) /\ p \in Seconds /\ k \in Nat
  OBVIOUS
<1>2. p = <<p[1], p[2]>> /\ p[1] \in Int /\ p[2] \in Nat
  BY <1>1 DEF Seconds
<1> HIDE DEF p
<1>3. q = <<p[1], p[2] + n>>
  BY <1>2
<1>4. q \in Seconds
  BY <1>2, <1>3 DEF Seconds
<1> HIDE DEF q
<1>5. t \in Seq(Seconds) /\ Len(t) = k /\ t[k] = q /\ \A i \in 1 .. k - 1 : t[i] = s[i]
  <2> HIDE DEF Seconds
  <2> QED BY <1>1, <1>4
<1>6. t = [s EXCEPT ![k][2] = @ + n]
  BY DEF q, p
<1> HIDE DEF t
<1> QED BY <1>3, <1>5, <1>6 DEF p

LEMMA AccountDoes ==
  ASSUME ghost.bySecond \in Seq(Seconds), now \in Nat, NEW n \in Nat, NEW at \in Int, NEW win,
         Follows(ghost.bySecond, at, win)
  PROVE  LET turn == SecondOf(now) # at
         IN  /\ Account(n) \in Seq(Seconds) /\ Len(Account(n)) > 0
             /\ Follows(Account(n), SecondOf(now), (IF turn THEN 0 ELSE win) + n)
             /\ PrevOf(Account(n)) = IF turn THEN win ELSE PrevOf(ghost.bySecond)
             /\ ~turn /\ Len(Account(n)) > 1 => Len(ghost.bySecond) > 1
<1> DEFINE s == ghost.bySecond
           k == Len(s)
           sec == SecondOf(now)
           p == <<sec, n>>
<1>1. k \in Nat /\ sec \in Nat /\ p \in Seconds /\ win \in Nat
  <2>1. k \in Nat /\ win \in Nat
    BY DEF Follows
  <2>2. sec \in Nat
    BY SecondIsInt
  <2> QED BY <2>1, <2>2 DEF Seconds
<1>2. CASE k > 0 /\ s[k][1] = sec
  <2> DEFINE t == [s EXCEPT ![k][2] = @ + n]
  <2>1. Account(n) = t
    BY <1>2 DEF Account
  <2>2. t \in Seq(Seconds) /\ Len(t) = k /\ t[k] = <<s[k][1], s[k][2] + n>> /\ \A i \in 1 .. k - 1 : t[i] = s[i]
    BY <1>2, AddedToLast
  <2> HIDE DEF t
  <2>3. s[k] = <<at, win>>
    BY <1>2 DEF Follows
  <2>4. at = sec /\ t[k] = <<sec, win + n>>
    BY <1>2, <2>2, <2>3
  <2>5. PrevOf(t) = PrevOf(s)
    <3>1. CASE k < 2
      BY <2>2, <3>1 DEF PrevOf
    <3>2. CASE ~(k < 2)
      <4>1. k - 1 \in 1 .. k - 1
        BY <1>1, <3>2
      <4>2. t[k - 1] = s[k - 1]
        BY <2>2, <4>1
      <4> QED BY <2>2, <4>2 DEF PrevOf
    <3> QED BY <3>1, <3>2
  <2>6. Follows(t, sec, win + n)
    BY <1>1, <1>2, <2>2, <2>4 DEF Follows
  <2> QED BY <1>2, <2>1, <2>2, <2>4, <2>5, <2>6
<1>3. CASE ~(k > 0 /\ s[k][1] = sec)
  <2> DEFINE t == Append(s, p)
  <2>1. Account(n) = t
    BY <1>3 DEF Account
  <2>2. t \in Seq(Seconds) /\ Len(t) = k + 1 /\ t[k + 1] = p /\ \A i \in 1 .. k : t[i] = s[i]
    <3> HIDE DEF p, Seconds, s
    <3> QED BY <1>1 DEF s
  <2> HIDE DEF t
  <2>3. CASE k = 0
    <3>1. win = 0
      BY <2>3 DEF Follows
    <3>2. PrevOf(t) = 0 /\ PrevOf(s) = 0
      BY <2>2, <2>3 DEF PrevOf
    <3>3. Follows(t, sec, n)
      BY <2>2, <2>3 DEF Follows
    <3> QED BY <2>1, <2>2, <2>3, <3>1, <3>2, <3>3
  <2>4. CASE k # 0
    <3>1. s[k] = <<at, win>>
      BY <2>4 DEF Follows
    <3>2. at # sec
      BY <1>1, <1>3, <2>4, <3>1
    <3>3. PrevOf(t) = win
      <4>1. k \in 1 .. k /\ ~(k + 1 < 2) /\ (k + 1) - 1 = k
        BY <1>1, <2>4
      <4>2. t[(k + 1) - 1] = <<at, win>>
        BY <2>2, <3>1, <4>1
      <4>3. PrevOf(t) = t[(k + 1) - 1][2]
        BY <2>2, <4>1 DEF PrevOf
      <4> QED BY <4>2, <4>3
    <3>4. Follows(t, sec, n)
      BY <1>1, <2>2 DEF Follows
    <3> QED BY <1>1, <2>1, <2>2, <3>2, <3>3, <3>4
  <2> QED BY <2>3, <2>4
<1> QED BY <1>2, <1>3

(* What the statistics keep of the history of the seconds.                 *)
RateInv ==
  /\ SInv
  /\ ghost.bySecond \in Seq(Seconds)
  /\ kind = "ts" =>
       /\ S.st.Bwin = 0 /\ S.st.at \in Int
       /\ Follows(ghost.bySecond, S.st.at, S.st.win) /\ S.st.pps = PrevOf(ghost.bySecond)
  /\ kind # "ts" =>
       /\ S.st.BpsAt \in Int /\ (Len(ghost.bySecond) > 0 => S.st.Bwin > 0)
       /\ Follows(ghost.bySecond, S.st.BpsAt, S.st.Bwin) /\ S.st.ambps = PrevOf(ghost.bySecond) * 8
       /\ Len(ghost.bySecond) > 1 => S.st.abps = PrevOf(ghost.bySecond) * 8

(* Nothing of it changes.                                                  *)
RateFields == {"at", "win", "pps", "BpsAt", "Bwin", "ambps", "abps"}
LEMMA RateKept ==
  ASSUME RateInv, SInv', kind' = kind, ghost'.bySecond = ghost.bySecond,
         \A f \in RateFields : S'.st[f] = S.st[f]
  PROVE  RateInv'
BY DEF RateInv, RateFields

LEMMA RateInit == Init => RateInv
<1> SUFFICES ASSUME Init PROVE RateInv
  OBVIOUS
<1>1. SInv
  BY SInvInit
<1>2. S.st = StreamStart /\ ghost.bySecond = << >>
  BY Allocated, GhostBegins DEF Init
<1>3. << >> \in Seq(Seconds) /\ Len(<< >>) = 0
  OBVIOUS
<1> QED BY <1>1, <1>2, <1>3, Zeroes DEF RateInv, Follows, PrevOf

LEMMA RateTs == RateInv /\ SInv' /\ TsUpdate => RateInv'
<1> SUFFICES ASSUME RateInv, SInv', TsUpdate PROVE RateInv'
  OBVIOUS
<1>1. PICK buf \in TsBuffers(calls) :
        /\ S' = PidStatsUpdate(S, buf, now)
        /\ ghost' = [ghost EXCEPT !.unsynced = @ + CountIn(buf, LAMBDA p : ~p.sync),
                      !.bySecond = Account(Len(buf)),
                      !.errors = IF S'.bc.rate # S.bc.rate /\ S.bc.first # -1
                                 THEN S.st.cc - S.bc.ccAtFirst ELSE 0]
  BY DEF TsUpdate
<1>2. buf \in Seq(Packets)
  BY BuffersArePackets DEF TsUpdate, Call, RateInv, SInv
<1> DEFINE n == Len(buf)
           turn == SecondOf(now) # S.st.at
<1>3. /\ S'.st.at = SecondOf(now) /\ S'.st.win = (IF turn THEN 0 ELSE S.st.win) + n
      /\ S'.st.pps = IF turn THEN S.st.win ELSE S.st.pps
      /\ \A f \in {"seq", "BpsAt", "Bwin", "ambps", "abps"} : S'.st[f] = S.st[f]
  BY <1>1, <1>2, UpdateDoes DEF RateInv, SInv
<1>4. n \in Nat /\ kind = "ts" /\ kind' = kind /\ now \in Nat
  BY <1>2 DEF TsUpdate, Call, RateInv, SInv
<1> HIDE DEF n
<1>5. ghost'.bySecond = Account(n)
  <2> DEFINE u == ghost.unsynced + CountIn(buf, LAMBDA p : ~p.sync)
             e == IF S'.bc.rate # S.bc.rate /\ S.bc.first # -1 THEN S.st.cc - S.bc.ccAtFirst ELSE 0
             ac == Account(Len(buf))
  <2>1. ghost' = [ghost EXCEPT !.unsynced = u, !.bySecond = ac, !.errors = e]
    BY <1>1
  <2> HIDE DEF u, e, ac
  <2>2. ghost'.bySecond = ac
    BY <2>1 DEF RateInv, SInv, IsGhost, GhostFields
  <2> QED BY <2>2 DEF ac, n
<1>6. /\ Account(n) \in Seq(Seconds)
      /\ Follows(Account(n), SecondOf(now), (IF turn THEN 0 ELSE S.st.win) + n)
      /\ PrevOf(Account(n)) = IF turn THEN S.st.win ELSE PrevOf(ghost.bySecond)
  BY <1>4, AccountDoes DEF RateInv
<1>7. SecondOf(now) \in Int
  BY <1>4, SecondIsInt
<1> QED BY <1>3, <1>4, <1>5, <1>6, <1>7 DEF RateInv

LEMMA RateFrame == RateInv /\ SInv' /\ FrameUpdate => RateInv'
<1> SUFFICES ASSUME RateInv, SInv', FrameUpdate PROVE RateInv'
  OBVIOUS
<1>1. PICK bytes \in {2, 8}, skip \in {0, 1} : Frame(bytes, skip)
  BY DEF FrameUpdate
<1> DEFINE turn == SecondOf(now) # S.st.BpsAt
           ac == Account(bytes)
<1>2. kind' = kind /\ kind # "ts" /\ now \in Nat /\ IsStats(S) /\ DOMAIN ghost = GhostFields
  BY DEF FrameUpdate, Call, RateInv, SInv, IsGhost
<1>3. /\ ac \in Seq(Seconds) /\ Len(ac) > 0
      /\ Follows(ac, SecondOf(now), (IF turn THEN 0 ELSE S.st.Bwin) + bytes)
      /\ PrevOf(ac) = (IF turn THEN S.st.Bwin ELSE PrevOf(ghost.bySecond))
      /\ ~turn /\ Len(ac) > 1 => Len(ghost.bySecond) > 1
  <2>1. bytes \in Nat /\ S.st.BpsAt \in Int /\ ghost.bySecond \in Seq(Seconds)
        /\ Follows(ghost.bySecond, S.st.BpsAt, S.st.Bwin)
    BY <1>2 DEF RateInv
  <2> QED BY <1>2, <2>1, AccountDoes
<1>4. SecondOf(now) \in Int
  BY <1>2, SecondIsInt
<1>5. ASSUME ghost'.bySecond = ac,
             S'.st.BpsAt = SecondOf(now), S'.st.Bwin = (IF turn THEN 0 ELSE S.st.Bwin) + bytes,
             S'.st.ambps = IF turn THEN S.st.Bwin * 8 ELSE S.st.ambps,
             S'.st.abps = IF turn THEN S.st.Bwin * 8 ELSE S.st.abps
      PROVE  RateInv'
  <2>1. S.st.Bwin \in Nat
    BY <1>2 DEF RateInv, Follows
  <2>2. S'.st.Bwin > 0
    BY <1>5, <2>1
  <2>3. S'.st.ambps = PrevOf(ac) * 8
    BY <1>2, <1>3, <1>5 DEF RateInv
  <2>4. Len(ac) > 1 => S'.st.abps = PrevOf(ac) * 8
    <3> HIDE DEF ac, turn
    <3> QED BY <1>2, <1>3, <1>5 DEF RateInv
  <2> QED BY <1>2, <1>3, <1>4, <1>5, <2>2, <2>3, <2>4 DEF RateInv
<1>6. CASE kind = "bytes"
  <2>1. /\ S' = BytestreamUpdate(S, bytes, bytes = 8, now)
        /\ ghost' = [ghost EXCEPT !.frames = @ + 1, !.bySecond = ac]
    BY <1>1, <1>6 DEF Frame
  <2>2. /\ S'.st.BpsAt = SecondOf(now) /\ S'.st.Bwin = (IF turn THEN 0 ELSE S.st.Bwin) + bytes
        /\ S'.st.ambps = IF turn THEN S.st.Bwin * 8 ELSE S.st.ambps
        /\ S'.st.abps = IF turn THEN S.st.Bwin * 8 ELSE S.st.abps
    BY <1>2, <2>1, BytestreamDoes
  <2> HIDE DEF ac
  <2>3. ghost'.bySecond = ac
    BY <1>2, <2>1 DEF GhostFields
  <2> QED BY <1>5, <2>2, <2>3
<1>7. CASE kind # "bytes" /\ bytes < 4
  <2> DEFINE seq == (S.st.seq + 1 + skip) % 65536
  <2>1. S' = CtpUpdate(S, bytes, bytes = 8, seq, now) /\ ghost' = ghost
    BY <1>1, <1>7 DEF Frame
  <2> HIDE DEF seq
  <2>2. /\ \A f \in {"at", "pps", "win"} : S'.st[f] = S.st[f]
        /\ \A f \in {"pkts", "seq", "BpsAt", "Bwin", "ambps", "abps"} : S'.st[f] = S.st[f]
    BY <1>2, <1>7, <2>1, CtpDoes
  <2>3. \A f \in RateFields : S'.st[f] = S.st[f]
    BY <2>2 DEF RateFields
  <2> QED BY <1>2, <2>1, <2>3, RateKept
<1>8. CASE kind # "bytes" /\ ~(bytes < 4)
  <2> DEFINE seq == (S.st.seq + 1 + skip) % 65536
             o == ghost.ctpLost + IF skip = 1 /\ ghost.frames > 0 THEN 1 ELSE 0
  <2>1. S' = CtpUpdate(S, bytes, bytes = 8, seq, now)
        /\ ghost' = [ghost EXCEPT !.frames = @ + 1, !.bySecond = ac, !.ctpLost = o]
    BY <1>1, <1>8 DEF Frame
  <2> HIDE DEF seq, o
  <2>2. /\ S'.st.BpsAt = SecondOf(now) /\ S'.st.Bwin = (IF turn THEN 0 ELSE S.st.Bwin) + bytes
        /\ S'.st.ambps = IF turn THEN S.st.Bwin * 8 ELSE S.st.ambps
        /\ S'.st.abps = IF turn THEN S.st.Bwin * 8 ELSE S.st.abps
    BY <1>2, <1>8, <2>1, CtpDoes
  <2> HIDE DEF ac
  <2>3. ghost'.bySecond = ac
    BY <1>2, <2>1 DEF GhostFields
  <2> QED BY <1>5, <2>2, <2>3
<1> QED BY <1>6, <1>7, <1>8

LEMMA RateQuery ==
  ASSUME RateInv, SInv', Query
  PROVE  /\ RateInv'
         /\ LET k == Len(ghost.bySecond)
                silent == SecondOf(now) > (IF kind = "ts" THEN S.st.at ELSE S.st.BpsAt) + 2
                last == IF k < 2 THEN 0 ELSE ghost.bySecond[k - 1][2]
            IN  IF kind = "ts" THEN S'.st.pps = IF silent THEN 0 ELSE last
                ELSE /\ S'.st.ambps = 8 * (IF silent THEN 0 ELSE last)
                     /\ ~silent /\ k > 1 => S'.st.abps = 8 * last
<1> DEFINE b == S.st.Bwin > 0 /\ SecondOf(now) > S.st.BpsAt + 2
           t == SecondOf(now) > S.st.at + 2
           s == ghost.bySecond
<1>1. /\ \A f \in {"pkts", "seq", "at", "BpsAt", "abps"} : S'.st[f] = S.st[f]
      /\ S'.st.ambps = (IF b THEN 0 ELSE S.st.ambps) /\ S'.st.Bwin = (IF b THEN 0 ELSE S.st.Bwin)
      /\ S'.st.pps = (IF ~b /\ t THEN 0 ELSE S.st.pps) /\ S'.st.win = (IF ~b /\ t THEN 0 ELSE S.st.win)
      /\ ghost'.bySecond = IF SecondOf(now) > (IF kind = "ts" THEN S.st.at ELSE S.st.BpsAt) + 2
                           THEN << >> ELSE s
  <2>1. SInv
    BY DEF RateInv
  <2> QED BY <2>1, QueryDoes
<1>2. kind' = kind /\ now \in Nat
  BY DEF Query, Call, RateInv, SInv
<1>3. s \in Seq(Seconds) /\ Len(s) \in Nat /\ << >> \in Seq(Seconds) /\ Len(<< >>) = 0
  BY DEF RateInv
<1>4. S'.st.at = S.st.at /\ S'.st.BpsAt = S.st.BpsAt
  BY <1>1
<1>5. PrevOf(s) \in Nat
  <2>1. CASE Len(s) < 2
    BY <2>1 DEF PrevOf
  <2>2. CASE ~(Len(s) < 2)
    <3>1. Len(s) - 1 \in 1 .. Len(s)
      BY <1>3, <2>2
    <3>2. s[Len(s) - 1] \in Seconds
      <4> HIDE DEF Seconds
      <4> QED BY <1>3, <3>1
    <3> QED BY <2>2, <3>2 DEF PrevOf, Seconds
  <2> QED BY <2>1, <2>2
<1>6. Follows(<< >>, S.st.at, 0) /\ Follows(<< >>, S.st.BpsAt, 0) /\ PrevOf(<< >>) = 0
  BY <1>3 DEF Follows, PrevOf
<1> HIDE DEF s
<1>7. CASE kind = "ts"
  <2>1. S.st.Bwin = 0 /\ S.st.at \in Int /\ Follows(s, S.st.at, S.st.win) /\ S.st.pps = PrevOf(s)
    BY <1>7 DEF RateInv, s
  <2>2. ~b
    BY <2>1
  <2> HIDE DEF b
  <2>3. S'.st.Bwin = 0 /\ S'.st.pps = (IF t THEN 0 ELSE S.st.pps) /\ S'.st.win = (IF t THEN 0 ELSE S.st.win)
        /\ ghost'.bySecond = IF t THEN << >> ELSE s
    BY <1>1, <1>7, <2>1, <2>2
  <2>4. RateInv'
    BY <1>2, <1>3, <1>4, <1>6, <1>7, <2>1, <2>3 DEF RateInv
  <2>5. S'.st.pps = IF t THEN 0 ELSE IF Len(s) < 2 THEN 0 ELSE s[Len(s) - 1][2]
    BY <2>1, <2>3 DEF PrevOf
  <2> QED BY <1>7, <2>4, <2>5 DEF s, t
<1>8. CASE kind # "ts"
  <2> DEFINE q == SecondOf(now) > S.st.BpsAt + 2
  <2>1. S.st.BpsAt \in Int /\ (Len(s) > 0 => S.st.Bwin > 0) /\ Follows(s, S.st.BpsAt, S.st.Bwin)
        /\ S.st.ambps = PrevOf(s) * 8 /\ S.st.Bwin \in Nat /\ (Len(s) > 1 => S.st.abps = PrevOf(s) * 8)
        /\ S'.st.abps = S.st.abps
    BY <1>1, <1>8 DEF RateInv, s, Follows
  <2>2. ghost'.bySecond = IF q THEN << >> ELSE s
    BY <1>1, <1>8
  <2>3. CASE Len(s) = 0
    <3>1. S.st.Bwin = 0 /\ S.st.ambps = 0
      BY <2>1, <2>3 DEF Follows, PrevOf
    <3>2. S'.st.Bwin = 0 /\ S'.st.ambps = 0
      BY <1>1, <3>1
    <3>3. Len(ghost'.bySecond) = 0 /\ ghost'.bySecond \in Seq(Seconds)
      BY <1>3, <2>2, <2>3
    <3>4. RateInv'
      BY <1>2, <1>4, <1>8, <2>1, <3>2, <3>3 DEF RateInv, Follows, PrevOf
    <3>5. 8 * (IF q THEN 0 ELSE 0) = 0
      OBVIOUS
    <3> QED BY <1>8, <2>3, <3>2, <3>4, <3>5 DEF s
  <2>4. CASE Len(s) # 0
    <3>1. b <=> q
      BY <1>3, <2>1, <2>4
    <3> HIDE DEF b, q
    <3>2. S'.st.Bwin = (IF q THEN 0 ELSE S.st.Bwin) /\ S'.st.ambps = (IF q THEN 0 ELSE S.st.ambps)
      BY <1>1, <3>1
    <3>3. RateInv'
      BY <1>2, <1>3, <1>4, <1>5, <1>6, <1>8, <2>1, <2>2, <3>2 DEF RateInv
    <3> DEFINE last == IF Len(s) < 2 THEN 0 ELSE s[Len(s) - 1][2]
    <3>4. last = PrevOf(s)
      BY DEF PrevOf
    <3> HIDE DEF last
    <3>5. S'.st.ambps = 8 * (IF q THEN 0 ELSE last) /\ (Len(s) > 1 => S'.st.abps = 8 * last)
      BY <1>5, <2>1, <3>2, <3>4
    <3> QED BY <1>8, <3>3, <3>5 DEF s, q, last
  <2> QED BY <2>3, <2>4
<1> QED BY <1>7, <1>8

LEMMA RateOthers ==
  ASSUME RateInv, SInv', SetPcrPid \/ UseClone \/ Listen \/ Reset \/ Monitor \/ Tick
  PROVE  RateInv'
<1>1. IsStats(S) /\ CalcOk(S.bc) /\ Directory(S) /\ IsGhost(ghost) /\ calls \in Nat /\ now \in Nat
  BY DEF RateInv, SInv
<1>2. kind' = kind
  BY DEF SetPcrPid, UseClone, Listen, Reset, Monitor, Tick, Call
<1>3. CASE SetPcrPid
  <2>1. S' = SetContainsPcr(S, PcrPid) /\ ghost' = ghost
    BY <1>3 DEF SetPcrPid
  <2>2. S'.st = S.st
    BY <1>1, <2>1, SetPcrDoes, StreamAssumption DEF Kept
  <2> QED BY <1>2, <2>1, <2>2, RateKept
<1>4. CASE UseClone
  <2>1. S' = StatsClone(S) /\ ghost' = ghost
    BY <1>4 DEF UseClone
  <2>2. S'.st = S.st
    BY <1>1, <2>1, CloneDoes DEF Kept
  <2> QED BY <1>2, <2>1, <2>2, RateKept
<1>5. CASE Listen
  <2>1. CASE S' = Unregister(S, S.on) /\ ghost' = ghost
    <3>1. S'.st = S.st
      BY <1>1, <2>1, UnregisterDoes
    <3> QED BY <1>2, <2>1, <3>1, RateKept
  <2>2. ASSUME NEW e \in {"CC_COUNT", "TEI_COUNT", "SCRAMBLED_COUNT"},
               S' = Register(S, e), ghost' = [ghost EXCEPT !.base[e] = ValueOf(S, e)]
        PROVE  RateInv'
    <3>1. e \in Events
      BY DEF Events
    <3>2. S'.st = S.st
      BY <1>1, <2>2, <3>1, RegisterDoes
    <3>3. ghost'.bySecond = ghost.bySecond
      BY <1>1, <2>2 DEF IsGhost, GhostFields
    <3> QED BY <1>2, <3>2, <3>3, RateKept
  <2> QED BY <1>5, <2>1, <2>2 DEF Listen
<1>6. CASE Reset
  <2>1. S' = StatsReset([S EXCEPT !.heard = [e \in Events |-> 0]]) /\ ghost' = GhostStart
    BY <1>6 DEF Reset
  <2>2. S'.st = StreamStart /\ ghost'.bySecond = << >>
    BY <1>1, <2>1, ResetDoes, GhostBegins
  <2>3. << >> \in Seq(Seconds) /\ Len(<< >>) = 0
    OBVIOUS
  <2> QED BY <2>2, <2>3, Zeroes DEF RateInv, Follows, PrevOf
<1>7. CASE Tick
  BY <1>2, <1>7, RateKept DEF Tick
<1>8. CASE Monitor
  <2>1. PICK buf \in TrBuffers(calls), crcs \in Found, model \in Models \cup {NoModel} :
         /\ R' = ChecksWrite(R, buf, crcs, model, now)
         /\ ghost' = [Followed(ghost, buf, now) EXCEPT !.modelAt = IF model = NoModel THEN @ ELSE now]
    BY <1>8, Zenon DEF Monitor
  <2>2. S' = S /\ calls < MaxCalls
    BY <1>8 DEF Monitor, Call
  <2>3. buf \in Seq(Packets)
    BY <1>1, <2>2, BuffersArePackets
  <2> DEFINE g == Followed(ghost, buf, now)
             m == IF model = NoModel THEN g.modelAt ELSE now
  <2>4. DOMAIN g = GhostFields /\ \A f \in Unfollowed : g[f] = ghost[f]
    <3>1. Len(buf) \in Nat /\ Len(buf) \in 0 .. Len(buf) /\ DOMAIN ghost = GhostFields
      BY <1>1, <2>3 DEF IsGhost
    <3> QED BY <2>3, <3>1, FollowStages
  <2>5. ghost' = [g EXCEPT !.modelAt = m]
    BY <2>1
  <2> HIDE DEF g, m
  <2>6. ghost'.bySecond = ghost.bySecond
    BY <2>4, <2>5 DEF GhostFields, Unfollowed
  <2> QED BY <1>2, <2>2, <2>6, RateKept
<1> QED BY <1>3, <1>4, <1>5, <1>6, <1>7, <1>8

LEMMA RateStep == RateInv /\ [Next]_vars => RateInv'
<1> SUFFICES ASSUME RateInv, [Next]_vars PROVE RateInv'
  OBVIOUS
<1>1. SInv'
  BY SInvStep DEF RateInv
<1>2. CASE UNCHANGED vars
  BY <1>1, <1>2, RateKept DEF vars
<1> QED BY <1>1, <1>2, RateTs, RateFrame, RateQuery, RateOthers DEF Next

(* A rate that is read is that of the second before the last one in which  *)
(* anything was received, and zero once more than two seconds went by in   *)
(* silence; until then a324_bps is the same rate.                          *)
THEOREM RatesHold == Spec => RateIsLastSecond
<1> DEFINE Read == op' = "query" =>
              LET k == Len(ghost.bySecond)
                  silent == SecondOf(now) > (IF kind = "ts" THEN S.st.at ELSE S.st.BpsAt) + 2
                  last == IF k < 2 THEN 0 ELSE ghost.bySecond[k - 1][2]
              IN  IF kind = "ts" THEN S'.st.pps = IF silent THEN 0 ELSE last
                  ELSE /\ S'.st.ambps = 8 * (IF silent THEN 0 ELSE last)
                       /\ ~silent /\ k > 1 => S'.st.abps = 8 * last
<1>1. Spec => []RateInv
  BY RateInit, RateStep, PTL DEF Spec
<1>2. RateInv /\ [Next]_vars => [Read]_vars
  <2> SUFFICES ASSUME RateInv, Next, op' = "query" PROVE Read
    OBVIOUS
  <2>1. Query
    BY DEF Next, TsUpdate, FrameUpdate, SetPcrPid, Listen, Reset, UseClone, Monitor, Tick, Call
  <2>2. SInv'
    BY SInvStep DEF RateInv
  <2> QED BY <2>1, <2>2, RateQuery
<1>3. RateIsLastSecond <=> [][Read]_vars
  BY DEF RateIsLastSecond
<1> QED BY <1>1, <1>2, <1>3, PTL DEF Spec

-----------------------------------------------------------------------------
(* The list of verdicts.                                                   *)
Words == {"P1_1", "P1_2", "P1_3", "P1_3a", "P1_4", "P1_5", "P1_5a", "P1_6", "P2_1", "P2_2", "P2_3",
          "P2_3a", "P2_6", "raise", "clear"}
Pairs == Words \X Words
CheckFields == {"S", "good", "bad", "lastPAT", "cc", "pmts", "pat", "lastCAT", "out"}
IsMonitor(M) == DOMAIN M = CheckFields /\ M.out \in Seq(Pairs)

LEMMA Appended ==
  ASSUME NEW A, NEW s \in Seq(A), NEW x \in A
  PROVE  /\ Append(s, x) \in Seq(A) /\ Len(Append(s, x)) = Len(s) + 1 /\ Len(s) \in Nat
         /\ DOMAIN s = 1 .. Len(s) /\ DOMAIN Append(s, x) = 1 .. Len(s) + 1
         /\ Append(s, x)[Len(s) + 1] = x /\ \A i \in 1 .. Len(s) : Append(s, x)[i] = s[i]
OBVIOUS

LEMMA VerdictAppend ==
  ASSUME NEW A, NEW out \in Seq(A), NEW e, NEW v, <<e, v>> \in A, NEW d
  PROVE  Verdict(Append(out, <<e, v>>), d) = IF d = e THEN v ELSE Verdict(out, d)
<1> DEFINE o == Append(out, <<e, v>>)
           on == {i \in DOMAIN out : out[i][1] = d}
           off == {i \in DOMAIN o : o[i][1] = d}
           n == Len(out)
<1>1. n \in Nat /\ DOMAIN out = 1 .. n /\ DOMAIN o = 1 .. n + 1
      /\ o[n + 1] = <<e, v>> /\ \A i \in 1 .. n : o[i] = out[i]
  BY Appended
<1>2. o[n + 1][1] = e /\ o[n + 1][2] = v
  BY <1>1
<1>3. Verdict(o, d) = IF off = {} THEN "none" ELSE o[Max(off)][2]
  BY DEF Verdict
<1>4. Verdict(out, d) = IF on = {} THEN "none" ELSE out[Max(on)][2]
  BY DEF Verdict
<1> HIDE DEF o, n
<1>5. CASE d = e
  <2>1. n + 1 \in off /\ off \in SUBSET Int /\ \A y \in off : y <= n + 1
    BY <1>1, <1>2, <1>5
  <2> HIDE DEF off
  <2>2. Max(off) = n + 1
    BY <2>1, SameMax, FEach!MaxIs
  <2>3. Verdict(o, d) = v
    BY <1>2, <1>3, <2>1, <2>2
  <2> QED BY <1>5, <2>3 DEF o
<1>6. CASE d # e
  <2>1. off = on
    BY <1>1, <1>2, <1>6
  <2>2. CASE on # {}
    <3>1. on \in SUBSET (0 .. n)
      BY <1>1
    <3>2. on \subseteq DOMAIN out
      OBVIOUS
    <3> HIDE DEF on, off
    <3>3. Max(on) \in on
      BY <1>1, <2>2, <3>1, SameMax, FEach!MaxOfIndices
    <3>4. o[Max(on)] = out[Max(on)]
      BY <1>1, <3>2, <3>3
    <3>5. Verdict(o, d) = Verdict(out, d)
      BY <1>3, <1>4, <2>1, <3>4
    <3> QED BY <1>6, <3>5 DEF o
  <2>3. CASE on = {}
    <3> HIDE DEF on, off
    <3>1. Verdict(o, d) = Verdict(out, d)
      BY <1>3, <1>4, <2>1, <2>3
    <3> QED BY <1>6, <3>1 DEF o
  <2> QED BY <2>2, <2>3
<1> QED BY <1>5, <1>6

Spoke(M, T, e, v) ==
  /\ IsMonitor(T) /\ T.out # << >>
  /\ \A f \in CheckFields \ {"out"} : T[f] = M[f]
  /\ \A d : Verdict(T.out, d) = IF d = e THEN v ELSE Verdict(M.out, d)

LEMMA Said ==
  ASSUME NEW M, IsMonitor(M), NEW e \in Words, NEW v \in Words
  PROVE  Spoke(M, Say(M, e, v), e, v) /\ IsMonitor(Say(M, e, v))
<1>1. Say(M, e, v).out = Append(M.out, <<e, v>>) /\ DOMAIN Say(M, e, v) = CheckFields
      /\ \A f \in CheckFields \ {"out"} : Say(M, e, v)[f] = M[f]
  BY DEF Say, IsMonitor, CheckFields
<1>2. <<e, v>> \in Pairs /\ M.out \in Seq(Pairs)
  BY DEF IsMonitor, Pairs
<1>3. Append(M.out, <<e, v>>) \in Seq(Pairs) /\ Len(Append(M.out, <<e, v>>)) # 0
  <2> HIDE DEF Pairs
  <2>1. Len(M.out) \in Nat /\ Append(M.out, <<e, v>>) \in Seq(Pairs)
        /\ Len(Append(M.out, <<e, v>>)) = Len(M.out) + 1
    BY <1>2, Appended
  <2> QED BY <2>1
<1>4. Append(M.out, <<e, v>>) # << >>
  BY <1>3
<1>5. \A d : Verdict(Append(M.out, <<e, v>>), d) = IF d = e THEN v ELSE Verdict(M.out, d)
  BY <1>2, VerdictAppend
<1> QED BY <1>1, <1>3, <1>4, <1>5 DEF IsMonitor, Spoke

LEMMA SyncWords == "P1_1" \in Words /\ "P1_2" \in Words /\ "raise" \in Words /\ "clear" \in Words
BY DEF Words

(* What SyncPacket leaves, given how many packets with and without a sync  *)
(* byte came before.                                                       *)
Counted(M, g) ==
  /\ g.ok \in Nat /\ g.run \in Nat /\ M.good \in Nat /\ M.bad = g.run
  /\ M.good = g.ok \/ (M.good >= SyncClear /\ g.ok >= SyncClear)

SyncStepped(M, T, h, sync) ==
  /\ IsMonitor(T) /\ Counted(T, h)
  /\ \A f \in CheckFields \ {"out", "good", "bad"} : T[f] = M[f]
  /\ \A d : d \notin {"P1_1", "P1_2"} => Verdict(T.out, d) = Verdict(M.out, d)
  /\ IF sync
     THEN IF h.ok > SyncClear
          THEN Verdict(T.out, "P1_2") = "clear" /\ Verdict(T.out, "P1_1") = "clear"
          ELSE T.out = M.out
     ELSE /\ Verdict(T.out, "P1_2") = "raise"
          /\ Verdict(T.out, "P1_1") = IF h.run >= SyncLossThreshold THEN "raise" ELSE Verdict(M.out, "P1_1")

LEMMA SyncOne ==
  ASSUME NEW M, IsMonitor(M), NEW g, Counted(M, g), NEW pkt, pkt.sync \in BOOLEAN,
         NEW h, h.ok = (IF pkt.sync THEN g.ok + 1 ELSE 0), h.run = (IF pkt.sync THEN 0 ELSE g.run + 1)
  PROVE  SyncStepped(M, SyncPacket(M, pkt), h, pkt.sync)
<1> DEFINE seen == [M EXCEPT !.good = GoodCount(@), !.bad = 0]
           zero == [M EXCEPT !.good = 0, !.bad = @ + 1]
           lost == Say(zero, "P1_2", "raise")
<1>1. IsMonitor(seen) /\ seen.good = GoodCount(M.good) /\ seen.bad = 0 /\ seen.out = M.out
      /\ \A f \in CheckFields \ {"out", "good", "bad"} : seen[f] = M[f]
  BY DEF IsMonitor, CheckFields
<1>2. IsMonitor(zero) /\ zero.good = 0 /\ zero.bad = M.bad + 1 /\ zero.out = M.out
      /\ \A f \in CheckFields \ {"out", "good", "bad"} : zero[f] = M[f]
  BY DEF IsMonitor, CheckFields
<1>3. SyncPacket(M, pkt) =
        IF pkt.sync
        THEN IF M.good + 1 > SyncClear THEN SayBoth(seen, "P1_2", "P1_1", "clear") ELSE seen
        ELSE IF lost.bad >= SyncLossThreshold THEN Say(lost, "P1_1", "raise") ELSE lost
  BY DEF SyncPacket
<1> HIDE DEF seen, zero
<1>4. GoodCount(M.good) \in Nat
      /\ (M.good + 1 > SyncClear <=> g.ok + 1 > SyncClear)
      /\ (GoodCount(M.good) = g.ok + 1 \/ (GoodCount(M.good) >= SyncClear /\ g.ok + 1 >= SyncClear))
  BY ChecksAssumption DEF Counted, GoodCount
<1>5. CASE pkt.sync
  <2>1. h.ok = g.ok + 1 /\ h.run = 0
    BY <1>5
  <2>2. Counted(seen, h)
    BY <1>1, <1>4, <2>1 DEF Counted
  <2>3. CASE M.good + 1 > SyncClear
    <3> DEFINE T1 == Say(seen, "P1_2", "clear")
               T == Say(T1, "P1_1", "clear")
    <3>1. SyncPacket(M, pkt) = T
      BY <1>3, <1>5, <2>3 DEF SayBoth
    <3>2. Spoke(seen, T1, "P1_2", "clear") /\ IsMonitor(T1)
      BY <1>1, Said, SyncWords
    <3>3. Spoke(T1, T, "P1_1", "clear")
      BY <3>2, Said, SyncWords
    <3> HIDE DEF T, T1
    <3>4. T.good = seen.good /\ T.bad = seen.bad
      BY <3>2, <3>3 DEF CheckFields, Spoke
    <3>5. Counted(T, h)
      BY <2>2, <3>4 DEF Counted
    <3>6. h.ok > SyncClear
      BY <1>4, <2>1, <2>3
    <3> QED BY <1>1, <1>5, <3>1, <3>2, <3>3, <3>5, <3>6 DEF Spoke, SyncStepped
  <2>4. CASE ~(M.good + 1 > SyncClear)
    <3>1. SyncPacket(M, pkt) = seen
      BY <1>3, <1>5, <2>4
    <3>2. ~(h.ok > SyncClear)
      BY <1>4, <2>1, <2>4
    <3> QED BY <1>1, <1>5, <2>2, <3>1, <3>2 DEF SyncStepped
  <2> QED BY <2>3, <2>4
<1>6. CASE ~pkt.sync
  <2>1. h.ok = 0 /\ h.run = g.run + 1
    BY <1>6
  <2>2. Spoke(zero, lost, "P1_2", "raise") /\ IsMonitor(lost)
    BY <1>2, Said, SyncWords
  <2> HIDE DEF lost
  <2>3. lost.good = 0 /\ lost.bad = h.run
    BY <1>2, <2>1, <2>2 DEF CheckFields, Counted, Spoke
  <2>4. Counted(lost, h)
    BY <2>1, <2>3 DEF Counted
  <2>5. CASE lost.bad >= SyncLossThreshold
    <3> DEFINE T == Say(lost, "P1_1", "raise")
    <3>1. SyncPacket(M, pkt) = T
      BY <1>3, <1>6, <2>5
    <3>2. Spoke(lost, T, "P1_1", "raise")
      BY <2>2, Said, SyncWords
    <3> HIDE DEF T
    <3>3. T.good = lost.good /\ T.bad = lost.bad
      BY <3>2 DEF CheckFields, Spoke
    <3>4. Counted(T, h)
      BY <2>4, <3>3 DEF Counted
    <3>5. /\ IsMonitor(T) /\ \A f \in CheckFields \ {"out", "good", "bad"} : T[f] = M[f]
          /\ \A e : e \notin {"P1_1", "P1_2"} => Verdict(T.out, e) = Verdict(M.out, e)
      BY <1>2, <2>2, <3>2 DEF Spoke
    <3>6. Verdict(T.out, "P1_2") = "raise" /\ Verdict(T.out, "P1_1") = "raise" /\ h.run >= SyncLossThreshold
      BY <2>2, <2>3, <2>5, <3>2 DEF Spoke
    <3> QED BY <1>6, <3>1, <3>4, <3>5, <3>6 DEF SyncStepped
  <2>6. CASE ~(lost.bad >= SyncLossThreshold)
    <3>1. SyncPacket(M, pkt) = lost
      BY <1>3, <1>6, <2>6
    <3>2. /\ \A f \in CheckFields \ {"out", "good", "bad"} : lost[f] = M[f]
          /\ \A e : e \notin {"P1_1", "P1_2"} => Verdict(lost.out, e) = Verdict(M.out, e)
      BY <1>2, <2>2 DEF Spoke
    <3>3. Verdict(lost.out, "P1_2") = "raise" /\ Verdict(lost.out, "P1_1") = Verdict(M.out, "P1_1")
          /\ ~(h.run >= SyncLossThreshold)
      BY <1>2, <2>2, <2>3, <2>6 DEF Spoke
    <3> QED BY <1>6, <2>2, <2>4, <3>1, <3>2, <3>3 DEF SyncStepped
  <2> QED BY <2>5, <2>6
<1> QED BY <1>5, <1>6

FSync == INSTANCE DataLemmas WITH Op <- SyncStep
LEMMA SyncFolds ==
  ASSUME NEW M, NEW buf PROVE SyncPackets(M, buf) = FSync!Folded(M, buf, 0)
BY Zenon DEF SyncPackets, SyncStep, FoldLeft, MapThenFoldSet, Max, FSync!Folded, FSync!FoldLeft,
             FSync!MapThenFoldSet, FSync!Max

(* The sync alarms of a write, from its packets.                           *)
SyncSaid(out, g) ==
  /\ Verdict(out, "P1_2") = IF g.ok > SyncClear THEN "clear" ELSE IF g.hits > 0 THEN "raise" ELSE "none"
  /\ Verdict(out, "P1_1") = g.loss
  /\ g.run >= SyncLossThreshold => Verdict(out, "P1_1") = "raise"
  /\ g.ok > SyncClear => Verdict(out, "P1_1") = "clear"

LEMMA NothingSaid == \A d : Verdict(<< >>, d) = "none"
<1>1. DOMAIN << >> = {}
  OBVIOUS
<1> QED BY <1>1 DEF Verdict

LEMMA SyncDoes ==
  ASSUME NEW M, IsMonitor(M), M.out = << >>, NEW g, DOMAIN g = GhostFields, Counted(M, g),
         NEW buf \in Seq(Packets), buf # << >>, NEW at
  PROVE  LET T == SyncPackets(M, buf)
             h == Followed(g, buf, at)
         IN  /\ IsMonitor(T) /\ Counted(T, h)
             /\ \A f \in CheckFields \ {"out", "good", "bad"} : T[f] = M[f]
             /\ \A d : d \notin {"P1_1", "P1_2"} => Verdict(T.out, d) = "none"
             /\ SyncSaid(T.out, h)
<1> DEFINE n == Len(buf)
           t == FSync!Stages(M, buf, 0)
           h == FFollow!Stages(Cleared(g), buf, at)
           Ok(T, q, k) ==
             /\ IsMonitor(T) /\ Counted(T, q)
             /\ \A f \in CheckFields \ {"out", "good", "bad"} : T[f] = M[f]
             /\ \A d : d \notin {"P1_1", "P1_2"} => Verdict(T.out, d) = "none"
             /\ q.hits \in Nat /\ Verdict(T.out, "P1_1") = q.loss
             /\ ~(q.ok > SyncClear) => Verdict(T.out, "P1_2") = IF q.hits > 0 THEN "raise" ELSE "none"
             /\ k > 0 => SyncSaid(T.out, q)
           Z == {k \in Nat : k <= n => Ok(t[k], h[k], k)}
<1>1. n \in Nat /\ n > 0 /\ \A k \in 1 .. n : buf[k] \in Packets
  OBVIOUS
<1>2. t[0] = M /\ SyncPackets(M, buf) = t[n] /\ \A k \in 1 .. n : t[k] = SyncPacket(t[k - 1], buf[k])
  BY SyncFolds, FSync!FoldSteps DEF SyncStep
<1>3. /\ h[0] = Cleared(g) /\ Followed(g, buf, at) = h[n]
      /\ \A k \in 1 .. n : h[k] = Follow(h[k - 1], buf[k], at)
      /\ \A k \in 0 .. n : DOMAIN h[k] = GhostFields
  BY FollowStages
<1> HIDE DEF t, h, n
<1>4. 0 \in Z
  <2>1. Cleared(g).ok = g.ok /\ Cleared(g).run = g.run /\ Cleared(g).hits = 0 /\ Cleared(g).loss = "none"
    BY DEF Cleared, GhostFields
  <2>2. Counted(M, Cleared(g))
    BY <2>1 DEF Counted
  <2>3. Ok(M, Cleared(g), 0)
    BY <2>1, <2>2, NothingSaid
  <2> QED BY <1>2, <1>3, <2>3
<1>5. ASSUME NEW k \in Nat, k \in Z PROVE k + 1 \in Z
  <2> SUFFICES ASSUME k + 1 <= n PROVE Ok(t[k + 1], h[k + 1], k + 1)
    OBVIOUS
  <2>1. k + 1 \in 1 .. n /\ (k + 1) - 1 = k /\ k <= n /\ k \in 0 .. n
    BY <1>1
  <2> DEFINE A == t[k]
             B == t[k + 1]
             a == h[k]
             b == h[k + 1]
             p == buf[k + 1]
  <2>2. B = SyncPacket(A, p) /\ b = Follow(a, p, at) /\ Ok(A, a, k) /\ DOMAIN a = GhostFields /\ p \in Packets
    BY <1>1, <1>2, <1>3, <1>5, <2>1
  <2>3. p.sync \in BOOLEAN
    BY <2>2, PacketFields
  <2>4. /\ b.ok = (IF p.sync THEN a.ok + 1 ELSE 0) /\ b.run = (IF p.sync THEN 0 ELSE a.run + 1)
        /\ b.hits = (IF p.sync THEN a.hits ELSE a.hits + 1)
        /\ b.loss = (IF p.sync THEN IF a.ok + 1 > SyncClear THEN "clear" ELSE a.loss
                     ELSE IF a.run + 1 >= SyncLossThreshold THEN "raise" ELSE a.loss)
    BY <2>2, FollowDoes
  <2>9. IsMonitor(A) /\ Counted(A, a)
    BY <2>2
  <2> HIDE DEF A, B, a, b, p
  <2>10. SyncStepped(A, SyncPacket(A, p), b, p.sync)
    <3> HIDE DEF Ok
    <3> QED BY <2>3, <2>4, <2>9, SyncOne
  <2>5. /\ IsMonitor(B) /\ Counted(B, b)
        /\ \A f \in CheckFields \ {"out", "good", "bad"} : B[f] = A[f]
        /\ \A d : d \notin {"P1_1", "P1_2"} => Verdict(B.out, d) = Verdict(A.out, d)
        /\ IF p.sync
           THEN IF b.ok > SyncClear
                THEN Verdict(B.out, "P1_2") = "clear" /\ Verdict(B.out, "P1_1") = "clear"
                ELSE B.out = A.out
           ELSE /\ Verdict(B.out, "P1_2") = "raise"
                /\ Verdict(B.out, "P1_1") = IF b.run >= SyncLossThreshold THEN "raise" ELSE Verdict(A.out, "P1_1")
    BY <2>2, <2>10 DEF SyncStepped
  <2>6. /\ b.ok \in Nat /\ b.run \in Nat /\ a.ok \in Nat /\ a.run \in Nat /\ a.hits \in Nat
        /\ Verdict(A.out, "P1_1") = a.loss
        /\ ~(a.ok > SyncClear) => Verdict(A.out, "P1_2") = IF a.hits > 0 THEN "raise" ELSE "none"
    BY <2>2, <2>5 DEF Counted
  <2> HIDE DEF Ok
  <2>7. b.hits \in Nat /\ SyncSaid(B.out, b)
    <3>1. CASE p.sync
      <4>1. b.run = 0 /\ b.ok = a.ok + 1 /\ b.hits = a.hits
            /\ b.loss = IF b.ok > SyncClear THEN "clear" ELSE a.loss
        BY <2>4, <3>1
      <4>2. CASE b.ok > SyncClear
        BY <2>5, <2>6, <3>1, <4>1, <4>2, ChecksAssumption DEF SyncSaid
      <4>3. CASE ~(b.ok > SyncClear)
        <5>1. B.out = A.out /\ ~(a.ok > SyncClear)
          BY <2>5, <2>6, <3>1, <4>1, <4>3, ChecksAssumption
        <5> QED BY <2>6, <4>1, <4>3, <5>1, ChecksAssumption DEF SyncSaid
      <4> QED BY <4>2, <4>3
    <3>2. CASE ~p.sync
      <4>1. b.ok = 0 /\ ~(b.ok > SyncClear) /\ b.run = a.run + 1 /\ b.hits = a.hits + 1 /\ b.hits > 0
            /\ b.loss = IF b.run >= SyncLossThreshold THEN "raise" ELSE a.loss
        BY <2>4, <2>6, <3>2, ChecksAssumption
      <4> QED BY <2>5, <2>6, <3>2, <4>1 DEF SyncSaid
    <3> QED BY <3>1, <3>2
  <2>8. Ok(B, b, k + 1)
    BY <2>2, <2>5, <2>7 DEF Ok, SyncSaid
  <2> QED BY <2>8 DEF B, b
<1>6. n \in Z
  <2> HIDE DEF Z
  <2> QED BY <1>1, <1>4, <1>5, FSync!SetInduction
<1>7. Ok(t[n], h[n], n)
  BY <1>1, <1>6
<1> QED BY <1>1, <1>2, <1>3, <1>7

-----------------------------------------------------------------------------
(* What the statistics of a monitored stream keep of its history: for each *)
(* PID of which a packet came, its counter and the second it came in.      *)
Tracks(X, g) ==
  /\ DOMAIN g.next = DOMAIN g.seen /\ DOMAIN g.seen \subseteq DOMAIN X.pids
  /\ \A q \in DOMAIN X.pids : X.pids[q].pkts >= 0 /\ (q \in DOMAIN g.seen <=> X.pids[q].pkts > 0)
  /\ \A q \in DOMAIN g.seen :
       /\ X.pids[q].lastCC \in 0 .. 15 /\ g.next[q] = (X.pids[q].lastCC + 1) % 16
       /\ X.pids[q].at = SecondOf(g.seen[q])
  /\ \A q \in DOMAIN X.pids \ DOMAIN g.seen : X.pids[q].at = 0

LEMMA WithIs ==
  ASSUME NEW f, NEW x, NEW v
  PROVE  /\ DOMAIN With(f, x, v) = DOMAIN f \cup {x} /\ With(f, x, v)[x] = v
         /\ \A y \in DOMAIN f \ {x} : With(f, x, v)[y] = f[y]
BY DEF With

LEMMA NextCc ==
  ASSUME NEW a \in 0 .. 15, NEW b \in 0 .. 15
  PROVE  ((a + 1) % 16 = (b + 1) % 16 <=> a = b) /\ (a + 1) % 16 # a
<1>1. (a + 1) % 16 = IF a = 15 THEN 0 ELSE a + 1
  OBVIOUS
<1>2. (b + 1) % 16 = IF b = 15 THEN 0 ELSE b + 1
  OBVIOUS
<1> QED BY <1>1, <1>2

(* The checks of a counter agree.                                          *)
LEMMA LostIsBad ==
  ASSUME NEW X, NEW g, Tracks(X, g), NEW pkt \in Packets
  PROVE  Lost(X, pkt) <=> Bad(g, pkt)
<1> DEFINE q == pkt.pid
           old == X.pids[q].lastCC
<1>1. q \in DOMAIN X.pids /\ X.pids[q].pkts > 0 <=> q \in DOMAIN g.next
  BY DEF Tracks
<1>2. CASE q \in DOMAIN g.next
  <2>1. old \in 0 .. 15 /\ g.next[q] = (old + 1) % 16
    BY <1>2 DEF Tracks
  <2>2. pkt.cc \in 0 .. 15 /\ pkt.adap \in 0 .. 3
    BY PacketFields
  <2> HIDE DEF old
  <2>3. ((pkt.cc + 1) % 16 = (old + 1) % 16 <=> pkt.cc = old) /\ (old + 1) % 16 # old
    BY <2>1, <2>2, NextCc
  <2>4. IsCCInError(pkt, old)
        <=> ~(pkt.cc = g.next[q] \/ (pkt.adap \in {0, 2} /\ (pkt.cc + 1) % 16 = g.next[q]))
    <3> DEFINE nx == (old + 1) % 16
               nc == (pkt.cc + 1) % 16
    <3>1. g.next[q] = nx /\ (nc = nx <=> pkt.cc = old) /\ nx # old
      BY <2>1, <2>3
    <3>2. IsCCInError(pkt, old) <=> IF pkt.cc = old THEN pkt.adap \in {1, 3} ELSE nx # pkt.cc
      BY DEF IsCCInError
    <3>3. pkt.adap \in {1, 3} <=> pkt.adap \notin {0, 2}
      BY <2>2
    <3> HIDE DEF nx, nc
    <3>4. CASE pkt.cc = old
      BY <3>1, <3>2, <3>3, <3>4 DEF nc
    <3>5. CASE pkt.cc # old
      BY <3>1, <3>2, <3>5 DEF nc
    <3> QED BY <3>4, <3>5
  <2> QED BY <1>1, <1>2, <2>4 DEF Lost, Bad, old
<1>3. CASE q \notin DOMAIN g.next
  BY <1>1, <1>3 DEF Lost, Bad
<1> QED BY <1>2, <1>3

LEMMA PacketTracked ==
  ASSUME NEW X, IsStats(X), NEW g, DOMAIN g = GhostFields, Tracks(X, g), NEW pkt \in Packets, NEW at
  PROVE  /\ Tracks(OnePacket(X, pkt, at), Follow(g, pkt, at))
         /\ OnePacket(X, pkt, at).st.cc = X.st.cc + (IF Bad(g, pkt) THEN 1 ELSE 0)
         /\ OnePacket(X, pkt, at).st.scr = X.st.scr + (IF pkt.sc = 0 THEN 0 ELSE 1)
<1> DEFINE Y == OnePacket(X, pkt, at)
           h == Follow(g, pkt, at)
           q == pkt.pid
<1>1. /\ IsStats(Y)
      /\ DOMAIN Y.pids = DOMAIN X.pids \cup {q}
      /\ \A r \in DOMAIN X.pids \ {q} : Y.pids[r] = X.pids[r]
      /\ \A c \in Five : Y.st[c] - X.st[c] = Y.pids[q][c] - Val(X, q, c)
      /\ Y.pids[q].pkts = Val(X, q, "pkts") + 1
      /\ Y.pids[q].lastCC = pkt.cc /\ Y.pids[q].at = SecondOf(at)
      /\ Y.pids[q].cc = Val(X, q, "cc") + (IF Lost(X, pkt) THEN 1 ELSE 0)
      /\ Y.pids[q].scr = Val(X, q, "scr") + (IF pkt.sc = 0 THEN 0 ELSE 1)
  BY OnePacketDoes
<1>2. h.next = With(g.next, q, (pkt.cc + 1) % 16) /\ h.seen = With(g.seen, q, at)
  BY FollowDoes
<1> HIDE DEF Y, h
<1>3. q \in Pids /\ pkt.cc \in 0 .. 15
  BY PacketFields
<1>4. \A c \in {"cc", "scr", "pkts"} : Val(X, q, c) \in Int
  BY <1>3 DEF Val, IsStats, IsPid, Six
<1>5. \A c \in {"cc", "scr"} : Y.st[c] \in Int /\ X.st[c] \in Int /\ Y.st[c] - X.st[c] = Y.pids[q][c] - Val(X, q, c)
  BY <1>1 DEF IsStats, IsStream, Six, Five
<1>6. Y.st.cc = X.st.cc + (IF Lost(X, pkt) THEN 1 ELSE 0)
  BY <1>1, <1>4, <1>5
<1>7. Y.st.scr = X.st.scr + (IF pkt.sc = 0 THEN 0 ELSE 1)
  BY <1>1, <1>4, <1>5
<1>8. Tracks(Y, h)
  <2>1. /\ DOMAIN h.next = DOMAIN g.next \cup {q} /\ h.next[q] = (pkt.cc + 1) % 16
        /\ \A y \in DOMAIN g.next \ {q} : h.next[y] = g.next[y]
    BY <1>2 DEF With
  <2>2. /\ DOMAIN h.seen = DOMAIN g.seen \cup {q} /\ h.seen[q] = at
        /\ \A y \in DOMAIN g.seen \ {q} : h.seen[y] = g.seen[y]
    BY <1>2 DEF With
  <2>3. DOMAIN h.next = DOMAIN h.seen /\ DOMAIN h.seen \subseteq DOMAIN Y.pids
    BY <1>1, <2>1, <2>2 DEF Tracks
  <2>4. Y.pids[q].pkts > 0
    <3>1. Val(X, q, "pkts") >= 0 /\ Val(X, q, "pkts") \in Int
      BY <1>4 DEF Val, Tracks
    <3> QED BY <1>1, <3>1
  <2>5. ASSUME NEW r \in DOMAIN Y.pids
        PROVE  Y.pids[r].pkts >= 0 /\ (r \in DOMAIN h.seen <=> Y.pids[r].pkts > 0)
    <3>1. CASE r = q
      <4>1. Y.pids[q].pkts \in Int
        BY <1>1 DEF IsStats, IsPid, Six
      <4> QED BY <2>2, <2>4, <3>1, <4>1
    <3>2. CASE r # q
      <4>1. r \in DOMAIN X.pids /\ Y.pids[r] = X.pids[r]
        BY <1>1, <3>2
      <4> QED BY <2>2, <3>2, <4>1 DEF Tracks
    <3> QED BY <3>1, <3>2
  <2>6. ASSUME NEW r \in DOMAIN h.seen
        PROVE  /\ Y.pids[r].lastCC \in 0 .. 15 /\ h.next[r] = (Y.pids[r].lastCC + 1) % 16
               /\ Y.pids[r].at = SecondOf(h.seen[r])
    <3>1. CASE r = q
      BY <1>1, <1>3, <2>1, <2>2, <3>1
    <3>2. CASE r # q
      <4>1. r \in DOMAIN g.seen /\ r \in DOMAIN g.next /\ r \in DOMAIN X.pids
        BY <2>2, <3>2 DEF Tracks
      <4>2. Y.pids[r] = X.pids[r] /\ h.seen[r] = g.seen[r] /\ h.next[r] = g.next[r]
        BY <1>1, <2>1, <2>2, <3>2, <4>1
      <4> QED BY <4>1, <4>2 DEF Tracks
    <3> QED BY <3>1, <3>2
  <2>7. ASSUME NEW r \in DOMAIN Y.pids \ DOMAIN h.seen PROVE Y.pids[r].at = 0
    BY <1>1, <2>2 DEF Tracks
  <2> QED BY <2>3, <2>5, <2>6, <2>7 DEF Tracks
<1>9. Lost(X, pkt) <=> Bad(g, pkt)
  BY LostIsBad
<1> QED BY <1>6, <1>7, <1>8, <1>9 DEF Y, h

(* The stages of the walk over the packets and of the history, together.   *)
LEMMA EachTracked ==
  ASSUME NEW X, IsStats(X), NEW g, DOMAIN g = GhostFields, Tracks(X, g),
         NEW buf \in Seq(Packets), NEW at
  PROVE  LET Y == EachPacket(X, buf, at)
             h == Followed(g, buf, at)
         IN  /\ Tracks(Y, h)
             /\ h.lost \in BOOLEAN /\ h.scrambled \in BOOLEAN
             /\ Y.st.cc >= X.st.cc /\ Y.st.scr >= X.st.scr
             /\ h.lost <=> Y.st.cc > X.st.cc \/ Unsynced(buf, Len(buf)) # {}
             /\ h.scrambled <=> Y.st.scr > X.st.scr
<1> DEFINE n == Len(buf)
           t == FEach!Stages(X, buf, at)
           h == FFollow!Stages(Cleared(g), buf, at)
           Ok(T, q, k) ==
             /\ IsStats(T) /\ Tracks(T, q)
             /\ q.lost \in BOOLEAN /\ q.scrambled \in BOOLEAN
             /\ T.st.cc >= X.st.cc /\ T.st.scr >= X.st.scr
             /\ q.lost <=> T.st.cc > X.st.cc \/ Unsynced(buf, k) # {}
             /\ q.scrambled <=> T.st.scr > X.st.scr
           Z == {k \in Nat : k <= n => Ok(t[k], h[k], k)}
<1>1. n \in Nat /\ \A k \in 1 .. n : buf[k] \in Packets
  OBVIOUS
<1>2. t[0] = X /\ EachPacket(X, buf, at) = t[n] /\ \A k \in 1 .. n : t[k] = OnePacket(t[k - 1], buf[k], at)
  BY EachFolds, FEach!FoldSteps
<1>3. /\ h[0] = Cleared(g) /\ Followed(g, buf, at) = h[n]
      /\ \A k \in 1 .. n : h[k] = Follow(h[k - 1], buf[k], at)
      /\ \A k \in 0 .. n : DOMAIN h[k] = GhostFields
  BY FollowStages
<1> HIDE DEF t, h, n
<1>4. 0 \in Z
  <2> DEFINE c == Cleared(g)
  <2>1. c.lost = FALSE /\ c.scrambled = FALSE /\ c.next = g.next /\ c.seen = g.seen
    BY ClearedIs, ClearedKeeps
  <2> HIDE DEF c
  <2>2. Tracks(X, c)
    BY <2>1 DEF Tracks
  <2>3. X.st.cc \in Int /\ X.st.scr \in Int
    BY DEF IsStats, IsStream, Six
  <2>4. Unsynced(buf, 0) = {}
    BY DEF Unsynced
  <2>5. ~c.lost /\ ~c.scrambled /\ c.lost \in BOOLEAN /\ c.scrambled \in BOOLEAN
    BY <2>1, Zenon
  <2>6. X.st.cc >= X.st.cc /\ X.st.scr >= X.st.scr /\ ~(X.st.cc > X.st.cc) /\ ~(X.st.scr > X.st.scr)
    BY <2>3
  <2>7. Ok(X, c, 0)
    BY <2>2, <2>4, <2>5, <2>6, Zenon
  <2> QED BY <1>2, <1>3, <2>7 DEF c
<1>5. ASSUME NEW k \in Nat, k \in Z PROVE k + 1 \in Z
  <2> SUFFICES ASSUME k + 1 <= n PROVE Ok(t[k + 1], h[k + 1], k + 1)
    OBVIOUS
  <2>1. k + 1 \in 1 .. n /\ (k + 1) - 1 = k /\ k <= n /\ k \in 0 .. n
    BY <1>1
  <2> DEFINE A == t[k]
             B == t[k + 1]
             a == h[k]
             b == h[k + 1]
             p == buf[k + 1]
  <2>2. B = OnePacket(A, p, at) /\ b = Follow(a, p, at) /\ Ok(A, a, k) /\ DOMAIN a = GhostFields /\ p \in Packets
    BY <1>1, <1>2, <1>3, <1>5, <2>1
  <2>3. IsStats(A) /\ Tracks(A, a)
    BY <2>2
  <2>4. p.sync \in BOOLEAN /\ p.sc \in 0 .. 3
    BY <2>2, PacketFields
  <2> HIDE DEF A, B, a, b, p
  <2>5. /\ Tracks(OnePacket(A, p, at), Follow(a, p, at))
        /\ OnePacket(A, p, at).st.cc = A.st.cc + (IF Bad(a, p) THEN 1 ELSE 0)
        /\ OnePacket(A, p, at).st.scr = A.st.scr + (IF p.sc = 0 THEN 0 ELSE 1)
    <3> HIDE DEF Ok
    <3> QED BY <2>2, <2>3, PacketTracked
  <2>6. IsStats(OnePacket(A, p, at))
    <3> HIDE DEF Ok
    <3> QED BY <2>2, <2>3, OnePacketDoes
  <2>7. b.lost = (a.lost \/ Bad(a, p) \/ ~p.sync) /\ b.scrambled = (a.scrambled \/ p.sc # 0)
    BY <2>2, FollowDoes
  <2>15. (b.lost <=> a.lost \/ Bad(a, p) \/ ~p.sync) /\ (b.scrambled <=> a.scrambled \/ p.sc # 0)
    BY <2>7, Zenon
  <2>8. IsStats(B) /\ Tracks(B, b) /\ B.st.cc = A.st.cc + (IF Bad(a, p) THEN 1 ELSE 0)
        /\ B.st.scr = A.st.scr + (IF p.sc = 0 THEN 0 ELSE 1)
    BY <2>2, <2>5, <2>6
  <2>9. Unsynced(buf, k + 1) # {} <=> Unsynced(buf, k) # {} \/ ~p.sync
    <3>1. 1 .. k + 1 = (1 .. k) \cup {k + 1}
      OBVIOUS
    <3> QED BY <3>1 DEF Unsynced, p
  <2>10. A.st.cc \in Int /\ A.st.scr \in Int /\ X.st.cc \in Int /\ X.st.scr \in Int
    BY <2>3 DEF IsStats, IsStream, Six
  <2>11. b.lost \in BOOLEAN /\ b.scrambled \in BOOLEAN
    BY <2>7
  <2>12. B.st.cc >= X.st.cc /\ (b.lost <=> B.st.cc > X.st.cc \/ Unsynced(buf, k + 1) # {})
    <3>1. A.st.cc >= X.st.cc /\ (a.lost <=> A.st.cc > X.st.cc \/ Unsynced(buf, k) # {})
      BY <2>2
    <3>2. CASE Bad(a, p)
      BY <2>15, <2>8, <2>10, <3>1, <3>2
    <3>3. CASE ~Bad(a, p)
      BY <2>15, <2>8, <2>9, <2>10, <3>1, <3>3
    <3> QED BY <3>2, <3>3
  <2>13. B.st.scr >= X.st.scr /\ (b.scrambled <=> B.st.scr > X.st.scr)
    <3>1. A.st.scr >= X.st.scr /\ (a.scrambled <=> A.st.scr > X.st.scr)
      BY <2>2
    <3> QED BY <2>15, <2>8, <2>10, <3>1
  <2>14. Ok(B, b, k + 1)
    BY <2>8, <2>11, <2>12, <2>13
  <2> QED BY <2>14 DEF B, b
<1>6. n \in Z
  <2> HIDE DEF Z
  <2> QED BY <1>1, <1>4, <1>5, FEach!SetInduction
<1>7. Ok(t[n], h[n], n)
  BY <1>1, <1>6
<1> QED BY <1>2, <1>3, <1>7 DEF n

(* An update of the statistics, and the history of the buffer.             *)
LEMMA UpdateTracked ==
  ASSUME NEW X, IsStats(X), CalcOk(X.bc), NEW g, DOMAIN g = GhostFields, Tracks(X, g),
         NEW buf \in Seq(Packets), NEW at
  PROVE  LET Y == PidStatsUpdate(X, buf, at)
             h == Followed(g, buf, at)
         IN  /\ IsStats(Y) /\ CalcOk(Y.bc) /\ Tracks(Y, h)
             /\ h.lost \in BOOLEAN /\ h.scrambled \in BOOLEAN
             /\ h.lost <=> Y.st.cc # X.st.cc
             /\ h.scrambled <=> Y.st.scr # X.st.scr
<1> DEFINE Y == PidStatsUpdate(X, buf, at)
           h == Followed(g, buf, at)
           B == Before(X, buf, at)
           E == EachPacket(B, buf, at)
           n == Len(buf)
           u == Cardinality(Unsynced(buf, n))
<1>1. IsStats(Y) /\ CalcOk(Y.bc)
  BY UpdateDoes
<1>2. IsStats(B) /\ B.pids = X.pids /\ u \in Nat /\ B.st.cc = X.st.cc + u
      /\ \A k \in Five \ {"cc"} : B.st[k] = X.st[k]
  BY BeforeDoes
<1>3. Tracks(B, g)
  BY <1>2 DEF Tracks
<1>4. Y = [E EXCEPT !.st.lastFrame = at]
  BY UpdateSplits
<1> HIDE DEF Y, B
<1>5. IsStats(E)
  BY <1>2, EachDoes
<1>6. /\ Tracks(E, h)
      /\ h.lost \in BOOLEAN /\ h.scrambled \in BOOLEAN
      /\ E.st.cc >= B.st.cc /\ E.st.scr >= B.st.scr
      /\ h.lost <=> E.st.cc > B.st.cc \/ Unsynced(buf, n) # {}
      /\ h.scrambled <=> E.st.scr > B.st.scr
  BY <1>2, <1>3, EachTracked
<1> HIDE DEF E, h
<1>7. Same(E, Y)
  BY <1>4, <1>5, LastFrameSame
<1>8. Y.pids = E.pids /\ Y.st.cc = E.st.cc /\ Y.st.scr = E.st.scr
  BY <1>7 DEF Same, Five
<1>9. Tracks(Y, h)
  BY <1>6, <1>8 DEF Tracks
<1>10. u > 0 <=> Unsynced(buf, n) # {}
  <2>1. n \in Nat /\ Unsynced(buf, n) \subseteq 1 .. n
    BY DEF Unsynced
  <2>2. IsFiniteSet(Unsynced(buf, n))
    <3>1. IsFiniteSet(1 .. n)
      BY <2>1, FS_Interval
    <3> QED BY <2>1, <3>1, FS_Subset
  <2> QED BY <1>2, <2>2, FS_EmptySet
<1>11. /\ X.st.cc \in Int /\ X.st.scr \in Int /\ E.st.cc \in Int /\ E.st.scr \in Int
       /\ B.st.scr = X.st.scr
  BY <1>2, <1>5 DEF IsStats, IsStream, Six, Five
<1>12. h.lost <=> Y.st.cc # X.st.cc
  <2> HIDE DEF u, n
  <2> QED BY <1>2, <1>6, <1>8, <1>10, <1>11
<1>13. h.scrambled <=> Y.st.scr # X.st.scr
  BY <1>6, <1>8, <1>11
<1> QED BY <1>1, <1>6, <1>9, <1>12, <1>13 DEF Y, h

-----------------------------------------------------------------------------
(* What the history of a write holds of its packets.                       *)
Came(buf, k, q) == \E i \in 1 .. k : buf[i].pid = q
BadPatIn(buf, k) == \E i \in 1 .. k : buf[i].pid = 0 /\ (buf[i].tid # 0 \/ buf[i].sc # 0)

Recorded(g, h, buf, k, at) ==
  /\ h.patAt = (IF Came(buf, k, 0) THEN at ELSE g.patAt)
  /\ h.badPat <=> BadPatIn(buf, k)
  /\ \A q : q \in DOMAIN h.seen <=> q \in DOMAIN g.seen \/ Came(buf, k, q)
  /\ \A q : q \in DOMAIN h.seen => h.seen[q] = IF Came(buf, k, q) THEN at ELSE g.seen[q]

LEMMA OneMore ==
  ASSUME NEW buf, NEW k \in Nat
  PROVE  /\ \A q : Came(buf, k + 1, q) <=> Came(buf, k, q) \/ buf[k + 1].pid = q
         /\ BadPatIn(buf, k + 1) <=>
              BadPatIn(buf, k) \/ (buf[k + 1].pid = 0 /\ (buf[k + 1].tid # 0 \/ buf[k + 1].sc # 0))
<1>1. 1 .. k + 1 = (1 .. k) \cup {k + 1}
  OBVIOUS
<1> QED BY <1>1 DEF Came, BadPatIn

LEMMA FollowedHas ==
  ASSUME NEW g, DOMAIN g = GhostFields, NEW buf \in Seq(Packets), NEW at
  PROVE  /\ Recorded(g, Followed(g, buf, at), buf, Len(buf), at)
         /\ DOMAIN Followed(g, buf, at) = GhostFields
         /\ \A f \in Unfollowed : Followed(g, buf, at)[f] = g[f]
<1> DEFINE n == Len(buf)
           h == FFollow!Stages(Cleared(g), buf, at)
           Z == {k \in Nat : k <= n => Recorded(g, h[k], buf, k, at)}
<1>1. n \in Nat
  OBVIOUS
<1>2. /\ h[0] = Cleared(g) /\ Followed(g, buf, at) = h[n]
      /\ \A k \in 1 .. n : h[k] = Follow(h[k - 1], buf[k], at)
      /\ \A k \in 0 .. n : DOMAIN h[k] = GhostFields /\ \A f \in Unfollowed : h[k][f] = g[f]
  BY FollowStages
<1> HIDE DEF h, n
<1>3. 0 \in Z
  <2> DEFINE c == Cleared(g)
  <2>1. c.badPat = FALSE /\ c.patAt = g.patAt /\ c.seen = g.seen
    BY ClearedIs, ClearedKeeps
  <2> HIDE DEF c
  <2>2. ~c.badPat
    BY <2>1, Zenon
  <2>3. (\A q : ~Came(buf, 0, q)) /\ ~BadPatIn(buf, 0)
    BY DEF Came, BadPatIn
  <2>4. Recorded(g, c, buf, 0, at)
    BY <2>1, <2>2, <2>3, Zenon DEF Recorded
  <2> QED BY <1>2, <2>4 DEF c
<1>4. ASSUME NEW k \in Nat, k \in Z PROVE k + 1 \in Z
  <2> SUFFICES ASSUME k + 1 <= n PROVE Recorded(g, h[k + 1], buf, k + 1, at)
    OBVIOUS
  <2>1. k + 1 \in 1 .. n /\ (k + 1) - 1 = k /\ k <= n /\ k \in 0 .. n
    BY <1>1
  <2> DEFINE a == h[k]
             b == h[k + 1]
             p == buf[k + 1]
  <2>2. b = Follow(a, p, at) /\ Recorded(g, a, buf, k, at) /\ DOMAIN a = GhostFields
    BY <1>2, <1>4, <2>1
  <2> HIDE DEF a, b
  <2>3. /\ b.seen = With(a.seen, p.pid, at) /\ b.patAt = (IF p.pid = 0 THEN at ELSE a.patAt)
        /\ b.badPat = (a.badPat \/ (p.pid = 0 /\ (p.tid # 0 \/ p.sc # 0)))
    BY <2>2, FollowDoes
  <2>4. /\ \A q : Came(buf, k + 1, q) <=> Came(buf, k, q) \/ p.pid = q
        /\ BadPatIn(buf, k + 1) <=> BadPatIn(buf, k) \/ (p.pid = 0 /\ (p.tid # 0 \/ p.sc # 0))
    BY OneMore
  <2> HIDE DEF p
  <2>5. /\ \A q : q \in DOMAIN b.seen <=> q \in DOMAIN a.seen \/ q = p.pid
        /\ \A q \in DOMAIN b.seen : b.seen[q] = IF q = p.pid THEN at ELSE a.seen[q]
    BY <2>3 DEF With
  <2>6. b.badPat <=> BadPatIn(buf, k + 1)
    BY <2>2, <2>3, <2>4, Zenon DEF Recorded
  <2>7. b.patAt = (IF Came(buf, k + 1, 0) THEN at ELSE g.patAt)
    BY <2>2, <2>3, <2>4 DEF Recorded
  <2>8. \A q : q \in DOMAIN b.seen <=> q \in DOMAIN g.seen \/ Came(buf, k + 1, q)
    BY <2>2, <2>4, <2>5 DEF Recorded
  <2>9. ASSUME NEW q, q \in DOMAIN b.seen
        PROVE  b.seen[q] = IF Came(buf, k + 1, q) THEN at ELSE g.seen[q]
    <3>1. CASE q = p.pid
      BY <2>4, <2>5, <2>9, <3>1
    <3>2. CASE q # p.pid
      <4>1. q \in DOMAIN a.seen /\ b.seen[q] = a.seen[q]
        BY <2>5, <2>9, <3>2
      <4>2. a.seen[q] = IF Came(buf, k, q) THEN at ELSE g.seen[q]
        BY <2>2, <4>1 DEF Recorded
      <4> QED BY <2>4, <3>2, <4>1, <4>2
    <3> QED BY <3>1, <3>2
  <2>10. Recorded(g, b, buf, k + 1, at)
    BY <2>6, <2>7, <2>8, <2>9, Zenon DEF Recorded
  <2> QED BY <2>10 DEF b
<1>5. n \in Z
  <2> HIDE DEF Z
  <2> QED BY <1>1, <1>3, <1>4, FFollow!SetInduction
<1>6. Recorded(g, h[n], buf, n, at)
  BY <1>1, <1>5
<1> QED BY <1>1, <1>2, <1>6 DEF n

-----------------------------------------------------------------------------
(* A PID that is said to carry PCRs stays as it is in all that is tracked. *)
LEMMA PcrTracked ==
  ASSUME NEW X, IsStats(X), CalcOk(X.bc), NEW g, Tracks(X, g), NEW pid \in Pids
  PROVE  /\ IsStats(SetContainsPcr(X, pid)) /\ CalcOk(SetContainsPcr(X, pid).bc)
         /\ SetContainsPcr(X, pid).st = X.st /\ Tracks(SetContainsPcr(X, pid), g)
<1> DEFINE A == Discover(X, pid)
           p == A.pids[pid]
           q == [p EXCEPT !.hasPCR = TRUE]
           B == [A EXCEPT !.pids[pid] = q]
           b == [B.bc EXCEPT !.pid = pid, !.ccSeen = B.st.cc]
           Y == [B EXCEPT !.bc = CalcReset(b)]
<1>1. IsStats(SetContainsPcr(X, pid)) /\ CalcOk(SetContainsPcr(X, pid).bc) /\ SetContainsPcr(X, pid).st = X.st
  BY SetPcrDoes DEF Kept
<1>2. SetContainsPcr(X, pid) = Y
  <2>1. B = [A EXCEPT !.pids[pid].hasPCR = TRUE]
    OBVIOUS
  <2>2. SetContainsPcr(X, pid) = CalcInit(B, pid)
    BY <2>1 DEF SetContainsPcr
  <2> HIDE DEF B
  <2> QED BY <2>2 DEF CalcInit
<1>3. /\ IsStats(A) /\ DOMAIN A.pids = DOMAIN X.pids \cup {pid}
      /\ \A r \in DOMAIN X.pids : A.pids[r] = X.pids[r]
      /\ pid \notin DOMAIN X.pids => A.pids[pid] = PidStart
  BY Discovered
<1> HIDE DEF A
<1>4. IsPid(p)
  BY <1>3 DEF IsStats
<1>5. \A d \in {"pkts", "lastCC", "at"} : q[d] = p[d]
  <2> HIDE DEF p
  <2> QED BY <1>4 DEF IsPid, Six
<1> HIDE DEF q
<1>6. DOMAIN B.pids = DOMAIN A.pids /\ B.pids[pid] = q /\ \A r \in DOMAIN A.pids \ {pid} : B.pids[r] = A.pids[r]
      /\ Top \subseteq DOMAIN B
  BY <1>3 DEF IsStats, Top
<1> HIDE DEF B
<1>7. Y.pids = B.pids
  BY <1>6 DEF Top
<1> HIDE DEF Y
<1>8. pid \notin DOMAIN X.pids => q.pkts = 0 /\ q.at = 0
  BY <1>3, <1>5 DEF PidStart
<1>9. \A r \in DOMAIN X.pids : \A d \in {"pkts", "lastCC", "at"} : Y.pids[r][d] = X.pids[r][d]
  BY <1>3, <1>5, <1>6, <1>7
<1>10. DOMAIN Y.pids = DOMAIN X.pids \cup {pid} /\ (pid \notin DOMAIN X.pids => Y.pids[pid].pkts = 0 /\ Y.pids[pid].at = 0)
  BY <1>3, <1>6, <1>7, <1>8
<1>11. ASSUME NEW r \in DOMAIN Y.pids
       PROVE  Y.pids[r].pkts >= 0 /\ (r \in DOMAIN g.seen <=> Y.pids[r].pkts > 0)
  <2>1. CASE r \in DOMAIN X.pids
    <3>1. Y.pids[r].pkts = X.pids[r].pkts
      BY <1>9, <2>1
    <3> QED BY <2>1, <3>1 DEF Tracks
  <2>2. CASE r \notin DOMAIN X.pids
    BY <1>10, <2>2 DEF Tracks
  <2> QED BY <2>1, <2>2
<1>12. ASSUME NEW r \in DOMAIN g.seen
       PROVE  /\ Y.pids[r].lastCC \in 0 .. 15 /\ g.next[r] = (Y.pids[r].lastCC + 1) % 16
              /\ Y.pids[r].at = SecondOf(g.seen[r])
  <2>1. r \in DOMAIN X.pids
    BY DEF Tracks
  <2>2. Y.pids[r].lastCC = X.pids[r].lastCC /\ Y.pids[r].at = X.pids[r].at
    BY <1>9, <2>1
  <2> QED BY <2>2 DEF Tracks
<1>13. ASSUME NEW r \in DOMAIN Y.pids \ DOMAIN g.seen PROVE Y.pids[r].at = 0
  <2>1. CASE r \in DOMAIN X.pids
    <3>1. Y.pids[r].at = X.pids[r].at
      BY <1>9, <2>1
    <3> QED BY <2>1, <3>1 DEF Tracks
  <2>2. CASE r \notin DOMAIN X.pids
    BY <1>10, <2>2
  <2> QED BY <2>1, <2>2
<1>14. DOMAIN g.next = DOMAIN g.seen /\ DOMAIN g.seen \subseteq DOMAIN Y.pids
  BY <1>10 DEF Tracks
<1>15. Tracks(Y, g)
  BY <1>11, <1>12, <1>13, <1>14 DEF Tracks
<1> QED BY <1>1, <1>2, <1>15

FPcr == INSTANCE DataLemmas WITH Op <- ProgramPcr
LEMMA PcrFolds ==
  ASSUME NEW X, NEW pat, NEW x PROVE ProgramPcrs(X, pat, x) = FPcr!Folded(X, pat, x)
BY Zenon DEF ProgramPcrs, FoldLeft, MapThenFoldSet, Max, FPcr!Folded, FPcr!FoldLeft,
             FPcr!MapThenFoldSet, FPcr!Max

LEMMA ProgramsTracked ==
  ASSUME NEW X, IsStats(X), CalcOk(X.bc), NEW g, Tracks(X, g), NEW pat \in Seq(Programs), NEW at
  PROVE  LET Y == ProgramPcrs(X, pat, at)
         IN  IsStats(Y) /\ CalcOk(Y.bc) /\ Y.st = X.st /\ Tracks(Y, g)
<1> DEFINE n == Len(pat)
           t == FPcr!Stages(X, pat, at)
           Ok(T) == IsStats(T) /\ CalcOk(T.bc) /\ T.st = X.st /\ Tracks(T, g)
           Z == {k \in Nat : k <= n => Ok(t[k])}
<1>1. n \in Nat /\ \A k \in 1 .. n : pat[k] \in Programs
  OBVIOUS
<1>2. t[0] = X /\ ProgramPcrs(X, pat, at) = t[n] /\ \A k \in 1 .. n : t[k] = ProgramPcr(t[k - 1], pat[k], at)
  BY PcrFolds, FPcr!FoldSteps
<1> HIDE DEF t, n
<1>3. 0 \in Z
  BY <1>2
<1>4. ASSUME NEW k \in Nat, k \in Z PROVE k + 1 \in Z
  <2> SUFFICES ASSUME k + 1 <= n PROVE Ok(t[k + 1])
    OBVIOUS
  <2>1. k + 1 \in 1 .. n /\ (k + 1) - 1 = k /\ k <= n
    BY <1>1
  <2> DEFINE A == t[k]
             B == t[k + 1]
             p == pat[k + 1]
  <2>2. B = ProgramPcr(A, p, at) /\ Ok(A) /\ p \in Programs
    BY <1>1, <1>2, <1>4, <2>1
  <2>3. p.pcr \in Pids \cup {0}
    BY <2>2 DEF Programs
  <2>4. IsStats(A) /\ CalcOk(A.bc) /\ A.st = X.st /\ Tracks(A, g)
    BY <2>2
  <2> HIDE DEF A, B, p
  <2>5. CASE p.pcr = 0
    BY <2>2, <2>5 DEF ProgramPcr, B
  <2>6. CASE p.pcr # 0
    <3> DEFINE Q == SetContainsPcr(A, p.pcr)
    <3>1. p.pcr \in Pids /\ B = Q
      BY <2>2, <2>3, <2>6 DEF ProgramPcr
    <3>2. IsStats(Q) /\ CalcOk(Q.bc) /\ Q.st = A.st /\ Tracks(Q, g)
      <4> HIDE DEF Ok
      <4> QED BY <2>4, <3>1, PcrTracked
    <3> HIDE DEF Q
    <3> QED BY <2>4, <3>1, <3>2 DEF B
  <2> QED BY <2>5, <2>6
<1>5. n \in Z
  <2> HIDE DEF Z
  <2> QED BY <1>1, <1>3, <1>4, FPcr!SetInduction
<1>6. Ok(t[n])
  BY <1>1, <1>5
<1> QED BY <1>2, <1>6

-----------------------------------------------------------------------------
(* A part of a write changes the fields F of the monitor, and speaks of    *)
(* the events E only.                                                      *)
Moved(M, T, F, E) ==
  /\ IsMonitor(T) /\ (M.out # << >> => T.out # << >>)
  /\ \A f \in CheckFields \ (F \cup {"out"}) : T[f] = M[f]
  /\ \A d : d \notin E => Verdict(T.out, d) = Verdict(M.out, d)

LEMMA MovedOn ==
  ASSUME NEW M, NEW T, NEW U, NEW F, NEW G, NEW E, NEW D, Moved(M, T, F, E), Moved(T, U, G, D)
  PROVE  Moved(M, U, F \cup G, E \cup D)
BY Zenon DEF Moved

LEMMA SpokeMoves ==
  ASSUME NEW M, NEW T, NEW e, NEW v, Spoke(M, T, e, v)
  PROVE  Moved(M, T, {}, {e}) /\ T.out # << >> /\ Verdict(T.out, e) = v
BY DEF Spoke, Moved

LEMMA JudgedDoes ==
  ASSUME NEW M, IsMonitor(M), NEW e \in Words, NEW wrong
  PROVE  /\ Spoke(M, Judged(M, e, wrong), e, IF wrong THEN "raise" ELSE "clear")
         /\ IsMonitor(Judged(M, e, wrong))
         /\ Moved(M, Judged(M, e, wrong), {}, {e})
         /\ Judged(M, e, wrong).out # << >>
         /\ Verdict(Judged(M, e, wrong).out, e) = "raise" <=> wrong
<1> DEFINE v == IF wrong THEN "raise" ELSE "clear"
<1>1. v \in Words /\ (v = "raise" <=> wrong)
  BY DEF Words
<1>2. Judged(M, e, wrong) = Say(M, e, v)
  BY DEF Judged
<1> HIDE DEF v
<1>3. Spoke(M, Say(M, e, v), e, v) /\ IsMonitor(Say(M, e, v))
  BY <1>1, Said
<1>4. Moved(M, Say(M, e, v), {}, {e}) /\ Say(M, e, v).out # << >> /\ Verdict(Say(M, e, v).out, e) = v
  BY <1>3, SpokeMoves
<1> QED BY <1>1, <1>2, <1>3, <1>4 DEF v

Ruled(M, T, e, d, wrong) ==
  /\ IsMonitor(T) /\ Moved(M, T, {}, {e, d}) /\ T.out # << >>
  /\ Verdict(T.out, e) = "raise" <=> wrong

LEMMA TwoJudged ==
  ASSUME NEW M, IsMonitor(M), NEW e \in Words, NEW d \in Words, e # d, NEW wrong
  PROVE  Ruled(M, Judged(Judged(M, e, wrong), d, wrong), e, d, wrong)
<1> DEFINE A == Judged(M, e, wrong)
           T == Judged(A, d, wrong)
<1>1. IsMonitor(A) /\ Moved(M, A, {}, {e}) /\ (Verdict(A.out, e) = "raise" <=> wrong)
  BY JudgedDoes
<1> HIDE DEF A
<1>2. IsMonitor(T) /\ Moved(A, T, {}, {d}) /\ T.out # << >>
  BY <1>1, JudgedDoes
<1> HIDE DEF T
<1>3. Moved(M, T, {}, {e, d})
  <2>1. Moved(M, T, {} \cup {}, {e} \cup {d})
    BY <1>1, <1>2, MovedOn
  <2>2. {} \cup {} = {} /\ {e} \cup {d} = {e, d}
    OBVIOUS
  <2> QED BY <2>1, <2>2
<1>4. Verdict(T.out, e) = Verdict(A.out, e)
  BY <1>2 DEF Moved
<1>5. Ruled(M, T, e, d, wrong)
  BY <1>1, <1>2, <1>3, <1>4 DEF Ruled
<1> QED BY <1>5 DEF T, A

Uttered(M, T, e, d, v) ==
  IsMonitor(T) /\ Moved(M, T, {}, {e, d}) /\ T.out # << >> /\ Verdict(T.out, e) = v

LEMMA BothSaid ==
  ASSUME NEW M, IsMonitor(M), NEW e \in Words, NEW d \in Words, e # d, NEW v \in Words
  PROVE  Uttered(M, SayBoth(M, e, d, v), e, d, v)
<1> DEFINE A == Say(M, e, v)
           T == Say(A, d, v)
<1>1. Spoke(M, A, e, v) /\ IsMonitor(A)
  BY Said
<1> HIDE DEF A
<1>2. Spoke(A, T, d, v) /\ IsMonitor(T)
  BY <1>1, Said
<1> HIDE DEF T
<1>3. Moved(M, A, {}, {e}) /\ Moved(A, T, {}, {d}) /\ T.out # << >> /\ Verdict(A.out, e) = v
  BY <1>1, <1>2, SpokeMoves
<1>4. Moved(M, T, {}, {e, d})
  <2>1. Moved(M, T, {} \cup {}, {e} \cup {d})
    BY <1>3, MovedOn
  <2>2. {} \cup {} = {} /\ {e} \cup {d} = {e, d}
    OBVIOUS
  <2> QED BY <2>1, <2>2
<1>5. Verdict(T.out, e) = v
  BY <1>3 DEF Moved
<1>6. Uttered(M, T, e, d, v)
  BY <1>2, <1>3, <1>4, <1>5 DEF Uttered
<1> QED BY <1>6 DEF T, A, SayBoth

(* The words are words.                                                    *)
LEMMA AllWords ==
  {"P1_1", "P1_2", "P1_3", "P1_3a", "P1_4", "P1_5", "P1_5a", "P1_6", "P2_1", "P2_2", "P2_3", "P2_3a",
   "P2_6", "raise", "clear"} \subseteq Words
BY DEF Words

(* A field that is set.                                                    *)
IsSet(M, T, f, v) == IsMonitor(T) /\ Moved(M, T, {f}, {}) /\ T[f] = v /\ T.out = M.out

LEMMA FieldSet ==
  ASSUME NEW M, IsMonitor(M), NEW f \in CheckFields \ {"out"}, NEW v
  PROVE  IsSet(M, [M EXCEPT ![f] = v], f, v)
BY DEF IsMonitor, Moved, CheckFields, IsSet

LEMMA PatDoes ==
  ASSUME NEW M, IsMonitor(M), NEW buf \in Seq(Packets), NEW at \in Nat
  PROVE  LET T == CheckPat(M, buf, at)
         IN  /\ Moved(M, T, {"lastPAT"}, {"P1_3", "P1_3a"}) /\ T.out # << >>
             /\ T.lastPAT = (IF Came(buf, Len(buf), 0) THEN at ELSE M.lastPAT)
             /\ Verdict(T.out, "P1_3") = "raise"
                <=> BadPatIn(buf, Len(buf)) \/ (~Came(buf, Len(buf), 0) /\ at >= M.lastPAT + TableTime)
<1> DEFINE issue == \/ \E i \in {j \in DOMAIN buf : buf[j].pid = 0} : buf[i].tid # 0 \/ buf[i].sc # 0
                    \/ {j \in DOMAIN buf : buf[j].pid = 0} = {} /\ at >= M.lastPAT + TableTime
           x == PatAt(M, buf, at)
           A == [M EXCEPT !.lastPAT = x]
           T == Judged(Judged(A, "P1_3", issue), "P1_3a", issue)
<1>1. CheckPat(M, buf, at) = T
  BY DEF CheckPat
<1>2. IsMonitor(A) /\ Moved(M, A, {"lastPAT"}, {}) /\ A.lastPAT = PatAt(M, buf, at)
  <2> HIDE DEF x, issue, T
  <2>1. "lastPAT" \in CheckFields \ {"out"}
    BY DEF CheckFields
  <2>2. IsSet(M, A, "lastPAT", x)
    BY <2>1, FieldSet
  <2> QED BY <2>2 DEF IsSet, x
<1>3. DOMAIN buf = 1 .. Len(buf)
  OBVIOUS
<1>4. PatAt(M, buf, at) = IF Came(buf, Len(buf), 0) THEN at ELSE M.lastPAT
  BY <1>3 DEF PatAt, Came
<1>5. issue <=> BadPatIn(buf, Len(buf)) \/ (~Came(buf, Len(buf), 0) /\ at >= M.lastPAT + TableTime)
  BY <1>3 DEF BadPatIn, Came
<1> HIDE DEF A, issue
<1>6. IsMonitor(T) /\ Moved(A, T, {}, {"P1_3", "P1_3a"}) /\ T.out # << >> /\ (Verdict(T.out, "P1_3") = "raise" <=> issue)
  <2>1. "P1_3" \in Words /\ "P1_3a" \in Words /\ "P1_3" # "P1_3a"
    BY AllWords
  <2>2. IsMonitor(A)
    BY <1>2
  <2>3. Ruled(A, T, "P1_3", "P1_3a", issue)
    BY <2>1, <2>2, TwoJudged
  <2> QED BY <2>3 DEF Ruled
<1> HIDE DEF T
<1>7. Moved(M, T, {"lastPAT"}, {"P1_3", "P1_3a"})
  <2>1. Moved(M, T, {"lastPAT"} \cup {}, {} \cup {"P1_3", "P1_3a"})
    BY <1>2, <1>6, MovedOn
  <2>2. {"lastPAT"} \cup {} = {"lastPAT"} /\ {} \cup {"P1_3", "P1_3a"} = {"P1_3", "P1_3a"}
    OBVIOUS
  <2> QED BY <2>1, <2>2
<1>8. T.lastPAT = A.lastPAT
  BY <1>6 DEF Moved, CheckFields
<1> QED BY <1>1, <1>2, <1>4, <1>5, <1>6, <1>7, <1>8

LEMMA ContinuityChecked ==
  ASSUME NEW M, IsMonitor(M)
  PROVE  LET T == CheckContinuity(M)
         IN  /\ Moved(M, T, {"cc"}, {"P1_4"}) /\ T.cc = M.S.st.cc
             /\ Verdict(T.out, "P1_4") = "raise" <=> M.cc # M.S.st.cc
<1> DEFINE wrong == M.cc # M.S.st.cc
           A == Judged(M, "P1_4", wrong)
           v == M.S.st.cc
           T == [A EXCEPT !.cc = v]
<1>1. CheckContinuity(M) = T
  BY DEF CheckContinuity
<1>2. IsMonitor(A) /\ Moved(M, A, {}, {"P1_4"}) /\ (Verdict(A.out, "P1_4") = "raise" <=> wrong)
  <2> HIDE DEF wrong
  <2> QED BY AllWords, JudgedDoes
<1> HIDE DEF A
<1> HIDE DEF v
<1>3. IsMonitor(T) /\ Moved(A, T, {"cc"}, {}) /\ T.cc = v /\ T.out = A.out
  <2>1. "cc" \in CheckFields \ {"out"} /\ IsMonitor(A)
    BY <1>2 DEF CheckFields
  <2>2. IsSet(A, T, "cc", v)
    BY <2>1, FieldSet
  <2> QED BY <2>2 DEF IsSet
<1> HIDE DEF T
<1>4. Moved(M, T, {"cc"}, {"P1_4"})
  <2>1. Moved(M, T, {} \cup {"cc"}, {"P1_4"} \cup {})
    BY <1>2, <1>3, MovedOn
  <2>2. {} \cup {"cc"} = {"cc"} /\ {"P1_4"} \cup {} = {"P1_4"}
    OBVIOUS
  <2> QED BY <2>1, <2>2
<1> QED BY <1>1, <1>2, <1>3, <1>4 DEF v

FCrc == INSTANCE DataLemmas WITH Op <- CrcOf
LEMMA CrcFolds ==
  ASSUME NEW M, NEW s, NEW x PROVE CrcChecked(M, s, x) = FCrc!Folded(M, s, x)
BY Zenon DEF CrcChecked, FoldLeft, MapThenFoldSet, Max, FCrc!Folded, FCrc!FoldLeft,
             FCrc!MapThenFoldSet, FCrc!Max

Crcs == [table : {"PAT", "PMT", "SDT"}, valid : BOOLEAN]
LEMMA CrcDoes ==
  ASSUME NEW M, IsMonitor(M), NEW s \in Seq(Crcs), NEW at
  PROVE  Moved(M, CrcChecked(M, s, at), {}, {"P2_2"})
<1> DEFINE n == Len(s)
           t == FCrc!Stages(M, s, at)
           Z == {k \in Nat : k <= n => Moved(M, t[k], {}, {"P2_2"})}
<1>1. n \in Nat /\ \A k \in 1 .. n : s[k] \in Crcs
  OBVIOUS
<1>2. t[0] = M /\ CrcChecked(M, s, at) = t[n] /\ \A k \in 1 .. n : t[k] = CrcOf(t[k - 1], s[k], at)
  BY CrcFolds, FCrc!FoldSteps
<1> HIDE DEF t, n
<1>3. 0 \in Z
  BY <1>2 DEF Moved
<1>4. ASSUME NEW k \in Nat, k \in Z PROVE k + 1 \in Z
  <2> SUFFICES ASSUME k + 1 <= n PROVE Moved(M, t[k + 1], {}, {"P2_2"})
    OBVIOUS
  <2>1. k + 1 \in 1 .. n /\ (k + 1) - 1 = k /\ k <= n
    BY <1>1
  <2> DEFINE A == t[k]
             c == s[k + 1]
             J == Judged(A, "P2_2", ~c.valid)
             x == J.lastCAT
             B == [J EXCEPT !.lastCAT = x]
  <2>2. t[k + 1] = CrcOf(A, c, at) /\ Moved(M, A, {}, {"P2_2"}) /\ c \in Crcs
    BY <1>1, <1>2, <1>4, <2>1
  <2>3. c.table # "CAT" /\ IsMonitor(A)
    BY <2>2 DEF Crcs, Moved
  <2> HIDE DEF A, c
  <2>4. IsMonitor(J) /\ Moved(A, J, {}, {"P2_2"})
    BY <2>3, AllWords, JudgedDoes
  <2>5. CrcOf(A, c, at) = B
    BY <2>3 DEF CrcOf
  <2> HIDE DEF J
  <2>6. Moved(J, B, {"lastCAT"}, {}) /\ B.lastCAT = J.lastCAT
    <3> HIDE DEF x
    <3>1. "lastCAT" \in CheckFields \ {"out"} /\ IsMonitor(J)
      BY <2>4 DEF CheckFields
    <3>2. IsSet(J, B, "lastCAT", x)
      BY <3>1, FieldSet
    <3> QED BY <3>2 DEF IsSet, x
  <2>7. Moved(J, B, {}, {})
    BY <2>6 DEF Moved
  <2> HIDE DEF B
  <2>8. Moved(A, B, {} \cup {}, {"P2_2"} \cup {})
    BY <2>4, <2>7, MovedOn
  <2>9. Moved(M, B, {} \cup ({} \cup {}), {"P2_2"} \cup ({"P2_2"} \cup {}))
    BY <2>2, <2>8, MovedOn
  <2>10. {} \cup ({} \cup {}) = {} /\ {"P2_2"} \cup ({"P2_2"} \cup {}) = {"P2_2"}
    OBVIOUS
  <2> QED BY <2>2, <2>5, <2>9, <2>10
<1>5. n \in Z
  <2> HIDE DEF Z
  <2> QED BY <1>1, <1>3, <1>4, FCrc!SetInduction
<1>6. Moved(M, t[n], {}, {"P2_2"})
  BY <1>1, <1>5
<1> QED BY <1>2, <1>6

(* What the checks look at in the statistics.                              *)
StatsOf(M, T, g) ==
  IsStats(T.S) /\ CalcOk(T.S.bc) /\ T.S.st = M.S.st /\ Tracks(T.S, g)
Silent(T, pat, at) == \E pid \in Referred(pat) : ~IsPIDActive(T, pid, at)
PidsChecked(M, at) == CheckPids(PatModel(SayBoth(M, "P1_5", "P1_5a", "clear"), at), at)

LEMMA ModelChecked ==
  ASSUME NEW M, IsMonitor(M), M.pat \in Seq(Programs), NEW at,
         IsStats(M.S), CalcOk(M.S.bc), NEW g, Tracks(M.S, g)
  PROVE  LET T == PidsChecked(M, at)
         IN  /\ Moved(M, T, {"S"}, {"P1_5", "P1_5a", "P1_6"}) /\ StatsOf(M, T, g)
             /\ Verdict(T.out, "P1_5") = "clear"
             /\ Verdict(T.out, "P1_6") = "raise" <=> Silent(T, M.pat, at)
<1> DEFINE A == SayBoth(M, "P1_5", "P1_5a", "clear")
           X == ProgramPcrs(A.S, A.pat, at)
           B == [A EXCEPT !.S = X]
           wrong == Silent(B, B.pat, at)
           T == Judged(B, "P1_6", wrong)
<1>1. IsMonitor(A) /\ Moved(M, A, {}, {"P1_5", "P1_5a"}) /\ Verdict(A.out, "P1_5") = "clear"
  <2>1. "P1_5" \in Words /\ "P1_5a" \in Words /\ "clear" \in Words /\ "P1_5" # "P1_5a"
    BY AllWords
  <2> DEFINE v == "clear"
             Q == SayBoth(M, "P1_5", "P1_5a", v)
  <2>2. v \in Words
    BY <2>1
  <2> HIDE DEF v
  <2>3. Uttered(M, Q, "P1_5", "P1_5a", v)
    BY <2>1, <2>2, BothSaid
  <2> QED BY <2>3 DEF v, Uttered
<1>2. PidsChecked(M, at) = T
  BY DEF PidsChecked, CheckPids, PatModel, Silent
<1> HIDE DEF A
<1>3. A.S = M.S /\ A.pat = M.pat
  BY <1>1 DEF Moved, CheckFields
<1>4. IsStats(X) /\ CalcOk(X.bc) /\ X.st = M.S.st /\ Tracks(X, g)
  BY <1>3, ProgramsTracked
<1> HIDE DEF X
<1>5. IsMonitor(B) /\ Moved(A, B, {"S"}, {}) /\ B.S = X
  <2> HIDE DEF wrong, T
  <2>1. "S" \in CheckFields \ {"out"} /\ IsMonitor(A)
    BY <1>1 DEF CheckFields
  <2>2. IsSet(A, B, "S", X)
    BY <2>1, FieldSet
  <2> QED BY <2>2 DEF IsSet
<1> HIDE DEF B
<1>6. B.pat = M.pat
  BY <1>3, <1>5 DEF Moved, CheckFields
<1>7. IsMonitor(T) /\ Moved(B, T, {}, {"P1_6"}) /\ (Verdict(T.out, "P1_6") = "raise" <=> wrong)
  <2> HIDE DEF wrong
  <2> QED BY <1>5, AllWords, JudgedDoes
<1> HIDE DEF T
<1>8. T.S = X
  BY <1>5, <1>7 DEF Moved, CheckFields
<1>9. wrong <=> Silent(T, M.pat, at)
  BY <1>5, <1>6, <1>8 DEF Silent, IsPIDActive
<1>10. Moved(M, T, {"S"}, {"P1_5", "P1_5a", "P1_6"})
  <2>1. Moved(M, B, {} \cup {"S"}, {"P1_5", "P1_5a"} \cup {})
    BY <1>1, <1>5, MovedOn
  <2>2. Moved(M, T, ({} \cup {"S"}) \cup {}, ({"P1_5", "P1_5a"} \cup {}) \cup {"P1_6"})
    BY <1>7, <2>1, MovedOn
  <2>3. ({} \cup {"S"}) \cup {} = {"S"} /\ ({"P1_5", "P1_5a"} \cup {}) \cup {"P1_6"} = {"P1_5", "P1_5a", "P1_6"}
    OBVIOUS
  <2> QED BY <2>2, <2>3
<1>11. Verdict(T.out, "P1_5") = Verdict(A.out, "P1_5")
  BY <1>5, <1>7 DEF Moved
<1>12. StatsOf(M, T, g)
  BY <1>4, <1>8 DEF StatsOf
<1> QED BY <1>1, <1>2, <1>7, <1>9, <1>10, <1>11, <1>12

(* p1_process_p1_56 as a whole.                                            *)
PatOf(M, model) == IF model = NoModel THEN M.pat ELSE model
PmtsOf(M, model, at) == IF model = NoModel THEN M.pmts ELSE PmtTimers(model, at)
Late(T, at) == \E i \in DOMAIN T.pmts : Expired(T.pmts[i].at, at)

PmtsChecked(M, T, g, buf, model, at) ==
  /\ Moved(M, T, {"S", "pat", "pmts"}, {"P1_5", "P1_5a", "P1_6", "P2_2"}) /\ StatsOf(M, T, g)
  /\ T.pat = PatOf(M, model) /\ T.pmts = PmtSeen(PmtsOf(M, model, at), buf, at)
  /\ T.pat # NoModel =>
       /\ Verdict(T.out, "P1_6") = "raise" <=> Silent(T, T.pat, at)
       /\ Verdict(T.out, "P1_5") = "raise" <=> Late(T, at)

LEMMA PmtsDoes ==
  ASSUME NEW M, IsMonitor(M), NEW buf, NEW crcs \in Seq(Crcs), NEW model, NEW at,
         PatOf(M, model) \in Seq(Programs),
         IsStats(M.S), CalcOk(M.S.bc), NEW g, Tracks(M.S, g)
  PROVE  PmtsChecked(M, CheckPmts(M, buf, crcs, model, at), g, buf, model, at)
<1> DEFINE R1 == CrcChecked(M, crcs, at)
           R2 == IF model = NoModel THEN R1 ELSE [R1 EXCEPT !.pat = model, !.pmts = PmtTimers(model, at)]
           R3 == IF R2.pat = NoModel THEN R2 ELSE PidsChecked(R2, at)
           R4 == [R3 EXCEPT !.pmts = PmtSeen(@, buf, at)]
           late == \E i \in DOMAIN R4.pmts : Expired(R4.pmts[i].at, at)
           T == IF DOMAIN R4.pmts = {} THEN R4
                ELSE SayBoth(R4, "P1_5", "P1_5a", IF late THEN "raise" ELSE "clear")
<1>1. CheckPmts(M, buf, crcs, model, at) = T
  BY DEF CheckPmts, PidsChecked
<1>2. Moved(M, R1, {}, {"P2_2"}) /\ IsMonitor(R1)
  <2>1. Moved(M, R1, {}, {"P2_2"})
    BY CrcDoes
  <2> QED BY <2>1 DEF Moved
<1> HIDE DEF R1
<1>3. /\ IsMonitor(R2) /\ Moved(R1, R2, {"pat", "pmts"}, {})
      /\ R2.pat = PatOf(M, model) /\ R2.pmts = PmtsOf(M, model, at) /\ R2.S = M.S
  <2>1. R1.pat = M.pat /\ R1.pmts = M.pmts /\ R1.S = M.S
    BY <1>2 DEF Moved, CheckFields
  <2>2. CASE model = NoModel
    BY <1>2, <2>1, <2>2 DEF Moved, PatOf, PmtsOf
  <2>3. CASE model # NoModel
    <3> DEFINE p == PmtTimers(model, at)
               Q == [R1 EXCEPT !.pat = model, !.pmts = p]
    <3>1. R2 = Q
      BY <2>3
    <3>2. PatOf(M, model) = model /\ PmtsOf(M, model, at) = p
      BY <2>3 DEF PatOf, PmtsOf
    <3> HIDE DEF p
    <3>3. IsMonitor(Q) /\ Moved(R1, Q, {"pat", "pmts"}, {}) /\ Q.pat = model /\ Q.pmts = p /\ Q.S = R1.S
      BY <1>2 DEF IsMonitor, Moved, CheckFields
    <3> HIDE DEF Q
    <3> QED BY <2>1, <3>1, <3>2, <3>3
  <2> QED BY <2>2, <2>3
<1> HIDE DEF R2
<1>4. /\ Moved(R2, R3, {"S"}, {"P1_5", "P1_5a", "P1_6"}) /\ StatsOf(R2, R3, g)
      /\ R2.pat # NoModel => Verdict(R3.out, "P1_5") = "clear"
      /\ R2.pat # NoModel => (Verdict(R3.out, "P1_6") = "raise" <=> Silent(R3, R2.pat, at))
  <2>1. CASE R2.pat = NoModel
    BY <1>3, <2>1 DEF Moved, StatsOf
  <2>2. CASE R2.pat # NoModel
    <3> DEFINE Q == PidsChecked(R2, at)
    <3>1. R3 = Q
      BY <2>2
    <3>2. R2.pat \in Seq(Programs) /\ IsStats(R2.S) /\ CalcOk(R2.S.bc) /\ Tracks(R2.S, g)
      BY <1>3
    <3>3. /\ Moved(R2, Q, {"S"}, {"P1_5", "P1_5a", "P1_6"}) /\ StatsOf(R2, Q, g)
          /\ Verdict(Q.out, "P1_5") = "clear"
          /\ Verdict(Q.out, "P1_6") = "raise" <=> Silent(Q, R2.pat, at)
      BY <1>3, <3>2, ModelChecked
    <3> HIDE DEF Q
    <3> QED BY <3>1, <3>3
  <2> QED BY <2>1, <2>2
<1> HIDE DEF R3
<1>5. IsMonitor(R3) /\ R3.pat = PatOf(M, model) /\ R3.pmts = PmtsOf(M, model, at)
  BY <1>3, <1>4 DEF Moved, CheckFields
<1> DEFINE ps == PmtSeen(R3.pmts, buf, at)
<1>6. R4 = [R3 EXCEPT !.pmts = ps]
  OBVIOUS
<1> HIDE DEF R4, ps
<1>7. IsMonitor(R4) /\ Moved(R3, R4, {"pmts"}, {}) /\ R4.pmts = ps /\ R4.out = R3.out
  BY <1>5, <1>6 DEF IsMonitor, Moved, CheckFields
<1>8. /\ Moved(R4, T, {}, {"P1_5", "P1_5a"})
      /\ R2.pat # NoModel => (Verdict(T.out, "P1_5") = "raise" <=> late)
  <2>1. CASE DOMAIN R4.pmts = {}
    <3>1. T = R4 /\ ~late
      BY <2>1
    <3>2. R2.pat # NoModel => Verdict(R4.out, "P1_5") = "clear"
      BY <1>4, <1>7
    <3> HIDE DEF T, late
    <3>3. Moved(R4, R4, {}, {"P1_5", "P1_5a"})
      BY <1>7 DEF Moved
    <3>4. "raise" # "clear"
      OBVIOUS
    <3> QED BY <3>1, <3>2, <3>3, <3>4
  <2>2. CASE DOMAIN R4.pmts # {}
    <3> DEFINE v == IF late THEN "raise" ELSE "clear"
               Q == SayBoth(R4, "P1_5", "P1_5a", v)
    <3>1. T = Q
      BY <2>2
    <3>2. v \in Words /\ (v = "raise" <=> late)
      BY AllWords
    <3> HIDE DEF v, late
    <3>3. "P1_5" \in Words /\ "P1_5a" \in Words /\ "P1_5" # "P1_5a"
      BY AllWords
    <3>4. Uttered(R4, Q, "P1_5", "P1_5a", v)
      <4>1. IsMonitor(R4)
        BY <1>7
      <4> QED BY <3>2, <3>3, <4>1, BothSaid
    <3> HIDE DEF T, Q
    <3>5. Moved(R4, Q, {}, {"P1_5", "P1_5a"}) /\ Verdict(Q.out, "P1_5") = v
      BY <3>4 DEF Uttered
    <3> QED BY <3>1, <3>2, <3>5
  <2> QED BY <2>1, <2>2
<1> HIDE DEF T
<1>9. Moved(M, T, {"S", "pat", "pmts"}, {"P1_5", "P1_5a", "P1_6", "P2_2"})
  <2>1. Moved(M, R2, {} \cup {"pat", "pmts"}, {"P2_2"} \cup {})
    BY <1>2, <1>3, MovedOn
  <2>2. Moved(M, R3, ({} \cup {"pat", "pmts"}) \cup {"S"}, ({"P2_2"} \cup {}) \cup {"P1_5", "P1_5a", "P1_6"})
    BY <1>4, <2>1, MovedOn
  <2>3. Moved(M, R4, (({} \cup {"pat", "pmts"}) \cup {"S"}) \cup {"pmts"},
                     (({"P2_2"} \cup {}) \cup {"P1_5", "P1_5a", "P1_6"}) \cup {})
    BY <1>7, <2>2, MovedOn
  <2>4. Moved(M, T, ((({} \cup {"pat", "pmts"}) \cup {"S"}) \cup {"pmts"}) \cup {},
                    ((({"P2_2"} \cup {}) \cup {"P1_5", "P1_5a", "P1_6"}) \cup {}) \cup {"P1_5", "P1_5a"})
    BY <1>8, <2>3, MovedOn
  <2>5. ((({} \cup {"pat", "pmts"}) \cup {"S"}) \cup {"pmts"}) \cup {} = {"S", "pat", "pmts"}
    OBVIOUS
  <2>6. ((({"P2_2"} \cup {}) \cup {"P1_5", "P1_5a", "P1_6"}) \cup {}) \cup {"P1_5", "P1_5a"} = {"P1_5", "P1_5a", "P1_6", "P2_2"}
    OBVIOUS
  <2> QED BY <2>4, <2>5, <2>6
<1>10. T.pat = PatOf(M, model) /\ T.pmts = ps /\ T.pmts = R4.pmts /\ T.S = R3.S
  BY <1>5, <1>7, <1>8 DEF Moved, CheckFields
<1>11. Verdict(T.out, "P1_6") = Verdict(R3.out, "P1_6")
  BY <1>7, <1>8 DEF Moved
<1>12. Silent(T, T.pat, at) <=> Silent(R3, R2.pat, at)
  BY <1>3, <1>10 DEF Silent, IsPIDActive
<1>13. late <=> Late(T, at)
  BY <1>10 DEF Late
<1> HIDE DEF late
<1>14. StatsOf(M, T, g)
  BY <1>3, <1>4, <1>10 DEF StatsOf
<1>15. T.pmts = PmtSeen(PmtsOf(M, model, at), buf, at)
  BY <1>5, <1>10 DEF ps
<1>16. T.pat # NoModel => R2.pat # NoModel
  BY <1>3, <1>10
<1>17. PmtsChecked(M, T, g, buf, model, at)
  BY <1>4, <1>8, <1>9, <1>10, <1>11, <1>12, <1>13, <1>14, <1>15, <1>16 DEF PmtsChecked
<1> QED BY <1>1, <1>17

(* p2_write.                                                               *)
LEMMA P2Does ==
  ASSUME NEW M, IsMonitor(M), NEW buf, NEW tei, NEW scr, NEW at
  PROVE  LET T == P2Write(M, buf, tei, scr, at)
         IN  /\ Moved(M, T, {}, {"P2_1", "P2_6", "P2_3", "P2_3a"}) /\ T.out # << >>
             /\ Verdict(T.out, "P2_6") = "raise" <=> Expired(M.lastCAT, at) /\ scr # M.S.st.scr
<1> DEFINE w1 == tei # M.S.st.tei
           w6 == Expired(M.lastCAT, at) /\ scr # M.S.st.scr
           A == Judged(M, "P2_1", w1)
           B == Judged(A, "P2_6", w6)
           w3 == \E i \in DOMAIN buf : B.S.pids[buf[i].pid].hasPCR /\ DidViolate(B, buf[i].pid)
           C == Judged(Judged(B, "P2_3", w3), "P2_3a", w3)
           T == IF Len(buf) >= PcrArray THEN B ELSE C
<1>1. P2Write(M, buf, tei, scr, at) = T
  BY DEF P2Write, CheckPcr
<1> HIDE DEF w1, w6, w3
<1>2. IsMonitor(A) /\ Moved(M, A, {}, {"P2_1"})
  BY AllWords, JudgedDoes
<1> HIDE DEF A
<1>3. IsMonitor(B) /\ Moved(A, B, {}, {"P2_6"}) /\ B.out # << >> /\ (Verdict(B.out, "P2_6") = "raise" <=> w6)
  BY <1>2, AllWords, JudgedDoes
<1> HIDE DEF B
<1>4. Moved(B, C, {}, {"P2_3", "P2_3a"}) /\ C.out # << >>
  <2>1. "P2_3" \in Words /\ "P2_3a" \in Words /\ "P2_3" # "P2_3a"
    BY AllWords
  <2>2. IsMonitor(B)
    BY <1>3
  <2>3. Ruled(B, C, "P2_3", "P2_3a", w3)
    BY <2>1, <2>2, TwoJudged
  <2> QED BY <2>3 DEF Ruled
<1> HIDE DEF C
<1>5. Moved(B, T, {}, {"P2_3", "P2_3a"}) /\ T.out # << >>
  <2>1. Moved(B, B, {}, {"P2_3", "P2_3a"})
    BY <1>3 DEF Moved
  <2> QED BY <1>3, <1>4, <2>1
<1> HIDE DEF T
<1>6. Moved(M, T, {}, {"P2_1", "P2_6", "P2_3", "P2_3a"})
  <2>1. Moved(M, B, {} \cup {}, {"P2_1"} \cup {"P2_6"})
    BY <1>2, <1>3, MovedOn
  <2>2. Moved(M, T, ({} \cup {}) \cup {}, ({"P2_1"} \cup {"P2_6"}) \cup {"P2_3", "P2_3a"})
    BY <1>5, <2>1, MovedOn
  <2>3. ({} \cup {}) \cup {} = {} /\ ({"P2_1"} \cup {"P2_6"}) \cup {"P2_3", "P2_3a"} = {"P2_1", "P2_6", "P2_3", "P2_3a"}
    OBVIOUS
  <2> QED BY <2>2, <2>3
<1>7. Verdict(T.out, "P2_6") = Verdict(B.out, "P2_6")
  BY <1>5 DEF Moved
<1> QED BY <1>1, <1>3, <1>5, <1>6, <1>7 DEF w6

(* A write of the monitored stream: h is the history after it.             *)
Written(M, T, g, h, buf, model, at) ==
  /\ IsMonitor(T) /\ T.out # << >> /\ Counted(T, h)
  /\ SyncSaid(T.out, h)
  /\ IsStats(T.S) /\ CalcOk(T.S.bc) /\ Tracks(T.S, h) /\ T.cc = T.S.st.cc /\ T.lastCAT = M.lastCAT
  /\ T.lastPAT = (IF Came(buf, Len(buf), 0) THEN at ELSE M.lastPAT)
  /\ Verdict(T.out, "P1_3") = "raise"
     <=> BadPatIn(buf, Len(buf)) \/ (~Came(buf, Len(buf), 0) /\ at >= M.lastPAT + TableTime)
  /\ h.lost \in BOOLEAN /\ (Verdict(T.out, "P1_4") = "raise" <=> h.lost)
  /\ h.scrambled \in BOOLEAN /\ (Verdict(T.out, "P2_6") = "raise" <=> Expired(M.lastCAT, at) /\ h.scrambled)
  /\ T.pat = PatOf(M, model) /\ T.pmts = PmtSeen(PmtsOf(M, model, at), buf, at)
  /\ T.pat # NoModel =>
       /\ Verdict(T.out, "P1_6") = "raise" <=> Silent(T, T.pat, at)
       /\ Verdict(T.out, "P1_5") = "raise" <=> Late(T, at)

LEMMA WriteDoes ==
  ASSUME NEW M, IsMonitor(M), NEW g, DOMAIN g = GhostFields, Counted(M, g),
         IsStats(M.S), CalcOk(M.S.bc), Tracks(M.S, g), M.cc = M.S.st.cc,
         NEW buf \in Seq(Packets), buf # << >>, NEW crcs \in Seq(Crcs), NEW model,
         PatOf(M, model) \in Seq(Programs), NEW at \in Nat
  PROVE  Written(M, ChecksWrite(M, buf, crcs, model, at), g, Followed(g, buf, at), buf, model, at)
<1> DEFINE n == Len(buf)
           h == Followed(g, buf, at)
           X == PidStatsUpdate(M.S, buf, at)
           C == [M EXCEPT !.S = X, !.out = << >>]
           M1 == SyncPackets(C, buf)
           M2 == CheckPat(M1, buf, at)
           M3 == CheckContinuity(M2)
           M4 == CheckPmts(M3, buf, crcs, model, at)
           tei == M.S.st.tei
           scr == M.S.st.scr
           T == P2Write(M4, buf, tei, scr, at)
<1>1. ChecksWrite(M, buf, crcs, model, at) = T
  BY DEF ChecksWrite
<1>2. /\ IsStats(X) /\ CalcOk(X.bc) /\ Tracks(X, h)
      /\ h.lost \in BOOLEAN /\ h.scrambled \in BOOLEAN
      /\ h.lost <=> X.st.cc # M.S.st.cc
      /\ h.scrambled <=> X.st.scr # M.S.st.scr
  BY UpdateTracked
<1> HIDE DEF X
<1>3. IsMonitor(C) /\ C.out = << >> /\ C.S = X /\ C.good = M.good /\ C.bad = M.bad
      /\ \A f \in CheckFields \ {"S", "out"} : C[f] = M[f]
  <2>1. << >> \in Seq(Pairs) /\ DOMAIN M = CheckFields
    BY DEF IsMonitor
  <2>2. DOMAIN C = CheckFields /\ C.out = << >> /\ C.S = X
        /\ \A f \in CheckFields \ {"S", "out"} : C[f] = M[f]
    BY <2>1 DEF CheckFields
  <2> HIDE DEF C
  <2> QED BY <2>1, <2>2 DEF IsMonitor, CheckFields
<1> HIDE DEF C
<1>4. Counted(C, g)
  BY <1>3 DEF Counted
<1>5. /\ IsMonitor(M1) /\ Counted(M1, h)
      /\ \A f \in CheckFields \ {"out", "good", "bad"} : M1[f] = C[f]
      /\ SyncSaid(M1.out, h)
  BY <1>3, <1>4, SyncDoes
<1> HIDE DEF M1, h
<1>6. M1.S = X /\ M1.cc = M.cc /\ M1.lastPAT = M.lastPAT /\ M1.lastCAT = M.lastCAT
      /\ M1.pat = M.pat /\ M1.pmts = M.pmts
  BY <1>3, <1>5 DEF CheckFields
<1>7. /\ Moved(M1, M2, {"lastPAT"}, {"P1_3", "P1_3a"}) /\ M2.out # << >>
      /\ M2.lastPAT = (IF Came(buf, n, 0) THEN at ELSE M1.lastPAT)
      /\ Verdict(M2.out, "P1_3") = "raise"
         <=> BadPatIn(buf, n) \/ (~Came(buf, n, 0) /\ at >= M1.lastPAT + TableTime)
  BY <1>5, PatDoes
<1> HIDE DEF M2
<1>8. IsMonitor(M2) /\ M2.S = X /\ M2.cc = M.cc
  BY <1>6, <1>7 DEF Moved, CheckFields
<1>9. /\ Moved(M2, M3, {"cc"}, {"P1_4"}) /\ M3.cc = M2.S.st.cc
      /\ Verdict(M3.out, "P1_4") = "raise" <=> M2.cc # M2.S.st.cc
  BY <1>8, ContinuityChecked
<1> HIDE DEF M3
<1>10. IsMonitor(M3) /\ M3.S = X /\ M3.pat = M.pat /\ M3.pmts = M.pmts /\ M3.lastCAT = M.lastCAT /\ M3.cc = X.st.cc
       /\ M3.lastPAT = M2.lastPAT /\ M3.good = M1.good /\ M3.bad = M1.bad
  BY <1>6, <1>7, <1>8, <1>9 DEF Moved, CheckFields
<1>11. PatOf(M3, model) = PatOf(M, model) /\ PmtsOf(M3, model, at) = PmtsOf(M, model, at)
  BY <1>10 DEF PatOf, PmtsOf
<1>12. PmtsChecked(M3, M4, h, buf, model, at)
  <2>1. PatOf(M3, model) \in Seq(Programs) /\ IsStats(M3.S) /\ CalcOk(M3.S.bc) /\ Tracks(M3.S, h)
    BY <1>2, <1>10, <1>11
  <2> QED BY <1>10, <2>1, PmtsDoes
<1> HIDE DEF M4
<1>13. /\ Moved(M3, M4, {"S", "pat", "pmts"}, {"P1_5", "P1_5a", "P1_6", "P2_2"}) /\ StatsOf(M3, M4, h)
       /\ M4.pat = PatOf(M3, model) /\ M4.pmts = PmtSeen(PmtsOf(M3, model, at), buf, at)
       /\ M4.pat # NoModel =>
            /\ Verdict(M4.out, "P1_6") = "raise" <=> Silent(M4, M4.pat, at)
            /\ Verdict(M4.out, "P1_5") = "raise" <=> Late(M4, at)
  BY <1>12 DEF PmtsChecked
<1>14. IsMonitor(M4) /\ M4.lastCAT = M.lastCAT /\ M4.cc = X.st.cc /\ M4.S.st = X.st
       /\ M4.lastPAT = M2.lastPAT /\ M4.good = M1.good /\ M4.bad = M1.bad
  BY <1>10, <1>13 DEF Moved, CheckFields, StatsOf
<1> HIDE DEF tei, scr
<1>15. /\ Moved(M4, T, {}, {"P2_1", "P2_6", "P2_3", "P2_3a"}) /\ T.out # << >>
       /\ Verdict(T.out, "P2_6") = "raise" <=> Expired(M4.lastCAT, at) /\ scr # M4.S.st.scr
  BY <1>14, P2Does
<1> HIDE DEF T
<1>16. IsMonitor(T) /\ T.lastCAT = M.lastCAT /\ T.cc = X.st.cc /\ T.S = M4.S
       /\ T.lastPAT = M2.lastPAT /\ T.good = M1.good /\ T.bad = M1.bad /\ T.pat = M4.pat /\ T.pmts = M4.pmts
  BY <1>14, <1>15 DEF Moved, CheckFields
<1>17. Counted(T, h)
  BY <1>5, <1>16 DEF Counted
<1>18. Verdict(T.out, "P1_1") = Verdict(M1.out, "P1_1") /\ Verdict(T.out, "P1_2") = Verdict(M1.out, "P1_2")
  <2>1. \A d \in {"P1_1", "P1_2"} : Verdict(M2.out, d) = Verdict(M1.out, d)
    BY <1>7 DEF Moved
  <2>2. \A d \in {"P1_1", "P1_2"} : Verdict(M3.out, d) = Verdict(M2.out, d)
    BY <1>9 DEF Moved
  <2>3. \A d \in {"P1_1", "P1_2"} : Verdict(M4.out, d) = Verdict(M3.out, d)
    BY <1>13 DEF Moved
  <2>4. \A d \in {"P1_1", "P1_2"} : Verdict(T.out, d) = Verdict(M4.out, d)
    BY <1>15 DEF Moved
  <2> QED BY <2>1, <2>2, <2>3, <2>4
<1>19. Verdict(T.out, "P1_3") = Verdict(M2.out, "P1_3") /\ Verdict(T.out, "P1_4") = Verdict(M3.out, "P1_4")
  <2>1. Verdict(M3.out, "P1_3") = Verdict(M2.out, "P1_3")
    BY <1>9 DEF Moved
  <2>2. \A d \in {"P1_3", "P1_4"} : Verdict(M4.out, d) = Verdict(M3.out, d)
    BY <1>13 DEF Moved
  <2>3. \A d \in {"P1_3", "P1_4"} : Verdict(T.out, d) = Verdict(M4.out, d)
    BY <1>15 DEF Moved
  <2> QED BY <2>1, <2>2, <2>3
<1>20. Verdict(T.out, "P1_5") = Verdict(M4.out, "P1_5") /\ Verdict(T.out, "P1_6") = Verdict(M4.out, "P1_6")
  BY <1>15 DEF Moved
<1>21. SyncSaid(T.out, h)
  BY <1>5, <1>18 DEF SyncSaid
<1>22. IsStats(T.S) /\ CalcOk(T.S.bc) /\ Tracks(T.S, h) /\ T.S.st = X.st
  BY <1>13, <1>14, <1>16 DEF StatsOf
<1>23. Verdict(T.out, "P1_4") = "raise" <=> h.lost
  BY <1>2, <1>8, <1>9, <1>19
<1>24. Verdict(T.out, "P2_6") = "raise" <=> Expired(M.lastCAT, at) /\ h.scrambled
  <2>1. scr # M4.S.st.scr <=> X.st.scr # M.S.st.scr
    BY <1>14 DEF scr
  <2> QED BY <1>2, <1>14, <1>15, <2>1
<1>25. (Silent(T, T.pat, at) <=> Silent(M4, M4.pat, at)) /\ (Late(T, at) <=> Late(M4, at))
  BY <1>16 DEF Silent, IsPIDActive, Late
<1>26. T.pat # NoModel =>
         /\ Verdict(T.out, "P1_6") = "raise" <=> Silent(T, T.pat, at)
         /\ Verdict(T.out, "P1_5") = "raise" <=> Late(T, at)
  BY <1>13, <1>16, <1>20, <1>25
<1>27. T.pat = PatOf(M, model) /\ T.pmts = PmtSeen(PmtsOf(M, model, at), buf, at)
  BY <1>11, <1>13, <1>16
<1>28. T.lastPAT = (IF Came(buf, n, 0) THEN at ELSE M.lastPAT) /\ T.cc = T.S.st.cc
  BY <1>6, <1>7, <1>16, <1>22
<1>29. Verdict(T.out, "P1_3") = "raise" <=> BadPatIn(buf, n) \/ (~Came(buf, n, 0) /\ at >= M.lastPAT + TableTime)
  BY <1>6, <1>7, <1>19
<1>30. Written(M, T, g, h, buf, model, at)
  BY <1>2, <1>15, <1>16, <1>17, <1>21, <1>22, <1>23, <1>24, <1>26, <1>27, <1>28, <1>29 DEF Written
<1> QED BY <1>1, <1>30 DEF h

-----------------------------------------------------------------------------
(* The timers of the PMTs: one for each program, that runs from the model  *)
(* or from the last packet of its PID.                                     *)
Since(g, q) == IF q \in DOMAIN g.seen /\ g.seen[q] > g.modelAt THEN g.seen[q] ELSE g.modelAt
Timers(M, g) ==
  /\ DOMAIN M.pmts = Real(M.pat)
  /\ \A i \in Real(M.pat) : M.pmts[i] = [pid |-> M.pat[i].pmt, at |-> Since(g, M.pat[i].pmt)]
Past(g, at) ==
  /\ g.modelAt \in Nat /\ g.modelAt <= at
  /\ \A q \in DOMAIN g.seen : g.seen[q] \in Nat /\ g.seen[q] <= at

LEMMA SinceIs ==
  ASSUME NEW g, NEW at, Past(g, at), NEW q
  PROVE  /\ Since(g, q) \in Nat
         /\ Max({g.modelAt} \cup (IF q \in DOMAIN g.seen THEN {g.seen[q]} ELSE {})) = Since(g, q)
<1> DEFINE A == {g.modelAt} \cup (IF q \in DOMAIN g.seen THEN {g.seen[q]} ELSE {})
           m == Since(g, q)
<1>1. g.modelAt \in Nat /\ (q \in DOMAIN g.seen => g.seen[q] \in Nat)
  BY DEF Past
<1>2. CASE q \in DOMAIN g.seen
  <2> DEFINE a == g.modelAt
             b == g.seen[q]
  <2>1. a \in Nat /\ b \in Nat /\ A = {a, b} /\ m = IF b > a THEN b ELSE a
    BY <1>1, <1>2 DEF Since
  <2> HIDE DEF a, b, A, m
  <2>2. A \in SUBSET Int /\ m \in A /\ (\A y \in A : y <= m) /\ m \in Nat
    BY <2>1
  <2>3. Max(A) = m
    BY <2>2, SameMax, FEach!MaxIs
  <2> QED BY <2>2, <2>3 DEF A, m
<1>3. CASE q \notin DOMAIN g.seen
  <2> DEFINE a == g.modelAt
  <2>1. a \in Nat /\ A = {a} /\ m = a
    BY <1>1, <1>3 DEF Since
  <2> HIDE DEF a, A, m
  <2>2. A \in SUBSET Int /\ m \in A /\ (\A y \in A : y <= m) /\ m \in Nat
    BY <2>1
  <2>3. Max(A) = m
    BY <2>2, SameMax, FEach!MaxIs
  <2> QED BY <2>2, <2>3 DEF A, m
<1> QED BY <1>2, <1>3

(* There is a timer for each program of a model.                           *)
LEMMA TimersFit ==
  ASSUME NEW model \in Models, NEW at
  PROVE  /\ DOMAIN PmtTimers(model, at) = Real(model)
         /\ \A i \in Real(model) : PmtTimers(model, at)[i] = [pid |-> model[i].pmt, at |-> at]
<1>1. model \in Seq(Programs) /\ Cardinality(Real(model)) <= PmtSlots
  BY StreamAssumption
<1>2. IsFiniteSet(Real(model)) /\ Cardinality(Real(model)) \in Nat
  <2>1. Real(model) \subseteq 1 .. Len(model) /\ Len(model) \in Nat
    BY <1>1 DEF Real
  <2>2. IsFiniteSet(1 .. Len(model))
    BY <2>1, FS_Interval
  <2>3. IsFiniteSet(Real(model))
    BY <2>1, <2>2, FS_Subset
  <2> QED BY <2>3, FS_CardinalityType
<1>3. ASSUME NEW k \in Real(model)
      PROVE  Cardinality({j \in Real(model) : j <= k}) <= PmtSlots
  <2> DEFINE A == {j \in Real(model) : j <= k}
  <2>1. A \in SUBSET Real(model)
    OBVIOUS
  <2> HIDE DEF A
  <2>2. IsFiniteSet(A) /\ Cardinality(A) <= Cardinality(Real(model))
    BY <1>2, <2>1, FS_Subset
  <2>3. Cardinality(A) \in Nat
    BY <2>2, FS_CardinalityType
  <2> DEFINE a == Cardinality(A)
             b == Cardinality(Real(model))
  <2>4. a \in Nat /\ b \in Nat /\ a <= b /\ b <= PmtSlots /\ PmtSlots \in Nat
    BY <1>1, <1>2, <2>2, <2>3, ChecksAssumption
  <2> HIDE DEF a, b
  <2>5. a <= PmtSlots
    BY <2>4
  <2> QED BY <2>5 DEF a, A
<1>4. {k \in Real(model) : Cardinality({j \in Real(model) : j <= k}) <= PmtSlots} = Real(model)
  BY <1>3
<1> QED BY <1>4 DEF PmtTimers

LEMMA TimersKept ==
  ASSUME NEW M, NEW g, NEW at \in Nat, Timers(M, g), Past(g, at), NEW model \in Models \cup {NoModel},
         NEW buf \in Seq(Packets), NEW T, T.pat = PatOf(M, model), T.pat \in Seq(Programs),
         T.pmts = PmtSeen(PmtsOf(M, model, at), buf, at),
         NEW h, Recorded(g, h, buf, Len(buf), at), NEW d,
         d.seen = h.seen, d.modelAt = (IF model = NoModel THEN g.modelAt ELSE at)
  PROVE  Timers(T, d) /\ Past(d, at)
<1> DEFINE n == Len(buf)
           ps == PmtsOf(M, model, at)
<1>1. Past(d, at)
  <2>1. ASSUME NEW q \in DOMAIN d.seen PROVE d.seen[q] \in Nat /\ d.seen[q] <= at
    <3>1. CASE Came(buf, n, q)
      <4>1. d.seen[q] = at
        BY <3>1 DEF Recorded
      <4> QED BY <4>1
    <3>2. CASE ~Came(buf, n, q)
      <4>1. q \in DOMAIN g.seen /\ d.seen[q] = g.seen[q]
        BY <3>2 DEF Recorded
      <4> QED BY <4>1 DEF Past
    <3> QED BY <3>1, <3>2
  <2>2. d.modelAt \in Nat /\ d.modelAt <= at
    BY DEF Past
  <2> QED BY <2>1, <2>2 DEF Past
<1>2. /\ DOMAIN ps = Real(T.pat)
      /\ \A i \in Real(T.pat) :
           ps[i] = [pid |-> T.pat[i].pmt, at |-> IF model = NoModel THEN Since(g, T.pat[i].pmt) ELSE at]
  <2>1. CASE model = NoModel
    BY <2>1 DEF PatOf, PmtsOf, Timers
  <2>2. CASE model # NoModel
    <3>1. model \in Models /\ T.pat = model /\ ps = PmtTimers(model, at)
      BY <2>2 DEF PatOf, PmtsOf
    <3> HIDE DEF ps
    <3> QED BY <2>2, <3>1, TimersFit
  <2> QED BY <2>1, <2>2
<1> HIDE DEF ps
<1>3. DOMAIN T.pmts = Real(T.pat)
  BY <1>2 DEF PmtSeen, ps
<1>4. ASSUME NEW i \in Real(T.pat)
      PROVE  T.pmts[i] = [pid |-> T.pat[i].pmt, at |-> Since(d, T.pat[i].pmt)]
  <2> DEFINE q == T.pat[i].pmt
             x == IF model = NoModel THEN Since(g, q) ELSE at
  <2>1. q \in Pids \ {0, NullPid}
    <3>1. T.pat[i] \in Programs
      BY DEF Real
    <3> QED BY <3>1 DEF Programs
  <2>2. ps[i] = [pid |-> q, at |-> x] /\ ps[i].pid = q
    BY <1>2
  <2>3. T.pmts[i] = IF \E k \in DOMAIN buf : buf[k].pid = q /\ buf[k].pid \notin {0, NullPid}
                    THEN [ps[i] EXCEPT !.at = at] ELSE ps[i]
    BY <1>2, <2>2 DEF PmtSeen, ps
  <2>4. (\E k \in DOMAIN buf : buf[k].pid = q /\ buf[k].pid \notin {0, NullPid}) <=> Came(buf, n, q)
    BY <2>1 DEF Came
  <2>5. T.pmts[i] = [pid |-> q, at |-> IF Came(buf, n, q) THEN at ELSE x]
    <3> HIDE DEF q, x
    <3>1. CASE Came(buf, n, q)
      BY <2>2, <2>3, <2>4, <3>1
    <3>2. CASE ~Came(buf, n, q)
      BY <2>2, <2>3, <2>4, <3>2
    <3> QED BY <3>1, <3>2
  <2> HIDE DEF q
  <2>6. (IF Came(buf, n, q) THEN at ELSE x) = Since(d, q)
    <3>1. CASE Came(buf, n, q)
      <4>1. q \in DOMAIN d.seen /\ d.seen[q] = at
        BY <3>1 DEF Recorded
      <4>2. d.modelAt \in Nat /\ d.modelAt <= at
        BY <1>1 DEF Past
      <4>3. Since(d, q) = IF at > d.modelAt THEN at ELSE d.modelAt
        BY <4>1 DEF Since
      <4> QED BY <3>1, <4>2, <4>3
    <3>2. CASE ~Came(buf, n, q) /\ model = NoModel
      <4>1. q \in DOMAIN d.seen <=> q \in DOMAIN g.seen
        BY <3>2 DEF Recorded
      <4>2. q \in DOMAIN d.seen => d.seen[q] = g.seen[q]
        BY <3>2 DEF Recorded
      <4>3. d.modelAt = g.modelAt
        BY <3>2
      <4> QED BY <3>2, <4>1, <4>2, <4>3 DEF Since
    <3>3. CASE ~Came(buf, n, q) /\ model # NoModel
      <4>1. d.modelAt = at
        BY <3>3
      <4>2. q \in DOMAIN d.seen => d.seen[q] \in Nat /\ d.seen[q] <= at
        BY <1>1 DEF Past
      <4>3. ~(q \in DOMAIN d.seen /\ d.seen[q] > d.modelAt)
        BY <4>1, <4>2
      <4> QED BY <3>3, <4>1, <4>3 DEF Since
    <3> QED BY <3>1, <3>2, <3>3
  <2> QED BY <2>5, <2>6 DEF q
<1> QED BY <1>1, <1>3, <1>4 DEF Timers

(* The inductive invariant of the monitor: its counts are those of the     *)
(* history, its timers start where the history says, the errors it         *)
(* compares with are those the statistics stand at.                        *)
MInv ==
  /\ calls \in Nat /\ now \in Nat /\ now >= Epoch
  /\ kind = "tr" =>
       /\ IsMonitor(R) /\ DOMAIN ghost = GhostFields /\ Counted(R, ghost)
       /\ IsStats(R.S) /\ CalcOk(R.S.bc) /\ Tracks(R.S, ghost)
       /\ R.cc = R.S.st.cc /\ R.lastCAT = 0 /\ R.lastPAT = ghost.patAt /\ R.lastPAT \in Nat
       /\ R.pat \in Models \cup {NoModel} /\ Timers(R, ghost) /\ Past(ghost, now)
       /\ R.out # << >> => SyncSaid(R.out, ghost)

LEMMA ModelsArePrograms ==
  ASSUME NEW m \in Models \cup {NoModel} PROVE m \in Seq(Programs)
<1>1. << >> \in Seq(Programs)
  OBVIOUS
<1> QED BY <1>1, StreamAssumption DEF NoModel

LEMMA MInvInit == Init => MInv
<1> SUFFICES ASSUME Init PROVE MInv
  OBVIOUS
<1>1. R = ChecksStart /\ ghost = GhostStart /\ now = Epoch /\ calls = 0
  BY DEF Init
<1>2. /\ DOMAIN R = CheckFields /\ R.S = StatsAlloc /\ R.out = << >> /\ R.good = 0 /\ R.bad = 0 /\ R.cc = 0
      /\ R.lastCAT = 0 /\ R.lastPAT = 0 /\ R.pat = NoModel /\ R.pmts = << >>
  BY <1>1 DEF ChecksStart, CheckFields
<1>3. /\ ghost.ok = 0 /\ ghost.run = 0 /\ ghost.patAt = 0 /\ ghost.seen = << >> /\ ghost.next = << >>
      /\ ghost.modelAt = 0 /\ DOMAIN ghost = GhostFields
  BY <1>1 DEF GhostStart, GhostFields
<1>4. IsMonitor(R)
  <2>1. << >> \in Seq(Pairs)
    OBVIOUS
  <2> QED BY <1>2, <2>1 DEF IsMonitor
<1>5. Counted(R, ghost)
  BY <1>2, <1>3 DEF Counted
<1>6. IsStats(R.S) /\ CalcOk(R.S.bc) /\ R.S.st.cc = 0
  BY <1>2, Allocated, Zeroes DEF Five
<1>7. Tracks(R.S, ghost)
  <2>1. R.S.pids = << >> /\ DOMAIN << >> = {}
    BY <1>2 DEF StatsAlloc
  <2> QED BY <1>3, <2>1 DEF Tracks
<1>8. Timers(R, ghost)
  <2>1. DOMAIN << >> = {} /\ Real(R.pat) = {}
    BY <1>2 DEF Real, NoModel
  <2> QED BY <1>2, <2>1 DEF Timers
<1>9. now \in Nat /\ now >= Epoch /\ Past(ghost, now)
  <2>1. now \in Nat /\ now >= Epoch
    BY <1>1, StreamAssumption
  <2>2. DOMAIN ghost.seen = {}
    BY <1>3
  <2> QED BY <1>3, <2>1, <2>2 DEF Past
<1> QED BY <1>1, <1>2, <1>3, <1>4, <1>5, <1>6, <1>7, <1>8, <1>9 DEF MInv

(* What a write shows, from the history after it.                          *)
PatJudged == Verdict(R'.out, "P1_3") = "raise" <=> ghost'.badPat \/ now >= ghost'.patAt + TableTime
PmtsJudged ==
  R'.pat # NoModel =>
    (Verdict(R'.out, "P1_5") = "raise" <=>
       \E i \in DOMAIN R'.pat :
         R'.pat[i].number # 0 /\
         now >= Max({ghost'.modelAt} \cup
                    (IF R'.pat[i].pmt \in DOMAIN ghost'.seen THEN {ghost'.seen[R'.pat[i].pmt]} ELSE {})) + TableTime)
PidsJudged ==
  R'.pat # NoModel =>
    (Verdict(R'.out, "P1_6") = "raise" <=>
       \E pid \in UNION {{R'.pat[i].pmt} \cup R'.pat[i].es : i \in DOMAIN R'.pat} :
         pid \in DOMAIN ghost'.seen =>
           SecondOf(ghost'.seen[pid]) <= SecondOf(now) - PidSilence)
FreshSeen ==
  \A pid \in DOMAIN ghost'.seen :
    now <= ghost'.seen[pid] + TickRate => ~(SecondOf(ghost'.seen[pid]) <= SecondOf(now) - PidSilence)
LossJudged ==
  /\ (Verdict(R'.out, "P1_4") = "raise") = ghost'.lost
  /\ (Verdict(R'.out, "P2_6") = "raise") = ghost'.scrambled

LEMMA EnoughSeconds ==
  ASSUME NEW t \in Nat, t >= Epoch
  PROVE  SecondOf(t) \in Nat /\ SecondOf(t) >= PidSilence
<1> DEFINE r == TickRate
           x == t \div r
           y == t % r
<1>1. r \in Nat /\ r > 0 /\ PidSilence \in Nat /\ t >= PidSilence * r
  <2>1. TickRate \in Nat /\ TickRate > 0 /\ PidSilence \in Nat /\ Epoch \in Nat /\ Epoch >= PidSilence * TickRate
    BY ClockOpsAssumption, ChecksAssumption, StreamAssumption
  <2>2. PidSilence * TickRate \in Nat
    BY <2>1
  <2> QED BY <2>1, <2>2
<1>2. x \in Nat
  BY SecondIsInt DEF SecondOf
<1>3. t = r * x + y /\ 0 <= y /\ y < r /\ y \in Int
  BY <1>1
<1> HIDE DEF r, x, y
<1>4. ASSUME x < PidSilence PROVE FALSE
  <2>1. r * (x + 1) <= r * PidSilence
    BY <1>1, <1>2, <1>4, SMTT(30)
  <2>2. r * (x + 1) = r * x + r /\ r * PidSilence = PidSilence * r /\ r * x \in Nat
    BY <1>1, <1>2
  <2> QED BY <1>1, <1>2, <1>3, <2>1, <2>2
<1>5. x >= PidSilence
  BY <1>1, <1>2, <1>4
<1> QED BY <1>2, <1>5 DEF x, r, SecondOf

(* The PIDs that are silent, from the history.                             *)
SilentBy(g, pat, at) ==
  \E pid \in UNION {{pat[i].pmt} \cup pat[i].es : i \in DOMAIN pat} :
    pid \in DOMAIN g.seen => SecondOf(g.seen[pid]) <= SecondOf(at) - PidSilence

LEMMA SilentIs ==
  ASSUME NEW T, IsStats(T.S), NEW g, Tracks(T.S, g), NEW at \in Nat, at >= Epoch, Past(g, at), NEW pat
  PROVE  Silent(T, pat, at) <=> SilentBy(g, pat, at)
<1> DEFINE s == SecondOf(at)
<1>1. s \in Nat /\ s >= PidSilence /\ PidSilence \in Nat
  BY EnoughSeconds, ChecksAssumption
<1>2. ASSUME NEW pid
      PROVE  ~IsPIDActive(T, pid, at) <=> (pid \in DOMAIN g.seen => SecondOf(g.seen[pid]) <= s - PidSilence)
  <2> DEFINE x == IF pid \in DOMAIN T.S.pids THEN T.S.pids[pid].at ELSE 0
  <2>1. IsPIDActive(T, pid, at) <=> x > s - PidSilence
    BY DEF IsPIDActive
  <2> HIDE DEF s
  <2>2. CASE pid \in DOMAIN g.seen
    <3>1. x = SecondOf(g.seen[pid])
      BY <2>2 DEF Tracks
    <3>2. SecondOf(g.seen[pid]) \in Nat
      BY <2>2, SecondIsInt DEF Past
    <3> HIDE DEF x
    <3> QED BY <1>1, <2>1, <2>2, <3>1, <3>2
  <2>3. CASE pid \notin DOMAIN g.seen
    <3>1. x = 0
      BY <2>3 DEF Tracks
    <3> HIDE DEF x
    <3> QED BY <1>1, <2>1, <2>3, <3>1
  <2> QED BY <2>2, <2>3
<1> QED BY <1>2 DEF Silent, SilentBy, Referred

(* A PID that had a packet within the last second is not silent.           *)
LEMMA FreshIs ==
  ASSUME NEW s \in Nat, NEW t \in Nat, t <= s + TickRate
  PROVE  SecondOf(s) > SecondOf(t) - PidSilence
<1> DEFINE r == TickRate
           x == s \div r
           y == t \div r
<1>1. r \in Nat /\ r > 0 /\ PidSilence \in Nat /\ PidSilence > 1
  BY ClockOpsAssumption, ChecksAssumption
<1>2. x \in Nat /\ y \in Nat
  BY SecondIsInt DEF SecondOf
<1>3. s = r * x + (s % r) /\ s % r < r /\ s % r \in Int
      /\ t = r * y + (t % r) /\ 0 <= t % r /\ t % r \in Int
  BY <1>1
<1> DEFINE p == s % r
           q == t % r
<1> HIDE DEF r, x, y, p, q
<1>4. s = r * x + p /\ p < r /\ p \in Int /\ t = r * y + q /\ 0 <= q /\ q \in Int /\ t <= s + r
  BY <1>3 DEF p, q, r
<1>5. ASSUME y > x + 1 PROVE FALSE
  <2>1. r * y >= r * (x + 2)
    <3>1. y >= x + 2
      BY <1>2, <1>5
    <3> QED BY <1>1, <1>2, <3>1, SMTT(30)
  <2>2. r * (x + 2) = r * x + r + r /\ r * x \in Nat /\ r * y \in Nat
    BY <1>1, <1>2
  <2> QED BY <1>1, <1>4, <2>1, <2>2
<1>6. x > y - PidSilence
  BY <1>1, <1>2, <1>5
<1> QED BY <1>6 DEF x, y, r, SecondOf

LEMMA LateIs ==
  ASSUME NEW T, NEW g, NEW at \in Nat, Timers(T, g), Past(g, at)
  PROVE  Late(T, at) <=>
           \E i \in DOMAIN T.pat :
             T.pat[i].number # 0 /\
             at >= Max({g.modelAt} \cup
                       (IF T.pat[i].pmt \in DOMAIN g.seen THEN {g.seen[T.pat[i].pmt]} ELSE {})) + TableTime
<1> DEFINE mx(q) == Max({g.modelAt} \cup (IF q \in DOMAIN g.seen THEN {g.seen[q]} ELSE {}))
<1>1. \A q : mx(q) = Since(g, q)
  BY SinceIs
<1>2. DOMAIN T.pmts = Real(T.pat) /\ \A i \in Real(T.pat) : T.pmts[i].at = Since(g, T.pat[i].pmt)
  <2>1. ASSUME NEW i \in Real(T.pat) PROVE T.pmts[i].at = Since(g, T.pat[i].pmt)
    <3>1. T.pmts[i] = [pid |-> T.pat[i].pmt, at |-> Since(g, T.pat[i].pmt)]
      BY DEF Timers
    <3> QED BY <3>1
  <2> QED BY <2>1 DEF Timers
<1>3. Late(T, at) <=> \E i \in Real(T.pat) : at >= Since(g, T.pat[i].pmt) + TableTime
  BY <1>2 DEF Late, Expired
<1>4. (\E i \in Real(T.pat) : at >= Since(g, T.pat[i].pmt) + TableTime)
      <=> \E i \in DOMAIN T.pat : T.pat[i].number # 0 /\ at >= Since(g, T.pat[i].pmt) + TableTime
  BY DEF Real
<1> HIDE DEF mx
<1>5. Late(T, at) <=> \E i \in DOMAIN T.pat : T.pat[i].number # 0 /\ at >= mx(T.pat[i].pmt) + TableTime
  BY <1>1, <1>3, <1>4
<1> QED BY <1>5, Zenon DEF mx

LEMMA MonitorDoes ==
  ASSUME MInv, Monitor
  PROVE  MInv' /\ PatJudged /\ PmtsJudged /\ PidsJudged /\ FreshSeen /\ LossJudged
<1>1. PICK buf \in TrBuffers(calls), crcs \in Found, model \in Models \cup {NoModel} :
       /\ R' = ChecksWrite(R, buf, crcs, model, now)
       /\ ghost' = [Followed(ghost, buf, now) EXCEPT !.modelAt = IF model = NoModel THEN @ ELSE now]
  BY Zenon DEF Monitor
<1>2. kind = "tr" /\ now' = now /\ kind' = kind /\ calls' \in Nat /\ calls < MaxCalls
  BY DEF Monitor, Call, MInv
<1>3. /\ calls \in Nat /\ now \in Nat /\ now >= Epoch
      /\ IsMonitor(R) /\ DOMAIN ghost = GhostFields /\ Counted(R, ghost)
      /\ IsStats(R.S) /\ CalcOk(R.S.bc) /\ Tracks(R.S, ghost)
      /\ R.cc = R.S.st.cc /\ R.lastCAT = 0 /\ R.lastPAT = ghost.patAt /\ R.lastPAT \in Nat
      /\ R.pat \in Models \cup {NoModel} /\ Timers(R, ghost) /\ Past(ghost, now)
  BY <1>2 DEF MInv
<1>4. buf \in Seq(Packets) /\ buf # << >>
  BY <1>2, <1>3, BuffersArePackets
<1>5. crcs \in Seq(Crcs)
  BY StreamAssumption DEF Crcs
<1>6. PatOf(R, model) \in Models \cup {NoModel}
  BY <1>3 DEF PatOf
<1>7. PatOf(R, model) \in Seq(Programs)
  BY <1>6, ModelsArePrograms
<1> DEFINE n == Len(buf)
           h == Followed(ghost, buf, now)
           T == ChecksWrite(R, buf, crcs, model, now)
           m == IF model = NoModel THEN h.modelAt ELSE now
           d == [h EXCEPT !.modelAt = m]
<1>8. Written(R, T, ghost, h, buf, model, now)
  BY <1>3, <1>4, <1>5, <1>7, WriteDoes
<1>9. Recorded(ghost, h, buf, n, now) /\ DOMAIN h = GhostFields /\ h.modelAt = ghost.modelAt
  <2>1. /\ Recorded(ghost, h, buf, n, now) /\ DOMAIN h = GhostFields
        /\ \A f \in Unfollowed : h[f] = ghost[f]
    BY <1>3, <1>4, FollowedHas
  <2> QED BY <2>1 DEF Unfollowed
<1>10. R' = T /\ ghost' = d
  BY <1>1
<1> HIDE DEF T, h, m
<1>11. DOMAIN d = GhostFields /\ d.modelAt = m /\ \A f \in GhostFields \ {"modelAt"} : d[f] = h[f]
  BY <1>9 DEF GhostFields
<1>12. m = IF model = NoModel THEN ghost.modelAt ELSE now
  BY <1>9 DEF m
<1> HIDE DEF d, n
<1>13. /\ d.seen = h.seen /\ d.next = h.next /\ d.ok = h.ok /\ d.run = h.run /\ d.patAt = h.patAt
       /\ d.badPat = h.badPat /\ d.lost = h.lost /\ d.scrambled = h.scrambled
       /\ d.hits = h.hits /\ d.loss = h.loss
  BY <1>11 DEF GhostFields
<1>14. T.pat = PatOf(R, model) /\ T.pat \in Seq(Programs) /\ T.pmts = PmtSeen(PmtsOf(R, model, now), buf, now)
  BY <1>7, <1>8 DEF Written
<1>15. Timers(T, d) /\ Past(d, now)
  <2>1. d.modelAt = (IF model = NoModel THEN ghost.modelAt ELSE now)
    BY <1>11, <1>12
  <2>2. Recorded(ghost, h, buf, Len(buf), now)
    BY <1>9 DEF n
  <2> QED BY <1>3, <1>4, <1>13, <1>14, <2>1, <2>2, TimersKept
<1>16. Tracks(T.S, d) /\ IsStats(T.S)
  BY <1>8, <1>13 DEF Written, Tracks
<1>17. Counted(T, d) /\ SyncSaid(T.out, d)
  BY <1>8, <1>13 DEF Written, Counted, SyncSaid
<1>18. T.lastPAT = d.patAt /\ T.lastPAT \in Nat
  BY <1>3, <1>8, <1>9, <1>13 DEF Written, Recorded, n
<1>19. MInv'
  <2>1. IsMonitor(T) /\ CalcOk(T.S.bc) /\ T.cc = T.S.st.cc /\ T.lastCAT = 0
    BY <1>3, <1>8 DEF Written
  <2>2. T.pat \in Models \cup {NoModel}
    BY <1>6, <1>14
  <2> QED BY <1>2, <1>3, <1>10, <1>11, <1>15, <1>16, <1>17, <1>18, <2>1, <2>2 DEF MInv
<1>20. PatJudged
  <2>1. Verdict(T.out, "P1_3") = "raise"
        <=> BadPatIn(buf, n) \/ (~Came(buf, n, 0) /\ now >= R.lastPAT + TableTime)
    BY <1>8 DEF Written, n
  <2>2. d.badPat <=> BadPatIn(buf, n)
    <3>1. h.badPat <=> BadPatIn(buf, n)
      BY <1>9 DEF Recorded
    <3> QED BY <1>13, <3>1, Zenon
  <2>3. d.patAt = IF Came(buf, n, 0) THEN now ELSE R.lastPAT
    BY <1>3, <1>9, <1>13 DEF Recorded
  <2>4. now >= d.patAt + TableTime <=> ~Came(buf, n, 0) /\ now >= R.lastPAT + TableTime
    <3>1. TableTime \in Nat /\ TableTime > 0
      BY ChecksAssumption
    <3> QED BY <1>3, <2>3, <3>1
  <2>5. Verdict(T.out, "P1_3") = "raise" <=> d.badPat \/ now >= d.patAt + TableTime
    BY <2>1, <2>2, <2>4, Zenon
  <2> QED BY <1>10, <2>5, Zenon DEF PatJudged
<1>21. PmtsJudged
  <2>1. T.pat # NoModel => (Verdict(T.out, "P1_5") = "raise" <=> Late(T, now))
    BY <1>8 DEF Written
  <2>2. Late(T, now) <=>
           \E i \in DOMAIN T.pat :
             T.pat[i].number # 0 /\
             now >= Max({d.modelAt} \cup
                       (IF T.pat[i].pmt \in DOMAIN d.seen THEN {d.seen[T.pat[i].pmt]} ELSE {})) + TableTime
    BY <1>3, <1>15, LateIs
  <2> QED BY <1>10, <2>1, <2>2, Zenon DEF PmtsJudged
<1>22. PidsJudged
  <2>1. T.pat # NoModel => (Verdict(T.out, "P1_6") = "raise" <=> Silent(T, T.pat, now))
    BY <1>8 DEF Written
  <2>2. Silent(T, T.pat, now) <=> SilentBy(d, T.pat, now)
    BY <1>3, <1>15, <1>16, SilentIs
  <2> QED BY <1>10, <2>1, <2>2, Zenon DEF PidsJudged, SilentBy
<1>23. LossJudged
  <2>1. h.lost \in BOOLEAN /\ (Verdict(T.out, "P1_4") = "raise" <=> h.lost)
        /\ h.scrambled \in BOOLEAN /\ (Verdict(T.out, "P2_6") = "raise" <=> Expired(0, now) /\ h.scrambled)
    BY <1>3, <1>8 DEF Written
  <2>2. Expired(0, now)
    <3>1. TableTime \in Nat /\ Epoch \in Nat /\ Epoch >= TableTime
      BY ChecksAssumption, StreamAssumption
    <3> QED BY <1>3, <3>1 DEF Expired
  <2>3. (Verdict(T.out, "P1_4") = "raise") = d.lost /\ (Verdict(T.out, "P2_6") = "raise") = d.scrambled
    BY <1>13, <2>1, <2>2, Zenon
  <2> QED BY <1>10, <2>3, Zenon DEF LossJudged
<1>24. FreshSeen
  <2>1. ASSUME NEW q \in DOMAIN d.seen, now <= d.seen[q] + TickRate
        PROVE  ~(SecondOf(d.seen[q]) <= SecondOf(now) - PidSilence)
    <3>1. d.seen[q] \in Nat
      BY <1>15 DEF Past
    <3>2. SecondOf(d.seen[q]) > SecondOf(now) - PidSilence
      BY <1>3, <2>1, <3>1, FreshIs
    <3>3. SecondOf(d.seen[q]) \in Nat /\ SecondOf(now) \in Nat /\ PidSilence \in Nat
      BY <1>3, <3>1, SecondIsInt, ChecksAssumption
    <3> QED BY <3>2, <3>3
  <2> QED BY <1>10, <2>1, Zenon DEF FreshSeen
<1> QED BY <1>19, <1>20, <1>21, <1>22, <1>23, <1>24

LEMMA MInvStep == MInv /\ [Next]_vars => MInv'
<1> SUFFICES ASSUME MInv, [Next]_vars PROVE MInv'
  OBVIOUS
<1>1. CASE Monitor
  BY <1>1, MonitorDoes
<1>2. CASE Tick
  <2>1. PICK e \in {1, 4 * TickRate} : now' = now + e /\ UNCHANGED <<S, R, ghost>>
    BY <1>2 DEF Tick
  <2>2. e \in Nat
    BY ClockOpsAssumption
  <2>3. R' = R /\ ghost' = ghost /\ kind' = kind /\ calls' \in Nat /\ now \in Nat /\ Epoch \in Nat /\ now >= Epoch
    BY <1>2, <2>1, StreamAssumption DEF Tick, Call, MInv
  <2>4. now' \in Nat /\ now' >= Epoch /\ now' >= now
    BY <2>1, <2>2, <2>3
  <2>5. Past(ghost, now) => Past(ghost, now')
    <3> SUFFICES ASSUME Past(ghost, now) PROVE Past(ghost, now')
      OBVIOUS
    <3>1. ghost.modelAt \in Nat /\ ghost.modelAt <= now'
      BY <2>3, <2>4 DEF Past
    <3>2. ASSUME NEW q \in DOMAIN ghost.seen PROVE ghost.seen[q] \in Nat /\ ghost.seen[q] <= now'
      <4>1. ghost.seen[q] \in Nat /\ ghost.seen[q] <= now
        BY DEF Past
      <4> QED BY <2>3, <2>4, <4>1
    <3> QED BY <3>1, <3>2 DEF Past
  <2> QED BY <2>3, <2>4, <2>5 DEF MInv
<1>3. CASE UNCHANGED vars
  BY <1>3 DEF vars, MInv
<1>4. CASE TsUpdate \/ FrameUpdate \/ SetPcrPid \/ Listen \/ Reset \/ UseClone \/ Query
  <2>1. kind # "tr" /\ kind' = kind /\ now' = now /\ calls' \in Nat
    <3>1. calls \in Nat
      BY DEF MInv
    <3>2. \A name \in {"update", "query"} : Call(name) => kind' = kind /\ calls' \in Nat
      BY <3>1 DEF Call
    <3>3. CASE TsUpdate \/ FrameUpdate
      BY <3>2, <3>3 DEF TsUpdate, FrameUpdate
    <3>4. CASE SetPcrPid \/ UseClone
      BY <3>2, <3>4 DEF SetPcrPid, UseClone
    <3>5. CASE Listen
      BY <3>2, <3>5 DEF Listen
    <3>6. CASE Reset
      BY <3>2, <3>6 DEF Reset
    <3>7. CASE Query
      BY <3>2, <3>7 DEF Query
    <3> QED BY <1>4, <3>3, <3>4, <3>5, <3>6, <3>7
  <2> QED BY <2>1 DEF MInv
<1> QED BY <1>1, <1>2, <1>3, <1>4 DEF Next

LEMMA MInvSyncs == MInv => SyncAlarmsFollowRuns
BY Zenon DEF MInv, SyncAlarmsFollowRuns, SyncSaid

(* The sync alarms follow the runs of packets with and without a sync      *)
(* byte, over any number of writes of any length.                          *)
THEOREM SyncAlarmsHold == Spec => []SyncAlarmsFollowRuns
<1>1. Spec => []MInv
  BY MInvInit, MInvStep, PTL DEF Spec
<1> QED BY <1>1, MInvSyncs, PTL

(* Each check raises its event in the write in which its reason arises,    *)
(* and without a reason in none: P1.3 for a bad or late PAT, P1.5 for a    *)
(* PMT that is late, P1.6 for a PID of the model that is gone (and not     *)
(* while all were there in the last second), P1.4 for a loss, and P2.6     *)
(* only for scrambled packets.                                             *)
THEOREM ChecksHold == Spec => ChecksInTime
<1> DEFINE Pat1 == op' = "write" => PatJudged
           Pmt1 == op' = "write" /\ R'.pat # NoModel =>
                     LET since(pid) == Max({ghost'.modelAt} \cup
                                           (IF pid \in DOMAIN ghost'.seen THEN {ghost'.seen[pid]} ELSE {}))
                     IN  Verdict(R'.out, "P1_5") = "raise" <=>
                           \E i \in DOMAIN R'.pat :
                             R'.pat[i].number # 0 /\ now >= since(R'.pat[i].pmt) + TableTime
           Pid1 == op' = "write" /\ R'.pat # NoModel =>
                     LET referred == UNION {{R'.pat[i].pmt} \cup R'.pat[i].es : i \in DOMAIN R'.pat}
                         gone(pid) == pid \in DOMAIN ghost'.seen =>
                                        SecondOf(ghost'.seen[pid]) <= SecondOf(now) - PidSilence
                         fresh(pid) == pid \in DOMAIN ghost'.seen /\ now <= ghost'.seen[pid] + TickRate
                     IN  /\ (\E pid \in referred : gone(pid)) => Verdict(R'.out, "P1_6") = "raise"
                         /\ (\A pid \in referred : fresh(pid)) => Verdict(R'.out, "P1_6") # "raise"
           Loss1 == op' = "write" =>
                      /\ Verdict(R'.out, "P1_4") = "raise" <=> ghost'.lost
                      /\ Verdict(R'.out, "P2_6") = "raise" => ghost'.scrambled
<1>1. Spec => []MInv
  BY MInvInit, MInvStep, PTL DEF Spec
<1>2. MInv /\ [Next]_vars => [Pat1]_vars /\ [Pmt1]_vars /\ [Pid1]_vars /\ [Loss1]_vars
  <2> SUFFICES ASSUME MInv, Next, op' = "write" PROVE Pat1 /\ Pmt1 /\ Pid1 /\ Loss1
    OBVIOUS
  <2>1. Monitor
    BY DEF Next, TsUpdate, FrameUpdate, SetPcrPid, Listen, Reset, UseClone, Query, Tick, Call
  <2>2. PatJudged /\ PmtsJudged /\ PidsJudged /\ FreshSeen /\ LossJudged
    BY <2>1, MonitorDoes
  <2>3. Pmt1
    BY <2>2, Zenon DEF PmtsJudged
  <2>4. Pid1
    BY <2>2, Zenon DEF PidsJudged, FreshSeen
  <2>5. Loss1
    BY <2>2, Zenon DEF LossJudged
  <2> QED BY <2>2, <2>3, <2>4, <2>5, Zenon
<1>3. PatErrorInTime <=> [][Pat1]_vars
  BY DEF PatErrorInTime, PatJudged
<1>4. PmtErrorInTime <=> [][Pmt1]_vars
  BY DEF PmtErrorInTime
<1>5. PidErrorIsSilence <=> [][Pid1]_vars
  BY DEF PidErrorIsSilence
<1>6. LossAndScramblingRaised <=> [][Loss1]_vars
  BY DEF LossAndScramblingRaised
<1> HIDE DEF Pat1, Pmt1, Pid1, Loss1
<1> QED BY <1>1, <1>2, <1>3, <1>4, <1>5, <1>6, PTL DEF Spec, ChecksInTime
=============================================================================

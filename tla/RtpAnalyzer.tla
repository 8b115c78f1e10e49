----------------------------- MODULE RtpAnalyzer -----------------------------
(***************************************************************************)
(* rtp-analyzer.c: the RTP headers of a stream, each compared with the one *)
(* before it.  A sequence number or time stamp of 0 in the last header     *)
(* stands for "no header yet".  The histograms are left out.               *)
(***************************************************************************)
EXTENDS ClockOps, Sequences

CONSTANTS
  SeqModulus,   \* 2^16
  TsModulus,    \* 2^32
  PerMs,        \* ticks in a millisecond (90)
  SeqStart,     \* the sequence numbers a stream may start with
  AnalyzerCalls \* bound

(* The time stamps go once round in days, the numbers in seconds.          *)
ASSUME AnalyzerAssumption ==
  /\ SeqModulus \in Nat \ {0, 1} /\ TsModulus \in Nat \ {0} /\ PerMs \in Nat \ {0}
  /\ SeqModulus * PerMs < TsModulus
  /\ SeqStart \subseteq 0 .. SeqModulus - 1 /\ AnalyzerCalls \in Nat

VARIABLES
  ra,      \* struct rtp_hdr_analyzer_s
  rsrc,    \* the sender's next header
  raGhost  \* history: the packets lost in a row and the ends of frames among them,
           \* and what that should have made of the counters since the last reset

raVars == <<ra, rsrc, raGhost>>

Hdr(seq, ts, m, pt) == [seq |-> seq, ts |-> ts, m |-> m, pt |-> pt]
NoHdr == Hdr(0, 0, FALSE, 0)
Zeroes == [packets |-> 0, frames |-> 0, disc |-> 0, badPt |-> 0, moved2110 |-> 0, stalled2110 |-> 0,
           moved |-> 0, stalled |-> 0, back |-> 0]

(* rtp_analyzer_init; rtp_analyzer_reset keeps the last header.            *)
AnalyzerStart == [n |-> Zeroes, last |-> NoHdr]
AnalyzerReset(a) == [a EXCEPT !.n = Zeroes]

(* rtp_hdr_is_payload_type_valid: a dynamic type, or MPEG-TS.              *)
IsPayloadTypeValid(pt) == pt \in 96 .. 127 \/ pt = 33

(* Deviation (used by mutation tests only): the number does not wrap.      *)
IsContinuousUnwrapped(last, hdr) == last.seq > 0 => hdr.seq = last.seq + 1
(* rtp_hdr_is_continious.                                                  *)
IsContinuous(last, hdr) == last.seq > 0 => hdr.seq = (last.seq + 1) % SeqModulus

One(b) == IF b THEN 1 ELSE 0

(* The time stamp moved though the last packet did not end its frame.      *)
MovedInFrame(last, hdr) == last.ts # hdr.ts /\ ~last.m /\ hdr.pt \in 96 .. 127

(* rtp_hdr_write.  The last header is replaced before the sequence number  *)
(* is compared with it a second time: that count never moves.              *)
HdrWrite(a, hdr) ==
  LET last == a.last
      c == a.n
      known == last.ts # 0
      ms == PtsDiff(last.ts, hdr.ts) \div PerMs
  IN  [last |-> hdr,
       n |-> [packets |-> c.packets + 1, frames |-> c.frames + One(hdr.m),
              stalled |-> c.stalled + One(known /\ ms = 0), moved |-> c.moved + One(known /\ ms >= 3),
              moved2110 |-> c.moved2110 + One(known /\ MovedInFrame(last, hdr)),
              stalled2110 |-> c.stalled2110 + One(known /\ last.ts = hdr.ts /\ last.m),
              disc |-> c.disc + One(~IsContinuous(last, hdr)),
              back |-> c.back + One(hdr.ts # 0 /\ hdr.seq # 0 /\ hdr.seq < hdr.seq),
              badPt |-> c.badPt + One(~IsPayloadTypeValid(hdr.pt))]]

-----------------------------------------------------------------------------
(* The sender of video: frames of a few packets, the last of them marked,  *)
(* all with one time stamp.  The network may lose packets, though never a  *)
(* whole round of numbers in a row: nothing in the headers would show it.  *)
AnalyzerInit ==
  /\ ra = AnalyzerStart
  /\ \E seq \in SeqStart : rsrc = [seq |-> seq, ts |-> TsModulus - 2 * PerMs]
  /\ raGhost = [calls |-> 0, run |-> 0, ends |-> 0, gaps |-> 0, hidden |-> 0,
                badEnds |-> 0, first |-> TRUE]

(* A packet of a legal stream, seen or lost.                               *)
Transmit ==
  /\ raGhost.calls < AnalyzerCalls
  /\ \E m \in BOOLEAN, lost \in BOOLEAN :
       LET hdr == Hdr(rsrc.seq, rsrc.ts, m, 96)
           g == raGhost
           noticed == g.run > 0 /\ ~g.first
       IN  /\ rsrc' = [seq |-> (rsrc.seq + 1) % SeqModulus,
                       ts |-> IF m THEN (rsrc.ts + PerMs) % TsModulus ELSE rsrc.ts]
           /\ IF lost
              THEN /\ g.run < SeqModulus - 1 /\ UNCHANGED ra
                   /\ raGhost' = [g EXCEPT !.calls = @ + 1, !.run = @ + 1, !.ends = @ + One(m)]
              ELSE /\ ra' = HdrWrite(ra, hdr)
                   /\ raGhost' = [g EXCEPT !.calls = @ + 1, !.run = 0, !.ends = 0, !.first = FALSE,
                        !.gaps = @ + One(noticed), !.hidden = @ + One(noticed /\ ra.last.seq = 0),
                        !.badEnds = @ + One(~g.first /\ g.ends > 0 /\ ~ra.last.m /\ ra.last.ts # 0)]

AnalyzerCallReset ==
  /\ raGhost.calls < AnalyzerCalls /\ ra' = AnalyzerReset(ra)
  /\ raGhost' = [raGhost EXCEPT !.calls = @ + 1, !.gaps = 0, !.hidden = 0, !.badEnds = 0]
  /\ UNCHANGED rsrc

AnalyzerNext == Transmit \/ AnalyzerCallReset
AnalyzerSpec == AnalyzerInit /\ [][AnalyzerNext]_raVars

-----------------------------------------------------------------------------
(* The discontinuities are the gaps in what was received, over the wrap of *)
(* the numbers and over resets, and no others; a gap right after the       *)
(* number 0 is the one kind that is not seen.                              *)
AnalyzerCountsGaps == ra.n.disc = raGhost.gaps - raGhost.hidden

(* A legal stream of ST 2110 is never blamed: the time stamp is found to   *)
(* move inside a frame only where the end of a frame was lost, and is      *)
(* never found to stall.                                                   *)
AnalyzerBlamesLossOnly ==
  /\ ra.n.moved2110 = raGhost.badEnds
  /\ ra.n.stalled2110 = 0 /\ ra.n.badPt = 0

(* The analyzer counts what the network did, and blames the sender for     *)
(* nothing.                                                                *)
AnalyzerIsFair ==
  /\ AnalyzerCountsGaps
  /\ AnalyzerBlamesLossOnly

(* The inductive invariant of that: the header a stream without loss would *)
(* have next is as far from the last one seen as the packets lost since.   *)
Counts == [packets : Int, frames : Int, disc : Int, badPt : Int, moved2110 : Int, stalled2110 : Int,
           moved : Int, stalled : Int, back : Int]
Headers == [seq : 0 .. SeqModulus - 1, ts : 0 .. TsModulus - 1, m : BOOLEAN, pt : Int]
AnalyzerTypes ==
  /\ ra \in [n : Counts, last : Headers]
  /\ rsrc \in [seq : 0 .. SeqModulus - 1, ts : 0 .. TsModulus - 1]
  /\ raGhost \in [calls : 0 .. AnalyzerCalls, run : 0 .. SeqModulus - 1, ends : Nat, gaps : Nat,
                   hidden : Nat, badEnds : Nat, first : BOOLEAN]
  /\ raGhost.ends <= raGhost.run
  /\ raGhost.first => ra.last = NoHdr
AnalyzerAtLoss ==
  ~raGhost.first =>
    /\ rsrc.seq = (ra.last.seq + 1 + raGhost.run) % SeqModulus
    /\ rsrc.ts = (ra.last.ts + (One(ra.last.m) + raGhost.ends) * PerMs) % TsModulus
AnalyzerInv == AnalyzerTypes /\ AnalyzerAtLoss /\ AnalyzerIsFair
=============================================================================

------------------------------ MODULE Reframer ------------------------------
(***************************************************************************)
(* reframer.c: writes of any length come out as frames of one length.  The *)
(* bytes written are 1, 2, 3, ... in order.                                *)
(***************************************************************************)
EXTENDS Integers, Sequences, SequencesExt

CONSTANTS
  FrameSizes,    \* frame lengths a caller asks for; 0 passes writes through
  WriteLengths,  \* lengths of the writes
  ReframeBytes   \* bound: bytes written

ASSUME ReframerAssumption ==
  FrameSizes \subseteq Nat /\ WriteLengths \subseteq Nat \ {0} /\ ReframeBytes \in Nat

VARIABLES
  frameSize, sendBuffer, sendIndex,  \* struct ltntstools_reframer_ctx_s
  calls,    \* history: the callbacks of the last write
  put, out  \* history: bytes written, and bytes emitted, so far

reframerVars == <<frameSize, sendBuffer, sendIndex, calls, put, out>>

ReframerInit ==
  /\ frameSize \in FrameSizes /\ sendBuffer = [i \in 1 .. frameSize |-> 0]
  /\ sendIndex = 0 /\ calls = << >> /\ put = 0 /\ out = 0

(* How much of what is left the buffer takes.                              *)
CopyLength(r, n) == IF n > frameSize - r.at THEN frameSize - r.at ELSE n

(* Deviation (used by mutation tests only): the index is not reset after a *)
(* callback that the last byte of a write filled.                          *)
CopyKeepIndex(r, pass) ==
  IF Len(r.left) = 0 THEN r
  ELSE LET n == CopyLength(r, Len(r.left))
           filled == [i \in 1 .. frameSize |->
                        IF i \in r.at + 1 .. r.at + n THEN r.left[i - r.at] ELSE r.buf[i]]
           full == r.at + n = frameSize
       IN  [buf |-> filled, at |-> IF full /\ n < Len(r.left) THEN 0 ELSE r.at + n,
            left |-> SubSeq(r.left, n + 1, Len(r.left)),
            sent |-> IF full THEN Append(r.sent, filled) ELSE r.sent]
(* One pass of the loop of ltststools_reframer_write.                      *)
Copy(r, pass) ==
  IF Len(r.left) = 0 THEN r
  ELSE LET n == CopyLength(r, Len(r.left))
           filled == [i \in 1 .. frameSize |->
                        IF i \in r.at + 1 .. r.at + n THEN r.left[i - r.at] ELSE r.buf[i]]
           full == r.at + n = frameSize
       IN  [buf |-> filled, at |-> IF full THEN 0 ELSE r.at + n,
            left |-> SubSeq(r.left, n + 1, Len(r.left)),
            sent |-> IF full THEN Append(r.sent, filled) ELSE r.sent]

(* ltststools_reframer_write: the loop has at most one pass for each byte. *)
ReframerWrite ==
  \E n \in WriteLengths :
    /\ put + n <= ReframeBytes
    /\ LET bytes == [i \in 1 .. n |-> put + i]
           r == FoldLeft(Copy, [buf |-> sendBuffer, at |-> sendIndex, left |-> bytes,
                                sent |-> << >>], [i \in 1 .. n |-> i])
       IN  IF frameSize = 0 THEN calls' = <<bytes>> /\ UNCHANGED <<sendBuffer, sendIndex>>
           ELSE calls' = r.sent /\ sendBuffer' = r.buf /\ sendIndex' = r.at
    /\ put' = put + n /\ out' = out + Len(FlattenSeq(calls'))
    /\ UNCHANGED frameSize

ReframerNext == ReframerWrite

-----------------------------------------------------------------------------
(* No byte is lost, repeated or out of order, however the writes fall on   *)
(* the frames: what a write emits goes on where the last one ended, in     *)
(* frames of the length asked for, and the rest is what the buffer holds.  *)
ReframerKeepsBytes ==
  [][/\ FlattenSeq(calls') = [i \in 1 .. out' - out |-> out + i]
     /\ frameSize > 0 => \A i \in DOMAIN calls' : Len(calls'[i]) = frameSize
     /\ SubSeq(sendBuffer', 1, sendIndex') = [i \in 1 .. put' - out' |-> out' + i]]_reframerVars
=============================================================================

------------------------------ MODULE DelayFifo ------------------------------
(***************************************************************************)
(* What a smoother promises about the packets it accepts, with neither     *)
(* threads nor clocks: runs of consecutive packets wait in a queue, leave  *)
(* it whole and in order, and are only ever discarded from the back.       *)
(***************************************************************************)
EXTENDS Integers, Sequences

VARIABLES
  pending,   \* the runs that wait, records [from, to]
  delivered  \* the packets that left, in order

fifoVars == <<pending, delivered>>

Packets(r) == [i \in 1 .. r.to - r.from + 1 |-> r.from + i - 1]

FifoInit == pending = << >> /\ delivered = << >>

(* A run is accepted behind everything accepted before.                    *)
Accept ==
  /\ Len(pending') = Len(pending) + 1
  /\ LET r == pending'[Len(pending')]
     IN  /\ pending' = Append(pending, r)
         /\ r.from <= r.to
         /\ \A i \in 1 .. Len(pending) : pending[i].to < r.from
         /\ \A i \in 1 .. Len(delivered) : delivered[i] < r.from
  /\ UNCHANGED delivered

Deliver ==
  /\ pending # << >>
  /\ delivered' = delivered \o Packets(Head(pending))
  /\ pending' = Tail(pending)

(* Everything but the first n runs is dropped.                             *)
Discard ==
  /\ \E n \in 0 .. Len(pending) : pending' = SubSeq(pending, 1, n)
  /\ UNCHANGED delivered

FifoNext == Accept \/ Deliver \/ Discard

FifoSpec == FifoInit /\ [][FifoNext]_fifoVars
==============================================================================

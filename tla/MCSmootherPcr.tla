---------------------------- MODULE MCSmootherPcr ----------------------------
(* Small instances of SmootherPcr: short streams and a scaled clock.       *)
EXTENDS SmootherPcr

(* Two intervals, the second of two chunks, behind a packet without PCR.   *)
SteadyStream == <<NoPcr, 3, 4, NoPcr, NoPcr, 7>>
(* The clock leaps forwards by more than JumpTicks, and restarts at 0.     *)
LeapStream    == <<3, NoPcr, 11, 12, NoPcr, 13>>
RestartStream == <<9, NoPcr, 10, 0, NoPcr, 1>>
(* The clock steps back, by too much for a wrap.                           *)
BackStream    == <<12, NoPcr, 8, 9, NoPcr, 10>>

AllStreams == {SteadyStream, LeapStream, RestartStream}
Unsteady   == {LeapStream, RestartStream, BackStream}

Packets == 1 .. 6

(* Every packet on the busy list is handed to the callback, or discarded   *)
(* by smoother_pcr_free: the output thread neither forgets an item nor     *)
(* waits for something that does not come.                                 *)
QueuedIsDelivered ==
  \A p \in Packets : Queued(p) ~> (In(p, sent) \/ Freed)
==============================================================================

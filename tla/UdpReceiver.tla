----------------------------- MODULE UdpReceiver -----------------------------
(***************************************************************************)
(* udp_receiver.c: a thread gives the datagrams of a socket to a callback, *)
(* and free ends it.  The flags are plain integers both sides use without  *)
(* a lock.  A datagram is its number of bytes, or -1 for a recv that       *)
(* failed; poll may time out at any moment, which is a step of no effect   *)
(* and is left out.  The multicast groups are not modelled.                *)
(***************************************************************************)
EXTENDS Integers, Sequences

CONSTANTS
  TsPacket,    \* 188
  RtpHeader,   \* 12
  Datagrams,   \* the lengths that arrive
  UdpCalls     \* bound: datagrams received

ASSUME UdpAssumption ==
  TsPacket \in Nat \ {0} /\ RtpHeader \in Nat /\ Datagrams \subseteq Int /\ UdpCalls \in Nat

VARIABLES
  udp,     \* the context: its flags, and stripRTPHeader
  ucpc,    \* the owner: "idle", "started", "wait", "freed"
  utpc,    \* the thread: "none", "new", "loop", "complete", "done"
  ughost   \* history: the datagrams that came with bytes, what the callback was given,
           \* and the calls of recv

udpVars == <<udp, ucpc, utpc, ughost>>

(* ltntstools_udp_receiver_alloc.                                          *)
UdpInit ==
  /\ udp \in [running : {FALSE}, terminate : {FALSE}, complete : {FALSE}, strip : BOOLEAN]
  /\ ucpc = "idle" /\ utpc = "none" /\ ughost = [in |-> << >>, out |-> << >>, raced |-> FALSE, calls |-> 0]

(* ltntstools_udp_receiver_thread_start.                                   *)
UdpStart ==
  /\ ucpc = "idle" /\ ucpc' = "started" /\ utpc' = "new" /\ UNCHANGED <<udp, ughost>>

(* ltntstools_udp_receiver_free: it waits for a thread it sees running.    *)
UdpFree ==
  /\ ucpc \in {"idle", "started"}
  /\ udp' = [udp EXCEPT !.terminate = TRUE]
  /\ ucpc' = IF udp.running THEN "wait" ELSE "freed"
  /\ ughost' = [ughost EXCEPT !.raced = utpc = "new"]
  /\ UNCHANGED utpc
UdpFreeEnd ==
  /\ ucpc = "wait" /\ udp.complete /\ ucpc' = "freed" /\ UNCHANGED <<udp, utpc, ughost>>

-----------------------------------------------------------------------------
(* udp_receiver_threadfunc.                                                *)
UdpThreadStart ==
  /\ utpc = "new" /\ ucpc # "freed" /\ utpc' = "loop" /\ udp' = [udp EXCEPT !.running = TRUE]
  /\ UNCHANGED <<ucpc, ughost>>

(* The bytes given to the callback without the RTP header: whole packets.  *)
(* rxbytes is unsigned, so that a datagram shorter than the header and a   *)
(* failed recv come out as a length beyond all bounds.                     *)
Given(n) == IF n < RtpHeader THEN -1 ELSE ((n - RtpHeader) \div TsPacket) * TsPacket

UdpReceive ==
  /\ utpc = "loop" /\ ~udp.terminate /\ ughost.calls < UdpCalls
  /\ \E n \in Datagrams :
       ughost' = IF n = 0 THEN [ughost EXCEPT !.calls = @ + 1]
                 ELSE [ughost EXCEPT !.calls = @ + 1, !.in = Append(@, n),
                                     !.out = Append(@, IF udp.strip THEN Given(n) ELSE n)]
  /\ UNCHANGED <<udp, ucpc, utpc>>

(* Deviation: the end is announced as soon as it is asked for.             *)
UdpLoopEndEarly ==
  /\ utpc = "loop" /\ udp.terminate /\ ~udp.complete
  /\ udp' = [udp EXCEPT !.complete = TRUE] /\ UNCHANGED <<utpc, ucpc, ughost>>
UdpLoopEnd ==
  /\ utpc = "loop" /\ udp.terminate /\ utpc' = "complete"
  /\ udp' = [udp EXCEPT !.complete = TRUE] /\ UNCHANGED <<ucpc, ughost>>

(* Its last store, which may come after the context was freed.             *)
UdpThreadEnd ==
  /\ utpc = "complete" /\ utpc' = "done" /\ UNCHANGED <<ucpc, ughost>>
  /\ IF ucpc = "freed" THEN UNCHANGED udp ELSE udp' = [udp EXCEPT !.running = FALSE]

UdpThread == UdpThreadStart \/ UdpReceive \/ UdpLoopEnd \/ UdpThreadEnd
UdpNext == UdpStart \/ UdpFree \/ UdpFreeEnd \/ UdpThread
UdpSpec == UdpInit /\ [][UdpNext]_udpVars

-----------------------------------------------------------------------------
(* Once free has returned the thread receives nothing more and calls       *)
(* nobody: it has at most its last store before it, unless free came       *)
(* before the thread had announced itself.                                 *)
UdpQuietWhenFreed ==
  ucpc = "freed" => utpc \in {"none", "complete", "done"} \/ ughost.raced

(* Without the RTP header the callback gets the packets of each datagram   *)
(* that holds a header, whole and none but them, in the order of arrival.  *)
UdpGivesPackets ==
  udp.strip =>
    /\ Len(ughost.out) = Len(ughost.in)
    /\ \A i \in DOMAIN ughost.in : ughost.in[i] >= RtpHeader =>
         \E k \in 0 .. ughost.in[i] :
           /\ RtpHeader + k * TsPacket <= ughost.in[i]
           /\ RtpHeader + (k + 1) * TsPacket > ughost.in[i]
           /\ ughost.out[i] = k * TsPacket

(* The callback gets the packets, and nothing once free has returned.      *)
UdpGivesAndStops ==
  /\ UdpQuietWhenFreed
  /\ UdpGivesPackets

(* The inductive invariant of that: the flags tell where the thread is.    *)
UdpTypes ==
  /\ udp \in [running : BOOLEAN, terminate : BOOLEAN, complete : BOOLEAN, strip : BOOLEAN]
  /\ ucpc \in {"idle", "started", "wait", "freed"}
  /\ utpc \in {"none", "new", "loop", "complete", "done"}
  /\ ughost \in [in : Seq(Int), out : Seq(Int), raced : BOOLEAN, calls : Nat]
UdpFlags ==
  /\ ucpc = "idle" => utpc = "none"
  /\ utpc = "loop" => udp.running
  /\ udp.complete => utpc \in {"complete", "done"}
UdpInv == UdpTypes /\ UdpFlags /\ UdpGivesAndStops
=============================================================================

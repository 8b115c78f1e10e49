------------------------------- MODULE MCFlows -------------------------------
(***************************************************************************)
(* What is made of a stream on its way: its PESs (pes-extractor.c, and     *)
(* demux.c above it), its RTP frames (smoother-rtp.c, rtp-analyzer.c), the *)
(* decoder's buffer (vbv.c), the socket (udp_receiver.c) and the queue     *)
(* between threads (kl-queue.c).  A behaviour is the life of one object of *)
(* the kind "unit".                                                        *)
(***************************************************************************)
EXTENDS Demux, SmootherRtp, RtpAnalyzer, Vbv, UdpReceiver, KLQueue, TLC

CONSTANTS FlowUnits, PesPackets, PesOdd, DemuxPackets

VARIABLES
  unit,
  E,      \* a PES extractor
  D,      \* a demultiplexer
  snd,    \* the sender of the transport stream
  pghost, \* history
  pnow

pesVars == <<E, D, snd, pghost, pnow>>
allVars == <<unit, pesVars, rtpVars, raVars, vbvVars, udpVars, queueVars>>

Lengths == {-1, 0, 2, 3, 8, 15}

-----------------------------------------------------------------------------
(* The sender: PID 2 carries the PESs (and in the demultiplexer's case 3   *)
(* as well), PID 1 the PCRs.  PESs come in decoding order; Display is      *)
(* their order of presentation.  No more than PesOdd odd things happen: a  *)
(* packet is lost, is small, has an unreadable PES header, or none at all. *)
Display == <<1, 4, 2, 3, 7, 5, 6>>
Pts(k) == (Modulus - 8 + 4 * Display[k]) % Modulus
TrueOrder(pts) == IF pts >= Modulus \div 2 THEN pts - Modulus ELSE pts

PidState == [cc |-> 0, pes |-> 0, n |-> 0, seen |-> FALSE, gone |-> FALSE]
Oddities == {"lost", "small", "bad", "empty"}
EsPids == IF unit = "pes" THEN {2} ELSE {2, 3}
PacketOf(pid, start, odd) ==
  LET p == snd.on[pid]
      k == IF start THEN p.pes + 1 ELSE p.pes
      payload == pid # 1 /\ odd # "empty"
  IN  [sync |-> TRUE, pid |-> pid, cc |-> IF payload \/ pid = 1 THEN (p.cc + 1) % 16 ELSE p.cc,
       adap |-> IF payload THEN 1 ELSE IF pid = 1 THEN 3 ELSE 2, pusi |-> start /\ payload, sc |-> 0,
       tei |-> FALSE, pcr |-> IF pid = 1 THEN 5 * snd.sent + 1 ELSE -1, pes |-> k,
       n |-> IF start THEN 1 ELSE p.n + 1, size |-> IF odd = "small" THEN 1 ELSE 2,
       pts |-> IF k = 0 THEN 0 ELSE Pts(k), ok |-> odd # "bad"]

(* The first state of the sender is in the middle of a PES.                *)
PesInit ==
  /\ E = PesAlloc(2) /\ D = NoDemux /\ pnow = 10 * TickRate
  /\ snd = [on |-> [pid \in {1, 2, 3} |-> PidState], sent |-> 0, odd |-> 0]
  /\ pghost = [now |-> [pid \in {2, 3} |-> [whole |-> FALSE, units |-> << >>, pts |-> 0, ok |-> TRUE,
                                            from |-> 0, to |-> 0, pcr |-> 0, sure |-> FALSE]],
               whole |-> << >>, tooLong |-> FALSE, tooShort |-> FALSE, prog |-> << >>]

Sending(pid, start, odd) ==
  /\ odd # "none" => snd.odd < PesOdd
  /\ odd = "bad" => start
  /\ pid = 1 => ~start /\ odd \in {"none", "lost"}
  /\ start => snd.on[pid].pes < Len(Display)

Advance(pid, pkt, odd) ==
  snd' = [snd EXCEPT !.sent = @ + 1, !.odd = @ + (IF odd = "none" THEN 0 ELSE 1),
            !.on[pid] = [cc |-> pkt.cc, pes |-> pkt.pes,
                         n |-> IF pkt.adap = 2 THEN @.n ELSE pkt.n,
                         seen |-> @.seen \/ odd # "lost", gone |-> odd = "lost"]]

(* The PESs that came whole, from the packets alone.  A packet after a     *)
(* lost one tells of the loss: a PES is whole when none was told on its    *)
(* own PID, and sure when none was told on any.  stc is the time the       *)
(* extractor had when the PES started.                                     *)
Follow(g, pkt, pid, told, stc) ==
  LET c == g.now[pid]
      mine == pkt.pid = pid
      payload == mine /\ pkt.adap # 2
      ends == payload /\ pkt.pusi
      whole == c.whole /\ ~(mine /\ told)
      sure == c.sure /\ ~told
      units == [k \in 1 .. pkt.size |-> <<pkt.pes, pkt.n>>]
      next == IF ends
              THEN [whole |-> TRUE, units |-> units, pts |-> pkt.pts, ok |-> pkt.ok, from |-> pnow,
                    to |-> pnow, pcr |-> stc, sure |-> TRUE]
              ELSE [c EXCEPT !.whole = whole, !.sure = sure, !.to = IF mine THEN pnow ELSE @,
                             !.units = IF payload /\ whole THEN @ \o units ELSE @]
      pes == [ring |-> c.units, pts |-> c.pts, pcr |-> c.pcr, ms |-> c.to - c.from]
      good == ends /\ whole /\ c.ok /\ Len(c.units) \in MinPes .. RingSize
  IN  [g EXCEPT !.now[pid] = next,
         !.whole = IF good THEN Append(@, [pid |-> pid, pes |-> pes, at |-> pnow, sure |-> sure]) ELSE @,
         !.tooLong = @ \/ (ends /\ sure /\ Len(c.units) > RingSize),
         !.tooShort = @ \/ (ends /\ sure /\ Len(c.units) < MinPes)]

(* A loss on any PID on which something was received is told to all the    *)
(* extractors by the packet after it.                                      *)
Told(pid) == snd.on[pid].seen /\ snd.on[pid].gone

PesSend ==
  /\ unit = "pes" /\ snd.sent < PesPackets /\ ~E.dead /\ ~E.freed
  /\ \E pid \in {1, 2}, start \in BOOLEAN, odd \in Oddities \cup {"none"} :
       LET pkt == PacketOf(pid, start, odd)
       IN  /\ Sending(pid, start, odd) /\ Advance(pid, pkt, odd)
           /\ IF odd = "lost" THEN UNCHANGED <<E, pghost>>
              ELSE /\ E' = PesWrite(E, pkt, pnow)
                   /\ pghost' = Follow(pghost, pkt, 2, Told(pid), E'.S.bc.stc)
  /\ pnow' = pnow + 1 /\ UNCHANGED D

PesConfigure ==
  /\ unit = "pes" /\ snd.sent = 0 /\ E = PesAlloc(2)
  /\ E' \in {SetOrdered(E, TRUE), SetPcrPid(E, 1)}
  /\ UNCHANGED <<D, snd, pghost, pnow>>

PesClose ==
  /\ unit = "pes" /\ snd.sent > 0 /\ ~E.dead /\ ~E.freed /\ E' = PesFree(E)
  /\ UNCHANGED <<D, snd, pghost, pnow>>

-----------------------------------------------------------------------------
(* The demultiplexer is made from one of two PATs, in the second of which  *)
(* two programs share a stream.                                            *)
Es(pid, type, descr) == [pid |-> pid, type |-> type, descr |-> descr]
ProgramOf(number, streams) ==
  [number |-> number, pid |-> 20 + number,
   pmt |-> [NewPmt EXCEPT !.number = number, !.pcr = 1, !.streams = streams], service |-> "none"]
PatWith(programs) == [ts |-> 1, version |-> 0, cni |-> 1, programs |-> programs]
Video == Es(2, "video", << >>)
Audio == Es(3, "audio", << >>)
Pats ==
  { PatWith(<<ProgramOf(0, << >>), ProgramOf(1, <<Video, Audio, Es(4, "private", <<"LIPS">>),
                                              Es(5, "private", <<"audio">>)>>)>>),
    PatWith(<<ProgramOf(1, <<Video, Audio>>), ProgramOf(2, <<Audio>>)>>) }

DemuxOpen ==
  /\ unit = "demux" /\ D = NoDemux /\ snd.sent = 0
  /\ \E pat \in Pats : D' = DemuxAlloc(pat) /\ pghost' = [pghost EXCEPT !.prog = pat.programs]
  /\ UNCHANGED <<E, snd, pnow>>

DemuxSend ==
  /\ unit = "demux" /\ D # NoDemux /\ ~D.exited /\ D.index # << >> /\ snd.sent < DemuxPackets
  /\ \A pid \in DOMAIN D.pe : ~D.pe[pid].dead
  /\ \E pid \in {2, 3}, start \in BOOLEAN, odd \in {"none", "lost"}, d \in {1, ItemExpire} :
       LET pkt == PacketOf(pid, start, odd)
           F(g, p) == Follow(g, pkt, p, Told(pid), D'.pe[p].S.bc.stc)
       IN  /\ Sending(pid, start, odd) /\ Advance(pid, pkt, odd)
           /\ IF odd = "lost" THEN UNCHANGED <<D, pghost>>
              ELSE D' = DemuxWrite(D, pkt, pnow) /\ pghost' = F(F(pghost, 2), 3)
           /\ (start \/ d = 1) /\ pnow' = pnow + d
  /\ UNCHANGED E

DemuxClose ==
  /\ unit = "demux" /\ snd.sent > 0 /\ D.index # << >> /\ D' = DemuxFree(D)
  /\ UNCHANGED <<E, snd, pghost, pnow>>

PesNext == PesSend \/ PesConfigure \/ PesClose \/ DemuxOpen \/ DemuxSend \/ DemuxClose

-----------------------------------------------------------------------------
Init ==
  /\ unit \in FlowUnits
  /\ PesInit /\ AnalyzerInit /\ VbvInit /\ QueueInit
  /\ RtpInit /\ (unit # "rtp" => rsend.rest = << >>)
  /\ UdpInit /\ (unit # "udp" => udp.strip)
  /\ unit # "analyzer" => rsrc.seq = 0

Next ==
  /\ UNCHANGED unit
  /\ \/ PesNext /\ UNCHANGED <<rtpVars, raVars, vbvVars, udpVars, queueVars>>
     \/ unit = "rtp" /\ RtpNext /\ UNCHANGED <<pesVars, raVars, vbvVars, udpVars, queueVars>>
     \/ unit = "analyzer" /\ AnalyzerNext /\ UNCHANGED <<pesVars, rtpVars, vbvVars, udpVars, queueVars>>
     \/ unit = "vbv" /\ VbvNext /\ UNCHANGED <<pesVars, rtpVars, raVars, udpVars, queueVars>>
     \/ unit = "udp" /\ UdpNext /\ UNCHANGED <<pesVars, rtpVars, raVars, vbvVars, queueVars>>
     \/ unit = "queue" /\ QueueNext /\ UNCHANGED <<pesVars, rtpVars, raVars, vbvVars, udpVars>>

(* The threads run; the caller of a free, and a consumer of the queue that *)
(* waits, go on when they may.                                             *)
Spec ==
  /\ Init /\ [][Next]_allVars
  /\ WF_vbvVars(unit = "vbv" /\ (VbvThread \/ VbvFreeEnd))
  /\ QueueFair

-----------------------------------------------------------------------------
Delivered == E.out \o SelectSeq([i \in DOMAIN E.slots |-> E.slots[i].pes], LAMBDA p : p # NoPes)
PesOf(entries) == [i \in DOMAIN entries |-> entries[i].pes]

(* The callback gets, or the ordered list holds, no PES but those of which *)
(* all packets came, with none from another and none missing, each once,   *)
(* with the clock of its own start and the time it took to arrive: "Out    *)
(* rule is, we won't pass malformed PES's downstream."  It gets every one  *)
(* during which no loss was told on any PID.  Of one during which another  *)
(* PID told a loss nothing is said: the comments name the chosen PID       *)
(* alone, the code restarts for the count of the whole stream.             *)
PesDeliveredWhole ==
  unit = "pes" /\ ~E.dead =>
    LET given == SelectSeq(PesOf(pghost.whole), LAMBDA p : p \in ToSet(Delivered))
    IN  /\ ToSet(Delivered) = ToSet(given) /\ Len(Delivered) = Len(given)
        /\ ~E.ordered => Delivered = given
        /\ \A w \in ToSet(pghost.whole) : w.sure => w.pes \in ToSet(given)

(* In ordered mode the callback gets the PESs in their order of            *)
(* presentation, over a wrap of the PTS, also those that wait when the     *)
(* extractor is freed, as long as no more than OrderDepth are out of order.*)
PesOrdered ==
  E.ordered => \A i, j \in DOMAIN E.out : i < j => TrueOrder(E.out[i].pts) < TrueOrder(E.out[j].pts)

(* The extractor aborts the process for the size of a PES alone: one that  *)
(* outgrew the ring, or one of less than 16 bytes.  Whatever is lost, its  *)
(* own count of the bytes in the ring stays that of the ring.              *)
PesAbortsForSizeOnly == E.dead => pghost.tooLong \/ pghost.tooShort

(* The demultiplexer has one extractor for each PID of a stream of an      *)
(* audio or video type, or that its descriptors name as SMPTE 2064, and    *)
(* ends the process when a second stream uses the PID of one.  It has none *)
(* for a stream that is neither; of audio that only a descriptor of a      *)
(* private stream tells of nothing is said.                                *)
DemuxHasAll ==
  pghost.prog # << >> /\ D.index # << >> =>
    LET streams == FlattenSeq([i \in DOMAIN pghost.prog |->
                     IF pghost.prog[i].number = 0 THEN << >> ELSE pghost.prog[i].pmt.streams])
        kept == {i \in DOMAIN streams : streams[i].type \in {"audio", "video"} \/ "LIPS" \in ToSet(streams[i].descr)}
        open == {i \in DOMAIN streams : "audio" \in ToSet(streams[i].descr)}
        Twice(S) == \E i \in S, j \in DOMAIN streams : i < j /\ streams[i].pid = streams[j].pid
        PidsOf(S) == {streams[i].pid : i \in S}
    IN  /\ Cardinality(ToSet(D.index)) = Len(D.index) /\ ToSet(D.index) = DOMAIN D.pe
        /\ ~D.exited => PidsOf(kept) \subseteq ToSet(D.index)
        /\ ToSet(D.index) \subseteq PidsOf(kept \cup open)
        /\ Twice(kept) => D.exited
        /\ D.exited => Twice(kept \cup open)

(* The user was given whole PESs only, each once and those of a PID in     *)
(* order, and every one of every PID during which no loss was told; each   *)
(* PID's list holds those given of that PID of the last two seconds before *)
(* the newest, in order.                                                   *)
DemuxKeepsRecent ==
  D.index # << >> /\ ~D.exited /\ (\A pid \in DOMAIN D.pe : ~D.pe[pid].dead) =>
    \A pid \in EsPids \cap DOMAIN D.pe :
      LET called == PesOf(SelectSeq(D.called, LAMBDA c : c.pid = pid))
          given == SelectSeq(pghost.whole, LAMBDA w : w.pid = pid /\ w.pes \in ToSet(called))
          recent == SelectSeq(given, LAMBDA w : Last(given).at - w.at < ItemExpire)
      IN  /\ called = PesOf(given) /\ PesOf(D.list[pid]) = PesOf(recent)
          /\ \A w \in ToSet(pghost.whole) : w.pid = pid /\ w.sure => w \in ToSet(given)

(* Freeing the model of the decoder's buffer returns, unless the thread    *)
(* had not begun: it then clears the flag that would end it.               *)
VbvFreeReturns == vcpc = "join" /\ ~vghost.raced ~> vcpc = "freed"

(* PESs arrive: whole and in order at the callback of an extractor, and in *)
(* the lists of a demultiplexer.                                           *)
PesArrives ==
  /\ PesDeliveredWhole
  /\ PesOrdered
  /\ PesAbortsForSizeOnly
  /\ DemuxHasAll
  /\ DemuxKeepsRecent

(* The thread of the decoder's buffer drains it when it should, and ends   *)
(* when it is freed.                                                       *)
VbvThreadServes ==
  /\ VbvDrainsAfterDelay
  /\ VbvFreeReturns
=============================================================================

-------------------------------- MODULE Demux --------------------------------
(***************************************************************************)
(* demux.c and demux-pid.c: one PES extractor for each audio, video and    *)
(* SMPTE 2064 stream of a PAT, and the PESs of the last two seconds of     *)
(* each.  A demultiplexer D has its extractors by PID, the order in which  *)
(* they were made, and a list of items for each; called is a history of    *)
(* what the user's callback was given.                                     *)
(***************************************************************************)
EXTENDS PesExtractor, Pat

CONSTANT ItemExpire  \* ticks in ITEM_EXPIRE_MS

ASSUME DemuxAssumption == ItemExpire \in Nat \ {0}

Kept(s) == \/ s.type = "private" /\ ContainsSmpte2064(s.descr)
           \/ s.type # "private" /\ (IsAudio(s) \/ s.type = "video")

(* The extractor of a stream; that of SMPTE 2064 is given no PCR PID.      *)
ExtractorOf(pat, s) ==
  IF s.type = "private" \/ FirstPcrPid(pat) = 0 THEN PesAlloc(s.pid)
  ELSE SetPcrPid(PesAlloc(s.pid), FirstPcrPid(pat))

(* A stream of the PAT: a second one on the PID of an extractor ends the   *)
(* process.                                                                *)
AddStream(D, pat, s) ==
  IF D.exited THEN D
  ELSE IF s.pid \in DOMAIN D.pe THEN [D EXCEPT !.exited = TRUE]
  ELSE IF ~Kept(s) THEN D
  ELSE [D EXCEPT !.pe = @ @@ (s.pid :> ExtractorOf(pat, s)), !.index = Append(@, s.pid),
                 !.list = @ @@ (s.pid :> << >>)]

NoDemux == [pe |-> << >>, index |-> << >>, list |-> << >>, called |-> << >>, exited |-> FALSE]

(* ltntstools_demux_alloc_from_pat.                                        *)
DemuxAlloc(pat) ==
  LET programs == SelectSeq(pat.programs, LAMBDA p : p.number # 0)
  IN  FoldLeft(LAMBDA D, p : FoldLeft(LAMBDA C, s : AddStream(C, pat, s), D, p.pmt.streams),
               NoDemux, programs)

(* The items at the head of a list that are too old.                       *)
ExpireItems(list, at) ==
  LET young == {i \in DOMAIN list : at - list[i].at < ItemExpire}
  IN  IF young = {} THEN << >> ELSE SubSeq(list, Min(young), Len(list))

(* demux_pid_pe_callback.                                                  *)
PeCallback(D, pid, pes, at) ==
  [D EXCEPT !.list[pid] = ExpireItems(Append(@, [pes |-> pes, at |-> at]), at),
            !.called = Append(@, [pid |-> pid, pes |-> pes])]

(* ltntstools_demux_write, of one packet: it goes to every extractor.      *)
DemuxWrite(D, pkt, at) ==
  FoldLeft(LAMBDA C, pid :
             LET E == PesWrite(C.pe[pid], pkt, at)
                 new == SubSeq(E.out, Len(C.pe[pid].out) + 1, Len(E.out))
             IN  FoldLeft(LAMBDA B, pes : PeCallback(B, pid, pes, at), [C EXCEPT !.pe[pid] = E], new),
           D, D.index)

(* ltntstools_demux_free, demux_pid_uninit.                                *)
DemuxFree(D) == [NoDemux EXCEPT !.called = D.called]
=============================================================================

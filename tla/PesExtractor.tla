---------------------------- MODULE PesExtractor ----------------------------
(***************************************************************************)
(* pes-extractor.c, as operators on an extractor E.  A packet is one of    *)
(* StreamStats with its payload: size units of the PES it belongs to, and, *)
(* in the packet that starts a PES, its PTS and whether its header parses. *)
(* A unit of the ring is <<pes, packet>>.  The list of PCRs by position in *)
(* the ring is its newest entry: the ring was emptied before each, so that *)
(* all positions are 0.  The data of a PES is not kept (skipDataExtraction *)
(* changes nothing else), and preventWrites is 0, which no code changes.   *)
(***************************************************************************)
EXTENDS StreamStats

CONSTANTS
  RingSize,   \* units: the size at which the ring grows no more
  MinPes,     \* a PES has no fewer units (16 bytes)
  OrderDepth  \* ORDERED_LIST_DEPTH

ASSUME PesAssumption ==
  RingSize \in Nat \ {0} /\ MinPes \in Nat /\ OrderDepth \in Nat \ {0}

NoPes == [ring |-> << >>, pts |-> 0, pcr |-> 0, ms |-> 0]
EmptySlot == [corrected |-> 0, pes |-> NoPes]

(* ltntstools_pes_extractor_alloc.  out is a history of what the callback  *)
(* was given, dead is what abort leaves.                                   *)
PesAlloc(pid) ==
  [pid |-> pid, S |-> Register(StatsAlloc, "PUSI_DELIVERY_TIME"), appending |-> FALSE,
   ring |-> << >>, computed |-> 0, lastCC |-> 0, head |-> [pts |-> 0, ok |-> TRUE],
   ordered |-> FALSE, clock |-> CorrectedInit, slots |-> [i \in 1 .. OrderDepth |-> EmptySlot],
   pcr |-> 0, ms |-> 0, out |-> << >>, dead |-> FALSE, freed |-> FALSE]

SetOrdered(E, tf) == [E EXCEPT !.ordered = tf]
SetPcrPid(E, pid) == [E EXCEPT !.S = SetContainsPcr(E.S, pid)]

(* _list_insert: before the first later item or the first unused slot.     *)
ListInsert(slots, item) ==
  LET at == {i \in DOMAIN slots : item.corrected < slots[i].corrected \/ slots[i].pes = NoPes}
  IN  IF at = {} THEN Append(slots, item) ELSE InsertAt(slots, Min(at), item)

(* _list_find_oldest: the first of the lowest.                             *)
Oldest(slots) ==
  CHOOSE i \in DOMAIN slots :
    /\ \A j \in DOMAIN slots : slots[i].corrected <= slots[j].corrected
    /\ \A j \in 1 .. i - 1 : slots[i].corrected < slots[j].corrected

Emit(E, pes) == IF pes = NoPes THEN E ELSE [E EXCEPT !.out = Append(@, pes)]

(* The list takes the new PES into the slot of the oldest, which goes out. *)
Reorder(E, pes) ==
  LET i == Oldest(E.slots)
      clock == CorrectedUpdate(E.clock, pes.pts)
  IN  [Emit(E, E.slots[i].pes) EXCEPT !.clock = clock,
         !.slots = ListInsert(RemoveAt(E.slots, i), [corrected |-> clock.un, pes |-> pes])]

(* _processRing.                                                           *)
ProcessRing(E) ==
  LET pes == [ring |-> E.ring, pts |-> E.head.pts, pcr |-> E.pcr, ms |-> E.ms]
  IN  IF E.ring = << >> THEN E
      ELSE IF E.computed # Len(E.ring) \/ Len(E.ring) < MinPes THEN [E EXCEPT !.dead = TRUE]
      ELSE IF ~E.head.ok THEN E
      ELSE IF E.ordered THEN Reorder(E, pes) ELSE Emit(E, pes)

RbEmpty(E) == [E EXCEPT !.ring = << >>, !.computed = 0]

(* rb_write_with_state: what does not fit displaces the oldest.            *)
RbWrite(E, pkt) ==
  LET more == [k \in 1 .. pkt.size |-> <<pkt.pes, pkt.n>>]
      fits == Len(E.ring) + pkt.size <= RingSize
  IN  [E EXCEPT !.computed = @ + pkt.size,
                !.ring = (IF fits THEN @ ELSE SubSeq(@, pkt.size + 1, Len(@))) \o more]

(* notification_callback, of any PID.                                      *)
TakeDelivery(E, old, pid) ==
  IF E.S.heard["PUSI_DELIVERY_TIME"] = old THEN E ELSE [E EXCEPT !.ms = E.S.pids[pid].ms]

(* Deviation (used by mutation tests only): it goes on over a loss.        *)
CcRestartNever(E) == [E EXCEPT !.lastCC = E.S.st.cc]
(* A loss on any PID of the stream begins the PES anew.                    *)
CcRestart(E) ==
  IF E.lastCC = E.S.st.cc THEN E
  ELSE [RbEmpty(E) EXCEPT !.appending = FALSE, !.lastCC = E.S.st.cc]

(* A packet that starts a PES ends the one before it.                      *)
StartPes(E, pkt) ==
  LET F == RbEmpty(ProcessRing(E))
  IN  RbWrite([F EXCEPT !.pcr = F.S.bc.stc, !.head = [pts |-> pkt.pts, ok |-> pkt.ok]], pkt)

(* ltntstools_pes_extractor_write, of one packet.                          *)
PesWrite(E, pkt, at) ==
  LET F == TakeDelivery([E EXCEPT !.S = PidStatsUpdate(E.S, <<pkt>>, at)],
                        E.S.heard["PUSI_DELIVERY_TIME"], pkt.pid)
      G == CcRestart(F)
  IN  IF E.dead \/ E.freed THEN E
      ELSE IF pkt.pid # E.pid THEN F
      ELSE IF pkt.adap = 2 \/ (~pkt.pusi /\ ~G.appending) THEN G
      ELSE IF ~pkt.pusi THEN RbWrite(G, pkt)
      ELSE IF G.appending THEN StartPes(G, pkt)
      ELSE StartPes([RbEmpty(G) EXCEPT !.appending = TRUE], pkt)

(* _flushOrderedOutput: the oldest, until none is left.                    *)
Flush(E) ==
  FoldLeft(LAMBDA F, k : [Emit(F, F.slots[Oldest(F.slots)].pes) EXCEPT
                            !.slots = RemoveAt(F.slots, Oldest(F.slots))], E, E.slots)

(* ltntstools_pes_extractor_free.                                          *)
PesFree(E) ==
  [(IF E.ordered THEN Flush(E) ELSE E) EXCEPT !.freed = TRUE, !.slots = << >>]
=============================================================================

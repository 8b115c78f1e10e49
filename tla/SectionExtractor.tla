-------------------------- MODULE SectionExtractor --------------------------
(***************************************************************************)
(* sectionextractor.c: collects the sections of one table from the packets *)
(* of one PID, as operators on the extractor (a record x).  A packet is    *)
(* what follows its header, adaptation and pointer field: a sequence of    *)
(* cells, each a byte of some section s at position k; byte is the table   *)
(* id it would be taken for, len the section length (header included) that *)
(* would be read there.  A section is right (its CRC is) when it is the    *)
(* cells of one section from the first to the last.                        *)
(***************************************************************************)
EXTENDS Naturals, Sequences, SequencesExt, FiniteSetsExt

CONSTANT Cells  \* bytes copied from one packet at most (183)

ASSUME SectionAssumption == Cells \in Nat \ {0}

NoCell == [s |-> 0, k |-> 0, byte |-> 0, len |-> 1]

(* ltntstools_sectionextractor_alloc.                                      *)
SectionAlloc(pid, tid) ==
  [pid |-> pid, tid |-> tid, complete |-> FALSE, appending |-> FALSE, section |-> << >>, len |-> 0]

(* memcpy of n bytes, which may reach past the end of the packet.          *)
Taken(data, n) == [i \in 1 .. n |-> IF i \in DOMAIN data THEN data[i] ELSE NoCell]

CrcValid(section) ==
  /\ section # << >>
  /\ \A i \in DOMAIN section : section[i].s = section[1].s /\ section[i].k = i
  /\ section[1].s # 0 /\ Len(section) = section[1].len

(* Deviation (used by mutation tests only): a complete section that nobody *)
(* asked for stays.                                                        *)
NotWantedStays(x) == x
(* A packet that neither begins nor continues a section: the extractor     *)
(* forgets what it had.                                                    *)
NotWanted(x) == [x EXCEPT !.complete = FALSE, !.appending = FALSE]

CopyLength(x, starts, cell) ==
  IF starts THEN Min({cell.len, Cells}) ELSE Min({Cells, x.len - Len(x.section)})

(* ltntstools_sectionextractor_write_packet: x after it, and whether it    *)
(* completed a section, and a right one.                                   *)
WritePacket(x, p) ==
  LET starts == ~x.appending /\ ~x.complete /\ p.data[1].byte = x.tid
      goesOn == x.appending /\ ~x.complete
      begun == IF starts THEN [x EXCEPT !.appending = TRUE, !.section = << >>, !.len = p.data[1].len]
               ELSE x
      more == [begun EXCEPT !.section = @ \o Taken(p.data, CopyLength(begun, starts, p.data[1]))]
      whole == Len(more.section) = more.len
      none == [complete |-> FALSE, crcValid |-> FALSE]
  IN  IF ~p.sync \/ (p.pusi /\ p.late) THEN [x |-> x, out |-> none]
      ELSE IF ~starts /\ ~goesOn THEN [x |-> NotWanted(x), out |-> none]
      ELSE IF whole
           THEN [x |-> [more EXCEPT !.complete = TRUE, !.appending = FALSE],
                 out |-> [complete |-> TRUE, crcValid |-> CrcValid(more.section)]]
      ELSE [x |-> more, out |-> none]

(* ltntstools_sectionextractor_write: the packets of the PID in turn.  The *)
(* verdict on the CRC is that of the last of them.                         *)
SectionWrite(x, pkts) ==
  LET step(r, p) ==
        LET w == WritePacket(r.x, p)
        IN  IF p.pid # x.pid THEN r
            ELSE [x |-> w.x, out |-> [complete |-> r.out.complete \/ w.out.complete,
                                      crcValid |-> w.out.crcValid]]
      r == FoldLeft(step, [x |-> x, out |-> [complete |-> FALSE, crcValid |-> FALSE]], pkts)
  IN  IF r.out.complete THEN [r EXCEPT !.x.complete = TRUE] ELSE r

(* ltntstools_sectionextractor_query: the length of the header is added a  *)
(* second time, so three more bytes are asked for and returned.            *)
SectionQuery(x, room) ==
  IF ~x.complete \/ room < x.len + 3 THEN [x |-> x, got |-> << >>]
  ELSE [x |-> NotWanted(x), got |-> Taken(x.section, x.len + 3)]
=============================================================================

--------------------------------- MODULE Pat ---------------------------------
(***************************************************************************)
(* The PAT and PMT objects of pat.c and the descriptor lists of            *)
(* descriptor.c, as operators.  An object is one flat record, as in the    *)
(* code.  A descriptor is the name of what the code recognises it as, a    *)
(* stream type the class the code puts it into.  What libdvbpsi parsed is  *)
(* a table: the same record before the limits of the objects are applied.  *)
(* Allocations do not fail.                                                *)
(***************************************************************************)
EXTENDS Naturals, Sequences, SequencesExt, FiniteSetsExt

CONSTANTS
  PatMax,    \* LTNTSTOOLS_PAT_ENTRIES_MAX
  PmtMax,    \* LTNTSTOOLS_PMT_ENTRIES_MAX
  DescrMax   \* LTNTSTOOLS_DESCRIPTOR_ENTRIES_MAX

ASSUME PatAssumption == PatMax \in Nat \ {0} /\ PmtMax \in Nat \ {0} /\ DescrMax \in Nat

(* ltntstools_descriptor_list_add, and the questions asked of a list.      *)
DescrAdd(list, d) == IF Len(list) = DescrMax THEN list ELSE Append(list, d)
ContainsScte35(list) == "CUEI" \in ToSet(list)
ContainsSmpte2064(list) == "LIPS" \in ToSet(list)
ContainsTeletext(list) == "teletext" \in ToSet(list)
ContainsSmpte2038(list) == ToSet(list) \cap {"SMPTE2038", "VANC", "anc"} # {}

(* freed: the descriptor lists left behind in the entries of the array     *)
(* that are not in use.                                                    *)
NewPmt == [version |-> 0, number |-> 0, cni |-> 0, pcr |-> 0, streams |-> << >>, descr |-> << >>,
           freed |-> [i \in 1 .. PmtMax |-> << >>]]

(* ltntstools_pat_alloc_from_existing.                                     *)
PatOf(table) ==
  [ts |-> table.ts, version |-> table.version, cni |-> table.cni,
   programs |-> [i \in 1 .. Min({Len(table.programs), PatMax}) |->
                   [number |-> table.programs[i].number, pid |-> table.programs[i].pid,
                    pmt |-> NewPmt, service |-> "none"]]]

(* A stream goes into the next entry, if there is one.  Its descriptors    *)
(* are added to those that an earlier stream left in the entry.            *)
AddEs(pmt, s) ==
  LET k == Len(pmt.streams) + 1
  IN  IF k > PmtMax THEN pmt
      ELSE [pmt EXCEPT !.streams = Append(@, [s EXCEPT !.descr = FoldLeft(DescrAdd, pmt.freed[k], @)]),
                       !.freed[k] = << >>]

(* ltntstools_pat_add_from_existing: the first program with its number.    *)
AddPmt(pat, m) ==
  LET at == {i \in DOMAIN pat.programs : pat.programs[i].number = m.number}
      header(pmt) == [pmt EXCEPT !.version = m.version, !.number = m.number, !.cni = m.cni,
                                 !.pcr = m.pcr, !.descr = FoldLeft(DescrAdd, @, m.descr)]
  IN  IF at = {} THEN pat
      ELSE [pat EXCEPT !.programs[Min(at)].pmt = FoldLeft(AddEs, header(@), m.streams)]

-----------------------------------------------------------------------------
(* ltntstools_pmt_entry_compare, _pmt_compare, _pat_program_compare and    *)
(* _pat_compare.  TRUE stands for 0, identical.                            *)
EntryCompare(a, b) == a.type = b.type /\ a.pid = b.pid

(* Deviation: a stream that was appended is not noticed.                   *)
PmtComparePrefix(a, b) ==
  /\ a.version = b.version /\ a.number = b.number /\ a.pcr = b.pcr /\ a.cni = b.cni
  /\ \A i \in DOMAIN a.streams \cap DOMAIN b.streams : EntryCompare(a.streams[i], b.streams[i])
PmtCompare(a, b) ==
  /\ a.version = b.version /\ a.number = b.number /\ a.pcr = b.pcr /\ a.cni = b.cni
  /\ Len(a.streams) = Len(b.streams)
  /\ \A i \in DOMAIN a.streams : EntryCompare(a.streams[i], b.streams[i])

ProgramCompare(a, b) == a.number = b.number /\ a.pid = b.pid /\ PmtCompare(a.pmt, b.pmt)

PatCompare(a, b) ==
  /\ a.ts = b.ts /\ a.version = b.version /\ a.cni = b.cni
  /\ Len(a.programs) = Len(b.programs)
  /\ \A i \in DOMAIN a.programs : ProgramCompare(a.programs[i], b.programs[i])

(* ltntstools_pmt_remove_es_for_pid: the entry that gets free is the last, *)
(* and keeps what was in it.                                               *)
RemoveEs(pmt, pid) ==
  LET at == {i \in DOMAIN pmt.streams : pmt.streams[i].pid = pid}
      n == Len(pmt.streams)
  IN  IF at = {} THEN pmt
      ELSE [pmt EXCEPT !.streams = RemoveAt(@, Min(at)), !.freed[n] = pmt.streams[n].descr]

-----------------------------------------------------------------------------
(* Questions asked of a PMT.  ltntstools_pmt_query_video_pid, ltntstools_  *)
(* pmt_entry_is_audio, ltntstools_pmt_enum_services_audio.                 *)
VideoStreams(pmt) == SelectSeq(pmt.streams, LAMBDA s : s.type = "video")
IsAudio(s) == s.type = "audio" \/ (s.type = "private" /\ "audio" \in ToSet(s.descr))
AudioStreams(pmt) == SelectSeq(pmt.streams, IsAudio)

(* ltntstools_pat_get_services_teletext: the PIDs, program by program.     *)
TeletextPids(pat) ==
  FlattenSeq([i \in DOMAIN pat.programs |->
    LET with == SelectSeq(pat.programs[i].pmt.streams, LAMBDA s : ContainsTeletext(s.descr))
    IN  [k \in DOMAIN with |-> with[k].pid]])

(* ltntstools_streammodel_is_model_mpts, _query_first_program_pcr_pid      *)
(* (0 stands for none).                                                    *)
IsMpts(pat) == Cardinality({i \in DOMAIN pat.programs : pat.programs[i].number # 0}) > 1
FirstPcrPid(pat) ==
  LET at == {i \in DOMAIN pat.programs : /\ pat.programs[i].number # 0
                                         /\ pat.programs[i].pmt.streams # << >>
                                         /\ pat.programs[i].pmt.pcr # 0}
  IN  IF at = {} THEN 0 ELSE pat.programs[Min(at)].pmt.pcr

-----------------------------------------------------------------------------
(* The enumerators.  e is the caller's cursor; a call answers with the     *)
(* position of a program (0 for none) and the new cursor.                  *)

(* What the video, teletext, SMPTE 2038 and by-PID enumerators have in     *)
(* common: the first program from the cursor on.                           *)
FirstFrom(pat, e, wanted) ==
  LET at == {i \in e + 1 .. Len(pat.programs) : i \in wanted}
  IN  IF at = {} THEN [found |-> 0, e |-> Max({e, Len(pat.programs)})]
      ELSE [found |-> Min(at), e |-> Min(at)]

Programs(pat, P(_)) == {i \in DOMAIN pat.programs : P(pat.programs[i])}
HasVideo(p) == VideoStreams(p.pmt) # << >>
HasAudio(p) == AudioStreams(p.pmt) # << >>
HasTeletext(p) == \E i \in DOMAIN p.pmt.streams : ContainsTeletext(p.pmt.streams[i].descr)
HasSmpte2038(p) ==
  /\ p.pmt.number # 0
  /\ \E i \in DOMAIN p.pmt.streams :
       p.pmt.streams[i].type = "private" /\ ContainsSmpte2038(p.pmt.streams[i].descr)
HasScte35(p) ==
  ContainsScte35(p.pmt.descr) /\ \E i \in DOMAIN p.pmt.streams : p.pmt.streams[i].type = "scte35"

EnumVideo(pat, e) == FirstFrom(pat, e, Programs(pat, HasVideo))
EnumTeletext(pat, e) == FirstFrom(pat, e, Programs(pat, HasTeletext))
EnumSmpte2038(pat, e) == FirstFrom(pat, e, Programs(pat, HasSmpte2038))
EnumPid(pat, e, pid) == FirstFrom(pat, e, Programs(pat, LAMBDA p : p.pid = pid))

(* ltntstools_pat_enum_services_audio looks at as many entries as there    *)
(* are programs, wherever the cursor is.  Past the programs the entries    *)
(* are empty, as long as they are entries: the cursor of a walk over n     *)
(* programs gets as far as entry 2n - 1, and an array that is shorter is   *)
(* read past its end, which is left out here (WalksStayInArray).           *)
WalksStayInArray(pat) == 2 * Len(pat.programs) - 1 <= PatMax
EnumAudio(pat, e) ==
  LET r == FirstFrom(pat, e, Programs(pat, HasAudio))
  IN  IF e + 1 > Len(pat.programs) THEN [found |-> 0, e |-> e]
      ELSE IF r.found = 0 THEN [r EXCEPT !.e = e + Len(pat.programs)] ELSE r

(* ltntstools_pat_enum_services_scte35 likewise; its cursor does not get   *)
(* past a program that is registered and has no stream of SCTE 35.         *)
EnumScte35(pat, e) ==
  LET r == FirstFrom(pat, e, Programs(pat, LAMBDA p : ContainsScte35(p.pmt.descr)))
  IN  IF e + 1 > Len(pat.programs) THEN [found |-> 0, e |-> e]
      ELSE IF r.found = 0 THEN [r EXCEPT !.e = e + Len(pat.programs)]
      ELSE IF HasScte35(pat.programs[r.found]) THEN r
      ELSE [found |-> 0, e |-> r.found - 1]

-----------------------------------------------------------------------------
(* The byte of a section with its version and current_next indicator as    *)
(* the code computes it: the version is compared with 1, not shifted.      *)
VersionField(version, cni) ==
  [version |-> 0, cni |-> IF (version % 32) < 1 \/ cni = 1 THEN 1 ELSE 0]

(* ltntstools_pat_create_packet_ts, ltntstools_pmt_create_packet_ts: the   *)
(* section of the packet.  The numbers of a PAT are those of its PMTs.     *)
PatSection(pat) ==
  [ts |-> pat.ts % 65536, version |-> VersionField(pat.version, pat.cni).version,
   cni |-> VersionField(pat.version, pat.cni).cni,
   programs |-> [i \in DOMAIN pat.programs |->
                   [number |-> pat.programs[i].pmt.number, pid |-> pat.programs[i].pid % 8192]]]
PmtSection(pmt) ==
  [version |-> VersionField(pmt.version, pmt.cni).version, number |-> pmt.number,
   cni |-> VersionField(pmt.version, pmt.cni).cni, pcr |-> pmt.pcr % 8192,
   streams |-> pmt.streams, descr |-> pmt.descr]
(* ltntstools_pmt_create_packet_ts2 has libdvbpsi write the section.       *)
PmtSection2(pmt) == [PmtSection(pmt) EXCEPT !.version = pmt.version % 32, !.cni = pmt.cni]
=============================================================================

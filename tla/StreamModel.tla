---------------------------- MODULE StreamModel ----------------------------
(***************************************************************************)
(* streammodel.c and streammodel-extractors.c: two models (roms) of a      *)
(* stream, the current one that is queried and the next one that is being  *)
(* collected, as operators on the whole object (a record M).  libdvbpsi is *)
(* external: a parser calls back with the first table it is given and with *)
(* every later one of another version.  Times are what is left of them, in *)
(* ticks of 500 ms.  Whether the continuity counter of a PAT packet        *)
(* follows that of the one before is part of the packet (gap), as is the   *)
(* table it completes.  The version number is not kept: it is incremented  *)
(* where modelChanged is set, and nowhere else.                            *)
(***************************************************************************)
EXTENDS Pat

CONSTANTS
  SettleTime,   \* 500 ms: before the next model is written to
  CollectTime,  \* 1 s: in which all PMTs must arrive
  RescanTime,   \* 15 s: after a model that did not change
  SdtMax,       \* MAX_SDT_ENTRIES
  MaxParsers    \* MAX_PID_PARSERS

ASSUME StreamModelAssumption ==
  /\ SettleTime \in Nat /\ CollectTime \in Nat /\ RescanTime \in Nat
  /\ SdtMax \in Nat /\ MaxParsers \in Nat \ {0}

SdtPid == 17
NoTable == [version |-> -1]

(* Deviation (used by mutation tests only): the count of programs stays.   *)
RomInitKeeps(rom) ==
  [rom EXCEPT !.complete = FALSE, !.pat = NoTable, !.parsers = << >>, !.parsed = 0, !.left = -1,
              !.sdtVersion = -1]
(* _rom_initialize.  What it leaves alone: the services and the time from  *)
(* which it may be written to.                                             *)
RomInit(rom) ==
  [rom EXCEPT !.complete = FALSE, !.pat = NoTable, !.parsers = << >>, !.total = 0, !.parsed = 0,
              !.left = -1, !.sdtVersion = -1]
RomNew == [complete |-> FALSE, pat |-> NoTable, parsers |-> << >>, total |-> 0, parsed |-> 0,
           left |-> -1, wait |-> 0, sdtVersion |-> -1, sdt |-> << >>]

(* _rom_activate.                                                          *)
RomActivate(M) ==
  [M EXCEPT !.current = M.next, !.next = [RomInit(M.current) EXCEPT !.wait = SettleTime]]

(* ltntstools_streammodel_alloc.  The clock of the object still stands at  *)
(* zero: the first model is written to from the first write on.            *)
ModelAlloc ==
  [RomActivate([current |-> RomNew, next |-> RomNew, changed |-> FALSE, restart |-> FALSE,
                reason |-> 0, seenPat |-> FALSE, writing |-> FALSE, stopped |-> FALSE,
                announced |-> FALSE, crcs |-> FALSE, se |-> << >>]) EXCEPT !.next.wait = 0]

-----------------------------------------------------------------------------
(* streammodel-extractors.c: the table of section extractors.  The first   *)
(* nine are found by their position.                                       *)
FixedTables == <<<<0, "PAT">>, <<16, "NIT">>, <<SdtPid, "BAT">>, <<SdtPid, "SDT">>, <<18, "EIT4E">>,
                 <<18, "EIT4F">>, <<18, "EIT5F">>, <<18, "EIT6F">>, <<20, "TOT">>>>
FixedAt == [pid \in {0, 16, 17, 18, 20} |->
              CASE pid = 0 -> {1} [] pid = 16 -> {2} [] pid = 17 -> {3, 4}
                [] pid = 18 -> 5 .. 8 [] pid = 20 -> {9}]

(* extractors_add: a PMT's PID is entered once.                            *)
ExtractorsAdd(se, pid, table) ==
  IF table = "PMT" /\ \E i \in DOMAIN se : i > Len(FixedTables) /\ se[i][1] = pid
  THEN se ELSE Append(se, <<pid, table>>)

(* extractors_alloc, before the first write that needs it.                 *)
ExtractorsAlloc(M) == IF M.crcs /\ M.se = << >> THEN [M EXCEPT !.se = FixedTables] ELSE M

(* extractors_write: the positions a packet of a PID is written to.        *)
ExtractorsFor(se, pid) ==
  IF pid \in DOMAIN FixedAt THEN FixedAt[pid] ELSE Len(FixedTables) + 1 .. Len(se)

(* ltntstools_streammodel_enable_tr101290_section_checks.                  *)
EnableChecks(M) == [M EXCEPT !.crcs = TRUE]

-----------------------------------------------------------------------------
(* _streammodel_query_model: of a rom that is complete.                    *)
Service(rom, number) ==
  LET at == {i \in DOMAIN rom.sdt : rom.sdt[i].id = number}
  IN  IF at = {} THEN "none" ELSE rom.sdt[Min(at)].name
ParsersOf(rom, pid) == SelectSeq(rom.parsers, LAMBDA q : q.pid = pid)
RomQuery(rom) ==
  LET name(p) == [p EXCEPT !.service = IF p.number = 0 THEN @ ELSE Service(rom, p.number)]
      named == [PatOf(rom.pat) EXCEPT !.programs = [i \in DOMAIN @ |-> name(@[i])]]
      add(pat, p) ==
        FoldLeft(LAMBDA q, parser : IF parser.table # NoTable /\ parser.number = p.number
                                    THEN AddPmt(q, parser.table) ELSE q,
                 pat, ParsersOf(rom, p.pid))
  IN  FoldLeft(LAMBDA pat, p : IF p.number = 0 THEN pat ELSE add(pat, p), named, named.programs)

(* ltntstools_streammodel_query_model; NoTable stands for -1.              *)
ModelQuery(M) ==
  IF M.current.complete /\ M.current.pat # NoTable THEN RomQuery(M.current) ELSE NoTable

(* Deviation: a model is new when it is complete.                          *)
RomComparedNew(M) == [M EXCEPT !.changed = TRUE]
(* _rom_compare_current_next: is the model that was collected a new one?   *)
(* It is without a current one, when they differ, and after a loss on the  *)
(* PAT's PID even when they do not.                                        *)
RomCompared(M) ==
  LET same == ModelQuery(M) # NoTable /\ PatCompare(ModelQuery(M), RomQuery(M.next))
  IN  IF ~same THEN [M EXCEPT !.changed = TRUE]
      ELSE IF M.reason = 1 THEN [M EXCEPT !.changed = TRUE, !.reason = 0]
      ELSE M

(* _rom_next_complete: a model that did not change is collected anew.      *)
RestartUnchanged(C) == IF C.changed THEN C ELSE [C EXCEPT !.reason = 0, !.restart = TRUE]
NextComplete(M) == RestartUnchanged(RomCompared([M EXCEPT !.next.complete = TRUE]))

(* Deviation: the model is complete one PMT early.                         *)
PmtCountedEarly(M) == IF M.next.parsed + 1 >= M.next.total THEN NextComplete(M) ELSE M
(* cb_pmt: the callbacks are counted, not the programs.                    *)
PmtCounted(M) == IF M.next.parsed = M.next.total THEN NextComplete(M) ELSE M
CbPmt(M, i, table) ==
  PmtCounted([M EXCEPT !.next.parsers[i].table = table, !.next.parsed = @ + 1])

(* A parser for a program, in the first free place of its PID or, when     *)
(* there is none, in the first.                                            *)
AddParser(parsers, prg) ==
  LET mine == {i \in DOMAIN parsers : parsers[i].pid = prg.pid}
      new == [pid |-> prg.pid, number |-> prg.number, table |-> NoTable]
  IN  IF Cardinality(mine) < MaxParsers THEN Append(parsers, new)
      ELSE [parsers EXCEPT ![Min(mine)] = new]

(* cb_pat.                                                                 *)
CbPat(M, table) ==
  LET real == SelectSeq(table.programs, LAMBDA prg : prg.number > 0)
  IN  IF M.next.total # 0 /\ M.next.pat.version # table.version /\ table.cni = 1
      THEN [M EXCEPT !.restart = TRUE]
      ELSE [M EXCEPT !.next.pat = table, !.next.left = CollectTime, !.next.total = Len(real),
                     !.next.parsers = FoldLeft(AddParser, @, real),
                     !.se = IF M.crcs
                            THEN FoldLeft(LAMBDA se, prg : ExtractorsAdd(se, prg.pid, "PMT"), @, real)
                            ELSE @]

(* cb_sdt, sdt_add: a service that is not there yet, while there is room.  *)
SdtAdd(sdt, service) ==
  IF Len(sdt) >= SdtMax \/ service \in ToSet(sdt) THEN sdt ELSE Append(sdt, service)

-----------------------------------------------------------------------------
(* The first loop of a write: losses on the PAT's PID, and the SDT, which  *)
(* is looked at all the time: the first one and each of a new version.     *)
LookAt(M, p) ==
  CASE p.kind = "pat" /\ M.seenPat /\ p.gap ->
         [M EXCEPT !.restart = TRUE, !.reason = 1, !.writing = TRUE]
    [] p.kind = "pat" /\ ~(M.seenPat /\ p.gap) -> [M EXCEPT !.seenPat = TRUE]
    [] p.kind = "sdt" ->
         IF M.next.sdtVersion = p.version THEN M
         ELSE [M EXCEPT !.next.sdtVersion = p.version, !.next.sdt = FoldLeft(SdtAdd, @, p.services)]
    [] OTHER -> M

(* What the parsers do with a packet.                                      *)
Parse(M, p) ==
  LET fresh == {i \in DOMAIN M.next.parsers :
                  /\ p.kind = "pmt" /\ M.next.parsers[i].pid = p.pid
                  /\ M.next.parsers[i].number = p.table.number
                  /\ M.next.parsers[i].table.version # p.table.version}
  IN  IF p.kind = "pat" /\ p.table.version # M.next.pat.version THEN CbPat(M, p.table)
      ELSE FoldLeft(LAMBDA T, i : CbPmt(T, i, p.table), M, SetToSortSeq(fresh, <))

RestartModel(M) ==
  [M EXCEPT !.restart = FALSE,
            !.next = [RomInit(@) EXCEPT !.wait = IF M.reason = 1 THEN SettleTime ELSE RescanTime]]

(* The second loop, until a restart ends it.                               *)
StopOnRestart(M) == IF M.restart THEN [RestartModel(M) EXCEPT !.stopped = TRUE] ELSE M
Collect(M, p) ==
  IF M.stopped \/ ~M.writing \/ p.kind = "sdt" THEN M ELSE StopOnRestart(Parse(M, p))

(* The PMTs did not all arrive in time.                                    *)
GiveUp(M) == [M EXCEPT !.next = RomInit(@), !.writing = TRUE, !.current.complete = FALSE]

(* ltntstools_streammodel_write, which ends with a switch to a new model.  *)
Announce(M) ==
  IF M.changed THEN [RomActivate(M) EXCEPT !.announced = TRUE, !.changed = FALSE]
  ELSE [M EXCEPT !.announced = FALSE]
ModelWrite(M, pkts) ==
  LET begun == [M EXCEPT !.writing = (M.next.wait = 0), !.stopped = FALSE]
      late == M.next.left = 0 /\ M.next.total # 0 /\ M.next.parsed < M.next.total
      ready == ExtractorsAlloc(IF late THEN GiveUp(begun) ELSE begun)
  IN  Announce(FoldLeft(Collect, FoldLeft(LookAt, ready, pkts), pkts))

(* 500 ms go by.                                                           *)
ModelTick(M) ==
  [M EXCEPT !.next.wait = IF @ > 0 THEN @ - 1 ELSE 0, !.next.left = IF @ > 0 THEN @ - 1 ELSE @]
=============================================================================

------------------------------ MODULE MCTables ------------------------------
(***************************************************************************)
(* The tables of a stream: PAT objects that are filled and walked over     *)
(* ("pat"), a section extractor behind a lossy channel ("section"), and    *)
(* the stream model on a stream that is switched from one line-up to       *)
(* another ("model").  A behaviour is of one kind.                         *)
(***************************************************************************)
EXTENDS StreamModel, SectionExtractor, TLC

CONSTANTS Kinds, Lineups, MaxAdds, MaxPackets, MaxSwitches, MaxLosses

VARIABLES
  kind,
  P,    \* two PAT objects, and a walk over the first
  X,    \* the extractor, the channel and what is known of the sections sent
  M,    \* the stream model
  env,  \* the stream it is given
  pos   \* where in its cycle the stream is

vars == <<kind, P, X, M, env, pos>>

-----------------------------------------------------------------------------
(* PAT objects.                                                            *)
Stream(type, pid, descr) == [type |-> type, pid |-> pid, descr |-> descr]
Table(number, version, pcr, streams, descr) ==
  [number |-> number, version |-> version, cni |-> 1, pcr |-> pcr, streams |-> streams, descr |-> descr]
PatTable == [ts |-> 1, version |-> 0, cni |-> 1,
             programs |-> <<[number |-> 0, pid |-> 16], [number |-> 1, pid |-> 32], [number |-> 2, pid |-> 32],
                            [number |-> 3, pid |-> 34]>>]
PmtTables ==
  { Table(1, 0, 48, <<Stream("video", 48, << >>), Stream("private", 49, <<"teletext">>)>>, << >>),
    Table(2, 0, 0, <<Stream("private", 50, <<"audio", "VANC">>)>>, <<"CUEI">>),
    Table(2, 0, 0, <<Stream("private", 50, <<"audio">>), Stream("scte35", 51, << >>)>>, <<"CUEI">>),
    Table(3, 1, 52, <<Stream("audio", 52, << >>), Stream("video", 53, <<"teletext">>)>>, << >>),
    Table(3, 1, 52, <<Stream("audio", 52, << >>), Stream("video", 53, << >>)>>, << >>),
    Table(3, 1, 52, <<Stream("audio", 52, << >>)>>, <<"CUEI">>) }
(* No walk leaves the array of programs.                                   *)
ASSUME TablesAssumption == WalksStayInArray(PatOf(PatTable))

Walks == {"video", "audio", "teletext", "smpte2038", "pid", "scte35"}
NoWalk == "none"

Enum(pat, walk, e) ==
  CASE walk = "video" -> EnumVideo(pat, e) [] walk = "audio" -> EnumAudio(pat, e)
    [] walk = "teletext" -> EnumTeletext(pat, e) [] walk = "smpte2038" -> EnumSmpte2038(pat, e)
    [] walk = "pid" -> EnumPid(pat, e, 32) [] walk = "scte35" -> EnumScte35(pat, e)

PInit == [a |-> PatOf(PatTable), b |-> PatOf(PatTable), adds |-> 0, walk |-> NoWalk, e |-> 0,
          seen |-> << >>, done |-> FALSE]

Fill ==
  /\ kind = "pat" /\ P.walk = NoWalk /\ P.adds < MaxAdds
  /\ \E m \in PmtTables :
       \/ P' = [P EXCEPT !.a = AddPmt(@, m), !.adds = @ + 1]
       \/ P' = [P EXCEPT !.b = AddPmt(@, m), !.adds = @ + 1]
       \/ \E i \in DOMAIN P.a.programs, pid \in {50, 52} :
            P' = [P EXCEPT !.a.programs[i].pmt = RemoveEs(@, pid), !.adds = @ + 1]
  /\ UNCHANGED <<kind, X, M, env, pos>>

Walk ==
  /\ kind = "pat" /\ ~P.done
  /\ \E w \in IF P.walk = NoWalk THEN Walks ELSE {P.walk} :
       LET r == Enum(P.a, w, P.e)
       IN  P' = [P EXCEPT !.walk = w, !.e = r.e, !.done = (r.found = 0),
                          !.seen = IF r.found = 0 THEN @ ELSE Append(@, r.found)]
  /\ UNCHANGED <<kind, X, M, env, pos>>

-----------------------------------------------------------------------------
(* Sections of table 1, of lengths that need one to three packets, behind  *)
(* one another; table 2 is another one on the same PID.                    *)
SectionLen == [s \in 1 .. 4 |-> CASE s = 1 -> Cells [] s = 2 -> 2 * Cells - 1 [] s = 3 -> 3 * Cells [] s = 4 -> Cells - 1]
TableOf(s) == IF s = 4 THEN 2 ELSE 1
SectionCells(s) ==
  [k \in 1 .. SectionLen[s] |->
     [s |-> s, k |-> k, byte |-> IF k = 1 THEN TableOf(s) ELSE 0, len |-> SectionLen[s]]]
(* The first packet of a section has room for Cells of it, later ones for  *)
(* one more.                                                               *)
Carried(s, k) == SubSeq(SectionCells(s), k, Min({SectionLen[s], k + IF k = 1 THEN Cells - 1 ELSE Cells}))

XInit == [x |-> SectionAlloc(7, 1), s |-> 0, k |-> 1, sent |-> 0, clean |-> FALSE, run |-> 0,
          out |-> [complete |-> FALSE, crcValid |-> FALSE], found |-> FALSE, due |-> FALSE]

(* The next packet of the section under way, or the first of a new one,    *)
(* arrives, is lost, or comes without a sync byte.  clean: the extractor   *)
(* was idle when the section began, and nothing was lost since.  run: how  *)
(* many one-packet sections arrived since the last right one.              *)
SendPacket ==
  /\ kind = "section" /\ X.sent < MaxPackets
  /\ \E s \in IF X.s = 0 THEN 1 .. 4 ELSE {X.s}, fate \in {"arrives", "lost", "nosync"} :
       LET data == Carried(s, X.k)
           p == [pid |-> 7, sync |-> fate = "arrives", pusi |-> X.k = 1, late |-> FALSE, data |-> data]
           w == SectionWrite(X.x, <<p>>)
           r == IF fate = "lost" THEN [x |-> X.x, out |-> XInit.out] ELSE w
           ends == X.k + Len(data) > SectionLen[s]
           clean == /\ fate = "arrives" /\ TableOf(s) = 1
                    /\ IF X.k = 1 THEN ~X.x.appending /\ ~X.x.complete ELSE X.clean
           good == r.out.complete /\ r.out.crcValid
       IN  X' = [x |-> r.x, s |-> IF ends THEN 0 ELSE s, k |-> IF ends THEN 1 ELSE X.k + Len(data),
                 sent |-> X.sent + 1, clean |-> clean, out |-> r.out,
                 run |-> IF good THEN 0 ELSE IF s = 1 /\ fate = "arrives" THEN X.run + 1 ELSE X.run,
                 found |-> good /\ r.x.section = SectionCells(s),
                 due |-> clean /\ ends /\ SectionLen[s] <= 2 * Cells]
  /\ UNCHANGED <<kind, P, M, env, pos>>

(* The caller takes a section that is complete.                            *)
TakeSection ==
  /\ kind = "section" /\ X.x.complete
  /\ \E room \in {Cells, 3 * Cells + 3} :
       X' = [X EXCEPT !.x = SectionQuery(X.x, room).x, !.clean = FALSE, !.out = XInit.out,
                      !.found = FALSE, !.due = FALSE]
  /\ UNCHANGED <<kind, P, M, env, pos>>

-----------------------------------------------------------------------------
(* Line-ups: a PAT and the PMTs that go with it.                           *)
PmtA1 == Table(1, 0, 48, <<Stream("video", 48, << >>)>>, << >>)
PmtA2 == Table(2, 0, 49, <<Stream("audio", 49, << >>)>>, << >>)
PmtB3 == Table(3, 0, 50, <<Stream("video", 50, << >>), Stream("audio", 51, << >>)>>, << >>)
LineupA == [pat |-> [ts |-> 1, version |-> 0, cni |-> 1,
                     programs |-> <<[number |-> 0, pid |-> 16], [number |-> 1, pid |-> 32], [number |-> 2, pid |-> 33]>>],
            pmts |-> <<PmtA1, PmtA2>>, name |-> "one"]
LineupB == [pat |-> [ts |-> 1, version |-> 1, cni |-> 1,
                     programs |-> <<[number |-> 1, pid |-> 32], [number |-> 3, pid |-> 34]>>],
            pmts |-> <<PmtA1, PmtB3>>, name |-> "two"]
(* LineupA after an update of its first PMT.                               *)
LineupC == [LineupA EXCEPT !.pmts[1] = Table(1, 1, 48, <<Stream("video", 48, << >>), Stream("audio", 52, << >>)>>, << >>)]
Replaced == {LineupA, LineupB}
Updated == {LineupA, LineupC}

PidOf(l, number) == (CHOOSE p \in ToSet(l.pat.programs) : p.number = number).pid
Cycle(l) ==
  <<[kind |-> "pat", table |-> l.pat]>>
  \o [i \in DOMAIN l.pmts |-> [kind |-> "pmt", pid |-> PidOf(l, l.pmts[i].number), table |-> l.pmts[i]]]
  \o <<[kind |-> "sdt", version |-> l.pat.version, services |-> <<[id |-> 1, name |-> l.name], [id |-> 3, name |-> "three"]>>]>>

EnvInit(l) == [lineup |-> l, switches |-> 0, losses |-> 0, gap |-> FALSE, owed |-> 0, right |-> FALSE]

(* right: the model N is that of the line-up l.                            *)
ModelIsOf(N, l) ==
  ModelQuery(N) # NoTable /\ PatCompare(ModelQuery(N), FoldLeft(AddPmt, PatOf(l.pat), l.pmts))

(* The packets from pos to last, in one call; with a loss the last of them *)
(* does not arrive.                                                        *)
Broadcast(last, lost) ==
  LET got == SubSeq(Cycle(env.lineup), pos, IF lost THEN last - 1 ELSE last)
      pkts == [i \in DOMAIN got |-> IF got[i].kind = "pat" THEN got[i] @@ [gap |-> env.gap] ELSE got[i]]
      lostPat == lost /\ Cycle(env.lineup)[last].kind = "pat"
      gap == IF lostPat THEN TRUE ELSE IF pos = 1 THEN FALSE ELSE env.gap
      forced == pos = 1 /\ env.gap /\ pkts # << >>
      late == M.next.left = 0 /\ M.next.parsed < M.next.total /\ pkts # << >>
      same(Q, W) == W.announced /\ Q # NoTable /\ PatCompare(Q, ModelQuery(W))
  IN  /\ M' = IF pkts = << >> THEN [M EXCEPT !.announced = FALSE] ELSE ModelWrite(M, pkts)
      /\ pos' = last + 1
      /\ env' = [env EXCEPT !.gap = gap, !.losses = @ + IF lost THEN 1 ELSE 0,
                            !.right = ModelIsOf(M', env.lineup),
                            !.owed = @ + (IF forced \/ late THEN 1 ELSE 0)
                                       - (IF same(ModelQuery(M), M') THEN 1 ELSE 0)]

Air ==
  /\ kind = "model" /\ pos <= Len(Cycle(env.lineup))
  /\ \E last \in {pos, Len(Cycle(env.lineup))}, lost \in BOOLEAN :
       (lost => env.losses < MaxLosses) /\ Broadcast(last, lost)
  /\ UNCHANGED <<kind, P, X>>

HalfSecond ==
  /\ kind = "model" /\ pos > Len(Cycle(env.lineup))
  /\ M' = [ModelTick(M) EXCEPT !.announced = FALSE]
  /\ pos' = 1 /\ UNCHANGED <<kind, P, X, env>>

SwitchLineup ==
  /\ kind = "model" /\ env.switches < MaxSwitches
  /\ \E l \in Lineups \ {env.lineup} :
       env' = [env EXCEPT !.lineup = l, !.switches = @ + 1, !.right = ModelIsOf(M, l)]
  /\ M' = [M EXCEPT !.announced = FALSE]
  /\ UNCHANGED <<kind, P, X, pos>>

Enable ==
  /\ kind = "model" /\ ~M.crcs /\ pos = 2
  /\ M' = [EnableChecks(M) EXCEPT !.announced = FALSE] /\ UNCHANGED <<kind, P, X, env, pos>>

-----------------------------------------------------------------------------
Init ==
  /\ kind \in Kinds
  /\ P = PInit /\ X = XInit /\ M = ModelAlloc /\ pos = 1
  /\ env \in {EnvInit(l) : l \in IF kind = "model" THEN Lineups ELSE {LineupA}}

Next == Fill \/ Walk \/ SendPacket \/ TakeSection \/ Air \/ HalfSecond \/ SwitchLineup \/ Enable

(* The stream goes on: packets keep coming and time passes (every step of  *)
(* the stream moves pos, and one is always possible).  Whether anything is *)
(* switched or lost is left open.                                          *)
StreamGoesOn == kind = "model" /\ pos' \in 1 .. 6
Spec == Init /\ [][Next]_vars /\ WF_pos(StreamGoesOn)

-----------------------------------------------------------------------------
Wanted(pat, walk) ==
  CASE walk = "video" -> Programs(pat, HasVideo) [] walk = "audio" -> Programs(pat, HasAudio)
    [] walk = "teletext" -> Programs(pat, HasTeletext)
    [] walk = "smpte2038" -> Programs(pat, HasSmpte2038)
    [] walk = "pid" -> Programs(pat, LAMBDA p : p.pid = 32)
    [] walk = "scte35" -> Programs(pat, HasScte35)
BareScte35(pat) == Programs(pat, LAMBDA p : ContainsScte35(p.pmt.descr) /\ ~HasScte35(p))

(* A walk over a PAT object ends, and has then met every service of its    *)
(* kind once, in order, and no other.  Of the SCTE 35 walk over an object  *)
(* with a program that is registered for SCTE 35 and has no such stream,   *)
(* at which the code stops (pat.c:348), only that it meets services of its *)
(* kind in order.                                                          *)
WalkMeetsAll ==
  /\ P.seen # << >> => ToSet(P.seen) \subseteq Wanted(P.a, P.walk)
  /\ \A i, j \in DOMAIN P.seen : i < j => P.seen[i] < P.seen[j]
  /\ P.done /\ ~(P.walk = "scte35" /\ BareScte35(P.a) # {}) => ToSet(P.seen) = Wanted(P.a, P.walk)

Bare(pat) ==
  LET plain(pmt) == [pmt EXCEPT !.descr = << >>, !.freed = << >>, !.streams = [k \in DOMAIN @ |-> [@[k] EXCEPT !.descr = << >>]]]
  IN  [pat EXCEPT !.programs =
         [i \in DOMAIN @ |-> [@[i] EXCEPT !.service = "", !.pmt = plain(@)]]]

(* Two objects compare as identical exactly when they describe the same    *)
(* programs and streams, whatever their descriptors and service names: a   *)
(* change the comparison misses never reaches the user.                    *)
CompareSeesChanges == PatCompare(P.a, P.b) <=> Bare(P.a) = Bare(P.b)

(* However often PMTs are added, an object never holds more streams than   *)
(* its array has entries.                                                  *)
ObjectFits == \A i \in DOMAIN P.a.programs : Len(P.a.programs[i].pmt.streams) <= PmtMax

(* An object rebuilt from the packets made of another has the programs     *)
(* whose PMT was known with their streams and descriptors, and answers the *)
(* same questions in the same way; only the version is lost, and that only *)
(* in the packets the code writes without libdvbpsi.  The sections fit one *)
(* packet here.                                                            *)
RebuiltIsSame ==
  LET known == SelectSeq(P.a.programs, LAMBDA p : p.pmt.number # 0)
      bare == PatOf(PatSection(P.a))
      b == FoldLeft(AddPmt, bare, [i \in DOMAIN known |-> PmtSection(known[i].pmt)])
      c == FoldLeft(AddPmt, bare, [i \in DOMAIN known |-> PmtSection2(known[i].pmt)])
      all == \A i \in DOMAIN P.a.programs : P.a.programs[i].pmt.number = P.a.programs[i].number
  IN  /\ \A i \in DOMAIN P.a.programs :
           LET old == P.a.programs[i]  new == b.programs[i].pmt
           IN  old.pmt.number # 0 =>
                 /\ b.programs[i].number = old.number /\ b.programs[i].pid = old.pid
                 /\ new.pcr = old.pmt.pcr /\ new.streams = old.pmt.streams
                 /\ new.descr = old.pmt.descr
                 /\ c.programs[i].pmt = [old.pmt EXCEPT !.freed = NewPmt.freed]
      /\ TeletextPids(b) = TeletextPids(P.a) /\ FirstPcrPid(b) = FirstPcrPid(P.a)
      /\ all => IsMpts(b) = IsMpts(P.a)

(* A section of at most two packets, all of which arrive, is found and is  *)
(* right when the extractor was idle as it began: other tables on the PID  *)
(* and sections lost before do not matter.                                 *)
ShortSectionFound == X.due => X.found

(* Whatever was lost before, the extractor finds its way back: at most as  *)
(* many one-packet sections go by as the longest section has packets, and  *)
(* two.                                                                    *)
SectionResyncs == X.run <= 3 + 2

(* A model that can be queried has the PMT of every program of its PAT.    *)
ModelIsWhole ==
  ModelQuery(M) # NoTable =>
    \A i \in DOMAIN ModelQuery(M).programs :
      ModelQuery(M).programs[i].pmt.number = ModelQuery(M).programs[i].number

(* What a query returns changes only in a write that says so, except that  *)
(* a model may become unavailable: a caller that queries when it is told   *)
(* to is never behind.                                                     *)
ModelChangesAreAnnounced ==
  [][ModelQuery(M') # ModelQuery(M) => M'.announced \/ ModelQuery(M') = NoTable]_vars

(* A model that is the same as the last is announced only after a loss on  *)
(* the PAT's PID or a collection that ran out of time, once for each.      *)
NewsIsNews == env.owed >= 0

(* The services are those of the SDTs, none twice, and fit their table.    *)
ServicesFit ==
  \A rom \in {M.current, M.next} : Len(rom.sdt) <= SdtMax /\ IsInjective(rom.sdt)

(* A packet of a PID is written to every section extractor of that PID,    *)
(* which are found by position, and no PMT has two.                        *)
ExtractorsReached ==
  /\ \A i \in DOMAIN M.se : i \in ExtractorsFor(M.se, M.se[i][1])
  /\ \A i, j \in DOMAIN M.se : M.se[i] = M.se[j] => i = j

(* When the line-up stays, the model is in the end that of the line-up,    *)
(* whatever was switched and lost before.                                  *)
ModelFollowsStream ==
  \A l \in Lineups : <>[](kind = "model" /\ env.lineup = l) => <>[]env.right

(* A PAT object answers every question in the same way: walks, comparison, *)
(* limits, and the packets made of it.                                     *)
ObjectsAgree ==
  /\ WalkMeetsAll
  /\ CompareSeesChanges
  /\ ObjectFits
  /\ RebuiltIsSame

(* A lossy channel costs the extractor the sections it loses and few more. *)
SectionsFound ==
  /\ ShortSectionFound
  /\ SectionResyncs

(* What the model keeps beside its PAT stays in order over all its         *)
(* changes: announcements owed, services, extractors.                      *)
ModelBookkeeping ==
  /\ NewsIsNews
  /\ ServicesFit
  /\ ExtractorsReached

(* A caller who queries whenever a write says so ends with the line-up of  *)
(* the stream.                                                             *)
ModelIsCurrent ==
  /\ ModelChangesAreAnnounced
  /\ ModelFollowsStream
=============================================================================

--------------------------------- MODULE Vbv ---------------------------------
(***************************************************************************)
(* vbv.c: the model of a decoder's buffer.  A caller writes PESs, a thread *)
(* takes them out when they are due.  A section under pktListMutex is one  *)
(* step.  A PES is its size and its clock, 0 for one without time stamps.  *)
(* The diagnostics, the encoder's clock and the decoder's, which nothing   *)
(* reads, are left out; the 10% and 90% events look at the level the step  *)
(* of the thread left.  Time is counted in ticks of the clock.             *)
(***************************************************************************)
EXTENDS Integers, Sequences

CONSTANTS
  VbvSize,     \* vbv_buffer_size
  Delay,       \* initial_cpb_removal_delay
  ClockBack,   \* ticks in a second: a clock that goes back as much has begun anew
  VbvSizes, VbvClocks,   \* of the PESs
  VbvWrites, VbvTicks    \* bounds

ASSUME VbvAssumption ==
  /\ VbvSize \in Nat \ {0} /\ Delay \in Nat /\ ClockBack \in Nat \ {0}
  /\ VbvSizes \subseteq Nat /\ VbvClocks \subseteq Nat
  /\ VbvWrites \in Nat /\ VbvTicks \in Nat

VARIABLES
  vbv,     \* the context; last = -1 and lwm = -1 stand for INT64_MAX
  vcpc,    \* the caller: "idle", "join", "freed"
  vtpc,    \* the thread: "new", "loop", "permit", "drain", "done"
  vlocal,  \* its local variables
  vnow,
  vghost   \* history: the PESs stored and taken since the model was reset, the bytes
           \* stored up to each, whether the PES that reset it was refused, whether
           \* free came before the thread began, the writes

vbvVars == <<vbv, vcpc, vtpc, vlocal, vnow, vghost>>

(* ltntstools_vbv_alloc.                                                   *)
VbvAlloc == [list |-> << >>, used |-> 0, lwm |-> -1, hwm |-> 0, last |-> -1, inputAt |-> -1,
             generation |-> 0, terminate |-> FALSE, events |-> << >>]

VbvInit ==
  /\ vbv = VbvAlloc /\ vcpc = "idle" /\ vtpc = "new" /\ vnow = 1
  /\ vlocal = [now |-> 0, permit |-> FALSE, generation |-> 0]
  /\ vghost = [in |-> << >>, out |-> << >>, upto |-> << >>, refused |-> FALSE, raced |-> FALSE,
               writes |-> 0]

RaiseEvent(v, e) == [v EXCEPT !.events = <<e>>]

(* Deviation (used by mutation tests only): the level is kept.             *)
ResetModelLevel(v) ==
  [v EXCEPT !.list = << >>, !.lwm = -1, !.hwm = 0, !.last = -1, !.inputAt = -1, !.generation = @ + 1]
(* resetModelLocked.                                                       *)
ResetModel(v) ==
  [v EXCEPT !.list = << >>, !.used = 0, !.lwm = -1, !.hwm = 0, !.last = -1, !.inputAt = -1,
            !.generation = @ + 1]

(* The clock went back by a second and more.                               *)
BegunAnew(v, clk) == clk # 0 /\ v.last # -1 /\ v.last - clk >= ClockBack

Store(list, pes) == Append(list, pes)
Fits(v, size) == v.used + size < VbvSize

(* addItem, of ltntstools_vbv_write.                                       *)
AddItem(v, pes, at) ==
  IF ~Fits(v, pes.size) THEN RaiseEvent(v, "OVERFLOW")
  ELSE [v EXCEPT !.list = Store(@, pes), !.used = @ + pes.size, !.inputAt = at, !.last = pes.clk,
                 !.hwm = IF pes.clk > @ THEN pes.clk ELSE @, !.events = << >>,
                 !.lwm = IF pes.clk # 0 /\ (@ = -1 \/ pes.clk <= @) THEN pes.clk ELSE @]

(* The bytes of the first k PESs, where upto has the sums.                 *)
Total(upto, k) == IF k = 0 THEN 0 ELSE upto[k]
Stored(g, pes) == [g EXCEPT !.in = Append(@, pes),
                            !.upto = Append(@, Total(@, Len(@)) + pes.size)]

Forgotten(g, refused) ==
  [g EXCEPT !.in = << >>, !.out = << >>, !.upto = << >>, !.refused = refused]

VbvWrite ==
  /\ vcpc = "idle" /\ vghost.writes < VbvWrites
  /\ \E size \in VbvSizes, clk \in VbvClocks :
       LET pes == [size |-> size, clk |-> clk]
           anew == BegunAnew(vbv, clk)
           v == IF anew THEN ResetModel(vbv) ELSE vbv
           g == IF anew THEN Forgotten(vghost, ~Fits(v, size)) ELSE vghost
           h == IF Fits(v, size) THEN Stored(g, pes) ELSE g
       IN  vbv' = AddItem(v, pes, vnow) /\ vghost' = [h EXCEPT !.writes = @ + 1]
  /\ UNCHANGED <<vcpc, vtpc, vlocal, vnow>>

(* ltntstools_vbv_free.                                                    *)
VbvFree ==
  /\ vcpc = "idle" /\ vcpc' = "join" /\ vbv' = [vbv EXCEPT !.terminate = TRUE]
  /\ vghost' = [vghost EXCEPT !.raced = vtpc = "new"]
  /\ UNCHANGED <<vtpc, vlocal, vnow>>
VbvFreeEnd ==
  /\ vcpc = "join" /\ vtpc = "done" /\ vcpc' = "freed"
  /\ vbv' = [vbv EXCEPT !.list = << >>]
  /\ UNCHANGED <<vtpc, vlocal, vnow, vghost>>

-----------------------------------------------------------------------------
(* vbv_threadFunc.  It clears the flag with which free would end it.       *)
VbvThreadStart ==
  /\ vtpc = "new" /\ vtpc' = "loop" /\ vbv' = [vbv EXCEPT !.terminate = FALSE]
  /\ UNCHANGED <<vcpc, vlocal, vnow, vghost>>

SeeReset(l, v) ==
  IF l.generation = v.generation THEN l
  ELSE [l EXCEPT !.generation = v.generation, !.permit = FALSE]

VbvLoop ==
  /\ vtpc = "loop" /\ ~vbv.terminate
  /\ vlocal' = SeeReset([vlocal EXCEPT !.now = vnow], vbv)
  /\ vtpc' = IF vlocal'.permit THEN "drain" ELSE "permit"
  /\ UNCHANGED <<vbv, vcpc, vnow, vghost>>

(* Deviation: the thread waits here until the buffer is full enough.       *)
VbvPermitWaits ==
  /\ vtpc = "permit" /\ vbv.lwm # -1 /\ vbv.hwm # 0 /\ vbv.hwm - vbv.lwm > Delay
  /\ vlocal' = [vlocal EXCEPT !.permit = TRUE] /\ vtpc' = "drain"
  /\ UNCHANGED <<vbv, vcpc, vnow, vghost>>
VbvPermit ==
  /\ vtpc = "permit"
  /\ LET permit == vbv.lwm # -1 /\ vbv.hwm # 0 /\ vbv.hwm - vbv.lwm > Delay
     IN  vlocal' = [vlocal EXCEPT !.permit = permit] /\ vtpc' = IF permit THEN "drain" ELSE "loop"
  /\ UNCHANGED <<vbv, vcpc, vnow, vghost>>

(* elapsedTicks90k, since the last write and up to the start of the loop.  *)
Elapsed(v, l) == IF v.inputAt = -1 \/ l.now < v.inputAt THEN 0 ELSE l.now - v.inputAt
Due(v, l, clk) == clk + Delay <= v.hwm + Elapsed(v, l)

LevelEvent(v) == IF v.used * 10 < VbvSize THEN <<"LT_10PCT">>
                 ELSE IF v.used * 10 > 9 * VbvSize THEN <<"GT_90PCT">> ELSE << >>
VbvDrain ==
  /\ vtpc = "drain" /\ vtpc' = "loop"
  /\ IF vbv.list = << >> THEN vbv' = RaiseEvent(vbv, "UNDERFLOW") /\ UNCHANGED vghost
     ELSE IF ~Due(vbv, vlocal, vbv.list[1].clk) THEN UNCHANGED <<vbv, vghost>>
     ELSE LET v == [vbv EXCEPT !.list = Tail(@), !.used = @ - vbv.list[1].size]
          IN  /\ vbv' = [v EXCEPT !.events = LevelEvent(v)]
              /\ vghost' = [vghost EXCEPT !.out = Append(@, vbv.list[1])]
  /\ UNCHANGED <<vcpc, vlocal, vnow>>

VbvThreadEnd ==
  /\ vtpc = "loop" /\ vbv.terminate /\ vtpc' = "done"
  /\ UNCHANGED <<vbv, vcpc, vlocal, vnow, vghost>>

VbvTick == vnow < VbvTicks /\ vcpc # "freed" /\ vnow' = vnow + 1
           /\ UNCHANGED <<vbv, vcpc, vtpc, vlocal, vghost>>

VbvCaller == VbvWrite \/ VbvFree \/ VbvFreeEnd
VbvThread == VbvThreadStart \/ VbvLoop \/ VbvPermit \/ VbvDrain \/ VbvThreadEnd
VbvNext == VbvCaller \/ VbvThread \/ VbvTick
VbvSpec == VbvInit /\ [][VbvNext]_vbvVars

-----------------------------------------------------------------------------
(* The level is the bytes of the PESs stored and not taken, and stays      *)
(* below the size of the buffer, over overflows and over resets of the     *)
(* model between two steps of the thread.                                  *)
VbvLevelIsHeld ==
  vcpc # "freed" =>
    /\ \A k \in DOMAIN vghost.in :
         Total(vghost.upto, k) = Total(vghost.upto, k - 1) + vghost.in[k].size
    /\ vbv.used = Total(vghost.upto, Len(vghost.in)) - Total(vghost.upto, Len(vghost.out))
    /\ vbv.used < VbvSize

(* What was stored since the model was last reset is taken out in that     *)
(* order, each PES once: none of an earlier clock is left behind.          *)
VbvInOrder == vcpc # "freed" => vghost.in = vghost.out \o vbv.list

DelayIsSpanned == vbv.lwm # -1 /\ vbv.hwm - vbv.lwm >= Delay
Unstamped == vghost.refused /\ vbv.list # << >> /\ vbv.list[1].clk = 0

(* After a reset nothing is taken before the buffer spans the initial      *)
(* delay again, also by the pass of the thread during which the reset      *)
(* came, whatever the sizes of the PESs.  When the very PES whose clock    *)
(* reset the model is larger than the buffer and refused, and the next has *)
(* no time stamps, that pass may take this one too early.                  *)
VbvDrainsAfterDelay ==
  [][Len(vghost'.out) > Len(vghost.out) => DelayIsSpanned \/ Unstamped]_vbvVars

(* The decoder's buffer is what was written and not yet taken.             *)
VbvHoldsStream ==
  /\ VbvLevelIsHeld
  /\ VbvInOrder

(* The inductive invariant of these: a permit that is not from before a    *)
(* reset stands for the span of the delay, and a PES that one from before  *)
(* the reset could still take is the first since, not yet due by the time  *)
(* of the pass and not older than the low mark, unless the reset left the  *)
(* buffer empty and the PES is unstamped.                                  *)
Pess == [size : VbvSizes, clk : VbvClocks]
VbvEvents == {"OVERFLOW", "UNDERFLOW", "LT_10PCT", "GT_90PCT"}
Models == [list : Seq(Pess), used : Int, lwm : Nat \cup {-1}, hwm : Nat, last : Nat \cup {-1},
           inputAt : Nat \cup {-1}, generation : Nat, terminate : BOOLEAN, events : Seq(VbvEvents)]
Histories == [in : Seq(Pess), out : Seq(Pess), upto : Seq(Int), refused : BOOLEAN, raced : BOOLEAN, writes : Nat]
VbvTypes ==
  /\ vbv \in Models /\ vghost \in Histories /\ Len(vghost.upto) = Len(vghost.in)
  /\ vcpc \in {"idle", "join", "freed"} /\ vtpc \in {"new", "loop", "permit", "drain", "done"}
  /\ vlocal \in [now : Nat, permit : BOOLEAN, generation : Nat] /\ vnow \in Nat
VbvTimes ==
  /\ vlocal.now <= vnow /\ vbv.inputAt <= vnow /\ vlocal.generation <= vbv.generation
  /\ vcpc = "freed" => vtpc = "done"
Spans(v) == v.lwm # -1 /\ v.hwm - v.lwm > Delay
VbvPermits ==
  /\ vlocal.permit /\ vlocal.generation = vbv.generation => Spans(vbv)
  /\ vtpc = "drain" =>
       \/ Spans(vbv)
       \/ vghost.refused /\ vbv.list = << >>
       \/ /\ vlocal.now <= vbv.inputAt /\ vbv.list # << >>
          /\ Unstamped \/ (vbv.lwm # -1 /\ vbv.lwm <= vbv.list[1].clk)
VbvInv == VbvTypes /\ VbvTimes /\ VbvPermits /\ VbvHoldsStream
=============================================================================

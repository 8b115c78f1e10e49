# libltntstools in TLA+

libltntstools is a C library for MPEG transport streams: it smooths, records,
demultiplexes, measures and monitors them. This directory holds TLA+ models of
the parts of it that run threads or keep state over many calls, the TLC
configurations that check them, and TLAPS proofs of what holds for all values of
the constants. `PROJECT.json` lists components, runs, mutants, the map from
definitions to source lines, findings, hazards and theorems.

## 1. The system

| part | state | operations | hard behaviour |
|---|---|---|---|
| PCR smoother (`smoother-pcr.c`) | byte array, free and busy lists of items with counts, PCR/wall clock time base, thread flags | write, reset, set blocking, free; output thread | writer, output thread and reset interleave between critical sections; PCR leaps and restarts; the pool runs out; shutdown |
| RTP smoother (`smoother-rtp.c`) | as above, with RTP time stamps | write, reset, free; output thread | jumps and wraps of time stamps, a reset in the middle of a pass, shutdown |
| Queue (`kl-queue.c`) | list, count, condition variable | push, pop with time-out, destroy | wake-ups, several consumers, destroy under waiters |
| Segment writer (`segmentwriter.c`) | queue of buffers, file, header, counters | write, set_header, queries, free; writer thread | failing open, rotation, header replaced under the thread, shutdown with a full queue |
| Ring buffer (`klringbuffer.c`) | memory, size, head, fill | write, read, peek, discard, empty | wrap, growth, overflow, shrink |
| TR 101 290 monitor (`tr101290*.c`) | event table, alarm records, timers of PAT, PMT and PIDs, sync counters | write, reset, event calls, free; monitor thread | most of the table is shared without the lock; verdicts compare counters before and after the statistics |
| Stream statistics (`stats.c`) | directory of PIDs, counters, windows of a second, bitrate calculator, callbacks | update (TS, CTP, bytes), reset, clone, register, queries | each error is counted twice, windows are closed by the next packet |
| Stream model (`streammodel*.c`), section extractor, PAT/PMT objects | current and next model, parsers, extractors, partial section | write, query | losses, tables that change during a collection, order of tables, timers |
| PES extractor, demultiplexer | ring buffer, ordered list, PES list per PID | write, set ordered output, free | loss and repetition, wrap of time stamps, size limits, expiry |
| VBV model (`vbv.c`) | list of PES, level, clock marks | write, free; drain thread | clock restarts, overflow and underflow, shutdown |
| UDP receiver | thread flags | start, free; receive thread | shutdown |
| Clocks, RTP analyzer, throughput, history, histograms, reframer | counters, windows, a buffer | update, query | wrap, windows, expiry, boundaries |
| Bit parsers (NAL, PES header, AC3, SEI), packetizer, text reports | none that outlives a call | parse, format | - |

How they interact: the application writes packets into a component; the
smoothers, the segment writer, the monitor, the VBV model and the receiver hand
results back from a thread of their own through a callback or a file. The segment
writer keeps its buffers in the queue; the PES extractor keeps its bytes in the
ring buffer, counts losses with the statistics and orders its output with a
corrected clock; the demultiplexer owns one PES extractor per stream; the monitor
uses the statistics, the stream model and the section extractors. What makes
each part correct is in the tables of section 3.

## 2. Modules

Every module states, beside its operators, which function it models. A
definition called "Deviation" is a plausible bug, used only by mutation tests.
Modules in the first group are state machines with threads; modules in the
second hold a component's state in a record and one operator per function
(state in, state out), so that modules above can compose them; the MC modules
are the environments in which TLC runs the second group.

State machines:

* `SmootherPcr` - the smoother: `wpc` is where the writer is in
  `smoother_pcr_write` / `_write2` (one value per stretch between two locks or
  shared accesses), `tpc` where the output thread is. Packets are numbered; an
  item holds the range of packets `from .. to`. `itemsFree`, `itemsBusy` and
  `loclist` are the lists of the code. `Reset` may come at any time, from
  another thread. Ticks and microseconds are scaled by constants.
* `DelayFifo` - what the smoother promises: ranges of packets are accepted in
  order, delivered in order, and may be discarded. `MCSmootherPcr` - streams for
  the runs: a steady one, one that leaps, one that restarts at 0 and one that
  steps back.
* `KLQueue` - the queue, with any number of consumers. `woken` holds the
  consumers a signal has reached but that do not hold the mutex yet. The
  time-out is compared with the clock as the code does it.
* `SegmentWriter` - application and writer thread. The queue is the sequence `q`
  (that it is a FIFO is what `KLQueue` shows). `set_header` is four steps (free,
  forget, allocate with length, copy), because the thread may read the header
  between them. Buffers are numbered.
* `KLRingBuffer` - cells of memory and the exact index arithmetic, with size_t
  wrap; a history variable holds what a FIFO would.
* `TR101290Alarms` - event table, application thread and monitor thread. A raise
  or a clear is a test and then its writes of `raised`, `lastChanged` and
  `nextAlarm`, each a step of its own (`alarm.at` and `tat` are the next write of
  the application's and the thread's call), since no lock is common to the two. A
  time stamp is read and written whole: a torn `struct timeval` is left out. The
  time of a write is the caller's (`Stamps`) or the wall clock. What
  the P1 and P2 checks conclude from a packet is nondeterministic here: any
  verdict on any events (`Verdicts` bounds how many in one write). That covers
  every verdict `TR101290Checks` can give. `MCMonitor` runs it beside `MCStream`.
* `SmootherRtp`, `Vbv`, `UdpReceiver` - caller and thread each; the frees wait
  for the flags the threads set, in the order the code sets them.
* `SmootherPcrProofs`, `SegmentWriterProofs`, `KLRingBufferProofs`,
  `TR101290AlarmsProofs`, `FlowProofs` (`KLQueue`, `RtpAnalyzer`, `Vbv`,
  `UdpReceiver` and `SmootherRtp`), `MeterProofs` (`MCMeters`, that is `Clocks`, `Histogram`, `Throughput`,
  `HistoryMetric` and `Reframer`) and `StreamProofs` (`MCStream`, that is
  `StreamStats` and `TR101290Checks`) - the theorems. The inductive invariants are
  in the modules they are about, where TLC can check them; those of
  `StreamProofs` and, but for `ClockInv`, of `MeterProofs` are in the proof module,
  with the predicates they are made of.
* `DataLemmas` - induction over the naturals and over finite sets, folds over
  sequences, sums over finite sets, and filters, reversal and flattening of
  sequences, for any folded operator.

Components as records and operators:

* `ClockOps` (clocks.c and the time stamp differences of ts.h), used by `Clocks`
  (one clock, a sender and a wall clock) and by the modules below.
* `Histogram`, `Throughput` (throughput.c and throughput_hires.c),
  `HistoryMetric`, `Reframer`. `MCMeters` runs these five and `KLRingBuffer`, one
  per behaviour.
* `StreamStats` - the statistics record of stats.c, PID by PID, including the
  bitrate calculator. `TR101290Checks` extends it with the state of the P1 and P2
  checks and `ltntstools_tr101290_write` as one operator. `MCStream` feeds both
  with buffers (`TsBuffers`, `TrBuffers`: constants, functions of the number of the
  call) and keeps what really happened in `ghost`, packet by packet (`Follow`); what the
  stream model finds in a write is a constant too (`Models`, `Found`).
* `Pat` - PAT objects: made from the parser's tables, compared, walked, made
  into sections again. `SectionExtractor`. `StreamModel` extends `Pat`: the two
  ROMs, the collection and its timer, the swap. libdvbpsi is external: it calls
  back once for each new version of a table, the SDT included. An entry of the
  stream array keeps the descriptors of a stream that was removed (`freed`), and
  the next stream of the entry gets them (`AddEs`). `MCTables` has a lossy channel, a
  broadcaster who changes line-ups, and callers who walk.
* `PesExtractor` extends `StreamStats` (it drops a PES when the statistics count
  a loss) and holds the ring as a sequence of bounded length. `Demux` extends
  it. `RtpAnalyzer`. `MCFlows` runs them with `SmootherRtp`, `Vbv`, `UdpReceiver`
  and `KLQueue`; the sender loses packets, sends short ones and wraps its clock.

## 3. Runs

A property named in bold is the conjunction of the parts listed after it; the
parts are definitions of their own, each with its statement in a comment.

| run | question | bounds |
|---|---|---|
| `smoother_reset` | `TypeOK`, `ItemsInOnePlace`, `CountersMatch`, `DeliveredInOrder`, `BusySorted`, `FreedAfterThread`, and `ImplementsFifo` (refinement of `DelayFifo`), with a reset at every point | streams of 6 packets that leap, restart and step back, 2 items and growth by 2, chunks of 2 packets, one reset; the clock stands still, and output is still possible since due times in the past occur; 1.28M states |
| `smoother_stream` | without reset: **`StreamIntact`** (`NothingLost`, `SizeIsWhatIsHeld`); under fairness `QueuedIsDelivered` and **`CallsReturn`** (`BlockedWriterResumes`, `FreeReturns`) | the steady, leaping and restarting streams, one item and growth by 2 (so the writer both grows and blocks), two ticks |
| `segment_store` | `NothingLost`, `DrainedMeansStored`, `SegmentsInTime`, **`ThreadServes`** (`QueuedIsStored`, `FreeReturns`) | both write modes, 3 buffers, one failing open, one header change, one rotation; a budget that a pass can use up; 199k states |
| `meters` | **`ClocksAreRight`** (`ClockFollowsSender`, `ClockCountsAdds`, `CorrectedIsSender`), **`MetersHoldAll`** (`HistCountsAll`, `HrPoolIsWhole`, `HrSumIsExact`), **`MetersTellTrue`** (`ClockNeverBack`, `ClockDriftIsTrue`, `HistSummaryConserves`, `TpIsLastSecond`, `ReframerKeepsBytes`), `RingIsFifo`, `ReadsOldest` | clock width 250 with starts just before the wrap and 6 calls; 5 calls on a histogram; pool of 1 growing by 2; 7 calls on a history of 25 hours; frames of 0, 1 and 3 bytes, 16 bytes; a ring of size 4, at most 9, writes of 1 and 2 bytes, 12 bytes: wraps, both growths, overflow, shrink; 601k states |
| `stream` | **`StatsAreRight`** (`StatsAddUp`, `DirectoryIsExact`, `HeardEveryError`, `BitrateWithoutLoss`), `RateIsLastSecond`, `SyncAlarmsFollowRuns`, **`ChecksInTime`** (`PatErrorInTime`, `PmtErrorInTime`, `PidErrorIsSilence`, `LossAndScramblingRaised`), `NoFalseAlarmAlone`, **`MonitorServes`** (`SilenceRaises`, `EveryEventIsTold`, `FreeReturns`) | 5 calls with a few kinds of buffer on 5 PIDs; sync counters scaled (lost after 2, clear after 5, set back at 9 to 7), tables due after a tick, a PID silent after 5 seconds; event table: one event with up to two verdicts in a write (any number in the proofs), writes dated by the wall clock or ahead of it, one other call, clock long enough for every deadline after the last call; 405k states |
| `tables` | **`ObjectsAgree`** (`WalkMeetsAll`, `CompareSeesChanges`, `ObjectFits`, `RebuiltIsSame`), **`SectionsFound`** (`ShortSectionFound`, `SectionResyncs`), `ModelIsWhole`, **`ModelBookkeeping`** (`NewsIsNews`, `ServicesFit`, `ExtractorsReached`), **`ModelIsCurrent`** (`ModelChangesAreAnnounced`, `ModelFollowsStream`) | 4 programs (one of them the network's), a PAT array of 7 entries, PMTs of up to 3 streams, 9 packets of sections of which any may be lost, two switches of line-up with one packet lost; 109k states |
| `flows` | **`PesArrives`** (`PesDeliveredWhole`, `PesOrdered`, `PesAbortsForSizeOnly`, `DemuxHasAll`, `DemuxKeepsRecent`), **`RtpIsSmoothed`** (`RtpKeepsBytes`, `RtpDueSoon`, `RtpSizeIsHeld`, `RtpFreedAlone`), **`AnalyzerIsFair`** (`AnalyzerCountsGaps`, `AnalyzerBlamesLossOnly`), **`VbvHoldsStream`** (`VbvLevelIsHeld`, `VbvInOrder`), **`VbvThreadServes`** (`VbvDrainsAfterDelay`, `VbvFreeReturns`), **`UdpGivesAndStops`** (`UdpQuietWhenFreed`, `UdpGivesPackets`), `FifoOrder`, `CountIsLength`, `PopReturns` | 7 packets with one odd one and a ring of 4, PTS over a wrap, reordering depth 2; 4 RTP frames with steps of 1 and 100 and a jump limit of 2; sequence numbers modulo 8, runs of loss shorter than a round of them; 5 PES, some larger than the buffer, with clock values that go back; 3 datagrams; a queue with 2 consumers and 3 pushes, enough for a consumer to lose the race for an item; 616k states |

Runs that are expected to find a violation, each of a sentence the repository
says of itself (the finding quotes it):

| run | what the code does |
|---|---|
| `smoother_stall` | a reset between the two assignments of the time base leaves an item scheduled far in the future, and all behind it wait |
| `segment_header` | `set_header` takes no lock: a segment the thread opens in the middle of it begins without a header, or with bytes that are none |
| `alarm_race` | the monitor's thread checks a deadline and raises the event in two steps; a verdict in between that clears the event, or holds it clear, does not keep it from the raise |
| `history` | an add to a history with an entry older than 25 hours takes the new entry off the list, and keeps the old one |
| `model_whole` | the stream model counts PMT callbacks, not programs: if a PMT changes its version during the collection, the model is announced without the PMT of another program |

### Bounds

Every bound is a constant named as such in its module (`MaxTime`, `MaxResets`,
`MaxWrites`, `MaxHeaders`, `MaxFailures`, `MaxPushes`, `RingBytes`, `MaxCalls`,
`LastCall`, `LastReturn`, `Verdicts`, `MaxSwitches`, `MaxLosses`, `PesOdd`, ...). They are
chosen so that each hazard happens: the pool runs out, a chunk is shorter than the
others, a batch is cut, a segment rotates, a pass of the monitor begins before
and ends after a write, a clock wraps between two of a few calls, a section is
resumed after a loss, a line-up changes while its tables are collected. In
`TR101290Alarms` the clock stops at `MaxTime`, where the thread's sleep takes no
time; `LastCall` and `LastReturn` are so far before it that every deadline a call
can set passes.
Widths (33 bits, 16 bits), rates (90 kHz, 27 MHz) and limits (50000 sync bytes, 64
programs) are scaled down with their order kept. `meters`, `stream`, `tables` and
`flows` end when their calls are used up, so deadlock is not checked there.

### Fairness

Weak fairness of each thread's steps and of the clock: the threads are POSIX
threads of a preemptive scheduler, their waits are polls with `usleep` or
mutexes held for bounded stretches, and time goes on. No fairness is assumed of
the application: it need not make any call, but a call it has begun goes on.
For `KLQueue` it is assumed that a timed wait whose time has come returns. For
`TR101290Alarms` the fairness is that of `MonitorSpec`. In
`tables` packets keep coming and time passes (`StreamGoesOn`); whether a packet
is lost or a line-up switched is left open. In `flows` only the VBV thread and
the free that joins it, and the consumers and the clock of the queue, are fair.

## 4. Proofs

Each theorem holds for every value of the constants that meets the module's
assumptions. Beside the types of the constants these are:

* `ShortWrites` (ring): a write is at most half of the initial size. The PES
  extractor, the only user of the ring in this build, writes at most the 184 bytes of a packet
  into a ring that starts at 4 MB. `RingAssumption`: twice the largest size is below 2^64.
* `AnalyzerAssumption`: the frames of a round of sequence numbers do not bring the
  time stamp back to where it was (2^16 packets against 2^32 ticks). In the same
  module a run of loss is shorter than a round of sequence numbers, a guard of
  the sender: a longer one cannot be seen by any receiver.
* `RtpAssumption`: the jump limit is below the modulus of the time stamps (15 s of
  the 13 hours of a 32-bit time stamp at 90 kHz).
* `TablesAssumption` (model checking only): the programs of the object that is
  walked are at most half of the array's entries and one; two walks read past the
  array otherwise.
* `ClockAssumption`: consecutive frames are less than half a wrap apart.
* `AlarmAssumption`: the thread sleeps for less than the holding time. Time stamps of
  writes are arbitrary.
* `ChecksAssumption`: the counter of good packets is set back to a value that
  still clears the alarm (the code: 5, 50000 and 49000), the times of tables are not
  0, and a PID is silent after more than a second.
* `StreamAssumption`: buffers are not empty sequences of packets, the model has at
  most as many PMTs as there are timers, no PMT is on PID 0 or the null PID, and
  the wall clock (seconds since 1970) is past the first few seconds.

Arguments, module by module (the definition after "from" is the inductive
invariant and why it is needed):

* `SmootherPcrProofs`. `TypeCorrect` (`TypeOK`). `PlacesHold`: an item is in one
  place. Alone it is not inductive: `PlaceInv` adds where the writer's item and
  the thread's position are at each program counter (`WriterShape`,
  `ThreadShape`). `CountersHold`: the counts equal the lengths. `InOrder`:
  packets come out in order, from `DeliveryOrder`, which says that what was
  sent, what is left of the batch, the busy list, the item in the writer's hand
  and the byte array are consecutive stretches of ascending packets, and
  `HandFilled`. `FreeWaitsForThread`: the flags' handshake.
  `Refinement`: with those invariants each action of the smoother is an accept, a
  delivery or a discard of `DelayFifo`, or leaves its two variables alone; a
  delivery is the callback, an accept the append to the busy list, and a reset
  and a free discard the newest ranges.
  `BusyStaysSorted`: from `TicksForward` - with no PCR that steps back, the ticks
  per packet kept for the next interval and those of the present one are not
  negative, so that the time derived from the last item's is not before it.
  `Intact`: from `Gapless` - sent packets, pending ranges and the place of the
  writer join without a gap; once anything was queued the byte array begins at a
  PCR, so nothing more is skipped; and the byte count reaches from the writer's
  place back to the item the thread has not yet taken off it, which depends on
  whether the thread is between callback and account. `Gapless` holds until the
  first reset, and so the theorem says it of states with `resets = 0`.
* `SegmentWriterProofs`. `TypeCorrect` (with `OutputShape`: a buffer is only
  taken while a file is open), `NoBufferLost`, and `DrainedStored` from
  `DrainShape`: an observed empty queue and the thread's exit leave nothing in
  its hand. `InTime` from `SegmentShape`: a file is only left when its time is
  over, nothing is dated in the future, and the file the thread writes to has no
  buffer dated after its end.
* `KLRingBufferProofs`. `RingInOrder` and `OldestRead` from `TypeOK` and
  `RingIsFifo` itself, by lemmas on the place of byte k of a write, of one memcpy
  or two, before and after a growth and a discard. Integer division is nonlinear
  for the provers, so facts on `%` are taken from a few lemmas on values below
  twice the divisor; this is where `ShortWrites` is used.
* `TR101290AlarmsProofs`. `TypeCorrect`. `FalseAlarmNever` (`NoFalseAlarmAlone`) from
  `HeldSinceVerdict`: where thread and application meet at an event it is marked
  (`raced`) until a verdict meets nobody; one that is not marked and is clear after a
  verdict has its deadline at least the holding time after that verdict, and while
  the thread has still to raise it the deadline it checked is the present one.
  Without the mark the statement is false (run `alarm_race`). `FreeWaitsForThread` from
  `FreeShape`: which places of the thread each flag excludes.
* `FlowProofs`. `CountHolds` and `FifoHolds` of the queue, for any set of consumers.
  `AnalyzerFair` from `AnalyzerAtLoss`: the sender's next header is as
  far from the last one seen as packets and ends of frames were lost since.
  `UdpGives` from `UdpFlags`. `VbvHolds`, and `VbvDrainsLate` from `VbvPermits`: a
  permit that is not from before a reset stands for a full span, and with one from
  before it only the first PES since the reset could be met, which is not due -
  unless the PES that reset the model was refused, being larger than the buffer,
  and the one behind it has no time stamps: the theorem names this exception.
  `RtpSmooth` from `RtpInv`. Bytes: in the middle of a write the frames found lie end
  to end in the byte array (`RtpPlaces`), so what is sent, in the thread's hands, in
  the queue and from the first frame that is not queued on is the stream
  (`RtpBytes`); the busy list is in order of time (`RtpQueue`), so what a pass takes
  is its first part. Times: frames are numbered in the order they are sent
  (`RtpBuffer`), and until a jump resets the base the time stamp of the frame to be
  queued next is ahead of it by at most the limit for each frame (`RtpBase`); an
  item that would go before its predecessor comes one tick after it, which the
  predecessor's smaller number pays for. `RtpFlags` is the handshake with the thread.
* `MeterProofs`. `ClocksRight`, `MonotonicNeverBack` and `DriftIsTrue` from `ClockInv`:
  the counter and the reference are the sender's present and highest time modulo
  the wrap, in the same round. `MetersHold` and `MetersTrue` from `MetersInv`, the
  conjunction of one invariant per meter, since a step moves one meter only:
  `HistInv` (a bucket without samples has no time; a division by the bucket size
  groups the buckets of a summary without gap or overlap, so the sum in groups is
  the sum), `HrInv` (the busy list is the reverse of the samples held, so while
  these are in order of time the walk may stop at the first that is too old; this is
  said while no expire met a sample between the code's one second and the header's two),
  `TpInv` (the open window is the last second of the history and the closed one
  the second before it), and `ReframerInv` with the loop invariant `Pass`
  of a write: the bytes sent, those in the buffer and those left of the write are
  one run, and each pass shortens what is left.
* `StreamProofs`. For each part of `ltntstools_pid_stats_update` a lemma says what
  it does to the counts of the stream and of the packet's PID (`Does`): the two
  move by the same amount, and each error that is counted is told. They are put
  together for one packet, and by induction over the buffer for the folds.
  `StatsHold` from `SInv`: the balance of the counts, the directory, what listeners
  heard since they registered, and that the calculator's mark of errors is at
  most the present count (`CalcOk`). `RatesHold` from `RateInv`: the open window
  belongs to the last second of the history and the closed one to the second
  before it, `a324_bps` too as long as it has not gone silent. `SyncAlarmsHold` and `ChecksHold` from `MInv`: below its threshold the
  counter of good packets is the length of the run, and above it stays above,
  although it is set back, so the last word of a write on each of the two alarms is
  that of its packets one by one (`hits` and `loss` of the history); the last counter of each PID is that of the
  history (`Tracks`), so the errors added in a write are its losses; the PMT
  timers stand where the history's later of model and packet does (`Timers`);
  nothing is dated in the future (`Past`). Each step of a write says one verdict
  per event and leaves the others' alone (`Words`), so the verdicts can be read off
  the end of the write.
* `DataLemmas`. The library's induction theorems take a predicate as parameter,
  which no installed prover instantiates; its least-element theorem takes a set.
  `SetInduction` is derived from it, and from that what a fold over a sequence does
  step by step (`FoldSteps`), the maximum of a finite set, how a sum changes
  with one summand and splits into groups, that a filter keeps members and order,
  also read backwards (`SiftedInOrder`, `SiftedBackwards`), and how `Reverse` and
  `FlattenSeq` go over appending and concatenation.

Lemmas on `SubSeq`, `Tail`, `Append` and concatenation are stated once in each
module. Only model-checked:

* liveness (`QueuedIsDelivered`, `CallsReturn`, `PopReturns`, `ThreadServes`, `MonitorServes`,
  `ModelIsCurrent`, `VbvFreeReturns`) and `ENABLED`: out of the prover's reach;
* `ObjectsAgree`, `SectionsFound`, `ModelIsWhole`, `ModelBookkeeping` (walks and
  selections over tables), and `PesArrives`
  (payloads read back out of the ring). `DataLemmas` would serve for the induction
  they need.

## 5. Not modelled

Formatting, logs, file names and ownership. Memory lifetimes other than the order
of free and thread exit. The mutex of the ring's thread safe form (unused in the
repository), `rb_fwrite` and `rb_fread`. Bit parsers (NAL, AC3, SEI, PES header):
syntax without state. The packetizer, whose only lasting state is a counter the
caller owns. The TR 101 290 timers, which no event asks for, and its summary,
which formats the table. Socket options, IGMP, `/proc/net/udp`. The Rust
bindings, which wrap the C calls. The counts of a history collection over a
period, and minimum, maximum and average of `throughput_hires`: queries that
change nothing. `TR101290Checks` and `TR101290Alarms` are not composed (a behaviour of `MCMonitor` has one or the other): the
second allows every verdict of the first.

## 6. Seen while modelling

Behaviour of the code that a property excludes by its statement or a run by its
inputs. Line numbers are of files under `src/src`.

* PCR smoother: after a reset the byte count and the sequence numbers are not
  those of what is held. After a PCR that steps back by too much to be taken for
  a wrap, the ticks per packet are negative, and the time derived from the last
  item's (smoother-pcr.c:740) is before it: the comment at 724 says that this
  never happens. `BusySorted` is therefore stated of streams that go forwards;
  without its premise TLC refutes it on `BackStream`.
* Queue: a woken pop that finds the list empty returns 0 (kl-queue.c:104); the
  period of a timed pop is used as an absolute time, so it does not wait (90).
* Segment writer: `totalSegmentsCreated` counts failed opens (154).
* Ring: growth of a wrapped ring reorders its bytes (klringbuffer.c:137); a write
  as long as the ring leaves its memory unless it starts at the first cell (188). A
  write longer than half the ring that overflows discards more than is there:
  `fill` goes below 0, and `(head + fill) % size` is a wrong cell unless the size
  divides 2^64 (TLC finds it with a ring of 5 and writes of 1, 3 and 4).
* Monitor: a change just after an event was marked reported is not reported
  (tr101290.c:156). The CAT is never extracted, so a scrambled stream always
  raises P2.6 (tr101290-p2.c:240 speaks of a CAT that is not there);
  `LossAndScramblingRaised` says only that nothing else does. `isPIDActive` waits 5 s
  where its comment (tr101290-p1.c:17) says 2 and that of the check (35) 1000 ms;
  `PidErrorIsSilence` leaves open what is between one and five seconds. The bitrate
  calculator is reset with each write by `p2_process_pat_model`.
  `prev_pcrExceeds40ms` moves only with a PCR.
* Statistics: `a324_bps` never expires (stats.c:806), and the get_bps of CTP and byte
  streams return it (899, 908); `RateIsLastSecond` says nothing of it after silence. The bitrate calculator misses a loss in the
  same buffer as its second PCR.
* Clocks: a frame reordered over a wrap makes the clock jump by a wrap
  (clocks.c:146, a fiftieth, where the comment says 50%); a PTS wrap is a tick
  short. A clock its caller has moved back and then forwards may be behind what
  it said before.
* Throughput: `throughput_hires_expire` without a time keeps 1 s where the header
  (throughput_hires.h:61) says 2; the meter's minimum/maximum/average stops at the first old sample.
* History: the new entry is freed once for each old one (history-metric.c:91); the counts over a period
  compare the query's time with the window and are always 0.
* Section extractor: a continuation copies 183 of 184 bytes; a section of 4098
  bytes does not fit its buffer; a complete section nobody asks for makes the
  next one go unseen.
* Stream model: a PAT that changes its version during a collection may wait for
  the 15 s timer; service names that arrive after the swap are not in a query
  until the model changes; service names of an old line-up stay; `service_type`
  is always 0.
* PAT objects: the version field is written with `<` for `<<` (pat.c:688, 745); a
  PAT of many programs is longer than its packet; two walks read past the
  last program and, in an array that is more than half full, past the array
  (pat.c:323, 513); the SCTE 35 walk stops at a registered program without such a
  stream (348), where pat.h:139-143 says that it finds all; a stream gets the
  descriptors of one that was removed from its entry (184, 589).
* PES extractor: a PES longer than the ring, or shorter than 16 bytes, aborts
  the process; a loss on any PID drops the PES (485; the comments at 52 and 482 and
  pes-extractor.h:12 say "on the chosen pid"), and `PesArrives` says nothing of a
  PES during which another PID told a loss; free releases the ring before the flush.
* Demultiplexer: two programs that share a PID end the process; audio of private
  type is not extracted; a wall clock set back expires every list.
* RTP smoother: the third and later time stamps of one write are not converted
  (619); the difference of time stamps is taken at 33 bits where RTP has 32; the
  first SSRC is kept for ever (576); free before the thread announced itself
  frees under it, and the thread ends with `threadRunning` set (411).
* RTP analyzer: `illegalTSCounterMovementEvents` cannot count (103); a sequence
  number or time stamp 0 is taken for none; a loss of a whole round of sequence
  numbers is not a gap.
* VBV: a free before the thread has cleared `threadTerminate` never returns
  (vbv.c:547); a PES without time stamps hides a restart of the clock. The thread may begin
  a pass before a restart and drain after it, with the permit of the old clock:
  that is harmless as long as the first PES of the new clock is stored; where it
  is too large even for the empty buffer and dropped, one without time stamps
  behind it can be taken before the delay (`Unstamped` in `VbvDrainsAfterDelay`).
* UDP receiver: the thread writes `thread_running` after it announced that it is
  done (udp_receiver.c:279); a failed or short receive gives the callback an odd
  length (272).

## 7. Order of work

Modelled, in this order: `SmootherPcr` with `DelayFifo`, `KLQueue`, `SegmentWriter`,
`KLRingBuffer`, `TR101290Alarms`; then the meters, the statistics and checks, the
tables and the flows. Proved, in this order: the types, places and order of the
smoother, the queue and the segment writer's buffers; the refinement of
`DelayFifo`, `BusySorted` and `StreamIntact`; segments' times; the ring;
the monitor's handshake and deadlines; analyzer, receiver, VBV model and clocks;
statistics, rates and the checks of the monitor; histogram, throughput meters,
history and reframer; the RTP smoother.

Open, most useful first: the section extractor; the PES extractor over its ring.

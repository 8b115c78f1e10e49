---------------------------- MODULE SegmentWriter ----------------------------
(***************************************************************************)
(* The file writer of segmentwriter.c.  The application queues buffers; an *)
(* output thread moves them to a file, or to a new file every Span         *)
(* seconds.  The queue is the one of KLQueue: its calls are atomic, and    *)
(* with one consumer a pop from a queue seen non-empty returns at once.    *)
(* Buffers are 1, 2, 3, ... in the order they are queued; a buffer and a   *)
(* header have length 1.                                                   *)
(***************************************************************************)
EXTENDS Integers, Sequences

CONSTANTS
  WriteModes,   \* the modes considered: {0}, {1} or {0, 1}
  Span,         \* seconds of a segment (60 in the code)
  WriteBudget,  \* maxwrites (1000 in the code)
  Epoch,        \* the wall clock at the start
  MaxWrites,    \* bound: buffers queued
  MaxHeaders,   \* bound: calls of set_header
  MaxFailures,  \* bound: failing calls of fopen
  MaxTime       \* bound: the wall clock stops here

ASSUME SegmentAssumption ==
  /\ WriteModes \subseteq {0, 1}
  /\ Span \in Nat /\ WriteBudget \in Nat /\ Epoch \in Nat
  /\ MaxWrites \in Nat /\ MaxHeaders \in Nat /\ MaxFailures \in Nat
  /\ MaxTime \in Nat

NoBuffer == [id |-> 0, datetime |-> 0]

VARIABLES
  writeMode,
  q,           \* the queue: records [id, datetime]
  apc,         \* where the application thread is
  stamp,       \* datetime of the buffer being queued
  fileHeader,  \* "none" (or of length 0), "raw" (freed or not filled yet) or "set"
  tpc,         \* where the output thread is
  qi,          \* the buffer it has popped
  maxwrites,
  fh,          \* a file is open
  lastOpen, totalSegmentsCreated, totalWritten,
  threadRunning, threadTerminate, threadTerminated,
  now,         \* the wall clock
  failures, headers,
  pushed,      \* history: number of buffers queued
  sawEmpty,    \* history: the last queue depth asked for, after the last write, was 0
  hadHeader,   \* history: a call of set_header has completed
  files,       \* history: records [opened, header, promised], one per file
  stored       \* history: records [id, file, datetime] of the buffers written

app     == <<apc, stamp, headers, pushed, sawEmpty, hadHeader>>
file    == <<fh, lastOpen, totalSegmentsCreated, failures>>
drain   == <<qi, maxwrites>>
flags   == <<threadRunning, threadTerminate, threadTerminated>>
written == <<totalWritten, files, stored>>
vars    == <<writeMode, q, app, fileHeader, tpc, drain, file, flags, now, written>>

(* ltntstools_segmentwriter_alloc.                                         *)
Init ==
  /\ writeMode \in WriteModes
  /\ q = << >>
  /\ apc = "idle" /\ stamp = 0
  /\ fileHeader = "none"
  /\ tpc = "start" /\ qi = NoBuffer /\ maxwrites = 0
  /\ fh = FALSE /\ lastOpen = 0 /\ totalSegmentsCreated = 0 /\ totalWritten = 0
  /\ threadRunning = FALSE /\ threadTerminate = FALSE /\ threadTerminated = FALSE
  /\ now = Epoch /\ failures = 0 /\ headers = 0
  /\ pushed = 0 /\ sawEmpty = FALSE /\ hadHeader = FALSE
  /\ files = << >> /\ stored = << >>

Freed == apc = "freed"

------------------------------------------------------------------------------
(* The application thread.                                                 *)

(* _write and _object_write: the buffer is dated, then pushed.             *)
StampBuffer ==
  /\ apc = "idle" /\ pushed < MaxWrites
  /\ stamp' = now
  /\ sawEmpty' = FALSE
  /\ apc' = "push"
  /\ UNCHANGED <<writeMode, q, headers, pushed, hadHeader, fileHeader, tpc, drain,
                 file, flags, now, written>>

PushBuffer ==
  /\ apc = "push"
  /\ q' = Append(q, [id |-> pushed + 1, datetime |-> stamp])
  /\ pushed' = pushed + 1
  /\ apc' = "idle"
  /\ UNCHANGED <<writeMode, stamp, headers, sawEmpty, hadHeader, fileHeader, tpc,
                 drain, file, flags, now, written>>

(* _get_queue_depth.                                                       *)
AskDepth ==
  /\ apc = "idle"
  /\ sawEmpty' = (q = << >>)
  /\ UNCHANGED <<writeMode, q, apc, stamp, headers, pushed, hadHeader, fileHeader,
                 tpc, drain, file, flags, now, written>>

(* _set_header, without a lock: the old header is freed and then dropped,  *)
(* the new one gets its length, and its bytes are copied last.             *)
SetHeader ==
  /\ apc = "idle" /\ headers < MaxHeaders
  /\ headers' = headers + 1
  /\ fileHeader' = IF fileHeader = "none" THEN "none" ELSE "raw"
  /\ apc' = "headerDrop"
  /\ UNCHANGED <<writeMode, q, stamp, pushed, sawEmpty, hadHeader, tpc, drain, file,
                 flags, now, written>>

DropHeader ==
  /\ apc = "headerDrop"
  /\ fileHeader' = "none"
  /\ apc' = "headerLength"
  /\ UNCHANGED <<writeMode, q, stamp, headers, pushed, sawEmpty, hadHeader, tpc, drain,
                 file, flags, now, written>>

HeaderLength ==
  /\ apc = "headerLength"
  /\ fileHeader' = "raw"
  /\ apc' = "headerCopy"
  /\ UNCHANGED <<writeMode, q, stamp, headers, pushed, sawEmpty, hadHeader, tpc,
                 drain, file, flags, now, written>>

HeaderCopy ==
  /\ apc = "headerCopy"
  /\ fileHeader' = "set"
  /\ hadHeader' = TRUE
  /\ apc' = "idle"
  /\ UNCHANGED <<writeMode, q, stamp, headers, pushed, sawEmpty, tpc, drain, file,
                 flags, now, written>>

(* _free: only a thread that has announced itself is waited for.           *)
FreeCall ==
  /\ apc = "idle"
  /\ threadTerminate' = threadRunning
  /\ apc' = IF threadRunning THEN "waitTerminated" ELSE "release"
  /\ UNCHANGED <<writeMode, q, stamp, headers, pushed, sawEmpty, hadHeader,
                 fileHeader, tpc, drain, file, threadRunning, threadTerminated,
                 now, written>>

(* Deviation (used by mutation tests only): _free polls the other flag.    *)
ThreadGoneEarly == threadRunning
ThreadGone == threadTerminated

FreeWait ==
  /\ apc = "waitTerminated"
  /\ ThreadGone
  /\ apc' = "release"
  /\ UNCHANGED <<writeMode, q, stamp, headers, pushed, sawEmpty, hadHeader,
                 fileHeader, tpc, drain, file, flags, now, written>>

(* The file is closed, the header freed, the queue emptied and destroyed.  *)
FreeRelease ==
  /\ apc = "release"
  /\ fh' = FALSE
  /\ fileHeader' = "none"
  /\ q' = << >>
  /\ apc' = "freed"
  /\ UNCHANGED <<writeMode, stamp, headers, pushed, sawEmpty, hadHeader, tpc, drain,
                 lastOpen, totalSegmentsCreated, failures, flags, now, written>>

------------------------------------------------------------------------------
(* The output thread.  What it would do to a freed context is undefined:   *)
(* it is not followed past Freed.                                          *)

ThreadStart ==
  /\ tpc = "start" /\ ~Freed
  /\ threadRunning' = TRUE
  /\ tpc' = "loop"
  /\ UNCHANGED <<writeMode, q, app, fileHeader, drain, file, threadTerminate,
                 threadTerminated, now, written>>

(* The condition of the while loop, then a sleep.                          *)
ThreadLoop ==
  /\ tpc = "loop" /\ ~Freed
  /\ tpc' = IF threadTerminate THEN "exit" ELSE "check"
  /\ UNCHANGED <<writeMode, q, app, fileHeader, drain, file, flags, now, written>>

(* Deviation: an off-by-one leaves a single buffer on the queue.           *)
WorkWaitsTwo == Len(q) > 1
WorkWaits == q # << >>

ThreadCheck ==
  /\ tpc = "check" /\ ~Freed
  /\ tpc' = IF WorkWaits THEN "rotate" ELSE "loop"
  /\ UNCHANGED <<writeMode, q, app, fileHeader, drain, file, flags, now, written>>

SegmentOver == now >= lastOpen + Span

(* _write: the segment is closed when it is Span seconds old.              *)
Rotate ==
  /\ tpc = "rotate" /\ ~Freed
  /\ LET open == fh /\ ~(writeMode = 1 /\ SegmentOver)
     IN  /\ fh' = open
         /\ tpc' = IF open THEN "drain" ELSE "open"
         /\ maxwrites' = WriteBudget
  /\ UNCHANGED <<writeMode, q, app, fileHeader, qi, lastOpen, totalSegmentsCreated,
                 failures, flags, now, written>>

AfterFailedOpen == "loop"

(* fopen and what follows, whether it succeeded or not.                    *)
OpenFile ==
  /\ tpc = "open" /\ ~Freed
  /\ lastOpen' = now
  /\ totalSegmentsCreated' = totalSegmentsCreated + 1
  /\ \/ /\ fh' = TRUE
        /\ files' = Append(files, [opened |-> now, header |-> "none",
                                   promised |-> hadHeader])
        /\ tpc' = "header"
        /\ UNCHANGED failures
     \/ /\ failures < MaxFailures
        /\ failures' = failures + 1
        /\ tpc' = AfterFailedOpen
        /\ UNCHANGED <<fh, files>>
  /\ UNCHANGED <<writeMode, q, app, fileHeader, drain, flags, now, totalWritten, stored>>

(* The header as it is now goes to the file ...                            *)
WriteHeader ==
  /\ tpc = "header" /\ ~Freed
  /\ files' = [files EXCEPT ![Len(files)].header = fileHeader]
  /\ tpc' = "countHeader"
  /\ UNCHANGED <<writeMode, q, app, fileHeader, drain, file, flags, now, totalWritten,
                 stored>>

(* ... and its length as it is then to the total.                          *)
CountHeader ==
  /\ tpc = "countHeader" /\ ~Freed
  /\ totalWritten' = totalWritten + IF fileHeader = "none" THEN 0 ELSE 1
  /\ tpc' = "drain"
  /\ UNCHANGED <<writeMode, q, app, fileHeader, drain, file, flags, now, files, stored>>

PopBuffer ==
  /\ tpc = "drain" /\ ~Freed
  /\ q # << >>
  /\ qi' = Head(q)
  /\ q' = Tail(q)
  /\ tpc' = "store"
  /\ UNCHANGED <<writeMode, app, fileHeader, maxwrites, file, flags, now, written>>

DrainDone ==
  /\ tpc = "drain" /\ ~Freed
  /\ q = << >>
  /\ tpc' = "loop"
  /\ UNCHANGED <<writeMode, q, app, fileHeader, drain, file, flags, now, written>>

(* Deviation: a late buffer does not end the loop.                         *)
BudgetOfLate == maxwrites
(* The writes left: none after a buffer that belongs to the next segment.  *)
Budget == IF writeMode = 1 /\ qi.datetime >= lastOpen + Span THEN 0 ELSE maxwrites

(* Deviation: the buffer of a loop that ends is not written.               *)
StoredInBudget == IF Budget = 0 THEN stored ELSE
  Append(stored, [id |-> qi.id, file |-> Len(files), datetime |-> qi.datetime])
Stored ==
  Append(stored, [id |-> qi.id, file |-> Len(files), datetime |-> qi.datetime])

(* The buffer is written; maxwrites-- <= 0 ends the loop.                  *)
StoreBuffer ==
  /\ tpc = "store" /\ ~Freed
  /\ stored' = Stored
  /\ totalWritten' = totalWritten + 1
  /\ qi' = NoBuffer
  /\ maxwrites' = Budget - 1
  /\ tpc' = IF Budget <= 0 THEN "loop" ELSE "drain"
  /\ UNCHANGED <<writeMode, q, app, fileHeader, file, flags, now, files>>

(* The two flags are cleared and set one after the other.                  *)
ThreadExit ==
  /\ tpc = "exit" /\ ~Freed
  /\ threadRunning' = FALSE
  /\ tpc' = "exited"
  /\ UNCHANGED <<writeMode, q, app, fileHeader, drain, file, threadTerminate,
                 threadTerminated, now, written>>

ThreadDone ==
  /\ tpc = "exited" /\ ~Freed
  /\ threadTerminated' = TRUE
  /\ tpc' = "done"
  /\ UNCHANGED <<writeMode, q, app, fileHeader, drain, file, threadRunning,
                 threadTerminate, now, written>>

Tick ==
  /\ now < MaxTime
  /\ now' = now + 1
  /\ UNCHANGED <<writeMode, q, app, fileHeader, tpc, drain, file, flags, written>>

Stopped == Freed /\ UNCHANGED vars

FreeReturn == FreeWait \/ FreeRelease
AppCall    == StampBuffer \/ AskDepth \/ SetHeader \/ FreeCall
AppReturn  == PushBuffer \/ DropHeader \/ HeaderLength \/ HeaderCopy \/ FreeReturn
Thread     == ThreadStart \/ ThreadLoop \/ ThreadCheck \/ Rotate \/ OpenFile
              \/ WriteHeader \/ CountHeader \/ PopBuffer \/ DrainDone
              \/ StoreBuffer \/ ThreadExit \/ ThreadDone

Next == AppCall \/ AppReturn \/ Thread \/ Tick \/ Stopped

Spec == Init /\ [][Next]_vars

(* The scheduler runs both threads; the application may make no more calls *)
(* but finishes the one it is in.                                          *)
FairSpec == Spec /\ WF_vars(AppReturn) /\ WF_vars(Thread)

------------------------------------------------------------------------------
AppPc    == {"idle", "push", "headerDrop", "headerLength", "headerCopy",
             "waitTerminated", "release", "freed"}
ThreadPc == {"start", "loop", "check", "rotate", "open", "header", "countHeader",
             "drain", "store", "exit", "exited", "done"}
Headers  == {"none", "raw", "set"}

(* Every variable has the type of its declaration in segmentwriter.c, and  *)
(* a buffer is only written to a file that was opened.                     *)
TypeOK ==
  /\ writeMode \in {0, 1}
  /\ q \in Seq([id : Nat, datetime : Int])
  /\ apc \in AppPc /\ tpc \in ThreadPc
  /\ stamp \in Int
  /\ fileHeader \in Headers
  /\ qi \in [id : Nat, datetime : Int]
  /\ maxwrites \in -1 .. WriteBudget
  /\ fh \in BOOLEAN
  /\ lastOpen \in Int /\ totalSegmentsCreated \in Nat /\ totalWritten \in Nat
  /\ threadRunning \in BOOLEAN /\ threadTerminate \in BOOLEAN
  /\ threadTerminated \in BOOLEAN
  /\ now \in Int /\ failures \in Nat /\ headers \in Nat /\ pushed \in Nat
  /\ sawEmpty \in BOOLEAN /\ hadHeader \in BOOLEAN
  /\ files \in Seq([opened : Int, header : Headers, promised : BOOLEAN])
  /\ stored \in Seq([id : Nat, file : Nat \ {0}, datetime : Int])

(* The output thread is in the part of _write that has a file and a budget *)
Draining == {"header", "countHeader", "drain", "store"}
OutputShape ==
  /\ tpc \in Draining \cup {"open"} => maxwrites >= 0
  /\ tpc \in Draining => files # << >>
  /\ fh => files # << >>

Held == IF tpc = "store" THEN 1 ELSE 0

(* Until _free, the files, the buffer in the output thread's hand and the  *)
(* queue hold every buffer once and in the order of the writes, however    *)
(* often a segment ends, fopen fails or the drain loop is cut short; and   *)
(* what _free discards is the end of the recording only.                   *)
NothingLost ==
  /\ \A i \in 1 .. Len(stored) : stored[i].id = i
  /\ ~Freed => /\ Len(stored) + Held + Len(q) = pushed
               /\ Held = 1 => qi.id = Len(stored) + 1
               /\ \A i \in 1 .. Len(q) : q[i].id = Len(stored) + Held + i

(* "let the I/O writer store to disk before framework destruction. Monitor *)
(* the status with this call": when the queue depth asked for after the    *)
(* last write was 0, _free loses nothing, although the output thread may   *)
(* still have had a buffer in its hand.                                    *)
DrainedMeansStored == Freed /\ sawEmpty => Len(stored) = pushed

(* The inductive form of DrainedMeansStored: an empty queue seen stays     *)
(* empty, and _free gets past its wait only when the output thread has     *)
(* finished or has never had anything to do.                               *)
DrainShape ==
  /\ sawEmpty => q = << >> /\ apc # "push"
  /\ threadTerminated => tpc = "done"
  /\ apc \in {"idle", "push", "headerDrop", "headerLength", "headerCopy"} => ~threadTerminate
  /\ apc = "waitTerminated" => threadTerminate
  /\ ~threadTerminate => tpc \notin {"exit", "exited", "done"}
  /\ ~threadRunning => tpc \in {"start", "exited", "done"}
  /\ tpc = "start" => stored = << >>
  /\ apc \in {"release", "freed"} /\ sawEmpty => Len(stored) = pushed

InFile(f) == {i \in 1 .. Len(stored) : stored[i].file = f}

(* Segments of the segmented mode are opened at least Span seconds apart,  *)
(* and a buffer that was queued when its segment was over is the last one  *)
(* of it; the other mode writes a single file.                             *)
SegmentsInTime ==
  /\ writeMode = 0 => Len(files) <= 1
  /\ \A f \in 1 .. Len(files) - 1 : files[f + 1].opened >= files[f].opened + Span
  /\ writeMode = 1 =>
       \A f \in 1 .. Len(files) : \A i, j \in InFile(f) :
         i < j => stored[i].datetime < files[f].opened + Span

(* The inductive form of SegmentsInTime: which file is open and when it    *)
(* was opened, that a file is only left when its time is over, that no     *)
(* buffer is dated in the future, and that a file the thread writes to     *)
(* holds no buffer dated after its end.                                    *)
SegmentShape ==
  /\ ~Freed => (tpc \in Draining => fh) /\ (tpc = "open" => ~fh)
  /\ fh => lastOpen = files[Len(files)].opened
  /\ ~Freed /\ ~fh /\ files # << >> =>
       writeMode = 1 /\ now >= files[Len(files)].opened + Span
  /\ apc = "push" => stamp <= now
  /\ \A i \in 1 .. Len(q) : q[i].datetime <= now
  /\ tpc = "store" => qi.datetime <= now
  /\ \A i \in 1 .. Len(stored) :
       stored[i].datetime <= now /\ stored[i].file <= Len(files)
  /\ writeMode = 1 /\ ~Freed /\ tpc \in Draining =>
       \A i \in InFile(Len(files)) :
         stored[i].datetime < files[Len(files)].opened + Span

(* A queued buffer is written, or discarded by _free, if fopen does not    *)
(* fail for ever: here a buffer is told by its place in the order.         *)
QueuedIsStored ==
  \A n \in 1 .. MaxWrites : pushed >= n ~> (Len(stored) >= n \/ Freed)

(* _free returns.                                                          *)
FreeReturns == apc = "waitTerminated" ~> Freed

(* "... need a fixed byte structure to be written out at the beginning of  *)
(* each segment": a segment opened after a header was set begins with a    *)
(* whole header, the old one or the new one.  The code does not keep this: *)
(* set_header takes no lock, and a segment opened under it begins with     *)
(* nothing or with bytes that are no header.                               *)
HeaderIsWhole ==
  [][tpc = "header" /\ tpc' = "countHeader" /\ files[Len(files)].promised
         => files'[Len(files)].header = "set"]_vars

(* The output thread does what its callers wait for: it stores what is     *)
(* queued, and ends when it is told to.                                    *)
ThreadServes ==
  /\ QueuedIsStored
  /\ FreeReturns
==============================================================================

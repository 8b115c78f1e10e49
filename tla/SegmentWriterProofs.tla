------------------------- MODULE SegmentWriterProofs -------------------------
(***************************************************************************)
(* Proofs about SegmentWriter, for any segment length, write budget,       *)
(* number of buffers and of failing calls of fopen.                        *)
(***************************************************************************)
EXTENDS SegmentWriter, TLAPS

Buffer == [id : Nat, datetime : Int]
FileRec == [opened : Int, header : Headers, promised : BOOLEAN]
StoredRec == [id : Nat, file : Nat \ {0}, datetime : Int]

(* The records that the steps build have their types.                      *)
LEMMA RecordTypes ==
  /\ NoBuffer \in Buffer
  /\ \A n \in Nat, t \in Int : [id |-> n, datetime |-> t] \in Buffer
  /\ \A t \in Int, b \in BOOLEAN :
       [opened |-> t, header |-> "none", promised |-> b] \in FileRec
  /\ \A b \in Buffer, f \in Nat \ {0} :
       [id |-> b.id, file |-> f, datetime |-> b.datetime] \in StoredRec
  /\ \A r \in FileRec, h \in Headers : [r EXCEPT !.header = h] \in FileRec
  /\ \A b \in Buffer : b.id \in Nat /\ b.datetime \in Int
BY DEF NoBuffer, Buffer, FileRec, StoredRec, Headers

(* Appending, taking the head, and what the length is then.                *)
LEMMA SeqFacts ==
  ASSUME NEW S, NEW s \in Seq(S)
  PROVE  /\ Len(s) \in Nat
         /\ \A x \in S : /\ Append(s, x) \in Seq(S)
                         /\ Append(s, x) # << >>
                         /\ Len(Append(s, x)) = Len(s) + 1
                         /\ Append(s, x)[Len(s) + 1] = x
                         /\ \A i \in 1 .. Len(s) : Append(s, x)[i] = s[i]
         /\ s # << >> => /\ Len(s) \in Nat \ {0}
                         /\ Head(s) \in S /\ Head(s) = s[1]
                         /\ Tail(s) \in Seq(S)
                         /\ Len(Tail(s)) = Len(s) - 1
                         /\ \A i \in 1 .. Len(Tail(s)) : Tail(s)[i] = s[i + 1]
OBVIOUS

TypeInv == TypeOK /\ OutputShape

(* The types, with the shape of the output thread they rest on.            *)
LEMMA TypeStep == TypeInv /\ [Next]_vars => TypeInv'
<1> SUFFICES ASSUME TypeOK, OutputShape, [Next]_vars PROVE (TypeOK /\ OutputShape)'
  BY DEF TypeInv
<1>q. q \in Seq(Buffer) /\ qi \in Buffer /\ files \in Seq(FileRec)
      /\ stored \in Seq(StoredRec)
  BY DEF TypeOK, Buffer, FileRec, StoredRec
<1>s. SUFFICES /\ writeMode' \in {0, 1} /\ q' \in Seq(Buffer)
               /\ apc' \in AppPc /\ tpc' \in ThreadPc /\ stamp' \in Int
               /\ fileHeader' \in Headers /\ qi' \in Buffer
               /\ maxwrites' \in -1 .. WriteBudget /\ fh' \in BOOLEAN
               /\ lastOpen' \in Int /\ totalSegmentsCreated' \in Nat
               /\ totalWritten' \in Nat
               /\ threadRunning' \in BOOLEAN /\ threadTerminate' \in BOOLEAN
               /\ threadTerminated' \in BOOLEAN
               /\ now' \in Int /\ failures' \in Nat /\ headers' \in Nat
               /\ pushed' \in Nat /\ sawEmpty' \in BOOLEAN
               /\ hadHeader' \in BOOLEAN
               /\ files' \in Seq(FileRec) /\ stored' \in Seq(StoredRec)
               /\ OutputShape'
  BY DEF TypeOK, Buffer, FileRec, StoredRec
<1> USE <1>q, SegmentAssumption
        DEF TypeOK, OutputShape, vars, app, file, drain, flags, written
<1>1. CASE AppCall
  <2>1. CASE StampBuffer
    BY <2>1 DEF StampBuffer, AppPc
  <2>2. CASE AskDepth
    BY <2>2 DEF AskDepth
  <2>3. CASE SetHeader
    BY <2>3 DEF SetHeader, AppPc, Headers
  <2>4. CASE FreeCall
    BY <2>4 DEF FreeCall, AppPc
  <2> QED BY <1>1, <2>1, <2>2, <2>3, <2>4 DEF AppCall
<1>2. CASE AppReturn
  <2>1. CASE PushBuffer
    <3>n. pushed + 1 \in Nat /\ stamp \in Int
      OBVIOUS
    <3>0. [id |-> pushed + 1, datetime |-> stamp] \in Buffer
      BY ONLY <3>n, RecordTypes
    <3>1. q' \in Seq(Buffer)
      BY ONLY <1>q, <2>1, <3>0, SeqFacts DEF PushBuffer
    <3> QED BY <2>1, <3>1 DEF PushBuffer, AppPc
  <2>6. CASE DropHeader
    BY <2>6 DEF DropHeader, AppPc, Headers
  <2>2. CASE HeaderLength
    BY <2>2 DEF HeaderLength, AppPc, Headers
  <2>3. CASE HeaderCopy
    BY <2>3 DEF HeaderCopy, AppPc, Headers
  <2>4. CASE FreeWait
    BY <2>4 DEF FreeWait, AppPc
  <2>5. CASE FreeRelease
    <3>1. q' \in Seq(Buffer) /\ fh' = FALSE
      BY <2>5 DEF FreeRelease
    <3>2. OutputShape'
      BY <2>5, <3>1 DEF FreeRelease
    <3> QED BY <2>5, <3>1, <3>2 DEF FreeRelease, AppPc, Headers
  <2> QED BY <1>2, <2>1, <2>2, <2>3, <2>4, <2>5, <2>6 DEF AppReturn, FreeReturn
<1>3. CASE Thread
  <2> USE DEF ThreadPc, Draining
  <2>1. CASE ThreadStart
    BY <2>1 DEF ThreadStart
  <2>2. CASE ThreadLoop
    BY <2>2 DEF ThreadLoop
  <2>3. CASE ThreadCheck
    BY <2>3 DEF ThreadCheck
  <2>4. CASE Rotate
    BY <2>4 DEF Rotate
  <2>5. CASE OpenFile
    <3>1. ASSUME files' = Append(files, [opened |-> now, header |-> "none",
                                         promised |-> hadHeader])
          PROVE  files' \in Seq(FileRec) /\ files' # << >>
      <4>1. [opened |-> now, header |-> "none", promised |-> hadHeader] \in FileRec
        BY RecordTypes
      <4> QED BY ONLY <1>q, <3>1, <4>1, SeqFacts
    <3>2. CASE fh' = TRUE /\ tpc' = "header"
               /\ files' \in Seq(FileRec) /\ files' # << >>
      <4>1. OutputShape'
        BY <2>5, <3>2 DEF OpenFile
      <4>2. failures' \in Nat /\ totalSegmentsCreated' \in Nat /\ lastOpen' \in Int
        BY <2>5 DEF OpenFile
      <4> QED BY <2>5, <3>2, <4>1, <4>2 DEF OpenFile
    <3>3. CASE tpc' = "loop" /\ UNCHANGED <<fh, files>>
      BY <2>5, <3>3 DEF OpenFile
    <3> QED BY <2>5, <3>1, <3>2, <3>3 DEF OpenFile, AfterFailedOpen
  <2>6. CASE WriteHeader
    <3>1. Len(files) \in 1 .. Len(files) /\ files[Len(files)] \in FileRec
      <4>1. files # << >>
        BY <2>6 DEF WriteHeader
      <4> QED BY ONLY <1>q, <4>1, SeqFacts
    <3>2. [files[Len(files)] EXCEPT !.header = fileHeader] \in FileRec
      BY <3>1, RecordTypes
    <3>3. files' = [files EXCEPT ![Len(files)] =
                      [files[Len(files)] EXCEPT !.header = fileHeader]]
      BY <2>6 DEF WriteHeader
    <3>4. files' \in Seq(FileRec) /\ files' # << >>
      BY <2>6, <3>1, <3>2, <3>3 DEF WriteHeader
    <3> QED BY <2>6, <3>4 DEF WriteHeader
  <2>7. CASE CountHeader
    BY <2>7 DEF CountHeader
  <2>8. CASE PopBuffer
    <3>1. qi' \in Buffer /\ q' \in Seq(Buffer)
      BY <2>8, SeqFacts DEF PopBuffer
    <3> QED BY <2>8, <3>1 DEF PopBuffer
  <2>9. CASE DrainDone
    BY <2>9 DEF DrainDone
  <2>10. CASE StoreBuffer
    <3>1. Len(files) \in Nat \ {0}
      BY <2>10, SeqFacts DEF StoreBuffer
    <3>2. stored' \in Seq(StoredRec)
      BY <2>10, <3>1, RecordTypes, SeqFacts DEF StoreBuffer, Stored
    <3>3. Budget \in 0 .. WriteBudget
      BY <2>10 DEF StoreBuffer, Budget
    <3>4. qi' \in Buffer
      BY <2>10, RecordTypes DEF StoreBuffer
    <3> QED BY <2>10, <3>2, <3>3, <3>4 DEF StoreBuffer
  <2>11. CASE ThreadExit
    BY <2>11 DEF ThreadExit
  <2>12. CASE ThreadDone
    BY <2>12 DEF ThreadDone
  <2> QED BY <1>3, <2>1, <2>2, <2>3, <2>4, <2>5, <2>6, <2>7, <2>8, <2>9, <2>10,
             <2>11, <2>12 DEF Thread
<1>4. CASE Tick
  BY <1>4 DEF Tick
<1>5. CASE Stopped \/ UNCHANGED vars
  <2>1. UNCHANGED vars
    BY <1>5 DEF Stopped
  <2>2. OutputShape'
    BY <2>1
  <2> QED BY <2>1, <2>2
<1> QED BY <1>1, <1>2, <1>3, <1>4, <1>5 DEF Next

(* Every reachable state is well typed, and a buffer is only ever written  *)
(* to a file that was opened, whatever calls of fopen fail.                *)
THEOREM TypeCorrect == Spec => [](TypeOK /\ OutputShape)
<1>1. Init => TypeInv
  <2> SUFFICES ASSUME Init PROVE TypeOK /\ OutputShape
    BY DEF TypeInv
  <2>1. qi \in [id : Nat, datetime : Int]
    BY DEF Init, NoBuffer
  <2>2. OutputShape
    BY DEF Init, OutputShape, Draining
  <2>4. /\ apc \in AppPc /\ tpc \in ThreadPc /\ fileHeader \in Headers
        /\ fh \in BOOLEAN /\ sawEmpty \in BOOLEAN /\ hadHeader \in BOOLEAN
        /\ threadRunning \in BOOLEAN /\ threadTerminate \in BOOLEAN
        /\ threadTerminated \in BOOLEAN
    BY DEF Init, AppPc, ThreadPc, Headers
  <2>5. /\ writeMode \in {0, 1} /\ maxwrites \in -1 .. WriteBudget
        /\ now \in Int
    BY SegmentAssumption DEF Init
  <2>3. TypeOK
    BY <2>1, <2>4, <2>5 DEF Init, TypeOK
  <2> QED BY <2>2, <2>3
<1> QED BY <1>1, TypeStep, PTL DEF Spec, TypeInv

(* A step that moves no buffer keeps them where they are.                  *)
LEMMA QuietKeeps ==
  ASSUME NothingLost, UNCHANGED <<q, qi, stored, pushed>>,
         tpc = "store" <=> tpc' = "store", Freed => Freed'
  PROVE  NothingLost'
<1>1. Held' = Held
  BY DEF Held
<1> QED BY <1>1 DEF NothingLost

(* Every step keeps every buffer, once and in order.                       *)
LEMMA LostStep == TypeOK /\ NothingLost /\ [Next]_vars => NothingLost'
<1> SUFFICES ASSUME TypeOK, NothingLost, [Next]_vars PROVE NothingLost'
  OBVIOUS
<1>q. q \in Seq(Buffer) /\ stored \in Seq(StoredRec) /\ pushed \in Nat
      /\ qi \in Buffer
  BY DEF TypeOK, Buffer, StoredRec
<1>h. Held \in {0, 1}
  BY DEF Held
<1>l. Len(q) \in Nat /\ Len(stored) \in Nat
  BY <1>q
<1> USE DEF vars, app, file, drain, flags, written
<1>1. CASE PushBuffer
  <2>1. /\ ~Freed /\ ~Freed' /\ Held' = Held /\ UNCHANGED <<qi, stored>>
        /\ pushed' = pushed + 1
        /\ q' = Append(q, [id |-> pushed + 1, datetime |-> stamp])
    BY <1>1 DEF PushBuffer, Freed, Held
  <2>2. /\ Len(q') = Len(q) + 1
        /\ q'[Len(q) + 1].id = pushed + 1
        /\ \A i \in 1 .. Len(q) : q'[i] = q[i]
    BY <1>q, <2>1
  <2>3. /\ \A i \in 1 .. Len(stored) : stored[i].id = i
        /\ Len(stored) + Held + Len(q) = pushed
        /\ Held = 1 => qi.id = Len(stored) + 1
        /\ \A i \in 1 .. Len(q) : q[i].id = Len(stored) + Held + i
    BY <2>1 DEF NothingLost
  <2>4. \A i \in 1 .. Len(q') : q'[i].id = Len(stored') + Held' + i
    <3> SUFFICES ASSUME NEW i \in 1 .. Len(q')
                 PROVE  q'[i].id = Len(stored) + Held + i
      BY <2>1
    <3>1. CASE i \in 1 .. Len(q)
      BY <2>2, <2>3, <3>1
    <3>2. CASE i = Len(q) + 1
      BY <1>l, <1>h, <2>2, <2>3, <3>2
    <3> QED BY <1>l, <2>2, <3>1, <3>2
  <2>5. Len(stored') + Held' + Len(q') = pushed'
    BY <1>l, <1>h, <1>q, <2>1, <2>2, <2>3
  <2> QED BY <2>1, <2>3, <2>4, <2>5 DEF NothingLost
<1>2. CASE FreeRelease
  <2>1. Freed' /\ UNCHANGED stored
    BY <1>2 DEF FreeRelease, Freed
  <2> QED BY <2>1 DEF NothingLost
<1>3. CASE PopBuffer
  <2>1. /\ ~Freed /\ ~Freed' /\ Held = 0 /\ Held' = 1
        /\ UNCHANGED <<stored, pushed>>
        /\ q # << >> /\ qi' = Head(q) /\ q' = Tail(q)
    BY <1>3 DEF PopBuffer, Freed, Held
  <2>2. /\ Len(q) \in Nat \ {0} /\ Head(q) = q[1] /\ Len(q') = Len(q) - 1
        /\ \A i \in 1 .. Len(q') : q'[i] = q[i + 1]
    BY <1>q, <2>1
  <2>3. /\ \A i \in 1 .. Len(stored) : stored[i].id = i
        /\ Len(stored) + Held + Len(q) = pushed
        /\ \A i \in 1 .. Len(q) : q[i].id = Len(stored) + Held + i
    BY <2>1 DEF NothingLost
  <2>4. qi'.id = Len(stored') + 1
    <3>1. 1 \in 1 .. Len(q)
      BY <2>2
    <3>2. q[1].id = Len(stored) + 0 + 1
      BY <2>1, <2>3, <3>1
    <3>3. qi'.id = q[1].id /\ Len(stored') = Len(stored)
      BY <2>1, <2>2
    <3> QED BY <1>l, <3>2, <3>3
  <2>5. \A i \in 1 .. Len(q') : q'[i].id = Len(stored') + Held' + i
    <3> SUFFICES ASSUME NEW i \in 1 .. Len(q')
                 PROVE  q'[i].id = Len(stored) + 1 + i
      BY <2>1
    <3>1. i + 1 \in 1 .. Len(q)
      BY <2>2
    <3>2. q[i + 1].id = Len(stored) + Held + (i + 1)
      BY <2>3, <3>1
    <3>3. q[i + 1].id = Len(stored) + 0 + (i + 1)
      BY <2>1, <3>2
    <3>4. q'[i].id = q[i + 1].id
      BY <2>2
    <3> QED BY <1>l, <2>2, <3>3, <3>4
  <2>6. Len(stored') + Held' + Len(q') = pushed'
    <3>1. Len(stored) + 0 + Len(q) = pushed
      BY <2>1, <2>3
    <3>3. Len(stored') = Len(stored) /\ pushed' = pushed
      BY <2>1
    <3>2. Len(stored') + 1 + Len(q') = pushed'
      BY <1>l, <2>2, <3>1, <3>3
    <3> QED BY <2>1, <3>2
  <2> QED BY <2>1, <2>3, <2>4, <2>5, <2>6 DEF NothingLost
<1>4. CASE StoreBuffer
  <2>1. /\ ~Freed /\ ~Freed' /\ Held = 1 /\ Held' = 0
        /\ UNCHANGED <<q, pushed>>
        /\ stored' = Append(stored, [id |-> qi.id, file |-> Len(files),
                                     datetime |-> qi.datetime])
    BY <1>4 DEF StoreBuffer, Stored, Freed, Held
  <2>2. /\ Len(stored') = Len(stored) + 1
        /\ stored'[Len(stored) + 1].id = qi.id
        /\ \A i \in 1 .. Len(stored) : stored'[i] = stored[i]
    BY <1>q, <2>1
  <2>3. /\ \A i \in 1 .. Len(stored) : stored[i].id = i
        /\ Len(stored) + Held + Len(q) = pushed
        /\ qi.id = Len(stored) + 1
        /\ \A i \in 1 .. Len(q) : q[i].id = Len(stored) + Held + i
    BY <2>1 DEF NothingLost
  <2>4. \A i \in 1 .. Len(stored') : stored'[i].id = i
    BY <1>l, <2>2, <2>3
  <2>5. Len(stored') + Held' + Len(q') = pushed'
    BY <1>l, <1>q, <2>1, <2>2, <2>3
  <2>6. \A i \in 1 .. Len(q') : q'[i].id = Len(stored') + Held' + i
    BY <1>l, <2>1, <2>2, <2>3
  <2> QED BY <2>1, <2>4, <2>5, <2>6 DEF NothingLost
<1>5. CASE AppCall \/ DropHeader \/ HeaderLength \/ HeaderCopy \/ FreeWait
  BY <1>5, QuietKeeps
     DEF AppCall, StampBuffer, AskDepth, SetHeader, DropHeader, FreeCall, HeaderLength,
         HeaderCopy, FreeWait, Freed
<1>6. CASE ThreadStart \/ ThreadLoop \/ ThreadCheck \/ Rotate
  BY <1>6, QuietKeeps DEF ThreadStart, ThreadLoop, ThreadCheck, Rotate, Freed
<1>7. CASE OpenFile \/ WriteHeader \/ CountHeader \/ DrainDone
  BY <1>7, QuietKeeps
     DEF OpenFile, AfterFailedOpen, WriteHeader, CountHeader, DrainDone, Freed
<1>8. CASE ThreadExit \/ ThreadDone \/ Tick \/ Stopped \/ UNCHANGED vars
  BY <1>8, QuietKeeps DEF ThreadExit, ThreadDone, Tick, Stopped, Freed
<1> QED BY <1>1, <1>2, <1>3, <1>4, <1>5, <1>6, <1>7, <1>8
        DEF Next, AppCall, AppReturn, FreeReturn, Thread

(* No buffer is lost, doubled or reordered between the application and the *)
(* files, for any number of writes, segments and failing calls of fopen.   *)
THEOREM NoBufferLost == Spec => []NothingLost
<1>1. Init => NothingLost
  BY DEF Init, NothingLost, Held
<1> QED BY <1>1, LostStep, TypeCorrect, PTL DEF Spec

(* What _free may rely on, kept by every step.                             *)
LEMMA DrainStep ==
  TypeOK /\ NothingLost /\ DrainShape /\ [Next]_vars => DrainShape'
<1> SUFFICES ASSUME TypeOK, NothingLost, DrainShape, [Next]_vars PROVE DrainShape'
  OBVIOUS
<1>l. /\ Len(q) \in Nat /\ Len(stored) \in Nat /\ pushed \in Nat
      /\ ~Freed => Len(stored) + Held + Len(q) = pushed
      /\ q = << >> <=> Len(q) = 0
      /\ stored = << >> => Len(stored) = 0
  BY DEF TypeOK, NothingLost
<1> USE DEF vars, app, file, drain, flags, written, DrainShape
<1>1. CASE FreeCall
  <2>1. CASE threadRunning
    BY <1>1, <2>1 DEF FreeCall
  <2>2. CASE ~threadRunning
    <3>1. tpc = "start" /\ stored = << >> /\ Held = 0 /\ ~Freed
      BY <1>1, <2>2 DEF FreeCall, Held, Freed
    <3>2. sawEmpty => Len(stored) = pushed
      BY <1>l, <3>1
    <3> QED BY <1>1, <2>2, <3>2 DEF FreeCall
  <2> QED BY <2>1, <2>2
<1>2. CASE FreeWait
  <2>1. tpc = "done" /\ Held = 0 /\ ~Freed
    BY <1>2 DEF FreeWait, ThreadGone, Held, Freed
  <2>2. sawEmpty => Len(stored) = pushed
    BY <1>l, <2>1
  <2> QED BY <1>2, <2>2 DEF FreeWait
<1>3. CASE FreeRelease
  BY <1>3 DEF FreeRelease
<1>4. CASE StampBuffer \/ SetHeader \/ DropHeader
  BY <1>4 DEF StampBuffer, SetHeader, DropHeader
<1>11. CASE AskDepth
  <2>1. sawEmpty' => q' = << >> /\ apc' # "push"
    BY <1>11 DEF AskDepth
  <2> QED BY <1>11, <2>1 DEF AskDepth
<1>5. CASE PushBuffer \/ HeaderLength \/ HeaderCopy
  BY <1>5 DEF PushBuffer, HeaderLength, HeaderCopy
<1>6. CASE StoreBuffer
  <2>1. Held = 1 /\ ~Freed /\ tpc = "store" /\ tpc' \in {"loop", "drain"}
    BY <1>6 DEF StoreBuffer, Held, Freed
  <2>2. ~(sawEmpty /\ apc = "release")
    BY <1>l, <2>1
  <2> QED BY <1>6, <2>1, <2>2 DEF StoreBuffer, Freed
<1>7. CASE PopBuffer
  <2>1. ~sawEmpty /\ ~sawEmpty' /\ tpc = "drain" /\ tpc' = "store"
    BY <1>7 DEF PopBuffer
  <2> QED BY <1>7, <2>1 DEF PopBuffer
<1>8. CASE ThreadStart \/ ThreadLoop \/ ThreadCheck \/ Rotate
  BY <1>8 DEF ThreadStart, ThreadLoop, ThreadCheck, Rotate
<1>9. CASE OpenFile \/ WriteHeader \/ CountHeader \/ DrainDone
  BY <1>9 DEF OpenFile, AfterFailedOpen, WriteHeader, CountHeader, DrainDone
<1>10. CASE ThreadExit \/ ThreadDone \/ Tick \/ Stopped \/ UNCHANGED vars
  BY <1>10 DEF ThreadExit, ThreadDone, Tick, Stopped
<1> QED BY <1>1, <1>2, <1>3, <1>4, <1>5, <1>6, <1>7, <1>8, <1>9, <1>10, <1>11
        DEF Next, AppCall, AppReturn, FreeReturn, Thread

(* An application that sees queue depth 0 after its last write, and then   *)
(* calls _free, has every buffer in a file, for every interleaving with    *)
(* the output thread.                                                      *)
THEOREM DrainedStored == Spec => []DrainedMeansStored
<1>1. Init => DrainShape
  BY DEF Init, DrainShape
<1>2. DrainShape => DrainedMeansStored
  BY DEF DrainShape, DrainedMeansStored, Freed
<1> QED BY <1>1, <1>2, DrainStep, NoBufferLost, TypeCorrect, PTL DEF Spec

------------------------------------------------------------------------------
(* Opening a file adds it behind the others; writing its header changes    *)
(* neither when a file was opened nor what it was promised.                *)
LEMMA OpenedFile ==
  ASSUME TypeOK, OpenFile, tpc' = "header"
  PROVE  /\ files' = Append(files, [opened |-> now, header |-> "none",
                                    promised |-> hadHeader])
         /\ Len(files') = Len(files) + 1 /\ Len(files) \in Nat
         /\ files'[Len(files')].opened = now
         /\ files'[Len(files')].promised = hadHeader
         /\ \A f \in 1 .. Len(files) : files'[f] = files[f]
         /\ lastOpen' = now /\ fh' = TRUE /\ now' = now
<1>1. files \in Seq(FileRec) /\ hadHeader \in BOOLEAN /\ now \in Int
  BY DEF TypeOK, FileRec
<1>2. files' = Append(files, [opened |-> now, header |-> "none", promised |-> hadHeader])
      /\ lastOpen' = now /\ fh' = TRUE /\ now' = now
  BY DEF OpenFile, AfterFailedOpen
<1> HIDE DEF FileRec
<1>3. [opened |-> now, header |-> "none", promised |-> hadHeader] \in FileRec
  BY <1>1, RecordTypes
<1> QED BY <1>1, <1>2, <1>3

LEMMA HeaderWritten ==
  ASSUME TypeOK, OutputShape, WriteHeader
  PROVE  /\ Len(files') = Len(files) /\ Len(files) \in Nat \ {0}
         /\ files' # << >>
         /\ files'[Len(files)].header = fileHeader
         /\ \A f \in 1 .. Len(files) :
              files'[f].opened = files[f].opened /\ files'[f].promised = files[f].promised
<1>1. files \in Seq(FileRec) /\ files # << >>
  BY DEF TypeOK, FileRec, OutputShape, WriteHeader, Draining
<1>2. files' = [files EXCEPT ![Len(files)].header = fileHeader]
  BY DEF WriteHeader
<1>3. Len(files) \in Nat \ {0}
  BY <1>1
<1>5. ASSUME NEW f \in 1 .. Len(files) PROVE files[f] \in FileRec
  BY <1>1
<1>4. Len(files') = Len(files) /\ files' # << >>
  BY <1>1, <1>2, <1>3
<1> QED BY <1>1, <1>2, <1>3, <1>4, <1>5 DEF FileRec

------------------------------------------------------------------------------
(* What the types say of the records in the queue, in the output thread's  *)
(* hand, in the list of files and among the buffers written.               *)
LEMMA FieldTypes ==
  ASSUME TypeOK
  PROVE  /\ now \in Int /\ stamp \in Int /\ lastOpen \in Int /\ Span \in Int
         /\ pushed \in Nat /\ Len(files) \in Nat /\ Len(stored) \in Nat /\ Len(q) \in Nat
         /\ q \in Seq(Buffer) /\ qi \in Buffer /\ files \in Seq(FileRec)
         /\ stored \in Seq(StoredRec)
         /\ qi.datetime \in Int
         /\ \A i \in 1 .. Len(q) : q[i].datetime \in Int
         /\ \A i \in 1 .. Len(stored) :
              stored[i].datetime \in Int /\ stored[i].file \in Nat \ {0}
         /\ \A f \in 1 .. Len(files) : files[f].opened \in Int
         /\ files # << >> => Len(files) \in 1 .. Len(files)
<1>1. /\ q \in Seq(Buffer) /\ qi \in Buffer /\ files \in Seq(FileRec)
      /\ stored \in Seq(StoredRec)
  BY DEF TypeOK, Buffer, FileRec, StoredRec
<1>2. now \in Int /\ stamp \in Int /\ lastOpen \in Int /\ Span \in Int /\ pushed \in Nat
  BY SegmentAssumption DEF TypeOK
<1>3. /\ \A b \in Buffer : b.datetime \in Int
      /\ \A r \in FileRec : r.opened \in Int
      /\ \A r \in StoredRec : r.datetime \in Int /\ r.file \in Nat \ {0}
  BY DEF Buffer, FileRec, StoredRec
<1>4. /\ \A i \in 1 .. Len(q) : q[i] \in Buffer
      /\ \A i \in 1 .. Len(stored) : stored[i] \in StoredRec
      /\ \A f \in 1 .. Len(files) : files[f] \in FileRec
  BY ONLY <1>1
<1>5. /\ Len(files) \in Nat /\ Len(stored) \in Nat /\ Len(q) \in Nat
      /\ files # << >> => Len(files) \in 1 .. Len(files)
  BY ONLY <1>1
<1> QED BY ONLY <1>1, <1>2, <1>3, <1>4, <1>5

(* A step that changes no file, stores no buffer, dates none and lets time *)
(* pass only forwards keeps the files in time, if the output thread stays  *)
(* where it was as far as they are concerned.                              *)
LEMMA TimeQuiet ==
  ASSUME TypeOK, SegmentShape, SegmentsInTime,
         UNCHANGED <<writeMode, files, fh, lastOpen, stored, qi>>,
         now' \in Int, now' >= now, Freed => Freed', apc' = "push" => apc = "push" /\ stamp' = stamp,
         tpc' \in Draining => tpc \in Draining, tpc' = "open" => tpc = "open",
         tpc' = "store" => tpc = "store",
         q' = q \/ q' = << >>
  PROVE  SegmentShape' /\ SegmentsInTime'
<1>1. /\ InFile(Len(files))' = InFile(Len(files)) /\ now \in Int /\ stamp \in Int
      /\ \A f : InFile(f)' = InFile(f)
  BY DEF TypeOK, InFile
<1>t. /\ Span \in Int /\ qi.datetime \in Int
      /\ \A i \in 1 .. Len(q) : q[i].datetime \in Int
      /\ \A i \in 1 .. Len(stored) : stored[i].datetime \in Int
      /\ files # << >> => files[Len(files)].opened \in Int
  BY ONLY FieldTypes, TypeOK
<1>2. SegmentsInTime'
  BY <1>1 DEF SegmentsInTime
<1>3. /\ apc' = "push" => stamp' <= now'
      /\ \A i \in 1 .. Len(q') : q'[i].datetime <= now'
      /\ tpc' = "store" => qi'.datetime <= now'
      /\ \A i \in 1 .. Len(stored') :
           stored'[i].datetime <= now' /\ stored'[i].file <= Len(files')
  BY <1>1, <1>t DEF SegmentShape
<1>4. /\ ~Freed' => (tpc' \in Draining => fh') /\ (tpc' = "open" => ~fh')
      /\ fh' => lastOpen' = files'[Len(files')].opened
      /\ ~Freed' /\ ~fh' /\ files' # << >> =>
           writeMode' = 1 /\ now' >= files'[Len(files')].opened + Span
      /\ writeMode' = 1 /\ ~Freed' /\ tpc' \in Draining =>
           \A i \in InFile(Len(files))' :
             stored'[i].datetime < files'[Len(files')].opened + Span
  BY <1>1, <1>t DEF SegmentShape
<1> QED BY <1>2, <1>3, <1>4 DEF SegmentShape

(* Every step keeps the segments in time.                                  *)
LEMMA TimeStep ==
  TypeOK /\ OutputShape /\ SegmentShape /\ SegmentsInTime /\ [Next]_vars
    => SegmentShape' /\ SegmentsInTime'
<1> SUFFICES ASSUME TypeOK, OutputShape, SegmentShape, SegmentsInTime, [Next]_vars
             PROVE  SegmentShape' /\ SegmentsInTime'
  OBVIOUS
<1>t. /\ now \in Int /\ Span \in Int /\ stamp \in Int /\ Len(files) \in Nat
      /\ files \in Seq(FileRec) /\ q \in Seq(Buffer) /\ stored \in Seq(StoredRec)
      /\ qi \in Buffer /\ pushed \in Nat
  BY FieldTypes
<1> USE DEF vars, app, file, drain, flags, written
<1>1. CASE OpenFile
  <2>0. ~Freed /\ ~Freed' /\ ~fh /\ UNCHANGED <<writeMode, stored, now, q, qi, apc, stamp>>
    BY <1>1 DEF OpenFile, SegmentShape, Freed
  <2>1. CASE tpc' = "header"
    <3>0. /\ Len(files') = Len(files) + 1 /\ Len(files) \in Nat
          /\ files'[Len(files')].opened = now
          /\ \A f \in 1 .. Len(files) : files'[f] = files[f]
          /\ lastOpen' = now /\ fh' = TRUE
      BY <1>1, <2>1, OpenedFile
    <3>1. \A i \in 1 .. Len(stored) : stored[i].file <= Len(files) /\ stored[i].file \in Nat
      BY FieldTypes DEF SegmentShape
    <3>2. \A i \in 1 .. Len(stored') : stored'[i].file # Len(files')
      BY <2>0, <3>0, <3>1
    <3>b. InFile(Len(files))' = {}
      BY <3>2 DEF InFile
    <3>3. \A f : InFile(f)' = InFile(f)
      BY <2>0 DEF InFile
    <3>4. files # << >> => writeMode = 1 /\ now >= files[Len(files)].opened + Span
      BY <2>0 DEF SegmentShape
    <3>n. Len(files) # 0 => files # << >>
      BY <1>t
    <3>5. writeMode' = 0 => Len(files') <= 1
      BY <2>0, <3>0, <3>4, <3>n
    <3>6. ASSUME NEW f \in 1 .. Len(files') - 1
          PROVE  files'[f + 1].opened >= files'[f].opened + Span
      <4>1. CASE f = Len(files)
        <5>1. f + 1 = Len(files') /\ files'[f] = files[f] /\ Len(files) # 0
          BY <3>0, <4>1
        <5> QED BY <3>0, <3>4, <3>n, <4>1, <5>1
      <4>2. CASE f < Len(files)
        <5>1. f \in 1 .. Len(files) - 1 /\ f + 1 \in 1 .. Len(files)
              /\ f \in 1 .. Len(files)
          BY <3>0, <4>2
        <5> QED BY <3>0, <5>1 DEF SegmentsInTime
      <4> QED BY <3>0, <4>1, <4>2
    <3>7. ASSUME writeMode' = 1, NEW f \in 1 .. Len(files'), NEW i \in InFile(f)',
                 NEW j \in InFile(f)', i < j
          PROVE  stored'[i].datetime < files'[f].opened + Span
      <4>1. f # Len(files')
        BY <3>2, <3>7 DEF InFile
      <4>2. f \in 1 .. Len(files) /\ i \in InFile(f) /\ j \in InFile(f)
        BY <3>0, <3>3, <4>1
      <4> QED BY <2>0, <3>0, <3>7, <4>2 DEF SegmentsInTime
    <3>8. SegmentsInTime'
      BY <3>5, <3>6, <3>7 DEF SegmentsInTime
    <3>a. \A i \in 1 .. Len(stored') :
            stored'[i].datetime <= now' /\ stored'[i].file <= Len(files')
      BY <2>0, <3>0, <3>1 DEF SegmentShape
    <3>9. SegmentShape'
      BY <2>0, <2>1, <3>0, <3>b, <3>a DEF SegmentShape, Draining
    <3> QED BY <3>8, <3>9
  <2>2. CASE tpc' # "header"
    <3>1. UNCHANGED <<fh, files>> /\ tpc' = "loop"
      BY <1>1, <2>2 DEF OpenFile, AfterFailedOpen
    <3>2. SegmentsInTime'
      BY <2>0, <3>1 DEF SegmentsInTime, InFile
    <3> QED BY <2>0, <3>1, <3>2 DEF SegmentShape, Draining
  <2> QED BY <2>1, <2>2
<1>2. CASE WriteHeader
  <2>1. /\ UNCHANGED <<writeMode, stored, now, q, qi, apc, stamp, fh, lastOpen>>
        /\ Freed' = Freed /\ tpc = "header" /\ tpc' = "countHeader"
    BY <1>2 DEF WriteHeader, Freed
  <2>2. \A f : InFile(f)' = InFile(f)
    BY <2>1 DEF InFile
  <2>3. /\ Len(files') = Len(files) /\ files' # << >> /\ files # << >>
        /\ \A f \in 1 .. Len(files) : files'[f].opened = files[f].opened
        /\ Len(files) \in 1 .. Len(files)
    BY <1>2, <1>t, HeaderWritten
  <2>4. SegmentsInTime'
    <3>1. \A f \in 1 .. Len(files') - 1 : f \in 1 .. Len(files) /\ f + 1 \in 1 .. Len(files)
      BY <2>3
    <3> QED BY <2>1, <2>2, <2>3, <3>1 DEF SegmentsInTime
  <2>5. SegmentShape'
    BY <2>1, <2>2, <2>3 DEF SegmentShape, Draining
  <2> QED BY <2>4, <2>5
<1>3. CASE Rotate
  <2>1. /\ UNCHANGED <<writeMode, stored, now, q, qi, apc, stamp, files, lastOpen>>
        /\ ~Freed /\ ~Freed' /\ tpc' \in {"drain", "open"}
    BY <1>3 DEF Rotate, Freed
  <2>2. SegmentsInTime' /\ \A f : InFile(f)' = InFile(f)
    BY <2>1 DEF SegmentsInTime, InFile
  <2>3. fh => files # << >> /\ files[Len(files)].opened \in Int
    BY FieldTypes DEF OutputShape
  <2>4. CASE tpc' = "drain"
    <3>1. fh /\ fh' /\ (writeMode = 1 => ~SegmentOver)
      BY <1>3, <2>4 DEF Rotate
    <3>2. writeMode = 1 => now < files[Len(files)].opened + Span
      BY <1>t, <2>3, <3>1 DEF SegmentOver, SegmentShape
    <3>3. ASSUME NEW i \in InFile(Len(files)), writeMode = 1
          PROVE  stored[i].datetime < files[Len(files)].opened + Span
      <4>1. stored[i].datetime \in Int /\ stored[i].datetime <= now
        BY FieldTypes DEF InFile, SegmentShape
      <4> QED BY <1>t, <2>3, <3>1, <3>2, <3>3, <4>1
    <3> QED BY <2>1, <2>2, <2>4, <3>1, <3>3 DEF SegmentShape, Draining
  <2>5. CASE tpc' = "open"
    <3>1. ~fh'
      BY <1>3, <2>5 DEF Rotate
    <3>2. fh => writeMode = 1 /\ now >= files[Len(files)].opened + Span
      BY <1>3, <2>5 DEF Rotate, SegmentOver, SegmentShape
    <3> QED BY <2>1, <2>2, <2>5, <3>1, <3>2 DEF SegmentShape, Draining
  <2> QED BY <2>1, <2>4, <2>5
<1>4. CASE StoreBuffer
  <2>1. /\ UNCHANGED <<writeMode, now, q, apc, stamp, files, lastOpen, fh>>
        /\ ~Freed /\ ~Freed' /\ tpc = "store" /\ tpc' \in {"drain", "loop"}
        /\ stored' = Append(stored, [id |-> qi.id, file |-> Len(files),
                                     datetime |-> qi.datetime])
        /\ writeMode = 1 /\ tpc' = "drain" => qi.datetime < lastOpen + Span
    BY <1>4, <1>t DEF StoreBuffer, Stored, Budget, Freed, TypeOK, Buffer
  <2>2. /\ files # << >> /\ fh /\ files[Len(files)].opened \in Int
        /\ lastOpen = files[Len(files)].opened /\ Len(files) \in Nat \ {0}
    BY FieldTypes, <2>1 DEF OutputShape, SegmentShape, Draining
  <2>3. [id |-> qi.id, file |-> Len(files), datetime |-> qi.datetime] \in StoredRec
    BY <1>t, <2>2, RecordTypes
  <2>4. /\ Len(stored) \in Nat /\ Len(stored') = Len(stored) + 1
        /\ \A i \in 1 .. Len(stored) : stored'[i] = stored[i]
        /\ stored'[Len(stored) + 1].file = Len(files)
        /\ stored'[Len(stored) + 1].datetime = qi.datetime
    BY <1>t, <2>1, <2>3 DEF StoredRec
  <2>5. qi.datetime \in Int /\ qi.datetime <= now
    BY FieldTypes, <2>1 DEF SegmentShape
  <2>6. \A i \in InFile(Len(files)) :
          writeMode = 1 => stored[i].datetime < files[Len(files)].opened + Span
    BY <2>1 DEF SegmentShape, Draining
  <2>7. \A f : \A i \in InFile(f)' : i \in InFile(f) \/ (i = Len(stored) + 1 /\ f = Len(files))
    BY <2>4 DEF InFile
  <2>8. ASSUME writeMode' = 1, NEW f \in 1 .. Len(files'), NEW i \in InFile(f)',
               NEW j \in InFile(f)', i < j
        PROVE  stored'[i].datetime < files'[f].opened + Span
    <3>1. i \in 1 .. Len(stored) /\ stored'[i] = stored[i] /\ i \in InFile(f)
      BY <2>4, <2>7, <2>8 DEF InFile
    <3>2. CASE j \in InFile(f)
      BY <2>1, <2>8, <3>1, <3>2 DEF SegmentsInTime
    <3>3. CASE f = Len(files)
      BY <2>1, <2>6, <2>8, <3>1, <3>3
    <3> QED BY <2>7, <3>2, <3>3
  <2>9. SegmentsInTime'
    BY <2>1, <2>8 DEF SegmentsInTime
  <2>10. \A i \in 1 .. Len(stored') :
           stored'[i].datetime <= now' /\ stored'[i].file <= Len(files')
    BY <2>1, <2>2, <2>4, <2>5 DEF SegmentShape
  <2>11. writeMode' = 1 /\ tpc' \in Draining =>
           \A i \in InFile(Len(files))' :
             stored'[i].datetime < files'[Len(files')].opened + Span
    <3> SUFFICES ASSUME writeMode = 1, tpc' = "drain", NEW i \in InFile(Len(files))'
                 PROVE  stored'[i].datetime < files'[Len(files')].opened + Span
      BY <2>1 DEF Draining
    <3>1. CASE i \in InFile(Len(files))
      BY <2>1, <2>4, <2>6, <3>1 DEF InFile
    <3>2. CASE i = Len(stored) + 1
      BY <2>1, <2>2, <2>4, <3>2
    <3> QED BY <2>1, <2>7, <3>1, <3>2
  <2> QED BY <2>1, <2>9, <2>10, <2>11, <2>2 DEF SegmentShape
<1>5. CASE PopBuffer
  <2>1. /\ UNCHANGED <<writeMode, now, apc, stamp, files, lastOpen, fh, stored>>
        /\ ~Freed /\ ~Freed' /\ tpc = "drain" /\ tpc' = "store"
        /\ q # << >> /\ qi' = Head(q) /\ q' = Tail(q)
    BY <1>5 DEF PopBuffer, Freed
  <2>2. /\ Len(q) \in Nat \ {0} /\ qi' = q[1] /\ Len(q') = Len(q) - 1
        /\ \A i \in 1 .. Len(q') : q'[i] = q[i + 1]
    BY <1>t, <2>1
  <2>3. qi'.datetime <= now' /\ \A i \in 1 .. Len(q') : q'[i].datetime <= now'
    BY <2>1, <2>2 DEF SegmentShape
  <2>4. SegmentsInTime' /\ \A f : InFile(f)' = InFile(f)
    BY <2>1 DEF SegmentsInTime, InFile
  <2> QED BY <2>1, <2>3, <2>4 DEF SegmentShape, Draining
<1>6. CASE PushBuffer
  <2>1. /\ UNCHANGED <<writeMode, now, stamp, files, lastOpen, fh, stored, qi, tpc>>
        /\ Freed' = Freed /\ apc = "push" /\ apc' = "idle"
        /\ q' = Append(q, [id |-> pushed + 1, datetime |-> stamp])
    BY <1>6 DEF PushBuffer, Freed
  <2>5. pushed + 1 \in Nat
    BY <1>t
  <2>2. [id |-> pushed + 1, datetime |-> stamp] \in Buffer
    BY ONLY <1>t, <2>5, RecordTypes
  <2>6. /\ Len(q') = Len(q) + 1 /\ Len(q) \in Nat
        /\ q'[Len(q) + 1] = [id |-> pushed + 1, datetime |-> stamp]
        /\ \A i \in 1 .. Len(q) : q'[i] = q[i]
    BY ONLY <1>t, <2>1, <2>2, SeqFacts
  <2>3. \A i \in 1 .. Len(q') : q'[i].datetime <= now'
    BY <2>1, <2>6 DEF SegmentShape
  <2>4. SegmentsInTime' /\ \A f : InFile(f)' = InFile(f)
    BY <2>1 DEF SegmentsInTime, InFile
  <2> QED BY <2>1, <2>3, <2>4 DEF SegmentShape
<1>7. CASE StampBuffer
  <2>1. /\ UNCHANGED <<writeMode, now, files, lastOpen, fh, stored, qi, q, tpc>>
        /\ Freed' = Freed /\ apc' = "push" /\ stamp' = now
    BY <1>7 DEF StampBuffer, Freed
  <2>4. SegmentsInTime' /\ \A f : InFile(f)' = InFile(f)
    BY <2>1 DEF SegmentsInTime, InFile
  <2> QED BY <1>t, <2>1, <2>4 DEF SegmentShape
<1>8. CASE FreeRelease
  <2>1. /\ UNCHANGED <<writeMode, now, files, lastOpen, stored, qi, tpc, stamp>>
        /\ Freed' /\ apc' = "freed" /\ ~fh' /\ q' = << >>
    BY <1>8 DEF FreeRelease, Freed
  <2>4. SegmentsInTime' /\ \A f : InFile(f)' = InFile(f)
    BY <2>1 DEF SegmentsInTime, InFile
  <2> QED BY <2>1, <2>4 DEF SegmentShape
<1>9. CASE AskDepth \/ SetHeader \/ DropHeader \/ FreeCall \/ HeaderLength \/ HeaderCopy \/ FreeWait
  BY <1>9, <1>t, TimeQuiet
     DEF AskDepth, SetHeader, DropHeader, FreeCall, HeaderLength, HeaderCopy, FreeWait, Freed
<1>10. CASE ThreadStart \/ ThreadLoop \/ ThreadCheck \/ CountHeader
            \/ DrainDone \/ ThreadExit \/ ThreadDone
  BY <1>10, <1>t, TimeQuiet
     DEF ThreadStart, ThreadLoop, ThreadCheck, CountHeader, DrainDone, ThreadExit,
         ThreadDone, Freed, Draining
<1>11. CASE Tick \/ Stopped \/ UNCHANGED vars
  BY <1>11, <1>t, TimeQuiet DEF Tick, Stopped, Freed
<1> QED BY <1>1, <1>2, <1>3, <1>4, <1>5, <1>6, <1>7, <1>8, <1>9, <1>10, <1>11
        DEF Next, AppCall, AppReturn, FreeReturn, Thread

(* Segments are opened at least Span seconds apart and a buffer of the     *)
(* next segment's time is the last one of its segment; the other mode has  *)
(* a single file.  For any length of the segments and any failing fopen.   *)
THEOREM InTime == Spec => []SegmentsInTime
<1>1. Init => SegmentShape /\ SegmentsInTime
  BY SegmentAssumption DEF Init, SegmentShape, SegmentsInTime, InFile, Freed, Draining
<1> QED BY <1>1, TimeStep, TypeCorrect, PTL DEF Spec
==============================================================================

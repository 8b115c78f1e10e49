------------------------ MODULE TR101290AlarmsProofs ------------------------
(***************************************************************************)
(* Proofs about TR101290Alarms, for any number of events, any times of the *)
(* table, and any number of writes, verdicts and calls.                    *)
(***************************************************************************)
EXTENDS TR101290Alarms, TLAPS

Record == [id : AlarmEvents, raised : BOOLEAN]

CallRecord == [op : {"raise", "clear"}, e : AlarmEvents, at : Writes]

(* One write of a call keeps the types of the table and touches one field  *)
(* of one event.                                                           *)
LEMMA WriteTypes ==
  ASSUME AlarmTypeOK, NEW e \in AlarmEvents, NEW t \in Nat, NEW r \in BOOLEAN, NEW at, NEW to,
         alarm_writes(e, t, r, at, to)
  PROVE  /\ enabled' \in [AlarmEvents -> BOOLEAN] /\ raised' \in [AlarmEvents -> BOOLEAN]
         /\ lastChanged' \in [AlarmEvents -> Int] /\ lastReported' \in [AlarmEvents -> Int]
         /\ nextAlarm' \in [AlarmEvents -> Int]
         /\ at # "none" /\ to \in {"lastChanged", "nextAlarm", "none"}
         /\ at = "raised" <=> to = "lastChanged"
         /\ at = "nextAlarm" <=> to = "none"
         /\ \A f \in AlarmEvents \ {e} : raised'[f] = raised[f] /\ nextAlarm'[f] = nextAlarm[f]
         /\ IF at = "raised" THEN raised'[e] <=> r ELSE raised' = raised
         /\ IF at = "nextAlarm" THEN nextAlarm'[e] = t + AutoClear ELSE nextAlarm' = nextAlarm
<1>1. CASE at = "raised"
  BY <1>1 DEF alarm_writes, AlarmTypeOK
<1>2. CASE at = "lastChanged"
  <2>1. /\ to = "nextAlarm" /\ UNCHANGED <<enabled, raised, nextAlarm, lastReported>>
        /\ lastChanged' = [lastChanged EXCEPT ![e] = t]
    BY <1>2 DEF alarm_writes
  <2>2. lastChanged' \in [AlarmEvents -> Int]
    BY <2>1 DEF AlarmTypeOK
  <2> QED BY <1>2, <2>1, <2>2 DEF AlarmTypeOK
<1>3. CASE at = "nextAlarm"
  <2>1. /\ to = "none" /\ UNCHANGED <<enabled, raised, lastChanged, lastReported>>
        /\ nextAlarm' = [nextAlarm EXCEPT ![e] = t + AutoClear]
    BY <1>3 DEF alarm_writes, Hold
  <2>2. t + AutoClear \in Int
    BY AlarmAssumption
  <2>3. /\ nextAlarm' \in [AlarmEvents -> Int] /\ nextAlarm'[e] = t + AutoClear
        /\ \A f \in AlarmEvents \ {e} : nextAlarm'[f] = nextAlarm[f]
    BY <2>1, <2>2 DEF AlarmTypeOK
  <2> QED BY <1>3, <2>1, <2>3 DEF AlarmTypeOK
<1> QED BY <1>1, <1>2, <1>3 DEF alarm_writes

(* The tests of the calls.                                                 *)
LEMMA TestTypes ==
  ASSUME NEW e, NEW t
  PROVE  /\ raise_tests(e) \in Writes \ {"none"} /\ clear_tests(e, t) \in Writes \ {"none"}
         /\ raise_tests(e) # "raised" => raise_tests(e) = "nextAlarm" /\ raised[e]
BY DEF raise_tests, clear_tests, Writes

(* The loop index goes through the table and starts again.                 *)
LEMMA IndexTypes ==
  ASSUME AlarmTypeOK
  PROVE  (IF index = NEvents THEN 1 ELSE index + 1) \in AlarmEvents
BY AlarmAssumption DEF AlarmTypeOK, AlarmEvents

LEMMA TypeStep == AlarmTypeOK /\ [AlarmNext]_alarmVars => AlarmTypeOK'
<1> SUFFICES ASSUME AlarmTypeOK, [AlarmNext]_alarmVars PROVE AlarmTypeOK'
  OBVIOUS
<1> USE DEF table, app, monitor, flags, history, alarmVars
<1>n. Verdicts \in Nat \ {0} /\ 1 \in AlarmEvents
  BY AlarmAssumption DEF AlarmEvents
<1>1. CASE WriteBegin
  <2>1. sNow' \in Nat
    BY <1>1, AlarmAssumption DEF WriteBegin, AlarmTypeOK
  <2> QED BY <1>1, <2>1 DEF WriteBegin, AlarmTypeOK, AppPc
<1>2. CASE ResetBegin
  <2>1. todo' \in [AlarmEvents -> 0 .. Verdicts]
    BY <1>2, <1>n DEF ResetBegin
  <2> QED BY <1>2, <2>1 DEF ResetBegin, AlarmTypeOK, AppPc
<1>3. CASE FreeCall \/ FreeWait
  BY <1>3 DEF FreeCall, FreeWait, AlarmTypeOK, AppPc
<1>4. ASSUME NEW e \in AlarmEvents, EventClear(e) PROVE AlarmTypeOK'
  <2>1. raised' \in [AlarmEvents -> BOOLEAN] /\ judgedAt' \in [AlarmEvents -> Nat] /\ asked' \in Nat
    BY <1>4 DEF EventClear, AlarmTypeOK
  <2> QED BY <1>4, <2>1 DEF EventClear, AlarmTypeOK
<1>5. ASSUME NEW e \in AlarmEvents, EventProcessing(e) PROVE AlarmTypeOK'
  <2>1. enabled' \in [AlarmEvents -> BOOLEAN] /\ asked' \in Nat
    BY <1>5 DEF EventProcessing, AlarmTypeOK
  <2> QED BY <1>5, <2>1 DEF EventProcessing, AlarmTypeOK
<1>6. ASSUME NEW e \in AlarmEvents, Judge(e) \/ ResetEvent(e) PROVE AlarmTypeOK'
  <2>1. /\ alarm' \in CallRecord /\ alarm'.e = e /\ alarm'.at # "none"
        /\ apc \in {"judge", "reset"} /\ todo[e] > 0
    BY <1>6, TestTypes DEF Judge, ResetEvent, CallRecord, Writes
  <2>2. raced' \in [AlarmEvents -> BOOLEAN]
    BY <1>6 DEF Judge, ResetEvent, ThreadAt, AlarmTypeOK
  <2> QED BY <1>6, <2>1, <2>2 DEF Judge, ResetEvent, AlarmTypeOK, CallRecord
<1>7. CASE CallWrites
  <2>1. PICK at \in {"lastChanged", "nextAlarm", "none"} :
          /\ alarm_writes(alarm.e, sNow, alarm.op = "raise", alarm.at, at)
          /\ alarm' = [alarm EXCEPT !.at = at]
          /\ todo' = IF at = "none" THEN [todo EXCEPT ![alarm.e] = @ - 1] ELSE todo
          /\ apc' = IF \E f \in AlarmEvents : todo'[f] > 0 THEN apc ELSE "idle"
          /\ judgedAt' = IF at = "none" /\ apc = "judge"
                           THEN [judgedAt EXCEPT ![alarm.e] = sNow] ELSE judgedAt
    BY <1>7 DEF CallWrites
  <2>2. /\ alarm.e \in AlarmEvents /\ sNow \in Nat /\ todo[alarm.e] > 0 /\ apc \in {"judge", "reset"}
        /\ alarm' \in CallRecord /\ alarm'.e = alarm.e /\ alarm'.at = at
    BY <1>7, <2>1 DEF CallWrites, AlarmTypeOK, CallRecord, Writes
  <2>3. todo[alarm.e] - 1 \in 0 .. Verdicts
    BY <2>2, AlarmAssumption DEF AlarmTypeOK
  <2>4. todo' \in [AlarmEvents -> 0 .. Verdicts] /\ judgedAt' \in [AlarmEvents -> Nat]
    BY <2>1, <2>2, <2>3 DEF AlarmTypeOK
  <2>5. apc' \in AppPc /\ (alarm'.at # "none" => apc' \in {"judge", "reset"} /\ todo'[alarm'.e] > 0)
    BY <2>1, <2>2 DEF AppPc
  <2>6. /\ enabled' \in [AlarmEvents -> BOOLEAN] /\ raised' \in [AlarmEvents -> BOOLEAN]
        /\ lastChanged' \in [AlarmEvents -> Int] /\ lastReported' \in [AlarmEvents -> Int]
        /\ nextAlarm' \in [AlarmEvents -> Int]
    BY <2>1, <2>2, WriteTypes
  <2> QED BY <1>7, <2>2, <2>4, <2>5, <2>6 DEF CallWrites, AlarmTypeOK, CallRecord
<1>8. CASE ThreadStart \/ ThreadLoop \/ ThreadWake \/ CopyAlarms \/ ThreadExit \/ ThreadDone
  BY <1>8, <1>n DEF ThreadStart, ThreadLoop, ThreadWake, CopyAlarms, ThreadExit,
                    ThreadDone, AlarmTypeOK, ThreadPc
<1>9. CASE RaiseBegin
  <2>1. tat' \in Writes /\ raced' \in [AlarmEvents -> BOOLEAN]
    BY <1>9, TestTypes DEF RaiseBegin, AppAt, AlarmTypeOK
  <2> QED BY <1>9, <2>1 DEF RaiseBegin, AlarmTypeOK
<1>10. CASE SkipEvent \/ ExpireEvent
  <2>1. index' \in AlarmEvents /\ tpc' \in ThreadPc /\ tat = "none" /\ raced' \in [AlarmEvents -> BOOLEAN]
    BY <1>10, IndexTypes DEF SkipEvent, ExpireEvent, NextEvent, AppAt, AlarmTypeOK, ThreadPc
  <2> QED BY <1>10, <2>1 DEF SkipEvent, ExpireEvent, AlarmTypeOK
<1>11. CASE VisitEvent
  <2>0. LastReport(index) \in Int /\ tnow + Slack \in Int
    BY AlarmAssumption DEF LastReport, AlarmTypeOK
  <2>t. lastReported \in [AlarmEvents -> Int] /\ index \in AlarmEvents
    BY DEF AlarmTypeOK
  <2>v. \/ lastReported' = [lastReported EXCEPT ![index] = tnow + Slack] /\ tpc' = "record"
        \/ lastReported' = [lastReported EXCEPT ![index] = LastReport(index)] /\ tpc' = "expire"
    BY <1>11 DEF VisitEvent
  <2>1. lastReported' \in [AlarmEvents -> Int] /\ tpc' \in ThreadPc
    BY <2>0, <2>t, <2>v DEF ThreadPc
  <2> QED BY <1>11, <2>1 DEF VisitEvent, AlarmTypeOK
<1>12. CASE RecordAlarm
  <2>0. alarm_tbl \in Seq(Record) /\ [id |-> index, raised |-> raised[index]] \in Record
    BY DEF AlarmTypeOK, Record
  <2>1. alarm_tbl' \in Seq(Record)
    BY <1>12, <2>0 DEF RecordAlarm
  <2> QED BY <1>12, <2>1 DEF RecordAlarm, AlarmTypeOK, ThreadPc, Record
<1>13. ASSUME NEW t \in Nat, NEW after \in {"loop", "copy"}, ThreadWrites(t, after),
              tpc \in {"raiseAll", "raise"}
       PROVE  AlarmTypeOK'
  <2>1. PICK at \in {"lastChanged", "nextAlarm", "none"} :
          /\ alarm_writes(index, t, TRUE, tat, at)
          /\ tat' = at
          /\ IF at = "none" THEN NextEvent(after) ELSE UNCHANGED <<tpc, index>>
    BY <1>13 DEF ThreadWrites
  <2>2. index \in AlarmEvents
    BY DEF AlarmTypeOK
  <2>3. /\ tpc' \in ThreadPc /\ index' \in AlarmEvents /\ tat' \in Writes
        /\ tat' # "none" => tpc' \in {"raiseAll", "raise"}
    BY <1>13, <2>1, <2>2, IndexTypes DEF NextEvent, ThreadPc, Writes
  <2>4. /\ enabled' \in [AlarmEvents -> BOOLEAN] /\ raised' \in [AlarmEvents -> BOOLEAN]
        /\ lastChanged' \in [AlarmEvents -> Int] /\ lastReported' \in [AlarmEvents -> Int]
        /\ nextAlarm' \in [AlarmEvents -> Int]
    BY <2>1, <2>2, WriteTypes
  <2> QED BY <1>13, <2>3, <2>4 DEF ThreadWrites, AlarmTypeOK
<1>16. CASE RaiseAll \/ RaiseOverdue
  BY <1>13, <1>16 DEF RaiseAll, RaiseOverdue, AlarmTypeOK
<1>14. CASE NotifyAlarms
  <2>1. told' \in [AlarmEvents -> {"nothing", "raised", "cleared"}]
    BY <1>14 DEF NotifyAlarms, Word, AlarmTypeOK
  <2> QED BY <1>14, <2>1 DEF NotifyAlarms, AlarmTypeOK, ThreadPc
<1>15. CASE AlarmTick \/ Stopped \/ UNCHANGED alarmVars
  <2>1. CASE AlarmTick
    BY <2>1 DEF AlarmTick, AlarmTypeOK
  <2>2. CASE Stopped
    BY <2>2 DEF Stopped, AlarmTypeOK
  <2>3. CASE UNCHANGED alarmVars
    BY <2>3 DEF alarmVars, AlarmTypeOK
  <2> QED BY <1>15, <2>1, <2>2, <2>3
<1> QED BY <1>1, <1>2, <1>3, <1>4, <1>5, <1>6, <1>7, <1>8, <1>9, <1>10, <1>11, <1>12,
           <1>14, <1>15, <1>16 DEF AlarmNext, AppCall, AppReturn, Thread

(* Every variable of the event table and of its two threads keeps its      *)
(* type, and the loop of the thread never leaves the table.                *)
THEOREM TypeCorrect == AlarmSpec => []AlarmTypeOK
<1>1. AlarmInit => AlarmTypeOK
  <2>1. 1 \in AlarmEvents /\ AlarmEpoch \in Nat /\ 0 \in 0 .. Verdicts
    BY AlarmAssumption DEF AlarmEvents
  <2>2. AlarmInit => todo \in [AlarmEvents -> 0 .. Verdicts]
    BY <2>1 DEF AlarmInit
  <2>3. AlarmInit => alarm_tbl \in Seq(Record)
    BY DEF AlarmInit
  <2>4. AlarmInit => /\ told \in [AlarmEvents -> {"nothing", "raised", "cleared"}]
                /\ enabled \in [AlarmEvents -> BOOLEAN] /\ raised \in [AlarmEvents -> BOOLEAN]
    BY DEF AlarmInit
  <2>5. AlarmInit => /\ lastChanged \in [AlarmEvents -> Int] /\ lastReported \in [AlarmEvents -> Int]
                /\ nextAlarm \in [AlarmEvents -> Int] /\ judgedAt \in [AlarmEvents -> Nat]
    BY DEF AlarmInit
  <2>6. AlarmInit => apc \in AppPc /\ tpc \in ThreadPc
    BY DEF AlarmInit, AppPc, ThreadPc
  <2>8. AlarmInit => sNow \in Nat /\ tnow \in Nat /\ wall \in Nat /\ asked \in Nat
    BY <2>1 DEF AlarmInit
  <2>9. AlarmInit => /\ threadRunning \in BOOLEAN /\ threadTerminate \in BOOLEAN
                /\ threadTerminated \in BOOLEAN
    BY DEF AlarmInit
  <2>10. AlarmInit => /\ alarm \in CallRecord /\ alarm.at = "none" /\ tat = "none"
                 /\ tat \in Writes /\ raced \in [AlarmEvents -> BOOLEAN]
    BY <2>1 DEF AlarmInit, CallRecord, Writes
  <2>7. AlarmInit => index \in AlarmEvents
    BY AlarmAssumption DEF AlarmInit, AlarmEvents
  <2> QED BY <2>2, <2>3, <2>4, <2>5, <2>6, <2>7, <2>8, <2>9, <2>10
          DEF AlarmTypeOK, Record, CallRecord
<1> QED BY <1>1, TypeStep, PTL DEF AlarmSpec

------------------------------------------------------------------------------
(* The write of the application's call, and of the thread's.               *)
LEMMA AppWrites ==
  ASSUME AlarmTypeOK, NEW to, alarm_writes(alarm.e, sNow, alarm.op = "raise", alarm.at, to)
  PROVE  /\ alarm.at = "raised" <=> to = "lastChanged"
         /\ alarm.at = "nextAlarm" <=> to = "none"
         /\ \A g \in AlarmEvents \ {alarm.e} : raised'[g] = raised[g] /\ nextAlarm'[g] = nextAlarm[g]
         /\ IF alarm.at = "raised" THEN raised'[alarm.e] <=> alarm.op = "raise" ELSE raised' = raised
         /\ IF alarm.at = "nextAlarm" THEN nextAlarm'[alarm.e] = sNow + AutoClear
            ELSE nextAlarm' = nextAlarm
<1>1. (alarm.op = "raise") \in BOOLEAN /\ alarm.e \in AlarmEvents /\ sNow \in Nat
  BY DEF AlarmTypeOK
<1>2. /\ alarm.at = "raised" <=> to = "lastChanged"
      /\ alarm.at = "nextAlarm" <=> to = "none"
  BY DEF alarm_writes
<1>3. \A g \in AlarmEvents \ {alarm.e} : raised'[g] = raised[g] /\ nextAlarm'[g] = nextAlarm[g]
  BY <1>1, WriteTypes
<1>4. IF alarm.at = "raised" THEN raised'[alarm.e] <=> alarm.op = "raise" ELSE raised' = raised
  BY <1>1 DEF alarm_writes, AlarmTypeOK
<1>5. IF alarm.at = "nextAlarm" THEN nextAlarm'[alarm.e] = sNow + AutoClear
      ELSE nextAlarm' = nextAlarm
  BY <1>1, WriteTypes
<1> QED BY <1>2, <1>3, <1>4, <1>5

LEMMA ThreadWritesTo ==
  ASSUME AlarmTypeOK, NEW t \in Nat, NEW to, alarm_writes(index, t, TRUE, tat, to)
  PROVE  /\ tat = "raised" <=> to = "lastChanged"
         /\ tat = "nextAlarm" <=> to = "none"
         /\ \A g \in AlarmEvents \ {index} : raised'[g] = raised[g] /\ nextAlarm'[g] = nextAlarm[g]
         /\ IF tat = "raised" THEN raised'[index] <=> TRUE ELSE raised' = raised
         /\ IF tat = "nextAlarm" THEN nextAlarm'[index] = t + AutoClear
            ELSE nextAlarm' = nextAlarm
<1>1. (TRUE) \in BOOLEAN /\ index \in AlarmEvents /\ t \in Nat
  BY DEF AlarmTypeOK
<1>2. /\ tat = "raised" <=> to = "lastChanged"
      /\ tat = "nextAlarm" <=> to = "none"
  BY <1>1, WriteTypes
<1>3. \A g \in AlarmEvents \ {index} : raised'[g] = raised[g] /\ nextAlarm'[g] = nextAlarm[g]
  BY <1>1, WriteTypes
<1>4. IF tat = "raised" THEN raised'[index] <=> TRUE ELSE raised' = raised
  BY <1>1, WriteTypes
<1>5. IF tat = "nextAlarm" THEN nextAlarm'[index] = t + AutoClear
      ELSE nextAlarm' = nextAlarm
  BY <1>1, WriteTypes
<1> QED BY <1>2, <1>3, <1>4, <1>5

LEMMA HeldStep == AlarmTypeOK /\ HeldSinceVerdict /\ [AlarmNext]_alarmVars => HeldSinceVerdict'
<1> SUFFICES ASSUME AlarmTypeOK, HeldSinceVerdict, [AlarmNext]_alarmVars, NEW f \in AlarmEvents
             PROVE  Held(f)'
  BY DEF HeldSinceVerdict
<1> USE DEF table, app, monitor, flags, history, alarmVars
<1>t. /\ sNow \in Nat /\ tnow \in Nat /\ index \in AlarmEvents /\ AutoClear \in Nat
      /\ alarm \in CallRecord /\ alarm.e \in AlarmEvents /\ alarm.at \in Writes
      /\ judgedAt[f] \in Nat /\ nextAlarm[f] \in Int
      /\ raced \in [AlarmEvents -> BOOLEAN] /\ judgedAt \in [AlarmEvents -> Nat]
      /\ tat \in Writes /\ (tat # "none" => tpc \in {"raiseAll", "raise"})
      /\ alarm.at # "none" => apc \in {"judge", "reset"}
  BY AlarmAssumption DEF AlarmTypeOK, CallRecord
<1>h. Held(f)
  BY DEF HeldSinceVerdict
<1>1. ASSUME NEW e \in AlarmEvents, Judge(e) \/ ResetEvent(e) PROVE Held(f)'
  <2>1. /\ alarm'.e = e /\ alarm'.at # "none" /\ alarm.at = "none"
        /\ alarm'.op = "raise" /\ alarm'.at # "raised" => raised[e]
        /\ apc' = "reset" => alarm'.op = "raise"
        /\ raced' \in {[raced EXCEPT ![e] = ThreadAt(e)], [raced EXCEPT ![e] = @ \/ ThreadAt(e)]}
        /\ UNCHANGED <<table, monitor, judgedAt>>
    BY <1>1, TestTypes DEF Judge, ResetEvent
  <2>2. f = e => AppAt(f)' /\ (raced'[f] \/ ~ThreadAt(f))
    BY <1>t, <2>1 DEF AppAt, ThreadAt
  <2>3. f # e => ~AppAt(f)' /\ ~AppAt(f) /\ raced'[f] = raced[f]
    BY <1>t, <2>1 DEF AppAt
  <2>4. ThreadAt(f)' = ThreadAt(f) /\ raised'[f] = raised[f] /\ nextAlarm'[f] = nextAlarm[f]
    BY <2>1 DEF ThreadAt
  <2>5. CASE f = e
    BY <2>1, <2>2, <2>4, <2>5 DEF Held
  <2>6. CASE f # e
    BY <1>h, <2>1, <2>3, <2>4, <2>6 DEF Held
  <2> QED BY <2>5, <2>6
<1>2. CASE CallWrites
  <2>1. PICK at \in {"lastChanged", "nextAlarm", "none"} :
          /\ alarm_writes(alarm.e, sNow, alarm.op = "raise", alarm.at, at)
          /\ alarm' = [alarm EXCEPT !.at = at]
          /\ judgedAt' = IF at = "none" /\ apc = "judge"
                           THEN [judgedAt EXCEPT ![alarm.e] = sNow] ELSE judgedAt
    BY <1>2 DEF CallWrites
  <2>2. /\ alarm'.e = alarm.e /\ alarm'.at = at /\ alarm'.op = alarm.op /\ alarm.at # "none"
        /\ UNCHANGED <<monitor, raced>>
    BY <1>2, <1>t, <2>1 DEF CallWrites, CallRecord
  <2>3. /\ alarm.at = "raised" <=> at = "lastChanged"
        /\ alarm.at = "nextAlarm" <=> at = "none"
        /\ f # alarm.e => raised'[f] = raised[f] /\ nextAlarm'[f] = nextAlarm[f]
        /\ IF alarm.at = "raised" THEN raised'[alarm.e] <=> alarm.op = "raise"
           ELSE raised' = raised
        /\ IF alarm.at = "nextAlarm" THEN nextAlarm'[alarm.e] = sNow + AutoClear
           ELSE nextAlarm' = nextAlarm
    <3>1. alarm_writes(alarm.e, sNow, alarm.op = "raise", alarm.at, at)
      BY <2>1
    <3> QED BY <3>1, AppWrites
  <2>4. ThreadAt(f)' = ThreadAt(f) /\ raced'[f] = raced[f]
    BY <2>2 DEF ThreadAt
  <2>5. CASE f # alarm.e
    <3>1. ~AppAt(f) /\ ~AppAt(f)' /\ judgedAt'[f] = judgedAt[f]
      BY <1>t, <2>1, <2>2, <2>5 DEF AppAt
    <3> QED BY <1>h, <2>2, <2>3, <2>4, <2>5, <3>1 DEF Held
  <2>6. CASE f = alarm.e
    <3>1. AppAt(f) /\ (AppAt(f)' <=> at # "none")
      BY <2>2, <2>6 DEF AppAt
    <3>2. ThreadAt(f) => raced[f]
      BY <1>h, <3>1 DEF Held
    <3>3. alarm.op = "raise" /\ at # "raised" => raised'[f]
      BY <1>h, <2>3, <2>6, <3>1 DEF Held
    <3>4. at = "none" /\ apc = "judge" => nextAlarm'[f] = judgedAt'[f] + AutoClear
      BY <1>t, <2>1, <2>3, <2>6
    <3>5. at = "none" /\ apc = "reset" => raised'[f]
      BY <1>h, <3>1, <3>3 DEF Held
    <3>6. at = "none" => apc \in {"judge", "reset"}
      BY <1>t, <2>2
    <3>7. at = "none" /\ ~raised'[f] => nextAlarm'[f] >= judgedAt'[f] + AutoClear
      BY <1>t, <2>3, <2>6, <3>4, <3>5, <3>6
    <3>8. AppAt(f)' /\ apc' = "reset" => alarm'.op = "raise"
      BY <1>h, <1>2, <2>2, <3>1 DEF Held, CallWrites
    <3>9. ~raced'[f] => ~ThreadAt(f)'
      BY <2>4, <3>2
    <3> QED BY <2>2, <2>4, <3>1, <3>2, <3>3, <3>7, <3>8, <3>9 DEF Held
  <2> QED BY <2>5, <2>6
<1>3. ASSUME NEW e \in AlarmEvents, EventClear(e) PROVE Held(f)'
  <2>1. ~AppAt(f) /\ ~AppAt(f)' /\ ThreadAt(f)' = ThreadAt(f)
    BY <1>3, <1>t DEF EventClear, AppAt, ThreadAt
  <2>2. IF f = e THEN judgedAt'[f] = 0 ELSE judgedAt'[f] = judgedAt[f] /\ raised'[f] = raised[f]
    BY <1>3, <1>t DEF EventClear, AlarmTypeOK
  <2> QED BY <1>3, <1>h, <2>1, <2>2 DEF EventClear, Held
<1>4. CASE RaiseBegin
  <2>1. /\ tat = "none" /\ tat' = raise_tests(index) /\ tat' # "none"
        /\ tat' # "raised" => tat' = "nextAlarm" /\ raised[index]
        /\ raced' = [raced EXCEPT ![index] = @ \/ AppAt(index)]
        /\ UNCHANGED <<table, app, tpc, tnow, index, judgedAt>>
    BY <1>4, TestTypes DEF RaiseBegin, Writes
  <2>2. AppAt(f)' = AppAt(f)
    BY <2>1 DEF AppAt
  <2>3. CASE f # index
    <3>1. ~ThreadAt(f) /\ ~ThreadAt(f)' /\ raced'[f] = raced[f]
      BY <1>t, <2>1, <2>3 DEF ThreadAt
    <3> QED BY <1>h, <2>1, <2>2, <3>1 DEF Held
  <2>4. CASE f = index
    <3>1. /\ ThreadAt(f)' /\ (raced'[f] <=> raced[f] \/ AppAt(f))
          /\ tpc = "raise" => ThreadAt(f)
      BY <1>t, <2>1, <2>4 DEF ThreadAt
    <3> QED BY <1>h, <2>1, <2>2, <2>4, <3>1 DEF Held
  <2> QED BY <2>3, <2>4
<1>5. ASSUME NEW t \in Nat, NEW after \in {"loop", "copy"}, ThreadWrites(t, after)
      PROVE  Held(f)'
  <2>1. PICK at \in {"lastChanged", "nextAlarm", "none"} :
          /\ alarm_writes(index, t, TRUE, tat, at)
          /\ tat' = at
          /\ IF at = "none" THEN NextEvent(after) ELSE UNCHANGED <<tpc, index>>
    BY <1>5 DEF ThreadWrites
  <2>2. /\ tat # "none" /\ UNCHANGED <<app, raced, judgedAt, tnow>>
        /\ at = "none" => tpc' # "raise"
    BY <1>5, <2>1, <1>t DEF ThreadWrites, NextEvent
  <2>3. /\ tat = "raised" <=> at = "lastChanged"
        /\ tat = "nextAlarm" <=> at = "none"
        /\ f # index => raised'[f] = raised[f] /\ nextAlarm'[f] = nextAlarm[f]
        /\ IF tat = "raised" THEN raised'[index] ELSE raised' = raised
        /\ IF tat = "nextAlarm" THEN nextAlarm'[index] = t + AutoClear
           ELSE nextAlarm' = nextAlarm
    <3>1. alarm_writes(index, t, TRUE, tat, at)
      BY <2>1
    <3> QED BY <3>1, ThreadWritesTo
  <2>4. AppAt(f)' = AppAt(f)
    BY <2>2 DEF AppAt
  <2>5. CASE f # index
    <3>1. ~ThreadAt(f)'
      BY <2>1, <2>2, <2>5 DEF ThreadAt
    <3> QED BY <1>h, <2>2, <2>3, <2>4, <2>5, <3>1 DEF Held
  <2>6. CASE f = index
    <3>1. ThreadAt(f) /\ (ThreadAt(f)' <=> at # "none")
      BY <2>1, <2>2, <2>6 DEF ThreadAt
    <3>2. ~raced[f] => ~AppAt(f)
      BY <1>h, <3>1 DEF Held
    <3>3. raised[f] => raised'[f]
      BY <2>3, <2>6
    <3>4. ~raced[f] /\ judgedAt[f] # 0 => raised'[f]
      <4>1. tat \in {"raised", "lastChanged", "nextAlarm"}
        BY <1>t, <2>2 DEF Writes
      <4> QED BY <1>h, <2>3, <2>6, <3>1, <4>1 DEF Held
    <3>5. at \notin {"raised"} /\ (at = "none" => ~ThreadAt(f)')
      BY <3>1
    <3> QED BY <1>h, <2>1, <2>2, <2>4, <3>1, <3>2, <3>3, <3>4, <3>5 DEF Held
  <2> QED BY <2>5, <2>6
<1>6. CASE RaiseAll \/ RaiseOverdue
  BY <1>5, <1>6, <1>t DEF RaiseAll, RaiseOverdue
<1>7. CASE ExpireEvent
  <2>1. /\ tat = "none" /\ ~ThreadAt(f) /\ AppAt(f)' = AppAt(f)
        /\ UNCHANGED <<table, app, tnow, tat, judgedAt>>
    BY <1>7, <1>t DEF ExpireEvent, ThreadAt, AppAt
  <2>2. CASE tpc' = "raise"
    <3>1. /\ tnow >= nextAlarm[index] /\ UNCHANGED index
          /\ raced' = [raced EXCEPT ![index] = @ \/ AppAt(index)]
      BY <1>7, <2>2 DEF ExpireEvent, Overdue, NextEvent
    <3>2. IF f = index THEN raced'[f] <=> raced[f] \/ AppAt(f)
                       ELSE raced'[f] = raced[f] /\ ~ThreadAt(f)'
      BY <1>t, <2>1, <3>1 DEF ThreadAt
    <3> QED BY <1>h, <2>1, <3>1, <3>2 DEF Held
  <2>3. CASE tpc' # "raise"
    <3>1. UNCHANGED raced /\ ~ThreadAt(f)'
      BY <1>7, <2>1, <2>3 DEF ExpireEvent, ThreadAt
    <3> QED BY <1>h, <2>1, <3>1 DEF Held
  <2> QED BY <2>2, <2>3
<1>8. CASE WriteBegin \/ ResetBegin
  <2>1. ~AppAt(f) /\ ~AppAt(f)' /\ ThreadAt(f)' = ThreadAt(f)
    BY <1>8, <1>t DEF WriteBegin, ResetBegin, AppAt, ThreadAt
  <2> QED BY <1>8, <1>h, <2>1 DEF WriteBegin, ResetBegin, Held
<1>9. CASE FreeCall \/ FreeWait \/ AlarmTick \/ Stopped \/ UNCHANGED alarmVars
           \/ \E e \in AlarmEvents : EventProcessing(e)
  <2>1. /\ UNCHANGED <<raised, nextAlarm, alarm, monitor, judgedAt, raced>>
        /\ apc' = "reset" => apc = "reset"
    BY <1>9 DEF FreeCall, FreeWait, AlarmTick, Stopped, EventProcessing
  <2>2. AppAt(f)' = AppAt(f) /\ ThreadAt(f)' = ThreadAt(f)
    BY <2>1 DEF AppAt, ThreadAt
  <2> QED BY <1>h, <2>1, <2>2 DEF Held
<1>10. CASE ThreadStart \/ ThreadLoop \/ ThreadWake \/ SkipEvent \/ VisitEvent \/ RecordAlarm
            \/ CopyAlarms \/ NotifyAlarms \/ ThreadExit \/ ThreadDone
  <2>1. /\ UNCHANGED <<raised, nextAlarm, app, tat, judgedAt, raced>>
        /\ tpc \notin {"raise", "raiseAll"} /\ tpc' # "raise"
    BY <1>10 DEF ThreadStart, ThreadLoop, ThreadWake, SkipEvent, NextEvent, VisitEvent,
                 RecordAlarm, CopyAlarms, NotifyAlarms, ThreadExit, ThreadDone
  <2>2. AppAt(f)' = AppAt(f) /\ ~ThreadAt(f) /\ ~ThreadAt(f)'
    BY <1>t, <2>1 DEF AppAt, ThreadAt
  <2> QED BY <1>h, <2>1, <2>2 DEF Held
<1> QED BY <1>1, <1>2, <1>3, <1>4, <1>6, <1>7, <1>8, <1>9, <1>10
        DEF AlarmNext, AppCall, AppReturn, Thread

(* The monitor's thread raises a clear event by itself only when the last  *)
(* verdict on it is AutoClear old, whatever the writes of the verdicts, of *)
(* the resets and of the thread interleave, unless the application was at  *)
(* the event while the thread was and no verdict has come since.           *)
THEOREM FalseAlarmNever == AlarmSpec => NoFalseAlarmAlone
<1>1. AlarmInit => HeldSinceVerdict
  BY DEF AlarmInit, HeldSinceVerdict, Held, AppAt, ThreadAt
<1>2. AlarmTypeOK /\ HeldSinceVerdict /\ [AlarmNext]_alarmVars =>
        [\A e \in AlarmEvents :
           RaisesAlone(e) /\ ~raced[e] => tnow >= judgedAt[e] + AutoClear]_alarmVars
  <2> SUFFICES ASSUME AlarmTypeOK, HeldSinceVerdict, NEW e \in AlarmEvents, RaisesAlone(e), ~raced[e]
               PROVE  tnow >= judgedAt[e] + AutoClear
    OBVIOUS
  <2>1. Held(e) /\ ThreadAt(e)
    BY DEF HeldSinceVerdict, RaisesAlone, ThreadAt
  <2>2. tnow >= nextAlarm[e] /\ nextAlarm[e] >= judgedAt[e] + AutoClear
    BY <2>1 DEF RaisesAlone, Held
  <2>3. tnow \in Int /\ nextAlarm[e] \in Int /\ judgedAt[e] \in Int /\ AutoClear \in Int
    BY AlarmAssumption DEF AlarmTypeOK
  <2> QED BY <2>2, <2>3
<1> QED BY <1>1, <1>2, HeldStep, TypeCorrect, PTL DEF AlarmSpec, NoFalseAlarmAlone

------------------------------------------------------------------------------
LEMMA FreeStep == AlarmTypeOK /\ FreeShape /\ [AlarmNext]_alarmVars => FreeShape'
<1> SUFFICES ASSUME AlarmTypeOK, FreeShape, [AlarmNext]_alarmVars PROVE FreeShape'
  OBVIOUS
<1> USE DEF table, app, monitor, flags, history, alarmVars, FreeShape, FreedAfterThread, Freed
<1>1. CASE WriteBegin \/ ResetBegin \/ FreeCall \/ FreeWait
  BY <1>1 DEF WriteBegin, ResetBegin, FreeCall, FreeWait
<1>2. ASSUME NEW e \in AlarmEvents, EventClear(e) \/ EventProcessing(e) PROVE FreeShape'
  BY <1>2 DEF EventClear, EventProcessing
<1>3. ASSUME NEW e \in AlarmEvents, Judge(e) \/ ResetEvent(e) PROVE FreeShape'
  BY <1>3 DEF Judge, ResetEvent
<1>7. CASE CallWrites
  <2>1. apc \in {"judge", "reset"} /\ apc' \in {apc, "idle"}
    BY <1>7 DEF CallWrites, AlarmTypeOK
  <2> QED BY <1>7, <2>1 DEF CallWrites
<1>8. CASE RaiseBegin
  BY <1>8 DEF RaiseBegin
<1>9. CASE RaiseAll \/ RaiseOverdue
  <2>1. tpc \in {"raiseAll", "raise"} /\ tpc' \in {"raiseAll", "raise", "loop", "copy", "visit"}
    BY <1>9 DEF RaiseAll, RaiseOverdue, ThreadWrites, NextEvent
  <2>2. UNCHANGED <<apc, flags>> /\ ~Freed
    BY <1>9 DEF RaiseAll, RaiseOverdue, ThreadWrites
  <2> QED BY <2>1, <2>2
<1>4. CASE ThreadStart \/ ThreadLoop \/ ThreadWake \/ SkipEvent \/ VisitEvent
           \/ RecordAlarm
  BY <1>4 DEF ThreadStart, ThreadLoop, ThreadWake, SkipEvent, VisitEvent,
              RecordAlarm, NextEvent
<1>5. CASE ExpireEvent \/ CopyAlarms \/ NotifyAlarms \/ ThreadExit \/ ThreadDone
  BY <1>5 DEF ExpireEvent, CopyAlarms, NotifyAlarms, ThreadExit, ThreadDone,
              NextEvent
<1>6. CASE AlarmTick \/ Stopped \/ UNCHANGED alarmVars
  BY <1>6 DEF AlarmTick, Stopped
<1> QED BY <1>1, <1>2, <1>3, <1>4, <1>5, <1>6, <1>7, <1>8, <1>9 DEF AlarmNext, AppCall, AppReturn, Thread

(* ltntstools_tr101290_free releases the monitor only when its thread has  *)
(* ended, or has not announced itself yet, wherever in a pass it was.      *)
THEOREM FreeWaitsForThread == AlarmSpec => []FreedAfterThread
<1>1. AlarmInit => FreeShape
  BY DEF AlarmInit, FreeShape, FreedAfterThread, Freed
<1>2. FreeShape => FreedAfterThread
  BY DEF FreeShape
<1> QED BY <1>1, <1>2, FreeStep, TypeCorrect, PTL DEF AlarmSpec
=============================================================================

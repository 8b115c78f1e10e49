--------------------------- MODULE TR101290Alarms ---------------------------
(***************************************************************************)
(* The event table of the TR 101 290 monitor: tr101290.c, -events.c and    *)
(* -alarms.c.  The application thread writes packets, on which the P1 and  *)
(* P2 checks pass a verdict per event; the monitor's thread goes through   *)
(* the table, makes alarm records of changes and raises events nobody      *)
(* holds clear.  Only the copy of the records is made under s->mutex: all  *)
(* else of the two threads interleaves, write by write of a raise or a     *)
(* clear.  Events are 1 .. NEvents.                                        *)
(***************************************************************************)
EXTENDS Integers, Sequences

CONSTANTS
  NEvents,
  AutoClear,      \* autoClearAlarmAfterReport
  Slack,          \* the "slight in the future" of lastReported
  Sleep,          \* the usleep of the thread's loop
  AlarmEpoch,     \* the wall clock at the start
  Stamps,         \* the time stamps a caller may give with a write
  LastCall,       \* bound: no call but free after this time
  LastReturn,     \* bound: by now a write or a reset has returned
  MaxTime,        \* bound: the wall clock stops here
  Verdicts,       \* bound: verdicts on one event in one write
  AlarmCalls      \* bound: calls other than write and free

ASSUME AlarmAssumption ==
  /\ NEvents \in Nat \ {0} /\ AutoClear \in Nat /\ Slack \in Nat
  /\ Sleep \in Nat /\ Slack < Sleep /\ Sleep < AutoClear
  /\ AlarmEpoch \in Nat \ {0} /\ Stamps \subseteq Nat /\ LastCall \in Nat
  /\ LastReturn \in Nat /\ MaxTime \in Nat
  /\ Verdicts \in Nat \ {0} /\ AlarmCalls \in Nat

AlarmEvents == 1 .. NEvents

VARIABLES
  enabled, raised, lastChanged, lastReported, nextAlarm, \* event_tbl
  alarm_tbl,        \* the records [id, raised] not yet passed on
  sNow,             \* s->now, the time of the last write
  apc, todo,        \* the application thread; how often its call still touches each event
  alarm,            \* its raise or clear under way: [op, e, at]
  tpc, tnow, index, \* the monitor's thread, its "now" and its loop index
  tat,              \* where the thread is in its raise
  threadRunning, threadTerminate, threadTerminated,
  wall,             \* the wall clock
  asked,
  told,             \* history: what the callback was last told of each event
  judgedAt,         \* history: time of the last verdict, 0 for none
  raced             \* history: the thread was at the event during a call on it,
                    \* and no verdict has come since

table     == <<enabled, raised, lastChanged, lastReported, nextAlarm>>
app       == <<sNow, apc, todo, alarm, asked>>
monitor   == <<tpc, tnow, index, tat>>
flags     == <<threadRunning, threadTerminate, threadTerminated>>
history   == <<told, judgedAt, raced>>
alarmVars == <<table, alarm_tbl, app, monitor, flags, wall, history>>

Freed == apc = "freed"

(* ltntstools_tr101290_alloc: every time is zero until it is set.          *)
AlarmInit ==
  /\ enabled = [e \in AlarmEvents |-> TRUE] /\ raised = [e \in AlarmEvents |-> FALSE]
  /\ lastChanged = [e \in AlarmEvents |-> 0] /\ lastReported = [e \in AlarmEvents |-> 0]
  /\ nextAlarm = [e \in AlarmEvents |-> 0]
  /\ alarm_tbl = << >>
  /\ sNow = 0 /\ apc = "idle" /\ todo = [e \in AlarmEvents |-> 0] /\ asked = 0
  /\ alarm = [op |-> "raise", e |-> 1, at |-> "none"]
  /\ tpc = "start" /\ tnow = 0 /\ index = 1 /\ tat = "none"
  /\ threadRunning = FALSE /\ threadTerminate = FALSE /\ threadTerminated = FALSE
  /\ wall = AlarmEpoch
  /\ told = [e \in AlarmEvents |-> "nothing"]
  /\ judgedAt = [e \in AlarmEvents |-> 0]
  /\ raced = [e \in AlarmEvents |-> FALSE]

------------------------------------------------------------------------------
(* tr101290-alarms.c.  A call tests the event and then writes raised and   *)
(* lastChanged, when there is a change, and nextAlarm, one after the other *)
(* and without a lock: at is the write that comes next.                    *)

raise_tests(e) == IF ~raised[e] THEN "raised" ELSE "nextAlarm"

(* A raised event lingers for AutoClear after the change.                  *)
clear_tests(e, t) ==
  IF raised[e] /\ t >= lastChanged[e] + AutoClear THEN "raised" ELSE "nextAlarm"

(* Deviation (used by mutation tests only): the call does not hold.        *)
HoldNot(e, t) == nextAlarm[e]
Hold(e, t) == t + AutoClear

(* One write of a call on e with the time t that leaves raised as r.       *)
alarm_writes(e, t, r, at, atNext) ==
  /\ \/ /\ at = "raised" /\ atNext = "lastChanged"
        /\ raised' = [raised EXCEPT ![e] = r]
        /\ UNCHANGED <<lastChanged, nextAlarm>>
     \/ /\ at = "lastChanged" /\ atNext = "nextAlarm"
        /\ lastChanged' = [lastChanged EXCEPT ![e] = t]
        /\ UNCHANGED <<raised, nextAlarm>>
     \/ /\ at = "nextAlarm" /\ atNext = "none"
        /\ nextAlarm' = [nextAlarm EXCEPT ![e] = Hold(e, t)]
        /\ UNCHANGED <<raised, lastChanged>>
  /\ UNCHANGED <<enabled, lastReported>>

(* The thread and the application are at the same event.                   *)
ThreadAt(e) == index = e /\ (tpc = "raise" \/ tat # "none")
AppAt(e) == alarm.e = e /\ alarm.at # "none"

------------------------------------------------------------------------------
(* The application thread.                                                 *)

(* ltntstools_tr101290_write: the time is that of the caller or else of    *)
(* the wall clock; then the mutex is taken.  The checks will pass          *)
(* verdicts, one or more, on some of the events.                           *)
WriteBegin ==
  /\ apc = "idle" /\ wall <= LastCall
  /\ sNow' \in {wall} \cup Stamps
  /\ todo' \in [AlarmEvents -> 0 .. Verdicts]
  /\ \E e \in AlarmEvents : todo'[e] > 0
  /\ apc' = "judge"
  /\ UNCHANGED <<table, alarm_tbl, alarm, asked, monitor, flags, wall, history>>

(* A verdict begins, at the time of the write: the test of the call.       *)
Judge(e) ==
  /\ apc = "judge" /\ alarm.at = "none" /\ todo[e] > 0
  /\ \/ alarm' = [op |-> "raise", e |-> e, at |-> raise_tests(e)]
     \/ alarm' = [op |-> "clear", e |-> e, at |-> clear_tests(e, sNow)]
  /\ raced' = [raced EXCEPT ![e] = ThreadAt(e)]
  /\ UNCHANGED <<table, alarm_tbl, sNow, apc, todo, asked, monitor, flags, wall, told,
                 judgedAt>>

(* The next write of the call.  The last one ends it, and with the last    *)
(* call the write or the reset.                                            *)
CallWrites ==
  /\ alarm.at # "none"
  /\ \E at \in {"lastChanged", "nextAlarm", "none"} :
       /\ alarm_writes(alarm.e, sNow, alarm.op = "raise", alarm.at, at)
       /\ alarm' = [alarm EXCEPT !.at = at]
       /\ todo' = IF at = "none" THEN [todo EXCEPT ![alarm.e] = @ - 1] ELSE todo
       /\ apc' = IF \E f \in AlarmEvents : todo'[f] > 0 THEN apc ELSE "idle"
       /\ judgedAt' = IF at = "none" /\ apc = "judge" THEN [judgedAt EXCEPT ![alarm.e] = sNow]
                      ELSE judgedAt
  /\ UNCHANGED <<alarm_tbl, sNow, asked, monitor, flags, wall, told, raced>>

(* ltntstools_tr101290_reset_alarms: all events, without s->mutex.         *)
ResetBegin ==
  /\ apc = "idle" /\ asked < AlarmCalls /\ wall <= LastCall
  /\ asked' = asked + 1
  /\ todo' = [e \in AlarmEvents |-> 1]
  /\ apc' = "reset"
  /\ UNCHANGED <<table, alarm_tbl, sNow, alarm, monitor, flags, wall, history>>

(* Raised in the order of the table.                                       *)
ResetEvent(e) ==
  /\ apc = "reset" /\ alarm.at = "none" /\ todo[e] > 0
  /\ \A f \in 1 .. e - 1 : todo[f] = 0
  /\ alarm' = [op |-> "raise", e |-> e, at |-> raise_tests(e)]
  /\ raced' = [raced EXCEPT ![e] = @ \/ ThreadAt(e)]
  /\ UNCHANGED <<table, alarm_tbl, sNow, apc, todo, asked, monitor, flags, wall, told,
                 judgedAt>>

(* ltntstools_tr101290_event_clear.                                        *)
EventClear(e) ==
  /\ apc = "idle" /\ asked < AlarmCalls /\ wall <= LastCall
  /\ asked' = asked + 1
  /\ raised' = [raised EXCEPT ![e] = FALSE]
  /\ judgedAt' = [judgedAt EXCEPT ![e] = 0]
  /\ UNCHANGED <<enabled, lastChanged, lastReported, nextAlarm, alarm_tbl, sNow, apc,
                 todo, alarm, monitor, flags, wall, told, raced>>

(* ltntstools_tr101290_event_processing_enable and _disable.               *)
EventProcessing(e) ==
  /\ apc = "idle" /\ asked < AlarmCalls /\ wall <= LastCall
  /\ asked' = asked + 1
  /\ enabled' = [enabled EXCEPT ![e] = ~@]
  /\ UNCHANGED <<raised, lastChanged, lastReported, nextAlarm, alarm_tbl, sNow, apc,
                 todo, alarm, monitor, flags, wall, history>>

(* ltntstools_tr101290_free.                                               *)
FreeCall ==
  /\ apc = "idle"
  /\ threadTerminate' = threadRunning
  /\ apc' = IF threadRunning THEN "waitTerminated" ELSE "freed"
  /\ UNCHANGED <<table, alarm_tbl, sNow, todo, alarm, asked, monitor,
                 threadRunning, threadTerminated, wall, history>>

FreeWait ==
  /\ apc = "waitTerminated" /\ threadTerminated
  /\ apc' = "freed"
  /\ UNCHANGED <<table, alarm_tbl, sNow, todo, alarm, asked, monitor, flags, wall,
                 history>>

------------------------------------------------------------------------------
(* The monitor's thread, ltntstools_tr101290_threadFunc.                   *)

ThreadStart ==
  /\ tpc = "start" /\ ~Freed
  /\ threadRunning' = TRUE
  /\ tpc' = "raiseAll" /\ index' = 1
  /\ UNCHANGED <<table, alarm_tbl, app, tnow, tat, threadTerminate, threadTerminated,
                 wall, history>>

(* A raise by the thread begins: the test of the call.                     *)
RaiseBegin ==
  /\ tpc \in {"raiseAll", "raise"} /\ tat = "none" /\ ~Freed
  /\ tat' = raise_tests(index)
  /\ raced' = [raced EXCEPT ![index] = @ \/ AppAt(index)]
  /\ UNCHANGED <<table, alarm_tbl, app, tpc, tnow, index, flags, wall, told, judgedAt>>

NextEvent(after) ==
  /\ index' = IF index = NEvents THEN 1 ELSE index + 1
  /\ tpc' = IF index = NEvents THEN after ELSE IF tpc = "raiseAll" THEN tpc ELSE "visit"

ThreadWrites(t, after) ==
  /\ tat # "none" /\ ~Freed
  /\ \E at \in {"lastChanged", "nextAlarm", "none"} :
       /\ alarm_writes(index, t, TRUE, tat, at)
       /\ tat' = at
       /\ IF at = "none" THEN NextEvent(after) ELSE UNCHANGED <<tpc, index>>
  /\ UNCHANGED <<alarm_tbl, app, tnow, flags, wall, history>>

(* ltntstools_tr101290_alarm_raise_all, at the time of the last write, or  *)
(* at 0 when there was none; a write may change that time under way.       *)
RaiseAll == tpc = "raiseAll" /\ ThreadWrites(sNow, "loop")

(* The condition of the loop.  While the thread sleeps tnow is the time it *)
(* fell asleep.                                                            *)
ThreadLoop ==
  /\ tpc = "loop" /\ ~Freed
  /\ tpc' = IF threadTerminate THEN "exit" ELSE "sleep"
  /\ tnow' = wall
  /\ UNCHANGED <<table, alarm_tbl, app, index, tat, flags, wall, history>>

(* The time of the whole pass.  At the bound of the clock the sleep takes  *)
(* no time.                                                                *)
ThreadWake ==
  /\ tpc = "sleep" /\ ~Freed
  /\ wall >= tnow + Sleep \/ wall = MaxTime
  /\ tnow' = wall
  /\ tpc' = "visit"
  /\ UNCHANGED <<table, alarm_tbl, app, index, tat, flags, wall, history>>

SkipEvent ==
  /\ tpc = "visit" /\ ~Freed
  /\ ~enabled[index]
  /\ NextEvent("copy")
  /\ UNCHANGED <<table, alarm_tbl, app, tnow, tat, flags, wall, history>>

(* Deviation: an event that was never reported is treated like any other.  *)
LastReportPlain(e) == lastReported[e]
(* An event that was never reported counts as reported before it changed.  *)
LastReport(e) == IF lastReported[e] = 0 THEN lastChanged[e] - 1 ELSE lastReported[e]

(* ltntstools_tr101290_event_should_report, and lastReported if so.        *)
VisitEvent ==
  /\ tpc = "visit" /\ ~Freed
  /\ enabled[index]
  /\ LET e    == index
         last == LastReport(e)
     IN  \/ /\ last < lastChanged[e]
            /\ lastReported' = [lastReported EXCEPT ![e] = tnow + Slack]
            /\ tpc' = "record"
         \/ /\ last >= lastChanged[e]
            /\ lastReported' = [lastReported EXCEPT ![e] = last]
            /\ tpc' = "expire"
  /\ UNCHANGED <<enabled, raised, lastChanged, nextAlarm, alarm_tbl, app, tnow, index,
                 tat, flags, wall, history>>

(* The alarm record, with the state the event has by now.                  *)
RecordAlarm ==
  /\ tpc = "record" /\ ~Freed
  /\ alarm_tbl' = Append(alarm_tbl, [id |-> index, raised |-> raised[index]])
  /\ tpc' = "expire"
  /\ UNCHANGED <<table, app, tnow, index, tat, flags, wall, history>>

Overdue == tnow >= nextAlarm[index]

(* Every event wants to be raised when nothing holds it clear: the check   *)
(* of the deadline, and then the raise.                                    *)
ExpireEvent ==
  /\ tpc = "expire" /\ ~Freed
  /\ \/ /\ Overdue
        /\ tpc' = "raise"
        /\ raced' = [raced EXCEPT ![index] = @ \/ AppAt(index)]
        /\ UNCHANGED index
     \/ /\ ~Overdue
        /\ NextEvent("copy")
        /\ UNCHANGED raced
  /\ UNCHANGED <<table, alarm_tbl, app, tnow, tat, flags, wall, told, judgedAt>>

RaiseOverdue == tpc = "raise" /\ ThreadWrites(tnow, "copy")

(* The records are copied under the mutex, which a write holds.            *)
CopyAlarms ==
  /\ tpc = "copy" /\ ~Freed
  /\ apc # "judge"
  /\ tpc' = IF alarm_tbl = << >> THEN "loop" ELSE "notify"
  /\ UNCHANGED <<table, alarm_tbl, app, tnow, index, tat, flags, wall, history>>

Reported(e) == \E i \in 1 .. Len(alarm_tbl) : alarm_tbl[i].id = e
Report(e) == alarm_tbl[CHOOSE i \in 1 .. Len(alarm_tbl) : alarm_tbl[i].id = e].raised
Word(b) == IF b THEN "raised" ELSE "cleared"

(* The user's callback; then the table is empty.                           *)
NotifyAlarms ==
  /\ tpc = "notify" /\ ~Freed
  /\ told' = [e \in AlarmEvents |-> IF Reported(e) THEN Word(Report(e)) ELSE told[e]]
  /\ alarm_tbl' = << >>
  /\ tpc' = "loop"
  /\ UNCHANGED <<table, app, tnow, index, tat, flags, wall, judgedAt, raced>>

ThreadExit ==
  /\ tpc = "exit" /\ ~Freed
  /\ threadRunning' = FALSE
  /\ tpc' = "exited"
  /\ UNCHANGED <<table, alarm_tbl, app, tnow, index, tat, threadTerminate,
                 threadTerminated, wall, history>>

ThreadDone ==
  /\ tpc = "exited" /\ ~Freed
  /\ threadTerminated' = TRUE
  /\ tpc' = "done"
  /\ UNCHANGED <<table, alarm_tbl, app, tnow, index, tat, threadRunning,
                 threadTerminate, wall, history>>

AlarmTick ==
  /\ wall < MaxTime
  /\ apc \in {"judge", "reset"} => wall < LastReturn
  /\ wall' = wall + 1
  /\ UNCHANGED <<table, alarm_tbl, app, monitor, flags, history>>

(* Nothing happens after _free.                                            *)
Stopped == Freed /\ UNCHANGED alarmVars

AppCall   == WriteBegin \/ ResetBegin \/ FreeCall
             \/ \E e \in AlarmEvents : EventClear(e) \/ EventProcessing(e)
AppReturn == FreeWait \/ CallWrites \/ \E e \in AlarmEvents : Judge(e) \/ ResetEvent(e)
Thread    == ThreadStart \/ RaiseBegin \/ RaiseAll \/ ThreadLoop \/ ThreadWake
             \/ SkipEvent \/ VisitEvent \/ RecordAlarm \/ ExpireEvent \/ RaiseOverdue \/ CopyAlarms
             \/ NotifyAlarms \/ ThreadExit \/ ThreadDone

AlarmNext == AppCall \/ AppReturn \/ Thread \/ AlarmTick \/ Stopped

AlarmSpec == AlarmInit /\ [][AlarmNext]_alarmVars

------------------------------------------------------------------------------
AppPc    == {"idle", "judge", "reset", "waitTerminated", "freed"}
ThreadPc == {"start", "raiseAll", "loop", "sleep", "visit", "record", "expire", "raise",
             "copy", "notify", "exit", "exited", "done"}
Writes   == {"none", "raised", "lastChanged", "nextAlarm"}

(* Every variable has the type of its declaration; the loop index is an    *)
(* event of the table wherever the thread uses it.                         *)
AlarmTypeOK ==
  /\ enabled \in [AlarmEvents -> BOOLEAN] /\ raised \in [AlarmEvents -> BOOLEAN]
  /\ lastChanged \in [AlarmEvents -> Int] /\ lastReported \in [AlarmEvents -> Int]
  /\ nextAlarm \in [AlarmEvents -> Int]
  /\ alarm_tbl \in Seq([id : AlarmEvents, raised : BOOLEAN])
  /\ sNow \in Nat /\ apc \in AppPc /\ todo \in [AlarmEvents -> 0 .. Verdicts] /\ asked \in Nat
  /\ alarm \in [op : {"raise", "clear"}, e : AlarmEvents, at : Writes]
  /\ alarm.at # "none" => apc \in {"judge", "reset"} /\ todo[alarm.e] > 0
  /\ tat \in Writes /\ (tat # "none" => tpc \in {"raiseAll", "raise"})
  /\ tpc \in ThreadPc /\ tnow \in Nat /\ index \in AlarmEvents
  /\ threadRunning \in BOOLEAN /\ threadTerminate \in BOOLEAN
  /\ threadTerminated \in BOOLEAN
  /\ wall \in Nat
  /\ told \in [AlarmEvents -> {"nothing", "raised", "cleared"}]
  /\ judgedAt \in [AlarmEvents -> Nat] /\ raced \in [AlarmEvents -> BOOLEAN]

(* The inductive form of NoFalseAlarmAlone.  Where the two threads meet at *)
(* an event, it is marked.  An event that is not, and is clear after a     *)
(* verdict, is held clear for AutoClear from that verdict on; and while    *)
(* the thread has still to raise it, its deadline is over.                 *)
Held(e) ==
  /\ AppAt(e) /\ ThreadAt(e) => raced[e]
  /\ AppAt(e) /\ apc = "reset" => alarm.op = "raise"
  /\ AppAt(e) /\ alarm.op = "raise" /\ alarm.at # "raised" => raised[e]
  /\ ~raced[e] =>
       /\ judgedAt[e] # 0 /\ ~raised[e] /\ ~AppAt(e)
            => nextAlarm[e] >= judgedAt[e] + AutoClear
       /\ judgedAt[e] # 0 /\ ThreadAt(e) /\ tat \in {"lastChanged", "nextAlarm"}
            => raised[e]
       /\ ThreadAt(e) /\ tpc = "raise" /\ tat \in {"none", "raised"}
            => tnow >= nextAlarm[e]
HeldSinceVerdict == \A e \in AlarmEvents : Held(e)

(* _free releases the table only when the thread has ended, or has not     *)
(* announced itself yet.                                                   *)
FreedAfterThread == Freed => tpc \in {"start", "done"}

(* The inductive form of FreedAfterThread.                                 *)
FreeShape ==
  /\ threadTerminated => tpc = "done"
  /\ ~threadTerminate => tpc \notin {"exit", "exited", "done"}
  /\ apc \in {"idle", "judge", "reset"} => ~threadTerminate
  /\ ~threadRunning => tpc \in {"start", "exited", "done"}
  /\ FreedAfterThread

(* The thread raises e, which is clear, by itself: the write of raised in  *)
(* the call at the end of its pass.                                        *)
RaisesAlone(e) ==
  /\ index = e /\ tpc = "raise" /\ tat = "raised" /\ tat' = "lastChanged"
  /\ ~raised[e] /\ judgedAt[e] # 0

(* "Setup an timer, in N seconds this event goes into alarm again.  Some   *)
(* other event will specifically need to clear it, before then": the       *)
(* thread raises a clear event by itself only when the last verdict of the *)
(* checks on it is AutoClear old.  The code does not keep this: a verdict  *)
(* may clear the event between the check of its deadline and its raise.    *)
NoFalseAlarm ==
  [][\A e \in AlarmEvents : RaisesAlone(e) => tnow >= judgedAt[e] + AutoClear]_alarmVars

(* The same for an event that no call of the application was at while the  *)
(* thread was: the raise that such a meeting makes wrongly is the only one,*)
(* since the first verdict that meets nobody puts the deadline right.      *)
NoFalseAlarmAlone ==
  [][\A e \in AlarmEvents :
       RaisesAlone(e) /\ ~raced[e] => tnow >= judgedAt[e] + AutoClear]_alarmVars

(* "All events naturally want to be in a raise state, in the event of no   *)
(* data": when the writes stop for good, every enabled event ends raised.  *)
SilenceRaises ==
  \A e \in AlarmEvents : <>[](raised[e] \/ ~enabled[e] \/ threadTerminate \/ Freed)

(* ltntstools_tr101290_free returns, also from the middle of a pass.       *)
FreeReturns == apc = "waitTerminated" ~> Freed

(* "Notifications/Errors generated as a result of these packets are passed *)
(* to your application": the callback is told of every enabled event, also *)
(* of one that is raised from the start and never changes.                 *)
EveryEventIsTold ==
  \A e \in AlarmEvents :
    <>[](told[e] # "nothing" \/ ~enabled[e] \/ threadTerminate \/ Freed)

(* The monitor thread does what it is for: silence raises every event, the *)
(* application is told of each, and the free returns.                      *)
ThreadServes ==
  /\ SilenceRaises
  /\ EveryEventIsTold
  /\ FreeReturns
==============================================================================

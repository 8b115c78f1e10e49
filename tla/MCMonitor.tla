------------------------------ MODULE MCMonitor ------------------------------
(***************************************************************************)
(* The streams of MCStream and, in the behaviours of the kind "alarms",    *)
(* the event table of the monitor, with the verdicts of the checks left    *)
(* open.                                                                   *)
(***************************************************************************)
EXTENDS MCStream, TR101290Alarms

monitorVars == <<vars, alarmVars>>

MonitorInit == Init /\ AlarmInit

MonitorNext ==
  \/ kind # "alarms" /\ Next /\ UNCHANGED alarmVars
  \/ kind = "alarms" /\ AlarmNext /\ UNCHANGED vars

(* Both threads run and time goes on; no call need be made.                *)
MonitorSpec ==
  /\ MonitorInit /\ [][MonitorNext]_monitorVars
  /\ WF_alarmVars(kind = "alarms" /\ AppReturn)
  /\ WF_alarmVars(kind = "alarms" /\ Thread)
  /\ WF_alarmVars(kind = "alarms" /\ AlarmTick)

-----------------------------------------------------------------------------
(* The monitor's thread does what it is for (ThreadServes: silence raises  *)
(* every event, the callback is told of each, the free returns).           *)
MonitorServes == kind = "alarms" => ThreadServes
=============================================================================

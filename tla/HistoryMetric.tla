---------------------------- MODULE HistoryMetric ----------------------------
(***************************************************************************)
(* history-metric.c: the counts of the last day, newest first.  Time is in *)
(* hours.  An entry that is freed is gone from the heap; freeing it twice  *)
(* is undefined, and nothing is said of what follows.  The queries change  *)
(* nothing and are left out.                                               *)
(***************************************************************************)
EXTENDS Integers, Sequences, FiniteSetsExt

CONSTANTS
  HistoryKeep,    \* 25 h
  HistoryWaits,   \* hours between two calls
  HistoryCalls    \* bound: calls

ASSUME HistoryAssumption ==
  /\ HistoryKeep \in Nat
  /\ HistoryWaits \subseteq Nat \ {0} /\ HistoryCalls \in Nat

VARIABLES
  entries,   \* the list: <<ts, count>>, newest first
  doubled,   \* an entry was freed twice
  added,     \* history: entries added since the last reset, newest first
  hourNow, historyCalls

historyVars == <<entries, doubled, added, hourNow, historyCalls>>

HistoryInit ==
  /\ entries = << >> /\ doubled = FALSE /\ added = << >>
  /\ hourNow = 100 /\ historyCalls = 0

HistoryCall == ~doubled /\ historyCalls < HistoryCalls /\ historyCalls' = historyCalls + 1

OldIn(list) == {i \in DOMAIN list : list[i][1] < hourNow - HistoryKeep}

(* ltntstools_history_metric_collection_add: each old entry the walk meets *)
(* makes it delete and free m, the entry just added.                       *)
CollectionAdd(ts, count) ==
  LET list == <<<<ts, count>>>> \o entries
      old  == OldIn(list)
  IN  /\ entries' = IF old = {} THEN list ELSE entries
      /\ doubled' = (Cardinality(old) > 1)

HistoryAdd ==
  /\ HistoryCall
  /\ \E count \in {1, 2} :
       CollectionAdd(hourNow, count) /\ added' = <<<<hourNow, count>>>> \o added
  /\ UNCHANGED hourNow

(* ltntstools_history_metric_collection_reset, and _free.                  *)
CollectionReset ==
  HistoryCall /\ entries' = << >> /\ added' = << >> /\ UNCHANGED <<doubled, hourNow>>

HistoryWait ==
  /\ HistoryCall /\ \E h \in HistoryWaits : hourNow' = hourNow + h
  /\ UNCHANGED <<entries, doubled, added>>

HistoryNext == HistoryAdd \/ CollectionReset \/ HistoryWait

-----------------------------------------------------------------------------
(* "Don't keep anything older than 25hrs": after an add the list holds     *)
(* what was added in the last 25 hours, the new entry too, and no older.   *)
HistoryKeepsADay ==
  [][HistoryAdd =>
       {entries'[i] : i \in DOMAIN entries'} =
         {added'[i] : i \in {j \in DOMAIN added' : added'[j][1] >= hourNow - HistoryKeep}}
    ]_historyVars
=============================================================================

------------------------------- MODULE KLQueue -------------------------------
(***************************************************************************)
(* The queue of pointers of kl-queue.c, shared by producing and consuming  *)
(* threads.  Each critical section of q->mutex is one step; a consumer     *)
(* that waits on item_add has released the mutex and goes on in a later    *)
(* step.  The pointers are 1, 2, 3, ... in the order they are pushed.      *)
(***************************************************************************)
EXTENDS Integers, Sequences

CONSTANTS
  Consumers,  \* the threads that call klqueue_pop_non_blocking
  Usec,       \* the time they ask it to wait
  Epoch,      \* the wall clock at the start
  MaxPushes,  \* bound: calls of klqueue_push
  MaxTime     \* bound: the wall clock stops here

ASSUME QueueAssumption ==
  /\ Usec \in Nat /\ Epoch \in Nat /\ MaxPushes \in Nat /\ MaxTime \in Nat

NoItem == 0

VARIABLES
  head,        \* the list
  item_count,
  locked,      \* klqueue_destroy has left the mutex locked
  pc,          \* where each consumer is
  woken,       \* the waiting consumers that item_add was signalled for
  result,      \* what its last call returned
  now,         \* the wall clock
  pushed,      \* history: number of pointers pushed
  popped       \* history: the pointers handed to consumers, in order

list     == <<head, item_count>>
consumer == <<pc, woken, result>>
queueVars     == <<list, locked, consumer, now, pushed, popped>>

Returned == [ret : {"none", "ok", "timeout"}, item : Nat]

(* klqueue_initialize.                                                     *)
QueueInit ==
  /\ head = << >> /\ item_count = 0
  /\ locked = FALSE
  /\ pc = [c \in Consumers |-> "idle"]
  /\ woken = {}
  /\ result = [c \in Consumers |-> [ret |-> "none", item |-> NoItem]]
  /\ now = Epoch
  /\ pushed = 0 /\ popped = << >>

Waiting == {c \in Consumers : pc[c] = "waiting"}

(* Deviation (see Pushed): xorg_list_add, at the head of the list.         *)
PushedAtHead == <<pushed + 1>> \o head
Pushed == Append(head, pushed + 1)

(* klqueue_push: pthread_cond_signal wakes at least one waiting thread.    *)
klqueue_push ==
  /\ ~locked
  /\ pushed < MaxPushes
  /\ pushed' = pushed + 1
  /\ head' = Pushed
  /\ item_count' = item_count + 1
  /\ IF Waiting \ woken = {} THEN UNCHANGED woken
     ELSE \E w \in SUBSET (Waiting \ woken) : w # {} /\ woken' = woken \cup w
  /\ UNCHANGED <<locked, pc, result, now, popped>>

(* The rest of a pop that holds the mutex and has ret = 0: when the list   *)
(* is empty *item is left as the caller set it, and 0 is returned.         *)
Take(c) ==
  IF head # << >>
  THEN /\ head' = Tail(head)
       /\ item_count' = item_count - 1
       /\ popped' = Append(popped, Head(head))
       /\ result' = [result EXCEPT ![c] = [ret |-> "ok", item |-> Head(head)]]
  ELSE /\ result' = [result EXCEPT ![c] = [ret |-> "ok", item |-> NoItem]]
       /\ UNCHANGED <<list, popped>>

PopAtOnce(c) ==
  /\ ~locked
  /\ pc[c] = "idle" /\ head # << >>
  /\ Take(c)
  /\ UNCHANGED <<locked, pc, woken, now, pushed>>

(* Nothing there: pthread_cond_timedwait releases the mutex.               *)
PopWait(c) ==
  /\ ~locked
  /\ pc[c] = "idle" /\ head = << >>
  /\ pc' = [pc EXCEPT ![c] = "waiting"]
  /\ UNCHANGED <<list, locked, woken, result, now, pushed, popped>>

(* Signalled, and the mutex taken again: the list is looked at only now.   *)
PopWake(c) ==
  /\ ~locked
  /\ pc[c] = "waiting" /\ c \in woken
  /\ pc' = [pc EXCEPT ![c] = "idle"]
  /\ woken' = woken \ {c}
  /\ Take(c)
  /\ UNCHANGED <<locked, now, pushed>>

(* Deviation: the deadline is never reached.                               *)
ExpiredNever(c) == FALSE
(* timedwait is given {0, usec} as the absolute time to wait for.          *)
Expired(c) == Usec <= now

PopTimeout(c) ==
  /\ ~locked
  /\ pc[c] = "waiting" /\ Expired(c)
  /\ pc' = [pc EXCEPT ![c] = "idle"]
  /\ woken' = woken \ {c}
  /\ result' = [result EXCEPT ![c] = [ret |-> "timeout", item |-> NoItem]]
  /\ UNCHANGED <<list, locked, now, pushed, popped>>

(* Deviation: the entries are freed, the counter is not touched.           *)
DestroyedCountKept == item_count
DestroyedCount == item_count - Len(head)

(* klqueue_destroy: the entries are dropped and the mutex stays locked.    *)
klqueue_destroy ==
  /\ ~locked
  /\ head' = << >>
  /\ item_count' = DestroyedCount
  /\ locked' = TRUE
  /\ UNCHANGED <<consumer, now, pushed, popped>>

QueueTick ==
  /\ now < MaxTime
  /\ now' = now + 1
  /\ UNCHANGED <<list, locked, consumer, pushed, popped>>

(* Everyone who still wants the queue blocks on its mutex.                 *)
Destroyed == locked /\ UNCHANGED queueVars

Pop(c) == PopAtOnce(c) \/ PopWait(c) \/ PopWake(c) \/ PopTimeout(c)

QueueNext ==
  \/ klqueue_push
  \/ \E c \in Consumers : Pop(c)
  \/ klqueue_destroy
  \/ QueueTick
  \/ Destroyed

QueueSpec == QueueInit /\ [][QueueNext]_queueVars

(* The scheduler lets a consumer that waits, and may go on, run.           *)
QueueFair == \A c \in Consumers : WF_queueVars(PopWake(c) \/ PopTimeout(c))

------------------------------------------------------------------------------
(* Every variable has the type of its declaration in kl-queue.h, and the   *)
(* unsigned counter never goes below zero.                                 *)
QueueTypeOK ==
  /\ head \in Seq(Nat) /\ item_count \in Nat
  /\ locked \in BOOLEAN
  /\ pc \in [Consumers -> {"idle", "waiting"}]
  /\ woken \subseteq Consumers
  /\ result \in [Consumers -> Returned]
  /\ now \in Int /\ pushed \in Nat
  /\ popped \in Seq(Nat)

(* "Initialize and track a queue of pointers in a FIFO type arrangement":  *)
(* whatever waiting consumers are woken, overtaken or time out, pointers   *)
(* reach consumers in the order of the pushes, each once, none skipped.    *)
FifoOrder ==
  /\ \A i \in 1 .. Len(popped) : popped[i] = i
  /\ ~locked => /\ Len(popped) + Len(head) = pushed
                /\ \A i \in 1 .. Len(head) : head[i] = Len(popped) + i

(* klqueue_count, and with it klqueue_empty, tells the length of the list, *)
(* also after klqueue_destroy emptied it.                                  *)
CountIsLength == item_count = Len(head)

(* A consumer that waits on item_add comes back, unless the queue is       *)
(* destroyed under it.                                                     *)
PopReturns == \A c \in Consumers : pc[c] = "waiting" ~> (pc[c] = "idle" \/ locked)

==============================================================================

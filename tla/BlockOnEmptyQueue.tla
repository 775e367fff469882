--------------------------- MODULE BlockOnEmptyQueue ---------------------------
(***************************************************************************)
(* BlockOnEmptyConcurrentQueue (include/maplang/): a lock-free queue whose *)
(* pop() sleeps on a condition variable while there is nothing to take.    *)
(* push() enqueues and notifies without the lock, and so does the          *)
(* destructor.  One thread pushes; any number may be inside pop(), also    *)
(* while the queue is destroyed, when pop() is to return false.            *)
(*                                                                         *)
(* The queue inside keeps the order of its one producer.  A waiting thread *)
(* holds a reference to the mutex and the condition variable (`sync`), but *)
(* drops it before it unlocks: locals are destroyed last to first.         *)
(***************************************************************************)
EXTENDS Naturals, Sequences, FiniteSets

CONSTANTS
  Poppers,  \* the threads that call pop()
  NoItem    \* not an item

Nobody == "nobody"

ASSUME PoppersAssumption == IsFiniteSet(Poppers) /\ Nobody \notin Poppers

VARIABLES
  queue,      \* mQueue
  object,     \* the queue object: "alive", "reset" in its destructor, or "gone"
  pc,         \* where each popper is in pop()
  holder,     \* who holds mSync->lock
  item,       \* what each popper took
  notifying,  \* push() has enqueued, but not notified
  crashed,    \* memory was used after it was freed, and it mattered
  overtaken   \* history: poppers a notification came to before they slept

queueVars == <<queue, object, pc, holder, item, notifying, crashed, overtaken>>

\* Outside pop(), with or without an item, or for good; between the first
\* look at the queue and the lock; with the lock, before and after the second
\* look; asleep, and awake again without the lock; about to return.
Places ==
  {"outside", "has item", "told gone", "retired", "trying", "checking", "deciding",
   "asleep", "woken", "leaving"}

In(place) == {p \in Poppers : pc[p] = place}

\* Those inside itemAddedCv.wait(), or done with it: they refer to mSync.
Referring == {p \in Poppers : pc[p] \in {"checking", "deciding", "asleep", "woken", "leaving"}}

Goto(p, place) == pc' = [pc EXCEPT ![p] = place]

QueueInit ==
  /\ queue = <<>>
  /\ object = "alive"
  /\ pc = [p \in Poppers |-> "outside"]
  /\ holder = Nobody
  /\ item = [p \in Poppers |-> NoItem]
  /\ notifying = FALSE
  /\ crashed = FALSE
  /\ overtaken = {}

\* try_dequeue() finds an item.
Take(p) ==
  /\ queue # <<>>
  /\ item' = [item EXCEPT ![p] = Head(queue)]
  /\ queue' = Tail(queue)

-----------------------------------------------------------------------------
(* pop()                                                                     *)

FastPop(p) ==
  /\ object = "alive"
  /\ pc[p] = "outside"
  /\ Take(p)
  /\ Goto(p, "has item")
  /\ UNCHANGED <<object, holder, notifying, crashed, overtaken>>

FindEmpty(p) ==
  /\ object = "alive"
  /\ pc[p] = "outside"
  /\ queue = <<>>
  /\ Goto(p, "trying")
  /\ UNCHANGED <<queue, object, holder, item, notifying, crashed, overtaken>>

\* The object may be gone by now: what it has freed may still be there, or not.
Lock(p) ==
  /\ pc[p] = "trying"
  /\ holder = Nobody
  /\ holder' = p
  /\ Goto(p, "checking")
  /\ crashed' \in IF object = "gone" THEN BOOLEAN ELSE {FALSE}
  /\ UNCHANGED <<queue, object, item, notifying, overtaken>>

\* The predicate of wait(): nothing is left to wait for.
CheckDone(p) ==
  /\ pc[p] = "checking"
  /\ \/ object # "alive" /\ UNCHANGED <<queue, item>>
     \/ object = "alive" /\ Take(p)
  /\ Goto(p, "leaving")
  /\ UNCHANGED <<object, holder, notifying, crashed, overtaken>>

\* A fault: the thread sleeps without a second look.
CheckNothing(p) ==
  /\ pc[p] = "checking"
  /\ object = "alive"
  /\ Goto(p, "deciding")
  /\ UNCHANGED <<queue, object, holder, item, notifying, crashed, overtaken>>

CheckEmpty(p) ==
  /\ pc[p] = "checking"
  /\ object = "alive"
  /\ queue = <<>>
  /\ Goto(p, "deciding")
  /\ UNCHANGED <<queue, object, holder, item, notifying, crashed, overtaken>>

\* wait() unlocks and sleeps in one step.
Sleep(p) ==
  /\ pc[p] = "deciding"
  /\ Goto(p, "asleep")
  /\ holder' = Nobody
  /\ UNCHANGED <<queue, object, item, notifying, crashed, overtaken>>

\* A condition variable may wake a thread for no reason.
WakeUnasked(p) ==
  /\ pc[p] = "asleep"
  /\ Goto(p, "woken")
  /\ overtaken' = overtaken \ {p}
  /\ UNCHANGED <<queue, object, holder, item, notifying, crashed>>

Relock(p) ==
  /\ pc[p] = "woken"
  /\ holder = Nobody
  /\ holder' = p
  /\ Goto(p, "checking")
  /\ UNCHANGED <<queue, object, item, notifying, crashed, overtaken>>

\* The last reference to the mutex goes while it is held, if the object is
\* gone and nobody else is waiting: unlocking it then may do anything.
Leave(p) ==
  /\ pc[p] = "leaving"
  /\ holder' = Nobody
  /\ Goto(p, IF item[p] = NoItem THEN "told gone" ELSE "has item")
  /\ crashed' \in IF object = "gone" /\ Referring = {p} THEN BOOLEAN ELSE {FALSE}
  /\ UNCHANGED <<queue, object, item, notifying, overtaken>>

-----------------------------------------------------------------------------
(* push(), and the destructor                                                *)

Enqueue(x) ==
  /\ object = "alive"
  /\ ~notifying
  /\ queue' = Append(queue, x)
  /\ notifying' = TRUE
  /\ UNCHANGED <<object, pc, holder, item, crashed, overtaken>>

\* A fault: only a push to an empty queue notifies.
NotifyFirst ==
  /\ notifying
  /\ notifying' = FALSE
  /\ \/ /\ In("asleep") = {} \/ Len(queue) > 1
        /\ overtaken' = overtaken \cup In("deciding")
        /\ UNCHANGED pc
     \/ \E p \in In("asleep") :
          /\ Len(queue) <= 1
          /\ Goto(p, "woken")
          /\ overtaken' = overtaken \ {p}
  /\ UNCHANGED <<queue, object, holder, item, crashed>>

\* A thread between its second look and its sleep is not waiting yet: with
\* nobody else to wake, the notification is lost on it.
NotifyOne ==
  /\ notifying
  /\ notifying' = FALSE
  /\ \/ /\ In("asleep") = {}
        /\ overtaken' = overtaken \cup In("deciding")
        /\ UNCHANGED pc
     \/ \E p \in In("asleep") :
          /\ Goto(p, "woken")
          /\ overtaken' = overtaken \ {p}
  /\ UNCHANGED <<queue, object, holder, item, crashed>>

\* The thread that pushes is not in push(), and never will be again.
ResetQueue ==
  /\ object = "alive"
  /\ ~notifying
  /\ object' = "reset"
  /\ queue' = <<>>
  /\ UNCHANGED <<pc, holder, item, notifying, crashed, overtaken>>

\* A fault: the destructor wakes one thread.
NotifyOnlyOne ==
  /\ object = "reset"
  /\ object' = "gone"
  /\ IF In("asleep") = {}
     THEN UNCHANGED pc
     ELSE \E p \in In("asleep") : Goto(p, "woken")
  /\ overtaken' = overtaken \cup In("deciding")
  /\ UNCHANGED <<queue, holder, item, notifying, crashed>>

NotifyAll ==
  /\ object = "reset"
  /\ object' = "gone"
  /\ pc' = [p \in Poppers |-> IF pc[p] = "asleep" THEN "woken" ELSE pc[p]]
  /\ overtaken' = (overtaken \ In("asleep")) \cup In("deciding")
  /\ UNCHANGED <<queue, holder, item, notifying, crashed>>

Pop(p) ==
  \/ FastPop(p) \/ FindEmpty(p) \/ Lock(p) \/ CheckDone(p) \/ CheckEmpty(p)
  \/ Sleep(p) \/ Relock(p) \/ Leave(p)
=============================================================================

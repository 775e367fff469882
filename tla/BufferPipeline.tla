---------------------------- MODULE BufferPipeline ----------------------------
(***************************************************************************)
(* A producer that gets buffers from a pool and pushes them to a queue,    *)
(* and threads that pop them and drop them, which returns them to the      *)
(* pool: what an application does with the two, and what closes the        *)
(* circle, since a blocking pool waits for what waits in the queue.        *)
(***************************************************************************)
EXTENDS BlockOnEmptyQueue, BufferPools

ASSUME NoItemAssumption == NoItem \notin Buffers

vars == <<queueVars, poolVars>>

Queued == {queue[i] : i \in DOMAIN queue}
Taken == {item[p] : p \in Poppers} \ {NoItem}
Out == Queued \cup Taken \cup ({got} \ {NoBuffer})

\* The caller asks only while there is memory for what may be created.
Room == Cardinality(Unused) > Limit

Get ==
  /\ object = "alive"
  /\ ~notifying
  /\ Room
  /\ (\E s \in Sizes : GetBuffer(s)) \/ GetObject
  /\ UNCHANGED queueVars

Obtain == (Create \/ Reuse) /\ UNCHANGED queueVars

Allocator == Room /\ SetAllocator /\ UNCHANGED queueVars

Push ==
  /\ got # NoBuffer
  /\ Enqueue(got)
  /\ got' = NoBuffer
  /\ UNCHANGED <<kind, bufferSize, size, current, free, total, asked, failed>>

Notify == NotifyOne /\ UNCHANGED poolVars

PopStep(p) == Pop(p) /\ UNCHANGED poolVars

Wakeup(p) == WakeUnasked(p) /\ UNCHANGED poolVars

\* A popper is done with its buffer and calls pop() again.
Drop(p) ==
  /\ pc[p] = "has item"
  /\ Goto(p, "outside")
  /\ item' = [item EXCEPT ![p] = NoItem]
  /\ Return({item[p]})
  /\ UNCHANGED <<queue, object, holder, notifying, crashed, overtaken, got>>

\* All poppers but one may stop calling pop().
Retire(p) ==
  /\ pc[p] = "outside"
  /\ In("retired") \cup {p} # Poppers
  /\ Goto(p, "retired")
  /\ UNCHANGED <<queue, object, holder, item, notifying, crashed, overtaken, poolVars>>

\* Destroying the queue destroys the buffers in it.
DestroyQueue ==
  /\ asked = 0
  /\ got = NoBuffer
  /\ ResetQueue
  /\ Return(Queued)
  /\ UNCHANGED got

EndDestroy == NotifyAll /\ UNCHANGED poolVars

Init == QueueInit /\ PoolInit

Next ==
  /\ ~crashed
  /\ \/ Get \/ Obtain \/ Allocator \/ Push \/ Notify \/ DestroyQueue \/ EndDestroy
     \/ \E p \in Poppers : PopStep(p) \/ Wakeup(p) \/ Drop(p) \/ Retire(p)

\* Threads run on: who is inside a call gets through it, and a popper comes
\* back for more.  Nobody need ask, destroy the queue, or be woken unasked.
Fairness ==
  /\ WF_vars(~crashed /\ Obtain)
  /\ WF_vars(~crashed /\ Push)
  /\ WF_vars(~crashed /\ Notify)
  /\ WF_vars(~crashed /\ EndDestroy)
  /\ \A p \in Poppers : WF_vars(~crashed /\ PopStep(p)) /\ WF_vars(~crashed /\ Drop(p))

Spec == Init /\ [][Next]_vars /\ Fairness

-----------------------------------------------------------------------------
(***************************************************************************)
(* Types, and who has the mutex: a popper from its lock to its sleep or    *)
(* its return (pop()).                                                     *)
(***************************************************************************)
TypeOK ==
  /\ object \in {"alive", "reset", "gone"}
  /\ pc \in [Poppers -> Places]
  /\ item \in [Poppers -> Buffers \cup {NoItem}]
  /\ queue \in Seq(Buffers)
  /\ notifying \in BOOLEAN /\ crashed \in BOOLEAN /\ failed \in BOOLEAN
  /\ kind \in Kinds
  /\ size \in [Buffers -> Sizes \cup {0}]
  /\ bufferSize \in Sizes \cup {0} /\ asked \in Sizes \cup {0}
  /\ free \subseteq Buffers /\ current \subseteq Buffers
  /\ total \in 0..Limit
  /\ got \in Buffers \cup {NoBuffer}
  /\ \A p \in Poppers : holder = p <=> pc[p] \in {"checking", "deciding", "leaving"}

(***************************************************************************)
(* A buffer is in one place: free, in the producer's hand, in the queue,   *)
(* or with a popper.  Those of the pool's present queue are free or out,   *)
(* and are as many as a blocking pool has counted, never more than its     *)
(* limit (totalAllocatedBuffers, and the deleter of the pool).  And one    *)
(* that is used again is as large as what is asked for, also when smaller  *)
(* ones were out while the pool grew: get() never throws its "internal     *)
(* error" (BufferPool.cpp:57, BlockingBufferPool.cpp:75).                  *)
(***************************************************************************)
EveryBufferOnce ==
  /\ free \cap Out = {}
  /\ got \notin Queued \cup Taken /\ Queued \cap Taken = {}
  /\ \A i, j \in DOMAIN queue : queue[i] = queue[j] => i = j
  /\ \A p, q \in Poppers : item[p] = item[q] /\ item[p] # NoItem => p = q
  /\ free \cup (Out \cap current) = current
  /\ Unused = Buffers \ (free \cup Out)
  /\ kind # "BufferPool" => Cardinality(current) = total
  /\ ~failed

(***************************************************************************)
(* A thread sleeps on while there is an item, or the queue is destroyed,   *)
(* and nobody is about to wake it or take the item, only if a notification *)
(* came after its second look and before its sleep (push() and the         *)
(* destructor notify without the lock).                                    *)
(***************************************************************************)
Awake == {p \in Poppers : pc[p] \in {"trying", "checking", "deciding", "woken"}}

OnlyOvertakenStay ==
  /\ (In("asleep") # {} /\ queue # <<>> /\ ~notifying /\ Awake = {}) =>
       In("asleep") \subseteq overtaken
  /\ object = "gone" => In("asleep") \subseteq overtaken

(***************************************************************************)
(* get() returns, even from an empty pool at its limit, as long as one     *)
(* popper comes back for the items (wait_dequeue()): the only ways it      *)
(* waits for ever are a notification that was lost on the last popper, and *)
(* a crash.                                                                *)
(***************************************************************************)
AllAsleep ==
  In("asleep") \cup In("retired") = Poppers /\ queue # <<>> /\ overtaken # {}

GetReturns == asked # 0 ~> (asked = 0 \/ AllAsleep \/ crashed)

(***************************************************************************)
(* "Returns false if the queue was destroyed before an item was received": *)
(* each thread in pop() comes out of it once the queue is destroyed,       *)
(* unless the notification overtook it or the process crashed.             *)
(***************************************************************************)
DestructionReleases ==
  \A p \in Poppers :
    object = "gone" ~> (pc[p] \in {"told gone", "outside", "has item", "retired"} \/ p \in overtaken \/ crashed)
=============================================================================

------------------------------ MODULE BufferPools ------------------------------
(***************************************************************************)
(* The three pools of the repository (src/BufferPool.cpp,                  *)
(* src/BlockingBufferPool.cpp, include/maplang/BlockingObjectPool.h).  One *)
(* thread gets; what it got is returned from any thread, by a deleter that *)
(* finds the pool's queue through a weak pointer, and frees the buffer     *)
(* when that queue is not the pool's any more: a larger request or another *)
(* allocator gives the pool a new queue.                                   *)
(*                                                                         *)
(* Objects are buffers of one size.  Buffers that were freed may be        *)
(* allocated again.                                                        *)
(***************************************************************************)
EXTENDS Naturals, FiniteSets

CONSTANTS
  NumBuffers,  \* there is memory for this many: a bound
  Sizes,       \* sizes asked for, positive
  Limit        \* maxAllocatedBuffers, objectsInPool

ASSUME PoolsAssumption ==
  /\ NumBuffers \in Nat
  /\ Sizes \subseteq Nat \ {0} /\ Sizes # {}
  /\ Limit \in Nat

Buffers == 1..NumBuffers
NoBuffer == 0
Kinds == {"BufferPool", "BlockingBufferPool", "BlockingObjectPool"}
ObjectSize == CHOOSE s \in Sizes : TRUE

VARIABLES
  kind,        \* which pool this is
  bufferSize,  \* mImpl->bufferSize; of an object pool, 0 until it has an allocator
  size,        \* the length of each buffer, 0 when it is not allocated
  current,     \* the buffers whose deleter finds the pool's queue
  free,        \* bufferQueue, objectQueue_
  total,       \* totalAllocatedBuffers, totalAllocatedObjects_
  asked,       \* the size get() is called with, or 0
  got,         \* what get() has returned
  failed       \* get() has thrown "internal error"

poolVars == <<kind, bufferSize, size, current, free, total, asked, got, failed>>

Unused == {b \in Buffers : size[b] = 0}

PoolInit ==
  /\ kind \in Kinds
  /\ bufferSize = 0
  /\ size = [b \in Buffers |-> 0]
  /\ current = {}
  /\ free = {}
  /\ total = 0
  /\ asked = 0
  /\ got = NoBuffer
  /\ failed = FALSE

\* A new queue: what is free in the old one is freed, what is out will be.
NewQueue ==
  /\ size' = [b \in Buffers |-> IF b \in free THEN 0 ELSE size[b]]
  /\ current' = {}
  /\ free' = {}
  /\ total' = 0

Ask(s) ==
  /\ asked = 0
  /\ got = NoBuffer
  /\ asked' = s
  /\ UNCHANGED <<kind, got, failed>>

\* get() of a buffer pool, up to the growth of the pool.
GetBuffer(s) ==
  /\ kind # "BlockingObjectPool"
  /\ Ask(s)
  /\ IF s > bufferSize
     THEN NewQueue /\ bufferSize' = s
     ELSE UNCHANGED <<bufferSize, size, current, free, total>>

\* get() of an object pool; it throws while there is no allocator, and the
\* caller goes on.
GetObject ==
  /\ kind = "BlockingObjectPool"
  /\ bufferSize # 0
  /\ Ask(ObjectSize)
  /\ UNCHANGED <<bufferSize, size, current, free, total>>

SetAllocator ==
  /\ kind = "BlockingObjectPool"
  /\ asked = 0
  /\ NewQueue
  /\ bufferSize' = ObjectSize
  /\ UNCHANGED <<kind, asked, got, failed>>

\* The buffer is wrapped in one with a deleter of the pool, and is returned;
\* one that is too small makes get() throw.
HandOut(b) ==
  /\ asked' = 0
  /\ IF asked > size'[b]
     THEN failed' = TRUE /\ UNCHANGED got
     ELSE got' = b /\ UNCHANGED failed

\* A fault: a buffer that was returned is counted as one more to create.
MayCreateMore ==
  IF kind = "BufferPool" THEN free = {} ELSE total < Limit + Cardinality(free)

MayCreate ==
  IF kind = "BufferPool" THEN free = {} ELSE total < Limit

Create ==
  /\ asked # 0
  /\ MayCreate
  /\ \E b \in Unused :
       /\ \A c \in Unused : b <= c
       /\ size' = [size EXCEPT ![b] = bufferSize]
       /\ current' = current \cup {b}
       /\ HandOut(b)
  /\ total' = IF kind = "BufferPool" THEN 0 ELSE total + 1
  /\ UNCHANGED <<kind, bufferSize, free>>

\* try_dequeue(), or wait_dequeue(), which waits for one to be returned.
Reuse ==
  /\ asked # 0
  /\ ~MayCreate
  /\ \E b \in free :
       /\ free' = free \ {b}
       /\ UNCHANGED size
       /\ HandOut(b)
  /\ UNCHANGED <<kind, bufferSize, current, total>>

\* A fault: a buffer of an older queue is returned to the present one.
ReturnAll(returned) ==
  /\ free' = free \cup returned
  /\ current' = current \cup returned
  /\ UNCHANGED <<kind, bufferSize, size, total, asked, failed>>

\* The deleters of the buffers in a set, on any thread.
Return(returned) ==
  /\ free' = free \cup (returned \cap current)
  /\ size' = [b \in Buffers |-> IF b \in returned \ current THEN 0 ELSE size[b]]
  /\ UNCHANGED <<kind, bufferSize, current, total, asked, failed>>
=============================================================================

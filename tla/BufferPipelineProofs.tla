------------------------- MODULE BufferPipelineProofs -------------------------
(***************************************************************************)
(* What holds of BufferPipeline for any number of threads and buffers and  *)
(* any limit of the pool.  That nobody sleeps beside an item unless a      *)
(* notification overtook him rests on a count: as long as one who waits    *)
(* has not been overtaken, there are no more items than threads on their   *)
(* way to look at the queue, a notification that is still to come counting *)
(* as one of them.  That a buffer is in one place rests on the sizes of    *)
(* the pool's buffers, and on where a popper can hold one.                 *)
(***************************************************************************)
EXTENDS BufferPipeline, FiniteSetTheorems, TLAPS

Waiting == In("asleep") \cup In("deciding")
Hunting == {p \in Poppers : pc[p] \in {"trying", "checking", "woken"}}
Coming  == Cardinality(Hunting) + (IF notifying THEN 1 ELSE 0)

Woken ==
  /\ overtaken \subseteq Waiting
  /\ object # "alive" => queue = <<>> /\ ~ notifying
  /\ object = "gone" => Waiting \subseteq overtaken
  /\ object = "alive" /\ Waiting \ overtaken # {} => Len(queue) <= Coming

-----------------------------------------------------------------------------
(* Types.                                                                  *)

QueueTypes ==
  /\ object \in {"alive", "reset", "gone"}
  /\ pc \in [Poppers -> Places]
  /\ item \in [Poppers -> Buffers \cup {NoItem}]
  /\ queue \in Seq(Buffers)
  /\ notifying \in BOOLEAN /\ crashed \in BOOLEAN

PoolTypes ==
  /\ kind \in Kinds
  /\ failed \in BOOLEAN
  /\ size \in [Buffers -> Sizes \cup {0}]
  /\ bufferSize \in Sizes \cup {0} /\ asked \in Sizes \cup {0}
  /\ free \subseteq Buffers /\ current \subseteq Buffers
  /\ total \in 0 .. Limit
  /\ got \in Buffers \cup {NoBuffer}

Locked ==
  \A p \in Poppers : holder = p <=> pc[p] \in {"checking", "deciding", "leaving"}

LEMMA TypeParts == TypeOK <=> QueueTypes /\ PoolTypes /\ Locked
BY DEF TypeOK, QueueTypes, PoolTypes, Locked

LEMMA TypePartsNext == TypeOK' <=> QueueTypes' /\ PoolTypes' /\ Locked'
BY DEF TypeOK, QueueTypes, PoolTypes, Locked

LEMMA TakeTypes ==
  ASSUME QueueTypes, NEW p \in Poppers, Take(p)
  PROVE  /\ item' \in [Poppers -> Buffers \cup {NoItem}]
         /\ queue' \in Seq(Buffers)
         /\ Len(queue') = Len(queue) - 1
         /\ Len(queue) \in Nat
BY DEF Take, QueueTypes

\* A step of pop() keeps the types and the mutex.
LEMMA PopTypes ==
  ASSUME QueueTypes, Locked, NEW p \in Poppers, Pop(p) \/ WakeUnasked(p)
  PROVE  QueueTypes' /\ Locked'
<1>. USE DEF Goto
<1>1. CASE FastPop(p)
  BY <1>1, TakeTypes DEF FastPop, QueueTypes, Locked, Places
<1>2. CASE FindEmpty(p)
  BY <1>2 DEF FindEmpty, QueueTypes, Locked, Places
<1>3. CASE Lock(p)
  BY <1>3, PoppersAssumption DEF Lock, QueueTypes, Locked, Places
<1>4. CASE CheckDone(p)
  <2>1. CASE object # "alive" /\ UNCHANGED <<queue, item>>
    BY <1>4, <2>1 DEF CheckDone, QueueTypes, Locked, Places
  <2>2. CASE Take(p)
    BY <1>4, <2>2, TakeTypes DEF CheckDone, QueueTypes, Locked, Places
  <2>. QED BY <1>4, <2>1, <2>2 DEF CheckDone
<1>5. CASE CheckEmpty(p)
  BY <1>5 DEF CheckEmpty, QueueTypes, Locked, Places
<1>6. CASE Sleep(p)
  BY <1>6, PoppersAssumption DEF Sleep, QueueTypes, Locked, Places
<1>7. CASE Relock(p)
  BY <1>7, PoppersAssumption DEF Relock, QueueTypes, Locked, Places
<1>8. CASE Leave(p)
  BY <1>8, PoppersAssumption DEF Leave, QueueTypes, Locked, Places
<1>9. CASE WakeUnasked(p)
  BY <1>9 DEF WakeUnasked, QueueTypes, Locked, Places
<1>. QED BY <1>1, <1>2, <1>3, <1>4, <1>5, <1>6, <1>7, <1>8, <1>9 DEF Pop

LEMMA NotifyTypes ==
  ASSUME QueueTypes, Locked, NotifyOne \/ NotifyAll
  PROVE  QueueTypes' /\ Locked'
<1>1. CASE NotifyOne /\ UNCHANGED pc
  BY <1>1 DEF NotifyOne, QueueTypes, Locked
<1>2. ASSUME NotifyOne, NEW p \in In("asleep"), Goto(p, "woken")
      PROVE  QueueTypes' /\ Locked'
  BY <1>2 DEF NotifyOne, Goto, In, QueueTypes, Locked, Places
<1>3. CASE NotifyAll
  BY <1>3 DEF NotifyAll, QueueTypes, Locked, Places
<1>. QED BY <1>1, <1>2, <1>3 DEF NotifyOne

\* What the pool does.
LEMMA PoolStepTypes ==
  ASSUME PoolTypes,
         (\E s \in Sizes : GetBuffer(s)) \/ GetObject \/ Create \/ Reuse \/ SetAllocator
  PROVE  PoolTypes'
<1>1. ASSUME NewQueue
      PROVE  /\ size' \in [Buffers -> Sizes \cup {0}] /\ total' \in 0 .. Limit
             /\ free' \subseteq Buffers /\ current' \subseteq Buffers
  BY <1>1, PoolsAssumption DEF NewQueue, PoolTypes
<1>2. ObjectSize \in Sizes
  BY PoolsAssumption DEF ObjectSize
<1>3. ASSUME NEW s \in Sizes, GetBuffer(s) PROVE PoolTypes'
  BY <1>1, <1>3 DEF GetBuffer, Ask, PoolTypes
<1>4. CASE GetObject
  BY <1>2, <1>4 DEF GetObject, Ask, PoolTypes
<1>5. CASE SetAllocator
  BY <1>1, <1>2, <1>5 DEF SetAllocator, PoolTypes
<1>6. CASE Create
  <2>1. PICK b \in Unused :
         /\ size' = [size EXCEPT ![b] = bufferSize]
         /\ current' = current \cup {b}
         /\ HandOut(b)
    BY <1>6 DEF Create
  <2>2. b \in Buffers BY DEF Unused
  <2>3. size' \in [Buffers -> Sizes \cup {0}] BY <2>1, <2>2 DEF PoolTypes
  <2>4. total' \in 0 .. Limit
    BY <1>6, PoolsAssumption DEF Create, MayCreate, PoolTypes
  <2>5. asked' = 0 /\ got' \in Buffers \cup {NoBuffer} /\ failed' \in BOOLEAN
    BY <2>1, <2>2 DEF HandOut, PoolTypes
  <2>6. free' \subseteq Buffers /\ current' \subseteq Buffers
    BY <1>6, <2>1, <2>2 DEF Create, PoolTypes
  <2>. QED BY <1>6, <2>3, <2>4, <2>5, <2>6 DEF Create, PoolTypes
<1>7. CASE Reuse
  <2>1. PICK b \in free : free' = free \ {b} /\ HandOut(b)
    BY <1>7 DEF Reuse
  <2>. QED BY <1>7, <2>1 DEF Reuse, HandOut, PoolTypes
<1>. QED BY <1>3, <1>4, <1>5, <1>6, <1>7

LEMMA ReturnTypes ==
  ASSUME PoolTypes, NEW R, Return(R), got' \in Buffers \cup {NoBuffer}
  PROVE  PoolTypes'
BY DEF Return, PoolTypes

LEMMA InitTypes == Init => TypeOK
<1>. SUFFICES ASSUME Init PROVE TypeOK
  OBVIOUS
<1>1. QueueTypes
  <2>1. pc \in [Poppers -> Places] BY DEF Init, QueueInit, Places
  <2>2. item \in [Poppers -> Buffers \cup {NoItem}] BY DEF Init, QueueInit
  <2>3. queue \in Seq(Buffers) BY DEF Init, QueueInit
  <2>. QED BY <2>1, <2>2, <2>3 DEF Init, QueueInit, QueueTypes
<1>2. PoolTypes
  <2>1. size \in [Buffers -> Sizes \cup {0}] BY DEF Init, PoolInit
  <2>2. total \in 0 .. Limit BY PoolsAssumption DEF Init, PoolInit
  <2>3. got \in Buffers \cup {NoBuffer} BY DEF Init, PoolInit
  <2>. QED BY <2>1, <2>2, <2>3 DEF Init, PoolInit, PoolTypes
<1>3. Locked
  BY PoppersAssumption DEF Init, QueueInit, Locked
<1>. QED BY <1>1, <1>2, <1>3, TypeParts

LEMMA StepTypes == ASSUME TypeOK, [Next]_vars PROVE TypeOK'
<1>. USE TypeParts, TypePartsNext
<1>0. ASSUME UNCHANGED queueVars PROVE QueueTypes' /\ Locked'
  BY <1>0 DEF queueVars, QueueTypes, Locked
<1>00. ASSUME UNCHANGED poolVars PROVE PoolTypes'
  BY <1>00 DEF poolVars, PoolTypes
<1>1. CASE Get \/ Obtain \/ Allocator
  BY <1>0, <1>1, PoolStepTypes DEF Get, Obtain, Allocator
<1>2. CASE Push
  <2>1. got \in Buffers BY <1>2 DEF Push, PoolTypes
  <2>2. QueueTypes' /\ Locked'
    BY <1>2, <2>1 DEF Push, Enqueue, QueueTypes, Locked
  <2>3. PoolTypes' BY <1>2 DEF Push, PoolTypes
  <2>. QED BY <2>2, <2>3
<1>3. CASE Notify \/ EndDestroy
  BY <1>00, <1>3, NotifyTypes DEF Notify, EndDestroy
<1>4. CASE DestroyQueue
  <2>1. QueueTypes' /\ Locked'
    BY <1>4 DEF DestroyQueue, ResetQueue, QueueTypes, Locked
  <2>2. PoolTypes' BY <1>4, ReturnTypes DEF DestroyQueue, PoolTypes
  <2>. QED BY <2>1, <2>2
<1>5. ASSUME NEW p \in Poppers, PopStep(p) \/ Wakeup(p) PROVE TypeOK'
  BY <1>00, <1>5, PopTypes DEF PopStep, Wakeup
<1>6. ASSUME NEW p \in Poppers, Drop(p) PROVE TypeOK'
  <2>1. QueueTypes' /\ Locked'
    BY <1>6 DEF Drop, Goto, QueueTypes, Locked, Places
  <2>2. PoolTypes' BY <1>6, ReturnTypes DEF Drop, PoolTypes
  <2>. QED BY <2>1, <2>2
<1>7. ASSUME NEW p \in Poppers, Retire(p) PROVE TypeOK'
  <2>1. QueueTypes' /\ Locked'
    BY <1>7 DEF Retire, Goto, QueueTypes, Locked, Places
  <2>. QED BY <1>00, <1>7, <2>1 DEF Retire
<1>8. CASE UNCHANGED vars
  BY <1>0, <1>00, <1>8 DEF vars
<1>. QED BY <1>1, <1>2, <1>3, <1>4, <1>5, <1>6, <1>7, <1>8 DEF Next

-----------------------------------------------------------------------------
(* Who is on his way to the queue.                                         *)

LEMMA HuntingFinite == IsFiniteSet(Hunting) /\ Cardinality(Hunting) \in Nat
BY FS_Subset, FS_CardinalityType, PoppersAssumption DEF Hunting

LEMMA Moves ==
  ASSUME QueueTypes, NEW p \in Poppers, NEW place \in Places, Goto(p, place)
  PROVE  /\ Hunting' = IF place \in {"trying", "checking", "woken"}
                        THEN Hunting \cup {p} ELSE Hunting \ {p}
         /\ Waiting' = IF place \in {"asleep", "deciding"}
                        THEN Waiting \cup {p} ELSE Waiting \ {p}
BY DEF QueueTypes, Goto, Hunting, Waiting, In

LEMMA HuntingMoves ==
  ASSUME QueueTypes, NEW p \in Poppers, NEW place \in Places, Goto(p, place)
  PROVE  /\ Cardinality(Hunting') \in Nat
         /\ place \in {"trying", "checking", "woken"} =>
              Cardinality(Hunting') =
                IF p \in Hunting THEN Cardinality(Hunting) ELSE Cardinality(Hunting) + 1
         /\ place \notin {"trying", "checking", "woken"} =>
              Cardinality(Hunting') =
                IF p \in Hunting THEN Cardinality(Hunting) - 1 ELSE Cardinality(Hunting)
<1>1. CASE place \in {"trying", "checking", "woken"}
  <2>1. Hunting' = Hunting \cup {p} BY <1>1, Moves
  <2>. QED BY <1>1, <2>1, HuntingFinite, FS_AddElement, FS_CardinalityType
<1>2. CASE place \notin {"trying", "checking", "woken"}
  <2>1. Hunting' = Hunting \ {p} BY <1>2, Moves
  <2>. QED BY <1>2, <2>1, HuntingFinite, FS_RemoveElement, FS_CardinalityType
<1>. QED BY <1>1, <1>2

-----------------------------------------------------------------------------
(* Nobody sleeps beside an item unless he was overtaken.                   *)

\* What is in the queue, as a number.
LEMMA QueueLength == ASSUME QueueTypes PROVE Len(queue) \in Nat /\ (queue = <<>> <=> Len(queue) = 0)
BY DEF QueueTypes

\* A popper that was not waiting goes somewhere he does not wait: nobody is
\* worse off if the queue has become shorter by as much as there are fewer
\* who hunt.
LEMMA PopperMoves ==
  ASSUME QueueTypes, Woken, NEW p \in Poppers, NEW place \in Places, Goto(p, place),
         p \notin Waiting, place \notin {"asleep", "deciding"},
         overtaken' = overtaken, object' = object, notifying' = notifying,
         object # "alive" => queue' = <<>>,
         object = "alive" =>
           Len(queue') + Cardinality(Hunting) <= Len(queue) + Cardinality(Hunting'),
         Len(queue') \in Nat, Cardinality(Hunting') \in Nat
  PROVE  Woken'
<1>1. Waiting' = Waiting
  <2>1. Waiting' = Waiting \ {p} BY Moves
  <2>. QED BY <2>1
<1>2. ASSUME object = "alive", Waiting \ overtaken # {} PROVE Len(queue') <= Coming'
  <2>1. Len(queue) <= Coming BY <1>2 DEF Woken
  <2>. QED BY <1>2, <2>1, HuntingFinite, QueueLength DEF Coming
<1>. QED BY <1>1, <1>2 DEF Woken

\* One who neither waits nor hunts, before or after, leaves all as it is.
LEMMA QuietMoves ==
  ASSUME QueueTypes, Woken, NEW p \in Poppers, NEW place \in Places, Goto(p, place),
         p \notin Waiting, p \notin Hunting, place \notin {"asleep", "deciding"},
         place \notin {"trying", "checking", "woken"},
         UNCHANGED <<object, overtaken, notifying, queue>>
  PROVE  Woken'
<1>1. Hunting' = Hunting
  <2>1. Hunting' = Hunting \ {p} BY Moves
  <2>. QED BY <2>1
<1>2. Waiting' = Waiting
  <2>1. Waiting' = Waiting \ {p} BY Moves
  <2>. QED BY <2>1
<1>. QED BY <1>1, <1>2 DEF Woken, Coming

LEMMA FastPopWoken ==
  ASSUME QueueTypes, Woken, NEW p \in Poppers, FastPop(p) PROVE Woken'
<1>1. p \notin Waiting /\ p \notin Hunting BY DEF FastPop, Waiting, Hunting, In
<1>2. Goto(p, "has item") /\ "has item" \in Places BY DEF FastPop, Places
<1>3. Len(queue') \in Nat /\ Len(queue') = Len(queue) - 1
  <2>1. Take(p) BY DEF FastPop
  <2>2. Len(queue') \in Nat BY <2>1, TakeTypes
  <2>. QED BY <2>1, <2>2, TakeTypes
<1>4. Cardinality(Hunting') = Cardinality(Hunting) BY <1>1, <1>2, HuntingMoves
<1>5. object = "alive" /\ object' = object /\ overtaken' = overtaken /\ notifying' = notifying
  BY DEF FastPop
<1>6. Cardinality(Hunting') \in Nat BY <1>2, HuntingMoves
<1>7. Len(queue') + Cardinality(Hunting) <= Len(queue) + Cardinality(Hunting')
  BY <1>3, <1>4, <1>6, QueueLength
<1>. QED BY <1>1, <1>2, <1>3, <1>5, <1>6, <1>7, PopperMoves

LEMMA FindEmptyWoken ==
  ASSUME QueueTypes, Woken, NEW p \in Poppers, FindEmpty(p) PROVE Woken'
<1>1. p \notin Waiting /\ p \notin Hunting BY DEF FindEmpty, Waiting, Hunting, In
<1>2. Goto(p, "trying") /\ "trying" \in Places BY DEF FindEmpty, Places
<1>3. Cardinality(Hunting') = Cardinality(Hunting) + 1 BY <1>1, <1>2, HuntingMoves
<1>4. /\ object = "alive" /\ object' = object /\ overtaken' = overtaken
      /\ notifying' = notifying /\ queue' = queue
  BY DEF FindEmpty
<1>. QED BY <1>1, <1>2, <1>3, <1>4, HuntingFinite, QueueLength, PopperMoves

LEMMA LockWoken ==
  ASSUME QueueTypes, Woken, NEW p \in Poppers, Lock(p) \/ Relock(p) PROVE Woken'
<1>1. p \notin Waiting /\ p \in Hunting BY DEF Lock, Relock, Waiting, Hunting, In
<1>2. Goto(p, "checking") /\ "checking" \in Places BY DEF Lock, Relock, Places
<1>3. Cardinality(Hunting') = Cardinality(Hunting) BY <1>1, <1>2, HuntingMoves
<1>4. /\ object' = object /\ overtaken' = overtaken
      /\ notifying' = notifying /\ queue' = queue
  BY DEF Lock, Relock
<1>5. object # "alive" => queue' = <<>> BY <1>4 DEF Woken
<1>. QED BY <1>1, <1>2, <1>3, <1>4, <1>5, HuntingFinite, QueueLength, PopperMoves

LEMMA LeaveWoken ==
  ASSUME QueueTypes, Woken, NEW p \in Poppers, Leave(p) PROVE Woken'
<1>1. p \notin Waiting /\ p \notin Hunting BY DEF Leave, Waiting, Hunting, In
<1>2. PICK place \in {"told gone", "has item"} : Goto(p, place) BY DEF Leave
<1>3. /\ place \in Places /\ place \notin {"asleep", "deciding"}
      /\ place \notin {"trying", "checking", "woken"}
  BY DEF Places
<1>. QED BY <1>1, <1>2, <1>3, QuietMoves DEF Leave

LEMMA CheckDoneWoken ==
  ASSUME QueueTypes, Woken, NEW p \in Poppers, CheckDone(p) PROVE Woken'
<1>1. p \notin Waiting /\ p \in Hunting BY DEF CheckDone, Waiting, Hunting, In
<1>2. Goto(p, "leaving") /\ "leaving" \in Places BY DEF CheckDone, Places
<1>3. Cardinality(Hunting') = Cardinality(Hunting) - 1 BY <1>1, <1>2, HuntingMoves
<1>4. Cardinality(Hunting') \in Nat BY <1>2, HuntingMoves
<1>5. object' = object /\ overtaken' = overtaken /\ notifying' = notifying
  BY DEF CheckDone
<1>6. CASE object # "alive" /\ UNCHANGED <<queue, item>>
  <2>1. queue' = <<>> BY <1>6 DEF Woken
  <2>. QED BY <1>1, <1>2, <1>4, <1>5, <1>6, <2>1, QueueLength, PopperMoves
<1>7. CASE object = "alive" /\ Take(p)
  <2>1. Len(queue') \in Nat /\ Len(queue') = Len(queue) - 1
    BY <1>7, TakeTypes, QueueLength DEF QueueTypes
  <2>. QED
    BY <1>1, <1>2, <1>3, <1>4, <1>5, <1>7, <2>1, HuntingFinite, QueueLength, PopperMoves
<1>. QED BY <1>6, <1>7 DEF CheckDone

\* He who decides to sleep has seen an empty queue.
LEMMA CheckEmptyWoken ==
  ASSUME QueueTypes, Woken, NEW p \in Poppers, CheckEmpty(p) PROVE Woken'
<1>1. Goto(p, "deciding") /\ "deciding" \in Places BY DEF CheckEmpty, Places
<1>2. Waiting' = Waiting \cup {p} BY <1>1, Moves
<1>3. Len(queue') = 0 BY QueueLength DEF CheckEmpty
<1>4. Cardinality(Hunting') \in Nat BY <1>1, HuntingMoves
<1>5. 0 <= Coming' BY <1>4 DEF Coming
<1>. QED BY <1>2, <1>3, <1>5 DEF Woken, CheckEmpty

LEMMA SleepWoken ==
  ASSUME QueueTypes, Woken, NEW p \in Poppers, Sleep(p) PROVE Woken'
<1>1. p \in Waiting /\ p \notin Hunting BY DEF Sleep, Waiting, Hunting, In
<1>2. Goto(p, "asleep") /\ "asleep" \in Places BY DEF Sleep, Places
<1>3. Waiting' = Waiting
  <2>1. Waiting' = Waiting \cup {p} BY <1>2, Moves
  <2>. QED BY <1>1, <2>1
<1>4. Cardinality(Hunting') = Cardinality(Hunting) BY <1>1, <1>2, HuntingMoves
<1>5. Coming' = Coming BY <1>4 DEF Coming, Sleep
<1>. QED BY <1>3, <1>5 DEF Woken, Sleep

\* A sleeper that is woken hunts.
LEMMA SleeperWoken ==
  ASSUME QueueTypes, Woken, NEW p \in In("asleep"), Goto(p, "woken"),
         overtaken' = overtaken \ {p}, queue' = queue, object' = object,
         notifying' \in BOOLEAN, object # "alive" => ~ notifying'
  PROVE  Woken'
<1>1. p \in Poppers /\ p \in Waiting /\ p \notin Hunting
  BY DEF Waiting, Hunting, In
<1>2. Waiting' = Waiting \ {p} BY <1>1, Moves DEF Places
<1>3. Cardinality(Hunting') = Cardinality(Hunting) + 1
  BY <1>1, HuntingMoves DEF Places
<1>4. Coming' >= Coming /\ Coming \in Nat /\ Coming' \in Nat
  BY <1>3, HuntingFinite DEF Coming, QueueTypes
<1>. QED BY <1>2, <1>4, QueueLength DEF Woken

LEMMA WakeUnaskedWoken ==
  ASSUME QueueTypes, Woken, NEW p \in Poppers, WakeUnasked(p) PROVE Woken'
BY SleeperWoken DEF WakeUnasked, In, Woken, QueueTypes

LEMMA NotifyOneWoken ==
  ASSUME QueueTypes, Woken, NotifyOne PROVE Woken'
<1>1. ASSUME NEW p \in In("asleep"), Goto(p, "woken"), overtaken' = overtaken \ {p}
      PROVE  Woken'
  BY <1>1, SleeperWoken DEF NotifyOne, Woken
<1>2. CASE In("asleep") = {} /\ overtaken' = overtaken \cup In("deciding") /\ UNCHANGED pc
  <2>1. Waiting' = Waiting /\ Waiting' \subseteq overtaken' /\ overtaken' \subseteq Waiting'
    BY <1>2 DEF Waiting, In, Woken
  <2>. QED BY <1>2, <2>1 DEF NotifyOne, Woken
<1>. QED BY <1>1, <1>2 DEF NotifyOne

LEMMA NotifyAllWoken ==
  ASSUME QueueTypes, Woken, NotifyAll PROVE Woken'
<1>1. In("asleep")' = {} /\ In("deciding")' = In("deciding")
  BY DEF NotifyAll, In, QueueTypes, Places
<1>2. Waiting' \subseteq overtaken' /\ overtaken' \subseteq Waiting'
  BY <1>1 DEF NotifyAll, Waiting, Woken
<1>. QED BY <1>2 DEF NotifyAll, Woken

LEMMA EnqueueWoken ==
  ASSUME QueueTypes, Woken, NEW x \in Buffers, Enqueue(x) PROVE Woken'
<1>1. Waiting' = Waiting /\ Hunting' = Hunting
  BY DEF Enqueue, Waiting, Hunting, In
<1>2. Len(queue') = Len(queue) + 1 /\ Len(queue) \in Nat
  BY DEF Enqueue, QueueTypes
<1>3. Coming' = Coming + 1 /\ Coming \in Nat
  BY <1>1, HuntingFinite DEF Enqueue, Coming
<1>. QED BY <1>1, <1>2, <1>3 DEF Enqueue, Woken

LEMMA ResetQueueWoken ==
  ASSUME QueueTypes, Woken, ResetQueue PROVE Woken'
BY DEF ResetQueue, Woken, Waiting, In

LEMMA InitWoken == Init => Woken
<1>. SUFFICES ASSUME Init PROVE Woken
  OBVIOUS
<1>1. Waiting = {} /\ overtaken = {} /\ object = "alive"
  BY DEF Init, QueueInit, Waiting, In
<1>. QED BY <1>1 DEF Woken

LEMMA StepWoken == ASSUME TypeOK, Woken, [Next]_vars PROVE Woken'
<1>0. QueueTypes BY TypeParts
<1>1. ASSUME UNCHANGED queueVars PROVE Woken'
  BY <1>1 DEF queueVars, Woken, Waiting, Hunting, Coming, In
<1>2. CASE Get \/ Obtain \/ Allocator \/ UNCHANGED vars
  BY <1>1, <1>2 DEF Get, Obtain, Allocator, vars
<1>3. CASE Push
  <2>1. got \in Buffers BY <1>3 DEF Push, TypeOK
  <2>. QED BY <1>0, <1>3, <2>1, EnqueueWoken DEF Push
<1>4. CASE Notify \/ EndDestroy
  BY <1>0, <1>4, NotifyOneWoken, NotifyAllWoken DEF Notify, EndDestroy
<1>5. CASE DestroyQueue
  BY <1>0, <1>5, ResetQueueWoken DEF DestroyQueue
<1>6. ASSUME NEW p \in Poppers, PopStep(p) \/ Wakeup(p) PROVE Woken'
  BY <1>0, <1>6, FastPopWoken, FindEmptyWoken, LockWoken, LeaveWoken, CheckDoneWoken,
     CheckEmptyWoken, SleepWoken, WakeUnaskedWoken DEF PopStep, Wakeup, Pop
<1>7. ASSUME NEW p \in Poppers, Drop(p) \/ Retire(p) PROVE Woken'
  <2>1. p \notin Waiting /\ p \notin Hunting
    BY <1>7 DEF Drop, Retire, Waiting, Hunting, In
  <2>2. PICK place \in {"outside", "retired"} : Goto(p, place) BY <1>7 DEF Drop, Retire
  <2>3. /\ place \in Places /\ place \notin {"asleep", "deciding"}
        /\ place \notin {"trying", "checking", "woken"}
    BY DEF Places
  <2>. QED BY <1>0, <1>7, <2>1, <2>2, <2>3, QuietMoves DEF Drop, Retire
<1>. QED BY <1>2, <1>3, <1>4, <1>5, <1>6, <1>7 DEF Next

LEMMA WokenStays == ASSUME TypeOK, Woken PROVE OnlyOvertakenStay
<1>1. ASSUME queue # <<>>, ~ notifying, Awake = {} PROVE In("asleep") \subseteq overtaken
  <2>1. object = "alive" BY <1>1 DEF Woken
  <2>2. Hunting = {} BY <1>1 DEF Hunting, Awake
  <2>3. Coming = 0 BY <1>1, <2>2, FS_EmptySet DEF Coming
  <2>4. Len(queue) > 0 BY <1>1, QueueLength, TypeParts
  <2>. QED BY <2>1, <2>3, <2>4, QueueLength, TypeParts DEF Woken, Waiting
<1>2. object = "gone" => In("asleep") \subseteq overtaken BY DEF Woken, Waiting
<1>. QED BY <1>1, <1>2 DEF OnlyOvertakenStay

-----------------------------------------------------------------------------
(* Where each buffer is.                                                   *)

\* An item is held on the way out of pop() and after it.
Holding == \A p \in Poppers : item[p] # NoItem => pc[p] \in {"leaving", "has item"}

\* The buffers of the pool's queue are as large as its last growth, and the
\* one who asks has none and asks for no more.
Sized ==
  /\ \A b \in current : size[b] = bufferSize
  /\ asked # 0 => got = NoBuffer /\ asked <= bufferSize
  /\ kind = "BlockingObjectPool" => bufferSize \in {0, ObjectSize}

Apart ==
  /\ free \cap Out = {}
  /\ got \notin Queued \cup Taken /\ Queued \cap Taken = {}
  /\ \A i, j \in DOMAIN queue : queue[i] = queue[j] => i = j
  /\ \A p, q \in Poppers : item[p] = item[q] /\ item[p] # NoItem => p = q

Kept ==
  /\ free \cup (Out \cap current) = current
  /\ Unused = Buffers \ (free \cup Out)

Counted == kind # "BufferPool" => Cardinality(current) = total

Owned == Holding /\ Sized /\ Apart /\ Kept /\ Counted /\ ~ failed

LEMMA OwnedIsOnce == ASSUME Owned PROVE EveryBufferOnce
BY DEF Owned, Apart, Kept, Counted, EveryBufferOnce

LEMMA QueuedAppend ==
  ASSUME NEW q \in Seq(Buffers), NEW x \in Buffers
  PROVE  {Append(q, x)[i] : i \in DOMAIN Append(q, x)} = {q[i] : i \in DOMAIN q} \cup {x}
<1>1. Len(q) \in Nat /\ DOMAIN q = 1 .. Len(q) OBVIOUS
<1>2. DOMAIN Append(q, x) = 1 .. Len(q) + 1 OBVIOUS
<1>3. \A i \in 1 .. Len(q) : Append(q, x)[i] = q[i] OBVIOUS
<1>4. Append(q, x)[Len(q) + 1] = x OBVIOUS
<1>. QED BY <1>1, <1>2, <1>3, <1>4

LEMMA QueuedTail ==
  ASSUME NEW q \in Seq(Buffers), q # <<>>,
         \A i, j \in DOMAIN q : q[i] = q[j] => i = j
  PROVE  /\ {Tail(q)[i] : i \in DOMAIN Tail(q)} = {q[i] : i \in DOMAIN q} \ {Head(q)}
         /\ Head(q) \in {q[i] : i \in DOMAIN q}
         /\ \A i, j \in DOMAIN Tail(q) : Tail(q)[i] = Tail(q)[j] => i = j
<1>1. Len(q) \in Nat /\ Len(q) > 0 /\ DOMAIN q = 1 .. Len(q) OBVIOUS
<1>2. DOMAIN Tail(q) = 1 .. Len(q) - 1 OBVIOUS
<1>3. \A i \in 1 .. Len(q) - 1 : Tail(q)[i] = q[i + 1] OBVIOUS
<1>4. Head(q) = q[1] OBVIOUS
<1>5. \A i, j \in DOMAIN Tail(q) : Tail(q)[i] = Tail(q)[j] => i = j
  BY <1>1, <1>2, <1>3
<1>6. Head(q) \in {q[i] : i \in DOMAIN q} BY <1>1, <1>4
<1>7. ASSUME NEW b \in {Tail(q)[i] : i \in DOMAIN Tail(q)}
      PROVE  b \in {q[i] : i \in DOMAIN q} \ {Head(q)}
  <2>1. PICK i \in 1 .. Len(q) - 1 : b = q[i + 1] BY <1>2, <1>3
  <2>2. i + 1 \in DOMAIN q /\ 1 \in DOMAIN q /\ i + 1 # 1 BY <1>1
  <2>. QED BY <1>4, <2>1, <2>2
<1>8. ASSUME NEW b \in {q[i] : i \in DOMAIN q} \ {Head(q)}
      PROVE  b \in {Tail(q)[i] : i \in DOMAIN Tail(q)}
  <2>1. PICK i \in 1 .. Len(q) : b = q[i] BY <1>1
  <2>2. i # 1 BY <1>4, <2>1
  <2>3. i - 1 \in 1 .. Len(q) - 1 /\ Tail(q)[i - 1] = q[i] BY <1>1, <1>3, <2>2
  <2>. QED BY <1>2, <2>1, <2>3
<1>. QED BY <1>5, <1>6, <1>7, <1>8

\* What one popper comes to hold, and what he held.
LEMMA TakenChanges ==
  ASSUME QueueTypes, NEW p \in Poppers, NEW x \in Buffers \cup {NoItem},
         item' = [item EXCEPT ![p] = x],
         \A q, r \in Poppers : item[q] = item[r] /\ item[q] # NoItem => q = r
  PROVE  Taken' = (Taken \ {item[p]}) \cup ({x} \ {NoItem})
BY DEF QueueTypes, Taken

\* An item moves from the queue to a popper.
LEMMA TakeOwned ==
  ASSUME TypeOK, Owned, NEW p \in Poppers, Take(p), item[p] = NoItem, UNCHANGED poolVars
  PROVE  Out' = Out /\ Apart'
<1> DEFINE x == Head(queue)
<1>0. QueueTypes /\ queue \in Seq(Buffers) BY TypeParts DEF QueueTypes
<1>1. /\ Queued' = Queued \ {x}
      /\ x \in Queued
      /\ \A i, j \in DOMAIN queue' : queue'[i] = queue'[j] => i = j
  <2>1. queue # <<>> /\ queue' = Tail(queue) BY DEF Take
  <2>2. \A i, j \in DOMAIN queue : queue[i] = queue[j] => i = j BY DEF Owned, Apart
  <2>3. /\ {Tail(queue)[i] : i \in DOMAIN Tail(queue)} = {queue[i] : i \in DOMAIN queue} \ {x}
        /\ x \in {queue[i] : i \in DOMAIN queue}
        /\ \A i, j \in DOMAIN Tail(queue) : Tail(queue)[i] = Tail(queue)[j] => i = j
    BY <1>0, <2>1, <2>2, QueuedTail
  <2>. HIDE DEF x
  <2>4. Queued' = {queue'[i] : i \in DOMAIN queue'} BY DEF Queued
  <2>. QED BY <2>1, <2>3, <2>4 DEF Queued
<1>2. x \in Buffers /\ x # NoItem
  BY <1>0, NoItemAssumption DEF Take
<1>3. Taken' = Taken \cup {x}
  <2>1. Taken' = (Taken \ {item[p]}) \cup ({x} \ {NoItem})
    BY <1>0, <1>2, TakenChanges DEF Take, Owned, Apart
  <2>. QED BY <1>2, <2>1 DEF Taken
<1>4. Out' = Out /\ got' = got /\ free' = free
  BY <1>1, <1>3 DEF Out, poolVars
<1>5. \A q, r \in Poppers : item'[q] = item'[r] /\ item'[q] # NoItem => q = r
  <2>1. \A q \in Poppers : item[q] # x
    BY <1>1, <1>2 DEF Taken, Owned, Apart
  <2>2. \A q \in Poppers : item'[q] = IF q = p THEN x ELSE item[q]
    BY <1>0 DEF Take, QueueTypes
  <2>. QED BY <2>1, <2>2 DEF Owned, Apart
<1> HIDE DEF x
<1>6. /\ got' \notin Queued' \cup Taken' /\ Queued' \cap Taken' = {}
      /\ free' \cap Out' = {}
  BY <1>1, <1>3, <1>4 DEF Owned, Apart
<1>. QED BY <1>1, <1>4, <1>5, <1>6 DEF Apart

\* What the pool keeps is untouched when it and what is out are.
LEMMA PoolAside ==
  ASSUME Owned, Out' = Out, Apart', Holding', UNCHANGED poolVars
  PROVE  Owned'
<1>1. Sized' BY DEF Owned, Sized, poolVars
<1>2. Kept' BY DEF Owned, Kept, Unused, poolVars
<1>3. Counted' /\ ~ failed' BY DEF Owned, Counted, poolVars
<1>. QED BY <1>1, <1>2, <1>3 DEF Owned

LEMMA NothingMoves ==
  ASSUME Owned, UNCHANGED <<queue, item, poolVars>>, Holding' PROVE Owned'
<1>1. Out' = Out BY DEF Out, Queued, Taken, poolVars
<1>2. Apart' BY DEF Owned, Apart, Out, Queued, Taken, poolVars
<1>. QED BY <1>1, <1>2, PoolAside

LEMMA PopOwned ==
  ASSUME TypeOK, Owned, NEW p \in Poppers, Pop(p) \/ WakeUnasked(p), UNCHANGED poolVars
  PROVE  Owned'
<1>0. QueueTypes /\ Holding BY TypeParts DEF Owned
<1>1. CASE FastPop(p)
  <2>1. Take(p) /\ item[p] = NoItem BY <1>0, <1>1 DEF FastPop, Holding
  <2>2. Holding' BY <1>0, <1>1 DEF FastPop, Take, Goto, Holding, QueueTypes
  <2>. QED BY <2>1, <2>2, TakeOwned, PoolAside
<1>2. CASE CheckDone(p) /\ Take(p)
  <2>1. item[p] = NoItem BY <1>0, <1>2 DEF CheckDone, Holding
  <2>2. Holding' BY <1>0, <1>2 DEF CheckDone, Take, Goto, Holding, QueueTypes
  <2>. QED BY <1>2, <2>1, <2>2, TakeOwned, PoolAside
<1>3. CASE CheckDone(p) /\ UNCHANGED <<queue, item>>
  <2>1. Holding' BY <1>0, <1>3 DEF CheckDone, Goto, Holding, QueueTypes
  <2>. QED BY <1>3, <2>1, NothingMoves
<1>4. CASE Leave(p)
  <2>1. Holding' BY <1>0, <1>4 DEF Leave, Goto, Holding, QueueTypes
  <2>. QED BY <1>4, <2>1, NothingMoves DEF Leave
<1>5. CASE FindEmpty(p) \/ Lock(p) \/ CheckEmpty(p) \/ Sleep(p) \/ Relock(p) \/ WakeUnasked(p)
  <2>1. UNCHANGED <<queue, item>>
    BY <1>5 DEF FindEmpty, Lock, CheckEmpty, Sleep, Relock, WakeUnasked
  <2>2. item[p] = NoItem
    BY <1>0, <1>5 DEF FindEmpty, Lock, CheckEmpty, Sleep, Relock, WakeUnasked, Holding
  <2>3. \E place \in Places : Goto(p, place)
    BY <1>5 DEF FindEmpty, Lock, CheckEmpty, Sleep, Relock, WakeUnasked, Places
  <2>4. Holding' BY <1>0, <2>1, <2>2, <2>3 DEF Goto, Holding, QueueTypes
  <2>. QED BY <2>1, <2>4, NothingMoves
<1>. QED BY <1>1, <1>2, <1>3, <1>4, <1>5 DEF Pop, CheckDone

LEMMA NotifyOwned ==
  ASSUME TypeOK, Owned, NotifyOne \/ NotifyAll, UNCHANGED poolVars PROVE Owned'
<1>0. QueueTypes /\ Holding BY TypeParts DEF Owned
<1>1. UNCHANGED <<queue, item>> BY DEF NotifyOne, NotifyAll
<1>2. \A p \in Poppers : pc'[p] = pc[p] \/ pc[p] = "asleep"
  BY <1>0 DEF NotifyOne, NotifyAll, Goto, In, QueueTypes
<1>3. Holding' BY <1>0, <1>1, <1>2 DEF Holding
<1>. QED BY <1>1, <1>3, NothingMoves

\* What is out, and where it is, when neither the queue nor a popper changes.
LEMMA SamePlaces ==
  ASSUME Owned, UNCHANGED <<queue, item, got>>
  PROVE  /\ Out' = Out /\ Queued' = Queued /\ Taken' = Taken
         /\ free' \cap Out = {} => Apart'
<1>1. Queued' = Queued /\ Taken' = Taken BY DEF Queued, Taken
<1>2. Out' = Out BY <1>1 DEF Out
<1>3. ASSUME free' \cap Out = {} PROVE Apart'
  <2>1. free' \cap Out' = {} BY <1>2, <1>3
  <2>. QED BY <1>1, <2>1 DEF Owned, Apart
<1>. QED BY <1>1, <1>2, <1>3

\* The pool forgets its queue: what is free is freed.
LEMMA NewQueueOwned ==
  ASSUME TypeOK, Owned, NewQueue, UNCHANGED <<queue, item, got>>
  PROVE  Apart' /\ Kept' /\ Counted' /\ current' = {}
<1>1. current' = {} /\ free' = {} /\ total' = 0 BY DEF NewQueue
<1>2. Out' = Out /\ Apart' BY <1>1, SamePlaces
<1>3. Unused' = Buffers \ Out
  <2>1. \A b \in Buffers : size'[b] = 0 <=> b \in free \/ b \in Unused
    BY DEF NewQueue, Unused
  <2>2. free \cap Out = {} /\ Unused = Buffers \ (free \cup Out)
    BY DEF Owned, Apart, Kept
  <2>. QED BY <2>1, <2>2 DEF Unused
<1>4. Kept' BY <1>1, <1>2, <1>3 DEF Kept
<1>5. Counted' BY <1>1, FS_EmptySet DEF Counted
<1>. QED BY <1>1, <1>2, <1>4, <1>5

LEMMA AskOwned ==
  ASSUME TypeOK, Owned, UNCHANGED queueVars,
         (\E s \in Sizes : GetBuffer(s)) \/ GetObject \/ SetAllocator
  PROVE  Owned'
<1>0. PoolTypes /\ Sizes \subseteq Nat \ {0} /\ ObjectSize \in Sizes
  BY TypeParts, PoolsAssumption DEF ObjectSize
<1>1. UNCHANGED <<queue, item, got>> /\ ~ failed' /\ kind' = kind
  BY DEF queueVars, GetBuffer, GetObject, SetAllocator, Ask, Owned
<1>2. Holding' BY DEF queueVars, Owned, Holding
<1>3. ASSUME UNCHANGED <<size, current, free, total>> PROVE Apart' /\ Kept' /\ Counted'
  BY <1>1, <1>3, SamePlaces DEF Owned, Apart, Kept, Counted, Unused
<1>4. ASSUME NEW s \in Sizes, GetBuffer(s) PROVE Owned'
  <2>1. asked' = s /\ got' = NoBuffer /\ kind' # "BlockingObjectPool"
    BY <1>4 DEF GetBuffer, Ask
  <2>2. CASE s > bufferSize
    <3>1. NewQueue /\ bufferSize' = s BY <1>4, <2>2 DEF GetBuffer
    <3>2. Apart' /\ Kept' /\ Counted' /\ current' = {} BY <1>1, <3>1, NewQueueOwned
    <3>3. Sized' BY <1>0, <2>1, <3>1, <3>2 DEF Sized
    <3>. QED BY <1>1, <1>2, <3>2, <3>3 DEF Owned
  <2>3. CASE ~ (s > bufferSize)
    <3>1. UNCHANGED <<bufferSize, size, current, free, total>>
      BY <1>4, <2>3 DEF GetBuffer
    <3>2. s <= bufferSize BY <1>0, <2>3 DEF PoolTypes
    <3>3. Sized' BY <2>1, <3>1, <3>2 DEF Owned, Sized
    <3>. QED BY <1>1, <1>2, <1>3, <3>1, <3>3 DEF Owned
  <2>. QED BY <2>2, <2>3
<1>5. CASE GetObject
  <2>1. /\ UNCHANGED <<bufferSize, size, current, free, total>>
        /\ bufferSize # 0 /\ kind = "BlockingObjectPool"
        /\ asked' = ObjectSize /\ got' = NoBuffer
    BY <1>5 DEF GetObject, Ask
  <2>2. bufferSize = ObjectSize BY <2>1 DEF Owned, Sized
  <2>3. Sized' BY <1>0, <2>1, <2>2 DEF Owned, Sized
  <2>. QED BY <1>1, <1>2, <1>3, <2>1, <2>3 DEF Owned
<1>6. CASE SetAllocator
  <2>1. NewQueue /\ bufferSize' = ObjectSize /\ asked' = 0
    BY <1>6 DEF SetAllocator
  <2>2. Apart' /\ Kept' /\ Counted' /\ current' = {} BY <1>1, <2>1, NewQueueOwned
  <2>3. Sized' BY <2>1, <2>2 DEF Sized
  <2>. QED BY <1>1, <1>2, <2>2, <2>3 DEF Owned
<1>. QED BY <1>4, <1>5, <1>6

LEMMA PoolFinite == ASSUME PoolTypes PROVE IsFiniteSet(current) /\ IsFiniteSet(Buffers)
<1>1. IsFiniteSet(Buffers) BY PoolsAssumption, FS_Interval DEF Buffers
<1>. QED BY <1>1, FS_Subset DEF PoolTypes

\* The one who asks gets a buffer that is nowhere yet.
LEMMA GotOwned ==
  ASSUME TypeOK, Owned, asked # 0, UNCHANGED queueVars, NEW b \in Buffers, b \notin Out,
         got' = b, b \notin free'
  PROVE  /\ Out' = Out \cup {b}
         /\ free' \subseteq free => Apart'
         /\ Holding'
<1>1. got = NoBuffer BY DEF Owned, Sized
<1>2. Queued' = Queued /\ Taken' = Taken BY DEF Queued, Taken, queueVars
<1>3. b # NoBuffer BY PoolsAssumption DEF Buffers, NoBuffer
<1>4. Out' = Out \cup {b} BY <1>1, <1>2, <1>3 DEF Out
<1>5. Holding' BY DEF queueVars, Owned, Holding
<1>6. ASSUME free' \subseteq free PROVE Apart'
  <2>1. free' \cap Out' = {} BY <1>4, <1>6 DEF Owned, Apart
  <2>2. got' \notin Queued' \cup Taken' BY <1>2 DEF Out
  <2>. QED BY <1>2, <2>1, <2>2 DEF Owned, Apart, queueVars
<1>. QED BY <1>4, <1>5, <1>6

LEMMA CreateOwned ==
  ASSUME TypeOK, Owned, Create, UNCHANGED queueVars PROVE Owned'
<1>0. PoolTypes /\ Sizes \subseteq Nat \ {0} BY TypeParts, PoolsAssumption
<1>1. PICK b \in Unused :
       /\ size' = [size EXCEPT ![b] = bufferSize]
       /\ current' = current \cup {b}
       /\ HandOut(b)
  BY DEF Create
<1>2. /\ asked # 0 /\ UNCHANGED <<kind, bufferSize, free>>
      /\ total' = IF kind = "BufferPool" THEN 0 ELSE total + 1
  BY DEF Create
<1>3. b \in Buffers /\ b \notin free /\ b \notin Out /\ b \notin current
  BY <1>1 DEF Owned, Kept, Unused
<1>4. asked \in Nat /\ bufferSize \in Nat /\ asked <= bufferSize /\ bufferSize # 0
  BY <1>0, <1>2 DEF Owned, Sized, PoolTypes
<1>5. \A c \in Buffers : size'[c] = IF c = b THEN bufferSize ELSE size[c]
  BY <1>0, <1>1 DEF PoolTypes
<1>6. asked' = 0 /\ got' = b /\ ~ failed'
  BY <1>1, <1>3, <1>4, <1>5 DEF HandOut, Owned
<1>7. Out' = Out \cup {b} /\ Apart' /\ Holding'
  BY <1>2, <1>3, <1>6, GotOwned
<1>8. Sized'
  <2>1. ASSUME NEW c \in current' PROVE size'[c] = bufferSize'
    <3>1. c \in current \/ c = b BY <1>1, <2>1
    <3>2. c \in Buffers BY <1>0, <1>3, <3>1 DEF PoolTypes
    <3>. QED BY <1>2, <1>3, <1>5, <3>1, <3>2 DEF Owned, Sized
  <2>. QED BY <1>2, <1>6, <2>1 DEF Owned, Sized
<1>9. Kept'
  <2>1. Unused' = Unused \ {b} BY <1>4, <1>5 DEF Unused
  <2>. QED BY <1>1, <1>2, <1>3, <1>7, <2>1 DEF Owned, Kept
<1>10. Counted'
  <2>1. Cardinality(current') = Cardinality(current) + 1
    BY <1>0, <1>1, <1>3, PoolFinite, FS_AddElement
  <2>. QED BY <1>2, <2>1 DEF Owned, Counted
<1>. QED BY <1>6, <1>7, <1>8, <1>9, <1>10 DEF Owned

LEMMA ReuseOwned ==
  ASSUME TypeOK, Owned, Reuse, UNCHANGED queueVars PROVE Owned'
<1>0. PoolTypes BY TypeParts
<1>1. PICK b \in free : free' = free \ {b} /\ UNCHANGED size /\ HandOut(b)
  BY DEF Reuse
<1>2. asked # 0 /\ UNCHANGED <<kind, bufferSize, current, total>> BY DEF Reuse
<1>3. b \in Buffers /\ b \notin Out /\ b \in current
  BY <1>0, <1>1 DEF Owned, Apart, Kept, PoolTypes
<1>4. asked \in Nat /\ bufferSize \in Nat /\ asked <= bufferSize /\ size[b] = bufferSize
  BY <1>0, <1>2, <1>3, PoolsAssumption DEF Owned, Sized, PoolTypes
<1>5. asked' = 0 /\ got' = b /\ ~ failed'
  BY <1>1, <1>4 DEF HandOut, Owned
<1>6. Out' = Out \cup {b} /\ Apart' /\ Holding'
  BY <1>1, <1>2, <1>3, <1>5, GotOwned
<1>7. Sized' BY <1>1, <1>2, <1>5 DEF Owned, Sized
<1>8. Kept'
  <2>1. Unused' = Unused BY <1>1 DEF Unused
  <2>. QED BY <1>1, <1>2, <1>3, <1>6, <2>1 DEF Owned, Kept
<1>9. Counted' BY <1>2 DEF Owned, Counted
<1>. QED BY <1>5, <1>6, <1>7, <1>8, <1>9 DEF Owned

\* The deleters of buffers that are out, and are not any more.
LEMMA ReturnOwned ==
  ASSUME TypeOK, Owned, NEW R, R \subseteq Out, Return(R), Out' = Out \ R, Apart', Holding',
         asked' # 0 => got' = NoBuffer
  PROVE  Owned'
<1>0. PoolTypes BY TypeParts
<1>1. /\ free' = free \cup (R \cap current)
      /\ size' = [b \in Buffers |-> IF b \in R \ current THEN 0 ELSE size[b]]
      /\ UNCHANGED <<kind, bufferSize, current, total, asked, failed>>
  BY DEF Return
<1>2. Sized'
  <2>1. \A b \in current : size'[b] = size[b] BY <1>0, <1>1 DEF PoolTypes
  <2>. QED BY <1>1, <2>1 DEF Owned, Sized
<1>3. Kept'
  <2>1. Unused' = Unused \cup ((R \ current) \cap Buffers) BY <1>1 DEF Unused
  <2>2. free \cap Out = {} BY DEF Owned, Apart
  <2>. QED BY <1>1, <2>1, <2>2 DEF Owned, Kept
<1>4. Counted' /\ ~ failed' BY <1>1 DEF Owned, Counted
<1>. QED BY <1>2, <1>3, <1>4 DEF Owned

LEMMA DropOwned ==
  ASSUME TypeOK, Owned, NEW p \in Poppers, Drop(p) PROVE Owned'
<1>0. QueueTypes BY TypeParts
<1>1. /\ item' = [item EXCEPT ![p] = NoItem] /\ Return({item[p]})
      /\ queue' = queue /\ got' = got /\ pc[p] = "has item" /\ Goto(p, "outside")
  BY DEF Drop
<1>2. Queued' = Queued BY <1>1 DEF Queued
<1>3. Taken' = Taken \ {item[p]}
  <2>1. \A q, r \in Poppers : item[q] = item[r] /\ item[q] # NoItem => q = r
    BY DEF Owned, Apart
  <2>2. Taken' = (Taken \ {item[p]}) \cup ({NoItem} \ {NoItem})
    BY <1>0, <1>1, <2>1, TakenChanges
  <2>. QED BY <2>2
<1>4. Holding' BY <1>0, <1>1 DEF Owned, Holding, Goto, QueueTypes
<1>5. \A q, r \in Poppers : item'[q] = item'[r] /\ item'[q] # NoItem => q = r
  BY <1>0, <1>1 DEF Owned, Apart, QueueTypes
<1>6. asked' # 0 => got' = NoBuffer BY <1>1 DEF Owned, Sized, Return
<1> DEFINE R == {item[p]} \ {NoItem}
<1>7. R \subseteq Out /\ R \subseteq Taken BY DEF Out, Taken
<1>8. Out' = Out \ R
  BY <1>1, <1>2, <1>3, <1>7 DEF Owned, Apart, Out, Taken, NoBuffer
<1>9. Return(R)
  BY <1>0, <1>1, NoItemAssumption, TypeParts DEF Return, PoolTypes
<1>10. Apart'
  <2>1. free' = free \cup (R \cap current) BY <1>9 DEF Return
  <2>2. free' \cap Out' = {} BY <1>8, <2>1 DEF Owned, Apart
  <2>. QED BY <1>1, <1>2, <1>3, <1>5, <2>2 DEF Owned, Apart
<1>. HIDE DEF R
<1>. QED BY <1>4, <1>6, <1>7, <1>8, <1>9, <1>10, ReturnOwned

LEMMA DestroyOwned ==
  ASSUME TypeOK, Owned, DestroyQueue PROVE Owned'
<1>1. /\ queue' = <<>> /\ UNCHANGED <<item, pc, got>> /\ got = NoBuffer
      /\ Return(Queued)
  BY DEF DestroyQueue, ResetQueue
<1>2. Queued' = {} BY <1>1 DEF Queued
<1>3. Taken' = Taken BY <1>1 DEF Taken
<1>4. Out' = Out \ Queued /\ Queued \subseteq Out
  BY <1>1, <1>2, <1>3 DEF Owned, Apart, Out
<1>5. free' = free \cup (Queued \cap current) BY <1>1 DEF Return
<1>6. Apart'
  <2>1. free' \cap Out' = {} BY <1>4, <1>5 DEF Owned, Apart
  <2>2. \A i, j \in DOMAIN queue' : queue'[i] = queue'[j] => i = j BY <1>1
  <2>. QED BY <1>1, <1>2, <1>3, <2>1, <2>2 DEF Owned, Apart
<1>7. Holding' BY <1>1 DEF Owned, Holding
<1>. QED BY <1>1, <1>4, <1>6, <1>7, ReturnOwned

LEMMA PushOwned ==
  ASSUME TypeOK, Owned, Push PROVE Owned'
<1>0. QueueTypes /\ PoolTypes BY TypeParts
<1>1. /\ got # NoBuffer /\ got \in Buffers /\ got' = NoBuffer
      /\ queue' = Append(queue, got)
      /\ UNCHANGED <<pc, item, kind, bufferSize, size, current, free, total, asked, failed>>
  BY <1>0 DEF Push, Enqueue, PoolTypes
<1>2. queue \in Seq(Buffers) BY <1>0 DEF QueueTypes
<1>3. Queued' = Queued \cup {got}
  <2>1. Queued' = {queue'[i] : i \in DOMAIN queue'} BY DEF Queued
  <2>. QED BY <1>1, <1>2, <2>1, QueuedAppend DEF Queued
<1>4. Taken' = Taken BY <1>1 DEF Taken
<1>5. Out' = Out BY <1>1, <1>3, <1>4 DEF Out
<1>6. NoBuffer \notin Queued' \cup Taken'
  <2>1. NoBuffer \notin Buffers BY PoolsAssumption DEF Buffers, NoBuffer
  <2>2. Queued \subseteq Buffers BY <1>2 DEF Queued
  <2>3. Taken \subseteq Buffers BY <1>0 DEF QueueTypes, Taken
  <2>. QED BY <1>1, <1>3, <1>4, <2>1, <2>2, <2>3
<1>7. \A i, j \in DOMAIN queue' : queue'[i] = queue'[j] => i = j
  <2>1. /\ Len(queue) \in Nat /\ DOMAIN queue = 1 .. Len(queue)
        /\ DOMAIN queue' = 1 .. Len(queue) + 1
        /\ \A i \in 1 .. Len(queue) : queue'[i] = queue[i]
        /\ queue'[Len(queue) + 1] = got
    BY <1>1, <1>2
  <2>2. \A i \in DOMAIN queue : queue[i] # got BY DEF Owned, Apart, Queued
  <2>3. \A i, j \in DOMAIN queue : queue[i] = queue[j] => i = j BY DEF Owned, Apart
  <2>. QED BY <2>1, <2>2, <2>3
<1>8. Apart'
  <2>1. Queued' \cap Taken' = {} BY <1>3, <1>4 DEF Owned, Apart
  <2>. QED BY <1>1, <1>5, <1>6, <1>7, <2>1 DEF Owned, Apart
<1>9. Holding' BY <1>1 DEF Owned, Holding
<1>10. Sized' BY <1>1 DEF Owned, Sized
<1>11. Kept' BY <1>1, <1>5 DEF Owned, Kept, Unused
<1>12. Counted' /\ ~ failed' BY <1>1 DEF Owned, Counted
<1>. QED BY <1>8, <1>9, <1>10, <1>11, <1>12 DEF Owned

LEMMA InitOwned == Init => Owned
<1>. SUFFICES ASSUME Init PROVE Owned
  OBVIOUS
<1>0. /\ queue = <<>> /\ item = [p \in Poppers |-> NoItem] /\ got = NoBuffer
      /\ bufferSize = 0 /\ size = [b \in Buffers |-> 0] /\ current = {} /\ free = {}
      /\ total = 0 /\ asked = 0 /\ failed = FALSE
  BY DEF Init, QueueInit, PoolInit
<1>1. Queued = {} /\ Taken = {} /\ Out = {} BY <1>0 DEF Queued, Taken, Out
<1>2. Holding BY <1>0 DEF Holding
<1>3. Sized BY <1>0 DEF Sized
<1>4. Apart BY <1>0, <1>1 DEF Apart
<1>5. Kept BY <1>0, <1>1 DEF Kept, Unused
<1>6. Counted BY <1>0, FS_EmptySet DEF Counted
<1>. QED BY <1>0, <1>2, <1>3, <1>4, <1>5, <1>6 DEF Owned

LEMMA StepOwned == ASSUME TypeOK, Owned, [Next]_vars PROVE Owned'
<1>1. CASE Get BY <1>1, AskOwned DEF Get
<1>2. CASE Obtain BY <1>2, CreateOwned, ReuseOwned DEF Obtain
<1>3. CASE Allocator BY <1>3, AskOwned DEF Allocator
<1>4. CASE Push BY <1>4, PushOwned
<1>5. CASE Notify \/ EndDestroy BY <1>5, NotifyOwned DEF Notify, EndDestroy
<1>6. CASE DestroyQueue BY <1>6, DestroyOwned
<1>7. ASSUME NEW p \in Poppers, PopStep(p) \/ Wakeup(p) PROVE Owned'
  BY <1>7, PopOwned DEF PopStep, Wakeup
<1>8. ASSUME NEW p \in Poppers, Drop(p) PROVE Owned'
  BY <1>8, DropOwned
<1>9. ASSUME NEW p \in Poppers, Retire(p) PROVE Owned'
  <2>1. QueueTypes BY TypeParts
  <2>2. UNCHANGED <<queue, item, poolVars>> BY <1>9 DEF Retire
  <2>3. Holding' BY <1>9, <2>1 DEF Retire, Goto, Owned, Holding, QueueTypes
  <2>. QED BY <2>2, <2>3, NothingMoves
<1>10. CASE UNCHANGED vars
  <2>1. UNCHANGED <<queue, item, poolVars>> BY <1>10 DEF vars, queueVars
  <2>2. Holding' BY <1>10 DEF vars, queueVars, Owned, Holding
  <2>. QED BY <2>1, <2>2, NothingMoves
<1>. QED BY <1>1, <1>2, <1>3, <1>4, <1>5, <1>6, <1>7, <1>8, <1>9, <1>10 DEF Next

-----------------------------------------------------------------------------
(***************************************************************************)
(* Types, and who has the mutex: the thread between its lock and its sleep *)
(* or return, and no two at once (pop()).                                  *)
(***************************************************************************)
THEOREM TypeCorrect == Spec => []TypeOK
<1>1. Init => TypeOK BY InitTypes
<1>2. TypeOK /\ [Next]_vars => TypeOK' BY StepTypes
<1>. QED BY <1>1, <1>2, PTL DEF Spec

(***************************************************************************)
(* A thread sleeps beside an item that nobody is about to take, or after   *)
(* the queue is destroyed, only if a notification came between its look at *)
(* the queue and its sleep: for any number of threads, push()'s one        *)
(* notify_one() without the lock has no other way to be lost.              *)
(***************************************************************************)
THEOREM OnlyOvertaken == Spec => []OnlyOvertakenStay
<1>1. Init => TypeOK /\ Woken BY InitTypes, InitWoken
<1>2. TypeOK /\ Woken /\ [Next]_vars => (TypeOK /\ Woken)' BY StepTypes, StepWoken
<1>3. TypeOK /\ Woken => OnlyOvertakenStay BY WokenStays
<1>. QED BY <1>1, <1>2, <1>3, PTL DEF Spec

(***************************************************************************)
(* A buffer is free, in the producer's hand, in the queue or with one      *)
(* popper, and in one of them only; a blocking pool has counted exactly    *)
(* the buffers that come back to it, so that it never creates more than    *)
(* its limit; and one that is used again is large enough.  The sizes are   *)
(* what it takes: those of the present queue are all as large as the last  *)
(* growth, because a deleter finds the queue its buffer is of and no later *)
(* one (the weak pointer in get() of the pools).                           *)
(***************************************************************************)
THEOREM BuffersOnce == Spec => []EveryBufferOnce
<1>1. Init => TypeOK /\ Owned BY InitTypes, InitOwned
<1>2. TypeOK /\ Owned /\ [Next]_vars => (TypeOK /\ Owned)' BY StepTypes, StepOwned
<1>3. Owned => EveryBufferOnce BY OwnedIsOnce
<1>. QED BY <1>1, <1>2, <1>3, PTL DEF Spec

-----------------------------------------------------------------------------
(* Whom get() waits for.                                                   *)

\* Neither asleep nor done with the queue.
Moving(p) == pc[p] \notin {"asleep", "retired", "told gone"}

\* get() can go on, or a buffer that comes back is out, with somebody to move.
GetWaits ==
  asked # 0 /\ Limit > 0 /\ Poppers # {} =>
    /\ object = "alive" /\ ~ crashed
    /\ \/ MayCreate /\ Unused # {}
       \/ ~ MayCreate /\ free # {}
       \/ /\ (Queued \cup Taken) \cap current # {}
          /\ notifying \/ AllAsleep \/ \E p \in Poppers : Moving(p)

\* While get() runs the queue is there, nobody has been told that it is gone,
\* and there is memory; and not every popper has stopped.
Asking == asked # 0 => got = NoBuffer /\ object = "alive" /\ Unused # {}

NobodyTold ==
  /\ object # "gone" => ~ crashed
  /\ object = "alive" =>
       \A p \in Poppers : pc[p] # "told gone" /\ (pc[p] = "leaving" => item[p] # NoItem)

SomebodyStays == Poppers # {} => In("retired") # Poppers

Served == Asking /\ NobodyTold /\ SomebodyStays

LEMMA InitServed == Init => Served
<1>. SUFFICES ASSUME Init PROVE Served
  OBVIOUS
<1>1. Asking BY DEF Init, PoolInit, Asking
<1>2. \A p \in Poppers : pc[p] = "outside" BY DEF Init, QueueInit
<1>3. NobodyTold BY <1>2 DEF Init, QueueInit, NobodyTold
<1>4. SomebodyStays BY <1>2 DEF SomebodyStays, In
<1>. QED BY <1>1, <1>3, <1>4 DEF Served

LEMMA StepAsking == ASSUME TypeOK, Asking, [Next]_vars PROVE Asking'
<1>0. PoolTypes /\ 0 \notin Sizes BY TypeParts, PoolsAssumption
<1>1. ASSUME asked' = asked, got' = got, object' = object, Unused \subseteq Unused'
      PROVE  Asking'
  BY <1>1 DEF Asking
<1>2. ASSUME asked' = 0 PROVE Asking'
  BY <1>2 DEF Asking
<1>3. ASSUME UNCHANGED poolVars, object' = object PROVE Asking'
  BY <1>1, <1>3 DEF poolVars, Unused
<1>4. CASE Get
  <2>1. got' = NoBuffer /\ object' = "alive"
    BY <1>4 DEF Get, GetBuffer, GetObject, Ask, queueVars
  <2>2. Unused # {}
    BY <1>4, FS_EmptySet, PoolsAssumption DEF Get, Room
  <2>3. Unused \subseteq Unused'
    BY <1>0, <1>4 DEF Get, GetBuffer, GetObject, NewQueue, Unused, PoolTypes
  <2>. QED BY <2>1, <2>2, <2>3 DEF Asking
<1>5. CASE Obtain BY <1>2, <1>5 DEF Obtain, Create, Reuse, HandOut
<1>6. CASE Allocator BY <1>2, <1>6 DEF Allocator, SetAllocator
<1>7. CASE Push BY <1>2, <1>7 DEF Push, Asking
<1>8. CASE Notify BY <1>3, <1>8 DEF Notify, NotifyOne
<1>9. CASE DestroyQueue BY <1>2, <1>9 DEF DestroyQueue, Return
<1>10. CASE EndDestroy
  <2>1. asked' = 0 BY <1>10 DEF EndDestroy, NotifyAll, Asking, poolVars
  <2>. QED BY <1>2, <2>1
<1>11. ASSUME NEW p \in Poppers, PopStep(p) \/ Wakeup(p) \/ Retire(p) PROVE Asking'
  <2>1. UNCHANGED poolVars /\ object' = object
    BY <1>11 DEF PopStep, Pop, Wakeup, Retire, FastPop, FindEmpty, Lock, CheckDone,
       CheckEmpty, Sleep, Relock, Leave, WakeUnasked
  <2>. QED BY <1>3, <2>1
<1>12. ASSUME NEW p \in Poppers, Drop(p) PROVE Asking'
  <2>1. Unused \subseteq Unused' BY <1>0, <1>12 DEF Drop, Return, Unused, PoolTypes
  <2>. QED BY <1>1, <1>12, <2>1 DEF Drop, Return
<1>13. CASE UNCHANGED vars BY <1>3, <1>13 DEF vars, queueVars
<1>. QED BY <1>4, <1>5, <1>6, <1>7, <1>8, <1>9, <1>10, <1>11, <1>12, <1>13 DEF Next

\* A popper that takes an item has one.
LEMMA TakesOne ==
  ASSUME QueueTypes, NEW p \in Poppers, Take(p)
  PROVE  item'[p] \in Buffers /\ \A q \in Poppers \ {p} : item'[q] = item[q]
BY DEF QueueTypes, Take

LEMMA StepNobodyTold == ASSUME TypeOK, NobodyTold, [Next]_vars PROVE NobodyTold'
<1>. DEFINE Fine(q) == pc[q] # "told gone" /\ (pc[q] = "leaving" => item[q] # NoItem)
<1>0. QueueTypes BY TypeParts
<1>1. ASSUME object' = object, crashed' = crashed,
             object = "alive" => \A q \in Poppers : Fine(q) => Fine(q)'
      PROVE  NobodyTold'
  BY <1>1 DEF NobodyTold
<1>2. ASSUME UNCHANGED queueVars PROVE NobodyTold'
  BY <1>2 DEF queueVars, NobodyTold
<1>3. CASE Get \/ Obtain \/ Allocator BY <1>2, <1>3 DEF Get, Obtain, Allocator
<1>4. CASE Push BY <1>1, <1>4 DEF Push, Enqueue
<1>5. CASE Notify BY <1>0, <1>1, <1>5 DEF Notify, NotifyOne, Goto, QueueTypes
<1>6. CASE DestroyQueue BY <1>6 DEF DestroyQueue, ResetQueue, NobodyTold
<1>7. CASE EndDestroy BY <1>7 DEF EndDestroy, NotifyAll, NobodyTold
<1>8. ASSUME NEW p \in Poppers, PopStep(p) PROVE NobodyTold'
  <2>1. CASE FastPop(p)
    <3>1. \A q \in Poppers : Fine(q) => Fine(q)'
      BY <1>0, <2>1, TakesOne DEF FastPop, Goto, QueueTypes
    <3>. QED BY <1>1, <2>1, <3>1 DEF FastPop
  <2>2. CASE CheckDone(p)
    <3>1. ASSUME object = "alive" PROVE \A q \in Poppers : Fine(q) => Fine(q)'
      BY <1>0, <2>2, <3>1, TakesOne, NoItemAssumption DEF CheckDone, Goto, QueueTypes
    <3>. QED BY <1>1, <2>2, <3>1 DEF CheckDone
  <2>3. CASE FindEmpty(p) \/ CheckEmpty(p) \/ Sleep(p) \/ Relock(p)
    BY <1>0, <1>1, <2>3 DEF FindEmpty, CheckEmpty, Sleep, Relock, Goto, QueueTypes
  <2>4. CASE Lock(p)
    <3>1. \A q \in Poppers : Fine(q) => Fine(q)'
      BY <1>0, <2>4 DEF Lock, Goto, QueueTypes
    <3>. QED BY <2>4, <3>1 DEF Lock, NobodyTold
  <2>5. CASE Leave(p)
    <3>1. ASSUME object = "alive" PROVE \A q \in Poppers : Fine(q) => Fine(q)'
      BY <1>0, <2>5, <3>1 DEF Leave, Goto, QueueTypes, NobodyTold
    <3>. QED BY <2>5, <3>1 DEF Leave, NobodyTold
  <2>. QED BY <1>8, <2>1, <2>2, <2>3, <2>4, <2>5 DEF PopStep, Pop
<1>9. ASSUME NEW p \in Poppers, Wakeup(p) \/ Drop(p) \/ Retire(p) PROVE NobodyTold'
  <2>1. \A q \in Poppers : Fine(q) => Fine(q)'
    BY <1>0, <1>9 DEF Wakeup, WakeUnasked, Drop, Retire, Goto, QueueTypes
  <2>. QED BY <1>1, <1>9, <2>1 DEF Wakeup, WakeUnasked, Drop, Retire
<1>10. CASE UNCHANGED vars BY <1>2, <1>10 DEF vars
<1>. QED BY <1>3, <1>4, <1>5, <1>6, <1>7, <1>8, <1>9, <1>10 DEF Next

\* A popper stops only if another has not, and nobody who has stopped goes on.
LEMMA StepSomebodyStays ==
  ASSUME TypeOK, SomebodyStays, [Next]_vars
  PROVE  SomebodyStays'
<1>0. QueueTypes BY TypeParts
<1>1. ASSUME In("retired")' \subseteq In("retired") PROVE SomebodyStays'
  BY <1>1 DEF SomebodyStays, In
<1>2. ASSUME pc' = pc PROVE SomebodyStays'
  BY <1>2 DEF SomebodyStays, In
<1>3. CASE Get \/ Obtain \/ Allocator \/ Push \/ DestroyQueue \/ UNCHANGED vars
  BY <1>2, <1>3
  DEF Get, Obtain, Allocator, Push, Enqueue, DestroyQueue, ResetQueue, vars, queueVars
<1>4. CASE Notify \/ EndDestroy
  BY <1>0, <1>1, <1>4
  DEF Notify, NotifyOne, EndDestroy, NotifyAll, Goto, In, QueueTypes
<1>5. ASSUME NEW p \in Poppers, PopStep(p) \/ Wakeup(p) \/ Drop(p) PROVE SomebodyStays'
  <2>1. \E place \in Places \ {"retired"} : Goto(p, place)
    BY <1>5 DEF PopStep, Pop, Wakeup, Drop, FastPop, FindEmpty, Lock, CheckDone,
       CheckEmpty, Sleep, Relock, Leave, WakeUnasked, Places
  <2>. QED BY <1>0, <1>1, <2>1 DEF Goto, In, QueueTypes
<1>6. ASSUME NEW p \in Poppers, Retire(p) PROVE SomebodyStays'
  <2>1. In("retired")' = In("retired") \cup {p}
    BY <1>0, <1>6 DEF Retire, Goto, In, QueueTypes
  <2>. QED BY <1>6, <2>1 DEF Retire, SomebodyStays
<1>. QED BY <1>3, <1>4, <1>5, <1>6 DEF Next

LEMMA ServedGetWaits ==
  ASSUME TypeOK, Woken, Owned, Served
  PROVE  GetWaits
<1>. SUFFICES ASSUME asked # 0, Limit > 0, Poppers # {}
              PROVE  /\ object = "alive" /\ ~ crashed
                     /\ \/ MayCreate /\ Unused # {}
                        \/ ~ MayCreate /\ free # {}
                        \/ /\ (Queued \cup Taken) \cap current # {}
                           /\ notifying \/ AllAsleep \/ \E p \in Poppers : Moving(p)
  BY DEF GetWaits
<1>0. QueueTypes /\ PoolTypes BY TypeParts
<1>1. got = NoBuffer /\ object = "alive" /\ Unused # {} /\ ~ crashed
  BY DEF Served, Asking, NobodyTold
<1>. SUFFICES ASSUME ~ MayCreate, free = {}
              PROVE  /\ (Queued \cup Taken) \cap current # {}
                     /\ notifying \/ AllAsleep \/ \E p \in Poppers : Moving(p)
  BY <1>1
<1>2. (Queued \cup Taken) \cap current # {}
  <2>1. kind # "BufferPool" /\ total = Limit BY <1>0, PoolsAssumption DEF MayCreate, PoolTypes
  <2>2. Cardinality(current) # 0 BY <2>1 DEF Owned, Counted
  <2>3. current # {} BY <2>2, FS_EmptySet
  <2>4. Out = Queued \cup Taken BY <1>1 DEF Out
  <2>5. Out \cap current = current BY DEF Owned, Kept
  <2>. QED BY <2>3, <2>4, <2>5
<1>3. ASSUME ~ notifying, \A p \in Poppers : ~ Moving(p) PROVE AllAsleep
  <2>1. \A p \in Poppers : pc[p] \in {"asleep", "retired"}
    BY <1>1, <1>3 DEF Moving, Served, NobodyTold
  <2>2. Taken = {} BY <2>1 DEF Taken, Owned, Holding
  <2>3. queue # <<>> BY <1>2, <2>2 DEF Queued
  <2>4. In("asleep") # {} BY <2>1 DEF In, Served, SomebodyStays
  <2>5. Awake = {} BY <2>1 DEF Awake
  <2>6. In("asleep") \subseteq overtaken
    BY <1>3, <2>3, <2>4, <2>5, WokenStays DEF OnlyOvertakenStay
  <2>7. In("asleep") \cup In("retired") = Poppers BY <2>1 DEF In
  <2>. QED BY <2>3, <2>4, <2>6, <2>7 DEF AllAsleep
<1>. QED BY <1>2, <1>3

(***************************************************************************)
(* While the producer is in get(), it can go on at once, or a buffer of    *)
(* the pool is in the queue or with a popper, and somebody is still to     *)
(* move: a notification is to come, or a popper is not asleep.  The one    *)
(* way out of it is a notification lost on the last popper (AllAsleep).    *)
(* So neither a deleter that drops a buffer nor a count that is too high   *)
(* can leave get() waiting for a buffer that comes back to another queue   *)
(* (wait_dequeue() in get() of the pools); that those who move do so is    *)
(* the fairness of GetReturns.                                             *)
(***************************************************************************)
THEOREM GetWaitsForSomebody == Spec => []GetWaits
<1>. DEFINE Inv == TypeOK /\ Woken /\ Owned /\ Served
<1>1. Init => Inv BY InitTypes, InitWoken, InitOwned, InitServed
<1>2. Inv /\ [Next]_vars => Inv'
  <2>. SUFFICES ASSUME Inv, [Next]_vars PROVE Inv'
    OBVIOUS
  <2>1. TypeOK' /\ Woken' /\ Owned' BY StepTypes, StepWoken, StepOwned
  <2>2. Served' BY StepAsking, StepNobodyTold, StepSomebodyStays DEF Served
  <2>. QED BY <2>1, <2>2
<1>3. Inv => GetWaits BY ServedGetWaits
<1>. QED BY <1>1, <1>2, <1>3, PTL DEF Spec
=============================================================================

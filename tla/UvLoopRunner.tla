----------------------------- MODULE UvLoopRunner -----------------------------
(***************************************************************************)
(* UvLoopRunner (src/UvLoopRunner.cpp): a thread that runs a uv loop, the  *)
(* thread that constructs, drains and destroys the object, and the threads *)
(* that wait for the loop to end.  The loop ends when no active handle is  *)
(* referenced; the runner's own async handle keeps it until it is drained. *)
(* Nothing in libuv but uv_async_send() may be called from another thread: *)
(* uv_unref() and the adding of handles change loop->active_handles, which *)
(* the loop's thread changes too.                                          *)
(***************************************************************************)
EXTENDS Naturals, FiniteSets

CONSTANTS
  Waiters,    \* threads that call waitForExit()
  MaxHandles  \* handles added to the loop: a bound

Nobody == "nobody"

ASSUME UvLoopAssumption ==
  /\ MaxHandles \in Nat
  /\ Nobody \notin Waiters

VARIABLES
  owner,         \* where the constructing thread is
  uv,            \* where the loop's thread is
  mutex,         \* who holds mMutex
  mStopped,
  referenced,    \* mUvAsync keeps the loop alive
  asyncPending,  \* mUvAsync was sent, and the loop has not woken for it
  handles,       \* the other active handles,
  added,         \* and how many were ever added
  active,        \* loop->active_handles, as libuv counts
  register,      \* what the loop's thread has read of it, to write it back
  waiter,        \* where each waiter is
  timed,         \* the waiters that have a maxWait
  crashed,       \* memory was used after it was freed, and it mattered
  after,         \* history: the waiters that came after drain()
  raced          \* history: two threads changed loop->active_handles at once

loopVars == <<referenced, asyncPending, handles, added, active, register, raced>>
waitVars == <<mutex, mStopped, waiter, timed, after>>
vars == <<owner, uv, loopVars, waitVars, crashed>>

\* loop->active_handles is unsigned, and wraps; this is less than 2^32, and
\* more than any number of handles.
Wrap == 2 * MaxHandles + 4
NotRead == Wrap
Up(n) == (n + 1) % Wrap
Down(n) == (n + Wrap - 1) % Wrap

Inside == {w \in Waiters : waiter[w] \in {"looking", "asleep", "woken", "expired"}}

Init ==
  /\ owner = "waiting"
  /\ uv = "starting"
  /\ mutex = Nobody
  /\ mStopped = FALSE
  /\ referenced = FALSE
  /\ asyncPending = FALSE
  /\ handles = 0
  /\ added = 0
  /\ active = 0
  /\ register = NotRead
  /\ waiter = [w \in Waiters |-> "outside"]
  /\ timed = {}
  /\ after = {}
  /\ crashed = FALSE
  /\ raced = FALSE

-----------------------------------------------------------------------------
(* The constructor, once it has given the lock away by waiting, and what its *)
(* thread is told.                                                           *)

\* A fault: the wait has no predicate.
WakeOwnerAnyhow ==
  /\ owner = "waiting"
  /\ owner' = "constructed"
  /\ UNCHANGED <<uv, loopVars, waitVars, crashed>>

\* createUvLoop() and uv_async_init(), under the lock the owner waits with.
StartLoop ==
  /\ uv = "starting"
  /\ uv' = "started"
  /\ referenced' = TRUE
  /\ active' = 1
  /\ UNCHANGED <<owner, asyncPending, handles, added, register, raced, waitVars, crashed>>

\* The condition variable is a local of the constructor, which may have
\* returned since the lock was released.
NotifyStarted ==
  /\ uv = "started"
  /\ uv' = "looping"
  /\ crashed' \in IF owner = "waiting" THEN {FALSE} ELSE BOOLEAN
  /\ UNCHANGED <<owner, loopVars, waitVars>>

\* Also woken by nobody.
WakeOwner ==
  /\ owner = "waiting"
  /\ owner' = IF uv = "starting" THEN "waiting" ELSE "constructed"
  /\ UNCHANGED <<uv, loopVars, waitVars, crashed>>

-----------------------------------------------------------------------------
(* uv_run(), on the loop's thread.                                           *)

Poll ==
  /\ uv = "looping"
  /\ active # 0
  /\ uv' = "polling"
  /\ UNCHANGED <<owner, loopVars, waitVars, crashed>>

WakeForAsync ==
  /\ uv = "polling"
  /\ asyncPending
  /\ asyncPending' = FALSE
  /\ uv' = "looping"
  /\ UNCHANGED <<owner, referenced, handles, added, active, register, raced, waitVars, crashed>>

\* A callback ends its handle: libuv counts it out, in two accesses.
HandleEnds ==
  /\ uv = "polling"
  /\ handles > 0
  /\ handles' = handles - 1
  /\ register' = active
  /\ uv' = "counting"
  /\ UNCHANGED <<owner, referenced, asyncPending, added, active, raced, waitVars, crashed>>

CountOut ==
  /\ uv = "counting"
  /\ active' = Down(register)
  /\ register' = NotRead
  /\ uv' = "looping"
  /\ UNCHANGED <<owner, referenced, asyncPending, handles, added, raced, waitVars, crashed>>

LeaveRun ==
  /\ uv = "looping"
  /\ active = 0
  /\ uv' = "stopping"
  /\ UNCHANGED <<owner, loopVars, waitVars, crashed>>

SetStopped ==
  /\ uv = "stopping"
  /\ mutex = Nobody
  /\ mStopped' = TRUE
  /\ uv' = "stopped"
  /\ UNCHANGED <<owner, loopVars, mutex, waiter, timed, after, crashed>>

NotifyStopped ==
  /\ uv = "stopped"
  /\ uv' = "gone"
  /\ waiter' = [w \in Waiters |-> IF waiter[w] = "asleep" THEN "woken" ELSE waiter[w]]
  /\ UNCHANGED <<owner, loopVars, mutex, mStopped, timed, after, crashed>>

-----------------------------------------------------------------------------
(* The other threads.  What they add to loop->active_handles is lost, if the *)
(* loop's thread is about to write back what it has read.                    *)

Alter == raced' = (raced \/ register # NotRead)

\* The constructor of a thread group adds its async handle from the thread
\* that sets up the graph; nodes add theirs.
AddHandle ==
  /\ owner = "constructed"
  /\ uv \notin {"stopping", "stopped", "gone"}
  /\ added < MaxHandles
  /\ added' = added + 1
  /\ handles' = handles + 1
  /\ active' = Up(active)
  /\ Alter
  /\ UNCHANGED <<owner, uv, referenced, asyncPending, register, waitVars, crashed>>

\* A fault: what is not referenced is counted out once more.
DrainTwice ==
  /\ owner = "constructed"
  /\ uv \notin {"stopping", "stopped", "gone"}
  /\ active # 0
  /\ referenced' = FALSE
  /\ active' = Down(active)
  /\ Alter
  /\ UNCHANGED <<owner, uv, asyncPending, handles, added, register, waitVars, crashed>>

\* uv_unref(), which does nothing to a handle that is not referenced.
Drain ==
  /\ owner = "constructed"
  /\ referenced
  /\ referenced' = FALSE
  /\ active' = Down(active)
  /\ Alter
  /\ UNCHANGED <<owner, uv, asyncPending, handles, added, register, waitVars, crashed>>

\* Drained, the handle closed from this thread and the loop freed: nobody
\* else may be inside, the loop's thread has nothing more to do.
Destroy ==
  /\ owner = "constructed"
  /\ Inside = {}
  /\ owner' = "destroyed"
  /\ crashed' \in IF uv = "gone" THEN {FALSE} ELSE BOOLEAN
  /\ UNCHANGED <<uv, loopVars, waitVars>>

-----------------------------------------------------------------------------
(* waitForExit()                                                             *)

Move(w, place) == waiter' = [waiter EXCEPT ![w] = place]

\* A fault: the loop is left asleep.
EnterQuietly(w) ==
  /\ owner = "constructed"
  /\ waiter[w] = "outside"
  /\ mutex = Nobody
  /\ mutex' = w
  /\ timed' \in {timed \cup {w}, timed \ {w}}
  /\ after' = IF referenced THEN after \ {w} ELSE after \cup {w}
  /\ Move(w, "looking")
  /\ UNCHANGED <<owner, uv, loopVars, mStopped, crashed>>

\* Lock, and wake the loop, so that it sees it was drained.
EnterWait(w) ==
  /\ owner = "constructed"
  /\ waiter[w] = "outside"
  /\ mutex = Nobody
  /\ mutex' = w
  /\ asyncPending' = TRUE
  /\ timed' \in {timed \cup {w}, timed \ {w}}
  /\ after' = IF referenced THEN after \ {w} ELSE after \cup {w}
  /\ Move(w, "looking")
  /\ UNCHANGED <<owner, uv, referenced, handles, added, active, register, raced, mStopped, crashed>>

\* The mutex is released with the sleep, or the return.
Look(w) ==
  /\ waiter[w] = "looking"
  /\ mutex' = Nobody
  /\ Move(w, IF mStopped THEN "told true" ELSE "asleep")
  /\ UNCHANGED <<owner, uv, loopVars, mStopped, timed, after, crashed>>

\* For no reason.
WakeUnasked(w) ==
  /\ waiter[w] = "asleep"
  /\ Move(w, "woken")
  /\ UNCHANGED <<owner, uv, loopVars, mutex, mStopped, timed, after, crashed>>

\* maxWait has passed.
Expire(w) ==
  /\ w \in timed
  /\ waiter[w] = "asleep"
  /\ Move(w, "expired")
  /\ UNCHANGED <<owner, uv, loopVars, mutex, mStopped, timed, after, crashed>>

\* A fault: the mutex is kept with the answer.
LookAgainAsleep(w) ==
  /\ waiter[w] \in {"woken", "expired"}
  /\ mutex = Nobody
  /\ mutex' = IF mStopped THEN Nobody ELSE w
  /\ Move(w, CASE mStopped -> "told true"
               [] ~mStopped /\ waiter[w] = "woken" -> "asleep"
               [] ~mStopped /\ waiter[w] = "expired" -> "told false")
  /\ UNCHANGED <<owner, uv, loopVars, mStopped, timed, after, crashed>>

LookAgain(w) ==
  /\ waiter[w] \in {"woken", "expired"}
  /\ mutex = Nobody
  /\ Move(w, CASE mStopped -> "told true"
               [] ~mStopped /\ waiter[w] = "woken" -> "asleep"
               [] ~mStopped /\ waiter[w] = "expired" -> "told false")
  /\ UNCHANGED <<owner, uv, loopVars, mutex, mStopped, timed, after, crashed>>

\* Retried, after it was told that the loop still runs.
Again(w) ==
  /\ waiter[w] = "told false"
  /\ owner = "constructed"
  /\ Move(w, "outside")
  /\ UNCHANGED <<owner, uv, loopVars, mutex, mStopped, timed, after, crashed>>

LoopThread ==
  \/ StartLoop \/ NotifyStarted \/ Poll \/ WakeForAsync \/ CountOut
  \/ LeaveRun \/ SetStopped \/ NotifyStopped

Next ==
  /\ ~crashed
  /\ owner # "destroyed"
  /\ \/ LoopThread \/ HandleEnds
     \/ WakeOwner \/ AddHandle \/ Drain \/ Destroy
     \/ \E w \in Waiters :
          EnterWait(w) \/ Look(w) \/ WakeUnasked(w) \/ Expire(w) \/ LookAgain(w) \/ Again(w)

\* The loop's thread runs, a mutex that is free again and again is given to
\* who asks, and the time of a wait passes.  Nobody need ask, retry, drain,
\* or add or end a handle.
Running == ~crashed /\ owner # "destroyed"

Fairness ==
  /\ SF_vars(Running /\ LoopThread)
  /\ WF_vars(Running /\ WakeOwner)
  /\ \A w \in Waiters :
       /\ WF_vars(Running /\ Look(w))
       /\ SF_vars(Running /\ LookAgain(w))
       /\ SF_vars(Running /\ Expire(w))

Spec == Init /\ [][Next]_vars /\ Fairness
-----------------------------------------------------------------------------
Places ==
  {"outside", "looking", "asleep", "woken", "expired", "told true", "told false"}

Ended == {"stopping", "stopped", "gone"}

(***************************************************************************)
(* Types; and who is looking at mStopped has the mutex, alone.             *)
(***************************************************************************)
TypeOK ==
  /\ owner \in {"waiting", "constructed", "destroyed"}
  /\ uv \in {"starting", "started", "looping", "polling", "counting"} \cup Ended
  /\ mStopped \in BOOLEAN /\ referenced \in BOOLEAN /\ asyncPending \in BOOLEAN
  /\ crashed \in BOOLEAN /\ raced \in BOOLEAN
  /\ handles \in 0..added /\ added \in 0..MaxHandles
  /\ active \in 0..Wrap - 1
  /\ register \in 0..Wrap
  /\ register # NotRead <=> uv = "counting"
  /\ waiter \in [Waiters -> Places]
  /\ mutex \in Waiters \cup {Nobody}
  /\ timed \subseteq Waiters /\ after \subseteq Waiters
  /\ \A w \in Waiters : waiter[w] = "looking" <=> mutex = w

(***************************************************************************)
(* Whoever constructed the runner finds the loop and its thread's id, and  *)
(* whoever was told TRUE by waitForExit() that the loop has ended, however *)
(* it was woken or its time has passed: what it frees then, the loop does  *)
(* not use any more (ThreadGroup reads the loop and the id at once).       *)
(***************************************************************************)
ToldTheTruth ==
  /\ owner # "waiting" => uv # "starting"
  /\ \A w \in Waiters :
       /\ waiter[w] = "told true" => uv \in {"stopped", "gone"}
       /\ waiter[w] = "told false" => w \in timed

(***************************************************************************)
(* The loop runs until it is drained and every handle has ended, unless    *)
(* two threads have changed the count of its handles at once (uv_unref()   *)
(* and uv_async_init() are called from other threads).                     *)
(***************************************************************************)
OutlivesHandles == uv \in Ended /\ ~raced => ~referenced /\ handles = 0

(***************************************************************************)
(* waitForExit() wakes the loop, and returns when it was called after      *)
(* drain() and every handle has ended; with a maxWait it returns whatever  *)
(* the loop does.  A waiter that came before drain() may wait for ever,    *)
(* for uv_unref() wakes nobody, and so may one of a loop whose count of    *)
(* handles was changed by two threads at once.                             *)
(***************************************************************************)
WaitersReturn ==
  \A w \in Waiters :
    /\ (w \in Inside \cap after /\ handles = 0)
         ~> (w \notin Inside \/ handles # 0 \/ raced \/ ~Running)
    /\ (w \in Inside \cap timed) ~> (w \notin Inside \/ ~Running)
=============================================================================

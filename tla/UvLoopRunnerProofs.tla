-------------------------- MODULE UvLoopRunnerProofs --------------------------
(***************************************************************************)
(* What holds of UvLoopRunner for any number of waiters and handles.       *)
(***************************************************************************)
EXTENDS UvLoopRunner, TLAPS

Own == IF referenced THEN 1 ELSE 0

\* As long as no two threads have met over it, libuv's count is that of the
\* handles, or one more while the loop's thread is about to count one out.
Counted ==
  ~ raced =>
    /\ uv = "counting" => register = active /\ active = Own + handles + 1
    /\ uv # "counting" => active = Own + handles
    /\ uv \in Ended => active = 0

\* What the threads know of each other.
Told ==
  /\ owner # "waiting" => uv # "starting"
  /\ uv = "starting" => handles = 0 /\ added = 0 /\ active = 0 /\ ~ referenced
  /\ mStopped <=> uv \in {"stopped", "gone"}
  /\ \A w \in Waiters :
       /\ waiter[w] = "told true" => mStopped
       /\ waiter[w] \in {"expired", "told false"} => w \in timed

LoopInv ==
  /\ TypeOK
  /\ uv = "counting" => handles < added
  /\ Told
  /\ Counted

-----------------------------------------------------------------------------
\* The count never reaches the value it wraps at.
LEMMA CountFits ==
  ASSUME TypeOK
  PROVE  /\ Own + handles + 1 < Wrap
         /\ Wrap \in Nat
         /\ \A n \in 0 .. Wrap - 2 : Up(n) = n + 1
         /\ \A n \in 1 .. Wrap - 1 : Down(n) = n - 1
         /\ \A n \in 0 .. Wrap : Up(n) \in 0 .. Wrap - 1 /\ Down(n) \in 0 .. Wrap - 1
<1>1. /\ Wrap \in Nat /\ Wrap > 0
      /\ Own + handles + 1 < Wrap
  BY UvLoopAssumption DEF TypeOK, Own, Wrap
<1>2. \A n \in 0 .. Wrap - 2 : (n + 1) % Wrap = n + 1
  BY <1>1
<1>3. ASSUME NEW n \in 1 .. Wrap - 1 PROVE (n + Wrap - 1) % Wrap = n - 1
  <2> DEFINE W == Wrap
  <2>1. W \in Nat /\ W > 0 /\ n \in 1 .. W - 1 BY <1>1
  <2> HIDE DEF W
  <2>2. (n + W - 1) % W = n - 1 BY <2>1, SMTT(30)
  <2>. QED BY <2>2 DEF W
<1>4. \A n \in 0 .. Wrap :
        (n + 1) % Wrap \in 0 .. Wrap - 1 /\ (n + Wrap - 1) % Wrap \in 0 .. Wrap - 1
  BY <1>1
<1>. QED BY <1>1, <1>2, <1>3, <1>4 DEF Up, Down

LEMMA WrapPositive == Wrap \in Nat /\ Wrap > 2 * MaxHandles + 3
BY UvLoopAssumption DEF Wrap

\* The facts of arithmetic a step needs.
Numbers ==
  /\ Wrap \in Nat /\ Wrap > 3 /\ NotRead = Wrap
  /\ handles \in Nat /\ added \in Nat /\ MaxHandles \in Nat
  /\ active \in 0 .. Wrap - 1
  /\ handles <= added /\ added <= MaxHandles
  /\ Own \in {0, 1}
  /\ Own + handles + 1 < Wrap
  /\ register \in 0 .. Wrap
  /\ register # Wrap <=> uv = "counting"
  /\ uv = "counting" => handles < added
  /\ uv = "starting" =>
       handles = 0 /\ added = 0 /\ active = 0 /\ ~ referenced /\ owner = "waiting"

LEMMA NumbersHold == ASSUME LoopInv PROVE Numbers
<1>1. TypeOK BY DEF LoopInv
<1>2. handles \in Nat /\ added \in Nat /\ handles <= added /\ added <= MaxHandles
  BY <1>1, UvLoopAssumption DEF TypeOK
<1>3. active \in 0 .. Wrap - 1 BY <1>1 DEF TypeOK
<1>4. /\ register \in 0 .. Wrap
      /\ register # Wrap <=> uv = "counting"
  BY <1>1 DEF TypeOK, NotRead
<1>5. /\ uv = "counting" => handles < added
      /\ uv = "starting" =>
           handles = 0 /\ added = 0 /\ active = 0 /\ ~ referenced /\ owner = "waiting"
  BY <1>1 DEF LoopInv, Told, TypeOK
<1>6. Own \in {0, 1} BY DEF Own
<1>7. Wrap \in Nat /\ Wrap > 3 BY WrapPositive, UvLoopAssumption
<1>8. Own + handles + 1 < Wrap BY <1>1, CountFits
<1>9. NotRead = Wrap BY DEF NotRead
<1>. QED BY <1>2, <1>3, <1>4, <1>5, <1>6, <1>7, <1>8, <1>9, UvLoopAssumption DEF Numbers

LEMMA InitLoop == Init => LoopInv
<1>. SUFFICES ASSUME Init PROVE LoopInv
  OBVIOUS
<1>1. TypeOK
  <2>1. /\ handles \in 0..added /\ added \in 0..MaxHandles
        /\ active \in 0..Wrap - 1 /\ register \in 0..Wrap
        /\ register # NotRead <=> uv = "counting"
    BY UvLoopAssumption, WrapPositive DEF Init, NotRead
  <2>2. /\ waiter \in [Waiters -> Places]
        /\ \A w \in Waiters : waiter[w] = "looking" <=> mutex = w
    BY UvLoopAssumption DEF Init, Places
  <2>. QED BY <2>1, <2>2 DEF Init, TypeOK, Ended
<1>2. Told
  BY DEF Init, Told
<1>3. Counted
  BY DEF Init, Counted, Own, Ended
<1>. QED BY <1>1, <1>2, <1>3 DEF Init, LoopInv

LEMMA StartLoopKeeps ==
  ASSUME LoopInv, StartLoop PROVE LoopInv'
<1>0. Numbers BY NumbersHold
<1>1. TypeOK'
  <2>1. /\ handles' \in 0..added' /\ added' \in 0..MaxHandles
        /\ active' \in 0..Wrap - 1 /\ register' \in 0..Wrap
        /\ register' # NotRead <=> uv' = "counting"
    BY <1>0 DEF Numbers, StartLoop, NotRead, loopVars
  <2>. QED BY <2>1 DEF StartLoop, LoopInv, TypeOK, Ended, Wrap, NotRead, loopVars, waitVars
<1>2. (uv = "counting" => handles < added)'
  BY DEF StartLoop, LoopInv, TypeOK, loopVars, waitVars
<1>3. Told'
  BY DEF StartLoop, LoopInv, Told, TypeOK, Places, Ended, loopVars, waitVars
<1>4. Counted'
  BY <1>0 DEF Numbers, StartLoop, LoopInv, Counted, Own, Ended
<1>. QED BY <1>1, <1>2, <1>3, <1>4 DEF LoopInv

LEMMA NotifyStartedKeeps ==
  ASSUME LoopInv, NotifyStarted PROVE LoopInv'
<1>1. TypeOK'
  BY CountFits, WrapPositive, UvLoopAssumption
     DEF NotifyStarted, LoopInv, Told, TypeOK, Places, Ended, NotRead, loopVars, waitVars
<1>2. (uv = "counting" => handles < added)'
  BY DEF NotifyStarted, LoopInv, TypeOK, loopVars, waitVars
<1>3. Told'
  BY DEF NotifyStarted, LoopInv, Told, TypeOK, Places, Ended, loopVars, waitVars
<1>4. Counted'
  BY CountFits, WrapPositive
     DEF NotifyStarted, LoopInv, Told, Counted, Own, TypeOK, Ended, NotRead, loopVars, waitVars
<1>. QED BY <1>1, <1>2, <1>3, <1>4 DEF LoopInv

LEMMA PollKeeps ==
  ASSUME LoopInv, Poll PROVE LoopInv'
<1>1. TypeOK'
  BY CountFits, WrapPositive, UvLoopAssumption
     DEF Poll, LoopInv, Told, TypeOK, Places, Ended, NotRead, loopVars, waitVars
<1>2. (uv = "counting" => handles < added)'
  BY DEF Poll, LoopInv, TypeOK, loopVars, waitVars
<1>3. Told'
  BY DEF Poll, LoopInv, Told, TypeOK, Places, Ended, loopVars, waitVars
<1>4. Counted'
  BY CountFits, WrapPositive
     DEF Poll, LoopInv, Told, Counted, Own, TypeOK, Ended, NotRead, loopVars, waitVars
<1>. QED BY <1>1, <1>2, <1>3, <1>4 DEF LoopInv

LEMMA WakeForAsyncKeeps ==
  ASSUME LoopInv, WakeForAsync PROVE LoopInv'
<1>1. TypeOK'
  BY CountFits, WrapPositive, UvLoopAssumption
     DEF WakeForAsync, LoopInv, Told, TypeOK, Places, Ended, NotRead, loopVars, waitVars
<1>2. (uv = "counting" => handles < added)'
  BY DEF WakeForAsync, LoopInv, TypeOK, loopVars, waitVars
<1>3. Told'
  BY DEF WakeForAsync, LoopInv, Told, TypeOK, Places, Ended, loopVars, waitVars
<1>4. Counted'
  BY CountFits, WrapPositive
     DEF WakeForAsync, LoopInv, Told, Counted, Own, TypeOK, Ended, NotRead, loopVars, waitVars
<1>. QED BY <1>1, <1>2, <1>3, <1>4 DEF LoopInv

LEMMA HandleEndsKeeps ==
  ASSUME LoopInv, HandleEnds PROVE LoopInv'
<1>0. Numbers BY NumbersHold
<1>1. TypeOK'
  <2>1. /\ handles' \in 0..added' /\ added' \in 0..MaxHandles
        /\ active' \in 0..Wrap - 1 /\ register' \in 0..Wrap
        /\ register' # NotRead <=> uv' = "counting"
    BY <1>0 DEF Numbers, HandleEnds, NotRead, loopVars
  <2>. QED BY <2>1 DEF HandleEnds, LoopInv, TypeOK, Ended, Wrap, NotRead, loopVars, waitVars
<1>2. (uv = "counting" => handles < added)'
  BY DEF HandleEnds, LoopInv, TypeOK, loopVars, waitVars
<1>3. Told'
  BY DEF HandleEnds, LoopInv, Told, TypeOK, Places, Ended, loopVars, waitVars
<1>4. Counted'
  BY <1>0 DEF Numbers, HandleEnds, LoopInv, Counted, Own, Ended, loopVars
<1>. QED BY <1>1, <1>2, <1>3, <1>4 DEF LoopInv

LEMMA CountOutKeeps ==
  ASSUME LoopInv, CountOut PROVE LoopInv'
<1>0. Numbers BY NumbersHold
<1>a. /\ Down(register) \in 0 .. Wrap - 1
      /\ register > 0 => Down(register) = register - 1
  <2>1. register \in 0 .. Wrap - 1 BY <1>0 DEF CountOut, LoopInv, TypeOK, NotRead, Numbers
  <2>2. TypeOK BY DEF LoopInv
  <2>. QED BY <1>0, <2>1, <2>2, CountFits DEF Numbers
<1>1. TypeOK'
  <2>1. /\ handles' \in 0..added' /\ added' \in 0..MaxHandles
        /\ active' \in 0..Wrap - 1 /\ register' \in 0..Wrap
        /\ register' # NotRead <=> uv' = "counting"
    BY <1>0, <1>a DEF Numbers, CountOut, NotRead, loopVars
  <2>. QED BY <2>1 DEF CountOut, LoopInv, TypeOK, Ended, Wrap, NotRead, loopVars, waitVars
<1>2. (uv = "counting" => handles < added)'
  BY DEF CountOut, LoopInv, TypeOK, loopVars, waitVars
<1>3. Told'
  BY DEF CountOut, LoopInv, Told, TypeOK, Places, Ended, loopVars, waitVars
<1>4. Counted'
  BY <1>0, <1>a DEF Numbers, CountOut, LoopInv, Counted, Own, Ended, loopVars
<1>. QED BY <1>1, <1>2, <1>3, <1>4 DEF LoopInv

LEMMA LeaveRunKeeps ==
  ASSUME LoopInv, LeaveRun PROVE LoopInv'
<1>1. TypeOK'
  BY CountFits, WrapPositive, UvLoopAssumption
     DEF LeaveRun, LoopInv, Told, TypeOK, Places, Ended, NotRead, loopVars, waitVars
<1>2. (uv = "counting" => handles < added)'
  BY DEF LeaveRun, LoopInv, TypeOK, loopVars, waitVars
<1>3. Told'
  BY DEF LeaveRun, LoopInv, Told, TypeOK, Places, Ended, loopVars, waitVars
<1>4. Counted'
  BY CountFits, WrapPositive
     DEF LeaveRun, LoopInv, Told, Counted, Own, TypeOK, Ended, NotRead, loopVars, waitVars
<1>. QED BY <1>1, <1>2, <1>3, <1>4 DEF LoopInv

LEMMA SetStoppedKeeps ==
  ASSUME LoopInv, SetStopped PROVE LoopInv'
<1>1. TypeOK'
  BY CountFits, WrapPositive, UvLoopAssumption
     DEF SetStopped, LoopInv, Told, TypeOK, Places, Ended, NotRead, loopVars, waitVars
<1>2. (uv = "counting" => handles < added)'
  BY DEF SetStopped, LoopInv, TypeOK, loopVars, waitVars
<1>3. Told'
  BY DEF SetStopped, LoopInv, Told, TypeOK, Places, Ended, loopVars, waitVars
<1>4. Counted'
  BY CountFits, WrapPositive
     DEF SetStopped, LoopInv, Told, Counted, Own, TypeOK, Ended, NotRead, loopVars, waitVars
<1>. QED BY <1>1, <1>2, <1>3, <1>4 DEF LoopInv

LEMMA NotifyStoppedKeeps ==
  ASSUME LoopInv, NotifyStopped PROVE LoopInv'
<1>1. TypeOK'
  BY CountFits, WrapPositive, UvLoopAssumption
     DEF NotifyStopped, LoopInv, Told, TypeOK, Places, Ended, NotRead, loopVars, waitVars
<1>2. (uv = "counting" => handles < added)'
  BY DEF NotifyStopped, LoopInv, TypeOK, loopVars, waitVars
<1>3. Told'
  BY DEF NotifyStopped, LoopInv, Told, TypeOK, Places, Ended, loopVars, waitVars
<1>4. Counted'
  BY CountFits, WrapPositive
     DEF NotifyStopped, LoopInv, Told, Counted, Own, TypeOK, Ended, NotRead, loopVars, waitVars
<1>. QED BY <1>1, <1>2, <1>3, <1>4 DEF LoopInv

LEMMA WakeOwnerKeeps ==
  ASSUME LoopInv, WakeOwner PROVE LoopInv'
<1>1. TypeOK'
  BY CountFits, WrapPositive, UvLoopAssumption
     DEF WakeOwner, LoopInv, Told, TypeOK, Places, Ended, NotRead, loopVars, waitVars
<1>2. (uv = "counting" => handles < added)'
  BY DEF WakeOwner, LoopInv, TypeOK, loopVars, waitVars
<1>3. Told'
  BY DEF WakeOwner, LoopInv, Told, TypeOK, Places, Ended, loopVars, waitVars
<1>4. Counted'
  BY CountFits, WrapPositive
     DEF WakeOwner, LoopInv, Told, Counted, Own, TypeOK, Ended, NotRead, loopVars, waitVars
<1>. QED BY <1>1, <1>2, <1>3, <1>4 DEF LoopInv

LEMMA AddHandleKeeps ==
  ASSUME LoopInv, AddHandle PROVE LoopInv'
<1>0. Numbers BY NumbersHold
<1>a. /\ Up(active) \in 0 .. Wrap - 1
      /\ active < Wrap - 1 => Up(active) = active + 1
  <2>1. active \in 0 .. Wrap - 1 BY DEF LoopInv, TypeOK
  <2>2. TypeOK BY DEF LoopInv
  <2>. QED BY <1>0, <2>1, <2>2, CountFits DEF Numbers
<1>1. TypeOK'
  <2>1. /\ handles' \in 0..added' /\ added' \in 0..MaxHandles
        /\ active' \in 0..Wrap - 1 /\ register' \in 0..Wrap
        /\ register' # NotRead <=> uv' = "counting"
    BY <1>0, <1>a DEF Numbers, AddHandle, Alter, NotRead, loopVars
  <2>. QED BY <2>1 DEF AddHandle, Alter, LoopInv, TypeOK, Ended, Wrap, NotRead, loopVars, waitVars
<1>2. (uv = "counting" => handles < added)'
  BY DEF AddHandle, Alter, LoopInv, TypeOK, loopVars, waitVars
<1>3. Told'
  BY DEF AddHandle, Alter, LoopInv, Told, TypeOK, Places, Ended, loopVars, waitVars
<1>4. Counted'
  <2>. SUFFICES ASSUME ~ raced' PROVE Counted'
    BY DEF Counted
  <2>1. ~ raced /\ uv # "counting" /\ uv' = uv
    BY <1>0 DEF AddHandle, Alter, Numbers, NotRead
  <2>2. active = Own + handles /\ (uv \in Ended => active = 0)
    BY <2>1 DEF LoopInv, Counted
  <2>3. active' = active + 1 /\ handles' = handles + 1 /\ referenced' = referenced
    BY <1>0, <1>a, <2>2 DEF AddHandle, Numbers, Own
  <2>4. active' = Own' + handles'
    BY <1>0, <2>2, <2>3 DEF Numbers, Own
  <2>5. uv \notin Ended
    BY <1>0, <2>2, <2>3 DEF AddHandle, Numbers, Own, Ended
  <2>. QED BY <2>1, <2>4, <2>5 DEF Counted
<1>. QED BY <1>1, <1>2, <1>3, <1>4 DEF LoopInv

LEMMA DrainKeeps ==
  ASSUME LoopInv, Drain PROVE LoopInv'
<1>0. Numbers BY NumbersHold
<1>a. /\ Down(active) \in 0 .. Wrap - 1
      /\ active > 0 => Down(active) = active - 1
  <2>1. active \in 0 .. Wrap - 1 BY DEF LoopInv, TypeOK
  <2>2. TypeOK BY DEF LoopInv
  <2>. QED BY <1>0, <2>1, <2>2, CountFits DEF Numbers
<1>1. TypeOK'
  <2>1. /\ handles' \in 0..added' /\ added' \in 0..MaxHandles
        /\ active' \in 0..Wrap - 1 /\ register' \in 0..Wrap
        /\ register' # NotRead <=> uv' = "counting"
    BY <1>0, <1>a DEF Numbers, Drain, Alter, NotRead, loopVars
  <2>. QED BY <2>1 DEF Drain, Alter, LoopInv, TypeOK, Ended, Wrap, NotRead, loopVars, waitVars
<1>2. (uv = "counting" => handles < added)'
  BY DEF Drain, Alter, LoopInv, TypeOK, loopVars, waitVars
<1>3. Told'
  BY DEF Drain, Alter, LoopInv, Told, TypeOK, Places, Ended, loopVars, waitVars
<1>4. Counted'
  <2>. SUFFICES ASSUME ~ raced' PROVE Counted'
    BY DEF Counted
  <2>1. ~ raced /\ uv # "counting" /\ uv' = uv
    BY <1>0 DEF Drain, Alter, Numbers, NotRead
  <2>2. active = Own + handles /\ (uv \in Ended => active = 0)
    BY <2>1 DEF LoopInv, Counted
  <2>3. active' = active - 1 /\ handles' = handles /\ referenced /\ ~ referenced'
    BY <1>0, <1>a, <2>2 DEF Drain, Numbers, Own
  <2>4. active' = Own' + handles'
    BY <1>0, <2>2, <2>3 DEF Numbers, Own
  <2>5. uv \notin Ended
    BY <1>0, <2>2, <2>3 DEF Drain, Numbers, Own, Ended
  <2>. QED BY <2>1, <2>4, <2>5 DEF Counted
<1>. QED BY <1>1, <1>2, <1>3, <1>4 DEF LoopInv

LEMMA DestroyKeeps ==
  ASSUME LoopInv, Destroy PROVE LoopInv'
<1>1. TypeOK'
  BY CountFits, WrapPositive, UvLoopAssumption
     DEF Destroy, LoopInv, Told, TypeOK, Places, Ended, NotRead, loopVars, waitVars
<1>2. (uv = "counting" => handles < added)'
  BY DEF Destroy, LoopInv, TypeOK, loopVars, waitVars
<1>3. Told'
  BY DEF Destroy, LoopInv, Told, TypeOK, Places, Ended, loopVars, waitVars
<1>4. Counted'
  BY CountFits, WrapPositive
     DEF Destroy, LoopInv, Told, Counted, Own, TypeOK, Ended, NotRead, loopVars, waitVars
<1>. QED BY <1>1, <1>2, <1>3, <1>4 DEF LoopInv

LEMMA EnterWaitKeeps ==
  ASSUME LoopInv, NEW w \in Waiters, EnterWait(w) PROVE LoopInv'
<1>1. TypeOK'
  BY CountFits, WrapPositive, UvLoopAssumption
     DEF EnterWait, Move, LoopInv, Told, TypeOK, Places, Ended, NotRead, loopVars, waitVars
<1>2. (uv = "counting" => handles < added)'
  BY DEF EnterWait, LoopInv, TypeOK, loopVars, waitVars
<1>3. Told'
  BY DEF EnterWait, Move, LoopInv, Told, TypeOK, Places, Ended, loopVars, waitVars
<1>4. Counted'
  BY CountFits, WrapPositive
     DEF EnterWait, LoopInv, Told, Counted, Own, TypeOK, Ended, NotRead, loopVars, waitVars
<1>. QED BY <1>1, <1>2, <1>3, <1>4 DEF LoopInv

LEMMA LookKeeps ==
  ASSUME LoopInv, NEW w \in Waiters, Look(w) PROVE LoopInv'
<1>1. TypeOK'
  BY ZenonT(60), CountFits, WrapPositive, UvLoopAssumption
     DEF Look, Move, LoopInv, Told, TypeOK, Places, Ended, NotRead, loopVars, waitVars
<1>2. (uv = "counting" => handles < added)'
  BY DEF Look, LoopInv, TypeOK, loopVars, waitVars
<1>3. Told'
  BY DEF Look, Move, LoopInv, Told, TypeOK, Places, Ended, loopVars, waitVars
<1>4. Counted'
  BY CountFits, WrapPositive
     DEF Look, LoopInv, Told, Counted, Own, TypeOK, Ended, NotRead, loopVars, waitVars
<1>. QED BY <1>1, <1>2, <1>3, <1>4 DEF LoopInv

LEMMA WakeUnaskedKeeps ==
  ASSUME LoopInv, NEW w \in Waiters, WakeUnasked(w) PROVE LoopInv'
<1>1. TypeOK'
  BY ZenonT(60), CountFits, WrapPositive, UvLoopAssumption
     DEF WakeUnasked, Move, LoopInv, Told, TypeOK, Places, Ended, NotRead, loopVars, waitVars
<1>2. (uv = "counting" => handles < added)'
  BY DEF WakeUnasked, LoopInv, TypeOK, loopVars, waitVars
<1>3. Told'
  BY DEF WakeUnasked, Move, LoopInv, Told, TypeOK, Places, Ended, loopVars, waitVars
<1>4. Counted'
  BY CountFits, WrapPositive
     DEF WakeUnasked, LoopInv, Told, Counted, Own, TypeOK, Ended, NotRead, loopVars, waitVars
<1>. QED BY <1>1, <1>2, <1>3, <1>4 DEF LoopInv

LEMMA ExpireKeeps ==
  ASSUME LoopInv, NEW w \in Waiters, Expire(w) PROVE LoopInv'
<1>1. TypeOK'
  BY ZenonT(60), CountFits, WrapPositive, UvLoopAssumption
     DEF Expire, Move, LoopInv, Told, TypeOK, Places, Ended, NotRead, loopVars, waitVars
<1>2. (uv = "counting" => handles < added)'
  BY DEF Expire, LoopInv, TypeOK, loopVars, waitVars
<1>3. Told'
  BY DEF Expire, Move, LoopInv, Told, TypeOK, Places, Ended, loopVars, waitVars
<1>4. Counted'
  BY CountFits, WrapPositive
     DEF Expire, LoopInv, Told, Counted, Own, TypeOK, Ended, NotRead, loopVars, waitVars
<1>. QED BY <1>1, <1>2, <1>3, <1>4 DEF LoopInv

LEMMA LookAgainKeeps ==
  ASSUME LoopInv, NEW w \in Waiters, LookAgain(w) PROVE LoopInv'
<1>1. TypeOK'
  BY ZenonT(60), CountFits, WrapPositive, UvLoopAssumption
     DEF LookAgain, Move, LoopInv, Told, TypeOK, Places, Ended, NotRead, loopVars, waitVars
<1>2. (uv = "counting" => handles < added)'
  BY DEF LookAgain, LoopInv, TypeOK, loopVars, waitVars
<1>3. Told'
  BY DEF LookAgain, Move, LoopInv, Told, TypeOK, Places, Ended, loopVars, waitVars
<1>4. Counted'
  BY CountFits, WrapPositive
     DEF LookAgain, LoopInv, Told, Counted, Own, TypeOK, Ended, NotRead, loopVars, waitVars
<1>. QED BY <1>1, <1>2, <1>3, <1>4 DEF LoopInv

LEMMA AgainKeeps ==
  ASSUME LoopInv, NEW w \in Waiters, Again(w) PROVE LoopInv'
<1>1. TypeOK'
  BY CountFits, WrapPositive, UvLoopAssumption
     DEF Again, Move, LoopInv, Told, TypeOK, Places, Ended, NotRead, loopVars, waitVars
<1>2. (uv = "counting" => handles < added)'
  BY DEF Again, LoopInv, TypeOK, loopVars, waitVars
<1>3. Told'
  BY DEF Again, Move, LoopInv, Told, TypeOK, Places, Ended, loopVars, waitVars
<1>4. Counted'
  BY CountFits, WrapPositive
     DEF Again, LoopInv, Told, Counted, Own, TypeOK, Ended, NotRead, loopVars, waitVars
<1>. QED BY <1>1, <1>2, <1>3, <1>4 DEF LoopInv

LEMMA StepLoop == ASSUME LoopInv, [Next]_vars PROVE LoopInv'
<1>1. CASE LoopThread
  BY <1>1, StartLoopKeeps, NotifyStartedKeeps, PollKeeps, WakeForAsyncKeeps,
     CountOutKeeps, LeaveRunKeeps, SetStoppedKeeps, NotifyStoppedKeeps DEF LoopThread
<1>2. CASE HandleEnds \/ WakeOwner \/ AddHandle \/ Drain \/ Destroy
  BY <1>2, HandleEndsKeeps, WakeOwnerKeeps, AddHandleKeeps, DrainKeeps, DestroyKeeps
<1>3. ASSUME NEW w \in Waiters,
             EnterWait(w) \/ Look(w) \/ WakeUnasked(w) \/ Expire(w)
               \/ LookAgain(w) \/ Again(w)
      PROVE  LoopInv'
  BY <1>3, EnterWaitKeeps, LookKeeps, WakeUnaskedKeeps, ExpireKeeps,
     LookAgainKeeps, AgainKeeps
<1>4. CASE UNCHANGED vars
  <2>1. TypeOK' <=> TypeOK
    BY <1>4 DEF vars, loopVars, waitVars, TypeOK, Wrap, NotRead, Ended, Places, Nobody
  <2>2. Told' <=> Told
    BY <1>4 DEF vars, loopVars, waitVars, Told
  <2>3. Counted' <=> Counted
    BY <1>4 DEF vars, loopVars, waitVars, Counted, Own, Ended
  <2>. QED BY <1>4, <2>1, <2>2, <2>3 DEF vars, loopVars, LoopInv
<1>. QED BY <1>1, <1>2, <1>3, <1>4 DEF Next

LEMMA LoopInvHolds == Spec => []LoopInv
BY InitLoop, StepLoop, PTL DEF Spec

-----------------------------------------------------------------------------
(* Every variable keeps its type, and who looks at mStopped has the mutex  *)
(* alone, for any number of waiters.                                       *)
THEOREM TypeCorrect == Spec => []TypeOK
<1>1. LoopInv => TypeOK BY DEF LoopInv
<1>. QED BY <1>1, LoopInvHolds, PTL

(* The constructor returns with the loop and its thread's id in place, and *)
(* waitForExit() says TRUE only of a loop that has ended, FALSE only when  *)
(* it was given a maxWait.                                                 *)
THEOREM TruthIsTold == Spec => []ToldTheTruth
<1>1. LoopInv => ToldTheTruth
  BY DEF LoopInv, Told, ToldTheTruth
<1>. QED BY <1>1, LoopInvHolds, PTL

(* The loop does not end before it is drained and its handles have ended,  *)
(* unless two threads changed the count of its handles at once.            *)
THEOREM LoopOutlivesHandles == Spec => []OutlivesHandles
<1>1. ASSUME LoopInv, uv \in Ended, ~ raced
      PROVE  ~ referenced /\ handles = 0
  <2>1. Numbers BY <1>1, NumbersHold
  <2>2. active = 0 /\ active = Own + handles
    BY <1>1 DEF LoopInv, Counted, Ended
  <2>. QED BY <2>1, <2>2 DEF Numbers, Own
<1>2. LoopInv => OutlivesHandles BY <1>1 DEF OutlivesHandles
<1>. QED BY <1>2, LoopInvHolds, PTL
-----------------------------------------------------------------------------
(* What the return of a waiter rests on. *)

\* A waiter that sleeps is woken by somebody yet, and the loop does not sleep
\* unless it is woken, once a waiter came after drain() and the handles ended.
NobodyForgotten ==
  /\ \A w \in Waiters : waiter[w] = "asleep" => uv # "gone"
  /\ \A w \in Inside \cap after :
       uv = "polling" /\ handles = 0 /\ ~ raced => asyncPending

\* Nobody drains before the loop was started, or takes it back.
DrainedForGood ==
  /\ uv = "starting" => after = {}
  /\ after # {} => ~ referenced

WakeInv == DrainedForGood /\ NobodyForgotten

LEMMA StepDrained ==
  ASSUME LoopInv, DrainedForGood, [Next]_vars
  PROVE  DrainedForGood'
<1>0. ASSUME after' = after, uv' = "starting" => uv = "starting",
             referenced' => referenced \/ uv = "starting"
      PROVE  DrainedForGood'
  BY <1>0 DEF DrainedForGood
<1>1. CASE LoopThread
  <2>1. CASE StartLoop
    BY <1>0, <2>1 DEF StartLoop, waitVars
  <2>2. CASE NotifyStarted \/ Poll \/ WakeForAsync \/ CountOut \/ LeaveRun
    BY <1>0, <2>2
       DEF NotifyStarted, Poll, WakeForAsync, CountOut, LeaveRun, loopVars, waitVars
  <2>3. CASE SetStopped \/ NotifyStopped
    BY <1>0, <2>3 DEF SetStopped, NotifyStopped, loopVars
  <2>. QED BY <1>1, <2>1, <2>2, <2>3 DEF LoopThread
<1>2. CASE HandleEnds \/ WakeOwner \/ AddHandle \/ Drain \/ Destroy
  BY <1>0, <1>2
     DEF HandleEnds, WakeOwner, AddHandle, Drain, Destroy, loopVars, waitVars
<1>3. ASSUME NEW w \in Waiters, EnterWait(w)
      PROVE  DrainedForGood'
  <2>1. uv # "starting" /\ uv' = uv /\ referenced' = referenced
        /\ after' = IF referenced THEN after \ {w} ELSE after \cup {w}
    BY <1>3 DEF EnterWait, LoopInv, Told
  <2>. QED BY <2>1 DEF DrainedForGood
<1>4. ASSUME NEW w \in Waiters,
             Look(w) \/ WakeUnasked(w) \/ Expire(w) \/ LookAgain(w) \/ Again(w)
      PROVE  DrainedForGood'
  BY <1>0, <1>4 DEF Look, WakeUnasked, Expire, LookAgain, Again, loopVars
<1>5. CASE UNCHANGED vars
  BY <1>0, <1>5 DEF vars, loopVars, waitVars
<1>. QED BY <1>1, <1>2, <1>3, <1>4, <1>5 DEF Next

\* Who is inside waitForExit() came in by EnterWait().
LEMMA StillInside ==
  ASSUME LoopInv, NEW w \in Waiters,
         Look(w) \/ WakeUnasked(w) \/ Expire(w) \/ LookAgain(w) \/ Again(w)
  PROVE  /\ Inside' \subseteq Inside
         /\ \A v \in Waiters :
              waiter'[v] = "asleep" => waiter[v] = "asleep" \/ ~ mStopped
         /\ UNCHANGED <<uv, loopVars, after, mStopped>>
<1>. PICK p : Move(w, p)
  BY DEF Look, WakeUnasked, Expire, LookAgain, Again
<1>1. \A v \in Waiters : waiter'[v] = IF v = w THEN p ELSE waiter[v]
  BY DEF Move, LoopInv, TypeOK
<1>2. CASE Look(w) \/ LookAgain(w)
  <2>1. waiter[w] \in {"looking", "woken", "expired"}
        /\ (waiter'[w] = "asleep" => ~ mStopped)
    BY <1>2 DEF Look, LookAgain, Move, LoopInv, TypeOK
  <2>. QED BY <1>1, <1>2, <2>1 DEF Look, LookAgain, Inside
<1>3. CASE WakeUnasked(w) \/ Expire(w)
  <2>1. waiter[w] = "asleep" /\ waiter'[w] # "asleep"
    BY <1>3 DEF WakeUnasked, Expire, Move, LoopInv, TypeOK
  <2>. QED BY <1>1, <1>3, <2>1 DEF WakeUnasked, Expire, Inside
<1>4. CASE Again(w)
  <2>1. waiter'[w] = "outside"
    BY <1>4 DEF Again, Move, LoopInv, TypeOK
  <2>. QED BY <1>1, <1>4, <2>1 DEF Again, Inside
<1>. QED BY <1>2, <1>3, <1>4

LEMMA StepForgotten ==
  ASSUME LoopInv, WakeInv, [Next]_vars
  PROVE  NobodyForgotten'
<1>. USE DEF WakeInv
<1>0. Numbers BY NumbersHold
<1>1. CASE Poll
  <2>1. ASSUME NEW w \in Inside \cap after, ~ raced PROVE handles # 0
    <3>1. ~ referenced BY <2>1 DEF DrainedForGood
    <3>2. active = Own + handles /\ active # 0
      BY <1>1, <2>1 DEF Poll, LoopInv, Counted
    <3>. QED BY <1>0, <3>1, <3>2 DEF Own, Numbers
  <2>. QED BY <1>1, <2>1 DEF Poll, NobodyForgotten, Inside, loopVars, waitVars
<1>2. CASE NotifyStopped
  BY <1>2 DEF NotifyStopped, NobodyForgotten
<1>3. CASE \/ StartLoop \/ NotifyStarted \/ WakeForAsync \/ CountOut \/ LeaveRun
           \/ SetStopped \/ HandleEnds
  <2>1. waiter' = waiter /\ uv' \notin {"polling", "gone"}
    BY <1>3
       DEF StartLoop, NotifyStarted, WakeForAsync, CountOut, LeaveRun, SetStopped,
           HandleEnds, waitVars
  <2>. QED BY <2>1 DEF NobodyForgotten
<1>4. CASE AddHandle
  <2>1. handles' # 0 /\ UNCHANGED <<uv, waiter>>
    BY <1>0, <1>4 DEF AddHandle, Numbers, waitVars
  <2>. QED BY <2>1 DEF NobodyForgotten
<1>5. CASE WakeOwner \/ Drain \/ Destroy
  <2>1. UNCHANGED <<uv, waiter, after, handles, asyncPending>>
    BY <1>5 DEF WakeOwner, Drain, Destroy, loopVars, waitVars
  <2>2. raced => raced'
    <3>1. CASE Drain
      BY <3>1 DEF Drain, Alter
    <3>2. CASE WakeOwner \/ Destroy
      BY <3>2 DEF WakeOwner, Destroy, loopVars
    <3>. QED BY <1>5, <3>1, <3>2
  <2>. QED BY <2>1, <2>2 DEF NobodyForgotten, Inside
<1>6. ASSUME NEW w \in Waiters, EnterWait(w)
      PROVE  NobodyForgotten'
  <2>1. /\ asyncPending' /\ uv' = uv
        /\ \A v \in Waiters : waiter'[v] = IF v = w THEN "looking" ELSE waiter[v]
    BY <1>6 DEF EnterWait, Move, LoopInv, TypeOK
  <2>. QED BY <2>1 DEF NobodyForgotten
<1>7. ASSUME NEW w \in Waiters,
             Look(w) \/ WakeUnasked(w) \/ Expire(w) \/ LookAgain(w) \/ Again(w)
      PROVE  NobodyForgotten'
  <2>1. uv = "gone" => mStopped
    BY DEF LoopInv, Told
  <2>. QED BY <1>7, <2>1, StillInside DEF NobodyForgotten, loopVars
<1>8. CASE UNCHANGED vars
  BY <1>8 DEF vars, loopVars, waitVars, NobodyForgotten, Inside
<1>. QED BY <1>1, <1>2, <1>3, <1>4, <1>5, <1>6, <1>7, <1>8 DEF Next, LoopThread

(* No wake-up is missed: nobody sleeps in waitForExit() when the loop's    *)
(* thread has gone, whatever woke it and whenever it looked; and when a    *)
(* waiter came after drain() and every handle has ended, the loop does not *)
(* sleep either, or its wake-up is on its way.                             *)
THEOREM NoWakeUpMissed == Spec => []NobodyForgotten
<1>1. Init => WakeInv
  BY DEF Init, WakeInv, DrainedForGood, NobodyForgotten
<1>2. LoopInv /\ WakeInv /\ [Next]_vars => WakeInv'
  BY StepDrained, StepForgotten DEF WakeInv
<1>3. WakeInv => NobodyForgotten
  BY DEF WakeInv
<1>. QED BY <1>1, <1>2, <1>3, LoopInvHolds, PTL DEF Spec
=============================================================================

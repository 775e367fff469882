--------------------------- MODULE PacketDelivery ---------------------------
(***************************************************************************)
(* What a DataGraph promises those who push packets into it, without       *)
(* threads, stacks, queues or async handles.                               *)
(*                                                                         *)
(* A call that pushes a packet owes one delivery per edge of its channel   *)
(* (one in all for sendPacket()), each on a thread that is fixed at once.  *)
(* A delivery that is owed is made once and never again.  Only a call that *)
(* is still going on can fail, and with it what it still owes may be lost: *)
(* a caller that has seen pushPacket() return can rely on the rest.        *)
(***************************************************************************)
VARIABLES
  owed,       \* deliveries to be made, records with the call's number in id
  delivered,  \* deliveries made
  open        \* calls that have not returned

vars == <<owed, delivered, open>>

Of(id, deliveries) == {d \in deliveries : d.id = id}

Init == owed = {} /\ delivered = {} /\ open = {}

\* A call begins: id is new, and all that is new in owed is this call's.
Accept(id) ==
  /\ id \notin open
  /\ Of(id, owed \cup delivered) = {}
  /\ owed \subseteq owed'
  /\ owed' # owed
  /\ \A d \in owed' \ owed : d.id = id
  /\ open' = open \cup {id}
  /\ UNCHANGED delivered

Deliver(d) ==
  /\ owed' = owed \ {d}
  /\ delivered' = delivered \cup {d}
  /\ UNCHANGED open

Return(id) ==
  /\ open' = open \ {id}
  /\ UNCHANGED <<owed, delivered>>

\* Calls end with an exception: an exception may end several at once.
Fail ==
  /\ open' \subseteq open
  /\ owed' \subseteq owed
  /\ \A d \in owed \ owed' : d.id \in open \ open'
  /\ UNCHANGED delivered

Next ==
  \/ \E id \in open' \ open : Accept(id)
  \/ \E d \in owed : Deliver(d)
  \/ \E id \in open : Return(id)
  \/ Fail

Spec == Init /\ [][Next]_vars
=============================================================================

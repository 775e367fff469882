---------------------------- MODULE ConnectionLife ----------------------------
(***************************************************************************)
(* What the packets of a TCP group tell the graph about its connections: a *)
(* connection is announced once, then there may be data and errors, and    *)
(* when either side has left, nothing more but the one notice that it is   *)
(* closed.                                                                 *)
(***************************************************************************)
CONSTANT Conns

VARIABLES
  life,  \* of each connection: "unknown", "open", "leaving" or "closed"
  told   \* the last packet about a connection

Packets == [conn : Conns, what : {"opened", "data", "error", "closed"}]

Tell(c, what) == told' = [conn |-> c, what |-> what]

Become(c, from, to) == life[c] = from /\ life' = [life EXCEPT ![c] = to]

Init == life = [c \in Conns |-> "unknown"] /\ told \notin Packets

Open(c)    == Become(c, "unknown", "open") /\ Tell(c, "opened")
Receive(c) == Become(c, "open", "open") /\ Tell(c, "data")
Fail(c)    == life[c] \in {"open", "leaving"} /\ Tell(c, "error") /\ UNCHANGED life
Leave(c)   == Become(c, "open", "leaving") /\ UNCHANGED told
Reject(c)  == Become(c, "unknown", "leaving") /\ Tell(c, "error")
Close(c)   == Become(c, "leaving", "closed") /\ Tell(c, "closed")

Next == \E c \in Conns :
  \/ Open(c)
  \/ Receive(c)
  \/ Fail(c)
  \/ Leave(c)
  \/ Reject(c)
  \/ Close(c)

Spec == Init /\ [][Next]_<<life, told>>
=============================================================================

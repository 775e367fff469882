-------------------------- MODULE TcpConnectionsProofs --------------------------
(***************************************************************************)
(* What holds of TcpConnections for any number of connections and write    *)
(* requests, and that it implements ConnectionLife.                        *)
(***************************************************************************)
EXTENDS TcpConnections, TLAPS

\* The tables hold exactly what is open or closing, and libuv reads from,
\* and shuts down, nothing else.
Inv ==
  /\ TypeOK
  /\ connections = clients
  /\ \A c \in Conns : c \in clients <=> handle[c] \in {"open", "closing"}
  /\ \A c \in reading : handle[c] = "open"
  /\ shutdowns \subseteq clients
  /\ \A r \in Requests : writes[r] \in Conns => writes[r] \in clients

\* What a socket's new state does to the handles.
LEMMA HandleChange ==
  ASSUME TypeOK, NEW c \in Conns, NEW s \in HandleStates, SetHandle(c, s)
  PROVE  /\ handle' \in [Conns -> HandleStates]
         /\ handle'[c] = s
         /\ \A x \in Conns : x # c => handle'[x] = handle[x]
BY DEF TypeOK, SetHandle

LEMMA InitInv == Init => Inv
BY RequestsAssumption DEF Init, Inv, TypeOK, HandleStates

\* Connections come into both tables at once.
LEMMA ArrivalInv ==
  ASSUME Inv, NEW c \in Conns,
         Accept(c) \/ ReadStartFails(c) \/ Connected(c)
  PROVE  Inv'
<1>1. /\ handle[c] \in {"none", "connecting"}
      /\ connections' = connections \cup {c}
      /\ clients' = clients \cup {c}
      /\ UNCHANGED <<server, listening, outgoing, writes, shutdowns, over, crashed>>
      /\ \/ SetHandle(c, "open") /\ reading' \in {reading, reading \cup {c}}
         \/ SetHandle(c, "closing") /\ reading' = reading \ {c}
      /\ told' \in Packets
  BY DEF Accept, ReadStartFails, Connected, Remember, UvClose, Defined, Tell,
         Packets, listener, Inv, TypeOK
<1>2. CASE SetHandle(c, "open") /\ reading' \in {reading, reading \cup {c}}
  <2>1. /\ handle' \in [Conns -> HandleStates]
        /\ handle'[c] = "open"
        /\ \A x \in Conns : x # c => handle'[x] = handle[x]
    BY <1>2, HandleChange DEF Inv, HandleStates
  <2>2. TypeOK'
    BY <1>1, <1>2, <2>1 DEF Inv, TypeOK
  <2>. QED BY <1>1, <1>2, <2>1, <2>2 DEF Inv, TypeOK
<1>3. CASE SetHandle(c, "closing") /\ reading' = reading \ {c}
  <2>1. /\ handle' \in [Conns -> HandleStates]
        /\ handle'[c] = "closing"
        /\ \A x \in Conns : x # c => handle'[x] = handle[x]
    BY <1>3, HandleChange DEF Inv, HandleStates
  <2>2. TypeOK'
    BY <1>1, <1>3, <2>1 DEF Inv, TypeOK
  <2>. QED BY <1>1, <1>3, <2>1, <2>2 DEF Inv, TypeOK
<1>. QED BY <1>1, <1>2, <1>3

\* A socket the graph was never told of comes or goes.
LEMMA StrangerInv ==
  ASSUME Inv, NEW c \in Conns,
         AcceptFails(c) \/ Connect(c) \/ ConnectFails(c)
  PROVE  Inv'
<1>1. /\ handle[c] \in {"none", "connecting"}
      /\ \/ SetHandle(c, "dropped")
         \/ SetHandle(c, "connecting")
      /\ outgoing' \in {outgoing, outgoing \cup {c}}
      /\ crashed' \in BOOLEAN
      /\ UNCHANGED <<server, listening, reading, connections, clients, writes,
                     shutdowns, told, over>>
  BY DEF AcceptFails, Connect, ConnectFails, Defined, Undefined, listener,
         tables, history, Inv, TypeOK
<1>2. PICK s \in {"dropped", "connecting"} : SetHandle(c, s)
  BY <1>1
<1>3. /\ handle' \in [Conns -> HandleStates]
      /\ handle'[c] = s
      /\ \A x \in Conns : x # c => handle'[x] = handle[x]
  BY <1>2, HandleChange DEF Inv, HandleStates
<1>4. c \notin clients
  BY <1>1 DEF Inv
<1>5. TypeOK'
  BY <1>1, <1>3 DEF Inv, TypeOK
<1>. QED BY <1>1, <1>3, <1>4, <1>5 DEF Inv, TypeOK

\* uv_close() of an open socket.
LEMMA EndingInv ==
  ASSUME Inv, NEW c \in Conns, handle[c] = "open", Defined, UvClose(c), End(c),
         UNCHANGED <<listener, outgoing, tables, writes, shutdowns>>
  PROVE  Inv'
<1>1. /\ handle' \in [Conns -> HandleStates]
      /\ handle'[c] = "closing"
      /\ \A x \in Conns : x # c => handle'[x] = handle[x]
  BY HandleChange DEF UvClose, Inv, HandleStates
<1>2. /\ reading' = reading \ {c}
      /\ over' = over \cup {c}
      /\ UNCHANGED <<server, listening, outgoing, connections, clients, writes,
                     shutdowns, told, crashed>>
  BY DEF UvClose, End, Defined, listener, tables
<1>3. TypeOK'
  BY <1>1, <1>2 DEF Inv, TypeOK
<1>. QED BY <1>1, <1>2, <1>3 DEF Inv, TypeOK

LEMMA RemovedInv ==
  ASSUME Inv, NEW c \in Conns, ConnectionRemoved(c)
  PROVE  Inv'
<1>1. /\ handle[c] = "closing"
      /\ c \notin shutdowns
      /\ \A r \in Requests : writes[r] # c
      /\ SetHandle(c, "gone")
      /\ clients' = clients \ {c}
      /\ connections' = connections \ {c}
      /\ told' \in Packets
      /\ UNCHANGED <<server, listening, outgoing, reading, writes, shutdowns,
                     over, crashed>>
  BY DEF ConnectionRemoved, Idle, Tell, Packets, Defined, listener
<1>2. /\ handle' \in [Conns -> HandleStates]
      /\ handle'[c] = "gone"
      /\ \A x \in Conns : x # c => handle'[x] = handle[x]
  BY <1>1, HandleChange DEF Inv, HandleStates
<1>3. TypeOK'
  BY <1>1, <1>2 DEF Inv, TypeOK
<1>. QED BY <1>1, <1>2, <1>3 DEF Inv, TypeOK

\* The steps that leave sockets and tables alone.
LEMMA QuietInv ==
  ASSUME Inv, UNCHANGED <<handle, tables>>,
         \/ Listen
         \/ \E c \in Conns : \/ DataReceived(c)
                             \/ ReceiveFails(c)
                             \/ \E r \in Requests : SendData(c, r)
                             \/ SendDataLate(c)
                             \/ ShutdownSender(c)
                             \/ SenderShutdown(c)
                             \/ ConnectionRemovedLate(c)
         \/ \E r \in Requests : DataSent(r)
  PROVE  Inv'
<1>. USE DEF Inv, TypeOK, Defined, Crash, Tell, Packets, listener, sockets,
             tables, history
<1>1. CASE Listen
  BY <1>1 DEF Listen
<1>2. ASSUME NEW c \in Conns, DataReceived(c)
      PROVE  Inv'
  BY <1>2 DEF DataReceived
<1>3. ASSUME NEW c \in Conns, ReceiveFails(c)
      PROVE  Inv'
  BY <1>3 DEF ReceiveFails
<1>4. ASSUME NEW c \in Conns, NEW r \in Requests, SendData(c, r)
      PROVE  Inv'
  BY <1>4, RequestsAssumption DEF SendData
<1>5. ASSUME NEW c \in Conns,
             SendDataLate(c) \/ SenderShutdown(c) \/ ConnectionRemovedLate(c)
      PROVE  Inv'
  <2>1. /\ crashed' = TRUE
        /\ UNCHANGED <<server, listening, handle, outgoing, reading, connections,
                       clients, writes, shutdowns, told, over>>
    BY <1>5 DEF SendDataLate, SenderShutdown, ConnectionRemovedLate
  <2>2. crashed' \in BOOLEAN
    BY <2>1
  <2>. QED BY <2>1, <2>2
<1>6. ASSUME NEW c \in Conns, ShutdownSender(c)
      PROVE  Inv'
  BY <1>6 DEF ShutdownSender
<1>7. ASSUME NEW r \in Requests, DataSent(r)
      PROVE  Inv'
  BY <1>7, RequestsAssumption DEF DataSent
<1>. QED BY <1>1, <1>2, <1>3, <1>4, <1>5, <1>6, <1>7

\* disconnect() of a socket that is closing changes nothing but the process.
LEMMA DisconnectInv ==
  ASSUME Inv, NEW c \in Conns, Disconnect(c)
  PROVE  Inv'
<1>1. CASE handle[c] = "open" /\ Defined /\ UvClose(c) /\ End(c)
  BY <1>1, EndingInv DEF Disconnect
<1>2. CASE handle[c] = "closing" /\ Crash /\ UNCHANGED <<handle, reading, history>>
  <2>1. /\ crashed' = TRUE
        /\ UNCHANGED <<server, listening, handle, outgoing, reading, connections,
                       clients, writes, shutdowns, told, over>>
    BY <1>2 DEF Disconnect, Crash, listener, tables, history
  <2>2. crashed' \in BOOLEAN
    BY <2>1
  <2>. QED BY <2>1, <2>2 DEF Inv, TypeOK
<1>. QED BY <1>1, <1>2 DEF Disconnect

LEMMA NextInv == Inv /\ [Next]_vars => Inv'
<1>. SUFFICES ASSUME Inv, [Next]_vars PROVE Inv'
  OBVIOUS
<1>1. CASE Listen
  BY <1>1, QuietInv DEF Listen, sockets
<1>2. ASSUME NEW c \in Conns,
             \/ Accept(c) \/ ReadStartFails(c) \/ Connected(c)
             \/ AcceptFails(c) \/ Connect(c) \/ ConnectFails(c)
      PROVE  Inv'
  BY <1>2, ArrivalInv, StrangerInv
<1>3. ASSUME NEW c \in Conns, DataReceived(c)
      PROVE  Inv'
  BY <1>3, QuietInv DEF DataReceived, sockets
<1>4. ASSUME NEW c \in Conns, ReceiveFails(c)
      PROVE  Inv'
  BY <1>4, QuietInv DEF ReceiveFails
<1>5. ASSUME NEW c \in Conns, StreamEnded(c)
      PROVE  Inv'
  <2>1. handle[c] = "open"
    BY <1>5 DEF StreamEnded, Inv
  <2>. QED BY <1>5, <2>1, EndingInv DEF StreamEnded
<1>6. ASSUME NEW c \in Conns, NEW r \in Requests, SendData(c, r)
      PROVE  Inv'
  BY <1>6, QuietInv DEF SendData, sockets
<1>7. ASSUME NEW c \in Conns,
             \/ SendDataLate(c) \/ ShutdownSender(c) \/ SenderShutdown(c)
             \/ ConnectionRemovedLate(c)
      PROVE  Inv'
  BY <1>7, QuietInv
     DEF SendDataLate, ShutdownSender, SenderShutdown, ConnectionRemovedLate, sockets
<1>8. ASSUME NEW c \in Conns, Disconnect(c) \/ ConnectionRemoved(c)
      PROVE  Inv'
  BY <1>8, DisconnectInv, RemovedInv
<1>9. ASSUME NEW r \in Requests, DataSent(r)
      PROVE  Inv'
  BY <1>9, QuietInv DEF DataSent, sockets
<1>10. CASE UNCHANGED vars
  BY <1>10 DEF vars, Inv, TypeOK, listener, sockets, tables, history
<1>. QED
  BY <1>1, <1>2, <1>3, <1>4, <1>5, <1>6, <1>7, <1>8, <1>9, <1>10
     DEF Next, Callback

LEMMA InvHolds == Spec => []Inv
BY InitInv, NextInv, PTL DEF Spec

-----------------------------------------------------------------------------
(* Every variable keeps its type; the group knows an address it listens on *)
(* only if libuv listens.                                                  *)
THEOREM TypeCorrect == Spec => []TypeOK
<1>1. Inv => TypeOK
  BY DEF Inv
<1>. QED BY <1>1, InvHolds, PTL

(* Whatever libuv calls back about is in both tables.                      *)
THEOREM TablesAlwaysAgree == Spec => []TablesAgree
<1>1. Inv => TablesAgree
  BY DEF Inv, TypeOK, TablesAgree
<1>. QED BY <1>1, InvHolds, PTL

-----------------------------------------------------------------------------
(* What the end of a connection rests on. *)

\* A connection that one side has ended is on its way out, or gone.
EndedIsLeaving ==
  \A c \in over : handle[c] = "gone" \/ (handle[c] = "closing" /\ c \in clients)

\* The writes libuv still has to finish for c.
Pending(c) == {r \in Requests : writes[r] = c}

\* While a connection closes nothing more is asked of libuv for it, and it
\* ends only when nothing is left.
ClosingDrains ==
  [][\A c \in Conns :
       handle[c] = "closing" =>
         /\ Pending(c)' \subseteq Pending(c)
         /\ c \in shutdowns' => c \in shutdowns
         /\ \/ handle'[c] = "closing"
            \/ handle'[c] = "gone" /\ Idle(c)]_vars

\* A socket that closes never opens again, and what one side has ended
\* closes.
SocketEnds ==
  /\ \A c \in Conns : handle[c] = "closing" => handle'[c] \in {"closing", "gone"}
  /\ \A c \in Conns : handle[c] = "gone" => handle'[c] = "gone"
  /\ \A c \in over' : c \in over \/ handle'[c] = "closing"

LEMMA StepSocketEnds ==
  ASSUME Inv, [Next]_vars
  PROVE  SocketEnds
<1>1. ASSUME NEW c \in Conns, NEW s \in HandleStates, SetHandle(c, s),
             \/ handle[c] \in {"none", "connecting"}
             \/ handle[c] = "open" /\ s = "closing"
             \/ handle[c] = "closing" /\ s = "gone",
             UNCHANGED over \/ (End(c) /\ s = "closing")
      PROVE  SocketEnds
  <2>1. /\ handle'[c] = s
        /\ \A x \in Conns : x # c => handle'[x] = handle[x]
    BY <1>1, HandleChange DEF Inv
  <2>2. \A x \in over' : x \in over \/ (x = c /\ s = "closing")
    BY <1>1 DEF End
  <2>. QED BY <1>1, <2>1, <2>2 DEF SocketEnds
<1>2. ASSUME UNCHANGED <<handle, over>> PROVE SocketEnds
  BY <1>2 DEF SocketEnds
<1>3. ASSUME NEW c \in Conns, Accept(c) \/ Connected(c) PROVE SocketEnds
  BY <1>1, <1>3 DEF Accept, Connected, Tell, HandleStates
<1>4. ASSUME NEW c \in Conns, ReadStartFails(c) PROVE SocketEnds
  BY <1>1, <1>4 DEF ReadStartFails, UvClose, Tell, HandleStates
<1>5. ASSUME NEW c \in Conns, AcceptFails(c) \/ Connect(c) \/ ConnectFails(c)
      PROVE  SocketEnds
  BY <1>1, <1>5 DEF AcceptFails, Connect, ConnectFails, history, HandleStates
<1>6. ASSUME NEW c \in Conns, StreamEnded(c) PROVE SocketEnds
  BY <1>1, <1>6 DEF StreamEnded, UvClose, Inv, HandleStates
<1>7. ASSUME NEW c \in Conns, Disconnect(c) PROVE SocketEnds
  BY <1>1, <1>2, <1>7 DEF Disconnect, UvClose, history, HandleStates
<1>8. ASSUME NEW c \in Conns, ConnectionRemoved(c) PROVE SocketEnds
  BY <1>1, <1>8 DEF ConnectionRemoved, Tell, HandleStates
<1>9. ASSUME \/ Listen
             \/ \E c \in Conns :
                  \/ DataReceived(c) \/ ReceiveFails(c)
                  \/ \E r \in Requests : SendData(c, r)
                  \/ SendDataLate(c) \/ ShutdownSender(c) \/ SenderShutdown(c)
                  \/ ConnectionRemovedLate(c)
             \/ \E r \in Requests : DataSent(r)
             \/ UNCHANGED vars
      PROVE  SocketEnds
  BY <1>2, <1>9
     DEF Listen, DataReceived, ReceiveFails, SendData, SendDataLate, ShutdownSender,
         SenderShutdown, ConnectionRemovedLate, DataSent, Tell, vars, history, sockets
<1>. QED BY <1>3, <1>4, <1>5, <1>6, <1>7, <1>8, <1>9 DEF Next, Callback

(* A connection that the other side has ended, or the graph, never comes   *)
(* back to life: until it is gone its socket is closing and in both        *)
(* tables, where the last callback looks for it.                           *)
THEOREM EndedConnectionsLeave == Spec => []EndedIsLeaving
<1>1. Init => EndedIsLeaving
  BY DEF Init, EndedIsLeaving
<1>2. Inv /\ Inv' /\ EndedIsLeaving /\ [Next]_vars => EndedIsLeaving'
  <2>. SUFFICES ASSUME Inv, Inv', EndedIsLeaving, [Next]_vars, NEW c \in over'
                PROVE  \/ handle'[c] = "gone"
                       \/ handle'[c] = "closing" /\ c \in clients'
    BY DEF EndedIsLeaving
  <2>1. c \in Conns
    BY DEF Inv, TypeOK
  <2>2. handle'[c] \in {"closing", "gone"}
    BY <2>1, StepSocketEnds DEF SocketEnds, EndedIsLeaving
  <2>. QED BY <2>1, <2>2 DEF Inv
<1>. QED BY <1>1, <1>2, InvHolds, PTL DEF Spec

LEMMA StepClosingDrains ==
  ASSUME Inv, [Next]_vars, NEW c \in Conns, handle[c] = "closing"
  PROVE  /\ Pending(c)' \subseteq Pending(c)
         /\ c \in shutdowns' => c \in shutdowns
         /\ handle'[c] = "closing" \/ (handle'[c] = "gone" /\ Idle(c))
<1>1. /\ \A r \in Requests : writes'[r] = c => writes[r] = c
      /\ c \in shutdowns' => c \in shutdowns
  <2>1. ASSUME NEW x \in Conns, NEW r \in Requests, SendData(x, r)
        PROVE  /\ \A q \in Requests : writes'[q] = c => writes[q] = c
               /\ shutdowns' = shutdowns
    <3>1. \/ x # c /\ writes' = [writes EXCEPT ![r] = x]
          \/ writes' = [writes EXCEPT ![r] = "lost"]
      BY <2>1 DEF SendData
    <3>. QED BY <2>1, <3>1, RequestsAssumption DEF SendData, Inv, TypeOK
  <2>2. ASSUME NEW r \in Requests, DataSent(r)
        PROVE  /\ \A q \in Requests : writes'[q] = c => writes[q] = c
               /\ shutdowns' = shutdowns
    BY <2>2, RequestsAssumption DEF DataSent, Inv, TypeOK
  <2>3. ASSUME NEW x \in Conns, ShutdownSender(x)
        PROVE  writes' = writes /\ (c \in shutdowns' => c \in shutdowns)
    BY <2>3 DEF ShutdownSender
  <2>4. ASSUME \/ Listen
               \/ \E x \in Conns :
                    \/ Accept(x) \/ AcceptFails(x) \/ ReadStartFails(x) \/ Connect(x)
                    \/ Connected(x) \/ ConnectFails(x) \/ DataReceived(x)
                    \/ StreamEnded(x) \/ ReceiveFails(x) \/ SendDataLate(x)
                    \/ Disconnect(x) \/ Callback(x)
               \/ UNCHANGED vars
        PROVE  UNCHANGED <<writes, shutdowns>>
    BY <2>4
       DEF Listen, Accept, AcceptFails, ReadStartFails, Connect, Connected, ConnectFails,
           DataReceived, StreamEnded, ReceiveFails, SendDataLate, Disconnect, Callback,
           SenderShutdown, ConnectionRemovedLate, ConnectionRemoved, vars
  <2>. QED BY <2>1, <2>2, <2>3, <2>4 DEF Next
<1>2. Pending(c)' \subseteq Pending(c)
  BY <1>1 DEF Pending
<1>3. handle'[c] \in {"closing", "gone"}
  BY StepSocketEnds DEF SocketEnds
<1>4. ASSUME handle'[c] = "gone" PROVE Idle(c)
  <2>1. ConnectionRemoved(c)
    <3>1. ASSUME NEW x \in Conns, NEW s \in HandleStates, SetHandle(x, s), s # "gone"
          PROVE  FALSE
      BY <1>4, <3>1, HandleChange DEF Inv
    <3>2. ASSUME NEW x \in Conns,
                 \/ Accept(x) \/ AcceptFails(x) \/ ReadStartFails(x) \/ Connect(x)
                 \/ Connected(x) \/ ConnectFails(x) \/ StreamEnded(x)
          PROVE  FALSE
      BY <3>1, <3>2
         DEF Accept, AcceptFails, ReadStartFails, Connect, Connected, ConnectFails,
             StreamEnded, UvClose, HandleStates
    <3>3. ASSUME UNCHANGED handle PROVE FALSE
      BY <1>4, <3>3
    <3>4. ASSUME NEW x \in Conns, Disconnect(x) PROVE FALSE
      BY <3>1, <3>3, <3>4 DEF Disconnect, UvClose, HandleStates
    <3>5. ASSUME NEW x \in Conns, ConnectionRemoved(x) PROVE x = c
      BY <1>4, <3>5, HandleChange DEF ConnectionRemoved, Inv, HandleStates
    <3>6. ASSUME \/ Listen
                 \/ \E x \in Conns :
                      \/ DataReceived(x) \/ ReceiveFails(x)
                      \/ \E r \in Requests : SendData(x, r)
                      \/ SendDataLate(x) \/ ShutdownSender(x) \/ SenderShutdown(x)
                      \/ ConnectionRemovedLate(x)
                 \/ \E r \in Requests : DataSent(r)
                 \/ UNCHANGED vars
          PROVE  FALSE
      BY <3>3, <3>6
         DEF Listen, DataReceived, ReceiveFails, SendData, SendDataLate, ShutdownSender,
             SenderShutdown, ConnectionRemovedLate, DataSent, vars, sockets
    <3>. QED BY <3>2, <3>4, <3>5, <3>6 DEF Next, Callback
  <2>. QED BY <2>1 DEF ConnectionRemoved
<1>. QED BY <1>1, <1>2, <1>3, <1>4

(* Once a connection is closing no write and no shutdown is added to what  *)
(* libuv has to finish for it, and it is reported closed only when none is *)
(* left: the wait for the end is a wait for what was there when it began.  *)
THEOREM ClosingOnlyDrains == Spec => ClosingDrains
<1>1. Inv /\ [Next]_vars =>
        [\A c \in Conns :
           handle[c] = "closing" =>
             /\ Pending(c)' \subseteq Pending(c)
             /\ c \in shutdowns' => c \in shutdowns
             /\ \/ handle'[c] = "closing"
                \/ handle'[c] = "gone" /\ Idle(c)]_vars
  BY StepClosingDrains
<1>. QED BY <1>1, InvHolds, PTL DEF Spec, ClosingDrains

-----------------------------------------------------------------------------
(* The refinement. *)

\* The life of a connection follows from its socket.
LifeBySocket ==
  [c \in Conns |->
     CASE handle[c] = "open"    -> "open"
       [] handle[c] = "closing" -> "leaving"
       [] handle[c] = "gone"    -> "closed"
       [] OTHER                 -> "unknown"]

LEMMA LifeIsSocket ==
  ASSUME Inv
  PROVE  [c \in Conns |-> LifeOf(c)] = LifeBySocket
BY DEF Inv, TypeOK, HandleStates, LifeOf, LifeBySocket

\* A socket's change is a change of that one life.
LEMMA LifeChange ==
  ASSUME Inv, NEW c \in Conns, NEW s \in HandleStates, SetHandle(c, s),
         NEW l, l = CASE s = "open"    -> "open"
                      [] s = "closing" -> "leaving"
                      [] s = "gone"    -> "closed"
                      [] OTHER         -> "unknown"
  PROVE  LifeBySocket' = [LifeBySocket EXCEPT ![c] = l]
<1>1. /\ handle'[c] = s
      /\ \A x \in Conns : x # c => handle'[x] = handle[x]
  BY HandleChange DEF Inv
<1>. QED BY <1>1 DEF LifeBySocket

\* One life changes from one state to another.
LEMMA LifeBecomes ==
  ASSUME Inv, Inv', NEW c \in Conns, NEW s \in HandleStates, SetHandle(c, s),
         NEW from, LifeBySocket[c] = from,
         NEW to, to = CASE s = "open"    -> "open"
                        [] s = "closing" -> "leaving"
                        [] s = "gone"    -> "closed"
                        [] OTHER         -> "unknown"
  PROVE  Life!Become(c, from, to)
<1>1. [x \in Conns |-> LifeOf(x)]' = LifeBySocket'
  BY LifeIsSocket DEF LifeOf, LifeBySocket, Inv, TypeOK, HandleStates
<1>2. LifeBySocket' = [LifeBySocket EXCEPT ![c] = to]
  BY LifeChange
<1>. QED BY <1>1, <1>2, LifeIsSocket DEF Life!Become

LEMMA LifeStays ==
  ASSUME Inv, Inv', UNCHANGED handle
  PROVE  UNCHANGED [c \in Conns |-> LifeOf(c)]
<1>1. [x \in Conns |-> LifeOf(x)]' = LifeBySocket'
  BY LifeIsSocket DEF LifeOf, LifeBySocket, Inv, TypeOK, HandleStates
<1>. QED BY <1>1, LifeIsSocket DEF LifeBySocket

LEMMA LifeValue ==
  ASSUME Inv, NEW c \in Conns
  PROVE  [x \in Conns |-> LifeOf(x)][c] = LifeBySocket[c]
BY LifeIsSocket

LEMMA InitLife == Init => Life!Init
BY RequestsAssumption
   DEF Init, Life!Init, LifeOf, Nothing, Life!Packets

LEMMA StepLife ==
  ASSUME Inv, Inv', [Next]_vars
  PROVE  [Life!Next]_<<[c \in Conns |-> LifeOf(c)], told>>
<1>. USE DEF HandleStates
<1>1. ASSUME NEW c \in Conns, Accept(c) \/ Connected(c)
      PROVE  Life!Open(c)
  <2>1. handle[c] \in {"none", "connecting"} /\ SetHandle(c, "open")
    BY <1>1 DEF Accept, Connected
  <2>2. LifeBySocket[c] = "unknown"
    BY <2>1 DEF LifeBySocket
  <2>3. Life!Become(c, "unknown", "open")
    BY <2>1, <2>2, LifeBecomes
  <2>. QED BY <1>1, <2>3 DEF Accept, Connected, Tell, Life!Open, Life!Tell
<1>2. ASSUME NEW c \in Conns, ReadStartFails(c)
      PROVE  Life!Reject(c)
  <2>1. handle[c] = "none" /\ SetHandle(c, "closing")
    BY <1>2 DEF ReadStartFails, UvClose
  <2>2. LifeBySocket[c] = "unknown"
    BY <2>1 DEF LifeBySocket
  <2>3. Life!Become(c, "unknown", "leaving")
    BY <2>1, <2>2, LifeBecomes
  <2>. QED BY <1>2, <2>3 DEF ReadStartFails, Tell, Life!Reject, Life!Tell
<1>3. ASSUME NEW c \in Conns, handle[c] = "open", UvClose(c), End(c)
      PROVE  Life!Leave(c)
  <2>1. LifeBySocket[c] = "open" /\ SetHandle(c, "closing")
    BY <1>3 DEF LifeBySocket, UvClose
  <2>2. Life!Become(c, "open", "leaving")
    BY <2>1, LifeBecomes
  <2>. QED BY <1>3, <2>2 DEF End, Life!Leave
<1>4. ASSUME NEW c \in Conns, ConnectionRemoved(c)
      PROVE  Life!Close(c)
  <2>1. handle[c] = "closing" /\ SetHandle(c, "gone")
    BY <1>4 DEF ConnectionRemoved
  <2>2. LifeBySocket[c] = "leaving"
    BY <2>1 DEF LifeBySocket
  <2>3. Life!Become(c, "leaving", "closed")
    BY <2>1, <2>2, LifeBecomes
  <2>. QED BY <1>4, <2>3 DEF ConnectionRemoved, Tell, Life!Close, Life!Tell
<1>5. ASSUME NEW c \in Conns, DataReceived(c)
      PROVE  Life!Receive(c)
  <2>1. handle[c] = "open" /\ UNCHANGED handle
    BY <1>5 DEF DataReceived, Inv, sockets
  <2>2. LifeBySocket[c] = "open"
    BY <2>1 DEF LifeBySocket
  <2>3. Life!Become(c, "open", "open")
    BY <2>1, <2>2, LifeStays, LifeValue DEF Life!Become
  <2>. QED BY <1>5, <2>3 DEF DataReceived, Tell, Life!Receive, Life!Tell
<1>6. ASSUME NEW c \in Conns, Tell(c, "error"), UNCHANGED handle, c \in clients
      PROVE  Life!Fail(c)
  <2>1. LifeBySocket[c] \in {"open", "leaving"}
    BY <1>6 DEF LifeBySocket, Inv
  <2>. QED BY <1>6, <2>1, LifeStays, LifeValue DEF Tell, Life!Fail, Life!Tell
<1>7. ASSUME UNCHANGED <<handle, told>>
      PROVE  UNCHANGED <<[c \in Conns |-> LifeOf(c)], told>>
  BY <1>7, LifeStays
<1>8. ASSUME NEW c \in Conns, NEW s \in {"dropped", "connecting"},
             handle[c] \in {"none", "connecting"}, SetHandle(c, s), UNCHANGED told
      PROVE  UNCHANGED <<[x \in Conns |-> LifeOf(x)], told>>
  <2>1. LifeBySocket[c] = "unknown"
    BY <1>8 DEF LifeBySocket
  <2>2. Life!Become(c, "unknown", "unknown")
    BY <1>8, <2>1, LifeBecomes
  <2>. QED BY <1>8, <2>2 DEF Life!Become
<1>9. ASSUME NEW c \in Conns, AcceptFails(c) \/ Connect(c) \/ ConnectFails(c)
      PROVE  UNCHANGED <<[x \in Conns |-> LifeOf(x)], told>>
  BY <1>8, <1>9 DEF AcceptFails, Connect, ConnectFails, history
<1>10. ASSUME NEW c \in Conns, Disconnect(c)
       PROVE  Life!Leave(c) \/ UNCHANGED <<[x \in Conns |-> LifeOf(x)], told>>
  BY <1>3, <1>7, <1>10 DEF Disconnect, history
<1>11. ASSUME NEW c \in Conns, StreamEnded(c)
       PROVE  Life!Leave(c)
  BY <1>3, <1>11 DEF StreamEnded, Inv
<1>12. ASSUME NEW c \in Conns, ReceiveFails(c)
       PROVE  Life!Fail(c)
  BY <1>6, <1>12 DEF ReceiveFails, Inv
<1>13. ASSUME NEW c \in Conns, ShutdownSender(c)
       PROVE  Life!Fail(c) \/ UNCHANGED <<[x \in Conns |-> LifeOf(x)], told>>
  BY <1>6, <1>7, <1>13 DEF ShutdownSender, Inv, history, sockets
<1>14. ASSUME \/ Listen
              \/ \E c \in Conns : \/ \E r \in Requests : SendData(c, r)
                                  \/ SendDataLate(c)
                                  \/ SenderShutdown(c)
                                  \/ ConnectionRemovedLate(c)
              \/ \E r \in Requests : DataSent(r)
              \/ UNCHANGED vars
       PROVE  UNCHANGED <<[c \in Conns |-> LifeOf(c)], told>>
  BY <1>7, <1>14
     DEF Listen, SendData, SendDataLate, SenderShutdown, ConnectionRemovedLate,
         DataSent, vars, history, sockets
<1>15. ASSUME NEW c \in Conns,
              \/ Life!Open(c) \/ Life!Receive(c) \/ Life!Fail(c)
              \/ Life!Leave(c) \/ Life!Reject(c) \/ Life!Close(c)
       PROVE  Life!Next
  BY <1>15 DEF Life!Next
<1>. QED
  BY <1>1, <1>2, <1>4, <1>5, <1>9, <1>10, <1>11, <1>12, <1>13, <1>14, <1>15
     DEF Next, Callback

(* What the graph is told of a connection is a life as ConnectionLife has  *)
(* it: announced once, data in between, closed once and last.              *)
THEOREM Refinement == Spec => ImplementsLife
<1>1. Init => Life!Init
  BY InitLife
<1>2. Inv /\ Inv' /\ [Next]_vars
        => [Life!Next]_<<[c \in Conns |-> LifeOf(c)], told>>
  BY StepLife
<1>. QED BY <1>1, <1>2, InvHolds, PTL DEF Spec, ImplementsLife, Life!Spec
=============================================================================

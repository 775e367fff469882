---------------------------- MODULE TcpConnections ----------------------------
(***************************************************************************)
(* The TCP group (src/nodes/UvTcpConnectionGroup.cpp): the connections it  *)
(* keeps in two tables, between the packets on its interfaces and libuv's  *)
(* callbacks.  All of it runs on the thread of one uv loop, and whatever   *)
(* the code pushes it pushes last, so that a handler that answers with a   *)
(* packet to the group is a step of its own.                               *)
(*                                                                         *)
(* Addresses, data and the text of errors are left out.  A packet may be   *)
(* about any connection the graph was ever told of: it may have waited in  *)
(* a queue while the connection went.                                      *)
(***************************************************************************)
EXTENDS Naturals, FiniteSets

CONSTANTS
  Conns,     \* connections, and their uv_tcp_t
  Requests,  \* the write requests there can be: a bound
  Pool       \* where an unused request is, in mUvWriteTPool or on the heap

ASSUME RequestsAssumption ==
  Conns \cap {Pool, "lost"} = {}

VARIABLES
  server,       \* mTcpServer: "idle", "bound" or "listening"
  listening,    \* mListeningAddressPortPair is not empty
  handle,       \* what libuv has of each connection's uv_tcp_t
  outgoing,     \* the connections connect() made
  reading,      \* those libuv reads from
  connections,  \* keys of mConnections
  clients,      \* keys of mUvClientToConnection
  writes,       \* where each write request is
  shutdowns,    \* the connections with a pending uv_shutdown()
  crashed,      \* the process is gone
  told,         \* history: the last packet about a connection
  over          \* history: the connections one side has ended

listener == <<server, listening>>
sockets  == <<handle, outgoing, reading>>
tables   == <<connections, clients>>
history  == <<told, over>>
vars == <<listener, sockets, tables, writes, shutdowns, crashed, history>>

Packets == [conn : Conns, what : {"opened", "data", "error", "closed"}]
Nothing == [conn |-> Pool, what |-> "nothing"]

\* "dropped" is freed without the graph having heard of it.
HandleStates == {"none", "connecting", "open", "closing", "gone", "dropped"}

Init ==
  /\ server = "idle"
  /\ listening = FALSE
  /\ handle = [c \in Conns |-> "none"]
  /\ outgoing = {}
  /\ reading = {}
  /\ connections = {}
  /\ clients = {}
  /\ writes = [r \in Requests |-> Pool]
  /\ shutdowns = {}
  /\ crashed = FALSE
  /\ told = Nothing
  /\ over = {}

\* Undefined behaviour is a step after which the process may be gone.
Defined   == ~ crashed /\ UNCHANGED crashed
Undefined == ~ crashed /\ crashed' \in BOOLEAN
Crash     == ~ crashed /\ crashed' = TRUE

Tell(c, what) == told' = [conn |-> c, what |-> what] /\ UNCHANGED over
End(c)        == over' = over \cup {c} /\ UNCHANGED told

SetHandle(c, state) == handle' = [handle EXCEPT ![c] = state]

\* libuv stops reading as it closes a handle, or reaches the end of it.
UvClose(c) == SetHandle(c, "closing") /\ reading' = reading \ {c}

\* A fault: the socket is not noted.
RememberById(c) ==
  /\ connections' = connections \cup {c}
  /\ UNCHANGED clients

Remember(c) ==
  /\ connections' = connections \cup {c}
  /\ clients' = clients \cup {c}

\* The graph has been told of c at some time.
Known(c) == handle[c] \in {"open", "closing", "gone"}

-----------------------------------------------------------------------------
\* A fault: the address is noted before uv_listen() has been asked.
ListenNotedEarly ==
  /\ Defined
  /\ server = "idle"
  /\ server' \in {"bound", "listening"}
  /\ listening' = TRUE
  /\ UNCHANGED <<sockets, tables, writes, shutdowns, history>>

\* UvTcpImpl::listen().  A port that is bound stays bound, so that trying
\* again fails, and a server that cannot name itself listens all the same.
Listen ==
  /\ Defined
  /\ server = "idle"
  /\ server' \in {"bound", "listening"}
  /\ listening' \in {FALSE, server' = "listening"}
  /\ UNCHANGED <<sockets, tables, writes, shutdowns, history>>

\* onNewIncomingConnection().  A uv_tcp_t that was initialised is freed
\* without uv_close() when accepting or naming it fails.
Accept(c) ==
  /\ Defined
  /\ handle[c] = "none"
  /\ server = "listening"
  /\ Remember(c)
  /\ SetHandle(c, "open")
  /\ reading' = reading \cup {c}
  /\ Tell(c, "opened")
  /\ UNCHANGED <<listener, outgoing, writes, shutdowns>>

AcceptFails(c) ==
  /\ Undefined
  /\ handle[c] = "none"
  /\ server = "listening"
  /\ SetHandle(c, "dropped")
  /\ UNCHANGED <<listener, outgoing, reading, tables, writes, shutdowns, history>>

\* A fault: the handler goes on when uv_read_start() has failed.
ReadStartFailsOn(c) ==
  /\ Defined
  /\ handle[c] = "none"
  /\ server = "listening"
  /\ Remember(c)
  /\ UvClose(c)
  /\ Tell(c, "opened")
  /\ UNCHANGED <<listener, outgoing, writes, shutdowns>>

ReadStartFails(c) ==
  /\ Defined
  /\ handle[c] = "none"
  /\ server = "listening"
  /\ Remember(c)
  /\ UvClose(c)
  /\ Tell(c, "error")
  /\ UNCHANGED <<listener, outgoing, writes, shutdowns>>

\* connect(): libuv is asked; when it refuses at once, the uv_tcp_t is freed
\* while its loop still knows it.
Connect(c) ==
  /\ handle[c] = "none"
  /\ \/ Defined /\ SetHandle(c, "connecting")
     \/ Undefined /\ SetHandle(c, "dropped")
  /\ outgoing' = outgoing \cup {c}
  /\ UNCHANGED <<listener, reading, tables, writes, shutdowns, history>>

\* onOutgoingConnectionEstablished(); nothing reads from the connection.
Connected(c) ==
  /\ Defined
  /\ handle[c] = "connecting"
  /\ Remember(c)
  /\ SetHandle(c, "open")
  /\ Tell(c, "opened")
  /\ UNCHANGED <<listener, outgoing, reading, writes, shutdowns>>

\* The same when connecting or naming the connection fails: the uv_connect_t
\* may be freed twice, and the uv_tcp_t is freed as soon as it is closing.
ConnectFails(c) ==
  /\ Undefined
  /\ handle[c] = "connecting"
  /\ SetHandle(c, "dropped")
  /\ UNCHANGED <<listener, outgoing, reading, tables, writes, shutdowns, history>>

-----------------------------------------------------------------------------
\* dataReceived() with data, at the end of the stream, and with an error:
\* libuv reads no further, and the connection stays.
DataReceived(c) ==
  /\ Defined
  /\ c \in reading
  /\ Tell(c, "data")
  /\ UNCHANGED <<listener, sockets, tables, writes, shutdowns>>

\* A fault: the end of the stream is left to the graph.
StreamLeftOpen(c) ==
  /\ Defined
  /\ c \in reading
  /\ reading' = reading \ {c}
  /\ End(c)
  /\ UNCHANGED <<listener, handle, outgoing, tables, writes, shutdowns>>

StreamEnded(c) ==
  /\ Defined
  /\ c \in reading
  /\ UvClose(c)
  /\ End(c)
  /\ UNCHANGED <<listener, outgoing, tables, writes, shutdowns>>

ReceiveFails(c) ==
  /\ Defined
  /\ c \in reading
  /\ reading' = reading \ {c}
  /\ Tell(c, "error")
  /\ UNCHANGED <<listener, handle, outgoing, tables, writes, shutdowns>>

\* sendData(): nobody looks whether uv_write() has taken the request, which
\* it never does once the socket is closing.
SendData(c, r) ==
  /\ Defined
  /\ c \in connections
  /\ writes[r] = Pool
  /\ \/ handle[c] = "open" /\ writes' = [writes EXCEPT ![r] = c]
     \/ writes' = [writes EXCEPT ![r] = "lost"]
  /\ UNCHANGED <<listener, sockets, tables, shutdowns, history>>

\* sendData() to a connection that has gone: operator[] makes an entry with
\* no socket, which uv_write() dereferences.
SendDataLate(c) ==
  /\ Crash
  /\ Known(c)
  /\ c \notin connections
  /\ UNCHANGED <<listener, sockets, tables, writes, shutdowns, history>>

\* onDataSent(), whatever the status.
DataSent(r) ==
  /\ Defined
  /\ writes[r] \in Conns
  /\ writes' = [writes EXCEPT ![r] = Pool]
  /\ UNCHANGED <<listener, sockets, tables, shutdowns, history>>

\* disconnect(); a connection that has gone is no step, and one that is
\* closing meets the assertion of uv_close().
Disconnect(c) ==
  /\ c \in connections
  /\ \/ handle[c] = "open" /\ Defined /\ UvClose(c) /\ End(c)
     \/ handle[c] = "closing" /\ Crash /\ UNCHANGED <<handle, reading, history>>
  /\ UNCHANGED <<listener, outgoing, tables, writes, shutdowns>>

\* shutdownSender(); libuv refuses a second time, and a socket that is
\* closing.
ShutdownSender(c) ==
  /\ Defined
  /\ c \in connections
  /\ \/ /\ handle[c] = "open"
        /\ c \notin shutdowns
        /\ shutdowns' = shutdowns \cup {c}
        /\ UNCHANGED history
     \/ Tell(c, "error") /\ UNCHANGED shutdowns
  /\ UNCHANGED <<listener, sockets, tables, writes>>

\* onSenderShutdownWrapper() finds the group in uv_shutdown_t::data, which
\* nobody has set; likewise onConnectionRemovedWrapper() for the connections
\* connect() made.
SenderShutdown(c) ==
  /\ Crash
  /\ c \in shutdowns
  /\ UNCHANGED <<listener, sockets, tables, writes, shutdowns, history>>

\* What libuv has been asked to do with c is done, or cancelled.
Idle(c) == c \notin shutdowns /\ \A r \in Requests : writes[r] # c

ConnectionRemovedLate(c) ==
  /\ Crash
  /\ handle[c] = "closing"
  /\ Idle(c)
  /\ c \in outgoing
  /\ UNCHANGED <<listener, sockets, tables, writes, shutdowns, history>>

\* onConnectionRemoved().
ConnectionRemoved(c) ==
  /\ Defined
  /\ handle[c] = "closing"
  /\ Idle(c)
  /\ c \notin outgoing
  /\ c \in clients
  /\ clients' = clients \ {c}
  /\ connections' = connections \ {c}
  /\ SetHandle(c, "gone")
  /\ Tell(c, "closed")
  /\ UNCHANGED <<listener, outgoing, reading, writes, shutdowns>>

\* What libuv's loop does once it can.
Callback(c) ==
  SenderShutdown(c) \/ ConnectionRemovedLate(c) \/ ConnectionRemoved(c)

Next ==
  \/ Listen
  \/ \E c \in Conns :
       \/ Accept(c)
       \/ AcceptFails(c)
       \/ ReadStartFails(c)
       \/ Connect(c)
       \/ Connected(c)
       \/ ConnectFails(c)
       \/ DataReceived(c)
       \/ StreamEnded(c)
       \/ ReceiveFails(c)
       \/ \E r \in Requests : SendData(c, r)
       \/ SendDataLate(c)
       \/ Disconnect(c)
       \/ ShutdownSender(c)
       \/ Callback(c)
  \/ \E r \in Requests : DataSent(r)

\* The loop runs as long as the process does.
Spec ==
  /\ Init
  /\ [][Next]_vars
  /\ \A c \in Conns : WF_vars(Callback(c))
  /\ \A r \in Requests : WF_vars(DataSent(r))

-----------------------------------------------------------------------------
TypeOK ==
  /\ server \in {"idle", "bound", "listening"}
  /\ listening \in BOOLEAN
  /\ listening => server = "listening"
  /\ handle \in [Conns -> HandleStates]
  /\ outgoing \subseteq Conns
  /\ reading \subseteq Conns
  /\ connections \subseteq Conns
  /\ clients \subseteq Conns
  /\ writes \in [Requests -> Conns \cup {Pool, "lost"}]
  /\ shutdowns \subseteq Conns
  /\ crashed \in BOOLEAN
  /\ told \in Packets \cup {Nothing}
  /\ over \subseteq Conns

(***************************************************************************)
(* The two tables hold the same connections, and only such as libuv still  *)
(* has; whatever libuv calls back about, a read, a write or a shutdown, is *)
(* found in them.                                                          *)
(***************************************************************************)
TablesAgree ==
  /\ connections = clients
  /\ \A c \in clients : handle[c] \in {"open", "closing"}
  /\ reading \cup shutdowns \subseteq clients
  /\ \A r \in Requests : writes[r] \in Conns => writes[r] \in clients

(***************************************************************************)
(* However a connection comes and goes, the graph hears of its end once,   *)
(* after all else, and of data only between its beginning and its end.     *)
(***************************************************************************)
LifeOf(c) ==
  IF c \in connections
  THEN IF handle[c] = "closing" THEN "leaving" ELSE "open"
  ELSE IF handle[c] = "gone" THEN "closed" ELSE "unknown"

Life == INSTANCE ConnectionLife WITH life <- [c \in Conns |-> LifeOf(c)]

ImplementsLife == Life!Spec

(***************************************************************************)
(* A connection that the other side has ended, or the graph, is reported   *)
(* closed in the end, unless the process crashes.                          *)
(***************************************************************************)
EndsAreReported ==
  \A c \in Conns : c \in over ~> (handle[c] = "gone" \/ crashed)
=============================================================================

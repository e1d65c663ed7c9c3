------------------------------- MODULE TcpServer ------------------------------
(***************************************************************************)
(* network/tcp_server.cpp on top of Socket, TcpConnection and EventHandler: *)
(* a caller constructs a server, calls init(), start() and the destructor, *)
(* and peers connect, send and leave while the one thread of the server    *)
(* runs init(), the event loop and on_connect() statement by statement.    *)
(*                                                                         *)
(* The thread pool of the scheduler gets no tasks; constructing it may     *)
(* fail, and destroying it returns (ThreadPool!DestructorReturns).         *)
(*                                                                         *)
(* Definitions called Bad... are mutated forms of the definition after     *)
(* them; no specification uses them.                                       *)
(***************************************************************************)
EXTENDS EventHandler, FiniteSets

CONSTANTS
  Server,     \* server_socket_
  NoConn,
  Peers,      \* the clients, fewer than the backlog of listen(10)
  NoPeer,
  MaxInits    \* bound on the calls of init()

ASSUME ServerAssumption ==
  /\ Server \in Sockets
  /\ NoConn \notin Conns
  /\ NoPeer \notin Peers
  /\ MaxInits \in Nat

VARIABLES
  pc,           \* where the thread of the server is
  result,       \* what the last init() returned
  inits,        \* how many times it was called
  conn,         \* the local variable of on_connect
  connections_, \* entries [fd, conn]
  kpeer,        \* the peer at the other end of a descriptor
  link,         \* what each peer has of a connection
  wire          \* what it has put on it that the server has not read

serverVars == <<pc, result, inits, conn, connections_>>
peerVars == <<kpeer, link, wire>>
vars == <<kernelVars, socketVars, connVars, eventVars, serverVars, peerVars>>

InitPc == {"i_nonblock", "i_bind", "i_listen", "i_register"}
ConnectPc == {"c_accept", "c_send", "c_register"}
TeardownPc == {"t_events", "t_connections", "t_socket"}

TypeOK ==
  /\ KernelTypeOK /\ SocketTypeOK /\ ConnTypeOK /\ EventTypeOK
  /\ pc \in {"ctor", "ready", "loop", "exited"} \cup InitPc \cup ConnectPc \cup TeardownPc
  /\ result \in {"none", "SUCCESS", "INTERNAL_ERR"}
  /\ inits \in 0 .. MaxInits
  /\ conn \in Conns \cup {NoConn}
  /\ connections_ \subseteq [fd : Fds \cup {NoFd}, conn : Conns]
  /\ kpeer \in [Fds -> Peers \cup {NoPeer}]
  /\ link \in [Peers -> {"off", "queued", "served", "gone"}]
  /\ wire \in [Peers -> {"quiet", "data", "fin", "rst"}]

Init ==
  /\ KernelInit /\ SocketInit /\ ConnInit /\ EventInit
  /\ pc = "ctor"
  /\ result = "none"
  /\ inits = 0
  /\ conn = NoConn
  /\ connections_ = {}
  /\ kpeer = [f \in Fds |-> NoPeer]
  /\ link = [p \in Peers |-> "off"]
  /\ wire = [p \in Peers |-> "quiet"]

Goto(l) == pc' = l

\* The peers that wait in the listen queue.
Queued == {p \in Peers : link[p] = "queued"}

-------------------------------------------------------------------------------
(* The peers. *)

PeerConnect(p) ==
  /\ link[p] = "off"
  /\ fd_[Server] # NoFd /\ kstate[fd_[Server]] = "listening"
  /\ link' = [link EXCEPT ![p] = "queued"]
  /\ UNCHANGED <<kpeer, wire>>

\* A peer may send, shut down or reset as soon as its side is connected,
\* whether or not the server has accepted it.
PeerSends(p, what) ==
  /\ link[p] \in {"queued", "served"}
  /\ \/ what = "data" /\ wire[p] = "quiet"
     \/ what = "fin" /\ wire[p] \in {"quiet", "data"}
     \/ what = "rst" /\ wire[p] \in {"quiet", "data", "fin"}
  /\ wire' = [wire EXCEPT ![p] = what]
  /\ UNCHANGED <<kpeer, link>>

\* A reset connection may also be taken off the listen queue.
PeerAborts(p) ==
  /\ link[p] = "queued"
  /\ link' = [link EXCEPT ![p] = "gone"]
  /\ wire' = [wire EXCEPT ![p] = "rst"]
  /\ UNCHANGED kpeer

PeerStep ==
  /\ \E p \in Peers : PeerConnect(p) \/ PeerAborts(p)
                      \/ \E what \in {"data", "fin", "rst"} : PeerSends(p, what)
  /\ UNCHANGED <<kernelVars, socketVars, connVars, eventVars, serverVars>>

-------------------------------------------------------------------------------
(* The constructor and init(). *)

Constructed ==
  /\ pc = "ctor"
  /\ CreateSocket(Server, "TCP")
  /\ Goto("ready")
  /\ UNCHANGED <<eventVars, result, inits, conn, connections_, peerVars>>

\* A thread of the pool could not be started, and nothing catches that.
ConstructorThrows ==
  /\ pc = "ctor"
  /\ Die("terminated")
  /\ UNCHANGED <<socketVars, connVars, eventVars, serverVars, peerVars>>

\* Going on after a call that returned r, or returning INTERNAL_ERR.
Continue(r, l) ==
  IF r = "SUCCESS"
  THEN Goto(l) /\ UNCHANGED result
  ELSE Goto("ready") /\ result' = "INTERNAL_ERR"

InitCalled ==
  /\ pc = "ready"
  /\ inits < MaxInits
  /\ inits' = inits + 1
  /\ \E f \in Fds \cup {NoFd}, r \in RtspStatus :
       OpenSocket(Server, f, r) /\ Continue(r, "i_nonblock")
  /\ UNCHANGED <<connVars, eventVars, conn, connections_, peerVars>>

InitNonBlock ==
  /\ pc = "i_nonblock"
  /\ \E r \in RtspStatus : SetNonBlock(Server, r) /\ Continue(r, "i_bind")
  /\ UNCHANGED <<connVars, eventVars, inits, conn, connections_, peerVars>>

InitBind ==
  /\ pc = "i_bind"
  /\ \E r \in RtspStatus : Bind(Server, r) /\ Continue(r, "i_listen")
  /\ UNCHANGED <<connVars, eventVars, inits, conn, connections_, peerVars>>

\* Goes on to register whatever listen() returned.
BadInitListen ==
  /\ pc = "i_listen"
  /\ \E r \in RtspStatus : Listen(Server, r)
  /\ Goto("i_register")
  /\ UNCHANGED <<connVars, eventVars, result, inits, conn, connections_, peerVars>>

InitListen ==
  /\ pc = "i_listen"
  /\ \E r \in RtspStatus : Listen(Server, r) /\ Continue(r, "i_register")
  /\ UNCHANGED <<connVars, eventVars, inits, conn, connections_, peerVars>>

\* The callbacks are set, and the event is registered.
InitRegister ==
  /\ pc = "i_register"
  /\ RegistEvent(fd_[Server])
  /\ result' = "SUCCESS"
  /\ Goto("ready")
  /\ UNCHANGED <<kernelVars, socketVars, connVars, inits, conn, connections_, peerVars>>

InitStep ==
  Constructed \/ InitNonBlock \/ InitBind \/ InitListen \/ InitRegister

-------------------------------------------------------------------------------
(* start(): the event loop. *)

Start ==
  /\ pc = "ready"
  /\ Goto("loop")
  /\ UNCHANGED <<kernelVars, socketVars, connVars, eventVars, result, inits, conn,
                 connections_, peerVars>>

\* event_base_loop returns.
LoopReturns ==
  /\ pc = "loop"
  /\ Goto("ready")
  /\ UNCHANGED <<kernelVars, socketVars, connVars, eventVars, result, inits, conn,
                 connections_, peerVars>>

LoopIdle == NothingToWaitFor /\ LoopReturns

\* The event is not persistent: it is gone when it has fired.
BadOnConnect ==
  /\ pc = "loop"
  /\ Watches(fd_[Server])
  /\ Queued # {}
  /\ \E c \in Conns : CreateConn(c) /\ conn' = c
  /\ Goto("c_accept")
  /\ events_' = {}
  /\ UNCHANGED <<buffer_events_, result, inits, connections_, peerVars>>

\* The listening descriptor is readable: on_connect begins with a new
\* connection.
OnConnect ==
  /\ pc = "loop"
  /\ Watches(fd_[Server])
  /\ Queued # {}
  /\ \E c \in Conns : CreateConn(c) /\ conn' = c
  /\ Goto("c_accept")
  /\ UNCHANGED <<eventVars, result, inits, connections_, peerVars>>

\* accept(2) waits when the descriptor blocks and nobody is in the queue.
Blocked ==
  pc = "c_accept" /\ CanAccept(Server) /\ Queued = {} /\ ~knonblock[fd_[Server]]

\* server_socket_->accept(conn), its result unused. A connection is taken off
\* the queue; or accept(2) fails, because there is none any more or no
\* descriptor is left, and the queue stays as it is.
OnConnectAccept ==
  /\ pc = "c_accept"
  /\ ~Blocked
  /\ \E n \in Sockets, f \in Fds \cup {NoFd}, r \in RtspStatus :
       /\ AcceptInto(Server, conn, n, f, r)
       /\ IF f = NoFd
          THEN UNCHANGED peerVars
          ELSE \E p \in Queued :
                 /\ link' = [link EXCEPT ![p] = "served"]
                 /\ kpeer' = [kpeer EXCEPT ![f] = p]
                 /\ UNCHANGED wire
  /\ Goto("c_send")
  /\ UNCHANGED <<eventVars, result, inits, conn, connections_>>

\* conn->send("Welcome to my server"), its result unused.
OnConnectSend ==
  /\ pc = "c_send"
  /\ \E n \in {-1, 1}, r \in RtspStatus : ConnSend(conn, 1, n, r)
  /\ Goto("c_register")
  /\ UNCHANGED <<eventVars, result, inits, conn, connections_, peerVars>>

\* ... on a connection that the peer has reset ...
OnConnectSigpipe ==
  /\ pc = "c_send"
  /\ \E f \in Fds :
       /\ socket_[conn] # NoSocket /\ fd_[socket_[conn]] = f
       /\ wire[kpeer[f]] = "rst"
  /\ ConnSendKilled(conn)
  /\ UNCHANGED <<eventVars, serverVars, peerVars>>

\* ... and on one that has no Socket, because accept() refused.
OnConnectNull ==
  /\ pc = "c_send"
  /\ NullSocketUsed(conn)
  /\ UNCHANGED <<eventVars, serverVars, peerVars>>

\* The connection is put into the table under a number it does not have.
BadOnConnectRegister ==
  /\ pc = "c_register"
  /\ connections_' = connections_ \cup {[fd |-> NoFd, conn |-> conn]}
  /\ RegisterIoEvent(fd_[socket_[conn]])
  /\ conn' = NoConn
  /\ Goto("loop")
  /\ UNCHANGED <<kernelVars, socketVars, connVars, result, inits, peerVars>>

\* connections_.insert, which keeps an entry that is there, and register_iotask.
\* A connection that did not get into the table is destroyed on return.
OnConnectRegister ==
  /\ pc = "c_register"
  /\ LET f == fd_[socket_[conn]]
     IN /\ RegisterIoEvent(f)
        /\ IF \E e \in connections_ : e.fd = f
           THEN DestroyConn(conn) /\ UNCHANGED connections_
           ELSE /\ connections_' = connections_ \cup {[fd |-> f, conn |-> conn]}
                /\ UNCHANGED <<kernelVars, socketVars, connVars>>
  /\ conn' = NoConn
  /\ Goto("loop")
  /\ UNCHANGED <<result, inits, peerVars>>

\* read_cb on data, error_cb on an end of file or a reset.
BufferCallback ==
  /\ pc = "loop"
  /\ \E b \in buffer_events_ :
       /\ Talks(b)
       /\ wire[kpeer[b.fd]] # "quiet"
       /\ CallbackFails(b)
  /\ UNCHANGED <<socketVars, connVars, eventVars, serverVars, peerVars>>

LoopStep ==
  \/ LoopIdle \/ OnConnect \/ BufferCallback
  \/ OnConnectAccept \/ OnConnectSend \/ OnConnectSigpipe \/ OnConnectNull
  \/ OnConnectRegister

-------------------------------------------------------------------------------
(* The destructor: its body is empty, the members go in reverse order. *)

Destroy ==
  /\ pc = "ready"
  /\ Goto("t_events")
  /\ UNCHANGED <<kernelVars, socketVars, connVars, eventVars, result, inits, conn,
                 connections_, peerVars>>

TeardownEvents ==
  /\ pc = "t_events"
  /\ DestroyEvents
  /\ Goto("t_connections")
  /\ UNCHANGED <<socketVars, connVars, result, inits, conn, connections_, peerVars>>

\* Drops the table without destroying what is in it.
BadTeardownConnections ==
  /\ pc = "t_connections"
  /\ Goto("t_socket")
  /\ connections_' = {}
  /\ UNCHANGED <<kernelVars, socketVars, connVars, eventVars, result, inits, conn, peerVars>>

TeardownConnections ==
  /\ pc = "t_connections"
  /\ IF connections_ = {}
     THEN /\ Goto("t_socket")
          /\ UNCHANGED <<kernelVars, socketVars, connVars, connections_>>
     ELSE \E e \in connections_ :
            /\ DestroyConn(e.conn)
            /\ connections_' = connections_ \ {e}
            /\ UNCHANGED pc
  /\ UNCHANGED <<eventVars, result, inits, conn, peerVars>>

TeardownSocket ==
  /\ pc = "t_socket"
  /\ DropHandle(Server)
  /\ Goto("exited")
  /\ UNCHANGED <<eventVars, result, inits, conn, connections_, peerVars>>

TeardownStep == TeardownEvents \/ TeardownConnections \/ TeardownSocket

-------------------------------------------------------------------------------

ServerStep == InitStep \/ LoopStep \/ TeardownStep

\* What the caller decides, and what goes wrong around it.
CallerStep == InitCalled \/ Start \/ LoopReturns \/ Destroy \/ ConstructorThrows

Over == pc = "exited" \/ proc # "running"

Next ==
  \/ ~Over /\ (ServerStep \/ CallerStep \/ PeerStep)
  \/ (Over \/ Blocked) /\ UNCHANGED vars

Spec == Init /\ [][Next]_vars

\* The thread of the server runs whenever it has something to do; the peers,
\* the caller and the failures of the loop owe nothing.
FairSpec == Spec /\ WF_vars(~Over /\ ServerStep)

-------------------------------------------------------------------------------
(* Properties. *)

Dead == proc # "running"
Serving == pc \notin TeardownPc \cup {"ctor", "exited"}

\* init() is all or nothing towards the loop: the listening descriptor is
\* watched if and only if some init() got to its end, and then the socket
\* behind it listens, whatever init() is called for afterwards.
InitSound ==
  Serving =>
    /\ result = "SUCCESS" => events_ # {}
    /\ events_ # {} =>
         /\ events_ = {fd_[Server]}
         /\ fd_[Server] # NoFd
         /\ kstate[fd_[Server]] = "listening"

\* The table, the connections and the buffer events agree: each entry is a
\* connection that exists with the descriptor it is filed under, a connection
\* is in the table or still in the hands of on_connect, and a descriptor with
\* a buffer event is that of an entry, so that it stays open while watched.
\* The table holds at most one entry, since the second accept is refused and
\* on_connect ends the process before it files another.
TableConsistent ==
  Serving =>
    /\ \A e \in connections_ :
         /\ e.conn \in conns
         /\ socket_[e.conn] # NoSocket
         /\ fd_[socket_[e.conn]] = e.fd
    /\ conns = {e.conn : e \in connections_} \cup ({conn} \ {NoConn})
    /\ {b.fd : b \in buffer_events_} = {e.fd : e \in connections_}

\* When the destructor has returned nothing is left open and no object is left,
\* whether or not the buffer event has closed the descriptor of its connection
\* before the Socket does. This is about leaks: what the second close of a
\* number would do to another thread's descriptor it does not say.
ExitClean ==
  pc = "exited" => /\ \A f \in Fds : kstate[f] = "free"
                   /\ conns = {} /\ handles = {}

\* An init() that failed after socket(2) had succeeded is final: the
\* descriptor stays, and no later init() of this server succeeds.
InitFailureFinal ==
  [](pc = "ready" /\ result = "INTERNAL_ERR" /\ fd_[Server] # NoFd
       => [](result # "SUCCESS"))

\* A client in the queue of a server that loops is taken up or has left,
\* unless the process dies or the loop ends.
ClientAnswered ==
  \A p \in Peers :
    pc = "loop" /\ events_ # {} /\ link[p] = "queued"
      ~> link[p] # "queued" \/ Dead \/ pc = "ready"

\* "TCP server err : set socket non block failed" (tcp_server.cpp:33) is how
\* init() is to end when the socket blocks: one that returned SUCCESS has a
\* socket that does not.
NonBlockingWhenReady ==
  Serving /\ result = "SUCCESS" => knonblock[fd_[Server]]

\* test/client.c:35-48 reads the greeting, sends "Helloworld" and shuts down,
\* and test/eventtest.c:82 has the buffer passed to the callbacks as their
\* argument: one client that does this much leaves the server running.
SurvivesOneClient ==
  Cardinality({p \in Peers : link[p] # "off"}) <= 1 => proc # "segv"

\* test/eventtest.c:126 makes the accepting event persistent to listen for the
\* clients that connect: clients that only connect leave the server running.
SurvivesQuietClients ==
  (\A p \in Peers : wire[p] = "quiet") => proc # "segv"
===============================================================================

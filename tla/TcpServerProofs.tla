---------------------------- MODULE TcpServerProofs ----------------------------
(***************************************************************************)
(* Proofs about TcpServer: for any number of clients, connections, sockets *)
(* and descriptors, the event loop, the table of connections and the       *)
(* objects agree, and the destructor closes everything.                    *)
(***************************************************************************)
EXTENDS TcpServer, TcpConnectionProofs

\* From the destruction of the events on, descriptors that libevent closed are
\* still held by Sockets.
Down == pc \in {"t_connections", "t_socket", "exited"}

\* What DescriptorOwned says of descriptors that libevent may have closed.
Owned ==
  /\ \A s \in Sockets : fd_[s] # NoFd => Live(s)
  /\ \A f \in Fds : kstate[f] # "free" => \E s \in Sockets : fd_[s] = f
  /\ \A s, t \in Sockets : s # t /\ fd_[s] = fd_[t] => fd_[s] = NoFd

Objects == Typed /\ Owned /\ (~Down => Sound)

\* The types of the rest.
PcOK == pc \in {"ctor", "ready", "loop", "exited"} \cup InitPc \cup ConnectPc \cup TeardownPc
CountOK == result \in {"none", "SUCCESS", "INTERNAL_ERR"} /\ inits \in 0 .. MaxInits
PeersOK ==
  /\ kpeer \in [Fds -> Peers \cup {NoPeer}]
  /\ link \in [Peers -> {"off", "queued", "served", "gone"}]
  /\ wire \in [Peers -> {"quiet", "data", "fin", "rst"}]
TablesOK ==
  /\ EventTypeOK
  /\ conn \in Conns \cup {NoConn}
  /\ connections_ \subseteq [fd : Fds \cup {NoFd}, conn : Conns]

\* The server holds its own Socket from the constructor to the end of the
\* destructor, and nothing else outside of the connections.
Held == handles = IF pc \in {"ctor", "exited"} THEN {} ELSE {Server}

\* Connections have Sockets of their own, if any, and never that of the server.
Links ==
  /\ \A c \in Conns \ conns : socket_[c] = NoSocket
  /\ \A c \in Conns : socket_[c] # Server
  /\ \A c, d \in Conns : c # d /\ socket_[c] = socket_[d] => socket_[c] = NoSocket

\* What on_connect has in its hands.
InHands ==
  /\ pc \in ConnectPc <=> conn # NoConn
  /\ conn # NoConn => conn \in conns /\ \A e \in connections_ : e.conn # conn
  /\ pc = "c_accept" => socket_[conn] = NoSocket
  /\ pc = "c_register" => socket_[conn] # NoSocket

\* TableConsistent, as far as it holds in the destructor too.
Entries ==
  \A e \in connections_ :
    /\ e.conn \in conns
    /\ socket_[e.conn] # NoSocket
    /\ fd_[socket_[e.conn]] = e.fd
Existing == conns = {e.conn : e \in connections_} \cup ({conn} \ {NoConn})
Buffered == ~Down => {b.fd : b \in buffer_events_} = {e.fd : e \in connections_}
Emptied == pc \in {"ctor", "t_socket", "exited"} => connections_ = {}

Table == Links /\ InHands /\ Entries /\ Existing /\ Buffered /\ Emptied

\* How far init() has set up the Socket of the server.
SetUp ==
  /\ pc \in {"i_nonblock", "i_bind"} => status_[Server] = CREATED
  /\ pc = "i_listen" => status_[Server] = BINDED
  /\ pc = "i_register" => status_[Server] \in {LISTENED, ACCEPTING}

\* The loop watches the listening descriptor if it watches any.
Watching ==
  ~Down => /\ result = "SUCCESS" => events_ # {}
           /\ events_ # {} => /\ events_ = {fd_[Server]}
                              /\ status_[Server] \in {LISTENED, ACCEPTING}

IInv == Objects /\ PcOK /\ CountOK /\ PeersOK /\ TablesOK /\ Held /\ Table /\ SetUp /\ Watching

LEMMA ServerIs == Server \in Sockets /\ NoConn \notin Conns /\ NoSocket \notin Sockets
  BY ServerAssumption, SocketAssumption

LEMMA InvInit == Init => IInv
<1> SUFFICES ASSUME Init PROVE IInv
  OBVIOUS
<1> USE ServerIs DEF Init
<1>1. Sound
  BY SoundInit
<1>2. Objects
  BY <1>1 DEF Objects, Sound, DescriptorOwned, Owned
<1>3. PcOK /\ CountOK /\ PeersOK /\ TablesOK
  BY ServerAssumption DEF PcOK, CountOK, PeersOK, TablesOK, EventTypeOK, EventInit
<1>4. Held
  BY DEF Held, ConnInit
<1>5. Table
  BY DEF Table, Links, InHands, Entries, Existing, Buffered, Emptied, ConnectPc, ConnInit,
         EventInit
<1>6. SetUp /\ Watching
  BY DEF SetUp, Watching, EventInit
<1> QED BY <1>2, <1>3, <1>4, <1>5, <1>6 DEF IInv

\* The objects, when they are sound after the step.
LEMMA SoundObjects == Sound' => Objects'
  BY DEF Objects, Sound, DescriptorOwned, Owned

\* A step that leaves the connections and the descriptors of their Sockets
\* alone, and goes to a place where no more is asked of them.
LEMMA TableKept ==
  ASSUME Table, UNCHANGED <<conns, socket_, connections_, conn, buffer_events_>>,
         \A c \in Conns : socket_[c] # NoSocket => fd_'[socket_[c]] = fd_[socket_[c]],
         TablesOK,
         pc' \in ConnectPc <=> pc \in ConnectPc,
         pc' = "c_accept" => pc = "c_accept",
         pc' = "c_register" => socket_[conn] # NoSocket,
         Down => Down',
         pc' \in {"ctor", "t_socket", "exited"} => connections_ = {}
  PROVE  Table'
<1>1. Links' /\ InHands' /\ Existing' /\ Emptied'
  BY DEF Table, Links, InHands, Existing, Emptied
<1>2. Entries'
  BY DEF Table, Entries, TablesOK
<1>3. Buffered'
  BY DEF Table, Buffered
<1> QED BY <1>1, <1>2, <1>3 DEF Table

-------------------------------------------------------------------------------
(* The steps that only the rest of the system notices. *)

\* The clients, and whatever ends the process.
LEMMA Unmoved ==
  ASSUME IInv, NEW how \in ProcState, proc' = how, PeersOK',
         UNCHANGED <<kstate, kproto, knonblock, socketVars, connVars, eventVars, serverVars>>
  PROVE  IInv'
<1> USE DEF IInv
<1>1. ~Down => Sound'
  BY SoundDie DEF Objects, Die
<1>2. Typed' /\ Owned'
  BY DEF Objects, Typed, KernelTypeOK, SocketTypeOK, ConnTypeOK, Owned, Live, socketVars, connVars
<1>3. pc' = pc /\ Down' = Down
  BY DEF serverVars, Down
<1>4. Objects'
  BY <1>1, <1>2, <1>3 DEF Objects
<1>5. PcOK' /\ CountOK' /\ TablesOK' /\ Held'
  BY DEF PcOK, CountOK, TablesOK, EventTypeOK, Held, serverVars, eventVars, connVars
<1>6. Table'
  <2>1. UNCHANGED <<conns, socket_, connections_, conn, buffer_events_, fd_>>
    BY DEF serverVars, eventVars, connVars, socketVars
  <2>2. pc = "c_register" => socket_[conn] # NoSocket
    BY DEF Table, InHands
  <2>3. pc \in {"ctor", "t_socket", "exited"} => connections_ = {}
    BY DEF Table, Emptied
  <2> QED BY <1>3, <2>1, <2>2, <2>3, TableKept
<1>7. SetUp' /\ Watching'
  BY <1>3 DEF SetUp, Watching, serverVars, eventVars, socketVars
<1> QED BY <1>4, <1>5, <1>6, <1>7

LEMMA PeerStepInv == IInv /\ PeerStep => IInv'
<1> SUFFICES ASSUME IInv, PeerStep PROVE IInv'
  OBVIOUS
<1>1. PeersOK'
  <2>1. ASSUME NEW p \in Peers, PeerConnect(p) \/ PeerAborts(p) PROVE PeersOK'
    BY <2>1 DEF IInv, PeersOK, PeerConnect, PeerAborts
  <2>2. ASSUME NEW p \in Peers, NEW what \in {"data", "fin", "rst"}, PeerSends(p, what)
        PROVE  PeersOK'
    BY <2>2 DEF IInv, PeersOK, PeerSends
  <2> QED BY <2>1, <2>2 DEF PeerStep
<1>2. proc \in ProcState
  BY DEF IInv, Objects, Typed, KernelTypeOK
<1> QED BY <1>1, <1>2, Unmoved DEF PeerStep, kernelVars

LEMMA DeathInv ==
  IInv /\ (ConstructorThrows \/ OnConnectSigpipe \/ OnConnectNull \/ BufferCallback) => IInv'
<1> SUFFICES ASSUME IInv,
                    ConstructorThrows \/ OnConnectSigpipe \/ OnConnectNull \/ BufferCallback
             PROVE  IInv'
  OBVIOUS
<1>1. \E how \in ProcState : Die(how)
  BY DEF ConstructorThrows, OnConnectSigpipe, ConnSendKilled, SendKilled, OnConnectNull,
         NullSocketUsed, BufferCallback, CallbackFails, ProcState
<1>2. UNCHANGED <<socketVars, connVars, eventVars, serverVars, peerVars>>
  BY DEF ConstructorThrows, OnConnectSigpipe, ConnSendKilled, SendKilled, OnConnectNull,
         NullSocketUsed, BufferCallback
<1>3. PeersOK'
  BY <1>2 DEF IInv, PeersOK, peerVars
<1> QED BY <1>1, <1>2, <1>3, Unmoved DEF Die

LEMMA StutterInv == IInv /\ UNCHANGED vars => IInv'
<1> SUFFICES ASSUME IInv, UNCHANGED vars PROVE IInv'
  OBVIOUS
<1>1. UNCHANGED <<kernelVars, socketVars, connVars, eventVars, serverVars, peerVars>>
  BY DEF vars
<1>2. PeersOK' /\ proc \in ProcState
  BY <1>1 DEF IInv, PeersOK, peerVars, Objects, Typed, KernelTypeOK
<1> QED BY <1>1, <1>2, Unmoved DEF kernelVars

\* start(), the return of the loop, and the call of the destructor.
LEMMA CallerInv == IInv /\ (Start \/ LoopReturns \/ Destroy) => IInv'
<1> SUFFICES ASSUME IInv, Start \/ LoopReturns \/ Destroy PROVE IInv'
  OBVIOUS
<1> USE DEF IInv
<1>1. /\ UNCHANGED <<kernelVars, socketVars, connVars, eventVars, result, inits, conn,
                     connections_, peerVars>>
      /\ pc \in {"ready", "loop"} /\ pc' \in {"loop", "ready", "t_events"}
  BY DEF Start, LoopReturns, Destroy, Goto
<1>2. ~Down /\ ~Down'
  BY <1>1 DEF Down
<1>3. Objects'
  BY <1>1, <1>2, SoundStutter, SoundObjects DEF Objects, objectVars
<1>4. PcOK' /\ CountOK' /\ PeersOK' /\ TablesOK' /\ Held'
  BY <1>1 DEF PcOK, CountOK, PeersOK, TablesOK, EventTypeOK, Held, eventVars, connVars, peerVars,
              TeardownPc
<1>5. Table'
  <2>1. UNCHANGED <<conns, socket_, connections_, conn, buffer_events_, fd_>>
    BY <1>1 DEF eventVars, connVars, socketVars
  <2> QED BY <1>1, <1>2, <2>1, TableKept DEF ConnectPc
<1>6. SetUp' /\ Watching'
  BY <1>1, <1>2 DEF SetUp, Watching, eventVars, socketVars
<1> QED BY <1>3, <1>4, <1>5, <1>6

-------------------------------------------------------------------------------
(* The constructor and init(). *)

LEMMA ConstructedInv == IInv /\ Constructed => IInv'
<1> SUFFICES ASSUME IInv, Constructed PROVE IInv'
  OBVIOUS
<1> USE ServerIs DEF IInv
<1>1. /\ pc = "ctor" /\ pc' = "ready"
      /\ CreateSocket(Server, "TCP")
      /\ UNCHANGED <<eventVars, result, inits, conn, connections_, peerVars>>
  BY DEF Constructed, Goto
<1>2. ~Down /\ ~Down'
  BY <1>1 DEF Down
<1>3. Objects'
  BY <1>1, <1>2, SoundCreateSocket, SoundObjects DEF Objects, Protocol
<1>4. PcOK' /\ CountOK' /\ PeersOK' /\ TablesOK'
  BY <1>1 DEF PcOK, CountOK, PeersOK, TablesOK, EventTypeOK, eventVars, peerVars
<1>5. Held'
  BY <1>1 DEF Held, CreateSocket
<1>6. Table'
  <2>1. /\ UNCHANGED <<conns, socket_, connections_, conn, buffer_events_>>
        /\ fd_' = [fd_ EXCEPT ![Server] = NoFd]
    BY <1>1 DEF eventVars, CreateSocket, Construct
  <2>2. \A c \in Conns : socket_[c] # NoSocket => fd_'[socket_[c]] = fd_[socket_[c]]
    BY <2>1 DEF Table, Links, Objects, Typed, ConnTypeOK, SocketTypeOK
  <2> QED BY <1>1, <1>2, <2>1, <2>2, TableKept DEF ConnectPc
<1>7. events_ = {} /\ result # "SUCCESS"
  <2>1. ~Live(Server)
    BY <1>1 DEF CreateSocket
  <2>2. fd_[Server] = NoFd
    BY <2>1 DEF Objects, Owned
  <2>3. status_[Server] \notin {LISTENED, ACCEPTING}
    BY <1>2, <2>2 DEF Objects, Sound, StatusCoherent, CREATED, LISTENED, ACCEPTING
  <2> QED BY <1>2, <2>3 DEF Watching
<1>8. SetUp' /\ Watching'
  BY <1>1, <1>7 DEF SetUp, Watching, eventVars
<1> QED BY <1>3, <1>4, <1>5, <1>6, <1>8

\* A call of init() on the Socket of the server, which moves init() on to l when
\* it returns SUCCESS and leaves the descriptor alone while it is watched.
LEMMA InitCallInv ==
  ASSUME IInv, pc \in {"ready", "i_nonblock", "i_bind", "i_listen"},
         NEW r, NEW l \in InitPc, Continue(r, l),
         Sound', inits' \in 0 .. MaxInits,
         UNCHANGED <<connVars, eventVars, conn, connections_, peerVars>>,
         \A s \in Sockets : s # Server => fd_'[s] = fd_[s],
         events_ # {} => fd_'[Server] = fd_[Server] /\ status_'[Server] = status_[Server],
         r = "SUCCESS" =>
           /\ l \in {"i_nonblock", "i_bind"} => status_'[Server] = CREATED
           /\ l = "i_listen" => status_'[Server] = BINDED
           /\ l = "i_register" => status_'[Server] = LISTENED
  PROVE  IInv'
<1> USE DEF IInv
<1>1. /\ ~Down /\ ~Down'
      /\ pc' \in {"ready"} \cup InitPc
      /\ r # "SUCCESS" => pc' = "ready"
      /\ r = "SUCCESS" => pc' = l
      /\ result' \in {result, "INTERNAL_ERR"}
  BY DEF Continue, Goto, Down, InitPc
<1>2. Objects'
  BY SoundObjects
<1>3. PcOK' /\ CountOK' /\ PeersOK' /\ TablesOK'
  BY <1>1 DEF PcOK, CountOK, PeersOK, TablesOK, EventTypeOK, eventVars, peerVars
<1>4. Held'
  BY <1>1 DEF Held, connVars, InitPc
<1>5. Table'
  <2>1. UNCHANGED <<conns, socket_, connections_, conn, buffer_events_>>
    BY DEF eventVars, connVars
  <2>2. \A c \in Conns : socket_[c] # NoSocket => fd_'[socket_[c]] = fd_[socket_[c]]
    BY DEF Table, Links, Objects, Typed, ConnTypeOK
  <2> QED BY <1>1, <2>1, <2>2, TableKept DEF ConnectPc, InitPc
<1>6. SetUp'
  BY <1>1 DEF SetUp
<1>7. Watching'
  BY <1>1 DEF Watching, eventVars
<1> QED BY <1>2, <1>3, <1>4, <1>5, <1>6, <1>7

LEMMA ServerLives == IInv /\ pc \notin {"ctor", "exited"} => Live(Server)
  BY DEF IInv, Held, Live

\* Nothing is watched before the Socket listens.
LEMMA NotWatched ==
  IInv /\ ~Down /\ status_[Server] \notin {LISTENED, ACCEPTING} => events_ = {}
  BY DEF IInv, Watching

LEMMA InitCalledInv == IInv /\ InitCalled => IInv'
<1> SUFFICES ASSUME IInv, InitCalled PROVE IInv'
  OBVIOUS
<1> USE ServerIs
<1>1. PICK f \in Fds \cup {NoFd}, r \in RtspStatus :
        OpenSocket(Server, f, r) /\ Continue(r, "i_nonblock")
  BY DEF InitCalled
<1>2. /\ pc = "ready" /\ inits' \in 0 .. MaxInits
      /\ UNCHANGED <<connVars, eventVars, conn, connections_, peerVars>>
  BY ServerAssumption DEF InitCalled, IInv, CountOK
<1>3. Sound /\ SocketTypeOK
  BY <1>2 DEF IInv, Objects, Sound, Typed, Down
<1>4. Sound'
  BY <1>1, <1>2, <1>3, ServerLives, SoundOpenSocket
<1>5. CASE Refuse(r, "MULTI_OPERATOR")
  BY <1>1, <1>2, <1>4, <1>5, InitCallInv DEF Refuse, socketVars, InitPc
<1>6. CASE /\ ~Initialized(Server)
           /\ fd_' = [fd_ EXCEPT ![Server] = f]
           /\ IF f = NoFd THEN r = "IO_OPERATOR_ERR" /\ UNCHANGED status_
              ELSE r = "SUCCESS" /\ status_' = [status_ EXCEPT ![Server] = CREATED]
  <2>1. events_ = {}
    <3>1. status_[Server] = UNINITIALIZED
      BY <1>3, <1>6, Uninitialized
    <3> QED BY <1>2, <3>1, NotWatched DEF Down, UNINITIALIZED, LISTENED, ACCEPTING
  <2>2. \A s \in Sockets : s # Server => fd_'[s] = fd_[s]
    BY <1>3, <1>6 DEF SocketTypeOK
  <2>3. r = "SUCCESS" => status_'[Server] = CREATED
    BY <1>3, <1>6 DEF SocketTypeOK
  <2> QED BY <1>1, <1>2, <1>4, <2>1, <2>2, <2>3, InitCallInv DEF InitPc
<1> QED BY <1>1, <1>5, <1>6 DEF OpenSocket

LEMMA InitNonBlockInv == IInv /\ InitNonBlock => IInv'
<1> SUFFICES ASSUME IInv, InitNonBlock PROVE IInv'
  OBVIOUS
<1> USE ServerIs
<1>1. PICK r \in RtspStatus : SetNonBlock(Server, r) /\ Continue(r, "i_bind")
  BY DEF InitNonBlock
<1>2. /\ pc = "i_nonblock" /\ inits' \in 0 .. MaxInits
      /\ UNCHANGED <<connVars, eventVars, conn, connections_, peerVars>>
  BY DEF InitNonBlock, IInv, CountOK
<1>3. Sound'
  BY <1>1, <1>2, SoundSetNonBlock DEF IInv, Objects, Down
<1>4. fd_' = fd_ /\ status_' = status_
  BY <1>1 DEF SetNonBlock, Refuse, socketVars
<1>5. status_[Server] = CREATED
  BY <1>2 DEF IInv, SetUp
<1> QED BY <1>1, <1>2, <1>3, <1>4, <1>5, InitCallInv DEF InitPc

LEMMA InitBindInv == IInv /\ InitBind => IInv'
<1> SUFFICES ASSUME IInv, InitBind PROVE IInv'
  OBVIOUS
<1> USE ServerIs
<1>1. PICK r \in RtspStatus : Bind(Server, r) /\ Continue(r, "i_listen")
  BY DEF InitBind
<1>2. /\ pc = "i_bind" /\ inits' \in 0 .. MaxInits
      /\ UNCHANGED <<connVars, eventVars, conn, connections_, peerVars>>
  BY DEF InitBind, IInv, CountOK
<1>3. Sound' /\ SocketTypeOK
  BY <1>1, <1>2, SoundBind DEF IInv, Objects, Down, Typed
<1>4. status_[Server] = CREATED /\ events_ = {}
  BY <1>2, NotWatched DEF IInv, SetUp, Down, CREATED, LISTENED, ACCEPTING
<1>5. fd_' = fd_ /\ (r = "SUCCESS" => status_'[Server] = BINDED)
  BY <1>1, <1>3, <1>4 DEF Bind, Step, Refuse, SocketTypeOK, socketVars
<1> QED BY <1>1, <1>2, <1>3, <1>4, <1>5, InitCallInv DEF InitPc

LEMMA InitListenInv == IInv /\ InitListen => IInv'
<1> SUFFICES ASSUME IInv, InitListen PROVE IInv'
  OBVIOUS
<1> USE ServerIs
<1>1. PICK r \in RtspStatus : Listen(Server, r) /\ Continue(r, "i_register")
  BY DEF InitListen
<1>2. /\ pc = "i_listen" /\ inits' \in 0 .. MaxInits
      /\ UNCHANGED <<connVars, eventVars, conn, connections_, peerVars>>
  BY DEF InitListen, IInv, CountOK
<1>3. Sound' /\ SocketTypeOK
  BY <1>1, <1>2, SoundListen DEF IInv, Objects, Down, Typed
<1>4. status_[Server] = BINDED /\ events_ = {}
  BY <1>2, NotWatched DEF IInv, SetUp, Down, BINDED, LISTENED, ACCEPTING
<1>5. fd_' = fd_ /\ (r = "SUCCESS" => status_'[Server] = LISTENED)
  BY <1>1, <1>3, <1>4 DEF Listen, Step, Refuse, SocketTypeOK, socketVars
<1> QED BY <1>1, <1>2, <1>3, <1>4, <1>5, InitCallInv DEF InitPc

LEMMA InitRegisterInv == IInv /\ InitRegister => IInv'
<1> SUFFICES ASSUME IInv, InitRegister PROVE IInv'
  OBVIOUS
<1> USE ServerIs DEF IInv
<1>1. /\ pc = "i_register" /\ pc' = "ready" /\ result' = "SUCCESS"
      /\ events_' = events_ \cup {fd_[Server]} /\ UNCHANGED buffer_events_
      /\ UNCHANGED <<kernelVars, socketVars, connVars, inits, conn, connections_, peerVars>>
  BY DEF InitRegister, RegistEvent, Goto
<1>2. ~Down /\ ~Down'
  BY <1>1 DEF Down
<1>3. Objects'
  BY <1>1, <1>2, SoundStutter, SoundObjects DEF Objects, objectVars
<1>4. PcOK' /\ CountOK' /\ PeersOK'
  BY <1>1 DEF PcOK, CountOK, PeersOK, peerVars
<1>5. TablesOK' /\ Held'
  BY <1>1 DEF TablesOK, EventTypeOK, Objects, Typed, SocketTypeOK, Held, connVars
<1>6. Table'
  <2>1. UNCHANGED <<conns, socket_, connections_, conn, buffer_events_, fd_>>
    BY <1>1 DEF connVars, socketVars
  <2> QED BY <1>1, <1>2, <2>1, TableKept DEF ConnectPc
<1>7. SetUp' /\ Watching'
  BY <1>1, <1>2 DEF SetUp, Watching, socketVars
<1> QED BY <1>3, <1>4, <1>5, <1>6, <1>7

-------------------------------------------------------------------------------
(* The event loop and on_connect. *)

LEMMA OnConnectInv == IInv /\ OnConnect => IInv'
<1> SUFFICES ASSUME IInv, OnConnect PROVE IInv'
  OBVIOUS
<1> USE ServerIs DEF IInv
<1>1. PICK c \in Conns : CreateConn(c) /\ conn' = c
  BY DEF OnConnect
<1>2. /\ pc = "loop" /\ pc' = "c_accept"
      /\ c \notin conns /\ conns' = conns \cup {c}
      /\ UNCHANGED <<eventVars, result, inits, connections_, peerVars>>
      /\ UNCHANGED <<handles, socket_, socketVars, kernelVars>>
  BY <1>1 DEF OnConnect, Goto, CreateConn
<1>3. ~Down /\ ~Down'
  BY <1>2 DEF Down
<1>4. Objects'
  BY <1>1, <1>3, SoundCreateConn, SoundObjects DEF Objects
<1>5. PcOK' /\ CountOK' /\ PeersOK' /\ TablesOK' /\ Held'
  BY <1>1, <1>2 DEF PcOK, CountOK, PeersOK, TablesOK, EventTypeOK, Held, eventVars, peerVars,
                    ConnectPc
<1>6. Table'
  <2>1. conn = NoConn
    BY <1>2 DEF Table, InHands, ConnectPc
  <2>2. Links' /\ InHands'
    BY <1>1, <1>2 DEF Table, Links, InHands, Entries, ConnectPc
  <2>3. Entries' /\ Existing' /\ Emptied'
    BY <1>1, <1>2, <2>1 DEF Table, Entries, Existing, Emptied, socketVars
  <2>4. Buffered'
    BY <1>2, <1>3 DEF Table, Buffered, eventVars
  <2> QED BY <2>2, <2>3, <2>4 DEF Table
<1>7. SetUp' /\ Watching'
  BY <1>2, <1>3 DEF SetUp, Watching, eventVars, socketVars
<1> QED BY <1>4, <1>5, <1>6, <1>7

LEMMA OnConnectAcceptInv == IInv /\ OnConnectAccept => IInv'
<1> SUFFICES ASSUME IInv, OnConnectAccept PROVE IInv'
  OBVIOUS
<1> USE ServerIs DEF IInv
<1>1. PICK n \in Sockets, f \in Fds \cup {NoFd}, r \in RtspStatus :
        /\ AcceptInto(Server, conn, n, f, r)
        /\ IF f = NoFd
           THEN UNCHANGED peerVars
           ELSE \E p \in Queued :
                  /\ link' = [link EXCEPT ![p] = "served"]
                  /\ kpeer' = [kpeer EXCEPT ![f] = p]
                  /\ UNCHANGED wire
  BY DEF OnConnectAccept
<1>2. /\ pc = "c_accept" /\ pc' = "c_send"
      /\ UNCHANGED <<eventVars, result, inits, conn, connections_>>
  BY DEF OnConnectAccept, Goto
<1>3. ~Down /\ ~Down'
  BY <1>2 DEF Down
<1>4. conn \in Conns /\ conn \in conns /\ socket_[conn] = NoSocket
  BY <1>2 DEF TablesOK, Table, InHands, ConnectPc
<1>5. Objects'
  BY <1>1, <1>2, <1>3, <1>4, ServerLives, SoundAccept, SoundObjects DEF Objects
<1>6. PcOK' /\ CountOK' /\ TablesOK'
  BY <1>2 DEF PcOK, CountOK, TablesOK, EventTypeOK, eventVars, ConnectPc
<1>7. PeersOK'
  BY <1>1 DEF PeersOK, peerVars, Queued
<1>8. UNCHANGED <<handles, conns>>
  BY <1>1 DEF AcceptInto, connVars
<1>9. Held'
  BY <1>2, <1>8 DEF Held
<1>10. CASE Refuse(r, "ILLEGAL_PARAMS") /\ UNCHANGED connVars
  <2>1. UNCHANGED <<conns, socket_, connections_, conn, buffer_events_, fd_, status_>>
    BY <1>2, <1>10 DEF connVars, Refuse, socketVars, eventVars
  <2>2. Table'
    BY <1>2, <1>3, <2>1, TableKept DEF ConnectPc
  <2>3. SetUp' /\ Watching'
    BY <1>2, <1>3, <2>1 DEF SetUp, Watching, eventVars
  <2> QED BY <1>5, <1>6, <1>7, <1>9, <2>2, <2>3
<1>11. CASE ~Live(n) /\ Accepted(Server, n, f) /\ socket_' = [socket_ EXCEPT ![conn] = n]
  <2>1. /\ n # Server /\ n # NoSocket
        /\ \A c \in Conns : socket_[c] # n
    BY <1>2, <1>11, ServerLives DEF Live
  <2>2. \A c \in Conns : socket_'[c] = IF c = conn THEN n ELSE socket_[c]
    BY <1>4, <1>11 DEF Objects, Typed, ConnTypeOK
  <2>3. \A s \in Sockets : s # n => fd_'[s] = fd_[s]
    BY <1>11 DEF Accepted, Objects, Typed, SocketTypeOK
  <2>4. status_'[Server] = ACCEPTING
    BY <1>11, <2>1 DEF Accepted, Objects, Typed, SocketTypeOK
  <2>5. Links'
    BY <1>4, <1>8, <2>1, <2>2 DEF Table, Links
  <2>6. InHands'
    BY <1>2, <1>8 DEF Table, InHands, ConnectPc
  <2>7. Entries'
    <3> SUFFICES ASSUME NEW e \in connections_
                 PROVE  /\ e.conn \in conns'
                        /\ socket_'[e.conn] # NoSocket
                        /\ fd_'[socket_'[e.conn]] = e.fd
      BY <1>2 DEF Entries
    <3>1. e.conn \in Conns /\ e.conn # conn /\ socket_[e.conn] \in Sockets
      BY <1>4 DEF Table, InHands, Entries, TablesOK, Objects, Typed, ConnTypeOK
    <3> QED BY <1>8, <2>1, <2>2, <2>3, <3>1 DEF Table, Entries
  <2>8. Existing' /\ Emptied'
    BY <1>2, <1>8 DEF Table, Existing, Emptied
  <2>9. Buffered'
    BY <1>2, <1>3 DEF Table, Buffered, eventVars
  <2>10. SetUp' /\ Watching'
    BY <1>2, <1>3, <2>1, <2>3, <2>4 DEF SetUp, Watching, eventVars
  <2> QED BY <1>5, <1>6, <1>7, <1>9, <2>5, <2>6, <2>7, <2>8, <2>9, <2>10 DEF Table
<1> QED BY <1>1, <1>4, <1>10, <1>11 DEF AcceptInto

LEMMA OnConnectSendInv == IInv /\ OnConnectSend => IInv'
<1> SUFFICES ASSUME IInv, OnConnectSend PROVE IInv'
  OBVIOUS
<1> USE DEF IInv
<1>1. /\ pc = "c_send" /\ pc' = "c_register" /\ socket_[conn] # NoSocket
      /\ UNCHANGED <<kernelVars, socketVars, connVars>>
      /\ UNCHANGED <<eventVars, result, inits, conn, connections_, peerVars>>
  BY DEF OnConnectSend, Goto, ConnSend, Send
<1>2. ~Down /\ ~Down'
  BY <1>1 DEF Down
<1>3. Objects'
  BY <1>1, <1>2, SoundStutter, SoundObjects DEF Objects, objectVars
<1>4. PcOK' /\ CountOK' /\ PeersOK' /\ TablesOK' /\ Held'
  BY <1>1 DEF PcOK, CountOK, PeersOK, TablesOK, EventTypeOK, Held, eventVars, connVars, peerVars,
              ConnectPc
<1>5. Table'
  <2>1. UNCHANGED <<conns, socket_, connections_, conn, buffer_events_, fd_>>
    BY <1>1 DEF eventVars, connVars, socketVars
  <2> QED BY <1>1, <1>2, <2>1, TableKept DEF ConnectPc
<1>6. SetUp' /\ Watching'
  BY <1>1, <1>2 DEF SetUp, Watching, eventVars, socketVars
<1> QED BY <1>3, <1>4, <1>5, <1>6

\* What is left when a connection is destroyed: the others keep their Sockets
\* and their descriptors.
LEMMA DestroyedConn ==
  ASSUME Typed, Links, NEW c \in Conns, DestroyConn(c)
  PROVE  /\ Links' /\ ConnTypeOK'
         /\ socket_[c] \in Sockets \ {Server}
         /\ handles' = handles /\ conns' = conns \ {c}
         /\ \A d \in Conns : d # c => /\ socket_'[d] = socket_[d]
                                     /\ socket_[d] # socket_[c]
         /\ \A s \in Sockets : s # socket_[c] => /\ fd_'[s] = fd_[s]
                                               /\ status_'[s] = status_[s]
<1> USE ServerIs DEF Typed
<1>1. /\ socket_[c] \in Sockets /\ socket_[c] # NoSocket /\ socket_[c] # Server
      /\ conns' = conns \ {c} /\ handles' = handles
      /\ socket_' = [socket_ EXCEPT ![c] = NoSocket]
  BY DEF DestroyConn, ConnTypeOK, Links
<1>2. \A d \in Conns : d # c => socket_'[d] = socket_[d] /\ socket_[d] # socket_[c]
  BY <1>1 DEF ConnTypeOK, Links
<1>3. socket_'[c] = NoSocket /\ ConnTypeOK'
  BY <1>1 DEF ConnTypeOK
<1>4. Links'
  BY <1>1, <1>2, <1>3 DEF Links
<1>5. \A s \in Sockets : s # socket_[c] => fd_'[s] = fd_[s] /\ status_'[s] = status_[s]
  BY <1>1 DEF DestroyConn, Close, SocketTypeOK
<1> QED BY <1>1, <1>2, <1>3, <1>4, <1>5

LEMMA OnConnectRegisterInv == IInv /\ OnConnectRegister => IInv'
<1> SUFFICES ASSUME IInv, OnConnectRegister PROVE IInv'
  OBVIOUS
<1> USE ServerIs DEF IInv
<1> DEFINE f == fd_[socket_[conn]]
<1>1. /\ pc = "c_register" /\ pc' = "loop" /\ conn' = NoConn
      /\ buffer_events_' = buffer_events_ \cup {[fd |-> f, ctx |-> "null"]}
      /\ UNCHANGED <<events_, result, inits, peerVars>>
      /\ \/ (\E e \in connections_ : e.fd = f) /\ DestroyConn(conn) /\ UNCHANGED connections_
         \/ /\ connections_' = connections_ \cup {[fd |-> f, conn |-> conn]}
            /\ UNCHANGED <<kernelVars, socketVars, connVars>>
  BY DEF OnConnectRegister, RegisterIoEvent, Goto
<1>2. ~Down /\ ~Down'
  BY <1>1 DEF Down
<1>3. /\ conn \in Conns /\ conn \in conns /\ \A e \in connections_ : e.conn # conn
      /\ socket_[conn] \in Sockets /\ f \in Fds \cup {NoFd}
  BY <1>1 DEF TablesOK, Table, InHands, ConnectPc, Objects, Typed, ConnTypeOK, SocketTypeOK
<1>4. PcOK' /\ CountOK' /\ PeersOK'
  BY <1>1 DEF PcOK, CountOK, PeersOK, peerVars
<1>5. TablesOK'
  <2>1. [fd |-> f, ctx |-> "null"] \in [fd : Fds \cup {NoFd}, ctx : Ctx]
    BY <1>3 DEF Ctx
  <2>2. [fd |-> f, conn |-> conn] \in [fd : Fds \cup {NoFd}, conn : Conns]
    BY <1>3
  <2> QED BY <1>1, <2>1, <2>2 DEF TablesOK, EventTypeOK
<1>6. CASE (\E e \in connections_ : e.fd = f) /\ DestroyConn(conn) /\ UNCHANGED connections_
  <2>1. /\ Links' /\ ConnTypeOK' /\ socket_[conn] \in Sockets \ {Server}
        /\ handles' = handles /\ conns' = conns \ {conn}
        /\ \A d \in Conns : d # conn => /\ socket_'[d] = socket_[d]
                                       /\ socket_[d] # socket_[conn]
        /\ \A s \in Sockets : s # socket_[conn] => /\ fd_'[s] = fd_[s]
                                                 /\ status_'[s] = status_[s]
    BY <1>3, <1>6, DestroyedConn DEF Table, Objects
  <2>2. Objects'
    BY <1>2, <1>3, <1>6, SoundDestroyConn, SoundObjects DEF Objects
  <2>3. Held'
    BY <1>1, <2>1 DEF Held
  <2>4. InHands' /\ Emptied'
    BY <1>1 DEF InHands, Emptied, ConnectPc
  <2>5. Entries'
    <3> SUFFICES ASSUME NEW e \in connections_
                 PROVE  /\ e.conn \in conns'
                        /\ socket_'[e.conn] # NoSocket
                        /\ fd_'[socket_'[e.conn]] = e.fd
      BY <1>6 DEF Entries
    <3>1. e.conn \in Conns /\ e.conn # conn /\ socket_[e.conn] \in Sockets
      BY <1>3 DEF Table, Entries, TablesOK, Objects, Typed, ConnTypeOK
    <3> QED BY <2>1, <3>1 DEF Table, Entries
  <2>6. Existing'
    BY <1>1, <1>3, <1>6, <2>1 DEF Table, Existing
  <2>7. Buffered'
    BY <1>1, <1>2, <1>6 DEF Table, Buffered
  <2>8. SetUp' /\ Watching'
    BY <1>1, <1>2, <2>1 DEF SetUp, Watching
  <2> QED BY <1>4, <1>5, <2>1, <2>2, <2>3, <2>4, <2>5, <2>6, <2>7, <2>8 DEF Table
<1>7. CASE /\ connections_' = connections_ \cup {[fd |-> f, conn |-> conn]}
           /\ UNCHANGED <<kernelVars, socketVars, connVars>>
  <2>1. UNCHANGED <<handles, conns, socket_, fd_, status_>>
    BY <1>7 DEF socketVars, connVars
  <2>2. Objects'
    BY <1>2, <1>7, SoundStutter, SoundObjects DEF Objects, objectVars
  <2>3. Held'
    BY <1>1, <2>1 DEF Held
  <2>4. Links' /\ InHands' /\ Emptied'
    BY <1>1, <2>1 DEF Table, Links, InHands, Emptied, ConnectPc
  <2>5. Entries'
    <3>1. socket_[conn] # NoSocket
      BY <1>1 DEF Table, InHands
    <3>2. ASSUME NEW e \in connections_'
          PROVE  e.conn \in conns /\ socket_[e.conn] # NoSocket /\ fd_[socket_[e.conn]] = e.fd
      <4>1. CASE e \in connections_
        BY <4>1 DEF Table, Entries
      <4>2. CASE e = [fd |-> f, conn |-> conn]
        BY <1>3, <3>1, <4>2
      <4> QED BY <1>7, <3>2, <4>1, <4>2
    <3> QED BY <2>1, <3>2 DEF Entries
  <2>6. Existing'
    <3>1. {e.conn : e \in connections_'} = {e.conn : e \in connections_} \cup {conn}
      <4> DEFINE new == [fd |-> f, conn |-> conn]
      <4>1. new.conn = conn /\ connections_' = connections_ \cup {new}
        BY <1>7
      <4> HIDE DEF new
      <4> QED BY <4>1
    <3> QED BY <1>1, <1>3, <2>1, <3>1 DEF Table, Existing
  <2>7. Buffered'
    <3> DEFINE new == [fd |-> f, conn |-> conn]
               b == [fd |-> f, ctx |-> "null"]
    <3>1. /\ new.fd = f /\ connections_' = connections_ \cup {new}
          /\ b.fd = f /\ buffer_events_' = buffer_events_ \cup {b}
      BY <1>1, <1>7
    <3> HIDE DEF new, b
    <3>2. {e.fd : e \in connections_'} = {e.fd : e \in connections_} \cup {f}
      BY <3>1
    <3>3. {a.fd : a \in buffer_events_'} = {a.fd : a \in buffer_events_} \cup {f}
      BY <3>1
    <3> QED BY <1>2, <3>2, <3>3 DEF Table, Buffered
  <2>8. SetUp' /\ Watching'
    BY <1>1, <1>2, <2>1 DEF SetUp, Watching
  <2> QED BY <1>4, <1>5, <2>2, <2>3, <2>4, <2>5, <2>6, <2>7, <2>8 DEF Table
<1> QED BY <1>1, <1>6, <1>7

-------------------------------------------------------------------------------
(* The destructor. *)

\* Closing descriptors leaves no more of them without a Socket.
LEMMA TeardownEventsInv == IInv /\ TeardownEvents => IInv'
<1> SUFFICES ASSUME IInv, TeardownEvents PROVE IInv'
  OBVIOUS
<1> USE DEF IInv
<1>1. /\ pc = "t_events" /\ pc' = "t_connections"
      /\ events_' = {} /\ buffer_events_' = {}
      /\ UNCHANGED <<socketVars, connVars, result, inits, conn, connections_, peerVars>>
  BY DEF TeardownEvents, DestroyEvents, Goto
<1>2. PICK F : SysCloseAll(F)
  BY DEF TeardownEvents, DestroyEvents
<1>3. Typed'
  BY <1>1, <1>2 DEF Objects, Typed, KernelTypeOK, SocketTypeOK, ConnTypeOK, SysCloseAll,
                    KernelState, Protocol, socketVars, connVars
<1>4. Owned'
  BY <1>1, <1>2 DEF Objects, Owned, Live, SysCloseAll, socketVars, connVars
<1>5. Objects'
  BY <1>1, <1>3, <1>4 DEF Objects, Down
<1>6. PcOK' /\ CountOK' /\ PeersOK' /\ TablesOK' /\ Held'
  BY <1>1 DEF PcOK, CountOK, PeersOK, TablesOK, EventTypeOK, Held, connVars, peerVars, TeardownPc
<1>7. Table'
  BY <1>1 DEF Table, Links, InHands, Entries, Existing, Buffered, Emptied, Down, ConnectPc,
              socketVars, connVars
<1>8. SetUp' /\ Watching'
  BY <1>1 DEF SetUp, Watching, Down
<1> QED BY <1>5, <1>6, <1>7, <1>8

\* Closing the Socket s, when no other loses its last shared_ptr, keeps the
\* descriptors owned, also when its own had been closed before.
LEMMA OwnedClose ==
  ASSUME Typed, Owned, NEW s \in Sockets, Close(s), ConnTypeOK',
         \A t \in Sockets : t # s /\ Live(t) => Live(t)'
  PROVE  Typed' /\ Owned'
<1> USE DEF Typed
<1>1. /\ fd_' = [fd_ EXCEPT ![s] = NoFd]
      /\ connected_' = [connected_ EXCEPT ![s] = FALSE]
      /\ status_' = [status_ EXCEPT ![s] = UNINITIALIZED]
      /\ type_' = type_
      /\ SysCloseAll({fd_[s]})
  BY DEF Close, SysClose
<1>2. KernelTypeOK'
  BY <1>1 DEF KernelTypeOK, KernelState, Protocol, SysCloseAll
<1>3. SocketTypeOK'
  BY <1>1 DEF SocketTypeOK, SocketStat, UNINITIALIZED, CONNETED
<1>4. fd_'[s] = NoFd /\ \A t \in Sockets : t # s => fd_'[t] = fd_[t]
  BY <1>1 DEF SocketTypeOK
<1>5. \A f \in Fds : kstate'[f] # "free" => f # fd_[s] /\ kstate[f] # "free"
  BY <1>1 DEF SysCloseAll
<1>6. \A t \in Sockets : fd_'[t] # NoFd => Live(t)'
  BY <1>4 DEF Owned
<1>7. \A f \in Fds : kstate'[f] # "free" => \E t \in Sockets : fd_'[t] = f
  BY <1>4, <1>5 DEF Owned
<1>8. \A t, u \in Sockets : t # u /\ fd_'[t] = fd_'[u] => fd_'[t] = NoFd
  BY <1>4 DEF Owned
<1> QED BY <1>2, <1>3, <1>6, <1>7, <1>8 DEF Owned

LEMMA TeardownConnectionsInv == IInv /\ TeardownConnections => IInv'
<1> SUFFICES ASSUME IInv, TeardownConnections PROVE IInv'
  OBVIOUS
<1> USE ServerIs DEF IInv
<1>1. /\ pc = "t_connections" /\ UNCHANGED <<eventVars, result, inits, conn, peerVars>>
      /\ pc' \in {"t_connections", "t_socket"}
  BY DEF TeardownConnections, Goto
<1>2. Down /\ Down' /\ conn = NoConn
  BY <1>1 DEF Down, Table, InHands, ConnectPc
<1>3. PcOK' /\ CountOK' /\ PeersOK'
  BY <1>1 DEF PcOK, CountOK, PeersOK, peerVars, TeardownPc
<1>4. SetUp' /\ Watching' /\ Buffered'
  BY <1>1, <1>2 DEF SetUp, Watching, Buffered
<1>5. CASE /\ connections_ = {} /\ UNCHANGED <<kernelVars, socketVars, connVars, connections_>>
  <2>1. Objects'
    BY <1>2, <1>5 DEF Objects, Typed, KernelTypeOK, SocketTypeOK, ConnTypeOK, Owned, Live,
                      kernelVars, socketVars, connVars
  <2>2. TablesOK' /\ Held'
    BY <1>1, <1>5 DEF TablesOK, EventTypeOK, eventVars, Held, connVars
  <2>3. Links' /\ InHands' /\ Entries' /\ Existing' /\ Emptied'
    BY <1>1, <1>5 DEF Table, Links, InHands, Entries, Existing, Emptied, ConnectPc, connVars
  <2> QED BY <1>3, <1>4, <2>1, <2>2, <2>3 DEF Table
<1>6. ASSUME NEW e \in connections_, DestroyConn(e.conn), connections_' = connections_ \ {e},
             UNCHANGED pc
      PROVE  IInv'
  <2>1. e.conn \in Conns
    BY DEF TablesOK
  <2>2. /\ Links' /\ ConnTypeOK' /\ socket_[e.conn] \in Sockets \ {Server}
        /\ handles' = handles /\ conns' = conns \ {e.conn}
        /\ \A d \in Conns : d # e.conn => /\ socket_'[d] = socket_[d]
                                         /\ socket_[d] # socket_[e.conn]
        /\ \A s \in Sockets : s # socket_[e.conn] => fd_'[s] = fd_[s]
    BY <1>6, <2>1, DestroyedConn DEF Table, Objects
  <2>3. \A t \in Sockets : t # socket_[e.conn] /\ Live(t) => Live(t)'
    BY <2>1, <2>2 DEF Live
  <2>4. Objects'
    BY <1>2, <1>6, <2>2, <2>3, OwnedClose DEF Objects, DestroyConn
  <2>5. TablesOK' /\ Held'
    BY <1>1, <1>6, <2>2 DEF TablesOK, EventTypeOK, eventVars, Held
  \* The connections of the table differ, since their descriptors are those
  \* they are filed under.
  <2>6. \A d \in connections_ : d # e => d.conn # e.conn
    BY DEF Table, Entries, TablesOK
  <2>7. Entries'
    <3> SUFFICES ASSUME NEW d \in connections_, d # e
                 PROVE  /\ d.conn \in conns'
                        /\ socket_'[d.conn] # NoSocket
                        /\ fd_'[socket_'[d.conn]] = d.fd
      BY <1>6 DEF Entries
    <3>1. d.conn \in Conns /\ d.conn # e.conn /\ socket_[d.conn] \in Sockets
      BY <2>6 DEF Table, Entries, TablesOK, Objects, Typed, ConnTypeOK
    <3> QED BY <2>2, <3>1 DEF Table, Entries
  <2>8. Existing'
    BY <1>1, <1>2, <1>6, <2>2, <2>6 DEF Table, Existing
  <2>9. InHands' /\ Emptied'
    BY <1>1, <1>2, <1>6 DEF InHands, Emptied, ConnectPc
  <2> QED BY <1>3, <1>4, <2>2, <2>4, <2>5, <2>7, <2>8, <2>9 DEF Table
<1> QED BY <1>5, <1>6 DEF TeardownConnections

LEMMA TeardownSocketInv == IInv /\ TeardownSocket => IInv'
<1> SUFFICES ASSUME IInv, TeardownSocket PROVE IInv'
  OBVIOUS
<1> USE ServerIs DEF IInv
<1>1. /\ pc = "t_socket" /\ pc' = "exited" /\ DropHandle(Server)
      /\ UNCHANGED <<eventVars, result, inits, conn, connections_, peerVars>>
      /\ handles' = handles \ {Server} /\ UNCHANGED <<conns, socket_>>
  BY DEF TeardownSocket, DropHandle, Goto
<1>2. Down' /\ connections_ = {} /\ conn = NoConn
  BY <1>1 DEF Down, Table, Emptied, InHands, ConnectPc
<1>3. Close(Server)
  BY <1>1 DEF DropHandle, Table, Links
<1>4. ConnTypeOK' /\ \A t \in Sockets : t # Server /\ Live(t) => Live(t)'
  BY <1>1 DEF Objects, Typed, ConnTypeOK, Live
<1>5. Objects'
  BY <1>2, <1>3, <1>4, OwnedClose DEF Objects
<1>6. PcOK' /\ CountOK' /\ PeersOK' /\ TablesOK' /\ Held'
  BY <1>1 DEF PcOK, CountOK, PeersOK, peerVars, TablesOK, EventTypeOK, eventVars, Held
<1>7. Table'
  BY <1>1, <1>2 DEF Table, Links, InHands, Entries, Existing, Buffered, Emptied, ConnectPc
<1>8. SetUp' /\ Watching'
  BY <1>1, <1>2 DEF SetUp, Watching
<1> QED BY <1>5, <1>6, <1>7, <1>8

-------------------------------------------------------------------------------
(* The theorems. *)

LEMMA InvStep == IInv /\ [Next]_vars => IInv'
<1> SUFFICES ASSUME IInv, [Next]_vars PROVE IInv'
  OBVIOUS
<1>1. CASE InitStep
  BY <1>1, ConstructedInv, InitNonBlockInv, InitBindInv, InitListenInv, InitRegisterInv
     DEF InitStep
<1>2. CASE LoopStep
  BY <1>2, CallerInv, OnConnectInv, DeathInv, OnConnectAcceptInv, OnConnectSendInv,
     OnConnectRegisterInv DEF LoopStep, LoopIdle
<1>3. CASE TeardownStep
  BY <1>3, TeardownEventsInv, TeardownConnectionsInv, TeardownSocketInv DEF TeardownStep
<1>4. CASE CallerStep
  BY <1>4, InitCalledInv, CallerInv, DeathInv DEF CallerStep
<1>5. CASE PeerStep
  BY <1>5, PeerStepInv
<1>6. CASE UNCHANGED vars
  BY <1>6, StutterInv
<1> QED BY <1>1, <1>2, <1>3, <1>4, <1>5, <1>6 DEF Next, ServerStep

LEMMA InvHolds == Spec => []IInv
  BY InvInit, InvStep, PTL DEF Spec

\* Type correctness: objects, descriptors, tables and clients keep their types.
THEOREM TypeCorrect == Spec => []TypeOK
<1>1. IInv => TypeOK
  BY DEF IInv, Objects, Typed, PcOK, CountOK, PeersOK, TablesOK, TypeOK
<1> QED BY <1>1, InvHolds, PTL

\* init() is all or nothing towards the loop, however often it is called.
THEOREM InitSoundHolds == Spec => []InitSound
<1>1. IInv => InitSound
  <2> SUFFICES ASSUME IInv, Serving PROVE (result = "SUCCESS" => events_ # {})
        /\ (events_ # {} => /\ events_ = {fd_[Server]}
                            /\ fd_[Server] # NoFd
                            /\ kstate[fd_[Server]] = "listening")
    BY DEF InitSound
  <2>1. ~Down
    BY DEF Serving, Down, TeardownPc
  <2>2. StatusCoherent /\ Watching
    BY <2>1 DEF IInv, Objects, Sound
  <2>3. status_[Server] \in {LISTENED, ACCEPTING}
        => fd_[Server] # NoFd /\ kstate[fd_[Server]] = "listening"
    BY <2>2, ServerIs
       DEF StatusCoherent, StateOf, CREATED, BINDED, LISTENED, ACCEPTING
  <2> QED BY <2>1, <2>2, <2>3 DEF Watching
<1> QED BY <1>1, InvHolds, PTL

\* The table, the connections and the buffer events agree, for any number of
\* clients and connections.
THEOREM TableConsistentHolds == Spec => []TableConsistent
<1>1. IInv => TableConsistent
  BY DEF IInv, Table, Entries, Existing, Buffered, Serving, Down, TeardownPc, TableConsistent
<1> QED BY <1>1, InvHolds, PTL

\* The destructor closes every descriptor and destroys every object.
THEOREM ExitCleanHolds == Spec => []ExitClean
<1>1. IInv => ExitClean
  <2> SUFFICES ASSUME IInv, pc = "exited"
               PROVE  (\A f \in Fds : kstate[f] = "free") /\ conns = {} /\ handles = {}
    BY DEF ExitClean
  <2> USE DEF IInv
  <2>1. handles = {} /\ conns = {}
    BY DEF Held, Table, Emptied, Existing, InHands, ConnectPc
  <2>2. \A c \in Conns : socket_[c] = NoSocket
    BY <2>1 DEF Table, Links
  <2>3. \A s \in Sockets : ~Live(s)
    BY <2>1, <2>2, ServerIs DEF Live
  <2>4. \A s \in Sockets : fd_[s] = NoFd
    BY <2>3 DEF Objects, Owned
  <2>5. \A f \in Fds : kstate[f] = "free"
    BY <2>4, NotNoFd DEF Objects, Owned
  <2> QED BY <2>1, <2>5
<1> QED BY <1>1, InvHolds, PTL

-------------------------------------------------------------------------------
(* An init() that failed with a descriptor. *)

\* The Socket of the server keeps its descriptor until the destructor, and
\* init() does not get past its first call again.
Stuck ==
  /\ result = "INTERNAL_ERR"
  /\ pc \notin InitPc \cup {"ctor"}
  /\ pc \in {"ready", "loop"} \cup ConnectPc => fd_[Server] # NoFd

LEMMA StuckStep == IInv /\ Stuck /\ [Next]_vars => Stuck'
<1> SUFFICES ASSUME IInv, Stuck, [Next]_vars PROVE Stuck'
  OBVIOUS
<1> USE ServerIs DEF Stuck
<1>1. CASE UNCHANGED vars
  BY <1>1 DEF vars, serverVars, socketVars
<1>2. CASE PeerStep
  BY <1>2 DEF PeerStep, serverVars, socketVars
<1>3. CASE InitStep
  BY <1>3 DEF InitStep, Constructed, InitNonBlock, InitBind, InitListen, InitRegister, InitPc
<1>4. CASE InitCalled
  <2>1. PICK f \in Fds \cup {NoFd}, r \in RtspStatus :
          OpenSocket(Server, f, r) /\ Continue(r, "i_nonblock")
    BY <1>4 DEF InitCalled
  <2>2. pc = "ready" /\ fd_[Server] \in Fds
    BY <1>4 DEF InitCalled, IInv, Objects, Typed, SocketTypeOK
  <2>3. Initialized(Server)
    <3>1. \A g \in Fds : g >= 0
      BY FdsAssumption
    <3> QED BY <2>2, <3>1 DEF Initialized
  <2>4. r = "MULTI_OPERATOR" /\ fd_' = fd_
    BY <2>1, <2>3 DEF OpenSocket, Refuse, socketVars
  <2> QED BY <2>1, <2>2, <2>4 DEF Continue, Goto, InitPc, ConnectPc
<1>5. CASE Start \/ LoopReturns \/ Destroy
  BY <1>5 DEF Start, LoopReturns, Destroy, Goto, InitPc, ConnectPc, socketVars
<1>6. CASE ConstructorThrows \/ OnConnectSigpipe \/ OnConnectNull \/ BufferCallback
  BY <1>6 DEF ConstructorThrows, OnConnectSigpipe, ConnSendKilled, SendKilled, OnConnectNull,
              NullSocketUsed, BufferCallback, serverVars, socketVars
<1>7. CASE OnConnect \/ OnConnectSend
  BY <1>7 DEF OnConnect, CreateConn, OnConnectSend, ConnSend, Send, Goto, InitPc, ConnectPc,
              socketVars
<1>8. CASE OnConnectAccept
  <2>1. PICK n \in Sockets, f \in Fds \cup {NoFd}, r \in RtspStatus :
          AcceptInto(Server, conn, n, f, r)
    BY <1>8 DEF OnConnectAccept
  <2>2. pc = "c_accept" /\ pc' = "c_send" /\ result' = result
    BY <1>8 DEF OnConnectAccept, Goto
  <2>3. fd_'[Server] = fd_[Server]
    <3>1. CASE UNCHANGED fd_
      BY <3>1
    <3>2. CASE ~Live(n) /\ fd_' = [fd_ EXCEPT ![n] = f]
      BY <2>2, <3>2, ServerLives DEF IInv, Objects, Typed, SocketTypeOK
    <3> QED BY <2>1, <3>1, <3>2 DEF AcceptInto, Accepted, Refuse, socketVars
  <2> QED BY <2>2, <2>3 DEF InitPc, ConnectPc
<1>9. CASE OnConnectRegister
  <2>1. pc = "c_register" /\ pc' = "loop" /\ result' = result
    BY <1>9 DEF OnConnectRegister, Goto
  <2>2. conn \in Conns
    BY <2>1 DEF IInv, TablesOK, Table, InHands, ConnectPc
  <2>3. fd_'[Server] = fd_[Server]
    BY <1>9, <2>2, DestroyedConn DEF OnConnectRegister, IInv, Objects, Table, socketVars
  <2> QED BY <2>1, <2>3 DEF InitPc, ConnectPc
<1>10. CASE TeardownStep
  BY <1>10 DEF TeardownStep, TeardownEvents, TeardownConnections, TeardownSocket, Goto, InitPc,
               ConnectPc
<1> QED
  BY <1>1, <1>2, <1>3, <1>4, <1>5, <1>6, <1>7, <1>8, <1>9, <1>10
     DEF Next, ServerStep, LoopStep, LoopIdle, CallerStep

\* An init() that failed after socket(2) is final: no later one succeeds.
THEOREM InitFailureFinalHolds == Spec => InitFailureFinal
<1>1. pc = "ready" /\ result = "INTERNAL_ERR" /\ fd_[Server] # NoFd => Stuck
  BY DEF Stuck, InitPc
<1>2. Stuck => result # "SUCCESS"
  BY DEF Stuck
<1> QED BY <1>1, <1>2, StuckStep, InvHolds, PTL DEF Spec, InitFailureFinal
===============================================================================

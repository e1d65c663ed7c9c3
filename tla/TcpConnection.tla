----------------------------- MODULE TcpConnection ----------------------------
(***************************************************************************)
(* network/tcp_connection.cpp, with the part of network/socket.cpp that    *)
(* hands an accepted Socket to a connection, and the shared_ptrs that keep *)
(* Socket objects alive: a Socket is destroyed, and its descriptor closed, *)
(* when the last of them goes.                                             *)
(*                                                                         *)
(* Definitions called Bad... are mutated forms of the definition after     *)
(* them; no specification uses them.                                       *)
(***************************************************************************)
EXTENDS Socket

CONSTANT Conns    \* the TcpConnection objects, each reused once destroyed

VARIABLES
  handles,    \* Sockets that a shared_ptr outside of the connections holds
  conns,      \* connections that exist
  socket_     \* the member of each connection; NoSocket is the null pointer

connVars == <<handles, conns, socket_>>

ConnTypeOK ==
  /\ handles \subseteq Sockets
  /\ conns \subseteq Conns
  /\ socket_ \in [Conns -> Sockets \cup {NoSocket}]

ConnInit ==
  /\ handles = {}
  /\ conns = {}
  /\ socket_ = [c \in Conns |-> NoSocket]

Live(s) == s \in handles \/ \E c \in Conns : socket_[c] = s

\* Socket::create
CreateSocket(s, type) ==
  /\ ~Live(s)
  /\ Construct(s, type)
  /\ handles' = handles \cup {s}
  /\ UNCHANGED <<conns, socket_, kernelVars>>

\* TcpConnection::create
CreateConn(c) ==
  /\ c \notin conns
  /\ conns' = conns \cup {c}
  /\ UNCHANGED <<handles, socket_, socketVars, kernelVars>>

\* The last handle goes without the descriptor being closed.
BadDropHandle(s) ==
  /\ s \in handles
  /\ handles' = handles \ {s}
  /\ UNCHANGED <<conns, socket_, socketVars, kernelVars>>

\* A shared_ptr outside of the connections is reset.
DropHandle(s) ==
  /\ s \in handles
  /\ handles' = handles \ {s}
  /\ IF \E c \in Conns : socket_[c] = s
     THEN UNCHANGED <<socketVars, kernelVars>>
     ELSE Close(s)
  /\ UNCHANGED <<conns, socket_>>

\* TcpConnection::accept, called by its user.
Attach(c, s, r) ==
  \/ socket_[c] # NoSocket /\ Refuse(r, "MULTI_OPERATOR") /\ UNCHANGED connVars
  \/ /\ socket_[c] = NoSocket
     /\ r = "SUCCESS"
     /\ socket_' = [socket_ EXCEPT ![c] = s]
     /\ UNCHANGED <<handles, conns, socketVars, kernelVars>>

\* Accepts again on a socket that has accepted before.
BadCanAccept(s) == type_[s] = "TCP" /\ status_[s] \in {LISTENED, ACCEPTING}

CanAccept(s) == type_[s] = "TCP" /\ status_[s] = LISTENED

\* A Socket made by create_from_accept is connected even when f is NoFd.
Accepted(l, n, f) ==
  /\ type_' = [type_ EXCEPT ![n] = "TCP"]
  /\ fd_' = [fd_ EXCEPT ![n] = f]
  /\ status_' = [status_ EXCEPT ![l] = ACCEPTING, ![n] = CONNETED]
  /\ connected_' = [connected_ EXCEPT ![n] = TRUE]

\* Gives the connection a Socket whose descriptor has been closed.
BadAcceptInto(l, c, n, f, r) ==
  \/ ~CanAccept(l) /\ f = NoFd /\ Refuse(r, "ILLEGAL_PARAMS") /\ UNCHANGED connVars
  \/ /\ CanAccept(l)
     /\ ~Live(n)
     /\ r = "SUCCESS"
     /\ socket_[c] = NoSocket
     /\ SysAcceptAndClose(fd_[l], f)
     /\ Accepted(l, n, f)
     /\ socket_' = [socket_ EXCEPT ![c] = n]
     /\ UNCHANGED <<handles, conns>>

\* Socket::accept on l for connection c: accept(2) returned f and n is the
\* Socket made of it. The result of conn->accept is not looked at: when c
\* already has a Socket, n is destroyed on return and closes f again.
AcceptInto(l, c, n, f, r) ==
  \/ ~CanAccept(l) /\ f = NoFd /\ Refuse(r, "ILLEGAL_PARAMS") /\ UNCHANGED connVars
  \/ /\ CanAccept(l)
     /\ ~Live(n)
     /\ r = "SUCCESS"
     /\ \/ /\ socket_[c] = NoSocket
           /\ SysAccept(fd_[l], f)
           /\ Accepted(l, n, f)
           /\ socket_' = [socket_ EXCEPT ![c] = n]
        \/ /\ socket_[c] # NoSocket
           /\ SysAcceptAndClose(fd_[l], f)
           /\ status_' = [status_ EXCEPT ![l] = ACCEPTING]
           /\ UNCHANGED <<type_, fd_, connected_, socket_>>
     /\ UNCHANGED <<handles, conns>>

\* TcpConnection::disconnect
Disconnect(c) ==
  /\ socket_[c] # NoSocket
  /\ Close(socket_[c])
  /\ UNCHANGED connVars

\* TcpConnection::~TcpConnection: disconnect(), then the member is released.
DestroyConn(c) ==
  /\ socket_[c] # NoSocket
  /\ Close(socket_[c])
  /\ conns' = conns \ {c}
  /\ socket_' = [socket_ EXCEPT ![c] = NoSocket]
  /\ UNCHANGED handles

\* TcpConnection::send
ConnSend(c, size, n, r) ==
  /\ socket_[c] # NoSocket
  /\ Send(socket_[c], size, n, r)
  /\ UNCHANGED connVars

ConnSendKilled(c) ==
  /\ socket_[c] # NoSocket
  /\ SendKilled(socket_[c])
  /\ UNCHANGED connVars

\* disconnect(), send() and the destructor call a member function of *socket_
\* without looking at the pointer.
NullSocketUsed(c) ==
  /\ socket_[c] = NoSocket
  /\ Die("segv")
  /\ UNCHANGED <<socketVars, connVars>>

-------------------------------------------------------------------------------
(* Properties of the objects and the descriptors together. *)

\* A descriptor belongs to one Socket: it is open as long as a live Socket
\* holds its number, and no two Sockets hold the same. So none leaks, none is
\* closed twice, and no Socket works on a number the system has given to
\* another.
DescriptorOwned ==
  /\ \A s \in Sockets : fd_[s] # NoFd => Live(s) /\ kstate[fd_[s]] # "free"
  /\ \A f \in Fds : kstate[f] # "free" => \E s \in Sockets : fd_[s] = f
  /\ \A s, t \in Sockets : s # t /\ fd_[s] = fd_[t] => fd_[s] = NoFd

\* What the system has been asked to do for a socket, by its status.
StateOf(status) ==
  CASE status = CREATED -> "created"
    [] status = BINDED -> "bound"
    [] status \in {LISTENED, ACCEPTING} -> "listening"
    [] OTHER -> "connected"

\* status_ never claims more or less than the system has done: a Socket
\* without a descriptor is uninitialised (or was made of a failed accept), and
\* one with a descriptor is in the state and has the protocol it says.
StatusCoherent ==
  \A s \in Sockets :
    /\ status_[s] \in CREATED .. ACCEPTING => fd_[s] # NoFd
    /\ fd_[s] # NoFd =>
         /\ status_[s] # UNINITIALIZED
         /\ kstate[fd_[s]] = StateOf(status_[s])
         /\ kproto[fd_[s]] = type_[s]
    /\ connected_[s] <=> status_[s] = CONNETED
===============================================================================

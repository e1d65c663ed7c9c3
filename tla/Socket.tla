-------------------------------- MODULE Socket --------------------------------
(***************************************************************************)
(* network/socket.cpp: the class Socket, a descriptor with the status of   *)
(* the set-up calls made on it. Operators take the object s and the        *)
(* RtspStatus r that the call returns; Socket::accept, which needs a       *)
(* connection, is in TcpConnection.                                        *)
(*                                                                         *)
(* Socket::connect and Socket::set_block are compiled down to a return     *)
(* statement and have no operator here.                                    *)
(*                                                                         *)
(* Definitions called Bad... are mutated forms of the definition after     *)
(* them; no specification uses them.                                       *)
(***************************************************************************)
EXTENDS Kernel

CONSTANTS
  Sockets,      \* the Socket objects, each reused once it is destroyed
  NoSocket,     \* a null shared_ptr<Socket>
  SizeModulus   \* the values of size_t

ASSUME SocketAssumption ==
  /\ NoSocket \notin Sockets
  /\ SizeModulus \in Nat \ {0}

VARIABLES
  type_, fd_, status_, connected_     \* the members of each object

socketVars == <<type_, fd_, status_, connected_>>

\* SocketStat
UNINITIALIZED == 0
CREATED == 1
BINDED == 2
LISTENED == 3
ACCEPTING == 4
CONNETED == 5
SocketStat == UNINITIALIZED .. CONNETED

RtspStatus == {"SUCCESS", "MULTI_OPERATOR", "UNINITIALIZED", "ILLEGAL_PARAMS",
               "IO_OPERATOR_ERR"}

SocketTypeOK ==
  /\ type_ \in [Sockets -> Protocol]
  /\ fd_ \in [Sockets -> Fds \cup {NoFd}]
  /\ status_ \in [Sockets -> SocketStat]
  /\ connected_ \in [Sockets -> BOOLEAN]

SocketInit ==
  /\ type_ = [s \in Sockets |-> "UDP"]
  /\ fd_ = [s \in Sockets |-> NoFd]
  /\ status_ = [s \in Sockets |-> UNINITIALIZED]
  /\ connected_ = [s \in Sockets |-> FALSE]

\* The call does nothing but return.
Refuse(r, status) == r = status /\ UNCHANGED <<socketVars, kernelVars>>

\* Leaves fd_ uninitialised.
BadConstruct(s, type) ==
  /\ type_' = [type_ EXCEPT ![s] = type]
  /\ fd_' = [fd_ EXCEPT ![s] = -2]
  /\ status_' = [status_ EXCEPT ![s] = UNINITIALIZED]
  /\ connected_' = [connected_ EXCEPT ![s] = FALSE]

\* Socket::Socket() and Socket::Socket(SocketType)
Construct(s, type) ==
  /\ type_' = [type_ EXCEPT ![s] = type]
  /\ fd_' = [fd_ EXCEPT ![s] = NoFd]
  /\ status_' = [status_ EXCEPT ![s] = UNINITIALIZED]
  /\ connected_' = [connected_ EXCEPT ![s] = FALSE]

-------------------------------------------------------------------------------

Initialized(s) == status_[s] > UNINITIALIZED \/ fd_[s] >= 0

\* Changes the type whatever the state of the socket.
BadSetType(s, type, r) ==
  /\ r = "SUCCESS"
  /\ type_' = [type_ EXCEPT ![s] = type]
  /\ UNCHANGED <<fd_, status_, connected_, kernelVars>>

SetType(s, type, r) ==
  \/ Initialized(s) /\ Refuse(r, "MULTI_OPERATOR")
  \/ /\ ~Initialized(s)
     /\ r = "SUCCESS"
     /\ type_' = [type_ EXCEPT ![s] = type]
     /\ UNCHANGED <<fd_, status_, connected_, kernelVars>>

\* Opens a new descriptor over the one the object holds.
BadOpenSocket(s, f, r) ==
  /\ SysSocket(type_[s], f)
  /\ fd_' = [fd_ EXCEPT ![s] = f]
  /\ IF f = NoFd
     THEN r = "IO_OPERATOR_ERR" /\ UNCHANGED status_
     ELSE r = "SUCCESS" /\ status_' = [status_ EXCEPT ![s] = CREATED]
  /\ UNCHANGED <<type_, connected_>>

\* Socket::init
OpenSocket(s, f, r) ==
  \/ Initialized(s) /\ f = NoFd /\ Refuse(r, "MULTI_OPERATOR")
  \/ /\ ~Initialized(s)
     /\ SysSocket(type_[s], f)
     /\ fd_' = [fd_ EXCEPT ![s] = f]
     /\ IF f = NoFd
        THEN r = "IO_OPERATOR_ERR" /\ UNCHANGED status_
        ELSE r = "SUCCESS" /\ status_' = [status_ EXCEPT ![s] = CREATED]
     /\ UNCHANGED <<type_, connected_>>

\* Socket::close, which disconnect() and the destructor call too.
Close(s) ==
  /\ SysClose(fd_[s])
  /\ fd_' = [fd_ EXCEPT ![s] = NoFd]
  /\ connected_' = [connected_ EXCEPT ![s] = FALSE]
  /\ status_' = [status_ EXCEPT ![s] = UNINITIALIZED]
  /\ UNCHANGED type_

\* The outcome of a system call that moves the status on to next.
Step(s, next, ok, r) ==
  /\ r = IF ok THEN "SUCCESS" ELSE "IO_OPERATOR_ERR"
  /\ status_' = IF ok THEN [status_ EXCEPT ![s] = next] ELSE status_
  /\ UNCHANGED <<type_, fd_, connected_>>

\* The address is ignored: the socket is bound to INADDR_ANY.
Bind(s, r) ==
  \/ status_[s] # CREATED /\ Refuse(r, "UNINITIALIZED")
  \/ /\ status_[s] = CREATED
     /\ \E ok \in BOOLEAN : SysBind(fd_[s], ok) /\ Step(s, BINDED, ok, r)

CanListen(s) == type_[s] = "TCP" /\ status_[s] = BINDED

\* Sets the status before it looks at what listen(2) returned.
BadListen(s, r) ==
  \/ ~CanListen(s) /\ Refuse(r, "ILLEGAL_PARAMS")
  \/ /\ CanListen(s)
     /\ \E ok \in BOOLEAN :
          /\ SysListen(fd_[s], ok)
          /\ r = IF ok THEN "SUCCESS" ELSE "IO_OPERATOR_ERR"
          /\ status_' = [status_ EXCEPT ![s] = LISTENED]
          /\ UNCHANGED <<type_, fd_, connected_>>

Listen(s, r) ==
  \/ ~CanListen(s) /\ Refuse(r, "ILLEGAL_PARAMS")
  \/ /\ CanListen(s)
     /\ \E ok \in BOOLEAN : SysListen(fd_[s], ok) /\ Step(s, LISTENED, ok, r)

\* A failure of the second fcntl is not returned: its status is an
\* expression statement.
SetNonBlock(s, r) ==
  \/ status_[s] < CREATED /\ Refuse(r, "UNINITIALIZED")
  \/ /\ status_[s] >= CREATED
     /\ SysGetFlags(fd_[s], FALSE)
     /\ Refuse(r, "IO_OPERATOR_ERR")
  \/ /\ status_[s] >= CREATED
     /\ SysGetFlags(fd_[s], TRUE)
     /\ r = "SUCCESS"
     /\ \E ok \in BOOLEAN : SysSetFlags(fd_[s], ok)
     /\ UNCHANGED socketVars

\* The conversion that comparing a ssize_t with a size_t applies to the former.
AsSizeT(n) == n % SizeModulus

\* Socket::send when send(2) returned n. The status is not looked at.
Send(s, size, n, r) ==
  /\ n \in SendResults(fd_[s], size)
  /\ r = IF AsSizeT(n) < size THEN "IO_OPERATOR_ERR" ELSE "SUCCESS"
  /\ UNCHANGED <<socketVars, kernelVars>>

\* Socket::send when send(2) raised SIGPIPE.
SendKilled(s) ==
  /\ MayRaiseSigpipe(fd_[s])
  /\ Die("sigpipe")
  /\ UNCHANGED socketVars
===============================================================================

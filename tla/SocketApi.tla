------------------------------- MODULE SocketApi ------------------------------
(***************************************************************************)
(* Every sequence of calls that one thread can make on the public          *)
(* interface of Socket and TcpConnection: sockets and connections are      *)
(* created, shared, used in any order and released, the system calls       *)
(* behind them succeed or fail, and a null pointer or SIGPIPE ends the     *)
(* process.                                                                *)
(***************************************************************************)
EXTENDS TcpConnection

CONSTANT Sizes    \* how many bytes a call of send() offers

ASSUME SizesAssumption == Sizes \subseteq 1 .. (SizeModulus - 1)

VARIABLES
  last,     \* what the last call returned; for send(), what it moved
  given     \* history: the connections accept(2) has returned on a
            \* descriptor since it was opened

vars == <<kernelVars, socketVars, connVars, last, given>>

Moved == 0 .. (SizeModulus - 1)

TypeOK ==
  /\ KernelTypeOK /\ SocketTypeOK /\ ConnTypeOK
  /\ last \in [ret : RtspStatus, asked : Sizes \cup {0}, moved : Moved \cup {-1}]
  /\ given \in [Fds -> Nat]

Returned(r) == [ret |-> r, asked |-> 0, moved |-> 0]

Init ==
  /\ KernelInit /\ SocketInit /\ ConnInit
  /\ last = Returned("SUCCESS")
  /\ given = [f \in Fds |-> 0]

\* accept(2) has returned a connection on the descriptors in F, and what was
\* counted for a descriptor ends with it.
GivenOn(F) ==
  given' = [f \in Fds |-> IF kstate'[f] = "free" THEN 0
                          ELSE IF f \in F THEN given[f] + 1 ELSE given[f]]

\* A call on an object that exists, returning r.
Call(op) == op /\ UNCHANGED connVars

UseSocket(s) ==
  \E r \in RtspStatus :
    /\ last' = Returned(r)
    /\ \/ \E type \in Protocol : Call(SetType(s, type, r))
       \/ \E f \in Fds \cup {NoFd} : Call(OpenSocket(s, f, r))
       \/ Call(Bind(s, r))
       \/ Call(Listen(s, r))
       \/ Call(SetNonBlock(s, r))
       \/ r = "SUCCESS" /\ Call(Close(s))
       \/ \E c \in conns : Attach(c, s, r)

Accept(s) ==
  \E c \in conns, n \in Sockets, f \in Fds \cup {NoFd}, r \in RtspStatus :
    /\ AcceptInto(s, c, n, f, r)
    /\ last' = Returned(r)
    /\ GivenOn(IF f = NoFd THEN {} ELSE {fd_[s]})

SendOn(s) ==
  \E size \in Sizes, r \in RtspStatus :
    \E n \in SendResults(fd_[s], size) :
      /\ Call(Send(s, size, n, r))
      /\ last' = [ret |-> r, asked |-> size, moved |-> n]

UseConn(c) ==
  \/ \E s \in {socket_[c]} \ {NoSocket}, size \in Sizes, r \in RtspStatus :
       \E n \in SendResults(fd_[s], size) :
         /\ ConnSend(c, size, n, r)
         /\ last' = [ret |-> r, asked |-> size, moved |-> n]
  \/ (Disconnect(c) \/ DestroyConn(c)) /\ last' = Returned("SUCCESS")

Killed ==
  /\ \/ \E s \in handles : Call(SendKilled(s))
     \/ \E c \in conns : ConnSendKilled(c) \/ NullSocketUsed(c)
  /\ UNCHANGED last

Lifetime ==
  /\ \/ \E s \in Sockets, type \in Protocol : CreateSocket(s, type)
     \/ \E c \in Conns : CreateConn(c)
     \/ \E s \in handles : DropHandle(s)
  /\ last' = Returned("SUCCESS")

Next ==
  \/ /\ proc = "running"
     /\ \/ \E s \in handles : UseSocket(s) \/ SendOn(s)
        \/ \E c \in conns : UseConn(c)
        \/ Killed
        \/ Lifetime
     /\ GivenOn({})
  \/ proc = "running" /\ \E s \in handles : Accept(s)
  \/ proc # "running" /\ UNCHANGED vars

Spec == Init /\ [][Next]_vars

-------------------------------------------------------------------------------
(* Properties, besides DescriptorOwned and StatusCoherent of TcpConnection. *)

\* A call that reports an error has changed no object and no descriptor, so the
\* caller may go on as if it had not been made. (What a short send() has put
\* on the wire is not part of the state.)
ErrorsChangeNothing ==
  [][proc' = "running" /\ last'.ret # "SUCCESS" =>
       UNCHANGED <<kernelVars, socketVars, connVars>>]_vars

\* A listening descriptor gives out at most one connection between socket(2)
\* and close(2), whatever is called on its Socket: no sequence of init(),
\* bind(), listen(), set_non_block() and accept() makes a Socket that has
\* accepted accept again, unless close() has taken the descriptor away. An
\* accept(2) that failed counts for nothing, and one whose connection is closed
\* at once because nobody takes it counts.
OneAccept == \A f \in Fds : given[f] <= 1

\* "Send socket {} failed" (socket.cpp:216) is what the code says when less
\* was sent than asked, with IO_OPERATOR_ERR: a send that moved nothing or
\* not everything never reports success.
SendFailureReported == last.ret = "SUCCESS" => last.moved = last.asked
===============================================================================

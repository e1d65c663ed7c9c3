---------------------------- MODULE SocketApiProofs ---------------------------
(***************************************************************************)
(* Proofs about SocketApi: whatever is called, in whatever order, on any   *)
(* number of sockets and connections, the objects agree with the           *)
(* descriptors of the process.                                             *)
(***************************************************************************)
EXTENDS SocketApi, TcpConnectionProofs

LastOK == last \in [ret : RtspStatus, asked : Sizes \cup {0}, moved : Moved \cup {-1}]

GivenOK == given \in [Fds -> Nat]

Inv == Sound /\ LastOK /\ GivenOK

LEMMA ReturnedOK ==
  ASSUME NEW r \in RtspStatus
  PROVE  Returned(r) \in [ret : RtspStatus, asked : Sizes \cup {0}, moved : Moved \cup {-1}]
BY SocketAssumption DEF Returned, Moved

LEMMA SentOK ==
  ASSUME NEW s \in Sockets, NEW size \in Sizes, NEW n \in SendResults(fd_[s], size),
         NEW r \in RtspStatus
  PROVE  [ret |-> r, asked |-> size, moved |-> n]
           \in [ret : RtspStatus, asked : Sizes \cup {0}, moved : Moved \cup {-1}]
<1>1. size \in 1 .. (SizeModulus - 1) /\ SizeModulus \in Nat
  BY SizesAssumption, SocketAssumption
<1>2. n \in {-1} \cup 1 .. size
  BY DEF SendResults
<1>3. n \in Moved \cup {-1}
  BY <1>1, <1>2 DEF Moved
<1> QED BY <1>3

LEMMA GivenStep ==
  ASSUME GivenOK, NEW F, GivenOn(F)
  PROVE  GivenOK'
BY DEF GivenOK, GivenOn

LEMMA InvInit == Init => Inv
<1>1. "SUCCESS" \in RtspStatus
  BY DEF RtspStatus
<1> QED BY <1>1, SoundInit, ReturnedOK DEF Init, Inv, LastOK, GivenOK

\* What a call preserves beside the history.
Objects == Sound /\ LastOK

\* The calls on a Socket, by what they do to the objects.
LEMMA UseSocketStep ==
  ASSUME Objects, NEW s \in handles, UseSocket(s)
  PROVE  Objects'
<1>1. s \in Sockets /\ Live(s)
  BY DEF Objects, Sound, Typed, ConnTypeOK, Live
<1>2. PICK r \in RtspStatus :
        /\ last' = Returned(r)
        /\ \/ \E type \in Protocol : Call(SetType(s, type, r))
           \/ \E f \in Fds \cup {NoFd} : Call(OpenSocket(s, f, r))
           \/ Call(Bind(s, r))
           \/ Call(Listen(s, r))
           \/ Call(SetNonBlock(s, r))
           \/ r = "SUCCESS" /\ Call(Close(s))
           \/ \E c \in conns : Attach(c, s, r)
  BY DEF UseSocket
<1>3. LastOK'
  BY <1>2, ReturnedOK DEF LastOK
<1>4. conns \subseteq Conns
  BY DEF Objects, Sound, Typed, ConnTypeOK
<1>5. Sound'
  BY <1>1, <1>2, <1>4, SoundSetType, SoundOpenSocket, SoundBind, SoundListen,
     SoundSetNonBlock, SoundCloseCall, SoundAttach DEF Call, Objects
<1> QED BY <1>3, <1>5 DEF Objects

LEMMA AcceptStep ==
  ASSUME Objects, NEW s \in handles, Accept(s)
  PROVE  Objects'
<1>1. s \in Sockets /\ Live(s) /\ conns \subseteq Conns
  BY DEF Objects, Sound, Typed, ConnTypeOK, Live
<1>2. Sound'
  BY <1>1, SoundAccept DEF Accept, Objects
<1>3. LastOK'
  BY ReturnedOK DEF Accept, LastOK
<1> QED BY <1>2, <1>3 DEF Objects

LEMMA SendStep ==
  ASSUME Objects, NEW s \in Sockets, NEW size \in Sizes, NEW r \in RtspStatus,
         NEW n \in SendResults(fd_[s], size), Call(Send(s, size, n, r)),
         last' = [ret |-> r, asked |-> size, moved |-> n]
  PROVE  Objects'
<1>1. LastOK'
  BY SentOK DEF LastOK
<1>2. Sound'
  BY SoundSend DEF Objects, Call
<1> QED BY <1>1, <1>2 DEF Objects

LEMMA UseConnStep ==
  ASSUME Objects, NEW c \in conns, UseConn(c)
  PROVE  Objects'
<1>0. c \in Conns
  BY DEF Objects, Sound, Typed, ConnTypeOK
<1>1. ASSUME NEW s \in {socket_[c]} \ {NoSocket}, NEW size \in Sizes, NEW r \in RtspStatus,
             NEW n \in SendResults(fd_[s], size), ConnSend(c, size, n, r),
             last' = [ret |-> r, asked |-> size, moved |-> n]
      PROVE  Objects'
  <2>1. s \in Sockets /\ s = socket_[c]
    BY <1>0 DEF Objects, Sound, Typed, ConnTypeOK
  <2>2. Call(Send(s, size, n, r))
    BY <1>1, <2>1 DEF ConnSend, Call
  <2> QED BY <1>1, <2>1, <2>2, SendStep
<1>2. CASE (Disconnect(c) \/ DestroyConn(c)) /\ last' = Returned("SUCCESS")
  <2>1. Sound'
    BY <1>0, <1>2, SoundDisconnect, SoundDestroyConn DEF Objects
  <2>2. LastOK'
    BY <1>2, ReturnedOK DEF LastOK, RtspStatus
  <2> QED BY <2>1, <2>2 DEF Objects
<1> QED BY <1>1, <1>2 DEF UseConn

LEMMA KilledStep == Objects /\ Killed => Objects'
<1> SUFFICES ASSUME Objects, Killed PROVE Objects'
  OBVIOUS
<1>1. /\ Die("sigpipe") \/ Die("segv")
      /\ UNCHANGED <<socketVars, connVars>>
      /\ last' = last
  BY DEF Killed, Call, SendKilled, ConnSendKilled, NullSocketUsed
<1>2. "sigpipe" \in ProcState /\ "segv" \in ProcState
  BY DEF ProcState
<1>3. Sound'
  BY <1>1, <1>2, SoundDie DEF Objects
<1> QED BY <1>1, <1>3 DEF Objects, LastOK

LEMMA LifetimeStep == Objects /\ Lifetime => Objects'
<1> SUFFICES ASSUME Objects, Lifetime PROVE Objects'
  OBVIOUS
<1>1. handles \subseteq Sockets
  BY DEF Objects, Sound, Typed, ConnTypeOK
<1>2. Sound'
  BY <1>1, SoundCreateSocket, SoundCreateConn, SoundDropHandle DEF Lifetime, Objects
<1>3. LastOK'
  BY ReturnedOK DEF Lifetime, LastOK, RtspStatus
<1> QED BY <1>2, <1>3 DEF Objects

LEMMA InvStep == Inv /\ [Next]_vars => Inv'
<1> SUFFICES ASSUME Inv, [Next]_vars PROVE Inv'
  OBVIOUS
<1>0. Objects /\ GivenOK
  BY DEF Inv, Objects
<1>1. CASE UNCHANGED vars
  <2>1. UNCHANGED objectVars /\ last' = last /\ given' = given
    BY <1>1 DEF vars, objectVars
  <2> QED BY <2>1, <1>0, SoundStutter DEF Inv, Objects, LastOK, GivenOK
<1>2. ASSUME NEW s \in handles, SendOn(s) PROVE Objects'
  <2>1. s \in Sockets
    BY <1>0 DEF Objects, Sound, Typed, ConnTypeOK
  <2> QED BY <1>0, <1>2, <2>1, SendStep DEF SendOn
<1>3. CASE Next /\ proc = "running"
  <2>1. GivenOK'
    BY <1>0, <1>3, GivenStep DEF Next, Accept
  <2>2. Objects'
    BY <1>0, <1>2, <1>3, UseSocketStep, UseConnStep, KilledStep, LifetimeStep, AcceptStep
       DEF Next
  <2> QED BY <2>1, <2>2 DEF Inv, Objects
<1> QED BY <1>1, <1>3 DEF Next

LEMMA InvCorrect == Spec => []Inv
  BY InvInit, InvStep, PTL DEF Spec

\* Every object, descriptor and result keeps its type.
THEOREM TypeCorrect == Spec => []TypeOK
<1>1. Inv => TypeOK
  BY DEF Inv, LastOK, GivenOK, Sound, Typed, TypeOK
<1> QED BY <1>1, InvCorrect, PTL

\* Each open descriptor belongs to one live Socket, and to no other.
THEOREM DescriptorOwnedCorrect == Spec => []DescriptorOwned
<1>1. Inv => DescriptorOwned
  BY DEF Inv, Sound
<1> QED BY <1>1, InvCorrect, PTL

\* The status of a Socket is what the system has done for its descriptor.
THEOREM StatusCoherentCorrect == Spec => []StatusCoherent
<1>1. Inv => StatusCoherent
  BY DEF Inv, Sound
<1> QED BY <1>1, InvCorrect, PTL

-------------------------------------------------------------------------------
(* What a call that reports an error has done: nothing. *)

LEMMA OpenSocketError ==
  ASSUME Sound, NEW s \in Sockets, NEW f \in Fds \cup {NoFd}, NEW r,
         OpenSocket(s, f, r), r # "SUCCESS"
  PROVE  UNCHANGED <<kernelVars, socketVars>>
<1>1. CASE Refuse(r, "MULTI_OPERATOR")
  BY <1>1 DEF Refuse
<1>2. CASE /\ ~Initialized(s)
           /\ f = NoFd
           /\ SysSocket(type_[s], f)
           /\ fd_' = [fd_ EXCEPT ![s] = NoFd]
           /\ UNCHANGED <<type_, status_, connected_>>
  <2>1. UNCHANGED kernelVars
    BY <1>2, NotNoFd DEF SysSocket, Open
  <2>2. fd_' = fd_
    BY <1>2, Uninitialized DEF Sound, Typed, SocketTypeOK
  <2> QED BY <1>2, <2>1, <2>2 DEF socketVars
<1> QED BY <1>1, <1>2 DEF OpenSocket

LEMMA StepError ==
  ASSUME NEW s, NEW next, NEW ok \in BOOLEAN, NEW r, NEW f, NEW from, NEW to,
         Step(s, next, ok, r), Advance(f, from, to, ok), r # "SUCCESS"
  PROVE  UNCHANGED <<kernelVars, socketVars>>
<1>1. ~ok
  BY DEF Step
<1> QED BY <1>1 DEF Step, Advance, kernelVars, socketVars

LEMMA UseSocketError ==
  ASSUME Inv, NEW s \in handles, UseSocket(s), last'.ret # "SUCCESS"
  PROVE  UNCHANGED objectVars
<1>1. s \in Sockets
  BY DEF Inv, Sound, Typed, ConnTypeOK
<1>2. PICK r \in RtspStatus :
        /\ last' = Returned(r)
        /\ \/ \E type \in Protocol : Call(SetType(s, type, r))
           \/ \E f \in Fds \cup {NoFd} : Call(OpenSocket(s, f, r))
           \/ Call(Bind(s, r))
           \/ Call(Listen(s, r))
           \/ Call(SetNonBlock(s, r))
           \/ r = "SUCCESS" /\ Call(Close(s))
           \/ \E c \in conns : Attach(c, s, r)
  BY DEF UseSocket
<1>3. r # "SUCCESS"
  BY <1>2 DEF Returned
<1>4. ASSUME NEW type \in Protocol, Call(SetType(s, type, r)) PROVE UNCHANGED objectVars
  BY <1>3, <1>4 DEF Call, SetType, Refuse, objectVars
<1>5. ASSUME NEW f \in Fds \cup {NoFd}, Call(OpenSocket(s, f, r)) PROVE UNCHANGED objectVars
  BY <1>1, <1>3, <1>5, OpenSocketError DEF Call, Inv, objectVars
<1>6. CASE Call(Bind(s, r))
  BY <1>3, <1>6, StepError DEF Call, Bind, Refuse, SysBind, objectVars
<1>7. CASE Call(Listen(s, r))
  BY <1>3, <1>7, StepError DEF Call, Listen, Refuse, SysListen, objectVars
<1>8. CASE Call(SetNonBlock(s, r))
  BY <1>3, <1>8 DEF Call, SetNonBlock, Refuse, objectVars
<1>9. ASSUME NEW c \in conns, Attach(c, s, r) PROVE UNCHANGED objectVars
  BY <1>3, <1>9 DEF Attach, Refuse, objectVars
<1> QED BY <1>2, <1>3, <1>4, <1>5, <1>6, <1>7, <1>8, <1>9

\* A call that reports an error has changed neither an object nor a descriptor.
THEOREM ErrorsChangeNothingCorrect == Spec => ErrorsChangeNothing
<1>1. Inv /\ [Next]_vars =>
        [proc' = "running" /\ last'.ret # "SUCCESS" =>
           UNCHANGED <<kernelVars, socketVars, connVars>>]_vars
  <2> SUFFICES ASSUME Inv, [Next]_vars, proc' = "running", last'.ret # "SUCCESS"
               PROVE  UNCHANGED objectVars
    BY DEF objectVars
  <2>1. ASSUME NEW s \in handles, SendOn(s) PROVE UNCHANGED objectVars
    BY <2>1 DEF SendOn, Call, Send, objectVars
  <2>2. ASSUME NEW c \in conns, UseConn(c) PROVE UNCHANGED objectVars
    BY <2>2 DEF UseConn, ConnSend, Send, Returned, objectVars
  <2>3. ~Killed
    BY DEF Killed, Call, SendKilled, ConnSendKilled, NullSocketUsed, Die
  <2>4. ~Lifetime
    BY DEF Lifetime, Returned
  <2>5. UNCHANGED vars => UNCHANGED objectVars
    BY DEF vars, objectVars
  <2>6. ASSUME NEW s \in handles, Accept(s) PROVE UNCHANGED objectVars
    BY <2>6 DEF Accept, AcceptInto, Refuse, Returned, objectVars
  <2> QED BY <2>1, <2>2, <2>3, <2>4, <2>5, <2>6, UseSocketError DEF Next
<1> QED BY <1>1, InvCorrect, PTL DEF Spec, ErrorsChangeNothing

-------------------------------------------------------------------------------
(* A Socket that has accepted stays as it is until its descriptor is closed. *)

\* Every step but the first accept on a Socket leaves those that have accepted
\* alone, or closes their descriptors.
StaySpent ==
  \A t \in Sockets :
    fd_[t] # NoFd /\ status_[t] = ACCEPTING =>
      \/ kstate'[fd_[t]] = "free"
      \/ fd_'[t] = fd_[t] /\ status_'[t] = ACCEPTING

LEMMA SpentByNone == ASSUME UNCHANGED <<fd_, status_>> PROVE StaySpent
  BY DEF StaySpent

LEMMA SpentByOpenSocket ==
  ASSUME Sound, NEW s \in Sockets, NEW f, NEW r, OpenSocket(s, f, r)
  PROVE  StaySpent
<1>1. CASE Refuse(r, "MULTI_OPERATOR")
  BY <1>1, SpentByNone DEF Refuse, socketVars
<1>2. CASE /\ ~Initialized(s)
           /\ fd_' = [fd_ EXCEPT ![s] = f]
           /\ status_' \in {status_, [status_ EXCEPT ![s] = CREATED]}
  <2>1. fd_[s] = NoFd
    BY <1>2, Uninitialized
  <2> QED BY <1>2, <2>1 DEF StaySpent, Sound, Typed, SocketTypeOK
<1> QED BY <1>1, <1>2 DEF OpenSocket

\* bind() and listen() move on a Socket that has not accepted.
LEMMA SpentByStep ==
  ASSUME Sound, NEW s \in Sockets, NEW next, NEW ok \in BOOLEAN, NEW r,
         Step(s, next, ok, r), status_[s] # ACCEPTING
  PROVE  StaySpent
BY DEF Step, StaySpent, Sound, Typed, SocketTypeOK

LEMMA SpentByClose ==
  ASSUME Sound, NEW s \in Sockets, Close(s)
  PROVE  StaySpent
<1> SUFFICES ASSUME NEW t \in Sockets, fd_[t] # NoFd, status_[t] = ACCEPTING
             PROVE  \/ kstate'[fd_[t]] = "free"
                    \/ fd_'[t] = fd_[t] /\ status_'[t] = ACCEPTING
  BY DEF StaySpent
<1>1. CASE t = s
  BY <1>1 DEF Close, SysClose, SysCloseAll, Sound, Typed, SocketTypeOK
<1>2. CASE t # s
  BY <1>2 DEF Close, Sound, Typed, SocketTypeOK
<1> QED BY <1>1, <1>2

\* A Socket that is made anew had no descriptor.
LEMMA SpentByConstruct ==
  ASSUME Sound, NEW s \in Sockets, NEW type, ~Live(s), Construct(s, type)
  PROVE  StaySpent
<1>1. fd_[s] = NoFd
  BY DEF Sound, DescriptorOwned
<1> QED BY <1>1 DEF Construct, StaySpent, Sound, Typed, SocketTypeOK

LEMMA SpentByAccept ==
  ASSUME Sound, NEW l \in Sockets, NEW c, NEW n \in Sockets, NEW f, NEW r,
         Live(l), AcceptInto(l, c, n, f, r)
  PROVE  StaySpent
<1>1. CASE UNCHANGED socketVars
  BY <1>1, SpentByNone DEF socketVars
<1>2. CASE CanAccept(l) /\ status_' = [status_ EXCEPT ![l] = ACCEPTING] /\ fd_' = fd_
  BY <1>2 DEF StaySpent, Sound, Typed, SocketTypeOK
<1>3. CASE ~Live(n) /\ Accepted(l, n, f)
  <2>1. fd_[n] = NoFd /\ l # n
    BY <1>3 DEF Sound, DescriptorOwned
  <2> QED BY <1>3, <2>1 DEF Accepted, StaySpent, Sound, Typed, SocketTypeOK
<1> QED BY <1>1, <1>2, <1>3 DEF AcceptInto, Refuse

LEMMA SpentByStepOf ==
  ASSUME Inv, [Next]_vars
  PROVE  StaySpent
<1>0. Sound /\ handles \subseteq Sockets /\ \A s \in handles : Live(s)
  BY DEF Inv, Sound, Typed, ConnTypeOK, Live
<1>1. ASSUME NEW s \in handles, UseSocket(s) PROVE StaySpent
  <2>0. s \in Sockets
    BY <1>0
  <2>1. ASSUME NEW r, NEW type, Call(SetType(s, type, r)) PROVE StaySpent
    BY <2>1, SpentByNone DEF Call, SetType, Refuse, socketVars
  <2>2. ASSUME NEW r, NEW f, Call(OpenSocket(s, f, r)) PROVE StaySpent
    BY <1>0, <2>0, <2>2, SpentByOpenSocket DEF Call
  <2>3. ASSUME NEW r, Call(Bind(s, r)) PROVE StaySpent
    BY <1>0, <2>0, <2>3, SpentByStep, SpentByNone
       DEF Call, Bind, Refuse, socketVars, CREATED, ACCEPTING
  <2>4. ASSUME NEW r, Call(Listen(s, r)) PROVE StaySpent
    BY <1>0, <2>0, <2>4, SpentByStep, SpentByNone
       DEF Call, Listen, CanListen, Refuse, socketVars, BINDED, ACCEPTING
  <2>5. ASSUME NEW r, Call(SetNonBlock(s, r)) PROVE StaySpent
    BY <2>5, SpentByNone DEF Call, SetNonBlock, Refuse, socketVars
  <2>6. CASE Call(Close(s))
    BY <1>0, <2>0, <2>6, SpentByClose DEF Call
  <2>7. ASSUME NEW r, NEW c, Attach(c, s, r) PROVE StaySpent
    BY <2>7, SpentByNone DEF Attach, Refuse, socketVars
  <2> QED BY <1>1, <2>1, <2>2, <2>3, <2>4, <2>5, <2>6, <2>7 DEF UseSocket
<1>2. ASSUME NEW s \in handles, SendOn(s) PROVE StaySpent
  BY <1>2, SpentByNone DEF SendOn, Call, Send, socketVars
<1>3. ASSUME NEW c \in conns, UseConn(c) PROVE StaySpent
  <2>1. c \in Conns /\ (socket_[c] # NoSocket => socket_[c] \in Sockets)
    BY DEF Inv, Sound, Typed, ConnTypeOK
  <2> QED
    BY <1>0, <1>3, <2>1, SpentByNone, SpentByClose
       DEF UseConn, ConnSend, Send, Disconnect, DestroyConn, socketVars
<1>4. Killed => StaySpent
  BY SpentByNone DEF Killed, Call, SendKilled, ConnSendKilled, NullSocketUsed, socketVars
<1>5. Lifetime => StaySpent
  BY <1>0, SpentByNone, SpentByClose, SpentByConstruct
     DEF Lifetime, CreateSocket, CreateConn, DropHandle, socketVars
<1>6. UNCHANGED vars => StaySpent
  BY SpentByNone DEF vars, socketVars
<1>7. ASSUME NEW s \in handles, Accept(s) PROVE StaySpent
  BY <1>0, <1>7, SpentByAccept DEF Accept
<1> QED BY <1>1, <1>2, <1>3, <1>4, <1>5, <1>6, <1>7 DEF Next

\* Of a descriptor that has given out a connection, the Socket is ACCEPTING.
Spent ==
  \A f \in Fds :
    /\ given[f] <= 1
    /\ given[f] # 0 => \E s \in Sockets : fd_[s] = f /\ status_[s] = ACCEPTING

LEMMA SpentQuiet ==
  ASSUME Inv, Spent, StaySpent, NEW f \in Fds,
         given'[f] \in {0, given[f]},
         kstate'[f] = "free" => given'[f] = 0
  PROVE  /\ given'[f] <= 1
         /\ given'[f] # 0 => \E s \in Sockets : fd_'[s] = f /\ status_'[s] = ACCEPTING
<1>1. CASE given'[f] = 0
  BY <1>1
<1>2. CASE given'[f] # 0
  <2>1. given'[f] = given[f] /\ kstate'[f] # "free"
    BY <1>2
  <2>2. PICK s \in Sockets : fd_[s] = f /\ status_[s] = ACCEPTING
    BY <1>2, <2>1 DEF Spent
  <2>3. fd_'[s] = f /\ status_'[s] = ACCEPTING
    BY <2>1, <2>2, NotNoFd DEF StaySpent
  <2> QED BY <2>1, <2>3 DEF Spent
<1> QED BY <1>1, <1>2

LEMMA SpentInvStep ==
  ASSUME Inv, Spent, [Next]_vars
  PROVE  Spent'
<1>0. StaySpent
  BY SpentByStepOf
<1>1. ASSUME GivenOn({}) PROVE Spent'
  <2> SUFFICES ASSUME NEW f \in Fds
               PROVE  /\ given'[f] <= 1
                      /\ given'[f] # 0 =>
                           \E s \in Sockets : fd_'[s] = f /\ status_'[s] = ACCEPTING
    BY DEF Spent
  <2>1. given'[f] \in {0, given[f]} /\ (kstate'[f] = "free" => given'[f] = 0)
    BY <1>1 DEF GivenOn
  <2> QED BY <1>0, <2>1, SpentQuiet
<1>2. CASE UNCHANGED vars
  BY <1>2 DEF vars, socketVars, Spent
<1>3. ASSUME NEW l \in handles, NEW c \in conns, NEW n \in Sockets,
             NEW f \in Fds \cup {NoFd}, NEW r \in RtspStatus,
             AcceptInto(l, c, n, f, r), f # NoFd, GivenOn({fd_[l]})
      PROVE  Spent'
  <2>1. l \in Sockets /\ Live(l)
    BY DEF Inv, Sound, Typed, ConnTypeOK, Live
  <2>2. CanAccept(l)
    BY <1>3 DEF AcceptInto
  <2>3. fd_[l] # NoFd /\ status_[l] = LISTENED
    BY <2>1, <2>2
       DEF CanAccept, Inv, Sound, StatusCoherent, CREATED, LISTENED, ACCEPTING
  <2>4. ASSUME NEW s \in Sockets, status_[s] = ACCEPTING PROVE fd_[s] # fd_[l]
    BY <2>1, <2>3, <2>4 DEF Inv, Sound, DescriptorOwned, LISTENED, ACCEPTING
  <2>5. given[fd_[l]] = 0
    <3>1. fd_[l] \in Fds
      BY <2>1, <2>3 DEF Inv, Sound, Typed, SocketTypeOK
    <3> QED BY <2>4, <3>1 DEF Spent
  <2>6. fd_'[l] = fd_[l] /\ status_'[l] = ACCEPTING
    <3>1. ~Live(n) => n # l
      BY <2>1
    <3> QED
      BY <1>3, <2>1, <2>2, <3>1 DEF AcceptInto, Accepted, Inv, Sound, Typed, SocketTypeOK
  <2> SUFFICES ASSUME NEW g \in Fds
               PROVE  /\ given'[g] <= 1
                      /\ given'[g] # 0 =>
                           \E s \in Sockets : fd_'[s] = g /\ status_'[s] = ACCEPTING
    BY DEF Spent
  <2>7. CASE g = fd_[l]
    <3>1. given'[g] \in {0, 1}
      BY <1>3, <2>5, <2>7 DEF GivenOn
    <3> QED BY <2>1, <2>6, <2>7, <3>1
  <2>8. CASE g # fd_[l]
    <3>1. given'[g] \in {0, given[g]} /\ (kstate'[g] = "free" => given'[g] = 0)
      BY <1>3, <2>8 DEF GivenOn
    <3> QED BY <1>0, <3>1, SpentQuiet
  <2> QED BY <2>7, <2>8
<1>4. ASSUME NEW l \in handles, Accept(l) PROVE Spent'
  BY <1>1, <1>3, <1>4 DEF Accept
<1> QED BY <1>1, <1>2, <1>4 DEF Next

\* No sequence of calls gets a second connection out of a listening descriptor.
THEOREM OneAcceptCorrect == Spec => []OneAccept
<1>1. Init => Spent
  <2> SUFFICES ASSUME given = [f \in Fds |-> 0] PROVE Spent
    BY DEF Init
  <2>1. \A f \in Fds : given[f] = 0
    OBVIOUS
  <2>2. 0 <= 1
    OBVIOUS
  <2> QED BY <2>1, <2>2, Zenon DEF Spent
<1>2. Spent => OneAccept
  BY DEF Spent, OneAccept
<1> QED BY <1>1, <1>2, SpentInvStep, InvCorrect, PTL DEF Spec
===============================================================================

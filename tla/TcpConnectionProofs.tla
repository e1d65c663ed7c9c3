-------------------------- MODULE TcpConnectionProofs -------------------------
(***************************************************************************)
(* What every call on a Socket or a TcpConnection preserves, for any       *)
(* number of objects and descriptors. The lemmas are about the operators   *)
(* alone, so that each specification built from them can cite them.        *)
(***************************************************************************)
EXTENDS TcpConnection, TLAPS

Typed == KernelTypeOK /\ SocketTypeOK /\ ConnTypeOK

Sound == Typed /\ DescriptorOwned /\ StatusCoherent

objectVars == <<kernelVars, socketVars, connVars>>

LEMMA SoundInit == KernelInit /\ SocketInit /\ ConnInit => Sound
<1> SUFFICES ASSUME KernelInit, SocketInit, ConnInit PROVE Sound
  OBVIOUS
<1>1. Typed
  BY DEF KernelInit, SocketInit, ConnInit, Typed, KernelTypeOK, SocketTypeOK, ConnTypeOK,
         KernelState, Protocol, ProcState, SocketStat, UNINITIALIZED, CONNETED
<1>2. DescriptorOwned
  BY DEF KernelInit, SocketInit, DescriptorOwned
<1>3. StatusCoherent
  BY DEF SocketInit, StatusCoherent, UNINITIALIZED, CREATED, ACCEPTING, CONNETED
<1> QED BY <1>1, <1>2, <1>3 DEF Sound

LEMMA SoundStutter == Sound /\ UNCHANGED objectVars => Sound'
  BY DEF Sound, Typed, KernelTypeOK, SocketTypeOK, ConnTypeOK, DescriptorOwned, Live,
         StatusCoherent, StateOf, objectVars, kernelVars, socketVars, connVars

\* The end of the process leaves the objects as they were.
LEMMA SoundDie ==
  ASSUME Sound, NEW how \in ProcState, Die(how), UNCHANGED <<socketVars, connVars>>
  PROVE  Sound'
BY DEF Sound, Typed, KernelTypeOK, SocketTypeOK, ConnTypeOK, DescriptorOwned, Live,
       StatusCoherent, StateOf, Die, socketVars, connVars

LEMMA SoundRefuse ==
  ASSUME Sound, NEW r, NEW status, Refuse(r, status), UNCHANGED connVars
  PROVE  Sound'
BY SoundStutter DEF Refuse, objectVars

LEMMA Uninitialized ==
  ASSUME Sound, NEW s \in Sockets, ~Initialized(s)
  PROVE  fd_[s] = NoFd /\ status_[s] = UNINITIALIZED
<1>1. \A f \in Fds : f \in Nat /\ f >= 0
  BY FdsAssumption
<1>2. SocketTypeOK
  BY DEF Sound, Typed
<1>3. fd_[s] = NoFd
  BY <1>1, <1>2 DEF SocketTypeOK, Initialized
<1>4. status_[s] = UNINITIALIZED
  BY <1>2 DEF SocketTypeOK, Initialized, SocketStat, UNINITIALIZED, CONNETED
<1> QED BY <1>3, <1>4

LEMMA NotNoFd == ASSUME NEW f \in Fds PROVE f # NoFd
  BY FdsAssumption DEF NoFd

LEMMA SoundSetType ==
  ASSUME Sound, NEW s \in Sockets, NEW type \in Protocol, NEW r,
         SetType(s, type, r), UNCHANGED connVars
  PROVE  Sound'
<1>1. CASE Refuse(r, "MULTI_OPERATOR")
  BY <1>1, SoundRefuse
<1>2. CASE /\ ~Initialized(s)
           /\ type_' = [type_ EXCEPT ![s] = type]
           /\ UNCHANGED <<fd_, status_, connected_, kernelVars>>
  <2>1. fd_[s] = NoFd
    BY <1>2, Uninitialized
  <2>2. Typed'
    BY <1>2 DEF Sound, Typed, KernelTypeOK, SocketTypeOK, ConnTypeOK, kernelVars, connVars
  <2>3. DescriptorOwned'
    BY <1>2 DEF Sound, DescriptorOwned, Live, kernelVars, connVars
  <2>4. StatusCoherent'
    BY <1>2, <2>1 DEF Sound, Typed, SocketTypeOK, StatusCoherent, StateOf, kernelVars
  <2> QED BY <2>2, <2>3, <2>4 DEF Sound
<1> QED BY <1>1, <1>2 DEF SetType

\* socket(2) gives a number that no Socket has, since only live Sockets have
\* numbers and theirs are not free.
LEMMA FreshDescriptor ==
  ASSUME Sound, NEW f \in Fds, kstate[f] = "free", NEW s \in Sockets
  PROVE  fd_[s] # f
BY FdsAssumption DEF Sound, DescriptorOwned, NoFd

LEMMA SoundOpenSocket ==
  ASSUME Sound, NEW s \in Sockets, Live(s), NEW f \in Fds \cup {NoFd}, NEW r,
         OpenSocket(s, f, r), UNCHANGED connVars
  PROVE  Sound'
<1>1. CASE Refuse(r, "MULTI_OPERATOR")
  BY <1>1, SoundRefuse
<1> SUFFICES ASSUME ~Initialized(s), SysSocket(type_[s], f),
                    fd_' = [fd_ EXCEPT ![s] = f],
                    status_' = IF f = NoFd THEN status_ ELSE [status_ EXCEPT ![s] = CREATED],
                    UNCHANGED <<type_, connected_>>
             PROVE  Sound'
  BY <1>1 DEF OpenSocket
<1> USE DEF Sound, Typed
<1>2. fd_[s] = NoFd /\ status_[s] = UNINITIALIZED
  BY Uninitialized
<1>3. CASE f = NoFd
  <2>1. fd_' = fd_
    BY <1>2, <1>3 DEF SocketTypeOK
  <2>2. UNCHANGED kernelVars
    BY <1>3, FdsAssumption DEF SysSocket, Open, NoFd
  <2> QED BY <1>3, <2>1, <2>2, SoundStutter DEF objectVars, socketVars
<1>4. CASE f \in Fds
  <2>0. f # NoFd
    BY <1>4, FdsAssumption DEF NoFd
  <2>1. Open(f, "created", type_[s]) /\ kstate[f] = "free"
    BY <1>4, <2>0 DEF SysSocket, Open
  <2>2. \A t \in Sockets : fd_[t] # f
    BY <1>4, <2>1, FreshDescriptor
  <2>3. status_' = [status_ EXCEPT ![s] = CREATED]
    BY <2>0
  <2>4. Typed'
    BY <1>4, <2>1, <2>3
       DEF Open, KernelTypeOK, SocketTypeOK, ConnTypeOK, connVars, KernelState, SocketStat,
           UNINITIALIZED, CREATED, CONNETED
  <2>5. DescriptorOwned'
    <3>1. \A t \in Sockets : Live(t)' = Live(t) /\ (t # s => fd_'[t] = fd_[t])
      BY DEF Live, connVars, SocketTypeOK
    <3>2. fd_'[s] = f /\ kstate'[f] = "created"
      BY <1>4, <2>1 DEF Open, SocketTypeOK, KernelTypeOK
    <3>3. \A g \in Fds : g # f => kstate'[g] = kstate[g]
      BY <2>1 DEF Open, KernelTypeOK
    <3>4. \A t \in Sockets : fd_'[t] # NoFd => Live(t)' /\ kstate'[fd_'[t]] # "free"
      BY <2>2, <3>1, <3>2, <3>3 DEF DescriptorOwned, SocketTypeOK
    <3>5. \A g \in Fds : kstate'[g] # "free" => \E t \in Sockets : fd_'[t] = g
      BY <1>2, <2>0, <3>1, <3>2, <3>3, NotNoFd DEF DescriptorOwned
    <3>6. \A t, u \in Sockets : t # u /\ fd_'[t] = fd_'[u] => fd_'[t] = NoFd
      BY <2>2, <3>1, <3>2 DEF DescriptorOwned
    <3> QED BY <3>4, <3>5, <3>6 DEF DescriptorOwned
  <2>6. StatusCoherent'
    <3>1. ASSUME NEW t \in Sockets, t # s
          PROVE  /\ fd_'[t] = fd_[t] /\ status_'[t] = status_[t]
                 /\ fd_[t] \in Fds => /\ kstate'[fd_[t]] = kstate[fd_[t]]
                                      /\ kproto'[fd_[t]] = kproto[fd_[t]]
      BY <3>1, <2>1, <2>2, <2>3 DEF Open, SocketTypeOK, KernelTypeOK
    <3>2. /\ fd_'[s] = f /\ status_'[s] = CREATED
          /\ kstate'[f] = "created" /\ kproto'[f] = type_[s]
      BY <1>4, <2>1, <2>3 DEF Open, SocketTypeOK, KernelTypeOK
    <3> QED
      BY <1>2, <2>0, <3>1, <3>2
         DEF StatusCoherent, StateOf, SocketTypeOK, UNINITIALIZED, CREATED, BINDED, LISTENED,
             ACCEPTING, CONNETED
  <2> QED BY <2>4, <2>5, <2>6
<1> QED BY <1>3, <1>4

\* Moving the status on together with the socket behind it.
LEMMA SoundStep ==
  ASSUME Sound, NEW s \in Sockets, NEW next \in {BINDED, LISTENED}, NEW ok \in BOOLEAN, NEW r,
         fd_[s] \in Fds, status_[s] \in {CREATED, BINDED},
         Step(s, next, ok, r), UNCHANGED connVars,
         Advance(fd_[s], StateOf(status_[s]), StateOf(next), ok)
  PROVE  Sound'
<1> USE DEF Sound, Typed
<1>1. CASE ~ok
  BY <1>1, SoundStutter DEF Step, Advance, objectVars, socketVars, kernelVars
<1>2. CASE ok
  <2>1. /\ status_' = [status_ EXCEPT ![s] = next]
        /\ kstate' = [kstate EXCEPT ![fd_[s]] = StateOf(next)]
        /\ UNCHANGED <<type_, fd_, connected_, kproto, knonblock, proc>>
    BY <1>2 DEF Step, Advance
  <2>2. StateOf(next) \in KernelState \ {"free"}
    BY DEF StateOf, KernelState, CREATED, BINDED, LISTENED, ACCEPTING
  <2>3. Typed'
    BY <2>1, <2>2
       DEF KernelTypeOK, SocketTypeOK, ConnTypeOK, connVars, SocketStat, UNINITIALIZED, BINDED,
           LISTENED, CONNETED
  <2>4. \A t \in Sockets : t # s => fd_[t] # fd_[s]
    BY FdsAssumption DEF DescriptorOwned, NoFd
  <2>5. DescriptorOwned'
    BY <2>1, <2>2, <2>4 DEF DescriptorOwned, Live, connVars, KernelTypeOK
  <2>6. StatusCoherent'
    <3>1. ASSUME NEW t \in Sockets, t # s
          PROVE  /\ status_'[t] = status_[t]
                 /\ fd_[t] \in Fds => kstate'[fd_[t]] = kstate[fd_[t]]
      BY <3>1, <2>1, <2>4 DEF SocketTypeOK, KernelTypeOK
    <3>2. status_'[s] = next /\ kstate'[fd_[s]] = StateOf(next)
      BY <2>1 DEF SocketTypeOK, KernelTypeOK
    <3>3. fd_[s] # NoFd
      BY FdsAssumption DEF NoFd
    <3>4. ~connected_[s]
      BY DEF StatusCoherent, CREATED, BINDED, CONNETED
    <3>5. ASSUME NEW t \in Sockets, t # s
          PROVE  /\ status_'[t] \in CREATED .. ACCEPTING => fd_'[t] # NoFd
                 /\ fd_'[t] # NoFd =>
                      /\ status_'[t] # UNINITIALIZED
                      /\ kstate'[fd_'[t]] = StateOf(status_'[t])
                      /\ kproto'[fd_'[t]] = type_'[t]
                 /\ connected_'[t] <=> status_'[t] = CONNETED
      BY <2>1, <3>1, <3>5 DEF StatusCoherent, SocketTypeOK
    <3>6. /\ fd_'[s] # NoFd
          /\ status_'[s] # UNINITIALIZED
          /\ kstate'[fd_'[s]] = StateOf(status_'[s])
          /\ kproto'[fd_'[s]] = type_'[s]
          /\ ~connected_'[s] /\ status_'[s] # CONNETED
      BY <2>1, <3>2, <3>3, <3>4
         DEF StatusCoherent, UNINITIALIZED, BINDED, LISTENED, CONNETED
    <3> QED BY <3>5, <3>6 DEF StatusCoherent
  <2> QED BY <2>3, <2>5, <2>6
<1> QED BY <1>1, <1>2

LEMMA HasDescriptor ==
  ASSUME Sound, NEW s \in Sockets, status_[s] \in CREATED .. ACCEPTING
  PROVE  fd_[s] \in Fds
BY DEF Sound, Typed, SocketTypeOK, StatusCoherent

LEMMA SoundBind ==
  ASSUME Sound, NEW s \in Sockets, NEW r, Bind(s, r), UNCHANGED connVars
  PROVE  Sound'
<1>1. CASE Refuse(r, "UNINITIALIZED")
  BY <1>1, SoundRefuse
<1>2. ASSUME NEW ok \in BOOLEAN, status_[s] = CREATED,
             SysBind(fd_[s], ok), Step(s, BINDED, ok, r)
      PROVE  Sound'
  <2>1. fd_[s] \in Fds
    BY <1>2, HasDescriptor DEF CREATED, ACCEPTING
  <2>2. StateOf(CREATED) = "created" /\ StateOf(BINDED) = "bound"
    BY DEF StateOf, CREATED, BINDED, LISTENED, ACCEPTING
  <2>3. Advance(fd_[s], StateOf(status_[s]), StateOf(BINDED), ok)
    BY <1>2, <2>2 DEF SysBind
  <2> QED BY <1>2, <2>1, <2>3, SoundStep
<1> QED BY <1>1, <1>2 DEF Bind

LEMMA SoundListen ==
  ASSUME Sound, NEW s \in Sockets, NEW r, Listen(s, r), UNCHANGED connVars
  PROVE  Sound'
<1>1. CASE Refuse(r, "ILLEGAL_PARAMS")
  BY <1>1, SoundRefuse
<1>2. ASSUME NEW ok \in BOOLEAN, status_[s] = BINDED,
             SysListen(fd_[s], ok), Step(s, LISTENED, ok, r)
      PROVE  Sound'
  <2>1. fd_[s] \in Fds
    BY <1>2, HasDescriptor DEF CREATED, BINDED, ACCEPTING
  <2>2. StateOf(BINDED) = "bound" /\ StateOf(LISTENED) = "listening"
    BY DEF StateOf, CREATED, BINDED, LISTENED, ACCEPTING
  <2>3. Advance(fd_[s], StateOf(status_[s]), StateOf(LISTENED), ok)
    BY <1>2, <2>2 DEF SysListen
  <2> QED BY <1>2, <2>1, <2>3, SoundStep
<1> QED BY <1>1, <1>2 DEF Listen, CanListen

LEMMA SoundSetNonBlock ==
  ASSUME Sound, NEW s \in Sockets, NEW r, SetNonBlock(s, r), UNCHANGED connVars
  PROVE  Sound'
<1>1. ASSUME NEW status, Refuse(r, status) PROVE Sound'
  BY <1>1, SoundRefuse
<1>2. ASSUME NEW ok \in BOOLEAN, SysSetFlags(fd_[s], ok), UNCHANGED socketVars
      PROVE  Sound'
  <2>1. knonblock' \in [Fds -> BOOLEAN]
    BY <1>2 DEF SysSetFlags, Sound, Typed, KernelTypeOK
  <2>2. UNCHANGED <<kstate, kproto, proc, fd_, status_, type_, connected_, handles, conns, socket_>>
    BY <1>2 DEF SysSetFlags, socketVars, connVars
  <2> QED
    BY <2>1, <2>2 DEF Sound, Typed, KernelTypeOK, SocketTypeOK, ConnTypeOK, DescriptorOwned, Live,
                      StatusCoherent, StateOf
<1> QED BY <1>1, <1>2 DEF SetNonBlock

LEMMA SoundSend ==
  ASSUME Sound, NEW s \in Sockets, NEW size, NEW n, NEW r, Send(s, size, n, r),
         UNCHANGED connVars
  PROVE  Sound'
BY SoundStutter DEF Send, objectVars

\* close(), whatever the shared_ptrs do meanwhile, as long as no other Socket
\* with a descriptor loses its last one.
LEMMA SoundClose ==
  ASSUME Sound, NEW s \in Sockets, Close(s), ConnTypeOK',
         \A t \in Sockets : t # s /\ Live(t) => Live(t)'
  PROVE  Sound'
<1> USE DEF Sound, Typed
<1> DEFINE f == fd_[s]
<1>1. /\ fd_' = [fd_ EXCEPT ![s] = NoFd]
      /\ connected_' = [connected_ EXCEPT ![s] = FALSE]
      /\ status_' = [status_ EXCEPT ![s] = UNINITIALIZED]
      /\ type_' = type_
      /\ kstate' = [g \in Fds |-> IF g \in {f} THEN "free" ELSE kstate[g]]
      /\ kproto' = [g \in Fds |-> IF g \in {f} THEN "TCP" ELSE kproto[g]]
      /\ knonblock' = [g \in Fds |-> knonblock[g] /\ g \notin {f}]
      /\ proc' = proc
  BY DEF Close, SysClose, SysCloseAll
<1>2. KernelTypeOK'
  BY <1>1 DEF KernelTypeOK, KernelState, Protocol
<1>3. SocketTypeOK'
  BY <1>1 DEF SocketTypeOK, SocketStat, UNINITIALIZED, CONNETED
<1>4. \A t \in Sockets : /\ t # s => fd_'[t] = fd_[t] /\ status_'[t] = status_[t]
                                     /\ connected_'[t] = connected_[t]
                         /\ t = s => fd_'[t] = NoFd /\ status_'[t] = UNINITIALIZED
                                     /\ connected_'[t] = FALSE
  BY <1>1 DEF SocketTypeOK
<1>5. \A t \in Sockets : t # s /\ fd_[t] # NoFd => fd_[t] \in Fds /\ fd_[t] # f
  BY DEF DescriptorOwned, SocketTypeOK
<1>6. \A g \in Fds : g # f => kstate'[g] = kstate[g] /\ kproto'[g] = kproto[g]
  BY <1>1
<1>7. DescriptorOwned'
  <2>1. \A t \in Sockets : fd_'[t] # NoFd => Live(t)' /\ kstate'[fd_'[t]] # "free"
    BY <1>4, <1>5, <1>6 DEF DescriptorOwned
  <2>2. \A g \in Fds : kstate'[g] # "free" => g # f /\ kstate[g] # "free"
    BY <1>1
  <2>3. \A g \in Fds : kstate'[g] # "free" => \E t \in Sockets : fd_'[t] = g
    BY <1>4, <2>2 DEF DescriptorOwned
  <2>4. \A t, u \in Sockets : t # u /\ fd_'[t] = fd_'[u] => fd_'[t] = NoFd
    BY <1>4 DEF DescriptorOwned
  <2> QED BY <2>1, <2>3, <2>4 DEF DescriptorOwned
<1>8. StatusCoherent'
  <2> SUFFICES ASSUME NEW t \in Sockets
               PROVE  /\ status_'[t] \in CREATED .. ACCEPTING => fd_'[t] # NoFd
                      /\ fd_'[t] # NoFd =>
                           /\ status_'[t] # UNINITIALIZED
                           /\ kstate'[fd_'[t]] = StateOf(status_'[t])
                           /\ kproto'[fd_'[t]] = type_'[t]
                      /\ connected_'[t] <=> status_'[t] = CONNETED
    BY DEF StatusCoherent
  <2>1. CASE t = s
    BY <2>1, <1>4 DEF UNINITIALIZED, CREATED, ACCEPTING, CONNETED
  <2>2. CASE t # s
    BY <2>2, <1>1, <1>4, <1>5, <1>6 DEF StatusCoherent
  <2> QED BY <2>1, <2>2
<1> QED BY <1>2, <1>3, <1>7, <1>8

LEMMA SoundCloseCall ==
  ASSUME Sound, NEW s \in Sockets, Close(s), UNCHANGED connVars
  PROVE  Sound'
<1>1. ConnTypeOK' /\ \A t \in Sockets : Live(t) => Live(t)'
  BY DEF Sound, Typed, ConnTypeOK, connVars, Live
<1> QED BY <1>1, SoundClose

LEMMA SoundDisconnect ==
  ASSUME Sound, NEW c \in Conns, Disconnect(c)
  PROVE  Sound'
<1>1. socket_[c] \in Sockets
  BY DEF Disconnect, Sound, Typed, ConnTypeOK
<1> QED BY <1>1, SoundCloseCall DEF Disconnect

LEMMA SoundDestroyConn ==
  ASSUME Sound, NEW c \in Conns, DestroyConn(c)
  PROVE  Sound'
<1>1. socket_[c] \in Sockets
  BY DEF DestroyConn, Sound, Typed, ConnTypeOK
<1>2. ConnTypeOK'
  BY DEF DestroyConn, Sound, Typed, ConnTypeOK
<1>3. ASSUME NEW t \in Sockets, t # socket_[c], Live(t) PROVE Live(t)'
  BY <1>3 DEF DestroyConn, Live, Sound, Typed, ConnTypeOK
<1> QED BY <1>1, <1>2, <1>3, SoundClose DEF DestroyConn

LEMMA SoundDropHandle ==
  ASSUME Sound, NEW s \in Sockets, DropHandle(s)
  PROVE  Sound'
<1>1. ConnTypeOK' /\ \A t \in Sockets : t # s /\ Live(t) => Live(t)'
  BY DEF DropHandle, Sound, Typed, ConnTypeOK, Live
<1>2. CASE Close(s)
  BY <1>1, <1>2, SoundClose
<1>3. CASE UNCHANGED <<socketVars, kernelVars>> /\ \E c \in Conns : socket_[c] = s
  <2>1. Live(s)'
    BY <1>3 DEF DropHandle, Live
  <2>2. \A t \in Sockets : Live(t) => Live(t)'
    BY <1>1, <2>1
  <2> QED
    BY <1>1, <1>3, <2>2 DEF Sound, Typed, KernelTypeOK, SocketTypeOK, DescriptorOwned,
       StatusCoherent, StateOf, socketVars, kernelVars
<1> QED BY <1>2, <1>3 DEF DropHandle

LEMMA SoundCreateSocket ==
  ASSUME Sound, NEW s \in Sockets, NEW type \in Protocol, CreateSocket(s, type)
  PROVE  Sound'
<1> USE DEF Sound, Typed
<1>1. fd_[s] = NoFd
  BY DEF CreateSocket, DescriptorOwned
<1>2. /\ fd_' = fd_ /\ UNCHANGED <<kstate, kproto, knonblock, proc, conns, socket_>>
      /\ status_' = [status_ EXCEPT ![s] = UNINITIALIZED]
      /\ type_' = [type_ EXCEPT ![s] = type]
      /\ connected_' = [connected_ EXCEPT ![s] = FALSE]
      /\ handles' = handles \cup {s}
  BY <1>1 DEF CreateSocket, Construct, kernelVars, SocketTypeOK
<1>3. Typed'
  BY <1>2 DEF KernelTypeOK, SocketTypeOK, ConnTypeOK, SocketStat, UNINITIALIZED, CONNETED
<1>4. DescriptorOwned'
  BY <1>2 DEF DescriptorOwned, Live
<1>5. StatusCoherent'
  BY <1>1, <1>2
     DEF StatusCoherent, SocketTypeOK, StateOf, UNINITIALIZED, CREATED, ACCEPTING, CONNETED
<1> QED BY <1>3, <1>4, <1>5

LEMMA SoundCreateConn ==
  ASSUME Sound, NEW c \in Conns, CreateConn(c)
  PROVE  Sound'
BY DEF CreateConn, Sound, Typed, KernelTypeOK, SocketTypeOK, ConnTypeOK, DescriptorOwned, Live,
       StatusCoherent, StateOf, kernelVars, socketVars

LEMMA SoundAttach ==
  ASSUME Sound, NEW c \in Conns, NEW s \in Sockets, NEW r, Attach(c, s, r)
  PROVE  Sound'
<1>1. CASE Refuse(r, "MULTI_OPERATOR") /\ UNCHANGED connVars
  BY <1>1, SoundRefuse
<1>2. CASE /\ socket_[c] = NoSocket
           /\ socket_' = [socket_ EXCEPT ![c] = s]
           /\ UNCHANGED <<handles, conns, socketVars, kernelVars>>
  <2>1. ConnTypeOK'
    BY <1>2 DEF Sound, Typed, ConnTypeOK
  <2>2. \A t \in Sockets : Live(t) => Live(t)'
    BY <1>2, SocketAssumption DEF Live, Sound, Typed, ConnTypeOK
  <2> QED
    BY <1>2, <2>1, <2>2 DEF Sound, Typed, KernelTypeOK, SocketTypeOK, DescriptorOwned,
       StatusCoherent, StateOf, socketVars, kernelVars
<1> QED BY <1>1, <1>2 DEF Attach

\* Leaving LISTENED for ACCEPTING changes nothing for the system.
LEMMA SoundAccepting ==
  ASSUME Sound, NEW l \in Sockets, status_[l] = LISTENED,
         status_' = [status_ EXCEPT ![l] = ACCEPTING],
         UNCHANGED <<type_, fd_, connected_, kernelVars, connVars>>
  PROVE  Sound'
<1> USE DEF Sound, Typed
<1>1. UNCHANGED <<kstate, kproto, knonblock, proc, handles, conns, socket_>>
  BY DEF kernelVars, connVars
<1>2. Typed'
  BY <1>1 DEF KernelTypeOK, SocketTypeOK, ConnTypeOK, SocketStat, UNINITIALIZED, ACCEPTING,
              CONNETED
<1>3. DescriptorOwned'
  BY <1>1 DEF DescriptorOwned, Live
<1>4. StatusCoherent'
  BY <1>1 DEF StatusCoherent, SocketTypeOK, StateOf, UNINITIALIZED, CREATED, BINDED, LISTENED,
              ACCEPTING, CONNETED
<1> QED BY <1>2, <1>3, <1>4

\* The connection gets a Socket made of what accept(2) returned, good or not.
LEMMA SoundAccepted ==
  ASSUME Sound, NEW l \in Sockets, NEW n \in Sockets, NEW c \in Conns,
         NEW f \in Fds \cup {NoFd},
         Live(l), ~Live(n), status_[l] = LISTENED, socket_[c] = NoSocket,
         SysAccept(fd_[l], f), Accepted(l, n, f),
         socket_' = [socket_ EXCEPT ![c] = n], UNCHANGED <<handles, conns>>
  PROVE  Sound'
<1> USE DEF Sound, Typed
<1>1. l # n /\ fd_[n] = NoFd
  BY DEF DescriptorOwned
<1>2. /\ f \in Fds => Open(f, "connected", "TCP")
      /\ f = NoFd => UNCHANGED <<kstate, kproto, knonblock, proc>>
  BY NotNoFd DEF SysAccept, Open, kernelVars
<1>3. f \in Fds => /\ kstate[f] = "free"
                   /\ kstate' = [kstate EXCEPT ![f] = "connected"]
                   /\ kproto' = [kproto EXCEPT ![f] = "TCP"]
                   /\ knonblock' = [knonblock EXCEPT ![f] = FALSE]
                   /\ proc' = proc
  BY <1>2 DEF Open
<1>4. \A t \in Sockets : f \in Fds => fd_[t] # f
  BY <1>3, FreshDescriptor
<1>5. KernelTypeOK'
  BY <1>2, <1>3 DEF KernelTypeOK, KernelState, Protocol
<1>6. SocketTypeOK' /\ ConnTypeOK'
  BY DEF Accepted, SocketTypeOK, ConnTypeOK, Protocol, SocketStat, UNINITIALIZED, ACCEPTING,
         CONNETED
<1>7. /\ \A t \in Sockets : t # n => fd_'[t] = fd_[t] /\ type_'[t] = type_[t]
      /\ fd_'[n] = f /\ type_'[n] = "TCP"
  BY DEF Accepted, SocketTypeOK
<1>21. /\ \A t \in Sockets : t # n => connected_'[t] = connected_[t]
       /\ connected_'[n] = TRUE
  BY DEF Accepted, SocketTypeOK
<1>22. /\ \A t \in Sockets : t \notin {l, n} => status_'[t] = status_[t]
       /\ status_'[l] = ACCEPTING /\ status_'[n] = CONNETED
  BY <1>1 DEF Accepted, SocketTypeOK
<1>8. /\ \A t \in Sockets : Live(t) => Live(t)'
      /\ Live(n)'
  BY SocketAssumption DEF Live, ConnTypeOK
<1>9. \A g \in Fds : g # f => kstate'[g] = kstate[g] /\ kproto'[g] = kproto[g]
  BY <1>2, <1>3 DEF KernelTypeOK
<1>10. f \in Fds => kstate'[f] = "connected" /\ kproto'[f] = "TCP"
  BY <1>3 DEF KernelTypeOK
<1>11. DescriptorOwned'
  <2>1. \A t \in Sockets : fd_'[t] # NoFd => Live(t)' /\ kstate'[fd_'[t]] # "free"
    BY <1>4, <1>7, <1>8, <1>9, <1>10 DEF DescriptorOwned, SocketTypeOK
  <2>2. \A g \in Fds : kstate'[g] # "free" => \E t \in Sockets : fd_'[t] = g
    BY <1>1, <1>7, <1>9, NotNoFd DEF DescriptorOwned
  <2>3. \A t, u \in Sockets : t # u /\ fd_'[t] = fd_'[u] => fd_'[t] = NoFd
    BY <1>4, <1>7 DEF DescriptorOwned
  <2> QED BY <2>1, <2>2, <2>3 DEF DescriptorOwned
<1>12. StatusCoherent'
  <2> SUFFICES ASSUME NEW t \in Sockets
               PROVE  /\ status_'[t] \in CREATED .. ACCEPTING => fd_'[t] # NoFd
                      /\ fd_'[t] # NoFd =>
                           /\ status_'[t] # UNINITIALIZED
                           /\ kstate'[fd_'[t]] = StateOf(status_'[t])
                           /\ kproto'[fd_'[t]] = type_'[t]
                      /\ connected_'[t] <=> status_'[t] = CONNETED
    BY DEF StatusCoherent
  <2>1. CASE t \notin {l, n}
    BY <2>1, <1>4, <1>7, <1>21, <1>22, <1>9 DEF StatusCoherent, SocketTypeOK
  <2>2. CASE t = l
    <3>1. /\ StateOf(ACCEPTING) = "listening" /\ StateOf(LISTENED) = "listening"
          /\ ACCEPTING \notin {UNINITIALIZED, CONNETED}
          /\ LISTENED \notin {UNINITIALIZED, CONNETED}
      BY DEF StateOf, UNINITIALIZED, CREATED, BINDED, LISTENED, ACCEPTING, CONNETED
    <3>2. fd_[l] \in Fds /\ fd_[l] # NoFd
      BY HasDescriptor, NotNoFd DEF CREATED, LISTENED, ACCEPTING
    <3>3. kstate[fd_[l]] = "listening" /\ kproto[fd_[l]] = type_[l] /\ ~connected_[l]
      BY <3>1, <3>2 DEF StatusCoherent
    <3>4. fd_'[l] = fd_[l] /\ type_'[l] = type_[l] /\ fd_[l] # f
      BY <1>1, <1>4, <1>7, <3>2
    <3>5. kstate'[fd_[l]] = "listening" /\ kproto'[fd_[l]] = type_[l]
      BY <3>2, <3>3, <3>4, <1>9
    <3>6. ~connected_'[l]
      BY <1>1, <1>21, <3>3
    <3> QED BY <2>2, <3>1, <3>2, <3>4, <3>5, <3>6, <1>22
  <2>3. CASE t = n
    <3>1. /\ StateOf(CONNETED) = "connected" /\ CONNETED # UNINITIALIZED
          /\ CONNETED \notin CREATED .. ACCEPTING
      BY DEF StateOf, UNINITIALIZED, CREATED, BINDED, LISTENED, ACCEPTING, CONNETED
    <3> QED BY <2>3, <3>1, <1>7, <1>21, <1>22, <1>10
  <2> QED BY <2>1, <2>2, <2>3
<1> QED BY <1>5, <1>6, <1>11, <1>12

LEMMA SoundAccept ==
  ASSUME Sound, NEW l \in Sockets, NEW n \in Sockets, NEW c \in Conns,
         NEW f \in Fds \cup {NoFd}, NEW r, Live(l), AcceptInto(l, c, n, f, r)
  PROVE  Sound'
<1>1. CASE Refuse(r, "ILLEGAL_PARAMS") /\ UNCHANGED connVars
  BY <1>1, SoundRefuse
<1>2. CASE /\ CanAccept(l) /\ ~Live(n)
           /\ socket_[c] = NoSocket
           /\ SysAccept(fd_[l], f)
           /\ Accepted(l, n, f)
           /\ socket_' = [socket_ EXCEPT ![c] = n]
           /\ UNCHANGED <<handles, conns>>
  BY <1>2, SoundAccepted DEF CanAccept
<1>3. CASE /\ CanAccept(l)
           /\ SysAcceptAndClose(fd_[l], f)
           /\ status_' = [status_ EXCEPT ![l] = ACCEPTING]
           /\ UNCHANGED <<type_, fd_, connected_, socket_, handles, conns>>
  <2>1. status_[l] = LISTENED /\ UNCHANGED kernelVars /\ UNCHANGED connVars
    BY <1>3 DEF CanAccept, SysAcceptAndClose, connVars
  <2> QED BY <1>3, <2>1, SoundAccepting
<1> QED BY <1>1, <1>2, <1>3 DEF AcceptInto
===============================================================================

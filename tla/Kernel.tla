-------------------------------- MODULE Kernel --------------------------------
(***************************************************************************)
(* The operating system as network/socket.cpp uses it: the descriptor      *)
(* table of the process and the socket calls on it. A call either does its *)
(* work or fails; what makes it fail is left open. A new descriptor is any *)
(* free one, since other parts of the process open descriptors too.        *)
(***************************************************************************)
EXTENDS Integers

CONSTANT Fds      \* the descriptors the process may be given

ASSUME FdsAssumption == Fds \subseteq Nat

VARIABLES
  kstate,     \* how far the socket behind a descriptor has been set up
  kproto,     \* its protocol
  knonblock,  \* whether O_NONBLOCK is set on it
  proc        \* "running", or what ended the process

kernelVars == <<kstate, kproto, knonblock, proc>>

NoFd == -1

KernelState == {"free", "created", "bound", "listening", "connected"}
Protocol == {"TCP", "UDP"}
ProcState == {"running", "segv", "sigpipe", "terminated"}

KernelTypeOK ==
  /\ kstate \in [Fds -> KernelState]
  /\ kproto \in [Fds -> Protocol]
  /\ knonblock \in [Fds -> BOOLEAN]
  /\ proc \in ProcState

KernelInit ==
  /\ kstate = [f \in Fds |-> "free"]
  /\ kproto = [f \in Fds |-> "TCP"]
  /\ knonblock = [f \in Fds |-> FALSE]
  /\ proc = "running"

\* A new socket in state st behind the free descriptor f.
Open(f, st, proto) ==
  /\ f \in Fds
  /\ kstate[f] = "free"
  /\ kstate' = [kstate EXCEPT ![f] = st]
  /\ kproto' = [kproto EXCEPT ![f] = proto]
  /\ knonblock' = [knonblock EXCEPT ![f] = FALSE]
  /\ UNCHANGED proc

\* socket(2) returns f; NoFd when the tables are full.
SysSocket(proto, f) ==
  \/ Open(f, "created", proto)
  \/ f = NoFd /\ UNCHANGED kernelVars

\* bind(2) and listen(2): ok is whether the call returned 0.
Advance(f, from, to, ok) ==
  /\ kstate[f] = from
  /\ kstate' = IF ok THEN [kstate EXCEPT ![f] = to] ELSE kstate
  /\ UNCHANGED <<kproto, knonblock, proc>>

SysBind(f, ok) == Advance(f, "created", "bound", ok)

SysListen(f, ok) == Advance(f, "bound", "listening", ok)

\* accept(2) on the listening descriptor f returns r; the new socket does
\* not inherit O_NONBLOCK.
SysAccept(f, r) ==
  /\ kstate[f] = "listening"
  /\ \/ Open(r, "connected", "TCP")
     \/ r = NoFd /\ UNCHANGED kernelVars

\* accept(2) and close(2) of what it returned, with nothing in between.
SysAcceptAndClose(f, r) ==
  /\ kstate[f] = "listening"
  /\ r \in {NoFd} \cup {g \in Fds : kstate[g] = "free"}
  /\ UNCHANGED kernelVars

\* fcntl(2): reading the flags, then setting O_NONBLOCK, each may fail.
SysGetFlags(f, ok) == f \in Fds \/ ~ok

SysSetFlags(f, ok) ==
  /\ knonblock' = IF ok THEN [knonblock EXCEPT ![f] = TRUE] ELSE knonblock
  /\ UNCHANGED <<kstate, kproto, proc>>

\* What send(2) of size bytes may return: only a connected stream moves
\* data, possibly less than asked.
SendResults(f, size) ==
  {-1} \cup (IF f \in Fds /\ kstate[f] = "connected" THEN 1 .. size ELSE {})

\* A stream that is not connected, or whose peer has gone, also raises
\* SIGPIPE, which nothing in the program blocks.
MayRaiseSigpipe(f) == f \in Fds /\ kproto[f] = "TCP"

\* The descriptors in F, of which some may not be open, are closed.
SysCloseAll(F) ==
  /\ kstate' = [f \in Fds |-> IF f \in F THEN "free" ELSE kstate[f]]
  /\ kproto' = [f \in Fds |-> IF f \in F THEN "TCP" ELSE kproto[f]]
  /\ knonblock' = [f \in Fds |-> knonblock[f] /\ f \notin F]
  /\ UNCHANGED proc

SysClose(f) == SysCloseAll({f})

\* The process ends; the rest is kept as it was at that moment.
Die(how) ==
  /\ proc' = how
  /\ UNCHANGED <<kstate, kproto, knonblock>>
===============================================================================

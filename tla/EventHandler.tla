----------------------------- MODULE EventHandler -----------------------------
(***************************************************************************)
(* event/event_handler.cpp as event/task_scheduler.cpp forwards to it: the *)
(* persistent events and the buffer events of one event_base. libevent     *)
(* itself is external: what it may call is given by Watches and Talks.     *)
(*                                                                         *)
(* Definitions called Bad... are mutated forms of the definition after     *)
(* them; no specification uses them.                                       *)
(***************************************************************************)
EXTENDS TcpConnection

VARIABLES
  events_,          \* descriptors with an Event, watched for reading
  buffer_events_    \* [fd, ctx] of each BufferEvent; ctx is what libevent
                    \* hands to its callbacks

eventVars == <<events_, buffer_events_>>

Ctx == {"self", "null"}

EventTypeOK ==
  /\ events_ \subseteq Fds \cup {NoFd}
  /\ buffer_events_ \subseteq [fd : Fds \cup {NoFd}, ctx : Ctx]

EventInit ==
  /\ events_ = {}
  /\ buffer_events_ = {}

\* EventBase::regist_event: event_new and event_add.
RegistEvent(f) ==
  /\ events_' = events_ \cup {f}
  /\ UNCHANGED buffer_events_

\* EventBase::register_ioevent: bufferevent_setcb gets a null pointer where
\* its callbacks expect their BufferEvent.
RegisterIoEvent(f) ==
  /\ buffer_events_' = buffer_events_ \cup {[fd |-> f, ctx |-> "null"]}
  /\ UNCHANGED events_

\* libevent may call the callback of an Event, or those of a BufferEvent: its
\* descriptor is open. One registered with NoFd is never called.
Watches(f) == f \in events_ \cap Fds /\ kstate[f] # "free"

Talks(b) == b \in buffer_events_ /\ b.fd \in Fds /\ kstate[b.fd] = "connected"

\* event_base_loop has nothing to wait for.
NothingToWaitFor ==
  ~ \E f \in Fds : f \in events_ \/ \E b \in buffer_events_ : b.fd = f

\* read_cb and error_cb use their context at once.
CallbackFails(b) == b.ctx = "null" /\ Die("segv")

\* The EventHandler is destroyed. BEV_OPT_CLOSE_ON_FREE closes the descriptors
\* of the buffer events, at once or, in later versions of libevent, from the
\* loop, which does not run again.
DestroyEvents ==
  /\ \E F \in {{}, {b.fd : b \in buffer_events_}} : SysCloseAll(F)
  /\ events_' = {}
  /\ buffer_events_' = {}
===============================================================================

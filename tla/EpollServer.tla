---------------------------- MODULE EpollServer -----------------------------
(* The edge-triggered server of C/epoll_server.c: it prints what its clients  *)
(* send.  A descriptor is reported once for each change the kernel saw, so    *)
(* the handlers must take everything there is before they go on.              *)
EXTENDS SockEnv

CONSTANTS MAXEVENTS,
          Faults              \* may accept() or write() fail?

ASSUME ServerAssumption == MAXEVENTS \in Nat \ {0} /\ Faults \in BOOLEAN

VARIABLES pc,        \* "loop", "accept", "read", "aborted"
          ready,     \* the ready list of the epoll instance
          events,    \* events of this batch, the one being handled first
          starved    \* history: accept() failed, and nobody connected since

srvVars == <<pc, ready, events, starved>>
vars == <<envVars, srvVars>>

Init == /\ EnvInit
        /\ pc = "loop" /\ ready = <<>> /\ events = <<>> /\ starved = FALSE

-----------------------------------------------------------------------------
(* The kernel: a change puts a monitored descriptor on the ready list, where  *)
(* it stands at most once; epoll_wait() reports up to MAXEVENTS descriptors   *)
(* of the list that are ready now, and forgets them and those that are not.   *)
Watched == Fds \cup {Listener}
InSeq(x, s) == \E k \in 1..Len(s) : s[k] = x
Notify(fd) == IF InSeq(fd, ready) THEN ready ELSE Append(ready, fd)

Forget(fd) == Kept(ready, Watched \ {fd})

(* What epoll_wait() returns for fd, and the connection it speaks of.         *)
Report(fd) ==
  [fd |-> fd,
   conn |-> IF fd = Listener THEN None ELSE owner[fd],
   err |-> fd # Listener /\ peer[owner[fd]] = "rst"]

Client(c) ==
  /\ \/ Connect(c) /\ ready' = Notify(Listener) /\ starved' = FALSE
     \/ /\ SendMsg(c) \/ Leave(c) \/ ResetBy(c)
        /\ UNCHANGED starved
        /\ \/ FdOf(c) = {} /\ UNCHANGED ready
           \/ \E fd \in FdOf(c) : ready' = Notify(fd)
  /\ UNCHANGED <<pc, events>>

-----------------------------------------------------------------------------
BatchSize(n) == IF n < MAXEVENTS THEN n ELSE MAXEVENTS
EpollWait ==
  /\ pc = "loop" /\ events = <<>>
  /\ LET live == Kept(ready, {fd \in Watched : Readable(fd)})
         n == BatchSize(Len(live))
     IN  /\ n > 0
         /\ events' = [k \in 1..n |-> Report(live[k])]
         /\ ready' = SubSeq(live, n + 1, Len(live))
  /\ UNCHANGED <<envVars, pc, starved>>

(* EPOLLERR or EPOLLHUP: the descriptor is closed, with what it holds.        *)
AfterError_FallThrough == pc' = "read" /\ UNCHANGED events
AfterError == pc' = "loop" /\ events' = Tail(events)
EventError ==
  /\ pc = "loop" /\ events # <<>> /\ Head(events).err
  /\ CloseFd(Head(events).fd) /\ ready' = Forget(Head(events).fd)
  /\ AfterError
  /\ UNCHANGED <<backlog, unread, sent, peer, starved>>

EventIn ==
  /\ pc = "loop" /\ events # <<>> /\ ~Head(events).err
  /\ pc' = IF Head(events).fd = Listener THEN "accept" ELSE "read"
  /\ UNCHANGED <<envVars, ready, events, starved>>

NextEvent == pc' = "loop" /\ events' = Tail(events)

(* accept, O_NONBLOCK, EPOLL_CTL_ADD; adding a descriptor that is ready       *)
(* already puts it on the ready list.                                         *)
AfterAccept_One == NextEvent
AfterAccept == UNCHANGED <<pc, events>>
Readied(c, infd) == IF unread[c] > 0 \/ peer[c] # "up" THEN Notify(infd) ELSE ready
Accept ==
  /\ pc = "accept"
  /\ \E infd \in Fds : /\ AcceptInto(infd)
                       /\ ready' = Readied(Head(backlog), infd)
  /\ AfterAccept
  /\ UNCHANGED <<unread, sent, peer, starved>>

(* EAGAIN ends the accept loop, and so does every other error: no descriptor  *)
(* left, or, with Faults, a connection lost on the way.                       *)
AcceptDone ==
  /\ pc = "accept" /\ backlog = <<>>
  /\ NextEvent /\ UNCHANGED <<envVars, ready, starved>>
AcceptFails ==
  /\ pc = "accept" /\ backlog # <<>>
  /\ \/ FreeFds = {} /\ UNCHANGED backlog
     \/ Faults /\ backlog' = Tail(backlog)
  /\ NextEvent /\ starved' = TRUE
  /\ UNCHANGED <<owner, unread, sent, peer, ready>>

(* The read loop: data is printed, EAGAIN ends the loop, end of file and an   *)
(* error close the descriptor, which also takes it out of the epoll set.      *)
AfterRead_Once == NextEvent
AfterRead == UNCHANGED <<pc, events>>
ReadData ==
  /\ pc = "read"
  /\ \E n \in RecvResults(Head(events).fd) :
       n > 0 /\ unread' = AfterRecv(Head(events).fd, n)
  /\ AfterRead
  /\ UNCHANGED <<backlog, owner, sent, peer, ready, starved>>

ReadDry ==
  /\ pc = "read" /\ RecvResults(Head(events).fd) = {}
  /\ NextEvent /\ UNCHANGED <<envVars, ready, starved>>

EndOfFile_Any(fd) == peer[owner[fd]] # "up"
EndOfFile(fd) == \E n \in RecvResults(fd) : n <= 0
ReadEnd ==
  /\ pc = "read" /\ EndOfFile(Head(events).fd)
  /\ CloseFd(Head(events).fd) /\ ready' = Forget(Head(events).fd)
  /\ NextEvent
  /\ UNCHANGED <<backlog, unread, sent, peer, starved>>

(* write(), fcntl() or epoll_ctl() fails: the program aborts.                 *)
Abort == /\ Faults /\ pc \in {"accept", "read"}
         /\ pc' = "aborted"
         /\ UNCHANGED <<envVars, ready, events, starved>>

Server == \/ EpollWait \/ EventError \/ EventIn
          \/ Accept \/ AcceptDone \/ AcceptFails
          \/ ReadData \/ ReadDry \/ ReadEnd \/ Abort

Next == Server \/ \E c \in Conns : Client(c)

Spec == Init /\ [][Next]_vars
FairSpec == Spec /\ WF_vars(Server)

-----------------------------------------------------------------------------
Event == [fd : Watched, conn : Conns \cup {None}, err : BOOLEAN]

TypeOK == /\ EnvTypeOK
          /\ pc \in {"loop", "accept", "read", "aborted"}
          /\ ready \in Seq(Watched) /\ events \in Seq(Event)
          /\ Len(events) <= MAXEVENTS
          /\ pc \in {"accept", "read"} => events # <<>>
          /\ starved \in BOOLEAN

(* Closing and accepting while a batch is handled reuses descriptor numbers:  *)
(* no event still to be handled speaks of a descriptor that was closed, or    *)
(* that stands for another connection now.                                    *)
EventsCurrent ==
  /\ \A k \in 1..Len(events) :
       events[k].fd # Listener =>
         /\ events[k].conn # None /\ owner[events[k].fd] = events[k].conn
  /\ \A j, k \in 1..Len(events) : events[j].fd = events[k].fd => j = k

InBatch(fd) == \E k \in 1..Len(events) : events[k].fd = fd

(* No notification is lost although each is given once: whatever a client     *)
(* sent, or did, and the server has not seen is on the ready list or in the   *)
(* batch being handled ("won't get a notification again for the same data").  *)
(* The same holds for the connections waiting to be accepted, unless an       *)
(* accept() failed after the last client connected.                           *)
NoEdgeLost ==
  \A fd \in OpenFds \cup {Listener} :
    Readable(fd) => \/ InSeq(fd, ready) \/ InBatch(fd)
                    \/ fd = Listener /\ starved

(* A connection that was not reset is closed only after everything its client *)
(* sent has been read.                                                        *)
ClosedOnlyDrained ==
  [][\A c \in Conns : FdOf(c) # {} /\ FdOf(c)' = {}
                        => unread[c] = 0 \/ peer[c] = "rst"]_vars

(* Every connection is accepted, unless accept() failed, every message read,  *)
(* and every connection whose client left is closed, however few events a     *)
(* batch may hold, as long as the server does not abort.                      *)
EveryClientServed ==
  \A c \in Conns :
    (Live(c) /\ (Queued(c) \/ unread[c] > 0 \/ peer[c] # "up"))
       ~> \/ FdOf(c) # {} /\ unread[c] = 0 /\ peer[c] = "up"
          \/ ~Live(c)
          \/ Queued(c) /\ starved
          \/ pc = "aborted"
=============================================================================

-------------------------- MODULE EpollServerProofs -------------------------
(* Theorems about the edge-triggered server of C/epoll_server.c, for any      *)
(* number of connections, descriptors and messages and any MAXEVENTS, and     *)
(* about the loop that finds its address, for lists of any length.            *)
EXTENDS EpollServer, AddrLoop, SockEnvProofs

-----------------------------------------------------------------------------
(* The invariant.  The event being handled says what the handler works on; an *)
(* error was reported of a connection that was reset, and stays so.           *)
Types == /\ pc \in {"loop", "accept", "read", "aborted"}
         /\ ready \in Seq(Watched) /\ events \in Seq(Event)
         /\ Len(events) <= MAXEVENTS
         /\ starved \in BOOLEAN
Handling == /\ pc = "accept" => events # <<>> /\ events[1].fd = Listener
            /\ pc = "read" => events # <<>> /\ events[1].fd # Listener
Errors == \A k \in 1..Len(events) :
            events[k].err => events[k].fd # Listener /\ peer[events[k].conn] = "rst"
ReadyOnce == Once(ready)

IInv == EnvInv /\ Types /\ Handling /\ Errors /\ ReadyOnce /\ EventsCurrent /\ NoEdgeLost

LEMMA Numbers == /\ Fds \subseteq Nat /\ Listener \notin Fds /\ MAXEVENTS \in Nat \ {0}
                 /\ Fds \subseteq Watched /\ Listener \in Watched
  BY EnvAssumption, ServerAssumption DEF Fds, Listener, Watched

LEMMA InReady == \A fd : InSeq(fd, ready) <=> fd \in Elems(ready)
  BY DEF InSeq, Elems

(* A descriptor is put on the ready list, once; one that is closed leaves it. *)
LEMMA NotifyReady ==
  ASSUME ready \in Seq(Watched), Once(ready), NEW fd \in Watched
  PROVE  /\ Notify(fd) \in Seq(Watched) /\ Once(Notify(fd))
         /\ Elems(Notify(fd)) = Elems(ready) \cup {fd}
  BY AppendElems, InReady DEF Notify

LEMMA ForgetReady ==
  ASSUME ready \in Seq(Watched), Once(ready), NEW fd
  PROVE  /\ Forget(fd) \in Seq(Watched) /\ Once(Forget(fd))
         /\ Elems(Forget(fd)) = Elems(ready) \ {fd}
<1>1. Elems(ready) \subseteq Watched
  BY ElementOfSeq DEF Elems
<1> QED
  BY <1>1, KeptProperties DEF Forget

(* The rest of a batch.                                                       *)
Batch == {events[k].fd : k \in 1..Len(events)}
LEMMA InBatchIs == \A fd : InBatch(fd) <=> fd \in Batch
  BY DEF InBatch, Batch

LEMMA EventTypes ==
  ASSUME Types, NEW k \in 1..Len(events)
  PROVE  /\ events[k] \in Event /\ events[k].fd \in Watched
         /\ events[k].conn \in Conns \cup {None} /\ events[k].err \in BOOLEAN
<1>1. events[k] \in Event
  BY ElementOfSeq DEF Types
<1> QED
  BY <1>1 DEF Event

LEMMA RestOfBatch ==
  ASSUME events \in Seq(Event), events # <<>>, events' = Tail(events),
         \A j, k \in 1..Len(events) : events[j].fd = events[k].fd => j = k
  PROVE  /\ events' \in Seq(Event) /\ Len(events') = Len(events) - 1 /\ Len(events) \in Nat \ {0}
         /\ Head(events) = events[1] /\ events[1] \in Event
         /\ \A k \in 1..Len(events') : k + 1 \in 1..Len(events) /\ events'[k] = events[k + 1]
                                        /\ events'[k].fd # events[1].fd
         /\ Batch' = Batch \ {events[1].fd}
         /\ \A j, k \in 1..Len(events') : events'[j].fd = events'[k].fd => j = k
<1>1. /\ events' \in Seq(Event) /\ Len(events') = Len(events) - 1 /\ Len(events) \in Nat \ {0}
      /\ Head(events) = events[1] /\ events[1] \in Event
      /\ \A k \in 1..Len(events') : /\ k + 1 \in 1..Len(events) /\ k + 1 # 1
                                    /\ events'[k] = events[k + 1]
      /\ \A k \in 1..Len(events) : k = 1 \/ (k - 1 \in 1..Len(events') /\ events'[k - 1] = events[k])
  BY TailElems
<1>2. 1 \in 1..Len(events)
  BY <1>1
<1>3. \A k \in 1..Len(events') : events'[k].fd # events[1].fd
  BY <1>1, <1>2
<1>4. \A j, k \in 1..Len(events') : events'[j].fd = events'[k].fd => j = k
  <2>1. \A j, k \in 1..Len(events') : events'[j].fd = events'[k].fd => j + 1 = k + 1
    BY <1>1
  <2> QED
    BY <2>1
<1>5. Batch' = Batch \ {events[1].fd}
  <2>1. ASSUME NEW k \in 1..Len(events), k # 1 PROVE events[k].fd \in Batch'
    <3>1. PICK j \in 1..Len(events') : events'[j] = events[k]
      BY <1>1, <2>1
    <3>2. events'[j].fd \in Batch'
      BY DEF Batch
    <3> QED
      BY <3>1, <3>2, Zenon
  <2>2. \A k \in 1..Len(events') : events'[k].fd \in Batch
    BY <1>1 DEF Batch
  <2> QED
    BY <1>2, <1>3, <2>1, <2>2, SMTT(30) DEF Batch
<1> QED
  BY <1>1, <1>3, <1>4, <1>5

LEMMA InitI == Init => IInv
<1> SUFFICES ASSUME Init PROVE IInv
  OBVIOUS
<1>1. EnvInv
  BY EnvStart DEF Init
<1>2. Types
  <2>1. ready \in Seq(Watched) /\ events \in Seq(Event) /\ Len(events) = 0
    BY EmptySeq DEF Init
  <2>2. 0 <= MAXEVENTS
    BY Numbers
  <2> QED
    BY <2>1, <2>2 DEF Init, Types
<1>3. Handling /\ Errors /\ ReadyOnce /\ EventsCurrent
  <2>1. Len(events) = 0 /\ Len(ready) = 0 /\ pc = "loop"
    BY EmptySeq DEF Init
  <2> QED
    BY <2>1 DEF Handling, Errors, ReadyOnce, Once, EventsCurrent
<1>4. NoEdgeLost
  <2>1. OpenFds = {} /\ ~Readable(Listener)
    BY DEF Init, EnvInit, OpenFds, Readable
  <2> QED
    BY <2>1 DEF NoEdgeLost
<1> QED
  BY <1>1, <1>2, <1>3, <1>4 DEF IInv

-----------------------------------------------------------------------------
(* NoEdgeLost with sets for the lists.                                        *)
LEMMA EdgeIs ==
  /\ NoEdgeLost <=> \A fd \in OpenFds \cup {Listener} :
        Readable(fd) => fd \in Elems(ready) \cup Batch \/ (fd = Listener /\ starved)
  /\ NoEdgeLost' <=> \A fd \in OpenFds' \cup {Listener} :
        Readable(fd)' => fd \in Elems(ready') \cup Batch' \/ (fd = Listener /\ starved')
  BY DEF NoEdgeLost, InSeq, InBatch, Elems, Batch

(* A client does something: the descriptor it is behind, if any, is notified. *)
LEMMA ClientI == ASSUME IInv, NEW c \in Conns, Client(c) PROVE IInv'
<1>1. ClientStep(c) /\ UNCHANGED <<pc, events, owner>>
  BY DEF Client, ClientStep, Connect, SendMsg, Leave, ResetBy
<1>2. EnvInv' /\ OpenFds' = OpenFds /\ Batch' = Batch
  BY <1>1, ClientEnv DEF IInv, OpenFds, Batch
<1>3. PICK X \in SUBSET Watched :
        /\ ready' \in Seq(Watched) /\ Once(ready') /\ Elems(ready') = Elems(ready) \cup X
        /\ backlog' # backlog => Listener \in X
        /\ \A fd \in OpenFds : owner[fd] = c => fd \in X \/ Connect(c)
  <2>1. CASE Connect(c) /\ ready' = Notify(Listener)
    <3>1. PICK Y \in SUBSET Watched : Y = {Listener}
      BY Numbers
    <3>2. ready' \in Seq(Watched) /\ Once(ready') /\ Elems(ready') = Elems(ready) \cup Y
      BY <2>1, <3>1, NotifyReady, Numbers DEF IInv, Types, ReadyOnce
    <3> QED
      BY <2>1, <3>1, <3>2
  <2>2. CASE /\ SendMsg(c) \/ Leave(c) \/ ResetBy(c)
             /\ FdOf(c) = {} /\ UNCHANGED ready
    <3>1. backlog' = backlog
      BY <2>2 DEF SendMsg, Leave, ResetBy
    <3> WITNESS {} \in SUBSET Watched
    <3> QED
      BY <2>2, <3>1 DEF IInv, Types, ReadyOnce, FdOf
  <2>3. ASSUME SendMsg(c) \/ Leave(c) \/ ResetBy(c), NEW fd \in FdOf(c), ready' = Notify(fd)
        PROVE  \E X \in SUBSET Watched :
                 /\ ready' \in Seq(Watched) /\ Once(ready') /\ Elems(ready') = Elems(ready) \cup X
                 /\ backlog' # backlog => Listener \in X
                 /\ \A g \in OpenFds : owner[g] = c => g \in X \/ Connect(c)
    <3>1. backlog' = backlog
      BY <2>3 DEF SendMsg, Leave, ResetBy
    <3>2. fd \in Fds /\ owner[fd] = c /\ \A g \in OpenFds : owner[g] = c => g = fd
      BY DEF FdOf, OpenFds, IInv, EnvInv, OneOwner
    <3>3. fd \in Watched
      BY <3>2, Numbers
    <3>4. PICK Y \in SUBSET Watched : Y = {fd}
      BY <3>3
    <3>5. ready' \in Seq(Watched) /\ Once(ready') /\ Elems(ready') = Elems(ready) \cup Y
      BY <2>3, <3>3, <3>4, NotifyReady DEF IInv, Types, ReadyOnce
    <3> QED
      BY <3>1, <3>2, <3>4, <3>5
  <2> QED
    BY <2>1, <2>2, <2>3 DEF Client
<1>4. Types' /\ ReadyOnce' /\ Handling' /\ EventsCurrent'
  <2>1. starved' \in BOOLEAN
    BY DEF Client, IInv, Types
  <2> QED
    BY <1>1, <1>3, <2>1 DEF IInv, Types, ReadyOnce, Handling, EventsCurrent
<1>5. \A d \in Conns : peer[d] = "rst" => peer'[d] = "rst"
  BY <1>1 DEF ClientStep, Connect, SendMsg, Leave, ResetBy, IInv, EnvInv, EnvTypeOK
<1>6. Errors'
  <2>1. \A k \in 1..Len(events) : events[k].err => events[k].conn \in Conns
    BY EventTypes DEF IInv, EventsCurrent, Errors
  <2> QED
    BY <1>1, <1>5, <2>1 DEF IInv, Errors
<1>7. NoEdgeLost'
  <2> SUFFICES ASSUME NEW fd \in OpenFds \cup {Listener}, Readable(fd)'
               PROVE  fd \in Elems(ready') \cup Batch' \/ (fd = Listener /\ starved')
    BY <1>2, EdgeIs
  <2>1. CASE fd = Listener
    <3>1. CASE backlog' # backlog
      BY <1>3, <2>1, <3>1
    <3>2. CASE backlog' = backlog
      <4>1. Readable(fd) /\ ~Connect(c)
        <5>1. Connect(c) => backlog' # backlog
          <6>1. ASSUME Connect(c) PROVE Len(backlog') = Len(backlog) + 1 /\ Len(backlog) \in Nat
            BY <6>1 DEF Connect, IInv, EnvInv, EnvTypeOK
          <6> QED
            BY <6>1
        <5> QED
          BY <2>1, <3>2, <5>1 DEF Readable
      <4>2. starved' = starved
        BY <4>1 DEF Client
      <4> QED
        BY <1>2, <1>3, <4>1, <4>2, EdgeIs DEF IInv
    <3> QED
      BY <3>1, <3>2
  <2>2. CASE fd # Listener
    <3>1. fd \in OpenFds
      BY <2>2
    <3>2. CASE owner[fd] = c
      <4>1. ~Connect(c)
        BY <3>1, <3>2, EnvAssumption DEF Connect, OpenFds, IInv, EnvInv, Made
      <4> QED
        BY <1>3, <3>1, <3>2, <4>1
    <3>3. CASE owner[fd] # c
      <4>1. owner[fd] \in Conns
        BY <3>1 DEF OpenFds, IInv, EnvInv, EnvTypeOK
      <4>2. unread'[owner[fd]] = unread[owner[fd]] /\ peer'[owner[fd]] = peer[owner[fd]]
        BY <1>1, <3>3, <4>1 DEF ClientStep, Connect, SendMsg, Leave, ResetBy, IInv, EnvInv, EnvTypeOK
      <4>3. Readable(fd)
        BY <1>1, <2>2, <4>2 DEF Readable
      <4> QED
        BY <1>2, <1>3, <2>2, <4>3, EdgeIs DEF IInv
    <3> QED
      BY <3>2, <3>3
  <2> QED
    BY <2>1, <2>2
<1> QED
  BY <1>2, <1>4, <1>6, <1>7 DEF IInv

-----------------------------------------------------------------------------
(* The handler leaves an event whose descriptor has nothing more to give, or  *)
(* is on the ready list again, or is the listener after a failed accept().    *)
LEMMA LeaveEvent ==
  ASSUME IInv, events # <<>>, NEW x, x = events[1].fd,
         events' = Tail(events), pc' = "loop", EnvInv', UNCHANGED <<owner, unread, peer, ready>>,
         starved' \in BOOLEAN, starved => starved', backlog' # <<>> => backlog # <<>>,
         Readable(x)' => x = Listener /\ starved'
  PROVE  IInv'
<1> USE DEF IInv
<1>1. /\ events' \in Seq(Event) /\ Len(events') = Len(events) - 1 /\ Len(events) \in Nat \ {0}
      /\ \A k \in 1..Len(events') : k + 1 \in 1..Len(events) /\ events'[k] = events[k + 1]
      /\ Batch' = Batch \ {events[1].fd}
      /\ \A j, k \in 1..Len(events') : events'[j].fd = events'[k].fd => j = k
  BY RestOfBatch DEF Types, EventsCurrent
<1>2. Len(events') <= MAXEVENTS
  BY <1>1, Numbers DEF Types
<1>3. Types' /\ Handling' /\ ReadyOnce'
  BY <1>1, <1>2 DEF Types, Handling, ReadyOnce
<1>4. Errors' /\ EventsCurrent'
  BY <1>1 DEF Errors, EventsCurrent
<1>5. NoEdgeLost'
  <2> SUFFICES ASSUME NEW fd \in OpenFds' \cup {Listener}, Readable(fd)'
               PROVE  fd \in Elems(ready') \cup Batch' \/ (fd = Listener /\ starved')
    BY EdgeIs
  <2>1. OpenFds' = OpenFds
    BY DEF OpenFds
  <2>2. Readable(fd)
    BY DEF Readable
  <2>3. fd \in Elems(ready) \cup Batch \/ (fd = Listener /\ starved)
    BY <2>1, <2>2, EdgeIs
  <2>4. CASE fd = x
    BY <2>4
  <2>5. CASE fd # x
    BY <1>1, <2>3, <2>5
  <2> QED
    BY <2>4, <2>5
<1> QED
  BY <1>3, <1>4, <1>5

(* The handler closes the descriptor of its event.                            *)
LEMMA CloseEvent ==
  ASSUME IInv, events # <<>>, events[1].fd # Listener, CloseFd(events[1].fd),
         ready' = Forget(events[1].fd), events' = Tail(events), pc' = "loop",
         UNCHANGED <<backlog, unread, sent, peer, starved>>
  PROVE  IInv' /\ OpenFds' = OpenFds \ {events[1].fd}
<1> USE DEF IInv
<1>1. /\ events' \in Seq(Event) /\ Len(events') = Len(events) - 1 /\ Len(events) \in Nat \ {0}
      /\ events[1] \in Event
      /\ \A k \in 1..Len(events') : k + 1 \in 1..Len(events) /\ events'[k] = events[k + 1]
                                     /\ events'[k].fd # events[1].fd
      /\ Batch' = Batch \ {events[1].fd}
      /\ \A j, k \in 1..Len(events') : events'[j].fd = events'[k].fd => j = k
  BY RestOfBatch DEF Types, EventsCurrent
<1>2. PICK x \in Fds : x = events[1].fd
  BY <1>1 DEF Event, Watched
<1>3. EnvInv' /\ OpenFds' = OpenFds \ {x}
  BY <1>2, CloseEnv
<1>4. ready' \in Seq(Watched) /\ Once(ready') /\ Elems(ready') = Elems(ready) \ {x}
  BY <1>2, ForgetReady DEF Types, ReadyOnce
<1>5. Len(events') <= MAXEVENTS
  BY <1>1, Numbers DEF Types
<1>6. Types' /\ Handling' /\ ReadyOnce'
  BY <1>1, <1>4, <1>5 DEF Types, Handling, ReadyOnce
<1>7. \A fd \in Fds : fd # x => owner'[fd] = owner[fd]
  BY <1>2 DEF CloseFd, EnvInv, EnvTypeOK
<1>8. Errors' /\ EventsCurrent'
  <2>1. Errors'
    BY <1>1 DEF Errors
  <2>2. \A k \in 1..Len(events') : events'[k].fd # Listener =>
           events'[k].conn # None /\ owner'[events'[k].fd] = events'[k].conn
    <3> SUFFICES ASSUME NEW k \in 1..Len(events'), events'[k].fd # Listener
                 PROVE  events'[k].conn # None /\ owner'[events'[k].fd] = events'[k].conn
      OBVIOUS
    <3>1. k + 1 \in 1..Len(events) /\ events'[k] = events[k + 1] /\ events'[k].fd # x
      BY <1>1, <1>2
    <3>2. events'[k].fd \in Fds
      BY <3>1, EventTypes DEF Watched
    <3> QED
      BY <1>7, <3>1, <3>2 DEF EventsCurrent
  <2> QED
    BY <1>1, <2>1, <2>2 DEF EventsCurrent
<1>9. NoEdgeLost'
  <2> SUFFICES ASSUME NEW fd \in OpenFds' \cup {Listener}, Readable(fd)'
               PROVE  fd \in Elems(ready') \cup Batch' \/ (fd = Listener /\ starved')
    BY EdgeIs
  <2>1. fd # x /\ fd \in OpenFds \cup {Listener}
    BY <1>2, <1>3
  <2>2. Readable(fd)
    BY <1>7, <2>1, Numbers DEF Readable, OpenFds
  <2>3. fd \in Elems(ready) \cup Batch \/ (fd = Listener /\ starved)
    BY <2>1, <2>2, EdgeIs
  <2> QED
    BY <1>1, <1>2, <1>4, <2>1, <2>3
<1> QED
  BY <1>2, <1>3, <1>6, <1>8, <1>9

-----------------------------------------------------------------------------
LEMMA HeadIs ==
  ASSUME Types, events # <<>>
  PROVE  /\ 1 \in 1..Len(events) /\ Head(events) = events[1] /\ events[1].fd \in Watched
         /\ events[1].err \in BOOLEAN
<1>1. 1 \in 1..Len(events) /\ Head(events) = events[1]
  BY TailElems DEF Types
<1> QED
  BY <1>1, EventTypes

LEMMA EventErrorI == ASSUME IInv, EventError PROVE IInv'
<1>1. events # <<>> /\ Head(events) = events[1] /\ events[1].fd # Listener
  BY HeadIs DEF EventError, IInv, Errors
<1> QED
  BY <1>1, CloseEvent DEF EventError, AfterError

LEMMA ReadEndI == ASSUME IInv, ReadEnd PROVE IInv'
<1>1. events # <<>> /\ Head(events) = events[1] /\ events[1].fd # Listener
  BY HeadIs DEF ReadEnd, IInv, Handling
<1> QED
  BY <1>1, CloseEvent DEF ReadEnd, NextEvent

(* EventIn, and the end of the program.                                       *)
LEMMA NoMoveI == ASSUME IInv, EventIn \/ Abort PROVE IInv'
<1>1. UNCHANGED <<envVars, ready, events, starved>> /\ pc' \in {"accept", "read", "aborted"}
  BY DEF EventIn, Abort
<1>2. Handling'
  <2>1. CASE EventIn
    <3>1. events # <<>> /\ Head(events) = events[1]
      BY <2>1, HeadIs DEF EventIn, IInv
    <3> QED
      BY <1>1, <2>1, <3>1 DEF EventIn, Handling
  <2>2. CASE Abort
    BY <2>2 DEF Abort, Handling
  <2> QED
    BY <2>1, <2>2
<1>3. EnvInv'
  BY <1>1 DEF IInv, EnvInv, EnvTypeOK, Made, OneOwner, QueuedOnce, NotBoth, NoMoreThanSent, envVars
<1>4. Types' /\ Errors' /\ ReadyOnce' /\ EventsCurrent'
  BY <1>1 DEF IInv, Types, Errors, ReadyOnce, Once, EventsCurrent, envVars
<1>5. NoEdgeLost'
  BY <1>1 DEF IInv, NoEdgeLost, InSeq, InBatch, Readable, OpenFds, envVars
<1> QED
  BY <1>2, <1>3, <1>4, <1>5 DEF IInv

(* The accept loop ends with an empty backlog, or after an error.             *)
LEMMA AcceptDoneI == ASSUME IInv, AcceptDone PROVE IInv'
<1>1. events # <<>> /\ events[1].fd = Listener
  BY DEF AcceptDone, IInv, Handling
<1>2. EnvInv'
  BY DEF AcceptDone, IInv, EnvInv, EnvTypeOK, Made, OneOwner, QueuedOnce, NotBoth,
         NoMoreThanSent, envVars
<1>3. ~Readable(Listener)'
  BY DEF AcceptDone, Readable, envVars
<1>4. starved' = starved /\ starved \in BOOLEAN
  BY DEF AcceptDone, IInv, Types
<1> QED
  BY <1>1, <1>2, <1>3, <1>4, LeaveEvent DEF AcceptDone, NextEvent, envVars

LEMMA AcceptFailsI == ASSUME IInv, AcceptFails PROVE IInv'
<1>1. events # <<>> /\ events[1].fd = Listener
  BY DEF AcceptFails, IInv, Handling
<1>2. EnvInv'
  <2>1. CASE UNCHANGED backlog
    BY <2>1 DEF AcceptFails, IInv, EnvInv, EnvTypeOK, Made, OneOwner, QueuedOnce, NotBoth,
                NoMoreThanSent
  <2>2. CASE backlog' = Tail(backlog)
    BY <2>2, RefuseEnv DEF AcceptFails, IInv
  <2> QED
    BY <2>1, <2>2 DEF AcceptFails
<1> QED
  BY <1>1, <1>2, LeaveEvent DEF AcceptFails, NextEvent

(* EAGAIN: the connection has nothing to read, and its client is there.       *)
LEMMA ReadDryI == ASSUME IInv, ReadDry PROVE IInv'
<1>1. events # <<>> /\ Head(events) = events[1] /\ events[1].fd # Listener
  BY HeadIs DEF ReadDry, IInv, Handling
<1>2. PICK x \in Fds : x = events[1].fd
  BY <1>1, HeadIs DEF IInv, Watched
<1>3. EnvInv'
  BY DEF ReadDry, IInv, EnvInv, EnvTypeOK, Made, OneOwner, QueuedOnce, NotBoth,
         NoMoreThanSent, envVars
<1>4. owner[x] \in Conns /\ owner[x] # None
  BY <1>1, <1>2, HeadIs DEF IInv, EventsCurrent, EnvInv, EnvTypeOK
<1>5. ~Readable(x)
  <2>1. RecvResults(x) = {}
    BY <1>1, <1>2 DEF ReadDry
  <2>2. ~(unread[owner[x]] > 0)
    <3>1. unread[owner[x]] \in Nat
      BY <1>4, EnvAssumption DEF IInv, EnvInv, EnvTypeOK
    <3>2. unread[owner[x]] > 0 => 1 \in RecvResults(x)
      BY <3>1 DEF RecvResults
    <3> QED
      BY <2>1, <3>2
  <2>3. peer[owner[x]] # "fin" /\ peer[owner[x]] # "rst"
    BY <2>1, <2>2 DEF RecvResults
  <2>4. peer[owner[x]] = "up"
    BY <1>4, <2>3 DEF IInv, EnvInv, EnvTypeOK, Made
  <2>5. x # Listener
    BY Numbers
  <2> QED
    BY <2>2, <2>4, <2>5 DEF Readable
<1>6. ~Readable(x)'
  BY <1>5 DEF ReadDry, Readable, envVars
<1>7. starved' = starved /\ starved \in BOOLEAN
  BY DEF ReadDry, IInv, Types
<1> QED
  BY <1>1, <1>2, <1>3, <1>6, <1>7, LeaveEvent DEF ReadDry, NextEvent, envVars

-----------------------------------------------------------------------------
(* epoll_wait(): every descriptor of the ready list that is ready goes into   *)
(* the batch or stays on the list.                                            *)
LEMMA BatchTaken ==
  ASSUME NEW T, NEW s \in Seq(T), NEW n \in Nat, n <= Len(s), NEW r, r = SubSeq(s, n + 1, Len(s))
  PROVE  /\ r \in Seq(T) /\ Len(r) = Len(s) - n /\ (\A i \in 1..Len(r) : r[i] = s[n + i])
<1>1. Len(s) \in Nat /\ \A k \in 1..Len(s) : s[k] \in T
  BY LenProperties, ElementOfSeq
<1>2. n + 1 \in Int /\ Len(s) \in Int /\ \A i \in (n + 1)..Len(s) : s[i] \in T
  BY <1>1
<1>3. /\ r \in Seq(T)
      /\ Len(r) = IF n + 1 <= Len(s) THEN Len(s) - (n + 1) + 1 ELSE 0
      /\ \A i \in 1..(Len(s) - (n + 1) + 1) : r[i] = s[(n + 1) + i - 1]
  BY <1>2, SubSeqProperties
<1>4. Len(r) = Len(s) - n /\ \A i \in 1..Len(r) : r[i] = s[n + i]
  <2>1. Len(r) = Len(s) - n /\ Len(s) - (n + 1) + 1 = Len(r)
    BY <1>1, <1>3
  <2>2. \A i \in 1..Len(r) : (n + 1) + i - 1 = n + i
    BY <1>1, <2>1
  <2> QED
    BY <1>3, <2>1, <2>2
<1> QED
  BY <1>3, <1>4

LEMMA BatchRest ==
  ASSUME NEW T, NEW s \in Seq(T), NEW n \in Nat, n <= Len(s)
  PROVE  Elems(s) \subseteq {s[k] : k \in 1..n} \cup Elems(SubSeq(s, n + 1, Len(s)))
<1>1. PICK r : r = SubSeq(s, n + 1, Len(s))
  OBVIOUS
<1>2. Len(s) \in Nat /\ Len(r) = Len(s) - n /\ \A i \in 1..Len(r) : r[i] = s[n + i]
  BY <1>1, BatchTaken, LenProperties
<1>3. \A k \in 1..Len(s) : k \in 1..n \/ (k - n \in 1..Len(r) /\ r[k - n] = s[k])
  <2>1. \A k \in 1..Len(s) : k \in 1..n \/ (k - n \in 1..Len(r) /\ n + (k - n) = k)
    BY <1>2
  <2> QED
    BY <1>2, <2>1
<1>4. Elems(s) \subseteq {s[k] : k \in 1..n} \cup Elems(r)
  BY <1>3 DEF Elems
<1> QED
  BY <1>1, <1>4

LEMMA BatchOnce ==
  ASSUME NEW T, NEW s \in Seq(T), NEW n \in Nat, n <= Len(s), Once(s)
  PROVE  Once(SubSeq(s, n + 1, Len(s)))
<1>1. PICK r : r = SubSeq(s, n + 1, Len(s))
  OBVIOUS
<1>2. Len(s) \in Nat /\ Len(r) = Len(s) - n /\ \A i \in 1..Len(r) : r[i] = s[n + i]
  BY <1>1, BatchTaken, LenProperties
<1>3. \A i \in 1..Len(r) : n + i \in 1..Len(s)
  BY <1>2
<1>4. \A i, j \in 1..Len(r) : n + i = n + j => i = j
  BY <1>2
<1>5. Once(r)
  BY <1>2, <1>3, <1>4 DEF Once
<1> QED
  BY <1>1, <1>5

LEMMA EpollWaitI == ASSUME IInv, EpollWait PROVE IInv'
<1> USE DEF IInv
<1>1. PICK K : K = {fd \in Watched : Readable(fd)}
  OBVIOUS
<1>2. PICK live : live = Kept(ready, K)
  OBVIOUS
<1>3. PICK n : n = BatchSize(Len(live))
  OBVIOUS
<1>4. /\ n > 0 /\ events' = [k \in 1..n |-> Report(live[k])]
      /\ ready' = SubSeq(live, n + 1, Len(live))
      /\ UNCHANGED <<envVars, pc, starved>> /\ pc = "loop" /\ events = <<>>
  BY <1>1, <1>2, <1>3 DEF EpollWait
<1>5. live \in Seq(Watched) /\ Elems(live) = Elems(ready) \cap K /\ Once(live)
  BY <1>2, KeptProperties DEF Types, ReadyOnce
<1>6. n \in Nat /\ n <= Len(live) /\ n <= MAXEVENTS /\ Len(live) \in Nat
  <2>1. Len(live) \in Nat
    BY <1>5, LenProperties
  <2> QED
    BY <1>3, <2>1, Numbers DEF BatchSize
<1>7. ready' \in Seq(Watched) /\ Once(ready')
      /\ Elems(live) \subseteq {live[k] : k \in 1..n} \cup Elems(ready')
  <2>1. PICK r : r = SubSeq(live, n + 1, Len(live))
    OBVIOUS
  <2>2. /\ r \in Seq(Watched) /\ Once(r)
        /\ Elems(live) \subseteq {live[k] : k \in 1..n} \cup Elems(r)
    <3>1. live \in Seq(Watched) /\ n \in Nat /\ n <= Len(live)
      BY <1>5, <1>6
    <3>2. r \in Seq(Watched)
      BY <2>1, <3>1, BatchTaken
    <3>3. Once(SubSeq(live, n + 1, Len(live)))
      BY <1>5, <3>1, BatchOnce, Zenon
    <3>4. Elems(live) \subseteq {live[k] : k \in 1..n} \cup Elems(SubSeq(live, n + 1, Len(live)))
      BY <3>1, BatchRest, Zenon
    <3> QED
      BY <2>1, <3>2, <3>3, <3>4
  <2>3. ready' = r
    BY <1>4, <2>1
  <2> QED
    BY <2>2, <2>3
<1>8. ASSUME NEW k \in 1..n
      PROVE  /\ live[k] \in Watched /\ Readable(live[k])
             /\ events'[k].fd = live[k] /\ events'[k] \in Event
             /\ events'[k].fd # Listener => /\ events'[k].conn # None
                                            /\ owner[events'[k].fd] = events'[k].conn
             /\ events'[k].err => /\ events'[k].fd # Listener
                                  /\ peer[events'[k].conn] = "rst"
  <2>1. live[k] \in Elems(live)
    BY <1>6 DEF Elems
  <2>2. live[k] \in Watched /\ Readable(live[k])
    BY <1>1, <1>5, <2>1
  <2>3. PICK fd \in Watched : fd = live[k]
    BY <2>2
  <2>4. events'[k] = Report(fd)
    BY <1>4, <2>3
  <2>5. fd # Listener => fd \in Fds /\ owner[fd] # None /\ owner[fd] \in Conns
    BY <2>2, <2>3 DEF Watched, Readable, EnvInv, EnvTypeOK
  <2>6. PICK b \in BOOLEAN : b = (fd # Listener /\ peer[owner[fd]] = "rst")
    OBVIOUS
  <2>7. PICK c : c = IF fd = Listener THEN None ELSE owner[fd]
    OBVIOUS
  <2>8. events'[k] = [fd |-> fd, conn |-> c, err |-> b] /\ c \in Conns \cup {None}
    BY <2>4, <2>5, <2>6, <2>7 DEF Report
  <2>9. events'[k] \in Event
    BY <2>8 DEF Event
  <2>10. events'[k].fd = fd /\ events'[k].conn = c /\ events'[k].err = b
    BY <2>8
  <2> QED
    BY <2>2, <2>3, <2>5, <2>6, <2>7, <2>9, <2>10
<1>9. events' \in Seq(Event) /\ Len(events') = n
  <2>1. events' \in [1..n -> Event]
    BY <1>4, <1>8
  <2> QED
    BY <1>6, <2>1
<1>10. EnvInv'
  BY <1>4 DEF EnvInv, EnvTypeOK, Made, OneOwner, QueuedOnce, NotBoth, NoMoreThanSent, envVars
<1>11. Types' /\ Handling' /\ ReadyOnce'
  BY <1>4, <1>6, <1>7, <1>9 DEF Types, Handling, ReadyOnce
<1>12. Errors'
  BY <1>4, <1>8, <1>9 DEF Errors, envVars
<1>13. EventsCurrent'
  <2>1. \A j, k \in 1..n : events'[j].fd = events'[k].fd => j = k
    <3>1. \A j \in 1..n : j \in 1..Len(live)
      BY <1>6
    <3>2. \A j \in 1..n : events'[j].fd = live[j]
      BY <1>8
    <3> QED
      BY <1>5, <3>1, <3>2 DEF Once
  <2> QED
    BY <1>4, <1>8, <1>9, <2>1 DEF EventsCurrent, envVars
<1>14. NoEdgeLost'
  <2> SUFFICES ASSUME NEW fd \in OpenFds' \cup {Listener}, Readable(fd)'
               PROVE  fd \in Elems(ready') \cup Batch' \/ (fd = Listener /\ starved')
    BY EdgeIs
  <2>1. fd \in OpenFds \cup {Listener} /\ Readable(fd) /\ starved' = starved
    BY <1>4 DEF OpenFds, Readable, envVars
  <2>2. Batch = {}
    BY <1>4, EmptySeq DEF Batch
  <2>3. fd \in Elems(ready) \/ (fd = Listener /\ starved)
    BY <2>1, <2>2, EdgeIs
  <2>4. fd \in Watched
    BY <2>1, Numbers DEF OpenFds
  <2>5. fd \in Elems(ready) => fd \in Elems(live)
    BY <1>1, <1>5, <2>1, <2>4
  <2>6. {live[k] : k \in 1..n} \subseteq Batch'
    BY <1>8, <1>9 DEF Batch
  <2> QED
    BY <1>7, <2>1, <2>3, <2>5, <2>6
<1> QED
  BY <1>10, <1>11, <1>12, <1>13, <1>14

-----------------------------------------------------------------------------
(* accept(): the descriptor is new, so no event of the batch speaks of it; if *)
(* its connection has something to give already, it is on the ready list.     *)
LEMMA AcceptI == ASSUME IInv, Accept PROVE IInv'
<1> USE DEF IInv
<1>1. PICK infd \in Fds : AcceptInto(infd) /\ ready' = Readied(Head(backlog), infd)
  BY DEF Accept
<1>2. UNCHANGED <<pc, events, unread, sent, peer, starved>> /\ pc = "accept"
  BY DEF Accept, AfterAccept
<1>3. /\ owner[infd] = None /\ Head(backlog) \in Conns
      /\ OpenFds' = OpenFds \cup {infd}
      /\ \A f \in Fds : owner'[f] = IF f = infd THEN Head(backlog) ELSE owner[f]
  BY <1>1, AcceptGives
<1>4. EnvInv'
  BY <1>1, <1>2, AcceptEnv
<1>5. /\ ready' \in Seq(Watched) /\ Once(ready') /\ Elems(ready) \subseteq Elems(ready')
      /\ unread[Head(backlog)] > 0 \/ peer[Head(backlog)] # "up" => infd \in Elems(ready')
  <2>1. infd \in Watched
    BY Numbers
  <2>2. /\ Notify(infd) \in Seq(Watched) /\ Once(Notify(infd))
        /\ Elems(Notify(infd)) = Elems(ready) \cup {infd}
    BY <2>1, NotifyReady DEF Types, ReadyOnce
  <2>3. CASE unread[Head(backlog)] > 0 \/ peer[Head(backlog)] # "up"
    <3>1. ready' = Notify(infd)
      BY <1>1, <2>3 DEF Readied
    <3> QED
      BY <2>2, <3>1
  <2>4. CASE ~(unread[Head(backlog)] > 0 \/ peer[Head(backlog)] # "up")
    <3>1. ready' = ready
      BY <1>1, <2>4 DEF Readied
    <3> QED
      BY <2>4, <3>1 DEF Types, ReadyOnce
  <2> QED
    BY <2>3, <2>4
<1>6. Types' /\ Handling' /\ Errors' /\ ReadyOnce'
  BY <1>2, <1>5 DEF Types, Handling, Errors, ReadyOnce
<1>7. EventsCurrent'
  <2>1. ASSUME NEW k \in 1..Len(events), events[k].fd # Listener
        PROVE  events[k].conn # None /\ owner'[events[k].fd] = events[k].conn
    <3>1. events[k].fd \in Fds
      BY <2>1, EventTypes DEF Watched
    <3>2. events[k].conn # None /\ owner[events[k].fd] = events[k].conn
      BY <2>1 DEF EventsCurrent
    <3> QED
      BY <1>3, <3>1, <3>2
  <2> QED
    BY <1>2, <2>1 DEF EventsCurrent
<1>8. NoEdgeLost'
  <2> SUFFICES ASSUME NEW fd \in OpenFds' \cup {Listener}, Readable(fd)'
               PROVE  fd \in Elems(ready') \cup Batch' \/ (fd = Listener /\ starved')
    BY EdgeIs
  <2>1. Batch' = Batch
    BY <1>2 DEF Batch
  <2>2. CASE fd = Listener
    <3>1. Listener \in Batch
      BY <1>2, HeadIs DEF Handling, Batch
    <3> QED
      BY <2>1, <2>2, <3>1
  <2>3. CASE fd = infd
    <3>1. fd # Listener
      BY <2>3, Numbers
    <3>2. unread[Head(backlog)] > 0 \/ peer[Head(backlog)] # "up"
      BY <1>2, <1>3, <2>3, <3>1 DEF Readable
    <3> QED
      BY <1>5, <2>3, <3>2
  <2>4. CASE fd # infd /\ fd # Listener
    <3>1. fd \in OpenFds /\ fd \in Fds /\ owner'[fd] = owner[fd]
      BY <1>3, <2>4 DEF OpenFds
    <3>2. Readable(fd)
      BY <1>2, <2>4, <3>1 DEF Readable
    <3>3. fd \in Elems(ready) \cup Batch
      BY <2>4, <3>1, <3>2, EdgeIs
    <3> QED
      BY <1>5, <2>1, <3>3
  <2> QED
    BY <2>2, <2>3, <2>4
<1> QED
  BY <1>4, <1>6, <1>7, <1>8

(* A read: the event stays the one being handled.                             *)
LEMMA ReadDataI == ASSUME IInv, ReadData PROVE IInv'
<1> USE DEF IInv
<1>1. /\ events # <<>> /\ Head(events) = events[1] /\ events[1].fd # Listener
      /\ 1 \in 1..Len(events)
  BY HeadIs DEF ReadData, Handling
<1>2. PICK x \in Fds : x = events[1].fd
  BY <1>1, HeadIs DEF Watched
<1>3. UNCHANGED <<pc, events, backlog, owner, sent, peer, ready, starved>>
  BY DEF ReadData, AfterRead
<1>4. PICK n \in RecvResults(x) : n > 0 /\ unread' = AfterRecv(x, n)
  BY <1>1, <1>2 DEF ReadData
<1>5. owner[x] \in Conns /\ owner[x] # None /\ x \in OpenFds
  BY <1>1, <1>2 DEF EventsCurrent, EnvInv, EnvTypeOK, OpenFds
<1>6. EnvInv'
  BY <1>3, <1>4, <1>5, RecvEnv
<1>7. Types' /\ Handling' /\ Errors' /\ ReadyOnce' /\ EventsCurrent'
  BY <1>3 DEF Types, Handling, Errors, ReadyOnce, EventsCurrent
<1>8. NoEdgeLost'
  <2> SUFFICES ASSUME NEW fd \in OpenFds' \cup {Listener}, Readable(fd)'
               PROVE  fd \in Elems(ready') \cup Batch' \/ (fd = Listener /\ starved')
    BY EdgeIs
  <2>1. OpenFds' = OpenFds /\ Batch' = Batch
    BY <1>3 DEF OpenFds, Batch
  <2>2. CASE fd = x
    <3>1. x \in Batch
      BY <1>1, <1>2 DEF Batch
    <3> QED
      BY <2>1, <2>2, <3>1
  <2>3. CASE fd # x
    <3>1. Readable(fd)
      <4>1. CASE fd = Listener
        BY <1>3, <4>1 DEF Readable
      <4>2. CASE fd # Listener
        <5>1. fd \in Fds /\ owner[fd] # None /\ owner[fd] \in Conns
          BY <2>1, <4>2 DEF OpenFds, EnvInv, EnvTypeOK
        <5>2. owner[fd] # owner[x]
          BY <2>3, <5>1 DEF EnvInv, OneOwner
        <5>3. unread'[owner[fd]] = unread[owner[fd]]
          BY <1>4, <1>5, <5>1, <5>2 DEF AfterRecv, EnvInv, EnvTypeOK
        <5> QED
          BY <1>3, <4>2, <5>1, <5>3 DEF Readable
      <4> QED
        BY <4>1, <4>2
    <3> QED
      BY <1>3, <2>1, <3>1, EdgeIs
  <2> QED
    BY <2>2, <2>3
<1> QED
  BY <1>6, <1>7, <1>8

-----------------------------------------------------------------------------
LEMMA NextI == ASSUME IInv, [Next]_vars PROVE IInv'
<1>1. CASE UNCHANGED vars
  <2>1. EnvInv'
    BY <1>1 DEF IInv, EnvInv, EnvTypeOK, Made, OneOwner, QueuedOnce, NotBoth, NoMoreThanSent,
                vars, envVars
  <2>2. Types' /\ Handling' /\ ReadyOnce'
    BY <1>1 DEF IInv, Types, Handling, ReadyOnce, Once, vars, srvVars
  <2>3. Errors' /\ EventsCurrent'
    BY <1>1 DEF IInv, Errors, EventsCurrent, vars, srvVars, envVars
  <2>4. NoEdgeLost'
    BY <1>1 DEF IInv, NoEdgeLost, InSeq, InBatch, Readable, OpenFds, vars, srvVars, envVars
  <2> QED
    BY <2>1, <2>2, <2>3, <2>4 DEF IInv
<1>2. CASE Server
  BY <1>2, EpollWaitI, EventErrorI, NoMoveI, AcceptI, AcceptDoneI, AcceptFailsI, ReadDataI,
     ReadDryI, ReadEndI DEF Server
<1>3. CASE \E c \in Conns : Client(c)
  BY <1>3, ClientI
<1> QED
  BY <1>1, <1>2, <1>3 DEF Next

LEMMA Inductive == Spec => []IInv
<1>1. Init => IInv
  BY InitI
<1>2. IInv /\ [Next]_vars => IInv'
  BY NextI
<1> QED
  BY <1>1, <1>2, PTL DEF Spec

(* Every variable keeps its type, a batch never holds more than MAXEVENTS     *)
(* events, and a handler always has an event to work on.                      *)
THEOREM TypesKept == Spec => []TypeOK
<1>1. IInv => TypeOK
  BY DEF IInv, EnvInv, Types, Handling, TypeOK
<1> QED
  BY <1>1, Inductive, PTL

(* Closing and accepting in the middle of a batch reuses descriptor numbers,  *)
(* and still no event of the batch speaks of a descriptor that was closed or  *)
(* that stands for another connection now (C/epoll_server.c, the event loop). *)
THEOREM EventsAlwaysCurrent == Spec => []EventsCurrent
<1>1. IInv => EventsCurrent
  BY DEF IInv
<1> QED
  BY <1>1, Inductive, PTL

(* Edge-triggered notifications come once, and none is lost: whatever the     *)
(* server has not read or accepted is on the ready list or in the batch,      *)
(* unless an accept() failed after the last client connected.                 *)
THEOREM NoEdgeEverLost == Spec => []NoEdgeLost
<1>1. IInv => NoEdgeLost
  BY DEF IInv
<1> QED
  BY <1>1, Inductive, PTL

(* What ClosedOnlyDrained says of a step.                                     *)
Drained == \A c \in Conns : FdOf(c) # {} /\ FdOf(c)' = {} => unread[c] = 0 \/ peer[c] = "rst"

LEMMA StillOpen ==
  ASSUME NEW c \in Conns, FdOf(c) # {}, FdOf(c)' = {},
         \A fd \in OpenFds : owner'[fd] = owner[fd]
  PROVE  FALSE
<1>1. PICK fd \in OpenFds : owner[fd] = c
  BY DEF FdOf
<1>2. owner'[fd] = c /\ fd \in Fds
  BY <1>1 DEF OpenFds
<1>3. fd \in FdOf(c)'
  BY <1>1, <1>2, EnvAssumption DEF FdOf, OpenFds
<1> QED
  BY <1>3

LEMMA ClosedIsDrained ==
  ASSUME IInv, Next, NEW c \in Conns, FdOf(c) # {}, FdOf(c)' = {}
  PROVE  unread[c] = 0 \/ peer[c] = "rst"
<1> USE DEF IInv
<1>1. ASSUME events # <<>>, NEW x \in Fds, x = events[1].fd, CloseFd(x) PROVE owner[x] = c
  <2>1. PICK fd \in OpenFds : owner[fd] = c
    BY DEF FdOf
  <2>2. fd \in Fds /\ (fd # x => owner'[fd] = owner[fd])
    BY <1>1 DEF CloseFd, OpenFds, EnvInv, EnvTypeOK
  <2>3. fd # x => fd \in FdOf(c)'
    BY <2>1, <2>2, EnvAssumption DEF FdOf, OpenFds
  <2> QED
    BY <2>1, <2>3
<1>2. CASE EventError
  <2>1. /\ events # <<>> /\ Head(events) = events[1] /\ 1 \in 1..Len(events)
        /\ events[1].fd \in Watched
    BY <1>2, HeadIs DEF EventError
  <2>2. events[1].fd # Listener /\ peer[events[1].conn] = "rst"
    BY <1>2, <2>1 DEF EventError, Errors
  <2>3. PICK x \in Fds : x = events[1].fd
    BY <2>1, <2>2 DEF Watched
  <2>4. owner[x] = c
    BY <1>1, <1>2, <2>1, <2>3 DEF EventError
  <2>5. owner[x] = events[1].conn
    BY <2>1, <2>2, <2>3 DEF EventsCurrent
  <2> QED
    BY <2>2, <2>4, <2>5
<1>3. CASE ReadEnd
  <2>1. events # <<>> /\ Head(events) = events[1] /\ events[1].fd # Listener
        /\ events[1].fd \in Watched
    BY <1>3, HeadIs DEF ReadEnd, Handling
  <2>2. PICK x \in Fds : x = events[1].fd
    BY <2>1 DEF Watched
  <2>3. owner[x] = c /\ EndOfFile(x)
    BY <1>1, <1>3, <2>1, <2>2 DEF ReadEnd
  <2>4. unread[c] \in Nat
    BY EnvAssumption DEF EnvInv, EnvTypeOK
  <2>5. PICK n \in RecvResults(x) : n <= 0
    BY <2>3 DEF EndOfFile
  <2>6. ~(unread[c] > 0)
    <3>1. unread[c] > 0 => n \in 1..unread[c]
      BY <2>3, <2>5 DEF RecvResults
    <3> QED
      BY <2>4, <2>5, <3>1
  <2> QED
    BY <2>4, <2>6
<1>4. CASE Accept
  <2>1. PICK infd \in Fds : AcceptInto(infd)
    BY <1>4 DEF Accept
  <2>2. owner[infd] = None /\ \A f \in Fds : owner'[f] = IF f = infd THEN Head(backlog) ELSE owner[f]
    BY <2>1, AcceptGives
  <2>3. \A fd \in OpenFds : owner'[fd] = owner[fd]
    BY <2>2 DEF OpenFds
  <2> QED
    BY <2>3, StillOpen
<1>5. CASE ~(EventError \/ ReadEnd \/ Accept)
  <2>1. owner' = owner
    BY <1>5 DEF Next, Server, EpollWait, EventIn, AcceptDone, AcceptFails, ReadData, ReadDry,
                Abort, Client, Connect, SendMsg, Leave, ResetBy, envVars
  <2> QED
    BY <2>1, StillOpen
<1> QED
  BY <1>2, <1>3, <1>4, <1>5

(* The descriptor of a connection is closed only when everything its client   *)
(* sent was read, or the connection was reset: the read loop runs until read()*)
(* says end of file, and EPOLLERR closes what it was reported of.             *)
THEOREM AlwaysDrained == Spec => ClosedOnlyDrained
<1>1. IInv /\ [Next]_vars => [Drained]_vars
  BY ClosedIsDrained DEF Drained
<1> QED
  BY <1>1, Inductive, PTL DEF Spec, ClosedOnlyDrained, Drained

-----------------------------------------------------------------------------
(* create_and_bind(), and the loops of the other programs over the addresses: *)
(* they return the first that works, for lists of any length.                 *)

(* No address the loop has passed works; while one is tried its socket is the *)
(* only one open, and otherwise none is.                                      *)
Passed == \A a \in Good : res <= a
Taken == open = {sockfd} /\ sockfd \in Good /\ \A a \in Good : sockfd <= a
AtLoop == /\ at = "getaddrinfo" => res = 0 /\ open = {}
          /\ at = "socket" => res \in 1..NULL /\ open = {} /\ Passed
          /\ at = "use" => res \in supported /\ sockfd = res /\ open = {res} /\ Passed
          /\ at = "after" => \/ res = NULL /\ open = {} /\ Good = {}
                             \/ res \in List /\ Taken
AInv == /\ loop \in Programs /\ supported \subseteq List /\ usable \subseteq List
        /\ at \in {"getaddrinfo", "socket", "use", "after", "returned", "exited"}
        /\ AtLoop
        /\ ReturnsFirstGood

(* A loop that returns its socket without looking at the end of the list is   *)
(* that of tcp_connect.                                                       *)
LEMMA ReturnsBlindly ==
  ASSUME loop \in Programs
  PROVE  /\ loop.end \in {"listen", "return", "exit", "minus1"}
         /\ loop.end = "return" => loop = tcp_connect
  BY DEF Programs, tcp_listen, tcp_listen_daemon, tcp_connect, udp_server,
         udp_client, create_and_bind, Loop

LEMMA AInit == AddrInit => AInv
  BY DEF AddrInit, AInv, AtLoop, ReturnsFirstGood

LEMMA Positions == /\ List \subseteq Nat /\ NULL \in Nat /\ NULL \notin List /\ 0 # NULL
                   /\ \A a \in List : a < NULL
  BY AddressesAssumption DEF List, NULL

LEMMA GoodInList == ASSUME AInv PROVE Good \subseteq List
  BY DEF AInv, Good

LEMMA ANext == AInv /\ [AddrNext]_addrVars => AInv'
<1> SUFFICES ASSUME AInv, [AddrNext]_addrVars PROVE AInv'
  OBVIOUS
<1>1. CASE GetAddrInfo
  <2>1. Good' = Good
    BY <1>1 DEF GetAddrInfo, Good, world
  <2>2. \A a \in Good : 1 <= a
    BY GoodInList, Positions DEF List
  <2>3. 1 \in 1..NULL
    BY AddressesAssumption DEF NULL
  <2> QED
    BY <1>1, <2>1, <2>2, <2>3, GoodInList, Positions
       DEF GetAddrInfo, AInv, AtLoop, Passed, ReturnsFirstGood, world
<1>2. CASE EndOfList
  <2>1. Good' = Good
    BY <1>2 DEF EndOfList, Good, world
  <2>2. Good = {}
    <3>1. \A a \in Good : NULL <= a
      BY <1>2 DEF EndOfList, AInv, AtLoop, Passed
    <3>2. \A a \in Good : a \in Nat /\ a < NULL
      BY GoodInList, Positions
    <3> QED
      BY <3>1, <3>2, Positions
  <2> QED
    BY <1>2, <2>1, <2>2 DEF EndOfList, AInv, AtLoop, ReturnsFirstGood, world
<1>3. CASE SocketFails
  <2>1. Good' = Good /\ res \notin Good
    BY <1>3 DEF SocketFails, Good, world
  <2>2. res' \in 1..NULL /\ \A a \in Good : res' <= a
    BY <1>3, <2>1, GoodInList, Positions DEF SocketFails, AInv, AtLoop, Passed, Advance, List, NULL
  <2> QED
    BY <1>3, <2>1, <2>2 DEF SocketFails, AInv, AtLoop, Passed, ReturnsFirstGood, world
<1>4. CASE Socket
  <2>1. Good' = Good /\ res # NULL
    BY <1>4, GoodInList, Positions DEF Socket, AInv, Good, world
  <2> QED
    BY <1>4, <2>1 DEF Socket, AInv, AtLoop, Passed, ReturnsFirstGood, world
<1>5. CASE Use
  <2>1. Good' = Good
    BY <1>5 DEF Use, Good, world
  <2>2. CASE loop.use = "none" \/ res \in usable
    <3>1. res \in Good
      BY <1>5, <2>2 DEF Use, AInv, AtLoop, Good
    <3> QED
      BY <1>5, <2>1, <2>2, <3>1, GoodInList, Positions
         DEF Use, AInv, AtLoop, Passed, Taken, ReturnsFirstGood, world
  <2>3. CASE ~(loop.use = "none" \/ res \in usable)
    <3>1. res \notin Good /\ res \in List
      BY <1>5, <2>3 DEF Use, AInv, AtLoop, Good
    <3>2. res' \in 1..NULL /\ \A a \in Good : res' <= a
      BY <1>5, <2>3, <3>1, GoodInList, Positions DEF Use, AInv, AtLoop, Passed, Advance, List, NULL
    <3> QED
      BY <1>5, <2>1, <2>3, <3>2
         DEF Use, AInv, AtLoop, Passed, AfterRefusal, ReturnsFirstGood, world
  <2> QED
    BY <2>2, <2>3
<1>6. CASE After
  <2>1. Good' = Good
    BY <1>6 DEF After, Good, world
  <2>2. loop.end \in {"listen", "return", "exit", "minus1"}
        /\ (loop.end = "return" => loop = tcp_connect)
    BY ReturnsBlindly DEF AInv
  <2>3. CASE res = NULL /\ open = {} /\ Good = {}
    BY <1>6, <2>1, <2>2, <2>3 DEF After, AInv, AtLoop, ReturnsFirstGood, world
  <2>4. CASE res \in List /\ Taken
    BY <1>6, <2>1, <2>2, <2>4, GoodInList, Positions
       DEF After, AInv, AtLoop, Taken, ReturnsFirstGood, world
  <2> QED
    BY <1>6, <2>3, <2>4 DEF After, AInv, AtLoop
<1>7. CASE UNCHANGED addrVars
  BY <1>7 DEF addrVars, AInv, AtLoop, Passed, Taken, ReturnsFirstGood, Good
<1> QED
  BY <1>1, <1>2, <1>3, <1>4, <1>5, <1>6, <1>7 DEF AddrNext, Step, Over

(* Whatever the list, the loops that stop return the first address that works *)
(* with its socket alone open, or report that none does; tcp_connect returns  *)
(* a closed socket instead.                                                   *)
THEOREM FirstGoodReturned == AddrSpec => []ReturnsFirstGood
<1>1. AInv => ReturnsFirstGood
  BY DEF AInv
<1> QED
  BY <1>1, AInit, ANext, PTL DEF AddrSpec
=============================================================================

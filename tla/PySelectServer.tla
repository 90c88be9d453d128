--------------------------- MODULE PySelectServer ---------------------------
(* Python/select_server.py: one select() over the lists inputs and outputs,   *)
(* then a loop over each of the three lists it returned.  A message is put in *)
(* a queue of its connection and answered when the connection is writable.    *)
(* An exception is caught nowhere but for an empty queue: it ends the server. *)
EXTENDS ReplyQueues, SequencesExt

VARIABLES loop,         \* "select", "readable", "writable", "exceptional", and
                        \* at the end "timeout" or "crashed"
          inputs, outputs, msg_queue,
          todo,         \* what select() returned and the loops have not reached:
                        \* a record of three lists
          urgent,       \* clients that have sent urgent data
          replied,      \* messages answered
          short         \* connections on which send() once took only a part

lists == <<inputs, outputs, msg_queue>>
world == <<sent, urgent>>
pyVars == <<envVars, replies, loop, lists, todo, urgent, replied, short>>

Master == Listener
Nothing == [readable |-> <<>>, writable |-> <<>>, exceptional |-> <<>>]

PyInit == /\ EnvInit /\ RepliesInit
          /\ loop = "select" /\ inputs = <<Master>> /\ outputs = <<>>
          /\ msg_queue = [c \in {} |-> <<>>]
          /\ todo = Nothing
          /\ urgent = {} /\ replied = [c \in Conns |-> 0] /\ short = {}

-----------------------------------------------------------------------------
Running == loop \notin {"timeout", "crashed"}
Fd(s) == IF s = Master THEN Listener ELSE CHOOSE fd \in FdOf(s) : TRUE

(* The end of the process closes everything.                                  *)
Ends(how) == /\ loop' = how /\ todo' = Nothing
             /\ backlog' = <<>> /\ owner' = [fd \in Fds |-> None]
             /\ inputs' = <<>> /\ outputs' = <<>> /\ msg_queue' = [c \in {} |-> <<>>]
             /\ UNCHANGED <<unread, sent, peer, replies, urgent, replied, short>>

(* The next element of the loops, in their order.                             *)
After(t) == CASE t.readable # <<>> -> "readable"
              [] t.readable = <<>> /\ t.writable # <<>> -> "writable"
              [] t.readable = <<>> /\ t.writable = <<>> /\ t.exceptional # <<>> -> "exceptional"
              [] OTHER -> "select"
At(list) == loop = list
S == Head(todo[loop])
Done == LET t == [todo EXCEPT ![loop] = Tail(@)] IN todo' = t /\ loop' = After(t)

(* select() leaves out the connections whose queue is full.                   *)
Writable_All == outputs
Writable == Kept(outputs, {s \in Conns : ~Full(s)})
PyReady == [readable |-> Kept(inputs, {s \in ToSet(inputs) : Readable(Fd(s))}),
            writable |-> Writable,
            exceptional |-> Kept(inputs, urgent)]

PySelect == /\ loop = "select" /\ PyReady # Nothing
            /\ todo' = PyReady /\ loop' = After(PyReady)
            /\ UNCHANGED <<envVars, replies, lists, urgent, replied, short>>
Timeout == /\ loop = "select" /\ PyReady = Nothing
           /\ Ends("timeout")

-----------------------------------------------------------------------------
(* Lists and queue of a new connection, and of one that is dropped.           *)
PyAccept == /\ At("readable") /\ S = Master
            /\ \E fd \in Fds : AcceptInto(fd)
            /\ LET c == Head(backlog) IN
                 /\ inputs' = Append(inputs, c)
                 /\ msg_queue' = [d \in DOMAIN msg_queue \cup {c} |->
                                    IF d = c THEN <<>> ELSE msg_queue[d]]
            /\ Done
            /\ UNCHANGED <<outputs, unread, sent, peer, replies, urgent, replied, short>>
(* No descriptor is free, or the connection was reset in the queue.           *)
PyAcceptFails == /\ At("readable") /\ S = Master
                 /\ FreeFds = {} \/ peer[Head(backlog)] = "rst"
                 /\ Ends("crashed")

OutputsAfterDrop_Kept(s) == outputs
OutputsAfterDrop(s) == RemoveFirst(outputs, s)
Drop(s) == /\ inputs' = RemoveFirst(inputs, s) /\ outputs' = OutputsAfterDrop(s)
           /\ CloseFd(Fd(s))
           /\ msg_queue' = [d \in DOMAIN msg_queue \ {s} |-> msg_queue[d]]

(* What raises: KeyError for a queue that is gone, OSError for a socket that  *)
(* is closed or was reset.                                                    *)
Failed(s) == s \notin DOMAIN msg_queue \/ FdOf(s) = {} \/ peer[s] = "rst"

OutputsAfterPut_Never(s) == outputs
OutputsAfterPut(s) == IF Contains(outputs, s) THEN outputs ELSE Append(outputs, s)
PyRecv == /\ At("readable") /\ S # Master /\ ~Failed(S)
          /\ \E n \in RecvResults(Fd(S)) :
               IF n > 0
                 THEN /\ unread' = AfterRecv(Fd(S), n)
                      /\ msg_queue' = [msg_queue EXCEPT ![S] = Append(@, n)]
                      /\ outputs' = OutputsAfterPut(S)
                      /\ UNCHANGED <<inputs, owner>>
                 ELSE Drop(S) /\ UNCHANGED unread
          /\ Done
          /\ UNCHANGED <<backlog, peer, replies, world, replied, short>>
RecvFails == At("readable") /\ S # Master /\ Failed(S) /\ Ends("crashed")

(* No exception but queue.Empty.                                              *)
Writes(s) == ~Failed(s) /\ (msg_queue[s] = <<>> \/ ~Full(s))

(* get_nowait(): queue.Empty takes the connection off outputs; otherwise the  *)
(* answer is sent, or the part of it for which there is room (n counts whole  *)
(* answers) and the rest is dropped.  The sockets do not block: with no room  *)
(* at all send() raises.                                                      *)
QueuesAfterEmpty_Deleted == [d \in DOMAIN msg_queue \ {S} |-> msg_queue[d]]
QueuesAfterEmpty == msg_queue
QueueEmpty == /\ At("writable") /\ ~Failed(S) /\ msg_queue[S] = <<>>
              /\ outputs' = RemoveFirst(outputs, S) /\ msg_queue' = QueuesAfterEmpty
              /\ Done
              /\ UNCHANGED <<envVars, replies, inputs, urgent, replied, short>>
Send == /\ At("writable") /\ ~Failed(S) /\ msg_queue[S] # <<>> /\ ~Full(S)
        /\ \E n \in 0..Head(msg_queue[S]) :
             /\ Queue(S, n)
             /\ replied' = [replied EXCEPT ![S] = @ + n]
             /\ short' = IF n < Head(msg_queue[S]) THEN short \cup {S} ELSE short
        /\ msg_queue' = [msg_queue EXCEPT ![S] = Tail(@)]
        /\ Done
        /\ UNCHANGED <<envVars, inputs, outputs, urgent>>
WriteFails == At("writable") /\ ~Writes(S) /\ Ends("crashed")

Except == /\ At("exceptional") /\ ~Failed(S)
          /\ Drop(S) /\ Done
          /\ UNCHANGED <<backlog, unread, peer, replies, world, replied, short>>
ExceptFails == At("exceptional") /\ Failed(S) /\ Ends("crashed")

PyServer == \/ PySelect \/ Timeout \/ PyAccept \/ PyAcceptFails \/ PyRecv \/ RecvFails
            \/ QueueEmpty \/ Send \/ WriteFails \/ Except \/ ExceptFails

Clients == /\ Running
           /\ \E c \in Conns :
                \/ (Connect(c) \/ SendMsg(c) \/ Leave(c) \/ ResetBy(c))
                   /\ UNCHANGED <<replies, urgent>>
                \/ Takes(c) /\ UNCHANGED urgent
                \/ /\ peer[c] = "up" /\ Live(c) /\ urgent' = urgent \cup {c}
                   /\ UNCHANGED <<envVars, replies>>
           /\ UNCHANGED <<loop, lists, todo, replied, short>>

PyNext == PyServer \/ Clients

PySpec == PyInit /\ [][PyNext]_pyVars
PyFairSpec == PySpec /\ WF_pyVars(PyServer)

-----------------------------------------------------------------------------
PyTypeOK == /\ EnvTypeOK /\ RepliesTypeOK
            /\ loop \in {"select", "readable", "writable", "exceptional", "timeout", "crashed"}
            /\ inputs \in Seq(Conns \cup {Master}) /\ outputs \in Seq(Conns)
            /\ DOMAIN msg_queue \subseteq Conns
            /\ \A c \in DOMAIN msg_queue : msg_queue[c] \in Seq(1..MaxMsgs)
            /\ urgent \subseteq Conns /\ short \subseteq Conns
            /\ replied \in [Conns -> 0..MaxMsgs]

(* The lists agree: inputs are the listener and the open connections, each    *)
(* once and each with a queue; outputs are among them, each once, and include *)
(* every connection with an answer to send.                                   *)
ListsAgree ==
  Running => /\ IsInjective(inputs) /\ IsInjective(outputs)
             /\ ToSet(inputs) = {Master} \cup DOMAIN msg_queue
             /\ DOMAIN msg_queue = {c \in Conns : FdOf(c) # {}}
             /\ ToSet(outputs) \subseteq DOMAIN msg_queue
             /\ \A c \in DOMAIN msg_queue : msg_queue[c] # <<>> => Contains(outputs, c)

(* Only a client that left, was reset or sent urgent data ends the server by  *)
(* an exception, but for more clients than there are descriptors: send() in   *)
(* particular never finds a queue full that select() saw with room.           *)
CrashOnlyByDeparture ==
  loop = "crashed" => \/ \E c \in Conns : peer[c] \in {"fin", "rst"} \/ c \in urgent
                      \/ Cardinality({c \in Conns : peer[c] # "none"}) > MaxFds

(* Every message of a client that stays is answered, unless a send() on its   *)
(* connection was short or an exception ended the server; or the client has   *)
(* let its queue fill up.  Only then may the time-out strike while a message  *)
(* waits: select() does not report the connection, and if nothing else comes  *)
(* the server ends and drops the answer.  The others are not held up.         *)
Waiting(c) == peer[c] = "up" /\ replied[c] < sent[c] /\ c \notin short /\ c \notin urgent
EveryMessageAnswered ==
  \A c \in Conns : Waiting(c) ~> (~Waiting(c) \/ loop = "crashed" \/ []Full(c))
=============================================================================

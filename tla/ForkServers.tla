----------------------------- MODULE ForkServers ----------------------------
(* The servers that fork a child for every connection: basic_tcp_server.c,    *)
(* multi_conn_server.c, select_tcp_udp_server.c, unix_stream_server.c and     *)
(* unix_stream_credential_server.c.  A parent accepts and forks, a handler of *)
(* SIGCHLD collects the children, a child reads and answers until its client  *)
(* leaves.                                                                    *)
EXTENDS Integers, Sequences, FiniteSets

CONSTANTS NConns,     \* connections clients may open, numbered as they come
          MaxMsgs,    \* messages a client sends at most
          MaxProcs,   \* largest limit of the system on children, zombies included
          MaxDgrams   \* datagrams sent to the server at most

ASSUME ForkAssumption == /\ NConns \in Nat \ {0} /\ MaxMsgs \in Nat
                         /\ MaxProcs \in Nat \ {0} /\ MaxDgrams \in Nat

Conns == 1..NConns
Parent == 0
Procs == {Parent} \cup Conns     \* a child has the number of its connection
Listener == 0
Udp == -1

-----------------------------------------------------------------------------
(* What the programs do differently.  A child: what a read of 0 bytes leads   *)
(* to, whether it goes on after an answer, whether it may exit over what it   *)
(* read.  SIGCHLD: whether a handler collects children, and then exits.       *)
Serve(zero, again, mayExit) == [zero |-> zero, again |-> again, mayExit |-> mayExit]
str_echo_Zero == Serve("answer", TRUE, FALSE)
str_echo == Serve("end", TRUE, FALSE)
process_once == Serve("answer", FALSE, FALSE)
process == Serve("end", TRUE, FALSE)
unix_str_echo == Serve("answer", TRUE, FALSE)
read_cred == [mayExit |-> TRUE]
cred_str_echo == Serve("answer", TRUE, read_cred.mayExit)

Handler(reaps, exits) == [reaps |-> reaps, exits |-> exits]
NoHandler == Handler(FALSE, FALSE)
multi_sig_child == Handler(TRUE, TRUE)
tcp_udp_sig_child == Handler(TRUE, FALSE)
unix_sig_chld == Handler(TRUE, FALSE)
cred_sig_chld == Handler(TRUE, FALSE)

(* A program: its name, the sockets main opens before its loop, its handler,  *)
(* what its children do, and what is done when fork() fails.                  *)
Program(name, opens, handler, serve, forkFails) ==
  [name |-> name, opens |-> opens, handler |-> handler, serve |-> serve,
   forkFails |-> forkFails]
basic_tcp_server == Program("basic_tcp", {Listener}, NoHandler, str_echo, "drop")
multi_conn_server == Program("multi_conn", {Listener}, multi_sig_child, process_once, "exit")
select_tcp_udp_server == Program("tcp_udp", {Listener, Udp}, tcp_udp_sig_child, process, "exit")
unix_stream_server == Program("unix", {Listener}, unix_sig_chld, unix_str_echo, "exit")
unix_stream_credential_server ==
  Program("cred", {Listener}, cred_sig_chld, cred_str_echo, "exit")

Programs == {basic_tcp_server, multi_conn_server, select_tcp_udp_server,
             unix_stream_server, unix_stream_credential_server}

VARIABLES prog,       \* the program that runs
          limit,      \* children, zombies included, the system lets exist
          pc,         \* the call the parent is at, "exited" at its end
          newsock,    \* the connection being handed over, 0 for none
          rfds,       \* what select() reported
          hdl,        \* is the handler of SIGCHLD running?
          chld,       \* is SIGCHLD pending?
          intr,       \* processes for which SIGINT is pending
          child,      \* the state of the child of each connection
          holds,      \* the descriptors of each process
          queue, unread, sent, peer,     \* listen queue and clients
          answers,                       \* answers the first client has not taken
          dgrams, dsent                  \* datagrams waiting, and sent

parentVars == <<pc, newsock, rfds, hdl, chld>>
clientVars == <<queue, unread, sent, answers, peer>>
udpVars == <<dgrams, dsent>>
world == <<prog, limit>>
serverVars == <<world, parentVars, intr, child, holds, clientVars, udpVars>>

Selects == Udp \in prog.opens
Top == IF Selects THEN "select" ELSE "accept"
Reaps == prog.handler.reaps
PairRuns == prog = basic_tcp_server
Pair == 1
Unix == prog \in {unix_stream_server, unix_stream_credential_server}

Running == {c \in Conns : child[c] \in {"start", "read", "write"}}
Zombies == {c \in Conns : child[c] = "zombie"}
Holders(d) == {p \in Procs : d \in holds[p]}
Queued(c) == \E k \in 1..Len(queue) : queue[k] = c
(* Does the client of c still see an open connection?                         *)
Live(c) == Holders(c) # {} \/ (Queued(c) /\ Holders(Listener) # {})

ServerInit ==
  /\ prog \in Programs /\ limit \in 1..MaxProcs
  /\ pc = Top /\ newsock = 0 /\ rfds = {} /\ hdl = FALSE /\ chld = FALSE
  /\ intr = {} /\ child = [c \in Conns |-> "none"]
  /\ holds = [p \in Procs |-> IF p = Parent THEN prog.opens ELSE {}]
  /\ queue = <<>> /\ unread = [c \in Conns |-> 0] /\ sent = [c \in Conns |-> 0]
  /\ answers = 0 /\ peer = [c \in Conns |-> "none"]
  /\ dgrams = 0 /\ dsent = 0

-----------------------------------------------------------------------------
(* Children.  The end of one raises SIGCHLD in the parent; when there is no   *)
(* parent any more nobody has to collect it.                                  *)
Gone_Loops == "accept"
Gone == IF pc = "exited" THEN "reaped" ELSE "zombie"
ChildEnds(c) == /\ child' = [child EXCEPT ![c] = Gone]
                /\ holds' = [holds EXCEPT ![c] = {}]
                /\ chld' = (chld \/ (Reaps /\ pc # "exited"))
                /\ intr' = intr \ {c}
                /\ UNCHANGED <<world, pc, newsock, rfds, hdl, queue, sent, peer, udpVars>>
ChildGoes(c, point) == /\ child' = [child EXCEPT ![c] = point]
                       /\ UNCHANGED <<world, parentVars, intr, queue, sent, peer, udpVars>>
ChildAt(c, point) == child[c] = point /\ c \notin intr

AfterStart(c) == holds[c] \ {Listener}
ChildStarts(c) == /\ ChildAt(c, "start")
                  /\ holds' = [holds EXCEPT ![c] = AfterStart(c)]
                  /\ ChildGoes(c, "read")
                  /\ UNCHANGED <<unread, answers>>

ReadData(c) == /\ ChildAt(c, "read") /\ unread[c] > 0
               /\ \E n \in 1..unread[c] : unread' = [unread EXCEPT ![c] = @ - n]
               /\ \/ ChildGoes(c, "write") /\ UNCHANGED holds
                  \/ prog.serve.mayExit /\ ChildEnds(c)
               /\ UNCHANGED answers
ReadZero(c) == /\ ChildAt(c, "read") /\ unread[c] = 0 /\ peer[c] \in {"half", "gone"}
               /\ \/ prog.serve.zero = "end" /\ ChildEnds(c)
                  \/ prog.serve.zero = "answer" /\ ChildGoes(c, "write") /\ UNCHANGED holds
                  \/ prog.serve.mayExit /\ ChildEnds(c)
               /\ UNCHANGED <<unread, answers>>
(* The client reset the connection.  The others exit; str_echo of             *)
(* basic_tcp_server goes on to write(-1), which ends it by SIGPIPE or lets it *)
(* read 0 bytes next.                                                         *)
ReadFails(c) == /\ ChildAt(c, "read") /\ peer[c] = "gone"
                /\ ChildEnds(c)
                /\ UNCHANGED <<unread, answers>>

(* A stream socket of the Internet takes what is written to a client that is  *)
(* gone once more; after that, and at once on a Unix socket, SIGPIPE ends the *)
(* child.  Only the answers to fork_str_cli are counted, up to MaxMsgs + 1.   *)
Write(c) == /\ ChildAt(c, "write")
            /\ \/ /\ peer[c] # "gone" \/ ~Unix
                  /\ answers' = IF PairRuns /\ c = Pair /\ answers <= MaxMsgs
                                  THEN answers + 1 ELSE answers
                  /\ IF prog.serve.again THEN ChildGoes(c, "read") /\ UNCHANGED holds
                                         ELSE ChildEnds(c)
               \/ /\ peer[c] = "gone"
                  /\ ChildEnds(c) /\ UNCHANGED answers
            /\ UNCHANGED unread

(* SIGINT, for which multi_conn_server has handlers that close and exit.      *)
ChildInt(c) == /\ c \in intr /\ ChildEnds(c)
               /\ UNCHANGED <<unread, answers>>

Child(c) == \/ ChildStarts(c) \/ ReadData(c) \/ ReadZero(c) \/ ReadFails(c)
            \/ Write(c) \/ ChildInt(c)

-----------------------------------------------------------------------------
(* The parent.                                                                *)
ParentExits ==
  /\ pc' = "exited" /\ newsock' = 0 /\ rfds' = {} /\ hdl' = FALSE /\ chld' = FALSE
  /\ holds' = [holds EXCEPT ![Parent] = {}]
  /\ child' = [c \in Conns |-> IF child[c] = "zombie" THEN "reaped" ELSE child[c]]
  /\ intr' = intr \ {Parent}
ParentAt(point) == pc = point /\ ~hdl /\ Parent \notin intr

(* The handler of SIGCHLD, which may interrupt anywhere.  accept() is         *)
(* restarted after it, select() is not.                                       *)
HandlerStarts == /\ chld /\ ~hdl /\ pc # "exited" /\ Parent \notin intr
                 /\ chld' = FALSE /\ hdl' = TRUE
                 /\ pc' = IF pc = "select" THEN "eintr" ELSE pc
                 /\ UNCHANGED <<world, newsock, rfds, intr, child, holds, clientVars, udpVars>>
AfterReap_Once == FALSE
AfterReap == TRUE
Reap == /\ hdl
        /\ \E c \in Zombies : child' = [child EXCEPT ![c] = "reaped"]
        /\ hdl' = AfterReap
        /\ UNCHANGED <<world, pc, newsock, rfds, chld, intr, holds, clientVars, udpVars>>
HandlerEnds == /\ hdl /\ Zombies = {}
               /\ IF prog.handler.exits
                    THEN ParentExits
                    ELSE hdl' = FALSE /\ UNCHANGED <<pc, newsock, rfds, chld, intr, child, holds>>
               /\ UNCHANGED <<world, clientVars, udpVars>>
ParentInt == /\ Parent \in intr /\ ParentExits
             /\ UNCHANGED <<world, clientVars, udpVars>>

ReadySet == {d \in {Listener, Udp} : IF d = Udp THEN dgrams > 0 ELSE queue # <<>>}
AfterSelect(ready) == IF Listener \in ready THEN "accept" ELSE "recvfrom"
Select == /\ ParentAt("select") /\ ReadySet # {}
          /\ rfds' = ReadySet /\ pc' = AfterSelect(ReadySet)
          /\ UNCHANGED <<world, newsock, hdl, chld, intr, child, holds, clientVars, udpVars>>
AfterEintr_UseSet == "accept"
AfterEintr == "select"
SelectInterrupted ==
  /\ ParentAt("eintr") /\ pc' = AfterEintr
  /\ UNCHANGED <<world, newsock, rfds, hdl, chld, intr, child, holds, clientVars, udpVars>>

Accept == /\ ParentAt("accept") /\ queue # <<>>
          /\ newsock' = Head(queue) /\ queue' = Tail(queue)
          /\ holds' = [holds EXCEPT ![Parent] = @ \cup {newsock'}]
          /\ pc' = "fork"
          /\ UNCHANGED <<world, rfds, hdl, chld, intr, child, unread, sent, answers, peer, udpVars>>
(* The connection was reset, or there is no descriptor for it.                *)
AcceptFails == /\ ParentAt("accept") /\ queue # <<>>
               /\ ParentExits /\ queue' = Tail(queue)
               /\ UNCHANGED <<world, unread, sent, answers, peer, udpVars>>

Fork == /\ ParentAt("fork") /\ Cardinality(Running \cup Zombies) < limit
        /\ child' = [child EXCEPT ![newsock] = "start"]
        /\ holds' = [holds EXCEPT ![newsock] = holds[Parent]]
        /\ pc' = "close"
        /\ UNCHANGED <<world, newsock, rfds, hdl, chld, intr, clientVars, udpVars>>
ForkFails == /\ ParentAt("fork") /\ Cardinality(Running \cup Zombies) >= limit
             /\ IF prog.forkFails = "exit"
                  THEN ParentExits
                  ELSE pc' = "close" /\ UNCHANGED <<newsock, rfds, hdl, chld, intr, child, holds>>
             /\ UNCHANGED <<world, clientVars, udpVars>>

AfterHandOver_Kept == holds[Parent]
AfterHandOver == holds[Parent] \ {newsock}
CloseNew == /\ ParentAt("close")
            /\ holds' = [holds EXCEPT ![Parent] = AfterHandOver]
            /\ newsock' = 0
            /\ pc' = IF Udp \in rfds THEN "recvfrom" ELSE Top
            /\ UNCHANGED <<world, rfds, hdl, chld, intr, child, clientVars, udpVars>>

RecvFrom == /\ ParentAt("recvfrom") /\ dgrams > 0
            /\ dgrams' = dgrams - 1 /\ pc' = "select"
            /\ UNCHANGED <<world, newsock, rfds, hdl, chld, intr, child, holds, clientVars, dsent>>

ParentStep == \/ HandlerStarts \/ Reap \/ HandlerEnds \/ ParentInt
              \/ Select \/ SelectInterrupted \/ Accept \/ AcceptFails
              \/ Fork \/ ForkFails \/ CloseNew \/ RecvFrom

-----------------------------------------------------------------------------
(* Clients, and the user at the terminal of multi_conn_server.                *)
Connect(c) == /\ peer[c] = "none" /\ \A d \in 1..(c - 1) : peer[d] # "none"
              /\ Holders(Listener) # {}
              /\ queue' = Append(queue, c) /\ peer' = [peer EXCEPT ![c] = "up"]
              /\ UNCHANGED <<world, parentVars, intr, child, holds, unread, sent, answers, udpVars>>
SendMsg(c) == /\ peer[c] = "up" /\ sent[c] < MaxMsgs /\ Live(c)
              /\ sent' = [sent EXCEPT ![c] = @ + 1] /\ unread' = [unread EXCEPT ![c] = @ + 1]
              /\ UNCHANGED <<world, parentVars, intr, child, holds, queue, answers, peer, udpVars>>
(* shutdown(SHUT_WR), or the end of the client.                               *)
Leave(c, how) == /\ peer[c] = "up" \/ (peer[c] = "half" /\ how = "gone")
                 /\ peer' = [peer EXCEPT ![c] = how]
                 /\ UNCHANGED <<world, parentVars, intr, child, holds,
                                queue, unread, sent, answers, udpVars>>
SendDgram == /\ Selects /\ dsent < MaxDgrams /\ Holders(Udp) # {}
             /\ dsent' = dsent + 1 /\ dgrams' = dgrams + 1
             /\ UNCHANGED <<world, parentVars, intr, child, holds, clientVars>>
Interrupt == /\ prog = multi_conn_server /\ intr = {} /\ pc # "exited"
             /\ intr' = {Parent} \cup Running
             /\ UNCHANGED <<world, parentVars, child, holds, clientVars, udpVars>>

-----------------------------------------------------------------------------
ServerTypeOK ==
  /\ prog \in Programs /\ limit \in 1..MaxProcs
  /\ pc \in {"select", "eintr", "accept", "fork", "close", "recvfrom", "exited"}
  /\ newsock \in {0} \cup Conns /\ (pc \in {"fork", "close"} <=> newsock # 0)
  /\ rfds \subseteq {Listener, Udp} /\ hdl \in BOOLEAN /\ chld \in BOOLEAN
  /\ intr \subseteq Procs
  /\ child \in [Conns -> {"none", "start", "read", "write", "zombie", "reaped"}]
  /\ holds \in [Procs -> SUBSET ({Listener, Udp} \cup Conns)]
  /\ queue \in Seq(Conns)
  /\ unread \in [Conns -> 0..MaxMsgs] /\ sent \in [Conns -> 0..MaxMsgs]
  /\ answers \in 0..(MaxMsgs + 1)
  /\ peer \in [Conns -> {"none", "up", "half", "gone"}]
  /\ dgrams \in 0..MaxDgrams /\ dsent \in 0..MaxDgrams
=============================================================================

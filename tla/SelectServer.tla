---------------------------- MODULE SelectServer ----------------------------
(* The echo server of C/select_server.c: one process, one select() loop, at   *)
(* most MAX_CLIENTS_NUM clients.  Only the calls that depend on the clients   *)
(* are steps of their own; the loop passes over slots that are free or not    *)
(* ready without looking at anything a client can change.                     *)
EXTENDS ReplyQueues

CONSTANTS MAX_CLIENTS_NUM,
          AcceptErrors        \* may accept() fail?

ASSUME ServerAssumption == /\ MAX_CLIENTS_NUM \in Nat \ {0}
                           /\ MaxFds > MAX_CLIENTS_NUM
                           /\ AcceptErrors \in BOOLEAN

VARIABLES pc,            \* "select", "accept", "clients", "echo", "exited"
          cli_socks, cur_conn_cnt, active_fds, rfds, max_sd, i,
          sd             \* the client being served

tabVars == <<cli_socks, cur_conn_cnt, active_fds, max_sd>>
vars == <<envVars, replies, pc, tabVars, rfds, i, sd>>

Slots == 0..(MAX_CLIENTS_NUM - 1)

Init == /\ EnvInit /\ RepliesInit
        /\ pc = "select"
        /\ cli_socks = [k \in Slots |-> -1] /\ cur_conn_cnt = 0
        /\ active_fds = {Listener} /\ rfds = {} /\ max_sd = Listener
        /\ i = 0 /\ sd = Listener

-----------------------------------------------------------------------------
Ready == {fd \in active_fds : fd <= max_sd /\ Readable(fd)}

Select == /\ pc = "select" /\ Ready # {}
          /\ rfds' = Ready
          /\ pc' = IF Listener \in Ready THEN "accept" ELSE "clients"
          /\ i' = 0
          /\ UNCHANGED <<envVars, replies, tabVars, sd>>

AcceptFails == /\ pc = "accept" /\ AcceptErrors
               /\ pc' = "exited"
               /\ UNCHANGED <<envVars, replies, tabVars, rfds, i, sd>>

AtLimit_Late == cur_conn_cnt > MAX_CLIENTS_NUM
AtLimit_Early == cur_conn_cnt > MAX_CLIENTS_NUM - 2
AtLimit == cur_conn_cnt > MAX_CLIENTS_NUM - 1

(* send() on c and then next.  It waits for room; to a connection that was    *)
(* reset it fails, or raises SIGPIPE.                                         *)
SendTo(c, next) ==
  \/ peer[c] # "rst" /\ Queue(c, 1) /\ pc' = next
  \/ peer[c] = "rst" /\ pc' \in {next, "exited"} /\ UNCHANGED replies

(* REFUSE_MSG, close, and back to select() without a look at the clients.     *)
Refuse == /\ pc = "accept" /\ AtLimit
          /\ backlog # <<>> /\ backlog' = Tail(backlog)
          /\ SendTo(Head(backlog), "select")
          /\ UNCHANGED <<owner, unread, sent, peer, tabVars, rfds, i, sd>>

FreeSlots == {k \in Slots : cli_socks[k] = -1}
Raised(fd) == IF fd > max_sd THEN fd ELSE max_sd

Accept ==
  /\ pc = "accept" /\ ~AtLimit
  /\ \E new_sock \in Fds :
       /\ AcceptInto(new_sock)
       /\ cli_socks' = IF FreeSlots = {} THEN cli_socks
                       ELSE [cli_socks EXCEPT ![Lowest(FreeSlots)] = new_sock]
       /\ max_sd' = Raised(new_sock)
       /\ active_fds' = active_fds \cup {new_sock}
       /\ cur_conn_cnt' = cur_conn_cnt + 1
       /\ SendTo(Head(backlog), "clients")
  /\ UNCHANGED <<unread, sent, peer, rfds, i, sd>>

-----------------------------------------------------------------------------
(* The slots of the rest of the loop whose client select() reported; the      *)
(* bound of the loop is the number of connections, read again each time.      *)
Pending_AllButLast == {k \in Slots : i <= k /\ k < cur_conn_cnt - 1 /\ cli_socks[k] \in rfds}
Pending_Active == {k \in Slots : i <= k /\ k < cur_conn_cnt /\ cli_socks[k] \in active_fds}
Pending == {k \in Slots : i <= k /\ k < cur_conn_cnt /\ cli_socks[k] \in rfds}

EndOfLoop == /\ pc = "clients" /\ Pending = {}
             /\ pc' = "select"
             /\ UNCHANGED <<envVars, replies, tabVars, rfds, i, sd>>

CountAfterClose_Kept == cur_conn_cnt
CountAfterClose == cur_conn_cnt - 1
ActiveAfterClose(fd) == active_fds \ {fd}

Recv ==
  /\ pc = "clients" /\ Pending # {}
  /\ LET k == Lowest(Pending)
         fd == cli_socks[k]
     IN  \E n \in RecvResults(fd) :
           /\ sd' = fd /\ i' = k + 1
           /\ unread' = AfterRecv(fd, n)
           /\ \/ n > 0 /\ UNCHANGED <<owner, tabVars>>
              \/ /\ n <= 0
                 /\ CloseFd(fd)
                 /\ active_fds' = ActiveAfterClose(fd)
                 /\ cli_socks' = [cli_socks EXCEPT ![k] = -1]
                 /\ cur_conn_cnt' = CountAfterClose
                 /\ UNCHANGED max_sd
  /\ pc' = "echo"
  /\ UNCHANGED <<backlog, sent, peer, replies, rfds>>

(* The reply, for which the one process may have to wait until the client     *)
(* reads.  After the closing cases it goes to a descriptor that is free.      *)
Echo ==
  /\ pc = "echo"
  /\ \/ owner[sd] # None /\ SendTo(owner[sd], "clients")
     \/ owner[sd] = None /\ pc' = "clients" /\ UNCHANGED replies
  /\ UNCHANGED <<envVars, tabVars, rfds, i, sd>>

Server == \/ Select \/ AcceptFails \/ Refuse \/ Accept
          \/ EndOfLoop \/ Recv \/ Echo

Client(c) == /\ \/ (Connect(c) \/ SendMsg(c) \/ Leave(c) \/ ResetBy(c)) /\ UNCHANGED replies
                \/ Takes(c)
             /\ UNCHANGED <<pc, tabVars, rfds, i, sd>>

Next == Server \/ \E c \in Conns : Client(c)

Spec == Init /\ [][Next]_vars
FairSpec == Spec /\ WF_vars(Server)

-----------------------------------------------------------------------------
TypeOK ==
  /\ EnvTypeOK /\ RepliesTypeOK
  /\ pc \in {"select", "accept", "clients", "echo", "exited"}
  /\ cli_socks \in [Slots -> Fds \cup {-1}]
  /\ cur_conn_cnt \in 0..MAX_CLIENTS_NUM
  /\ active_fds \subseteq Fds \cup {Listener} /\ rfds \subseteq active_fds \cup Fds
  /\ max_sd \in Fds \cup {Listener} /\ i \in 0..MAX_CLIENTS_NUM
  /\ sd \in Fds \cup {Listener}

UsedSlots == {k \in Slots : cli_socks[k] # -1}

(* The table, the set select() watches, the process's descriptors and the     *)
(* count tell one story: every open descriptor is in exactly one slot, is     *)
(* watched below max_sd + 1, and is counted; nothing closed still is.         *)
TablesAgree ==
  /\ {cli_socks[k] : k \in UsedSlots} = OpenFds
  /\ active_fds = OpenFds \cup {Listener}
  /\ cur_conn_cnt = Cardinality(UsedSlots)
  /\ \A j, k \in UsedSlots : cli_socks[j] = cli_socks[k] => j = k
  /\ \A fd \in OpenFds : fd <= max_sd

(* The one process that serves everybody does not wait for a client to send   *)
(* or to connect: when it calls accept() or recv(), what select() reported    *)
(* before is still true.  (It may wait in send(): SendWaits.)                 *)
NeverBlocks ==
  /\ pc = "accept" => backlog # <<>>
  /\ pc = "clients" => \A k \in Pending : Readable(cli_socks[k])

(* The limit is exact: a client is turned away only when MAX_CLIENTS_NUM      *)
(* others hold a descriptor.                                                  *)
RefusedOnlyWhenFull ==
  [][Len(backlog') < Len(backlog) /\ OpenFds' = OpenFds
       => Cardinality(OpenFds) = MAX_CLIENTS_NUM]_vars

(* Some slot below the count is free, so that the loop over the first         *)
(* cur_conn_cnt slots misses a client behind it.                              *)
Hole == \E k \in Slots : k < cur_conn_cnt /\ cli_socks[k] = -1

(* The server waits in send() for a client that does not read.                *)
SendWaits == pc = "echo" /\ owner[sd] # None /\ Full(owner[sd])

(* While no client has left, every message of an admitted client is read,     *)
(* unless some client never takes its echoes: the server then waits for that  *)
(* one for ever, and nobody else is served.                                   *)
EveryMessageRead ==
  \A c \in Conns :
    (FdOf(c) # {} /\ unread[c] > 0)
       ~> (unread[c] = 0 \/ Hole \/ pc = "exited" \/ []SendWaits)
=============================================================================

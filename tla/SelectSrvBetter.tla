--------------------------- MODULE SelectSrvBetter --------------------------
(* The receiving server of C/select_srv_better.c: the slots in use are those  *)
(* up to maxi, and a round ends when nready descriptors have been served.     *)
EXTENDS SockEnv

CONSTANTS MAX_CONNECTIONS,
          AcceptErrors,       \* may accept() fail?
          StrayFd             \* the number whose bit FD_SET(-1) sets

(* FD_SET(-1) is undefined.  With the usual macro it sets the last bit of the *)
(* first word, number 63 (31 with words of 32 bits): above every number that  *)
(* MAX_CONNECTIONS clients, 10 here, can have.                                *)
ASSUME ServerAssumption == /\ MAX_CONNECTIONS \in Nat \ {0}
                           /\ MaxFds > MAX_CONNECTIONS
                           /\ AcceptErrors \in BOOLEAN
                           /\ StrayFd \in Nat /\ StrayFd > MAX_CONNECTIONS

VARIABLES pc,            \* "select", "accept", "clients", "aborted"
          cli_socks, active_fds, max_sd, maxi,
          rfds, nready, i

tabVars == <<cli_socks, active_fds, max_sd, maxi>>
vars == <<envVars, pc, tabVars, rfds, nready, i>>

Slots == 0..(MAX_CONNECTIONS - 1)
FreeSlots == {k \in Slots : cli_socks[k] < 0}
UsedSlots == Slots \ FreeSlots

Init == /\ EnvInit
        /\ pc = "select"
        /\ cli_socks = [k \in Slots |-> -1] /\ maxi = -1
        /\ active_fds = {Listener} /\ max_sd = Listener
        /\ rfds = {} /\ nready = 0 /\ i = 0

-----------------------------------------------------------------------------
(* What select(max_sd + 1, ..) looks at.  While one of these numbers is not   *)
(* open, select() fails (EBADF) and the loop does nothing but call it again.  *)
Watched == {fd \in active_fds : fd <= max_sd}
Ready == {fd \in Watched : Readable(fd)}

Select == /\ pc = "select" /\ Watched \subseteq OpenFds \cup {Listener} /\ Ready # {}
          /\ rfds' = Ready /\ nready' = Cardinality(Ready)
          /\ pc' = IF Listener \in Ready THEN "accept" ELSE "clients"
          /\ i' = 0
          /\ UNCHANGED <<envVars, tabVars>>

(* Every slot taken: the new socket is closed, and back to select().          *)
Refuse == /\ pc = "accept" /\ FreeSlots = {}
          /\ backlog # <<>> /\ backlog' = Tail(backlog)
          /\ pc' = "select"
          /\ UNCHANGED <<owner, unread, sent, peer, tabVars, rfds, nready, i>>

(* The slots from i on whose client select() reported.                        *)
Pending_BelowMaxi(from) == {k \in Slots : from <= k /\ k < maxi /\ cli_socks[k] \in rfds}
Pending_Active(from) ==
  {k \in Slots : from <= k /\ k <= maxi /\ cli_socks[k] \in active_fds}
Pending(from) == {k \in Slots : from <= k /\ k <= maxi /\ cli_socks[k] \in rfds}

NewMaxi_PastEnd(k) == IF k + 1 > maxi THEN k + 1 ELSE maxi
NewMaxi(k) == IF k > maxi THEN k ELSE maxi

(* After the descriptor before slot from was served: back to select() when    *)
(* that was the last of nready, or of the table.                              *)
RoundOver(n) == n <= 0
Continue_NotCounted(from) == /\ UNCHANGED nready
                             /\ pc' = IF RoundOver(nready) \/ Pending(from) = {}
                                        THEN "select" ELSE "clients"
Continue(from) == /\ nready' = nready - 1
                  /\ pc' = IF RoundOver(nready - 1) \/ Pending(from) = {}
                             THEN "select" ELSE "clients"

Accept ==
  /\ pc = "accept" /\ FreeSlots # {}
  /\ \E new_sock \in Fds :
       LET k == Lowest(FreeSlots)
       IN  /\ AcceptInto(new_sock)
           /\ cli_socks' = [cli_socks EXCEPT ![k] = new_sock]
           /\ active_fds' = active_fds \cup {new_sock}
           /\ maxi' = NewMaxi(k)
           /\ max_sd' = IF new_sock > max_sd THEN new_sock ELSE max_sd
  /\ Continue(0)
  /\ UNCHANGED <<unread, sent, peer, rfds, i>>

(* accept() lost the connection and returned -1, which is stored like a       *)
(* descriptor: the slot stays free but counts for maxi, and FD_SET(-1) leaves *)
(* a stray bit in active_fds that nobody clears, or none.  A build with       *)
(* checked FD_SET (_FORTIFY_SOURCE) ends the server there.                    *)
AfterStray == {active_fds, active_fds \cup {StrayFd}}

AcceptFails ==
  /\ pc = "accept" /\ AcceptErrors
  /\ backlog # <<>> /\ backlog' = Tail(backlog)
  /\ \/ /\ FreeSlots = {} /\ pc' = "select" /\ UNCHANGED <<active_fds, maxi, nready>>
     \/ /\ FreeSlots # {}
        /\ active_fds' \in AfterStray
        /\ maxi' = NewMaxi(Lowest(FreeSlots))
        /\ Continue(0)
     \/ /\ FreeSlots # {} /\ pc' = "aborted" /\ UNCHANGED <<active_fds, maxi, nready>>
  /\ UNCHANGED <<owner, unread, sent, peer, cli_socks, max_sd, rfds, i>>

-----------------------------------------------------------------------------
SocksAfterClose_Kept(k) == cli_socks
SocksAfterClose(k) == [cli_socks EXCEPT ![k] = -1]

Read ==
  /\ pc = "clients" /\ Pending(i) # {}
  /\ LET k == Lowest(Pending(i))
         fd == cli_socks[k]
     IN  \E n \in RecvResults(fd) :
           /\ i' = k + 1 /\ Continue(k + 1)
           /\ unread' = AfterRecv(fd, n)
           /\ \/ n > 0 /\ UNCHANGED <<owner, tabVars>>
              \/ /\ n <= 0
                 /\ CloseFd(fd)
                 /\ active_fds' = active_fds \ {fd}
                 /\ cli_socks' = SocksAfterClose(k)
                 /\ UNCHANGED <<max_sd, maxi>>
  /\ UNCHANGED <<backlog, sent, peer, rfds>>

Server == Select \/ Refuse \/ Accept \/ AcceptFails \/ Read

Client(c) == /\ Connect(c) \/ SendMsg(c) \/ Leave(c) \/ ResetBy(c)
             /\ UNCHANGED <<pc, tabVars, rfds, nready, i>>

Next == Server \/ \E c \in Conns : Client(c)

Spec == Init /\ [][Next]_vars
FairSpec == Spec /\ WF_vars(Server)

-----------------------------------------------------------------------------
TypeOK ==
  /\ EnvTypeOK
  /\ pc \in {"select", "accept", "clients", "aborted"}
  /\ cli_socks \in [Slots -> Fds \cup {-1}] /\ maxi \in Slots \cup {-1}
  /\ active_fds \subseteq Fds \cup {Listener, StrayFd} /\ max_sd \in Fds \cup {Listener}
  /\ rfds \subseteq Fds \cup {Listener}
  /\ nready \in 0..(MAX_CONNECTIONS + 1) /\ i \in 0..MAX_CONNECTIONS

(* The table, what select() looks at and the process's descriptors agree, and *)
(* no client sits in a slot or on a descriptor beyond maxi and max_sd, where  *)
(* the loop and select() would not look.  A stray bit in active_fds stays     *)
(* above max_sd, so that select() never fails because of it.                  *)
TablesAgree ==
  /\ {cli_socks[k] : k \in UsedSlots} = OpenFds
  /\ Watched = OpenFds \cup {Listener}
  /\ \A j, k \in UsedSlots : cli_socks[j] = cli_socks[k] => j = k
  /\ \A k \in UsedSlots : k <= maxi
  /\ \A fd \in OpenFds : fd <= max_sd

(* nready counts exactly the ready descriptors not served yet, so that the    *)
(* early ends of the round (nready <= 0) skip nobody.                         *)
NreadyExact ==
  /\ pc = "accept"  => nready = Cardinality(Pending(0)) + 1
  /\ pc = "clients" => nready = Cardinality(Pending(i)) /\ nready > 0

(* accept() and read() are called only when they cannot block the process.    *)
NeverBlocks ==
  /\ pc = "accept" => backlog # <<>>
  /\ pc = "clients" => \A k \in Pending(i) : Readable(cli_socks[k])

(* Every message of an admitted client is read, whoever else comes or goes,   *)
(* and the descriptor of a client that left is closed, unless a failing       *)
(* accept() ended the server (AcceptFails).                                   *)
EveryClientServed ==
  \A c \in Conns :
    (FdOf(c) # {} /\ (unread[c] > 0 \/ peer[c] # "up"))
       ~> (pc = "aborted" \/ (unread[c] = 0 /\ (peer[c] = "up" \/ FdOf(c) = {})))
=============================================================================

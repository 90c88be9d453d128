------------------------- MODULE SelectServerProofs -------------------------
(* Theorems about the select() servers: the echo server of C/select_server.c, *)
(* and then that of Python/select_server.py, for any number of connections,   *)
(* slots, descriptors and messages.                                           *)
EXTENDS SelectServer, PySelectServer, SockEnvProofs

Types == /\ pc \in {"select", "accept", "clients", "echo", "exited"}
         /\ cli_socks \in [Slots -> Fds \cup {-1}]
         /\ active_fds \subseteq Fds \cup {Listener} /\ rfds \subseteq Fds \cup {Listener}
         /\ max_sd \in Fds \cup {Listener} /\ i \in 0..MAX_CLIENTS_NUM
         /\ sd \in Fds \cup {Listener} /\ RepliesTypeOK

(* Until the new connection has its slot, nothing select() reported has been  *)
(* closed, so that its descriptor is none of those.                           *)
Untouched == pc = "accept" => i = 0 /\ rfds \subseteq OpenFds \cup {Listener}

(* The slots still to be served are those of the whole table: the bound of    *)
(* the loop, cur_conn_cnt, grows with an accept() in the same round.          *)
ToServe == {k \in Slots : i <= k /\ cli_socks[k] \in rfds}
Reported == /\ pc = "accept" => backlog # <<>>
            /\ pc \in {"accept", "clients", "echo"} => \A k \in ToServe : Readable(cli_socks[k])

IInv == EnvInv /\ Types /\ TablesAgree /\ Untouched /\ Reported

LEMMA Numbers ==
  /\ Slots \subseteq Nat /\ Fds \subseteq Nat \ {0} /\ Listener = 0 /\ -1 \notin Fds
  /\ Listener \notin Fds /\ MAX_CLIENTS_NUM \in Nat /\ IsFiniteSet(Slots)
  /\ Cardinality(Slots) = MAX_CLIENTS_NUM
<1>1. IsFiniteSet(0..(MAX_CLIENTS_NUM - 1))
      /\ Cardinality(0..(MAX_CLIENTS_NUM - 1)) = MAX_CLIENTS_NUM
  BY ServerAssumption, FS_Interval
<1> QED
  BY <1>1, ServerAssumption, EnvAssumption DEF Slots, Fds, Listener

LEMMA FiniteSlots ==
  ASSUME NEW P \in SUBSET Slots
  PROVE  /\ IsFiniteSet(P) /\ Cardinality(P) \in 0..MAX_CLIENTS_NUM
         /\ Cardinality(P) = MAX_CLIENTS_NUM => P = Slots
<1>1. IsFiniteSet(P) /\ Cardinality(P) <= MAX_CLIENTS_NUM
      /\ (Cardinality(P) = MAX_CLIENTS_NUM => P = Slots)
  BY Numbers, FS_Subset
<1>2. Cardinality(P) \in Nat
  BY <1>1, FS_CardinalityType
<1> QED
  BY <1>1, <1>2, Numbers

LEMMA SlotUse ==
  ASSUME Types, NEW k \in Slots
  PROVE  /\ k \in UsedSlots <=> cli_socks[k] \in Fds
         /\ k \in FreeSlots <=> cli_socks[k] = -1
         /\ k \in UsedSlots <=> k \notin FreeSlots
  BY Numbers DEF Types, UsedSlots, FreeSlots

LEMMA UsedFinite ==
  /\ UsedSlots \in SUBSET Slots /\ IsFiniteSet(UsedSlots)
  /\ Cardinality(UsedSlots) \in 0..MAX_CLIENTS_NUM
  BY FiniteSlots DEF UsedSlots

LEMMA TypesSuffice == EnvInv /\ Types /\ TablesAgree => TypeOK
  BY UsedFinite DEF EnvInv, Types, TypeOK, TablesAgree

LEMMA InitI == Init => IInv
<1> SUFFICES ASSUME Init PROVE IInv
  OBVIOUS
<1>1. EnvInv
  BY EnvStart DEF Init
<1>2. Types
  BY Numbers, ReplyAssumption DEF Init, Types, RepliesInit, RepliesTypeOK
<1>3. UsedSlots = {} /\ OpenFds = {}
  BY DEF Init, EnvInit, UsedSlots, OpenFds
<1>4. TablesAgree
  BY <1>3, FS_EmptySet DEF Init, TablesAgree
<1> QED
  BY <1>1, <1>2, <1>4 DEF Init, IInv, Untouched, Reported

-----------------------------------------------------------------------------
LEMMA SelectI == ASSUME IInv, Select PROVE IInv'
<1>1. Ready \subseteq active_fds /\ \A fd \in Ready : Readable(fd)
  BY DEF Select, Ready
<1>2. EnvInv' /\ TablesAgree'
  BY DEF IInv, EnvInv, EnvTypeOK, Made, OneOwner, QueuedOnce, NotBoth, NoMoreThanSent,
         TablesAgree, OpenFds, UsedSlots, Select, envVars, tabVars
<1>3. Types'
  BY <1>1, Numbers DEF IInv, Types, RepliesTypeOK, Select, tabVars
<1>4. Untouched'
  BY <1>1, <1>2 DEF Untouched, IInv, TablesAgree, Select, envVars, tabVars, OpenFds
<1>5. Reported'
  <2>1. \A fd \in Ready : Readable(fd)'
    BY <1>1 DEF Readable, Select, envVars
  <2>2. Listener \in Ready => backlog' # <<>>
    BY <2>1 DEF Readable
  <2> QED
    BY <2>1, <2>2 DEF Reported, ToServe, Select, tabVars
<1> QED
  BY <1>2, <1>3, <1>4, <1>5 DEF IInv

(* send() lets the server go on, or ends it; the queue it fills has an end.   *)
LEMMA QueueTypes ==
  ASSUME RepliesTypeOK, NEW c, NEW n \in Nat, Queue(c, n)
  PROVE  RepliesTypeOK' /\ \A d \in Conns : d # c => replies'[d] = replies[d]
<1>1. CASE c \in Conns
  <2>1. replies[c] \in Nat /\ n <= ReplyRoom - replies[c] /\ ReplyRoom \in Nat
    BY <1>1, ReplyAssumption DEF RepliesTypeOK, Queue
  <2>2. replies[c] + n \in 0..ReplyRoom
    BY <2>1
  <2> QED
    BY <1>1, <2>2 DEF RepliesTypeOK, Queue
<1>2. CASE c \notin Conns
  BY <1>2 DEF RepliesTypeOK, Queue
<1> QED
  BY <1>1, <1>2

LEMMA TakesTypes ==
  ASSUME RepliesTypeOK, NEW c \in Conns, Takes(c)
  PROVE  /\ RepliesTypeOK' /\ UNCHANGED envVars
         /\ \A d \in Conns : replies'[d] = replies[d] \/ replies'[d] < ReplyRoom
<1>1. replies[c] \in 0..ReplyRoom /\ replies[c] > 0 /\ ReplyRoom \in Nat
  BY ReplyAssumption DEF RepliesTypeOK, Takes
<1>2. replies[c] - 1 \in 0..ReplyRoom /\ replies[c] - 1 < ReplyRoom
  BY <1>1
<1>3. replies' = [replies EXCEPT ![c] = replies[c] - 1]
  BY DEF Takes
<1> QED
  BY <1>2, <1>3 DEF RepliesTypeOK, Takes

LEMMA SendEnds ==
  ASSUME RepliesTypeOK, NEW c, NEW next, SendTo(c, next)
  PROVE  (pc' = next \/ pc' = "exited") /\ RepliesTypeOK'
<1>1. CASE Queue(c, 1) /\ pc' = next
  BY <1>1, QueueTypes
<1>2. CASE pc' \in {next, "exited"} /\ UNCHANGED replies
  BY <1>2 DEF RepliesTypeOK
<1> QED
  BY <1>1, <1>2 DEF SendTo

(* Steps after which select() is called, or none: nothing is promised.        *)
LEMMA RefuseI == ASSUME IInv, Refuse PROVE IInv'
<1>1. EnvInv'
  BY RefuseEnv DEF Refuse, IInv
<1>2. pc' \in {"select", "exited"} /\ RepliesTypeOK'
  BY SendEnds DEF Refuse, IInv, Types
<1> QED
  BY <1>1, <1>2 DEF Refuse, IInv, Types, TablesAgree, Untouched, Reported,
              OpenFds, UsedSlots, tabVars

LEMMA EndsI == ASSUME IInv, AcceptFails \/ EndOfLoop PROVE IInv'
<1>1. pc' \in {"select", "exited"} /\ UNCHANGED <<envVars, replies, tabVars, rfds, i, sd>>
  BY DEF AcceptFails, EndOfLoop
<1>2. EnvInv'
  BY <1>1 DEF IInv, EnvInv, EnvTypeOK, Made, OneOwner, QueuedOnce, NotBoth, NoMoreThanSent,
              envVars
<1>3. Types' /\ TablesAgree'
  BY <1>1 DEF IInv, Types, RepliesTypeOK, TablesAgree, OpenFds, UsedSlots, envVars, tabVars
<1> QED
  BY <1>1, <1>2, <1>3 DEF IInv, Untouched, Reported

(* The reply does not touch what the loop looks at.                           *)
LEMMA EchoI == ASSUME IInv, Echo PROVE IInv'
<1>1. pc = "echo" /\ pc' \in {"clients", "exited"} /\ RepliesTypeOK'
  <2>1. CASE SendTo(owner[sd], "clients")
    BY <2>1, SendEnds DEF Echo, IInv, Types
  <2>2. CASE pc' = "clients" /\ UNCHANGED replies
    BY <2>2 DEF Echo, IInv, Types, RepliesTypeOK
  <2> QED
    BY <2>1, <2>2 DEF Echo
<1>2. UNCHANGED <<backlog, owner, unread, sent, peer, cli_socks, cur_conn_cnt, active_fds,
                  max_sd, rfds, i, sd>>
  BY DEF Echo, envVars, tabVars
<1>3. EnvInv' /\ Types' /\ TablesAgree' /\ Untouched'
  BY <1>1, <1>2 DEF IInv, EnvInv, EnvTypeOK, Made, OneOwner, QueuedOnce, NotBoth,
         NoMoreThanSent, Types, TablesAgree, Untouched, OpenFds, UsedSlots
<1>4. Reported'
  BY <1>1, <1>2 DEF IInv, Reported, ToServe, Readable
<1> QED
  BY <1>3, <1>4 DEF IInv

-----------------------------------------------------------------------------
(* Below the limit some slot is free, and it is taken by a descriptor that    *)
(* was closed until now.                                                      *)
LEMMA RoomLeft == ASSUME IInv, ~AtLimit PROVE FreeSlots # {}
<1>1. Cardinality(UsedSlots) # MAX_CLIENTS_NUM
  <2>1. cur_conn_cnt = Cardinality(UsedSlots) /\ cur_conn_cnt \in 0..MAX_CLIENTS_NUM
    BY UsedFinite DEF IInv, TablesAgree
  <2> QED
    BY <2>1, Numbers DEF AtLimit
<1>2. Cardinality(Slots) = MAX_CLIENTS_NUM
  BY Numbers
<1>3. UsedSlots # Slots /\ UsedSlots \subseteq Slots
  BY <1>1, <1>2 DEF UsedSlots
<1> QED
  BY <1>3, SlotUse DEF IInv

LEMMA AcceptI == ASSUME IInv, Accept PROVE IInv'
<1>1. PICK k \in Slots : k = Lowest(FreeSlots) /\ k \in FreeSlots
  <2>1. FreeSlots \in SUBSET Nat /\ FreeSlots # {}
    BY Numbers, RoomLeft DEF FreeSlots, Accept
  <2> QED
    BY <2>1, LowestLeast DEF FreeSlots
<1>2. PICK fd \in Fds : /\ AcceptInto(fd)
                        /\ cli_socks' = [cli_socks EXCEPT ![k] = fd]
                        /\ max_sd' = Raised(fd)
                        /\ active_fds' = active_fds \cup {fd}
                        /\ cur_conn_cnt' = cur_conn_cnt + 1
                        /\ SendTo(Head(backlog), "clients")
  BY <1>1 DEF Accept
<1>3. owner[fd] = None /\ OpenFds' = OpenFds \cup {fd} /\ fd \notin OpenFds
  BY <1>2, AcceptGives DEF IInv, OpenFds
<1>4. EnvInv'
  BY <1>2, AcceptEnv DEF IInv, Accept
<1>5. /\ pc = "accept" /\ i = 0 /\ UNCHANGED <<unread, peer, rfds, i, sd>> /\ fd \notin rfds
      /\ pc' \in {"clients", "exited"} /\ RepliesTypeOK'
  <2>1. pc' \in {"clients", "exited"} /\ RepliesTypeOK'
    BY <1>2, SendEnds DEF IInv, Types
  <2> QED
    BY <1>3, <2>1, Numbers DEF Accept, IInv, Untouched
<1>6. max_sd' \in Fds \cup {Listener} /\ max_sd <= max_sd' /\ fd <= max_sd'
  BY <1>2, Numbers DEF Raised, IInv, Types
<1>7. Types'
  BY <1>1, <1>2, <1>5, <1>6 DEF IInv, Types
<1>8. /\ \A j \in Slots : cli_socks'[j] = IF j = k THEN fd ELSE cli_socks[j]
      /\ UsedSlots' = UsedSlots \cup {k} /\ k \notin UsedSlots
  <2>1. \A j \in Slots : cli_socks'[j] = IF j = k THEN fd ELSE cli_socks[j]
    BY <1>2 DEF IInv, Types
  <2> QED
    BY <2>1, <1>1, Numbers DEF UsedSlots, FreeSlots
<1>9. TablesAgree'
  <2>1. {cli_socks'[j] : j \in UsedSlots'} = OpenFds'
    BY <1>3, <1>8 DEF IInv, TablesAgree, UsedSlots
  <2>2. active_fds' = OpenFds' \cup {Listener}
    BY <1>2, <1>3 DEF IInv, TablesAgree
  <2>3. \A j \in UsedSlots : cli_socks[j] # fd
    BY <1>3 DEF IInv, TablesAgree
  <2>4. \A j, l \in UsedSlots' : cli_socks'[j] = cli_socks'[l] => j = l
    BY <1>8, <2>3 DEF IInv, TablesAgree, UsedSlots
  <2>5. Cardinality(UsedSlots \cup {k}) = Cardinality(UsedSlots) + 1
    BY <1>8, UsedFinite, FS_AddElement
  <2>6. cur_conn_cnt' = Cardinality(UsedSlots')
    BY <1>2, <1>8, <2>5 DEF IInv, TablesAgree
  <2>7. \A f \in OpenFds' : f <= max_sd'
    <3>1. \A f \in OpenFds : f \in Nat /\ f <= max_sd
      BY Numbers DEF IInv, TablesAgree, OpenFds
    <3>2. max_sd \in Nat /\ max_sd' \in Nat
      BY <1>6, Numbers DEF IInv, Types
    <3>3. \A f \in OpenFds : f <= max_sd'
      BY <1>6, <3>1, <3>2
    <3> QED
      BY <1>3, <1>6, <3>3
  <2> QED
    BY <2>1, <2>2, <2>4, <2>6, <2>7 DEF TablesAgree
<1>10. \A j \in ToServe' : j \in ToServe /\ j # k
  BY <1>5, <1>8 DEF ToServe
<1>11. Reported'
  <2>1. \A j \in ToServe : cli_socks[j] \in OpenFds /\ Readable(cli_socks[j])
    <3>1. \A j \in ToServe : j \in Slots /\ cli_socks[j] \in rfds
      BY DEF ToServe
    <3>2. rfds \subseteq OpenFds \cup {Listener}
      BY <1>5 DEF IInv, Untouched
    <3>3. \A j \in Slots : cli_socks[j] # Listener
      BY Numbers DEF IInv, Types
    <3> QED
      BY <1>5, <3>1, <3>2, <3>3 DEF IInv, Reported
  <2>2. \A g \in OpenFds : Readable(g) => Readable(g)'
    <3>1. \A g \in OpenFds : owner'[g] = owner[g] /\ g # Listener
      BY <1>2, <1>3, AcceptGives, Numbers DEF IInv, OpenFds
    <3> QED
      BY <1>5, <3>1 DEF Readable
  <2>3. \A j \in ToServe' : cli_socks'[j] = cli_socks[j]
    BY <1>8, <1>10 DEF ToServe
  <2> QED
    BY <1>5, <1>10, <2>1, <2>2, <2>3 DEF Reported
<1>12. Untouched'
  BY <1>5 DEF Untouched
<1> QED
  BY <1>4, <1>7, <1>9, <1>11, <1>12 DEF IInv

-----------------------------------------------------------------------------
(* The lowest slot left is served; it does not come up again in this round.   *)
LEMMA RecvI == ASSUME IInv, Recv PROVE IInv'
<1>1. PICK k \in Slots : k = Lowest(Pending) /\ k \in Pending
  <2>1. Pending \in SUBSET Nat /\ Pending # {} /\ Pending \subseteq Slots
    BY Numbers DEF Pending, Recv
  <2> QED
    BY <2>1, LowestLeast
<1>2. PICK fd \in Fds : fd = cli_socks[k] /\ fd \in rfds
  <2>1. cli_socks[k] \in rfds /\ cli_socks[k] \in Fds \cup {-1} /\ rfds \subseteq Fds \cup {0}
    BY <1>1, Numbers DEF Pending, IInv, Types
  <2> QED
    BY <2>1
<1>3. PICK n \in RecvResults(fd) :
           /\ sd' = fd /\ i' = k + 1
           /\ unread' = AfterRecv(fd, n)
           /\ \/ n > 0 /\ UNCHANGED <<owner, tabVars>>
              \/ /\ n <= 0
                 /\ CloseFd(fd)
                 /\ active_fds' = ActiveAfterClose(fd)
                 /\ cli_socks' = [cli_socks EXCEPT ![k] = -1]
                 /\ cur_conn_cnt' = CountAfterClose
                 /\ UNCHANGED max_sd
  BY <1>1, <1>2 DEF Recv
<1>4. /\ i <= k /\ pc = "clients" /\ pc' = "echo" /\ i \in Nat /\ k \in Nat
      /\ k \in UsedSlots /\ fd \in OpenFds /\ UNCHANGED <<backlog, sent, peer, replies, rfds>>
  <2>1. k \in UsedSlots
    BY <1>2, SlotUse DEF IInv
  <2> QED
    BY <1>1, <1>2, <2>1, Numbers DEF Pending, Recv, IInv, Types, TablesAgree
<1>5. k + 1 \in 0..MAX_CLIENTS_NUM
  BY ServerAssumption DEF Slots
<1>6. \A j \in Slots : k + 1 <= j => j # k /\ i <= j
  BY <1>4, Numbers
<1>7. \A j \in Slots : k + 1 <= j /\ cli_socks[j] \in rfds =>
          cli_socks[j] \in OpenFds /\ cli_socks[j] # fd /\ Readable(cli_socks[j])
  <2> SUFFICES ASSUME NEW j \in Slots, k + 1 <= j, cli_socks[j] \in rfds
               PROVE  cli_socks[j] \in OpenFds /\ cli_socks[j] # fd /\ Readable(cli_socks[j])
    OBVIOUS
  <2>1. cli_socks[j] \in Fds
    BY Numbers DEF IInv, Types
  <2>2. j \in UsedSlots
    BY <2>1, SlotUse DEF IInv
  <2>3. j \in ToServe
    BY <1>6 DEF ToServe
  <2> QED
    BY <2>2, <2>3, <1>2, <1>4, <1>6 DEF IInv, TablesAgree, Reported
<1>8. CASE n > 0
  <2>1. UNCHANGED <<owner, cli_socks, cur_conn_cnt, active_fds, max_sd>>
    BY <1>3, <1>8 DEF tabVars, RecvResults, EnvInv, EnvTypeOK
  <2>2. EnvInv'
    BY <1>3, <1>4, <2>1, RecvEnv DEF IInv
  <2>3. Types' /\ TablesAgree'
    BY <1>3, <1>4, <1>5, <2>1 DEF IInv, Types, RepliesTypeOK, TablesAgree, OpenFds, UsedSlots
  <2>4. \A g \in OpenFds : g # fd /\ Readable(g) => Readable(g)'
    BY <1>3, <1>4, <2>1, OthersReadable DEF IInv, OpenFds
  <2>5. Untouched' /\ Reported'
    BY <1>3, <1>4, <1>7, <2>1, <2>4 DEF Untouched, Reported, ToServe
  <2> QED
    BY <2>2, <2>3, <2>5 DEF IInv
<1>9. CASE ~(n > 0)
  <2>1. /\ CloseFd(fd) /\ active_fds' = active_fds \ {fd} /\ UNCHANGED <<max_sd, unread>>
        /\ cli_socks' = [cli_socks EXCEPT ![k] = -1] /\ cur_conn_cnt' = cur_conn_cnt - 1
    BY <1>3, <1>9 DEF AfterRecv, ActiveAfterClose, CountAfterClose
  <2>2. EnvInv' /\ OpenFds' = OpenFds \ {fd}
    BY <1>4, <2>1, CloseEnv DEF IInv
  <2>3. Types'
    BY <1>3, <1>4, <1>5, <2>1 DEF IInv, Types, RepliesTypeOK
  <2>4. /\ \A j \in Slots : cli_socks'[j] = IF j = k THEN -1 ELSE cli_socks[j]
        /\ UsedSlots' = UsedSlots \ {k}
    BY <2>1 DEF IInv, Types, UsedSlots
  <2>5. \A j \in UsedSlots : j # k => cli_socks[j] # fd
    BY <1>2, <1>4 DEF IInv, TablesAgree
  <2>6. TablesAgree'
    <3>1. {cli_socks'[j] : j \in UsedSlots'} = OpenFds'
      BY <1>2, <1>4, <2>2, <2>4, <2>5 DEF IInv, TablesAgree, UsedSlots
    <3>2. active_fds' = OpenFds' \cup {Listener}
      BY <1>4, <2>1, <2>2, Numbers DEF IInv, TablesAgree
    <3>3. \A j, l \in UsedSlots' : cli_socks'[j] = cli_socks'[l] => j = l
      BY <2>4 DEF IInv, TablesAgree, UsedSlots
    <3>4. Cardinality(UsedSlots \ {k}) = Cardinality(UsedSlots) - 1
      BY <1>4, UsedFinite, FS_RemoveElement
    <3>5. cur_conn_cnt' = Cardinality(UsedSlots')
      BY <2>1, <2>4, <3>4 DEF IInv, TablesAgree
    <3> QED
      BY <2>1, <2>2, <3>1, <3>2, <3>3, <3>5 DEF IInv, TablesAgree
  <2>7. \A g \in OpenFds : g # fd /\ Readable(g) => Readable(g)'
    <3>1. \A g \in Fds : g # fd => owner'[g] = owner[g]
      BY <2>1 DEF CloseFd, IInv, EnvInv, EnvTypeOK
    <3> QED
      BY <1>3, <1>4, <3>1, OthersReadable DEF IInv, OpenFds
  <2>8. \A j \in ToServe' : j \in Slots /\ k + 1 <= j /\ cli_socks[j] \in rfds
                            /\ cli_socks'[j] = cli_socks[j]
    BY <1>3, <1>4, <1>6, <2>4 DEF ToServe
  <2>9. Untouched' /\ Reported'
    BY <1>4, <1>7, <2>7, <2>8 DEF Untouched, Reported
  <2> QED
    BY <2>2, <2>3, <2>6, <2>9 DEF IInv
<1> QED
  BY <1>8, <1>9

-----------------------------------------------------------------------------
LEMMA ClientI == ASSUME IInv, NEW c \in Conns, Client(c) PROVE IInv'
<1>1. (ClientStep(c) \/ UNCHANGED envVars) /\ UNCHANGED <<pc, tabVars, rfds, i, sd, owner>>
      /\ RepliesTypeOK'
  <2>1. CASE ClientStep(c) /\ UNCHANGED replies
    BY <2>1 DEF Client, ClientStep, Connect, SendMsg, Leave, ResetBy, IInv, Types, RepliesTypeOK
  <2>2. CASE Takes(c)
    BY <2>2, TakesTypes DEF Client, IInv, Types, envVars
  <2> QED
    BY <2>1, <2>2 DEF Client, ClientStep
<1>2. EnvInv'
  <2>1. UNCHANGED envVars => EnvInv'
    BY DEF IInv, EnvInv, EnvTypeOK, Made, OneOwner, QueuedOnce, NotBoth, NoMoreThanSent, envVars
  <2> QED
    BY <1>1, <2>1, ClientEnv DEF IInv
<1>3. Types' /\ TablesAgree' /\ Untouched'
  BY <1>1 DEF IInv, Types, TablesAgree, Untouched, OpenFds, UsedSlots, tabVars
<1>4. \A fd \in Fds \cup {Listener} : Readable(fd) => Readable(fd)'
  <2>1. UNCHANGED envVars => \A fd \in Fds \cup {Listener} : Readable(fd) => Readable(fd)'
    BY DEF Readable, envVars
  <2> QED
    BY <1>1, <2>1, StaysReadable DEF IInv
<1>5. backlog # <<>> => backlog' # <<>>
  BY <1>4 DEF Readable
<1>6. \A k \in ToServe : cli_socks[k] \in Fds \cup {Listener}
  BY DEF ToServe, IInv, Types
<1>7. Reported'
  BY <1>1, <1>4, <1>5, <1>6 DEF IInv, Reported, ToServe, tabVars
<1> QED
  BY <1>2, <1>3, <1>7 DEF IInv

LEMMA NextI == IInv /\ [Next]_vars => IInv'
<1> SUFFICES ASSUME IInv, [Next]_vars PROVE IInv'
  OBVIOUS
<1>1. CASE UNCHANGED vars
  BY <1>1 DEF IInv, EnvInv, EnvTypeOK, Made, OneOwner, QueuedOnce, NotBoth, NoMoreThanSent,
              Types, RepliesTypeOK, TablesAgree, Untouched, Reported, ToServe, Readable, OpenFds,
              UsedSlots, vars, envVars, tabVars
<1> QED
  BY <1>1, SelectI, RefuseI, AcceptI, EndsI, RecvI, EchoI, ClientI DEF Next, Server

LEMMA Inductive == Spec => []IInv
  BY InitI, NextI, PTL DEF Spec

(* Types are kept; the count and the loop index stay within the table.        *)
THEOREM TypesKept == Spec => []TypeOK
<1>1. IInv => TypeOK
  BY TypesSuffice DEF IInv
<1> QED
  BY <1>1, Inductive, PTL

(* cli_socks, active_fds, max_sd and cur_conn_cnt agree with the descriptors  *)
(* that are open, whatever order clients come and go in.                      *)
THEOREM TablesAlwaysAgree == Spec => []TablesAgree
<1>1. IInv => TablesAgree
  BY DEF IInv
<1> QED
  BY <1>1, Inductive, PTL

(* accept() and recv() never block: what select() reported is still true when *)
(* the call is made, although clients go on, the bound of the loop moves with *)
(* cur_conn_cnt, and an earlier client of the round may have been closed.     *)
THEOREM ServerNeverBlocks == Spec => []NeverBlocks
<1>1. IInv => NeverBlocks
  BY DEF IInv, Reported, NeverBlocks, ToServe, Pending
<1> QED
  BY <1>1, Inductive, PTL

-----------------------------------------------------------------------------
(* Every open descriptor is in one slot, so the count is theirs too.          *)
LEMMA OpenCounted == ASSUME IInv PROVE Cardinality(OpenFds) = cur_conn_cnt
<1> DEFINE f == [k \in UsedSlots |-> cli_socks[k]]
<1>1. f \in Bijection(UsedSlots, OpenFds)
  BY DEF IInv, TablesAgree, Bijection, Injection, Surjection, IsInjective
<1>2. ExistsBijection(UsedSlots, OpenFds)
  BY <1>1 DEF ExistsBijection
<1>3. Cardinality(UsedSlots) = Cardinality(OpenFds)
  BY <1>2, UsedFinite, FS_Bijection
<1> QED
  BY <1>3 DEF IInv, TablesAgree

LEMMA ShorterIsServed ==
  ASSUME IInv, [Next]_vars, Len(backlog') < Len(backlog), OpenFds' = OpenFds
  PROVE  Refuse
<1>1. backlog \in Seq(Conns) /\ Len(backlog) \in Nat
  BY DEF IInv, EnvInv, EnvTypeOK
<1>2. backlog' # backlog
  BY <1>1
<1>3. ~Accept
  BY AcceptGives DEF Accept, IInv, OpenFds
<1>4. ~(Select \/ AcceptFails \/ EndOfLoop \/ Recv \/ Echo)
  BY <1>2 DEF Select, AcceptFails, EndOfLoop, Recv, Echo, envVars
<1>5. ASSUME NEW c \in Conns, Client(c) PROVE FALSE
  <2>1. backlog' = backlog \/ backlog' = Append(backlog, c)
    BY <1>5 DEF Client, Connect, SendMsg, Leave, ResetBy, Takes, envVars
  <2> QED
    BY <1>1, <2>1
<1> QED
  BY <1>2, <1>3, <1>4, <1>5 DEF Next, Server, vars, envVars

(* A connection is taken off the backlog without getting a descriptor only    *)
(* when MAX_CLIENTS_NUM others have one: the test of cur_conn_cnt in          *)
(* select_server.c is neither early nor late, and no accepted socket is lost  *)
(* for want of a slot.                                                        *)
THEOREM LimitExact == Spec => RefusedOnlyWhenFull
<1>1. ASSUME IInv, [Next]_vars, Len(backlog') < Len(backlog), OpenFds' = OpenFds
      PROVE  Cardinality(OpenFds) = MAX_CLIENTS_NUM
  <2>1. AtLimit
    BY <1>1, ShorterIsServed DEF Refuse
  <2>2. cur_conn_cnt \in 0..MAX_CLIENTS_NUM
    BY <1>1, UsedFinite DEF IInv, TablesAgree
  <2> QED
    BY <1>1, <2>1, <2>2, OpenCounted, Numbers DEF AtLimit
<1>2. IInv /\ [Next]_vars =>
        [Len(backlog') < Len(backlog) /\ OpenFds' = OpenFds
           => Cardinality(OpenFds) = MAX_CLIENTS_NUM]_vars
  BY <1>1
<1> QED
  BY <1>2, Inductive, PTL DEF Spec, RefusedOnlyWhenFull

-----------------------------------------------------------------------------
(* The lists of the Python server: what the operators on them that the model  *)
(* takes from the library return.                                             *)
LEMMA ListElems ==
  ASSUME NEW T, NEW s \in Seq(T)
  PROVE  /\ ToSet(s) = Elems(s) /\ (IsInjective(s) <=> Once(s)) /\ Elems(s) \subseteq T
         /\ \A e : Contains(s, e) <=> e \in Elems(s)
<1>1. DOMAIN s = 1..Len(s) /\ \A k \in 1..Len(s) : s[k] \in T
  BY LenProperties, ElementOfSeq
<1>2. ToSet(s) = Elems(s)
  BY <1>1 DEF ToSet, Elems
<1>3. IsInjective(s) <=> Once(s)
  BY <1>1 DEF IsInjective, Once
<1>4. \A e : Contains(s, e) <=> e \in Elems(s)
  BY DEF Contains, Elems
<1> QED
  BY <1>1, <1>2, <1>3, <1>4 DEF Elems

LEMMA RemoveFirstElems ==
  ASSUME NEW T, NEW s \in Seq(T), Once(s), NEW e
  PROVE  /\ RemoveFirst(s, e) \in Seq(T) /\ Once(RemoveFirst(s, e))
         /\ Elems(RemoveFirst(s, e)) = Elems(s) \ {e}
<1>1. CASE ~ \E k \in 1..Len(s) : s[k] = e
  BY <1>1 DEF RemoveFirst, Elems
<1>2. CASE \E k \in 1..Len(s) : s[k] = e
  <2>0. Len(s) \in Nat /\ \A k \in 1..Len(s) : s[k] \in T
    BY LenProperties, ElementOfSeq
  <2>1. PICK j \in 1..Len(s) : s[j] = e
    BY <1>2
  <2>2. \A k \in 1..Len(s) : s[k] = e => k = j
    BY <2>1 DEF Once
  <2>3. SelectInSeq(s, LAMBDA v : v = e) = j
    <3>1. {k \in 1..Len(s) : s[k] = e} = {j}
      BY <2>1, <2>2
    <3>2. Min({j}) = j
      <4>1. j <= j
        BY <2>0, <2>1
      <4> QED
        BY <4>1 DEF Min
    <3>3. SelectInSeq(s, LAMBDA v : v = e) = Min({j})
      BY <3>1 DEF SelectInSeq
    <3> QED
      BY <3>2, <3>3
  <2>4. RemoveFirst(s, e) = SubSeq(s, 1, j - 1) \o SubSeq(s, j + 1, Len(s))
    BY <1>2, <2>3 DEF RemoveFirst, RemoveAt
  <2>5. PICK p, q, r : p = SubSeq(s, 1, j - 1) /\ q = SubSeq(s, j + 1, Len(s)) /\ r = p \o q
    OBVIOUS
  <2>6. p \in Seq(T) /\ Len(p) = j - 1 /\ \A k \in 1..(j - 1) : p[k] = s[k]
    <3>1. 1 \in Int /\ j - 1 \in Int /\ \A k \in 1..(j - 1) : s[k] \in T
      BY <2>0, <2>1
    <3>2. /\ SubSeq(s, 1, j - 1) \in Seq(T)
          /\ Len(SubSeq(s, 1, j - 1)) = IF 1 <= j - 1 THEN (j - 1) - 1 + 1 ELSE 0
          /\ \A k \in 1..((j - 1) - 1 + 1) : SubSeq(s, 1, j - 1)[k] = s[1 + k - 1]
      BY <3>1, SubSeqProperties
    <3>3. /\ p \in Seq(T) /\ Len(p) = IF 1 <= j - 1 THEN (j - 1) - 1 + 1 ELSE 0
          /\ \A k \in 1..((j - 1) - 1 + 1) : p[k] = s[1 + k - 1]
      BY <2>5, <3>2
    <3>4. (j - 1) - 1 + 1 = j - 1 /\ \A k \in 1..(j - 1) : 1 + k - 1 = k
      BY <2>0, <2>1
    <3> QED
      BY <2>0, <2>1, <3>3, <3>4
  <2>7. q \in Seq(T) /\ Len(q) = Len(s) - j /\ \A k \in 1..(Len(s) - j) : q[k] = s[j + k]
    <3>1. j + 1 \in Int /\ Len(s) \in Int /\ \A k \in (j + 1)..Len(s) : s[k] \in T
      BY <2>0, <2>1
    <3>2. /\ SubSeq(s, j + 1, Len(s)) \in Seq(T)
          /\ Len(SubSeq(s, j + 1, Len(s))) = IF j + 1 <= Len(s) THEN Len(s) - (j + 1) + 1 ELSE 0
          /\ \A k \in 1..(Len(s) - (j + 1) + 1) : SubSeq(s, j + 1, Len(s))[k] = s[(j + 1) + k - 1]
      BY <3>1, SubSeqProperties
    <3>3. /\ q \in Seq(T) /\ Len(q) = IF j + 1 <= Len(s) THEN Len(s) - (j + 1) + 1 ELSE 0
          /\ \A k \in 1..(Len(s) - (j + 1) + 1) : q[k] = s[(j + 1) + k - 1]
      BY <2>5, <3>2
    <3>4. Len(s) - (j + 1) + 1 = Len(s) - j
      BY <2>0, <2>1
    <3>5. Len(q) = Len(s) - j
      <4>1. Len(q) = IF j + 1 <= Len(s) THEN Len(s) - (j + 1) + 1 ELSE 0
        BY <3>3
      <4>2. j \in Int /\ j <= Len(s) /\ Len(s) \in Int
        BY <2>0, <2>1
      <4> QED
        BY <4>1, <4>2
    <3>6. ASSUME NEW k \in 1..(Len(s) - j) PROVE q[k] = s[j + k]
      <4>1. (j + 1) + k - 1 = j + k
        BY <2>0, <2>1
      <4> QED
        BY <3>3, <3>4, <4>1
    <3> QED
      BY <3>3, <3>5, <3>6
  <2>8. /\ r \in Seq(T) /\ Len(r) = Len(p) + Len(q)
        /\ \A k \in 1..(Len(p) + Len(q)) : r[k] = IF k <= Len(p) THEN p[k] ELSE q[k - Len(p)]
    <3>1. p \in Seq(T) /\ q \in Seq(T)
      BY <2>6, <2>7
    <3>2. /\ p \o q \in Seq(T) /\ Len(p \o q) = Len(p) + Len(q)
          /\ \A k \in 1..(Len(p) + Len(q)) : (p \o q)[k] = IF k <= Len(p) THEN p[k] ELSE q[k - Len(p)]
      BY <3>1, ConcatProperties
    <3> QED
      BY <2>5, <3>2
  <2>9. Len(r) = Len(s) - 1 /\ \A k \in 1..Len(r) : r[k] = IF k < j THEN s[k] ELSE s[k + 1]
    <3>1. Len(r) = Len(s) - 1
      BY <2>0, <2>1, <2>6, <2>7, <2>8
    <3>2. ASSUME NEW k \in 1..Len(r), k < j PROVE r[k] = s[k]
      BY <2>0, <2>1, <2>6, <2>7, <2>8, <3>1, <3>2
    <3>3. ASSUME NEW k \in 1..Len(r), ~(k < j) PROVE r[k] = s[k + 1]
      <4>1. k - (j - 1) \in 1..(Len(s) - j) /\ j + (k - (j - 1)) = k + 1 /\ ~(k <= j - 1)
        BY <2>0, <2>1, <3>1, <3>3
      <4>2. r[k] = q[k - (j - 1)]
        BY <2>6, <2>8, <4>1
      <4> QED
        BY <2>7, <4>1, <4>2
    <3> QED
      BY <3>1, <3>2, <3>3
  <2>10. Once(r)
    <3>1. \A k \in 1..Len(r) : k \in 1..Len(s) /\ k + 1 \in 1..Len(s)
      BY <2>0, <2>1, <2>9
    <3>2. ASSUME NEW k \in 1..Len(r), NEW l \in 1..Len(r), r[k] = r[l] PROVE k = l
      <4>1. PICK a, b : a = (IF k < j THEN k ELSE k + 1) /\ b = (IF l < j THEN l ELSE l + 1)
        OBVIOUS
      <4>2. r[k] = s[a] /\ r[l] = s[b] /\ a \in 1..Len(s) /\ b \in 1..Len(s)
        BY <2>9, <3>1, <4>1
      <4>3. a = b
        BY <3>2, <4>2 DEF Once
      <4> QED
        BY <2>0, <2>1, <2>9, <4>1, <4>3
    <3> QED
      BY <3>2 DEF Once
  <2>11. Elems(r) = Elems(s) \ {e}
    <3>1. ASSUME NEW x \in Elems(r) PROVE x \in Elems(s) /\ x # e
      <4>1. PICK k \in 1..Len(r) : x = r[k]
        BY <3>1 DEF Elems
      <4>2. PICK a : a = (IF k < j THEN k ELSE k + 1)
        OBVIOUS
      <4>3. a \in 1..Len(s) /\ a # j /\ x = s[a]
        BY <2>0, <2>1, <2>9, <4>1, <4>2
      <4> QED
        BY <2>2, <4>3 DEF Elems
    <3>2. ASSUME NEW x \in Elems(s), x # e PROVE x \in Elems(r)
      <4>1. PICK k \in 1..Len(s) : x = s[k]
        BY DEF Elems
      <4>2. k # j
        BY <2>1, <3>2, <4>1
      <4>3. PICK a : a = (IF k < j THEN k ELSE k - 1)
        OBVIOUS
      <4>4. a \in 1..Len(r) /\ (IF a < j THEN a ELSE a + 1) = k
        BY <2>0, <2>1, <2>9, <4>1, <4>2, <4>3
      <4>5. r[a] = s[k]
        BY <2>9, <4>4
      <4> QED
        BY <4>1, <4>4, <4>5 DEF Elems
    <3> QED
      BY <3>1, <3>2
  <2> QED
    BY <2>4, <2>5, <2>8, <2>10, <2>11
<1> QED
  BY <1>1, <1>2

-----------------------------------------------------------------------------
(* The invariant.  While a list is being gone through it has an element left; *)
(* the listener is in it at most once and only while accept() has something   *)
(* to return; a client whose queue is gone by now (it was dropped after       *)
(* select() returned it) has left, was reset or sent urgent data.             *)
Sockets == Conns \cup {Master}
Loops == {"readable", "writable", "exceptional"}
Returns == [readable : Seq(Sockets), writable : Seq(Sockets), exceptional : Seq(Sockets)]
Departed(c) == peer[c] \in {"fin", "rst"} \/ c \in urgent
Known(c) == c \in Conns /\ (c \in DOMAIN msg_queue \/ Departed(c))

PyTypes == /\ loop \in Loops \cup {"select", "timeout", "crashed"}
           /\ inputs \in Seq(Sockets) /\ outputs \in Seq(Conns)
           /\ DOMAIN msg_queue \subseteq Conns /\ urgent \subseteq Conns
           /\ todo \in Returns
MoreToDo == /\ loop = "readable" => todo.readable # <<>>
            /\ loop = "writable" => todo.writable # <<>>
            /\ loop = "exceptional" => todo.exceptional # <<>>
MasterOnce == Once(todo.readable) /\ (Master \in Elems(todo.readable) => backlog # <<>>)
NoneForgotten == /\ \A s \in Elems(todo.readable) : s = Master \/ Known(s)
                 /\ \A s \in Elems(todo.writable) : Known(s)
                 /\ Elems(todo.exceptional) \subseteq urgent
(* What select() reported with room still has room when the loop comes to it: *)
(* nobody else sends, and each connection is in the list once.                *)
RoomLasts == /\ Once(todo.writable) /\ RepliesTypeOK
             /\ \A s \in Elems(todo.writable) : s \in Conns /\ ~Full(s)
PyInv == EnvInv /\ PyTypes /\ MoreToDo /\ MasterOnce /\ NoneForgotten /\ ListsAgree
         /\ CrashOnlyByDeparture /\ RoomLasts

(* The steps of the loops: a queue fills only by the send() of the current    *)
(* element of writable.                                                       *)
FillsOnly == /\ RepliesTypeOK' /\ UNCHANGED peer
             /\ \A c \in Conns : replies'[c] = replies[c] \/ (loop = "writable" /\ c = S)

LEMMA NoneFills == ASSUME PyInv, UNCHANGED <<replies, peer>> PROVE FillsOnly
BY DEF PyInv, RoomLasts, RepliesTypeOK, FillsOnly

LEMMA SocketNumbers == /\ Fds \subseteq Nat \ {0} /\ Master = 0 /\ Listener = 0 /\ Master \notin Conns
                       /\ Conns \subseteq Nat \ {0} /\ None \notin Conns /\ Listener \notin Fds
  BY EnvAssumption DEF Fds, Master, Listener, Conns

LEMMA EmptyElems == Elems(<<>>) = {} /\ Once(<<>>) /\ \A T : <<>> \in Seq(T)
<1>1. Len(<<>>) = 0 /\ \A T : <<>> \in Seq(T)
  BY EmptySeq
<1> QED
  BY <1>1 DEF Elems, Once

(* The one descriptor of an open connection.                                  *)
LEMMA FdIs ==
  ASSUME EnvInv, NEW c \in Conns, FdOf(c) # {}
  PROVE  Fd(c) \in OpenFds /\ Fd(c) \in Fds /\ owner[Fd(c)] = c /\ Fd(c) # Listener
<1>1. Fd(c) \in FdOf(c)
  BY SocketNumbers DEF Fd
<1> QED
  BY <1>1, SocketNumbers DEF FdOf, OpenFds

LEMMA HasFd == ASSUME NEW c \in Conns PROVE FdOf(c) # {} <=> \E fd \in Fds : owner[fd] = c
  BY SocketNumbers DEF FdOf, OpenFds

(* The next list is one with something in it.                                 *)
LEMMA AfterIs ==
  ASSUME NEW t
  PROVE  /\ After(t) \in Loops \cup {"select"}
         /\ After(t) = "readable" => t.readable # <<>>
         /\ After(t) = "writable" => t.writable # <<>>
         /\ After(t) = "exceptional" => t.exceptional # <<>>
  BY DEF After, Loops

(* One element less in the list being gone through; the others as they were.  *)
LEMMA TailOnce ==
  ASSUME NEW T, NEW s \in Seq(T), s # <<>>
  PROVE  /\ Head(s) \in Elems(s) /\ Head(s) \in T /\ Tail(s) \in Seq(T)
         /\ Elems(Tail(s)) \subseteq Elems(s)
         /\ Once(s) => Once(Tail(s)) /\ Head(s) \notin Elems(Tail(s))
<1>1. PICK t : t = Tail(s)
  OBVIOUS
<1>2. /\ t \in Seq(T) /\ Len(s) \in Nat \ {0} /\ Head(s) = s[1] /\ s[1] \in T
      /\ \A k \in 1..Len(t) : k + 1 \in 1..Len(s) /\ k + 1 # 1 /\ t[k] = s[k + 1]
  BY <1>1, TailElems
<1>3. 1 \in 1..Len(s)
  BY <1>2
<1>4. Head(s) \in Elems(s) /\ Elems(t) \subseteq Elems(s)
  BY <1>2, <1>3 DEF Elems
<1>5. ASSUME Once(s) PROVE Once(t) /\ Head(s) \notin Elems(t)
  <2>1. ASSUME NEW j \in 1..Len(t), NEW k \in 1..Len(t), t[j] = t[k] PROVE j = k
    <3>1. j + 1 = k + 1
      BY <1>2, <1>5, <2>1 DEF Once
    <3>2. t \in Seq(T) /\ Len(t) \in Nat
      BY <1>2, LenProperties
    <3> QED
      BY <3>1, <3>2
  <2>2. ASSUME NEW k \in 1..Len(t) PROVE t[k] # s[1]
    BY <1>2, <1>3, <1>5 DEF Once
  <2> QED
    BY <1>2, <2>1, <2>2 DEF Once, Elems
<1> QED
  BY <1>1, <1>2, <1>4, <1>5

LEMMA DoneIs ==
  ASSUME PyTypes, MoreToDo, loop \in Loops, Done
  PROVE  /\ todo' \in Returns
         /\ todo'.readable = IF loop = "readable" THEN Tail(todo.readable) ELSE todo.readable
         /\ todo'.writable = IF loop = "writable" THEN Tail(todo.writable) ELSE todo.writable
         /\ todo'.exceptional = IF loop = "exceptional" THEN Tail(todo.exceptional) ELSE todo.exceptional
<1>1. CASE loop = "readable"
  <2>1. Tail(todo.readable) \in Seq(Sockets)
    BY <1>1, TailOnce DEF PyTypes, MoreToDo, Returns
  <2>2. todo' = [todo EXCEPT !.readable = Tail(todo.readable)]
    BY <1>1 DEF Done
  <2> QED
    BY <1>1, <2>1, <2>2 DEF PyTypes, Returns
<1>2. CASE loop = "writable"
  <2>1. Tail(todo.writable) \in Seq(Sockets)
    BY <1>2, TailOnce DEF PyTypes, MoreToDo, Returns
  <2>2. todo' = [todo EXCEPT !.writable = Tail(todo.writable)]
    BY <1>2 DEF Done
  <2> QED
    BY <1>2, <2>1, <2>2 DEF PyTypes, Returns
<1>3. CASE loop = "exceptional"
  <2>1. Tail(todo.exceptional) \in Seq(Sockets)
    BY <1>3, TailOnce DEF PyTypes, MoreToDo, Returns
  <2>2. todo' = [todo EXCEPT !.exceptional = Tail(todo.exceptional)]
    BY <1>3 DEF Done
  <2> QED
    BY <1>3, <2>1, <2>2 DEF PyTypes, Returns
<1> QED
  BY <1>1, <1>2, <1>3 DEF Loops

LEMMA CurrentIs ==
  ASSUME PyInv, loop \in Loops
  PROVE  /\ loop = "readable" => S \in Elems(todo.readable) /\ S = Head(todo.readable)
                                  /\ (S = Master \/ Known(S))
         /\ loop = "writable" => Known(S) /\ ~Full(S) /\ S = Head(todo.writable)
         /\ loop = "exceptional" => S \in urgent /\ Known(S)
<1>1. CASE loop = "readable"
  <2>1. todo.readable \in Seq(Sockets) /\ todo.readable # <<>> /\ S = Head(todo.readable)
    BY <1>1 DEF PyInv, PyTypes, MoreToDo, Returns, S
  <2>2. S \in Elems(todo.readable)
    BY <2>1, TailOnce
  <2> QED
    BY <1>1, <2>1, <2>2 DEF PyInv, NoneForgotten
<1>2. CASE loop = "writable"
  <2>1. todo.writable \in Seq(Sockets) /\ todo.writable # <<>> /\ S = Head(todo.writable)
    BY <1>2 DEF PyInv, PyTypes, MoreToDo, Returns, S
  <2>2. S \in Elems(todo.writable)
    BY <2>1, TailOnce
  <2> QED
    BY <1>2, <2>1, <2>2 DEF PyInv, NoneForgotten, RoomLasts
<1>3. CASE loop = "exceptional"
  <2>1. todo.exceptional \in Seq(Sockets) /\ todo.exceptional # <<>> /\ S = Head(todo.exceptional)
    BY <1>3 DEF PyInv, PyTypes, MoreToDo, Returns, S
  <2>2. S \in Elems(todo.exceptional)
    BY <2>1, TailOnce
  <2> QED
    BY <1>3, <2>1, <2>2 DEF PyInv, NoneForgotten, PyTypes, Known, Departed
<1> QED
  BY <1>1, <1>2, <1>3

(* What going on to the next element leaves of the invariant, when no client  *)
(* is forgotten and only accept() takes from the backlog.                     *)
LEMMA DoneKeeps ==
  ASSUME PyInv, loop \in Loops, Done, urgent' = urgent,
         \A c : Known(c) => Known(c)',
         backlog' = backlog \/ (loop = "readable" /\ S = Master), FillsOnly
  PROVE  /\ todo' \in Returns /\ loop' \in Loops \cup {"select"}
         /\ MoreToDo' /\ MasterOnce' /\ NoneForgotten' /\ RoomLasts'
<1>1. PyTypes /\ MoreToDo /\ MasterOnce /\ NoneForgotten /\ RoomLasts
  BY DEF PyInv
<1>2. /\ todo' \in Returns
      /\ todo'.readable = IF loop = "readable" THEN Tail(todo.readable) ELSE todo.readable
      /\ todo'.writable = IF loop = "writable" THEN Tail(todo.writable) ELSE todo.writable
      /\ todo'.exceptional = IF loop = "exceptional" THEN Tail(todo.exceptional) ELSE todo.exceptional
  BY <1>1, DoneIs
<1>3. loop' = After(todo')
  BY DEF Done
<1>4. loop' \in Loops \cup {"select"} /\ MoreToDo'
  <2>1. PICK t : t = todo'
    OBVIOUS
  <2>2. loop' = After(t)
    BY <1>3, <2>1
  <2> QED
    BY <2>1, <2>2, AfterIs DEF MoreToDo
<1>5. todo.readable \in Seq(Sockets) /\ todo.writable \in Seq(Sockets)
      /\ todo.exceptional \in Seq(Sockets)
  BY <1>1 DEF PyTypes, Returns
<1>6. Elems(todo'.readable) \subseteq Elems(todo.readable) /\ Once(todo'.readable)
      /\ (loop = "readable" => Head(todo.readable) \notin Elems(todo'.readable))
  <2>1. CASE loop = "readable"
    BY <1>1, <1>2, <1>5, <2>1, TailOnce DEF MoreToDo, MasterOnce
  <2>2. CASE loop # "readable"
    BY <1>1, <1>2, <2>2 DEF MasterOnce
  <2> QED
    BY <2>1, <2>2
<1>7. Elems(todo'.writable) \subseteq Elems(todo.writable) /\ Once(todo'.writable)
      /\ (loop = "writable" => Head(todo.writable) \notin Elems(todo'.writable))
  <2>1. CASE loop = "writable"
    BY <1>1, <1>2, <1>5, <2>1, TailOnce DEF MoreToDo, RoomLasts
  <2>2. CASE loop # "writable"
    BY <1>1, <1>2, <2>2 DEF RoomLasts
  <2> QED
    BY <2>1, <2>2
<1>8. Elems(todo'.exceptional) \subseteq Elems(todo.exceptional)
  <2>1. CASE loop = "exceptional"
    BY <1>1, <1>2, <1>5, <2>1, TailOnce DEF MoreToDo
  <2>2. CASE loop # "exceptional"
    BY <1>2, <2>2
  <2> QED
    BY <2>1, <2>2
<1>9. NoneForgotten'
  <2>1. \A s \in Elems(todo'.readable) : s = Master \/ Known(s)'
    BY <1>1, <1>6 DEF NoneForgotten
  <2>2. \A s \in Elems(todo'.writable) : Known(s)'
    BY <1>1, <1>7 DEF NoneForgotten
  <2>3. Elems(todo'.exceptional) \subseteq urgent'
    BY <1>1, <1>8 DEF NoneForgotten
  <2> QED
    BY <2>1, <2>2, <2>3, SocketNumbers DEF NoneForgotten
<1>10. MasterOnce'
  <2>1. loop = "readable" /\ S = Master => Master \notin Elems(todo'.readable)
    BY <1>6, CurrentIs
  <2>2. Master \in Elems(todo'.readable) => backlog' # <<>>
    BY <1>1, <1>6, <2>1 DEF MasterOnce
  <2> QED
    BY <1>6, <2>2, SocketNumbers DEF MasterOnce
<1>11. RoomLasts'
  <2>1. ASSUME NEW s \in Elems(todo'.writable) PROVE s \in Conns /\ ~Full(s)'
    <3>1. s \in Conns /\ ~Full(s)
      BY <1>1, <1>7, <2>1 DEF RoomLasts
    <3>2. ~(loop = "writable" /\ s = S)
      BY <1>7, <2>1, CurrentIs DEF Loops
    <3> QED
      BY <3>1, <3>2 DEF FillsOnly, Full
  <2> QED
    BY <1>7, <2>1 DEF RoomLasts, FillsOnly
<1> QED
  BY <1>2, <1>4, <1>9, <1>10, <1>11

-----------------------------------------------------------------------------
(* The agreement of the lists, in the terms of the lemmas.                    *)
Lists == /\ Once(inputs) /\ Once(outputs)
         /\ Elems(inputs) = {Master} \cup DOMAIN msg_queue
         /\ DOMAIN msg_queue = {c \in Conns : FdOf(c) # {}}
         /\ Elems(outputs) \subseteq DOMAIN msg_queue
         /\ \A c \in DOMAIN msg_queue : msg_queue[c] # <<>> => c \in Elems(outputs)

LEMMA AgreeLists == ASSUME PyInv, Running PROVE Lists
<1>1. inputs \in Seq(Sockets) /\ outputs \in Seq(Conns)
  BY DEF PyInv, PyTypes
<1>2. /\ ToSet(inputs) = Elems(inputs) /\ (IsInjective(inputs) <=> Once(inputs))
      /\ ToSet(outputs) = Elems(outputs) /\ (IsInjective(outputs) <=> Once(outputs))
      /\ \A e : Contains(outputs, e) <=> e \in Elems(outputs)
  BY <1>1, ListElems
<1> QED
  BY <1>2 DEF PyInv, ListsAgree, Lists

LEMMA ListsAgreeNext ==
  ASSUME inputs' \in Seq(Sockets), outputs' \in Seq(Conns), Lists'
  PROVE  ListsAgree'
<1>1. PICK ins, outs : ins = inputs' /\ outs = outputs'
  OBVIOUS
<1>2. /\ ToSet(ins) = Elems(ins) /\ (IsInjective(ins) <=> Once(ins))
      /\ ToSet(outs) = Elems(outs) /\ (IsInjective(outs) <=> Once(outs))
      /\ \A e : Contains(outs, e) <=> e \in Elems(outs)
  BY <1>1, ListElems
<1> QED
  BY <1>1, <1>2 DEF ListsAgree, Lists

(* An action of a loop that does not end the server.                          *)
LEMMA LoopStep ==
  ASSUME PyInv, loop \in Loops, Done, urgent' = urgent, \A c : Known(c) => Known(c)',
         backlog' = backlog \/ (loop = "readable" /\ S = Master), EnvInv',
         inputs' \in Seq(Sockets), outputs' \in Seq(Conns), Lists', FillsOnly
  PROVE  PyInv'
<1>1. /\ todo' \in Returns /\ loop' \in Loops \cup {"select"}
      /\ MoreToDo' /\ MasterOnce' /\ NoneForgotten' /\ RoomLasts'
  BY DoneKeeps
<1>2. (DOMAIN msg_queue)' \subseteq Conns
  BY DEF Lists
<1>3. PyTypes'
  BY <1>1, <1>2 DEF PyInv, PyTypes, Sockets, Returns
<1>4. CrashOnlyByDeparture'
  BY <1>1 DEF CrashOnlyByDeparture, Loops
<1> QED
  BY <1>1, <1>3, <1>4, ListsAgreeNext DEF PyInv

LEMMA InitPy == PyInit => PyInv
<1> SUFFICES ASSUME PyInit PROVE PyInv
  OBVIOUS
<1>1. EnvInv
  BY EnvStart DEF PyInit
<1>2. /\ Len(inputs) = 1 /\ inputs[1] = Master /\ inputs \in Seq(Sockets)
      /\ outputs = <<>> /\ outputs \in Seq(Conns) /\ DOMAIN msg_queue = {}
  BY EmptyElems DEF PyInit, Sockets
<1>3. Once(inputs) /\ Elems(inputs) = {Master} /\ Once(outputs) /\ Elems(outputs) = {}
  <2>1. Elems(inputs) = {Master}
    BY <1>2 DEF Elems
  <2>2. Once(inputs)
    BY <1>2 DEF Once
  <2> QED
    BY <1>2, <2>1, <2>2, EmptyElems
<1>4. todo = Nothing /\ todo.readable = <<>> /\ todo.writable = <<>> /\ todo.exceptional = <<>>
      /\ todo \in Returns
  BY EmptyElems DEF PyInit, Nothing, Returns
<1>5. PyTypes /\ MoreToDo
  BY <1>2 , <1>4 DEF PyInit, PyTypes, MoreToDo
<1>6. MasterOnce /\ NoneForgotten
  BY <1>4, EmptyElems DEF MasterOnce, NoneForgotten
<1>7. \A c \in Conns : FdOf(c) = {}
  BY DEF PyInit, EnvInit, FdOf, OpenFds
<1>8. ListsAgree
  <2>1. inputs \in Seq(Sockets) /\ outputs \in Seq(Conns)
    BY <1>2
  <2>2. /\ ToSet(inputs) = Elems(inputs) /\ (IsInjective(inputs) <=> Once(inputs))
        /\ ToSet(outputs) = Elems(outputs) /\ (IsInjective(outputs) <=> Once(outputs))
    BY <2>1, ListElems
  <2> QED
    BY <1>2, <1>3, <1>7, <2>2 DEF ListsAgree
<1>9. CrashOnlyByDeparture
  BY DEF PyInit, CrashOnlyByDeparture
<1>10. RoomLasts
  BY <1>4, EmptyElems, ReplyAssumption DEF PyInit, RepliesInit, RepliesTypeOK, RoomLasts
<1> QED
  BY <1>1, <1>5, <1>6, <1>8, <1>9, <1>10 DEF PyInv

(* Nothing is left of the lists and descriptors when the server has ended.    *)
LEMMA EndsPyI ==
  ASSUME PyInv, NEW how \in {"timeout", "crashed"}, Ends(how),
         how = "crashed" => \/ \E c \in Conns : Departed(c)
                            \/ Cardinality({c \in Conns : peer[c] # "none"}) > MaxFds
  PROVE  PyInv'
<1>1. EnvInv'
  <2>1. /\ backlog' = <<>> /\ Len(backlog') = 0 /\ owner' = [fd \in Fds |-> None]
        /\ UNCHANGED <<unread, sent, peer>> /\ backlog' \in Seq(Conns)
    BY EmptyElems DEF Ends
  <2> QED
    BY <2>1, EnvAssumption
       DEF PyInv, EnvInv, EnvTypeOK, Made, OneOwner, QueuedOnce, NotBoth, NoMoreThanSent
<1>2. /\ loop' = how /\ todo' = Nothing /\ inputs' = <<>> /\ outputs' = <<>>
      /\ (DOMAIN msg_queue)' = {} /\ urgent' = urgent /\ peer' = peer
  BY DEF Ends
<1>3. /\ todo'.readable = <<>> /\ todo'.writable = <<>> /\ todo'.exceptional = <<>>
      /\ todo' \in Returns
  BY <1>2, EmptyElems DEF Nothing, Returns
<1>4. PyTypes'
  BY <1>2, <1>3, EmptyElems DEF PyInv, PyTypes, Returns, Sockets
<1>5. MoreToDo'
  BY <1>2 DEF MoreToDo
<1>6. MasterOnce' /\ NoneForgotten'
  BY <1>3, EmptyElems DEF MasterOnce, NoneForgotten
<1>7. ListsAgree'
  BY <1>2 DEF ListsAgree, Running
<1>8. CrashOnlyByDeparture'
  BY <1>2 DEF CrashOnlyByDeparture, Departed
<1>9. RoomLasts'
  <2>1. RepliesTypeOK'
    BY DEF Ends, PyInv, RoomLasts, RepliesTypeOK
  <2> QED
    BY <1>3, <2>1, EmptyElems DEF RoomLasts
<1> QED
  BY <1>1, <1>4, <1>5, <1>6, <1>7, <1>8, <1>9 DEF PyInv

LEMMA SelectPyI == ASSUME PyInv, PySelect PROVE PyInv'
<1>1. /\ UNCHANGED <<envVars, replies, lists, urgent>> /\ loop = "select"
      /\ todo' = PyReady /\ loop' = After(PyReady) /\ Lists
      /\ inputs \in Seq(Sockets) /\ outputs \in Seq(Conns)
  BY AgreeLists DEF PySelect, Running, PyInv, PyTypes
<1>2. PICK K, r, e, w : /\ K = {s \in ToSet(inputs) : Readable(Fd(s))}
                        /\ r = Kept(inputs, K) /\ e = Kept(inputs, urgent) /\ w = Writable
  OBVIOUS
<1>3. r \in Seq(Sockets) /\ Elems(r) = Elems(inputs) \cap K /\ Once(r)
  BY <1>1, <1>2, KeptProperties DEF Lists
<1>4. e \in Seq(Sockets) /\ Elems(e) = Elems(inputs) \cap urgent
  BY <1>1, <1>2, KeptProperties
<1>5. /\ w \in Seq(Sockets) /\ Once(w)
      /\ Elems(w) = Elems(outputs) \cap {s \in Conns : ~Full(s)}
  <2>1. /\ w \in Seq(Conns) /\ Once(w)
        /\ Elems(w) = Elems(outputs) \cap {s \in Conns : ~Full(s)}
    BY <1>1, <1>2, KeptProperties DEF Lists, Writable
  <2> QED
    BY <2>1 DEF Sockets
<1>6. /\ todo' \in Returns /\ todo'.readable = r /\ todo'.writable = w
      /\ todo'.exceptional = e
  BY <1>1, <1>2, <1>3, <1>4, <1>5 DEF PyReady, Returns
<1>7. loop' \in Loops \cup {"select"} /\ MoreToDo'
  <2>1. PICK t : t = todo'
    OBVIOUS
  <2>2. loop' = After(t)
    BY <1>1, <2>1
  <2> QED
    BY <2>1, <2>2, AfterIs DEF MoreToDo
<1>8. EnvInv' /\ PyTypes'
  BY <1>1, <1>6, <1>7 DEF PyInv, EnvInv, EnvTypeOK, Made, OneOwner, QueuedOnce, NotBoth,
     NoMoreThanSent, PyTypes, lists, envVars, Returns, Sockets
<1>9. MasterOnce'
  <2>1. Master \in K => Readable(Listener)
    BY <1>2, SocketNumbers DEF Fd
  <2>2. Master \in K => backlog # <<>>
    BY <2>1 DEF Readable
  <2> QED
    BY <1>1, <1>3, <1>6, <2>2, SocketNumbers DEF MasterOnce, envVars
<1>10. NoneForgotten'
  <2>1. \A s : Known(s)' <=> Known(s)
    BY <1>1 DEF Known, Departed, envVars, lists
  <2>2. \A s \in Elems(inputs) : s = Master \/ Known(s)
    BY <1>1 DEF Lists, Known
  <2>3. \A s \in Elems(outputs) : Known(s)
    BY <1>1 DEF Lists, Known
  <2> QED
    BY <1>1, <1>3, <1>4, <1>5, <1>6, <2>1, <2>2, <2>3, SocketNumbers DEF NoneForgotten
<1>11. ListsAgree'
  BY <1>1 DEF PyInv, ListsAgree, Running, lists, envVars, FdOf, OpenFds
<1>12. CrashOnlyByDeparture'
  BY <1>7 DEF CrashOnlyByDeparture, Loops
<1>13. RoomLasts'
  <2>1. RepliesTypeOK'
    BY <1>1 DEF PyInv, RoomLasts, RepliesTypeOK
  <2>2. \A s \in Conns : Full(s)' <=> Full(s)
    BY <1>1 DEF Full, envVars
  <2> QED
    BY <1>5, <1>6, <2>1, <2>2 DEF RoomLasts
<1> QED
  BY <1>7, <1>8, <1>9, <1>10, <1>11, <1>12, <1>13 DEF PyInv

-----------------------------------------------------------------------------
(* accept().                                                                  *)
LEMMA AcceptPyI == ASSUME PyInv, PyAccept PROVE PyInv'
<1>1. loop = "readable" /\ loop \in Loops /\ S = Master /\ Lists /\ EnvInv
      /\ inputs \in Seq(Sockets) /\ outputs \in Seq(Conns)
  BY AgreeLists DEF PyAccept, At, Loops, Running, PyInv, PyTypes
<1>2. PICK fd \in Fds : AcceptInto(fd)
  BY DEF PyAccept
<1>3. PICK h : h = Head(backlog)
  OBVIOUS
<1>4. /\ inputs' = Append(inputs, h) /\ Done
      /\ msg_queue' = [d \in DOMAIN msg_queue \cup {h} |-> IF d = h THEN <<>> ELSE msg_queue[d]]
      /\ UNCHANGED <<outputs, unread, sent, peer, replies, urgent>>
  BY <1>3 DEF PyAccept
<1>5. /\ owner[fd] = None /\ h \in Conns
      /\ \A f \in Fds : owner'[f] = IF f = fd THEN h ELSE owner[f]
  BY <1>1, <1>2, <1>3, AcceptGives
<1>6. EnvInv'
  BY <1>1, <1>2, <1>4, AcceptEnv
<1>7. (DOMAIN msg_queue)' = DOMAIN msg_queue \cup {h}
      /\ (\A c \in (DOMAIN msg_queue)' : c = h \/ msg_queue'[c] = msg_queue[c])
      /\ msg_queue'[h] = <<>>
  BY <1>4
<1>8. h \notin DOMAIN msg_queue
  <2>1. backlog # <<>> /\ backlog \in Seq(Conns)
    BY <1>1, <1>2 DEF AcceptInto, EnvInv, EnvTypeOK
  <2>2. 1 \in 1..Len(backlog) /\ h = backlog[1]
    BY <1>3, <2>1, TailElems
  <2>3. \A f \in Fds : owner[f] # h
    BY <1>1, <2>2 DEF EnvInv, NotBoth
  <2> QED
    BY <1>1, <1>5, <2>3, HasFd DEF Lists
<1>9. \A c \in Conns : (FdOf(c) # {})' <=> FdOf(c) # {} \/ c = h
  <2>1. ASSUME NEW c \in Conns
        PROVE  (FdOf(c) # {})' <=> \E f \in Fds : owner'[f] = c
    BY <2>1, SocketNumbers DEF FdOf, OpenFds
  <2> QED
    BY <1>5, <2>1, HasFd, SocketNumbers
<1>10. inputs' \in Seq(Sockets) /\ Once(inputs)' /\ Elems(inputs)' = Elems(inputs) \cup {h}
  <2>1. h \in Sockets /\ h \notin Elems(inputs)
    BY <1>1, <1>5, <1>8, SocketNumbers DEF Lists, Sockets
  <2> QED
    BY <1>1, <1>4, <2>1, AppendElems DEF Lists
<1>11. Lists'
  <2>1. (DOMAIN msg_queue)' = {c \in Conns : (FdOf(c) # {})'}
    BY <1>1, <1>5, <1>7, <1>9 DEF Lists
  <2>2. Elems(inputs)' = {Master} \cup (DOMAIN msg_queue)'
    BY <1>1, <1>7, <1>10 DEF Lists
  <2>3. Once(outputs)' /\ Elems(outputs)' \subseteq (DOMAIN msg_queue)'
    BY <1>1, <1>4, <1>7 DEF Lists
  <2>4. \A c \in (DOMAIN msg_queue)' : msg_queue'[c] # <<>> => c \in Elems(outputs)'
    BY <1>1, <1>4, <1>7 DEF Lists
  <2> QED
    BY <1>10, <2>1, <2>2, <2>3, <2>4, SocketNumbers DEF Lists
<1>12. \A c : Known(c) => Known(c)'
  BY <1>4, <1>7 DEF Known, Departed
<1> QED
  BY <1>1, <1>4, <1>6, <1>10, <1>11, <1>12, LoopStep, NoneFills

(* When accept() fails for want of a descriptor, every descriptor is behind a *)
(* connection and one more waits.                                             *)
LEMMA MoreThanDescriptors ==
  ASSUME EnvInv, FreeFds = {}, backlog # <<>>
  PROVE  Cardinality({c \in Conns : peer[c] # "none"}) > MaxFds
<1> DEFINE M == {c \in Conns : peer[c] # "none"}
<1>1. PICK h : h = Head(backlog)
  OBVIOUS
<1>2. 1 \in 1..Len(backlog) /\ h = backlog[1] /\ h \in Conns
  <2>1. backlog \in Seq(Conns)
    BY DEF EnvInv, EnvTypeOK
  <2> QED
    BY <1>1, <2>1, TailElems
<1>3. h \in M /\ \A f \in Fds : owner[f] # h
  BY <1>2 DEF EnvInv, Made, NotBoth
<1>4. \A f \in Fds : owner[f] # None /\ owner[f] \in M
  BY DEF FreeFds, OpenFds, EnvInv, EnvTypeOK, Made
<1>5. owner \in Injection(Fds, M \ {h})
  <2>1. owner \in [Fds -> M \ {h}]
    BY <1>3, <1>4 DEF EnvInv, EnvTypeOK
  <2>2. \A f, g \in Fds : owner[f] = owner[g] => f = g
    BY <1>4 DEF EnvInv, OneOwner
  <2> QED
    BY <2>1, <2>2 DEF Injection, IsInjective
<1>6. IsFiniteSet(M) /\ Cardinality(M) \in Nat
  <2>1. IsFiniteSet(Conns)
    BY EnvAssumption, FS_Interval DEF Conns
  <2>2. M \in SUBSET Conns
    OBVIOUS
  <2> QED
    BY <2>1, <2>2, FS_Subset, FS_CardinalityType
<1>7. IsFiniteSet(M \ {h}) /\ Cardinality(M \ {h}) = Cardinality(M) - 1
  <2> HIDE DEF M
  <2> QED
    BY <1>3, <1>6, FS_RemoveElement
<1>8. Cardinality(Fds) = MaxFds
  BY EnvAssumption, FS_Interval DEF Fds
<1>9. Cardinality(Fds) <= Cardinality(M \ {h})
  <2> HIDE DEF M
  <2> QED
    BY <1>5, <1>7, FS_Injection
<1> QED
  BY <1>6, <1>7, <1>8, <1>9, EnvAssumption

LEMMA AcceptFailsPyI == ASSUME PyInv, PyAcceptFails PROVE PyInv'
<1>1. loop = "readable" /\ loop \in Loops /\ S = Master /\ EnvInv /\ Ends("crashed")
      /\ (FreeFds = {} \/ peer[Head(backlog)] = "rst")
  BY DEF PyAcceptFails, At, Loops, PyInv
<1>2. backlog # <<>>
  BY <1>1, CurrentIs DEF PyInv, MasterOnce
<1>3. Head(backlog) \in Conns
  BY <1>1, <1>2 DEF EnvInv, EnvTypeOK
<1>4. \/ \E c \in Conns : Departed(c)
      \/ Cardinality({c \in Conns : peer[c] # "none"}) > MaxFds
  BY <1>1, <1>2, <1>3, MoreThanDescriptors DEF Departed
<1> QED
  BY <1>1, <1>4, EndsPyI

-----------------------------------------------------------------------------
(* A loop raises an exception only at a client that has departed: the queue   *)
(* and the socket of any other are there.                                     *)
LEMMA FailedDeparted ==
  ASSUME PyInv, Running, Known(S), Failed(S)
  PROVE  \E c \in Conns : Departed(c)
<1>1. S \in Conns /\ (S \in DOMAIN msg_queue \/ Departed(S))
  BY DEF Known
<1>2. S \in DOMAIN msg_queue => FdOf(S) # {}
  BY AgreeLists DEF Lists
<1> QED
  BY <1>1, <1>2 DEF Failed, Departed

LEMMA FailsPyI == ASSUME PyInv, RecvFails \/ WriteFails \/ ExceptFails PROVE PyInv'
<1>1. loop \in Loops /\ Running /\ Failed(S) /\ Ends("crashed")
  <2>1. WriteFails => Failed(S)
    BY CurrentIs DEF WriteFails, Writes, At, Loops
  <2> QED
    BY <2>1 DEF RecvFails, WriteFails, ExceptFails, At, Loops, Running
<1>2. Known(S)
  BY CurrentIs, <1>1 DEF RecvFails, WriteFails, ExceptFails, At
<1>3. \E c \in Conns : Departed(c)
  BY <1>1, <1>2, FailedDeparted
<1> QED
  BY <1>1, <1>3, EndsPyI

(* What holds of the socket a loop works on.                                  *)
LEMMA WorksOn ==
  ASSUME PyInv, loop \in Loops, ~Failed(S), S # Master
  PROVE  /\ S \in Conns /\ S \in DOMAIN msg_queue /\ Lists /\ EnvInv
         /\ Fd(S) \in OpenFds /\ Fd(S) \in Fds /\ owner[Fd(S)] = S
         /\ inputs \in Seq(Sockets) /\ outputs \in Seq(Conns)
<1>1. Lists /\ EnvInv /\ inputs \in Seq(Sockets) /\ outputs \in Seq(Conns)
  BY AgreeLists DEF PyInv, PyTypes, Running, Loops
<1>2. S \in DOMAIN msg_queue /\ S \in Conns /\ FdOf(S) # {}
  BY <1>1 DEF Failed, Lists
<1> QED
  BY <1>1, <1>2, FdIs

(* A connection that is dropped leaves both lists, the queues and the table   *)
(* of descriptors.                                                            *)
LEMMA DropI ==
  ASSUME PyInv, loop \in Loops, ~Failed(S), S # Master, Drop(S), Done, Departed(S),
         UNCHANGED <<backlog, unread, peer, replies, sent, urgent>>
  PROVE  PyInv'
<1>1. /\ S \in Conns /\ S \in DOMAIN msg_queue /\ Lists /\ EnvInv
      /\ Fd(S) \in OpenFds /\ Fd(S) \in Fds /\ owner[Fd(S)] = S
      /\ inputs \in Seq(Sockets) /\ outputs \in Seq(Conns)
  BY WorksOn
<1>2. PICK c, fd : c = S /\ fd = Fd(S)
  OBVIOUS
<1>3. /\ inputs' = RemoveFirst(inputs, c) /\ outputs' = RemoveFirst(outputs, c)
      /\ msg_queue' = [d \in DOMAIN msg_queue \ {c} |-> msg_queue[d]] /\ CloseFd(fd)
  BY <1>2 DEF Drop, OutputsAfterDrop
<1>4. EnvInv'
  BY <1>1, <1>2, <1>3, CloseEnv
<1>5. \A f \in Fds : owner'[f] = IF f = fd THEN None ELSE owner[f]
  BY <1>3 DEF CloseFd, EnvInv, EnvTypeOK, PyInv
<1>6. (DOMAIN msg_queue)' = DOMAIN msg_queue \ {c}
      /\ \A d \in (DOMAIN msg_queue)' : msg_queue'[d] = msg_queue[d]
  BY <1>3
<1>7. \A d \in Conns : (FdOf(d) # {})' <=> FdOf(d) # {} /\ d # c
  <2>1. ASSUME NEW d \in Conns
        PROVE  (FdOf(d) # {})' <=> \E f \in Fds : owner'[f] = d
    BY <2>1, SocketNumbers DEF FdOf, OpenFds
  <2>2. \A f \in Fds : owner[f] = c => f = fd
    BY <1>1, <1>2, SocketNumbers DEF EnvInv, OneOwner
  <2> QED
    BY <1>1, <1>2, <1>5, <2>1, <2>2, HasFd, SocketNumbers
<1>8. inputs' \in Seq(Sockets) /\ Once(inputs)' /\ Elems(inputs)' = Elems(inputs) \ {c}
  BY <1>1, <1>3, RemoveFirstElems DEF Lists
<1>9. outputs' \in Seq(Conns) /\ Once(outputs)' /\ Elems(outputs)' = Elems(outputs) \ {c}
  BY <1>1, <1>3, RemoveFirstElems DEF Lists
<1>10. Lists'
  <2>1. (DOMAIN msg_queue)' = {d \in Conns : (FdOf(d) # {})'}
    BY <1>1, <1>6, <1>7 DEF Lists
  <2>2. Elems(inputs)' = {Master} \cup (DOMAIN msg_queue)'
    BY <1>1, <1>2, <1>6, <1>8, SocketNumbers DEF Lists
  <2>3. Elems(outputs)' \subseteq (DOMAIN msg_queue)'
    BY <1>1, <1>6, <1>9 DEF Lists
  <2>4. \A d \in (DOMAIN msg_queue)' : msg_queue'[d] # <<>> => d \in Elems(outputs)'
    BY <1>1, <1>6, <1>9 DEF Lists
  <2> QED
    BY <1>8, <1>9, <2>1, <2>2, <2>3, <2>4, SocketNumbers DEF Lists
<1>11. \A d : Known(d) => Known(d)'
  BY <1>2, <1>6 DEF Known, Departed
<1> QED
  BY <1>4, <1>8, <1>9, <1>10, <1>11, LoopStep, NoneFills

(* Queues and outputs change, sockets and inputs do not.                      *)
LEMMA QueueStep ==
  ASSUME PyInv, loop \in Loops, Lists, Done, UNCHANGED <<inputs, backlog, owner, peer, urgent>>, EnvInv',
         (DOMAIN msg_queue)' = DOMAIN msg_queue, FillsOnly,
         outputs' \in Seq(Conns), Once(outputs)', Elems(outputs)' \subseteq DOMAIN msg_queue,
         \A c \in DOMAIN msg_queue : msg_queue'[c] # <<>> => c \in Elems(outputs)'
  PROVE  PyInv'
<1>1. Lists'
  <2>1. Elems(inputs)' = Elems(inputs) /\ Once(inputs)'
    BY DEF Lists
  <2>2. \A c : FdOf(c)' = FdOf(c)
    BY DEF FdOf, OpenFds
  <2> QED
    BY <2>1, <2>2, SocketNumbers DEF Lists
<1>2. \A c : Known(c) => Known(c)'
  BY DEF Known, Departed
<1>3. inputs' \in Seq(Sockets)
  BY DEF PyInv, PyTypes
<1> QED
  BY <1>1, <1>2, <1>3, LoopStep

LEMMA RecvPyI == ASSUME PyInv, PyRecv PROVE PyInv'
<1>1. loop = "readable" /\ loop \in Loops /\ S # Master /\ ~Failed(S) /\ Done
      /\ UNCHANGED <<backlog, peer, replies, sent, urgent>>
  BY DEF PyRecv, At, Loops, world
<1>2. /\ S \in Conns /\ S \in DOMAIN msg_queue /\ Lists /\ EnvInv
      /\ Fd(S) \in OpenFds /\ Fd(S) \in Fds /\ owner[Fd(S)] = S
      /\ inputs \in Seq(Sockets) /\ outputs \in Seq(Conns)
  BY <1>1, WorksOn
<1>3. PICK c, fd : c = S /\ fd = Fd(S)
  OBVIOUS
<1>4. PICK n \in RecvResults(fd) :
        IF n > 0
          THEN /\ unread' = AfterRecv(fd, n)
               /\ msg_queue' = [msg_queue EXCEPT ![c] = Append(@, n)]
               /\ outputs' = OutputsAfterPut(c)
               /\ UNCHANGED <<inputs, owner>>
          ELSE Drop(S) /\ UNCHANGED unread
  BY <1>3 DEF PyRecv
<1>5. CASE n > 0
  <2>1. EnvInv'
    BY <1>1, <1>2, <1>3, <1>4, <1>5, RecvEnv
  <2>2. (DOMAIN msg_queue)' = DOMAIN msg_queue
        /\ \A d \in DOMAIN msg_queue : d = c \/ msg_queue'[d] = msg_queue[d]
    BY <1>4, <1>5
  <2>3. outputs' \in Seq(Conns) /\ Once(outputs)' /\ Elems(outputs)' = Elems(outputs) \cup {c}
    <3>1. Contains(outputs, c) <=> c \in Elems(outputs)
      BY <1>2, ListElems
    <3>2. CASE c \in Elems(outputs)
      <4>1. outputs' = outputs
        BY <1>4, <1>5, <3>1, <3>2 DEF OutputsAfterPut
      <4> QED
        BY <1>2, <3>2, <4>1 DEF Lists
    <3>3. CASE c \notin Elems(outputs)
      <4>1. outputs' = Append(outputs, c)
        BY <1>4, <1>5, <3>1, <3>3 DEF OutputsAfterPut
      <4> QED
        BY <1>2, <1>3, <3>3, <4>1, AppendElems DEF Lists
    <3> QED
      BY <3>2, <3>3
  <2>4. /\ Elems(outputs)' \subseteq DOMAIN msg_queue
        /\ \A d \in DOMAIN msg_queue : msg_queue'[d] # <<>> => d \in Elems(outputs)'
    BY <1>2, <1>3, <2>2, <2>3 DEF Lists
  <2> QED
    BY <1>1, <1>2, <1>4, <1>5, <2>1, <2>2, <2>3, <2>4, QueueStep, NoneFills
<1>6. CASE ~(n > 0)
  <2>1. Departed(S)
    <3>1. peer[S] \in {"fin", "rst"}
      BY <1>2, <1>3, <1>4, <1>6 DEF RecvResults
    <3> QED
      BY <3>1 DEF Departed
  <2> QED
    BY <1>1, <1>4, <1>6, <2>1, DropI
<1> QED
  BY <1>5, <1>6

LEMMA QueueEmptyPyI == ASSUME PyInv, QueueEmpty PROVE PyInv'
<1>1. /\ loop = "writable" /\ loop \in Loops /\ ~Failed(S) /\ Done /\ msg_queue[S] = <<>>
      /\ outputs' = RemoveFirst(outputs, S) /\ msg_queue' = msg_queue
      /\ UNCHANGED <<envVars, replies, inputs, urgent>>
  BY DEF QueueEmpty, QueuesAfterEmpty, At, Loops
<1>2. S # Master
  BY <1>1, CurrentIs, SocketNumbers DEF Known
<1>3. S \in DOMAIN msg_queue /\ Lists /\ EnvInv /\ outputs \in Seq(Conns)
  BY <1>1, <1>2, WorksOn
<1>4. outputs' \in Seq(Conns) /\ Once(outputs)' /\ Elems(outputs)' = Elems(outputs) \ {S}
  BY <1>1, <1>3, RemoveFirstElems DEF Lists
<1>5. EnvInv'
  BY <1>1, <1>3 DEF EnvInv, EnvTypeOK, Made, OneOwner, QueuedOnce, NotBoth, NoMoreThanSent, envVars
<1>6. /\ Elems(outputs)' \subseteq DOMAIN msg_queue
      /\ \A d \in DOMAIN msg_queue : msg_queue'[d] # <<>> => d \in Elems(outputs)'
  BY <1>1, <1>3, <1>4 DEF Lists
<1> QED
  BY <1>1, <1>3, <1>4, <1>5, <1>6, QueueStep, NoneFills DEF envVars

LEMMA SendPyI == ASSUME PyInv, Send PROVE PyInv'
<1>1. /\ loop = "writable" /\ loop \in Loops /\ ~Failed(S) /\ Done /\ msg_queue[S] # <<>>
      /\ msg_queue' = [msg_queue EXCEPT ![S] = Tail(@)]
      /\ UNCHANGED <<envVars, inputs, outputs, urgent>>
  BY DEF Send, At, Loops
<1>2. S # Master
  BY <1>1, CurrentIs, SocketNumbers DEF Known
<1>3. S \in DOMAIN msg_queue /\ Lists /\ EnvInv /\ outputs \in Seq(Conns)
  BY <1>1, <1>2, WorksOn
<1>4. EnvInv'
  BY <1>1, <1>3 DEF EnvInv, EnvTypeOK, Made, OneOwner, QueuedOnce, NotBoth, NoMoreThanSent, envVars
<1>5. (DOMAIN msg_queue)' = DOMAIN msg_queue
      /\ \A d \in DOMAIN msg_queue : d = S \/ msg_queue'[d] = msg_queue[d]
  BY <1>1
<1>6. Once(outputs)' /\ Elems(outputs)' = Elems(outputs)
  BY <1>1, <1>3 DEF Lists
<1>7. /\ Elems(outputs)' \subseteq DOMAIN msg_queue
      /\ \A d \in DOMAIN msg_queue : msg_queue'[d] # <<>> => d \in Elems(outputs)'
  BY <1>1, <1>3, <1>5, <1>6 DEF Lists
<1>8. FillsOnly
  <2>1. PICK n \in 0..Head(msg_queue[S]) : Queue(S, n)
    BY DEF Send
  <2>2. n \in Nat /\ RepliesTypeOK
    BY <2>1 DEF PyInv, RoomLasts
  <2> QED
    BY <1>1, <2>1, <2>2, QueueTypes DEF FillsOnly, envVars
<1> QED
  BY <1>1, <1>3, <1>4, <1>5, <1>6, <1>7, <1>8, QueueStep DEF envVars

LEMMA ExceptPyI == ASSUME PyInv, Except PROVE PyInv'
<1>1. loop = "exceptional" /\ loop \in Loops /\ ~Failed(S) /\ Done /\ Drop(S)
      /\ UNCHANGED <<backlog, unread, peer, replies, sent, urgent>>
  BY DEF Except, At, Loops, world
<1>2. S # Master /\ Departed(S)
  BY <1>1, CurrentIs, SocketNumbers DEF Known, Departed
<1> QED
  BY <1>1, <1>2, DropI

-----------------------------------------------------------------------------
(* The clients: none comes back once it has departed, and none takes its      *)
(* connection off the backlog.                                                *)
LEMMA ClientsPyI == ASSUME PyInv, Clients PROVE PyInv'
<1>1. Running /\ UNCHANGED <<loop, inputs, outputs, msg_queue, todo>> /\ EnvInv
  BY DEF Clients, lists, PyInv
<1>2. PICK c \in Conns :
        \/ ClientStep(c) /\ UNCHANGED <<replies, urgent>>
        \/ Takes(c) /\ UNCHANGED envVars /\ UNCHANGED urgent
        \/ urgent' = urgent \cup {c} /\ UNCHANGED <<envVars, replies>>
  BY DEF Clients, ClientStep, Takes
<1>3. EnvInv'
  <2>1. CASE ClientStep(c)
    BY <1>1, <2>1, ClientEnv
  <2>2. CASE UNCHANGED envVars
    BY <1>1, <2>2 DEF EnvInv, EnvTypeOK, Made, OneOwner, QueuedOnce, NotBoth, NoMoreThanSent, envVars
  <2> QED
    BY <1>2, <2>1, <2>2
<1>4. owner' = owner /\ urgent \subseteq urgent' /\ urgent' \subseteq urgent \cup {c}
  BY <1>2 DEF ClientStep, Connect, SendMsg, Leave, ResetBy, envVars
<1>5. \A d \in Conns : peer[d] \in {"fin", "rst"} => peer'[d] \in {"fin", "rst"}
  BY <1>1, <1>2 DEF ClientStep, Connect, SendMsg, Leave, ResetBy, envVars, EnvInv, EnvTypeOK
<1>6. backlog # <<>> => backlog' # <<>>
  <2>1. backlog' = backlog \/ backlog' = Append(backlog, c)
    BY <1>2 DEF ClientStep, Connect, SendMsg, Leave, ResetBy, envVars
  <2>2. backlog \in Seq(Conns)
    BY <1>1 DEF EnvInv, EnvTypeOK
  <2> QED
    BY <2>1, <2>2
<1>7. PyTypes'
  BY <1>1, <1>4 DEF PyInv, PyTypes, Returns, Sockets
<1>8. MoreToDo'
  BY <1>1 DEF PyInv, MoreToDo
<1>9. MasterOnce'
  BY <1>1, <1>6 DEF PyInv, MasterOnce
<1>10. NoneForgotten'
  <2>1. \A s : Known(s) => Known(s)'
    BY <1>1, <1>4, <1>5 DEF Known, Departed
  <2> QED
    BY <1>1, <1>4, <2>1 DEF PyInv, NoneForgotten
<1>11. ListsAgree'
  <2>1. \A d : FdOf(d)' = FdOf(d)
    BY <1>4 DEF FdOf, OpenFds
  <2> QED
    BY <1>1, <2>1 DEF PyInv, ListsAgree, Running
<1>12. CrashOnlyByDeparture'
  BY <1>1 DEF CrashOnlyByDeparture, Running
<1>13. RoomLasts'
  <2>1. RepliesTypeOK /\ ReplyRoom \in Nat
    BY ReplyAssumption DEF PyInv, RoomLasts
  <2>2. RepliesTypeOK' /\ \A d \in Conns : replies'[d] = replies[d] \/ replies'[d] < ReplyRoom
    <3>1. UNCHANGED replies =>
            RepliesTypeOK' /\ \A d \in Conns : replies'[d] = replies[d] \/ replies'[d] < ReplyRoom
      BY <2>1 DEF RepliesTypeOK
    <3> QED
      BY <1>2, <2>1, <3>1, TakesTypes
  <2>3. \A d \in Conns : peer[d] = "rst" => peer'[d] = "rst"
    BY <1>1, <1>2 DEF ClientStep, Connect, SendMsg, Leave, ResetBy, envVars, EnvInv, EnvTypeOK
  <2>4. \A d \in Conns : ~Full(d) => ~Full(d)'
    BY <2>1, <2>2, <2>3 DEF Full
  <2> QED
    BY <1>1, <2>2, <2>4 DEF PyInv, RoomLasts
<1> QED
  BY <1>3, <1>7, <1>8, <1>9, <1>10, <1>11, <1>12, <1>13 DEF PyInv

LEMMA NextPy == PyInv /\ [PyNext]_pyVars => PyInv'
<1> SUFFICES ASSUME PyInv, [PyNext]_pyVars PROVE PyInv'
  OBVIOUS
<1>1. CASE Timeout
  <2>1. Ends("timeout")
    BY <1>1 DEF Timeout
  <2> QED
    BY <2>1, EndsPyI
<1>2. CASE UNCHANGED pyVars
  <2>1. UNCHANGED <<envVars, replies, loop, inputs, outputs, msg_queue, todo, urgent>>
    BY <1>2 DEF pyVars, lists
  <2>2. EnvInv'
    BY <2>1 DEF PyInv, EnvInv, EnvTypeOK, Made, OneOwner, QueuedOnce, NotBoth, NoMoreThanSent,
                envVars
  <2>3. PyTypes' /\ MoreToDo' /\ MasterOnce'
    BY <2>1 DEF PyInv, PyTypes, MoreToDo, MasterOnce, envVars
  <2>4. NoneForgotten'
    BY <2>1 DEF PyInv, NoneForgotten, Known, Departed, envVars
  <2>5. ListsAgree'
    BY <2>1 DEF PyInv, ListsAgree, Running, FdOf, OpenFds, envVars
  <2>6. CrashOnlyByDeparture' /\ RoomLasts'
    BY <2>1 DEF PyInv, CrashOnlyByDeparture, RoomLasts, RepliesTypeOK, Full, envVars
  <2> QED
    BY <2>2, <2>3, <2>4, <2>5, <2>6 DEF PyInv
<1> QED
  BY <1>1, <1>2, SelectPyI, AcceptPyI, AcceptFailsPyI, RecvPyI, FailsPyI, QueueEmptyPyI, SendPyI,
     ExceptPyI, ClientsPyI DEF PyNext, PyServer

LEMMA InductivePy == PySpec => []PyInv
  BY InitPy, NextPy, PTL DEF PySpec

(* The lists inputs and outputs, the queues and the open sockets of the       *)
(* Python server agree at every element of its three loops, for any number of *)
(* clients, descriptors and messages.                                         *)
THEOREM PyListsAgree == PySpec => []ListsAgree
<1>1. PyInv => ListsAgree
  BY DEF PyInv
<1> QED
  BY <1>1, InductivePy, PTL

(* The exceptions nobody catches (KeyError for a queue that is gone, OSError  *)
(* for a socket) end the server only when a client has left, was reset or     *)
(* sent urgent data, or there are more clients than descriptors; send() never *)
(* finds a queue full that select() saw with room.                            *)
THEOREM PyCrashJustified == PySpec => []CrashOnlyByDeparture
<1>1. PyInv => CrashOnlyByDeparture
  BY DEF PyInv
<1> QED
  BY <1>1, InductivePy, PTL
=============================================================================

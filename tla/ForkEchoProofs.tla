--------------------------- MODULE ForkEchoProofs ---------------------------
(* Theorems about the forking servers, for any number of connections,         *)
(* messages, processes and datagrams.                                         *)
EXTENDS ForkEcho, TLAPS

(* SIGCHLD is pending, or its handler is running, while a child waits to be   *)
(* collected; the part about child makes the function updates readable.       *)
ZInv == /\ child \in [Conns -> {"none", "start", "read", "write", "zombie", "reaped"}]
        /\ NoZombieForgotten

LEMMA ZInit == Init => ZInv
  BY DEF Init, ServerInit, ZInv, NoZombieForgotten, Zombies

(* The end of a child raises the signal, unless nobody is left to collect it. *)
LEMMA ChildEndsZ == ASSUME ZInv, NEW c \in Conns, ChildEnds(c) PROVE ZInv'
  BY DEF ZInv, ChildEnds, Gone, NoZombieForgotten, Zombies, Reaps, world

LEMMA ChildGoesZ ==
  ASSUME ZInv, NEW c \in Conns, NEW point \in {"read", "write"}, ChildGoes(c, point)
  PROVE  ZInv'
  BY DEF ZInv, ChildGoes, NoZombieForgotten, Zombies, Reaps, world, parentVars

(* The end of the parent leaves no zombie.                                    *)
LEMMA ParentExitsZ == ASSUME ZInv, ParentExits PROVE ZInv'
  BY DEF ZInv, ParentExits, NoZombieForgotten, Zombies

(* A step that leaves child, prog, chld and hdl alone.                        *)
LEMMA OthersZ == ASSUME ZInv, UNCHANGED <<prog, child, chld, hdl>> PROVE ZInv'
  BY DEF ZInv, NoZombieForgotten, Zombies, Reaps

LEMMA ChildZ == ASSUME ZInv, NEW c \in Conns, Child(c) PROVE ZInv'
<1>1. CASE ChildStarts(c)
  BY <1>1, ChildGoesZ DEF ChildStarts
<1>2. CASE ReadData(c)
  BY <1>2, ChildGoesZ, ChildEndsZ DEF ReadData
<1>3. CASE ReadZero(c)
  BY <1>3, ChildGoesZ, ChildEndsZ DEF ReadZero
<1>4. CASE ReadFails(c)
  BY <1>4, ChildEndsZ DEF ReadFails
<1>5. CASE Write(c)
  BY <1>5, ChildGoesZ, ChildEndsZ DEF Write
<1>6. CASE ChildInt(c)
  BY <1>6, ChildEndsZ DEF ChildInt
<1> QED
  BY <1>1, <1>2, <1>3, <1>4, <1>5, <1>6 DEF Child

LEMMA ParentZ == ASSUME ZInv, ParentStep PROVE ZInv'
<1>1. CASE HandlerStarts
  BY <1>1 DEF HandlerStarts, ZInv, NoZombieForgotten
<1>2. CASE Reap
  BY <1>2 DEF Reap, AfterReap, ZInv, NoZombieForgotten, Zombies
<1>3. CASE HandlerEnds
  BY <1>3, ParentExitsZ DEF HandlerEnds, ZInv, NoZombieForgotten, Zombies
<1>4. CASE ParentInt
  BY <1>4, ParentExitsZ DEF ParentInt
<1>5. CASE Select
  BY <1>5, OthersZ DEF Select, world
<1>6. CASE SelectInterrupted
  BY <1>6, OthersZ DEF SelectInterrupted, world
<1>7. CASE Accept
  BY <1>7, OthersZ DEF Accept, world
<1>8. CASE AcceptFails
  BY <1>8, ParentExitsZ DEF AcceptFails
<1>9. CASE Fork
  BY <1>9 DEF Fork, world, ZInv, NoZombieForgotten, Zombies, Reaps
<1>10. CASE ForkFails
  BY <1>10, ParentExitsZ, OthersZ DEF ForkFails, world
<1>11. CASE CloseNew
  BY <1>11, OthersZ DEF CloseNew, world
<1>12. CASE RecvFrom
  BY <1>12, OthersZ DEF RecvFrom, world
<1> QED
  BY <1>1, <1>2, <1>3, <1>4, <1>5, <1>6, <1>7, <1>8, <1>9, <1>10, <1>11, <1>12
     DEF ParentStep

(* Clients, users and the processes of fork_str_cli do not touch the children.*)
LEMMA PairZ == ASSUME ZInv, PairStep PROVE ZInv'
<1>1. UNCHANGED <<prog, child, chld, hdl>>
  BY DEF PairStep, PairConnects, WriterSends, WriterEof, PairWorks, ReaderTakes,
         ReaderKills, ReaderEnds, PairGone, Connect, SendMsg, Leave, serverVars,
         world, parentVars
<1> QED
  BY <1>1, OthersZ

LEMMA EnvZ ==
  ASSUME ZInv, World \/ \E c \in Others : Client(c)
  PROVE  ZInv'
<1>1. UNCHANGED <<prog, child, chld, hdl>>
  BY DEF World, Client, Connect, SendMsg, Leave, SendDgram, Interrupt, world, parentVars
<1> QED
  BY <1>1, OthersZ

LEMMA ZNext == ZInv /\ [Next]_vars => ZInv'
<1> SUFFICES ASSUME ZInv, [Next]_vars PROVE ZInv'
  OBVIOUS
<1>1. CASE Server
  BY <1>1, ChildZ, ParentZ DEF Server
<1>2. CASE PairStep
  BY <1>2, PairZ
<1>3. CASE World \/ \E c \in Others : Client(c)
  BY <1>3, EnvZ
<1>4. CASE UNCHANGED vars
  BY <1>4, OthersZ DEF vars, serverVars, world, parentVars
<1> QED
  BY <1>1, <1>2, <1>3, <1>4 DEF Next

(* A forking server with a handler of SIGCHLD forgets no child, however many  *)
(* connections there are and however their ends fall together: the loop over  *)
(* waitpid() in the handlers makes up for signals that coalesce.              *)
THEOREM NothingForgotten == Spec => []NoZombieForgotten
<1>1. ZInv => NoZombieForgotten
  BY DEF ZInv
<1> QED
  BY <1>1, ZInit, ZNext, PTL DEF Spec
-----------------------------------------------------------------------------
(* Who holds what.  The connection being handed over is in the parent's table *)
(* and the only one there, and a child has no connection but its own; that    *)
(* HeldByChildOnly is preserved by fork() needs the first of these.           *)
HTypes == /\ child \in [Conns -> {"none", "start", "read", "write", "zombie", "reaped"}]
          /\ holds \in [Procs -> SUBSET ({Listener, Udp} \cup Conns)]
          /\ queue \in Seq(Conns) /\ newsock \in {0} \cup Conns
          /\ prog \in Programs
HandedOver == /\ pc \in {"fork", "close"} <=> newsock # 0
              /\ newsock # 0 => newsock \in holds[Parent]
              /\ holds[Parent] \subseteq {Listener, Udp, newsock}
OwnOnly == \A c \in Conns :
             /\ holds[c] \subseteq {Listener, Udp, c}
             /\ child[c] \in {"start", "read", "write"} => c \in holds[c]
             /\ child[c] \in {"read", "write"} => Listener \notin holds[c]
HInv == HTypes /\ HandedOver /\ OwnOnly

LEMMA Numbers == Parent \in Procs /\ Parent \notin Conns /\ Conns \subseteq Procs
                 /\ Listener \notin Conns /\ Udp \notin Conns /\ Listener = 0 /\ Udp # Listener
                 /\ 0 \notin Conns
  BY DEF Parent, Procs, Conns, Listener, Udp

LEMMA HInit == Init => HInv
<1> SUFFICES ASSUME Init PROVE HInv
  OBVIOUS
<1>1. prog.opens \subseteq {Listener, Udp}
  BY DEF Init, ServerInit, Programs, basic_tcp_server, multi_conn_server,
         select_tcp_udp_server, unix_stream_server, unix_stream_credential_server, Program
<1>2. pc \notin {"fork", "close"}
  BY DEF Init, ServerInit, Top
<1>3. queue \in Seq(Conns)
  BY DEF Init, ServerInit
<1> QED
  BY <1>1, <1>2, <1>3, Numbers DEF Init, ServerInit, HInv, HTypes, HandedOver, OwnOnly

LEMMA ChildEndsH == ASSUME HInv, NEW c \in Conns, ChildEnds(c) PROVE HInv'
  BY Numbers DEF HInv, HTypes, HandedOver, OwnOnly, ChildEnds, Gone, world

LEMMA ChildGoesH ==
  ASSUME HInv, NEW c \in Conns, NEW point \in {"read", "write"}, ChildGoes(c, point),
         child[c] \in {"read", "write"}, UNCHANGED holds
  PROVE  HInv'
  BY Numbers DEF HInv, HTypes, HandedOver, OwnOnly, ChildGoes, world, parentVars

LEMMA ChildStartsH == ASSUME HInv, NEW c \in Conns, ChildStarts(c) PROVE HInv'
  BY Numbers DEF HInv, HTypes, HandedOver, OwnOnly, ChildStarts, ChildAt, AfterStart,
                 ChildGoes, world, parentVars

LEMMA ParentExitsH ==
  ASSUME HInv, ParentExits, prog' = prog, queue' \in Seq(Conns)
  PROVE  HInv'
  BY Numbers DEF HInv, HTypes, HandedOver, OwnOnly, ParentExits

(* A step that leaves the tables alone and does not begin or end a hand-over. *)
LEMMA OthersH ==
  ASSUME HInv, UNCHANGED <<prog, child, holds, newsock>>, queue' \in Seq(Conns),
         pc \in {"fork", "close"} <=> pc' \in {"fork", "close"}
  PROVE  HInv'
  BY DEF HInv, HTypes, HandedOver, OwnOnly

LEMMA ChildH == ASSUME HInv, NEW c \in Conns, Child(c) PROVE HInv'
<1>1. CASE ChildStarts(c)
  BY <1>1, ChildStartsH
<1>2. CASE ReadData(c)
  BY <1>2, ChildGoesH, ChildEndsH DEF ReadData, ChildAt
<1>3. CASE ReadZero(c)
  BY <1>3, ChildGoesH, ChildEndsH DEF ReadZero, ChildAt
<1>4. CASE ReadFails(c)
  BY <1>4, ChildEndsH DEF ReadFails
<1>5. CASE Write(c)
  BY <1>5, ChildGoesH, ChildEndsH DEF Write, ChildAt
<1>6. CASE ChildInt(c)
  BY <1>6, ChildEndsH DEF ChildInt
<1> QED
  BY <1>1, <1>2, <1>3, <1>4, <1>5, <1>6 DEF Child

LEMMA AcceptH == ASSUME HInv, Accept PROVE HInv'
<1>1. newsock' \in Conns /\ queue' \in Seq(Conns)
  BY DEF HInv, HTypes, Accept
<1>2. newsock = 0
  BY DEF HInv, HandedOver, Accept, ParentAt
<1> QED
  BY <1>1, <1>2, Numbers DEF HInv, HTypes, HandedOver, OwnOnly, Accept, world

LEMMA ForkH == ASSUME HInv, Fork PROVE HInv'
<1>1. newsock \in Conns /\ newsock \in holds[Parent]
  BY DEF HInv, HTypes, HandedOver, Fork, ParentAt
<1> QED
  BY <1>1, Numbers DEF HInv, HTypes, HandedOver, OwnOnly, Fork, ParentAt, world, clientVars

LEMMA CloseNewH == ASSUME HInv, CloseNew PROVE HInv'
  BY Numbers DEF HInv, HTypes, HandedOver, OwnOnly, CloseNew, ParentAt, AfterHandOver,
                 Top, world, clientVars

LEMMA ParentH == ASSUME HInv, ParentStep PROVE HInv'
<1> USE DEF world, clientVars
<1>0. queue \in Seq(Conns)
  BY DEF HInv, HTypes
<1>1. CASE HandlerStarts
  BY <1>0, <1>1, OthersH DEF HandlerStarts
<1>2. CASE Reap
  BY <1>2, Numbers DEF Reap, HInv, HTypes, HandedOver, OwnOnly, Zombies
<1>3. CASE HandlerEnds
  BY <1>0, <1>3, ParentExitsH, OthersH DEF HandlerEnds
<1>4. CASE ParentInt
  BY <1>0, <1>4, ParentExitsH DEF ParentInt
<1>5. CASE Select
  BY <1>0, <1>5, OthersH DEF Select, ParentAt, AfterSelect
<1>6. CASE SelectInterrupted
  BY <1>0, <1>6, OthersH DEF SelectInterrupted, ParentAt, AfterEintr
<1>7. CASE Accept
  BY <1>7, AcceptH
<1>8. CASE AcceptFails
  <2>1. Tail(queue) \in Seq(Conns)
    BY <1>0, <1>8 DEF AcceptFails
  <2> QED
    BY <2>1, <1>8, ParentExitsH DEF AcceptFails
<1>9. CASE Fork
  BY <1>9, ForkH
<1>10. CASE ForkFails
  BY <1>0, <1>10, ParentExitsH, OthersH DEF ForkFails, ParentAt
<1>11. CASE CloseNew
  BY <1>11, CloseNewH
<1>12. CASE RecvFrom
  BY <1>0, <1>12, OthersH DEF RecvFrom, ParentAt
<1> QED
  BY <1>1, <1>2, <1>3, <1>4, <1>5, <1>6, <1>7, <1>8, <1>9, <1>10, <1>11, <1>12
     DEF ParentStep

(* Of the others, only a client that connects touches the queue.              *)
LEMMA ConnectH == ASSUME HInv, NEW c \in Conns, Connect(c) PROVE HInv'
<1>1. queue' \in Seq(Conns)
  BY DEF HInv, HTypes, Connect
<1> QED
  BY <1>1, OthersH DEF Connect, world, parentVars

LEMMA PairH == ASSUME HInv, PairStep PROVE HInv'
<1>1. CASE PairConnects
  <2>1. Pair \in Conns
    BY ForkAssumption DEF Pair, Conns
  <2> QED
    BY <1>1, <2>1, ConnectH DEF PairConnects
<1>2. CASE ~PairConnects
  <2>1. UNCHANGED <<prog, child, holds, newsock, pc, queue>>
    BY <1>2 DEF PairStep, WriterSends, WriterEof, PairWorks, ReaderTakes, ReaderKills,
                ReaderEnds, PairGone, SendMsg, Leave, serverVars, world, parentVars, clientVars
  <2> QED
    BY <2>1, OthersH DEF HInv, HTypes
<1> QED
  BY <1>1, <1>2

LEMMA EnvH ==
  ASSUME HInv, World \/ \E c \in Others : Client(c)
  PROVE  HInv'
<1>1. CASE \E c \in Others : Connect(c)
  BY <1>1, ConnectH DEF Others
<1>2. CASE ~ \E c \in Others : Connect(c)
  <2>1. UNCHANGED <<prog, child, holds, newsock, pc, queue>>
    BY <1>2 DEF World, Client, SendMsg, Leave, SendDgram, Interrupt, world, parentVars, clientVars
  <2> QED
    BY <2>1, OthersH DEF HInv, HTypes
<1> QED
  BY <1>1, <1>2

LEMMA HNext == HInv /\ [Next]_vars => HInv'
<1> SUFFICES ASSUME HInv, [Next]_vars PROVE HInv'
  OBVIOUS
<1>1. CASE Server
  BY <1>1, ChildH, ParentH DEF Server
<1>2. CASE PairStep
  BY <1>2, PairH
<1>3. CASE World \/ \E c \in Others : Client(c)
  BY <1>3, EnvH
<1>4. CASE UNCHANGED vars
  BY <1>4, OthersH DEF HInv, HTypes, vars, serverVars, world, parentVars, clientVars
<1> QED
  BY <1>1, <1>2, <1>3, <1>4 DEF Next

LEMMA HImplies == HInv => HeldByChildOnly
  BY Numbers DEF HInv, HTypes, HandedOver, OwnOnly, HeldByChildOnly, Holders, Procs, Parent

(* A connection is held by its own child alone but for its hand-over, and a   *)
(* child that serves does not hold the listening socket, for any number of    *)
(* connections: the close() calls of parent and child after fork() suffice.   *)
THEOREM ConnectionsSeparate == Spec => []HeldByChildOnly
  BY HInit, HNext, HImplies, PTL DEF Spec
-----------------------------------------------------------------------------
(* Types.  Those of the tables are part of HInv; the others need what bounds  *)
(* the counters: nothing is read that was not sent.                           *)
TRest == /\ limit \in 1..MaxProcs
         /\ pc \in {"select", "eintr", "accept", "fork", "close", "recvfrom", "exited"}
         /\ rfds \subseteq {Listener, Udp} /\ hdl \in BOOLEAN /\ chld \in BOOLEAN
         /\ intr \subseteq Procs
         /\ unread \in [Conns -> 0..MaxMsgs] /\ sent \in [Conns -> 0..MaxMsgs]
         /\ \A c \in Conns : unread[c] <= sent[c]
         /\ answers \in 0..(MaxMsgs + 1)
         /\ peer \in [Conns -> {"none", "up", "half", "gone"}]
         /\ dgrams \in 0..MaxDgrams /\ dsent \in 0..MaxDgrams /\ dgrams <= dsent
         /\ wr \in {"none", "fgets", "pause", "gone"}
         /\ rd \in {"none", "read", "kill", "gone"} /\ taken \in BOOLEAN
TInv == HInv /\ TRest

LEMMA TInit == Init => TInv
<1> SUFFICES ASSUME Init PROVE TRest
  BY HInit DEF TInv
<1>1. unread \in [Conns -> 0..MaxMsgs] /\ sent \in [Conns -> 0..MaxMsgs]
      /\ \A c \in Conns : unread[c] <= sent[c]
  BY ForkAssumption DEF Init, ServerInit
<1>2. peer \in [Conns -> {"none", "up", "half", "gone"}]
  BY DEF Init, ServerInit
<1>3. pc \in {"select", "accept"}
  BY DEF Init, ServerInit, Top
<1>4. hdl \in BOOLEAN /\ chld \in BOOLEAN /\ taken \in BOOLEAN
  BY DEF Init, ServerInit
<1>5. /\ limit \in 1..MaxProcs /\ rfds \subseteq {Listener, Udp} /\ intr \subseteq Procs
      /\ answers \in 0..(MaxMsgs + 1) /\ wr = "none" /\ rd = "none"
      /\ dgrams \in 0..MaxDgrams /\ dsent \in 0..MaxDgrams /\ dgrams <= dsent
  BY ForkAssumption DEF Init, ServerInit
<1> QED
  BY <1>1, <1>2, <1>3, <1>4, <1>5 DEF TRest

(* The part of the parent and of its children.                                *)
LEMMA ParentT == ASSUME TInv, ParentStep, UNCHANGED pairVars PROVE TRest'
<1> USE DEF TInv, TRest, world, clientVars, udpVars, pairVars
<1>1. CASE HandlerStarts
  BY <1>1 DEF HandlerStarts
<1>2. CASE Reap
  BY <1>2 DEF Reap, AfterReap
<1>3. CASE HandlerEnds
  BY <1>3 DEF HandlerEnds, ParentExits
<1>4. CASE ParentInt
  BY <1>4 DEF ParentInt, ParentExits
<1>5. CASE Select
  BY <1>5 DEF Select, ReadySet, AfterSelect
<1>6. CASE SelectInterrupted
  BY <1>6 DEF SelectInterrupted, AfterEintr
<1>7. CASE Accept
  BY <1>7 DEF Accept
<1>8. CASE AcceptFails
  BY <1>8 DEF AcceptFails, ParentExits
<1>9. CASE Fork
  BY <1>9 DEF Fork
<1>10. CASE ForkFails
  BY <1>10 DEF ForkFails, ParentExits
<1>11. CASE CloseNew
  BY <1>11 DEF CloseNew, Top
<1>12. CASE RecvFrom
  BY <1>12, ForkAssumption DEF RecvFrom
<1> QED
  BY <1>1, <1>2, <1>3, <1>4, <1>5, <1>6, <1>7, <1>8, <1>9, <1>10, <1>11, <1>12
     DEF ParentStep

(* What a child does beyond reading and answering concerns the tables only.   *)
LEMMA ChildMovesT ==
  ASSUME TInv, NEW c \in Conns, UNCHANGED pairVars,
         ChildEnds(c) \/ \E point \in {"read", "write"} : ChildGoes(c, point)
  PROVE  /\ UNCHANGED <<limit, pc, rfds, hdl, sent, peer, dgrams, dsent, wr, rd, taken>>
         /\ chld' \in BOOLEAN /\ intr' \subseteq Procs
  BY DEF TInv, TRest, HInv, HTypes, ChildEnds, ChildGoes, Reaps, Programs, basic_tcp_server,
         multi_conn_server, select_tcp_udp_server, unix_stream_server,
         unix_stream_credential_server, Program, world, parentVars, udpVars, pairVars

LEMMA ChildT == ASSUME TInv, NEW c \in Conns, Child(c), UNCHANGED pairVars PROVE TRest'
<1>1. /\ UNCHANGED <<limit, pc, rfds, hdl, sent, peer, dgrams, dsent, wr, rd, taken>>
      /\ chld' \in BOOLEAN /\ intr' \subseteq Procs
  BY ChildMovesT DEF Child, ChildStarts, ReadData, ReadZero, ReadFails, Write, ChildInt
<1>2. /\ unread' \in [Conns -> 0..MaxMsgs]
      /\ \A d \in Conns : unread'[d] <= sent[d]
  <2>1. CASE ReadData(c)
    <3>1. PICK n \in 1..unread[c] : unread' = [unread EXCEPT ![c] = @ - n]
      BY <2>1 DEF ReadData
    <3>2. unread[c] \in 0..MaxMsgs /\ unread[c] - n \in 0..MaxMsgs /\ unread[c] - n <= unread[c]
      BY <3>1, ForkAssumption DEF TInv, TRest
    <3> QED
      BY <3>1, <3>2, ForkAssumption DEF TInv, TRest
  <2>2. CASE ~ReadData(c)
    BY <2>2 DEF TInv, TRest, Child, ChildStarts, ReadZero, ReadFails, Write, ChildInt
  <2> QED
    BY <2>1, <2>2
<1>3. answers' \in 0..(MaxMsgs + 1)
  BY ForkAssumption DEF TInv, TRest, Child, ChildStarts, ReadData, ReadZero, ReadFails,
                        Write, ChildInt
<1> QED
  BY <1>1, <1>2, <1>3 DEF TInv, TRest

LEMMA SendMsgT ==
  ASSUME TInv, NEW c \in Conns, SendMsg(c), UNCHANGED pairVars
  PROVE  TRest'
<1>1. unread[c] + 1 \in 0..MaxMsgs /\ sent[c] + 1 \in 0..MaxMsgs
  BY ForkAssumption DEF TInv, TRest, SendMsg
<1> QED
  BY <1>1, ForkAssumption DEF TInv, TRest, SendMsg, world, parentVars, udpVars, pairVars

LEMMA LeaveT ==
  ASSUME TInv, NEW c \in Conns, NEW how \in {"half", "gone"}, Leave(c, how),
         wr' \in {"none", "fgets", "pause", "gone"}, UNCHANGED <<rd, taken>>
  PROVE  TRest'
  BY DEF TInv, TRest, Leave, world, parentVars, udpVars

LEMMA ConnectT ==
  ASSUME TInv, NEW c \in Conns, Connect(c), UNCHANGED taken,
         wr' \in {"none", "fgets", "pause", "gone"}, rd' \in {"none", "read", "kill", "gone"}
  PROVE  TRest'
  BY DEF TInv, TRest, Connect, world, parentVars, udpVars

LEMMA PairT == ASSUME TInv, PairStep PROVE TRest'
<1>0. Pair \in Conns
  BY ForkAssumption DEF Pair, Conns
<1>1. CASE PairConnects
  BY <1>0, <1>1, ConnectT DEF PairConnects
<1>2. CASE WriterSends
  BY <1>0, <1>2, SendMsgT
     DEF WriterSends, TInv, TRest, serverVars, world, parentVars, clientVars, udpVars, pairVars
<1>3. CASE WriterEof
  BY <1>0, <1>3, LeaveT DEF WriterEof
<1>4. CASE ReaderTakes
  <2>1. answers' \in 0..(MaxMsgs + 1)
    BY <1>4, ForkAssumption DEF ReaderTakes, TInv, TRest
  <2> QED
    BY <2>1, <1>4 DEF ReaderTakes, TInv, TRest, world, parentVars, udpVars
<1>5. CASE ReaderKills \/ ReaderEnds
  BY <1>5 DEF ReaderKills, ReaderEnds, Killed, TInv, TRest, serverVars, world, parentVars,
              clientVars, udpVars
<1>6. CASE PairGone
  BY <1>0, <1>6, LeaveT DEF PairGone, pairVars, TInv, TRest
<1> QED
  BY <1>1, <1>2, <1>3, <1>4, <1>5, <1>6 DEF PairStep, PairWorks

LEMMA EnvT == ASSUME TInv, World \/ \E c \in Others : Client(c) PROVE TRest'
<1>1. ASSUME NEW c \in Conns, Client(c) PROVE TRest'
  BY <1>1, ConnectT, SendMsgT, LeaveT DEF Client, pairVars, TInv, TRest
<1>2. ASSUME SendDgram, UNCHANGED pairVars PROVE TRest'
  BY <1>2, ForkAssumption
     DEF SendDgram, TInv, TRest, world, parentVars, clientVars, pairVars
<1>3. ASSUME Interrupt, UNCHANGED pairVars PROVE TRest'
  <2>1. intr' \subseteq Procs
    BY <1>3, Numbers DEF Interrupt, Running
  <2> QED
    BY <1>3, <2>1 DEF Interrupt, TInv, TRest, world, parentVars, clientVars, udpVars, pairVars
<1> QED
  BY <1>1, <1>2, <1>3 DEF Others, World

LEMMA TNext == TInv /\ [Next]_vars => TInv'
<1> SUFFICES ASSUME TInv, [Next]_vars PROVE TRest'
  BY HNext DEF TInv
<1>1. CASE Server
  BY <1>1, ChildT, ParentT DEF Server
<1>2. CASE PairStep
  BY <1>2, PairT
<1>3. CASE World \/ \E c \in Others : Client(c)
  BY <1>3, EnvT
<1>4. CASE UNCHANGED vars
  BY <1>4 DEF TInv, TRest, vars, serverVars, world, parentVars, clientVars, udpVars, pairVars
<1> QED
  BY <1>1, <1>2, <1>3, <1>4 DEF Next

LEMMA TImplies == TInv => TypeOK
  BY DEF TInv, HInv, HTypes, HandedOver, TRest, TypeOK, ServerTypeOK

(* Types are kept: no counter of messages, answers or datagrams leaves its    *)
(* range, and a connection is being handed over exactly between accept() and  *)
(* the close() that follows fork().                                           *)
THEOREM TypesKept == Spec => []TypeOK
  BY TInit, TNext, TImplies, PTL DEF Spec
-----------------------------------------------------------------------------
(* What select() reported stays true until it is used: only the parent takes  *)
(* connections and datagrams.  Between accept() and the test of the datagram  *)
(* socket its bit in rfds carries the promise.                                *)
NInv == /\ NeverBlocks
        /\ pc \in {"accept", "fork", "close"} /\ Udp \in rfds => dgrams > 0

LEMMA NInit == Init => NInv
  BY DEF Init, ServerInit, Top, NInv, NeverBlocks

(* A step that keeps pc, rfds and what waits.                                 *)
LEMMA OthersN ==
  ASSUME NInv, TInv, UNCHANGED <<prog, pc, rfds>>,
         queue # <<>> => queue' # <<>>, dgrams > 0 => dgrams' > 0
  PROVE  NInv'
  BY DEF NInv, NeverBlocks, Selects

LEMMA ParentN == ASSUME NInv, TInv, ParentStep PROVE NInv'
<1> USE DEF world, clientVars, udpVars
<1>1. CASE HandlerStarts
  BY <1>1 DEF HandlerStarts, NInv, NeverBlocks, Selects
<1>2. CASE Reap
  BY <1>2, OthersN DEF Reap
<1>3. CASE ParentExits
  BY <1>3 DEF ParentExits, NInv, NeverBlocks
<1>4. CASE HandlerEnds
  BY <1>3, <1>4, OthersN DEF HandlerEnds
<1>5. CASE Select
  BY <1>5, Numbers DEF Select, ReadySet, AfterSelect, NInv, NeverBlocks, Selects
<1>6. CASE SelectInterrupted
  BY <1>6 DEF SelectInterrupted, AfterEintr, NInv, NeverBlocks
<1>7. CASE Accept
  BY <1>7 DEF Accept, ParentAt, NInv, NeverBlocks
<1>8. CASE Fork
  BY <1>8 DEF Fork, ParentAt, NInv, NeverBlocks
<1>9. CASE ForkFails
  BY <1>3, <1>9 DEF ForkFails, ParentAt, NInv, NeverBlocks
<1>10. CASE CloseNew
  BY <1>10 DEF CloseNew, ParentAt, Top, NInv, NeverBlocks, Selects
<1>11. CASE RecvFrom
  BY <1>11 DEF RecvFrom, NInv, NeverBlocks
<1> QED
  BY <1>1, <1>2, <1>3, <1>4, <1>5, <1>6, <1>7, <1>8, <1>9, <1>10, <1>11
     DEF ParentStep, ParentInt, AcceptFails

LEMMA ChildN == ASSUME NInv, TInv, NEW c \in Conns, Child(c) PROVE NInv'
<1>1. UNCHANGED <<prog, pc, rfds, queue, dgrams>>
  BY DEF Child, ChildStarts, ReadData, ReadZero, ReadFails, Write, ChildInt, ChildEnds,
         ChildGoes, world, parentVars, udpVars
<1> QED
  BY <1>1, OthersN

(* Clients and users add to what waits.                                       *)
LEMMA EnvN ==
  ASSUME NInv, TInv, PairStep \/ World \/ \E c \in Others : Client(c)
  PROVE  NInv'
<1>1. UNCHANGED <<prog, pc, rfds>>
  BY DEF PairStep, PairConnects, WriterSends, WriterEof, PairWorks, ReaderTakes, ReaderKills,
         ReaderEnds, PairGone, World, Client, Connect, SendMsg, Leave, SendDgram, Interrupt,
         serverVars, world, parentVars
<1>2. queue' = queue \/ \E c \in Conns : queue' = Append(queue, c)
  BY ForkAssumption
     DEF PairStep, PairConnects, WriterSends, WriterEof, PairWorks, ReaderTakes, ReaderKills,
         ReaderEnds, PairGone, World, Client, Connect, SendMsg, Leave, SendDgram, Interrupt,
         serverVars, clientVars, Others, Pair, Conns
<1>3. queue # <<>> => queue' # <<>>
  BY <1>2 DEF TInv, HInv, HTypes
<1>4. dgrams' = dgrams \/ dgrams' = dgrams + 1
  BY DEF PairStep, PairConnects, WriterSends, WriterEof, PairWorks, ReaderTakes, ReaderKills,
         ReaderEnds, PairGone, World, Client, Connect, SendMsg, Leave, SendDgram, Interrupt,
         serverVars, udpVars
<1>5. dgrams > 0 => dgrams' > 0
  BY <1>4, ForkAssumption DEF TInv, TRest
<1> QED
  BY <1>1, <1>3, <1>5, OthersN

LEMMA NNext == NInv /\ TInv /\ [Next]_vars => NInv'
<1> SUFFICES ASSUME NInv, TInv, [Next]_vars PROVE NInv'
  OBVIOUS
<1>1. CASE Server
  BY <1>1, ChildN, ParentN DEF Server
<1>2. CASE PairStep \/ World \/ \E c \in Others : Client(c)
  BY <1>2, EnvN
<1>3. CASE UNCHANGED vars
  BY <1>3, OthersN DEF vars, serverVars, world, parentVars, clientVars, udpVars
<1> QED
  BY <1>1, <1>2, <1>3 DEF Next

(* select_tcp_udp_server never blocks in accept() or recvfrom() while the     *)
(* other socket has something for it, whatever signals interrupt its loop and *)
(* however many clients and datagrams there are.                              *)
THEOREM SelectorNeverBlocks == Spec => []NeverBlocks
<1>1. NInv => NeverBlocks
  BY DEF NInv
<1> QED
  BY <1>1, TInit, TNext, NInit, NNext, PTL DEF Spec
-----------------------------------------------------------------------------
(* The two processes of fork_str_cli.  The reader has taken an answer before  *)
(* it kills, and kills before it reads again; a connection once closed stays  *)
(* closed, because the server that could accept it holds the listening socket *)
(* and a client never connects twice.                                         *)
Listens == pc # "exited" => Listener \in holds[Parent]
KillFollows == /\ rd = "kill" => taken
               /\ taken /\ rd # "kill" => wr = "gone"
OnceConnected == wr # "none" \/ rd # "none" => peer[Pair] # "none"
(* What holds where the comment above kill() says more (KillsOnlyAfterServer). *)
EndsByAnswerOrClose == wr = "gone" => taken \/ ~Live(Pair)
WInv == Listens /\ KillFollows /\ OnceConnected /\ WriterReleased /\ EndsByAnswerOrClose

LEMMA PairIsConn == Pair \in Conns
  BY ForkAssumption DEF Pair, Conns

LEMMA WInit == Init => WInv
<1> SUFFICES ASSUME Init PROVE WInv
  OBVIOUS
<1>1. Listener \in prog.opens
  BY DEF Init, ServerInit, Programs, basic_tcp_server, multi_conn_server,
         select_tcp_udp_server, unix_stream_server, unix_stream_credential_server, Program
<1> QED
  BY <1>1, Numbers
     DEF Init, ServerInit, WInv, Listens, KillFollows, OnceConnected, WriterReleased,
         EndsByAnswerOrClose

(* Steps of the server keep a closed connection closed.                       *)
LEMMA StaysClosed ==
  ASSUME TInv, Listens, ~Live(Pair), ParentStep \/ \E c \in Conns : Child(c)
  PROVE  ~Live(Pair)'
<1> USE DEF world, parentVars, clientVars
<1>1. \A p \in Procs : Pair \notin holds[p]
  BY DEF Live, Holders
<1>2. ~Queued(Pair) \/ \A p \in Procs : Listener \notin holds[p]
  BY DEF Live, Holders
<1>3. SUFFICES /\ \A p \in Procs : Pair \notin holds'[p]
               /\ ~Queued(Pair)' \/ \A p \in Procs : Listener \notin holds'[p]
  BY DEF Live, Holders
<1>4. holds \in [Procs -> SUBSET ({Listener, Udp} \cup Conns)] /\ queue \in Seq(Conns)
  BY DEF TInv, HInv, HTypes
<1>5. CASE Accept
  <2>1. ~Queued(Pair)
    BY <1>2, <1>5, Numbers DEF Accept, ParentAt, Listens
  <2>2. queue # <<>> /\ Head(queue) = queue[1] /\ 1 \in 1..Len(queue)
    BY <1>4, <1>5 DEF Accept
  <2>3. newsock' # Pair
    BY <2>1, <2>2, <1>5 DEF Accept, Queued
  <2>4. ~Queued(Pair)'
    BY <2>1, <2>2, <1>4, <1>5 DEF Accept, Queued
  <2> QED
    BY <1>1, <1>4, <1>5, <2>3, <2>4, Numbers DEF Accept
<1>6. CASE AcceptFails
  <2>1. ~Queued(Pair)
    BY <1>2, <1>6, Numbers DEF AcceptFails, ParentAt, Listens
  <2>2. ~Queued(Pair)'
    BY <2>1, <1>4, <1>6 DEF AcceptFails, Queued
  <2> QED
    BY <1>1, <1>4, <1>6, <2>2, Numbers DEF AcceptFails, ParentExits
<1>7. CASE Fork
  <2>1. newsock \in Conns
    BY <1>7 DEF TInv, HInv, HTypes, HandedOver, Fork, ParentAt
  <2> QED
    BY <2>1, <1>1, <1>2, <1>4, <1>7, Numbers DEF Fork, Queued
<1>8. CASE HandlerStarts \/ Reap \/ HandlerEnds \/ ParentInt \/ Select \/ SelectInterrupted
           \/ ForkFails \/ CloseNew \/ RecvFrom
  <2>1. queue' = queue /\ \A p \in Procs : holds'[p] \subseteq holds[p]
    BY <1>4, <1>8, Numbers
       DEF HandlerStarts, Reap, HandlerEnds, ParentInt, ParentExits, Select,
           SelectInterrupted, ForkFails, CloseNew, AfterHandOver, RecvFrom
  <2> QED
    BY <2>1, <1>1, <1>2 DEF Queued
<1>9. CASE \E c \in Conns : Child(c)
  <2>1. queue' = queue /\ \A p \in Procs : holds'[p] \subseteq holds[p]
    BY <1>4, <1>9, Numbers
       DEF Child, ChildStarts, ReadData, ReadZero, ReadFails, Write, ChildInt, ChildEnds,
           ChildGoes, AfterStart
  <2> QED
    BY <2>1, <1>1, <1>2 DEF Queued
<1> QED
  BY <1>5, <1>6, <1>7, <1>8, <1>9 DEF ParentStep

LEMMA ListensKept == ASSUME TInv, Listens, [Next]_vars PROVE Listens'
<1> USE DEF world, parentVars, clientVars, udpVars
<1>0. holds \in [Procs -> SUBSET ({Listener, Udp} \cup Conns)]
  BY DEF TInv, HInv, HTypes
<1>1. CASE \E c \in Conns : Child(c)
  <2>1. PICK c \in Conns : Child(c)
    BY <1>1
  <2>2. pc' = pc /\ (holds' = holds \/ \E H : holds' = [holds EXCEPT ![c] = H])
    BY <2>1 DEF Child, ChildStarts, ReadData, ReadZero, ReadFails, Write, ChildInt, ChildEnds,
                ChildGoes
  <2>3. holds'[Parent] = holds[Parent]
    BY <2>2, <1>0, Numbers
  <2> QED
    BY <2>2, <2>3 DEF Listens
<1>2. CASE ParentExits
  BY <1>2 DEF ParentExits, Listens
<1>3. CASE CloseNew
  <2>1. newsock \in Conns
    BY <1>3 DEF TInv, HInv, HTypes, HandedOver, CloseNew, ParentAt
  <2> QED
    BY <2>1, <1>0, <1>3, Numbers DEF CloseNew, AfterHandOver, ParentAt, Listens
<1>4. CASE Fork
  <2>1. newsock \in Conns
    BY <1>4 DEF TInv, HInv, HTypes, HandedOver, Fork, ParentAt
  <2> QED
    BY <2>1, <1>0, <1>4, Numbers DEF Fork, ParentAt, Listens
<1>5. CASE HandlerStarts \/ Reap \/ HandlerEnds \/ Select \/ SelectInterrupted
           \/ ForkFails \/ RecvFrom
  BY <1>2, <1>5 DEF HandlerStarts, Reap, HandlerEnds, Select, SelectInterrupted, ForkFails,
                    RecvFrom, ParentAt, Listens
<1>6. CASE Accept
  BY <1>0, <1>6, Numbers DEF Accept, ParentAt, Listens
<1>7. CASE PairStep \/ World \/ (\E c \in Others : Client(c)) \/ UNCHANGED vars
  <2>1. UNCHANGED <<pc, holds>>
    BY <1>7
       DEF PairStep, PairConnects, WriterSends, WriterEof, PairWorks, ReaderTakes, ReaderKills,
           ReaderEnds, PairGone, World, Client, Connect, SendMsg, Leave, SendDgram, Interrupt,
           vars, serverVars
  <2> QED
    BY <2>1 DEF Listens
<1> QED
  BY <1>1, <1>2, <1>3, <1>4, <1>5, <1>6, <1>7 DEF Next, Server, ParentStep, ParentInt, AcceptFails

LEMMA ServerW ==
  ASSUME TInv, WInv, ParentStep \/ (\E c \in Conns : Child(c)), UNCHANGED pairVars
  PROVE  KillFollows' /\ OnceConnected' /\ WriterReleased' /\ EndsByAnswerOrClose'
<1>1. peer' = peer
  BY DEF ParentStep, HandlerStarts, Reap, HandlerEnds, ParentInt, Select, SelectInterrupted,
         Accept, AcceptFails, Fork, ForkFails, CloseNew, RecvFrom, Child, ChildStarts, ReadData,
         ReadZero, ReadFails, Write, ChildInt, ChildEnds, ChildGoes, clientVars
<1>2. ~Live(Pair) => ~Live(Pair)'
  BY StaysClosed DEF WInv
<1> QED
  BY <1>1, <1>2 DEF WInv, KillFollows, OnceConnected, WriterReleased,
                              EndsByAnswerOrClose, pairVars

(* Nobody outside the server opens or closes what it holds, and a client that *)
(* has connected does not do so again.                                        *)
LEMMA NotAgain ==
  ASSUME TInv, peer[Pair] # "none", UNCHANGED holds, ~Live(Pair),
         queue' = queue \/ \E c \in Conns : Connect(c)
  PROVE  ~Live(Pair)'
<1>1. CASE queue' = queue
  BY <1>1 DEF Live, Holders, Queued
<1>2. CASE \E c \in Conns : Connect(c)
  <2>1. PICK c \in Conns : Connect(c)
    BY <1>2
  <2>2. c # Pair /\ queue' = Append(queue, c) /\ queue \in Seq(Conns)
    BY <2>1 DEF Connect, TInv, HInv, HTypes
  <2>3. Queued(Pair)' => Queued(Pair)
    BY <2>2 DEF Queued
  <2> QED
    BY <2>3 DEF Live, Holders
<1> QED
  BY <1>1, <1>2

LEMMA OthersW ==
  ASSUME TInv, WInv, World \/ \E c \in Others : Client(c)
  PROVE  KillFollows' /\ OnceConnected' /\ WriterReleased' /\ EndsByAnswerOrClose'
<1>1. UNCHANGED <<holds, pairVars>> /\ (queue' = queue \/ \E c \in Conns : Connect(c))
  BY DEF World, Client, Others, Connect, SendMsg, Leave, SendDgram, Interrupt, clientVars
<1>2. peer[Pair] # "none" => peer'[Pair] # "none"
  BY PairIsConn
     DEF World, Client, Others, Connect, SendMsg, Leave, SendDgram, Interrupt, clientVars,
         TInv, TRest
<1>3. peer[Pair] # "none" /\ ~Live(Pair) => ~Live(Pair)'
  BY <1>1, NotAgain
<1> QED
  BY <1>1, <1>2, <1>3 DEF WInv, KillFollows, OnceConnected, WriterReleased,
                              EndsByAnswerOrClose, pairVars

LEMMA PairW ==
  ASSUME TInv, WInv, PairStep
  PROVE  KillFollows' /\ OnceConnected' /\ WriterReleased' /\ EndsByAnswerOrClose'
<1> USE PairIsConn DEF WInv, KillFollows, OnceConnected, WriterReleased, EndsByAnswerOrClose
<1>1. CASE PairConnects
  BY <1>1 DEF PairConnects, Connect, TInv, TRest
<1>2. CASE ~PairConnects
  <2>1. UNCHANGED <<holds, queue>>
    BY <1>2 DEF PairStep, WriterSends, WriterEof, PairWorks, ReaderTakes, ReaderKills,
                ReaderEnds, PairGone, SendMsg, Leave, serverVars, clientVars
  <2>2. Live(Pair)' <=> Live(Pair)
    BY <2>1 DEF Live, Holders, Queued
  <2>3. CASE WriterSends
    BY <2>2, <2>3 DEF WriterSends, SendMsg, serverVars, clientVars
  <2>4. CASE WriterEof
    BY <2>2, <2>4 DEF WriterEof, Leave, TInv, TRest
  <2>5. CASE ReaderTakes
    BY <2>2, <2>5 DEF ReaderTakes
  <2>6. CASE ReaderKills
    BY <2>2, <2>6 DEF ReaderKills, Killed, serverVars, clientVars
  <2>7. CASE ReaderEnds
    BY <2>2, <2>7 DEF ReaderEnds, serverVars, clientVars
  <2>8. CASE PairGone
    BY <2>2, <2>8 DEF PairGone, Leave, pairVars, TInv, TRest
  <2> QED
    BY <1>2, <2>3, <2>4, <2>5, <2>6, <2>7, <2>8 DEF PairStep, PairWorks
<1> QED
  BY <1>1, <1>2

LEMMA WNext == WInv /\ TInv /\ [Next]_vars => WInv'
<1> SUFFICES ASSUME WInv, TInv, [Next]_vars
             PROVE  KillFollows' /\ OnceConnected' /\ WriterReleased' /\ EndsByAnswerOrClose'
  BY ListensKept DEF WInv
<1>1. CASE Server
  BY <1>1, ServerW DEF Server
<1>2. CASE PairStep
  BY <1>2, PairW
<1>3. CASE World \/ \E c \in Others : Client(c)
  BY <1>3, OthersW
<1>4. CASE UNCHANGED vars
  BY <1>4 DEF WInv, KillFollows, OnceConnected, WriterReleased, EndsByAnswerOrClose,
              Live, Holders, Queued, vars,
              serverVars, pairVars, clientVars
<1> QED
  BY <1>1, <1>2, <1>3, <1>4 DEF Next

(* fork_str_cli of nonblock_stream_client.c: the writer stays in pause() for  *)
(* ever only when no answer was ever taken.                                   *)
THEOREM ReleasedByAnswer == Spec => []WriterReleased
<1>1. WInv => WriterReleased
  BY DEF WInv
<1> QED
  BY <1>1, TInit, TNext, WInit, WNext, PTL DEF Spec

(* The writer ends only because an answer was taken, or because it wrote to a *)
(* connection the server had closed.  (The comment of the code wants the end  *)
(* of the server in the first case too, which does not hold.)                 *)
THEOREM WriterEndsRightly == Spec => []EndsByAnswerOrClose
<1>1. WInv => EndsByAnswerOrClose
  BY DEF WInv
<1> QED
  BY <1>1, TInit, TNext, WInit, WNext, PTL DEF Spec
=============================================================================

------------------------------ MODULE SockEnv -------------------------------
(* The kernel and the clients as the single-process TCP servers of C/ see     *)
(* them: a backlog of completed connections, the server's descriptors, the    *)
(* messages a connection has not had read yet, and what its peer has done.    *)
(* External code: modelled from the calls the servers make.                   *)
EXTENDS Integers, Sequences, FiniteSets

CONSTANTS NConns,     \* connections clients may open, numbered as they come
          None,
          Backlog,    \* length of the listen queue
          MaxMsgs,    \* messages a client sends at most
          MaxFds      \* descriptors the process may have besides the listener

Conns == 1..NConns

ASSUME EnvAssumption == /\ NConns \in Nat /\ None \notin Conns
                        /\ Backlog \in Nat \ {0}
                        /\ MaxMsgs \in Nat
                        /\ MaxFds \in Nat \ {0}

VARIABLES backlog,    \* connections accept() has not returned yet
          owner,      \* the connection an open descriptor stands for
          unread,     \* messages of a connection the server has not read
          sent,       \* messages its client has sent
          peer        \* "none" before connect, then "up", "fin" or "rst"

envVars == <<backlog, owner, unread, sent, peer>>

Listener == 0
Fds == 1..MaxFds
OpenFds == {fd \in Fds : owner[fd] # None}
FreeFds == Fds \ OpenFds
Queued(c) == \E k \in 1..Len(backlog) : backlog[k] = c
FdOf(c) == {fd \in OpenFds : owner[fd] = c}
Live(c) == Queued(c) \/ FdOf(c) # {}

Lowest(S) == CHOOSE x \in S : \A y \in S : x <= y

(* The elements of s in Keep, in their order.  (SelectSeq would do, but has   *)
(* no definition the prover can expand.)                                      *)
KeptFrom(s, Keep) ==
  LET kept[n \in 0..Len(s)] == IF n = 0 THEN <<>>
                               ELSE IF s[n] \in Keep THEN Append(kept[n - 1], s[n])
                               ELSE kept[n - 1]
  IN  kept
Kept(s, Keep) == KeptFrom(s, Keep)[Len(s)]

EnvInit == /\ backlog = <<>>
           /\ owner = [fd \in Fds |-> None]
           /\ unread = [c \in Conns |-> 0] /\ sent = [c \in Conns |-> 0]
           /\ peer = [c \in Conns |-> "none"]

EnvTypeOK == /\ backlog \in Seq(Conns) /\ Len(backlog) <= Backlog
             /\ owner \in [Fds -> Conns \cup {None}]
             /\ unread \in [Conns -> 0..MaxMsgs] /\ sent \in [Conns -> 0..MaxMsgs]
             /\ peer \in [Conns -> {"none", "up", "fin", "rst"}]

-----------------------------------------------------------------------------
(* What clients do.                                                           *)
Connect(c) == /\ peer[c] = "none" /\ \A d \in 1..(c - 1) : peer[d] # "none"
              /\ Len(backlog) < Backlog
              /\ backlog' = Append(backlog, c)
              /\ peer' = [peer EXCEPT ![c] = "up"]
              /\ UNCHANGED <<owner, unread, sent>>
SendMsg(c) == /\ peer[c] = "up" /\ sent[c] < MaxMsgs /\ Live(c)
              /\ sent' = [sent EXCEPT ![c] = @ + 1]
              /\ unread' = [unread EXCEPT ![c] = @ + 1]
              /\ UNCHANGED <<backlog, owner, peer>>
Leave(c) == /\ peer[c] = "up" /\ Live(c)
            /\ peer' = [peer EXCEPT ![c] = "fin"]
            /\ UNCHANGED <<backlog, owner, unread, sent>>
(* The client is killed, or answers data sent to it after it left.            *)
ResetBy(c) == /\ peer[c] \in {"up", "fin"} /\ Live(c)
              /\ peer' = [peer EXCEPT ![c] = "rst"]
              /\ UNCHANGED <<backlog, owner, unread, sent>>

-----------------------------------------------------------------------------
(* What system calls see and do.                                              *)
Readable(fd) == IF fd = Listener THEN backlog # <<>>
                ELSE /\ owner[fd] # None
                     /\ unread[owner[fd]] > 0 \/ peer[owner[fd]] # "up"

(* The values recv() may return (none: it blocks), and the messages left      *)
(* after it returned n.                                                       *)
RecvResults(fd) ==
  LET c == owner[fd]
  IN  IF unread[c] > 0 THEN 1..unread[c]
      ELSE CASE peer[c] = "fin" -> {0} [] peer[c] = "rst" -> {-1} [] OTHER -> {}
AfterRecv(fd, n) ==
  IF n > 0 THEN [unread EXCEPT ![owner[fd]] = @ - n] ELSE unread

(* accept() gives the lowest free descriptor to the head of the backlog.      *)
AcceptInto(fd) == /\ backlog # <<>>
                  /\ FreeFds # {} /\ fd = Lowest(FreeFds)
                  /\ owner' = [owner EXCEPT ![fd] = Head(backlog)]
                  /\ backlog' = Tail(backlog)
CloseFd(fd) == owner' = [owner EXCEPT ![fd] = None]
=============================================================================

------------------------------ MODULE ForkEcho ------------------------------
(* The forking servers with their clients.  The first client of               *)
(* basic_tcp_server is C/nonblock_stream_client.c as its main runs it:        *)
(* fork_str_cli, a writer that copies standard input to the socket and its    *)
(* child, a reader that copies the socket to standard output.  The others are *)
(* any clients.                                                               *)
EXTENDS ForkServers

VARIABLES wr,         \* the writer: "none", "fgets", "pause", "gone"
          rd,         \* the reader: "none", "read", "kill", "gone"
          taken       \* has the reader taken an answer?

pairVars == <<wr, rd, taken>>
vars == <<serverVars, pairVars>>

Init == ServerInit /\ wr = "none" /\ rd = "none" /\ taken = FALSE

-----------------------------------------------------------------------------
(* connect() and fork().  A fork() that fails is not noticed: the process      *)
(* goes on as the writer, without a reader.                                   *)
PairConnects == /\ PairRuns /\ Connect(Pair)
                /\ wr' = "fgets" /\ rd' \in {"read", "gone"} /\ UNCHANGED taken

(* A line is typed and written.  What is written to a closed connection is    *)
(* lost or ends the writer.                                                   *)
WriterSends == /\ wr = "fgets"
               /\ \/ SendMsg(Pair) /\ UNCHANGED wr
                  \/ ~Live(Pair) /\ wr' = "gone" /\ UNCHANGED serverVars
               /\ UNCHANGED <<rd, taken>>
WriterEof == /\ wr = "fgets"
             /\ Leave(Pair, "half")
             /\ wr' = "pause" /\ UNCHANGED <<rd, taken>>

ReaderTakes == /\ rd = "read" /\ answers > 0
               /\ \E n \in 1..answers : answers' = answers - n
               /\ rd' = "kill" /\ taken' = TRUE
               /\ UNCHANGED <<world, parentVars, intr, child, holds, udpVars,
                              queue, unread, sent, peer, wr>>
(* SIGTERM to the parent process; when that has ended, to process 1.          *)
Killed_NotPaused == IF wr = "fgets" THEN "gone" ELSE wr
Killed == "gone"
ReaderKills == /\ rd = "kill"
               /\ wr' = Killed /\ rd' = "read"
               /\ UNCHANGED <<serverVars, taken>>
(* End of file, or an error: a reset may discard answers not taken yet.       *)
ReaderEnds == /\ rd = "read" /\ ~Live(Pair) /\ (answers = 0 \/ unread[Pair] > 0)
              /\ rd' = "gone"
              /\ UNCHANGED <<serverVars, wr, taken>>
(* The kernel closes the socket that neither process holds any more.          *)
PairGone == /\ wr = "gone" /\ rd = "gone" /\ Leave(Pair, "gone")
            /\ UNCHANGED pairVars

PairWorks == ReaderTakes \/ ReaderKills \/ ReaderEnds \/ PairGone
PairStep == PairConnects \/ WriterSends \/ WriterEof \/ PairWorks

Others == IF PairRuns THEN Conns \ {Pair} ELSE Conns
Client(c) == /\ Connect(c) \/ SendMsg(c) \/ Leave(c, "half") \/ Leave(c, "gone")
             /\ UNCHANGED pairVars

Server == (ParentStep \/ \E c \in Conns : Child(c)) /\ UNCHANGED pairVars
World == (SendDgram \/ Interrupt) /\ UNCHANGED pairVars

Next == Server \/ PairStep \/ (\E c \in Others : Client(c)) \/ World

Spec == Init /\ [][Next]_vars
FairSpec == /\ Spec /\ WF_vars(ParentStep /\ UNCHANGED pairVars)
            /\ WF_vars(PairWorks)
            /\ \A c \in Conns : WF_vars(Child(c) /\ UNCHANGED pairVars)

-----------------------------------------------------------------------------
TypeOK == /\ ServerTypeOK
          /\ wr \in {"none", "fgets", "pause", "gone"}
          /\ rd \in {"none", "read", "kill", "gone"} /\ taken \in BOOLEAN

(* A server with a handler of SIGCHLD forgets no child, however their ends    *)
(* fall together: while one waits to be collected the signal is pending or    *)
(* the handler is running.                                                    *)
NoZombieForgotten == Reaps /\ Zombies # {} => chld \/ hdl

(* A connection is held by its own child alone, but for the moment of its     *)
(* hand-over, so that the client sees the end when the child ends; and        *)
(* children that have begun to serve do not hold the listening socket.        *)
HeldByChildOnly ==
  /\ \A c \in Conns : Holders(c) \subseteq {c} \cup (IF newsock = c THEN {Parent} ELSE {})
  /\ \A c \in Conns : child[c] \in {"read", "write"} => c \in holds[c] /\ Listener \notin holds[c]

(* select_tcp_udp_server calls accept() and recvfrom() only when there is     *)
(* something for them, also after a select() that a signal interrupted.       *)
NeverBlocks == /\ Selects /\ pc = "accept" => queue # <<>>
               /\ pc = "recvfrom" => dgrams > 0

(* As long as the server runs every message is read and every datagram taken; *)
(* a message is left unread only when the connection ends, and the connection *)
(* of a client that left is closed.  The children of the two Unix servers do  *)
(* not tell the end of file from data: one whose client only shut down its    *)
(* sending side goes on answering, and ends when the client does.             *)
ServedToTheEnd ==
  /\ \A c \in Conns : /\ unread[c] > 0 ~> unread[c] = 0 \/ ~Live(c)
                      /\ peer[c] = "gone" \/ (peer[c] = "half" /\ ~Unix) ~> ~Live(c)
  /\ dgrams > 0 ~> dgrams = 0 \/ pc = "exited"

(* fork_str_cli: only the signal of the reader ends the writer's pause(), and *)
(* the reader ends without sending it again: the writer is left waiting for   *)
(* ever only when no answer was ever taken.                                   *)
WriterReleased == wr = "pause" /\ rd = "gone" => ~taken

(* What the comment above kill() says: the reader ends the writer when the    *)
(* server has ended, so that the parent need not read standard input any more.*)
KillsOnlyAfterServer == rd = "kill" => ~Live(Pair)
=============================================================================

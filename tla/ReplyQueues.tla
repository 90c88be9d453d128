---------------------------- MODULE ReplyQueues -----------------------------
(* The other direction of the connections of SockEnv: what a server has sent  *)
(* and the client has not taken.  A client need not read, and its queue has   *)
(* an end.  External code, modelled from the send() calls of the servers.     *)
EXTENDS SockEnv

CONSTANT ReplyRoom      \* messages the queue of a connection holds

ASSUME ReplyAssumption == ReplyRoom \in Nat \ {0}

VARIABLE replies        \* messages in the queue of a connection

RepliesInit == replies = [c \in Conns |-> 0]
RepliesTypeOK == replies \in [Conns -> 0..ReplyRoom]

(* send() on c has to wait, or would fail if it may not.  On a connection     *)
(* that was reset it fails at once.                                           *)
Full(c) == replies[c] = ReplyRoom /\ peer[c] # "rst"

Queue(c, n) == /\ n <= ReplyRoom - replies[c]
               /\ replies' = [replies EXCEPT ![c] = @ + n]

(* A client reads, also one that has shut down its own direction.             *)
Takes(c) == /\ peer[c] \in {"up", "fin"} /\ FdOf(c) # {} /\ replies[c] > 0
            /\ replies' = [replies EXCEPT ![c] = @ - 1]
            /\ UNCHANGED envVars
=============================================================================

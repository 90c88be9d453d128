------------------------------ MODULE AddrLoop ------------------------------
(* The loops over the list getaddrinfo() returned, in the programs that get   *)
(* their socket from one: the daytime programs and C/epoll_server.c.  Each    *)
(* tries the addresses in turn until one gives a socket it can use.           *)
EXTENDS Integers

CONSTANT Addresses          \* length of the list

ASSUME AddressesAssumption == Addresses \in Nat \ {0}

List == 1..Addresses
NULL == Addresses + 1

(* What the six loops do differently:                                         *)
(*   next   the addresses from which a failing socket() goes on to the next   *)
(*          one (the others say continue before res = res->ai_next),          *)
(*   use    the call that must succeed for the address to be taken,           *)
(*   setopt is setsockopt(), whose failure exits, called before it,           *)
(*   end    what is done about the end of the list: nothing but listen(),     *)
(*          return the socket all the same, exit, or return -1.               *)
Loop(next, use, setopt, end) ==
  [next |-> next, use |-> use, setopt |-> setopt, end |-> end]

tcp_listen == Loop({}, "bind", TRUE, "listen")
tcp_listen_daemon == Loop({}, "bind", TRUE, "listen")
tcp_connect == Loop({}, "connect", FALSE, "return")
udp_server == Loop({}, "bind", FALSE, "exit")
udp_client_NoAdvance == Loop({}, "none", FALSE, "exit")
udp_client == Loop(List, "none", FALSE, "exit")
create_and_bind == Loop(List, "bind", FALSE, "minus1")

Programs == {tcp_listen, tcp_listen_daemon, tcp_connect, udp_server,
             udp_client, create_and_bind}

VARIABLES loop,       \* which program this is
          supported,  \* addresses whose family the kernel supports
          usable,     \* addresses bind() or connect() succeeds with
          at,         \* "getaddrinfo", "socket", "use", "after", "returned",
                      \* "exited"
          res,        \* position in the list
          sockfd,     \* the address the last socket was made for, 0 for none
          open        \* addresses with an open socket

addrVars == <<loop, supported, usable, at, res, sockfd, open>>
world == <<loop, supported, usable>>

AddrInit == /\ loop \in Programs
            /\ supported \in SUBSET List /\ usable \in SUBSET List
            /\ at = "getaddrinfo" /\ res = 0 /\ sockfd = 0 /\ open = {}

(* A failing lookup exits.  tcp_connect compares the result with an n that    *)
(* was never set: it may exit after a lookup that did not fail, and may go on *)
(* after one that did with a res that was never set, which here ends it.      *)
GetAddrInfo == /\ at = "getaddrinfo"
               /\ \/ at' = "socket" /\ res' = 1
                  \/ at' = "exited" /\ UNCHANGED res
               /\ UNCHANGED <<world, sockfd, open>>

Advance(r) == r + 1

(* The head of the loop, and socket().                                        *)
EndOfList == /\ at = "socket" /\ res = NULL
             /\ at' = "after"
             /\ UNCHANGED <<world, res, sockfd, open>>
SocketFails == /\ at = "socket" /\ res \in List \ supported
               /\ res' = IF res \in loop.next THEN Advance(res) ELSE res
               /\ sockfd' = 0
               /\ UNCHANGED <<world, at, open>>
Socket == /\ at = "socket" /\ res \in supported
          /\ sockfd' = res /\ open' = open \cup {res}
          /\ \/ at' = "use"
             \/ loop.setopt /\ at' = "exited"
          /\ UNCHANGED <<world, res>>

AfterRefusal_Open == open
AfterRefusal == open \ {sockfd}

(* bind() or connect(): success leaves the loop, failure closes the socket.   *)
Use == /\ at = "use"
       /\ IF loop.use = "none" \/ res \in usable
            THEN at' = "after" /\ UNCHANGED <<res, open>>
            ELSE at' = "socket" /\ res' = Advance(res) /\ open' = AfterRefusal
       /\ UNCHANGED <<world, sockfd>>

(* After the loop.  listen() on a descriptor that was closed, or that never   *)
(* was one, fails and exits.                                                  *)
After == /\ at = "after"
         /\ CASE loop.end = "listen" -> at' = IF sockfd \in open THEN "returned" ELSE "exited"
              [] loop.end = "exit" -> at' = IF res = NULL THEN "exited" ELSE "returned"
              [] loop.end \in {"minus1", "return"} -> at' = "returned"
         /\ sockfd' = IF loop.end = "minus1" /\ res = NULL THEN 0 ELSE sockfd
         /\ UNCHANGED <<world, res, open>>

Over == at \in {"returned", "exited"} /\ UNCHANGED addrVars

Step == GetAddrInfo \/ EndOfList \/ SocketFails \/ Socket \/ Use \/ After
AddrNext == Step \/ Over

AddrSpec == AddrInit /\ [][AddrNext]_addrVars
AddrFairSpec == AddrSpec /\ WF_addrVars(Step)

-----------------------------------------------------------------------------
AddrTypeOK == /\ loop \in Programs
              /\ supported \subseteq List /\ usable \subseteq List
              /\ at \in {"getaddrinfo", "socket", "use", "after", "returned", "exited"}
              /\ res \in 0..NULL /\ sockfd \in {0} \cup List /\ open \subseteq List

Good == {a \in supported : loop.use = "none" \/ a \in usable}

(* What is returned is -1, or the one open socket, made for the first address *)
(* of the list that works; sockets of the others have been closed, and -1 and *)
(* giving up mean that none works.  tcp_connect is the exception: it returns  *)
(* a closed socket when no address works.                                     *)
ReturnsFirstGood ==
  /\ at = "socket" => open = {}
  /\ at = "returned" =>
       \/ open = {} /\ Good = {} /\ (sockfd = 0 \/ loop = tcp_connect)
       \/ open = {sockfd} /\ sockfd \in Good /\ \A a \in Good : sockfd <= a
  /\ at = "exited" /\ res = NULL => Good = {}

(* A program that can use some address gets a socket, unless a call that      *)
(* exits fails or it is one of those that try an unsupported family again and *)
(* again and there is one on the list.                                        *)
FindsAddress ==
  (Good # {} /\ (List \subseteq supported \/ loop \in {udp_client, create_and_bind}))
     ~> (at = "returned" /\ sockfd \in open) \/ at = "exited"

(* The comments at the continue statements: an address that gives no socket   *)
(* is left for the next one ("error, try next one", "ignore this one").       *)
TriesNextOne == <>(at \in {"returned", "exited"})
=============================================================================

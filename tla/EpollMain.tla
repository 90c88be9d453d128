------------------------------ MODULE EpollMain -----------------------------
(* C/epoll_server.c as its main runs it: create_and_bind (AddrLoop), then the *)
(* event loop on the socket it returned (EpollServer).  The other programs    *)
(* with a loop over addresses run here too, up to their socket.               *)
EXTENDS EpollServer, AddrLoop

MainInit == AddrInit /\ Init

(* Until listen() nobody can connect.                                         *)
Binds == AddrNext /\ UNCHANGED vars

(* -1 makes main abort.                                                       *)
Bound == loop = create_and_bind /\ at = "returned" /\ sockfd # 0

(* The event loop is the same on every address: it is followed for one list   *)
(* only, on which everything works (a bound).                                 *)
AllWork == supported = List /\ usable = List
Serves == Bound /\ AllWork /\ Next /\ UNCHANGED addrVars

MainNext == Binds \/ Serves

mainVars == <<vars, addrVars>>
MainSpec == MainInit /\ [][MainNext]_mainVars
MainFairSpec == /\ MainSpec
                /\ WF_mainVars(Step /\ UNCHANGED vars)
                /\ WF_mainVars(Bound /\ AllWork /\ Server /\ UNCHANGED addrVars)
=============================================================================

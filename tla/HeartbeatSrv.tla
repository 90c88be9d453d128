---------------------------- MODULE HeartbeatSrv ----------------------------
(* C/heartbeat_srv.c: the main loop serves one connection at a time and waits *)
(* in recv() for its end; the handler of SIGURG answers heartbeats, the one   *)
(* of SIGALRM counts the intervals without one.  Handlers interrupt as in     *)
(* HeartbeatCli.  The server has no children: SIGCHLD does not occur.         *)
EXTENDS UrgentNet

CONSTANTS SRV_ALARM_INTERVAL, SRV_PEER_EXPIRE_CNT

ASSUME SrvAssumption == /\ SRV_ALARM_INTERVAL \in Nat \ {0}
                        /\ SRV_PEER_EXPIRE_CNT \in Nat \ {0}

VARIABLES s_main, s_stack, s_pending, s_alarm,
          cli_fd,           \* the connection cli_fd stands for, None if closed
          s_expire_cnt, s_already_reset,
          loaded            \* expire_cnt as line 35 has read it

srvGlobals == <<cli_fd, s_expire_cnt, s_already_reset, loaded>>
srvVars == <<s_main, s_stack, s_pending, s_alarm, srvGlobals>>

SrvInit == /\ s_main = "accept" /\ s_stack = <<>> /\ s_pending = {}
           /\ s_alarm = SRV_ALARM_INTERVAL
           /\ cli_fd = None
           /\ s_expire_cnt = 0 /\ s_already_reset = FALSE /\ loaded = 0

-----------------------------------------------------------------------------
SrvSignalOf(point) == IF point \in {"alrm", "store"} THEN "ALRM" ELSE "URG"
SrvDeliverable ==
  {sig \in s_pending : \A k \in 1..Len(s_stack) : SrvSignalOf(s_stack[k]) # sig}

SrvHandlerStarts ==
  /\ \E sig \in SrvDeliverable :
       /\ s_pending' = s_pending \ {sig}
       /\ s_stack' = <<IF sig = "ALRM" THEN "alrm" ELSE "read">> \o s_stack
  /\ UNCHANGED <<netVars, s_main, s_alarm, srvGlobals>>

SrvAt(point) == SrvDeliverable = {} /\ s_stack # <<>> /\ Head(s_stack) = point
SrvGoto(point) == s_stack' = <<point>> \o Tail(s_stack)
SrvReturn == s_stack' = Tail(s_stack)

(* SIGALRM: expire_cnt++ reads and writes the counter in two steps.           *)
SrvAlarmRings ==
  /\ SrvAt("alrm")
  /\ s_alarm' = SRV_ALARM_INTERVAL /\ loaded' = s_expire_cnt
  /\ SrvGoto("store")
  /\ UNCHANGED <<netVars, s_main, s_pending, cli_fd, s_expire_cnt, s_already_reset>>

SrvCounted(n, reset) ==
  IF n = SRV_PEER_EXPIRE_CNT /\ ~reset THEN 0
  ELSE IF n > SRV_PEER_EXPIRE_CNT THEN n ELSE n + 1
StoreCount ==
  /\ SrvAt("store")
  /\ s_expire_cnt' = SrvCounted(loaded, s_already_reset) /\ loaded' = 0
  /\ SrvReturn
  /\ UNCHANGED <<netVars, s_main, s_pending, s_alarm, cli_fd, s_already_reset>>

(* SIGURG: a heartbeat is answered; a mark that is not there reads as         *)
(* anything.                                                                  *)
SrvMarkThere == cli_fd # None /\ link[cli_fd].upSlot
SrvReadMark ==
  /\ SrvAt("read")
  /\ \/ /\ SrvMarkThere
        /\ link' = [link EXCEPT ![cli_fd].upSlot = FALSE]
        /\ SrvGoto("isC")
     \/ /\ ~SrvMarkThere /\ UNCHANGED link
        /\ \E point \in {"isC", "reset"} : SrvGoto(point)
  /\ UNCHANGED <<backlog, alive, s_main, s_pending, s_alarm, srvGlobals>>

Reply ==
  /\ SrvAt("isC")
  /\ link' = SendDown(cli_fd)
  /\ SrvGoto("reset")
  /\ UNCHANGED <<backlog, alive, s_main, s_pending, s_alarm, srvGlobals>>
ResetCount ==
  /\ SrvAt("reset")
  /\ s_expire_cnt' = 0 /\ s_already_reset' = FALSE
  /\ SrvReturn
  /\ UNCHANGED <<netVars, s_main, s_pending, s_alarm, cli_fd, loaded>>

-----------------------------------------------------------------------------
SrvMainAt(point) == SrvDeliverable = {} /\ s_stack = <<>> /\ s_main = point

Accept ==
  /\ SrvMainAt("accept") /\ backlog # <<>>
  /\ cli_fd' = Head(backlog) /\ backlog' = Tail(backlog)
  /\ link' = [link EXCEPT ![Head(backlog)].sv = "open"]
  /\ s_main' = "own"
  /\ UNCHANGED <<alive, s_stack, s_pending, s_alarm, s_expire_cnt, s_already_reset, loaded>>

ClaimSignals ==
  /\ SrvMainAt("own")
  /\ link' = [link EXCEPT ![cli_fd].owned = TRUE]
  /\ s_main' = "recv"
  /\ UNCHANGED <<backlog, alive, s_stack, s_pending, s_alarm, srvGlobals>>

SrvRecvReturns ==
  /\ SrvMainAt("recv") /\ FinAtServer(cli_fd)
  /\ s_already_reset' = TRUE
  /\ s_main' = "close"
  /\ UNCHANGED <<netVars, s_stack, s_pending, s_alarm, cli_fd, s_expire_cnt, loaded>>

SrvClose ==
  /\ SrvMainAt("close")
  /\ link' = CloseServer(cli_fd) /\ cli_fd' = None
  /\ s_main' = "accept"
  /\ UNCHANGED <<backlog, alive, s_stack, s_pending, s_alarm, s_expire_cnt, s_already_reset, loaded>>

SrvStep == /\ alive
           /\ \/ SrvHandlerStarts \/ SrvAlarmRings \/ StoreCount
              \/ SrvReadMark \/ Reply \/ ResetCount
              \/ Accept \/ ClaimSignals \/ SrvRecvReturns \/ SrvClose

SrvIdle == alive => /\ SrvDeliverable = {} /\ s_stack = <<>>
                    /\ s_main \in {"accept", "recv"}
SrvTick ==
  /\ s_alarm' = IF s_alarm > 0 THEN s_alarm - 1 ELSE 0
  /\ s_pending' = IF s_alarm = 1 THEN s_pending \cup {"ALRM"} ELSE s_pending
  /\ UNCHANGED <<s_main, s_stack, srvGlobals>>

SrvTypeOK ==
  /\ s_main \in {"accept", "own", "recv", "close"}
  /\ s_stack \in Seq({"alrm", "store", "read", "isC", "reset"})
  /\ Len(s_stack) <= 2 /\ s_pending \subseteq {"ALRM", "URG"}
  /\ s_alarm \in 0..SRV_ALARM_INTERVAL
  /\ cli_fd \in Conns \cup {None}
  /\ {s_expire_cnt, loaded} \subseteq 0..(SRV_PEER_EXPIRE_CNT + 1)
  /\ s_already_reset \in BOOLEAN
=============================================================================

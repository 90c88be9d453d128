---------------------------- MODULE HeartbeatCli ----------------------------
(* C/heartbeat_cli.c and C/heartbeat_android.c: the main loop connects and    *)
(* waits in recv(); handlers of SIGALRM and SIGURG send heartbeats and take   *)
(* the answers.  A handler interrupts the main loop, or the other handler,    *)
(* between any two steps; its own signal is blocked while it runs and stays   *)
(* pending once.                                                              *)
EXTENDS UrgentNet

CONSTANTS CLI_ALARM_INTERVAL, PEER_EXPIRE_CNT

ASSUME CliAssumption == /\ CLI_ALARM_INTERVAL \in Nat \ {0}
                        /\ PEER_EXPIRE_CNT \in Nat \ {0}

(* ALARM_INTERVAL is 3 in both programs and so is the sleep() of their main   *)
(* loops: an alarm that is armed strikes before the sleep is over.            *)
ASSUME SleepAssumption == CLI_ALARM_INTERVAL <= 3

(* The two programs differ in whether the main loop closes the connection     *)
(* when recv() has returned, or leaves that to the next alarm.                *)
heartbeat_cli == [closes |-> FALSE]
heartbeat_android == [closes |-> TRUE]

VARIABLES c_prog,           \* which program this is
          c_main,           \* where the main loop stands
          c_stack,          \* handlers running, the innermost first: the point
                            \* each has reached
          c_pending,        \* signals raised and not handled yet
          c_alarm,          \* seconds until SIGALRM, 0 when not armed
          c_sleep,          \* seconds main still sleeps
          conn_fd,          \* the connection conn_fd stands for, None if closed
          got_reply, c_expire_cnt, c_already_reset

cliTimers == <<c_alarm, c_sleep>>
cliGlobals == <<conn_fd, got_reply, c_expire_cnt, c_already_reset>>
cliVars == <<c_prog, c_main, c_stack, c_pending, cliTimers, cliGlobals>>

CliInit == /\ c_prog \in {heartbeat_cli, heartbeat_android}
           /\ c_main = "top" /\ c_stack = <<>> /\ c_pending = {}
           /\ c_alarm = 0 /\ c_sleep = 0
           /\ conn_fd = None /\ got_reply = TRUE
           /\ c_expire_cnt = 0 /\ c_already_reset = FALSE

-----------------------------------------------------------------------------
(* Signals.                                                                   *)
SignalOf(point) ==
  IF point \in {"alrm", "send", "clear", "close"} THEN "ALRM" ELSE "URG"
CliDeliverable ==
  {sig \in c_pending : \A k \in 1..Len(c_stack) : SignalOf(c_stack[k]) # sig}

(* A handler starts; it ends the sleep() it interrupts, while connect() and   *)
(* recv() are restarted (SA_RESTART).                                         *)
CliHandlerStarts ==
  /\ \E sig \in CliDeliverable :
       /\ c_pending' = c_pending \ {sig}
       /\ c_stack' = <<IF sig = "ALRM" THEN "alrm" ELSE "read">> \o c_stack
  /\ IF c_main = "sleep" THEN c_main' = "top" /\ c_sleep' = 0
                         ELSE UNCHANGED <<c_main, c_sleep>>
  /\ UNCHANGED <<netVars, c_alarm, cliGlobals>>

At(point) == CliDeliverable = {} /\ c_stack # <<>> /\ Head(c_stack) = point
Goto(point) == c_stack' = <<point>> \o Tail(c_stack)
Return == c_stack' = Tail(c_stack)

-----------------------------------------------------------------------------
(* SIGALRM: a heartbeat if the last one was answered, else the server is lost.*)
AlarmTest_Always == Goto("send")
AlarmTest == Goto(IF got_reply THEN "send" ELSE "close")
AlarmRings ==
  /\ At("alrm")
  /\ c_alarm' = CLI_ALARM_INTERVAL
  /\ AlarmTest
  /\ UNCHANGED <<netVars, c_main, c_pending, c_sleep, cliGlobals>>

SendHeartbeat ==
  /\ At("send")
  /\ link' = SendUp(conn_fd)
  /\ Goto("clear")
  /\ UNCHANGED <<backlog, alive, c_main, c_pending, cliTimers, cliGlobals>>
ClearReply ==
  /\ At("clear")
  /\ got_reply' = FALSE
  /\ Return
  /\ UNCHANGED <<netVars, c_main, c_pending, cliTimers,
                 conn_fd, c_expire_cnt, c_already_reset>>

LoseServer ==
  /\ At("close")
  /\ link' = CloseClient(conn_fd) /\ conn_fd' = None
  /\ c_already_reset' = TRUE
  /\ Return
  /\ UNCHANGED <<backlog, alive, c_main, c_pending, cliTimers, got_reply, c_expire_cnt>>

(* SIGURG: c is the mark, or, when there is none to read, whatever the stack  *)
(* held.                                                                      *)
MarkThere == conn_fd # None /\ link[conn_fd].downSlot
ReadMark ==
  /\ At("read")
  /\ \/ /\ MarkThere
        /\ link' = [link EXCEPT ![conn_fd].downSlot = FALSE]
        /\ Goto("isS")
     \/ /\ ~MarkThere /\ UNCHANGED link
        /\ \E point \in {"isS", "isOther"} : Goto(point)
  /\ UNCHANGED <<backlog, alive, c_main, c_pending, cliTimers, cliGlobals>>
SetReply ==
  /\ At("isS") \/ At("isOther")
  /\ got_reply' = (Head(c_stack) = "isS") /\ c_already_reset' = FALSE
  /\ Return
  /\ UNCHANGED <<netVars, c_main, c_pending, cliTimers, conn_fd, c_expire_cnt>>

-----------------------------------------------------------------------------
(* The main loop, which runs when no handler does.                            *)
MainAt(point) == CliDeliverable = {} /\ c_stack = <<>> /\ c_main = point

FreeConns == {k \in Conns : link[k] = NoLink}

(* socket(); when Conns are used up the connection attempt fails, as it does  *)
(* when the server's queue is full.                                           *)
Socket ==
  /\ MainAt("top")
  /\ \/ /\ FreeConns = {} /\ c_main' = "failed"
        /\ conn_fd' = None /\ UNCHANGED link
     \/ /\ FreeConns # {} /\ c_main' = "connect"
        /\ conn_fd' = CHOOSE k \in FreeConns : TRUE
        /\ link' = [link EXCEPT ![conn_fd'].cl = "syn"]
  /\ UNCHANGED <<backlog, alive, c_stack, c_pending, cliTimers,
                 got_reply, c_expire_cnt, c_already_reset>>

Connected ==
  /\ MainAt("connect") /\ conn_fd # None /\ alive
  /\ link' = [link EXCEPT ![conn_fd] = [@ EXCEPT !.cl = "open", !.sv = "queued"]]
  /\ backlog' = Append(backlog, conn_fd)
  /\ c_main' = "connected"
  /\ UNCHANGED <<alive, c_stack, c_pending, cliTimers, cliGlobals>>

(* Refused, or restarted on a descriptor that a handler has closed.           *)
AfterRefusal_Open == link
AfterRefusal == CloseClient(conn_fd)
ConnectFails ==
  /\ MainAt("connect") /\ (conn_fd # None => ~alive)
  /\ link' = AfterRefusal /\ conn_fd' = None
  /\ c_main' = "failed"
  /\ UNCHANGED <<backlog, alive, c_stack, c_pending, cliTimers,
                 got_reply, c_expire_cnt, c_already_reset>>

ArmedBy_Kept == c_alarm
ArmedBy == CLI_ALARM_INTERVAL
Established ==
  /\ MainAt("connected")
  /\ c_alarm' = ArmedBy
  /\ got_reply' = TRUE
  /\ c_main' = "recv"
  /\ UNCHANGED <<netVars, c_stack, c_pending, c_sleep,
                 conn_fd, c_expire_cnt, c_already_reset>>

RecvReturns ==
  /\ MainAt("recv")
  /\ conn_fd # None => FinAtClient(conn_fd)
  /\ c_main' = IF c_prog.closes THEN "close" ELSE "received"
  /\ UNCHANGED <<netVars, c_stack, c_pending, cliTimers, cliGlobals>>

(* The alarm that strikes next closes the same number again, which is nobody's*)
(* until the next socket().                                                   *)
CloseAfterRecv ==
  /\ MainAt("close")
  /\ link' = CloseClient(conn_fd) /\ conn_fd' = None
  /\ c_main' = "received"
  /\ UNCHANGED <<backlog, alive, c_stack, c_pending, cliTimers,
                 got_reply, c_expire_cnt, c_already_reset>>

ReplyAfterRecv_Kept == got_reply
ReplyAfterRecv == FALSE
AfterRecv ==
  /\ MainAt("received")
  /\ got_reply' = ReplyAfterRecv
  /\ c_main' = "sleep" /\ c_sleep' = 3
  /\ UNCHANGED <<netVars, c_stack, c_pending, c_alarm,
                 conn_fd, c_expire_cnt, c_already_reset>>

(* "maybe not start up" starts the count again; the count is not followed     *)
(* beyond the number it is compared with.                                     *)
Counted(n, reset) ==
  IF n = PEER_EXPIRE_CNT /\ ~reset THEN 0
  ELSE IF n > PEER_EXPIRE_CNT THEN n ELSE n + 1
AfterFailure ==
  /\ MainAt("failed")
  /\ c_expire_cnt' = Counted(c_expire_cnt, c_already_reset)
  /\ c_main' = "sleep" /\ c_sleep' = 3
  /\ UNCHANGED <<netVars, c_stack, c_pending, c_alarm,
                 conn_fd, got_reply, c_already_reset>>

WakeUp == /\ MainAt("sleep") /\ c_sleep = 0
          /\ c_main' = "top"
          /\ UNCHANGED <<netVars, c_stack, c_pending, cliTimers, cliGlobals>>

CliStep == /\ UNCHANGED c_prog
           /\ \/ CliHandlerStarts \/ AlarmRings \/ SendHeartbeat \/ ClearReply
              \/ LoseServer \/ ReadMark \/ SetReply
              \/ Socket \/ Connected \/ ConnectFails \/ Established
              \/ RecvReturns \/ CloseAfterRecv \/ AfterRecv \/ AfterFailure \/ WakeUp

(* Nothing to run: time may pass.                                             *)
CliIdle == /\ CliDeliverable = {} /\ c_stack = <<>>
           /\ \/ c_main \in {"connect", "recv"}
              \/ c_main = "sleep" /\ c_sleep > 0
CliTick ==
  /\ c_alarm' = IF c_alarm > 0 THEN c_alarm - 1 ELSE 0
  /\ c_sleep' = IF c_sleep > 0 THEN c_sleep - 1 ELSE 0
  /\ c_pending' = IF c_alarm = 1 THEN c_pending \cup {"ALRM"} ELSE c_pending
  /\ UNCHANGED <<c_prog, c_main, c_stack, cliGlobals>>

CliTypeOK ==
  /\ c_prog \in {heartbeat_cli, heartbeat_android}
  /\ c_main \in {"top", "connect", "connected", "recv", "close", "received", "failed", "sleep"}
  /\ c_stack \in Seq({"alrm", "send", "clear", "close", "read", "isS", "isOther"})
  /\ Len(c_stack) <= 2 /\ c_pending \subseteq {"ALRM", "URG"}
  /\ c_alarm \in 0..CLI_ALARM_INTERVAL /\ c_sleep \in 0..3
  /\ conn_fd \in Conns \cup {None} /\ got_reply \in BOOLEAN
  /\ c_expire_cnt \in 0..(PEER_EXPIRE_CNT + 1) /\ c_already_reset \in BOOLEAN
=============================================================================

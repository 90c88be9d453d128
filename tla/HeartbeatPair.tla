---------------------------- MODULE HeartbeatPair ---------------------------
(* heartbeat_cli, or heartbeat_android, and heartbeat_srv together, with the  *)
(* network between them, the clock, and a server process that may be killed   *)
(* and started again.                                                         *)
EXTENDS HeartbeatCli, HeartbeatSrv

CONSTANTS MaxKills,
          Prompt      \* does the network deliver within a second?

ASSUME PairAssumption == MaxKills \in Nat /\ Prompt \in BOOLEAN

VARIABLES kills,      \* times the server has been killed
          quiet       \* seconds in recv() since the connection was made, or since
                      \* the last answer was taken; not followed beyond Limit

vars == <<netVars, cliVars, srvVars, kills, quiet>>

Limit == 2 * CLI_ALARM_INTERVAL + 1

Init == NetInit /\ CliInit /\ SrvInit /\ kills = 0 /\ quiet = 0

-----------------------------------------------------------------------------
Client == /\ CliStep
          /\ quiet' = IF c_main' # "recv" \/ (SetReply /\ got_reply') THEN 0 ELSE quiet
          /\ UNCHANGED <<srvVars, kills>>
Server == SrvStep /\ UNCHANGED <<cliVars, kills, quiet>>

(* A mark arrives.  It takes the place of one that was not read, and raises   *)
(* SIGURG at an end that has claimed it; at a closed end it is dropped.       *)
ArriveUp(k) ==
  /\ link[k].up > 0
  /\ IF link[k].sv \in {"queued", "open"}
       THEN link' = [link EXCEPT ![k].up = @ - 1, ![k].upSlot = TRUE]
       ELSE link' = [link EXCEPT ![k].up = @ - 1]
  /\ s_pending' = IF link[k].sv = "open" /\ link[k].owned
                    THEN s_pending \cup {"URG"} ELSE s_pending
  /\ UNCHANGED <<backlog, alive, cliVars, s_main, s_stack, s_alarm, srvGlobals,
                 kills, quiet>>
ArriveDown(k) ==
  /\ link[k].down > 0
  /\ IF link[k].cl = "open"
       THEN /\ link' = [link EXCEPT ![k].down = @ - 1, ![k].downSlot = TRUE]
            /\ c_pending' = c_pending \cup {"URG"}
       ELSE /\ link' = [link EXCEPT ![k].down = @ - 1]
            /\ UNCHANGED c_pending
  /\ UNCHANGED <<backlog, alive, c_prog, c_main, c_stack, cliTimers, cliGlobals,
                 srvVars, kills, quiet>>
Network == \E k \in Conns : ArriveUp(k) \/ ArriveDown(k)

(* The kernel closes what the server leaves behind.                           *)
Kill ==
  /\ alive /\ kills < MaxKills
  /\ alive' = FALSE /\ kills' = kills + 1
  /\ link' = [k \in Conns |->
                IF link[k].sv \in {"queued", "open"}
                  THEN Tidy([link[k] EXCEPT !.sv = "closed", !.owned = FALSE, !.upSlot = FALSE])
                  ELSE link[k]]
  /\ backlog' = <<>>
  /\ s_main' = "accept" /\ s_stack' = <<>> /\ s_pending' = {} /\ s_alarm' = 0
  /\ cli_fd' = None /\ s_expire_cnt' = 0 /\ s_already_reset' = FALSE /\ loaded' = 0
  /\ UNCHANGED <<cliVars, quiet>>
Restart == /\ ~alive /\ alive' = TRUE
           /\ s_alarm' = SRV_ALARM_INTERVAL
           /\ UNCHANGED <<link, backlog, cliVars, s_main, s_stack, s_pending, srvGlobals,
                          kills, quiet>>

(* A second passes when nobody has anything to run and, if the network is     *)
(* prompt, nothing is under way.                                              *)
Delivered == /\ \A k \in Conns : link[k].up = 0 /\ link[k].down = 0
             /\ alive /\ s_main = "accept" => backlog = <<>>
             /\ alive /\ s_main = "recv" => ~FinAtServer(cli_fd)
             /\ c_main # "connect"
             /\ c_main = "recv" => IF conn_fd = None THEN FALSE ELSE ~FinAtClient(conn_fd)
Tick == /\ CliIdle /\ SrvIdle
        /\ Prompt => Delivered
        /\ CliTick /\ SrvTick
        /\ quiet' = IF c_main = "recv" /\ quiet < Limit THEN quiet + 1 ELSE quiet
        /\ UNCHANGED <<netVars, kills>>

Next == Client \/ Server \/ Network \/ Kill \/ Restart \/ Tick

Spec == Init /\ [][Next]_vars
FairSpec == /\ Spec
            /\ WF_vars(Client) /\ WF_vars(Server) /\ WF_vars(Tick)
            /\ \A k \in Conns : WF_vars(ArriveUp(k)) /\ WF_vars(ArriveDown(k))

-----------------------------------------------------------------------------
TypeOK == /\ NetTypeOK /\ CliTypeOK /\ SrvTypeOK
          /\ kills \in 0..MaxKills /\ quiet \in 0..Limit

B(b) == IF b THEN 1 ELSE 0
MarksOn(k) == link[k].up + link[k].down + B(link[k].upSlot) + B(link[k].downSlot)

(* A connection carries at most one heartbeat or answer at a time, so that no *)
(* mark ever takes the place of one that was not read.                        *)
OneMark == \A k \in Conns : MarksOn(k) <= 1

(* The client, which leaves the close() of a connection to the handler of     *)
(* SIGALRM (but for heartbeat_android, whose main loop closes it as well),    *)
(* has at most one open, and conn_fd stands for it.                           *)
OneConnection == {k \in Conns : link[k].cl \in {"syn", "open"}} \subseteq {conn_fd}

(* A server that does not answer is given up after two intervals at most.     *)
DetectsInTime ==
  c_main = "recv" /\ conn_fd # None /\ c_stack = <<>> /\ CliDeliverable = {}
    => quiet < Limit

(* The client follows the server: while it stays away no connection is kept,  *)
(* and once it stays up the client is connected again and again, provided the *)
(* network is late for an alarm only finitely often.                          *)
OnLine == c_main = "recv" /\ conn_fd # None
FollowsServer == \/ []<><<Tick /\ ~Delivered>>_vars
                 \/ /\ (<>[]~alive) => <>[]~OnLine
                    /\ (<>[]alive) => []<>OnLine

(* "lost connection to server!" (heartbeat_cli.c:73): when every answer comes *)
(* within the second, the client gives up a connection only if the server was *)
(* killed.                                                                    *)
LossIsReal == [][OnLine /\ conn_fd' = None => kills > 0]_vars
=============================================================================

--------------------------- MODULE HeartbeatRouter --------------------------
(* C/heartbeat_router.c: a parent that accepts, forks a child for every       *)
(* connection and counts, at each SIGALRM, the intervals without a heartbeat; *)
(* children whose handler of SIGURG sets the count back.  The count is in a   *)
(* file that both write by truncating it and then writing.                    *)
EXTENDS Integers, Sequences, FiniteSets

CONSTANTS NConns,           \* connections peers may open, numbered as they come
          PEER_EXPIRE_CNT

ASSUME RouterAssumption == NConns \in Nat /\ PEER_EXPIRE_CNT \in Nat \ {0}

Conns == 1..NConns
Empty == -1
Beyond == PEER_EXPIRE_CNT + 1   \* stands for every count above PEER_EXPIRE_CNT
Counts == 0..Beyond

VARIABLES main,           \* the statement of the parent's loop
          stack,          \* its handlers, the innermost first
          pending,        \* signals pending for the parent
          armed,          \* is an alarm set?
          cli_fd,         \* the connection cli_fd stood for last, 0 for none
          cli_open,       \* is that descriptor open in the parent?
          child_pid,      \* the child forked last, 0 for none
          expire_cnt, already_reset,
          file,           \* the count in FILENAME
          child,          \* where the child of a connection stands
          handler,        \* and its handler of SIGURG
          urg,            \* is SIGURG pending for it?
          has_fd,         \* did it get an open cli_fd?
          queue, peer,    \* the listen queue; what the peer has done
          silent,         \* alarms since a heartbeat set the count back undisturbed
          tainted         \* has a count been read since then from a file that
                          \* was empty, or left by an earlier run?

fdVars == <<cli_fd, cli_open, child_pid>>
parentVars == <<main, stack, pending, armed, fdVars, expire_cnt, already_reset>>
childVars == <<child, handler, urg, has_fd>>
netVars == <<queue, peer>>
history == <<silent, tainted>>
vars == <<parentVars, file, childVars, netVars, history>>

Alive == {c \in Conns : child[c] \in {"start", "recv", "reboot"}}
Zombies == {c \in Conns : child[c] = "zombie"}

(* The file may be left from an earlier run; nothing sets it at the start.    *)
Init == /\ main = "accept" /\ stack = <<>> /\ pending = {} /\ armed = TRUE
        /\ cli_fd = 0 /\ cli_open = FALSE /\ child_pid = 0
        /\ expire_cnt = 0 /\ already_reset = FALSE
        /\ file \in Counts \cup {Empty}
        /\ child = [c \in Conns |-> "none"] /\ handler = [c \in Conns |-> "off"]
        /\ urg = [c \in Conns |-> FALSE] /\ has_fd = [c \in Conns |-> FALSE]
        /\ queue = <<>> /\ peer = [c \in Conns |-> "none"]
        /\ silent = 0 /\ tainted = TRUE

-----------------------------------------------------------------------------
(* The parent's handlers.  A signal is blocked while its own handler runs.    *)
SignalOf(point) == IF point = "wait" THEN "CHLD" ELSE "ALRM"
Deliverable_NoDefer == pending
Deliverable == {sig \in pending : \A k \in 1..Len(stack) : SignalOf(stack[k]) # sig}
HandlerStarts ==
  /\ \E sig \in Deliverable :
       /\ pending' = pending \ {sig}
       /\ stack' = <<IF sig = "CHLD" THEN "wait" ELSE "alrm">> \o stack
  /\ UNCHANGED <<main, armed, fdVars, expire_cnt, already_reset, file, childVars,
                 netVars, history>>
At(point) == Deliverable = {} /\ stack # <<>> /\ Head(stack) = point
Goto(point) == stack' = <<point>> \o Tail(stack)
Return == stack' = Tail(stack)

(* From an empty or missing file, whatever the stack held.                    *)
read_expire_cnt == IF file = Empty THEN Counts ELSE {file}
Expired(n) == n = PEER_EXPIRE_CNT /\ ~already_reset
AlarmRings ==
  /\ At("alrm")
  /\ armed' = TRUE
  /\ expire_cnt' \in read_expire_cnt
  /\ tainted' = (tainted \/ file = Empty)
  /\ Goto(IF Expired(expire_cnt') THEN "kill" ELSE "trunc")
  /\ UNCHANGED <<main, pending, fdVars, already_reset, file, childVars, netVars, silent>>

(* close(cli_fd), whatever it is by now, and kill(child_pid).                 *)
KillChild ==
  /\ At("kill")
  /\ cli_open' = FALSE
  /\ IF child_pid \in Alive
       THEN /\ child' = [child EXCEPT ![child_pid] = "zombie"]
            /\ handler' = [handler EXCEPT ![child_pid] = "off"]
            /\ urg' = [urg EXCEPT ![child_pid] = FALSE]
            /\ pending' = pending \cup {"CHLD"}
       ELSE UNCHANGED <<child, handler, urg, pending>>
  /\ Goto("system")
  /\ UNCHANGED <<main, armed, cli_fd, child_pid, expire_cnt, already_reset, file,
                 has_fd, netVars, history>>
(* system() blocks SIGCHLD and waits for the shell; the signal of the shell   *)
(* stays pending.                                                             *)
Reboot ==
  /\ At("system")
  /\ pending' = pending \cup {"CHLD"}
  /\ Goto("trunc0")
  /\ UNCHANGED <<main, armed, fdVars, expire_cnt, already_reset, file, childVars,
                 netVars, history>>

Truncate ==
  /\ At("trunc0") \/ At("trunc")
  /\ file' = Empty
  /\ Goto(IF Head(stack) = "trunc0" THEN "write0" ELSE "write")
  /\ UNCHANGED <<main, pending, armed, fdVars, expire_cnt, already_reset, childVars,
                 netVars, history>>
WriteZero ==
  /\ At("write0")
  /\ file' = 0 /\ already_reset' = TRUE
  /\ Goto("trunc")
  /\ UNCHANGED <<main, pending, armed, fdVars, expire_cnt, childVars, netVars, history>>
Succ(n) == IF n = Beyond THEN n ELSE n + 1
NewCount_Kept == expire_cnt
NewCount == Succ(expire_cnt)
WriteCount ==
  /\ At("write")
  /\ file' = NewCount /\ silent' = Succ(silent)
  /\ Return
  /\ UNCHANGED <<main, pending, armed, fdVars, expire_cnt, already_reset, childVars,
                 netVars, tainted>>

(* wait(0) collects one child, returns at once when there is none at all, and *)
(* otherwise waits for one to end.                                            *)
AfterWait_Again == stack
AfterWait == Tail(stack)
Wait ==
  /\ At("wait")
  /\ \/ /\ \E c \in Zombies : child' = [child EXCEPT ![c] = "reaped"]
        /\ stack' = AfterWait
     \/ Zombies \cup Alive = {} /\ Return /\ UNCHANGED child
  /\ UNCHANGED <<main, pending, armed, fdVars, expire_cnt, already_reset, file,
                 handler, urg, has_fd, netVars, history>>

-----------------------------------------------------------------------------
(* The parent's loop.                                                         *)
MainAt(point) == Deliverable = {} /\ stack = <<>> /\ main = point
Accept ==
  /\ MainAt("accept") /\ queue # <<>>
  /\ cli_fd' = Head(queue) /\ queue' = Tail(queue) /\ cli_open' = TRUE
  /\ main' = "fork"
  /\ UNCHANGED <<stack, pending, armed, child_pid, expire_cnt, already_reset, file,
                 childVars, peer, history>>
(* accept() fails: cli_fd is -1 and the loop goes on.                         *)
AcceptFails ==
  /\ MainAt("accept") /\ queue # <<>>
  /\ cli_fd' = 0 /\ queue' = Tail(queue)
  /\ UNCHANGED <<main, stack, pending, armed, cli_open, child_pid, expire_cnt,
                 already_reset, file, childVars, peer, history>>
Fork ==
  /\ MainAt("fork")
  /\ child' = [child EXCEPT ![cli_fd] = "start"]
  /\ has_fd' = [has_fd EXCEPT ![cli_fd] = cli_open]
  /\ main' = "pid"
  /\ UNCHANGED <<stack, pending, armed, fdVars, expire_cnt, already_reset, file,
                 handler, urg, netVars, history>>
ForkFails ==
  /\ MainAt("fork")
  /\ child_pid' = 0 /\ main' = "close"
  /\ UNCHANGED <<stack, pending, armed, cli_fd, cli_open, expire_cnt, already_reset,
                 file, childVars, netVars, history>>
SetPid ==
  /\ MainAt("pid")
  /\ child_pid' = cli_fd /\ main' = "close"
  /\ UNCHANGED <<stack, pending, armed, cli_fd, cli_open, expire_cnt, already_reset,
                 file, childVars, netVars, history>>
CloseCli ==
  /\ MainAt("close")
  /\ cli_open' = FALSE /\ main' = "accept"
  /\ UNCHANGED <<stack, pending, armed, cli_fd, child_pid, expire_cnt, already_reset,
                 file, childVars, netVars, history>>

Parent == \/ HandlerStarts \/ AlarmRings \/ KillChild \/ Reboot \/ Truncate
          \/ WriteZero \/ WriteCount \/ Wait
          \/ Accept \/ AcceptFails \/ Fork \/ ForkFails \/ SetPid \/ CloseCli

-----------------------------------------------------------------------------
(* A child: servlet(), and its handler of SIGURG.  It clears its own copy of  *)
(* already_reset, which only the parent looks at.                             *)
ChildAt(c, point) == c \in Alive /\ ~urg[c] /\ handler[c] = "off" /\ child[c] = point
Claim(c) == /\ ChildAt(c, "start")
            /\ child' = [child EXCEPT ![c] = "recv"]
            /\ UNCHANGED <<parentVars, file, handler, urg, has_fd, netVars, history>>
PeerGone(c) == peer[c] = "gone" \/ ~has_fd[c]
RecvReturns(c) == /\ ChildAt(c, "recv") /\ PeerGone(c)
                  /\ child' = [child EXCEPT ![c] = "reboot"]
                  /\ UNCHANGED <<parentVars, file, handler, urg, has_fd, netVars, history>>
ChildExits(c) == /\ ChildAt(c, "reboot")
                 /\ child' = [child EXCEPT ![c] = "zombie"]
                 /\ pending' = pending \cup {"CHLD"}
                 /\ UNCHANGED <<main, stack, armed, fdVars, expire_cnt, already_reset, file,
                                handler, urg, has_fd, netVars, history>>

(* recv() of the mark and the answer to it leave nothing behind in the router.*)
UrgStarts(c) == /\ c \in Alive /\ urg[c] /\ handler[c] = "off"
                /\ urg' = [urg EXCEPT ![c] = FALSE]
                /\ handler' = [handler EXCEPT ![c] = "trunc"]
                /\ UNCHANGED <<parentVars, file, child, has_fd, netVars, history>>
UrgTruncates(c) == /\ handler[c] = "trunc"
                   /\ file' = Empty
                   /\ handler' = [handler EXCEPT ![c] = "write"]
                   /\ UNCHANGED <<parentVars, child, urg, has_fd, netVars, history>>
(* A reset while the parent is between its read and its write is disturbed.   *)
Counting == \E k \in 1..Len(stack) : stack[k] \in {"kill", "system", "trunc0", "write0",
                                                   "trunc", "write"}
ResetValue_One == 1
ResetValue == 0
UrgResets(c) == /\ handler[c] = "write"
                /\ file' = ResetValue
                /\ handler' = [handler EXCEPT ![c] = "off"]
                /\ IF Counting THEN UNCHANGED history ELSE silent' = 0 /\ tainted' = FALSE
                /\ UNCHANGED <<parentVars, child, urg, has_fd, netVars>>

Child(c) == \/ Claim(c) \/ RecvReturns(c) \/ ChildExits(c)
            \/ UrgStarts(c) \/ UrgTruncates(c) \/ UrgResets(c)

-----------------------------------------------------------------------------
(* Peers, the network and the clock.                                          *)
Connect(c) == /\ peer[c] = "none" /\ \A d \in 1..(c - 1) : peer[d] # "none"
              /\ peer' = [peer EXCEPT ![c] = "up"] /\ queue' = Append(queue, c)
              /\ UNCHANGED <<parentVars, file, childVars, history>>
(* A heartbeat arrives; it raises SIGURG once the child has claimed it.       *)
Heartbeat(c) == /\ peer[c] = "up" /\ child[c] = "recv" /\ has_fd[c] /\ ~urg[c]
                /\ urg' = [urg EXCEPT ![c] = TRUE]
                /\ UNCHANGED <<parentVars, file, child, handler, has_fd, netVars, history>>
Leave(c) == /\ peer[c] = "up" /\ peer' = [peer EXCEPT ![c] = "gone"]
            /\ UNCHANGED <<parentVars, file, childVars, queue, history>>
Ring == /\ armed /\ armed' = FALSE
        /\ pending' = pending \cup {"ALRM"}
        /\ UNCHANGED <<main, stack, fdVars, expire_cnt, already_reset, file, childVars,
                       netVars, history>>

Next == \/ Parent \/ Ring
        \/ \E c \in Conns : Child(c) \/ Connect(c) \/ Heartbeat(c) \/ Leave(c)

Spec == Init /\ [][Next]_vars
FairSpec == /\ Spec /\ WF_vars(Parent) /\ WF_vars(Ring)
            /\ \A c \in Conns : WF_vars(Child(c))

-----------------------------------------------------------------------------
TypeOK == /\ main \in {"accept", "fork", "pid", "close"}
          /\ stack \in Seq({"alrm", "kill", "system", "trunc0", "write0", "trunc", "write", "wait"})
          /\ Len(stack) <= 2 /\ pending \subseteq {"ALRM", "CHLD"} /\ armed \in BOOLEAN
          /\ cli_fd \in {0} \cup Conns /\ cli_open \in BOOLEAN /\ child_pid \in {0} \cup Conns
          /\ expire_cnt \in Counts /\ already_reset \in BOOLEAN
          /\ file \in Counts \cup {Empty}
          /\ child \in [Conns -> {"none", "start", "recv", "reboot", "zombie", "reaped"}]
          /\ handler \in [Conns -> {"off", "trunc", "write"}]
          /\ urg \in [Conns -> BOOLEAN] /\ has_fd \in [Conns -> BOOLEAN]
          /\ queue \in Seq(Conns) /\ peer \in [Conns -> {"none", "up", "gone"}]
          /\ silent \in Counts /\ tainted \in BOOLEAN

(* The alarm has rebooted the peer.                                           *)
Rebooted == already_reset \/ \E k \in 1..Len(stack) : stack[k] \in {"trunc0", "write0"}

(* "RESET PEER" is justified.  The alarm reboots the peer only after          *)
(* PEER_EXPIRE_CNT alarms during which no heartbeat set the count back        *)
(* undisturbed, unless the count came from an empty file or an earlier run;   *)
(* a child does so only when its peer has closed the connection, or the alarm *)
(* closed it while it was being handed over.                                  *)
RebootJustified ==
  [][/\ ~Rebooted /\ Rebooted' => tainted \/ silent >= PEER_EXPIRE_CNT
     /\ \A c \in Conns : child'[c] = "reboot" => peer[c] = "gone" \/ already_reset]_vars

(* wait(0) in the handler of SIGCHLD waits for a child that lives only on     *)
(* behalf of the shell of a reboot, which system() had collected.             *)
WaitsForTheDead ==
  (\E k \in 1..Len(stack) : stack[k] = "wait") /\ Zombies = {} /\ Alive # {}
     => Rebooted

(* Silence is detected: unless heartbeats go on, the alarm reboots the peer   *)
(* in the end, or the count was spoilt and is beyond the limit for good.      *)
DetectsSilence == \/ <>Rebooted
                  \/ []<>(\E c \in Conns : handler[c] = "write")
                  \/ <>[](tainted /\ expire_cnt = Beyond)
=============================================================================

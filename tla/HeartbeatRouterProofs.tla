------------------------ MODULE HeartbeatRouterProofs -----------------------
(* Theorems about C/heartbeat_router.c, for any number of connections and any *)
(* PEER_EXPIRE_CNT.                                                           *)
EXTENDS HeartbeatRouter, SequenceTheorems, TLAPS

Points == {"alrm", "kill", "system", "trunc0", "write0", "trunc", "write", "wait"}

(* The parent's handlers by what they are about to do.                        *)
OnStack == {stack[k] : k \in 1..Len(stack)}
StackOK == /\ stack \in Seq(Points) /\ Len(stack) <= 2
           /\ \A j, k \in 1..Len(stack) : SignalOf(stack[j]) = SignalOf(stack[k]) => j = k

Resetting == OnStack \cap {"trunc0", "write0"} # {}
LEMMA RebootedIs == /\ Rebooted <=> already_reset \/ Resetting
                    /\ Rebooted' <=> already_reset' \/ Resetting'
  BY DEF Rebooted, Resetting, OnStack

CountingPoints == {"kill", "system", "trunc0", "write0", "trunc", "write"}
LEMMA CountingIs == /\ Counting <=> OnStack \cap CountingPoints # {}
                    /\ Counting' <=> OnStack' \cap CountingPoints # {}
  BY DEF Counting, CountingPoints, OnStack

(* A handler moves on: the others stay as they are.                           *)
LEMMA MovesOn ==
  ASSUME StackOK, NEW h, At(h), h # "wait", NEW p \in Points, p # "wait", Goto(p)
  PROVE  StackOK' /\ h \in OnStack /\ OnStack' = (OnStack \ {h}) \cup {p}
<1>1. /\ Len(stack) \in 1..2 /\ stack[1] = h /\ Len(stack') = Len(stack)
      /\ stack'[1] = p /\ \A k \in 2..Len(stack) : stack'[k] = stack[k]
      /\ stack' \in Seq(Points)
  <2>1. stack \in Seq(Points) /\ stack # <<>> /\ Len(stack) <= 2
    BY DEF StackOK, At
  <2>2. PICK t \in Seq(Points) : t = Tail(stack)
    BY <2>1, HeadTailProperties
  <2>3. /\ Len(stack) \in Nat \ {0} /\ stack[1] = h /\ Len(t) = Len(stack) - 1
        /\ \A k \in 1..Len(t) : t[k] = stack[k + 1]
    BY <2>1, <2>2, HeadTailProperties, EmptySeq DEF At
  <2>4. stack' = <<p>> \o t
    BY <2>2 DEF Goto
  <2>5. /\ stack' \in Seq(Points) /\ Len(stack') = Len(t) + 1 /\ stack'[1] = p
        /\ \A k \in 1..Len(t) : stack'[k + 1] = t[k]
    BY <2>2, <2>4
  <2>6. \A k \in 1..Len(t) : stack'[k + 1] = stack[k + 1]
    BY <2>3, <2>5
  <2>7. \A k \in 2..Len(stack) : k - 1 \in 1..Len(t) /\ k = (k - 1) + 1
    BY <2>3
  <2> QED
    BY <2>1, <2>3, <2>5, <2>6, <2>7
<1>2. SignalOf(p) = SignalOf(h)
  BY DEF SignalOf
<1>3. \A j, k \in 1..Len(stack') : SignalOf(stack'[j]) = SignalOf(stack'[k]) => j = k
  BY <1>1, <1>2 DEF StackOK
<1>4. \A k \in 2..Len(stack) : stack[k] # h
  BY <1>1 DEF StackOK
<1> QED
  BY <1>1, <1>3, <1>4 DEF StackOK, OnStack

LEMMA Returns ==
  ASSUME StackOK, NEW h, At(h), stack' = Tail(stack)
  PROVE  StackOK' /\ h \in OnStack /\ OnStack' = OnStack \ {h}
<1>1. /\ Len(stack) \in 1..2 /\ stack[1] = h /\ Len(stack') = Len(stack) - 1
      /\ \A k \in 1..Len(stack') : stack'[k] = stack[k + 1]
      /\ stack' \in Seq(Points)
  <2>1. stack \in Seq(Points) /\ stack # <<>> /\ Len(stack) <= 2
    BY DEF StackOK, At
  <2>2. Len(stack) \in Nat \ {0} /\ stack[1] = h
    BY <2>1, EmptySeq DEF At
  <2>3. /\ stack' \in Seq(Points) /\ Len(stack') = Len(stack) - 1
        /\ \A k \in 1..Len(stack') : stack'[k] = stack[k + 1]
    BY <2>1, HeadTailProperties
  <2> QED
    BY <2>1, <2>2, <2>3
<1>2. \A k \in 2..Len(stack) : stack[k] # h
  BY <1>1 DEF StackOK
<1>3. \A k \in 2..Len(stack) : k - 1 \in 1..Len(stack') /\ stack'[k - 1] = stack[k]
  BY <1>1
<1> QED
  BY <1>1, <1>2, <1>3 DEF StackOK, OnStack

(* A handler starts only when none of its signal runs: there are at most two. *)
LEMMA Starts ==
  ASSUME StackOK, pending \subseteq {"ALRM", "CHLD"}, NEW sig \in Deliverable,
         stack' = <<IF sig = "CHLD" THEN "wait" ELSE "alrm">> \o stack
  PROVE  /\ StackOK' /\ sig \in pending
         /\ OnStack' = OnStack \cup {IF sig = "CHLD" THEN "wait" ELSE "alrm"}
         /\ sig = "CHLD" => "wait" \notin OnStack
<1> DEFINE p == IF sig = "CHLD" THEN "wait" ELSE "alrm"
<1>1. sig \in pending /\ sig \in {"ALRM", "CHLD"} /\ SignalOf(p) = sig /\ p \in Points
      /\ \A k \in 1..Len(stack) : SignalOf(stack[k]) # sig
  BY DEF Deliverable, SignalOf, Points
<1>2. \A k \in 1..Len(stack) : SignalOf(stack[k]) \in {"ALRM", "CHLD"}
  BY DEF SignalOf
<1>3. Len(stack) < 2
  BY <1>1, <1>2 DEF StackOK
<1>4. /\ Len(stack') = Len(stack) + 1 /\ stack'[1] = p /\ stack' \in Seq(Points)
      /\ \A k \in 1..Len(stack) : stack'[k + 1] = stack[k]
  BY <1>1 DEF StackOK
<1>5. \A k \in 1..Len(stack') : k # 1 => k - 1 \in 1..Len(stack) /\ stack'[k] = stack[k - 1]
  BY <1>4 DEF StackOK
<1>6. \A j, k \in 1..Len(stack') : SignalOf(stack'[j]) = SignalOf(stack'[k]) => j = k
  BY <1>1, <1>4, <1>5 DEF StackOK
<1>7. OnStack' = OnStack \cup {p}
  BY <1>4, <1>5 DEF OnStack, StackOK
<1>8. "wait" \in OnStack => \E k \in 1..Len(stack) : SignalOf(stack[k]) = "CHLD"
  BY DEF OnStack, SignalOf
<1> QED
  BY <1>1, <1>3, <1>4, <1>6, <1>7, <1>8 DEF StackOK
-----------------------------------------------------------------------------
(* The invariant.                                                             *)
Types == /\ main \in {"accept", "fork", "pid", "close"}
         /\ pending \subseteq {"ALRM", "CHLD"} /\ armed \in BOOLEAN
         /\ cli_fd \in {0} \cup Conns /\ cli_open \in BOOLEAN /\ child_pid \in {0} \cup Conns
         /\ expire_cnt \in Counts /\ already_reset \in BOOLEAN
         /\ file \in Counts \cup {Empty}
         /\ child \in [Conns -> {"none", "start", "recv", "reboot", "zombie", "reaped"}]
         /\ handler \in [Conns -> {"off", "trunc", "write"}]
         /\ urg \in [Conns -> BOOLEAN] /\ has_fd \in [Conns -> BOOLEAN]
         /\ queue \in Seq(Conns) /\ peer \in [Conns -> {"none", "up", "gone"}]
         /\ silent \in Counts /\ tainted \in BOOLEAN

(* A connection has no child before the fork() for it: fork() never takes the *)
(* place of a child there is.                                                 *)
InQueue == {queue[k] : k \in 1..Len(queue)}
Fresh == /\ \A j, k \in 1..Len(queue) : queue[j] = queue[k] => j = k
         /\ \A c \in InQueue : child[c] = "none" /\ peer[c] # "none"
         /\ \A c \in Conns : peer[c] = "none" => child[c] = "none"
         /\ main = "fork" => /\ cli_fd \in Conns \ InQueue
                            /\ child[cli_fd] = "none" /\ peer[cli_fd] # "none"

(* Before the shell of a reboot, a SIGCHLD that is pending and one that is    *)
(* being handled each have a child to collect.                                *)
Owed == ~Rebooted =>
          /\ "CHLD" \in pending \/ "wait" \in OnStack => Zombies # {}
          /\ "CHLD" \in pending /\ "wait" \in OnStack => \E c, d \in Zombies : c # d

(* The count never exceeds the silence unless it was spoilt.                  *)
CountHonest == /\ ~tainted => file <= silent /\ (Counting => expire_cnt <= silent)
               /\ OnStack \cap {"kill", "system"} # {} => tainted \/ silent >= PEER_EXPIRE_CNT

(* Only a reboot closes a connection while it is being handed over.           *)
HandedOver ==
  /\ main = "fork" /\ ~cli_open =>
       already_reset \/ OnStack \cap {"system", "trunc0", "write0"} # {}
  /\ \A c \in Alive : ~has_fd[c] => already_reset
  /\ \A c \in Conns : child[c] = "reboot" => peer[c] = "gone" \/ already_reset

IInv == Types /\ StackOK /\ Fresh /\ Owed /\ CountHonest /\ HandedOver

LEMMA CountsAre == /\ Counts \subseteq Nat /\ PEER_EXPIRE_CNT \in Counts /\ Beyond \in Nat
                   /\ 0 \in Counts /\ Empty = -1 /\ \A n \in Counts : n <= Beyond
  BY RouterAssumption DEF Counts, Beyond, Empty

LEMMA SuccCounts == /\ \A n \in Counts : Succ(n) \in Counts /\ n <= Succ(n)
                    /\ \A m, n \in Counts : m <= n => Succ(m) <= Succ(n)
  BY RouterAssumption DEF Counts, Beyond, Succ

LEMMA InitI == Init => IInv
<1> SUFFICES ASSUME Init PROVE IInv
  OBVIOUS
<1>1. stack = <<>> /\ OnStack = {} /\ InQueue = {} /\ StackOK
  BY DEF Init, OnStack, InQueue, StackOK
<1>2. Types
  <2>1. urg \in [Conns -> BOOLEAN] /\ has_fd \in [Conns -> BOOLEAN]
    BY DEF Init
  <2>2. /\ child \in [Conns -> {"none", "start", "recv", "reboot", "zombie", "reaped"}]
        /\ handler \in [Conns -> {"off", "trunc", "write"}]
        /\ peer \in [Conns -> {"none", "up", "gone"}]
    BY DEF Init
  <2>3. queue \in Seq(Conns) /\ pending \subseteq {"ALRM", "CHLD"}
    BY EmptySeq DEF Init
  <2>4. expire_cnt \in Counts /\ silent \in Counts /\ file \in Counts \cup {Empty}
    BY CountsAre DEF Init
  <2> QED
    BY <2>1, <2>2, <2>3, <2>4 DEF Init, Types
<1>3. Fresh
  BY <1>1 DEF Init, Fresh
<1>4. Owed /\ CountHonest
  BY <1>1 DEF Init, Owed, CountHonest
<1>5. HandedOver
  <2>1. Alive = {} /\ \A c \in Conns : child[c] # "reboot"
    BY DEF Init, Alive
  <2> QED
    BY <2>1 DEF Init, HandedOver
<1> QED
  BY <1>1, <1>2, <1>3, <1>4, <1>5 DEF IInv

-----------------------------------------------------------------------------
LEMMA TypesStep == ASSUME IInv, [Next]_vars PROVE Types'
<1> USE DEF IInv
<1>1. CASE UNCHANGED vars
  BY <1>1 DEF Types, vars, parentVars, fdVars, childVars, netVars, history
<1>2. CASE HandlerStarts
  BY <1>2 DEF HandlerStarts, Types, fdVars, childVars, netVars, history
<1>3. CASE AlarmRings
  <2>1. expire_cnt' \in Counts
    BY <1>3 DEF AlarmRings, read_expire_cnt, Types
  <2>2. tainted' \in BOOLEAN
    BY <1>3 DEF AlarmRings, Types
  <2> QED
    BY <1>3, <2>1, <2>2 DEF AlarmRings, Types, fdVars, childVars, netVars
<1>4. CASE KillChild
  <2>1. child' \in [Conns -> {"none", "start", "recv", "reboot", "zombie", "reaped"}]
        /\ handler' \in [Conns -> {"off", "trunc", "write"}]
    BY <1>4 DEF KillChild, Types
  <2>2. /\ urg' = urg \/ urg' = [urg EXCEPT ![child_pid] = FALSE]
        /\ pending' = pending \/ pending' = pending \cup {"CHLD"}
    BY <1>4 DEF KillChild
  <2>3. urg \in [Conns -> BOOLEAN] /\ pending \subseteq {"ALRM", "CHLD"}
    BY DEF Types
  <2>4. urg' \in [Conns -> BOOLEAN]
    BY <2>2, <2>3
  <2>5. pending' \subseteq {"ALRM", "CHLD"}
    BY <2>2, <2>3
  <2> QED
    BY <1>4, <2>1, <2>4, <2>5 DEF KillChild, Types, netVars, history
<1>5. CASE Reboot
  BY <1>5 DEF Reboot, Types, fdVars, childVars, netVars, history
<1>6. CASE Truncate
  BY <1>6 DEF Truncate, Types, fdVars, childVars, netVars, history
<1>7. CASE WriteZero
  BY <1>7, CountsAre DEF WriteZero, Types, fdVars, childVars, netVars, history
<1>8. CASE WriteCount
  BY <1>8, SuccCounts DEF WriteCount, NewCount, Types, fdVars, childVars, netVars
<1>9. CASE Wait
  BY <1>9 DEF Wait, Types, fdVars, netVars, history
<1>10. CASE Accept \/ AcceptFails
  <2>1. queue \in Seq(Conns) /\ queue # <<>> /\ queue' = Tail(queue)
        /\ cli_fd' \in {0, Head(queue)}
    BY <1>10 DEF Accept, AcceptFails, Types
  <2>2. queue' \in Seq(Conns) /\ cli_fd' \in {0} \cup Conns
    BY <2>1, HeadTailProperties
  <2> QED
    BY <1>10, <2>2 DEF Accept, AcceptFails, Types, childVars, history
<1>11. CASE Fork
  BY <1>11 DEF Fork, Types, fdVars, netVars, history
<1>12. CASE ForkFails \/ SetPid \/ CloseCli
  BY <1>12 DEF ForkFails, SetPid, CloseCli, Types, fdVars, childVars, netVars, history
<1>13. CASE Ring
  BY <1>13 DEF Ring, Types, fdVars, childVars, netVars, history
<1>14. ASSUME NEW c \in Conns, Child(c) PROVE Types'
  <2>1. CASE Claim(c) \/ RecvReturns(c)
    BY <2>1 DEF Claim, RecvReturns, Types, parentVars, fdVars, netVars, history
  <2>2. CASE ChildExits(c)
    BY <2>2 DEF ChildExits, Types, fdVars, netVars, history
  <2>3. CASE UrgStarts(c) \/ UrgTruncates(c)
    BY <2>3 DEF UrgStarts, UrgTruncates, Types, parentVars, fdVars, netVars, history
  <2>4. CASE UrgResets(c)
    BY <2>4, CountsAre
       DEF UrgResets, ResetValue, Types, parentVars, fdVars, netVars, history
  <2> QED
    BY <1>14, <2>1, <2>2, <2>3, <2>4 DEF Child
<1>15. ASSUME NEW c \in Conns, Connect(c) PROVE Types'
  <2>1. queue' \in Seq(Conns)
    BY <1>15, AppendProperties DEF Connect, Types
  <2> QED
    BY <1>15, <2>1 DEF Connect, Types, parentVars, fdVars, childVars, history
<1>16. ASSUME NEW c \in Conns, Heartbeat(c) \/ Leave(c) PROVE Types'
  BY <1>16 DEF Heartbeat, Leave, Types, parentVars, fdVars, childVars, netVars, history
<1> QED
  BY <1>1, <1>2, <1>3, <1>4, <1>5, <1>6, <1>7, <1>8, <1>9, <1>10, <1>11, <1>12, <1>13, <1>14,
     <1>15, <1>16 DEF Next, Parent

-----------------------------------------------------------------------------
(* What a step may do to a child: only fork() makes one.                      *)
LEMMA ChildKept ==
  ASSUME IInv, [Next]_vars, ~Fork, NEW c \in Conns
  PROVE  \/ child'[c] = child[c] \/ Claim(c) \/ RecvReturns(c)
         \/ child[c] # "none" /\ child'[c] \in {"zombie", "reaped"}
<1> USE DEF IInv
<1>1. CASE KillChild
  BY <1>1 DEF KillChild, Alive, Types
<1>2. CASE Wait
  BY <1>2 DEF Wait, Zombies, Types
<1>3. ASSUME NEW d \in Conns, Claim(d) \/ RecvReturns(d) \/ ChildExits(d)
      PROVE  c = d \/ child'[c] = child[c]
  BY <1>3 DEF Claim, RecvReturns, ChildExits, Types
<1>4. ChildExits(c) => child[c] # "none" /\ child'[c] = "zombie"
  BY DEF ChildExits, ChildAt, Types
<1>5. UNCHANGED vars \/ HandlerStarts \/ AlarmRings \/ Reboot \/ Truncate \/ WriteZero
      \/ WriteCount \/ Accept \/ AcceptFails \/ ForkFails \/ SetPid \/ CloseCli \/ Ring
      => child' = child
  BY DEF vars, HandlerStarts, AlarmRings, Reboot, Truncate, WriteZero, WriteCount, Accept,
         AcceptFails, ForkFails, SetPid, CloseCli, Ring, childVars
<1>6. ASSUME NEW d \in Conns, \/ UrgStarts(d) \/ UrgTruncates(d) \/ UrgResets(d)
                              \/ Connect(d) \/ Heartbeat(d) \/ Leave(d)
      PROVE  child' = child
  BY <1>6 DEF UrgStarts, UrgTruncates, UrgResets, Connect, Heartbeat, Leave, childVars
<1> QED
  BY <1>1, <1>2, <1>3, <1>4, <1>5, <1>6 DEF Next, Parent, Child

LEMMA FreshStep == ASSUME IInv, [Next]_vars PROVE Fresh'
<1> USE DEF IInv
<1>0. queue \in Seq(Conns) /\ Len(queue) \in Nat /\ \A k \in 1..Len(queue) : queue[k] \in Conns
  BY DEF Types
<1>1. CASE Accept \/ AcceptFails
  <2>1. /\ queue # <<>> /\ queue' = Tail(queue) /\ UNCHANGED <<child, peer>>
        /\ (main' = "fork" => cli_fd' = Head(queue))
    BY <1>1 DEF Accept, AcceptFails, MainAt, childVars
  <2>2. /\ queue' \in Seq(Conns) /\ Len(queue') = Len(queue) - 1 /\ Head(queue) = queue[1]
        /\ Head(queue) \in Conns
        /\ \A k \in 1..Len(queue') : queue'[k] = queue[k + 1]
    BY <1>0, <2>1, HeadTailProperties
  <2>3. 1 \in 1..Len(queue) /\ \A k \in 1..Len(queue') : k + 1 \in 1..Len(queue) /\ k + 1 # 1
    BY <1>0, <2>1, <2>2, EmptySeq
  <2>4. InQueue' \subseteq InQueue /\ Head(queue) \in InQueue \ InQueue'
    BY <2>2, <2>3 DEF InQueue, Fresh
  <2>5. \A j, k \in 1..Len(queue') : queue'[j] = queue'[k] => j = k
    <3>1. \A j, k \in 1..Len(queue') : queue'[j] = queue'[k] => j + 1 = k + 1
      BY <2>2, <2>3 DEF Fresh
    <3> QED
      BY <3>1
  <2> QED
    BY <2>1, <2>2, <2>4, <2>5 DEF Fresh
<1>2. CASE Fork
  <2>1. /\ cli_fd \in Conns \ InQueue /\ UNCHANGED <<queue, peer>> /\ main' = "pid"
        /\ child' = [child EXCEPT ![cli_fd] = "start"] /\ peer[cli_fd] # "none"
    BY <1>2 DEF Fork, MainAt, Fresh, netVars
  <2>2. \A c \in Conns : c # cli_fd => child'[c] = child[c]
    BY <2>1 DEF Types
  <2>3. InQueue' = InQueue /\ InQueue \subseteq Conns
    BY <1>0, <2>1 DEF InQueue
  <2> QED
    BY <2>1, <2>2, <2>3 DEF Fresh
<1>3. ASSUME NEW c \in Conns, Connect(c) PROVE Fresh'
  <2>1. /\ peer[c] = "none" /\ queue' = Append(queue, c) /\ UNCHANGED <<child, main, cli_fd>>
        /\ \A d \in Conns : peer'[d] = IF d = c THEN "up" ELSE peer[d]
    BY <1>3 DEF Connect, Types, parentVars, fdVars, childVars
  <2>2. /\ Len(queue') = Len(queue) + 1 /\ queue'[Len(queue) + 1] = c
        /\ \A k \in 1..Len(queue) : queue'[k] = queue[k]
    BY <1>0, <2>1, AppendProperties
  <2>3. InQueue' = InQueue \cup {c} /\ c \notin InQueue /\ InQueue \subseteq Conns
    BY <1>0, <2>1, <2>2 DEF InQueue, Fresh
  <2>4. \A k \in 1..Len(queue) : queue[k] # c
    BY <2>3 DEF InQueue
  <2>5. \A j, k \in 1..Len(queue') : queue'[j] = queue'[k] => j = k
    BY <1>0, <2>2, <2>4 DEF Fresh
  <2> QED
    BY <2>1, <2>3, <2>5 DEF Fresh
<1>4. CASE ~Accept /\ ~AcceptFails /\ ~Fork /\ ~\E c \in Conns : Connect(c)
  <2>1. queue' = queue /\ (main' = "fork" => main = "fork" /\ cli_fd' = cli_fd)
    <3>1. UNCHANGED vars \/ HandlerStarts \/ AlarmRings \/ KillChild \/ Reboot \/ Truncate
          \/ WriteZero \/ WriteCount \/ Wait \/ ForkFails \/ SetPid \/ CloseCli \/ Ring
          => queue' = queue /\ (main' = "fork" => main = "fork" /\ cli_fd' = cli_fd)
      BY DEF vars, HandlerStarts, AlarmRings, KillChild, Reboot, Truncate, WriteZero,
             WriteCount, Wait, ForkFails, SetPid, CloseCli, Ring, netVars, fdVars, parentVars
    <3>2. ASSUME NEW c \in Conns, Child(c) \/ Heartbeat(c) \/ Leave(c)
          PROVE  UNCHANGED <<queue, main, cli_fd>>
      BY <3>2 DEF Child, Claim, RecvReturns, ChildExits, UrgStarts, UrgTruncates, UrgResets,
                  Heartbeat, Leave, netVars, fdVars, parentVars
    <3> QED
      BY <1>4, <3>1, <3>2 DEF Next, Parent
  <2>2. \A c \in Conns : peer'[c] = "none" <=> peer[c] = "none"
    <3>1. ASSUME NEW d \in Conns, Leave(d)
          PROVE  \A c \in Conns : peer'[c] = "none" <=> peer[c] = "none"
      BY <3>1 DEF Leave, Types
    <3>2. UNCHANGED vars \/ HandlerStarts \/ AlarmRings \/ KillChild \/ Reboot \/ Truncate
          \/ WriteZero \/ WriteCount \/ Wait \/ ForkFails \/ SetPid \/ CloseCli \/ Ring
          => peer' = peer
      BY DEF vars, HandlerStarts, AlarmRings, KillChild, Reboot, Truncate, WriteZero,
             WriteCount, Wait, ForkFails, SetPid, CloseCli, Ring, netVars
    <3>3. ASSUME NEW c \in Conns, Child(c) \/ Heartbeat(c)
          PROVE  peer' = peer
      BY <3>3 DEF Child, Claim, RecvReturns, ChildExits, UrgStarts, UrgTruncates, UrgResets,
                  Heartbeat, netVars
    <3> QED
      BY <1>4, <3>1, <3>2, <3>3 DEF Next, Parent
  <2>3. \A c \in Conns : child[c] = "none" => child'[c] = "none"
    <3>1. \A c \in Conns : Claim(c) \/ RecvReturns(c) => child[c] # "none"
      BY DEF Claim, RecvReturns, ChildAt
    <3> QED
      BY <1>4, <3>1, ChildKept
  <2>4. InQueue' = InQueue /\ InQueue \subseteq Conns
    BY <1>0, <2>1 DEF InQueue
  <2> QED
    BY <2>1, <2>2, <2>3, <2>4 DEF Fresh
<1> QED
  BY <1>1, <1>2, <1>3, <1>4

-----------------------------------------------------------------------------
(* What a step does to the handlers of the parent.                            *)
StackKept == UNCHANGED <<stack, already_reset>>
LEMMA HandlersMove ==
  ASSUME IInv, [Next]_vars
  PROVE  StackOK' /\
         \/ StackKept /\ OnStack' = OnStack
         \/ HandlerStarts /\ \/ OnStack' = OnStack \cup {"alrm"} /\ pending' = pending \ {"ALRM"}
                             \/ /\ OnStack' = OnStack \cup {"wait"} /\ "wait" \notin OnStack
                                /\ "CHLD" \in pending /\ pending' = pending \ {"CHLD"}
         \/ AlarmRings /\ OnStack' = (OnStack \ {"alrm"})
                                       \cup {IF Expired(expire_cnt') THEN "kill" ELSE "trunc"}
         \/ KillChild /\ "kill" \in OnStack /\ OnStack' = (OnStack \ {"kill"}) \cup {"system"}
         \/ Reboot /\ "system" \in OnStack /\ OnStack' = (OnStack \ {"system"}) \cup {"trunc0"}
         \/ Truncate /\ "trunc0" \in OnStack /\ OnStack' = (OnStack \ {"trunc0"}) \cup {"write0"}
         \/ Truncate /\ "trunc" \in OnStack /\ OnStack' = (OnStack \ {"trunc"}) \cup {"write"}
         \/ WriteZero /\ OnStack' = (OnStack \ {"write0"}) \cup {"trunc"}
         \/ WriteCount /\ "write" \in OnStack /\ OnStack' = OnStack \ {"write"}
         \/ Wait /\ "wait" \in OnStack /\ OnStack' = OnStack \ {"wait"}
<1> USE DEF IInv
<1>1. StackKept => StackOK' /\ OnStack' = OnStack
  BY DEF StackKept, StackOK, OnStack
<1>2. CASE HandlerStarts
  <2>1. PICK sig \in Deliverable :
           /\ pending' = pending \ {sig}
           /\ stack' = <<IF sig = "CHLD" THEN "wait" ELSE "alrm">> \o stack
    BY <1>2 DEF HandlerStarts
  <2>2. sig \in pending /\ sig \in {"ALRM", "CHLD"}
    BY DEF Deliverable, Types
  <2> QED
    BY <1>2, <2>1, <2>2, Starts DEF Types
<1>3. CASE AlarmRings
  BY <1>3, MovesOn DEF AlarmRings, Points
<1>4. CASE KillChild
  BY <1>4, MovesOn DEF KillChild, Points
<1>5. CASE Reboot
  BY <1>5, MovesOn DEF Reboot, Points
<1>6. CASE Truncate
  <2>1. CASE At("trunc0")
    BY <1>6, <2>1, MovesOn DEF Truncate, Points, At
  <2>2. CASE At("trunc")
    BY <1>6, <2>2, MovesOn DEF Truncate, Points, At
  <2> QED
    BY <1>6, <2>1, <2>2 DEF Truncate
<1>7. CASE WriteZero
  BY <1>7, MovesOn DEF WriteZero, Points
<1>8. CASE WriteCount
  BY <1>8, Returns DEF WriteCount, Return
<1>9. CASE Wait
  BY <1>9, Returns DEF Wait, Return, AfterWait
<1>10. CASE Accept \/ AcceptFails \/ Fork \/ ForkFails \/ SetPid \/ CloseCli \/ Ring
  BY <1>1, <1>10 DEF Accept, AcceptFails, Fork, ForkFails, SetPid, CloseCli, Ring, StackKept
<1>11. ASSUME NEW c \in Conns, Child(c) \/ Connect(c) \/ Heartbeat(c) \/ Leave(c)
       PROVE  StackKept
  BY <1>11 DEF Child, Claim, RecvReturns, ChildExits, UrgStarts, UrgTruncates, UrgResets,
               Connect, Heartbeat, Leave, parentVars, StackKept
<1>12. UNCHANGED vars => StackKept
  BY DEF vars, parentVars, StackKept
<1> QED
  BY <1>1, <1>2, <1>3, <1>4, <1>5, <1>6, <1>7, <1>8, <1>9, <1>10, <1>11, <1>12
     DEF Next, Parent

(* What the alarm has done once stays done.                                   *)
LEMMA RebootOnce == ASSUME IInv, [Next]_vars
                    PROVE  /\ Rebooted => Rebooted'
                           /\ already_reset => already_reset'
                           /\ Rebooted' /\ ~Rebooted => "system" \in OnStack
<1>1. already_reset' = already_reset \/ WriteZero
  BY HandlersMove DEF StackKept, HandlerStarts, AlarmRings, KillChild, Reboot, Truncate,
                      WriteCount, Wait
<1>2. WriteZero => already_reset'
  BY DEF WriteZero
<1>3. Resetting => Resetting' \/ WriteZero
  BY HandlersMove DEF Resetting
<1>4. Resetting' => Resetting \/ "system" \in OnStack
  BY HandlersMove DEF Resetting
<1>5. WriteZero => Resetting
  BY MovesOn DEF WriteZero, IInv, Points, Resetting
<1> QED
  BY <1>1, <1>2, <1>3, <1>4, <1>5, RebootedIs

-----------------------------------------------------------------------------
(* Children become zombies with a SIGCHLD, and are collected by a handler     *)
(* that ends.                                                                 *)
LEMMA ZombiesMove ==
  ASSUME IInv, [Next]_vars
  PROVE  \/ Zombies' = Zombies /\ ("CHLD" \in pending' => "CHLD" \in pending)
         \/ /\ \E c \in Conns \ Zombies : Zombies' = Zombies \cup {c}
            /\ "wait" \in OnStack' => "wait" \in OnStack
         \/ Wait \/ Reboot
<1> USE DEF IInv
<1>1. CASE KillChild
  <2>1. CASE child_pid \in Alive
    <3>0. child_pid \in Conns /\ child' = [child EXCEPT ![child_pid] = "zombie"]
      BY <1>1, <2>1 DEF KillChild, Alive
    <3>1. child_pid \in Conns \ Zombies /\ Zombies' = Zombies \cup {child_pid}
      BY <2>1, <3>0 DEF Alive, Zombies, Types
    <3>2. "wait" \in OnStack' => "wait" \in OnStack
      BY <1>1, MovesOn DEF KillChild, Points
    <3> QED
      BY <3>1, <3>2
  <2>2. CASE child_pid \notin Alive
    BY <1>1, <2>2 DEF KillChild, Zombies
  <2> QED
    BY <2>1, <2>2
<1>2. CASE Fork
  <2>1. cli_fd \in Conns /\ child[cli_fd] = "none" /\ pending' = pending
        /\ child' = [child EXCEPT ![cli_fd] = "start"]
    BY <1>2 DEF Fork, MainAt, Fresh
  <2> QED
    BY <2>1 DEF Zombies, Types
<1>3. ASSUME NEW c \in Conns, ChildExits(c)
      PROVE  /\ \E d \in Conns \ Zombies : Zombies' = Zombies \cup {d}
             /\ "wait" \in OnStack' => "wait" \in OnStack
  <2>1. c \notin Zombies /\ Zombies' = Zombies \cup {c} /\ OnStack' = OnStack
    BY <1>3 DEF ChildExits, ChildAt, Zombies, OnStack, Types
  <2> QED
    BY <2>1
<1>4. ASSUME NEW c \in Conns, Claim(c) \/ RecvReturns(c)
      PROVE  Zombies' = Zombies /\ pending' = pending
  BY <1>4 DEF Claim, RecvReturns, ChildAt, Zombies, Types, parentVars
<1>5. UNCHANGED vars \/ HandlerStarts \/ AlarmRings \/ Truncate \/ WriteZero \/ WriteCount
      \/ Accept \/ AcceptFails \/ ForkFails \/ SetPid \/ CloseCli \/ Ring
      => child' = child /\ ("CHLD" \in pending' => "CHLD" \in pending)
  BY DEF vars, HandlerStarts, AlarmRings, Truncate, WriteZero, WriteCount, Accept, AcceptFails,
         ForkFails, SetPid, CloseCli, Ring, childVars, parentVars
<1>6. ASSUME NEW c \in Conns, \/ UrgStarts(c) \/ UrgTruncates(c) \/ UrgResets(c)
                              \/ Connect(c) \/ Heartbeat(c) \/ Leave(c)
      PROVE  child' = child /\ pending' = pending
  BY <1>6 DEF UrgStarts, UrgTruncates, UrgResets, Connect, Heartbeat, Leave, childVars, parentVars
<1>7. child' = child => Zombies' = Zombies
  BY DEF Zombies
<1> QED
  BY <1>1, <1>2, <1>3, <1>4, <1>5, <1>6, <1>7 DEF Next, Parent, Child

LEMMA OwedStep == ASSUME IInv, [Next]_vars PROVE Owed'
<1> SUFFICES ASSUME ~Rebooted'
             PROVE  /\ "CHLD" \in pending' \/ "wait" \in OnStack' => Zombies' # {}
                    /\ "CHLD" \in pending' /\ "wait" \in OnStack' => \E c, d \in Zombies' : c # d
  BY DEF Owed
<1>1. /\ "CHLD" \in pending \/ "wait" \in OnStack => Zombies # {}
      /\ "CHLD" \in pending /\ "wait" \in OnStack => \E c, d \in Zombies : c # d
  BY RebootOnce DEF IInv, Owed
<1>2. ~Reboot
  BY MovesOn, RebootedIs DEF Reboot, IInv, Points, Resetting
<1>3. CASE HandlerStarts
  <2>1. Zombies' = Zombies
    BY <1>3 DEF HandlerStarts, childVars, Zombies
  <2>2. PICK sig \in Deliverable :
           /\ pending' = pending \ {sig}
           /\ stack' = <<IF sig = "CHLD" THEN "wait" ELSE "alrm">> \o stack
    BY <1>3 DEF HandlerStarts
  <2>3. /\ sig \in pending /\ (sig = "CHLD" => "wait" \notin OnStack)
        /\ OnStack' = OnStack \cup {IF sig = "CHLD" THEN "wait" ELSE "alrm"}
    BY <2>2, Starts DEF IInv, Types
  <2> QED
    BY <1>1, <2>1, <2>2, <2>3
<1>4. CASE Wait
  <2>1. "wait" \in OnStack /\ "wait" \notin OnStack' /\ pending' = pending
    BY <1>4, Returns DEF Wait, Return, AfterWait, IInv
  <2>2. PICK c \in Zombies : child' = [child EXCEPT ![c] = "reaped"]
    BY <1>1, <1>4, <2>1 DEF Wait
  <2>3. Zombies' = Zombies \ {c}
    BY <2>2 DEF Zombies, IInv, Types
  <2> QED
    BY <1>1, <2>1, <2>3
<1>5. CASE ~HandlerStarts /\ ~Wait
  <2>1. "wait" \in OnStack' => "wait" \in OnStack
    BY <1>5, HandlersMove
  <2> QED
    BY <1>1, <1>2, <1>5, <2>1, ZombiesMove
<1> QED
  BY <1>3, <1>4, <1>5

-----------------------------------------------------------------------------
LEMMA HonestStep == ASSUME IInv, [Next]_vars PROVE CountHonest'
<1> USE DEF IInv
<1>0. /\ file \in Int /\ silent \in Nat /\ expire_cnt \in Nat /\ PEER_EXPIRE_CNT \in Nat
      /\ silent \in Counts /\ expire_cnt \in Counts
  BY CountsAre DEF Types
<1>1. CASE AlarmRings
  <2>1. UNCHANGED <<file, silent>> /\ tainted' = (tainted \/ file = Empty)
        /\ expire_cnt' \in read_expire_cnt
    BY <1>1 DEF AlarmRings
  <2>2. ~tainted' => ~tainted /\ expire_cnt' = file /\ file <= silent
    BY <2>1 DEF read_expire_cnt, CountHonest
  <2>3. OnStack' \cap {"kill", "system"} # {} =>
          OnStack \cap {"kill", "system"} # {} \/ expire_cnt' = PEER_EXPIRE_CNT
    BY <1>1, MovesOn DEF AlarmRings, Points, Expired
  <2> QED
    BY <1>0, <2>1, <2>2, <2>3 DEF CountHonest
<1>2. CASE Truncate \/ WriteZero
  <2>1. UNCHANGED <<silent, tainted, expire_cnt>> /\ file' <= silent
    BY <1>0, <1>2, CountsAre DEF Truncate, WriteZero, history
  <2>2. OnStack \cap CountingPoints # {}
        /\ (OnStack' \cap {"kill", "system"} # {} => OnStack \cap {"kill", "system"} # {})
    <3>1. CASE At("trunc0") /\ Goto("write0")
      BY <3>1, MovesOn DEF Points, CountingPoints
    <3>2. CASE At("trunc") /\ Goto("write")
      BY <3>2, MovesOn DEF Points, CountingPoints
    <3>3. CASE At("write0") /\ Goto("trunc")
      BY <3>3, MovesOn DEF Points, CountingPoints
    <3> QED
      BY <1>2, <3>1, <3>2, <3>3 DEF Truncate, WriteZero, At
  <2> QED
    BY <2>1, <2>2, CountingIs DEF CountHonest
<1>3. CASE WriteCount
  <2>1. /\ UNCHANGED <<tainted, expire_cnt>> /\ file' = Succ(expire_cnt) /\ silent' = Succ(silent)
        /\ "write" \in OnStack /\ OnStack' \subseteq OnStack
    BY <1>3, Returns DEF WriteCount, NewCount, Return
  <2>2. ~tainted => expire_cnt <= silent
    BY <2>1, CountingIs DEF CountHonest, CountingPoints
  <2>3. silent <= silent' /\ silent' \in Nat /\ (~tainted => file' <= silent')
    BY <1>0, <2>1, <2>2, SuccCounts, CountsAre
  <2>4. ~tainted => expire_cnt <= silent'
    BY <1>0, <2>2, <2>3
  <2>5. silent >= PEER_EXPIRE_CNT => silent' >= PEER_EXPIRE_CNT
    BY <1>0, <2>3
  <2> QED
    BY <2>1, <2>3, <2>4, <2>5 DEF CountHonest
<1>4. CASE UNCHANGED <<file, silent, tainted, expire_cnt>>
           /\ ~AlarmRings /\ ~Truncate /\ ~WriteZero /\ ~WriteCount
  <2>1. /\ OnStack' \cap CountingPoints # {} => OnStack \cap CountingPoints # {}
        /\ OnStack' \cap {"kill", "system"} # {} => OnStack \cap {"kill", "system"} # {}
    BY <1>4, HandlersMove DEF CountingPoints
  <2> QED
    BY <1>4, <2>1, CountingIs DEF CountHonest
<1>5. ASSUME NEW c \in Conns, UrgTruncates(c) PROVE CountHonest'
  <2>1. UNCHANGED <<silent, tainted, expire_cnt, stack>> /\ file' <= silent
    BY <1>0, <1>5, CountsAre DEF UrgTruncates, parentVars, history
  <2> QED
    BY <2>1 DEF CountHonest, Counting, OnStack
<1>6. ASSUME NEW c \in Conns, UrgResets(c) PROVE CountHonest'
  <2>1. UNCHANGED <<expire_cnt, stack>> /\ file' = 0 /\ 0 <= silent /\ OnStack' = OnStack
    BY <1>0, <1>6 DEF UrgResets, ResetValue, parentVars, OnStack
  <2>2. CASE Counting
    BY <1>6, <2>1, <2>2 DEF UrgResets, history, CountHonest, Counting
  <2>3. CASE ~Counting
    <3>1. ~Counting' /\ OnStack' \cap {"kill", "system"} = {}
      BY <2>1, <2>3, CountingIs DEF CountingPoints
    <3> QED
      BY <1>6, <2>1, <2>3, <3>1 DEF UrgResets, CountHonest
  <2> QED
    BY <2>2, <2>3
<1>7. UNCHANGED vars \/ HandlerStarts \/ KillChild \/ Reboot \/ Wait \/ Accept \/ AcceptFails
      \/ Fork \/ ForkFails \/ SetPid \/ CloseCli \/ Ring
      => UNCHANGED <<file, silent, tainted, expire_cnt>>
  BY DEF vars, HandlerStarts, KillChild, Reboot, Wait, Accept, AcceptFails, Fork, ForkFails,
         SetPid, CloseCli, Ring, parentVars, history
<1>8. ASSUME NEW c \in Conns, \/ Claim(c) \/ RecvReturns(c) \/ ChildExits(c) \/ UrgStarts(c)
                              \/ Connect(c) \/ Heartbeat(c) \/ Leave(c)
      PROVE  UNCHANGED <<file, silent, tainted, expire_cnt>>
  BY <1>8 DEF Claim, RecvReturns, ChildExits, UrgStarts, Connect, Heartbeat, Leave, parentVars,
              history
<1> QED
  BY <1>1, <1>2, <1>3, <1>4, <1>5, <1>6, <1>7, <1>8 DEF Next, Parent, Child

-----------------------------------------------------------------------------
LEMMA AliveComes == ASSUME IInv, [Next]_vars, ~Fork, NEW c \in Alive' PROVE c \in Alive
<1>1. c \in Conns /\ child'[c] \notin {"zombie", "reaped"}
  BY DEF Alive
<1>2. Claim(c) \/ RecvReturns(c) => c \in Alive
  BY DEF Claim, RecvReturns, ChildAt
<1> QED
  BY <1>1, <1>2, ChildKept DEF Alive

LEMMA RebootsKnow ==
  ASSUME IInv, [Next]_vars, NEW c \in Conns, child'[c] = "reboot"
  PROVE  peer[c] = "gone" \/ already_reset
<1>1. CASE child[c] = "reboot"
  BY <1>1 DEF IInv, HandedOver
<1>2. CASE RecvReturns(c)
  BY <1>2 DEF RecvReturns, PeerGone, ChildAt, IInv, HandedOver
<1>3. ~Claim(c)
  BY DEF Claim, IInv, Types
<1>4. Fork => child'[c] = child[c] \/ child'[c] = "start"
  BY DEF Fork, IInv, Types
<1> QED
  BY <1>1, <1>2, <1>3, <1>4, ChildKept

LEMMA GoneStaysGone ==
  ASSUME IInv, [Next]_vars, NEW c \in Conns, peer[c] = "gone" PROVE peer'[c] = "gone"
<1>1. ASSUME NEW d \in Conns, Connect(d) \/ Leave(d) PROVE peer'[c] = "gone"
  BY <1>1 DEF Connect, Leave, IInv, Types
<1>2. UNCHANGED vars \/ Parent \/ Ring => peer' = peer
  BY DEF vars, Parent, HandlerStarts, AlarmRings, KillChild, Reboot, Truncate, WriteZero,
         WriteCount, Wait, Accept, AcceptFails, Fork, ForkFails, SetPid, CloseCli, Ring, netVars
<1>3. ASSUME NEW d \in Conns, Child(d) \/ Heartbeat(d) PROVE peer' = peer
  BY <1>3 DEF Child, Claim, RecvReturns, ChildExits, UrgStarts, UrgTruncates, UrgResets,
              Heartbeat, netVars
<1> QED
  BY <1>1, <1>2, <1>3 DEF Next

LEMMA HandedStep == ASSUME IInv, [Next]_vars PROVE HandedOver'
<1> USE DEF IInv
<1>1. main' = "fork" /\ ~cli_open' =>
        already_reset' \/ OnStack' \cap {"system", "trunc0", "write0"} # {}
  <2> SUFFICES ASSUME main' = "fork", ~cli_open', ~already_reset'
               PROVE  OnStack' \cap {"system", "trunc0", "write0"} # {}
    OBVIOUS
  <2>1. CASE KillChild
    BY <2>1, MovesOn DEF KillChild, Points
  <2>2. CASE ~KillChild
    <3>1. main = "fork" /\ ~cli_open
      <4>1. UNCHANGED vars \/ HandlerStarts \/ AlarmRings \/ Reboot \/ Truncate \/ WriteZero
            \/ WriteCount \/ Wait \/ Ring => UNCHANGED <<main, cli_open>>
        BY DEF vars, HandlerStarts, AlarmRings, Reboot, Truncate, WriteZero, WriteCount, Wait,
               Ring, parentVars, fdVars
      <4>2. ASSUME NEW c \in Conns, Child(c) \/ Connect(c) \/ Heartbeat(c) \/ Leave(c)
            PROVE  UNCHANGED <<main, cli_open>>
        BY <4>2 DEF Child, Claim, RecvReturns, ChildExits, UrgStarts, UrgTruncates, UrgResets,
                    Connect, Heartbeat, Leave, parentVars, fdVars
      <4>3. ~(Accept \/ AcceptFails \/ Fork \/ ForkFails \/ SetPid \/ CloseCli)
        BY DEF Accept, AcceptFails, Fork, ForkFails, SetPid, CloseCli, MainAt
      <4> QED
        BY <2>2, <4>1, <4>2, <4>3 DEF Next, Parent
    <3>2. OnStack \cap {"system", "trunc0", "write0"} # {} /\ ~WriteZero
      BY <3>1, RebootOnce DEF HandedOver, WriteZero
    <3> QED
      BY <3>2, HandlersMove
  <2> QED
    BY <2>1, <2>2
<1>2. \A c \in Alive' : ~has_fd'[c] => already_reset'
  <2> SUFFICES ASSUME NEW c \in Alive', ~has_fd'[c] PROVE already_reset'
    OBVIOUS
  <2>1. CASE Fork
    <3>1. /\ child' = [child EXCEPT ![cli_fd] = "start"] /\ main = "fork"
          /\ has_fd' = [has_fd EXCEPT ![cli_fd] = cli_open] /\ OnStack = {}
      BY <2>1 DEF Fork, MainAt, OnStack
    <3>2. CASE c = cli_fd
      <4>1. ~cli_open
        BY <3>1, <3>2 DEF Types, Alive
      <4> QED
        BY <3>1, <4>1, RebootOnce DEF HandedOver
    <3>3. CASE c # cli_fd
      <4>1. c \in Alive /\ ~has_fd[c]
        BY <3>1, <3>3 DEF Types, Alive
      <4> QED
        BY <4>1, RebootOnce DEF HandedOver
    <3> QED
      BY <3>2, <3>3
  <2>2. CASE ~Fork
    <3>1. has_fd' = has_fd
      <4>1. UNCHANGED vars \/ HandlerStarts \/ AlarmRings \/ KillChild \/ Reboot \/ Truncate
            \/ WriteZero \/ WriteCount \/ Wait \/ Accept \/ AcceptFails \/ ForkFails \/ SetPid
            \/ CloseCli \/ Ring => has_fd' = has_fd
        BY DEF vars, HandlerStarts, AlarmRings, KillChild, Reboot, Truncate, WriteZero,
               WriteCount, Wait, Accept, AcceptFails, ForkFails, SetPid, CloseCli, Ring, childVars
      <4>2. ASSUME NEW d \in Conns, Child(d) \/ Connect(d) \/ Heartbeat(d) \/ Leave(d)
            PROVE  has_fd' = has_fd
        BY <4>2 DEF Child, Claim, RecvReturns, ChildExits, UrgStarts, UrgTruncates, UrgResets,
                    Connect, Heartbeat, Leave, childVars
      <4> QED
        BY <2>2, <4>1, <4>2 DEF Next, Parent
    <3>2. c \in Alive
      BY <2>2, AliveComes
    <3> QED
      BY <3>1, <3>2, RebootOnce DEF HandedOver
  <2> QED
    BY <2>1, <2>2
<1>3. \A c \in Conns : child'[c] = "reboot" => peer[c] = "gone" \/ already_reset
  BY RebootsKnow
<1>4. \A c \in Conns : peer[c] = "gone" => peer'[c] = "gone"
  BY GoneStaysGone
<1> QED
  BY <1>1, <1>2, <1>3, <1>4, RebootOnce DEF HandedOver

LEMMA NextI == IInv /\ [Next]_vars => IInv'
<1> SUFFICES ASSUME IInv, [Next]_vars PROVE IInv'
  OBVIOUS
<1> QED
  BY TypesStep, HandlersMove, FreshStep, OwedStep, HonestStep, HandedStep DEF IInv

LEMMA Inductive == Spec => []IInv
  BY InitI, NextI, PTL DEF Spec

(* Types are kept; no more than one handler of each signal is on the parent's *)
(* stack.                                                                     *)
THEOREM TypesKept == Spec => []TypeOK
<1>1. IInv => TypeOK
  BY DEF IInv, Types, StackOK, Points, TypeOK
<1> QED
  BY <1>1, Inductive, PTL

(* The handler of SIGCHLD is stuck in wait(0) only after a reboot: every      *)
(* other SIGCHLD, also one that stands for several children or that comes     *)
(* while the handler runs, has a child of its own to collect.                 *)
THEOREM WaitsOnlyAfterReboot == Spec => []WaitsForTheDead
<1>1. IInv => WaitsForTheDead
  BY DEF IInv, Owed, WaitsForTheDead, OnStack
<1> QED
  BY <1>1, Inductive, PTL

(* The alarm resets the peer only after PEER_EXPIRE_CNT alarms without an     *)
(* undisturbed heartbeat, or from a count that was spoilt; a child only when  *)
(* its peer is gone, or after the alarm closed the connection under it.       *)
THEOREM RebootAlwaysJustified == Spec => RebootJustified
<1>1. ASSUME IInv, [Next]_vars
      PROVE  /\ ~Rebooted /\ Rebooted' => tainted \/ silent >= PEER_EXPIRE_CNT
             /\ \A c \in Conns : child'[c] = "reboot" => peer[c] = "gone" \/ already_reset
  <2>1. "system" \in OnStack => tainted \/ silent >= PEER_EXPIRE_CNT
    BY <1>1 DEF IInv, CountHonest
  <2> QED
    BY <1>1, <2>1, RebootOnce, RebootsKnow
<1>2. IInv /\ [Next]_vars =>
        [/\ ~Rebooted /\ Rebooted' => tainted \/ silent >= PEER_EXPIRE_CNT
         /\ \A c \in Conns : child'[c] = "reboot" => peer[c] = "gone" \/ already_reset]_vars
  BY <1>1
<1> QED
  BY <1>2, Inductive, PTL DEF Spec, RebootJustified
=============================================================================

------------------------- MODULE HeartbeatPairProofs ------------------------
(* Theorems about C/heartbeat_cli.c and C/heartbeat_android.c with            *)
(* C/heartbeat_srv.c, for any number of connections, of kills and of expiry   *)
(* counts, any interval of the server and any interval of the client that is  *)
(* not longer than its sleep.                                                 *)
EXTENDS HeartbeatPair, SequenceTheorems, TLAPS

-----------------------------------------------------------------------------
(* A stack of handlers of two signals, A and U the points of each: there is   *)
(* one handler of each at most, so that the set of points tells all.          *)
Points(s) == {s[k] : k \in 1..Len(s)}
OneEach(s, A, U) == /\ s \in Seq(A \cup U)
                    /\ \A j, k \in 1..Len(s) : (s[j] \in A <=> s[k] \in A) => j = k

Apart(S, p, A) == \A x \in S : ~(x \in A <=> p \in A)

LEMMA StackFacts ==
  ASSUME NEW A, NEW U, NEW s, OneEach(s, A, U)
  PROVE  /\ Len(s) \in Nat /\ Len(s) <= 2
         /\ Points(s) \subseteq A \cup U
         /\ s = <<>> <=> Points(s) = {}
         /\ \A x, y \in Points(s) : (x \in A <=> y \in A) => x = y
<1>1. s \in Seq(A \cup U) /\ Len(s) \in Nat /\ \A k \in 1..Len(s) : s[k] \in A \cup U
  BY LenProperties, ElementOfSeq DEF OneEach
<1>2. Len(s) <= 2
  <2> SUFFICES ASSUME Len(s) > 2 PROVE FALSE
    BY <1>1
  <2>1. 1 \in 1..Len(s) /\ 2 \in 1..Len(s) /\ 3 \in 1..Len(s)
    BY <1>1
  <2>2. ~(s[1] \in A <=> s[2] \in A) /\ ~(s[2] \in A <=> s[3] \in A) /\ ~(s[1] \in A <=> s[3] \in A)
    BY <2>1 DEF OneEach
  <2> QED
    BY <2>2
<1>3. s = <<>> <=> Points(s) = {}
  <2>1. s = <<>> <=> Len(s) = 0
    BY <1>1, EmptySeq
  <2>2. Len(s) # 0 => 1 \in 1..Len(s)
    BY <1>1
  <2>3. Len(s) = 0 => Points(s) = {}
    BY DEF Points
  <2> QED
    BY <2>1, <2>2, <2>3 DEF Points
<1> QED
  BY <1>1, <1>2, <1>3 DEF Points, OneEach

LEMMA Pushed ==
  ASSUME NEW A, NEW U, NEW s, OneEach(s, A, U), NEW p, p \in A \cup U,
         Apart(Points(s), p, A)
  PROVE  OneEach(<<p>> \o s, A, U) /\ Points(<<p>> \o s) = Points(s) \cup {p}
<1>0. PICK t : t = <<p>> \o s
  OBVIOUS
<1>1. s \in Seq(A \cup U) /\ Len(s) \in Nat
  BY LenProperties DEF OneEach
<1>2. /\ t \in Seq(A \cup U) /\ Len(t) = Len(s) + 1 /\ t[1] = p
      /\ \A k \in 1..Len(s) : t[k + 1] = s[k]
  BY <1>0, <1>1
<1>3. \A k \in 1..Len(t) : k = 1 \/ (k - 1 \in 1..Len(s) /\ t[k] = s[k - 1])
  <2>1. \A k \in 1..Len(t) : k = 1 \/ (k - 1 \in 1..Len(s) /\ k = (k - 1) + 1)
    BY <1>1, <1>2
  <2> QED
    BY <1>2, <2>1
<1>4. 1 \in 1..Len(t) /\ \A k \in 1..Len(s) : k + 1 \in 1..Len(t)
  BY <1>1, <1>2
<1>5. Points(t) = Points(s) \cup {p}
  <2>1. \A x \in Points(t) : x \in Points(s) \cup {p}
    BY <1>2, <1>3 DEF Points
  <2>2. p \in Points(t)
    BY <1>2, <1>4 DEF Points
  <2>3. \A x \in Points(s) : x \in Points(t)
    BY <1>2, <1>4 DEF Points
  <2> QED
    BY <2>1, <2>2, <2>3, Zenon
<1>6. ASSUME NEW j \in 1..Len(t), NEW k \in 1..Len(t), t[j] \in A <=> t[k] \in A
      PROVE  j = k
  <2>1. \A m \in 1..Len(s) : ~(s[m] \in A <=> p \in A)
    BY DEF Points, Apart
  <2>2. CASE j = 1 \/ k = 1
    BY <1>2, <1>3, <1>6, <2>1, <2>2
  <2>3. CASE j # 1 /\ k # 1
    <3>1. j - 1 \in 1..Len(s) /\ t[j] = s[j - 1] /\ k - 1 \in 1..Len(s) /\ t[k] = s[k - 1]
      BY <1>3, <2>3
    <3>2. j - 1 = k - 1
      BY <1>6, <3>1 DEF OneEach
    <3> QED
      BY <3>2
  <2> QED
    BY <2>2, <2>3
<1>7. OneEach(t, A, U)
  BY <1>2, <1>6 DEF OneEach
<1> QED
  BY <1>0, <1>5, <1>7, Zenon

LEMMA Popped ==
  ASSUME NEW A, NEW U, NEW s, OneEach(s, A, U), s # <<>>
  PROVE  /\ OneEach(Tail(s), A, U) /\ Head(s) \in Points(s) /\ Head(s) \in A \cup U
         /\ Points(Tail(s)) = Points(s) \ {Head(s)}
         /\ Apart(Points(Tail(s)), Head(s), A)
<1> DEFINE t == Tail(s)
<1>1. /\ s \in Seq(A \cup U) /\ Len(s) \in Nat \ {0} /\ Head(s) = s[1]
      /\ t \in Seq(A \cup U) /\ Len(t) = Len(s) - 1 /\ \A k \in 1..Len(t) : t[k] = s[k + 1]
  BY HeadTailProperties, EmptySeq DEF OneEach
<1>2. /\ 1 \in 1..Len(s) /\ \A k \in 1..Len(t) : k + 1 \in 1..Len(s) /\ k + 1 # 1
      /\ \A k \in 1..Len(s) : k = 1 \/ (k - 1 \in 1..Len(t) /\ k = (k - 1) + 1)
  BY <1>1
<1>3. \A k \in 1..Len(s) : k = 1 \/ (k - 1 \in 1..Len(t) /\ t[k - 1] = s[k])
  BY <1>1, <1>2
<1>4. \A k \in 1..Len(t) : ~(t[k] \in A <=> s[1] \in A)
  BY <1>1, <1>2 DEF OneEach
<1>5. Points(t) = Points(s) \ {s[1]}
  <2>1. \A k \in 1..Len(t) : t[k] # s[1] /\ t[k] \in Points(s)
    BY <1>1, <1>2, <1>4 DEF Points
  <2>2. \A k \in 1..Len(s) : s[k] = s[1] \/ s[k] \in Points(t)
    BY <1>3 DEF Points
  <2> QED
    BY <2>1, <2>2 DEF Points
<1>6. \A j, k \in 1..Len(t) : (t[j] \in A <=> t[k] \in A) => j = k
  <2>1. \A j, k \in 1..Len(t) : (t[j] \in A <=> t[k] \in A) => j + 1 = k + 1
    BY <1>1, <1>2 DEF OneEach
  <2> QED
    BY <2>1
<1>7. s[1] \in A \cup U /\ s[1] \in Points(s)
  BY <1>1, <1>2, ElementOfSeq DEF Points
<1> QED
  <2>1. Apart(Points(t), s[1], A)
    BY <1>4 DEF Points, Apart
  <2>2. OneEach(t, A, U)
    BY <1>1, <1>6 DEF OneEach
  <2> QED
    BY <1>1, <1>5, <1>7, <2>1, <2>2, Zenon

LEMMA Moved ==
  ASSUME NEW A, NEW U, NEW s, OneEach(s, A, U), s # <<>>,
         NEW p, p \in A \cup U, p \in A <=> Head(s) \in A
  PROVE  /\ OneEach(<<p>> \o Tail(s), A, U) /\ Head(s) \in Points(s)
         /\ Points(<<p>> \o Tail(s)) = (Points(s) \ {Head(s)}) \cup {p}
<1>1. /\ OneEach(Tail(s), A, U) /\ Head(s) \in Points(s)
      /\ Points(Tail(s)) = Points(s) \ {Head(s)} /\ Apart(Points(Tail(s)), Head(s), A)
  BY Popped, Zenon
<1>2. Apart(Points(Tail(s)), p, A)
  BY <1>1, Zenon DEF Apart
<1>3. OneEach(<<p>> \o Tail(s), A, U)
  BY <1>1, <1>2, Pushed, Zenon
<1>4. Points(<<p>> \o Tail(s)) = Points(Tail(s)) \cup {p}
  BY <1>1, <1>2, Pushed, SMT
<1> QED
  BY <1>1, <1>3, <1>4, Zenon

-----------------------------------------------------------------------------
(* The connections, by what the invariant tells apart.                        *)
Active == {k \in Conns : link[k].cl \in {"syn", "open"}}
Opened == {k \in Conns : link[k].cl = "open"}
Unseen == {k \in Conns : link[k].cl = "syn" /\ link[k].sv = "none"}
Finished == {k \in Conns : link[k].sv = "closed" /\ link[k].down = 0}
Served == {k \in Conns : link[k].sv = "open"}
Queued == {k \in Conns : link[k].sv = "queued"}
DownHeld == {k \in Conns : link[k].downSlot}
UpHeld == {k \in Conns : link[k].upSlot}

(* A connection carries one mark at most, or none.                            *)
Single(l) == /\ l.up <= 1 /\ l.down <= 1
             /\ l.up > 0 => l.down = 0 /\ ~l.upSlot /\ ~l.downSlot
             /\ l.down > 0 => ~l.upSlot /\ ~l.downSlot
             /\ ~(l.upSlot /\ l.downSlot)
Blank(l) == l.up = 0 /\ l.down = 0 /\ ~l.upSlot /\ ~l.downSlot
Blanks == {k \in Conns : Blank(link[k])}

COn == Points(c_stack)
SOn == Points(s_stack)

(* Neither a mark nor a server that has read a heartbeat and will answer it.  *)
Still == {k \in Blanks : "isC" \in SOn => cli_fd # k}

AlarmPoints == {"alrm", "send", "clear", "close"}
UrgentPoints == {"read", "isS", "isOther"}
SrvAlarmPoints == {"alrm", "store"}
SrvUrgentPoints == {"read", "isC", "reset"}

-----------------------------------------------------------------------------
(* The invariant.  First the connections.                                     *)
LinkInv == link \in [Conns -> Link] /\ \A k \in Conns : Single(link[k])
NetInv == LinkInv /\ backlog \in Seq(Conns) /\ alive \in BOOLEAN

(* The server: cli_fd is the one connection it serves, and a SIGURG that is   *)
(* pending or about to be handled finds its mark.                             *)
SrvTypes == /\ s_main \in {"accept", "own", "recv", "close"}
            /\ s_pending \subseteq {"ALRM", "URG"}
            /\ s_alarm \in 0..SRV_ALARM_INTERVAL
            /\ cli_fd \in Conns \cup {None}
            /\ s_expire_cnt \in 0..(SRV_PEER_EXPIRE_CNT + 1)
            /\ loaded \in 0..(SRV_PEER_EXPIRE_CNT + 1)
            /\ s_already_reset \in BOOLEAN
SrvStack == OneEach(s_stack, SrvAlarmPoints, SrvUrgentPoints)
Serving == /\ cli_fd = None <=> s_main = "accept"
           /\ Served = {cli_fd} \ {None}
Waiting == /\ Points(backlog) \subseteq Queued
           /\ \A i, j \in 1..Len(backlog) : backlog[i] = backlog[j] => i = j
SrvUrgent == /\ "URG" \in s_pending \/ "read" \in SOn => cli_fd \in UpHeld
             /\ ~("URG" \in s_pending /\ "read" \in SOn)
             /\ "isC" \in SOn => cli_fd \in Blanks
SrvInv == SrvTypes /\ SrvStack /\ Serving /\ Waiting /\ SrvUrgent

(* The client: conn_fd is the one connection it has.                          *)
CliTypes == /\ c_prog \in {heartbeat_cli, heartbeat_android}
            /\ c_main \in {"top", "connect", "connected", "recv", "close", "received",
                           "failed", "sleep"}
            /\ c_pending \subseteq {"ALRM", "URG"}
            /\ c_alarm \in 0..CLI_ALARM_INTERVAL /\ c_sleep \in 0..3
            /\ conn_fd \in Conns \cup {None} /\ got_reply \in BOOLEAN
            /\ c_expire_cnt \in 0..(PEER_EXPIRE_CNT + 1) /\ c_already_reset \in BOOLEAN
            /\ quiet \in 0..Limit
CliStack == OneEach(c_stack, AlarmPoints, UrgentPoints)
Owning == /\ Active = {conn_fd} \ {None}
          /\ conn_fd # None =>
               /\ c_main # "failed"
               /\ c_main = "connect" => conn_fd \in Unseen
               /\ c_main # "connect" => conn_fd \in Opened

(* Outside recv() the only signal is the alarm, and its handler closes.       *)
OffLine == /\ c_main # "recv" => /\ "URG" \notin c_pending /\ COn \subseteq {"alrm", "close"}
                                 /\ quiet = 0
           /\ c_main \notin {"connect", "sleep", "recv"} => c_pending = {}
           /\ c_main \notin {"top", "connect", "recv"} => COn = {}

(* The alarm is armed from a connection's first second until it is closed.    *)
Unarmed == c_main \in {"top", "connect", "failed", "sleep"} /\ got_reply =>
             c_alarm = 0 /\ "ALRM" \notin c_pending /\ COn \cap AlarmPoints = {}
Armed == c_main \in {"recv", "close", "received"} =>
           c_alarm > 0 \/ "ALRM" \in c_pending \/ "alrm" \in COn

(* A connection that outlives its recv() is closed by the alarm before main   *)
(* opens the next.                                                            *)
Retiring == conn_fd # None =>
  /\ c_main \in {"close", "received", "sleep", "top"} => conn_fd \in Finished
  /\ c_main = "sleep" => ~got_reply /\ ("ALRM" \in c_pending \/ (c_alarm > 0 /\ c_alarm <= c_sleep))
  /\ c_main = "top" => ~got_reply /\ COn # {}

(* A SIGURG that is pending or about to be handled finds its mark, and no     *)
(* heartbeat is sent before the one under way is answered.                    *)
CliUrgent == conn_fd # None =>
  /\ "URG" \in c_pending \/ "read" \in COn => conn_fd \in DownHeld
  /\ ~("URG" \in c_pending /\ "read" \in COn)
  /\ "isOther" \notin COn
Answered == conn_fd # None =>
  /\ c_main \in {"connect", "connected"} => conn_fd \in Still
  /\ c_main = "recv" =>
       /\ got_reply /\ "clear" \notin COn => conn_fd \in Still /\ "isS" \notin COn
       /\ "send" \in COn => conn_fd \in Still /\ "isS" \notin COn
       /\ "isS" \in COn => conn_fd \in Still

(* The seconds since the last answer and those to the next alarm.             *)
Timing == c_main = "recv" /\ conn_fd # None /\ "close" \notin COn =>
            /\ quiet + c_alarm <= 2 * CLI_ALARM_INTERVAL
            /\ got_reply /\ COn \cap {"send", "clear"} = {} => quiet + c_alarm <= CLI_ALARM_INTERVAL

CliInv == /\ CliTypes /\ CliStack /\ Owning /\ OffLine /\ Unarmed /\ Armed
          /\ Retiring /\ CliUrgent /\ Answered /\ Timing

IInv == NetInv /\ CliInv /\ SrvInv /\ kills \in 0..MaxKills

-----------------------------------------------------------------------------
(* The handlers of the client.                                                *)
LEMMA CliAlone ==
  ASSUME CliStack
  PROVE  /\ COn \subseteq AlarmPoints \cup UrgentPoints /\ Len(c_stack) <= 2
         /\ c_stack = <<>> <=> COn = {}
         /\ \A x, y \in COn : (x \in AlarmPoints <=> y \in AlarmPoints) => x = y
  BY StackFacts, Zenon DEF CliStack, COn

LEMMA CliSignals ==
  ASSUME CliStack, c_pending \subseteq {"ALRM", "URG"}
  PROVE  /\ CliDeliverable \subseteq c_pending
         /\ "ALRM" \in CliDeliverable <=> "ALRM" \in c_pending /\ COn \cap AlarmPoints = {}
         /\ "URG" \in CliDeliverable <=> "URG" \in c_pending /\ COn \cap UrgentPoints = {}
<1>1. \A sig \in c_pending : sig \in CliDeliverable <=> \A x \in COn : SignalOf(x) # sig
  BY DEF CliDeliverable, COn, Points
<1>2. \A x \in COn : x \in AlarmPoints \cup UrgentPoints
  BY CliAlone
<1>3. \A x \in AlarmPoints : x \notin UrgentPoints /\ SignalOf(x) = "ALRM"
  BY DEF AlarmPoints, UrgentPoints, SignalOf
<1>4. \A x \in UrgentPoints : SignalOf(x) = "URG"
  BY DEF UrgentPoints, SignalOf
<1>5. CliDeliverable \subseteq c_pending
  BY DEF CliDeliverable
<1> QED
  BY <1>1, <1>2, <1>3, <1>4, <1>5

(* When main runs no handler does and no signal is pending.                   *)
LEMMA CliCalm ==
  ASSUME CliStack, c_pending \subseteq {"ALRM", "URG"}, CliDeliverable = {}, c_stack = <<>>
  PROVE  COn = {} /\ c_pending = {}
<1>1. COn = {}
  BY CliAlone
<1> QED
  BY <1>1, CliSignals

LEMMA CliHead ==
  ASSUME CliStack, NEW p, At(p)
  PROVE  p \in COn
<1>1. c_stack # <<>> /\ Head(c_stack) = p
  BY DEF At
<1> QED
  BY <1>1, Popped, Zenon DEF CliStack, COn

LEMMA CliMoves ==
  ASSUME CliStack, NEW p, At(p), NEW q, q \in AlarmPoints \cup UrgentPoints,
         q \in AlarmPoints <=> p \in AlarmPoints, Goto(q)
  PROVE  CliStack' /\ p \in COn /\ COn' = (COn \ {p}) \cup {q}
<1>1. c_stack # <<>> /\ Head(c_stack) = p /\ c_stack' = <<q>> \o Tail(c_stack)
  BY DEF At, Goto
<1>2. OneEach(<<q>> \o Tail(c_stack), AlarmPoints, UrgentPoints)
  BY <1>1, Moved, Zenon DEF CliStack
<1>3. p \in COn /\ Points(<<q>> \o Tail(c_stack)) = (COn \ {p}) \cup {q}
  BY <1>1, Moved DEF CliStack, COn
<1> QED
  BY <1>1, <1>2, <1>3, Zenon DEF CliStack, COn

LEMMA CliReturns ==
  ASSUME CliStack, NEW p, At(p), Return
  PROVE  CliStack' /\ p \in COn /\ COn' = COn \ {p}
<1>1. c_stack # <<>> /\ Head(c_stack) = p /\ c_stack' = Tail(c_stack)
  BY DEF At, Return
<1>2. OneEach(Tail(c_stack), AlarmPoints, UrgentPoints)
  BY <1>1, Popped, Zenon DEF CliStack
<1>3. p \in COn /\ Points(Tail(c_stack)) = COn \ {p}
  BY <1>1, Popped DEF CliStack, COn
<1> QED
  BY <1>1, <1>2, <1>3, Zenon DEF CliStack, COn

LEMMA CliStarts ==
  ASSUME CliStack, c_pending \subseteq {"ALRM", "URG"}, NEW sig \in CliDeliverable,
         NEW p, p = IF sig = "ALRM" THEN "alrm" ELSE "read", c_stack' = <<p>> \o c_stack
  PROVE  /\ CliStack' /\ COn' = COn \cup {p} /\ sig \in c_pending /\ sig \in {"ALRM", "URG"}
         /\ sig = "ALRM" => COn \cap AlarmPoints = {}
<1>1. sig \in c_pending /\ sig \in {"ALRM", "URG"}
  BY CliSignals
<1>2. /\ sig = "ALRM" => COn \cap AlarmPoints = {}
      /\ sig = "URG" => COn \cap UrgentPoints = {}
  BY <1>1, CliSignals
<1>3. \A x \in COn : x \in AlarmPoints \cup UrgentPoints
  BY CliAlone
<1>4. /\ p \in AlarmPoints \cup UrgentPoints
      /\ p \in AlarmPoints <=> sig = "ALRM"
  BY <1>1 DEF AlarmPoints, UrgentPoints
<1>5. Apart(COn, p, AlarmPoints)
  BY <1>1, <1>2, <1>3, <1>4 DEF Apart
<1>6. OneEach(<<p>> \o c_stack, AlarmPoints, UrgentPoints)
  BY <1>4, <1>5, Pushed, Zenon DEF CliStack, COn
<1>7. Points(<<p>> \o c_stack) = COn \cup {p}
  BY <1>4, <1>5, Pushed DEF CliStack, COn
<1>8. CliStack' /\ COn' = COn \cup {p}
  BY <1>6, <1>7, Zenon DEF CliStack, COn
<1> QED
  BY <1>1, <1>2, <1>8

-----------------------------------------------------------------------------
(* The handlers of the server.                                                *)
LEMMA SrvAlone ==
  ASSUME SrvStack
  PROVE  /\ SOn \subseteq SrvAlarmPoints \cup SrvUrgentPoints /\ Len(s_stack) <= 2
         /\ s_stack = <<>> <=> SOn = {}
         /\ \A x, y \in SOn : (x \in SrvAlarmPoints <=> y \in SrvAlarmPoints) => x = y
  BY StackFacts, Zenon DEF SrvStack, SOn

LEMMA SrvSignals ==
  ASSUME SrvStack, s_pending \subseteq {"ALRM", "URG"}
  PROVE  /\ SrvDeliverable \subseteq s_pending
         /\ "ALRM" \in SrvDeliverable <=> "ALRM" \in s_pending /\ SOn \cap SrvAlarmPoints = {}
         /\ "URG" \in SrvDeliverable <=> "URG" \in s_pending /\ SOn \cap SrvUrgentPoints = {}
<1>1. \A sig \in s_pending : sig \in SrvDeliverable <=> \A x \in SOn : SrvSignalOf(x) # sig
  BY DEF SrvDeliverable, SOn, Points
<1>2. \A x \in SOn : x \in SrvAlarmPoints \cup SrvUrgentPoints
  BY SrvAlone
<1>3. \A x \in SrvAlarmPoints : x \notin SrvUrgentPoints /\ SrvSignalOf(x) = "ALRM"
  BY DEF SrvAlarmPoints, SrvUrgentPoints, SrvSignalOf
<1>4. \A x \in SrvUrgentPoints : SrvSignalOf(x) = "URG"
  BY DEF SrvUrgentPoints, SrvSignalOf
<1>5. SrvDeliverable \subseteq s_pending
  BY DEF SrvDeliverable
<1> QED
  BY <1>1, <1>2, <1>3, <1>4, <1>5

(* When main runs no handler does and no signal is pending.                   *)
LEMMA SrvCalm ==
  ASSUME SrvStack, s_pending \subseteq {"ALRM", "URG"}, SrvDeliverable = {}, s_stack = <<>>
  PROVE  SOn = {} /\ s_pending = {}
<1>1. SOn = {}
  BY SrvAlone
<1> QED
  BY <1>1, SrvSignals

LEMMA SrvHead ==
  ASSUME SrvStack, NEW p, SrvAt(p)
  PROVE  p \in SOn
<1>1. s_stack # <<>> /\ Head(s_stack) = p
  BY DEF SrvAt
<1> QED
  BY <1>1, Popped, Zenon DEF SrvStack, SOn

LEMMA SrvMoves ==
  ASSUME SrvStack, NEW p, SrvAt(p), NEW q, q \in SrvAlarmPoints \cup SrvUrgentPoints,
         q \in SrvAlarmPoints <=> p \in SrvAlarmPoints, SrvGoto(q)
  PROVE  SrvStack' /\ p \in SOn /\ SOn' = (SOn \ {p}) \cup {q}
<1>1. s_stack # <<>> /\ Head(s_stack) = p /\ s_stack' = <<q>> \o Tail(s_stack)
  BY DEF SrvAt, SrvGoto
<1>2. OneEach(<<q>> \o Tail(s_stack), SrvAlarmPoints, SrvUrgentPoints)
  BY <1>1, Moved, Zenon DEF SrvStack
<1>3. p \in SOn /\ Points(<<q>> \o Tail(s_stack)) = (SOn \ {p}) \cup {q}
  BY <1>1, Moved DEF SrvStack, SOn
<1> QED
  BY <1>1, <1>2, <1>3, Zenon DEF SrvStack, SOn

LEMMA SrvReturns ==
  ASSUME SrvStack, NEW p, SrvAt(p), SrvReturn
  PROVE  SrvStack' /\ p \in SOn /\ SOn' = SOn \ {p}
<1>1. s_stack # <<>> /\ Head(s_stack) = p /\ s_stack' = Tail(s_stack)
  BY DEF SrvAt, SrvReturn
<1>2. OneEach(Tail(s_stack), SrvAlarmPoints, SrvUrgentPoints)
  BY <1>1, Popped, Zenon DEF SrvStack
<1>3. p \in SOn /\ Points(Tail(s_stack)) = SOn \ {p}
  BY <1>1, Popped DEF SrvStack, SOn
<1> QED
  BY <1>1, <1>2, <1>3, Zenon DEF SrvStack, SOn

LEMMA SrvStarts ==
  ASSUME SrvStack, s_pending \subseteq {"ALRM", "URG"}, NEW sig \in SrvDeliverable,
         NEW p, p = IF sig = "ALRM" THEN "alrm" ELSE "read", s_stack' = <<p>> \o s_stack
  PROVE  /\ SrvStack' /\ SOn' = SOn \cup {p} /\ sig \in s_pending /\ sig \in {"ALRM", "URG"}
         /\ sig = "ALRM" => SOn \cap SrvAlarmPoints = {}
<1>1. sig \in s_pending /\ sig \in {"ALRM", "URG"}
  BY SrvSignals
<1>2. /\ sig = "ALRM" => SOn \cap SrvAlarmPoints = {}
      /\ sig = "URG" => SOn \cap SrvUrgentPoints = {}
  BY <1>1, SrvSignals
<1>3. \A x \in SOn : x \in SrvAlarmPoints \cup SrvUrgentPoints
  BY SrvAlone
<1>4. /\ p \in SrvAlarmPoints \cup SrvUrgentPoints
      /\ p \in SrvAlarmPoints <=> sig = "ALRM"
  BY <1>1 DEF SrvAlarmPoints, SrvUrgentPoints
<1>5. Apart(SOn, p, SrvAlarmPoints)
  BY <1>1, <1>2, <1>3, <1>4 DEF Apart
<1>6. OneEach(<<p>> \o s_stack, SrvAlarmPoints, SrvUrgentPoints)
  BY <1>4, <1>5, Pushed, Zenon DEF SrvStack, SOn
<1>7. Points(<<p>> \o s_stack) = SOn \cup {p}
  BY <1>4, <1>5, Pushed DEF SrvStack, SOn
<1>8. SrvStack' /\ SOn' = SOn \cup {p}
  BY <1>6, <1>7, Zenon DEF SrvStack, SOn
<1> QED
  BY <1>1, <1>2, <1>8

-----------------------------------------------------------------------------
(* One connection changes.                                                    *)
Same(S, T, k) == \A j : j # k => (j \in S <=> j \in T)
OthersSame(k) ==
  /\ Same(Active, Active', k) /\ Same(Opened, Opened', k) /\ Same(Unseen, Unseen', k)
  /\ Same(Finished, Finished', k) /\ Same(Served, Served', k) /\ Same(Queued, Queued', k)
  /\ Same(DownHeld, DownHeld', k) /\ Same(UpHeld, UpHeld', k) /\ Same(Blanks, Blanks', k)

LEMMA OneChanges ==
  ASSUME LinkInv, NEW k \in Conns, NEW m \in Link, Single(m), link' = [link EXCEPT ![k] = m]
  PROVE  LinkInv' /\ link'[k] = m /\ OthersSame(k)
<1>1. link' \in [Conns -> Link] /\ link'[k] = m /\ \A j \in Conns : j # k => link'[j] = link[j]
  BY DEF LinkInv
<1>2. LinkInv'
  <2>1. \A j \in Conns : Single(link'[j])
    <3> SUFFICES ASSUME NEW j \in Conns PROVE Single(link'[j])
      OBVIOUS
    <3>1. CASE j = k
      BY <1>1, <3>1, Zenon
    <3>2. CASE j # k
      BY <1>1, <3>2, Zenon DEF LinkInv
    <3> QED
      BY <3>1, <3>2
  <2> QED
    BY <1>1, <2>1 DEF LinkInv
<1>3. /\ Same(Active, Active', k) /\ Same(Opened, Opened', k) /\ Same(Unseen, Unseen', k)
      /\ Same(Served, Served', k) /\ Same(Queued, Queued', k)
  BY <1>1 DEF Same, Active, Opened, Unseen, Served, Queued
<1>4. Same(Finished, Finished', k)
  BY <1>1 DEF Same, Finished
<1>5. Same(DownHeld, DownHeld', k) /\ Same(UpHeld, UpHeld', k)
  BY <1>1 DEF Same, DownHeld, UpHeld
<1>6. Same(Blanks, Blanks', k)
  BY <1>1, Zenon DEF Same, Blanks
<1> QED
  BY <1>1, <1>2, <1>3, <1>4, <1>5, <1>6 DEF OthersSame

(* What a mark does to its connection.                                        *)
LEMMA MarkSentUp ==
  ASSUME LinkInv, NEW k \in Blanks, link' = [link EXCEPT ![k].up = @ + 1]
  PROVE  /\ LinkInv' /\ Active' = Active /\ Opened' = Opened /\ Unseen' = Unseen
         /\ Finished' = Finished /\ Served' = Served /\ Queued' = Queued
         /\ DownHeld' = DownHeld /\ UpHeld' = UpHeld /\ Blanks' = Blanks \ {k}
<1>1. k \in Conns /\ link[k] \in Link /\ Blank(link[k])
  BY DEF Blanks, LinkInv
<1>2. PICK m : m = [link[k] EXCEPT !.up = 1]
  OBVIOUS
<1>3. /\ m \in Link /\ m.up = 1 /\ m.down = link[k].down /\ m.cl = link[k].cl /\ m.sv = link[k].sv
      /\ m.upSlot = link[k].upSlot /\ m.downSlot = link[k].downSlot
  BY <1>1, <1>2 DEF Link
<1>4. Single(m) /\ ~Blank(m)
  BY <1>1, <1>3 DEF Single, Blank
<1>5. link' = [link EXCEPT ![k] = m]
  BY <1>1, <1>2 DEF Blank
<1>6. LinkInv' /\ link'[k] = m /\ OthersSame(k)
  BY <1>1, <1>3, <1>4, <1>5, OneChanges
<1>7. /\ Active' = Active /\ Opened' = Opened /\ Unseen' = Unseen
      /\ Served' = Served /\ Queued' = Queued
  BY <1>1, <1>3, <1>6 DEF OthersSame, Same, Active, Opened, Unseen, Served, Queued
<1>8. Finished' = Finished
  BY <1>1, <1>3, <1>6 DEF OthersSame, Same, Finished
<1>9. DownHeld' = DownHeld /\ UpHeld' = UpHeld
  BY <1>1, <1>3, <1>6 DEF OthersSame, Same, DownHeld, UpHeld
<1>10. Blanks' = Blanks \ {k}
  BY <1>1, <1>4, <1>6 DEF OthersSame, Same, Blanks
<1> QED
  BY <1>6, <1>7, <1>8, <1>9, <1>10

LEMMA MarkSentDown ==
  ASSUME LinkInv, NEW k \in Blanks, k \in Served, link' = [link EXCEPT ![k].down = @ + 1]
  PROVE  /\ LinkInv' /\ Active' = Active /\ Opened' = Opened /\ Unseen' = Unseen
         /\ Finished' = Finished /\ Served' = Served /\ Queued' = Queued
         /\ DownHeld' = DownHeld /\ UpHeld' = UpHeld /\ Blanks' = Blanks \ {k}
<1>1. k \in Conns /\ link[k] \in Link /\ Blank(link[k]) /\ link[k].sv = "open"
  BY DEF Blanks, LinkInv, Served
<1>2. PICK m : m = [link[k] EXCEPT !.down = 1]
  OBVIOUS
<1>3. /\ m \in Link /\ m.cl = link[k].cl /\ m.sv = link[k].sv /\ m.up = link[k].up
      /\ m.down = 1 /\ m.upSlot = link[k].upSlot /\ m.downSlot = link[k].downSlot
  BY <1>1, <1>2 DEF Link
<1>4. Single(m) /\ ~Blank(m)
  BY <1>1, <1>3 DEF Single, Blank, Link
<1>5. link' = [link EXCEPT ![k] = m]
  BY <1>1, <1>2 DEF Blank
<1>6. LinkInv' /\ link'[k] = m /\ OthersSame(k)
  BY <1>1, <1>3, <1>4, <1>5, OneChanges
<1>7. /\ Active' = Active /\ Opened' = Opened /\ Unseen' = Unseen
      /\ Served' = Served /\ Queued' = Queued
  BY <1>1, <1>3, <1>6 DEF OthersSame, Same, Active, Opened, Unseen, Served, Queued
<1>8. Finished' = Finished
  BY <1>1, <1>3, <1>6 DEF OthersSame, Same, Finished
<1>9. DownHeld' = DownHeld /\ UpHeld' = UpHeld
  BY <1>1, <1>3, <1>6 DEF OthersSame, Same, DownHeld, UpHeld
<1>10. Blanks' = Blanks \ {k}
  BY <1>1, <1>3, <1>4, <1>6 DEF OthersSame, Same, Blanks
<1> QED
  BY <1>6, <1>7, <1>8, <1>9, <1>10

LEMMA MarkRead ==
  ASSUME LinkInv, NEW k \in DownHeld, link' = [link EXCEPT ![k].downSlot = FALSE]
  PROVE  /\ LinkInv' /\ Active' = Active /\ Opened' = Opened /\ Unseen' = Unseen
         /\ Finished' = Finished /\ Served' = Served /\ Queued' = Queued
         /\ DownHeld' = DownHeld \ {k} /\ UpHeld' = UpHeld /\ Blanks' = Blanks \cup {k}
<1>1. k \in Conns /\ link[k] \in Link /\ link[k].downSlot /\ Single(link[k])
  BY DEF DownHeld, LinkInv
<1>2. PICK m : m = [link[k] EXCEPT !.downSlot = FALSE]
  OBVIOUS
<1>3. /\ m \in Link /\ m.cl = link[k].cl /\ m.sv = link[k].sv /\ m.up = link[k].up
      /\ m.down = link[k].down /\ m.upSlot = link[k].upSlot /\ m.downSlot = FALSE
  BY <1>1, <1>2 DEF Link
<1>4. Single(m) /\ Blank(m)
  BY <1>1, <1>3 DEF Single, Blank, Link
<1>5. link' = [link EXCEPT ![k] = m]
  BY <1>1, <1>2
<1>6. LinkInv' /\ link'[k] = m /\ OthersSame(k)
  BY <1>1, <1>3, <1>4, <1>5, OneChanges
<1>7. /\ Active' = Active /\ Opened' = Opened /\ Unseen' = Unseen
      /\ Served' = Served /\ Queued' = Queued
  BY <1>1, <1>3, <1>6 DEF OthersSame, Same, Active, Opened, Unseen, Served, Queued
<1>8. Finished' = Finished
  BY <1>1, <1>3, <1>6 DEF OthersSame, Same, Finished
<1>9. DownHeld' = DownHeld \ {k} /\ UpHeld' = UpHeld
  BY <1>1, <1>3, <1>6 DEF OthersSame, Same, DownHeld, UpHeld
<1>10. Blanks' = Blanks \cup {k}
  BY <1>1, <1>3, <1>4, <1>6 DEF OthersSame, Same, Blanks
<1> QED
  BY <1>6, <1>7, <1>8, <1>9, <1>10

LEMMA HeartbeatRead ==
  ASSUME LinkInv, NEW k \in UpHeld, link' = [link EXCEPT ![k].upSlot = FALSE]
  PROVE  /\ LinkInv' /\ Active' = Active /\ Opened' = Opened /\ Unseen' = Unseen
         /\ Finished' = Finished /\ Served' = Served /\ Queued' = Queued
         /\ DownHeld' = DownHeld /\ UpHeld' = UpHeld \ {k} /\ Blanks' = Blanks \cup {k}
<1>1. k \in Conns /\ link[k] \in Link /\ link[k].upSlot /\ Single(link[k])
  BY DEF UpHeld, LinkInv
<1>2. PICK m : m = [link[k] EXCEPT !.upSlot = FALSE]
  OBVIOUS
<1>3. /\ m \in Link /\ m.cl = link[k].cl /\ m.sv = link[k].sv /\ m.up = link[k].up
      /\ m.down = link[k].down /\ m.upSlot = FALSE /\ m.downSlot = link[k].downSlot
  BY <1>1, <1>2 DEF Link
<1>4. Single(m) /\ Blank(m)
  BY <1>1, <1>3 DEF Single, Blank, Link
<1>5. link' = [link EXCEPT ![k] = m]
  BY <1>1, <1>2
<1>6. LinkInv' /\ link'[k] = m /\ OthersSame(k)
  BY <1>1, <1>3, <1>4, <1>5, OneChanges
<1>7. /\ Active' = Active /\ Opened' = Opened /\ Unseen' = Unseen
      /\ Served' = Served /\ Queued' = Queued
  BY <1>1, <1>3, <1>6 DEF OthersSame, Same, Active, Opened, Unseen, Served, Queued
<1>8. Finished' = Finished
  BY <1>1, <1>3, <1>6 DEF OthersSame, Same, Finished
<1>9. DownHeld' = DownHeld /\ UpHeld' = UpHeld \ {k}
  BY <1>1, <1>3, <1>6 DEF OthersSame, Same, DownHeld, UpHeld
<1>10. Blanks' = Blanks \cup {k}
  BY <1>1, <1>3, <1>4, <1>6 DEF OthersSame, Same, Blanks
<1> QED
  BY <1>6, <1>7, <1>8, <1>9, <1>10

(* What the calls of the two programs do to it.                               *)
LEMMA SocketMade ==
  ASSUME LinkInv, NEW k \in FreeConns, link' = [link EXCEPT ![k].cl = "syn"]
  PROVE  /\ LinkInv' /\ Active' = Active \cup {k} /\ Opened' = Opened /\ Unseen' = Unseen \cup {k}
         /\ Finished' = Finished /\ Served' = Served /\ Queued' = Queued
         /\ DownHeld' = DownHeld /\ UpHeld' = UpHeld /\ Blanks' = Blanks
<1>1. /\ k \in Conns /\ link[k] \in Link /\ link[k] = NoLink
      /\ link[k].cl = "none" /\ link[k].sv = "none"
  BY DEF FreeConns, LinkInv, NoLink
<1>2. PICK m : m = [link[k] EXCEPT !.cl = "syn"]
  OBVIOUS
<1>3. /\ m \in Link /\ m.cl = "syn" /\ m.sv = link[k].sv /\ m.up = link[k].up
      /\ m.down = link[k].down /\ m.upSlot = link[k].upSlot /\ m.downSlot = link[k].downSlot
  BY <1>1, <1>2 DEF Link
<1>4. Single(m) /\ Blank(m) /\ Blank(link[k])
  BY <1>1, <1>3 DEF Single, Blank, Link, NoLink
<1>5. link' = [link EXCEPT ![k] = m]
  BY <1>1, <1>2
<1>6. LinkInv' /\ link'[k] = m /\ OthersSame(k)
  BY <1>1, <1>3, <1>4, <1>5, OneChanges
<1>7. /\ Active' = Active \cup {k} /\ Opened' = Opened /\ Unseen' = Unseen \cup {k}
      /\ Served' = Served /\ Queued' = Queued
  BY <1>1, <1>3, <1>6 DEF OthersSame, Same, Active, Opened, Unseen, Served, Queued
<1>8. Finished' = Finished
  BY <1>1, <1>3, <1>6 DEF OthersSame, Same, Finished
<1>9. DownHeld' = DownHeld /\ UpHeld' = UpHeld
  BY <1>1, <1>3, <1>6 DEF OthersSame, Same, DownHeld, UpHeld
<1>10. Blanks' = Blanks
  BY <1>1, <1>3, <1>4, <1>6 DEF OthersSame, Same, Blanks
<1> QED
  BY <1>6, <1>7, <1>8, <1>9, <1>10

LEMMA ConnectionMade ==
  ASSUME LinkInv, NEW k \in Unseen, link' = [link EXCEPT ![k] = [@ EXCEPT !.cl = "open", !.sv = "queued"]]
  PROVE  /\ LinkInv' /\ Active' = Active /\ Opened' = Opened \cup {k} /\ Unseen' = Unseen \ {k}
         /\ Finished' = Finished /\ Served' = Served /\ Queued' = Queued \cup {k}
         /\ DownHeld' = DownHeld /\ UpHeld' = UpHeld /\ Blanks' = Blanks
<1>1. k \in Conns /\ link[k] \in Link /\ link[k].cl = "syn" /\ link[k].sv = "none" /\ Single(link[k])
  BY DEF Unseen, LinkInv
<1>2. PICK m : m = [link[k] EXCEPT !.cl = "open", !.sv = "queued"]
  OBVIOUS
<1>3. /\ m \in Link /\ m.cl = "open" /\ m.sv = "queued" /\ m.up = link[k].up
      /\ m.down = link[k].down /\ m.upSlot = link[k].upSlot /\ m.downSlot = link[k].downSlot
  BY <1>1, <1>2 DEF Link
<1>4. Single(m) /\ (Blank(m) <=> Blank(link[k]))
  BY <1>1, <1>3 DEF Single, Blank, Link
<1>5. link' = [link EXCEPT ![k] = m]
  BY <1>1, <1>2
<1>6. LinkInv' /\ link'[k] = m /\ OthersSame(k)
  BY <1>1, <1>3, <1>4, <1>5, OneChanges
<1>7. /\ Active' = Active /\ Opened' = Opened \cup {k} /\ Unseen' = Unseen \ {k}
      /\ Served' = Served /\ Queued' = Queued \cup {k}
  BY <1>1, <1>3, <1>6 DEF OthersSame, Same, Active, Opened, Unseen, Served, Queued
<1>8. Finished' = Finished
  BY <1>1, <1>3, <1>6 DEF OthersSame, Same, Finished
<1>9. DownHeld' = DownHeld /\ UpHeld' = UpHeld
  BY <1>1, <1>3, <1>6 DEF OthersSame, Same, DownHeld, UpHeld
<1>10. Blanks' = Blanks
  BY <1>1, <1>3, <1>4, <1>6 DEF OthersSame, Same, Blanks
<1> QED
  BY <1>6, <1>7, <1>8, <1>9, <1>10

LEMMA Accepted ==
  ASSUME LinkInv, NEW k \in Queued, link' = [link EXCEPT ![k].sv = "open"]
  PROVE  /\ LinkInv' /\ Active' = Active /\ Opened' = Opened /\ Unseen' = Unseen
         /\ Finished' = Finished /\ Served' = Served \cup {k} /\ Queued' = Queued \ {k}
         /\ DownHeld' = DownHeld /\ UpHeld' = UpHeld /\ Blanks' = Blanks
<1>1. k \in Conns /\ link[k] \in Link /\ link[k].sv = "queued" /\ Single(link[k])
  BY DEF Queued, LinkInv
<1>2. PICK m : m = [link[k] EXCEPT !.sv = "open"]
  OBVIOUS
<1>3. /\ m \in Link /\ m.cl = link[k].cl /\ m.sv = "open" /\ m.up = link[k].up
      /\ m.down = link[k].down /\ m.upSlot = link[k].upSlot /\ m.downSlot = link[k].downSlot
  BY <1>1, <1>2 DEF Link
<1>4. Single(m) /\ (Blank(m) <=> Blank(link[k]))
  BY <1>1, <1>3 DEF Single, Blank, Link
<1>5. link' = [link EXCEPT ![k] = m]
  BY <1>1, <1>2
<1>6. LinkInv' /\ link'[k] = m /\ OthersSame(k)
  BY <1>1, <1>3, <1>4, <1>5, OneChanges
<1>7. /\ Active' = Active /\ Opened' = Opened /\ Unseen' = Unseen
      /\ Served' = Served \cup {k} /\ Queued' = Queued \ {k}
  BY <1>1, <1>3, <1>6 DEF OthersSame, Same, Active, Opened, Unseen, Served, Queued
<1>8. Finished' = Finished
  BY <1>1, <1>3, <1>6 DEF OthersSame, Same, Finished
<1>9. DownHeld' = DownHeld /\ UpHeld' = UpHeld
  BY <1>1, <1>3, <1>6 DEF OthersSame, Same, DownHeld, UpHeld
<1>10. Blanks' = Blanks
  BY <1>1, <1>3, <1>4, <1>6 DEF OthersSame, Same, Blanks
<1> QED
  BY <1>6, <1>7, <1>8, <1>9, <1>10

LEMMA Claimed ==
  ASSUME LinkInv, NEW k \in Conns, link' = [link EXCEPT ![k].owned = TRUE]
  PROVE  /\ LinkInv' /\ Active' = Active /\ Opened' = Opened /\ Unseen' = Unseen
         /\ Finished' = Finished /\ Served' = Served /\ Queued' = Queued
         /\ DownHeld' = DownHeld /\ UpHeld' = UpHeld /\ Blanks' = Blanks
<1>1. k \in Conns /\ link[k] \in Link /\ Single(link[k])
  BY DEF LinkInv
<1>2. PICK m : m = [link[k] EXCEPT !.owned = TRUE]
  OBVIOUS
<1>3. /\ m \in Link /\ m.cl = link[k].cl /\ m.sv = link[k].sv /\ m.up = link[k].up
      /\ m.down = link[k].down /\ m.upSlot = link[k].upSlot /\ m.downSlot = link[k].downSlot
  BY <1>1, <1>2 DEF Link
<1>4. Single(m) /\ (Blank(m) <=> Blank(link[k]))
  BY <1>1, <1>3 DEF Single, Blank, Link
<1>5. link' = [link EXCEPT ![k] = m]
  BY <1>1, <1>2
<1>6. LinkInv' /\ link'[k] = m /\ OthersSame(k)
  BY <1>1, <1>3, <1>4, <1>5, OneChanges
<1>7. /\ Active' = Active /\ Opened' = Opened /\ Unseen' = Unseen
      /\ Served' = Served /\ Queued' = Queued
  BY <1>1, <1>3, <1>6 DEF OthersSame, Same, Active, Opened, Unseen, Served, Queued
<1>8. Finished' = Finished
  BY <1>1, <1>3, <1>6 DEF OthersSame, Same, Finished
<1>9. DownHeld' = DownHeld /\ UpHeld' = UpHeld
  BY <1>1, <1>3, <1>6 DEF OthersSame, Same, DownHeld, UpHeld
<1>10. Blanks' = Blanks
  BY <1>1, <1>3, <1>4, <1>6 DEF OthersSame, Same, Blanks
<1> QED
  BY <1>6, <1>7, <1>8, <1>9, <1>10

LEMMA TidyIs ==
  ASSUME NEW l \in Link, Single(l)
  PROVE  /\ Tidy(l) \in Link /\ Single(Tidy(l)) /\ (Blank(l) => Blank(Tidy(l)))
         /\ l.cl \in {"syn", "open"} \/ l.sv \in {"queued", "open"} => Tidy(l) = l
         /\ Tidy(l) = l \/ Tidy(l) = NoLink
<1>1. NoLink \in Link /\ Single(NoLink) /\ Blank(NoLink)
  BY DEF NoLink, Link, Single, Blank
<1>2. Tidy(l) = l \/ Tidy(l) = NoLink
  BY DEF Tidy
<1>3. l.cl \in {"syn", "open"} \/ l.sv \in {"queued", "open"} => Tidy(l) = l
  BY DEF Tidy
<1>4. CASE Tidy(l) = l
  BY <1>2, <1>3, <1>4, Zenon
<1>5. CASE Tidy(l) = NoLink
  BY <1>1, <1>2, <1>3, <1>5, Zenon
<1> QED
  BY <1>2, <1>4, <1>5

LEMMA ClientClosed ==
  ASSUME LinkInv, NEW k \in Active, link' = [link EXCEPT ![k] = Tidy([@ EXCEPT !.cl = "closed"])]
  PROVE  /\ LinkInv' /\ Active' = Active \ {k} /\ Served' = Served /\ Queued' = Queued
         /\ \A j \in Served : j \in UpHeld => j \in UpHeld'
         /\ Blanks \subseteq Blanks'
<1>1. k \in Conns /\ link[k] \in Link /\ Single(link[k])
  BY DEF Active, LinkInv
<1>2. PICK l : l = [link[k] EXCEPT !.cl = "closed"]
  OBVIOUS
<1>3. /\ l \in Link /\ l.cl = "closed" /\ l.sv = link[k].sv /\ l.up = link[k].up
      /\ l.down = link[k].down /\ l.upSlot = link[k].upSlot /\ l.downSlot = link[k].downSlot
  BY <1>1, <1>2 DEF Link
<1>4. Single(l) /\ (Blank(l) <=> Blank(link[k]))
  BY <1>1, <1>3 DEF Single, Blank, Link
<1>5. PICK m : m = Tidy(l)
  OBVIOUS
<1>6. /\ m \in Link /\ Single(m) /\ (Blank(l) => Blank(m))
      /\ l.sv \in {"queued", "open"} => m = l
      /\ m = l \/ m = NoLink
  BY <1>3, <1>4, <1>5, TidyIs, Zenon
<1>7. link' = [link EXCEPT ![k] = m]
  BY <1>1, <1>2, <1>5
<1>8. LinkInv' /\ link'[k] = m /\ OthersSame(k)
  BY <1>1, <1>6, <1>7, OneChanges
<1>9. /\ m.cl \notin {"syn", "open"}
      /\ m.sv = "open" <=> link[k].sv = "open"
      /\ m.sv = "queued" <=> link[k].sv = "queued"
      /\ m.sv = "open" => m = l
  BY <1>3, <1>6 DEF NoLink
<1>10. Active' = Active \ {k} /\ Served' = Served /\ Queued' = Queued
  BY <1>1, <1>8, <1>9 DEF OthersSame, Same, Active, Served, Queued
<1>11. \A j \in Served : j \in UpHeld => j \in UpHeld'
  BY <1>1, <1>3, <1>8, <1>9 DEF OthersSame, Same, Served, UpHeld
<1>12. Blanks \subseteq Blanks'
  BY <1>1, <1>4, <1>6, <1>8 DEF OthersSame, Same, Blanks
<1> QED
  BY <1>8, <1>10, <1>11, <1>12

(* The server's end is closed, by the server or by the kernel.                *)
LEMMA EndedIs ==
  ASSUME NEW l \in Link, Single(l), NEW n \in Link, n.cl = l.cl, n.sv = "closed", n.up = l.up,
         n.down = l.down, n.downSlot = l.downSlot, n.upSlot \in {FALSE, l.upSlot}, NEW m, m = Tidy(n)
  PROVE  /\ m \in Link /\ Single(m) /\ (Blank(l) => Blank(m))
         /\ m.sv \in {"none", "closed"}
         /\ m.cl \in {"syn", "open"} <=> l.cl \in {"syn", "open"}
         /\ m.cl \in {"syn", "open"} =>
              /\ m.cl = l.cl /\ m.sv = "closed" /\ m.down = l.down /\ m.downSlot = l.downSlot
<1>1. Single(n) /\ (Blank(l) => Blank(n))
  BY DEF Single, Blank, Link
<1>2. /\ m \in Link /\ Single(m) /\ (Blank(n) => Blank(m))
      /\ n.cl \in {"syn", "open"} => m = n
      /\ m = n \/ m = NoLink
  BY <1>1, TidyIs, Zenon
<1>3. NoLink.cl = "none" /\ NoLink.sv = "none"
  BY DEF NoLink
<1> QED
  BY <1>1, <1>2, <1>3

ActiveKept == /\ Active' = Active
              /\ \A k \in Active : /\ k \in Opened => k \in Opened'
                                   /\ k \in Unseen => k \in Unseen'
                                   /\ k \in Finished => k \in Finished'
                                   /\ k \in DownHeld => k \in DownHeld'

LEMMA ServerClosed ==
  ASSUME LinkInv, NEW k \in Served, link' = [link EXCEPT ![k] = Tidy([@ EXCEPT !.sv = "closed"])]
  PROVE  /\ LinkInv' /\ ActiveKept /\ Served' = Served \ {k} /\ Queued' = Queued
         /\ Blanks \subseteq Blanks'
<1>1. k \in Conns /\ link[k] \in Link /\ Single(link[k]) /\ link[k].sv = "open"
  BY DEF Served, LinkInv
<1>2. PICK l, n, m : l = link[k] /\ n = [l EXCEPT !.sv = "closed"] /\ m = Tidy(n)
  OBVIOUS
<1>3. /\ n \in Link /\ n.cl = l.cl /\ n.sv = "closed" /\ n.up = l.up
      /\ n.down = l.down /\ n.downSlot = l.downSlot /\ n.upSlot = l.upSlot
  BY <1>1, <1>2 DEF Link
<1>4. /\ m \in Link /\ Single(m) /\ (Blank(link[k]) => Blank(m))
      /\ m.sv \in {"none", "closed"}
      /\ m.cl \in {"syn", "open"} <=> link[k].cl \in {"syn", "open"}
      /\ m.cl \in {"syn", "open"} =>
           /\ m.cl = link[k].cl /\ m.sv = "closed" /\ m.down = link[k].down
           /\ m.downSlot = link[k].downSlot
  <2>1. l \in Link /\ Single(l) /\ n.upSlot \in {FALSE, l.upSlot} /\ m = Tidy(n)
    BY <1>1, <1>2, <1>3
  <2>2. /\ m \in Link /\ Single(m) /\ (Blank(l) => Blank(m))
        /\ m.sv \in {"none", "closed"}
        /\ m.cl \in {"syn", "open"} <=> l.cl \in {"syn", "open"}
        /\ m.cl \in {"syn", "open"} =>
             /\ m.cl = l.cl /\ m.sv = "closed" /\ m.down = l.down /\ m.downSlot = l.downSlot
    BY <1>3, <2>1, EndedIs, ZenonT(60)
  <2> QED
    BY <1>2, <2>2, Zenon
<1>5. link' = [link EXCEPT ![k] = m]
  BY <1>1, <1>2
<1>6. LinkInv' /\ link'[k] = m /\ OthersSame(k)
  BY <1>1, <1>4, <1>5, OneChanges
<1>7. Served' = Served \ {k} /\ Queued' = Queued
  BY <1>1, <1>4, <1>6 DEF OthersSame, Same, Served, Queued
<1>8. Blanks \subseteq Blanks'
  BY <1>1, <1>4, <1>6 DEF OthersSame, Same, Blanks
<1>9. Active' = Active /\ \A j \in Active : (j \in Opened => j \in Opened') /\ (j \in Unseen => j \in Unseen')
  BY <1>1, <1>4, <1>6 DEF OthersSame, Same, Active, Opened, Unseen
<1>10. \A j \in Active : j \in Finished => j \in Finished'
  BY <1>1, <1>6 DEF OthersSame, Same, Finished
<1>11. \A j \in Active : j \in DownHeld => j \in DownHeld'
  BY <1>1, <1>4, <1>6 DEF OthersSame, Same, Active, DownHeld
<1> QED
  BY <1>6, <1>7, <1>8, <1>9, <1>10, <1>11 DEF ActiveKept

LEMMA AllClosed ==
  ASSUME LinkInv,
         link' = [k \in Conns |->
                    IF link[k].sv \in {"queued", "open"}
                      THEN Tidy([link[k] EXCEPT !.sv = "closed", !.owned = FALSE, !.upSlot = FALSE])
                      ELSE link[k]]
  PROVE  LinkInv' /\ ActiveKept /\ Served' = {} /\ Blanks \subseteq Blanks'
<1>1. ASSUME NEW k \in Conns, link[k].sv \in {"queued", "open"}
      PROVE  /\ link'[k] \in Link /\ Single(link'[k]) /\ (Blank(link[k]) => Blank(link'[k]))
             /\ link'[k].sv \in {"none", "closed"}
             /\ link'[k].cl \in {"syn", "open"} <=> link[k].cl \in {"syn", "open"}
             /\ link'[k].cl \in {"syn", "open"} =>
                  /\ link'[k].cl = link[k].cl /\ link'[k].sv = "closed"
                  /\ link'[k].down = link[k].down /\ link'[k].downSlot = link[k].downSlot
  <2>1. PICK l, n, m : /\ l = link[k] /\ m = link'[k]
                       /\ n = [l EXCEPT !.sv = "closed", !.owned = FALSE, !.upSlot = FALSE]
    OBVIOUS
  <2>2. m = Tidy(n)
    BY <1>1, <2>1
  <2>3. /\ l \in Link /\ Single(l) /\ n \in Link /\ n.cl = l.cl /\ n.sv = "closed"
        /\ n.up = l.up /\ n.down = l.down /\ n.downSlot = l.downSlot /\ n.upSlot = FALSE
    BY <2>1 DEF LinkInv, Link
  <2>4. /\ m \in Link /\ Single(m) /\ (Blank(l) => Blank(m))
        /\ m.sv \in {"none", "closed"}
        /\ m.cl \in {"syn", "open"} <=> l.cl \in {"syn", "open"}
        /\ m.cl \in {"syn", "open"} =>
             /\ m.cl = l.cl /\ m.sv = "closed" /\ m.down = l.down /\ m.downSlot = l.downSlot
    BY <2>2, <2>3, n.upSlot \in {FALSE, l.upSlot}, EndedIs, ZenonT(60)
  <2> QED
    BY <2>1, <2>4, Zenon
<1>2. \A k \in Conns : link[k].sv \notin {"queued", "open"} => link'[k] = link[k]
  OBVIOUS
<1>3. LinkInv'
  <2>1. \A k \in Conns : link'[k] \in Link /\ Single(link'[k])
    <3> SUFFICES ASSUME NEW k \in Conns PROVE link'[k] \in Link /\ Single(link'[k])
      OBVIOUS
    <3>1. CASE link[k].sv \in {"queued", "open"}
      BY <1>1, <3>1, Zenon
    <3>2. CASE link[k].sv \notin {"queued", "open"}
      BY <1>2, <3>2 DEF LinkInv
    <3> QED
      BY <3>1, <3>2
  <2>2. link' = [k \in Conns |-> link'[k]]
    OBVIOUS
  <2>3. link' \in [Conns -> Link]
    BY <2>1, <2>2
  <2> QED
    BY <2>1, <2>3 DEF LinkInv
<1>4. Served' = {}
  BY <1>1, <1>2 DEF Served
<1>5. Blanks \subseteq Blanks'
  BY <1>1, <1>2 DEF Blanks
<1>6. Active' = Active /\ \A k \in Active : (k \in Opened => k \in Opened') /\ (k \in Unseen => k \in Unseen')
  BY <1>1, <1>2 DEF Active, Opened, Unseen
<1>7. \A k \in Active : k \in Finished => k \in Finished'
  BY <1>2 DEF Finished
<1>8. \A k \in Active : k \in DownHeld => k \in DownHeld'
  BY <1>1, <1>2 DEF Active, DownHeld
<1> QED
  BY <1>3, <1>4, <1>5, <1>6, <1>7, <1>8 DEF ActiveKept

(* A mark arrives.                                                            *)
LEMMA UpArrives ==
  ASSUME LinkInv, NEW k \in Conns, link[k].up > 0,
         IF link[k].sv \in {"queued", "open"}
           THEN link' = [link EXCEPT ![k].up = @ - 1, ![k].upSlot = TRUE]
           ELSE link' = [link EXCEPT ![k].up = @ - 1]
  PROVE  /\ LinkInv' /\ Active' = Active /\ Opened' = Opened /\ Unseen' = Unseen
         /\ Finished' = Finished /\ Served' = Served /\ Queued' = Queued
         /\ DownHeld' = DownHeld /\ Blanks \subseteq Blanks' /\ k \notin Blanks /\ k \notin UpHeld
         /\ UpHeld' = IF link[k].sv \in {"queued", "open"} THEN UpHeld \cup {k} ELSE UpHeld
<1>1. /\ link[k] \in Link /\ Single(link[k]) /\ link[k].up = 1 /\ link[k].down = 0
      /\ ~link[k].upSlot /\ ~link[k].downSlot /\ ~Blank(link[k])
  BY DEF LinkInv, Single, Link, Blank
<1>2. PICK m : m = link'[k]
  OBVIOUS
<1>3. /\ m \in Link /\ m.cl = link[k].cl /\ m.sv = link[k].sv /\ m.up = 0 /\ m.down = 0
      /\ m.downSlot = link[k].downSlot
      /\ link[k].sv \in {"queued", "open"} => m.upSlot
      /\ link[k].sv \notin {"queued", "open"} => m.upSlot = link[k].upSlot
  <2>1. CASE link[k].sv \in {"queued", "open"}
    BY <1>1, <1>2, <2>1 DEF Link, LinkInv
  <2>2. CASE link[k].sv \notin {"queued", "open"}
    BY <1>1, <1>2, <2>2 DEF Link, LinkInv
  <2> QED
    BY <2>1, <2>2
<1>4. Single(m)
  BY <1>1, <1>3 DEF Single
<1>5. link' = [link EXCEPT ![k] = m]
  <2>2. CASE link[k].sv \in {"queued", "open"}
    <3>1. link' = [link EXCEPT ![k].up = @ - 1, ![k].upSlot = TRUE]
      BY <2>2
    <3> QED
      BY <1>2, <3>1 DEF LinkInv
  <2>3. CASE link[k].sv \notin {"queued", "open"}
    <3>1. link' = [link EXCEPT ![k].up = @ - 1]
      BY <2>3
    <3> QED
      BY <1>2, <3>1 DEF LinkInv
  <2> QED
    BY <2>2, <2>3
<1>6. LinkInv' /\ link'[k] = m /\ OthersSame(k)
  BY <1>3, <1>4, <1>5, OneChanges
<1>7. /\ Active' = Active /\ Opened' = Opened /\ Unseen' = Unseen
      /\ Served' = Served /\ Queued' = Queued
  BY <1>1, <1>3, <1>6 DEF OthersSame, Same, Active, Opened, Unseen, Served, Queued
<1>8. Finished' = Finished
  BY <1>1, <1>3, <1>6 DEF OthersSame, Same, Finished
<1>9. DownHeld' = DownHeld
  BY <1>1, <1>3, <1>6 DEF OthersSame, Same, DownHeld
<1>10. Blanks \subseteq Blanks' /\ k \notin Blanks
  BY <1>1, <1>6 DEF OthersSame, Same, Blanks
<1>11. k \notin UpHeld /\ Same(UpHeld, UpHeld', k) /\ (k \in UpHeld' <=> m.upSlot)
  BY <1>1, <1>6 DEF OthersSame, UpHeld
<1>12. UpHeld' = IF link[k].sv \in {"queued", "open"} THEN UpHeld \cup {k} ELSE UpHeld
  BY <1>1, <1>3, <1>11 DEF Same
<1> QED
  BY <1>6, <1>7, <1>8, <1>9, <1>10, <1>11, <1>12

LEMMA DownArrives ==
  ASSUME LinkInv, NEW k \in Conns, link[k].down > 0,
         IF link[k].cl = "open"
           THEN link' = [link EXCEPT ![k].down = @ - 1, ![k].downSlot = TRUE]
           ELSE link' = [link EXCEPT ![k].down = @ - 1]
  PROVE  /\ LinkInv' /\ Active' = Active /\ Opened' = Opened /\ Unseen' = Unseen
         /\ Finished \subseteq Finished' /\ Served' = Served /\ Queued' = Queued
         /\ UpHeld' = UpHeld /\ Blanks \subseteq Blanks' /\ k \notin Blanks /\ k \notin DownHeld
         /\ k \notin Finished
         /\ DownHeld' = IF link[k].cl = "open" THEN DownHeld \cup {k} ELSE DownHeld
<1>1. /\ link[k] \in Link /\ Single(link[k]) /\ link[k].down = 1 /\ link[k].up = 0
      /\ ~link[k].upSlot /\ ~link[k].downSlot /\ ~Blank(link[k])
  BY DEF LinkInv, Single, Link, Blank
<1>2. PICK m : m = link'[k]
  OBVIOUS
<1>3. /\ m \in Link /\ m.cl = link[k].cl /\ m.sv = link[k].sv /\ m.up = 0 /\ m.down = 0
      /\ m.upSlot = link[k].upSlot
      /\ link[k].cl = "open" => m.downSlot
      /\ link[k].cl # "open" => m.downSlot = link[k].downSlot
  <2>1. CASE link[k].cl = "open"
    BY <1>1, <1>2, <2>1 DEF Link, LinkInv
  <2>2. CASE link[k].cl # "open"
    BY <1>1, <1>2, <2>2 DEF Link, LinkInv
  <2> QED
    BY <2>1, <2>2
<1>4. Single(m)
  BY <1>1, <1>3 DEF Single
<1>5. link' = [link EXCEPT ![k] = m]
  <2>2. CASE link[k].cl = "open"
    <3>1. link' = [link EXCEPT ![k].down = @ - 1, ![k].downSlot = TRUE]
      BY <2>2
    <3> QED
      BY <1>2, <3>1 DEF LinkInv
  <2>3. CASE link[k].cl # "open"
    <3>1. link' = [link EXCEPT ![k].down = @ - 1]
      BY <2>3
    <3> QED
      BY <1>2, <3>1 DEF LinkInv
  <2> QED
    BY <2>2, <2>3
<1>6. LinkInv' /\ link'[k] = m /\ OthersSame(k)
  BY <1>3, <1>4, <1>5, OneChanges
<1>7. /\ Active' = Active /\ Opened' = Opened /\ Unseen' = Unseen
      /\ Served' = Served /\ Queued' = Queued
  BY <1>1, <1>3, <1>6 DEF OthersSame, Same, Active, Opened, Unseen, Served, Queued
<1>8. Finished \subseteq Finished' /\ k \notin Finished
  BY <1>1, <1>3, <1>6 DEF OthersSame, Same, Finished
<1>9. UpHeld' = UpHeld
  BY <1>1, <1>3, <1>6 DEF OthersSame, Same, UpHeld
<1>10. Blanks \subseteq Blanks' /\ k \notin Blanks
  BY <1>1, <1>6 DEF OthersSame, Same, Blanks
<1>11. k \notin DownHeld /\ Same(DownHeld, DownHeld', k) /\ (k \in DownHeld' <=> m.downSlot)
  BY <1>1, <1>6 DEF OthersSame, DownHeld
<1>12. DownHeld' = IF link[k].cl = "open" THEN DownHeld \cup {k} ELSE DownHeld
  BY <1>1, <1>3, <1>11 DEF Same
<1> QED
  BY <1>6, <1>7, <1>8, <1>9, <1>10, <1>11, <1>12

LEMMA LinkSame ==
  ASSUME UNCHANGED link
  PROVE  /\ LinkInv => LinkInv'
         /\ Active' = Active /\ Opened' = Opened /\ Unseen' = Unseen
         /\ Finished' = Finished /\ Served' = Served /\ Queued' = Queued
         /\ DownHeld' = DownHeld /\ UpHeld' = UpHeld /\ Blanks' = Blanks
  BY DEF LinkInv, Active, Opened, Unseen, Finished, Served, Queued, DownHeld, UpHeld, Blanks

-----------------------------------------------------------------------------
(* What each program relies on while others act.                              *)
CliKeeps == ActiveKept /\ \A k \in Active : k \in Still => k \in Still'
SrvKeeps == /\ Served' = Served /\ Queued \subseteq Queued'
            /\ \A k \in Served : k \in UpHeld => k \in UpHeld'
            /\ "isC" \in SOn /\ cli_fd \in Blanks => cli_fd \in Blanks'

LEMMA CliFrame ==
  ASSUME CliInv, CliKeeps, UNCHANGED <<cliVars, quiet>>
  PROVE  CliInv'
<1>1. /\ c_prog' = c_prog /\ c_main' = c_main /\ c_stack' = c_stack /\ c_pending' = c_pending
      /\ c_alarm' = c_alarm /\ c_sleep' = c_sleep /\ conn_fd' = conn_fd /\ got_reply' = got_reply
      /\ c_expire_cnt' = c_expire_cnt /\ c_already_reset' = c_already_reset /\ quiet' = quiet
  BY DEF cliVars, cliTimers, cliGlobals
<1>2. COn' = COn /\ CliStack'
  BY <1>1, Zenon DEF COn, CliStack, CliInv
<1>3. CliTypes' /\ OffLine' /\ Unarmed' /\ Armed' /\ Timing'
  <2>1. CliTypes'
    BY <1>1 DEF CliTypes, CliInv
  <2>2. OffLine' /\ Unarmed' /\ Armed'
    BY <1>1, <1>2 DEF CliInv, OffLine, Unarmed, Armed
  <2>3. Timing'
    BY <1>1, <1>2 DEF CliInv, Timing
  <2> QED
    BY <2>1, <2>2, <2>3
<1>4. Active' = Active /\ (conn_fd # None => conn_fd \in Active)
  BY DEF CliKeeps, ActiveKept, CliInv, Owning
<1>5. Owning' /\ CliUrgent' /\ Answered'
  BY <1>1, <1>2, <1>4 DEF CliInv, CliKeeps, ActiveKept, Owning, CliUrgent, Answered
<1>6. Retiring'
  BY <1>1, <1>2, <1>4 DEF CliInv, CliKeeps, ActiveKept, Retiring
<1> QED
  BY <1>2, <1>3, <1>5, <1>6 DEF CliInv

LEMMA SrvFrame ==
  ASSUME SrvInv, SrvKeeps, UNCHANGED <<srvVars, backlog>>
  PROVE  SrvInv'
<1>1. /\ s_main' = s_main /\ s_stack' = s_stack /\ s_pending' = s_pending /\ s_alarm' = s_alarm
      /\ cli_fd' = cli_fd /\ s_expire_cnt' = s_expire_cnt /\ s_already_reset' = s_already_reset
      /\ loaded' = loaded /\ backlog' = backlog
  BY DEF srvVars, srvGlobals
<1>2. SOn' = SOn /\ SrvStack' /\ Points(backlog)' = Points(backlog)
  BY <1>1, Zenon DEF SOn, SrvStack, SrvInv
<1>3. SrvTypes'
  BY <1>1 DEF SrvTypes, SrvInv
<1>4. Serving' /\ Waiting'
  BY <1>1, <1>2 DEF SrvInv, SrvKeeps, Serving, Waiting
<1>5. cli_fd \in UpHeld => cli_fd \in Served
  BY NetAssumption DEF SrvInv, Serving, UpHeld
<1>6. SrvUrgent'
  BY <1>1, <1>2, <1>5 DEF SrvInv, SrvKeeps, SrvUrgent
<1> QED
  BY <1>2, <1>3, <1>4, <1>6 DEF SrvInv

(* No step of a program but those of the link changes what the other sees.    *)
LEMMA LinkKept ==
  ASSUME UNCHANGED link
  PROVE  /\ LinkInv => LinkInv'
         /\ SrvKeeps
         /\ cli_fd' = cli_fd /\ ("isC" \in SOn' => "isC" \in SOn) => CliKeeps
<1>1. /\ Active' = Active /\ Opened' = Opened /\ Unseen' = Unseen /\ Finished' = Finished
      /\ Served' = Served /\ Queued' = Queued /\ DownHeld' = DownHeld /\ UpHeld' = UpHeld
      /\ Blanks' = Blanks
  BY LinkSame
<1> QED
  BY <1>1, LinkSame DEF SrvKeeps, CliKeeps, ActiveKept, Still

-----------------------------------------------------------------------------
(* The server's steps.                                                        *)
LEMMA NetSame ==
  ASSUME NetInv, UNCHANGED netVars
  PROVE  /\ NetInv' /\ SrvKeeps /\ backlog' = backlog /\ Served' = Served
         /\ UpHeld' = UpHeld /\ Blanks' = Blanks
         /\ cli_fd' = cli_fd /\ ("isC" \in SOn' => "isC" \in SOn) => CliKeeps
  BY LinkKept, LinkSame DEF NetInv, netVars

LEMMA WaitingSame ==
  ASSUME Waiting, backlog' = backlog, Queued \subseteq Queued'
  PROVE  Waiting'
<1>1. Points(backlog)' = Points(backlog)
  OBVIOUS
<1> QED
  BY <1>1 DEF Waiting

(* A handler starts, moves on or returns and leaves the connections alone.    *)
LEMMA SrvHandlerOnly ==
  ASSUME NetInv, SrvInv, UNCHANGED <<link, backlog>>, alive' \in BOOLEAN,
         cli_fd' = cli_fd, s_main' = s_main, SrvTypes', SrvStack',
         ("URG" \in s_pending' \/ "read" \in SOn') => ("URG" \in s_pending \/ "read" \in SOn),
         ~("URG" \in s_pending' /\ "read" \in SOn'),
         "isC" \in SOn' => "isC" \in SOn
  PROVE  NetInv' /\ SrvInv' /\ CliKeeps
<1>1. /\ NetInv' /\ CliKeeps /\ Served' = Served /\ UpHeld' = UpHeld
      /\ Blanks' = Blanks /\ Queued \subseteq Queued'
  BY LinkKept, LinkSame DEF NetInv, SrvKeeps
<1>2. Serving'
  BY <1>1 DEF SrvInv, Serving
<1>3. Waiting'
  BY <1>1, WaitingSame DEF SrvInv
<1>4. SrvUrgent'
  BY <1>1 DEF SrvInv, SrvUrgent
<1> QED
  BY <1>1, <1>2, <1>3, <1>4 DEF SrvInv

LEMMA SrvHandlerStartsI ==
  ASSUME NetInv, SrvInv, SrvHandlerStarts
  PROVE  NetInv' /\ SrvInv' /\ CliKeeps
<1>1. PICK sig \in SrvDeliverable :
        /\ s_pending' = s_pending \ {sig}
        /\ s_stack' = <<IF sig = "ALRM" THEN "alrm" ELSE "read">> \o s_stack
  BY DEF SrvHandlerStarts
<1>2. PICK p : p = IF sig = "ALRM" THEN "alrm" ELSE "read"
  OBVIOUS
<1>3. /\ SrvStack' /\ SOn' = SOn \cup {p} /\ sig \in s_pending /\ sig \in {"ALRM", "URG"}
  BY <1>1, <1>2, SrvStarts DEF SrvInv, SrvTypes
<1>4. SrvTypes'
  BY <1>1 DEF SrvInv, SrvTypes, SrvHandlerStarts, srvGlobals
<1>5. /\ ("URG" \in s_pending' \/ "read" \in SOn') => ("URG" \in s_pending \/ "read" \in SOn)
      /\ ~("URG" \in s_pending' /\ "read" \in SOn')
      /\ "isC" \in SOn' => "isC" \in SOn
  BY <1>1, <1>2, <1>3 DEF SrvInv, SrvUrgent
<1> QED
  BY <1>3, <1>4, <1>5, SrvHandlerOnly DEF SrvHandlerStarts, srvGlobals, netVars, NetInv

LEMMA SrvAlarmRingsI ==
  ASSUME NetInv, SrvInv, SrvAlarmRings
  PROVE  NetInv' /\ SrvInv' /\ CliKeeps
<1>1. SrvStack' /\ "alrm" \in SOn /\ SOn' = (SOn \ {"alrm"}) \cup {"store"}
  BY SrvMoves DEF SrvAlarmRings, SrvInv, SrvAlarmPoints, SrvUrgentPoints
<1>2. SrvTypes'
  BY SrvAssumption DEF SrvInv, SrvTypes, SrvAlarmRings
<1> QED
  BY <1>1, <1>2, SrvHandlerOnly DEF SrvAlarmRings, SrvInv, SrvUrgent, netVars, NetInv

LEMMA StoreCountI ==
  ASSUME NetInv, SrvInv, StoreCount
  PROVE  NetInv' /\ SrvInv' /\ CliKeeps
<1>1. SrvStack' /\ SOn' = SOn \ {"store"}
  BY SrvReturns DEF StoreCount, SrvInv
<1>2. s_expire_cnt' \in 0..(SRV_PEER_EXPIRE_CNT + 1)
  BY SrvAssumption DEF StoreCount, SrvCounted, SrvInv, SrvTypes
<1>3. SrvTypes'
  BY <1>2, SrvAssumption DEF SrvInv, SrvTypes, StoreCount
<1> QED
  BY <1>1, <1>3, SrvHandlerOnly DEF StoreCount, SrvInv, SrvUrgent, netVars, NetInv

LEMMA ResetCountI ==
  ASSUME NetInv, SrvInv, ResetCount
  PROVE  NetInv' /\ SrvInv' /\ CliKeeps
<1>1. SrvStack' /\ SOn' = SOn \ {"reset"}
  BY SrvReturns DEF ResetCount, SrvInv
<1>2. s_expire_cnt' \in 0..(SRV_PEER_EXPIRE_CNT + 1) /\ s_already_reset' \in BOOLEAN
  <2>1. s_expire_cnt' = 0 /\ 0 \in 0..(SRV_PEER_EXPIRE_CNT + 1)
    BY SrvAssumption DEF ResetCount
  <2>2. s_already_reset' \in BOOLEAN
    BY DEF ResetCount
  <2> QED
    BY <2>1, <2>2
<1>3. SrvTypes'
  BY <1>2 DEF SrvInv, SrvTypes, ResetCount
<1> QED
  BY <1>1, <1>3, SrvHandlerOnly DEF ResetCount, SrvInv, SrvUrgent, netVars, NetInv

(* A heartbeat is read: its mark becomes the answer that is owed.             *)
LEMMA SrvReadMarkI ==
  ASSUME NetInv, SrvInv, SrvReadMark
  PROVE  NetInv' /\ SrvInv' /\ CliKeeps
<1>1. SrvAt("read") /\ "read" \in SOn
  BY SrvHead DEF SrvReadMark, SrvInv
<1>2. cli_fd \in UpHeld /\ "URG" \notin s_pending /\ SrvMarkThere
  BY <1>1, NetAssumption DEF SrvInv, SrvUrgent, UpHeld, SrvMarkThere
<1>3. /\ link' = [link EXCEPT ![cli_fd].upSlot = FALSE] /\ SrvGoto("isC")
      /\ UNCHANGED <<backlog, alive, s_main, s_pending, s_alarm, srvGlobals>>
  BY <1>2 DEF SrvReadMark
<1>4. SrvStack' /\ SOn' = (SOn \ {"read"}) \cup {"isC"}
  BY <1>1, <1>3, SrvMoves DEF SrvInv, SrvAlarmPoints, SrvUrgentPoints
<1>5. /\ LinkInv' /\ Active' = Active /\ Opened' = Opened /\ Unseen' = Unseen
      /\ Finished' = Finished /\ Served' = Served /\ Queued' = Queued
      /\ DownHeld' = DownHeld /\ Blanks' = Blanks \cup {cli_fd}
  BY <1>2, <1>3, HeartbeatRead DEF NetInv
<1>6. cli_fd \notin Blanks
  BY <1>2 DEF UpHeld, Blanks, Blank
<1>7. cli_fd' = cli_fd /\ s_main' = s_main /\ backlog' = backlog /\ s_pending' = s_pending
  BY <1>3 DEF srvGlobals
<1>8. SrvTypes'
  BY <1>3 DEF SrvInv, SrvTypes, srvGlobals
<1>9. Serving' /\ SrvUrgent'
  BY <1>2, <1>4, <1>5, <1>7 DEF SrvInv, Serving, SrvUrgent
<1>10. Waiting'
  BY <1>5, <1>7, WaitingSame DEF SrvInv
<1>11. CliKeeps
  BY <1>4, <1>5, <1>6, <1>7 DEF CliKeeps, ActiveKept, Still
<1>12. NetInv'
  BY <1>3, <1>5 DEF NetInv
<1> QED
  BY <1>4, <1>8, <1>9, <1>10, <1>11, <1>12 DEF SrvInv

LEMMA ReplyI ==
  ASSUME NetInv, SrvInv, Reply
  PROVE  NetInv' /\ SrvInv' /\ CliKeeps
<1>1. SrvAt("isC") /\ "isC" \in SOn
  BY SrvHead DEF Reply, SrvInv
<1>2. cli_fd \in Blanks /\ cli_fd # None /\ cli_fd \in Served
  BY <1>1, NetAssumption DEF SrvInv, SrvUrgent, Serving, Blanks
<1>3. /\ link' = [link EXCEPT ![cli_fd].down = @ + 1] /\ SrvGoto("reset")
      /\ UNCHANGED <<backlog, alive, s_main, s_pending, s_alarm, srvGlobals>>
  BY <1>2 DEF Reply, SendDown
<1>4. SrvStack' /\ SOn' = (SOn \ {"isC"}) \cup {"reset"}
  BY <1>1, <1>3, SrvMoves DEF SrvInv, SrvAlarmPoints, SrvUrgentPoints
<1>5. /\ LinkInv' /\ Active' = Active /\ Opened' = Opened /\ Unseen' = Unseen
      /\ Finished' = Finished /\ Served' = Served /\ Queued' = Queued
      /\ DownHeld' = DownHeld /\ UpHeld' = UpHeld /\ Blanks' = Blanks \ {cli_fd}
  BY <1>2, <1>3, MarkSentDown DEF NetInv
<1>6. cli_fd' = cli_fd /\ s_main' = s_main /\ backlog' = backlog /\ s_pending' = s_pending
  BY <1>3 DEF srvGlobals
<1>7. SrvTypes'
  BY <1>3 DEF SrvInv, SrvTypes, srvGlobals
<1>8. Serving' /\ SrvUrgent'
  BY <1>4, <1>5, <1>6 DEF SrvInv, Serving, SrvUrgent
<1>9. Waiting'
  BY <1>5, <1>6, WaitingSame DEF SrvInv
<1>10. CliKeeps
  BY <1>1, <1>4, <1>5, <1>6 DEF CliKeeps, ActiveKept, Still
<1>11. NetInv'
  BY <1>3, <1>5 DEF NetInv
<1> QED
  BY <1>4, <1>7, <1>8, <1>9, <1>10, <1>11 DEF SrvInv

(* Main runs: no handler does.                                                *)
LEMMA SrvMainCalm ==
  ASSUME SrvInv, NEW p, SrvMainAt(p)
  PROVE  s_main = p /\ SOn = {} /\ s_pending = {}
  BY SrvCalm DEF SrvInv, SrvTypes, SrvMainAt

LEMMA SrvMainOnly ==
  ASSUME SrvInv, SOn = {}, s_pending = {}, UNCHANGED <<s_stack, s_pending>>
  PROVE  /\ SrvStack' /\ SrvUrgent' /\ SOn' = {} /\ Still = Blanks /\ Still' = Blanks'
<1>1. SOn' = SOn
  BY Zenon DEF SOn
<1>2. SrvStack'
  BY Zenon DEF SrvStack, SrvInv
<1>3. s_pending' = {}
  OBVIOUS
<1>4. SrvUrgent'
  BY <1>1, <1>3 DEF SrvUrgent
<1> QED
  BY <1>1, <1>2, <1>4 DEF Still

LEMMA AcceptI ==
  ASSUME NetInv, SrvInv, Accept
  PROVE  NetInv' /\ SrvInv' /\ CliKeeps
<1>1. s_main = "accept" /\ SOn = {} /\ s_pending = {}
  BY SrvMainCalm DEF Accept
<1>2. SrvStack' /\ SrvUrgent' /\ SOn' = {} /\ Still = Blanks /\ Still' = Blanks'
  BY <1>1, SrvMainOnly DEF Accept
<1>3. PICK k : k = Head(backlog)
  OBVIOUS
<1>4. /\ backlog \in Seq(Conns) /\ backlog' \in Seq(Conns) /\ Len(backlog) \in Nat \ {0}
      /\ k = backlog[1] /\ k \in Conns /\ Len(backlog') = Len(backlog) - 1
      /\ \A i \in 1..Len(backlog') : backlog'[i] = backlog[i + 1]
  BY <1>3, HeadTailProperties, EmptySeq, ElementOfSeq DEF Accept, NetInv
<1>5. 1 \in 1..Len(backlog) /\ \A i \in 1..Len(backlog') : i + 1 \in 1..Len(backlog) /\ i + 1 # 1
  BY <1>4
<1>6. k \in Queued
  BY <1>4, <1>5 DEF SrvInv, Waiting, Points
<1>7. /\ LinkInv' /\ Active' = Active /\ Opened' = Opened /\ Unseen' = Unseen
      /\ Finished' = Finished /\ Served' = Served \cup {k} /\ Queued' = Queued \ {k}
      /\ DownHeld' = DownHeld /\ Blanks' = Blanks
  <2>1. link' = [link EXCEPT ![k].sv = "open"]
    BY <1>3 DEF Accept
  <2> QED
    BY <1>6, <2>1, Accepted DEF NetInv
<1>8. cli_fd' = k /\ s_main' = "own"
  BY <1>3 DEF Accept
<1>9. Serving'
  BY <1>1, <1>4, <1>7, <1>8, NetAssumption DEF SrvInv, Serving
<1>10. Waiting'
  <2>1. \A i \in 1..Len(backlog') : backlog'[i] \in Queued /\ backlog'[i] # k
    BY <1>4, <1>5 DEF SrvInv, Waiting, Points
  <2>2. \A i, j \in 1..Len(backlog') : backlog'[i] = backlog'[j] => i + 1 = j + 1
    BY <1>4, <1>5 DEF SrvInv, Waiting
  <2>3. \A i, j \in 1..Len(backlog') : backlog'[i] = backlog'[j] => i = j
    BY <2>2
  <2> QED
    BY <1>7, <2>1, <2>3 DEF Waiting, Points
<1>11. SrvTypes'
  BY <1>4, <1>8 DEF SrvInv, SrvTypes, Accept
<1>12. CliKeeps
  BY <1>2, <1>7 DEF CliKeeps, ActiveKept
<1>13. NetInv'
  BY <1>4, <1>7 DEF NetInv, Accept
<1> QED
  BY <1>2, <1>9, <1>10, <1>11, <1>12, <1>13 DEF SrvInv

LEMMA ClaimSignalsI ==
  ASSUME NetInv, SrvInv, ClaimSignals
  PROVE  NetInv' /\ SrvInv' /\ CliKeeps
<1>1. s_main = "own" /\ SOn = {} /\ s_pending = {}
  BY SrvMainCalm DEF ClaimSignals
<1>2. SrvStack' /\ SrvUrgent' /\ SOn' = {} /\ Still = Blanks /\ Still' = Blanks'
  BY <1>1, SrvMainOnly DEF ClaimSignals
<1>3. cli_fd \in Conns /\ cli_fd # None
  BY <1>1 DEF SrvInv, Serving, SrvTypes
<1>4. /\ LinkInv' /\ Active' = Active /\ Opened' = Opened /\ Unseen' = Unseen
      /\ Finished' = Finished /\ Served' = Served /\ Queued' = Queued
      /\ DownHeld' = DownHeld /\ Blanks' = Blanks
  BY <1>3, Claimed DEF NetInv, ClaimSignals
<1>5. cli_fd' = cli_fd /\ s_main' = "recv" /\ backlog' = backlog
  BY DEF ClaimSignals, srvGlobals
<1>6. SrvTypes'
  BY DEF SrvInv, SrvTypes, ClaimSignals, srvGlobals
<1>7. Serving'
  BY <1>3, <1>4, <1>5 DEF SrvInv, Serving
<1>8. Waiting'
  BY <1>4, <1>5, WaitingSame DEF SrvInv
<1>9. CliKeeps
  BY <1>2, <1>4 DEF CliKeeps, ActiveKept
<1>10. NetInv'
  BY <1>4 DEF NetInv, ClaimSignals
<1> QED
  BY <1>2, <1>6, <1>7, <1>8, <1>9, <1>10 DEF SrvInv

LEMMA SrvRecvReturnsI ==
  ASSUME NetInv, SrvInv, SrvRecvReturns
  PROVE  NetInv' /\ SrvInv' /\ CliKeeps
<1>1. s_main = "recv" /\ SOn = {} /\ s_pending = {}
  BY SrvMainCalm DEF SrvRecvReturns
<1>2. SrvStack' /\ SrvUrgent' /\ SOn' = {}
  BY <1>1, SrvMainOnly DEF SrvRecvReturns
<1>3. cli_fd' = cli_fd /\ s_main' = "close"
  BY DEF SrvRecvReturns
<1>4. /\ NetInv' /\ CliKeeps /\ backlog' = backlog /\ Served' = Served /\ Queued \subseteq Queued'
  BY <1>2, <1>3, NetSame DEF SrvRecvReturns, SrvKeeps
<1>5. SrvTypes'
  BY DEF SrvInv, SrvTypes, SrvRecvReturns
<1>6. Serving'
  BY <1>1, <1>3, <1>4 DEF SrvInv, Serving
<1>7. Waiting'
  BY <1>4, WaitingSame DEF SrvInv
<1> QED
  BY <1>2, <1>4, <1>5, <1>6, <1>7 DEF SrvInv

LEMMA SrvCloseI ==
  ASSUME NetInv, SrvInv, SrvClose
  PROVE  NetInv' /\ SrvInv' /\ CliKeeps
<1>1. s_main = "close" /\ SOn = {} /\ s_pending = {}
  BY SrvMainCalm DEF SrvClose
<1>2. SrvStack' /\ SrvUrgent' /\ SOn' = {} /\ Still = Blanks /\ Still' = Blanks'
  BY <1>1, SrvMainOnly DEF SrvClose
<1>3. Served = {cli_fd}
  BY <1>1 DEF SrvInv, Serving
<1>4. /\ LinkInv' /\ ActiveKept /\ Served' = {} /\ Queued' = Queued /\ Blanks \subseteq Blanks'
  BY <1>3, ServerClosed DEF NetInv, SrvClose, CloseServer
<1>5. cli_fd' = None /\ s_main' = "accept" /\ backlog' = backlog
  BY DEF SrvClose
<1>6. SrvTypes'
  BY DEF SrvInv, SrvTypes, SrvClose
<1>7. Serving'
  BY <1>4, <1>5 DEF Serving
<1>8. Waiting'
  BY <1>4, <1>5, WaitingSame DEF SrvInv
<1>9. CliKeeps
  BY <1>2, <1>4 DEF CliKeeps
<1>10. NetInv'
  BY <1>4 DEF NetInv, SrvClose
<1> QED
  BY <1>2, <1>6, <1>7, <1>8, <1>9, <1>10 DEF SrvInv

LEMMA ServerI == ASSUME IInv, Server PROVE IInv'
<1>1. NetInv' /\ SrvInv' /\ CliKeeps
  BY SrvHandlerStartsI, SrvAlarmRingsI, StoreCountI, SrvReadMarkI, ReplyI, ResetCountI,
     AcceptI, ClaimSignalsI, SrvRecvReturnsI, SrvCloseI DEF IInv, Server, SrvStep
<1>2. CliInv'
  BY <1>1, CliFrame DEF IInv, Server
<1> QED
  BY <1>1, <1>2 DEF IInv, Server

-----------------------------------------------------------------------------
(* The network and the kernel.                                                *)
LEMMA NoHandlers ==
  ASSUME NEW A, NEW U
  PROVE  OneEach(<<>>, A, U) /\ Points(<<>>) = {}
  BY EmptySeq DEF OneEach, Points

LEMMA KillI == ASSUME IInv, Kill PROVE IInv'
<1>1. LinkInv' /\ ActiveKept /\ Served' = {} /\ Blanks \subseteq Blanks'
  BY AllClosed DEF IInv, NetInv, Kill
<1>2. /\ s_stack' = <<>> /\ s_main' = "accept" /\ s_pending' = {} /\ cli_fd' = None /\ backlog' = <<>>
      /\ s_alarm' = 0 /\ s_expire_cnt' = 0 /\ s_already_reset' = FALSE /\ loaded' = 0
  BY DEF Kill
<1>3. SrvStack' /\ SOn' = {} /\ Points(backlog)' = {}
  BY <1>2, NoHandlers, Zenon DEF SrvStack, SOn
<1>4. SrvTypes'
  <2>1. 0 \in 0..SRV_ALARM_INTERVAL /\ 0 \in 0..(SRV_PEER_EXPIRE_CNT + 1)
    BY SrvAssumption
  <2> QED
    BY <1>2, <2>1 DEF SrvTypes
<1>5. Serving' /\ SrvUrgent'
  BY <1>1, <1>2, <1>3 DEF Serving, SrvUrgent
<1>6. Waiting'
  BY <1>2, <1>3 DEF Waiting
<1>7. CliKeeps
  BY <1>1, <1>3 DEF CliKeeps, Still
<1>8. CliInv'
  BY <1>7, CliFrame DEF IInv, Kill
<1>9. NetInv'
  BY <1>1, <1>2, EmptySeq DEF NetInv, Kill
<1>10. kills' \in 0..MaxKills
  <2>1. kills \in 0..MaxKills /\ kills < MaxKills /\ kills' = kills + 1 /\ MaxKills \in Nat
    BY PairAssumption DEF IInv, Kill
  <2> QED
    BY <2>1
<1> QED
  BY <1>3, <1>4, <1>5, <1>6, <1>8, <1>9, <1>10 DEF IInv, SrvInv

LEMMA RestartI == ASSUME IInv, Restart PROVE IInv'
<1>1. SOn' = SOn /\ SrvStack'
  BY Zenon DEF SOn, SrvStack, Restart, IInv, SrvInv
<1>2. SrvTypes'
  BY SrvAssumption DEF SrvTypes, Restart, srvGlobals, IInv, SrvInv
<1>3. NetInv' /\ SrvInv' /\ CliKeeps
  BY <1>1, <1>2, SrvHandlerOnly DEF IInv, Restart, srvGlobals, SrvInv, SrvUrgent
<1>4. CliInv'
  BY <1>3, CliFrame DEF IInv, Restart
<1> QED
  BY <1>3, <1>4 DEF IInv, Restart

LEMMA ArriveUpI == ASSUME IInv, NEW k \in Conns, ArriveUp(k) PROVE IInv'
<1>1. /\ LinkInv' /\ Active' = Active /\ Opened' = Opened /\ Unseen' = Unseen
      /\ Finished' = Finished /\ Served' = Served /\ Queued' = Queued
      /\ DownHeld' = DownHeld /\ Blanks \subseteq Blanks' /\ k \notin Blanks /\ k \notin UpHeld
      /\ UpHeld' = IF link[k].sv \in {"queued", "open"} THEN UpHeld \cup {k} ELSE UpHeld
  BY UpArrives DEF IInv, NetInv, ArriveUp
<1>2. /\ s_main' = s_main /\ s_stack' = s_stack /\ cli_fd' = cli_fd /\ backlog' = backlog
  BY DEF ArriveUp, srvGlobals
<1>3. SOn' = SOn /\ SrvStack'
  BY <1>2, Zenon DEF SOn, SrvStack, IInv, SrvInv
<1>4. SrvTypes'
  BY DEF ArriveUp, srvGlobals, SrvTypes, IInv, SrvInv
<1>5. Serving'
  BY <1>1, <1>2 DEF Serving, IInv, SrvInv
<1>6. SrvUrgent'
  <2>1. CASE link[k].sv = "open" /\ link[k].owned
    <3>1. s_pending' = s_pending \cup {"URG"}
      BY <2>1 DEF ArriveUp
    <3>2. k = cli_fd
      BY <2>1 DEF IInv, SrvInv, Serving, Served
    <3> QED
      BY <1>1, <1>2, <1>3, <2>1, <3>1, <3>2 DEF SrvUrgent, IInv, SrvInv
  <2>2. CASE ~(link[k].sv = "open" /\ link[k].owned)
    <3>1. s_pending' = s_pending
      BY <2>2 DEF ArriveUp
    <3> QED
      BY <1>1, <1>2, <1>3, <3>1 DEF SrvUrgent, IInv, SrvInv
  <2> QED
    BY <2>1, <2>2
<1>7. Waiting'
  BY <1>1, <1>2, WaitingSame DEF IInv, SrvInv
<1>8. CliKeeps
  BY <1>1, <1>2, <1>3 DEF CliKeeps, ActiveKept, Still
<1>9. CliInv'
  BY <1>8, CliFrame DEF IInv, ArriveUp
<1> QED
  BY <1>1, <1>3, <1>4, <1>5, <1>6, <1>7, <1>9 DEF IInv, SrvInv, NetInv, ArriveUp

LEMMA ArriveDownI == ASSUME IInv, NEW k \in Conns, ArriveDown(k) PROVE IInv'
<1>1. /\ LinkInv' /\ Active' = Active /\ Opened' = Opened /\ Unseen' = Unseen
      /\ Finished \subseteq Finished' /\ Served' = Served /\ Queued' = Queued
      /\ UpHeld' = UpHeld /\ Blanks \subseteq Blanks' /\ k \notin Blanks /\ k \notin DownHeld
      /\ k \notin Finished
      /\ DownHeld' = IF link[k].cl = "open" THEN DownHeld \cup {k} ELSE DownHeld
  BY DownArrives DEF IInv, NetInv, ArriveDown
<1>2. SrvInv'
  <2>1. SrvKeeps
    BY <1>1 DEF SrvKeeps
  <2> QED
    BY <2>1, SrvFrame DEF IInv, ArriveDown
<1>3. CliKeeps
  <2>1. SOn' = SOn /\ cli_fd' = cli_fd
    BY Zenon DEF SOn, ArriveDown, srvVars, srvGlobals
  <2> QED
    BY <1>1, <2>1 DEF CliKeeps, ActiveKept, Still
<1>4. CliInv'
  <2>1. CASE link[k].cl # "open"
    BY <1>3, <2>1, CliFrame DEF IInv, ArriveDown, cliVars
  <2>2. CASE link[k].cl = "open"
    <3>1. k = conn_fd /\ k \in Opened /\ k \notin Unseen /\ k # None
      BY <2>2, NetAssumption DEF IInv, CliInv, Owning, Active, Opened, Unseen
    <3>2. c_main = "recv" /\ k \notin Still
      BY <1>1, <3>1 DEF IInv, CliInv, CliTypes, Owning, Retiring, Answered, Still
    <3>3. /\ c_pending' = c_pending \cup {"URG"} /\ c_prog' = c_prog /\ c_main' = c_main
          /\ c_stack' = c_stack /\ c_alarm' = c_alarm /\ c_sleep' = c_sleep /\ conn_fd' = conn_fd
          /\ got_reply' = got_reply /\ c_expire_cnt' = c_expire_cnt
          /\ c_already_reset' = c_already_reset /\ quiet' = quiet
      BY <2>2 DEF ArriveDown, cliTimers, cliGlobals
    <3>4. COn' = COn /\ CliStack'
      BY <3>3, Zenon DEF COn, CliStack, IInv, CliInv
    <3>5. CliTypes'
      BY <3>3 DEF CliTypes, IInv, CliInv
    <3>6. Owning' /\ OffLine' /\ Unarmed' /\ Retiring'
      BY <1>1, <3>1, <3>2, <3>3 DEF Owning, OffLine, Unarmed, Retiring, IInv, CliInv
    <3>7. Armed' /\ Timing'
      BY <3>2, <3>3, <3>4 DEF Armed, Timing, IInv, CliInv
    <3>8. CliUrgent'
      BY <1>1, <2>2, <3>1, <3>3, <3>4 DEF CliUrgent, IInv, CliInv
    <3>9. Answered'
      BY <3>1, <3>2, <3>3, <3>4 DEF Answered, IInv, CliInv
    <3> QED
      BY <3>4, <3>5, <3>6, <3>7, <3>8, <3>9 DEF CliInv
  <2> QED
    BY <2>1, <2>2
<1> QED
  BY <1>1, <1>2, <1>4 DEF IInv, NetInv, ArriveDown

(* A second passes: nobody has anything to run.                               *)
LEMMA TickI == ASSUME IInv, Tick PROVE IInv'
<1>1. /\ COn = {} /\ c_pending = {} /\ c_main \in {"connect", "recv", "sleep"}
      /\ c_main = "sleep" => c_sleep > 0
  BY CliCalm DEF IInv, CliInv, CliTypes, Tick, CliIdle
<1>2. NetInv' /\ SrvInv' /\ CliKeeps
  <2>1. SOn' = SOn /\ SrvStack'
    BY Zenon DEF SOn, SrvStack, Tick, SrvTick, IInv, SrvInv
  <2>2. SrvTypes'
    BY SrvAssumption DEF SrvTypes, Tick, SrvTick, srvGlobals, IInv, SrvInv
  <2> QED
    BY <2>1, <2>2, SrvHandlerOnly
       DEF IInv, NetInv, Tick, SrvTick, srvGlobals, SrvInv, SrvUrgent, netVars
<1>3. /\ Active' = Active /\ Opened' = Opened /\ Unseen' = Unseen /\ Finished' = Finished
      /\ \A k \in Active : k \in Still => k \in Still'
  BY <1>2, LinkSame DEF Tick, netVars, CliKeeps
<1>4. /\ c_prog' = c_prog /\ c_main' = c_main /\ c_stack' = c_stack /\ conn_fd' = conn_fd
      /\ got_reply' = got_reply /\ c_expire_cnt' = c_expire_cnt
      /\ c_already_reset' = c_already_reset
      /\ c_alarm' = IF c_alarm > 0 THEN c_alarm - 1 ELSE 0
      /\ c_sleep' = IF c_sleep > 0 THEN c_sleep - 1 ELSE 0
      /\ c_pending' = IF c_alarm = 1 THEN {"ALRM"} ELSE {}
      /\ quiet' = IF c_main = "recv" /\ quiet < Limit THEN quiet + 1 ELSE quiet
  BY <1>1 DEF Tick, CliTick, cliGlobals
<1>5. COn' = {} /\ CliStack'
  <2>1. COn' = COn /\ CliStack'
    BY <1>4, Zenon DEF COn, CliStack, IInv, CliInv
  <2> QED
    BY <1>1, <2>1
<1>6. c_alarm \in Nat /\ c_sleep \in Nat /\ quiet \in Nat /\ c_alarm \in 0..CLI_ALARM_INTERVAL
      /\ c_sleep \in 0..3 /\ quiet \in 0..Limit /\ CLI_ALARM_INTERVAL \in Nat /\ Limit \in Nat
  BY CliAssumption DEF IInv, CliInv, CliTypes, Limit
<1>7. c_alarm' \in 0..CLI_ALARM_INTERVAL /\ c_sleep' \in 0..3 /\ quiet' \in 0..Limit
  BY <1>4, <1>6
<1>8. CliTypes'
  BY <1>4, <1>7 DEF CliTypes, IInv, CliInv
<1>9. Owning' /\ CliUrgent'
  BY <1>3, <1>4, <1>5 DEF Owning, CliUrgent, IInv, CliInv
<1>10. Answered'
  <2>1. conn_fd # None => conn_fd \in Active
    BY DEF IInv, CliInv, Owning
  <2> QED
    BY <1>1, <1>3, <1>4, <1>5, <2>1 DEF Answered, IInv, CliInv
<1>11. OffLine' /\ Unarmed'
  BY <1>1, <1>4, <1>5, <1>6 DEF OffLine, Unarmed, IInv, CliInv
<1>12. Armed'
  BY <1>1, <1>4, <1>6 DEF Armed, IInv, CliInv
<1>13. Retiring'
  BY <1>1, <1>3, <1>4, <1>6 DEF Retiring, IInv, CliInv
<1>14. Timing'
  BY <1>1, <1>4, <1>5, <1>6 DEF Timing, Armed, Limit, IInv, CliInv
<1> QED
  BY <1>2, <1>5, <1>8, <1>9, <1>10, <1>11, <1>12, <1>13, <1>14 DEF IInv, CliInv, Tick

-----------------------------------------------------------------------------
(* The client's steps.  The time in recv() is kept or starts again.           *)
Quieter == quiet' \in {0, quiet} /\ (c_main' # "recv" => quiet' = 0)

(* What a step that leaves the connections alone keeps for free.              *)
LEMMA CliAside ==
  ASSUME IInv, UNCHANGED <<netVars, srvVars>>
  PROVE  /\ NetInv' /\ SrvInv'
         /\ Active' = Active /\ Opened' = Opened /\ Unseen' = Unseen /\ Finished' = Finished
         /\ DownHeld' = DownHeld /\ Still' = Still
<1>1. NetInv' /\ SrvKeeps
  BY NetSame DEF IInv
<1>2. SrvInv'
  BY <1>1, SrvFrame DEF IInv, netVars
<1>3. SOn' = SOn /\ cli_fd' = cli_fd
  BY Zenon DEF SOn, srvVars, srvGlobals
<1>4. /\ Active' = Active /\ Opened' = Opened /\ Unseen' = Unseen /\ Finished' = Finished
      /\ DownHeld' = DownHeld /\ Blanks' = Blanks
  BY LinkSame DEF netVars
<1> QED
  BY <1>1, <1>2, <1>3, <1>4 DEF Still

LEMMA CliNumbers ==
  ASSUME CliInv
  PROVE  /\ c_alarm \in Nat /\ c_sleep \in Nat /\ quiet \in Nat /\ c_alarm <= CLI_ALARM_INTERVAL
         /\ CLI_ALARM_INTERVAL \in Nat \ {0} /\ CLI_ALARM_INTERVAL <= 3
         /\ Limit \in Nat /\ quiet <= Limit
  BY CliAssumption, SleepAssumption DEF CliInv, CliTypes, Limit

LEMMA QuieterIs ==
  ASSUME CliInv, Quieter
  PROVE  quiet' \in Nat /\ quiet' \in 0..Limit /\ quiet' <= quiet
  BY CliNumbers DEF Quieter

LEMMA CliHandlerStartsI ==
  ASSUME IInv, CliHandlerStarts, UNCHANGED <<c_prog, srvVars>>, Quieter
  PROVE  NetInv' /\ SrvInv' /\ CliInv'
<1>1. /\ NetInv' /\ SrvInv'
      /\ Active' = Active /\ Opened' = Opened /\ Unseen' = Unseen /\ Finished' = Finished
      /\ DownHeld' = DownHeld /\ Still' = Still
  BY CliAside DEF CliHandlerStarts
<1>2. PICK sig \in CliDeliverable :
        /\ c_pending' = c_pending \ {sig}
        /\ c_stack' = <<IF sig = "ALRM" THEN "alrm" ELSE "read">> \o c_stack
  BY DEF CliHandlerStarts
<1>3. PICK p : p = IF sig = "ALRM" THEN "alrm" ELSE "read"
  OBVIOUS
<1>4. /\ CliStack' /\ COn' = COn \cup {p} /\ sig \in c_pending /\ sig \in {"ALRM", "URG"}
      /\ sig = "ALRM" => COn \cap AlarmPoints = {}
  BY <1>2, <1>3, CliStarts DEF IInv, CliInv, CliTypes
<1>5. /\ c_alarm' = c_alarm /\ conn_fd' = conn_fd /\ got_reply' = got_reply
      /\ c_expire_cnt' = c_expire_cnt /\ c_already_reset' = c_already_reset /\ c_prog' = c_prog
      /\ c_main = "sleep" => c_main' = "top" /\ c_sleep' = 0
      /\ c_main # "sleep" => c_main' = c_main /\ c_sleep' = c_sleep
  BY DEF CliHandlerStarts, cliGlobals
<1>6. quiet' \in Nat /\ quiet' \in 0..Limit /\ quiet' <= quiet
  BY QuieterIs DEF IInv
<1>7. CliTypes'
  <2>1. c_sleep' \in 0..3
    BY <1>5 DEF IInv, CliInv, CliTypes
  <2> QED
    BY <1>2, <1>5, <1>6, <2>1 DEF IInv, CliInv, CliTypes
<1>8. Owning'
  BY <1>1, <1>5 DEF Owning, IInv, CliInv
<1>9. OffLine'
  BY <1>2, <1>3, <1>4, <1>5 DEF OffLine, Quieter, IInv, CliInv, CliTypes
<1>10. Unarmed'
  BY <1>2, <1>3, <1>4, <1>5 DEF Unarmed, OffLine, AlarmPoints, IInv, CliInv
<1>11. Armed'
  BY <1>2, <1>3, <1>4, <1>5 DEF Armed, IInv, CliInv
<1>12. Retiring'
  BY <1>1, <1>2, <1>3, <1>4, <1>5 DEF Retiring, IInv, CliInv
<1>13. CliUrgent'
  BY <1>1, <1>2, <1>3, <1>4, <1>5 DEF CliUrgent, IInv, CliInv
<1>14. Answered'
  BY <1>1, <1>3, <1>4, <1>5 DEF Answered, IInv, CliInv
<1>15. Timing'
  BY <1>3, <1>4, <1>5, <1>6, CliNumbers DEF Timing, IInv, CliInv
<1> QED
  BY <1>1, <1>4, <1>7, <1>8, <1>9, <1>10, <1>11, <1>12, <1>13, <1>14, <1>15 DEF CliInv

LEMMA AlarmRingsI ==
  ASSUME IInv, AlarmRings, UNCHANGED <<c_prog, srvVars>>, Quieter
  PROVE  NetInv' /\ SrvInv' /\ CliInv'
<1>1. /\ NetInv' /\ SrvInv'
      /\ Active' = Active /\ Opened' = Opened /\ Unseen' = Unseen /\ Finished' = Finished
      /\ DownHeld' = DownHeld /\ Still' = Still
  BY CliAside DEF AlarmRings
<1>2. PICK q : q = IF got_reply THEN "send" ELSE "close"
  OBVIOUS
<1>3. CliStack' /\ "alrm" \in COn /\ COn' = (COn \ {"alrm"}) \cup {q}
  <2>1. Goto(q) /\ At("alrm") /\ q \in AlarmPoints /\ "alrm" \in AlarmPoints
    BY <1>2 DEF AlarmRings, AlarmTest, AlarmPoints
  <2> QED
    BY <2>1, CliMoves DEF IInv, CliInv
<1>4. /\ c_alarm' = CLI_ALARM_INTERVAL /\ conn_fd' = conn_fd /\ got_reply' = got_reply
      /\ c_expire_cnt' = c_expire_cnt /\ c_already_reset' = c_already_reset /\ c_prog' = c_prog
      /\ c_main' = c_main /\ c_sleep' = c_sleep /\ c_pending' = c_pending
  BY DEF AlarmRings, cliGlobals
<1>5. \A x \in COn : x \in AlarmPoints => x = "alrm"
  BY <1>3, CliAlone DEF IInv, CliInv, AlarmPoints
<1>6. quiet' \in Nat /\ quiet' \in 0..Limit /\ quiet' <= quiet
  BY QuieterIs DEF IInv
<1>7. CliTypes'
  BY <1>4, <1>6, CliAssumption DEF IInv, CliInv, CliTypes
<1>8. Owning'
  BY <1>1, <1>4 DEF Owning, IInv, CliInv
<1>9. c_main # "recv" => c_main \in {"top", "connect"} /\ ~got_reply /\ q = "close"
  BY <1>2, <1>3 DEF OffLine, Unarmed, AlarmPoints, IInv, CliInv
<1>10. OffLine'
  BY <1>3, <1>4, <1>9 DEF OffLine, Quieter, IInv, CliInv
<1>11. Unarmed'
  BY <1>4, <1>9 DEF Unarmed
<1>12. Armed'
  BY <1>4, CliNumbers DEF Armed, IInv
<1>13. Retiring'
  BY <1>1, <1>3, <1>4, <1>9 DEF Retiring, IInv, CliInv
<1>14. CliUrgent'
  BY <1>1, <1>2, <1>3, <1>4 DEF CliUrgent, IInv, CliInv
<1>15. Answered'
  BY <1>1, <1>2, <1>3, <1>4, <1>5 DEF Answered, AlarmPoints, IInv, CliInv
<1>16. Timing'
  <2>1. CASE got_reply
    <3>1. COn \cap {"send", "clear"} = {} /\ "close" \notin COn /\ "send" \in COn'
      BY <1>2, <1>3, <1>5, <2>1 DEF AlarmPoints
    <3>2. c_main = "recv" /\ conn_fd # None => quiet + c_alarm <= CLI_ALARM_INTERVAL
      BY <2>1, <3>1 DEF Timing, IInv, CliInv
    <3> QED
      BY <1>4, <1>6, <3>1, <3>2, CliNumbers DEF Timing, IInv
  <2>2. CASE ~got_reply
    BY <1>2, <1>3, <2>2 DEF Timing
  <2> QED
    BY <2>1, <2>2
<1> QED
  BY <1>1, <1>3, <1>7, <1>8, <1>10, <1>11, <1>12, <1>13, <1>14, <1>15, <1>16 DEF CliInv

(* The handlers but for the first point of SIGALRM's and for "close" run only *)
(* when main is in recv().                                                    *)
LEMMA OnlyInRecv ==
  ASSUME CliInv, NEW p \in COn, p \notin {"alrm", "close"}
  PROVE  c_main = "recv"
  BY DEF CliInv, OffLine

LEMMA SendHeartbeatI ==
  ASSUME IInv, SendHeartbeat, UNCHANGED <<c_prog, srvVars>>, Quieter
  PROVE  NetInv' /\ SrvInv' /\ CliInv'
<1>1. At("send") /\ Goto("clear")
  BY DEF SendHeartbeat
<1>2. CliStack' /\ "send" \in COn /\ COn' = (COn \ {"send"}) \cup {"clear"}
  BY <1>1, CliMoves DEF IInv, CliInv, AlarmPoints
<1>3. c_main = "recv"
  BY <1>2, OnlyInRecv DEF IInv
<1>4. /\ conn_fd' = conn_fd /\ got_reply' = got_reply /\ c_alarm' = c_alarm
      /\ c_expire_cnt' = c_expire_cnt /\ c_already_reset' = c_already_reset /\ c_prog' = c_prog
      /\ c_main' = c_main /\ c_sleep' = c_sleep /\ c_pending' = c_pending
      /\ backlog' = backlog /\ alive' = alive
  BY DEF SendHeartbeat, cliGlobals, cliTimers
<1>5. SOn' = SOn /\ cli_fd' = cli_fd
  BY Zenon DEF SOn, srvVars, srvGlobals
<1>6. /\ LinkInv' /\ SrvKeeps /\ Active' = Active /\ Opened' = Opened /\ Unseen' = Unseen
      /\ Finished' = Finished /\ DownHeld' = DownHeld
  <2>1. CASE conn_fd = None
    <3>1. UNCHANGED link
      BY <2>1 DEF SendHeartbeat, SendUp
    <3> QED
      BY <3>1, LinkSame, LinkKept DEF IInv, NetInv
  <2>2. CASE conn_fd # None
    <3>1. conn_fd \in Blanks /\ ("isC" \in SOn => cli_fd # conn_fd)
      BY <1>2, <1>3, <2>2 DEF IInv, CliInv, Answered, Still
    <3>2. link' = [link EXCEPT ![conn_fd].up = @ + 1]
      BY <2>2 DEF SendHeartbeat, SendUp
    <3>3. /\ LinkInv' /\ Active' = Active /\ Opened' = Opened /\ Unseen' = Unseen
          /\ Finished' = Finished /\ Served' = Served /\ Queued' = Queued
          /\ DownHeld' = DownHeld /\ UpHeld' = UpHeld /\ Blanks' = Blanks \ {conn_fd}
      BY <3>1, <3>2, MarkSentUp DEF IInv, NetInv
    <3>4. SrvKeeps
      BY <3>1, <3>3 DEF SrvKeeps
    <3> QED
      BY <3>3, <3>4
  <2> QED
    BY <2>1, <2>2
<1>7. NetInv' /\ SrvInv'
  BY <1>4, <1>6, SrvFrame DEF IInv, NetInv
<1>8. quiet' \in Nat /\ quiet' \in 0..Limit /\ quiet' <= quiet
  BY QuieterIs DEF IInv
<1>9. \A x \in COn : x \in AlarmPoints => x = "send"
  BY <1>2, CliAlone DEF IInv, CliInv, AlarmPoints
<1>10. CliTypes'
  BY <1>4, <1>8 DEF IInv, CliInv, CliTypes
<1>11. Owning' /\ OffLine' /\ Unarmed' /\ Retiring'
  BY <1>3, <1>4, <1>6 DEF Owning, OffLine, Unarmed, Retiring, IInv, CliInv
<1>12. Armed' /\ CliUrgent'
  BY <1>2, <1>4, <1>6, <1>9 DEF Armed, CliUrgent, IInv, CliInv, AlarmPoints
<1>13. Answered'
  BY <1>2, <1>3, <1>4 DEF Answered, IInv, CliInv
<1>14. Timing'
  BY <1>2, <1>3, <1>4, <1>8, CliNumbers DEF Timing, IInv, CliInv
<1> QED
  BY <1>2, <1>7, <1>10, <1>11, <1>12, <1>13, <1>14 DEF CliInv

LEMMA ClearReplyI ==
  ASSUME IInv, ClearReply, UNCHANGED <<c_prog, srvVars>>, Quieter
  PROVE  NetInv' /\ SrvInv' /\ CliInv'
<1>1. /\ NetInv' /\ SrvInv'
      /\ Active' = Active /\ Opened' = Opened /\ Unseen' = Unseen /\ Finished' = Finished
      /\ DownHeld' = DownHeld /\ Still' = Still
  BY CliAside DEF ClearReply
<1>2. CliStack' /\ "clear" \in COn /\ COn' = COn \ {"clear"}
  BY CliReturns DEF IInv, CliInv, ClearReply
<1>3. c_main = "recv"
  BY <1>2, OnlyInRecv DEF IInv
<1>4. /\ conn_fd' = conn_fd /\ got_reply' = FALSE /\ c_alarm' = c_alarm
      /\ c_expire_cnt' = c_expire_cnt /\ c_already_reset' = c_already_reset /\ c_prog' = c_prog
      /\ c_main' = c_main /\ c_sleep' = c_sleep /\ c_pending' = c_pending
  BY DEF ClearReply, cliTimers
<1>5. quiet' \in Nat /\ quiet' \in 0..Limit /\ quiet' <= quiet
  BY QuieterIs DEF IInv
<1>6. CliTypes'
  BY <1>4, <1>5 DEF IInv, CliInv, CliTypes
<1>7. Owning' /\ OffLine' /\ Unarmed' /\ Retiring'
  BY <1>1, <1>3, <1>4 DEF Owning, OffLine, Unarmed, Retiring, IInv, CliInv
<1>8. Armed' /\ CliUrgent'
  BY <1>1, <1>2, <1>4 DEF Armed, CliUrgent, IInv, CliInv
<1>9. Answered'
  BY <1>1, <1>2, <1>3, <1>4 DEF Answered, IInv, CliInv
<1>10. Timing'
  BY <1>2, <1>3, <1>4, <1>5, CliNumbers DEF Timing, IInv, CliInv
<1> QED
  BY <1>1, <1>2, <1>6, <1>7, <1>8, <1>9, <1>10 DEF CliInv

(* The client closes conn_fd, if it is open.                                  *)
LEMMA ClosesConn ==
  ASSUME IInv, link' = CloseClient(conn_fd), UNCHANGED <<backlog, alive, srvVars>>
  PROVE  NetInv' /\ SrvInv' /\ Active' = {}
<1>1. LinkInv' /\ SrvKeeps /\ Active' = {}
  <2>1. CASE conn_fd = None
    <3>1. UNCHANGED link /\ Active = {}
      BY <2>1 DEF CloseClient, IInv, CliInv, Owning
    <3> QED
      BY <3>1, LinkSame, LinkKept DEF IInv, NetInv
  <2>2. CASE conn_fd # None
    <3>1. Active = {conn_fd}
      BY <2>2 DEF IInv, CliInv, Owning
    <3>2. link' = [link EXCEPT ![conn_fd] = Tidy([@ EXCEPT !.cl = "closed"])]
      BY <2>2 DEF CloseClient
    <3>3. /\ LinkInv' /\ Active' = Active \ {conn_fd} /\ Served' = Served /\ Queued' = Queued
          /\ \A j \in Served : j \in UpHeld => j \in UpHeld'
          /\ Blanks \subseteq Blanks'
      BY <3>1, <3>2, ClientClosed DEF IInv, NetInv
    <3>4. SrvKeeps
      BY <3>3 DEF SrvKeeps
    <3> QED
      BY <3>1, <3>3, <3>4
  <2> QED
    BY <2>1, <2>2
<1> QED
  BY <1>1, SrvFrame DEF IInv, NetInv

LEMMA LoseServerI ==
  ASSUME IInv, LoseServer, UNCHANGED <<c_prog, srvVars>>, Quieter
  PROVE  NetInv' /\ SrvInv' /\ CliInv'
<1>1. NetInv' /\ SrvInv' /\ Active' = {}
  BY ClosesConn DEF LoseServer
<1>2. CliStack' /\ "close" \in COn /\ COn' = COn \ {"close"}
  BY CliReturns DEF IInv, CliInv, LoseServer
<1>3. /\ conn_fd' = None /\ got_reply' = got_reply /\ c_alarm' = c_alarm
      /\ c_expire_cnt' = c_expire_cnt /\ c_already_reset' = TRUE /\ c_prog' = c_prog
      /\ c_main' = c_main /\ c_sleep' = c_sleep /\ c_pending' = c_pending
  BY DEF LoseServer, cliTimers
<1>4. quiet' \in 0..Limit
  BY QuieterIs DEF IInv
<1>5. CliTypes'
  BY <1>3, <1>4 DEF IInv, CliInv, CliTypes
<1>6. Owning' /\ Retiring' /\ CliUrgent' /\ Answered' /\ Timing'
  BY <1>1, <1>3 DEF Owning, Retiring, CliUrgent, Answered, Timing
<1>7. OffLine'
  BY <1>2, <1>3 DEF OffLine, Quieter, IInv, CliInv
<1>8. Unarmed' /\ Armed'
  BY <1>2, <1>3 DEF Unarmed, Armed, IInv, CliInv
<1> QED
  BY <1>1, <1>2, <1>5, <1>6, <1>7, <1>8 DEF CliInv

(* The mark is there unless the connection is closed.                         *)
LEMMA ReadMarkI ==
  ASSUME IInv, ReadMark, UNCHANGED <<c_prog, srvVars>>, Quieter
  PROVE  NetInv' /\ SrvInv' /\ CliInv'
<1>1. At("read") /\ "read" \in COn
  BY CliHead DEF ReadMark, IInv, CliInv
<1>2. c_main = "recv"
  BY <1>1, OnlyInRecv DEF IInv
<1>3. /\ conn_fd' = conn_fd /\ got_reply' = got_reply /\ c_alarm' = c_alarm
      /\ c_expire_cnt' = c_expire_cnt /\ c_already_reset' = c_already_reset /\ c_prog' = c_prog
      /\ c_main' = c_main /\ c_sleep' = c_sleep /\ c_pending' = c_pending
      /\ backlog' = backlog /\ alive' = alive
  BY DEF ReadMark, cliGlobals, cliTimers
<1>4. PICK q \in {"isS", "isOther"} : Goto(q) /\ (MarkThere => q = "isS")
  BY DEF ReadMark
<1>5. CliStack' /\ COn' = (COn \ {"read"}) \cup {q}
  BY <1>1, <1>4, CliMoves DEF IInv, CliInv, AlarmPoints, UrgentPoints
<1>6. \A x \in COn : x \notin AlarmPoints => x = "read"
  BY <1>1, CliAlone DEF IInv, CliInv, AlarmPoints
<1>7. quiet' \in Nat /\ quiet' \in 0..Limit /\ quiet' <= quiet
  BY QuieterIs DEF IInv
<1>8. CliTypes'
  BY <1>3, <1>7 DEF IInv, CliInv, CliTypes
<1>9. OffLine' /\ Unarmed' /\ Armed'
  BY <1>2, <1>3, <1>5 DEF OffLine, Unarmed, Armed, IInv, CliInv
<1>10. Timing'
  BY <1>3, <1>4, <1>5, <1>7, CliNumbers DEF Timing, IInv, CliInv
<1>11. NetInv' /\ SrvInv' /\ Owning' /\ Retiring' /\ CliUrgent' /\ Answered'
  <2>1. CASE conn_fd = None
    <3>1. UNCHANGED <<netVars, srvVars>>
      BY <1>3, <2>1 DEF ReadMark, MarkThere, netVars
    <3>2. NetInv' /\ SrvInv' /\ Active' = Active
      BY <3>1, CliAside
    <3> QED
      BY <1>3, <2>1, <3>2 DEF Owning, Retiring, CliUrgent, Answered, IInv, CliInv
  <2>2. CASE conn_fd # None
    <3>1. conn_fd \in DownHeld /\ "URG" \notin c_pending
      BY <1>1, <2>2 DEF IInv, CliInv, CliUrgent
    <3>2. MarkThere
      BY <2>2, <3>1 DEF MarkThere, DownHeld
    <3>3. q = "isS" /\ link' = [link EXCEPT ![conn_fd].downSlot = FALSE]
      BY <1>4, <3>2 DEF ReadMark
    <3>4. /\ LinkInv' /\ Active' = Active /\ Opened' = Opened /\ Unseen' = Unseen
          /\ Finished' = Finished /\ Served' = Served /\ Queued' = Queued
          /\ UpHeld' = UpHeld /\ Blanks' = Blanks \cup {conn_fd}
      BY <3>1, <3>3, MarkRead DEF IInv, NetInv
    <3>5. conn_fd \notin Blanks
      BY <3>1 DEF DownHeld, Blanks, Blank
    <3>6. SOn' = SOn /\ cli_fd' = cli_fd
      BY Zenon DEF SOn, srvVars, srvGlobals
    <3>7. conn_fd \in Still' /\ conn_fd \notin Still
      BY <3>4, <3>5, <3>6 DEF Still, IInv, SrvInv, SrvUrgent
    <3>8. NetInv' /\ SrvInv'
      <4>1. SrvKeeps
        BY <3>4 DEF SrvKeeps
      <4> QED
        BY <1>3, <3>4, <4>1, SrvFrame DEF IInv, NetInv
    <3>9. Owning' /\ Retiring'
      BY <1>2, <1>3, <3>4 DEF Owning, Retiring, IInv, CliInv
    <3>10. CliUrgent'
      BY <1>3, <1>5, <3>1, <3>3 DEF CliUrgent, IInv, CliInv
    <3>11. Answered'
      BY <1>2, <1>3, <1>5, <2>2, <3>3, <3>7 DEF Answered, IInv, CliInv
    <3> QED
      BY <3>8, <3>9, <3>10, <3>11
  <2> QED
    BY <2>1, <2>2
<1> QED
  BY <1>5, <1>8, <1>9, <1>10, <1>11 DEF CliInv

(* The answer is taken: the time in recv() starts again.                      *)
LEMMA SetReplyI ==
  ASSUME IInv, SetReply, UNCHANGED <<c_prog, srvVars>>, Quieter, got_reply' => quiet' = 0
  PROVE  NetInv' /\ SrvInv' /\ CliInv'
<1>1. /\ NetInv' /\ SrvInv'
      /\ Active' = Active /\ Opened' = Opened /\ Unseen' = Unseen /\ Finished' = Finished
      /\ DownHeld' = DownHeld /\ Still' = Still
  BY CliAside DEF SetReply
<1>2. PICK p \in {"isS", "isOther"} : At(p)
  BY DEF SetReply
<1>3. CliStack' /\ p \in COn /\ COn' = COn \ {p} /\ got_reply' = (p = "isS")
  <2>1. Return /\ Head(c_stack) = p
    BY <1>2 DEF SetReply, At
  <2>2. CliStack' /\ p \in COn /\ COn' = COn \ {p}
    BY <1>2, <2>1, CliReturns DEF IInv, CliInv
  <2> QED
    BY <2>1, <2>2 DEF SetReply
<1>4. c_main = "recv"
  BY <1>2, <1>3, OnlyInRecv DEF IInv
<1>5. /\ conn_fd' = conn_fd /\ c_alarm' = c_alarm /\ c_already_reset' = FALSE
      /\ c_expire_cnt' = c_expire_cnt /\ c_prog' = c_prog
      /\ c_main' = c_main /\ c_sleep' = c_sleep /\ c_pending' = c_pending
  BY DEF SetReply, cliTimers
<1>6. \A x \in COn : x \notin AlarmPoints => x = p
  BY <1>2, <1>3, CliAlone DEF IInv, CliInv, AlarmPoints
<1>7. quiet' \in Nat /\ quiet' \in 0..Limit /\ quiet' <= quiet
  BY QuieterIs DEF IInv
<1>8. CliTypes'
  <2>1. got_reply' \in BOOLEAN /\ c_already_reset' \in BOOLEAN
    BY <1>3, <1>5
  <2> QED
    BY <1>5, <1>7, <2>1 DEF IInv, CliInv, CliTypes
<1>9. Owning' /\ OffLine' /\ Unarmed' /\ Retiring'
  BY <1>1, <1>4, <1>5 DEF Owning, OffLine, Unarmed, Retiring, IInv, CliInv
<1>10. Armed' /\ CliUrgent'
  BY <1>1, <1>2, <1>3, <1>5 DEF Armed, CliUrgent, IInv, CliInv
<1>11. conn_fd # None => p = "isS" /\ conn_fd \in Still /\ "isS" \notin COn' /\ got_reply'
  BY <1>2, <1>3, <1>4 DEF CliUrgent, Answered, IInv, CliInv
<1>12. Answered'
  BY <1>1, <1>4, <1>5, <1>11 DEF Answered
<1>13. Timing'
  BY <1>5, <1>7, <1>11, CliNumbers DEF Timing, IInv
<1> QED
  BY <1>1, <1>3, <1>8, <1>9, <1>10, <1>12, <1>13 DEF CliInv

(* Main runs: no handler does, and no signal is pending.                      *)
LEMMA CliMainCalm ==
  ASSUME CliInv, NEW p, MainAt(p)
  PROVE  c_main = p /\ COn = {} /\ c_pending = {}
  BY CliCalm DEF CliInv, CliTypes, MainAt

LEMMA CliMainOnly ==
  ASSUME CliInv, COn = {}, c_pending = {}, UNCHANGED <<c_stack, c_pending>>
  PROVE  CliStack' /\ COn' = {} /\ c_pending' = {}
<1>1. COn' = COn /\ CliStack'
  BY Zenon DEF COn, CliStack, CliInv
<1> QED
  BY <1>1

LEMMA SocketI ==
  ASSUME IInv, Socket, UNCHANGED <<c_prog, srvVars>>, Quieter
  PROVE  NetInv' /\ SrvInv' /\ CliInv'
<1>1. c_main = "top" /\ COn = {} /\ c_pending = {}
  BY CliMainCalm DEF Socket, IInv
<1>2. CliStack' /\ COn' = {} /\ c_pending' = {}
  BY <1>1, CliMainOnly DEF Socket, IInv
<1>3. conn_fd = None /\ Active = {}
  BY <1>1 DEF IInv, CliInv, Retiring, Owning
<1>4. /\ got_reply' = got_reply /\ c_alarm' = c_alarm /\ c_sleep' = c_sleep
      /\ c_expire_cnt' = c_expire_cnt /\ c_already_reset' = c_already_reset /\ c_prog' = c_prog
      /\ backlog' = backlog /\ alive' = alive /\ c_main' \in {"connect", "failed"}
  BY DEF Socket, cliTimers
<1>5. quiet' = 0 /\ quiet' \in 0..Limit
  BY <1>4, QuieterIs DEF IInv, Quieter
<1>6. Unarmed'
  BY <1>1, <1>2, <1>4 DEF Unarmed, IInv, CliInv
<1>7. OffLine' /\ Armed' /\ Timing' /\ CliUrgent' /\ Retiring'
  BY <1>2, <1>4, <1>5 DEF OffLine, Armed, Timing, CliUrgent, Retiring
<1>8. NetInv' /\ SrvInv' /\ CliTypes' /\ Owning' /\ Answered'
  <2>1. CASE FreeConns = {}
    <3>1. c_main' = "failed" /\ conn_fd' = None /\ UNCHANGED link
      BY <2>1 DEF Socket
    <3>2. NetInv' /\ SrvInv' /\ Active' = {}
      BY <1>3, <1>4, <3>1, CliAside DEF netVars
    <3>3. CliTypes'
      BY <1>2, <1>4, <1>5, <3>1 DEF IInv, CliInv, CliTypes
    <3> QED
      BY <3>1, <3>2, <3>3 DEF Owning, Answered
  <2>2. CASE FreeConns # {}
    <3>1. PICK k : k = CHOOSE j \in FreeConns : TRUE
      OBVIOUS
    <3>2. k \in FreeConns /\ k \in Conns /\ k # None
      BY <2>2, <3>1, NetAssumption DEF FreeConns
    <3>3. c_main' = "connect" /\ conn_fd' = k /\ link' = [link EXCEPT ![k].cl = "syn"]
      BY <2>2, <3>1 DEF Socket
    <3>4. /\ LinkInv' /\ Active' = Active \cup {k} /\ Unseen' = Unseen \cup {k}
          /\ Served' = Served /\ Queued' = Queued /\ UpHeld' = UpHeld /\ Blanks' = Blanks
      BY <3>2, <3>3, SocketMade DEF IInv, NetInv
    <3>5. k \in Blanks /\ k \notin Served
      BY <3>2 DEF FreeConns, NoLink, Blanks, Blank, Served
    <3>6. k \in Still'
      <4>1. SOn' = SOn /\ cli_fd' = cli_fd
        BY Zenon DEF SOn, srvVars, srvGlobals
      <4>2. cli_fd # k
        BY <3>2, <3>5 DEF IInv, SrvInv, Serving
      <4> QED
        BY <3>4, <3>5, <4>1, <4>2 DEF Still
    <3>7. SrvInv'
      <4>1. SrvKeeps
        BY <3>4 DEF SrvKeeps
      <4> QED
        BY <1>4, <4>1, SrvFrame DEF IInv
    <3>8. CliTypes'
      BY <1>2, <1>4, <1>5, <3>2, <3>3 DEF IInv, CliInv, CliTypes
    <3>9. Owning' /\ Answered'
      BY <1>2, <1>3, <3>2, <3>3, <3>4, <3>6 DEF Owning, Answered
    <3>10. NetInv'
      BY <1>4, <3>4 DEF IInv, NetInv
    <3> QED
      BY <3>7, <3>8, <3>9, <3>10
  <2> QED
    BY <2>1, <2>2
<1> QED
  BY <1>2, <1>6, <1>7, <1>8 DEF CliInv

LEMMA ConnectedI ==
  ASSUME IInv, Connected, UNCHANGED <<c_prog, srvVars>>, Quieter
  PROVE  NetInv' /\ SrvInv' /\ CliInv'
<1>1. c_main = "connect" /\ COn = {} /\ c_pending = {}
  BY CliMainCalm DEF Connected, IInv
<1>2. CliStack' /\ COn' = {} /\ c_pending' = {}
  BY <1>1, CliMainOnly DEF Connected, IInv
<1>3. PICK k : k = conn_fd
  OBVIOUS
<1>4. k # None /\ Active = {k} /\ k \in Unseen /\ k \in Conns /\ k \in Still
  BY <1>1, <1>3 DEF IInv, CliInv, CliTypes, Owning, Answered, Connected
<1>5. /\ got_reply' = got_reply /\ c_alarm' = c_alarm /\ c_sleep' = c_sleep /\ conn_fd' = k
      /\ c_expire_cnt' = c_expire_cnt /\ c_already_reset' = c_already_reset /\ c_prog' = c_prog
      /\ alive' = alive /\ c_main' = "connected" /\ backlog' = Append(backlog, k)
      /\ link' = [link EXCEPT ![k] = [@ EXCEPT !.cl = "open", !.sv = "queued"]]
  BY <1>3 DEF Connected, cliTimers, cliGlobals
<1>6. /\ LinkInv' /\ Active' = Active /\ Opened' = Opened \cup {k}
      /\ Served' = Served /\ Queued' = Queued \cup {k} /\ UpHeld' = UpHeld /\ Blanks' = Blanks
  BY <1>4, <1>5, ConnectionMade DEF IInv, NetInv
<1>7. /\ s_main' = s_main /\ s_stack' = s_stack /\ s_pending' = s_pending /\ s_alarm' = s_alarm
      /\ cli_fd' = cli_fd /\ s_expire_cnt' = s_expire_cnt /\ s_already_reset' = s_already_reset
      /\ loaded' = loaded
  BY DEF srvVars, srvGlobals
<1>8. SOn' = SOn /\ SrvStack'
  BY <1>7, Zenon DEF SOn, SrvStack, IInv, SrvInv
<1>9. SrvTypes'
  BY <1>7 DEF SrvTypes, IInv, SrvInv
<1>10. Serving' /\ SrvUrgent'
  BY <1>6, <1>7, <1>8 DEF Serving, SrvUrgent, IInv, SrvInv
<1>11. backlog \in Seq(Conns) /\ backlog' \in Seq(Conns) /\ Len(backlog) \in Nat
       /\ Len(backlog') = Len(backlog) + 1 /\ backlog'[Len(backlog) + 1] = k
       /\ \A i \in 1..Len(backlog) : backlog'[i] = backlog[i]
  BY <1>4, <1>5, AppendProperties, LenProperties DEF IInv, NetInv
<1>12. Waiting'
  <2>1. \A i \in 1..Len(backlog') : i \in 1..Len(backlog) \/ i = Len(backlog) + 1
    BY <1>11
  <2>2. \A i \in 1..Len(backlog) : backlog'[i] \in Queued /\ backlog'[i] # k
    <3>1. k \notin Queued
      BY <1>4 DEF Unseen, Queued
    <3> QED
      BY <1>11, <3>1 DEF IInv, SrvInv, Waiting, Points
  <2>3. \A i \in 1..Len(backlog') : backlog'[i] \in Queued'
    BY <1>6, <1>11, <2>1, <2>2
  <2>4. \A i, j \in 1..Len(backlog') : backlog'[i] = backlog'[j] => i = j
    BY <1>11, <2>1, <2>2 DEF IInv, SrvInv, Waiting
  <2> QED
    BY <2>3, <2>4 DEF Waiting, Points
<1>13. Still' = Still
  BY <1>6, <1>7, <1>8 DEF Still
<1>14. quiet' = 0 /\ quiet' \in 0..Limit
  BY <1>5, QuieterIs DEF IInv, Quieter
<1>15. CliTypes'
  BY <1>2, <1>4, <1>5, <1>14 DEF IInv, CliInv, CliTypes
<1>16. Owning' /\ OffLine' /\ Unarmed' /\ Armed' /\ Retiring' /\ CliUrgent' /\ Answered' /\ Timing'
  BY <1>2, <1>4, <1>5, <1>6, <1>13, <1>14
     DEF Owning, OffLine, Unarmed, Armed, Retiring, CliUrgent, Answered, Timing
<1>17. NetInv'
  BY <1>5, <1>6, <1>11 DEF IInv, NetInv
<1> QED
  BY <1>2, <1>8, <1>9, <1>10, <1>12, <1>15, <1>16, <1>17 DEF CliInv, SrvInv

LEMMA ConnectFailsI ==
  ASSUME IInv, ConnectFails, UNCHANGED <<c_prog, srvVars>>, Quieter
  PROVE  NetInv' /\ SrvInv' /\ CliInv'
<1>1. c_main = "connect" /\ COn = {} /\ c_pending = {}
  BY CliMainCalm DEF ConnectFails, IInv
<1>2. CliStack' /\ COn' = {} /\ c_pending' = {}
  BY <1>1, CliMainOnly DEF ConnectFails, IInv
<1>3. NetInv' /\ SrvInv' /\ Active' = {}
  BY ClosesConn DEF ConnectFails, AfterRefusal
<1>4. /\ got_reply' = got_reply /\ c_alarm' = c_alarm /\ c_sleep' = c_sleep /\ conn_fd' = None
      /\ c_expire_cnt' = c_expire_cnt /\ c_already_reset' = c_already_reset /\ c_prog' = c_prog
      /\ c_main' = "failed"
  BY DEF ConnectFails, cliTimers
<1>5. quiet' = 0 /\ quiet' \in 0..Limit
  BY <1>4, QuieterIs DEF IInv, Quieter
<1>6. CliTypes'
  BY <1>2, <1>4, <1>5 DEF IInv, CliInv, CliTypes
<1>7. Owning' /\ OffLine' /\ Armed' /\ Retiring' /\ CliUrgent' /\ Answered' /\ Timing'
  BY <1>2, <1>3, <1>4, <1>5 DEF Owning, OffLine, Armed, Retiring, CliUrgent, Answered, Timing
<1>8. Unarmed'
  BY <1>1, <1>2, <1>4 DEF Unarmed, IInv, CliInv
<1> QED
  BY <1>2, <1>3, <1>6, <1>7, <1>8 DEF CliInv

LEMMA EstablishedI ==
  ASSUME IInv, Established, UNCHANGED <<c_prog, srvVars>>, Quieter
  PROVE  NetInv' /\ SrvInv' /\ CliInv'
<1>1. c_main = "connected" /\ COn = {} /\ c_pending = {}
  BY CliMainCalm DEF Established, IInv
<1>2. CliStack' /\ COn' = {} /\ c_pending' = {}
  BY <1>1, CliMainOnly DEF Established, IInv
<1>3. NetInv' /\ SrvInv' /\ Active' = Active /\ Opened' = Opened /\ Still' = Still
  BY CliAside DEF Established
<1>4. /\ got_reply' = TRUE /\ c_alarm' = CLI_ALARM_INTERVAL /\ c_sleep' = c_sleep
      /\ conn_fd' = conn_fd /\ c_expire_cnt' = c_expire_cnt
      /\ c_already_reset' = c_already_reset /\ c_prog' = c_prog /\ c_main' = "recv"
  BY DEF Established, ArmedBy
<1>5. quiet' = 0 /\ quiet' \in 0..Limit
  BY <1>1, QuieterIs DEF IInv, CliInv, OffLine, Quieter
<1>6. CliTypes'
  <2>1. c_alarm' \in 0..CLI_ALARM_INTERVAL
    BY <1>4, CliAssumption
  <2> QED
    BY <1>2, <1>4, <1>5, <2>1 DEF IInv, CliInv, CliTypes
<1>7. Owning' /\ Answered'
  BY <1>1, <1>2, <1>3, <1>4 DEF Owning, Answered, IInv, CliInv
<1>8. OffLine' /\ Unarmed' /\ Retiring' /\ CliUrgent'
  BY <1>2, <1>4 DEF OffLine, Unarmed, Retiring, CliUrgent
<1>9. Armed' /\ Timing'
  BY <1>4, <1>5, CliNumbers DEF Armed, Timing, IInv
<1> QED
  BY <1>2, <1>3, <1>6, <1>7, <1>8, <1>9 DEF CliInv

LEMMA RecvReturnsI ==
  ASSUME IInv, RecvReturns, UNCHANGED <<c_prog, srvVars>>, Quieter
  PROVE  NetInv' /\ SrvInv' /\ CliInv'
<1>1. c_main = "recv" /\ COn = {} /\ c_pending = {}
  BY CliMainCalm DEF RecvReturns, IInv
<1>2. CliStack' /\ COn' = {} /\ c_pending' = {}
  BY <1>1, CliMainOnly DEF RecvReturns, IInv
<1>3. /\ NetInv' /\ SrvInv' /\ Active' = Active /\ Opened' = Opened /\ Finished' = Finished
  BY CliAside DEF RecvReturns
<1>4. /\ got_reply' = got_reply /\ c_alarm' = c_alarm /\ c_sleep' = c_sleep
      /\ conn_fd' = conn_fd /\ c_expire_cnt' = c_expire_cnt
      /\ c_already_reset' = c_already_reset /\ c_prog' = c_prog
      /\ c_main' \in {"close", "received"}
  BY DEF RecvReturns, cliTimers, cliGlobals
<1>5. quiet' = 0 /\ quiet' \in 0..Limit
  BY <1>4, QuieterIs DEF IInv, Quieter
<1>6. CliTypes'
  BY <1>2, <1>4, <1>5 DEF IInv, CliInv, CliTypes
<1>7. conn_fd # None => conn_fd \in Finished
  BY DEF RecvReturns, FinAtClient, Finished, IInv, CliInv, CliTypes
<1>8. Owning' /\ Retiring'
  BY <1>1, <1>3, <1>4, <1>7 DEF Owning, Retiring, IInv, CliInv
<1>9. OffLine' /\ Unarmed' /\ CliUrgent' /\ Answered' /\ Timing'
  BY <1>2, <1>4, <1>5 DEF OffLine, Unarmed, CliUrgent, Answered, Timing
<1>10. Armed'
  BY <1>1, <1>2, <1>4 DEF Armed, IInv, CliInv
<1> QED
  BY <1>2, <1>3, <1>6, <1>8, <1>9, <1>10 DEF CliInv

LEMMA CloseAfterRecvI ==
  ASSUME IInv, CloseAfterRecv, UNCHANGED <<c_prog, srvVars>>, Quieter
  PROVE  NetInv' /\ SrvInv' /\ CliInv'
<1>1. c_main = "close" /\ COn = {} /\ c_pending = {}
  BY CliMainCalm DEF CloseAfterRecv, IInv
<1>2. CliStack' /\ COn' = {} /\ c_pending' = {}
  BY <1>1, CliMainOnly DEF CloseAfterRecv, IInv
<1>3. NetInv' /\ SrvInv' /\ Active' = {}
  BY ClosesConn DEF CloseAfterRecv
<1>4. /\ got_reply' = got_reply /\ c_alarm' = c_alarm /\ c_sleep' = c_sleep /\ conn_fd' = None
      /\ c_expire_cnt' = c_expire_cnt /\ c_already_reset' = c_already_reset /\ c_prog' = c_prog
      /\ c_main' = "received"
  BY DEF CloseAfterRecv, cliTimers
<1>5. quiet' = 0 /\ quiet' \in 0..Limit
  BY <1>4, QuieterIs DEF IInv, Quieter
<1>6. CliTypes'
  BY <1>2, <1>4, <1>5 DEF IInv, CliInv, CliTypes
<1>7. Owning' /\ OffLine' /\ Unarmed' /\ Retiring' /\ CliUrgent' /\ Answered' /\ Timing'
  BY <1>2, <1>3, <1>4, <1>5 DEF Owning, OffLine, Unarmed, Retiring, CliUrgent, Answered, Timing
<1>8. Armed'
  BY <1>1, <1>2, <1>4 DEF Armed, IInv, CliInv
<1> QED
  BY <1>2, <1>3, <1>6, <1>7, <1>8 DEF CliInv

(* The alarm that is armed strikes before the sleep is over.                  *)
LEMMA AfterRecvI ==
  ASSUME IInv, AfterRecv, UNCHANGED <<c_prog, srvVars>>, Quieter
  PROVE  NetInv' /\ SrvInv' /\ CliInv'
<1>1. c_main = "received" /\ COn = {} /\ c_pending = {}
  BY CliMainCalm DEF AfterRecv, IInv
<1>2. CliStack' /\ COn' = {} /\ c_pending' = {}
  BY <1>1, CliMainOnly DEF AfterRecv, IInv
<1>3. /\ NetInv' /\ SrvInv' /\ Active' = Active /\ Opened' = Opened /\ Finished' = Finished
  BY CliAside DEF AfterRecv
<1>4. /\ got_reply' = FALSE /\ c_alarm' = c_alarm /\ c_sleep' = 3
      /\ conn_fd' = conn_fd /\ c_expire_cnt' = c_expire_cnt
      /\ c_already_reset' = c_already_reset /\ c_prog' = c_prog
      /\ c_main' = "sleep"
  BY DEF AfterRecv, ReplyAfterRecv
<1>5. quiet' = 0 /\ quiet' \in 0..Limit
  BY <1>4, QuieterIs DEF IInv, Quieter
<1>6. CliTypes'
  <2>1. c_sleep' \in 0..3
    BY <1>4
  <2>2. got_reply' \in BOOLEAN
    BY <1>4, Zenon
  <2> QED
    BY <1>2, <1>4, <1>5, <2>1, <2>2 DEF IInv, CliInv, CliTypes
<1>7. c_alarm' > 0 /\ c_alarm' <= c_sleep'
  BY <1>1, <1>4, CliNumbers DEF Armed, IInv, CliInv
<1>8. Owning' /\ Retiring'
  BY <1>1, <1>3, <1>4, <1>7 DEF Owning, Retiring, IInv, CliInv
<1>9. OffLine' /\ Unarmed' /\ Armed' /\ CliUrgent' /\ Answered' /\ Timing'
  BY <1>2, <1>4, <1>5 DEF OffLine, Unarmed, Armed, CliUrgent, Answered, Timing
<1> QED
  BY <1>2, <1>3, <1>6, <1>8, <1>9 DEF CliInv

LEMMA AfterFailureI ==
  ASSUME IInv, AfterFailure, UNCHANGED <<c_prog, srvVars>>, Quieter
  PROVE  NetInv' /\ SrvInv' /\ CliInv'
<1>1. c_main = "failed" /\ COn = {} /\ c_pending = {}
  BY CliMainCalm DEF AfterFailure, IInv
<1>2. CliStack' /\ COn' = {} /\ c_pending' = {}
  BY <1>1, CliMainOnly DEF AfterFailure, IInv
<1>3. NetInv' /\ SrvInv' /\ Active' = Active
  BY CliAside DEF AfterFailure
<1>4. /\ got_reply' = got_reply /\ c_alarm' = c_alarm /\ c_sleep' = 3
      /\ conn_fd' = conn_fd /\ c_already_reset' = c_already_reset /\ c_prog' = c_prog
      /\ c_main' = "sleep" /\ c_expire_cnt' = Counted(c_expire_cnt, c_already_reset)
  BY DEF AfterFailure
<1>5. quiet' = 0 /\ quiet' \in 0..Limit
  BY <1>4, QuieterIs DEF IInv, Quieter
<1>6. CliTypes'
  <2>1. c_expire_cnt' \in 0..(PEER_EXPIRE_CNT + 1)
    BY <1>4, CliAssumption DEF Counted, IInv, CliInv, CliTypes
  <2> QED
    BY <1>2, <1>4, <1>5, <2>1 DEF IInv, CliInv, CliTypes
<1>7. conn_fd = None
  BY <1>1 DEF Owning, IInv, CliInv
<1>8. Owning' /\ Retiring' /\ CliUrgent' /\ Answered' /\ Timing'
  BY <1>3, <1>4, <1>7 DEF Owning, Retiring, CliUrgent, Answered, Timing, IInv, CliInv
<1>9. OffLine' /\ Unarmed' /\ Armed'
  BY <1>1, <1>2, <1>4, <1>5 DEF OffLine, Unarmed, Armed, IInv, CliInv
<1> QED
  BY <1>2, <1>3, <1>6, <1>8, <1>9 DEF CliInv

LEMMA WakeUpI ==
  ASSUME IInv, WakeUp, UNCHANGED <<c_prog, srvVars>>, Quieter
  PROVE  NetInv' /\ SrvInv' /\ CliInv'
<1>1. c_main = "sleep" /\ COn = {} /\ c_pending = {} /\ c_sleep = 0
  BY CliMainCalm DEF WakeUp, IInv
<1>2. CliStack' /\ COn' = {} /\ c_pending' = {}
  BY <1>1, CliMainOnly DEF WakeUp, IInv
<1>3. NetInv' /\ SrvInv' /\ Active' = Active
  BY CliAside DEF WakeUp
<1>4. /\ got_reply' = got_reply /\ c_alarm' = c_alarm /\ c_sleep' = c_sleep
      /\ conn_fd' = conn_fd /\ c_expire_cnt' = c_expire_cnt
      /\ c_already_reset' = c_already_reset /\ c_prog' = c_prog
      /\ c_main' = "top"
  BY DEF WakeUp, cliTimers, cliGlobals
<1>5. quiet' = 0 /\ quiet' \in 0..Limit
  BY <1>4, QuieterIs DEF IInv, Quieter
<1>6. CliTypes'
  BY <1>2, <1>4, <1>5 DEF IInv, CliInv, CliTypes
<1>7. conn_fd = None
  BY <1>1, CliNumbers DEF Retiring, IInv, CliInv
<1>8. Owning' /\ Retiring' /\ CliUrgent' /\ Answered' /\ Timing'
  BY <1>3, <1>4, <1>7 DEF Owning, Retiring, CliUrgent, Answered, Timing, IInv, CliInv
<1>9. OffLine' /\ Unarmed' /\ Armed'
  BY <1>1, <1>2, <1>4, <1>5 DEF OffLine, Unarmed, Armed, IInv, CliInv
<1> QED
  BY <1>2, <1>3, <1>6, <1>8, <1>9 DEF CliInv

LEMMA ClientI == ASSUME IInv, Client PROVE IInv'
<1>1. Quieter /\ UNCHANGED <<c_prog, srvVars>> /\ kills' = kills
  BY DEF Client, CliStep, Quieter
<1>2. NetInv' /\ SrvInv' /\ CliInv'
  <2>1. CASE SetReply
    <3>1. got_reply' => quiet' = 0
      BY <2>1 DEF Client
    <3> QED
      BY <1>1, <2>1, <3>1, SetReplyI
  <2>2. CASE CliHandlerStarts \/ AlarmRings \/ SendHeartbeat \/ ClearReply \/ LoseServer \/ ReadMark
    BY <1>1, <2>2, CliHandlerStartsI, AlarmRingsI, SendHeartbeatI, ClearReplyI, LoseServerI,
       ReadMarkI
  <2>3. CASE Socket \/ Connected \/ ConnectFails \/ Established
    BY <1>1, <2>3, SocketI, ConnectedI, ConnectFailsI, EstablishedI
  <2>4. CASE RecvReturns \/ CloseAfterRecv \/ AfterRecv \/ AfterFailure \/ WakeUp
    BY <1>1, <2>4, RecvReturnsI, CloseAfterRecvI, AfterRecvI, AfterFailureI, WakeUpI
  <2> QED
    BY <2>1, <2>2, <2>3, <2>4 DEF Client, CliStep
<1> QED
  BY <1>1, <1>2 DEF IInv

-----------------------------------------------------------------------------
LEMMA InitI == Init => IInv
<1> SUFFICES ASSUME Init PROVE IInv
  OBVIOUS
<1>1. /\ c_stack = <<>> /\ s_stack = <<>> /\ backlog = <<>> /\ c_pending = {} /\ s_pending = {}
      /\ c_main = "top" /\ s_main = "accept" /\ conn_fd = None /\ cli_fd = None
      /\ c_alarm = 0 /\ c_sleep = 0 /\ quiet = 0
  BY DEF Init, NetInit, CliInit, SrvInit
<1>2. /\ CliStack /\ COn = {} /\ SrvStack /\ SOn = {} /\ Points(backlog) = {}
  BY <1>1, NoHandlers, Zenon DEF CliStack, COn, SrvStack, SOn
<1>3. LinkInv /\ Active = {} /\ Served = {}
  <2>1. NoLink \in Link /\ Single(NoLink) /\ NoLink.cl = "none" /\ NoLink.sv = "none"
    BY DEF NoLink, Link, Single
  <2>2. link \in [Conns -> Link] /\ \A k \in Conns : link[k] = NoLink
    BY <2>1 DEF Init, NetInit
  <2> QED
    BY <2>1, <2>2 DEF LinkInv, Active, Served
<1>4. CliTypes
  <2>1. 0 \in 0..Limit /\ 0 \in 0..CLI_ALARM_INTERVAL /\ 0 \in 0..(PEER_EXPIRE_CNT + 1) /\ 0 \in 0..3
    BY CliAssumption DEF Limit
  <2> QED
    BY <2>1 DEF Init, CliInit, CliTypes
<1>5. SrvTypes
  <2>1. 0 \in 0..(SRV_PEER_EXPIRE_CNT + 1) /\ SRV_ALARM_INTERVAL \in 0..SRV_ALARM_INTERVAL
    BY SrvAssumption
  <2> QED
    BY <2>1 DEF Init, SrvInit, SrvTypes
<1>6. CliInv
  BY <1>1, <1>2, <1>3, <1>4
     DEF CliInv, Owning, OffLine, Unarmed, Armed, Retiring, CliUrgent, Answered, Timing
<1>7. SrvInv
  BY <1>1, <1>2, <1>3, <1>5 DEF SrvInv, Serving, Waiting, SrvUrgent
<1>8. NetInv
  BY <1>3, EmptySeq DEF Init, NetInit, NetInv
<1>9. kills \in 0..MaxKills
  BY PairAssumption DEF Init
<1> QED
  BY <1>6, <1>7, <1>8, <1>9 DEF IInv

LEMMA StutterI == ASSUME IInv, UNCHANGED vars PROVE IInv'
<1>1. NetInv' /\ SrvInv'
  BY CliAside DEF vars
<1>2. CliKeeps
  BY CliAside DEF vars, CliKeeps, ActiveKept
<1>3. CliInv'
  BY <1>2, CliFrame DEF vars, IInv
<1> QED
  BY <1>1, <1>3 DEF IInv, vars

LEMMA NextI == IInv /\ [Next]_vars => IInv'
  BY ClientI, ServerI, ArriveUpI, ArriveDownI, KillI, RestartI, TickI, StutterI DEF Next, Network

LEMMA Inductive == Spec => []IInv
  BY InitI, NextI, PTL DEF Spec

-----------------------------------------------------------------------------
(* Type correctness of the two heartbeat programs: with one handler of each   *)
(* signal at most, no more than two run at a time.                            *)
THEOREM TypeCorrect == Spec => []TypeOK
<1>1. IInv => TypeOK
  <2> SUFFICES ASSUME IInv PROVE TypeOK
    OBVIOUS
  <2>1. c_stack \in Seq(AlarmPoints \cup UrgentPoints) /\ Len(c_stack) <= 2
    BY CliAlone DEF IInv, CliInv, CliStack, OneEach
  <2>2. s_stack \in Seq(SrvAlarmPoints \cup SrvUrgentPoints) /\ Len(s_stack) <= 2
    BY SrvAlone DEF IInv, SrvInv, SrvStack, OneEach
  <2>3. /\ AlarmPoints \cup UrgentPoints
             = {"alrm", "send", "clear", "close", "read", "isS", "isOther"}
        /\ SrvAlarmPoints \cup SrvUrgentPoints = {"alrm", "store", "read", "isC", "reset"}
    BY DEF AlarmPoints, UrgentPoints, SrvAlarmPoints, SrvUrgentPoints
  <2>4. CliTypeOK
    BY <2>1, <2>3 DEF CliTypeOK, IInv, CliInv, CliTypes
  <2>5. SrvTypeOK
    BY <2>2, <2>3 DEF SrvTypeOK, IInv, SrvInv, SrvTypes
  <2>6. NetTypeOK
    BY DEF NetTypeOK, IInv, NetInv, LinkInv
  <2> QED
    BY <2>4, <2>5, <2>6 DEF TypeOK, IInv, CliInv, CliTypes
<1> QED
  BY <1>1, Inductive, PTL

(* A connection carries one heartbeat or answer at a time: send_heartbeat()   *)
(* is called again only when the answer to the last one was taken, however    *)
(* handlers interrupt each other.                                             *)
THEOREM OneMarkAtATime == Spec => []OneMark
<1>1. IInv => OneMark
  <2> SUFFICES ASSUME IInv, NEW k \in Conns PROVE MarksOn(k) <= 1
    BY DEF OneMark
  <2>1. PICK l : l = link[k]
    OBVIOUS
  <2>2. Single(l) /\ l.up \in 0..2 /\ l.down \in 0..2
    BY <2>1 DEF IInv, NetInv, LinkInv, Link
  <2>3. PICK a, b : a = B(l.upSlot) /\ b = B(l.downSlot)
    OBVIOUS
  <2>4. /\ a \in {0, 1} /\ b \in {0, 1} /\ l.up <= 1 /\ l.down <= 1
        /\ l.up > 0 => l.down = 0 /\ a = 0 /\ b = 0
        /\ l.down > 0 => a = 0 /\ b = 0
        /\ a = 0 \/ b = 0
    BY <2>2, <2>3 DEF Single, B
  <2>5. l.up + l.down + a + b <= 1
    BY <2>2, <2>4
  <2> QED
    BY <2>1, <2>3, <2>5 DEF MarksOn
<1> QED
  BY <1>1, Inductive, PTL

(* The client has one connection at most, the one conn_fd stands for: the     *)
(* alarm closes the last one before main, back from sleep(3), opens another.  *)
THEOREM OneConnectionAtATime == Spec => []OneConnection
<1>1. IInv => OneConnection
  BY DEF IInv, CliInv, Owning, Active, OneConnection
<1> QED
  BY <1>1, Inductive, PTL

(* A server that does not answer is given up within two intervals: the time   *)
(* since the last answer and the time to the next alarm are bounded together. *)
THEOREM DetectedInTime == Spec => []DetectsInTime
<1>1. IInv => DetectsInTime
  <2> SUFFICES ASSUME IInv, c_main = "recv", conn_fd # None, c_stack = <<>>, CliDeliverable = {}
               PROVE  quiet < Limit
    BY DEF DetectsInTime
  <2>1. COn = {} /\ c_pending = {}
    BY CliCalm DEF IInv, CliInv, CliTypes
  <2>2. c_alarm > 0 /\ quiet + c_alarm <= 2 * CLI_ALARM_INTERVAL
    BY <2>1 DEF IInv, CliInv, Armed, Timing
  <2> QED
    BY <2>2, CliNumbers DEF Limit, IInv
<1> QED
  BY <1>1, Inductive, PTL
=============================================================================

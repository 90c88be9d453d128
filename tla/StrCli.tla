------------------------------- MODULE StrCli -------------------------------
(* The select loop of str_cli (C/nonblock_stream_client.c) over non-blocking  *)
(* descriptors, talking to one str_echo child of C/basic_tcp_server.c.  The   *)
(* k-th byte of standard input is the number k; pointers into to[] and fr[]   *)
(* are offsets from the start of the buffer.                                  *)
EXTENDS Integers, Sequences

CONSTANTS MAX_SIZE,   \* size of to[] and of fr[]
          BufLen,     \* bytes str_echo asks read() for
          StdinLen,   \* most bytes the user types
          SndCap,     \* bytes the kernel holds towards the server
          RcvCap,     \* bytes the kernel holds towards the client
          OutCap,     \* bytes the pipe behind standard output holds
          Faults      \* may the server be killed, may stdin or stdout fail

ASSUME SizesAssumption == /\ MAX_SIZE \in Nat \ {0}
                          /\ BufLen \in Nat \ {0}
                          /\ StdinLen \in Nat
                          /\ SndCap \in Nat \ {0}
                          /\ RcvCap \in Nat \ {0}
                          /\ OutCap \in Nat \ {0}
                          /\ Faults \in BOOLEAN

VARIABLES
  pc,                     \* the if statement the loop has reached
  stdineof, rset, wset,
  to, toiptr, tooptr,     \* stdin -> socket buffer
  fr, friptr, froptr,     \* socket -> stdout buffer
  typed, eofTyped,        \* what the user has typed, end of input
  consumed,               \* bytes read() has returned from stdin
  wire, finSent,          \* bytes written to the socket, shutdown() done
  spc, sgot, sbuf,        \* str_echo: program point, bytes read, its buf
  down, rcvd,             \* bytes str_echo wrote, bytes the client read
  rst,                    \* a reset has reached the client
  screen, shown           \* bytes written to stdout, bytes its reader took

cliVars  == <<stdineof, rset, wset>>
toVars   == <<to, toiptr, tooptr, consumed>>
frVars   == <<fr, friptr, froptr, rcvd>>
userVars == <<typed, eofTyped, shown>>
upVars   == <<wire, finSent>>
srvVars  == <<spc, sgot, sbuf, down, rst>>
vars == <<pc, cliVars, toVars, frVars, userVars, upVars, srvVars, screen>>

(* "normal termination", "server terminated prematurely", another error.      *)
Ended == {"returned", "exited", "failed"}

-----------------------------------------------------------------------------
(* Data: n bytes of a buffer from offset i; a buffer with s stored at i.      *)
Offsets == 0..(MAX_SIZE - 1)
Segment(buf, i, n) == [k \in 1..n |-> buf[i + k - 1]]
Store(buf, i, s) == [k \in Offsets |-> IF k - i + 1 \in 1..Len(s)
                                         THEN s[k - i + 1] ELSE buf[k]]

(* How much a read() may be asked for, and the out and in pointers after a    *)
(* write of n bytes: an emptied buffer is rewound.                            *)
Room_Whole(iptr) == MAX_SIZE
Room(iptr) == MAX_SIZE - iptr
OutPtr(optr, iptr, n) == IF optr + n = iptr THEN 0 ELSE optr + n
InPtr_NotRewound(optr, iptr, n) == iptr
InPtr(optr, iptr, n) == IF optr + n = iptr THEN 0 ELSE iptr

(* When shutdown() is called: at the end of input, after a write of n bytes.  *)
FinAtEof_Always == TRUE
FinAtEof == tooptr = toiptr
FinAtDrain_NotAtEof(n) == tooptr + n = toiptr
FinAtDrain_Never(n) == FALSE
FinAtDrain(n) == tooptr + n = toiptr /\ stdineof

(* The kernel's queues.                                                       *)
SndSpace == SndCap - (Len(wire) - sgot)
RcvSpace == RcvCap - (Len(down) - rcvd)
OutSpace == OutCap - (Len(screen) - shown)

(* read() of a zero length returns 0 like the end of the stream.              *)
StdinAtEnd == (eofTyped /\ consumed = typed) \/ Room(toiptr) = 0
SockAtEnd  == (spc = "closed" /\ ~rst /\ rcvd = Len(down)) \/ Room(friptr) = 0

Init ==
  /\ pc = "select" /\ stdineof = FALSE /\ rset = {} /\ wset = {}
  /\ to = [k \in Offsets |-> 0] /\ toiptr = 0 /\ tooptr = 0
  /\ fr = [k \in Offsets |-> 0] /\ friptr = 0 /\ froptr = 0
  /\ typed = 0 /\ eofTyped = FALSE /\ consumed = 0
  /\ wire = <<>> /\ finSent = FALSE
  /\ spc = "read" /\ sgot = 0 /\ sbuf = <<>> /\ down = <<>> /\ rcvd = 0
  /\ rst = FALSE /\ screen = <<>> /\ shown = 0

-----------------------------------------------------------------------------
(* The loop of str_cli.                                                       *)
ReadInterest_FrFull ==
  (IF ~stdineof /\ toiptr < MAX_SIZE THEN {"stdin"} ELSE {}) \cup {"sock"}
ReadInterest ==
  (IF ~stdineof /\ toiptr < MAX_SIZE THEN {"stdin"} ELSE {})
    \cup (IF friptr < MAX_SIZE THEN {"sock"} ELSE {})
WriteInterest_Swapped ==
  (IF tooptr # toiptr THEN {"stdout"} ELSE {})
    \cup (IF froptr # friptr THEN {"sock"} ELSE {})
WriteInterest ==
  (IF tooptr # toiptr THEN {"sock"} ELSE {})
    \cup (IF froptr # friptr THEN {"stdout"} ELSE {})

ReadReady ==
  (IF consumed < typed \/ eofTyped THEN {"stdin"} ELSE {})
    \cup (IF rcvd < Len(down) \/ spc = "closed" THEN {"sock"} ELSE {})
WriteReady ==
  (IF SndSpace > 0 \/ rst THEN {"sock"} ELSE {})
    \cup (IF OutSpace > 0 THEN {"stdout"} ELSE {})

Select ==
  /\ pc = "select"
  /\ (ReadInterest \cap ReadReady) \cup (WriteInterest \cap WriteReady) # {}
  /\ rset' = ReadInterest \cap ReadReady
  /\ wset' = WriteInterest \cap WriteReady
  /\ pc' = "stdin"
  /\ UNCHANGED <<stdineof, toVars, frVars, userVars, upVars, srvVars, screen>>

(* The condition of the if statement the loop stands at, and where the loop   *)
(* goes after it.                                                             *)
Taken == \/ pc = "stdin"  /\ "stdin" \in rset
         \/ pc = "sockr"  /\ "sock" \in rset
         \/ pc = "stdout" /\ "stdout" \in wset /\ friptr > froptr
         \/ pc = "sockw"  /\ "sock" \in wset /\ toiptr > tooptr
After == [stdin |-> "sockr", sockr |-> "stdout",
          stdout |-> "sockw", sockw |-> "select"]

PassBy == /\ pc \in DOMAIN After
          /\ ~Taken
          /\ pc' = After[pc]
          /\ UNCHANGED <<cliVars, toVars, frVars, userVars, upVars, srvVars, screen>>

(* EWOULDBLOCK: a write finds no room (the FD_SETs after the reads promise    *)
(* none); a read may fail so although select() reported it ready.             *)
WouldBlock == /\ Taken
              /\ pc = "stdout" => OutSpace <= 0
              /\ pc = "sockw"  => SndSpace <= 0 /\ ~rst
              /\ pc' = After[pc]
              /\ UNCHANGED <<cliVars, toVars, frVars, userVars, upVars, srvVars, screen>>

(* Every other error ends the process; the socket fails once it is reset.     *)
Fail == /\ Taken
        /\ Faults
        /\ pc \in {"sockr", "sockw"} => rst
        /\ pc' = "failed"
        /\ UNCHANGED <<cliVars, toVars, frVars, userVars, upVars, srvVars, screen>>

ReadStdin ==
  /\ pc = "stdin" /\ "stdin" \in rset
  /\ \E n \in 1..(Room(toiptr)) :
       /\ consumed + n <= typed
       /\ to' = Store(to, toiptr, [k \in 1..n |-> consumed + k])
       /\ toiptr' = toiptr + n
       /\ consumed' = consumed + n
  /\ wset' = wset \cup {"sock"}
  /\ pc' = "sockr"
  /\ UNCHANGED <<stdineof, rset, tooptr, frVars, userVars, upVars, srvVars, screen>>

StdinEof ==
  /\ pc = "stdin" /\ "stdin" \in rset
  /\ StdinAtEnd
  /\ stdineof' = TRUE
  /\ finSent' = (finSent \/ FinAtEof)
  /\ pc' = "sockr"
  /\ UNCHANGED <<rset, wset, toVars, frVars, userVars, wire, srvVars, screen>>

ReadSock ==
  /\ pc = "sockr" /\ "sock" \in rset
  /\ \E n \in 1..(Room(friptr)) :
       /\ rcvd + n <= Len(down)
       /\ fr' = Store(fr, friptr, SubSeq(down, rcvd + 1, rcvd + n))
       /\ friptr' = friptr + n
       /\ rcvd' = rcvd + n
  /\ wset' = wset \cup {"stdout"}
  /\ pc' = "stdout"
  /\ UNCHANGED <<stdineof, rset, toVars, froptr, userVars, upVars, srvVars, screen>>

SockEof ==
  /\ pc = "sockr" /\ "sock" \in rset
  /\ SockAtEnd
  /\ pc' = IF stdineof THEN "returned" ELSE "exited"
  /\ UNCHANGED <<cliVars, toVars, frVars, userVars, upVars, srvVars, screen>>

WriteStdout ==
  /\ pc = "stdout" /\ "stdout" \in wset
  /\ \E n \in 1..(friptr - froptr) :
       /\ n <= OutSpace
       /\ screen' = screen \o Segment(fr, froptr, n)
       /\ froptr' = OutPtr(froptr, friptr, n)
       /\ friptr' = InPtr(froptr, friptr, n)
  /\ pc' = "sockw"
  /\ UNCHANGED <<cliVars, toVars, fr, rcvd, userVars, upVars, srvVars>>

WriteSock ==
  /\ pc = "sockw" /\ "sock" \in wset
  /\ \E n \in 1..(toiptr - tooptr) :
       /\ n <= SndSpace /\ ~rst
       /\ wire' = wire \o Segment(to, tooptr, n)
       /\ tooptr' = OutPtr(tooptr, toiptr, n)
       /\ toiptr' = InPtr(tooptr, toiptr, n)
       /\ finSent' = (finSent \/ FinAtDrain(n))
  /\ pc' = "select"
  /\ UNCHANGED <<cliVars, to, consumed, frVars, userVars, srvVars, screen>>

Client == \/ Select \/ PassBy \/ WouldBlock \/ Fail
          \/ ReadStdin \/ StdinEof \/ ReadSock \/ SockEof
          \/ WriteStdout \/ WriteSock

-----------------------------------------------------------------------------
(* str_echo, one child of the server: read a chunk, write all of it back.     *)
SrvRead ==
  /\ spc = "read"
  /\ \E n \in 1..BufLen :
       /\ sgot + n <= Len(wire)
       /\ sbuf' = SubSeq(wire, sgot + 1, sgot + n)
       /\ sgot' = sgot + n
  /\ spc' = "write"
  /\ UNCHANGED <<pc, cliVars, toVars, frVars, userVars, upVars, down, rst, screen>>

SrvEof ==
  /\ spc = "read"
  /\ finSent /\ sgot = Len(wire)
  /\ spc' = "closed"
  /\ UNCHANGED <<pc, cliVars, toVars, frVars, userVars, upVars, sgot, sbuf, down, rst, screen>>

(* The blocking write hands the kernel as much as fits and sleeps for the rest. *)
SrvWrite ==
  /\ spc = "write"
  /\ \E n \in 1..Len(sbuf) :
       /\ n <= RcvSpace
       /\ down' = down \o SubSeq(sbuf, 1, n)
       /\ sbuf' = SubSeq(sbuf, n + 1, Len(sbuf))
       /\ spc' = IF n = Len(sbuf) THEN "read" ELSE "write"
  /\ UNCHANGED <<pc, cliVars, toVars, frVars, userVars, upVars, sgot, rst, screen>>

(* The client's process has ended: the read returns 0 or fails and then       *)
(* returns 0, the write raises SIGPIPE; either way the child is gone.         *)
SrvPeerGone ==
  /\ pc \in Ended /\ spc # "closed"
  /\ spc' = "closed"
  /\ UNCHANGED <<pc, cliVars, toVars, frVars, userVars, upVars, sgot, sbuf, down, rst, screen>>

Server == SrvRead \/ SrvEof \/ SrvWrite \/ SrvPeerGone

-----------------------------------------------------------------------------
(* The user, the reader of standard output, and faults.                       *)
Type == /\ ~eofTyped /\ typed < StdinLen
        /\ typed' = typed + 1
        /\ UNCHANGED <<pc, cliVars, toVars, frVars, eofTyped, shown, upVars, srvVars, screen>>
TypeEof == /\ ~eofTyped
           /\ eofTyped' = TRUE
           /\ UNCHANGED <<pc, cliVars, toVars, frVars, typed, shown, upVars, srvVars, screen>>
Show == /\ shown < Len(screen)
        /\ shown' = shown + 1
        /\ UNCHANGED <<pc, cliVars, toVars, frVars, typed, eofTyped, upVars, srvVars, screen>>

KillServer == /\ Faults /\ spc # "closed"
              /\ spc' = "closed"
              /\ UNCHANGED <<pc, cliVars, toVars, frVars, userVars, upVars, sgot, sbuf, down, rst, screen>>
(* Bytes the killed server has not read, or that reach it later, are answered *)
(* by a reset.                                                                *)
Reset == /\ spc = "closed" /\ sgot < Len(wire) /\ ~rst
         /\ rst' = TRUE
         /\ UNCHANGED <<pc, cliVars, toVars, frVars, userVars, upVars, spc, sgot, sbuf, down, screen>>

(* The process has ended and everything written has been read.                *)
Over == pc \in Ended /\ spc = "closed" /\ UNCHANGED vars

Next == \/ Client \/ Server
        \/ Type \/ TypeEof \/ Show \/ KillServer \/ Reset \/ Over

Spec == Init /\ [][Next]_vars

(* The client and the server keep running, and whatever reads standard output *)
(* goes on reading it; the user owes nothing.  A read that select() announced *)
(* is not refused for ever.                                                   *)
Fairness == /\ WF_vars(Client) /\ WF_vars(Server) /\ WF_vars(Show)
            /\ SF_vars(ReadStdin \/ StdinEof)
            /\ SF_vars(ReadSock \/ SockEof \/ (pc = "sockr" /\ Fail))
FairSpec == Spec /\ Fairness

-----------------------------------------------------------------------------
TypeOK ==
  /\ pc \in {"select", "stdin", "sockr", "stdout", "sockw"} \cup Ended
  /\ stdineof \in BOOLEAN /\ rset \subseteq {"stdin", "sock"}
  /\ wset \subseteq {"sock", "stdout"}
  /\ to \in [Offsets -> Nat] /\ fr \in [Offsets -> Nat]
  /\ tooptr \in 0..MAX_SIZE /\ toiptr \in 0..MAX_SIZE
  /\ froptr \in 0..MAX_SIZE /\ friptr \in 0..MAX_SIZE
  /\ typed \in 0..StdinLen /\ eofTyped \in BOOLEAN /\ consumed \in Nat
  /\ wire \in Seq(Nat) /\ finSent \in BOOLEAN
  /\ spc \in {"read", "write", "closed"} /\ sgot \in Nat /\ sbuf \in Seq(Nat)
  /\ down \in Seq(Nat) /\ rcvd \in Nat /\ rst \in BOOLEAN
  /\ screen \in Seq(Nat) /\ shown \in Nat

(* Nothing typed is lost, duplicated or reordered on its way to the server,   *)
(* however the partial reads and writes of str_cli fall: what was read is     *)
(* what was written to the socket followed by to[tooptr..toiptr).             *)
UpStream ==
  /\ consumed = Len(wire) + (toiptr - tooptr)
  /\ \A k \in 1..Len(wire) : wire[k] = k
  /\ \A k \in tooptr..(toiptr - 1) : to[k] = Len(wire) + 1 + (k - tooptr)

(* The same for what str_echo sends back: the screen shows a prefix of the    *)
(* input, and fr[froptr..friptr) is what comes next.                          *)
DownStream ==
  /\ rcvd = Len(screen) + (friptr - froptr)
  /\ \A k \in 1..Len(screen) : screen[k] = k
  /\ \A k \in froptr..(friptr - 1) : fr[k] = Len(screen) + 1 + (k - froptr)

(* Both directions deliver without loss, duplication or reordering.           *)
InOrder == UpStream /\ DownStream

(* The end of input that str_cli acts on is the real one (read() is never     *)
(* called with the zero length that returns 0 in the middle of the stream),   *)
(* and shutdown() is called only when all of standard input has been written. *)
FinAfterLastByte == /\ stdineof => eofTyped /\ consumed = typed
                    /\ finSent => stdineof /\ Len(wire) = typed

(* A client that says the server terminated prematurely is right: the server  *)
(* closed the connection before it was told the end of input.  One that       *)
(* returns has seen the server's close too.                                   *)
NoFalseAlarm == /\ pc \in {"returned", "exited"} => spc = "closed"
                /\ pc = "exited" => ~finSent

(* The copy from standard input to the socket is a bounded FIFO pipe.         *)
UpPipe == INSTANCE BytePipe WITH Cap <- MAX_SIZE, taken <- consumed,
            ended <- stdineof, out <- wire, closed <- finSent
UpPipeSpec == UpPipe!PipeSpec

(* Every byte typed is shown in the end, unless str_cli has ended.            *)
EveryByteEchoed ==
  \A k \in 1..StdinLen : (typed >= k) ~> (shown >= k \/ pc \in Ended)

(* After the end of input the client terminates; by NoFalseAlarm it returns   *)
(* when the server lives and no call fails.                                   *)
Terminates == eofTyped ~> pc \in Ended

(* What the comment "normal termination" claims of the return statement:      *)
(* everything received has been printed.                                      *)
NormalTermination == pc = "returned" => Len(screen) = rcvd
=============================================================================

---------------------------- MODULE StrCliProofs ----------------------------
(* Proofs about the copy loop of str_cli for every buffer size, every length  *)
(* of input and every capacity of the kernel's queues, with and without       *)
(* faults.                                                                    *)
EXTENDS StrCli, SequenceTheorems, TLAPS

(* The in pointer never lies before the out pointer.                          *)
Pointers == tooptr <= toiptr /\ froptr <= friptr

(* What str_echo has read is what it wrote back followed by what it still     *)
(* holds, and it is a prefix of what the client wrote.                        *)
EchoStream ==
  /\ sgot = Len(down) + Len(sbuf) /\ sgot <= Len(wire) /\ rcvd <= Len(down)
  /\ \A k \in 1..Len(down) : down[k] = k
  /\ \A k \in 1..Len(sbuf) : sbuf[k] = Len(down) + k
  /\ spc = "read" => sbuf = <<>>

(* The end of input, the FIN and the end of the connection, in that order.    *)
EndOfInput ==
  /\ stdineof => eofTyped /\ consumed = typed
  /\ finSent => stdineof /\ tooptr = toiptr
  /\ consumed <= typed
  /\ pc \in {"returned", "exited"} => spc = "closed"
  /\ pc = "exited" => ~stdineof

(* What select() reported stays true until the read it was reported for.      *)
Interest ==
  /\ pc = "stdin" /\ "stdin" \in rset => ~stdineof /\ toiptr < MAX_SIZE
  /\ pc \in {"stdin", "sockr"} /\ "sock" \in rset => friptr < MAX_SIZE

IInv == /\ TypeOK /\ Pointers /\ UpStream /\ DownStream
        /\ EchoStream /\ EndOfInput /\ Interest

-----------------------------------------------------------------------------
(* n bytes of a buffer are a sequence of length n.                            *)
LEMMA SegmentIsSeq ==
  ASSUME NEW buf \in [Offsets -> Nat], NEW i \in Nat, NEW n \in Nat,
         i + n <= MAX_SIZE
  PROVE  /\ Segment(buf, i, n) \in Seq(Nat)
         /\ Len(Segment(buf, i, n)) = n
         /\ \A k \in 1..n : Segment(buf, i, n)[k] = buf[i + k - 1]
<1>1. \A k \in 1..n : buf[i + k - 1] \in Nat
  BY SizesAssumption DEF Offsets
<1>2. /\ [k \in 1..n |-> buf[i + k - 1]] \in Seq(Nat)
      /\ Len([k \in 1..n |-> buf[i + k - 1]]) = n
  BY <1>1
<1> QED BY <1>2 DEF Segment

(* Storing a sequence changes the bytes it covers and no other.               *)
LEMMA StoreIsBuffer ==
  ASSUME NEW buf \in [Offsets -> Nat], NEW i \in Nat, NEW n \in Nat,
         NEW data \in Seq(Nat), Len(data) = n, i + n <= MAX_SIZE
  PROVE  /\ Store(buf, i, data) \in [Offsets -> Nat]
         /\ \A k \in Offsets : k < i => Store(buf, i, data)[k] = buf[k]
         /\ \A k \in i..(i + n - 1) : Store(buf, i, data)[k] = data[k - i + 1]
<1>1. \A k \in 1..Len(data) : data[k] \in Nat
  OBVIOUS
<1>2. Len(data) \in Nat /\ MAX_SIZE \in Nat
  BY SizesAssumption
<1>3. Store(buf, i, data) \in [Offsets -> Nat]
  BY <1>1, <1>2 DEF Store, Offsets
<1>4. \A k \in Offsets : k < i => Store(buf, i, data)[k] = buf[k]
  BY <1>2 DEF Store, Offsets
<1>5. \A k \in i..(i + n - 1) : Store(buf, i, data)[k] = data[k - i + 1]
  <2> TAKE k \in i..(i + n - 1)
  <2>1. k \in Offsets /\ k - i + 1 \in 1..Len(data)
    BY <1>2 DEF Offsets
  <2> QED BY <2>1 DEF Store
<1> QED BY <1>3, <1>4, <1>5

(* The numbers from a + 1 to a + n are a sequence.                            *)
LEMMA RunIsSeq ==
  ASSUME NEW a \in Nat, NEW n \in Nat
  PROVE  /\ [k \in 1..n |-> a + k] \in Seq(Nat)
         /\ Len([k \in 1..n |-> a + k]) = n
<1>1. [k \in 1..n |-> a + k] \in [1..n -> Nat]
  OBVIOUS
<1> QED BY <1>1

-----------------------------------------------------------------------------
LEMMA InitIInv == Init => IInv
<1> SUFFICES ASSUME Init PROVE IInv
  OBVIOUS
<1> USE SizesAssumption DEF Init, Ended
<1>1. TypeOK
  <2>1. <<>> \in Seq(Nat)
    OBVIOUS
  <2>2. to \in [Offsets -> Nat] /\ fr \in [Offsets -> Nat]
    OBVIOUS
  <2>3. /\ wire \in Seq(Nat) /\ sbuf \in Seq(Nat) /\ down \in Seq(Nat)
        /\ screen \in Seq(Nat)
    BY <2>1
  <2>4. typed \in 0..StdinLen /\ tooptr \in 0..MAX_SIZE
    OBVIOUS
  <2> QED BY <2>2, <2>3, <2>4 DEF TypeOK
<1>2. UpStream /\ DownStream BY DEF UpStream, DownStream
<1>3. EchoStream BY DEF EchoStream
<1>4. Pointers /\ EndOfInput /\ Interest BY DEF Pointers, EndOfInput, Interest
<1> QED BY <1>1, <1>2, <1>3, <1>4 DEF IInv

(* read() on standard input.                                                  *)
LEMMA ReadStdinIInv == IInv /\ ReadStdin => IInv'
<1> SUFFICES ASSUME IInv, ReadStdin PROVE IInv'
  OBVIOUS
<1> USE SizesAssumption
<1>1. PICK n \in 1..Room(toiptr) :
        /\ consumed + n <= typed
        /\ to' = Store(to, toiptr, [k \in 1..n |-> consumed + k])
        /\ toiptr' = toiptr + n
        /\ consumed' = consumed + n
  BY DEF ReadStdin
<1> DEFINE s == [k \in 1..n |-> consumed + k]
<1>2. n \in Nat /\ n > 0 /\ toiptr + n <= MAX_SIZE /\ toiptr \in Nat /\ consumed \in Nat
      /\ tooptr \in Nat /\ to \in [Offsets -> Nat] /\ Len(wire) \in Nat
  BY <1>1 DEF IInv, TypeOK, Room
<1>3. s \in Seq(Nat) /\ Len(s) = n
  BY <1>2, RunIsSeq
<1>4. /\ to' \in [Offsets -> Nat]
      /\ \A k \in Offsets : k < toiptr => to'[k] = to[k]
      /\ \A k \in toiptr..(toiptr + n - 1) : to'[k] = consumed + (k - toiptr + 1)
  <2>1. \A k \in toiptr..(toiptr + n - 1) : s[k - toiptr + 1] = consumed + (k - toiptr + 1)
    BY <1>2
  <2>2. to' = Store(to, toiptr, s)
    BY <1>1
  <2> HIDE DEF s
  <2>3. n \in Nat /\ toiptr + n <= MAX_SIZE
    BY <1>2
  <2>4. /\ to' \in [Offsets -> Nat]
        /\ \A k \in Offsets : k < toiptr => to'[k] = to[k]
        /\ \A k \in toiptr..(toiptr + n - 1) : to'[k] = s[k - toiptr + 1]
    <3>1. to \in [Offsets -> Nat] /\ toiptr \in Nat
      BY <1>2
    <3>2. Store(to, toiptr, s) \in [Offsets -> Nat]
      BY <3>1, <1>3, <2>3, StoreIsBuffer
    <3>3. \A k \in Offsets : k < toiptr => Store(to, toiptr, s)[k] = to[k]
      BY <3>1, <1>3, <2>3, StoreIsBuffer
    <3>4. \A k \in toiptr..(toiptr + n - 1) :
            Store(to, toiptr, s)[k] = s[k - toiptr + 1]
      BY <3>1, <1>3, <2>3, StoreIsBuffer
    <3> QED BY <3>2, <3>3, <3>4, <2>2
  <2> QED BY <1>3, <2>1, <2>4
<1>5. ~stdineof
  BY DEF IInv, Interest, ReadStdin
<1>6. TypeOK'
  BY <1>1, <1>2, <1>4 DEF IInv, TypeOK, ReadStdin, frVars, userVars, upVars, srvVars
<1>7. UpStream'
  <2>1. \A k \in tooptr..(toiptr + n - 1) : to'[k] = Len(wire) + 1 + (k - tooptr)
    <3> TAKE k \in tooptr..(toiptr + n - 1)
    <3>1. CASE k < toiptr
      BY <3>1, <1>2, <1>4 DEF IInv, UpStream, Offsets, Pointers
    <3>2. CASE k >= toiptr
      BY <3>2, <1>2, <1>4 DEF IInv, UpStream, Pointers
    <3> QED BY <3>1, <3>2, <1>2
  <2> QED BY <1>1, <1>2, <2>1 DEF IInv, UpStream, ReadStdin, upVars
<1>8. DownStream' /\ EchoStream'
  BY DEF IInv, DownStream, EchoStream, ReadStdin, frVars, srvVars, upVars
<1>9. Pointers' /\ EndOfInput' /\ Interest'
  BY <1>1, <1>2, <1>5 DEF IInv, TypeOK, Pointers, EndOfInput, Interest, ReadStdin, Ended,
     frVars, srvVars, upVars, userVars
<1> QED BY <1>6, <1>7, <1>8, <1>9 DEF IInv

(* read() on the socket.                                                      *)
LEMMA ReadSockIInv == IInv /\ ReadSock => IInv'
<1> SUFFICES ASSUME IInv, ReadSock PROVE IInv'
  OBVIOUS
<1> USE SizesAssumption
<1>1. PICK n \in 1..Room(friptr) :
        /\ rcvd + n <= Len(down)
        /\ fr' = Store(fr, friptr, SubSeq(down, rcvd + 1, rcvd + n))
        /\ friptr' = friptr + n
        /\ rcvd' = rcvd + n
  BY DEF ReadSock
<1> DEFINE s == SubSeq(down, rcvd + 1, rcvd + n)
<1>2. n \in Nat /\ n > 0 /\ friptr + n <= MAX_SIZE /\ friptr \in Nat /\ rcvd \in Nat
      /\ froptr \in Nat /\ fr \in [Offsets -> Nat] /\ Len(screen) \in Nat
      /\ down \in Seq(Nat)
  BY <1>1 DEF IInv, TypeOK, Room
<1>3. s \in Seq(Nat) /\ Len(s) = n /\ \A k \in 1..n : s[k] = rcvd + k
  <2>1. \A k \in (rcvd + 1)..(rcvd + n) : k \in 1..Len(down)
    BY <1>1, <1>2
  <2>2. \A k \in (rcvd + 1)..(rcvd + n) : down[k] \in Nat /\ down[k] = k
    BY <2>1, <1>2 DEF IInv, EchoStream
  <2>3. /\ s \in Seq(Nat) /\ Len(s) = (rcvd + n) - (rcvd + 1) + 1
        /\ \A k \in 1..((rcvd + n) - (rcvd + 1) + 1) : s[k] = down[(rcvd + 1) + k - 1]
    BY <2>2, <1>2, SubSeqProperties
  <2> HIDE DEF s
  <2>4. Len(s) = n
    BY <1>2, <2>3
  <2>5. ASSUME NEW k \in 1..n PROVE s[k] = rcvd + k
    <3>1. rcvd + k \in (rcvd + 1)..(rcvd + n) /\ (rcvd + 1) + k - 1 = rcvd + k
      BY <1>2
    <3>2. k \in 1..((rcvd + n) - (rcvd + 1) + 1)
      BY <1>2
    <3> QED BY <3>1, <3>2, <2>2, <2>3
  <2> QED BY <2>3, <2>4, <2>5
<1>4. /\ fr' \in [Offsets -> Nat]
      /\ \A k \in Offsets : k < friptr => fr'[k] = fr[k]
      /\ \A k \in friptr..(friptr + n - 1) : fr'[k] = rcvd + (k - friptr + 1)
  <2>1. \A k \in friptr..(friptr + n - 1) : s[k - friptr + 1] = rcvd + (k - friptr + 1)
    <3> HIDE DEF s
    <3> TAKE k \in friptr..(friptr + n - 1)
    <3>1. k - friptr + 1 \in 1..n
      BY <1>2
    <3> QED BY <3>1, <1>3
  <2>2. fr' = Store(fr, friptr, s)
    BY <1>1
  <2> HIDE DEF s
  <2>3. n \in Nat /\ friptr + n <= MAX_SIZE
    BY <1>2
  <2>4. /\ fr' \in [Offsets -> Nat]
        /\ \A k \in Offsets : k < friptr => fr'[k] = fr[k]
        /\ \A k \in friptr..(friptr + n - 1) : fr'[k] = s[k - friptr + 1]
    <3>1. fr \in [Offsets -> Nat] /\ friptr \in Nat
      BY <1>2
    <3>2. Store(fr, friptr, s) \in [Offsets -> Nat]
      BY <3>1, <1>3, <2>3, StoreIsBuffer
    <3>3. \A k \in Offsets : k < friptr => Store(fr, friptr, s)[k] = fr[k]
      BY <3>1, <1>3, <2>3, StoreIsBuffer
    <3>4. \A k \in friptr..(friptr + n - 1) :
            Store(fr, friptr, s)[k] = s[k - friptr + 1]
      BY <3>1, <1>3, <2>3, StoreIsBuffer
    <3> QED BY <3>2, <3>3, <3>4, <2>2
  <2> QED BY <1>3, <2>1, <2>4
<1>5. TypeOK'
  BY <1>1, <1>2, <1>4, SMTT(30) DEF IInv, TypeOK, ReadSock, toVars, userVars, upVars, srvVars
<1>6. DownStream'
  <2>1. \A k \in froptr..(friptr + n - 1) : fr'[k] = Len(screen) + 1 + (k - froptr)
    <3> TAKE k \in froptr..(friptr + n - 1)
    <3>1. CASE k < friptr
      <4>1. k \in froptr..(friptr - 1) /\ k \in Offsets
        BY <3>1, <1>2 DEF Offsets
      <4> QED BY <4>1, <3>1, <1>4 DEF IInv, DownStream
    <3>2. CASE k >= friptr
      BY <3>2, <1>2, <1>4 DEF IInv, DownStream, Pointers
    <3> QED BY <3>1, <3>2, <1>2
  <2>2. rcvd' = Len(screen') + (friptr' - froptr')
    BY <1>1, <1>2 DEF IInv, DownStream, ReadSock
  <2>3. screen' = screen /\ froptr' = froptr /\ friptr' = friptr + n
    BY <1>1 DEF ReadSock
  <2>4. \A k \in 1..Len(screen) : screen[k] = k
    BY DEF IInv, DownStream
  <2>5. \A k \in froptr'..(friptr' - 1) : fr'[k] = Len(screen') + 1 + (k - froptr')
    BY <2>1, <2>3, <1>2, SMTT(30)
  <2>6. \A k \in 1..Len(screen') : screen'[k] = k
    BY <2>3, <2>4
  <2> QED BY <2>2, <2>5, <2>6 DEF DownStream
<1>7. UpStream'
  BY DEF IInv, UpStream, ReadSock, toVars, upVars
<1>8. EchoStream'
  BY <1>1 DEF IInv, EchoStream, ReadSock, srvVars, upVars
<1>9. Pointers' /\ EndOfInput' /\ Interest'
  BY <1>1, <1>2 DEF IInv, TypeOK, Pointers, EndOfInput, Interest, ReadSock, Ended,
     toVars, srvVars, upVars, userVars
<1> QED BY <1>5, <1>6, <1>7, <1>8, <1>9 DEF IInv

(* The write to the socket: what it appends, and the pointers after it.       *)
LEMMA WriteSockIInv == IInv /\ WriteSock => IInv'
<1> SUFFICES ASSUME IInv, WriteSock PROVE IInv'
  OBVIOUS
<1> USE SizesAssumption
<1>1. PICK n \in 1..(toiptr - tooptr) :
        /\ wire' = wire \o Segment(to, tooptr, n)
        /\ tooptr' = OutPtr(tooptr, toiptr, n)
        /\ toiptr' = InPtr(tooptr, toiptr, n)
        /\ finSent' = (finSent \/ FinAtDrain(n))
  BY DEF WriteSock
<1> DEFINE s == Segment(to, tooptr, n)
<1>2. n \in Nat /\ n > 0 /\ tooptr + n <= toiptr /\ toiptr \in 0..MAX_SIZE /\ tooptr \in Nat
      /\ consumed \in Nat /\ to \in [Offsets -> Nat] /\ wire \in Seq(Nat)
  BY <1>1 DEF IInv, TypeOK
<1>3. s \in Seq(Nat) /\ Len(s) = n /\ \A k \in 1..n : s[k] = to[tooptr + k - 1]
  BY <1>2, SegmentIsSeq
<1>4. /\ wire' \in Seq(Nat)
      /\ Len(wire') = Len(wire) + n
      /\ \A k \in 1..(Len(wire) + n) : wire'[k] = k
  <2> HIDE DEF s
  <2>1. /\ wire' = wire \o s
    BY <1>1 DEF s
  <2>2. \A k \in 1..n : s[k] = Len(wire) + k
    <3> TAKE k \in 1..n
    <3>1. tooptr + k - 1 \in tooptr..(toiptr - 1)
      BY <1>2
    <3>2. to[tooptr + k - 1] = Len(wire) + 1 + ((tooptr + k - 1) - tooptr)
      BY <3>1 DEF IInv, UpStream
    <3> QED BY <3>2, <1>2, <1>3
  <2>3. /\ wire' \in Seq(Nat) /\ Len(wire') = Len(wire) + Len(s)
        /\ \A k \in 1..(Len(wire) + Len(s)) :
             wire'[k] = IF k <= Len(wire) THEN wire[k] ELSE s[k - Len(wire)]
    BY <2>1, <1>2, <1>3, ConcatProperties
  <2>4. ASSUME NEW k \in 1..(Len(wire) + n) PROVE wire'[k] = k
    <3>1. CASE k <= Len(wire)
      <4>1. k \in 1..Len(wire) /\ k \in 1..(Len(wire) + Len(s))
        BY <3>1, <1>2, <1>3
      <4> QED BY <4>1, <3>1, <2>3 DEF IInv, UpStream
    <3>2. CASE k > Len(wire)
      <4>1. k - Len(wire) \in 1..n
        BY <3>2, <1>2
      <4> QED BY <4>1, <3>2, <1>2, <1>3, <2>2, <2>3
    <3> QED BY <3>1, <3>2, <1>2
  <2> QED BY <1>3, <2>3, <2>4
<1>5. \/ tooptr + n = toiptr /\ tooptr' = 0 /\ toiptr' = 0
      \/ tooptr + n < toiptr /\ tooptr' = tooptr + n /\ toiptr' = toiptr
  BY <1>1, <1>2 DEF OutPtr, InPtr
<1>6. TypeOK'
  <2>1. tooptr' \in 0..MAX_SIZE /\ toiptr' \in 0..MAX_SIZE
    BY <1>2, <1>5
  <2>2. finSent' \in BOOLEAN
    BY <1>1 DEF IInv, TypeOK, FinAtDrain
  <2> QED BY <1>4, <2>1, <2>2 DEF IInv, TypeOK, WriteSock, cliVars, frVars, userVars, srvVars
<1>7. UpStream'
  <2>1. CASE tooptr + n = toiptr /\ tooptr' = 0 /\ toiptr' = 0
    <3>1. consumed' = Len(wire') + (toiptr' - tooptr')
      <4>1. consumed = Len(wire) + (toiptr - tooptr) /\ consumed' = consumed
        BY DEF IInv, UpStream, WriteSock
      <4> QED BY <4>1, <2>1, <1>2, <1>4, SMTT(30)
    <3> QED BY <3>1, <2>1, <1>4 DEF UpStream
  <2>2. CASE tooptr + n < toiptr /\ tooptr' = tooptr + n /\ toiptr' = toiptr
    <3>1. consumed' = Len(wire') + (toiptr' - tooptr')
      <4>1. consumed = Len(wire) + (toiptr - tooptr) /\ consumed' = consumed
        BY DEF IInv, UpStream, WriteSock
      <4> QED BY <4>1, <2>2, <1>2, <1>4
    <3>2. ASSUME NEW k \in tooptr'..(toiptr' - 1)
          PROVE  to'[k] = Len(wire') + 1 + (k - tooptr')
      <4>1. k \in tooptr..(toiptr - 1) /\ to' = to
        BY <2>2, <1>2 DEF WriteSock
      <4>2. to[k] = Len(wire) + 1 + (k - tooptr)
        BY <4>1 DEF IInv, UpStream
      <4> QED BY <4>1, <4>2, <2>2, <1>2, <1>4
    <3> QED BY <3>1, <3>2, <1>4 DEF UpStream
  <2> QED BY <1>5, <2>1, <2>2
<1>8. DownStream'
  BY DEF IInv, DownStream, WriteSock, frVars
<1>9. EchoStream'
  BY <1>2, <1>4 DEF IInv, TypeOK, EchoStream, WriteSock, srvVars, frVars
<1>10. Pointers' /\ EndOfInput' /\ Interest'
  BY <1>1, <1>2, <1>5 DEF IInv, TypeOK, Pointers, EndOfInput, Interest, WriteSock, Ended,
     frVars, srvVars, cliVars, userVars, FinAtDrain
<1> QED BY <1>6, <1>7, <1>8, <1>9, <1>10 DEF IInv
(* The write to standard output, in the same way.                             *)
LEMMA WriteStdoutIInv == IInv /\ WriteStdout => IInv'
<1> SUFFICES ASSUME IInv, WriteStdout PROVE IInv'
  OBVIOUS
<1> USE SizesAssumption
<1>1. PICK n \in 1..(friptr - froptr) :
        /\ screen' = screen \o Segment(fr, froptr, n)
        /\ froptr' = OutPtr(froptr, friptr, n)
        /\ friptr' = InPtr(froptr, friptr, n)
  BY DEF WriteStdout
<1> DEFINE s == Segment(fr, froptr, n)
<1>2. n \in Nat /\ n > 0 /\ froptr + n <= friptr /\ friptr \in 0..MAX_SIZE /\ froptr \in Nat
      /\ rcvd \in Nat /\ fr \in [Offsets -> Nat] /\ screen \in Seq(Nat)
  BY <1>1 DEF IInv, TypeOK
<1>3. s \in Seq(Nat) /\ Len(s) = n /\ \A k \in 1..n : s[k] = fr[froptr + k - 1]
  BY <1>2, SegmentIsSeq
<1>4. /\ screen' \in Seq(Nat)
      /\ Len(screen') = Len(screen) + n
      /\ \A k \in 1..(Len(screen) + n) : screen'[k] = k
  <2> HIDE DEF s
  <2>1. /\ screen' = screen \o s
    BY <1>1 DEF s
  <2>2. \A k \in 1..n : s[k] = Len(screen) + k
    <3> TAKE k \in 1..n
    <3>1. froptr + k - 1 \in froptr..(friptr - 1)
      BY <1>2
    <3>2. fr[froptr + k - 1] = Len(screen) + 1 + ((froptr + k - 1) - froptr)
      BY <3>1 DEF IInv, DownStream
    <3> QED BY <3>2, <1>2, <1>3
  <2>3. /\ screen' \in Seq(Nat) /\ Len(screen') = Len(screen) + Len(s)
        /\ \A k \in 1..(Len(screen) + Len(s)) :
             screen'[k] = IF k <= Len(screen) THEN screen[k] ELSE s[k - Len(screen)]
    BY <2>1, <1>2, <1>3, ConcatProperties
  <2>4. ASSUME NEW k \in 1..(Len(screen) + n) PROVE screen'[k] = k
    <3>1. CASE k <= Len(screen)
      <4>1. k \in 1..Len(screen) /\ k \in 1..(Len(screen) + Len(s))
        BY <3>1, <1>2, <1>3
      <4> QED BY <4>1, <3>1, <2>3 DEF IInv, DownStream
    <3>2. CASE k > Len(screen)
      <4>1. k - Len(screen) \in 1..n
        BY <3>2, <1>2
      <4> QED BY <4>1, <3>2, <1>2, <1>3, <2>2, <2>3
    <3> QED BY <3>1, <3>2, <1>2
  <2> QED BY <1>3, <2>3, <2>4
<1>5. \/ froptr + n = friptr /\ froptr' = 0 /\ friptr' = 0
      \/ froptr + n < friptr /\ froptr' = froptr + n /\ friptr' = friptr
  BY <1>1, <1>2 DEF OutPtr, InPtr
<1>6. TypeOK'
  <2>1. froptr' \in 0..MAX_SIZE /\ friptr' \in 0..MAX_SIZE
    BY <1>2, <1>5
  <2> QED BY <1>4, <2>1 DEF IInv, TypeOK, WriteStdout, cliVars, toVars, upVars, userVars, srvVars
<1>7. DownStream'
  <2>1. CASE froptr + n = friptr /\ froptr' = 0 /\ friptr' = 0
    <3>1. rcvd' = Len(screen') + (friptr' - froptr')
      <4>1. rcvd = Len(screen) + (friptr - froptr) /\ rcvd' = rcvd
        BY DEF IInv, DownStream, WriteStdout
      <4> QED BY <4>1, <2>1, <1>2, <1>4, SMTT(30)
    <3> QED BY <3>1, <2>1, <1>4 DEF DownStream
  <2>2. CASE froptr + n < friptr /\ froptr' = froptr + n /\ friptr' = friptr
    <3>1. rcvd' = Len(screen') + (friptr' - froptr')
      <4>1. rcvd = Len(screen) + (friptr - froptr) /\ rcvd' = rcvd
        BY DEF IInv, DownStream, WriteStdout
      <4> QED BY <4>1, <2>2, <1>2, <1>4
    <3>2. ASSUME NEW k \in froptr'..(friptr' - 1)
          PROVE  fr'[k] = Len(screen') + 1 + (k - froptr')
      <4>1. k \in froptr..(friptr - 1) /\ fr' = fr
        BY <2>2, <1>2 DEF WriteStdout
      <4>2. fr[k] = Len(screen) + 1 + (k - froptr)
        BY <4>1 DEF IInv, DownStream
      <4> QED BY <4>1, <4>2, <2>2, <1>2, <1>4
    <3> QED BY <3>1, <3>2, <1>4 DEF DownStream
  <2> QED BY <1>5, <2>1, <2>2
<1>8. UpStream'
  BY DEF IInv, UpStream, WriteStdout, toVars, upVars
<1>9. EchoStream'
  BY <1>2, <1>4 DEF IInv, TypeOK, EchoStream, WriteStdout, srvVars, upVars
<1>10. Pointers' /\ EndOfInput' /\ Interest'
  BY <1>1, <1>2, <1>5 DEF IInv, TypeOK, Pointers, EndOfInput, Interest, WriteStdout, Ended,
     toVars, srvVars, cliVars, upVars, userVars
<1> QED BY <1>6, <1>7, <1>8, <1>9, <1>10 DEF IInv

(* str_echo's read: a chunk of the stream moves into its buffer.              *)
LEMMA SrvReadIInv == IInv /\ SrvRead => IInv'
<1> SUFFICES ASSUME IInv, SrvRead PROVE IInv'
  OBVIOUS
<1> USE SizesAssumption
<1>1. PICK n \in 1..BufLen :
        /\ sgot + n <= Len(wire)
        /\ sbuf' = SubSeq(wire, sgot + 1, sgot + n)
        /\ sgot' = sgot + n
  BY DEF SrvRead
<1>2. n \in Nat /\ n > 0 /\ sgot \in Nat /\ wire \in Seq(Nat) /\ Len(wire) \in Nat
      /\ sbuf = <<>> /\ sgot = Len(down) /\ Len(down) \in Nat
  BY <1>1 DEF IInv, TypeOK, EchoStream, SrvRead
<1>3. sbuf' \in Seq(Nat) /\ Len(sbuf') = n /\ \A k \in 1..n : sbuf'[k] = sgot + k
  <2>1. \A k \in (sgot + 1)..(sgot + n) : k \in 1..Len(wire)
    BY <1>1, <1>2
  <2>2. \A k \in (sgot + 1)..(sgot + n) : wire[k] \in Nat /\ wire[k] = k
    BY <2>1, <1>2 DEF IInv, UpStream
  <2>3. /\ sbuf' \in Seq(Nat) /\ Len(sbuf') = (sgot + n) - (sgot + 1) + 1
        /\ \A k \in 1..((sgot + n) - (sgot + 1) + 1) : sbuf'[k] = wire[(sgot + 1) + k - 1]
    <3>1. \A k \in (sgot + 1)..(sgot + n) : wire[k] \in Nat
      BY <2>2
    <3> QED BY <3>1, <1>1, <1>2, SubSeqProperties
  <2>4. Len(sbuf') = n
    BY <1>2, <2>3
  <2>5. ASSUME NEW k \in 1..n PROVE sbuf'[k] = sgot + k
    <3>1. sgot + k \in (sgot + 1)..(sgot + n) /\ (sgot + 1) + k - 1 = sgot + k
      BY <1>2
    <3>2. k \in 1..((sgot + n) - (sgot + 1) + 1)
      BY <1>2
    <3> QED BY <3>1, <3>2, <2>2, <2>3
  <2> QED BY <2>3, <2>4, <2>5
<1>4. TypeOK'
  BY <1>1, <1>2, <1>3 DEF IInv, TypeOK, SrvRead, cliVars, toVars, frVars, userVars, upVars
<1>5. UpStream' /\ DownStream'
  BY DEF IInv, UpStream, DownStream, SrvRead, toVars, frVars, upVars
<1>6. EchoStream'
  <2>1. down' = down /\ rcvd' = rcvd /\ wire' = wire /\ spc' = "write"
    BY DEF SrvRead, upVars, frVars
  <2>2. sgot' = Len(down) + Len(sbuf') /\ sgot' <= Len(wire)
    BY <1>1, <1>2, <1>3
  <2>3. \A k \in 1..Len(sbuf') : sbuf'[k] = Len(down) + k
    BY <1>2, <1>3
  <2> QED BY <2>1, <2>2, <2>3 DEF IInv, EchoStream
<1>7. Pointers' /\ EndOfInput' /\ Interest'
  BY DEF IInv, Pointers, EndOfInput, Interest, SrvRead, cliVars, toVars, frVars, userVars, upVars
<1> QED BY <1>4, <1>5, <1>6, <1>7 DEF IInv

(* str_echo's write: the head of its buffer joins what it has written.        *)
LEMMA SrvWriteIInv == IInv /\ SrvWrite => IInv'
<1> SUFFICES ASSUME IInv, SrvWrite PROVE IInv'
  OBVIOUS
<1>1. PICK n \in 1..Len(sbuf) :
        /\ down' = down \o SubSeq(sbuf, 1, n)
        /\ sbuf' = SubSeq(sbuf, n + 1, Len(sbuf))
        /\ spc' = IF n = Len(sbuf) THEN "read" ELSE "write"
  BY DEF SrvWrite
<1> DEFINE head == SubSeq(sbuf, 1, n)
<1>2. /\ n \in Nat /\ n > 0 /\ n <= Len(sbuf) /\ Len(sbuf) \in Nat /\ Len(down) \in Nat
      /\ sbuf \in Seq(Nat) /\ down \in Seq(Nat)
      /\ \A k \in 1..Len(sbuf) : sbuf[k] \in Nat /\ sbuf[k] = Len(down) + k
  <2>1. sbuf \in Seq(Nat) /\ down \in Seq(Nat)
    BY DEF IInv, TypeOK
  <2>2. \A k \in 1..Len(sbuf) : sbuf[k] = Len(down) + k
    BY DEF IInv, EchoStream
  <2>3. \A k \in 1..Len(sbuf) : sbuf[k] \in Nat
    BY <2>1
  <2> QED BY <1>1, <2>1, <2>2, <2>3
<1>3. head \in Seq(Nat) /\ Len(head) = n /\ \A k \in 1..n : head[k] = Len(down) + k
  <2>1. \A k \in 1..n : sbuf[k] \in Nat
    BY <1>2
  <2>2. /\ head \in Seq(Nat) /\ Len(head) = n - 1 + 1
        /\ \A k \in 1..(n - 1 + 1) : head[k] = sbuf[1 + k - 1]
    BY <2>1, <1>2, SubSeqProperties
  <2>3. ASSUME NEW k \in 1..n PROVE head[k] = Len(down) + k
    <3>1. k \in 1..(n - 1 + 1) /\ 1 + k - 1 = k /\ k \in 1..Len(sbuf)
      BY <1>2
    <3>2. head[k] = sbuf[k]
      <4> HIDE DEF head
      <4> QED BY <3>1, <2>2
    <3> QED BY <3>1, <3>2, <1>2
  <2> HIDE DEF head
  <2> QED BY <1>2, <2>2, <2>3
<1>4. /\ sbuf' \in Seq(Nat) /\ Len(sbuf') = Len(sbuf) - n
      /\ \A k \in 1..(Len(sbuf) - n) : sbuf'[k] = Len(down) + n + k
  <2>1. \A k \in (n + 1)..Len(sbuf) : sbuf[k] \in Nat
    BY <1>2
  <2>2. /\ sbuf' \in Seq(Nat)
        /\ Len(sbuf') = IF n + 1 <= Len(sbuf) THEN Len(sbuf) - (n + 1) + 1 ELSE 0
        /\ \A k \in 1..(Len(sbuf) - (n + 1) + 1) : sbuf'[k] = sbuf[(n + 1) + k - 1]
    BY <2>1, <1>1, <1>2, SubSeqProperties
  <2>3. ASSUME NEW k \in 1..(Len(sbuf) - n) PROVE sbuf'[k] = Len(down) + n + k
    <3>1. k \in 1..(Len(sbuf) - (n + 1) + 1) /\ n + k \in 1..Len(sbuf)
          /\ (n + 1) + k - 1 = n + k
      BY <1>2
    <3>2. sbuf'[k] = sbuf[n + k]
      BY <3>1, <2>2
    <3>3. sbuf[n + k] = Len(down) + (n + k)
      BY <3>1, <1>2
    <3> QED BY <3>2, <3>3, <1>2
  <2>4. Len(sbuf') = Len(sbuf) - n
    BY <2>2, <1>2
  <2> QED BY <2>2, <2>3, <2>4
<1>5. /\ down' \in Seq(Nat) /\ Len(down') = Len(down) + n
      /\ \A k \in 1..(Len(down) + n) : down'[k] = k
  <2>1. down' = down \o head
    BY <1>1
  <2> HIDE DEF head
  <2>2. /\ down' \in Seq(Nat) /\ Len(down') = Len(down) + Len(head)
        /\ \A k \in 1..(Len(down) + Len(head)) :
             down'[k] = IF k <= Len(down) THEN down[k] ELSE head[k - Len(down)]
    BY <2>1, <1>2, <1>3, ConcatProperties
  <2>3. ASSUME NEW k \in 1..(Len(down) + n) PROVE down'[k] = k
    <3>1. CASE k <= Len(down)
      <4>1. k \in 1..Len(down) /\ k \in 1..(Len(down) + Len(head))
        BY <3>1, <1>2, <1>3
      <4> QED BY <4>1, <3>1, <2>2 DEF IInv, EchoStream
    <3>2. CASE k > Len(down)
      <4>1. k - Len(down) \in 1..n
        BY <3>2, <1>2
      <4> QED BY <4>1, <3>2, <1>2, <1>3, <2>2
    <3> QED BY <3>1, <3>2, <1>2
  <2> QED BY <1>3, <2>2, <2>3
<1>6. TypeOK'
  BY <1>1, <1>4, <1>5 DEF IInv, TypeOK, SrvWrite, cliVars, toVars, frVars, userVars, upVars
<1>7. UpStream' /\ DownStream'
  BY DEF IInv, UpStream, DownStream, SrvWrite, toVars, frVars, upVars
<1>8. EchoStream'
  <2>1. sgot' = sgot /\ rcvd' = rcvd /\ wire' = wire
    BY DEF SrvWrite, upVars, frVars
  <2>2. sgot' = Len(down') + Len(sbuf') /\ sgot' <= Len(wire') /\ rcvd' <= Len(down')
    <3>1. sgot = Len(down) + Len(sbuf) /\ sgot <= Len(wire) /\ rcvd <= Len(down)
          /\ rcvd \in Nat
      BY DEF IInv, TypeOK, EchoStream
    <3> QED BY <2>1, <3>1, <1>2, <1>4, <1>5
  <2>3. \A k \in 1..Len(sbuf') : sbuf'[k] = Len(down') + k
    BY <1>2, <1>4, <1>5
  <2>4. \A k \in 1..Len(down') : down'[k] = k
    BY <1>5
  <2>5. spc' = "read" => sbuf' = <<>>
    <3>1. n = Len(sbuf) => Len(sbuf') = 0
      BY <1>4, <1>2
    <3> QED BY <3>1, <1>1, <1>4, EmptySeq
  <2> QED BY <2>2, <2>3, <2>4, <2>5 DEF EchoStream
<1>9. Pointers' /\ EndOfInput' /\ Interest'
  BY <1>1 DEF IInv, Pointers, EndOfInput, Interest, SrvWrite, cliVars, toVars, frVars,
     userVars, upVars
<1> QED BY <1>6, <1>7, <1>8, <1>9 DEF IInv

(* The steps that move no byte: none of them touches a buffer or a stream.    *)
MovesNoByte == UNCHANGED <<to, tooptr, toiptr, fr, froptr, friptr, consumed, rcvd,
                           wire, down, sgot, sbuf, screen>>

LEMMA ControlData ==
  IInv /\ MovesNoByte /\ (spc' = "read" => spc = "read")
    => Pointers' /\ UpStream' /\ DownStream' /\ EchoStream'
<1> SUFFICES ASSUME IInv, MovesNoByte, spc' = "read" => spc = "read"
             PROVE  Pointers' /\ UpStream' /\ DownStream' /\ EchoStream'
  OBVIOUS
<1>1. Pointers' BY DEF IInv, MovesNoByte, Pointers
<1>2. UpStream' BY DEF IInv, MovesNoByte, UpStream
<1>3. DownStream' BY DEF IInv, MovesNoByte, DownStream
<1>4. EchoStream' BY DEF IInv, MovesNoByte, EchoStream
<1> QED BY <1>1, <1>2, <1>3, <1>4

Control == \/ Select \/ PassBy \/ WouldBlock \/ Fail \/ StdinEof \/ SockEof
           \/ SrvEof \/ SrvPeerGone \/ Type \/ TypeEof \/ Show
           \/ KillServer \/ Reset \/ UNCHANGED vars

LEMMA ControlIInv == IInv /\ Control => IInv'
<1> SUFFICES ASSUME IInv, Control PROVE IInv'
  OBVIOUS
<1> USE SizesAssumption DEF Ended, After, cliVars, toVars, frVars, userVars, upVars, srvVars
<1>1. MovesNoByte /\ (spc' = "read" => spc = "read")
  BY DEF MovesNoByte, Control, Select, PassBy, WouldBlock, Fail, StdinEof, SockEof, SrvEof,
     SrvPeerGone, Type, TypeEof, Show, KillServer, Reset, vars
<1>2. Pointers' /\ UpStream' /\ DownStream' /\ EchoStream'
  BY <1>1, ControlData
<1>3. TypeOK' /\ EndOfInput' /\ Interest'
  <2> USE DEF IInv, TypeOK, EndOfInput, Interest
  <2>1. CASE Select
    BY <2>1 DEF Select, ReadInterest, ReadReady, WriteInterest, WriteReady
  <2>2. CASE PassBy
    BY <2>2 DEF PassBy
  <2>3. CASE WouldBlock
    BY <2>3 DEF WouldBlock, Taken
  <2>4. CASE Fail
    BY <2>4 DEF Fail
  <2>5. CASE StdinEof
    BY <2>5 DEF StdinEof, StdinAtEnd, FinAtEof, Room
  <2>6. CASE SockEof
    BY <2>6 DEF SockEof, SockAtEnd, Room
  <2>7. CASE SrvEof
    BY <2>7 DEF SrvEof
  <2>8. CASE SrvPeerGone
    BY <2>8 DEF SrvPeerGone
  <2>9. CASE Type
    BY <2>9 DEF Type
  <2>10. CASE TypeEof
    BY <2>10 DEF TypeEof
  <2>11. CASE Show
    BY <2>11 DEF Show
  <2>12. CASE KillServer
    BY <2>12 DEF KillServer
  <2>13. CASE Reset
    BY <2>13 DEF Reset
  <2>14. CASE UNCHANGED vars
    BY <2>14 DEF vars
  <2> QED BY <2>1, <2>2, <2>3, <2>4, <2>5, <2>6, <2>7, <2>8, <2>9, <2>10, <2>11, <2>12,
             <2>13, <2>14 DEF Control
<1> QED BY <1>2, <1>3 DEF IInv

-----------------------------------------------------------------------------
(* The invariant holds in every state, for all sizes of the buffers, of the   *)
(* kernel's queues and of the input, with or without faults.                  *)
THEOREM Invariance == Spec => []IInv
<1>1. Init => IInv
  BY InitIInv
<1>2. IInv /\ [Next]_vars => IInv'
  <2>1. [Next]_vars => \/ Control \/ ReadStdin \/ ReadSock \/ WriteStdout \/ WriteSock
                       \/ SrvRead \/ SrvWrite
    BY DEF Next, Client, Server, Control, Over
  <2> QED BY <2>1, ReadStdinIInv, ReadSockIInv, WriteStdoutIInv, WriteSockIInv, SrvReadIInv,
             SrvWriteIInv, ControlIInv
<1> QED BY <1>1, <1>2, PTL DEF Spec

(* Every variable keeps its type; in particular the pointers of str_cli stay  *)
(* inside to[] and fr[].                                                      *)
THEOREM TypeCorrect == Spec => []TypeOK
<1>1. IInv => TypeOK
  BY DEF IInv
<1> QED BY <1>1, Invariance, PTL

(* Both directions of str_cli deliver without loss, duplication or reordering. *)
THEOREM StreamsIntact == Spec => []InOrder
<1>1. IInv => InOrder
  BY DEF IInv, InOrder
<1> QED BY <1>1, Invariance, PTL

(* The counts alone, without the bytes.                                       *)
LEMMA UpCounts ==
  ASSUME IInv
  PROVE  /\ consumed = Len(wire) + (toiptr - tooptr)
         /\ Len(wire) \in Nat /\ consumed \in Nat /\ typed \in Nat
         /\ toiptr \in 0..MAX_SIZE /\ tooptr \in 0..MAX_SIZE /\ tooptr <= toiptr
<1>1. wire \in Seq(Nat)
  BY DEF IInv, TypeOK
<1>2. consumed \in Nat /\ typed \in 0..StdinLen
      /\ toiptr \in 0..MAX_SIZE /\ tooptr \in 0..MAX_SIZE
  BY DEF IInv, TypeOK
<1> QED BY <1>1, <1>2, SizesAssumption DEF IInv, UpStream, Pointers

(* The FIN is the last thing str_cli puts on the connection, and the end of   *)
(* input it acts on is the real one.                                          *)
THEOREM EndOfInputCorrect == Spec => []FinAfterLastByte
<1>1. IInv => FinAfterLastByte
  BY UpCounts DEF IInv, EndOfInput, FinAfterLastByte
<1> QED BY <1>1, Invariance, PTL

(* str_cli blames the server only for a close that came before the FIN.       *)
THEOREM AlarmsCorrect == Spec => []NoFalseAlarm
<1>1. IInv => NoFalseAlarm
  BY DEF IInv, EndOfInput, NoFalseAlarm
<1> QED BY <1>1, Invariance, PTL

(* What the write to the socket adds to the wire is the next bytes of input.  *)
LEMMA WireExtends ==
  ASSUME IInv, IInv', WriteSock
  PROVE  \E n \in 1..MAX_SIZE :
           /\ wire' = [k \in 1..(Len(wire) + n) |-> k]
           /\ Len(wire) + n <= consumed
           /\ tooptr # toiptr
           /\ finSent' = (finSent \/ (stdineof /\ Len(wire) + n = consumed))
<1> USE SizesAssumption
<1>1. PICK n \in 1..(toiptr - tooptr) :
        /\ wire' = wire \o Segment(to, tooptr, n)
        /\ finSent' = (finSent \/ FinAtDrain(n))
  BY DEF WriteSock
<1>2. /\ n \in Nat /\ n > 0 /\ tooptr + n <= toiptr /\ toiptr \in 0..MAX_SIZE
      /\ tooptr \in Nat /\ to \in [Offsets -> Nat] /\ wire \in Seq(Nat) /\ Len(wire) \in Nat
      /\ wire' \in Seq(Nat) /\ consumed = Len(wire) + (toiptr - tooptr)
  <2>1. to \in [Offsets -> Nat] /\ wire \in Seq(Nat) /\ wire' \in Seq(Nat)
    BY DEF IInv, TypeOK
  <2> QED BY <1>1, <2>1, UpCounts
<1>3. Len(wire') = Len(wire) + n
  <2>1. Segment(to, tooptr, n) \in Seq(Nat) /\ Len(Segment(to, tooptr, n)) = n
    BY <1>2, SegmentIsSeq
  <2> QED BY <2>1, <1>1, <1>2, ConcatProperties
<1>4. wire' = [k \in 1..(Len(wire) + n) |-> k]
  <2>1. wire' \in [1..(Len(wire) + n) -> Nat]
    BY <1>2, <1>3, LenProperties
  <2>2. \A k \in 1..(Len(wire) + n) : wire'[k] = k
    BY <1>3 DEF IInv, UpStream
  <2> QED BY <2>1, <2>2
<1>5. finSent' = (finSent \/ (stdineof /\ Len(wire) + n = consumed))
  <2>1. tooptr + n = toiptr <=> Len(wire) + n = consumed
    BY <1>1, UpCounts
  <2> QED BY <2>1, <1>1, Zenon DEF FinAtDrain
<1>6. n \in 1..MAX_SIZE /\ Len(wire) + n <= consumed /\ tooptr # toiptr
  BY <1>1, UpCounts
<1> QED BY <1>4, <1>5, <1>6

(* The copy from standard input to the socket implements a bounded FIFO pipe  *)
(* that is closed only after the last byte.                                   *)
THEOREM UpPipeRefinement == Spec => UpPipeSpec
<1> USE SizesAssumption
<1>1. Init => UpPipe!PipeInit
  BY DEF Init, UpPipe!PipeInit
<1>2. IInv /\ IInv' /\ [Next]_vars => [UpPipe!PipeNext]_UpPipe!pipeVars
  <2> SUFFICES ASSUME IInv, IInv', [Next]_vars
               PROVE  UpPipe!PipeNext \/ UNCHANGED UpPipe!pipeVars
    OBVIOUS
  <2> USE DEF UpPipe!pipeVars, cliVars, toVars, frVars, userVars, upVars, srvVars
  <2>1. CASE ReadStdin
    <3>1. PICK n \in 1..Room(toiptr) : consumed' = consumed + n
      BY <2>1 DEF ReadStdin
    <3>2. n \in 1..MAX_SIZE /\ consumed + n <= Len(wire) + MAX_SIZE
      BY <3>1, UpCounts DEF Room
    <3>3. ~stdineof
      BY <2>1 DEF IInv, Interest, ReadStdin
    <3>4. UpPipe!Take(n)
      BY <2>1, <3>1, <3>2, <3>3 DEF ReadStdin, UpPipe!Take
    <3> QED BY <3>2, <3>4 DEF UpPipe!PipeNext
  <2>2. CASE StdinEof
    <3>1. ~stdineof /\ ~finSent
      BY <2>2 DEF IInv, Interest, EndOfInput, StdinEof
    <3>2. tooptr = toiptr <=> Len(wire) = consumed
      BY UpCounts
    <3>3. stdineof' = TRUE /\ consumed' = consumed /\ wire' = wire
          /\ finSent' = (tooptr = toiptr)
      BY <2>2, <3>1 DEF StdinEof, FinAtEof, IInv, TypeOK
    <3> QED BY <3>1, <3>2, <3>3 DEF UpPipe!PipeNext, UpPipe!SourceEnds
  <2>3. CASE WriteSock
    <3>1. PICK n \in 1..MAX_SIZE :
           /\ wire' = [k \in 1..(Len(wire) + n) |-> k]
           /\ Len(wire) + n <= consumed
           /\ tooptr # toiptr
           /\ finSent' = (finSent \/ (stdineof /\ Len(wire) + n = consumed))
      BY <2>3, WireExtends
    <3>2. ~finSent
      BY <3>1 DEF IInv, EndOfInput
    <3>3. finSent' \in IF stdineof /\ Len(wire) + n = consumed THEN BOOLEAN ELSE {FALSE}
      BY <3>1, <3>2 DEF IInv, TypeOK
    <3>4. UpPipe!Give(n)
      BY <2>3, <3>1, <3>2, <3>3 DEF WriteSock, UpPipe!Give
    <3> QED BY <3>4 DEF UpPipe!PipeNext
  <2>4. CASE Control /\ ~StdinEof
    BY <2>4 DEF Control, Select, PassBy, WouldBlock, Fail, SockEof, SrvEof, SrvPeerGone, Type,
       TypeEof, Show, KillServer, Reset, vars
  <2>5. CASE ReadSock \/ WriteStdout \/ SrvRead \/ SrvWrite
    BY <2>5 DEF ReadSock, WriteStdout, SrvRead, SrvWrite
  <2> QED BY <2>1, <2>2, <2>3, <2>4, <2>5 DEF Next, Client, Server, Control, Over
<1> QED BY <1>1, <1>2, Invariance, PTL DEF Spec, UpPipeSpec, UpPipe!PipeSpec
=============================================================================

--------------------------- MODULE SockEnvProofs ----------------------------
(* What the proofs about the single-process servers need of the kernel and of *)
(* the clients, for any number of connections, messages and descriptors.      *)
EXTENDS SockEnv, FiniteSetTheorems, SequenceTheorems, TLAPS

(* A set of numbers that is not empty has a least element: accept() and the   *)
(* searches of the servers' tables find what they look for.                   *)
LEMMA LowestLeast ==
  ASSUME NEW S \in SUBSET Nat, S # {}
  PROVE  Lowest(S) \in S /\ \A y \in S : Lowest(S) <= y
<1> DEFINE R == {ss \in Nat \X Nat : ss[1] < ss[2]}
<1>1. IsWellFoundedOn(R, Nat)
  BY NatLessThanWellFounded, Zenon DEF OpToRel
<1>2. PICK x \in S : \A y \in S : ~(<<y, x>> \in R)
  <2> HIDE DEF R
  <2> QED
    BY <1>1, WFMin
<1>3. ASSUME NEW y \in S PROVE x <= y
  <2>1. x \in Nat /\ y \in Nat
    OBVIOUS
  <2>2. y < x => <<y, x>> \in R
    BY <2>1
  <2>3. ~(y < x)
    BY <1>2, <2>2, Zenon
  <2> QED
    BY <2>1, <2>3
<1> QED
  BY <1>3 DEF Lowest

-----------------------------------------------------------------------------
(* Kept: what a filtered list holds.  Induction on the length of the prefix   *)
(* is by the least prefix for which the claim fails.                          *)
Elems(s) == {s[k] : k \in 1..Len(s)}
Once(s) == \A j, k \in 1..Len(s) : s[j] = s[k] => j = k

KeptStep(s, Keep, f, n) ==
  f[n] = IF n = 0 THEN <<>>
         ELSE IF s[n] \in Keep THEN Append(f[n - 1], s[n]) ELSE f[n - 1]
KeptUpTo(s, Keep, m) == {f \in [0..m -> Seq(Elems(s))] : \A n \in 0..m : KeptStep(s, Keep, f, n)}

LEMMA KeptExists ==
  ASSUME NEW T, NEW s \in Seq(T), NEW Keep
  PROVE  KeptUpTo(s, Keep, Len(s)) # {}
<1> DEFINE L == Len(s)
           Bad == {m \in 0..L : KeptUpTo(s, Keep, m) = {}}
<1>0. L \in Nat
  BY LenProperties
<1> SUFFICES ASSUME Bad # {} PROVE FALSE
  BY <1>0
<1>1. PICK m \in Bad : \A y \in Bad : m <= y
  <2>1. Bad \in SUBSET Nat
    BY <1>0
  <2> HIDE DEF Bad
  <2> QED
    BY <2>1, LowestLeast
<1>2. m \in Nat /\ m <= L /\ KeptUpTo(s, Keep, m) = {}
  BY <1>0
<1>3. m # 0
  <2>1. [n \in 0..0 |-> <<>>] \in KeptUpTo(s, Keep, 0)
    <3>1. [n \in 0..0 |-> <<>>] \in [0..0 -> Seq(Elems(s))]
      BY EmptySeq
    <3>2. \A n \in 0..0 : n = 0
      OBVIOUS
    <3> QED
      BY <3>1, <3>2 DEF KeptUpTo, KeptStep
  <2> QED
    BY <1>2, <2>1
<1>4. m - 1 \in 0..L /\ m - 1 \notin Bad
  BY <1>0, <1>1, <1>2, <1>3
<1>5. PICK g : g \in KeptUpTo(s, Keep, m - 1)
  BY <1>4
<1>6. g \in [0..(m - 1) -> Seq(Elems(s))] /\ \A n \in 0..(m - 1) : KeptStep(s, Keep, g, n)
  BY <1>5 DEF KeptUpTo
<1>7. PICK last : last = IF s[m] \in Keep THEN Append(g[m - 1], s[m]) ELSE g[m - 1]
  OBVIOUS
<1>8. last \in Seq(Elems(s))
  <2>1. g[m - 1] \in Seq(Elems(s))
    BY <1>2, <1>3, <1>6
  <2>2. s[m] \in Elems(s)
    BY <1>0, <1>2, <1>3 DEF Elems
  <2> QED
    BY <1>7, <2>1, <2>2, AppendProperties
<1> DEFINE f == [n \in 0..m |-> IF n = m THEN last ELSE g[n]]
<1>9. f \in [0..m -> Seq(Elems(s))]
  BY <1>2, <1>3, <1>6, <1>8
<1>10. ASSUME NEW n \in 0..m PROVE KeptStep(s, Keep, f, n)
  <2>1. CASE n = m
    <3>1. f[n] = last /\ f[n - 1] = g[n - 1]
      BY <1>2, <1>3, <2>1
    <3> HIDE DEF f
    <3> QED
      BY <1>3, <1>7, <2>1, <3>1 DEF KeptStep
  <2>2. CASE n # m
    <3>1. n \in 0..(m - 1) /\ (n # 0 => n - 1 \in 0..(m - 1))
      BY <1>2, <2>2
    <3>2. f[n] = g[n] /\ (n # 0 => f[n - 1] = g[n - 1])
      BY <1>2, <2>2, <3>1
    <3> HIDE DEF f
    <3> QED
      BY <1>6, <3>1, <3>2 DEF KeptStep
  <2> QED
    BY <2>1, <2>2
<1>11. f \in KeptUpTo(s, Keep, m)
  <2> HIDE DEF f
  <2> QED
    BY <1>9, <1>10 DEF KeptUpTo
<1> QED
  BY <1>2, <1>11

LEMMA KeptFunction ==
  ASSUME NEW T, NEW s \in Seq(T), NEW Keep
  PROVE  \A n \in 0..Len(s) : KeptStep(s, Keep, KeptFrom(s, Keep), n)
<1> DEFINE D(f) == [n \in 0..Len(s) |->
                      IF n = 0 THEN <<>>
                      ELSE IF s[n] \in Keep THEN Append(f[n - 1], s[n]) ELSE f[n - 1]]
<1>1. PICK f : f \in KeptUpTo(s, Keep, Len(s))
  BY KeptExists
<1>2. f = D(f)
  BY <1>1 DEF KeptUpTo, KeptStep
<1>3. KeptFrom(s, Keep) = CHOOSE g : g = D(g)
  BY DEF KeptFrom
<1>4. KeptFrom(s, Keep) = D(KeptFrom(s, Keep))
  <2> HIDE DEF D
  <2> QED
    BY <1>2, <1>3
<1>5. PICK k : k = KeptFrom(s, Keep)
  OBVIOUS
<1>6. k = D(k)
  BY <1>4, <1>5
<1>7. \A n \in 0..Len(s) : KeptStep(s, Keep, k, n)
  BY <1>6 DEF KeptStep
<1> QED
  BY <1>5, <1>7

LEMMA AppendElems ==
  ASSUME NEW T, NEW s \in Seq(T), NEW x \in T
  PROVE  /\ Append(s, x) \in Seq(T) /\ Elems(Append(s, x)) = Elems(s) \cup {x}
         /\ Once(s) /\ x \notin Elems(s) => Once(Append(s, x))
<1>1. PICK t : t = Append(s, x)
  OBVIOUS
<1>2. /\ t \in Seq(T) /\ Len(s) \in Nat /\ Len(t) = Len(s) + 1 /\ t[Len(s) + 1] = x
      /\ \A k \in 1..Len(s) : t[k] = s[k]
  BY <1>1, AppendProperties, LenProperties
<1>3. \A k \in 1..Len(t) : k = Len(s) + 1 \/ k \in 1..Len(s)
  BY <1>2
<1>4. \A k \in 1..Len(s) : k \in 1..Len(t) /\ k # Len(s) + 1
  BY <1>2
<1>5. Len(s) + 1 \in 1..Len(t)
  BY <1>2
<1>6. Elems(t) = Elems(s) \cup {x}
  BY <1>2, <1>3, <1>4, <1>5 DEF Elems
<1>7. ASSUME Once(s), x \notin Elems(s) PROVE Once(t)
  BY <1>2, <1>3, <1>4, <1>7 DEF Once, Elems
<1> QED
  BY <1>1, <1>2, <1>6, <1>7

LEMMA KeptProperties ==
  ASSUME NEW T, NEW s \in Seq(T), NEW Keep
  PROVE  /\ Kept(s, Keep) \in Seq(T)
         /\ Elems(Kept(s, Keep)) = Elems(s) \cap Keep
         /\ Once(s) => Once(Kept(s, Keep))
<1>1. PICK K : K = KeptFrom(s, Keep)
  OBVIOUS
<1>2. Len(s) \in Nat /\ (\A k \in 1..Len(s) : s[k] \in T)
      /\ \A n \in 0..Len(s) : KeptStep(s, Keep, K, n)
  BY <1>1, KeptFunction, LenProperties
<1> DEFINE Prefix(n) == {s[k] : k \in 1..n}
           P(n) == /\ K[n] \in Seq(T) /\ Elems(K[n]) = Prefix(n) \cap Keep
                   /\ Once(s) => Once(K[n])
           Bad == {n \in 0..Len(s) : ~P(n)}
<1>3. Bad = {}
  <2> SUFFICES ASSUME Bad # {} PROVE FALSE
    OBVIOUS
  <2>1. PICK m \in Bad : \A y \in Bad : m <= y
    <3>1. Bad \in SUBSET Nat
      BY <1>2
    <3> HIDE DEF Bad
    <3> QED
      BY <3>1, LowestLeast
  <2>2. m \in 0..Len(s) /\ ~P(m) /\ m \in Nat
    BY <1>2
  <2>3. m # 0
    <3>1. K[0] = <<>>
      BY <1>2 DEF KeptStep
    <3>2. K[0] \in Seq(T) /\ Elems(K[0]) = {} /\ Prefix(0) = {} /\ Once(K[0])
      BY <3>1, EmptySeq DEF Elems, Once
    <3> QED
      BY <2>2, <3>2
  <2>4. m - 1 \in 0..Len(s) /\ P(m - 1)
    <3>1. m - 1 \in 0..Len(s) /\ ~(m <= m - 1)
      BY <1>2, <2>2, <2>3
    <3> QED
      BY <2>1, <3>1
  <2>5. K[m] = IF s[m] \in Keep THEN Append(K[m - 1], s[m]) ELSE K[m - 1]
    BY <1>2, <2>2, <2>3 DEF KeptStep
  <2>6. m \in 1..Len(s) /\ s[m] \in T
    BY <1>2, <2>2, <2>3
  <2>7. Prefix(m) = Prefix(m - 1) \cup {s[m]}
    <3>1. 1..m = 1..(m - 1) \cup {m}
      BY <2>2, <2>3
    <3> QED
      BY <3>1
  <2>8. Once(s) => s[m] \notin Prefix(m - 1)
    <3>1. \A k \in 1..(m - 1) : k \in 1..Len(s) /\ k # m
      BY <1>2, <2>2, <2>6
    <3> QED
      BY <2>6, <3>1 DEF Once
  <2>9. PICK q : q = K[m - 1]
    OBVIOUS
  <2>10. q \in Seq(T) /\ Elems(q) = Prefix(m - 1) \cap Keep /\ (Once(s) => Once(q))
    BY <2>4, <2>9
  <2>11. CASE s[m] \in Keep
    <3>1. K[m] = Append(q, s[m])
      BY <2>5, <2>9, <2>11
    <3>2. K[m] \in Seq(T) /\ Elems(K[m]) = Elems(q) \cup {s[m]}
          /\ (Once(q) /\ s[m] \notin Elems(q) => Once(K[m]))
      BY <2>6, <2>10, <3>1, AppendElems
    <3>3. Elems(K[m]) = Prefix(m) \cap Keep
      BY <2>7, <2>10, <2>11, <3>2
    <3>4. Once(s) => Once(K[m])
      BY <2>8, <2>10, <3>2
    <3> QED
      BY <2>2, <3>2, <3>3, <3>4
  <2>12. CASE s[m] \notin Keep
    <3>1. K[m] = q /\ Prefix(m) \cap Keep = Prefix(m - 1) \cap Keep
      BY <2>5, <2>7, <2>9, <2>12
    <3> QED
      BY <2>2, <2>10, <3>1
  <2> QED
    BY <2>11, <2>12
<1>4. P(Len(s))
  <2>1. Len(s) \in 0..Len(s)
    BY <1>2
  <2> QED
    BY <1>3, <2>1
<1>5. Prefix(Len(s)) = Elems(s)
  BY DEF Elems
<1> QED
  BY <1>1, <1>4, <1>5 DEF Kept

LEMMA TailElems ==
  ASSUME NEW T, NEW s \in Seq(T), s # <<>>
  PROVE  /\ Tail(s) \in Seq(T) /\ Len(Tail(s)) = Len(s) - 1 /\ Len(s) \in Nat \ {0}
         /\ Head(s) = s[1] /\ s[1] \in T
         /\ \A k \in 1..Len(Tail(s)) : k + 1 \in 1..Len(s) /\ k + 1 # 1 /\ Tail(s)[k] = s[k + 1]
         /\ \A k \in 1..Len(s) : k = 1 \/ (k - 1 \in 1..Len(Tail(s)) /\ Tail(s)[k - 1] = s[k])
<1>1. /\ Tail(s) \in Seq(T) /\ Len(Tail(s)) = Len(s) - 1 /\ Len(s) \in Nat \ {0}
      /\ \A k \in 1..Len(Tail(s)) : Tail(s)[k] = s[k + 1]
  BY HeadTailProperties, EmptySeq
<1>2. Head(s) = s[1] /\ s[1] \in T
  BY <1>1, ElementOfSeq
<1>3. PICK t : t = Tail(s)
  OBVIOUS
<1>4. \A k \in 1..Len(s) : k = 1 \/ (k - 1 \in 1..Len(t) /\ k = (k - 1) + 1)
  BY <1>1, <1>3
<1>5. \A k \in 1..Len(t) : k + 1 \in 1..Len(s) /\ k + 1 # 1
  BY <1>1, <1>3
<1> QED
  BY <1>1, <1>2, <1>3, <1>4, <1>5

-----------------------------------------------------------------------------
(* A connection is in one place: once in the backlog, or behind one           *)
(* descriptor; and only connections that were made are anywhere.              *)
Made == /\ \A fd \in Fds : owner[fd] # None => peer[owner[fd]] # "none"
        /\ \A k \in 1..Len(backlog) : peer[backlog[k]] # "none"
OneOwner == \A f, g \in Fds : owner[f] = owner[g] /\ owner[f] # None => f = g
QueuedOnce == \A j, k \in 1..Len(backlog) : backlog[j] = backlog[k] => j = k
NotBoth == \A fd \in Fds : \A k \in 1..Len(backlog) : owner[fd] # backlog[k]
NoMoreThanSent == \A c \in Conns : unread[c] <= sent[c]
EnvInv == EnvTypeOK /\ Made /\ OneOwner /\ QueuedOnce /\ NotBoth /\ NoMoreThanSent

LEMMA EnvStart == EnvInit => EnvInv
  BY EnvAssumption
     DEF EnvInit, EnvInv, EnvTypeOK, Made, OneOwner, QueuedOnce, NotBoth, NoMoreThanSent

LEMMA ConnectEnv == ASSUME EnvInv, NEW c \in Conns, Connect(c) PROVE EnvInv'
<1>1. /\ backlog \in Seq(Conns) /\ Len(backlog) \in Nat /\ Len(backlog') = Len(backlog) + 1
      /\ backlog' \in Seq(Conns) /\ backlog'[Len(backlog) + 1] = c
      /\ \A k \in 1..Len(backlog) : backlog'[k] = backlog[k] /\ backlog[k] \in Conns
  BY DEF EnvInv, EnvTypeOK, Connect
<1>2. peer' \in [Conns -> {"none", "up", "fin", "rst"}]
      /\ \A d \in Conns : peer'[d] = IF d = c THEN "up" ELSE peer[d]
  BY DEF EnvInv, EnvTypeOK, Connect
<1>3. \A k \in 1..Len(backlog) : backlog[k] # c
  BY DEF EnvInv, Made, Connect
<1>4. \A fd \in Fds : owner[fd] # c
  BY EnvAssumption DEF EnvInv, Made, Connect
<1>5. EnvTypeOK'
  BY <1>1, <1>2, EnvAssumption DEF EnvInv, EnvTypeOK, Connect
<1>6. Made'
  BY <1>1, <1>2 DEF EnvInv, EnvTypeOK, Made, Connect
<1>7. QueuedOnce' /\ NotBoth'
  BY <1>1, <1>3, <1>4 DEF EnvInv, QueuedOnce, NotBoth, Connect
<1> QED
  BY <1>5, <1>6, <1>7 DEF EnvInv, OneOwner, NoMoreThanSent, Connect

LEMMA SendEnv == ASSUME EnvInv, NEW c \in Conns, SendMsg(c) PROVE EnvInv'
<1>1. sent[c] + 1 \in 0..MaxMsgs /\ unread[c] + 1 \in 0..MaxMsgs
  BY EnvAssumption DEF EnvInv, EnvTypeOK, NoMoreThanSent, SendMsg
<1>2. EnvTypeOK' /\ NoMoreThanSent'
  BY <1>1, EnvAssumption DEF EnvInv, EnvTypeOK, NoMoreThanSent, SendMsg
<1> QED
  BY <1>2 DEF EnvInv, Made, OneOwner, QueuedOnce, NotBoth, SendMsg

LEMMA DepartEnv == ASSUME EnvInv, NEW c \in Conns, Leave(c) \/ ResetBy(c) PROVE EnvInv'
<1>1. UNCHANGED <<backlog, owner, unread, sent>>
      /\ (peer' = [peer EXCEPT ![c] = "fin"] \/ peer' = [peer EXCEPT ![c] = "rst"])
  BY DEF Leave, ResetBy
<1>2. peer' \in [Conns -> {"none", "up", "fin", "rst"}]
      /\ \A d \in Conns : peer[d] # "none" => peer'[d] # "none"
  BY <1>1 DEF EnvInv, EnvTypeOK
<1>3. EnvTypeOK'
  BY <1>1, <1>2 DEF EnvInv, EnvTypeOK
<1>4. Made'
  BY <1>1, <1>2 DEF EnvInv, EnvTypeOK, Made
<1> QED
  BY <1>1, <1>3, <1>4 DEF EnvInv, OneOwner, QueuedOnce, NotBoth, NoMoreThanSent

(* accept(): the head of the backlog gets a descriptor that was free.         *)
LEMMA AcceptGives ==
  ASSUME EnvInv, NEW fd \in Fds, AcceptInto(fd)
  PROVE  /\ owner[fd] = None /\ Head(backlog) \in Conns
         /\ OpenFds' = OpenFds \cup {fd}
         /\ \A f \in Fds : owner'[f] = IF f = fd THEN Head(backlog) ELSE owner[f]
<1>1. FreeFds \in SUBSET Nat /\ FreeFds # {}
  BY EnvAssumption DEF FreeFds, Fds, AcceptInto
<1>2. fd \in FreeFds
  BY <1>1, LowestLeast DEF AcceptInto
<1>3. Head(backlog) \in Conns
  BY DEF EnvInv, EnvTypeOK, AcceptInto
<1> QED
  BY <1>2, <1>3, EnvAssumption DEF FreeFds, OpenFds, EnvInv, EnvTypeOK, AcceptInto

LEMMA AcceptEnv ==
  ASSUME EnvInv, NEW fd \in Fds, AcceptInto(fd), UNCHANGED <<unread, sent, peer>>
  PROVE  EnvInv'
<1>1. /\ owner[fd] = None /\ Head(backlog) \in Conns
      /\ \A f \in Fds : owner'[f] = IF f = fd THEN Head(backlog) ELSE owner[f]
  BY AcceptGives
<1>2. /\ backlog \in Seq(Conns) /\ Len(backlog) \in Nat /\ Len(backlog) > 0
      /\ backlog' \in Seq(Conns) /\ Len(backlog') = Len(backlog) - 1
      /\ \A k \in 1..Len(backlog') : backlog'[k] = backlog[k + 1]
      /\ Head(backlog) = backlog[1]
  BY DEF EnvInv, EnvTypeOK, AcceptInto
<1>3. EnvTypeOK'
  BY <1>1, <1>2, EnvAssumption DEF EnvInv, EnvTypeOK, AcceptInto
<1>4. Made'
  BY <1>1, <1>2 DEF EnvInv, Made
<1>5. OneOwner'
  BY <1>1, <1>2 DEF EnvInv, OneOwner, NotBoth
<1>6. QueuedOnce'
  BY <1>2, SMTT(30) DEF EnvInv, QueuedOnce
<1>7. NotBoth'
  <2>1. \A k \in 1..Len(backlog') : k + 1 \in 1..Len(backlog) /\ k + 1 # 1 /\ 1 \in 1..Len(backlog)
    BY <1>2
  <2>2. \A f \in Fds : \A k \in 1..Len(backlog) : owner[f] # backlog[k]
    BY DEF EnvInv, NotBoth
  <2>3. \A k \in 1..Len(backlog) : backlog[k] = backlog[1] => k = 1
    BY <1>2 DEF EnvInv, QueuedOnce
  <2>4. ASSUME NEW f \in Fds, NEW k \in 1..Len(backlog') PROVE owner'[f] # backlog'[k]
    BY <1>1, <1>2, <2>1, <2>2, <2>3
  <2> QED
    BY <2>4 DEF NotBoth
<1> QED
  BY <1>3, <1>4, <1>5, <1>6, <1>7 DEF EnvInv, NoMoreThanSent

(* A connection taken off the backlog and closed, or lost.                    *)
LEMMA RefuseEnv ==
  ASSUME EnvInv, backlog # <<>>, backlog' = Tail(backlog), UNCHANGED <<owner, unread, sent, peer>>
  PROVE  EnvInv'
<1>1. /\ backlog \in Seq(Conns) /\ Len(backlog) \in Nat /\ Len(backlog) > 0
      /\ backlog' \in Seq(Conns) /\ Len(backlog') = Len(backlog) - 1
      /\ \A k \in 1..Len(backlog') : backlog'[k] = backlog[k + 1]
  BY DEF EnvInv, EnvTypeOK
<1>2. EnvTypeOK'
  BY <1>1, EnvAssumption DEF EnvInv, EnvTypeOK
<1>3. Made' /\ QueuedOnce' /\ NotBoth'
  BY <1>1 DEF EnvInv, Made, QueuedOnce, NotBoth
<1> QED
  BY <1>2, <1>3 DEF EnvInv, OneOwner, NoMoreThanSent

(* A read of n messages, or of none.                                          *)
LEMMA RecvEnv ==
  ASSUME EnvInv, NEW fd \in OpenFds, NEW n \in RecvResults(fd), unread' = AfterRecv(fd, n),
         UNCHANGED <<backlog, owner, sent, peer>>
  PROVE  EnvInv'
<1>1. owner[fd] \in Conns
  BY DEF OpenFds, EnvInv, EnvTypeOK
<1>2. n > 0 => n \in 1..unread[owner[fd]]
  BY DEF RecvResults
<1>3. unread' \in [Conns -> 0..MaxMsgs] /\ \A c \in Conns : unread'[c] <= unread[c]
  BY <1>1, <1>2, EnvAssumption DEF EnvInv, EnvTypeOK, AfterRecv
<1>4. EnvTypeOK' /\ NoMoreThanSent'
  BY <1>3, EnvAssumption DEF EnvInv, EnvTypeOK, NoMoreThanSent
<1> QED
  BY <1>4 DEF EnvInv, Made, OneOwner, QueuedOnce, NotBoth

LEMMA CloseEnv ==
  ASSUME EnvInv, NEW fd \in Fds, CloseFd(fd), UNCHANGED <<backlog, unread, sent, peer>>
  PROVE  EnvInv' /\ OpenFds' = OpenFds \ {fd}
<1>1. \A f \in Fds : owner'[f] = IF f = fd THEN None ELSE owner[f]
  BY DEF CloseFd, EnvInv, EnvTypeOK
<1>2. EnvTypeOK'
  BY DEF CloseFd, EnvInv, EnvTypeOK
<1>3. Made' /\ OneOwner'
  BY <1>1 DEF EnvInv, Made, OneOwner
<1>4. NotBoth'
  BY <1>1, EnvAssumption DEF EnvInv, EnvTypeOK, NotBoth
<1> QED
  BY <1>1, <1>2, <1>3, <1>4 DEF EnvInv, QueuedOnce, NoMoreThanSent, OpenFds

-----------------------------------------------------------------------------
(* All that clients do.                                                       *)
ClientStep(c) == Connect(c) \/ SendMsg(c) \/ Leave(c) \/ ResetBy(c)

LEMMA ClientEnv == ASSUME EnvInv, NEW c \in Conns, ClientStep(c) PROVE EnvInv'
  BY ConnectEnv, SendEnv, DepartEnv DEF ClientStep

(* What select() reported stays true until the server itself takes it: no     *)
(* client takes back what it sent, or returns after it left.                  *)
LEMMA StaysReadable ==
  ASSUME EnvInv, NEW c \in Conns, ClientStep(c),
         NEW fd \in Fds \cup {Listener}, Readable(fd)
  PROVE  Readable(fd)'
<1>1. CASE fd = Listener
  <2>1. backlog # <<>> /\ backlog \in Seq(Conns)
    BY <1>1 DEF Readable, EnvInv, EnvTypeOK
  <2>2. backlog' = backlog \/ backlog' = Append(backlog, c)
    BY DEF ClientStep, Connect, SendMsg, Leave, ResetBy
  <2>3. backlog' # <<>>
    BY <2>1, <2>2
  <2> QED
    BY <1>1, <2>3 DEF Readable
<1>2. CASE fd # Listener
  <2>1. fd \in Fds /\ owner[fd] \in Conns /\ owner[fd] # None /\ peer[owner[fd]] # "none"
        /\ (unread[owner[fd]] > 0 \/ peer[owner[fd]] # "up")
    BY <1>2 DEF Readable, EnvInv, EnvTypeOK, Made
  <2>2. owner' = owner
    BY DEF ClientStep, Connect, SendMsg, Leave, ResetBy
  <2>3. \A d \in Conns : unread[d] > 0 => unread'[d] > 0
    <3>1. unread' = unread \/ unread' = [unread EXCEPT ![c] = unread[c] + 1]
      BY DEF ClientStep, Connect, SendMsg, Leave, ResetBy
    <3>2. unread \in [Conns -> 0..MaxMsgs] /\ unread[c] \in Nat
      BY EnvAssumption DEF EnvInv, EnvTypeOK
    <3> QED
      BY <3>1, <3>2
  <2>4. \A d \in Conns : peer[d] \notin {"none", "up"} => peer'[d] # "up"
    BY DEF ClientStep, Connect, SendMsg, Leave, ResetBy, EnvInv, EnvTypeOK
  <2> QED
    BY <1>2, <2>1, <2>2, <2>3, <2>4 DEF Readable
<1> QED
  BY <1>1, <1>2

(* A read from one descriptor leaves the others as they were.                 *)
LEMMA OthersReadable ==
  ASSUME EnvInv, NEW fd \in OpenFds, NEW n \in RecvResults(fd), unread' = AfterRecv(fd, n),
         peer' = peer, NEW g \in Fds, g # fd, owner'[g] = owner[g], Readable(g)
  PROVE  Readable(g)'
<1>1. g # Listener /\ fd \in Fds
  BY EnvAssumption DEF Fds, Listener, OpenFds
<1>2. owner[g] \in Conns /\ owner[fd] \in Conns /\ owner[g] # owner[fd]
  BY <1>1 DEF Readable, OpenFds, EnvInv, EnvTypeOK, OneOwner
<1>3. unread'[owner[g]] = unread[owner[g]]
  BY <1>2 DEF AfterRecv, EnvInv, EnvTypeOK
<1> QED
  BY <1>1, <1>3 DEF Readable
=============================================================================

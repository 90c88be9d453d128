------------------------ MODULE SelectSrvBetterProofs -----------------------
(* Theorems about the receiver of C/select_srv_better.c, for any number of    *)
(* connections, slots, descriptors and messages.                              *)
EXTENDS SelectSrvBetter, SockEnvProofs

Types == /\ pc \in {"select", "accept", "clients", "aborted"}
         /\ cli_socks \in [Slots -> Fds \cup {-1}] /\ maxi \in Slots \cup {-1}
         /\ active_fds \subseteq Fds \cup {Listener, StrayFd} /\ max_sd \in Fds \cup {Listener}
         /\ rfds \subseteq Fds \cup {Listener}
         /\ nready \in 0..(MAX_CONNECTIONS + 1) /\ i \in 0..MAX_CONNECTIONS

(* Until the new connection has its slot, nothing select() reported has been  *)
(* closed, so that its descriptor is none of those.                           *)
Untouched == pc = "accept" => i = 0 /\ rfds \subseteq OpenFds \cup {Listener}
Reported == /\ pc = "accept" => backlog # <<>>
            /\ pc # "select" => \A k \in Pending(i) : Readable(cli_socks[k])

(* No slot, no descriptor: with a slot free, a descriptor up to the limit is  *)
(* free too, so max_sd stays below the stray bit, the only number in          *)
(* active_fds that is not open.                                               *)
StrayUnwatched == /\ max_sd <= MAX_CONNECTIONS
                  /\ active_fds \subseteq OpenFds \cup {Listener, StrayFd}

IInv == /\ EnvInv /\ Types /\ TablesAgree /\ NreadyExact /\ Untouched /\ Reported
        /\ StrayUnwatched

LEMMA Numbers ==
  /\ Slots \subseteq Nat /\ Fds \subseteq Nat \ {0} /\ Listener = 0 /\ -1 \notin Fds
  /\ Listener \notin Fds /\ MAX_CONNECTIONS \in Nat /\ IsFiniteSet(Slots)
  /\ Cardinality(Slots) = MAX_CONNECTIONS
<1>1. IsFiniteSet(0..(MAX_CONNECTIONS - 1))
      /\ Cardinality(0..(MAX_CONNECTIONS - 1)) = MAX_CONNECTIONS
  BY ServerAssumption, FS_Interval
<1> QED
  BY <1>1, ServerAssumption, EnvAssumption DEF Slots, Fds, Listener

LEMMA TypesSuffice == EnvInv /\ Types => TypeOK
  BY DEF EnvInv, Types, TypeOK

LEMMA SlotUse ==
  ASSUME Types, NEW k \in Slots
  PROVE  /\ k \in UsedSlots <=> cli_socks[k] \in Fds
         /\ k \in FreeSlots <=> cli_socks[k] = -1
         /\ k \in UsedSlots <=> k \notin FreeSlots
<1>1. cli_socks[k] \in Fds \cup {-1}
  BY DEF Types
<1>2. \A fd \in Fds : ~(fd < 0)
  BY Numbers
<1>3. cli_socks[k] < 0 <=> cli_socks[k] = -1
  BY <1>1, <1>2
<1>4. cli_socks[k] \in Fds <=> cli_socks[k] # -1
  BY <1>1, Numbers
<1> QED
  BY <1>3, <1>4 DEF UsedSlots, FreeSlots

(* maxi bounds the slots in use, so the slots of a round are those of the     *)
(* reported descriptors.                                                      *)
LEMMA PendingIs ==
  ASSUME Types, TablesAgree, NEW from
  PROVE  Pending(from) = {k \in Slots : from <= k /\ cli_socks[k] \in rfds}
<1>1. \A k \in Slots : cli_socks[k] \in rfds => cli_socks[k] \in Fds
  BY Numbers DEF Types
<1>2. \A k \in Slots : cli_socks[k] \in rfds => k <= maxi
  BY <1>1, SlotUse DEF TablesAgree
<1> QED
  BY <1>2 DEF Pending

LEMMA FiniteSlots ==
  ASSUME NEW P \in SUBSET Slots
  PROVE  /\ IsFiniteSet(P) /\ Cardinality(P) \in 0..MAX_CONNECTIONS
         /\ Cardinality(P) = 0 <=> P = {}
<1>1. IsFiniteSet(P) /\ Cardinality(P) <= MAX_CONNECTIONS
  BY Numbers, FS_Subset
<1>2. Cardinality(P) \in Nat
  BY <1>1, FS_CardinalityType
<1>3. Cardinality(P) = 0 <=> P = {}
  BY <1>1, FS_EmptySet
<1> QED
  BY <1>1, <1>2, <1>3, Numbers

LEMMA InitI == Init => IInv
<1> SUFFICES ASSUME Init PROVE IInv
  OBVIOUS
<1>1. EnvInv
  BY EnvStart DEF Init
<1>2. Types
  BY Numbers DEF Init, Types
<1>3. UsedSlots = {} /\ OpenFds = {}
  BY DEF Init, EnvInit, UsedSlots, FreeSlots, OpenFds
<1>4. TablesAgree
  <2>1. Watched = OpenFds \cup {Listener}
    BY <1>3, Numbers DEF Init, Watched
  <2> QED
    BY <1>3, <2>1 DEF Init, TablesAgree
<1>5. StrayUnwatched
  BY Numbers DEF Init, StrayUnwatched
<1> QED
  BY <1>1, <1>2, <1>4, <1>5 DEF Init, IInv, NreadyExact, Untouched, Reported

-----------------------------------------------------------------------------
LEMMA ReadyOpen == ASSUME IInv PROVE Ready \subseteq OpenFds \cup {Listener}
BY DEF IInv, TablesAgree, Ready

(* select() counts the descriptors it reports; each but the listening socket  *)
(* is in one slot.                                                            *)
LEMMA ReadyCounted ==
  ASSUME IInv, Select
  PROVE  Cardinality(Ready) = Cardinality(Pending(0)') + (IF Listener \in Ready THEN 1 ELSE 0)
<1> DEFINE P == {k \in Slots : cli_socks[k] \in Ready}
           f == [k \in P |-> cli_socks[k]]
           T == Ready \ {Listener}
<1>0. \A k \in Slots : cli_socks[k] \in Ready => cli_socks[k] \in Fds
  <2>1. Ready \subseteq Fds \cup {Listener}
    BY ReadyOpen DEF OpenFds
  <2>2. \A k \in Slots : cli_socks[k] \in Fds \cup {-1}
    BY DEF IInv, Types
  <2> QED
    BY <2>1, <2>2, Numbers
<1>1. P \in SUBSET Slots /\ P \subseteq UsedSlots
  BY <1>0, SlotUse DEF IInv
<1>2. Pending(0)' = P
  <2>1. \A k \in P : 0 <= k /\ k <= maxi
    <3>1. \A k \in UsedSlots : k \in Nat /\ k <= maxi
      BY Numbers DEF IInv, TablesAgree, UsedSlots
    <3> QED
      BY <1>1, <3>1
  <2> QED
    BY <2>1 DEF Select, Pending, tabVars
<1>3. IsFiniteSet(P)
  BY <1>1, FiniteSlots
<1>4. f \in Bijection(P, T)
  <2>1. \A k \in P : cli_socks[k] \in T
    BY <1>0, Numbers
  <2>2. \A fd \in T : \E k \in P : cli_socks[k] = fd
    BY ReadyOpen DEF IInv, TablesAgree, UsedSlots
  <2>3. \A j, k \in P : cli_socks[j] = cli_socks[k] => j = k
    BY <1>1 DEF IInv, TablesAgree
  <2> QED
    BY <2>1, <2>2, <2>3 DEF Bijection, Injection, Surjection, IsInjective
<1>5. IsFiniteSet(T) /\ Cardinality(T) = Cardinality(P)
  <2>1. ExistsBijection(P, T)
    BY <1>4 DEF ExistsBijection
  <2> HIDE DEF P, T
  <2> QED
    BY <1>3, <2>1, FS_Bijection
<1>6. CASE Listener \in Ready
  <2>1. Cardinality(T \cup {Listener}) = Cardinality(T) + 1
    <3>1. Listener \notin T
      OBVIOUS
    <3> HIDE DEF P, T
    <3> QED
      BY <1>5, <3>1, FS_AddElement
  <2>2. T \cup {Listener} = Ready
    BY <1>6
  <2> QED
    BY <1>2, <1>5, <1>6, <2>1, <2>2
<1>7. CASE Listener \notin Ready
  <2>1. T = Ready
    BY <1>7
  <2>2. Cardinality(P) \in Nat
    <3> HIDE DEF P
    <3> QED
      BY <1>3, FS_CardinalityType
  <2> QED
    BY <1>2, <1>5, <1>7, <2>1, <2>2
<1> QED
  BY <1>6, <1>7

LEMMA SelectI == ASSUME IInv, Select PROVE IInv'
<1> DEFINE n == Cardinality(Pending(0)')
<1>1. Ready \subseteq OpenFds \cup {Listener} /\ Ready # {} /\ \A fd \in Ready : Readable(fd)
  BY ReadyOpen DEF Select, Ready
<1>2. EnvInv' /\ TablesAgree' /\ StrayUnwatched'
  <2>1. EnvInv'
    BY DEF IInv, EnvInv, EnvTypeOK, Made, OneOwner, QueuedOnce, NotBoth, NoMoreThanSent,
           OpenFds, Select, envVars
  <2> QED
    BY <2>1 DEF IInv, TablesAgree, StrayUnwatched, Watched, OpenFds, UsedSlots, FreeSlots,
                Select, envVars, tabVars
<1>3. n \in 0..MAX_CONNECTIONS /\ (n = 0 <=> Pending(0)' = {})
  <2>1. Pending(0)' \in SUBSET Slots
    BY DEF Pending
  <2> QED
    BY <2>1, FiniteSlots
<1>4. nready' = n + (IF Listener \in Ready THEN 1 ELSE 0) /\ i' = 0
  BY ReadyCounted DEF Select
<1>5. Types'
  BY <1>1, <1>3, <1>4, Numbers DEF IInv, Types, Select, tabVars, OpenFds
<1>6. NreadyExact'
  <2>1. Listener \notin Ready => n > 0
    <3> SUFFICES ASSUME Listener \notin Ready PROVE n # 0
      BY <1>3
    <3>1. PICK fd \in Ready : fd \in OpenFds
      BY <1>1 DEF IInv, TablesAgree
    <3>2. PICK k \in UsedSlots : cli_socks[k] = fd
      BY <3>1 DEF IInv, TablesAgree
    <3>3. k \in Pending(0)'
      <4>1. k \in Slots /\ 0 <= k /\ k <= maxi
        BY <3>2, Numbers DEF IInv, TablesAgree, UsedSlots
      <4>2. cli_socks[k] \in rfds'
        BY <3>1, <3>2 DEF Select
      <4> QED
        BY <4>1, <4>2 DEF Pending, Select, tabVars
    <3> QED
      BY <3>3, <1>3
  <2> QED
    BY <2>1, <1>3, <1>4 DEF NreadyExact, Select
<1>7. Untouched'
  BY <1>1, <1>2, <1>4 DEF Untouched, IInv, TablesAgree, Select, envVars, tabVars, OpenFds
<1>8. Reported'
  <2>1. \A fd \in Ready : Readable(fd)'
    BY <1>1 DEF Readable, Select, envVars
  <2>2. Listener \in Ready => backlog' # <<>>
    BY <2>1 DEF Readable
  <2> QED
    BY <2>1, <2>2 DEF Reported, Pending, Select, tabVars
<1> QED
  BY <1>2, <1>5, <1>6, <1>7, <1>8 DEF IInv

-----------------------------------------------------------------------------
(* As many descriptors are open as slots are taken.                           *)
LEMMA RoomLeft ==
  ASSUME IInv, FreeSlots # {}
  PROVE  \E fd \in FreeFds : fd <= MAX_CONNECTIONS
<1> DEFINE f == [k \in UsedSlots |-> cli_socks[k]]
           Low == 1..MAX_CONNECTIONS
<1>1. UsedSlots \in SUBSET Slots /\ UsedSlots # Slots
  BY DEF UsedSlots, FreeSlots
<1>2. IsFiniteSet(UsedSlots) /\ Cardinality(UsedSlots) # MAX_CONNECTIONS
  <2>1. IsFiniteSet(Slots) /\ Cardinality(Slots) = MAX_CONNECTIONS
    BY Numbers
  <2>2. IsFiniteSet(UsedSlots) /\ Cardinality(UsedSlots) = Cardinality(Slots) => UsedSlots = Slots
    BY <1>1, <2>1, FS_Subset
  <2>3. IsFiniteSet(UsedSlots)
    BY <1>1, FiniteSlots
  <2> QED
    BY <1>1, <2>1, <2>2, <2>3
<1>3. f \in Bijection(UsedSlots, OpenFds)
  BY DEF IInv, TablesAgree, Bijection, Injection, Surjection, IsInjective
<1>4. Cardinality(OpenFds) = Cardinality(UsedSlots)
  <2>1. ExistsBijection(UsedSlots, OpenFds)
    BY <1>3 DEF ExistsBijection
  <2> QED
    BY <1>2, <2>1, FS_Bijection
<1>5. Cardinality(Low) = MAX_CONNECTIONS
  BY Numbers, FS_Interval
<1>6. Low # OpenFds
  BY <1>2, <1>4, <1>5
<1>7. OpenFds \subseteq Low
  <2>1. \A fd \in OpenFds : fd \in Nat \ {0} /\ fd <= max_sd
    BY Numbers DEF IInv, TablesAgree, OpenFds
  <2>2. max_sd \in Nat /\ max_sd <= MAX_CONNECTIONS
    BY Numbers DEF IInv, Types, StrayUnwatched
  <2> QED
    BY <2>1, <2>2, Numbers
<1>8. Low \subseteq Fds
  BY ServerAssumption, EnvAssumption DEF Fds
<1>9. PICK fd \in Low : fd \notin OpenFds
  BY <1>6, <1>7
<1> QED
  BY <1>8, <1>9 DEF FreeFds

-----------------------------------------------------------------------------
(* What a round does with its count.                                          *)
LEMMA ContinueCounts ==
  ASSUME Types, NEW from, Continue(from),
         nready - 1 = Cardinality(Pending(from))
  PROVE  /\ nready' = Cardinality(Pending(from)) /\ nready' \in 0..(MAX_CONNECTIONS + 1)
         /\ pc' \in {"select", "clients"}
         /\ pc' = "clients" => nready' > 0
<1>1. Pending(from) \in SUBSET Slots
  BY DEF Pending
<1>2. Cardinality(Pending(from)) \in 0..MAX_CONNECTIONS
  BY <1>1, FiniteSlots
<1> QED
  BY <1>2, Numbers DEF Continue, RoundOver

(* A free slot is taken by a descriptor that was closed until now.            *)
LEMMA AcceptI == ASSUME IInv, Accept PROVE IInv'
<1> DEFINE k == Lowest(FreeSlots)
<1>1. PICK fd \in Fds : /\ AcceptInto(fd)
                        /\ cli_socks' = [cli_socks EXCEPT ![k] = fd]
                        /\ active_fds' = active_fds \cup {fd}
                        /\ maxi' = NewMaxi(k)
                        /\ max_sd' = IF fd > max_sd THEN fd ELSE max_sd
  BY DEF Accept
<1>2. k \in FreeSlots /\ k \in Slots
  <2>1. FreeSlots \in SUBSET Nat /\ FreeSlots # {}
    BY Numbers DEF FreeSlots, Accept
  <2> QED
    BY <2>1, LowestLeast DEF FreeSlots
<1> HIDE DEF k
<1>3. owner[fd] = None /\ OpenFds' = OpenFds \cup {fd} /\ fd \notin OpenFds
  BY <1>1, AcceptGives DEF IInv, OpenFds
<1>4. EnvInv'
  BY <1>1, AcceptEnv DEF IInv, Accept
<1>5. pc = "accept" /\ i = 0 /\ rfds' = rfds /\ i' = i /\ fd \notin rfds /\ Continue(0)
  BY <1>3, Numbers DEF Accept, IInv, Untouched
<1>6. nready - 1 = Cardinality(Pending(0))
  <2>1. Cardinality(Pending(0)) \in 0..MAX_CONNECTIONS
    BY FiniteSlots DEF Pending
  <2> QED
    BY <2>1, <1>5, Numbers DEF IInv, NreadyExact
<1>7. /\ nready' = Cardinality(Pending(0)) /\ nready' \in 0..(MAX_CONNECTIONS + 1)
      /\ pc' \in {"select", "clients"} /\ (pc' = "clients" => nready' > 0)
  BY <1>5, <1>6, ContinueCounts DEF IInv
<1>8. Types'
  BY <1>1, <1>2, <1>5, <1>7, Numbers DEF IInv, Types, NewMaxi
<1>9. /\ \A j \in Slots : cli_socks'[j] = IF j = k THEN fd ELSE cli_socks[j]
      /\ UsedSlots' = UsedSlots \cup {k} /\ k \notin UsedSlots
  <2>1. \A j \in Slots : cli_socks'[j] = IF j = k THEN fd ELSE cli_socks[j]
    BY <1>1, <1>2 DEF IInv, Types
  <2>2. ~(fd < 0)
    BY Numbers
  <2> QED
    BY <2>1, <2>2, <1>2 DEF UsedSlots, FreeSlots
<1>10. StrayUnwatched'
  <2>1. PICK g \in FreeFds : g <= MAX_CONNECTIONS
    BY RoomLeft DEF Accept
  <2>2. fd <= g
    <3>1. FreeFds \in SUBSET Nat /\ FreeFds # {}
      BY <2>1, Numbers DEF FreeFds
    <3>2. fd = Lowest(FreeFds)
      BY <1>1 DEF AcceptInto
    <3> QED
      BY <3>1, <3>2, <2>1, LowestLeast
  <2>3. fd <= MAX_CONNECTIONS
    BY <2>1, <2>2, Numbers DEF FreeFds
  <2> QED
    BY <1>1, <1>3, <2>3 DEF IInv, StrayUnwatched
<1>11. TablesAgree'
  <2>1. {cli_socks'[j] : j \in UsedSlots'} = OpenFds'
    BY <1>2, <1>3, <1>9 DEF IInv, TablesAgree, UsedSlots
  <2>2. Watched' = OpenFds' \cup {Listener}
    <3>1. max_sd' \in Nat
      BY <1>8, Numbers DEF Types
    <3>2. OpenFds \cup {Listener} \subseteq active_fds
      BY DEF IInv, TablesAgree, Watched
    <3>3. /\ active_fds' \subseteq OpenFds' \cup {Listener, StrayFd}
          /\ OpenFds' \cup {Listener} \subseteq active_fds'
      BY <1>1, <1>3, <1>10, <3>2 DEF StrayUnwatched
    <3>4. \A f \in OpenFds' \cup {Listener} : f <= max_sd'
      <4>1. \A f \in OpenFds : f \in Nat /\ f <= max_sd
        BY Numbers DEF IInv, TablesAgree, OpenFds
      <4>2. max_sd \in Nat /\ fd \in Nat /\ Listener = 0
        BY Numbers DEF IInv, Types
      <4>3. fd <= max_sd' /\ max_sd <= max_sd'
        BY <1>1, <4>2
      <4>4. \A f \in OpenFds : f <= max_sd'
        BY <3>1, <4>1, <4>2, <4>3
      <4> QED
        BY <1>3, <3>1, <4>2, <4>3, <4>4
    <3>5. ~(StrayFd <= max_sd')
      BY <1>10, <3>1, ServerAssumption DEF StrayUnwatched
    <3> QED
      BY <3>3, <3>4, <3>5 DEF Watched
  <2>3. \A j \in UsedSlots : cli_socks[j] # fd
    BY <1>3 DEF IInv, TablesAgree
  <2>4. \A j, l \in UsedSlots' : cli_socks'[j] = cli_socks'[l] => j = l
    BY <1>2, <1>9, <2>3 DEF IInv, TablesAgree, UsedSlots
  <2>5. \A j \in UsedSlots' : j <= maxi'
    BY <1>1, <1>2, <1>9, Numbers DEF IInv, TablesAgree, Types, UsedSlots, NewMaxi
  <2>6. \A f \in OpenFds' : f <= max_sd'
    BY <1>1, <1>3, Numbers DEF IInv, TablesAgree, Types, OpenFds
  <2> QED
    BY <2>1, <2>2, <2>4, <2>5, <2>6 DEF TablesAgree
<1>12. Pending(0)' = Pending(0)
  <2>1. Pending(0) = {j \in Slots : 0 <= j /\ cli_socks[j] \in rfds}
    BY PendingIs DEF IInv
  <2>2. Pending(0)' = {j \in Slots : 0 <= j /\ cli_socks'[j] \in rfds'}
    <3>1. \A j \in Slots : cli_socks'[j] \in rfds' => cli_socks'[j] \in Fds
      BY <1>8, Numbers DEF Types
    <3>2. \A j \in Slots : cli_socks'[j] \in Fds => j \in UsedSlots'
      BY <1>9, SlotUse DEF IInv, Types
    <3>3. \A j \in Slots : cli_socks'[j] \in rfds' => j <= maxi'
      BY <3>1, <3>2, <1>11 DEF TablesAgree
    <3> QED
      BY <3>3 DEF Pending
  <2>3. cli_socks[k] \notin rfds
    BY <1>2, SlotUse, Numbers DEF IInv, Types
  <2> QED
    BY <1>2, <1>5, <1>9, <2>1, <2>2, <2>3
<1>13. NreadyExact' /\ Untouched'
  BY <1>5, <1>7, <1>12 DEF NreadyExact, Untouched
<1>14. Reported'
  <2>1. \A j \in Pending(0) : cli_socks[j] \in OpenFds /\ Readable(cli_socks[j])
    BY <1>5, Numbers DEF IInv, Reported, Types, Untouched, Pending
  <2>2. \A g \in OpenFds : Readable(g) => Readable(g)'
    <3>1. \A g \in OpenFds : owner'[g] = owner[g] /\ g # Listener
      BY <1>1, <1>3, AcceptGives, Numbers DEF IInv, OpenFds
    <3> QED
      BY <3>1 DEF Readable, Accept
  <2>3. \A j \in Pending(0) : j \in Slots /\ j # k
    BY <1>2, SlotUse, Numbers DEF Pending, IInv, Types
  <2> QED
    BY <1>5, <1>7, <1>9, <1>12, <2>1, <2>2, <2>3 DEF Reported
<1> QED
  BY <1>4, <1>8, <1>11, <1>13, <1>14, <1>10 DEF IInv

(* The table does not change, but maxi may count a slot that stays free, and  *)
(* active_fds may get the stray bit, which select() does not look at.         *)
LEMMA AcceptFailsI == ASSUME IInv, AcceptFails PROVE IInv'
<1>1. EnvInv' /\ OpenFds' = OpenFds /\ UsedSlots' = UsedSlots
  BY RefuseEnv DEF AcceptFails, IInv, OpenFds, UsedSlots, FreeSlots
<1>2. maxi' \in Slots \cup {-1} /\ maxi' >= maxi
  <2>1. CASE maxi' = maxi
    BY <2>1, Numbers DEF IInv, Types
  <2>2. CASE FreeSlots # {} /\ maxi' = NewMaxi(Lowest(FreeSlots))
    <3>1. FreeSlots \in SUBSET Nat
      BY Numbers DEF FreeSlots
    <3>2. Lowest(FreeSlots) \in Slots
      BY <2>2, <3>1, LowestLeast DEF FreeSlots
    <3>3. maxi \in Int /\ Lowest(FreeSlots) \in Int
      <4>1. maxi \in Nat \cup {-1}
        BY Numbers DEF IInv, Types
      <4>2. maxi \in Int
        BY <4>1
      <4>3. Lowest(FreeSlots) \in Nat
        BY <3>2, Numbers
      <4> QED
        BY <4>2, <4>3
    <3>4. maxi' = Lowest(FreeSlots) \/ maxi' = maxi
      BY <2>2 DEF NewMaxi
    <3> QED
      BY <2>2, <3>2, <3>3, <3>4 DEF IInv, Types, NewMaxi
  <2> QED
    BY <2>1, <2>2 DEF AcceptFails
<1>3. /\ active_fds \subseteq active_fds' /\ active_fds' \subseteq active_fds \cup {StrayFd}
       /\ max_sd' = max_sd /\ max_sd \in Nat
  BY Numbers DEF AcceptFails, AfterStray, IInv, Types
<1>4. StrayUnwatched'
  BY <1>1, <1>3 DEF IInv, StrayUnwatched
<1>5. TablesAgree'
  <2>1. \A k \in UsedSlots' : k <= maxi'
    BY <1>1, <1>2, Numbers DEF IInv, TablesAgree, Types, UsedSlots
  <2>2. Watched' = Watched
    <3>1. ~(StrayFd <= max_sd)
      BY <1>3, ServerAssumption DEF IInv, StrayUnwatched
    <3> QED
      BY <1>3, <3>1 DEF Watched
  <2> QED
    BY <1>1, <2>1, <2>2 DEF IInv, TablesAgree, AcceptFails
<1>6. pc = "accept" /\ i = 0 /\ UNCHANGED <<rfds, i, cli_socks, owner, unread, peer>>
  BY DEF AcceptFails, IInv, Untouched
<1>7. Pending(0)' = Pending(0)
  <2>1. Pending(0) = {j \in Slots : 0 <= j /\ cli_socks[j] \in rfds}
    BY PendingIs DEF IInv
  <2>2. \A k \in Slots : k <= maxi => k <= maxi'
    BY <1>2, Numbers DEF IInv, Types
  <2> QED
    BY <1>6, <2>1, <2>2 DEF Pending
<1>8. \A k \in Pending(0) : Readable(cli_socks[k]) /\ cli_socks[k] # Listener
  BY <1>6, Numbers DEF IInv, Reported, Types, Pending
<1>9. \A k \in Pending(0)' : Readable(cli_socks[k])'
  BY <1>6, <1>7, <1>8 DEF Readable
<1>10. CASE pc' \in {"select", "aborted"} /\ nready' = nready
  <2>1. Types' /\ NreadyExact' /\ Untouched'
    BY <1>2, <1>6, <1>10, <1>3 DEF IInv, Types, NreadyExact, Untouched, AcceptFails
  <2>2. Reported'
    BY <1>9, <1>6, <1>10 DEF Reported
  <2> QED
    BY <1>1, <1>5, <1>4, <2>1, <2>2 DEF IInv
<1>11. CASE Continue(0)
  <2>1. nready - 1 = Cardinality(Pending(0))
    <3>1. Cardinality(Pending(0)) \in 0..MAX_CONNECTIONS
      BY FiniteSlots DEF Pending
    <3> QED
      BY <3>1, <1>6, Numbers DEF IInv, NreadyExact
  <2>2. /\ nready' = Cardinality(Pending(0)) /\ nready' \in 0..(MAX_CONNECTIONS + 1)
        /\ pc' \in {"select", "clients"} /\ (pc' = "clients" => nready' > 0)
    BY <1>11, <2>1, ContinueCounts DEF IInv
  <2>3. Types'
    BY <1>2, <1>6, <1>3, <2>2 DEF IInv, Types, AcceptFails
  <2>4. NreadyExact' /\ Untouched' /\ Reported'
    BY <1>6, <1>7, <1>9, <2>2 DEF NreadyExact, Untouched, Reported
  <2> QED
    BY <1>1, <1>5, <1>4, <2>3, <2>4 DEF IInv
<1> QED
  BY <1>10, <1>11 DEF AcceptFails

LEMMA RefuseI == ASSUME IInv, Refuse PROVE IInv'
<1>1. EnvInv'
  BY RefuseEnv DEF Refuse, IInv
<1> QED
  BY <1>1 DEF Refuse, IInv, Types, TablesAgree, NreadyExact, Untouched, Reported,
              StrayUnwatched, Watched, OpenFds, UsedSlots, FreeSlots, tabVars

-----------------------------------------------------------------------------
(* The lowest slot left is served; it does not come up again in this round.   *)
LEMMA ReadI == ASSUME IInv, Read PROVE IInv'
<1>1. PICK k \in Slots : k = Lowest(Pending(i)) /\ k \in Pending(i) /\ \A j \in Pending(i) : k <= j
  <2>1. Pending(i) \in SUBSET Nat /\ Pending(i) # {} /\ Pending(i) \subseteq Slots
    BY Numbers DEF Pending, Read
  <2> QED
    BY <2>1, LowestLeast
<1>2. PICK fd \in Fds : fd = cli_socks[k] /\ fd \in rfds
  <2>1. cli_socks[k] \in rfds /\ cli_socks[k] \in Fds \cup {-1} /\ rfds \subseteq Fds \cup {0}
    BY <1>1, Numbers DEF Pending, IInv, Types
  <2> QED
    BY <2>1
<1>3. PICK n \in RecvResults(fd) :
           /\ i' = k + 1 /\ Continue(k + 1)
           /\ unread' = AfterRecv(fd, n)
           /\ \/ n > 0 /\ UNCHANGED <<owner, tabVars>>
              \/ /\ n <= 0
                 /\ CloseFd(fd)
                 /\ active_fds' = active_fds \ {fd}
                 /\ cli_socks' = SocksAfterClose(k)
                 /\ UNCHANGED <<max_sd, maxi>>
  BY <1>1, <1>2 DEF Read
<1>4. /\ i <= k /\ pc = "clients" /\ i \in Nat /\ k \in Nat /\ k \in UsedSlots /\ fd \in OpenFds
      /\ UNCHANGED <<backlog, sent, peer, rfds>>
  <2>1. k \in UsedSlots
    BY <1>2, SlotUse DEF IInv
  <2> QED
    BY <1>1, <1>2, <2>1, Numbers DEF Pending, Read, IInv, Types, TablesAgree
<1>5. Pending(k + 1) = Pending(i) \ {k}
  <2>1. Pending(i) = {j \in Slots : i <= j /\ cli_socks[j] \in rfds}
    BY PendingIs DEF IInv
  <2>2. Pending(k + 1) = {j \in Slots : k + 1 <= j /\ cli_socks[j] \in rfds}
    BY PendingIs DEF IInv
  <2>3. \A j \in Slots : j \in Pending(i) => (k + 1 <= j <=> j # k)
    BY <1>1, <1>4, Numbers
  <2>4. \A j \in Slots : k + 1 <= j => i <= j
    BY <1>4, Numbers
  <2> QED
    BY <2>1, <2>2, <2>3, <2>4
<1>6. nready - 1 = Cardinality(Pending(k + 1))
  <2>1. Pending(i) \in SUBSET Slots
    BY DEF Pending
  <2>2. IsFiniteSet(Pending(i)) /\ Cardinality(Pending(i)) \in Nat
    BY <2>1, FiniteSlots
  <2>3. Cardinality(Pending(i) \ {k}) = Cardinality(Pending(i)) - 1
    BY <1>1, <2>2, FS_RemoveElement
  <2> QED
    BY <1>4, <1>5, <2>2, <2>3 DEF IInv, NreadyExact
<1>7. /\ nready' = Cardinality(Pending(k + 1)) /\ nready' \in 0..(MAX_CONNECTIONS + 1)
      /\ pc' \in {"select", "clients"} /\ (pc' = "clients" => nready' > 0)
  BY <1>3, <1>6, ContinueCounts DEF IInv
<1>8. k + 1 \in 0..MAX_CONNECTIONS
  BY ServerAssumption DEF Slots
<1>9. \A j \in Pending(k + 1) : /\ j \in Slots /\ j # k /\ cli_socks[j] \in OpenFds
                                /\ cli_socks[j] # fd /\ Readable(cli_socks[j])
  <2>1. \A j \in Pending(k + 1) : j \in Slots /\ j # k /\ cli_socks[j] \in rfds
                                  /\ Readable(cli_socks[j])
    BY <1>4, <1>5 DEF Pending, IInv, Reported
  <2>2. \A j \in Pending(k + 1) : cli_socks[j] \in Fds
    <3>1. \A j \in Slots : cli_socks[j] \in rfds => cli_socks[j] \in Fds
      BY Numbers DEF IInv, Types
    <3> QED
      BY <2>1, <3>1
  <2>3. \A j \in Pending(k + 1) : j \in UsedSlots
    BY <2>1, <2>2, SlotUse DEF IInv
  <2> QED
    BY <2>1, <2>3, <1>2, <1>4 DEF IInv, TablesAgree
<1>10. CASE n > 0
  <2>1. UNCHANGED <<owner, tabVars>>
    BY <1>3, <1>10 DEF RecvResults, EnvInv, EnvTypeOK
  <2>2. EnvInv'
    BY <1>3, <1>4, <2>1, RecvEnv DEF IInv
  <2>3. Types' /\ TablesAgree' /\ StrayUnwatched'
    BY <1>3, <1>4, <1>7, <1>8, <2>1
       DEF IInv, Types, TablesAgree, StrayUnwatched, Watched, OpenFds, UsedSlots, FreeSlots, tabVars
  <2>4. Pending(k + 1)' = Pending(k + 1)
    BY <1>4, <2>1 DEF Pending, tabVars
  <2>5. \A g \in OpenFds : g # fd /\ Readable(g) => Readable(g)'
    BY <1>3, <1>4, <2>1, OthersReadable DEF IInv, OpenFds
  <2>6. NreadyExact' /\ Untouched' /\ Reported'
    BY <1>3, <1>7, <1>9, <2>1, <2>4, <2>5 DEF NreadyExact, Untouched, Reported, tabVars
  <2> QED
    BY <2>2, <2>3, <2>6 DEF IInv
<1>11. CASE ~(n > 0)
  <2>1. /\ CloseFd(fd) /\ active_fds' = active_fds \ {fd} /\ UNCHANGED <<max_sd, maxi, unread>>
        /\ cli_socks' = [cli_socks EXCEPT ![k] = -1]
    BY <1>3, <1>11 DEF SocksAfterClose, AfterRecv
  <2>2. EnvInv' /\ OpenFds' = OpenFds \ {fd}
    BY <1>4, <2>1, CloseEnv DEF IInv
  <2>3. Types'
    BY <1>3, <1>4, <1>7, <1>8, <2>1 DEF IInv, Types
  <2>4. /\ \A j \in Slots : cli_socks'[j] = IF j = k THEN -1 ELSE cli_socks[j]
        /\ UsedSlots' = UsedSlots \ {k}
    BY <2>1 DEF IInv, Types, UsedSlots, FreeSlots
  <2>5. \A j \in UsedSlots : j # k => cli_socks[j] # fd
    BY <1>2, <1>4 DEF IInv, TablesAgree
  <2>6. TablesAgree'
    <3>1. {cli_socks'[j] : j \in UsedSlots'} = OpenFds'
      BY <1>2, <1>4, <2>2, <2>4, <2>5 DEF IInv, TablesAgree, UsedSlots
    <3>2. Watched' = OpenFds' \cup {Listener}
      <4>1. Watched' = Watched \ {fd} /\ fd # Listener
        BY <1>4, <2>1, Numbers DEF Watched
      <4> QED
        BY <4>1, <2>2 DEF IInv, TablesAgree
    <3>3. \A j, l \in UsedSlots' : cli_socks'[j] = cli_socks'[l] => j = l
      BY <2>4 DEF IInv, TablesAgree, UsedSlots
    <3> QED
      BY <2>1, <2>2, <2>4, <3>1, <3>2, <3>3 DEF IInv, TablesAgree
  <2>7. StrayUnwatched'
    BY <2>1, <2>2 DEF IInv, StrayUnwatched
  <2>8. Pending(k + 1)' = Pending(k + 1)
    <3>1. \A j \in Slots : k + 1 <= j => j # k
      BY <1>4, Numbers
    <3> QED
      BY <1>4, <2>1, <2>4, <3>1 DEF Pending
  <2>9. \A g \in OpenFds : g # fd /\ Readable(g) => Readable(g)'
    <3>1. \A g \in Fds : g # fd => owner'[g] = owner[g]
      BY <2>1 DEF CloseFd, IInv, EnvInv, EnvTypeOK
    <3> QED
      BY <1>3, <1>4, <3>1, OthersReadable DEF IInv, OpenFds
  <2>10. NreadyExact' /\ Untouched' /\ Reported'
    BY <1>3, <1>7, <1>9, <2>4, <2>8, <2>9 DEF NreadyExact, Untouched, Reported
  <2> QED
    BY <2>2, <2>3, <2>6, <2>10, <2>7 DEF IInv
<1> QED
  BY <1>10, <1>11

-----------------------------------------------------------------------------
LEMMA ClientI == ASSUME IInv, NEW c \in Conns, Client(c) PROVE IInv'
<1>1. ClientStep(c) /\ UNCHANGED <<pc, tabVars, rfds, nready, i, owner>>
  BY DEF Client, ClientStep, Connect, SendMsg, Leave, ResetBy
<1>2. EnvInv'
  BY <1>1, ClientEnv DEF IInv
<1>3. Types' /\ TablesAgree' /\ NreadyExact' /\ Untouched' /\ StrayUnwatched'
  BY <1>1 DEF IInv, Types, TablesAgree, NreadyExact, Untouched, StrayUnwatched, Watched,
              Pending, OpenFds, UsedSlots,
              FreeSlots, tabVars
<1>4. \A fd \in Fds \cup {Listener} : Readable(fd) => Readable(fd)'
  BY <1>1, StaysReadable DEF IInv
<1>5. backlog # <<>> => backlog' # <<>>
  BY <1>4 DEF Readable
<1>6. \A k \in Pending(i) : cli_socks[k] \in Fds \cup {Listener}
  BY DEF Pending, IInv, Types
<1>7. Reported'
  BY <1>1, <1>4, <1>5, <1>6 DEF IInv, Reported, Pending, tabVars
<1> QED
  BY <1>2, <1>3, <1>7 DEF IInv

LEMMA NextI == IInv /\ [Next]_vars => IInv'
<1> SUFFICES ASSUME IInv, [Next]_vars PROVE IInv'
  OBVIOUS
<1>1. CASE UNCHANGED vars
  BY <1>1 DEF IInv, EnvInv, EnvTypeOK, Made, OneOwner, QueuedOnce, NotBoth, NoMoreThanSent,
              Types, TablesAgree, NreadyExact, Untouched, Reported, Pending, Readable, OpenFds,
              StrayUnwatched, Watched, UsedSlots, FreeSlots, vars, envVars, tabVars
<1> QED
  BY <1>1, SelectI, RefuseI, AcceptI, AcceptFailsI, ReadI, ClientI DEF Next, Server

LEMMA Inductive == Spec => []IInv
  BY InitI, NextI, PTL DEF Spec

(* Types are kept; the loop index and nready stay in their ranges.            *)
THEOREM TypesKept == Spec => []TypeOK
<1>1. IInv => TypeOK
  BY TypesSuffice DEF IInv
<1> QED
  BY <1>1, Inductive, PTL

(* cli_socks, maxi, max_sd and the part of active_fds that select() looks at  *)
(* agree with the descriptors that are open, whatever order clients come and  *)
(* go in, also when a failed accept() raised maxi for a slot that stayed free *)
(* and left a stray bit in active_fds: that one is never below max_sd.        *)
THEOREM TablesAlwaysAgree == Spec => []TablesAgree
<1>1. IInv => TablesAgree
  BY DEF IInv
<1> QED
  BY <1>1, Inductive, PTL

(* nready counts the reported descriptors not served yet, so that the round   *)
(* is left neither too early nor too late.                                    *)
THEOREM CountAlwaysExact == Spec => []NreadyExact
<1>1. IInv => NreadyExact
  BY DEF IInv
<1> QED
  BY <1>1, Inductive, PTL

(* accept() and read() never block: what select() reported is still true when *)
(* the call is made, although clients go on and an earlier descriptor of the  *)
(* round may have been closed or opened.                                      *)
THEOREM ReceiverNeverBlocks == Spec => []NeverBlocks
<1>1. IInv => NeverBlocks
  BY DEF IInv, Reported, NeverBlocks
<1> QED
  BY <1>1, Inductive, PTL
=============================================================================

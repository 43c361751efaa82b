---------------------- MODULE ConnectionRegistryProofs ----------------------
(***************************************************************************)
(* For any limit and any number of connections: what count counts, which   *)
(* connections the list holds, and that count never falls from one round   *)
(* to the next.                                                            *)
(***************************************************************************)
EXTENDS ConnectionRegistry, SequenceTheorems, FiniteSetTheorems, TLAPS

\* Threads were spawned in the order of their numbers.
InTurn == \E n \in 0 .. MaxAccepts : Spawned = 1 .. n

\* A message is from a thread that has returned.
Senders == \A i \in DOMAIN mailbox : reader[mailbox[i]] = "closed"

Listed == \A i \in DOMAIN connections : connections[i] \in Spawned

IInv ==
    /\ TypeOK
    /\ CountMeaning /\ LiveListed
    /\ Alive => InTurn /\ Senders /\ Listed

-----------------------------------------------------------------------------
\* Sets of threads are finite, and their sizes are those of their parts.
LEMMA TidFinite == ASSUME NEW S \in SUBSET Tid PROVE IsFiniteSet(S) /\ Cardinality(S) \in Nat
<1>1. IsFiniteSet(Tid)
  BY FS_Interval, RegistryAssumption DEF Tid
<1> QED
  BY <1>1, FS_Subset, FS_CardinalityType

LEMMA Grows ==
    ASSUME NEW S \in SUBSET Tid, NEW t \in Tid, t \notin S
    PROVE  Cardinality(S \cup {t}) = Cardinality(S) + 1
BY TidFinite, FS_AddElement

LEMMA Shrinks ==
    ASSUME NEW S \in SUBSET Tid, NEW t \in S
    PROVE  Cardinality(S \ {t}) = Cardinality(S) - 1
BY TidFinite, FS_RemoveElement

\* The thread that Accept spawns is new.
LEMMA NewTid ==
    ASSUME TypeOK, InTurn, Spawned # Tid
    PROVE  /\ Cardinality(Spawned) + 1 \in Tid \ Spawned
           /\ Spawned \cup {Cardinality(Spawned) + 1} = 1 .. Cardinality(Spawned) + 1
           /\ Cardinality(Spawned) + 1 \in 0 .. MaxAccepts
<1>1. PICK n \in 0 .. MaxAccepts : Spawned = 1 .. n
  BY DEF InTurn
<1>2. Cardinality(Spawned) = n
  BY <1>1, FS_Interval
<1>3. n # MaxAccepts
  BY <1>1 DEF Tid
<1> QED
  BY <1>1, <1>2, <1>3, RegistryAssumption DEF Tid

LEMMA RemoveAtOne ==
    ASSUME NEW S, NEW s \in Seq(S), NEW k \in 1 .. Len(s)
    PROVE  /\ RemoveAt(s, k) \in Seq(S)
           /\ Len(RemoveAt(s, k)) = Len(s) - 1
           /\ \A i \in 1 .. Len(s) - 1 : RemoveAt(s, k)[i] = IF i < k THEN s[i] ELSE s[i + 1]
<1>1. Len(s) \in Nat /\ \A i \in 1 .. Len(s) : s[i] \in S
  BY LenProperties, ElementOfSeq
<1>2. PICK a : a = SubSeq(s, 1, k - 1)
  OBVIOUS
<1>3. PICK b : b = SubSeq(s, k + 1, Len(s))
  OBVIOUS
<1>4. a \in Seq(S) /\ Len(a) = k - 1 /\ \A i \in 1 .. k - 1 : a[i] = s[i]
  <2>1. \A i \in 1 .. k - 1 : s[i] \in S
    BY <1>1
  <2>2. 1 \in Int /\ k - 1 \in Int
    BY <1>1
  <2> QED
    BY <1>1, <1>2, <2>1, <2>2, SubSeqProperties
<1>5. b \in Seq(S) /\ Len(b) = Len(s) - k /\ \A i \in 1 .. Len(s) - k : b[i] = s[k + i]
  <2>1. \A i \in k + 1 .. Len(s) : s[i] \in S
    BY <1>1
  <2>2. k + 1 \in Int /\ Len(s) \in Int
    BY <1>1
  <2> QED
    BY <1>1, <1>3, <2>1, <2>2, SubSeqProperties
<1>6. /\ a \o b \in Seq(S) /\ Len(a \o b) = Len(a) + Len(b)
      /\ \A i \in 1 .. Len(a) + Len(b) :
            (a \o b)[i] = IF i <= Len(a) THEN a[i] ELSE b[i - Len(a)]
  BY <1>4, <1>5, ConcatProperties
<1>7. RemoveAt(s, k) = a \o b
  BY <1>2, <1>3 DEF RemoveAt
<1>8. Len(a \o b) = Len(s) - 1
  BY <1>1, <1>4, <1>5, <1>6
<1>9. ASSUME NEW i \in 1 .. Len(s) - 1
      PROVE  (a \o b)[i] = IF i < k THEN s[i] ELSE s[i + 1]
  <2>1. i \in 1 .. Len(a) + Len(b)
    BY <1>1, <1>4, <1>5
  <2>2. CASE i < k
    BY <1>1, <1>4, <1>6, <2>1, <2>2
  <2>3. CASE ~(i < k)
    <3>1. i - Len(a) \in 1 .. Len(s) - k /\ k + (i - Len(a)) = i + 1 /\ ~(i <= Len(a))
      BY <1>1, <1>4, <2>3
    <3>2. b[i - Len(a)] = s[i + 1]
      BY <1>5, <3>1
    <3> QED
      BY <1>6, <2>1, <2>3, <3>1, <3>2
  <2> QED
    BY <2>2, <2>3
<1> QED
  BY <1>6, <1>7, <1>8, <1>9

\* Without takes at most one element out, and only one that is t.
LEMMA WithoutOne ==
    ASSUME NEW S, NEW s \in Seq(S), NEW t
    PROVE  \/ Without(s, t) = s
           \/ \E k \in 1 .. Len(s) : s[k] = t /\ Without(s, t) = RemoveAt(s, k)
<1>1. CASE ~ \E i \in 1 .. Len(s) - 1 : s[i] = t
  BY <1>1 DEF Without
<1>2. CASE \E i \in 1 .. Len(s) - 1 : s[i] = t
  <2>1. PICK k : k = CHOOSE i \in 1 .. Len(s) - 1 : s[i] = t
    OBVIOUS
  <2>2. k \in 1 .. Len(s) - 1 /\ s[k] = t
    BY <1>2, <2>1
  <2>3. Without(s, t) = RemoveAt(s, k)
    BY <1>2, <2>1 DEF Without
  <2> QED
    BY <2>2, <2>3, LenProperties
<1> QED
  BY <1>1, <1>2

-----------------------------------------------------------------------------
LEMMA InvInit == Init => IInv
<1> SUFFICES ASSUME Init PROVE IInv
  OBVIOUS
<1>1. /\ pc = "accept" /\ count = 0 /\ connections = <<>> /\ mailbox = <<>>
      /\ reader = [t \in Tid |-> "none"]
  BY DEF Init
<1>2. Spawned = {} /\ Running = {} /\ Silent = {}
  BY <1>1 DEF Spawned, Running, Silent
<1>3. DOMAIN connections = {} /\ DOMAIN mailbox = {} /\ Len(mailbox) = 0
  BY <1>1
<1>4. TypeOK
  BY <1>1 DEF TypeOK
<1>5. CountMeaning
  BY <1>1, <1>2, <1>3, FS_EmptySet DEF CountMeaning
<1>6. LiveListed /\ Senders /\ Listed
  BY <1>2, <1>3 DEF LiveListed, Senders, Listed
<1>7. InTurn
  <2>1. 0 \in 0 .. MaxAccepts /\ Spawned = 1 .. 0
    BY <1>2, RegistryAssumption
  <2> QED
    BY <2>1 DEF InTurn
<1> QED
  BY <1>4, <1>5, <1>6, <1>7 DEF IInv

LEMMA AcceptKeeps == ASSUME IInv, NEW socket \in {"running", "null"}, Accept(socket) PROVE IInv'
<1> DEFINE t == Cardinality(Spawned) + 1
<1>1. Alive /\ Alive'
  BY DEF Accept, Alive
<1>2. /\ t \in Tid \ Spawned /\ Spawned \cup {t} = 1 .. t /\ t \in 0 .. MaxAccepts
  BY <1>1, NewTid DEF IInv, Accept
<1> HIDE DEF t
<1>3. /\ reader' = [reader EXCEPT ![t] = socket] /\ connections' = Append(connections, t)
      /\ count' = count + 1 /\ pc' = "mailbox" /\ mailbox' = mailbox
      /\ reader \in [Tid -> {"none", "running", "null", "closed", "dead"}]
      /\ connections \in Seq(Tid) /\ mailbox \in Seq(Tid) /\ count \in Nat
  BY DEF Accept, IInv, TypeOK, t
<1>4. TypeOK'
  BY <1>2, <1>3 DEF TypeOK
<1>5. /\ Spawned' = Spawned \cup {t} /\ Running' = Running \cup {t} /\ t \notin Running
      /\ Silent' = Silent
  BY <1>2, <1>3 DEF Spawned, Running, Silent
<1>6. CountMeaning'
  <2>1. Running \in SUBSET Tid /\ Silent \in SUBSET Tid
    BY DEF Running, Silent
  <2>2. count = Cardinality(Running) + Cardinality(Silent) + Len(mailbox)
    BY <1>1 DEF IInv, CountMeaning
  <2>3. Cardinality(Running') = Cardinality(Running) + 1
    BY <1>2, <1>5, <2>1, Grows
  <2>4. Len(mailbox) \in Nat
    BY <1>3
  <2> QED
    BY <1>3, <1>5, <2>1, <2>2, <2>3, <2>4, TidFinite DEF CountMeaning
<1>7. /\ DOMAIN connections' = 1 .. Len(connections) + 1 /\ Len(connections) \in Nat
      /\ DOMAIN connections = 1 .. Len(connections)
      /\ connections'[Len(connections) + 1] = t
      /\ \A i \in 1 .. Len(connections) : connections'[i] = connections[i]
  BY <1>2, <1>3
<1>8. Listed'
  BY <1>1, <1>5, <1>7 DEF IInv, Listed
<1>9. LiveListed'
  <2>1. ASSUME NEW r \in Running' PROVE \E i \in DOMAIN connections' : connections'[i] = r
    <3>1. CASE r = t
      BY <1>7, <3>1
    <3>2. CASE r \in Running
      BY <1>1, <1>7, <3>2 DEF IInv, LiveListed
    <3> QED
      BY <1>5, <2>1, <3>1, <3>2
  <2>2. ASSUME NEW i \in DOMAIN connections', NEW j \in DOMAIN connections',
               connections'[i] = connections'[j]
        PROVE  i = j
    BY <1>1, <1>2, <1>7, <2>2 DEF IInv, LiveListed, Listed
  <2> QED
    BY <2>1, <2>2 DEF LiveListed
<1>10. Senders'
  BY <1>1, <1>2, <1>3 DEF IInv, Senders, Spawned
<1>11. InTurn'
  BY <1>2, <1>5 DEF InTurn
<1> QED
  BY <1>4, <1>6, <1>8, <1>9, <1>10, <1>11 DEF IInv

LEMMA RemovalKeeps == ASSUME IInv, Removal PROVE IInv'
<1>1. Alive /\ Alive' /\ pc' = "accept" /\ reader' = reader /\ mailbox # <<>>
  BY DEF Removal, Alive
<1>2. /\ connections' = Without(connections, Head(mailbox)) /\ mailbox' = Tail(mailbox)
      /\ count' = count - 1
      /\ connections \in Seq(Tid) /\ mailbox \in Seq(Tid) /\ count \in Nat
      /\ reader \in [Tid -> {"none", "running", "null", "closed", "dead"}]
  BY DEF Removal, IInv, TypeOK
<1>3. /\ Len(mailbox) \in Nat \ {0} /\ mailbox' \in Seq(Tid) /\ Len(mailbox') = Len(mailbox) - 1
      /\ DOMAIN mailbox = 1 .. Len(mailbox) /\ DOMAIN mailbox' = 1 .. Len(mailbox) - 1
      /\ Head(mailbox) = mailbox[1]
      /\ \A i \in 1 .. Len(mailbox) - 1 : mailbox'[i] = mailbox[i + 1]
  BY <1>1, <1>2
<1>4. Spawned' = Spawned /\ Running' = Running /\ Silent' = Silent
  BY <1>1 DEF Spawned, Running, Silent
<1>5. reader[Head(mailbox)] = "closed"
  BY <1>1, <1>3 DEF IInv, Senders
<1>6. count = Cardinality(Running) + Cardinality(Silent) + Len(mailbox)
  BY <1>1 DEF IInv, CountMeaning
<1>7. Cardinality(Running) \in Nat /\ Cardinality(Silent) \in Nat
  <2>1. Running \in SUBSET Tid /\ Silent \in SUBSET Tid
    BY DEF Running, Silent
  <2> QED
    BY <2>1, TidFinite
<1>8. count' \in Nat /\ CountMeaning'
  BY <1>1, <1>2, <1>3, <1>4, <1>6, <1>7 DEF CountMeaning
<1>9. /\ connections' \in Seq(Tid) /\ Listed' /\ LiveListed'
  <2>1. CASE connections' = connections
    BY <1>1, <1>2, <1>4, <2>1 DEF IInv, Listed, LiveListed
  <2>2. ASSUME NEW k \in 1 .. Len(connections), connections[k] = Head(mailbox),
               connections' = RemoveAt(connections, k)
        PROVE  connections' \in Seq(Tid) /\ Listed' /\ LiveListed'
    <3>1. /\ connections' \in Seq(Tid) /\ Len(connections) \in Nat
          /\ DOMAIN connections' = 1 .. Len(connections) - 1
          /\ DOMAIN connections = 1 .. Len(connections)
          /\ \A i \in 1 .. Len(connections) - 1 :
                connections'[i] = IF i < k THEN connections[i] ELSE connections[i + 1]
      <4>1. /\ RemoveAt(connections, k) \in Seq(Tid)
            /\ Len(RemoveAt(connections, k)) = Len(connections) - 1
            /\ \A i \in 1 .. Len(connections) - 1 :
                  RemoveAt(connections, k)[i] = IF i < k THEN connections[i] ELSE connections[i + 1]
        BY <1>2, RemoveAtOne
      <4> QED
        BY <1>2, <2>2, <4>1, LenProperties
    <3>2. ASSUME NEW i \in DOMAIN connections'
          PROVE  \E n \in DOMAIN connections :
                    connections'[i] = connections[n] /\ n = IF i < k THEN i ELSE i + 1
      BY <3>1
    <3>5. Listed'
      BY <1>1, <1>4, <3>2 DEF IInv, Listed
    <3>3. ASSUME NEW r \in Running PROVE \E i \in DOMAIN connections' : connections'[i] = r
      <4>1. PICK i \in DOMAIN connections : connections[i] = r
        BY <1>1 DEF IInv, LiveListed
      <4>2. i # k
        BY <1>5, <2>2, <3>3, <4>1 DEF Running
      <4>3. CASE i < k
        BY <3>1, <4>1, <4>3
      <4>4. CASE i > k
        <5>1. i - 1 \in 1 .. Len(connections) - 1 /\ ~(i - 1 < k) /\ (i - 1) + 1 = i
          BY <3>1, <4>4
        <5>2. connections'[i - 1] = r
          BY <3>1, <4>1, <5>1
        <5> QED
          BY <3>1, <5>1, <5>2
      <4> QED
        BY <3>1, <4>2, <4>3, <4>4
    <3>4. ASSUME NEW i \in DOMAIN connections', NEW j \in DOMAIN connections',
                 connections'[i] = connections'[j]
          PROVE  i = j
      <4>1. PICK m \in DOMAIN connections :
                connections'[i] = connections[m] /\ m = IF i < k THEN i ELSE i + 1
        BY <3>2
      <4>2. PICK n \in DOMAIN connections :
                connections'[j] = connections[n] /\ n = IF j < k THEN j ELSE j + 1
        BY <3>2
      <4>3. m = n
        BY <1>1, <3>4, <4>1, <4>2 DEF IInv, LiveListed
      <4> QED
        BY <3>1, <4>1, <4>2, <4>3
    <3> QED
      BY <1>4, <3>1, <3>5, <3>3, <3>4 DEF LiveListed
  <2> QED
    BY <1>2, <2>1, <2>2, WithoutOne
<1>10. Senders'
  BY <1>1, <1>3 DEF IInv, Senders
<1>11. InTurn'
  BY <1>1, <1>4 DEF IInv, InTurn
<1>12. TypeOK'
  BY <1>1, <1>2, <1>3, <1>8, <1>9 DEF TypeOK
<1> QED
  BY <1>8, <1>9, <1>10, <1>11, <1>12 DEF IInv

\* A step of listen() that changes neither its list and counter nor the threads.
LEMMA WaitingKeeps ==
    ASSUME IInv, Timeout \/ LimitReached
    PROVE  IInv'
<1>1. /\ Alive /\ Alive' /\ pc' \in {"accept", "returned"}
      /\ UNCHANGED <<count, connections, mailbox, reader>>
  BY DEF Timeout, LimitReached, Alive
<1>2. Spawned' = Spawned /\ Running' = Running /\ Silent' = Silent
  BY <1>1 DEF Spawned, Running, Silent
<1> QED
  BY <1>1, <1>2 DEF IInv, TypeOK, CountMeaning, LiveListed, InTurn, Senders, Listed

LEMMA CloseKeeps == ASSUME IInv, NEW t \in Tid, Close(t) PROVE IInv'
<1>1. /\ Alive /\ Alive' /\ reader[t] = "running"
      /\ reader' = [reader EXCEPT ![t] = "closed"] /\ mailbox' = Append(mailbox, t)
      /\ pc' = pc /\ count' = count /\ connections' = connections
      /\ reader \in [Tid -> {"none", "running", "null", "closed", "dead"}]
      /\ mailbox \in Seq(Tid) /\ count \in Nat
  BY DEF Close, Alive, IInv, TypeOK
<1>2. /\ Len(mailbox) \in Nat /\ Len(mailbox') = Len(mailbox) + 1
      /\ DOMAIN mailbox = 1 .. Len(mailbox) /\ DOMAIN mailbox' = 1 .. Len(mailbox) + 1
      /\ mailbox'[Len(mailbox) + 1] = t
      /\ \A i \in 1 .. Len(mailbox) : mailbox'[i] = mailbox[i]
  BY <1>1
<1>3. Spawned' = Spawned /\ Running' = Running \ {t} /\ t \in Running /\ Silent' = Silent
  BY <1>1 DEF Spawned, Running, Silent
<1>4. TypeOK'
  BY <1>1 DEF IInv, TypeOK
<1>5. CountMeaning'
  <2>1. Running \in SUBSET Tid /\ Silent \in SUBSET Tid
    BY DEF Running, Silent
  <2>2. Cardinality(Running') = Cardinality(Running) - 1
    BY <1>3, <2>1, Shrinks
  <2>3. count = Cardinality(Running) + Cardinality(Silent) + Len(mailbox)
    BY <1>1 DEF IInv, CountMeaning
  <2>4. Cardinality(Running) \in Nat /\ Cardinality(Silent) \in Nat
    BY <2>1, TidFinite
  <2>5. Cardinality(Silent') = Cardinality(Silent) /\ Len(mailbox') = Len(mailbox) + 1
    BY <1>2, <1>3
  <2>6. count' = Cardinality(Running') + Cardinality(Silent') + Len(mailbox')
    BY <1>1, <1>2, <2>2, <2>3, <2>4, <2>5
  <2> QED
    BY <2>6 DEF CountMeaning
<1>6. LiveListed' /\ Listed' /\ InTurn'
  BY <1>1, <1>3 DEF IInv, LiveListed, Listed, InTurn
<1>7. Senders'
  BY <1>1, <1>2 DEF IInv, Senders
<1> QED
  BY <1>4, <1>5, <1>6, <1>7 DEF IInv

\* A thread that dies goes from the running ones to the silent ones.
LEMMA DeathKeeps ==
    ASSUME IInv, NEW t \in Running, Alive,
           reader' = [reader EXCEPT ![t] = "dead"],
           UNCHANGED <<pc, count, connections, mailbox>>
    PROVE  IInv'
<1>1. /\ Alive' /\ t \in Tid
      /\ reader \in [Tid -> {"none", "running", "null", "closed", "dead"}]
      /\ mailbox \in Seq(Tid) /\ count \in Nat
  BY DEF Alive, IInv, TypeOK, Running
<1>2. /\ Spawned' = Spawned /\ Running' = Running \ {t}
      /\ Silent' = Silent \cup {t} /\ t \notin Silent
  BY <1>1 DEF Spawned, Running, Silent
<1>3. TypeOK'
  BY <1>1 DEF IInv, TypeOK
<1>4. CountMeaning'
  <2>1. Running \in SUBSET Tid /\ Silent \in SUBSET Tid
    BY DEF Running, Silent
  <2>2. /\ Cardinality(Running') = Cardinality(Running) - 1
        /\ Cardinality(Silent') = Cardinality(Silent) + 1
    BY <1>1, <1>2, <2>1, Shrinks, Grows
  <2>3. count = Cardinality(Running) + Cardinality(Silent) + Len(mailbox)
    BY DEF IInv, CountMeaning
  <2>4. Cardinality(Running) \in Nat /\ Cardinality(Silent) \in Nat /\ Len(mailbox) \in Nat
    BY <1>1, <2>1, TidFinite
  <2> QED
    BY <2>2, <2>3, <2>4 DEF CountMeaning
<1>5. LiveListed' /\ Listed' /\ InTurn'
  BY <1>1, <1>2 DEF IInv, LiveListed, Listed, InTurn
<1>6. Senders'
  BY <1>1 DEF IInv, Senders, Running
<1> QED
  BY <1>3, <1>4, <1>5, <1>6 DEF IInv

\* A null socket may end the process, of which nothing is claimed after that.
LEMMA NullSocketKeeps == ASSUME IInv, NEW t \in Tid, NullSocket(t) PROVE IInv'
<1>1. Alive /\ t \in Running /\ UNCHANGED <<count, connections, mailbox>>
  BY DEF NullSocket, Running
<1>2. CASE pc' = "crashed" /\ reader' = [r \in Tid |-> "none"]
  <2>1. ~Alive'
    BY <1>2 DEF Alive
  <2>2. TypeOK'
    BY <1>1, <1>2 DEF IInv, TypeOK
  <2>3. CountMeaning' /\ LiveListed'
    BY <2>1 DEF CountMeaning, LiveListed
  <2> QED
    BY <2>1, <2>2, <2>3 DEF IInv
<1>3. CASE pc' = pc /\ reader' = [reader EXCEPT ![t] = "dead"]
  BY <1>1, <1>3, DeathKeeps
<1> QED
  BY <1>2, <1>3 DEF NullSocket

LEMMA InvStep == IInv /\ [Next]_vars => IInv'
<1> SUFFICES ASSUME IInv, [Next]_vars PROVE IInv'
  OBVIOUS
<1>1. CASE Accept("running") \/ AcceptFails
  BY <1>1, AcceptKeeps DEF AcceptFails
<1>2. CASE Removal
  BY <1>2, RemovalKeeps
<1>3. CASE Timeout \/ LimitReached
  BY <1>3, WaitingKeeps
<1>4. ASSUME NEW t \in Tid, Close(t) PROVE IInv'
  BY <1>4, CloseKeeps
<1>5. ASSUME NEW t \in Tid, Die(t) PROVE IInv'
  BY <1>5, DeathKeeps DEF Die, Running
<1>6. ASSUME NEW t \in Tid, NullSocket(t) PROVE IInv'
  BY <1>6, NullSocketKeeps
<1>7. CASE UNCHANGED vars
  BY <1>7 DEF vars, IInv, TypeOK, CountMeaning, LiveListed, Alive, InTurn, Senders, Listed,
              Spawned, Running, Silent
<1> QED
  BY <1>1, <1>2, <1>3, <1>4, <1>5, <1>6, <1>7 DEF Next, Listen, Reader

LEMMA InvHolds == Spec => []IInv
<1> QED
  BY InvInit, InvStep, PTL DEF Spec

-----------------------------------------------------------------------------
\* listen's count is the number of threads that run, that died without a word, or
\* whose message is waiting: whatever the limit, a silent death takes a place.
THEOREM CountCounts == Spec => []CountMeaning
<1>1. IInv => CountMeaning
  BY DEF IInv
<1> QED
  BY <1>1, InvHolds, PTL

\* removeConnect never takes out a connection that is still running, and none is
\* listed twice.
THEOREM LiveStayListed == Spec => []LiveListed
<1>1. IInv => LiveListed
  BY DEF IInv
<1> QED
  BY <1>1, InvHolds, PTL

\* Once count was k at the head of the loop it stays there: in the middle of a
\* round it is one more.
AtLeast(k) ==
    /\ pc = "accept" => count >= k
    /\ pc = "mailbox" => count >= k + 1

LEMMA AtLeastStep ==
    ASSUME NEW k \in Nat
    PROVE  IInv /\ AtLeast(k) /\ [Next]_vars => AtLeast(k)'
<1> SUFFICES ASSUME IInv, AtLeast(k), [Next]_vars PROVE AtLeast(k)'
  OBVIOUS
<1>1. count \in Nat
  BY DEF IInv, TypeOK
<1> USE DEF AtLeast
<1>2. CASE Accept("running") \/ AcceptFails
  BY <1>1, <1>2 DEF Accept, AcceptFails
<1>3. CASE Removal \/ Timeout \/ LimitReached
  BY <1>1, <1>3 DEF Removal, Timeout, LimitReached
<1>4. CASE \E t \in Tid : Reader(t)
  BY <1>1, <1>4 DEF Reader, Close, Die, NullSocket
<1>5. CASE UNCHANGED vars
  BY <1>5 DEF vars
<1> QED
  BY <1>2, <1>3, <1>4, <1>5 DEF Next, Listen

\* Places that were given back while nobody connected are never used again: at the
\* head of the loop count never falls, whatever the limit.
THEOREM NothingRecovers == Spec => NeverRecovers
<1> SUFFICES ASSUME NEW k \in 1 .. MAX_CONNECTIONS + 1
             PROVE  Spec => [](pc = "accept" /\ count >= k => [](pc = "accept" => count >= k))
  BY DEF NeverRecovers
<1>1. k \in Nat
  BY RegistryAssumption
<1>2. IInv /\ AtLeast(k) /\ [Next]_vars => AtLeast(k)'
  BY <1>1, AtLeastStep
<1>3. pc = "accept" /\ count >= k => AtLeast(k)
  BY DEF AtLeast
<1>4. AtLeast(k) => (pc = "accept" => count >= k)
  BY DEF AtLeast
<1> QED
  BY <1>2, <1>3, <1>4, InvHolds, PTL DEF Spec
=============================================================================

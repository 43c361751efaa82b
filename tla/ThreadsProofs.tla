----------------------------- MODULE ThreadsProofs -----------------------------
(***************************************************************************)
(* For any set of threads: getSingleton hands out one object, never null.  *)
(* For any threads, logs and numbers of messages: what a log of one thread *)
(* holds when it is closed, and in which order the lines of a log of       *)
(* several threads stand.  For any alphabet: the words of the console are  *)
(* its line.  And all of it for the process of MCThreads, in which none    *)
(* disturbs the others.                                                    *)
(***************************************************************************)
EXTENDS MCThreads, SequenceTheorems, FiniteSetTheorems, InductionLemmas

(* The singleton *)

\* Exactly the thread in the monitor is between Enter and Leave.
Locked ==
    /\ \A t \in Threads : pc[t] \in {"check", "create", "leave"} <=> t \in monitor
    /\ \A s, t \in monitor : s = t

\* What a place in the code implies about the shared variable.
Places ==
    \A t \in Threads :
        /\ pc[t] = "create" => mSingleton = null
        /\ pc[t] = "leave" => mSingleton # null
        /\ pc[t] = "read" => initialized[t]
        /\ initialized[t] => mSingleton # null

\* Only the object in the shared variable was constructed or returned.
OnlyOne ==
    /\ created \subseteq {mSingleton}
    /\ \A t \in Threads : result[t] \subseteq {mSingleton} \ {null}

ObjectInv == TypeOK /\ Locked /\ Places /\ OnlyOne

LEMMA ObjectInit == Init => ObjectInv
<1> SUFFICES ASSUME Init PROVE ObjectInv
  OBVIOUS
<1>1. TypeOK
  BY DEF Init, TypeOK
<1>2. Locked /\ Places /\ OnlyOne
  BY DEF Init, Locked, Places, OnlyOne
<1> QED
  BY <1>1, <1>2 DEF ObjectInv

LEMMA ObjectTypes == TypeOK /\ [Next]_vars => TypeOK'
<1> SUFFICES ASSUME TypeOK, [Next]_vars PROVE TypeOK'
  OBVIOUS
<1>1. CASE UNCHANGED vars
  BY <1>1 DEF vars, TypeOK
<1>2. ASSUME NEW t \in Threads, Step(t) PROVE TypeOK'
  <2> USE DEF TypeOK, Goto, Return
  <2>1. CASE Call(t)
    BY <2>1 DEF Call
  <2>2. CASE ReadUnlocked(t)
    BY <2>2 DEF ReadUnlocked
  <2>3. CASE Enter(t)
    BY <2>3 DEF Enter
  <2>4. CASE Check(t)
    BY <2>4 DEF Check
  <2>5. CASE Create(t)
    BY <2>5 DEF Create
  <2>6. CASE CreateFails(t)
    BY <2>6 DEF CreateFails
  <2>7. CASE Leave(t)
    BY <2>7 DEF Leave
  <2> QED
    BY <1>2, <2>1, <2>2, <2>3, <2>4, <2>5, <2>6, <2>7 DEF Step
<1> QED
  BY <1>1, <1>2 DEF Next

LEMMA ObjectStep == ObjectInv /\ [Next]_vars => ObjectInv'
<1> SUFFICES ASSUME ObjectInv, [Next]_vars PROVE Locked' /\ Places' /\ OnlyOne'
  BY ObjectTypes DEF ObjectInv
<1> USE DEF ObjectInv, TypeOK, Locked, Places, OnlyOne
<1>1. CASE UNCHANGED vars
  BY <1>1 DEF vars
<1>2. ASSUME NEW t \in Threads, Step(t) PROVE Locked' /\ Places' /\ OnlyOne'
  <2> USE DEF Goto, Return
  <2>1. CASE Call(t)
    BY <2>1 DEF Call
  <2>2. CASE ReadUnlocked(t)
    BY <2>2 DEF ReadUnlocked
  <2>3. CASE Enter(t)
    BY <2>3 DEF Enter
  <2>4. CASE Check(t)
    BY <2>4 DEF Check
  <2>5. CASE Create(t)
    BY <2>5, SingletonAssumption DEF Create
  <2>6. CASE CreateFails(t)
    BY <2>6 DEF CreateFails
  <2>7. CASE Leave(t)
    BY <2>7 DEF Leave
  <2> QED
    BY <1>2, <2>1, <2>2, <2>3, <2>4, <2>5, <2>6, <2>7 DEF Step
<1> QED
  BY <1>1, <1>2 DEF Next

LEMMA ObjectHolds == Spec => []ObjectInv
<1> QED
  BY ObjectInit, ObjectStep, PTL DEF Spec

\* getSingleton returns the same object to every call of every thread, and
\* never null.
THEOREM SingletonIsSingle == Spec => []OneInstance
<1>1. ObjectInv => OneInstance
  BY DEF ObjectInv, OnlyOne, OneInstance
<1> QED
  BY <1>1, ObjectHolds, PTL

\* The object constructed is the one kept: no second construction replaces it.
THEOREM SingletonKept == Spec => []NoneLost
<1>1. ObjectInv => NoneLost
  BY DEF ObjectInv, OnlyOne, NoneLost
<1> QED
  BY <1>1, ObjectHolds, PTL

-----------------------------------------------------------------------------
(* The logs, of the threads Writers *)

\* A handle knows what it kept: what it wrote, then what is still in its buffer.
Handle(t, l) ==
    /\ entry[t][l] = "none" => kept[t][l] = <<>> /\ t \notin opened[l]
    /\ entry[t][l] # "none" => t \in opened[l]
    /\ entry[t][l] = "open" =>
         /\ Len(kept[t][l]) = position[t][l] + Len(buffer[t][l])
         /\ \A i \in 1 .. Len(buffer[t][l]) : buffer[t][l][i] = kept[t][l][position[t][l] + i]

\* What stands in the file while t is the only one that opened it.
OnlyWriter(t, l) ==
    opened[l] = {t} =>
        /\ entry[t][l] = "open" =>
             /\ Len(file[l]) = position[t][l]
             /\ \A i \in 1 .. position[t][l] : file[l][i] = kept[t][l][i]
        /\ entry[t][l] = "closed" => file[l] = kept[t][l]

\* The line at a place is somebody's line of that number, or nobody wrote it.
Placed(l) ==
    \A i \in DOMAIN file[l] :
        \/ file[l][i] = hole
        \/ \E t \in opened[l] : i \in DOMAIN kept[t][l] /\ file[l][i] = kept[t][l][i]

Good ==
    /\ \A t \in Writers, l \in Logs : Handle(t, l) /\ OnlyWriter(t, l)
    /\ \A l \in Logs : Placed(l)

LogInv == Shared!TypeOK /\ Good

-----------------------------------------------------------------------------
\* g is f with text written at p: its length, the places of text, and the others.
Written(g, f, p, text) ==
    /\ g \in Seq(Shared!Line \cup {hole})
    /\ Len(g) = IF text = <<>> \/ p + Len(text) < Len(f) THEN Len(f) ELSE p + Len(text)
    /\ \A i \in 1 .. Len(g) : g[i] = IF i \in p + 1 .. p + Len(text) THEN text[i - p]
                                     ELSE IF i <= Len(f) THEN f[i] ELSE hole

LEMMA WriteAtWrites ==
    ASSUME NEW f \in Seq(Shared!Line \cup {hole}), NEW p \in Nat, NEW text \in Seq(Shared!Line)
    PROVE  Written(Shared!WriteAt(f, p, text), f, p, text)
<1>1. PICK n : n = IF text = <<>> \/ p + Len(text) < Len(f) THEN Len(f) ELSE p + Len(text)
  OBVIOUS
<1>2. n \in Nat
  BY <1>1
<1>3. PICK g : g = [i \in 1 .. n |-> IF i \in p + 1 .. p + Len(text) THEN text[i - p]
                                     ELSE IF i <= Len(f) THEN f[i] ELSE hole]
  OBVIOUS
<1>4. ASSUME NEW i \in 1 .. n PROVE g[i] \in Shared!Line \cup {hole}
  <2>1. CASE i \in p + 1 .. p + Len(text)
    <3>1. i - p \in 1 .. Len(text) /\ g[i] = text[i - p]
      BY <1>2, <1>3, <2>1
    <3> QED
      BY <3>1, ElementOfSeq
  <2>2. CASE i \notin p + 1 .. p + Len(text) /\ i <= Len(f)
    <3>1. i \in 1 .. Len(f) /\ g[i] = f[i]
      BY <1>2, <1>3, <2>2
    <3> QED
      BY <3>1, ElementOfSeq
  <2> QED
    BY <1>3, <2>1, <2>2
<1>5. g \in [1 .. n -> Shared!Line \cup {hole}]
  BY <1>3, <1>4
<1>6. g \in Seq(Shared!Line \cup {hole}) /\ Len(g) = n
  BY <1>2, <1>5
<1>7. Shared!WriteAt(f, p, text) = g
  BY <1>1, <1>3 DEF Shared!WriteAt
<1>8. Written(g, f, p, text)
  BY <1>1, <1>3, <1>6 DEF Written
<1> QED
  BY <1>7, <1>8

LEMMA LogInit == Shared!Init => LogInv
<1> SUFFICES ASSUME Shared!Init PROVE LogInv
  OBVIOUS
<1>1. <<>> \in Seq(Shared!Line) /\ <<>> \in Seq(Shared!Line \cup {hole})
  OBVIOUS
<1>2. Shared!TypeOK
  BY <1>1 DEF Shared!Init, Shared!TypeOK
<1>3. Good
  BY DEF Shared!Init, Good, Handle, OnlyWriter, Placed
<1> QED
  BY <1>2, <1>3 DEF LogInv

-----------------------------------------------------------------------------
\* A thread that opens the file has kept no line of it yet.
LEMMA OpenKeeps ==
    ASSUME LogInv, NEW t \in Writers, NEW l \in Logs,
           entry[t][l] = "none", Shared!Open(t, l), given' \in [Writers -> [Logs -> Nat]],
           UNCHANGED <<running, kept>>
    PROVE  LogInv'
<1> USE DEF Shared!Open
<1>1. <<>> \in Seq(Shared!Line) /\ <<>> \in Seq(Shared!Line \cup {hole}) /\ Len(<<>>) = 0
  OBVIOUS
<1>2. Shared!TypeOK'
  BY <1>1 DEF LogInv, Shared!TypeOK
<1>3. kept[t][l] = <<>> /\ t \notin opened[l]
  BY DEF LogInv, Good, Handle
<1>4. ASSUME NEW u \in Writers, NEW m \in Logs PROVE Handle(u, m)'
  <2>1. CASE u = t /\ m = l
    BY <1>1, <1>3, <2>1 DEF LogInv, Shared!TypeOK, Handle
  <2>2. CASE ~(u = t /\ m = l)
    <3>1. /\ entry'[u][m] = entry[u][m] /\ position'[u][m] = position[u][m]
          /\ buffer'[u][m] = buffer[u][m] /\ kept'[u][m] = kept[u][m]
          /\ u \in opened'[m] <=> u \in opened[m]
      BY <2>2 DEF LogInv, Shared!TypeOK
    <3> QED
      BY <3>1 DEF LogInv, Good, Handle
  <2> QED
    BY <2>1, <2>2
<1>5. ASSUME NEW u \in Writers, NEW m \in Logs PROVE OnlyWriter(u, m)'
  <2>1. CASE m = l
    <3>1. t \in opened'[l] /\ file'[l] = <<>> /\ position'[t][l] = 0 /\ entry'[t][l] = "open"
      BY DEF LogInv, Shared!TypeOK
    <3>2. opened'[l] = {u} => u = t
      BY <3>1
    <3>3. Len(file'[l]) = 0 /\ 1 .. 0 = {}
      BY <1>1, <3>1
    <3> QED
      BY <2>1, <3>1, <3>2, <3>3 DEF OnlyWriter
  <2>2. CASE m # l
    <3>1. /\ entry'[u][m] = entry[u][m] /\ position'[u][m] = position[u][m]
          /\ file'[m] = file[m] /\ kept'[u][m] = kept[u][m] /\ opened'[m] = opened[m]
      BY <2>2 DEF LogInv, Shared!TypeOK
    <3>2. OnlyWriter(u, m)
      BY DEF LogInv, Good
    <3> QED
      BY <3>1, <3>2 DEF OnlyWriter
  <2> QED
    BY <2>1, <2>2
<1>6. ASSUME NEW m \in Logs PROVE Placed(m)'
  <2>1. CASE m = l
    BY <2>1 DEF LogInv, Shared!TypeOK, Placed
  <2>2. CASE m # l
    <3>1. file'[m] = file[m] /\ kept' = kept /\ opened'[m] = opened[m]
      BY <2>2 DEF LogInv, Shared!TypeOK
    <3> QED
      BY <3>1 DEF LogInv, Good, Placed
  <2> QED
    BY <2>1, <2>2
<1> QED
  BY <1>2, <1>4, <1>5, <1>6 DEF LogInv, Good

\* A line that finds the log open stands at the end of what the handle kept.
LEMMA WriteKeeps == ASSUME LogInv, NEW t \in Writers, NEW l \in Logs, Shared!Write(t, l) PROVE LogInv'
<1>1. PICK new : new = <<t, given'[t][l]>>
  OBVIOUS
<1>2. /\ given' = [given EXCEPT ![t][l] = @ + 1]
      /\ buffer' = [buffer EXCEPT ![t][l] = Append(@, new)]
      /\ kept' = [kept EXCEPT ![t][l] = Append(@, new)]
      /\ entry[t][l] = "open" /\ UNCHANGED <<file, entry, position, running, opened>>
  BY <1>1 DEF Shared!Write, Shared!Give
<1>3. given' \in [Writers -> [Logs -> Nat]] /\ new \in Shared!Line
  BY <1>1, <1>2 DEF LogInv, Shared!TypeOK, Shared!Line
<1>4. /\ buffer[t][l] \in Seq(Shared!Line) /\ kept[t][l] \in Seq(Shared!Line) /\ position[t][l] \in Nat
      /\ buffer'[t][l] = Append(buffer[t][l], new) /\ kept'[t][l] = Append(kept[t][l], new)
      /\ \A u \in Writers, m \in Logs :
            ~(u = t /\ m = l) => buffer'[u][m] = buffer[u][m] /\ kept'[u][m] = kept[u][m]
  <2>1. /\ buffer \in [Writers -> [Logs -> Seq(Shared!Line)]]
        /\ kept \in [Writers -> [Logs -> Seq(Shared!Line)]]
        /\ position \in [Writers -> [Logs -> Nat]]
    BY DEF LogInv, Shared!TypeOK
  <2> QED
    BY <1>2, <2>1
<1>5. Append(buffer[t][l], new) \in Seq(Shared!Line) /\ Append(kept[t][l], new) \in Seq(Shared!Line)
  BY <1>3, <1>4
<1>6. Shared!TypeOK'
  BY <1>2, <1>3, <1>5 DEF LogInv, Shared!TypeOK
<1>7. /\ Len(kept[t][l]) \in Nat /\ Len(buffer[t][l]) \in Nat
      /\ Len(kept'[t][l]) = Len(kept[t][l]) + 1 /\ Len(buffer'[t][l]) = Len(buffer[t][l]) + 1
      /\ kept'[t][l][Len(kept[t][l]) + 1] = new /\ buffer'[t][l][Len(buffer[t][l]) + 1] = new
      /\ \A i \in 1 .. Len(kept[t][l]) : kept'[t][l][i] = kept[t][l][i]
      /\ \A i \in 1 .. Len(buffer[t][l]) : buffer'[t][l][i] = buffer[t][l][i]
      /\ DOMAIN kept[t][l] = 1 .. Len(kept[t][l]) /\ DOMAIN kept'[t][l] = 1 .. Len(kept[t][l]) + 1
  <2>1. PICK k, k2 : k = kept[t][l] /\ k2 = kept'[t][l]
    OBVIOUS
  <2>2. PICK b, b2 : b = buffer[t][l] /\ b2 = buffer'[t][l]
    OBVIOUS
  <2>3. /\ k \in Seq(Shared!Line) /\ k2 = Append(k, new)
        /\ b \in Seq(Shared!Line) /\ b2 = Append(b, new)
    BY <1>4, <2>1, <2>2
  <2>4. /\ Len(k) \in Nat /\ Len(k2) = Len(k) + 1 /\ k2[Len(k) + 1] = new
        /\ \A i \in 1 .. Len(k) : k2[i] = k[i]
    BY <1>3, <2>3, AppendProperties
  <2>5. /\ Len(b) \in Nat /\ Len(b2) = Len(b) + 1 /\ b2[Len(b) + 1] = new
        /\ \A i \in 1 .. Len(b) : b2[i] = b[i]
    BY <1>3, <2>3, AppendProperties
  <2>6. DOMAIN k = 1 .. Len(k) /\ DOMAIN k2 = 1 .. Len(k) + 1
    BY <1>3, <2>3, <2>4, AppendProperties, LenProperties
  <2> QED
    BY <2>1, <2>2, <2>4, <2>5, <2>6
<1>8. ASSUME NEW u \in Writers, NEW m \in Logs PROVE Handle(u, m)'
  <2>1. CASE u = t /\ m = l
    <3>1. /\ t \in opened[l] /\ Len(kept[t][l]) = position[t][l] + Len(buffer[t][l])
          /\ \A i \in 1 .. Len(buffer[t][l]) : buffer[t][l][i] = kept[t][l][position[t][l] + i]
      BY <1>2 DEF LogInv, Good, Handle
    <3>2. Len(kept'[t][l]) = position[t][l] + Len(buffer'[t][l])
      BY <1>4, <1>7, <3>1
    <3>3. ASSUME NEW i \in 1 .. Len(buffer[t][l]) + 1
          PROVE  buffer'[t][l][i] = kept'[t][l][position[t][l] + i]
      <4>1. CASE i <= Len(buffer[t][l])
        <5>1. position[t][l] + i \in 1 .. Len(kept[t][l]) /\ i \in 1 .. Len(buffer[t][l])
          <6>1. PICK p \in Nat, b \in Nat, k \in Nat :
                   p = position[t][l] /\ b = Len(buffer[t][l]) /\ k = Len(kept[t][l])
            BY <1>4, <1>7
          <6>2. k = p + b /\ i \in 1 .. b + 1 /\ i <= b
            BY <3>1, <4>1, <6>1
          <6>3. p + i \in 1 .. k /\ i \in 1 .. b
            BY <6>2
          <6> QED
            BY <6>1, <6>3
        <5> QED
          BY <1>7, <3>1, <5>1
      <4>2. CASE ~(i <= Len(buffer[t][l]))
        <5>1. Len(buffer[t][l]) \in Nat /\ position[t][l] \in Nat
          BY <1>4
        <5>2. i = Len(buffer[t][l]) + 1
          BY <4>2, <5>1
        <5>3. position[t][l] + i = Len(kept[t][l]) + 1
          BY <3>1, <5>1, <5>2
        <5> QED
          BY <1>7, <5>2, <5>3
      <4> QED
        BY <4>1, <4>2
    <3>4. \A i \in 1 .. Len(buffer'[t][l]) :
             buffer'[t][l][i] = kept'[t][l][position[t][l] + i]
      BY <1>7, <3>3
    <3> QED
      BY <1>2, <2>1, <3>1, <3>2, <3>4 DEF Handle
  <2>2. CASE ~(u = t /\ m = l)
    BY <1>2, <1>4, <2>2 DEF LogInv, Good, Handle
  <2> QED
    BY <2>1, <2>2
<1>9. ASSUME NEW u \in Writers, NEW m \in Logs PROVE OnlyWriter(u, m)'
  <2>1. CASE u = t /\ m = l
    <3>1. position[t][l] <= Len(kept[t][l])
      BY <1>2, <1>4, <1>7 DEF LogInv, Good, Handle
    <3> QED
      BY <1>2, <1>4, <1>7, <2>1, <3>1 DEF LogInv, Good, OnlyWriter
  <2>2. CASE ~(u = t /\ m = l)
    BY <1>2, <1>4, <2>2 DEF LogInv, Good, OnlyWriter
  <2> QED
    BY <2>1, <2>2
<1>10. ASSUME NEW m \in Logs PROVE Placed(m)'
  <2>1. ASSUME NEW i \in DOMAIN file[m], file[m][i] # hole
        PROVE  \E u \in opened[m] : i \in DOMAIN kept'[u][m] /\ file[m][i] = kept'[u][m][i]
    <3>1. PICK u \in opened[m] : i \in DOMAIN kept[u][m] /\ file[m][i] = kept[u][m][i]
      BY <2>1 DEF LogInv, Good, Placed
    <3>2. u \in Writers
      BY DEF LogInv, Shared!TypeOK
    <3>3. CASE u = t /\ m = l
      <4>1. /\ i \in 1 .. Len(kept[t][l]) /\ file[m][i] = kept[t][l][i] /\ t \in opened[m]
        BY <1>7, <3>1, <3>3
      <4>2. i \in DOMAIN kept'[t][l] /\ kept'[t][l][i] = kept[t][l][i]
        BY <1>7, <4>1
      <4> QED
        BY <3>3, <4>1, <4>2
    <3>4. CASE ~(u = t /\ m = l)
      BY <1>4, <3>1, <3>2, <3>4
    <3> QED
      BY <3>1, <3>3, <3>4
  <2> QED
    BY <1>2, <2>1 DEF Placed
<1> QED
  BY <1>6, <1>8, <1>9, <1>10 DEF LogInv, Good

\* Buffers of open logs go to their files; some of the logs are closed then.
LEMMA FlushKeeps ==
    ASSUME LogInv, NEW t \in Writers, NEW S \in SUBSET Logs, Shared!Flush(t, S),
           \A l \in S : entry[t][l] = "open",
           entry' \in [Writers -> [Logs -> {"none", "open", "closed"}]],
           \A u \in Writers, l \in Logs :
              \/ entry'[u][l] = entry[u][l]
              \/ u = t /\ l \in S /\ entry'[u][l] = "closed",
           running' \subseteq running, UNCHANGED <<given, kept, opened>>
    PROVE  LogInv'
<1>1. ASSUME NEW l \in S
      PROVE  /\ file[l] \in Seq(Shared!Line \cup {hole}) /\ position[t][l] \in Nat
             /\ buffer[t][l] \in Seq(Shared!Line) /\ kept[t][l] \in Seq(Shared!Line) /\ t \in opened[l]
             /\ Len(kept[t][l]) = position[t][l] + Len(buffer[t][l])
             /\ \A i \in 1 .. Len(buffer[t][l]) :
                   buffer[t][l][i] = kept[t][l][position[t][l] + i]
  BY DEF LogInv, Shared!TypeOK, Good, Handle
<1>2. ASSUME NEW l \in S
      PROVE  /\ file'[l] = Shared!WriteAt(file[l], position[t][l], buffer[t][l])
             /\ position'[t][l] = position[t][l] + Len(buffer[t][l])
             /\ buffer'[t][l] = <<>>
  BY DEF Shared!Flush, LogInv, Shared!TypeOK
<1>3. /\ \A l \in Logs \ S : file'[l] = file[l]
      /\ \A u \in Writers, l \in Logs : u # t \/ l \notin S =>
            position'[u][l] = position[u][l] /\ buffer'[u][l] = buffer[u][l]
  BY DEF Shared!Flush, LogInv, Shared!TypeOK
<1>9. ASSUME NEW l \in S
      PROVE  Written(file'[l], file[l], position[t][l], buffer[t][l])
  <2>1. /\ file[l] \in Seq(Shared!Line \cup {hole}) /\ position[t][l] \in Nat
        /\ buffer[t][l] \in Seq(Shared!Line)
    BY <1>1
  <2>2. file'[l] = Shared!WriteAt(file[l], position[t][l], buffer[t][l])
    BY <1>2
  <2>3. Written(Shared!WriteAt(file[l], position[t][l], buffer[t][l]), file[l], position[t][l], buffer[t][l])
    BY <2>1, WriteAtWrites
  <2> QED
    BY <2>2, <2>3
<1>4. Shared!TypeOK'
  <2>1. file' \in [Logs -> Seq(Shared!Line \cup {hole})]
    <3>1. \A l \in Logs : file'[l] \in Seq(Shared!Line \cup {hole})
      BY <1>3, <1>9 DEF LogInv, Shared!TypeOK, Written
    <3> QED
      BY <3>1 DEF Shared!Flush
  <2>2. position' \in [Writers -> [Logs -> Nat]]
    <3>1. \A l \in Logs : Len(buffer[t][l]) \in Nat
      BY DEF LogInv, Shared!TypeOK
    <3> QED
      BY <3>1 DEF Shared!Flush, LogInv, Shared!TypeOK
  <2>3. buffer' \in [Writers -> [Logs -> Seq(Shared!Line)]]
    <3>1. <<>> \in Seq(Shared!Line)
      OBVIOUS
    <3> QED
      BY <3>1 DEF Shared!Flush, LogInv, Shared!TypeOK
  <2> QED
    BY <2>1, <2>2, <2>3 DEF LogInv, Shared!TypeOK
<1>5. ASSUME NEW u \in Writers, NEW l \in Logs PROVE Handle(u, l)'
  <2>1. CASE u = t /\ l \in S
    <3>1. Len(<<>>) = 0 /\ position[t][l] + Len(buffer[t][l]) \in Nat
      BY <1>1, <2>1
    <3>2. entry'[t][l] # "none" /\ entry[t][l] = "open"
      BY <2>1
    <3>3. /\ position'[t][l] = position[t][l] + Len(buffer[t][l]) /\ buffer'[t][l] = <<>>
          /\ kept'[t][l] = kept[t][l] /\ t \in opened'[l]
          /\ Len(kept[t][l]) = position[t][l] + Len(buffer[t][l])
      BY <1>1, <1>2, <2>1
    <3>4. Len(kept'[t][l]) = position'[t][l] + Len(buffer'[t][l])
      BY <3>1, <3>3
    <3>5. \A i \in 1 .. Len(buffer'[t][l]) : FALSE
      BY <3>1, <3>3
    <3> QED
      BY <2>1, <3>2, <3>3, <3>4, <3>5 DEF Handle
  <2>2. CASE u # t \/ l \notin S
    <3>1. /\ position'[u][l] = position[u][l] /\ buffer'[u][l] = buffer[u][l]
          /\ entry'[u][l] = entry[u][l] /\ kept'[u][l] = kept[u][l] /\ opened'[l] = opened[l]
      BY <1>3, <2>2
    <3>2. Handle(u, l)
      BY DEF LogInv, Good
    <3> QED
      BY <3>1, <3>2 DEF Handle
  <2> QED
    BY <2>1, <2>2
<1>6. ASSUME NEW l \in S, opened[l] = {t}
      PROVE  file'[l] = kept[t][l]
  <2>1. Len(file[l]) = position[t][l] /\ \A i \in 1 .. position[t][l] : file[l][i] = kept[t][l][i]
    BY <1>6 DEF LogInv, Good, OnlyWriter
  <2>2. PICK g : g = file'[l]
    OBVIOUS
  <2>3. /\ g \in Seq(Shared!Line \cup {hole})
        /\ Len(g) = IF buffer[t][l] = <<>> \/ position[t][l] + Len(buffer[t][l]) < Len(file[l])
                    THEN Len(file[l]) ELSE position[t][l] + Len(buffer[t][l])
        /\ \A i \in 1 .. Len(g) :
              g[i] = IF i \in position[t][l] + 1 .. position[t][l] + Len(buffer[t][l])
                     THEN buffer[t][l][i - position[t][l]]
                     ELSE IF i <= Len(file[l]) THEN file[l][i] ELSE hole
    BY <1>9, <2>2 DEF Written
  <2>4. Len(g) = Len(kept[t][l]) /\ Len(kept[t][l]) \in Nat /\ Len(buffer[t][l]) \in Nat
    BY <1>1, <2>1, <2>3
  <2>5. ASSUME NEW i \in 1 .. Len(g) PROVE g[i] = kept[t][l][i]
    <3>1. CASE i <= position[t][l]
      BY <1>1, <2>1, <2>3, <3>1
    <3>2. CASE i > position[t][l]
      <4>1. /\ i \in position[t][l] + 1 .. position[t][l] + Len(buffer[t][l])
            /\ i - position[t][l] \in 1 .. Len(buffer[t][l])
            /\ position[t][l] + (i - position[t][l]) = i
        BY <1>1, <2>4, <3>2
      <4>2. g[i] = buffer[t][l][i - position[t][l]]
        BY <2>3, <4>1
      <4>3. buffer[t][l][i - position[t][l]] = kept[t][l][position[t][l] + (i - position[t][l])]
        BY <1>1, <4>1
      <4> QED
        BY <4>1, <4>2, <4>3
    <3> QED
      BY <1>1, <3>1, <3>2
  <2>6. kept[t][l] \in Seq(Shared!Line \cup {hole})
    BY <1>1, SeqMonotonic
  <2>7. g = kept[t][l]
    BY <2>3, <2>4, <2>5, <2>6, SeqEqual
  <2> QED
    BY <2>2, <2>7
<1>7. ASSUME NEW u \in Writers, NEW l \in Logs PROVE OnlyWriter(u, l)'
  <2>1. CASE l \notin S
    BY <1>3, <2>1 DEF LogInv, Good, OnlyWriter
  <2>2. CASE l \in S /\ u # t
    <3>1. opened'[l] # {u}
      BY <1>1, <2>2
    <3> QED
      BY <3>1 DEF OnlyWriter
  <2>3. CASE l \in S /\ u = t /\ opened[l] = {t}
    <3>1. file'[l] = kept[t][l] /\ position'[t][l] = Len(kept[t][l])
      BY <1>1, <1>2, <1>6, <2>3
    <3> QED
      BY <2>3, <3>1 DEF OnlyWriter
  <2> QED
    BY <2>1, <2>2, <2>3 DEF OnlyWriter
<1>8. ASSUME NEW l \in Logs PROVE Placed(l)'
  <2>1. CASE l \notin S
    BY <1>3, <2>1 DEF LogInv, Good, Placed
  <2>2. ASSUME l \in S, NEW i \in DOMAIN file'[l], file'[l][i] # hole
        PROVE  \E u \in opened[l] : i \in DOMAIN kept[u][l] /\ file'[l][i] = kept[u][l][i]
    <3>1. /\ file'[l] \in Seq(Shared!Line \cup {hole}) /\ DOMAIN file'[l] = 1 .. Len(file'[l])
          /\ \A n \in 1 .. Len(file'[l]) :
              file'[l][n] = IF n \in position[t][l] + 1 .. position[t][l] + Len(buffer[t][l])
                            THEN buffer[t][l][n - position[t][l]]
                            ELSE IF n <= Len(file[l]) THEN file[l][n] ELSE hole
      BY <1>9, <2>2, LenProperties DEF Written
    <3>2. i \in Nat \ {0} /\ DOMAIN file[l] = 1 .. Len(file[l]) /\ Len(file[l]) \in Nat
      BY <1>1, <2>2, <3>1
    <3>3. CASE i \in position[t][l] + 1 .. position[t][l] + Len(buffer[t][l])
      <4>1. /\ i - position[t][l] \in 1 .. Len(buffer[t][l]) /\ i \in 1 .. Len(kept[t][l])
            /\ position[t][l] + (i - position[t][l]) = i /\ DOMAIN kept[t][l] = 1 .. Len(kept[t][l])
        <5>1. PICK p \in Nat, b \in Nat, k \in Nat :
                 p = position[t][l] /\ b = Len(buffer[t][l]) /\ k = Len(kept[t][l])
          BY <1>1, <2>2
        <5>2. k = p + b /\ i \in p + 1 .. p + b /\ DOMAIN kept[t][l] = 1 .. k
          BY <1>1, <2>2, <3>3, <5>1, LenProperties
        <5>3. i - p \in 1 .. b /\ i \in 1 .. k /\ p + (i - p) = i
          BY <5>2
        <5> QED
          BY <5>1, <5>2, <5>3
      <4>2. file'[l][i] = buffer[t][l][i - position[t][l]]
        BY <2>2, <3>1, <3>3
      <4>3. file'[l][i] = kept[t][l][i]
        <5>1. buffer[t][l][i - position[t][l]] =
                 kept[t][l][position[t][l] + (i - position[t][l])]
          <6>1. \A j \in 1 .. Len(buffer[t][l]) :
                   buffer[t][l][j] = kept[t][l][position[t][l] + j]
            BY <1>1, <2>2
          <6> QED
            BY <4>1, <6>1
        <5> QED
          BY <4>1, <4>2, <5>1
      <4> QED
        BY <1>1, <2>2, <4>1, <4>3
    <3>4. CASE i \notin position[t][l] + 1 .. position[t][l] + Len(buffer[t][l])
      <4>1. i \in DOMAIN file[l] /\ file'[l][i] = file[l][i]
        BY <2>2, <3>1, <3>2, <3>4
      <4> QED
        BY <2>2, <4>1 DEF LogInv, Good, Placed
    <3> QED
      BY <3>3, <3>4
  <2> QED
    BY <2>1, <2>2 DEF Placed
<1> QED
  BY <1>4, <1>5, <1>7, <1>8 DEF LogInv, Good

\* A step that leaves files, handles and what they kept as they are.
LEMMA GivingKeeps ==
    ASSUME LogInv, given' \in [Writers -> [Logs -> Nat]],
           UNCHANGED <<file, entry, position, buffer, running, kept, opened>>
    PROVE  LogInv'
<1>1. Shared!TypeOK'
  BY DEF LogInv, Shared!TypeOK
<1>2. ASSUME NEW t \in Writers, NEW l \in Logs PROVE Handle(t, l)' /\ OnlyWriter(t, l)'
  <2>1. Handle(t, l) /\ OnlyWriter(t, l)
    BY DEF LogInv, Good
  <2> QED
    BY <2>1 DEF Handle, OnlyWriter
<1>3. ASSUME NEW l \in Logs PROVE Placed(l)'
  <2>1. Placed(l)
    BY DEF LogInv, Good
  <2> QED
    BY <2>1 DEF Placed
<1> QED
  BY <1>1, <1>2, <1>3 DEF LogInv, Good

LEMMA LogStep == LogInv /\ [Shared!Next]_(Shared!vars) => LogInv'
<1> SUFFICES ASSUME LogInv, [Shared!Next]_(Shared!vars) PROVE LogInv'
  OBVIOUS
<1>1. ASSUME NEW t \in Writers, NEW l \in Logs, Shared!CreateLog(t, l) PROVE LogInv'
  <2>1. CASE Shared!Open(t, l)
    BY <1>1, <2>1, OpenKeeps DEF Shared!CreateLog, LogInv, Shared!TypeOK
  <2>2. CASE Shared!OpenFails
    <3>1. given' \in [Writers -> [Logs -> Nat]]
      BY <1>1 DEF Shared!CreateLog, LogInv, Shared!TypeOK
    <3> QED
      BY <1>1, <2>2, <3>1, GivingKeeps DEF Shared!CreateLog, Shared!OpenFails
  <2> QED
    BY <1>1, <2>1, <2>2 DEF Shared!CreateLog
<1>2. ASSUME NEW t \in Writers, NEW l \in Logs, Shared!WriteCreates(t, l) PROVE LogInv'
  <2>1. given' \in [Writers -> [Logs -> Nat]]
    BY <1>2 DEF Shared!WriteCreates, Shared!Give, LogInv, Shared!TypeOK
  <2>2. CASE Shared!Open(t, l)
    BY <1>2, <2>1, <2>2, OpenKeeps DEF Shared!WriteCreates
  <2>3. CASE Shared!OpenFails
    BY <1>2, <2>1, <2>3, GivingKeeps DEF Shared!WriteCreates, Shared!OpenFails
  <2> QED
    BY <1>2, <2>2, <2>3 DEF Shared!WriteCreates
<1>3. ASSUME NEW t \in Writers, NEW l \in Logs, Shared!Write(t, l) PROVE LogInv'
  BY <1>3, WriteKeeps
<1>4. ASSUME NEW t \in Writers, NEW l \in Logs, Shared!WriteClosed(t, l) PROVE LogInv'
  <2>1. given' \in [Writers -> [Logs -> Nat]]
    BY <1>4 DEF Shared!WriteClosed, Shared!Give, LogInv, Shared!TypeOK
  <2> QED
    BY <1>4, <2>1, GivingKeeps DEF Shared!WriteClosed
<1>5. ASSUME NEW t \in Writers, NEW l \in Logs, Shared!Spill(t, l) PROVE LogInv'
  <2>1. /\ Shared!Flush(t, {l}) /\ \A m \in {l} : entry[t][m] = "open"
        /\ UNCHANGED <<entry, running, given, kept, opened>> /\ {l} \in SUBSET Logs
    BY <1>5 DEF Shared!Spill
  <2>2. entry' \in [Writers -> [Logs -> {"none", "open", "closed"}]]
    BY <2>1 DEF LogInv, Shared!TypeOK
  <2> QED
    BY <2>1, <2>2, FlushKeeps
<1>6. ASSUME NEW t \in Writers, NEW l \in Logs, Shared!CloseLog(t, l) PROVE LogInv'
  <2>1. /\ Shared!Flush(t, {l}) /\ \A m \in {l} : entry[t][m] = "open"
        /\ UNCHANGED <<running, given, kept, opened>> /\ {l} \in SUBSET Logs
        /\ entry' = [entry EXCEPT ![t][l] = "closed"]
    BY <1>6 DEF Shared!CloseLog
  <2>2. /\ entry' \in [Writers -> [Logs -> {"none", "open", "closed"}]]
        /\ \A u \in Writers, m \in Logs :
              entry'[u][m] = entry[u][m] \/ (u = t /\ m \in {l} /\ entry'[u][m] = "closed")
    BY <2>1 DEF LogInv, Shared!TypeOK
  <2> QED
    BY <2>1, <2>2, FlushKeeps
<1>7. ASSUME NEW t \in Writers, Shared!End(t) PROVE LogInv'
  <2>1. PICK S \in SUBSET Logs : S = {l \in Logs : entry[t][l] = "open"}
    OBVIOUS
  <2>2. /\ Shared!Flush(t, S) /\ \A l \in S : entry[t][l] = "open"
        /\ running' \subseteq running /\ UNCHANGED <<given, kept, opened>>
        /\ entry' = [entry EXCEPT ![t] = [l \in Logs |-> IF @[l] = "open" THEN "closed" ELSE @[l]]]
    BY <1>7, <2>1 DEF Shared!End
  <2>3. /\ entry' \in [Writers -> [Logs -> {"none", "open", "closed"}]]
        /\ \A u \in Writers, m \in Logs :
              entry'[u][m] = entry[u][m] \/ (u = t /\ m \in S /\ entry'[u][m] = "closed")
    BY <2>1, <2>2 DEF LogInv, Shared!TypeOK
  <2> QED
    BY <2>2, <2>3, FlushKeeps
<1>8. CASE UNCHANGED Shared!vars
  <2>1. given' \in [Writers -> [Logs -> Nat]]
    BY <1>8 DEF Shared!vars, LogInv, Shared!TypeOK
  <2> QED
    BY <1>8, <2>1, GivingKeeps DEF Shared!vars
<1> QED
  BY <1>1, <1>2, <1>3, <1>4, <1>5, <1>6, <1>7, <1>8 DEF Shared!Next

LEMMA LogHolds == Shared!Spec => []LogInv
<1> QED
  BY LogInit, LogStep, PTL DEF Shared!Spec

-----------------------------------------------------------------------------
\* The log of one thread, once closed, is what that thread gave to it while it was
\* open, for any number of threads, logs and messages.
THEOREM OwnLogIsWhole == Shared!Spec => []Shared!OwnLogWhole
<1>1. LogInv => Shared!OwnLogWhole
  BY DEF LogInv, Good, OnlyWriter, Shared!OwnLogWhole
<1> QED
  BY <1>1, LogHolds, PTL

\* A line of a log several threads wrote to stands at its number among the lines of
\* its thread.
THEOREM LinesKeepTheirPlace == Shared!Spec => []Shared!LinesAtTheirPlace
<1>1. LogInv => Shared!LinesAtTheirPlace
  BY DEF LogInv, Good, Placed, Shared!LinesAtTheirPlace
<1> QED
  BY <1>1, LogHolds, PTL

-----------------------------------------------------------------------------
(* The words of a line *)

\* r counts the elements of E below each number up to n + 1.
Counts(r, E, n) ==
    /\ r \in [1 .. n + 1 -> Nat] /\ r[1] = 0
    /\ \A p \in 1 .. n : r[p + 1] = IF p \in E THEN r[p] + 1 ELSE r[p]

LEMMA CountsAreSizes ==
    ASSUME NEW n \in Nat, NEW E \in SUBSET (1 .. n)
    PROVE  /\ Counts([p \in 1 .. n + 1 |-> Cardinality({m \in E : m < p})], E, n)
           /\ Cardinality({m \in E : m < n + 1}) = Cardinality(E)
<1> DEFINE Below(p) == {m \in E : m < p}
<1>1. IsFiniteSet(E)
  <2>1. IsFiniteSet(1 .. n)
    BY FS_Interval
  <2> QED
    BY <2>1, FS_Subset
<1>2. \A p : IsFiniteSet(Below(p))
  <2>1. \A p : Below(p) \in SUBSET E
    OBVIOUS
  <2> HIDE DEF Below
  <2> QED
    BY <1>1, <2>1, FS_Subset
<1>3. \A p : Cardinality(Below(p)) \in Nat
  <2> HIDE DEF Below
  <2> QED
    BY <1>2, FS_CardinalityType
<1>4. Below(1) = {} /\ Below(n + 1) = E
  <2>1. \A m \in E : m \in Nat /\ ~(m < 1) /\ m < n + 1
    OBVIOUS
  <2> QED
    BY <2>1
<1>5. ASSUME NEW p \in 1 .. n
      PROVE  Cardinality(Below(p + 1)) =
                IF p \in E THEN Cardinality(Below(p)) + 1 ELSE Cardinality(Below(p))
  <2>1. p \notin Below(p)
    OBVIOUS
  <2>2. CASE p \in E
    <3>1. Below(p + 1) = Below(p) \cup {p}
      <4>1. \A m \in E : m < p + 1 <=> m < p \/ m = p
        OBVIOUS
      <4>2. p < p + 1
        OBVIOUS
      <4> QED
        BY <2>2, <4>1, <4>2
    <3> HIDE DEF Below
    <3> QED
      BY <1>2, <2>1, <2>2, <3>1, FS_AddElement
  <2>3. CASE p \notin E
    <3>1. Below(p + 1) = Below(p)
      <4>1. \A m \in E : m < p + 1 <=> m < p \/ m = p
        OBVIOUS
      <4> QED
        BY <2>3, <4>1
    <3> HIDE DEF Below
    <3> QED
      BY <2>3, <3>1
  <2> QED
    BY <2>2, <2>3
<1>6. Cardinality(Below(1)) = 0 /\ Cardinality(Below(n + 1)) = Cardinality(E)
  <2> HIDE DEF Below
  <2> QED
    BY <1>4, FS_EmptySet
<1>7. Counts([p \in 1 .. n + 1 |-> Cardinality(Below(p))], E, n)
  <2>1. 1 \in 1 .. n + 1 /\ \A p \in 1 .. n : p \in 1 .. n + 1 /\ p + 1 \in 1 .. n + 1
    OBVIOUS
  <2> HIDE DEF Below
  <2> QED
    BY <1>3, <1>5, <1>6, <2>1 DEF Counts
<1> QED
  BY <1>6, <1>7

NeverFalls(r, n) == \A p, q \in 1 .. n + 1 : p <= q => r[p] <= r[q]

MeetsAll(r, E, top) == \A k \in Nat : k < top => \E x \in E : r[x] = k

\* Each count below the last is that of one element, and counts do not fall.
LEMMA CountsMeet ==
    ASSUME NEW n \in Nat, NEW E \in SUBSET (1 .. n), NEW r, Counts(r, E, n)
    PROVE  NeverFalls(r, n) /\ MeetsAll(r, E, r[n + 1])
<1>1. /\ r \in [1 .. n + 1 -> Nat] /\ r[1] = 0
      /\ \A p \in 1 .. n : r[p + 1] = IF p \in E THEN r[p] + 1 ELSE r[p]
  BY DEF Counts
<1> DEFINE T == {q \in Nat : q + 1 \in 1 .. n + 1 => \A p \in 1 .. q + 1 : r[p] <= r[q + 1]}
           U == {q \in Nat : q + 1 \in 1 .. n + 1 =>
                                \A k \in Nat : k < r[q + 1] => \E x \in E : r[x] = k}
<1>2. 0 \in T /\ 0 \in U
  <2>1. \A p \in 1 .. 0 + 1 : p = 1
    OBVIOUS
  <2>2. r[0 + 1] = 0
    BY <1>1
  <2> QED
    BY <1>1, <2>1, <2>2
<1>3. ASSUME NEW q \in Nat, q \in T, q \in U PROVE q + 1 \in T /\ q + 1 \in U
  <2>1. SUFFICES ASSUME (q + 1) + 1 \in 1 .. n + 1
                 PROVE  /\ \A p \in 1 .. (q + 1) + 1 : r[p] <= r[(q + 1) + 1]
                        /\ \A k \in Nat : k < r[(q + 1) + 1] => \E x \in E : r[x] = k
    OBVIOUS
  <2>2. q + 1 \in 1 .. n + 1 /\ q + 1 \in 1 .. n
    BY <2>1
  <2>3. PICK a \in Nat, b \in Nat : a = r[q + 1] /\ b = r[(q + 1) + 1]
    BY <1>1, <2>1, <2>2
  <2>4. b = IF q + 1 \in E THEN a + 1 ELSE a
    BY <1>1, <2>2, <2>3
  <2>5. ASSUME NEW p \in 1 .. (q + 1) + 1 PROVE r[p] <= b
    <3>1. CASE p = (q + 1) + 1
      BY <2>3, <3>1
    <3>2. CASE p # (q + 1) + 1
      <4>1. p \in 1 .. q + 1 /\ p \in 1 .. n + 1
        BY <2>1, <3>2
      <4>2. r[p] <= a /\ r[p] \in Nat
        BY <1>1, <1>3, <2>2, <2>3, <4>1
      <4> QED
        BY <2>4, <4>2
    <3> QED
      BY <3>1, <3>2
  <2>6. ASSUME NEW k \in Nat, k < b PROVE \E x \in E : r[x] = k
    <3>1. CASE k < a
      BY <1>3, <2>2, <2>3, <3>1
    <3>2. CASE ~(k < a)
      <4>1. q + 1 \in E /\ k = a
        BY <2>4, <2>6, <3>2
      <4> QED
        BY <2>3, <4>1
    <3> QED
      BY <3>1, <3>2
  <2> QED
    BY <2>3, <2>5, <2>6
<1> DEFINE V == T \cap U
<1>4. V = T \cap U
  OBVIOUS
<1> HIDE DEF T, U, V
<1>5. Nat \subseteq V
  BY <1>2, <1>3, <1>4, Induction
<1>6. ASSUME NEW p \in 1 .. n + 1, NEW q \in 1 .. n + 1, p <= q PROVE r[p] <= r[q]
  <2>1. PICK i \in Nat : i + 1 = q
    <3>1. q - 1 \in Nat /\ (q - 1) + 1 = q
      OBVIOUS
    <3> QED
      BY <3>1
  <2>2. i \in T
    BY <1>4, <1>5
  <2>3. p \in 1 .. i + 1
    BY <1>6, <2>1
  <2> QED
    BY <2>1, <2>2, <2>3 DEF T
<1>7. n \in U /\ n + 1 \in 1 .. n + 1
  BY <1>4, <1>5
<1> QED
  BY <1>6, <1>7 DEF U, NeverFalls, MeetsAll

\* The words of a line lie between the places of its blanks, which e gives in their
\* order, and its last character.
Cuts(text, K, e) ==
    /\ K \in Nat \ {0} /\ e \in [0 .. K -> 0 .. Len(text)]
    /\ e[0] = 0 /\ e[K] = Len(text)
    /\ \A k \in 1 .. K : e[k - 1] < e[k]
    /\ \A k \in 1 .. K - 1 : text[e[k]] = " "
    /\ \A k \in 1 .. K : \A i \in e[k - 1] + 1 .. e[k] - 1 : text[i] # " "

LEMMA SameSize == \A S : Terminal!Cardinality(S) = Cardinality(S)
BY DEF Terminal!Cardinality, Cardinality

LEMMA WordsAreCut ==
    ASSUME NEW C, NEW text \in Seq(C), text # <<>>
    PROVE  \E K, e :
              /\ Cuts(text, K, e)
              /\ Terminal!Translate(text) =
                    [k \in 1 .. K |-> SubSeq(text, e[k - 1] + 1, e[k] - 1)]
<1>1. PICK n \in Nat : n = Len(text) /\ DOMAIN text = 1 .. n /\ n # 0
  BY EmptySeq
<1> DEFINE E == {i \in DOMAIN text : text[i] = " " \/ i = Len(text)}
           K == Terminal!Cardinality(E)
           End(k) == CHOOSE x \in E : Terminal!Cardinality({m \in E : m < x}) = k - 1
           Before(i) == CHOOSE x \in E \cup {0} : x < i /\ \A m \in E : m <= x \/ m >= i
<1>2. \A i \in 1 .. n : i \in E <=> text[i] = " " \/ i = n
  BY <1>1
<1>3. E \in SUBSET (1 .. n) /\ n \in E
  <2>1. n \in 1 .. n
    BY <1>1
  <2>2. E \subseteq 1 .. n
    BY <1>1
  <2> QED
    BY <1>2, <2>1, <2>2
<1>0. Terminal!Translate(text) =
        [k \in 1 .. K |-> SubSeq(text, Before(End(k)) + 1, End(k) - 1)]
  BY DEF Terminal!Translate
<1>5. K = Cardinality(E)
  BY SameSize
<1> HIDE DEF E, K, Before, End
<1>4. PICK r : r = [p \in 1 .. n + 1 |-> Cardinality({m \in E : m < p})]
  OBVIOUS
<1>6. Counts(r, E, n) /\ r[n + 1] = K
  <2>1. n + 1 \in 1 .. n + 1
    OBVIOUS
  <2> QED
    BY <1>3, <1>4, <1>5, <2>1, CountsAreSizes
<1>7. /\ \A p, q \in 1 .. n + 1 : p <= q => r[p] <= r[q]
      /\ \A k \in Nat : k < K => \E x \in E : r[x] = k
  <2>1. NeverFalls(r, n) /\ MeetsAll(r, E, r[n + 1])
    BY <1>3, <1>6, CountsMeet, Zenon
  <2> QED
    BY <1>6, <2>1 DEF NeverFalls, MeetsAll
<1>8. \A x \in E : x \in 1 .. n /\ x \in 1 .. n + 1 /\ x + 1 \in 1 .. n + 1
  BY <1>3
<1>9. /\ r \in [1 .. n + 1 -> Nat]
      /\ \A x \in E : r[x] \in Nat /\ r[x + 1] = r[x] + 1
      /\ n + 1 \in 1 .. n + 1
  BY <1>6, <1>8 DEF Counts
<1>10. \A x \in E, y \in 1 .. n + 1 : x < y => r[x] < r[y]
  <2>1. SUFFICES ASSUME NEW x \in E, NEW y \in 1 .. n + 1, x < y PROVE r[x] < r[y]
    OBVIOUS
  <2>2. x + 1 <= y
    BY <1>8, <2>1
  <2>3. r[x + 1] <= r[y]
    BY <1>7, <1>8, <2>2
  <2>4. r[x] \in Nat /\ r[y] \in Nat /\ r[x + 1] = r[x] + 1
    BY <1>9
  <2> QED
    BY <2>3, <2>4
<1>11. K = r[n] + 1 /\ K \in Nat \ {0} /\ r[n] = K - 1
  BY <1>3, <1>6, <1>9
<1>12. \A x \in E : Cardinality({m \in E : m < x}) = r[x]
  BY <1>4, <1>8
<1>13. ASSUME NEW k \in 1 .. K PROVE End(k) \in E /\ r[End(k)] = k - 1
  <2>1. k - 1 \in Nat /\ k - 1 < K
    BY <1>11
  <2>2. PICK y \in E : r[y] = k - 1
    BY <1>7, <2>1
  <2>3. Terminal!Cardinality({m \in E : m < y}) = k - 1
    BY <1>12, <2>2, SameSize
  <2>4. End(k) \in E /\ Terminal!Cardinality({m \in E : m < End(k)}) = k - 1
    BY <2>3 DEF End
  <2> QED
    BY <1>12, <2>4, SameSize
<1>14. \A x, y \in E : r[x] = r[y] => x = y
  <2>1. SUFFICES ASSUME NEW x \in E, NEW y \in E, r[x] = r[y] PROVE x = y
    OBVIOUS
  <2>2. x \in 1 .. n + 1 /\ y \in 1 .. n + 1 /\ r[x] \in Nat
    BY <1>8, <1>9
  <2>3. ~(x < y) /\ ~(y < x)
    BY <1>10, <2>1, <2>2
  <2> QED
    BY <2>2, <2>3
<1>15. End(K) = n
  <2>1. K \in 1 .. K
    BY <1>11
  <2> QED
    BY <1>3, <1>11, <1>13, <1>14, <2>1
<1>16. PICK e : e = [k \in 0 .. K |-> IF k = 0 THEN 0 ELSE End(k)]
  OBVIOUS
<1>17. e[0] = 0 /\ \A k \in 1 .. K : e[k] = End(k) /\ e[k] \in E /\ r[e[k]] = k - 1
  <2>1. 0 \in 0 .. K /\ \A k \in 1 .. K : k \in 0 .. K /\ k # 0
    BY <1>11
  <2> QED
    BY <1>13, <1>16, <2>1
<1>18. e \in [0 .. K -> 0 .. n]
  <2>1. \A k \in 0 .. K : k = 0 \/ k \in 1 .. K
    BY <1>11
  <2>2. \A k \in 0 .. K : e[k] \in 0 .. n
    BY <1>8, <1>17, <2>1
  <2> QED
    BY <1>16, <2>2
\* Between two neighbours there is no end, below the first there is none.
<1>19. ASSUME NEW k \in 1 .. K
       PROVE  /\ e[k - 1] \in E \cup {0} /\ e[k - 1] < e[k]
              /\ \A m \in E : m <= e[k - 1] \/ m >= e[k]
  <2>1. e[k] \in E /\ r[e[k]] = k - 1 /\ e[k] \in 1 .. n /\ e[k] \in 1 .. n + 1
    BY <1>8, <1>17
  <2>2. CASE k = 1
    <3>1. e[k - 1] = 0
      BY <1>17, <2>2
    <3>2. ASSUME NEW m \in E PROVE m >= e[k]
      <4>1. m \in 1 .. n /\ r[m] \in Nat /\ r[e[k]] = 0
        BY <1>8, <1>9, <2>1, <2>2
      <4>2. ~(m < e[k])
        BY <1>10, <2>1, <4>1
      <4> QED
        BY <2>1, <4>1, <4>2
    <3> QED
      BY <2>1, <3>1, <3>2
  <2>3. CASE k # 1
    <3>1. PICK i \in 1 .. K : i = k - 1
      <4>1. k - 1 \in 1 .. K
        BY <1>11, <2>3
      <4> QED
        BY <4>1
    <3>2. e[i] \in E /\ r[e[i]] = i - 1 /\ e[i] \in 1 .. n /\ e[i] \in 1 .. n + 1
      BY <1>8, <1>17
    <3>3. e[i] < e[k]
      <4>1. ~(e[k] < e[i]) /\ e[k] # e[i]
        BY <1>10, <2>1, <3>1, <3>2
      <4> QED
        BY <2>1, <3>2, <4>1
    <3>4. ASSUME NEW m \in E, e[i] < m, m < e[k] PROVE FALSE
      <4>1. r[m] \in Nat /\ m \in 1 .. n + 1
        BY <1>8, <1>9
      <4>2. r[e[i]] < r[m] /\ r[m] < r[e[k]]
        BY <1>10, <2>1, <3>2, <3>4, <4>1
      <4> QED
        BY <2>1, <3>1, <3>2, <4>1, <4>2
    <3>5. \A m \in E : m <= e[i] \/ m >= e[k]
      BY <1>8, <2>1, <3>2, <3>4
    <3> QED
      BY <3>1, <3>2, <3>3, <3>5
  <2> QED
    BY <2>2, <2>3
<1>20. ASSUME NEW k \in 1 .. K
       PROVE  Before(e[k]) = e[k - 1]
  <2>1. e[k] \in E /\ e[k] \in 1 .. n
    BY <1>8, <1>17
  <2>2. PICK a : a = e[k - 1]
    OBVIOUS
  <2>3. a \in E \cup {0} /\ a < e[k] /\ \A m \in E : m <= a \/ m >= e[k]
    BY <1>19, <2>2
  <2>4. ASSUME NEW x \in E \cup {0}, x < e[k], \A m \in E : m <= x \/ m >= e[k] PROVE x = a
    <3>1. x \in Nat /\ a \in Nat /\ (x = 0 \/ x \in E) /\ (a = 0 \/ a \in E)
      BY <1>8, <2>3
    <3>2. ~(x < a)
      BY <2>1, <2>3, <2>4, <3>1
    <3>3. ~(a < x)
      BY <2>1, <2>3, <2>4, <3>1
    <3> QED
      BY <3>1, <3>2, <3>3
  <2>5. /\ Before(e[k]) \in E \cup {0} /\ Before(e[k]) < e[k]
        /\ \A m \in E : m <= Before(e[k]) \/ m >= e[k]
    BY <2>3 DEF Before
  <2> QED
    BY <2>2, <2>4, <2>5
<1>21. Cuts(text, K, e)
  <2>1. e[K] = Len(text)
    <3>1. K \in 1 .. K
      BY <1>11
    <3> QED
      BY <1>1, <1>15, <1>17, <3>1
  <2>2. \A k \in 1 .. K : e[k - 1] < e[k]
    BY <1>19
  <2>3. ASSUME NEW k \in 1 .. K - 1 PROVE text[e[k]] = " "
    <3>1. k \in 1 .. K /\ k + 1 \in 1 .. K /\ (k + 1) - 1 = k
      BY <1>11
    <3>2. e[k] \in E /\ e[k] \in 1 .. n /\ e[k + 1] \in 1 .. n
      BY <1>8, <1>17, <3>1
    <3>3. e[k] < e[k + 1]
      BY <1>19, <3>1
    <3>4. e[k] # n
      BY <3>2, <3>3
    <3> QED
      BY <1>1, <1>2, <3>2, <3>4
  <2>4. ASSUME NEW k \in 1 .. K, NEW i \in e[k - 1] + 1 .. e[k] - 1 PROVE text[i] # " "
    <3>1. PICK a \in 0 .. n, b \in 1 .. n : a = e[k - 1] /\ b = e[k]
      <4>1. k - 1 \in 0 .. K
        BY <1>11
      <4> QED
        BY <1>8, <1>17, <1>18, <4>1
    <3>2. i \in 1 .. n /\ ~(i <= a) /\ ~(i >= b)
      BY <3>1
    <3>3. i \notin E
      BY <1>19, <3>1, <3>2
    <3> QED
      BY <1>1, <1>2, <3>2, <3>3
  <2> QED
    BY <1>1, <1>11, <1>17, <1>18, <2>1, <2>2, <2>3, <2>4 DEF Cuts
<1>22. Terminal!Translate(text) = [k \in 1 .. K |-> SubSeq(text, e[k - 1] + 1, e[k] - 1)]
  <2>1. \A k \in 1 .. K : End(k) = e[k] /\ Before(End(k)) = e[k - 1]
    BY <1>17, <1>20
  <2> QED
    BY <1>0, <2>1
<1> QED
  BY <1>21, <1>22

\* Cut at a blank, a beginning of a line is what is before it, the blank and the rest.
CutIn(text, D, blank, a, b) ==
    /\ SubSeq(text, 1, a - 1) \in Seq(D)
    /\ <<blank>> \o SubSeq(text, a + 1, b - 1) \in Seq(D)
    /\ SubSeq(text, 1, b - 1)
          = SubSeq(text, 1, a - 1) \o (<<blank>> \o SubSeq(text, a + 1, b - 1))

LEMMA CutAtBlank ==
    ASSUME NEW D, NEW blank \in D, NEW text \in Seq(D), NEW a \in Nat, NEW b \in Nat,
           1 <= a, a < b, b <= Len(text), text[a] = blank
    PROVE  CutIn(text, D, blank, a, b)
<1>1. PICK n \in Nat : n = Len(text) /\ b <= n /\ \A i \in 1 .. n : text[i] \in D
  BY ElementOfSeq
<1>2. PICK left, right, one, whole :
         /\ left = SubSeq(text, 1, a - 1) /\ right = SubSeq(text, a + 1, b - 1)
         /\ one = <<blank>> /\ whole = SubSeq(text, 1, b - 1)
  OBVIOUS
<1>3. /\ left \in Seq(D) /\ Len(left) = a - 1
      /\ \A i \in 1 .. a - 1 : left[i] = text[i]
  <2>1. a - 1 \in Int /\ \A i \in 1 .. a - 1 : text[i] \in D
    BY <1>1
  <2> QED
    BY <1>2, <2>1, SubSeqProperties
<1>4. /\ whole \in Seq(D) /\ Len(whole) = b - 1
      /\ \A i \in 1 .. b - 1 : whole[i] = text[i]
  <2>1. b - 1 \in Int /\ 1 <= b - 1 /\ \A i \in 1 .. b - 1 : text[i] \in D
    BY <1>1
  <2> QED
    BY <1>2, <2>1, SubSeqProperties
<1>5. /\ right \in Seq(D) /\ Len(right) = (b - 1) - a
      /\ \A i \in 1 .. (b - 1) - a : right[i] = text[a + i]
  <2>1. /\ a + 1 \in Int /\ b - 1 \in Int
        /\ \A i \in a + 1 .. b - 1 : text[i] \in D
    BY <1>1
  <2>2. /\ right \in Seq(D) /\ Len(right) = IF a + 1 <= b - 1 THEN (b - 1) - (a + 1) + 1 ELSE 0
        /\ \A i \in 1 .. (b - 1) - (a + 1) + 1 : right[i] = text[(a + 1) + i - 1]
    BY <1>2, <2>1, SubSeqProperties
  <2>3. \A i \in 1 .. (b - 1) - a :
           i \in 1 .. (b - 1) - (a + 1) + 1 /\ (a + 1) + i - 1 = a + i
    OBVIOUS
  <2>4. (IF a + 1 <= b - 1 THEN (b - 1) - (a + 1) + 1 ELSE 0) = (b - 1) - a
    OBVIOUS
  <2> QED
    BY <2>2, <2>3, <2>4
<1>6. one \in Seq(D) /\ Len(one) = 1 /\ one[1] = blank
  BY <1>2
<1>7. PICK tail : tail = one \o right
  OBVIOUS
<1>8. /\ tail \in Seq(D) /\ Len(tail) = b - a
      /\ \A i \in 1 .. b - a : tail[i] = IF i <= 1 THEN one[i] ELSE right[i - 1]
  <2>1. /\ tail \in Seq(D) /\ Len(tail) = Len(one) + Len(right)
        /\ \A i \in 1 .. Len(one) + Len(right) :
              tail[i] = IF i <= Len(one) THEN one[i] ELSE right[i - Len(one)]
    BY <1>5, <1>6, <1>7, ConcatProperties
  <2>2. Len(one) + Len(right) = b - a
    BY <1>5, <1>6
  <2> QED
    BY <1>6, <2>1, <2>2
<1>9. \A i \in 1 .. b - a : tail[i] = text[(a - 1) + i]
  <2>1. SUFFICES ASSUME NEW i \in 1 .. b - a PROVE tail[i] = text[(a - 1) + i]
    OBVIOUS
  <2>2. CASE i = 1
    BY <1>6, <1>8, <2>2
  <2>3. CASE i # 1
    <3>1. i - 1 \in 1 .. (b - 1) - a /\ a + (i - 1) = (a - 1) + i /\ ~(i <= 1)
      BY <2>3
    <3> QED
      BY <1>5, <1>8, <3>1
  <2> QED
    BY <2>2, <2>3
<1>10. PICK all : all = left \o tail
  OBVIOUS
<1>11. /\ all \in Seq(D) /\ Len(all) = b - 1
       /\ \A i \in 1 .. b - 1 : all[i] = IF i <= a - 1 THEN left[i] ELSE tail[i - (a - 1)]
  <2>1. /\ all \in Seq(D) /\ Len(all) = Len(left) + Len(tail)
        /\ \A i \in 1 .. Len(left) + Len(tail) :
              all[i] = IF i <= Len(left) THEN left[i] ELSE tail[i - Len(left)]
    BY <1>3, <1>8, <1>10, ConcatProperties
  <2>2. Len(left) + Len(tail) = b - 1
    BY <1>3, <1>8
  <2> QED
    BY <1>3, <2>1, <2>2
<1>12. ASSUME NEW i \in 1 .. b - 1 PROVE all[i] = whole[i]
  <2>1. CASE i <= a - 1
    BY <1>3, <1>4, <1>11, <2>1
  <2>2. CASE ~(i <= a - 1)
    <3>1. i - (a - 1) \in 1 .. b - a /\ (a - 1) + (i - (a - 1)) = i
      BY <2>2
    <3> QED
      BY <1>4, <1>9, <1>11, <2>2, <3>1
  <2> QED
    BY <2>1, <2>2
<1>13. all = whole
  BY <1>4, <1>11, <1>12, SeqEqual
<1> QED
  BY <1>2, <1>3, <1>7, <1>8, <1>10, <1>13 DEF CutIn

\* What Joined puts together: the words, with a blank before each but the first.
Parts(words, blank) ==
    [k \in DOMAIN words |-> IF k = 1 THEN words[k] ELSE <<blank>> \o words[k]]

LEMMA JoinedIs == \A words : Terminal!Joined(words) = FlattenSeq(Parts(words, " "))
BY DEF Terminal!Joined, Terminal!FlattenSeq, FlattenSeq, Parts

\* The text is cut at blanks and at its last character.
CutsAt(text, K, e, blank) ==
    /\ K \in Nat \ {0} /\ e \in [0 .. K -> 0 .. Len(text)]
    /\ e[0] = 0 /\ e[K] = Len(text)
    /\ \A k \in 1 .. K : e[k - 1] < e[k]
    /\ \A k \in 1 .. K - 1 : text[e[k]] = blank
    /\ \A k \in 1 .. K : \A i \in e[k - 1] + 1 .. e[k] - 1 : text[i] # blank

\* Words that lie between blanks, joined with blanks, are the line.
LEMMA CutsJoin ==
    ASSUME NEW D, NEW blank \in D, NEW text \in Seq(D), NEW K, NEW e,
           CutsAt(text, K, e, blank),
           NEW words, words = [k \in 1 .. K |-> SubSeq(text, e[k - 1] + 1, e[k] - 1)]
    PROVE  FlattenSeq(Parts(words, blank)) = SubSeq(text, 1, Len(text) - 1)
<1>0. /\ K \in Nat \ {0} /\ e \in [0 .. K -> 0 .. Len(text)]
      /\ e[0] = 0 /\ e[K] = Len(text)
      /\ \A k \in 1 .. K : e[k - 1] < e[k]
      /\ \A k \in 1 .. K - 1 : text[e[k]] = blank
      /\ \A k \in 1 .. K : \A i \in e[k - 1] + 1 .. e[k] - 1 : text[i] # blank
  BY DEF CutsAt
<1> USE <1>0
<1>1. PICK n \in Nat : n = Len(text)
  OBVIOUS
<1>2. e \in [0 .. K -> 0 .. n] /\ \A i \in 1 .. n : text[i] \in D
  BY <1>1, ElementOfSeq
<1> DEFINE g == [k \in 0 .. K |-> IF k = 0 THEN <<>> ELSE SubSeq(text, 1, e[k] - 1)]
<1>3. PICK parts : parts = Parts(words, blank)
  OBVIOUS
<1>4. \A k \in 1 .. K : parts[k] =
         IF k = 1 THEN SubSeq(text, e[0] + 1, e[1] - 1)
         ELSE <<blank>> \o SubSeq(text, e[k - 1] + 1, e[k] - 1)
  <2>1. \A k \in 1 .. K : parts[k] = IF k = 1 THEN words[k] ELSE <<blank>> \o words[k]
    BY <1>3 DEF Parts
  <2>2. \A k \in 1 .. K : words[k] = SubSeq(text, e[k - 1] + 1, e[k] - 1)
    OBVIOUS
  <2>3. 1 \in 1 .. K /\ 1 - 1 = 0
    OBVIOUS
  <2>4. words[1] = SubSeq(text, e[0] + 1, e[1] - 1)
    BY <2>2, <2>3
  <2> QED
    BY <2>1, <2>2, <2>4
<1>5. parts = [k \in 1 .. K |-> parts[k]]
  BY <1>3 DEF Parts
<1>6. ASSUME NEW k \in 1 .. K
      PROVE  /\ e[k] \in Nat /\ 1 <= e[k] /\ e[k] <= n
             /\ SubSeq(text, 1, e[k] - 1) \in Seq(D)
  <2>1. k - 1 \in 0 .. K /\ k \in 0 .. K
    OBVIOUS
  <2>2. PICK a \in 0 .. n, b \in 0 .. n : a = e[k - 1] /\ b = e[k]
    BY <1>2, <2>1
  <2>3. a < b
    BY <2>2
  <2>4. SubSeq(text, 1, b - 1) \in Seq(D)
    <3>1. b - 1 \in Int /\ \A i \in 1 .. b - 1 : text[i] \in D
      BY <1>2
    <3> QED
      BY <3>1, SubSeqProperties
  <2>5. b \in Nat /\ 1 <= b /\ b <= n
    BY <2>3
  <2> QED
    BY <2>2, <2>4, <2>5
<1>7. ASSUME NEW k \in 1 .. K PROVE parts[k] \in Seq(D) /\ g[k] = g[k - 1] \o parts[k]
  <2>0. k \in 0 .. K /\ k - 1 \in 0 .. K /\ k # 0
    OBVIOUS
  <2>1. CASE k = 1
    <3>1. parts[k] = SubSeq(text, 1, e[k] - 1)
      <4>1. parts[k] = SubSeq(text, e[0] + 1, e[1] - 1)
        BY <1>4, <2>1
      <4>2. e[0] + 1 = 1
        OBVIOUS
      <4>3. e[1] = e[k]
        BY <2>1
      <4> QED
        BY <4>1, <4>2, <4>3
    <3>2. g[k - 1] = <<>> /\ g[k] = SubSeq(text, 1, e[k] - 1)
      <4>1. k - 1 = 0 /\ k - 1 \in 0 .. K
        BY <2>1
      <4>2. g[k - 1] = <<>>
        BY <4>1
      <4>3. g[k] = SubSeq(text, 1, e[k] - 1)
        BY <2>0
      <4> QED
        BY <4>2, <4>3
    <3>3. parts[k] \in Seq(D)
      BY <1>6, <3>1
    <3> HIDE DEF g
    <3> QED
      BY <3>1, <3>2, <3>3, ConcatEmptySeq
  <2>2. CASE k # 1
    <3>1. k - 1 \in 1 .. K /\ k - 1 \in 1 .. K - 1 /\ k - 1 # 0
      BY <2>2
    <3>2. PICK a, b : a = e[k - 1] /\ b = e[k]
      OBVIOUS
    <3>3. a \in Nat /\ 1 <= a /\ b \in Nat /\ a < b /\ b <= Len(text) /\ text[a] = blank
      BY <1>1, <1>6, <3>1, <3>2
    <3>4. g[k - 1] = SubSeq(text, 1, a - 1) /\ g[k] = SubSeq(text, 1, b - 1)
      BY <2>0, <3>1, <3>2
    <3>5. parts[k] = <<blank>> \o SubSeq(text, a + 1, b - 1)
      BY <1>4, <2>2, <3>2
    <3>6. /\ <<blank>> \o SubSeq(text, a + 1, b - 1) \in Seq(D)
          /\ SubSeq(text, 1, b - 1)
                = SubSeq(text, 1, a - 1) \o (<<blank>> \o SubSeq(text, a + 1, b - 1))
      <4>2. /\ a \in Nat /\ b \in Nat /\ 1 <= a /\ a < b /\ b <= Len(text)
            /\ text[a] = blank
        BY <3>3
      <4>3. CutIn(text, D, blank, a, b)
        BY <4>2, CutAtBlank
      <4> QED
        BY <4>3 DEF CutIn
    <3> HIDE DEF g
    <3> QED
      BY <3>4, <3>5, <3>6
  <2> QED
    BY <2>1, <2>2
<1>8. parts \in Seq(Seq(D)) /\ Len(parts) = K
  <2>1. parts \in [1 .. K -> Seq(D)]
    BY <1>5, <1>7
  <2> QED
    BY <2>1
<1>9. Flattens(g, parts, D)
  <2>1. \A k \in 0 .. K : (IF k = 0 THEN <<>> ELSE SubSeq(text, 1, e[k] - 1)) \in Seq(D)
    <3>1. \A k \in 0 .. K : k # 0 => k \in 1 .. K
      OBVIOUS
    <3>2. <<>> \in Seq(D)
      OBVIOUS
    <3> QED
      BY <1>6, <3>1, <3>2
  <2>2. g \in [0 .. K -> Seq(D)]
    BY <2>1
  <2>3. g[0] = <<>>
    <3>1. 0 \in 0 .. K
      OBVIOUS
    <3> QED
      BY <3>1
  <2> HIDE DEF g
  <2> QED
    BY <1>7, <1>8, <2>2, <2>3 DEF Flattens
<1>10. FlattenSeq(parts) = g[K]
  <2> HIDE DEF g
  <2> QED
    BY <1>8, <1>9, FlattenIs
<1>11. g[K] = SubSeq(text, 1, Len(text) - 1)
  <2>1. K \in 0 .. K /\ K # 0
    OBVIOUS
  <2> QED
    BY <2>1
<1> QED
  BY <1>3, <1>10, <1>11

\* And no word has a blank in it, if none is between the cuts.
LEMMA CutsHaveNone ==
    ASSUME NEW D, NEW blank, NEW text \in Seq(D), NEW K, NEW e,
           CutsAt(text, K, e, blank),
           NEW words, words = [k \in 1 .. K |-> SubSeq(text, e[k - 1] + 1, e[k] - 1)]
    PROVE  \A k \in DOMAIN words : ~Terminal!Contains(words[k], blank)
<1>0. /\ K \in Nat \ {0} /\ e \in [0 .. K -> 0 .. Len(text)]
      /\ \A k \in 1 .. K : e[k - 1] < e[k]
      /\ \A k \in 1 .. K : \A i \in e[k - 1] + 1 .. e[k] - 1 : text[i] # blank
  BY DEF CutsAt
<1> USE <1>0
<1>1. ASSUME NEW k \in 1 .. K PROVE \A i \in 1 .. Len(words[k]) : words[k][i] # blank
  <2>1. PICK n \in Nat : n = Len(text) /\ \A i \in 1 .. n : text[i] \in D
    BY ElementOfSeq
  <2>2. k - 1 \in 0 .. K /\ k \in 0 .. K
    OBVIOUS
  <2>3. PICK a \in 0 .. n, b \in 0 .. n : a = e[k - 1] /\ b = e[k]
    BY <2>1, <2>2
  <2>4. a < b /\ \A i \in a + 1 .. b - 1 : text[i] # blank
    BY <2>3
  <2>5. PICK word : word = SubSeq(text, a + 1, b - 1)
    OBVIOUS
  <2>6. words[k] = word
    BY <2>3, <2>5
  <2>7. /\ word \in Seq(D) /\ Len(word) = b - a - 1
        /\ \A i \in 1 .. b - a - 1 : word[i] = text[a + i]
    <3>1. PICK lo \in Nat, hi \in Int : lo = a + 1 /\ hi = b - 1
      OBVIOUS
    <3>2. \A i \in lo .. hi : text[i] \in D
      BY <2>1, <3>1
    <3>3. /\ word \in Seq(D)
          /\ Len(word) = IF lo <= hi THEN hi - lo + 1 ELSE 0
          /\ \A i \in 1 .. hi - lo + 1 : word[i] = text[lo + i - 1]
      BY <2>5, <3>1, <3>2, SubSeqProperties
    <3> QED
      BY <2>4, <3>1, <3>3
  <2>8. ASSUME NEW i \in 1 .. Len(word) PROVE word[i] # blank
    <3>1. i \in 1 .. b - a - 1
      BY <2>7
    <3>2. a + i \in a + 1 .. b - 1
      BY <3>1
    <3> QED
      BY <2>4, <2>7, <3>1, <3>2
  <2> QED
    BY <2>6, <2>8
<1>2. DOMAIN words = 1 .. K
  OBVIOUS
<1> QED
  BY <1>1, <1>2 DEF Terminal!Contains

\* Of every line but the empty one the words, put together again with blanks, are
\* the line without its last character, and no word has a blank in it.
Rejoined(text, words, blank) ==
    /\ FlattenSeq(Parts(words, blank)) = Terminal!Front(text)
    /\ \A k \in DOMAIN words : ~Terminal!Contains(words[k], blank)

LEMMA CutsAreRejoined ==
    ASSUME NEW D, NEW blank \in D, NEW text \in Seq(D), NEW K, NEW e,
           CutsAt(text, K, e, blank)
    PROVE  Rejoined(text, [k \in 1 .. K |-> SubSeq(text, e[k - 1] + 1, e[k] - 1)], blank)
<1>1. PICK words : words = [k \in 1 .. K |-> SubSeq(text, e[k - 1] + 1, e[k] - 1)]
  OBVIOUS
<1>2. FlattenSeq(Parts(words, blank)) = SubSeq(text, 1, Len(text) - 1)
  BY <1>1, CutsJoin
<1>3. \A k \in DOMAIN words : ~Terminal!Contains(words[k], blank)
  BY <1>1, CutsHaveNone
<1>4. Terminal!Front(text) = SubSeq(text, 1, Len(text) - 1)
  BY DEF Terminal!Front
<1> QED
  BY <1>1, <1>2, <1>3, <1>4 DEF Rejoined

LEMMA WordsJoin ==
    ASSUME NEW C, NEW text \in Seq(C), text # <<>>, " " \in C
    PROVE  Rejoined(text, Terminal!Translate(text), " ")
<1>1. PICK K, e :
         /\ Cuts(text, K, e)
         /\ Terminal!Translate(text) =
               [k \in 1 .. K |-> SubSeq(text, e[k - 1] + 1, e[k] - 1)]
  BY WordsAreCut, Zenon
<1>2. CutsAt(text, K, e, " ")
  BY <1>1, Zenon DEF Cuts, CutsAt
<1>3. Rejoined(text, [k \in 1 .. K |-> SubSeq(text, e[k - 1] + 1, e[k] - 1)], " ")
  BY <1>2, CutsAreRejoined, Zenon
<1> QED
  BY <1>1, <1>3, Zenon

Alphabet == Letters \cup {" ", "\n"}

\* The words are the line's as long as the loop is on.
ConsoleInv ==
    /\ line \in Seq(Alphabet)
    /\ loop = "on" /\ line # <<>> => argv = Terminal!Translate(line)

LEMMA BoundedIsSeq == \A S, n : Terminal!BoundedSeq(S, n) \subseteq Seq(S)
<1> SUFFICES ASSUME NEW S, NEW n, NEW s \in Terminal!BoundedSeq(S, n) PROVE s \in Seq(S)
  OBVIOUS
<1>1. PICK m \in 0 .. n : s \in [1 .. m -> S]
  BY DEF Terminal!BoundedSeq, Terminal!SeqOf
<1>2. m \in Nat
  BY <1>1
<1> QED
  BY <1>1, <1>2

LEMMA SeqGrows == \A S, T, s : s \in Seq(S) /\ S \subseteq T => s \in Seq(T)
<1> SUFFICES ASSUME NEW S, NEW T, S \subseteq T, NEW s \in Seq(S) PROVE s \in Seq(T)
  OBVIOUS
<1>1. \A i \in 1 .. Len(s) : s[i] \in T
  BY ElementOfSeq
<1> QED
  BY <1>1

LEMMA LinesAreSeqs == \A text \in Terminal!Lines : text \in Seq(Alphabet)
<1>1. Letters \cup {" "} \subseteq Alphabet
  BY Zenon DEF Alphabet
<1> QED
  BY <1>1, BoundedIsSeq, SeqGrows, Zenon DEF Terminal!Lines

LEMMA ConsoleInit == Terminal!Init => ConsoleInv
<1> SUFFICES ASSUME Terminal!Init PROVE ConsoleInv
  OBVIOUS
<1>1. <<>> \in Seq(Alphabet)
  <2> HIDE DEF Alphabet
  <2> QED
    OBVIOUS
<1> QED
  BY <1>1, Zenon DEF Terminal!Init, ConsoleInv

\* A turn of the loop with any line.
LEMMA TurnKeeps ==
    ASSUME NEW text \in Seq(Alphabet), Terminal!Turn(text) PROVE ConsoleInv'
<1>1. line' = text /\ loop = "on"
  BY DEF Terminal!Turn
<1>2. CASE Terminal!Exec(text)
  BY <1>1, <1>2, Zenon DEF ConsoleInv, Terminal!Exec
<1>3. CASE loop' = "left"
  <2>1. loop' # "on"
    BY <1>3
  <2> QED
    BY <1>1, <2>1, Zenon DEF ConsoleInv
<1> QED
  BY <1>2, <1>3, Zenon DEF Terminal!Turn

LEMMA ConsoleStep == ConsoleInv /\ [Terminal!Next]_consoleVars => ConsoleInv'
<1> SUFFICES ASSUME ConsoleInv, [Terminal!Next]_consoleVars PROVE ConsoleInv'
  OBVIOUS
<1>1. CASE UNCHANGED <<line, argv, loop>>
  BY <1>1, Zenon DEF ConsoleInv
<1>2. ASSUME NEW text \in Terminal!Lines, Terminal!ReadLine(text) PROVE ConsoleInv'
  <2>1. PICK newline : newline = "\n"
    OBVIOUS
  <2>2. newline \in Alphabet
    BY <2>1, Zenon DEF Alphabet
  <2>3. Append(text, newline) \in Seq(Alphabet)
    BY <2>2, LinesAreSeqs, AppendProperties
  <2> QED
    BY <1>2, <2>1, <2>3, TurnKeeps, Zenon DEF Terminal!ReadLine
<1>3. ASSUME NEW text \in Terminal!Lines, Terminal!ReadLast(text) PROVE ConsoleInv'
  BY <1>3, LinesAreSeqs, TurnKeeps, Zenon DEF Terminal!ReadLast
<1>4. CASE Terminal!ReadNothing
  <2>1. <<>> \in Seq(Alphabet)
    <3> HIDE DEF Alphabet
    <3> QED
      OBVIOUS
  <2> QED
    BY <1>4, <2>1, TurnKeeps, Zenon DEF Terminal!ReadNothing
<1>5. CASE \E command \in {Terminal!Get, Terminal!Help} : Terminal!Register(command)
  <2>1. UNCHANGED <<line, argv, loop>>
    BY <1>5 DEF Terminal!Register
  <2> QED
    BY <1>1, <2>1
<1>6. CASE UNCHANGED consoleVars
  <2>1. UNCHANGED <<line, argv, loop>>
    BY <1>6 DEF consoleVars
  <2> QED
    BY <1>1, <2>1
<1> QED
  BY <1>2, <1>3, <1>4, <1>5, <1>6, Zenon DEF Terminal!Next

LEMMA ConsoleMeansWords == ConsoleInv => WordsAreTheLine
<1> SUFFICES ASSUME ConsoleInv, loop = "on", line # <<>>
             PROVE  /\ Terminal!Joined(argv) = Terminal!Front(line)
                    /\ \A k \in DOMAIN argv : ~Terminal!Contains(argv[k], " ")
  BY Zenon DEF WordsAreTheLine, Terminal!WordsAreTheLine
<1>1. line \in Seq(Alphabet) /\ argv = Terminal!Translate(line)
  BY Zenon DEF ConsoleInv
<1>2. " " \in Alphabet
  BY Zenon DEF Alphabet
<1>3. Rejoined(line, argv, " ")
  BY <1>1, <1>2, WordsJoin, Zenon
<1> QED
  BY <1>3, JoinedIs, Zenon DEF Rejoined

-----------------------------------------------------------------------------
(* The process *)

AllInv == ObjectInv /\ LogInv /\ ConsoleInv

AllNext == ShareObject \/ ShareLogs \/ UseConsole

LEMMA AllStep == AllInv /\ [AllNext]_<<vars, logVars, consoleVars, about>> => AllInv'
<1> SUFFICES ASSUME AllInv, [AllNext]_<<vars, logVars, consoleVars, about>> PROVE AllInv'
  OBVIOUS
<1>1. [Next]_vars /\ [Shared!Next]_(Shared!vars) /\ [Terminal!Next]_consoleVars
  BY DEF AllNext, ShareObject, ShareLogs, UseConsole, logVars, Shared!vars
<1> QED
  BY <1>1, ObjectStep, LogStep, ConsoleStep DEF AllInv

LEMMA AllHolds == AllSpec => []AllInv
<1>1. AllInit => AllInv
  BY ObjectInit, LogInit, ConsoleInit DEF AllInit, AllInv
<1> QED
  BY <1>1, AllStep, PTL DEF AllSpec, AllNext

\* getSingleton returns the same object to every call of every thread, and
\* never null, whatever else the threads do.
THEOREM ProcessHasOne == AllSpec => []OneInstance
<1>1. AllInv => OneInstance
  BY DEF AllInv, ObjectInv, OnlyOne, OneInstance
<1> QED
  BY <1>1, AllHolds, PTL

\* The log of one thread, once closed, is what that thread gave to it while it was
\* open, whatever the other threads do.
THEOREM ProcessLogIsWhole == AllSpec => []OwnLogWhole
<1>1. AllInv => OwnLogWhole
  BY DEF AllInv, LogInv, Good, OnlyWriter, OwnLogWhole, Shared!OwnLogWhole
<1> QED
  BY <1>1, AllHolds, PTL

\* A line of a log several threads wrote to stands at its number among the lines of
\* its thread.
THEOREM ProcessLinesKeepTheirPlace == AllSpec => []LinesAtTheirPlace
<1>1. AllInv => LinesAtTheirPlace
  BY DEF AllInv, LogInv, Good, Placed, LinesAtTheirPlace, Shared!LinesAtTheirPlace
<1> QED
  BY <1>1, AllHolds, PTL

\* The words the console's Manager cuts a line into are the line, as long as the
\* loop runs: joined with blanks they give what was typed, and none has a blank.
THEOREM ProcessWordsAreTheLine == AllSpec => []WordsAreTheLine
<1>1. AllInv => WordsAreTheLine
  BY ConsoleMeansWords DEF AllInv
<1> QED
  BY <1>1, AllHolds, PTL
=============================================================================

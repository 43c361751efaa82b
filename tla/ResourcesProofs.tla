---------------------------- MODULE ResourcesProofs ----------------------------
(***************************************************************************)
(* For any directories, files, groups, factories and configurations: what  *)
(* the manager's factories, groups and cache of resources keep.            *)
(***************************************************************************)
EXTENDS Resources, FiniteSetTheorems, SequenceTheorems, InductionLemmas

-----------------------------------------------------------------------------
(* Factories *)

Disjoint(s) == \A i, j \in 1 .. Len(s) : s[i].exts \cap s[j].exts # {} => i = j

FactoryInv == mResFactories \in Seq(Factories) /\ Disjoint(mResFactories)

\* Where no factory is able, getByExt finds the first that is.
LEMMA GetByExtFinds ==
    ASSUME NEW ext, FactoryInv, GetByExt(ext) = 0
    PROVE  \A i \in 1 .. Len(mResFactories) : ext \notin mResFactories[i].exts
<1> DEFINE able == {i \in DOMAIN mResFactories : ext \in mResFactories[i].exts}
<1>1. DOMAIN mResFactories = 1 .. Len(mResFactories)
  BY LenProperties DEF FactoryInv
<1>2. CASE able = {}
  BY <1>1, <1>2
<1>3. CASE able # {}
  <2>1. able \in SUBSET Nat
    BY <1>1
  <2>2. \E i \in able : \A j \in able : i <= j
    BY <1>3, <2>1, LeastNatural
  <2>3. GetByExt(ext) \in able
    BY <1>3, <2>2 DEF GetByExt
  <2> QED
    BY <1>1, <2>3
<1> QED
  BY <1>2, <1>3

LEMMA RegistryKeeps ==
    ASSUME FactoryInv, NEW fact \in Factories, RegistryFactory(fact)
    PROVE  FactoryInv'
<1> DEFINE s == mResFactories
           t == Append(s, fact)
<1>1. mResFactories' = t /\ \A ext \in fact.exts : GetByExt(ext) = 0
  BY DEF RegistryFactory
<1>2. s \in Seq(Factories) /\ Len(s) \in Nat /\ Disjoint(s)
  BY LenProperties DEF FactoryInv
<1>3. /\ t \in Seq(Factories) /\ Len(t) = Len(s) + 1
      /\ \A i \in 1 .. Len(s) : t[i] = s[i]
      /\ t[Len(s) + 1] = fact
  BY <1>2, AppendProperties
<1>4. \A i \in 1 .. Len(s) : s[i].exts \cap fact.exts = {}
  BY <1>1, GetByExtFinds
<1> HIDE DEF s, t
<1>5. ASSUME NEW i \in 1 .. Len(t), NEW j \in 1 .. Len(t), t[i].exts \cap t[j].exts # {}
      PROVE  i = j
  <2>1. (i \in 1 .. Len(s) \/ i = Len(s) + 1) /\ (j \in 1 .. Len(s) \/ j = Len(s) + 1)
    BY <1>2, <1>3
  <2>2. CASE i \in 1 .. Len(s) /\ j \in 1 .. Len(s)
    BY <1>2, <1>3, <1>5, <2>2 DEF Disjoint
  <2>3. CASE i \in 1 .. Len(s) /\ j = Len(s) + 1
    BY <1>3, <1>4, <1>5, <2>3
  <2>4. CASE i = Len(s) + 1 /\ j \in 1 .. Len(s)
    BY <1>3, <1>4, <1>5, <2>4
  <2> QED
    BY <2>1, <2>2, <2>3, <2>4
<1> QED
  BY <1>1, <1>3, <1>5 DEF FactoryInv, Disjoint

\* Cutting a factory out leaves the others apart.
LEMMA CutKeepsDisjoint ==
    ASSUME NEW s \in Seq(Factories), Disjoint(s), NEW k \in 1 .. Len(s)
    PROVE  RemoveAt(s, k) \in Seq(Factories) /\ Disjoint(RemoveAt(s, k))
<1> DEFINE a == SubSeq(s, 1, k - 1)
           b == SubSeq(s, k + 1, Len(s))
<1>1. Len(s) \in Nat /\ k \in Nat \ {0} /\ k <= Len(s) /\ \A i \in 1 .. Len(s) : s[i] \in Factories
  BY LenProperties, ElementOfSeq
<1>2. a \in Seq(Factories) /\ Len(a) = k - 1 /\ \A i \in 1 .. k - 1 : a[i] = s[i]
  <2>1. \A i \in 1 .. k - 1 : s[i] \in Factories
    BY <1>1
  <2>2. 1 \in Int /\ k - 1 \in Int
    BY <1>1
  <2>3. /\ a \in Seq(Factories) /\ Len(a) = IF 1 <= k - 1 THEN (k - 1) - 1 + 1 ELSE 0
        /\ \A i \in 1 .. (k - 1) - 1 + 1 : a[i] = s[1 + i - 1]
    BY <2>1, <2>2, SubSeqProperties
  <2> QED
    BY <1>1, <2>3
<1>3. b \in Seq(Factories) /\ Len(b) = Len(s) - k /\ \A i \in 1 .. Len(s) - k : b[i] = s[k + i]
  <2>1. \A i \in k + 1 .. Len(s) : s[i] \in Factories
    BY <1>1
  <2>2. k + 1 \in Int /\ Len(s) \in Int
    BY <1>1
  <2>3. /\ b \in Seq(Factories) /\ Len(b) = IF k + 1 <= Len(s) THEN Len(s) - (k + 1) + 1 ELSE 0
        /\ \A i \in 1 .. Len(s) - (k + 1) + 1 : b[i] = s[k + 1 + i - 1]
    BY <2>1, <2>2, SubSeqProperties
  <2>4. \A i \in 1 .. Len(s) - k : k + 1 + i - 1 = k + i
    BY <1>1
  <2> QED
    BY <1>1, <2>3, <2>4
<1> DEFINE t == a \o b
<1>4. RemoveAt(s, k) = t
  BY DEF RemoveAt
<1> HIDE DEF a, b
<1>5. /\ t \in Seq(Factories) /\ Len(t) = Len(s) - 1
      /\ \A i \in 1 .. Len(a) + Len(b) : t[i] = IF i <= Len(a) THEN a[i] ELSE b[i - Len(a)]
  <2>1. /\ t \in Seq(Factories) /\ Len(t) = Len(a) + Len(b)
        /\ \A i \in 1 .. Len(a) + Len(b) : t[i] = IF i <= Len(a) THEN a[i] ELSE b[i - Len(a)]
    BY <1>2, <1>3, ConcatProperties
  <2>2. Len(a) + Len(b) = Len(s) - 1
    BY <1>1, <1>2, <1>3
  <2> QED
    BY <2>1, <2>2
<1> HIDE DEF t
<1>6. ASSUME NEW i \in 1 .. Len(s) - 1
      PROVE  t[i] = s[IF i < k THEN i ELSE i + 1]
  <2>1. i \in 1 .. Len(a) + Len(b)
    BY <1>1, <1>2, <1>3
  <2>2. CASE i < k
    <3>1. i <= Len(a) /\ i \in 1 .. k - 1
      BY <1>1, <1>2, <2>2
    <3> QED
      BY <1>2, <1>5, <2>1, <2>2, <3>1
  <2>3. CASE ~(i < k)
    <3>1. ~(i <= Len(a)) /\ i - Len(a) \in 1 .. Len(s) - k /\ k + (i - Len(a)) = i + 1
      BY <1>1, <1>2, <2>3
    <3>2. t[i] = b[i - Len(a)]
      BY <1>5, <2>1, <3>1
    <3> QED
      BY <1>3, <2>3, <3>1, <3>2
  <2> QED
    BY <2>2, <2>3
<1>7. Disjoint(t)
  <2>1. SUFFICES ASSUME NEW i \in 1 .. Len(s) - 1, NEW j \in 1 .. Len(s) - 1,
                        t[i].exts \cap t[j].exts # {}
                 PROVE  i = j
    BY <1>5 DEF Disjoint
  <2>2. PICK m \in 1 .. Len(s), n \in 1 .. Len(s) :
           m = (IF i < k THEN i ELSE i + 1) /\ n = (IF j < k THEN j ELSE j + 1)
    BY <1>1
  <2>3. t[i] = s[m] /\ t[j] = s[n]
    BY <1>6, <2>2
  <2>4. m = n
    BY <2>1, <2>3 DEF Disjoint
  <2> QED
    BY <1>1, <2>2, <2>4
<1> QED
  BY <1>4, <1>5, <1>7

\* The loop of unregistryFactory, wherever it cuts.
LEMMA UnregistryKeeps ==
    ASSUME FactoryInv, NEW type, UnregistryFactory(type)
    PROVE  FactoryInv'
<1> DEFINE s == mResFactories
           F(f) == [i \in 0 .. Len(mResFactories) |->
                      IF i = 0 THEN [ok |-> TRUE, seq |-> mResFactories]
                      ELSE IF mResFactories[i].type # type \/ ~f[i - 1].ok THEN f[i - 1]
                      ELSE IF i > Len(f[i - 1].seq) THEN [ok |-> FALSE, seq |-> <<>>]
                      ELSE [ok |-> TRUE, seq |-> RemoveAt(f[i - 1].seq, i)]]
           after == CHOOSE f : f = F(f)
           R == {[ok |-> TRUE, seq |-> t] : t \in {t \in Seq(Factories) : Disjoint(t)}}
                  \cup {[ok |-> FALSE, seq |-> <<>>]}
           Turn(r, i) ==
              IF mResFactories[i].type # type \/ ~r.ok THEN r
              ELSE IF i > Len(r.seq) THEN [ok |-> FALSE, seq |-> <<>>]
              ELSE [ok |-> TRUE, seq |-> RemoveAt(r.seq, i)]
           G == [p \in Nat \X R |-> IF p[1] = 0 THEN p[2] ELSE Turn(p[2], p[1])]
<1>1. mResFactories \in Seq(Factories) /\ Len(s) \in Nat /\ Disjoint(mResFactories)
  BY LenProperties DEF FactoryInv
<1>2. IF after[Len(s)].ok THEN mResFactories' = after[Len(s)].seq ELSE mResFactories' = mResFactories
  BY DEF UnregistryFactory
<1>3. ASSUME NEW r \in R, NEW i \in Nat \ {0} PROVE Turn(r, i) \in R
  <2>1. CASE r.ok /\ ~(i > Len(r.seq))
    <3>1. r.seq \in Seq(Factories) /\ Disjoint(r.seq) /\ Len(r.seq) \in Nat
      BY <2>1, LenProperties
    <3>2. i \in 1 .. Len(r.seq)
      BY <2>1, <3>1
    <3>3. RemoveAt(r.seq, i) \in Seq(Factories) /\ Disjoint(RemoveAt(r.seq, i))
      BY <3>1, <3>2, CutKeepsDisjoint
    <3> QED
      BY <2>1, <3>3
  <2>2. CASE ~(r.ok /\ ~(i > Len(r.seq)))
    BY <2>2
  <2> QED
    BY <2>1, <2>2
<1>4. [ok |-> TRUE, seq |-> mResFactories] \in R
  BY <1>1
<1>5. \A r \in R : r.ok => r.seq \in Seq(Factories) /\ Disjoint(r.seq)
  OBVIOUS
<1> HIDE DEF R
<1>6. G \in [Nat \X R -> R]
  BY <1>3
<1> HIDE DEF G
<1>7. PICK g : Solves(g, Len(s), [ok |-> TRUE, seq |-> mResFactories], G, R)
  BY <1>1, <1>4, <1>6, Recursion
<1>8. g = F(g)
  <2>1. ASSUME NEW i \in 0 .. Len(s), i # 0 PROVE g[i] = Turn(g[i - 1], i)
    <3>1. i \in 1 .. Len(s) /\ i - 1 \in 0 .. Len(s) /\ i \in Nat
      BY <1>1, <2>1
    <3>2. g[i - 1] \in R /\ <<i, g[i - 1]>> \in Nat \X R
      BY <1>7, <3>1 DEF Solves
    <3> QED
      BY <1>7, <2>1, <3>1, <3>2 DEF G, Solves
  <2> QED
    BY <1>7, <2>1 DEF Solves
<1>9. after = F(after)
  BY <1>8
<1> HIDE DEF after
<1>10. /\ after[0] = [ok |-> TRUE, seq |-> mResFactories]
       /\ \A i \in 1 .. Len(s) : after[i] = Turn(after[i - 1], i)
  <2>1. \A i \in 0 .. Len(s) :
           after[i] = IF i = 0 THEN [ok |-> TRUE, seq |-> mResFactories]
                      ELSE Turn(after[i - 1], i)
    BY <1>9
  <2> HIDE DEF Turn, s
  <2>2. 0 \in 0 .. Len(s) /\ \A i \in 1 .. Len(s) : i \in 0 .. Len(s) /\ i # 0
    BY <1>1
  <2> QED
    BY <2>1, <2>2
<1> HIDE DEF F, after, Turn
<1> DEFINE T == {i \in Nat : i <= Len(s) => after[i] \in R}
<1>11. 0 \in T
  BY <1>4, <1>10
<1>12. ASSUME NEW n \in Nat, n \in T PROVE n + 1 \in T
  <2>1. SUFFICES ASSUME n + 1 <= Len(s) PROVE after[n + 1] \in R
    OBVIOUS
  <2>2. n + 1 \in 1 .. Len(s) /\ (n + 1) - 1 = n /\ n <= Len(s) /\ n + 1 \in Nat \ {0}
    BY <1>1, <2>1
  <2> QED
    BY <1>3, <1>10, <1>12, <2>2
<1> HIDE DEF T
<1>13. after[Len(s)] \in R
  <2>1. Nat \subseteq T
    BY <1>11, <1>12, Induction
  <2> QED
    BY <1>1, <2>1 DEF T
<1>14. mResFactories' \in Seq(Factories) /\ Disjoint(mResFactories')
  BY <1>1, <1>2, <1>5, <1>13
<1> QED
  BY <1>14 DEF FactoryInv

LEMMA FactoryInit == Init => FactoryInv
<1>1. ASSUME Init PROVE mResFactories = <<>>
  BY <1>1 DEF Init
<1>2. <<>> \in Seq(Factories) /\ Len(<<>>) = 0
  BY EmptySeq
<1> QED
  BY <1>1, <1>2 DEF FactoryInv, Disjoint

LEMMA FactoryStep == FactoryInv /\ [Next]_vars => FactoryInv'
<1> SUFFICES ASSUME FactoryInv, [Next]_vars PROVE FactoryInv'
  OBVIOUS
<1>1. CASE \E fact \in Factories : RegistryFactory(fact)
  BY <1>1, RegistryKeeps
<1>2. CASE \E type \in ResourceTypes : UnregistryFactory(type)
  BY <1>2, UnregistryKeeps
<1>3. CASE UNCHANGED mResFactories
  BY <1>3 DEF FactoryInv, Disjoint
<1>4. CASE Outside
  BY <1>3, <1>4 DEF Outside, CreateFile, DeleteFile, Reopen
<1>5. CASE \E unwritable \in SUBSET Dirs : LoadGroupsFromFile(unwritable)
  BY <1>3, <1>5 DEF LoadGroupsFromFile
<1>6. CASE \E g \in DOMAIN mGroups, d \in Dirs : AddEntry(g, d)
  BY <1>3, <1>6 DEF AddEntry
<1>7. CASE \E g \in DOMAIN mGroups, f \in Files : HasFile(g, f)
  BY <1>3, <1>7 DEF HasFile
<1>8. CASE \E f \in Files, group \in GroupNames : GetResource(f, group)
  BY <1>3, <1>8 DEF GetResource, GetLoaded, GetNew
<1>9. CASE UNCHANGED vars
  BY <1>3, <1>9 DEF vars
<1> QED
  BY <1>1, <1>2, <1>4, <1>5, <1>6, <1>7, <1>8, <1>9 DEF Next, Program

LEMMA FactoryHolds == Spec => []FactoryInv
<1> QED
  BY FactoryInit, FactoryStep, PTL DEF Spec

\* Whatever factories there are and in whatever order registryFactory and
\* unregistryFactory take them, no extension has two of them.
THEOREM ExtensionHasOneFactory == Spec => []OneFactory
<1>1. FactoryInv => OneFactory
  <2>1. ASSUME FactoryInv PROVE DOMAIN mResFactories = 1 .. Len(mResFactories)
    BY <2>1, LenProperties DEF FactoryInv
  <2> QED
    BY <2>1 DEF FactoryInv, Disjoint, OneFactory
<1> QED
  BY <1>1, FactoryHolds, PTL

-----------------------------------------------------------------------------
(* Sequences and the least of their places *)

\* The places at which Held is true have a least one.
LEMMA FirstPlace ==
    ASSUME NEW H, H \subseteq Nat, H # {}
    PROVE  /\ (CHOOSE i \in H : \A j \in H : i <= j) \in H
           /\ \A j \in H : (CHOOSE i \in H : \A j2 \in H : i <= j2) <= j
<1>1. \E i \in H : \A j \in H : i <= j
  BY LeastNatural
<1> QED
  BY <1>1

LEMMA LeastIsFirst ==
    ASSUME NEW H, H \subseteq Nat, NEW i \in H, \A j \in H : i <= j
    PROVE  (CHOOSE k \in H : \A j \in H : k <= j) = i
<1> DEFINE c == CHOOSE k \in H : \A j \in H : k <= j
<1>1. c \in H /\ \A j \in H : c <= j
  OBVIOUS
<1>2. c \in Nat /\ i \in Nat /\ c <= i /\ i <= c
  BY <1>1
<1> HIDE DEF c
<1>3. c = i
  BY <1>2
<1> QED
  BY <1>3 DEF c

-----------------------------------------------------------------------------
(* The archives of the groups *)

ArchiveType == [dirname : Dirs \cup {closed}, lent : BOOLEAN]
Kinds == [Dirs -> {"none", "dir", "file"}]

\* The archives of group g are there, and so is the one hasFile remembers.
Listed(g) ==
    /\ mGroups[g].archives \in Seq(1 .. Len(archives))
    /\ mGroups[g].lastName \in Files => mGroups[g].lastArch \in 1 .. Len(archives)

FirstAt(g, f, i) ==
    /\ Holds(mGroups[g].archives[i], f)
    /\ \A j \in 1 .. Len(mGroups[g].archives) : Holds(mGroups[g].archives[j], f) => i <= j

\* What hasFile remembers is the first archive that holds the file.
Remembers(g) ==
    mGroups[g].lastName \in Files =>
        \E i \in 1 .. Len(mGroups[g].archives) :
            /\ mGroups[g].lastArch = mGroups[g].archives[i]
            /\ FirstAt(g, mGroups[g].lastName, i)

\* group has the archives that the entries of st ask for, among those of as.
WholeAs(group, st, as) ==
    /\ st.name = group.name
    /\ \A i \in 1 .. Len(st.entries) :
         st.entries[i].type \in Registered =>
            /\ Place(st, i) \in 1 .. Len(group.archives)
            /\ as[group.archives[Place(st, i)]] = Archive(st.entries[i].path, FALSE)

Whole(group, as) ==
    \E content \in Configs : \E k \in 1 .. Len(content) : WholeAs(group, content[k], as)

StoreTypes ==
    /\ disk \in [Dirs -> SUBSET Files]
    /\ kind \in Kinds
    /\ \A d \in Dirs : disk[d] # {} => kind[d] = "dir"
    /\ config \in Configs \cup {bad}
    /\ archives \in Seq(ArchiveType)
    /\ mGroups \in Seq(Group)

StoreInv ==
    /\ StoreTypes
    /\ \A g \in 1 .. Len(mGroups) :
         Listed(g) /\ Whole(mGroups[g], archives) /\ (g \notin blamed => Remembers(g))

LEMMA GroupFields ==
    ASSUME NEW group \in Group
    PROVE  /\ group.name \in GroupNames /\ group.archives \in Seq(Nat)
           /\ group.lastName \in Files \cup {noFile} /\ group.lastArch \in Nat
  BY DEF Group

\* group2 is group, or group with more archives.
Grown(group, group2) ==
    /\ group2.name = group.name
    /\ Len(group2.archives) \in Nat /\ Len(group.archives) <= Len(group2.archives)
    /\ \A i \in 1 .. Len(group.archives) : group2.archives[i] = group.archives[i]

\* From as to bs, the first n archives that nobody else holds stay as they are.
Steady(as, bs, n) == \A a \in 1 .. n : as[a].lent = FALSE => bs[a] = as[a]

\* A group stays whole while it keeps its archives and they stay as they are.
LEMMA WholeKept ==
    ASSUME NEW group, NEW group2, NEW as, NEW bs, NEW n \in Nat,
           Whole(group, as), group.archives \in Seq(1 .. n),
           Grown(group, group2), Steady(as, bs, n)
    PROVE  Whole(group2, bs)
<1>1. PICK content \in Configs : \E k \in 1 .. Len(content) : WholeAs(group, content[k], as)
  BY DEF Whole
<1>2. PICK k \in 1 .. Len(content) : WholeAs(group, content[k], as)
  BY <1>1
<1> DEFINE st == content[k]
<1>3. WholeAs(group, st, as)
  BY <1>2
<1> HIDE DEF st
<1>4. ASSUME NEW i \in 1 .. Len(st.entries), st.entries[i].type \in Registered
      PROVE  /\ Place(st, i) \in 1 .. Len(group2.archives)
             /\ bs[group2.archives[Place(st, i)]] = Archive(st.entries[i].path, FALSE)
  <2>1. /\ Place(st, i) \in 1 .. Len(group.archives)
        /\ as[group.archives[Place(st, i)]] = Archive(st.entries[i].path, FALSE)
    BY <1>3, <1>4 DEF WholeAs
  <2>2. PICK p : p = Place(st, i)
    OBVIOUS
  <2>3. PICK a : a = group.archives[p]
    OBVIOUS
  <2>4. a \in 1 .. n
    BY <2>1, <2>2, <2>3, ElementOfSeq
  <2>5. as[a].lent = FALSE
    <3>1. as[a] = Archive(st.entries[i].path, FALSE)
      BY <2>1, <2>2, <2>3
    <3>2. Archive(st.entries[i].path, FALSE).lent = FALSE
      BY DEF Archive
    <3> QED
      BY <3>1, <3>2
  <2>6. Len(group.archives) \in Nat
    BY LenProperties
  <2>7. p \in 1 .. Len(group2.archives) /\ group2.archives[p] = a
    BY <2>1, <2>2, <2>3, <2>6 DEF Grown
  <2>8. bs[a] = as[a]
    BY <2>4, <2>5 DEF Steady
  <2> QED
    BY <2>1, <2>2, <2>3, <2>7, <2>8
<1>5. WholeAs(group2, st, bs)
  BY <1>3, <1>4 DEF WholeAs, Grown
<1> QED
  BY <1>5 DEF Whole, st

\* A group goes on remembering the right archive while the places it had and
\* what they hold stay as they are.
LEMMA RemembersKept ==
    ASSUME NEW g, Listed(g), Remembers(g),
           mGroups'[g].lastName = mGroups[g].lastName, mGroups'[g].lastArch = mGroups[g].lastArch,
           Len(mGroups'[g].archives) \in Nat,
           Len(mGroups[g].archives) <= Len(mGroups'[g].archives),
           \A i \in 1 .. Len(mGroups[g].archives) :
              mGroups'[g].archives[i] = mGroups[g].archives[i],
           \A i \in 1 .. Len(mGroups[g].archives), f \in Files :
              LET a == mGroups[g].archives[i] IN
                 (archives'[a].dirname # closed /\ f \in disk'[archives'[a].dirname]) <=> Holds(a, f)
    PROVE  Remembers(g)'
<1> SUFFICES ASSUME mGroups[g].lastName \in Files
             PROVE  \E i \in 1 .. Len(mGroups'[g].archives) :
                       /\ mGroups'[g].lastArch = mGroups'[g].archives[i]
                       /\ FirstAt(g, mGroups[g].lastName, i)'
  BY DEF Remembers, FirstAt, Holds
<1>1. PICK f : f = mGroups[g].lastName
  OBVIOUS
<1>2. PICK i \in 1 .. Len(mGroups[g].archives) :
         mGroups[g].lastArch = mGroups[g].archives[i] /\ FirstAt(g, f, i)
  BY <1>1 DEF Remembers
<1>3. Len(mGroups[g].archives) \in Nat
  BY LenProperties DEF Listed
<1>4. PICK m \in Nat : m = Len(mGroups[g].archives)
  BY <1>3
<1>5. PICK n \in Nat : n = Len(mGroups'[g].archives)
  OBVIOUS
<1>6. i \in 1 .. m /\ m <= n /\ i \in 1 .. n
  BY <1>2, <1>4, <1>5
<1>7. \A j \in 1 .. m : Holds(mGroups[g].archives[j], f) <=>
          /\ archives'[mGroups'[g].archives[j]].dirname # closed
          /\ f \in disk'[archives'[mGroups'[g].archives[j]].dirname]
  BY <1>1, <1>4
<1>8. Holds(mGroups[g].archives[i], f)
      /\ \A j \in 1 .. m : Holds(mGroups[g].archives[j], f) => i <= j
  BY <1>2, <1>4 DEF FirstAt
<1>9. ASSUME NEW j \in 1 .. n,
             archives'[mGroups'[g].archives[j]].dirname # closed,
             f \in disk'[archives'[mGroups'[g].archives[j]].dirname]
      PROVE  i <= j
  <2>1. CASE j \in 1 .. m
    BY <1>7, <1>8, <1>9, <2>1
  <2>2. CASE j \notin 1 .. m
    BY <1>6, <2>2
  <2> QED
    BY <2>1, <2>2
<1>10. /\ archives'[mGroups'[g].archives[i]].dirname # closed
       /\ f \in disk'[archives'[mGroups'[g].archives[i]].dirname]
  BY <1>6, <1>7, <1>8
<1>11. FirstAt(g, f, i)'
  BY <1>5, <1>9, <1>10 DEF FirstAt, Holds
<1>12. mGroups'[g].lastArch = mGroups'[g].archives[i]
  BY <1>2
<1> QED
  BY <1>1, <1>5, <1>6, <1>11, <1>12

\* The search of a group's archives finds the first that holds the file.
LEMMA FirstHoldingFinds ==
    ASSUME NEW g, Listed(g), NEW f
    PROVE  /\ FirstHolding(g, f) # 0 =>
                \E i \in 1 .. Len(mGroups[g].archives) :
                   FirstHolding(g, f) = mGroups[g].archives[i] /\ FirstAt(g, f, i)
           /\ \A i \in 1 .. Len(mGroups[g].archives) :
                FirstAt(g, f, i) => FirstHolding(g, f) = mGroups[g].archives[i]
<1> DEFINE holding == {i \in DOMAIN mGroups[g].archives : Holds(mGroups[g].archives[i], f)}
<1>1. Len(mGroups[g].archives) \in Nat
      /\ DOMAIN mGroups[g].archives = 1 .. Len(mGroups[g].archives)
  BY LenProperties DEF Listed
<1>2. holding \subseteq Nat /\ holding \subseteq 1 .. Len(mGroups[g].archives)
  BY <1>1
<1>3. FirstHolding(g, f) = IF holding = {} THEN 0
                           ELSE mGroups[g].archives[CHOOSE i \in holding : \A j \in holding : i <= j]
  BY DEF FirstHolding
<1>4. \A i : i \in holding <=>
         i \in 1 .. Len(mGroups[g].archives) /\ Holds(mGroups[g].archives[i], f)
  BY <1>1
<1> HIDE DEF holding
<1>5. ASSUME FirstHolding(g, f) # 0
      PROVE  \E i \in 1 .. Len(mGroups[g].archives) :
                FirstHolding(g, f) = mGroups[g].archives[i] /\ FirstAt(g, f, i)
  <2> DEFINE c == CHOOSE i \in holding : \A j \in holding : i <= j
  <2>1. holding # {} /\ FirstHolding(g, f) = mGroups[g].archives[c]
    BY <1>3, <1>5
  <2>2. c \in holding /\ \A j \in holding : c <= j
    BY <1>2, <2>1, FirstPlace
  <2> HIDE DEF c
  <2>3. c \in 1 .. Len(mGroups[g].archives) /\ FirstAt(g, f, c)
    BY <1>4, <2>2 DEF FirstAt
  <2> QED
    BY <2>1, <2>3
<1>6. ASSUME NEW i \in 1 .. Len(mGroups[g].archives), FirstAt(g, f, i)
      PROVE  FirstHolding(g, f) = mGroups[g].archives[i]
  <2>1. i \in holding /\ \A j \in holding : i <= j
    BY <1>4, <1>6 DEF FirstAt
  <2>2. (CHOOSE k \in holding : \A j \in holding : k <= j) = i
    BY <1>2, <2>1, LeastIsFirst
  <2> QED
    BY <1>3, <2>1, <2>2
<1> QED
  BY <1>5, <1>6

LEMMA StoreInit == Init => StoreInv
<1> SUFFICES ASSUME Init PROVE StoreInv
  OBVIOUS
<1>1. mGroups = <<>> /\ archives = <<>> /\ config \in Configs \cup {bad} /\ kind \in Kinds
  BY DEF Init, Kinds
<1>2. mGroups \in Seq(Group) /\ Len(mGroups) = 0 /\ archives \in Seq(ArchiveType)
  BY <1>1, EmptySeq
<1>3. disk \in [Dirs -> SUBSET Files] /\ \A d \in Dirs : disk[d] = {}
  BY DEF Init
<1> QED
  BY <1>1, <1>2, <1>3 DEF StoreInv, StoreTypes

\* The groups are the same and none lost an archive or another one's place: a
\* group whose archives changed, or whose files did, is blamed.
LEMMA GroupKept ==
    ASSUME StoreInv, NEW g \in 1 .. Len(mGroups), NEW lists,
           lists \in Seq(1 .. Len(archives')), Len(archives) \in Nat, Len(archives') \in Nat,
           Len(archives) <= Len(archives'),
           Steady(archives, archives', Len(archives)),
           mGroups'[g] = [mGroups[g] EXCEPT !.archives = lists],
           Len(mGroups[g].archives) <= Len(lists),
           \A i \in 1 .. Len(mGroups[g].archives) : lists[i] = mGroups[g].archives[i],
           blamed \subseteq blamed',
           g \notin blamed' =>
             \A i \in 1 .. Len(mGroups[g].archives), f \in Files :
               LET a == mGroups[g].archives[i] IN
                 (archives'[a].dirname # closed /\ f \in disk'[archives'[a].dirname]) <=> Holds(a, f)
    PROVE  Listed(g)' /\ Whole(mGroups[g], archives)' /\ (g \notin blamed' => Remembers(g)')
<1>1. mGroups \in Seq(Group) /\ mGroups[g] \in Group
  BY ElementOfSeq DEF StoreInv, StoreTypes
<1>2. Listed(g) /\ Whole(mGroups[g], archives) /\ (g \notin blamed => Remembers(g))
  BY DEF StoreInv
<1>3. /\ mGroups'[g].archives = lists /\ mGroups'[g].name = mGroups[g].name
      /\ mGroups'[g].lastName = mGroups[g].lastName /\ mGroups'[g].lastArch = mGroups[g].lastArch
  BY <1>1 DEF Group
<1>4. Len(lists) \in Nat
  BY LenProperties
<1>5. Listed(g)'
  <2>1. mGroups[g].lastName \in Files => mGroups[g].lastArch \in 1 .. Len(archives')
    BY <1>2 DEF Listed
  <2> QED
    BY <1>3, <2>1 DEF Listed
<1>6. Whole(mGroups'[g], archives')
  <2>1. mGroups[g].archives \in Seq(1 .. Len(archives))
    BY <1>2 DEF Listed
  <2>2. Grown(mGroups[g], mGroups'[g])
    BY <1>3, <1>4 DEF Grown
  <2> QED
    BY <1>2, <2>1, <2>2, WholeKept
<1>7. ASSUME g \notin blamed' PROVE Remembers(g)'
  <2>1. Remembers(g)
    BY <1>2, <1>7
  <2> QED
    BY <1>2, <1>3, <1>4, <1>7, <2>1, RemembersKept
<1> QED
  BY <1>5, <1>6, <1>7

\* The groups are as they were.
LEMMA SameGroups ==
    ASSUME StoreInv, mGroups' = mGroups, NEW g \in 1 .. Len(mGroups),
           Len(archives') = Len(archives),
           Steady(archives, archives', Len(archives)),
           blamed \subseteq blamed',
           g \notin blamed' =>
             \A i \in 1 .. Len(mGroups[g].archives), f \in Files :
               LET a == mGroups[g].archives[i] IN
                 (archives'[a].dirname # closed /\ f \in disk'[archives'[a].dirname]) <=> Holds(a, f)
    PROVE  Listed(g)' /\ Whole(mGroups[g], archives)' /\ (g \notin blamed' => Remembers(g)')
<1> DEFINE lists == mGroups[g].archives
<1>1. mGroups \in Seq(Group) /\ mGroups[g] \in Group /\ Listed(g)
  BY ElementOfSeq DEF StoreInv, StoreTypes
<1>2. lists \in Seq(1 .. Len(archives')) /\ Len(lists) \in Nat
  BY <1>1, LenProperties DEF Listed
<1>3. Len(archives) \in Nat
  BY LenProperties DEF StoreInv, StoreTypes
<1>4. mGroups'[g] = [mGroups[g] EXCEPT !.archives = lists]
  BY <1>1 DEF Group
<1>5. Len(archives) <= Len(archives') /\ Len(archives') \in Nat /\ Len(mGroups[g].archives) <= Len(lists)
  BY <1>2, <1>3
<1>6. \A i \in 1 .. Len(mGroups[g].archives) : lists[i] = mGroups[g].archives[i]
  OBVIOUS
<1> HIDE DEF lists
<1> QED
  BY <1>2, <1>3, <1>4, <1>5, <1>6, GroupKept

LEMMA DiskKeeps ==
    ASSUME StoreInv, NEW d \in Dirs, NEW f \in Files, CreateFile(d, f) \/ DeleteFile(d, f)
    PROVE  StoreInv'
<1>1. /\ UNCHANGED <<kind, config, archives, mGroups>>
      /\ blamed' = blamed \cup Changed(d)
  BY DEF CreateFile, DeleteFile
<1>2. disk \in [Dirs -> SUBSET Files]
  BY DEF StoreInv, StoreTypes
<1>3. disk' \in [Dirs -> SUBSET Files] /\ \A e \in Dirs : e # d => disk'[e] = disk[e]
  BY <1>2 DEF CreateFile, DeleteFile
<1>4. \A e \in Dirs : disk'[e] # {} => kind[e] = "dir"
  BY <1>2 DEF CreateFile, DeleteFile, StoreInv, StoreTypes
<1>5. Len(archives) \in Nat /\ \A a \in 1 .. Len(archives) : archives[a] \in ArchiveType
  BY LenProperties, ElementOfSeq DEF StoreInv, StoreTypes
<1>6. ASSUME NEW g \in 1 .. Len(mGroups)
      PROVE  Listed(g)' /\ Whole(mGroups[g], archives)' /\ (g \notin blamed' => Remembers(g)')
  <2>1. mGroups[g].archives \in Seq(1 .. Len(archives))
    BY DEF StoreInv, Listed
  <2>2. DOMAIN mGroups[g].archives = 1 .. Len(mGroups[g].archives)
        /\ \A i \in 1 .. Len(mGroups[g].archives) : mGroups[g].archives[i] \in 1 .. Len(archives)
    BY <2>1, LenProperties, ElementOfSeq
  <2>3. DOMAIN mGroups = 1 .. Len(mGroups)
    BY LenProperties DEF StoreInv, StoreTypes
  <2>4. ASSUME g \notin blamed', NEW i \in 1 .. Len(mGroups[g].archives), NEW x \in Files,
               NEW a, a = mGroups[g].archives[i]
        PROVE  (archives'[a].dirname # closed /\ x \in disk'[archives'[a].dirname]) <=> Holds(a, x)
    <3>1. a \in Range(mGroups[g].archives)
      BY <2>2, <2>4 DEF Range
    <3>2. archives[a].dirname # d
      BY <1>1, <2>3, <2>4, <3>1 DEF Changed
    <3>3. archives[a].dirname \in Dirs \cup {closed}
      BY <1>5, <2>2, <2>4 DEF ArchiveType
    <3> QED
      BY <1>1, <1>3, <3>2, <3>3 DEF Holds
  <2>5. Steady(archives, archives', Len(archives)) /\ blamed \subseteq blamed'
        /\ mGroups' = mGroups /\ Len(archives') = Len(archives)
    BY <1>1 DEF Steady
  <2> QED
    BY <2>4, <2>5, SameGroups
<1> QED
  BY <1>1, <1>3, <1>4, <1>6 DEF StoreInv, StoreTypes

LEMMA ReopenKeeps ==
    ASSUME StoreInv, NEW k \in DOMAIN archives, NEW d \in Dirs \cup {closed}, Reopen(k, d)
    PROVE  StoreInv'
<1>1. archives \in Seq(ArchiveType)
  BY DEF StoreInv, StoreTypes
<1>2. Len(archives) \in Nat /\ DOMAIN archives = 1 .. Len(archives) /\ k \in 1 .. Len(archives)
      /\ archives[k] \in ArchiveType
  BY <1>1, LenProperties, ElementOfSeq
<1>3. PICK new : new = [archives[k] EXCEPT !.dirname = d]
  OBVIOUS
<1>4. new \in ArchiveType
  BY <1>2, <1>3 DEF ArchiveType
<1>5. /\ archives' = [archives EXCEPT ![k] = new]
      /\ UNCHANGED <<disks, mGroups>>
      /\ blamed' = blamed \cup {g \in DOMAIN mGroups : k \in Range(mGroups[g].archives)}
  BY <1>3 DEF Reopen
<1>6. archives[k].lent
  BY DEF Reopen
<1>7. /\ archives' \in Seq(ArchiveType) /\ Len(archives') = Len(archives)
      /\ \A a \in 1 .. Len(archives) : archives'[a] = IF a = k THEN new ELSE archives[a]
  BY <1>1, <1>2, <1>4, <1>5, ExceptSeq
<1>8. Steady(archives, archives', Len(archives))
  <2>1. SUFFICES ASSUME NEW a \in 1 .. Len(archives), archives[a].lent = FALSE
                 PROVE  archives'[a] = archives[a]
    BY DEF Steady
  <2>2. a # k
    BY <1>6, <2>1
  <2> QED
    BY <1>7, <2>2
<1>9. ASSUME NEW g \in 1 .. Len(mGroups)
      PROVE  Listed(g)' /\ Whole(mGroups[g], archives)' /\ (g \notin blamed' => Remembers(g)')
  <2>1. mGroups[g].archives \in Seq(1 .. Len(archives))
    BY DEF StoreInv, Listed
  <2>2. DOMAIN mGroups[g].archives = 1 .. Len(mGroups[g].archives)
        /\ \A i \in 1 .. Len(mGroups[g].archives) : mGroups[g].archives[i] \in 1 .. Len(archives)
    BY <2>1, LenProperties, ElementOfSeq
  <2>3. DOMAIN mGroups = 1 .. Len(mGroups)
    BY LenProperties DEF StoreInv, StoreTypes
  <2>4. ASSUME g \notin blamed', NEW i \in 1 .. Len(mGroups[g].archives), NEW x \in Files,
               NEW a, a = mGroups[g].archives[i]
        PROVE  (archives'[a].dirname # closed /\ x \in disk'[archives'[a].dirname]) <=> Holds(a, x)
    <3>1. a \in Range(mGroups[g].archives)
      BY <2>2, <2>4 DEF Range
    <3>2. a # k
      BY <1>5, <2>3, <2>4, <3>1
    <3>3. archives'[a] = archives[a]
      BY <1>7, <2>2, <2>4, <3>2
    <3> QED
      BY <1>5, <3>3 DEF Holds, disks
  <2>5. blamed \subseteq blamed' /\ mGroups' = mGroups
    BY <1>5
  <2> QED
    BY <1>7, <1>8, <2>4, <2>5, SameGroups
<1> QED
  BY <1>5, <1>7, <1>9 DEF StoreInv, StoreTypes, disks

LEMMA AddEntryKeeps ==
    ASSUME StoreInv, NEW g \in DOMAIN mGroups, NEW d \in Dirs, AddEntry(g, d)
    PROVE  StoreInv'
<1>1. /\ archives \in Seq(ArchiveType) /\ mGroups \in Seq(Group)
      /\ Len(archives) \in Nat /\ DOMAIN mGroups = 1 .. Len(mGroups)
      /\ g \in 1 .. Len(mGroups) /\ mGroups[g] \in Group
  BY LenProperties, ElementOfSeq DEF StoreInv, StoreTypes
<1>2. PICK n \in Nat : n = Len(archives) + 1
  BY <1>1
<1>3. PICK new : new = Archive(d, TRUE)
  OBVIOUS
<1>4. new \in ArchiveType
  BY <1>3 DEF Archive, ArchiveType
<1>5. archives' = Append(archives, new) /\ UNCHANGED <<disks, blamed>>
  BY <1>3 DEF AddEntry
<1>6. /\ archives' \in Seq(ArchiveType) /\ Len(archives') = n
      /\ \A a \in 1 .. Len(archives) : archives'[a] = archives[a]
  BY <1>1, <1>2, <1>4, <1>5, AppendProperties
<1>7. PICK lists : lists = Append(mGroups[g].archives, n)
  OBVIOUS
<1>8. PICK group : group = [mGroups[g] EXCEPT !.archives = lists]
  OBVIOUS
<1>9. mGroups' = [mGroups EXCEPT ![g] = group]
  BY <1>6, <1>7, <1>8 DEF AddEntry
<1>10. \A h \in 1 .. Len(mGroups) : mGroups[h].archives \in Seq(1 .. n)
  <2>1. SUFFICES ASSUME NEW h \in 1 .. Len(mGroups) PROVE mGroups[h].archives \in Seq(1 .. n)
    OBVIOUS
  <2>2. mGroups[h].archives \in Seq(1 .. Len(archives))
    BY DEF StoreInv, Listed
  <2>3. 1 .. Len(archives) \subseteq 1 .. n
    BY <1>1, <1>2
  <2> QED
    BY <2>2, <2>3, SeqMonotonic
<1>11. /\ lists \in Seq(1 .. n) /\ Len(lists) = Len(mGroups[g].archives) + 1
       /\ \A i \in 1 .. Len(mGroups[g].archives) : lists[i] = mGroups[g].archives[i]
  <2>1. mGroups[g].archives \in Seq(1 .. n) /\ n \in 1 .. n
    BY <1>1, <1>2, <1>10
  <2> QED
    BY <1>7, <2>1, AppendProperties
<1>12. group \in Group
  <2>1. lists \in Seq(Nat)
    <3>1. Append(mGroups[g].archives, n) \in Seq(Nat)
      BY <1>1, GroupFields, AppendProperties
    <3> QED
      BY <1>7, <3>1
  <2> QED
    BY <1>1, <1>8, <2>1 DEF Group
<1>13. /\ mGroups' \in Seq(Group) /\ Len(mGroups') = Len(mGroups)
       /\ \A h \in 1 .. Len(mGroups) : mGroups'[h] = IF h = g THEN group ELSE mGroups[h]
  BY <1>1, <1>9, <1>12, ExceptSeq
<1>14. Steady(archives, archives', Len(archives))
  BY <1>6 DEF Steady
<1>15. ASSUME NEW h \in 1 .. Len(mGroups)
       PROVE  Listed(h)' /\ Whole(mGroups[h], archives)' /\ (h \notin blamed' => Remembers(h)')
  <2>1. PICK ls : ls = IF h = g THEN lists ELSE mGroups[h].archives
    OBVIOUS
  <2>2. mGroups[h].archives \in Seq(1 .. Len(archives)) /\ mGroups[h].archives \in Seq(1 .. n)
        /\ mGroups[h] \in Group
    BY <1>1, <1>10, ElementOfSeq DEF StoreInv, Listed
  <2>3. Len(mGroups[h].archives) \in Nat
        /\ \A i \in 1 .. Len(mGroups[h].archives) : mGroups[h].archives[i] \in 1 .. Len(archives)
    BY <2>2, LenProperties, ElementOfSeq
  <2>4. /\ ls \in Seq(1 .. Len(archives')) /\ Len(mGroups[h].archives) <= Len(ls)
        /\ \A i \in 1 .. Len(mGroups[h].archives) : ls[i] = mGroups[h].archives[i]
    BY <1>6, <1>11, <2>1, <2>2, <2>3
  <2>5. mGroups'[h] = [mGroups[h] EXCEPT !.archives = ls]
    <3>1. CASE h = g
      BY <1>8, <1>13, <2>1, <3>1
    <3>2. CASE h # g
      BY <1>13, <2>1, <2>2, <3>2 DEF Group
    <3> QED
      BY <3>1, <3>2
  <2>6. ASSUME NEW i \in 1 .. Len(mGroups[h].archives), NEW x \in Files,
               NEW a, a = mGroups[h].archives[i]
        PROVE  (archives'[a].dirname # closed /\ x \in disk'[archives'[a].dirname]) <=> Holds(a, x)
    BY <1>5, <1>6, <2>3, <2>6 DEF Holds, disks
  <2>7. Len(archives) <= Len(archives') /\ Len(archives') \in Nat /\ blamed \subseteq blamed'
    BY <1>1, <1>2, <1>5, <1>6
  <2> QED
    BY <1>1, <1>14, <2>4, <2>5, <2>6, <2>7, GroupKept
<1> QED
  BY <1>5, <1>6, <1>13, <1>15 DEF StoreInv, StoreTypes, disks

LEMMA HasFileKeeps ==
    ASSUME StoreInv, NEW g \in DOMAIN mGroups, NEW f \in Files, HasFile(g, f)
    PROVE  StoreInv'
<1>1. /\ mGroups \in Seq(Group) /\ g \in 1 .. Len(mGroups) /\ mGroups[g] \in Group
      /\ Listed(g) /\ Len(archives) \in Nat
  BY LenProperties, ElementOfSeq DEF StoreInv, StoreTypes
<1>2. PICK a : a = FirstHolding(g, f)
  OBVIOUS
<1>3. PICK i \in 1 .. Len(mGroups[g].archives) : a = mGroups[g].archives[i] /\ FirstAt(g, f, i)
  BY <1>1, <1>2, FirstHoldingFinds DEF HasFile
<1>4. a \in 1 .. Len(archives)
  BY <1>1, <1>3, ElementOfSeq DEF Listed
<1>5. PICK group : group = [mGroups[g] EXCEPT !.lastName = f, !.lastArch = a]
  OBVIOUS
<1>6. /\ mGroups' = [mGroups EXCEPT ![g] = group]
      /\ blamed' = blamed \ {g} /\ UNCHANGED <<disks, archives>>
  BY <1>2, <1>5 DEF HasFile
<1>7. /\ group \in Group /\ group.name = mGroups[g].name /\ group.archives = mGroups[g].archives
      /\ group.lastName = f /\ group.lastArch = a
  <2>1. a \in Nat
    BY <1>4
  <2> QED
    BY <1>1, <1>5, <2>1 DEF Group
<1>8. /\ mGroups' \in Seq(Group) /\ Len(mGroups') = Len(mGroups)
      /\ \A h \in 1 .. Len(mGroups) : mGroups'[h] = IF h = g THEN group ELSE mGroups[h]
  BY <1>1, <1>6, <1>7, ExceptSeq
<1>9. ASSUME NEW h \in 1 .. Len(mGroups)
      PROVE  Listed(h)' /\ Whole(mGroups[h], archives)' /\ (h \notin blamed' => Remembers(h)')
  <2>1. Listed(h) /\ Whole(mGroups[h], archives) /\ (h \notin blamed => Remembers(h))
    BY DEF StoreInv
  <2>2. CASE h = g
    <3>1. mGroups'[h] = group
      BY <1>8, <2>2
    <3>2. Listed(h)'
      BY <1>1, <1>4, <1>6, <1>7, <3>1, <2>2 DEF Listed
    <3>3. Whole(mGroups'[h], archives')
      BY <1>6, <1>7, <2>1, <2>2, <3>1 DEF Whole, WholeAs
    <3>4. FirstAt(g, f, i)'
      BY <1>3, <1>6, <1>7, <2>2, <3>1 DEF FirstAt, Holds, disks
    <3>5. Remembers(h)'
      BY <1>3, <1>7, <2>2, <3>1, <3>4 DEF Remembers
    <3> QED
      BY <3>2, <3>3, <3>5
  <2>3. CASE h # g
    <3>1. mGroups'[h] = mGroups[h]
      BY <1>8, <2>3
    <3>2. Listed(h)' /\ Whole(mGroups[h], archives)'
      BY <1>6, <2>1, <3>1 DEF Listed
    <3>3. ASSUME h \notin blamed' PROVE Remembers(h)'
      BY <1>6, <2>1, <2>3, <3>1, <3>3 DEF Remembers, FirstAt, Holds, disks
    <3> QED
      BY <3>2, <3>3
  <2> QED
    BY <2>2, <2>3
<1> QED
  BY <1>6, <1>8, <1>9 DEF StoreInv, StoreTypes, disks

-----------------------------------------------------------------------------
(* Loading the groups of a configuration *)

Entries == Seq([path : Dirs, type : STRING])
Struct == [name : GroupNames, entries : Entries]

\* A group while it is loaded: before the first, it is empty and has no name.
Loading ==
    [name : GroupNames \cup {<<>>}, archives : Seq(Nat), lastName : Files \cup {noFile}, lastArch : Nat]

\* How far loading has come.
LoadState ==
    [ok : BOOLEAN, kind : Kinds, archives : Seq(ArchiveType), groups : Seq(Group), group : Loading]

\* From s to r, archives are only opened and directories only made.
Longer(s, r) ==
    /\ Len(s.archives) <= Len(r.archives)
    /\ \A a \in 1 .. Len(s.archives) : r.archives[a] = s.archives[a]
    /\ \A d \in Dirs : s.kind[d] = "dir" => r.kind[d] = "dir"

\* The first i entries of st are loaded.
LoadedTo(s, st, i) ==
    /\ s.group.name = st.name /\ s.group.lastName = noFile
    /\ s.group.archives \in Seq(1 .. Len(s.archives))
    /\ s.ok => /\ Len(s.group.archives) = Place(st, i)
               /\ \A j \in 1 .. i :
                    st.entries[j].type \in Registered =>
                       /\ Place(st, j) \in 1 .. Place(st, i)
                       /\ s.archives[s.group.archives[Place(st, j)]] = Archive(st.entries[j].path, FALSE)

\* One entry more takes one place more if its type is known.
LEMMA PlaceOfNext ==
    ASSUME NEW st, NEW i \in Nat
    PROVE  /\ Place(st, i) \in Nat
           /\ Place(st, i + 1) = IF st.entries[i + 1].type \in Registered
                                 THEN Place(st, i) + 1 ELSE Place(st, i)
<1> DEFINE A == {j \in 1 .. i : st.entries[j].type \in Registered}
           B == {j \in 1 .. i + 1 : st.entries[j].type \in Registered}
<1>1. IsFiniteSet(1 .. i)
  BY FS_Interval
<1>2. IsFiniteSet(A)
  BY <1>1, FS_Subset
<1>3. Cardinality(A) \in Nat
  BY <1>2, FS_CardinalityType
<1>4. i + 1 \notin A /\ \A j : j \in 1 .. i + 1 <=> (j \in 1 .. i \/ j = i + 1)
  OBVIOUS
<1>5. CASE st.entries[i + 1].type \in Registered
  <2>1. B = A \cup {i + 1}
    BY <1>4, <1>5
  <2>2. Cardinality(A \cup {i + 1}) = Cardinality(A) + 1
    BY <1>2, <1>4, FS_AddElement
  <2> QED
    BY <1>3, <1>5, <2>1, <2>2 DEF Place
<1>6. CASE st.entries[i + 1].type \notin Registered
  <2>1. B = A
    BY <1>4, <1>6
  <2> QED
    BY <1>3, <1>6, <2>1 DEF Place
<1> QED
  BY <1>5, <1>6

LEMMA LoadEntryTyped ==
    ASSUME NEW s \in LoadState, NEW entry \in [path : Dirs, type : STRING],
           NEW unwritable
    PROVE  LoadEntry(s, entry, unwritable) \in LoadState
<1>1. /\ s.archives \in Seq(ArchiveType) /\ s.kind \in Kinds /\ s.group \in Loading
      /\ s.groups \in Seq(Group) /\ s.ok \in BOOLEAN /\ entry.path \in Dirs
  BY DEF LoadState
<1>2. CASE ~s.ok \/ entry.type \notin Registered
  BY <1>2 DEF LoadEntry
<1>3. CASE ~(~s.ok \/ entry.type \notin Registered) /\ ~Opens(s.kind, entry.path, unwritable)
  <2>1. LoadEntry(s, entry, unwritable) = [s EXCEPT !.ok = FALSE]
    BY <1>3 DEF LoadEntry
  <2> QED
    BY <2>1 DEF LoadState
<1>4. CASE ~(~s.ok \/ entry.type \notin Registered) /\ Opens(s.kind, entry.path, unwritable)
  <2>1. PICK new : new = Archive(entry.path, FALSE)
    OBVIOUS
  <2>2. new \in ArchiveType
    BY <1>1, <2>1 DEF Archive, ArchiveType
  <2>3. Append(s.archives, new) \in Seq(ArchiveType) /\ Len(s.archives) \in Nat
    BY <1>1, <2>2, AppendProperties, LenProperties
  <2>4. Append(s.group.archives, Len(s.archives) + 1) \in Seq(Nat)
    <3>1. s.group.archives \in Seq(Nat) /\ Len(s.archives) + 1 \in Nat
      BY <1>1, <2>3 DEF Loading
    <3> QED
      BY <3>1, AppendProperties
  <2>5. PICK group : group = [s.group EXCEPT !.archives = Append(s.group.archives, Len(s.archives) + 1)]
    OBVIOUS
  <2>6. group \in Loading
    BY <1>1, <2>4, <2>5 DEF Loading
  <2>7. PICK k : k = [s.kind EXCEPT ![entry.path] = "dir"]
    OBVIOUS
  <2>8. k \in Kinds
    BY <1>1, <2>7 DEF Kinds
  <2>9. LoadEntry(s, entry, unwritable)
          = [s EXCEPT !.kind = k, !.archives = Append(s.archives, new), !.group = group]
    BY <1>4, <2>1, <2>5, <2>7 DEF LoadEntry
  <2> QED
    BY <1>1, <2>3, <2>6, <2>8, <2>9 DEF LoadState
<1> QED
  BY <1>2, <1>3, <1>4

\* One entry more is loaded.
LEMMA LoadEntryLoads ==
    ASSUME NEW s \in LoadState, NEW st \in Struct, NEW unwritable,
           NEW i \in Nat, i + 1 <= Len(st.entries), LoadedTo(s, st, i)
    PROVE  LET r == LoadEntry(s, st.entries[i + 1], unwritable) IN
             LoadedTo(r, st, i + 1) /\ Longer(s, r) /\ r.groups = s.groups
<1> DEFINE r == LoadEntry(s, st.entries[i + 1], unwritable)
<1>1. /\ s.archives \in Seq(ArchiveType) /\ s.kind \in Kinds /\ s.group \in Loading
      /\ Len(s.archives) \in Nat /\ s.ok \in BOOLEAN
  BY LenProperties DEF LoadState
<1>2. PICK e : e = st.entries[i + 1]
  OBVIOUS
<1>3. e \in [path : Dirs, type : STRING]
  <2>1. st.entries \in Seq([path : Dirs, type : STRING]) /\ i + 1 \in 1 .. Len(st.entries)
    BY DEF Struct, Entries
  <2> QED
    BY <1>2, <2>1, ElementOfSeq
<1>4. /\ Place(st, i) \in Nat
      /\ Place(st, i + 1) = IF e.type \in Registered THEN Place(st, i) + 1 ELSE Place(st, i)
  BY <1>2, PlaceOfNext
<1>5. PICK p : p = Place(st, i)
  OBVIOUS
<1>6. CASE ~s.ok \/ (e.type \notin Registered)
  <2>1. r = s
    BY <1>2, <1>6 DEF LoadEntry
  <2>2. Longer(s, s)
    BY <1>1 DEF Longer
  <2>3. ASSUME s.ok PROVE Place(st, i + 1) = p /\ \A j \in 1 .. i + 1 :
                             st.entries[j].type \in Registered => j \in 1 .. i
    BY <1>2, <1>4, <1>5, <1>6, <2>3
  <2>4. LoadedTo(s, st, i + 1)
    BY <1>5, <2>3 DEF LoadedTo
  <2> QED
    BY <2>1, <2>2, <2>4
<1>7. CASE s.ok /\ e.type \in Registered /\ ~Opens(s.kind, e.path, unwritable)
  <2>1. r = [s EXCEPT !.ok = FALSE]
    BY <1>2, <1>7 DEF LoadEntry
  <2>2. r.archives = s.archives /\ r.kind = s.kind /\ r.group = s.group /\ r.groups = s.groups
        /\ ~r.ok
    BY <2>1 DEF LoadState
  <2>3. Longer(s, r)
    BY <1>1, <2>2 DEF Longer
  <2>4. LoadedTo(r, st, i + 1)
    BY <2>2 DEF LoadedTo
  <2> QED
    BY <2>2, <2>3, <2>4
<1>8. CASE s.ok /\ e.type \in Registered /\ Opens(s.kind, e.path, unwritable)
  <2>1. PICK new : new = Archive(e.path, FALSE)
    OBVIOUS
  <2>2. new \in ArchiveType
    BY <1>3, <2>1 DEF Archive, ArchiveType
  <2>3. PICK n \in Nat : n = Len(s.archives) + 1
    BY <1>1
  <2>4. PICK as : as = Append(s.archives, new)
    OBVIOUS
  <2>5. Len(as) = n /\ as[n] = new /\ \A a \in 1 .. Len(s.archives) : as[a] = s.archives[a]
    BY <1>1, <2>2, <2>3, <2>4, AppendProperties
  <2>6. PICK list : list = s.group.archives
    OBVIOUS
  <2>7. PICK lists : lists = Append(list, n)
    OBVIOUS
  <2>8. list \in Seq(1 .. Len(s.archives)) /\ list \in Seq(1 .. n) /\ n \in 1 .. n
    <3>1. list \in Seq(1 .. Len(s.archives)) /\ 1 .. Len(s.archives) \subseteq 1 .. n
      BY <1>1, <2>3, <2>6 DEF LoadedTo
    <3> QED
      BY <2>3, <3>1, SeqMonotonic
  <2>9. /\ lists \in Seq(1 .. n) /\ Len(lists) = Len(list) + 1 /\ lists[Len(list) + 1] = n
        /\ \A k \in 1 .. Len(list) : lists[k] = list[k]
    BY <2>7, <2>8, AppendProperties
  <2>10. \A k \in 1 .. Len(list) : list[k] \in 1 .. Len(s.archives)
    BY <2>8, ElementOfSeq
  <2>11. PICK group : group = [s.group EXCEPT !.archives = lists]
    OBVIOUS
  <2>12. r = [s EXCEPT !.kind[e.path] = "dir", !.archives = as, !.group = group]
    BY <1>2, <1>8, <2>1, <2>3, <2>4, <2>6, <2>7, <2>11 DEF LoadEntry
  <2>13. /\ r.archives = as /\ r.group = group /\ r.groups = s.groups /\ r.ok = s.ok
         /\ r.kind = [s.kind EXCEPT ![e.path] = "dir"]
    BY <2>12 DEF LoadState
  <2>14. group.archives = lists /\ group.name = s.group.name /\ group.lastName = s.group.lastName
    BY <1>1, <2>11 DEF Loading
  <2>15. Longer(s, r)
    <3>1. Len(s.archives) <= Len(as)
      BY <1>1, <2>3, <2>5
    <3>2. \A d \in Dirs : s.kind[d] = "dir" => r.kind[d] = "dir"
      BY <1>1, <2>13 DEF Kinds
    <3> QED
      BY <2>5, <2>13, <3>1, <3>2 DEF Longer
  <2>16. /\ s.group.name = st.name /\ s.group.lastName = noFile /\ Len(list) = p
         /\ \A j \in 1 .. i : st.entries[j].type \in Registered =>
              /\ Place(st, j) \in 1 .. p
              /\ s.archives[list[Place(st, j)]] = Archive(st.entries[j].path, FALSE)
    BY <1>5, <1>8, <2>6 DEF LoadedTo
  <2>17. p \in Nat /\ Place(st, i + 1) = p + 1
    BY <1>4, <1>5, <1>8
  <2>18. ASSUME NEW j \in 1 .. i + 1, st.entries[j].type \in Registered
         PROVE  /\ Place(st, j) \in 1 .. p + 1
                /\ as[lists[Place(st, j)]] = Archive(st.entries[j].path, FALSE)
    <3>1. CASE j = i + 1
      <4>1. Place(st, j) = p + 1 /\ lists[p + 1] = n /\ p + 1 \in 1 .. p + 1
        BY <2>9, <2>16, <2>17, <3>1
      <4>2. as[lists[Place(st, j)]] = new /\ st.entries[j] = e
        BY <1>2, <2>5, <3>1, <4>1
      <4> QED
        BY <2>1, <4>1, <4>2
    <3>2. CASE j \in 1 .. i
      <4>1. PICK q \in 1 .. p : q = Place(st, j)
        BY <2>16, <2>18, <3>2
      <4>2. lists[q] = list[q] /\ list[q] \in 1 .. Len(s.archives)
        BY <2>9, <2>10, <2>16
      <4>3. as[list[q]] = Archive(st.entries[j].path, FALSE)
        BY <2>5, <2>16, <2>18, <3>2, <4>1, <4>2
      <4>4. q \in 1 .. p + 1
        BY <2>17
      <4> QED
        BY <4>1, <4>2, <4>3, <4>4
    <3>3. j = i + 1 \/ j \in 1 .. i
      OBVIOUS
    <3> QED
      BY <3>1, <3>2, <3>3
  <2>19. LoadedTo(r, st, i + 1)
    <3>1. Len(lists) = p + 1
      BY <2>9, <2>16
    <3> QED
      BY <2>5, <2>9, <2>13, <2>14, <2>16, <2>17, <2>18, <3>1 DEF LoadedTo
  <2> QED
    BY <2>13, <2>15, <2>19
<1> QED
  BY <1>6, <1>7, <1>8

LEMMA LongerAgain ==
    ASSUME NEW s \in LoadState, NEW r \in LoadState, NEW t \in LoadState, Longer(s, r), Longer(r, t)
    PROVE  Longer(s, t)
<1>1. Len(s.archives) \in Nat /\ Len(r.archives) \in Nat /\ Len(t.archives) \in Nat
  BY LenProperties DEF LoadState
<1> QED
  BY <1>1 DEF Longer

\* The loop of loadFromStruct.
LEMMA StructLoads ==
    ASSUME NEW s \in LoadState, NEW st \in Struct, NEW unwritable
    PROVE  LET r == LoadFromStruct(s, st, unwritable) IN
             /\ r \in LoadState /\ LoadedTo(r, st, Len(st.entries))
             /\ Longer(s, r) /\ r.groups = s.groups
<1> DEFINE first == [s EXCEPT !.group = EmptyGroup(st.name)]
           F(f) == [i \in 0 .. Len(st.entries) |->
                      IF i = 0 THEN [s EXCEPT !.group = EmptyGroup(st.name)]
                      ELSE LoadEntry(f[i - 1], st.entries[i], unwritable)]
           after == CHOOSE f : f = F(f)
           n == Len(st.entries)
           G == [p \in Nat \X LoadState |-> IF p[1] \in 1 .. n
                                            THEN LoadEntry(p[2], st.entries[p[1]], unwritable) ELSE p[2]]
<1>1. st.entries \in Entries /\ st.name \in GroupNames
  BY DEF Struct
<1>2. n \in Nat /\ \A i \in 1 .. n : st.entries[i] \in [path : Dirs, type : STRING]
  BY <1>1, LenProperties, ElementOfSeq DEF Entries
<1>3. LoadFromStruct(s, st, unwritable) = after[n]
  BY DEF LoadFromStruct
<1>4. EmptyGroup(st.name) \in Loading
  BY <1>1, EmptySeq DEF EmptyGroup, Loading
<1>5. first \in LoadState /\ first.archives = s.archives /\ first.kind = s.kind
      /\ first.groups = s.groups /\ first.group = EmptyGroup(st.name)
  BY <1>4 DEF LoadState
<1>6. ASSUME NEW i \in 0 .. n, i # 0, NEW r \in LoadState
      PROVE  G[<<i, r>>] = LoadEntry(r, st.entries[i], unwritable)
  <2>1. i \in 1 .. n /\ <<i, r>> \in Nat \X LoadState
    BY <1>2, <1>6
  <2> QED
    BY <2>1
<1>7. G \in [Nat \X LoadState -> LoadState]
  <2>1. ASSUME NEW p \in Nat \X LoadState
        PROVE  (IF p[1] \in 1 .. n THEN LoadEntry(p[2], st.entries[p[1]], unwritable) ELSE p[2])
                 \in LoadState
    BY <1>2, LoadEntryTyped
  <2> QED
    BY <2>1
<1> HIDE DEF G, first
<1>8. PICK g : Solves(g, n, first, G, LoadState)
  BY <1>2, <1>5, <1>7, Recursion
<1>9. g = F(g)
  <2>1. ASSUME NEW i \in 0 .. n, i # 0
        PROVE  g[i] = LoadEntry(g[i - 1], st.entries[i], unwritable)
    <3>1. i \in 1 .. n /\ i - 1 \in 0 .. n
      BY <1>2, <2>1
    <3>2. g[i - 1] \in LoadState
      BY <1>8, <3>1 DEF Solves
    <3> QED
      BY <1>6, <1>8, <2>1, <3>1, <3>2 DEF Solves
  <2> QED
    BY <1>8, <2>1 DEF Solves, first
<1>10. after = F(after)
  BY <1>9
<1> HIDE DEF after
<1>11. /\ after[0] = first
       /\ \A i \in 1 .. n : after[i] = LoadEntry(after[i - 1], st.entries[i], unwritable)
  <2>1. \A i \in 0 .. n : after[i] = IF i = 0 THEN first
                                     ELSE LoadEntry(after[i - 1], st.entries[i], unwritable)
    BY <1>10 DEF first
  <2>2. 0 \in 0 .. n /\ \A i \in 1 .. n : i \in 0 .. n /\ i # 0
    BY <1>2
  <2> QED
    BY <2>1, <2>2
<1> HIDE DEF F
<1> DEFINE Good(i) == /\ after[i] \in LoadState /\ LoadedTo(after[i], st, i)
                      /\ Longer(s, after[i]) /\ after[i].groups = s.groups
           T == {i \in Nat : i <= n => Good(i)}
<1>12. 0 \in T
  <2>1. Len(<<>>) = 0 /\ <<>> \in Seq(1 .. Len(s.archives))
    BY EmptySeq
  <2>2. Place(st, 0) = 0
    <3>1. {j \in 1 .. 0 : st.entries[j].type \in Registered} = {}
      OBVIOUS
    <3> QED
      BY <3>1, FS_EmptySet DEF Place
  <2>3. LoadedTo(first, st, 0)
    BY <1>5, <2>1, <2>2 DEF LoadedTo, EmptyGroup
  <2>4. Longer(s, first)
    <3>1. Len(s.archives) \in Nat
      BY LenProperties DEF LoadState
    <3> QED
      BY <1>5, <3>1 DEF Longer
  <2> QED
    BY <1>5, <1>11, <2>3, <2>4
<1>13. ASSUME NEW i \in Nat, i \in T PROVE i + 1 \in T
  <2>1. SUFFICES ASSUME i + 1 <= n PROVE Good(i + 1)
    OBVIOUS
  <2>2. i + 1 \in 1 .. n /\ (i + 1) - 1 = i /\ Good(i)
    BY <1>2, <1>13, <2>1
  <2>3. after[i + 1] = LoadEntry(after[i], st.entries[i + 1], unwritable)
    BY <1>11, <2>2
  <2>4. after[i + 1] \in LoadState
    BY <1>2, <2>2, <2>3, LoadEntryTyped
  <2>5. LoadedTo(after[i + 1], st, i + 1) /\ Longer(after[i], after[i + 1])
        /\ after[i + 1].groups = after[i].groups
    <3>1. PICK r : r = after[i]
      OBVIOUS
    <3>2. r \in LoadState /\ LoadedTo(r, st, i) /\ i + 1 <= Len(st.entries)
      BY <2>1, <2>2, <3>1
    <3>3. LET t == LoadEntry(r, st.entries[i + 1], unwritable) IN
            LoadedTo(t, st, i + 1) /\ Longer(r, t) /\ t.groups = r.groups
      BY <3>2, LoadEntryLoads
    <3> QED
      BY <2>3, <3>1, <3>3
  <2>6. Longer(s, after[i + 1])
    BY <2>2, <2>4, <2>5, LongerAgain
  <2> QED
    BY <2>2, <2>4, <2>5, <2>6
<1> HIDE DEF T
<1>14. n \in T
  BY <1>2, <1>12, <1>13, Induction
<1>15. Good(n)
  BY <1>2, <1>14 DEF T
<1> QED
  BY <1>3, <1>15

\* What loading starts from.
StartState ==
    [ok |-> TRUE, kind |-> kind, archives |-> archives, groups |-> mGroups, group |-> EmptyGroup(<<>>)]

\* The groups there were are still there, and those loaded since are whole.
Loaded(s) ==
    /\ s \in LoadState
    /\ Longer(StartState, s)
    /\ Len(mGroups) <= Len(s.groups)
    /\ \A g \in 1 .. Len(mGroups) : s.groups[g] = mGroups[g]
    /\ \A g \in Len(mGroups) + 1 .. Len(s.groups) :
         /\ s.groups[g].archives \in Seq(1 .. Len(s.archives))
         /\ s.groups[g].lastName = noFile
         /\ Whole(s.groups[g], s.archives)

LEMMA StartLoaded ==
    ASSUME StoreInv
    PROVE  Loaded(StartState)
<1>1. /\ archives \in Seq(ArchiveType) /\ kind \in Kinds /\ mGroups \in Seq(Group)
      /\ Len(mGroups) \in Nat /\ Len(archives) \in Nat
  BY LenProperties DEF StoreInv, StoreTypes
<1>2. EmptyGroup(<<>>) \in Loading
  BY EmptySeq DEF EmptyGroup, Loading
<1>3. StartState \in LoadState
  BY <1>1, <1>2 DEF StartState, LoadState
<1> QED
  BY <1>1, <1>3 DEF Loaded, Longer, StartState

LEMMA LoadGroupLoads ==
    ASSUME StoreInv, NEW s, Loaded(s), NEW content \in Configs, NEW k \in 1 .. Len(content),
           NEW unwritable
    PROVE  Loaded(LoadGroup(s, content[k], unwritable))
<1> DEFINE st == content[k]
<1>1. st \in Struct
  <2>1. content \in Seq(Struct)
    BY ResourcesAssumption DEF Struct, Entries
  <2> QED
    BY <2>1, ElementOfSeq
<1>2. PICK r : r = LoadFromStruct(s, st, unwritable)
  OBVIOUS
<1>3. s \in LoadState
  BY DEF Loaded
<1>4. StartState \in LoadState
  BY StartLoaded DEF Loaded
<1> HIDE DEF st
<1>5. r \in LoadState /\ LoadedTo(r, st, Len(st.entries)) /\ Longer(s, r) /\ r.groups = s.groups
  BY <1>1, <1>2, <1>3, StructLoads
<1>6. Longer(StartState, r)
  BY <1>3, <1>4, <1>5, LongerAgain DEF Loaded
<1>7. /\ s.groups \in Seq(Group) /\ Len(s.groups) \in Nat /\ Len(mGroups) \in Nat
      /\ Len(s.archives) \in Nat /\ Len(r.archives) \in Nat
  BY <1>3, <1>5, LenProperties DEF LoadState, StoreInv, StoreTypes
<1>8. Len(s.archives) <= Len(r.archives) /\ Steady(s.archives, r.archives, Len(s.archives))
  BY <1>5 DEF Longer, Steady
<1>9. ASSUME NEW g \in Len(mGroups) + 1 .. Len(s.groups)
      PROVE  /\ s.groups[g].archives \in Seq(1 .. Len(r.archives))
             /\ s.groups[g].lastName = noFile /\ Whole(s.groups[g], r.archives)
  <2>1. PICK group : group = s.groups[g]
    OBVIOUS
  <2>2. group.archives \in Seq(1 .. Len(s.archives)) /\ group.lastName = noFile
        /\ Whole(group, s.archives)
    BY <2>1 DEF Loaded
  <2>3. group.archives \in Seq(1 .. Len(r.archives))
    <3>1. 1 .. Len(s.archives) \subseteq 1 .. Len(r.archives)
      BY <1>7, <1>8
    <3> QED
      BY <2>2, <3>1, SeqMonotonic
  <2>4. Grown(group, group)
    <3>1. Len(group.archives) \in Nat
      BY <2>2, LenProperties
    <3> QED
      BY <3>1 DEF Grown
  <2>5. Whole(group, r.archives)
    BY <1>7, <1>8, <2>2, <2>4, WholeKept
  <2> QED
    BY <2>1, <2>2, <2>3, <2>5
<1>10. CASE ~r.ok
  <2>1. LoadGroup(s, st, unwritable) = r
    BY <1>2, <1>10 DEF LoadGroup
  <2>2. Loaded(r)
    BY <1>5, <1>6, <1>9 DEF Loaded
  <2> QED
    BY <2>1, <2>2 DEF st
<1>11. CASE r.ok
  <2>1. PICK group : group = r.group
    OBVIOUS
  <2>2. PICK n \in Nat : n = Len(s.groups) + 1
    BY <1>7
  <2>3. PICK groups : groups = Append(s.groups, group)
    OBVIOUS
  <2>4. PICK t : t = [r EXCEPT !.groups = groups]
    OBVIOUS
  <2>5. LoadGroup(s, st, unwritable) = t
    BY <1>2, <1>5, <1>11, <2>1, <2>3, <2>4 DEF LoadGroup
  <2>6. /\ group.name = st.name /\ group.lastName = noFile
        /\ group.archives \in Seq(1 .. Len(r.archives))
    BY <1>5, <2>1 DEF LoadedTo
  <2>7. group \in Group
    <3>1. group \in Loading /\ st.name \in GroupNames
      BY <1>1, <1>5, <2>1 DEF LoadState, Struct
    <3> QED
      BY <2>6, <3>1 DEF Loading, Group
  <2>8. /\ groups \in Seq(Group) /\ Len(groups) = n /\ groups[n] = group
        /\ \A g \in 1 .. Len(s.groups) : groups[g] = s.groups[g]
    BY <1>7, <2>2, <2>3, <2>7, AppendProperties
  <2>9. t \in LoadState /\ t.groups = groups /\ t.archives = r.archives /\ t.kind = r.kind
    BY <1>5, <2>4, <2>8 DEF LoadState
  <2>10. WholeAs(group, st, r.archives)
    <3>1. /\ Len(group.archives) = Place(st, Len(st.entries))
          /\ \A j \in 1 .. Len(st.entries) :
               st.entries[j].type \in Registered =>
                 /\ Place(st, j) \in 1 .. Place(st, Len(st.entries))
                 /\ r.archives[group.archives[Place(st, j)]] = Archive(st.entries[j].path, FALSE)
      BY <1>5, <1>11, <2>1 DEF LoadedTo
    <3> QED
      BY <2>6, <3>1 DEF WholeAs
  <2>11. Whole(group, r.archives)
    BY <2>10 DEF Whole, st
  <2>12. Longer(StartState, t)
    BY <1>6, <2>9 DEF Longer
  <2>13. Len(mGroups) <= Len(s.groups) /\ \A g \in 1 .. Len(mGroups) : s.groups[g] = mGroups[g]
    BY DEF Loaded
  <2>14. ASSUME NEW g \in 1 .. Len(mGroups) PROVE groups[g] = mGroups[g]
    <3>1. g \in 1 .. Len(s.groups)
      BY <1>7, <2>13
    <3> QED
      BY <2>8, <2>13, <3>1
  <2>15. ASSUME NEW g \in Len(mGroups) + 1 .. n
         PROVE  /\ groups[g].archives \in Seq(1 .. Len(r.archives))
                /\ groups[g].lastName = noFile /\ Whole(groups[g], r.archives)
    <3>1. CASE g = n
      BY <2>6, <2>8, <2>11, <3>1
    <3>2. CASE g # n
      <4>1. g \in Len(mGroups) + 1 .. Len(s.groups) /\ g \in 1 .. Len(s.groups)
        BY <1>7, <2>2, <3>2
      <4>2. groups[g] = s.groups[g]
        BY <2>8, <4>1
      <4> QED
        BY <1>9, <4>1, <4>2
    <3> QED
      BY <3>1, <3>2
  <2>16. Len(mGroups) <= n
    BY <1>7, <2>2, <2>13
  <2>17. Loaded(t)
    BY <2>8, <2>9, <2>12, <2>14, <2>15, <2>16 DEF Loaded
  <2> QED
    BY <2>5, <2>17 DEF st
<1> QED
  BY <1>10, <1>11

\* The loop of loadGroupsFromFile.
LEMMA GroupsLoad ==
    ASSUME StoreInv, NEW content \in Configs, NEW unwritable
    PROVE  Loaded(LoadGroups(content, unwritable))
<1> DEFINE F(f) == [i \in 0 .. Len(content) |->
                      IF i = 0 THEN [ok |-> TRUE, kind |-> kind, archives |-> archives,
                                     groups |-> mGroups, group |-> EmptyGroup(<<>>)]
                      ELSE IF f[i - 1].ok THEN LoadGroup(f[i - 1], content[i], unwritable)
                      ELSE f[i - 1]]
           after == CHOOSE f : f = F(f)
           n == Len(content)
           States == {s \in LoadState : Loaded(s)}
           Turn(i, s) == IF s.ok THEN LoadGroup(s, content[i], unwritable) ELSE s
           G == [p \in Nat \X States |-> IF p[1] \in 1 .. n THEN Turn(p[1], p[2]) ELSE p[2]]
<1>1. LoadGroups(content, unwritable) = after[n]
  BY DEF LoadGroups
<1>2. n \in Nat
  BY ResourcesAssumption, LenProperties
<1>3. \A s : s \in States <=> Loaded(s)
  BY DEF Loaded
<1>4. StartState \in States
  BY <1>3, StartLoaded
<1> HIDE DEF States
<1>5. ASSUME NEW i \in 1 .. n, NEW s \in States PROVE Turn(i, s) \in States
  BY <1>3, LoadGroupLoads
<1> HIDE DEF Turn
<1>6. ASSUME NEW i \in 0 .. n, i # 0, NEW s \in States PROVE G[<<i, s>>] = Turn(i, s)
  <2>1. i \in 1 .. n /\ <<i, s>> \in Nat \X States
    BY <1>2, <1>6
  <2> QED
    BY <2>1
<1>7. G \in [Nat \X States -> States]
  BY <1>5
<1> HIDE DEF G
<1>8. PICK g : Solves(g, n, StartState, G, States)
  BY <1>2, <1>4, <1>7, Recursion
<1>9. g = F(g)
  <2>1. ASSUME NEW i \in 0 .. n, i # 0 PROVE g[i] = Turn(i, g[i - 1])
    <3>1. i \in 1 .. n /\ i - 1 \in 0 .. n
      BY <1>2, <2>1
    <3>2. g[i - 1] \in States
      BY <1>8, <3>1 DEF Solves
    <3> QED
      BY <1>6, <1>8, <2>1, <3>1, <3>2 DEF Solves
  <2> QED
    BY <1>8, <2>1 DEF Solves, StartState, Turn
<1>10. after = F(after)
  BY <1>9
<1> HIDE DEF after
<1>11. after[0] = StartState /\ \A i \in 1 .. n : after[i] = Turn(i, after[i - 1])
  <2>1. \A i \in 0 .. n : after[i] = IF i = 0 THEN StartState ELSE Turn(i, after[i - 1])
    BY <1>10 DEF StartState, Turn
  <2>2. 0 \in 0 .. n /\ \A i \in 1 .. n : i \in 0 .. n /\ i # 0
    BY <1>2
  <2> QED
    BY <2>1, <2>2
<1> HIDE DEF F
<1> DEFINE T == {i \in Nat : i <= n => after[i] \in States}
<1>12. 0 \in T
  BY <1>4, <1>11
<1>13. ASSUME NEW i \in Nat, i \in T PROVE i + 1 \in T
  <2>1. SUFFICES ASSUME i + 1 <= n PROVE after[i + 1] \in States
    OBVIOUS
  <2>2. i + 1 \in 1 .. n /\ (i + 1) - 1 = i /\ after[i] \in States
    BY <1>2, <1>13, <2>1
  <2> QED
    BY <1>5, <1>11, <2>2
<1> HIDE DEF T
<1>14. n \in T
  BY <1>2, <1>12, <1>13, Induction
<1> QED
  BY <1>1, <1>2, <1>3, <1>14 DEF T

LEMMA LoadKeeps ==
    ASSUME StoreInv, NEW unwritable, LoadGroupsFromFile(unwritable)
    PROVE  StoreInv'
<1>1. PICK content \in IF config = bad THEN {DefaultConfig, bad} ELSE {config} :
         /\ config' = content /\ content # bad
         /\ LET s == LoadGroups(content, unwritable) IN
              kind' = s.kind /\ archives' = s.archives /\ mGroups' = s.groups
         /\ UNCHANGED <<disk, mResFactories, caches, crashed, blamed>>
  BY DEF LoadGroupsFromFile
<1>2. content \in Configs
  BY <1>1, ResourcesAssumption DEF StoreInv, StoreTypes
<1>3. PICK s : s = LoadGroups(content, unwritable)
  OBVIOUS
<1>4. kind' = s.kind /\ archives' = s.archives /\ mGroups' = s.groups
      /\ disk' = disk /\ blamed' = blamed
  BY <1>1, <1>3
<1>5. Loaded(s)
  BY <1>2, <1>3, GroupsLoad
<1>6. /\ s \in LoadState /\ Len(mGroups) <= Len(s.groups)
      /\ Len(archives) <= Len(s.archives)
      /\ \A a \in 1 .. Len(archives) : s.archives[a] = archives[a]
      /\ \A d \in Dirs : kind[d] = "dir" => s.kind[d] = "dir"
      /\ \A g \in 1 .. Len(mGroups) : s.groups[g] = mGroups[g]
  BY <1>5 DEF Loaded, Longer, StartState
<1>7. archives' \in Seq(ArchiveType) /\ kind' \in Kinds /\ mGroups' \in Seq(Group)
      /\ Len(archives') \in Nat /\ Len(archives) \in Nat
      /\ Len(mGroups') \in Nat /\ Len(mGroups) \in Nat
  BY <1>4, <1>6, LenProperties DEF LoadState, StoreInv, StoreTypes
<1>8. Steady(archives, archives', Len(archives))
  BY <1>4, <1>6 DEF Steady
<1>9. ASSUME NEW g \in 1 .. Len(mGroups)
      PROVE  Listed(g)' /\ Whole(mGroups[g], archives)' /\ (g \notin blamed' => Remembers(g)')
  <2>1. PICK lists : lists = mGroups[g].archives
    OBVIOUS
  <2>2. lists \in Seq(1 .. Len(archives)) /\ lists \in Seq(1 .. Len(archives'))
    <3>1. lists \in Seq(1 .. Len(archives)) /\ 1 .. Len(archives) \subseteq 1 .. Len(archives')
      BY <1>4, <1>6, <1>7, <2>1 DEF StoreInv, Listed
    <3> QED
      BY <3>1, SeqMonotonic
  <2>3. Len(lists) \in Nat /\ \A i \in 1 .. Len(lists) : lists[i] \in 1 .. Len(archives)
    BY <2>2, LenProperties, ElementOfSeq
  <2>4. mGroups'[g] = [mGroups[g] EXCEPT !.archives = lists]
    <3>1. mGroups[g] \in Group
      BY ElementOfSeq DEF StoreInv, StoreTypes
    <3> QED
      BY <1>4, <1>6, <2>1, <3>1 DEF Group
  <2>5. ASSUME NEW i \in 1 .. Len(mGroups[g].archives), NEW x \in Files,
               NEW a, a = mGroups[g].archives[i]
        PROVE  (archives'[a].dirname # closed /\ x \in disk'[archives'[a].dirname]) <=> Holds(a, x)
    BY <1>4, <1>6, <2>1, <2>3, <2>5 DEF Holds
  <2>6. Len(mGroups[g].archives) <= Len(lists)
        /\ \A i \in 1 .. Len(mGroups[g].archives) : lists[i] = mGroups[g].archives[i]
    BY <2>1, <2>3
  <2>7. Len(archives) <= Len(archives') /\ blamed \subseteq blamed'
    BY <1>4, <1>6
  <2> QED
    BY <1>7, <1>8, <2>2, <2>4, <2>5, <2>6, <2>7, GroupKept
<1>10. ASSUME NEW g \in Len(mGroups) + 1 .. Len(mGroups')
       PROVE  Listed(g)' /\ Whole(mGroups[g], archives)' /\ (g \notin blamed' => Remembers(g)')
  <2>1. /\ mGroups'[g].archives \in Seq(1 .. Len(archives'))
        /\ mGroups'[g].lastName = noFile /\ Whole(mGroups'[g], archives')
    BY <1>4, <1>5 DEF Loaded
  <2> QED
    BY <2>1, ResourcesAssumption DEF Listed, Remembers
<1>11. \A d \in Dirs : disk'[d] # {} => kind'[d] = "dir"
  BY <1>4, <1>6 DEF StoreInv, StoreTypes
<1>12. \A g \in 1 .. Len(mGroups') : g \in 1 .. Len(mGroups) \/ g \in Len(mGroups) + 1 .. Len(mGroups')
  BY <1>7
<1> QED
  BY <1>1, <1>2, <1>4, <1>7, <1>9, <1>10, <1>11, <1>12 DEF StoreInv, StoreTypes

LEMMA StoreStep == StoreInv /\ [Next]_vars => StoreInv'
<1> SUFFICES ASSUME StoreInv, [Next]_vars PROVE StoreInv'
  OBVIOUS
<1>1. CASE \E d \in Dirs, f \in Files : CreateFile(d, f) \/ DeleteFile(d, f)
  BY <1>1, DiskKeeps
<1>2. CASE \E a \in DOMAIN archives, d \in Dirs \cup {closed} : Reopen(a, d)
  BY <1>2, ReopenKeeps
<1>3. CASE \E unwritable \in SUBSET Dirs : LoadGroupsFromFile(unwritable)
  BY <1>3, LoadKeeps
<1>4. CASE \E g \in DOMAIN mGroups, d \in Dirs : AddEntry(g, d)
  BY <1>4, AddEntryKeeps
<1>5. CASE \E g \in DOMAIN mGroups, f \in Files : HasFile(g, f)
  BY <1>5, HasFileKeeps
<1>6. CASE UNCHANGED <<disks, archives, mGroups, blamed>>
  BY <1>6 DEF disks, StoreInv, StoreTypes, Listed, Remembers, FirstAt, Holds
<1>7. CASE \E fact \in Factories : RegistryFactory(fact)
  BY <1>6, <1>7 DEF RegistryFactory
<1>8. CASE \E type \in ResourceTypes : UnregistryFactory(type)
  BY <1>6, <1>8 DEF UnregistryFactory
<1>9. CASE \E f \in Files, group \in GroupNames : GetResource(f, group)
  BY <1>6, <1>9 DEF GetResource, GetLoaded, GetNew
<1>10. CASE UNCHANGED vars
  BY <1>6, <1>10 DEF vars
<1> QED
  BY <1>1, <1>2, <1>3, <1>4, <1>5, <1>7, <1>8, <1>9, <1>10 DEF Next, Outside, Program

LEMMA StoreHolds == Spec => []StoreInv
<1> QED
  BY StoreInit, StoreStep, PTL DEF Spec

\* Whatever files come and go, archives are opened, closed and added and groups
\* loaded, openFile opens a file in the first archive of the group that holds it,
\* unless the files or the archives of the group changed since hasFile answered.
THEOREM FileOpensInFirst == Spec => []OpensFirst
<1>1. ASSUME StoreInv PROVE OpensFirst
  <2>1. SUFFICES ASSUME NEW g \in DOMAIN mGroups \ blamed, NEW f \in Files
                 PROVE  OpenFile(g, f) = FirstHolding(g, f)
    BY DEF OpensFirst
  <2>2. g \in 1 .. Len(mGroups) /\ g \notin blamed
    BY <1>1, <2>1, LenProperties DEF StoreInv, StoreTypes
  <2>3. Listed(g) /\ Remembers(g)
    BY <1>1, <2>2 DEF StoreInv
  <2>4. CASE mGroups[g].lastName = f
    <3>1. PICK i \in 1 .. Len(mGroups[g].archives) :
             mGroups[g].lastArch = mGroups[g].archives[i] /\ FirstAt(g, f, i)
      BY <2>3, <2>4 DEF Remembers
    <3>2. FirstHolding(g, f) = mGroups[g].archives[i]
      BY <2>3, <3>1, FirstHoldingFinds
    <3> QED
      BY <2>4, <3>1, <3>2 DEF OpenFile, FirstAt
  <2>5. CASE mGroups[g].lastName # f
    BY <2>5 DEF OpenFile
  <2> QED
    BY <2>4, <2>5
<1> QED
  BY <1>1, StoreHolds, PTL

\* Wherever loading a configuration stops, each group registered has one archive
\* for every entry of its description, in that order, and each is the one that
\* was opened for it.
THEOREM GroupsAreWhole == Spec => []GroupsWhole
<1>1. ASSUME StoreInv PROVE GroupsWhole
  <2>1. SUFFICES ASSUME NEW g \in DOMAIN mGroups
                 PROVE  \E content \in Configs : \E st \in Range(content) :
                          /\ st.name = mGroups[g].name
                          /\ \A i \in DOMAIN st.entries :
                               st.entries[i].type \in Registered =>
                                 /\ Place(st, i) \in DOMAIN mGroups[g].archives
                                 /\ archives[mGroups[g].archives[Place(st, i)]]
                                      = Archive(st.entries[i].path, FALSE)
    BY DEF GroupsWhole
  <2>2. g \in 1 .. Len(mGroups)
    BY <1>1, <2>1, LenProperties DEF StoreInv, StoreTypes
  <2>3. PICK content \in Configs : \E k \in 1 .. Len(content) : WholeAs(mGroups[g], content[k], archives)
    BY <1>1, <2>2 DEF StoreInv, Whole
  <2>4. PICK k \in 1 .. Len(content) : WholeAs(mGroups[g], content[k], archives)
    BY <2>3
  <2>5. content \in Seq(Struct)
    BY ResourcesAssumption DEF Struct, Entries
  <2>6. DOMAIN content = 1 .. Len(content) /\ content[k] \in Struct
    BY <2>5, LenProperties, ElementOfSeq
  <2>7. content[k] \in Range(content)
    BY <2>6 DEF Range
  <2>8. DOMAIN content[k].entries = 1 .. Len(content[k].entries)
    BY <2>6, LenProperties DEF Struct, Entries
  <2>9. DOMAIN mGroups[g].archives = 1 .. Len(mGroups[g].archives)
    BY <1>1, <2>2, LenProperties DEF StoreInv, Listed
  <2> QED
    BY <2>4, <2>7, <2>8, <2>9 DEF WholeAs
<1> QED
  BY <1>1, StoreHolds, PTL

-----------------------------------------------------------------------------
(* The cache of resources *)

Made == [name : Files, group : GroupNames, factory : ResourceTypes, dirname : Dirs]

\* The request the resource r was made for.
Asked(r) ==
    \E x \in answers :
        x.resource = r /\ x.name = made[r].name /\ x.group = made[r].group

\* Each answer is what the cache holds under its key, no two keys hold the same, and
\* each resource was the answer to the request it was made for.
CacheInv ==
    /\ made \in Seq(Made)
    /\ mResources \in [Keys -> 0 .. Len(made)]
    /\ \A k, l \in Keys : mResources[k] = mResources[l] /\ mResources[k] # 0 => k = l
    /\ \A x \in answers : /\ x.name \in Files /\ x.group \in GroupNames
                          /\ x.resource = mResources[Key(x.name, x.group)] /\ x.resource # 0
    /\ \A r \in 1 .. Len(made) : Asked(r)

LEMMA CacheInit == Init => CacheInv
<1> SUFFICES ASSUME Init PROVE CacheInv
  OBVIOUS
<1>1. made = <<>> /\ mResources = [k \in Keys |-> 0] /\ answers = {}
  BY DEF Init
<1>2. made \in Seq(Made) /\ Len(made) = 0
  BY <1>1, EmptySeq
<1> QED
  BY <1>1, <1>2 DEF CacheInv

LEMMA LoadedKeeps ==
    ASSUME CacheInv, NEW f \in Files, NEW group \in GroupNames, GetLoaded(f, group)
    PROVE  CacheInv'
<1>1. PICK r : r = mResources[Key(f, group)]
  OBVIOUS
<1>2. r # 0 /\ answers' = answers \cup {[name |-> f, group |-> group, resource |-> r]}
      /\ UNCHANGED <<mResources, made>>
  BY <1>1 DEF GetLoaded, Answered
<1>3. ASSUME NEW x \in answers'
      PROVE  /\ x.name \in Files /\ x.group \in GroupNames
             /\ x.resource = mResources[Key(x.name, x.group)] /\ x.resource # 0
  BY <1>1, <1>2 DEF CacheInv
<1>4. \A k \in 1 .. Len(made) : Asked(k)'
  BY <1>2 DEF CacheInv, Asked
<1> QED
  BY <1>2, <1>3, <1>4 DEF CacheInv

\* What is made is a resource of a factory, read from a directory.
LEMMA NewIsMade ==
    ASSUME FactoryInv, StoreInv, NEW f \in Files, NEW group \in GroupNames, GetNew(f, group)
    PROVE  /\ mResFactories[GetByExt(f.ext)].type \in ResourceTypes
           /\ archives[OpenFile(GetByName(group), f)].dirname \in Dirs
<1>1. mResFactories[GetByExt(f.ext)].type \in ResourceTypes
  <2> DEFINE able == {i \in DOMAIN mResFactories : f.ext \in mResFactories[i].exts}
  <2>1. GetByExt(f.ext) = IF able = {} THEN 0 ELSE CHOOSE i \in able : \A j \in able : i <= j
    BY DEF GetByExt
  <2>2. DOMAIN mResFactories = 1 .. Len(mResFactories)
        /\ \A i \in 1 .. Len(mResFactories) : mResFactories[i] \in Factories
    BY LenProperties, ElementOfSeq DEF FactoryInv
  <2>3. able \subseteq Nat /\ able \subseteq 1 .. Len(mResFactories)
    BY <2>2
  <2> HIDE DEF able
  <2>4. able # {}
    BY <2>1 DEF GetNew
  <2>5. GetByExt(f.ext) \in able
    BY <2>1, <2>3, <2>4, FirstPlace
  <2> QED
    BY <2>2, <2>3, <2>5 DEF ResourceTypes
<1>2. archives[OpenFile(GetByName(group), f)].dirname \in Dirs
  <2> DEFINE named == {g \in DOMAIN mGroups : mGroups[g].name = group}
  <2>1. GetByName(group) = IF named = {} THEN 0 ELSE CHOOSE g \in named : \A h \in named : g <= h
    BY DEF GetByName
  <2>2. named \subseteq Nat /\ named \subseteq 1 .. Len(mGroups)
    BY LenProperties DEF StoreInv, StoreTypes
  <2> HIDE DEF named
  <2>3. named # {}
    BY <2>1 DEF GetNew
  <2>4. PICK g \in 1 .. Len(mGroups) : g = GetByName(group)
    BY <2>1, <2>2, <2>3, FirstPlace
  <2>5. PICK a : a = OpenFile(g, f)
    OBVIOUS
  <2>6. a # 0 /\ Listed(g)
    BY <2>4, <2>5 DEF GetNew, StoreInv
  <2>7. a \in 1 .. Len(archives) /\ Holds(a, f)
    <3>1. CASE mGroups[g].lastName = f
      BY <2>5, <2>6, <3>1 DEF OpenFile, Listed
    <3>2. CASE mGroups[g].lastName # f
      <4>1. a = FirstHolding(g, f)
        BY <2>5, <3>2 DEF OpenFile
      <4>2. PICK i \in 1 .. Len(mGroups[g].archives) : a = mGroups[g].archives[i] /\ FirstAt(g, f, i)
        BY <2>6, <4>1, FirstHoldingFinds
      <4> QED
        BY <2>6, <4>2, ElementOfSeq DEF Listed, FirstAt
    <3> QED
      BY <3>1, <3>2
  <2>8. archives[a] \in ArchiveType
    BY <2>7, ElementOfSeq DEF StoreInv, StoreTypes
  <2> QED
    BY <2>4, <2>5, <2>7, <2>8 DEF ArchiveType, Holds
<1> QED
  BY <1>1, <1>2

LEMMA NewKeeps ==
    ASSUME FactoryInv, StoreInv, CacheInv,
           NEW f \in Files, NEW group \in GroupNames, GetNew(f, group)
    PROVE  CacheInv'
<1>1. PICK new : new = [name |-> f, group |-> group,
                        factory |-> mResFactories[GetByExt(f.ext)].type,
                        dirname |-> archives[OpenFile(GetByName(group), f)].dirname]
  OBVIOUS
<1>2. new \in Made
  BY <1>1, NewIsMade DEF Made
<1>3. Len(made) \in Nat
  BY LenProperties DEF CacheInv
<1>4. PICK n \in Nat : n = Len(made) + 1
  BY <1>3
<1>5. made' = Append(made, new)
  BY <1>1 DEF GetNew
<1>6. /\ made' \in Seq(Made) /\ Len(made') = n /\ made'[n] = new
      /\ \A r \in 1 .. Len(made) : made'[r] = made[r]
  BY <1>2, <1>4, <1>5, AppendProperties DEF CacheInv
<1>7. PICK key : key = Key(f, group)
  OBVIOUS
<1>8. key \in Keys
  BY <1>7 DEF Keys
<1>9. /\ mResources[key] = 0
      /\ mResources' = [mResources EXCEPT ![key] = n]
      /\ answers' = answers \cup {[name |-> f, group |-> group, resource |-> n]}
  BY <1>6, <1>7 DEF GetNew, Answered
<1>10. mResources \in [Keys -> 0 .. Len(made)]
  BY DEF CacheInv
<1>11. mResources' \in [Keys -> 0 .. n]
       /\ \A k \in Keys : mResources'[k] = IF k = key THEN n ELSE mResources[k]
  <2>1. \A k \in Keys : mResources[k] \in 0 .. n
    BY <1>3, <1>4, <1>10
  <2>2. mResources' = [k \in Keys |-> IF k = key THEN n ELSE mResources[k]]
    BY <1>9, <1>10
  <2>3. n \in 0 .. n
    BY <1>4
  <2> QED
    BY <2>1, <2>2, <2>3
<1>12. \A k \in Keys : mResources[k] # n /\ mResources[k] \in Nat
  BY <1>3, <1>4, <1>10
<1>13. ASSUME NEW k \in Keys, NEW l \in Keys, mResources'[k] = mResources'[l], mResources'[k] # 0
       PROVE  k = l
  BY <1>11, <1>12, <1>13 DEF CacheInv
<1>14. ASSUME NEW x \in answers'
       PROVE  /\ x.name \in Files /\ x.group \in GroupNames
              /\ x.resource = mResources'[Key(x.name, x.group)] /\ x.resource # 0
  <2>1. CASE x \in answers
    <3>1. /\ x.name \in Files /\ x.group \in GroupNames
          /\ x.resource = mResources[Key(x.name, x.group)] /\ x.resource # 0
      BY <2>1 DEF CacheInv
    <3>2. Key(x.name, x.group) \in Keys /\ Key(x.name, x.group) # key
      BY <1>9, <3>1 DEF Keys
    <3> QED
      BY <1>11, <3>1, <3>2
  <2>2. CASE x = [name |-> f, group |-> group, resource |-> n]
    <3>1. x.name = f /\ x.group = group /\ x.resource = n
      BY <2>2
    <3>2. n # 0
      BY <1>3, <1>4
    <3> QED
      BY <1>7, <1>8, <1>11, <3>1, <3>2
  <2> QED
    BY <1>9, <2>1, <2>2
<1>15. ASSUME NEW r \in 1 .. Len(made') PROVE Asked(r)'
  <2>1. CASE r = n
    <3>1. PICK x \in answers' : x = [name |-> f, group |-> group, resource |-> n]
      BY <1>9
    <3>2. x.resource = r /\ x.name = made'[r].name /\ x.group = made'[r].group
      BY <1>1, <1>6, <2>1, <3>1
    <3> QED
      BY <3>2 DEF Asked
  <2>2. CASE r # n
    <3>1. r \in 1 .. Len(made) /\ made'[r] = made[r]
      BY <1>3, <1>4, <1>6, <2>2
    <3>2. answers \subseteq answers'
      BY <1>9
    <3>3. PICK x \in answers :
             x.resource = r /\ x.name = made[r].name /\ x.group = made[r].group
      BY <3>1 DEF CacheInv, Asked
    <3> QED
      BY <3>1, <3>2, <3>3 DEF Asked
  <2> QED
    BY <2>1, <2>2
<1> QED
  BY <1>6, <1>11, <1>13, <1>14, <1>15 DEF CacheInv

LEMMA CacheStep == FactoryInv /\ StoreInv /\ CacheInv /\ [Next]_vars => CacheInv'
<1> SUFFICES ASSUME FactoryInv, StoreInv, CacheInv, [Next]_vars PROVE CacheInv'
  OBVIOUS
<1>1. CASE \E f \in Files, group \in GroupNames : GetResource(f, group)
  BY <1>1, LoadedKeeps, NewKeeps DEF GetResource
<1>2. CASE UNCHANGED caches
  BY <1>2 DEF caches, CacheInv, Asked
<1>3. CASE Outside
  BY <1>2, <1>3 DEF Outside, CreateFile, DeleteFile, Reopen
<1>4. CASE \E unwritable \in SUBSET Dirs : LoadGroupsFromFile(unwritable)
  BY <1>2, <1>4 DEF LoadGroupsFromFile
<1>5. CASE \E g \in DOMAIN mGroups, d \in Dirs : AddEntry(g, d)
  BY <1>2, <1>5 DEF AddEntry
<1>6. CASE \E g \in DOMAIN mGroups, f \in Files : HasFile(g, f)
  BY <1>2, <1>6 DEF HasFile
<1>7. CASE \E fact \in Factories : RegistryFactory(fact)
  BY <1>2, <1>7 DEF RegistryFactory
<1>8. CASE \E type \in ResourceTypes : UnregistryFactory(type)
  BY <1>2, <1>8 DEF UnregistryFactory
<1>9. CASE UNCHANGED vars
  BY <1>2, <1>9 DEF vars
<1> QED
  BY <1>1, <1>3, <1>4, <1>5, <1>6, <1>7, <1>8, <1>9 DEF Next, Program

LEMMA CacheHolds == Spec => []CacheInv
<1> QED
  BY CacheInit, CacheStep, FactoryHolds, StoreHolds, PTL DEF Spec

\* Whatever else happens between two requests, each is answered with the resource
\* made for it and no other is, as long as no two requests have one key.
THEOREM RequestIsAnswered == Spec => []AnswersTheRequest
<1>1. ASSUME CacheInv PROVE AnswersTheRequest
  <2> SUFFICES ASSUME NEW x \in answers, \A y \in answers : ~Collide(x, y)
               PROVE  /\ made[x.resource].name = x.name /\ made[x.resource].group = x.group
                      /\ \A y \in answers :
                            y.resource = x.resource <=>
                              <<y.name, y.group>> = <<x.name, x.group>>
    BY DEF AnswersTheRequest
  <2>1. ASSUME NEW y \in answers
        PROVE  y.resource = x.resource <=> <<y.name, y.group>> = <<x.name, x.group>>
    <3>1. Key(x.name, x.group) \in Keys /\ Key(y.name, y.group) \in Keys
      BY <1>1 DEF CacheInv, Keys
    <3>2. y.resource = x.resource <=> Key(x.name, x.group) = Key(y.name, y.group)
      BY <1>1, <3>1 DEF CacheInv
    <3>3. CASE <<y.name, y.group>> = <<x.name, x.group>>
      BY <3>2, <3>3
    <3>4. CASE <<y.name, y.group>> # <<x.name, x.group>>
      BY <3>2, <3>4 DEF Collide
    <3> QED
      BY <3>3, <3>4
  <2>2. x.resource \in 1 .. Len(made)
    <3>1. mResources[Key(x.name, x.group)] \in 0 .. Len(made) /\ Len(made) \in Nat
      BY <1>1, LenProperties DEF CacheInv, Keys
    <3> QED
      BY <1>1, <3>1 DEF CacheInv
  <2>3. PICK z \in answers : /\ z.resource = x.resource
                             /\ z.name = made[x.resource].name
                             /\ z.group = made[x.resource].group
    BY <1>1, <2>2 DEF CacheInv, Asked
  <2>4. z.name = x.name /\ z.group = x.group
    BY <2>1, <2>3
  <2> QED
    BY <2>1, <2>3, <2>4
<1> QED
  BY <1>1, CacheHolds, PTL

\* The state of the manager, its groups, archives, factories and resources keeps
\* its types.
THEOREM ManagerTypes == Spec => []TypeOK
<1>1. FactoryInv /\ StoreInv /\ CacheInv => TypeOK
  BY DEF FactoryInv, StoreInv, StoreTypes, CacheInv, TypeOK, Kinds, ArchiveType, Made
<1> QED
  BY <1>1, FactoryHolds, StoreHolds, CacheHolds, PTL
=============================================================================

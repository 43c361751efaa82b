--------------------------- MODULE SceneGraphProofs ---------------------------
(***************************************************************************)
(* For any nodes, names and poses: the names of a node's childs lead to    *)
(* childs, however they are added and removed; a matrix that does not      *)
(* follow the ancestors was read before one of them moved; and the walk    *)
(* draws every node of the tree once.                                      *)
(***************************************************************************)
EXTENDS SceneGraph, SequenceTheorems, FiniteSetTheorems, InductionLemmas

IsChild(n, p) == \E i \in DOMAIN childs[p] : childs[p][i] = n

\* A child has at most one name, so the one removeChild forgets with it is all
\* there is to forget; and a new node has none.
IInv ==
    /\ created \subseteq Nodes
    /\ childs \in [Nodes -> Seq(Nodes)]
    /\ named \in [Nodes -> [Names -> Nodes \cup {noNode}]]
    /\ \A p \in Nodes, s \in Names :
         named[p][s] # noNode => named[p][s] \in created /\ IsChild(named[p][s], p)
    /\ \A p \in Nodes, s, t \in Names :
         named[p][s] # noNode /\ named[p][s] = named[p][t] => s = t

-----------------------------------------------------------------------------
\* What is cut out at i leaves the elements of every other place, in their order.
LEMMA RemoveAtIs ==
    ASSUME NEW S, NEW seq \in Seq(S), NEW i \in DOMAIN seq
    PROVE  /\ RemoveAt(seq, i) \in Seq(S) /\ DOMAIN RemoveAt(seq, i) = 1 .. Len(seq) - 1
           /\ \A k \in 1 .. Len(seq) - 1 :
                 RemoveAt(seq, i)[k] = IF k < i THEN seq[k] ELSE seq[k + 1]
<1>1. i \in 1 .. Len(seq) /\ Len(seq) \in Nat /\ DOMAIN seq = 1 .. Len(seq)
  OBVIOUS
<1>2. PICK left : left = SubSeq(seq, 1, i - 1)
  OBVIOUS
<1>3. PICK right : right = SubSeq(seq, i + 1, Len(seq))
  OBVIOUS
<1>4. /\ left \in Seq(S) /\ Len(left) = i - 1
      /\ \A k \in 1 .. i - 1 : left[k] = seq[k]
  BY <1>1, <1>2
<1>5. /\ right \in Seq(S) /\ Len(right) = Len(seq) - i
      /\ \A k \in 1 .. Len(seq) - i : right[k] = seq[i + k]
  BY <1>1, <1>3
<1>6. RemoveAt(seq, i) = left \o right
  BY <1>2, <1>3 DEF RemoveAt
<1>7. /\ left \o right \in Seq(S)
      /\ Len(left \o right) = Len(left) + Len(right)
      /\ \A k \in 1 .. Len(left) + Len(right) :
            (left \o right)[k] = IF k <= Len(left) THEN left[k] ELSE right[k - Len(left)]
  BY <1>4, <1>5, ConcatProperties
<1>8. PICK both : both = left \o right
  OBVIOUS
<1>9. both \in Seq(S) /\ DOMAIN both = 1 .. Len(seq) - 1
  <2>1. Len(left) + Len(right) = Len(seq) - 1
    BY <1>1, <1>4, <1>5
  <2>2. both \in Seq(S) /\ Len(both) = Len(seq) - 1
    BY <1>7, <1>8, <2>1
  <2> QED
    BY <2>2, LenProperties
<1>10. \A k \in 1 .. Len(seq) - 1 :
          both[k] = IF k <= i - 1 THEN seq[k] ELSE right[k - (i - 1)]
  <2>1. Len(left) = i - 1 /\ Len(left) + Len(right) = Len(seq) - 1
    BY <1>1, <1>4, <1>5
  <2>2. \A k \in 1 .. Len(seq) - 1 :
           both[k] = IF k <= i - 1 THEN left[k] ELSE right[k - (i - 1)]
    BY <1>7, <1>8, <2>1
  <2>3. \A k \in 1 .. Len(seq) - 1 : k <= i - 1 => k \in 1 .. i - 1
    BY <1>1
  <2> QED
    BY <1>4, <2>2, <2>3
<1>11. ASSUME NEW k \in 1 .. Len(seq) - 1 PROVE both[k] = IF k < i THEN seq[k] ELSE seq[k + 1]
  <2>1. CASE k < i
    <3>1. k <= i - 1
      BY <1>1, <2>1
    <3> QED
      BY <1>10, <2>1, <3>1
  <2>2. CASE ~(k < i)
    <3>1. ~(k <= i - 1) /\ k - (i - 1) \in 1 .. Len(seq) - i /\ i + (k - (i - 1)) = k + 1
      BY <1>1, <2>2
    <3> QED
      BY <1>5, <1>10, <2>2, <3>1
  <2> QED
    BY <2>1, <2>2
<1> QED
  BY <1>6, <1>8, <1>9, <1>11

LEMMA RemoveAtKeeps ==
    ASSUME NEW S, NEW seq \in Seq(S), NEW i \in DOMAIN seq
    PROVE  /\ RemoveAt(seq, i) \in Seq(S)
           /\ \A j \in DOMAIN seq : seq[j] # seq[i] =>
                \E k \in DOMAIN RemoveAt(seq, i) : RemoveAt(seq, i)[k] = seq[j]
           /\ \A k \in DOMAIN RemoveAt(seq, i) :
                \E j \in DOMAIN seq : RemoveAt(seq, i)[k] = seq[j]
           /\ IsInjective(seq) => IsInjective(RemoveAt(seq, i))
<1>1. i \in 1 .. Len(seq) /\ Len(seq) \in Nat /\ DOMAIN seq = 1 .. Len(seq)
  OBVIOUS
<1>2. PICK cut : cut = RemoveAt(seq, i)
  OBVIOUS
<1>3. /\ cut \in Seq(S) /\ DOMAIN cut = 1 .. Len(seq) - 1
      /\ \A k \in 1 .. Len(seq) - 1 : cut[k] = IF k < i THEN seq[k] ELSE seq[k + 1]
  BY <1>2, RemoveAtIs
<1>4. ASSUME NEW j \in DOMAIN seq, seq[j] # seq[i]
      PROVE  \E k \in DOMAIN cut : cut[k] = seq[j]
  <2>1. CASE j < i
    <3>1. j \in 1 .. Len(seq) - 1
      BY <1>1, <2>1
    <3> QED
      BY <1>3, <2>1, <3>1
  <2>2. CASE j > i
    <3>1. j - 1 \in 1 .. Len(seq) - 1 /\ ~(j - 1 < i) /\ (j - 1) + 1 = j
      BY <1>1, <2>2
    <3> QED
      BY <1>3, <3>1
  <2> QED
    BY <1>1, <1>4, <2>1, <2>2
<1> DEFINE Was(k) == IF k < i THEN k ELSE k + 1
<1>5. \A k \in DOMAIN cut : Was(k) \in DOMAIN seq /\ cut[k] = seq[Was(k)]
  BY <1>1, <1>3
<1>6. \A k, l \in DOMAIN cut : Was(k) = Was(l) => k = l
  BY <1>1, <1>3
<1> HIDE DEF Was
<1>7. IsInjective(seq) => IsInjective(cut)
  BY <1>5, <1>6 DEF IsInjective
<1> QED
  BY <1>2, <1>3, <1>4, <1>5, <1>7

LEMMA CutOutKeeps ==
    ASSUME NEW S, NEW seq \in Seq(S), NEW n
    PROVE  /\ CutOut(seq, n) \in Seq(S)
           /\ \A j \in DOMAIN seq : seq[j] # n =>
                \E k \in DOMAIN CutOut(seq, n) : CutOut(seq, n)[k] = seq[j]
           /\ \A k \in DOMAIN CutOut(seq, n) : \E j \in DOMAIN seq : CutOut(seq, n)[k] = seq[j]
           /\ IsInjective(seq) => IsInjective(CutOut(seq, n))
<1>1. CASE n \in Range(seq)
  <2>1. PICK i \in DOMAIN seq : i = CHOOSE j \in DOMAIN seq : seq[j] = n
    BY <1>1 DEF Range
  <2>2. seq[i] = n
    BY <1>1, <2>1 DEF Range
  <2>3. CutOut(seq, n) = RemoveAt(seq, i)
    BY <1>1, <2>1 DEF CutOut
  <2> QED
    BY <2>2, <2>3, RemoveAtKeeps
<1>2. CASE n \notin Range(seq)
  BY <1>2 DEF CutOut
<1> QED
  BY <1>1, <1>2

-----------------------------------------------------------------------------
LEMMA InvInit == Init => IInv
<1> SUFFICES ASSUME Init PROVE IInv
  OBVIOUS
<1>1. root \in Nodes
  BY SceneAssumption DEF Init
<1>2. <<>> \in Seq(Nodes)
  OBVIOUS
<1> QED
  BY <1>1, <1>2 DEF Init, IInv

LEMMA AddKeeps ==
    ASSUME IInv, NEW p \in Nodes, NEW name \in Names \cup {noName}, NEW ps \in Poses,
           AddChild(p, name, ps)
    PROVE  IInv'
<1>1. PICK n : n = NewNode
  OBVIOUS
<1>2. n \in Nodes /\ n \notin created
  BY <1>1 DEF AddChild, NewNode, IInv
<1>3. /\ created' = created \cup {n}
      /\ childs' = [childs EXCEPT ![p] = Append(@, n)]
      /\ named' = IF name = noName THEN named ELSE [named EXCEPT ![p][name] = n]
  BY <1>1 DEF AddChild
<1>4. ASSUME NEW q \in Nodes
      PROVE  /\ childs'[q] \in Seq(Nodes)
             /\ \A m : IsChild(m, q) => IsChild(m, q)'
             /\ IsChild(n, p)'
  <2>1. childs[q] \in Seq(Nodes) /\ childs[p] \in Seq(Nodes)
    BY DEF IInv
  <2>2. PICK longer : longer = Append(childs[p], n)
    OBVIOUS
  <2>3. /\ longer \in Seq(Nodes) /\ DOMAIN longer = 1 .. Len(childs[p]) + 1
        /\ DOMAIN childs[p] = 1 .. Len(childs[p]) /\ Len(childs[p]) \in Nat
        /\ longer[Len(childs[p]) + 1] = n
        /\ \A i \in 1 .. Len(childs[p]) : longer[i] = childs[p][i]
    BY <1>2, <2>1, <2>2, AppendProperties
  <2>4. childs'[p] = longer /\ (q # p => childs'[q] = childs[q])
    BY <1>3, <2>2 DEF IInv
  <2>5. Len(childs[p]) + 1 \in DOMAIN longer /\ DOMAIN childs[p] \subseteq DOMAIN longer
    BY <2>3
  <2> QED
    BY <2>1, <2>3, <2>4, <2>5 DEF IsChild
<1>5. named' \in [Nodes -> [Names -> Nodes \cup {noNode}]]
  <2>1. CASE name = noName
    BY <1>3, <2>1 DEF IInv
  <2>2. CASE name # noName
    <3>1. name \in Names
      BY <2>2
    <3> QED
      BY <1>2, <1>3, <2>2, <3>1 DEF IInv
  <2> QED
    BY <2>1, <2>2
<1>6. ASSUME NEW q \in Nodes, NEW s \in Names
      PROVE  named'[q][s] = IF q = p /\ s = name THEN n ELSE named[q][s]
  <2>1. CASE name = noName
    BY <1>3, <2>1, SceneAssumption
  <2>2. CASE name # noName
    <3>1. named' = [named EXCEPT ![p][name] = n] /\ name \in Names
      BY <1>3, <2>2
    <3>2. named[p] \in [Names -> Nodes \cup {noNode}]
      BY DEF IInv
    <3> QED
      BY <3>1, <3>2 DEF IInv
  <2> QED
    BY <2>1, <2>2
<1>7. ASSUME NEW q \in Nodes, NEW s \in Names, named'[q][s] # noNode
      PROVE  (named[q][s] \in created /\ IsChild(named[q][s], q))'
  <2>1. PICK m : m = named'[q][s]
    OBVIOUS
  <2>2. m \in created' /\ IsChild(m, q)'
    <3>1. CASE q = p /\ s = name
      BY <1>3, <1>4, <1>6, <2>1, <3>1
    <3>2. CASE ~(q = p /\ s = name)
      <4>1. m = named[q][s] /\ m # noNode
        BY <1>6, <1>7, <2>1, <3>2
      <4>2. m \in created /\ IsChild(m, q)
        BY <4>1 DEF IInv
      <4> QED
        BY <1>3, <1>4, <4>2
    <3> QED
      BY <3>1, <3>2
  <2> QED
    BY <2>1, <2>2 DEF IsChild
<1>8. ASSUME NEW q \in Nodes, NEW s \in Names, NEW t \in Names,
             named'[q][s] # noNode, named'[q][s] = named'[q][t]
      PROVE  s = t
  <2>1. n # noNode
    BY <1>2, SceneAssumption
  <2> QED
    BY <1>2, <1>6, <1>8, <2>1 DEF IInv
<1>9. created' \subseteq Nodes /\ childs' \in [Nodes -> Seq(Nodes)]
  <2>1. \A q \in Nodes : childs'[q] \in Seq(Nodes)
    BY <1>4
  <2> QED
    BY <1>2, <1>3, <2>1 DEF IInv
<1> QED
  BY <1>5, <1>7, <1>8, <1>9 DEF IInv

\* n goes from the childs of p, and with it every name that led to it.
LEMMA RemovalKeeps ==
    ASSUME IInv, NEW p \in Nodes, NEW n,
           childs' \in [Nodes -> Seq(Nodes)],
           \A q \in Nodes : q # p => childs'[q] = childs[q],
           \A m : m # n /\ IsChild(m, p) => IsChild(m, p)',
           \/ named' = named /\ NamesOf(p, n) = {}
           \/ \E s \in NamesOf(p, n) : named' = [named EXCEPT ![p][s] = noNode],
           created' = created, n # noNode
    PROVE  IInv'
<1>1. named' \in [Nodes -> [Names -> Nodes \cup {noNode}]]
  <2>1. ASSUME NEW s \in NamesOf(p, n), named' = [named EXCEPT ![p][s] = noNode]
        PROVE  named' \in [Nodes -> [Names -> Nodes \cup {noNode}]]
    BY <2>1 DEF IInv, NamesOf
  <2> QED
    BY <2>1 DEF IInv
<1>2. ASSUME NEW q \in Nodes, NEW s \in Names, named'[q][s] # noNode
      PROVE  named'[q][s] = named[q][s] /\ (q = p => named[q][s] # n)
  <2>1. CASE named' = named /\ NamesOf(p, n) = {}
    BY <1>2, <2>1 DEF NamesOf
  <2>2. ASSUME NEW r \in NamesOf(p, n), named' = [named EXCEPT ![p][r] = noNode]
        PROVE  named'[q][s] = named[q][s] /\ (q = p => named[q][s] # n)
    <3>1. r \in Names /\ named[p][r] = n
      BY DEF NamesOf
    <3>2. named'[q][s] = IF q = p /\ s = r THEN noNode ELSE named[q][s]
      BY <2>2, <3>1 DEF IInv
    <3> QED
      BY <1>2, <3>1, <3>2 DEF IInv
  <2> QED
    BY <2>1, <2>2
<1>3. ASSUME NEW q \in Nodes, NEW s \in Names, named'[q][s] # noNode
      PROVE  (named[q][s] \in created /\ IsChild(named[q][s], q))'
  <2>1. PICK m : m = named'[q][s]
    OBVIOUS
  <2>2. m = named[q][s] /\ m # noNode /\ (q = p => m # n)
    BY <1>2, <1>3, <2>1
  <2>3. m \in created /\ IsChild(m, q)
    BY <2>2 DEF IInv
  <2>4. IsChild(m, q)'
    <3>1. CASE q = p
      BY <2>2, <2>3, <3>1
    <3>2. CASE q # p
      BY <2>3, <3>2 DEF IsChild
    <3> QED
      BY <3>1, <3>2
  <2> QED
    BY <2>1, <2>3, <2>4 DEF IsChild
<1>4. ASSUME NEW q \in Nodes, NEW s \in Names, NEW t \in Names,
             named'[q][s] # noNode, named'[q][s] = named'[q][t]
      PROVE  s = t
  BY <1>2, <1>4 DEF IInv
<1> QED
  BY <1>1, <1>3, <1>4 DEF IInv

LEMMA InvStep == IInv /\ [Next]_vars => IInv'
<1> SUFFICES ASSUME IInv, [Next]_vars PROVE IInv'
  OBVIOUS
<1>1. CASE ClearScene
  <2>1. NewNode \in Nodes
    BY <1>1 DEF ClearScene, NewNode, IInv
  <2>2. created' = created \cup {NewNode} /\ UNCHANGED <<childs, named>>
    BY <1>1 DEF ClearScene
  <2> QED
    BY <2>1, <2>2 DEF IInv, IsChild
<1>2. ASSUME NEW p \in Nodes, NEW name \in Names \cup {noName}, NEW ps \in Poses,
             AddChild(p, name, ps)
      PROVE  IInv'
  BY <1>2, AddKeeps
<1>3. ASSUME NEW p \in Nodes, NEW n, n # noNode,
             childs' = [childs EXCEPT ![p] = CutOut(@, n)],
             Forget(p, n) \/ \E s \in NamesOf(p, n) : named' = [named EXCEPT ![p][s] = noNode],
             created' = created
      PROVE  IInv'
  <2>1. childs[p] \in Seq(Nodes) /\ childs'[p] = CutOut(childs[p], n)
    BY <1>3 DEF IInv
  <2>2. childs' \in [Nodes -> Seq(Nodes)]
    <3>1. CutOut(childs[p], n) \in Seq(Nodes)
      BY <2>1, CutOutKeeps
    <3> QED
      BY <1>3, <3>1 DEF IInv
  <2>3. \A q \in Nodes : q # p => childs'[q] = childs[q]
    BY <1>3 DEF IInv
  <2>4. \A m : m # n /\ IsChild(m, p) => IsChild(m, p)'
    BY <2>1, CutOutKeeps DEF IsChild
  <2>5. \/ named' = named /\ NamesOf(p, n) = {}
        \/ \E s \in NamesOf(p, n) : named' = [named EXCEPT ![p][s] = noNode]
    BY <1>3 DEF Forget
  <2> QED
    BY <1>3, <2>2, <2>3, <2>4, <2>5, RemovalKeeps
<1>4. ASSUME NEW p \in Nodes, NEW name \in Names, RemoveByName(p, name) PROVE IInv'
  <2>1. PICK n : n = named[p][name]
    OBVIOUS
  <2>2. /\ n # noNode /\ name \in NamesOf(p, n)
        /\ childs' = [childs EXCEPT ![p] = CutOut(@, n)]
        /\ named' = [named EXCEPT ![p][name] = noNode] /\ created' = created
    BY <1>4, <2>1 DEF RemoveByName, NamesOf
  <2> QED
    BY <1>3, <2>2
<1>5. ASSUME NEW p \in Nodes, NEW i, RemoveByIndex(p, i) PROVE IInv'
  <2>1. PICK n : n = childs[p][i]
    OBVIOUS
  <2>2. /\ childs[p] \in Seq(Nodes) /\ i \in DOMAIN childs[p] /\ Forget(p, n)
        /\ childs' = [childs EXCEPT ![p] = RemoveAt(@, i)] /\ created' = created
    BY <1>5, <2>1 DEF RemoveByIndex, IInv
  <2>3. n # noNode
    BY <2>1, <2>2, ElementOfSeq, SceneAssumption
  <2>4. /\ RemoveAt(childs[p], i) \in Seq(Nodes)
        /\ \A j \in DOMAIN childs[p] : childs[p][j] # n =>
             \E k \in DOMAIN RemoveAt(childs[p], i) : RemoveAt(childs[p], i)[k] = childs[p][j]
    BY <2>1, <2>2, RemoveAtKeeps
  <2>5. childs'[p] = RemoveAt(childs[p], i)
    BY <2>2 DEF IInv
  <2>6. childs' \in [Nodes -> Seq(Nodes)] /\ \A q \in Nodes : q # p => childs'[q] = childs[q]
    BY <2>2, <2>4 DEF IInv
  <2>7. \A m : m # n /\ IsChild(m, p) => IsChild(m, p)'
    BY <2>4, <2>5 DEF IsChild
  <2>8. \/ named' = named /\ NamesOf(p, n) = {}
        \/ \E s \in NamesOf(p, n) : named' = [named EXCEPT ![p][s] = noNode]
    BY <2>2 DEF Forget
  <2> QED
    BY <2>2, <2>3, <2>6, <2>7, <2>8, RemovalKeeps
<1>6. ASSUME NEW p \in Nodes, NEW n \in Nodes, RemoveNode(p, n) PROVE IInv'
  BY <1>3, <1>6, SceneAssumption DEF RemoveNode
<1>7. CASE Transform \/ UNCHANGED vars
  <2>1. UNCHANGED <<childs, named, created>>
    BY <1>7 DEF Transform, Move, Rescale, ReadMatrix, treeVars, vars
  <2> QED
    BY <2>1 DEF IInv, IsChild
<1> QED
  BY <1>1, <1>2, <1>4, <1>5, <1>6, <1>7 DEF Next, Tree

-----------------------------------------------------------------------------
\* getChild returns null or a child, for any nodes and names and whichever way
\* childs were removed.
THEOREM NamesLeadToChilds == Spec => []NamesResolve
<1>1. IInv => NamesResolve
  BY DEF IInv, IsChild, NamesResolve, Range
<1> QED
  BY <1>1, InvInit, InvStep, PTL DEF Spec


-----------------------------------------------------------------------------
(* Recursive definitions along the parents *)

\* pa is a forest: every way up ends.
Rooted(pa) ==
    \E bound \in Nat : \E rank \in [Nodes -> 0 .. bound] :
        \A m \in Nodes : pa[m] # noNode => rank[pa[m]] < rank[m]

\* f is what a definition asks for that starts from base and goes down by G.
Grown(f, pa, base, G, S) ==
    /\ f \in [Nodes -> S]
    /\ \A m \in Nodes : f[m] = IF pa[m] = noNode THEN base[m] ELSE G[<<m, f[pa[m]]>>]

LEMMA TreeRecursion ==
    ASSUME NEW S, NEW base \in [Nodes -> S], NEW G \in [Nodes \X S -> S],
           NEW pa \in [Nodes -> Nodes \cup {noNode}], Rooted(pa)
    PROVE  \E f : Grown(f, pa, base, G, S)
<1>1. PICK bound \in Nat : \E rank \in [Nodes -> 0 .. bound] :
         \A m \in Nodes : pa[m] # noNode => rank[pa[m]] < rank[m]
  BY DEF Rooted
<1>2. PICK rank \in [Nodes -> 0 .. bound] :
         \A m \in Nodes : pa[m] # noNode => rank[pa[m]] < rank[m]
  BY <1>1
<1> DEFINE All == [Nodes -> S]
           Down(f) == [m \in Nodes |-> IF pa[m] = noNode THEN base[m] ELSE G[<<m, f[pa[m]]>>]]
           H == [p \in Nat \X All |-> Down(p[2])]
<1>3. \A f \in All : Down(f) \in All
  <2>1. SUFFICES ASSUME NEW f \in All, NEW m \in Nodes
                 PROVE  (IF pa[m] = noNode THEN base[m] ELSE G[<<m, f[pa[m]]>>]) \in S
    OBVIOUS
  <2>2. CASE pa[m] = noNode
    BY <2>2
  <2>3. CASE pa[m] # noNode
    <3>1. pa[m] \in Nodes
      BY <2>3
    <3>2. <<m, f[pa[m]]>> \in Nodes \X S
      BY <3>1
    <3> QED
      BY <2>3, <3>2
  <2> QED
    BY <2>2, <2>3
<1>4. base \in All /\ H \in [Nat \X All -> All]
  BY <1>3
<1>5. bound + 2 \in Nat
  OBVIOUS
<1>6. PICK g : Solves(g, bound + 2, base, H, All)
  <2> HIDE DEF All, H
  <2> QED
    BY <1>4, <1>5, Recursion
<1>7. ASSUME NEW k \in 0 .. bound + 1
      PROVE  g[k] \in All /\ g[k + 1] = Down(g[k])
  <2>1. k \in 0 .. bound + 2 /\ k + 1 \in 1 .. bound + 2 /\ (k + 1) - 1 = k /\ k + 1 \in Nat
    OBVIOUS
  <2>2. g[k] \in All /\ g[k + 1] = H[<<k + 1, g[k]>>]
    <3> HIDE DEF All, H
    <3> QED
      BY <1>6, <2>1 DEF Solves
  <2>3. <<k + 1, g[k]>> \in Nat \X All
    BY <2>1, <2>2
  <2> QED
    BY <2>2, <2>3
<1> HIDE DEF H
<1> DEFINE T == {k \in Nat : k <= bound + 1 => \A m \in Nodes : rank[m] < k => g[k + 1][m] = g[k][m]}
<1>8. 0 \in T
  BY <1>2
<1>9. ASSUME NEW k \in Nat, k \in T PROVE k + 1 \in T
  <2>1. SUFFICES ASSUME k + 1 <= bound + 1, NEW m \in Nodes, rank[m] < k + 1
                 PROVE  g[(k + 1) + 1][m] = g[k + 1][m]
    OBVIOUS
  <2>2. k \in 0 .. bound + 1 /\ k + 1 \in 0 .. bound + 1
    BY <2>1
  <2>3. g[k + 1] = Down(g[k]) /\ g[(k + 1) + 1] = Down(g[k + 1])
    BY <1>7, <2>2
  <2>4. CASE pa[m] = noNode
    BY <2>3, <2>4
  <2>5. CASE pa[m] # noNode
    <3>1. pa[m] \in Nodes /\ rank[pa[m]] < rank[m] /\ rank[m] \in Nat /\ rank[pa[m]] \in Nat
      BY <1>2, <2>5
    <3>2. rank[pa[m]] < k
      BY <2>1, <3>1
    <3>3. g[k + 1][pa[m]] = g[k][pa[m]]
      BY <1>9, <2>2, <3>1, <3>2
    <3>4. PICK a, b, c : a = g[k] /\ b = g[k + 1] /\ c = g[(k + 1) + 1]
      OBVIOUS
    <3>5. b = Down(a) /\ c = Down(b) /\ b[pa[m]] = a[pa[m]]
      BY <2>3, <3>3, <3>4
    <3>6. b[m] = G[<<m, a[pa[m]]>>] /\ c[m] = G[<<m, b[pa[m]]>>]
      BY <2>5, <3>5
    <3> QED
      BY <3>4, <3>5, <3>6
  <2> QED
    BY <2>4, <2>5
<1> HIDE DEF T
<1>10. bound + 1 \in Nat /\ bound + 1 \in T
  BY <1>8, <1>9, Induction
<1>11. PICK f : f = g[bound + 1]
  OBVIOUS
<1>12. f \in All /\ \A m \in Nodes : Down(f)[m] = f[m]
  <2>1. bound + 1 \in 0 .. bound + 1
    OBVIOUS
  <2>2. \A m \in Nodes : rank[m] < bound + 1
    BY <1>2
  <2>3. f \in All /\ g[(bound + 1) + 1] = Down(f)
    BY <1>7, <1>11, <2>1
  <2>4. \A m \in Nodes : g[(bound + 1) + 1][m] = f[m]
    BY <1>10, <1>11, <2>2 DEF T
  <2> HIDE DEF Down, All
  <2> QED
    BY <2>3, <2>4
<1>13. Grown(f, pa, base, G, S)
  BY <1>12 DEF Grown
<1> QED
  BY <1>13

-----------------------------------------------------------------------------
(* The absolute pose *)

PoseOf(pa, po) ==
    CHOOSE f : f = [m \in Nodes |-> IF pa[m] = noNode THEN po[m] ELSE f[pa[m]] + po[m]]

LEMMA AbsPoseIs == \A n : AbsPose(n) = PoseOf(parent, pose)[n]
  BY DEF AbsPose, PoseOf

LEMMA PoseOfSolves ==
    ASSUME NEW pa \in [Nodes -> Nodes \cup {noNode}], Rooted(pa), NEW po \in [Nodes -> Int]
    PROVE  /\ PoseOf(pa, po) \in [Nodes -> Int]
           /\ \A m \in Nodes : PoseOf(pa, po)[m] =
                 IF pa[m] = noNode THEN po[m] ELSE PoseOf(pa, po)[pa[m]] + po[m]
<1> DEFINE G == [p \in Nodes \X Int |-> p[2] + po[p[1]]]
           F(f) == [m \in Nodes |-> IF pa[m] = noNode THEN po[m] ELSE f[pa[m]] + po[m]]
           up == CHOOSE f : f = F(f)
<1>1. G \in [Nodes \X Int -> Int] /\ \A m \in Nodes, v \in Int : G[<<m, v>>] = v + po[m]
  OBVIOUS
<1> HIDE DEF G
<1>2. PICK g : Grown(g, pa, po, G, Int)
  BY <1>1, TreeRecursion
<1>3. g \in [Nodes -> Int] /\ \A m \in Nodes : g[m] = IF pa[m] = noNode THEN po[m] ELSE g[pa[m]] + po[m]
  <2>1. g \in [Nodes -> Int]
    BY <1>2 DEF Grown
  <2>2. ASSUME NEW m \in Nodes PROVE g[m] = IF pa[m] = noNode THEN po[m] ELSE g[pa[m]] + po[m]
    <3>1. CASE pa[m] = noNode
      BY <1>2, <3>1 DEF Grown
    <3>2. CASE pa[m] # noNode
      <4>1. pa[m] \in Nodes /\ g[pa[m]] \in Int
        BY <2>1, <3>2
      <4>2. g[m] = G[<<m, g[pa[m]]>>]
        BY <1>2, <3>2 DEF Grown
      <4> QED
        BY <1>1, <3>2, <4>1, <4>2
    <3> QED
      BY <3>1, <3>2
  <2> QED
    BY <2>1, <2>2
<1>4. g = F(g)
  BY <1>3
<1>5. up = F(up)
  BY <1>4
<1>6. PoseOf(pa, po) = up
  BY DEF PoseOf
<1>7. \A m \in Nodes : up[m] = IF pa[m] = noNode THEN po[m] ELSE up[pa[m]] + po[m]
  <2> HIDE DEF up
  <2> QED
    BY <1>5
<1>8. up \in [Nodes -> Int]
  <2>1. DOMAIN up = Nodes /\ up = [m \in Nodes |-> up[m]]
    <3> HIDE DEF up
    <3> QED
      BY <1>5
  <2>2. PICK bound \in Nat : \E rank \in [Nodes -> 0 .. bound] :
           \A m \in Nodes : pa[m] # noNode => rank[pa[m]] < rank[m]
    BY DEF Rooted
  <2>3. PICK rank \in [Nodes -> 0 .. bound] :
           \A m \in Nodes : pa[m] # noNode => rank[pa[m]] < rank[m]
    BY <2>2
  <2> DEFINE T == {k \in Nat : \A m \in Nodes : rank[m] < k => up[m] \in Int}
  <2> HIDE DEF up
  <2>4. 0 \in T
    BY <2>3
  <2>5. ASSUME NEW k \in Nat, k \in T PROVE k + 1 \in T
    <3>1. SUFFICES ASSUME NEW m \in Nodes, rank[m] < k + 1 PROVE up[m] \in Int
      OBVIOUS
    <3>2. CASE pa[m] = noNode
      BY <1>7, <3>2
    <3>3. CASE pa[m] # noNode
      <4>1. pa[m] \in Nodes /\ rank[pa[m]] < k
        BY <2>3, <3>1, <3>3
      <4>2. up[pa[m]] \in Int
        BY <2>5, <4>1
      <4> QED
        BY <1>7, <3>3, <4>2
    <3> QED
      BY <3>2, <3>3
  <2> HIDE DEF T
  <2>6. bound + 1 \in T
    BY <2>4, <2>5, Induction
  <2>7. \A m \in Nodes : rank[m] < bound + 1
    BY <2>3
  <2>8. \A m \in Nodes : up[m] \in Int
    BY <2>6, <2>7 DEF T
  <2> QED
    BY <2>1, <2>8
<1> QED
  BY <1>6, <1>7, <1>8

\* Where two forests agree, up to the roots, the absolute poses agree.
LEMMA PosesAgree ==
    ASSUME NEW pa \in [Nodes -> Nodes \cup {noNode}], Rooted(pa), NEW po \in [Nodes -> Int],
           NEW pa2 \in [Nodes -> Nodes \cup {noNode}], Rooted(pa2), NEW po2 \in [Nodes -> Int],
           NEW M \in SUBSET Nodes,
           \A m \in M : pa2[m] = pa[m] /\ po2[m] = po[m] /\ (pa[m] # noNode => pa[m] \in M)
    PROVE  \A m \in M : PoseOf(pa2, po2)[m] = PoseOf(pa, po)[m]
<1>1. PICK u, u2 : u = PoseOf(pa, po) /\ u2 = PoseOf(pa2, po2)
  OBVIOUS
<1>2. \A m \in Nodes : u[m] = IF pa[m] = noNode THEN po[m] ELSE u[pa[m]] + po[m]
  BY <1>1, PoseOfSolves
<1>3. \A m \in Nodes : u2[m] = IF pa2[m] = noNode THEN po2[m] ELSE u2[pa2[m]] + po2[m]
  BY <1>1, PoseOfSolves
<1>4. PICK bound \in Nat : \E rank \in [Nodes -> 0 .. bound] :
         \A m \in Nodes : pa[m] # noNode => rank[pa[m]] < rank[m]
  BY DEF Rooted
<1>5. PICK rank \in [Nodes -> 0 .. bound] :
         \A m \in Nodes : pa[m] # noNode => rank[pa[m]] < rank[m]
  BY <1>4
<1> DEFINE T == {k \in Nat : \A m \in M : rank[m] < k => u2[m] = u[m]}
<1>6. 0 \in T
  BY <1>5
<1>7. ASSUME NEW k \in Nat, k \in T PROVE k + 1 \in T
  <2>1. SUFFICES ASSUME NEW m \in M, rank[m] < k + 1 PROVE u2[m] = u[m]
    OBVIOUS
  <2>2. CASE pa[m] = noNode
    BY <1>2, <1>3, <2>2
  <2>3. CASE pa[m] # noNode
    <3>1. pa[m] \in M /\ rank[pa[m]] < k
      BY <1>5, <2>1, <2>3
    <3>2. u2[pa[m]] = u[pa[m]]
      BY <1>7, <3>1
    <3> QED
      BY <1>2, <1>3, <2>3, <3>2
  <2> QED
    BY <2>2, <2>3
<1> HIDE DEF T
<1>8. bound + 1 \in T
  BY <1>6, <1>7, Induction
<1>9. \A m \in M : rank[m] < bound + 1
  BY <1>5
<1>10. \A m \in M : u2[m] = u[m]
  BY <1>8, <1>9 DEF T
<1> QED
  BY <1>1, <1>10


-----------------------------------------------------------------------------
(* The nodes below a node *)

UnderOf(pa, n) ==
    CHOOSE f : f = [m \in Nodes |-> pa[m] # noNode /\ (pa[m] = n \/ f[pa[m]])]

LEMMA BelowIs == \A n : Below(n) = {m \in created : UnderOf(parent, n)[m]}
  BY DEF Below, UnderOf

LEMMA UnderOfSolves ==
    ASSUME NEW pa \in [Nodes -> Nodes \cup {noNode}], Rooted(pa), NEW n
    PROVE  \A m \in Nodes : UnderOf(pa, n)[m] =
              (pa[m] # noNode /\ (pa[m] = n \/ UnderOf(pa, n)[pa[m]]))
<1> DEFINE base == [m \in Nodes |-> FALSE]
           G == [p \in Nodes \X BOOLEAN |-> pa[p[1]] = n \/ p[2]]
           F(f) == [m \in Nodes |-> pa[m] # noNode /\ (pa[m] = n \/ f[pa[m]])]
           under == CHOOSE f : f = F(f)
<1>1. base \in [Nodes -> BOOLEAN] /\ G \in [Nodes \X BOOLEAN -> BOOLEAN]
  OBVIOUS
<1>2. \A m \in Nodes, v \in BOOLEAN : G[<<m, v>>] = (pa[m] = n \/ v)
  OBVIOUS
<1>3. \A m \in Nodes : base[m] = FALSE
  OBVIOUS
<1> HIDE DEF G, base
<1>4. PICK g : Grown(g, pa, base, G, BOOLEAN)
  BY <1>1, TreeRecursion
<1>5. ASSUME NEW m \in Nodes PROVE g[m] = (pa[m] # noNode /\ (pa[m] = n \/ g[pa[m]]))
  <2>1. CASE pa[m] = noNode
    <3>1. g[m] = FALSE
      BY <1>3, <1>4, <2>1 DEF Grown
    <3> QED
      BY <2>1, <3>1
  <2>2. CASE pa[m] # noNode
    <3>1. pa[m] \in Nodes
      BY <2>2
    <3>2. g[pa[m]] \in BOOLEAN
      BY <1>4, <3>1 DEF Grown
    <3>3. g[m] = G[<<m, g[pa[m]]>>]
      BY <1>4, <2>2 DEF Grown
    <3>4. g[m] = (pa[m] = n \/ g[pa[m]])
      BY <1>2, <3>2, <3>3
    <3> QED
      BY <2>2, <3>4
  <2> QED
    BY <2>1, <2>2
<1>6. g = F(g)
  <2>1. g = [m \in Nodes |-> g[m]]
    BY <1>4 DEF Grown
  <2> QED
    BY <1>5, <2>1, Zenon
<1>7. under = F(under)
  BY <1>6
<1>8. UnderOf(pa, n) = under
  BY DEF UnderOf
<1>9. \A m \in Nodes : under[m] = (pa[m] # noNode /\ (pa[m] = n \/ under[pa[m]]))
  <2> HIDE DEF under
  <2> QED
    BY <1>7, Zenon
<1> HIDE DEF under, F
<1> QED
  BY <1>8, <1>9


-----------------------------------------------------------------------------
(* The tree *)

\* A node has one parent, which it keeps when it is removed; whoever has it among
\* its childs is that parent, and has it once.
TreeInv ==
    /\ created \subseteq Nodes /\ root \in created /\ parent[root] = noNode
    /\ parent \in [Nodes -> Nodes \cup {noNode}] /\ Rooted(parent)
    /\ \A m \in Nodes : parent[m] # noNode => m \in created /\ parent[m] \in created
    /\ childs \in [Nodes -> Seq(Nodes)]
    /\ \A p \in Nodes : \A i \in DOMAIN childs[p] : parent[childs[p][i]] = p
    /\ \A p \in Nodes : IsInjective(childs[p])

LEMMA TreeInit == Init => TreeInv
<1> SUFFICES ASSUME Init PROVE TreeInv
  OBVIOUS
<1>1. root \in Nodes
  BY SceneAssumption DEF Init
<1>2. parent = [n \in Nodes |-> noNode] /\ childs = [n \in Nodes |-> <<>>] /\ created = {root}
  BY DEF Init
<1>3. Rooted(parent)
  <2>1. [n \in Nodes |-> 0] \in [Nodes -> 0 .. 0]
    OBVIOUS
  <2>2. \A m \in Nodes : parent[m] = noNode
    BY <1>2
  <2> QED
    BY <2>1, <2>2 DEF Rooted
<1>4. <<>> \in Seq(Nodes) /\ DOMAIN <<>> = {} /\ IsInjective(<<>>)
  BY EmptySeq DEF IsInjective
<1>5. \A p \in Nodes : childs[p] = <<>>
  BY <1>2
<1>6. childs \in [Nodes -> Seq(Nodes)]
  BY <1>2, <1>4
<1>7. parent \in [Nodes -> Nodes \cup {noNode}] /\ \A m \in Nodes : parent[m] = noNode
  BY <1>2
<1> QED
  BY <1>1, <1>2, <1>3, <1>4, <1>5, <1>6, <1>7 DEF TreeInv

LEMMA NewNodeIsNew ==
    ASSUME TreeInv, created # Nodes
    PROVE  /\ NewNode \in Nodes /\ NewNode \notin created /\ parent[NewNode] = noNode
           /\ \A m \in Nodes : parent[m] # NewNode
<1>1. NewNode \in Nodes /\ NewNode \notin created
  BY DEF NewNode, TreeInv
<1> QED
  BY <1>1, SceneAssumption DEF TreeInv

LEMMA AddKeepsTree ==
    ASSUME TreeInv, NEW p \in Nodes, NEW name \in Names \cup {noName}, NEW ps \in Poses,
           AddChild(p, name, ps)
    PROVE  TreeInv'
<1>1. PICK n : n = NewNode
  OBVIOUS
<1>2. /\ p \in created /\ UNCHANGED root
      /\ created' = created \cup {n}
      /\ parent' = [parent EXCEPT ![n] = p]
      /\ childs' = [childs EXCEPT ![p] = Append(@, n)]
  BY <1>1 DEF AddChild
<1>3. n \in Nodes /\ n \notin created /\ parent[n] = noNode /\ \A m \in Nodes : parent[m] # n
  BY <1>1, NewNodeIsNew DEF AddChild
<1>4. \A m \in Nodes : parent'[m] = IF m = n THEN p ELSE parent[m]
  BY <1>2, <1>3 DEF TreeInv
<1>5. parent' \in [Nodes -> Nodes \cup {noNode}]
  BY <1>2, <1>3 DEF TreeInv
<1>6. Rooted(parent')
  <2>1. PICK bound \in Nat : \E rank \in [Nodes -> 0 .. bound] :
           \A m \in Nodes : parent[m] # noNode => rank[parent[m]] < rank[m]
    BY DEF TreeInv, Rooted
  <2>2. PICK rank \in [Nodes -> 0 .. bound] :
           \A m \in Nodes : parent[m] # noNode => rank[parent[m]] < rank[m]
    BY <2>1
  <2>3. PICK rank2 : rank2 = [rank EXCEPT ![n] = bound + 1]
    OBVIOUS
  <2>4. /\ bound + 1 \in Nat /\ rank2 \in [Nodes -> 0 .. bound + 1]
        /\ \A m \in Nodes : rank2[m] = IF m = n THEN bound + 1 ELSE rank[m]
    BY <1>3, <2>3
  <2>5. ASSUME NEW m \in Nodes, parent'[m] # noNode PROVE rank2[parent'[m]] < rank2[m]
    <3>1. p # n /\ rank[p] < bound + 1
      BY <1>2, <1>3
    <3>2. CASE m = n
      BY <1>4, <2>4, <3>1, <3>2
    <3>3. CASE m # n
      <4>1. parent'[m] = parent[m] /\ parent[m] # n /\ parent[m] \in Nodes
        BY <1>3, <1>4, <2>5, <3>3 DEF TreeInv
      <4> QED
        BY <2>2, <2>4, <2>5, <3>3, <4>1
    <3> QED
      BY <3>2, <3>3
  <2> QED
    BY <2>4, <2>5 DEF Rooted
<1>7. PICK old \in Seq(Nodes) : old = childs[p]
  BY DEF TreeInv
<1>8. PICK longer : longer = Append(old, n)
  OBVIOUS
<1>9. /\ longer \in Seq(Nodes) /\ DOMAIN longer = 1 .. Len(old) + 1
      /\ DOMAIN old = 1 .. Len(old) /\ Len(old) \in Nat
      /\ longer[Len(old) + 1] = n /\ \A i \in 1 .. Len(old) : longer[i] = old[i]
  BY <1>3, <1>8, AppendProperties
<1>10. childs' = [childs EXCEPT ![p] = longer]
  BY <1>2, <1>7, <1>8
<1>11. childs' \in [Nodes -> Seq(Nodes)]
       /\ \A q \in Nodes : childs'[q] = IF q = p THEN longer ELSE childs[q]
  BY <1>9, <1>10 DEF TreeInv
<1>12. \A i \in DOMAIN old : old[i] # n /\ parent[old[i]] = p /\ old[i] \in Nodes
  BY <1>3, <1>7, SceneAssumption DEF TreeInv
<1>13. ASSUME NEW q \in Nodes, NEW i \in DOMAIN childs'[q] PROVE parent'[childs'[q][i]] = q
  <2>1. CASE q = p
    <3>1. i \in DOMAIN longer /\ childs'[q] = longer
      BY <1>11, <2>1
    <3>2. CASE i = Len(old) + 1
      BY <1>3, <1>4, <1>9, <2>1, <3>1, <3>2
    <3>3. CASE i # Len(old) + 1
      <4>1. i \in 1 .. Len(old)
        BY <1>9, <3>1, <3>3
      <4>2. longer[i] = old[i] /\ i \in DOMAIN old
        BY <1>9, <4>1
      <4> QED
        BY <1>4, <1>12, <2>1, <3>1, <4>2
    <3> QED
      BY <3>2, <3>3
  <2>2. CASE q # p
    <3>1. childs'[q] = childs[q] /\ childs[q] \in Seq(Nodes)
      BY <1>11, <2>2 DEF TreeInv
    <3>2. childs[q][i] \in Nodes /\ parent[childs[q][i]] = q
      BY <3>1, ElementOfSeq, LenProperties DEF TreeInv
    <3>3. q # noNode
      BY SceneAssumption
    <3> QED
      BY <1>3, <1>4, <3>1, <3>2, <3>3
  <2> QED
    BY <2>1, <2>2
<1>14. ASSUME NEW q \in Nodes PROVE IsInjective(childs'[q])
  <2>1. IsInjective(old)
    BY <1>7 DEF TreeInv
  <2>2. IsInjective(longer)
    BY <1>9, <1>12, <2>1 DEF IsInjective
  <2> QED
    BY <1>11, <2>2 DEF TreeInv
<1>15. created' \subseteq Nodes /\ root' \in created' /\ parent'[root'] = noNode
  BY <1>2, <1>3, <1>4 DEF TreeInv
<1>16. \A m \in Nodes : parent'[m] # noNode => m \in created' /\ parent'[m] \in created'
  BY <1>2, <1>4 DEF TreeInv
<1> QED
  BY <1>5, <1>6, <1>11, <1>13, <1>14, <1>15, <1>16 DEF TreeInv

\* Only the childs of p change, and lose some.
LEMMA RemovalKeepsTree ==
    ASSUME TreeInv, NEW p \in Nodes, NEW cut, childs' = [childs EXCEPT ![p] = cut],
           cut \in Seq(Nodes), IsInjective(childs[p]) => IsInjective(cut),
           \A k \in DOMAIN cut : \E j \in DOMAIN childs[p] : cut[k] = childs[p][j],
           UNCHANGED <<root, parent, created>>
    PROVE  TreeInv'
<1>1. childs' \in [Nodes -> Seq(Nodes)]
      /\ \A q \in Nodes : childs'[q] = IF q = p THEN cut ELSE childs[q]
  BY DEF TreeInv
<1>2. \A q \in Nodes : \A i \in DOMAIN childs'[q] : parent[childs'[q][i]] = q
  BY <1>1 DEF TreeInv
<1>3. \A q \in Nodes : IsInjective(childs'[q])
  BY <1>1 DEF TreeInv
<1> QED
  BY <1>1, <1>2, <1>3 DEF TreeInv

LEMMA TreeStep == TreeInv /\ [Next]_vars => TreeInv'
<1> SUFFICES ASSUME TreeInv, [Next]_vars PROVE TreeInv'
  OBVIOUS
<1>1. CASE ClearScene
  <2>1. created # Nodes /\ created' = created \cup {NewNode} /\ root' = NewNode
        /\ UNCHANGED <<parent, childs>>
    BY <1>1 DEF ClearScene
  <2>2. NewNode \in Nodes /\ parent[NewNode] = noNode
    BY <2>1, NewNodeIsNew
  <2> QED
    BY <2>1, <2>2 DEF TreeInv
<1>2. ASSUME NEW p \in Nodes, NEW name \in Names \cup {noName}, NEW ps \in Poses,
             AddChild(p, name, ps)
      PROVE  TreeInv'
  BY <1>2, AddKeepsTree
<1>3. ASSUME NEW p \in Nodes, NEW n, childs' = [childs EXCEPT ![p] = CutOut(@, n)],
             UNCHANGED <<root, parent, created>>
      PROVE  TreeInv'
  <2>1. PICK seq \in Seq(Nodes) : seq = childs[p]
    BY DEF TreeInv
  <2>2. /\ CutOut(seq, n) \in Seq(Nodes) /\ (IsInjective(seq) => IsInjective(CutOut(seq, n)))
        /\ \A k \in DOMAIN CutOut(seq, n) : \E j \in DOMAIN seq : CutOut(seq, n)[k] = seq[j]
    BY CutOutKeeps
  <2>3. PICK cut : cut = CutOut(seq, n)
    OBVIOUS
  <2>4. childs' = [childs EXCEPT ![p] = cut]
    BY <1>3, <2>1, <2>3
  <2>5. /\ cut \in Seq(Nodes) /\ (IsInjective(childs[p]) => IsInjective(cut))
        /\ \A k \in DOMAIN cut : \E j \in DOMAIN childs[p] : cut[k] = childs[p][j]
    BY <2>1, <2>2, <2>3
  <2> QED
    BY <1>3, <2>4, <2>5, RemovalKeepsTree
<1>4. ASSUME NEW p \in Nodes, NEW name \in Names, RemoveByName(p, name) PROVE TreeInv'
  BY <1>3, <1>4 DEF RemoveByName
<1>5. ASSUME NEW p \in Nodes, NEW i, RemoveByIndex(p, i) PROVE TreeInv'
  <2>1. PICK seq \in Seq(Nodes) : seq = childs[p]
    BY DEF TreeInv
  <2>2. i \in DOMAIN seq /\ childs' = [childs EXCEPT ![p] = RemoveAt(@, i)]
        /\ UNCHANGED <<root, parent, created>>
    BY <1>5, <2>1 DEF RemoveByIndex
  <2>3. /\ RemoveAt(seq, i) \in Seq(Nodes)
        /\ IsInjective(seq) => IsInjective(RemoveAt(seq, i))
        /\ \A k \in DOMAIN RemoveAt(seq, i) : \E j \in DOMAIN seq : RemoveAt(seq, i)[k] = seq[j]
    BY <2>2, RemoveAtKeeps
  <2>4. PICK cut : cut = RemoveAt(seq, i)
    OBVIOUS
  <2>5. childs' = [childs EXCEPT ![p] = cut]
    BY <2>1, <2>2, <2>4
  <2>6. /\ cut \in Seq(Nodes) /\ (IsInjective(childs[p]) => IsInjective(cut))
        /\ \A k \in DOMAIN cut : \E j \in DOMAIN childs[p] : cut[k] = childs[p][j]
    BY <2>1, <2>3, <2>4
  <2> QED
    BY <2>2, <2>5, <2>6, RemovalKeepsTree
<1>6. ASSUME NEW p \in Nodes, NEW n \in Nodes, RemoveNode(p, n) PROVE TreeInv'
  BY <1>3, <1>6 DEF RemoveNode
<1>7. CASE Transform \/ UNCHANGED vars
  <2>1. UNCHANGED <<root, parent, childs, created>>
    BY <1>7 DEF Transform, Move, Rescale, ReadMatrix, treeVars, vars
  <2> QED
    BY <2>1 DEF TreeInv
<1> QED
  BY <1>1, <1>2, <1>4, <1>5, <1>6, <1>7 DEF Next, Tree


-----------------------------------------------------------------------------
(* The cached matrices *)

\* What modelMatrix computes from these parents, poses and scales.
MatrixOf(pa, po, sc, n) == [pose |-> PoseOf(pa, po)[n], scale |-> sc[n]]

LEMMA CurrentMatrixIs ==
    /\ \A n : CurrentMatrix(n) = MatrixOf(parent, pose, scale, n)
    /\ \A n : CurrentMatrix(n)' = MatrixOf(parent', pose', scale', n)
BY DEF CurrentMatrix, MatrixOf, AbsPose, PoseOf

\* A node that is not yet created has nothing cached; one that is created and not
\* marked has what it would compute, unless it is to blame.
MatrixInv ==
    /\ pose \in [Nodes -> Int] /\ scale \in [Nodes -> Int]
    /\ modified \in [Nodes -> BOOLEAN] /\ blamed \in [Nodes -> BOOLEAN]
    /\ DOMAIN cached = Nodes
    /\ \A n \in Nodes : n \notin created => modified[n]
    /\ \A n \in Nodes :
          ~blamed[n] /\ ~modified[n] => cached[n] = MatrixOf(parent, pose, scale, n)

LEMMA MatrixInit == Init => MatrixInv
<1> SUFFICES ASSUME Init PROVE MatrixInv
  OBVIOUS
<1>1. pose \in [Nodes -> Int] /\ scale \in [Nodes -> Int]
  BY DEF Init
<1>2. modified \in [Nodes -> BOOLEAN] /\ blamed \in [Nodes -> BOOLEAN]
  BY DEF Init
<1>3. DOMAIN cached = Nodes /\ \A n \in Nodes : modified[n]
  BY DEF Init
<1> QED
  BY <1>1, <1>2, <1>3 DEF MatrixInv

LEMMA BothForests ==
    ASSUME TreeInv, TreeInv', MatrixInv
    PROVE  /\ parent \in [Nodes -> Nodes \cup {noNode}] /\ Rooted(parent)
           /\ parent' \in [Nodes -> Nodes \cup {noNode}] /\ Rooted(parent')
           /\ pose \in [Nodes -> Int]
BY DEF TreeInv, MatrixInv

\* Nothing but the tree changes, and no node that was created gets another parent
\* or another pose.
LEMMA TreeKeepsMatrices ==
    ASSUME TreeInv, TreeInv', MatrixInv, UNCHANGED <<scale, cached, modified, blamed>>,
           created \subseteq created', pose' \in [Nodes -> Int],
           \A m \in created : parent'[m] = parent[m] /\ pose'[m] = pose[m]
    PROVE  MatrixInv'
<1>1. \A m \in created : parent'[m] = parent[m] /\ pose'[m] = pose[m]
                         /\ (parent[m] # noNode => parent[m] \in created)
  BY DEF TreeInv
<1>2. \A m \in created : PoseOf(parent', pose')[m] = PoseOf(parent, pose)[m]
  <2>1. created \in SUBSET Nodes
    BY DEF TreeInv
  <2> QED
    BY <1>1, <2>1, BothForests, PosesAgree
<1>3. ASSUME NEW n \in Nodes, ~blamed'[n], ~modified'[n]
      PROVE  cached'[n] = MatrixOf(parent', pose', scale', n)
  <2>1. n \in created /\ cached[n] = MatrixOf(parent, pose, scale, n)
    BY <1>3 DEF MatrixInv
  <2> QED
    BY <1>2, <2>1 DEF MatrixOf
<1>4. \A n \in Nodes : n \notin created' => modified'[n]
  BY DEF MatrixInv
<1> QED
  BY <1>3, <1>4 DEF MatrixInv

\* A node that is neither n nor below n stays where it is when n moves.
LEMMA MoveKeepsMatrices ==
    ASSUME TreeInv, TreeInv', MatrixInv, NEW n \in Nodes, NEW ps \in Poses, Move(n, ps)
    PROVE  MatrixInv'
<1>1. /\ pose' = [pose EXCEPT ![n] = ps] /\ modified' = [modified EXCEPT ![n] = TRUE]
      /\ blamed' = [m \in Nodes |-> blamed[m] \/ m \in Below(n)]
      /\ UNCHANGED <<parent, created, scale, cached>>
  BY DEF Move, treeVars
<1>2. pose' \in [Nodes -> Int] /\ modified' \in [Nodes -> BOOLEAN]
      /\ \A m \in Nodes : m # n => pose'[m] = pose[m] /\ modified'[m] = modified[m]
  BY <1>1, SceneAssumption DEF MatrixInv
<1>3. modified'[n] = TRUE
  BY <1>1 DEF MatrixInv
<1>4. blamed' \in [Nodes -> BOOLEAN]
      /\ \A m \in Nodes : ~blamed'[m] => ~blamed[m] /\ m \notin Below(n)
  BY <1>1 DEF MatrixInv
<1>5. PICK under : under = UnderOf(parent, n)
  OBVIOUS
<1>6. \A m \in Nodes : under[m] = (parent[m] # noNode /\ (parent[m] = n \/ under[parent[m]]))
  <2>1. parent \in [Nodes -> Nodes \cup {noNode}] /\ Rooted(parent)
    BY DEF TreeInv
  <2>2. \A m \in Nodes : UnderOf(parent, n)[m] =
           (parent[m] # noNode /\ (parent[m] = n \/ UnderOf(parent, n)[parent[m]]))
    BY <2>1, UnderOfSolves
  <2> QED
    BY <1>5, <2>2, Zenon
<1>7. PICK M \in SUBSET Nodes : M = {m \in Nodes : m # n /\ ~under[m]}
  OBVIOUS
<1>8. \A m \in M : parent[m] # noNode => parent[m] \in M
  BY <1>6, <1>7 DEF TreeInv
<1>9. \A m \in M : PoseOf(parent', pose')[m] = PoseOf(parent, pose)[m]
  <2>1. \A m \in M : parent'[m] = parent[m] /\ pose'[m] = pose[m]
                     /\ (parent[m] # noNode => parent[m] \in M)
    BY <1>1, <1>2, <1>7, <1>8
  <2> QED
    BY <1>2, <2>1, BothForests, PosesAgree
<1>10. ASSUME NEW m \in Nodes, ~blamed'[m], ~modified'[m]
       PROVE  cached'[m] = MatrixOf(parent', pose', scale', m)
  <2>1. m # n /\ ~modified[m] /\ ~blamed[m] /\ m \notin Below(n)
    BY <1>2, <1>3, <1>4, <1>10
  <2>2. m \in created
    BY <2>1 DEF MatrixInv
  <2>3. m \in M
    BY <1>5, <1>7, <2>1, <2>2, BelowIs
  <2>4. cached[m] = MatrixOf(parent, pose, scale, m)
    BY <2>1 DEF MatrixInv
  <2> QED
    BY <1>1, <1>9, <2>3, <2>4 DEF MatrixOf
<1>11. \A m \in Nodes : m \notin created' => modified'[m]
  BY <1>1, <1>2, <1>3 DEF MatrixInv
<1>12. scale' \in [Nodes -> Int] /\ DOMAIN cached' = Nodes
  BY <1>1 DEF MatrixInv
<1> QED
  BY <1>2, <1>4, <1>10, <1>11, <1>12 DEF MatrixInv

LEMMA MatrixStep == TreeInv /\ TreeInv' /\ MatrixInv /\ [Next]_vars => MatrixInv'
<1> SUFFICES ASSUME TreeInv, TreeInv', MatrixInv, [Next]_vars PROVE MatrixInv'
  OBVIOUS
<1>1. ASSUME NEW p \in Nodes, NEW name \in Names \cup {noName}, NEW ps \in Poses,
             AddChild(p, name, ps)
      PROVE  MatrixInv'
  <2>1. PICK n : n = NewNode
    OBVIOUS
  <2>2. /\ created' = created \cup {n} /\ parent' = [parent EXCEPT ![n] = p]
        /\ pose' = [pose EXCEPT ![n] = ps] /\ UNCHANGED <<scale, cached, modified, blamed>>
    BY <1>1, <2>1 DEF AddChild
  <2>3. n \in Nodes /\ n \notin created
    BY <1>1, <2>1, NewNodeIsNew DEF AddChild
  <2>4. pose' \in [Nodes -> Int]
    BY <2>2, SceneAssumption DEF MatrixInv
  <2>5. \A m \in created : parent'[m] = parent[m] /\ pose'[m] = pose[m]
    <3>1. /\ parent \in [Nodes -> Nodes \cup {noNode}] /\ pose \in [Nodes -> Int]
          /\ created \subseteq Nodes
      BY DEF TreeInv, MatrixInv
    <3> QED
      BY <2>2, <2>3, <3>1
  <2> QED
    BY <2>2, <2>4, <2>5, TreeKeepsMatrices
<1>2. ASSUME UNCHANGED <<parent, matrixVars>>, created \subseteq created' PROVE MatrixInv'
  <2>1. UNCHANGED <<pose, scale, cached, modified, blamed>>
    BY <1>2 DEF matrixVars
  <2>2. pose' \in [Nodes -> Int]
    BY <2>1 DEF MatrixInv
  <2> QED
    BY <1>2, <2>1, <2>2, TreeKeepsMatrices
<1>3. CASE ClearScene
  BY <1>2, <1>3 DEF ClearScene
<1>4. ASSUME NEW p \in Nodes,
             \/ \E name \in Names : RemoveByName(p, name)
             \/ \E i \in 1 .. Cardinality(Nodes) : RemoveByIndex(p, i)
             \/ \E n \in Nodes : RemoveNode(p, n)
      PROVE  MatrixInv'
  BY <1>2, <1>4 DEF RemoveByName, RemoveByIndex, RemoveNode
<1>5. ASSUME NEW n \in Nodes, NEW ps \in Poses, Move(n, ps) PROVE MatrixInv'
  BY <1>5, MoveKeepsMatrices
<1>6. ASSUME NEW n \in Nodes, NEW s \in Scales, Rescale(n, s) PROVE MatrixInv'
  <2>1. /\ scale' = [scale EXCEPT ![n] = s] /\ blamed' = [blamed EXCEPT ![n] = TRUE]
        /\ UNCHANGED <<parent, created, pose, cached, modified>>
    BY <1>6 DEF Rescale, treeVars
  <2>2. scale' \in [Nodes -> Int] /\ blamed' \in [Nodes -> BOOLEAN]
        /\ (\A m \in Nodes : m # n => scale'[m] = scale[m] /\ blamed'[m] = blamed[m])
    BY <2>1, SceneAssumption DEF MatrixInv
  <2>3. blamed'[n] = TRUE
    BY <2>1 DEF MatrixInv
  <2>4. ASSUME NEW m \in Nodes, ~blamed'[m], ~modified'[m]
        PROVE  cached'[m] = MatrixOf(parent', pose', scale', m)
    <3>1. m # n /\ ~blamed[m] /\ ~modified[m]
      BY <2>1, <2>2, <2>3, <2>4
    <3>2. cached[m] = MatrixOf(parent, pose, scale, m)
      BY <3>1 DEF MatrixInv
    <3> QED
      BY <2>1, <2>2, <3>1, <3>2 DEF MatrixOf
  <2> QED
    BY <2>1, <2>2, <2>4 DEF MatrixInv
<1>7. ASSUME NEW n \in Nodes, ReadMatrix(n) PROVE MatrixInv'
  <2>1. /\ cached' = [cached EXCEPT ![n] = ModelMatrix(n)] /\ n \in created /\ modified[n]
        /\ modified' = [modified EXCEPT ![n] = FALSE] /\ blamed' = [blamed EXCEPT ![n] = FALSE]
        /\ UNCHANGED <<parent, created, pose, scale>>
    BY <1>7 DEF ReadMatrix, treeVars
  <2>2. cached' = [cached EXCEPT ![n] = MatrixOf(parent, pose, scale, n)]
    BY <2>1, CurrentMatrixIs DEF ModelMatrix
  <2>3. /\ modified' \in [Nodes -> BOOLEAN] /\ blamed' \in [Nodes -> BOOLEAN]
        /\ DOMAIN cached' = Nodes
        /\ cached'[n] = MatrixOf(parent, pose, scale, n)
    BY <2>1, <2>2 DEF MatrixInv
  <2>4. \A m \in Nodes : m # n =>
           cached'[m] = cached[m] /\ modified'[m] = modified[m] /\ blamed'[m] = blamed[m]
    BY <2>1, <2>2 DEF MatrixInv
  <2>5. ASSUME NEW m \in Nodes, ~blamed'[m], ~modified'[m]
        PROVE  cached'[m] = MatrixOf(parent, pose, scale, m)
    BY <2>3, <2>4, <2>5 DEF MatrixInv
  <2>6. \A m \in Nodes : m \notin created' => modified'[m]
    BY <2>1, <2>4 DEF MatrixInv
  <2>7. \A m \in Nodes : ~blamed'[m] /\ ~modified'[m] =>
           cached'[m] = MatrixOf(parent', pose', scale', m)
    BY <2>1, <2>5
  <2> QED
    BY <2>1, <2>3, <2>6, <2>7 DEF MatrixInv
<1>8. CASE UNCHANGED vars
  BY <1>2, <1>8 DEF vars, treeVars
<1> QED
  BY <1>1, <1>3, <1>4, <1>5, <1>6, <1>7, <1>8 DEF Next, Tree, Transform

\* A node gives the renderer an old matrix only when an ancestor was moved or
\* rotated, or the node rescaled, since it was computed: for any tree and any
\* order of additions, removals, moves and reads.
THEOREM StaleOnlyIfToBlame == Spec => []StaleOnlyIfBlamed
<1>1. TreeInv /\ MatrixInv => StaleOnlyIfBlamed
  BY CurrentMatrixIs DEF TreeInv, MatrixInv, StaleOnlyIfBlamed, ModelMatrix
<1> QED
  BY <1>1, TreeInit, TreeStep, MatrixInit, MatrixStep, PTL DEF Spec


-----------------------------------------------------------------------------
(* The walk of the renderer *)

HangsOf(pa, ch, r) ==
    CHOOSE f : f = [m \in Nodes |->
        \/ m = r
        \/ /\ pa[m] # noNode
           /\ \E i \in DOMAIN ch[pa[m]] : ch[pa[m]][i] = m
           /\ f[pa[m]]]

LEMMA AttachedIs == Attached = {n \in created : HangsOf(parent, childs, root)[n]}
BY DEF Attached, HangsOf

\* What hangs on the root is the root and the childs of what hangs on it.
LEMMA HangsSolves ==
    ASSUME TreeInv
    PROVE  \A m \in Nodes : HangsOf(parent, childs, root)[m] =
              (m = root \/ (/\ parent[m] # noNode
                            /\ IsChild(m, parent[m])
                            /\ HangsOf(parent, childs, root)[parent[m]]))
<1> DEFINE base == [m \in Nodes |-> m = root]
           G == [p \in Nodes \X BOOLEAN |-> p[1] = root \/ (IsChild(p[1], parent[p[1]]) /\ p[2])]
           F(f) == [m \in Nodes |->
                       \/ m = root
                       \/ /\ parent[m] # noNode
                          /\ \E i \in DOMAIN childs[parent[m]] : childs[parent[m]][i] = m
                          /\ f[parent[m]]]
           hangs == CHOOSE f : f = F(f)
<1>1. base \in [Nodes -> BOOLEAN] /\ G \in [Nodes \X BOOLEAN -> BOOLEAN]
  OBVIOUS
<1>2. \A m \in Nodes, v \in BOOLEAN :
         G[<<m, v>>] = (m = root \/ (IsChild(m, parent[m]) /\ v))
  OBVIOUS
<1>3. \A m \in Nodes : base[m] = (m = root)
  OBVIOUS
<1>4. parent \in [Nodes -> Nodes \cup {noNode}] /\ Rooted(parent)
  BY DEF TreeInv
<1> HIDE DEF G, base
<1>5. PICK g : Grown(g, parent, base, G, BOOLEAN)
  BY <1>1, <1>4, TreeRecursion
<1>6. ASSUME NEW m \in Nodes
      PROVE  g[m] = (m = root \/ (/\ parent[m] # noNode
                                  /\ \E i \in DOMAIN childs[parent[m]] : childs[parent[m]][i] = m
                                  /\ g[parent[m]]))
  <2>1. CASE parent[m] = noNode
    <3>1. g[m] = (m = root)
      BY <1>3, <1>5, <2>1 DEF Grown
    <3> QED
      BY <2>1, <3>1
  <2>2. CASE parent[m] # noNode
    <3>1. parent[m] \in Nodes
      BY <1>4, <2>2
    <3>2. g[parent[m]] \in BOOLEAN
      BY <1>5, <3>1 DEF Grown
    <3>3. g[m] = G[<<m, g[parent[m]]>>]
      BY <1>5, <2>2 DEF Grown
    <3>4. g[m] = (m = root \/ (IsChild(m, parent[m]) /\ g[parent[m]]))
      BY <1>2, <3>2, <3>3
    <3> QED
      BY <2>2, <3>4 DEF IsChild
  <2> QED
    BY <2>1, <2>2
<1>7. g = F(g)
  <2>1. g = [m \in Nodes |-> g[m]]
    BY <1>5 DEF Grown
  <2> QED
    BY <1>6, <2>1, Zenon
<1>8. hangs = F(hangs)
  BY <1>7
<1>9. HangsOf(parent, childs, root) = hangs
  BY DEF HangsOf
<1>10. \A m \in Nodes : hangs[m] =
          (m = root \/ (/\ parent[m] # noNode
                        /\ \E i \in DOMAIN childs[parent[m]] : childs[parent[m]][i] = m
                        /\ hangs[parent[m]]))
  <2> HIDE DEF hangs
  <2> QED
    BY <1>8, Zenon
<1> HIDE DEF hangs, F
<1> QED
  BY <1>9, <1>10 DEF IsChild

QueueOf(ch, r) ==
    CHOOSE f : f = [k \in 0 .. Cardinality(Nodes) |->
        IF k = 0 THEN <<r>>
        ELSE LET q == f[k - 1]
             IN  IF k <= Len(q) THEN q \o ch[q[k]] ELSE q]

LEMMA WalkIs == Walk = QueueOf(childs, root)[Cardinality(Nodes)]
BY DEF Walk, QueueOf

\* The queue before the first step, and after one more.
LEMMA QueueSolves ==
    ASSUME TreeInv, NEW N \in Nat, N = Cardinality(Nodes)
    PROVE  LET queue == QueueOf(childs, root)
           IN  /\ queue[0] = <<root>>
               /\ \A k \in 1 .. N :
                     queue[k] = IF k <= Len(queue[k - 1])
                                THEN queue[k - 1] \o childs[queue[k - 1][k]] ELSE queue[k - 1]
<1> DEFINE S == Seq(Nodes)
           Longer(k, q) == IF k \in 1 .. Len(q) THEN q \o childs[q[k]] ELSE q
           G == [p \in Nat \X S |-> Longer(p[1], p[2])]
           F(f) == [k \in 0 .. Cardinality(Nodes) |->
                       IF k = 0 THEN <<root>>
                       ELSE LET q == f[k - 1]
                            IN  IF k <= Len(q) THEN q \o childs[q[k]] ELSE q]
           queue == CHOOSE f : f = F(f)
<1>1. root \in Nodes /\ <<root>> \in S /\ childs \in [Nodes -> S]
  BY DEF TreeInv
<1>2. ASSUME NEW k \in Nat, NEW q \in S PROVE Longer(k, q) \in S
  <2>1. CASE k \in 1 .. Len(q)
    <3>1. q[k] \in Nodes
      BY <2>1, ElementOfSeq
    <3>2. PICK c \in S : c = childs[q[k]]
      BY <1>1, <3>1
    <3> QED
      BY <2>1, <3>2, ConcatProperties
  <2>2. CASE k \notin 1 .. Len(q)
    BY <2>2
  <2> QED
    BY <2>1, <2>2
<1>3. G \in [Nat \X S -> S] /\ \A k \in Nat, q \in S : G[<<k, q>>] = Longer(k, q)
  <2> HIDE DEF Longer, S
  <2> QED
    BY <1>2
<1>4. PICK g : Solves(g, N, <<root>>, G, S)
  <2> HIDE DEF G, S
  <2> QED
    BY <1>1, <1>3, Recursion
<1>5. g \in [0 .. N -> S] /\ g[0] = <<root>> /\ \A k \in 1 .. N : g[k] = G[<<k, g[k - 1]>>]
  BY <1>4 DEF Solves
<1>6. ASSUME NEW k \in 1 .. N
      PROVE  g[k] = IF k <= Len(g[k - 1]) THEN g[k - 1] \o childs[g[k - 1][k]] ELSE g[k - 1]
  <2>1. k - 1 \in 0 .. N /\ k \in Nat
    OBVIOUS
  <2>2. PICK q \in S : q = g[k - 1]
    BY <1>5, <2>1
  <2>3. g[k] = Longer(k, q)
    <3> HIDE DEF Longer, S, G
    <3> QED
      BY <1>3, <1>5, <2>1, <2>2
  <2>4. Len(q) \in Nat
    BY <2>2
  <2>5. k \in 1 .. Len(q) <=> k <= Len(q)
    BY <2>4
  <2> QED
    BY <2>2, <2>3, <2>5
<1>7. g = F(g)
  <2>1. g = [k \in 0 .. N |-> g[k]]
    BY <1>5
  <2>2. \A k \in 0 .. N : k # 0 => k \in 1 .. N
    OBVIOUS
  <2>3. \A k \in 0 .. N : g[k] =
           IF k = 0 THEN <<root>>
           ELSE IF k <= Len(g[k - 1]) THEN g[k - 1] \o childs[g[k - 1][k]] ELSE g[k - 1]
    BY <1>5, <1>6, <2>2
  <2>4. F(g) = [k \in 0 .. N |-> g[k]]
    BY <2>3
  <2> QED
    BY <2>1, <2>4
<1>8. queue = F(queue)
  BY <1>7
<1>9. QueueOf(childs, root) = queue
  BY DEF QueueOf
<1>10. /\ queue[0] = <<root>>
       /\ \A k \in 1 .. N :
             queue[k] = IF k <= Len(queue[k - 1])
                        THEN queue[k - 1] \o childs[queue[k - 1][k]] ELSE queue[k - 1]
  <2>1. 0 \in 0 .. N /\ \A k \in 1 .. N : k \in 0 .. N /\ k # 0
    OBVIOUS
  <2> HIDE DEF queue
  <2> QED
    BY <1>8, <2>1
<1> HIDE DEF queue, F
<1> QED
  BY <1>9, <1>10


\* The first k elements of q have all their childs in q; the others have an
\* element before them, among the first k, for a parent; nothing is in q twice.
WalkInv(q, k) ==
    /\ q \in Seq(Nodes) /\ IsInjective(q) /\ root \in Range(q)
    /\ \A i \in DOMAIN q : q[i] \in created /\ HangsOf(parent, childs, root)[q[i]]
    /\ \A i \in DOMAIN q :
          q[i] = root \/ \E j \in DOMAIN q : j <= k /\ q[j] = parent[q[i]]
    /\ \A j \in DOMAIN q : j <= k =>
          \A m \in Nodes : IsChild(m, q[j]) => m \in Range(q)

LEMMA WalkInvStart == TreeInv => WalkInv(<<root>>, 0)
<1> SUFFICES ASSUME TreeInv PROVE WalkInv(<<root>>, 0)
  OBVIOUS
<1>1. PICK q : q = <<root>>
  OBVIOUS
<1>2. root \in Nodes /\ q \in Seq(Nodes) /\ DOMAIN q = {1} /\ q[1] = root
  BY <1>1 DEF TreeInv
<1>3. HangsOf(parent, childs, root)[root]
  BY <1>2, HangsSolves
<1>4. IsInjective(q) /\ root \in Range(q)
  BY <1>2 DEF IsInjective, Range
<1>5. root \in created
  BY DEF TreeInv
<1> QED
  BY <1>1, <1>2, <1>3, <1>4, <1>5 DEF WalkInv

\* The queue takes in the childs of its next element x.
LEMMA WalkInvNext ==
    ASSUME TreeInv, NEW k \in Nat, NEW q, WalkInv(q, k), k + 1 <= Len(q)
    PROVE  WalkInv(q \o childs[q[k + 1]], k + 1)
<1>1. /\ q \in Seq(Nodes) /\ k + 1 \in DOMAIN q
      /\ DOMAIN q = 1 .. Len(q) /\ Len(q) \in Nat
  BY DEF WalkInv
<1>2. PICK x \in Nodes : x = q[k + 1]
  BY <1>1, ElementOfSeq
<1>3. PICK ch \in Seq(Nodes) : ch = childs[x]
  BY <1>2 DEF TreeInv
<1>4. PICK r : r = q \o ch
  OBVIOUS
<1>5. PICK n \in Nat, l \in Nat : n = Len(q) /\ l = Len(ch)
  <2>1. Len(ch) \in Nat
    BY <1>3, LenProperties
  <2> QED
    BY <1>1, <2>1
<1>6. r \in Seq(Nodes) /\ Len(r) = n + l /\ \A i \in 1 .. n + l : r[i] = IF i <= n THEN q[i] ELSE ch[i - n]
  BY <1>1, <1>4, <1>5, ConcatProperties
<1>7. DOMAIN q = 1 .. n /\ DOMAIN ch = 1 .. l /\ DOMAIN r = 1 .. n + l
  BY <1>1, <1>5, <1>6, LenProperties
<1>8. \A i \in 1 .. n : i \in 1 .. n + l /\ r[i] = q[i]
  BY <1>6
<1>9. \A i \in 1 .. l : n + i \in 1 .. n + l /\ r[n + i] = ch[i]
  BY <1>6
<1>10. \A i \in 1 .. n + l : i \in 1 .. n \/ (i - n \in 1 .. l /\ r[i] = ch[i - n])
  BY <1>6
<1>11. \A i \in 1 .. l : ch[i] \in Nodes /\ parent[ch[i]] = x /\ IsChild(ch[i], x)
  <2>1. \A i \in DOMAIN childs[x] : parent[childs[x][i]] = x
    BY <1>2 DEF TreeInv
  <2>2. \A i \in 1 .. l : ch[i] \in Nodes
    BY <1>5, ElementOfSeq
  <2>3. \A i \in 1 .. l : IsChild(ch[i], x)
    BY <1>3, <1>7 DEF IsChild
  <2> QED
    BY <1>3, <1>7, <2>1, <2>2, <2>3
<1>12. x # noNode
  BY <1>2, SceneAssumption
<1>13. IsInjective(q) /\ IsInjective(ch)
  BY <1>2, <1>3 DEF WalkInv, TreeInv
<1>14. x \in created /\ HangsOf(parent, childs, root)[x]
  BY <1>1, <1>2 DEF WalkInv
<1>15. \A i \in 1 .. l : ch[i] \in created /\ HangsOf(parent, childs, root)[ch[i]]
  <2>1. \A i \in 1 .. l : ch[i] \in created
    BY <1>11, <1>12 DEF TreeInv
  <2>2. \A i \in 1 .. l : HangsOf(parent, childs, root)[ch[i]]
    <3>1. PICK hangs : hangs = HangsOf(parent, childs, root)
      OBVIOUS
    <3>2. \A m \in Nodes :
             parent[m] # noNode /\ IsChild(m, parent[m]) /\ hangs[parent[m]] => hangs[m]
      BY <3>1, HangsSolves
    <3>3. hangs[x]
      BY <1>14, <3>1
    <3>4. \A i \in 1 .. l : hangs[ch[i]]
      BY <1>11, <1>12, <3>2, <3>3
    <3> QED
      BY <3>1, <3>4
  <2> QED
    BY <2>1, <2>2
<1>16. \A i \in 1 .. n, j \in 1 .. l : q[i] # ch[j]
  <2>1. SUFFICES ASSUME NEW i \in 1 .. n, NEW j \in 1 .. l, q[i] = ch[j] PROVE FALSE
    OBVIOUS
  <2>2. parent[q[i]] = x
    BY <1>11, <2>1
  <2>3. q[i] # root
    BY <1>12, <2>2 DEF TreeInv
  <2>4. PICK h \in DOMAIN q : h <= k /\ q[h] = parent[q[i]]
    BY <1>7, <2>3 DEF WalkInv
  <2>5. q[h] = q[k + 1] /\ h # k + 1
    BY <1>1, <1>2, <2>2, <2>4
  <2> QED
    BY <1>1, <1>13, <2>4, <2>5 DEF IsInjective
<1>17. IsInjective(r)
  <2>1. SUFFICES ASSUME NEW i \in 1 .. n + l, NEW j \in 1 .. n + l, r[i] = r[j] PROVE i = j
    BY <1>7 DEF IsInjective
  <2>2. CASE i \in 1 .. n /\ j \in 1 .. n
    BY <1>7, <1>8, <1>13, <2>1, <2>2 DEF IsInjective
  <2>3. CASE i \notin 1 .. n /\ j \notin 1 .. n
    <3>1. i - n \in 1 .. l /\ j - n \in 1 .. l /\ ch[i - n] = ch[j - n]
      BY <1>10, <2>1, <2>3
    <3>2. i - n = j - n
      BY <1>7, <1>13, <3>1 DEF IsInjective
    <3> QED
      BY <3>2
  <2>4. CASE i \in 1 .. n /\ j \notin 1 .. n
    BY <1>8, <1>10, <1>16, <2>1, <2>4
  <2>5. CASE i \notin 1 .. n /\ j \in 1 .. n
    BY <1>8, <1>10, <1>16, <2>1, <2>5
  <2> QED
    BY <2>2, <2>3, <2>4, <2>5
<1>18. \A m : m \in Range(q) \/ (\E i \in 1 .. l : m = ch[i]) => m \in Range(r)
  BY <1>7, <1>8, <1>9 DEF Range
<1>19. ASSUME NEW i \in 1 .. n + l
       PROVE  /\ r[i] \in created /\ HangsOf(parent, childs, root)[r[i]]
              /\ r[i] = root \/ \E j \in DOMAIN r : j <= k + 1 /\ r[j] = parent[r[i]]
  <2>1. CASE i \in 1 .. n
    <3>1. r[i] = q[i] /\ i \in DOMAIN q
      BY <1>7, <1>8, <2>1
    <3>2. q[i] \in created /\ HangsOf(parent, childs, root)[q[i]]
      BY <3>1 DEF WalkInv
    <3>3. q[i] = root \/ \E j \in DOMAIN q : j <= k /\ q[j] = parent[q[i]]
      BY <3>1 DEF WalkInv
    <3>4. \A j \in DOMAIN q : j <= k => j \in DOMAIN r /\ j <= k + 1 /\ r[j] = q[j]
      BY <1>7, <1>8
    <3> QED
      BY <3>1, <3>2, <3>3, <3>4
  <2>2. CASE i \notin 1 .. n
    <3>1. i - n \in 1 .. l /\ r[i] = ch[i - n]
      BY <1>10, <2>2
    <3>2. k + 1 \in DOMAIN r /\ r[k + 1] = x
      BY <1>1, <1>2, <1>7, <1>8
    <3>3. parent[r[i]] = x
      BY <1>11, <3>1
    <3>4. r[i] \in created /\ HangsOf(parent, childs, root)[r[i]]
      BY <1>15, <3>1
    <3>5. k + 1 <= k + 1
      OBVIOUS
    <3> QED
      BY <3>2, <3>3, <3>4, <3>5
  <2> QED
    BY <2>1, <2>2
<1>20. ASSUME NEW j \in 1 .. n + l, j <= k + 1, NEW m \in Nodes, IsChild(m, r[j])
       PROVE  m \in Range(r)
  <2>1. j \in 1 .. n /\ r[j] = q[j]
    BY <1>1, <1>5, <1>8, <1>20
  <2>2. CASE j = k + 1
    <3>1. IsChild(m, x)
      BY <1>2, <1>20, <2>1, <2>2
    <3>2. \E i \in 1 .. l : m = ch[i]
      BY <1>3, <1>7, <3>1 DEF IsChild
    <3> QED
      BY <1>18, <3>2
  <2>3. CASE j # k + 1
    <3>1. j <= k
      BY <1>20, <2>3
    <3>2. m \in Range(q)
      BY <1>7, <1>20, <2>1, <3>1 DEF WalkInv
    <3> QED
      BY <1>18, <3>2
  <2> QED
    BY <2>2, <2>3
<1>21. root \in Range(r)
  BY <1>18 DEF WalkInv
<1>22. WalkInv(r, k + 1)
  BY <1>6, <1>7, <1>17, <1>19, <1>20, <1>21 DEF WalkInv
<1> QED
  BY <1>2, <1>3, <1>4, <1>22

\* An injective sequence of nodes is no longer than there are nodes.
LEMMA NoLongerThanNodes ==
    ASSUME NEW q \in Seq(Nodes), IsInjective(q)
    PROVE  Len(q) <= Cardinality(Nodes)
<1>1. PICK n \in Nat : n = Len(q) /\ DOMAIN q = 1 .. n
  OBVIOUS
<1>2. q \in [1 .. n -> Nodes]
  BY <1>1
<1>3. q \in Injection(1 .. n, Nodes)
  BY <1>2 DEF Injection
<1>4. Cardinality(1 .. n) <= Cardinality(Nodes)
  BY <1>3, FS_Injection, SceneAssumption
<1>5. Cardinality(1 .. n) = n
  BY FS_Interval
<1> QED
  BY <1>1, <1>4, <1>5

LEMMA WalkInvHolds ==
    ASSUME TreeInv
    PROVE  WalkInv(Walk, Cardinality(Nodes))
<1>1. PICK N \in Nat : N = Cardinality(Nodes)
  BY SceneAssumption, FS_CardinalityType
<1>2. PICK queue : queue = QueueOf(childs, root)
  OBVIOUS
<1>3. /\ queue[0] = <<root>>
      /\ \A k \in 1 .. N :
            queue[k] = IF k <= Len(queue[k - 1])
                       THEN queue[k - 1] \o childs[queue[k - 1][k]] ELSE queue[k - 1]
  BY <1>1, <1>2, QueueSolves
<1> DEFINE T == {k \in Nat : k <= N => WalkInv(queue[k], k)}
<1>4. 0 \in T
  BY <1>3, WalkInvStart
<1>5. ASSUME NEW k \in Nat, k \in T PROVE k + 1 \in T
  <2>1. SUFFICES ASSUME k + 1 <= N PROVE WalkInv(queue[k + 1], k + 1)
    OBVIOUS
  <2>2. PICK q, r : q = queue[k] /\ r = queue[k + 1]
    OBVIOUS
  <2>3. k + 1 \in 1 .. N /\ (k + 1) - 1 = k /\ k <= N
    BY <2>1
  <2>4. WalkInv(q, k)
    BY <1>5, <2>2, <2>3
  <2>5. r = IF k + 1 <= Len(q) THEN q \o childs[q[k + 1]] ELSE q
    BY <1>3, <2>2, <2>3
  <2>6. CASE k + 1 <= Len(q)
    <3>1. r = q \o childs[q[k + 1]]
      BY <2>5, <2>6
    <3> QED
      BY <2>2, <2>4, <2>6, <3>1, WalkInvNext
  <2>7. CASE ~(k + 1 <= Len(q))
    <3>1. r = q /\ q \in Seq(Nodes) /\ Len(q) \in Nat /\ DOMAIN q = 1 .. Len(q)
      BY <2>4, <2>5, <2>7 DEF WalkInv
    <3>2. \A j \in DOMAIN q : j <= k /\ j <= k + 1
      BY <2>7, <3>1
    <3>3. WalkInv(q, k + 1)
      BY <2>4, <3>2 DEF WalkInv
    <3> QED
      BY <2>2, <3>1, <3>3
  <2> QED
    BY <2>6, <2>7
<1> HIDE DEF T
<1>6. N \in T
  BY <1>4, <1>5, Induction
<1>7. WalkInv(queue[N], N)
  BY <1>6 DEF T
<1> QED
  BY <1>1, <1>2, <1>7, WalkIs

\* The renderer's walk, which stops when its queue is worked off, meets every
\* node that hangs on the root, and meets it once: for any tree that adding,
\* removing and clearing can build.
THEOREM WalkDrawsOnce == Spec => []DrawnOnce
<1>1. ASSUME TreeInv PROVE DrawnOnce
  <2>1. PICK N \in Nat : N = Cardinality(Nodes)
    BY SceneAssumption, FS_CardinalityType
  <2>2. PICK q : q = Walk
    OBVIOUS
  <2>3. WalkInv(q, N)
    BY <1>1, <2>1, <2>2, WalkInvHolds
  <2>4. q \in Seq(Nodes) /\ IsInjective(q) /\ Len(q) <= N /\ Len(q) \in Nat /\ DOMAIN q = 1 .. Len(q)
    BY <2>1, <2>3, NoLongerThanNodes DEF WalkInv
  <2>5. \A j \in DOMAIN q : j <= N
    BY <2>4
  <2>6. \A j \in DOMAIN q : \A m \in Nodes : IsChild(m, q[j]) => m \in Range(q)
    BY <2>3, <2>5 DEF WalkInv
  <2>7. PICK hangs : hangs = HangsOf(parent, childs, root)
    OBVIOUS
  <2>8. Range(q) \subseteq Attached
    BY <2>3, AttachedIs DEF WalkInv, Range
  <2>9. \A m \in Nodes : hangs[m] =>
           m = root \/ (parent[m] # noNode /\ IsChild(m, parent[m]) /\ hangs[parent[m]])
    BY <1>1, <2>7, HangsSolves
  <2>10. PICK bound \in Nat : \E rank \in [Nodes -> 0 .. bound] :
            \A m \in Nodes : parent[m] # noNode => rank[parent[m]] < rank[m]
    BY <1>1 DEF TreeInv, Rooted
  <2>11. PICK rank \in [Nodes -> 0 .. bound] :
            \A m \in Nodes : parent[m] # noNode => rank[parent[m]] < rank[m]
    BY <2>10
  <2> DEFINE T == {k \in Nat : \A m \in Nodes : rank[m] < k /\ hangs[m] => m \in Range(q)}
  <2>12. 0 \in T
    BY <2>11
  <2>13. ASSUME NEW k \in Nat, k \in T PROVE k + 1 \in T
    <3>1. SUFFICES ASSUME NEW m \in Nodes, rank[m] < k + 1, hangs[m] PROVE m \in Range(q)
      OBVIOUS
    <3>2. CASE m = root
      BY <2>3, <3>2 DEF WalkInv
    <3>3. CASE m # root
      <4>1. parent[m] # noNode /\ IsChild(m, parent[m]) /\ hangs[parent[m]]
        BY <2>9, <3>1, <3>3
      <4>2. parent[m] \in Nodes /\ rank[parent[m]] < k
        <5>1. parent[m] \in Nodes /\ rank[parent[m]] < rank[m]
          BY <1>1, <2>11, <4>1 DEF TreeInv
        <5> QED
          BY <2>11, <3>1, <5>1
      <4>3. parent[m] \in Range(q)
        BY <2>13, <4>1, <4>2
      <4>4. PICK j \in DOMAIN q : q[j] = parent[m]
        BY <4>3 DEF Range
      <4> QED
        BY <2>6, <4>1, <4>4
    <3> QED
      BY <3>2, <3>3
  <2> HIDE DEF T
  <2>14. bound + 1 \in T
    BY <2>12, <2>13, Induction
  <2>15. \A m \in Nodes : rank[m] < bound + 1
    BY <2>11
  <2>16. \A m \in Nodes : hangs[m] => m \in Range(q)
    BY <2>14, <2>15 DEF T
  <2>17. Attached \subseteq Range(q)
    BY <1>1, <2>7, <2>16, AttachedIs DEF TreeInv
  <2> QED
    BY <2>2, <2>4, <2>8, <2>17 DEF DrawnOnce
<1> QED
  BY <1>1, TreeInit, TreeStep, PTL DEF Spec
=============================================================================

---------------------------- MODULE StructuresProofs ----------------------------
(***************************************************************************)
(* For any values of the constants, what the parts of Structures promise.  *)
(***************************************************************************)
EXTENDS Structures, SequenceTheorems, InductionLemmas

-----------------------------------------------------------------------------
(* The generated matcher *)

NoneFallsThrough == \A i \in 1 .. Len(states) - 1 : Matcher!HasRules(states[i])

\* Both are in the same place; in no other than a state or the error.
MatcherInv ==
    /\ DOMAIN rules \subseteq Matcher!StateSet \X Letters
    /\ \A e \in DOMAIN rules : rules[e] \in Matcher!StateSet
    /\ endStates \subseteq Matcher!StateSet
    /\ state \in Matcher!StateSet \cup {errorState}
    /\ NoneFallsThrough => state = meant

-----------------------------------------------------------------------------
\* Where nothing falls through, the case that runs for a state is its own: the
\* switches find the rule of the state and the letter, and only it.
LEMMA TransferFollowsRules ==
    ASSUME StatesAreDistinct, NoneFallsThrough, DOMAIN rules \subseteq Matcher!StateSet \X Letters,
           NEW s \in Matcher!StateSet, NEW way \in Letters
    PROVE  Matcher!Transfer(s, way) = IF <<s, way>> \in DOMAIN rules THEN rules[<<s, way>>] ELSE errorState
<1>1. PICK i \in 1 .. Len(states) : s = states[i]
  BY DEF StatesAreDistinct, Matcher!StateSet
<1>2. {n \in DOMAIN states : states[n] = s} = {i}
  BY <1>1 DEF StatesAreDistinct
<1>3. UNION {Matcher!FirstCase(n, way) : n \in {n \in DOMAIN states : states[n] = s}} = Matcher!FirstCase(i, way)
  BY <1>2
<1>4. i \in Nat /\ Len(states) \in Nat
  BY DEF StatesAreDistinct
<1>5. ASSUME Matcher!HasRules(s) PROVE Matcher!FirstCase(i, way) = {i}
  <2>1. i \in {n \in i .. Len(states) : Matcher!HasRules(states[n])}
    BY <1>1, <1>4, <1>5
  <2>2. \A n \in {n \in i .. Len(states) : Matcher!HasRules(states[n])} : n \in Nat /\ i <= n
    BY <1>4
  <2> QED
    BY <1>4, <2>1, <2>2 DEF Matcher!FirstCase
<1>6. ASSUME ~Matcher!HasRules(s) PROVE Matcher!FirstCase(i, way) = {}
  <2>1. i = Len(states)
    BY <1>1, <1>4, <1>6 DEF NoneFallsThrough
  <2>2. {n \in i .. Len(states) : Matcher!HasRules(states[n])} = {}
    BY <1>1, <1>4, <1>6, <2>1
  <2> QED
    BY <2>2 DEF Matcher!FirstCase
<1>7. {<<states[n], way>> : n \in Matcher!FirstCase(i, way)} \cap DOMAIN rules = {<<s, way>>} \cap DOMAIN rules
  <2>1. CASE Matcher!HasRules(s)
    BY <1>1, <1>5, <2>1
  <2>2. CASE ~Matcher!HasRules(s)
    <3>1. <<s, way>> \notin DOMAIN rules
      BY <2>2 DEF Matcher!HasRules
    <3> QED
      BY <1>6, <2>2, <3>1
  <2> QED
    BY <2>1, <2>2
<1> QED
  BY <1>3, <1>7 DEF Matcher!Transfer

LEMMA MatcherInit == StatesAreDistinct /\ Matcher!Init => MatcherInv
  BY DEF StatesAreDistinct, Matcher!Init, MatcherInv

LEMMA MatcherStep == StatesAreDistinct /\ MatcherInv /\ [Matcher!Next]_(Matcher!vars) => MatcherInv'
<1> SUFFICES ASSUME StatesAreDistinct, MatcherInv, [Matcher!Next]_(Matcher!vars) PROVE MatcherInv'
  OBVIOUS
<1>1. ASSUME NEW way \in Letters, Matcher!Read(way) PROVE MatcherInv'
  <2>1. rules' = rules /\ endStates' = endStates /\ state # errorState
        /\ state' = Matcher!Transfer(state, way)
        /\ meant' = IF <<meant, way>> \in DOMAIN rules THEN rules[<<meant, way>>] ELSE errorState
    BY <1>1 DEF Matcher!Read
  <2>2. state' \in Matcher!StateSet \cup {errorState}
    <3>1. \A E \in SUBSET DOMAIN rules :
             E # {} => rules[CHOOSE e \in E : TRUE] \in Matcher!StateSet
      BY DEF MatcherInv
    <3> QED
      BY <2>1, <3>1 DEF Matcher!Transfer
  <2>3. ASSUME NoneFallsThrough PROVE state' = meant'
    <3>1. state \in Matcher!StateSet /\ state = meant
      BY <2>1, <2>3 DEF MatcherInv
    <3> QED
      BY <2>1, <2>3, <3>1, TransferFollowsRules DEF MatcherInv
  <2>4. NoneFallsThrough' => NoneFallsThrough
    BY <2>1 DEF NoneFallsThrough, Matcher!HasRules
  <2> QED
    BY <2>1, <2>2, <2>3, <2>4 DEF MatcherInv
<1>2. CASE UNCHANGED Matcher!vars
  BY <1>2 DEF Matcher!vars, MatcherInv, NoneFallsThrough, Matcher!HasRules
<1> QED
  BY <1>1, <1>2 DEF Matcher!Next

-----------------------------------------------------------------------------
\* The generated matcher accepts the words the rules accept, for any automaton
\* whose states are distinct and have, but the last, a rule each.
THEOREM MatcherIsRight == Matcher!Spec => []AcceptsItsLanguage
<1>0. StatesAreDistinct
  BY StructuresAssumption
<1>1. Matcher!Init => MatcherInv
  BY <1>0, MatcherInit
<1>2. MatcherInv /\ [Matcher!Next]_(Matcher!vars) => MatcherInv'
  BY <1>0, MatcherStep
<1>3. MatcherInv => AcceptsItsLanguage
  BY <1>0 DEF StatesAreDistinct, MatcherInv, NoneFallsThrough, AcceptsItsLanguage,
              Matcher!AcceptsItsLanguage, Matcher!Accepts
<1> QED
  BY <1>1, <1>2, <1>3, PTL DEF Matcher!Spec

-----------------------------------------------------------------------------
(* The camera *)

Coordinate == Int \cup {nan}

\* On a move nothing disturbs the camera has a speed, so it does not stand on the
\* place it goes to while there is time left, and divides by no null length.
ViewInv ==
    /\ mPos \in Coordinate /\ newpos \in Coordinate /\ newposvel \in Coordinate
    /\ newpostime \in Nat
    /\ asked /\ ~blamed =>
         /\ mPos \in Int /\ newpos \in Int /\ newposvel \in Nat \ {0}
         /\ View!Size(newpos - mPos) = newposvel * newpostime

-----------------------------------------------------------------------------
\* What is left of a way of v a frame after dt of n frames.
LEMMA WayLeft ==
    ASSUME NEW v \in Nat \ {0}, NEW n \in Nat, NEW dt \in Nat, dt <= n
    PROVE  /\ v * n \in Nat /\ v * dt \in Nat /\ v * (n - dt) \in Nat
           /\ v * n - v * dt = v * (n - dt)
           /\ n > 0 => v * n > 0
<1>1. v * n \in Nat /\ v * dt \in Nat
  OBVIOUS
<1>2. PICK k \in Nat : n = dt + k
  <2>1. n - dt \in Nat /\ n = dt + (n - dt)
    OBVIOUS
  <2> QED
    BY <2>1
<1>3. v * (dt + k) = v * dt + v * k /\ v * k \in Nat /\ n - dt = k
  BY <1>2
<1>4. n > 0 => v * n > 0
  OBVIOUS
<1> QED
  BY <1>1, <1>2, <1>3, <1>4

LEMMA ViewInit == Measures /\ View!Init => ViewInv
<1> SUFFICES ASSUME Measures, View!Init PROVE ViewInv
  OBVIOUS
<1>1. mPos = 0 /\ newpos = 0 /\ newposvel = 0 /\ newpostime = 0 /\ asked = FALSE /\ blamed = FALSE
  BY DEF View!Init
<1> QED
  BY <1>1 DEF ViewInv, Coordinate

LEMMA StartKeeps ==
    ASSUME Measures, ViewInv, NEW pos \in Coordinate, NEW interval \in Nat \ {0},
           View!Start(pos, interval)
    PROVE  ViewInv'
<1>1. mPos' = mPos /\ newpos' = pos /\ newpostime' = interval /\ asked' = TRUE
      /\ blamed' = (pos = mPos \/ nan \in {pos, mPos})
  BY DEF View!Start
<1>2. CASE nan \in {pos, mPos}
  <2>1. newposvel' = nan /\ blamed' = TRUE
    BY <1>1, <1>2 DEF View!Start
  <2> QED
    BY <1>1, <2>1 DEF ViewInv, Coordinate
<1>3. CASE nan \notin {pos, mPos}
  <2>1. mPos \in Int /\ pos \in Int
    BY <1>3 DEF ViewInv, Coordinate
  <2>2. PICK speed \in 0 .. View!Size(pos - mPos) :
           View!Size(pos - mPos) = speed * interval /\ newposvel' = speed
    BY <1>3 DEF View!Start
  <2>3. pos - mPos \in Int /\ (pos # mPos => pos - mPos # 0)
    BY <2>1
  <2>4. View!Size(pos - mPos) \in Int /\ (pos # mPos => View!Size(pos - mPos) # 0)
    BY <2>3 DEF View!Size, Measures
  <2>5. speed \in Nat
    BY <2>2, <2>4
  <2>6. pos # mPos => speed \in Nat \ {0}
    BY <2>2, <2>4, <2>5
  <2>7. blamed' = (pos = mPos)
    BY <1>1, <1>3
  <2>8. pos # mPos => /\ mPos' \in Int /\ newpos' \in Int /\ newposvel' \in Nat \ {0}
                      /\ View!Size(newpos' - mPos') = newposvel' * newpostime'
    BY <1>1, <2>1, <2>2, <2>6
  <2>9. mPos' \in Coordinate /\ newpos' \in Coordinate /\ newposvel' \in Coordinate
    BY <1>1, <2>1, <2>2, <2>5 DEF Coordinate
  <2>10. newpostime' \in Nat
    BY <1>1
  <2> QED
    BY <2>7, <2>8, <2>9, <2>10, Zenon DEF ViewInv
<1> QED
  BY <1>2, <1>3

LEMMA UpdateKeeps ==
    ASSUME Measures, ViewInv, NEW delay \in Delays, View!Update(delay)
    PROVE  ViewInv'
<1>1. PICK dt : dt = IF newpostime <= delay THEN newpostime ELSE delay
  OBVIOUS
<1>2. /\ newpostime > 0 /\ newpostime' = newpostime - dt
      /\ mPos' = View!Plus(mPos, View!Times(View!Normalized(View!Minus(newpos, mPos)), View!Times(newposvel, dt)))
      /\ newpos' = newpos /\ newposvel' = newposvel /\ asked' = asked /\ blamed' = blamed
  BY <1>1 DEF View!Update
<1>3. dt \in Nat /\ dt <= newpostime /\ newpostime \in Nat /\ newpostime' \in Nat
  BY <1>1, <1>2 DEF ViewInv, Measures
<1>4. mPos' \in Coordinate
  BY <1>2, <1>3 DEF ViewInv, Coordinate, View!Plus, View!Times, View!Normalized, View!Minus
<1>5. ASSUME asked, ~blamed
      PROVE  mPos' \in Int /\ View!Size(newpos - mPos') = newposvel * newpostime'
  <2>1. /\ mPos \in Int /\ newpos \in Int /\ newposvel \in Nat \ {0}
        /\ View!Size(newpos - mPos) = newposvel * newpostime
    BY <1>5 DEF ViewInv
  <2>2. /\ newposvel * newpostime \in Nat /\ newposvel * dt \in Nat
        /\ newposvel * newpostime - newposvel * dt = newposvel * newpostime'
        /\ newposvel * newpostime' \in Nat /\ newposvel * newpostime > 0
    BY <1>2, <1>3, <2>1, WayLeft
  <2>3. PICK way \in Nat, step \in Nat, left \in Nat :
           /\ way = newposvel * newpostime /\ step = newposvel * dt
           /\ left = newposvel * newpostime' /\ way - step = left /\ way > 0
    BY <2>2
  <2>4. View!Size(newpos - mPos) = way /\ newpos - mPos \in Int
    BY <2>1, <2>3
  <2>5. nan \notin {newpos, mPos, newposvel, dt, newpos - mPos, step} /\ nan \notin Int
    BY <1>3, <2>1, <2>3, <2>4 DEF Measures
  <2>6. View!Times(newposvel, dt) = step /\ View!Minus(newpos, mPos) = newpos - mPos
    BY <2>3, <2>5 DEF View!Times, View!Minus
  <2>7. CASE newpos - mPos > 0
    <3>1. View!Normalized(newpos - mPos) = 1 /\ newpos - mPos = way
      BY <2>4, <2>5, <2>7 DEF View!Normalized, View!Size
    <3>2. mPos' = mPos + step
      BY <1>2, <2>1, <2>5, <2>6, <3>1 DEF View!Plus, View!Times, Measures
    <3> QED
      BY <2>1, <2>3, <2>5, <3>1, <3>2 DEF View!Size
  <2>8. CASE newpos - mPos < 0
    <3>1. View!Normalized(newpos - mPos) = -1 /\ mPos - newpos = way
      BY <2>1, <2>4, <2>5, <2>8 DEF View!Normalized, View!Size
    <3>2. mPos' = mPos - step
      <4>1. -1 # nan /\ (-1) * step = -step /\ -step # nan /\ -step \in Int
        BY <2>5
      <4> QED
        BY <1>2, <2>1, <2>5, <2>6, <3>1, <4>1 DEF View!Plus, View!Times
    <3> QED
      BY <2>1, <2>3, <2>5, <3>1, <3>2 DEF View!Size
  <2>9. newpos - mPos # 0
    BY <2>3, <2>4, <2>5 DEF View!Size
  <2> QED
    BY <2>4, <2>7, <2>8, <2>9
<1> QED
  BY <1>2, <1>3, <1>4, <1>5 DEF ViewInv

LEMMA ViewStep == Measures /\ ViewInv /\ [View!Next]_(View!vars) => ViewInv'
<1> SUFFICES ASSUME Measures, ViewInv, [View!Next]_(View!vars) PROVE ViewInv'
  OBVIOUS
<1>1. ASSUME NEW pos \in Places, NEW interval \in Intervals, View!Move(pos, interval) PROVE ViewInv'
  <2>1. pos \in Coordinate /\ interval \in Nat
    BY DEF Measures, Coordinate
  <2>2. CASE interval = 0
    BY <1>1, <2>1, <2>2 DEF View!Move, View!Jump, View!moveVars, ViewInv
  <2>3. CASE interval # 0
    BY <1>1, <2>1, <2>3, StartKeeps DEF View!Move
  <2> QED
    BY <2>2, <2>3
<1>2. ASSUME NEW delta \in Places, NEW interval \in Intervals, View!MoveRel(delta, interval)
      PROVE  ViewInv'
  <2>1. interval \in Nat /\ -delta \in Int
    BY DEF Measures
  <2>2. View!Plus(mPos, -delta) \in Coordinate
    BY <2>1 DEF View!Plus, ViewInv, Coordinate
  <2>3. CASE interval = 0
    BY <1>2, <2>2, <2>3 DEF View!MoveRel, View!Jump, View!moveVars, ViewInv
  <2>4. CASE interval # 0
    BY <1>2, <2>1, <2>2, <2>4, StartKeeps DEF View!MoveRel
  <2> QED
    BY <2>3, <2>4
<1>3. ASSUME NEW pos \in Places, View!SetPosition(pos) PROVE ViewInv'
  BY <1>3 DEF View!SetPosition, View!moveVars, ViewInv, Measures, Coordinate
<1>4. ASSUME NEW pos \in Places, View!SetTarget(pos) PROVE ViewInv'
  BY <1>4 DEF View!SetTarget, View!moveVars, ViewInv
<1>5. CASE View!Rotate
  BY <1>5 DEF View!Rotate, View!moveVars, ViewInv
<1>6. ASSUME NEW delay \in Delays, View!Update(delay) PROVE ViewInv'
  BY <1>6, UpdateKeeps
<1>7. CASE UNCHANGED View!vars
  BY <1>7 DEF View!vars, View!moveVars, ViewInv
<1> QED
  BY <1>1, <1>2, <1>3, <1>4, <1>5, <1>6, <1>7 DEF View!Next

-----------------------------------------------------------------------------
\* A timed move nothing disturbs ends at its place and in its time, wherever it
\* begins and however long the frames are.
THEOREM CameraArrives == View!Spec => []ArrivesOnTime
<1>0. Measures
  BY StructuresAssumption
<1>1. View!Init => ViewInv
  BY <1>0, ViewInit
<1>2. ViewInv /\ [View!Next]_(View!vars) => ViewInv'
  BY <1>0, ViewStep
<1>3. ViewInv => ArrivesOnTime
  BY <1>0 DEF Measures, ViewInv, ArrivesOnTime, View!ArrivesOnTime
<1> QED
  BY <1>1, <1>2, <1>3, PTL DEF View!Spec

-----------------------------------------------------------------------------
(* The list *)

\* Arithmetic without a wrap.
LEMMA SmallRemainder == ASSUME NEW n \in Nat \ {0}, NEW a \in 0 .. n - 1 PROVE a % n = a
  OBVIOUS

\* Each Element counts the ones behind it and itself, or misses one.
OffByOne(s) == \A i \in 1 .. Len(s) : s[i].length \in {Len(s) - i, Len(s) - i + 1}

ListInv ==
    /\ elements \in Seq(Element) /\ Len(elements) <= MaxLength
    /\ OffByOne(elements)
    /\ mLength \in 0 .. SizeT - 1
    /\ mLength \in {Len(elements) - 1, Len(elements)}
    /\ elements # <<>> => elements[1].length \in {Len(elements) - 1, Len(elements)}
    /\ popped \in {<<>>} \cup {<<v>> : v \in Values}

\* The list without its Elements' lengths.
Plain(s) == [i \in DOMAIN s |-> s[i].value]

LEMMA PlainProperties ==
    ASSUME NEW s \in Seq(Element)
    PROVE  /\ Plain(s) \in Seq(Values) /\ Len(Plain(s)) = Len(s)
           /\ \A i \in 1 .. Len(s) : Plain(s)[i] = s[i].value
<1>1. Len(s) \in Nat /\ DOMAIN s = 1 .. Len(s) /\ \A i \in 1 .. Len(s) : s[i] \in Element
  BY LenProperties, ElementOfSeq
<1>2. Plain(s) \in [1 .. Len(s) -> Values]
  BY <1>1 DEF Plain, Element
<1>3. Plain(s) \in Seq(Values)
  BY <1>1, <1>2, SeqDef
<1>4. Len(Plain(s)) = Len(s)
  BY <1>1, <1>2, <1>3, LenProperties
<1> QED
  BY <1>1, <1>3, <1>4 DEF Plain

\* pushBack: a new last Element, the values in front of it stay.
LEMMA GrowBackProperties ==
    ASSUME NEW s \in Seq(Element), Len(s) < MaxLength, OffByOne(s), NEW v \in Values
    PROVE  /\ GrowBack(s, v) \in Seq(Element) /\ Len(GrowBack(s, v)) = Len(s) + 1
           /\ OffByOne(GrowBack(s, v))
           /\ Plain(GrowBack(s, v)) = Append(Plain(s), v)
<1> DEFINE g == [i \in DOMAIN s |->
                    [s[i] EXCEPT !.length = IF i = Len(s) THEN 2 ELSE Plus(@, 1)]]
<1> DEFINE t == GrowBack(s, v)
<1>1. Len(s) \in Nat /\ DOMAIN s = 1 .. Len(s) /\ \A i \in 1 .. Len(s) : s[i] \in Element
  BY LenProperties, ElementOfSeq
<1>2. MaxLength \in Nat /\ SizeT \in Nat \ {0} /\ MaxLength < SizeT
  BY ListAssumption
<1>3. ASSUME NEW i \in 1 .. Len(s)
      PROVE  g[i] \in Element /\ g[i].value = s[i].value
             /\ g[i].length \in {Len(s) + 1 - i, Len(s) + 1 - i + 1}
  <2>1. g[i] = [s[i] EXCEPT !.length = IF i = Len(s) THEN 2 ELSE Plus(s[i].length, 1)]
    BY <1>1
  <2>2. s[i] = [value |-> s[i].value, length |-> s[i].length] /\ s[i].value \in Values
        /\ s[i].length \in 0 .. SizeT - 1 /\ s[i].length \in {Len(s) - i, Len(s) - i + 1}
    BY <1>1 DEF Element, OffByOne
  <2>3. g[i] = [value |-> s[i].value, length |-> IF i = Len(s) THEN 2 ELSE Plus(s[i].length, 1)]
    BY <2>1, <2>2
  <2>4. CASE i = Len(s)
    BY <1>1, <1>2, <2>2, <2>3, <2>4 DEF Element
  <2>5. CASE i # Len(s)
    <3>1. s[i].length + 1 \in 0 .. SizeT - 1
      <4>1. s[i].length \in {Len(s) - i, Len(s) - i + 1} /\ Len(s) < MaxLength
        BY <2>2
      <4>2. PICK l : l = s[i].length
        OBVIOUS
      <4> QED
        BY <1>1, <1>2, <4>1, <4>2
    <3>2. Plus(s[i].length, 1) = s[i].length + 1
      BY <1>2, <3>1, SmallRemainder DEF Plus
    <3> QED
      BY <1>1, <2>2, <2>3, <2>5, <3>1, <3>2 DEF Element
  <2> QED
    BY <2>4, <2>5
<1>4. g \in Seq(Element) /\ Len(g) = Len(s)
  <2>1. g \in [1 .. Len(s) -> Element]
    BY <1>1, <1>3
  <2>2. g \in Seq(Element)
    BY <1>1, <2>1, SeqDef
  <2> QED
    BY <1>1, <2>1, <2>2, LenProperties
<1>5. new(v) = [value |-> v, length |-> 1] /\ new(v) \in Element
  BY <1>1, <1>2 DEF new, Element
<1>6. t = Append(g, new(v))
  BY DEF GrowBack
<1> HIDE DEF g, t
<1>7. /\ t \in Seq(Element) /\ Len(t) = Len(s) + 1
      /\ \A i \in 1 .. Len(s) : t[i] = g[i]
      /\ t[Len(s) + 1] = new(v)
  BY <1>4, <1>5, <1>6, AppendProperties
<1>8. OffByOne(t)
  <2>1. SUFFICES ASSUME NEW i \in 1 .. Len(s) + 1
                 PROVE  t[i].length \in {Len(s) + 1 - i, Len(s) + 1 - i + 1}
    BY <1>7 DEF OffByOne
  <2>2. CASE i = Len(s) + 1
    BY <1>1, <1>5, <1>7, <2>2
  <2>3. CASE i # Len(s) + 1
    <3>1. i \in 1 .. Len(s)
      BY <1>1, <2>3
    <3> QED
      BY <1>3, <1>7, <3>1
  <2> QED
    BY <2>2, <2>3
<1>9. Plain(t) = Append(Plain(s), v)
  <2>1. Plain(t) \in Seq(Values) /\ Len(Plain(t)) = Len(s) + 1
        /\ \A i \in 1 .. Len(s) + 1 : Plain(t)[i] = t[i].value
    BY <1>7, PlainProperties
  <2>2. Plain(s) \in Seq(Values) /\ Len(Plain(s)) = Len(s)
        /\ \A i \in 1 .. Len(s) : Plain(s)[i] = s[i].value
    BY PlainProperties
  <2>3. /\ Append(Plain(s), v) \in Seq(Values) /\ Len(Append(Plain(s), v)) = Len(s) + 1
        /\ \A i \in 1 .. Len(s) : Append(Plain(s), v)[i] = Plain(s)[i]
        /\ Append(Plain(s), v)[Len(s) + 1] = v
    BY <2>2, AppendProperties
  <2>4. ASSUME NEW i \in 1 .. Len(s) + 1 PROVE Plain(t)[i] = Append(Plain(s), v)[i]
    <3>1. CASE i = Len(s) + 1
      BY <1>5, <1>7, <2>1, <2>3, <3>1
    <3>2. CASE i # Len(s) + 1
      <4>1. i \in 1 .. Len(s)
        BY <1>1, <3>2
      <4> QED
        BY <1>3, <1>7, <2>1, <2>2, <2>3, <4>1
    <3> QED
      BY <3>1, <3>2
  <2> QED
    BY <2>1, <2>3, <2>4, SeqEqual
<1> QED
  BY <1>7, <1>8, <1>9 DEF t

\* popBack: the last Element goes, the values in front of it stay.
LEMMA ShrinkBackProperties ==
    ASSUME NEW s \in Seq(Element), s # <<>>, Len(s) <= MaxLength, OffByOne(s)
    PROVE  /\ ShrinkBack(s) \in Seq(Element) /\ Len(ShrinkBack(s)) = Len(s) - 1
           /\ OffByOne(ShrinkBack(s))
           /\ Plain(ShrinkBack(s)) = Front(Plain(s))
           /\ Last(Plain(s)) = Last(s).value /\ Last(s).value \in Values
<1> DEFINE t == ShrinkBack(s)
<1>1. Len(s) \in Nat \ {0} /\ DOMAIN s = 1 .. Len(s) /\ \A i \in 1 .. Len(s) : s[i] \in Element
  BY LenProperties, ElementOfSeq, EmptySeq
<1>2. MaxLength \in Nat /\ SizeT \in Nat \ {0} /\ MaxLength < SizeT
  BY ListAssumption
<1>3. ASSUME NEW i \in 1 .. Len(s) - 1
      PROVE  t[i] \in Element /\ t[i].value = s[i].value
             /\ t[i].length \in {Len(s) - 1 - i, Len(s) - 1 - i + 1}
  <2>1. t[i] = [s[i] EXCEPT !.length = IF i = Len(s) - 1 THEN 0 ELSE Minus(s[i].length, 1)]
    BY <1>1 DEF ShrinkBack
  <2>2. s[i] = [value |-> s[i].value, length |-> s[i].length] /\ s[i].value \in Values
        /\ s[i].length \in 0 .. SizeT - 1 /\ s[i].length \in {Len(s) - i, Len(s) - i + 1}
    BY <1>1 DEF Element, OffByOne
  <2>3. t[i] = [value |-> s[i].value, length |-> IF i = Len(s) - 1 THEN 0 ELSE Minus(s[i].length, 1)]
    BY <2>1, <2>2
  <2>4. CASE i = Len(s) - 1
    BY <1>1, <1>2, <2>2, <2>3, <2>4 DEF Element
  <2>5. CASE i # Len(s) - 1
    <3>1. s[i].length - 1 \in 0 .. SizeT - 1
      <4>1. PICK l : l = s[i].length
        OBVIOUS
      <4> QED
        BY <1>1, <1>2, <2>2, <4>1
    <3>2. Minus(s[i].length, 1) = s[i].length - 1
      BY <1>2, <3>1, SmallRemainder DEF Minus
    <3> QED
      <4>1. t[i].length = s[i].length - 1 /\ t[i].value = s[i].value /\ t[i] \in Element
        BY <2>2, <2>3, <2>5, <3>1, <3>2 DEF Element
      <4>2. PICK l : l = s[i].length
        OBVIOUS
      <4>3. l \in {Len(s) - i, Len(s) - i + 1}
        BY <2>2, <4>2
      <4> QED
        BY <1>1, <4>1, <4>2, <4>3
  <2> QED
    BY <2>4, <2>5
<1>4. t \in Seq(Element) /\ Len(t) = Len(s) - 1
  <2>1. Len(s) - 1 \in Nat /\ t \in [1 .. Len(s) - 1 -> Element]
    BY <1>1, <1>3 DEF ShrinkBack
  <2>2. t \in Seq(Element)
    BY <2>1, SeqDef
  <2> QED
    BY <2>1, <2>2, LenProperties
<1> HIDE DEF t
<1>5. OffByOne(t)
  BY <1>3, <1>4 DEF OffByOne
<1>6. Plain(s) \in Seq(Values) /\ Len(Plain(s)) = Len(s)
      /\ \A i \in 1 .. Len(s) : Plain(s)[i] = s[i].value
  BY PlainProperties
<1>7. Plain(t) = Front(Plain(s))
  <2>1. Plain(t) \in Seq(Values) /\ Len(Plain(t)) = Len(s) - 1
        /\ \A i \in 1 .. Len(s) - 1 : Plain(t)[i] = t[i].value
    BY <1>4, PlainProperties
  <2>2. \A i \in 1 .. Len(s) - 1 : Plain(s)[i] \in Values
    BY <1>1, <1>6, ElementOfSeq
  <2>3. /\ SubSeq(Plain(s), 1, Len(s) - 1) \in Seq(Values)
        /\ Len(SubSeq(Plain(s), 1, Len(s) - 1)) = Len(s) - 1
        /\ \A i \in 1 .. Len(s) - 1 : SubSeq(Plain(s), 1, Len(s) - 1)[i] = Plain(s)[i]
    BY <1>1, <2>2, SubSeqProperties
  <2>4. Plain(t) = SubSeq(Plain(s), 1, Len(s) - 1)
    BY <1>1, <1>3, <1>6, <2>1, <2>3, SeqEqual
  <2> QED
    BY <1>6, <2>4 DEF Front
<1>8. Last(Plain(s)) = Last(s).value /\ Last(s).value \in Values
  BY <1>1, <1>6 DEF Last, Element
<1> QED
  BY <1>4, <1>5, <1>7, <1>8 DEF t

\* new Element(val, lnext): one more in front.
LEMMA PushFrontKeeps ==
    ASSUME ListInv, NEW v \in Values, PushFront(v)
    PROVE  ListInv' /\ Plain(elements)' = <<v>> \o Plain(elements)
<1> DEFINE e == [value |-> v, length |-> IF elements = <<>> THEN 1 ELSE Plus(elements[1].length, 1)]
<1>1. /\ elements' = <<e>> \o elements /\ mLength' = elements'[1].length
      /\ popped' = popped /\ Len(elements) < MaxLength
  BY DEF PushFront, Room
<1>2. /\ Len(elements) \in Nat /\ elements \in Seq(Element) /\ OffByOne(elements)
      /\ \A i \in 1 .. Len(elements) : elements[i] \in Element
  BY LenProperties, ElementOfSeq DEF ListInv
<1>3. MaxLength \in Nat /\ SizeT \in Nat \ {0} /\ MaxLength < SizeT
  BY ListAssumption
<1>4. e \in Element /\ e.length \in {Len(elements), Len(elements) + 1} /\ e.value = v
  <2>1. CASE elements = <<>>
    BY <1>1, <1>3, <2>1 DEF Element
  <2>2. CASE elements # <<>>
    <3>1. PICK l : l = elements[1].length
      OBVIOUS
    <3>2. l \in {Len(elements) - 1, Len(elements)} /\ Len(elements) > 0
      BY <1>2, <2>2, <3>1, EmptySeq DEF ListInv
    <3>3. l + 1 \in 0 .. SizeT - 1
      BY <1>1, <1>2, <1>3, <3>2
    <3>4. Plus(l, 1) = l + 1
      BY <1>3, <3>3, SmallRemainder DEF Plus
    <3>5. e = [value |-> v, length |-> l + 1]
      BY <2>2, <3>1, <3>4
    <3> QED
      BY <1>2, <3>2, <3>3, <3>5 DEF Element
  <2> QED
    BY <2>1, <2>2
<1> HIDE DEF e
<1>5. /\ elements' \in Seq(Element) /\ Len(elements') = Len(elements) + 1
      /\ elements'[1] = e
      /\ \A i \in 2 .. Len(elements) + 1 : elements'[i] = elements[i - 1]
  <2>1. <<e>> \in Seq(Element) /\ Len(<<e>>) = 1 /\ <<e>>[1] = e
    BY <1>4
  <2>2. /\ <<e>> \o elements \in Seq(Element) /\ Len(<<e>> \o elements) = 1 + Len(elements)
        /\ \A i \in 1 .. 1 + Len(elements) :
              (<<e>> \o elements)[i] = IF i <= 1 THEN <<e>>[i] ELSE elements[i - 1]
    BY <1>2, <2>1, ConcatProperties
  <2> QED
    BY <1>1, <1>2, <2>1, <2>2
<1>6. ASSUME NEW i \in 1 .. Len(elements) + 1
      PROVE  elements'[i].length \in {Len(elements) + 1 - i, Len(elements) + 1 - i + 1}
  <2>1. CASE i = 1
    BY <1>2, <1>4, <1>5, <2>1
  <2>2. CASE i # 1
    <3>1. i - 1 \in 1 .. Len(elements)
      BY <1>2, <2>2
    <3>2. elements[i - 1].length \in {Len(elements) - (i - 1), Len(elements) - (i - 1) + 1}
      BY <1>2, <3>1 DEF OffByOne
    <3>3. elements'[i] = elements[i - 1]
      BY <1>2, <1>5, <2>2
    <3> QED
      BY <1>2, <3>1, <3>2, <3>3
  <2> QED
    BY <2>1, <2>2
<1>7. OffByOne(elements')
  BY <1>5, <1>6 DEF OffByOne
<1>8. e.length \in 0 .. SizeT - 1
  BY <1>4 DEF Element
<1>9. ListInv'
  <2>1. Len(elements') <= MaxLength
    BY <1>1, <1>2, <1>3, <1>5
  <2>2. e.length \in {Len(elements') - 1, Len(elements')}
    BY <1>2, <1>4, <1>5
  <2> QED
    BY <1>1, <1>5, <1>7, <1>8, <2>1, <2>2 DEF ListInv
<1>10. Plain(elements') = <<v>> \o Plain(elements)
  <2>1. Plain(elements') \in Seq(Values) /\ Len(Plain(elements')) = Len(elements) + 1
        /\ \A i \in 1 .. Len(elements) + 1 : Plain(elements')[i] = elements'[i].value
    BY <1>5, PlainProperties
  <2>2. Plain(elements) \in Seq(Values) /\ Len(Plain(elements)) = Len(elements)
        /\ \A i \in 1 .. Len(elements) : Plain(elements)[i] = elements[i].value
    BY <1>2, PlainProperties
  <2>3. <<v>> \in Seq(Values) /\ Len(<<v>>) = 1 /\ <<v>>[1] = v
    OBVIOUS
  <2>4. /\ <<v>> \o Plain(elements) \in Seq(Values)
        /\ Len(<<v>> \o Plain(elements)) = 1 + Len(elements)
        /\ \A i \in 1 .. 1 + Len(elements) :
              (<<v>> \o Plain(elements))[i] = IF i <= 1 THEN <<v>>[i] ELSE Plain(elements)[i - 1]
    BY <2>2, <2>3, ConcatProperties
  <2>5. ASSUME NEW i \in 1 .. Len(elements) + 1
        PROVE  Plain(elements')[i] = (<<v>> \o Plain(elements))[i]
    <3>1. CASE i = 1
      BY <1>2, <1>4, <1>5, <2>1, <2>3, <2>4, <3>1
    <3>2. CASE i # 1
      <4>1. i - 1 \in 1 .. Len(elements) /\ i \in 2 .. Len(elements) + 1 /\ ~(i <= 1)
        BY <1>2, <3>2
      <4>2. Plain(elements')[i] = elements[i - 1].value
        BY <1>5, <2>1, <4>1
      <4>3. (<<v>> \o Plain(elements))[i] = Plain(elements)[i - 1]
        BY <1>2, <2>4, <4>1
      <4>4. Plain(elements)[i - 1] = elements[i - 1].value
        BY <2>2, <4>1
      <4> QED
        BY <4>2, <4>3, <4>4
    <3> QED
      BY <3>1, <3>2
  <2>6. Len(Plain(elements')) = Len(<<v>> \o Plain(elements))
        /\ Len(Plain(elements')) = Len(elements) + 1
    BY <1>2, <2>1, <2>4
  <2> QED
    BY <2>1, <2>4, <2>5, <2>6, SeqEqual
<1> QED
  BY <1>9, <1>10

\* The first Element goes; the list counts one less, the new first one does not.
LEMMA PopFrontKeeps ==
    ASSUME ListInv, PopFront
    PROVE  /\ ListInv'
           /\ Plain(elements)' = Tail(Plain(elements)) /\ Plain(elements) # <<>>
           /\ popped' = <<Head(Plain(elements))>>
<1>1. /\ elements # <<>> /\ popped' = <<Head(elements).value>> /\ elements' = Tail(elements)
      /\ mLength' = IF elements' = <<>> THEN 0 ELSE Minus(mLength, 1)
  BY DEF PopFront
<1>2. /\ Len(elements) \in Nat \ {0} /\ elements \in Seq(Element) /\ OffByOne(elements)
      /\ Len(elements) <= MaxLength
      /\ \A i \in 1 .. Len(elements) : elements[i] \in Element
  BY <1>1, LenProperties, ElementOfSeq, EmptySeq DEF ListInv
<1>3. MaxLength \in Nat /\ SizeT \in Nat \ {0} /\ MaxLength < SizeT
  BY ListAssumption
<1>4. /\ elements' \in Seq(Element) /\ Len(elements') = Len(elements) - 1
      /\ \A i \in 1 .. Len(elements) - 1 : elements'[i] = elements[i + 1]
  <2>1. /\ Tail(elements) \in Seq(Element) /\ Len(Tail(elements)) = Len(elements) - 1
        /\ \A i \in 1 .. Len(Tail(elements)) : Tail(elements)[i] = elements[i + 1]
    BY <1>1, <1>2, HeadTailProperties
  <2> QED
    BY <1>1, <2>1
<1>5. ASSUME NEW i \in 1 .. Len(elements) - 1
      PROVE  elements'[i].length \in {Len(elements) - 1 - i, Len(elements) - 1 - i + 1}
  <2>1. i + 1 \in 1 .. Len(elements)
    BY <1>2
  <2>2. elements[i + 1].length \in {Len(elements) - (i + 1), Len(elements) - (i + 1) + 1}
    BY <1>2, <2>1 DEF OffByOne
  <2> QED
    BY <1>2, <1>4, <2>2
<1>6. OffByOne(elements')
  BY <1>4, <1>5 DEF OffByOne
<1>7. mLength' \in 0 .. SizeT - 1 /\ mLength' \in {Len(elements') - 1, Len(elements')}
  <2>1. CASE elements' = <<>>
    <3>1. mLength' = 0 /\ Len(elements') = 0
      BY <1>1, <2>1
    <3> QED
      BY <1>3, <3>1
  <2>2. CASE elements' # <<>>
    <3>1. Len(elements) - 1 > 0
      BY <1>2, <1>4, <2>2, EmptySeq
    <3>2. mLength - 1 \in 0 .. SizeT - 1 /\ mLength \in {Len(elements) - 1, Len(elements)}
      BY <1>2, <1>3, <3>1 DEF ListInv
    <3>3. mLength' = mLength - 1
      BY <1>1, <1>3, <2>2, <3>2, SmallRemainder DEF Minus
    <3> QED
      BY <1>2, <1>4, <3>2, <3>3
  <2> QED
    BY <2>1, <2>2
<1>8. ASSUME elements' # <<>> PROVE elements'[1].length \in {Len(elements') - 1, Len(elements')}
  <2>1. Len(elements') \in Nat /\ 1 \in 1 .. Len(elements) - 1
    BY <1>2, <1>4, <1>8, EmptySeq
  <2> QED
    BY <1>2, <1>4, <1>5, <2>1
<1>9. Head(elements) = elements[1] /\ elements[1].value \in Values
  BY <1>1, <1>2 DEF Element
<1>10. ListInv'
  <2>1. Len(elements') <= MaxLength
    BY <1>2, <1>3, <1>4
  <2> QED
    BY <1>1, <1>4, <1>6, <1>7, <1>8, <1>9, <2>1 DEF ListInv
<1>11. /\ Plain(elements) \in Seq(Values) /\ Len(Plain(elements)) = Len(elements)
       /\ \A i \in 1 .. Len(elements) : Plain(elements)[i] = elements[i].value
  BY <1>2, PlainProperties
<1>12. Plain(elements) # <<>> /\ Head(Plain(elements)) = elements[1].value
  BY <1>2, <1>11
<1>13. Plain(elements') = Tail(Plain(elements))
  <2>1. Plain(elements') \in Seq(Values) /\ Len(Plain(elements')) = Len(elements) - 1
        /\ \A i \in 1 .. Len(elements) - 1 : Plain(elements')[i] = elements'[i].value
    BY <1>4, PlainProperties
  <2>2. /\ Tail(Plain(elements)) \in Seq(Values)
        /\ Len(Tail(Plain(elements))) = Len(elements) - 1
        /\ \A i \in 1 .. Len(elements) - 1 : Tail(Plain(elements))[i] = Plain(elements)[i + 1]
    BY <1>11, <1>12, HeadTailProperties
  <2>3. ASSUME NEW i \in 1 .. Len(elements) - 1
        PROVE  Plain(elements')[i] = Tail(Plain(elements))[i]
    <3>1. i + 1 \in 1 .. Len(elements)
      BY <1>2
    <3> QED
      BY <1>4, <1>11, <2>1, <2>2, <3>1
  <2> QED
    BY <2>1, <2>2, <2>3, SeqEqual
<1> QED
  BY <1>1, <1>9, <1>10, <1>12, <1>13

LEMMA PushBackKeeps ==
    ASSUME ListInv, NEW v \in Values, PushBack(v)
    PROVE  ListInv' /\ Plain(elements)' = Append(Plain(elements), v)
<1>1. /\ elements' = GrowBack(elements, v) /\ mLength' = elements'[1].length
      /\ popped' = popped /\ Len(elements) < MaxLength
  BY DEF PushBack, Room
<1>2. Len(elements) \in Nat /\ elements \in Seq(Element) /\ OffByOne(elements)
  BY LenProperties DEF ListInv
<1>3. /\ elements' \in Seq(Element) /\ Len(elements') = Len(elements) + 1 /\ OffByOne(elements')
      /\ Plain(elements') = Append(Plain(elements), v)
  BY <1>1, <1>2, GrowBackProperties
<1>4. elements'[1] \in Element /\ elements'[1].length \in {Len(elements'), Len(elements') - 1}
  <2>1. Len(elements') \in Nat /\ 1 \in 1 .. Len(elements')
    BY <1>2, <1>3
  <2>2. elements'[1] \in Element
    BY <1>3, <2>1, ElementOfSeq
  <2>3. elements'[1].length \in {Len(elements') - 1, Len(elements') - 1 + 1}
    BY <1>3, <2>1 DEF OffByOne
  <2> QED
    BY <2>1, <2>2, <2>3
<1>5. elements'[1].length \in 0 .. SizeT - 1
  BY <1>4 DEF Element
<1>6. Len(elements') <= MaxLength
  BY <1>1, <1>2, <1>3, ListAssumption
<1> QED
  BY <1>1, <1>3, <1>4, <1>5, <1>6 DEF ListInv

LEMMA PopBackKeeps ==
    ASSUME ListInv, PopBack
    PROVE  /\ ListInv'
           /\ Plain(elements)' = Front(Plain(elements)) /\ Plain(elements) # <<>>
           /\ popped' = <<Last(Plain(elements))>>
<1>1. /\ elements # <<>> /\ elements' = ShrinkBack(elements)
      /\ popped' = <<Last(elements).value>>
      /\ mLength' = IF elements' = <<>> THEN 0 ELSE elements'[1].length
  BY DEF PopBack
<1>2. /\ Len(elements) \in Nat \ {0} /\ elements \in Seq(Element) /\ OffByOne(elements)
      /\ Len(elements) <= MaxLength
  BY <1>1, LenProperties, EmptySeq DEF ListInv
<1>3. /\ elements' \in Seq(Element) /\ Len(elements') = Len(elements) - 1 /\ OffByOne(elements')
      /\ Plain(elements') = Front(Plain(elements))
      /\ Last(Plain(elements)) = Last(elements).value /\ Last(elements).value \in Values
  BY <1>1, <1>2, ShrinkBackProperties
<1>4. Plain(elements) # <<>>
  BY <1>2, PlainProperties
<1>5. Len(elements') <= MaxLength
  BY <1>2, <1>3, ListAssumption
<1>6. CASE elements' = <<>>
  <2>1. mLength' = 0 /\ Len(elements') = 0 /\ 0 \in 0 .. SizeT - 1
    BY <1>1, <1>6, ListAssumption
  <2>2. ListInv'
    BY <1>1, <1>3, <1>5, <1>6, <2>1 DEF ListInv
  <2> QED
    BY <1>1, <1>3, <1>4, <2>2
<1>7. CASE elements' # <<>>
  <2>1. Len(elements') \in Nat /\ 1 \in 1 .. Len(elements')
    BY <1>2, <1>3, <1>7, EmptySeq
  <2>2. elements'[1] \in Element
    BY <1>3, <2>1, ElementOfSeq
  <2>3. elements'[1].length \in {Len(elements') - 1, Len(elements') - 1 + 1}
    BY <1>3, <2>1 DEF OffByOne
  <2>4. elements'[1].length \in {Len(elements') - 1, Len(elements')}
    BY <2>1, <2>3
  <2>5. elements'[1].length \in 0 .. SizeT - 1
    BY <2>2 DEF Element
  <2>6. ListInv'
    BY <1>1, <1>3, <1>5, <1>7, <2>4, <2>5 DEF ListInv
  <2> QED
    BY <1>1, <1>3, <1>4, <2>6
<1> QED
  BY <1>6, <1>7

LEMMA ListInit == Init => ListInv
<1> SUFFICES ASSUME Init PROVE ListInv
  OBVIOUS
<1>1. elements = <<>> /\ mLength = 0 /\ popped = <<>>
  BY DEF Init
<1>2. Len(elements) = 0 /\ elements \in Seq(Element)
  BY <1>1
<1>3. OffByOne(elements)
  BY <1>2 DEF OffByOne
<1> QED
  BY <1>1, <1>2, <1>3, ListAssumption DEF ListInv

LEMMA ListStep == ListInv /\ [Next]_vars => ListInv'
<1> SUFFICES ASSUME ListInv, [Next]_vars PROVE ListInv'
  OBVIOUS
<1>1. CASE UNCHANGED vars
  BY <1>1 DEF vars, ListInv
<1> QED
  BY <1>1, PushBackKeeps, PopBackKeeps, PushFrontKeeps, PopFrontKeeps DEF Next

\* The list's length is right or one too low, whatever pushes and pops came before;
\* so no subtraction of 1 wraps.
THEOREM LengthIsClose == Spec => []LengthOffByOne
<1>1. ListInv => LengthOffByOne
  BY DEF ListInv, LengthOffByOne
<1> QED
  BY <1>1, ListInit, ListStep, PTL DEF Spec

\* With its wrong lengths the list still is a deque: each step of it is a step of
\* Deque on the values of its Elements.
THEOREM ListIsDeque == Spec => IsDeque
<1>1. Init => Contents!Init
  BY DEF Init, Contents!Init
<1>2. ListInv /\ [Next]_vars => [Contents!Next]_<<Plain(elements), popped>>
  <2> SUFFICES ASSUME ListInv, [Next]_vars
               PROVE  [Contents!Next]_<<Plain(elements), popped>>
    OBVIOUS
  <2>1. CASE UNCHANGED vars
    BY <2>1 DEF vars, Plain
  <2>2. ASSUME NEW v \in Values, PushBack(v) PROVE Contents!Next
    BY <2>2, PushBackKeeps DEF PushBack, Plain, Contents!Next, Contents!PushBack
  <2>3. ASSUME NEW v \in Values, PushFront(v) PROVE Contents!Next
    BY <2>3, PushFrontKeeps DEF PushFront, Plain, Contents!Next, Contents!PushFront
  <2>4. CASE PopBack
    BY <2>4, PopBackKeeps 
       DEF Plain, Contents!Next, Contents!PopBack, Front, Last, Contents!Front, Contents!Last
  <2>5. CASE PopFront
    BY <2>5, PopFrontKeeps DEF Plain, Contents!Next, Contents!PopFront
  <2> QED
    BY <2>1, <2>2, <2>3, <2>4, <2>5 DEF Next
<1>3. ListInv /\ [Next]_vars =>
        [Contents!Next]_<<[i \in DOMAIN elements |-> elements[i].value], popped>>
  BY <1>2 DEF Plain
<1> QED
  BY <1>1, <1>3, ListInit, ListStep, PTL DEF Spec, IsDeque, Contents!Spec

-----------------------------------------------------------------------------
(* The mesh *)

\* What the corners converted so far mean.
Meanings == {Mesh!Meant(c) : c \in 1 .. corner}

\* Each index leads to a vertex that is a corner converted no later, alike; no two
\* vertices are alike.
MeshInv ==
    /\ corner \in Nat
    /\ ~converting => corner = 0 /\ vertices = <<>> /\ indexes = <<>>
    /\ vertices \in Seq(Meanings)
    /\ indexes \in Seq(Nat) /\ Len(indexes) = corner
    /\ \A c \in 1 .. corner :
         /\ indexes[c] + 1 \in 1 .. Len(vertices)
         /\ \E b \in 1 .. c : /\ vertices[indexes[c] + 1] = Mesh!Meant(b)
                              /\ Mesh!AlikeButXY(Mesh!Meant(b), Mesh!Meant(c))
    /\ \A i, j \in 1 .. Len(vertices) : Mesh!AlikeButXY(vertices[i], vertices[j]) => i = j

LEMMA MeshInit == Mesh!Init => MeshInv
<1> SUFFICES ASSUME Mesh!Init PROVE MeshInv
  OBVIOUS
<1>1. corner = 0 /\ vertices = <<>> /\ indexes = <<>>
  BY DEF Mesh!Init
<1>2. Len(<<>>) = 0 /\ <<>> \in Seq(Meanings) /\ <<>> \in Seq(Nat)
  OBVIOUS
<1> QED
  BY <1>1, <1>2 DEF MeshInv

\* Lines are only read before the first corner is converted.
LEMMA MeshReads ==
    ASSUME MeshInv, ~converting,
           corner' = corner, vertices' = vertices, indexes' = indexes
    PROVE  MeshInv'
<1>1. corner' = 0 /\ vertices' = <<>> /\ indexes' = <<>>
  BY DEF MeshInv
<1>2. Len(<<>>) = 0 /\ <<>> \in Seq(Meanings') /\ <<>> \in Seq(Nat)
  OBVIOUS
<1> QED
  BY <1>1, <1>2 DEF MeshInv

LEMMA MeshStays ==
    ASSUME MeshInv, info' = info, converting' = converting,
           corner' = corner, vertices' = vertices, indexes' = indexes
    PROVE  MeshInv'
<1>1. \A c : Mesh!Meant(c)' = Mesh!Meant(c)
  BY DEF Mesh!Meant, Mesh!Corners
<1>2. \A v, w : Mesh!AlikeButXY(v, w)' = Mesh!AlikeButXY(v, w)
  BY DEF Mesh!AlikeButXY
<1>3. Meanings' = Meanings
  BY <1>1 DEF Meanings
<1> QED
  BY <1>1, <1>2, <1>3 DEF MeshInv

LEMMA MeshConverts == ASSUME MeshInv, Mesh!Convert PROVE MeshInv'
<1> DEFINE v == Mesh!Meant(corner + 1)
<1>1. /\ converting /\ info' = info /\ converting' = converting /\ corner' = corner + 1
      /\ IF Mesh!Listed(v) = {}
         THEN vertices' = Append(vertices, v) /\ indexes' = Append(indexes, Len(vertices))
         ELSE /\ vertices' = vertices
              /\ indexes' = Append(indexes,
                   (CHOOSE i \in Mesh!Listed(v) : \A n \in Mesh!Listed(v) : i <= n) - 1)
  BY DEF Mesh!Convert
<1>2. \A c : Mesh!Meant(c)' = Mesh!Meant(c)
  BY <1>1 DEF Mesh!Meant, Mesh!Corners
<1>3. PICK M : M = Meanings' /\ Meanings \subseteq M /\ v \in M /\ M = {Mesh!Meant(c) : c \in 1 .. corner + 1}
  <2>1. corner \in Nat
    BY DEF MeshInv
  <2>2. Meanings' = {Mesh!Meant(c) : c \in 1 .. corner + 1}
    BY <1>1, <1>2 DEF Meanings
  <2>3. corner + 1 \in 1 .. corner + 1 /\ \A c \in 1 .. corner : c \in 1 .. corner + 1
    BY <2>1
  <2>4. Meanings \subseteq {Mesh!Meant(c) : c \in 1 .. corner + 1}
    BY <2>3 DEF Meanings
  <2>5. v \in {Mesh!Meant(c) : c \in 1 .. corner + 1}
    BY <2>3
  <2> QED
    BY <2>2, <2>4, <2>5
<1>4. /\ vertices \in Seq(M) /\ Len(vertices) \in Nat /\ DOMAIN vertices = 1 .. Len(vertices)
      /\ indexes \in Seq(Nat) /\ Len(indexes) = corner /\ corner \in Nat
      /\ \A i \in 1 .. Len(vertices) : vertices[i] \in Meanings
  BY <1>3, SeqMonotonic, LenProperties, ElementOfSeq DEF MeshInv
<1>5. Mesh!Listed(v) = {i \in 1 .. Len(vertices) : Mesh!AlikeButXY(vertices[i], v)}
  BY <1>4 DEF Mesh!Listed, Mesh!AlikeButXY
<1>6. \A x : Mesh!AlikeButXY(x, x)
  BY DEF Mesh!AlikeButXY
<1> HIDE DEF v
<1>7. PICK at \in Nat :
        /\ indexes' = Append(indexes, at)
        /\ vertices' \in Seq(M) /\ at + 1 \in 1 .. Len(vertices')
        /\ Len(vertices') \in Nat /\ Len(vertices') >= Len(vertices)
        /\ \A i \in 1 .. Len(vertices) : vertices'[i] = vertices[i]
        /\ vertices'[at + 1] \in Meanings \cup {v}
        /\ Mesh!AlikeButXY(vertices'[at + 1], v)
        /\ \A i, j \in 1 .. Len(vertices') : Mesh!AlikeButXY(vertices'[i], vertices'[j]) => i = j
  <2>1. CASE Mesh!Listed(v) = {}
    <3>1. vertices' = Append(vertices, v) /\ indexes' = Append(indexes, Len(vertices))
      BY <1>1, <2>1
    <3>2. /\ vertices' \in Seq(M) /\ Len(vertices') = Len(vertices) + 1
          /\ \A i \in 1 .. Len(vertices) : vertices'[i] = vertices[i]
          /\ vertices'[Len(vertices) + 1] = v
      BY <1>3, <1>4, <3>1, AppendProperties
    <3>3. \A i \in 1 .. Len(vertices) : ~Mesh!AlikeButXY(vertices[i], v) /\ ~Mesh!AlikeButXY(v, vertices[i])
      BY <1>5, <2>1 DEF Mesh!AlikeButXY
    <3>4. ASSUME NEW i \in 1 .. Len(vertices'), NEW j \in 1 .. Len(vertices'),
                 Mesh!AlikeButXY(vertices'[i], vertices'[j])
          PROVE  i = j
      <4>1. i \in 1 .. Len(vertices) \/ i = Len(vertices) + 1
        BY <1>4, <3>2
      <4>2. j \in 1 .. Len(vertices) \/ j = Len(vertices) + 1
        BY <1>4, <3>2
      <4>3. CASE i \in 1 .. Len(vertices) /\ j \in 1 .. Len(vertices)
        BY <3>2, <3>4, <4>3 DEF MeshInv
      <4>4. CASE i \in 1 .. Len(vertices) /\ j = Len(vertices) + 1
        BY <3>2, <3>3, <3>4, <4>4
      <4>5. CASE i = Len(vertices) + 1 /\ j \in 1 .. Len(vertices)
        BY <3>2, <3>3, <3>4, <4>5
      <4> QED
        BY <4>1, <4>2, <4>3, <4>4, <4>5
    <3>5. Len(vertices) + 1 \in 1 .. Len(vertices')
      BY <1>4, <3>2
    <3>6. Mesh!AlikeButXY(vertices'[Len(vertices) + 1], v) /\ vertices'[Len(vertices) + 1] \in Meanings \cup {v}
      BY <1>6, <3>2
    <3>7. Len(vertices') \in Nat /\ Len(vertices') >= Len(vertices) /\ Len(vertices) \in Nat
      BY <1>4, <3>2
    <3> QED
      BY <3>1, <3>2, <3>4, <3>5, <3>6, <3>7
  <2>2. CASE Mesh!Listed(v) # {}
    <3>1. PICK n : n = CHOOSE i \in Mesh!Listed(v) : \A m \in Mesh!Listed(v) : i <= m
      OBVIOUS
    <3>2. vertices' = vertices /\ indexes' = Append(indexes, n - 1)
      BY <1>1, <2>2, <3>1
    <3>3. \E i \in Mesh!Listed(v) : \A m \in Mesh!Listed(v) : i <= m
      <4>1. Mesh!Listed(v) \in SUBSET Nat
        BY <1>4, <1>5
      <4> QED
        BY <2>2, <4>1, LeastNatural
    <3>4. n \in Mesh!Listed(v)
      BY <3>1, <3>3
    <3>5. n \in 1 .. Len(vertices) /\ Mesh!AlikeButXY(vertices[n], v)
      BY <1>5, <3>4
    <3>6. n - 1 \in Nat /\ (n - 1) + 1 = n
      BY <1>4, <3>5
    <3>7. \A i, j \in 1 .. Len(vertices) : Mesh!AlikeButXY(vertices[i], vertices[j]) => i = j
      BY DEF MeshInv
    <3> QED
      BY <1>4, <3>2, <3>5, <3>6, <3>7
  <2> QED
    BY <2>1, <2>2
<1>8. /\ indexes' \in Seq(Nat) /\ Len(indexes') = corner + 1
      /\ \A c \in 1 .. corner : indexes'[c] = indexes[c]
      /\ indexes'[corner + 1] = at
  BY <1>4, <1>7, AppendProperties
<1>9. ASSUME NEW c \in 1 .. corner + 1
      PROVE  /\ indexes'[c] + 1 \in 1 .. Len(vertices')
             /\ \E b \in 1 .. c : /\ vertices'[indexes'[c] + 1] = Mesh!Meant(b)
                                  /\ Mesh!AlikeButXY(Mesh!Meant(b), Mesh!Meant(c))
  <2>1. CASE c \in 1 .. corner
    <3>1. /\ indexes[c] + 1 \in 1 .. Len(vertices)
          /\ \E b \in 1 .. c : /\ vertices[indexes[c] + 1] = Mesh!Meant(b)
                               /\ Mesh!AlikeButXY(Mesh!Meant(b), Mesh!Meant(c))
      BY <2>1 DEF MeshInv
    <3>2. indexes'[c] = indexes[c]
      BY <1>8, <2>1
    <3>3. indexes[c] + 1 \in 1 .. Len(vertices') /\ vertices'[indexes[c] + 1] = vertices[indexes[c] + 1]
      BY <1>4, <1>7, <3>1
    <3> QED
      BY <3>1, <3>2, <3>3
  <2>2. CASE c = corner + 1
    <3>1. indexes'[c] = at
      BY <1>8, <2>2
    <3>2. \E b \in 1 .. corner + 1 : vertices'[at + 1] = Mesh!Meant(b)
      BY <1>4, <1>7 DEF Meanings, v
    <3>3. PICK b \in 1 .. corner + 1 : vertices'[at + 1] = Mesh!Meant(b)
      BY <3>2
    <3>4. Mesh!AlikeButXY(Mesh!Meant(b), Mesh!Meant(c))
      BY <1>7, <2>2, <3>3 DEF v
    <3> QED
      BY <1>7, <2>2, <3>1, <3>3, <3>4
  <2> QED
    BY <1>4, <2>1, <2>2
<1>10. \A x, y : Mesh!AlikeButXY(x, y)' = Mesh!AlikeButXY(x, y)
  BY DEF Mesh!AlikeButXY
<1>11. MeshInv'
  <2>1. corner' \in Nat /\ indexes' \in Seq(Nat) /\ Len(indexes') = corner'
    BY <1>1, <1>4, <1>8
  <2>2. converting'
    BY <1>1, Zenon
  <2>3. vertices' \in Seq(Meanings')
    BY <1>3, <1>7
  <2>4. \A c \in 1 .. corner' :
           /\ indexes'[c] + 1 \in 1 .. Len(vertices')
           /\ \E b \in 1 .. c : /\ vertices'[indexes'[c] + 1] = Mesh!Meant(b)'
                                /\ Mesh!AlikeButXY(Mesh!Meant(b), Mesh!Meant(c))'
    BY <1>1, <1>2, <1>9, <1>10
  <2>5. \A i, j \in 1 .. Len(vertices') : Mesh!AlikeButXY(vertices'[i], vertices'[j]) => i = j
    BY <1>7
  <2> QED
    BY <1>10, <2>1, <2>2, <2>3, <2>4, <2>5 DEF MeshInv
<1> QED
  BY <1>11

LEMMA MeshStep == MeshInv /\ [Mesh!Next]_(Mesh!vars) => MeshInv'
<1> SUFFICES ASSUME MeshInv, [Mesh!Next]_(Mesh!vars) PROVE MeshInv'
  OBVIOUS
<1>1. ASSUME NEW key, NEW value, NEW bound, Mesh!Line(key, value, bound) PROVE MeshInv'
  BY <1>1, MeshReads DEF Mesh!Line
<1>2. ASSUME NEW triple, Mesh!FaceLine(triple) PROVE MeshInv'
  BY <1>1, <1>2 DEF Mesh!FaceLine
<1>3. CASE Mesh!BadLine \/ Mesh!EndOfFile
  BY <1>3, MeshReads DEF Mesh!BadLine, Mesh!EndOfFile
<1>4. CASE Mesh!Convert
  BY <1>4, MeshConverts
<1>5. CASE Mesh!ConvertFails
  BY <1>5, MeshStays DEF Mesh!ConvertFails
<1>6. CASE UNCHANGED Mesh!vars
  BY <1>6, MeshStays DEF Mesh!vars
<1> QED
  BY <1>1, <1>2, <1>3, <1>4, <1>5, <1>6 DEF Mesh!Next

\* Whatever lines a file has, in whatever order: every corner is drawn with its
\* depth, texture and normal, with all of itself where no other corner differs in x
\* or y only, and no vertex is listed twice.
THEOREM MeshIsSound == Mesh!Spec => []MeshKeepsDepth
<1>1. MeshInv => MeshKeepsDepth
  <2> SUFFICES ASSUME MeshInv PROVE MeshKeepsDepth
    OBVIOUS
  <2>1. DOMAIN vertices = 1 .. Len(vertices)
    BY LenProperties DEF MeshInv
  <2>2. ASSUME NEW c \in 1 .. corner
        PROVE  /\ indexes[c] + 1 \in DOMAIN vertices
               /\ Mesh!AlikeButXY(Mesh!Drawn(c), Mesh!Meant(c))
               /\ (\A b \in 1 .. c : Mesh!AlikeButXY(Mesh!Meant(b), Mesh!Meant(c))
                                       => Mesh!Meant(b) = Mesh!Meant(c))
                    => Mesh!Drawn(c) = Mesh!Meant(c)
    BY <2>1 DEF MeshInv, Mesh!Drawn
  <2>3. IsInjective(vertices)
    BY <2>1 DEF MeshInv, Mesh!AlikeButXY, IsInjective
  <2> QED
    BY <2>2, <2>3 DEF MeshKeepsDepth, Mesh!MeshKeepsDepth, IsInjective, Mesh!IsInjective
<1> QED
  BY <1>1, MeshInit, MeshStep, PTL DEF Mesh!Spec

-----------------------------------------------------------------------------
(* The models of a node *)

NodeTypes ==
    /\ mModels \in Seq(Models)
    /\ mNamedModels \in [Names -> Models \cup {noModel}]

\* An array without its element k.
LEMMA RemoveAtProperties ==
    ASSUME NEW S, NEW s \in Seq(S), NEW k \in 1 .. Len(s)
    PROVE  /\ Node!RemoveAt(s, k) \in Seq(S)
           /\ \A i \in 1 .. Len(s) : i # k => s[i] \in Range(Node!RemoveAt(s, k))
<1> DEFINE a == SubSeq(s, 1, k - 1)
           b == SubSeq(s, k + 1, Len(s))
<1>1. Len(s) \in Nat /\ k \in Nat \ {0} /\ k <= Len(s) /\ \A i \in 1 .. Len(s) : s[i] \in S
  BY LenProperties, ElementOfSeq
<1>2. a \in Seq(S) /\ Len(a) = k - 1 /\ \A i \in 1 .. k - 1 : a[i] = s[i]
  <2>1. \A i \in 1 .. k - 1 : s[i] \in S
    BY <1>1
  <2>2. 1 \in Int /\ k - 1 \in Int
    BY <1>1
  <2>3. /\ a \in Seq(S) /\ Len(a) = IF 1 <= k - 1 THEN (k - 1) - 1 + 1 ELSE 0
        /\ \A i \in 1 .. (k - 1) - 1 + 1 : a[i] = s[1 + i - 1]
    BY <2>1, <2>2, SubSeqProperties
  <2> QED
    BY <1>1, <2>3
<1>3. b \in Seq(S) /\ Len(b) = Len(s) - k /\ \A i \in 1 .. Len(s) - k : b[i] = s[k + i]
  <2>1. \A i \in k + 1 .. Len(s) : s[i] \in S
    BY <1>1
  <2>2. k + 1 \in Int /\ Len(s) \in Int
    BY <1>1
  <2>3. /\ b \in Seq(S) /\ Len(b) = IF k + 1 <= Len(s) THEN Len(s) - (k + 1) + 1 ELSE 0
        /\ \A i \in 1 .. Len(s) - (k + 1) + 1 : b[i] = s[k + 1 + i - 1]
    BY <2>1, <2>2, SubSeqProperties
  <2>4. \A i \in 1 .. Len(s) - k : k + 1 + i - 1 = k + i
    BY <1>1
  <2> QED
    BY <1>1, <2>3, <2>4
<1>4. Node!RemoveAt(s, k) = a \o b
  BY DEF Node!RemoveAt
<1> HIDE DEF a, b
<1>5. /\ a \o b \in Seq(S) /\ Len(a \o b) = Len(a) + Len(b)
      /\ \A i \in 1 .. Len(a) + Len(b) : (a \o b)[i] = IF i <= Len(a) THEN a[i] ELSE b[i - Len(a)]
  BY <1>2, <1>3, ConcatProperties
<1>6. Range(a \o b) = {(a \o b)[i] : i \in 1 .. Len(a) + Len(b)}
  BY <1>5, RangeEquality
<1>7. Len(a) + Len(b) = Len(s) - 1
  BY <1>1, <1>2, <1>3
<1>8. ASSUME NEW i \in 1 .. Len(s), i # k PROVE s[i] \in Range(a \o b)
  <2>1. CASE i < k
    <3>1. i \in 1 .. Len(a) + Len(b) /\ i <= Len(a) /\ i \in 1 .. k - 1
      BY <1>1, <1>2, <1>7, <2>1
    <3>2. (a \o b)[i] = s[i]
      BY <1>2, <1>5, <3>1
    <3> QED
      BY <1>6, <3>1, <3>2
  <2>2. CASE i > k
    <3>1. i - 1 \in 1 .. Len(a) + Len(b) /\ ~(i - 1 <= Len(a)) /\ i - k \in 1 .. Len(s) - k
          /\ (i - 1) - Len(a) = i - k /\ k + (i - k) = i
      BY <1>1, <1>2, <1>7, <2>2
    <3>2. (a \o b)[i - 1] = b[i - k]
      BY <1>5, <3>1
    <3>3. b[i - k] = s[i]
      BY <1>3, <3>1
    <3> QED
      BY <1>6, <3>1, <3>2, <3>3
  <2> QED
    BY <1>1, <1>8, <2>1, <2>2
<1> QED
  BY <1>4, <1>5, <1>8

\* The loop of removeModel(string) over an array that has m once, at k: it cuts
\* index k out of the array as it was, and nothing else.
LEMMA RemoveAllOfOne ==
    ASSUME NEW s \in Seq(Models), NEW k \in 1 .. Len(s),
           \A i \in 1 .. Len(s) : s[i] = s[k] => i = k
    PROVE  Node!RemoveAll(s, s[k]) = Node!Ok(Node!RemoveAt(s, k))
<1> DEFINE F(f) == [i \in 0 .. Len(s) |->
                      IF i = 0 THEN Node!Ok(s)
                      ELSE IF s[i] = s[k] THEN Node!Cut(f[i - 1], i) ELSE f[i - 1]]
           after == CHOOSE f : f = F(f)
           g == [i \in 0 .. Len(s) |-> IF i < k THEN Node!Ok(s) ELSE Node!Ok(Node!RemoveAt(s, k))]
<1>1. Len(s) \in Nat /\ k \in Nat \ {0} /\ k <= Len(s)
  BY LenProperties
<1>2. Node!RemoveAll(s, s[k]) = after[Len(s)]
  BY DEF Node!RemoveAll
<1>3. Node!Cut(Node!Ok(s), k) = Node!Ok(Node!RemoveAt(s, k))
  BY <1>1 DEF Node!Cut, Node!Ok
<1>4. ASSUME NEW i \in 0 .. Len(s)
      PROVE  g[i] = IF i = 0 THEN Node!Ok(s)
                    ELSE IF s[i] = s[k] THEN Node!Cut(g[i - 1], i) ELSE g[i - 1]
  <2>1. CASE i = 0
    BY <1>1, <2>1
  <2>2. CASE i # 0
    <3>1. i \in 1 .. Len(s) /\ i - 1 \in 0 .. Len(s)
      BY <1>1, <2>2
    <3>2. CASE i = k
      <4>1. g[i] = Node!Ok(Node!RemoveAt(s, k)) /\ g[i - 1] = Node!Ok(s)
        BY <1>1, <3>1, <3>2
      <4> QED
        BY <1>3, <2>2, <3>2, <4>1
    <3>3. CASE i # k
      <4>1. s[i] # s[k]
        BY <3>1, <3>3
      <4>2. g[i] = g[i - 1]
        BY <1>1, <3>1, <3>3
      <4> QED
        BY <2>2, <4>1, <4>2
    <3> QED
      BY <3>2, <3>3
  <2> QED
    BY <2>1, <2>2
<1>5. g = F(g)
  BY <1>4
<1>6. after = F(after)
  BY <1>5
<1>7. DOMAIN after = 0 .. Len(s) /\ DOMAIN g = 0 .. Len(s)
  BY <1>6
<1>8. \A i \in 0 .. Len(s) :
         after[i] = IF i = 0 THEN Node!Ok(s)
                    ELSE IF s[i] = s[k] THEN Node!Cut(after[i - 1], i) ELSE after[i - 1]
  BY <1>6
<1> HIDE DEF F, after, g
<1> DEFINE T == {i \in Nat : i <= Len(s) => after[i] = g[i]}
<1>9. 0 \in T
  BY <1>1, <1>4, <1>8
<1>10. ASSUME NEW n \in Nat, n \in T PROVE n + 1 \in T
  <2>1. SUFFICES ASSUME n + 1 <= Len(s) PROVE after[n + 1] = g[n + 1]
    OBVIOUS
  <2>2. n + 1 \in 0 .. Len(s) /\ n + 1 # 0 /\ (n + 1) - 1 = n /\ n <= Len(s)
    BY <1>1, <2>1
  <2>3. after[n] = g[n]
    BY <1>10, <2>2
  <2> QED
    BY <1>4, <1>8, <2>2, <2>3
<1> HIDE DEF T
<1>11. Nat \subseteq T
  BY <1>9, <1>10, Induction
<1>12. after[Len(s)] = g[Len(s)]
  BY <1>1, <1>11 DEF T
<1>13. g[Len(s)] = Node!Ok(Node!RemoveAt(s, k))
  BY <1>1 DEF g
<1> QED
  BY <1>2, <1>12, <1>13 DEF after, F

LEMMA NodeInit == Node!Init => NodeTypes
  BY DEF Node!Init, NodeTypes

\* Cutting one of several occurrences of no model, and forgetting one name of it.
LEMMA CutKeepsNames ==
    ASSUME NodeTypes, Node!Simple, Node!NamesAttached, NEW k \in 1 .. Len(mModels),
           mModels' = Node!RemoveAt(mModels, k),
           \A s \in Names : mNamedModels'[s] # noModel =>
              mNamedModels'[s] = mNamedModels[s] /\ mNamedModels[s] # mModels[k]
    PROVE  Node!NamesAttached'
<1>1. mModels \in Seq(Models) /\ DOMAIN mModels = 1 .. Len(mModels)
  BY LenProperties DEF NodeTypes
<1>2. \A i \in 1 .. Len(mModels) : i # k => mModels[i] \in Range(mModels')
  BY <1>1, RemoveAtProperties
<1>3. ASSUME NEW s \in Names, mNamedModels'[s] # noModel
      PROVE  mNamedModels'[s] \in Range(mModels')
  <2>1. mNamedModels'[s] = mNamedModels[s] /\ mNamedModels[s] # mModels[k]
    BY <1>3
  <2>2. mNamedModels[s] \in Range(mModels)
    BY <1>3, <2>1 DEF Node!NamesAttached, Range, Node!Range
  <2>3. PICK i \in 1 .. Len(mModels) : mModels[i] = mNamedModels[s]
    BY <1>1, <2>2 DEF Range
  <2> QED
    BY <1>2, <2>1, <2>3
<1> QED
  BY <1>3 DEF Node!NamesAttached, Range, Node!Range

\* A model with one name at most is left without a name.
LEMMA ForgetForgets ==
    ASSUME NodeTypes, NEW m, Node!Forget(m)
    PROVE  /\ mNamedModels' \in [Names -> Models \cup {noModel}]
           /\ Node!Simple /\ m # noModel =>
                \A s \in Names : mNamedModels'[s] # noModel =>
                   mNamedModels'[s] = mNamedModels[s] /\ mNamedModels[s] # m
<1> DEFINE names == {s \in Names : mNamedModels[s] = m}
<1>1. CASE names = {}
  BY <1>1 DEF Node!Forget, NodeTypes
<1>2. CASE names # {}
  <2>1. PICK s \in names : mNamedModels' = [mNamedModels EXCEPT ![s] = noModel]
    BY <1>2 DEF Node!Forget
  <2>2. mNamedModels' \in [Names -> Models \cup {noModel}]
    BY <2>1 DEF NodeTypes
  <2>3. ASSUME Node!Simple, m # noModel PROVE \A t \in Names : t # s => mNamedModels[t] # m
    BY <2>1, <2>3 DEF Node!Simple
  <2> QED
    BY <2>1, <2>2, <2>3 DEF NodeTypes
<1> QED
  BY <1>1, <1>2

LEMMA AttachKeeps ==
    ASSUME NodeTypes, NEW m \in Models, NEW name \in Names \cup {noName}, Node!Attach(m, name)
    PROVE  /\ NodeTypes'
           /\ Node!NamesAttached /\ ~failed => Node!NamesAttached' /\ ~failed'
<1>1. /\ mModels' = Append(mModels, m)
      /\ mNamedModels' = IF name = noName THEN mNamedModels ELSE [mNamedModels EXCEPT ![name] = m]
      /\ failed' = failed
  BY DEF Node!Attach
<1>2. mModels \in Seq(Models) /\ Len(mModels) \in Nat /\ DOMAIN mModels = 1 .. Len(mModels)
  BY LenProperties DEF NodeTypes
<1>3. /\ mModels' \in Seq(Models) /\ Len(mModels') = Len(mModels) + 1
      /\ \A i \in 1 .. Len(mModels) : mModels'[i] = mModels[i]
      /\ mModels'[Len(mModels) + 1] = m
  BY <1>1, <1>2, AppendProperties
<1>4. DOMAIN mModels' = 1 .. Len(mModels) + 1
  BY <1>3, LenProperties
<1>5. mNamedModels' \in [Names -> Models \cup {noModel}]
  BY <1>1 DEF NodeTypes
<1>6. ASSUME Node!NamesAttached, NEW s \in Names, mNamedModels'[s] # noModel
      PROVE  mNamedModels'[s] \in Range(mModels')
  <2>1. CASE mNamedModels'[s] = m
    <3>1. Len(mModels) + 1 \in DOMAIN mModels'
      BY <1>2, <1>4
    <3> QED
      BY <1>3, <2>1, <3>1 DEF Range
  <2>2. CASE mNamedModels'[s] # m
    <3>1. mNamedModels'[s] = mNamedModels[s]
      BY <1>1, <2>2 DEF NodeTypes
    <3>2. PICK i \in 1 .. Len(mModels) : mModels[i] = mNamedModels[s]
      BY <1>2, <1>6, <3>1 DEF Node!NamesAttached, Range, Node!Range
    <3>3. i \in DOMAIN mModels' /\ mModels'[i] = mNamedModels[s]
      BY <1>2, <1>3, <1>4, <3>2
    <3> QED
      BY <3>1, <3>3 DEF Range
  <2> QED
    BY <2>1, <2>2
<1>7. Node!NamesAttached => Node!NamesAttached'
  BY <1>6 DEF Node!NamesAttached, Range, Node!Range
<1> QED
  BY <1>1, <1>3, <1>5, <1>7 DEF NodeTypes

\* What the loop leaves of an array is an array of models, however often it cuts.
LEMMA RemoveAllType ==
    ASSUME NEW s \in Seq(Models), NEW m
    PROVE  Node!RemoveAll(s, m).ok => Node!RemoveAll(s, m).seq \in Seq(Models)
<1> DEFINE F(f) == [i \in 0 .. Len(s) |->
                      IF i = 0 THEN Node!Ok(s)
                      ELSE IF s[i] = m THEN Node!Cut(f[i - 1], i) ELSE f[i - 1]]
           after == CHOOSE f : f = F(f)
           R == {Node!Ok(t) : t \in Seq(Models)} \cup {Node!RangeError}
           G == [p \in Nat \X R |-> IF s[p[1]] = m /\ p[1] # 0 THEN Node!Cut(p[2], p[1]) ELSE p[2]]
<1>1. Len(s) \in Nat
  BY LenProperties
<1>2. Node!RemoveAll(s, m) = after[Len(s)]
  BY DEF Node!RemoveAll
<1>3. ASSUME NEW r \in R, NEW i \in Nat \ {0} PROVE Node!Cut(r, i) \in R
  <2>1. CASE r.ok /\ i <= Len(r.seq)
    <3>1. r.seq \in Seq(Models) /\ Len(r.seq) \in Nat
      BY <2>1, LenProperties DEF Node!Ok, Node!RangeError
    <3>2. i \in 1 .. Len(r.seq)
      BY <2>1, <3>1
    <3>3. Node!RemoveAt(r.seq, i) \in Seq(Models)
      BY <3>1, <3>2, RemoveAtProperties
    <3> QED
      BY <2>1, <3>3 DEF Node!Cut
  <2>2. CASE ~(r.ok /\ i <= Len(r.seq))
    BY <2>2 DEF Node!Cut
  <2> QED
    BY <2>1, <2>2
<1>4. Node!Ok(s) \in R
  OBVIOUS
<1> HIDE DEF R
<1>5. G \in [Nat \X R -> R]
  BY <1>3
<1> HIDE DEF G
<1>6. PICK g : Solves(g, Len(s), Node!Ok(s), G, R)
  BY <1>1, <1>4, <1>5, Recursion
<1>7. g = F(g)
  <2>1. ASSUME NEW i \in 0 .. Len(s), i # 0
        PROVE  g[i] = IF s[i] = m THEN Node!Cut(g[i - 1], i) ELSE g[i - 1]
    <3>1. i \in 1 .. Len(s) /\ i - 1 \in 0 .. Len(s) /\ i \in Nat
      BY <1>1, <2>1
    <3>2. g[i - 1] \in R /\ <<i, g[i - 1]>> \in Nat \X R
      BY <1>6, <3>1 DEF Solves
    <3> QED
      BY <1>6, <2>1, <3>1, <3>2 DEF G, Solves
  <2> QED
    BY <1>6, <2>1 DEF Solves
<1>8. after = F(after)
  BY <1>7
<1>9. \A i \in 0 .. Len(s) :
         after[i] = IF i = 0 THEN Node!Ok(s)
                    ELSE IF s[i] = m THEN Node!Cut(after[i - 1], i) ELSE after[i - 1]
  BY <1>8
<1> HIDE DEF F, after
<1> DEFINE T == {i \in Nat : i <= Len(s) => after[i] \in R}
<1>10. 0 \in T
  BY <1>1, <1>4, <1>9
<1>11. ASSUME NEW n \in Nat, n \in T PROVE n + 1 \in T
  <2>1. SUFFICES ASSUME n + 1 <= Len(s) PROVE after[n + 1] \in R
    OBVIOUS
  <2>2. n + 1 \in 0 .. Len(s) /\ n + 1 # 0 /\ (n + 1) - 1 = n /\ n <= Len(s) /\ n + 1 \in Nat \ {0}
    BY <1>1, <2>1
  <2>3. after[n] \in R
    BY <1>11, <2>2
  <2> QED
    BY <1>3, <1>9, <2>2, <2>3
<1> HIDE DEF T
<1>12. after[Len(s)] \in R
  <2>1. Nat \subseteq T
    BY <1>10, <1>11, Induction
  <2> QED
    BY <1>1, <2>1 DEF T
<1>13. Node!RemoveAll(s, m) \in R
  BY <1>2, <1>12 DEF after, F
<1> QED
  BY <1>13 DEF R, Node!Ok, Node!RangeError

LEMMA RemoveByNameKeeps ==
    ASSUME NodeTypes, NEW name \in Names, Node!RemoveByName(name)
    PROVE  /\ NodeTypes'
           /\ Node!Simple /\ Node!NamesAttached /\ ~failed => Node!NamesAttached' /\ ~failed'
<1> DEFINE m == mNamedModels[name]
           r == Node!RemoveAll(mModels, m)
<1>1. /\ ~failed /\ m # noModel
      /\ IF r.ok
         THEN /\ mModels' = r.seq
              /\ mNamedModels' = [mNamedModels EXCEPT ![name] = noModel]
              /\ failed' = failed
         ELSE failed' = TRUE /\ mModels' = mModels /\ mNamedModels' = mNamedModels
  BY DEF Node!RemoveByName
<1>2. mModels \in Seq(Models) /\ DOMAIN mModels = 1 .. Len(mModels)
  BY LenProperties DEF NodeTypes
<1>3. r.ok => r.seq \in Seq(Models)
  BY <1>2, RemoveAllType
<1>4. NodeTypes'
  <2>1. CASE r.ok
    <3>1. mModels' \in Seq(Models)
      BY <1>1, <1>3, <2>1
    <3>2. mNamedModels' \in [Names -> Models \cup {noModel}]
      BY <1>1, <2>1 DEF NodeTypes
    <3> QED
      BY <3>1, <3>2 DEF NodeTypes
  <2>2. CASE ~r.ok
    BY <1>1, <2>2 DEF NodeTypes
  <2> QED
    BY <2>1, <2>2
<1>5. ASSUME Node!Simple, Node!NamesAttached PROVE Node!NamesAttached' /\ ~failed'
  <2>1. PICK k \in 1 .. Len(mModels) : mModels[k] = m
    BY <1>1, <1>2, <1>5 DEF Node!NamesAttached, Range, Node!Range
  <2>2. \A i \in 1 .. Len(mModels) : mModels[i] = mModels[k] => i = k
    BY <1>2, <1>5 DEF Node!Simple, IsInjective, Node!IsInjective
  <2>3. r = Node!Ok(Node!RemoveAt(mModels, k))
    BY <1>2, <2>1, <2>2, RemoveAllOfOne
  <2>4. r.ok /\ r.seq = Node!RemoveAt(mModels, k)
    BY <2>3 DEF Node!Ok
  <2>5. mModels' = Node!RemoveAt(mModels, k) /\ failed' = failed
        /\ mNamedModels' = [mNamedModels EXCEPT ![name] = noModel]
    BY <1>1, <2>4
  <2>6. ASSUME NEW s \in Names, mNamedModels'[s] # noModel
        PROVE  mNamedModels'[s] = mNamedModels[s] /\ mNamedModels[s] # mModels[k]
    <3>1. s # name /\ mNamedModels'[s] = mNamedModels[s]
      BY <2>5, <2>6 DEF NodeTypes
    <3> QED
      BY <1>5, <2>1, <2>6, <3>1 DEF Node!Simple
  <2>7. Node!NamesAttached'
    BY <1>5, <2>5, <2>6, CutKeepsNames
  <2> QED
    BY <1>1, <2>5, <2>7, Zenon
<1> QED
  BY <1>4, <1>5

LEMMA RemoveByIndexKeeps ==
    ASSUME NodeTypes, NEW i \in 1 .. MaxModels, Node!RemoveByIndex(i)
    PROVE  /\ NodeTypes'
           /\ NullIsNoModel /\ Node!Simple /\ Node!NamesAttached /\ ~failed
                => Node!NamesAttached' /\ ~failed'
<1>1. /\ i \in DOMAIN mModels /\ Node!Forget(mModels[i]) /\ ~failed
      /\ mModels' = Node!RemoveAt(mModels, i) /\ failed' = failed
  BY DEF Node!RemoveByIndex
<1>2. mModels \in Seq(Models) /\ DOMAIN mModels = 1 .. Len(mModels)
  BY LenProperties DEF NodeTypes
<1>3. i \in 1 .. Len(mModels) /\ mModels[i] \in Models
  BY <1>1, <1>2, ElementOfSeq
<1>4. mNamedModels' \in [Names -> Models \cup {noModel}]
  BY <1>1, ForgetForgets
<1>5. mModels' \in Seq(Models)
  BY <1>1, <1>2, <1>3, RemoveAtProperties
<1>6. ASSUME NullIsNoModel, Node!Simple, Node!NamesAttached PROVE Node!NamesAttached'
  <2>1. mModels[i] # noModel
    BY <1>3, <1>6 DEF NullIsNoModel
  <2>2. \A s \in Names : mNamedModels'[s] # noModel =>
           mNamedModels'[s] = mNamedModels[s] /\ mNamedModels[s] # mModels[i]
    BY <1>1, <1>6, <2>1, ForgetForgets
  <2> QED
    BY <1>1, <1>3, <1>6, <2>2, CutKeepsNames
<1>7. ~failed'
  BY <1>1, Zenon
<1> QED
  BY <1>4, <1>5, <1>6, <1>7 DEF NodeTypes

\* removeModel(Model): the first occurrence is the one at some index.
LEMMA RemoveModelKeeps ==
    ASSUME NodeTypes, NEW m \in Models, Node!RemoveModel(m)
    PROVE  /\ NodeTypes'
           /\ NullIsNoModel /\ Node!Simple /\ Node!NamesAttached /\ ~failed
                => Node!NamesAttached' /\ ~failed'
<1>1. /\ m \in Range(mModels) /\ Node!Forget(m) /\ ~failed
      /\ mModels' = Node!RemoveFirst(mModels, m) /\ failed' = failed
  BY DEF Node!RemoveModel, Range, Node!Range
<1>2. mModels \in Seq(Models) /\ DOMAIN mModels = 1 .. Len(mModels)
  BY LenProperties DEF NodeTypes
<1>3. PICK k \in 1 .. Len(mModels) : mModels[k] = m /\ mModels' = Node!RemoveAt(mModels, k)
  <2> DEFINE I == {i \in 1 .. Len(mModels) : mModels[i] = m}
  <2>1. I # {} /\ I \in SUBSET Nat
    BY <1>1, <1>2 DEF Range
  <2>2. PICK k \in I : \A n \in I : k <= n
    BY <2>1, LeastNatural
  <2>3. Node!RemoveFirst(mModels, m) = Node!RemoveAt(mModels, Node!Min(I))
    BY <2>1 DEF Node!RemoveFirst, Node!SelectInSeq
  <2>4. Node!Min(I) \in I
    BY <2>2 DEF Node!Min
  <2> QED
    BY <1>1, <2>3, <2>4
<1>4. mNamedModels' \in [Names -> Models \cup {noModel}]
  BY <1>1, ForgetForgets
<1>5. mModels' \in Seq(Models)
  BY <1>2, <1>3, RemoveAtProperties
<1>6. ASSUME NullIsNoModel, Node!Simple, Node!NamesAttached PROVE Node!NamesAttached'
  <2>1. m # noModel
    BY <1>6 DEF NullIsNoModel
  <2>2. \A s \in Names : mNamedModels'[s] # noModel =>
           mNamedModels'[s] = mNamedModels[s] /\ mNamedModels[s] # mModels[k]
    BY <1>1, <1>3, <1>6, <2>1, ForgetForgets
  <2> QED
    BY <1>3, <1>6, <2>2, CutKeepsNames
<1>7. ~failed'
  BY <1>1, Zenon
<1> QED
  BY <1>4, <1>5, <1>6, <1>7 DEF NodeTypes

LEMMA NodeStep ==
    NodeTypes /\ [Node!Next]_(Node!vars) =>
      /\ NodeTypes'
      /\ NullIsNoModel /\ Node!Simple /\ Node!NamesAttached /\ ~failed
           => (Node!NamesAttached' /\ ~failed') \/ UNCHANGED Node!vars
<1> SUFFICES ASSUME NodeTypes, [Node!Next]_(Node!vars)
             PROVE  /\ NodeTypes'
                    /\ NullIsNoModel /\ Node!Simple /\ Node!NamesAttached /\ ~failed
                         => (Node!NamesAttached' /\ ~failed') \/ UNCHANGED Node!vars
  OBVIOUS
<1>1. CASE UNCHANGED Node!vars
  <2>1. NodeTypes'
    BY <1>1 DEF Node!vars, NodeTypes
  <2> QED
    BY <1>1, <2>1
<1>2. CASE Node!Next
  BY <1>2, AttachKeeps, RemoveByNameKeeps, RemoveByIndexKeeps, RemoveModelKeeps, Zenon DEF Node!Next
<1> QED
  BY <1>1, <1>2

\* As long as a model is attached once and has one name, none of the removals leaves
\* a name without its model or ends the program, for any models, names and lengths.
THEOREM NamesStay == Node!Spec => NamesStayAttached
<1>0. NullIsNoModel
  BY StructuresAssumption
<1>1. NodeTypes /\ [Node!Next]_(Node!vars) => NodeTypes'
  BY NodeStep
<1>2. NodeTypes /\ [Node!Next]_(Node!vars) =>
        [Node!Simple /\ Node!NamesAttached /\ ~failed
           => Node!NamesAttached' /\ ~failed']_(Node!vars)
  BY <1>0, NodeStep
<1> QED
  BY <1>1, <1>2, NodeInit, PTL DEF Node!Spec, NamesStayAttached, Node!NamesStayAttached

-----------------------------------------------------------------------------
(* The chunked array *)

\* Every chunk but the last is full.
Chunked(mem) ==
    /\ mem \in Seq(Seq(Int))
    /\ \A k \in 1 .. Len(mem) :
          Len(mem[k]) <= chunkSize /\ (k < Len(mem) => Len(mem[k]) = chunkSize)

ArrayInv == Chunked(mMem) /\ appended \in Nat

LEMMA Products ==
    ASSUME NEW c \in Nat
    PROVE  /\ 0 * c = 0
           /\ \A k \in Nat : k * c \in Nat /\ (k + 1) * c = k * c + c
           /\ \A j, k \in Nat : j <= k => j * c <= k * c
<1>1. \A k \in Nat : k * c \in Nat /\ (k + 1) * c = k * c + c
  OBVIOUS
<1>2. ASSUME NEW j \in Nat, NEW k \in Nat, j <= k PROVE j * c <= k * c
  <2>1. PICK d \in Nat : k = j + d
    <3>1. k - j \in Nat /\ k = j + (k - j)
      BY <1>2
    <3> QED
      BY <3>1
  <2>2. k * c = j * c + d * c /\ d * c \in Nat /\ j * c \in Nat
    BY <2>1
  <2> QED
    BY <2>2
<1> QED
  BY <1>1, <1>2

LEMMA DivSplits ==
    ASSUME NEW c \in Nat \ {0}, NEW i \in Nat
    PROVE  /\ i \div c \in Nat /\ i % c \in 0 .. c - 1
           /\ i = (i \div c) * c + (i % c)
<1>1. i % c \in 0 .. c - 1
  OBVIOUS
<1>2. i = c * (i \div c) + (i % c)
  OBVIOUS
<1>3. i \div c \in Int
  OBVIOUS
<1>4. i \div c \in Nat
  <2>1. PICK q \in Int, r \in 0 .. c - 1 : q = i \div c /\ i = c * q + r
    BY <1>1, <1>2, <1>3
  <2>2. q < 0 => c * q <= 0 - c
    <3>1. ASSUME q < 0 PROVE c * q <= 0 - c
      <4>1. PICK d \in Nat : q = 0 - (d + 1)
        <5>1. 0 - (q + 1) \in Nat /\ q = 0 - ((0 - (q + 1)) + 1)
          BY <3>1
        <5> QED
          BY <5>1
      <4>2. c * q = 0 - (c * d + c) /\ c * d \in Nat
        BY <4>1
      <4> QED
        BY <4>2
    <3> QED
      BY <3>1
  <2> QED
    BY <2>1, <2>2
<1> QED
  BY <1>1, <1>2, <1>4

LEMMA DivIs ==
    ASSUME NEW c \in Nat \ {0}, NEW q \in Nat, NEW r \in 0 .. c - 1
    PROVE  (q * c + r) \div c = q /\ (q * c + r) % c = r
<1>1. PICK p \in Nat : p = q * c
  BY Products
<1>2. PICK i \in Nat : i = p + r
  BY <1>1
<1>3. PICK d \in Nat, m \in 0 .. c - 1 : d = i \div c /\ m = i % c /\ i = d * c + m
  BY DivSplits
<1>4. PICK e \in Nat : e = d * c
  BY Products
<1>5. ~(d + 1 <= q)
  <2>1. d + 1 <= q => (d + 1) * c <= q * c
    BY Products
  <2>2. (d + 1) * c = d * c + c
    BY Products
  <2> QED
    BY <1>1, <1>2, <1>3, <1>4, <2>1, <2>2
<1>6. ~(q + 1 <= d)
  <2>1. q + 1 <= d => (q + 1) * c <= d * c
    BY Products
  <2>2. (q + 1) * c = q * c + c
    BY Products
  <2> QED
    BY <1>1, <1>2, <1>3, <1>4, <2>1, <2>2
<1>7. d = q
  BY <1>5, <1>6
<1>8. m = r
  BY <1>1, <1>2, <1>3, <1>4, <1>7
<1> QED
  BY <1>1, <1>2, <1>3, <1>7, <1>8

LEMMA SameFlatten == \A s : Chunks!FlattenSeq(s) = FlattenSeq(s)
BY DEF Chunks!FlattenSeq, FlattenSeq

\* Where the elements of the chunks lie in the array.
LaidOut(mem, all) ==
    /\ all \in Seq(Int)
    /\ mem = <<>> => all = <<>>
    /\ mem # <<>> => Len(all) = (Len(mem) - 1) * chunkSize + Len(mem[Len(mem)])
    /\ \A k \in 1 .. Len(mem) : \A r \in 1 .. Len(mem[k]) :
          all[(k - 1) * chunkSize + r] = mem[k][r]

LEMMA ChunksAreLaidOut ==
    ASSUME HaveRoom, NEW mem, Chunked(mem) PROVE LaidOut(mem, FlattenSeq(mem))
<1>1. PICK n \in Nat, c \in Nat :
        /\ n = Len(mem) /\ DOMAIN mem = 1 .. n /\ c = chunkSize
        /\ \A k \in 1 .. n : mem[k] \in Seq(Int)
  BY ElementOfSeq DEF HaveRoom, Chunked
<1>2. \A k \in 1 .. n : Len(mem[k]) \in Nat /\ Len(mem[k]) <= c /\ (k < n => Len(mem[k]) = c)
  BY <1>1 DEF Chunked
<1>3. PICK g : Flattens(g, mem, Int)
  BY FlattenSolves DEF Chunked
<1>4. g \in [0 .. n -> Seq(Int)] /\ g[0] = <<>> /\ \A k \in 1 .. n : g[k] = g[k - 1] \o mem[k]
  BY <1>1, <1>3 DEF Flattens
<1>5. FlattenSeq(mem) = g[n]
  BY <1>1, <1>3, FlattenIs DEF Chunked
<1> DEFINE Right(k) ==
              /\ Len(g[k]) = (k - 1) * c + Len(mem[k])
              /\ \A j \in 1 .. k : \A r \in 1 .. Len(mem[j]) : g[k][(j - 1) * c + r] = mem[j][r]
           T == {k \in Nat : k \in 1 .. n => Right(k)}
<1>6. 0 \in T
  OBVIOUS
<1>7. ASSUME NEW k \in Nat, k \in T PROVE k + 1 \in T
  <2> HIDE DEF Right
  <2> SUFFICES ASSUME k + 1 \in 1 .. n PROVE Right(k + 1)
    OBVIOUS
  <2> USE DEF Right
  <2>0. PICK left : left = g[k]
    BY Zenon
  <2>1. PICK tail : left = g[k] /\ tail = mem[k + 1]
    BY <2>0
  <2>2. k \in 0 .. n /\ (k + 1) - 1 = k
    OBVIOUS
  <2>3. left \in Seq(Int) /\ tail \in Seq(Int) /\ g[k + 1] = left \o tail
    BY <1>1, <1>4, <2>1, <2>2
  <2>4. PICK p \in Nat : p = k * c
    BY Products
  <2>5. Len(left) = p /\ \A j \in 1 .. k : \A r \in 1 .. Len(mem[j]) :
           left[(j - 1) * c + r] = mem[j][r] /\ (j - 1) * c + r \in 1 .. p
    <3>1. CASE k = 0
      BY <1>4, <2>1, <2>4, <3>1, Products
    <3>2. CASE k # 0
      <4>1. k \in 1 .. n /\ k < n /\ k - 1 \in Nat /\ (k - 1) + 1 = k
        BY <3>2
      <4>2. Right(k)
        BY <1>7, <4>1
      <4>3. Len(mem[k]) = c /\ (k - 1) * c \in Nat /\ k * c = (k - 1) * c + c
        BY <1>2, <4>1, Products
      <4>4. ASSUME NEW j \in 1 .. k, NEW r \in 1 .. Len(mem[j])
            PROVE  (j - 1) * c + r \in 1 .. p
        <5>1. j - 1 \in Nat /\ j - 1 <= k - 1 /\ j \in 1 .. n
          OBVIOUS
        <5>2. PICK a \in Nat, b \in Nat : a = (j - 1) * c /\ b = (k - 1) * c /\ a <= b
          BY <4>1, <5>1, Products
        <5>3. r \in Nat /\ 1 <= r /\ r <= c
          BY <1>2, <5>1
        <5> QED
          BY <2>4, <4>3, <5>2, <5>3
      <4> QED
        BY <2>1, <2>4, <4>2, <4>3, <4>4
    <3> QED
      BY <3>1, <3>2
  <2>6. PICK both : both = left \o tail
    OBVIOUS
  <2>7. /\ both \in Seq(Int) /\ Len(both) = p + Len(tail)
        /\ \A i \in 1 .. p + Len(tail) : both[i] = IF i <= p THEN left[i] ELSE tail[i - p]
    BY <2>3, <2>5, <2>6, ConcatProperties
  <2>8. ASSUME NEW j \in 1 .. k + 1, NEW r \in 1 .. Len(mem[j])
        PROVE  both[(j - 1) * c + r] = mem[j][r]
    <3>1. CASE j \in 1 .. k
      <4>1. PICK i \in 1 .. p : i = (j - 1) * c + r /\ left[i] = mem[j][r]
        BY <2>5, <3>1
      <4>2. i \in 1 .. p + Len(tail) /\ i <= p
        BY <2>3
      <4> QED
        BY <2>7, <4>1, <4>2
    <3>2. CASE j = k + 1
      <4>1. r \in 1 .. Len(tail) /\ (j - 1) * c + r = p + r
        BY <2>1, <2>2, <2>4, <3>2
      <4>2. p + r \in 1 .. p + Len(tail) /\ ~(p + r <= p) /\ (p + r) - p = r
        <5>1. PICK l \in Nat : l = Len(tail)
          BY <2>3
        <5>2. r \in 1 .. l
          BY <4>1, <5>1
        <5>3. p + r \in 1 .. p + l /\ ~(p + r <= p) /\ (p + r) - p = r
          BY <5>2
        <5> QED
          BY <5>1, <5>3
      <4> QED
        BY <2>1, <2>7, <3>2, <4>1, <4>2
    <3> QED
      BY <3>1, <3>2
  <2>9. Len(g[k + 1]) = ((k + 1) - 1) * c + Len(mem[k + 1])
    BY <2>1, <2>2, <2>3, <2>4, <2>6, <2>7
  <2> QED
    BY <2>3, <2>6, <2>8, <2>9
<1>8. \A k \in Nat : k \in T
  <2> HIDE DEF T
  <2> QED
    BY <1>6, <1>7, Induction
<1>9. CASE n = 0
  <2>1. mem = <<>> /\ g[n] = <<>>
    BY <1>1, <1>4, <1>9, EmptySeq DEF Chunked
  <2> QED
    BY <1>1, <1>5, <1>9, <2>1 DEF LaidOut
<1>10. CASE n # 0
  <2>1. n \in 1 .. n /\ Right(n)
    <3>1. n \in T
      BY <1>8
    <3>2. n \in 1 .. n => Right(n)
      BY <3>1
    <3>3. n \in 1 .. n
      BY <1>10
    <3> QED
      BY <3>2, <3>3
  <2>2. mem # <<>>
    BY <1>1, <1>10
  <2>3. PICK all \in Seq(Int) : all = g[n]
    BY <1>4
  <2> QED
    BY <1>1, <1>5, <2>1, <2>2, <2>3 DEF LaidOut
<1> QED
  BY <1>9, <1>10

\* A chunk put behind full ones follows them in the array.
LEMMA AppendChunk ==
    ASSUME HaveRoom, NEW mem, Chunked(mem), NEW chunk \in Seq(Int), Len(chunk) <= chunkSize,
           mem # <<>> => Len(mem[Len(mem)]) = chunkSize
    PROVE  /\ Chunked(Append(mem, chunk))
           /\ FlattenSeq(Append(mem, chunk)) = FlattenSeq(mem) \o chunk
<1>1. PICK n \in Nat : n = Len(mem) /\ DOMAIN mem = 1 .. n /\ mem \in Seq(Seq(Int))
  BY DEF Chunked
<1>2. PICK longer : longer = Append(mem, chunk)
  OBVIOUS
<1>3. /\ longer \in Seq(Seq(Int)) /\ Len(longer) = n + 1
      /\ \A k \in 1 .. n : longer[k] = mem[k]
      /\ longer[n + 1] = chunk
  BY <1>1, <1>2, AppendProperties
<1>4. Chunked(longer)
  <2>1. \A k \in 1 .. n : Len(mem[k]) <= chunkSize /\ (k < n => Len(mem[k]) = chunkSize)
    BY <1>1 DEF Chunked
  <2>2. n # 0 => Len(mem[n]) = chunkSize
    BY <1>1, EmptySeq
  <2>3. ASSUME NEW k \in 1 .. n + 1
        PROVE  Len(longer[k]) <= chunkSize /\ (k < n + 1 => Len(longer[k]) = chunkSize)
    <3>1. CASE k = n + 1
      BY <1>3, <3>1
    <3>2. CASE k # n + 1
      <4>1. k \in 1 .. n /\ (k = n \/ k < n)
        BY <3>2
      <4>2. longer[k] = mem[k] /\ Len(mem[k]) <= chunkSize
        BY <1>3, <2>1, <4>1
      <4>3. Len(mem[k]) = chunkSize
        BY <2>1, <2>2, <4>1
      <4> QED
        BY <4>2, <4>3
    <3> QED
      BY <3>1, <3>2
  <2> QED
    BY <1>3, <2>3 DEF Chunked
<1>5. PICK g : Flattens(g, mem, Int)
  BY <1>1, FlattenSolves
<1>6. g \in [0 .. n -> Seq(Int)] /\ g[0] = <<>> /\ \A k \in 1 .. n : g[k] = g[k - 1] \o mem[k]
  BY <1>1, <1>5 DEF Flattens
<1>7. FlattenSeq(mem) = g[n]
  BY <1>1, <1>5, FlattenIs
<1> DEFINE h == [k \in 0 .. n + 1 |-> IF k = n + 1 THEN g[n] \o chunk ELSE g[k]]
<1>8. Flattens(h, longer, Int)
  <2>1. g[n] \o chunk \in Seq(Int)
    BY <1>6, ConcatProperties
  <2>2. h \in [0 .. n + 1 -> Seq(Int)]
    <3>1. ASSUME NEW k \in 0 .. n + 1 PROVE h[k] \in Seq(Int)
      <4>1. CASE k = n + 1
        BY <2>1, <4>1
      <4>2. CASE k # n + 1
        BY <1>6, <4>2
      <4> QED
        BY <4>1, <4>2
    <3> QED
      BY <3>1
  <2>3. h[0] = <<>>
    BY <1>6
  <2>4. ASSUME NEW k \in 1 .. n + 1 PROVE h[k] = h[k - 1] \o longer[k]
    <3>1. CASE k = n + 1
      <4>1. k - 1 = n /\ n \in 0 .. n + 1 /\ n # n + 1 /\ k \in 0 .. n + 1
        BY <3>1
      <4>2. h[k] = g[n] \o chunk /\ h[k - 1] = g[n]
        BY <3>1, <4>1
      <4> QED
        BY <1>3, <3>1, <4>2
    <3>2. CASE k # n + 1
      <4>1. k \in 1 .. n /\ k - 1 # n + 1 /\ k - 1 \in 0 .. n + 1
        BY <3>2
      <4>2. h[k] = g[k] /\ h[k - 1] = g[k - 1] /\ longer[k] = mem[k]
        BY <1>3, <4>1
      <4> QED
        BY <1>6, <4>1, <4>2
    <3> QED
      BY <3>1, <3>2
  <2> HIDE DEF h
  <2> QED
    BY <1>3, <2>2, <2>3, <2>4 DEF Flattens
<1>9. h[n + 1] = g[n] \o chunk
  OBVIOUS
<1>10. FlattenSeq(longer) = h[n + 1]
  <2> HIDE DEF h
  <2> QED
    BY <1>3, <1>8, FlattenIs
<1> QED
  BY <1>2, <1>4, <1>7, <1>9, <1>10

\* What is added to the last chunk is added to the array.
LastGrows(longer, mem, tail) ==
    /\ Chunked(longer) /\ Len(longer) = Len(mem)
    /\ Len(longer[Len(mem)]) = Len(mem[Len(mem)]) + Len(tail)
    /\ FlattenSeq(longer) = FlattenSeq(mem) \o tail

LEMMA ReplaceLast ==
    ASSUME HaveRoom, NEW mem, Chunked(mem), mem # <<>>, NEW tail \in Seq(Int),
           Len(mem[Len(mem)]) + Len(tail) <= chunkSize
    PROVE  LastGrows([mem EXCEPT ![Len(mem)] = mem[Len(mem)] \o tail], mem, tail)
<1>1. PICK n \in Nat : n = Len(mem) /\ DOMAIN mem = 1 .. n /\ mem \in Seq(Seq(Int)) /\ n # 0
  BY EmptySeq DEF Chunked
<1>2. PICK last : last = mem[n]
  OBVIOUS
<1>3. last \in Seq(Int) /\ n \in 1 .. n
  BY <1>1, <1>2, ElementOfSeq
<1>4. PICK both : both = last \o tail
  OBVIOUS
<1>5. both \in Seq(Int) /\ Len(both) = Len(last) + Len(tail)
  BY <1>3, <1>4, ConcatProperties
<1>6. PICK longer : longer = [mem EXCEPT ![n] = both]
  OBVIOUS
<1>7. /\ longer \in Seq(Seq(Int)) /\ Len(longer) = n
      /\ \A k \in 1 .. n : k # n => longer[k] = mem[k]
      /\ longer[n] = both
  <2>1. longer \in [1 .. n -> Seq(Int)]
    <3>1. mem \in [1 .. n -> Seq(Int)]
      BY <1>1
    <3> QED
      BY <1>5, <1>6, <3>1
  <2>2. longer \in Seq(Seq(Int)) /\ Len(longer) = n
    BY <2>1
  <2> QED
    BY <1>1, <1>3, <1>6, <2>2
<1>8. Chunked(longer)
  <2>1. \A k \in 1 .. n : Len(mem[k]) <= chunkSize /\ (k < n => Len(mem[k]) = chunkSize)
    BY <1>1 DEF Chunked
  <2>2. Len(both) <= chunkSize
    BY <1>1, <1>2, <1>5
  <2>3. ASSUME NEW k \in 1 .. n
        PROVE  Len(longer[k]) <= chunkSize /\ (k < n => Len(longer[k]) = chunkSize)
    <3>1. CASE k = n
      BY <1>7, <2>2, <3>1
    <3>2. CASE k # n
      <4>1. longer[k] = mem[k] /\ k < n
        BY <1>7, <3>2
      <4> QED
        BY <2>1, <4>1
    <3> QED
      BY <3>1, <3>2
  <2> QED
    BY <1>7, <2>3 DEF Chunked
<1>9. PICK g : Flattens(g, mem, Int)
  BY <1>1, FlattenSolves
<1>10. g \in [0 .. n -> Seq(Int)] /\ g[0] = <<>> /\ \A k \in 1 .. n : g[k] = g[k - 1] \o mem[k]
  BY <1>1, <1>9 DEF Flattens
<1>11. FlattenSeq(mem) = g[n]
  BY <1>1, <1>9, FlattenIs
<1> DEFINE h == [k \in 0 .. n |-> IF k = n THEN g[n] \o tail ELSE g[k]]
<1>12. Flattens(h, longer, Int)
  <2>1. g[n] \o tail \in Seq(Int)
    BY <1>10, ConcatProperties
  <2>2. h \in [0 .. n -> Seq(Int)]
    BY <1>10, <2>1
  <2>3. h[0] = <<>>
    BY <1>1, <1>10
  <2>4. ASSUME NEW k \in 1 .. n PROVE h[k] = h[k - 1] \o longer[k]
    <3>1. CASE k = n
      <4>1. n - 1 \in 0 .. n /\ n - 1 # n
        BY <1>1
      <4>2. h[n - 1] = g[n - 1] /\ h[n] = g[n] \o tail /\ longer[n] = last \o tail
        <5>1. n \in 0 .. n
          BY <1>1
        <5>2. h[n - 1] = g[n - 1] /\ h[n] = g[n] \o tail
          BY <4>1, <5>1
        <5> QED
          BY <1>4, <1>7, <5>2
      <4>3. g[n] = g[n - 1] \o last
        BY <1>2, <1>3, <1>10
      <4>4. PICK front \in Seq(Int) : front = g[n - 1]
        BY <1>10, <4>1
      <4>5. (front \o last) \o tail = front \o (last \o tail)
        <5>1. last \in Seq(Int)
          BY <1>3
        <5> HIDE DEF h
        <5> QED
          BY <5>1, SMTT(30)
      <4> QED
        BY <3>1, <4>2, <4>3, <4>4, <4>5
    <3>2. CASE k # n
      <4>1. k \in 1 .. n /\ k - 1 # n /\ k - 1 \in 0 .. n /\ k \in 0 .. n
        BY <3>2
      <4>2. h[k] = g[k] /\ h[k - 1] = g[k - 1] /\ longer[k] = mem[k]
        BY <1>7, <3>2, <4>1
      <4> QED
        BY <1>10, <4>2
    <3> QED
      BY <3>1, <3>2
  <2> HIDE DEF h
  <2> QED
    BY <1>7, <2>2, <2>3, <2>4 DEF Flattens
<1>13. h[n] = g[n] \o tail
  OBVIOUS
<1>14. FlattenSeq(longer) = h[n]
  <2> HIDE DEF h
  <2> QED
    BY <1>7, <1>12, FlattenIs
<1>15. Len(longer[n]) = Len(mem[n]) + Len(tail)
  BY <1>2, <1>5, <1>7
<1> QED
  BY <1>1, <1>2, <1>4, <1>6, <1>7, <1>8, <1>11, <1>13, <1>14, <1>15 DEF LastGrows

\* The chunk opOpAssign begins with is the last one, or if that is full the next.
Reached(mem, all, x, space) ==
    \/ /\ x = Len(mem) /\ space = chunkSize
       /\ mem # <<>> => Len(mem[Len(mem)]) = chunkSize
    \/ /\ mem # <<>> /\ x = Len(mem) - 1
       /\ space \in Nat /\ space > 0 /\ Len(mem[Len(mem)]) + space = chunkSize

LEMMA LastIsReached ==
    ASSUME HaveRoom, NEW mem, Chunked(mem), NEW all, all = FlattenSeq(mem)
    PROVE  Reached(mem, all, Len(all) \div chunkSize, chunkSize - (Len(all) % chunkSize))
<1>1. PICK n \in Nat, c \in Nat \ {0} : n = Len(mem) /\ c = chunkSize
  BY DEF HaveRoom, Chunked
<1>2. LaidOut(mem, all)
  BY ChunksAreLaidOut
<1>3. CASE n = 0
  <2>1. mem = <<>> /\ all = <<>>
    BY <1>1, <1>2, <1>3, EmptySeq DEF LaidOut, Chunked
  <2>2. Len(all) = 0 * c + 0
    BY <2>1
  <2>3. Len(all) \div c = 0 /\ Len(all) % c = 0
    <3>1. 0 \in Nat /\ 0 \in 0 .. c - 1
      OBVIOUS
    <3> QED
      BY <2>2, <3>1, DivIs
  <2> QED
    BY <1>1, <1>3, <2>1, <2>3 DEF Reached
<1>4. CASE n # 0
  <2>1. mem # <<>>
    BY <1>1, <1>4
  <2>2. PICK r \in Nat : r = Len(mem[n]) /\ r <= c
    <3>1. n \in 1 .. n
      BY <1>4
    <3>2. mem[n] \in Seq(Int)
      BY <1>1, <3>1, ElementOfSeq DEF Chunked
    <3> QED
      BY <1>1, <3>1, <3>2 DEF Chunked
  <2>3. Len(all) = (n - 1) * c + r
    BY <1>1, <1>2, <2>1, <2>2 DEF LaidOut
  <2>4. CASE r < c
    <3>1. n - 1 \in Nat /\ r \in 0 .. c - 1
      BY <1>4, <2>4
    <3>2. PICK q \in Nat : q = n - 1
      BY <3>1
    <3>3. Len(all) = q * c + r
      BY <2>3, <3>2
    <3>4. (q * c + r) \div c = q /\ (q * c + r) % c = r
      BY <3>1, DivIs
    <3>5. Len(all) \div c = n - 1 /\ Len(all) % c = r
      BY <3>2, <3>3, <3>4
    <3> QED
      BY <1>1, <2>1, <2>2, <2>4, <3>5 DEF Reached
  <2>5. CASE r = c
    <3>1. n - 1 \in Nat /\ (n - 1) + 1 = n
      BY <1>4
    <3>2. n * c = (n - 1) * c + c /\ (n - 1) * c \in Nat
      BY <3>1, Products
    <3>3. Len(all) = n * c + 0
      BY <2>3, <2>5, <3>2
    <3>4. 0 \in 0 .. c - 1
      OBVIOUS
    <3>5. Len(all) \div c = n /\ Len(all) % c = 0
      BY <3>3, <3>4, DivIs
    <3> QED
      BY <1>1, <2>2, <2>5, <3>5 DEF Reached
  <2> QED
    BY <2>2, <2>4, <2>5
<1> QED
  BY <1>3, <1>4

\* What fits the chunk begun with is added to the array; if it fills it, the next
\* chunk is the one after all of them.
Extends(longer, mem, x, tail, space) ==
    /\ Chunked(longer) /\ FlattenSeq(longer) = FlattenSeq(mem) \o tail
    /\ Len(tail) = space =>
          longer # <<>> /\ Len(longer) = x + 1 /\ Len(longer[Len(longer)]) = chunkSize

LEMMA FittingIsAdded ==
    ASSUME HaveRoom, NEW mem, Chunked(mem), NEW tail \in Seq(Int), NEW x, NEW space,
           Reached(mem, FlattenSeq(mem), x, space), Len(tail) <= space
    PROVE  Extends(Chunks!Put(mem, x, Chunks!Chunk(mem, x) \o tail), mem, x, tail, space)
<1>1. PICK n \in Nat : n = Len(mem) /\ DOMAIN mem = 1 .. n /\ mem \in Seq(Seq(Int))
  BY DEF Chunked
<1>2. CASE x = n /\ space = chunkSize /\ (mem # <<>> => Len(mem[n]) = chunkSize)
  <2>1. Chunks!Chunk(mem, x) \o tail = tail
    <3>1. Chunks!Chunk(mem, x) = <<>>
      BY <1>1, <1>2 DEF Chunks!Chunk
    <3> QED
      BY <3>1, ConcatEmptySeq
  <2>2. Chunks!Put(mem, x, tail) = Append(mem, tail)
    BY <1>1, <1>2 DEF Chunks!Put
  <2>3. PICK longer : longer = Append(mem, tail)
    OBVIOUS
  <2>4. Chunked(longer) /\ FlattenSeq(longer) = FlattenSeq(mem) \o tail
    BY <1>1, <1>2, <2>3, AppendChunk
  <2>5. Len(longer) = n + 1 /\ longer[n + 1] = tail /\ longer # <<>>
    BY <1>1, <2>3, AppendProperties
  <2> QED
    BY <1>2, <2>1, <2>2, <2>3, <2>4, <2>5 DEF Extends
<1>3. CASE /\ mem # <<>> /\ x = n - 1
           /\ space \in Nat /\ space > 0 /\ Len(mem[n]) + space = chunkSize
  <2>1. n \in 1 .. n /\ x < n /\ x + 1 = n
    BY <1>1, <1>3, EmptySeq
  <2>2. PICK last \in Seq(Int) : last = mem[n]
    BY <1>1, <2>1, ElementOfSeq
  <2>3. PICK longer : longer = [mem EXCEPT ![n] = mem[n] \o tail]
    OBVIOUS
  <2>4. Chunks!Put(mem, x, Chunks!Chunk(mem, x) \o tail) = longer
    BY <1>1, <2>1, <2>3 DEF Chunks!Put, Chunks!Chunk
  <2>5. PICK l \in Nat, t \in Nat, s \in Nat : l = Len(last) /\ t = Len(tail) /\ s = space
    BY <1>3
  <2>6. l + t <= chunkSize /\ (t = s => l + t = chunkSize)
    <3>1. chunkSize \in Nat
      BY DEF HaveRoom
    <3>2. l + s = chunkSize /\ t <= s
      BY <1>3, <2>2, <2>5
    <3> QED
      BY <3>1, <3>2
  <2>7. /\ Chunked(longer) /\ Len(longer) = n /\ Len(longer[n]) = l + t
        /\ FlattenSeq(longer) = FlattenSeq(mem) \o tail
    <3>1. Len(mem[Len(mem)]) + Len(tail) <= chunkSize
      BY <1>1, <2>2, <2>5, <2>6
    <3> QED
      <4>1. longer = [mem EXCEPT ![Len(mem)] = mem[Len(mem)] \o tail]
        BY <1>1, <2>3
      <4>2. mem # <<>>
        BY <1>3
      <4>3. LastGrows([mem EXCEPT ![Len(mem)] = mem[Len(mem)] \o tail], mem, tail)
        BY <3>1, <4>2, ReplaceLast
      <4>4. LastGrows(longer, mem, tail)
        BY <4>1, <4>3
      <4> QED
        BY <1>1, <2>2, <2>5, <4>4 DEF LastGrows
  <2>8. longer # <<>>
    BY <2>1, <2>7
  <2> QED
    BY <2>1, <2>4, <2>5, <2>6, <2>7, <2>8 DEF Extends
<1> QED
  BY <1>1, <1>2, <1>3 DEF Reached

\* The rest of an array, and a beginning of one long enough.
LEMMA RestIs ==
    ASSUME NEW array \in Seq(Int), NEW from \in Nat
    PROVE  /\ Chunks!Rest(array, from) \in Seq(Int)
           /\ Len(Chunks!Rest(array, from)) = IF from <= Len(array) THEN Len(array) - from ELSE 0
<1>1. PICK n \in Nat : n = Len(array) /\ \A i \in 1 .. n : array[i] \in Int
  BY ElementOfSeq
<1>2. PICK a \in Int : a = from + 1
  OBVIOUS
<1>3. \A i \in a .. n : array[i] \in Int
  BY <1>1, <1>2
<1>4. /\ SubSeq(array, a, n) \in Seq(Int)
      /\ Len(SubSeq(array, a, n)) = IF a <= n THEN n - a + 1 ELSE 0
  BY <1>1, <1>3, SubSeqProperties
<1>5. Chunks!Rest(array, from) = SubSeq(array, a, n)
  BY <1>1, <1>2 DEF Chunks!Rest
<1> QED
  BY <1>1, <1>2, <1>4, <1>5

LEMMA FirstIs ==
    ASSUME NEW array \in Seq(Int), NEW l \in Nat, l <= Len(array)
    PROVE  Chunks!First(array, l) \in Seq(Int) /\ Len(Chunks!First(array, l)) = l
<1>1. PICK n \in Nat : n = Len(array) /\ \A i \in 1 .. n : array[i] \in Int
  BY ElementOfSeq
<1>2. 1 \in Int /\ l \in Int /\ \A i \in 1 .. l : array[i] \in Int
  BY <1>1
<1>3. /\ SubSeq(array, 1, l) \in Seq(Int)
      /\ Len(SubSeq(array, 1, l)) = IF 1 <= l THEN l - 1 + 1 ELSE 0
  BY <1>2, SubSeqProperties
<1> QED
  BY <1>3 DEF Chunks!First

LEMMA NextChunk ==
    ASSUME HaveRoom, NEW mem, Chunked(mem), NEW chunk \in Seq(Int), Len(chunk) <= chunkSize,
           mem # <<>> => Len(mem[Len(mem)]) = chunkSize
    PROVE  Chunked(Chunks!Put(mem, Len(mem), chunk))
<1>1. Len(mem) \in Nat
  BY DEF Chunked
<1>2. Chunks!Put(mem, Len(mem), chunk) = Append(mem, chunk)
  BY <1>1 DEF Chunks!Put
<1> QED
  BY <1>2, AppendChunk

\* Whatever the loop loses, the chunk it leaves is no longer than a chunk.
LEMMA LoopKeeps ==
    ASSUME HaveRoom, NEW mem, Chunked(mem), NEW array \in Seq(Int),
           mem # <<>> => Len(mem[Len(mem)]) = chunkSize
    PROVE  Chunked(Chunks!Loop(mem, Len(mem), array))
<1>1. PICK n \in Nat, c \in Nat \ {0}, d \in Nat \ {0} :
         n = Len(array) /\ c = chunkSize /\ d = c + 1
  BY DEF HaveRoom
<1>2. PICK turns \in Nat, r \in 0 .. c :
         turns = n \div d /\ n = turns * d + r
  <2>1. n \div d \in Nat /\ n % d \in 0 .. d - 1 /\ n = (n \div d) * d + (n % d)
    BY DivSplits
  <2>2. d - 1 = c
    BY <1>1
  <2>3. n % d \in 0 .. c
    BY <2>1, <2>2
  <2> QED
    BY <2>1, <2>3
<1>3. PICK p \in Nat : p = turns * d /\ p <= n /\ n - p = r
  <2>1. turns * d \in Nat
    BY Products
  <2> QED
    BY <1>2, <2>1
<1>4. PICK left \in Seq(Int) : left = Chunks!Rest(array, p) /\ Len(left) = r
  BY <1>1, <1>3, RestIs
<1>5. turns = Len(array) \div (chunkSize + 1) /\ left = Chunks!Rest(array, turns * (chunkSize + 1))
  BY <1>1, <1>2, <1>3, <1>4
<1>6. CASE array = <<>>
  BY <1>6 DEF Chunks!Loop
<1>7. CASE array # <<>> /\ left # <<>>
  <2>1. Chunks!Loop(mem, Len(mem), array) = Chunks!Put(mem, Len(mem), left)
    BY <1>5, <1>7 DEF Chunks!Loop
  <2>2. Len(left) <= chunkSize
    BY <1>1, <1>2, <1>4
  <2> QED
    BY <2>1, <2>2, NextChunk
<1>8. CASE array # <<>> /\ left = <<>>
  <2>1. r = 0 /\ n # 0 /\ p = n
    <3>1. Len(left) = 0
      BY <1>8
    <3>2. n # 0
      BY <1>1, <1>8, EmptySeq
    <3> QED
      BY <1>3, <1>4, <3>1, <3>2
  <2>2. turns - 1 \in Nat /\ (turns - 1) + 1 = turns
    <3>1. turns # 0
      BY <1>3, <2>1, Products
    <3> QED
      BY <3>1
  <2>3. PICK q \in Nat : q = (turns - 1) * d /\ p = q + d
    BY <1>3, <2>2, Products
  <2>4. PICK lastOnes \in Seq(Int) : lastOnes = Chunks!Rest(array, q) /\ Len(lastOnes) = d
    <3>1. Chunks!Rest(array, q) \in Seq(Int) /\ Len(Chunks!Rest(array, q)) = n - q
      <4>1. q <= n
        BY <2>1, <2>3
      <4> QED
        BY <1>1, <4>1, RestIs
    <3>2. n - q = d
      BY <2>1, <2>3
    <3> QED
      BY <3>1, <3>2
  <2>5. PICK chunk \in Seq(Int) : chunk = Chunks!First(lastOnes, c) /\ Len(chunk) = c
    BY <1>1, <2>4, FirstIs
  <2>6. chunk = Chunks!First(Chunks!Rest(array, (turns - 1) * (chunkSize + 1)), chunkSize)
    BY <1>1, <2>3, <2>4, <2>5
  <2>7. Chunks!Loop(mem, Len(mem), array) = Chunks!Put(mem, Len(mem), chunk)
    BY <1>5, <1>8, <2>6 DEF Chunks!Loop
  <2>8. Len(chunk) <= chunkSize
    BY <1>1, <2>5
  <2> QED
    BY <2>7, <2>8, NextChunk
<1> QED
  BY <1>6, <1>7, <1>8

LEMMA ConcatKeeps ==
    ASSUME HaveRoom, NEW mem, Chunked(mem), NEW array \in Seq(Int)
    PROVE  /\ Chunked(Chunks!Concat(mem, array))
           /\ Len(array) <= chunkSize - (Len(FlattenSeq(mem)) % chunkSize) =>
                 FlattenSeq(Chunks!Concat(mem, array)) = FlattenSeq(mem) \o array
<1>1. PICK all : all = FlattenSeq(mem) /\ all = Chunks!FlattenSeq(mem)
  BY SameFlatten
<1>2. PICK x, space : x = Len(all) \div chunkSize /\ space = chunkSize - (Len(all) % chunkSize)
  OBVIOUS
<1>3. Reached(mem, FlattenSeq(mem), x, space)
  BY <1>1, <1>2, LastIsReached
<1>4. PICK s \in Nat, n \in Nat, c \in Nat \ {0} :
         s = space /\ n = Len(array) /\ c = chunkSize
  BY <1>3 DEF Reached, HaveRoom
<1>5. CASE n <= s
  <2>1. Chunks!Concat(mem, array) = Chunks!Put(mem, x, Chunks!Chunk(mem, x) \o array)
    BY <1>1, <1>2, <1>4, <1>5 DEF Chunks!Concat
  <2>2. Extends(Chunks!Put(mem, x, Chunks!Chunk(mem, x) \o array), mem, x, array, space)
    BY <1>3, <1>4, <1>5, FittingIsAdded
  <2> QED
    BY <2>1, <2>2 DEF Extends
<1>6. CASE ~(n <= s)
  <2>1. PICK front \in Seq(Int) : front = Chunks!First(array, space) /\ Len(front) = s
    BY <1>4, <1>6, FirstIs
  <2>2. PICK head : head = Chunks!Put(mem, x, Chunks!Chunk(mem, x) \o front)
    OBVIOUS
  <2>3. Extends(head, mem, x, front, space)
    BY <1>3, <1>4, <2>1, <2>2, FittingIsAdded
  <2>4. Chunked(head) /\ Len(head) = x + 1 /\ Len(head[Len(head)]) = chunkSize
    BY <1>4, <2>1, <2>3 DEF Extends
  <2>5. PICK left \in Seq(Int) :
           left = Chunks!Rest(array, space + 1) /\ Len(left) = n - (s + 1)
    <3>1. s + 1 \in Nat /\ s + 1 <= n
      BY <1>6
    <3> QED
      BY <1>4, <3>1, RestIs
  <2>6. CASE n <= c
    <3>1. Chunks!Concat(mem, array) = Chunks!Put(head, Len(head), left)
      BY <1>1, <1>2, <1>4, <1>6, <2>1, <2>2, <2>4, <2>5, <2>6 DEF Chunks!Concat
    <3>2. Len(left) <= chunkSize
      BY <1>4, <2>5, <2>6
    <3>3. Chunked(Chunks!Put(head, Len(head), left))
      BY <2>4, <3>2, NextChunk
    <3> QED
      BY <1>1, <1>2, <1>4, <1>6, <3>1, <3>3
  <2>7. CASE ~(n <= c)
    <3>1. Chunks!Concat(mem, array) = Chunks!Loop(head, Len(head), left)
      BY <1>1, <1>2, <1>4, <1>6, <2>1, <2>2, <2>4, <2>5, <2>7 DEF Chunks!Concat
    <3>2. Chunked(Chunks!Loop(head, Len(head), left))
      BY <2>4, LoopKeeps
    <3> QED
      BY <1>1, <1>2, <1>4, <1>6, <3>1, <3>2
  <2> QED
    BY <2>6, <2>7
<1> QED
  BY <1>5, <1>6

-----------------------------------------------------------------------------
\* An index, and where it is among the chunks.
LEMMA Located ==
    ASSUME HaveRoom, NEW mem, Chunked(mem), NEW all, LaidOut(mem, all),
           NEW i \in Nat, i < Len(all)
    PROVE  /\ i \div chunkSize \in 0 .. Len(mem) - 1
           /\ i % chunkSize < Len(mem[(i \div chunkSize) + 1])
           /\ i = (i \div chunkSize) * chunkSize + (i % chunkSize)
           /\ i % chunkSize \in 0 .. chunkSize - 1
<1>1. PICK n \in Nat, c \in Nat \ {0} : n = Len(mem) /\ c = chunkSize
  BY DEF HaveRoom, Chunked
<1>2. PICK q \in Nat, r \in 0 .. c - 1 :
         q = i \div c /\ r = i % c /\ i = q * c + r
  BY DivSplits
<1>3. mem # <<>> /\ n # 0
  <2>1. mem = <<>> => FALSE
    BY DEF LaidOut
  <2> QED
    BY <1>1, <2>1, EmptySeq DEF Chunked
<1>4. PICK l \in Nat : l = Len(mem[n]) /\ l <= c /\ \A k \in 1 .. n : k < n => Len(mem[k]) = c
  <2>1. n \in 1 .. n
    BY <1>3
  <2>2. mem[n] \in Seq(Int)
    BY <1>1, <2>1, ElementOfSeq DEF Chunked
  <2> QED
    BY <1>1, <2>1, <2>2 DEF Chunked
<1>5. n - 1 \in Nat /\ i < (n - 1) * c + l
  <2>1. n - 1 \in Nat
    BY <1>3
  <2>2. Len(all) = (n - 1) * c + l
    BY <1>1, <1>3, <1>4 DEF LaidOut
  <2> QED
    BY <2>1, <2>2
<1>6. q < n
  <2>1. ~(n <= q)
    <3>1. n <= q => n * c <= q * c
      BY Products
    <3>2. (n - 1) + 1 = n
      BY <1>5
    <3>3. n * c = (n - 1) * c + c /\ (n - 1) * c \in Nat /\ n * c \in Nat /\ q * c \in Nat
      BY <1>5, <3>2, Products
    <3>4. PICK u \in Nat, v \in Nat, w \in Nat :
             u = (n - 1) * c /\ v = n * c /\ w = q * c /\ v = u + c
      BY <3>3
    <3>5. i < u + l /\ i = w + r
      BY <1>2, <1>5, <3>4
    <3>6. n <= q => v <= w
      BY <3>1, <3>4
    <3>7. l <= c /\ 0 <= r
      BY <1>4
    <3> QED
      BY <3>4, <3>5, <3>6, <3>7
  <2> QED
    BY <2>1
<1>7. r < Len(mem[q + 1])
  <2>1. CASE q + 1 < n
    <3>1. Len(mem[q + 1]) = c
      BY <1>4, <2>1
    <3> QED
      BY <3>1
  <2>2. CASE ~(q + 1 < n)
    <3>1. q = n - 1 /\ q + 1 = n
      BY <1>6, <2>2
    <3>2. PICK p \in Nat : p = q * c
      BY Products
    <3>3. p + r < p + l
      BY <1>2, <1>5, <3>1, <3>2
    <3>4. r < l
      BY <3>3
    <3> QED
      BY <1>4, <3>1, <3>4
  <2> QED
    BY <2>1, <2>2
<1> QED
  BY <1>1, <1>2, <1>6, <1>7

\* A slice has the elements the array has.
LEMMA PieceIs ==
    ASSUME NEW array \in Seq(Int), NEW a \in Nat, NEW b \in Nat, b <= Len(array)
    PROVE  /\ SubSeq(array, a + 1, b) \in Seq(Int)
           /\ Len(SubSeq(array, a + 1, b)) = IF a <= b THEN b - a ELSE 0
           /\ \A i \in 1 .. b - a : SubSeq(array, a + 1, b)[i] = array[a + i]
<1>1. PICK n \in Nat : n = Len(array) /\ \A i \in 1 .. n : array[i] \in Int
  BY ElementOfSeq
<1>2. PICK m \in Int : m = a + 1
  OBVIOUS
<1>3. \A i \in m .. b : array[i] \in Int
  BY <1>1, <1>2
<1>4. /\ SubSeq(array, m, b) \in Seq(Int)
      /\ Len(SubSeq(array, m, b)) = IF m <= b THEN b - m + 1 ELSE 0
      /\ \A i \in 1 .. b - m + 1 : SubSeq(array, m, b)[i] = array[m + i - 1]
  BY <1>1, <1>3, SubSeqProperties
<1>5. b - m + 1 = b - a /\ \A i \in 1 .. b - a : m + i - 1 = a + i
  BY <1>2
<1> QED
  BY <1>2, <1>4, <1>5

LEMMA SlicesAreRight == HaveRoom /\ ArrayInv => Chunks!ShortSlices
<1> SUFFICES ASSUME HaveRoom, ArrayInv,
                    NEW x \in 0 .. Chunks!length - 1, NEW y \in x + 1 .. Chunks!length,
                    Chunks!SliceDefined(x, y), y \div chunkSize <= x \div chunkSize + 1
             PROVE  Chunks!Slice(x, y) = SubSeq(Chunks!contents, x + 1, y)
  BY DEF Chunks!ShortSlices
<1>0. PICK all : all = FlattenSeq(mMem)
  OBVIOUS
<1>1. PICK n \in Nat, c \in Nat \ {0} :
        /\ n = Len(mMem) /\ c = chunkSize /\ all = FlattenSeq(mMem) /\ Chunked(mMem)
  BY <1>0 DEF HaveRoom, ArrayInv, Chunked
<1>2. LaidOut(mMem, all) /\ all = Chunks!contents
  BY <1>1, ChunksAreLaidOut, SameFlatten DEF Chunks!contents
<1>3. PICK l \in Nat : l = Len(all) /\ all \in Seq(Int)
  BY <1>2 DEF LaidOut
<1>4. Chunks!length = l
  BY <1>2, <1>3 DEF Chunks!length
<1>5. x \in Nat /\ x < l /\ y \in Nat /\ x < y /\ y <= l
  BY <1>4
<1>6. PICK x1 \in 0 .. n - 1, x2 \in 0 .. c - 1 :
         /\ x1 = x \div chunkSize /\ x2 = x % chunkSize /\ x = x1 * c + x2
         /\ x2 < Len(mMem[x1 + 1])
  BY <1>1, <1>2, <1>3, <1>5, Located
<1>7. PICK y1 \in Nat, y2 \in 0 .. c - 1 :
         y1 = y \div chunkSize /\ y2 = y % chunkSize /\ y = y1 * c + y2
  <2>1. y \div c \in Nat /\ y % c \in 0 .. c - 1 /\ y = (y \div c) * c + (y % c)
    BY <1>5, DivSplits
  <2> QED
    BY <1>1, <2>1
<1>8. PICK slice : slice = SubSeq(all, x + 1, y)
  OBVIOUS
<1>9. /\ slice \in Seq(Int) /\ Len(slice) = y - x
      /\ \A i \in 1 .. y - x : slice[i] = all[x + i]
  BY <1>3, <1>5, <1>8, PieceIs
<1>10. PICK p \in Nat : p = x1 * c
  BY Products
<1>11. PICK chunk \in Seq(Int), h \in Nat : chunk = mMem[x1 + 1] /\ h = Len(chunk) /\ h <= c
  <2>1. x1 + 1 \in 1 .. n
    OBVIOUS
  <2>2. mMem[x1 + 1] \in Seq(Int)
    BY <1>1, <2>1, ElementOfSeq DEF Chunked
  <2>3. Len(mMem[x1 + 1]) <= c
    BY <1>1, <2>1 DEF Chunked
  <2> QED
    BY <2>2, <2>3
<1>12. \A r \in 1 .. h : all[p + r] = chunk[r]
  <2>1. x1 + 1 \in 1 .. Len(mMem) /\ (x1 + 1) - 1 = x1
    BY <1>1
  <2> QED
    BY <1>1, <1>2, <1>10, <1>11, <2>1 DEF LaidOut
<1>13. CASE y1 = x1
  <2>1. y = p + y2 /\ x = p + x2 /\ x2 < y2
    <3>1. y = p + y2 /\ x = p + x2
      BY <1>6, <1>7, <1>10, <1>13
    <3> QED
      BY <1>5, <3>1
  <2>2. y2 <= h
    <3>1. y - 1 \in Nat /\ y - 1 < l /\ y2 - 1 \in 0 .. c - 1 /\ y - 1 = p + (y2 - 1)
      BY <1>5, <2>1
    <3>2. (y - 1) \div c = x1 /\ (y - 1) % c = y2 - 1
      <4>1. x1 \in Nat /\ y2 - 1 \in 0 .. c - 1
        BY <3>1
      <4>2. (x1 * c + (y2 - 1)) \div c = x1 /\ (x1 * c + (y2 - 1)) % c = y2 - 1
        BY <4>1, DivIs
      <4> QED
        BY <1>10, <3>1, <4>2
    <3>3. (y - 1) % chunkSize < Len(mMem[((y - 1) \div chunkSize) + 1])
      BY <1>1, <1>2, <1>3, <3>1, Located
    <3> QED
      BY <1>1, <1>11, <3>2, <3>3
  <2>3. Chunks!Slice(x, y) = SubSeq(chunk, x2 + 1, y2)
    BY <1>6, <1>7, <1>11, <1>13 DEF Chunks!Slice
  <2>4. PICK piece : piece = SubSeq(chunk, x2 + 1, y2)
    OBVIOUS
  <2>5. /\ piece \in Seq(Int) /\ Len(piece) = y2 - x2
        /\ \A i \in 1 .. y2 - x2 : piece[i] = chunk[x2 + i]
    <3>1. y2 <= Len(chunk) /\ x2 <= y2
      BY <1>11, <2>1, <2>2
    <3>2. /\ SubSeq(chunk, x2 + 1, y2) \in Seq(Int)
          /\ Len(SubSeq(chunk, x2 + 1, y2)) = IF x2 <= y2 THEN y2 - x2 ELSE 0
          /\ \A i \in 1 .. y2 - x2 : SubSeq(chunk, x2 + 1, y2)[i] = chunk[x2 + i]
      BY <3>1, PieceIs
    <3> QED
      BY <2>4, <3>1, <3>2
  <2>6. y - x = y2 - x2
    BY <2>1
  <2>7. ASSUME NEW i \in 1 .. y - x PROVE piece[i] = slice[i]
    <3>1. x2 + i \in 1 .. h /\ p + (x2 + i) = x + i
      BY <2>1, <2>2, <2>6
    <3> QED
      BY <1>9, <1>12, <2>5, <2>6, <3>1
  <2>8. piece = slice
    BY <1>9, <2>5, <2>6, <2>7, SeqEqual
  <2> QED
    BY <1>2, <1>8, <2>3, <2>4, <2>8
<1>14. CASE y1 # x1
  <2>1. y1 = x1 + 1
    <3>1. y1 <= x1 + 1
      BY <1>6, <1>7
    <3>2. ~(y1 + 1 <= x1)
      <4>1. y1 + 1 <= x1 => (y1 + 1) * c <= x1 * c
        BY Products
      <4>2. (y1 + 1) * c = y1 * c + c /\ y1 * c \in Nat
        BY Products
      <4>3. PICK q \in Nat : q = y1 * c
        BY <4>2
      <4>4. y = q + y2 /\ x = p + x2
        BY <1>6, <1>7, <1>10, <4>3
      <4> QED
        BY <1>5, <1>10, <4>1, <4>2, <4>3, <4>4
    <3> QED
      BY <1>14, <3>1, <3>2
  <2>2. y1 < n /\ y1 + 1 \in 1 .. n
    <3>1. y1 < n
      BY <1>1, <1>6, <1>7, <1>14 DEF Chunks!SliceDefined
    <3> QED
      BY <3>1
  <2>3. h = c
    BY <1>1, <1>11, <2>1, <2>2 DEF Chunked
  <2>4. y1 * c = p + c /\ y = p + c + y2 /\ x = p + x2 /\ y - x = (c - x2) + y2
    <3>1. y1 * c = p + c
      BY <1>10, <2>1, Products
    <3>2. y = p + c + y2 /\ x = p + x2
      BY <1>6, <1>7, <1>10, <3>1
    <3> QED
      BY <3>1, <3>2
  <2>5. PICK next \in Seq(Int) : next = mMem[y1 + 1]
    BY <1>1, <2>2, ElementOfSeq DEF Chunked
  <2>6. \A r \in 1 .. Len(next) : all[(p + c) + r] = next[r]
    <3>1. (y1 + 1) - 1 = y1
      OBVIOUS
    <3>2. \A r \in 1 .. Len(mMem[y1 + 1]) :
             all[((y1 + 1) - 1) * chunkSize + r] = mMem[y1 + 1][r]
      BY <1>1, <1>2, <2>2 DEF LaidOut
    <3>3. ((y1 + 1) - 1) * chunkSize = p + c
      BY <1>1, <2>4, <3>1
    <3> QED
      BY <2>5, <3>2, <3>3
  <2>7. y2 <= Len(next)
    <3>1. CASE y2 = 0
      BY <3>1
    <3>2. CASE y2 # 0
      <4>1. y - 1 \in Nat /\ y - 1 < l /\ y2 - 1 \in 0 .. c - 1 /\ y - 1 = y1 * c + (y2 - 1)
        BY <1>5, <2>4, <3>2
      <4>2. (y - 1) \div c = y1 /\ (y - 1) % c = y2 - 1
        <5>1. (y1 * c + (y2 - 1)) \div c = y1 /\ (y1 * c + (y2 - 1)) % c = y2 - 1
          BY <4>1, DivIs
        <5> QED
          BY <4>1, <5>1
      <4>3. (y - 1) % chunkSize < Len(mMem[((y - 1) \div chunkSize) + 1])
        BY <1>1, <1>2, <1>3, <4>1, Located
      <4> QED
        BY <1>1, <2>5, <4>2, <4>3
    <3> QED
      BY <3>1, <3>2
  <2>8. PICK front, end : front = SubSeq(chunk, x2 + 1, h) /\ end = SubSeq(next, 0 + 1, y2)
    OBVIOUS
  <2>9. Chunks!Slice(x, y) = front \o end
    <3>1. Chunks!Slice(x, y) = Chunks!Rest(chunk, x2) \o Chunks!First(next, y2)
      BY <1>6, <1>7, <1>11, <1>14, <2>5 DEF Chunks!Slice
    <3>2. 0 + 1 = 1
      OBVIOUS
    <3> QED
      BY <1>11, <2>8, <3>1, <3>2 DEF Chunks!Rest, Chunks!First
  <2>10. /\ front \in Seq(Int) /\ Len(front) = c - x2
         /\ \A i \in 1 .. c - x2 : front[i] = chunk[x2 + i]
    <3>1. h <= Len(chunk) /\ x2 <= h
      BY <1>11, <2>3
    <3> QED
      BY <2>3, <2>8, <3>1, PieceIs
  <2>11. /\ end \in Seq(Int) /\ Len(end) = y2
         /\ \A i \in 1 .. y2 : end[i] = next[i]
    <3>1. /\ end \in Seq(Int) /\ Len(end) = y2 - 0
          /\ \A i \in 1 .. y2 - 0 : end[i] = next[0 + i]
      BY <2>7, <2>8, PieceIs
    <3> QED
      BY <3>1
  <2>12. PICK both : both = front \o end
    OBVIOUS
  <2>13. /\ both \in Seq(Int) /\ Len(both) = (c - x2) + y2
         /\ \A i \in 1 .. (c - x2) + y2 :
               both[i] = IF i <= c - x2 THEN front[i] ELSE end[i - (c - x2)]
    <3>1. /\ both \in Seq(Int) /\ Len(both) = Len(front) + Len(end)
          /\ \A i \in 1 .. Len(front) + Len(end) :
                both[i] = IF i <= Len(front) THEN front[i] ELSE end[i - Len(front)]
      BY <2>10, <2>11, <2>12, ConcatProperties
    <3> QED
      BY <2>10, <2>11, <3>1
  <2>14. ASSUME NEW i \in 1 .. y - x PROVE both[i] = slice[i]
    <3>1. i \in 1 .. (c - x2) + y2 /\ slice[i] = all[x + i]
      BY <1>9, <2>4
    <3>2. CASE i <= c - x2
      <4>1. x2 + i \in 1 .. h /\ p + (x2 + i) = x + i /\ i \in 1 .. c - x2
        BY <2>3, <2>4, <3>2
      <4> QED
        BY <1>12, <2>10, <2>13, <3>1, <3>2, <4>1
    <3>3. CASE ~(i <= c - x2)
      <4>1. PICK k \in 1 .. y2 : k = i - (c - x2)
        BY <3>1, <3>3
      <4>2. (p + c) + k = x + i /\ k \in 1 .. Len(next)
        BY <2>4, <2>7, <4>1
      <4> QED
        BY <2>6, <2>11, <2>13, <3>1, <3>3, <4>1, <4>2
    <3> QED
      BY <3>2, <3>3
  <2>15. both = slice
    <3>1. Len(both) = Len(slice) /\ \A i \in 1 .. Len(both) : both[i] = slice[i]
      BY <1>9, <2>4, <2>13, <2>14
    <3> QED
      BY <1>9, <2>13, <3>1, SeqEqual
  <2> QED
    BY <1>2, <1>8, <2>9, <2>12, <2>15
<1> QED
  BY <1>13, <1>14

LEMMA ArrayInit == Chunks!Init => ArrayInv
<1> SUFFICES ASSUME Chunks!Init PROVE ArrayInv
  OBVIOUS
<1>1. mMem = <<>> /\ appended = 0
  BY DEF Chunks!Init
<1>2. Chunked(<<>>)
  BY DEF Chunked
<1> QED
  BY <1>1, <1>2 DEF ArrayInv

\* What AppendArray appends.
LEMMA NumbersAre ==
    ASSUME NEW a \in Nat, NEW n \in Nat
    PROVE  [i \in 1 .. n |-> a + i] \in Seq(Int) /\ Len([i \in 1 .. n |-> a + i]) = n
OBVIOUS

LEMMA ArrayStep ==
    ASSUME HaveRoom, ArrayInv, [Chunks!Next]_(Chunks!vars)
    PROVE  /\ ArrayInv'
           /\ \/ UNCHANGED Chunks!vars
              \/ appended' - appended <= chunkSize - (Chunks!length % chunkSize) =>
                    Chunks!contents' =
                       Chunks!contents \o [i \in 1 .. appended' - appended |-> appended + i]
<1>1. CASE UNCHANGED Chunks!vars
  BY <1>1 DEF ArrayInv, Chunked, Chunks!vars
<1>2. ASSUME NEW n \in 1 .. MaxElements, Chunks!AppendArray(n)
      PROVE  /\ ArrayInv'
             /\ appended' - appended <= chunkSize - (Chunks!length % chunkSize) =>
                   Chunks!contents' =
                      Chunks!contents \o [i \in 1 .. appended' - appended |-> appended + i]
  <2>1. PICK array : array = [i \in 1 .. n |-> appended + i]
    OBVIOUS
  <2>2. appended \in Nat /\ n \in Nat /\ Chunked(mMem)
    BY DEF ArrayInv
  <2>3. array \in Seq(Int) /\ Len(array) = n
    BY <2>1, <2>2, NumbersAre
  <2>4. mMem' = Chunks!Concat(mMem, array) /\ appended' = appended + n
    BY <1>2, <2>1 DEF Chunks!AppendArray
  <2>5. PICK mem : mem = mMem'
    OBVIOUS
  <2>6. /\ Chunked(mem)
        /\ n <= chunkSize - (Len(FlattenSeq(mMem)) % chunkSize) =>
              FlattenSeq(mem) = FlattenSeq(mMem) \o array
    BY <2>2, <2>3, <2>4, <2>5, ConcatKeeps
  <2>7. appended' \in Nat /\ appended' - appended = n
    BY <2>2, <2>4
  <2>8. Chunked(mMem')
    BY <2>5, <2>6
  <2>9. /\ Chunks!contents = FlattenSeq(mMem) /\ Chunks!length = Len(FlattenSeq(mMem))
        /\ Chunks!contents' = FlattenSeq(mem)
    BY <2>5, SameFlatten DEF Chunks!contents, Chunks!length
  <2> QED
    BY <2>1, <2>6, <2>7, <2>8, <2>9 DEF ArrayInv
<1> QED
  BY <1>1, <1>2 DEF Chunks!Next

\* Whatever was appended before, and lost with it: what fits into the last chunk
\* is added as it is, nothing moves, and the slices of two neighbouring chunks are
\* those of the array, for any length of the chunks.
THEOREM FittingIsKept == Chunks!Spec => FittingAppendKeeps
<1>0. HaveRoom
  BY StructuresAssumption
<1>1. Chunks!Init => ArrayInv
  BY ArrayInit
<1>2. ArrayInv /\ [Chunks!Next]_(Chunks!vars) => ArrayInv'
  BY <1>0, ArrayStep
<1>3. ArrayInv => Chunks!ShortSlices
  BY <1>0, SlicesAreRight
<1>4. ArrayInv /\ [Chunks!Next]_(Chunks!vars) /\ Chunks!ShortSlices' =>
         [appended' - appended <= chunkSize - (Chunks!length % chunkSize) =>
            /\ Chunks!contents' =
                  Chunks!contents \o [i \in 1 .. appended' - appended |-> appended + i]
            /\ Chunks!ShortSlices']_(Chunks!vars)
  BY <1>0, ArrayStep
<1> QED
  BY <1>1, <1>2, <1>3, <1>4, PTL DEF Chunks!Spec, FittingAppendKeeps, Chunks!FittingAppendKeeps

-----------------------------------------------------------------------------
(* A program that uses one of them *)

\* Whichever of them the program uses: each behaves as it does alone.
LEMMA EachIsAlone ==
    StructuresSpec =>
        /\ Spec /\ Chunks!Spec /\ Node!Spec /\ View!Spec /\ Mesh!Spec /\ Matcher!Spec
<1>1. StructuresInit =>
         /\ Init /\ Chunks!Init /\ Node!Init /\ View!Init /\ Mesh!Init /\ Matcher!Init
  BY DEF StructuresInit
<1>2. [UseStructure]_structureVars => [Next]_vars
  BY DEF UseStructure, UseList, UseArray, UseNode, UseCamera, UseMesh, UseMatcher,
         structureVars
<1>3. [UseStructure]_structureVars => [Chunks!Next]_(Chunks!vars)
  BY DEF UseStructure, UseList, UseArray, UseNode, UseCamera, UseMesh, UseMatcher,
         structureVars, arrayVars, Chunks!vars
<1>4. [UseStructure]_structureVars => [Node!Next]_(Node!vars)
  BY DEF UseStructure, UseList, UseArray, UseNode, UseCamera, UseMesh, UseMatcher,
         structureVars, nodeVars, Node!vars
<1>5. [UseStructure]_structureVars => [View!Next]_(View!vars)
  BY DEF UseStructure, UseList, UseArray, UseNode, UseCamera, UseMesh, UseMatcher,
         structureVars, viewVars, View!vars, View!moveVars
<1>6. [UseStructure]_structureVars => [Mesh!Next]_(Mesh!vars)
  BY DEF UseStructure, UseList, UseArray, UseNode, UseCamera, UseMesh, UseMatcher,
         structureVars, meshVars, Mesh!vars
<1>7. [UseStructure]_structureVars => [Matcher!Next]_(Matcher!vars)
  BY DEF UseStructure, UseList, UseArray, UseNode, UseCamera, UseMesh, UseMatcher,
         structureVars, matcherVars, Matcher!vars
<1> QED
  BY <1>1, <1>2, <1>3, <1>4, <1>5, <1>6, <1>7, PTL
     DEF StructuresSpec, Spec, Chunks!Spec, Node!Spec, View!Spec, Mesh!Spec, Matcher!Spec

\* So each keeps in the program what it keeps alone.
THEOREM ProgramKeepsAll ==
    StructuresSpec =>
        /\ [](LengthOffByOne /\ ArrivesOnTime /\ MeshKeepsDepth /\ AcceptsItsLanguage)
        /\ IsDeque /\ FittingAppendKeeps /\ NamesStayAttached
  BY EachIsAlone, LengthIsClose, ListIsDeque, FittingIsKept, NamesStay, CameraArrives,
     MeshIsSound, MatcherIsRight, PTL
=============================================================================

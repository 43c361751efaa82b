----------------------------- MODULE AppLoopProofs -----------------------------
(***************************************************************************)
(* For any sizes, positions, keys and bounds: what the frame loop keeps,   *)
(* however many events wait for a poll and in whatever order they and the  *)
(* messages come.                                                          *)
(***************************************************************************)
EXTENDS AppLoop, FiniteSetTheorems, SequenceTheorems, InductionLemmas

-----------------------------------------------------------------------------
(* What delivering an event does *)

Message ==
    [type : {"resize"}, size : Sizes]
      \cup [type : {"mpos"}, xpos : Int, moved : Int, mode : {"normal", "captured"}]
      \cup [type : {"press"}, key : Keys] \cup [type : {"release"}, key : Keys]

Event ==
    [type : {"close"}] \cup [type : {"resize"}, size : Sizes] \cup [type : {"move"}, x : Positions]
      \cup [type : {"focus"}, in : BOOLEAN]
      \cup [type : {"press"}, key : Keys] \cup [type : {"release"}, key : Keys]

Window ==
    [size : Sizes, closed : BOOLEAN, focused : BOOLEAN,
     key : [Keys -> {"up", "down", "stick"}],
     cursorMode : {"normal", "captured"}, cursorPos : Int,
     known : Positions, centered : BOOLEAN]

Types ==
    /\ pc \in {"poll", "update", "check", "drain", "stopped"}
    /\ running \in BOOLEAN /\ asked \in BOOLEAN
    /\ mailbox \in Seq(Message) /\ events \in Seq(Event)
    /\ mGraphicConfigs \in Sizes /\ oldposx \in Int /\ mCamMode \in BOOLEAN
    /\ window \in Window /\ pointer \in Positions

DeliverState == [window : Window, mailbox : Seq(Message)]

Extends(m, m2) ==
    /\ m2 \in Seq(Message) /\ Len(m) <= Len(m2)
    /\ \A i \in 1 .. Len(m) : m2[i] = m[i]
Fresh(m, m2, type) == \A i \in Len(m) + 1 .. Len(m2) : m2[i].type # type

\* From s to r, event e is delivered.
Effect(s, e, r) ==
    /\ r \in DeliverState
    /\ r.window.size = s.window.size
    /\ r.window.closed <=> s.window.closed \/ e.type = "close"
    /\ \A k \in Keys : r.window.key[k] # "up" <=>
          s.window.key[k] # "up" \/ (e.type \in {"press", "release"} /\ e.key = k)
    /\ Extends(s.mailbox, r.mailbox)
    /\ e.type = "resize" => r.mailbox = Append(s.mailbox, e)
    /\ e.type # "resize" => Fresh(s.mailbox, r.mailbox, "resize")
    /\ \/ r.window.cursorPos = s.window.cursorPos /\ Fresh(s.mailbox, r.mailbox, "mpos")
       \/ \E m \in Message :
             /\ m.type = "mpos" /\ r.mailbox = Append(s.mailbox, m)
             /\ r.window.cursorPos = m.xpos
             /\ m.mode = "captured" => m.xpos = s.window.cursorPos + m.moved

LEMMA SameMailbox ==
    ASSUME NEW m \in Seq(Message)
    PROVE  Extends(m, m) /\ \A type : Fresh(m, m, type)
<1>1. Len(m) \in Nat
  BY LenProperties
<1> QED
  BY <1>1 DEF Extends, Fresh

LEMMA OneMessage ==
    ASSUME NEW m \in Seq(Message), NEW message \in Message
    PROVE  /\ Append(m, message) \in Seq(Message) /\ Extends(m, Append(m, message))
           /\ \A type : message.type # type => Fresh(m, Append(m, message), type)
<1>1. Len(m) \in Nat
  BY LenProperties
<1>2. PICK m2 : m2 = Append(m, message)
  OBVIOUS
<1>3. /\ m2 \in Seq(Message) /\ Len(m2) = Len(m) + 1
      /\ \A i \in 1 .. Len(m) : m2[i] = m[i]
      /\ m2[Len(m) + 1] = message
  BY <1>2, AppendProperties
<1>4. Extends(m, m2)
  BY <1>1, <1>3 DEF Extends
<1>5. ASSUME NEW type, message.type # type PROVE Fresh(m, m2, type)
  BY <1>1, <1>3, <1>5 DEF Fresh
<1> QED
  BY <1>2, <1>3, <1>4, <1>5

LEMMA KindsOfMessage ==
    /\ \A s \in Sizes : Resize(s) \in Message /\ Resize(s).type = "resize"
    /\ \A x \in Int, moved \in Int, mode \in {"normal", "captured"} :
          /\ Move(x, moved, mode) \in Message /\ Move(x, moved, mode).type = "mpos"
          /\ Move(x, moved, mode).xpos = x /\ Move(x, moved, mode).moved = moved
          /\ Move(x, moved, mode).mode = mode
    /\ \A k \in Keys : Press(k) \in Message /\ Press(k).type = "press"
    /\ \A k \in Keys : Release(k) \in Message /\ Release(k).type = "release"
  BY DEF Message, Resize, Move, Press, Release

LEMMA EventFields ==
    ASSUME NEW e \in Event
    PROVE  /\ e.type \in {"close", "resize", "move", "focus", "press", "release"}
           /\ e.type = "resize" => e = Resize(e.size) /\ e.size \in Sizes
           /\ e.type = "move" => e.x \in Positions
           /\ e.type \in {"press", "release"} => e.key \in Keys
  BY DEF Event, Resize

LEMMA CloseEffect ==
    ASSUME NEW s \in DeliverState, NEW e \in Event, e.type = "close"
    PROVE  Effect(s, e, [s EXCEPT !.window.closed = TRUE])
<1> DEFINE r == [s EXCEPT !.window.closed = TRUE]
<1>1. s.window \in Window /\ s.mailbox \in Seq(Message)
  BY DEF DeliverState
<1>2. r.window = [s.window EXCEPT !.closed = TRUE] /\ r.mailbox = s.mailbox /\ r \in DeliverState
  BY <1>1 DEF DeliverState, Window
<1>3. /\ r.window.size = s.window.size /\ r.window.key = s.window.key
      /\ r.window.cursorPos = s.window.cursorPos /\ r.window.closed
  BY <1>1, <1>2 DEF Window
<1> HIDE DEF r
<1>4. Effect(s, e, r)
  BY <1>1, <1>2, <1>3, SameMailbox DEF Effect
<1> QED
  BY <1>4 DEF r

LEMMA ResizeEffect ==
    ASSUME NEW s \in DeliverState, NEW e \in Event, e.type = "resize"
    PROVE  Effect(s, e, [s EXCEPT !.mailbox = Append(s.mailbox, e)])
<1> DEFINE r == [s EXCEPT !.mailbox = Append(s.mailbox, e)]
<1>1. s.window \in Window /\ s.mailbox \in Seq(Message)
  BY DEF DeliverState
<1>2. e \in Message
  BY EventFields, KindsOfMessage
<1>3. Append(s.mailbox, e) \in Seq(Message) /\ Extends(s.mailbox, Append(s.mailbox, e))
      /\ Fresh(s.mailbox, Append(s.mailbox, e), "mpos")
  BY <1>1, <1>2, OneMessage
<1>4. r.window = s.window /\ r.mailbox = Append(s.mailbox, e) /\ r \in DeliverState
  BY <1>1, <1>3 DEF DeliverState
<1> HIDE DEF r
<1>5. Effect(s, e, r)
  BY <1>1, <1>3, <1>4 DEF Effect
<1> QED
  BY <1>5 DEF r

LEMMA MoveEffect ==
    ASSUME NEW s \in DeliverState, NEW e \in Event, e.type = "move"
    PROVE  Effect(s, e, MoveCursor(s, e.x))
<1> DEFINE r == MoveCursor(s, e.x)
           mode == s.window.cursorMode
           pos == IF mode = "captured" THEN s.window.cursorPos + (e.x - s.window.known) ELSE e.x
<1>1. s.window \in Window /\ s.mailbox \in Seq(Message)
  BY DEF DeliverState
<1>2. e.x \in Positions /\ e.x \in Int /\ s.window.known \in Int /\ s.window.cursorPos \in Int
      /\ mode \in {"normal", "captured"}
  BY <1>1, EventFields, AppAssumption DEF Window
<1>3. PICK by \in Int : by = e.x - s.window.known
  BY <1>2
<1>4. pos \in Int
  BY <1>2
<1>5. CASE by = 0 \/ (mode = "captured" /\ ~s.window.focused)
  <2>1. r = s
    BY <1>3, <1>5 DEF MoveCursor
  <2> QED
    BY <1>1, <2>1, SameMailbox DEF Effect
<1>6. CASE ~(by = 0 \/ (mode = "captured" /\ ~s.window.focused))
  <2>1. PICK w : w = [s.window EXCEPT !.known = e.x, !.centered = FALSE, !.cursorPos = pos]
    OBVIOUS
  <2>2. PICK m : m = IF pos = s.window.cursorPos THEN s.mailbox
                     ELSE Append(s.mailbox, Move(pos, by, mode))
    OBVIOUS
  <2>3. r = [s EXCEPT !.window = w, !.mailbox = m]
    BY <1>3, <1>6, <2>1, <2>2 DEF MoveCursor
  <2>4. /\ w \in Window /\ w.size = s.window.size /\ w.key = s.window.key
        /\ w.closed = s.window.closed /\ w.cursorPos = pos
    BY <1>1, <1>2, <1>4, <2>1 DEF Window
  <2>5. CASE pos = s.window.cursorPos
    <3>1. r.window = w /\ r.mailbox = s.mailbox /\ r \in DeliverState
      BY <1>1, <2>2, <2>3, <2>4, <2>5 DEF DeliverState
    <3> QED
      BY <1>1, <2>4, <2>5, <3>1, SameMailbox DEF Effect
  <2>6. CASE pos # s.window.cursorPos
    <3>1. PICK message : message = Move(pos, by, mode)
      OBVIOUS
    <3>2. /\ message \in Message /\ message.type = "mpos" /\ message.xpos = pos
          /\ message.moved = by /\ message.mode = mode
      BY <1>2, <1>4, <3>1, KindsOfMessage
    <3>3. m = Append(s.mailbox, message)
      BY <2>2, <2>6, <3>1
    <3>4. m \in Seq(Message) /\ Extends(s.mailbox, m) /\ Fresh(s.mailbox, m, "resize")
      BY <1>1, <3>2, <3>3, OneMessage
    <3>5. r.window = w /\ r.mailbox = m /\ r \in DeliverState
      BY <1>1, <2>3, <2>4, <3>4 DEF DeliverState
    <3>6. message.mode = "captured" => message.xpos = s.window.cursorPos + message.moved
      BY <1>3, <3>2
    <3> HIDE DEF r, pos, mode
    <3>7. \E message2 \in Message :
             /\ message2.type = "mpos" /\ r.mailbox = Append(s.mailbox, message2)
             /\ r.window.cursorPos = message2.xpos
             /\ message2.mode = "captured" => message2.xpos = s.window.cursorPos + message2.moved
      BY <2>4, <3>2, <3>3, <3>5, <3>6
    <3>8. /\ r.window.size = s.window.size
          /\ r.window.closed <=> s.window.closed \/ e.type = "close"
          /\ \A k \in Keys : r.window.key[k] # "up" <=>
                s.window.key[k] # "up" \/ (e.type \in {"press", "release"} /\ e.key = k)
      BY <2>4, <3>5
    <3>9. e.type # "resize" /\ Extends(s.mailbox, r.mailbox)
          /\ Fresh(s.mailbox, r.mailbox, "resize")
      BY <3>4, <3>5
    <3>10. Effect(s, e, r)
      BY <3>5, <3>7, <3>8, <3>9 DEF Effect
    <3> QED
      BY <3>10 DEF r
  <2> QED
    BY <2>5, <2>6
<1> QED
  BY <1>5, <1>6

\* A message that says nothing of the size or of the cursor.
LEMMA KeyMessage ==
    ASSUME NEW s \in DeliverState, NEW e \in Event, NEW w \in Window, NEW m, NEW r,
           r = [s EXCEPT !.window = w, !.mailbox = m],
           e.type # "resize", e.type # "close",
           Extends(s.mailbox, m), Fresh(s.mailbox, m, "resize"), Fresh(s.mailbox, m, "mpos"),
           w.size = s.window.size, w.closed = s.window.closed, w.cursorPos = s.window.cursorPos,
           \A k \in Keys : w.key[k] # "up" <=>
              s.window.key[k] # "up" \/ (e.type \in {"press", "release"} /\ e.key = k)
    PROVE  Effect(s, e, r)
<1>1. m \in Seq(Message)
  BY DEF Extends
<1>2. r.window = w /\ r.mailbox = m /\ r \in DeliverState
  BY <1>1 DEF DeliverState
<1> QED
  BY <1>2 DEF Effect

LEMMA PressEffect ==
    ASSUME NEW s \in DeliverState, NEW e \in Event, e.type = "press"
    PROVE  Effect(s, e, PressKey(s, e.key))
<1> DEFINE k == e.key
<1>1. s.window \in Window /\ s.mailbox \in Seq(Message) /\ k \in Keys
  BY EventFields DEF DeliverState
<1>2. PICK keys : keys = [s.window.key EXCEPT ![k] = "down"]
  OBVIOUS
<1>3. PICK w : w = [s.window EXCEPT !.key = keys]
  OBVIOUS
<1>4. PICK m : m = IF s.window.key[k] = "down" THEN s.mailbox ELSE Append(s.mailbox, Press(k))
  OBVIOUS
<1>5. s.window.key \in [Keys -> {"up", "down", "stick"}]
  BY <1>1 DEF Window
<1>6. keys \in [Keys -> {"up", "down", "stick"}]
      /\ \A l \in Keys : keys[l] = IF l = k THEN "down" ELSE s.window.key[l]
  BY <1>1, <1>2, <1>5
<1>7. /\ w \in Window /\ w.size = s.window.size /\ w.key = keys /\ w.closed = s.window.closed
      /\ w.cursorPos = s.window.cursorPos
  BY <1>1, <1>3, <1>6 DEF Window
<1>8. PressKey(s, k) = [s EXCEPT !.window = w, !.mailbox = m]
  BY <1>2, <1>3, <1>4 DEF PressKey
<1>9. Extends(s.mailbox, m) /\ Fresh(s.mailbox, m, "resize") /\ Fresh(s.mailbox, m, "mpos")
  <2>1. Press(k) \in Message /\ Press(k).type # "resize" /\ Press(k).type # "mpos"
    BY <1>1, KindsOfMessage
  <2>2. CASE m = s.mailbox
    BY <1>1, <2>2, SameMailbox
  <2>3. CASE m = Append(s.mailbox, Press(k))
    BY <1>1, <2>1, <2>3, OneMessage
  <2> QED
    BY <1>4, <2>2, <2>3
<1>10. \A l \in Keys : w.key[l] # "up" <=>
          s.window.key[l] # "up" \/ (e.type \in {"press", "release"} /\ e.key = l)
  BY <1>6, <1>7
<1>11. PICK r : r = PressKey(s, k)
  OBVIOUS
<1>12. Effect(s, e, r)
  BY <1>7, <1>8, <1>9, <1>10, <1>11, KeyMessage
<1> QED
  BY <1>11, <1>12

LEMMA ReleaseEffect ==
    ASSUME NEW s \in DeliverState, NEW e \in Event, e.type = "release"
    PROVE  Effect(s, e, ReleaseKey(s, e.key))
<1> DEFINE k == e.key
<1>1. s.window \in Window /\ s.mailbox \in Seq(Message) /\ k \in Keys
  BY EventFields DEF DeliverState
<1>2. PICK keys : keys = [s.window.key EXCEPT ![k] = "stick"]
  OBVIOUS
<1>3. PICK w : w = [s.window EXCEPT !.key = keys]
  OBVIOUS
<1>4. PICK m : m = Append(s.mailbox, Release(k))
  OBVIOUS
<1>5. s.window.key \in [Keys -> {"up", "down", "stick"}]
  BY <1>1 DEF Window
<1>6. keys \in [Keys -> {"up", "down", "stick"}]
      /\ \A l \in Keys : keys[l] = IF l = k THEN "stick" ELSE s.window.key[l]
  BY <1>1, <1>2, <1>5
<1>7. /\ w \in Window /\ w.size = s.window.size /\ w.key = keys /\ w.closed = s.window.closed
      /\ w.cursorPos = s.window.cursorPos
  BY <1>1, <1>3, <1>6 DEF Window
<1>8. ReleaseKey(s, k) = [s EXCEPT !.window = w, !.mailbox = m]
  BY <1>2, <1>3, <1>4 DEF ReleaseKey
<1>9. Extends(s.mailbox, m) /\ Fresh(s.mailbox, m, "resize") /\ Fresh(s.mailbox, m, "mpos")
  <2>1. Release(k) \in Message /\ Release(k).type # "resize" /\ Release(k).type # "mpos"
    BY <1>1, KindsOfMessage
  <2> QED
    BY <1>1, <1>4, <2>1, OneMessage
<1>10. \A l \in Keys : w.key[l] # "up" <=>
          s.window.key[l] # "up" \/ (e.type \in {"press", "release"} /\ e.key = l)
  BY <1>6, <1>7
<1>11. PICK r : r = ReleaseKey(s, k)
  OBVIOUS
<1>12. Effect(s, e, r)
  BY <1>7, <1>8, <1>9, <1>10, <1>11, KeyMessage
<1> QED
  BY <1>11, <1>12

LEMMA SetToSeqIsSeq ==
    ASSUME NEW S, IsFiniteSet(S)
    PROVE  SetToSeq(S) \in Seq(S)
<1> DEFINE n == Cardinality(S)
<1>1. n \in Nat /\ ExistsBijection(1 .. n, S)
  BY FS_CardinalityType
<1>2. \E f \in [1 .. n -> S] : IsInjective(f)
  BY <1>1 DEF ExistsBijection, Bijection, Injection
<1>3. SetToSeq(S) \in [1 .. n -> S]
  BY <1>2 DEF SetToSeq
<1> QED
  BY <1>1, <1>3, SeqDef

LEMMA FocusEffect ==
    ASSUME NEW s \in DeliverState, NEW e \in Event, NEW grabbed \in BOOLEAN, e.type = "focus"
    PROVE  Effect(s, e, GainFocus(s, grabbed)) /\ Effect(s, e, LoseFocus(s))
<1>1. s.window \in Window /\ s.mailbox \in Seq(Message)
  BY DEF DeliverState
<1>2. Extends(s.mailbox, s.mailbox) /\ Fresh(s.mailbox, s.mailbox, "resize")
      /\ Fresh(s.mailbox, s.mailbox, "mpos")
  BY <1>1, SameMailbox
<1>3. Effect(s, e, s)
  BY <1>1, <1>2 DEF Effect
<1>4. Effect(s, e, GainFocus(s, grabbed))
  <2>1. PICK r : r = GainFocus(s, grabbed)
    OBVIOUS
  <2>2. PICK c : c = (s.window.centered /\ ~(grabbed /\ s.window.cursorMode = "captured"))
    OBVIOUS
  <2>3. c \in BOOLEAN
    BY <2>2
  <2>4. PICK w : w = [s.window EXCEPT !.focused = TRUE, !.centered = c]
    OBVIOUS
  <2>5. w \in Window /\ w.size = s.window.size /\ w.key = s.window.key
        /\ w.closed = s.window.closed /\ w.cursorPos = s.window.cursorPos
    BY <1>1, <2>3, <2>4 DEF Window
  <2>6. CASE s.window.focused
    BY <1>3, <2>6 DEF GainFocus
  <2>7. CASE ~s.window.focused
    <3>1. r = [s EXCEPT !.window = w]
      BY <2>1, <2>2, <2>4, <2>7 DEF GainFocus
    <3>2. r = [s EXCEPT !.window = w, !.mailbox = s.mailbox]
      BY <1>1, <3>1 DEF DeliverState
    <3>3. Effect(s, e, r)
      BY <1>2, <2>5, <3>2, KeyMessage
    <3> QED
      BY <2>1, <3>3
  <2> QED
    BY <2>6, <2>7
<1>5. Effect(s, e, LoseFocus(s))
  <2>1. PICK r : r = LoseFocus(s)
    OBVIOUS
  <2>2. PICK old : old = s.window.key
    OBVIOUS
  <2>3. old \in [Keys -> {"up", "down", "stick"}]
    BY <1>1, <2>2 DEF Window
  <2>4. PICK down : down = SetToSeq({k \in Keys : old[k] = "down"})
    OBVIOUS
  <2>5. down \in Seq(Keys) /\ Len(down) \in Nat /\ DOMAIN down = 1 .. Len(down)
        /\ \A i \in 1 .. Len(down) : down[i] \in Keys
    <3>1. {k \in Keys : old[k] = "down"} \subseteq Keys
          /\ IsFiniteSet({k \in Keys : old[k] = "down"})
      BY AppAssumption, FS_Subset
    <3>2. down \in Seq({k \in Keys : old[k] = "down"})
      BY <2>4, <3>1, SetToSeqIsSeq
    <3>3. down \in Seq(Keys)
      BY <3>1, <3>2, SeqMonotonic
    <3> QED
      BY <3>3, LenProperties, ElementOfSeq
  <2>6. PICK told : told = [i \in DOMAIN down |-> Release(down[i])]
    OBVIOUS
  <2>7. /\ told \in Seq(Message) /\ Len(told) = Len(down)
        /\ \A i \in 1 .. Len(told) : told[i].type = "release"
    <3>1. \A i \in 1 .. Len(down) : Release(down[i]) \in Message /\ Release(down[i]).type = "release"
      BY <2>5, KindsOfMessage
    <3>2. told \in [1 .. Len(down) -> Message] /\ \A i \in 1 .. Len(down) : told[i].type = "release"
      BY <2>5, <2>6, <3>1
    <3>3. told \in Seq(Message)
      BY <2>5, <3>2, SeqDef
    <3>4. Len(told) \in Nat /\ DOMAIN told = 1 .. Len(told)
      BY <3>3, LenProperties
    <3> QED
      BY <2>5, <3>2, <3>3, <3>4
  <2>8. PICK m : m = s.mailbox \o told
    OBVIOUS
  <2>9. Extends(s.mailbox, m) /\ Fresh(s.mailbox, m, "resize") /\ Fresh(s.mailbox, m, "mpos")
    <3>1. PICK a \in Nat : a = Len(s.mailbox)
      BY <1>1, LenProperties
    <3>2. PICK b \in Nat : b = Len(told)
      BY <2>5, <2>7
    <3>3. /\ m \in Seq(Message) /\ Len(m) = a + b
          /\ \A i \in 1 .. a + b : m[i] = IF i <= a THEN s.mailbox[i] ELSE told[i - a]
      <4>1. PICK box \in Seq(Message) : box = s.mailbox
        BY <1>1
      <4>2. told \in Seq(Message)
        BY <2>7
      <4>3. /\ box \o told \in Seq(Message) /\ Len(box \o told) = Len(box) + Len(told)
            /\ \A i \in 1 .. Len(box) + Len(told) :
                 (box \o told)[i] = IF i <= Len(box) THEN box[i] ELSE told[i - Len(box)]
        BY <4>2, ConcatProperties
      <4> QED
        BY <2>8, <3>1, <3>2, <4>1, <4>3
    <3>4. \A i \in 1 .. a : m[i] = s.mailbox[i]
      BY <3>3
    <3>5. ASSUME NEW i \in a + 1 .. a + b PROVE m[i].type = "release"
      <4>1. i \in 1 .. a + b /\ ~(i <= a) /\ i - a \in 1 .. b
        OBVIOUS
      <4>2. m[i] = told[i - a]
        BY <3>3, <4>1
      <4> QED
        BY <2>7, <3>2, <4>1, <4>2
    <3> QED
      BY <3>1, <3>3, <3>4, <3>5 DEF Extends, Fresh
  <2>10. PICK keys : keys = [k \in Keys |-> IF old[k] = "down" THEN "stick" ELSE old[k]]
    OBVIOUS
  <2>11. keys \in [Keys -> {"up", "down", "stick"}]
         /\ \A k \in Keys : keys[k] # "up" <=> old[k] # "up"
    BY <2>3, <2>10
  <2>12. PICK w : w = [s.window EXCEPT !.focused = FALSE, !.key = keys]
    OBVIOUS
  <2>13. w \in Window /\ w.size = s.window.size /\ w.key = keys
         /\ w.closed = s.window.closed /\ w.cursorPos = s.window.cursorPos
    BY <1>1, <2>11, <2>12 DEF Window
  <2>14. CASE s.window.focused
    <3>1. r = [s EXCEPT !.window = w, !.mailbox = m]
      BY <2>1, <2>2, <2>4, <2>6, <2>8, <2>10, <2>12, <2>14 DEF LoseFocus
    <3>2. \A k \in Keys : w.key[k] # "up" <=>
             s.window.key[k] # "up" \/ (e.type \in {"press", "release"} /\ e.key = k)
      BY <2>2, <2>11, <2>13
    <3>3. Effect(s, e, r)
      BY <2>9, <2>13, <3>1, <3>2, KeyMessage
    <3> QED
      BY <2>1, <3>3
  <2>15. CASE ~s.window.focused
    BY <1>3, <2>15 DEF LoseFocus
  <2> QED
    BY <2>14, <2>15
<1> QED
  BY <1>4, <1>5

LEMMA DeliverEffect ==
    ASSUME NEW s \in DeliverState, NEW e \in Event, NEW grabbed \in BOOLEAN
    PROVE  Effect(s, e, Deliver(s, e, grabbed))
<1>1. CASE e.type = "close"
  BY <1>1, CloseEffect DEF Deliver
<1>2. CASE e.type = "resize"
  BY <1>2, ResizeEffect DEF Deliver
<1>3. CASE e.type = "move"
  BY <1>3, MoveEffect DEF Deliver
<1>4. CASE e.type = "focus"
  BY <1>4, FocusEffect DEF Deliver
<1>5. CASE e.type = "press"
  BY <1>5, PressEffect DEF Deliver
<1>6. CASE e.type = "release"
  BY <1>6, ReleaseEffect DEF Deliver
<1> QED
  BY <1>1, <1>2, <1>3, <1>4, <1>5, <1>6, EventFields

-----------------------------------------------------------------------------
(* What the camera is told of the cursor *)

\* Each movement of the captured cursor that waits in mailbox m goes on from the
\* position before it, and the cursor, at x, is where the last of them left it.
\* Place 0 stands for the last position handled, old, if turn t was not the first.
Mouse(m, i) == i = 0 \/ m[i].type = "mpos"
Quiet(m, i, j) == \A k \in i + 1 .. j : m[k].type # "mpos"
From(m, i, old) == IF i = 0 THEN old ELSE m[i].xpos

Chained(m, x, old, t) ==
    /\ \A i \in 0 .. Len(m), j \in 1 .. Len(m) :
          /\ i < j /\ Mouse(m, i) /\ (i = 0 => t # noTurn) /\ Quiet(m, i, j - 1)
          /\ m[j].type = "mpos" /\ m[j].mode = "captured"
          => m[j].xpos = From(m, i, old) + m[j].moved
    /\ \A i \in 0 .. Len(m) :
          Mouse(m, i) /\ (i = 0 => t # noTurn) /\ Quiet(m, i, Len(m)) => x = From(m, i, old)

\* Messages about other things change nothing in that.
LEMMA ChainGrows ==
    ASSUME NEW m \in Seq(Message), NEW m2, NEW x, NEW old, NEW t,
           Extends(m, m2), Fresh(m, m2, "mpos"),
           Chained(m, x, old, t)
    PROVE  Chained(m2, x, old, t)
<1>1. PICK n \in Nat : n = Len(m)
  BY LenProperties
<1>2. PICK n2 \in Nat : n2 = Len(m2)
  BY LenProperties DEF Extends
<1>3. /\ n <= n2 /\ \A i \in 1 .. n : m2[i] = m[i]
      /\ \A i \in n + 1 .. n2 : m2[i].type # "mpos"
  BY <1>1, <1>2 DEF Extends, Fresh
<1>4. \A i \in 0 .. n2 : Mouse(m2, i) =>
         i \in 0 .. n /\ Mouse(m, i) /\ From(m2, i, old) = From(m, i, old)
  <2>1. SUFFICES ASSUME NEW i \in 0 .. n2, Mouse(m2, i)
                 PROVE  i \in 0 .. n /\ Mouse(m, i) /\ From(m2, i, old) = From(m, i, old)
    OBVIOUS
  <2>2. CASE i = 0
    BY <1>3, <2>2 DEF Mouse, From
  <2>3. CASE i # 0
    <3>1. m2[i].type = "mpos"
      BY <2>1, <2>3 DEF Mouse
    <3>2. i \in 1 .. n
      BY <1>3, <2>3, <3>1
    <3> QED
      BY <1>3, <2>3, <3>1, <3>2 DEF Mouse, From
  <2> QED
    BY <2>2, <2>3
<1>5. \A i \in 0 .. n, j \in 0 .. n : Quiet(m2, i, j) => Quiet(m, i, j)
  BY <1>3 DEF Quiet
<1>6. ASSUME NEW i \in 0 .. n2, NEW j \in 1 .. n2, i < j, Mouse(m2, i), i = 0 => t # noTurn,
             Quiet(m2, i, j - 1), m2[j].type = "mpos", m2[j].mode = "captured"
      PROVE  m2[j].xpos = From(m2, i, old) + m2[j].moved
  <2>1. i \in 0 .. n /\ Mouse(m, i) /\ From(m2, i, old) = From(m, i, old)
    BY <1>4, <1>6
  <2>2. j \in 1 .. n /\ j - 1 \in 0 .. n
    BY <1>3, <1>6
  <2>3. m2[j] = m[j] /\ Quiet(m, i, j - 1)
    BY <1>3, <1>5, <1>6, <2>1, <2>2
  <2> QED
    BY <1>1, <1>6, <2>1, <2>2, <2>3 DEF Chained
<1>7. ASSUME NEW i \in 0 .. n2, Mouse(m2, i), i = 0 => t # noTurn, Quiet(m2, i, n2)
      PROVE  x = From(m2, i, old)
  <2>1. i \in 0 .. n /\ Mouse(m, i) /\ From(m2, i, old) = From(m, i, old)
    BY <1>4, <1>7
  <2>2. Quiet(m, i, n)
    BY <1>3, <1>7 DEF Quiet
  <2> QED
    BY <1>1, <1>7, <2>1, <2>2 DEF Chained
<1> QED
  BY <1>2, <1>6, <1>7 DEF Chained

\* One more movement goes on from where the cursor was.
LEMMA ChainMoves ==
    ASSUME NEW m \in Seq(Message), NEW x, NEW old, NEW t,
           NEW message \in Message, message.type = "mpos",
           message.mode = "captured" => message.xpos = x + message.moved, Chained(m, x, old, t)
    PROVE  Chained(Append(m, message), message.xpos, old, t)
<1>1. PICK n \in Nat : n = Len(m)
  BY LenProperties
<1>2. PICK m2 : m2 = Append(m, message)
  OBVIOUS
<1>3. Len(m2) = n + 1 /\ (\A i \in 1 .. n : m2[i] = m[i]) /\ m2[n + 1] = message
  BY <1>1, <1>2, AppendProperties
<1>4. \A i \in 0 .. n : (Mouse(m2, i) <=> Mouse(m, i)) /\ From(m2, i, old) = From(m, i, old)
  BY <1>3 DEF Mouse, From
<1>5. \A i \in 0 .. n, j \in 0 .. n : Quiet(m2, i, j) => Quiet(m, i, j)
  BY <1>3 DEF Quiet
<1>6. ASSUME NEW i \in 0 .. n + 1, NEW j \in 1 .. n + 1, i < j, Mouse(m2, i), i = 0 => t # noTurn,
             Quiet(m2, i, j - 1), m2[j].type = "mpos", m2[j].mode = "captured"
      PROVE  m2[j].xpos = From(m2, i, old) + m2[j].moved
  <2>1. i \in 0 .. n /\ Mouse(m, i) /\ From(m2, i, old) = From(m, i, old)
    BY <1>4, <1>6
  <2>2. CASE j \in 1 .. n
    <3>1. j - 1 \in 0 .. n
      BY <2>2
    <3>2. m2[j] = m[j] /\ Quiet(m, i, j - 1)
      BY <1>3, <1>5, <1>6, <2>1, <2>2, <3>1
    <3> QED
      BY <1>1, <1>6, <2>1, <2>2, <3>2 DEF Chained
  <2>3. CASE j = n + 1
    <3>1. m2[j] = message /\ j - 1 = n
      BY <1>3, <2>3
    <3>2. Quiet(m, i, n)
      BY <1>5, <1>6, <2>1, <3>1
    <3>3. x = From(m, i, old)
      BY <1>1, <1>6, <2>1, <3>2 DEF Chained
    <3> QED
      BY <1>6, <2>1, <3>1, <3>3
  <2> QED
    BY <2>2, <2>3
<1>7. ASSUME NEW i \in 0 .. n + 1, Mouse(m2, i), i = 0 => t # noTurn, Quiet(m2, i, n + 1)
      PROVE  message.xpos = From(m2, i, old)
  <2>1. CASE i = n + 1
    BY <1>3, <2>1 DEF From
  <2>2. CASE i # n + 1
    <3>1. n + 1 \in i + 1 .. n + 1 /\ m2[n + 1].type = "mpos"
      BY <1>3, <2>2
    <3> QED
      BY <1>7, <3>1 DEF Quiet
  <2> QED
    BY <2>1, <2>2
<1>8. Chained(m2, message.xpos, old, t)
  BY <1>3, <1>6, <1>7 DEF Chained
<1> QED
  BY <1>2, <1>8

-----------------------------------------------------------------------------
(* Which size is on its way *)

\* The last resize on its way, in mailbox m or among the events after the first n,
\* has size s; if there is none, c is s.
NewestIn(q, n, i) ==
    /\ i \in n + 1 .. Len(q) /\ q[i].type = "resize"
    /\ \A k \in i + 1 .. Len(q) : q[k].type # "resize"
NoneIn(q, n) == \A k \in n + 1 .. Len(q) : q[k].type # "resize"
Newest(q, m, n, s, c) ==
    /\ \A i \in 1 .. Len(q) : NewestIn(q, n, i) => q[i].size = s
    /\ NoneIn(q, n) => \A i \in 1 .. Len(m) : NewestIn(m, 0, i) => m[i].size = s
    /\ NoneIn(q, n) /\ NoneIn(m, 0) => c = s

\* Messages about other things change nothing in that.
LEMMA NewestGrows ==
    ASSUME NEW m \in Seq(Message), NEW m2, Extends(m, m2), Fresh(m, m2, "resize")
    PROVE  /\ \A i \in 1 .. Len(m2) : NewestIn(m2, 0, i) =>
                 i \in 1 .. Len(m) /\ NewestIn(m, 0, i) /\ m2[i] = m[i]
           /\ NoneIn(m2, 0) => NoneIn(m, 0)
<1>1. PICK n \in Nat : n = Len(m)
  BY LenProperties
<1>2. PICK n2 \in Nat : n2 = Len(m2)
  BY LenProperties DEF Extends
<1>3. /\ n <= n2 /\ \A i \in 1 .. n : m2[i] = m[i]
      /\ \A i \in n + 1 .. n2 : m2[i].type # "resize"
  BY <1>1, <1>2 DEF Extends, Fresh
<1>4. ASSUME NEW i \in 1 .. n2, NewestIn(m2, 0, i)
      PROVE  i \in 1 .. n /\ NewestIn(m, 0, i) /\ m2[i] = m[i]
  <2>1. i \in 1 .. n2 /\ m2[i].type = "resize" /\ \A k \in i + 1 .. n2 : m2[k].type # "resize"
    BY <1>2, <1>4 DEF NewestIn
  <2>2. i \in 1 .. n
    BY <1>3, <2>1
  <2>3. \A k \in i + 1 .. n : m[k].type # "resize"
    <3>1. SUFFICES ASSUME NEW k \in i + 1 .. n PROVE m[k].type # "resize"
      OBVIOUS
    <3>2. k \in i + 1 .. n2 /\ k \in 1 .. n
      BY <1>3, <2>2
    <3> QED
      BY <1>3, <2>1, <3>2
  <2>4. i \in 0 + 1 .. n
    BY <2>2
  <2> QED
    BY <1>1, <1>3, <2>1, <2>2, <2>3, <2>4 DEF NewestIn
<1>5. ASSUME NoneIn(m2, 0) PROVE NoneIn(m, 0)
  <2>1. \A k \in 1 .. n2 : m2[k].type # "resize"
    BY <1>2, <1>5 DEF NoneIn
  <2>2. \A k \in 1 .. n : m[k].type # "resize"
    <3>1. SUFFICES ASSUME NEW k \in 1 .. n PROVE m[k].type # "resize"
      OBVIOUS
    <3>2. k \in 1 .. n2
      BY <1>3
    <3> QED
      BY <1>3, <2>1, <3>2
  <2> QED
    BY <1>1, <2>2 DEF NoneIn
<1> QED
  BY <1>1, <1>2, <1>4, <1>5

\* A resize stays on its way when it goes from the events to the mailbox.
LEMMA NewestDelivered ==
    ASSUME NEW s \in DeliverState, events \in Seq(Event), NEW n \in Nat, n + 1 <= Len(events),
           NEW r, Effect(s, events[n + 1], r), NEW size, NEW conf,
           Newest(events, s.mailbox, n, size, conf)
    PROVE  Newest(events, r.mailbox, n + 1, size, conf)
<1>1. PICK e \in Event : e = events[n + 1]
  <2>1. n + 1 \in 1 .. Len(events)
    OBVIOUS
  <2> QED
    BY <2>1, ElementOfSeq
<1>2. PICK m \in Seq(Message) : m = s.mailbox
  BY DEF DeliverState
<1>3. PICK l \in Nat : l = Len(events)
  BY LenProperties
<1>4. \A i \in 1 .. l : NewestIn(events, n + 1, i) => NewestIn(events, n, i)
  BY <1>3 DEF NewestIn
<1>5. \A i \in 1 .. l : NewestIn(events, n + 1, i) => events[i].size = size
  BY <1>3, <1>4 DEF Newest
<1>6. CASE e.type = "resize"
  <2>1. r.mailbox = Append(m, e) /\ e = Resize(e.size) /\ e.size \in Sizes
    BY <1>1, <1>2, <1>6, EventFields DEF Effect
  <2>2. PICK k \in Nat : k = Len(m)
    BY LenProperties
  <2>3. e \in Message
    BY <2>1, KindsOfMessage
  <2>4. PICK m2 : m2 = Append(m, e)
    OBVIOUS
  <2>5. Len(m2) = k + 1 /\ m2[k + 1] = e
    BY <2>2, <2>3, <2>4, AppendProperties
  <2>6. ASSUME NoneIn(events, n + 1) PROVE e.size = size
    <3>1. n + 1 \in 1 .. l /\ NewestIn(events, n, n + 1)
      BY <1>1, <1>3, <1>6, <2>6 DEF NoneIn, NewestIn
    <3> QED
      BY <1>1, <1>3, <3>1 DEF Newest
  <2>7. \A i \in 1 .. k + 1 : NewestIn(m2, 0, i) => i = k + 1
    <3>1. SUFFICES ASSUME NEW i \in 1 .. k + 1, NewestIn(m2, 0, i), i # k + 1 PROVE FALSE
      OBVIOUS
    <3>2. k + 1 \in i + 1 .. Len(m2)
      BY <2>5, <3>1
    <3> QED
      BY <1>6, <2>5, <3>1, <3>2 DEF NewestIn
  <2>8. ~NoneIn(m2, 0)
    BY <1>6, <2>5 DEF NoneIn
  <2>9. NoneIn(events, n + 1) => \A i \in 1 .. Len(m2) : NewestIn(m2, 0, i) => m2[i].size = size
    BY <2>5, <2>6, <2>7
  <2>10. Newest(events, m2, n + 1, size, conf)
    BY <1>3, <1>5, <2>8, <2>9 DEF Newest
  <2> QED
    BY <2>1, <2>4, <2>10
<1>7. CASE e.type # "resize"
  <2>1. PICK m2 : m2 = r.mailbox
    OBVIOUS
  <2>2. Extends(m, m2) /\ Fresh(m, m2, "resize")
    BY <1>1, <1>2, <1>7, <2>1 DEF Effect
  <2>3. NoneIn(events, n + 1) => NoneIn(events, n)
    <3>1. SUFFICES ASSUME NoneIn(events, n + 1), NEW k \in n + 1 .. l PROVE events[k].type # "resize"
      BY <1>3 DEF NoneIn
    <3>2. CASE k = n + 1
      BY <1>1, <1>7, <3>2
    <3>3. CASE k # n + 1
      <4>1. k \in (n + 1) + 1 .. l
        BY <3>3
      <4> QED
        BY <1>3, <3>1, <4>1 DEF NoneIn
    <3> QED
      BY <3>2, <3>3
  <2>4. \A i \in 1 .. Len(m2) : NewestIn(m2, 0, i) =>
           i \in 1 .. Len(m) /\ NewestIn(m, 0, i) /\ m2[i] = m[i]
    BY <2>2, NewestGrows
  <2>5. NoneIn(m2, 0) => NoneIn(m, 0)
    BY <2>2, NewestGrows
  <2>6. Newest(events, m2, n + 1, size, conf)
    BY <1>2, <1>3, <1>5, <2>3, <2>4, <2>5 DEF Newest
  <2> QED
    BY <2>1, <2>6
<1> QED
  BY <1>6, <1>7

-----------------------------------------------------------------------------
(* The events of a poll *)

\* The first i events are delivered, and s is where that led.
Reached(i, s) ==
    /\ s \in DeliverState
    /\ s.window.size = window.size
    /\ s.window.closed <=> window.closed \/ \E j \in 1 .. i : events[j].type = "close"
    /\ \A k \in Keys : s.window.key[k] # "up" <=>
          window.key[k] # "up"
             \/ \E j \in 1 .. i : events[j].type \in {"press", "release"} /\ events[j].key = k
    /\ Chained(mailbox, window.cursorPos, oldposx, turn)
          => Chained(s.mailbox, s.window.cursorPos, oldposx, turn)
    /\ Newest(events, mailbox, 0, window.size, mGraphicConfigs)
          => Newest(events, s.mailbox, i, window.size, mGraphicConfigs)

LEMMA ReachedStart ==
    ASSUME Types
    PROVE  Reached(0, [window |-> window, mailbox |-> mailbox])
<1> DEFINE s == [window |-> window, mailbox |-> mailbox]
<1>1. s \in DeliverState /\ s.window = window /\ s.mailbox = mailbox
  BY DEF Types, DeliverState
<1>2. \A j : j \notin 1 .. 0
  OBVIOUS
<1> HIDE DEF s
<1>3. Reached(0, s)
  BY <1>1, <1>2 DEF Reached
<1> QED
  BY <1>3 DEF s

\* Whether event i finds the cursor free is one of two answers.
LEMMA GrabIsBoolean ==
    ASSUME NEW s, NEW e, NEW i, NEW grabs
    PROVE  \E grabbed \in BOOLEAN : Deliver(s, e, i \in grabs) = Deliver(s, e, grabbed)
<1>1. CASE i \in grabs
  <2>1. Deliver(s, e, i \in grabs) = Deliver(s, e, TRUE)
    BY <1>1 DEF Deliver, GainFocus
  <2> QED
    BY <2>1
<1>2. CASE i \notin grabs
  <2>1. Deliver(s, e, i \in grabs) = Deliver(s, e, FALSE)
    BY <1>2 DEF Deliver, GainFocus
  <2> QED
    BY <2>1
<1> QED
  BY <1>1, <1>2

LEMMA ReachedNext ==
    ASSUME Types, NEW i \in Nat, i + 1 <= Len(events), NEW s, Reached(i, s),
           NEW grabbed \in BOOLEAN
    PROVE  Reached(i + 1, Deliver(s, events[i + 1], grabbed))
<1>1. PICK e : e = events[i + 1]
  OBVIOUS
<1>2. e \in Event /\ events \in Seq(Event)
  <2>1. i + 1 \in 1 .. Len(events)
    OBVIOUS
  <2> QED
    BY <1>1, <2>1, ElementOfSeq DEF Types
<1>3. PICK r : r = Deliver(s, e, grabbed)
  OBVIOUS
<1>4. s \in DeliverState
  BY DEF Reached
<1>5. Effect(s, e, r)
  BY <1>2, <1>3, <1>4, DeliverEffect
<1>6. \A j : j \in 1 .. i + 1 <=> j \in 1 .. i \/ j = i + 1
  OBVIOUS
<1>7. r \in DeliverState /\ r.window.size = window.size
  BY <1>5 DEF Effect, Reached
<1>8. r.window.closed <=> window.closed \/ \E j \in 1 .. i + 1 : events[j].type = "close"
  <2>1. r.window.closed <=> s.window.closed \/ e.type = "close"
    BY <1>5 DEF Effect
  <2>2. s.window.closed <=> window.closed \/ \E j \in 1 .. i : events[j].type = "close"
    BY DEF Reached
  <2> QED
    BY <1>1, <1>6, <2>1, <2>2
<1>9. \A k \in Keys : r.window.key[k] # "up" <=>
         window.key[k] # "up"
           \/ \E j \in 1 .. i + 1 : events[j].type \in {"press", "release"} /\ events[j].key = k
  <2>1. SUFFICES ASSUME NEW k \in Keys
                 PROVE  r.window.key[k] # "up" <=>
                          window.key[k] # "up"
                            \/ \E j \in 1 .. i + 1 : events[j].type \in {"press", "release"} /\ events[j].key = k
    OBVIOUS
  <2>2. r.window.key[k] # "up" <=>
           s.window.key[k] # "up" \/ (e.type \in {"press", "release"} /\ e.key = k)
    BY <1>5 DEF Effect
  <2>3. s.window.key[k] # "up" <=>
           window.key[k] # "up"
             \/ \E j \in 1 .. i : events[j].type \in {"press", "release"} /\ events[j].key = k
    BY DEF Reached
  <2> QED
    BY <1>1, <1>6, <2>2, <2>3
<1>10. ASSUME Chained(mailbox, window.cursorPos, oldposx, turn)
       PROVE  Chained(r.mailbox, r.window.cursorPos, oldposx, turn)
  <2>1. PICK m, x : m = s.mailbox /\ x = s.window.cursorPos /\ m \in Seq(Message)
    BY <1>4 DEF DeliverState
  <2>2. Chained(m, x, oldposx, turn)
    BY <1>10, <2>1 DEF Reached
  <2>3. CASE r.window.cursorPos = s.window.cursorPos /\ Fresh(s.mailbox, r.mailbox, "mpos")
    <3>1. Extends(m, r.mailbox) /\ Fresh(m, r.mailbox, "mpos") /\ r.window.cursorPos = x
      BY <1>5, <2>1, <2>3 DEF Effect
    <3> QED
      BY <2>1, <2>2, <3>1, ChainGrows
  <2>4. CASE \E message \in Message :
                /\ message.type = "mpos" /\ r.mailbox = Append(s.mailbox, message)
                /\ r.window.cursorPos = message.xpos
                /\ message.mode = "captured" => message.xpos = s.window.cursorPos + message.moved
    <3>1. PICK message \in Message :
                /\ message.type = "mpos" /\ r.mailbox = Append(m, message)
                /\ r.window.cursorPos = message.xpos
                /\ message.mode = "captured" => message.xpos = x + message.moved
      BY <2>1, <2>4
    <3> QED
      BY <2>1, <2>2, <3>1, ChainMoves
  <2> QED
    BY <1>5, <2>3, <2>4 DEF Effect
<1>11. ASSUME Newest(events, mailbox, 0, window.size, mGraphicConfigs)
       PROVE  Newest(events, r.mailbox, i + 1, window.size, mGraphicConfigs)
  BY <1>1, <1>2, <1>4, <1>5, <1>11, NewestDelivered DEF Reached
<1>12. Reached(i + 1, r)
  BY <1>7, <1>8, <1>9, <1>10, <1>11 DEF Reached
<1> QED
  BY <1>1, <1>3, <1>12

LEMMA DeliveredReaches ==
    ASSUME Types, NEW n \in 0 .. Len(events), NEW grabs
    PROVE  Reached(n, Delivered(n, grabs))
<1> DEFINE first == [window |-> window, mailbox |-> mailbox]
           F(f) == [i \in 0 .. n |-> IF i = 0 THEN [window |-> window, mailbox |-> mailbox]
                                     ELSE Deliver(f[i - 1], events[i], i \in grabs)]
           after == CHOOSE f : f = F(f)
           G == [p \in Nat \X DeliverState |-> IF p[1] \in 1 .. n
                                               THEN Deliver(p[2], events[p[1]], p[1] \in grabs)
                                               ELSE p[2]]
<1>1. Delivered(n, grabs) = after[n]
  BY DEF Delivered
<1>2. Len(events) \in Nat /\ n \in Nat /\ n <= Len(events)
  BY LenProperties DEF Types
<1>3. Reached(0, first) /\ first \in DeliverState
  BY ReachedStart DEF Reached
<1> HIDE DEF first
<1>4. ASSUME NEW i \in 1 .. n, NEW s \in DeliverState 
      PROVE  Deliver(s, events[i], i \in grabs) \in DeliverState
  <2>1. events[i] \in Event
    <3>1. i \in 1 .. Len(events)
      BY <1>2
    <3> QED
      BY <3>1, ElementOfSeq DEF Types
  <2>2. PICK grabbed \in BOOLEAN : Deliver(s, events[i], i \in grabs) = Deliver(s, events[i], grabbed)
    BY GrabIsBoolean
  <2>3. Deliver(s, events[i], grabbed) \in DeliverState
    BY <2>1, DeliverEffect DEF Effect
  <2> QED
    BY <2>2, <2>3
<1>5. G \in [Nat \X DeliverState -> DeliverState]
  BY <1>4
<1>6. ASSUME NEW i \in 0 .. n, i # 0, NEW s \in DeliverState 
      PROVE  G[<<i, s>>] = Deliver(s, events[i], i \in grabs)
  <2>1. i \in 1 .. n /\ <<i, s>> \in Nat \X DeliverState
    BY <1>2, <1>6
  <2> QED
    BY <2>1
<1> HIDE DEF G
<1>7. PICK g : Solves(g, n, first, G, DeliverState)
  BY <1>2, <1>3, <1>5, Recursion
<1>8. g = F(g)
  <2>1. ASSUME NEW i \in 0 .. n, i # 0 
        PROVE  g[i] = Deliver(g[i - 1], events[i], i \in grabs)
    <3>1. i \in 1 .. n /\ i - 1 \in 0 .. n
      BY <1>2, <2>1
    <3>2. g[i - 1] \in DeliverState
      BY <1>7, <3>1 DEF Solves
    <3> QED
      BY <1>6, <1>7, <2>1, <3>1, <3>2 DEF Solves
  <2> QED
    BY <1>7, <2>1 DEF Solves, first
<1>9. after = F(after)
  BY <1>8
<1> HIDE DEF after
<1>10. after[0] = first /\ \A i \in 1 .. n : after[i] = Deliver(after[i - 1], events[i], i \in grabs)
  <2>1. \A i \in 0 .. n : after[i] = IF i = 0 THEN first ELSE Deliver(after[i - 1], events[i], i \in grabs)
    BY <1>9 DEF first
  <2>2. 0 \in 0 .. n /\ \A i \in 1 .. n : i \in 0 .. n /\ i # 0
    BY <1>2
  <2> QED
    BY <2>1, <2>2
<1> HIDE DEF F
<1> DEFINE T == {i \in Nat : i <= n => Reached(i, after[i])}
<1>11. 0 \in T
  BY <1>3, <1>10
<1>12. ASSUME NEW i \in Nat, i \in T PROVE i + 1 \in T
  <2>1. SUFFICES ASSUME i + 1 <= n PROVE Reached(i + 1, after[i + 1])
    OBVIOUS
  <2>2. i + 1 \in 1 .. n /\ (i + 1) - 1 = i /\ i + 1 <= Len(events) /\ Reached(i, after[i])
    BY <1>2, <1>12, <2>1
  <2>3. after[i + 1] = Deliver(after[i], events[i + 1], i + 1 \in grabs)
    BY <1>10, <2>2
  <2>4. PICK s : s = after[i]
    OBVIOUS
  <2>5. PICK grabbed \in BOOLEAN :
           Deliver(s, events[i + 1], i + 1 \in grabs) = Deliver(s, events[i + 1], grabbed)
    BY GrabIsBoolean
  <2>6. Reached(i + 1, Deliver(s, events[i + 1], grabbed))
    BY <2>2, <2>4, ReachedNext
  <2> QED
    BY <2>3, <2>4, <2>5, <2>6
<1> HIDE DEF T
<1>13. n \in T
  BY <1>2, <1>11, <1>12, Induction
<1> QED
  BY <1>1, <1>2, <1>13 DEF T

-----------------------------------------------------------------------------
(* Messages handled and events added *)

LEMMA TailOf ==
    ASSUME NEW m \in Seq(Message), m # <<>>
    PROVE  /\ Len(m) \in Nat \ {0} /\ Head(m) = m[1] /\ m[1] \in Message
           /\ Tail(m) \in Seq(Message) /\ Len(Tail(m)) = Len(m) - 1
           /\ \A i \in 1 .. Len(m) - 1 : Tail(m)[i] = m[i + 1]
<1>1. Len(m) \in Nat \ {0}
  BY EmptySeq
<1>2. 1 \in 1 .. Len(m)
  BY <1>1
<1>3. m[1] \in Message
  BY <1>2, ElementOfSeq
<1> QED
  BY <1>1, <1>3, HeadTailProperties

\* Handling a message about something else changes nothing for the camera.
LEMMA ChainTail ==
    ASSUME NEW m \in Seq(Message), m # <<>>, m[1].type # "mpos",
           NEW x, NEW old, NEW t, Chained(m, x, old, t)
    PROVE  Chained(Tail(m), x, old, t)
<1>0. Len(m) \in Nat \ {0}
  BY TailOf
<1>1. PICK n \in Nat : Len(m) = n + 1
  <2>1. Len(m) - 1 \in Nat /\ Len(m) = (Len(m) - 1) + 1
    BY <1>0
  <2> QED
    BY <2>1
<1>2. PICK m2 : m2 = Tail(m)
  OBVIOUS
<1>3. Len(m2) = n /\ \A i \in 1 .. n : m2[i] = m[i + 1]
  BY <1>1, <1>2, TailOf
<1> DEFINE Was(i) == IF i = 0 THEN 0 ELSE i + 1
<1>4. \A i \in 0 .. n : /\ Was(i) \in 0 .. n + 1 /\ (Was(i) = 0 <=> i = 0)
                        /\ Mouse(m2, i) => Mouse(m, Was(i)) /\ From(m2, i, old) = From(m, Was(i), old)
  BY <1>3 DEF Mouse, From
<1>5. ASSUME NEW i \in 0 .. n, NEW j \in 0 .. n, Quiet(m2, i, j) PROVE Quiet(m, Was(i), j + 1)
  <2>1. SUFFICES ASSUME NEW k \in Was(i) + 1 .. j + 1 PROVE m[k].type # "mpos"
    BY DEF Quiet
  <2>2. CASE k = 1
    BY <2>2
  <2>3. CASE k # 1
    <3>1. k - 1 \in i + 1 .. j /\ k - 1 \in 1 .. n /\ (k - 1) + 1 = k
      BY <2>3
    <3> QED
      BY <1>3, <1>5, <3>1 DEF Quiet
  <2> QED
    BY <2>2, <2>3
<1>6. ASSUME NEW i \in 0 .. n, NEW j \in 1 .. n, i < j, Mouse(m2, i), i = 0 => t # noTurn,
             Quiet(m2, i, j - 1), m2[j].type = "mpos", m2[j].mode = "captured"
      PROVE  m2[j].xpos = From(m2, i, old) + m2[j].moved
  <2>1. /\ Was(i) \in 0 .. n + 1 /\ (Was(i) = 0 <=> i = 0) /\ Mouse(m, Was(i))
        /\ From(m2, i, old) = From(m, Was(i), old)
    BY <1>4, <1>6
  <2>2. j + 1 \in 1 .. n + 1 /\ m2[j] = m[j + 1] /\ (j - 1) + 1 = (j + 1) - 1 /\ j - 1 \in 0 .. n
        /\ Was(i) < j + 1
    BY <1>3, <1>6
  <2>3. Quiet(m, Was(i), (j + 1) - 1)
    BY <1>5, <1>6, <2>2
  <2> HIDE DEF Was
  <2> QED
    BY <1>1, <1>6, <2>1, <2>2, <2>3 DEF Chained
<1>7. ASSUME NEW i \in 0 .. n, Mouse(m2, i), i = 0 => t # noTurn, Quiet(m2, i, n)
      PROVE  x = From(m2, i, old)
  <2>1. /\ Was(i) \in 0 .. n + 1 /\ (Was(i) = 0 <=> i = 0) /\ Mouse(m, Was(i))
        /\ From(m2, i, old) = From(m, Was(i), old)
    BY <1>4, <1>7
  <2>2. Quiet(m, Was(i), n + 1)
    BY <1>5, <1>7
  <2> HIDE DEF Was
  <2> QED
    BY <1>1, <1>7, <2>1, <2>2 DEF Chained
<1>8. Chained(m2, x, old, t)
  BY <1>3, <1>6, <1>7 DEF Chained
<1> QED
  BY <1>2, <1>8

\* Once a movement is handled, the next goes on from it.
LEMMA ChainHandled ==
    ASSUME NEW m \in Seq(Message), m # <<>>, m[1].type = "mpos",
           NEW x, NEW old, NEW t, NEW t2, Chained(m, x, old, t)
    PROVE  /\ Chained(Tail(m), x, m[1].xpos, t2)
           /\ m[1].mode = "captured" /\ t # noTurn => m[1].xpos = old + m[1].moved
<1>0. Len(m) \in Nat \ {0}
  BY TailOf
<1>1. PICK n \in Nat : Len(m) = n + 1
  <2>1. Len(m) - 1 \in Nat /\ Len(m) = (Len(m) - 1) + 1
    BY <1>0
  <2> QED
    BY <2>1
<1>2. PICK m2 : m2 = Tail(m)
  OBVIOUS
<1>3. Len(m2) = n /\ \A i \in 1 .. n : m2[i] = m[i + 1]
  BY <1>1, <1>2, TailOf
<1>4. \A i \in 0 .. n : Mouse(m2, i) => /\ Mouse(m, i + 1)
                                        /\ From(m2, i, m[1].xpos) = From(m, i + 1, old)
  BY <1>3 DEF Mouse, From
<1>5. ASSUME NEW i \in 0 .. n, NEW j \in 0 .. n, Quiet(m2, i, j) PROVE Quiet(m, i + 1, j + 1)
  <2>1. SUFFICES ASSUME NEW k \in (i + 1) + 1 .. j + 1 PROVE m[k].type # "mpos"
    BY DEF Quiet
  <2>2. k - 1 \in i + 1 .. j /\ k - 1 \in 1 .. n /\ (k - 1) + 1 = k
    OBVIOUS
  <2> QED
    BY <1>3, <1>5, <2>2 DEF Quiet
<1>6. ASSUME NEW i \in 0 .. n, NEW j \in 1 .. n, i < j, Mouse(m2, i),
             Quiet(m2, i, j - 1), m2[j].type = "mpos", m2[j].mode = "captured"
      PROVE  m2[j].xpos = From(m2, i, m[1].xpos) + m2[j].moved
  <2>1. i + 1 \in 0 .. n + 1 /\ i + 1 # 0 /\ Mouse(m, i + 1)
        /\ From(m2, i, m[1].xpos) = From(m, i + 1, old)
    BY <1>4, <1>6
  <2>2. j + 1 \in 1 .. n + 1 /\ m2[j] = m[j + 1] /\ (j - 1) + 1 = (j + 1) - 1 /\ j - 1 \in 0 .. n
        /\ i + 1 < j + 1
    BY <1>3, <1>6
  <2>3. Quiet(m, i + 1, (j + 1) - 1)
    BY <1>5, <1>6, <2>2
  <2> QED
    BY <1>1, <1>6, <2>1, <2>2, <2>3 DEF Chained
<1>7. ASSUME NEW i \in 0 .. n, Mouse(m2, i), Quiet(m2, i, n)
      PROVE  x = From(m2, i, m[1].xpos)
  <2>1. i + 1 \in 0 .. n + 1 /\ i + 1 # 0 /\ Mouse(m, i + 1)
        /\ From(m2, i, m[1].xpos) = From(m, i + 1, old)
    BY <1>4, <1>7
  <2>2. Quiet(m, i + 1, n + 1)
    BY <1>5, <1>7
  <2> QED
    BY <1>1, <1>7, <2>1, <2>2 DEF Chained
<1>8. Chained(m2, x, m[1].xpos, t2)
  BY <1>3, <1>6, <1>7 DEF Chained
<1>9. ASSUME m[1].mode = "captured", t # noTurn PROVE m[1].xpos = old + m[1].moved
  <2>1. 0 \in 0 .. n + 1 /\ 1 \in 1 .. n + 1 /\ 0 < 1 /\ Mouse(m, 0) /\ From(m, 0, old) = old
        /\ Quiet(m, 0, 1 - 1)
    BY DEF Mouse, From, Quiet
  <2> QED
    BY <1>1, <1>9, <2>1 DEF Chained
<1> QED
  BY <1>2, <1>8, <1>9

\* Handling a message about something else changes nothing for the size; a resize
\* leaves its size in the configuration.
LEMMA NewestTail ==
    ASSUME NEW m \in Seq(Message), m # <<>>, NEW q, NEW s, NEW c, NEW c2, Newest(q, m, 0, s, c),
           c2 = IF m[1].type = "resize" THEN m[1].size ELSE c
    PROVE  Newest(q, Tail(m), 0, s, c2)
<1>0. Len(m) \in Nat \ {0}
  BY TailOf
<1>1. PICK n \in Nat : Len(m) = n + 1
  <2>1. Len(m) - 1 \in Nat /\ Len(m) = (Len(m) - 1) + 1
    BY <1>0
  <2> QED
    BY <2>1
<1>2. PICK m2 : m2 = Tail(m)
  OBVIOUS
<1>3. Len(m2) = n /\ \A i \in 1 .. n : m2[i] = m[i + 1]
  BY <1>1, <1>2, TailOf
<1>4. ASSUME NEW i \in 1 .. n, NewestIn(m2, 0, i)
      PROVE  i + 1 \in 1 .. n + 1 /\ NewestIn(m, 0, i + 1)
  <2>1. m[i + 1].type = "resize" /\ \A k \in i + 1 .. n : m2[k].type # "resize"
    BY <1>3, <1>4 DEF NewestIn
  <2>2. ASSUME NEW k \in (i + 1) + 1 .. n + 1 PROVE m[k].type # "resize"
    <3>1. k - 1 \in i + 1 .. n /\ k - 1 \in 1 .. n /\ (k - 1) + 1 = k
      OBVIOUS
    <3> QED
      BY <1>3, <2>1, <3>1
  <2>3. i + 1 \in 0 + 1 .. n + 1
    OBVIOUS
  <2> QED
    BY <1>1, <2>1, <2>2, <2>3 DEF NewestIn
<1>5. ASSUME NoneIn(m2, 0) PROVE \A k \in 2 .. n + 1 : m[k].type # "resize"
  <2>1. SUFFICES ASSUME NEW k \in 2 .. n + 1 PROVE m[k].type # "resize"
    OBVIOUS
  <2>2. k - 1 \in 0 + 1 .. n /\ k - 1 \in 1 .. n /\ (k - 1) + 1 = k
    OBVIOUS
  <2> QED
    BY <1>3, <1>5, <2>2 DEF NoneIn
<1>6. ASSUME NoneIn(q, 0), NoneIn(m2, 0) PROVE c2 = s
  <2>1. CASE m[1].type = "resize"
    <3>1. 1 \in 1 .. n + 1 /\ NewestIn(m, 0, 1)
      BY <1>1, <1>5, <1>6, <2>1 DEF NewestIn
    <3> QED
      BY <1>1, <1>6, <2>1, <3>1 DEF Newest
  <2>2. CASE m[1].type # "resize"
    <3>1. \A k \in 0 + 1 .. n + 1 : k = 1 \/ k \in 2 .. n + 1
      OBVIOUS
    <3>2. NoneIn(m, 0)
      BY <1>1, <1>5, <1>6, <2>2, <3>1 DEF NoneIn
    <3> QED
      BY <1>6, <2>2, <3>2 DEF Newest
  <2> QED
    BY <2>1, <2>2
<1>7. NoneIn(q, 0) => \A i \in 1 .. Len(m2) : NewestIn(m2, 0, i) => m2[i].size = s
  BY <1>1, <1>3, <1>4 DEF Newest
<1>8. Newest(q, m2, 0, s, c2)
  BY <1>6, <1>7 DEF Newest
<1> QED
  BY <1>2, <1>8

\* One more event: one that is no resize changes nothing, a resize has the size.
LEMMA NewestAppended ==
    ASSUME NEW q \in Seq(Event), NEW e \in Event, NEW m, NEW s, NEW c,
           IF e.type = "resize" THEN e.size = s ELSE Newest(q, m, 0, s, c)
    PROVE  Newest(Append(q, e), m, 0, s, c)
<1>1. PICK n \in Nat : n = Len(q)
  BY LenProperties
<1>2. PICK q2 : q2 = Append(q, e)
  OBVIOUS
<1>3. Len(q2) = n + 1 /\ (\A i \in 1 .. n : q2[i] = q[i]) /\ q2[n + 1] = e
  BY <1>1, <1>2, AppendProperties
<1>4. CASE e.type = "resize"
  <2>1. \A i \in 1 .. n + 1 : NewestIn(q2, 0, i) => i = n + 1
    <3>1. SUFFICES ASSUME NEW i \in 1 .. n + 1, NewestIn(q2, 0, i), i # n + 1 PROVE FALSE
      OBVIOUS
    <3>2. n + 1 \in i + 1 .. n + 1
      BY <3>1
    <3> QED
      BY <1>3, <1>4, <3>1, <3>2 DEF NewestIn
  <2>2. ~NoneIn(q2, 0)
    BY <1>3, <1>4 DEF NoneIn
  <2>3. Newest(q2, m, 0, s, c)
    BY <1>3, <1>4, <2>1, <2>2 DEF Newest
  <2> QED
    BY <1>2, <2>3
<1>5. CASE e.type # "resize"
  <2>1. ASSUME NEW i \in 1 .. n + 1, NewestIn(q2, 0, i)
        PROVE  i \in 1 .. n /\ NewestIn(q, 0, i) /\ q2[i] = q[i]
    <3>1. i # n + 1
      BY <1>3, <1>5, <2>1 DEF NewestIn
    <3>2. i \in 1 .. n
      BY <3>1
    <3> QED
      BY <1>1, <1>3, <2>1, <3>2 DEF NewestIn
  <2>2. NoneIn(q2, 0) => NoneIn(q, 0)
    BY <1>1, <1>3 DEF NoneIn
  <2>3. Newest(q2, m, 0, s, c)
    BY <1>1, <1>3, <1>5, <2>1, <2>2 DEF Newest
  <2> QED
    BY <1>2, <2>3
<1> QED
  BY <1>4, <1>5

\* The events still waiting are those after the first n.
LEMMA NewestWaiting ==
    ASSUME NEW q \in Seq(Event), NEW n \in 0 .. Len(q), NEW m, NEW s, NEW c, Newest(q, m, n, s, c)
    PROVE  /\ SubSeq(q, n + 1, Len(q)) \in Seq(Event)
           /\ Newest(SubSeq(q, n + 1, Len(q)), m, 0, s, c)
<1>1. PICK l \in Nat : l = Len(q)
  BY LenProperties
<1>2. PICK q2 : q2 = SubSeq(q, n + 1, l)
  OBVIOUS
<1>3. q2 \in Seq(Event) /\ Len(q2) = l - n /\ \A i \in 1 .. l - n : q2[i] = q[n + i]
  <2>1. \A i \in n + 1 .. l : q[i] \in Event
    <3>1. \A i \in n + 1 .. l : i \in 1 .. Len(q)
      BY <1>1
    <3> QED
      BY <3>1, ElementOfSeq
  <2>2. n + 1 \in Int /\ l \in Int /\ n <= l
    BY <1>1
  <2>3. /\ q2 \in Seq(Event) /\ Len(q2) = IF n + 1 <= l THEN l - (n + 1) + 1 ELSE 0
        /\ \A i \in 1 .. l - (n + 1) + 1 : q2[i] = q[n + 1 + i - 1]
    BY <1>2, <2>1, <2>2, SubSeqProperties
  <2>4. \A i \in 1 .. l - n : n + 1 + i - 1 = n + i
    BY <1>1
  <2>5. l - (n + 1) + 1 = l - n
    BY <1>1
  <2> QED
    BY <2>2, <2>3, <2>4, <2>5
<1>4. ASSUME NEW i \in 1 .. l - n, NewestIn(q2, 0, i)
      PROVE  n + i \in 1 .. l /\ NewestIn(q, n, n + i)
  <2>1. n \in Nat /\ n <= l /\ n + i \in n + 1 .. l /\ n + i \in 1 .. l
    BY <1>1
  <2>2. ASSUME NEW k \in (n + i) + 1 .. l PROVE q[k].type # "resize"
    <3>1. k - n \in i + 1 .. l - n /\ k - n \in 1 .. l - n /\ n + (k - n) = k
      BY <2>1
    <3> QED
      BY <1>3, <1>4, <3>1 DEF NewestIn
  <2> QED
    BY <1>1, <1>3, <1>4, <2>1, <2>2 DEF NewestIn
<1>5. ASSUME NoneIn(q2, 0) PROVE NoneIn(q, n)
  <2>1. SUFFICES ASSUME NEW k \in n + 1 .. l PROVE q[k].type # "resize"
    BY <1>1 DEF NoneIn
  <2>2. k - n \in 0 + 1 .. l - n /\ k - n \in 1 .. l - n /\ n + (k - n) = k
    BY <1>1
  <2> QED
    BY <1>3, <1>5, <2>2 DEF NoneIn
<1>6. Newest(q2, m, 0, s, c)
  BY <1>1, <1>3, <1>4, <1>5 DEF Newest
<1> QED
  BY <1>1, <1>2, <1>3, <1>6


-----------------------------------------------------------------------------
(* The inductive invariant *)

\* In each part of the frame, whether the user has asked for the end is known
\* from what the loop will look at.
Quit == window.closed \/ window.key[ESC] # "up"
Counts ==
    /\ pc = "poll" => running /\ ~asked /\ ~Quit
    /\ pc = "update" => running /\ (asked <=> Quit) /\ \A k \in tapped : Held(k)
    /\ pc = "check" =>
         /\ asked <=> ~running \/ window.closed
         /\ running => window.key[ESC] = "up"
         /\ \A p \in Opposites : /\ p[1] \in tapped => p[1] \in steps
                                 /\ p[2] \in tapped => p[1] \in steps \/ p[2] \in steps
    /\ pc = "drain" => (asked <=> ~running) /\ (running => ~Quit)
    /\ pc = "stopped" => asked

Follows == Chained(mailbox, window.cursorPos, oldposx, turn) /\ TurnsAsMoved

\* When the callback comes from within glfwSetWindowSize, a resize by the user that
\* waits for the poll is overtaken, and the sizes need not agree.
Agrees == ~Synchronous => Newest(events, mailbox, 0, window.size, mGraphicConfigs)

Inv == Types /\ Follows /\ Agrees /\ Counts

LEMMA StartsWell == Init => Inv
<1> SUFFICES ASSUME Init PROVE Inv
  OBVIOUS
<1>1. window \in Window
  <2>1. [k \in Keys |-> "up"] \in [Keys -> {"up", "down", "stick"}] /\ Positions \subseteq Int
    BY AppAssumption
  <2>2. /\ window \in [size : {mGraphicConfigs}, closed : {FALSE}, focused : {TRUE},
                       key : {[k \in Keys |-> "up"]}, cursorMode : {"captured"},
                       cursorPos : Positions, known : {0}, centered : {FALSE}]
        /\ mGraphicConfigs \in Sizes /\ 0 \in Positions
    BY AppAssumption DEF Init
  <2> QED
    BY <2>1, <2>2 DEF Window
<1>2. <<>> \in Seq(Message) /\ <<>> \in Seq(Event) /\ Len(<<>>) = 0
  BY EmptySeq
<1>3. Types
  BY <1>1, <1>2, AppAssumption DEF Init, Types
<1>4. mailbox = <<>> /\ events = <<>> /\ turn = noTurn /\ window.size = mGraphicConfigs
  BY DEF Init
<1>5. Follows
  <2>1. Chained(<<>>, window.cursorPos, oldposx, noTurn)
    BY <1>2 DEF Chained
  <2> QED
    BY <1>4, <2>1 DEF Follows, TurnsAsMoved, noTurn
<1>6. Agrees
  BY <1>2, <1>4 DEF Agrees, Newest
<1>7. Counts
  <2>1. pc = "poll" /\ running /\ ~asked /\ ~window.closed /\ window.key = [k \in Keys |-> "up"]
    BY DEF Init
  <2>2. window.key[ESC] = "up"
    BY <2>1, AppAssumption
  <2> QED
    BY <2>1, <2>2 DEF Counts, Quit
<1> QED
  BY <1>3, <1>5, <1>6, <1>7 DEF Inv

\* What most steps leave alone.
LEMMA CountsKept ==
    ASSUME Counts, UNCHANGED <<pc, running, asked, tapped, steps>>,
           window'.closed = window.closed, window'.key = window.key
    PROVE  Counts'
  BY DEF Counts, Quit, Held

LEMMA FollowsKept ==
    ASSUME Follows, UNCHANGED <<oldposx, turn>>, window'.cursorPos = window.cursorPos,
           mailbox \in Seq(Message), Extends(mailbox, mailbox'), Fresh(mailbox, mailbox', "mpos")
    PROVE  Follows'
<1>1. PICK m, m2, x, o, t : /\ m = mailbox /\ m2 = mailbox' /\ x = window.cursorPos
                            /\ o = oldposx /\ t = turn
  OBVIOUS
<1>2. Chained(m, x, o, t)
  BY <1>1 DEF Follows
<1>3. Chained(m2, x, o, t)
  BY <1>1, <1>2, ChainGrows
<1>4. Chained(mailbox', window'.cursorPos, oldposx', turn')
  BY <1>1, <1>3
<1> QED
  BY <1>4 DEF Follows, TurnsAsMoved

LEMMA StutterKeeps ==
    ASSUME Inv, UNCHANGED vars
    PROVE  Inv'
<1> USE DEF vars, loop, app, system, history
<1>1. Types'
  BY DEF Inv, Types
<1>2. Follows'
  BY DEF Inv, Follows, TurnsAsMoved
<1>3. Agrees'
  BY DEF Inv, Agrees
<1>4. Counts'
  BY CountsKept DEF Inv
<1> QED
  BY <1>1, <1>2, <1>3, <1>4 DEF Inv

LEMMA UserDoesKeeps ==
    ASSUME Inv, NEW e \in UserEvents, UserDoes(e)
    PROVE  Inv'
<1> USE DEF loop, app, history
<1>1. Types /\ Follows /\ Agrees /\ Counts
  BY DEF Inv
<1>2. e \in Event /\ e.type # "resize"
  BY DEF UserEvents, Event, Motion, Focus, Press, Release
<1>3. /\ UNCHANGED <<pc, running, mailbox, mGraphicConfigs, oldposx, mCamMode, window>>
      /\ UNCHANGED <<asked, turn, tapped, steps>> /\ events' = Append(events, e)
  BY DEF UserDoes, Happens
<1>4. pointer' \in Positions
  <2>1. e.type = "move" => e.x \in Positions
    BY <1>2, EventFields
  <2> QED
    BY <1>1, <2>1 DEF UserDoes, Types
<1>5. PICK q \in Seq(Event) : q = events
  BY <1>1 DEF Types
<1>6. Append(q, e) \in Seq(Event)
  BY <1>2, <1>5, AppendProperties
<1>7. Types'
  BY <1>1, <1>3, <1>4, <1>5, <1>6 DEF Types
<1>8. Follows'
  BY <1>1, <1>3 DEF Follows, TurnsAsMoved
<1>9. Agrees'
  <2>1. SUFFICES ASSUME ~Synchronous
                 PROVE  Newest(Append(q, e), mailbox, 0, window.size, mGraphicConfigs)
    BY <1>3, <1>5 DEF Agrees
  <2>2. Newest(q, mailbox, 0, window.size, mGraphicConfigs)
    BY <1>1, <1>5, <2>1 DEF Agrees
  <2> QED
    BY <1>2, <1>5, <2>2, NewestAppended
<1>10. Counts'
  BY <1>1, <1>3, CountsKept
<1> QED
  BY <1>7, <1>8, <1>9, <1>10 DEF Inv

LEMMA UserResizesKeeps ==
    ASSUME Inv, NEW s \in Sizes, UserResizes(s)
    PROVE  Inv'
<1> USE DEF loop, app, history
<1>1. Types /\ Follows /\ Agrees /\ Counts
  BY DEF Inv
<1>2. PICK e : e = Resize(s)
  OBVIOUS
<1>3. e \in Event /\ e.type = "resize" /\ e.size = s
  BY <1>2 DEF Event, Resize
<1>4. /\ UNCHANGED <<pc, running, mailbox, mGraphicConfigs, oldposx, mCamMode, pointer>>
      /\ UNCHANGED <<asked, turn, tapped, steps>> /\ events' = Append(events, e)
      /\ window' = [window EXCEPT !.size = s]
  BY <1>2 DEF UserResizes, Happens
<1>5. /\ window' \in Window /\ window'.size = s /\ window'.cursorPos = window.cursorPos
      /\ window'.closed = window.closed /\ window'.key = window.key
  BY <1>1, <1>4 DEF Types, Window
<1>6. PICK q \in Seq(Event) : q = events
  BY <1>1 DEF Types
<1>7. Append(q, e) \in Seq(Event)
  BY <1>3, <1>6, AppendProperties
<1>8. Types'
  BY <1>1, <1>4, <1>5, <1>6, <1>7 DEF Types
<1>9. Follows'
  BY <1>1, <1>4, <1>5 DEF Follows, TurnsAsMoved
<1>10. Agrees'
  <2>1. Newest(Append(q, e), mailbox, 0, s, mGraphicConfigs)
    BY <1>3, <1>6, NewestAppended
  <2> QED
    BY <1>4, <1>5, <1>6, <2>1 DEF Agrees
<1>11. Counts'
  BY <1>1, <1>4, <1>5, CountsKept
<1> QED
  BY <1>8, <1>9, <1>10, <1>11 DEF Inv


-----------------------------------------------------------------------------
(* The steps of the loop keep it *)

LEMMA WarpKeeps ==
    ASSUME NEW w \in Window, NEW q \in Seq(Event), pointer \in Positions, Warp(w, q)
    PROVE  /\ window' \in Window /\ pointer' \in Positions /\ events' \in Seq(Event)
           /\ window'.size = w.size /\ window'.closed = w.closed /\ window'.key = w.key
           /\ window'.cursorPos = w.cursorPos
           /\ \A m, s, c : Newest(q, m, 0, s, c) => Newest(events', m, 0, s, c)
<1>1. 0 \in Positions
  BY AppAssumption
<1>2. window' = [w EXCEPT !.known = 0] /\ pointer' = 0
  BY DEF Warp
<1>3. /\ window' \in Window /\ window'.size = w.size /\ window'.closed = w.closed
      /\ window'.key = w.key /\ window'.cursorPos = w.cursorPos
  BY <1>1, <1>2 DEF Window
<1>4. PICK e : e = Motion(0)
  OBVIOUS
<1>5. e \in Event /\ e.type # "resize"
  BY <1>1, <1>4 DEF Event, Motion
<1>6. events' = q \/ events' = Append(q, e)
  BY <1>4 DEF Warp
<1>7. Append(q, e) \in Seq(Event)
  BY <1>5, AppendProperties
<1>8. \A m, s, c : Newest(q, m, 0, s, c) => Newest(Append(q, e), m, 0, s, c)
  BY <1>5, NewestAppended
<1> QED
  BY <1>1, <1>2, <1>3, <1>6, <1>7, <1>8

\* What a poll that delivers the first n events does.
Polled(n) ==
    /\ window' \in Window /\ pointer' \in Positions /\ events' \in Seq(Event)
    /\ mailbox' \in Seq(Message) /\ window'.size = window.size
    /\ window'.closed <=> window.closed \/ \E j \in 1 .. n : events[j].type = "close"
    /\ \A k \in Keys : window'.key[k] # "up" <=>
          window.key[k] # "up"
             \/ \E j \in 1 .. n : events[j].type \in {"press", "release"} /\ events[j].key = k
    /\ Chained(mailbox, window.cursorPos, oldposx, turn)
          => Chained(mailbox', window'.cursorPos, oldposx, turn)
    /\ Newest(events, mailbox, 0, window.size, mGraphicConfigs)
          => Newest(events', mailbox', 0, window.size, mGraphicConfigs)
    /\ asked' = (asked \/ \E j \in 1 .. n : Stops(events[j]))
    /\ tapped' = {k \in Keys : \E j \in 1 .. n : events[j] = Press(k)}

LEMMA PollPolls ==
    ASSUME Types, Poll
    PROVE  \E n \in 0 .. Len(events) : Polled(n)
<1> DEFINE Waiting(n) == SubSeq(events, n + 1, Len(events))
           Warped(n, grabs) == Warp([Delivered(n, grabs).window EXCEPT !.centered = TRUE], Waiting(n))
           Left(n, grabs) == window' = Delivered(n, grabs).window /\ events' = Waiting(n) /\ pointer' = pointer
<1>0. PICK n \in 0 .. Len(events) :
         \E grabs \in SUBSET {i \in 1 .. n : events[i] = Focus(TRUE)} :
            /\ mailbox' = Delivered(n, grabs).mailbox
            /\ Warped(n, grabs) \/ Left(n, grabs)
            /\ asked' = (asked \/ \E j \in 1 .. n : Stops(events[j]))
            /\ tapped' = {k \in Keys : \E j \in 1 .. n : events[j] = Press(k)}
  BY DEF Poll
<1>1. PICK grabs \in SUBSET {i \in 1 .. n : events[i] = Focus(TRUE)} :
         /\ mailbox' = Delivered(n, grabs).mailbox
         /\ Warped(n, grabs) \/ Left(n, grabs)
         /\ asked' = (asked \/ \E j \in 1 .. n : Stops(events[j]))
         /\ tapped' = {k \in Keys : \E j \in 1 .. n : events[j] = Press(k)}
  BY <1>0
<1>2. PICK s : s = Delivered(n, grabs)
  OBVIOUS
<1>3. Reached(n, s)
  BY <1>2, DeliveredReaches
<1>4. PICK w, m : w = s.window /\ m = s.mailbox /\ w \in Window /\ m \in Seq(Message)
  BY <1>3 DEF Reached, DeliverState
<1>5. PICK q : q = Waiting(n)
  OBVIOUS
<1>6. /\ q \in Seq(Event)
      /\ \A size, conf : Newest(events, m, n, size, conf) => Newest(q, m, 0, size, conf)
  <2>1. events \in Seq(Event)
    BY DEF Types
  <2>2. /\ Waiting(n) \in Seq(Event)
        /\ \A size, conf : Newest(events, m, n, size, conf) => Newest(Waiting(n), m, 0, size, conf)
    <3>1. ASSUME NEW size, NEW conf, Newest(events, m, n, size, conf)
          PROVE  Newest(Waiting(n), m, 0, size, conf)
      BY <2>1, <3>1, NewestWaiting
    <3>2. Waiting(n) \in Seq(Event)
      <4>1. PICK l \in Nat : l = Len(events)
        BY <2>1, LenProperties
      <4>2. \A i \in n + 1 .. l : i \in 1 .. Len(events)
        BY <4>1
      <4>3. \A i \in n + 1 .. l : events[i] \in Event
        BY <2>1, <4>2, ElementOfSeq
      <4>4. n + 1 \in Int /\ l \in Int
        BY <4>1
      <4> QED
        BY <4>1, <4>3, <4>4, SubSeqProperties
    <3> QED
      BY <3>1, <3>2
  <2> QED
    BY <1>5, <2>2
<1>7. pointer \in Positions
  BY DEF Types
<1>8. /\ window' \in Window /\ pointer' \in Positions /\ events' \in Seq(Event)
      /\ window'.size = w.size /\ window'.closed = w.closed /\ window'.key = w.key
      /\ window'.cursorPos = w.cursorPos
      /\ \A size, conf : Newest(q, m, 0, size, conf) => Newest(events', m, 0, size, conf)
  <2>1. CASE Left(n, grabs)
    <3>1. window' = w /\ events' = q /\ pointer' = pointer
      BY <1>2, <1>4, <1>5, <2>1
    <3> QED
      BY <1>4, <1>6, <1>7, <3>1
  <2>2. CASE Warped(n, grabs)
    <3>1. PICK w2 : w2 = [w EXCEPT !.centered = TRUE]
      OBVIOUS
    <3>2. /\ w2 \in Window /\ w2.size = w.size /\ w2.closed = w.closed /\ w2.key = w.key
          /\ w2.cursorPos = w.cursorPos
      BY <1>4, <3>1 DEF Window
    <3>3. Warp(w2, q)
      BY <1>2, <1>4, <1>5, <2>2, <3>1
    <3> QED
      BY <1>6, <1>7, <3>2, <3>3, WarpKeeps
  <2> QED
    BY <1>1, <2>1, <2>2
<1> HIDE DEF Waiting, Warped, Left
<1>9. mailbox' = m
  BY <1>1, <1>2, <1>4
<1>10. /\ window'.size = window.size
       /\ window'.closed <=> window.closed \/ \E j \in 1 .. n : events[j].type = "close"
       /\ \A k \in Keys : window'.key[k] # "up" <=>
             window.key[k] # "up"
                \/ \E j \in 1 .. n : events[j].type \in {"press", "release"} /\ events[j].key = k
  BY <1>3, <1>4, <1>8 DEF Reached
<1>11. Chained(mailbox, window.cursorPos, oldposx, turn)
          => Chained(mailbox', window'.cursorPos, oldposx, turn)
  <2>1. Chained(mailbox, window.cursorPos, oldposx, turn) => Chained(m, w.cursorPos, oldposx, turn)
    BY <1>3, <1>4 DEF Reached
  <2> QED
    BY <1>8, <1>9, <2>1
<1>12. Newest(events, mailbox, 0, window.size, mGraphicConfigs)
          => Newest(events', mailbox', 0, window.size, mGraphicConfigs)
  <2>1. Newest(events, mailbox, 0, window.size, mGraphicConfigs)
          => Newest(events, m, n, window.size, mGraphicConfigs)
    BY <1>3, <1>4 DEF Reached
  <2> QED
    BY <1>6, <1>8, <1>9, <2>1
<1>13. Polled(n)
  BY <1>1, <1>4, <1>8, <1>9, <1>10, <1>11, <1>12 DEF Polled
<1> QED
  BY <1>13

LEMMA PollKeeps ==
    ASSUME Inv, Poll
    PROVE  Inv'
<1>1. Types /\ Follows /\ Agrees /\ Counts
  BY DEF Inv
<1>2. PICK n \in 0 .. Len(events) : Polled(n)
  BY <1>1, PollPolls
<1>3. /\ pc = "poll" /\ pc' = "update"
      /\ UNCHANGED <<running, mGraphicConfigs, oldposx, mCamMode, turn>>
  BY DEF Poll, app
<1>4. running /\ ~asked /\ ~window.closed /\ window.key[ESC] = "up"
  BY <1>1, <1>3 DEF Counts, Quit
<1>5. events \in Seq(Event) /\ \A j \in 1 .. n : events[j] \in Event
  <2>1. events \in Seq(Event) /\ Len(events) \in Nat
    BY <1>1, LenProperties DEF Types
  <2>2. \A j \in 1 .. n : j \in 1 .. Len(events)
    BY <2>1
  <2> QED
    BY <2>1, <2>2, ElementOfSeq
<1>6. asked' <=> \E j \in 1 .. n : Stops(events[j])
  BY <1>2, <1>4 DEF Polled
<1>7. asked' \in BOOLEAN
  BY <1>1, <1>2 DEF Polled, Types
<1>8. Types'
  BY <1>1, <1>2, <1>3, <1>7 DEF Types, Polled
<1>9. Follows'
  BY <1>1, <1>2, <1>3 DEF Follows, Polled, TurnsAsMoved
<1>10. Agrees'
  BY <1>1, <1>2, <1>3 DEF Agrees, Polled
<1>11. asked' <=> Quit'
  <2>1. window'.closed <=> \E j \in 1 .. n : events[j].type = "close"
    BY <1>2, <1>4 DEF Polled
  <2>2. window'.key[ESC] # "up" <=>
          \E j \in 1 .. n : events[j].type \in {"press", "release"} /\ events[j].key = ESC
    BY <1>2, <1>4, AppAssumption DEF Polled
  <2> QED
    BY <1>6, <2>1, <2>2 DEF Stops, Quit
<1>12. ASSUME NEW k \in tapped' PROVE window'.key[k] # "up"
  <2>1. k \in Keys /\ \E j \in 1 .. n : events[j] = Press(k)
    BY <1>2 DEF Polled
  <2>2. Press(k).type = "press" /\ Press(k).key = k
    BY DEF Press
  <2>3. \E j \in 1 .. n : events[j].type \in {"press", "release"} /\ events[j].key = k
    BY <2>1, <2>2
  <2> QED
    BY <1>2, <2>1, <2>3 DEF Polled
<1>13. Counts'
  BY <1>3, <1>4, <1>11, <1>12 DEF Counts, Held
<1> QED
  BY <1>8, <1>9, <1>10, <1>13 DEF Inv

LEMMA UpdateKeeps ==
    ASSUME Inv, Update
    PROVE  Inv'
<1>1. Types /\ Follows /\ Agrees /\ Counts
  BY DEF Inv
<1>2. /\ pc = "update" /\ pc' = "check" /\ running' = (running /\ ~Held(ESC))
      /\ steps' = Steps /\ window' = [window EXCEPT !.key = LetGo]
      /\ UNCHANGED <<mailbox, mGraphicConfigs, oldposx, mCamMode, pointer, events>>
      /\ UNCHANGED <<asked, turn, tapped>>
  BY DEF Update, app, system
<1>3. LetGo \in [Keys -> {"up", "down", "stick"}]
      /\ \A k \in Keys : window.key[k] = "up" => LetGo[k] = "up"
  <2>1. window.key \in [Keys -> {"up", "down", "stick"}]
    BY <1>1 DEF Types, Window
  <2>2. PICK read : read = ReadKeys
    OBVIOUS
  <2>3. LetGo = [k \in Keys |-> IF k \in read /\ window.key[k] = "stick" THEN "up"
                                ELSE window.key[k]]
    BY <2>2 DEF LetGo
  <2> QED
    BY <2>1, <2>3
<1>4. PICK keys : keys = LetGo
  OBVIOUS
<1>5. /\ window' \in Window /\ window'.size = window.size /\ window'.closed = window.closed
      /\ window'.cursorPos = window.cursorPos /\ window'.key = keys
  BY <1>1, <1>2, <1>3, <1>4 DEF Types, Window
<1>6. running' \in BOOLEAN
  BY <1>2
<1>7. Types'
  BY <1>1, <1>2, <1>5, <1>6 DEF Types
<1>8. Follows'
  BY <1>1, <1>2, <1>5 DEF Follows, TurnsAsMoved
<1>9. Agrees'
  BY <1>1, <1>2, <1>5 DEF Agrees
<1>10. running /\ (asked <=> window.closed \/ Held(ESC)) /\ \A k \in tapped : Held(k)
  BY <1>1, <1>2 DEF Counts, Quit, Held
<1>11. asked' <=> ~running' \/ window'.closed
  BY <1>2, <1>5, <1>10
<1>12. running' => window'.key[ESC] = "up"
  <2>1. running' => window.key[ESC] = "up"
    BY <1>2 DEF Held
  <2> QED
    BY <1>3, <1>4, <1>5, <2>1, AppAssumption
<1>13. \A p \in Opposites : /\ p[1] \in tapped' => p[1] \in steps'
                            /\ p[2] \in tapped' => p[1] \in steps' \/ p[2] \in steps'
  BY <1>2, <1>10 DEF Steps
<1>14. Counts'
  BY <1>2, <1>11, <1>12, <1>13 DEF Counts
<1> QED
  BY <1>7, <1>8, <1>9, <1>14 DEF Inv

LEMMA CheckKeeps ==
    ASSUME Inv, Check
    PROVE  Inv'
<1>1. Types /\ Follows /\ Agrees /\ Counts
  BY DEF Inv
<1>2. /\ pc = "check" /\ pc' = "drain" /\ running' = (running /\ ~window.closed)
      /\ UNCHANGED <<mailbox, mGraphicConfigs, oldposx, mCamMode, window, pointer, events>>
      /\ UNCHANGED <<asked, turn>>
  BY DEF Check, app, system, history
<1>3. Types'
  BY <1>1, <1>2 DEF Types
<1>4. Follows'
  BY <1>1, <1>2 DEF Follows, TurnsAsMoved
<1>5. Agrees'
  BY <1>1, <1>2 DEF Agrees
<1>6. (asked <=> ~running \/ window.closed) /\ (running => window.key[ESC] = "up")
  BY <1>1, <1>2 DEF Counts
<1>7. (asked' <=> ~running') /\ (running' => ~Quit')
  BY <1>2, <1>6 DEF Quit
<1>8. Counts'
  BY <1>2, <1>7 DEF Counts
<1> QED
  BY <1>3, <1>4, <1>5, <1>8 DEF Inv

LEMMA NextFrameKeeps ==
    ASSUME Inv, NextFrame
    PROVE  Inv'
<1>1. Types /\ Follows /\ Agrees /\ Counts
  BY DEF Inv
<1>2. /\ pc = "drain" /\ pc' = IF running THEN "poll" ELSE "stopped"
      /\ UNCHANGED <<running, mailbox, mGraphicConfigs, oldposx, mCamMode, window, pointer, events>>
      /\ UNCHANGED <<asked, turn>>
  BY DEF NextFrame, app, system, history
<1>3. pc' \in {"poll", "stopped"} /\ (pc' = "poll" <=> running)
  BY <1>2
<1>4. Types'
  BY <1>1, <1>2, <1>3 DEF Types
<1>5. Follows'
  BY <1>1, <1>2 DEF Follows, TurnsAsMoved
<1>6. Agrees'
  BY <1>1, <1>2 DEF Agrees
<1>7. (asked <=> ~running) /\ (running => ~Quit)
  BY <1>1, <1>2 DEF Counts
<1>8. Quit' <=> Quit
  BY <1>2 DEF Quit
<1>9. Counts'
  BY <1>2, <1>3, <1>7, <1>8 DEF Counts
<1> QED
  BY <1>4, <1>5, <1>6, <1>9 DEF Inv


\* The first message is taken from the mailbox.
LEMMA Handled ==
    ASSUME Inv, NEW type, Handling(type)
    PROVE  /\ pc = "drain" /\ mailbox \in Seq(Message) /\ mailbox # <<>>
           /\ Head(mailbox) = mailbox[1] /\ mailbox[1] \in Message /\ mailbox[1].type = type
           /\ Tail(mailbox) \in Seq(Message)
<1>1. mailbox \in Seq(Message) /\ mailbox # <<>>
  BY DEF Inv, Types, Handling
<1>2. pc = "drain" /\ Head(mailbox).type = type
  BY DEF Handling
<1>3. Head(mailbox) = mailbox[1] /\ mailbox[1] \in Message /\ Tail(mailbox) \in Seq(Message)
  BY <1>1, TailOf
<1> QED
  BY <1>1, <1>2, <1>3

\* What other handlers than that of the mouse leave of the chain.
LEMMA FollowsTail ==
    ASSUME Follows, UNCHANGED <<oldposx, turn>>, window'.cursorPos = window.cursorPos,
           mailbox \in Seq(Message), mailbox # <<>>, mailbox[1].type # "mpos",
           Extends(Tail(mailbox), mailbox'), Fresh(Tail(mailbox), mailbox', "mpos")
    PROVE  Follows'
<1>1. PICK m, m2, x, o, t : /\ m = mailbox /\ m2 = mailbox' /\ x = window.cursorPos
                            /\ o = oldposx /\ t = turn
  OBVIOUS
<1>2. Chained(m, x, o, t)
  BY <1>1 DEF Follows
<1>3. Chained(Tail(m), x, o, t) /\ Tail(m) \in Seq(Message)
  BY <1>1, <1>2, ChainTail, TailOf
<1>4. Chained(m2, x, o, t)
  BY <1>1, <1>3, ChainGrows
<1>5. Chained(mailbox', window'.cursorPos, oldposx', turn')
  BY <1>1, <1>4
<1> QED
  BY <1>5 DEF Follows, TurnsAsMoved

LEMMA SizeIsSet ==
    ASSUME window \in Window, events \in Seq(Event), NEW s \in Sizes, NEW rest \in Seq(Message),
           SetWindowSize(s, rest)
    PROVE  /\ window' \in Window /\ window'.closed = window.closed /\ window'.key = window.key
           /\ window'.cursorPos = window.cursorPos
           /\ mailbox' \in Seq(Message) /\ events' \in Seq(Event)
           /\ Extends(rest, mailbox') /\ Fresh(rest, mailbox', "mpos")
           /\ ~Synchronous /\ Newest(events, rest, 0, window.size, s)
                 => Newest(events', mailbox', 0, window'.size, s)
<1>1. PICK m : m = Resize(s)
  OBVIOUS
<1>2. m \in Message /\ m \in Event /\ m.type = "resize" /\ m.size = s
  BY <1>1, KindsOfMessage DEF Event, Resize
<1>3. Extends(rest, rest) /\ Fresh(rest, rest, "mpos")
  BY SameMailbox
<1>4. CASE /\ window' = [window EXCEPT !.size = s]
           /\ IF Synchronous THEN mailbox' = Append(rest, m) /\ UNCHANGED events
              ELSE mailbox' = rest /\ events' = Append(events, m)
  <2>1. /\ window' \in Window /\ window'.closed = window.closed /\ window'.key = window.key
        /\ window'.cursorPos = window.cursorPos /\ window'.size = s
    BY <1>4 DEF Window
  <2>2. CASE Synchronous
    <3>1. mailbox' = Append(rest, m) /\ events' = events
      BY <1>4, <2>2
    <3>2. Append(rest, m) \in Seq(Message) /\ Extends(rest, Append(rest, m))
          /\ Fresh(rest, Append(rest, m), "mpos")
      BY <1>2, OneMessage
    <3> QED
      BY <2>1, <2>2, <3>1, <3>2
  <2>3. CASE ~Synchronous
    <3>1. mailbox' = rest /\ events' = Append(events, m)
      BY <1>4, <2>3
    <3>2. Append(events, m) \in Seq(Event)
      BY <1>2, AppendProperties
    <3>3. Newest(Append(events, m), rest, 0, s, s)
      BY <1>2, NewestAppended
    <3> QED
      BY <1>3, <2>1, <3>1, <3>2, <3>3
  <2> QED
    BY <2>2, <2>3
<1>5. CASE mailbox' = rest /\ UNCHANGED <<window, events>>
  BY <1>3, <1>5
<1> QED
  BY <1>1, <1>4, <1>5 DEF SetWindowSize, Happens

LEMMA HandleResizeKeeps ==
    ASSUME Inv, HandleResize
    PROVE  Inv'
<1>1. Types /\ Follows /\ Agrees /\ Counts
  BY DEF Inv
<1>2. Handling("resize")
  BY DEF HandleResize
<1>3. /\ pc = "drain" /\ mailbox \in Seq(Message) /\ mailbox # <<>> /\ Head(mailbox) = mailbox[1]
      /\ mailbox[1] \in Message /\ mailbox[1].type = "resize" /\ Tail(mailbox) \in Seq(Message)
  BY <1>2, Handled
<1>4. PICK s : s = mailbox[1].size
  OBVIOUS
<1>5. s \in Sizes
  BY <1>3, <1>4 DEF Message
<1>6. PICK rest \in Seq(Message) : rest = Tail(mailbox)
  BY <1>3
<1>7. /\ SetWindowSize(s, rest) /\ mGraphicConfigs' = s
      /\ UNCHANGED <<pc, running, oldposx, mCamMode, pointer, asked, turn, tapped, steps>>
  BY <1>3, <1>4, <1>6 DEF HandleResize, history
<1>8. window \in Window /\ events \in Seq(Event)
  BY <1>1 DEF Types
<1>9. /\ window' \in Window /\ window'.closed = window.closed /\ window'.key = window.key
      /\ window'.cursorPos = window.cursorPos
      /\ mailbox' \in Seq(Message) /\ events' \in Seq(Event)
      /\ Extends(rest, mailbox') /\ Fresh(rest, mailbox', "mpos")
      /\ ~Synchronous /\ Newest(events, rest, 0, window.size, s)
            => Newest(events', mailbox', 0, window'.size, s)
  BY <1>5, <1>7, <1>8, SizeIsSet
<1>10. Types'
  BY <1>1, <1>5, <1>7, <1>9 DEF Types
<1>11. Follows'
  BY <1>1, <1>3, <1>6, <1>7, <1>9, FollowsTail
<1>12. Agrees'
  <2>1. SUFFICES ASSUME ~Synchronous PROVE Newest(events, rest, 0, window.size, s)
    BY <1>7, <1>9 DEF Agrees
  <2>2. Newest(events, mailbox, 0, window.size, mGraphicConfigs)
    BY <1>1, <2>1 DEF Agrees
  <2>3. PICK m, q, size, conf : /\ m = mailbox /\ q = events /\ size = window.size
                                /\ conf = mGraphicConfigs
    OBVIOUS
  <2>4. s = IF m[1].type = "resize" THEN m[1].size ELSE conf
    BY <1>3, <1>4, <2>3
  <2>5. Newest(q, Tail(m), 0, size, s)
    BY <1>3, <2>2, <2>3, <2>4, NewestTail
  <2> QED
    BY <1>6, <2>3, <2>5
<1>13. Counts'
  BY <1>1, <1>7, <1>9, CountsKept
<1> QED
  BY <1>10, <1>11, <1>12, <1>13 DEF Inv

\* What other handlers than that of a resize leave of the sizes.
LEMMA AgreesTail ==
    ASSUME Agrees, UNCHANGED mGraphicConfigs, window'.size = window.size,
           mailbox \in Seq(Message), mailbox # <<>>, mailbox[1].type # "resize",
           mailbox' = Tail(mailbox),
           \A m, s, c : Newest(events, m, 0, s, c) => Newest(events', m, 0, s, c)
    PROVE  Agrees'
<1>1. SUFFICES ASSUME ~Synchronous
               PROVE  Newest(events', mailbox', 0, window'.size, mGraphicConfigs')
  BY DEF Agrees
<1>2. PICK m, q, s, c : m = mailbox /\ q = events /\ s = window.size /\ c = mGraphicConfigs
  OBVIOUS
<1>3. Newest(q, m, 0, s, c)
  BY <1>1, <1>2 DEF Agrees
<1>4. c = IF m[1].type = "resize" THEN m[1].size ELSE c
  BY <1>2
<1>5. Newest(q, Tail(m), 0, s, c)
  BY <1>2, <1>3, <1>4, NewestTail
<1> QED
  BY <1>2, <1>5

LEMMA HandleMouseKeeps ==
    ASSUME Inv, HandleMouse
    PROVE  Inv'
<1>1. Types /\ Follows /\ Agrees /\ Counts
  BY DEF Inv
<1>2. Handling("mpos")
  BY DEF HandleMouse
<1>3. /\ pc = "drain" /\ mailbox \in Seq(Message) /\ mailbox # <<>> /\ Head(mailbox) = mailbox[1]
      /\ mailbox[1] \in Message /\ mailbox[1].type = "mpos" /\ Tail(mailbox) \in Seq(Message)
  BY <1>2, Handled
<1>4. PICK m \in Seq(Message) : m = mailbox
  BY <1>3
<1>5. /\ oldposx' = m[1].xpos /\ mailbox' = Tail(m) /\ turn' = TurnBy(m[1])
      /\ UNCHANGED <<pc, running, mGraphicConfigs, mCamMode, window, pointer, events>>
      /\ UNCHANGED <<asked, tapped, steps>>
  BY <1>3, <1>4 DEF HandleMouse, system
<1>6. m[1].xpos \in Int /\ m[1].moved \in Int
  BY <1>3, <1>4 DEF Message
<1>7. Types'
  BY <1>1, <1>3, <1>4, <1>5, <1>6 DEF Types
<1>8. Follows'
  <2>1. PICK x, old, t, t2 : x = window.cursorPos /\ old = oldposx /\ t = turn /\ t2 = turn'
    OBVIOUS
  <2>2. Chained(m, x, old, t)
    BY <1>1, <1>4, <2>1 DEF Follows
  <2>3. /\ Chained(Tail(m), x, m[1].xpos, t2)
        /\ m[1].mode = "captured" /\ t # noTurn => m[1].xpos = old + m[1].moved
    <3>1. m # <<>> /\ m[1].type = "mpos"
      BY <1>3, <1>4
    <3>2. \A a, b, c, d : Chained(m, a, b, c) =>
             /\ Chained(Tail(m), a, m[1].xpos, d)
             /\ m[1].mode = "captured" /\ c # noTurn => m[1].xpos = b + m[1].moved
      BY <3>1, ChainHandled, Zenon
    <3> QED
      BY <2>2, <3>2
  <2>4. Chained(mailbox', window'.cursorPos, oldposx', turn')
    BY <1>5, <2>1, <2>3
  <2>5. old \in Int
    BY <1>1, <2>1 DEF Types
  <2>6. ASSUME t2.mode = "captured", ~t2.first, t2.by # 0 PROVE t2.by = t2.moved
    <3>1. /\ t2.by = IF mCamMode THEN m[1].xpos - old ELSE 0
          /\ t2.moved = m[1].moved /\ t2.mode = m[1].mode /\ t2.first = (t = noTurn)
      BY <1>5, <2>1 DEF TurnBy
    <3>2. t # noTurn /\ m[1].mode = "captured"
      BY <2>6, <3>1
    <3>3. m[1].xpos = old + m[1].moved
      BY <2>3, <3>2
    <3>4. PICK pos \in Int, moved \in Int : pos = m[1].xpos /\ moved = m[1].moved
      BY <1>6
    <3>5. pos = old + moved
      BY <3>3, <3>4
    <3>6. pos - old = moved
      BY <2>5, <3>4, <3>5
    <3>7. t2.by = pos - old
      BY <2>6, <3>1, <3>4
    <3> QED
      BY <3>1, <3>4, <3>6, <3>7
  <2>7. TurnsAsMoved'
    BY <2>1, <2>6 DEF TurnsAsMoved
  <2> QED
    BY <2>4, <2>7 DEF Follows
<1>9. Agrees'
  BY <1>1, <1>3, <1>4, <1>5, AgreesTail
<1>10. Counts'
  BY <1>1, <1>5, CountsKept
<1> QED
  BY <1>7, <1>8, <1>9, <1>10 DEF Inv

LEMMA HandlePressKeeps ==
    ASSUME Inv, HandlePress
    PROVE  Inv'
<1>1. Types /\ Follows /\ Agrees /\ Counts
  BY DEF Inv
<1>2. Handling("press")
  BY DEF HandlePress
<1>3. /\ pc = "drain" /\ mailbox \in Seq(Message) /\ mailbox # <<>> /\ Head(mailbox) = mailbox[1]
      /\ mailbox[1] \in Message /\ mailbox[1].type = "press" /\ Tail(mailbox) \in Seq(Message)
  BY <1>2, Handled
<1>4. /\ mailbox' = Tail(mailbox)
      /\ UNCHANGED <<pc, running, mGraphicConfigs, oldposx, asked, turn, tapped, steps>>
  BY DEF HandlePress, history
<1>5. window \in Window /\ events \in Seq(Event) /\ pointer \in Positions /\ mCamMode \in BOOLEAN
  BY <1>1 DEF Types
<1>6. /\ window' \in Window /\ pointer' \in Positions /\ events' \in Seq(Event)
      /\ window'.size = window.size /\ window'.closed = window.closed
      /\ window'.key = window.key /\ window'.cursorPos = window.cursorPos
      /\ mCamMode' \in BOOLEAN
      /\ \A m, s, c : Newest(events, m, 0, s, c) => Newest(events', m, 0, s, c)
  <2>1. CASE Head(mailbox).key = SPACE
    <3>0. PICK mode : mode = IF mCamMode THEN "normal" ELSE "captured"
      OBVIOUS
    <3>1. PICK grabbed \in BOOLEAN :
             mCamMode' = ~mCamMode
             /\ Warp([window EXCEPT !.cursorMode = mode, !.centered = @ /\ (mCamMode \/ ~grabbed)], events)
      BY <2>1, <3>0 DEF HandlePress
    <3>2. PICK centered : centered = (window.centered /\ (mCamMode \/ ~grabbed))
      OBVIOUS
    <3>3. PICK w : w = [window EXCEPT !.cursorMode = mode, !.centered = centered]
      OBVIOUS
    <3>4. mode \in {"normal", "captured"} /\ centered \in BOOLEAN
      BY <3>0, <3>2
    <3>5. /\ w \in Window /\ w.size = window.size /\ w.closed = window.closed
          /\ w.key = window.key /\ w.cursorPos = window.cursorPos
      BY <1>5, <3>3, <3>4 DEF Window
    <3>6. mCamMode' = ~mCamMode /\ Warp(w, events)
      BY <3>1, <3>3, <3>2
    <3>7. PICK q \in Seq(Event) : q = events
      BY <1>5
    <3>8. /\ window' \in Window /\ pointer' \in Positions /\ events' \in Seq(Event)
          /\ window'.size = w.size /\ window'.closed = w.closed /\ window'.key = w.key
          /\ window'.cursorPos = w.cursorPos
          /\ \A m, s, c : Newest(q, m, 0, s, c) => Newest(events', m, 0, s, c)
      BY <1>5, <3>5, <3>6, <3>7, WarpKeeps
    <3> QED
      BY <3>5, <3>6, <3>7, <3>8
  <2>2. CASE Head(mailbox).key # SPACE
    BY <1>5, <2>2 DEF HandlePress, system
  <2> QED
    BY <2>1, <2>2
<1>7. Types'
  BY <1>1, <1>3, <1>4, <1>6 DEF Types
<1>8. Follows'
  BY <1>1, <1>3, <1>4, <1>6, FollowsTail, SameMailbox
<1>9. Agrees'
  BY <1>1, <1>3, <1>4, <1>6, AgreesTail
<1>10. Counts'
  BY <1>1, <1>4, <1>6, CountsKept
<1> QED
  BY <1>7, <1>8, <1>9, <1>10 DEF Inv

LEMMA HandleReleaseKeeps ==
    ASSUME Inv, HandleRelease
    PROVE  Inv'
<1>1. Types /\ Follows /\ Agrees /\ Counts
  BY DEF Inv
<1>2. Handling("release")
  BY DEF HandleRelease
<1>3. /\ mailbox \in Seq(Message) /\ mailbox # <<>>
      /\ mailbox[1].type = "release" /\ Tail(mailbox) \in Seq(Message)
  BY <1>2, Handled
<1>4. /\ mailbox' = Tail(mailbox)
      /\ UNCHANGED <<pc, running, mGraphicConfigs, oldposx, mCamMode, window, pointer, events>>
      /\ UNCHANGED <<asked, turn, tapped, steps>>
  BY DEF HandleRelease, app, system, history
<1>5. Types'
  BY <1>1, <1>3, <1>4 DEF Types
<1>6. Follows'
  BY <1>1, <1>3, <1>4, FollowsTail, SameMailbox
<1>7. Agrees'
  BY <1>1, <1>3, <1>4, AgreesTail
<1>8. Counts'
  BY <1>1, <1>4, CountsKept
<1> QED
  BY <1>5, <1>6, <1>7, <1>8 DEF Inv

LEMMA StepKeeps ==
    ASSUME Inv, [Next]_vars
    PROVE  Inv'
<1>1. CASE User
  BY <1>1, UserDoesKeeps, UserResizesKeeps DEF User
<1>2. CASE Poll
  BY <1>2, PollKeeps
<1>3. CASE Update
  BY <1>3, UpdateKeeps
<1>4. CASE Check
  BY <1>4, CheckKeeps
<1>5. CASE NextFrame
  BY <1>5, NextFrameKeeps
<1>6. CASE HandleResize
  BY <1>6, HandleResizeKeeps
<1>7. CASE HandleMouse
  BY <1>7, HandleMouseKeeps
<1>8. CASE HandlePress
  BY <1>8, HandlePressKeeps
<1>9. CASE HandleRelease
  BY <1>9, HandleReleaseKeeps
<1>10. CASE UNCHANGED vars
  BY <1>10, StutterKeeps
<1> QED
  BY <1>1, <1>2, <1>3, <1>4, <1>5, <1>6, <1>7, <1>8, <1>9, <1>10 DEF Next, Loop

LEMMA AlwaysInv == Spec => []Inv
  BY StartsWell, StepKeeps, PTL DEF Spec


-----------------------------------------------------------------------------
(* What always holds *)

\* The variables keep their types.
THEOREM LoopTypes == Spec => []TypeOK
<1>1. Inv => TypeOK
  <2>1. SUFFICES ASSUME Inv PROVE TypeOK
    OBVIOUS
  <2>2. \A i \in DOMAIN mailbox : mailbox[i].type \in {"resize", "mpos", "press", "release"}
    <3>1. mailbox \in Seq(Message)
      BY <2>1 DEF Inv, Types
    <3>2. \A i \in DOMAIN mailbox : mailbox[i] \in Message
      BY <3>1, ElementOfSeq, LenProperties
    <3> QED
      BY <3>2 DEF Message
  <2> QED
    BY <2>1, <2>2 DEF Inv, Types, TypeOK, Window
<1> QED
  BY <1>1, AlwaysInv, PTL

\* The camera turns by what the captured cursor moved, except for the first
\* movement and for those the free cursor made before SPACE was handled: the old
\* position that MainWorld.onMousePosUpdate keeps up whether or not the camera
\* follows is where the next movement starts from, whatever waits in between.
THEOREM CameraTurnsAsMoved == Spec => []TurnsAsMoved
<1>1. Inv => TurnsAsMoved
  BY DEF Inv, Follows
<1> QED
  BY <1>1, AlwaysInv, PTL

\* ESC and the closing of the window end the loop in the frame that polled them, and
\* nothing else does; a key that the poll saw pressed steps the camera, or the
\* opposite key does: sticky keys and the conjunction in App.startLoop lose nothing.
THEOREM InputsCount == Spec => []InputCounts
<1>1. Inv => InputCounts
  BY DEF Inv, Counts, InputCounts
<1> QED
  BY <1>1, AlwaysInv, PTL

LEMMA LastPlace ==
    ASSUME NEW n \in Nat, NEW R \in SUBSET (1 .. n), R # {}
    PROVE  Max(R) \in R /\ \A i \in R : i <= Max(R)
<1> DEFINE T == {n - i : i \in R}
<1>1. \A i \in R : i \in 1 .. n /\ i \in Int /\ n - i \in Nat
  BY Z3
<1>2. T \in SUBSET Nat /\ T # {}
  BY <1>1
<1>3. PICK d \in T : \A e \in T : d <= e
  <2> HIDE DEF T
  <2> QED
    BY <1>2, LeastNatural
<1>4. PICK k \in R : d = n - k
  BY <1>3
<1>5. \A i \in R : k >= i
  <2>1. SUFFICES ASSUME NEW i \in R PROVE k >= i
    OBVIOUS
  <2>2. n - k <= n - i
    BY <1>3, <1>4
  <2> QED
    BY <1>1, <2>2
<1>6. PICK x : x = Max(R)
  OBVIOUS
<1>7. x \in R /\ \A i \in R : x >= i
  BY <1>5, <1>6 DEF Max
<1>8. \A i \in R : i <= x
  BY <1>1, <1>7
<1> QED
  BY <1>6, <1>7, <1>8

\* Where the window system tells of a resize by an event (X11), the last resize on
\* its way has the size of the window, and when none is the configuration has,
\* however resizes by the user and those that rendersys.d answers overtake each
\* other.  (With a callback from within glfwSetWindowSize an older resize may still
\* wait for the poll.)
THEOREM SizesAgree == Spec => [](~Synchronous => SizeAgrees)
<1>1. Inv => (~Synchronous => SizeAgrees)
  <2>1. SUFFICES ASSUME Inv, ~Synchronous PROVE SizeAgrees
    OBVIOUS
  <2>2. PICK m \in Seq(Message), q \in Seq(Event) : m = mailbox /\ q = events
    BY <2>1 DEF Inv, Types
  <2>3. PICK a \in Nat, b \in Nat : a = Len(m) /\ b = Len(q)
    BY LenProperties
  <2>4. Newest(q, m, 0, window.size, mGraphicConfigs)
    BY <2>1, <2>2 DEF Inv, Agrees
  <2>5. PICK all : all = m \o q
    OBVIOUS
  <2>6. /\ DOMAIN all = 1 .. a + b
        /\ \A i \in 1 .. a + b : all[i] = IF i <= a THEN m[i] ELSE q[i - a]
    <3>1. m \in Seq(Message \cup Event) /\ q \in Seq(Message \cup Event)
      BY SeqMonotonic
    <3>2. /\ all \in Seq(Message \cup Event) /\ Len(all) = a + b
          /\ \A i \in 1 .. a + b : all[i] = IF i <= a THEN m[i] ELSE q[i - a]
      BY <2>3, <2>5, <3>1, ConcatProperties
    <3> QED
      BY <3>2, LenProperties
  <2>7. PICK R : R = {i \in 1 .. a + b : all[i].type = "resize"}
    OBVIOUS
  <2>8. InFlight = all /\ Resizes = R
    BY <2>2, <2>5, <2>6, <2>7 DEF InFlight, Resizes
  <2>9. \A i \in 1 .. a : i \in 1 .. a + b /\ all[i] = m[i]
    BY <2>6
  <2>10. \A i \in 1 .. b : a + i \in 1 .. a + b /\ all[a + i] = q[i]
    <3>1. \A i \in 1 .. b : a + i \in 1 .. a + b /\ ~(a + i <= a) /\ (a + i) - a = i
      OBVIOUS
    <3> QED
      BY <2>6, <3>1
  <2>11. CASE R = {}
    <3>1. \A i \in 1 .. a + b : all[i].type # "resize"
      BY <2>7, <2>11
    <3>2. \A i \in 0 + 1 .. b : i \in 1 .. b
      OBVIOUS
    <3>3. \A i \in 0 + 1 .. a : i \in 1 .. a
      OBVIOUS
    <3>4. NoneIn(q, 0)
      BY <2>3, <2>10, <3>1, <3>2 DEF NoneIn
    <3>5. NoneIn(m, 0)
      BY <2>3, <2>9, <3>1, <3>3 DEF NoneIn
    <3> QED
      BY <2>4, <2>8, <2>11, <3>4, <3>5 DEF Newest, SizeAgrees
  <2>12. CASE R # {}
    <3>1. R \in SUBSET (1 .. a + b) /\ a + b \in Nat
      BY <2>7
    <3>2. Max(R) \in R /\ \A i \in R : i <= Max(R)
      BY <2>12, <3>1, LastPlace
    <3>3. PICK k \in 1 .. a + b : k = Max(R)
      BY <3>1, <3>2
    <3>4. all[k].type = "resize" /\ \A i \in k + 1 .. a + b : all[i].type # "resize"
      <4>1. ASSUME NEW i \in k + 1 .. a + b, all[i].type = "resize" PROVE FALSE
        <5>1. i \in 1 .. a + b
          OBVIOUS
        <5>2. i \in R
          BY <2>7, <4>1, <5>1
        <5> QED
          BY <3>2, <3>3, <5>2
      <4> QED
        BY <2>7, <3>2, <3>3, <4>1
    <3>5. CASE k <= a
      <4>1. k \in 1 .. a /\ k \in 0 + 1 .. a
        BY <3>5
      <4>2. NoneIn(q, 0)
        <5>1. \A i \in 0 + 1 .. b : i \in 1 .. b /\ a + i \in k + 1 .. a + b
          BY <3>5
        <5> QED
          BY <2>3, <2>10, <3>4, <5>1 DEF NoneIn
      <4>3. \A i \in k + 1 .. a : i \in 1 .. a /\ i \in k + 1 .. a + b
        OBVIOUS
      <4>4. NewestIn(m, 0, k)
        BY <2>3, <2>9, <3>4, <4>1, <4>3 DEF NewestIn
      <4>5. all[k].size = window.size
        BY <2>3, <2>4, <2>9, <4>1, <4>2, <4>4 DEF Newest
      <4> QED
        BY <2>8, <2>12, <3>3, <4>5 DEF SizeAgrees
    <3>6. CASE ~(k <= a)
      <4>1. PICK i \in 1 .. b : k = a + i
        <5>1. k - a \in 1 .. b /\ k = a + (k - a)
          BY <3>6
        <5> QED
          BY <5>1
      <4>2. i \in 0 + 1 .. b /\ \A j \in i + 1 .. b : j \in 1 .. b /\ a + j \in k + 1 .. a + b
        BY <4>1
      <4>3. NewestIn(q, 0, i)
        BY <2>3, <2>10, <3>4, <4>1, <4>2 DEF NewestIn
      <4>4. all[k].size = window.size
        BY <2>3, <2>4, <2>10, <4>1, <4>3 DEF Newest
      <4> QED
        BY <2>8, <2>12, <3>3, <4>4 DEF SizeAgrees
    <3> QED
      BY <3>5, <3>6
  <2> QED
    BY <2>11, <2>12
<1> QED
  BY <1>1, AlwaysInv, PTL
=============================================================================

---------------------------- MODULE NetworkProofs ----------------------------
(***************************************************************************)
(* Theorems about the reading thread and what it is sent.                  *)
(*                                                                         *)
(* ReadingThread, for every size of the buffer, of the header and of the   *)
(* bodies, and any number of frames: the types, the order of the messages  *)
(* called, that a buffer in step is understood completely, and that the    *)
(* thread implements the ordered lossy feed of MessageFeed.                *)
(*                                                                         *)
(* CooperativePeer: under its conditions the thread loses no message,      *)
(* calls nothing that was not sent, never dies and never misjudges what is *)
(* missing.  ClientScript: the script keeps those conditions, for bodies   *)
(* of any two sizes; only the lemmas about the script use ClientScript's   *)
(* assumption.                                                             *)
(***************************************************************************)
EXTENDS ClientScript, SequenceTheorems, TLAPS


\* The frames lie one after the other.
Layout ==
    /\ \A i, j \in DOMAIN frames : i < j => End(i) <= frames[j].start
    /\ \A i \in DOMAIN frames : End(i) <= Total

\* Where the buffer lies in the stream.
Buffer ==
    /\ pc \in {"parse", "settle"} => lo + reads <= hi
    /\ pc \in {"receive", "dispatch"} /\ flag => lo <= hi

\* A sequence of messages of bytes received, none of which is in two of them.
Batch(s) ==
    /\ \A k \in DOMAIN s : s[k].from < s[k].to /\ s[k].to <= hi
    /\ \A j, k \in DOMAIN s : j < k => s[j].to <= s[k].from

EndBy(s, p) == \A k \in DOMAIN s : s[k].to <= p

\* What was called lies before what is still in the buffer.
Consumed ==
    /\ Batch(dispatched) /\ Batch(msgs)
    /\ \A j \in DOMAIN dispatched, k \in DOMAIN msgs : dispatched[j].to <= msgs[k].from
    /\ pc \in {"parse", "settle"} => EndBy(dispatched, lo) /\ EndBy(msgs, lo + reads)
    /\ pc = "settle" /\ count = 0 => msgs = <<>>
    /\ pc \in {"receive", "dispatch"} /\ flag => EndBy(dispatched, lo) /\ EndBy(msgs, lo)
    /\ pc = "receive" => msgs = <<>>

\* flag is reset before readObjects runs and set after it returned.
NoFlag == pc \in {"parse", "settle"} => ~flag

Span == [from : Nat, to : Nat]

IInv == TypeOK /\ Layout /\ Buffer /\ NoFlag /\ Consumed

-----------------------------------------------------------------------------
(* Types *)

LEMMA HeaderType == Header \in Nat /\ Header > 0 /\ Header >= SizeLen
BY FramingAssumption DEF Header

LEMMA FrameType ==
    ASSUME TypeOK, NEW i \in DOMAIN frames
    PROVE  /\ frames[i] \in Frame
           /\ frames[i].start \in Nat
           /\ frames[i].size \in BodySizes /\ frames[i].size \in Nat \ {0}
           /\ End(i) \in Nat /\ End(i) > frames[i].start
<1>1. frames[i] \in Frame
  BY DEF TypeOK
<1>2. frames[i].start \in Nat /\ frames[i].size \in BodySizes
  BY <1>1 DEF Frame
<1>3. frames[i].size \in Nat \ {0}
  BY <1>2, FramingAssumption
<1> QED
  BY <1>1, <1>2, <1>3, HeaderType DEF End

LEMMA TotalType == TypeOK => Total \in Nat
<1> SUFFICES ASSUME TypeOK, Len(frames) # 0 PROVE End(Len(frames)) \in Nat
  BY DEF Total
<1>1. Len(frames) \in DOMAIN frames
  BY DEF TypeOK
<1> QED
  BY <1>1, FrameType

LEMMA SpanType ==
    ASSUME TypeOK
    PROVE  /\ msgs \in Seq(Span) /\ dispatched \in Seq(Span)
           /\ \A k \in DOMAIN msgs :
                msgs[k] \in Span /\ msgs[k].from \in Nat /\ msgs[k].to \in Nat
           /\ \A k \in DOMAIN dispatched :
                /\ dispatched[k] \in Span
                /\ dispatched[k].from \in Nat /\ dispatched[k].to \in Nat
<1>1. msgs \in Seq(Span) /\ dispatched \in Seq(Span)
  BY DEF TypeOK, Span
<1>2. \A m \in Span : m.from \in Nat /\ m.to \in Nat
  BY DEF Span
<1>3. \A k \in DOMAIN msgs : msgs[k] \in Span
  BY <1>1
<1>4. \A k \in DOMAIN dispatched : dispatched[k] \in Span
  BY <1>1
<1> QED
  BY <1>1, <1>2, <1>3, <1>4

\* The frame found at the parse position.
LEMMA AtPos ==
    ASSUME TypeOK, Aligned
    PROVE  FrameAtPos \in DOMAIN frames /\ frames[FrameAtPos].start = Pos
BY DEF Aligned, FrameAtPos

LEMMA SizeReadType == TypeOK => SizeRead \subseteq Nat
<1> SUFFICES ASSUME TypeOK, NEW size \in SizeRead PROVE size \in Nat
  OBVIOUS
<1>1. CASE Aligned
  BY <1>1, AtPos, FrameType DEF SizeRead
<1>2. CASE ~Aligned
  BY <1>2, FramingAssumption DEF SizeRead
<1> QED
  BY <1>1, <1>2

LEMMA TypeInit == Init => TypeOK
<1> SUFFICES ASSUME Init PROVE TypeOK
  OBVIOUS
<1>1. flag \in BOOLEAN
  BY Zenon DEF Init, ReaderInit
<1> QED
  BY <1>1, EmptySeq DEF Init, ReaderInit, TypeOK

LEMMA TypeStep == TypeOK /\ [Next]_vars => TypeOK'
<1> SUFFICES ASSUME TypeOK, [Next]_vars PROVE TypeOK'
  OBVIOUS
<1> USE DEF bufVars
<1>1. ASSUME NEW size \in BodySizes, NEW known \in BOOLEAN, Send(size, known)
      PROVE  TypeOK'
  <2>1. [start |-> Total, size |-> size, known |-> known] \in Frame
    BY TotalType DEF Frame
  <2> QED
    BY <1>1, <2>1 DEF Send, TypeOK
<1>2. ASSUME NEW n \in 1 .. MAX_BUF_SIZE, Receive(n) PROVE TypeOK'
  <2>1. flag' \in BOOLEAN
    BY <1>2, Zenon DEF Receive
  <2> QED
    BY <1>2, <2>1, FramingAssumption, EmptySeq DEF Receive, TypeOK
<1>3. CASE Disconnected \/ AddressFails
  BY <1>3 DEF Disconnected, AddressFails, TypeOK
<1>4. CASE EndOfBuffer \/ SizeCut
  BY <1>4 DEF EndOfBuffer, SizeCut, Return, TypeOK
<1>5. ASSUME NEW size \in SizeRead,
             TooBig(size) \/ IdCut(size) \/ BodyCut(size) \/ WholeFrame(size)
      PROVE  TypeOK'
  <2> size \in Nat /\ Header \in Nat /\ Left \in Int
    BY SizeReadType, HeaderType DEF TypeOK, Left, Pos
  <2>1. CASE TooBig(size) \/ IdCut(size)
    BY <2>1 DEF TooBig, IdCut, Return, TypeOK
  <2>2. CASE BodyCut(size)
    BY <2>2 DEF BodyCut, Return, TypeOK
  <2>3. CASE WholeFrame(size)
    <3>1. msgs' \in Seq(Span)
      <4>1. Read(size) \in Span
        BY DEF Read, Span, Pos, TypeOK
      <4> QED
        BY <2>3, <4>1, SpanType DEF WholeFrame
    <3>2. reads' \in Nat /\ rest' \in Nat
      BY <2>3 DEF WholeFrame, Left, Pos, TypeOK
    <3> QED
      BY <2>3, <3>1, <3>2 DEF WholeFrame, TypeOK, Span
  <2> QED
    BY <1>5, <2>1, <2>2, <2>3
<1>6. CASE Settle
  <2>1. flag' \in BOOLEAN
    BY <1>6, Zenon DEF Settle, KeepBuffer, KeepTail, KeepNothing, TypeOK
  <2> QED
    BY <1>6, <2>1 DEF Settle, KeepBuffer, KeepTail, KeepNothing, TypeOK
<1>7. CASE Dispatch
  <2>1. CASE Call
    <3>1. msgs' \in Seq(Span) /\ dispatched' \in Seq(Span)
      BY <2>1, SpanType, HeadTailProperties DEF Call
    <3> QED
      BY <2>1, <3>1 DEF Call, TypeOK, Span
  <2>2. CASE NextRound
    BY <2>2 DEF NextRound, TypeOK
  <2> QED
    BY <1>7, <2>1, <2>2 DEF Dispatch
<1>8. CASE UNCHANGED vars
  BY <1>8 DEF vars, TypeOK
<1> QED
  BY <1>1, <1>2, <1>3, <1>4, <1>5, <1>6, <1>7, <1>8 DEF Next, Peer, Parse, ParseHeader

\* Every variable of the reading thread keeps its type; _rest is never negative.
THEOREM TypeCorrect == Spec => []TypeOK
<1> QED
  BY TypeInit, TypeStep, PTL DEF Spec

-----------------------------------------------------------------------------
(* Order and origin of the messages called *)

\* A frame appended by the peer starts where the last one ends.
LEMMA SendKeeps ==
    ASSUME IInv, NEW size \in BodySizes, NEW known \in BOOLEAN, Send(size, known)
    PROVE  /\ \A i \in DOMAIN frames :
                i \in DOMAIN frames' /\ frames'[i] = frames[i] /\ End(i)' = End(i)
           /\ Layout'
<1> DEFINE f == [start |-> Total, size |-> size, known |-> known]
<1>n. PICK n : n = Len(frames) + 1
  OBVIOUS
<1> USE HeaderType, TotalType DEF IInv
<1>1. frames' = Append(frames, f) /\ f \in Frame /\ f.start = Total /\ f.size = size
  BY DEF Send, Frame
<1> HIDE DEF f
<1>2. /\ frames \in Seq(Frame) /\ frames' \in Seq(Frame)
      /\ n \in Nat /\ Len(frames') = n
      /\ DOMAIN frames = 1 .. Len(frames) /\ DOMAIN frames' = 1 .. n
      /\ frames'[n] = f /\ \A i \in DOMAIN frames : frames'[i] = frames[i]
  BY <1>n, <1>1, LenProperties DEF TypeOK
<1>3. \A i \in DOMAIN frames :
        i \in DOMAIN frames' /\ frames'[i] = frames[i] /\ End(i)' = End(i)
  BY <1>n, <1>2 DEF End
<1>4. End(n)' = Total + Header + size /\ Total' = Total + Header + size
  BY <1>n, <1>1, <1>2 DEF End, Total
<1>5. ASSUME NEW i \in DOMAIN frames', NEW j \in DOMAIN frames', i < j
      PROVE  End(i)' <= frames'[j].start
  <2>1. i \in DOMAIN frames
    BY <1>n, <1>2, <1>5
  <2>2. CASE j \in DOMAIN frames
    BY <2>1, <2>2, <1>3, <1>5 DEF Layout
  <2>3. CASE j = n
    BY <2>1, <2>3, <1>1, <1>2, <1>3 DEF Layout
  <2> QED
    BY <1>n, <1>2, <2>2, <2>3
<1>6. ASSUME NEW i \in DOMAIN frames' PROVE End(i)' <= Total'
  <2>1. CASE i \in DOMAIN frames
    <3>1. End(i) \in Nat /\ End(i) <= Total /\ size \in Nat
      BY <2>1, FrameType, FramingAssumption DEF Layout
    <3> QED
      BY <2>1, <3>1, <1>3, <1>4
  <2>2. CASE i = n
    BY <2>2, <1>4, FramingAssumption
  <2> QED
    BY <1>n, <1>2, <2>1, <2>2
<1> QED
  BY <1>3, <1>5, <1>6 DEF Layout

LEMMA InvInit == Init => IInv
<1> SUFFICES ASSUME Init PROVE IInv
  OBVIOUS
<1>1. Layout
  BY EmptySeq DEF Init, Layout
<1>2. Buffer
  BY DEF Init, ReaderInit, Buffer
<1>3. Consumed
  BY DEF Init, ReaderInit, Consumed, Batch, EndBy
<1>4. NoFlag
  BY DEF Init, ReaderInit, NoFlag
<1> QED
  BY <1>1, <1>2, <1>3, <1>4, TypeInit DEF IInv

\* The reader leaves the stream as it is.
LEMMA LayoutSame ==
    ASSUME IInv, UNCHANGED frames PROVE Layout'
BY DEF IInv, Layout, End, Total

\* What readObjects adds to the messages begins where the last one ended at best.
LEMMA AppendKeeps ==
    ASSUME NEW s \in Seq(Span), NEW m \in Span, NEW p \in Nat, TypeOK,
           Batch(s), EndBy(s, p), p <= m.from, m.from < m.to, m.to <= hi
    PROVE  Batch(Append(s, m)) /\ EndBy(Append(s, m), m.to)
<1>1. PICK t \in Seq(Span) : t = Append(s, m)
  BY AppendProperties
<1>2. /\ DOMAIN s = 1 .. Len(s) /\ DOMAIN t = 1 .. Len(s) + 1 /\ Len(s) \in Nat
      /\ t[Len(s) + 1] = m /\ \A k \in DOMAIN s : t[k] = s[k]
  BY <1>1, LenProperties
<1>3. m.from \in Nat /\ m.to \in Nat /\ \A k \in DOMAIN s : s[k].from \in Nat /\ s[k].to \in Nat
  <2>1. \A k \in DOMAIN s : s[k] \in Span
    OBVIOUS
  <2> QED
    BY <2>1 DEF Span
<1>4. \A k \in DOMAIN s : s[k].to <= m.from
  BY <1>3 DEF EndBy
<1>5. ASSUME NEW k \in DOMAIN t PROVE t[k].from < t[k].to /\ t[k].to <= hi /\ t[k].to <= m.to
  BY <1>2, <1>3, <1>4, <1>5 DEF Batch
<1>6. ASSUME NEW j \in DOMAIN t, NEW k \in DOMAIN t, j < k PROVE t[j].to <= t[k].from
  BY <1>2, <1>4, <1>6 DEF Batch
<1>7. Batch(t) /\ EndBy(t, m.to)
  BY <1>5, <1>6 DEF Batch, EndBy
<1> QED
  BY <1>1, <1>7

LEMMA WholeFrameKeeps ==
    ASSUME IInv, NEW size \in SizeRead, WholeFrame(size)
    PROVE  Buffer' /\ Consumed'
<1> USE DEF IInv
<1>0. size \in Nat /\ Header \in Nat /\ Header > 0
  BY SizeReadType, HeaderType
<1>1. /\ pc = "parse" /\ pc' = "parse" /\ reads' = reads + Header + size
      /\ lo' = lo /\ hi' = hi /\ dispatched' = dispatched
      /\ lo + reads' <= hi
  BY <1>0 DEF WholeFrame, TypeOK, Left, Pos
<1>2. Buffer'
  BY <1>1 DEF Buffer
<1>3. Batch(dispatched)' /\ EndBy(dispatched, lo)'
  BY <1>1 DEF Consumed, Batch, EndBy
<1>4. Batch(msgs) /\ EndBy(msgs, lo + reads) /\ EndBy(dispatched, lo)
  BY <1>1 DEF Consumed
<1>5. CASE msgs' = msgs
  <2>1. PICK q \in Nat, r \in Nat : q = lo + reads' /\ r = lo + reads /\ r <= q
    BY <1>0, <1>1 DEF TypeOK
  <2>2. \A k \in DOMAIN msgs : msgs[k].to \in Nat /\ msgs[k].to <= r
    BY <1>4, <2>1, SpanType DEF EndBy
  <2>3. EndBy(msgs, lo + reads')
    BY <2>1, <2>2 DEF EndBy
  <2> QED
    BY <1>5, <2>3, <1>1, <1>2, <1>3 DEF Consumed, Batch, EndBy
<1>6. CASE msgs' = Append(msgs, Read(size))
  <2>1. PICK m \in Span : /\ m = Read(size) /\ m.from \in Nat /\ m.to \in Nat
                          /\ m.from = lo + reads /\ m.to = lo + reads'
                          /\ m.from < m.to
    <3>1. PICK a \in Nat, r \in Nat : a = lo + reads /\ r = a + Header + size
      BY <1>0 DEF TypeOK
    <3>2. r = lo + reads' /\ a < r
      BY <1>0, <1>1, <3>1 DEF TypeOK
    <3>3. Read(size) = [from |-> a, to |-> r]
      BY <3>1 DEF Read, Pos
    <3> QED
      BY <3>1, <3>2, <3>3 DEF Span
  <2>2. Batch(Append(msgs, m)) /\ EndBy(Append(msgs, m), m.to)
    BY <2>1, <1>1, <1>4, SpanType, AppendKeeps
  <2>3. Batch(msgs)' /\ EndBy(msgs, lo + reads)'
    BY <2>1, <2>2, <1>1, <1>6 DEF Batch, EndBy
  <2>4. /\ DOMAIN msgs = 1 .. Len(msgs) /\ DOMAIN msgs' = 1 .. Len(msgs) + 1
        /\ Len(msgs) \in Nat /\ msgs'[Len(msgs) + 1] = m
        /\ \A k \in DOMAIN msgs : msgs'[k] = msgs[k]
    BY <1>6, <2>1, SpanType, LenProperties
  <2>5. \A j \in DOMAIN dispatched : dispatched[j].to <= m.from
    BY <2>1, <1>4, SpanType DEF EndBy, TypeOK
  <2>6. \A j \in DOMAIN dispatched', k \in DOMAIN msgs' : dispatched'[j].to <= msgs'[k].from
    BY <2>4, <2>5, <1>1 DEF Consumed
  <2> QED
    BY <2>3, <2>6, <1>1, <1>2, <1>3 DEF Consumed
<1> QED
  BY <1>5, <1>6 DEF WholeFrame

LEMMA ReceiveKeeps ==
    ASSUME IInv, NEW n \in 1 .. MAX_BUF_SIZE, Receive(n)
    PROVE  Buffer' /\ Consumed'
<1> USE DEF IInv
<1>1. /\ pc = "receive" /\ pc' = "parse"
      /\ hi' = hi + n /\ reads' = 0 /\ msgs' = <<>>
      /\ dispatched' = dispatched /\ frames' = frames
      /\ n \in Nat
  BY FramingAssumption DEF Receive
<1>2. lo' \in Nat /\ lo' <= hi /\ EndBy(dispatched, lo')
  <2>1. CASE flag /\ lo' = lo
    BY <2>1, <1>1 DEF Consumed, Buffer, TypeOK
  <2>2. CASE lo' = hi
    BY <2>2, <1>1 DEF Consumed, Batch, EndBy, TypeOK
  <2>3. (flag /\ lo' = lo) \/ lo' = hi
    BY Zenon DEF Receive, Stashed
  <2> QED
    BY <2>1, <2>2, <2>3
<1>3. Buffer'
  <2>1. PICK l \in Nat : lo' = l /\ l <= hi
    BY <1>2
  <2>2. l + 0 <= hi + n
    BY <1>1, <2>1 DEF TypeOK
  <2> QED
    BY <1>1, <2>1, <2>2 DEF Buffer
<1>4. Batch(dispatched)'
  <2>1. ASSUME NEW k \in DOMAIN dispatched
        PROVE  dispatched[k].to <= hi'
    BY <1>1, SpanType DEF Consumed, Batch, TypeOK
  <2> QED
    BY <2>1, <1>1 DEF Consumed, Batch
<1>5. Batch(msgs)' /\ EndBy(msgs, lo + reads)'
  BY <1>1 DEF Batch, EndBy
<1>6. EndBy(dispatched, lo)'
  BY <1>1, <1>2 DEF EndBy
<1>7. \A j \in DOMAIN dispatched', k \in DOMAIN msgs' : dispatched'[j].to <= msgs'[k].from
  BY <1>1
<1> QED
  BY <1>1, <1>3, <1>4, <1>5, <1>6, <1>7 DEF Consumed

LEMMA SettleKeeps ==
    ASSUME IInv, Settle PROVE Buffer' /\ Consumed'
<1> USE DEF IInv
<1>1. /\ pc = "settle" /\ hi' = hi /\ reads' = reads /\ count' = count
      /\ msgs' = msgs /\ dispatched' = dispatched /\ frames' = frames
  BY DEF Settle, KeepBuffer, KeepTail, KeepNothing, bufVars
<1>2. /\ Batch(dispatched)' /\ Batch(msgs)'
      /\ \A j \in DOMAIN dispatched', k \in DOMAIN msgs' : dispatched'[j].to <= msgs'[k].from
  BY <1>1 DEF Consumed, Batch
<1>3. lo + reads <= hi /\ EndBy(dispatched, lo) /\ EndBy(msgs, lo + reads)
  BY <1>1 DEF Buffer, Consumed
<1>4. EndBy(dispatched, lo + reads)
  BY <1>1, SpanType DEF Consumed, EndBy, TypeOK
<1>5. CASE KeepBuffer
  <2>1. lo' = lo /\ pc' = "receive" /\ msgs = <<>> /\ lo <= hi
    BY <1>1, <1>3, <1>5 DEF KeepBuffer, Consumed, TypeOK
  <2> QED
    BY <2>1, <1>1, <1>2, <1>3 DEF Buffer, Consumed, EndBy
<1>6. CASE KeepTail
  <2>1. lo' = lo + reads /\ pc' = "dispatch"
    BY <1>6 DEF KeepTail
  <2> QED
    BY <2>1, <1>1, <1>2, <1>3, <1>4 DEF Buffer, Consumed, EndBy
<1>7. CASE KeepNothing
  <2>1. lo' = lo /\ pc' = "dispatch" /\ flag' = flag
    BY <1>7 DEF KeepNothing, bufVars
  <2>2. ~flag
    BY <1>1 DEF NoFlag
  <2> QED
    BY <2>1, <2>2, <1>1, <1>2 DEF Buffer, Consumed
<1> QED
  BY <1>5, <1>6, <1>7 DEF Settle

LEMMA CallKeeps ==
    ASSUME IInv, Call PROVE Buffer' /\ Consumed'
<1> USE DEF IInv
<1> DEFINE m == msgs[1]
<1>1. /\ pc = "dispatch" /\ UNCHANGED <<frames, pc, hi, lo, reads, rest, flag, count>>
      /\ msgs # <<>>
  BY DEF Call
<1>2. /\ DOMAIN msgs = 1 .. Len(msgs) /\ Len(msgs) \in Nat \ {0}
      /\ DOMAIN dispatched = 1 .. Len(dispatched) /\ Len(dispatched) \in Nat
  BY <1>1, LenProperties, EmptySeq DEF TypeOK
<1>3. /\ dispatched' = Append(dispatched, m) /\ m \in Span
      /\ DOMAIN dispatched' = 1 .. Len(dispatched) + 1
      /\ dispatched'[Len(dispatched) + 1] = m
      /\ \A k \in DOMAIN dispatched : dispatched'[k] = dispatched[k]
  <2>1. m \in Span
    BY <1>2, SpanType
  <2> QED
    BY <2>1, <1>1, <1>2, SpanType DEF Call
<1>4. /\ DOMAIN msgs' = 1 .. Len(msgs) - 1
      /\ \A k \in DOMAIN msgs' : msgs'[k] = msgs[k + 1]
  BY <1>1, <1>2, SpanType DEF Call
<1>5. \A k \in DOMAIN msgs' : k + 1 \in DOMAIN msgs /\ m.to <= msgs'[k].from
  BY <1>2, <1>4 DEF Consumed, Batch
<1> HIDE DEF m
<1>6. m.from < m.to /\ m.to <= hi
      /\ \A k \in DOMAIN dispatched : dispatched[k].to <= m.from
  BY <1>2 DEF m, Consumed, Batch
<1>7. Buffer'
  BY <1>1 DEF Buffer
<1>8. Batch(dispatched)'
  <2>1. ASSUME NEW k \in DOMAIN dispatched'
        PROVE  dispatched'[k].from < dispatched'[k].to /\ dispatched'[k].to <= hi
    BY <2>1, <1>2, <1>3, <1>6 DEF Consumed, Batch
  <2>2. ASSUME NEW j \in DOMAIN dispatched', NEW k \in DOMAIN dispatched', j < k
        PROVE  dispatched'[j].to <= dispatched'[k].from
    BY <2>2, <1>2, <1>3, <1>6 DEF Consumed, Batch
  <2> QED
    BY <2>1, <2>2, <1>1 DEF Batch
<1>9. Batch(msgs)'
  BY <1>1, <1>2, <1>4, <1>5 DEF Consumed, Batch
<1>10. \A j \in DOMAIN dispatched', k \in DOMAIN msgs' : dispatched'[j].to <= msgs'[k].from
  BY <1>2, <1>3, <1>4, <1>5 DEF Consumed
<1>11. flag => EndBy(dispatched, lo)' /\ EndBy(msgs, lo)'
  <2> SUFFICES ASSUME flag PROVE EndBy(dispatched, lo)' /\ EndBy(msgs, lo)'
    OBVIOUS
  <2>1. EndBy(dispatched, lo) /\ EndBy(msgs, lo) /\ m.to <= lo
    BY <1>1, <1>2 DEF Consumed, EndBy, m
  <2> QED
    BY <2>1, <1>1, <1>2, <1>3, <1>4, <1>5 DEF EndBy
<1> QED
  BY <1>1, <1>7, <1>8, <1>9, <1>10, <1>11 DEF Consumed

LEMMA InvStep == IInv /\ [Next]_vars => IInv'
<1> SUFFICES ASSUME IInv, [Next]_vars PROVE IInv'
  OBVIOUS
<1>1. TypeOK'
  BY TypeStep DEF IInv
<1>2. ASSUME NEW size \in BodySizes, NEW known \in BOOLEAN, Send(size, known)
      PROVE  Layout' /\ Buffer' /\ NoFlag' /\ Consumed'
  <2>1. UNCHANGED <<pc, hi, lo, reads, rest, flag, count, msgs, dispatched>>
    BY <1>2 DEF Send, bufVars
  <2>2. Layout'
    BY <1>2, SendKeeps
  <2> QED
    BY <2>1, <2>2 DEF IInv, Buffer, NoFlag, Consumed, Batch, EndBy
<1>3. ASSUME UNCHANGED frames, Buffer', Consumed', NoFlag' PROVE IInv'
  BY <1>1, <1>3, LayoutSame DEF IInv
<1>4. ASSUME NEW n \in 1 .. MAX_BUF_SIZE, Receive(n) PROVE IInv'
  <2>1. UNCHANGED frames
    BY <1>4 DEF Receive
  <2>2. NoFlag'
    BY <1>4, Zenon DEF Receive, NoFlag
  <2> QED
    BY <1>3, <1>4, <2>1, <2>2, ReceiveKeeps
<1>5. CASE Disconnected \/ AddressFails
  <2>1. UNCHANGED <<frames, hi, lo, reads, rest, flag, count, msgs, dispatched>>
        /\ pc' \in {"closed", "dead"}
    BY <1>5 DEF Disconnected, AddressFails, bufVars
  <2> QED
    BY <1>3, <2>1 DEF IInv, Buffer, NoFlag, Consumed, Batch, EndBy
<1>6. CASE EndOfBuffer \/ SizeCut
  <2>1. UNCHANGED <<frames, hi, lo, reads, rest, flag, msgs, dispatched>>
        /\ pc = "parse" /\ pc' = "settle" /\ count' \in {Len(msgs), -1}
    BY <1>6 DEF EndOfBuffer, SizeCut, Return
  <2>2. count' = 0 => msgs = <<>>
    BY <2>1, EmptySeq DEF IInv, TypeOK
  <2> QED
    BY <1>3, <2>1, <2>2 DEF IInv, Buffer, NoFlag, Consumed, Batch, EndBy
<1>7. ASSUME NEW size \in SizeRead, TooBig(size) \/ BodyCut(size) PROVE IInv'
  <2>1. UNCHANGED <<frames, hi, lo, reads, flag, msgs, dispatched>>
        /\ pc = "parse" /\ pc' = "settle" /\ count' = Len(msgs)
    BY <1>7 DEF TooBig, BodyCut, Return
  <2>2. count' = 0 => msgs = <<>>
    BY <2>1, EmptySeq DEF IInv, TypeOK
  <2> QED
    BY <1>3, <2>1, <2>2 DEF IInv, Buffer, NoFlag, Consumed, Batch, EndBy
<1>8. ASSUME NEW size \in SizeRead, IdCut(size) PROVE IInv'
  <2>1. UNCHANGED <<frames, hi, lo, reads, rest, flag, count, msgs, dispatched>>
        /\ pc' = "dead"
    BY <1>8 DEF IdCut, bufVars
  <2> QED
    BY <1>3, <2>1 DEF IInv, Buffer, NoFlag, Consumed, Batch, EndBy
<1>9. ASSUME NEW size \in SizeRead, WholeFrame(size) PROVE IInv'
  <2>1. UNCHANGED <<frames, pc, flag>>
    BY <1>9 DEF WholeFrame
  <2> QED
    BY <1>3, <1>9, <2>1, WholeFrameKeeps DEF IInv, NoFlag
<1>10. CASE Settle
  <2>1. UNCHANGED frames /\ pc' \in {"receive", "dispatch"}
    BY <1>10 DEF Settle, KeepBuffer, KeepTail, KeepNothing
  <2> QED
    BY <1>3, <1>10, <2>1, SettleKeeps DEF NoFlag
<1>11. CASE Call
  <2>1. UNCHANGED <<frames, pc, flag>>
    BY <1>11 DEF Call
  <2> QED
    BY <1>3, <1>11, <2>1, CallKeeps DEF IInv, NoFlag
<1>12. CASE NextRound
  <2>1. UNCHANGED <<frames, hi, lo, reads, rest, flag, count, msgs, dispatched>>
        /\ pc = "dispatch" /\ pc' = "receive" /\ msgs = <<>>
    BY <1>12 DEF NextRound, bufVars
  <2> QED
    BY <1>3, <2>1 DEF IInv, Buffer, NoFlag, Consumed, Batch, EndBy
<1>13. CASE UNCHANGED vars
  BY <1>1, <1>13 DEF vars, IInv, Layout, Buffer, NoFlag, Consumed, Batch, EndBy, End, Total
<1> QED
  BY <1>1, <1>2, <1>4, <1>5, <1>6, <1>7, <1>8, <1>9, <1>10, <1>11, <1>12, <1>13
     DEF IInv, Next, Peer, Parse, ParseHeader, Dispatch

LEMMA InvHolds == Spec => []IInv
<1> QED
  BY InvInit, InvStep, PTL DEF Spec

\* Wherever the stream is cut, messages are called in the order of their bytes, and
\* no byte is called in two of them: none is called twice.
THEOREM CalledInOrder == Spec => []InOrder
<1>1. IInv => InOrder
  BY DEF IInv, Consumed, Batch, InOrder
<1> QED
  BY <1>1, InvHolds, PTL

-----------------------------------------------------------------------------
(* Every message of a buffer is built *)

\* Offsets at which a frame starts, or will when the peer sends one.
Boundary(p) == p = Total \/ \E i \in DOMAIN frames : frames[i].start = p

\* No bytes lie between two frames.
Contiguous == \A i \in DOMAIN frames : Boundary(End(i))

\* The buffer starts at a frame, and readObjects refuses none of its frames.
InStep ==
    /\ \E i \in DOMAIN frames : frames[i].start = lo
    /\ \A i \in DOMAIN frames :
          lo <= frames[i].start /\ frames[i].start < hi => frames[i].size <= MAX_BUF_SIZE

\* The messages of the buffer that end by p have been built.
Built(p) ==
    \A i \in DOMAIN frames :
        frames[i].known /\ lo <= frames[i].start /\ End(i) <= p => Message(i) \in Range(msgs)

Stepping ==
    /\ hi <= Total
    /\ pc \in {"parse", "settle"} => lo < hi
    /\ pc = "parse" /\ InStep => Boundary(lo + reads) /\ Built(lo + reads)
    /\ pc = "settle" /\ InStep => Built(hi)

RInv == IInv /\ Contiguous /\ Stepping

\* A frame that ends by p, where p lies inside frame f or at its end: it is f
\* itself, or it ends by the start of f.
LEMMA EndsBefore ==
    ASSUME IInv, NEW f \in DOMAIN frames, NEW i \in DOMAIN frames, NEW p \in Nat,
           p <= End(f), End(i) <= p
    PROVE  i = f \/ End(i) <= frames[f].start
<1>1. /\ End(i) \in Nat /\ frames[i].start < End(i) /\ frames[i].start \in Nat
      /\ End(f) \in Nat
  BY FrameType DEF IInv
<1>2. f < i => End(f) <= frames[i].start
  BY DEF IInv, Layout
<1>3. i < f => End(i) <= frames[f].start
  BY DEF IInv, Layout
<1>4. i \in Nat /\ f \in Nat
  BY LenProperties DEF IInv, TypeOK
<1> QED
  BY <1>1, <1>2, <1>3, <1>4

\* A frame the peer appends starts at the end of the stream, and what was a
\* boundary remains one.
LEMMA SendExtends ==
    ASSUME IInv, NEW size \in BodySizes, NEW known \in BOOLEAN, Send(size, known)
    PROVE  /\ Total' \in Nat /\ Total' > Total
           /\ \A p : Boundary(p) => Boundary(p)'
           /\ Contiguous => Contiguous'
           /\ \A i \in DOMAIN frames' :
                 \/ i \in DOMAIN frames /\ frames'[i] = frames[i] /\ End(i)' = End(i)
                 \/ frames'[i].start = Total /\ End(i)' = Total'
           /\ \E i \in DOMAIN frames' : frames'[i].start = Total /\ End(i)' = Total'
<1>1. \A i \in DOMAIN frames :
        i \in DOMAIN frames' /\ frames'[i] = frames[i] /\ End(i)' = End(i)
  BY SendKeeps
<1>2. PICK n \in Nat \ {0} : n = Len(frames) + 1
  BY LenProperties DEF IInv, TypeOK
<1>3. PICK tot \in Nat : tot = Total
  BY TotalType DEF IInv
<1>4. size \in Nat \ {0} /\ Header \in Nat /\ Header > 0
  BY FramingAssumption, HeaderType
<1>5. /\ DOMAIN frames = 1 .. n - 1 /\ DOMAIN frames' = 1 .. n /\ Len(frames') = n
      /\ frames'[n] = [start |-> tot, size |-> size, known |-> known]
  <2>1. [start |-> tot, size |-> size, known |-> known] \in Frame
    BY <1>3 DEF Frame
  <2> QED
    BY <2>1, <1>2, <1>3, LenProperties DEF Send, IInv, TypeOK
<1>6. /\ frames'[n].start = tot /\ End(n)' = tot + Header + size
      /\ Total' = tot + Header + size
  BY <1>2, <1>5 DEF End, Total
<1>7. ASSUME NEW p, Boundary(p) PROVE \E i \in DOMAIN frames' : frames'[i].start = p
  <2>1. CASE p = tot
    BY <2>1, <1>5, <1>6
  <2>2. CASE \E i \in DOMAIN frames : frames[i].start = p
    BY <2>2, <1>1
  <2> QED
    BY <1>7, <2>1, <2>2, <1>3 DEF Boundary
<1>8. ASSUME Contiguous, NEW i \in DOMAIN frames' PROVE Boundary(End(i))'
  <2>1. CASE i \in DOMAIN frames
    BY <2>1, <1>1, <1>7, <1>8 DEF Contiguous, Boundary
  <2>2. CASE i = n
    BY <2>2, <1>6 DEF Boundary
  <2> QED
    BY <2>1, <2>2, <1>5
<1>9. Total' \in Nat /\ Total' > Total
  BY <1>3, <1>4, <1>6
<1>10. \A p : Boundary(p) => Boundary(p)'
  BY <1>7 DEF Boundary
<1>11. Contiguous => Contiguous'
  BY <1>8 DEF Contiguous
<1>12. ASSUME NEW i \in DOMAIN frames'
       PROVE  \/ i \in DOMAIN frames /\ frames'[i] = frames[i] /\ End(i)' = End(i)
              \/ frames'[i].start = Total /\ End(i)' = Total'
  BY <1>1, <1>3, <1>5, <1>6
<1>13. \E i \in DOMAIN frames' : frames'[i].start = Total /\ End(i)' = Total'
  BY <1>2, <1>3, <1>5, <1>6
<1> QED
  BY <1>9, <1>10, <1>11, <1>12, <1>13

LEMMA SendSteps ==
    ASSUME RInv, NEW size \in BodySizes, NEW known \in BOOLEAN, Send(size, known)
    PROVE  Contiguous' /\ Stepping'
<1>1. UNCHANGED <<pc, hi, lo, reads, rest, flag, count, msgs, dispatched>>
  BY DEF Send, bufVars
<1>2. /\ Total' \in Nat /\ Total' > Total /\ \A p : Boundary(p) => Boundary(p)'
      /\ Contiguous'
      /\ \A i \in DOMAIN frames' :
            \/ i \in DOMAIN frames /\ frames'[i] = frames[i] /\ End(i)' = End(i)
            \/ frames'[i].start = Total /\ End(i)' = Total'
  BY SendExtends DEF RInv
<1>3. \A i \in DOMAIN frames : i \in DOMAIN frames' /\ frames'[i] = frames[i]
  BY SendKeeps DEF RInv
<1>4. PICK tot \in Nat, new \in Nat : tot = Total /\ new = Total' /\ new > tot
  BY <1>2, TotalType DEF RInv, IInv
<1>5. hi \in Nat /\ lo \in Nat /\ reads \in Nat /\ hi <= tot /\ hi <= new
  BY <1>4 DEF RInv, IInv, TypeOK, Stepping
<1>6. ASSUME pc \in {"parse", "settle"}, InStep' PROVE InStep
  <2>1. lo < hi
    BY <1>6 DEF RInv, Stepping
  <2>2. PICK j \in DOMAIN frames' : frames'[j].start = lo
    BY <1>1, <1>6 DEF InStep
  <2>3. j \in DOMAIN frames /\ frames[j].start = lo
    BY <1>2, <1>4, <1>5, <2>1, <2>2
  <2>4. ASSUME NEW i \in DOMAIN frames, lo <= frames[i].start, frames[i].start < hi
        PROVE  frames[i].size <= MAX_BUF_SIZE
    BY <1>1, <1>3, <1>6, <2>4 DEF InStep
  <2> QED
    BY <2>3, <2>4 DEF InStep
<1>7. ASSUME NEW p \in Nat, p <= tot, Built(p) PROVE Built(p)'
  <2> SUFFICES ASSUME NEW i \in DOMAIN frames', frames'[i].known, lo <= frames'[i].start,
                      End(i)' <= p
               PROVE  Message(i)' \in Range(msgs)
    BY <1>1 DEF Built, Range
  <2>1. i \in DOMAIN frames /\ frames'[i] = frames[i] /\ End(i)' = End(i)
    BY <1>2, <1>4, <1>7
  <2>2. Message(i)' = Message(i)
    BY <2>1 DEF Message
  <2> QED
    BY <1>7, <2>1, <2>2 DEF Built
<1>8. hi' <= Total'
  BY <1>1, <1>4, <1>5
<1>9. ASSUME pc = "parse", InStep' PROVE Boundary(lo + reads)' /\ Built(lo + reads)'
  <2>1. Boundary(lo + reads) /\ Built(lo + reads) /\ lo + reads \in Nat /\ lo + reads <= tot
    BY <1>5, <1>6, <1>9 DEF RInv, IInv, Stepping, Buffer
  <2> QED
    BY <2>1, <1>1, <1>2, <1>7 DEF Boundary, Built, Message
<1>10. ASSUME pc = "settle", InStep' PROVE Built(hi)'
  <2>1. Built(hi)
    BY <1>6, <1>10 DEF RInv, Stepping
  <2> QED
    BY <2>1, <1>1, <1>5, <1>7 DEF Built, Message
<1>11. pc' = pc /\ (pc' \in {"parse", "settle"} => lo' < hi')
  BY <1>1 DEF RInv, Stepping
<1> QED
  BY <1>2, <1>8, <1>9, <1>10, <1>11 DEF Stepping

\* A buffer in step whose next bytes are not a whole frame has all its messages.
LEMMA BuiltToEnd ==
    ASSUME RInv, pc = "parse", InStep,
           Left = 0 \/ (Left > 0 /\ \E f \in DOMAIN frames :
                           frames[f].start = Pos /\ End(f) > hi)
    PROVE  Built(hi)
<1>1. hi \in Nat /\ lo \in Nat /\ reads \in Nat /\ Left = hi - (lo + reads) /\ Pos = lo + reads
  BY DEF RInv, IInv, TypeOK, Left, Pos
<1>2. Built(lo + reads)
  BY DEF RInv, Stepping
<1>3. CASE Left = 0
  BY <1>1, <1>2, <1>3
<1>4. ASSUME NEW f \in DOMAIN frames, frames[f].start = Pos, End(f) > hi PROVE Built(hi)
  <2> SUFFICES ASSUME NEW i \in DOMAIN frames, frames[i].known, lo <= frames[i].start,
                      End(i) <= hi
               PROVE  Message(i) \in Range(msgs)
    BY DEF Built
  <2>1. End(f) \in Nat /\ End(i) \in Nat
    BY FrameType DEF RInv, IInv
  <2>2. i = f \/ End(i) <= lo + reads
    BY <1>1, <1>4, <2>1, EndsBefore DEF RInv
  <2> QED
    BY <1>1, <1>2, <1>4, <2>1, <2>2 DEF Built
<1> QED
  BY <1>3, <1>4

\* While bytes are left in a buffer in step, a frame starts at the parse position.
LEMMA FrameAhead ==
    ASSUME RInv, pc = "parse", InStep, Left > 0
    PROVE  /\ Aligned /\ FrameAtPos \in DOMAIN frames /\ frames[FrameAtPos].start = Pos
           /\ SizeRead = {frames[FrameAtPos].size}
           /\ frames[FrameAtPos].size <= MAX_BUF_SIZE
           /\ End(FrameAtPos) = Pos + Header + frames[FrameAtPos].size
<1>1. hi \in Nat /\ lo \in Nat /\ reads \in Nat /\ Left = hi - (lo + reads) /\ Pos = lo + reads
  BY DEF RInv, IInv, TypeOK, Left, Pos
<1>2. Pos < hi /\ lo <= Pos
  BY <1>1
<1>3. Total \in Nat /\ hi <= Total
  BY TotalType DEF RInv, IInv, Stepping
<1>4. Boundary(Pos) /\ Pos # Total
  BY <1>1, <1>2, <1>3 DEF RInv, Stepping
<1>5. Aligned
  BY <1>4 DEF Boundary, Aligned
<1>6. FrameAtPos \in DOMAIN frames /\ frames[FrameAtPos].start = Pos
  BY <1>5, AtPos DEF RInv, IInv
<1> QED
  BY <1>2, <1>5, <1>6 DEF InStep, SizeRead, End

LEMMA RangeOfAppend ==
    ASSUME NEW S, NEW s \in Seq(S), NEW e \in S
    PROVE  Range(Append(s, e)) = Range(s) \cup {e} /\ Append(s, e) # <<>>
<1>1. PICK t \in Seq(S) : t = Append(s, e)
  BY AppendProperties
<1>2. /\ DOMAIN s = 1 .. Len(s) /\ DOMAIN t = 1 .. Len(s) + 1 /\ Len(s) \in Nat
      /\ t[Len(s) + 1] = e /\ \A k \in DOMAIN s : t[k] = s[k]
  BY <1>1, LenProperties
<1>3. Len(s) + 1 \in DOMAIN t /\ DOMAIN t = DOMAIN s \cup {Len(s) + 1}
  BY <1>2
<1>4. Range(t) = Range(s) \cup {e} /\ t # <<>>
  BY <1>2, <1>3 DEF Range
<1> QED
  BY <1>1, <1>4

\* Aligned, readObjects builds the message of the frame found there, if it is known.
LEMMA WholeBuilds ==
    ASSUME IInv, NEW size \in SizeRead, WholeFrame(size), Aligned
    PROVE  LET f == FrameAtPos
           IN  /\ f \in DOMAIN frames /\ frames[f].start = lo + reads /\ size = frames[f].size
               /\ End(f) = lo + reads + Header + size
               /\ frames[f].known =>
                    Range(msgs') = Range(msgs) \cup {Message(f)} /\ msgs' # <<>>
               /\ ~frames[f].known => msgs' = msgs
<1>1. PICK f : f = FrameAtPos
  OBVIOUS
<1>2. f \in DOMAIN frames /\ frames[f].start = Pos /\ size = frames[f].size
  BY <1>1, AtPos DEF IInv, SizeRead
<1>3. Pos = lo + reads /\ Pos \in Nat /\ size \in Nat /\ Header \in Nat
  BY HeaderType, SizeReadType DEF Pos, IInv, TypeOK
<1>4. End(f) = Pos + Header + size /\ End(f) \in Nat
  BY <1>2, <1>3 DEF End
<1>5. Read(size) = Message(f) /\ Read(size) \in Span
  BY <1>2, <1>3, <1>4 DEF Read, Message, Span
<1>6. frames[f].known \in BOOLEAN /\ Decodes(size) = {frames[f].known}
  BY <1>1, <1>2, FrameType DEF Decodes, IInv, Frame
<1>7. msgs' = IF frames[f].known THEN Append(msgs, Message(f)) ELSE msgs
  BY <1>5, <1>6 DEF WholeFrame
<1>8. CASE frames[f].known
  <2>1. /\ Range(Append(msgs, Message(f))) = Range(msgs) \cup {Message(f)}
        /\ Append(msgs, Message(f)) # <<>>
    BY <1>5, SpanType, RangeOfAppend DEF IInv
  <2> QED
    BY <2>1, <1>1, <1>2, <1>3, <1>4, <1>7, <1>8
<1>9. CASE ~frames[f].known
  BY <1>1, <1>2, <1>3, <1>4, <1>7, <1>9
<1> QED
  BY <1>8, <1>9

LEMMA WholeSteps ==
    ASSUME RInv, NEW size \in SizeRead, WholeFrame(size), InStep
    PROVE  Boundary(lo + reads)' /\ Built(lo + reads)'
<1>1. /\ pc = "parse" /\ Left >= Header + size /\ reads' = reads + Header + size
      /\ UNCHANGED <<frames, hi, lo>>
  BY DEF WholeFrame
<1>2. /\ hi \in Nat /\ lo \in Nat /\ reads \in Nat /\ Header \in Nat /\ Header > 0
      /\ Left = hi - (lo + reads) /\ Pos = lo + reads /\ size \in Nat
  BY HeaderType, SizeReadType DEF RInv, IInv, TypeOK, Left, Pos
<1>3. Aligned
  BY <1>1, <1>2, FrameAhead
<1>4. PICK f \in DOMAIN frames :
         /\ frames[f].start = lo + reads /\ size = frames[f].size
         /\ End(f) = lo + reads + Header + size
         /\ frames[f].known => Range(msgs') = Range(msgs) \cup {Message(f)}
         /\ ~frames[f].known => msgs' = msgs
  BY <1>3, WholeBuilds DEF RInv
<1>5. PICK e \in Nat : e = lo + reads' /\ e = End(f)
  <2>1. PICK r \in Nat : r = reads + Header + size
    BY <1>2
  <2>2. lo + r = lo + reads + Header + size /\ lo + r \in Nat
    BY <1>2, <2>1
  <2> QED
    BY <1>1, <1>4, <2>1, <2>2
<1>6. Boundary(e)
  BY <1>4, <1>5 DEF RInv, Contiguous
<1>7. ASSUME NEW i \in DOMAIN frames, frames[i].known, lo <= frames[i].start, End(i) <= e
      PROVE  Message(i) \in Range(msgs')
  <2>1. i = f \/ End(i) <= lo + reads
    BY <1>4, <1>5, <1>7, EndsBefore DEF RInv
  <2>2. End(i) <= lo + reads => Message(i) \in Range(msgs)
    BY <1>1, <1>7 DEF RInv, Stepping, Built
  <2> QED
    BY <1>4, <1>7, <2>1, <2>2
<1> QED
  BY <1>1, <1>5, <1>6, <1>7 DEF Boundary, Built, Total, End, Range, Message

LEMMA ReceiveSteps ==
    ASSUME RInv, NEW n \in 1 .. MAX_BUF_SIZE, Receive(n)
    PROVE  Stepping'
<1>1. /\ pc = "receive" /\ pc' = "parse" /\ hi' = hi + n /\ reads' = 0
      /\ frames' = frames /\ hi + n <= Total
  BY DEF Receive
<1>2. hi \in Nat /\ lo \in Nat /\ n \in Nat /\ n > 0
  BY FramingAssumption DEF RInv, IInv, TypeOK
<1>3. (flag /\ lo' = lo) \/ lo' = hi
  <2>1. CASE Stashed(n)
    BY <2>1, Zenon DEF Receive, Stashed
  <2>2. CASE ~Stashed(n)
    BY <2>2, Zenon DEF Receive
  <2> QED
    BY <2>1, <2>2
<1>4. PICK l \in Nat : lo' = l /\ l <= hi
  BY <1>1, <1>2, <1>3 DEF RInv, IInv, Buffer
<1>5. hi' <= Total'
  BY <1>1 DEF Total, End
<1>6. lo' < hi' /\ l + 0 = l
  BY <1>1, <1>2, <1>4
<1>7. ASSUME InStep' PROVE Boundary(l)' /\ Built(l)'
  <2>1. Boundary(l)'
    BY <1>4, <1>7 DEF InStep, Boundary
  <2>2. ASSUME NEW i \in DOMAIN frames, l <= frames[i].start, End(i) <= l PROVE FALSE
    <3>1. End(i) \in Nat /\ End(i) > frames[i].start /\ frames[i].start \in Nat
      BY FrameType DEF RInv, IInv
    <3> QED
      BY <2>2, <3>1
  <2>3. Built(l)'
    BY <1>1, <1>4, <2>2 DEF Built, End, Message
  <2> QED
    BY <2>1, <2>3
<1>8. InStep' => Boundary(lo + reads)' /\ Built(lo + reads)'
  BY <1>1, <1>4, <1>6, <1>7 DEF Boundary, Built, Message
<1> QED
  BY <1>1, <1>5, <1>6, <1>8 DEF Stepping

LEMMA RInvStep == RInv /\ [Next]_vars => RInv'
<1> SUFFICES ASSUME RInv, [Next]_vars PROVE Contiguous' /\ Stepping'
  BY InvStep DEF RInv
<1>1. ASSUME UNCHANGED frames PROVE Contiguous'
  BY <1>1 DEF RInv, Contiguous, Boundary, Total, End
<1>2. ASSUME UNCHANGED <<frames, hi>>, pc' \notin {"parse", "settle"}
      PROVE  Contiguous' /\ Stepping'
  BY <1>1, <1>2 DEF RInv, Stepping, Total, End
<1>3. ASSUME UNCHANGED <<frames, hi, lo, msgs>>, pc = "parse", pc' = "settle",
             InStep => Built(hi)
      PROVE  Contiguous' /\ Stepping'
  BY <1>1, <1>3 DEF RInv, Stepping, Total, End, InStep, Built, Message
<1>4. ASSUME NEW size \in BodySizes, NEW known \in BOOLEAN, Send(size, known)
      PROVE  Contiguous' /\ Stepping'
  BY <1>4, SendSteps
<1>5. ASSUME NEW n \in 1 .. MAX_BUF_SIZE, Receive(n) PROVE Contiguous' /\ Stepping'
  BY <1>1, <1>5, ReceiveSteps DEF Receive
<1>6. CASE Disconnected \/ AddressFails
  BY <1>2, <1>6 DEF Disconnected, AddressFails, bufVars
<1>7. /\ hi \in Nat /\ lo \in Nat /\ reads \in Nat /\ Header \in Nat /\ Header >= SizeLen
      /\ Left = hi - (lo + reads) /\ Pos = lo + reads /\ SizeLen \in Nat \ {0}
  BY HeaderType, FramingAssumption DEF RInv, IInv, TypeOK, Left, Pos
<1>8. CASE EndOfBuffer
  BY <1>3, <1>8, BuiltToEnd DEF EndOfBuffer, Return
<1>9. CASE SizeCut
  <2>1. ASSUME InStep PROVE Built(hi)
    <3>1. Left > 0 /\ Left < SizeLen /\ pc = "parse"
      BY <1>9 DEF SizeCut
    <3>2. PICK f \in DOMAIN frames : frames[f].start = Pos /\ End(f) = Pos + Header + frames[f].size
      BY <2>1, <3>1, FrameAhead
    <3>3. frames[f].size \in Nat
      BY FrameType DEF RInv, IInv
    <3>4. End(f) > hi
      BY <1>7, <3>1, <3>2, <3>3
    <3> QED
      BY <2>1, <3>1, <3>2, <3>4, BuiltToEnd
  <2> QED
    BY <1>3, <1>9, <2>1 DEF SizeCut, Return
<1>10. ASSUME NEW size \in SizeRead, TooBig(size) PROVE Contiguous' /\ Stepping'
  <2>1. ~InStep
    <3>1. pc = "parse" /\ Left > 0 /\ size > MAX_BUF_SIZE /\ size \in Nat
      BY <1>7, <1>10, SizeReadType DEF TooBig, RInv, IInv
    <3>2. InStep => size <= MAX_BUF_SIZE
      BY <3>1, FrameAhead
    <3> QED
      BY <3>1, <3>2, FramingAssumption
  <2> QED
    BY <1>3, <1>10, <2>1 DEF TooBig, Return
<1>11. ASSUME NEW size \in SizeRead, IdCut(size) PROVE Contiguous' /\ Stepping'
  BY <1>2, <1>11 DEF IdCut, bufVars
<1>12. ASSUME NEW size \in SizeRead, BodyCut(size) PROVE Contiguous' /\ Stepping'
  <2>1. ASSUME InStep PROVE Built(hi)
    <3>1. Left >= Header /\ Left < Header + size /\ pc = "parse" /\ size \in Nat
      BY <1>12, SizeReadType DEF BodyCut, RInv, IInv
    <3>2. Left > 0
      BY <1>7, <3>1
    <3>3. PICK f \in DOMAIN frames : frames[f].start = Pos /\ End(f) = Pos + Header + size
      BY <2>1, <3>1, <3>2, FrameAhead
    <3>4. End(f) > hi
      BY <1>7, <3>1, <3>3
    <3> QED
      BY <2>1, <3>1, <3>2, <3>3, <3>4, BuiltToEnd
  <2> QED
    BY <1>3, <1>12, <2>1 DEF BodyCut, Return
<1>13. ASSUME NEW size \in SizeRead, WholeFrame(size) PROVE Contiguous' /\ Stepping'
  <2>1. UNCHANGED <<frames, hi, lo, pc>> /\ pc = "parse"
    BY <1>13 DEF WholeFrame
  <2>2. InStep' => InStep
    BY <2>1 DEF InStep
  <2>3. InStep' => Boundary(lo + reads)' /\ Built(lo + reads)'
    BY <1>13, <2>2, WholeSteps
  <2>4. hi' <= Total' /\ lo' < hi'
    BY <2>1 DEF RInv, Stepping, Total, End
  <2> QED
    BY <1>1, <2>1, <2>3, <2>4 DEF Stepping
<1>14. CASE Settle
  BY <1>2, <1>14 DEF Settle, KeepBuffer, KeepTail, KeepNothing, bufVars
<1>15. CASE Dispatch
  BY <1>2, <1>15 DEF Dispatch, Call, NextRound, bufVars
<1>16. CASE UNCHANGED vars
  BY <1>1, <1>16 DEF vars, RInv, Stepping, Total, End, InStep, Built, Boundary, Message
<1> QED
  BY <1>4, <1>5, <1>6, <1>8, <1>9, <1>10, <1>11, <1>12, <1>13, <1>14, <1>15, <1>16
     DEF Next, Peer, Parse, ParseHeader

LEMMA RInvInit == Init => RInv
<1> SUFFICES ASSUME Init PROVE RInv
  OBVIOUS
<1>1. DOMAIN frames = {} /\ Total = 0 /\ hi = 0 /\ pc = "receive"
  BY EmptySeq DEF Init, ReaderInit, Total
<1> QED
  BY <1>1, InvInit DEF RInv, Contiguous, Stepping

\* A buffer that starts at a frame and holds none that is too big is understood
\* completely, wherever it ends.
THEOREM RoundIsComplete == Spec => []RoundComplete
<1>1. RInv => RoundComplete
  BY DEF RInv, Stepping, InStep, Built, RoundComplete, InBuffer
<1> QED
  BY <1>1, RInvInit, RInvStep, PTL DEF Spec

-----------------------------------------------------------------------------
(* The reading thread implements MessageFeed *)

Sent == [i \in DOMAIN frames |-> frames[i].known]

\* A message called, as MessageFeed sees it.
Item(m) == LET i == FrameOf(m.from) IN [of |-> i, real |-> m = Message(i)]

Called == [k \in DOMAIN dispatched |-> Item(dispatched[k])]

\* Every byte sent is one of a frame.
Tiled ==
    \A p \in Nat :
        p < Total => \E i \in DOMAIN frames : frames[i].start <= p /\ p < End(i)

\* A message that begins where a frame does is one the reader knows.
Origin ==
    \A k \in DOMAIN msgs, i \in DOMAIN frames :
        frames[i].start = msgs[k].from => frames[i].known

FInv == RInv /\ Tiled /\ Origin

LEMMA TiledStep ==
    ASSUME FInv, [Next]_vars
    PROVE  Tiled'
<1>1. CASE UNCHANGED frames
  BY <1>1 DEF FInv, Tiled, Total, End
<1>2. ASSUME NEW size \in BodySizes, NEW known \in BOOLEAN, Send(size, known)
      PROVE  Tiled'
  <2>1. PICK n \in DOMAIN frames' : frames'[n].start = Total /\ End(n)' = Total'
    BY <1>2, SendExtends DEF FInv, RInv
  <2>2. Total \in Nat /\ Total' \in Nat
    BY <1>2, TotalType, SendExtends DEF FInv, RInv, IInv
  <2>3. \A i \in DOMAIN frames :
           i \in DOMAIN frames' /\ frames'[i] = frames[i] /\ End(i)' = End(i)
    BY <1>2, SendKeeps DEF FInv, RInv
  <2> SUFFICES ASSUME NEW p \in Nat, p < Total'
               PROVE  \E i \in DOMAIN frames' : frames'[i].start <= p /\ p < End(i)'
    BY DEF Tiled
  <2>4. CASE p < Total
    <3>1. PICK i \in DOMAIN frames : frames[i].start <= p /\ p < End(i)
      BY <2>4 DEF FInv, Tiled
    <3> QED
      BY <3>1, <2>3
  <2>5. CASE Total <= p
    BY <2>1, <2>5
  <2> QED
    BY <2>2, <2>4, <2>5
<1> QED
  BY <1>1, <1>2 DEF Next, Peer, Receive, Disconnected, AddressFails, Parse, ParseHeader,
         EndOfBuffer, SizeCut, TooBig, IdCut, BodyCut, WholeFrame, Settle, KeepBuffer,
         KeepTail, KeepNothing, Dispatch, Call, NextRound, vars

LEMMA OriginStep ==
    ASSUME FInv, [Next]_vars
    PROVE  Origin'
<1> USE DEF FInv, RInv
<1>1. CASE UNCHANGED <<frames, msgs>>
  BY <1>1 DEF Origin
<1>2. ASSUME NEW size \in BodySizes, NEW known \in BOOLEAN, Send(size, known)
      PROVE  Origin'
  <2>1. msgs' = msgs
    BY <1>2 DEF Send, bufVars
  <2> SUFFICES ASSUME NEW k \in DOMAIN msgs, NEW i \in DOMAIN frames',
                      frames'[i].start = msgs[k].from
               PROVE  frames'[i].known
    BY <2>1 DEF Origin
  <2>2. msgs[k].from < Total
    <3>1. PICK t \in Nat, h \in Nat : t = Total /\ h = hi /\ h <= t
      BY TotalType DEF IInv, TypeOK, Stepping
    <3>2. /\ msgs[k].from \in Nat /\ msgs[k].to \in Nat
          /\ msgs[k].from < msgs[k].to /\ msgs[k].to <= hi
      BY SpanType DEF IInv, Consumed, Batch
    <3> QED
      BY <3>1, <3>2
  <2>3. frames'[i].start # Total
    BY <2>2, TotalType, SpanType DEF IInv
  <2>4. i \in DOMAIN frames /\ frames'[i] = frames[i]
    BY <1>2, <2>3, SendExtends
  <2> QED
    BY <2>4 DEF Origin
<1>3. ASSUME NEW n \in 1 .. MAX_BUF_SIZE, Receive(n) PROVE Origin'
  BY <1>3 DEF Receive, Origin
<1>4. ASSUME NEW size \in SizeRead, WholeFrame(size) PROVE Origin'
  <2>1. frames' = frames /\ pc = "parse"
    BY <1>4 DEF WholeFrame
  <2>2. CASE msgs' = msgs
    BY <2>1, <2>2 DEF Origin
  <2>3. CASE msgs' = Append(msgs, Read(size)) /\ msgs' # msgs
    <3>1. size \in Nat /\ Header \in Nat /\ Pos \in Nat /\ Read(size) \in Span
      BY SizeReadType, HeaderType DEF IInv, TypeOK, Pos, Read, Span
    <3>2. /\ DOMAIN msgs = 1 .. Len(msgs) /\ DOMAIN msgs' = 1 .. Len(msgs) + 1
          /\ Len(msgs) \in Nat /\ msgs'[Len(msgs) + 1] = Read(size)
          /\ \A k \in DOMAIN msgs : msgs'[k] = msgs[k]
      BY <2>3, <3>1, SpanType, LenProperties DEF IInv
    <3>3. ASSUME NEW i \in DOMAIN frames, frames[i].start = Read(size).from
          PROVE  frames[i].known
      <4>1. Aligned /\ frames[i].start = Pos
        BY <3>3 DEF Aligned, Read
      <4>2. /\ FrameAtPos \in DOMAIN frames /\ frames[FrameAtPos].start = Pos
            /\ frames[FrameAtPos].known
        BY <1>4, <2>3, <4>1, AtPos, WholeBuilds DEF IInv
      <4>3. i = FrameAtPos
        <5>1. i \in Nat /\ FrameAtPos \in Nat
          BY <4>2, LenProperties DEF IInv, TypeOK
        <5>2. ~(i < FrameAtPos) /\ ~(FrameAtPos < i)
          BY <4>1, <4>2, FrameType DEF IInv, Layout
        <5> QED
          BY <5>1, <5>2
      <4> QED
        BY <4>2, <4>3
    <3> SUFFICES ASSUME NEW k \in DOMAIN msgs', NEW i \in DOMAIN frames,
                        frames[i].start = msgs'[k].from
                 PROVE  frames[i].known
      BY <2>1 DEF Origin
    <3> QED
      BY <3>2, <3>3 DEF Origin
  <2> QED
    BY <1>4, <2>2, <2>3 DEF WholeFrame
<1>5. CASE Call
  <2>1. /\ frames' = frames /\ msgs' = Tail(msgs)
        /\ DOMAIN msgs = 1 .. Len(msgs) /\ Len(msgs) \in Nat \ {0}
    BY <1>5, LenProperties, EmptySeq DEF Call, IInv, TypeOK
  <2>2. /\ DOMAIN msgs' = 1 .. Len(msgs) - 1
        /\ \A k \in DOMAIN msgs' : msgs'[k] = msgs[k + 1]
    BY <2>1, SpanType DEF IInv
  <2> QED
    BY <2>1, <2>2 DEF Origin
<1> QED
  BY <1>1, <1>2, <1>3, <1>4, <1>5
     DEF Next, Peer, Disconnected, AddressFails, Parse, ParseHeader, EndOfBuffer, SizeCut,
         TooBig, IdCut, BodyCut, Settle, KeepBuffer, KeepTail, KeepNothing, Dispatch,
         NextRound, vars, bufVars

LEMMA FInvHolds == Spec => []FInv
<1>1. Init => FInv
  <2> SUFFICES ASSUME Init PROVE FInv
    OBVIOUS
  <2>1. RInv
    BY RInvInit
  <2>2. Total = 0 /\ msgs = <<>>
    BY EmptySeq DEF Init, ReaderInit, Total
  <2> QED
    BY <2>1, <2>2 DEF FInv, Tiled, Origin
<1>2. FInv /\ [Next]_vars => FInv'
  BY RInvStep, TiledStep, OriginStep DEF FInv
<1> QED
  BY <1>1, <1>2, PTL DEF Spec

\* The frame a byte is in is the only one.
LEMMA FrameOfIs ==
    ASSUME IInv, NEW p \in Nat, NEW i \in DOMAIN frames, frames[i].start <= p, p < End(i)
    PROVE  FrameOf(p) = i
<1>1. ASSUME NEW j \in DOMAIN frames, frames[j].start <= p, p < End(j) PROVE j = i
  <2>1. /\ i \in Nat /\ j \in Nat
        /\ frames[i].start \in Nat /\ End(i) \in Nat /\ frames[j].start \in Nat /\ End(j) \in Nat
    BY FrameType, LenProperties DEF IInv, TypeOK
  <2>2. (i < j => End(i) <= frames[j].start) /\ (j < i => End(j) <= frames[i].start)
    BY DEF IInv, Layout
  <2> QED
    BY <1>1, <2>1, <2>2
<1> QED
  BY <1>1 DEF FrameOf

\* The frame in which a message called, or about to be, begins.
LEMMA ItemFrame ==
    ASSUME FInv, NEW m \in Span, m.from < m.to, m.to <= hi
    PROVE  LET i == FrameOf(m.from)
           IN  i \in DOMAIN frames /\ frames[i].start <= m.from /\ m.from < End(i)
<1>1. m.from \in Nat /\ m.to \in Nat /\ hi \in Nat /\ Total \in Nat /\ hi <= Total
  BY TotalType DEF Span, FInv, RInv, IInv, TypeOK, Stepping
<1>2. PICK i \in DOMAIN frames : frames[i].start <= m.from /\ m.from < End(i)
  BY <1>1 DEF FInv, Tiled
<1>3. FrameOf(m.from) = i
  BY <1>1, <1>2, FrameOfIs DEF FInv, RInv
<1> QED
  BY <1>2, <1>3

LEMMA AppendedOne ==
    ASSUME NEW S, NEW n \in Nat, NEW s \in Seq(S), NEW t \in Seq(S), NEW e \in S,
           Len(s) = n, Len(t) = n + 1, \A i \in 1 .. n : t[i] = s[i], t[n + 1] = e
    PROVE  t = Append(s, e)
<1>1. \A i \in 1 .. Len(t) : t[i] = Append(s, e)[i]
  BY AppendProperties
<1> QED
  BY <1>1, SeqEqual, AppendProperties

\* What was called stays what it was when the peer sends another frame.
LEMMA SendKeepsCalled ==
    ASSUME FInv, NEW size \in BodySizes, NEW known \in BOOLEAN, Send(size, known)
    PROVE  Called' = Called
<1>1. dispatched' = dispatched
  BY DEF Send
<1>2. \A i \in DOMAIN frames :
        i \in DOMAIN frames' /\ frames'[i] = frames[i] /\ End(i)' = End(i)
  BY SendKeeps DEF FInv, RInv
<1>3. IInv'
  BY InvStep DEF FInv, RInv, Next, Peer
<1>4. ASSUME NEW k \in DOMAIN dispatched PROVE Item(dispatched[k])' = Item(dispatched[k])
  <2>1. PICK m \in Span : m = dispatched[k] /\ m.from \in Nat /\ m.from < m.to /\ m.to <= hi
    BY SpanType DEF FInv, RInv, IInv, Consumed, Batch
  <2>2. PICK i \in DOMAIN frames :
           i = FrameOf(m.from) /\ frames[i].start <= m.from /\ m.from < End(i)
    BY <2>1, ItemFrame
  <2>3. /\ i \in DOMAIN frames' /\ frames'[i].start <= m.from /\ m.from < End(i)'
        /\ Message(i)' = Message(i)
    BY <2>2, <1>2 DEF Message
  <2>4. FrameOf(m.from)' = i
    <3>1. ASSUME NEW j \in DOMAIN frames', frames'[j].start <= m.from, m.from < End(j)'
          PROVE  j = i
      <4>1. /\ i \in Nat /\ j \in Nat
            /\ frames'[i].start \in Nat /\ End(i)' \in Nat
            /\ frames'[j].start \in Nat /\ End(j)' \in Nat
        <5>1. frames' \in Seq(Frame)
          BY <1>3 DEF IInv, TypeOK
        <5>2. \A x \in DOMAIN frames' : x \in Nat /\ frames'[x] \in Frame
          BY <5>1, LenProperties
        <5>3. \A x \in Frame : x.start \in Nat /\ x.size \in Nat
          BY FramingAssumption DEF Frame
        <5> QED
          BY <2>3, <5>2, <5>3, HeaderType DEF End
      <4>2. /\ i < j => End(i)' <= frames'[j].start
            /\ j < i => End(j)' <= frames'[i].start
        BY <1>3, <2>3 DEF IInv, Layout
      <4> QED
        BY <3>1, <2>1, <2>3, <4>1, <4>2
    <3> QED
      BY <2>1, <2>3, <3>1, <1>1 DEF FrameOf
  <2> QED
    BY <1>1, <2>1, <2>2, <2>3, <2>4 DEF Item
<1> QED
  BY <1>1, <1>4 DEF Called

LEMMA SendIsFeedSend ==
    ASSUME FInv, NEW size \in BodySizes, NEW known \in BOOLEAN, Send(size, known)
    PROVE  Feed!Send(known)
<1>1. TypeOK /\ TypeOK'
  BY TypeStep DEF FInv, RInv, IInv, Next, Peer
<1> DEFINE f == [start |-> Total, size |-> size, known |-> known]
<1>2. frames' = Append(frames, f) /\ f \in Frame /\ f.known = known
      /\ dispatched' = dispatched
  BY <1>1, TotalType DEF Send, Frame
<1> HIDE DEF f
<1>3. PICK n \in Nat : Len(frames) = n /\ DOMAIN frames = 1 .. n
  BY <1>1, LenProperties DEF TypeOK
<1>4. /\ DOMAIN frames' = 1 .. n + 1 /\ frames'[n + 1] = f
      /\ \A i \in 1 .. n : frames'[i] = frames[i]
  <2>1. frames \in Seq(Frame) /\ frames' \in Seq(Frame)
    BY <1>1 DEF TypeOK
  <2>2. PICK s, longer : s = frames /\ longer = frames'
    OBVIOUS
  <2>3. s \in Seq(Frame) /\ longer \in Seq(Frame) /\ longer = Append(s, f) /\ Len(s) = n
    BY <1>2, <1>3, <2>1, <2>2
  <2>4. /\ Len(longer) = n + 1 /\ longer[n + 1] = f
        /\ \A i \in 1 .. n : longer[i] = s[i]
    BY <1>2, <2>3, AppendProperties
  <2> QED
    BY <2>2, <2>3, <2>4, LenProperties
<1>5. Sent = [i \in 1 .. n |-> frames[i].known]
  BY <1>3 DEF Sent
<1>6. \A i \in 1 .. n : frames[i].known \in BOOLEAN
  BY <1>1, <1>3, FrameType DEF Frame
<1>7. Sent \in Seq(BOOLEAN) /\ Len(Sent) = n
  BY <1>5, <1>6, <1>3
<1>8. Sent' = [i \in 1 .. n + 1 |-> frames'[i].known]
  BY <1>4 DEF Sent
<1>9. \A i \in 1 .. n + 1 : frames'[i].known \in BOOLEAN
  BY <1>1, <1>2, <1>3, <1>4, <1>6
<1>10. PICK s \in Seq(BOOLEAN) : s = Sent' /\ Len(s) = n + 1
  BY <1>3, <1>8, <1>9
<1>11. \A i \in 1 .. n : s[i] = Sent[i]
  BY <1>3, <1>4, <1>5, <1>8, <1>10
<1>12. s[n + 1] = known
  BY <1>2, <1>3, <1>4, <1>8, <1>10
<1>13. s = Append(Sent, known)
  BY <1>7, <1>10, <1>11, <1>12, AppendedOne
<1>14. Sent' = Append(Sent, known)
  BY <1>10, <1>13
<1> QED
  BY <1>14, SendKeepsCalled DEF Feed!Send, Sent, Called, Item

LEMMA CallIsDeliver ==
    ASSUME FInv, Call PROVE Feed!Next
<1> DEFINE m == msgs[1]
<1>1. /\ DOMAIN msgs = 1 .. Len(msgs) /\ Len(msgs) \in Nat \ {0} /\ 1 \in DOMAIN msgs
      /\ dispatched' = Append(dispatched, m) /\ frames' = frames
      /\ dispatched \in Seq(Span)
  BY LenProperties, EmptySeq, SpanType DEF Call, FInv, RInv, IInv, TypeOK
<1>2. /\ m \in Span /\ m.from \in Nat /\ m.to \in Nat /\ m.from < m.to /\ m.to <= hi
      /\ \A k \in DOMAIN dispatched : dispatched[k].to <= m.from
      /\ \A i \in DOMAIN frames : frames[i].start = m.from => frames[i].known
  BY <1>1, SpanType DEF FInv, RInv, IInv, Consumed, Batch, Origin
<1> HIDE DEF m
<1>3. PICK i \in DOMAIN frames :
         i = FrameOf(m.from) /\ frames[i].start <= m.from /\ m.from < End(i)
  BY <1>2, ItemFrame
<1>4. /\ i \in Nat /\ frames[i].start \in Nat /\ End(i) \in Nat
  BY FrameType, LenProperties DEF FInv, RInv, IInv, TypeOK
<1>5. ASSUME NEW k \in DOMAIN dispatched
      PROVE  /\ Called[k].of < i \/ (Called[k].of = i /\ ~Called[k].real)
             /\ m = Message(i) => Called[k].of < i
  <2>1. PICK d \in Span : /\ d = dispatched[k] /\ d.from \in Nat /\ d.to \in Nat
                          /\ d.from < d.to /\ d.to <= hi /\ d.to <= m.from
    BY <1>2, SpanType DEF FInv, RInv, IInv, Consumed, Batch
  <2>2. PICK j \in DOMAIN frames :
           j = FrameOf(d.from) /\ frames[j].start <= d.from /\ d.from < End(j)
    BY <2>1, ItemFrame
  <2>3. j \in Nat /\ frames[j].start \in Nat /\ End(j) \in Nat
    BY FrameType, LenProperties DEF FInv, RInv, IInv, TypeOK
  <2>4. Called[k] = [of |-> j, real |-> d = Message(j)]
    BY <2>1, <2>2 DEF Called, Item
  <2>5. j <= i
    <3>1. i < j => End(i) <= frames[j].start
      BY DEF FInv, RInv, IInv, Layout
    <3> QED
      BY <3>1, <1>2, <1>3, <1>4, <2>1, <2>2, <2>3
  <2>6. j = i => d # Message(j)
    BY <1>2, <1>3, <1>4, <2>1 DEF Message
  <2>7. m = Message(i) => j # i
    BY <1>2, <1>4, <2>1, <2>2, <2>3 DEF Message
  <2>8. Called[k].of = j /\ (j = i => ~Called[k].real)
    <3>1. Called[k].of = j
      BY <2>4
    <3>2. ASSUME j = i PROVE ~Called[k].real
      <4>1. (d = Message(j)) = FALSE
        BY <2>6, <3>2
      <4>2. Called[k] = [of |-> j, real |-> FALSE]
        BY <2>4, <4>1
      <4> QED
        BY <4>2
    <3> QED
      BY <3>1, <3>2
  <2>9. j < i \/ j = i
    BY <1>4, <2>3, <2>5
  <2> QED
    BY <2>7, <2>8, <2>9
<1>6. Called' = Append(Called, Item(m))
  <2>1. PICK n \in Nat : n = Len(dispatched) /\ DOMAIN dispatched = 1 .. n
    BY <1>1, LenProperties
  <2>2. PICK c : c = Called
    OBVIOUS
  <2>3. c = [k \in 1 .. n |-> Item(dispatched[k])]
    BY <2>1, <2>2 DEF Called
  <2>4. /\ DOMAIN dispatched' = 1 .. n + 1 /\ dispatched'[n + 1] = m
        /\ \A k \in 1 .. n : dispatched'[k] = dispatched[k]
    BY <1>1, <1>2, <2>1
  <2>5. \A x : Item(x)' = Item(x)
    BY <1>1 DEF Item, FrameOf, Message, End
  <2> DEFINE S == {Item(dispatched'[k]) : k \in 1 .. n + 1}
  <2>6. Called' = [k \in 1 .. n + 1 |-> Item(dispatched'[k])]
    BY <2>4, <2>5, <1>1 DEF Called, Item, FrameOf, Message, End
  <2>7. PICK t : t = Called'
    OBVIOUS
  <2>8. t = [k \in 1 .. n + 1 |-> Item(dispatched'[k])]
    BY <2>6, <2>7
  <2>9. t \in Seq(S) /\ Len(t) = n + 1 /\ Item(m) \in S /\ t[n + 1] = Item(m)
    BY <2>4, <2>8
  <2>10. c \in Seq(S) /\ Len(c) = n
    BY <2>3, <2>4
  <2>11. \A k \in 1 .. n : t[k] = c[k]
    BY <2>3, <2>4, <2>8
  <2>12. t = Append(c, Item(m))
    <3> HIDE DEF S
    <3> QED
      BY <2>1, <2>9, <2>10, <2>11, AppendedOne
  <2> QED
    BY <2>2, <2>7, <2>12
<1>7. Item(m) = [of |-> i, real |-> m = Message(i)]
  BY <1>3 DEF Item
<1>8. DOMAIN Called = DOMAIN dispatched /\ i \in DOMAIN Sent /\ Sent' = Sent
  BY <1>1 DEF Called, Sent
<1>9. CASE m = Message(i)
  <2>1. Sent[i]
    BY <1>2, <1>9 DEF Sent, Message
  <2>2. /\ Sent[i] /\ \A k \in DOMAIN Called : Called[k].of < i
        /\ Called' = Append(Called, [of |-> i, real |-> TRUE]) /\ Sent' = Sent
    BY <1>5, <1>6, <1>7, <1>8, <1>9, <2>1
  <2>3. Feed!Deliver(i)
    BY <2>2 DEF Feed!Deliver, Called, Sent, Item
  <2> QED
    BY <1>8, <2>3 DEF Feed!Next, Sent
<1>10. CASE m # Message(i)
  <2>1. /\ \A k \in DOMAIN Called :
              Called[k].of < i \/ (Called[k].of = i /\ ~Called[k].real)
        /\ Called' = Append(Called, [of |-> i, real |-> FALSE]) /\ Sent' = Sent
    BY <1>5, <1>6, <1>7, <1>8, <1>10
  <2>2. Feed!Garble(i)
    BY <2>1 DEF Feed!Garble, Called, Sent, Item
  <2> QED
    BY <1>8, <2>2 DEF Feed!Next, Sent
<1> QED
  BY <1>9, <1>10

LEMMA StepIsFeedStep ==
    ASSUME FInv, [Next]_vars PROVE [Feed!Next]_<<Sent, Called>>
<1>1. ASSUME NEW size \in BodySizes, NEW known \in BOOLEAN, Send(size, known)
      PROVE  Feed!Next
  BY <1>1, SendIsFeedSend DEF Feed!Next
<1>2. CASE Call
  BY <1>2, CallIsDeliver
<1>3. CASE UNCHANGED <<frames, dispatched>>
  BY <1>3 DEF Sent, Called, Item, FrameOf, Message, End
<1>4. \/ \E size \in BodySizes, known \in BOOLEAN : Send(size, known)
      \/ Call
      \/ UNCHANGED <<frames, dispatched>>
  BY DEF Next, Peer, Receive, Disconnected, AddressFails, Parse, ParseHeader, EndOfBuffer,
         SizeCut, TooBig, IdCut, BodyCut, WholeFrame, Settle, KeepBuffer, KeepTail,
         KeepNothing, Dispatch, NextRound, vars, bufVars
<1> QED
  BY <1>1, <1>2, <1>3, <1>4

\* Every behaviour of the reading thread is, seen from what was sent and what
\* was called, a behaviour of the ordered feed that may lose messages and put
\* others in their place.
THEOREM ImplementsFeed == Spec => FeedSpec
<1>1. Init => Feed!Init
  BY EmptySeq DEF Init, ReaderInit, Feed!Init
<1>2. FInv /\ [Next]_vars => [Feed!Next]_<<Sent, Called>>
  BY StepIsFeedStep
<1> QED
  BY <1>1, <1>2, FInvHolds, PTL DEF Spec, FeedSpec, Feed!Spec, Sent, Called, Item

-----------------------------------------------------------------------------
(* Cooperative peers *)


AllKnown == \A i \in DOMAIN frames : frames[i].known

\* Every message that ends by p was called or is about to be.
Covered(p) ==
    \A i \in DOMAIN frames :
        frames[i].known /\ End(i) <= p =>
            Message(i) \in Range(dispatched) \/ Message(i) \in Range(msgs)

\* The reader never leaves the frames: what it builds are messages sent.
InFrames ==
    \A m \in Range(dispatched) \cup Range(msgs) :
        \E i \in DOMAIN frames : frames[i].known /\ m = Message(i)

\* The bytes received end in the body of frame i, of which `rest` are missing.
CutAt(i) == frames[i].start + Header <= hi /\ rest > 0 /\ hi + rest = End(i)

Waiting ==
    pc \in {"receive", "dispatch"} =>
        /\ Covered(hi)
        /\ ~flag => Boundary(hi)
        /\ flag => /\ Boundary(lo)
                   /\ \E i \in DOMAIN frames :
                        lo <= frames[i].start /\ CutAt(i) /\ (AllKnown => frames[i].start = lo)

Parsing ==
    pc \in {"parse", "settle"} =>
        /\ Boundary(lo) /\ Boundary(lo + reads)
        /\ Covered(lo + reads)
        /\ reads = 0 => msgs = <<>>
        /\ AllKnown /\ msgs = <<>> => reads = 0

Counting ==
    /\ pc = "parse" => rest = IF reads = 0 THEN 0 ELSE hi - lo - reads
    /\ pc = "settle" =>
        /\ count = Len(msgs)
        /\ \/ rest = 0 /\ lo + reads = hi
           \/ \E i \in DOMAIN frames : frames[i].start = lo + reads /\ CutAt(i)

CInv ==
    /\ IInv
    /\ Contiguous /\ hi <= Total /\ ~CutsHeader(hi)
    /\ pc # "dead" /\ InFrames
    /\ Waiting /\ Parsing /\ Counting

-----------------------------------------------------------------------------
LEMMA CInvInit == Init => CInv
<1> SUFFICES ASSUME Init PROVE CInv
  OBVIOUS
<1>1. /\ Len(frames) = 0 /\ DOMAIN frames = {} /\ Total = 0
      /\ pc = "receive" /\ hi = 0 /\ ~flag
  BY EmptySeq DEF Init, ReaderInit, Total
<1> QED
  BY <1>1, InvInit DEF CInv, Contiguous, CutsHeader, InFrames, Waiting, Parsing, Counting,
                       Covered, Boundary, Range, Init, ReaderInit

\* Cooperative steps are steps of the reading thread.
LEMMA CoopIsNext == CoopNext => Next
BY DEF CoopNext, CoopReader, CoopReceive, Next

\* While bytes are left, the parse position is the start of a frame that has its
\* whole header in the buffer and a body of an acceptable size.
LEMMA ParseAtFrame ==
    ASSUME CInv, pc = "parse", Left > 0
    PROVE  /\ Aligned
           /\ FrameAtPos \in DOMAIN frames /\ frames[FrameAtPos].start = Pos
           /\ Left >= Header
           /\ SizeRead = {frames[FrameAtPos].size}
           /\ frames[FrameAtPos].size <= MAX_BUF_SIZE
<1>1. hi \in Nat /\ lo \in Nat /\ reads \in Nat /\ Total \in Nat /\ Pos \in Nat
  BY TotalType DEF CInv, IInv, TypeOK, Pos
<1>2. Pos < hi /\ hi <= Total
  BY <1>1 DEF CInv, Left
<1>3. Aligned
  BY <1>1, <1>2 DEF CInv, Parsing, Boundary, Aligned, Pos
<1>4. FrameAtPos \in DOMAIN frames /\ frames[FrameAtPos].start = Pos
  BY <1>3, AtPos DEF CInv, IInv
<1>5. Left >= Header
  <2>1. ~(Pos < hi /\ hi < Pos + Header)
    BY <1>4 DEF CInv, CutsHeader
  <2> QED
    BY <2>1, <1>1, <1>2, HeaderType DEF Left
<1>6. SizeRead = {frames[FrameAtPos].size}
  BY <1>3 DEF SizeRead
<1>7. frames[FrameAtPos].size \in 1 .. MAX_BUF_SIZE
  BY <1>4, FrameType, SmallBodies DEF CInv, IInv
<1> QED
  BY <1>3, <1>4, <1>5, <1>6, <1>7, FramingAssumption

LEMMA CoopSend ==
    ASSUME CInv, NEW size \in BodySizes, NEW known \in BOOLEAN, Send(size, known)
    PROVE  /\ Contiguous' /\ hi' <= Total' /\ ~CutsHeader(hi)' /\ pc' # "dead"
           /\ InFrames' /\ Waiting' /\ Parsing' /\ Counting'
<1>1. UNCHANGED <<pc, hi, lo, reads, rest, flag, count, msgs, dispatched>>
  BY DEF Send, bufVars
<1>2. \A i \in DOMAIN frames :
        i \in DOMAIN frames' /\ frames'[i] = frames[i] /\ End(i)' = End(i)
  BY SendKeeps DEF CInv
<1>3. PICK n \in Nat \ {0} : n = Len(frames) + 1
  BY LenProperties DEF CInv, IInv, TypeOK
<1>4. PICK tot \in Nat : tot = Total
  BY TotalType DEF CInv, IInv
<1>5. size \in Nat \ {0} /\ Header \in Nat /\ Header > 0
  BY FramingAssumption, HeaderType
<1>6. /\ DOMAIN frames = 1 .. n - 1 /\ DOMAIN frames' = 1 .. n /\ Len(frames') = n
      /\ frames'[n] = [start |-> tot, size |-> size, known |-> known]
  <2>1. [start |-> tot, size |-> size, known |-> known] \in Frame
    BY <1>4 DEF Frame
  <2> QED
    BY <2>1, <1>3, <1>4, LenProperties DEF Send, CInv, IInv, TypeOK
<1>7. /\ frames'[n].start = tot /\ End(n)' = tot + Header + size
      /\ Total' = tot + Header + size
  BY <1>3, <1>6 DEF End, Total
<1>8. PICK h \in Nat : hi = h /\ h <= tot
  BY <1>4 DEF CInv, IInv, TypeOK
<1>9. hi' <= Total'
  BY <1>1, <1>5, <1>7, <1>8
<1>10. \A p : Boundary(p) => Boundary(p)'
  <2> SUFFICES ASSUME NEW p, Boundary(p) PROVE \E i \in DOMAIN frames' : frames'[i].start = p
    BY DEF Boundary
  <2>1. CASE p = tot
    BY <2>1, <1>6, <1>7
  <2>2. CASE \E i \in DOMAIN frames : frames[i].start = p
    BY <2>2, <1>2
  <2> QED
    BY <2>1, <2>2, <1>4 DEF Boundary
<1>11. Contiguous'
  <2> SUFFICES ASSUME NEW i \in DOMAIN frames' PROVE Boundary(End(i))'
    BY DEF Contiguous
  <2>1. CASE i \in DOMAIN frames
    BY <2>1, <1>2, <1>10 DEF CInv, Contiguous, Boundary
  <2>2. CASE i = n
    BY <2>2, <1>7 DEF Boundary
  <2> QED
    BY <2>1, <2>2, <1>6
<1>12. ~CutsHeader(hi)'
  <2> SUFFICES ASSUME NEW i \in DOMAIN frames', frames'[i].start < h, h < frames'[i].start + Header
               PROVE  FALSE
    BY <1>1, <1>8 DEF CutsHeader
  <2>1. i # n
    BY <1>7, <1>8
  <2> QED
    BY <2>1, <1>2, <1>6, <1>8 DEF CInv, CutsHeader
<1>13. \A p \in Nat : p <= tot /\ Covered(p) => Covered(p)'
  <2> SUFFICES ASSUME NEW p \in Nat, p <= tot, Covered(p),
                      NEW i \in DOMAIN frames', frames'[i].known, End(i)' <= p
               PROVE  Message(i)' \in Range(dispatched) \/ Message(i)' \in Range(msgs)
    BY <1>1 DEF Covered, Range
  <2>1. i # n
    BY <1>5, <1>7
  <2>2. Message(i)' = Message(i)
    BY <2>1, <1>2, <1>6 DEF Message
  <2> QED
    BY <2>1, <2>2, <1>2, <1>6 DEF Covered
<1>14. AllKnown' => AllKnown
  BY <1>2 DEF AllKnown
<1>15. \A i \in DOMAIN frames : CutAt(i) => CutAt(i)'
  BY <1>1, <1>2 DEF CutAt
<1>16. Waiting'
  <2> SUFFICES ASSUME pc \in {"receive", "dispatch"}
               PROVE  /\ Covered(hi)'
                      /\ ~flag => Boundary(hi)'
                      /\ flag => /\ Boundary(lo)'
                                 /\ \E i \in DOMAIN frames' :
                                      /\ lo <= frames'[i].start /\ CutAt(i)'
                                      /\ AllKnown' => frames'[i].start = lo
    BY <1>1 DEF Waiting
  <2>1. Covered(hi)'
    BY <1>1, <1>8, <1>13 DEF CInv, Waiting, Covered, Message
  <2>2. ~flag => Boundary(hi)'
    BY <1>1, <1>10 DEF CInv, Waiting, Boundary
  <2>3. ASSUME flag
        PROVE  /\ Boundary(lo)'
               /\ \E i \in DOMAIN frames' :
                    /\ lo <= frames'[i].start /\ CutAt(i)'
                    /\ AllKnown' => frames'[i].start = lo
    <3>1. PICK i \in DOMAIN frames :
            lo <= frames[i].start /\ CutAt(i) /\ (AllKnown => frames[i].start = lo)
      BY <2>3 DEF CInv, Waiting
    <3>2. Boundary(lo)'
      BY <2>3, <1>1, <1>10 DEF CInv, Waiting, Boundary
    <3> QED
      BY <3>1, <3>2, <1>2, <1>14, <1>15
  <2> QED
    BY <2>1, <2>2, <2>3
<1>17. Parsing'
  <2> SUFFICES ASSUME pc \in {"parse", "settle"} PROVE Parsing'
    BY <1>1 DEF Parsing
  <2>1. lo + reads \in Nat /\ lo + reads <= tot
    BY <1>8 DEF CInv, IInv, TypeOK, Buffer
  <2>2. Boundary(lo)' /\ Boundary(lo + reads)'
    BY <1>1, <1>10 DEF CInv, Parsing, Boundary
  <2>3. Covered(lo + reads)'
    BY <2>1, <1>1, <1>13 DEF CInv, Parsing, Covered, Message
  <2> QED
    BY <2>2, <2>3, <1>1, <1>14 DEF CInv, Parsing
<1>18. Counting'
  <2>1. ASSUME NEW i \in DOMAIN frames, frames[i].start = lo + reads, CutAt(i)
        PROVE  i \in DOMAIN frames' /\ frames'[i].start = lo + reads /\ CutAt(i)'
    BY <2>1, <1>2, <1>15
  <2> QED
    BY <2>1, <1>1 DEF CInv, Counting
<1>19. InFrames'
  <2> SUFFICES ASSUME NEW m \in Range(dispatched) \cup Range(msgs)
               PROVE  \E i \in DOMAIN frames' : frames'[i].known /\ m = Message(i)'
    BY <1>1 DEF InFrames, Range
  <2>1. PICK i \in DOMAIN frames : frames[i].known /\ m = Message(i)
    BY DEF CInv, InFrames
  <2> QED
    BY <2>1, <1>2 DEF Message
<1> QED
  BY <1>1, <1>9, <1>11, <1>12, <1>16, <1>17, <1>18, <1>19 DEF CInv

\* When the bytes received end in the body of the frame at the parse position,
\* every message that ends by hi ends before it.
LEMMA CoveredToCut ==
    ASSUME CInv, NEW f \in DOMAIN frames, frames[f].start = lo + reads,
           CutAt(f), Covered(lo + reads)
    PROVE  Covered(hi)
<1> SUFFICES ASSUME NEW i \in DOMAIN frames, frames[i].known, End(i) <= hi
             PROVE  Message(i) \in Range(dispatched) \/ Message(i) \in Range(msgs)
  BY DEF Covered
<1>1. hi \in Nat /\ rest \in Nat /\ End(f) \in Nat /\ hi < End(f)
  BY FrameType DEF CutAt, CInv, IInv, TypeOK
<1>2. i = f \/ End(i) <= lo + reads
  BY <1>1, EndsBefore DEF CInv
<1> QED
  BY <1>1, <1>2 DEF Covered

LEMMA CoopReceiveKeeps ==
    ASSUME CInv, NEW n \in 1 .. MAX_BUF_SIZE, CoopReceive(n)
    PROVE  /\ Contiguous' /\ hi' <= Total' /\ ~CutsHeader(hi)' /\ pc' # "dead"
           /\ InFrames' /\ Waiting' /\ Parsing' /\ Counting'
<1>1. /\ pc = "receive" /\ pc' = "parse" /\ hi' = hi + n /\ reads' = 0 /\ rest' = 0
      /\ msgs' = <<>> /\ frames' = frames /\ dispatched' = dispatched
      /\ hi + n <= Total /\ ~CutsHeader(hi + n) /\ (flag => n >= rest)
  BY DEF CoopReceive, Receive
<1>2. msgs = <<>> /\ hi \in Nat /\ lo \in Nat /\ rest \in Nat /\ n \in Nat
  BY <1>1, FramingAssumption DEF CInv, IInv, TypeOK, Consumed
<1>3. (flag /\ lo' = lo) \/ (~flag /\ lo' = hi)
  <2>1. CASE flag
    <3>1. ~(rest > 0 /\ n < rest)
      BY <2>1, <1>1, <1>2
    <3> QED
      BY <2>1, <3>1, Zenon DEF CoopReceive, Receive, Stashed
  <2>2. CASE ~flag
    BY <2>2, Zenon DEF CoopReceive, Receive, Stashed
  <2> QED
    BY <2>1, <2>2
<1>4. PICK l \in Nat : lo' = l /\ l <= hi /\ Boundary(l)
  <2>1. CASE flag /\ lo' = lo
    BY <2>1, <1>1, <1>2 DEF CInv, Waiting, IInv, Buffer
  <2>2. CASE ~flag /\ lo' = hi
    BY <2>2, <1>1, <1>2 DEF CInv, Waiting
  <2> QED
    BY <1>3, <2>1, <2>2
<1>5. \A i \in DOMAIN frames :
        frames[i].known /\ End(i) <= l => Message(i) \in Range(dispatched)
  <2> SUFFICES ASSUME NEW i \in DOMAIN frames, frames[i].known, End(i) <= l
               PROVE  Message(i) \in Range(dispatched)
    OBVIOUS
  <2>1. End(i) \in Nat
    BY FrameType DEF CInv, IInv
  <2>2. End(i) <= hi
    BY <2>1, <1>2, <1>4
  <2>3. Message(i) \notin Range(msgs)
    BY <1>2 DEF Range
  <2> QED
    BY <2>2, <2>3, <1>1 DEF CInv, Waiting, Covered
<1>6. Contiguous' /\ hi' <= Total'
  BY <1>1 DEF CInv, Contiguous, Boundary, Total, End
<1>7. ~CutsHeader(hi)'
  BY <1>1 DEF CutsHeader
<1>8. Boundary(lo)' /\ Boundary(lo + reads)'
  <2>1. l + 0 = l
    OBVIOUS
  <2> QED
    BY <2>1, <1>1, <1>4 DEF Boundary, Total, End
<1>9. Covered(lo + reads)'
  <2>1. l + 0 = l
    OBVIOUS
  <2> QED
    BY <2>1, <1>1, <1>4, <1>5 DEF Covered, End, Range, Message
<1>10. Parsing'
  BY <1>1, <1>8, <1>9 DEF Parsing
<1>11. InFrames'
  BY <1>1 DEF CInv, InFrames, Range, Message, End
<1> QED
  BY <1>1, <1>6, <1>7, <1>10, <1>11 DEF Waiting, Counting

\* The frames, and the end of the bytes received, stay as they are.
LEMMA StreamSame ==
    ASSUME CInv, UNCHANGED <<frames, hi>>
    PROVE  Contiguous' /\ hi' <= Total' /\ ~CutsHeader(hi)'
BY DEF CInv, Contiguous, Boundary, Total, End, CutsHeader

\* And so do what was built and what was called.
LEMMA BuiltSame ==
    ASSUME CInv, UNCHANGED <<frames, msgs, dispatched>>
    PROVE  InFrames'
BY DEF CInv, InFrames, Range, Message, End

LEMMA EndOfBufferKeeps ==
    ASSUME CInv, EndOfBuffer PROVE pc' # "dead" /\ Waiting' /\ Parsing' /\ Counting'
<1>1. /\ pc = "parse" /\ pc' = "settle" /\ count' = Len(msgs) /\ Left = 0
      /\ UNCHANGED <<frames, hi, lo, reads, rest, flag, msgs, dispatched>>
  BY DEF EndOfBuffer, Return
<1>2. lo + reads = hi /\ rest = 0
  BY <1>1 DEF CInv, Counting, Left, Pos, IInv, TypeOK
<1>3. Parsing'
  BY <1>1 DEF CInv, Parsing, Boundary, Covered, Total, End, AllKnown, Message
<1> QED
  BY <1>1, <1>2, <1>3 DEF Waiting, Counting

LEMMA BodyCutKeeps ==
    ASSUME CInv, NEW size \in SizeRead, BodyCut(size)
    PROVE  pc' # "dead" /\ Waiting' /\ Parsing' /\ Counting'
<1>1. /\ pc = "parse" /\ pc' = "settle" /\ count' = Len(msgs)
      /\ Left >= Header /\ Left < Header + size /\ rest' = Header + size - Left
      /\ UNCHANGED <<frames, hi, lo, reads, flag, msgs, dispatched>>
  BY DEF BodyCut, Return
<1>2. /\ hi \in Nat /\ lo \in Nat /\ reads \in Nat /\ Header \in Nat /\ Header > 0
      /\ Left = hi - (lo + reads)
  BY HeaderType DEF CInv, IInv, TypeOK, Left, Pos
<1>3. PICK f \in DOMAIN frames : frames[f].start = lo + reads /\ frames[f].size = size
  BY <1>1, <1>2, ParseAtFrame DEF Pos
<1>4. size \in Nat
  BY <1>3, FrameType DEF CInv, IInv
<1>5. PICK r \in Nat : rest' = r /\ r > 0 /\ hi + r = End(f)
  <2>1. End(f) = lo + reads + Header + size
    BY <1>3 DEF End
  <2>2. PICK l : l = Left
    OBVIOUS
  <2>3. l = hi - (lo + reads) /\ l < Header + size /\ rest' = Header + size - l
    BY <1>1, <1>2, <2>2
  <2>4. Header + size - l \in Nat /\ Header + size - l > 0
        /\ hi + (Header + size - l) = lo + reads + Header + size
    BY <1>2, <1>4, <2>3
  <2> QED
    BY <2>1, <2>3, <2>4
<1>6. frames[f].start + Header <= hi
  <2>1. PICK s, l : s = frames[f].start /\ l = Left
    OBVIOUS
  <2>2. s = lo + reads /\ l = hi - (lo + reads) /\ l >= Header
    BY <1>1, <1>2, <1>3, <2>1
  <2>3. s + Header <= hi
    BY <1>2, <2>2
  <2> QED
    BY <2>1, <2>3
<1>7. CutAt(f)'
  BY <1>1, <1>5, <1>6 DEF CutAt, End
<1>8. Parsing'
  BY <1>1 DEF CInv, Parsing, Boundary, Covered, Total, End, AllKnown, Message
<1> QED
  BY <1>1, <1>3, <1>7, <1>8 DEF Waiting, Counting

LEMMA ParseWholeKeeps ==
    ASSUME CInv, NEW size \in SizeRead, WholeFrame(size)
    PROVE  pc' # "dead" /\ InFrames' /\ Waiting' /\ Parsing' /\ Counting'
<1>1. /\ pc = "parse" /\ pc' = "parse" /\ Left >= Header + size
      /\ reads' = reads + Header + size /\ rest' = hi - lo - reads'
      /\ UNCHANGED <<frames, hi, lo, flag, count, dispatched>>
  BY DEF WholeFrame
<1>2. /\ hi \in Nat /\ lo \in Nat /\ reads \in Nat /\ Header \in Nat /\ Header > 0
      /\ Left = hi - (lo + reads) /\ size \in Nat
  BY HeaderType, SizeReadType DEF CInv, IInv, TypeOK, Left, Pos
<1>3. Aligned
  BY <1>1, <1>2, ParseAtFrame
<1>4. PICK f \in DOMAIN frames :
         /\ frames[f].start = lo + reads /\ frames[f].size = size
         /\ End(f) = lo + reads + Header + size
         /\ frames[f].known => Range(msgs') = Range(msgs) \cup {Message(f)} /\ msgs' # <<>>
         /\ ~frames[f].known => msgs' = msgs
  BY <1>3, WholeBuilds DEF CInv
<1>5. PICK r \in Nat : reads' = r /\ r > 0 /\ lo + r = End(f) /\ r = reads + Header + size
  <2>1. PICK r \in Nat : r = reads + Header + size /\ r > 0
    BY <1>2
  <2>2. lo + r = lo + reads + Header + size
    BY <2>1, <1>2
  <2>3. lo + r = End(f)
    BY <2>2, <1>4
  <2> QED
    BY <2>1, <2>3, <1>1
<1>6. InFrames'
  <2>1. Range(msgs)' \subseteq Range(msgs) \cup {Message(f)}
    BY <1>4 DEF Range
  <2>2. \A i \in DOMAIN frames : Message(i)' = Message(i)
    BY <1>1 DEF Message, End
  <2> SUFFICES ASSUME NEW m \in Range(dispatched) \cup Range(msgs)'
               PROVE  \E i \in DOMAIN frames : frames[i].known /\ m = Message(i)
    BY <1>1, <2>2 DEF InFrames, Range
  <2>3. CASE m \in Range(dispatched) \cup Range(msgs)
    BY <2>3 DEF CInv, InFrames
  <2>4. CASE m \in Range(msgs)' /\ m \notin Range(msgs)
    <3>1. frames[f].known /\ m = Message(f)
      BY <2>1, <2>4, <1>4 DEF Range
    <3> QED
      BY <3>1
  <2> QED
    BY <2>3, <2>4
<1>7. /\ frames[f].known => msgs' # <<>> /\ Message(f) \in Range(msgs')
      /\ Range(msgs) \subseteq Range(msgs')
  BY <1>4
<1>8. Boundary(End(f))
  BY <1>4 DEF CInv, Contiguous
<1>9. Boundary(lo)' /\ Boundary(lo + reads)'
  BY <1>1, <1>5, <1>8 DEF CInv, Parsing, Boundary, Total, End
<1>10. \A i \in DOMAIN frames :
         frames[i].known /\ End(i) <= lo + r =>
             Message(i) \in Range(dispatched) \/ Message(i) \in Range(msgs')
  <2> SUFFICES ASSUME NEW i \in DOMAIN frames, frames[i].known, End(i) <= lo + r
               PROVE  Message(i) \in Range(dispatched) \/ Message(i) \in Range(msgs')
    OBVIOUS
  <2>1. lo + r \in Nat /\ lo + r <= End(f)
    BY <1>2, <1>5
  <2>2. i = f \/ End(i) <= lo + reads
    BY <2>1, <1>4, EndsBefore DEF CInv
  <2>3. CASE i = f
    BY <2>3, <1>7
  <2>4. CASE End(i) <= lo + reads
    BY <2>4, <1>1, <1>7 DEF CInv, Parsing, Covered
  <2> QED
    BY <2>2, <2>3, <2>4
<1>11. Covered(lo + reads)'
  BY <1>1, <1>5, <1>10 DEF Covered, End, Range, Message
<1>12. reads' # 0
  BY <1>5
<1>13. AllKnown' => msgs' # <<>>
  BY <1>1, <1>7 DEF AllKnown
<1>14. Parsing'
  BY <1>9, <1>11, <1>12, <1>13 DEF Parsing
<1>15. Counting'
  BY <1>1, <1>12 DEF Counting
<1> QED
  BY <1>1, <1>6, <1>14, <1>15 DEF Waiting

LEMMA SettleCoop ==
    ASSUME CInv, Settle
    PROVE  pc' # "dead" /\ Waiting' /\ Parsing' /\ Counting'
<1>1. /\ pc = "settle"
      /\ UNCHANGED <<frames, hi, reads, rest, count, msgs, dispatched>>
  BY DEF Settle, KeepBuffer, KeepTail, KeepNothing, bufVars
<1>2. /\ hi \in Nat /\ lo \in Nat /\ reads \in Nat /\ rest \in Nat /\ msgs \in Seq(Span)
      /\ count = Len(msgs) /\ ~flag
  BY <1>1, SpanType DEF CInv, IInv, TypeOK, Counting, NoFlag
<1>3. Boundary(lo) /\ Boundary(lo + reads) /\ Covered(lo + reads)
  BY <1>1 DEF CInv, Parsing
<1>4. ASSUME rest > 0
      PROVE  Covered(hi) /\ \E f \in DOMAIN frames : frames[f].start = lo + reads /\ CutAt(f)
  <2>1. PICK f \in DOMAIN frames : frames[f].start = lo + reads /\ CutAt(f)
    BY <1>1, <1>2, <1>4 DEF CInv, Counting
  <2> QED
    BY <2>1, <1>3, CoveredToCut
<1>5. CASE KeepBuffer
  <2>1. pc' = "receive" /\ flag' /\ lo' = lo /\ count = 0 /\ rest > 0
    BY <1>5, Zenon DEF KeepBuffer
  <2>2. AllKnown => reads = 0
    BY <2>1, <1>1, <1>2, EmptySeq DEF CInv, Parsing
  <2>3. PICK f \in DOMAIN frames : frames[f].start = lo + reads /\ CutAt(f)
    BY <2>1, <1>4
  <2>4. lo <= frames[f].start /\ (AllKnown => frames[f].start = lo)
    BY <2>2, <2>3, <1>2
  <2>5. Covered(hi)'
    BY <2>1, <1>1, <1>4 DEF Covered, End, Range, Message
  <2>6. CutAt(f)' /\ (AllKnown' => frames'[f].start = lo')
    BY <2>1, <2>3, <2>4, <1>1 DEF CutAt, End, AllKnown
  <2>7. Boundary(lo)'
    BY <2>1, <1>1, <1>3 DEF Boundary, Total, End
  <2>8. Waiting'
    BY <2>1, <2>4, <2>5, <2>6, <2>7, <1>1 DEF Waiting
  <2> QED
    BY <2>1, <2>8 DEF Parsing, Counting
<1>6. CASE KeepTail
  <2>1. pc' = "dispatch" /\ flag' /\ lo' = lo + reads /\ rest > 0
    BY <1>6, Zenon DEF KeepTail
  <2>2. PICK f \in DOMAIN frames : frames[f].start = lo + reads /\ CutAt(f)
    BY <2>1, <1>4
  <2>3. PICK l \in Nat : lo' = l /\ l = lo + reads
    BY <2>1, <1>2
  <2>4. l <= frames[f].start /\ frames[f].start = l
    BY <2>2, <2>3
  <2>5. Covered(hi)'
    BY <2>1, <1>1, <1>4 DEF Covered, End, Range, Message
  <2>6. CutAt(f)'
    BY <2>2, <1>1 DEF CutAt, End
  <2>7. Boundary(lo)'
    BY <2>3, <1>1, <1>3 DEF Boundary, Total, End
  <2>8. Waiting'
    BY <2>1, <2>3, <2>4, <2>5, <2>6, <2>7, <1>1 DEF Waiting
  <2> QED
    BY <2>1, <2>8 DEF Parsing, Counting
<1>7. CASE KeepNothing
  <2>1. pc' = "dispatch" /\ UNCHANGED <<flag, lo>> /\ (rest = 0 \/ (count # 0 /\ reads = 0))
    BY <1>7 DEF KeepNothing, bufVars
  <2>2. reads = 0 => count = 0
    BY <1>1, <1>2, EmptySeq DEF CInv, Parsing
  <2>3. rest = 0
    BY <2>1, <2>2
  <2>4. lo + reads = hi
    BY <2>3, <1>1 DEF CInv, Counting, CutAt
  <2>5. Covered(hi)' /\ Boundary(hi)'
    BY <2>4, <1>1, <1>3 DEF Covered, Boundary, Total, End, Range, Message
  <2>6. ~flag'
    BY <2>1, <1>2, Zenon
  <2> QED
    BY <2>1, <2>5, <2>6 DEF Waiting, Parsing, Counting
<1> QED
  BY <1>5, <1>6, <1>7 DEF Settle

LEMMA CallCoop ==
    ASSUME CInv, Call
    PROVE  pc' # "dead" /\ InFrames' /\ Waiting' /\ Parsing' /\ Counting'
<1> DEFINE m == msgs[1]
<1>1. /\ pc = "dispatch" /\ pc' = "dispatch" /\ msgs # <<>>
      /\ UNCHANGED <<frames, hi, lo, reads, rest, flag, count>>
      /\ msgs \in Seq(Span) /\ dispatched \in Seq(Span)
      /\ dispatched' = Append(dispatched, m) /\ msgs' = Tail(msgs)
  BY SpanType DEF Call, CInv, IInv, TypeOK
<1>2. /\ DOMAIN msgs = 1 .. Len(msgs) /\ Len(msgs) \in Nat \ {0}
      /\ DOMAIN dispatched = 1 .. Len(dispatched) /\ Len(dispatched) \in Nat
  BY <1>1, LenProperties, EmptySeq
<1>3. m \in Span
  BY <1>1, <1>2
<1>4. /\ DOMAIN dispatched' = 1 .. Len(dispatched) + 1
      /\ dispatched'[Len(dispatched) + 1] = m
      /\ \A k \in DOMAIN dispatched : dispatched'[k] = dispatched[k]
  BY <1>1, <1>2, <1>3
<1>5. /\ DOMAIN msgs' = 1 .. Len(msgs) - 1
      /\ \A k \in DOMAIN msgs' : msgs'[k] = msgs[k + 1]
  BY <1>1, <1>2
<1>6. ASSUME NEW i \in Range(msgs) PROVE i \in Range(dispatched') \/ i \in Range(msgs')
  <2>1. PICK k \in DOMAIN msgs : i = msgs[k]
    BY <1>6 DEF Range
  <2>2. CASE k = 1
    BY <2>1, <2>2, <1>2, <1>4 DEF Range
  <2>3. CASE k # 1
    <3>1. k - 1 \in DOMAIN msgs' /\ msgs'[k - 1] = i
      BY <2>1, <2>3, <1>2, <1>5
    <3> QED
      BY <3>1 DEF Range
  <2> QED
    BY <2>2, <2>3
<1>7. Range(dispatched) \subseteq Range(dispatched')
  BY <1>2, <1>4 DEF Range
<1>8. Covered(hi)'
  <2>1. \A i \in DOMAIN frames : Message(i)' = Message(i) /\ End(i)' = End(i)
    BY <1>1 DEF Message, End
  <2>2. Covered(hi)
    BY <1>1 DEF CInv, Waiting
  <2>3. ASSUME NEW i \in DOMAIN frames, frames[i].known, End(i) <= hi
        PROVE  Message(i) \in Range(dispatched') \/ Message(i) \in Range(msgs')
    BY <2>2, <2>3, <1>6, <1>7 DEF Covered
  <2> QED
    BY <1>1, <2>1, <2>3 DEF Covered, Range
<1>9. Waiting'
  BY <1>1, <1>8 DEF CInv, Waiting, Boundary, Total, End, CutAt, AllKnown
<1>10. InFrames'
  <2>1. m \in Range(msgs)
    BY <1>1, <1>2 DEF Range
  <2> HIDE DEF m
  <2>2. ASSUME NEW x \in Range(dispatched') PROVE x \in Range(dispatched) \cup Range(msgs)
    BY <2>1, <2>2, <1>2, <1>4 DEF Range
  <2>3. ASSUME NEW x \in Range(msgs') PROVE x \in Range(msgs)
    <3>1. \A k \in 1 .. Len(msgs) - 1 : k + 1 \in 1 .. Len(msgs)
      BY <1>2
    <3> QED
      BY <2>3, <3>1, <1>2, <1>5 DEF Range
  <2>4. \A i \in DOMAIN frames : Message(i)' = Message(i)
    BY <1>1 DEF Message, End
  <2>5. ASSUME NEW x \in Range(dispatched') \cup Range(msgs')
        PROVE  \E i \in DOMAIN frames : frames[i].known /\ x = Message(i)
    BY <2>2, <2>3, <2>5 DEF CInv, InFrames
  <2> QED
    BY <1>1, <2>4, <2>5 DEF InFrames, Range
<1> QED
  BY <1>1, <1>9, <1>10 DEF Parsing, Counting

LEMMA CInvStep == CInv /\ [CoopNext]_vars => CInv'
<1> SUFFICES ASSUME CInv, [CoopNext]_vars PROVE CInv'
  OBVIOUS
<1>1. IInv'
  BY CoopIsNext, InvStep DEF CInv
<1>2. ASSUME NEW size \in BodySizes, NEW known \in BOOLEAN, Send(size, known) PROVE CInv'
  BY <1>1, <1>2, CoopSend DEF CInv
<1>3. ASSUME NEW n \in 1 .. MAX_BUF_SIZE, CoopReceive(n) PROVE CInv'
  BY <1>1, <1>3, CoopReceiveKeeps DEF CInv
<1>4. ASSUME UNCHANGED <<frames, hi>>, pc' # "dead", InFrames', Waiting', Parsing', Counting'
      PROVE  CInv'
  BY <1>1, <1>4, StreamSame DEF CInv
<1>5. CASE EndOfBuffer
  <2>1. UNCHANGED <<frames, hi, msgs, dispatched>>
    BY <1>5 DEF EndOfBuffer
  <2> QED
    BY <2>1, <1>4, <1>5, EndOfBufferKeeps, BuiltSame
<1>6. CASE SizeCut
  <2>1. pc = "parse" /\ Left > 0 /\ Left < SizeLen
    BY <1>6 DEF SizeCut
  <2>2. Left \in Int /\ SizeLen \in Nat
    BY FramingAssumption DEF CInv, IInv, TypeOK, Left, Pos
  <2> QED
    BY <2>1, <2>2, ParseAtFrame, HeaderType
<1>7. ASSUME NEW size \in SizeRead, TooBig(size) \/ IdCut(size) PROVE CInv'
  <2>1. /\ pc = "parse" /\ Left >= SizeLen
        /\ size > MAX_BUF_SIZE \/ Left < Header
    BY <1>7 DEF TooBig, IdCut
  <2>2. Left \in Int /\ SizeLen \in Nat \ {0} /\ MAX_BUF_SIZE \in Nat
    BY FramingAssumption DEF CInv, IInv, TypeOK, Left, Pos
  <2>3. /\ FrameAtPos \in DOMAIN frames /\ size = frames[FrameAtPos].size
        /\ size <= MAX_BUF_SIZE /\ Left >= Header
    BY <2>1, <2>2, ParseAtFrame
  <2>4. size \in Nat
    BY <2>3, FrameType DEF CInv, IInv
  <2> QED
    BY <2>1, <2>2, <2>3, <2>4, HeaderType
<1>8. ASSUME NEW size \in SizeRead, BodyCut(size) PROVE CInv'
  <2>1. UNCHANGED <<frames, hi, msgs, dispatched>>
    BY <1>8 DEF BodyCut
  <2> QED
    BY <2>1, <1>4, <1>8, BodyCutKeeps, BuiltSame
<1>9. ASSUME NEW size \in SizeRead, WholeFrame(size) PROVE CInv'
  <2>1. UNCHANGED <<frames, hi>>
    BY <1>9 DEF WholeFrame
  <2> QED
    BY <2>1, <1>4, <1>9, ParseWholeKeeps
<1>10. CASE Settle
  <2>1. UNCHANGED <<frames, hi, msgs, dispatched>>
    BY <1>10 DEF Settle, KeepBuffer, KeepTail, KeepNothing, bufVars
  <2> QED
    BY <2>1, <1>4, <1>10, SettleCoop, BuiltSame
<1>11. CASE Call
  <2>1. UNCHANGED <<frames, hi>>
    BY <1>11 DEF Call
  <2> QED
    BY <2>1, <1>4, <1>11, CallCoop
<1>12. ASSUME NextRound \/ UNCHANGED vars PROVE CInv'
  <2>1. /\ UNCHANGED <<frames, hi, lo, reads, rest, flag, count, msgs, dispatched>>
        /\ pc' = pc \/ (pc = "dispatch" /\ pc' = "receive")
    BY <1>12 DEF NextRound, vars, bufVars
  <2>2. Covered(hi) => Covered(hi)'
    BY <2>1 DEF Covered, End, Range, Message
  <2>3. Covered(lo + reads) => Covered(lo + reads)'
    BY <2>1 DEF Covered, End, Range, Message
  <2>4. Waiting'
    BY <2>1, <2>2 DEF CInv, Waiting, Boundary, Total, End, CutAt, AllKnown
  <2>5. Parsing'
    BY <2>1, <2>3 DEF CInv, Parsing, Boundary, Total, End, AllKnown
  <2>6. Counting'
    BY <2>1 DEF CInv, Counting, CutAt, End
  <2> QED
    BY <2>1, <2>4, <2>5, <2>6, <1>4, BuiltSame DEF CInv
<1> QED
  BY <1>2, <1>3, <1>5, <1>6, <1>7, <1>8, <1>9, <1>10, <1>11, <1>12
     DEF CoopNext, CoopReader, Peer, Parse, ParseHeader, Dispatch

LEMMA CInvHolds == CoopSpec => []CInv
<1> QED
  BY CInvInit, CInvStep, PTL DEF CoopSpec

-----------------------------------------------------------------------------
\* Between two rounds every message that has arrived whole has been called.
THEOREM NothingIsLost == CoopSpec => []NoLoss
<1>1. CInv => NoLoss
  BY DEF CInv, IInv, Consumed, Waiting, Covered, NoLoss, Range
<1> QED
  BY <1>1, CInvHolds, PTL

LEMMA CInvOnlySent == CInv => OnlySent
<1> SUFFICES ASSUME CInv, NEW m \in Range(dispatched)
             PROVE  \E i \in DOMAIN frames : m = Message(i) /\ frames[i].known /\ End(i) <= hi
  BY DEF OnlySent
<1>1. PICK i \in DOMAIN frames : frames[i].known /\ m = Message(i)
  BY DEF CInv, InFrames
<1>2. m.to <= hi
  BY DEF CInv, IInv, Consumed, Batch, Range
<1> QED
  BY <1>1, <1>2 DEF Message

\* Only messages the peer sent are called, each after its last byte came: under the
\* conditions the reader never takes the bytes of a body for a header.
THEOREM NothingElseIsCalled == CoopSpec => []OnlySent
<1> QED
  BY CInvOnlySent, CInvHolds, PTL

\* No step throws the ReadException nobody catches, and readObjects never fails
\* to read a size.
THEOREM ThreadSurvives == CoopSpec => []NeverDies
<1>1. CInv => NeverDies
  BY LenProperties DEF CInv, IInv, TypeOK, Counting, NeverDies
<1> QED
  BY <1>1, CInvHolds, PTL

\* _rest is what the frame cut at the end of addtBuf misses.
THEOREM RestIsRight == CoopSpec => []RestIsMissing
<1>1. CInv => RestIsMissing
  <2> SUFFICES ASSUME CInv, pc = "receive", flag
               PROVE  \E i \in DOMAIN frames :
                        lo <= frames[i].start /\ frames[i].start < hi /\ hi + rest = End(i)
    BY DEF RestIsMissing
  <2>1. PICK i \in DOMAIN frames : lo <= frames[i].start /\ CutAt(i)
    BY DEF CInv, Waiting
  <2>2. frames[i].start < hi
    BY <2>1, HeaderType, FrameType DEF CutAt, CInv, IInv, TypeOK
  <2> QED
    BY <2>1, <2>2 DEF CutAt
<1> QED
  BY <1>1, CInvHolds, PTL

\* addtBuf holds less than one frame when every message is known.
THEOREM StashIsSmall == CoopSpec => []StashBounded
<1>1. CInv => StashBounded
  <2> SUFFICES ASSUME CInv, AllKnown, pc = "receive", flag
               PROVE  hi - lo < Header + MAX_BUF_SIZE
    BY DEF StashBounded, AllKnown
  <2>1. PICK i \in DOMAIN frames : frames[i].start = lo /\ CutAt(i)
    BY DEF CInv, Waiting
  <2>2. frames[i].size \in 1 .. MAX_BUF_SIZE /\ MAX_BUF_SIZE \in Nat
    BY <2>1, FrameType, SmallBodies, FramingAssumption DEF CInv, IInv
  <2>3. hi \in Nat /\ lo \in Nat /\ rest \in Nat /\ Header \in Nat
    BY HeaderType DEF CInv, IInv, TypeOK
  <2> QED
    BY <2>1, <2>2, <2>3 DEF CutAt, End
<1> QED
  BY <1>1, CInvHolds, PTL
-----------------------------------------------------------------------------
(* The script of ClientScript keeps the conditions *)

LEMMA HalfType ==
    /\ Hello \in Nat \ {0} /\ Hi \in Nat \ {0} /\ Half \in Nat
    /\ Header <= Half /\ Half < Header + Hi
<1>1. Hello \in Nat \ {0} /\ Hi \in Nat \ {0} /\ Header <= Half
  BY ScriptAssumption, FramingAssumption
<1>2. PICK n \in Nat : n = Header + Hi
  BY <1>1, HeaderType
<1>3. n \div 2 \in Nat /\ 2 * (n \div 2) <= n
  BY <1>2
<1>4. Half = n \div 2
  BY <1>2 DEF Half
<1> QED
  BY <1>1, <1>2, <1>3, <1>4, HeaderType

\* Where the six frames start: StartOf, unfolded.
LEMMA StartValues ==
    /\ StartOf[1] = 0
    /\ StartOf[2] = Header + Hello
    /\ StartOf[3] = 2 * Header + 2 * Hello
    /\ StartOf[4] = 3 * Header + 2 * Hello + Hi
    /\ StartOf[5] = 4 * Header + 2 * Hello + 2 * Hi
    /\ StartOf[6] = 5 * Header + 3 * Hello + 2 * Hi
<1> DEFINE F(s) == [i \in 1 .. Len(Body) |-> IF i = 1 THEN 0 ELSE s[i - 1] + Header + Body[i - 1]]
<1>1. /\ Len(Body) = 6 /\ Body[1] = Hello /\ Body[2] = Hello /\ Body[3] = Hi
      /\ Body[4] = Hi /\ Body[5] = Hello
  BY DEF Body
<1>2. Header \in Nat /\ Hello \in Nat /\ Hi \in Nat
  BY HeaderType, HalfType
<1>3. \E s : s = F(s)
  <2> DEFINE g == <<0, Header + Hello, 2 * Header + 2 * Hello, 3 * Header + 2 * Hello + Hi,
                    4 * Header + 2 * Hello + 2 * Hi, 5 * Header + 3 * Hello + 2 * Hi>>
  <2>1. /\ F(g)[1] = 0 /\ F(g)[2] = g[1] + Header + Hello /\ F(g)[3] = g[2] + Header + Hello
        /\ F(g)[4] = g[3] + Header + Hi /\ F(g)[5] = g[4] + Header + Hi
        /\ F(g)[6] = g[5] + Header + Hello
    BY <1>1
  <2>2. \A i \in 1 .. 6 : g[i] = F(g)[i]
    <3>1. /\ g[1] = 0 /\ g[2] = Header + Hello /\ g[3] = 2 * Header + 2 * Hello
          /\ g[4] = 3 * Header + 2 * Hello + Hi /\ g[5] = 4 * Header + 2 * Hello + 2 * Hi
          /\ g[6] = 5 * Header + 3 * Hello + 2 * Hi
      OBVIOUS
    <3>2. PICK e : e = F(g)
      OBVIOUS
    <3>3. PICK s : s = g
      OBVIOUS
    <3> HIDE DEF g, F
    <3>4. s[1] = e[1] /\ s[2] = e[2] /\ s[3] = e[3]
      BY <1>2, <2>1, <3>1, <3>2, <3>3
    <3>5. s[4] = e[4] /\ s[5] = e[5] /\ s[6] = e[6]
      BY <1>2, <2>1, <3>1, <3>2, <3>3
    <3>6. \A i \in 1 .. 6 : i = 1 \/ i = 2 \/ i = 3 \/ i = 4 \/ i = 5 \/ i = 6
      OBVIOUS
    <3> QED
      BY <3>2, <3>3, <3>4, <3>5, <3>6
  <2>3. g = [i \in 1 .. 6 |-> g[i]] /\ F(g) = [i \in 1 .. 6 |-> F(g)[i]]
    BY <1>1
  <2>4. g = F(g)
    BY <2>2, <2>3
  <2> QED
    BY <2>4
<1>4. StartOf = F(StartOf)
  BY <1>3 DEF StartOf
<1>5. /\ StartOf[1] = 0 /\ StartOf[2] = StartOf[1] + Header + Hello
      /\ StartOf[3] = StartOf[2] + Header + Hello /\ StartOf[4] = StartOf[3] + Header + Hi
      /\ StartOf[5] = StartOf[4] + Header + Hi /\ StartOf[6] = StartOf[5] + Header + Hello
  BY <1>1, <1>4
<1> QED
  BY <1>2, <1>5

\* The bytes of the first k pieces.
SentBy(k) == IF k = 0 THEN 0 ELSE PieceEnd[k]

\* The reader has met the conditions so far, and received whole pieces.
ScriptInv ==
    /\ CInv
    /\ frames = Script
    /\ piece \in 0 .. 6 /\ wire = SentBy(piece)
    /\ \E k \in 0 .. piece : hi = SentBy(k)

LEMMA ScriptFrames ==
    ASSUME frames = Script
    PROVE  /\ DOMAIN frames = 1 .. 6
           /\ \A i \in 1 .. 6 : frames[i].start = StartOf[i] /\ frames[i].known
           /\ Len(frames) = 6 /\ frames \in Seq(Frame)
           /\ End(1) = StartOf[2] /\ End(2) = StartOf[3] /\ End(3) = StartOf[4]
           /\ End(4) = StartOf[5] /\ End(5) = StartOf[6]
           /\ End(6) = StartOf[6] + Header + Hi /\ Total = End(6)
<1>1. /\ Len(Body) = 6 /\ Body[1] = Hello /\ Body[2] = Hello /\ Body[3] = Hi
      /\ Body[4] = Hi /\ Body[5] = Hello /\ Body[6] = Hi
  BY DEF Body
<1>2. Header \in Nat /\ Hello \in Nat /\ Hi \in Nat
  BY HeaderType, HalfType
<1>3. \A i \in 1 .. 6 : StartOf[i] \in Nat
  BY <1>2, StartValues
<1>4. frames = [i \in 1 .. 6 |-> [start |-> StartOf[i], size |-> Body[i], known |-> TRUE]]
  BY <1>1 DEF Script
<1>5. \A i \in 1 .. 6 : Body[i] \in BodySizes
  <2>1. Hello \in BodySizes /\ Hi \in BodySizes
    BY ScriptAssumption
  <2> QED
    BY <1>1, <2>1
<1>6. ASSUME NEW i \in 1 .. 6
      PROVE  [start |-> StartOf[i], size |-> Body[i], known |-> TRUE] \in Frame
  BY <1>3, <1>5 DEF Frame
<1>7. frames \in [1 .. 6 -> Frame]
  BY <1>4, <1>6
<1>8. frames \in Seq(Frame) /\ Len(frames) = 6 /\ DOMAIN frames = 1 .. 6
  <2>1. frames \in Seq(Frame)
    BY <1>7, SeqDef
  <2>2. DOMAIN frames = 1 .. 6
    BY <1>7
  <2> QED
    BY <2>1, <2>2, LenProperties
<1>9. \A i \in 1 .. 6 : frames[i].start = StartOf[i] /\ frames[i].size = Body[i] /\ frames[i].known
  BY <1>4
<1>10. \A i \in 1 .. 6 : End(i) = StartOf[i] + Header + Body[i]
  BY <1>9 DEF End
<1>11. /\ End(1) = StartOf[1] + Header + Hello /\ End(2) = StartOf[2] + Header + Hello
       /\ End(3) = StartOf[3] + Header + Hi /\ End(4) = StartOf[4] + Header + Hi
       /\ End(5) = StartOf[5] + Header + Hello /\ End(6) = StartOf[6] + Header + Hi
  BY <1>1, <1>10
<1>12. /\ End(1) = StartOf[2] /\ End(2) = StartOf[3] /\ End(3) = StartOf[4]
       /\ End(4) = StartOf[5] /\ End(5) = StartOf[6]
  BY <1>2, <1>11, StartValues
<1>13. Total = End(6)
  BY <1>8 DEF Total
<1> QED
  BY <1>8, <1>9, <1>11, <1>12, <1>13

LEMMA ScriptInvInit == ScriptInit => ScriptInv
<1> SUFFICES ASSUME ScriptInit PROVE ScriptInv
  OBVIOUS
<1>1. /\ frames = Script /\ pc = "receive" /\ hi = 0 /\ lo = 0 /\ reads = 0 /\ rest = 0
      /\ flag = FALSE /\ count = 0 /\ msgs = <<>> /\ dispatched = <<>> /\ piece = 0 /\ wire = 0
  BY DEF ScriptInit, ReaderInit
<1>2. PICK h \in Nat \ {0}, a \in Nat \ {0}, b \in Nat \ {0} :
         h = Header /\ a = Hello /\ b = Hi
  BY HeaderType, HalfType
<1>3. /\ DOMAIN frames = 1 .. 6
      /\ frames[1].start = 0 /\ frames[2].start = h + a /\ frames[3].start = 2 * h + 2 * a
      /\ frames[4].start = 3 * h + 2 * a + b /\ frames[5].start = 4 * h + 2 * a + 2 * b
      /\ frames[6].start = 5 * h + 3 * a + 2 * b
  <2>1. DOMAIN frames = 1 .. 6 /\ \A i \in 1 .. 6 : frames[i].start = StartOf[i]
    BY <1>1, ScriptFrames
  <2>2. /\ StartOf[1] = 0 /\ StartOf[2] = h + a /\ StartOf[3] = 2 * h + 2 * a
        /\ StartOf[4] = 3 * h + 2 * a + b /\ StartOf[5] = 4 * h + 2 * a + 2 * b
        /\ StartOf[6] = 5 * h + 3 * a + 2 * b
    BY <1>2, StartValues
  <2>3. {1, 2, 3, 4, 5, 6} \subseteq 1 .. 6
    OBVIOUS
  <2> QED
    BY <2>1, <2>2, <2>3
<1>4. /\ End(1) = frames[2].start /\ End(2) = frames[3].start /\ End(3) = frames[4].start
      /\ End(4) = frames[5].start /\ End(5) = frames[6].start
      /\ End(6) = 6 * h + 3 * a + 3 * b /\ Total = End(6)
  BY <1>1, <1>2, <1>3, ScriptFrames, StartValues
<1>5. TypeOK
  <2>1. <<>> \in Seq([from : Nat, to : Nat]) /\ 0 \in Nat /\ 0 \in Int
    OBVIOUS
  <2>2. frames \in Seq(Frame)
    BY <1>1, ScriptFrames
  <2> QED
    BY <1>1, <2>1, <2>2 DEF TypeOK
<1>6. Layout
  <2>1. \A i, j \in 1 .. 6 : i < j => End(i) <= frames[j].start
    BY <1>3, <1>4
  <2>2. \A i \in 1 .. 6 : End(i) <= Total
    BY <1>3, <1>4
  <2> QED
    BY <1>3, <2>1, <2>2 DEF Layout
<1>7. Contiguous
  <2>1. \A i \in 1 .. 6 : End(i) = Total \/ \E j \in 1 .. 6 : frames[j].start = End(i)
    BY <1>4
  <2> QED
    BY <1>3, <2>1 DEF Contiguous, Boundary
<1>8. IInv
  BY <1>1, <1>5, <1>6 DEF IInv, Buffer, NoFlag, Consumed, Batch, EndBy
<1>9. hi <= Total /\ ~CutsHeader(hi)
  <2>1. \A i \in 1 .. 6 : ~(frames[i].start < 0)
    BY <1>3
  <2> QED
    BY <1>1, <1>3, <1>4, <2>1 DEF CutsHeader
<1>10. Covered(hi) /\ Boundary(hi)
  <2>1. \A i \in 1 .. 6 : ~(End(i) <= 0)
    BY <1>3, <1>4
  <2> QED
    BY <1>1, <1>3, <2>1 DEF Covered, Boundary
<1>11. CInv
  BY <1>1, <1>7, <1>8, <1>9, <1>10 DEF CInv, InFrames, Waiting, Parsing, Counting, Range
<1> QED
  BY <1>1, <1>11 DEF ScriptInv, SentBy

\* Where the pieces end, against where the frames start and end.
LEMMA PieceValues ==
    /\ SentBy(0) = 0 /\ SentBy(1) = StartOf[2] /\ SentBy(2) = StartOf[4]
    /\ SentBy(3) = StartOf[4] + Half /\ SentBy(4) = StartOf[5]
    /\ SentBy(5) = StartOf[6] + Half /\ SentBy(6) = StartOf[6] + Header + Hi
    /\ Len(PieceEnd) = 6
BY DEF SentBy, PieceEnd

\* However many pieces a receive finds, it meets the conditions.
LEMMA ReceiveIsCooperative ==
    ASSUME ScriptInv, ReceiveAll
    PROVE  /\ wire - hi \in 1 .. MAX_BUF_SIZE
           /\ CoopReceive(wire - hi)
           /\ hi' = wire /\ UNCHANGED <<frames, piece, wire>>
<1>1. PICK k \in 0 .. 6 : k = piece /\ wire = SentBy(k)
  BY DEF ScriptInv
<1>2. PICK j \in 0 .. 6 : hi = SentBy(j)
  BY <1>1 DEF ScriptInv
<1>3. wire > hi /\ Receive(wire - hi) /\ UNCHANGED <<piece, wire>>
  BY DEF ReceiveAll
<1>4. /\ pc = "receive" /\ frames' = frames /\ hi' = hi + (wire - hi)
  BY <1>3 DEF Receive
<1>5. PICK h \in Nat \ {0}, a \in Nat \ {0}, b \in Nat \ {0}, x \in Nat :
         h = Header /\ a = Hello /\ b = Hi /\ x = Half /\ h <= x /\ x < h + b
  BY HeaderType, HalfType
<1>6. /\ DOMAIN frames = 1 .. 6
      /\ frames[1].start = 0 /\ frames[2].start = h + a /\ frames[3].start = 2 * h + 2 * a
      /\ frames[4].start = 3 * h + 2 * a + b /\ frames[5].start = 4 * h + 2 * a + 2 * b
      /\ frames[6].start = 5 * h + 3 * a + 2 * b
      /\ End(1) = h + a /\ End(2) = 2 * h + 2 * a /\ End(3) = 3 * h + 2 * a + b
      /\ End(4) = 4 * h + 2 * a + 2 * b /\ End(5) = 5 * h + 3 * a + 2 * b
      /\ End(6) = 6 * h + 3 * a + 3 * b
  BY <1>5, ScriptFrames, StartValues DEF ScriptInv
<1>7. /\ SentBy(0) = 0 /\ SentBy(1) = h + a /\ SentBy(2) = 3 * h + 2 * a + b
      /\ SentBy(3) = 3 * h + 2 * a + b + x /\ SentBy(4) = 4 * h + 2 * a + 2 * b
      /\ SentBy(5) = 5 * h + 3 * a + 2 * b + x /\ SentBy(6) = 6 * h + 3 * a + 3 * b
  BY <1>5, PieceValues, StartValues
<1>8. PICK w \in Nat, g \in Nat : w = wire /\ g = hi /\ g < w /\ w <= 6 * h + 3 * a + 3 * b
  BY <1>1, <1>2, <1>3, <1>5, <1>7
<1>9. 6 * h + 3 * a + 3 * b <= MAX_BUF_SIZE /\ MAX_BUF_SIZE \in Nat
  BY <1>5, StartValues, ScriptAssumption, FramingAssumption DEF PieceEnd
<1>10. wire - hi \in 1 .. MAX_BUF_SIZE
  BY <1>8, <1>9
<1>11. hi' = wire
  BY <1>4, <1>8
<1>12. ~CutsHeader(wire)
  <2>1. \A i \in 1 .. 6 : ~(frames[i].start < w /\ w < frames[i].start + h)
    BY <1>1, <1>5, <1>6, <1>7, <1>8
  <2> QED
    BY <1>5, <1>6, <1>8, <2>1 DEF CutsHeader
<1>13. flag => wire - hi >= rest
  <2> SUFFICES ASSUME flag PROVE wire - hi >= rest
    OBVIOUS
  <2>1. PICK i \in DOMAIN frames : CutAt(i)
    BY <1>4 DEF ScriptInv, CInv, Waiting
  <2>2. PICK r \in Nat : r = rest
    BY DEF ScriptInv, CInv, IInv, TypeOK
  <2>3. frames[i].start + h <= g /\ r > 0 /\ g + r = End(i)
    BY <1>5, <1>8, <2>1, <2>2 DEF CutAt
  <2>4. (i = 4 /\ j = 3) \/ (i = 6 /\ j = 5)
    <3>1. /\ g \in {SentBy(0), SentBy(1), SentBy(2), SentBy(3), SentBy(4), SentBy(5), SentBy(6)}
          /\ g < End(i)
      BY <1>2, <1>6, <1>8, <2>3
    <3>2. CASE i = 1 \/ i = 2 \/ i = 3
      BY <1>5, <1>6, <1>7, <2>3, <3>1, <3>2
    <3>3. CASE i = 4
      <4>1. 4 * h + 2 * a + b <= g /\ g < 4 * h + 2 * a + 2 * b
        BY <1>5, <1>6, <2>3, <3>1, <3>3
      <4>2. /\ g # SentBy(0) /\ g # SentBy(1) /\ g # SentBy(2) /\ g # SentBy(4)
            /\ g # SentBy(5) /\ g # SentBy(6)
        BY <1>5, <1>7, <4>1
      <4>3. j = 3
        BY <1>2, <1>8, <4>2
      <4> QED
        BY <3>3, <4>3
    <3>4. CASE i = 5
      BY <1>5, <1>6, <1>7, <2>3, <3>1, <3>4
    <3>5. CASE i = 6
      <4>1. SentBy(j) = g
        BY <1>2, <1>8
      <4> QED
        BY <1>5, <1>6, <1>7, <2>3, <3>5, <4>1
    <3> QED
      BY <1>6, <3>2, <3>3, <3>4, <3>5
  <2>5. w >= End(i)
    BY <1>1, <1>2, <1>5, <1>6, <1>7, <1>8, <2>4
  <2> QED
    BY <1>6, <1>8, <2>2, <2>3, <2>5
<1>14. ~CutsHeader(hi + (wire - hi))
  BY <1>4, <1>11, <1>12
<1> QED
  BY <1>3, <1>4, <1>10, <1>11, <1>13, <1>14 DEF CoopReceive

LEMMA ScriptInvStep == ScriptInv /\ [ScriptNext]_scriptVars => ScriptInv'
<1> SUFFICES ASSUME ScriptInv, [ScriptNext]_scriptVars PROVE ScriptInv'
  OBVIOUS
<1>1. CASE UNCHANGED scriptVars
  <2>1. UNCHANGED vars /\ UNCHANGED <<frames, hi, piece, wire>>
    BY <1>1 DEF scriptVars, vars
  <2>2. CInv'
    BY <2>1, CInvStep DEF ScriptInv
  <2> QED
    BY <2>1, <2>2 DEF ScriptInv
<1>2. CASE SendPiece
  <2>1. /\ UNCHANGED vars /\ UNCHANGED <<frames, hi>>
        /\ piece < 6 /\ piece' = piece + 1 /\ wire' = PieceEnd[piece']
    BY <1>2, PieceValues DEF SendPiece, vars
  <2>2. CInv'
    BY <2>1, CInvStep DEF ScriptInv
  <2>3. piece' \in 1 .. 6 /\ wire' = SentBy(piece')
    BY <2>1 DEF ScriptInv, SentBy
  <2> QED
    BY <2>1, <2>2, <2>3 DEF ScriptInv
<1>3. CASE ReceiveAll
  <2>1. CoopNext /\ hi' = wire /\ UNCHANGED <<frames, piece, wire>>
    BY <1>3, ReceiveIsCooperative DEF CoopNext, CoopReader
  <2>2. CInv'
    BY <2>1, CInvStep DEF ScriptInv
  <2> QED
    BY <2>1, <2>2 DEF ScriptInv
<1>4. CASE ReadStep
  <2>1. CoopNext /\ UNCHANGED <<piece, wire>>
    BY <1>4 DEF ReadStep, CoopNext, CoopReader
  <2>2. UNCHANGED <<frames, hi>>
    BY <1>4 DEF ReadStep, Parse, ParseHeader, EndOfBuffer, SizeCut, TooBig, IdCut, BodyCut,
                WholeFrame, Settle, KeepBuffer, KeepTail, KeepNothing, Dispatch, Call,
                NextRound, bufVars
  <2>3. CInv'
    BY <2>1, CInvStep DEF ScriptInv
  <2> QED
    BY <2>1, <2>2, <2>3 DEF ScriptInv
<1>5. CASE Close
  <2>1. Disconnected /\ UNCHANGED <<piece, wire>>
    BY <1>5 DEF Close
  <2>2. UNCHANGED <<frames, hi>> /\ pc' = "closed"
    BY <2>1 DEF Disconnected, bufVars
  <2>3. IInv'
    BY <2>1, InvStep DEF ScriptInv, CInv, Next
  <2>4. Contiguous' /\ hi' <= Total' /\ ~CutsHeader(hi)'
    BY <2>2, StreamSame DEF ScriptInv
  <2>5. CInv'
    BY <2>1, <2>2, <2>3, <2>4, BuiltSame DEF CInv, ScriptInv, Waiting, Parsing, Counting,
                                             Disconnected, bufVars
  <2> QED
    BY <2>1, <2>2, <2>5 DEF ScriptInv
<1> QED
  BY <1>1, <1>2, <1>3, <1>4, <1>5 DEF ScriptNext, Reader

\* connect() keeps the conditions of CooperativePeer, for bodies of any length:
\* however late the reader is, no receive cuts a header or brings only part of a
\* remainder.
THEOREM ScriptKeepsConditions == ScriptSpec => ScriptIsCooperative
<1>1. ScriptInv /\ ReceiveAll => ~CutsHeader(hi') /\ (flag => hi' - hi >= rest)
  <2> SUFFICES ASSUME ScriptInv, ReceiveAll
               PROVE  ~CutsHeader(hi') /\ (flag => hi' - hi >= rest)
    OBVIOUS
  <2>1. CoopReceive(wire - hi) /\ hi' = wire
    BY ReceiveIsCooperative
  <2>2. hi' = hi + (wire - hi)
    BY DEF ReceiveAll, Receive
  <2> QED
    BY <2>1, <2>2 DEF CoopReceive
<1>2. ScriptInv => [ReceiveAll => ~CutsHeader(hi') /\ (flag => hi' - hi >= rest)]_scriptVars
  BY <1>1
<1> QED
  BY <1>2, ScriptInvInit, ScriptInvStep, PTL DEF ScriptSpec, ScriptIsCooperative

\* So the script has all that CooperativePeer promises: nothing that arrived is
\* lost while the thread waits for more, nothing else is called, and the thread
\* does not die.
THEOREM ScriptLosesNothing == ScriptSpec => [](NoLoss /\ OnlySent /\ NeverDies)
<1>1. ScriptInv => NoLoss
  BY DEF ScriptInv, CInv, IInv, Consumed, Waiting, Covered, NoLoss, Range
<1>2. ScriptInv => NeverDies
  BY LenProperties DEF ScriptInv, CInv, IInv, TypeOK, Counting, NeverDies
<1>3. ScriptInv => OnlySent
  BY CInvOnlySent DEF ScriptInv
<1> QED
  BY <1>1, <1>2, <1>3, ScriptInvInit, ScriptInvStep, PTL DEF ScriptSpec
=============================================================================

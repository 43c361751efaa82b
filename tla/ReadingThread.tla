---------------------------- MODULE ReadingThread ----------------------------
(***************************************************************************)
(* One connection of the server: the thread readingThread of               *)
(* util/net/socketManager.d together with readObjects of util/iprotocol.d, *)
(* which cuts the bytes of a TCP stream into messages, and the framing     *)
(* constructMessage of util/protocol.d gives them.                         *)
(*                                                                         *)
(* A frame on the wire is a size (SizeLen bytes), a message identifier     *)
(* (IdLen bytes) and a body of `size` bytes.  TCP keeps the bytes in order *)
(* but cuts them anywhere, so the thread sees offsets into one stream, and *)
(* the model keeps offsets only:                                           *)
(*                                                                         *)
(*   frames       what the peer has sent: where each frame starts, how     *)
(*                long its body is, whether the reader can build a message *)
(*   lo .. hi     the bytes of actualBuf (or of addtBuf while flag holds)  *)
(*   reads, rest  the variables _reads and _rest                           *)
(*   msgs         the messages of this round                               *)
(*   dispatched   history: the messages called so far, in order            *)
(*                                                                         *)
(* A message is known by the bytes it was built from, [from, to): those of *)
(* a frame, or others, if the reader is out of step with the stream.       *)
(***************************************************************************)
EXTENDS Integers, Sequences, Functions

CONSTANTS
    MAX_BUF_SIZE,   \* length of the receive buffer, and the largest body accepted
    SizeLen,        \* bytes of the size that opens a frame (8)
    IdLen,          \* bytes of the message identifier (4)
    BodySizes,      \* the body lengths the peer sends
    MaxFrames       \* bound: the number of frames the peer sends

ASSUME FramingAssumption ==
    /\ SizeLen \in Nat \ {0}
    /\ IdLen \in Nat \ {0}
    /\ MAX_BUF_SIZE \in Nat
    /\ MAX_BUF_SIZE >= SizeLen + IdLen
    /\ BodySizes \subseteq Nat \ {0}
    /\ MaxFrames \in Nat

VARIABLES frames, pc, hi, lo, reads, rest, flag, count, msgs, dispatched

bufVars == <<hi, lo, reads, rest, flag, count, msgs>>
vars == <<frames, pc, hi, lo, reads, rest, flag, count, msgs, dispatched>>

Header == SizeLen + IdLen
Frame == [start : Nat, size : BodySizes, known : BOOLEAN]

End(i) == frames[i].start + Header + frames[i].size
Total == IF Len(frames) = 0 THEN 0 ELSE End(Len(frames))

\* The message of frame i.
Message(i) == [from |-> frames[i].start, to |-> End(i)]

TypeOK ==
    /\ frames \in Seq(Frame)
    /\ pc \in {"receive", "parse", "settle", "dispatch", "closed", "dead"}
    /\ hi \in Nat /\ lo \in Nat /\ reads \in Nat /\ rest \in Nat
    /\ flag \in BOOLEAN
    /\ count \in Int
    /\ msgs \in Seq([from : Nat, to : Nat])
    /\ dispatched \in Seq([from : Nat, to : Nat])

ReaderInit ==
    /\ pc = "receive"
    /\ hi = 0 /\ lo = 0 /\ reads = 0 /\ rest = 0
    /\ flag = FALSE /\ count = 0
    /\ msgs = <<>> /\ dispatched = <<>>

Init == frames = <<>> /\ ReaderInit

-----------------------------------------------------------------------------
(* The peer *)

Send(size, known) ==
    /\ pc # "closed"
    /\ Len(frames) < MaxFrames
    /\ frames' = Append(frames, [start |-> Total, size |-> size, known |-> known])
    /\ UNCHANGED <<pc, bufVars, dispatched>>

-----------------------------------------------------------------------------
(* sock.receive *)

\* Mutant: addtBuf is joined only when nothing is missing.
JoinOnlyComplete(n) == flag /\ rest = 0

Stashed(n) == flag /\ ~(rest > 0 /\ n < rest)

Receive(n) ==
    /\ pc = "receive"
    /\ hi + n <= Total
    /\ lo' = IF Stashed(n) THEN lo ELSE hi
    /\ hi' = hi + n
    /\ flag' = FALSE
    /\ reads' = 0 /\ rest' = 0 /\ msgs' = <<>>
    /\ pc' = "parse"
    /\ UNCHANGED <<frames, count, dispatched>>

\* receive returned 0 (the peer closed) or Socket.ERROR (at any time): the owner
\* is told, the socket closed and the thread returns.
Disconnected ==
    /\ pc = "receive"
    /\ pc' = "closed"
    /\ UNCHANGED <<frames, bufVars, dispatched>>

\* sock.remoteAddress() throws, outside any try: the thread ends silently.
AddressFails ==
    /\ pc = "receive"
    /\ pc' = "dead"
    /\ UNCHANGED <<frames, bufVars, dispatched>>

-----------------------------------------------------------------------------
(* readObjects: one iteration of its loop per step *)

Pos == lo + reads
Left == hi - Pos

Aligned == \E i \in DOMAIN frames : frames[i].start = Pos
FrameAtPos == CHOOSE i \in DOMAIN frames : frames[i].start = Pos

\* What stream.read(msgSize) yields.  In the middle of a frame the bytes are
\* those of an identifier or of a compressed body: any value.
SizeRead ==
    IF Aligned THEN {frames[FrameAtPos].size} ELSE 0 .. MAX_BUF_SIZE + 1

\* Can dispatchMessage deserialize the body?  In the middle of a frame stand any
\* bytes, also an identifier and a body that decompresses, but never an empty one.
Decodes(size) == IF Aligned THEN {frames[FrameAtPos].known} ELSE {FALSE, size > 0}

Read(size) == [from |-> Pos, to |-> Pos + Header + size]

Return(n) ==
    /\ count' = n
    /\ pc' = "settle"

EndOfBuffer ==
    /\ pc = "parse"
    /\ Left = 0
    /\ Return(Len(msgs))
    /\ UNCHANGED <<frames, hi, lo, reads, rest, flag, msgs, dispatched>>

\* The ReadException of the size is caught: readObjects returns -1 and leaves
\* sumReads and rest as the previous frame set them.
SizeCut ==
    /\ pc = "parse"
    /\ Left > 0 /\ Left < SizeLen
    /\ Return(-1)
    /\ UNCHANGED <<frames, hi, lo, reads, rest, flag, msgs, dispatched>>

TooBig(size) ==
    /\ pc = "parse"
    /\ Left >= SizeLen
    /\ size > MAX_BUF_SIZE
    /\ Return(Len(msgs))
    /\ UNCHANGED <<frames, hi, lo, reads, rest, flag, msgs, dispatched>>

\* The ReadException of the identifier is not caught anywhere: the thread dies
\* with the messages it had already built and without _REMOVE_CONN.
IdCut(size) ==
    /\ pc = "parse"
    /\ Left >= SizeLen /\ size <= MAX_BUF_SIZE
    /\ Left < Header
    /\ pc' = "dead"
    /\ UNCHANGED <<frames, bufVars, dispatched>>

\* Mutant: the terms of _rest swapped.
RestSwapped(size) ==
    /\ pc = "parse"
    /\ Left >= Header /\ size <= MAX_BUF_SIZE
    /\ Left < Header + size
    /\ rest' = Left - Header - size
    /\ Return(Len(msgs))
    /\ UNCHANGED <<frames, hi, lo, reads, flag, msgs, dispatched>>

\* Mutant: _rest is the whole frame.
RestIsFrame(size) ==
    /\ pc = "parse"
    /\ Left >= Header /\ size <= MAX_BUF_SIZE
    /\ Left < Header + size
    /\ rest' = Header + size
    /\ Return(Len(msgs))
    /\ UNCHANGED <<frames, hi, lo, reads, flag, msgs, dispatched>>

\* Mutant: the header is forgotten in _rest.
RestWithoutHeader(size) ==
    /\ pc = "parse"
    /\ Left >= Header /\ size <= MAX_BUF_SIZE
    /\ Left < Header + size
    /\ rest' = IF size >= Left THEN size - Left ELSE 0
    /\ Return(Len(msgs))
    /\ UNCHANGED <<frames, hi, lo, reads, flag, msgs, dispatched>>

BodyCut(size) ==
    /\ pc = "parse"
    /\ Left >= Header /\ size <= MAX_BUF_SIZE
    /\ Left < Header + size
    /\ rest' = Header + size - Left
    /\ Return(Len(msgs))
    /\ UNCHANGED <<frames, hi, lo, reads, flag, msgs, dispatched>>

\* Mutant: a frame is taken for whole when its header is.
TakesPartial(size) ==
    /\ pc = "parse"
    /\ size <= MAX_BUF_SIZE
    /\ Left >= Header
    /\ reads' = IF Left >= Header + size THEN reads + Header + size ELSE hi - lo
    /\ rest' = hi - lo - reads'
    /\ \E built \in Decodes(size) : msgs' = IF built THEN Append(msgs, Read(size)) ELSE msgs
    /\ UNCHANGED <<frames, pc, hi, lo, flag, count, dispatched>>

\* Mutant: the identifier is not counted in what was read.
ForgetsIdentifier(size) ==
    /\ pc = "parse"
    /\ size <= MAX_BUF_SIZE
    /\ Left >= Header + size
    /\ reads' = reads + SizeLen + size
    /\ rest' = hi - lo - reads'
    /\ \E built \in Decodes(size) : msgs' = IF built THEN Append(msgs, Read(size)) ELSE msgs
    /\ UNCHANGED <<frames, pc, hi, lo, flag, count, dispatched>>

\* Mutant: a message of unknown identifier ends the loop.
StopsAtUnknown(size) ==
    /\ pc = "parse"
    /\ size <= MAX_BUF_SIZE
    /\ Left >= Header + size
    /\ reads' = reads + Header + size
    /\ rest' = hi - lo - reads'
    /\ \E built \in Decodes(size) :
         IF built THEN msgs' = Append(msgs, Read(size)) /\ UNCHANGED <<pc, count>>
         ELSE Return(Len(msgs)) /\ UNCHANGED msgs
    /\ UNCHANGED <<frames, hi, lo, flag, dispatched>>

WholeFrame(size) ==
    /\ pc = "parse"
    /\ size <= MAX_BUF_SIZE
    /\ Left >= Header + size
    /\ reads' = reads + Header + size
    /\ rest' = hi - lo - reads'
    /\ \E built \in Decodes(size) : msgs' = IF built THEN Append(msgs, Read(size)) ELSE msgs
    /\ UNCHANGED <<frames, pc, hi, lo, flag, count, dispatched>>

-----------------------------------------------------------------------------
(* readingThread after readObjects *)

\* count = 0 and part of a message is there: keep the whole buffer, continue.
KeepBuffer ==
    /\ pc = "settle"
    /\ count = 0 /\ rest > 0
    /\ flag' = TRUE
    /\ pc' = "receive"
    /\ UNCHANGED <<frames, hi, lo, reads, rest, count, msgs, dispatched>>

\* Mutant: the whole buffer is kept, with the messages already understood.
KeepWhole ==
    /\ pc = "settle"
    /\ count # 0 /\ rest > 0 /\ reads > 0
    /\ flag' = TRUE
    /\ pc' = "dispatch"
    /\ UNCHANGED <<frames, hi, lo, reads, rest, count, msgs, dispatched>>

\* Something was understood: keep what follows the last whole frame.
KeepTail ==
    /\ pc = "settle"
    /\ count # 0 /\ rest > 0 /\ reads > 0
    /\ flag' = TRUE
    /\ lo' = lo + reads
    /\ pc' = "dispatch"
    /\ UNCHANGED <<frames, hi, reads, rest, count, msgs, dispatched>>

KeepNothing ==
    /\ pc = "settle"
    /\ rest = 0 \/ (count # 0 /\ reads = 0)
    /\ pc' = "dispatch"
    /\ UNCHANGED <<frames, bufVars, dispatched>>

\* Mutant: one message of the round is called, the others are dropped.
CallFirstOnly ==
    /\ pc = "dispatch"
    /\ msgs # <<>>
    /\ dispatched' = Append(dispatched, Head(msgs))
    /\ msgs' = <<>>
    /\ UNCHANGED <<frames, pc, hi, lo, reads, rest, flag, count>>

\* Mutant: the messages of a round are called last first.
CallReversed ==
    /\ pc = "dispatch"
    /\ msgs # <<>>
    /\ dispatched' = Append(dispatched, msgs[Len(msgs)])
    /\ msgs' = SubSeq(msgs, 1, Len(msgs) - 1)
    /\ UNCHANGED <<frames, pc, hi, lo, reads, rest, flag, count>>

\* foreach (Msg; msgs) Msg()
Call ==
    /\ pc = "dispatch"
    /\ msgs # <<>>
    /\ dispatched' = Append(dispatched, Head(msgs))
    /\ msgs' = Tail(msgs)
    /\ UNCHANGED <<frames, pc, hi, lo, reads, rest, flag, count>>

NextRound ==
    /\ pc = "dispatch"
    /\ msgs = <<>>
    /\ pc' = "receive"
    /\ UNCHANGED <<frames, bufVars, dispatched>>

-----------------------------------------------------------------------------
ParseHeader ==
    \E size \in SizeRead :
        TooBig(size) \/ IdCut(size) \/ BodyCut(size) \/ WholeFrame(size)

Parse == EndOfBuffer \/ SizeCut \/ ParseHeader
Settle == KeepBuffer \/ KeepTail \/ KeepNothing
Dispatch == Call \/ NextRound

Peer == \E size \in BodySizes, known \in BOOLEAN : Send(size, known)

Next ==
    \/ Peer
    \/ \E n \in 1 .. MAX_BUF_SIZE : Receive(n)
    \/ Disconnected
    \/ AddressFails
    \/ Parse \/ Settle \/ Dispatch

Spec == Init /\ [][Next]_vars

-----------------------------------------------------------------------------
(* Properties *)

\* Wherever TCP cuts the stream and whatever readingThread stashes in addtBuf and
\* parses again in the next round, each byte of the stream goes into one message at
\* most, and messages are called in the order of their bytes: none twice, and where
\* something the peer did not send is called, the frames it was read in never are.
InOrder ==
    \A j, k \in DOMAIN dispatched : j < k => dispatched[j].to <= dispatched[k].from

InBuffer(i) == lo <= frames[i].start /\ End(i) <= hi

\* A buffer that starts at a frame and holds no frame readObjects refuses for
\* its size is understood completely: when readObjects returns, every whole
\* message in it has been built, wherever the buffer ends.
RoundComplete ==
    /\ pc = "settle"
    /\ \E i \in DOMAIN frames : frames[i].start = lo
    /\ \A i \in DOMAIN frames :
            lo <= frames[i].start /\ frames[i].start < hi => frames[i].size <= MAX_BUF_SIZE
    => \A i \in DOMAIN frames :
            frames[i].known /\ InBuffer(i) => Message(i) \in Range(msgs)

FrameOf(p) == CHOOSE i \in DOMAIN frames : frames[i].start <= p /\ p < End(i)

\* The thread promises an ordered feed of messages that may lose some, and
\* deliver something else instead of one that is lost.
Feed == INSTANCE MessageFeed
            WITH sent <- [i \in DOMAIN frames |-> frames[i].known],
                 delivered <- [k \in DOMAIN dispatched |->
                                 LET i == FrameOf(dispatched[k].from)
                                 IN  [of |-> i, real |-> dispatched[k] = Message(i)]]
FeedSpec == Feed!Spec
=============================================================================

--------------------------- MODULE CooperativePeer ---------------------------
(***************************************************************************)
(* The conditions under which the thread of ReadingThread loses nothing.   *)
(* The code relies on them and states them nowhere: the test script in     *)
(* util/net/clSocketManager.d meets them by sleeping a second after each   *)
(* send, so that every receive ends where a send ended.  They are          *)
(*                                                                         *)
(*   - no body is longer than MAX_BUF_SIZE;                                *)
(*   - no receive ends inside the size and identifier of a frame;          *)
(*   - the rest of a frame that was cut arrives in one receive;            *)
(*   - remoteAddress() does not throw and the connection stays up.         *)
(***************************************************************************)
EXTENDS ReadingThread

ASSUME SmallBodies == BodySizes \subseteq 1 .. MAX_BUF_SIZE

CutsHeader(p) ==
    \E i \in DOMAIN frames :
        frames[i].start < p /\ p < frames[i].start + Header

CoopReceive(n) ==
    /\ ~CutsHeader(hi + n)
    /\ flag => n >= rest
    /\ Receive(n)

CoopReader ==
    \/ \E n \in 1 .. MAX_BUF_SIZE : CoopReceive(n)
    \/ Parse \/ Settle \/ Dispatch

CoopNext == Peer \/ CoopReader

CoopSpec == Init /\ [][CoopNext]_vars

\* The reading thread runs as long as it can: it blocks only in receive.
FairCoopSpec == CoopSpec /\ WF_vars(CoopReader)

-----------------------------------------------------------------------------
(* Properties *)

\* Between two rounds every message whose last byte has arrived has been called.
NoLoss ==
    pc = "receive" =>
        \A i \in DOMAIN frames :
            frames[i].known /\ End(i) <= hi => Message(i) \in Range(dispatched)

\* Nothing is called that the peer did not send, nor before its last byte came.
OnlySent ==
    \A m \in Range(dispatched) :
        \E i \in DOMAIN frames : m = Message(i) /\ frames[i].known /\ End(i) <= hi

\* The thread is never killed by the ReadException of the identifier, and
\* readObjects never reports an unreadable size.
NeverDies == pc # "dead" /\ (pc = "settle" => count # -1)

\* When addtBuf is joined to the next buffer, _rest is the number of bytes the
\* frame cut at the end of addtBuf still misses.
RestIsMissing ==
    pc = "receive" /\ flag =>
        \E i \in DOMAIN frames :
            /\ lo <= frames[i].start /\ frames[i].start < hi
            /\ hi + rest = End(i)

\* Unless the peer sends messages the reader does not know, addtBuf holds less
\* than one frame.  (With them it grows: a buffer in which no message was
\* understood is kept whole.)
StashBounded ==
    (\A i \in DOMAIN frames : frames[i].known) /\ pc = "receive" /\ flag =>
        hi - lo < Header + MAX_BUF_SIZE

\* Every message sent is eventually called.
AllCalled ==
    \A i \in 1 .. MaxFrames :
        (i \in DOMAIN frames /\ frames[i].known) ~> (i \in DOMAIN frames /\ Message(i) \in Range(dispatched))
=============================================================================

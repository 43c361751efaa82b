----------------------------- MODULE ClientScript -----------------------------
(***************************************************************************)
(* The client connect() of util/net/clSocketManager.d talking to one       *)
(* reading thread.  connect() sends two messages, "Hello" (buf1, a Bmsg)   *)
(* and "Hi" (buf2, a Cmsg), in six pieces, then closes:                    *)
(*                                                                         *)
(*    buf1 | buf1 ~ buf2 | half of buf2 | the other half |                 *)
(*    buf1 ~ half of buf2 | the other half                                 *)
(*                                                                         *)
(* that is the frames Hello Hello Hi Hi Hello Hi.  It sleeps a second      *)
(* after each piece, so that a receive ends where a piece ended.  The      *)
(* reader may still be slow and find several pieces at once.               *)
(***************************************************************************)
EXTENDS CooperativePeer

CONSTANTS Hello, Hi    \* the body lengths of the two messages

VARIABLES piece,    \* pieces sent so far
          wire      \* bytes sent so far

scriptVars == <<vars, piece, wire>>

Body == <<Hello, Hello, Hi, Hi, Hello, Hi>>

StartOf[i \in 1 .. Len(Body)] ==
    IF i = 1 THEN 0 ELSE StartOf[i - 1] + Header + Body[i - 1]

Script ==
    [i \in 1 .. Len(Body) |-> [start |-> StartOf[i], size |-> Body[i], known |-> TRUE]]

Half == (Header + Hi) \div 2      \* buf2[0..$/2]

\* The offset at which each piece ends.
PieceEnd ==
    <<StartOf[2], StartOf[4], StartOf[4] + Half, StartOf[5],
      StartOf[6] + Half, StartOf[6] + Header + Hi>>

\* The first half of buf2 holds its size and identifier, and the conversation
\* fits the receive buffer.
ASSUME ScriptAssumption ==
    /\ {Hello, Hi} \subseteq BodySizes
    /\ Half >= Header
    /\ PieceEnd[6] <= MAX_BUF_SIZE

ScriptInit == frames = Script /\ ReaderInit /\ piece = 0 /\ wire = 0

SendPiece ==
    /\ piece < Len(PieceEnd)
    /\ piece' = piece + 1
    /\ wire' = PieceEnd[piece']
    /\ UNCHANGED vars

ReceiveAll ==
    /\ wire > hi
    /\ Receive(wire - hi)
    /\ UNCHANGED <<piece, wire>>

\* sock.close(), then receive returns 0.
Close ==
    /\ piece = Len(PieceEnd) /\ hi = wire
    /\ Disconnected
    /\ UNCHANGED <<piece, wire>>

ReadStep == (Parse \/ Settle \/ Dispatch) /\ UNCHANGED <<piece, wire>>

Reader == ReceiveAll \/ ReadStep \/ Close

ScriptNext == SendPiece \/ Reader

ScriptSpec ==
    /\ ScriptInit /\ [][ScriptNext]_scriptVars
    /\ WF_scriptVars(SendPiece) /\ WF_scriptVars(Reader)

-----------------------------------------------------------------------------
(* Properties *)

\* The script keeps to the conditions of CooperativePeer: however late the
\* reader is, no receive cuts a header or brings only part of a remainder.
ScriptIsCooperative ==
    [][ReceiveAll => ~CutsHeader(hi') /\ (flag => hi' - hi >= rest)]_scriptVars

\* The conversation ends, all six messages called in order, with the reading
\* thread back from its loop.
ConversationCompletes == <>(pc = "closed" /\ dispatched = [i \in 1 .. Len(Body) |-> Message(i)])
=============================================================================

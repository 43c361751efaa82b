----------------------------- MODULE MessageFeed -----------------------------
(***************************************************************************)
(* What one connection promises to the code behind it (util/net and        *)
(* util/iprotocol.d): messages are called one at a time, in the order they *)
(* were sent, each at most once, if the reader knows them.  Any of them    *)
(* may be lost, and something that was not sent be called instead of it.   *)
(***************************************************************************)
EXTENDS Naturals, Sequences

VARIABLES sent,       \* sequence of BOOLEAN: can message i be understood
          delivered   \* what was called: [of, real], message of or something instead

Init == sent = <<>> /\ delivered = <<>>

Send(known) == sent' = Append(sent, known) /\ UNCHANGED delivered

Deliver(i) ==
    /\ sent[i]
    /\ \A k \in DOMAIN delivered : delivered[k].of < i
    /\ delivered' = Append(delivered, [of |-> i, real |-> TRUE])
    /\ UNCHANGED sent

\* Message i is lost, and other messages seem to have come in its place.
Garble(i) ==
    /\ \A k \in DOMAIN delivered :
          delivered[k].of < i \/ (delivered[k].of = i /\ ~delivered[k].real)
    /\ delivered' = Append(delivered, [of |-> i, real |-> FALSE])
    /\ UNCHANGED sent

Next ==
    \/ \E known \in BOOLEAN : Send(known)
    \/ \E i \in DOMAIN sent : Deliver(i) \/ Garble(i)

Spec == Init /\ [][Next]_<<sent, delivered>>
=============================================================================

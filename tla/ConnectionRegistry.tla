-------------------------- MODULE ConnectionRegistry --------------------------
(***************************************************************************)
(* The accepting loop listen() of util/net/socketManager.d and the reading *)
(* threads it spawns.  The loop owns the array `connections` and the       *)
(* counter `count`; a reading thread tells it about its end by a message   *)
(* in the mailbox of the loop's thread.  Of a reading thread the loop sees *)
(* only whether it runs, has returned after sending _REMOVE_CONN           *)
(* ("closed"), or died without a word ("dead"): ReadingThread's variable   *)
(* pc, seen from outside.                                                  *)
(***************************************************************************)
EXTENDS Integers, Sequences, SequencesExt, FiniteSets

CONSTANTS
    MAX_CONNECTIONS,   \* the limit the loop tests (1000)
    MaxAccepts         \* bound: connections accepted in a behaviour

ASSUME RegistryAssumption == MAX_CONNECTIONS \in Nat /\ MaxAccepts \in Nat

Tid == 1 .. MaxAccepts     \* spawn never returns the same Tid twice

VARIABLES
    pc,            \* listen(): "accept", "mailbox", "returned"; "crashed": no process
    count,
    connections,
    mailbox,       \* tids of the _REMOVE_CONN messages not yet received
    reader         \* reader[t]: what became of thread t

vars == <<pc, count, connections, mailbox, reader>>

Spawned == {t \in Tid : reader[t] # "none"}
Running == {t \in Tid : reader[t] \in {"running", "null"}}
Silent  == {t \in Tid : reader[t] = "dead"}

TypeOK ==
    /\ pc \in {"accept", "mailbox", "returned", "crashed"}
    /\ count \in Nat
    /\ connections \in Seq(Tid)
    /\ mailbox \in Seq(Tid)
    /\ reader \in [Tid -> {"none", "running", "null", "closed", "dead"}]

Init ==
    /\ pc = "accept" /\ count = 0
    /\ connections = <<>> /\ mailbox = <<>>
    /\ reader = [t \in Tid |-> "none"]

-----------------------------------------------------------------------------
(* listen() *)

\* accept() returned a socket, or threw a SocketAcceptException that is
\* swallowed: then the thread is spawned with a null socket.
Accept(socket) ==
    /\ pc = "accept" /\ count <= MAX_CONNECTIONS
    /\ Spawned # Tid
    /\ LET t == Cardinality(Spawned) + 1 IN
         /\ reader' = [reader EXCEPT ![t] = socket]
         /\ connections' = Append(connections, t)
    /\ count' = count + 1
    /\ pc' = "mailbox"
    /\ UNCHANGED mailbox

\* Mutant: the entry after the one sought is cut.
CutsNext(s, t) ==
    IF \E i \in 1 .. Len(s) - 1 : s[i] = t
    THEN RemoveAt(s, 1 + CHOOSE i \in 1 .. Len(s) - 1 : s[i] = t)
    ELSE s

\* removeConnect: its loop runs over 0 .. length - 2, so the last entry, the
\* connection accepted in this very round, is never found.
Without(s, t) ==
    IF \E i \in 1 .. Len(s) - 1 : s[i] = t
    THEN RemoveAt(s, CHOOSE i \in 1 .. Len(s) - 1 : s[i] = t)
    ELSE s

\* Mutant: count falls only when the connection was found.
CountsFound ==
    /\ pc = "mailbox" /\ mailbox # <<>>
    /\ connections' = Without(connections, Head(mailbox))
    /\ mailbox' = Tail(mailbox)
    /\ count' = count - (Len(connections) - Len(connections'))
    /\ pc' = "accept"
    /\ UNCHANGED reader

\* Mutant: every waiting message is handled.
EmptiesMailbox ==
    /\ pc = "mailbox" /\ mailbox # <<>>
    /\ connections' = SelectSeq(connections, LAMBDA t : ~Contains(mailbox, t))
    /\ mailbox' = <<>>
    /\ count' = count - Len(mailbox)
    /\ pc' = "accept"
    /\ UNCHANGED reader

\* receiveTimeout handles one message; count falls whether or not the
\* connection was found.
Removal ==
    /\ pc = "mailbox" /\ mailbox # <<>>
    /\ connections' = Without(connections, Head(mailbox))
    /\ mailbox' = Tail(mailbox)
    /\ count' = count - 1
    /\ pc' = "accept"
    /\ UNCHANGED reader

Timeout ==
    /\ pc = "mailbox" /\ mailbox = <<>>
    /\ pc' = "accept"
    /\ UNCHANGED <<count, connections, mailbox, reader>>

LimitReached ==
    /\ pc = "accept" /\ count > MAX_CONNECTIONS
    /\ pc' = "returned"
    /\ UNCHANGED <<count, connections, mailbox, reader>>

-----------------------------------------------------------------------------
(* reading threads *)

Alive == pc # "crashed"

Close(t) ==
    /\ Alive /\ reader[t] = "running"
    /\ reader' = [reader EXCEPT ![t] = "closed"]
    /\ mailbox' = Append(mailbox, t)
    /\ UNCHANGED <<pc, count, connections>>

\* An exception nothing catches; listen() used spawn, not spawnLinked, and is
\* not told.
Die(t) ==
    /\ Alive /\ reader[t] = "running"
    /\ reader' = [reader EXCEPT ![t] = "dead"]
    /\ UNCHANGED <<pc, count, connections, mailbox>>

\* sock.blocking on a null Socket: the process ends, or on a system that turns
\* the fault into an exception, the thread.
NullSocket(t) ==
    /\ Alive /\ reader[t] = "null"
    /\ \/ pc' = "crashed" /\ reader' = [s \in Tid |-> "none"]
       \/ pc' = pc /\ reader' = [reader EXCEPT ![t] = "dead"]
    /\ UNCHANGED <<count, connections, mailbox>>

Listen == Accept("running") \/ Removal \/ Timeout \/ LimitReached
AcceptFails == Accept("null")
Reader(t) == Close(t) \/ Die(t) \/ NullSocket(t)

Next == Listen \/ AcceptFails \/ \E t \in Tid : Reader(t)

Spec == Init /\ [][Next]_vars

-----------------------------------------------------------------------------
(* Properties *)

\* What count counts: the threads still running, those that died unnoticed, and
\* those whose message is waiting.  So a thread that dies without sending
\* _REMOVE_CONN takes its place for ever.
CountMeaning ==
    Alive => count = Cardinality(Running) + Cardinality(Silent) + Len(mailbox)

\* A running connection is listed, once, whatever entries were removed around
\* it: removeConnect takes out the right one or none.
LiveListed ==
    Alive => /\ \A t \in Running : \E i \in DOMAIN connections : connections[i] = t
             /\ \A i, j \in DOMAIN connections : connections[i] = connections[j] => i = j

\* Each round adds a connection and removes at most one, so at the head of the
\* loop count never falls: places given back while nobody connects are lost one
\* by one, and the loop ends for good after MAX_CONNECTIONS + 1 of them.
NeverRecovers ==
    \A k \in 1 .. MAX_CONNECTIONS + 1 :
        [](pc = "accept" /\ count >= k => [](pc = "accept" => count >= k))
=============================================================================

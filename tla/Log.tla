---------------------------------- MODULE Log ----------------------------------
(***************************************************************************)
(* The logs of util/log.d.  The map of logs is thread local, the files it  *)
(* names are not: every thread that uses a log opens the same file anew,   *)
(* with a position and a buffer of its own, and truncates it.              *)
(*                                                                         *)
(* A line is <<t, i>>, the i-th message thread t gives to a log, and takes *)
(* one place of a file: that lines of different lengths overlap in part is *)
(* left out.  Names of logs are not empty, and what is only printed on the *)
(* console is left out.                                                    *)
(***************************************************************************)
EXTENDS Naturals, Sequences

CONSTANTS
    Threads,
    Logs,          \* names, each of one file of DEFAULT_DIR
    hole,          \* a place of a file nobody wrote: zero bytes
    MaxMessages    \* bound: messages a thread gives to one log

VARIABLES
    file,          \* what is on the disk; the empty file too before there is one
    entry,         \* the entry of logsMap: "none", "open" or "closed"
    position,      \* where the handle of t writes next
    buffer,        \* what stdio holds back of it
    running,       \* threads that have not ended
    given,         \* history: the messages t gave to the log, counted
    kept,          \* history: the lines among them that found the log open
    opened         \* history: the threads that ever opened the file

vars == <<file, entry, position, buffer, running, given, kept, opened>>

\* A line of a log.
Line == Threads \X Nat

TypeOK ==
    /\ file \in [Logs -> Seq(Line \cup {hole})]
    /\ entry \in [Threads -> [Logs -> {"none", "open", "closed"}]]
    /\ position \in [Threads -> [Logs -> Nat]]
    /\ buffer \in [Threads -> [Logs -> Seq(Line)]]
    /\ running \subseteq Threads
    /\ given \in [Threads -> [Logs -> Nat]]
    /\ kept \in [Threads -> [Logs -> Seq(Line)]]
    /\ opened \in [Logs -> SUBSET Threads]

Init ==
    /\ file = [l \in Logs |-> <<>>]
    /\ entry = [t \in Threads |-> [l \in Logs |-> "none"]]
    /\ position = [t \in Threads |-> [l \in Logs |-> 0]]
    /\ buffer = [t \in Threads |-> [l \in Logs |-> <<>>]]
    /\ running = Threads
    /\ given = [t \in Threads |-> [l \in Logs |-> 0]]
    /\ kept = [t \in Threads |-> [l \in Logs |-> <<>>]]
    /\ opened = [l \in Logs |-> {}]

-----------------------------------------------------------------------------
\* text written into file f at position p, over what is there.
WriteAt(f, p, text) ==
    [i \in 1 .. (IF text = <<>> \/ p + Len(text) < Len(f) THEN Len(f) ELSE p + Len(text)) |->
        IF i \in p + 1 .. p + Len(text) THEN text[i - p]
        ELSE IF i <= Len(f) THEN f[i] ELSE hole]

\* The entry of the thread for the log, and the file it opens with "w".
Open(t, l) ==
    /\ entry' = [entry EXCEPT ![t][l] = "open"]
    /\ file' = [file EXCEPT ![l] = <<>>]
    /\ position' = [position EXCEPT ![t][l] = 0]
    /\ buffer' = [buffer EXCEPT ![t][l] = <<>>]
    /\ opened' = [opened EXCEPT ![l] = @ \cup {t}]

\* new File may throw: then nothing is registered.
OpenFails == UNCHANGED <<entry, file, position, buffer, opened>>

\* Mutant: a log that is already in the map is opened again.
Reopens(t, l) ==
    /\ t \in running
    /\ Open(t, l) \/ OpenFails
    /\ UNCHANGED <<running, given, kept>>

\* createLog: only a log that is not in the map of the thread.
CreateLog(t, l) ==
    /\ t \in running
    /\ entry[t][l] = "none"
    /\ Open(t, l) \/ OpenFails
    /\ UNCHANGED <<running, given, kept>>

Give(t, l) ==
    /\ t \in running
    /\ given[t][l] < MaxMessages
    /\ given' = [given EXCEPT ![t][l] = @ + 1]

\* writeLog to a log the thread has not created: it is created, and the message
\* is not written.
WriteCreates(t, l) ==
    /\ Give(t, l)
    /\ entry[t][l] = "none"
    /\ Open(t, l) \/ OpenFails
    /\ UNCHANGED <<running, kept>>

\* Mutant: each writing thread finds out where the file ends.
WriteAppends(t, l) ==
    /\ Give(t, l)
    /\ entry[t][l] = "open"
    /\ position' = [position EXCEPT ![t][l] = Len(file[l])]
    /\ buffer' = [buffer EXCEPT ![t][l] = Append(@, <<t, given'[t][l]>>)]
    /\ kept' = [kept EXCEPT ![t][l] = Append(@, <<t, given'[t][l]>>)]
    /\ UNCHANGED <<file, entry, running, opened>>

\* writeLog to an open log: the line goes to the buffer of the thread's handle.
Write(t, l) ==
    /\ Give(t, l)
    /\ entry[t][l] = "open"
    /\ buffer' = [buffer EXCEPT ![t][l] = Append(@, <<t, given'[t][l]>>)]
    /\ kept' = [kept EXCEPT ![t][l] = Append(@, <<t, given'[t][l]>>)]
    /\ UNCHANGED <<file, entry, position, running, opened>>

\* writeLog to a closed log: the exception is caught and the message is lost.
WriteClosed(t, l) ==
    /\ Give(t, l)
    /\ entry[t][l] = "closed"
    /\ UNCHANGED <<file, entry, position, buffer, running, kept, opened>>

\* What the handles of t to the logs S hold back is written, and their positions
\* advance.
Flush(t, S) ==
    /\ file' = [l \in Logs |-> IF l \in S THEN WriteAt(file[l], position[t][l], buffer[t][l])
                               ELSE file[l]]
    /\ position' = [position EXCEPT ![t] =
           [l \in Logs |-> IF l \in S THEN @[l] + Len(buffer[t][l]) ELSE @[l]]]
    /\ buffer' = [buffer EXCEPT ![t] = [l \in Logs |-> IF l \in S THEN <<>> ELSE @[l]]]

\* The buffer is full.
Spill(t, l) ==
    /\ entry[t][l] = "open" /\ buffer[t][l] # <<>>
    /\ Flush(t, {l})
    /\ UNCHANGED <<entry, running, given, kept, opened>>

\* closeLog: the file is closed, the entry stays in the map.
CloseLog(t, l) ==
    /\ t \in running
    /\ entry[t][l] = "open"
    /\ Flush(t, {l})
    /\ entry' = [entry EXCEPT ![t][l] = "closed"]
    /\ UNCHANGED <<running, given, kept, opened>>

\* The thread ends, with an exception or without: static ~this closes its logs.
End(t) ==
    /\ t \in running
    /\ running' = running \ {t}
    /\ Flush(t, {l \in Logs : entry[t][l] = "open"})
    /\ entry' = [entry EXCEPT ![t] = [l \in Logs |-> IF @[l] = "open" THEN "closed" ELSE @[l]]]
    /\ UNCHANGED <<given, kept, opened>>

Next ==
    \E t \in Threads :
        \/ End(t)
        \/ \E l \in Logs :
             \/ CreateLog(t, l) \/ CloseLog(t, l) \/ Spill(t, l)
             \/ WriteCreates(t, l) \/ Write(t, l) \/ WriteClosed(t, l)

Spec == Init /\ [][Next]_vars

-----------------------------------------------------------------------------
(* Properties *)

\* A log that one thread only ever opened holds, once that thread closed it or
\* ended, every message given while it was open, in order and nothing else,
\* whatever the other threads and other logs do.
OwnLogWhole ==
    \A t \in Threads, l \in Logs :
        opened[l] = {t} /\ entry[t][l] = "closed" => file[l] = kept[t][l]

\* Of a log several threads opened much may be lost, but not its order: the line
\* at the i-th place of the file is the i-th line some thread kept in it.
LinesAtTheirPlace ==
    \A l \in Logs : \A i \in DOMAIN file[l] :
        \/ file[l][i] = hole
        \/ \E t \in opened[l] : i \in DOMAIN kept[t][l] /\ file[l][i] = kept[t][l][i]
=============================================================================

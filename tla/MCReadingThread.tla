--------------------------- MODULE MCReadingThread ---------------------------
(* ReadingThread on a scaled stream: a frame opens with 2 + 1 bytes where the *)
(* code has 8 + 4, and bodies are 1 byte, 3 bytes or too big for the buffer.  *)
EXTENDS ReadingThread

MCBodySizes == {1, MAX_BUF_SIZE, MAX_BUF_SIZE + 1}

Refused(i) == frames[i].size > MAX_BUF_SIZE

\* One frame at most cannot be understood, anywhere among the others; whether the
\* identifier of one that is too big is known does not matter, it is never read.
Bound ==
    /\ \A i, j \in DOMAIN frames :
          (Refused(i) \/ ~frames[i].known) /\ (Refused(j) \/ ~frames[j].known) => i = j
    /\ \A i \in DOMAIN frames : Refused(i) => frames[i].known
=============================================================================

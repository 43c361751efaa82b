------------------------------- MODULE MCThreads -------------------------------
(* The threads of one process and what they do besides messages: three of them *)
(* ask for the single object of a class, or two write their logs, or the main  *)
(* thread of the server reads its console.  A behaviour is one of the three.   *)
EXTENDS Singleton, Sequences

CONSTANTS Writers, Logs, hole, MaxMessages, Letters, MaxLine
VARIABLES
    file, entry, position, buffer, running, given, kept, opened,
    list, input, line, argv, shown, loop,
    about

Shared == INSTANCE Log WITH Threads <- Writers
Terminal == INSTANCE Console

logVars == <<file, entry, position, buffer, running, given, kept, opened>>
consoleVars == <<list, input, line, argv, shown, loop>>

AllInit ==
    /\ Init /\ Shared!Init /\ Terminal!Init
    /\ about \in {"object", "logs", "console"}

ShareObject == about = "object" /\ Next /\ UNCHANGED <<logVars, consoleVars, about>>
ShareLogs == about = "logs" /\ Shared!Next /\ UNCHANGED <<vars, consoleVars, about>>
UseConsole == about = "console" /\ Terminal!Next /\ UNCHANGED <<vars, logVars, about>>

\* The fairness of Singleton!FairSpec, for the behaviours that are about it.
ObjectFairness ==
    \A t \in Threads :
        /\ WF_vars(about = "object"
              /\ (ReadUnlocked(t) \/ Check(t) \/ Create(t) \/ CreateFails(t) \/ Leave(t)))
        /\ SF_vars(about = "object" /\ Enter(t))

AllSpec ==
    /\ AllInit
    /\ [][ShareObject \/ ShareLogs \/ UseConsole]_<<vars, logVars, consoleVars, about>>
    /\ ObjectFairness /\ Terminal!Fairness

\* The log of one thread is whole: see Log.
OwnLogWhole == Shared!OwnLogWhole

\* The lines of a log of several threads are in their order: see Log.
LinesAtTheirPlace == Shared!LinesAtTheirPlace

\* The words of the console's line are the line: see Console.
WordsAreTheLine == Terminal!WordsAreTheLine

\* The console's loop ends with its input: see Console.
EndOfInputEnds == Terminal!EndOfInputEnds
=============================================================================

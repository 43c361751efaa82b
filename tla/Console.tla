-------------------------------- MODULE Console --------------------------------
(***************************************************************************)
(* The console of the server: the loop of server/app.d that reads lines,   *)
(* the Manager of util/concomms/commandmng.d that cuts them into words and *)
(* finds the command, and the two commands there are.                      *)
(*                                                                         *)
(* A character is a blank, the newline or a member of Letters, in which    *)
(* the names the program knows are one character each: of a name that lost *)
(* its last letter nothing is left, which like what would be left is not a *)
(* name.                                                                   *)
(***************************************************************************)
EXTENDS Naturals, Sequences, SequencesExt, FiniteSets

CONSTANTS
    Letters,
    MaxLine       \* bound: characters of a line before its newline

VARIABLES
    list,         \* Manager.list
    input,        \* has the input more lines, "open", or has it "ended"?
    line,         \* the line read last
    argv,         \* the words it was cut into
    shown,        \* what the command printed
    loop          \* "on", "left" by flag, or "thrown" out of

vars == <<list, input, line, argv, shown, loop>>

Get == [call |-> "get", alias |-> "get"]
Help == [call |-> "help", alias |-> "?"]

Init ==
    /\ list = <<>>
    /\ input = "open"
    /\ line = <<>> /\ argv = <<>> /\ shown = <<>>
    /\ loop = "on"

-----------------------------------------------------------------------------
\* Manager.register, which the modules of the commands call before the loop.
Register(command) ==
    /\ line = <<>> /\ input = "open" /\ loop = "on"
    /\ \A i \in DOMAIN list : list[i] # command
    /\ list' = Append(list, command)
    /\ UNCHANGED <<input, line, argv, shown, loop>>

\* Mutant: a word begins at the blank before it.
WordsWithBlanks(text) ==
    LET ends == {i \in DOMAIN text : text[i] = " " \/ i = Len(text)}
    IN  [k \in 1 .. Cardinality(ends) |->
            LET i == CHOOSE n \in ends : Cardinality({m \in ends : m < n}) = k - 1
                j == CHOOSE n \in ends \cup {1} : n < i /\ \A m \in ends : m <= n \/ m >= i
            IN  IF i = 1 THEN <<>> ELSE SubSeq(text, j, i - 1)]

\* translate: a word ends before each blank and before the last character.
Translate(text) ==
    LET ends == {i \in DOMAIN text : text[i] = " " \/ i = Len(text)}
    IN  [k \in 1 .. Cardinality(ends) |->
            LET i == CHOOSE n \in ends : Cardinality({m \in ends : m < n}) = k - 1
                j == CHOOSE n \in ends \cup {0} : n < i /\ \A m \in ends : m <= n \/ m >= i
            IN  SubSeq(text, j + 1, i - 1)]

Answers(command, word) == word \in {<<command.call>>, <<command.alias>>}

\* The first command of the list that answers to the word, if there is one.
Found(word) ==
    LET fits == {i \in DOMAIN list : Answers(list[i], word)}
    IN  IF fits = {} THEN <<>> ELSE <<list[CHOOSE i \in fits : \A n \in fits : i <= n]>>

\* execute of Get and Help: help on itself, and what its argument asks for.
Executed(command, words) ==
    IF Len(words) = 1 THEN <<"help", command.call>>
    ELSE IF command = Get
         THEN IF words[2] = <<"list">> THEN <<"list">> ELSE <<"wrong", words[2]>>
    ELSE IF Found(words[2]) = <<>> THEN <<>>
    ELSE <<"description", Found(words[2])[1].call>>

\* Mutant: a line without words is passed over.
ExecQuietly(text) ==
    /\ argv' = Translate(text)
    /\ shown' = IF argv' = <<>> \/ Found(argv'[1]) = <<>> THEN <<>>
                ELSE Executed(Found(argv'[1])[1], argv')
    /\ UNCHANGED loop

\* exec: a line without words throws, one that names no command does nothing.
Exec(text) ==
    /\ argv' = Translate(text)
    /\ shown' = IF argv' = <<>> \/ Found(argv'[1]) = <<>> THEN <<>>
                ELSE Executed(Found(argv'[1])[1], argv')
    /\ loop' = IF argv' = <<>> THEN "thrown" ELSE loop

\* One turn of startLooping with what readln returned.
Turn(text) ==
    /\ loop = "on"
    /\ line' = text
    /\ IF text = <<"exit", "\n">>
       THEN loop' = "left" /\ UNCHANGED <<argv, shown>>
       ELSE Exec(text)
    /\ UNCHANGED list

\* The user types a line; the last one before the end of the input has perhaps no
\* newline.
ReadLine(text) == input = "open" /\ Turn(Append(text, "\n")) /\ UNCHANGED input

ReadLast(text) == input = "open" /\ text # <<>> /\ Turn(text) /\ input' = "ended"

\* At the end of the input readln returns an empty line.
ReadNothing == Turn(<<>>) /\ input' = "ended"

Lines == BoundedSeq(Letters \cup {" "}, MaxLine)

Next ==
    \/ \E command \in {Get, Help} : Register(command)
    \/ \E text \in Lines : ReadLine(text) \/ ReadLast(text)
    \/ ReadNothing

Spec == Init /\ [][Next]_vars

\* The loop runs on: at the end of the input readln does not wait.
Fairness == WF_vars(input = "ended" /\ ReadNothing)

-----------------------------------------------------------------------------
(* Properties *)

Joined(words) == FlattenSeq([k \in DOMAIN words |-> IF k = 1 THEN words[k] ELSE <<" ">> \o words[k]])

\* The words of a line that ends with a newline are the line: put together again
\* with blanks they give what was typed, and none has a blank in it.
WordsAreTheLine ==
    loop = "on" /\ line # <<>> /\ Last(line) = "\n" =>
        /\ Joined(argv) = Front(line)
        /\ \A k \in DOMAIN argv : ~Contains(argv[k], " ")

\* When the input ends, so does the loop, if only by the exception: a server
\* whose console is closed does not spin on empty lines.
EndOfInputEnds == input = "ended" ~> loop # "on"
=============================================================================

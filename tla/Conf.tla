---------------------------------- MODULE Conf ----------------------------------
(***************************************************************************)
(* A configuration file of util/conf.d: writeConf writes a structure into  *)
(* it, readConf reads it back when the program is started again, and takes *)
(* the default when that throws.  The file is opened for writing without   *)
(* being truncated.                                                        *)
(***************************************************************************)
EXTENDS Gendoc

CONSTANTS
    Confs,          \* what a program writes: sequences of fields
    Again,          \* of these, what it writes over an older file or dies writing
    default,        \* the structure with its initial values
    MaxWrites       \* bound: writes of the one file

VARIABLES
    file,           \* the text of the file, empty before there is one
    written,        \* history: the structures written, the last one at the end
    got,            \* what was read, or what was thrown; after Error there is no program
    torn            \* history: was a write over an older text broken off?

vars == <<file, written, got, torn>>

Init ==
    /\ file = <<>>
    /\ written = <<>>
    /\ got = default /\ torn = FALSE

\* The program writes one kind of structure into one file.
Writable(fields) ==
    /\ got # Error
    /\ Len(written) < MaxWrites
    /\ written # <<>> => fields \in Again

\* Mutant: the text is added to the file.
OverAppended(text) == file \o text

\* text over what the file holds, whose end stays if it is longer.
Over(text) == text \o After(file, Len(text))

\* writeConf
WriteConf(fields) ==
    /\ Writable(fields)
    /\ file' = Over(Write(fields))
    /\ written' = Append(written, fields)
    /\ UNCHANGED <<got, torn>>

\* The program dies in the middle of writeConf, which writes piece by piece.
Dies(fields) ==
    /\ Writable(fields) /\ fields \in Again
    /\ \E n \in 0 .. Len(Write(fields)) : file' = Over(SubSeq(Write(fields), 1, n))
    /\ written' = Append(written, fields)
    /\ torn' = (torn \/ file # <<>>)
    /\ UNCHANGED got

Deserialized ==
    /\ got # Error /\ written # <<>>
    /\ UNCHANGED <<file, written, torn>>

\* readConf: an exception gives the default, an error goes on.
ReadConf ==
    /\ Deserialized
    /\ LET outcome == Read(file, Last(written))
       IN  got' = IF outcome = Exception THEN default ELSE outcome

\* readConfCritical: the exception goes on, too, to a caller who catches it.
ReadConfCritical ==
    /\ Deserialized
    /\ got' = Read(file, Last(written))

Next ==
    \/ \E fields \in Confs : WriteConf(fields) \/ Dies(fields)
    \/ ReadConf \/ ReadConfCritical

Spec == Init /\ [][Next]_vars

-----------------------------------------------------------------------------
(* Properties *)

\* The square brackets before position i move a character there as much to the right
\* before the round ones are escaped; beyond the closing quote none is.
MovesTo(s, i) == i + Len(SelectSeq(Before(s, i), LAMBDA c : c \in {"[", "]"}))

\* Fields the format can hold: arrays of at least two elements; map entries of one
\* letter or digit each; strings without quotes, tabs, braces, escapes, bells and
\* comments, whose last bracket is a closing one, and in which no opening round
\* bracket is moved out of the quotes before it is escaped.
Plainly(s) ==
    /\ \A i \in DOMAIN s : s[i] \notin {Quote, Escape, Bell, "{", "}", Tab, NewLine}
    /\ ~\E i \in DOMAIN s : s[i] = "/" /\ IsAt(s, i + 1, "/")
    /\ \A i \in DOMAIN s : s[i] \in {"(", "["} => \E n \in i + 1 .. Len(s) : s[n] \in {")", "]"}
    /\ \A i \in DOMAIN s : s[i] = "(" => MovesTo(s, i) <= Len(s)

EntryChars == {"a", "b"} \cup Digits

Holdable(f) ==
    /\ f.kind = "string" => Plainly(f.val)
    /\ f.kind = "array" => Len(f.val) >= 2
    /\ f.kind = "map" => \A i \in DOMAIN f.val : \A k \in 1 .. 2 : \E c \in EntryChars : f.val[i][k] = <<c>>

AllHoldable(fields) == \A i \in DOMAIN fields : Holdable(fields[i])

\* What was written into a new file is read back, field by field, when the format
\* can hold it, and no field disturbs the others.
ComesBack ==
    [][Deserialized /\ Len(written) = 1 /\ file = Write(written[1]) /\ AllHoldable(written[1])
          => got' = written[1]]_vars

\* However often the file was written over, reading gives the structure written
\* last, the default or an exception, never a mixture of several nor a part of one,
\* also when the write of a new file was broken off; only a broken write over an
\* older text may leave a mixture.
NeverMixed ==
    [][Deserialized /\ ~torn /\ (\A i \in DOMAIN written : AllHoldable(written[i])) =>
          got' \in {Last(written), default, Exception}]_vars
=============================================================================
